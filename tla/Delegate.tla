------------------------------ MODULE Delegate ------------------------------
(***************************************************************************)
(* The life of one Go-implemented delegate                                 *)
(* (bindings/runtime/winrt/delegate.go): the registry that pins it, its    *)
(* reference count, and Invoke.                                            *)
(*                                                                         *)
(* Every operation first looks the delegate up in the registry under       *)
(* delegateMu and acts afterwards, in steps of its own.  Native callers'   *)
(* AddRef, QueryInterface and Release run on the dispatcher's worker, one  *)
(* at a time (module Dispatch), or in place on the declared thread; the Go *)
(* owner's Release runs on the owner's goroutine, between any two of       *)
(* those steps.  A handler's body runs on a goroutine of its own.          *)
(*                                                                         *)
(* A reference is a name: AddRef gives one a meaning and Release takes it  *)
(* away.  Callers keep COM's rules: the reference they call through stays  *)
(* theirs during the call.  A caller without one comes too late, after     *)
(* the last Release, and is what the registry is there to refuse.          *)
(***************************************************************************)
EXTENDS Integers, FiniteSets

CONSTANTS
    Refs,        \* names for the references ever held (a bound of the model)
    OwnerRef,    \* the reference NewDelegate leaves with its Go caller
    InlineRefs,  \* the references used from the declared thread
    None

ASSUME DelegateAssumption ==
    /\ OwnerRef \in Refs
    /\ InlineRefs \subseteq Refs \ {OwnerRef}
    /\ None \notin Refs

VARIABLES
    created,     \* NewDelegate has run
    registered,  \* the delegate is in delegateRegistry
    refs,        \* Delegate.refs
    ref,         \* where each reference stands
    via,         \* the reference an AddRef or QueryInterface goes through
    out,         \* what QueryInterface wrote to its out-pointer
    worker,      \* the reference whose operation occupies the worker
    invoke       \* where the Invoke made through each reference stands

vars == <<created, registered, refs, ref, via, out, worker, invoke>>

TypeOK ==
    /\ created \in BOOLEAN
    /\ registered \in BOOLEAN
    /\ refs \in Nat
    /\ ref \in [Refs -> {"free", "checked", "held", "releasing", "unpinning"}]
    /\ via \in [Refs -> Refs \cup {None}]
    /\ out \in [Refs -> {"none", "asked", "null", "object"}]
    /\ worker \in Refs \cup {None}
    /\ invoke \in [Refs -> {"idle", "called", "running", "refused", "done"}]

Init ==
    /\ created = FALSE
    /\ registered = FALSE
    /\ refs = 0
    /\ ref = [r \in Refs |-> "free"]
    /\ via = [r \in Refs |-> None]
    /\ out = [r \in Refs |-> "none"]
    /\ worker = None
    /\ invoke = [r \in Refs |-> "idle"]

\* The references the count stands for.
Counted == {r \in Refs : ref[r] \in {"held", "releasing"}}

\* No call that relies on reference r is in progress.
Unused(r) ==
    /\ invoke[r] = "idle"
    /\ \A a \in Refs : via[a] # r

\* A call through s: its caller holds s, or comes after the last Release.
Calls(s) == ref[s] = "held" \/ (created /\ ~registered)

-----------------------------------------------------------------------------
NewDelegate ==
    /\ ~created
    /\ created' = TRUE
    /\ registered' = TRUE
    /\ refs' = 1
    /\ ref' = [ref EXCEPT ![OwnerRef] = "held"]
    /\ UNCHANGED <<via, out, worker, invoke>>

\* Mistake: the native this word is trusted without a lookup.
Trusted == TRUE

\* registered(this), under delegateMu.  An AddRef or a Release it refuses answers
\* 0 and changes nothing.
Registered == registered

(* delegateAddRef and delegateQI, as the worker or the declared thread runs  *)
(* them for the reference r they are to make.                                *)

TakeWorker(r) ==
    IF r \in InlineRefs THEN UNCHANGED worker
    ELSE worker = None /\ worker' = r

LeaveWorker(r) == worker' = IF worker = r THEN None ELSE worker

\* The lookup succeeds; the count is still to be raised.
CheckAddRef(r, s, query) ==
    /\ ref[r] = "free" /\ r # OwnerRef
    /\ Calls(s)
    /\ Registered
    /\ TakeWorker(r)
    /\ ref' = [ref EXCEPT ![r] = "checked"]
    /\ via' = [via EXCEPT ![r] = s]
    /\ out' = [out EXCEPT ![r] = IF query THEN "asked" ELSE "none"]
    /\ UNCHANGED <<created, registered, refs, invoke>>

\* QueryInterface of a dead delegate, with no IID or for an IID that is not the
\* delegate's writes null and makes no reference.
RefuseQuery(r, s) ==
    /\ ref[r] = "free" /\ r # OwnerRef
    /\ Calls(s)
    /\ r \in InlineRefs \/ worker = None
    /\ out' = [out EXCEPT ![r] = "null"]
    /\ UNCHANGED <<created, registered, refs, ref, via, worker, invoke>>

\* Mistake: QueryInterface hands out the object without counting the reference.
CompleteUncounted(r) ==
    /\ ref[r] = "checked"
    /\ refs' = IF out[r] = "asked" THEN refs ELSE refs + 1
    /\ ref' = [ref EXCEPT ![r] = "held"]
    /\ via' = [via EXCEPT ![r] = None]
    /\ out' = [out EXCEPT ![r] = IF out[r] = "asked" THEN "object" ELSE "none"]
    /\ LeaveWorker(r)
    /\ UNCHANGED <<created, registered, invoke>>

CompleteAddRef(r) ==
    /\ ref[r] = "checked"
    /\ refs' = refs + 1
    /\ ref' = [ref EXCEPT ![r] = "held"]
    /\ via' = [via EXCEPT ![r] = None]
    /\ out' = [out EXCEPT ![r] = IF out[r] = "asked" THEN "object" ELSE "none"]
    /\ LeaveWorker(r)
    /\ UNCHANGED <<created, registered, invoke>>

-----------------------------------------------------------------------------
(* delegateRelease: by a native caller through the worker, by the Go owner   *)
(* on its own goroutine.                                                     *)

CheckRelease(r) ==
    /\ ref[r] \in {"held", "free"} /\ Calls(r)
    /\ Unused(r)
    /\ Registered
    /\ IF r = OwnerRef THEN UNCHANGED worker ELSE TakeWorker(r)
    /\ ref' = [ref EXCEPT ![r] = "releasing"]
    /\ out' = [out EXCEPT ![r] = "none"]
    /\ UNCHANGED <<created, registered, refs, via, invoke>>

\* Mistake: the last reference is taken to be gone one Release early.
DecrementEarly(r) ==
    /\ ref[r] = "releasing"
    /\ refs' = refs - 1
    /\ IF refs - 1 <= 1
       THEN ref' = [ref EXCEPT ![r] = "unpinning"] /\ UNCHANGED worker
       ELSE ref' = [ref EXCEPT ![r] = "free"] /\ LeaveWorker(r)
    /\ UNCHANGED <<created, registered, via, out, invoke>>

\* Mistake: no Release ever removes the delegate from the registry.
DecrementOnly(r) ==
    /\ ref[r] = "releasing"
    /\ refs' = refs - 1
    /\ ref' = [ref EXCEPT ![r] = "free"]
    /\ LeaveWorker(r)
    /\ UNCHANGED <<created, registered, via, out, invoke>>

\* remaining := refs.Add(-1): only the Release that sees zero goes on.
Decrement(r) ==
    /\ ref[r] = "releasing"
    /\ refs' = refs - 1
    /\ IF refs - 1 = 0
       THEN ref' = [ref EXCEPT ![r] = "unpinning"] /\ UNCHANGED worker
       ELSE ref' = [ref EXCEPT ![r] = "free"] /\ LeaveWorker(r)
    /\ UNCHANGED <<created, registered, via, out, invoke>>

\* delete(delegateRegistry, ...), under delegateMu.
Unpin(r) ==
    /\ ref[r] = "unpinning"
    /\ registered' = FALSE
    /\ ref' = [ref EXCEPT ![r] = "free"]
    /\ LeaveWorker(r)
    /\ UNCHANGED <<created, refs, via, out, invoke>>

-----------------------------------------------------------------------------
(* dispatchInvoke, by a caller that holds r or comes too late.  The lookup   *)
(* is made on the handler's goroutine, or in place on the declared thread,   *)
(* some time after the call came in and before the body runs.                *)

CallInvoke(r) ==
    /\ ref[r] \in {"held", "free"} /\ Calls(r)
    /\ invoke[r] = "idle"
    /\ invoke' = [invoke EXCEPT ![r] = "called"]
    /\ UNCHANGED <<created, registered, refs, ref, via, out, worker>>

CheckInvoke(r) ==
    /\ invoke[r] = "called"
    /\ invoke' = [invoke EXCEPT ![r] = IF Registered THEN "running" ELSE "refused"]
    /\ UNCHANGED <<created, registered, refs, ref, via, out, worker>>

\* The body returns its HRESULT, or panics and invokeContained answers for it.
FinishInvoke(r) ==
    /\ invoke[r] = "running"
    /\ invoke' = [invoke EXCEPT ![r] = "done"]
    /\ UNCHANGED <<created, registered, refs, ref, via, out, worker>>

ReturnInvoke(r) ==
    /\ invoke[r] \in {"done", "refused"}
    /\ invoke' = [invoke EXCEPT ![r] = "idle"]
    /\ UNCHANGED <<created, registered, refs, ref, via, out, worker>>

-----------------------------------------------------------------------------
AddRefStep(r) ==
    \/ \E s \in Refs : CheckAddRef(r, s, TRUE)
    \/ \E s \in Refs : CheckAddRef(r, s, FALSE)
    \/ \E s \in Refs : RefuseQuery(r, s)
    \/ CompleteAddRef(r)

ReleaseStep(r) == CheckRelease(r) \/ Decrement(r) \/ Unpin(r)

InvokeStep(r) ==
    \/ CallInvoke(r)
    \/ CheckInvoke(r)
    \/ FinishInvoke(r)
    \/ ReturnInvoke(r)

Next ==
    \/ NewDelegate
    \/ \E r \in Refs : AddRefStep(r) \/ ReleaseStep(r) \/ InvokeStep(r)

\* A goroutine that has begun an operation finishes it.
Fairness == \A r \in Refs : WF_vars(CompleteAddRef(r) \/ Decrement(r) \/ Unpin(r))

Spec == Init /\ [][Next]_vars /\ Fairness

-----------------------------------------------------------------------------
(* Properties.                                                             *)

\* As long as anyone holds the delegate or is about to, it is registered and its
\* count is the number of references held: no interleaving of the owner's direct
\* Release with the worker's operations frees it early (delegateRelease).
PinnedWhileHeld ==
    /\ refs = Cardinality(Counted)
    /\ \A r \in Refs : ref[r] \in {"held", "checked", "releasing"} => registered

\* An Invoke through a reference that is held is served however late its
\* goroutine gets to the lookup; "invoked after release" is for the others.
HeldInvokeServed == \A r \in Refs : invoke[r] = "refused" => ref[r] # "held"

\* A delegate that has left the registry stays as it is: late calls through a
\* dangling pointer neither revive it nor touch its count.
NeverRevived ==
    [][created /\ ~registered => UNCHANGED <<registered, refs, ref>>]_vars

\* The delegate lives exactly as COM asks, and leaves the registry once nobody
\* holds it.
Com == INSTANCE ComLifetime WITH
    Reference <- Refs,
    First <- OwnerRef,
    holding <- Counted,
    life <- IF ~created THEN "unborn" ELSE IF registered THEN "alive" ELSE "gone"

LivesByComRules == Com!Spec

\* One Release at most is left with the removal, nobody holds the delegate then,
\* and an AddRef under way still has the reference it goes through: what makes
\* PinnedWhileHeld inductive.
LastRelease ==
    /\ ~created => /\ refs = 0 /\ ~registered
                   /\ \A r \in Refs : ref[r] = "free" /\ invoke[r] = "idle"
    /\ created /\ registered
        => Counted # {} \/ \E r \in Refs : ref[r] = "unpinning"
    /\ \A r \in Refs :
        /\ ref[r] = "unpinning" => registered /\ Counted = {}
        /\ ref[r] = "checked" => via[r] \in Refs /\ ref[via[r]] = "held"
        /\ ref[r] # "checked" => via[r] = None
        /\ invoke[r] = "refused" => ref[r] # "held"
        /\ invoke[r] # "idle" => ref[r] = "held" \/ (ref[r] = "free" /\ ~registered)
    /\ \A r, s \in Refs : ref[r] = "unpinning" /\ ref[s] = "unpinning" => r = s

IInv == TypeOK /\ IsFiniteSet(Counted) /\ PinnedWhileHeld /\ LastRelease
=============================================================================
