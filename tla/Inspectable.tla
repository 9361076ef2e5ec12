---------------------------- MODULE Inspectable ----------------------------
(***************************************************************************)
(* The life of one Go object that implements several interfaces and may    *)
(* become the controlling outer of an aggregated runtime class             *)
(* (bindings/runtime/winrt/inspectable.go, aggregate.go).                  *)
(*                                                                         *)
(* Each interface is a facet, a pointer of its own; all facets share one   *)
(* count and leave the registry together.  A query the facets do not       *)
(* answer goes on to the inner object, whose AddRef comes back to the      *)
(* outer as a nested call.  The last Release unregisters the facets and    *)
(* then drops the inner, whose destructor may call the outer again.        *)
(*                                                                         *)
(* Native callers' operations run on the dispatcher's worker, one at a     *)
(* time, or in place on the declared thread, beside it; Aggregate runs on  *)
(* its caller's goroutine, beside both.  A reference is a name, as in      *)
(* module Delegate, and callers keep COM's rules as they do there.         *)
(***************************************************************************)
EXTENDS Integers, FiniteSets

CONSTANTS
    Refs,        \* names for the references ever held (a bound of the model)
    OwnerRef,    \* the reference NewImplementation leaves with its Go caller
    InlineRefs,  \* the references used from the declared thread
    Facets,      \* the implemented interfaces, each the name of its facet
    Identity,    \* the first of them
    InnerIids,   \* what the aggregated runtime class implements
    OtherIid,    \* an interface neither half implements
    Inner,       \* any interface pointer of the inner
    None

\* IUnknown, IInspectable and IAgileObject, which have one answer.
IUnknown == "IUnknown"
AddRefOnly == "AddRef"
Iids == Facets \cup InnerIids \cup {IUnknown, OtherIid}

ASSUME InspectableAssumption ==
    /\ OwnerRef \in Refs
    /\ InlineRefs \subseteq Refs
    /\ Identity \in Facets
    /\ Facets \cap InnerIids = {}
    /\ OtherIid \notin Facets \cup InnerIids
    /\ {IUnknown, AddRefOnly} \cap (Facets \cup InnerIids \cup {OtherIid}) = {}
    /\ Inner \notin Facets
    /\ None \notin Refs \cup Facets \cup Iids \cup {AddRefOnly, Inner}

VARIABLES
    created,     \* NewImplementation has run
    registered,  \* the facets are in inspectableRegistry
    refs,        \* the identity facet's refs
    hook,        \* the identity facet's destroy is still set
    inner,       \* the identity facet's inner is set
    innerRefs,   \* the non-delegating references on the inner
    aggregate,   \* where Aggregate stands
    ref,         \* where each reference stands
    ptr,         \* which pointer a reference is
    want,        \* the interface the operation making it asks for
    via,         \* the reference that operation goes through
    method       \* where the Method called through each reference stands

vars == <<created, registered, refs, hook, inner, innerRefs, aggregate,
          ref, ptr, want, via, method>>
objectVars == <<created, registered, refs, hook>>
innerVars == <<inner, innerRefs, aggregate>>
refVars == <<ref, ptr, want, via>>

TypeOK ==
    /\ created \in BOOLEAN /\ registered \in BOOLEAN
    /\ hook \in BOOLEAN /\ inner \in BOOLEAN
    /\ refs \in Int /\ innerRefs \in Int
    /\ aggregate \in {"no", "calling", "made", "done"}
    /\ ref \in [Refs -> {"free", "checked", "forwarded", "held", "releasing",
                         "unregister", "destroy", "innerDies"}]
    /\ ptr \in [Refs -> Facets \cup {Inner, None}]
    /\ want \in [Refs -> Iids \cup {AddRefOnly, None}]
    /\ via \in [Refs -> Refs \cup {None}]
    /\ method \in [Refs -> {"idle", "staged", "running"}]

Init ==
    /\ created = FALSE /\ registered = FALSE /\ hook = FALSE /\ inner = FALSE
    /\ refs = 0 /\ innerRefs = 0
    /\ aggregate = "no"
    /\ ref = [r \in Refs |-> "free"]
    /\ ptr = [r \in Refs |-> None]
    /\ want = [r \in Refs |-> None]
    /\ via = [r \in Refs |-> None]
    /\ method = [r \in Refs |-> "idle"]

\* The references the count stands for.
Counted == {r \in Refs : ref[r] \in {"held", "releasing"}}

Aggregating == aggregate \in {"calling", "made"}

\* No call that relies on reference r is in progress.
Unused(r) ==
    /\ method[r] = "idle"
    /\ \A a \in Refs : via[a] # r
    /\ r = OwnerRef => ~Aggregating

\* A call through s: its caller holds s, comes after the last Release, or is the
\* destructor of the inner.
Calls(s) ==
    ref[s] = "held" \/ (created /\ ~registered) \/ \E r \in Refs : ref[r] = "innerDies"

\* Bodies on one thread run one at a time; a destructor's calls are nested.
ThreadFree(r) ==
    \A q \in Refs : (q \in InlineRefs <=> r \in InlineRefs)
                        => ref[q] \in {"free", "held", "innerDies"}

-----------------------------------------------------------------------------
\* initInspectable, then the destroy hook; nobody else has the pointer yet.
NewImplementation ==
    /\ ~created
    /\ created' = TRUE /\ registered' = TRUE /\ hook' = TRUE
    /\ refs' = 1
    /\ ref' = [ref EXCEPT ![OwnerRef] = "held"]
    /\ ptr' = [ptr EXCEPT ![OwnerRef] = Identity]
    /\ UNCHANGED <<innerVars, want, via, method>>

\* Mistake: the native this word is trusted without a lookup.
Trusted == TRUE

\* registeredInspectable(this), under inspectableMu.  What it refuses answers with
\* an error or 0 and changes nothing.
Registered == registered

-----------------------------------------------------------------------------
(* inspectableAddRefBody and inspectableQIBody, for the reference r they are *)
(* to make.                                                                  *)

Become(r, state, pointer) ==
    /\ ref' = [ref EXCEPT ![r] = state]
    /\ ptr' = [ptr EXCEPT ![r] = pointer]
    /\ want' = [want EXCEPT ![r] = None]
    /\ via' = [via EXCEPT ![r] = None]

\* The lookup succeeds; nothing is counted yet.  The inner's own interfaces
\* delegate to the identity facet.
Check(r, s, i) ==
    /\ ref[r] = "free" /\ r # OwnerRef
    /\ Calls(s)
    /\ ThreadFree(r)
    /\ Registered
    /\ ref' = [ref EXCEPT ![r] = "checked"]
    /\ ptr' = [ptr EXCEPT ![r] = IF i = AddRefOnly THEN ptr[s] ELSE None]
    /\ want' = [want EXCEPT ![r] = i]
    /\ via' = [via EXCEPT ![r] = s]
    /\ UNCHANGED <<objectVars, innerVars, method>>

CompleteAddRef(r) ==
    /\ ref[r] = "checked" /\ want[r] = AddRefOnly
    /\ refs' = refs + 1
    /\ Become(r, "held", ptr[r])
    /\ UNCHANGED <<created, registered, hook, innerVars, method>>

\* Mistake: an identity interface is answered with the facet that was asked.
OwnAnswerOfAsked(r) == IF want[r] = IUnknown THEN ptr[via[r]] ELSE want[r]

\* Whichever pointer was asked, the identity facet or the facet of that interface.
OwnAnswer(r) == IF want[r] = IUnknown THEN Identity ELSE want[r]

AnswerQuery(r) ==
    /\ ref[r] = "checked" /\ want[r] \in Facets \cup {IUnknown}
    /\ refs' = refs + 1
    /\ Become(r, "held", OwnAnswer(r))
    /\ UNCHANGED <<created, registered, hook, innerVars, method>>

\* Mistake: the outer counts the query it forwards, and so does the inner's AddRef.
ForwardCounted(r) ==
    /\ ref[r] = "checked" /\ want[r] \in InnerIids \cup {OtherIid}
    /\ inner
    /\ refs' = refs + 1
    /\ ref' = [ref EXCEPT ![r] = "forwarded"]
    /\ UNCHANGED <<created, registered, hook, innerVars, ptr, want, via, method>>

Forward(r) ==
    /\ ref[r] = "checked" /\ want[r] \in InnerIids \cup {OtherIid}
    /\ inner
    /\ ref' = [ref EXCEPT ![r] = "forwarded"]
    /\ UNCHANGED <<objectVars, innerVars, ptr, want, via, method>>

\* E_NOINTERFACE, with null written.
RefuseQuery(r) ==
    /\ ref[r] = "checked" /\ want[r] \in InnerIids \cup {OtherIid}
    /\ ~inner
    /\ Become(r, "free", None)
    /\ UNCHANGED <<objectVars, innerVars, method>>

\* The inner's QueryInterface refuses, or AddRefs the interface it hands out,
\* which is a nested inspectableAddRef of the outer.
InnerAnswers(r) ==
    /\ ref[r] = "forwarded"
    /\ \/ want[r] \notin InnerIids /\ Become(r, "free", None)
       \/ /\ want[r] \in InnerIids
          /\ Registered
          /\ ref' = [ref EXCEPT ![r] = "checked"]
          /\ ptr' = [ptr EXCEPT ![r] = Inner]
          /\ want' = [want EXCEPT ![r] = AddRefOnly]
          /\ UNCHANGED via
    /\ UNCHANGED <<objectVars, innerVars, method>>

-----------------------------------------------------------------------------
(* inspectableReleaseBody, also for the owner's Close.                       *)

CheckRelease(r) ==
    /\ ref[r] \in {"held", "free"} /\ Calls(r)
    /\ Unused(r)
    /\ ThreadFree(r)
    /\ Registered
    /\ ref' = [ref EXCEPT ![r] = "releasing"]
    /\ UNCHANGED <<objectVars, innerVars, ptr, want, via, method>>

\* remaining := identity.refs.Add(-1)
Decrement(r) ==
    /\ ref[r] = "releasing"
    /\ refs' = refs - 1
    /\ Become(r, IF refs - 1 = 0 THEN "unregister" ELSE "free", None)
    /\ UNCHANGED <<created, registered, hook, innerVars, method>>

\* Mistake: the destructor runs while the facets are still registered.
UnregisterLate(r) ==
    /\ ref[r] = "unregister"
    /\ hook' = FALSE
    /\ ref' = [ref EXCEPT ![r] = IF hook THEN "destroy" ELSE "free"]
    /\ UNCHANGED <<created, registered, refs, innerVars, ptr, want, via, method>>

\* Every facet leaves the registry in one hold of inspectableMu; destroy = nil.
Unregister(r) ==
    /\ ref[r] = "unregister"
    /\ registered' = FALSE
    /\ hook' = FALSE
    /\ ref' = [ref EXCEPT ![r] = IF hook THEN "destroy" ELSE "free"]
    /\ UNCHANGED <<created, refs, innerVars, ptr, want, via, method>>

\* Mistake: the inner is forgotten without a Release.
ForgetInner(r) ==
    /\ ref[r] = "destroy"
    /\ inner' = FALSE
    /\ ref' = [ref EXCEPT ![r] = "free"]
    /\ UNCHANGED <<objectVars, innerRefs, aggregate, ptr, want, via, method>>

\* releaseInner; the Release that destroys the inner runs its destructor.
ReleaseInner(r) ==
    /\ ref[r] = "destroy"
    /\ inner' = FALSE
    /\ innerRefs' = IF inner THEN innerRefs - 1 ELSE innerRefs
    /\ ref' = [ref EXCEPT ![r] = IF inner /\ innerRefs = 1 THEN "innerDies" ELSE "free"]
    /\ UNCHANGED <<objectVars, aggregate, ptr, want, via, method>>

InnerDestroyed(r) ==
    /\ ref[r] = "innerDies"
    /\ ref' = [ref EXCEPT ![r] = "free"]
    /\ UNCHANGED <<objectVars, innerVars, ptr, want, via, method>>

-----------------------------------------------------------------------------
(* Aggregate, on the goroutine of the owner, who holds its reference.        *)

\* Mistake: an object that aggregates already may aggregate again.
AggregateAgain ==
    /\ ref[OwnerRef] = "held" /\ ~Aggregating
    /\ aggregate' = "calling"
    /\ UNCHANGED <<objectVars, inner, innerRefs, refVars, method>>

BeginAggregate ==
    /\ ref[OwnerRef] = "held" /\ ~Aggregating
    /\ ~inner
    /\ aggregate' = "calling"
    /\ UNCHANGED <<objectVars, inner, innerRefs, refVars, method>>

\* The factory returns an error, or no inner, before it has made one or after; what
\* it made it has taken back by then, since a call that fails leaves its caller no
\* reference (COM's rule: Aggregate would release none).  It may be tried again.
FactoryFails ==
    /\ Aggregating
    /\ \A r \in Refs : ptr[r] # Inner
    /\ aggregate' = "no"
    /\ innerRefs' = IF aggregate = "made" THEN innerRefs - 1 ELSE innerRefs
    /\ UNCHANGED <<objectVars, inner, refVars, method>>

\* The inner exists, with the reference the factory will hand to its caller.
FactoryMakes ==
    /\ aggregate = "calling"
    /\ aggregate' = "made"
    /\ innerRefs' = innerRefs + 1
    /\ UNCHANGED <<objectVars, inner, refVars, method>>

\* The default interface the factory returns is AddRefed through the outer.
DefaultInterface(r) ==
    /\ aggregate = "made"
    /\ ref[r] = "free" /\ r # OwnerRef
    /\ ThreadFree(r)
    /\ Registered
    /\ ref' = [ref EXCEPT ![r] = "checked"]
    /\ ptr' = [ptr EXCEPT ![r] = Inner]
    /\ want' = [want EXCEPT ![r] = AddRefOnly]
    /\ via' = [via EXCEPT ![r] = OwnerRef]
    /\ UNCHANGED <<objectVars, innerVars, method>>

\* create returns and im.facets[0].inner = inner.
StoreInner ==
    /\ aggregate = "made"
    /\ ~\E r \in Refs : ref[r] = "checked" /\ ptr[r] = Inner /\ via[r] = OwnerRef
    /\ inner' = TRUE
    /\ aggregate' = "done"
    /\ UNCHANGED <<objectVars, innerRefs, refVars, method>>

-----------------------------------------------------------------------------
(* invokeImplementedMethod: the lookup is made on the calling thread, before *)
(* the call is staged, and not repeated by the body.                         *)

CallMethod(r) ==
    /\ ref[r] \in {"held", "free"} /\ Calls(r)
    /\ method[r] = "idle"
    /\ Registered
    /\ method' = [method EXCEPT ![r] = "staged"]
    /\ UNCHANGED <<objectVars, innerVars, refVars>>

BeginMethod(r) ==
    /\ method[r] = "staged"
    /\ method' = [method EXCEPT ![r] = "running"]
    /\ UNCHANGED <<objectVars, innerVars, refVars>>

EndMethod(r) ==
    /\ method[r] = "running"
    /\ method' = [method EXCEPT ![r] = "idle"]
    /\ UNCHANGED <<objectVars, innerVars, refVars>>

-----------------------------------------------------------------------------
AggregateStep == BeginAggregate \/ FactoryFails \/ FactoryMakes \/ StoreInner

QueryStep(r) ==
    \/ CompleteAddRef(r)
    \/ AnswerQuery(r) \/ Forward(r) \/ RefuseQuery(r) \/ InnerAnswers(r)

ReleaseStep(r) == Decrement(r) \/ Unregister(r) \/ ReleaseInner(r)

MethodStep(r) == CallMethod(r) \/ BeginMethod(r) \/ EndMethod(r)

Next ==
    \/ NewImplementation
    \/ AggregateStep
    \/ \E r \in Refs :
        \/ \E s \in Refs, i \in Iids \cup {AddRefOnly} : Check(r, s, i)
        \/ DefaultInterface(r)
        \/ CheckRelease(r)
        \/ QueryStep(r)
        \/ ReleaseStep(r)
        \/ InnerDestroyed(r)
        \/ MethodStep(r)

\* A thread that has begun an AddRef, a query or a Release finishes it.
Fairness == \A r \in Refs : WF_vars(QueryStep(r) \/ ReleaseStep(r))

Spec == Init /\ [][Next]_vars /\ Fairness

-----------------------------------------------------------------------------
(* Properties.                                                             *)

\* The count is the number of references anybody holds, on either half of the
\* aggregate: a query that goes through the inner is counted once, by the inner's
\* nested AddRef, and the object stays registered until the last is gone.
AccountsForBothHalves ==
    /\ refs = Cardinality(Counted)
    /\ \A r \in Refs : ref[r] \in {"held", "checked", "forwarded", "releasing"} => registered

\* While anybody has an interface of the inner, or a query is on its way to it, the
\* inner is alive: it is held once from the factory's return until the outer's end
\* (Aggregate, releaseInner), though the interfaces of it do not count on it.
InnerOutlivesItsInterfaces ==
    /\ innerRefs \in {0, 1}
    /\ inner => innerRefs = 1
    /\ \A r \in Refs : ptr[r] = Inner \/ ref[r] = "forwarded" => innerRefs = 1

\* The answer to a query depends on the interface alone and not on the pointer that
\* was asked: the identity facet, the facet, the inner's interface once Aggregate
\* has returned, or nothing (inspectableQIBody).
Answers(i, state, pointer) ==
    IF i \in Facets \cup {IUnknown}
        THEN state = "held" /\ pointer = (IF i = IUnknown THEN Identity ELSE i)
        ELSE IF i \in InnerIids /\ aggregate = "done"
            THEN state = "forwarded" \/ (state = "checked" /\ pointer = Inner)
            ELSE state = "forwarded" \/ state = "free"
AnswersByInterface ==
    [][\A r \in Refs : want[r] \in Iids /\ want'[r] # want[r] /\ ref'[r] # ref[r]
            => Answers(want[r], ref'[r], ptr'[r])]_vars

\* A Method runs on an object that is still there, although it was looked up before
\* the call waited for the worker.
MethodsRunOnTheLiving == \A r \in Refs : method[r] # "idle" => registered

\* The aggregate lives exactly as COM asks, and once it is gone it is gone, whatever
\* the inner's destructor calls.
Com == INSTANCE ComLifetime WITH
    Reference <- Refs,
    First <- OwnerRef,
    holding <- Counted,
    life <- IF ~created THEN "unborn" ELSE IF registered THEN "alive" ELSE "gone"

AggregateLivesByComRules == Com!Spec

\* Once nobody holds the outer, the inner is released as well.
NoInnerLeaks == created /\ Counted = {} ~> innerRefs = 0

\* What makes the invariants inductive: the last Release is alone,
Ending == {"unregister", "destroy", "innerDies"}

LastReleaseIsAlone ==
    /\ ~created => /\ ~registered /\ aggregate = "no" /\ ~hook
                   /\ \A r \in Refs : ref[r] = "free" /\ method[r] = "idle"
    /\ created /\ registered
        => Counted # {} \/ \E r \in Refs : ref[r] = "unregister"
    /\ created /\ ~registered => Counted = {}
    /\ \A r \in Refs :
        /\ ref[r] = "unregister" => registered /\ Counted = {}
        /\ ref[r] \in {"destroy", "innerDies"} => ~registered
    /\ \A r, s \in Refs : ref[r] \in Ending /\ ref[s] \in Ending => r = s

\* an operation under way still has the reference it goes through,
OperationsHoldTheirs ==
    \A r \in Refs :
        /\ ref[r] \in {"checked", "forwarded"}
            => via[r] \in Refs /\ ref[via[r]] = "held" /\ want[r] # None
        /\ ref[r] \notin {"checked", "forwarded"} => via[r] = None /\ want[r] = None
        /\ ref[r] \notin {"checked", "held", "releasing"} => ptr[r] = None
        /\ method[r] # "idle" => ref[r] = "held"

\* and the inner's one reference is the factory's, the outer's or gone.
InnerIsOwned ==
    /\ Aggregating => ref[OwnerRef] = "held"
    /\ innerRefs = IF aggregate = "made" \/ inner THEN 1 ELSE 0
    /\ inner => aggregate = "done" /\ (registered \/ \E r \in Refs : ref[r] = "destroy")
    /\ registered => (inner <=> aggregate = "done") /\ hook
    /\ \A r \in Refs :
        /\ ref[r] = "forwarded" => inner /\ want[r] \in InnerIids \cup {OtherIid}
        /\ ptr[r] = Inner => aggregate \in {"made", "done"}
        /\ ref[r] = "checked" /\ want[r] # AddRefOnly => ptr[r] = None

IInv ==
    /\ TypeOK /\ IsFiniteSet(Counted)
    /\ AccountsForBothHalves /\ InnerOutlivesItsInterfaces /\ MethodsRunOnTheLiving
    /\ LastReleaseIsAlone /\ OperationsHoldTheirs /\ InnerIsOwned
=============================================================================
