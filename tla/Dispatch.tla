------------------------------ MODULE Dispatch ------------------------------
(***************************************************************************)
(* How a call from native code into a Go-implemented object is executed    *)
(* (bindings/runtime/winrt/inspectable.go, delegate.go, panic.go).         *)
(*                                                                         *)
(* The trampoline of an object's method stages its body in the one global  *)
(* slot pendingInspectableWork, hands it to the worker goroutine and parks *)
(* until the worker signals; a call that arrives on the worker's own       *)
(* thread, or on the thread declared by SetInlineThread, runs its body in  *)
(* place.  The trampoline of a delegate's Invoke gives the user's handler  *)
(* a goroutine of its own instead.  A body may itself call native code     *)
(* that comes back: a nested call, made on the thread the body runs on.    *)
(***************************************************************************)
EXTENDS FiniteSets

CONSTANTS
    Calls,          \* the calls native code ever makes (a bound of the model)
    Threads,        \* the OS threads native code calls in on
    Apartment,      \* the thread SetInlineThread may be called for
    Worker,         \* the OS thread the worker goroutine is locked to
    None,
    NestedKinds,    \* for each kind, the kinds of call its body makes
    PanickingKinds  \* the kinds whose bodies may panic

\* "object": a body the runtime supplies (IUnknown, IInspectable, a delegate's
\* reference counting, a collection method, whose codec may be the caller's);
\* "method": a Method of a NewImplementation; "affine": a Method that calls
\* APIs of the Apartment's thread; "handler": a delegate's Invoke.
Kinds == {"object", "method", "affine", "handler"}

\* containPanic is deferred around these bodies only.
BarrierKinds == {"method", "affine", "handler"}

\* How a body ends: with an answer, or with what containPanic substitutes.
Outcomes == {"answered", "E_UNEXPECTED"}

ASSUME DispatchAssumption ==
    /\ Apartment \in Threads
    /\ Worker \notin Threads \cup Calls
    /\ Threads \cap Calls = {}
    /\ None \notin Threads \cup Calls \cup {Worker} \cup Outcomes
    /\ NestedKinds \in [Kinds -> SUBSET Kinds]
    /\ PanickingKinds \subseteq Kinds

\* A handler's goroutine is a thread nobody else runs on: it is named by its call.
ThreadIds == Threads \cup Calls \cup {Worker}
Results == Calls \X Outcomes

VARIABLES
    pc,         \* where the trampoline of each call stands
    kind, parent, \* the call's kind, and the call whose body made it
    thread,     \* the thread the trampoline was entered on
    running,    \* the calls whose body has begun and not ended
    runner,     \* the thread a body runs on
    outcome,    \* how a body ended
    result,     \* what the trampoline returned to native code
    mu,         \* inspectableWorkMu: the call that holds it
    pending,    \* pendingInspectableWork: the staged call and the result slot
    worker,     \* where the worker goroutine stands
    workerTID,  \* inspectableWorkerTID
    inlineTID,  \* inlineInvokeTID
    alive       \* the process has not been terminated by a panic

callVars == <<pc, kind, parent, thread, running, runner, outcome, result>>
vars == <<pc, kind, parent, thread, running, runner, outcome, result,
          mu, pending, worker, workerTID, inlineTID, alive>>

NoWork == [call |-> None, result |-> None]

TypeOK ==
    /\ pc \in [Calls -> {"unused", "entered", "lock", "send", "recv", "collect",
                         "inline", "await", "returned"}]
    /\ kind \in [Calls -> Kinds \cup {None}]
    /\ parent \in [Calls -> Calls \cup {None}]
    /\ thread \in [Calls -> ThreadIds \cup {None}]
    /\ running \subseteq Calls
    /\ runner \in [Calls -> ThreadIds \cup {None}]
    /\ outcome \in [Calls -> Outcomes \cup {None}]
    /\ result \in [Calls -> Results \cup {None}]
    /\ mu \in Calls \cup {None}
    /\ pending \in [call : Calls \cup {None}, result : Results \cup {None}]
    /\ worker \in {"unstarted", "starting", "idle", "busy", "signal"}
    /\ workerTID \in {Worker, None}
    /\ inlineTID \in {Apartment, None}
    /\ alive \in BOOLEAN

Init ==
    /\ pc = [c \in Calls |-> "unused"]
    /\ kind = [c \in Calls |-> None]
    /\ parent = [c \in Calls |-> None]
    /\ thread = [c \in Calls |-> None]
    /\ running = {}
    /\ runner = [c \in Calls |-> None]
    /\ outcome = [c \in Calls |-> None]
    /\ result = [c \in Calls |-> None]
    /\ mu = None
    /\ pending = NoWork
    /\ worker = "unstarted"
    /\ workerTID = None
    /\ inlineTID = None
    /\ alive = TRUE

-----------------------------------------------------------------------------
Active(c) == pc[c] \notin {"unused", "returned"}
Children(c) == {d \in Calls : parent[d] = c /\ Active(d)}

\* The body is executing Go code, not waiting for a call it made.
Executing(c) == c \in running /\ Children(c) = {}

\* No call is in progress on a thread native code owns.
Idle(t) == \A c \in Calls : Active(c) => thread[c] # t

-----------------------------------------------------------------------------
(* The worker's life and the declared thread.                              *)

\* inspectableWorkerOnce.Do(startInspectableWorker), by the first constructor.
StartWorker ==
    /\ alive
    /\ worker = "unstarted"
    /\ worker' = "starting"
    /\ UNCHANGED <<callVars, mu, pending, workerTID, inlineTID, alive>>

\* LockOSThread and the store of the thread id, before the first receive.
PublishWorkerTID ==
    /\ alive
    /\ worker = "starting"
    /\ workerTID' = Worker
    /\ worker' = "idle"
    /\ UNCHANGED <<callVars, mu, pending, inlineTID, alive>>

\* The UI thread declares itself before it calls in, and clears the declaration
\* when no body relies on it.
SetInlineThread(t) ==
    /\ alive
    /\ t # inlineTID
    /\ Idle(Apartment)
    /\ ~\E c \in Calls : Active(c) /\ kind[c] = "affine"
    /\ inlineTID' = t
    /\ UNCHANGED <<callVars, mu, pending, worker, workerTID, alive>>

-----------------------------------------------------------------------------
(* A call comes in.                                                        *)

\* Calls are interchangeable, so they are used in a fixed order.
NextCall == CHOOSE c \in Calls : pc[c] = "unused"

Enter(c, k, t, p) ==
    /\ alive
    /\ pc[c] = "unused" /\ c = NextCall
    /\ worker # "unstarted"     \* an object exists
    /\ k = "affine" => inlineTID = Apartment
    /\ pc' = [pc EXCEPT ![c] = "entered"]
    /\ kind' = [kind EXCEPT ![c] = k]
    /\ thread' = [thread EXCEPT ![c] = t]
    /\ parent' = [parent EXCEPT ![c] = p]
    /\ UNCHANGED <<running, runner, outcome, result,
                   mu, pending, worker, workerTID, inlineTID, alive>>

EnterFromThread(c) ==
    \E k \in Kinds, t \in Threads : Idle(t) /\ Enter(c, k, t, None)

EnterFromBody(c) ==
    \E p \in running : \E k \in NestedKinds[kind[p]] :
        Children(p) = {} /\ Enter(c, k, runner[p], p)

-----------------------------------------------------------------------------
(* dispatchInspectable and dispatchInvoke.                                 *)

\* Mistake: a thread id that is not published yet counts as a match.
OnWorkerThreadUnpublished(t) == workerTID = None \/ workerTID = t

OnWorkerThread(t) == workerTID # None /\ workerTID = t
OnInlineThread(t) == inlineTID # None /\ inlineTID = t

\* Mistake: a call nested in a body of the worker parks like any other.
RunsInPlaceNotNested(c) == OnInlineThread(thread[c])

\* A handler goes in place on the declared thread only; another body on the
\* worker's thread too.
RunsInPlace(c) ==
    \/ OnInlineThread(thread[c])
    \/ kind[c] # "handler" /\ OnWorkerThread(thread[c])

BeginBody(c, t) ==
    /\ running' = running \cup {c}
    /\ runner' = [runner EXCEPT ![c] = t]

RunInPlace(c) ==
    /\ alive
    /\ pc[c] = "entered"
    /\ RunsInPlace(c)
    /\ pc' = [pc EXCEPT ![c] = "inline"]
    /\ BeginBody(c, thread[c])
    /\ UNCHANGED <<kind, parent, thread, outcome, result,
                   mu, pending, worker, workerTID, inlineTID, alive>>

\* dispatchInvoke: go func() { done <- invokeContained(...) }(); <-done
RunOnGoroutine(c) ==
    /\ alive
    /\ pc[c] = "entered"
    /\ kind[c] = "handler" /\ ~RunsInPlace(c)
    /\ pc' = [pc EXCEPT ![c] = "await"]
    /\ BeginBody(c, c)
    /\ UNCHANGED <<kind, parent, thread, outcome, result,
                   mu, pending, worker, workerTID, inlineTID, alive>>

ChooseWorker(c) ==
    /\ alive
    /\ pc[c] = "entered"
    /\ kind[c] # "handler" /\ ~RunsInPlace(c)
    /\ pc' = [pc EXCEPT ![c] = "lock"]
    /\ UNCHANGED <<kind, parent, thread, running, runner, outcome, result,
                   mu, pending, worker, workerTID, inlineTID, alive>>

\* Mistake: the slot is staged without taking inspectableWorkMu.
StageUnlocked(c) ==
    /\ alive
    /\ pc[c] = "lock"
    /\ mu' = c
    /\ pending' = [call |-> c, result |-> None]
    /\ pc' = [pc EXCEPT ![c] = "send"]
    /\ UNCHANGED <<kind, parent, thread, running, runner, outcome, result,
                   worker, workerTID, inlineTID, alive>>

\* inspectableWorkMu.Lock(); pendingInspectableWork = work
Stage(c) ==
    /\ alive
    /\ pc[c] = "lock"
    /\ mu = None
    /\ mu' = c
    /\ pending' = [call |-> c, result |-> None]
    /\ pc' = [pc EXCEPT ![c] = "send"]
    /\ UNCHANGED <<kind, parent, thread, running, runner, outcome, result,
                   worker, workerTID, inlineTID, alive>>

\* The unbuffered inspectableWorkReady: the worker runs whatever is staged.
Handoff(c) ==
    /\ alive
    /\ pc[c] = "send"
    /\ worker = "idle"
    /\ worker' = "busy"
    /\ pc' = [pc EXCEPT ![c] = "recv"]
    /\ BeginBody(pending.call, Worker)
    /\ UNCHANGED <<kind, parent, thread, outcome, result,
                   mu, pending, workerTID, inlineTID, alive>>

\* The unbuffered inspectableWorkDone.
Signal(c) ==
    /\ alive
    /\ worker = "signal"
    /\ pc[c] = "recv"
    /\ worker' = "idle"
    /\ pc' = [pc EXCEPT ![c] = "collect"]
    /\ UNCHANGED <<kind, parent, thread, running, runner, outcome, result,
                   mu, pending, workerTID, inlineTID, alive>>

\* Read the result, drop the staged pointers, unlock, return.
Collect(c) ==
    /\ alive
    /\ pc[c] = "collect"
    /\ result' = [result EXCEPT ![c] = pending.result]
    /\ pending' = NoWork
    /\ mu' = None
    /\ pc' = [pc EXCEPT ![c] = "returned"]
    /\ UNCHANGED <<kind, parent, thread, running, runner, outcome,
                   worker, workerTID, inlineTID, alive>>

\* The caller of a handler receives from the handler's buffered channel.
ReceiveDone(c) ==
    /\ alive
    /\ pc[c] = "await"
    /\ c \notin running
    /\ result' = [result EXCEPT ![c] = <<c, outcome[c]>>]
    /\ pc' = [pc EXCEPT ![c] = "returned"]
    /\ UNCHANGED <<kind, parent, thread, running, runner, outcome,
                   mu, pending, worker, workerTID, inlineTID, alive>>

-----------------------------------------------------------------------------
(* A body ends.                                                            *)

\* Its answer goes where the dispatch left off: to native code for a body run
\* in place, to the result slot for the worker's, to the channel for a handler.
Deliver(c, o) ==
    CASE pc[c] = "inline" ->
            /\ pc' = [pc EXCEPT ![c] = "returned"]
            /\ result' = [result EXCEPT ![c] = <<c, o>>]
            /\ UNCHANGED <<pending, worker>>
      [] pc[c] = "await" -> UNCHANGED <<pc, result, pending, worker>>
      [] OTHER ->
            /\ pending' = [pending EXCEPT !.result = <<c, o>>]
            /\ worker' = "signal"
            /\ UNCHANGED <<pc, result>>

\* A body off the Apartment's thread that needs it waits until it pumps messages.
CanEnd(c) == (kind[c] = "affine" /\ runner[c] # Apartment) => Idle(Apartment)

EndBody(c, o) ==
    /\ running' = running \ {c}
    /\ outcome' = [outcome EXCEPT ![c] = o]
    /\ Deliver(c, o)

FinishBody(c) ==
    /\ alive
    /\ Executing(c)
    /\ CanEnd(c)
    /\ EndBody(c, "answered")
    /\ UNCHANGED <<kind, parent, thread, runner, mu, workerTID, inlineTID, alive>>

\* containPanic answers for a body behind a barrier; any other panic is the
\* end of the process.
PanicInBody(c) ==
    /\ alive
    /\ Executing(c)
    /\ kind[c] \in PanickingKinds
    /\ IF kind[c] \in BarrierKinds
       THEN EndBody(c, "E_UNEXPECTED") /\ UNCHANGED alive
       ELSE /\ alive' = FALSE
            /\ UNCHANGED <<pc, running, outcome, result, pending, worker>>
    /\ UNCHANGED <<kind, parent, thread, runner, mu, workerTID, inlineTID>>

-----------------------------------------------------------------------------
Trampoline(c) ==
    \/ RunInPlace(c)
    \/ RunOnGoroutine(c)
    \/ ChooseWorker(c)
    \/ Stage(c)
    \/ Handoff(c)
    \/ Signal(c)
    \/ Collect(c)
    \/ ReceiveDone(c)

CallStep(c) ==
    \/ EnterFromThread(c)
    \/ EnterFromBody(c)
    \/ Trampoline(c)
    \/ FinishBody(c)
    \/ PanicInBody(c)

\* Nothing is left to do: every call the model allows has returned.
AllReturned ==
    /\ \A c \in Calls : pc[c] = "returned"
    /\ UNCHANGED vars

Next ==
    \/ StartWorker
    \/ PublishWorkerTID
    \/ \E t \in {Apartment, None} : SetInlineThread(t)
    \/ \E c \in Calls : CallStep(c)
    \/ AllReturned

\* The Go scheduler runs every runnable goroutine, and a body returns once the
\* calls it made have; nothing makes native code call again.
Fairness ==
    /\ WF_vars(PublishWorkerTID)
    /\ \A c \in Calls : WF_vars(Trampoline(c)) /\ WF_vars(FinishBody(c))

Spec == Init /\ [][Next]_vars
FairSpec == Spec /\ Fairness

-----------------------------------------------------------------------------
(* Properties.                                                             *)

\* A trampoline returns to native code what its own body answered, never what
\* another call left in the shared result slot (dispatchInspectable).
ResultIsOwn ==
    \A c \in Calls : pc[c] = "returned" => result[c] = <<c, outcome[c]>>

\* The protocol behind it: the holder of inspectableWorkMu is the one call
\* between staging and collecting, what is staged is its own, the worker runs
\* or answers nothing else, and nothing stays staged once the mutex is free.
Handshake ==
    /\ \A c \in Calls : pc[c] \in {"send", "recv", "collect"} <=> mu = c
    /\ mu = None <=> pending.call = None
    /\ mu # None => pending.call = mu
    /\ worker \in {"busy", "signal"} <=> mu # None /\ pc[mu] = "recv"
    /\ worker = "busy" => mu \in running /\ runner[mu] = Worker
    /\ mu # None /\ (worker = "signal" \/ pc[mu] = "collect")
            => pending.result = <<mu, outcome[mu]>> /\ mu \notin running

\* Each body in progress has a trampoline waiting for it, and only then.
BodiesMatch ==
    \A c \in Calls :
        /\ pc[c] # "unused" => kind[c] \in Kinds /\ thread[c] \in ThreadIds
        /\ c \in running => pc[c] \in {"inline", "await", "recv"} /\ runner[c] \in ThreadIds
        /\ pc[c] = "inline" => c \in running
        /\ pc[c] = "await" /\ c \notin running => outcome[c] # None
        /\ pc[c] = "recv" /\ c \in running => worker = "busy"

\* The shared slot, the worker and the trampolines agree in every state: the
\* inductive form of ResultIsOwn.
IInv == TypeOK /\ ResultIsOwn /\ Handshake /\ BodiesMatch

\* The frames on the worker's thread: the bodies it runs, and the trampolines in
\* which it waits for a handler.
OnWorker ==
    {c \in Calls : \/ c \in running /\ runner[c] = Worker
                   \/ Active(c) /\ thread[c] = Worker}
NestedIn(c) == {d \in OnWorker : thread[d] = Worker /\ parent[d] = c}

\* They are one stack: what was handed to the worker is at the bottom, every other
\* frame was called by the body below it, and one frame is on top.  So the worker
\* is through with all of them when it signals (dispatchInspectable).
WorkerIsAStack ==
    /\ OnWorker # {} => worker = "busy"
    /\ \A c \in OnWorker :
        IF thread[c] = Worker
            THEN c # mu /\ parent[c] \in running /\ runner[parent[c]] = Worker
            ELSE c = mu
    /\ \A c, d \in OnWorker : NestedIn(c) = {} /\ NestedIn(d) = {} => c = d
    /\ \A frames \in SUBSET OnWorker :
        frames # {} => \E c \in frames : NestedIn(c) \cap frames = {}

\* A call has a runner once its body has begun and an outcome once it has ended, and
\* a body of an object runs on the worker or on the declared thread, a handler that
\* is waited for on its own.
BodiesBeginOnce ==
    \A c \in Calls :
        /\ pc[c] \in {"unused", "entered", "lock", "send"} <=> runner[c] = None
        /\ runner[c] = None => outcome[c] = None
        /\ runner[c] # None /\ c \notin running => outcome[c] \in Outcomes
        /\ runner[c] # None /\ kind[c] # "handler" => runner[c] \in {Apartment, Worker}
        /\ c \in running => outcome[c] = None
        /\ pc[c] = "await" => runner[c] = c

\* With one slot and one worker, whatever calls back into what: the slot serves the
\* call at the bottom of the stack, and the bodies above it do without.
SInv == IInv /\ WorkerIsAStack /\ BodiesBeginOnce

\* What SerialCalls sees of a call.
Phase == [c \in Calls |->
    IF pc[c] = "unused" THEN "idle"
    ELSE IF pc[c] = "returned" THEN "returned"
    ELSE IF c \in running THEN "runs"
    ELSE IF outcome[c] # None THEN "ended"
    ELSE "asked"]
Lane == [c \in Calls |->
    IF runner[c] = None THEN "none"
    ELSE IF kind[c] = "handler" \/ runner[c] = Apartment THEN "free"
    ELSE "serial"]
Answered == [c \in Calls |-> IF pc[c] = "returned" THEN {result[c]} ELSE {}]

\* Bodies of Go-implemented objects are serialized wherever they come from,
\* except on the declared thread, and each call answers for itself: the
\* dispatcher implements SerialCalls.
Promise == INSTANCE SerialCalls WITH
    Call <- Calls,
    Answer <- Outcomes,
    NoCall <- None,
    phase <- Phase,
    lane <- Lane,
    caller <- parent,
    answered <- Answered

KeepsPromise == Promise!Spec

\* Every call native code makes returns: nested calls on the worker do not wait
\* for the worker, and bodies that need the declared thread find it free.
EveryCallReturns == \A c \in Calls : pc[c] = "entered" ~> pc[c] = "returned"

\* collections_core.go says of every ABI entry point: one body at a time.
OneBodyAtATime ==
    \A c, d \in Calls :
        Executing(c) /\ Executing(d) /\ "handler" \notin {kind[c], kind[d]} => c = d

\* panic.go says of every boundary that it recovers and the process survives.
ProcessSurvives == alive

\* docs/events-and-delegates.md says a handler cannot jam the callback machinery.
HandlersNeverJam ==
    \A c \in Calls : (kind[c] = "handler" /\ c \in running) ~> c \notin running

\* docs/events-and-delegates.md says a handler that panics takes the process down.
HandlerPanicIsFatal ==
    \A c \in Calls : kind[c] = "handler" /\ outcome[c] = "E_UNEXPECTED" => ~alive
=============================================================================
