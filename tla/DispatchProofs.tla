--------------------------- MODULE DispatchProofs ---------------------------
(***************************************************************************)
(* For any number of calls and threads, any nesting of bodies and any      *)
(* choice of the bodies that panic: a caller gets the answer of its own    *)
(* body, the frames on the worker are one stack, and the trampolines       *)
(* implement SerialCalls.                                                  *)
(***************************************************************************)
EXTENDS Dispatch, TLAPS

\* Before the first call nothing is staged.
LEMMA InitIInv == Init => IInv
BY DispatchAssumption DEF Init, IInv, TypeOK, ResultIsOwn, Handshake, BodiesMatch,
   NoWork, ThreadIds, Outcomes, Results, Kinds

USE DEF IInv, TypeOK, ResultIsOwn, Handshake, BodiesMatch, callVars

\* A call that has just come in has neither the mutex nor a body.
LEMMA EnterIInv ==
    ASSUME IInv, NEW c \in Calls, NEW k \in Kinds, NEW t \in ThreadIds,
           NEW p \in Calls \cup {None}, Enter(c, k, t, p)
    PROVE  IInv'
<1> USE DispatchAssumption DEF Enter
<1>1. TypeOK'
  OBVIOUS
<1>2. ResultIsOwn'
  OBVIOUS
<1>3. Handshake'
  OBVIOUS
<1>4. BodiesMatch'
  OBVIOUS
<1> QED BY <1>1, <1>2, <1>3, <1>4

\* A body that runs in place or on its own goroutine leaves the slot alone.
LEMMA BeginIInv ==
    ASSUME IInv, NEW c \in Calls, RunInPlace(c) \/ RunOnGoroutine(c)
    PROVE  IInv'
<1> USE DispatchAssumption DEF RunInPlace, RunOnGoroutine, BeginBody
<1>1. thread[c] \in ThreadIds \cup {None} /\ c \in ThreadIds /\ c # None
  BY DEF ThreadIds
<1>2. TypeOK'
  BY <1>1
<1>3. ResultIsOwn'
  OBVIOUS
<1>4. Handshake'
  OBVIOUS
<1>5. BodiesMatch'
  BY <1>1
<1> QED BY <1>2, <1>3, <1>4, <1>5

\* The worker's start and the declared thread are not part of the handshake.
LEMMA ThreadsIInv ==
    ASSUME IInv,
           \/ StartWorker \/ PublishWorkerTID
           \/ \E t \in {Apartment, None} : SetInlineThread(t)
    PROVE  IInv'
<1> USE DispatchAssumption
<1>1. CASE StartWorker
  BY <1>1 DEF StartWorker
<1>2. CASE PublishWorkerTID
  BY <1>2 DEF PublishWorkerTID
<1>3. ASSUME NEW t \in {Apartment, None}, SetInlineThread(t)
      PROVE  IInv'
  BY <1>3 DEF SetInlineThread
<1> QED BY <1>1, <1>2, <1>3

\* Going for the worker takes nothing yet.
LEMMA ChooseWorkerIInv ==
    ASSUME IInv, NEW c \in Calls, ChooseWorker(c)
    PROVE  IInv'
BY DispatchAssumption DEF ChooseWorker

\* Staging takes the free mutex: nothing is staged and the worker is not at it.
LEMMA StageIInv ==
    ASSUME IInv, NEW c \in Calls, Stage(c)
    PROVE  IInv'
<1> USE DispatchAssumption DEF Stage
<1>1. c # None /\ worker \notin {"busy", "signal"}
  OBVIOUS
<1>2. TypeOK'
  OBVIOUS
<1>3. ResultIsOwn'
  OBVIOUS
<1>4. Handshake'
  BY <1>1
<1>5. BodiesMatch'
  OBVIOUS
<1> QED BY <1>2, <1>3, <1>4, <1>5

\* What the worker picks up was staged by the call that hands it over.
LEMMA HandoffIInv ==
    ASSUME IInv, NEW c \in Calls, Handoff(c)
    PROVE  IInv'
<1> USE DispatchAssumption DEF Handoff, BeginBody
<1>1. mu = c /\ pending.call = c /\ c # None /\ Worker \in ThreadIds
  BY DEF ThreadIds
<1>2. TypeOK'
  BY <1>1
<1>3. ResultIsOwn'
  BY <1>1
<1>4. Handshake'
  BY <1>1
<1>5. BodiesMatch'
  BY <1>1
<1> QED BY <1>2, <1>3, <1>4, <1>5

\* The worker signals the one trampoline that waits for it.
LEMMA SignalIInv ==
    ASSUME IInv, NEW c \in Calls, Signal(c)
    PROVE  IInv'
<1> USE DispatchAssumption DEF Signal
<1>1. mu = c /\ c # None /\ c \notin running
  OBVIOUS
<1>2. TypeOK'
  OBVIOUS
<1>3. ResultIsOwn'
  OBVIOUS
<1>4. Handshake'
  BY <1>1
<1>5. BodiesMatch'
  BY <1>1
<1> QED BY <1>2, <1>3, <1>4, <1>5

\* The result slot still holds the collector's own answer.
LEMMA CollectIInv ==
    ASSUME IInv, NEW c \in Calls, Collect(c)
    PROVE  IInv'
<1> USE DispatchAssumption DEF Collect
<1>1. mu = c /\ c # None /\ pending.result = <<c, outcome[c]>> /\ c \notin running
  OBVIOUS
<1>2. TypeOK'
  BY DEF NoWork
<1>3. ResultIsOwn'
  BY <1>1
<1>4. Handshake'
  BY <1>1 DEF NoWork
<1>5. BodiesMatch'
  BY <1>1
<1> QED BY <1>2, <1>3, <1>4, <1>5

\* A handler's answer comes over a channel of its own.
LEMMA ReceiveDoneIInv ==
    ASSUME IInv, NEW c \in Calls, ReceiveDone(c)
    PROVE  IInv'
<1> USE DispatchAssumption DEF ReceiveDone
<1>1. <<c, outcome[c]>> \in Results
  BY DEF Results
<1>2. TypeOK'
  BY <1>1
<1>3. ResultIsOwn' /\ Handshake' /\ BodiesMatch'
  OBVIOUS
<1> QED BY <1>2, <1>3

\* The three ways a body's answer is delivered.
LEMMA EndBodyIInv ==
    ASSUME IInv, NEW c \in Calls, NEW o \in Outcomes, c \in running, EndBody(c, o),
           UNCHANGED <<kind, parent, thread, runner, mu, workerTID, inlineTID, alive>>
    PROVE  IInv'
<1> USE DispatchAssumption DEF EndBody, Deliver
<1>1. <<c, o>> \in Results /\ o # None
  <2>1. <<c, o>> \in Results
    BY DEF Results
  <2>2. o # None
    BY DispatchAssumption
  <2> QED BY <2>1, <2>2
<1>2. CASE pc[c] = "inline"
  BY <1>1, <1>2
<1>3. CASE pc[c] = "await"
  BY <1>1, <1>3
<1>4. CASE pc[c] = "recv"
  <2>1. /\ mu = c /\ c # None /\ worker = "busy"
        /\ pending' = [pending EXCEPT !.result = <<c, o>>]
        /\ worker' = "signal" /\ pc' = pc /\ result' = result
    BY <1>4
  <2>2. TypeOK'
    BY <1>1, <2>1
  <2>3. ResultIsOwn'
    BY <1>1, <1>4, <2>1
  <2>4. Handshake'
    BY <1>1, <1>4, <2>1
  <2>5. BodiesMatch'
    BY <1>1, <1>4, <2>1
  <2> QED BY <2>2, <2>3, <2>4, <2>5
<1> QED BY <1>2, <1>3, <1>4

\* A body ends with an answer or with what the panic barrier puts in its place.
LEMMA BodyEndsIInv ==
    ASSUME IInv, NEW c \in Calls, FinishBody(c) \/ PanicInBody(c)
    PROVE  IInv'
<1>1. CASE FinishBody(c)
  BY <1>1, EndBodyIInv DEF FinishBody, Executing, Outcomes
<1>2. CASE PanicInBody(c) /\ kind[c] \in BarrierKinds
  BY <1>2, EndBodyIInv DEF PanicInBody, Executing, Outcomes
<1>3. CASE PanicInBody(c) /\ kind[c] \notin BarrierKinds
  <2>1. /\ alive' = FALSE
        /\ UNCHANGED <<pc, running, outcome, result, pending, worker>>
        /\ UNCHANGED <<kind, parent, thread, runner, mu, workerTID, inlineTID>>
    BY <1>3 DEF PanicInBody
  <2>2. TypeOK' /\ ResultIsOwn'
    BY <2>1
  <2>3. Handshake'
    BY <2>1
  <2>4. BodiesMatch'
    BY <2>1
  <2> QED BY <2>2, <2>3, <2>4
<1> QED BY <1>1, <1>2, <1>3

\* One case per step of a call.
LEMMA CallStepIInv ==
    ASSUME IInv, NEW c \in Calls, CallStep(c)
    PROVE  IInv'
<1>1. CASE EnterFromThread(c)
  BY <1>1, EnterIInv DEF EnterFromThread, ThreadIds
<1>2. CASE EnterFromBody(c)
  <2>1. PICK p \in running :
            \E k \in NestedKinds[kind[p]] : Enter(c, k, runner[p], p)
    BY <1>2 DEF EnterFromBody
  <2>2. PICK k \in NestedKinds[kind[p]] : Enter(c, k, runner[p], p)
    BY <2>1
  <2>3. p \in Calls /\ runner[p] \in ThreadIds /\ k \in Kinds
    BY DispatchAssumption
  <2> QED
    BY <2>2, <2>3, EnterIInv
<1>3. CASE Trampoline(c)
  BY <1>3, BeginIInv, ChooseWorkerIInv, StageIInv, HandoffIInv, SignalIInv,
     CollectIInv, ReceiveDoneIInv DEF Trampoline
<1>4. CASE FinishBody(c) \/ PanicInBody(c)
  BY <1>4, BodyEndsIInv
<1> QED BY <1>1, <1>2, <1>3, <1>4 DEF CallStep

\* No step of any thread breaks the agreement of slot, worker and trampolines.
THEOREM NextIInv == IInv /\ [Next]_vars => IInv'
<1> SUFFICES ASSUME IInv, [Next]_vars PROVE IInv'
  OBVIOUS
<1>1. CASE \E c \in Calls : CallStep(c)
  BY <1>1, CallStepIInv
<1>2. CASE \/ StartWorker \/ PublishWorkerTID
           \/ \E t \in {Apartment, None} : SetInlineThread(t)
  BY <1>2, ThreadsIInv
<1>3. CASE UNCHANGED vars
  <2> USE <1>3 DEF vars
  <2>1. TypeOK' /\ ResultIsOwn'
    OBVIOUS
  <2>2. Handshake' /\ BodiesMatch'
    OBVIOUS
  <2> QED BY <2>1, <2>2
<1>4. CASE AllReturned
  BY <1>3, <1>4 DEF AllReturned
<1> QED BY <1>1, <1>2, <1>3, <1>4 DEF Next

HIDE DEF IInv, TypeOK, ResultIsOwn, Handshake, BodiesMatch

\* The dispatcher's state stays within its types (inspectable.go, delegate.go).
THEOREM TypeCorrect == Spec => []TypeOK
<1>1. IInv => TypeOK
  BY DEF IInv
<1> QED BY InitIInv, NextIInv, <1>1, PTL DEF Spec

\* The slot, the worker and the waiting trampolines always agree.
THEOREM HandshakeKept == Spec => []IInv
BY InitIInv, NextIInv, PTL DEF Spec

\* Whatever the interleaving of threads, worker and nested calls, a trampoline
\* returns what its own body answered.
THEOREM NoMixedResults == Spec => []ResultIsOwn
<1>1. IInv => ResultIsOwn
  BY DEF IInv
<1> QED BY InitIInv, NextIInv, <1>1, PTL DEF Spec

-----------------------------------------------------------------------------
(* The frames on the worker's thread.                                      *)

\* The bodies begin and end once, on the threads they belong to.
LEMMA InitFrames == Init => WorkerIsAStack /\ BodiesBeginOnce
<1> SUFFICES ASSUME Init PROVE WorkerIsAStack /\ BodiesBeginOnce
  OBVIOUS
<1>1. OnWorker = {}
  BY DEF Init, OnWorker, Active
<1>2. WorkerIsAStack
  BY <1>1 DEF WorkerIsAStack
<1>3. BodiesBeginOnce
  BY DEF Init, BodiesBeginOnce
<1> QED BY <1>2, <1>3

LEMMA EndBodyBeginsOnce ==
    ASSUME IInv, BodiesBeginOnce, NEW c \in Calls, NEW o \in Outcomes, c \in running,
           EndBody(c, o), UNCHANGED <<kind, runner>>
    PROVE  BodiesBeginOnce'
<1> USE DispatchAssumption
<1>1. /\ pc \in [Calls -> {"unused", "entered", "lock", "send", "recv", "collect",
                           "inline", "await", "returned"}]
      /\ outcome \in [Calls -> Outcomes \cup {None}]
  BY DEF IInv, TypeOK
<1>2. pc[c] \in {"inline", "await", "recv"}
  BY DEF IInv, BodiesMatch
<1>3. /\ running' = running \ {c} /\ outcome' = [outcome EXCEPT ![c] = o]
      /\ pc' = pc \/ pc' = [pc EXCEPT ![c] = "returned"]
  BY DEF EndBody, Deliver
<1> QED BY <1>1, <1>2, <1>3 DEF BodiesBeginOnce

LEMMA BeginsOnceKept == IInv /\ BodiesBeginOnce /\ [Next]_vars => BodiesBeginOnce'
<1> SUFFICES ASSUME IInv, BodiesBeginOnce, [Next]_vars PROVE BodiesBeginOnce'
  OBVIOUS
<1> USE DispatchAssumption
<1>1. /\ pc \in [Calls -> {"unused", "entered", "lock", "send", "recv", "collect",
                           "inline", "await", "returned"}]
      /\ kind \in [Calls -> Kinds \cup {None}]
      /\ runner \in [Calls -> ThreadIds \cup {None}]
      /\ thread \in [Calls -> ThreadIds \cup {None}]
      /\ outcome \in [Calls -> Outcomes \cup {None}]
  BY DEF IInv, TypeOK
<1>2. None \notin ThreadIds
  BY DEF ThreadIds
<1>3. ASSUME NEW c \in Calls, NEW k, NEW t, NEW p, Enter(c, k, t, p)
      PROVE  BodiesBeginOnce'
  BY <1>1, <1>3 DEF Enter, BodiesBeginOnce
<1>4. ASSUME NEW c \in Calls, RunInPlace(c) \/ RunOnGoroutine(c) \/ Handoff(c)
      PROVE  BodiesBeginOnce'
  <2>1. PICK t \in ThreadIds, x \in {"inline", "await", "recv"} :
          /\ running' = running \cup {c} /\ runner' = [runner EXCEPT ![c] = t]
          /\ pc' = [pc EXCEPT ![c] = x] /\ (x = "await" => t = c)
          /\ kind[c] # "handler" => t \in {Apartment, Worker}
    <3>1. CASE RunInPlace(c)
      <4>1. thread[c] \in ThreadIds
        BY <1>1, <3>1 DEF RunInPlace, IInv, BodiesMatch
      <4>2. kind[c] # "handler" => thread[c] \in {Apartment, Worker}
        BY <3>1 DEF RunInPlace, RunsInPlace, OnInlineThread, OnWorkerThread, IInv, TypeOK
      <4> QED BY <3>1, <4>1, <4>2 DEF RunInPlace, BeginBody
    <3>2. CASE RunOnGoroutine(c)
      BY <3>2 DEF RunOnGoroutine, BeginBody, ThreadIds
    <3>3. CASE Handoff(c)
      <4>1. pending.call = c
        BY <3>3 DEF Handoff, IInv, Handshake
      <4> QED BY <3>3, <4>1 DEF Handoff, BeginBody, ThreadIds
    <3> QED BY <1>4, <3>1, <3>2, <3>3
  <2>2. /\ pc[c] \in {"entered", "send"} /\ UNCHANGED <<kind, outcome>>
    BY <1>4 DEF RunInPlace, RunOnGoroutine, Handoff
  <2> QED BY <1>1, <1>2, <2>1, <2>2 DEF BodiesBeginOnce
<1>5. ASSUME NEW c \in Calls,
             ChooseWorker(c) \/ Stage(c) \/ Signal(c) \/ Collect(c) \/ ReceiveDone(c)
      PROVE  BodiesBeginOnce'
  BY <1>1, <1>5 DEF ChooseWorker, Stage, Signal, Collect, ReceiveDone, BodiesBeginOnce
<1>6. ASSUME NEW c \in Calls, FinishBody(c) \/ PanicInBody(c)
      PROVE  BodiesBeginOnce'
  <2>1. CASE \E o \in Outcomes : EndBody(c, o)
    BY <1>6, <2>1, EndBodyBeginsOnce DEF FinishBody, PanicInBody, Executing
  <2>2. CASE UNCHANGED <<pc, kind, running, runner, outcome>>
    BY <2>2 DEF BodiesBeginOnce
  <2> QED BY <1>6, <2>1, <2>2 DEF FinishBody, PanicInBody, Outcomes
<1>7. CASE UNCHANGED callVars
  BY <1>7 DEF callVars, BodiesBeginOnce
<1>8. CASE \E c \in Calls : CallStep(c)
  BY <1>3, <1>4, <1>5, <1>6, <1>8
  DEF CallStep, EnterFromThread, EnterFromBody, Trampoline
<1> QED
  BY <1>7, <1>8
  DEF Next, vars, callVars, AllReturned, StartWorker, PublishWorkerTID, SetInlineThread

\* Nothing happens to the frames.
LEMMA SameFrames ==
    ASSUME WorkerIsAStack, OnWorker' = OnWorker,
           \A c \in OnWorker : thread'[c] = thread[c] /\ parent'[c] = parent[c],
           \A c \in running : runner[c] = Worker => c \in running' /\ runner'[c] = Worker,
           OnWorker # {} => worker' = worker /\ mu' = mu
    PROVE  WorkerIsAStack'
<1>1. \A c : NestedIn(c)' = NestedIn(c)
  BY DEF NestedIn
<1> QED BY <1>1 DEF WorkerIsAStack

\* The body at the bottom ends when every other frame is gone.
LEMMA BottomIsLast ==
    ASSUME WorkerIsAStack, NEW c \in OnWorker, thread[c] # Worker, NestedIn(c) = {}
    PROVE  OnWorker = {c}
<1> SUFFICES ASSUME OnWorker \ {c} # {} PROVE FALSE
  OBVIOUS
<1>1. PICK e \in OnWorker \ {c} : NestedIn(e) \cap (OnWorker \ {c}) = {}
  BY DEF WorkerIsAStack
<1>2. NestedIn(e) = {}
  BY <1>1 DEF NestedIn
<1> QED BY <1>1, <1>2 DEF WorkerIsAStack

\* The frame on top goes.
LEMMA FramePopped ==
    ASSUME WorkerIsAStack, NEW c \in OnWorker, NestedIn(c) = {},
           OnWorker' = OnWorker \ {c}, UNCHANGED <<thread, parent, runner, mu>>,
           running \ {c} \subseteq running', thread[c] = Worker => worker' = worker
    PROVE  WorkerIsAStack'
<1>1. CASE thread[c] # Worker
  <2>1. OnWorker' = {}
    BY <1>1, BottomIsLast
  <2> QED BY <2>1 DEF WorkerIsAStack
<1>2. CASE thread[c] = Worker
  <2>1. \A d : NestedIn(d)' = NestedIn(d) \ {c}
    BY DEF NestedIn
  <2>2. OnWorker' # {} => worker' = "busy"
    BY <1>2 DEF WorkerIsAStack
  <2>3. ASSUME NEW d \in OnWorker'
        PROVE  IF thread'[d] = Worker
                  THEN d # mu' /\ parent'[d] \in running' /\ runner'[parent'[d]] = Worker
                  ELSE d = mu'
    <3>1. parent[d] = c => thread[d] # Worker
      BY <2>3 DEF NestedIn
    <3> QED BY <2>3, <3>1 DEF WorkerIsAStack
  <2>4. ASSUME NEW d \in OnWorker', NEW e \in OnWorker', NestedIn(d)' = {}, NestedIn(e)' = {}
        PROVE  d = e
    <3>1. ASSUME NEW x \in OnWorker', NestedIn(x)' = {} PROVE x = parent[c]
      <4>1. NestedIn(x) # {}
        BY <3>1 DEF WorkerIsAStack
      <4> QED BY <2>1, <3>1, <4>1 DEF NestedIn
    <3> QED BY <2>4, <3>1
  <2>5. ASSUME NEW frames \in SUBSET OnWorker', frames # {}
        PROVE  \E d \in frames : NestedIn(d)' \cap frames = {}
    BY <2>1, <2>5 DEF WorkerIsAStack
  <2> QED BY <2>2, <2>3, <2>4, <2>5 DEF WorkerIsAStack
<1> QED BY <1>1, <1>2

\* A body on the worker calls back into an object: the call goes on top.
LEMMA FramePushed ==
    ASSUME IInv, WorkerIsAStack, NEW c \in Calls, NEW k, NEW t, NEW p, Enter(c, k, t, p),
           t = Worker => p \in running /\ runner[p] = Worker /\ Children(p) = {}
    PROVE  WorkerIsAStack'
<1> USE DispatchAssumption
<1>1. /\ thread' = [thread EXCEPT ![c] = t] /\ parent' = [parent EXCEPT ![c] = p]
      /\ thread \in [Calls -> ThreadIds \cup {None}]
      /\ parent \in [Calls -> Calls \cup {None}]
      /\ pc' = [pc EXCEPT ![c] = "entered"] /\ pc[c] = "unused"
      /\ pc \in [Calls -> {"unused", "entered", "lock", "send", "recv", "collect",
                           "inline", "await", "returned"}]
      /\ UNCHANGED <<running, runner, worker, mu>>
  BY DEF Enter, IInv, TypeOK
<1>2. c \notin running /\ c \notin OnWorker
  BY <1>1 DEF IInv, BodiesMatch, OnWorker, Active
<1>3. \A d \in OnWorker : /\ thread'[d] = thread[d] /\ parent'[d] = parent[d]
                          /\ thread[d] = Worker => parent[d] # c
  BY <1>1, <1>2 DEF OnWorker, WorkerIsAStack
<1>4. CASE t # Worker
  <2>1. OnWorker' = OnWorker
    BY <1>1, <1>2, <1>4 DEF OnWorker, Active
  <2> QED BY <1>1, <1>3, <2>1, SameFrames
<1>5. CASE t = Worker
  <2>1. OnWorker' = OnWorker \cup {c}
    <3>1. \A d \in Calls \ {c} : pc'[d] = pc[d] /\ thread'[d] = thread[d]
      BY <1>1
    <3>2. pc'[c] = "entered" /\ thread'[c] = Worker
      BY <1>1, <1>5
    <3>3. \A d \in Calls : d \in OnWorker' <=> d \in OnWorker \/ d = c
      BY <1>1, <1>2, <3>1, <3>2 DEF OnWorker, Active
    <3> QED BY <3>3 DEF OnWorker
  <2>2. p \in OnWorker /\ NestedIn(p) = {} /\ OnWorker # {}
    <3>1. p \in running /\ runner[p] = Worker /\ Children(p) = {} /\ running \subseteq Calls
      BY <1>5 DEF IInv, TypeOK
    <3>2. p \in OnWorker
      BY <3>1 DEF OnWorker
    <3>3. \A d \in OnWorker : Active(d)
      BY DEF OnWorker, IInv, BodiesMatch, Active
    <3> QED BY <3>1, <3>2, <3>3 DEF NestedIn, Children, OnWorker
  <2>3. thread'[c] = Worker /\ parent'[c] = p
    BY <1>1, <1>5
  <2>4. \A d \in OnWorker : NestedIn(d)' = NestedIn(d) \cup (IF d = p THEN {c} ELSE {})
    BY <1>2, <1>3, <2>1, <2>3 DEF NestedIn
  <2>5. NestedIn(c)' = {}
    BY <1>2, <1>3, <2>1, <2>2, <2>3 DEF NestedIn
  <2>6. ASSUME NEW d \in OnWorker'
        PROVE  IF thread'[d] = Worker
                  THEN d # mu' /\ parent'[d] \in running' /\ runner'[parent'[d]] = Worker
                  ELSE d = mu'
    <3>1. CASE d = c
      BY <1>1, <1>5, <2>3, <3>1 DEF IInv, Handshake
    <3>2. CASE d # c
      BY <1>1, <1>3, <2>1, <2>6, <3>2 DEF WorkerIsAStack
    <3> QED BY <3>1, <3>2
  <2>7. ASSUME NEW d \in OnWorker', NEW e \in OnWorker', NestedIn(d)' = {}, NestedIn(e)' = {}
        PROVE  d = e
    <3>1. ASSUME NEW x \in OnWorker, NestedIn(x)' = {} PROVE FALSE
      <4>1. NestedIn(x) = {} /\ x # p
        BY <2>4, <3>1
      <4> QED BY <2>2, <4>1 DEF WorkerIsAStack
    <3> QED BY <2>1, <2>7, <3>1
  <2>8. ASSUME NEW frames \in SUBSET OnWorker', frames # {}
        PROVE  \E d \in frames : NestedIn(d)' \cap frames = {}
    <3>1. CASE c \in frames
      BY <2>5, <3>1
    <3>2. CASE c \notin frames
      <4>1. frames \in SUBSET OnWorker
        BY <2>1, <3>2
      <4>2. PICK d \in frames : NestedIn(d) \cap frames = {}
        BY <2>8, <4>1 DEF WorkerIsAStack
      <4> QED BY <2>4, <3>2, <4>1, <4>2
    <3> QED BY <3>1, <3>2
  <2>9. worker' = "busy"
    BY <1>1, <2>2 DEF WorkerIsAStack
  <2> QED BY <2>6, <2>7, <2>8, <2>9 DEF WorkerIsAStack
<1> QED BY <1>4, <1>5

\* A body is on top of its thread's frames when it ends.
LEMMA EndBodyIsAStack ==
    ASSUME IInv, BodiesBeginOnce, WorkerIsAStack, NEW c \in Calls, NEW o, Executing(c),
           EndBody(c, o), UNCHANGED <<parent, thread, runner, mu>>
    PROVE  WorkerIsAStack'
<1>1. /\ running' = running \ {c} /\ c \in running
      /\ pc \in [Calls -> {"unused", "entered", "lock", "send", "recv", "collect",
                           "inline", "await", "returned"}]
  BY DEF EndBody, Executing, IInv, TypeOK
<1>2. pc[c] \in {"inline", "await", "recv"} /\ (pc[c] = "recv" => c = mu /\ worker = "busy")
  BY <1>1 DEF IInv, BodiesMatch, Handshake
<1>3. NestedIn(c) = {}
  <2>1. \A d \in OnWorker : Active(d)
    BY DEF OnWorker, IInv, BodiesMatch, Active
  <2> QED BY <2>1 DEF Executing, Children, NestedIn, OnWorker
<1>4. CASE pc[c] = "inline"
  <2>1. pc' = [pc EXCEPT ![c] = "returned"] /\ UNCHANGED worker
    BY <1>4 DEF EndBody, Deliver
  <2>2. OnWorker' = OnWorker \ {c}
    BY <1>1, <2>1 DEF OnWorker, Active
  <2>3. CASE c \in OnWorker
    BY <1>1, <1>3, <2>1, <2>2, <2>3, FramePopped
  <2>4. CASE c \notin OnWorker
    <3>1. \A d \in running : runner[d] = Worker => d \in running' /\ runner'[d] = Worker
      BY <1>1, <2>4 DEF OnWorker
    <3> QED BY <2>1, <2>2, <2>4, <3>1, SameFrames
  <2> QED BY <2>3, <2>4
<1>5. CASE pc[c] = "await"
  <2>1. UNCHANGED <<pc, worker>>
    BY <1>5 DEF EndBody, Deliver
  <2>2. runner[c] # Worker
    BY <1>5, DispatchAssumption DEF BodiesBeginOnce
  <2>3. OnWorker' = OnWorker
    BY <1>1, <2>1, <2>2 DEF OnWorker, Active
  <2> QED BY <1>1, <2>1, <2>2, <2>3, SameFrames
<1>6. CASE pc[c] = "recv"
  <2>1. UNCHANGED pc
    BY <1>6 DEF EndBody, Deliver
  <2>2. c \in OnWorker /\ worker = "busy" /\ c = mu
    BY <1>1, <1>2, <1>6, DispatchAssumption DEF IInv, Handshake, OnWorker
  <2>3. CASE thread[c] # Worker
    <3>1. OnWorker = {c}
      BY <1>3, <2>2, <2>3, BottomIsLast
    <3>2. OnWorker' = OnWorker \ {c}
      <4>1. \A d \in Calls : d \in OnWorker' <=> d \in OnWorker /\ d # c
        BY <1>1, <2>1, <2>3 DEF OnWorker, Active
      <4> QED BY <4>1 DEF OnWorker
    <3> QED BY <1>1, <1>3, <2>2, <2>3, <3>2, FramePopped
  <2> QED BY <2>2, <2>3 DEF WorkerIsAStack
<1> QED BY <1>2, <1>4, <1>5, <1>6
LEMMA FramesKept == IInv /\ BodiesBeginOnce /\ WorkerIsAStack /\ [Next]_vars => WorkerIsAStack'
<1> SUFFICES ASSUME IInv, BodiesBeginOnce, WorkerIsAStack, [Next]_vars
             PROVE  WorkerIsAStack'
  OBVIOUS
<1> USE DispatchAssumption
<1>1. /\ pc \in [Calls -> {"unused", "entered", "lock", "send", "recv", "collect",
                           "inline", "await", "returned"}]
      /\ thread \in [Calls -> ThreadIds \cup {None}]
      /\ runner \in [Calls -> ThreadIds \cup {None}]
      /\ running \subseteq Calls
  BY DEF IInv, TypeOK
<1>2. ASSUME NEW c \in Calls, EnterFromThread(c) \/ EnterFromBody(c)
      PROVE  WorkerIsAStack'
  <2>1. CASE EnterFromThread(c)
    BY <2>1, FramePushed DEF EnterFromThread
  <2>2. CASE EnterFromBody(c)
    BY <2>2, FramePushed DEF EnterFromBody
  <2> QED BY <1>2, <2>1, <2>2
<1>3. ASSUME NEW c \in Calls, RunInPlace(c) \/ RunOnGoroutine(c)
      PROVE  WorkerIsAStack'
  <2>1. PICK t \in {thread[c], c}, x \in {"inline", "await"} :
          /\ running' = running \cup {c} /\ runner' = [runner EXCEPT ![c] = t]
          /\ pc' = [pc EXCEPT ![c] = x] /\ pc[c] = "entered"
          /\ UNCHANGED <<thread, parent, worker, mu>>
    BY <1>3 DEF RunInPlace, RunOnGoroutine, BeginBody
  <2>2. c \notin running
    BY <2>1 DEF IInv, BodiesMatch
  <2>3. \A d \in Calls : d \in OnWorker' <=> d \in OnWorker
    BY <1>1, <2>1, <2>2 DEF OnWorker, Active
  <2>4. OnWorker' = OnWorker
    BY <2>3 DEF OnWorker
  <2>5. \A d \in running : runner[d] = Worker => d \in running' /\ runner'[d] = Worker
    BY <1>1, <2>1, <2>2
  <2> QED BY <2>1, <2>4, <2>5, SameFrames
<1>4. ASSUME NEW c \in Calls, ChooseWorker(c) \/ Stage(c)
      PROVE  WorkerIsAStack'
  <2>1. PICK x \in {"lock", "send"} :
          /\ pc' = [pc EXCEPT ![c] = x] /\ pc[c] \in {"entered", "lock"}
          /\ UNCHANGED <<running, runner, thread, parent, worker>>
          /\ mu' = mu \/ mu = None
    BY <1>4 DEF ChooseWorker, Stage
  <2>2. \A d \in Calls : d \in OnWorker' <=> d \in OnWorker
    BY <1>1, <2>1 DEF OnWorker, Active
  <2>3. OnWorker' = OnWorker
    BY <2>2 DEF OnWorker
  <2>4. worker = "busy" => mu' = mu
    BY <2>1 DEF IInv, Handshake
  <2> QED BY <2>1, <2>3, <2>4, SameFrames DEF WorkerIsAStack
<1>5. ASSUME NEW c \in Calls, Handoff(c)
      PROVE  WorkerIsAStack'
  <2>1. /\ OnWorker = {} /\ mu = c /\ pending.call = c /\ pc[c] = "send"
        /\ worker' = "busy" /\ pc' = [pc EXCEPT ![c] = "recv"]
        /\ running' = running \cup {c} /\ runner' = [runner EXCEPT ![c] = Worker]
        /\ UNCHANGED <<thread, parent, mu>>
    BY <1>5 DEF Handoff, BeginBody, IInv, Handshake, WorkerIsAStack
  <2>2. thread[c] # Worker
    BY <1>1, <2>1 DEF OnWorker, Active
  <2>3. \A d \in Calls : d \in OnWorker' <=> d = c
    BY <1>1, <2>1, <2>2 DEF OnWorker, Active
  <2>4. OnWorker' = {c}
    BY <2>3 DEF OnWorker
  <2>5. NestedIn(c)' = {}
    BY <2>1, <2>2, <2>4 DEF NestedIn
  <2> QED BY <2>1, <2>2, <2>4, <2>5 DEF WorkerIsAStack
<1>6. ASSUME NEW c \in Calls, Signal(c) \/ Collect(c)
      PROVE  WorkerIsAStack'
  <2>1. /\ OnWorker = {} /\ UNCHANGED <<running, runner, thread>>
        /\ \A d \in Calls : Active(d)' => Active(d)
    BY <1>1, <1>6 DEF Signal, Collect, IInv, Handshake, WorkerIsAStack, Active
  <2>2. OnWorker' = {}
    BY <2>1 DEF OnWorker
  <2> QED BY <2>2 DEF WorkerIsAStack
<1>7. ASSUME NEW c \in Calls, ReceiveDone(c)
      PROVE  WorkerIsAStack'
  <2>1. /\ pc' = [pc EXCEPT ![c] = "returned"] /\ pc[c] = "await" /\ c \notin running
        /\ UNCHANGED <<running, runner, thread, parent, worker, mu>>
    BY <1>7 DEF ReceiveDone
  <2>2. \A d \in Calls : d \in OnWorker' <=> d \in OnWorker /\ d # c
    BY <1>1, <2>1 DEF OnWorker, Active
  <2>3. OnWorker' = OnWorker \ {c}
    BY <2>2 DEF OnWorker
  <2>4. CASE c \in OnWorker
    <3>1. NestedIn(c) = {}
      BY <2>1 DEF NestedIn, WorkerIsAStack
    <3> QED BY <2>1, <2>3, <2>4, <3>1, FramePopped
  <2>5. CASE c \notin OnWorker
    BY <2>1, <2>3, <2>5, SameFrames
  <2> QED BY <2>4, <2>5
<1>8. ASSUME NEW c \in Calls, FinishBody(c) \/ PanicInBody(c)
      PROVE  WorkerIsAStack'
  <2>1. CASE \E o \in Outcomes : EndBody(c, o)
    BY <1>8, <2>1, EndBodyIsAStack DEF FinishBody, PanicInBody
  <2>2. CASE UNCHANGED <<pc, running, runner, thread, parent, worker, mu>>
    <3>1. OnWorker' = OnWorker
      BY <2>2 DEF OnWorker, Active
    <3> QED BY <2>2, <3>1, SameFrames
  <2> QED BY <1>8, <2>1, <2>2 DEF FinishBody, PanicInBody, Outcomes
<1>9. CASE /\ UNCHANGED <<callVars, mu>>
           /\ worker' = worker \/ worker \in {"unstarted", "starting"}
  <2>1. OnWorker' = OnWorker
    BY <1>9 DEF OnWorker, Active, callVars
  <2> QED BY <1>9, <2>1, SameFrames DEF callVars, WorkerIsAStack
<1>10. CASE \E c \in Calls : CallStep(c)
  BY <1>2, <1>3, <1>4, <1>5, <1>6, <1>7, <1>8, <1>10 DEF CallStep, Trampoline
<1> QED
  BY <1>9, <1>10
  DEF Next, vars, callVars, AllReturned, StartWorker, PublishWorkerTID, SetInlineThread

\* The frames on the worker's thread are one stack whatever calls back into what
\* (inspectable.go, dispatchInspectable): the reason one slot and one signal suffice.
THEOREM AlwaysAStack == Spec => []SInv
<1>1. Init => SInv
  BY InitIInv, InitFrames DEF SInv
<1>2. SInv /\ [Next]_vars => SInv'
  BY NextIInv, BeginsOnceKept, FramesKept DEF SInv
<1> QED BY <1>1, <1>2, PTL DEF Spec

-----------------------------------------------------------------------------
(* The dispatcher implements SerialCalls.                                  *)

\* A body executes for SerialCalls when it does here.
LEMMA ExecutesAlike ==
    ASSUME SInv
    PROVE  \A c \in Calls : Promise!Executes(c) <=> Executing(c)
<1>1. \A d \in Calls : Phase[d] \in {"asked", "runs", "ended"} <=> Active(d)
  BY DEF Phase, Active
<1>2. \A c \in Calls : Phase[c] = "runs" <=> c \in running
  BY DEF Phase, SInv, IInv, BodiesMatch
<1>3. \A c \in Calls : Promise!Waiting(c) <=> Children(c) # {}
  BY <1>1 DEF Promise!Waiting, Children
<1> QED BY <1>2, <1>3 DEF Promise!Executes, Executing

\* A serial body that executes is on top of the worker's stack.
LEMMA SerialIsOnTop ==
    ASSUME SInv, NEW d \in Calls, Lane[d] = "serial", Promise!Executes(d)
    PROVE  d \in OnWorker /\ NestedIn(d) = {}
<1>1. d \in running /\ Children(d) = {}
  BY ExecutesAlike DEF Executing
<1>2. runner[d] = Worker
  BY DispatchAssumption DEF Lane, SInv, BodiesBeginOnce
<1>3. \A e \in OnWorker : Active(e)
  BY DEF OnWorker, SInv, IInv, BodiesMatch, Active
<1> QED BY <1>1, <1>2, <1>3 DEF OnWorker, NestedIn, Children

LEMMA InitPromise == Init => Promise!Init
<1> SUFFICES ASSUME Init PROVE Promise!Init
  OBVIOUS
<1>1. Phase = [c \in Calls |-> "idle"]
  BY DEF Init, Phase
<1>2. Lane = [c \in Calls |-> "none"]
  BY DEF Init, Lane
<1>3. Answered = [c \in Calls |-> {}]
  BY DEF Init, Answered
<1> QED BY <1>1, <1>2, <1>3 DEF Promise!Init, Init

\* A step that one call takes alone, as SerialCalls sees it.
LEMMA OnePhase ==
    ASSUME NEW c \in Calls, NEW x, NEW l, NEW a,
           \A d \in Calls \ {c} : /\ Phase'[d] = Phase[d] /\ Lane'[d] = Lane[d]
                                  /\ Answered'[d] = Answered[d],
           Phase'[c] = x, Lane'[c] = l, Answered'[c] = a
    PROVE  /\ Phase' = [Phase EXCEPT ![c] = x]
           /\ Lane' = [Lane EXCEPT ![c] = l]
           /\ Answered' = [Answered EXCEPT ![c] = a]
<1>1. Phase' = [Phase EXCEPT ![c] = x]
  BY DEF Phase
<1>2. Lane' = [Lane EXCEPT ![c] = l]
  BY DEF Lane
<1>3. Answered' = [Answered EXCEPT ![c] = a]
  BY DEF Answered
<1> QED BY <1>1, <1>2, <1>3

\* What SerialCalls sees of the other calls does not change.
LEMMA OthersUnseen ==
    ASSUME NEW d \in Calls,
           pc'[d] = pc[d], kind'[d] = kind[d], runner'[d] = runner[d],
           outcome'[d] = outcome[d], result'[d] = result[d],
           d \in running' <=> d \in running
    PROVE  Phase'[d] = Phase[d] /\ Lane'[d] = Lane[d] /\ Answered'[d] = Answered[d]
BY DEF Phase, Lane, Answered

LEMMA NothingSeen ==
    ASSUME UNCHANGED <<pc, kind, parent, running, runner, outcome, result>>
    PROVE  UNCHANGED Promise!vars
BY DEF Phase, Lane, Answered, Promise!vars

\* A call comes in: from a thread, or from a body that executes.
LEMMA EnterAsks ==
    ASSUME SInv, NEW c \in Calls, NEW k, NEW t, NEW p, Enter(c, k, t, p),
           p = None \/ (p \in running /\ Children(p) = {})
    PROVE  Promise!Ask(c)
<1> USE DispatchAssumption
<1>1. /\ pc \in [Calls -> {"unused", "entered", "lock", "send", "recv", "collect",
                           "inline", "await", "returned"}]
      /\ kind \in [Calls -> Kinds \cup {None}] /\ running \subseteq Calls
  BY DEF SInv, IInv, TypeOK
<1>2. /\ pc[c] = "unused" /\ pc' = [pc EXCEPT ![c] = "entered"]
      /\ kind' = [kind EXCEPT ![c] = k] /\ parent' = [parent EXCEPT ![c] = p]
      /\ UNCHANGED <<running, runner, outcome, result>>
  BY DEF Enter
<1>3. c \notin running /\ runner[c] = None /\ outcome[c] = None
  BY <1>2 DEF SInv, IInv, BodiesMatch, BodiesBeginOnce
<1>4. \A d \in Calls \ {c} : /\ Phase'[d] = Phase[d] /\ Lane'[d] = Lane[d]
                             /\ Answered'[d] = Answered[d]
  BY <1>1, <1>2, OthersUnseen
<1>5. Phase[c] = "idle" /\ Lane[c] = "none" /\ Answered[c] = {}
  BY <1>2, <1>3 DEF Phase, Lane, Answered
<1>6. Phase'[c] = "asked" /\ Lane'[c] = "none" /\ Answered'[c] = {}
  BY <1>1, <1>2, <1>3 DEF Phase, Lane, Answered
<1>7. Phase' = [Phase EXCEPT ![c] = "asked"] /\ UNCHANGED <<Lane, Answered>>
  <2>1. Phase' = [Phase EXCEPT ![c] = "asked"]
    BY <1>4, <1>6, OnePhase
  <2>2. Lane' = Lane
    BY <1>4, <1>5, <1>6 DEF Lane
  <2>3. Answered' = Answered
    BY <1>4, <1>5, <1>6 DEF Answered
  <2> QED BY <2>1, <2>2, <2>3
<1>8. p \in {d \in Calls : Promise!Executes(d)} \cup {None}
  BY <1>1, ExecutesAlike DEF Executing
<1> QED BY <1>2, <1>5, <1>7, <1>8 DEF Promise!Ask

\* A body begins: in the serial lane only when no other one executes there.
LEMMA BodyBegins ==
    ASSUME SInv, NEW c \in Calls, RunInPlace(c) \/ RunOnGoroutine(c) \/ Handoff(c)
    PROVE  Promise!Begin(c, "serial") \/ Promise!Begin(c, "free")
<1> USE DispatchAssumption
<1>1. /\ pc \in [Calls -> {"unused", "entered", "lock", "send", "recv", "collect",
                           "inline", "await", "returned"}]
      /\ runner \in [Calls -> ThreadIds \cup {None}] /\ running \subseteq Calls
      /\ thread \in [Calls -> ThreadIds \cup {None}]
  BY DEF SInv, IInv, TypeOK
<1>2. PICK t \in ThreadIds, x \in {"inline", "await", "recv"} :
        /\ running' = running \cup {c} /\ runner' = [runner EXCEPT ![c] = t]
        /\ pc' = [pc EXCEPT ![c] = x] /\ pc[c] \in {"entered", "send"}
        /\ UNCHANGED <<kind, parent, outcome, result>>
        /\ \/ kind[c] = "handler" \/ t = Apartment
           \/ t = Worker /\ ((thread[c] = Worker /\ pc[c] = "entered") \/ OnWorker = {})
  <2>1. CASE RunInPlace(c)
    <3>1. thread[c] \in ThreadIds
      BY <1>1, <2>1 DEF RunInPlace, SInv, IInv, BodiesMatch
    <3>2. \/ kind[c] = "handler" \/ thread[c] = Apartment \/ thread[c] = Worker
      BY <2>1 DEF RunInPlace, RunsInPlace, OnInlineThread, OnWorkerThread, SInv, IInv, TypeOK
    <3> QED BY <2>1, <3>1, <3>2 DEF RunInPlace, BeginBody
  <2>2. CASE RunOnGoroutine(c)
    BY <2>2 DEF RunOnGoroutine, BeginBody, ThreadIds
  <2>3. CASE Handoff(c)
    <3>1. pending.call = c /\ OnWorker = {}
      BY <2>3 DEF Handoff, SInv, IInv, Handshake, WorkerIsAStack
    <3> QED BY <2>3, <3>1 DEF Handoff, BeginBody, ThreadIds
  <2> QED BY <2>1, <2>2, <2>3
<1> DEFINE l == IF kind[c] = "handler" \/ t = Apartment THEN "free" ELSE "serial"
<1>3. c \notin running /\ runner[c] = None /\ outcome[c] = None /\ t # None
  BY <1>2 DEF SInv, IInv, BodiesMatch, BodiesBeginOnce, ThreadIds
<1>4. \A d \in Calls \ {c} : /\ Phase'[d] = Phase[d] /\ Lane'[d] = Lane[d]
                             /\ Answered'[d] = Answered[d]
  BY <1>1, <1>2, OthersUnseen
<1>5. Phase[c] = "asked" /\ Answered[c] = {}
  BY <1>2, <1>3 DEF Phase, Answered
<1>6. Phase'[c] = "runs" /\ Lane'[c] = l /\ Answered'[c] = {}
  BY <1>1, <1>2, <1>3 DEF Phase, Lane, Answered
<1> HIDE DEF l
<1>7. Phase' = [Phase EXCEPT ![c] = "runs"] /\ Lane' = [Lane EXCEPT ![c] = l]
  BY <1>4, <1>6, OnePhase
<1>8. Answered' = Answered
  BY <1>4, <1>5, <1>6 DEF Answered
<1>9. ASSUME NEW d \in Calls, l = "serial", Lane[d] = "serial", Promise!Executes(d)
      PROVE  FALSE
  <2>1. d \in OnWorker /\ NestedIn(d) = {} /\ d \in running
    BY <1>9, SerialIsOnTop, ExecutesAlike DEF Executing
  <2>2. thread[c] = Worker /\ pc[c] = "entered"
    BY <1>2, <1>9, <2>1 DEF l
  <2>3. c \in OnWorker
    BY <2>2 DEF OnWorker, Active
  <2>4. NestedIn(c) = {}
    BY <1>3 DEF NestedIn, SInv, WorkerIsAStack
  <2> QED BY <1>3, <2>1, <2>3, <2>4 DEF SInv, WorkerIsAStack
<1>10. l \in {"serial", "free"}
  BY DEF l
<1> QED BY <1>2, <1>5, <1>7, <1>8, <1>9, <1>10 DEF Promise!Begin

\* A body ends, and a call run in place returns with it.
LEMMA BodyEnds ==
    ASSUME SInv, NEW c \in Calls, NEW o \in Outcomes, Executing(c), EndBody(c, o),
           UNCHANGED <<kind, parent, runner>>
    PROVE  Promise!End(c)
<1> USE DispatchAssumption
<1>1. /\ pc \in [Calls -> {"unused", "entered", "lock", "send", "recv", "collect",
                           "inline", "await", "returned"}]
      /\ outcome \in [Calls -> Outcomes \cup {None}]
      /\ result \in [Calls -> Results \cup {None}]
  BY DEF SInv, IInv, TypeOK
<1>2. /\ c \in running /\ running' = running \ {c} /\ outcome' = [outcome EXCEPT ![c] = o]
      /\ pc[c] \in {"inline", "await", "recv"}
  BY DEF Executing, EndBody, SInv, IInv, BodiesMatch
<1>3. \/ /\ pc[c] = "inline" /\ pc' = [pc EXCEPT ![c] = "returned"]
         /\ result' = [result EXCEPT ![c] = <<c, o>>]
      \/ pc[c] # "inline" /\ UNCHANGED <<pc, result>>
  BY <1>2 DEF EndBody, Deliver
<1>4. \A d \in Calls \ {c} : /\ Phase'[d] = Phase[d] /\ Lane'[d] = Lane[d]
                             /\ Answered'[d] = Answered[d]
  BY <1>1, <1>2, <1>3, OthersUnseen
<1>5. Lane' = Lane
  BY DEF Lane
<1>6. CASE pc[c] = "inline"
  <2>1. Phase'[c] = "returned" /\ Answered'[c] = {<<c, o>>}
    BY <1>1, <1>2, <1>3, <1>6 DEF Phase, Answered
  <2>2. /\ Phase' = [Phase EXCEPT ![c] = "returned"]
        /\ Answered' = [Answered EXCEPT ![c] = {<<c, o>>}]
    BY <1>4, <2>1, OnePhase
  <2> QED BY <1>5, <2>2, ExecutesAlike DEF Promise!End
<1>7. CASE pc[c] # "inline"
  <2>1. Phase'[c] = "ended" /\ Answered'[c] = Answered[c]
    BY <1>1, <1>2, <1>3, <1>7 DEF Phase, Answered
  <2>2. Phase' = [Phase EXCEPT ![c] = "ended"]
    BY <1>4, <2>1, OnePhase
  <2>3. Answered' = Answered
    BY <1>4, <2>1 DEF Answered
  <2> QED BY <1>5, <2>2, <2>3, ExecutesAlike DEF Promise!End
<1> QED BY <1>6, <1>7

\* The trampoline returns what the body it waited for has answered.
LEMMA CallReturns ==
    ASSUME SInv, NEW c \in Calls, Collect(c) \/ ReceiveDone(c)
    PROVE  Promise!Return(c)
<1> USE DispatchAssumption
<1>1. /\ pc \in [Calls -> {"unused", "entered", "lock", "send", "recv", "collect",
                           "inline", "await", "returned"}]
      /\ result \in [Calls -> Results \cup {None}]
  BY DEF SInv, IInv, TypeOK
<1>2. /\ pc[c] \in {"collect", "await"} /\ c \notin running
      /\ pc' = [pc EXCEPT ![c] = "returned"]
      /\ result' = [result EXCEPT ![c] = <<c, outcome[c]>>]
      /\ UNCHANGED <<kind, parent, running, runner, outcome>>
  <2>1. CASE Collect(c)
    <3>1. mu = c /\ c # None /\ pending.result = <<c, outcome[c]>> /\ c \notin running
      BY <2>1 DEF Collect, SInv, IInv, Handshake
    <3> QED BY <2>1, <3>1 DEF Collect
  <2>2. CASE ReceiveDone(c)
    BY <2>2 DEF ReceiveDone
  <2> QED BY <2>1, <2>2
<1>3. outcome[c] \in Outcomes /\ outcome[c] # None
  BY <1>2 DEF SInv, BodiesBeginOnce
<1>4. \A d \in Calls \ {c} : /\ Phase'[d] = Phase[d] /\ Lane'[d] = Lane[d]
                             /\ Answered'[d] = Answered[d]
  BY <1>1, <1>2, OthersUnseen
<1>5. Lane' = Lane
  BY <1>2 DEF Lane
<1>6. Phase[c] = "ended"
  BY <1>2, <1>3 DEF Phase
<1>7. Phase'[c] = "returned" /\ Answered'[c] = {<<c, outcome[c]>>}
  BY <1>1, <1>2 DEF Phase, Answered
<1>8. /\ Phase' = [Phase EXCEPT ![c] = "returned"]
      /\ Answered' = [Answered EXCEPT ![c] = {<<c, outcome[c]>>}]
  BY <1>4, <1>7, OnePhase
<1> QED BY <1>2, <1>3, <1>5, <1>6, <1>8 DEF Promise!Return

\* The trampoline's other steps are none of the caller's business.
LEMMA TrampolineHidden ==
    ASSUME SInv, NEW c \in Calls, ChooseWorker(c) \/ Stage(c) \/ Signal(c)
    PROVE  UNCHANGED Promise!vars
<1>1. /\ pc \in [Calls -> {"unused", "entered", "lock", "send", "recv", "collect",
                           "inline", "await", "returned"}]
  BY DEF SInv, IInv, TypeOK
<1>2. PICK x \in {"lock", "send", "collect"} :
        /\ pc' = [pc EXCEPT ![c] = x] /\ pc[c] \in {"entered", "lock", "recv"}
        /\ UNCHANGED <<kind, parent, running, runner, outcome, result>>
  BY DEF ChooseWorker, Stage, Signal
<1>3. \A d \in Calls : pc'[d] \in {"unused", "returned"} <=> pc[d] \in {"unused", "returned"}
  BY <1>1, <1>2
<1>4. \A d \in Calls : pc[d] \in {"unused", "returned"} => pc'[d] = pc[d]
  BY <1>1, <1>2
<1>5. Phase' = Phase
  BY <1>2, <1>3, <1>4 DEF Phase
<1>6. Lane' = Lane /\ Answered' = Answered
  BY <1>2, <1>3, <1>4 DEF Lane, Answered
<1> QED BY <1>2, <1>5, <1>6 DEF Promise!vars

LEMMA StepPromise == SInv /\ [Next]_vars => [Promise!Next]_(Promise!vars)
<1> SUFFICES ASSUME SInv, [Next]_vars PROVE [Promise!Next]_(Promise!vars)
  OBVIOUS
<1>1. ASSUME NEW c \in Calls, EnterFromThread(c) \/ EnterFromBody(c)
      PROVE  Promise!Ask(c)
  BY <1>1, EnterAsks DEF EnterFromThread, EnterFromBody
<1>2. ASSUME NEW c \in Calls, FinishBody(c) \/ PanicInBody(c)
      PROVE  Promise!End(c) \/ UNCHANGED Promise!vars
  <2>1. CASE \E o \in Outcomes : EndBody(c, o)
    BY <1>2, <2>1, BodyEnds DEF FinishBody, PanicInBody
  <2>2. CASE UNCHANGED <<pc, kind, parent, running, runner, outcome, result>>
    BY <2>2, NothingSeen
  <2> QED BY <1>2, <2>1, <2>2 DEF FinishBody, PanicInBody, Outcomes
<1>3. ASSUME NEW c \in Calls, Trampoline(c)
      PROVE  \/ Promise!Begin(c, "serial") \/ Promise!Begin(c, "free")
             \/ Promise!Return(c) \/ UNCHANGED Promise!vars
  BY <1>3, BodyBegins, CallReturns, TrampolineHidden DEF Trampoline
<1>4. CASE UNCHANGED callVars
  BY <1>4, NothingSeen DEF callVars
<1>5. CASE \E c \in Calls : CallStep(c)
  BY <1>1, <1>2, <1>3, <1>5 DEF CallStep, Promise!Next
<1> QED
  BY <1>4, <1>5
  DEF Next, vars, callVars, AllReturned, StartWorker, PublishWorkerTID, SetInlineThread

\* The dispatcher implements SerialCalls for any calls, threads, nesting and panics:
\* one body at a time in the serial lane, and to each caller the answer of its own.
THEOREM ImplementsSerialCalls == Spec => KeepsPromise
BY AlwaysAStack, InitPromise, StepPromise, PTL DEF Spec, KeepsPromise, Promise!Spec
=============================================================================
