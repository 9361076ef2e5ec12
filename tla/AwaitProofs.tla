----------------------------- MODULE AwaitProofs -----------------------------
(***************************************************************************)
(* What an Await reports is what became of the operation, for any number   *)
(* of Awaits on it, on the worker or off it.                               *)
(***************************************************************************)
EXTENDS Await, TLAPS

USE AwaitAssumption DEF Moves, Ends, Outcomes

\* Nothing is assigned, sent or received.
LEMMA InitIInv == Init => IInv
BY DEF Init, IInv, TypeOK, ReportsTheEnd, TravelsOnce, HandlerAwaitsInvoke

\* The steps of an Await up to the assignment: the new handler has its owner's
\* reference, and, once it is assigned, the operation's.
LEMMA BeginIInv ==
    ASSUME IInv, NEW a \in Awaits, Make(a) \/ SetCompletedRefused(a) \/ SetCompleted(a)
    PROVE  IInv'
<1>1. CASE Make(a)
  <2>1. TypeOK'
    BY <1>1 DEF Make, operationVars, IInv, TypeOK
  <2>2. ReportsTheEnd' /\ TravelsOnce'
    BY <1>1 DEF Make, operationVars, IInv, TypeOK, ReportsTheEnd, TravelsOnce
  <2>3. HandlerAwaitsInvoke'
    BY <1>1 DEF Make, operationVars, IInv, TypeOK, TravelsOnce, HandlerAwaitsInvoke
  <2> QED BY <2>1, <2>2, <2>3 DEF IInv
<1>2. CASE SetCompletedRefused(a)
  <2>1. TypeOK'
    BY <1>2 DEF SetCompletedRefused, operationVars, IInv, TypeOK
  <2>2. ReportsTheEnd' /\ TravelsOnce'
    BY <1>2 DEF SetCompletedRefused, operationVars, IInv, TypeOK, ReportsTheEnd, TravelsOnce
  <2>3. HandlerAwaitsInvoke'
    BY <1>2 DEF SetCompletedRefused, operationVars, IInv, TypeOK, HandlerAwaitsInvoke
  <2> QED BY <2>1, <2>2, <2>3 DEF IInv
<1>3. CASE SetCompleted(a)
  <2>1. TypeOK'
    BY <1>3 DEF SetCompleted, IInv, TypeOK
  <2>2. ReportsTheEnd' /\ TravelsOnce'
    BY <1>3 DEF SetCompleted, IInv, TypeOK, ReportsTheEnd, TravelsOnce
  <2>3. HandlerAwaitsInvoke'
    BY <1>3 DEF SetCompleted, IInv, TypeOK, HandlerAwaitsInvoke
  <2> QED BY <2>1, <2>2, <2>3 DEF IInv
<1> QED BY <1>1, <1>2, <1>3

\* The steps from the assignment on: the status passes from the channel to the result,
\* and the owner's reference goes with Close.
LEMMA ConcludeIInv ==
    ASSUME IInv, NEW a \in Awaits,
           SetCompletedReturns(a) \/ Receive(a) \/ Conclude(a) \/ Close(a)
    PROVE  IInv'
<1> USE DEF operationVars
<1>1. TypeOK'
  BY DEF SetCompletedReturns, Receive, Conclude, Close, IInv, TypeOK
<1>2. ReportsTheEnd' /\ TravelsOnce'
  <2>1. CASE SetCompletedReturns(a)
    BY <2>1 DEF SetCompletedReturns, IInv, TypeOK, ReportsTheEnd, TravelsOnce
  <2>2. CASE Receive(a)
    BY <2>2 DEF Receive, IInv, TypeOK, ReportsTheEnd, TravelsOnce
  <2>3. CASE Conclude(a)
    BY <2>3 DEF Conclude, IInv, TypeOK, ReportsTheEnd, TravelsOnce
  <2>4. CASE Close(a)
    BY <2>4 DEF Close, IInv, TypeOK, ReportsTheEnd, TravelsOnce
  <2> QED BY <2>1, <2>2, <2>3, <2>4
<1>3. HandlerAwaitsInvoke'
  BY DEF SetCompletedReturns, Receive, Conclude, Close, IInv, TypeOK, HandlerAwaitsInvoke
<1> QED BY <1>1, <1>2, <1>3 DEF IInv

\* The operation ends once.
LEMMA EndIInv ==
    ASSUME IInv, NEW s \in Ends, End(s)
    PROVE  IInv'
<1>1. TypeOK'
  BY DEF End, IInv, TypeOK
<1>2. firing = "no" /\ \A a \in Awaits : received[a] = None /\ channel[a] = None
  BY DEF End, IInv, TravelsOnce
<1>3. ReportsTheEnd' /\ TravelsOnce'
  BY <1>2 DEF End, IInv, TypeOK, ReportsTheEnd, TravelsOnce
<1>4. HandlerAwaitsInvoke'
  BY DEF End, IInv, HandlerAwaitsInvoke
<1> QED BY <1>1, <1>3, <1>4 DEF IInv

\* The handler is invoked once, and sends the status the operation has.
LEMMA FireIInv ==
    ASSUME IInv, FireStep
    PROVE  IInv'
<1> USE DEF operationVars, FireStep, Reference, Invoke, Lookup, Send, InvokeReturns,
            ReleaseHandler, Due
<1>1. assigned \in Awaits
  BY DEF IInv, TypeOK, TravelsOnce
<1>2. TypeOK'
  BY <1>1 DEF IInv, TypeOK, TravelsOnce
<1>3. ReportsTheEnd' /\ TravelsOnce'
  BY <1>1 DEF IInv, TypeOK, ReportsTheEnd, TravelsOnce
<1>4. HandlerAwaitsInvoke'
  BY <1>1 DEF IInv, TypeOK, HandlerAwaitsInvoke
<1> QED BY <1>2, <1>3, <1>4 DEF IInv

LEMMA NextIInv == IInv /\ [Next]_vars => IInv'
<1> SUFFICES ASSUME IInv, [Next]_vars PROVE IInv'
  OBVIOUS
<1>1. CASE UNCHANGED vars
  BY <1>1 DEF vars, operationVars, IInv, TypeOK, ReportsTheEnd, TravelsOnce,
              HandlerAwaitsInvoke
<1>2. ASSUME NEW a \in Awaits, Make(a) \/ AwaitStep(a)
      PROVE  IInv'
  BY <1>2, BeginIInv, ConcludeIInv DEF AwaitStep
<1> QED BY <1>1, <1>2, EndIInv, FireIInv DEF Next

\* The invariant of the await, the types of its state with it.
THEOREM AlwaysIInv == Spec => []IInv
BY InitIInv, NextIInv, PTL DEF Spec

\* An Await reports what became of the operation.
THEOREM AlwaysReportsTheEnd == Spec => []ReportsTheEnd
BY AlwaysIInv, PTL DEF IInv
==============================================================================
