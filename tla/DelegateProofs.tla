--------------------------- MODULE DelegateProofs ---------------------------
(***************************************************************************)
(* A delegate is pinned exactly as long as somebody holds it, for any set  *)
(* of references, whichever of them are used on the declared thread.       *)
(***************************************************************************)
EXTENDS Delegate, FiniteSetTheorems, TLAPS

\* Before NewDelegate nothing refers to the delegate.
LEMMA InitIInv == Init => IInv
<1> SUFFICES ASSUME Init PROVE IInv
  OBVIOUS
<1>1. Counted = {}
  BY DEF Init, Counted
<1>2. IsFiniteSet(Counted) /\ Cardinality(Counted) = 0
  BY <1>1, FS_EmptySet
<1> QED
  BY <1>1, <1>2 DEF Init, IInv, TypeOK, PinnedWhileHeld, LastRelease

\* The steps that make, raise or end no reference: the set that is counted, the
\* count and the registry stay as they are.
LEMMA SameCountIInv ==
    ASSUME IInv, TypeOK', LastRelease', Counted' = Counted,
           UNCHANGED <<created, registered, refs>>,
           \A r \in Refs : ref'[r] = "checked" => registered
    PROVE  IInv'
BY DEF IInv, PinnedWhileHeld, Counted

\* NewDelegate registers the delegate with its owner's one reference.
LEMMA NewDelegateIInv ==
    ASSUME IInv, NewDelegate
    PROVE  IInv'
<1> USE DelegateAssumption DEF NewDelegate
<1>1. Counted' = {OwnerRef}
  BY DEF IInv, TypeOK, LastRelease, Counted
<1>2. IsFiniteSet(Counted') /\ Cardinality(Counted') = 1
  BY <1>1, FS_Singleton
<1>3. TypeOK'
  BY DEF IInv, TypeOK
<1>4. LastRelease'
  BY <1>1 DEF IInv, TypeOK, LastRelease
<1>5. PinnedWhileHeld'
  BY <1>2 DEF PinnedWhileHeld
<1> QED BY <1>2, <1>3, <1>4, <1>5 DEF IInv

\* An AddRef that passes the lookup goes through a reference that is held.
LEMMA CheckAddRefIInv ==
    ASSUME IInv, NEW r \in Refs, NEW s \in Refs, NEW q \in BOOLEAN, CheckAddRef(r, s, q)
    PROVE  IInv'
<1> USE DelegateAssumption DEF CheckAddRef, Calls, Registered
<1>1. ref[s] = "held" /\ r # s
  OBVIOUS
<1>2. Counted' = Counted
  BY DEF IInv, TypeOK, Counted
<1>3. TypeOK'
  BY DEF IInv, TypeOK, TakeWorker
<1>4. LastRelease'
  BY <1>1, <1>2 DEF IInv, TypeOK, LastRelease
<1> QED BY <1>2, <1>3, <1>4, SameCountIInv

\* A QueryInterface that is refused makes no reference.
LEMMA RefuseQueryIInv ==
    ASSUME IInv, NEW r \in Refs, NEW s \in Refs, RefuseQuery(r, s)
    PROVE  IInv'
BY DEF RefuseQuery, IInv, TypeOK, PinnedWhileHeld, LastRelease, Counted

\* The new reference joins the ones that are counted.
LEMMA CompleteAddRefIInv ==
    ASSUME IInv, NEW r \in Refs, CompleteAddRef(r)
    PROVE  IInv'
<1> USE DelegateAssumption DEF CompleteAddRef
<1>1. Counted' = Counted \cup {r} /\ r \notin Counted
  BY DEF IInv, TypeOK, Counted
<1>2. IsFiniteSet(Counted') /\ Cardinality(Counted') = Cardinality(Counted) + 1
  BY <1>1, FS_AddElement DEF IInv
<1>3. TypeOK'
  BY DEF IInv, TypeOK, LeaveWorker
<1>4. \A a \in Refs : ref[a] # "unpinning"
  BY DEF IInv, LastRelease, Counted
<1>5. created /\ registered
  BY DEF IInv, LastRelease, PinnedWhileHeld
<1>6. LastRelease'
  BY <1>1, <1>4, <1>5 DEF IInv, TypeOK, LastRelease
<1>7. PinnedWhileHeld'
  BY <1>2, <1>5 DEF IInv, TypeOK, PinnedWhileHeld
<1> QED BY <1>2, <1>3, <1>6, <1>7 DEF IInv

\* A Release that passes the lookup still counts until its decrement.
LEMMA CheckReleaseIInv ==
    ASSUME IInv, NEW r \in Refs, CheckRelease(r)
    PROVE  IInv'
<1> USE DelegateAssumption DEF CheckRelease, Calls, Registered
<1>1. ref[r] = "held"
  OBVIOUS
<1>2. Counted' = Counted
  BY <1>1 DEF IInv, TypeOK, Counted
<1>3. TypeOK'
  BY DEF IInv, TypeOK, TakeWorker
<1>4. LastRelease'
  BY <1>1, <1>2 DEF IInv, TypeOK, LastRelease, Unused
<1> QED BY <1>1, <1>2, <1>3, <1>4, SameCountIInv DEF IInv, PinnedWhileHeld, TypeOK

\* The Release that sees zero is the last one: nobody holds the delegate and no
\* AddRef is under way.
LEMMA DecrementIInv ==
    ASSUME IInv, NEW r \in Refs, Decrement(r)
    PROVE  IInv'
<1> USE DelegateAssumption DEF Decrement
<1>1. Counted' = Counted \ {r} /\ r \in Counted
  BY DEF IInv, TypeOK, Counted
<1>2. IsFiniteSet(Counted') /\ Cardinality(Counted') = Cardinality(Counted) - 1
  BY <1>1, FS_RemoveElement DEF IInv
<1>3. refs = Cardinality(Counted) /\ refs' = Cardinality(Counted') /\ refs' \in Nat
  BY <1>2, FS_CardinalityType DEF IInv, PinnedWhileHeld
<1>4. refs' = 0 <=> Counted' = {}
  BY <1>2, <1>3, FS_EmptySet
<1>5. TypeOK'
  BY <1>3 DEF IInv, TypeOK, LeaveWorker
<1>6. created /\ registered /\ \A a \in Refs : ref[a] # "unpinning"
  BY <1>1 DEF IInv, LastRelease, PinnedWhileHeld, Counted
<1>7. LastRelease'
  BY <1>1, <1>4, <1>6 DEF IInv, TypeOK, LastRelease, Counted
<1>8. PinnedWhileHeld'
  BY <1>3, <1>6 DEF IInv, TypeOK, PinnedWhileHeld
<1> QED BY <1>2, <1>5, <1>7, <1>8 DEF IInv

\* Nobody holds the delegate that leaves the registry.
LEMMA UnpinIInv ==
    ASSUME IInv, NEW r \in Refs, Unpin(r)
    PROVE  IInv'
<1> USE DelegateAssumption DEF Unpin
<1>1. Counted = {} /\ Counted' = {} /\ created
  BY DEF IInv, TypeOK, LastRelease, Counted
<1>2. TypeOK'
  BY DEF IInv, TypeOK, LeaveWorker
<1>3. \A a \in Refs : ref'[a] = "free"
  BY <1>1 DEF IInv, TypeOK, LastRelease, Counted
<1>4. LastRelease'
  BY <1>1, <1>3 DEF IInv, TypeOK, LastRelease
<1> QED BY <1>1, <1>2, <1>3, <1>4 DEF IInv, PinnedWhileHeld

\* Invoke takes no reference: its caller's keeps the delegate registered until
\* the handler's goroutine has looked.
LEMMA InvokeIInv ==
    ASSUME IInv, NEW r \in Refs, InvokeStep(r)
    PROVE  IInv'
<1> USE DEF Calls, Registered
<1>1. UNCHANGED <<created, registered, refs, ref, via>> /\ Counted' = Counted
  BY DEF InvokeStep, CallInvoke, CheckInvoke, FinishInvoke, ReturnInvoke, Counted
<1>2. TypeOK'
  BY DEF InvokeStep, CallInvoke, CheckInvoke, FinishInvoke, ReturnInvoke, IInv, TypeOK
<1>3. LastRelease'
  <2>1. CASE CallInvoke(r)
    BY <2>1, <1>1 DEF CallInvoke, IInv, TypeOK, LastRelease, PinnedWhileHeld
  <2>2. CASE CheckInvoke(r)
    BY <2>2, <1>1 DEF CheckInvoke, IInv, TypeOK, LastRelease, PinnedWhileHeld
  <2>3. CASE FinishInvoke(r) \/ ReturnInvoke(r)
    BY <2>3, <1>1 DEF FinishInvoke, ReturnInvoke, IInv, TypeOK, LastRelease
  <2> QED BY <2>1, <2>2, <2>3 DEF InvokeStep
<1> QED BY <1>1, <1>2, <1>3, SameCountIInv DEF IInv, PinnedWhileHeld

\* No step of the owner, of the worker or of a handler breaks the agreement of
\* registry, count and references.
THEOREM NextIInv == IInv /\ [Next]_vars => IInv'
<1> SUFFICES ASSUME IInv, [Next]_vars PROVE IInv'
  OBVIOUS
<1>1. CASE NewDelegate
  BY <1>1, NewDelegateIInv
<1>2. ASSUME NEW r \in Refs, AddRefStep(r) PROVE IInv'
  BY <1>2, CheckAddRefIInv, RefuseQueryIInv, CompleteAddRefIInv DEF AddRefStep
<1>3. ASSUME NEW r \in Refs, ReleaseStep(r) PROVE IInv'
  BY <1>3, CheckReleaseIInv, DecrementIInv, UnpinIInv DEF ReleaseStep
<1>4. ASSUME NEW r \in Refs, InvokeStep(r) PROVE IInv'
  BY <1>4, InvokeIInv
<1>5. CASE UNCHANGED vars
  BY <1>5 DEF vars, IInv, TypeOK, PinnedWhileHeld, LastRelease, Counted
<1> QED BY <1>1, <1>2, <1>3, <1>4, <1>5 DEF Next

-----------------------------------------------------------------------------
\* The agreement holds in every reachable state.
THEOREM AlwaysIInv == Spec => []IInv
BY InitIInv, NextIInv, PTL DEF Spec

\* The registry, the count and the references keep their types; in particular
\* the count never goes below zero.
THEOREM TypeCorrect == Spec => []TypeOK
<1>1. IInv => TypeOK
  BY DEF IInv
<1> QED BY AlwaysIInv, <1>1, PTL

\* No interleaving of the owner's Release with native callers' unpins a delegate
\* somebody holds.
THEOREM NeverFreedEarly == Spec => []PinnedWhileHeld
<1>1. IInv => PinnedWhileHeld
  BY DEF IInv
<1> QED BY AlwaysIInv, <1>1, PTL

\* A handler called through a held reference is never answered "invoked after
\* release".
THEOREM HeldInvokeIsServed == Spec => []HeldInvokeServed
<1>1. IInv => HeldInvokeServed
  BY DEF IInv, LastRelease, HeldInvokeServed
<1> QED BY AlwaysIInv, <1>1, PTL

\* A delegate out of the registry is held by nobody and no operation on it is
\* between its lookup and its effect.
LEMMA GoneIsQuiet ==
    ASSUME IInv, created, ~registered
    PROVE  \A r \in Refs : ref[r] = "free"
BY DEF IInv, TypeOK, PinnedWhileHeld, LastRelease

\* Late calls never bring a released delegate back.
THEOREM StaysReleased == Spec => NeverRevived
<1>1. IInv /\ [Next]_vars =>
        [created /\ ~registered => UNCHANGED <<registered, refs, ref>>]_vars
  <2> SUFFICES ASSUME IInv, Next, created, ~registered
               PROVE  UNCHANGED <<registered, refs, ref>>
    OBVIOUS
  <2>1. \A r \in Refs : ref[r] = "free"
    BY GoneIsQuiet
  <2>2. ASSUME NEW r \in Refs, AddRefStep(r)
        PROVE  UNCHANGED <<registered, refs, ref>>
    BY <2>1, <2>2 DEF AddRefStep, CheckAddRef, RefuseQuery, CompleteAddRef, Registered
  <2>3. ASSUME NEW r \in Refs, ReleaseStep(r)
        PROVE  UNCHANGED <<registered, refs, ref>>
    BY <2>1, <2>3 DEF ReleaseStep, CheckRelease, Decrement, Unpin, Registered
  <2>4. ASSUME NEW r \in Refs, InvokeStep(r)
        PROVE  UNCHANGED <<registered, refs, ref>>
    BY <2>4 DEF InvokeStep, CallInvoke, CheckInvoke, FinishInvoke, ReturnInvoke
  <2> QED BY <2>2, <2>3, <2>4 DEF Next, NewDelegate
<1> QED BY AlwaysIInv, <1>1, PTL DEF Spec, NeverRevived

-----------------------------------------------------------------------------
\* A delegate that is not made yet is unborn to COM.
LEMMA InitComLifetime == Init => Com!Init
<1> SUFFICES ASSUME Init PROVE Com!Init
  OBVIOUS
<1>1. Counted = {}
  BY DEF Init, Counted
<1> QED BY <1>1 DEF Init, Com!Init

\* Every step is a step of the lifetime COM asks for, or none of its business.
LEMMA StepComLifetime == IInv /\ [Next]_vars => [Com!Next]_(Com!vars)
<1> SUFFICES ASSUME IInv, [Next]_vars PROVE [Com!Next]_(Com!vars)
  OBVIOUS
<1> USE DelegateAssumption DEF Com!vars
<1>1. CASE NewDelegate
  <2>1. Counted = {} /\ Counted' = {OwnerRef} /\ ~registered
    BY <1>1 DEF NewDelegate, IInv, TypeOK, LastRelease, Counted
  <2> QED BY <1>1, <2>1 DEF NewDelegate, Com!Next, Com!Create
<1>2. ASSUME NEW r \in Refs, AddRefStep(r)
      PROVE  [Com!Next]_(Com!vars)
  <2>1. CASE CompleteAddRef(r)
    <3>1. Counted' = Counted \cup {r} /\ Counted # {}
      BY <2>1 DEF CompleteAddRef, IInv, TypeOK, LastRelease, Counted
    <3> QED BY <2>1, <3>1 DEF CompleteAddRef, Com!Next, Com!Acquire
  <2>2. CASE \E s \in Refs : CheckAddRef(r, s, TRUE) \/ CheckAddRef(r, s, FALSE)
    BY <2>2 DEF CheckAddRef, IInv, TypeOK, Counted
  <2>3. CASE \E s \in Refs : RefuseQuery(r, s)
    BY <2>3 DEF RefuseQuery, Counted
  <2> QED BY <1>2, <2>1, <2>2, <2>3 DEF AddRefStep
<1>3. ASSUME NEW r \in Refs, ReleaseStep(r)
      PROVE  [Com!Next]_(Com!vars)
  <2>1. CASE CheckRelease(r)
    <3>1. ref[r] = "held"
      BY <2>1, GoneIsQuiet DEF CheckRelease, Calls, Registered
    <3> QED BY <2>1, <3>1 DEF CheckRelease, IInv, TypeOK, Counted
  <2>2. CASE Decrement(r)
    <3>1. Counted' = Counted \ {r} /\ r \in Counted
      BY <2>2 DEF Decrement, IInv, TypeOK, Counted
    <3> QED BY <2>2, <3>1 DEF Decrement, Com!Next, Com!Drop
  <2>3. CASE Unpin(r)
    <3>1. Counted' = Counted /\ Counted = {} /\ created /\ registered
      BY <2>3 DEF Unpin, IInv, TypeOK, LastRelease, Counted
    <3> QED BY <2>3, <3>1 DEF Unpin, Com!Next, Com!Vanish
  <2> QED BY <1>3, <2>1, <2>2, <2>3 DEF ReleaseStep
<1>4. ASSUME NEW r \in Refs, InvokeStep(r)
      PROVE  [Com!Next]_(Com!vars)
  BY <1>4 DEF InvokeStep, CallInvoke, CheckInvoke, FinishInvoke, ReturnInvoke, Counted
<1>5. CASE UNCHANGED vars
  BY <1>5 DEF vars, Counted
<1> QED BY <1>1, <1>2, <1>3, <1>4, <1>5 DEF Next

\* The safety half of LivesByComRules: the registry and the count implement
\* COM's lifetime.  (That the delegate leaves the registry in the end needs
\* fairness and is checked by TLC.)
THEOREM ImplementsComLifetime == Spec => Com!Init /\ [][Com!Next]_(Com!vars)
BY AlwaysIInv, InitComLifetime, StepComLifetime, PTL DEF Spec
=============================================================================
