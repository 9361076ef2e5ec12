------------------------- MODULE InspectableProofs -------------------------
(***************************************************************************)
(* An aggregate lives as COM asks, for any set of references and any       *)
(* interfaces on either half: the count stands for the references to both, *)
(* and the inner lives as long as anybody may still reach it.              *)
(***************************************************************************)
EXTENDS Inspectable, FiniteSetTheorems, TLAPS

\* The inner is alive for whoever has an interface of it: this follows from who owns it.
LEMMA OwnedInnerOutlives ==
    ASSUME TypeOK, OperationsHoldTheirs, InnerIsOwned, AccountsForBothHalves
    PROVE  InnerOutlivesItsInterfaces
<1>1. ASSUME NEW r \in Refs, ptr[r] = Inner
      PROVE  innerRefs = 1
  <2>1. registered
    BY <1>1, InspectableAssumption DEF OperationsHoldTheirs, AccountsForBothHalves, TypeOK
  <2> QED BY <1>1, <2>1 DEF InnerIsOwned
<1> QED BY <1>1 DEF TypeOK, InnerIsOwned, InnerOutlivesItsInterfaces

\* Before NewImplementation nothing refers to the object.
LEMMA InitIInv == Init => IInv
<1> SUFFICES ASSUME Init PROVE IInv
  OBVIOUS
<1>1. Counted = {}
  BY DEF Init, Counted
<1>2. IsFiniteSet(Counted) /\ Cardinality(Counted) = 0
  BY <1>1, FS_EmptySet
<1>3. TypeOK
  <2>1. created \in BOOLEAN /\ registered \in BOOLEAN /\ hook \in BOOLEAN /\ inner \in BOOLEAN
    BY Zenon DEF Init
  <2> QED BY <2>1 DEF Init, TypeOK
<1>4. AccountsForBothHalves /\ MethodsRunOnTheLiving
  BY <1>2 DEF Init, AccountsForBothHalves, MethodsRunOnTheLiving
<1>5. LastReleaseIsAlone /\ OperationsHoldTheirs
  BY <1>1 DEF Init, LastReleaseIsAlone, OperationsHoldTheirs, Ending
<1>6. InnerIsOwned
  BY InspectableAssumption DEF Init, InnerIsOwned, Aggregating
<1> QED BY <1>2, <1>3, <1>4, <1>5, <1>6, OwnedInnerOutlives DEF IInv

\* The steps that raise or end no reference, and begin or end no ending, have little
\* to show.
LEMMA SameCountIInv ==
    ASSUME IInv, created, UNCHANGED <<created, registered, refs>>, Counted' = Counted,
           \A a \in Refs : ref[a] \in Ending \/ ref'[a] \in Ending => ref'[a] = ref[a],
           \A a \in Refs : ref'[a] \in {"held", "checked", "forwarded", "releasing"} => registered,
           \A a \in Refs : method'[a] # "idle" => registered,
           TypeOK', OperationsHoldTheirs', InnerIsOwned'
    PROVE  IInv'
<1>1. LastReleaseIsAlone'
  BY DEF IInv, LastReleaseIsAlone, Ending
<1>2. AccountsForBothHalves'
  BY DEF IInv, AccountsForBothHalves
<1>3. InnerOutlivesItsInterfaces'
  BY <1>2, OwnedInnerOutlives, PTL
<1> QED BY <1>1, <1>2, <1>3 DEF IInv, MethodsRunOnTheLiving

\* NewImplementation registers the facets with its caller's one reference.
LEMMA NewImplementationIInv ==
    ASSUME IInv, NewImplementation
    PROVE  IInv'
<1> USE InspectableAssumption DEF NewImplementation, innerVars
<1>1. Counted' = {OwnerRef}
  BY DEF IInv, TypeOK, LastReleaseIsAlone, Counted
<1>2. IsFiniteSet(Counted') /\ Cardinality(Counted') = 1
  BY <1>1, FS_Singleton
<1>3. TypeOK'
  BY DEF IInv, TypeOK
<1>4. LastReleaseIsAlone'
  BY <1>1 DEF IInv, TypeOK, LastReleaseIsAlone, Ending
<1>5. OperationsHoldTheirs'
  BY DEF IInv, TypeOK, LastReleaseIsAlone, OperationsHoldTheirs
<1>6. InnerIsOwned'
  BY DEF IInv, TypeOK, LastReleaseIsAlone, OperationsHoldTheirs, InnerIsOwned, Aggregating
<1>7. AccountsForBothHalves'
  BY <1>2 DEF AccountsForBothHalves
<1>8. InnerOutlivesItsInterfaces'
  BY <1>3, <1>5, <1>6, <1>7, OwnedInnerOutlives, PTL
<1>9. MethodsRunOnTheLiving'
  BY DEF MethodsRunOnTheLiving
<1> QED BY <1>2, <1>3, <1>4, <1>5, <1>6, <1>7, <1>8, <1>9 DEF IInv

-----------------------------------------------------------------------------
\* A call through a reference finds the object registered only if the caller holds it.
LEMMA RegisteredCallsHeld ==
    ASSUME IInv, NEW s \in Refs, Calls(s), Registered
    PROVE  ref[s] = "held"
BY DEF Calls, Registered, IInv, LastReleaseIsAlone

\* Who has a reference, or is on the way to one, has a registered object before him.
LEMMA HeldIsThere ==
    ASSUME IInv, NEW s \in Refs, ref[s] \in {"held", "checked", "forwarded", "releasing"}
    PROVE  created /\ registered
BY DEF IInv, AccountsForBothHalves, LastReleaseIsAlone

\* AddRef and QueryInterface look up before they count.
LEMMA CheckIInv ==
    ASSUME IInv, NEW r \in Refs, NEW s \in Refs, NEW i \in Iids \cup {AddRefOnly}, Check(r, s, i)
    PROVE  IInv'
<1> USE InspectableAssumption DEF Check, innerVars, objectVars, Registered
<1>1. ref[s] = "held" /\ r # s /\ ref[r] = "free" /\ created /\ registered
  BY RegisteredCallsHeld, HeldIsThere
<1>2. TypeOK' /\ Counted' = Counted
  BY DEF IInv, TypeOK, Counted
<1>3. OperationsHoldTheirs'
  BY <1>1 DEF IInv, TypeOK, OperationsHoldTheirs, Iids
<1>4. InnerIsOwned'
  BY <1>1 DEF IInv, TypeOK, OperationsHoldTheirs, InnerIsOwned, Aggregating, Iids
<1> QED
  BY <1>1, <1>2, <1>3, <1>4, SameCountIInv DEF IInv, TypeOK, Ending

\* The factory's default interface is AddRefed while the owner waits for the factory.
LEMMA DefaultInterfaceIInv ==
    ASSUME IInv, NEW r \in Refs, DefaultInterface(r)
    PROVE  IInv'
<1> USE InspectableAssumption DEF DefaultInterface, innerVars, objectVars
<1>1. ref[OwnerRef] = "held" /\ r # OwnerRef /\ ref[r] = "free" /\ created /\ registered
  BY HeldIsThere DEF IInv, InnerIsOwned, Aggregating
<1>2. TypeOK' /\ Counted' = Counted
  BY DEF IInv, TypeOK, Counted
<1>3. OperationsHoldTheirs'
  BY <1>1 DEF IInv, TypeOK, OperationsHoldTheirs, Iids
<1>4. InnerIsOwned'
  BY <1>1 DEF IInv, TypeOK, OperationsHoldTheirs, InnerIsOwned, Aggregating, Iids
<1> QED
  BY <1>1, <1>2, <1>3, <1>4, SameCountIInv DEF IInv, TypeOK, Ending

\* The new reference, on either half, joins the ones that are counted.
LEMMA CountedIInv ==
    ASSUME IInv, NEW r \in Refs, CompleteAddRef(r) \/ AnswerQuery(r)
    PROVE  IInv'
<1> USE InspectableAssumption
<1>1. PICK p \in Facets \cup {Inner, None} :
         Become(r, "held", p) /\ (p = Inner => ptr[r] = Inner)
  BY DEF CompleteAddRef, AnswerQuery, OwnAnswer, IInv, TypeOK
<1>2. /\ ref[r] = "checked" /\ refs' = refs + 1
      /\ UNCHANGED <<created, registered, hook, inner, innerRefs, aggregate, method>>
  BY DEF CompleteAddRef, AnswerQuery, innerVars
<1>3. created /\ registered
  BY <1>2, HeldIsThere
<1>4. Counted' = Counted \cup {r} /\ r \notin Counted
  BY <1>1, <1>2 DEF Become, IInv, TypeOK, Counted
<1>5. IsFiniteSet(Counted') /\ Cardinality(Counted') = Cardinality(Counted) + 1
  BY <1>4, FS_AddElement DEF IInv
<1>6. TypeOK'
  BY <1>1, <1>2 DEF Become, IInv, TypeOK
<1>7. ref[via[r]] = "held" /\ via[r] \in Refs
  BY <1>2 DEF IInv, OperationsHoldTheirs
<1>8. \A a \in Refs : ref'[a] # "unregister"
  <2>1. \A a \in Refs : ref[a] # "unregister"
    BY <1>7 DEF IInv, LastReleaseIsAlone, Counted
  <2> QED BY <1>1, <2>1 DEF Become, IInv, TypeOK
<1>9. LastReleaseIsAlone'
  BY <1>1, <1>2, <1>3, <1>4, <1>8 DEF Become, IInv, TypeOK, LastReleaseIsAlone, Ending
<1>10. OperationsHoldTheirs'
  BY <1>1, <1>2 DEF Become, IInv, TypeOK, OperationsHoldTheirs
<1>11. InnerIsOwned'
  BY <1>1, <1>2, <1>3 DEF Become, IInv, TypeOK, InnerIsOwned, Aggregating
<1>12. AccountsForBothHalves'
  BY <1>2, <1>3, <1>5 DEF IInv, AccountsForBothHalves
<1>13. InnerOutlivesItsInterfaces'
  BY <1>6, <1>10, <1>11, <1>12, OwnedInnerOutlives, PTL
<1>14. MethodsRunOnTheLiving'
  BY <1>2 DEF IInv, MethodsRunOnTheLiving
<1> QED BY <1>5, <1>6, <1>9, <1>10, <1>11, <1>12, <1>13, <1>14 DEF IInv

\* A query that goes to the inner, or comes back from it, counts nothing itself.
LEMMA ForwardIInv ==
    ASSUME IInv, NEW r \in Refs, Forward(r) \/ RefuseQuery(r) \/ InnerAnswers(r)
    PROVE  IInv'
<1> USE InspectableAssumption DEF innerVars, objectVars
<1>1. CASE Forward(r)
  <2>1. created /\ registered
    BY <1>1, HeldIsThere DEF Forward
  <2>2. TypeOK' /\ Counted' = Counted
    BY <1>1 DEF Forward, IInv, TypeOK, Counted
  <2>3. OperationsHoldTheirs'
    <3>1. \A a \in Refs : ref'[a] = IF a = r THEN "forwarded" ELSE ref[a]
      BY <1>1 DEF Forward, IInv, TypeOK
    <3>2. ref[r] = "checked" /\ UNCHANGED <<via, want, ptr, method>> /\ ptr[r] = None
      BY <1>1, InspectableAssumption DEF Forward, IInv, InnerIsOwned
    <3> QED BY <3>1, <3>2 DEF IInv, OperationsHoldTheirs
  <2>4. InnerIsOwned'
    BY <1>1, <2>1 DEF Forward, IInv, TypeOK, OperationsHoldTheirs, InnerIsOwned, Aggregating
  <2> QED
    BY <1>1, <2>1, <2>2, <2>3, <2>4, SameCountIInv DEF Forward, IInv, TypeOK, Ending
<1>2. CASE \/ RefuseQuery(r)
           \/ InnerAnswers(r) /\ want[r] \notin InnerIids
  <2>1. /\ ref[r] \in {"checked", "forwarded"}
        /\ Become(r, "free", None)
        /\ UNCHANGED <<created, registered, refs, hook, inner, innerRefs, aggregate, method>>
    BY <1>2 DEF RefuseQuery, InnerAnswers
  <2>2. created /\ registered
    BY <2>1, HeldIsThere
  <2>3. TypeOK' /\ Counted' = Counted
    BY <2>1 DEF Become, IInv, TypeOK, Counted
  <2>4. OperationsHoldTheirs'
    BY <2>1 DEF Become, IInv, TypeOK, OperationsHoldTheirs
  <2>5. InnerIsOwned'
    BY <2>1, <2>2 DEF Become, IInv, TypeOK, InnerIsOwned, Aggregating
  <2> QED
    BY <2>1, <2>2, <2>3, <2>4, <2>5, SameCountIInv DEF Become, IInv, TypeOK, Ending
<1>3. CASE InnerAnswers(r) /\ want[r] \in InnerIids
  <2>1. /\ ref[r] = "forwarded"
        /\ ref' = [ref EXCEPT ![r] = "checked"]
        /\ ptr' = [ptr EXCEPT ![r] = Inner]
        /\ want' = [want EXCEPT ![r] = AddRefOnly]
        /\ UNCHANGED <<via, created, registered, refs, hook, inner, innerRefs, aggregate, method>>
    BY <1>3 DEF InnerAnswers, Become
  <2>2. created /\ registered
    BY <2>1, HeldIsThere
  <2>3. TypeOK' /\ Counted' = Counted
    BY <2>1 DEF IInv, TypeOK, Counted
  <2>4. OperationsHoldTheirs'
    BY <2>1 DEF IInv, TypeOK, OperationsHoldTheirs, Iids
  <2>5. InnerIsOwned'
    BY <2>1, <2>2 DEF IInv, TypeOK, InnerIsOwned, Aggregating
  <2> QED
    BY <2>1, <2>2, <2>3, <2>4, <2>5, SameCountIInv DEF IInv, TypeOK, Ending
<1> QED BY <1>1, <1>2, <1>3

-----------------------------------------------------------------------------
\* A Release that passes the lookup still counts until its decrement.
LEMMA CheckReleaseIInv ==
    ASSUME IInv, NEW r \in Refs, CheckRelease(r)
    PROVE  IInv'
<1> USE InspectableAssumption DEF CheckRelease, innerVars, objectVars, Unused
<1>1. ref[r] = "held" /\ created /\ registered
  BY RegisteredCallsHeld, HeldIsThere
<1>2. TypeOK' /\ Counted' = Counted
  BY <1>1 DEF IInv, TypeOK, Counted
<1>3. OperationsHoldTheirs'
  BY <1>1 DEF IInv, TypeOK, OperationsHoldTheirs
<1>4. InnerIsOwned'
  BY <1>1 DEF IInv, TypeOK, InnerIsOwned, Aggregating
<1> QED BY <1>1, <1>2, <1>3, <1>4, SameCountIInv DEF IInv, TypeOK, Ending

\* While anything is registered that can be ended, nothing is ending.
LEMMA CountedIsAlone ==
    ASSUME IInv, NEW r \in Refs, ref[r] = "releasing"
    PROVE  \A a \in Refs : ref[a] \notin Ending
BY HeldIsThere DEF IInv, LastReleaseIsAlone, Counted, Ending

\* The decrement takes one reference off the count, and the last one goes on to end it.
LEMMA DecrementIInv ==
    ASSUME IInv, NEW r \in Refs, Decrement(r)
    PROVE  IInv'
<1> USE InspectableAssumption DEF Decrement, innerVars
<1>1. created /\ registered /\ ref[r] = "releasing"
  BY HeldIsThere
<1>2. PICK state \in {"unregister", "free"} :
         Become(r, state, None) /\ (state = "unregister" <=> refs - 1 = 0)
  BY DEF IInv, TypeOK
<1>3. Counted' = Counted \ {r} /\ r \in Counted
  BY <1>1, <1>2 DEF Become, IInv, TypeOK, Counted
<1>4. IsFiniteSet(Counted') /\ Cardinality(Counted') = Cardinality(Counted) - 1
  BY <1>3, FS_RemoveElement DEF IInv
<1>5. refs' = Cardinality(Counted')
  BY <1>4 DEF IInv, AccountsForBothHalves
<1>6. Counted' = {} <=> refs - 1 = 0
  BY <1>4, <1>5, FS_EmptySet
<1>7. TypeOK'
  BY <1>2 DEF Become, IInv, TypeOK
<1>8. \A a \in Refs : ref'[a] = IF a = r THEN state ELSE ref[a]
  BY <1>2 DEF Become, IInv, TypeOK
<1>9. LastReleaseIsAlone'
  BY <1>1, <1>2, <1>6, <1>8, CountedIsAlone DEF LastReleaseIsAlone, Ending
<1>10. OperationsHoldTheirs'
  BY <1>1, <1>2, <1>8 DEF Become, IInv, TypeOK, OperationsHoldTheirs
<1>11. InnerIsOwned'
  BY <1>1, <1>2, <1>8 DEF Become, IInv, TypeOK, InnerIsOwned, Aggregating
<1>12. AccountsForBothHalves'
  BY <1>1, <1>5 DEF AccountsForBothHalves
<1>13. InnerOutlivesItsInterfaces'
  BY <1>7, <1>10, <1>11, <1>12, OwnedInnerOutlives, PTL
<1>14. MethodsRunOnTheLiving'
  BY <1>1 DEF MethodsRunOnTheLiving
<1> QED BY <1>4, <1>7, <1>9, <1>10, <1>11, <1>12, <1>13, <1>14 DEF IInv

\* When the count is used up, no operation and no method is under way.
LEMMA EndIsQuiet ==
    ASSUME IInv, Counted = {}
    PROVE  /\ \A a \in Refs : ref[a] \in Ending \cup {"free"} /\ method[a] = "idle"
           /\ \A a \in Refs : ptr[a] = None
           /\ ~ Aggregating
<1>1. \A a \in Refs : ref[a] \notin {"held", "releasing"}
  BY DEF Counted
<1>2. \A a \in Refs : ref[a] \notin {"checked", "forwarded"}
  BY <1>1 DEF IInv, OperationsHoldTheirs
<1> QED
  BY <1>1, <1>2, InspectableAssumption DEF IInv, TypeOK, Ending, OperationsHoldTheirs, InnerIsOwned

\* The steps of an ending, from the registry to the inner's destructor.
LEMMA EndIInv ==
    ASSUME IInv, NEW r \in Refs, Unregister(r) \/ ReleaseInner(r) \/ InnerDestroyed(r)
    PROVE  IInv'
<1> USE InspectableAssumption DEF innerVars, objectVars
<1>1. /\ ref[r] \in Ending /\ created /\ Counted = {}
      /\ ref[r] # "unregister" => ~registered
  BY DEF Unregister, ReleaseInner, InnerDestroyed, IInv, LastReleaseIsAlone, Ending
<1>2. PICK state \in {"destroy", "innerDies", "free"} : ref' = [ref EXCEPT ![r] = state]
  BY DEF Unregister, ReleaseInner, InnerDestroyed
<1>3. /\ UNCHANGED <<created, refs, aggregate, ptr, want, via, method>>
      /\ ~ registered'
  <2>1. CASE Unregister(r)
    BY <2>1 DEF Unregister
  <2>2. CASE ReleaseInner(r) \/ InnerDestroyed(r)
    <3>1. ~ registered /\ UNCHANGED registered
      BY <1>1, <2>2 DEF ReleaseInner, InnerDestroyed
    <3> QED BY <2>2, <3>1 DEF ReleaseInner, InnerDestroyed
  <2> QED BY <2>1, <2>2
<1>4. \A a \in Refs : ref'[a] = IF a = r THEN state ELSE ref[a]
  BY <1>2 DEF IInv, TypeOK
<1>5. \A a \in Refs : a # r => ref[a] = "free"
  BY <1>1, EndIsQuiet DEF IInv, LastReleaseIsAlone
<1>6. Counted' = Counted
  BY <1>1, <1>4, <1>5 DEF Counted
<1>7. TypeOK'
  <2>1. CASE Unregister(r)
    BY <1>2, <1>3, <2>1 DEF Unregister, IInv, TypeOK
  <2>2. CASE ReleaseInner(r)
    <3>1. inner' \in BOOLEAN /\ UNCHANGED <<registered, hook>>
      BY <2>2 DEF ReleaseInner
    <3>2. innerRefs' \in Int
      BY <2>2 DEF ReleaseInner, IInv, TypeOK
    <3> QED BY <1>2, <1>3, <3>1, <3>2 DEF IInv, TypeOK
  <2>3. CASE InnerDestroyed(r)
    BY <1>2, <1>3, <2>3 DEF InnerDestroyed, IInv, TypeOK
  <2> QED BY <2>1, <2>2, <2>3
<1>8. LastReleaseIsAlone'
  BY <1>1, <1>3, <1>4, <1>5, <1>6 DEF LastReleaseIsAlone, Ending
<1>9. OperationsHoldTheirs'
  BY <1>1, <1>3, <1>4, <1>5, EndIsQuiet DEF IInv, OperationsHoldTheirs, Ending
<1>10. InnerIsOwned'
  <2>1. aggregate \in {"no", "done"} /\ \A a \in Refs : ptr'[a] # Inner
    BY <1>1, <1>3, EndIsQuiet DEF IInv, TypeOK, Aggregating
  <2>2. CASE Unregister(r)
    <3>1. hook /\ state = "destroy"
      BY <2>2, <1>4 DEF Unregister, IInv, LastReleaseIsAlone, InnerIsOwned
    <3> QED BY <2>1, <2>2, <3>1, <1>3, <1>4, <1>5 DEF Unregister, IInv, InnerIsOwned, Aggregating
  <2>3. CASE ReleaseInner(r)
    BY <2>1, <2>3, <1>3, <1>4, <1>5 DEF ReleaseInner, IInv, TypeOK, InnerIsOwned, Aggregating
  <2>4. CASE InnerDestroyed(r)
    BY <2>1, <2>4, <1>1, <1>3, <1>4, <1>5 DEF InnerDestroyed, IInv, TypeOK, InnerIsOwned, Aggregating
  <2> QED BY <2>2, <2>3, <2>4
<1>11. AccountsForBothHalves'
  BY <1>3, <1>4, <1>5, <1>6 DEF IInv, AccountsForBothHalves
<1>12. InnerOutlivesItsInterfaces'
  BY <1>7, <1>9, <1>10, <1>11, OwnedInnerOutlives, PTL
<1>13. MethodsRunOnTheLiving'
  BY <1>1, <1>3, EndIsQuiet DEF MethodsRunOnTheLiving
<1> QED BY <1>6, <1>7, <1>8, <1>9, <1>10, <1>11, <1>12, <1>13 DEF IInv

-----------------------------------------------------------------------------
\* Aggregate holds the owner's reference, and takes the inner's one from the factory.
LEMMA AggregateIInv ==
    ASSUME IInv, AggregateStep
    PROVE  IInv'
<1> USE InspectableAssumption DEF objectVars, refVars, Aggregating
<1>1. /\ ref[OwnerRef] = "held"
      /\ UNCHANGED <<created, registered, refs, hook, ref, ptr, want, via, method>>
  BY DEF AggregateStep, BeginAggregate, FactoryFails, FactoryMakes, StoreInner, IInv, InnerIsOwned
<1>2. created /\ registered
  BY <1>1, HeldIsThere
<1>3. TypeOK' /\ InnerIsOwned'
  <2>1. CASE BeginAggregate
    BY <1>1, <1>2, <2>1 DEF BeginAggregate, IInv, TypeOK, InnerIsOwned
  <2>2. CASE FactoryFails
    BY <1>1, <1>2, <2>2 DEF FactoryFails, IInv, TypeOK, InnerIsOwned
  <2>3. CASE FactoryMakes
    BY <1>1, <1>2, <2>3 DEF FactoryMakes, IInv, TypeOK, InnerIsOwned
  <2>4. CASE StoreInner
    <3>1. inner' \in BOOLEAN /\ inner'
      BY <2>4 DEF StoreInner
    <3> QED BY <1>1, <1>2, <2>4, <3>1 DEF StoreInner, IInv, TypeOK, InnerIsOwned
  <2> QED BY <2>1, <2>2, <2>3, <2>4 DEF AggregateStep
<1>4. OperationsHoldTheirs' /\ Counted' = Counted
  BY <1>1 DEF IInv, OperationsHoldTheirs, Counted
<1> QED BY <1>1, <1>2, <1>3, <1>4, HeldIsThere, SameCountIInv

\* A Method is called through a reference that stays until it returns.
LEMMA MethodIInv ==
    ASSUME IInv, NEW r \in Refs, MethodStep(r)
    PROVE  IInv'
<1> USE InspectableAssumption
<1>1. PICK state \in {"idle", "staged", "running"} : method' = [method EXCEPT ![r] = state]
  BY DEF MethodStep, CallMethod, BeginMethod, EndMethod
<1>2. /\ UNCHANGED <<created, registered, refs, hook, inner, innerRefs, aggregate>>
      /\ UNCHANGED <<ref, ptr, want, via>>
  BY DEF MethodStep, CallMethod, BeginMethod, EndMethod, objectVars, innerVars, refVars
<1>3. ref[r] = "held"
  BY RegisteredCallsHeld
     DEF MethodStep, CallMethod, BeginMethod, EndMethod, IInv, OperationsHoldTheirs
<1>4. created /\ registered
  BY <1>3, HeldIsThere
<1>5. TypeOK' /\ Counted' = Counted
  BY <1>1, <1>2 DEF IInv, TypeOK, Counted
<1>6. \A a \in Refs : a # r => method'[a] = method[a]
  BY <1>1 DEF IInv, TypeOK
<1>7. OperationsHoldTheirs'
  BY <1>2, <1>3, <1>6 DEF IInv, OperationsHoldTheirs
<1>8. InnerIsOwned'
  BY <1>2 DEF IInv, InnerIsOwned, Aggregating
<1> QED BY <1>2, <1>4, <1>5, <1>7, <1>8, SameCountIInv

-----------------------------------------------------------------------------
LEMMA NextIInv == IInv /\ [Next]_vars => IInv'
<1> SUFFICES ASSUME IInv, [Next]_vars PROVE IInv'
  OBVIOUS
<1>1. CASE UNCHANGED vars
  <2>1. Counted' = Counted
    BY <1>1 DEF vars, Counted
  <2> QED
    BY <1>1, <2>1 DEF vars, IInv, TypeOK, AccountsForBothHalves, InnerOutlivesItsInterfaces,
       MethodsRunOnTheLiving, LastReleaseIsAlone, OperationsHoldTheirs, InnerIsOwned, Aggregating
<1>2. ASSUME NEW r \in Refs, QueryStep(r)
      PROVE  IInv'
  BY <1>2, CountedIInv, ForwardIInv DEF QueryStep
<1>3. ASSUME NEW r \in Refs, ReleaseStep(r) \/ InnerDestroyed(r)
      PROVE  IInv'
  BY <1>3, DecrementIInv, EndIInv DEF ReleaseStep
<1> QED
  BY <1>1, <1>2, <1>3, NewImplementationIInv, AggregateIInv, CheckIInv, DefaultInterfaceIInv,
     CheckReleaseIInv, MethodIInv DEF Next

\* The invariant of the aggregate, the types of its state with it.
THEOREM AlwaysIInv == Spec => []IInv
BY InitIInv, NextIInv, PTL DEF Spec

\* The count stands for the references to both halves.
THEOREM AlwaysAccountsForBothHalves == Spec => []AccountsForBothHalves
BY AlwaysIInv, PTL DEF IInv

\* The inner is alive for whoever may reach it.
THEOREM InnerAlwaysOutlives == Spec => []InnerOutlivesItsInterfaces
BY AlwaysIInv, PTL DEF IInv

\* A Method that was looked up finds its object still registered when it runs
\* (aggregate.go, invokeImplementedMethod): the reference it is called through
\* stands until it returns, and only the last Release unregisters.
THEOREM AlwaysMethodsRunOnTheLiving == Spec => []MethodsRunOnTheLiving
BY AlwaysIInv, PTL DEF IInv

-----------------------------------------------------------------------------
\* The steps of a query that has an answer give the answer of its interface.
LEMMA QueryAnswers ==
    ASSUME IInv, NEW r \in Refs, want[r] \in Iids, want'[r] # want[r], ref'[r] # ref[r],
           NEW q \in Refs, QueryStep(q)
    PROVE  Answers(want[r], ref'[r], ptr'[r])
<1> USE InspectableAssumption DEF Iids
<1>1. q = r
  BY DEF QueryStep, CompleteAddRef, AnswerQuery, Forward, RefuseQuery, InnerAnswers, Become,
         IInv, TypeOK
<1>2. want[r] # AddRefOnly /\ ref[r] \in {"checked", "forwarded"} /\ registered
  BY HeldIsThere DEF IInv, TypeOK, OperationsHoldTheirs, AddRefOnly, IUnknown
<1>3. CASE AnswerQuery(r)
  BY <1>2, <1>3 DEF AnswerQuery, OwnAnswer, Become, Answers, IInv, TypeOK
<1>4. CASE RefuseQuery(r)
  BY <1>2, <1>4 DEF RefuseQuery, Become, Answers, IInv, TypeOK, InnerIsOwned
<1>5. CASE InnerAnswers(r)
  BY <1>2, <1>5 DEF InnerAnswers, Become, Answers, IInv, TypeOK, InnerIsOwned
<1> QED
  BY <1>1, <1>2, <1>3, <1>4, <1>5 DEF QueryStep, CompleteAddRef, Forward

\* The answer to a query depends on the interface alone.
THEOREM AlwaysAnswersByInterface == Spec => AnswersByInterface
<1>1. IInv /\ [Next]_vars =>
        \A r \in Refs : want[r] \in Iids /\ want'[r] # want[r] /\ ref'[r] # ref[r]
           => Answers(want[r], ref'[r], ptr'[r])
  <2> SUFFICES ASSUME IInv, [Next]_vars, NEW r \in Refs, want[r] \in Iids,
                      want'[r] # want[r], ref'[r] # ref[r]
               PROVE  Answers(want[r], ref'[r], ptr'[r])
    OBVIOUS
  <2> USE InspectableAssumption DEF Iids
  <2>1. ref[r] \in {"checked", "forwarded"}
    BY DEF IInv, OperationsHoldTheirs
  <2>2. CASE \/ UNCHANGED vars \/ NewImplementation \/ AggregateStep
             \/ \E q \in Refs : CheckRelease(q) \/ MethodStep(q) \/ InnerDestroyed(q)
    BY <2>2 DEF vars, NewImplementation, innerVars, AggregateStep, BeginAggregate, FactoryFails,
                FactoryMakes, StoreInner, refVars, CheckRelease, MethodStep, CallMethod,
                BeginMethod, EndMethod, InnerDestroyed
  <2>3. ASSUME NEW q \in Refs, ReleaseStep(q)
        PROVE  FALSE
    BY <2>1, <2>3 DEF ReleaseStep, Decrement, Unregister, ReleaseInner, Become, IInv, TypeOK
  <2>4. ASSUME NEW q \in Refs, NEW s \in Refs, NEW i \in Iids \cup {AddRefOnly}, Check(q, s, i)
        PROVE  FALSE
    BY <2>1, <2>4 DEF Check, IInv, TypeOK
  <2>5. ASSUME NEW q \in Refs, DefaultInterface(q)
        PROVE  FALSE
    BY <2>1, <2>5 DEF DefaultInterface, IInv, TypeOK
  <2> QED BY <2>2, <2>3, <2>4, <2>5, QueryAnswers DEF Next
<1> QED BY AlwaysIInv, <1>1, PTL DEF Spec, AnswersByInterface

-----------------------------------------------------------------------------
\* An aggregate that is not made yet is unborn to COM.
LEMMA InitComLifetime == Init => Com!Init
<1> SUFFICES ASSUME Init PROVE Com!Init
  OBVIOUS
<1>1. Counted = {}
  BY DEF Init, Counted
<1> QED BY <1>1 DEF Init, Com!Init

\* Every step on either half is a step of the lifetime COM asks for, or none of its
\* business.
LEMMA StepComLifetime == IInv /\ [Next]_vars => [Com!Next]_(Com!vars)
<1> SUFFICES ASSUME IInv, [Next]_vars PROVE [Com!Next]_(Com!vars)
  OBVIOUS
<1> USE InspectableAssumption DEF Com!vars
<1>1. CASE NewImplementation
  <2>1. Counted = {} /\ Counted' = {OwnerRef}
    BY <1>1 DEF NewImplementation, IInv, TypeOK, LastReleaseIsAlone, Counted
  <2> QED BY <1>1, <2>1 DEF NewImplementation, Com!Next, Com!Create
<1>2. ASSUME NEW r \in Refs, CompleteAddRef(r) \/ AnswerQuery(r)
      PROVE  [Com!Next]_(Com!vars)
  <2>1. Counted' = Counted \cup {r} /\ UNCHANGED <<created, registered>>
    BY <1>2 DEF CompleteAddRef, AnswerQuery, Become, IInv, TypeOK, Counted
  <2>2. Counted # {}
    BY <1>2 DEF CompleteAddRef, AnswerQuery, IInv, OperationsHoldTheirs, Counted
  <2> QED BY <2>1, <2>2 DEF Com!Next, Com!Acquire
<1>3. ASSUME NEW r \in Refs, Decrement(r)
      PROVE  [Com!Next]_(Com!vars)
  <2>1. Counted' = Counted \ {r} /\ r \in Counted /\ UNCHANGED <<created, registered>>
    BY <1>3 DEF Decrement, Become, IInv, TypeOK, Counted
  <2> QED BY <2>1 DEF Com!Next, Com!Drop
<1>4. ASSUME NEW r \in Refs, Unregister(r)
      PROVE  [Com!Next]_(Com!vars)
  <2>1. Counted = {} /\ created /\ registered /\ Counted' = Counted
    BY <1>4 DEF Unregister, IInv, TypeOK, LastReleaseIsAlone, Counted
  <2>2. created' /\ ~ registered'
    BY <1>4, <2>1 DEF Unregister
  <2> QED BY <2>1, <2>2 DEF Com!Next, Com!Vanish
<1>5. CASE \E r \in Refs :
             \/ \E s \in Refs, i \in Iids \cup {AddRefOnly} : Check(r, s, i)
             \/ DefaultInterface(r) \/ CheckRelease(r) \/ InnerDestroyed(r) \/ ReleaseInner(r)
             \/ Forward(r) \/ RefuseQuery(r) \/ InnerAnswers(r)
  <2>1. UNCHANGED <<created, registered>>
    BY <1>5 DEF Check, DefaultInterface, CheckRelease, InnerDestroyed, ReleaseInner, Forward,
                RefuseQuery, InnerAnswers, objectVars
  <2>2. ASSUME NEW r \in Refs, CheckRelease(r)
        PROVE  Counted' = Counted
    <3>1. ref[r] = "held"
      BY <2>2, RegisteredCallsHeld DEF CheckRelease
    <3> QED BY <2>2, <3>1 DEF CheckRelease, IInv, TypeOK, Counted
  <2>3. Counted' = Counted
    BY <1>5, <2>2 DEF Check, DefaultInterface, InnerDestroyed, ReleaseInner, Forward,
                RefuseQuery, InnerAnswers, Become, IInv, TypeOK, Counted
  <2> QED BY <2>1, <2>3
<1>6. CASE UNCHANGED vars \/ AggregateStep \/ \E r \in Refs : MethodStep(r)
  <2>1. UNCHANGED <<created, registered, ref>>
    BY <1>6 DEF vars, AggregateStep, BeginAggregate, FactoryFails, FactoryMakes, StoreInner,
                MethodStep, CallMethod, BeginMethod, EndMethod, objectVars, refVars
  <2> QED BY <2>1 DEF Counted
<1> QED
  BY <1>1, <1>2, <1>3, <1>4, <1>5, <1>6 DEF Next, QueryStep, ReleaseStep

\* The safety half of AggregateLivesByComRules: the registry and the count of both
\* halves implement COM's lifetime.
THEOREM ImplementsComLifetime == Spec => Com!Init /\ [][Com!Next]_(Com!vars)
BY AlwaysIInv, InitComLifetime, StepComLifetime, PTL DEF Spec
============================================================================
