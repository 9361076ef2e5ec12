------------------------- MODULE CollectionsProofs -------------------------
(***************************************************************************)
(* For any collections, elements and bounds, and whatever destructors call *)
(* meanwhile: an iterator yields its snapshot once and in order, the       *)
(* references balance, nothing destroyed comes back and a failed call      *)
(* destroys nothing.                                                       *)
(***************************************************************************)
EXTENDS Collections, SequenceTheorems, FunctionTheorems, FiniteSetTheorems,
        WellFoundedInduction, TLAPS

USE DEF Results

-----------------------------------------------------------------------------
(* The operators the actions are built from.                               *)

\* The payloads of bounded length are sequences.
LEMMA SeqOfIsSeq ==
    ASSUME NEW S, NEW s \in Seqs!SeqOf(S, MaxLen)
    PROVE  s \in Seq(S)
<1>1. PICK m \in 0..MaxLen : s \in [1..m -> S]
  BY CollectionsAssumption DEF Seqs!SeqOf
<1> QED BY <1>1, CollectionsAssumption

\* An element is at finitely many places of a payload.
LEMMA PlacesFinite ==
    ASSUME NEW s \in Seq(Elements), NEW e
    PROVE  IsFiniteSet(Places(e, s)) /\ Places(e, s) \subseteq 1..Len(s)
<1>1. IsFiniteSet(1..Len(s))
  BY FS_Interval
<1>2. Places(e, s) \subseteq 1..Len(s)
  BY DEF Places
<1> QED BY <1>1, <1>2, FS_Subset

\* How often an element occurs in a payload is a number.
LEMMA OccursType ==
    ASSUME NEW s \in Seq(Elements), NEW e
    PROVE  Occurs(e, s) \in Nat
BY PlacesFinite, FS_CardinalityType DEF Occurs

\* Min of two numbers.
LEMMA MinOfTwo ==
    ASSUME NEW a \in Int, NEW b \in Int
    PROVE  Min({a, b}) = IF a <= b THEN a ELSE b
<1>1. \E x \in {a, b} : \A y \in {a, b} : x <= y
  OBVIOUS
<1>2. Min({a, b}) \in {a, b} /\ \A y \in {a, b} : Min({a, b}) <= y
  BY <1>1 DEF Min
<1> QED BY <1>2

\* marshalRange takes elements of the payload, none past its end.
LEMMA WantedProperties ==
    ASSUME TypeOK, NEW o \in Objects, NEW from \in Nat, NEW capacity \in Nat
    PROVE  /\ Wanted(o, from, capacity) \in Seq(Elements)
           /\ from <= Len(items[o])
                => /\ from + Len(Wanted(o, from, capacity)) <= Len(items[o])
                   /\ SubSeq(items[o], 1, from) \o Wanted(o, from, capacity)
                        = SubSeq(items[o], 1, from + Len(Wanted(o, from, capacity)))
<1> DEFINE s == items[o]
           n == Min({from + capacity, Len(s)})
<1>1. s \in Seq(Elements) /\ Len(s) \in Nat
  BY DEF TypeOK
<1>2. n = IF from + capacity <= Len(s) THEN from + capacity ELSE Len(s)
  BY <1>1, MinOfTwo
<1>3. n \in Nat /\ n <= Len(s) /\ Wanted(o, from, capacity) = SubSeq(s, from + 1, n)
  BY <1>1, <1>2 DEF Wanted
<1> HIDE DEF n, s
<1>4. \A i \in (from + 1)..n : s[i] \in Elements
  BY <1>1, <1>3
<1>5. /\ SubSeq(s, from + 1, n) \in Seq(Elements)
      /\ Len(SubSeq(s, from + 1, n)) = IF from + 1 <= n THEN n - (from + 1) + 1 ELSE 0
  BY <1>1, <1>3, <1>4, SubSeqProperties
<1>6. ASSUME from <= Len(s)
      PROVE  /\ n = from + Len(SubSeq(s, from + 1, n))
             /\ SubSeq(s, 1, from) \o SubSeq(s, from + 1, n) = SubSeq(s, 1, n)
  <2>1. from <= n
    BY <1>1, <1>2, <1>6
  <2>2. n = from + Len(SubSeq(s, from + 1, n))
    BY <2>1, <1>3, <1>5
  <2> QED BY <2>1, <2>2, <1>1, <1>3, ConcatAdjacentSubSeq
<1> QED BY <1>3, <1>5, <1>6 DEF s

LEMMA WantedIsListed ==
    ASSUME TypeOK, NEW o \in Objects, NEW from \in Nat, NEW capacity \in Nat
    PROVE  \A k \in 1..Len(Wanted(o, from, capacity)) :
              \E j \in 1..Len(items[o]) : Wanted(o, from, capacity)[k] = items[o][j]
<1> DEFINE s == items[o]
           n == Min({from + capacity, Len(s)})
<1>1. s \in Seq(Elements) /\ Len(s) \in Nat
  BY DEF TypeOK
<1>2. n \in Nat /\ n <= Len(s) /\ Wanted(o, from, capacity) = SubSeq(s, from + 1, n)
  BY <1>1, MinOfTwo DEF Wanted
<1> HIDE DEF n, s
<1>3. \A i \in (from + 1)..n : i \in 1..Len(s) /\ s[i] \in Elements
  BY <1>1, <1>2
<1>4. /\ Len(SubSeq(s, from + 1, n)) = IF from + 1 <= n THEN n - (from + 1) + 1 ELSE 0
      /\ \A k \in 1..(n - (from + 1) + 1) : SubSeq(s, from + 1, n)[k] = s[(from + 1) + k - 1]
  BY <1>1, <1>2, <1>3, SubSeqProperties
<1>5. ASSUME NEW k \in 1..Len(SubSeq(s, from + 1, n))
      PROVE  \E j \in 1..Len(s) : SubSeq(s, from + 1, n)[k] = s[j]
  <2>1. k \in 1..(n - (from + 1) + 1) /\ (from + 1) + k - 1 \in (from + 1)..n
    BY <1>2, <1>4
  <2> QED BY <1>3, <1>4, <2>1
<1> QED BY <1>2, <1>5 DEF s

\* Inserting, replacing and removing within bounds give a payload again.
LEMMA InsertAtType ==
    ASSUME NEW s \in Seq(Elements), NEW k \in 1..(Len(s) + 1), NEW e \in Elements
    PROVE  Seqs!InsertAt(s, k, e) \in Seq(Elements)
<1>1. SubSeq(s, 1, k - 1) \in Seq(Elements) /\ SubSeq(s, k, Len(s)) \in Seq(Elements)
  BY SubSeqProperties
<1>2. SubSeq(s, 1, k - 1) \o <<e>> \in Seq(Elements)
  BY <1>1
<1> QED BY <1>1, <1>2, ConcatProperties DEF Seqs!InsertAt

LEMMA RemoveAtType ==
    ASSUME NEW s \in Seq(Elements), NEW k \in 1..Len(s)
    PROVE  Seqs!RemoveAt(s, k) \in Seq(Elements)
<1>1. SubSeq(s, 1, k - 1) \in Seq(Elements) /\ SubSeq(s, k + 1, Len(s)) \in Seq(Elements)
  BY SubSeqProperties
<1> QED BY <1>1, ConcatProperties DEF Seqs!RemoveAt

LEMMA ReplaceAtType ==
    ASSUME NEW s \in Seq(Elements), NEW k \in 1..Len(s), NEW e \in Elements
    PROVE  Seqs!ReplaceAt(s, k, e) \in Seq(Elements)
BY ExceptSeq DEF Seqs!ReplaceAt

\* The first of some places of a payload: what comes before has none of them.
LEMMA BeforeFirst ==
    ASSUME NEW S, NEW s \in Seq(S), NEW T, T \subseteq 1..Len(s), T # {}
    PROVE  LET p == SubSeq(s, 1, Min(T) - 1)
           IN  /\ p \in Seq(S)
               /\ \A k \in 1..Len(p) : k \in 1..Len(s) /\ k \notin T /\ p[k] = s[k]
<1>1. T \subseteq Nat
  OBVIOUS
<1>2. \E x \in T : \A y \in T : x <= y
  <2> DEFINE R == {ss \in Nat \X Nat : ss[1] < ss[2]}
  <2>1. IsWellFoundedOn(R, Nat)
    BY NatLessThanWellFounded DEF OpToRel
  <2>2. \A a, b \in Nat : a < b => <<a, b>> \in R
    OBVIOUS
  <2> HIDE DEF R
  <2>3. PICK x \in T : \A y \in T : ~ (<<y, x>> \in R)
    BY <1>1, <2>1, WFMin
  <2>4. ASSUME NEW y \in T PROVE x <= y
    <3>1. x \in Nat /\ y \in Nat /\ ~(y < x)
      BY <1>1, <2>2, <2>3
    <3> QED BY <3>1
  <2> QED BY <2>4
<1>3. Min(T) \in T /\ \A y \in T : Min(T) <= y
  BY <1>2 DEF Min
<1> DEFINE m == Min(T) - 1
           p == SubSeq(s, 1, m)
<1>4. m \in Nat /\ \A k \in 1..m : k \in 1..Len(s) /\ k \notin T /\ s[k] \in S
  <2> DEFINE first == Min(T)
  <2>1. first \in 1..Len(s) /\ \A y \in T : first <= y
    BY <1>3
  <2>2. m = first - 1
    OBVIOUS
  <2> HIDE DEF m, first
  <2>3. m \in Nat /\ \A k \in 1..m : k \in 1..Len(s) /\ k < first
    BY <2>1, <2>2
  <2> QED BY <2>1, <2>3
<1> HIDE DEF m
<1>5. p \in Seq(S) /\ Len(p) = m /\ \A k \in 1..m : p[k] = s[k]
  BY <1>4, SubSeqProperties
<1> QED BY <1>4, <1>5 DEF m

\* GetMany gives back what it wrote, all of it from the payload.
LEMMA UnwindGivesBack ==
    ASSUME TypeOK, NEW o \in Objects, NEW from \in Nat, NEW capacity \in Nat,
           ~Marshallable(Wanted(o, from, capacity)), Unwind(Wanted(o, from, capacity))
    PROVE  \E p \in Seq(Elements) :
              /\ GiveBack(p, "E_FAIL", {})
              /\ \A k \in 1..Len(p) : \E j \in 1..Len(items[o]) : p[k] = items[o][j]
<1> DEFINE s == Wanted(o, from, capacity)
           T == {k \in DOMAIN s : s[k] \in NoOut}
           p == SubSeq(s, 1, Min(T) - 1)
<1>1. /\ s \in Seq(Elements)
      /\ \A k \in 1..Len(s) : \E j \in 1..Len(items[o]) : s[k] = items[o][j]
  BY WantedProperties, WantedIsListed
<1>2. GiveBack(p, "E_FAIL", {}) /\ T # {} /\ T \subseteq 1..Len(s)
  BY <1>1 DEF Unwind, Marshallable
<1> HIDE DEF s, T
<1>3. p \in Seq(Elements) /\ \A k \in 1..Len(p) : k \in 1..Len(s) /\ p[k] = s[k]
  BY <1>1, <1>2, BeforeFirst
<1> HIDE DEF p
<1>4. \A k \in 1..Len(p) : \E j \in 1..Len(items[o]) : p[k] = items[o][j]
  BY <1>1, <1>3
<1> QED BY <1>2, <1>3, <1>4

\* ReplaceAll gives back fresh elements, all of them among those the caller passed.
LEMMA ReplaceNothingGivesBack ==
    ASSUME NEW o, NEW s \in Seq(Elements \cup {Refused}),
           \E k \in DOMAIN s : s[k] = Refused, ReplaceNothing(o, s)
    PROVE  \E p \in Seq(Elements), lent \in SUBSET Elements :
              /\ GiveBack(p, "E_POINTER", lent)
              /\ \A e \in lent : e \in Elements /\ \E k \in 1..Len(s) : s[k] = e
              /\ \A k \in 1..Len(p) : p[k] \in lent
<1> DEFINE T == {k \in DOMAIN s : s[k] = Refused}
           p == SubSeq(s, 1, Min(T) - 1)
           lent == {s[k] : k \in DOMAIN s} \ {Refused}
<1>1. GiveBack(p, "E_POINTER", lent) /\ T # {} /\ T \subseteq 1..Len(s)
  BY DEF ReplaceNothing, Fresh
<1>2. \A k \in 1..Len(s) : k \notin T => s[k] \in lent
  OBVIOUS
<1>3. \A e \in lent : e \in Elements /\ \E k \in 1..Len(s) : s[k] = e
  OBVIOUS
<1> HIDE DEF T, lent
<1>4. p \in Seq(Elements \cup {Refused}) /\ \A k \in 1..Len(p) : k \in 1..Len(s) /\ k \notin T /\ p[k] = s[k]
  BY <1>1, BeforeFirst
<1> HIDE DEF p
<1>5. \A k \in 1..Len(p) : p[k] \in lent
  BY <1>2, <1>4
<1>6. p \in Seq(Elements)
  BY <1>3, <1>4, <1>5
<1> QED BY <1>1, <1>3, <1>5, <1>6

\* A body that has something left to release is one more unfinished body.
LEMMA OweThenType ==
    ASSUME TypeOK, NEW s \in Seq(Elements), NEW result \in Results,
           NEW lent \in SUBSET Elements, OweThen(s, result, lent)
    PROVE  bodies' \in Seq(Body)
<1> DEFINE b == [owed |-> s, dying |-> FALSE, answer |-> result, lent |-> lent]
<1>1. <<b>> \in Seq(Body) /\ bodies \in Seq(Body)
  BY DEF Body, TypeOK
<1>2. bodies' = IF s = <<>> THEN bodies ELSE <<b>> \o bodies
  BY DEF OweThen
<1> HIDE DEF b
<1> QED BY <1>1, <1>2, ConcatProperties

LEMMA ReleaseEachType ==
    ASSUME TypeOK, NEW s \in Seq(Elements), ReleaseEach(s)
    PROVE  bodies' \in Seq(Body)
BY OweThenType DEF ReleaseEach

LEMMA RetainType ==
    ASSUME TypeOK, NEW s \in Seq(Elements), Retain(s)
    PROVE  count' \in [Elements -> Int]
BY OccursType DEF Retain, TypeOK

LEMMA MarshalType ==
    ASSUME TypeOK, NEW s \in Seq(Elements), Marshal(s)
    PROVE  count' \in [Elements -> Int] /\ held' \in [Elements -> Nat]
BY OccursType, RetainType DEF Marshal, TypeOK

-----------------------------------------------------------------------------
(* The invariant.                                                          *)

LEMMA InitIInv == Init => IInv
<1> SUFFICES ASSUME Init PROVE IInv
  OBVIOUS
<1>1. TypeOK
  BY DEF Init, TypeOK
<1>2. Unborn
  BY DEF Init, Unborn, Objects
<1>3. IteratesOnce
  BY DEF Init, IteratesOnce, Registered, Objects
<1> QED BY <1>1, <1>2, <1>3 DEF IInv

\* The steps that make and end no object and leave every iterator as it is.
LEMMA SameIteratorsIInv ==
    ASSUME IInv, TypeOK', UNCHANGED <<refs, born, pos, taken>>,
           \A i \in Iterators : items'[i] = items[i]
    PROVE  IInv'
BY DEF IInv, Unborn, IteratesOnce, Registered

LEMMA FailIInv ==
    ASSUME IInv, NEW result \in Results, Fail(result)
    PROVE  IInv'
<1>1. TypeOK'
  BY DEF Fail, Answer, IInv, TypeOK
<1> QED BY <1>1, SameIteratorsIInv DEF Fail

LEMMA GiveBackIInv ==
    ASSUME IInv, NEW s \in Seq(Elements), NEW result \in Results,
           NEW lent \in SUBSET Elements, GiveBack(s, result, lent)
    PROVE  IInv'
<1>1. count' \in [Elements -> Int] /\ bodies' \in Seq(Body)
  BY RetainType, OweThenType DEF GiveBack, IInv
<1>2. TypeOK'
  BY <1>1 DEF GiveBack, Answer, IInv, TypeOK
<1> QED BY <1>2, SameIteratorsIInv DEF GiveBack

\* A new object was unborn: if it is an iterator, it is at its first element.
LEMMA MakeIInv ==
    ASSUME IInv, NEW o \in Objects, NEW s \in Seq(Elements), Make(o, s), Answer("S_OK")
    PROVE  IInv'
<1> USE DEF Make, Answer
<1>1. TypeOK'
  BY RetainType DEF IInv, TypeOK
<1>2. Unborn'
  BY DEF IInv, TypeOK, Unborn, Objects
<1>3. IteratesOnce'
  <2> SUFFICES ASSUME NEW i \in Iterators, Registered(i)'
               PROVE  pos'[i] <= Len(items'[i]) /\ taken'[i] = SubSeq(items'[i], 1, pos'[i])
    BY DEF IteratesOnce
  <2>1. CASE i = o
    <3>1. pos'[i] = 0 /\ taken'[i] = <<>> /\ items'[i] = s
      BY <2>1 DEF IInv, TypeOK, Unborn
    <3>2. SubSeq(s, 1, 0) = <<>>
      BY SubSeqEmpty
    <3> QED BY <3>1, <3>2
  <2>2. CASE i # o
    <3>1. Registered(i) /\ items'[i] = items[i]
      BY <2>2 DEF IInv, TypeOK, Registered, Objects
    <3> QED BY <3>1 DEF IInv, IteratesOnce
  <2> QED BY <2>1, <2>2
<1> QED BY <1>1, <1>2, <1>3 DEF IInv

LEMMA AddRefObjectIInv ==
    ASSUME IInv, NEW o \in Objects, AddRefObject(o)
    PROVE  IInv'
<1> USE DEF AddRefObject, Answer, Serve, Registered
<1>1. TypeOK'
  BY DEF IInv, TypeOK
<1>2. o \in born
  BY DEF IInv, TypeOK, Unborn
<1>3. Unborn'
  BY <1>2 DEF IInv, TypeOK, Unborn
<1>4. IteratesOnce'
  BY DEF IInv, TypeOK, IteratesOnce, Objects
<1> QED BY <1>1, <1>3, <1>4 DEF IInv

\* The snapshot goes only with the iterator's registration.
LEMMA ReleaseObjectIInv ==
    ASSUME IInv, NEW o \in Objects, ReleaseObject(o)
    PROVE  IInv'
<1> USE DEF ReleaseObject, Answer, Serve, Registered, ReleaseAll
<1>1. TypeOK'
  <2>1. items' \in [Objects -> Seq(Elements)]
    BY EmptySeq DEF IInv, TypeOK
  <2>2. bodies' \in Seq(Body)
    BY ReleaseEachType DEF IInv, TypeOK, Body
  <2>3. refs' \in [Objects -> Nat]
    BY DEF IInv, TypeOK
  <2> QED BY <2>1, <2>2, <2>3 DEF IInv, TypeOK, Body
<1>2. o \in born
  BY DEF IInv, TypeOK, Unborn
<1>3. Unborn'
  BY <1>2 DEF IInv, TypeOK, Unborn
<1>4. \A i \in Iterators : refs'[i] > 0 => refs[i] > 0 /\ items'[i] = items[i]
  BY DEF IInv, TypeOK, Objects
<1>5. IteratesOnce'
  BY <1>4 DEF IInv, IteratesOnce
<1> QED BY <1>1, <1>3, <1>5 DEF IInv

-----------------------------------------------------------------------------
(* Reading.                                                                *)

LEMMA GetAtIInv ==
    ASSUME IInv, NEW o \in Objects, NEW index \in Nat, GetAt(o, index)
    PROVE  IInv'
<1>1. CASE Fail("E_BOUNDS") \/ Fail("E_FAIL")
  BY <1>1, FailIInv
<1>2. CASE /\ index < Len(items[o])
           /\ Marshal(<<items[o][index + 1]>>)
           /\ Answer("S_OK")
           /\ UNCHANGED <<refs, born, items, pos, taken, bodies>>
  <2>1. items[o] \in Seq(Elements)
    BY DEF IInv, TypeOK
  <2>2. items[o][index + 1] \in Elements
    BY <1>2, <2>1
  <2>3. <<items[o][index + 1]>> \in Seq(Elements)
    BY <2>2
  <2>4. count' \in [Elements -> Int] /\ held' \in [Elements -> Nat]
    BY <1>2, <2>3, MarshalType DEF IInv
  <2>5. TypeOK'
    BY <1>2, <2>4 DEF IInv, TypeOK, Answer
  <2> QED BY <1>2, <2>5, SameIteratorsIInv
<1> QED BY <1>1, <1>2 DEF GetAt

LEMMA GetManyIInv ==
    ASSUME IInv, NEW o \in Objects, NEW from \in Nat, NEW capacity \in Nat,
           GetMany(o, from, capacity)
    PROVE  IInv'
<1> DEFINE s == Wanted(o, from, capacity)
<1>1. CASE ~Marshallable(s) /\ Unwind(s)
  BY <1>1, UnwindGivesBack, GiveBackIInv DEF IInv
<1>2. CASE Marshal(s) /\ Answer("S_OK") /\ UNCHANGED <<refs, born, items, pos, taken, bodies>>
  <2>1. s \in Seq(Elements)
    BY WantedProperties DEF IInv
  <2>2. TypeOK'
    BY <1>2, <2>1, MarshalType DEF IInv, TypeOK, Answer
  <2> QED BY <1>2, <2>2, SameIteratorsIInv
<1> QED BY <1>1, <1>2 DEF GetMany

-----------------------------------------------------------------------------
(* Iterators.                                                              *)

\* The first k + 1 elements are the first k and the next one.
LEMMA OneMore ==
    ASSUME NEW s \in Seq(Elements), NEW k \in Nat, k < Len(s)
    PROVE  SubSeq(s, 1, k + 1) = SubSeq(s, 1, k) \o <<s[k + 1]>>
<1> DEFINE n == k + 1
<1>1. n \in 1..Len(s) /\ 1 \in 1..Len(s) /\ n - 1 = k
  OBVIOUS
<1>2. SubSeq(s, 1, n) = SubSeq(s, 1, n - 1) \o <<s[n]>>
  <2> HIDE DEF n
  <2> QED BY <1>1, SubSeqRecursiveSecond
<1> QED BY <1>1, <1>2

LEMMA MoveNextIInv ==
    ASSUME IInv, NEW i \in Iterators, MoveNext(i)
    PROVE  IInv'
<1>1. CASE Fail("E_BOUNDS")
  BY <1>1, FailIInv
<1>2. CASE /\ Serve(i)
           /\ pos[i] < Len(items[i])
           /\ pos' = [pos EXCEPT ![i] = @ + 1]
           /\ taken' = [taken EXCEPT ![i] = Append(@, items[i][pos[i] + 1])]
           /\ Answer("S_OK")
           /\ UNCHANGED <<refs, born, items, count, held, bodies>>
  <2>1. items[i] \in Seq(Elements) /\ pos[i] \in Nat /\ taken[i] \in Seq(Elements)
    BY DEF IInv, TypeOK, Objects
  <2>2. items[i][pos[i] + 1] \in Elements
    BY <1>2, <2>1
  <2>3. TypeOK'
    <3>1. pos' \in [Iterators -> Nat]
      BY <1>2, <2>1 DEF IInv, TypeOK
    <3>2. Append(taken[i], items[i][pos[i] + 1]) \in Seq(Elements)
      BY <2>1, <2>2, AppendProperties
    <3>3. taken' \in [Iterators -> Seq(Elements)]
      BY <1>2, <3>2 DEF IInv, TypeOK
    <3> QED BY <1>2, <3>1, <3>3 DEF IInv, TypeOK, Answer
  <2>4. i \in born
    BY <1>2 DEF IInv, TypeOK, Unborn, Serve, Registered, Objects
  <2>5. Unborn'
    BY <1>2, <2>4 DEF IInv, TypeOK, Unborn
  <2>6. taken[i] = SubSeq(items[i], 1, pos[i])
    BY <1>2 DEF IInv, IteratesOnce, Serve
  <2>7. SubSeq(items[i], 1, pos[i] + 1) = SubSeq(items[i], 1, pos[i]) \o <<items[i][pos[i] + 1]>>
    BY <1>2, <2>1, OneMore
  <2>8. taken'[i] = SubSeq(items[i], 1, pos[i] + 1)
    <3>1. taken'[i] = Append(taken[i], items[i][pos[i] + 1])
      BY <1>2 DEF IInv, TypeOK
    <3>2. Append(taken[i], items[i][pos[i] + 1]) = taken[i] \o <<items[i][pos[i] + 1]>>
      BY <2>1, <2>2, AppendIsConcat
    <3> QED BY <3>1, <3>2, <2>6, <2>7
  <2>9. pos'[i] = pos[i] + 1 /\ pos'[i] <= Len(items[i])
    BY <1>2, <2>1 DEF IInv, TypeOK
  <2>10. \A j \in Iterators \ {i} : pos'[j] = pos[j] /\ taken'[j] = taken[j]
    BY <1>2 DEF IInv, TypeOK
  <2>11. IteratesOnce'
    BY <1>2, <2>8, <2>9, <2>10 DEF IInv, IteratesOnce, Registered
  <2> QED BY <2>3, <2>5, <2>11 DEF IInv
<1> QED BY <1>1, <1>2 DEF MoveNext

LEMMA NextManyIInv ==
    ASSUME IInv, NEW i \in Iterators, NEW capacity \in Nat, NextMany(i, capacity)
    PROVE  IInv'
<1> DEFINE s == Wanted(i, pos[i], capacity)
<1>1. CASE ~Marshallable(s) /\ Unwind(s)
  <2>1. i \in Objects /\ pos[i] \in Nat
    BY DEF IInv, TypeOK, Objects
  <2> QED BY <1>1, <2>1, UnwindGivesBack, GiveBackIInv DEF IInv
<1>2. CASE /\ Serve(i)
           /\ Marshal(s)
           /\ Advance(i, s, capacity)
           /\ taken' = [taken EXCEPT ![i] = @ \o s]
           /\ Answer("S_OK")
           /\ UNCHANGED <<refs, born, items, bodies>>
  <2>1. /\ i \in Objects
        /\ items[i] \in Seq(Elements) /\ pos[i] \in Nat /\ taken[i] \in Seq(Elements)
    BY DEF IInv, TypeOK, Objects
  <2>2. pos[i] <= Len(items[i]) /\ taken[i] = SubSeq(items[i], 1, pos[i])
    BY <1>2 DEF IInv, IteratesOnce, Serve
  <2>3. /\ s \in Seq(Elements)
        /\ pos[i] + Len(s) <= Len(items[i])
        /\ SubSeq(items[i], 1, pos[i]) \o s = SubSeq(items[i], 1, pos[i] + Len(s))
    BY <2>1, <2>2, WantedProperties DEF IInv
  <2> HIDE DEF s
  <2>4. count' \in [Elements -> Int] /\ held' \in [Elements -> Nat]
    BY <1>2, <2>3, MarshalType DEF IInv
  <2>5. pos' = [pos EXCEPT ![i] = @ + Len(s)] /\ pos' \in [Iterators -> Nat]
    <3>1. pos' = [pos EXCEPT ![i] = @ + Len(s)]
      BY <1>2 DEF Advance
    <3>2. pos \in [Iterators -> Nat] /\ pos[i] + Len(s) \in Nat
      <4>1. pos \in [Iterators -> Nat]
        BY DEF IInv, TypeOK
      <4>2. Len(s) \in Nat
        BY <2>3
      <4> QED BY <2>1, <4>1, <4>2
    <3> QED BY <3>1, <3>2
  <2>6. taken[i] \o s \in Seq(Elements)
    BY <2>1, <2>3, ConcatProperties
  <2>7. taken' \in [Iterators -> Seq(Elements)]
    BY <1>2, <2>6 DEF IInv, TypeOK
  <2>8. TypeOK'
    BY <1>2, <2>4, <2>5, <2>7 DEF IInv, TypeOK, Answer
  <2>9. i \in born
    BY <1>2, <2>1 DEF IInv, TypeOK, Unborn, Serve, Registered
  <2>10. Unborn'
    BY <1>2, <2>5, <2>9 DEF IInv, TypeOK, Unborn
  <2>11. pos'[i] = pos[i] + Len(s) /\ taken'[i] = taken[i] \o s
    BY <1>2, <2>5 DEF IInv, TypeOK
  <2>12. IteratesOnce'
    BY <1>2, <2>2, <2>3, <2>5, <2>11 DEF IInv, TypeOK, IteratesOnce, Registered
  <2> QED BY <2>8, <2>10, <2>12 DEF IInv
<1> QED BY <1>1, <1>2 DEF NextMany

-----------------------------------------------------------------------------
(* Mutation: a vector is no iterator.                                      *)

\* The items of a vector change and something may be left to release.
LEMMA MutateIInv ==
    ASSUME IInv, NEW o \in Vectors, NEW s \in Seq(Elements),
           items' = [items EXCEPT ![o] = s],
           bodies' \in Seq(Body), count' \in [Elements -> Int], hr' = "S_OK",
           UNCHANGED <<refs, born, pos, taken, held>>
    PROVE  IInv'
<1>1. TypeOK'
  BY DEF IInv, TypeOK, Body
<1>2. \A i \in Iterators : items'[i] = items[i]
  BY CollectionsAssumption DEF IInv, TypeOK, Objects, Sources
<1> QED BY <1>1, <1>2, SameIteratorsIInv

LEMMA SetAtIInv ==
    ASSUME IInv, NEW o \in Vectors, NEW index \in Nat, NEW e \in Elements \cup {Refused},
           SetAt(o, index, e)
    PROVE  IInv'
<1>1. CASE Fail("E_BOUNDS") \/ Fail("E_POINTER")
  BY <1>1, FailIInv
<1>2. CASE /\ index < Len(items[o]) /\ e # Refused
           /\ Retain(<<e>>)
           /\ items' = [items EXCEPT ![o] = Seqs!ReplaceAt(@, index + 1, e)]
           /\ ReleaseEach(<<items[o][index + 1]>>)
           /\ Answer("S_OK")
           /\ UNCHANGED <<refs, born, pos, taken, held>>
  <2>1. items[o] \in Seq(Elements) /\ e \in Elements /\ index + 1 \in 1..Len(items[o])
    BY <1>2 DEF IInv, TypeOK, Objects, Sources
  <2>2. Seqs!ReplaceAt(items[o], index + 1, e) \in Seq(Elements)
    BY <2>1, ReplaceAtType
  <2>3. <<e>> \in Seq(Elements) /\ <<items[o][index + 1]>> \in Seq(Elements)
    BY <2>1
  <2>4. count' \in [Elements -> Int] /\ bodies' \in Seq(Body)
    BY <1>2, <2>3, RetainType, ReleaseEachType DEF IInv
  <2>5. items' = [items EXCEPT ![o] = Seqs!ReplaceAt(items[o], index + 1, e)]
    BY <1>2 DEF IInv, TypeOK
  <2> QED BY <1>2, <2>2, <2>4, <2>5, MutateIInv DEF Answer
<1> QED BY <1>1, <1>2 DEF SetAt

LEMMA InsertAtIInv ==
    ASSUME IInv, NEW o \in Vectors, NEW index \in Nat, NEW e \in Elements \cup {Refused},
           InsertAt(o, index, e)
    PROVE  IInv'
<1>1. CASE Fail("E_BOUNDS") \/ Fail("E_POINTER")
  BY <1>1, FailIInv
<1>2. CASE /\ index <= Len(items[o]) /\ e # Refused
           /\ Retain(<<e>>)
           /\ items' = [items EXCEPT ![o] = Seqs!InsertAt(@, index + 1, e)]
           /\ Answer("S_OK")
           /\ UNCHANGED <<refs, born, pos, taken, held, bodies>>
  <2>1. items[o] \in Seq(Elements) /\ e \in Elements /\ index + 1 \in 1..(Len(items[o]) + 1)
    BY <1>2 DEF IInv, TypeOK, Objects, Sources
  <2>2. Seqs!InsertAt(items[o], index + 1, e) \in Seq(Elements)
    BY <2>1, InsertAtType
  <2>3. <<e>> \in Seq(Elements)
    BY <2>1
  <2>4. count' \in [Elements -> Int] /\ bodies' \in Seq(Body)
    BY <1>2, <2>3, RetainType DEF IInv, TypeOK, Body
  <2>5. items' = [items EXCEPT ![o] = Seqs!InsertAt(items[o], index + 1, e)]
    BY <1>2 DEF IInv, TypeOK
  <2> QED BY <1>2, <2>2, <2>4, <2>5, MutateIInv DEF Answer
<1> QED BY <1>1, <1>2 DEF InsertAt

LEMMA RemoveAtIInv ==
    ASSUME IInv, NEW o \in Vectors, NEW index \in Nat, RemoveAt(o, index)
    PROVE  IInv'
<1>1. CASE Fail("E_BOUNDS")
  BY <1>1, FailIInv
<1>2. CASE /\ index < Len(items[o])
           /\ items' = [items EXCEPT ![o] = Seqs!RemoveAt(@, index + 1)]
           /\ ReleaseEach(<<items[o][index + 1]>>)
           /\ Answer("S_OK")
           /\ UNCHANGED <<refs, born, pos, taken, count, held>>
  <2>1. items[o] \in Seq(Elements) /\ index + 1 \in 1..Len(items[o])
    BY <1>2 DEF IInv, TypeOK, Objects, Sources
  <2>2. Seqs!RemoveAt(items[o], index + 1) \in Seq(Elements)
    BY <2>1, RemoveAtType
  <2>3. <<items[o][index + 1]>> \in Seq(Elements)
    BY <2>1
  <2>4. count' \in [Elements -> Int] /\ bodies' \in Seq(Body)
    BY <1>2, <2>3, ReleaseEachType DEF IInv, TypeOK
  <2>5. items' = [items EXCEPT ![o] = Seqs!RemoveAt(items[o], index + 1)]
    BY <1>2 DEF IInv, TypeOK
  <2> QED BY <1>2, <2>2, <2>4, <2>5, MutateIInv DEF Answer
<1> QED BY <1>1, <1>2 DEF RemoveAt

LEMMA RemoveAtEndIInv ==
    ASSUME IInv, NEW o \in Vectors, RemoveAtEnd(o)
    PROVE  IInv'
<1>1. CASE Fail("E_BOUNDS")
  BY <1>1, FailIInv
<1>2. CASE items[o] # <<>> /\ RemoveAt(o, Len(items[o]) - 1)
  <2>1. items[o] \in Seq(Elements)
    BY DEF IInv, TypeOK, Objects, Sources
  <2>2. Len(items[o]) - 1 \in Nat
    BY <1>2, <2>1, EmptySeq
  <2> QED BY <1>2, <2>2, RemoveAtIInv
<1> QED BY <1>1, <1>2 DEF RemoveAtEnd

LEMMA ClearIInv ==
    ASSUME IInv, NEW o \in Vectors, Clear(o)
    PROVE  IInv'
<1>1. items[o] \in Seq(Elements) /\ <<>> \in Seq(Elements)
  BY EmptySeq DEF IInv, TypeOK, Objects, Sources
<1>2. count' \in [Elements -> Int] /\ bodies' \in Seq(Body)
  BY <1>1, ReleaseEachType DEF Clear, ReleaseAll, IInv, TypeOK
<1> QED BY <1>1, <1>2, MutateIInv DEF Clear, ReleaseAll, Answer

LEMMA ReplaceAllIInv ==
    ASSUME IInv, NEW o \in Vectors, NEW s \in Seq(Elements \cup {Refused}), ReplaceAll(o, s)
    PROVE  IInv'
<1>1. CASE (\E k \in DOMAIN s : s[k] = Refused) /\ ReplaceNothing(o, s)
  BY <1>1, ReplaceNothingGivesBack, GiveBackIInv
<1>2. CASE /\ \A k \in DOMAIN s : s[k] # Refused
           /\ Retain(s)
           /\ items' = [items EXCEPT ![o] = s]
           /\ ReleaseEach(items[o])
           /\ Answer("S_OK")
           /\ UNCHANGED <<refs, born, pos, taken, held>>
  <2>1. s \in Seq(Elements)
    <3>1. \A k \in 1..Len(s) : s[k] \in Elements
      BY <1>2
    <3> QED BY <3>1
  <2>2. items[o] \in Seq(Elements)
    BY DEF IInv, TypeOK, Objects, Sources
  <2>3. count' \in [Elements -> Int] /\ bodies' \in Seq(Body)
    BY <1>2, <2>1, <2>2, RetainType, ReleaseEachType DEF IInv
  <2> QED BY <1>2, <2>1, <2>3, MutateIInv DEF Answer
<1> QED BY <1>1, <1>2 DEF ReplaceAll

-----------------------------------------------------------------------------
(* A body's releases, and the clients' references.                         *)

LEMMA ReleaseNextIInv ==
    ASSUME IInv, ReleaseNext
    PROVE  IInv'
<1> DEFINE e == Head(bodies[1].owed)
           rest == Tail(bodies[1].owed)
<1> USE DEF ReleaseNext
<1>1. bodies \in Seq(Body) /\ bodies # <<>>
  BY DEF IInv, TypeOK, Body
<1>2. 1 \in 1..Len(bodies) /\ bodies[1] \in Body
  BY <1>1, EmptySeq, ElementOfSeq
<1>3. bodies[1].owed \in Seq(Elements) /\ bodies[1].owed # <<>>
  BY <1>2 DEF Body
<1>4. e \in Elements /\ rest \in Seq(Elements)
  BY <1>3, HeadTailProperties
<1>5. count' \in [Elements -> Int]
  BY <1>4 DEF IInv, TypeOK
<1> DEFINE next == [bodies[1] EXCEPT !.owed = rest, !.dying = (count[e] = 1)]
<1>6. next \in Body /\ bodies[1].answer \in Results
  BY <1>2, <1>4 DEF Body
<1>7. Tail(bodies) \in Seq(Body)
  BY <1>1, HeadTailProperties
<1>8. [bodies EXCEPT ![1] = next] \in Seq(Body)
  <2> HIDE DEF next
  <2> QED BY <1>1, <1>2, <1>6, ExceptSeq
<1>9. bodies' \in Seq(Body)
  <2>1. bodies' \in {Tail(bodies), [bodies EXCEPT ![1] = next]}
    OBVIOUS
  <2> HIDE DEF next
  <2> QED BY <1>7, <1>8, <2>1
<1>10. TypeOK'
  BY <1>5, <1>6, <1>9 DEF IInv, TypeOK, Answer
<1> QED BY <1>10, SameIteratorsIInv

LEMMA ReturnFromBodyIInv ==
    ASSUME IInv, ReturnFromBody
    PROVE  IInv'
<1>1. bodies \in Seq(Body) /\ bodies # <<>>
  BY DEF IInv, TypeOK, Body, ReturnFromBody
<1>2. bodies' \in Seq(Body)
  BY <1>1, HeadTailProperties DEF ReturnFromBody
<1>3. bodies[1].answer \in Results
  <2>1. bodies[1] \in Body
    BY <1>1, EmptySeq, ElementOfSeq
  <2> QED BY <2>1 DEF Body
<1>4. TypeOK'
  BY <1>2, <1>3 DEF IInv, TypeOK, ReturnFromBody, Answer
<1> QED BY <1>4, SameIteratorsIInv DEF ReturnFromBody

LEMMA DropElementIInv ==
    ASSUME IInv, NEW e \in Elements, DropElement(e)
    PROVE  IInv'
<1>1. TypeOK'
  BY DEF IInv, TypeOK, DropElement, Answer
<1> QED BY <1>1, SameIteratorsIInv DEF DropElement

-----------------------------------------------------------------------------
(* The slots and the theorems.                                             *)

LEMMA ObjectSlotsIInv ==
    ASSUME IInv, NEW o \in Objects, ObjectSlots(o)
    PROVE  IInv'
<1>1. ASSUME NEW s \in Lists, NewObject(o, s) PROVE IInv'
  BY <1>1, SeqOfIsSeq, MakeIInv DEF NewObject, Lists
<1>2. CASE Fail("E_FAIL") \/ Fail("E_POINTER") \/ Fail("S_OK")
  BY <1>2, FailIInv
<1> QED BY <1>1, <1>2, AddRefObjectIInv, ReleaseObjectIInv DEF ObjectSlots, RefuseCall, Look

LEMMA ViewSlotsIInv ==
    ASSUME IInv, NEW o \in Sources, ViewSlots(o)
    PROVE  IInv'
<1>1. o \in Objects /\ Indices \subseteq Nat /\ items[o] \in Seq(Elements)
  BY CollectionsAssumption DEF Objects, Indices, IInv, TypeOK
<1>2. ASSUME NEW new \in Objects, First(o, new) PROVE IInv'
  BY <1>1, <1>2, MakeIInv DEF First
<1> QED BY <1>1, <1>2, GetAtIInv, GetManyIInv DEF ViewSlots

LEMMA VectorSlotsIInv ==
    ASSUME IInv, NEW o \in Vectors, VectorSlots(o)
    PROVE  IInv'
<1>1. /\ o \in Objects /\ Indices \subseteq Nat /\ items[o] \in Seq(Elements)
      /\ Words \subseteq Elements \cup {Refused}
  BY CollectionsAssumption DEF Objects, Sources, Indices, IInv, TypeOK, Words, Live
<1>2. ASSUME NEW new \in Objects, GetView(o, new) PROVE IInv'
  BY <1>1, <1>2, MakeIInv DEF GetView
<1>3. ASSUME NEW e \in Words, AppendWord(o, e) PROVE IInv'
  <2>1. Len(items[o]) \in Nat
    BY <1>1
  <2> QED BY <1>1, <1>3, <2>1, InsertAtIInv DEF AppendWord
<1>4. ASSUME NEW s \in Seqs!SeqOf(Words, MaxLen), ReplaceAll(o, s) PROVE IInv'
  <2>1. s \in Seq(Elements \cup {Refused})
    BY <1>1, SeqOfIsSeq, SeqMonotonic
  <2> QED BY <1>4, <2>1, ReplaceAllIInv
<1> QED BY <1>1, <1>2, <1>3, <1>4, SetAtIInv, InsertAtIInv, RemoveAtIInv, RemoveAtEndIInv,
           ClearIInv DEF VectorSlots

LEMMA IteratorSlotsIInv ==
    ASSUME IInv, NEW i \in Iterators, IteratorSlots(i)
    PROVE  IInv'
<1>1. i \in Objects /\ Indices \subseteq Nat /\ pos[i] \in Nat
  BY CollectionsAssumption DEF Objects, Indices, IInv, TypeOK
<1> QED BY <1>1, GetAtIInv, MoveNextIInv, NextManyIInv DEF IteratorSlots, Current

LEMMA StepIInv == IInv /\ [Next]_vars => IInv'
<1> SUFFICES ASSUME IInv, [Next]_vars PROVE IInv'
  OBVIOUS
<1>1. CASE UNCHANGED vars
  BY <1>1 DEF vars, IInv, TypeOK, Unborn, IteratesOnce, Registered
<1>2. CASE Next
  BY <1>2, ObjectSlotsIInv, ViewSlotsIInv, VectorSlotsIInv, IteratorSlotsIInv,
     ReleaseNextIInv, ReturnFromBodyIInv, DropElementIInv DEF Next
<1> QED BY <1>1, <1>2

\* For any vectors, views, iterators and elements: an object counts references, and an
\* iterator a position, only once it is made (initInspectable), and an iterator's
\* snapshot stays what first copied until it is released.
THEOREM AlwaysIInv == Spec => []IInv
BY InitIInv, StepIInv, PTL DEF Spec

\* A live iterator has moved past exactly the first elements of its snapshot, each once
\* and in order, however MoveNext and GetMany (iteratorGetManyBody) are mixed and
\* whatever destructors and clients do to the vector meanwhile.
THEOREM AlwaysIteratesOnce == Spec => []IteratesOnce
BY AlwaysIInv, PTL DEF IInv

-----------------------------------------------------------------------------
(* Counting: the slots of a family of payloads.                            *)

LEMMA DisjointSize ==
    ASSUME NEW S, IsFiniteSet(S), NEW T, IsFiniteSet(T), S \cap T = {}
    PROVE  Cardinality(S \cup T) = Cardinality(S) + Cardinality(T)
<1>1. Cardinality(S) \in Nat /\ Cardinality(T) \in Nat /\ Cardinality(S \cap T) = 0
  BY FS_CardinalityType, FS_EmptySet
<1>2. Cardinality(S \cup T) = Cardinality(S) + Cardinality(T) - Cardinality(S \cap T)
  BY FS_Union
<1> QED BY <1>1, <1>2

\* A set of numbers moved along the line keeps its size.
LEMMA ShiftSize ==
    ASSUME NEW T \in SUBSET Int, IsFiniteSet(T), NEW c \in Int
    PROVE  /\ IsFiniteSet({k + c : k \in T})
           /\ Cardinality({k + c : k \in T}) = Cardinality(T)
<1> DEFINE U == {k + c : k \in T}
           f == [k \in T |-> k + c]
<1>1. f \in Bijection(T, U)
  BY DEF Bijection, Injection, Surjection, IsInjective
<1>2. ExistsBijection(T, U)
  BY <1>1 DEF ExistsBijection
<1> QED BY <1>2, FS_Bijection

\* What occurs in two payloads in a row occurs in the one or the other.
LEMMA OccursConcat ==
    ASSUME NEW s \in Seq(Elements), NEW t \in Seq(Elements), NEW e
    PROVE  Occurs(e, s \o t) = Occurs(e, s) + Occurs(e, t)
<1> DEFINE moved == {k + Len(s) : k \in Places(e, t)}
<1>1. /\ IsFiniteSet(Places(e, s)) /\ Places(e, s) \subseteq 1..Len(s)
      /\ IsFiniteSet(Places(e, t)) /\ Places(e, t) \subseteq 1..Len(t)
  BY PlacesFinite
<1>2. IsFiniteSet(moved) /\ Cardinality(moved) = Cardinality(Places(e, t))
  <2>1. Places(e, t) \in SUBSET Int /\ Len(s) \in Int
    BY <1>1
  <2> QED BY <2>1, <1>1, ShiftSize
<1>3. Places(e, s \o t) = Places(e, s) \cup moved
  <2>1. /\ s \o t \in Seq(Elements) /\ Len(s \o t) = Len(s) + Len(t)
        /\ \A i \in 1..(Len(s) + Len(t)) :
              (s \o t)[i] = IF i <= Len(s) THEN s[i] ELSE t[i - Len(s)]
    BY ConcatProperties
  <2>2. ASSUME NEW k \in Places(e, s \o t) PROVE k \in Places(e, s) \cup moved
    <3>1. k \in 1..(Len(s) + Len(t)) /\ (s \o t)[k] = e
      BY <2>1, <2>2 DEF Places
    <3>2. CASE k <= Len(s)
      BY <2>1, <3>1, <3>2 DEF Places
    <3>3. CASE k > Len(s)
      <4>1. k - Len(s) \in 1..Len(t) /\ t[k - Len(s)] = e
        BY <2>1, <3>1, <3>3
      <4>2. k - Len(s) \in Places(e, t) /\ k = (k - Len(s)) + Len(s)
        BY <3>1, <4>1 DEF Places
      <4> QED BY <4>2
    <3> QED BY <3>1, <3>2, <3>3
  <2>3. ASSUME NEW k \in Places(e, s) PROVE k \in Places(e, s \o t)
    BY <2>1, <2>3 DEF Places
  <2>4. ASSUME NEW k \in Places(e, t) PROVE k + Len(s) \in Places(e, s \o t)
    <3>1. k \in 1..Len(t) /\ t[k] = e
      BY <2>4 DEF Places
    <3>2. k + Len(s) \in 1..(Len(s) + Len(t)) /\ (s \o t)[k + Len(s)] = e
      BY <2>1, <3>1
    <3> QED BY <2>1, <3>2 DEF Places
  <2> QED BY <2>2, <2>3, <2>4
<1>4. Places(e, s) \cap moved = {}
  BY <1>1
<1> QED BY <1>1, <1>2, <1>3, <1>4, DisjointSize DEF Occurs

LEMMA OccursEmpty ==
    ASSUME NEW e
    PROVE  Occurs(e, <<>>) = 0
<1>1. Places(e, <<>>) = {}
  BY DEF Places
<1> QED BY <1>1, FS_EmptySet DEF Occurs

LEMMA OccursOnce ==
    ASSUME NEW e, NEW d
    PROVE  Occurs(e, <<d>>) = IF d = e THEN 1 ELSE 0
<1>1. CASE d = e
  <2>1. Places(e, <<d>>) = {1}
    BY <1>1 DEF Places
  <2> QED BY <1>1, <2>1, FS_Singleton DEF Occurs
<1>2. CASE d # e
  <2>1. Places(e, <<d>>) = {}
    BY <1>2 DEF Places
  <2> QED BY <1>2, <2>1, FS_EmptySet DEF Occurs
<1> QED BY <1>1, <1>2

\* A family of payloads.
Family(F) == IsFiniteSet(DOMAIN F) /\ \A x \in DOMAIN F : F[x] \in Seq(Elements)

LEMMA SlotsType ==
    ASSUME NEW F, Family(F), NEW e
    PROVE  /\ IsFiniteSet(UNION {{x} \X Places(e, F[x]) : x \in DOMAIN F})
           /\ Slots(e, F) \in Nat
<1> DEFINE T == {{x} \X Places(e, F[x]) : x \in DOMAIN F}
           f == [x \in DOMAIN F |-> {x} \X Places(e, F[x])]
<1>1. f \in Surjection(DOMAIN F, T)
  BY DEF Surjection
<1>2. IsFiniteSet(T)
  BY <1>1, FS_Surjection DEF Family
<1>3. ASSUME NEW x \in DOMAIN F PROVE IsFiniteSet({x} \X Places(e, F[x]))
  BY PlacesFinite, FS_Singleton, FS_Product DEF Family
<1>4. \A S \in T : IsFiniteSet(S)
  BY <1>3
<1>5. IsFiniteSet(UNION T)
  BY <1>2, <1>4, FS_UNION
<1> QED BY <1>5, FS_CardinalityType DEF Slots

\* A payload's slots are its own: they can be counted apart from those of the others.
LEMMA SlotsSplit ==
    ASSUME NEW F, Family(F), NEW x \in DOMAIN F, NEW e
    PROVE  LET G == [y \in DOMAIN F \ {x} |-> F[y]]
           IN  Family(G) /\ Slots(e, F) = Slots(e, G) + Occurs(e, F[x])
<1> DEFINE G == [y \in DOMAIN F \ {x} |-> F[y]]
           S == UNION {{y} \X Places(e, G[y]) : y \in DOMAIN G}
           P == {x} \X Places(e, F[x])
<1>1. Family(G)
  BY FS_RemoveElement DEF Family
<1>2. IsFiniteSet(S)
  BY <1>1, SlotsType
<1>3. IsFiniteSet(P) /\ Cardinality(P) = Occurs(e, F[x])
  <2>1. IsFiniteSet(Places(e, F[x])) /\ IsFiniteSet({x}) /\ Cardinality({x}) = 1
    BY PlacesFinite, FS_Singleton DEF Family
  <2>2. Cardinality(Places(e, F[x])) \in Nat
    BY <2>1, FS_CardinalityType
  <2>3. IsFiniteSet(P) /\ Cardinality(P) = 1 * Cardinality(Places(e, F[x]))
    BY <2>1, FS_Product
  <2> QED BY <2>2, <2>3 DEF Occurs
<1>4. UNION {{y} \X Places(e, F[y]) : y \in DOMAIN F} = S \cup P
  <2>1. \A y \in DOMAIN G : G[y] = F[y]
    OBVIOUS
  <2>2. DOMAIN F = DOMAIN G \cup {x}
    OBVIOUS
  <2> HIDE DEF G
  <2> QED BY <2>1, <2>2
<1>5. S \cap P = {}
  OBVIOUS
<1>6. Cardinality(S \cup P) = Cardinality(S) + Cardinality(P)
  BY <1>2, <1>3, <1>5, DisjointSize
<1> QED BY <1>1, <1>3, <1>4, <1>6 DEF Slots

\* One payload of a family is exchanged for another.
LEMMA SlotsExcept ==
    ASSUME NEW F, Family(F), NEW x \in DOMAIN F, NEW s \in Seq(Elements), NEW e
    PROVE  LET H == [F EXCEPT ![x] = s]
           IN  /\ Family(H)
               /\ Slots(e, H) = Slots(e, F) - Occurs(e, F[x]) + Occurs(e, s)
<1> DEFINE H == [F EXCEPT ![x] = s]
           G == [y \in DOMAIN F \ {x} |-> F[y]]
<1>1. Family(H) /\ x \in DOMAIN H /\ H[x] = s
  BY DEF Family
<1>2. Family(G) /\ Slots(e, F) = Slots(e, G) + Occurs(e, F[x])
  BY SlotsSplit
<1>3. [y \in DOMAIN H \ {x} |-> H[y]] = G
  OBVIOUS
<1>4. Slots(e, H) = Slots(e, G) + Occurs(e, s)
  <2> HIDE DEF H, G
  <2> QED BY <1>1, <1>3, SlotsSplit
<1>5. Slots(e, G) \in Nat /\ Occurs(e, F[x]) \in Nat /\ Occurs(e, s) \in Nat
  BY <1>2, SlotsType, OccursType DEF Family
<1> HIDE DEF H, G
<1> QED BY <1>1, <1>2, <1>4, <1>5 DEF H

\* What the unfinished bodies owe is a family.
LEMMA DebtsFamily ==
    ASSUME NEW B \in Seq(Body)
    PROVE  /\ Family(Debts(B))
           /\ DOMAIN Debts(B) = 1..Len(B) /\ Len(B) \in Nat
           /\ \A n \in 1..Len(B) : Debts(B)[n] = B[n].owed /\ B[n].owed \in Seq(Elements)
<1>1. DOMAIN B = 1..Len(B) /\ Len(B) \in Nat /\ IsFiniteSet(1..Len(B))
  BY FS_Interval
<1>2. DOMAIN Debts(B) = 1..Len(B) /\ \A n \in 1..Len(B) : Debts(B)[n] = B[n].owed
  BY <1>1 DEF Debts
<1>3. ASSUME NEW n \in 1..Len(B) PROVE B[n].owed \in Seq(Elements)
  <2>1. B[n] \in Body
    BY ElementOfSeq
  <2> QED BY <2>1 DEF Body
<1> QED BY <1>1, <1>2, <1>3 DEF Family

\* The numbering of a family does not matter.
LEMMA SlotsShift ==
    ASSUME NEW B \in Seq(Body), NEW C \in Seq(Body), NEW e,
           Len(C) = Len(B) + 1, \A n \in 1..Len(B) : C[n + 1] = B[n]
    PROVE  Slots(e, [n \in DOMAIN C \ {1} |-> C[n].owed]) = Slots(e, Debts(B))
<1> DEFINE S == UNION {{n} \X Places(e, Debts(B)[n]) : n \in DOMAIN Debts(B)}
           G == [n \in DOMAIN C \ {1} |-> C[n].owed]
           T == UNION {{n} \X Places(e, G[n]) : n \in DOMAIN G}
           f == [p \in S |-> <<p[1] + 1, p[2]>>]
<1> HIDE DEF S, G, T, f
<1>1. /\ DOMAIN C = 1..(Len(B) + 1) /\ Len(B) \in Nat
      /\ DOMAIN Debts(B) = 1..Len(B)
      /\ \A n \in 1..Len(B) : Debts(B)[n] = B[n].owed
  BY DebtsFamily
<1>2. Family(Debts(B))
  BY DebtsFamily
<1>3. IsFiniteSet(S)
  <2> DEFINE D == Debts(B)
  <2>1. Family(D)
    BY <1>2
  <2>2. S = UNION {{x} \X Places(e, D[x]) : x \in DOMAIN D}
    BY DEF S
  <2> HIDE DEF D
  <2> QED BY <2>1, <2>2, SlotsType
<1>4. \A n, k : <<n, k>> \in S <=> n \in 1..Len(B) /\ k \in Places(e, B[n].owed)
  <2>1. S = UNION {{m} \X Places(e, B[m].owed) : m \in 1..Len(B)}
    BY <1>1 DEF S
  <2> QED BY <2>1
<1>5. \A n, k : <<n, k>> \in T <=> n \in 2..(Len(B) + 1) /\ k \in Places(e, C[n].owed)
  <2>1. DOMAIN G = 2..(Len(B) + 1) /\ \A n \in DOMAIN G : G[n] = C[n].owed
    BY <1>1 DEF G
  <2> QED BY <2>1 DEF T
<1>6. \A p \in S : p = <<p[1], p[2]>>
  <2> SUFFICES ASSUME NEW n, NEW p \in {n} \X Places(e, Debts(B)[n])
               PROVE  p = <<p[1], p[2]>>
    BY DEF S
  <2> QED OBVIOUS
<1>7. \A q \in T : q = <<q[1], q[2]>>
  <2> SUFFICES ASSUME NEW n, NEW q \in {n} \X Places(e, G[n])
               PROVE  q = <<q[1], q[2]>>
    BY DEF T
  <2> QED OBVIOUS
<1>8. f \in [S -> T]
  <2> SUFFICES ASSUME NEW p \in S PROVE <<p[1] + 1, p[2]>> \in T
    BY DEF f
  <2>1. p[1] \in 1..Len(B) /\ p[2] \in Places(e, B[p[1]].owed)
    BY <1>4, <1>6
  <2>2. p[1] + 1 \in 2..(Len(B) + 1) /\ C[p[1] + 1] = B[p[1]]
    BY <1>1, <2>1
  <2> QED BY <1>5, <2>1, <2>2
<1>9. \A q \in T : \E p \in S : f[p] = q
  <2> SUFFICES ASSUME NEW q \in T PROVE \E p \in S : f[p] = q
    OBVIOUS
  <2>1. q[1] \in 2..(Len(B) + 1) /\ q[2] \in Places(e, C[q[1]].owed)
    BY <1>5, <1>7
  <2>2. q[1] - 1 \in 1..Len(B) /\ C[(q[1] - 1) + 1] = B[q[1] - 1] /\ (q[1] - 1) + 1 = q[1]
    BY <1>1, <2>1
  <2>3. <<q[1] - 1, q[2]>> \in S
    BY <1>4, <2>1, <2>2
  <2>4. f[<<q[1] - 1, q[2]>>] = q
    BY <1>7, <2>2, <2>3 DEF f
  <2> QED BY <2>3, <2>4
<1>10. \A p, r \in S : f[p] = f[r] => p = r
  <2> SUFFICES ASSUME NEW p \in S, NEW r \in S, f[p] = f[r] PROVE p = r
    OBVIOUS
  <2>1. p[1] + 1 = r[1] + 1 /\ p[2] = r[2]
    BY DEF f
  <2>2. p[1] \in Int /\ r[1] \in Int
    BY <1>4, <1>6
  <2> QED BY <1>6, <2>1, <2>2
<1>11. f \in Bijection(S, T)
  BY <1>8, <1>9, <1>10, Fun_IsBij
<1>12. Cardinality(T) = Cardinality(S)
  BY <1>3, <1>11, FS_Bijection, Fun_ExistsBij
<1> QED BY <1>12 DEF Slots, S, T, G

\* What the unfinished bodies owe, when there is one more of them.
LEMMA OwedCons ==
    ASSUME NEW B \in Seq(Body), NEW b \in Body, NEW e
    PROVE  Slots(e, Debts(<<b>> \o B)) = Occurs(e, b.owed) + Slots(e, Debts(B))
<1> DEFINE C == <<b>> \o B
           F == Debts(C)
<1>1. /\ C \in Seq(Body) /\ Len(C) = Len(B) + 1 /\ Len(B) \in Nat
      /\ C[1] = b /\ \A n \in 1..Len(B) : C[n + 1] = B[n]
  OBVIOUS
<1> HIDE DEF C
<1>2. DOMAIN C = 1..(Len(B) + 1) /\ 1 \in DOMAIN C
  BY <1>1
<1>3. Family(F)
  BY <1>1, DebtsFamily
<1>4. DOMAIN F = DOMAIN C /\ F[1] = b.owed
  BY <1>1, <1>2 DEF Debts
<1>5. [n \in DOMAIN F \ {1} |-> F[n]] = [n \in DOMAIN C \ {1} |-> C[n].owed]
  BY DEF Debts
<1>6. Slots(e, [n \in DOMAIN C \ {1} |-> C[n].owed]) = Slots(e, Debts(B))
  BY <1>1, SlotsShift
<1>7. LET G == [n \in DOMAIN F \ {1} |-> F[n]]
      IN  Slots(e, F) = Slots(e, G) + Occurs(e, F[1])
  <2> HIDE DEF F
  <2> QED BY <1>2, <1>3, <1>4, SlotsSplit
<1>8. Slots(e, F) = Slots(e, Debts(B)) + Occurs(e, b.owed)
  BY <1>4, <1>5, <1>6, <1>7
<1>9. Slots(e, Debts(B)) \in Nat /\ Occurs(e, b.owed) \in Nat
  <2>1. Family(Debts(B))
    BY DebtsFamily
  <2>2. b.owed \in Seq(Elements)
    BY DEF Body
  <2> QED BY <2>1, <2>2, SlotsType, OccursType
<1> QED BY <1>8, <1>9 DEF C

-----------------------------------------------------------------------------
(* The references balance.                                                 *)

LEMMA PayloadsFamily ==
    ASSUME TypeOK
    PROVE  /\ Family(Payloads)
           /\ DOMAIN Payloads = {p \in Objects : Registered(p)}
           /\ \A o \in Objects : Registered(o) => Payloads[o] = items[o]
<1>1. IsFiniteSet({p \in Objects : Registered(p)})
  BY CollectionsAssumption, FS_Subset
<1> QED BY <1>1 DEF Payloads, Family, TypeOK

LEMMA BalanceTypes ==
    ASSUME TypeOK, NEW e
    PROVE  Listed(e) \in Nat /\ Owed(e) \in Nat
<1>1. Family(Payloads) /\ bodies \in Seq(Body)
  BY PayloadsFamily DEF TypeOK, Body
<1>2. Family(Debts(bodies))
  BY <1>1, DebtsFamily
<1> QED BY <1>1, <1>2, SlotsType DEF Listed, Owed

\* What a body still has to release is owed from then on.
LEMMA OweThenOwes ==
    ASSUME TypeOK, NEW s \in Seq(Elements), NEW result \in Results,
           NEW lent \in SUBSET Elements, OweThen(s, result, lent), NEW e
    PROVE  Owed(e)' = Owed(e) + Occurs(e, s)
<1> DEFINE b == [owed |-> s, dying |-> FALSE, answer |-> result, lent |-> lent]
<1>1. bodies \in Seq(Body) /\ Owed(e) \in Nat /\ Occurs(e, s) \in Nat
  BY BalanceTypes, OccursType DEF TypeOK
<1>2. bodies' = (IF s = <<>> THEN bodies ELSE <<b>> \o bodies) /\ b \in Body /\ b.owed = s
  BY DEF OweThen, Body
<1> HIDE DEF b
<1>3. CASE s = <<>>
  BY <1>1, <1>2, <1>3, OccursEmpty DEF Owed
<1>4. CASE s # <<>>
  <2>1. Slots(e, Debts(<<b>> \o bodies)) = Occurs(e, b.owed) + Slots(e, Debts(bodies))
    BY <1>1, <1>2, OwedCons
  <2> QED BY <1>1, <1>2, <1>4, <2>1 DEF Owed
<1> QED BY <1>3, <1>4

LEMMA ReleaseEachOwes ==
    ASSUME TypeOK, NEW s \in Seq(Elements), ReleaseEach(s), NEW e
    PROVE  Owed(e)' = Owed(e) + Occurs(e, s)
BY OweThenOwes DEF ReleaseEach

\* The payload of a live object is exchanged for another.
LEMMA ListedExcept ==
    ASSUME TypeOK, NEW o \in Objects, Registered(o), NEW s \in Seq(Elements),
           items' = [items EXCEPT ![o] = s], refs' = refs, NEW e
    PROVE  Listed(e)' = Listed(e) - Occurs(e, items[o]) + Occurs(e, s)
<1>1. /\ Family(Payloads) /\ o \in DOMAIN Payloads
      /\ Payloads[o] = items[o]
  BY PayloadsFamily
<1>2. Payloads' = [Payloads EXCEPT ![o] = s]
  BY DEF Payloads, TypeOK, Registered
<1>3. Slots(e, [Payloads EXCEPT ![o] = s]) = Slots(e, Payloads) - Occurs(e, items[o]) + Occurs(e, s)
  <2> DEFINE F == Payloads
  <2>1. Family(F) /\ o \in DOMAIN F /\ F[o] = items[o]
    BY <1>1
  <2> HIDE DEF F
  <2>2. Slots(e, [F EXCEPT ![o] = s]) = Slots(e, F) - Occurs(e, items[o]) + Occurs(e, s)
    BY <2>1, SlotsExcept
  <2> QED BY <2>2 DEF F
<1> QED BY <1>2, <1>3 DEF Listed

\* Nothing of it changes.
LEMMA SameBalance ==
    ASSUME ReferencesBalance, UNCHANGED <<refs, items, count, held, bodies>>
    PROVE  ReferencesBalance'
BY DEF ReferencesBalance, Listed, Owed, Payloads, Debts, Registered

LEMMA FailBalance ==
    ASSUME ReferencesBalance, NEW result, Fail(result)
    PROVE  ReferencesBalance'
BY SameBalance DEF Fail

\* A body that fails half-way owes what it took.
LEMMA GiveBackBalance ==
    ASSUME IInv, ReferencesBalance, NEW s \in Seq(Elements), NEW result \in Results,
           NEW lent \in SUBSET Elements, GiveBack(s, result, lent)
    PROVE  ReferencesBalance'
<1> SUFFICES ASSUME NEW e \in Elements
             PROVE  count'[e] = held'[e] + Listed(e)' + Owed(e)'
  BY DEF ReferencesBalance
<1>1. Owed(e)' = Owed(e) + Occurs(e, s)
  BY OweThenOwes DEF GiveBack, IInv
<1>2. Listed(e)' = Listed(e) /\ held'[e] = held[e] /\ count'[e] = count[e] + Occurs(e, s)
  BY DEF GiveBack, Retain, Listed, Payloads, Registered
<1>3. /\ Listed(e) \in Nat /\ Owed(e) \in Nat /\ Occurs(e, s) \in Nat
      /\ held[e] \in Nat /\ count[e] = held[e] + Listed(e) + Owed(e)
  BY BalanceTypes, OccursType DEF ReferencesBalance, IInv, TypeOK
<1> QED BY <1>1, <1>2, <1>3

\* A new object has a reference of its own on each of its elements.
LEMMA MakeBalance ==
    ASSUME IInv, ReferencesBalance, NEW o \in Objects, NEW s \in Seq(Elements), Make(o, s)
    PROVE  ReferencesBalance'
<1>1. /\ TypeOK /\ refs[o] = 0
      /\ refs' = [refs EXCEPT ![o] = 1] /\ items' = [items EXCEPT ![o] = s]
      /\ count' = [e \in Elements |-> count[e] + Occurs(e, s)]
      /\ held' = held /\ bodies' = bodies
  BY DEF IInv, Make, Unborn, Retain
<1>2. /\ Family(Payloads) /\ o \notin DOMAIN Payloads
      /\ Payloads' = [p \in DOMAIN Payloads \cup {o} |-> IF p = o THEN s ELSE Payloads[p]]
  <2>1. Family(Payloads) /\ o \notin DOMAIN Payloads
    BY <1>1, PayloadsFamily DEF Registered
  <2>2. {p \in Objects : refs'[p] > 0} = {p \in Objects : refs[p] > 0} \cup {o}
    BY <1>1 DEF TypeOK
  <2>3. \A p \in Objects : items'[p] = IF p = o THEN s ELSE items[p]
    BY <1>1 DEF TypeOK
  <2> QED BY <2>1, <2>2, <2>3 DEF Payloads, Registered
<1>4. ASSUME NEW e \in Elements
      PROVE  Listed(e)' = Listed(e) + Occurs(e, s)
  <2> DEFINE F == Payloads
             H == [p \in DOMAIN F \cup {o} |-> IF p = o THEN s ELSE F[p]]
  <2>1. Family(F) /\ o \notin DOMAIN F /\ Payloads' = H
    BY <1>2
  <2> HIDE DEF F
  <2>2. Family(H) /\ o \in DOMAIN H /\ H[o] = s /\ F = [p \in DOMAIN H \ {o} |-> H[p]]
    <3>1. IsFiniteSet(DOMAIN F \cup {o})
      BY <2>1, FS_AddElement DEF Family
    <3>2. DOMAIN H \ {o} = DOMAIN F /\ \A p \in DOMAIN F : H[p] = F[p]
      BY <2>1
    <3>3. F = [p \in DOMAIN F |-> F[p]]
      BY DEF F, Payloads
    <3> QED BY <2>1, <3>1, <3>2, <3>3 DEF Family
  <2> HIDE DEF H
  <2>3. Slots(e, H) = Slots(e, F) + Occurs(e, s)
    <3>1. Family(H) /\ o \in DOMAIN H /\ F = [y \in DOMAIN H \ {o} |-> H[y]] /\ H[o] = s
      BY <2>2
    <3>2. Slots(e, H) = Slots(e, [y \in DOMAIN H \ {o} |-> H[y]]) + Occurs(e, H[o])
      BY <3>1, SlotsSplit, Zenon
    <3> QED BY <3>1, <3>2
  <2>4. Listed(e) = Slots(e, F) /\ Listed(e)' = Slots(e, Payloads')
    BY DEF F, Listed
  <2> QED BY <2>1, <2>3, <2>4
<1> SUFFICES ASSUME NEW e \in Elements
             PROVE  count'[e] = held'[e] + Listed(e)' + Owed(e)'
  BY DEF ReferencesBalance
<1>5. Owed(e)' = Owed(e) /\ count'[e] = count[e] + Occurs(e, s)
  BY <1>1 DEF Owed, Debts
<1>6. /\ Listed(e) \in Nat /\ Owed(e) \in Nat /\ Occurs(e, s) \in Nat
      /\ held[e] \in Nat /\ count[e] = held[e] + Listed(e) + Owed(e)
  BY <1>1, BalanceTypes, OccursType DEF ReferencesBalance, TypeOK
<1> QED BY <1>1, <1>4, <1>5, <1>6

LEMMA AddRefObjectBalance ==
    ASSUME IInv, ReferencesBalance, NEW o \in Objects, AddRefObject(o)
    PROVE  ReferencesBalance'
<1>1. {p \in Objects : refs'[p] > 0} = {p \in Objects : refs[p] > 0}
  BY DEF AddRefObject, Serve, Registered, IInv, TypeOK
<1>2. Payloads' = Payloads
  BY <1>1 DEF Payloads, Registered, AddRefObject
<1> QED BY <1>2 DEF ReferencesBalance, Listed, Owed, Debts, AddRefObject

\* The last Release turns the slots of the payload into debts of the body.
LEMMA ReleaseObjectBalance ==
    ASSUME IInv, ReferencesBalance, NEW o \in Objects, ReleaseObject(o)
    PROVE  ReferencesBalance'
<1>1. /\ TypeOK /\ Registered(o) /\ refs' = [refs EXCEPT ![o] = @ - 1]
      /\ count' = count /\ held' = held
  BY DEF IInv, ReleaseObject, Serve
<1>2. CASE refs[o] # 1
  <2>1. items' = items /\ bodies' = bodies
    BY <1>2 DEF ReleaseObject
  <2>2. {p \in Objects : refs'[p] > 0} = {p \in Objects : refs[p] > 0}
    BY <1>1, <1>2 DEF Registered, TypeOK
  <2>3. Payloads' = Payloads
    BY <2>1, <2>2 DEF Payloads, Registered
  <2> QED BY <1>1, <2>1, <2>3 DEF ReferencesBalance, Listed, Owed, Debts
<1>3. CASE refs[o] = 1
  <2>1. items' = [items EXCEPT ![o] = <<>>] /\ ReleaseEach(items[o]) /\ items[o] \in Seq(Elements)
    BY <1>1, <1>3 DEF ReleaseObject, ReleaseAll, TypeOK
  <2>2. Family(Payloads) /\ o \in DOMAIN Payloads /\ Payloads[o] = items[o]
    BY <1>1, PayloadsFamily
  <2>3. Payloads' = [y \in DOMAIN Payloads \ {o} |-> Payloads[y]]
    <3>1. {p \in Objects : refs'[p] > 0} = {p \in Objects : refs[p] > 0} \ {o}
      BY <1>1, <1>3 DEF TypeOK
    <3>2. \A p \in Objects \ {o} : items'[p] = items[p]
      BY <1>1, <2>1 DEF TypeOK
    <3> QED BY <3>1, <3>2 DEF Payloads, Registered
  <2> SUFFICES ASSUME NEW e \in Elements
               PROVE  count'[e] = held'[e] + Listed(e)' + Owed(e)'
    BY DEF ReferencesBalance
  <2>4. Listed(e) = Listed(e)' + Occurs(e, items[o])
    <3> DEFINE F == Payloads
    <3>1. Family(F) /\ o \in DOMAIN F /\ F[o] = items[o]
      BY <2>2
    <3>2. Payloads' = [y \in DOMAIN F \ {o} |-> F[y]]
      BY <2>3
    <3>3. Listed(e) = Slots(e, F) /\ Listed(e)' = Slots(e, Payloads')
      BY DEF Listed
    <3> HIDE DEF F
    <3>4. Slots(e, F) = Slots(e, [y \in DOMAIN F \ {o} |-> F[y]]) + Occurs(e, F[o])
      BY <3>1, SlotsSplit, Zenon
    <3> QED BY <3>1, <3>2, <3>3, <3>4
  <2>5. Owed(e)' = Owed(e) + Occurs(e, items[o])
    BY <1>1, <2>1, ReleaseEachOwes
  <2>6. Listed(e)' \in Nat
    <3> DEFINE F == Payloads
               G == [y \in DOMAIN F \ {o} |-> F[y]]
    <3>1. Family(F) /\ o \in DOMAIN F
      BY <2>2
    <3>2. Listed(e)' = Slots(e, G)
      BY <2>3 DEF Listed
    <3> HIDE DEF F
    <3>3. Family(G)
      BY <3>1, SlotsSplit
    <3> HIDE DEF G
    <3> QED BY <3>2, <3>3, SlotsType
  <2>7. /\ Listed(e) \in Nat /\ Owed(e) \in Nat /\ Occurs(e, items[o]) \in Nat
        /\ held[e] \in Nat /\ count[e] = held[e] + Listed(e) + Owed(e)
    BY <1>1, <2>1, BalanceTypes, OccursType DEF ReferencesBalance, TypeOK
  <2> QED BY <1>1, <2>4, <2>5, <2>6, <2>7
<1> QED BY <1>2, <1>3

\* MarshalOut makes each reference for the caller.
LEMMA MarshalBalance ==
    ASSUME IInv, ReferencesBalance, NEW s \in Seq(Elements), Marshal(s),
           UNCHANGED <<refs, items, bodies>>
    PROVE  ReferencesBalance'
<1> SUFFICES ASSUME NEW e \in Elements
             PROVE  count'[e] = held'[e] + Listed(e)' + Owed(e)'
  BY DEF ReferencesBalance
<1>1. Listed(e)' = Listed(e) /\ Owed(e)' = Owed(e)
  BY DEF Listed, Owed, Payloads, Debts, Registered
<1>2. count'[e] = count[e] + Occurs(e, s) /\ held'[e] = held[e] + Occurs(e, s)
  BY DEF Marshal, Retain
<1>3. /\ Listed(e) \in Nat /\ Owed(e) \in Nat /\ Occurs(e, s) \in Nat
      /\ held[e] \in Nat /\ count[e] = held[e] + Listed(e) + Owed(e)
  BY BalanceTypes, OccursType DEF ReferencesBalance, IInv, TypeOK
<1> QED BY <1>1, <1>2, <1>3

\* A mutation balances when what is retained and what is owed make up for the change of
\* the payload.
LEMMA MutateBalance ==
    ASSUME IInv, ReferencesBalance, NEW o \in Objects, Registered(o), NEW s \in Seq(Elements),
           items' = [items EXCEPT ![o] = s], UNCHANGED <<refs, held>>,
           \A e \in Elements :
               count'[e] - count[e]
                 = (Occurs(e, s) - Occurs(e, items[o])) + (Owed(e)' - Owed(e)),
           \A e \in Elements : count'[e] \in Int /\ Owed(e)' \in Int
    PROVE  ReferencesBalance'
<1> SUFFICES ASSUME NEW e \in Elements
             PROVE  count'[e] = held'[e] + Listed(e)' + Owed(e)'
  BY DEF ReferencesBalance
<1>1. Listed(e)' = Listed(e) - Occurs(e, items[o]) + Occurs(e, s)
  BY ListedExcept DEF IInv
<1>2. /\ Listed(e) \in Nat /\ Owed(e) \in Nat /\ Occurs(e, s) \in Nat
      /\ Occurs(e, items[o]) \in Nat
      /\ held[e] \in Nat /\ count[e] = held[e] + Listed(e) + Owed(e)
  BY BalanceTypes, OccursType DEF ReferencesBalance, IInv, TypeOK
<1>3. /\ count'[e] - count[e] = (Occurs(e, s) - Occurs(e, items[o])) + (Owed(e)' - Owed(e))
      /\ count'[e] \in Int /\ Owed(e)' \in Int /\ held'[e] = held[e]
  OBVIOUS
<1> DEFINE l == Listed(e)'
           w == Owed(e)'
<1>4. /\ l = Listed(e) - Occurs(e, items[o]) + Occurs(e, s) /\ w \in Int
      /\ count'[e] - count[e] = (Occurs(e, s) - Occurs(e, items[o])) + (w - Owed(e))
  BY <1>1, <1>3
<1> DEFINE i == Listed(e)
           w0 == Owed(e)
           j == Occurs(e, s)
           k == Occurs(e, items[o])
           c == count[e]
           d == count'[e]
           h == held[e]
<1>5. /\ i \in Int /\ w0 \in Int /\ j \in Int /\ k \in Int /\ h \in Int
      /\ d \in Int /\ w \in Int
      /\ c = h + i + w0 /\ d - c = (j - k) + (w - w0) /\ l = (i - k) + j
  BY <1>2, <1>3, <1>4
<1> HIDE DEF l, w, i, w0, j, k, c, d, h
<1>6. d = h + l + w
  BY <1>5
<1> QED BY <1>3, <1>6 DEF l, w, h, d

\* What changes place when one element of a payload is added, exchanged or removed.
LEMMA OccursSplit ==
    ASSUME NEW s \in Seq(Elements), NEW t \in Seq(Elements), NEW u \in Seq(Elements), NEW e
    PROVE  Occurs(e, s \o t \o u) = Occurs(e, s) + Occurs(e, t) + Occurs(e, u)
<1>1. s \o t \in Seq(Elements)
  BY ConcatProperties
<1>2. Occurs(e, (s \o t) \o u) = Occurs(e, s \o t) + Occurs(e, u)
  BY <1>1, OccursConcat
<1>3. Occurs(e, s \o t) = Occurs(e, s) + Occurs(e, t)
  BY OccursConcat
<1> QED BY <1>2, <1>3

\* A payload cut in two.
LEMMA Cut ==
    ASSUME NEW s \in Seq(Elements), NEW k \in 1..(Len(s) + 1)
    PROVE  SubSeq(s, 1, k - 1) \o SubSeq(s, k, Len(s)) = s
<1> DEFINE j == k - 1
<1>1. j \in 0..Len(s) /\ Len(s) \in j..Len(s) /\ 1 \in 1..(Len(s) + 1) /\ j \in (1 - 1)..Len(s)
      /\ k = j + 1
  OBVIOUS
<1> HIDE DEF j
<1>2. SubSeq(s, 1, j) \o SubSeq(s, j + 1, Len(s)) = SubSeq(s, 1, Len(s))
  BY <1>1, ConcatAdjacentSubSeq
<1> QED BY <1>1, <1>2, SubSeqFull DEF j

LEMMA OccursInsertAt ==
    ASSUME NEW s \in Seq(Elements), NEW k \in 1..(Len(s) + 1), NEW d \in Elements, NEW e
    PROVE  Occurs(e, Seqs!InsertAt(s, k, d)) = Occurs(e, s) + Occurs(e, <<d>>)
<1> DEFINE a == SubSeq(s, 1, k - 1)
           b == SubSeq(s, k, Len(s))
<1>1. a \in Seq(Elements) /\ b \in Seq(Elements) /\ <<d>> \in Seq(Elements)
  BY SubSeqProperties
<1>2. a \o b = s
  BY Cut
<1>3. Seqs!InsertAt(s, k, d) = a \o <<d>> \o b
  BY DEF Seqs!InsertAt
<1> HIDE DEF a, b
<1>4. Occurs(e, a \o <<d>> \o b) = Occurs(e, a) + Occurs(e, <<d>>) + Occurs(e, b)
  <2> DEFINE m == <<d>>
  <2>1. m \in Seq(Elements)
    BY <1>1
  <2> HIDE DEF m
  <2>2. Occurs(e, a \o m \o b) = Occurs(e, a) + Occurs(e, m) + Occurs(e, b)
    BY <1>1, <2>1, OccursSplit
  <2> QED BY <2>2 DEF m
<1>5. Occurs(e, s) = Occurs(e, a) + Occurs(e, b)
  BY <1>1, <1>2, OccursConcat
<1>6. Occurs(e, a) \in Nat /\ Occurs(e, b) \in Nat /\ Occurs(e, <<d>>) \in Nat
  BY <1>1, OccursType
<1> QED BY <1>3, <1>4, <1>5, <1>6

LEMMA OccursRemoveAt ==
    ASSUME NEW s \in Seq(Elements), NEW k \in 1..Len(s), NEW e
    PROVE  Occurs(e, s) = Occurs(e, Seqs!RemoveAt(s, k)) + Occurs(e, <<s[k]>>)
<1> DEFINE t == Seqs!RemoveAt(s, k)
<1>1. t \in Seq(Elements) /\ s[k] \in Elements
  BY RemoveAtType
<1>2. t = SubSeq(s, 1, k - 1) \o SubSeq(s, k + 1, Len(s))
  BY DEF Seqs!RemoveAt
<1>3. /\ SubSeq(s, 1, k - 1) \in Seq(Elements) /\ SubSeq(s, k + 1, Len(s)) \in Seq(Elements)
      /\ SubSeq(s, k, Len(s)) \in Seq(Elements)
      /\ <<s[k]>> \in Seq(Elements)
  BY <1>1, SubSeqProperties
<1>4. SubSeq(s, 1, k - 1) \o SubSeq(s, k, Len(s)) = s
  BY Cut
<1>5. SubSeq(s, k, Len(s)) = <<s[k]>> \o SubSeq(s, k + 1, Len(s))
  BY SubSeqRecursiveFirst
<1> DEFINE a == SubSeq(s, 1, k - 1)
           b == SubSeq(s, k, Len(s))
           c == SubSeq(s, k + 1, Len(s))
<1>6. /\ a \in Seq(Elements) /\ b \in Seq(Elements) /\ c \in Seq(Elements)
      /\ a \o b = s /\ b = <<s[k]>> \o c /\ t = a \o c
  BY <1>2, <1>3, <1>4, <1>5
<1> HIDE DEF a, b, c, t
<1>7. /\ Occurs(e, a \o b) = Occurs(e, a) + Occurs(e, b)
      /\ Occurs(e, a \o c) = Occurs(e, a) + Occurs(e, c)
      /\ Occurs(e, <<s[k]>> \o c) = Occurs(e, <<s[k]>>) + Occurs(e, c)
  <2> DEFINE m == <<s[k]>>
  <2>1. m \in Seq(Elements)
    BY <1>3
  <2> HIDE DEF m
  <2>2. Occurs(e, a \o b) = Occurs(e, a) + Occurs(e, b)
    BY <1>6, OccursConcat
  <2>3. Occurs(e, a \o c) = Occurs(e, a) + Occurs(e, c)
    BY <1>6, OccursConcat
  <2>4. Occurs(e, m \o c) = Occurs(e, m) + Occurs(e, c)
    BY <1>6, <2>1, OccursConcat
  <2> QED BY <2>2, <2>3, <2>4 DEF m
<1>8. /\ Occurs(e, s) = Occurs(e, a) + Occurs(e, b) /\ Occurs(e, t) = Occurs(e, a) + Occurs(e, c)
      /\ Occurs(e, b) = Occurs(e, <<s[k]>>) + Occurs(e, c)
  BY <1>6, <1>7
<1>9. Occurs(e, a) \in Nat /\ Occurs(e, c) \in Nat /\ Occurs(e, <<s[k]>>) \in Nat
  BY <1>3, <1>6, OccursType
<1>10. Occurs(e, s) = Occurs(e, t) + Occurs(e, <<s[k]>>)
  BY <1>8, <1>9
<1> QED BY <1>10 DEF t

\* Payloads that agree on a range have the same subsequence there.
LEMMA SameSubSeq ==
    ASSUME NEW s, NEW t, NEW m \in Int, NEW n \in Int,
           \A j \in m..n : t[j] = s[j] /\ s[j] \in Elements
    PROVE  SubSeq(t, m, n) = SubSeq(s, m, n)
<1>1. /\ SubSeq(s, m, n) \in Seq(Elements)
      /\ Len(SubSeq(s, m, n)) = IF m <= n THEN n - m + 1 ELSE 0
      /\ \A i \in 1..(n - m + 1) : SubSeq(s, m, n)[i] = s[m + i - 1]
  BY SubSeqProperties
<1>2. /\ SubSeq(t, m, n) \in Seq(Elements)
      /\ Len(SubSeq(t, m, n)) = IF m <= n THEN n - m + 1 ELSE 0
      /\ \A i \in 1..(n - m + 1) : SubSeq(t, m, n)[i] = t[m + i - 1]
  BY SubSeqProperties
<1> DEFINE a == SubSeq(s, m, n)
           b == SubSeq(t, m, n)
<1>3. \A i \in 1..Len(a) : i \in 1..(n - m + 1) /\ m + i - 1 \in m..n
  BY <1>1
<1>4. a \in Seq(Elements) /\ b \in Seq(Elements) /\ Len(a) = Len(b)
      /\ \A i \in 1..Len(a) : a[i] = b[i]
  BY <1>1, <1>2, <1>3
<1> HIDE DEF a, b
<1>5. a = b
  BY <1>4, SeqEqual
<1> QED BY <1>5 DEF a, b

LEMMA OccursReplaceAt ==
    ASSUME NEW s \in Seq(Elements), NEW k \in 1..Len(s), NEW d \in Elements, NEW e
    PROVE  Occurs(e, Seqs!ReplaceAt(s, k, d)) + Occurs(e, <<s[k]>>)
             = Occurs(e, s) + Occurs(e, <<d>>)
<1> DEFINE t == Seqs!ReplaceAt(s, k, d)
<1>1. t \in Seq(Elements) /\ Len(t) = Len(s) /\ t[k] = d
      /\ \A j \in 1..Len(s) : j # k => t[j] = s[j]
  BY ExceptSeq DEF Seqs!ReplaceAt
<1> HIDE DEF t
<1>2. Seqs!RemoveAt(t, k) = Seqs!RemoveAt(s, k)
  <2>1. SubSeq(t, 1, k - 1) = SubSeq(s, 1, k - 1)
    BY <1>1
  <2>2. SubSeq(t, k + 1, Len(t)) = SubSeq(s, k + 1, Len(s))
    <3>1. \A j \in (k + 1)..Len(s) : t[j] = s[j] /\ s[j] \in Elements
      BY <1>1
    <3>2. k + 1 \in Int /\ Len(s) \in Int
      OBVIOUS
    <3> QED BY <1>1, <3>1, <3>2, SameSubSeq
  <2> QED BY <2>1, <2>2 DEF Seqs!RemoveAt
<1>3. Occurs(e, s) = Occurs(e, Seqs!RemoveAt(s, k)) + Occurs(e, <<s[k]>>)
  BY OccursRemoveAt
<1>4. Occurs(e, t) = Occurs(e, Seqs!RemoveAt(s, k)) + Occurs(e, <<d>>)
  BY <1>1, <1>2, OccursRemoveAt
<1>5. /\ Occurs(e, Seqs!RemoveAt(s, k)) \in Nat /\ Occurs(e, <<s[k]>>) \in Nat
      /\ Occurs(e, <<d>>) \in Nat
  <2>1. Seqs!RemoveAt(s, k) \in Seq(Elements) /\ <<s[k]>> \in Seq(Elements) /\ <<d>> \in Seq(Elements)
    BY RemoveAtType
  <2> QED BY <2>1, OccursType
<1>6. Occurs(e, t) + Occurs(e, <<s[k]>>) = Occurs(e, s) + Occurs(e, <<d>>)
  BY <1>3, <1>4, <1>5
<1> QED BY <1>6 DEF t

\* What the steps of a vector share.
LEMMA VectorFacts ==
    ASSUME IInv, NEW o \in Vectors
    PROVE  /\ TypeOK /\ o \in Objects /\ items[o] \in Seq(Elements)
           /\ \A e \in Elements : count[e] \in Int /\ Owed(e) \in Int /\ Occurs(e, items[o]) \in Nat
BY BalanceTypes, OccursType DEF IInv, TypeOK, Objects, Sources

LEMMA SetAtBalance ==
    ASSUME IInv, ReferencesBalance, NEW o \in Vectors, NEW index \in Nat,
           NEW d \in Elements \cup {Refused}, SetAt(o, index, d)
    PROVE  ReferencesBalance'
<1>1. CASE Fail("E_BOUNDS") \/ Fail("E_POINTER")
  BY <1>1, FailBalance
<1>2. CASE /\ Registered(o)
           /\ index < Len(items[o]) /\ d # Refused
           /\ Retain(<<d>>)
           /\ items' = [items EXCEPT ![o] = Seqs!ReplaceAt(@, index + 1, d)]
           /\ ReleaseEach(<<items[o][index + 1]>>)
           /\ UNCHANGED <<refs, held>>
  <2> DEFINE s == items[o]
             t == Seqs!ReplaceAt(s, index + 1, d)
             old == <<s[index + 1]>>
             new == <<d>>
  <2>1. s \in Seq(Elements) /\ index + 1 \in 1..Len(s) /\ d \in Elements /\ o \in Objects
    BY <1>2, VectorFacts
  <2>2. t \in Seq(Elements) /\ old \in Seq(Elements) /\ new \in Seq(Elements)
    BY <2>1, ReplaceAtType
  <2>3. items' = [items EXCEPT ![o] = t]
    BY <1>2 DEF IInv, TypeOK
  <2>4. ASSUME NEW e \in Elements
        PROVE  /\ count'[e] = count[e] + Occurs(e, new)
               /\ Owed(e)' = Owed(e) + Occurs(e, old)
               /\ Occurs(e, t) + Occurs(e, old) = Occurs(e, s) + Occurs(e, new)
    <3>1. count'[e] = count[e] + Occurs(e, new)
      BY <1>2 DEF Retain
    <3>2. Owed(e)' = Owed(e) + Occurs(e, old)
      BY <1>2, <2>2, ReleaseEachOwes DEF IInv
    <3>3. Occurs(e, t) + Occurs(e, old) = Occurs(e, s) + Occurs(e, new)
      BY <2>1, OccursReplaceAt
    <3> QED BY <3>1, <3>2, <3>3
  <2> HIDE DEF t, old, new
  <2>5. ASSUME NEW e \in Elements
        PROVE  /\ count'[e] - count[e] = (Occurs(e, t) - Occurs(e, s)) + (Owed(e)' - Owed(e))
               /\ count'[e] \in Int /\ Owed(e)' \in Int
    <3>1. /\ count[e] \in Int /\ Owed(e) \in Int /\ Occurs(e, s) \in Int
          /\ Occurs(e, t) \in Int /\ Occurs(e, old) \in Int /\ Occurs(e, new) \in Int
      BY <2>2, VectorFacts, OccursType
    <3> QED BY <2>4, <3>1
  <2> QED BY <1>2, <2>1, <2>2, <2>3, <2>5, MutateBalance
<1> QED BY <1>1, <1>2 DEF SetAt, Serve

LEMMA InsertAtBalance ==
    ASSUME IInv, ReferencesBalance, NEW o \in Vectors, NEW index \in Nat,
           NEW d \in Elements \cup {Refused}, InsertAt(o, index, d)
    PROVE  ReferencesBalance'
<1>1. CASE Fail("E_BOUNDS") \/ Fail("E_POINTER")
  BY <1>1, FailBalance
<1>2. CASE /\ Registered(o)
           /\ index <= Len(items[o]) /\ d # Refused
           /\ Retain(<<d>>)
           /\ items' = [items EXCEPT ![o] = Seqs!InsertAt(@, index + 1, d)]
           /\ UNCHANGED <<refs, held, bodies>>
  <2> DEFINE s == items[o]
             t == Seqs!InsertAt(s, index + 1, d)
             new == <<d>>
  <2>1. s \in Seq(Elements) /\ index + 1 \in 1..(Len(s) + 1) /\ d \in Elements /\ o \in Objects
    BY <1>2, VectorFacts
  <2>2. t \in Seq(Elements) /\ new \in Seq(Elements)
    BY <2>1, InsertAtType
  <2>3. items' = [items EXCEPT ![o] = t]
    BY <1>2 DEF IInv, TypeOK
  <2>4. ASSUME NEW e \in Elements
        PROVE  /\ count'[e] = count[e] + Occurs(e, new)
               /\ Owed(e)' = Owed(e)
               /\ Occurs(e, t) = Occurs(e, s) + Occurs(e, new)
    <3>1. count'[e] = count[e] + Occurs(e, new)
      BY <1>2 DEF Retain
    <3>2. Owed(e)' = Owed(e)
      BY <1>2 DEF Owed, Debts
    <3>3. Occurs(e, t) = Occurs(e, s) + Occurs(e, new)
      BY <2>1, OccursInsertAt
    <3> QED BY <3>1, <3>2, <3>3
  <2> HIDE DEF t, new
  <2>5. ASSUME NEW e \in Elements
        PROVE  /\ count'[e] - count[e] = (Occurs(e, t) - Occurs(e, s)) + (Owed(e)' - Owed(e))
               /\ count'[e] \in Int /\ Owed(e)' \in Int
    <3>1. /\ count[e] \in Int /\ Owed(e) \in Int /\ Occurs(e, s) \in Int
          /\ Occurs(e, t) \in Int /\ Occurs(e, new) \in Int
      BY <2>2, VectorFacts, OccursType
    <3> QED BY <2>4, <3>1
  <2> QED BY <1>2, <2>1, <2>2, <2>3, <2>5, MutateBalance
<1> QED BY <1>1, <1>2 DEF InsertAt, Serve

LEMMA RemoveAtBalance ==
    ASSUME IInv, ReferencesBalance, NEW o \in Vectors, NEW index \in Nat, RemoveAt(o, index)
    PROVE  ReferencesBalance'
<1>1. CASE Fail("E_BOUNDS")
  BY <1>1, FailBalance
<1>2. CASE /\ Registered(o)
           /\ index < Len(items[o])
           /\ items' = [items EXCEPT ![o] = Seqs!RemoveAt(@, index + 1)]
           /\ ReleaseEach(<<items[o][index + 1]>>)
           /\ UNCHANGED <<refs, count, held>>
  <2> DEFINE s == items[o]
             t == Seqs!RemoveAt(s, index + 1)
             old == <<s[index + 1]>>
  <2>1. s \in Seq(Elements) /\ index + 1 \in 1..Len(s) /\ o \in Objects
    BY <1>2, VectorFacts
  <2>2. t \in Seq(Elements) /\ old \in Seq(Elements)
    BY <2>1, RemoveAtType
  <2>3. items' = [items EXCEPT ![o] = t]
    BY <1>2 DEF IInv, TypeOK
  <2>4. ASSUME NEW e \in Elements
        PROVE  /\ count'[e] = count[e]
               /\ Owed(e)' = Owed(e) + Occurs(e, old)
               /\ Occurs(e, s) = Occurs(e, t) + Occurs(e, old)
    <3>2. Owed(e)' = Owed(e) + Occurs(e, old)
      BY <1>2, <2>2, ReleaseEachOwes DEF IInv
    <3>3. Occurs(e, s) = Occurs(e, t) + Occurs(e, old)
      BY <2>1, OccursRemoveAt
    <3> QED BY <1>2, <3>2, <3>3
  <2> HIDE DEF t, old
  <2>5. ASSUME NEW e \in Elements
        PROVE  /\ count'[e] - count[e] = (Occurs(e, t) - Occurs(e, s)) + (Owed(e)' - Owed(e))
               /\ count'[e] \in Int /\ Owed(e)' \in Int
    <3>1. /\ count[e] \in Int /\ Owed(e) \in Int /\ Occurs(e, s) \in Int
          /\ Occurs(e, t) \in Int /\ Occurs(e, old) \in Int
      BY <2>2, VectorFacts, OccursType
    <3> QED BY <2>4, <3>1
  <2> QED BY <1>2, <2>1, <2>2, <2>3, <2>5, MutateBalance
<1> QED BY <1>1, <1>2 DEF RemoveAt, Serve

LEMMA RemoveAtEndBalance ==
    ASSUME IInv, ReferencesBalance, NEW o \in Vectors, RemoveAtEnd(o)
    PROVE  ReferencesBalance'
<1>1. CASE Fail("E_BOUNDS")
  BY <1>1, FailBalance
<1>2. CASE items[o] # <<>> /\ RemoveAt(o, Len(items[o]) - 1)
  <2>1. Len(items[o]) - 1 \in Nat
    BY <1>2, VectorFacts, EmptySeq
  <2> QED BY <1>2, <2>1, RemoveAtBalance
<1> QED BY <1>1, <1>2 DEF RemoveAtEnd

LEMMA ClearBalance ==
    ASSUME IInv, ReferencesBalance, NEW o \in Vectors, Clear(o)
    PROVE  ReferencesBalance'
<1>1. /\ Registered(o) /\ ReleaseEach(items[o]) /\ items' = [items EXCEPT ![o] = <<>>]
      /\ UNCHANGED <<refs, count, held>>
  BY DEF Clear, ReleaseAll, Serve
<1>2. TypeOK /\ o \in Objects /\ items[o] \in Seq(Elements) /\ <<>> \in Seq(Elements)
  BY VectorFacts, EmptySeq
<1>3. ASSUME NEW e \in Elements
      PROVE  /\ count'[e] - count[e] = (Occurs(e, <<>>) - Occurs(e, items[o])) + (Owed(e)' - Owed(e))
             /\ count'[e] \in Int /\ Owed(e)' \in Int
  <2>1. Owed(e)' = Owed(e) + Occurs(e, items[o]) /\ Occurs(e, <<>>) = 0 /\ count'[e] = count[e]
    BY <1>1, <1>2, ReleaseEachOwes, OccursEmpty
  <2>2. count[e] \in Int /\ Owed(e) \in Int /\ Occurs(e, items[o]) \in Int
    BY VectorFacts
  <2> QED BY <2>1, <2>2
<1> QED BY <1>1, <1>2, <1>3, MutateBalance

LEMMA ReplaceAllBalance ==
    ASSUME IInv, ReferencesBalance, NEW o \in Vectors, NEW s \in Seq(Elements \cup {Refused}),
           ReplaceAll(o, s)
    PROVE  ReferencesBalance'
<1>1. CASE (\E k \in DOMAIN s : s[k] = Refused) /\ ReplaceNothing(o, s)
  BY <1>1, ReplaceNothingGivesBack, GiveBackBalance
<1>2. CASE /\ Registered(o)
           /\ \A k \in DOMAIN s : s[k] # Refused
           /\ Retain(s)
           /\ items' = [items EXCEPT ![o] = s]
           /\ ReleaseEach(items[o])
           /\ UNCHANGED <<refs, held>>
  <2>1. s \in Seq(Elements)
    <3>1. \A k \in 1..Len(s) : s[k] \in Elements
      BY <1>2
    <3> QED BY <3>1
  <2>2. TypeOK /\ o \in Objects /\ items[o] \in Seq(Elements)
    BY VectorFacts
  <2>3. ASSUME NEW e \in Elements
        PROVE  /\ count'[e] - count[e] = (Occurs(e, s) - Occurs(e, items[o])) + (Owed(e)' - Owed(e))
               /\ count'[e] \in Int /\ Owed(e)' \in Int
    <3>1. Owed(e)' = Owed(e) + Occurs(e, items[o])
      BY <1>2, <2>2, ReleaseEachOwes
    <3>2. count'[e] = count[e] + Occurs(e, s)
      BY <1>2 DEF Retain
    <3>3. count[e] \in Int /\ Owed(e) \in Int /\ Occurs(e, items[o]) \in Int /\ Occurs(e, s) \in Int
      BY <2>1, VectorFacts, OccursType
    <3> QED BY <3>1, <3>2, <3>3
  <2> QED BY <1>2, <2>1, <2>2, <2>3, MutateBalance
<1> QED BY <1>1, <1>2 DEF ReplaceAll, Serve

\* A sequence with its first element, or another in its place.
LEMMA HeadExcept ==
    ASSUME NEW S, NEW B \in Seq(S), B # <<>>, NEW x \in S
    PROVE  /\ B[1] \in S /\ Tail(B) \in Seq(S)
           /\ B = <<B[1]>> \o Tail(B)
           /\ [B EXCEPT ![1] = x] = <<x>> \o Tail(B)
<1>1. 1 \in 1..Len(B) /\ B[1] \in S /\ Tail(B) \in Seq(S) /\ Len(Tail(B)) = Len(B) - 1
      /\ \A i \in 1..(Len(B) - 1) : Tail(B)[i] = B[i + 1]
  BY EmptySeq, HeadTailProperties
<1>2. B = <<B[1]>> \o Tail(B)
  BY <1>1
<1> DEFINE C == [B EXCEPT ![1] = x]
           D == <<x>> \o Tail(B)
<1>3. /\ C \in Seq(S) /\ Len(C) = Len(B)
      /\ \A i \in 1..Len(B) : C[i] = IF i = 1 THEN x ELSE B[i]
  BY <1>1, ExceptSeq
<1>4. /\ D \in Seq(S) /\ Len(D) = Len(B)
      /\ \A i \in 1..Len(B) : D[i] = IF i = 1 THEN x ELSE B[i]
  BY <1>1
<1> HIDE DEF C, D
<1>5. C = D
  BY <1>3, <1>4, SeqEqual
<1> QED BY <1>1, <1>2, <1>5 DEF C, D

\* comRelease pays one debt.
LEMMA ReleaseNextBalance ==
    ASSUME IInv, ReferencesBalance, ReleaseNext
    PROVE  ReferencesBalance'
<1> DEFINE b == bodies[1]
           rest == Tail(bodies)
           d == Head(b.owed)
           left == Tail(b.owed)
           next == [b EXCEPT !.owed = left, !.dying = (count[d] = 1)]
<1>1. /\ bodies \in Seq(Body) /\ bodies # <<>> /\ b.owed # <<>>
      /\ count' = [count EXCEPT ![d] = @ - 1]
      /\ bodies' = IF left = <<>> /\ count[d] # 1 THEN rest ELSE [bodies EXCEPT ![1] = next]
      /\ UNCHANGED <<refs, items, held>>
  BY DEF ReleaseNext, IInv, TypeOK, Body
<1>2. /\ b \in Body /\ rest \in Seq(Body) /\ bodies = <<b>> \o rest
      /\ \A x \in Body : [bodies EXCEPT ![1] = x] = <<x>> \o rest
  <2>1. b \in Body
    BY <1>1, EmptySeq, ElementOfSeq
  <2> QED BY <1>1, <2>1, HeadExcept
<1>3. /\ b.owed \in Seq(Elements) /\ d \in Elements /\ left \in Seq(Elements)
      /\ b.owed = <<d>> \o left /\ next \in Body /\ next.owed = left
  <2>1. b.owed \in Seq(Elements)
    BY <1>2 DEF Body
  <2>2. d \in Elements /\ left \in Seq(Elements)
    BY <1>1, <2>1, HeadTailProperties
  <2>3. b.owed = <<d>> \o left
    BY <1>1, <2>1
  <2> QED BY <1>2, <2>1, <2>2, <2>3 DEF Body
<1> SUFFICES ASSUME NEW e \in Elements
             PROVE  count'[e] = held'[e] + Listed(e)' + Owed(e)'
  BY DEF ReferencesBalance
<1>4. Listed(e)' = Listed(e)
  BY <1>1 DEF Listed, Payloads, Registered
<1>5. count'[e] = count[e] - Occurs(e, <<d>>) /\ Occurs(e, <<d>>) \in Nat /\ count[e] \in Int
  <2> HIDE DEF d
  <2>1. count \in [Elements -> Int]
    BY DEF IInv, TypeOK
  <2>2. count'[e] = IF d = e THEN count[e] - 1 ELSE count[e]
    BY <1>1, <1>3, <2>1
  <2>3. Occurs(e, <<d>>) = IF d = e THEN 1 ELSE 0
    BY OccursOnce
  <2> QED BY <2>1, <2>2, <2>3
<1>6. Occurs(e, b.owed) = Occurs(e, <<d>>) + Occurs(e, left)
  <2> DEFINE m == <<d>>
  <2>1. m \in Seq(Elements)
    BY <1>3
  <2> HIDE DEF m, left
  <2>2. Occurs(e, m \o left) = Occurs(e, m) + Occurs(e, left)
    BY <1>3, <2>1, OccursConcat
  <2> QED BY <1>3, <2>2 DEF m
<1> HIDE DEF b, rest, next, left, d
<1>7. Owed(e) = Occurs(e, b.owed) + Slots(e, Debts(rest))
  <2>1. Slots(e, Debts(<<b>> \o rest)) = Occurs(e, b.owed) + Slots(e, Debts(rest))
    BY <1>2, OwedCons
  <2> QED BY <1>2, <2>1 DEF Owed
<1>8. Slots(e, Debts(rest)) \in Nat /\ Occurs(e, left) \in Nat
  BY <1>2, <1>3, DebtsFamily, SlotsType, OccursType
<1>9. Owed(e)' = Occurs(e, left) + Slots(e, Debts(rest))
  <2>1. Owed(e)' = Slots(e, Debts(bodies'))
    BY DEF Owed, Debts
  <2>2. CASE left = <<>> /\ count[d] # 1
    <3>1. Occurs(e, left) = 0 /\ bodies' = rest
      BY <1>1, <2>2, OccursEmpty
    <3> QED BY <1>8, <2>1, <3>1
  <2>3. CASE ~(left = <<>> /\ count[d] # 1)
    <3>1. bodies' = <<next>> \o rest
      BY <1>1, <1>2, <2>3
    <3>2. Slots(e, Debts(<<next>> \o rest)) = Occurs(e, next.owed) + Slots(e, Debts(rest))
      BY <1>2, <1>3, OwedCons
    <3> QED BY <1>3, <2>1, <3>1, <3>2
  <2> QED BY <2>2, <2>3
<1>10. held[e] \in Nat /\ Listed(e) \in Nat /\ count[e] = held[e] + Listed(e) + Owed(e)
  BY BalanceTypes DEF ReferencesBalance, IInv, TypeOK
<1> DEFINE one == Occurs(e, <<d>>)
           more == Occurs(e, left)
           others == Slots(e, Debts(rest))
           owed == Owed(e)'
<1>11. /\ one \in Nat /\ more \in Nat /\ others \in Nat
       /\ count'[e] = count[e] - one /\ count[e] = held[e] + Listed(e) + Owed(e)
       /\ Owed(e) = (one + more) + others /\ owed = more + others
  BY <1>5, <1>6, <1>7, <1>8, <1>9, <1>10
<1> HIDE DEF one, more, others, owed
<1>12. count'[e] = held[e] + Listed(e) + owed
  BY <1>10, <1>11
<1> QED BY <1>1, <1>4, <1>12 DEF owed

LEMMA ReturnFromBodyBalance ==
    ASSUME IInv, ReferencesBalance, ReturnFromBody
    PROVE  ReferencesBalance'
<1> DEFINE b == bodies[1]
           rest == Tail(bodies)
<1>1. /\ bodies \in Seq(Body) /\ bodies # <<>> /\ b.owed = <<>> /\ bodies' = rest
      /\ UNCHANGED <<refs, items, count, held>>
  BY DEF ReturnFromBody, IInv, TypeOK, Body
<1>2. b \in Body /\ rest \in Seq(Body)
  BY <1>1, EmptySeq, HeadTailProperties
<1>3. bodies = <<b>> \o rest
  BY <1>1, <1>2
<1> HIDE DEF b, rest
<1>4. ASSUME NEW e \in Elements PROVE Owed(e)' = Owed(e)
  <2>1. Slots(e, Debts(<<b>> \o rest)) = Occurs(e, b.owed) + Slots(e, Debts(rest))
    BY <1>2, OwedCons
  <2>2. Occurs(e, b.owed) = 0 /\ Slots(e, Debts(rest)) \in Nat
    BY <1>1, <1>2, OccursEmpty, DebtsFamily, SlotsType
  <2>3. Owed(e)' = Slots(e, Debts(bodies'))
    BY DEF Owed, Debts
  <2> QED BY <1>1, <1>3, <2>1, <2>2, <2>3 DEF Owed
<1> QED BY <1>1, <1>4 DEF ReferencesBalance, Listed, Payloads, Registered

LEMMA DropElementBalance ==
    ASSUME IInv, ReferencesBalance, NEW d \in Elements, DropElement(d)
    PROVE  ReferencesBalance'
<1> SUFFICES ASSUME NEW e \in Elements
             PROVE  count'[e] = held'[e] + Listed(e)' + Owed(e)'
  BY DEF ReferencesBalance
<1>1. Listed(e)' = Listed(e) /\ Owed(e)' = Owed(e)
  BY DEF DropElement, Listed, Owed, Payloads, Debts, Registered
<1>2. /\ count'[e] = IF e = d THEN count[e] - 1 ELSE count[e]
      /\ held'[e] = IF e = d THEN held[e] - 1 ELSE held[e]
  BY DEF DropElement, IInv, TypeOK
<1>3. /\ Listed(e) \in Nat /\ Owed(e) \in Nat
      /\ held[e] \in Nat /\ count[e] = held[e] + Listed(e) + Owed(e)
  BY BalanceTypes DEF ReferencesBalance, IInv, TypeOK
<1> QED BY <1>1, <1>2, <1>3

LEMMA GetAtBalance ==
    ASSUME IInv, ReferencesBalance, NEW o \in Objects, NEW index \in Nat, GetAt(o, index)
    PROVE  ReferencesBalance'
<1>1. CASE Fail("E_BOUNDS") \/ Fail("E_FAIL")
  BY <1>1, FailBalance
<1>2. CASE /\ index < Len(items[o])
           /\ Marshal(<<items[o][index + 1]>>)
           /\ UNCHANGED <<refs, items, bodies>>
  <2> DEFINE s == <<items[o][index + 1]>>
  <2>1. items[o] \in Seq(Elements)
    BY DEF IInv, TypeOK
  <2>2. items[o][index + 1] \in Elements
    BY <1>2, <2>1
  <2>3. s \in Seq(Elements) /\ Marshal(s)
    BY <1>2, <2>2
  <2> HIDE DEF s
  <2> QED BY <1>2, <2>3, MarshalBalance
<1> QED BY <1>1, <1>2 DEF GetAt

\* GetMany of a source and of an iterator.
LEMMA ManyBalance ==
    ASSUME IInv, ReferencesBalance, NEW o \in Objects, NEW from \in Nat, NEW capacity \in Nat,
           \/ ~Marshallable(Wanted(o, from, capacity)) /\ Unwind(Wanted(o, from, capacity))
           \/ Marshal(Wanted(o, from, capacity)) /\ UNCHANGED <<refs, items, bodies>>
    PROVE  ReferencesBalance'
<1>1. Wanted(o, from, capacity) \in Seq(Elements)
  BY WantedProperties DEF IInv
<1> QED BY <1>1, UnwindGivesBack, GiveBackBalance, MarshalBalance DEF IInv

LEMMA ObjectSlotsBalance ==
    ASSUME IInv, ReferencesBalance, NEW o \in Objects, ObjectSlots(o)
    PROVE  ReferencesBalance'
<1>1. ASSUME NEW s \in Lists, NewObject(o, s) PROVE ReferencesBalance'
  BY <1>1, SeqOfIsSeq, MakeBalance DEF NewObject, Lists
<1>2. CASE Fail("E_FAIL") \/ Fail("E_POINTER") \/ Fail("S_OK")
  BY <1>2, FailBalance
<1> QED BY <1>1, <1>2, AddRefObjectBalance, ReleaseObjectBalance DEF ObjectSlots, RefuseCall, Look

LEMMA ViewSlotsBalance ==
    ASSUME IInv, ReferencesBalance, NEW o \in Sources, ViewSlots(o)
    PROVE  ReferencesBalance'
<1>1. o \in Objects /\ Indices \subseteq Nat /\ items[o] \in Seq(Elements)
  BY CollectionsAssumption DEF Objects, Indices, IInv, TypeOK
<1>2. ASSUME NEW new \in Objects, First(o, new) PROVE ReferencesBalance'
  BY <1>1, <1>2, MakeBalance DEF First
<1>3. ASSUME NEW from \in Indices, NEW capacity \in Indices, GetMany(o, from, capacity)
      PROVE  ReferencesBalance'
  BY <1>1, <1>3, ManyBalance DEF GetMany
<1> QED BY <1>1, <1>2, <1>3, GetAtBalance DEF ViewSlots

LEMMA VectorSlotsBalance ==
    ASSUME IInv, ReferencesBalance, NEW o \in Vectors, VectorSlots(o)
    PROVE  ReferencesBalance'
<1>1. /\ o \in Objects /\ Indices \subseteq Nat /\ items[o] \in Seq(Elements)
      /\ Words \subseteq Elements \cup {Refused}
  BY CollectionsAssumption DEF Objects, Sources, Indices, IInv, TypeOK, Words, Live
<1>2. ASSUME NEW new \in Objects, GetView(o, new) PROVE ReferencesBalance'
  BY <1>1, <1>2, MakeBalance DEF GetView
<1>3. ASSUME NEW e \in Words, AppendWord(o, e) PROVE ReferencesBalance'
  <2>1. Len(items[o]) \in Nat
    BY <1>1
  <2> QED BY <1>1, <1>3, <2>1, InsertAtBalance DEF AppendWord
<1>4. ASSUME NEW s \in Seqs!SeqOf(Words, MaxLen), ReplaceAll(o, s) PROVE ReferencesBalance'
  <2>1. s \in Seq(Elements \cup {Refused})
    BY <1>1, SeqOfIsSeq, SeqMonotonic
  <2> QED BY <1>4, <2>1, ReplaceAllBalance
<1> QED BY <1>1, <1>2, <1>3, <1>4, SetAtBalance, InsertAtBalance, RemoveAtBalance,
           RemoveAtEndBalance, ClearBalance DEF VectorSlots

LEMMA IteratorSlotsBalance ==
    ASSUME IInv, ReferencesBalance, NEW i \in Iterators, IteratorSlots(i)
    PROVE  ReferencesBalance'
<1>1. i \in Objects /\ Indices \subseteq Nat /\ pos[i] \in Nat
  BY CollectionsAssumption DEF Objects, Indices, IInv, TypeOK
<1>2. CASE MoveNext(i)
  BY <1>2, FailBalance, SameBalance DEF MoveNext
<1>3. ASSUME NEW capacity \in Indices, NextMany(i, capacity) PROVE ReferencesBalance'
  BY <1>1, <1>3, ManyBalance DEF NextMany
<1> QED BY <1>1, <1>2, <1>3, GetAtBalance DEF IteratorSlots, Current

\* At the start every element has the one reference its client holds.
LEMMA InitBalance == Init => ReferencesBalance
<1> SUFFICES ASSUME Init, NEW e \in Elements
             PROVE  count[e] = held[e] + Listed(e) + Owed(e)
  BY DEF ReferencesBalance
<1>1. DOMAIN Payloads = {} /\ DOMAIN Debts(bodies) = {}
  BY DEF Init, Payloads, Debts, Registered
<1>2. Listed(e) = 0 /\ Owed(e) = 0
  BY <1>1, FS_EmptySet DEF Listed, Owed, Slots
<1> QED BY <1>2 DEF Init

LEMMA StepBalance == IInv /\ ReferencesBalance /\ [Next]_vars => ReferencesBalance'
<1> SUFFICES ASSUME IInv, ReferencesBalance, [Next]_vars PROVE ReferencesBalance'
  OBVIOUS
<1>1. CASE UNCHANGED vars
  BY <1>1, SameBalance DEF vars
<1>2. CASE Next
  BY <1>2, ObjectSlotsBalance, ViewSlotsBalance, VectorSlotsBalance, IteratorSlotsBalance,
     ReleaseNextBalance, ReturnFromBodyBalance, DropElementBalance DEF Next
<1> QED BY <1>1, <1>2

\* For any collections and elements, and however destructors nest: no path of a body
\* leaks a reference to an element or drops one twice (Retain in UnmarshalWord, Release
\* in releaseAll and the mutators, MarshalOut and FreeOut).
THEOREM AlwaysReferencesBalance == Spec => []ReferencesBalance
BY AlwaysIInv, InitBalance, StepBalance, PTL DEF Spec

-----------------------------------------------------------------------------
(* What is destroyed is nowhere, so nothing can bring it back.             *)

LEMMA OccursNowhere ==
    ASSUME NEW s \in Seq(Elements), NEW e
    PROVE  Occurs(e, s) = 0 <=> \A k \in 1..Len(s) : s[k] # e
<1>1. IsFiniteSet(Places(e, s)) /\ DOMAIN s = 1..Len(s)
  BY PlacesFinite
<1>2. Occurs(e, s) = 0 <=> Places(e, s) = {}
  BY <1>1, FS_EmptySet DEF Occurs
<1> QED BY <1>1, <1>2 DEF Places

\* The slots of one live payload are among all there are.
LEMMA ListedAtLeast ==
    ASSUME TypeOK, NEW o \in Objects, Registered(o), NEW e
    PROVE  Occurs(e, items[o]) \in Nat /\ Occurs(e, items[o]) <= Listed(e)
<1> DEFINE F == Payloads
           G == [y \in DOMAIN F \ {o} |-> F[y]]
<1>1. Family(F) /\ o \in DOMAIN F /\ F[o] = items[o] /\ items[o] \in Seq(Elements)
  BY PayloadsFamily DEF TypeOK
<1>2. Listed(e) = Slots(e, F)
  BY DEF Listed
<1> HIDE DEF F
<1>3. Family(G) /\ Slots(e, F) = Slots(e, G) + Occurs(e, F[o])
  BY <1>1, SlotsSplit, Zenon
<1>4. Slots(e, G) \in Nat /\ Occurs(e, items[o]) \in Nat
  <2> HIDE DEF G
  <2> QED BY <1>1, <1>3, SlotsType, OccursType
<1> HIDE DEF G
<1> QED BY <1>1, <1>2, <1>3, <1>4

\* The debts of the innermost body are among all there are.
LEMMA OwedAtLeast ==
    ASSUME TypeOK, bodies # <<>>, NEW e
    PROVE  /\ bodies[1] \in Body /\ bodies[1].owed \in Seq(Elements)
           /\ Occurs(e, bodies[1].owed) \in Nat /\ Occurs(e, bodies[1].owed) <= Owed(e)
<1> DEFINE b == bodies[1]
           rest == Tail(bodies)
<1>1. b \in Body /\ rest \in Seq(Body) /\ bodies = <<b>> \o rest
  <2>1. bodies \in Seq(Body) /\ b \in Body
    BY EmptySeq, ElementOfSeq DEF TypeOK
  <2> QED BY <2>1, HeadExcept
<1> HIDE DEF b, rest
<1>2. Slots(e, Debts(<<b>> \o rest)) = Occurs(e, b.owed) + Slots(e, Debts(rest))
  BY <1>1, OwedCons
<1>3. b.owed \in Seq(Elements)
  BY <1>1 DEF Body
<1>4. Slots(e, Debts(rest)) \in Nat /\ Occurs(e, b.owed) \in Nat
  BY <1>1, <1>3, DebtsFamily, SlotsType, OccursType
<1>5. Owed(e) = Slots(e, Debts(<<b>> \o rest))
  BY <1>1 DEF Owed
<1>6. Occurs(e, b.owed) <= Owed(e)
  BY <1>2, <1>4, <1>5
<1> QED BY <1>1, <1>3, <1>4, <1>6 DEF b

\* An element without references is in no live payload and in no debt, and nobody holds it.
LEMMA GoneIsNowhere ==
    ASSUME IInv, ReferencesBalance, NEW e \in Elements, count[e] = 0
    PROVE  /\ held[e] = 0
           /\ \A o \in Objects : Registered(o) => \A k \in 1..Len(items[o]) : items[o][k] # e
           /\ bodies # <<>> => \A k \in 1..Len(bodies[1].owed) : bodies[1].owed[k] # e
<1>1. held[e] = 0 /\ Listed(e) = 0 /\ Owed(e) = 0
  <2>1. held[e] \in Nat /\ Listed(e) \in Nat /\ Owed(e) \in Nat
        /\ count[e] = held[e] + Listed(e) + Owed(e)
    BY BalanceTypes DEF ReferencesBalance, IInv, TypeOK
  <2> QED BY <2>1
<1>2. ASSUME NEW o \in Objects, Registered(o)
      PROVE  \A k \in 1..Len(items[o]) : items[o][k] # e
  <2>1. Occurs(e, items[o]) \in Nat /\ Occurs(e, items[o]) <= 0
    BY <1>1, <1>2, ListedAtLeast DEF IInv
  <2>2. Occurs(e, items[o]) = 0
    BY <2>1
  <2>3. items[o] \in Seq(Elements)
    BY DEF IInv, TypeOK
  <2> QED BY <2>2, <2>3, OccursNowhere
<1>3. ASSUME bodies # <<>>
      PROVE  \A k \in 1..Len(bodies[1].owed) : bodies[1].owed[k] # e
  <2>1. Occurs(e, bodies[1].owed) = 0 /\ bodies[1].owed \in Seq(Elements)
    BY <1>1, <1>3, OwedAtLeast DEF IInv
  <2> QED BY <2>1, OccursNowhere
<1> QED BY <1>1, <1>2, <1>3

\* A body retains only what its caller or a live payload has.
LEMMA RetainedElsewhere ==
    ASSUME IInv, NEW e \in Elements, count[e] = 0, NEW s \in Seq(Elements), Retain(s),
           \A k \in 1..Len(s) : s[k] # e
    PROVE  count'[e] = 0
<1>1. Occurs(e, s) = 0
  BY OccursNowhere
<1>2. count'[e] = count[e] + Occurs(e, s)
  BY DEF Retain
<1> QED BY <1>1, <1>2

LEMMA GoneStaysGone ==
    ASSUME IInv, ReferencesBalance, Next, NEW e \in Elements, count[e] = 0
    PROVE  count'[e] = 0
<1>1. /\ held[e] = 0 /\ e \notin Live /\ e # Refused
      /\ \A o \in Objects : /\ items[o] \in Seq(Elements)
                            /\ Registered(o) => \A k \in 1..Len(items[o]) : items[o][k] # e
  BY GoneIsNowhere, CollectionsAssumption DEF Live, IInv, TypeOK
<1>2. ASSUME NEW result, Fail(result) PROVE count'[e] = 0
  BY <1>2 DEF Fail
<1>3. ASSUME NEW o \in Objects, ObjectSlots(o) PROVE count'[e] = 0
  <2>1. ASSUME NEW s \in Lists, NewObject(o, s) PROVE count'[e] = 0
    <3>1. s \in Seq(Elements)
      BY SeqOfIsSeq DEF Lists
    <3>2. Retain(s) /\ \A k \in 1..Len(s) : s[k] # e
      BY <1>1, <2>1, <3>1 DEF NewObject, Make
    <3> QED BY <3>1, <3>2, RetainedElsewhere
  <2> QED BY <1>2, <1>3, <2>1
          DEF ObjectSlots, AddRefObject, ReleaseObject, RefuseCall, Look
<1>4. ASSUME NEW o \in Objects, NEW s \in Seq(Elements), Retain(s), Registered(o),
             \A k \in 1..Len(s) : \E j \in 1..Len(items[o]) : s[k] = items[o][j]
      PROVE  count'[e] = 0
  BY <1>1, <1>4, RetainedElsewhere
<1>5. ASSUME NEW o \in Objects, NEW new, Registered(o), Make(new, items[o]) PROVE count'[e] = 0
  BY <1>1, <1>4, <1>5 DEF Make
<1>6. ASSUME NEW o \in Objects, NEW index \in Nat, GetAt(o, index) PROVE count'[e] = 0
  <2>1. CASE /\ Registered(o) /\ index < Len(items[o])
             /\ Retain(<<items[o][index + 1]>>)
    <3> DEFINE s == <<items[o][index + 1]>>
    <3>1. index + 1 \in 1..Len(items[o]) /\ s \in Seq(Elements) /\ Len(s) = 1
          /\ s[1] = items[o][index + 1]
      BY <1>1, <2>1
    <3> HIDE DEF s
    <3>2. Retain(s) /\ \A k \in 1..Len(s) : s[k] # e
      BY <1>1, <2>1, <3>1 DEF s
    <3> QED BY <3>1, <3>2, RetainedElsewhere
  <2> QED BY <1>2, <1>6, <2>1 DEF GetAt, Serve, Marshal
<1>7. ASSUME NEW o \in Objects, NEW from \in Nat, NEW capacity \in Nat, Registered(o),
             \/ ~Marshallable(Wanted(o, from, capacity)) /\ Unwind(Wanted(o, from, capacity))
             \/ Marshal(Wanted(o, from, capacity))
      PROVE  count'[e] = 0
  <2>1. CASE ~Marshallable(Wanted(o, from, capacity)) /\ Unwind(Wanted(o, from, capacity))
    <3>1. PICK p \in Seq(Elements) :
             /\ GiveBack(p, "E_FAIL", {})
             /\ \A k \in 1..Len(p) : \E j \in 1..Len(items[o]) : p[k] = items[o][j]
      BY <2>1, UnwindGivesBack DEF IInv
    <3> QED BY <1>4, <1>7, <3>1 DEF GiveBack
  <2>2. CASE Retain(Wanted(o, from, capacity))
    <3>1. Wanted(o, from, capacity) \in Seq(Elements)
          /\ \A k \in 1..Len(Wanted(o, from, capacity)) :
                \E j \in 1..Len(items[o]) : Wanted(o, from, capacity)[k] = items[o][j]
      BY WantedProperties, WantedIsListed DEF IInv
    <3> QED BY <1>4, <1>7, <2>2, <3>1
  <2> QED BY <1>7, <2>1, <2>2 DEF Marshal
<1>8. ASSUME NEW o \in Sources, ViewSlots(o) PROVE count'[e] = 0
  <2>1. o \in Objects /\ Indices \subseteq Nat
    BY CollectionsAssumption DEF Objects, Indices
  <2> QED BY <1>5, <1>6, <1>7, <1>8, <2>1 DEF ViewSlots, First, GetMany, Serve
<1>9. ASSUME NEW d \in Words, d # Refused, Retain(<<d>>) PROVE count'[e] = 0
  <2> DEFINE s == <<d>>
  <2>1. d \in Elements /\ d # e
    BY <1>1, <1>9 DEF Words, Live
  <2>2. s \in Seq(Elements) /\ Retain(s) /\ \A k \in 1..Len(s) : s[k] # e
    BY <1>9, <2>1
  <2> HIDE DEF s
  <2> QED BY <2>2, RetainedElsewhere
<1>10. ASSUME NEW o \in Vectors, VectorSlots(o) PROVE count'[e] = 0
  <2>1. o \in Objects
    BY DEF Objects, Sources
  <2>2. ASSUME NEW new \in Objects, GetView(o, new) PROVE count'[e] = 0
    BY <1>5, <2>1, <2>2 DEF GetView, Serve
  <2>3. ASSUME NEW index, NEW d \in Words, SetAt(o, index, d) \/ InsertAt(o, index, d)
        PROVE  count'[e] = 0
    BY <1>2, <1>9, <2>3 DEF SetAt, InsertAt
  <2>4. ASSUME NEW index, RemoveAt(o, index) PROVE count'[e] = 0
    BY <1>2, <2>4 DEF RemoveAt
  <2>5. ASSUME NEW s \in Seqs!SeqOf(Words, MaxLen), ReplaceAll(o, s) PROVE count'[e] = 0
    <3>1. CASE (\E k \in DOMAIN s : s[k] = Refused) /\ ReplaceNothing(o, s)
      <4>1. s \in Seq(Words) /\ Words \subseteq Elements \cup {Refused}
        BY SeqOfIsSeq DEF Words, Live
      <4>2. s \in Seq(Elements \cup {Refused}) /\ \A k \in 1..Len(s) : s[k] # e
        BY <1>1, <4>1, SeqMonotonic DEF Words
      <4>3. ASSUME NEW p \in Seq(Elements), NEW lent \in SUBSET Elements,
                   GiveBack(p, "E_POINTER", lent),
                   \A d \in lent : d \in Elements /\ \E k \in 1..Len(s) : s[k] = d,
                   \A k \in 1..Len(p) : p[k] \in lent
            PROVE  count'[e] = 0
        <5>1. \A k \in 1..Len(p) : p[k] # e
          BY <4>2, <4>3
        <5> QED BY <4>3, <5>1, RetainedElsewhere DEF GiveBack
      <4> QED BY <3>1, <4>2, <4>3, ReplaceNothingGivesBack
    <3>2. CASE Retain(s) /\ \A k \in DOMAIN s : s[k] # Refused
      <4>1. s \in Seq(Words)
        BY SeqOfIsSeq
      <4>2. \A k \in 1..Len(s) : s[k] \in Elements /\ s[k] # e
        BY <1>1, <3>2, <4>1 DEF Words, Live
      <4>3. s \in Seq(Elements)
        BY <4>1, <4>2
      <4> QED BY <3>2, <4>2, <4>3, RetainedElsewhere
    <3> QED BY <2>5, <3>1, <3>2 DEF ReplaceAll
  <2> QED BY <1>2, <1>10, <2>2, <2>3, <2>4, <2>5 DEF VectorSlots, AppendWord, RemoveAtEnd, Clear
<1>11. ASSUME NEW i \in Iterators, IteratorSlots(i) PROVE count'[e] = 0
  <2>1. i \in Objects /\ pos[i] \in Nat /\ Indices \subseteq Nat
    BY CollectionsAssumption DEF Objects, Indices, IInv, TypeOK
  <2> QED BY <1>2, <1>6, <1>7, <1>11, <2>1 DEF IteratorSlots, Current, MoveNext, NextMany, Serve
<1>12. CASE ReleaseNext
  <2>1. bodies \in Seq(Body) /\ bodies # <<>> /\ bodies[1].owed # <<>>
    BY <1>12 DEF ReleaseNext, IInv, TypeOK, Body
  <2>2. bodies[1].owed \in Seq(Elements)
    <3>1. bodies[1] \in Body
      BY <2>1, EmptySeq, ElementOfSeq
    <3> QED BY <3>1 DEF Body
  <2>3. Head(bodies[1].owed) # e
    BY <2>1, <2>2, GoneIsNowhere, EmptySeq
  <2> QED BY <1>12, <2>3 DEF ReleaseNext, IInv, TypeOK
<1>13. CASE ReturnFromBody
  BY <1>13 DEF ReturnFromBody
<1>14. ASSUME NEW d \in Elements, DropElement(d) PROVE count'[e] = 0
  BY <1>1, <1>14 DEF DropElement, IInv, TypeOK
<1> QED BY <1>3, <1>8, <1>10, <1>11, <1>12, <1>13, <1>14 DEF Next

NobodyHoldsTheGone == \A e \in Elements : count[e] = 0 => held[e] = 0

\* No call that a destructor makes can bring an element back whose last reference has
\* gone: releaseAll and the mutators take it out of the payload before they release it.
THEOREM DestroyedAlwaysStaysDestroyed == Spec => DestroyedStaysDestroyed
<1> DEFINE Stays == \A e \in Elements : count[e] = 0 => count'[e] = 0 /\ held'[e] = 0
<1>1. IInv /\ ReferencesBalance => NobodyHoldsTheGone
  BY GoneIsNowhere DEF NobodyHoldsTheGone
<1>2. IInv /\ ReferencesBalance /\ NobodyHoldsTheGone' /\ [Next]_vars => [Stays]_vars
  BY GoneStaysGone DEF NobodyHoldsTheGone
<1>3. Spec => [][Stays]_vars
  BY <1>1, <1>2, AlwaysIInv, AlwaysReferencesBalance, PTL DEF Spec
<1> QED BY <1>3 DEF DestroyedStaysDestroyed

-----------------------------------------------------------------------------
(* A body that fails gives back borrowed references only.                  *)

\* An element that a live payload has, or that its caller holds and has lent to b.
Borrowed(b, e) ==
    \/ e \in b.lent /\ held[e] > 0
    \/ \E o \in Objects : Registered(o) /\ \E j \in 1..Len(items[o]) : items[o][j] = e

FailingBodyBorrows(b) ==
    b.answer # "S_OK" => ~b.dying /\ \A k \in 1..Len(b.owed) : Borrowed(b, b.owed[k])

\* Only the innermost body can be bound to fail, and what it gives back is borrowed.
FailingBodiesBorrow ==
    /\ bodies # <<>> => FailingBodyBorrows(bodies[1])
    /\ \A n \in 2..Len(bodies) : bodies[n].answer = "S_OK"

NoneFails == \A n \in 1..Len(bodies) : bodies[n].answer = "S_OK"

\* A failing body releases no last reference: of each that it gives back there is one more.
LEMMA BorrowedCount ==
    ASSUME IInv, ReferencesBalance, FailingBodiesBorrow, bodies # <<>>,
           bodies[1].answer # "S_OK", NEW k \in 1..Len(bodies[1].owed)
    PROVE  bodies[1].owed[k] \in Elements /\ count[bodies[1].owed[k]] > 1
<1> DEFINE e == bodies[1].owed[k]
<1>1. bodies[1].owed \in Seq(Elements)
  BY OwedAtLeast DEF IInv
<1>2. e \in Elements /\ Borrowed(bodies[1], e)
  BY <1>1 DEF FailingBodiesBorrow, FailingBodyBorrows
<1>3. Owed(e) >= 1
  <2>1. Occurs(e, bodies[1].owed) # 0
    BY <1>1, OccursNowhere
  <2>2. Occurs(e, bodies[1].owed) \in Nat /\ Occurs(e, bodies[1].owed) <= Owed(e) /\ Owed(e) \in Nat
    BY OwedAtLeast, BalanceTypes DEF IInv
  <2> QED BY <2>1, <2>2
<1>4. held[e] + Listed(e) >= 1
  <2>1. held[e] \in Nat /\ Listed(e) \in Nat
    BY <1>2, BalanceTypes DEF IInv, TypeOK
  <2>2. CASE held[e] > 0
    BY <2>1, <2>2
  <2>3. ASSUME NEW o \in Objects, Registered(o), \E j \in 1..Len(items[o]) : items[o][j] = e
        PROVE  Listed(e) >= 1
    <3>1. items[o] \in Seq(Elements)
      BY DEF IInv, TypeOK
    <3>2. Occurs(e, items[o]) # 0
      BY <2>3, <3>1, OccursNowhere
    <3>3. Occurs(e, items[o]) \in Nat /\ Occurs(e, items[o]) <= Listed(e)
      BY <2>3, ListedAtLeast DEF IInv
    <3> QED BY <2>1, <3>2, <3>3
  <2> QED BY <1>2, <2>1, <2>2, <2>3 DEF Borrowed
<1>5. count[e] = held[e] + Listed(e) + Owed(e) /\ held[e] \in Nat /\ Listed(e) \in Nat /\ Owed(e) \in Nat
  BY <1>2, BalanceTypes DEF ReferencesBalance, IInv, TypeOK
<1>6. count[e] > 1
  BY <1>3, <1>4, <1>5
<1> QED BY <1>2, <1>6

\* No call comes in while a body gives back what it took.
LEMMA CallersFindNoneFailing ==
    ASSUME IInv, FailingBodiesBorrow, CanCall
    PROVE  NoneFails
<1>1. bodies \in Seq(Body)
  BY DEF IInv, TypeOK
<1>2. ASSUME NEW n \in 1..Len(bodies) PROVE bodies[n].answer = "S_OK"
  <2>1. bodies # <<>> /\ Len(bodies) \in Nat
    BY <1>1
  <2>2. CASE n = 1
    BY <2>1, <2>2 DEF CanCall, FailingBodiesBorrow, FailingBodyBorrows
  <2>3. CASE n # 1
    BY <2>1, <2>3 DEF FailingBodiesBorrow
  <2> QED BY <2>2, <2>3
<1> QED BY <1>2 DEF NoneFails

\* A call that succeeds, or fails before it takes anything.
LEMMA OweThenBorrows ==
    ASSUME IInv, NoneFails, NEW s \in Seq(Elements), NEW result \in Results,
           NEW lent \in SUBSET Elements, OweThen(s, result, lent),
           result # "S_OK" => \A b : b.lent = lent => \A k \in 1..Len(s) : Borrowed(b, s[k])'
    PROVE  FailingBodiesBorrow'
<1> DEFINE b == [owed |-> s, dying |-> FALSE, answer |-> result, lent |-> lent]
<1>1. bodies \in Seq(Body) /\ b \in Body
  BY DEF IInv, TypeOK, Body
<1>2. bodies' = (IF s = <<>> THEN bodies ELSE <<b>> \o bodies)
      /\ b.owed = s /\ b.answer = result /\ b.lent = lent /\ ~b.dying
  BY DEF OweThen
<1> HIDE DEF b
<1>3. CASE s = <<>>
  BY <1>1, <1>2, <1>3 DEF NoneFails, FailingBodiesBorrow, FailingBodyBorrows
<1>4. CASE s # <<>>
  <2>1. /\ bodies'[1] = b /\ Len(bodies') = Len(bodies) + 1 /\ Len(bodies) \in Nat
        /\ \A n \in 2..(Len(bodies) + 1) : bodies'[n] = bodies[n - 1] /\ n - 1 \in 1..Len(bodies)
    BY <1>1, <1>2, <1>4
  <2>2. \A n \in 2..Len(bodies') : bodies'[n].answer = "S_OK"
    BY <2>1 DEF NoneFails
  <2>3. FailingBodyBorrows(b)'
    BY <1>2 DEF FailingBodyBorrows
  <2>4. FailingBodyBorrows(bodies[1])'
    BY <2>1, <2>3
  <2> QED BY <2>2, <2>4 DEF FailingBodiesBorrow
<1> QED BY <1>3, <1>4

\* What FailedCallsDestroyNothing says of a step.
FailureSpares ==
    hr' # "S_OK"
      => /\ UNCHANGED <<refs, born, items, pos, taken, held>>
         /\ \A e \in Elements : count[e] > 0 => count'[e] > 0

\* A step that keeps to both.
Spares == FailingBodiesBorrow' /\ FailureSpares

LEMMA PlainSpares ==
    ASSUME NoneFails, bodies' = bodies, hr' = "S_OK"
    PROVE  Spares
BY DEF Spares, FailureSpares, NoneFails, FailingBodiesBorrow, FailingBodyBorrows

LEMMA FailSpares ==
    ASSUME IInv, NoneFails, NEW result, Fail(result)
    PROVE  Spares
<1>1. FailingBodiesBorrow'
  <2>1. bodies \in Seq(Body)
    BY DEF IInv, TypeOK
  <2> QED BY <2>1 DEF Fail, NoneFails, FailingBodiesBorrow, FailingBodyBorrows
<1> QED BY <1>1 DEF Fail, Spares, FailureSpares

LEMMA ReleaseSpares ==
    ASSUME IInv, NoneFails, NEW s \in Seq(Elements), ReleaseEach(s), Answer("S_OK")
    PROVE  Spares
<1>1. FailingBodiesBorrow'
  BY OweThenBorrows DEF ReleaseEach
<1> QED BY <1>1 DEF Answer, Spares, FailureSpares

LEMMA GiveBackSpares ==
    ASSUME IInv, NoneFails, NEW p \in Seq(Elements), NEW result \in Results,
           NEW lent \in SUBSET Elements, GiveBack(p, result, lent),
           \A b : b.lent = lent => \A k \in 1..Len(p) : Borrowed(b, p[k])
    PROVE  Spares
<1>1. \A b : b.lent = lent => \A k \in 1..Len(p) : Borrowed(b, p[k])'
  BY DEF GiveBack, Borrowed, Registered
<1>2. FailingBodiesBorrow'
  BY <1>1, OweThenBorrows DEF GiveBack
<1>3. ASSUME NEW e \in Elements, count[e] > 0 PROVE count'[e] > 0
  <2>1. count'[e] = count[e] + Occurs(e, p) /\ Occurs(e, p) \in Nat /\ count[e] \in Int
    BY OccursType DEF GiveBack, Retain, IInv, TypeOK
  <2> QED BY <1>3, <2>1
<1> QED BY <1>2, <1>3 DEF GiveBack, Spares, FailureSpares

\* GetMany gives back elements that its payload still has.
LEMMA UnwindSpares ==
    ASSUME IInv, NoneFails, NEW o \in Objects, Registered(o), NEW from \in Nat,
           NEW capacity \in Nat, ~Marshallable(Wanted(o, from, capacity)),
           Unwind(Wanted(o, from, capacity))
    PROVE  Spares
<1>1. ASSUME NEW p \in Seq(Elements), GiveBack(p, "E_FAIL", {}),
             \A k \in 1..Len(p) : \E j \in 1..Len(items[o]) : p[k] = items[o][j]
      PROVE  Spares
  <2>1. \A b, e : (\E j \in 1..Len(items[o]) : e = items[o][j]) => Borrowed(b, e)
    BY DEF Borrowed
  <2>2. \A b : b.lent = {} => \A k \in 1..Len(p) : Borrowed(b, p[k])
    BY <1>1, <2>1
  <2> QED BY <1>1, <2>2, GiveBackSpares
<1> QED BY <1>1, UnwindGivesBack DEF IInv

\* ReplaceAll gives back elements that its caller holds.
LEMMA ReplaceNothingSpares ==
    ASSUME IInv, NoneFails, NEW o, NEW s \in Seqs!SeqOf(Words, MaxLen),
           \E k \in DOMAIN s : s[k] = Refused, ReplaceNothing(o, s)
    PROVE  Spares
<1>1. s \in Seq(Words) /\ Words \subseteq Elements \cup {Refused}
  BY SeqOfIsSeq DEF Words, Live
<1>2. s \in Seq(Elements \cup {Refused})
  BY <1>1, SeqMonotonic
<1>3. \A k \in 1..Len(s) : s[k] \in Elements => held[s[k]] > 0
  BY <1>1, CollectionsAssumption DEF Words, Live
<1>4. ASSUME NEW p \in Seq(Elements), NEW lent \in SUBSET Elements,
             GiveBack(p, "E_POINTER", lent),
             \A d \in lent : d \in Elements /\ \E k \in 1..Len(s) : s[k] = d,
             \A k \in 1..Len(p) : p[k] \in lent
      PROVE  Spares
  <2>1. \A d \in lent : held[d] > 0
    BY <1>3, <1>4
  <2>2. \A b : b.lent = lent => \A k \in 1..Len(p) : Borrowed(b, p[k])
    BY <1>4, <2>1 DEF Borrowed
  <2> QED BY <1>4, <2>2, GiveBackSpares
<1> QED BY <1>2, <1>4, ReplaceNothingGivesBack

-----------------------------------------------------------------------------
(* The steps.                                                              *)

\* While a body gives back what it took nothing of it goes from where it is borrowed.
LEMMA StillBorrowed ==
    ASSUME FailingBodiesBorrow, bodies' = bodies, hr' = "S_OK",
           \A k \in 1..Len(bodies[1].owed) :
              Borrowed(bodies[1], bodies[1].owed[k]) => Borrowed(bodies[1], bodies[1].owed[k])'
    PROVE  Spares
BY DEF Spares, FailureSpares, FailingBodiesBorrow, FailingBodyBorrows

LEMMA NewObjectSpares ==
    ASSUME IInv, FailingBodiesBorrow, NEW o \in Objects, NEW s \in Seq(Elements),
           Make(o, s), Answer("S_OK")
    PROVE  Spares
<1>1. refs[o] = 0
  BY DEF IInv, Unborn, Make
<1>2. \A p \in Objects : Registered(p) => Registered(p)' /\ items'[p] = items[p]
  BY <1>1 DEF Make, Registered, IInv, TypeOK
<1>3. bodies' = bodies /\ held' = held
  BY DEF Make
<1>4. ASSUME NEW k \in 1..Len(bodies[1].owed), Borrowed(bodies[1], bodies[1].owed[k])
      PROVE  Borrowed(bodies[1], bodies[1].owed[k])'
  <2>1. CASE bodies[1].owed[k] \in bodies[1].lent /\ held[bodies[1].owed[k]] > 0
    BY <1>3, <2>1 DEF Borrowed
  <2>2. ASSUME NEW p \in Objects, Registered(p),
               NEW j \in 1..Len(items[p]), items[p][j] = bodies[1].owed[k]
        PROVE  Borrowed(bodies[1], bodies[1].owed[k])'
    <3>1. Registered(p)' /\ items'[p] = items[p]
      BY <1>2, <2>2
    <3> QED BY <1>3, <2>2, <3>1 DEF Borrowed
  <2> QED BY <1>4, <2>1, <2>2 DEF Borrowed
<1> QED BY <1>4, StillBorrowed DEF Make, Answer

LEMMA DropElementSpares ==
    ASSUME IInv, FailingBodiesBorrow, NEW e \in Elements, DropElement(e)
    PROVE  Spares
<1>1. CASE bodies = <<>>
  BY <1>1 DEF DropElement, Answer, Spares, FailureSpares, FailingBodiesBorrow
<1>2. CASE bodies # <<>>
  <2>1. ASSUME NEW k \in 1..Len(bodies[1].owed), Borrowed(bodies[1], bodies[1].owed[k])
        PROVE  Borrowed(bodies[1], bodies[1].owed[k])'
    <3> DEFINE d == bodies[1].owed[k]
    <3>1. bodies[1].owed \in Seq(Elements) /\ d \in Elements
      BY <1>2, OwedAtLeast DEF IInv
    <3>2. /\ e \in bodies[1].lent => held[e] > 1
          /\ held' = [held EXCEPT ![e] = @ - 1] /\ held \in [Elements -> Nat]
      BY <1>2 DEF DropElement, IInv, TypeOK
    <3>3. d \in bodies[1].lent /\ held[d] > 0 => held'[d] > 0
      <4> HIDE DEF d
      <4> QED BY <3>1, <3>2
    <3> QED BY <2>1, <3>3 DEF Borrowed, DropElement, Registered
  <2> QED BY <2>1, StillBorrowed DEF DropElement, Answer
<1> QED BY <1>1, <1>2

\* The body below the innermost one is not failing.
LEMMA ReturnBorrows ==
    ASSUME IInv, FailingBodiesBorrow, bodies # <<>>, bodies' = Tail(bodies)
    PROVE  FailingBodiesBorrow'
<1>1. /\ Len(bodies) \in Nat \ {0} /\ Len(bodies') = Len(bodies) - 1
      /\ \A n \in 1..(Len(bodies) - 1) : bodies'[n] = bodies[n + 1]
  BY EmptySeq, HeadTailProperties DEF IInv, TypeOK
<1>2. \A n \in 1..Len(bodies') : bodies'[n].answer = "S_OK"
  <2> SUFFICES ASSUME NEW n \in 1..Len(bodies') PROVE bodies'[n].answer = "S_OK"
    OBVIOUS
  <2>1. n + 1 \in 2..Len(bodies) /\ bodies'[n] = bodies[n + 1]
    BY <1>1
  <2> QED BY <2>1 DEF FailingBodiesBorrow
<1>3. bodies' # <<>> => 1 \in 1..Len(bodies')
  <2>1. bodies' \in Seq(Body)
    BY HeadTailProperties DEF IInv, TypeOK
  <2> QED BY <2>1, EmptySeq
<1> QED BY <1>1, <1>2, <1>3 DEF FailingBodiesBorrow, FailingBodyBorrows

LEMMA ReturnFromBodySpares ==
    ASSUME IInv, FailingBodiesBorrow, ReturnFromBody
    PROVE  Spares
BY ReturnBorrows DEF ReturnFromBody, Spares, FailureSpares

\* What a failing body gives back is no last reference, so it does not stop for a destructor.
LEMMA ReleaseNextSpares ==
    ASSUME IInv, ReferencesBalance, FailingBodiesBorrow, ReleaseNext
    PROVE  Spares
<1> DEFINE b == bodies[1]
           d == Head(b.owed)
           left == Tail(b.owed)
           next == [b EXCEPT !.owed = left, !.dying = (count[d] = 1)]
<1>1. /\ bodies \in Seq(Body) /\ bodies # <<>> /\ b.owed # <<>>
      /\ count' = [count EXCEPT ![d] = @ - 1] /\ hr' = b.answer
      /\ bodies' = IF left = <<>> /\ count[d] # 1 THEN Tail(bodies) ELSE [bodies EXCEPT ![1] = next]
      /\ UNCHANGED <<refs, born, items, pos, taken, held>>
  BY DEF ReleaseNext, IInv, TypeOK, Answer
<1>2. b \in Body /\ b.owed \in Seq(Elements)
  BY <1>1, OwedAtLeast DEF IInv
<1>3. /\ Len(b.owed) \in Nat \ {0} /\ d = b.owed[1] /\ d \in Elements
      /\ left \in Seq(Elements) /\ Len(left) = Len(b.owed) - 1
      /\ \A k \in 1..(Len(b.owed) - 1) : left[k] = b.owed[k + 1]
  BY <1>1, <1>2, EmptySeq, HeadTailProperties
<1>4. next \in Body /\ next.owed = left /\ next.answer = b.answer /\ next.lent = b.lent
      /\ next.dying = (count[d] = 1)
  BY <1>2, <1>3 DEF Body
<1>5. b.answer # "S_OK" => count[d] > 1
  <2>1. 1 \in 1..Len(bodies[1].owed)
    BY <1>3
  <2> QED BY <1>1, <1>3, <2>1, BorrowedCount
<1>6. FailureSpares
  <2>1. count \in [Elements -> Int]
    BY DEF IInv, TypeOK
  <2> HIDE DEF d, b
  <2>2. ASSUME b.answer # "S_OK", NEW e \in Elements, count[e] > 0 PROVE count'[e] > 0
    BY <1>1, <1>3, <1>5, <2>1, <2>2
  <2> QED BY <1>1, <2>2 DEF FailureSpares
<1>7. FailingBodyBorrows(b)
  BY <1>1 DEF FailingBodiesBorrow
<1>8. ASSUME NEW c, c = next PROVE FailingBodyBorrows(c)'
  <2> SUFFICES ASSUME c.answer # "S_OK"
               PROVE  ~c.dying /\ \A k \in 1..Len(c.owed) : Borrowed(c, c.owed[k])'
    BY DEF FailingBodyBorrows
  <2>1. c.answer = b.answer /\ c.lent = b.lent /\ c.owed = left /\ c.dying = (count[d] = 1)
    BY <1>4, <1>8
  <2>2. ~c.dying
    <3>1. count[d] \in Int /\ count[d] > 1
      BY <1>3, <1>5, <2>1 DEF IInv, TypeOK
    <3>2. count[d] # 1
      BY <3>1
    <3> QED BY <2>1, <3>2, Zenon
  <2>3. ASSUME NEW k \in 1..Len(left) PROVE Borrowed(c, c.owed[k])'
    <3>1. k + 1 \in 1..Len(b.owed) /\ left[k] = b.owed[k + 1]
      BY <1>3
    <3>2. Borrowed(b, left[k])
      BY <1>7, <2>1, <3>1 DEF FailingBodyBorrows
    <3>3. \A e : Borrowed(b, e) => Borrowed(c, e)'
      BY <1>1, <2>1 DEF Borrowed, Registered
    <3> QED BY <2>1, <3>2, <3>3
  <2> QED BY <2>1, <2>2, <2>3
<1>9. CASE left = <<>> /\ count[d] # 1
  BY <1>1, <1>6, <1>9, ReturnBorrows DEF Spares
<1>10. CASE ~(left = <<>> /\ count[d] # 1)
  <2> HIDE DEF next
  <2>1. bodies' = [bodies EXCEPT ![1] = next]
    BY <1>1, <1>10
  <2>2. /\ Len(bodies) \in Nat \ {0} /\ Len(bodies') = Len(bodies) /\ bodies'[1] = next
        /\ \A n \in 2..Len(bodies) : bodies'[n] = bodies[n]
    BY <1>1, <1>4, <2>1, EmptySeq, ExceptSeq
  <2>3. FailingBodyBorrows(bodies[1])'
    BY <1>8, <2>2 DEF FailingBodyBorrows, Borrowed
  <2> QED BY <1>6, <2>2, <2>3 DEF FailingBodiesBorrow, Spares
<1> QED BY <1>9, <1>10

LEMMA GetAtSpares ==
    ASSUME IInv, FailingBodiesBorrow, NEW o, NEW index, GetAt(o, index)
    PROVE  Spares
<1>1. NoneFails
  BY CallersFindNoneFailing DEF GetAt, Serve
<1> QED BY <1>1, FailSpares, PlainSpares DEF GetAt, Answer

LEMMA ObjectSlotsSpares ==
    ASSUME IInv, FailingBodiesBorrow, NEW o \in Objects, ObjectSlots(o)
    PROVE  Spares
<1>1. ASSUME NEW s \in Lists, NewObject(o, s) PROVE Spares
  BY <1>1, SeqOfIsSeq, NewObjectSpares DEF NewObject, Lists
<1>2. CASE AddRefObject(o) \/ ReleaseObject(o) \/ RefuseCall(o) \/ Look(o)
  <2>1. NoneFails
    BY <1>2, CallersFindNoneFailing DEF AddRefObject, ReleaseObject, RefuseCall, Look, Serve
  <2>2. CASE ReleaseObject(o)
    <3>1. items[o] \in Seq(Elements)
      BY DEF IInv, TypeOK
    <3> QED BY <2>1, <2>2, <3>1, PlainSpares, ReleaseSpares DEF ReleaseObject, ReleaseAll, Answer
  <2> QED BY <1>2, <2>1, <2>2, PlainSpares, FailSpares DEF AddRefObject, RefuseCall, Look, Answer
<1> QED BY <1>1, <1>2 DEF ObjectSlots

LEMMA ViewSlotsSpares ==
    ASSUME IInv, FailingBodiesBorrow, NEW o \in Sources, ViewSlots(o)
    PROVE  Spares
<1>1. o \in Objects /\ Indices \subseteq Nat /\ items[o] \in Seq(Elements)
  BY CollectionsAssumption DEF Objects, Indices, IInv, TypeOK
<1>2. ASSUME NEW new \in Objects, First(o, new) PROVE Spares
  BY <1>1, <1>2, NewObjectSpares DEF First
<1>3. ASSUME NEW from \in Indices, NEW capacity \in Indices, GetMany(o, from, capacity)
      PROVE  Spares
  <2>1. NoneFails /\ Registered(o)
    BY <1>3, CallersFindNoneFailing DEF GetMany, Serve
  <2> QED BY <1>1, <1>3, <2>1, PlainSpares, UnwindSpares DEF GetMany, Answer
<1> QED BY <1>2, <1>3, GetAtSpares DEF ViewSlots

LEMMA RemoveAtSpares ==
    ASSUME IInv, FailingBodiesBorrow, NEW o \in Vectors, NEW index \in Nat, RemoveAt(o, index)
    PROVE  Spares
<1>1. NoneFails
  BY CallersFindNoneFailing DEF RemoveAt, Serve
<1>2. index < Len(items[o]) => <<items[o][index + 1]>> \in Seq(Elements)
  BY VectorFacts
<1> QED BY <1>1, <1>2, FailSpares, ReleaseSpares DEF RemoveAt

LEMMA InsertAtSpares ==
    ASSUME IInv, FailingBodiesBorrow, NEW o, NEW index, NEW e, InsertAt(o, index, e)
    PROVE  Spares
<1>1. NoneFails
  BY CallersFindNoneFailing DEF InsertAt, Serve
<1> QED BY <1>1, FailSpares, PlainSpares DEF InsertAt, Answer

LEMMA VectorSlotsSpares ==
    ASSUME IInv, FailingBodiesBorrow, NEW o \in Vectors, VectorSlots(o)
    PROVE  Spares
<1>1. o \in Objects /\ Indices \subseteq Nat /\ items[o] \in Seq(Elements)
  BY CollectionsAssumption, VectorFacts DEF Indices
<1>2. ASSUME NEW new \in Objects, GetView(o, new) PROVE Spares
  BY <1>1, <1>2, NewObjectSpares DEF GetView
<1>3. ASSUME NEW index \in Indices, NEW e \in Words, SetAt(o, index, e) PROVE Spares
  <2>1. NoneFails
    BY <1>3, CallersFindNoneFailing DEF SetAt, Serve
  <2>2. index < Len(items[o]) => <<items[o][index + 1]>> \in Seq(Elements)
    BY <1>1
  <2> QED BY <1>3, <2>1, <2>2, FailSpares, ReleaseSpares DEF SetAt
<1>4. CASE RemoveAtEnd(o)
  <2>1. CASE Serve(o) /\ Fail("E_BOUNDS")
    BY <2>1, CallersFindNoneFailing, FailSpares DEF Serve
  <2>2. CASE items[o] # <<>> /\ RemoveAt(o, Len(items[o]) - 1)
    <3>1. Len(items[o]) - 1 \in Nat
      BY <1>1, <2>2, EmptySeq
    <3> QED BY <2>2, <3>1, RemoveAtSpares
  <2> QED BY <1>4, <2>1, <2>2 DEF RemoveAtEnd
<1>5. CASE Clear(o)
  BY <1>1, <1>5, CallersFindNoneFailing, ReleaseSpares DEF Clear, Serve, ReleaseAll
<1>6. ASSUME NEW s \in Seqs!SeqOf(Words, MaxLen), ReplaceAll(o, s) PROVE Spares
  <2>1. NoneFails
    BY <1>6, CallersFindNoneFailing DEF ReplaceAll, Serve
  <2>2. CASE (\E k \in DOMAIN s : s[k] = Refused) /\ ReplaceNothing(o, s)
    BY <2>1, <2>2, ReplaceNothingSpares
  <2>3. CASE ReleaseEach(items[o]) /\ Answer("S_OK")
    BY <1>1, <2>1, <2>3, ReleaseSpares
  <2> QED BY <1>6, <2>2, <2>3 DEF ReplaceAll
<1> QED BY <1>1, <1>2, <1>3, <1>4, <1>5, <1>6, InsertAtSpares, RemoveAtSpares
        DEF VectorSlots, AppendWord

LEMMA IteratorSlotsSpares ==
    ASSUME IInv, FailingBodiesBorrow, NEW i \in Iterators, IteratorSlots(i)
    PROVE  Spares
<1>1. i \in Objects /\ Indices \subseteq Nat /\ pos[i] \in Nat
  BY CollectionsAssumption DEF Objects, Indices, IInv, TypeOK
<1>2. CASE MoveNext(i)
  <2>1. NoneFails
    BY <1>2, CallersFindNoneFailing DEF MoveNext, Serve
  <2> QED BY <1>2, <2>1, FailSpares, PlainSpares DEF MoveNext, Answer
<1>3. ASSUME NEW capacity \in Indices, NextMany(i, capacity) PROVE Spares
  <2>1. NoneFails /\ Registered(i)
    BY <1>3, CallersFindNoneFailing DEF NextMany, Serve
  <2> QED BY <1>1, <1>3, <2>1, PlainSpares, UnwindSpares DEF NextMany, Answer
<1> QED BY <1>2, <1>3, GetAtSpares DEF IteratorSlots, Current

LEMMA StepSpares ==
    IInv /\ ReferencesBalance /\ FailingBodiesBorrow /\ [Next]_vars
      => FailingBodiesBorrow' /\ [FailureSpares]_vars
<1> SUFFICES ASSUME IInv, ReferencesBalance, FailingBodiesBorrow, [Next]_vars
             PROVE  FailingBodiesBorrow' /\ [FailureSpares]_vars
  OBVIOUS
<1>1. CASE UNCHANGED vars
  BY <1>1 DEF vars, FailingBodiesBorrow, FailingBodyBorrows, Borrowed, Registered
<1>2. CASE Next
  <2>1. Spares
    BY <1>2, ObjectSlotsSpares, ViewSlotsSpares, VectorSlotsSpares, IteratorSlotsSpares,
       ReleaseNextSpares, ReturnFromBodySpares, DropElementSpares DEF Next
  <2> QED BY <2>1 DEF Spares
<1> QED BY <1>1, <1>2

\* For any collections, elements and inputs: once GetMany or ReplaceAll has met a slot that
\* fails, what it gives back (the unwinding loops of marshalRange and replaceAll) is still
\* in a live payload or held by its caller, so that no destructor runs inside the failing
\* call, and it ends with every payload and position as it was.
THEOREM FailedCallsAlwaysDestroyNothing == Spec => FailedCallsDestroyNothing
<1>1. Init => FailingBodiesBorrow
  BY DEF Init, FailingBodiesBorrow
<1>2. Spec => [][FailureSpares]_vars
  BY <1>1, StepSpares, AlwaysIInv, AlwaysReferencesBalance, PTL DEF Spec
<1> QED BY <1>2 DEF FailedCallsDestroyNothing, FailureSpares
=============================================================================
