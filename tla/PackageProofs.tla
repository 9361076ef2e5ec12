--------------------------- MODULE PackageProofs ---------------------------
(***************************************************************************)
(* Whatever a namespace declares, no Go identifier is declared twice, no   *)
(* mangled name means two types, every name the files use is declared or   *)
(* imported, and every member is emitted or reported.                      *)
(***************************************************************************)
EXTENDS Package, FiniteSetTheorems, SequenceTheorems, WellFoundedInduction,
        TLAPS

U == UnitsOf(Kinds \cup {"siblings"})

UniqueMethods == \A m, n \in methods : m.owner = n.owner /\ m.name = n.name => m = n

-----------------------------------------------------------------------------
(* The two choices of a free name.                                         *)

\* A set of naturals has a least element.
LEMMA LeastNatural ==
    ASSUME NEW S \in SUBSET Nat, S # {}
    PROVE  Min(S) \in S
<1> DEFINE R == {ss \in Nat \X Nat : ss[1] < ss[2]}
<1>1. PICK x \in S : \A y \in S : ~(<<y, x>> \in R)
  <2>1. IsWellFoundedOn(R, Nat)
    BY NatLessThanWellFounded DEF OpToRel
  <2> HIDE DEF R
  <2> QED BY <2>1, WFMin
<1>2. \A y \in S : x =< y
  <2>1. \A a, b \in Nat : a < b => <<a, b>> \in R
    OBVIOUS
  <2> HIDE DEF R
  <2> TAKE y \in S
  <2>2. y \in Nat /\ x \in Nat
    OBVIOUS
  <2>3. ~(y < x)
    BY <1>1, <2>1, <2>2
  <2> QED BY <2>2, <2>3
<1> QED BY <1>2 DEF Min

\* Among as many suffixes as there are methods, and one more, one is free.
LEMMA SuffixedIsNew ==
    ASSUME NEW owner, NEW name \in Seq(STRING), IsFiniteSet(methods)
    PROVE  Suffixed(owner, name) \notin MethodNames(owner)
<1> DEFINE With(k) == name \o [i \in 1..k |-> "_"]
           Parts == STRING \cup {"_"}
           n == Cardinality(methods)
           free == {k \in 0..n : With(k) \notin MethodNames(owner)}
<1>1. n \in Nat
  BY FS_CardinalityType
<1>2. IsFiniteSet(0..n) /\ Cardinality(0..n) = n + 1
  BY <1>1, FS_Interval
<1>3. \A j, k \in 0..n : With(j) = With(k) => j = k
  <2>0. name \in Seq(Parts)
    BY SeqMonotonic, STRING \subseteq Parts
  <2>1. \A k \in 0..n : [i \in 1..k |-> "_"] \in Seq(Parts) /\ Len([i \in 1..k |-> "_"]) = k
    <3> SUFFICES ASSUME NEW k \in 0..n
         PROVE  [i \in 1..k |-> "_"] \in Seq(Parts) /\ Len([i \in 1..k |-> "_"]) = k
      BY Zenon
    <3>1. k \in Nat
      BY <1>1
    <3> DEFINE s == [i \in 1..k |-> "_"]
    <3>2. s \in [1..k -> Parts]
      OBVIOUS
    <3> HIDE DEF s, Parts
    <3>3. s \in Seq(Parts)
      BY <3>1, <3>2, SeqDef
    <3>4. Len(s) = k
      BY <3>1, <3>2
    <3> QED BY <3>3, <3>4 DEF s, Parts
  <2>2. \A k \in 0..n : Len(With(k)) = Len(name) + k
    <3> SUFFICES ASSUME NEW k \in 0..n PROVE Len(With(k)) = Len(name) + k
      BY Zenon
    <3> DEFINE s == [i \in 1..k |-> "_"]
    <3>1. s \in Seq(Parts) /\ Len(s) = k
      BY <2>1
    <3> HIDE DEF s
    <3>2. Len(name \o s) = Len(name) + k
      BY <3>1, <2>0, ConcatProperties
    <3> QED BY <3>2 DEF s
  <2>3. Len(name) \in Nat
    OBVIOUS
  <2> HIDE DEF With
  <2> QED BY <1>1, <2>2, <2>3
<1> HIDE DEF With
<1>4. free # {}
  <2> SUFFICES ASSUME free = {} PROVE FALSE
    OBVIOUS
  <2> DEFINE f == [k \in 0..n |-> CHOOSE m \in methods : m.owner = owner /\ m.name = With(k)]
  <2>1. \A k \in 0..n : \E m \in methods : m.owner = owner /\ m.name = With(k)
    BY DEF MethodNames
  <2>2. \A k \in 0..n : f[k] \in methods /\ f[k].name = With(k)
    BY <2>1
  <2>3. f \in [0..n -> methods]
    BY <2>2
  <2> HIDE DEF f
  <2>4. \E j, k \in 0..n : j # k /\ f[j] = f[k]
    BY <1>1, <1>2, <2>3, FS_PigeonHole
  <2> QED BY <1>3, <2>2, <2>4
<1>5. Suffixed(owner, name) = With(Min(free))
  BY DEF Suffixed, With
<1>6. Min(free) \in free
  <2>1. free \in SUBSET Nat
    BY <1>1
  <2> HIDE DEF free
  <2> QED BY <1>4, <2>1, LeastNatural
<1> QED BY <1>5, <1>6

LEMMA FreeNameIsNew ==
    ASSUME NEW u, Free(u) # {}
    PROVE  FreeName(u) \notin claimed
<1>1. Min(Free(u)) \in Free(u)
  BY LeastNatural DEF Free
<1> QED BY <1>1 DEF Free, FreeName

\* EmitMethod with a name no method of the type has.
LEMMA EmitMethodIsUnique ==
    ASSUME IInv, NEW name, EmitMethod(name), name \notin MethodNames(Current.owner)
    PROVE  IsFiniteSet(methods') /\ UniqueMethods'
<1> DEFINE m == [owner |-> Current.owner, name |-> name, by |-> Id(Current), items |-> scratch]
<1>1. methods' = methods \cup {m}
  BY DEF EmitMethod
<1>2. IsFiniteSet(methods')
  BY <1>1, FS_AddElement DEF IInv, TypeOK
<1>3. \A n \in methods : ~(n.owner = m.owner /\ n.name = m.name)
  BY DEF MethodNames
<1> HIDE DEF m
<1> QED BY <1>1, <1>2, <1>3 DEF IInv, UniqueNames, UniqueMethods

-----------------------------------------------------------------------------
(* How a step moves the agenda.                                            *)

LEMMA NextUnitKeeps ==
    ASSUME IInv, agenda # <<>>, NextUnit
    PROVE  /\ agenda' \in Seq(U)
           /\ \A i \in 1..Len(agenda') : agenda'[i].kind # "siblings"
           /\ scratch' = {} /\ binding' = None /\ inner' = <<>>
<1>1. agenda \in Seq(U)
  BY DEF IInv, TypeOK, U
<1>2. /\ Tail(agenda) \in Seq(U)
      /\ Len(Tail(agenda)) = Len(agenda) - 1
      /\ \A i \in 1..Len(Tail(agenda)) : Tail(agenda)[i] = agenda[i + 1]
  BY <1>1, HeadTailProperties
<1>3. \A i \in 1..Len(Tail(agenda)) : i + 1 \in 2..Len(agenda)
  BY <1>1, <1>2
<1> QED BY <1>2, <1>3 DEF NextUnit, IInv, NamesAreHeld

LEMMA NextItemKeeps ==
    ASSUME IInv, agenda # <<>>, Current.items # <<>>, NextItem
    PROVE  /\ agenda' \in Seq(U) /\ agenda' # <<>>
           /\ \A i \in 2..Len(agenda') : agenda'[i].kind # "siblings"
           /\ Current'.kind = Current.kind /\ Current'.name = Current.name
           /\ Len(agenda') = Len(agenda)
           /\ \A i \in 2..Len(agenda) : agenda'[i] = agenda[i]
           /\ Current' = [Current EXCEPT !.items = Tail(@)] /\ agenda'[1] = Current'
<1>1. agenda \in Seq(U)
  BY DEF IInv, TypeOK, U
<1> DEFINE c == [Current EXCEPT !.items = Tail(@)]
<1>2. Current \in U /\ Tail(agenda) \in Seq(U) /\ Len(Tail(agenda)) = Len(agenda) - 1
      /\ \A i \in 1..Len(Tail(agenda)) : Tail(agenda)[i] = agenda[i + 1]
  BY <1>1, HeadTailProperties DEF Current
<1>3. Tail(Current.items) \in Seq(Items)
  BY <1>2, HeadTailProperties DEF U, UnitsOf
<1>4. c \in U /\ c.kind = Current.kind /\ c.name = Current.name
  BY <1>2, <1>3 DEF U, UnitsOf
<1> HIDE DEF c
<1>5. <<c>> \in Seq(U) /\ Len(<<c>>) = 1 /\ <<c>>[1] = c
  BY <1>4
<1>6. agenda' = <<c>> \o Tail(agenda)
  BY DEF NextItem, c
<1>7. /\ agenda' \in Seq(U) /\ Len(agenda') = Len(agenda)
      /\ agenda'[1] = c
      /\ \A i \in 2..Len(agenda) : agenda'[i] = agenda[i]
  <2>1. Len(agenda) \in Nat /\ Len(agenda) > 0
    BY <1>1, EmptySeq
  <2> QED BY <1>2, <1>5, <1>6, <2>1, ConcatProperties
<1>8. agenda' # <<>> /\ Current' = c
  BY <1>1, <1>7, EmptySeq DEF Current
<1>9. c = [Current EXCEPT !.items = Tail(@)]
  BY DEF c
<1> QED BY <1>4, <1>7, <1>8, <1>9 DEF IInv, NamesAreHeld

-----------------------------------------------------------------------------
(* A unit that is finished, and may declare names.                         *)

LEMMA FinishIInv ==
    ASSUME IInv, agenda # <<>>, NextUnit, UNCHANGED requestVars,
           claimed \subseteq claimed', typeNames' \subseteq typeNames,
           \A d \in declared' \ declared :
               /\ d.name \in claimed' \ typeNames'
               /\ \A e \in declared : e.name # d.name
               /\ \A e \in instances : e[1] # d.name,
           \A d, e \in declared' \ declared : d.name = e.name => d = e,
           IsFiniteSet(methods'), UniqueMethods'
    PROVE  IInv'
<1>1. /\ agenda' \in Seq(U)
      /\ \A i \in 1..Len(agenda') : agenda'[i].kind # "siblings"
      /\ scratch' = {} /\ binding' = None /\ inner' = <<>>
  BY NextUnitKeeps
<1>2. TypeOK'
  BY <1>1 DEF IInv, TypeOK, U, requestVars
<1>3. UniqueNames'
  BY DEF IInv, UniqueNames, UniqueMethods
<1>4. NoAliases'
  BY <1>1 DEF IInv, NoAliases, requestVars
<1>5. agenda' # <<>> => Current'.kind # "siblings"
  BY <1>1, EmptySeq DEF Current
<1>6. NamesAreHeld'
  <2>1. \A d \in declared' : d.name \in claimed' \ typeNames'
    BY DEF IInv, NamesAreHeld
  <2>2. \A e \in instances' : e[1] \in claimed' \ typeNames'
    BY DEF IInv, NamesAreHeld, requestVars
  <2>3. \A i \in DOMAIN queue' :
          /\ <<Mangled[queue[i]], queue[i]>> \in instances'
          /\ \A d \in declared' : d.name # Mangled[queue'[i]]
          /\ \A j \in DOMAIN queue' : Mangled[queue'[i]] = Mangled[queue'[j]] => i = j
    BY DEF IInv, NamesAreHeld, requestVars
  <2>4. \A e \in handlers' : e[1] \in claimed'
    BY DEF IInv, NamesAreHeld, requestVars
  <2> QED BY <1>1, <1>5, <2>1, <2>2, <2>3, <2>4 DEF NamesAreHeld, requestVars
<1> QED BY <1>2, <1>3, <1>4, <1>6 DEF IInv

\* Nobody has a name that is not claimed yet, or that is one of the types to come.
LEMMA DeclareIInv ==
    ASSUME IInv, agenda # <<>>, NextUnit, UNCHANGED requestVars,
           claimed \subseteq claimed', typeNames' \subseteq typeNames,
           NEW N, NEW r, NEW b, Declare(N, r, b),
           \A n \in N : (n \notin claimed \/ n \in typeNames) /\ n \in claimed' \ typeNames',
           IsFiniteSet(methods'), UniqueMethods'
    PROVE  IInv'
<1>1. \A d \in declared' \ declared : d.name \in N /\ d = [name |-> d.name, ref |-> r, by |-> b]
  BY DEF Declare
<1>2. \A d \in declared' \ declared :
        /\ d.name \in claimed' \ typeNames'
        /\ \A e \in declared : e.name # d.name
        /\ \A e \in instances : e[1] # d.name
  BY <1>1 DEF IInv, NamesAreHeld
<1>3. \A d, e \in declared' \ declared : d.name = e.name => d = e
  BY <1>1
<1> QED BY <1>2, <1>3, FinishIInv

\* A unit that declares nothing at package level.
LEMMA NothingDeclaredIInv ==
    ASSUME IInv, agenda # <<>>, NextUnit,
           UNCHANGED <<claimed, typeNames, requestVars, declared>>,
           IsFiniteSet(methods'), UniqueMethods'
    PROVE  IInv'
BY FinishIInv

LEMMA MethodsUnchanged ==
    ASSUME IInv, UNCHANGED methods
    PROVE  IsFiniteSet(methods') /\ UniqueMethods'
BY DEF IInv, TypeOK, UniqueNames, UniqueMethods

LEMMA SkipIInv == IInv /\ Skip => IInv'
BY NothingDeclaredIInv, MethodsUnchanged DEF Skip, Pending, fileVars

LEMMA DropWithClassIInv == IInv /\ DropWithClass => IInv'
BY NothingDeclaredIInv, MethodsUnchanged DEF DropWithClass, fileVars

LEMMA DeclareTypeIInv == IInv /\ DeclareType => IInv'
<1> SUFFICES ASSUME IInv, DeclareType PROVE IInv'
  OBVIOUS
<1> DEFINE iid == IF Current.kind = "interface" /\ HasIID(Current.ref)
                      THEN {IID(Current.ref)} \ claimed ELSE {}
<1>1. /\ agenda # <<>> /\ NextUnit /\ UNCHANGED <<requestVars, methods>>
      /\ Current.name \in typeNames
      /\ Declare({Current.name} \cup iid, Current.ref, Id(Current))
      /\ claimed' = claimed \cup iid
      /\ typeNames' = typeNames \ {Current.name}
  BY DEF DeclareType, Ready, fileVars
<1>2. \A n \in iid : n \notin claimed
  OBVIOUS
<1> HIDE DEF iid
<1>3. typeNames \subseteq claimed
  BY DEF IInv, TypeOK
<1>4. IsFiniteSet(methods') /\ UniqueMethods'
  BY <1>1, MethodsUnchanged
<1>5. \A n \in {Current.name} \cup iid :
        (n \notin claimed \/ n \in typeNames) /\ n \in claimed' \ typeNames'
  BY <1>1, <1>2, <1>3
<1>6. claimed \subseteq claimed' /\ typeNames' \subseteq typeNames
  BY <1>1
<1> QED BY <1>1, <1>4, <1>5, <1>6, DeclareIInv

\* A declaration of one name that was not claimed.
LEMMA DeclareOneIInv ==
    ASSUME IInv, agenda # <<>>, NextUnit, UNCHANGED <<typeNames, requestVars, methods>>,
           NEW n, n \notin claimed, claimed' = claimed \cup {n},
           NEW r, NEW b, Declare({n}, r, b)
    PROVE  IInv'
<1>1. typeNames \subseteq claimed
  BY DEF IInv, TypeOK
<1>2. IsFiniteSet(methods') /\ UniqueMethods'
  BY MethodsUnchanged
<1>3. claimed \subseteq claimed' /\ typeNames' \subseteq typeNames
  OBVIOUS
<1>4. \A x \in {n} : (x \notin claimed \/ x \in typeNames) /\ x \in claimed' \ typeNames'
  BY <1>1
<1> QED BY <1>2, <1>3, <1>4, DeclareIInv

LEMMA DeclareValueIInv == IInv /\ DeclareValue => IInv'
<1> SUFFICES ASSUME IInv, DeclareValue PROVE IInv'
  OBVIOUS
<1>1. agenda # <<>> /\ NextUnit /\ UNCHANGED <<typeNames, requestVars, methods>>
  BY DEF DeclareValue, Ready, fileVars
<1>2. CASE Current.name \in claimed
  <2>1. UNCHANGED <<claimed, declared>>
    BY <1>2 DEF DeclareValue
  <2> QED BY <1>1, <2>1, NothingDeclaredIInv, MethodsUnchanged
<1>3. CASE Current.name \notin claimed
  <2>1. Declare({Current.name}, None, Id(Current)) /\ claimed' = claimed \cup {Current.name}
    BY <1>3 DEF DeclareValue
  <2> QED BY <1>1, <1>3, <2>1, DeclareOneIInv
<1> QED BY <1>2, <1>3

LEMMA DeclareMethodIInv == IInv /\ DeclareMethod => IInv'
<1> SUFFICES ASSUME IInv, DeclareMethod PROVE IInv'
  OBVIOUS
<1>1. /\ agenda # <<>> /\ NextUnit /\ UNCHANGED <<claimed, typeNames, requestVars, declared>>
      /\ EmitMethod(Suffixed(Current.owner, Current.name))
  BY DEF DeclareMethod, Ready
<1>2. Current.name \in Seq(STRING)
  BY <1>1, HeadTailProperties DEF IInv, TypeOK, UnitsOf, Current
<1>3. Suffixed(Current.owner, Current.name) \notin MethodNames(Current.owner)
  BY <1>2, SuffixedIsNew DEF IInv, TypeOK
<1> QED BY <1>1, <1>3, EmitMethodIsUnique, NothingDeclaredIInv

LEMMA DeclareClassIInv == IInv /\ DeclareClass => IInv'
<1> SUFFICES ASSUME IInv, DeclareClass PROVE IInv'
  OBVIOUS
<1>1. /\ agenda # <<>> /\ NextUnit /\ UNCHANGED <<claimed, requestVars, methods>>
      /\ Current.name \in typeNames
  BY DEF DeclareClass, Ready
<1>2. IsFiniteSet(methods') /\ UniqueMethods'
  BY <1>1, MethodsUnchanged
<1>3. typeNames \subseteq claimed
  BY DEF IInv, TypeOK
<1>4. CASE HasIID(Current.ref)
  <2>1. Declare({Current.name}, None, Id(Current)) /\ typeNames' = typeNames \ {Current.name}
    BY <1>4 DEF DeclareClass
  <2>2. claimed \subseteq claimed' /\ typeNames' \subseteq typeNames
    BY <1>1, <2>1
  <2>3. \A x \in {Current.name} :
          (x \notin claimed \/ x \in typeNames) /\ x \in claimed' \ typeNames'
    BY <1>1, <1>3, <2>1
  <2> QED BY <1>1, <1>2, <2>1, <2>2, <2>3, DeclareIInv
<1>5. CASE ~HasIID(Current.ref)
  <2>1. UNCHANGED <<declared, typeNames>>
    BY <1>5 DEF DeclareClass
  <2> QED BY <1>1, <1>2, <2>1, NothingDeclaredIInv
<1> QED BY <1>4, <1>5

LEMMA DeclareQueryIInv == IInv /\ DeclareQuery => IInv'
<1> SUFFICES ASSUME IInv, DeclareQuery PROVE IInv'
  OBVIOUS
<1> DEFINE name == <<"As">> \o Trim(Mangled[Current.ref])
<1>1. agenda # <<>> /\ NextUnit /\ UNCHANGED <<claimed, typeNames, requestVars, declared>>
  BY DEF DeclareQuery, Ready
<1>2. \/ EmitMethod(name) /\ name \notin MethodNames(Current.owner)
      \/ UNCHANGED methods
  BY DEF DeclareQuery, fileVars
<1> HIDE DEF name
<1> QED BY <1>1, <1>2, EmitMethodIsUnique, MethodsUnchanged, NothingDeclaredIInv

LEMMA DeclareStaticsIInv == IInv /\ DeclareStatics => IInv'
<1> SUFFICES ASSUME IInv, DeclareStatics PROVE IInv'
  OBVIOUS
<1>1. agenda # <<>> /\ NextUnit /\ UNCHANGED <<typeNames, requestVars, methods>>
  BY DEF DeclareStatics, Ready
<1>2. CASE HasIID(Current.ref) /\ Current.name \notin claimed
  <2>1. Declare({Current.name}, None, Id(Current)) /\ claimed' = claimed \cup {Current.name}
    BY <1>2 DEF DeclareStatics
  <2> QED BY <1>1, <1>2, <2>1, DeclareOneIInv
<1>3. CASE ~(HasIID(Current.ref) /\ Current.name \notin claimed)
  <2>1. UNCHANGED <<claimed, declared>>
    BY <1>3 DEF DeclareStatics
  <2> QED BY <1>1, <2>1, NothingDeclaredIInv, MethodsUnchanged
<1> QED BY <1>2, <1>3

LEMMA DeclareFactoryIInv == IInv /\ DeclareFactory => IInv'
<1> SUFFICES ASSUME IInv, DeclareFactory PROVE IInv'
  OBVIOUS
<1> DEFINE n == FreeName(Current)
<1>1. agenda # <<>> /\ NextUnit /\ UNCHANGED <<typeNames, requestVars, methods>>
  BY DEF DeclareFactory, Ready
<1>2. CASE ~CanWrap(Current)
  <2>1. UNCHANGED <<claimed, declared>>
    BY <1>2 DEF DeclareFactory
  <2> QED BY <1>1, <2>1, NothingDeclaredIInv, MethodsUnchanged
<1>3. CASE CanWrap(Current)
  <2>1. Declare({n}, None, Id(Current)) /\ claimed' = claimed \cup {n}
    BY <1>3 DEF DeclareFactory
  <2>2. n \notin claimed
    BY <1>3, FreeNameIsNew DEF CanWrap
  <2> HIDE DEF n
  <2> QED BY <1>1, <2>1, <2>2, DeclareOneIInv
<1> QED BY <1>2, <1>3

LEMMA AttachAwaitIInv == IInv /\ AttachAwait => IInv'
<1> SUFFICES ASSUME IInv, AttachAwait PROVE IInv'
  OBVIOUS
<1>1. agenda # <<>> /\ NextUnit /\ UNCHANGED <<claimed, typeNames, requestVars, declared>>
  BY DEF AttachAwait, Ready
<1>2. \/ EmitMethod(<<"Await">>) /\ <<"Await">> \notin MethodNames(Current.owner)
      \/ UNCHANGED methods
  BY DEF AttachAwait, fileVars
<1> QED BY <1>1, <1>2, EmitMethodIsUnique, MethodsUnchanged, NothingDeclaredIInv

\* The constructor's name was claimed before its siblings were requested.
LEMMA DeclareCollectionCtorIInv == IInv /\ DeclareCollectionCtor => IInv'
<1> SUFFICES ASSUME IInv, DeclareCollectionCtor PROVE IInv'
  OBVIOUS
<1>1. /\ agenda # <<>> /\ Current.kind = "siblings" /\ NextUnit
      /\ UNCHANGED <<claimed, typeNames, requestVars, methods>>
      /\ Declare({Current.name}, None, Id(Current))
  BY DEF DeclareCollectionCtor, Ready
<1>2. \A d \in declared' \ declared : d = [name |-> Current.name, ref |-> None, by |-> Id(Current)]
  BY <1>1 DEF Declare
<1>3. \A d \in declared' \ declared :
        /\ d.name \in claimed' \ typeNames'
        /\ \A e \in declared : e.name # d.name
        /\ \A e \in instances : e[1] # d.name
  BY <1>1, <1>2 DEF IInv, NamesAreHeld
<1>4. \A d, e \in declared' \ declared : d.name = e.name => d = e
  BY <1>2
<1> QED BY <1>1, <1>3, <1>4, FinishIInv, MethodsUnchanged

LEMMA ClaimCollectionCtorIInv == IInv /\ ClaimCollectionCtor => IInv'
<1> SUFFICES ASSUME IInv, ClaimCollectionCtor PROVE IInv'
  OBVIOUS
<1>1. /\ agenda # <<>> /\ Current.kind = "element" /\ Current.items = <<>>
      /\ UNCHANGED <<typeNames, requestVars, declared, methods>>
  BY DEF ClaimCollectionCtor, Ready, fileVars
<1>2. CASE Current.name \in claimed \/ ~\E d \in declared : d.name = IID(Current.ref)
  <2>1. UNCHANGED claimed /\ NextUnit
    BY <1>2 DEF ClaimCollectionCtor
  <2> QED BY <1>1, <2>1, NothingDeclaredIInv, MethodsUnchanged
<1>3. CASE ~(Current.name \in claimed \/ ~\E d \in declared : d.name = IID(Current.ref))
  <2> DEFINE c == [Current EXCEPT !.kind = "siblings", !.items = SiblingAsks(Current.ref)]
  <2>1. /\ Current.name \notin claimed /\ claimed' = claimed \cup {Current.name}
        /\ agenda' = <<c>> \o Tail(agenda)
        /\ UNCHANGED <<scratch, binding, inner>>
    BY <1>3 DEF ClaimCollectionCtor
  <2>2. agenda \in Seq(U)
    BY DEF IInv, TypeOK, U
  <2>3. Current \in U /\ Tail(agenda) \in Seq(U) /\ Len(Tail(agenda)) = Len(agenda) - 1
        /\ \A i \in 1..Len(Tail(agenda)) : Tail(agenda)[i] = agenda[i + 1]
    BY <1>1, <2>2, HeadTailProperties DEF Current
  <2>4. SiblingAsks(Current.ref) \in Seq(Items)
    BY <1>1, <2>3, PackageAssumption DEF U, UnitsOf
  <2>5. c \in U /\ c.name = Current.name
    BY <2>3, <2>4 DEF U, UnitsOf
  <2> HIDE DEF c
  <2>6. <<c>> \in Seq(U) /\ Len(<<c>>) = 1 /\ <<c>>[1] = c
    BY <2>5
  <2>7. Len(agenda) \in Nat /\ Len(agenda) > 0
    BY <1>1, <2>2, EmptySeq
  <2>8. /\ agenda' \in Seq(U) /\ Len(agenda') = Len(agenda) /\ agenda'[1] = c
        /\ \A i \in 2..Len(agenda) : agenda'[i] = agenda[i]
    BY <2>1, <2>3, <2>6, <2>7, ConcatProperties
  <2>9. Current' = c
    BY <2>2, <2>7, <2>8, EmptySeq DEF Current
  <2>10. binding = None
    BY <1>1 DEF IInv, NamesAreHeld
  <2>11. TypeOK'
    BY <1>1, <2>1, <2>8 DEF IInv, TypeOK, U, requestVars
  <2>12. UniqueNames' /\ NoAliases'
    BY <1>1, <2>1 DEF IInv, UniqueNames, NoAliases, requestVars
  <2>13. NamesAreHeld'
    <3>1. \A d \in declared' : d.name \in claimed' \ typeNames'
      BY <1>1, <2>1 DEF IInv, NamesAreHeld
    <3>2. \A e \in instances' : e[1] \in claimed' \ typeNames'
      BY <1>1, <2>1 DEF IInv, NamesAreHeld, requestVars
    <3>3. \A i \in 2..Len(agenda') : agenda'[i].kind # "siblings"
      BY <2>8 DEF IInv, NamesAreHeld
    <3>4. /\ Current'.name \in claimed' \ typeNames'
          /\ \A d \in declared' : d.name # Current'.name
          /\ \A e \in instances' : e[1] # Current'.name
      BY <1>1, <2>1, <2>5, <2>9 DEF IInv, TypeOK, NamesAreHeld, requestVars
    <3> QED BY <1>1, <2>1, <2>10, <3>1, <3>2, <3>3, <3>4 DEF IInv, NamesAreHeld, requestVars
  <2> QED BY <2>11, <2>12, <2>13 DEF IInv
<1> QED BY <1>2, <1>3

-----------------------------------------------------------------------------
(* Instantiations.                                                         *)

\* The name was held since it was requested, and the queue has each name once.
LEMMA BuildInstantiationIInv == IInv /\ BuildInstantiation => IInv'
<1> SUFFICES ASSUME IInv, BuildInstantiation PROVE IInv'
  OBVIOUS
<1> DEFINE r == Head(queue)
           iid == {IID(r)} \ claimed
<1>1. /\ agenda = <<>> /\ queue # <<>>
      /\ Declare({Mangled[r]} \cup iid, r, None)
      /\ claimed' = claimed \cup iid
      /\ agenda' = InstanceUnits(r)
      /\ queue' = Tail(queue)
      /\ UNCHANGED <<scratch, binding, inner, typeNames, instances, handlers, methods>>
  BY DEF BuildInstantiation, fileVars
<1>2. queue \in Seq(Instances) /\ binding = None
  BY <1>1 DEF IInv, TypeOK, NamesAreHeld
<1>3. /\ r \in Instances /\ r = queue[1] /\ 1 \in DOMAIN queue
      /\ Tail(queue) \in Seq(Instances)
      /\ \A i \in DOMAIN Tail(queue) : i + 1 \in DOMAIN queue /\ Tail(queue)[i] = queue[i + 1]
  BY <1>1, <1>2, HeadTailProperties, EmptySeq
<1>4. \A n \in iid : n \notin claimed
  OBVIOUS
<1> HIDE DEF r, iid
<1>5. /\ <<Mangled[r], r>> \in instances
      /\ \A d \in declared : d.name # Mangled[r]
      /\ \A i \in DOMAIN Tail(queue) : Mangled[Tail(queue)[i]] # Mangled[r]
  BY <1>2, <1>3 DEF IInv, NamesAreHeld
<1>6. agenda' \in Seq(UnitsOf(Kinds))
  BY <1>1, <1>3, PackageAssumption
<1>7. agenda' \in Seq(U) /\ \A i \in 1..Len(agenda') : agenda'[i].kind # "siblings"
  <2>1. UnitsOf(Kinds) \subseteq U /\ \A u \in UnitsOf(Kinds) : u.kind # "siblings"
    BY DEF U, UnitsOf, Kinds
  <2> QED BY <1>6, <2>1, SeqMonotonic, ElementOfSeq
<1>8. \A d \in declared' \ declared :
        /\ d = [name |-> d.name, ref |-> r, by |-> None]
        /\ d.name = Mangled[r] \/ d.name \in iid
  BY <1>1 DEF Declare
<1>9. typeNames \subseteq claimed
  BY DEF IInv, TypeOK
<1>10. TypeOK'
  BY <1>1, <1>3, <1>7 DEF IInv, TypeOK, U
<1>11. UniqueNames'
  <2>1. \A d \in declared' \ declared, e \in declared : d.name # e.name
    BY <1>4, <1>5, <1>8 DEF IInv, NamesAreHeld
  <2>2. \A d, e \in declared' \ declared : d.name = e.name => d = e
    BY <1>8
  <2> QED BY <1>1, <2>1, <2>2 DEF IInv, UniqueNames
<1>12. NoAliases'
  BY <1>1 DEF IInv, NoAliases
<1>13. NamesAreHeld'
  <2>1. \A d \in declared' : d.name \in claimed' \ typeNames'
    <3>1. \A d \in declared : d.name \in claimed \ typeNames
      BY DEF IInv, NamesAreHeld
    <3>2. Mangled[r] \in claimed \ typeNames
      BY <1>5 DEF IInv, NamesAreHeld
    <3> QED BY <1>1, <1>4, <1>8, <1>9, <3>1, <3>2
  <2>2. \A e \in instances' : e[1] \in claimed' \ typeNames'
    BY <1>1 DEF IInv, NamesAreHeld
  <2>3. \A i \in DOMAIN queue' :
          /\ <<Mangled[queue'[i]], queue'[i]>> \in instances'
          /\ \A d \in declared' : d.name # Mangled[queue'[i]]
          /\ \A j \in DOMAIN queue' : Mangled[queue'[i]] = Mangled[queue'[j]] => i = j
    <3> SUFFICES ASSUME NEW i \in DOMAIN Tail(queue)
                 PROVE  /\ <<Mangled[queue'[i]], queue'[i]>> \in instances'
                        /\ \A d \in declared' : d.name # Mangled[queue'[i]]
                        /\ \A j \in DOMAIN queue' : Mangled[queue'[i]] = Mangled[queue'[j]] => i = j
      BY <1>1
    <3>0. i + 1 \in DOMAIN queue /\ queue'[i] = queue[i + 1]
      BY <1>1, <1>3
    <3>1. <<Mangled[queue'[i]], queue'[i]>> \in instances'
      BY <1>1, <3>0 DEF IInv, NamesAreHeld
    <3>2. Mangled[queue'[i]] \in claimed
      BY <1>1, <3>1 DEF IInv, NamesAreHeld
    <3>3. \A d \in declared' : d.name # Mangled[queue'[i]]
      <4>1. \A d \in declared : d.name # Mangled[queue[i + 1]]
        BY <3>0 DEF IInv, NamesAreHeld
      <4> QED BY <1>1, <1>4, <1>5, <1>8, <3>0, <3>2, <4>1
    <3>4. \A j \in DOMAIN Tail(queue) : Mangled[queue'[i]] = Mangled[queue'[j]] => i = j
      <4> TAKE j \in DOMAIN Tail(queue)
      <4>1. j + 1 \in DOMAIN queue /\ queue'[j] = queue[j + 1]
        BY <1>1, <1>3
      <4>2. Mangled[queue[i + 1]] = Mangled[queue[j + 1]] => i + 1 = j + 1
        BY <3>0, <4>1 DEF IInv, NamesAreHeld
      <4>3. i \in Nat /\ j \in Nat
        BY <1>3, LenProperties
      <4> QED BY <3>0, <4>1, <4>2, <4>3
    <3> QED BY <1>1, <3>1, <3>3, <3>4
  <2>4. agenda' # <<>> => Current'.kind # "siblings"
    BY <1>7, EmptySeq DEF Current
  <2>5. \A e \in handlers' : e[1] \in claimed'
    BY <1>1 DEF IInv, NamesAreHeld
  <2> QED BY <1>1, <1>2, <1>7, <2>1, <2>2, <2>3, <2>4, <2>5 DEF NamesAreHeld
<1> QED BY <1>10, <1>11, <1>12, <1>13 DEF IInv

-----------------------------------------------------------------------------
(* Resolving.                                                              *)

LEMMA ResolvedKeeps ==
    ASSUME IInv, Pending, Resolved
    PROVE  /\ agenda' \in Seq(U) /\ agenda' # <<>>
           /\ \A i \in 2..Len(agenda') : agenda'[i].kind # "siblings"
           /\ Current'.kind = Current.kind /\ Current'.name = Current.name
           /\ Want \in Items /\ scratch' = scratch \cup {Want}
           /\ inner' \in Seq(Refs) /\ binding' = binding
           /\ binding # None => agenda' = agenda
<1>1. agenda \in Seq(U) /\ inner \in Seq(Refs) /\ agenda # <<>>
  BY DEF IInv, TypeOK, U, Pending
<1>2. scratch' = scratch \cup {Want} /\ binding' = binding
  BY DEF Resolved
<1>3. CASE binding = None
  <2>1. Current.items # <<>> /\ NextItem /\ UNCHANGED inner
    BY <1>3 DEF Pending, Resolved
  <2>2. Current \in U
    BY <1>1, HeadTailProperties DEF Current
  <2>3. Head(Current.items) \in Items
    BY <2>1, <2>2, HeadTailProperties DEF U, UnitsOf
  <2> QED BY <1>1, <1>2, <1>3, <2>1, <2>3, NextItemKeeps DEF Want
<1>4. CASE binding # None
  <2>1. inner # <<>> /\ inner' = Tail(inner) /\ UNCHANGED agenda
    BY <1>4 DEF Pending, Resolved
  <2>2. Head(inner) \in Refs /\ Tail(inner) \in Seq(Refs)
    BY <1>1, <2>1, HeadTailProperties
  <2>3. Want \in Items
    BY <1>4, <2>2 DEF Want, Asks, Items, Positions
  <2> QED BY <1>1, <1>2, <2>1, <2>2, <2>3 DEF IInv, NamesAreHeld, Current
<1> QED BY <1>3, <1>4

\* What is resolved without a new name.
LEMMA ResolveKnownIInv ==
    ASSUME IInv, Pending, Resolved,
           UNCHANGED <<claimed, typeNames, requestVars, declared, methods>>,
           Want.ref.kind = "instance" => <<Mangled[Want.ref], Want.ref>> \in instances,
           Want.ref.kind = "delegate" => <<Mangled[Want.ref], Want.ref>> \in handlers
    PROVE  IInv'
<1>1. /\ agenda' \in Seq(U) /\ agenda' # <<>>
      /\ \A i \in 2..Len(agenda') : agenda'[i].kind # "siblings"
      /\ Current'.kind = Current.kind /\ Current'.name = Current.name
      /\ Want \in Items /\ scratch' = scratch \cup {Want}
      /\ inner' \in Seq(Refs) /\ binding' = binding
      /\ binding # None => agenda' = agenda
  BY ResolvedKeeps
<1>2. agenda # <<>>
  BY DEF Pending
<1> HIDE DEF U
<1>3. TypeOK'
  BY <1>1 DEF IInv, TypeOK, U, requestVars
<1>4. UniqueNames'
  BY DEF IInv, UniqueNames
<1>5. NoAliases'
  BY <1>1 DEF IInv, NoAliases, requestVars
<1>6. NamesAreHeld'
  BY <1>1, <1>2 DEF IInv, NamesAreHeld, requestVars, Current
<1> QED BY <1>3, <1>4, <1>5, <1>6 DEF IInv

LEMMA ResolveDeclaredIInv == IInv /\ ResolveDeclared => IInv'
<1> SUFFICES ASSUME IInv, ResolveDeclared PROVE IInv'
  OBVIOUS
<1>1. /\ Pending /\ Resolved
      /\ UNCHANGED <<claimed, typeNames, requestVars, declared, methods>>
      /\ Want.ref.kind # "instance" /\ Want.ref.kind # "delegate"
  BY DEF ResolveDeclared, fileVars
<1> QED BY <1>1, ResolveKnownIInv

LEMMA ReuseHandlerIInv == IInv /\ ReuseHandler => IInv'
<1> SUFFICES ASSUME IInv, ReuseHandler PROVE IInv'
  OBVIOUS
<1>1. /\ Pending /\ Resolved /\ Accepts(Want) /\ NameSeen(handlers, Want.ref)
      /\ UNCHANGED <<claimed, typeNames, requestVars, declared, methods>>
      /\ Want.ref.kind = "delegate"
  BY DEF ReuseHandler, fileVars
<1>2. <<Mangled[Want.ref], Want.ref>> \in handlers
  BY <1>1 DEF Accepts, CanHandle
<1> QED BY <1>1, <1>2, ResolveKnownIInv

\* A name that is new is free; a name that is not means the same instantiation.
LEMMA RequestInstantiationIInv == IInv /\ RequestInstantiation => IInv'
<1> SUFFICES ASSUME IInv, RequestInstantiation PROVE IInv'
  OBVIOUS
<1> DEFINE r == Want.ref
           e == <<Mangled[r], r>>
<1>1. /\ Pending /\ Resolved /\ r.kind = "instance" /\ CanInstantiate(r)
      /\ claimed' = claimed \cup {Mangled[r]}
      /\ instances' = instances \cup {e}
      /\ queue' = IF NameSeen(instances, r) THEN queue ELSE Append(queue, r)
      /\ UNCHANGED <<typeNames, handlers, declared, methods>>
  BY DEF RequestInstantiation, Accepts, fileVars
<1>2. /\ agenda' \in Seq(U) /\ agenda' # <<>>
      /\ \A i \in 2..Len(agenda') : agenda'[i].kind # "siblings"
      /\ Current'.kind = Current.kind /\ Current'.name = Current.name
      /\ Want \in Items /\ scratch' = scratch \cup {Want}
      /\ inner' \in Seq(Refs) /\ binding' = binding
      /\ binding # None => agenda' = agenda
  BY <1>1, ResolvedKeeps
<1>3. r \in Instances
  BY <1>1, <1>2 DEF Items, Instances
<1> HIDE DEF r
<1>4. CASE NameSeen(instances, r)
  <2>1. e \in instances
    BY <1>1, <1>4 DEF CanInstantiate
  <2>2. instances' = instances /\ queue' = queue
    BY <1>1, <1>4, <2>1
  <2>3. claimed' = claimed
    BY <1>1, <2>1 DEF IInv, NamesAreHeld
  <2>4. Want.ref.kind = "instance" => <<Mangled[Want.ref], Want.ref>> \in instances
    BY <2>1 DEF r
  <2>5. Want.ref.kind # "delegate"
    BY <1>1 DEF r
  <2> QED BY <1>1, <2>2, <2>3, <2>4, <2>5, ResolveKnownIInv DEF requestVars
<1>5. CASE ~NameSeen(instances, r)
  <2>1. Mangled[r] \notin claimed
    BY <1>1, <1>5 DEF CanInstantiate
  <2>2. queue \in Seq(Instances) /\ typeNames \subseteq claimed
    BY DEF IInv, TypeOK
  <2>3. /\ queue' \in Seq(Instances)
        /\ DOMAIN queue' = DOMAIN queue \cup {Len(queue) + 1}
        /\ queue'[Len(queue) + 1] = r
        /\ \A i \in DOMAIN queue : queue'[i] = queue[i]
    BY <1>1, <1>3, <1>5, <2>2, AppendProperties
  <2>4. \A i \in DOMAIN queue : Mangled[queue[i]] # Mangled[r]
    <3>1. \A i \in DOMAIN queue : <<Mangled[queue[i]], queue[i]>> \in instances
      BY DEF IInv, NamesAreHeld
    <3> QED BY <1>5, <3>1 DEF NameSeen
  <2>5. TypeOK'
    BY <1>1, <1>2, <1>3, <2>2, <2>3 DEF IInv, TypeOK, U
  <2>6. UniqueNames'
    BY <1>1 DEF IInv, UniqueNames
  <2>7. NoAliases'
    <3>1. \A f \in instances : f[1] # e[1]
      BY <1>5 DEF NameSeen
    <3>2. \A f, g \in instances' : f[1] = g[1] => f = g
      BY <1>1, <3>1 DEF IInv, NoAliases
    <3>3. \A i \in scratch' :
            /\ i.ref.kind = "instance" => <<Mangled[i.ref], i.ref>> \in instances'
            /\ i.ref.kind = "delegate" => <<Mangled[i.ref], i.ref>> \in handlers'
      BY <1>1, <1>2 DEF IInv, NoAliases, r
    <3> QED BY <1>1, <3>2, <3>3 DEF IInv, NoAliases
  <2>8. NamesAreHeld'
    <3>1. \A d \in declared' : d.name \in claimed' \ typeNames'
      BY <1>1 DEF IInv, NamesAreHeld
    <3>2. \A f \in instances' : f[1] \in claimed' \ typeNames'
      BY <1>1, <2>1, <2>2 DEF IInv, NamesAreHeld
    <3>3. \A i \in DOMAIN queue' :
            /\ <<Mangled[queue'[i]], queue'[i]>> \in instances'
            /\ \A d \in declared' : d.name # Mangled[queue'[i]]
            /\ \A j \in DOMAIN queue' : Mangled[queue'[i]] = Mangled[queue'[j]] => i = j
      BY <1>1, <2>1, <2>3, <2>4 DEF IInv, NamesAreHeld
    <3>4. binding' # None =>
            /\ HandlerNames(binding') \cap claimed' = {}
            /\ agenda' # <<>> /\ Current'.items # <<>> /\ Head(Current'.items).ref = binding'
      <4>1. binding \in Delegates \cup {None}
        BY DEF IInv, TypeOK
      <4>2. binding # None => Mangled[r] \notin HandlerNames(binding)
        BY <1>3, <4>1, PackageAssumption
      <4> QED BY <1>1, <1>2, <4>2 DEF IInv, NamesAreHeld, Current
    <3>5. Current'.kind = "siblings" =>
            /\ Current'.name \in claimed' \ typeNames'
            /\ \A d \in declared' : d.name # Current'.name
            /\ \A f \in instances' : f[1] # Current'.name
      <4>1. agenda # <<>>
        BY <1>1 DEF Pending
      <4> QED BY <1>1, <1>2, <2>1, <4>1 DEF IInv, NamesAreHeld
    <3>6. \A f \in handlers' : f[1] \in claimed'
      BY <1>1 DEF IInv, NamesAreHeld
    <3> QED BY <1>2, <3>1, <3>2, <3>3, <3>4, <3>5, <3>6 DEF NamesAreHeld
  <2> QED BY <2>5, <2>6, <2>7, <2>8 DEF IInv
<1> QED BY <1>4, <1>5

\* The names of the handler are free while its parameters are adapted.
LEMMA BeginHandlerIInv == IInv /\ BeginHandler => IInv'
<1> SUFFICES ASSUME IInv, BeginHandler PROVE IInv'
  OBVIOUS
<1>1. /\ Pending /\ Want.ref.kind = "delegate" /\ Accepts(Want)
      /\ ~NameSeen(handlers, Want.ref)
      /\ binding' = Want.ref /\ inner' = Adapted(Want.ref)
      /\ UNCHANGED <<agenda, scratch, claimed, typeNames, requestVars, declared, methods>>
  BY DEF BeginHandler, fileVars
<1>2. /\ Want.as \in {"param", "event"} /\ HandlerNames(Want.ref) \cap claimed = {}
  BY <1>1 DEF Accepts, CanHandle
<1>3. binding = None
  BY <1>2 DEF Want, Asks
<1>4. agenda # <<>> /\ Current.items # <<>> /\ Want = Head(Current.items)
  BY <1>1, <1>3 DEF Pending, Want
<1>5. Want \in Items
  <2>1. Current \in U
    BY <1>4, HeadTailProperties DEF IInv, TypeOK, U, Current
  <2> QED BY <1>4, <2>1, HeadTailProperties DEF U, UnitsOf
<1>6. Want.ref \in Delegates
  BY <1>1, <1>5 DEF Items, Delegates
<1>7. TypeOK'
  BY <1>1, <1>6, PackageAssumption DEF IInv, TypeOK, requestVars
<1>8. UniqueNames' /\ NoAliases'
  BY <1>1 DEF IInv, UniqueNames, NoAliases, requestVars
<1>9. NamesAreHeld'
  BY <1>1, <1>2, <1>4 DEF IInv, NamesAreHeld, requestVars, Current
<1> QED BY <1>7, <1>8, <1>9 DEF IInv

\* It takes them when it is done.
LEMMA BindHandlerIInv == IInv /\ BindHandler => IInv'
<1> SUFFICES ASSUME IInv, BindHandler PROVE IInv'
  OBVIOUS
<1> DEFINE N == HandlerNames(binding)
           e == <<Mangled[binding], binding>>
           first == Head(Current.items)
<1>1. /\ agenda # <<>> /\ binding # None /\ NextItem
      /\ scratch' \subseteq scratch \cup {first}
      /\ claimed' = claimed \cup N
      /\ declared' = declared \cup {[name |-> n, ref |-> binding, by |-> None] : n \in N}
      /\ handlers' = handlers \cup {e}
      /\ binding' = None
      /\ inner = <<>> /\ UNCHANGED <<inner, typeNames, instances, queue, methods>>
  BY DEF BindHandler
<1>2. /\ Current.items # <<>> /\ first.ref = binding /\ N \cap claimed = {}
  BY <1>1 DEF IInv, NamesAreHeld
<1>3. /\ agenda' \in Seq(U) /\ agenda' # <<>>
      /\ \A i \in 2..Len(agenda') : agenda'[i].kind # "siblings"
      /\ Current'.kind = Current.kind /\ Current'.name = Current.name
  BY <1>1, <1>2, NextItemKeeps
<1>4. first \in Items
  <2>1. Current \in U
    BY <1>1, HeadTailProperties DEF IInv, TypeOK, U, Current
  <2> QED BY <1>2, <2>1, HeadTailProperties DEF U, UnitsOf
<1>5. binding \in Delegates /\ typeNames \subseteq claimed
  BY <1>1 DEF IInv, TypeOK
<1>6. Mangled[binding] \in N
  BY DEF HandlerNames
<1> HIDE DEF N, first
<1>7. \A d \in declared' \ declared :
        d = [name |-> d.name, ref |-> binding, by |-> None] /\ d.name \in N
  BY <1>1
<1>8. TypeOK'
  BY <1>1, <1>3, <1>4, <1>5 DEF IInv, TypeOK, U
<1>9. UniqueNames'
  <2>1. \A d \in declared : d.name \notin N
    BY <1>2 DEF IInv, NamesAreHeld
  <2> QED BY <1>1, <1>7, <2>1 DEF IInv, UniqueNames
<1>10. NoAliases'
  <2>1. \A f \in handlers : f[1] # Mangled[binding]
    <3>1. \A f \in handlers : f[1] \in claimed
      BY DEF IInv, NamesAreHeld
    <3> QED BY <1>2, <1>6, <3>1
  <2>2. \A f, g \in handlers' : f[1] = g[1] => f = g
    BY <1>1, <2>1 DEF IInv, NoAliases
  <2>3. \A i \in scratch' :
          /\ i.ref.kind = "instance" => <<Mangled[i.ref], i.ref>> \in instances'
          /\ i.ref.kind = "delegate" => <<Mangled[i.ref], i.ref>> \in handlers'
    BY <1>1, <1>2, <1>5 DEF IInv, NoAliases, Delegates
  <2> QED BY <1>1, <2>2, <2>3 DEF IInv, NoAliases
<1>11. NamesAreHeld'
  <2>1. \A d \in declared' : d.name \in claimed' \ typeNames'
    BY <1>1, <1>2, <1>5, <1>7 DEF IInv, NamesAreHeld
  <2>2. \A f \in instances' : f[1] \in claimed' \ typeNames'
    BY <1>1, <1>2, <1>5 DEF IInv, NamesAreHeld
  <2>3. \A f \in handlers' : f[1] \in claimed'
    BY <1>1, <1>6 DEF IInv, NamesAreHeld
  <2>4. \A i \in DOMAIN queue' :
          /\ <<Mangled[queue'[i]], queue'[i]>> \in instances'
          /\ \A d \in declared' : d.name # Mangled[queue'[i]]
          /\ \A j \in DOMAIN queue' : Mangled[queue'[i]] = Mangled[queue'[j]] => i = j
    <3> SUFFICES ASSUME NEW i \in DOMAIN queue
                 PROVE  \A d \in declared' : d.name # Mangled[queue[i]]
      BY <1>1 DEF IInv, NamesAreHeld
    <3>1. Mangled[queue[i]] \in claimed /\ \A d \in declared : d.name # Mangled[queue[i]]
      BY DEF IInv, NamesAreHeld
    <3> QED BY <1>2, <1>7, <3>1
  <2>5. Current'.kind = "siblings" =>
          /\ Current'.name \in claimed' \ typeNames'
          /\ \A d \in declared' : d.name # Current'.name
          /\ \A f \in instances' : f[1] # Current'.name
    BY <1>1, <1>2, <1>3, <1>7 DEF IInv, NamesAreHeld
  <2> QED BY <1>1, <1>3, <2>1, <2>2, <2>3, <2>4, <2>5 DEF NamesAreHeld
<1> QED BY <1>8, <1>9, <1>10, <1>11 DEF IInv

-----------------------------------------------------------------------------
LEMMA InitIInv == Init => IInv
<1> SUFFICES ASSUME Init PROVE IInv
  OBVIOUS
<1>1. agenda \in Seq(UnitsOf(Kinds))
  BY PackageAssumption DEF Init
<1>2. agenda \in Seq(U) /\ \A i \in 1..Len(agenda) : agenda[i].kind # "siblings"
  <2>1. UnitsOf(Kinds) \subseteq U /\ \A u \in UnitsOf(Kinds) : u.kind # "siblings"
    BY DEF U, UnitsOf, Kinds
  <2> QED BY <1>1, <2>1, SeqMonotonic, ElementOfSeq
<1>3. agenda # <<>> => Current.kind # "siblings"
  BY <1>2, EmptySeq DEF Current
<1>4. TypeOK
  BY <1>2, FS_EmptySet DEF Init, TypeOK, U
<1>5. UniqueNames /\ NoAliases
  BY DEF Init, UniqueNames, NoAliases
<1>6. NamesAreHeld
  BY <1>2, <1>3 DEF Init, NamesAreHeld
<1> QED BY <1>4, <1>5, <1>6 DEF IInv

LEMMA NextIInv == IInv /\ [Next]_vars => IInv'
<1> SUFFICES ASSUME IInv, [Next]_vars PROVE IInv'
  OBVIOUS
<1>1. CASE Finish
  BY <1>1, DeclareTypeIInv, DeclareValueIInv, DeclareMethodIInv, DeclareClassIInv,
     DropWithClassIInv, DeclareQueryIInv, DeclareStaticsIInv, DeclareFactoryIInv,
     BuildInstantiationIInv, AttachAwaitIInv, ClaimCollectionCtorIInv,
     DeclareCollectionCtorIInv DEF Finish
<1>2. CASE ResolveDeclared \/ RequestInstantiation \/ ReuseHandler \/ BeginHandler
           \/ BindHandler \/ Skip
  BY <1>2, ResolveDeclaredIInv, RequestInstantiationIInv, ReuseHandlerIInv,
     BeginHandlerIInv, BindHandlerIInv, SkipIInv
<1>3. CASE UNCHANGED vars
  BY <1>3 DEF vars, IInv, TypeOK, UniqueNames, NoAliases, NamesAreHeld, Current
<1> QED BY <1>1, <1>2, <1>3 DEF Next

\* Everything the uniqueness of names rests on is true of every namespace, whatever
\* its members request of one another (generator.go, claimedNames and pinstByName).
THEOREM AlwaysIInv == Spec => []IInv
<1>1. Init => IInv
  BY InitIInv
<1>2. IInv /\ [Next]_vars => IInv'
  BY NextIInv
<1> QED BY <1>1, <1>2, PTL DEF Spec

\* No identifier is declared twice in a package, and no method twice on a type,
\* though types, IIDs, members, constructors, handlers and instantiations claim their
\* names at different times.
THEOREM AlwaysUniqueNames == Spec => []UniqueNames
<1>1. IInv => UniqueNames
  BY DEF IInv
<1> QED BY <1>1, AlwaysIInv, PTL

\* A mangled name, which leaves the namespaces of the arguments out, means one type
\* to whoever resolves it (pinterfaces.go, requestInstantiation).
THEOREM AlwaysNoAliases == Spec => []NoAliases
<1>1. IInv => NoAliases
  BY DEF IInv
<1> QED BY <1>1, AlwaysIInv, PTL

-----------------------------------------------------------------------------
(* The agenda: its units stay as they were made.                           *)

\* The units of an instantiation are its methods, its Await and its constructor.
LEMMA UnitsOfInstance ==
    ASSUME NEW r \in Instances
    PROVE  /\ InstanceUnits(r) \in Seq(U)
           /\ \A i \in DOMAIN InstanceUnits(r) :
                LET u == InstanceUnits(r)[i] IN
                /\ WellFormed(u) /\ AsksForTarget(u)
                /\ u.kind \in {"method", "await", "element"}
                /\ u.kind = "element" => u.ref = r
<1> DEFINE ms == Opens[r.name]
           grounded == [i \in DOMAIN ms |->
                [ms[i] EXCEPT !.returns = IF @ = None THEN None ELSE Ground(@, r.args),
                              !.params = [p \in DOMAIN @ |-> Ground(@[p], r.args)]]]
           methodUnits == MethodUnits("pinterfaces", r, grounded)
           await == Unit("await", "pinterfaces", Mangled[r], <<"Await">>, 0, r,
                         <<Asks(AsyncInfo, "param")>>)
           element == Unit("element", "pinterfaces", Mangled[r], Ctor(r), 0, r,
                           <<Asks(r.args[1], "element")>>)
           awaits == IF r.name \notin AsyncOpens THEN <<>> ELSE <<await>>
           elements == IF r.name \notin DOMAIN Siblings THEN <<>> ELSE <<element>>
           Methods == {u \in {methodUnits[i] : i \in DOMAIN methodUnits} : u.kind = "method"}
           All == Methods \cup {await, element}
<1>1. InstanceUnits(r) = methodUnits \o awaits \o elements
  BY DEF InstanceUnits
<1>2. methodUnits \in Seq(All)
  <2>1. ms \in Seq(OpenMethods)
    BY PackageAssumption
  <2>2. DOMAIN ms = 1..Len(ms) /\ Len(ms) \in Nat
    BY <2>1
  <2>3. DOMAIN grounded = 1..Len(ms)
    BY <2>2
  <2> HIDE DEF grounded, ms
  <2>4. DOMAIN methodUnits = 1..Len(ms)
    BY <2>3 DEF MethodUnits
  <2>5. \A i \in 1..Len(ms) : methodUnits[i] \in Methods
    BY <2>3, <2>4 DEF MethodUnits, Unit
  <2>6. methodUnits = [i \in 1..Len(ms) |-> methodUnits[i]]
    BY <2>4 DEF MethodUnits
  <2> HIDE DEF methodUnits, Methods
  <2>7. methodUnits \in [1..Len(ms) -> All]
    BY <2>5, <2>6
  <2> HIDE DEF All
  <2> QED BY <2>2, <2>7
<1>3. awaits \in Seq(All) /\ elements \in Seq(All)
  <2>1. await \in All /\ element \in All
    OBVIOUS
  <2> HIDE DEF await, element, All
  <2> QED BY <2>1
<1>4. \A u \in All :
        /\ WellFormed(u) /\ AsksForTarget(u)
        /\ u.kind \in {"method", "await", "element"}
        /\ u.kind = "element" => u.ref = r
  <2>1. \A u \in Methods : u.kind = "method"
    OBVIOUS
  <2>2. await.kind = "await" /\ await.file = "pinterfaces" /\ await.items = <<Asks(AsyncInfo, "param")>>
    BY DEF Unit
  <2>3. element.kind = "element" /\ element.ref = r /\ NotAnIID(element.name)
    BY AgendaAssumption DEF Unit, Ctor, NotAnIID, Instances
  <2> HIDE DEF Methods, await, element
  <2> QED BY <2>1, <2>2, <2>3 DEF WellFormed, AsksForTarget, Target, Positions
<1> HIDE DEF All, methodUnits, awaits, elements
<1>5. InstanceUnits(r) \in Seq(All)
  BY <1>1, <1>2, <1>3, ConcatProperties
<1>6. UnitsOf(Kinds) \subseteq U
  BY DEF U, UnitsOf, Kinds
<1>7. InstanceUnits(r) \in Seq(U)
  BY <1>6, PackageAssumption, SeqMonotonic
<1> QED BY <1>4, <1>5, <1>7, ElementOfSeq

LEMMA InitFormed == Init => AgendaIsFormed
<1> SUFFICES ASSUME Init PROVE AgendaIsFormed
  OBVIOUS
<1>1. agenda = Agenda(meta) /\ meta \in Metadata /\ agenda \in Seq(UnitsOf(Kinds))
  BY PackageAssumption DEF Init
<1>2. agenda # <<>> => Current = agenda[1] /\ 1 \in DOMAIN agenda
  BY <1>1, EmptySeq DEF Current
<1> QED BY <1>1, <1>2, AgendaAssumption, LenProperties DEF AgendaIsFormed

\* The next unit has resolved nothing yet.
LEMMA NextUnitFormed ==
    ASSUME IInv, AgendaIsFormed, agenda # <<>>, NextUnit
    PROVE  /\ AgendaIsFormed'
           /\ \A i \in DOMAIN agenda' : i + 1 \in DOMAIN agenda /\ agenda'[i] = agenda[i + 1]
           /\ \A i \in DOMAIN agenda : i = 1 \/ (i - 1 \in DOMAIN agenda' /\ agenda'[i - 1] = agenda[i])
           /\ Current = agenda[1] /\ 1 \in DOMAIN agenda
<1>1. agenda \in Seq(U)
  BY DEF IInv, TypeOK, U
<1>2. agenda' \in Seq(U) /\ agenda' = Tail(agenda) /\ Len(agenda) \in Nat /\ Len(agenda) > 0
  BY <1>1, NextUnitKeeps, EmptySeq DEF NextUnit
<1>3. /\ Len(agenda') = Len(agenda) - 1
      /\ \A i \in 1..Len(agenda') : agenda'[i] = agenda[i + 1]
  BY <1>1, <1>2, HeadTailProperties
<1>4. DOMAIN agenda = 1..Len(agenda) /\ DOMAIN agenda' = 1..Len(agenda')
  BY <1>1, <1>2
<1>5. \A i \in DOMAIN agenda' : i + 1 \in 2..Len(agenda) /\ agenda'[i] = agenda[i + 1]
  BY <1>2, <1>3, <1>4
<1>6. \A i \in DOMAIN agenda : i = 1 \/ (i - 1 \in DOMAIN agenda' /\ agenda'[i - 1] = agenda[i])
  BY <1>2, <1>3, <1>4
<1>7. agenda' # <<>> => Current' = agenda'[1] /\ 1 \in DOMAIN agenda'
  BY <1>2, EmptySeq DEF Current
<1>8. Current = agenda[1] /\ 1 \in DOMAIN agenda
  BY <1>1, EmptySeq DEF Current
<1>9. AgendaIsFormed'
  <2>1. \A i \in DOMAIN agenda' : i + 1 \in DOMAIN agenda
    BY <1>2, <1>4, <1>5
  <2>2. \A i \in DOMAIN agenda' : WellFormed(agenda'[i]) /\ AsksForTarget(agenda'[i])
    BY <1>5, <2>1 DEF AgendaIsFormed
  <2>3. \A i \in DOMAIN agenda' : agenda'[i].kind \in {"ctor", "query"} =>
            \A j \in DOMAIN agenda' :
                agenda'[j].kind = "class" /\ agenda'[j].name = agenda'[i].owner => j < i
    <3> SUFFICES ASSUME NEW i \in DOMAIN agenda', NEW j \in DOMAIN agenda',
                        agenda'[i].kind \in {"ctor", "query"},
                        agenda'[j].kind = "class", agenda'[j].name = agenda'[i].owner
                 PROVE  j < i
      OBVIOUS
    <3>1. j + 1 < i + 1
      BY <1>5, <2>1 DEF AgendaIsFormed
    <3> QED BY <1>4, <3>1
  <2>4. \A i \in 2..Len(agenda') : i \in DOMAIN agenda'
    BY <1>4
  <2> QED BY <1>7, <2>2, <2>3, <2>4 DEF AgendaIsFormed
<1> QED BY <1>4, <1>5, <1>6, <1>8, <1>9

\* What the unit under way has asked for is in the scratch set.
LEMMA NextItemFormed ==
    ASSUME IInv, AgendaIsFormed, agenda # <<>>, Current.items # <<>>, NextItem,
           Head(Current.items) \in scratch'
    PROVE  /\ AgendaIsFormed'
           /\ DOMAIN agenda' = DOMAIN agenda
           /\ \A i \in DOMAIN agenda : agenda'[i] = [agenda[i] EXCEPT !.items = agenda'[i].items]
           /\ Current.kind # "interface"
           /\ \A i \in DOMAIN agenda : agenda[i].kind = "interface" => agenda'[i] = agenda[i]
<1>1. agenda \in Seq(U) /\ agenda' \in Seq(U) /\ agenda' # <<>>
  BY NextItemKeeps DEF IInv, TypeOK, U
<1>2. /\ Len(agenda') = Len(agenda) /\ Len(agenda) \in Nat
      /\ \A i \in 2..Len(agenda) : agenda'[i] = agenda[i]
      /\ Current' = [Current EXCEPT !.items = Tail(@)] /\ agenda'[1] = Current'
  BY <1>1, NextItemKeeps
<1>3. /\ DOMAIN agenda = 1..Len(agenda) /\ DOMAIN agenda' = 1..Len(agenda)
      /\ Current = agenda[1] /\ 1 \in DOMAIN agenda
  BY <1>1, <1>2, EmptySeq DEF Current
<1>4. Current \in U
  BY <1>1, <1>3, ElementOfSeq
<1>5. /\ Current' = [Current EXCEPT !.items = Current'.items]
      /\ Current'.items = Tail(Current.items)
  BY <1>2, <1>4 DEF U, UnitsOf
<1>6. \A i \in DOMAIN agenda : i = 1 \/ (i \in 2..Len(agenda) /\ agenda'[i] = agenda[i])
  BY <1>2, <1>3
<1>7. \A i \in DOMAIN agenda : agenda'[i] = [agenda[i] EXCEPT !.items = agenda'[i].items]
  <2>1. \A i \in DOMAIN agenda : agenda[i] \in U
    BY <1>1, ElementOfSeq
  <2>2. \A u \in U : u = [u EXCEPT !.items = u.items]
    BY DEF U, UnitsOf
  <2> QED BY <1>2, <1>3, <1>5, <1>6, <2>1, <2>2
<1>8. WellFormed(Current) /\ AsksForTarget(Current)
  BY <1>3 DEF AgendaIsFormed
<1>9. Current.kind # "interface"
  BY <1>8 DEF WellFormed
<1>10. /\ Current'.kind = Current.kind /\ Current'.name = Current.name
       /\ Current'.file = Current.file /\ Current'.ref = Current.ref
       /\ Current'.owner = Current.owner
  BY <1>4, <1>5 DEF U, UnitsOf
<1>11. \A i \in DOMAIN agenda :
        agenda'[i].kind = agenda[i].kind /\ agenda'[i].name = agenda[i].name
        /\ agenda'[i].owner = agenda[i].owner
  BY <1>2, <1>3, <1>6, <1>10
<1>12. AgendaIsFormed'
  <2>1. WellFormed(Current')
    BY <1>8, <1>9, <1>10 DEF WellFormed
  <2>2. \A i \in DOMAIN agenda' : WellFormed(agenda'[i])
    BY <1>2, <1>3, <1>6, <2>1 DEF AgendaIsFormed
  <2>3. AsksForTarget(Current') \/ (Current'.items = <<>> /\ \E i \in scratch' : i.ref = Target(Current'))
    <3>1. Target(Current') = Target(Current)
      BY <1>10 DEF Target
    <3>2. CASE Current.kind \in {"class", "query", "static", "await"}
      <4>1. PICK as \in Positions : Current.items = <<Asks(Target(Current), as)>>
        BY <1>8, <3>2 DEF AsksForTarget
      <4>2. Head(Current.items).ref = Target(Current) /\ Tail(Current.items) = <<>>
        BY <4>1 DEF Asks
      <4> QED BY <1>5, <3>1, <4>2
    <3>3. CASE Current.kind \notin {"class", "query", "static", "await"}
      BY <1>10, <3>3 DEF AsksForTarget
    <3> QED BY <3>2, <3>3
  <2>4. \A i \in 2..Len(agenda') : AsksForTarget(agenda'[i])
    BY <1>2 DEF AgendaIsFormed
  <2>5. \A i \in DOMAIN agenda' : agenda'[i].kind \in {"ctor", "query"} =>
            \A j \in DOMAIN agenda' :
                agenda'[j].kind = "class" /\ agenda'[j].name = agenda'[i].owner => j < i
    BY <1>3, <1>11 DEF AgendaIsFormed
  <2> QED BY <1>1, <2>2, <2>3, <2>4, <2>5 DEF AgendaIsFormed
<1> QED BY <1>3, <1>7, <1>9, <1>12, <1>6

\* A step that finishes no unit leaves every unit on the agenda, but for what the
\* first one asks for and for a constructor that waits for its siblings.
AgendaStands ==
    /\ Upcoming' = Upcoming
    /\ \A v \in ToSet(agenda') : \E u \in ToSet(agenda) :
        /\ u.ref = v.ref /\ u.name = v.name
        /\ \/ u.kind = v.kind
           \/ u.kind = "element" /\ v.kind = "siblings"
    /\ \A u \in ToSet(agenda) : u.kind = "element" \/ \E v \in ToSet(agenda') : Id(v) = Id(u)

LEMMA UnchangedStands ==
    ASSUME UNCHANGED agenda
    PROVE  AgendaStands
<1>1. ToSet(agenda') = ToSet(agenda)
  OBVIOUS
<1>2. Upcoming' = Upcoming
  BY <1>1 DEF Upcoming
<1> QED BY <1>1, <1>2 DEF AgendaStands

LEMMA NextItemStands ==
    ASSUME IInv, AgendaIsFormed, agenda # <<>>, Current.items # <<>>, NextItem,
           Head(Current.items) \in scratch'
    PROVE  AgendaIsFormed' /\ AgendaStands
<1>1. /\ AgendaIsFormed' /\ DOMAIN agenda' = DOMAIN agenda
      /\ \A i \in DOMAIN agenda : agenda'[i] = [agenda[i] EXCEPT !.items = agenda'[i].items]
      /\ \A i \in DOMAIN agenda : agenda[i].kind = "interface" => agenda'[i] = agenda[i]
  BY NextItemFormed
<1>2. agenda \in Seq(U)
  BY DEF IInv, TypeOK, U
<1>3. \A i \in DOMAIN agenda :
        /\ agenda'[i].kind = agenda[i].kind /\ agenda'[i].ref = agenda[i].ref
        /\ agenda'[i].name = agenda[i].name /\ Id(agenda'[i]) = Id(agenda[i])
  <2> TAKE i \in DOMAIN agenda
  <2> DEFINE u == agenda[i]
             v == agenda'[i]
  <2>1. u \in U /\ v = [u EXCEPT !.items = v.items]
    BY <1>1, <1>2, ElementOfSeq
  <2> HIDE DEF u, v
  <2>2. v.kind = u.kind /\ v.ref = u.ref /\ v.name = u.name
    BY <2>1 DEF U, UnitsOf
  <2>3. [v EXCEPT !.items = <<>>] = [u EXCEPT !.items = <<>>]
    BY <2>1 DEF U, UnitsOf
  <2> QED BY <2>2, <2>3 DEF Id, u, v
<1>4. Upcoming' = Upcoming
  <2>1. \A u \in Upcoming' : u \in Upcoming
    BY <1>1, <1>3 DEF Upcoming, ToSet
  <2>2. \A u \in Upcoming : u \in Upcoming'
    BY <1>1, <1>3 DEF Upcoming, ToSet
  <2> QED BY <2>1, <2>2
<1> QED BY <1>1, <1>3, <1>4 DEF AgendaStands, ToSet

LEMMA ResolvedStands ==
    ASSUME IInv, AgendaIsFormed, Pending, Resolved
    PROVE  AgendaIsFormed' /\ AgendaStands
<1>1. agenda # <<>> /\ scratch' = scratch \cup {Want}
  BY DEF Pending, Resolved
<1>2. CASE binding = None
  BY <1>1, <1>2, NextItemStands DEF Pending, Resolved, Want
<1>3. CASE binding # None
  <2>1. UNCHANGED agenda
    BY <1>3 DEF Resolved
  <2> QED BY <1>1, <2>1, UnchangedStands DEF AgendaIsFormed, Current
<1> QED BY <1>2, <1>3

\* attachCollectionCtor goes on with the siblings of the constructor.
LEMMA ClaimStands ==
    ASSUME IInv, AgendaIsFormed, ClaimCollectionCtor, ~NextUnit
    PROVE  AgendaIsFormed' /\ AgendaStands
<1> DEFINE c == [Current EXCEPT !.kind = "siblings", !.items = SiblingAsks(Current.ref)]
<1>1. /\ agenda # <<>> /\ Current.kind = "element" /\ agenda' = <<c>> \o Tail(agenda)
  BY DEF ClaimCollectionCtor, Ready
<1>2. agenda \in Seq(U) /\ Len(agenda) \in Nat /\ Len(agenda) > 0 /\ Current = agenda[1]
      /\ DOMAIN agenda = 1..Len(agenda)
  BY <1>1, EmptySeq DEF IInv, TypeOK, U, Current
<1>3. Current \in U /\ Tail(agenda) \in Seq(U) /\ Len(Tail(agenda)) = Len(agenda) - 1
      /\ \A i \in 1..Len(Tail(agenda)) : Tail(agenda)[i] = agenda[i + 1]
  BY <1>1, <1>2, HeadTailProperties, ElementOfSeq
<1>4. /\ c \in [kind : {"siblings"}, file : {Current.file}, owner : {Current.owner},
                name : {Current.name}, slot : {Current.slot}, ref : {Current.ref},
                items : {SiblingAsks(Current.ref)}]
  BY <1>3 DEF U, UnitsOf
<1> HIDE DEF c
<1>5. /\ c.kind = "siblings" /\ c.name = Current.name /\ c.ref = Current.ref
  BY <1>4
<1>6. <<c>> \in Seq({c}) /\ Len(<<c>>) = 1 /\ <<c>>[1] = c
  OBVIOUS
<1>7. /\ agenda' \in Seq(U \cup {c}) /\ Len(agenda') = Len(agenda) /\ agenda'[1] = c
      /\ \A i \in 2..Len(agenda) : agenda'[i] = agenda[i]
  <2>1. <<c>> \in Seq(U \cup {c}) /\ Tail(agenda) \in Seq(U \cup {c})
    BY <1>3, SeqMonotonic
  <2> QED BY <1>1, <1>2, <1>3, <1>6, <2>1, ConcatProperties
<1>8. DOMAIN agenda' = 1..Len(agenda) /\ Current' = c /\ agenda' # <<>>
  BY <1>2, <1>7, EmptySeq DEF Current
<1>9. \A i \in DOMAIN agenda : i = 1 \/ (i \in 2..Len(agenda) /\ agenda'[i] = agenda[i])
  BY <1>2, <1>7
<1>10. AgendaIsFormed'
  <2>1. WellFormed(c) /\ AsksForTarget(c)
    BY <1>5 DEF WellFormed, AsksForTarget
  <2>2. \A i \in DOMAIN agenda' : WellFormed(agenda'[i])
    BY <1>2, <1>7, <1>8, <1>9, <2>1 DEF AgendaIsFormed
  <2>3. \A i \in 2..Len(agenda') : AsksForTarget(agenda'[i])
    BY <1>7 DEF AgendaIsFormed
  <2>4. \A i \in DOMAIN agenda' : agenda'[i].kind \in {"ctor", "query"} =>
            \A j \in DOMAIN agenda' :
                agenda'[j].kind = "class" /\ agenda'[j].name = agenda'[i].owner => j < i
    <3> SUFFICES ASSUME NEW i \in DOMAIN agenda, NEW j \in DOMAIN agenda,
                        agenda'[i].kind \in {"ctor", "query"},
                        agenda'[j].kind = "class", agenda'[j].name = agenda'[i].owner
                 PROVE  j < i
      BY <1>2, <1>8
    <3>1. agenda'[i] = agenda[i] /\ agenda'[j] = agenda[j]
      BY <1>5, <1>7, <1>9
    <3> QED BY <3>1 DEF AgendaIsFormed
  <2> QED BY <1>8, <2>1, <2>2, <2>3, <2>4 DEF AgendaIsFormed
<1>11. AgendaStands
  <2>1. \A u \in ToSet(agenda) : u = Current \/ u \in ToSet(agenda')
    BY <1>2, <1>8, <1>9 DEF ToSet
  <2>2. \A u \in ToSet(agenda') : u = c \/ u \in ToSet(agenda)
    BY <1>2, <1>7, <1>8, <1>9 DEF ToSet
  <2>3. Current \in ToSet(agenda) /\ c \in ToSet(agenda')
    BY <1>2, <1>7, <1>8 DEF ToSet
  <2>4. Upcoming' = Upcoming
    <3>1. \A u : u \in Upcoming' <=> u \in Upcoming
      BY <1>1, <1>5, <2>1, <2>2 DEF Upcoming
    <3> QED BY <3>1
  <2> QED BY <1>1, <1>5, <2>1, <2>2, <2>3, <2>4 DEF AgendaStands
<1> QED BY <1>10, <1>11

LEMMA BindStands ==
    ASSUME IInv, AgendaIsFormed, BindHandler
    PROVE  AgendaIsFormed' /\ AgendaStands
<1>1. /\ agenda # <<>> /\ Current.items # <<>> /\ NextItem
      /\ Head(Current.items) \in scratch'
  BY DEF BindHandler, IInv, NamesAreHeld
<1> QED BY <1>1, NextItemStands

\* The agenda of an instantiation begins when the one before it is through.
LEMMA BuildFormed ==
    ASSUME IInv, AgendaIsFormed, BuildInstantiation
    PROVE  /\ AgendaIsFormed' /\ Head(queue) \in Instances
           /\ agenda = <<>> /\ agenda' = InstanceUnits(Head(queue))
           /\ Upcoming = {} /\ Upcoming' = {}
<1> DEFINE r == Head(queue)
<1>1. agenda = <<>> /\ queue # <<>> /\ agenda' = InstanceUnits(r)
  BY DEF BuildInstantiation
<1>2. r \in Instances
  BY <1>1, HeadTailProperties DEF IInv, TypeOK
<1> HIDE DEF r
<1>3. /\ agenda' \in Seq(U)
      /\ \A i \in DOMAIN agenda' :
            /\ WellFormed(agenda'[i]) /\ AsksForTarget(agenda'[i])
            /\ agenda'[i].kind \in {"method", "await", "element"}
  BY <1>1, <1>2, UnitsOfInstance
<1>4. /\ DOMAIN agenda' = 1..Len(agenda') /\ Len(agenda') \in Nat
      /\ agenda' # <<>> => Current' = agenda'[1] /\ 1 \in DOMAIN agenda'
  BY <1>3, EmptySeq DEF Current
<1>5. AgendaIsFormed'
  BY <1>3, <1>4 DEF AgendaIsFormed
<1>6. Upcoming = {} /\ Upcoming' = {}
  BY <1>1, <1>3 DEF Upcoming, ToSet
<1> QED BY <1>1, <1>2, <1>5, <1>6 DEF r

\* The agenda keeps its form; what a step does to it is one of three things.
LEMMA AgendaMoves ==
    ASSUME IInv, AgendaIsFormed, [Next]_vars
    PROVE  /\ AgendaIsFormed'
           /\ AgendaStands \/ (agenda # <<>> /\ NextUnit) \/ BuildInstantiation
<1>1. CASE agenda # <<>> /\ NextUnit
  BY <1>1, NextUnitFormed
<1>2. CASE Skip \/ DeclareType \/ DeclareValue \/ DeclareMethod \/ DeclareClass \/ DropWithClass
           \/ DeclareQuery \/ DeclareStatics \/ DeclareFactory \/ AttachAwait
           \/ DeclareCollectionCtor
  <2>1. agenda # <<>> /\ NextUnit
    BY <1>2 DEF Skip, Pending, DeclareType, DeclareValue, DeclareMethod, DeclareClass,
                DropWithClass, DeclareQuery, DeclareStatics, DeclareFactory, AttachAwait,
                DeclareCollectionCtor, Ready
  <2> QED BY <1>1, <2>1
<1>3. CASE ResolveDeclared \/ RequestInstantiation \/ ReuseHandler
  BY <1>3, ResolvedStands DEF ResolveDeclared, RequestInstantiation, ReuseHandler
<1>4. CASE BeginHandler \/ UNCHANGED vars
  <2>1. UNCHANGED <<agenda, scratch>>
    BY <1>4 DEF BeginHandler, vars
  <2> QED BY <2>1, UnchangedStands DEF AgendaIsFormed, Current
<1>5. CASE BindHandler
  BY <1>5, BindStands
<1>6. CASE BuildInstantiation
  BY <1>6, BuildFormed
<1>7. CASE ClaimCollectionCtor
  BY <1>1, <1>7, ClaimStands DEF ClaimCollectionCtor, Ready
<1> QED BY <1>2, <1>3, <1>4, <1>5, <1>6, <1>7 DEF Next, Finish

LEMMA NextUnitSets ==
    ASSUME IInv, AgendaIsFormed, agenda # <<>>, NextUnit
    PROVE  /\ ToSet(agenda) = ToSet(agenda') \cup {Current}
           /\ Upcoming' \subseteq Upcoming /\ Upcoming \subseteq Upcoming' \cup {Current}
<1>1. ToSet(agenda) = ToSet(agenda') \cup {Current}
  BY NextUnitFormed DEF ToSet
<1> QED BY <1>1 DEF Upcoming

-----------------------------------------------------------------------------
(* The IID variables that are to come are free.                            *)

LEMMA CurrentFormed ==
    ASSUME IInv, AgendaIsFormed, agenda # <<>>
    PROVE  /\ Current \in U /\ WellFormed(Current) /\ Current \in ToSet(agenda)
           /\ Current = agenda[1] /\ 1 \in DOMAIN agenda
<1>1. agenda \in Seq(U)
  BY DEF IInv, TypeOK, U
<1>2. Current = agenda[1] /\ 1 \in DOMAIN agenda
  BY <1>1, EmptySeq DEF Current
<1>3. Current \in U
  BY <1>1, <1>2, ElementOfSeq
<1> QED BY <1>2, <1>3 DEF AgendaIsFormed, ToSet

LEMMA IIDIsInjective ==
    ASSUME NEW r \in Refs, NEW s \in Refs, IID(r) = IID(s)
    PROVE  Mangled[r] = Mangled[s]
<1> DEFINE a == Mangled[r]
           b == Mangled[s]
<1>1. a \in Seq(STRING) /\ b \in Seq(STRING)
  BY PackageAssumption
<1>2. <<"IID_">> \o a = <<"IID_">> \o b
  BY DEF IID
<1> HIDE DEF a, b
<1> DEFINE Parts == STRING \cup {"IID_"}
<1>3. /\ <<"IID_">> \in Seq(Parts) /\ Len(<<"IID_">>) = 1
      /\ a \in Seq(Parts) /\ b \in Seq(Parts)
  <2>1. "IID_" \in Parts /\ STRING \subseteq Parts
    OBVIOUS
  <2> HIDE DEF Parts
  <2>2. a \in Seq(Parts) /\ b \in Seq(Parts)
    BY <1>1, <2>1, SeqMonotonic
  <2>3. <<"IID_">> \in Seq(Parts)
    BY <2>1
  <2> QED BY <2>2, <2>3
<1> HIDE DEF Parts
<1>4. Len(a) = Len(b) /\ Len(a) \in Nat
  BY <1>2, <1>3, ConcatProperties, LenProperties
<1>5. \A i \in 1..Len(a) : a[i] = b[i]
  <2> TAKE i \in 1..Len(a)
  <2>1. i + 1 \in 1..(1 + Len(a)) /\ i + 1 > 1 /\ (i + 1) - 1 = i
    BY <1>4
  <2>2. (<<"IID_">> \o a)[i + 1] = a[i] /\ (<<"IID_">> \o b)[i + 1] = b[i]
    BY <1>3, <1>4, <2>1, ConcatProperties
  <2> QED BY <1>2, <2>2
<1>6. a = b
  BY <1>1, <1>4, <1>5
<1> QED BY <1>6 DEF a, b

\* The name of an IID variable is not that of a type, a value or a function.
LEMMA IIDIsNotPlain ==
    ASSUME NEW r \in Refs
    PROVE  ~NotAnIID(IID(r)) /\ NotAnIID(Ctor(r)) /\ NotAnIID(Mangled[r])
<1>1. Mangled[r] \in Seq(STRING)
  BY PackageAssumption
<1>2. Head(IID(r)) = "IID_"
  BY <1>1 DEF IID
<1>3. Head(Ctor(r)) = "New" /\ Ctor(r) # <<>>
  BY <1>1 DEF Ctor
<1> QED BY <1>2, <1>3, AgendaAssumption DEF NotAnIID

\* A step that claims nothing but plain names takes no IID variable.
LEMMA PlainClaims ==
    ASSUME IInv, AgendaIsFormed, IIDsAreFree, queue' = queue, Upcoming' \subseteq Upcoming,
           typeNames' \subseteq typeNames, \A n \in claimed' \ claimed : NotAnIID(n)
    PROVE  IIDsAreFree'
<1>1. \A r \in ToSet(queue) : r \in Refs
  BY ElementOfSeq DEF IInv, TypeOK, ToSet, Instances
<1>2. \A u \in Upcoming : u.ref \in Refs
  BY DEF Upcoming, AgendaIsFormed, WellFormed, ToSet
<1>3. \A r \in Refs : IID(r) \notin claimed => IID(r) \notin claimed'
  BY IIDIsNotPlain
<1> QED BY <1>1, <1>2, <1>3 DEF IIDsAreFree

LEMMA FreeNameIsPlain ==
    ASSUME NEW u \in U, NotAnIID(u.name), Free(u) # {}
    PROVE  NotAnIID(FreeName(u))
<1> DEFINE n == u.name
           o == u.owner
<1>1. n \in Seq(STRING) /\ o \in Seq(STRING) /\ n # <<>> /\ Head(n) # "IID_"
  BY DEF U, UnitsOf, NotAnIID
<1> HIDE DEF n, o
<1>2. n \o o \in Seq(STRING) /\ n \o o # <<>> /\ Head(n \o o) = Head(n)
  <2>1. Len(n) \in Nat /\ Len(n) > 0 /\ Len(o) \in Nat
    BY <1>1, EmptySeq
  <2>2. n \o o \in Seq(STRING) /\ Len(n \o o) = Len(n) + Len(o) /\ (n \o o)[1] = n[1]
    BY <1>1, <2>1, ConcatProperties
  <2>3. n \o o # <<>>
    BY <2>1, <2>2, EmptySeq
  <2> QED BY <1>1, <2>2, <2>3, HeadTailProperties
<1> DEFINE c2 == IF IsSuffix(o, n) THEN n ELSE n \o o
<1>3. c2 \in Seq(STRING) /\ NotAnIID(c2) /\ NotAnIID(n)
  BY <1>1, <1>2 DEF NotAnIID
<1> HIDE DEF c2
<1>4. NotAnIID(c2 \o <<"1">>)
  <2> DEFINE Parts == STRING \cup {"1"}
  <2>0. c2 \in Seq(Parts) /\ <<"1">> \in Seq(Parts) /\ Len(<<"1">>) = 1
    <3>1. "1" \in Parts /\ STRING \subseteq Parts
      OBVIOUS
    <3> HIDE DEF Parts
    <3>2. c2 \in Seq(Parts)
      BY <1>3, <3>1, SeqMonotonic
    <3>3. <<"1">> \in Seq(Parts)
      BY <3>1
    <3> QED BY <3>2, <3>3
  <2> HIDE DEF Parts
  <2>1. Len(c2) \in Nat /\ Len(c2) > 0 /\ c2 # <<>>
    BY <1>3, EmptySeq DEF NotAnIID
  <2>2. c2 \o <<"1">> \in Seq(Parts) /\ Len(c2 \o <<"1">>) = Len(c2) + 1
        /\ (c2 \o <<"1">>)[1] = c2[1]
    BY <2>0, <2>1, ConcatProperties
  <2>3. c2 \o <<"1">> # <<>>
    BY <2>1, <2>2, EmptySeq
  <2>4. Head(c2 \o <<"1">>) = Head(c2)
    BY <1>3, <2>1, <2>2, <2>3
  <2> QED BY <1>3, <2>3, <2>4 DEF NotAnIID
<1>5. Candidates(u) = <<n, c2, c2 \o <<"1">>>>
  BY DEF Candidates, n, o, c2
<1>6. Min(Free(u)) \in 1..3
  BY LeastNatural DEF Free
<1> DEFINE c3 == c2 \o <<"1">>
<1>7. NotAnIID(c3)
  BY <1>4
<1> HIDE DEF c3
<1>8. \A i \in 1..3 : NotAnIID(<<n, c2, c3>>[i])
  BY <1>3, <1>7
<1> QED BY <1>5, <1>6, <1>8 DEF FreeName, c3

LEMMA InitFree == Init => IIDsAreFree
<1> SUFFICES ASSUME Init PROVE IIDsAreFree
  OBVIOUS
<1>1. AgendaIsFormed /\ IInv
  BY InitFormed, InitIInv
<1>2. \A u \in Upcoming : u.ref \in Refs
  BY <1>1 DEF Upcoming, AgendaIsFormed, WellFormed, ToSet
<1>3. \A n \in claimed : NotAnIID(n)
  BY AgendaAssumption DEF Init
<1> QED BY <1>2, <1>3, IIDIsNotPlain DEF IIDsAreFree, Init, ToSet

\* An interface takes its own IID variable.
LEMMA DeclareTypeFree ==
    ASSUME IInv, AgendaIsFormed, IIDsAreFree, DeclareType
    PROVE  IIDsAreFree'
<1>1. /\ agenda # <<>> /\ NextUnit /\ queue' = queue
      /\ Current.name \in typeNames /\ typeNames' = typeNames \ {Current.name}
      /\ \/ claimed' = claimed
         \/ Current.kind = "interface" /\ claimed' \subseteq claimed \cup {IID(Current.ref)}
  BY DEF DeclareType, Ready, requestVars
<1>2. Upcoming' \subseteq Upcoming /\ Current \in U /\ WellFormed(Current)
  BY <1>1, NextUnitSets, CurrentFormed
<1>3. \A u \in Upcoming : u.ref \in Refs /\ u.name = Mangled[u.ref]
  BY DEF Upcoming, AgendaIsFormed, WellFormed, ToSet
<1>4. \A r \in ToSet(queue) : r \in Refs /\ Mangled[r] \notin typeNames
  <2>1. \A r \in ToSet(queue) : r \in Refs /\ <<Mangled[r], r>> \in instances
    BY ElementOfSeq DEF IInv, TypeOK, NamesAreHeld, ToSet, Instances
  <2> QED BY <2>1 DEF IInv, NamesAreHeld
<1>5. CASE claimed' = claimed
  BY <1>1, <1>2, <1>5, PlainClaims
<1>6. CASE Current.kind = "interface" /\ claimed' \subseteq claimed \cup {IID(Current.ref)}
  <2>1. Current.ref \in Refs /\ Current.name = Mangled[Current.ref]
    BY <1>2, <1>6 DEF WellFormed
  <2>2. \A r \in ToSet(queue) : IID(r) # IID(Current.ref)
    BY <1>1, <1>4, <2>1, IIDIsInjective
  <2>3. \A u \in Upcoming : u.name \in typeNames' => IID(u.ref) # IID(Current.ref)
    BY <1>1, <1>3, <2>1, IIDIsInjective
  <2> QED BY <1>1, <1>2, <1>6, <2>2, <2>3 DEF IIDsAreFree
<1> QED BY <1>1, <1>5, <1>6

\* An instantiation is queued while its IID variable is free.
LEMMA RequestFree ==
    ASSUME IInv, AgendaIsFormed, IIDsAreFree, RequestInstantiation
    PROVE  IIDsAreFree'
<1> DEFINE r == Want.ref
<1>1. /\ Pending /\ Resolved /\ r.kind = "instance" /\ CanInstantiate(r)
      /\ claimed' = claimed \cup {Mangled[r]}
      /\ queue' = IF NameSeen(instances, r) THEN queue ELSE Append(queue, r)
      /\ typeNames' = typeNames
  BY DEF RequestInstantiation, Accepts
<1>2. Upcoming' = Upcoming /\ r \in Refs
  BY <1>1, ResolvedStands, ResolvedKeeps DEF AgendaStands, Items
<1> HIDE DEF r
<1>3. queue \in Seq(Instances)
  BY DEF IInv, TypeOK
<1>4. \A s \in Refs : IID(s) \notin claimed => IID(s) \notin claimed'
  BY <1>1, <1>2, IIDIsNotPlain
<1>5. CASE NameSeen(instances, r)
  BY <1>1, <1>2, <1>5, PlainClaims, IIDIsNotPlain
<1>6. CASE ~NameSeen(instances, r)
  <2>1. IID(r) \notin claimed /\ queue' = Append(queue, r) /\ r \in Instances
    BY <1>1, <1>2, <1>6 DEF CanInstantiate, Instances
  <2>2. \A s \in ToSet(queue') : s \in ToSet(queue) \/ s = r
    BY <1>3, <2>1, AppendProperties DEF ToSet
  <2>3. \A s \in ToSet(queue) : s \in Refs
    BY <1>3, ElementOfSeq DEF ToSet, Instances
  <2>4. \A u \in Upcoming : u.ref \in Refs
    BY DEF Upcoming, AgendaIsFormed, WellFormed, ToSet
  <2> QED BY <1>1, <1>2, <1>4, <2>1, <2>2, <2>3, <2>4 DEF IIDsAreFree
<1> QED BY <1>5, <1>6

\* A handler's names are no instantiation's, and were not claimed by a type.
LEMMA BindFree ==
    ASSUME IInv, AgendaIsFormed, IIDsAreFree, BindHandler
    PROVE  IIDsAreFree'
<1>1. /\ binding # None /\ claimed' = claimed \cup HandlerNames(binding)
      /\ UNCHANGED <<queue, typeNames>> /\ Upcoming' = Upcoming
  BY BindStands DEF BindHandler, AgendaStands
<1>2. binding \in Delegates /\ binding \in Refs /\ HandlerNames(binding) \cap claimed = {}
      /\ typeNames \subseteq claimed
  BY <1>1 DEF IInv, TypeOK, NamesAreHeld, Delegates
<1>3. \A s \in Refs : IID(s) \notin claimed /\ IID(s) # IID(binding) => IID(s) \notin claimed'
  BY <1>1, <1>2, IIDIsNotPlain DEF HandlerNames
<1>4. \A s \in Refs : Mangled[s] # Mangled[binding] => IID(s) # IID(binding)
  BY <1>2, IIDIsInjective
<1>5. \A r \in ToSet(queue) : r \in Refs /\ Mangled[r] # Mangled[binding]
  <2>1. \A r \in ToSet(queue) : r \in Instances
    BY ElementOfSeq DEF IInv, TypeOK, ToSet
  <2> QED BY <1>2, <2>1, PackageAssumption DEF HandlerNames, Instances
<1>6. \A u \in Upcoming : u.ref \in Refs /\ (u.name \in typeNames => Mangled[u.ref] # Mangled[binding])
  <2>1. \A u \in Upcoming : u.ref \in Refs /\ u.name = Mangled[u.ref]
    BY DEF Upcoming, AgendaIsFormed, WellFormed, ToSet
  <2> QED BY <1>2, <2>1 DEF HandlerNames
<1> QED BY <1>1, <1>3, <1>4, <1>5, <1>6 DEF IIDsAreFree

\* The first of the queue takes its IID variable; the others have other names.
LEMMA BuildFree ==
    ASSUME IInv, AgendaIsFormed, IIDsAreFree, BuildInstantiation
    PROVE  IIDsAreFree'
<1> DEFINE r == Head(queue)
<1>1. /\ queue # <<>> /\ queue' = Tail(queue)
      /\ claimed' \subseteq claimed \cup {IID(r)}
  BY DEF BuildInstantiation
<1>2. Upcoming' = {}
  BY BuildFormed
<1>3. queue \in Seq(Instances)
  BY DEF IInv, TypeOK
<1>4. /\ r \in Instances /\ r = queue[1] /\ 1 \in DOMAIN queue
      /\ Tail(queue) \in Seq(Instances)
      /\ \A i \in DOMAIN Tail(queue) :
            i \in Nat \ {0} /\ i + 1 \in DOMAIN queue /\ Tail(queue)[i] = queue[i + 1]
  BY <1>1, <1>3, HeadTailProperties, EmptySeq
<1> HIDE DEF r
<1>5. \A s \in ToSet(queue') : s \in ToSet(queue) /\ s \in Refs /\ Mangled[s] # Mangled[r]
  <2> SUFFICES ASSUME NEW i \in DOMAIN Tail(queue)
               PROVE  LET s == queue[i + 1] IN
                      s \in ToSet(queue) /\ s \in Refs /\ Mangled[s] # Mangled[r]
    BY <1>1, <1>4 DEF ToSet
  <2>1. i + 1 \in DOMAIN queue /\ i + 1 # 1
    BY <1>4
  <2>2. Mangled[queue[i + 1]] = Mangled[queue[1]] => i + 1 = 1
    BY <1>4, <2>1 DEF IInv, NamesAreHeld
  <2>3. queue[i + 1] \in Instances
    BY <1>3, <2>1, ElementOfSeq
  <2> QED BY <1>4, <2>1, <2>2, <2>3 DEF ToSet, Instances
<1>6. \A s \in ToSet(queue') : IID(s) # IID(r)
  BY <1>4, <1>5, IIDIsInjective DEF Instances
<1> QED BY <1>1, <1>2, <1>5, <1>6 DEF IIDsAreFree

\* IIDs are taken by those they belong to.
LEMMA NextFree ==
    ASSUME IInv, AgendaIsFormed, IIDsAreFree, [Next]_vars
    PROVE  IIDsAreFree'
<1>1. CASE DeclareType \/ RequestInstantiation \/ BindHandler \/ BuildInstantiation
  BY <1>1, DeclareTypeFree, RequestFree, BindFree, BuildFree
<1>2. CASE Skip \/ DeclareMethod \/ DeclareClass \/ DropWithClass \/ DeclareQuery
           \/ AttachAwait \/ DeclareCollectionCtor
  <2>1. /\ agenda # <<>> /\ NextUnit /\ claimed' = claimed /\ queue' = queue
        /\ typeNames' \subseteq typeNames
    BY <1>2 DEF Skip, Pending, DeclareMethod, DeclareClass, DropWithClass, DeclareQuery,
                AttachAwait, DeclareCollectionCtor, Ready, requestVars
  <2> QED BY <2>1, NextUnitSets, PlainClaims
<1>3. CASE DeclareValue \/ DeclareStatics
  <2>1. /\ agenda # <<>> /\ NextUnit /\ queue' = queue /\ typeNames' = typeNames
        /\ claimed' \subseteq claimed \cup {Current.name}
        /\ Current.kind \in {"member", "ctor", "static"}
    BY <1>3 DEF DeclareValue, DeclareStatics, Ready, requestVars
  <2>2. NotAnIID(Current.name)
    BY <2>1, CurrentFormed DEF WellFormed
  <2> QED BY <2>1, <2>2, NextUnitSets, PlainClaims
<1>4. CASE DeclareFactory
  <2>1. /\ agenda # <<>> /\ NextUnit /\ queue' = queue /\ typeNames' = typeNames
        /\ \/ claimed' = claimed
           \/ claimed' = claimed \cup {FreeName(Current)} /\ Free(Current) # {}
        /\ Current.kind = "factory"
    BY <1>4 DEF DeclareFactory, Ready, requestVars, CanWrap
  <2>2. Current \in U /\ NotAnIID(Current.name)
    BY <2>1, CurrentFormed DEF WellFormed
  <2>3. Free(Current) # {} => NotAnIID(FreeName(Current))
    BY <2>2, FreeNameIsPlain
  <2> QED BY <2>1, <2>3, NextUnitSets, PlainClaims
<1>5. CASE ClaimCollectionCtor
  <2>1. /\ agenda # <<>> /\ queue' = queue /\ typeNames' = typeNames
        /\ claimed' \subseteq claimed \cup {Current.name}
        /\ Current.kind = "element"
    BY <1>5 DEF ClaimCollectionCtor, Ready, requestVars
  <2>2. NotAnIID(Current.name)
    BY <2>1, CurrentFormed DEF WellFormed
  <2>3. Upcoming' \subseteq Upcoming
    BY <1>5, <2>1, ClaimStands, NextUnitSets DEF AgendaStands
  <2> QED BY <2>1, <2>2, <2>3, PlainClaims
<1>6. CASE ResolveDeclared \/ ReuseHandler
  <2>1. UNCHANGED <<claimed, queue, typeNames>> /\ Pending /\ Resolved
    BY <1>6 DEF ResolveDeclared, ReuseHandler, requestVars
  <2>2. Upcoming' = Upcoming
    BY <2>1, ResolvedStands DEF AgendaStands
  <2> QED BY <2>1, <2>2, PlainClaims
<1>7. CASE BeginHandler \/ UNCHANGED vars
  <2>1. UNCHANGED <<agenda, claimed, queue, typeNames>>
    BY <1>7 DEF BeginHandler, requestVars, vars
  <2>2. Upcoming' = Upcoming
    BY <2>1, UnchangedStands DEF AgendaStands
  <2> QED BY <2>1, <2>2, PlainClaims
<1> QED BY <1>1, <1>2, <1>3, <1>4, <1>5, <1>6, <1>7 DEF Next, Finish

-----------------------------------------------------------------------------
(* What a file names is declared, or will be.                              *)

\* No promise is forgotten.
PromisesStand == \A name, ref : Promised(name, ref) => Promised(name, ref)'

LEMMA GrowingStands ==
    ASSUME declared \subseteq declared', ToSet(queue) \subseteq ToSet(queue'),
           Upcoming \subseteq Upcoming'
    PROVE  PromisesStand
BY DEF PromisesStand, Promised

LEMMA UsableStands ==
    ASSUME PromisesStand, NEW ref, Usable(ref)
    PROVE  Usable(ref)'
BY DEF PromisesStand, Usable

\* What is declared under all its names is usable.
LEMMA DeclaredIsUsable ==
    ASSUME NEW ref, \A n \in NamesOf(ref) : \E d \in declared' : d.name = n /\ d.ref = ref
    PROVE  Usable(ref)'
BY DEF Usable, Promised

LEMMA UsesStayMet ==
    ASSUME EveryUseIsMet, PromisesStand, meta' = meta, imports \subseteq imports',
           \A u \in uses' : u \in uses \/ UseIsMet(u)',
           \A i \in scratch' : i \in scratch \/ Usable(i.ref)',
           \A m \in methods' : m \in methods \/ \A i \in m.items : Usable(i.ref)',
           \A e \in instances' \cup handlers' : e \in instances \cup handlers \/ Usable(e[2])',
           \A v \in ToSet(agenda') : v.kind \in {"element", "siblings"} =>
               v.ref.kind = "instance" /\ (Usable(v.ref) \/ Usable(v.ref)')
    PROVE  EveryUseIsMet'
<1>1. \A ref : Usable(ref) => Usable(ref)'
  BY UsableStands
<1>2. \A u : UseIsMet(u) => UseIsMet(u)'
  BY DEF UseIsMet, PromisesStand
<1>3. \A u \in uses' : UseIsMet(u)'
  BY <1>2 DEF EveryUseIsMet
<1>4. \A i \in scratch' : Usable(i.ref)'
  BY <1>1 DEF EveryUseIsMet
<1>5. \A m \in methods' : \A i \in m.items : Usable(i.ref)'
  BY <1>1 DEF EveryUseIsMet
<1>6. \A e \in instances' \cup handlers' : Usable(e[2])'
  BY <1>1 DEF EveryUseIsMet
<1>7. \A i \in DOMAIN meta.interfaces : Usable(meta.interfaces[i].ref)'
  BY <1>1 DEF EveryUseIsMet
<1>8. \A v \in ToSet(agenda') : v.kind \in {"element", "siblings"} =>
        v.ref.kind = "instance" /\ Usable(v.ref)'
  BY <1>1
<1> QED BY <1>3, <1>4, <1>5, <1>6, <1>7, <1>8 DEF EveryUseIsMet

\* The two ways to name what is usable.
LEMMA NamesAreMet ==
    ASSUME NEW file, NEW items, \A i \in items : Usable(i.ref)',
           Imports(file, items) \subseteq imports'
    PROVE  \A u \in Names(file, items) : UseIsMet(u)'
<1> SUFFICES ASSUME NEW i \in items, i.ref.kind # "native"
             PROVE  UseIsMet([file |-> file, name |-> Mangled[i.ref], ref |-> i.ref])'
  BY DEF Names
<1>1. Usable(i.ref)' /\ Mangled[i.ref] \in NamesOf(i.ref)
  BY DEF NamesOf, HandlerNames
<1>2. CASE IsExternal(i.ref)
  <2>1. [file |-> file, ns |-> i.ref.ns] \in imports'
    BY <1>2 DEF Imports, IsExternal
  <2> QED BY <1>2, <2>1 DEF UseIsMet
<1>3. CASE ~IsExternal(i.ref)
  <2>1. Promised(Mangled[i.ref], i.ref)'
    BY <1>1, <1>3 DEF Usable
  <2> QED BY <1>3, <2>1 DEF UseIsMet
<1> QED BY <1>2, <1>3

LEMMA IIDIsMet ==
    ASSUME NEW file, NEW ref, Usable(ref)', ref.kind \in {"interface", "instance"},
           ref.kind = "instance" \/ HasIID(ref),
           IsExternal(ref) => [file |-> file, ns |-> ref.ns] \in imports'
    PROVE  \A u \in NamesIID(file, ref) : UseIsMet(u)'
<1>1. IID(ref) \in NamesOf(ref)
  BY DEF NamesOf
<1>2. UseIsMet([file |-> file, name |-> IID(ref), ref |-> ref])'
  BY <1>1 DEF Usable, UseIsMet
<1> QED BY <1>2 DEF NamesIID

LEMMA StandingUnits ==
    ASSUME EveryUseIsMet, AgendaStands
    PROVE  \A v \in ToSet(agenda') : v.kind \in {"element", "siblings"} =>
               v.ref.kind = "instance" /\ Usable(v.ref)
BY DEF AgendaStands, EveryUseIsMet

\* What the registry has of the namespace, and what lies in another, can be named.
LEMMA RegisteredIsUsable ==
    ASSUME EveryUseIsMet, NEW ref, ref.kind = "interface", InRegistry(ref)
    PROVE  Usable(ref)
<1>1. CASE ref.ns = Home
  <2>1. PICK k \in DOMAIN meta.interfaces : meta.interfaces[k].ref = ref
    BY <1>1 DEF InRegistry
  <2> QED BY <2>1 DEF EveryUseIsMet
<1>2. CASE ref.ns # Home
  BY <1>2 DEF Usable, IsExternal
<1> QED BY <1>1, <1>2

\* A type that is resolved can be named from then on.
LEMMA ResolvedMet ==
    ASSUME IInv, AgendaIsFormed, EveryUseIsMet, Pending, Resolved,
           UNCHANGED <<meta, handlers, declared, fileVars>>,
           ToSet(queue) \subseteq ToSet(queue'),
           NEW ref, ref = Want.ref, Usable(ref) \/ Usable(ref)',
           \A e \in instances' : e \in instances \/ e[2] = ref
    PROVE  EveryUseIsMet'
<1>1. AgendaStands /\ scratch' = scratch \cup {Want}
  BY ResolvedStands DEF Resolved
<1>2. PromisesStand
  BY <1>1, GrowingStands DEF AgendaStands
<1>3. Usable(ref)'
  BY <1>2, UsableStands
<1>4. \A i \in scratch' : i \in scratch \/ Usable(i.ref)'
  <2> SUFFICES ASSUME NEW i \in scratch', i \notin scratch PROVE Usable(i.ref)'
    OBVIOUS
  <2>1. i.ref = ref
    BY <1>1
  <2> QED BY <1>3, <2>1
<1>5. \A e \in instances' \cup handlers' : e \in instances \cup handlers \/ Usable(e[2])'
  <2> SUFFICES ASSUME NEW e \in instances', e \notin instances PROVE Usable(e[2])'
    OBVIOUS
  <2>1. e[2] = ref
    OBVIOUS
  <2> QED BY <1>3, <2>1
<1>6. \A v \in ToSet(agenda') : v.kind \in {"element", "siblings"} =>
        v.ref.kind = "instance" /\ (Usable(v.ref) \/ Usable(v.ref)')
  BY <1>1, StandingUnits
<1> QED BY <1>2, <1>4, <1>5, <1>6, UsesStayMet DEF fileVars

LEMMA ResolveDeclaredMet ==
    ASSUME IInv, AgendaIsFormed, EveryUseIsMet, ResolveDeclared
    PROVE  EveryUseIsMet'
<1>1. PICK ref : ref = Want.ref
  OBVIOUS
<1>2. /\ Pending /\ Resolved /\ UNCHANGED <<meta, requestVars, declared, fileVars>>
      /\ \/ ref.kind = "native"
         \/ ref.kind = "interface" /\ InRegistry(ref)
  BY <1>1 DEF ResolveDeclared, Accepts
<1>3. Usable(ref)
  BY <1>2, RegisteredIsUsable DEF Usable
<1> QED BY <1>1, <1>2, <1>3, ResolvedMet DEF requestVars

LEMMA ReuseHandlerMet ==
    ASSUME IInv, AgendaIsFormed, EveryUseIsMet, ReuseHandler
    PROVE  EveryUseIsMet'
<1>1. PICK ref : ref = Want.ref
  OBVIOUS
<1>2. /\ Pending /\ Resolved /\ UNCHANGED <<meta, requestVars, declared, fileVars>>
      /\ <<Mangled[ref], ref>> \in handlers
  BY <1>1 DEF ReuseHandler, Accepts, CanHandle
<1>3. Usable(ref)
  BY <1>2 DEF EveryUseIsMet
<1> QED BY <1>1, <1>2, <1>3, ResolvedMet DEF requestVars

\* An instantiation is promised by its place in the queue.
LEMMA RequestMet ==
    ASSUME IInv, AgendaIsFormed, EveryUseIsMet, RequestInstantiation
    PROVE  EveryUseIsMet'
<1>1. PICK r : r = Want.ref
  OBVIOUS
<1>2. /\ Pending /\ Resolved /\ UNCHANGED <<meta, handlers, declared, fileVars>>
      /\ r.kind = "instance" /\ CanInstantiate(r)
      /\ instances' = instances \cup {<<Mangled[r], r>>}
      /\ queue' = IF NameSeen(instances, r) THEN queue ELSE Append(queue, r)
  BY <1>1 DEF RequestInstantiation, Accepts
<1>3. r \in Instances /\ queue \in Seq(Instances)
  BY <1>1, <1>2, ResolvedKeeps DEF Items, Instances, IInv, TypeOK
<1>4. ToSet(queue) \subseteq ToSet(queue')
  BY <1>2, <1>3, AppendProperties DEF ToSet
<1>5. Usable(r) \/ Usable(r)'
  <2>1. CASE NameSeen(instances, r)
    <3>1. <<Mangled[r], r>> \in instances
      BY <1>2, <2>1 DEF CanInstantiate
    <3> QED BY <3>1 DEF EveryUseIsMet
  <2>2. CASE ~NameSeen(instances, r)
    <3>1. r \in ToSet(queue')
      BY <1>2, <1>3, <2>2, AppendProperties DEF ToSet
    <3> QED BY <3>1 DEF Usable, Promised
  <2> QED BY <2>1, <2>2
<1> QED BY <1>1, <1>2, <1>4, <1>5, ResolvedMet

\* A handler is declared before the unit goes on.
LEMMA BindMet ==
    ASSUME IInv, AgendaIsFormed, EveryUseIsMet, BindHandler
    PROVE  EveryUseIsMet'
<1>1. PICK b : b = binding
  OBVIOUS
<1> DEFINE adapted == {i \in scratch : i.as = "inner"}
<1>2. /\ b # None /\ UNCHANGED <<meta, instances, queue, methods>>
      /\ uses' = uses \cup Names("delegates", adapted)
      /\ imports' = imports \cup Imports("delegates", adapted)
      /\ scratch' = (scratch \ adapted) \cup {Head(Current.items)}
      /\ declared' = declared \cup
            {[name |-> n, ref |-> b, by |-> None] : n \in HandlerNames(b)}
      /\ handlers' = handlers \cup {<<Mangled[b], b>>}
  BY <1>1 DEF BindHandler
<1>3. Head(Current.items).ref = b /\ b.kind = "delegate"
  BY <1>1, <1>2 DEF IInv, TypeOK, NamesAreHeld, Delegates
<1>4. \A i \in adapted : i \in scratch
  OBVIOUS
<1> HIDE DEF adapted
<1>5. AgendaStands
  BY BindStands
<1>6. PromisesStand
  BY <1>2, <1>5, GrowingStands DEF AgendaStands
<1>7. Usable(b)'
  <2>1. \A n \in NamesOf(b) : \E d \in declared' : d.name = n /\ d.ref = b
    <3> SUFFICES ASSUME NEW n \in HandlerNames(b)
                 PROVE  \E d \in declared' : d.name = n /\ d.ref = b
      BY <1>3 DEF NamesOf
    <3>1. [name |-> n, ref |-> b, by |-> None] \in declared'
      BY <1>2
    <3> QED BY <3>1
  <2> QED BY <2>1, DeclaredIsUsable
<1>8. \A u \in uses' : u \in uses \/ UseIsMet(u)'
  <2>1. \A i \in adapted : Usable(i.ref)'
    BY <1>4, <1>6, UsableStands DEF EveryUseIsMet
  <2>2. Imports("delegates", adapted) \subseteq imports'
    BY <1>2
  <2> QED BY <1>2, <2>1, <2>2, NamesAreMet
<1>9. \A i \in scratch' : i \in scratch \/ Usable(i.ref)'
  <2> SUFFICES ASSUME NEW i \in scratch', i \notin scratch PROVE Usable(i.ref)'
    OBVIOUS
  <2>1. i.ref = b
    BY <1>2, <1>3
  <2> QED BY <1>7, <2>1
<1>10. \A e \in instances' \cup handlers' : e \in instances \cup handlers \/ Usable(e[2])'
  <2> SUFFICES ASSUME NEW e \in handlers', e \notin handlers PROVE Usable(e[2])'
    BY <1>2
  <2>1. e[2] = b
    BY <1>2
  <2> QED BY <1>7, <2>1
<1>11. \A v \in ToSet(agenda') : v.kind \in {"element", "siblings"} =>
        v.ref.kind = "instance" /\ (Usable(v.ref) \/ Usable(v.ref)')
  BY <1>5, StandingUnits
<1>12. meta' = meta /\ imports \subseteq imports' /\ methods' = methods
  BY <1>2
<1> QED BY <1>6, <1>8, <1>9, <1>10, <1>11, <1>12, UsesStayMet

\* A unit that is finished, or skipped, leaves its resolutions behind.
LEMMA NextUnitMet ==
    ASSUME IInv, AgendaIsFormed, EveryUseIsMet, PromisesStand,
           agenda # <<>>, NextUnit, UNCHANGED <<meta, requestVars>>,
           imports \subseteq imports',
           \A u \in uses' : u \in uses \/ UseIsMet(u)',
           \A m \in methods' : m \in methods \/ m.items = scratch
    PROVE  EveryUseIsMet'
<1>1. scratch' = {} /\ ToSet(agenda') \subseteq ToSet(agenda)
  BY NextUnitSets DEF NextUnit
<1>2. \A v \in ToSet(agenda') : v.kind \in {"element", "siblings"} =>
        v.ref.kind = "instance" /\ (Usable(v.ref) \/ Usable(v.ref)')
  BY <1>1 DEF EveryUseIsMet
<1>3. \A m \in methods' : m \in methods \/ \A i \in m.items : Usable(i.ref)'
  BY UsableStands DEF EveryUseIsMet
<1>4. \A e \in instances' \cup handlers' : e \in instances \cup handlers \/ Usable(e[2])'
  BY DEF requestVars
<1> QED BY <1>1, <1>2, <1>3, <1>4, UsesStayMet

\* Only an interface is promised by its place on the agenda.
LEMMA NextUnitStands ==
    ASSUME IInv, AgendaIsFormed, agenda # <<>>, NextUnit, Current.kind # "interface",
           queue' = queue, declared \subseteq declared'
    PROVE  PromisesStand
<1>1. Upcoming \subseteq Upcoming'
  BY NextUnitSets DEF Upcoming
<1> QED BY <1>1, GrowingStands

\* A unit that leaves the files alone.
LEMMA QuietMet ==
    ASSUME IInv, AgendaIsFormed, EveryUseIsMet, agenda # <<>>, NextUnit,
           Current.kind # "interface",
           UNCHANGED <<meta, requestVars, fileVars>>, declared \subseteq declared'
    PROVE  EveryUseIsMet'
<1>1. PromisesStand
  BY NextUnitStands DEF requestVars
<1> QED BY <1>1, NextUnitMet DEF fileVars

LEMMA SkipMet ==
    ASSUME IInv, AgendaIsFormed, EveryUseIsMet, Skip \/ DropWithClass \/ DeclareValue
    PROVE  EveryUseIsMet'
<1>1. /\ agenda # <<>> /\ NextUnit /\ UNCHANGED <<meta, requestVars, fileVars>>
      /\ declared \subseteq declared'
  BY DEF Skip, Pending, DropWithClass, DeclareValue, Declare, Ready
<1>2. Current.kind # "interface"
  <2>1. CASE Skip
    <3>1. Current.items # <<>>
      BY <2>1 DEF Skip, Pending, IInv, NamesAreHeld
    <3> QED BY <1>1, <3>1, CurrentFormed DEF WellFormed
  <2>2. CASE DropWithClass \/ DeclareValue
    BY <2>2 DEF DropWithClass, DeclareValue, Ready
  <2> QED BY <2>1, <2>2
<1> QED BY <1>1, <1>2, QuietMet

\* An interface is declared with its IID variable, which nobody took.
LEMMA DeclareTypeMet ==
    ASSUME IInv, AgendaIsFormed, IIDsAreFree, EveryUseIsMet, DeclareType
    PROVE  EveryUseIsMet'
<1> DEFINE iid == IF Current.kind = "interface" /\ HasIID(Current.ref)
                      THEN {IID(Current.ref)} \ claimed ELSE {}
<1>1. /\ agenda # <<>> /\ NextUnit /\ Current.name \in typeNames
      /\ UNCHANGED <<meta, requestVars, fileVars>>
      /\ declared' = declared \cup {[name |-> n, ref |-> Current.ref, by |-> Id(Current)] :
                                        n \in {Current.name} \cup iid}
  BY DEF DeclareType, Ready, Declare
<1>2. CASE Current.kind # "interface"
  <2>1. declared \subseteq declared'
    BY <1>1
  <2> QED BY <1>1, <1>2, <2>1, QuietMet
<1>3. CASE Current.kind = "interface"
  <2>1. /\ Current \in Upcoming /\ Current.ref.kind = "interface"
        /\ Current.name = Mangled[Current.ref]
    BY <1>1, <1>3, CurrentFormed DEF WellFormed, Upcoming
  <2>2. iid = IF HasIID(Current.ref) THEN {IID(Current.ref)} ELSE {}
    BY <1>1, <1>3, <2>1 DEF IIDsAreFree
  <2> HIDE DEF iid
  <2>3. NamesOf(Current.ref) = {Current.name} \cup iid
    BY <2>1, <2>2 DEF NamesOf
  <2>4. \A n \in NamesOf(Current.ref) : [name |-> n, ref |-> Current.ref, by |-> Id(Current)] \in declared'
    BY <1>1, <2>3
  <2>5. \A n \in NamesOf(Current.ref) : \E d \in declared' : d.name = n /\ d.ref = Current.ref
    BY <2>4
  <2>6. Upcoming \subseteq Upcoming' \cup {Current}
    BY <1>1, NextUnitSets
  <2>7. declared \subseteq declared' /\ queue' = queue
    BY <1>1 DEF requestVars
  <2>8. PromisesStand
    <3> SUFFICES ASSUME NEW name, NEW ref, Promised(name, ref)
                 PROVE  Promised(name, ref)'
      BY DEF PromisesStand
    <3>1. CASE ref = Current.ref /\ name \in NamesOf(ref)
      BY <2>5, <3>1 DEF Promised
    <3>2. CASE ~(ref = Current.ref /\ name \in NamesOf(ref))
      BY <2>6, <2>7, <3>2 DEF Promised
    <3> QED BY <3>1, <3>2
  <2> QED BY <1>1, <2>8, NextUnitMet DEF fileVars
<1> QED BY <1>2, <1>3

\* What leaves the queue is declared; its units begin with nothing resolved.
LEMMA BuildMet ==
    ASSUME IInv, AgendaIsFormed, IIDsAreFree, EveryUseIsMet, BuildInstantiation
    PROVE  EveryUseIsMet'
<1>1. PICK r : r = Head(queue)
  OBVIOUS
<1> DEFINE iid == {IID(r)} \ claimed
<1>2. /\ queue # <<>> /\ queue' = Tail(queue)
      /\ declared' = declared \cup {[name |-> n, ref |-> r, by |-> None] :
                                        n \in {Mangled[r]} \cup iid}
      /\ agenda' = InstanceUnits(r)
      /\ UNCHANGED <<meta, scratch, instances, handlers, fileVars>>
  BY <1>1 DEF BuildInstantiation, Declare
<1>3. queue \in Seq(Instances)
  BY DEF IInv, TypeOK
<1>4. r \in Instances /\ r \in ToSet(queue) /\ r.kind = "instance"
  BY <1>1, <1>2, <1>3, EmptySeq, ElementOfSeq DEF ToSet, Instances
<1>5. iid = {IID(r)}
  BY <1>4 DEF IIDsAreFree
<1> HIDE DEF iid
<1>6. NamesOf(r) = {Mangled[r]} \cup iid
  BY <1>4, <1>5 DEF NamesOf
<1>7. \A n \in NamesOf(r) : [name |-> n, ref |-> r, by |-> None] \in declared'
  BY <1>2, <1>6
<1>8. \A n \in NamesOf(r) : \E d \in declared' : d.name = n /\ d.ref = r
  BY <1>7
<1>9. Usable(r)'
  BY <1>8, DeclaredIsUsable
<1>10. ToSet(queue) \subseteq ToSet(queue') \cup {r}
  <2>1. /\ Tail(queue) \in Seq(Instances) /\ Len(Tail(queue)) = Len(queue) - 1
        /\ \A i \in 1..Len(Tail(queue)) : Tail(queue)[i] = queue[i + 1]
        /\ Len(queue) \in Nat
    BY <1>2, <1>3, HeadTailProperties
  <2>2. \A i \in DOMAIN queue : i = 1 \/ (i - 1 \in DOMAIN Tail(queue) /\ Tail(queue)[i - 1] = queue[i])
    BY <1>3, <2>1
  <2>3. queue[1] = r
    BY <1>1, <1>2, <1>3
  <2> QED BY <1>2, <2>2, <2>3 DEF ToSet
<1>11. PromisesStand
  <2> SUFFICES ASSUME NEW name, NEW ref, Promised(name, ref)
               PROVE  Promised(name, ref)'
    BY DEF PromisesStand
  <2>1. Upcoming = {} /\ Upcoming' = {}
    BY BuildFormed
  <2>2. CASE ref = r /\ name \in NamesOf(ref)
    BY <1>8, <2>2 DEF Promised
  <2>3. CASE ~(ref = r /\ name \in NamesOf(ref))
    BY <1>2, <1>10, <2>1, <2>3 DEF Promised
  <2> QED BY <2>2, <2>3
<1>12. \A v \in ToSet(agenda') : v.kind \in {"element", "siblings"} =>
        v.ref.kind = "instance" /\ (Usable(v.ref) \/ Usable(v.ref)')
  <2> SUFFICES ASSUME NEW v \in ToSet(agenda'), v.kind \in {"element", "siblings"}
               PROVE  v.ref.kind = "instance" /\ Usable(v.ref)'
    OBVIOUS
  <2>1. v.ref = r
    BY <1>2, <1>4, UnitsOfInstance DEF ToSet
  <2> QED BY <1>4, <1>9, <2>1
<1> QED BY <1>2, <1>11, <1>12, UsesStayMet DEF fileVars

\* A unit names what it has resolved, and the IID variable of its target.
LEMMA ScratchMet ==
    ASSUME EveryUseIsMet, PromisesStand, NEW s, s = scratch,
           NEW file, Imports(file, s) \subseteq imports'
    PROVE  \A u \in Names(file, s) : UseIsMet(u)'
<1>1. \A i \in s : Usable(i.ref)'
  BY UsableStands DEF EveryUseIsMet
<1> QED BY <1>1, NamesAreMet

LEMMA TargetMet ==
    ASSUME IInv, AgendaIsFormed, EveryUseIsMet, PromisesStand,
           NEW kind \in {"class", "query", "static", "await"}, Ready(kind),
           NEW s, s = scratch, NEW file, Imports(file, s) \subseteq imports',
           NEW ref, ref = Target(Current), HasIID(ref)
    PROVE  \A u \in NamesIID(file, ref) : UseIsMet(u)'
<1>1. agenda # <<>> /\ Current.kind = kind /\ Current.items = <<>>
  BY DEF Ready
<1>2. ref.kind \in {"interface", "instance"}
  <2>1. CASE kind = "await"
    BY <1>1, <2>1, AgendaAssumption DEF Target
  <2>2. CASE kind # "await"
    BY <1>1, <2>2, CurrentFormed DEF Target, WellFormed
  <2> QED BY <2>1, <2>2
<1>3. ~AsksForTarget(Current)
  BY <1>1 DEF AsksForTarget
<1>4. PICK i \in s : i.ref = ref
  BY <1>1, <1>3 DEF AgendaIsFormed
<1>5. Usable(ref)'
  BY <1>4, UsableStands DEF EveryUseIsMet
<1>6. IsExternal(ref) => [file |-> file, ns |-> ref.ns] \in imports'
  <2> SUFFICES ASSUME IsExternal(ref) PROVE [file |-> file, ns |-> ref.ns] \in imports'
    OBVIOUS
  <2>1. [file |-> file, ns |-> ref.ns] \in Imports(file, s)
    BY <1>4 DEF IsExternal, Imports
  <2> QED BY <2>1
<1> QED BY <1>2, <1>5, <1>6, IIDIsMet

LEMMA DeclareMethodMet ==
    ASSUME IInv, AgendaIsFormed, EveryUseIsMet, DeclareMethod
    PROVE  EveryUseIsMet'
<1>1. PICK s, file : s = scratch /\ file = Current.file
  OBVIOUS
<1>2. /\ agenda # <<>> /\ NextUnit /\ Current.kind = "method"
      /\ UNCHANGED <<meta, requestVars, declared>>
      /\ uses' = uses \cup Names(file, s) /\ imports' = imports \cup Imports(file, s)
      /\ \A m \in methods' : m \in methods \/ m.items = scratch
  BY <1>1 DEF DeclareMethod, Ready, EmitMethod
<1>3. PromisesStand
  BY <1>2, NextUnitStands DEF requestVars
<1>4. Imports(file, s) \subseteq imports' /\ imports \subseteq imports'
  BY <1>2
<1>5. \A u \in uses' : u \in uses \/ UseIsMet(u)'
  BY <1>1, <1>2, <1>3, <1>4, ScratchMet
<1> QED BY <1>2, <1>3, <1>4, <1>5, NextUnitMet

\* A class, an As method, a statics accessor and an Await name their target.
LEMMA DeclareForTargetMet ==
    ASSUME IInv, AgendaIsFormed, EveryUseIsMet,
           DeclareClass \/ DeclareQuery \/ DeclareStatics
    PROVE  EveryUseIsMet'
<1>1. PICK s, ref : s = scratch /\ ref = Current.ref
  OBVIOUS
<1>2. PICK kind \in {"class", "query", "static"} : Ready(kind)
  BY DEF DeclareClass, DeclareQuery, DeclareStatics
<1>3. agenda # <<>> /\ Current.kind = kind /\ ref = Target(Current)
  BY <1>1, <1>2 DEF Ready, Target
<1>4. /\ NextUnit /\ UNCHANGED <<meta, requestVars>>
      /\ declared \subseteq declared'
      /\ \A m \in methods' : m \in methods \/ m.items = scratch
  BY DEF DeclareClass, DeclareQuery, DeclareStatics, Declare, EmitMethod, fileVars
<1>5. \/ UNCHANGED <<uses, imports>>
      \/ /\ HasIID(ref)
         /\ uses' = uses \cup Names("classes", s) \cup NamesIID("classes", ref)
         /\ imports' = imports \cup Imports("classes", s)
  <2>1. Current.file = "classes"
    BY <1>3, CurrentFormed DEF WellFormed
  <2>2. CASE DeclareClass
    BY <1>1, <2>2 DEF DeclareClass
  <2>3. CASE DeclareQuery
    BY <1>1, <2>1, <2>3 DEF DeclareQuery, EmitMethod, fileVars
  <2>4. CASE DeclareStatics
    BY <1>1, <2>4 DEF DeclareStatics
  <2> QED BY <2>2, <2>3, <2>4
<1>6. PromisesStand
  BY <1>3, <1>4, NextUnitStands DEF requestVars
<1>7. CASE UNCHANGED <<uses, imports>>
  BY <1>3, <1>4, <1>6, <1>7, NextUnitMet
<1>8. CASE /\ HasIID(ref)
           /\ uses' = uses \cup Names("classes", s) \cup NamesIID("classes", ref)
           /\ imports' = imports \cup Imports("classes", s)
  <2>1. Imports("classes", s) \subseteq imports' /\ imports \subseteq imports'
    BY <1>8
  <2>2. \A u \in Names("classes", s) : UseIsMet(u)'
    BY <1>1, <1>6, <2>1, ScratchMet
  <2>3. \A u \in NamesIID("classes", ref) : UseIsMet(u)'
    BY <1>1, <1>2, <1>3, <1>6, <1>8, <2>1, TargetMet
  <2> QED BY <1>3, <1>4, <1>6, <1>8, <2>1, <2>2, <2>3, NextUnitMet
<1> QED BY <1>5, <1>7, <1>8

LEMMA AttachAwaitMet ==
    ASSUME IInv, AgendaIsFormed, EveryUseIsMet, AttachAwait
    PROVE  EveryUseIsMet'
<1>1. PICK s, H : s = scratch /\ H = CompletedHandlers(Current.owner)
  OBVIOUS
<1>2. /\ Ready("await") /\ agenda # <<>> /\ Current.kind = "await" /\ NextUnit
      /\ UNCHANGED <<meta, requestVars, declared>>
      /\ \A m \in methods' : m \in methods \/ m.items = scratch
      /\ AsyncInfo = Target(Current)
  BY DEF AttachAwait, Ready, EmitMethod, fileVars, Target
<1>3. \/ UNCHANGED <<uses, imports>>
      \/ /\ HasIID(AsyncInfo)
         /\ uses' = uses \cup Names("pinterfaces", s) \cup NamesIID("pinterfaces", AsyncInfo)
                \cup {[file |-> "pinterfaces", name |-> Ctor(d), ref |-> d] : d \in H}
         /\ imports' = imports \cup Imports("pinterfaces", s)
  <2>1. Current.file = "pinterfaces"
    BY <1>2, CurrentFormed DEF WellFormed
  <2> QED BY <1>1, <2>1 DEF AttachAwait, EmitMethod, fileVars
<1>4. PromisesStand
  BY <1>2, NextUnitStands DEF requestVars
<1>5. CASE UNCHANGED <<uses, imports>>
  BY <1>2, <1>4, <1>5, NextUnitMet
<1>6. CASE /\ HasIID(AsyncInfo)
           /\ uses' = uses \cup Names("pinterfaces", s) \cup NamesIID("pinterfaces", AsyncInfo)
                  \cup {[file |-> "pinterfaces", name |-> Ctor(d), ref |-> d] : d \in H}
           /\ imports' = imports \cup Imports("pinterfaces", s)
  <2>1. Imports("pinterfaces", s) \subseteq imports' /\ imports \subseteq imports'
    BY <1>6
  <2>2. \A u \in Names("pinterfaces", s) : UseIsMet(u)'
    BY <1>1, <1>4, <2>1, ScratchMet
  <2>3. \A u \in NamesIID("pinterfaces", AsyncInfo) : UseIsMet(u)'
    BY <1>1, <1>2, <1>4, <1>6, <2>1, TargetMet
  <2>4. \A d \in H : UseIsMet([file |-> "pinterfaces", name |-> Ctor(d), ref |-> d])'
    <3> SUFFICES ASSUME NEW d \in H
                 PROVE  UseIsMet([file |-> "pinterfaces", name |-> Ctor(d), ref |-> d])'
      OBVIOUS
    <3>1. d.kind = "delegate" /\ \E m \in methods : \E i \in m.items : i.ref = d
      BY <1>1 DEF CompletedHandlers
    <3>2. Usable(d)
      BY <3>1 DEF EveryUseIsMet
    <3>3. Promised(Ctor(d), d)
      BY <3>1, <3>2 DEF Usable, IsExternal, NamesOf, HandlerNames
    <3>4. Promised(Ctor(d), d)'
      BY <1>4, <3>3 DEF PromisesStand
    <3> QED BY <3>1, <3>4 DEF UseIsMet, IsExternal
  <2>5. \A u \in uses' : u \in uses \/ UseIsMet(u)'
    BY <1>6, <2>2, <2>3, <2>4
  <2> QED BY <1>2, <1>4, <2>1, <2>5, NextUnitMet
<1> QED BY <1>3, <1>5, <1>6

\* A factory function names what the method it wraps has resolved.
LEMMA DeclareFactoryMet ==
    ASSUME IInv, AgendaIsFormed, EveryUseIsMet, DeclareFactory
    PROVE  EveryUseIsMet'
<1>1. PICK ref, W : ref = Current.ref /\ W = Wrapped(Current)
  OBVIOUS
<1>2. /\ agenda # <<>> /\ Current.kind = "factory" /\ NextUnit
      /\ UNCHANGED <<meta, requestVars, methods>> /\ declared \subseteq declared'
  BY DEF DeclareFactory, Ready, Declare
<1>3. \/ UNCHANGED <<uses, imports>>
      \/ /\ CanWrap(Current)
         /\ uses' = uses \cup NamesIID("classes", ref)
                \cup UNION {Names("classes", m.items) : m \in W}
         /\ imports' = imports \cup UNION {Imports("classes", m.items) : m \in W}
  BY <1>1 DEF DeclareFactory
<1>4. PromisesStand
  BY <1>2, NextUnitStands DEF requestVars
<1>5. CASE UNCHANGED <<uses, imports>>
  BY <1>2, <1>4, <1>5, NextUnitMet
<1>6. CASE /\ CanWrap(Current)
           /\ uses' = uses \cup NamesIID("classes", ref)
                  \cup UNION {Names("classes", m.items) : m \in W}
           /\ imports' = imports \cup UNION {Imports("classes", m.items) : m \in W}
  <2>1. ref.kind = "interface" /\ ref.ns = Home /\ InRegistry(ref) /\ HasIID(ref)
    BY <1>1, <1>2, <1>6, CurrentFormed DEF CanWrap, WellFormed
  <2>2. Usable(ref)'
    BY <1>4, <2>1, RegisteredIsUsable, UsableStands
  <2>3. \A u \in NamesIID("classes", ref) : UseIsMet(u)'
    BY <2>1, <2>2, IIDIsMet DEF IsExternal
  <2>4. \A m \in W : \A u \in Names("classes", m.items) : UseIsMet(u)'
    <3> SUFFICES ASSUME NEW m \in W
                 PROVE  \A u \in Names("classes", m.items) : UseIsMet(u)'
      OBVIOUS
    <3>1. m \in methods
      BY <1>1 DEF Wrapped
    <3>2. \A i \in m.items : Usable(i.ref)'
      BY <1>4, <3>1, UsableStands DEF EveryUseIsMet
    <3>3. Imports("classes", m.items) \subseteq imports'
      BY <1>6
    <3> QED BY <3>2, <3>3, NamesAreMet
  <2>5. \A u \in uses' : u \in uses \/ UseIsMet(u)'
    BY <1>6, <2>3, <2>4
  <2>6. imports \subseteq imports' /\ methods' = methods
    BY <1>2, <1>6
  <2> QED BY <1>2, <1>4, <2>5, <2>6, NextUnitMet
<1> QED BY <1>3, <1>5, <1>6

\* The constructor of a collection names the IID variables of its siblings.
LEMMA DeclareCollectionCtorMet ==
    ASSUME IInv, AgendaIsFormed, EveryUseIsMet, DeclareCollectionCtor
    PROVE  EveryUseIsMet'
<1>1. PICK ref, s : ref = Current.ref /\ s = scratch
  OBVIOUS
<1> DEFINE siblings == {j \in s : j.as = "sibling"}
           elements == {j \in s : j.as = "element"}
<1>2. /\ agenda # <<>> /\ Current.kind = "siblings" /\ NextUnit
      /\ UNCHANGED <<meta, requestVars, methods>> /\ declared \subseteq declared'
      /\ uses' = uses \cup NamesIID("pinterfaces", ref)
             \cup Names("pinterfaces", elements)
             \cup UNION {NamesIID("pinterfaces", i.ref) : i \in siblings}
      /\ imports' = imports \cup Imports("pinterfaces", s)
  BY <1>1 DEF DeclareCollectionCtor, Ready, Declare
<1>3. PromisesStand
  BY <1>2, NextUnitStands DEF requestVars
<1>4. ref.kind = "instance" /\ Usable(ref)'
  BY <1>1, <1>2, <1>3, CurrentFormed, UsableStands DEF EveryUseIsMet
<1>5. \A u \in NamesIID("pinterfaces", ref) : UseIsMet(u)'
  BY <1>4, IIDIsMet DEF IsExternal
<1>6. \A i \in s : Usable(i.ref)'
  BY <1>1, <1>3, UsableStands DEF EveryUseIsMet
<1>7. \A i \in siblings : \A u \in NamesIID("pinterfaces", i.ref) : UseIsMet(u)'
  <2> SUFFICES ASSUME NEW i \in siblings
               PROVE  \A u \in NamesIID("pinterfaces", i.ref) : UseIsMet(u)'
    OBVIOUS
  <2>1. i.ref.kind = "instance"
    BY <1>1 DEF IInv, TypeOK, Items
  <2> QED BY <1>6, <2>1, IIDIsMet DEF IsExternal
<1>8. \A u \in Names("pinterfaces", elements) : UseIsMet(u)'
  <2>1. Imports("pinterfaces", elements) \subseteq imports'
    BY <1>2 DEF Imports
  <2> QED BY <1>6, <2>1, NamesAreMet
<1>9. \A u \in uses' : u \in uses \/ UseIsMet(u)'
  <2>1. \A u : u \in uses' => \/ u \in uses \/ u \in NamesIID("pinterfaces", ref)
                              \/ \E i \in siblings : u \in NamesIID("pinterfaces", i.ref)
                              \/ u \in Names("pinterfaces", elements)
    BY <1>2
  <2> HIDE DEF siblings, elements
  <2> QED BY <1>5, <1>7, <1>8, <2>1
<1>10. imports \subseteq imports'
  BY <1>2
<1> QED BY <1>2, <1>3, <1>9, <1>10, NextUnitMet

LEMMA ClaimMet ==
    ASSUME IInv, AgendaIsFormed, EveryUseIsMet, ClaimCollectionCtor
    PROVE  EveryUseIsMet'
<1>1. /\ agenda # <<>> /\ Current.kind = "element"
      /\ UNCHANGED <<meta, requestVars, declared, fileVars>>
  BY DEF ClaimCollectionCtor, Ready
<1>2. CASE NextUnit
  BY <1>1, <1>2, QuietMet
<1>3. CASE ~NextUnit
  <2>1. AgendaStands /\ scratch' = scratch
    BY <1>3, ClaimStands DEF ClaimCollectionCtor
  <2>2. PromisesStand
    BY <1>1, <2>1, GrowingStands DEF AgendaStands, requestVars
  <2>3. \A v \in ToSet(agenda') : v.kind \in {"element", "siblings"} =>
          v.ref.kind = "instance" /\ (Usable(v.ref) \/ Usable(v.ref)')
    BY <2>1, StandingUnits
  <2> QED BY <1>1, <2>1, <2>2, <2>3, UsesStayMet DEF requestVars, fileVars
<1> QED BY <1>2, <1>3

LEMMA StutterMet ==
    ASSUME IInv, AgendaIsFormed, EveryUseIsMet, BeginHandler \/ UNCHANGED vars
    PROVE  EveryUseIsMet'
<1>1. UNCHANGED <<meta, agenda, scratch, requestVars, declared, fileVars>>
  BY DEF BeginHandler, vars, requestVars, fileVars
<1>2. AgendaStands
  BY <1>1, UnchangedStands
<1>3. PromisesStand
  BY <1>1, <1>2, GrowingStands DEF AgendaStands, requestVars
<1>4. \A v \in ToSet(agenda') : v.kind \in {"element", "siblings"} =>
        v.ref.kind = "instance" /\ (Usable(v.ref) \/ Usable(v.ref)')
  BY <1>2, StandingUnits
<1> QED BY <1>1, <1>3, <1>4, UsesStayMet DEF requestVars, fileVars

LEMMA InitMet == Init => EveryUseIsMet
<1> SUFFICES ASSUME Init PROVE EveryUseIsMet
  OBVIOUS
<1>1. meta \in Metadata /\ agenda = Agenda(meta)
  BY DEF Init
<1>2. \A k \in DOMAIN meta.interfaces : Usable(meta.interfaces[k].ref)
  <2> SUFFICES ASSUME NEW k \in DOMAIN meta.interfaces
               PROVE  Usable(meta.interfaces[k].ref)
    OBVIOUS
  <2>1. PICK i \in DOMAIN agenda : agenda[i].kind = "interface"
                                   /\ agenda[i].ref = meta.interfaces[k].ref
    BY <1>1, AgendaAssumption
  <2>2. agenda[i] \in Upcoming
    BY <2>1 DEF Upcoming, ToSet
  <2>3. meta.interfaces[k].ref \in {u.ref : u \in Upcoming}
    BY <2>1, <2>2
  <2> QED BY <2>3 DEF Usable, Promised
<1>3. \A u \in ToSet(agenda) : u.kind \notin {"element", "siblings"}
  <2>1. agenda \in Seq(UnitsOf(Kinds))
    BY <1>1, PackageAssumption
  <2>2. \A u \in UnitsOf(Kinds) : u.kind # "siblings"
    BY DEF UnitsOf, Kinds
  <2>3. \A i \in DOMAIN agenda : agenda[i].kind # "siblings"
    BY <2>1, <2>2, ElementOfSeq
  <2> QED BY <1>1, <2>3, AgendaAssumption DEF ToSet
<1> QED BY <1>2, <1>3 DEF EveryUseIsMet, Init

LEMMA NextMet ==
    ASSUME IInv, AgendaIsFormed, IIDsAreFree, EveryUseIsMet, [Next]_vars
    PROVE  EveryUseIsMet'
BY SkipMet, DeclareTypeMet, DeclareMethodMet, DeclareForTargetMet, DeclareFactoryMet,
   AttachAwaitMet, ClaimMet, DeclareCollectionCtorMet, BuildMet, ResolveDeclaredMet,
   ReuseHandlerMet, RequestMet, BindMet, StutterMet DEF Next, Finish

\* The generated package compiles: whatever the members request of one another, in
\* the complete package each identifier a file names is declared with the meaning the
\* file has in mind, and each package it names is imported by that file.
THEOREM AlwaysNamesResolve == Spec => []NamesResolve
<1> DEFINE Inv == IInv /\ AgendaIsFormed /\ IIDsAreFree /\ EveryUseIsMet
<1>1. Init => Inv
  BY InitIInv, InitFormed, InitFree, InitMet
<1>2. Inv /\ [Next]_vars => Inv'
  BY NextIInv, AgendaMoves, NextFree, NextMet
<1>3. Inv => NamesResolve
  <2> SUFFICES ASSUME Inv, Done, NEW u \in uses
               PROVE  IF u.ref.kind = "interface" /\ u.ref.ns # Home
                        THEN [file |-> u.file, ns |-> u.ref.ns] \in imports
                        ELSE \E d \in declared : d.name = u.name /\ d.ref = u.ref
    BY DEF NamesResolve
  <2>1. UseIsMet(u)
    BY DEF EveryUseIsMet
  <2>2. ToSet(queue) = {} /\ Upcoming = {}
    BY DEF Done, Upcoming, ToSet
  <2>3. Promised(u.name, u.ref) => \E d \in declared : d.name = u.name /\ d.ref = u.ref
    BY <2>2 DEF Promised
  <2> QED BY <2>1, <2>3 DEF UseIsMet, IsExternal
<1> QED BY <1>1, <1>2, <1>3, PTL DEF Spec

-----------------------------------------------------------------------------
(* Whatever is offered leaves a trace.                                     *)

\* What a unit is does not depend on what it still asks for.
LEMMA SameId ==
    ASSUME NEW u \in U, NEW v \in U, Id(u) = Id(v)
    PROVE  u.kind = v.kind /\ u.owner = v.owner /\ u.name = v.name
<1>1. \A w \in U : Id(w).kind = w.kind /\ Id(w).owner = w.owner /\ Id(w).name = w.name
  BY DEF U, UnitsOf, Id
<1> QED BY <1>1

LEMMA OfferedUnits ==
    ASSUME IInv, meta \in Metadata
    PROVE  \A u \in Offered : u \in U /\ u.kind # "siblings"
<1>1. UnitsOf(Kinds) \subseteq U /\ \A u \in UnitsOf(Kinds) : u.kind # "siblings"
  BY DEF U, UnitsOf, Kinds
<1>2. \A u \in ToSet(Agenda(meta)) : u \in UnitsOf(Kinds)
  BY PackageAssumption, ElementOfSeq DEF ToSet
<1>3. \A e \in instances : \A u \in ToSet(InstanceUnits(e[2])) : u \in UnitsOf(Kinds)
  BY PackageAssumption, ElementOfSeq DEF IInv, TypeOK, ToSet
<1> QED BY <1>1, <1>2, <1>3 DEF Offered

\* A class type appears when the unit of the class declares it.
LEMMA OnlyClassesEmit ==
    ASSUME IInv, [Next]_vars, NEW class, Emitted(class)', ~Emitted(class)
    PROVE  agenda # <<>> /\ Current.kind = "class" /\ Current.name = class
<1>1. PICK d \in declared' : d.name = class /\ d.by # None /\ d.by.kind = "class"
  BY DEF Emitted
<1>2. d \notin declared
  BY <1>1 DEF Emitted
<1>3. agenda # <<>> => Id(Current).kind = Current.kind
  <2>1. agenda # <<>> => Current \in U
    BY EmptySeq, ElementOfSeq DEF IInv, TypeOK, U, Current
  <2> QED BY <2>1 DEF U, UnitsOf, Id
<1>4. CASE DeclareClass
  <2>1. agenda # <<>> /\ Current.kind = "class" /\ d.name = Current.name
    BY <1>2, <1>4 DEF DeclareClass, Ready, Declare
  <2> QED BY <1>1, <2>1
<1>5. CASE DeclareType \/ DeclareValue \/ DeclareStatics \/ DeclareFactory \/ DeclareCollectionCtor
  <2>1. /\ d.by \in {None, Id(Current)}
        /\ agenda # <<>> /\ Current.kind # "class"
    BY <1>2, <1>5 DEF DeclareType, DeclareValue, DeclareStatics, DeclareFactory,
                      DeclareCollectionCtor, Ready, Declare
  <2> QED BY <1>1, <1>3, <2>1
<1>6. CASE BuildInstantiation \/ BindHandler
  <2>1. d.by = None
    BY <1>2, <1>6 DEF BuildInstantiation, BindHandler, Declare
  <2> QED BY <1>1, <2>1
<1>7. CASE UNCHANGED declared
  BY <1>2, <1>7
<1>8. \/ DeclareClass \/ DeclareType \/ DeclareValue \/ DeclareStatics \/ DeclareFactory
      \/ DeclareCollectionCtor \/ BuildInstantiation \/ BindHandler \/ UNCHANGED declared
  BY DEF Next, Finish, vars, ResolveDeclared, RequestInstantiation, ReuseHandler, BeginHandler,
         Skip, DeclareMethod, DropWithClass, DeclareQuery, AttachAwait, ClaimCollectionCtor
<1> QED BY <1>4, <1>5, <1>6, <1>7, <1>8

LEMMA TracesGrow ==
    ASSUME [Next]_vars
    PROVE  /\ diags \subseteq diags' /\ declared \subseteq declared' /\ methods \subseteq methods'
           /\ meta' = meta
BY DEF Next, Finish, vars, ResolveDeclared, RequestInstantiation, ReuseHandler, BeginHandler,
       BindHandler, Skip, DeclareType, DeclareValue, DeclareMethod, DeclareClass, DropWithClass,
       DeclareQuery, DeclareStatics, DeclareFactory, BuildInstantiation, AttachAwait,
       ClaimCollectionCtor, DeclareCollectionCtor, Declare, EmitMethod, fileVars

\* What accounts for a unit accounts for it from then on: the type of a class is
\* not made after its members were dropped.
LEMMA AccountedStays ==
    ASSUME IInv, AgendaIsFormed, [Next]_vars, NEW u, Accounted(u)
    PROVE  Accounted(u)'
<1>1. /\ diags \subseteq diags' /\ declared \subseteq declared' /\ methods \subseteq methods'
  BY TracesGrow
<1>2. CASE u.kind \in {"await", "element"}
  BY <1>2 DEF Accounted
<1>3. CASE Id(u) \in diags \cup {d.by : d \in declared} \cup {m.by : m \in methods}
  <2>1. Id(u) \in diags' \cup {d.by : d \in declared'} \cup {m.by : m \in methods'}
    BY <1>1, <1>3
  <2> QED BY <2>1 DEF Accounted
<1>4. CASE /\ u.kind \in {"ctor", "query"} /\ ~Emitted(u.owner)
           /\ \A v \in ToSet(agenda) : ~(v.kind = "class" /\ v.name = u.owner)
  <2>1. \A v \in ToSet(agenda') : ~(v.kind = "class" /\ v.name = u.owner)
    <3>1. CASE AgendaStands
      BY <1>4, <3>1 DEF AgendaStands
    <3>2. CASE agenda # <<>> /\ NextUnit
      BY <1>4, <3>2, NextUnitSets
    <3>3. CASE BuildInstantiation
      <4>1. \A v \in ToSet(agenda') : v.kind # "class"
        BY <3>3, BuildFormed, UnitsOfInstance DEF ToSet
      <4> QED BY <4>1
    <3> QED BY <3>1, <3>2, <3>3, AgendaMoves
  <2>2. ~Emitted(u.owner)'
    <3>1. agenda # <<>> => Current \in ToSet(agenda)
      BY CurrentFormed
    <3> QED BY <1>4, <3>1, OnlyClassesEmit
  <2> QED BY <1>4, <2>1, <2>2 DEF Accounted
<1> QED BY <1>2, <1>3, <1>4 DEF Accounted

\* The unit that is finished is declared, emitted or reported, or goes with its class.
LEMMA FinishedIsAccounted ==
    ASSUME IInv, AgendaIsFormed, agenda # <<>>, NextUnit, [Next]_vars, agenda' # agenda,
           NEW u, u = Current, u.kind # "siblings"
    PROVE  Accounted(u)'
<1>0. /\ Id(u) \in diags' => Accounted(u)'
      /\ \A d \in declared' : d.by = Id(u) => Accounted(u)'
      /\ \A m \in methods' : m.by = Id(u) => Accounted(u)'
  BY DEF Accounted
<1>1. CASE Skip
  BY <1>1 DEF Skip, Accounted
<1>2. CASE DeclareType \/ DeclareValue \/ DeclareClass \/ DeclareStatics \/ DeclareFactory
  <2>1. \/ Id(u) \in diags'
        \/ \E n, r : [name |-> n, ref |-> r, by |-> Id(u)] \in declared'
    <3>1. CASE DeclareType
      BY <3>1 DEF DeclareType, Declare
    <3>2. CASE DeclareValue \/ DeclareClass \/ DeclareStatics
      <4>1. \/ Id(Current) \in diags'
            \/ Declare({Current.name}, None, Id(Current))
        BY <3>2 DEF DeclareValue, DeclareClass, DeclareStatics
      <4> QED BY <4>1 DEF Declare
    <3>3. CASE DeclareFactory
      <4>1. \/ Id(Current) \in diags'
            \/ Declare({FreeName(Current)}, None, Id(Current))
        BY <3>3 DEF DeclareFactory
      <4> QED BY <4>1 DEF Declare
    <3> QED BY <1>2, <3>1, <3>2, <3>3
  <2> QED BY <1>0, <2>1
<1>3. CASE DeclareMethod \/ DeclareQuery
  <2>1. \/ Id(u) \in diags'
        \/ \E o, n, s : [owner |-> o, name |-> n, by |-> Id(u), items |-> s] \in methods'
    BY <1>3 DEF DeclareMethod, DeclareQuery, EmitMethod
  <2> QED BY <1>0, <2>1
<1>4. CASE AttachAwait \/ ClaimCollectionCtor
  BY <1>4 DEF AttachAwait, ClaimCollectionCtor, Ready, Accounted
<1>5. CASE DropWithClass
  <2>1. CASE Current.kind = "factory"
    BY <1>5, <2>1 DEF DropWithClass, Accounted
  <2>2. CASE Current.kind # "factory"
    <3>1. /\ u.kind \in {"ctor", "query"} /\ ~Emitted(u.owner) /\ declared' = declared
      BY <1>5, <2>2 DEF DropWithClass
    <3>2. ~Emitted(u.owner)'
      BY <3>1 DEF Emitted
    <3>3. \A j \in DOMAIN agenda : agenda[j].kind = "class" /\ agenda[j].name = u.owner => j < 1
      BY <3>1, CurrentFormed DEF AgendaIsFormed
    <3>4. \A v \in ToSet(agenda) : ~(v.kind = "class" /\ v.name = u.owner)
      <4>1. \A j \in DOMAIN agenda : ~(j < 1)
        BY LenProperties DEF IInv, TypeOK
      <4> QED BY <3>3, <4>1 DEF ToSet
    <3>5. \A v \in ToSet(agenda') : ~(v.kind = "class" /\ v.name = u.owner)
      BY <3>4, NextUnitSets
    <3> QED BY <3>1, <3>2, <3>5 DEF Accounted
  <2> QED BY <2>1, <2>2
<1>6. CASE DeclareCollectionCtor
  BY <1>6 DEF DeclareCollectionCtor, Ready
<1>7. CASE BuildInstantiation \/ BeginHandler \/ UNCHANGED vars
  BY <1>7 DEF BuildInstantiation, BeginHandler, vars
<1>8. CASE ResolveDeclared \/ RequestInstantiation \/ ReuseHandler \/ BindHandler
  <2>1. UNCHANGED agenda \/ (Current.items # <<>> /\ NextItem)
    BY <1>8 DEF ResolveDeclared, RequestInstantiation, ReuseHandler, BindHandler, Resolved,
                Pending, IInv, NamesAreHeld
  <2>2. Len(agenda') = Len(agenda)
    BY <2>1, NextItemKeeps
  <2>3. Len(agenda') # Len(agenda)
    BY HeadTailProperties, EmptySeq DEF NextUnit, IInv, TypeOK
  <2> QED BY <2>2, <2>3
<1> QED BY <1>1, <1>2, <1>3, <1>4, <1>5, <1>6, <1>7, <1>8 DEF Next, Finish

LEMMA InitMislaid == Init => NothingIsMislaid
<1> SUFFICES ASSUME Init PROVE NothingIsMislaid
  OBVIOUS
<1>1. \A u \in Offered : u \in ToSet(agenda)
  BY DEF Init, Offered
<1> QED BY <1>1 DEF NothingIsMislaid, ToCome

\* An offered unit stays to come until it is finished.
LEMMA NextMislaid ==
    ASSUME IInv, AgendaIsFormed, meta \in Metadata, NothingIsMislaid, [Next]_vars
    PROVE  NothingIsMislaid'
<1> SUFFICES ASSUME NEW u \in Offered' PROVE ToCome(u)' \/ Accounted(u)'
  BY DEF NothingIsMislaid
<1>1. \/ instances' = instances /\ ToSet(queue) \subseteq ToSet(queue')
      \/ RequestInstantiation
      \/ BuildInstantiation
  BY DEF Next, Finish, vars, ResolveDeclared, ReuseHandler, BeginHandler, BindHandler, Skip,
         DeclareType, DeclareValue, DeclareMethod, DeclareClass, DropWithClass, DeclareQuery,
         DeclareStatics, DeclareFactory, AttachAwait, ClaimCollectionCtor,
         DeclareCollectionCtor, requestVars
<1>2. queue \in Seq(Instances)
  BY DEF IInv, TypeOK
<1>3. CASE u \notin Offered
  <2>1. RequestInstantiation
    BY <1>1, <1>3, TracesGrow DEF Offered, BuildInstantiation
  <2>2. PICK r : r = Want.ref
    OBVIOUS
  <2>3. /\ Pending /\ Resolved /\ r.kind = "instance" /\ CanInstantiate(r)
        /\ instances' = instances \cup {<<Mangled[r], r>>} /\ meta' = meta
        /\ queue' = IF NameSeen(instances, r) THEN queue ELSE Append(queue, r)
    BY <2>1, <2>2 DEF RequestInstantiation, Accepts
  <2>4. r \in Instances
    BY <2>2, <2>3, ResolvedKeeps DEF Items, Instances
  <2>5. <<Mangled[r], r>> \notin instances /\ u \in ToSet(InstanceUnits(r))
    BY <1>3, <2>3 DEF Offered
  <2>6. queue' = Append(queue, r)
    BY <2>3, <2>5 DEF CanInstantiate
  <2>7. r \in ToSet(queue')
    BY <1>2, <2>4, <2>6, AppendProperties DEF ToSet
  <2> QED BY <2>5, <2>7 DEF ToCome
<1>4. CASE u \in Offered /\ Accounted(u)
  BY <1>4, AccountedStays
<1>5. CASE u \in Offered /\ \E r \in ToSet(queue) : u \in ToSet(InstanceUnits(r))
  <2>1. PICK r \in ToSet(queue) : u \in ToSet(InstanceUnits(r))
    BY <1>5
  <2>2. CASE r \in ToSet(queue')
    BY <2>1, <2>2 DEF ToCome
  <2>3. CASE r \notin ToSet(queue')
    <3>1. ~RequestInstantiation
      <4>1. RequestInstantiation => Want.ref \in Instances
        BY ResolvedKeeps DEF RequestInstantiation, Items, Instances
      <4> QED BY <1>2, <2>3, <4>1, AppendProperties DEF RequestInstantiation, ToSet
    <3>2. BuildInstantiation
      BY <1>1, <2>3, <3>1
    <3>3. r = Head(queue)
      <4>1. /\ queue # <<>> /\ queue' = Tail(queue)
        BY <3>2 DEF BuildInstantiation
      <4>2. /\ Tail(queue) \in Seq(Instances) /\ Len(Tail(queue)) = Len(queue) - 1
            /\ \A i \in 1..Len(Tail(queue)) : Tail(queue)[i] = queue[i + 1]
            /\ Len(queue) \in Nat
        BY <1>2, <4>1, HeadTailProperties
      <4>3. \A i \in DOMAIN queue : i = 1 \/ (i - 1 \in DOMAIN Tail(queue) /\ Tail(queue)[i - 1] = queue[i])
        BY <1>2, <4>2
      <4>4. queue[1] = Head(queue)
        BY <1>2, <4>1
      <4> QED BY <2>3, <4>1, <4>3, <4>4 DEF ToSet
    <3>4. u \in ToSet(agenda')
      BY <2>1, <3>2, <3>3, BuildFormed
    <3> QED BY <3>4 DEF ToCome
  <2> QED BY <2>2, <2>3
<1>6. CASE u \in Offered /\ ~Accounted(u) /\ \E v \in ToSet(agenda) : Id(v) = Id(u)
  <2>1. PICK v \in ToSet(agenda) : Id(v) = Id(u)
    BY <1>6
  <2>2. u \in U /\ v \in U /\ u.kind # "siblings"
    <3>1. agenda \in Seq(U)
      BY DEF IInv, TypeOK, U
    <3>2. v \in U
      BY <3>1, ElementOfSeq DEF ToSet
    <3> QED BY <1>6, <3>2, OfferedUnits
  <2>3. u.kind = v.kind /\ u.owner = v.owner
    BY <2>1, <2>2, SameId
  <2>4. v.kind # "element"
    BY <1>6, <2>3 DEF Accounted
  <2>5. CASE \E w \in ToSet(agenda') : Id(w) = Id(v)
    BY <2>1, <2>5 DEF ToCome
  <2>6. CASE ~\E w \in ToSet(agenda') : Id(w) = Id(v)
    <3>1. ~AgendaStands
      BY <2>4, <2>6 DEF AgendaStands
    <3>2. ~BuildInstantiation
      BY <2>1 DEF BuildInstantiation, ToSet
    <3>3. agenda # <<>> /\ NextUnit
      BY <3>1, <3>2, AgendaMoves
    <3>4. v = Current
      BY <2>6, <3>3, NextUnitSets
    <3>5. agenda' # agenda
      BY <2>6
    <3>6. Accounted(v)'
      BY <2>2, <2>3, <3>3, <3>4, <3>5, FinishedIsAccounted
    <3>7. Accounted(u)'
      BY <2>1, <2>3, <3>6 DEF Accounted
    <3> QED BY <3>7
  <2> QED BY <2>5, <2>6
<1> QED BY <1>3, <1>4, <1>5, <1>6 DEF NothingIsMislaid, ToCome

\* Whatever the metadata offers, and whatever its instantiations add to that, is in
\* the complete package generated or reported: no slot, member, function or class is
\* lost without a diagnostic.
THEOREM AlwaysNothingIsLostSilently == Spec => []NothingIsLostSilently
<1> DEFINE Inv == IInv /\ AgendaIsFormed /\ meta \in Metadata /\ NothingIsMislaid
<1>1. Init => Inv
  BY InitIInv, InitFormed, InitMislaid DEF Init
<1>2. Inv /\ [Next]_vars => Inv'
  BY NextIInv, AgendaMoves, TracesGrow, NextMislaid
<1>3. Inv => NothingIsLostSilently
  <2>1. Done => \A u : ~ToCome(u)
    BY DEF Done, ToCome, ToSet
  <2> QED BY <2>1 DEF NothingIsMislaid, NothingIsLostSilently, Accounted
<1> QED BY <1>1, <1>2, <1>3, PTL DEF Spec
=============================================================================
