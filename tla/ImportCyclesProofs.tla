------------------------- MODULE ImportCyclesProofs -------------------------
(***************************************************************************)
(* For any registry, over any number of namespaces: what                   *)
(* ComputeBlockedImports leaves holds no circle, and each edge it severs   *)
(* was the lightest of one.                                                *)
(***************************************************************************)
EXTENDS ImportCycles, FiniteSetTheorems, SequenceTheorems, TLAPS

Entries == [node : Namespaces, todo : SUBSET Namespaces]

\* A set of natural numbers that is not empty has a least one.
LEMMA LeastNatural ==
    ASSUME NEW K, K \subseteq Nat, K # {}
    PROVE  \E m \in K : \A k \in K : m <= k
<1> DEFINE Below == {1 .. k : k \in K}
<1>1. \A k \in K : 1 .. k \in SUBSET Nat /\ IsFiniteSet(1 .. k)
  <2> SUFFICES ASSUME NEW k \in K
               PROVE  1 .. k \in SUBSET Nat /\ IsFiniteSet(1 .. k)
    OBVIOUS
  <2>1. 1 \in Int /\ k \in Int
    OBVIOUS
  <2> QED BY <2>1, FS_Interval
<1>2. Below \subseteq FiniteSubsetsOf(Nat) /\ Below # {}
  BY <1>1 DEF FiniteSubsetsOf
<1>3. \E A \in Below : \A B \in Below : <<B, A>> \notin StrictSubsetOrdering(Nat)
  <2> HIDE DEF Below
  <2> QED BY <1>2, FS_StrictSubsetOrderingWellFounded, WFMin, Zenon
<1>4. PICK m \in K : \A k \in K : <<1 .. k, 1 .. m>> \notin StrictSubsetOrdering(Nat)
  BY <1>3
<1>5. ASSUME NEW k \in K, k < m PROVE FALSE
  <2>1. 1 .. k \subseteq 1 .. m /\ m \in 1 .. m /\ m \notin 1 .. k
    BY <1>5
  <2>2. 1 .. k \in SUBSET Nat /\ 1 .. m \in SUBSET Nat /\ 1 .. k # 1 .. m
    BY <2>1
  <2> QED BY <1>4, <2>1, <2>2 DEF StrictSubsetOrdering
<1> QED BY <1>4, <1>5

\* A set that a path does not leave holds the path from its first member on.
LEMMA PathStaysInside ==
    ASSUME NEW c \in Seq(Namespaces), NEW T,
           NEW i \in 1 .. Len(c), c[i] \in T,
           \A j \in 1 .. Len(c) - 1 : c[j] \in T => c[j + 1] \in T
    PROVE  \A k \in i .. Len(c) : c[k] \in T
<1> DEFINE Outside == {k \in i .. Len(c) : c[k] \notin T}
<1> SUFFICES ASSUME Outside # {} PROVE FALSE
  OBVIOUS
<1>1. PICK m \in Outside : \A k \in Outside : m <= k
  <2>1. Outside \subseteq Nat
    OBVIOUS
  <2> HIDE DEF Outside
  <2> QED BY <2>1, LeastNatural
<1>2. m # i /\ m - 1 \in i .. Len(c) /\ m - 1 \in 1 .. Len(c) - 1
  OBVIOUS
<1>3. c[m - 1] \in T
  BY <1>1, <1>2
<1>4. c[(m - 1) + 1] \in T
  BY <1>2, <1>3
<1> QED BY <1>4

\* Every edge of a circle is on a circle, in the sense of OnCircle.
LEMMA CircleEdgesAreOnCircle ==
    ASSUME NEW c \in Seq(Namespaces), Len(c) >= 2, c[1] = c[Len(c)],
           NEW E, \A j \in 1 .. Len(c) - 1 : <<c[j], c[j + 1]>> \in E,
           NEW i \in 1 .. Len(c) - 1
    PROVE  OnCircle(E, <<c[i], c[i + 1]>>)
<1> SUFFICES ASSUME NEW T \in SUBSET Namespaces,
                    c[i + 1] \in T,
                    \A x \in E : x[1] \in T => x[2] \in T
             PROVE  c[i] \in T
  BY DEF OnCircle
<1>1. \A j \in 1 .. Len(c) - 1 : c[j] \in T => c[j + 1] \in T
  OBVIOUS
<1>2. \A k \in i + 1 .. Len(c) : c[k] \in T
  <2>1. i + 1 \in 1 .. Len(c)
    OBVIOUS
  <2> QED BY <1>1, <2>1, PathStaysInside
<1>3. c[1] \in T
  BY <1>2
<1>4. \A k \in 1 .. Len(c) : c[k] \in T
  <2>1. 1 \in 1 .. Len(c)
    OBVIOUS
  <2> QED BY <1>1, <1>3, <2>1, PathStaysInside
<1> QED BY <1>4

-----------------------------------------------------------------------------
\* The search starts with nothing severed, nothing visited and nothing found.
LEMMA InitIInv == Init => IInv
<1> SUFFICES ASSUME Init PROVE IInv
  OBVIOUS
<1>1. TypeOK
  BY ImportAssumption DEF Init, TypeOK
<1>2. StackIsPath /\ TriedAreFinished /\ CycleIsCircle
  BY DEF Init, StackIsPath, TriedAreFinished, CycleIsCircle
<1>3. Done = {}
  BY DEF Init, Done
<1>4. FinishedAreAcyclic
  BY <1>3 DEF FinishedAreAcyclic, Acyclic
<1> QED BY <1>1, <1>2, <1>4 DEF IInv, Init

\* A first visit on an empty stack.
LEMMA VisitRootIInv ==
    ASSUME IInv, NEW n \in Namespaces, VisitRoot(n)
    PROVE  IInv'
<1> USE DEF VisitRoot
<1>1. Visit(n) \in Entries /\ Len(stack') = 1 /\ stack'[1] = Visit(n)
  BY DEF Visit, Entries, Targets
<1>2. TypeOK'
  BY <1>1 DEF IInv, TypeOK, Entries, Counted
<1>3. \A m \in Namespaces : color[m] # "inStack"
  BY DEF IInv, StackIsPath
<1>4. StackIsPath'
  BY <1>1, <1>3 DEF IInv, TypeOK, StackIsPath, Visit
<1>5. TriedAreFinished'
  BY <1>1 DEF TriedAreFinished, Visit, Targets
<1>6. Done' = Done
  BY DEF IInv, TypeOK, Done
<1>7. FinishedAreAcyclic'
  BY <1>6 DEF IInv, FinishedAreAcyclic, Acyclic, Targets
<1> QED BY <1>2, <1>4, <1>5, <1>7 DEF IInv, CycleIsCircle, CycleEdge, Counted

\* The innermost visit, when there is one.
LEMMA TopIsEntry ==
    ASSUME TypeOK, stack # <<>>
    PROVE  /\ stack \in Seq(Entries) /\ Len(stack) \in Nat \ {0}
           /\ Top = stack[Len(stack)] /\ Top \in Entries
           /\ Top.node \in Namespaces /\ Top.todo \subseteq Namespaces
<1>1. stack \in Seq(Entries)
  BY DEF TypeOK, Entries
<1>2. Len(stack) \in Nat \ {0} /\ stack[Len(stack)] \in Entries
  BY <1>1
<1> QED BY <1>1, <1>2 DEF Top, Entries

\* What an action that tries the innermost visit's next target leaves of the
\* stack: its length, its nodes, and every other visit's targets.
LEMMA TriedTop ==
    ASSUME TypeOK, stack # <<>>, NEW t
    PROVE  /\ Tried(t) \in Seq(Entries) /\ Len(Tried(t)) = Len(stack)
           /\ \A i \in 1 .. Len(stack) : Tried(t)[i].node = stack[i].node
           /\ \A i \in 1 .. Len(stack) - 1 : Tried(t)[i] = stack[i]
           /\ Tried(t)[Len(stack)].todo = stack[Len(stack)].todo \ {t}
<1>1. stack \in Seq(Entries) /\ Len(stack) \in 1 .. Len(stack) /\ Top \in Entries
  BY TopIsEntry
<1>2. [node |-> Top.node, todo |-> Top.todo \ {t}] \in Entries
  BY <1>1 DEF Entries
<1>3. Tried(t) \in Seq(Entries) /\ Len(Tried(t)) = Len(stack)
  BY <1>1, <1>2 DEF Tried
<1>4. /\ \A i \in 1 .. Len(stack) - 1 : Tried(t)[i] = stack[i]
      /\ Tried(t)[Len(stack)] = [node |-> Top.node, todo |-> Top.todo \ {t}]
  BY <1>1 DEF Tried
<1> QED BY <1>1, <1>3, <1>4 DEF Top

\* The target that is tried next is an edge away from the innermost visit.
LEMMA NextIsTarget ==
    ASSUME IInv, stack # <<>>, NEW t, NextTarget(t)
    PROVE  /\ t \in Namespaces
           /\ <<Top.node, t>> \in edges
           /\ Len(stack) \in 1 .. Len(stack)
BY DEF IInv, TypeOK, TriedAreFinished, NextTarget, Top, Targets

\* A new visit continues the path.
LEMMA DescendIInv ==
    ASSUME IInv, NEW t \in Namespaces, Descend(t)
    PROVE  IInv'
<1> DEFINE s == Tried(t)
<1>1. /\ s \in Seq(Entries) /\ Len(s) = Len(stack)
      /\ \A i \in 1 .. Len(stack) : s[i].node = stack[i].node
      /\ \A i \in 1 .. Len(stack) - 1 : s[i] = stack[i]
      /\ s[Len(stack)].todo = stack[Len(stack)].todo \ {t}
  BY TriedTop DEF IInv, Descend
<1>2. Visit(t) \in Entries /\ Visit(t).node = t /\ Visit(t).todo = Targets(t)
  BY DEF Visit, Entries, Targets
<1>3. stack' = Append(s, Visit(t))
  BY DEF Descend
<1> HIDE DEF s
<1>4. /\ Len(stack') = Len(stack) + 1
      /\ \A i \in 1 .. Len(stack) : stack'[i] = s[i]
      /\ stack'[Len(stack) + 1] = Visit(t)
      /\ stack' \in Seq(Entries)
  BY <1>1, <1>2, <1>3
<1>5. <<stack[Len(stack)].node, t>> \in edges /\ Len(stack) \in Nat \ {0}
  BY NextIsTarget DEF Descend, Top, IInv, TypeOK
<1>6. TypeOK'
  BY <1>4 DEF Descend, IInv, TypeOK, Entries, Counted
<1>7. StackIsPath'
  <2>1. \A i \in 1 .. Len(stack) : stack[i].node # t
    BY DEF Descend, IInv, TypeOK, StackIsPath
  <2>2. \A i \in 1 .. Len(stack) : stack'[i].node = stack[i].node
    BY <1>1, <1>4
  <2>3. ASSUME NEW i \in 1 .. Len(stack') - 1
        PROVE  <<stack'[i].node, stack'[i + 1].node>> \in edges'
    <3>0. edges' = edges
      BY DEF Descend
    <3>1. CASE i < Len(stack)
      <4>1. i \in 1 .. Len(stack) - 1 /\ i \in 1 .. Len(stack) /\ i + 1 \in 1 .. Len(stack)
        BY <1>4, <1>5, <3>1
      <4>2. <<stack[i].node, stack[i + 1].node>> \in edges
        BY <4>1 DEF IInv, StackIsPath
      <4> QED BY <2>2, <3>0, <4>1, <4>2
    <3>2. CASE i = Len(stack)
      <4>1. stack'[i].node = stack[Len(stack)].node /\ stack'[i + 1].node = t
        BY <1>2, <1>4, <1>5, <2>2, <3>2
      <4> QED BY <1>5, <3>0, <4>1
    <3> QED BY <1>4, <1>5, <3>1, <3>2
  <2>4. \A i, j \in 1 .. Len(stack') : stack'[i].node = stack'[j].node => i = j
    BY <1>2, <1>4, <1>5, <2>1, <2>2 DEF IInv, StackIsPath
  <2>5. \A n \in Namespaces :
            color'[n] = "inStack" <=> \E i \in 1 .. Len(stack') : stack'[i].node = n
    <3>1. \A n \in Namespaces : (\E i \in 1 .. Len(stack') : stack'[i].node = n)
                                <=> n = t \/ \E i \in 1 .. Len(stack) : stack[i].node = n
      BY <1>2, <1>4, <1>5, <2>2
    <3> QED BY <3>1 DEF Descend, IInv, TypeOK, StackIsPath
  <2> QED BY <2>3, <2>4, <2>5 DEF StackIsPath
<1>8. TriedAreFinished'
  <2> SUFFICES ASSUME NEW i \in 1 .. Len(stack')
               PROVE  /\ stack'[i].todo \subseteq Targets(stack'[i].node)
                      /\ \A d \in Targets(stack'[i].node) \ stack'[i].todo :
                            color'[d] = "done" \/ (i < Len(stack') /\ d = stack'[i + 1].node)
    BY DEF TriedAreFinished, Descend, Targets
  <2>0. \A d \in Namespaces : color[d] = "done" => color'[d] = "done"
    BY DEF Descend, IInv, TypeOK
  <2>1. CASE i < Len(stack)
    <3>1. stack'[i] = stack[i] /\ stack'[i + 1].node = stack[i + 1].node
      <4>1. i \in 1 .. Len(stack) - 1 /\ i \in 1 .. Len(stack) /\ i + 1 \in 1 .. Len(stack)
        BY <1>4, <1>5, <2>1
      <4> QED BY <1>1, <1>4, <4>1
    <3> QED BY <1>4, <1>5, <2>0, <2>1, <3>1 DEF IInv, TriedAreFinished, Targets
  <2>2. CASE i = Len(stack)
    <3>1. /\ i \in 1 .. Len(stack) /\ i < Len(stack')
          /\ stack'[i].node = stack[i].node /\ stack'[i + 1].node = t
          /\ stack'[i].todo = stack[i].todo \ {t}
      BY <1>1, <1>2, <1>4, <1>5, <2>2
    <3>2. /\ stack[i].todo \subseteq Targets(stack[i].node)
          /\ \A d \in Targets(stack[i].node) \ stack[i].todo : color[d] = "done"
      BY <1>5, <2>2, <3>1 DEF IInv, TriedAreFinished
    <3> QED BY <2>0, <3>1, <3>2 DEF Targets
  <2>3. CASE i = Len(stack) + 1
    BY <1>2, <1>4, <2>3
  <2> QED BY <1>4, <1>5, <2>1, <2>2, <2>3
<1>9. Done' = Done
  BY DEF Descend, IInv, TypeOK, Done
<1>10. FinishedAreAcyclic'
  BY <1>9 DEF Descend, IInv, FinishedAreAcyclic, Acyclic, Targets
<1> QED
  BY <1>6, <1>7, <1>8, <1>10 DEF Descend, IInv, CycleIsCircle, Counted

\* Passing over a finished target.
LEMMA PassOverIInv ==
    ASSUME IInv, NEW t \in Namespaces, PassOver(t)
    PROVE  IInv'
<1>1. /\ stack' \in Seq(Entries) /\ Len(stack') = Len(stack)
      /\ \A i \in 1 .. Len(stack) : stack'[i].node = stack[i].node
      /\ \A i \in 1 .. Len(stack) - 1 : stack'[i] = stack[i]
      /\ stack'[Len(stack)].todo = stack[Len(stack)].todo \ {t}
  BY TriedTop DEF IInv, PassOver
<1>2. Len(stack) \in Nat \ {0}
  BY DEF PassOver, IInv, TypeOK
<1>3. TypeOK'
  BY <1>1 DEF PassOver, IInv, TypeOK, Entries, Counted
<1>4. StackIsPath'
  <2>1. edges' = edges /\ color' = color
    BY DEF PassOver
  <2>2. \A i \in 1 .. Len(stack) - 1 : i \in 1 .. Len(stack) /\ i + 1 \in 1 .. Len(stack)
    BY <1>2
  <2>3. \A i \in 1 .. Len(stack') - 1 : <<stack'[i].node, stack'[i + 1].node>> \in edges'
    BY <1>1, <2>1, <2>2 DEF IInv, StackIsPath
  <2>4. \A i, j \in 1 .. Len(stack') : stack'[i].node = stack'[j].node => i = j
    BY <1>1 DEF IInv, StackIsPath
  <2>5. \A m \in Namespaces :
            color'[m] = "inStack" <=> \E i \in 1 .. Len(stack') : stack'[i].node = m
    BY <1>1, <2>1 DEF IInv, StackIsPath
  <2> QED BY <2>3, <2>4, <2>5 DEF StackIsPath
<1>5. TriedAreFinished'
  <2> SUFFICES ASSUME NEW i \in 1 .. Len(stack)
               PROVE  /\ stack'[i].todo \subseteq Targets(stack'[i].node)
                      /\ \A d \in Targets(stack'[i].node) \ stack'[i].todo :
                            color'[d] = "done" \/ (i < Len(stack') /\ d = stack'[i + 1].node)
    BY <1>1 DEF TriedAreFinished, PassOver, Targets
  <2>1. CASE i < Len(stack)
    BY <1>1, <1>2, <2>1 DEF PassOver, IInv, TriedAreFinished, Targets
  <2>2. CASE i = Len(stack)
    BY <1>1, <1>2, <2>2 DEF PassOver, IInv, TriedAreFinished, Targets
  <2> QED BY <1>2, <2>1, <2>2
<1>6. FinishedAreAcyclic'
  BY DEF PassOver, IInv, FinishedAreAcyclic, Acyclic, Targets, Done
<1> QED
  BY <1>3, <1>4, <1>5, <1>6 DEF PassOver, IInv, CycleIsCircle, Counted, Done, Sources

\* A visit that ends joins the finished namespaces: all it leads to is finished
\* already, and nothing finished leads to it.
LEMMA RetreatIInv ==
    ASSUME IInv, Retreat
    PROVE  IInv'
<1> DEFINE x == Top.node
<1>1. /\ Len(stack) \in Nat \ {0} /\ stack \in Seq(Entries)
      /\ x \in Namespaces /\ x = stack[Len(stack)].node
  BY TopIsEntry DEF Retreat, IInv
<1>2. /\ stack' \in Seq(Entries) /\ Len(stack') = Len(stack) - 1
      /\ \A i \in 1 .. Len(stack) - 1 : stack'[i] = stack[i]
  <2>1. stack' = SubSeq(stack, 1, Len(stack) - 1)
    BY DEF Retreat
  <2>2. 1 \in Int /\ Len(stack) - 1 \in Int /\ \A i \in 1 .. Len(stack) - 1 : stack[i] \in Entries
    BY <1>1
  <2> HIDE DEF Entries
  <2>3. /\ stack' \in Seq(Entries)
        /\ Len(stack') = IF 1 <= Len(stack) - 1 THEN (Len(stack) - 1) - 1 + 1 ELSE 0
        /\ \A i \in 1 .. (Len(stack) - 1) - 1 + 1 : stack'[i] = stack[1 + i - 1]
    BY <2>1, <2>2, SubSeqProperties
  <2>4. Len(stack') = Len(stack) - 1
    <3>1. \A n \in Nat \ {0} : (IF 1 <= n - 1 THEN (n - 1) - 1 + 1 ELSE 0) = n - 1
      OBVIOUS
    <3> QED BY <1>1, <2>3, <3>1
  <2>5. ASSUME NEW i \in 1 .. Len(stack) - 1 PROVE stack'[i] = stack[i]
    <3>1. i \in 1 .. (Len(stack) - 1) - 1 + 1 /\ 1 + i - 1 = i
      BY <1>1
    <3> QED BY <2>3, <3>1
  <2> QED BY <2>3, <2>4, <2>5
<1>3. color' = [color EXCEPT ![x] = "done"] /\ color[x] = "inStack"
  BY <1>1 DEF Retreat, IInv, TypeOK, StackIsPath
<1> HIDE DEF x
<1>4. TypeOK'
  BY <1>2, <1>3 DEF Retreat, IInv, TypeOK, Entries, Counted
<1>5. StackIsPath'
  <2>1. \A n \in Namespaces : (\E i \in 1 .. Len(stack') : stack'[i].node = n)
                              <=> n # x /\ \E i \in 1 .. Len(stack) : stack[i].node = n
    BY <1>1, <1>2 DEF IInv, StackIsPath
  <2>2. \A n \in Namespaces :
            color'[n] = "inStack" <=> \E i \in 1 .. Len(stack') : stack'[i].node = n
    BY <1>1, <1>3, <2>1 DEF IInv, TypeOK, StackIsPath
  <2> QED BY <1>1, <1>2, <2>2 DEF Retreat, IInv, StackIsPath
<1>6. TriedAreFinished'
  BY <1>1, <1>2, <1>3 DEF Retreat, IInv, TypeOK, TriedAreFinished, Targets
<1>7. Done' = Done \cup {x} /\ x \notin Done
  BY <1>1, <1>3 DEF IInv, TypeOK, Done
<1>8. Targets(x) \subseteq Done
  BY <1>1 DEF Retreat, Top, IInv, TriedAreFinished, Targets, Done
<1>9. FinishedAreAcyclic'
  <2>1. \A n \in Done' : Targets(n)' \subseteq Done'
    BY <1>7, <1>8 DEF Retreat, IInv, FinishedAreAcyclic, Targets
  <2>2. ASSUME NEW T \in SUBSET Done', T # {}
        PROVE  \E s \in T : \A d \in T : <<s, d>> \notin edges
    <3>1. CASE T \subseteq {x}
      BY <1>1, <1>7, <1>8, <2>2, <3>1 DEF Targets
    <3>2. CASE T \ {x} # {}
      <4>1. T \ {x} \in SUBSET Done
        BY <1>7
      <4>2. PICK s \in T \ {x} : \A d \in T \ {x} : <<s, d>> \notin edges
        BY <3>2, <4>1 DEF IInv, FinishedAreAcyclic, Acyclic
      <4>3. <<s, x>> \notin edges
        BY <1>1, <1>7, <4>1, <4>2 DEF IInv, FinishedAreAcyclic, Targets
      <4> QED BY <4>2, <4>3
    <3> QED BY <3>1, <3>2
  <2> QED BY <2>1, <2>2 DEF Retreat, FinishedAreAcyclic, Acyclic
<1> QED
  BY <1>4, <1>5, <1>6, <1>9 DEF Retreat, IInv, CycleIsCircle, Counted

\* What the invariant says of the search, while the search stands still.
LEMMA SearchStandsStill ==
    ASSUME IInv, UNCHANGED <<meta, edges, blocked, color, stack>>
    PROVE  /\ StackIsPath' /\ TriedAreFinished' /\ FinishedAreAcyclic'
           /\ (edges = Counted \ blocked)'
           /\ Counted' = Counted /\ Done' = Done /\ Sources' = Sources
<1>1. Counted' = Counted /\ Done' = Done
  BY DEF Counted, Done
<1>2. Sources' = Sources
  BY <1>1 DEF Sources
<1>3. StackIsPath'
  BY DEF IInv, StackIsPath
<1>4. TriedAreFinished'
  BY DEF IInv, TriedAreFinished, Targets
<1>5. FinishedAreAcyclic'
  BY <1>1 DEF IInv, FinishedAreAcyclic, Acyclic, Targets
<1> QED BY <1>1, <1>2, <1>3, <1>4, <1>5 DEF IInv

\* The stack from the target on is a path, and the target closes it.
LEMMA FoundCycleIInv ==
    ASSUME IInv, NEW i \in 1 .. Len(stack), NEW t \in Namespaces, FoundCycle(t, i)
    PROVE  IInv'
<1> DEFINE n == Len(stack) - i + 1
           path == [k \in 1 .. n |-> stack[i + k - 1].node]
<1>1. stack \in Seq(Entries) /\ Len(stack) \in Nat \ {0} /\ n \in Nat \ {0}
  BY TopIsEntry DEF FoundCycle, IInv
<1>2. path \in Seq(Namespaces) /\ Len(path) = n
  <2>1. ASSUME NEW k \in 1 .. n PROVE stack[i + k - 1].node \in Namespaces
    <3>1. i + k - 1 \in 1 .. Len(stack)
      BY <1>1
    <3>2. stack[i + k - 1] \in Entries
      BY <1>1, <3>1
    <3> QED BY <3>2 DEF Entries
  <2> QED BY <1>1, <2>1
<1>3. \A k \in 1 .. n : path[k] = stack[i + k - 1].node
  OBVIOUS
<1>4. cycle' = Append(path, t)
  BY DEF FoundCycle
<1>5. path[1] = t /\ path[n] = stack[Len(stack)].node
  BY <1>1, <1>3 DEF FoundCycle
<1>6. \A k \in 1 .. n - 1 : <<path[k], path[k + 1]>> \in edges
  <2> SUFFICES ASSUME NEW k \in 1 .. n - 1 PROVE <<path[k], path[k + 1]>> \in edges
    OBVIOUS
  <2>1. i + k - 1 \in 1 .. Len(stack) - 1 /\ i + (k + 1) - 1 = (i + k - 1) + 1
    BY <1>1
  <2>2. <<stack[i + k - 1].node, stack[(i + k - 1) + 1].node>> \in edges
    BY <2>1 DEF IInv, StackIsPath
  <2>3. k \in 1 .. n /\ k + 1 \in 1 .. n
    BY <1>1
  <2>4. path[k] = stack[i + k - 1].node /\ path[k + 1] = stack[(i + k - 1) + 1].node
    BY <1>3, <2>1, <2>3
  <2> HIDE DEF path
  <2> QED BY <2>2, <2>4
<1>7. <<path[n], t>> \in edges
  BY <1>5, NextIsTarget, TopIsEntry DEF FoundCycle, IInv
<1> HIDE DEF path, n
<1>8. /\ cycle' \in Seq(Namespaces) /\ Len(cycle') = n + 1
      /\ \A k \in 1 .. n : cycle'[k] = path[k]
      /\ cycle'[n + 1] = t
  BY <1>1, <1>2, <1>4
<1>9. TypeOK'
  BY <1>8 DEF FoundCycle, IInv, TypeOK, Counted
<1>10. CycleIsCircle'
  <2>1. ASSUME NEW k \in 1 .. Len(cycle') - 1
        PROVE  <<cycle'[k], cycle'[k + 1]>> \in edges
    <3>1. CASE k < n
      <4>1. k \in 1 .. n - 1 /\ cycle'[k] = path[k] /\ cycle'[k + 1] = path[k + 1]
        BY <1>1, <1>8, <3>1
      <4> QED BY <1>6, <4>1
    <3>2. CASE k = n
      <4>1. cycle'[k] = path[n] /\ cycle'[k + 1] = t
        BY <1>1, <1>8, <3>2
      <4> QED BY <1>7, <4>1
    <3> QED BY <1>1, <1>8, <3>1, <3>2
  <2>2. Len(cycle') >= 2 /\ cycle'[1] = cycle'[Len(cycle')]
    BY <1>1, <1>5, <1>8
  <2> QED BY <2>1, <2>2 DEF FoundCycle, CycleIsCircle, CycleEdge
<1> QED
  BY <1>9, <1>10, SearchStandsStill DEF FoundCycle, IInv

\* At the end no visit is in progress, so every source is finished.
LEMMA ReturnIInv ==
    ASSUME IInv, Return
    PROVE  IInv'
<1>1. \A n \in Namespaces : color[n] # "inStack"
  BY DEF Return, IInv, StackIsPath
<1>2. Sources \subseteq Done
  BY <1>1 DEF Return, IInv, TypeOK, Sources, Done
<1>3. TypeOK' /\ CycleIsCircle'
  BY DEF Return, IInv, TypeOK, CycleIsCircle, Counted
<1> QED BY <1>2, <1>3, SearchStandsStill DEF Return, IInv

\* A new search starts without the severed edge.
LEMMA SeverIInv ==
    ASSUME IInv, NEW i \in 1 .. Len(cycle) - 1, Sever(i)
    PROVE  IInv'
<1>1. CycleEdge(i) \in edges
  BY DEF Sever, NewSearch, IInv, CycleIsCircle
<1>2. TypeOK' /\ (edges = Counted \ blocked)'
  BY <1>1 DEF Sever, NewSearch, IInv, TypeOK, Counted
<1>3. StackIsPath' /\ TriedAreFinished' /\ CycleIsCircle'
  BY DEF Sever, NewSearch, StackIsPath, TriedAreFinished, CycleIsCircle
<1>4. Done' = {}
  BY DEF Sever, NewSearch, Done
<1>5. FinishedAreAcyclic'
  BY <1>4 DEF FinishedAreAcyclic, Acyclic
<1> QED BY <1>2, <1>3, <1>5 DEF IInv, Sever, NewSearch

\* Every step of the loop keeps IInv.
THEOREM NextIInv == IInv /\ [Next]_vars => IInv'
<1> SUFFICES ASSUME IInv, [Next]_vars PROVE IInv'
  OBVIOUS
<1>1. ASSUME NEW n \in Namespaces, VisitRoot(n) PROVE IInv'
  BY <1>1, VisitRootIInv
<1>2. ASSUME NEW n \in Namespaces, Descend(n) PROVE IInv'
  BY <1>2, DescendIInv
<1>3. ASSUME NEW n \in Namespaces, PassOver(n) PROVE IInv'
  BY <1>3, PassOverIInv
<1>4. CASE Retreat
  BY <1>4, RetreatIInv
<1>5. ASSUME NEW i \in 1 .. Len(stack), FoundCycle(stack[i].node, i) PROVE IInv'
  <2>1. stack[i].node \in Namespaces
    BY <1>5, NextIsTarget DEF FoundCycle
  <2> QED BY <1>5, <2>1, FoundCycleIInv
<1>6. CASE Return
  BY <1>6, ReturnIInv
<1>7. ASSUME NEW i \in 1 .. Len(cycle) - 1, Sever(i) PROVE IInv'
  BY <1>7, SeverIInv
<1>8. CASE UNCHANGED vars
  <2>1. TypeOK' /\ CycleIsCircle'
    BY <1>8 DEF vars, IInv, TypeOK, CycleIsCircle, CycleEdge, Counted
  <2> QED BY <1>8, <2>1, SearchStandsStill DEF vars, IInv
<1> QED
  BY <1>1, <1>2, <1>3, <1>4, <1>5, <1>6, <1>7, <1>8 DEF Next

\* When every source is finished, so is everything an edge starts from.
LEMMA IInvImportsAcyclic == IInv => ImportsAcyclic
<1> SUFFICES ASSUME IInv, pc = "returned",
                    NEW T \in SUBSET Namespaces, T # {}
             PROVE  \E s \in T : \A d \in T : <<s, d>> \notin edges
  BY DEF ImportsAcyclic, Acyclic, IInv
<1>1. CASE T \subseteq Done
  BY <1>1 DEF IInv, FinishedAreAcyclic, Acyclic
<1>2. CASE \E s \in T : s \notin Done
  <2>1. PICK s \in T : s \notin Sources
    BY <1>2 DEF IInv
  <2> QED BY <2>1 DEF IInv, TypeOK, Sources
<1> QED BY <1>1, <1>2

\* Only Sever severs, and it severs the lightest edge of a circle.
LEMMA StepSeversLightest ==
    ASSUME IInv, [Next]_vars, NEW e \in blocked' \ blocked
    PROVE  e \in edges /\ OnCircle({x \in edges : Weight(x) >= Weight(e)}, e)
<1>1. PICK i \in 1 .. Len(cycle) - 1 : Sever(i)
  BY DEF Next, vars, VisitRoot, Descend, PassOver, Retreat, FoundCycle, Return
<1>2. e = CycleEdge(i) /\ e \in edges
  BY <1>1 DEF Sever, IInv, CycleIsCircle
<1>3. /\ cycle \in Seq(Namespaces) /\ Len(cycle) >= 2 /\ cycle[1] = cycle[Len(cycle)]
      /\ \A j \in 1 .. Len(cycle) - 1 : CycleEdge(j) \in edges
  BY <1>1 DEF Sever, IInv, TypeOK, CycleIsCircle
<1>4. \A x \in edges : Weight(x) \in Int
  BY DEF IInv, TypeOK, Registries, Counted, Pairs, Weight, defaultEmbedWeight
<1>5. \A j \in 1 .. Len(cycle) - 1 : Weight(CycleEdge(j)) >= Weight(e)
  BY <1>1, <1>2, <1>3, <1>4 DEF Sever, Lightest, Lighter
<1> DEFINE E == {x \in edges : Weight(x) >= Weight(e)}
<1>6. \A j \in 1 .. Len(cycle) - 1 : <<cycle[j], cycle[j + 1]>> \in E
  BY <1>3, <1>5 DEF CycleEdge
<1> HIDE DEF E
<1>7. OnCircle(E, <<cycle[i], cycle[i + 1]>>)
  BY <1>3, <1>6, CircleEdgesAreOnCircle
<1> QED BY <1>2, <1>7 DEF E, CycleEdge

-----------------------------------------------------------------------------
\* The variables keep their types.
THEOREM TypeCorrect == Spec => []TypeOK
<1>1. IInv => TypeOK
  BY DEF IInv
<1> QED BY <1>1, InitIInv, NextIInv, PTL DEF Spec

\* The imports that are left when the loop returns hold no circle.
THEOREM ReturnsAcyclic == Spec => []ImportsAcyclic
BY InitIInv, NextIInv, IInvImportsAcyclic, PTL DEF Spec

\* Nothing is severed but the lightest edge of a circle.
THEOREM OnlyLightestSevered == Spec => SeversLightest
<1>1. IInv /\ [Next]_vars =>
        [\A e \in blocked' \ blocked :
            e \in edges /\ OnCircle({x \in edges : Weight(x) >= Weight(e)}, e)]_vars
  BY StepSeversLightest
<1> QED BY <1>1, InitIInv, NextIInv, PTL DEF Spec, SeversLightest
=============================================================================
