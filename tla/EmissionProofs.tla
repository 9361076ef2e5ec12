--------------------------- MODULE EmissionProofs ---------------------------
(***************************************************************************)
(* What a run of the generator leaves on the disk, for any namespaces, any *)
(* imports among them, any roots and any leftovers of earlier runs.        *)
(***************************************************************************)
EXTENDS Emission, TLAPS

\* The output tree is empty and nothing runs.
LEMMA InitIInv == Init => IInv
BY EmissionAssumption
   DEF Init, IInv, TypeOK, WorklistIsTight, WrittenIsBegun, PrunesLast, PathsAreKept,
       PrunedIsGone, Paths

\* A run starts with its roots in the worklist and nothing noted.
LEMMA StartIInv ==
    ASSUME IInv, NEW f \in SUBSET Namespaces, Start(f)
    PROVE  IInv'
<1> USE EmissionAssumption DEF Start
<1>1. TypeOK'
  BY DEF IInv, TypeOK, Roots
<1>2. WorklistIsTight'
  BY DEF IInv, TypeOK, WorklistIsTight, Roots
<1>3. WrittenIsBegun'
  BY DEF IInv, TypeOK, WrittenIsBegun
<1>4. PrunesLast' /\ PathsAreKept' /\ PrunedIsGone'
  BY DEF IInv, PrunesLast, PathsAreKept, PrunedIsGone
<1> QED BY <1>1, <1>2, <1>3, <1>4 DEF IInv

\* What is claimed of a run is claimed of no tree that was touched between runs.
LEMMA BetweenRunsIInv ==
    ASSUME IInv, TypeOK', PathsAreKept', run' \in {"idle", "failed"}
    PROVE  IInv'
BY DEF IInv, WorklistIsTight, WrittenIsBegun, PrunesLast, PrunedIsGone

\* A step that takes in nothing from outside the closed sets keeps the worklist tight.
LEMMA SameBoundsTight ==
    ASSUME WorklistIsTight, run \in {"emitting", "pruning", "ok"},
           UNCHANGED <<metadata, filter>>,
           emitted \cup pending \subseteq emitted' \cup pending',
           emitted' \subseteq Loaded[metadata], emitted' \cap pending' = {},
           referenced' = UNION {Imports[metadata][p[1]][p[2]] : p \in written'},
           current' = None => referenced' \subseteq emitted' \cup pending',
           \A S \in SUBSET Namespaces :
              Closed(S) /\ emitted \cup pending \cup referenced \subseteq S =>
                 emitted' \cup pending' \cup referenced' \subseteq S
    PROVE  WorklistIsTight'
<1>1. \A S : Closed(S)' = Closed(S)
  BY DEF Closed, References
<1>2. Roots(filter)' = Roots(filter)
  BY DEF Roots
<1>3. \A S \in SUBSET Namespaces :
         Closed(S) /\ Roots(filter) \subseteq S => emitted' \cup pending' \cup referenced' \subseteq S
  BY DEF WorklistIsTight
<1>4. Roots(filter) \subseteq emitted' \cup pending'
  BY DEF WorklistIsTight
<1> QED BY <1>1, <1>2, <1>3, <1>4 DEF WorklistIsTight

\* A namespace moves from the worklist to those begun, with all its files due.
LEMMA BeginNamespaceIInv ==
    ASSUME IInv, NEW n \in Namespaces, BeginNamespace(n)
    PROVE  IInv'
<1> USE EmissionAssumption DEF BeginNamespace
<1>1. TypeOK'
  BY DEF IInv, TypeOK
<1>2. WorklistIsTight'
  <2>1. emitted' \cup pending' = emitted \cup pending /\ emitted' \cap pending' = {}
    BY DEF IInv, WorklistIsTight
  <2>2. current' # None
    OBVIOUS
  <2>3. /\ emitted' \subseteq Loaded[metadata]
        /\ referenced' = UNION {Imports[metadata][p[1]][p[2]] : p \in written'}
    BY DEF IInv, WorklistIsTight
  <2> QED BY <2>1, <2>2, <2>3, SameBoundsTight DEF IInv
<1>3. WrittenIsBegun'
  <2>1. n \notin emitted /\ n # None
    BY DEF IInv, WorklistIsTight
  <2> QED BY <2>1 DEF IInv, TypeOK, WrittenIsBegun
<1>4. PrunesLast' /\ PathsAreKept' /\ PrunedIsGone'
  BY DEF IInv, PrunesLast, PathsAreKept, PrunedIsGone
<1> QED BY <1>1, <1>2, <1>3, <1>4 DEF IInv

\* A file that is written is noted with its imports, and is of the metadata.
LEMMA WriteFileIInv ==
    ASSUME IInv, NEW k \in Kinds, WriteFile(k)
    PROVE  IInv'
<1> USE EmissionAssumption DEF WriteFile, NextFile, Note
<1>1. current \in Namespaces /\ current \in emitted /\ k \in Bodies[metadata][current]
  BY DEF IInv, TypeOK, WrittenIsBegun
<1>2. <<current, k>> \in Paths /\ <<current, k>> \in Namespaces \X Kinds
  BY <1>1 DEF Paths
<1>3. TypeOK'
  BY <1>1, <1>2 DEF IInv, TypeOK
<1>4. WorklistIsTight'
  <2>1. referenced' = UNION {Imports[metadata][p[1]][p[2]] : p \in written'}
    BY <1>1 DEF IInv, TypeOK, WorklistIsTight
  <2>2. ASSUME NEW S \in SUBSET Namespaces, Closed(S),
               emitted \cup pending \cup referenced \subseteq S
        PROVE  referenced' \subseteq S
    <3>1. Imports[metadata][current][k] \subseteq References(current)
      BY <1>1 DEF References
    <3> QED BY <1>1, <2>2, <3>1 DEF Closed
  <2>3. /\ emitted' \subseteq Loaded[metadata] /\ emitted' \cap pending' = {}
        /\ emitted \cup pending \subseteq emitted' \cup pending'
        /\ current' # None
    BY DEF IInv, WorklistIsTight
  <2>4. \A S \in SUBSET Namespaces :
           Closed(S) /\ emitted \cup pending \cup referenced \subseteq S =>
              emitted' \cup pending' \cup referenced' \subseteq S
    BY <2>2
  <2>5. WorklistIsTight /\ UNCHANGED <<metadata, filter>> /\ run = "emitting"
    BY DEF IInv
  <2> HIDE DEF WriteFile, NextFile, Note
  <2> QED BY <2>1, <2>3, <2>4, <2>5, SameBoundsTight
<1>5. WrittenIsBegun'
  <2>1. ASSUME NEW p \in written'
        PROVE  disk'[p] = metadata
    <3>1. CASE p = <<current, k>>
      BY <1>2, <3>1 DEF IInv, TypeOK
    <3>2. CASE p \in written /\ p # <<current, k>>
      <4>1. p \in Paths /\ disk[p] = metadata
        BY <3>2 DEF IInv, TypeOK, WrittenIsBegun, Paths
      <4> QED BY <1>2, <3>2, <4>1 DEF IInv, TypeOK
    <3> QED BY <3>1, <3>2
  <2>2. ASSUME NEW n \in Namespaces, NEW j \in Kinds
        PROVE  <<n, j>> \in written' <=>
                  n \in emitted /\ j \in Bodies[metadata][n] /\ ~ (n = current /\ j \in due')
    <3>1. written = {p \in Namespaces \X Kinds :
                       /\ p[1] \in emitted
                       /\ p[2] \in Bodies[metadata][p[1]]
                       /\ ~ (p[1] = current /\ p[2] \in due)}
      BY DEF IInv, WrittenIsBegun
    <3>2. <<n, j>> \in written <=>
             n \in emitted /\ j \in Bodies[metadata][n] /\ ~ (n = current /\ j \in due)
      BY <3>1
    <3> QED BY <1>1, <3>2
  <2>3. written' \subseteq Namespaces \X Kinds
    BY <1>3 DEF TypeOK
  <2>4. written' = {p \in Namespaces \X Kinds :
                       /\ p[1] \in emitted
                       /\ p[2] \in Bodies[metadata][p[1]]
                       /\ ~ (p[1] = current /\ p[2] \in due')}
    BY <2>2, <2>3
  <2>5. current # None => current \in emitted /\ due' \subseteq Bodies[metadata][current]
    BY DEF IInv, WrittenIsBegun
  <2> QED BY <2>1, <2>4, <2>5 DEF WrittenIsBegun
<1>6. PathsAreKept'
  BY <1>2 DEF IInv, TypeOK, PathsAreKept
<1>7. PrunesLast' /\ PrunedIsGone'
  BY DEF IInv, PrunesLast, PrunedIsGone
<1> QED BY <1>3, <1>4, <1>5, <1>6, <1>7 DEF IInv

\* What a namespace's files import waits, unless it is begun.
LEMMA EndNamespaceIInv ==
    ASSUME IInv, EndNamespace
    PROVE  IInv'
<1> USE EmissionAssumption DEF EndNamespace, Discovered
<1>1. TypeOK'
  BY DEF IInv, TypeOK
<1>2. WorklistIsTight'
  BY SameBoundsTight DEF IInv, WorklistIsTight
<1>3. WrittenIsBegun'
  BY DEF IInv, TypeOK, WrittenIsBegun
<1>4. PrunesLast' /\ PathsAreKept' /\ PrunedIsGone'
  BY DEF IInv, PrunesLast, PathsAreKept, PrunedIsGone
<1> QED BY <1>1, <1>2, <1>3, <1>4 DEF IInv

LEMMA EndClosureIInv ==
    ASSUME IInv, EndClosure
    PROVE  IInv'
BY DEF EndClosure, loopVars, IInv, TypeOK, WorklistIsTight, WrittenIsBegun, PrunesLast,
       PathsAreKept, PrunedIsGone, Roots, Closed, References

\* When a run prunes, or has, the namespaces it emitted are closed, hold the roots and
\* are written.
LEMMA PruningIsWhole ==
    ASSUME IInv, run \in {"pruning", "ok"}
    PROVE  /\ Roots(filter) \subseteq emitted
           /\ Closed(emitted)
           /\ \A n \in emitted : \A k \in Bodies[metadata][n] :
                 /\ <<n, k>> \in written
                 /\ disk[<<n, k>>] = metadata
                 /\ Imports[metadata][n][k] \subseteq emitted
<1> USE EmissionAssumption DEF IInv, TypeOK
<1>1. current = None /\ pending = {} /\ due = {}
  BY DEF PrunesLast, WrittenIsBegun
<1>2. Roots(filter) \subseteq emitted /\ referenced \subseteq emitted
  BY <1>1 DEF WorklistIsTight
<1>3. ASSUME NEW n \in emitted, NEW k \in Bodies[metadata][n]
      PROVE  <<n, k>> \in written /\ disk[<<n, k>>] = metadata
  <2>1. <<n, k>> \in Namespaces \X Kinds
    OBVIOUS
  <2>2. <<n, k>> \in written
    BY <1>1, <2>1 DEF WrittenIsBegun
  <2> QED BY <2>2 DEF WrittenIsBegun
<1>4. ASSUME NEW n \in emitted, NEW k \in Bodies[metadata][n]
      PROVE  Imports[metadata][n][k] \subseteq emitted
  <2>1. <<n, k>> \in written
    BY <1>3
  <2>2. Imports[metadata][<<n, k>>[1]][<<n, k>>[2]] \subseteq referenced
    BY <2>1 DEF WorklistIsTight
  <2> QED BY <1>2, <2>2
<1>5. Closed(emitted)
  BY <1>4 DEF Closed, References
<1> QED BY <1>2, <1>3, <1>4, <1>5

\* Removing files that were not written leaves the ones that were, and no Hand.
LEMMA RemoveKeeps ==
    ASSUME IInv, NEW gone \in SUBSET Stale, Remove(gone)
    PROVE  /\ disk' \in [Paths -> Metadata \cup {None, Hand, Torn}]
           /\ \A p \in Paths : disk[p] \notin Metadata \/ p \in written => disk'[p] = disk[p]
           /\ \A p \in Paths : disk'[p] \in {disk[p], None}
BY DEF Remove, Stale, Generated, IInv, TypeOK

LEMMA PruneIInv ==
    ASSUME IInv, Prune
    PROVE  IInv'
<1> USE EmissionAssumption DEF Prune, loopVars
<1>1. /\ disk' \in [Paths -> Metadata \cup {None, Hand, Torn}]
      /\ \A p \in Paths : disk[p] \notin Metadata \/ p \in written => disk'[p] = disk[p]
      /\ \A p \in Paths : disk'[p] \in {disk[p], None}
  BY RemoveKeeps
<1>2. TypeOK'
  BY <1>1 DEF IInv, TypeOK
<1>3. WorklistIsTight'
  <2>1. WorklistIsTight /\ run = "pruning" /\ UNCHANGED <<metadata, loopVars>>
    BY DEF IInv
  <2> HIDE DEF Prune
  <2> QED BY <2>1, SameBoundsTight DEF WorklistIsTight
<1>4. WrittenIsBegun'
  <2>1. written \subseteq Paths
    BY DEF IInv, TypeOK, Paths
  <2> QED BY <1>1, <2>1 DEF IInv, WrittenIsBegun
<1>5. PrunesLast' /\ PathsAreKept'
  <2>1. PrunesLast'
    BY DEF IInv, PrunesLast
  <2>2. ASSUME NEW p \in Paths \ (Namespaces \X Kinds)
        PROVE  disk'[p] \in {None, Hand}
    BY <1>1, <2>2 DEF IInv, PathsAreKept
  <2> QED BY <2>1, <2>2 DEF PathsAreKept, Paths
<1>6. PrunedIsGone'
  <2> SUFFICES ASSUME NEW p \in Paths, disk'[p] \in Metadata, p[1] \in emitted \/ filter = {},
                      p \notin written
               PROVE  FALSE
    BY DEF PrunedIsGone, Generated
  <2>1. disk[p] \in Metadata
    BY <1>1
  <2>2. p[1] \in Namespaces
    BY <2>1 DEF IInv, PathsAreKept, Paths
  <2>3. CASE filter # {}
    <3>1. <<p[1], Doc>> \in written
      BY <2>2, <2>3, PruningIsWhole DEF IInv, TypeOK
    <3>2. p[1] \in Swept
      BY <2>3, <3>1 DEF Swept
    <3> QED BY <2>1, <3>2 DEF Stale, Generated, Remove
  <2>4. CASE filter = {}
    BY <2>1, <2>2, <2>4 DEF Stale, Swept, Generated, Remove
  <2> QED BY <2>3, <2>4
<1> QED BY <1>2, <1>3, <1>4, <1>5, <1>6 DEF IInv

\* Nothing else changes the disk but a developer and a write that fails.
LEMMA TouchedIInv ==
    ASSUME IInv, Ingest \/ EditByHand \/ MissingNamespace \/ PruneFails
                 \/ \E k \in Kinds : WriteFails(k)
    PROVE  IInv'
<1> USE EmissionAssumption DEF loopVars
<1>1. CASE Ingest \/ MissingNamespace
  <2>1. TypeOK'
    BY <1>1 DEF Ingest, MissingNamespace, IInv, TypeOK
  <2>2. PathsAreKept'
    BY <1>1 DEF Ingest, MissingNamespace, IInv, PathsAreKept
  <2> QED BY <1>1, <2>1, <2>2, BetweenRunsIInv DEF Ingest, MissingNamespace
<1>2. CASE EditByHand
  <2>1. PICK p \in HandPaths, c \in {None, Hand} : disk' = [disk EXCEPT ![p] = c]
    BY <1>2 DEF EditByHand
  <2>2. TypeOK' /\ PathsAreKept'
    BY <1>2, <2>1 DEF EditByHand, IInv, TypeOK, PathsAreKept, Paths
  <2> QED BY <1>2, <2>2, BetweenRunsIInv DEF EditByHand
<1>3. CASE PruneFails
  <2>1. PICK gone \in SUBSET Stale : Remove(gone)
    BY <1>3 DEF PruneFails
  <2>2. TypeOK' /\ PathsAreKept'
    BY <1>3, <2>1, RemoveKeeps DEF PruneFails, IInv, TypeOK, PathsAreKept
  <2> QED BY <1>3, <2>2, BetweenRunsIInv DEF PruneFails
<1>4. ASSUME NEW k \in Kinds, WriteFails(k)
      PROVE  IInv'
  <2>1. <<current, k>> \in Paths /\ <<current, k>> \in Namespaces \X Kinds
    BY <1>4 DEF WriteFails, NextFile, IInv, TypeOK, Paths
  <2>2. disk' = disk \/ \E c \in {Torn, metadata} : disk' = [disk EXCEPT ![<<current, k>>] = c]
    BY <1>4 DEF WriteFails
  <2>3. TypeOK' /\ PathsAreKept'
    BY <1>4, <2>1, <2>2 DEF WriteFails, IInv, TypeOK, PathsAreKept
  <2> QED BY <1>4, <2>3, BetweenRunsIInv DEF WriteFails
<1> QED BY <1>1, <1>2, <1>3, <1>4

LEMMA NextIInv == IInv /\ [Next]_vars => IInv'
<1> SUFFICES ASSUME IInv, [Next]_vars PROVE IInv'
  OBVIOUS
<1>1. CASE UNCHANGED vars
  BY <1>1 DEF vars, IInv, TypeOK, WorklistIsTight, WrittenIsBegun, PrunesLast, PathsAreKept,
              PrunedIsGone, Generated, Roots, Closed, References
<1>2. CASE Proceed
  BY <1>2, BeginNamespaceIInv, TouchedIInv, WriteFileIInv, EndNamespaceIInv, EndClosureIInv,
     PruneIInv DEF Proceed
<1>3. CASE \E f \in SUBSET Namespaces : Start(f)
  BY <1>3, StartIInv
<1>4. CASE Ingest \/ EditByHand \/ PruneFails \/ \E k \in Kinds : WriteFails(k)
  BY <1>4, TouchedIInv
<1> QED BY <1>1, <1>2, <1>3, <1>4 DEF Next

\* The invariant of the generator, the types of its state with it.
THEOREM AlwaysIInv == Spec => []IInv
BY InitIInv, NextIInv, PTL DEF Spec

-----------------------------------------------------------------------------
\* A step of a run on the disk is a write to the current namespace or a removal of
\* stale files.
LEMMA DiskSteps ==
    ASSUME IInv, [Next]_vars, Active, ~(disk' = disk)
    PROVE  \/ /\ run = "emitting" /\ current \in emitted
              /\ \E k \in Kinds : \E c \in Metadata \cup {Torn} :
                    disk' = [disk EXCEPT ![<<current, k>>] = c]
           \/ run = "pruning" /\ \E gone \in SUBSET Stale : Remove(gone)
<1>1. CASE \E k \in Kinds : WriteFile(k) \/ WriteFails(k)
  BY <1>1 DEF WriteFile, WriteFails, NextFile, IInv, TypeOK, WrittenIsBegun
<1>2. CASE Prune \/ PruneFails
  BY <1>2 DEF Prune, PruneFails
<1>3. CASE \/ UNCHANGED vars \/ MissingNamespace \/ EndNamespace \/ EndClosure
           \/ \E n \in Namespaces : BeginNamespace(n)
           \/ \E f \in SUBSET Namespaces : Start(f)
           \/ Ingest
  BY <1>3 DEF vars, MissingNamespace, EndNamespace, EndClosure, BeginNamespace, Start, Ingest
<1>4. CASE EditByHand
  BY <1>4 DEF EditByHand
<1> QED BY <1>1, <1>2, <1>3, <1>4 DEF Next, Proceed

\* A run that succeeds leaves whole packages, of the metadata it loaded.
THEOREM SucceedsAlwaysWhole == Spec => []SucceedsWhole
<1>1. IInv => SucceedsWhole
  <2> SUFFICES ASSUME IInv, run = "ok" PROVE SucceedsWhole
    BY DEF SucceedsWhole
  <2> USE EmissionAssumption DEF IInv, TypeOK
  <2>1. Roots(filter) \subseteq emitted
    BY PruningIsWhole
  <2>2. ASSUME NEW n \in emitted, NEW k \in Bodies[metadata][n]
        PROVE  disk[<<n, k>>] = metadata /\ Imports[metadata][n][k] \subseteq emitted
    BY PruningIsWhole
  <2>3. ASSUME NEW n \in Namespaces, NEW k \in Kinds,
               n \in emitted => k \notin Bodies[metadata][n],
               n \in emitted \/ filter = {}
        PROVE  disk[<<n, k>>] \in {None, Torn, Hand}
    <3>1. <<n, k>> \in Paths
      BY DEF Paths
    <3>2. <<n, k>> \notin written
      BY <2>3 DEF WrittenIsBegun
    <3>3. disk[<<n, k>>] \notin Metadata
      BY <2>3, <3>1, <3>2 DEF PrunedIsGone, Generated
    <3> QED BY <3>1, <3>3
  <2> QED BY <2>1, <2>2, <2>3 DEF SucceedsWhole
<1> QED BY AlwaysIInv, <1>1, PTL

\* A run takes a developer's file only by writing the file of that name.
THEOREM SweepAlwaysSparesHandWritten == Spec => SweepSparesHandWritten
<1>1. IInv /\ [Next]_vars =>
        \A p \in Paths : Active /\ disk[p] = Hand /\ disk'[p] # Hand =>
           run = "emitting" /\ \E k \in due : p = <<current, k>>
  <2> SUFFICES ASSUME IInv, [Next]_vars, Active, NEW p \in Paths, disk[p] = Hand, disk'[p] # Hand
               PROVE  run = "emitting" /\ \E k \in due : p = <<current, k>>
    OBVIOUS
  <2> USE EmissionAssumption
  <2>1. ~ Generated(p)
    BY DEF Generated
  <2>2. ASSUME NEW k \in Kinds, WriteFile(k) \/ WriteFails(k)
        PROVE  run = "emitting" /\ \E j \in due : p = <<current, j>>
    <3>1. run = "emitting" /\ k \in due
      BY <2>2 DEF WriteFile, WriteFails, NextFile
    <3>2. disk' = disk \/ \E c : disk' = [disk EXCEPT ![<<current, k>>] = c]
      BY <2>2 DEF WriteFile, WriteFails
    <3>3. p = <<current, k>>
      BY <3>2 DEF IInv, TypeOK
    <3> QED BY <3>1, <3>3
  <2>3. CASE Prune \/ PruneFails
    <3>1. \E gone \in SUBSET Stale : Remove(gone)
      BY <2>3 DEF Prune, PruneFails
    <3> QED BY <2>1, <3>1 DEF Remove, Stale
  <2>4. CASE \/ UNCHANGED vars \/ MissingNamespace \/ EndNamespace \/ EndClosure
             \/ \E n \in Namespaces : BeginNamespace(n)
             \/ \E f \in SUBSET Namespaces : Start(f)
             \/ Ingest \/ EditByHand
    BY <2>4 DEF vars, MissingNamespace, EndNamespace, EndClosure, BeginNamespace, Start, Ingest,
                EditByHand
  <2> QED BY <2>2, <2>3, <2>4 DEF Next, Proceed
<1> QED BY AlwaysIInv, <1>1, PTL DEF Spec, SweepSparesHandWritten

\* A run that was given roots changes nothing outside their closure.
THEOREM FilteredRunIsAlwaysLocal == Spec => FilteredRunIsLocal
<1>1. IInv /\ [Next]_vars =>
        \A p \in Paths : Active /\ filter # {} /\ disk'[p] # disk[p] =>
           \A S \in SUBSET Namespaces : Closed(S) /\ filter \subseteq S => p[1] \in S
  <2> SUFFICES ASSUME IInv, [Next]_vars, Active, NEW p \in Paths, filter # {},
                      disk'[p] # disk[p], NEW S \in SUBSET Namespaces, Closed(S), filter \subseteq S
               PROVE  p[1] \in S
    OBVIOUS
  <2> USE EmissionAssumption
  <2>1. emitted \subseteq S
    BY DEF IInv, WorklistIsTight, Active, Roots
  <2>2. CASE \E k \in Kinds : \E c \in Metadata \cup {Torn} :
                disk' = [disk EXCEPT ![<<current, k>>] = c] /\ current \in emitted
    <3>1. PICK k \in Kinds : p = <<current, k>> /\ current \in emitted
      BY <2>2 DEF IInv, TypeOK
    <3> QED BY <2>1, <3>1
  <2>3. CASE \E gone \in SUBSET Stale : Remove(gone)
    <3>1. p \in Stale
      BY <2>3 DEF Remove
    <3>2. PICK q \in written : p[1] = q[1]
      BY <3>1 DEF Stale, Swept
    <3>3. q[1] \in emitted
      BY <3>2 DEF IInv, WrittenIsBegun, Active
    <3> QED BY <2>1, <3>2, <3>3
  <2> QED BY <2>2, <2>3, DiskSteps
<1> QED BY AlwaysIInv, <1>1, PTL DEF Spec, FilteredRunIsLocal

\* When a generated file goes, all that the roots reach is written.
THEOREM AlwaysRemovesLast == Spec => RemovesLast
<1> DEFINE Whole == \E S \in SUBSET Namespaces :
                       /\ Roots(filter) \subseteq S /\ Closed(S)
                       /\ \A n \in S, k \in Kinds :
                             k \in Bodies[metadata][n] => disk[<<n, k>>] = metadata
<1>1. IInv /\ [Next]_vars => (Active /\ (\E p \in Paths : Generated(p) /\ disk'[p] = None) => Whole)
  <2> SUFFICES ASSUME IInv, [Next]_vars, Active, NEW p \in Paths, Generated(p), disk'[p] = None
               PROVE  Whole
    OBVIOUS
  <2> USE EmissionAssumption
  <2>1. disk' # disk /\ disk[p] # None
    BY DEF Generated
  <2>2. run = "pruning"
    <3>1. \A k \in Kinds : \A c \in Metadata \cup {Torn} :
             disk' # [disk EXCEPT ![<<current, k>>] = c]
      BY <2>1 DEF IInv, TypeOK
    <3> QED BY <2>1, <3>1, DiskSteps
  <2>3. emitted \in SUBSET Namespaces
    BY DEF IInv, TypeOK
  <2>4. /\ Roots(filter) \subseteq emitted /\ Closed(emitted)
        /\ \A n \in emitted, k \in Kinds :
              k \in Bodies[metadata][n] => disk[<<n, k>>] = metadata
    BY <2>2, PruningIsWhole
  <2> QED BY <2>3, <2>4
<1> QED BY AlwaysIInv, <1>1, PTL DEF Spec, RemovesLast
=============================================================================
