------------------------------ MODULE Emission ------------------------------
(***************************************************************************)
(* One run of "generate bindings" over an output tree that earlier runs,   *)
(* failed ones among them, and developers have left                        *)
(* (cmd/generate/bindings.go, internal/codegen/emit/winrt/generator.go,    *)
(* internal/codegen/shared/fileasm).  A run is seeded with root            *)
(* namespaces; it emits each namespace file by file, collects the          *)
(* namespaces the surviving imports reference, emits those too, and prunes *)
(* only when the closure is written.                                       *)
(*                                                                         *)
(* What a file of a namespace says, and what it imports, is decided by the *)
(* metadata that is loaded (module Package builds it): a generated file is *)
(* its metadata here.  Orders the code fixes by sorting, of namespaces in  *)
(* the worklist and of files in a package, are left open, except that the  *)
(* package's doc.go comes last.  Empty directories are not modelled.       *)
(***************************************************************************)
EXTENDS FiniteSets

CONSTANTS
    Namespaces,  \* every namespace name that metadata, roots or imports use
    Kinds,       \* the generated files of a package: enums, structs, ..., and Doc
    Doc,
    HandPaths,   \* where developers write: beside the generated files, or in their places
    Metadata,    \* the states of the metadata directory, as ingest leaves it
    Loaded,      \* Loaded[m]: the namespaces m has a file for
    Bodies,      \* Bodies[m][n]: the files of n that have something in them
    Imports,     \* Imports[m][n][k]: the namespaces the file's code qualifies
    None, Hand, Torn

Paths == (Namespaces \X Kinds) \cup HandPaths

ASSUME EmissionAssumption ==
    /\ Doc \in Kinds
    /\ {None, Hand, Torn} \cap Metadata = {}
    /\ None \notin Namespaces
    /\ None # Hand /\ None # Torn /\ Hand # Torn
    /\ Loaded \in [Metadata -> SUBSET Namespaces]
    /\ Bodies \in [Metadata -> [Namespaces -> SUBSET Kinds]]
    /\ \A m \in Metadata, n \in Namespaces : Doc \in Bodies[m][n]
    /\ Imports \in [Metadata -> [Namespaces -> [Kinds -> SUBSET Namespaces]]]

VARIABLES
    metadata,    \* what the metadata directory holds
    disk,        \* every path of the output tree: None, Hand, Torn, or what it was emitted from
    run,         \* where the run stands, or how the last one ended
    filter,      \* the run's root namespaces; {} asks for all that is loaded
    pending,     \* EmitAll's worklist
    emitted,     \* the namespaces it has begun
    current,     \* the namespace being emitted
    due,         \* its files that are not written yet
    referenced,  \* g.referenced
    written      \* g.writtenFiles

vars == <<metadata, disk, run, filter, pending, emitted, current, due, referenced, written>>
loopVars == <<filter, pending, emitted, current, due, referenced, written>>

Active == run \in {"emitting", "pruning"}

TypeOK ==
    /\ metadata \in Metadata
    /\ disk \in [Paths -> Metadata \cup {None, Hand, Torn}]
    /\ run \in {"idle", "emitting", "pruning", "ok", "failed"}
    /\ filter \in SUBSET Namespaces
    /\ pending \in SUBSET Namespaces
    /\ emitted \in SUBSET Namespaces
    /\ current \in Namespaces \cup {None}
    /\ due \in SUBSET Kinds
    /\ referenced \in SUBSET Namespaces
    /\ written \in SUBSET (Namespaces \X Kinds)

Init ==
    /\ metadata \in Metadata
    /\ disk = [p \in Paths |-> None]
    /\ run = "idle"
    /\ filter = {} /\ pending = {} /\ emitted = {}
    /\ current = None /\ due = {}
    /\ referenced = {} /\ written = {}

-----------------------------------------------------------------------------
(***************************************************************************)
(* Between runs.                                                           *)
(***************************************************************************)

\* "generate ingest" leaves other metadata: of a new winmd, or of a filtered ingest.
Ingest ==
    /\ ~ Active
    /\ metadata' \in Metadata
    /\ run' = "idle"
    /\ UNCHANGED <<disk, loopVars>>

\* A developer writes a file, without the header, or takes one away, whatever was there.
EditByHand ==
    /\ ~ Active
    /\ \E p \in HandPaths, c \in {None, Hand} : disk' = [disk EXCEPT ![p] = c]
    /\ run' = "idle"
    /\ UNCHANGED <<metadata, loopVars>>

-----------------------------------------------------------------------------
(***************************************************************************)
(* EmitAll.                                                                *)
(***************************************************************************)

Roots(f) == IF f = {} THEN Loaded[metadata] ELSE f

\* New and the head of EmitAll, for the namespaces of the roots file or of --namespace.
Start(f) ==
    /\ ~ Active
    /\ run' = "emitting"
    /\ filter' = f
    /\ pending' = Roots(f)
    /\ emitted' = {} /\ current' = None /\ due' = {}
    /\ referenced' = {} /\ written' = {}
    /\ UNCHANGED <<metadata, disk>>

\* A namespace is taken from the worklist once: what was discovered twice is skipped.
BeginNamespace(n) ==
    /\ run = "emitting" /\ current = None
    /\ n \in pending /\ n \in Loaded[metadata]
    /\ current' = n
    /\ pending' = pending \ {n}
    /\ emitted' = emitted \cup {n}
    /\ due' = Bodies[metadata][n]
    /\ UNCHANGED <<metadata, disk, run, filter, referenced, written>>

\* Mistake: the run goes on to prune what it has not written.
MissingNamespacePruning ==
    /\ run = "emitting" /\ current = None
    /\ \E n \in pending : n \notin Loaded[metadata]
    /\ run' = "pruning"
    /\ UNCHANGED <<metadata, disk, loopVars>>

\* The metadata lacks a namespace that is asked for or referenced: nothing is pruned.
MissingNamespace ==
    /\ run = "emitting" /\ current = None
    /\ \E n \in pending : n \notin Loaded[metadata]
    /\ run' = "failed"
    /\ UNCHANGED <<metadata, disk, loopVars>>

\* doc.go is written when the other files are.
NextFile(k) ==
    /\ run = "emitting" /\ current # None
    /\ k \in due
    /\ k = Doc => due = {Doc}

\* Mistake: what is noted is what was noted last.
NoteLast(k) ==
    /\ written' = written \cup {<<current, k>>}
    /\ referenced' = Imports[metadata][current][k]

\* writeFile notes the path and the surviving imports before it touches the disk.
Note(k) ==
    /\ written' = written \cup {<<current, k>>}
    /\ referenced' = referenced \cup Imports[metadata][current][k]

\* Mistake: a file that exists is left as it is.
WriteFileOnce(k) ==
    /\ NextFile(k) /\ Note(k)
    /\ due' = due \ {k}
    /\ disk' = IF disk[<<current, k>>] = None
               THEN [disk EXCEPT ![<<current, k>>] = metadata] ELSE disk
    /\ UNCHANGED <<metadata, run, filter, pending, emitted, current>>

WriteFile(k) ==
    /\ NextFile(k) /\ Note(k)
    /\ due' = due \ {k}
    /\ disk' = [disk EXCEPT ![<<current, k>>] = metadata]
    /\ UNCHANGED <<metadata, run, filter, pending, emitted, current>>

\* The run stops in a file: before it is opened, with less of it written than the
\* header, or with more (a file cut after the header passes for a generated one).
WriteFails(k) ==
    /\ NextFile(k)
    /\ run' = "failed"
    /\ disk' \in {disk} \cup {[disk EXCEPT ![<<current, k>>] = c] : c \in {Torn, metadata}}
    /\ UNCHANGED <<metadata, loopVars>>

\* Mistake: what is written already is emitted again.
DiscoveredAgain == referenced

\* What EmitAll appends to the worklist when a namespace is written.
Discovered == referenced \ emitted

EndNamespace ==
    /\ run = "emitting" /\ current # None
    /\ due = {}
    /\ current' = None
    /\ pending' = pending \cup Discovered
    /\ UNCHANGED <<metadata, disk, run, filter, emitted, due, referenced, written>>

EndClosure ==
    /\ run = "emitting" /\ current = None
    /\ pending = {}
    /\ run' = "pruning"
    /\ UNCHANGED <<metadata, disk, loopVars>>

-----------------------------------------------------------------------------
(***************************************************************************)
(* pruneStale.                                                             *)
(***************************************************************************)

\* Mistake: a filtered run sweeps the whole tree.
SweptWhole == Namespaces

\* The packages of this run; a run that was given no roots sweeps the whole tree.
Swept == IF filter = {} THEN Namespaces ELSE {p[1] : p \in written}

\* Mistake: every .go file is taken for the generator's.
GeneratedByName(p) == disk[p] # None

\* A file is the generator's when it begins with the header.
Generated(p) == disk[p] \in Metadata

Stale == {p \in Paths \ written : p[1] \in Swept /\ Generated(p)}

Remove(gone) == disk' = [p \in Paths |-> IF p \in gone THEN None ELSE disk[p]]

Prune ==
    /\ run = "pruning"
    /\ Remove(Stale)
    /\ run' = "ok"
    /\ UNCHANGED <<metadata, loopVars>>

\* The walk stops at a file it cannot read or remove, or the run is killed in it.
PruneFails ==
    /\ run = "pruning"
    /\ \E gone \in SUBSET Stale : Remove(gone)
    /\ run' = "failed"
    /\ UNCHANGED <<metadata, loopVars>>

-----------------------------------------------------------------------------
\* What a run does when nothing stops it.
Proceed ==
    \/ \E n \in Namespaces : BeginNamespace(n)
    \/ MissingNamespace
    \/ \E k \in Kinds : WriteFile(k)
    \/ EndNamespace
    \/ EndClosure
    \/ Prune

Next ==
    \/ Ingest
    \/ EditByHand
    \/ \E f \in SUBSET Namespaces : Start(f)
    \/ Proceed
    \/ \E k \in Kinds : WriteFails(k)
    \/ PruneFails

\* A run that nothing stops goes on; nobody has to start one.
Fairness == WF_vars(Proceed)

Spec == Init /\ [][Next]_vars /\ Fairness

-----------------------------------------------------------------------------
(***************************************************************************)
(* Properties.                                                             *)
(***************************************************************************)

References(n) == UNION {Imports[metadata][n][k] : k \in Bodies[metadata][n]}

Closed(S) == \A n \in S : References(n) \subseteq S

\* The worklist loses no namespace and takes none that nothing asks for: what is
\* begun or waits holds the roots and all that the written files import, and lies
\* within every closed set of namespaces that holds the roots.
WorklistIsTight ==
    run \in {"emitting", "pruning", "ok"} =>
        /\ Roots(filter) \subseteq emitted \cup pending
        /\ emitted \subseteq Loaded[metadata]
        /\ emitted \cap pending = {}
        /\ referenced = UNION {Imports[metadata][p[1]][p[2]] : p \in written}
        /\ current = None => referenced \subseteq emitted \cup pending
        /\ \A S \in SUBSET Namespaces :
              Closed(S) /\ Roots(filter) \subseteq S => emitted \cup pending \cup referenced \subseteq S

\* The files noted are those of the namespaces begun, but for the ones due.
WrittenIsBegun ==
    run \in {"emitting", "pruning", "ok"} =>
        /\ current # None => current \in emitted /\ due \subseteq Bodies[metadata][current]
        /\ current = None => due = {}
        /\ written = {p \in Namespaces \X Kinds :
                         /\ p[1] \in emitted
                         /\ p[2] \in Bodies[metadata][p[1]]
                         /\ ~ (p[1] = current /\ p[2] \in due)}
        /\ \A p \in written : disk[p] = metadata

\* The run prunes, or has, only when there is nothing left to emit.
PrunesLast == run \in {"pruning", "ok"} => current = None /\ pending = {}

\* What the generator writes is under its own file names.
PathsAreKept == \A p \in Paths \ (Namespaces \X Kinds) : disk[p] \in {None, Hand}

\* A run that has pruned leaves nothing generated but its own, in its packages or,
\* when it was given no roots, in all.
PrunedIsGone ==
    run = "ok" => \A p \in Paths :
                     Generated(p) /\ (p[1] \in emitted \/ filter = {}) => p \in written

\* The invariant the proofs use.
IInv ==
    /\ TypeOK
    /\ WorklistIsTight
    /\ WrittenIsBegun
    /\ PrunesLast
    /\ PathsAreKept
    /\ PrunedIsGone

\* Whatever failed runs and other metadata have left, a run that succeeds leaves whole
\* packages: the roots are there, every file of every package it emitted is of the
\* metadata it loaded, no generated file of such a package is of any other, and what a
\* file imports is a package of the same run (EmitAll, emitNamespace, writeFile,
\* pruneStale).  What it cannot clear under a name it does not write is a file torn
\* before its header was written, or a developer's.
SucceedsWhole ==
    run = "ok" =>
        /\ Roots(filter) \subseteq emitted
        /\ \A n \in emitted : \A k \in Kinds :
              IF k \in Bodies[metadata][n]
              THEN disk[<<n, k>>] = metadata /\ Imports[metadata][n][k] \subseteq emitted
              ELSE disk[<<n, k>>] \in {None, Torn, Hand}
        /\ filter = {} =>
              \A n \in Namespaces \ emitted, k \in Kinds : disk[<<n, k>>] \in {None, Torn, Hand}

\* A run takes a developer's file only where a package it emits has a file of that
\* very name to write: whatever is stale, torn or failed, the sweep of pruneStale
\* leaves every file alone that does not carry the header, in a generated file's
\* place or beside it, and so does a write everywhere but at its own path.
SweepSparesHandWritten ==
    [][\A p \in Paths : Active /\ disk[p] = Hand /\ disk'[p] # Hand =>
          run = "emitting" /\ \E k \in due : p = <<current, k>>]_vars

\* A run that was given roots changes no package outside their closure, which is
\* the least closed set of namespaces that holds them (EmitAll's worklist, and
\* pruneStale without a full sweep).
FilteredRunIsLocal ==
    [][\A p \in Paths : Active /\ filter # {} /\ disk'[p] # disk[p] =>
          \A S \in SUBSET Namespaces : Closed(S) /\ filter \subseteq S => p[1] \in S]_vars

\* Nothing is removed before everything is written: a run that fails on a missing
\* namespace or in a write leaves at least the files that were there, and when a
\* file goes, all that the roots reach is on the disk (EmitAll prunes last).
RemovesLast ==
    [][Active /\ (\E p \in Paths : Generated(p) /\ disk'[p] = None) =>
          \E S \in SUBSET Namespaces :
             /\ Roots(filter) \subseteq S /\ Closed(S)
             /\ \A n \in S, k \in Kinds : k \in Bodies[metadata][n] => disk[<<n, k>>] = metadata]_vars

\* Every run ends, also when the namespaces reference each other in circles: the
\* worklist takes a namespace once (emitted in EmitAll).
EveryRunEnds == Active ~> ~ Active

\* What bindings.go says of the command: "It is self-cleaning - generated files from
\* an earlier run that this run does not rewrite are pruned".
SelfCleaning == run = "ok" => \A p \in Paths : Generated(p) => p \in written

\* And: "hand-written files, which lack the DO-NOT-EDIT header, are never touched".
\* The code does not keep this: WriteGoFile and writeRawFile replace whatever is at
\* their path, and EmissionOverwrite.cfg shows a run that does.
HandWrittenSurvives ==
    [][\A p \in Paths : Active /\ disk[p] = Hand => disk'[p] = Hand]_vars
=============================================================================
