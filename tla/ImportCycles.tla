---------------------------- MODULE ImportCycles ----------------------------
(***************************************************************************)
(* Which references between namespaces may become Go imports               *)
(* (internal/codegen/pipeline/cycles.go).  The packages generated from the *)
(* namespaces must not import each other in a circle, so the generator     *)
(* counts the references between namespaces, looks for a circle, severs    *)
(* its lightest edge, and starts again until a search finds none.          *)
(*                                                                         *)
(* Namespaces are numbered in the order sort.Strings puts them.  ArrowRank *)
(* is the order of the names with an arrow after them, which breaks ties   *)
(* and is another one: a name that continues another with a dot follows it *)
(* in the first order and precedes it in the second.                       *)
(***************************************************************************)
EXTENDS Integers, Sequences, FiniteSets

CONSTANTS
    Namespaces,  \* the namespaces of the registry, as numbers
    ArrowRank,   \* the position of each namespace's name followed by an arrow
    Metadata     \* the registries that are tried (a bound of the model)

Pairs == Namespaces \X Namespaces

\* What a registry holds, as far as imports can tell: how often a namespace
\* refers to another, how many of its classes have their default interface in
\* the other, and where the default interfaces are of the other's classes that
\* it names.
Registries == [refs : [Pairs -> Nat],
               embeds : [Pairs -> Nat],
               bases : [Pairs -> SUBSET Namespaces]]

ASSUME ImportAssumption ==
    /\ Namespaces \subseteq Nat
    /\ ArrowRank \in [Namespaces -> Int]
    /\ \A m, n \in Namespaces : ArrowRank[m] = ArrowRank[n] => m = n
    /\ Metadata \subseteq Registries

VARIABLES
    meta,     \* the registry
    edges,    \* the references not severed so far
    blocked,  \* the severed ones
    color,    \* findCycle's state of each namespace
    stack,    \* the visits in progress, each with the targets it has yet to try
    cycle,    \* the circle findCycle returned
    pc        \* "search": in findCycle; "sever": it found a circle; "returned"

vars == <<meta, edges, blocked, color, stack, cycle, pc>>

defaultEmbedWeight == 1000

\* References to another namespace; those a namespace makes to itself do not count.
Counted == {e \in Pairs : e[1] # e[2] /\ meta.refs[e] + meta.embeds[e] > 0}

Weight(e) == meta.refs[e] + defaultEmbedWeight * meta.embeds[e]

\* The keys of the edge map: a namespace stays one when its last edge is severed.
Sources == {n \in Namespaces : \E d \in Namespaces : <<n, d>> \in Counted}

Targets(n) == {d \in Namespaces : <<n, d>> \in edges}

Visit(n) == [node |-> n, todo |-> Targets(n)]

Top == stack[Len(stack)]

\* The next target of the innermost visit, in name order.
NextTarget(t) == t \in Top.todo /\ \A u \in Top.todo : t <= u

\* The stack when the innermost visit has taken target t.
Tried(t) ==
    [stack EXCEPT ![Len(stack)] = [node |-> Top.node, todo |-> Top.todo \ {t}]]

TypeOK ==
    /\ meta \in Registries
    /\ edges \subseteq Counted
    /\ blocked \subseteq Counted
    /\ color \in [Namespaces -> {"unvisited", "inStack", "done"}]
    /\ stack \in Seq([node : Namespaces, todo : SUBSET Namespaces])
    /\ cycle \in Seq(Namespaces)
    /\ pc \in {"search", "sever", "returned"}

Init ==
    /\ meta \in Metadata
    /\ edges = Counted
    /\ blocked = {}
    /\ color = [n \in Namespaces |-> "unvisited"]
    /\ stack = <<>>
    /\ cycle = <<>>
    /\ pc = "search"

-----------------------------------------------------------------------------
\* findCycle starts a visit at the first source no visit has reached.
VisitRoot(n) ==
    /\ pc = "search" /\ stack = <<>>
    /\ n \in Sources /\ color[n] = "unvisited"
    /\ \A m \in Sources : color[m] = "unvisited" => n <= m
    /\ color' = [color EXCEPT ![n] = "inStack"]
    /\ stack' = <<Visit(n)>>
    /\ UNCHANGED <<meta, edges, blocked, cycle, pc>>

\* The next target is new: visit it.
Descend(t) ==
    /\ pc = "search" /\ stack # <<>>
    /\ NextTarget(t) /\ color[t] = "unvisited"
    /\ color' = [color EXCEPT ![t] = "inStack"]
    /\ stack' = Append(Tried(t), Visit(t))
    /\ UNCHANGED <<meta, edges, blocked, cycle, pc>>

\* The next target was finished before: pass over it.
PassOver(t) ==
    /\ pc = "search" /\ stack # <<>>
    /\ NextTarget(t) /\ color[t] = "done"
    /\ stack' = Tried(t)
    /\ UNCHANGED <<meta, edges, blocked, color, cycle, pc>>

\* No target is left: the visit ends.
Retreat ==
    /\ pc = "search" /\ stack # <<>>
    /\ Top.todo = {}
    /\ color' = [color EXCEPT ![Top.node] = "done"]
    /\ stack' = SubSeq(stack, 1, Len(stack) - 1)
    /\ UNCHANGED <<meta, edges, blocked, cycle, pc>>

\* A circle taken to be all of the stack, with the path that leads to it.
FoundCycleUncut(t, i) ==
    /\ pc = "search" /\ stack # <<>>
    /\ NextTarget(t) /\ color[t] = "inStack" /\ stack[i].node = t
    /\ cycle' = Append([k \in 1 .. Len(stack) |-> stack[k].node], t)
    /\ pc' = "sever"
    /\ UNCHANGED <<meta, edges, blocked, color, stack>>

\* The next target, at position i of the stack, is being visited: the stack from
\* there on and the target again are a circle.
FoundCycle(t, i) ==
    /\ pc = "search" /\ stack # <<>>
    /\ NextTarget(t) /\ color[t] = "inStack" /\ stack[i].node = t
    /\ cycle' = Append([k \in 1 .. Len(stack) - i + 1 |-> stack[i + k - 1].node], t)
    /\ pc' = "sever"
    /\ UNCHANGED <<meta, edges, blocked, color, stack>>

\* Every source is finished and no circle was found.
Return ==
    /\ pc = "search" /\ stack = <<>>
    /\ \A n \in Sources : color[n] # "unvisited"
    /\ pc' = "returned"
    /\ UNCHANGED <<meta, edges, blocked, color, stack, cycle>>

CycleEdge(i) == <<cycle[i], cycle[i + 1]>>

\* No namespace occurs twice as a source on the circle, so that a tie is
\* decided by the sources.
Lighter(d, e) ==
    \/ Weight(d) < Weight(e)
    \/ Weight(d) = Weight(e) /\ ArrowRank[d[1]] < ArrowRank[e[1]]

Lightest(i) ==
    \A j \in 1 .. Len(cycle) - 1 : ~Lighter(CycleEdge(j), CycleEdge(i))

\* The states of the namespaces outlive the search.
NewSearchOldStates ==
    /\ stack' = <<>>
    /\ cycle' = <<>>
    /\ pc' = "search"
    /\ UNCHANGED <<meta, color>>

\* The loop calls findCycle again, which starts afresh.
NewSearch ==
    /\ color' = [n \in Namespaces |-> "unvisited"]
    /\ stack' = <<>>
    /\ cycle' = <<>>
    /\ pc' = "search"
    /\ UNCHANGED meta

\* The severed edge is recorded but stays in the graph.
SeverWithoutDelete(i) ==
    /\ pc = "sever" /\ Lightest(i)
    /\ blocked' = blocked \cup {CycleEdge(i)}
    /\ NewSearch
    /\ UNCHANGED edges

\* The circle's lightest edge is severed.
Sever(i) ==
    /\ pc = "sever" /\ Lightest(i)
    /\ edges' = edges \ {CycleEdge(i)}
    /\ blocked' = blocked \cup {CycleEdge(i)}
    /\ NewSearch

Next ==
    \/ \E n \in Namespaces : VisitRoot(n) \/ Descend(n) \/ PassOver(n)
    \/ Retreat
    \/ \E i \in 1 .. Len(stack) : FoundCycle(stack[i].node, i)
    \/ Return
    \/ \E i \in 1 .. Len(cycle) - 1 : Sever(i)

\* One goroutine runs the loop, and nothing in it waits.
Spec == Init /\ [][Next]_vars /\ WF_vars(Next)

-----------------------------------------------------------------------------
\* Every set of namespaces has one that leads to none of the set.  (S is finite.)
Acyclic(E, S) ==
    \A T \in SUBSET S : T # {} => \E s \in T : \A d \in T : <<s, d>> \notin E

\* Whoever follows the edges E from where e leads comes to where e starts: a set
\* that E does not leave contains e's source if it contains e's target.
OnCircle(E, e) ==
    \A T \in SUBSET Namespaces :
        /\ e[2] \in T
        /\ \A x \in E : x[1] \in T => x[2] \in T
        => e[1] \in T

\* The generator emits the imports that are left when ComputeBlockedImports
\* returns; a circle among them would not compile.  cycles.go:43-56.
ImportsAcyclic ==
    pc = "returned" => Acyclic(Counted \ blocked, Namespaces)

\* Severing costs API surface, so it is done only where it helps, and where it
\* costs least: an edge newly severed closes a circle of references that are all
\* left and none of which is lighter.  In particular a class loses its default
\* interface only where every way round weighs as much.  cycles.go:14-17.
SeversLightest ==
    [][\A e \in blocked' \ blocked :
          e \in edges /\ OnCircle({x \in edges : Weight(x) >= Weight(e)}, e)]_vars

\* The loop ends, whatever the circles: every search ends, and severing leaves
\* fewer of them.  cycles.go:44-55.
Returns == <>(pc = "returned")

\* Severing is paid for in members that are skipped, and cycles.go:14 says that
\* the edges are chosen for the fewest degradations: none that could be restored
\* without closing a circle.
NothingSeveredInVain ==
    pc = "returned" =>
        \A e \in blocked : ~Acyclic(Counted \ (blocked \ {e}), Namespaces)

\* What the packages import: the namespaces referred to where the reference is
\* not severed, and for a class named in a signature the namespace of the class's
\* default interface, which may be a third one.
Imported ==
    (Counted \ blocked) \cup
    {e \in Pairs \ blocked :
        /\ e[1] # e[2]
        /\ \E home \in Namespaces :
              <<e[1], home>> \in Counted \ blocked /\ e[2] \in meta.bases[<<e[1], home>>]}

\* generator.go:95 says that the generated packages always compile: they do not
\* import each other in a circle.
PackagesCompile ==
    pc = "returned" => Acyclic(Imported, Namespaces)

-----------------------------------------------------------------------------
\* What the search keeps true, and why: IInv is inductive and implies the
\* invariant above.

\* The stack is a path, and holds exactly the namespaces marked inStack, each once.
StackIsPath ==
    /\ \A i \in 1 .. Len(stack) - 1 : <<stack[i].node, stack[i + 1].node>> \in edges
    /\ \A i, j \in 1 .. Len(stack) : stack[i].node = stack[j].node => i = j
    /\ \A n \in Namespaces :
          color[n] = "inStack" <=> \E i \in 1 .. Len(stack) : stack[i].node = n

\* A target a visit has tried is finished, or its visit is the next on the stack.
TriedAreFinished ==
    \A i \in 1 .. Len(stack) :
        /\ stack[i].todo \subseteq Targets(stack[i].node)
        /\ \A d \in Targets(stack[i].node) \ stack[i].todo :
              color[d] = "done" \/ (i < Len(stack) /\ d = stack[i + 1].node)

Done == {n \in Namespaces : color[n] = "done"}

\* Nothing leads out of the finished namespaces, and they hold no circle.
FinishedAreAcyclic ==
    /\ \A n \in Done : Targets(n) \subseteq Done
    /\ Acyclic(edges, Done)

\* What is severed is a circle.
CycleIsCircle ==
    pc = "sever" =>
        /\ Len(cycle) >= 2
        /\ cycle[1] = cycle[Len(cycle)]
        /\ \A i \in 1 .. Len(cycle) - 1 : CycleEdge(i) \in edges

IInv ==
    /\ TypeOK
    /\ edges = Counted \ blocked
    /\ StackIsPath
    /\ TriedAreFinished
    /\ FinishedAreAcyclic
    /\ CycleIsCircle
    /\ pc = "returned" => Sources \subseteq Done
=============================================================================
