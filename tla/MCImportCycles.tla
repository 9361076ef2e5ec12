--------------------------- MODULE MCImportCycles ---------------------------
EXTENDS ImportCycles

MCNamespaces == 1 .. 4

\* 1 is Windows.Foundation and 2 Windows.Foundation.Collections: in name order 1
\* comes first, with an arrow behind the names 2 does.
MCArrowRank == [n \in MCNamespaces |-> CASE n = 1 -> 2 [] n = 2 -> 1 [] OTHER -> n]

\* The references of one namespace to another: none, one, one class with its
\* default interface there, or more references than such a class weighs.
Kinds == {<<0, 0>>, <<1, 0>>, <<1, 1>>, <<1500, 0>>}

\* A registry with kind[e] between two namespaces and one reference of each
\* namespace to itself.
Registry(kind, bases) ==
    [refs   |-> [e \in Pairs |-> IF e[1] = e[2] THEN 1 ELSE kind[e][1]],
     embeds |-> [e \in Pairs |-> IF e[1] = e[2] THEN 0 ELSE kind[e][2]],
     bases  |-> bases]

NoBases == [e \in Pairs |-> {}]

Between(S) == {e \in S \X S : e[1] # e[2]}

\* Extend a choice of kinds to all pairs.
Extended(kind) == [e \in Pairs |-> IF e \in DOMAIN kind THEN kind[e] ELSE <<0, 0>>]

\* Three namespaces, with references of every kind.
Weighted == [Between(1 .. 3) -> Kinds]

\* Four namespaces, with one reference or none.
Plain == [Between(1 .. 4) -> {<<0, 0>>, <<1, 0>>}]

WeightedMetadata == {Registry(Extended(kind), NoBases) : kind \in Weighted}

MCMetadata ==
    {Registry(kind, NoBases) :
        kind \in {Extended(k) : k \in Weighted} \cup {Extended(k) : k \in Plain}}

\* Namespace 1 names a class of 2, whose default interface is in 3.
ClassMetadata ==
    {Registry(Extended(kind), [NoBases EXCEPT ![<<1, 2>>] = {3}]) :
        kind \in {k \in Weighted :
                     k[<<1, 2>>][1] > k[<<1, 2>>][2] /\ k[<<2, 3>>][2] > 0}}
=============================================================================
