----------------------------- MODULE MCEmission -----------------------------
(***************************************************************************)
(* Three namespaces.  In the older metadata the first two import each      *)
(* other and the second also the third; the newer one has lost the third,  *)
(* and with it the second's only file but doc.go; a filtered ingest has    *)
(* left the first alone, which imports what is not loaded.                 *)
(***************************************************************************)
EXTENDS Emission, TLC

MCNamespaces == {"a", "b", "c"}
MCKinds == {"types", "doc"}
\* A file of the developers' own, and one that a newer metadata no longer generates.
MCHandPaths == {<<"b", "extra">>, <<"b", "types">>}
MCMetadata == {"old", "new", "filtered"}

MCLoaded == ("old" :> MCNamespaces) @@ ("new" :> {"a", "b"}) @@ ("filtered" :> {"a"})

\* The namespaces whose types file imports something, and what.
Importing(m) == ("a" :> {"b"}) @@ (IF m = "old" THEN "b" :> {"a", "c"} ELSE <<>>)

MCBodies ==
    [m \in MCMetadata |->
        [n \in MCNamespaces |->
            IF n \in DOMAIN Importing(m) THEN MCKinds ELSE {"doc"}]]

MCImports ==
    [m \in MCMetadata |->
        [n \in MCNamespaces |->
            [k \in MCKinds |->
                IF k = "types" /\ n \in DOMAIN Importing(m) THEN Importing(m)[n] ELSE {}]]]
=============================================================================
