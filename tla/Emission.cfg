\* Three namespaces, three states of the metadata, every set of roots, and a developer who
\* may write at a generated file's place and beside it.
SPECIFICATION Spec
CONSTANTS
    Namespaces <- MCNamespaces
    Kinds <- MCKinds
    Doc = "doc"
    HandPaths <- MCHandPaths
    Metadata <- MCMetadata
    Loaded <- MCLoaded
    Bodies <- MCBodies
    Imports <- MCImports
    None = None
    Hand = Hand
    Torn = Torn
INVARIANTS IInv SucceedsWhole
PROPERTIES SweepSparesHandWritten FilteredRunIsLocal RemovesLast EveryRunEnds
