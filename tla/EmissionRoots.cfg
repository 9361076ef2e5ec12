\* The same, asked whether a run prunes what earlier runs generated.
SPECIFICATION Spec
CONSTANTS
    Namespaces <- MCNamespaces
    Kinds <- MCKinds
    Doc = "doc"
    HandPaths <- MCHandPaths
    Metadata <- MCMetadata
    Loaded <- MCLoaded
    Bodies <- MCBodies
    Imports <- MCImports
    None = None
    Hand = Hand
    Torn = Torn
INVARIANTS SelfCleaning
