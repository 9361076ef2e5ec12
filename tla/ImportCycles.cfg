SPECIFICATION Spec
CONSTANTS
    Namespaces <- MCNamespaces
    ArrowRank <- MCArrowRank
    Metadata <- MCMetadata
INVARIANTS
    ImportsAcyclic
PROPERTIES
    SeversLightest
    Returns
\* ComputeBlockedImports returns, and nothing follows.
CHECK_DEADLOCK FALSE
