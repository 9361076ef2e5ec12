SPECIFICATION Spec
CONSTANTS
    Namespaces <- MCNamespaces
    ArrowRank <- MCArrowRank
    Metadata <- ClassMetadata
INVARIANT PackagesCompile
\* ComputeBlockedImports returns, and nothing follows.
CHECK_DEADLOCK FALSE
