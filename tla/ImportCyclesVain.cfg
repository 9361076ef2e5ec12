SPECIFICATION Spec
CONSTANTS
    Namespaces <- MCNamespaces
    ArrowRank <- MCArrowRank
    Metadata <- WeightedMetadata
INVARIANT NothingSeveredInVain
\* ComputeBlockedImports returns, and nothing follows.
CHECK_DEADLOCK FALSE
