\* Every namespace of the instance with at most three of the members of IWidget.
CONSTANTS
    Metadata <- MCMetadata
    Refs <- MCRefs
    Opens <- MCOpens
    Invokes <- MCInvokes
    Siblings <- MCSiblings
    AsyncOpens <- MCAsyncOpens
    AsyncInfo <- Info
    Unguided <- MCUnguided
    Severed = {"Far"}
    Home = "App"
    MembersBound = 3
    None = None
\* The generator ends.
CHECK_DEADLOCK FALSE
SPECIFICATION Spec
INVARIANTS IInv UniqueNames NoAliases NamesResolve NothingIsLostSilently
PROPERTIES ReachesFixedPoint
