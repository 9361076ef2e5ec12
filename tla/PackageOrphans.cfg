\* The smallest namespaces of the instance, with at most one member of IWidget.
CONSTANTS
    Metadata <- MCMetadata
    Refs <- MCRefs
    Opens <- MCOpens
    Invokes <- MCInvokes
    Siblings <- MCSiblings
    AsyncOpens <- MCAsyncOpens
    AsyncInfo <- Info
    Unguided <- MCUnguided
    Severed = {"Far"}
    Home = "App"
    MembersBound = 1
    None = None
CHECK_DEADLOCK FALSE
SPECIFICATION Spec
INVARIANTS SkippedMembersPullNothing
