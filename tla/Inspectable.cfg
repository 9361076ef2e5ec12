\* Two facets and a runtime class with one interface; the owner's reference, two
\* used through the worker and one on the declared thread.
CONSTANTS
    Refs = {owner, r1, r2, ui}
    OwnerRef = owner
    InlineRefs = {ui}
    Facets = {first, second}
    Identity = first
    InnerIids = {runtimeClass}
    OtherIid = other
    Inner = inner
    None = None
\* The object ends when its last reference is released, and nothing happens to it after.
CHECK_DEADLOCK FALSE
SPECIFICATION Spec
INVARIANTS IInv AccountsForBothHalves InnerOutlivesItsInterfaces MethodsRunOnTheLiving
PROPERTIES AnswersByInterface AggregateLivesByComRules NoInnerLeaks
