\* The owner's reference and three others, one of them used on the declared
\* thread: an operation on the worker, one beside it and the owner's at once.
CONSTANTS
    Refs = {owner, r1, r2, ui}
    OwnerRef = owner
    InlineRefs = {ui}
    None = None
SPECIFICATION Spec
INVARIANTS PinnedWhileHeld HeldInvokeServed IInv
PROPERTIES NeverRevived LivesByComRules
