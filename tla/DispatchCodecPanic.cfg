\* A body the runtime supplies panics, as a custom ElementCodec may.
CONSTANTS
    Calls = {c1, c2}
    Threads = {t1, ui}
    Apartment = ui
    Worker = worker
    None = None
    NestedKinds <- DocumentedNesting
    PanickingKinds <- ObjectsOnly
SPECIFICATION Spec
INVARIANT ProcessSurvives
\* The process is gone: nothing can follow.
CHECK_DEADLOCK FALSE
