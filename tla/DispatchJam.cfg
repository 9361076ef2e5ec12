\* A method raises an event, its handler calls an object: three calls in a chain.
CONSTANTS
    Calls = {c1, c2, c3}
    Threads = {t1, ui}
    Apartment = ui
    Worker = worker
    None = None
    NestedKinds <- EventFromMethod
    PanickingKinds <- HandlersAndMethods
SPECIFICATION FairSpec
PROPERTY HandlersNeverJam
CHECK_DEADLOCK FALSE
