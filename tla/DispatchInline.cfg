\* Two calls: one staged on the worker, one on the declared thread.
CONSTANTS
    Calls = {c1, c2}
    Threads = {t1, ui}
    Apartment = ui
    Worker = worker
    None = None
    NestedKinds <- DocumentedNesting
    PanickingKinds <- HandlersAndMethods
SPECIFICATION Spec
INVARIANT OneBodyAtATime
