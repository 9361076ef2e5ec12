\* Three calls are enough for one on the worker, one nested in it and one
\* contending; one thread besides the declared one keeps Idle meaningful.
CONSTANTS
    Calls = {c1, c2, c3}
    Threads = {t1, ui}
    Apartment = ui
    Worker = worker
    None = None
    NestedKinds <- DocumentedNesting
    PanickingKinds <- HandlersAndMethods
SPECIFICATION FairSpec
INVARIANTS ResultIsOwn SInv
PROPERTIES KeepsPromise EveryCallReturns
