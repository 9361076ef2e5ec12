\* Three goroutines await one operation, which may or may not reference a handler
\* before it invokes it.
CONSTANTS
    Awaits = {a1, a2, a3}
    OnWorker = {}
    Styles = {TRUE, FALSE}
    None = None
\* An operation that does not end keeps its Await waiting.
CHECK_DEADLOCK FALSE
SPECIFICATION Spec
INVARIANTS IInv ReportsTheEnd
PROPERTIES EveryAwaitReturns HandlersAreLetGo
