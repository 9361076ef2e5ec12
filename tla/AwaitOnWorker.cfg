\* One Await made by a Method body, and an operation that references the handler
\* from its own thread before it invokes it.
CONSTANTS
    Awaits = {a1}
    OnWorker = {a1}
    Styles = {TRUE}
    None = None
CHECK_DEADLOCK FALSE
SPECIFICATION Spec
PROPERTIES EveryAwaitReturns
