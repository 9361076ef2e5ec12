\* Payloads of three, without the view: a GetMany or ReplaceAll that fails at its third
\* slot has two references to give back, with clients and destructors in between.
CONSTANTS
    Elements = {plain, stuck}
    NoOut = {stuck}
    Refused = null
    Vectors = {vector}
    Views = {}
    Iterators = {iterator}
    MaxLen = 3
    MaxRefs = 2
    MaxDepth = 2
SPECIFICATION Spec
PROPERTIES FailedCallsDestroyNothing
CHECK_DEADLOCK FALSE
