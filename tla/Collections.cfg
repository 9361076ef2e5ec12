\* A vector, a view and an iterator over two element objects; one of them cannot be
\* marshalled out, and a destructor's calls may nest one level deep.
CONSTANTS
    Elements = {plain, stuck}
    NoOut = {stuck}
    Refused = null
    Vectors = {vector}
    Views = {view}
    Iterators = {iterator}
    MaxLen = 2
    MaxRefs = 2
    MaxDepth = 2
SPECIFICATION Spec
INVARIANTS IInv ReferencesBalance IteratesOnce
PROPERTIES DestroyedStaysDestroyed FailedCallsDestroyNothing
CHECK_DEADLOCK FALSE
