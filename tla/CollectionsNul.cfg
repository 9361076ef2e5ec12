\* Strings: an HSTRING with an embedded NUL goes into a vector but not out of it.
CONSTANTS
    Elements = {plain, withNul}
    NoOut = {withNul}
    Refused = null
    Vectors = {vector}
    Views = {}
    Iterators = {}
    MaxLen = 1
    MaxRefs = 2
    MaxDepth = 1
SPECIFICATION Spec
PROPERTIES ReadsInBounds
CHECK_DEADLOCK FALSE
