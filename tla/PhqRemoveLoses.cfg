CONSTANTS
    Elements = {e1, e2, e3}
    Priorities = {1, 2}
    Descending = FALSE
    InitSize = 1
    Resize = 1
    Capacity = 3
    NULL = NULL
SPECIFICATION RemoveSpec
INVARIANTS HoldsAll
