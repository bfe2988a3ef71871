CONSTANTS
    Elements = {e1, e2, e3, e4}
    Priorities = {1, 2, 3}
    Descending = FALSE
    InitSize = 1
    Resize = 1
    Capacity = 4
    NULL = NULL
    RingData = {x1, x2}
    RingSize = 4
    HashData = {d1, d2, d3, d4}
    HashKeyOf <- SomeKeys
    HashHashOf <- SomeHashes
    HashInitSize = 2
    HashPercent = 20
    HashMaxDistance = 3
    Nodes = {p, q, r}
    Values = {u, v}
    MaxCount = 4
    d1 = d1
    d2 = d2
    d3 = d3
    d4 = d4
    k1 = k1
    k2 = k2
    k3 = k3
    Junk = Junk
SPECIFICATION ContainersSpec
INVARIANTS HeapOrder HashCorrect ListsHold
PROPERTIES ImplementsPriorityQueue RingImplementsQueue
CHECK_DEADLOCK FALSE
