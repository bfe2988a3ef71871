CONSTANTS
    Posters = {p1, p2, p3}
    Takers = {c1}
    InitVal = 1
    MaxValue = 3
    Raisers = {r1, r2}
    Waiters = {w1, w2}
SPECIFICATION BothSpec
INVARIANTS NoLostWakeup
PROPERTIES ImplementsSemaphore WaitsOnlyAtZero RaiseIsTaken
