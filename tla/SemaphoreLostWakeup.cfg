CONSTANTS
    Posters = {p1}
    Takers = {c1, c2}
    InitVal = 0
    MaxValue = 2
SPECIFICATION FairSpec
PROPERTY WaitsOnlyAtZero
