CONSTANTS
    Promises = {p1}
    Main = main
    Dp = dp0
    Fds = {}
    Delays = {1}
    MaxTime = 2
    MaxCalls = 1
    Preempted = TRUE
    NULL = NULL
SPECIFICATION FairSpec
PROPERTIES DelayEnds
\* promise_end ends everything
CHECK_DEADLOCK FALSE
