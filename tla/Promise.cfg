CONSTANTS
    Promises = {p1, p2}
    Main = main
    Dp = dp0
    Fds = {fd}
    Delays = {1}
    MaxTime = 2
    MaxCalls = 2
    Preempted = FALSE
    NULL = NULL
SPECIFICATION FairSpec
INVARIANTS SchedulerAgrees WaitsInOnePlace FreedOnce
PROPERTIES ResultHasTerminated SleepsLongEnough DelayEnds EventIsServed AwaitEnds
\* promise_end ends everything
CHECK_DEADLOCK FALSE
