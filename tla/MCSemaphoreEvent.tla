--------------------------- MODULE MCSemaphoreEvent ---------------------------
(***************************************************************************)
(* A semaphore and an event of the same program: two futex words that      *)
(* different threads use at the same time.                                 *)
(***************************************************************************)
EXTENDS Semaphore

CONSTANTS Raisers, Waiters

VARIABLES evFutex, evPc

Ev == INSTANCE Event WITH futex <- evFutex, pc <- evPc

event == <<evFutex, evPc>>
both == <<vars, event>>

BothNext ==
    \/ Next /\ UNCHANGED event
    \/ Ev!Next /\ UNCHANGED vars

BothInit == Init /\ Ev!Init

BothSpec ==
    /\ BothInit /\ [][BothNext]_both
    /\ \A t \in Threads : WF_both(Continue(t) /\ UNCHANGED event)
    /\ \A t \in Raisers \union Waiters : WF_both(Ev!Continue(t) /\ UNCHANGED vars)

-----------------------------------------------------------------------------
(* A raised event is taken by a thread inside event_wait (threads.c:143).  *)
RaiseIsTaken == Ev!RaiseIsTaken
=============================================================================
