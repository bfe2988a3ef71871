-------------------------------- MODULE Event --------------------------------
(***************************************************************************)
(* The event of ef/concurrency/threads.c: a word that is 1 from a raise    *)
(* until one waiter resets it.  Every action is one atomic instruction or  *)
(* one futex system call of one thread:                                    *)
(*   "out"    not inside an event call                                     *)
(*   "wake"   in raise, the CAS(0,1) succeeded, about to FUTEX_WAKE(all)   *)
(*   "test"   in wait, about to test for 0 with CAS(0,0)                   *)
(*   "wait"   in wait, about to FUTEX_WAIT(0)                              *)
(*   "sleep"  queued in the kernel                                         *)
(*   "reset"  in wait, the test saw 1, about to CAS(1,0)                   *)
(***************************************************************************)
EXTENDS Naturals

CONSTANTS Raisers,      \* the threads that call event_raise
          Waiters       \* the threads that call event_wait

VARIABLES futex,        \* ev->futex
          pc            \* the next instruction of each thread

vars == <<futex, pc>>

Threads == Raisers \union Waiters

Sleepers == {t \in Waiters : pc[t] = "sleep"}

Goto(t, label) == pc' = [pc EXCEPT ![t] = label]

-----------------------------------------------------------------------------
Init == futex = 0 /\ pc = [t \in Threads |-> "out"]

(* A slip of Raise: counts where it should set.                            *)
RaiseCounts(t) ==
    /\ pc[t] = "out"
    /\ futex' = futex + 1
    /\ Goto(t, IF futex = 0 THEN "wake" ELSE "out")

(* event_raise: CAS(0,1); a raise of a raised event changes nothing.       *)
Raise(t) ==
    /\ pc[t] = "out"
    /\ futex' = 1
    /\ Goto(t, IF futex = 0 THEN "wake" ELSE "out")

(* FUTEX_WAKE(INT_MAX): every sleeper returns to the loop condition.       *)
WakeAll(t) ==
    /\ pc[t] = "wake"
    /\ pc' = [u \in Threads |-> IF u = t THEN "out"
                                ELSE IF u \in Sleepers THEN "test" ELSE pc[u]]
    /\ UNCHANGED futex

CallWait(t) == pc[t] = "out" /\ Goto(t, "test") /\ UNCHANGED futex

(* The test before the loop and the one that ends it are the same CAS.     *)
Test(t) ==
    /\ pc[t] = "test"
    /\ Goto(t, IF futex = 0 THEN "wait" ELSE "reset")
    /\ UNCHANGED futex

(* A slip of FutexWait: sleeps without looking at the word again.          *)
FutexWaitBlind(t) == pc[t] = "wait" /\ Goto(t, "sleep") /\ UNCHANGED futex

(* FUTEX_WAIT(0): queue if the word is still 0, else EAGAIN.               *)
FutexWait(t) ==
    /\ pc[t] = "wait"
    /\ Goto(t, IF futex = 0 THEN "sleep" ELSE "test")
    /\ UNCHANGED futex

Interrupt(t) == pc[t] = "sleep" /\ Goto(t, "test") /\ UNCHANGED futex

(* A slip of Reset: the event stays raised.                                *)
ResetForgotten(t) == pc[t] = "reset" /\ Goto(t, "out") /\ UNCHANGED futex

(* CAS(1,0), its result ignored; event_wait returns.                       *)
Reset(t) == pc[t] = "reset" /\ futex' = 0 /\ Goto(t, "out")

Continue(t) == WakeAll(t) \/ Test(t) \/ FutexWait(t) \/ Reset(t)

Next ==
    \/ \E t \in Raisers : Raise(t)
    \/ \E t \in Waiters : CallWait(t) \/ Interrupt(t)
    \/ \E t \in Threads : Continue(t)

Spec == Init /\ [][Next]_vars

(* A thread inside a call is scheduled; nothing forces a raise or a call.  *)
FairSpec == Spec /\ \A t \in Threads : WF_vars(Continue(t))

-----------------------------------------------------------------------------
(* Type correctness.                                                       *)
TypeOK ==
    /\ futex \in {0, 1}
    /\ pc \in [Threads -> {"out", "wake", "test", "wait", "sleep", "reset"}]

(* Nobody sleeps through a raise: beside a raised event a thread sleeps    *)
(* only until the raiser's FUTEX_WAKE (threads.c:136-151).                 *)
NoLostRaise ==
    Sleepers # {} /\ futex = 1 => \E t \in Raisers : pc[t] = "wake"

(* A raised event beside a thread that is inside event_wait is taken by    *)
(* one of them (threads.c:143-151).                                        *)
RaiseIsTaken ==
    (futex = 1 /\ \E t \in Waiters : pc[t] # "out") ~> futex = 0

(* "wake all thread that waited on this event": who is queued when the     *)
(* event is raised returns from event_wait (threads.c:136-151).            *)
RaiseReleasesAll ==
    \A t \in Waiters : (pc[t] = "sleep" /\ futex = 1) ~> pc[t] = "out"
=============================================================================
