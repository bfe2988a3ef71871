------------------------------ MODULE Semaphore ------------------------------
(***************************************************************************)
(* The semaphore of ef/concurrency/threads.c.  Every action is one atomic  *)
(* instruction or one futex system call of one thread:                     *)
(*   "out"   not inside a semaphore call                                   *)
(*   "wake"  in post, the old value was 0, about to FUTEX_WAKE(1)          *)
(*   "test"  in wait, about to test for 0 with CAS(0,0)                    *)
(*   "wait"  in wait, about to FUTEX_WAIT(0)                               *)
(*   "sleep" queued in the kernel                                          *)
(*   "take"  in wait or trywait, the test found a value other than 0,      *)
(*           about to fetch_and_sub(1)                                     *)
(* The test and the subtraction are two instructions: this is the step     *)
(* that another taker can come between.                                    *)
(***************************************************************************)
EXTENDS Integers

CONSTANTS Posters,      \* the threads that call semaphore_post
          Takers,       \* the threads that call semaphore_wait and _trywait
          InitVal,      \* the value given to semaphore_init
          MaxValue      \* no post beyond this value (INT_MAX in the code)

ASSUME SemaphoreAssumption == InitVal \in Nat /\ MaxValue \in Nat /\ InitVal <= MaxValue

VARIABLES futex,        \* sem->futex, a signed int
          pc            \* the next instruction of each thread

vars == <<futex, pc>>

Threads == Posters \union Takers

Sleepers == {t \in Takers : pc[t] = "sleep"}

Goto(t, label) == pc' = [pc EXCEPT ![t] = label]

-----------------------------------------------------------------------------
Init == futex = InitVal /\ pc = [t \in Threads |-> "out"]

(* Slips of Post: a unit too much, and a test of the new value where the   *)
(* old one is meant.                                                       *)
PostAddsTwo(t) ==
    /\ pc[t] = "out" /\ futex < MaxValue
    /\ futex' = futex + 2
    /\ Goto(t, IF futex = 0 THEN "wake" ELSE "out")

PostTestsNew(t) ==
    /\ pc[t] = "out" /\ futex < MaxValue
    /\ futex' = futex + 1
    /\ Goto(t, IF futex' = 0 THEN "wake" ELSE "out")

(* semaphore_post: fetch_and_add(1).                                       *)
Post(t) ==
    /\ pc[t] = "out"
    /\ futex < MaxValue
    /\ futex' = futex + 1
    /\ Goto(t, IF futex = 0 THEN "wake" ELSE "out")

(* FUTEX_WAKE(1): any one sleeper returns to the loop test.                *)
Wake(t) ==
    /\ pc[t] = "wake"
    /\ \/ Sleepers = {} /\ Goto(t, "out")
       \/ \E u \in Sleepers : pc' = [pc EXCEPT ![t] = "out", ![u] = "test"]
    /\ UNCHANGED futex

(* Overdrawn semaphores stay bounded: no new call below -MaxValue.         *)
MayCall(t) == pc[t] = "out" /\ futex > -MaxValue

CallWait(t) == MayCall(t) /\ Goto(t, "test") /\ UNCHANGED futex

(* The loop test of semaphore_wait.                                        *)
Test(t) ==
    /\ pc[t] = "test"
    /\ Goto(t, IF futex = 0 THEN "wait" ELSE "take")
    /\ UNCHANGED futex

(* FUTEX_WAIT(0): queue if the word is still 0, else EAGAIN.               *)
FutexWait(t) ==
    /\ pc[t] = "wait"
    /\ Goto(t, IF futex = 0 THEN "sleep" ELSE "test")
    /\ UNCHANGED futex

Interrupt(t) == pc[t] = "sleep" /\ Goto(t, "test") /\ UNCHANGED futex

(* A slip of TryWait: no test before the take.                             *)
TryWaitBlind(t) == MayCall(t) /\ Goto(t, "take") /\ UNCHANGED futex

(* semaphore_trywait: -1 on 0 (nothing changes), else on to the take.      *)
TryWait(t) ==
    /\ MayCall(t)
    /\ futex # 0
    /\ Goto(t, "take")
    /\ UNCHANGED futex

(* fetch_and_sub(1), after which wait and trywait return 0.                *)
Take(t) == pc[t] = "take" /\ futex' = futex - 1 /\ Goto(t, "out")

Continue(t) == Wake(t) \/ Test(t) \/ FutexWait(t) \/ Take(t)

Next ==
    \/ \E t \in Posters : Post(t)
    \/ \E t \in Takers : CallWait(t) \/ TryWait(t) \/ Interrupt(t)
    \/ \E t \in Threads : Continue(t)

Spec == Init /\ [][Next]_vars

(* A thread inside a call is scheduled; nothing forces a post or a call.   *)
FairSpec == Spec /\ \A t \in Threads : WF_vars(Continue(t))

-----------------------------------------------------------------------------
(* Type correctness: the value is an integer that no post raises above     *)
(* MaxValue.                                                               *)
TypeOK ==
    /\ futex \in Int /\ futex <= MaxValue
    /\ pc \in [Threads -> {"out", "wake", "test", "wait", "sleep", "take"}]

(* "try to decrement semaphore, if semaphore is 0 return -1": the value    *)
(* never drops below zero (threads.c:99-113).                              *)
NeverNegative == futex >= 0

(* A taker sleeps beside a positive value only while the post that made it *)
(* positive is about to wake it (threads.c:92-105).                        *)
NoLostWakeup ==
    Sleepers # {} /\ futex > 0 => \E t \in Posters : pc[t] = "wake"

(* Posts and takes of the code are posts and takes of the promised         *)
(* semaphore, and a unit is never taken from nothing.                      *)
Abstract == INSTANCE CountingSemaphore WITH value <- futex
ImplementsSemaphore == Abstract!Spec

(* "if sem is 0 ... wait": a taker does not go on waiting beside a value   *)
(* that stays above zero (threads.c:92-105).                               *)
WaitsOnlyAtZero ==
    \A t \in Takers : []<>(pc[t] # "sleep" \/ futex <= 0)

=============================================================================
