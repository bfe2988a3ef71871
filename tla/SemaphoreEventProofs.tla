------------------------ MODULE SemaphoreEventProofs ------------------------
(***************************************************************************)
(* With at most one thread that takes, and any number that post, the       *)
(* semaphore of threads.c is a counting semaphore and loses no wake-up.    *)
(* The run SemaphoreLostWakeup shows that a second taker breaks it, so the *)
(* hypothesis cannot be dropped.  No thread sleeps through a raise of the  *)
(* event, for any number of raisers and waiters.  The two words keep this  *)
(* when one program uses both.                                             *)
(***************************************************************************)
EXTENDS MCSemaphoreEvent, TLAPS

OneTaker == \A t, u \in Takers : t = u

(* Who can be where: only posters wake, only takers wait and take.         *)
Roles == \A t \in Threads :
            /\ pc[t] = "wake" => t \in Posters
            /\ pc[t] \in {"test", "wait", "sleep", "take"} => t \in Takers

(* What the test found is still true at the subtraction.                   *)
TakeIsBacked == \A t \in Threads : pc[t] = "take" => futex > 0

IInv == TypeOK /\ Roles /\ NeverNegative /\ TakeIsBacked /\ NoLostWakeup

(* The initial value is not negative and nobody is inside a call.          *)
LEMMA InitIInv == Init => IInv
BY SemaphoreAssumption
   DEF Init, IInv, TypeOK, Roles, NeverNegative, TakeIsBacked, NoLostWakeup,
       Sleepers, Threads

(* One step per instruction.  The hypothesis OneTaker is used where a take *)
(* must not invalidate the test of another taker, and where the one thread *)
(* that a post wakes must be the only one that sleeps.                     *)
LEMMA StepIInv == ASSUME OneTaker, IInv, [Next]_vars PROVE IInv'
<1> USE SemaphoreAssumption
    DEF OneTaker, IInv, TypeOK, Roles, NeverNegative, TakeIsBacked,
        NoLostWakeup, Sleepers, Threads, Goto
<1>1. ASSUME NEW t \in Posters, Post(t) PROVE IInv'
  <2>1. (TypeOK /\ Roles /\ NeverNegative /\ TakeIsBacked)'
    BY <1>1 DEF Post
  <2>2. NoLostWakeup'
    BY <1>1 DEF Post
  <2>3. QED
    BY <2>1, <2>2
<1>2. ASSUME NEW t \in Takers, CallWait(t) \/ TryWait(t) \/ Interrupt(t)
      PROVE  IInv'
  <2>1. (TypeOK /\ Roles /\ NeverNegative /\ TakeIsBacked)'
    BY <1>2 DEF CallWait, TryWait, Interrupt, MayCall
  <2>2. NoLostWakeup'
    BY <1>2 DEF CallWait, TryWait, Interrupt, MayCall
  <2>3. QED
    BY <2>1, <2>2
<1>3. ASSUME NEW t \in Threads, Wake(t) PROVE IInv'
  <2>1. (TypeOK /\ Roles /\ NeverNegative /\ TakeIsBacked)'
    BY <1>3 DEF Wake
  <2>2. Sleepers' = {}
    BY <1>3 DEF Wake
  <2>3. QED
    BY <2>1, <2>2
<1>4. ASSUME NEW t \in Threads, Test(t) PROVE IInv'
  BY <1>4 DEF Test
<1>5. ASSUME NEW t \in Threads, FutexWait(t) PROVE IInv'
  BY <1>5 DEF FutexWait
<1>6. ASSUME NEW t \in Threads, Take(t) PROVE IInv'
  BY <1>6 DEF Take
<1>7. CASE UNCHANGED vars
  BY <1>7 DEF vars
<1>8. QED
  BY <1>1, <1>2, <1>3, <1>4, <1>5, <1>6, <1>7 DEF Next, Continue

(* With one taker, the value never drops below zero and no wake-up is lost. *)
THEOREM OneTakerSafe ==
    ASSUME OneTaker PROVE Spec => [](NeverNegative /\ NoLostWakeup)
<1>1. IInv /\ [Next]_vars => IInv'
  BY StepIInv
<1>2. IInv => NeverNegative /\ NoLostWakeup
  BY DEF IInv
<1>3. QED
  BY InitIInv, <1>1, <1>2, PTL DEF Spec

(* With one taker, the code implements the counting semaphore.             *)
THEOREM OneTakerRefines ==
    ASSUME OneTaker PROVE Spec => ImplementsSemaphore
<1>1. IInv /\ [Next]_vars => IInv'
  BY StepIInv
<1>2. Init => Abstract!Init
  BY DEF Init, Abstract!Init
<1>3. IInv /\ [Next]_vars => [Abstract!Post \/ Abstract!Take]_futex
  BY DEF IInv, TakeIsBacked, TypeOK, Next, Continue, Post, CallWait, TryWait,
         Interrupt, Wake, Test, FutexWait, Take, Threads, vars,
         Abstract!Post, Abstract!Take
<1>4. QED
  BY InitIInv, <1>1, <1>2, <1>3, PTL DEF Spec, ImplementsSemaphore, Abstract!Spec

-----------------------------------------------------------------------------
(* Only a thread that raised is about to wake.                             *)
RaiserWakes == \A t \in Ev!Threads : evPc[t] = "wake" => t \in Raisers

EvInv == Ev!TypeOK /\ RaiserWakes /\ Ev!NoLostRaise

(* One step per instruction: a waiter queues only beside 0, and a raise    *)
(* from 0 leaves its raiser about to wake until it has emptied the queue.  *)
LEMMA StepEvInv == EvInv /\ [Ev!Next]_event => EvInv'
<1> SUFFICES ASSUME EvInv, [Ev!Next]_event
             PROVE  EvInv'
  OBVIOUS
<1> USE DEF EvInv, Ev!TypeOK, RaiserWakes, Ev!NoLostRaise, Ev!Sleepers, Ev!Threads, Ev!Goto
<1>1. ASSUME NEW t \in Raisers, Ev!Raise(t) PROVE EvInv'
  BY <1>1 DEF Ev!Raise
<1>2. ASSUME NEW t \in Waiters, Ev!CallWait(t) \/ Ev!Interrupt(t) PROVE EvInv'
  BY <1>2 DEF Ev!CallWait, Ev!Interrupt
<1>3. ASSUME NEW t \in Ev!Threads, Ev!WakeAll(t) PROVE EvInv'
  BY <1>3 DEF Ev!WakeAll
<1>4. ASSUME NEW t \in Ev!Threads, Ev!Test(t) PROVE EvInv'
  BY <1>4 DEF Ev!Test
<1>5. ASSUME NEW t \in Ev!Threads, Ev!FutexWait(t) PROVE EvInv'
  BY <1>5 DEF Ev!FutexWait
<1>6. ASSUME NEW t \in Ev!Threads, Ev!Reset(t) PROVE EvInv'
  BY <1>6 DEF Ev!Reset
<1>7. CASE UNCHANGED event
  BY <1>7 DEF event
<1>8. QED
  BY <1>1, <1>2, <1>3, <1>4, <1>5, <1>6, <1>7 DEF Ev!Next, Ev!Continue

(* A raised word and a waiter that is not inside a call: nobody sleeps.    *)
LEMMA InitEvInv == Ev!Init => EvInv
BY DEF Ev!Init, EvInv, Ev!TypeOK, RaiserWakes, Ev!NoLostRaise, Ev!Sleepers,
       Ev!Threads

(* Beside a raised event a thread sleeps only until the raiser's wake      *)
(* (event_raise and event_wait).                                           *)
THEOREM RaiseNeverLost == Ev!Spec => []Ev!NoLostRaise
<1>1. EvInv => Ev!NoLostRaise
  BY DEF EvInv
<1>2. [Ev!Next]_Ev!vars => [Ev!Next]_event
  BY DEF Ev!vars, event
<1>3. QED
  BY InitEvInv, StepEvInv, <1>1, <1>2, PTL DEF Ev!Spec

-----------------------------------------------------------------------------
(* A step of the program is a step of one of the two words and leaves the  *)
(* other alone.                                                            *)
LEMMA OneWordAtATime ==
    [BothNext]_both => [Next]_vars /\ [Ev!Next]_event
BY DEF BothNext, both

(* A program that uses both words loses neither a post nor a raise, and    *)
(* its semaphore is a counting semaphore (all of threads.c:66-151).        *)
THEOREM BothSafe ==
    ASSUME OneTaker
    PROVE  BothSpec => [](NoLostWakeup /\ Ev!NoLostRaise)
<1>1. IInv /\ [Next]_vars => IInv'
  BY StepIInv
<1>2. IInv /\ EvInv => NoLostWakeup /\ Ev!NoLostRaise
  BY DEF IInv, EvInv
<1>3. BothSpec => BothInit /\ [][BothNext]_both
  BY PTL DEF BothSpec
<1>4. BothInit => Init /\ Ev!Init
  BY DEF BothInit
<1>5. QED
  BY InitIInv, <1>1, InitEvInv, StepEvInv, OneWordAtATime, <1>2, <1>3, <1>4, PTL

(* The counting semaphore is implemented also beside the event.            *)
THEOREM BothRefines ==
    ASSUME OneTaker PROVE BothSpec => ImplementsSemaphore
<1>1. BothSpec => Spec
  <2>1. BothSpec => BothInit /\ [][BothNext]_both
    BY PTL DEF BothSpec
  <2>2. BothInit => Init
    BY DEF BothInit
  <2>3. QED
    BY <2>1, <2>2, OneWordAtATime, PTL DEF Spec
<1>2. QED
  BY <1>1, OneTakerRefines, PTL
=============================================================================
