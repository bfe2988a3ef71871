------------------------------ MODULE FutexMutex ------------------------------
(***************************************************************************)
(* The mutex of ef/concurrency/threads.c: a three-valued word (0 free,     *)
(* 1 owned, 2 owned and perhaps waited for) manipulated with atomic        *)
(* read-modify-write instructions, and the kernel's FUTEX_WAIT/FUTEX_WAKE. *)
(*                                                                         *)
(* Every action is one atomic instruction or one system call of one        *)
(* thread, so that all interleavings of lock, trylock and unlock are here. *)
(* pc[t] names the next instruction of thread t:                           *)
(*   "out"   not inside mutex_lock/mutex_unlock and not an owner           *)
(*   "mark"  about to CAS(1,2)           (threads.c:57, m was 1)           *)
(*   "wait"  about to call FUTEX_WAIT(2) (threads.c:58)                    *)
(*   "sleep" queued in the kernel on the futex                             *)
(*   "retry" about to CAS(0,2)           (threads.c:60)                    *)
(*   "in"    owner, in its critical section                                *)
(*   "clear" in unlock, the fetch_and_sub did not return 1                 *)
(*   "wake"  in unlock, about to call FUTEX_WAKE(1)                        *)
(* A client calls mutex_unlock only when it owns the mutex.                *)
(***************************************************************************)
EXTENDS Naturals, TLAPS

CONSTANT Threads        \* the threads that share the mutex, any set

VARIABLES futex,        \* mtx->futex
          pc            \* the next instruction of each thread

vars == <<futex, pc>>

Sleepers == {t \in Threads : pc[t] = "sleep"}

(* A thread owns the mutex until the store that lets another CAS succeed.  *)
Owners == {t \in Threads : pc[t] \in {"in", "clear"}}

(* Threads that failed to acquire and run on their way to (re)try.         *)
Contending == {t \in Threads : pc[t] \in {"mark", "wait", "retry"}}

Goto(t, label) == pc' = [pc EXCEPT ![t] = label]

-----------------------------------------------------------------------------
Init == futex = 0 /\ pc = [t \in Threads |-> "out"]

(* After a failed CAS: `m == 2` short-circuits the second CAS.             *)
AfterFailure == IF futex = 2 THEN "wait" ELSE "mark"

(* mutex_lock, first CAS(0,1).                                             *)
Lock(t) ==
    /\ pc[t] = "out"
    /\ \/ futex = 0 /\ futex' = 1 /\ Goto(t, "in")
       \/ futex # 0 /\ Goto(t, AfterFailure) /\ UNCHANGED futex

(* CAS(1,2): only when it finds 0 is the system call skipped.              *)
Mark(t) ==
    /\ pc[t] = "mark"
    /\ futex' = IF futex = 1 THEN 2 ELSE futex
    /\ Goto(t, IF futex = 0 THEN "retry" ELSE "wait")

(* FUTEX_WAIT: the kernel compares and queues atomically, else EAGAIN.     *)
FutexWait(t) ==
    /\ pc[t] = "wait"
    /\ Goto(t, IF futex = 2 THEN "sleep" ELSE "retry")
    /\ UNCHANGED futex

(* A signal handler ran: the system call returns EINTR, nobody woke t.     *)
Interrupt(t) ==
    /\ pc[t] = "sleep"
    /\ Goto(t, "retry")
    /\ UNCHANGED futex

(* A slip of Retry: taking the word from 0 to 1 forgets the other sleepers. *)
RetryForgetsOthers(t) ==
    /\ pc[t] = "retry"
    /\ \/ futex = 0 /\ futex' = 1 /\ Goto(t, "in")
       \/ futex # 0 /\ Goto(t, AfterFailure) /\ UNCHANGED futex

(* The loop condition, CAS(0,2).                                           *)
Retry(t) ==
    /\ pc[t] = "retry"
    /\ \/ futex = 0 /\ futex' = 2 /\ Goto(t, "in")
       \/ futex # 0 /\ Goto(t, AfterFailure) /\ UNCHANGED futex

(* A slip of TryLock: it swaps the word instead of comparing it.           *)
TryLockSwaps(t) == pc[t] = "out" /\ futex' = 1 /\ Goto(t, "in")

(* mutex_trylock: one CAS(0,1), -1 when it fails.                          *)
TryLock(t) ==
    /\ pc[t] = "out"
    /\ futex = 0
    /\ futex' = 1
    /\ Goto(t, "in")

TryLockFails(t) == pc[t] = "out" /\ futex # 0 /\ UNCHANGED vars

(* mutex_unlock: fetch_and_sub(1); an old value of 1 means nobody waits.   *)
Unlock(t) ==
    /\ pc[t] = "in"
    /\ futex' = futex - 1
    /\ Goto(t, IF futex = 1 THEN "out" ELSE "clear")

(* The plain store `mtx->futex = 0`.                                       *)
Clear(t) == pc[t] = "clear" /\ futex' = 0 /\ Goto(t, "wake")

(* FUTEX_WAKE(1): the kernel wakes any one sleeper, if there is one.       *)
FutexWake(t) ==
    /\ pc[t] = "wake"
    /\ \/ Sleepers = {} /\ Goto(t, "out")
       \/ \E u \in Sleepers : pc' = [pc EXCEPT ![t] = "out", ![u] = "retry"]
    /\ UNCHANGED futex

(* What a thread does once it entered mutex_lock or owns the mutex.        *)
Continue(t) ==
    \/ Mark(t) \/ FutexWait(t) \/ Retry(t)
    \/ Unlock(t) \/ Clear(t) \/ FutexWake(t)

Call(t) == Lock(t) \/ TryLock(t) \/ TryLockFails(t)

Next == \E t \in Threads : Call(t) \/ Continue(t) \/ Interrupt(t)

(* A thread inside lock/unlock keeps running, and an owner unlocks in the  *)
(* end. Nothing forces a thread to call lock, or a signal to arrive.       *)
Fairness == \A t \in Threads : WF_vars(Continue(t))

Spec == Init /\ [][Next]_vars

FairSpec == Spec /\ Fairness

-----------------------------------------------------------------------------
Labels == {"out", "mark", "wait", "sleep", "retry", "in", "clear", "wake"}

(* Type correctness: the word never leaves {0,1,2}, whatever unlock        *)
(* subtracts (threads.c:46).                                               *)
TypeOK == futex \in 0..2 /\ pc \in [Threads -> Labels]

(* Two threads never own the mutex together, trylock and the unlock that   *)
(* is between its two stores included (threads.c:44-69).                   *)
MutualExclusion == \A t, u \in Owners : t = u

(* While a thread sleeps, somebody is bound to wake it: the word is 2, so  *)
(* the owner will take the slow path of unlock, or an unlock or a          *)
(* contender that will set it to 2 is under way (threads.c:44-62).         *)
NoLostWakeup ==
    Sleepers # {} =>
        \/ futex = 2
        \/ \E t \in Threads : pc[t] \in {"mark", "wait", "retry", "clear", "wake"}

(* The mutex implements the abstract one: every step of the code acquires, *)
(* releases or leaves the set of owners alone.                             *)
Abstract == INSTANCE Mutex WITH owner <- Owners
ImplementsMutex == Abstract!Spec

(* Once no thread calls mutex_lock or mutex_trylock any more, every thread *)
(* that is inside mutex_lock gets the mutex: no hand-over is lost.         *)
EveryWaiterServed ==
    <>[][~ \E t \in Threads : Call(t)]_vars =>
        \A t \in Threads : (t \in Sleepers \union Contending) ~> pc[t] = "in"

-----------------------------------------------------------------------------
(* The proofs, for any set of threads.                                     *)

(* An owner always leaves a mark in the word: this is what makes the CAS   *)
(* of every other thread fail, also between the two stores of unlock.      *)
OwnedIsMarked == \A t \in Owners : futex # 0

(* Between the two stores of unlock the word is not 0, and an owner that   *)
(* has not started to unlock sees 1 or 2.                                  *)
IInv == TypeOK /\ MutualExclusion /\ OwnedIsMarked

(* Initially nobody owns the mutex and its word is 0.                      *)
LEMMA InitIInv == Init => IInv
BY DEF Init, IInv, TypeOK, Labels, MutualExclusion, OwnedIsMarked, Owners

(* One step per instruction of mutex_lock, mutex_trylock, mutex_unlock.    *)
LEMMA StepIInv == IInv /\ [Next]_vars => IInv'
<1> SUFFICES ASSUME IInv, [Next]_vars
             PROVE  IInv'
  OBVIOUS
<1> USE DEF IInv, TypeOK, Labels, MutualExclusion, OwnedIsMarked, Owners,
            Goto, AfterFailure
<1>1. ASSUME NEW t \in Threads, Lock(t) PROVE IInv'
  BY <1>1 DEF Lock
<1>2. ASSUME NEW t \in Threads, TryLock(t) PROVE IInv'
  BY <1>2 DEF TryLock
<1>3. ASSUME NEW t \in Threads, TryLockFails(t) PROVE IInv'
  BY <1>3 DEF TryLockFails, vars
<1>4. ASSUME NEW t \in Threads, Mark(t) PROVE IInv'
  BY <1>4 DEF Mark
<1>5. ASSUME NEW t \in Threads, FutexWait(t) PROVE IInv'
  BY <1>5 DEF FutexWait
<1>6. ASSUME NEW t \in Threads, Retry(t) PROVE IInv'
  BY <1>6 DEF Retry
<1>7. ASSUME NEW t \in Threads, Unlock(t) PROVE IInv'
  BY <1>7 DEF Unlock
<1>8. ASSUME NEW t \in Threads, Clear(t) PROVE IInv'
  BY <1>8 DEF Clear
<1>9. ASSUME NEW t \in Threads, FutexWake(t) PROVE IInv'
  BY <1>9 DEF FutexWake, Sleepers
<1>10. ASSUME NEW t \in Threads, Interrupt(t) PROVE IInv'
  BY <1>10 DEF Interrupt
<1>11. CASE UNCHANGED vars
  BY <1>11 DEF vars
<1>12. QED
  BY <1>1, <1>2, <1>3, <1>4, <1>5, <1>6, <1>7, <1>8, <1>9, <1>10, <1>11
     DEF Next, Call, Continue

LEMMA Invariance == Spec => []IInv
<1>1. QED
  BY InitIInv, StepIInv, PTL DEF Spec

(* The word stays in {0,1,2} and every thread at a known instruction.      *)
THEOREM TypeCorrect == Spec => []TypeOK
<1>1. IInv => TypeOK
  BY DEF IInv
<1>2. QED
  BY <1>1, Invariance, PTL

(* No two of any number of threads own the mutex together.                 *)
THEOREM Exclusion == Spec => []MutualExclusion
<1>1. IInv => MutualExclusion
  BY DEF IInv
<1>2. QED
  BY <1>1, Invariance, PTL

(* Each instruction keeps the promise that somebody will wake the sleepers. *)
LEMMA StepWakeup == IInv /\ NoLostWakeup /\ [Next]_vars => NoLostWakeup'
<1> SUFFICES ASSUME IInv, NoLostWakeup, [Next]_vars
             PROVE  NoLostWakeup'
  OBVIOUS
<1> USE DEF IInv, TypeOK, Labels, NoLostWakeup, Sleepers, Goto, AfterFailure
<1>1. ASSUME NEW t \in Threads, Lock(t) PROVE NoLostWakeup'
  BY <1>1 DEF Lock
<1>2. ASSUME NEW t \in Threads, TryLock(t) PROVE NoLostWakeup'
  BY <1>2 DEF TryLock
<1>3. ASSUME NEW t \in Threads, TryLockFails(t) PROVE NoLostWakeup'
  BY <1>3 DEF TryLockFails, vars
<1>4. ASSUME NEW t \in Threads, Mark(t) PROVE NoLostWakeup'
  BY <1>4 DEF Mark
<1>5. ASSUME NEW t \in Threads, FutexWait(t) PROVE NoLostWakeup'
  BY <1>5 DEF FutexWait
<1>6. ASSUME NEW t \in Threads, Retry(t) PROVE NoLostWakeup'
  BY <1>6 DEF Retry
<1>7. ASSUME NEW t \in Threads, Unlock(t) PROVE NoLostWakeup'
  BY <1>7 DEF Unlock
<1>8. ASSUME NEW t \in Threads, Clear(t) PROVE NoLostWakeup'
  BY <1>8 DEF Clear
<1>9. ASSUME NEW t \in Threads, FutexWake(t) PROVE NoLostWakeup'
  BY <1>9 DEF FutexWake
<1>10. ASSUME NEW t \in Threads, Interrupt(t) PROVE NoLostWakeup'
  BY <1>10 DEF Interrupt
<1>11. CASE UNCHANGED vars
  BY <1>11 DEF vars
<1>12. QED
  BY <1>1, <1>2, <1>3, <1>4, <1>5, <1>6, <1>7, <1>8, <1>9, <1>10, <1>11
     DEF Next, Call, Continue

(* A sleeper is never forgotten, for any number of threads.                *)
THEOREM WakeupNeverLost == Spec => []NoLostWakeup
<1>1. Init => NoLostWakeup
  BY DEF Init, NoLostWakeup, Sleepers
<1>2. QED
  BY <1>1, Invariance, StepWakeup, PTL DEF Spec

(* A step that neither acquires nor gives back keeps the set of owners.    *)
LEMMA StepMaps == IInv /\ [Next]_vars => [Abstract!Next]_Owners
<1> SUFFICES ASSUME IInv, [Next]_vars
             PROVE  Abstract!Next \/ Owners' = Owners
  OBVIOUS
<1> USE DEF IInv, TypeOK, Labels, MutualExclusion, OwnedIsMarked, Goto,
            AfterFailure
<1>1. ASSUME NEW t \in Threads, futex = 0, Goto(t, "in")
      PROVE  Abstract!Acquire(t)
  <2>1. Owners = {}
    BY <1>1
  <2>2. Owners' = {t}
    BY <1>1, <2>1 DEF Owners
  <2>3. QED
    BY <2>1, <2>2 DEF Abstract!Acquire
<1>2. ASSUME NEW t \in Threads, t \in Owners, Goto(t, "out") \/ Goto(t, "wake")
      PROVE  Abstract!Release(t)
  <2>1. Owners = {t}
    BY <1>2 DEF Owners
  <2>2. Owners' = {}
    BY <1>2, <2>1 DEF Owners
  <2>3. QED
    BY <2>1, <2>2 DEF Abstract!Release
<1>3. ASSUME NEW t \in Threads, Lock(t) \/ TryLock(t) \/ Retry(t)
      PROVE  Abstract!Next \/ Owners' = Owners
  <2>1. CASE futex = 0
    BY <1>1, <1>3, <2>1 DEF Lock, TryLock, Retry, Abstract!Next
  <2>2. CASE futex # 0
    BY <1>3, <2>2 DEF Lock, TryLock, Retry, Owners
  <2>3. QED
    BY <2>1, <2>2
<1>4. ASSUME NEW t \in Threads, Unlock(t) \/ Clear(t)
      PROVE  Abstract!Next \/ Owners' = Owners
  <2>1. CASE Unlock(t) /\ futex # 1
    BY <2>1 DEF Unlock, Owners
  <2>2. CASE Unlock(t) /\ futex = 1
    BY <1>2, <2>2 DEF Unlock, Owners, Abstract!Next
  <2>3. CASE Clear(t)
    BY <1>2, <2>3 DEF Clear, Owners, Abstract!Next
  <2>4. QED
    BY <1>4, <2>1, <2>2, <2>3
<1>5. ASSUME NEW t \in Threads,
             TryLockFails(t) \/ Mark(t) \/ FutexWait(t) \/ FutexWake(t) \/ Interrupt(t)
      PROVE  Owners' = Owners
  BY <1>5 DEF TryLockFails, Mark, FutexWait, FutexWake, Interrupt, Owners,
              Sleepers, vars
<1>6. CASE UNCHANGED vars
  BY <1>6 DEF vars, Owners
<1>7. QED
  BY <1>3, <1>4, <1>5, <1>6 DEF Next, Call, Continue

(* The code of threads.c:44-69 implements the abstract mutex.              *)
THEOREM Refinement == Spec => ImplementsMutex
<1>1. Init => Abstract!Init
  BY DEF Init, Owners, Abstract!Init
<1>2. QED
  BY <1>1, Invariance, StepMaps, PTL DEF Spec, ImplementsMutex, Abstract!Spec
=============================================================================
