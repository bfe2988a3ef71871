------------------------------ MODULE QMessages ------------------------------
(***************************************************************************)
(* The message queue of ef/concurrency/threads.c: a linked list guarded by *)
(* a mutex, and an eventfd whose counter tells a polling consumer that     *)
(* there may be something to get.  Many threads send; the consumers run    *)
(* the loop of t_print_messages_consumer (test/src/thr.c:151-172), which   *)
(* is how the queue is meant to be used: poll the eventfd, then get until  *)
(* get returns NULL.                                                       *)
(*                                                                         *)
(* The mutex is the abstract one (Mutex.tla, which FutexMutex implements). *)
(* The list is modelled with its pointers: q->current, q->tail and the     *)
(* next field of every message.  `linked` and `got` are history: the       *)
(* messages in the order they were linked, and in the order they were      *)
(* unlinked; the code does not read them.                                  *)
(***************************************************************************)
EXTENDS Naturals, Sequences, FiniteSets

CONSTANTS Senders,      \* the threads that call qmessages_send
          Consumers,    \* the threads that poll and call qmessages_get
          Messages,     \* the messages, each of them sent at most once
          NonBlock,     \* the argument of qmessages_new
          NULL

ASSUME NullAssumption == NULL \notin Messages
ASSUME RolesAssumption == Senders \cap Consumers = {}
ASSUME NonBlockAssumption == NonBlock \in BOOLEAN

VARIABLES owner,        \* the owners of q->mtx
          current,      \* q->current, a message or NULL
          tail,         \* the message whose next field q->tail points to
          next,         \* the next field of every message
          counter,      \* the counter of the eventfd
          pc,           \* what each thread does next
          msg,          \* the local `msg` of send and `ret` of get
          fresh,        \* messages nobody sent yet
          linked,       \* history: messages in the order they were linked
          got           \* history: messages in the order they were unlinked

vars == <<owner, current, tail, next, counter, pc, msg, fresh, linked, got>>
list == <<current, tail, next>>
history == <<fresh, linked, got>>

Threads == Senders \union Consumers

Lock == INSTANCE Mutex

Goto(t, label) == pc' = [pc EXCEPT ![t] = label]

-----------------------------------------------------------------------------
(* qmessages_new: an empty list, an eventfd at 0, a free mutex.            *)
Init ==
    /\ Lock!Init
    /\ current = NULL /\ tail = NULL
    /\ next = [m \in Messages |-> NULL]
    /\ counter = 0
    /\ pc = [t \in Threads |-> IF t \in Senders THEN "idle" ELSE "poll"]
    /\ msg = [t \in Threads |-> NULL]
    /\ fresh = Messages
    /\ linked = <<>> /\ got = <<>>

(* message_new and the call of qmessages_send.                             *)
Send(t) ==
    /\ pc[t] = "idle"
    /\ \E m \in fresh : msg' = [msg EXCEPT ![t] = m] /\ fresh' = fresh \ {m}
    /\ Goto(t, "sendLock")
    /\ UNCHANGED <<owner, list, counter, linked, got>>

SendLock(t) ==
    /\ pc[t] = "sendLock" /\ Lock!Acquire(t) /\ Goto(t, "link")
    /\ UNCHANGED <<list, counter, msg, history>>

(* A slip of Link: q->tail stays where it was.                             *)
LinkKeepsTail(t) ==
    /\ pc[t] = "link"
    /\ IF current # NULL
       THEN next' = [next EXCEPT ![tail] = msg[t]] /\ UNCHANGED <<current, tail>>
       ELSE current' = msg[t] /\ tail' = msg[t] /\ UNCHANGED next
    /\ linked' = Append(linked, msg[t])
    /\ Goto(t, "sendUnlock")
    /\ UNCHANGED <<owner, counter, msg, fresh, got>>

(* In the critical section: store through q->tail, or into q->current.     *)
Link(t) ==
    /\ pc[t] = "link"
    /\ IF current # NULL
       THEN next' = [next EXCEPT ![tail] = msg[t]] /\ UNCHANGED current
       ELSE current' = msg[t] /\ UNCHANGED next
    /\ tail' = msg[t]
    /\ linked' = Append(linked, msg[t])
    /\ Goto(t, "sendUnlock")
    /\ UNCHANGED <<owner, counter, msg, fresh, got>>

(* From here on the sender does not touch the message any more.            *)
SendUnlock(t) ==
    /\ pc[t] = "sendUnlock" /\ Lock!Release(t) /\ Goto(t, "signal")
    /\ msg' = [msg EXCEPT ![t] = NULL]
    /\ UNCHANGED <<list, counter, history>>

(* event_fd_write(q->evfd, 1).                                             *)
Signal(t) ==
    /\ pc[t] = "signal"
    /\ counter' = counter + 1
    /\ Goto(t, "idle")
    /\ UNCHANGED <<owner, list, msg, history>>

(* fd_timeout(q->evfd, -1): returns when the counter is not 0.             *)
Poll(t) ==
    /\ pc[t] = "poll" /\ counter > 0 /\ Goto(t, "getLock")
    /\ UNCHANGED <<owner, list, counter, msg, history>>

GetLock(t) ==
    /\ pc[t] = "getLock" /\ Lock!Acquire(t) /\ Goto(t, "take")
    /\ UNCHANGED <<list, counter, msg, history>>

(* A slip of Take: the message stays in the list.                          *)
TakeLeavesIt(t) ==
    /\ pc[t] = "take"
    /\ msg' = [msg EXCEPT ![t] = current]
    /\ got' = IF current # NULL THEN Append(got, current) ELSE got
    /\ Goto(t, "getUnlock")
    /\ UNCHANGED <<owner, list, counter, fresh, linked>>

(* In the critical section: unlink the first message, if there is one.     *)
Take(t) ==
    /\ pc[t] = "take"
    /\ msg' = [msg EXCEPT ![t] = current]
    /\ IF current # NULL
       THEN current' = next[current] /\ got' = Append(got, current)
       ELSE UNCHANGED <<current, got>>
    /\ Goto(t, "getUnlock")
    /\ UNCHANGED <<owner, tail, next, counter, fresh, linked>>

(* A slip of GetUnlock: the eventfd is read after every message.           *)
GetUnlockDrains(t) ==
    /\ pc[t] = "getUnlock" /\ Lock!Release(t)
    /\ Goto(t, "drain")
    /\ UNCHANGED <<list, counter, msg, history>>

GetUnlock(t) ==
    /\ pc[t] = "getUnlock" /\ Lock!Release(t)
    /\ Goto(t, IF msg[t] # NULL THEN "return" ELSE "drain")
    /\ UNCHANGED <<list, counter, msg, history>>

(* ret->next = NULL, outside the mutex; the consumer calls get again.      *)
Return(t) ==
    /\ pc[t] = "return"
    /\ next' = [next EXCEPT ![msg[t]] = NULL]
    /\ msg' = [msg EXCEPT ![t] = NULL]
    /\ Goto(t, "getLock")
    /\ UNCHANGED <<owner, current, tail, counter, history>>

(* A slip of Drain: a semaphore-like eventfd, read below zero.             *)
DrainTakesOne(t) ==
    /\ pc[t] = "drain" /\ counter' = counter - 1 /\ Goto(t, "poll")
    /\ UNCHANGED <<owner, list, msg, history>>

(* event_fd_read: reset the counter to 0; at 0, a non-blocking eventfd     *)
(* gives EAGAIN and a blocking one waits.  get returns NULL.               *)
Drain(t) ==
    /\ pc[t] = "drain" /\ (NonBlock \/ counter > 0) /\ counter' = 0 /\ Goto(t, "poll")
    /\ UNCHANGED <<owner, list, msg, history>>

Continue(t) ==
    \/ SendLock(t) \/ Link(t) \/ SendUnlock(t) \/ Signal(t)
    \/ Poll(t) \/ GetLock(t) \/ Take(t) \/ GetUnlock(t) \/ Return(t) \/ Drain(t)

Next == \E t \in Threads : Send(t) \/ Continue(t)

Spec == Init /\ [][Next]_vars

(* Every thread is scheduled; strong fairness on the two lock steps is     *)
(* what FutexMutex gives when the senders are finitely many.               *)
FairSpec ==
    /\ Spec
    /\ \A t \in Threads : WF_vars(Continue(t)) /\ SF_vars(SendLock(t) \/ GetLock(t))

-----------------------------------------------------------------------------
Critical == {"link", "sendUnlock", "take", "getUnlock"}

(* Type correctness.                                                       *)
TypeOK ==
    /\ owner \subseteq Threads
    /\ current \in Messages \union {NULL} /\ tail \in Messages \union {NULL}
    /\ next \in [Messages -> Messages \union {NULL}]
    /\ counter \in Nat
    /\ pc \in [Threads -> Critical \union {"idle", "sendLock", "signal", "poll",
                                           "getLock", "return", "drain"}]
    /\ msg \in [Threads -> Messages \union {NULL}]
    /\ fresh \subseteq Messages
    /\ linked \in Seq(Messages) /\ got \in Seq(Messages)

(* The pointers spell out the pending messages: current is the oldest,     *)
(* every next field leads to the following one, the youngest ends the list *)
(* and q->tail points into it (threads.c:211-243).                         *)
ListIsPending ==
    /\ Len(got) <= Len(linked)
    /\ current = IF Len(got) = Len(linked) THEN NULL ELSE linked[Len(got) + 1]
    /\ \A i \in (Len(got) + 1)..Len(linked) :
          next[linked[i]] = IF i = Len(linked) THEN NULL ELSE linked[i + 1]
    /\ Len(got) < Len(linked) => tail = linked[Len(linked)]

(* A message is in one place: not yet sent, with its sender, in the list,  *)
(* or with the one consumer that got it, whose store to the next field     *)
(* outside the mutex (threads.c:222) therefore never cuts the list.        *)
OnePlace ==
    /\ \A i, j \in 1..Len(linked) : linked[i] = linked[j] => i = j
    /\ \A t, u \in Threads : msg[t] = msg[u] /\ msg[t] # NULL => t = u
    /\ \A t \in Threads, i \in (Len(got) + 1)..Len(linked) :
          pc[t] # "sendUnlock" => msg[t] # linked[i]

(* Sends and gets of the code are puts and gets of one FIFO queue: what    *)
(* the pointers hand out is what was linked, in order (threads.c:211-243). *)
Fifo == INSTANCE FifoQueue WITH put <- linked
ImplementsFifo == Fifo!Spec

(* A consumer that starts to get does not stop before it got everything    *)
(* that was in the queue then (threads.c:211-229).                         *)
GetsWhatIsThere ==
    \A n \in 1..Cardinality(Messages) :
        (Len(linked) >= n /\ \E t \in Consumers : pc[t] = "getLock") ~> Len(got) >= n

(* The consumer of test/src/thr.c:155-160 waits on the eventfd until it    *)
(* has got the last message: whatever is sent is got.                      *)
EverythingIsReceived == \A n \in 1..Cardinality(Messages) :
                            Len(linked) >= n ~> Len(got) >= n
=============================================================================
