--------------------------- MODULE QMessagesProofs ---------------------------
(***************************************************************************)
(* For any threads and messages: the linked list of the message queue is   *)
(* always the sequence of pending messages, and no message is in two       *)
(* places.                                                                 *)
(***************************************************************************)
EXTENDS QMessages, TLAPS

(* The mutex of the queue is held exactly inside the critical sections.    *)
CriticalOwns == \A t \in Threads : pc[t] \in Critical => owner = {t}

(* Where a thread has a message in its local variable.                     *)
LocalMessage ==
    \A t \in Threads :
        /\ pc[t] \in {"idle", "signal", "poll", "getLock", "take", "drain"} => msg[t] = NULL
        /\ pc[t] \in {"sendLock", "link", "return"} => msg[t] # NULL

(* Messages that were never linked end no list yet: their next is NULL.    *)
Unlinked(m) == next[m] = NULL /\ \A i \in 1..Len(linked) : linked[i] # m

NotYetLinked ==
    /\ \A m \in fresh : Unlinked(m) /\ \A t \in Threads : msg[t] # m
    /\ \A t \in Threads : pc[t] \in {"sendLock", "link"} => Unlinked(msg[t])

IInv ==
    /\ TypeOK /\ CriticalOwns /\ LocalMessage /\ NotYetLinked
    /\ ListIsPending /\ OnePlace

(* The queue is born empty.                                                *)
LEMMA InitIInv == Init => IInv
BY NullAssumption
   DEF Init, IInv, TypeOK, CriticalOwns, LocalMessage, NotYetLinked, Unlinked,
       ListIsPending, OnePlace, Critical, Lock!Init, Threads

(* The two stores of a send append one message to the list.                *)
LEMMA LinkKeepsIInv == ASSUME IInv, NEW t \in Threads, Link(t) PROVE IInv'
<1> DEFINE m == msg[t]
           len == Len(linked)
<1>1. /\ m \in Messages /\ Unlinked(m) /\ owner = {t} /\ pc[t] = "link"
      /\ len \in Nat /\ Len(got) \in 0..len
      /\ \A i \in 1..len : linked[i] \in Messages
  BY NullAssumption
     DEF IInv, TypeOK, LocalMessage, NotYetLinked, CriticalOwns, Critical, Link,
         ListIsPending
<1>2. /\ linked' \in Seq(Messages) /\ Len(linked') = len + 1
      /\ linked'[len + 1] = m
      /\ \A i \in 1..len : linked'[i] = linked[i]
  BY <1>1 DEF IInv, TypeOK, Link
<1>3. /\ pc' = [pc EXCEPT ![t] = "sendUnlock"] /\ tail' = m
      /\ UNCHANGED <<owner, counter, msg, fresh, got>>
  BY DEF Link, Goto
<1>4. next' \in [Messages -> Messages \union {NULL}]
      /\ current' \in Messages \union {NULL}
  BY <1>1 DEF Link, IInv, TypeOK
<1>5. TypeOK'
  BY <1>1, <1>2, <1>3, <1>4 DEF IInv, TypeOK, Critical
<1>6. CriticalOwns' /\ LocalMessage'
  BY <1>1, <1>3 DEF IInv, CriticalOwns, LocalMessage, Critical, TypeOK
<1>7. \A u \in Threads : pc'[u] # "sendUnlock" => u # t /\ msg[u] # m
  BY <1>1, <1>3, NullAssumption DEF IInv, TypeOK, OnePlace
<1>8. OnePlace'
  <2>1. \A i, j \in 1..Len(linked') : linked'[i] = linked'[j] => i = j
    BY <1>1, <1>2 DEF IInv, OnePlace, Unlinked
  <2>2. ASSUME NEW u \in Threads, NEW i \in (Len(got) + 1)..(len + 1),
               pc'[u] # "sendUnlock"
        PROVE  msg[u] # linked'[i]
    <3>1. u # t /\ msg[u] # m /\ pc[u] # "sendUnlock"
      BY <1>3, <1>7, <2>2 DEF IInv, TypeOK
    <3>2. QED
      BY <1>1, <1>2, <2>2, <3>1 DEF IInv, OnePlace
  <2>3. QED
    BY <1>1, <1>2, <1>3, <2>1, <2>2 DEF IInv, OnePlace
<1>9. \A u \in Threads : pc'[u] \in {"sendLock", "link"} =>
          u # t /\ msg[u] # m /\ msg[u] \in Messages /\ Unlinked(msg[u])
  BY <1>1, <1>3, <1>7 DEF IInv, TypeOK, NotYetLinked, LocalMessage
<1>10. \A x \in Messages : x # m /\ Unlinked(x) => Unlinked(x)'
  <2> SUFFICES ASSUME NEW x \in Messages, x # m, Unlinked(x)
               PROVE  Unlinked(x)'
    OBVIOUS
  <2>1. next'[x] = NULL
    <3>1. CASE current # NULL
      <4>1. tail = linked[len] /\ len > 0
        BY <1>1, <3>1 DEF IInv, ListIsPending
      <4>2. tail # x
        BY <1>1, <4>1 DEF Unlinked
      <4>3. QED
        BY <3>1, <4>2 DEF Link, Unlinked, IInv, TypeOK
    <3>2. CASE current = NULL
      BY <3>2 DEF Link, Unlinked
    <3>3. QED
      BY <3>1, <3>2
  <2>2. QED
    BY <1>1, <1>2, <2>1 DEF Unlinked
<1>11. NotYetLinked'
  BY <1>3, <1>9, <1>10 DEF IInv, NotYetLinked, TypeOK
<1>12. ListIsPending'
  <2>1. CASE current # NULL
    <3>1. Len(got) < len /\ tail = linked[len]
      BY <1>1, <2>1 DEF IInv, ListIsPending
    <3>2. tail \in Messages /\ tail # m /\ current' = current
          /\ next' = [next EXCEPT ![tail] = m]
      BY <1>1, <2>1, <3>1 DEF Unlinked, Link
    <3>3. /\ next'[linked[len]] = m /\ next'[m] = NULL
          /\ \A i \in 1..(len - 1) : next'[linked[i]] = next[linked[i]]
      BY <1>1, <3>1, <3>2 DEF IInv, OnePlace, TypeOK, Unlinked
    <3>4. \A i \in (Len(got) + 1)..(len - 1) : next[linked[i]] = linked[i + 1]
      BY <1>1 DEF IInv, ListIsPending
    <3>5. current' = linked'[Len(got') + 1] /\ Len(got') < Len(linked')
      BY <1>1, <1>2, <1>3, <3>1, <3>2 DEF IInv, ListIsPending
    <3>6. ASSUME NEW i \in (Len(got) + 1)..(len + 1)
          PROVE  next'[linked'[i]] = IF i = len + 1 THEN NULL ELSE linked'[i + 1]
      <4>1. CASE i = len + 1
        BY <1>1, <1>2, <3>3, <4>1
      <4>2. CASE i = len
        BY <1>1, <1>2, <3>3, <4>2
      <4>3. CASE i < len
        BY <1>1, <1>2, <3>3, <3>4, <4>3
      <4>4. QED
        BY <1>1, <4>1, <4>2, <4>3
    <3>7. QED
      BY <1>1, <1>2, <1>3, <3>1, <3>5, <3>6 DEF ListIsPending
  <2>2. CASE current = NULL
    <3>1. Len(got) = len
      BY <1>1, <2>2, NullAssumption DEF IInv, ListIsPending
    <3>2. current' = m /\ next' = next
      BY <2>2 DEF Link
    <3>3. QED
      BY <1>1, <1>2, <1>3, <3>1, <3>2 DEF ListIsPending, Unlinked
  <2>3. QED
    BY <2>1, <2>2
<1>13. QED
  BY <1>5, <1>6, <1>8, <1>11, <1>12 DEF IInv

(* Unlinking hands the oldest message to the one thread in get.            *)
LEMMA TakeKeepsIInv == ASSUME IInv, NEW t \in Threads, Take(t) PROVE IInv'
<1> USE NullAssumption DEF Take, Goto
<1>1. owner = {t} /\ pc[t] = "take"
  BY DEF IInv, CriticalOwns, Critical
<1>2. \A u \in Threads : pc[u] = "sendUnlock" => FALSE
  BY <1>1 DEF IInv, CriticalOwns, Critical
<1>3. /\ \A i \in 1..Len(linked) : linked[i] \in Messages
      /\ Len(linked) \in Nat /\ Len(got) \in 0..Len(linked)
  BY DEF IInv, TypeOK, ListIsPending
<1>4. CASE current # NULL
  <2>1. Len(got) < Len(linked) /\ current = linked[Len(got) + 1]
        /\ current' = next[current] /\ got' = Append(got, current) /\ Len(got') = Len(got) + 1
    BY <1>3, <1>4 DEF IInv, ListIsPending
  <2>2. TypeOK' /\ CriticalOwns' /\ LocalMessage'
    <3>1. current \in Messages /\ current' \in Messages \union {NULL}
      BY <1>4, <2>1 DEF IInv, TypeOK
    <3>2. TypeOK'
      BY <1>1, <1>3, <2>1, <3>1 DEF IInv, TypeOK, Critical
    <3>3. CriticalOwns' /\ LocalMessage'
      BY <1>1 DEF IInv, TypeOK, CriticalOwns, LocalMessage, Critical
    <3>4. QED
      BY <3>2, <3>3
  <2>3. ListIsPending'
    BY <1>3, <2>1 DEF IInv, ListIsPending, TypeOK
  <2>4. OnePlace'
    <3>1. \A u \in Threads : msg[u] # current
      BY <1>2, <1>3, <2>1 DEF IInv, OnePlace
    <3>2. QED
      BY <1>1, <1>2, <1>3, <2>1, <3>1 DEF IInv, OnePlace, TypeOK
  <2>5. NotYetLinked'
    BY <1>1, <1>3, <2>1 DEF IInv, NotYetLinked, Unlinked, TypeOK
  <2>6. QED
    BY <2>2, <2>3, <2>4, <2>5 DEF IInv
<1>5. CASE current = NULL
  <2>1. /\ UNCHANGED <<owner, current, tail, next, counter, fresh, linked, got>>
        /\ msg' = [msg EXCEPT ![t] = NULL]
        /\ pc' = [pc EXCEPT ![t] = "getUnlock"]
    BY <1>5
  <2>2. TypeOK' /\ CriticalOwns' /\ LocalMessage'
    <3>1. TypeOK'
      BY <2>1 DEF IInv, TypeOK, Critical
    <3>2. CriticalOwns' /\ LocalMessage'
      BY <1>1, <2>1 DEF IInv, TypeOK, CriticalOwns, LocalMessage, Critical
    <3>3. QED
      BY <3>1, <3>2
  <2>3. ListIsPending'
    BY <2>1 DEF IInv, ListIsPending
  <2>4. OnePlace'
    BY <1>2, <1>3, <2>1 DEF IInv, OnePlace, TypeOK
  <2>5. NotYetLinked'
    BY <2>1 DEF IInv, NotYetLinked, Unlinked, TypeOK
  <2>6. QED
    BY <2>2, <2>3, <2>4, <2>5 DEF IInv
<1>6. QED
  BY <1>4, <1>5

(* The store to the next field outside the mutex hits no pending message.  *)
LEMMA ReturnKeepsIInv == ASSUME IInv, NEW t \in Threads, Return(t) PROVE IInv'
<1> USE NullAssumption DEF Return, Goto, history
<1>1. /\ msg[t] \in Messages
      /\ \A i \in (Len(got) + 1)..Len(linked) : linked[i] # msg[t]
  BY DEF IInv, LocalMessage, OnePlace, TypeOK
<1>2. TypeOK' /\ CriticalOwns' /\ LocalMessage'
  BY <1>1 DEF IInv, TypeOK, CriticalOwns, LocalMessage, Critical
<1>3. ListIsPending'
  BY <1>1 DEF IInv, ListIsPending, TypeOK
<1>4. OnePlace'
  BY <1>1 DEF IInv, OnePlace, TypeOK
<1>5. NotYetLinked'
  BY <1>1 DEF IInv, NotYetLinked, Unlinked, TypeOK, OnePlace, LocalMessage
<1>6. QED
  BY <1>2, <1>3, <1>4, <1>5 DEF IInv

(* One step per action; the others leave the list alone.                   *)
LEMMA StepIInv == IInv /\ [Next]_vars => IInv'
<1> SUFFICES ASSUME IInv, [Next]_vars
             PROVE  IInv'
  OBVIOUS
<1> USE NullAssumption
    DEF IInv, TypeOK, CriticalOwns, LocalMessage, NotYetLinked, Unlinked,
        ListIsPending, OnePlace, Critical, Goto, list, history
<1>1. ASSUME NEW t \in Threads, Send(t) PROVE IInv'
  BY <1>1 DEF Send
<1>2. ASSUME NEW t \in Threads, SendLock(t) \/ GetLock(t) PROVE IInv'
  <2>1. owner = {} /\ owner' = {t} /\ pc[t] \in {"sendLock", "getLock"}
        /\ pc' = [pc EXCEPT ![t] = IF pc[t] = "sendLock" THEN "link" ELSE "take"]
        /\ UNCHANGED <<current, tail, next, counter, msg, fresh, linked, got>>
    BY <1>2 DEF SendLock, GetLock, Lock!Acquire
  <2>2. TypeOK' /\ CriticalOwns' /\ LocalMessage'
    BY <2>1
  <2>3. ListIsPending' /\ OnePlace' /\ NotYetLinked'
    BY <2>1
  <2>4. QED
    BY <2>2, <2>3
<1>3. ASSUME NEW t \in Threads, SendUnlock(t) \/ GetUnlock(t) PROVE IInv'
  <2>1. /\ owner = {t} /\ owner' = {} /\ pc[t] \in {"sendUnlock", "getUnlock"}
        /\ UNCHANGED <<current, tail, next, counter, fresh, linked, got>>
        /\ \/ /\ pc[t] = "sendUnlock" /\ msg' = [msg EXCEPT ![t] = NULL]
              /\ pc' = [pc EXCEPT ![t] = "signal"]
           \/ /\ pc[t] = "getUnlock" /\ msg' = msg
              /\ \/ msg[t] # NULL /\ pc' = [pc EXCEPT ![t] = "return"]
                 \/ msg[t] = NULL /\ pc' = [pc EXCEPT ![t] = "drain"]
    BY <1>3 DEF SendUnlock, GetUnlock, Lock!Release
  <2>2. TypeOK'
    BY <2>1
  <2>3. CriticalOwns'
    <3>1. \A u \in Threads : u # t => pc'[u] = pc[u] /\ pc[u] \notin Critical
      <4>1. ASSUME NEW u \in Threads, owner = {u} PROVE u = t
        <5>1. t \in owner
          BY <2>1
        <5>2. QED
          BY <4>1, <5>1
      <4>2. \A u \in Threads : u # t => pc'[u] = pc[u]
        BY <2>1
      <4>3. QED
        BY <4>1, <4>2
    <3>2. pc'[t] \notin Critical
      BY <2>1
    <3>3. QED
      BY <3>1, <3>2
  <2>4. LocalMessage' /\ ListIsPending'
    <3>1. ListIsPending'
      BY <2>1
    <3>2. \A u \in Threads : u # t => pc'[u] = pc[u] /\ msg'[u] = msg[u]
      BY <2>1
    <3>3. \/ pc'[t] \in {"signal", "drain"} /\ msg'[t] = NULL
          \/ pc'[t] = "return" /\ msg'[t] # NULL
      BY <2>1
    <3>4. LocalMessage'
      BY <3>2, <3>3
    <3>5. QED
      BY <3>1, <3>4
  <2>5. NotYetLinked' /\ OnePlace'
    <3>1. CASE pc[t] = "sendUnlock"
      <4>1. /\ msg' = [msg EXCEPT ![t] = NULL] /\ pc' = [pc EXCEPT ![t] = "signal"]
            /\ UNCHANGED <<next, fresh, linked, got>>
        BY <2>1, <3>1
      <4>2. OnePlace'
        BY <4>1
      <4>3. NotYetLinked'
        BY <4>1
      <4>4. QED
        BY <4>2, <4>3
    <3>2. CASE pc[t] = "getUnlock"
      <4>1. msg' = msg /\ \A u \in Threads : u # t => pc'[u] = pc[u]
        BY <2>1, <3>2
      <4>2. pc'[t] \in {"return", "drain"}
        BY <2>1, <3>2
      <4>3. OnePlace'
        BY <2>1, <3>2, <4>1, <4>2
      <4>4. NotYetLinked'
        BY <2>1, <3>2, <4>1, <4>2
      <4>5. QED
        BY <4>3, <4>4
    <3>3. QED
      BY <2>1, <3>1, <3>2
  <2>6. QED
    BY <2>2, <2>3, <2>4, <2>5
<1>4. ASSUME NEW t \in Threads, Signal(t) \/ Poll(t) \/ Drain(t) PROVE IInv'
  BY <1>4 DEF Signal, Poll, Drain
<1>5. CASE UNCHANGED vars
  BY <1>5 DEF vars
<1>6. QED
  BY <1>1, <1>2, <1>3, <1>4, <1>5, LinkKeepsIInv, TakeKeepsIInv,
     ReturnKeepsIInv DEF Next, Continue

(* The pointers spell out the pending messages, for any number of threads. *)
THEOREM ListCorrect == Spec => []ListIsPending
<1>1. IInv => ListIsPending
  BY DEF IInv
<1>2. QED
  BY InitIInv, StepIInv, <1>1, PTL DEF Spec

(* No message is in two places, for any number of threads.                 *)
THEOREM NoSharing == Spec => []OnePlace
<1>1. IInv => OnePlace
  BY DEF IInv
<1>2. QED
  BY InitIInv, StepIInv, <1>1, PTL DEF Spec

(* Sends and gets are puts and gets of the FIFO queue; every other step    *)
(* leaves both histories alone.                                            *)
LEMMA StepFifo == IInv /\ [Next]_vars => [Fifo!Put \/ Fifo!Get]_<<linked, got>>
<1> SUFFICES ASSUME IInv, [Next]_vars
             PROVE  Fifo!Put \/ Fifo!Get \/ UNCHANGED <<linked, got>>
  OBVIOUS
<1>1. ASSUME NEW t \in Threads, Link(t) PROVE Fifo!Put
  <2>1. msg[t] \in Messages
    BY <1>1 DEF IInv, TypeOK, LocalMessage, Link
  <2>2. QED
    BY <1>1, <2>1 DEF Fifo!Put, Link
<1>2. ASSUME NEW t \in Threads, Take(t)
      PROVE  Fifo!Get \/ UNCHANGED <<linked, got>>
  <2>1. CASE current # NULL
    <3>1. Len(got) < Len(linked) /\ current = linked[Len(got) + 1]
      BY <2>1 DEF IInv, TypeOK, ListIsPending
    <3>2. QED
      BY <1>2, <2>1, <3>1 DEF Take, Fifo!Get
  <2>2. CASE current = NULL
    BY <1>2, <2>2 DEF Take
  <2>3. QED
    BY <2>1, <2>2
<1>3. QED
  BY <1>1, <1>2
     DEF Next, Continue, Send, SendLock, SendUnlock, Signal, Poll, GetLock,
         GetUnlock, Return, Drain, history, vars

(* The queue is FIFO and delivers once, for any number of threads.         *)
THEOREM Refinement == Spec => ImplementsFifo
<1>1. Init => Fifo!Init
  BY DEF Init, Fifo!Init
<1>2. QED
  BY InitIInv, StepIInv, StepFifo, <1>1, PTL
     DEF Spec, ImplementsFifo, Fifo!Spec
=============================================================================
