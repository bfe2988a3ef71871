------------------------------ MODULE Deadpoll ------------------------------
(***************************************************************************)
(* The event loop of ef/file/deadpoll.c: descriptors registered with a     *)
(* callback, edge triggered events that epoll hands out in batches, and    *)
(* callbacks that register descriptors and unregister their own, as those  *)
(* of promise.c and of the socket server do.                               *)
(***************************************************************************)
EXTENDS Integers, SequencesExt

CONSTANTS Fds,          \* descriptors
          Objects,      \* memory for pollEvent_s
          Batch,        \* DEADPOLL_POLLING_EVENTS
          Period,       \* the timems of deadpoll_loop
          Late,         \* bound on the time the callbacks of a batch take
          Nobody

ASSUME NobodyAssumption == Nobody \notin Objects \union Fds
ASSUME TimeAssumption == Period \in Nat \ {0} /\ Late \in Nat
ASSUME BatchAssumption == Batch \in Nat \ {0}

VARIABLES fd,           \* ev->fd, Nobody when the object is not allocated
          interest,     \* epoll: objects it reports
          ready,        \* epoll: of which these have an event, the oldest first
          batch,        \* epollEvent: objects yet to be looked at
          inside,       \* the object whose callback runs
          timems,       \* time to the timeout
          spent,        \* of which epoll_wait took this
          timer,        \* whether a timeout callback is registered
          phase,        \* the time, modulo Period
          fired,        \* history: there was a timeout
          state         \* setup, wait, dispatch, error

registry == <<fd, interest>>
time == <<timems, spent, timer, phase, fired>>
vars == <<registry, ready, batch, inside, time, state>>

events == {o \in Objects : fd[o] # Nobody}

(* deadpoll_new, and the call of deadpoll_loop to come                     *)
Init ==
    /\ fd = [o \in Objects |-> Nobody]
    /\ interest = {} /\ ready = <<>> /\ batch = <<>>
    /\ inside = Nobody
    /\ timems = Period /\ spent = 0 /\ phase = 0 /\ fired = FALSE
    /\ timer \in BOOLEAN
    /\ state = "setup"

(* The thread of the loop runs the user's code.                            *)
InUser == state = "setup" \/ inside # Nobody

(* deadpoll_register; epoll refuses a descriptor that it knows.            *)
Register(f) ==
    /\ InUser
    /\ \A o \in interest : fd[o] # f
    /\ \E o \in Objects \ events :
          /\ fd' = [fd EXCEPT ![o] = f]
          /\ interest' = interest \union {o}
    /\ UNCHANGED <<ready, batch, inside, time, state>>

(* A slip of Unregister: epoll is not told.                                *)
UnregisterInList(o) ==
    /\ o \in events
    /\ state = "setup" \/ inside = o
    /\ fd' = [fd EXCEPT ![o] = Nobody]
    /\ UNCHANGED <<interest, ready, batch, inside, time, state>>

(* deadpoll_unregister; a callback unregisters its own descriptor.         *)
Unregister(o) ==
    /\ o \in events
    /\ state = "setup" \/ inside = o
    /\ fd' = [fd EXCEPT ![o] = Nobody]
    /\ interest' = interest \ {o}
    /\ \/ ~ Contains(ready, o) /\ UNCHANGED ready
       \/ \E i \in DOMAIN ready : ready[i] = o /\ ready' = RemoveAt(ready, i)
    /\ UNCHANGED <<batch, inside, time, state>>

(* Something happens to a descriptor.                                      *)
Arrives(o) ==
    /\ o \in interest
    /\ ready' = IF Contains(ready, o) THEN ready ELSE Append(ready, o)
    /\ UNCHANGED <<registry, batch, inside, time, state>>

Loop ==
    /\ state = "setup"
    /\ state' = "wait"
    /\ UNCHANGED <<registry, ready, batch, inside, time>>

(* epoll_wait returns events.                                              *)
Wait ==
    /\ state = "wait" /\ ready # <<>>
    /\ LET n == IF Len(ready) < Batch THEN Len(ready) ELSE Batch
       IN  /\ batch' = SubSeq(ready, 1, n)
           /\ ready' = SubSeq(ready, n + 1, Len(ready))
    /\ spent' \in 0..timems
    /\ state' = "dispatch"
    /\ UNCHANGED <<registry, inside, timems, timer, phase, fired>>

(* epoll_wait fails, as when a signal interrupts it.                       *)
WaitFails ==
    /\ state = "wait"
    /\ state' = "error"
    /\ UNCHANGED <<registry, ready, batch, inside, time>>

(* epoll_wait times out: timems is 0 and stays so in deadpoll_loop.  The  *)
(* timeout callback registers and unregisters nothing.                     *)
Timeout ==
    /\ state = "wait" /\ ready = <<>>
    /\ timems' = 0
    /\ phase' = (phase + timems) % Period
    /\ fired' = TRUE
    /\ state' \in IF timer THEN {"wait", "error"} ELSE {"wait"}
    /\ UNCHANGED <<registry, ready, batch, inside, spent, timer>>

(* The next entry of the batch                                             *)
Dispatch ==
    /\ state = "dispatch" /\ inside = Nobody /\ batch # <<>>
    /\ inside' = Head(batch)
    /\ batch' = Tail(batch)
    /\ UNCHANGED <<registry, ready, time, state>>

(* A slip of CallbackReturns: one event is all that is looked at.          *)
CallbackReturnsToWait ==
    /\ inside # Nobody
    /\ inside' = Nobody
    /\ batch' = <<>>
    /\ UNCHANGED <<registry, ready, time, state>>

(* A callback returns 0, or an error that ends the loop.                   *)
CallbackReturns ==
    /\ inside # Nobody
    /\ inside' = Nobody
    /\ \/ UNCHANGED <<batch, state>>
       \/ batch' = <<>> /\ state' = "error"
    /\ UNCHANGED <<registry, ready, time>>

(* A slip of renew: one period is added, whatever was missed.              *)
renewOnce(left) == IF left < 0 /\ timer THEN left + Period ELSE Period

(* A slip of renew: the period starts anew.                                *)
renewAnew(left) == IF left > 0 /\ timer THEN left ELSE Period

(* The case DEADPOLL_EVENT of deadpoll_loop: what is left of timems, and   *)
(* the next timeout where time went past it.                               *)
renew(left) == IF left # 0 /\ timer THEN left % Period ELSE Period

BatchDone ==
    /\ state = "dispatch" /\ inside = Nobody /\ batch = <<>>
    /\ \E late \in 0..Late :
          /\ timems' = renew(timems - spent - late)
          /\ phase' = (phase + spent + late) % Period
    /\ spent' = 0
    /\ state' = "wait"
    /\ UNCHANGED <<registry, ready, batch, inside, timer, fired>>

Thread ==
    Loop \/ Wait \/ WaitFails \/ Timeout \/ Dispatch \/ CallbackReturns \/ BatchDone

Next ==
    \/ Thread
    \/ \E f \in Fds : Register(f)
    \/ \E o \in Objects : Unregister(o) \/ Arrives(o)

Fairness == WF_vars(Thread)

Spec == Init /\ [][Next]_vars /\ Fairness

-----------------------------------------------------------------------------
(* The types of the variables                                              *)
TypeOK ==
    /\ fd \in [Objects -> Fds \union {Nobody}]
    /\ interest \subseteq Objects
    /\ ready \in Seq(Objects) /\ batch \in Seq(Objects)
    /\ inside \in Objects \union {Nobody}
    /\ timems \in 0..Period /\ spent \in 0..Period /\ phase \in 0..(Period - 1)
    /\ timer \in BOOLEAN /\ fired \in BOOLEAN
    /\ state \in {"setup", "wait", "dispatch", "error"}

(* What epoll reports and what a batch still holds is memory that is in    *)
(* use, of different descriptors, though callbacks free theirs and others  *)
(* take the memory up again in the middle of a batch (deadpoll.c:143-152). *)
DispatchesRegistered ==
    /\ interest = events
    /\ ToSet(ready) \union ToSet(batch) \subseteq events
    /\ \A o1, o2 \in events : fd[o1] = fd[o2] => o1 = o2

(* Until the first one, timeouts are due at multiples of the period, as    *)
(* long as waits and callbacks may take (deadpoll.c:159-178).              *)
KeepsPeriod ==
    (timer /\ ~ fired) => (phase + timems) % Period = 0

(* The callback of a descriptor with an event is called, unless it is      *)
(* unregistered or a callback ends the loop, whatever other descriptors do *)
(* (deadpoll.c:120-156).                                                   *)
EveryEventServed ==
    \A o \in Objects :
        (o \in ToSet(ready) \union ToSet(batch)) ~> (inside = o \/ fd[o] = Nobody \/ state = "error")
=============================================================================
