------------------------------- MODULE Promise -------------------------------
(***************************************************************************)
(* The cooperative promises of ef/concurrency/promise.c.  Promises run on  *)
(* one thread, each on its own stack; the ring of runnable promises is a   *)
(* circular list whose head is `running`.  A promise leaves the ring to    *)
(* wait: in the time queue (promise_delay), in the deadpoll                *)
(* (promise_await_fd), or in the await vector of the promises it waits for *)
(* (promise_await, promise_anyof).  Promise 0, dp_task, is always in the   *)
(* ring; when it runs it moves promises whose time or event has come back  *)
(* into the ring, and sleeps in epoll_wait when nobody else can run.       *)
(*                                                                         *)
(* What the promises do is open: the one that has the cpu makes any call   *)
(* of promise.h, at most MaxCalls of them.  Whose code runs is the         *)
(* variable cpu; it is a variable of its own, not the head of the ring,    *)
(* because the code keeps it that way only if contexts and ring agree.     *)
(* Time and readiness of descriptors are moved by the environment, also    *)
(* between two statements of dp_task.                                      *)
(***************************************************************************)
EXTENDS Integers, Sequences, FiniteSets, SequencesExt

CONSTANTS Promises,     \* the promises that promise_start may create
          Main, Dp,     \* promise 1 (main) and promise 0 (dp_task)
          Fds,          \* descriptors that promise_await_fd may wait for
          Delays,       \* arguments of promise_delay, in ticks
          MaxTime,      \* bound: the clock stops here
          MaxCalls,     \* bound: calls one promise makes, starts and frees apart
          Preempted,    \* may the clock tick between the two reads of dp_task?
          NULL

ASSUME PromiseAssumption ==
    /\ Main # Dp /\ {Main, Dp, NULL} \cap Promises = {} /\ NULL \notin {Main, Dp}
    /\ IsFiniteSet(Fds)
    /\ Delays \subseteq Nat /\ MaxTime \in Nat /\ MaxCalls \in Nat
    /\ Preempted \in BOOLEAN

VARIABLES ring,         \* the runnable promises, running first
          rcount,       \* how many promises are runnable, as the code counts
          status,       \* PROMISE_STATUS_*; "unborn" before promise_start
          await,        \* await vector of each promise: who waits for it
          caller,       \* the promise that ended the wait of each promise
          ctx,          \* whose stack and registers each context holds
          cpu,          \* whose code is running
          waitset,      \* the vector of an anyof/await that has not returned
          calls,        \* calls each promise has left
          timequeue,    \* pairs <<priority, promise>>
          registered,   \* fd -> the promise whose pollEvent is registered
          ready,        \* descriptors with an event
          now,          \* time_ms()
          freed,        \* how often the memory of each promise was freed
          dppc,         \* next statement of dp_task
          twait,        \* how epoll_wait sleeps: "no", "head" or "forever"
        until         \* when a sleep that is to end with the head times out

scheduler == <<ring, rcount, status, ctx, cpu>>
waits == <<await, caller, waitset>>
world == <<ready, now>>
dp == <<dppc, twait, until>>
vars == <<scheduler, waits, calls, timequeue, registered, world, dp, freed>>

All == Promises \union {Main, Dp}

running == Head(ring)

(* The entries of seq that are in S, in their order.                       *)
Kept(seq, S) ==
    LET kept[i \in 0..Len(seq)] ==
            IF i = 0 THEN <<>>
            ELSE IF seq[i] \in S THEN Append(kept[i - 1], seq[i]) ELSE kept[i - 1]
    IN  kept[Len(seq)]

(* promise_push: rcount counts every push, the ring takes in only who is   *)
(* not there yet, at its end (before running).                             *)
Absent(seq) == Kept(seq, All \ ToSet(ring))

PushAll(seq) ==
    /\ rcount' = rcount + Len(seq)
    /\ ring' = ring \o Absent(seq)
    /\ status' = [p \in All |-> IF p \in ToSet(Absent(seq)) THEN "IDLE" ELSE status[p]]

(* promise_swapcontext: saves the code that runs in curr's context and     *)
(* continues what next's context holds.                                    *)
Swap(curr, next) ==
    IF curr = next THEN UNCHANGED <<ctx, cpu>>
    ELSE cpu' = ctx[next] /\ ctx' = [ctx EXCEPT ![curr] = cpu]

(* promise_pop of the running promise with its new status, then the swap   *)
(* to the promise that is first now; `woken` are pushed before.            *)
\* a slip of PopAndSwap: both functions count the pop
PopCountsTwice(st, woken) ==
    LET rest == Tail(ring) \o Absent(woken)
    IN  /\ ring' = rest
        /\ rcount' = rcount + Len(woken) - 2
        /\ status' = [p \in All |-> IF p = running THEN st
                                    ELSE IF p \in ToSet(Absent(woken)) THEN "IDLE"
                                    ELSE status[p]]
        /\ Swap(running, Head(rest))

PopAndSwap(st, woken) ==
    LET rest == Tail(ring) \o Absent(woken)
    IN  /\ ring' = rest
        /\ rcount' = rcount + Len(woken) - 1
        /\ status' = [p \in All |-> IF p = running THEN st
                                    ELSE IF p \in ToSet(Absent(woken)) THEN "IDLE"
                                    ELSE status[p]]
        /\ Swap(running, Head(rest))

Stop == PopAndSwap("STOPPED", <<>>)

Rotate == Tail(ring) \o <<running>>

-----------------------------------------------------------------------------
(* promise_begin: main runs, dp_task has been started.                     *)
Init ==
    /\ ring = <<Main, Dp>> /\ rcount = 2
    /\ status = [p \in All |-> IF p \in {Main, Dp} THEN "IDLE" ELSE "unborn"]
    /\ await = [p \in All |-> <<>>]
    /\ caller = [p \in All |-> NULL]
    /\ ctx = [p \in All |-> p] /\ cpu = Main
    /\ waitset = [p \in All |-> {}]
    /\ calls = [p \in All |-> MaxCalls]
    /\ timequeue = {} /\ registered = [f \in Fds |-> NULL]
    /\ ready = {} /\ now = 0
    /\ dppc = "check" /\ twait = "no" /\ until = 0
    /\ freed = [p \in All |-> 0]

(* The code of a promise other than dp_task runs, and makes its next call. *)
UserCode == cpu \notin {Dp, NULL} /\ waitset[cpu] = {}

Calls ==
    /\ UserCode
    /\ calls[cpu] > 0
    /\ calls' = [calls EXCEPT ![cpu] = @ - 1]

Yield ==
    /\ UserCode
    /\ ring' = Rotate
    /\ Swap(running, Head(ring'))
    /\ UNCHANGED <<rcount, status, waits, calls, timequeue, registered, world, dp, freed>>

Start(p) ==
    /\ UserCode
    /\ status[p] = "unborn"
    /\ PushAll(<<p>>)
    /\ UNCHANGED <<ctx, cpu, waits, calls, timequeue, registered, world, dp, freed>>

Delay(ms) ==
    /\ Calls
    /\ now + ms <= MaxTime
    /\ timequeue' = timequeue \union {<<now + ms, running>>}
    /\ Stop
    /\ UNCHANGED <<waits, registered, world, dp, freed>>

(* The result of deadpoll_register is ignored: epoll refuses a descriptor  *)
(* that is registered already (EEXIST), and the promise stops all the same. *)
AwaitFd(f) ==
    /\ Calls
    /\ registered' = IF registered[f] = NULL
                     THEN [registered EXCEPT ![f] = running] ELSE registered
    /\ Stop
    /\ UNCHANGED <<waits, timequeue, world, dp, freed>>

(* A terminated promise is returned at once.                               *)
Await(p) ==
    /\ Calls
    /\ p # cpu /\ status[p] \in {"IDLE", "STOPPED"}
    /\ caller' = [caller EXCEPT ![running] = NULL]
    /\ await' = [await EXCEPT ![p] = Append(@, running)]
    /\ waitset' = [waitset EXCEPT ![cpu] = {p}]
    /\ Stop
    /\ UNCHANGED <<timequeue, registered, world, dp, freed>>

(* promise_anyof: the pop comes first, the swap only if somebody in the    *)
(* vector has not terminated.                                              *)
Unfinished(S) == {p \in S : status[p] # "TERMINATED"}

AnyOf(S) ==
    /\ Calls
    /\ await' = [p \in All |-> IF p \in Unfinished(S) THEN Append(await[p], running)
                               ELSE await[p]]
    /\ waitset' = [waitset EXCEPT ![cpu] = S]
    /\ IF Unfinished(S) # {} THEN Stop
       ELSE /\ ring' = Tail(ring) /\ rcount' = rcount - 1
            /\ status' = [status EXCEPT ![running] = "STOPPED"]
            /\ UNCHANGED <<ctx, cpu>>
    /\ UNCHANGED <<caller, timequeue, registered, world, dp, freed>>

(* The end of promise_anyof and promise_await: the entries of the await    *)
(* vectors are removed and running->caller is the result.                  *)
(* promise_await_remove takes the first entry out; there is no second one  *)
(* (AwaitersKnown in PromiseProofs).                                       *)
ReturnsUntidy ==    \* a slip: the await vectors keep their entries
    /\ cpu \notin {Dp, NULL} /\ waitset[cpu] # {}
    /\ waitset' = [waitset EXCEPT ![cpu] = {}]
    /\ UNCHANGED <<scheduler, await, caller, calls, timequeue, registered, world, dp, freed>>

AwaitReturns ==
    /\ cpu \notin {Dp, NULL} /\ waitset[cpu] # {}
    /\ await' = [p \in All |-> IF p \in waitset[cpu] THEN Kept(await[p], All \ {cpu})
                               ELSE await[p]]
    /\ waitset' = [waitset EXCEPT ![cpu] = {}]
    /\ UNCHANGED <<scheduler, caller, calls, timequeue, registered, world, dp, freed>>

(* The function of a promise returns (promise_true_start): whoever is      *)
(* stopped in its await vector is pushed, then it leaves for good.         *)
WaitersUnchecked == await[cpu]       \* a slip: one may be runnable already

WaitersForgotten == Kept(await[cpu], {p \in All : status[p] = "IDLE"})

Waiters == Kept(await[cpu], {p \in All : status[p] = "STOPPED"})

ReturnUnnamed ==    \* a slip: the woken promise is not told by whom
    /\ UserCode /\ cpu # Main
    /\ await' = [await EXCEPT ![cpu] = <<>>]
    /\ PopAndSwap("TERMINATED", Waiters)
    /\ UNCHANGED <<caller, waitset, calls, timequeue, registered, world, dp, freed>>

Return ==
    /\ UserCode /\ cpu # Main
    /\ caller' = [p \in All |-> IF p \in ToSet(Waiters) THEN running ELSE caller[p]]
    /\ await' = [await EXCEPT ![cpu] = <<>>]
    /\ PopAndSwap("TERMINATED", Waiters)
    /\ UNCHANGED <<waitset, calls, timequeue, registered, world, dp, freed>>

(* A promise reads what a descriptor had for it.                           *)
ReadFd(f) ==
    /\ Calls
    /\ f \in ready
    /\ ready' = ready \ {f}
    /\ UNCHANGED <<scheduler, waits, timequeue, registered, now, dp, freed>>

(* promise_finalize, called for a promise that has returned when nobody is *)
(* about to look at it any more.                                           *)
Finalize(p) ==
    /\ UserCode
    /\ status[p] = "TERMINATED" /\ freed[p] = 0
    /\ \A q \in All : p \notin waitset[q]
    /\ freed' = [freed EXCEPT ![p] = @ + 1]
    /\ UNCHANGED <<scheduler, waits, calls, timequeue, registered, world, dp>>

(* promise_end: pops and finalizes rcount times, however many promises the *)
(* ring has (popping the last one leaves it in place); deadpoll_free then  *)
(* finalizes who waits for an event (dp_cleanup), and the loop over the    *)
(* time queue who waits there.                                             *)
Popped(p) ==
    (IF \E i \in 1..Len(ring) : i <= rcount /\ ring[i] = p THEN 1 ELSE 0)
  + (IF p = Last(ring) /\ rcount > Len(ring) THEN rcount - Len(ring) ELSE 0)

End ==
    /\ UserCode /\ cpu = Main
    /\ freed' = [p \in All |-> freed[p] + Popped(p)
                   + Cardinality({f \in Fds : registered[f] = p})
                   + Cardinality({e \in timequeue : e[2] = p})]
    /\ rcount' = 0 /\ cpu' = NULL
    /\ registered' = [f \in Fds |-> NULL] /\ timequeue' = {}
    /\ UNCHANGED <<ring, status, ctx, waits, calls, world, dp>>

-----------------------------------------------------------------------------
(* phq_peek: one of the entries with the smallest priority.                *)
IsHead(e) == e \in timequeue /\ \A x \in timequeue : e[1] <= x[1]

PopTimer(e) == timequeue' = timequeue \ {e} /\ PushAll(<<e[2]>>)

(* The top of the loop of dp_task: a head that is due is pushed and the    *)
(* loop starts again, else the way to deadpoll_event.                      *)
DpCheck ==
    /\ cpu = Dp /\ dppc = "check"
    /\ \/ /\ \E e \in timequeue : IsHead(e) /\ e[1] <= now /\ PopTimer(e)
          /\ UNCHANGED <<ctx, cpu, dp>>
       \/ /\ \A e \in timequeue : e[1] > now
          /\ dppc' = "wait"
          /\ UNCHANGED <<scheduler, timequeue, twait, until>>
    /\ UNCHANGED <<waits, calls, registered, world, freed>>

(* What is left until the head, counted from now.                          *)
SleepsUntil ==
    IF twait' = "head" THEN \E e \in timequeue : IsHead(e) /\ until' = e[1]
                       ELSE until' = 0

(* The second time_ms(): twait is priority - now, which is negative, that  *)
(* is, no timeout at all for epoll_wait, when the head became overdue      *)
(* since the check.  With somebody else to run the wait is 0.              *)
DpWaitTimeless ==    \* a slip: the time queue sets no timeout
    /\ cpu = Dp /\ dppc = "wait"
    /\ twait' = IF rcount > 1 THEN "no" ELSE "forever"
    /\ dppc' = "poll" /\ until' = 0
    /\ UNCHANGED <<scheduler, waits, calls, timequeue, registered, world, freed>>

DpWaitBusy ==    \* a slip: no poll while somebody else can run
    /\ cpu = Dp /\ dppc = "wait"
    /\ IF rcount > 1
       THEN /\ dppc' = "check" /\ twait' = "no" /\ until' = 0
            /\ ring' = Rotate /\ Swap(running, Head(ring'))
            /\ UNCHANGED <<rcount, status>>
       ELSE /\ dppc' = "poll"
            /\ twait' = IF timequeue = {} THEN "forever" ELSE "head"
            /\ SleepsUntil
            /\ UNCHANGED scheduler
    /\ UNCHANGED <<waits, calls, timequeue, registered, world, freed>>

DpWait ==
    /\ cpu = Dp /\ dppc = "wait"
    /\ twait' = IF rcount > 1 \/ \E e \in timequeue : IsHead(e) /\ e[1] = now THEN "no"
                ELSE IF timequeue = {} \/ \E e \in timequeue : e[1] < now THEN "forever"
                ELSE "head"
    /\ dppc' = "poll" /\ SleepsUntil
    /\ UNCHANGED <<scheduler, waits, calls, timequeue, registered, world, freed>>

DpYields ==
    /\ dppc' = "check" /\ twait' = "no" /\ until' = 0
    /\ UNCHANGED <<waits, calls, world, freed>>

Events == {f \in ready : registered[f] # NULL}

(* epoll_wait has events: dp_cbk unregisters each of them and pushes its   *)
(* promise; then dp_task yields.                                           *)
DpEvents ==
    /\ cpu = Dp /\ dppc = "poll" /\ Events # {}
    /\ \E woken \in SetToSeqs({registered[f] : f \in Events}) :
          /\ ring' = Tail(ring) \o Absent(woken) \o <<running>>
          /\ status' = [p \in All |-> IF p \in ToSet(Absent(woken)) THEN "IDLE"
                                      ELSE status[p]]
    /\ rcount' = rcount + Cardinality(Events)
    /\ Swap(running, Head(ring'))
    /\ registered' = [f \in Fds |-> IF f \in Events THEN NULL ELSE registered[f]]
    /\ UNCHANGED timequeue
    /\ DpYields

(* epoll_wait times out, not before the time it was given.  Only a         *)
(* positive timeout pops the head of the time queue, whatever its time.    *)
DpPopsHead ==
    \E e \in timequeue :
        /\ IsHead(e)
        /\ timequeue' = timequeue \ {e}
        /\ rcount' = rcount + 1
        /\ ring' = Tail(ring) \o Absent(<<e[2]>>) \o <<running>>
        /\ status' = [status EXCEPT ![e[2]] = "IDLE"]

DpTimeoutPops ==    \* a slip: the timeout that was asked for is not looked at
    /\ cpu = Dp /\ dppc = "poll" /\ Events = {}
    /\ twait # "forever" /\ until <= now
    /\ IF timequeue # {} THEN DpPopsHead
       ELSE ring' = Rotate /\ UNCHANGED <<rcount, status, timequeue>>
    /\ Swap(running, Head(ring'))
    /\ UNCHANGED registered
    /\ DpYields

DpTimeout ==
    /\ cpu = Dp /\ dppc = "poll" /\ Events = {}
    /\ \/ /\ twait = "no"
          /\ ring' = Rotate /\ UNCHANGED <<rcount, status, timequeue>>
       \/ twait = "head" /\ until <= now /\ DpPopsHead
    /\ Swap(running, Head(ring'))
    /\ UNCHANGED registered
    /\ DpYields

-----------------------------------------------------------------------------
(* The environment.  A signal may end epoll_wait; dp_task ignores it.      *)
DpInterrupted ==
    /\ cpu = Dp /\ dppc = "poll" /\ twait # "no" /\ Events = {}
    /\ ring' = Rotate
    /\ Swap(running, Head(ring'))
    /\ UNCHANGED <<rcount, status, timequeue, registered>>
    /\ DpYields

Tick ==
    /\ now < MaxTime /\ (Preempted \/ dppc # "wait")
    /\ now' = now + 1
    /\ UNCHANGED <<scheduler, waits, calls, timequeue, registered, ready, dp, freed>>

FdReady(f) ==
    /\ f \notin ready
    /\ ready' = ready \union {f}
    /\ UNCHANGED <<scheduler, waits, calls, timequeue, registered, now, dp, freed>>

DpStep == DpCheck \/ DpWait \/ DpEvents \/ DpTimeout

Vectors == {S \in SUBSET (Promises \ {cpu}) :
              S # {} /\ \A p \in S : status[p] # "unborn" /\ freed[p] = 0}

UserStep ==
    \/ Yield \/ Return \/ AwaitReturns \/ End
    \/ \E p \in Promises : Start(p) \/ Await(p) \/ Finalize(p)
    \/ \E ms \in Delays : Delay(ms)
    \/ \E f \in Fds : ReadFd(f)

(* The two calls that have a precondition promise.h does not state: the    *)
(* descriptor has no other waiter, no promise of the vector has terminated. *)
Disciplined ==
    \/ \E f \in Fds : registered[f] = NULL /\ AwaitFd(f)
    \/ \E S \in Vectors : Unfinished(S) = S /\ AnyOf(S)

Environment == Tick \/ DpInterrupted \/ \E f \in Fds : FdReady(f)

Next == UserStep \/ Disciplined \/ DpStep \/ Environment

Spec == Init /\ [][Next]_vars

(* The thread keeps running, a promise that can run does run on (it makes  *)
(* finitely many calls and yields, it does not compute forever), and time  *)
(* passes.                                                                 *)
FairSpec ==
    /\ Spec
    /\ WF_vars(DpStep) /\ WF_vars(UserStep \/ Disciplined) /\ SF_vars(Tick)

(* The calls with no precondition, as a caller reads promise.h.            *)
LooseNext ==
    \/ Next
    \/ \E f \in Fds : AwaitFd(f)
    \/ \E S \in Vectors : AnyOf(S)

LooseSpec == Init /\ [][LooseNext]_vars

-----------------------------------------------------------------------------
(* The types of the variables.                                             *)
TypeOK ==
    /\ ring \in Seq(All) /\ rcount \in Nat
    /\ status \in [All -> {"unborn", "IDLE", "STOPPED", "TERMINATED"}]
    /\ await \in [All -> Seq(All)] /\ caller \in [All -> All \union {NULL}]
    /\ ctx \in [All -> All] /\ cpu \in All \union {NULL}
    /\ waitset \in [All -> SUBSET Promises]
    /\ timequeue \subseteq (Nat \X All)
    /\ registered \in [Fds -> All \union {NULL}] /\ ready \subseteq Fds
    /\ calls \in [All -> Nat] /\ now \in Nat /\ freed \in [All -> Nat]
    /\ dppc \in {"check", "wait", "poll"} /\ twait \in {"no", "head", "forever"}
    /\ until \in Nat

(* Three notions of who can run agree until promise_end: the ring (each    *)
(* promise once, dp_task always), the status IDLE, and the counter rcount  *)
(* that decides whether dp_task may sleep; and the code that has the cpu   *)
(* is that of running.                                                     *)
SchedulerAgrees ==
    /\ TypeOK
    /\ cpu # NULL =>
          /\ IsInjective(ring) /\ Dp \in ToSet(ring)
          /\ ToSet(ring) = {p \in All : status[p] = "IDLE"}
          /\ rcount = Len(ring)
          /\ cpu = running

(* A promise that has stopped is known in exactly one place that can wake  *)
(* it: an entry of the time queue, a registered event, or the await        *)
(* vectors of promises that have yet to return; and a runnable one in none *)
(* of them, so that it is not woken a second time.                         *)
Timers(p) == {e \in timequeue : e[2] = p}
Registrations(p) == {f \in Fds : registered[f] = p}
AwaitedBy(p) == {q \in All : Contains(await[q], p)}

WaitsInOnePlace ==
    cpu # NULL =>
      \A p \in All :
        LET places == Cardinality(Timers(p)) + Cardinality(Registrations(p))
                      + (IF status[p] = "STOPPED" /\ AwaitedBy(p) # {} THEN 1 ELSE 0)
        IN  /\ status[p] = "STOPPED" => places = 1
            /\ status[p] = "IDLE" => places = 0

(* promise_finalize frees a promise once, whether a caller asks for it or  *)
(* promise_end does, which empties the ring by counting.                   *)
FreedOnce == \A p \in All : freed[p] <= 1

(* What promise_await and promise_anyof return is a promise of the vector  *)
(* they were given, and it has terminated.                                 *)
ResultHasTerminated ==
    [][AwaitReturns => /\ caller[running] \in waitset[cpu]
                       /\ status[caller[running]] = "TERMINATED"]_vars

(* A promise that called promise_delay does not run again before its time. *)
SleepsLongEnough ==
    [][\A e \in timequeue : status'[e[2]] = "IDLE" => e[1] <= now]_vars

(* It does run again: nobody sleeps for ever in promise_delay.             *)
DelayEnds ==
    \A p \in Promises \union {Main} : Timers(p) # {} ~> Timers(p) = {}

(* A promise that waits for an event that has come is run, whoever else    *)
(* runs or sleeps.                                                         *)
EventIsServed ==
    \A f \in Fds : (registered[f] # NULL /\ f \in ready)
                    ~> (registered[f] = NULL \/ f \notin ready)

(* Once a promise has terminated, every promise_await and promise_anyof     *)
(* that waits for it returns.                                              *)
AwaitEnds ==
    \A q \in Promises :
        LET awaited == cpu # NULL /\ \E p \in All : q \in waitset[p]
        IN  (awaited /\ status[q] = "TERMINATED") ~> ~ awaited
=============================================================================
