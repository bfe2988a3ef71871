-------------------------------- MODULE Mutex --------------------------------
(***************************************************************************)
(* What the mutex of include/ef/threads.h promises its callers: at most    *)
(* one thread owns it, a thread that does not own it may acquire it only   *)
(* while nobody does, and only the owner gives it back.                    *)
(***************************************************************************)
CONSTANT Threads

VARIABLE owner          \* the set of threads that own the mutex

Init == owner = {}

Acquire(t) == owner = {} /\ owner' = {t}

Release(t) == owner = {t} /\ owner' = {}

Next == \E t \in Threads : Acquire(t) \/ Release(t)

Spec == Init /\ [][Next]_owner
=============================================================================
