-------------------------- MODULE CountingSemaphore --------------------------
(***************************************************************************)
(* What include/ef/threads.h:91-101 promises of a semaphore: a post adds   *)
(* one unit, and a unit is taken only while there is one.                  *)
(***************************************************************************)
EXTENDS Naturals

CONSTANT InitVal        \* the value semaphore_new is given

VARIABLE value

Init == value = InitVal

Post == value' = value + 1

Take == value > 0 /\ value' = value - 1

Spec == Init /\ [][Post \/ Take]_value
=============================================================================
