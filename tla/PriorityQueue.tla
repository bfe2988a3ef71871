---------------------------- MODULE PriorityQueue ----------------------------
(***************************************************************************)
(* What include/ef/phq.h promises: a set of elements with priorities, from *)
(* which the element that comes first is taken; nothing else ever leaves.  *)
(***************************************************************************)
CONSTANTS Elements, Priorities,
          Cmp(_, _)     \* Cmp(a, b): priority a comes after priority b

VARIABLES inside,       \* the elements in the queue
          priority      \* the priority of every element

Init == inside = {} /\ priority \in [Elements -> Priorities]

First == {e \in inside : \A f \in inside : ~ Cmp(priority[e], priority[f])}

Insert(e) ==
    /\ e \notin inside
    /\ inside' = inside \union {e}
    /\ \E p \in Priorities : priority' = [priority EXCEPT ![e] = p]

Change(e) ==
    /\ e \in inside
    /\ \E p \in Priorities : priority' = [priority EXCEPT ![e] = p]
    /\ UNCHANGED inside

Pop(e) == e \in First /\ inside' = inside \ {e} /\ UNCHANGED priority

Next == \E e \in Elements : Insert(e) \/ Change(e) \/ Pop(e)

Spec == Init /\ [][Next]_<<inside, priority>>
=============================================================================
