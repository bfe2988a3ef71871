--------------------------------- MODULE Phq ---------------------------------
(***************************************************************************)
(* The priority queue of ef/datastructure/phq.c: a binary heap in an array *)
(* whose position 1 is the root.  Every element knows its position (index) *)
(* so that its priority can be changed in place.                           *)
(*                                                                         *)
(* A call is one action up to the loop of bubble_up or percolate_down it   *)
(* ends with, and one action per iteration of that loop: `hole` is the     *)
(* loop's i, `moving` its movingnode, which is in no position of its own   *)
(* until the loop ends.  The caller's side is `inside`: what was inserted  *)
(* and neither popped nor removed since.                                   *)
(***************************************************************************)
EXTENDS Integers

CONSTANTS Elements,     \* phqElement_s objects
          Priorities,
          Descending,   \* phq_cmp_des instead of phq_cmp_asc
          InitSize,     \* the argument size of phq_new
          Resize,       \* the argument resize of phq_new
          Capacity,     \* bound: no more than so many elements at once
          NULL          \* no element

ASSUME PhqAssumption ==
    /\ NULL \notin Elements
    /\ Priorities \subseteq Int
    /\ Descending \in BOOLEAN
    /\ InitSize \in Nat /\ Resize \in Nat \ {0} /\ Capacity \in Nat

VARIABLES elements,     \* q->elements, by position
          count,        \* q->count
          size,         \* q->size
          priority,     \* el->priority
          index,        \* el->index
          inside,       \* history: the elements the queue is to hold
          pc,           \* "idle", or in the loop of bubble "up" or percolate "down"
          hole, moving  \* locals of that loop

array == <<elements, count, size>>
loop == <<pc, hole, moving>>
vars == <<array, priority, index, inside, loop>>

Positions == 1..Capacity

(* phq_cmp_asc and phq_cmp_des: a comes after b.                           *)
Cmp(a, b) == IF Descending THEN a < b ELSE a > b

After(e, f) == Cmp(priority[e], priority[f])

parent(i) == i \div 2

-----------------------------------------------------------------------------
(* phq_new zeroes the array; an element gets its priority when it is made. *)
Init ==
    /\ elements = [i \in Positions |-> NULL]
    /\ count = 0 /\ size = InitSize + 1
    /\ \E p \in Priorities : priority = [e \in Elements |-> p]
    /\ index = [e \in Elements |-> 0]
    /\ inside = {}
    /\ pc = "idle" /\ hole = 0 /\ moving = NULL

Begin(label, i, e) == pc' = label /\ hole' = i /\ moving' = e

(* A slip of Insert: the test for a full array is off by one.              *)
InsertFull(e, p) ==
    /\ pc = "idle" /\ e \notin inside /\ count < Capacity
    /\ size' = IF count >= size THEN size + Resize ELSE size
    /\ count' = count + 1
    /\ elements' = [elements EXCEPT ![count'] = e]
    /\ priority' = [priority EXCEPT ![e] = p]
    /\ index' = [index EXCEPT ![e] = 0]
    /\ inside' = inside \union {e}
    /\ Begin("up", count', e)

(* phq_element_new and phq_insert: grow the array, append, bubble up.      *)
Insert(e, p) ==
    /\ pc = "idle" /\ e \notin inside /\ count < Capacity
    /\ size' = IF count >= size - 1 THEN size + Resize ELSE size
    /\ count' = count + 1
    /\ elements' = [elements EXCEPT ![count'] = e]
    /\ priority' = [priority EXCEPT ![e] = p]
    /\ index' = [index EXCEPT ![e] = 0]
    /\ inside' = inside \union {e}
    /\ Begin("up", count', e)

(* A slip of Pop: it takes the position after the last for the last.       *)
PopForgetsLast ==
    /\ pc = "idle" /\ count > 0
    /\ inside' = inside \ {elements[1]}
    /\ count' = count - 1
    /\ elements' = IF count > 1 THEN [elements EXCEPT ![1] = elements[count - 1]] ELSE elements
    /\ Begin("down", 1, elements'[1])
    /\ UNCHANGED <<size, priority, index>>

(* phq_pop: returns the root, the last element goes down from there.       *)
Pop ==
    /\ pc = "idle" /\ count > 0
    /\ inside' = inside \ {elements[1]}
    /\ elements' = [elements EXCEPT ![1] = elements[count]]
    /\ count' = count - 1
    /\ Begin("down", 1, elements'[1])
    /\ UNCHANGED <<size, priority, index>>

(* A slip of ChangePriority: the element never goes down.                  *)
ChangeOnlyUp(e, p) ==
    /\ pc = "idle" /\ e \in inside
    /\ priority' = [priority EXCEPT ![e] = p]
    /\ Begin("up", index[e], elements[index[e]])
    /\ UNCHANGED <<array, index, inside>>

(* phq_change_priority of an element that is in the queue.                 *)
ChangePriority(e, p) ==
    /\ pc = "idle" /\ e \in inside
    /\ priority' = [priority EXCEPT ![e] = p]
    /\ Begin(IF Cmp(priority[e], p) THEN "up" ELSE "down",
             index[e], elements[index[e]])
    /\ UNCHANGED <<array, index, inside>>

(* phq_remove, as it is written: of several elements, the one before the   *)
(* last takes the place of the removed one and the last is cut off.        *)
Remove(e) ==
    /\ pc = "idle" /\ e \in inside
    /\ inside' = inside \ {e}
    /\ count' = count - 1
    /\ IF count = 1
       THEN elements' = [elements EXCEPT ![1] = NULL] /\ UNCHANGED loop
       ELSE LET last == elements[count - 1]
            IN  /\ elements' = [elements EXCEPT ![index[e]] = last]
                /\ Begin(IF After(e, last) THEN "up" ELSE "down", index[e], last)
    /\ UNCHANGED <<size, priority, index>>

(* The element e is stored at position i, and knows it.                    *)
Place(e, i) ==
    /\ elements' = [elements EXCEPT ![i] = e]
    /\ index' = [index EXCEPT ![e] = i]

Finish ==
    /\ Place(moving, hole)
    /\ pc' = "idle"
    /\ UNCHANGED <<count, size, priority, inside, hole, moving>>

(* A slip of BubbleUp: the element that comes down keeps its old index.    *)
BubbleUpStale ==
    /\ pc = "up"
    /\ \/ /\ hole > 1 /\ After(elements[parent(hole)], moving)
          /\ elements' = [elements EXCEPT ![hole] = elements[parent(hole)]]
          /\ hole' = parent(hole)
          /\ UNCHANGED <<count, size, priority, index, inside, pc, moving>>
       \/ /\ ~ (hole > 1 /\ After(elements[parent(hole)], moving))
          /\ Finish

(* The loop of bubble_up.                                                  *)
BubbleUp ==
    /\ pc = "up"
    /\ \/ /\ hole > 1 /\ After(elements[parent(hole)], moving)
          /\ Place(elements[parent(hole)], hole)
          /\ hole' = parent(hole)
          /\ UNCHANGED <<count, size, priority, inside, pc, moving>>
       \/ /\ ~ (hole > 1 /\ After(elements[parent(hole)], moving))
          /\ Finish

(* maxchild: the child that comes first, 0 if there is none.               *)
maxchild(i) ==
    IF 2 * i > count THEN 0
    ELSE IF 2 * i + 1 <= count /\ After(elements[2 * i], elements[2 * i + 1])
         THEN 2 * i + 1 ELSE 2 * i

(* The loop of percolate_down.                                             *)
PercolateDown ==
    /\ pc = "down"
    /\ LET child == maxchild(hole)
       IN  \/ /\ child # 0 /\ After(moving, elements[child])
              /\ Place(elements[child], hole)
              /\ hole' = child
              /\ UNCHANGED <<count, size, priority, inside, pc, moving>>
           \/ /\ ~ (child # 0 /\ After(moving, elements[child]))
              /\ Finish

Loop == BubbleUp \/ PercolateDown

(* The calls the scheduler of promises makes, and the timers of the gui    *)
(* while no timer is freed.                                                *)
Next ==
    \/ \E e \in Elements, p \in Priorities : Insert(e, p) \/ ChangePriority(e, p)
    \/ Pop
    \/ Loop

Spec == Init /\ [][Next]_vars

(* With phq_remove.                                                        *)
RemoveSpec == Init /\ [][Next \/ \E e \in Elements : Remove(e)]_vars

-----------------------------------------------------------------------------
(* The types of the variables; count and hole stay inside the array that   *)
(* was allocated (phq.c:125, 137).                                         *)
TypeOK ==
    /\ elements \in [Positions -> Elements \union {NULL}]
    /\ count \in 0..Capacity /\ size \in Nat /\ count < size
    /\ priority \in [Elements -> Priorities]
    /\ index \in [Elements -> 0..Capacity]
    /\ inside \subseteq Elements
    /\ pc \in {"idle", "up", "down"} /\ moving \in Elements \union {NULL}
    /\ hole \in 0..Capacity

(* Between two calls the array holds exactly the elements that were put in *)
(* and not taken out, each in one position, which it knows (phq.c:70-176). *)
HoldsAll ==
    pc = "idle" =>
      /\ \A i, j \in 1..count : elements[i] = elements[j] => i = j
      /\ inside = {elements[i] : i \in 1..count}
      /\ \A i \in 1..count : index[elements[i]] = i

(* Between two calls no element comes after one of its children, so that   *)
(* the root, which peek and pop return, comes first (phq.c:70-106).        *)
HeapOrder ==
    pc = "idle" =>
      \A i \in 2..count : ~ After(elements[parent(i)], elements[i])

(* The heap implements the abstract priority queue: pop takes an element   *)
(* that comes first, the loops change nothing.                             *)
Abstract == INSTANCE PriorityQueue
ImplementsPriorityQueue == Abstract!Spec
=============================================================================
