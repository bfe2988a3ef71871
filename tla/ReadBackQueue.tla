---------------------------- MODULE ReadBackQueue ----------------------------
(***************************************************************************)
(* What include/ef/rbuffer.h promises: a bounded first-in first-out queue  *)
(* whose reader may put back what it has read, the newest first, as long   *)
(* as nothing that was written since needed the room.                      *)
(***************************************************************************)
EXTENDS Integers, Sequences

CONSTANTS Data,
          Capacity      \* no more than so many elements at once

VARIABLES queue,        \* written and not yet read
          taken         \* read and still kept, the newest first

Init == queue = <<>> /\ taken = <<>>

Newest(s, n) == SubSeq(s, 1, IF Len(s) < n THEN Len(s) ELSE n)

(* One element, or several at once.                                        *)
Write ==
    \E n \in 1..(Capacity - Len(queue)) :
      /\ \E ds \in [1..n -> Data] : queue' = queue \o ds
      /\ taken' = Newest(taken, Capacity - Len(queue'))

Read ==
    /\ queue # <<>>
    /\ queue' = Tail(queue)
    /\ taken' = <<Head(queue)>> \o taken

Unread ==
    /\ taken # <<>>
    /\ queue' = <<Head(taken)>> \o queue
    /\ taken' = Tail(taken)

(* The writer takes back its last element, but never the only one.         *)
Unwrite ==
    /\ Len(queue) > 1
    /\ queue' = SubSeq(queue, 1, Len(queue) - 1)
    /\ UNCHANGED taken

Clear == queue' = <<>> /\ UNCHANGED taken

Next == Write \/ Read \/ Unread \/ Unwrite \/ Clear

Spec == Init /\ [][Next]_<<queue, taken>>
=============================================================================
