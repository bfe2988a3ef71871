------------------------------- MODULE RBuffer -------------------------------
(***************************************************************************)
(* The ring buffer of ef/datastructure/rbuffer.c, and the way fd_read_cb   *)
(* of ef/file/fd.c fills it.  One slot stays free: r = w says empty.       *)
(* terminput.c uses it for the keys that are given back, fd_read_cb for    *)
(* the bytes that are read ahead.                                          *)
(***************************************************************************)
EXTENDS Integers, Sequences

CONSTANTS Data,         \* elements
          Size,         \* cb->size, a power of two
          Junk          \* content of a slot that was never written

VARIABLES element,      \* cb->element, by slot
          r, w,         \* cb->r and cb->w
          taken         \* history: what was read and not yet overwritten, the newest first

vars == <<element, r, w, taken>>

Slots == 0..(Size - 1)

Init ==
    /\ element = [s \in Slots |-> Junk]
    /\ r = 0 /\ w = 0
    /\ taken = <<>>

(* FAST_MOD_POW_TWO masks: also what lies below zero.                      *)
Mod(i) == (i + Size) % Size

isempty == w = r
isfull == Mod(w + 1) = r

available_write ==
    (IF w > r THEN Size - w + r ELSE IF w < r THEN r - w ELSE Size) - 1
available_read == (Size - 1) - available_write
available_linear_write == IF w >= r THEN Size - w - 1 ELSE r - w - 1

(* The elements in the order they will be read.                            *)
content == [i \in 1..available_read |-> element[Mod(r + i - 1)]]

(* What is left of taken when n slots are free.                            *)
Newest(n) == SubSeq(taken, 1, IF Len(taken) < n THEN Len(taken) ELSE n)

(* rbuffer_write                                                           *)
Write(d) ==
    /\ ~ isfull
    /\ element' = [element EXCEPT ![w] = d]
    /\ w' = Mod(w + 1)
    /\ taken' = Newest(available_write - 1)
    /\ UNCHANGED r

(* A slip of Read: it does not look whether there is anything.             *)
ReadBlind ==
    /\ taken' = <<element[r]>> \o taken
    /\ r' = Mod(r + 1)
    /\ UNCHANGED <<element, w>>

(* rbuffer_read                                                            *)
Read ==
    /\ ~ isempty
    /\ taken' = <<element[r]>> \o taken
    /\ r' = Mod(r + 1)
    /\ UNCHANGED <<element, w>>

(* rbuffer_unread, of a reader that puts back what is still there.         *)
Unread ==
    /\ taken # <<>>
    /\ Mod(r - 1) # w
    /\ r' = Mod(r - 1)
    /\ taken' = Tail(taken)
    /\ UNCHANGED <<element, w>>

(* rbuffer_unwrite, of a writer whose element was not read; it refuses to  *)
(* take back the only one.                                                 *)
Unwrite ==
    /\ ~ isempty
    /\ Mod(w - 1) # r
    /\ w' = Mod(w - 1)
    /\ UNCHANGED <<element, r, taken>>

(* rbuffer_clear                                                           *)
Clear == w' = r /\ UNCHANGED <<element, r, taken>>

(* rbuffer_addr_w, as it is written: the address of the slot r.            *)
addr_w == r

(* How fd_read_cb reads ahead: into an empty buffer, up to its end, or one *)
(* element when the end is where it stands.                                *)
Fill ==
    /\ isempty
    /\ LET room == IF available_linear_write < 1 THEN 1 ELSE available_linear_write
       IN  \E n \in 1..room : \E ds \in [1..n -> Data] :
             /\ element' = [s \in Slots |-> IF s \in addr_w..(addr_w + n - 1)
                                            THEN ds[s - addr_w + 1] ELSE element[s]]
             /\ w' = Mod(w + n)
             /\ taken' = Newest(available_write - n)
    /\ UNCHANGED r

Next == (\E d \in Data : Write(d)) \/ Read \/ Unread \/ Unwrite \/ Clear \/ Fill

Spec == Init /\ [][Next]_vars

-----------------------------------------------------------------------------
(* The types of the variables.                                             *)
TypeOK ==
    /\ element \in [Slots -> Data \union {Junk}]
    /\ r \in Slots /\ w \in Slots
    /\ Len(taken) <= Size - 1

(* The ring implements the queue with a reader that puts back: nothing is  *)
(* lost, reordered or overwritten while it is in the queue, and unread     *)
(* brings back exactly what was read last (rbuffer.c:43-60, 104-125).      *)
Abstract == INSTANCE ReadBackQueue WITH queue <- content, Capacity <- Size - 1
ImplementsReadBackQueue == Abstract!Spec
=============================================================================
