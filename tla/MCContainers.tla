---------------------------- MODULE MCContainers ----------------------------
(***************************************************************************)
(* The containers of ef/datastructure for TLC.  They do not interact: a    *)
(* behaviour exercises one of them, chosen at the start, and leaves the    *)
(* others as they were made.                                               *)
(***************************************************************************)
EXTENDS Phq, Sequences, FiniteSets, TLC

CONSTANTS RingData, RingSize,                       \* of the ring buffer
          HashData, HashKeyOf, HashHashOf,          \* of the hash table
          HashInitSize, HashPercent, HashMaxDistance,
          Nodes, Values, MaxCount,                  \* of the lists and vectors
          Junk,             \* what was never written
          d1, d2, d3, d4,   \* the user data that TLC puts into the hash table
          k1, k2, k3        \* their keys: d1 and d4 have the same

(* The smallest ring that the code makes has room for its keys or bytes.   *)
ASSUME RingAssumption == RingSize \in Nat /\ RingSize >= 2

(* A hash is a number; what is stored is not NULL, and malloc leaves none  *)
(* of it behind.                                                           *)
ASSUME HashAssumption ==
    /\ HashHashOf \in [HashData \union {Junk} -> Nat]
    /\ Junk \notin HashData /\ {} \notin HashData /\ Junk # {}
    /\ HashInitSize \in Nat \ {0} /\ HashPercent \in Nat

(* There are so many nodes, and a pointer to one is not NULL.              *)
ASSUME ListsAssumption ==
    IsFiniteSet(Nodes) /\ NULL \notin Nodes /\ MaxCount \in Nat

VARIABLES subject,          \* the container of this behaviour
          element, r, w, taken,
          table, used, maxdistance, held, removed, dirty, exited,
          head, next, list, dnext, dprev, rings, vsize, vcount, mem, pushed

heap == vars
ring == <<element, r, w, taken>>
hash == <<table, used, maxdistance, held, removed, dirty, exited>>
simple == <<head, next, list>>
doubly == <<dnext, dprev, rings>>
vector == <<vsize, vcount, mem, pushed>>
lists == <<simple, doubly, vector>>

Ring == INSTANCE RBuffer WITH Data <- RingData, Size <- RingSize

(* d1, d2 and d4 meet in one slot of a table of 2, 4 or 8, d3 in the next. *)
SomeKeys == d1 :> k1 @@ d2 :> k2 @@ d3 :> k3 @@ d4 :> k1
SomeHashes == d1 :> 3 @@ d2 :> 3 @@ d3 :> 4 @@ d4 :> 3 @@ Junk :> 7

Hash == INSTANCE RBHash WITH
    Data <- HashData, KeyOf <- HashKeyOf, HashOf <- HashHashOf,
    InitSize <- HashInitSize, Percent <- HashPercent, MaxDistance <- HashMaxDistance,
    count <- used

List == INSTANCE Lists WITH
    size <- vsize, count <- vcount, elements <- pushed

Subjects == {"heap", "ring", "hash", "simple", "doubly", "vector"}

ContainersInit ==
    /\ subject \in Subjects
    /\ Init /\ Ring!Init /\ Hash!Init /\ List!Init
    /\ subject # "heap" => priority = [e \in Elements |-> 1]

ContainersNext ==
    \/ subject = "heap" /\ Next /\ UNCHANGED <<subject, ring, hash, lists>>
    \/ subject = "ring" /\ Ring!Next /\ UNCHANGED <<subject, heap, hash, lists>>
    \/ subject = "hash" /\ Hash!Next /\ UNCHANGED <<subject, heap, ring, lists>>
    \/ subject = "simple" /\ List!SimpleNext /\ UNCHANGED <<subject, heap, ring, hash>>
    \/ subject = "doubly" /\ List!DoublyNext /\ UNCHANGED <<subject, heap, ring, hash>>
    \/ subject = "vector" /\ List!VectorNext /\ UNCHANGED <<subject, heap, ring, hash>>

all == <<subject, heap, ring, hash, lists>>

ContainersSpec == ContainersInit /\ [][ContainersNext]_all

HashSpec ==
    /\ ContainersInit /\ subject = "hash"
    /\ [][ContainersNext]_all

-----------------------------------------------------------------------------
(* The ring buffer loses, reorders and overwrites nothing                  *)
(* (rbuffer.c:43-132).                                                     *)
RingImplementsQueue == Ring!ImplementsReadBackQueue

(* Every element of the hash table is in one slot and the count is right,  *)
(* the table grows in time, and every key is found, until one is removed   *)
(* (rbhash.c:60-137, 154-169, 190-220).                                    *)
HashCorrect ==
    Hash!TypeOK /\ Hash!HeldOnce /\ Hash!NeverFull /\ Hash!FoundUntilRemoved

(* Lists and rings hold what was put in, in order, with nothing lost or    *)
(* shared, and a vector its elements within the memory it has              *)
(* (list.c:9-221, vector.c:18-141).                                        *)
ListsHold == List!ListsHold

(* rbhash.h:120: find returns the user data associated to the key.         *)
AlwaysFound == Hash!AlwaysFound
=============================================================================
