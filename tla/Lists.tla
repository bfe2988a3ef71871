-------------------------------- MODULE Lists --------------------------------
(***************************************************************************)
(* Lists and vectors (ef/datastructure/list.c, vector.c): a list linked    *)
(* one way from its head, rings linked both ways, and an array that grows. *)
(*                                                                         *)
(* The three do not interact: SimpleNext, DoublyNext and VectorNext are    *)
(* their steps, each with the sequence or the rings that should come of it *)
(* beside it.  Left out: an empty vector that is fitted to its count,      *)
(* which leaves it no size to double.                                      *)
(***************************************************************************)
EXTENDS Integers, Sequences, FiniteSets, SequencesExt

CONSTANTS Nodes, NULL,
          Values, MaxCount      \* of a vector; a bound

VARIABLES head, next,           \* the simple list: NULL after the last
          list,                 \* ghost: what it should be
          dnext, dprev,         \* the rings
          rings,                \* ghost: the sets of nodes that are in one
          size, count, mem,     \* the vector: "?" is what was never written
          elements              \* ghost: what it should hold
simple == <<head, next, list>>
doubly == <<dnext, dprev, rings>>
vector == <<size, count, mem, elements>>
vars == <<simple, doubly, vector>>

Init ==
    /\ head = NULL /\ next = [n \in Nodes |-> NULL] /\ list = <<>>
    /\ dnext = [n \in Nodes |-> n] /\ dprev = [n \in Nodes |-> n]
    /\ rings = {{n} : n \in Nodes}
    /\ size = 1 /\ count = 0 /\ mem = <<"?">> /\ elements = <<>>

-----------------------------------------------------------------------------
(* The simple list.  A place in it is the field that points on: that of a  *)
(* node, or NULL for the head.                                             *)
At(place) == IF place = NULL THEN head ELSE next[place]

(* The first place that points to one of these nodes, or the last one.     *)
Onward(place, nodes) ==
    IF At(place) = NULL \/ At(place) \in nodes THEN place ELSE At(place)
Place(nodes) ==
    LET walk[k \in 0..Cardinality(Nodes)] ==
            IF k = 0 THEN NULL ELSE Onward(walk[k - 1], nodes)
    IN walk[Cardinality(Nodes)]

(* Write n to a place, and f to the field of a node.                       *)
Link(place, n, node, f) ==
    /\ head' = IF place = NULL THEN n ELSE head
    /\ next' = [x \in Nodes |-> IF x = node THEN f ELSE IF x = place THEN n ELSE next[x]]

Fresh(n) == n \notin Range(list)

AddHead(n) ==
    /\ Fresh(n) /\ Link(NULL, n, n, head)
    /\ list' = <<n>> \o list

AddTail(n) ==
    /\ Fresh(n) /\ Link(Place({}), n, n, next[n])
    /\ list' = Append(list, n)

IndexOf(n) == CHOOSE i \in DOMAIN list : list[i] = n

(* Before a node that the list has not, or after it, is at the end.        *)
AddBefore(b, n) ==
    LET p == Place({b}) IN
    /\ Fresh(n) /\ n # b /\ Link(p, n, n, At(p))
    /\ list' = IF Fresh(b) THEN Append(list, n) ELSE InsertAt(list, IndexOf(b), n)

AddAfter(a, n) ==
    LET last == Place({})
        p == IF head = NULL \/ Fresh(a) THEN last ELSE a
    IN /\ Fresh(n) /\ n # a /\ Link(p, n, n, At(p))
       /\ list' = IF Fresh(a) THEN Append(list, n) ELSE InsertAt(list, IndexOf(a) + 1, n)

Extract(n) ==
    LET p == Place({n}) IN
    /\ IF At(p) = NULL THEN UNCHANGED <<head, next>> ELSE Link(p, next[n], n, NULL)
    /\ list' = IF Fresh(n) THEN list ELSE RemoveAt(list, IndexOf(n))

SimpleNext ==
    /\ \E n \in Nodes :
          \/ AddHead(n) \/ AddTail(n) \/ Extract(n)
          \/ \E o \in Nodes : AddBefore(o, n) \/ AddAfter(o, n)
    /\ UNCHANGED <<doubly, vector>>

-----------------------------------------------------------------------------
RingOf(n) == CHOOSE r \in rings : n \in r
Lone(n) == RingOf(n) = {n}
Join(m, n) == rings' = (rings \ {RingOf(m), RingOf(n)}) \cup {RingOf(m) \cup RingOf(n)}

DoublyBefore(b, n) ==
    /\ n # b /\ Lone(n) /\ Join(b, n)
    /\ dnext' = [dnext EXCEPT ![n] = b, ![dprev[b]] = n]
    /\ dprev' = [dprev EXCEPT ![n] = dprev[b], ![b] = n]

DoublyAfter(a, n) ==
    /\ n # a /\ Lone(n) /\ Join(a, n)
    /\ dnext' = [dnext EXCEPT ![n] = dnext[a], ![a] = n]
    /\ dprev' = [dprev EXCEPT ![n] = a, ![dnext[a]] = n]

(* A whole ring, from b on, behind a.                                      *)
DoublyMerge(a, b) ==
    /\ RingOf(a) # RingOf(b) /\ Join(a, b)
    /\ dnext' = [dnext EXCEPT ![dprev[b]] = dnext[a], ![a] = b]
    /\ dprev' = [dprev EXCEPT ![dnext[a]] = dprev[b], ![b] = a]

DoublyExtract(n) ==
    /\ rings' = (rings \ {RingOf(n)}) \cup ({{n}, RingOf(n) \ {n}} \ {{}})
    /\ dnext' = [[dnext EXCEPT ![dprev[n]] = dnext[n]] EXCEPT ![n] = n]
    /\ dprev' = [[dprev EXCEPT ![dnext[n]] = dprev[n]] EXCEPT ![n] = n]

(* What list_doubly_all_free frees: from a node on until it comes back.    *)
FreeNext(f, n) ==
    IF dnext[Last(f)] = n THEN f ELSE Append(f, dnext[Last(f)])
AllFreed(n) ==
    LET freed[k \in 0..Cardinality(Nodes)] ==
            IF k = 0 THEN <<n>> ELSE FreeNext(freed[k - 1], n)
    IN freed[Cardinality(Nodes)]

DoublyNext ==
    /\ \E n, o \in Nodes :
          DoublyBefore(o, n) \/ DoublyAfter(o, n) \/ DoublyMerge(o, n) \/ DoublyExtract(n)
    /\ UNCHANGED <<simple, vector>>

-----------------------------------------------------------------------------
(* A slip of Upsize: it comes one element late.                            *)
UpsizeLate(more) == IF more + count > size + 1 THEN 2 * size ELSE size

(* vector_upsize: more by a multiple of twice the size.                    *)
RoundUp(n, by) == ((n + by - 1) \div by) * by
Upsize(more) == IF more + count > size THEN RoundUp(size + more, size * 2) ELSE size
Resized(m, s) == [i \in 1..s |-> IF i <= Len(m) THEN m[i] ELSE "?"]

(* memmove of n elements, from the one behind `from` to behind `to`; one   *)
(* past the memory is read and not kept.                                   *)
Moved(m, to, from, n) ==
    [i \in DOMAIN m |-> IF i > to /\ i <= to + n /\ i - to + from <= Len(m)
                        THEN m[i - to + from] ELSE m[i]]

PushBack(v) ==
    /\ count < MaxCount
    /\ size' = Upsize(1) /\ count' = count + 1
    /\ mem' = [Resized(mem, size') EXCEPT ![count + 1] = v]
    /\ elements' = Append(elements, v)

(* vector_remove_raw; it never makes the vector smaller, as the count is   *)
(* never more than four times the size.                                    *)
RemoveRaw(i) ==
    /\ i < count
    /\ mem' = IF i < count - 1 THEN Moved(mem, i, i + 1, count - i) ELSE mem
    /\ count' = count - 1
    /\ size' = IF count' \div 4 > size THEN size \div 2 ELSE size
    /\ elements' = RemoveAt(elements, i + 1)

(* vector_add_raw makes room at i, which is then written.                  *)
AddRaw(i, v) ==
    /\ i < count /\ count < MaxCount
    /\ size' = Upsize(1) /\ count' = count + 1
    /\ mem' = [Moved(Resized(mem, size'), i + 1, i, count - i) EXCEPT ![i + 1] = v]
    /\ elements' = InsertAt(elements, i + 1, v)

Fitting ==
    /\ count > 0
    /\ size' = count /\ mem' = Resized(mem, count)
    /\ UNCHANGED <<count, elements>>

VectorClear == count' = 0 /\ elements' = <<>> /\ UNCHANGED <<size, mem>>

(* vector_shuffle: each element changes places with any of its range.      *)
Swap(m, i, j) == [m EXCEPT ![i] = m[j], ![j] = m[i]]
Shuffled(m, b, e, j) ==
    LET swapped[k \in 0..(e - b + 1)] ==
            IF k = 0 THEN m ELSE Swap(swapped[k - 1], b + k - 1, j[b + k - 1])
    IN swapped[e - b + 1]
Shuffle(b, e) ==
    /\ b <= e /\ e <= count
    /\ \E j \in [b..e -> b..e] :
          mem' = Shuffled(mem, b, e, j) /\ elements' = Shuffled(elements, b, e, j)
    /\ UNCHANGED <<size, count>>

VectorNext ==
    /\ \/ \E v \in Values : PushBack(v) \/ \E i \in 0..(MaxCount - 1) : AddRaw(i, v)
       \/ \E i \in 0..(MaxCount - 1) : RemoveRaw(i)
       \/ \E b, e \in 1..MaxCount : Shuffle(b, e)
       \/ Fitting \/ VectorClear
    /\ UNCHANGED <<simple, doubly>>

-----------------------------------------------------------------------------
(* The links of a list lead through its nodes in order; those of a ring    *)
(* both ways through its nodes and no others, and it is freed once round;  *)
(* and a vector holds its elements in order within its size (list.c:22-72, *)
(* 167-221; vector.c:60-142).                                              *)
ListsHold ==
    /\ \A i \in 1..(Len(list) + 1) :
          At(IF i = 1 THEN NULL ELSE list[i - 1]) = IF i <= Len(list) THEN list[i] ELSE NULL
    /\ \A n \in Nodes :
          /\ dprev[dnext[n]] = n /\ dnext[dprev[n]] = n
          /\ Range(AllFreed(n)) = RingOf(n) /\ IsInjective(AllFreed(n))
    /\ count <= size /\ Len(mem) = size
    /\ SubSeq(mem, 1, count) = elements
=============================================================================
