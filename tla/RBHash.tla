------------------------------- MODULE RBHash -------------------------------
(***************************************************************************)
(* The hash table of ef/datastructure/rbhash.c: open addressing, an        *)
(* element that is further from its home than the one it meets takes its   *)
(* slot (Robin Hood).  A look-up does not stop at an empty slot; it scans  *)
(* as far as the longest distance an insertion ever saw.                   *)
(*                                                                         *)
(* An element is its user data; key and hash are functions of it.  The     *)
(* table always grows before it is full (min > 0, as all callers in ef/    *)
(* have it).                                                               *)
(***************************************************************************)
EXTENDS Integers, FiniteSets

CONSTANTS Data,         \* what is stored
          KeyOf,        \* the key of each
          HashOf,       \* the hash of each; of Junk, too
          InitSize,     \* rbh->size of the first table, a power of two
          Percent,      \* rbh->min
          MaxDistance,  \* bound: no insertion beyond this maxdistance
          Junk          \* what malloc leaves in a slot

VARIABLES table,        \* rbh->table: [data, distance] by slot, or Empty
          count, maxdistance,
          held,         \* history: what was added and not removed
          removed,      \* history: something was removed since the table grew
          dirty,        \* history: malloc left something in a new slot
          exited        \* err_fail has ended the process

vars == <<table, count, maxdistance, held, removed, dirty, exited>>

Empty == [data |-> {}, distance |-> 0]

size == Cardinality(DOMAIN table)
slot(d, n) == HashOf[d] % n
next(s, n) == (s + 1) % n

(* The smallest power of two that is not less than n.                      *)
RoundUpPowTwo(n) ==
    LET power[k \in 0..n] == IF k = 0 THEN 1 ELSE 2 * power[k - 1]
    IN  power[CHOOSE k \in 0..n : n <= power[k] /\ power[k] < 2 * n]

Occupied == {s \in DOMAIN table : table[s] # Empty}

Init ==
    /\ table = [s \in 0..(InitSize - 1) |-> Empty]
    /\ count = 0 /\ maxdistance = 0
    /\ held = {} /\ removed = FALSE /\ dirty = FALSE /\ exited = FALSE

-----------------------------------------------------------------------------
(* A slip of Carry: the longest distance is noted before the step.         *)
CarryNotesLate(s) ==
    LET n == Cardinality(DOMAIN s.table)
        there == s.table[s.at]
        swap == s.nw.distance > there.distance
        out == IF swap THEN there ELSE s.nw
    IN  [s EXCEPT !.table = IF swap THEN [s.table EXCEPT ![s.at] = s.nw] ELSE s.table,
                  !.at = next(s.at, n),
                  !.nw = [out EXCEPT !.distance = out.distance + 1],
                  !.max = IF out.distance > s.max THEN out.distance ELSE s.max]

(* One round of rbhash_swapdown: nw is carried on, or what it replaces.    *)
Carry(s) ==
    LET n == Cardinality(DOMAIN s.table)
        there == s.table[s.at]
        swap == s.nw.distance > there.distance
        out == IF swap THEN there ELSE s.nw
        far == out.distance + 1
    IN  [s EXCEPT !.table = IF swap THEN [s.table EXCEPT ![s.at] = s.nw] ELSE s.table,
                  !.at = next(s.at, n),
                  !.nw = [out EXCEPT !.distance = far],
                  !.max = IF far > s.max THEN far ELSE s.max]

Start(s, d) ==
    [s EXCEPT !.nw = [data |-> d, distance |-> 0], !.at = slot(d, Cardinality(DOMAIN s.table))]
Round(s) == IF s.table[s.at] = Empty THEN s ELSE Carry(s)
Settle(s) ==
    IF s.table[s.at] = Empty
    THEN [s EXCEPT !.table = [s.table EXCEPT ![s.at] = s.nw]]
    ELSE [s EXCEPT !.fail = TRUE]

(* rbhash_swapdown: at most as many rounds as there are slots; without an  *)
(* empty slot the process ends.                                            *)
swapdown(s, d) ==
    LET n == Cardinality(DOMAIN s.table)
        walk[i \in 0..n] == IF i = 0 THEN Start(s, d) ELSE Round(walk[i - 1])
    IN  Settle(walk[n])

Walk(t, m) ==
    [table |-> t, max |-> m, nw |-> Empty, at |-> 0, fail |-> FALSE,
     dirty |-> \E s \in DOMAIN t : t[s].data = Junk]

(* The table is what the walk w left of it, with the new element d.        *)
Take(w, d) ==
    /\ table' = w.table /\ maxdistance' = w.max /\ exited' = w.fail
    /\ count' = count + 1
    /\ held' = held \union {d}
    /\ removed' = (removed /\ DOMAIN w.table = DOMAIN table)
    /\ dirty' = (dirty \/ w.dirty)

Put(s, e) == IF e = Empty THEN s ELSE swapdown(s, e.data)

(* The elements of a table go to a new one, in the order of their slots.   *)
Rehash(from, to) ==
    LET n == Cardinality(DOMAIN from)
        moved[i \in 0..n] == IF i = 0 THEN Walk(to, 0) ELSE Put(moved[i - 1], from[i - 1])
    IN  moved[n]

(* A slip of upsize: a table that is just full is large enough.            *)
upsizeLate(w, n) ==
    LET old == Cardinality(DOMAIN w.table)
        size2 == RoundUpPowTwo(n)
    IN  IF old >= n THEN {w} ELSE {Rehash(w.table, [s \in 0..(size2 - 1) |-> Empty])}

(* rbhash_upsize: the results it can have for the table of w with n        *)
(* elements.  It marks as many slots of the new table empty as the old one *)
(* had; in the others stands what malloc left there: zeroes, or junk.      *)
upsize(w, n) ==
    LET old == Cardinality(DOMAIN w.table)
        wanted == n + (old * Percent) \div 100 + 1
        size2 == RoundUpPowTwo(wanted)
        new(junk) == [s \in 0..(size2 - 1) |->
                        IF s \in junk THEN [data |-> Junk, distance |-> 0] ELSE Empty]
    IN  IF old > wanted THEN {w}
        ELSE {Rehash(w.table, new(junk)) : junk \in {{}, old..(size2 - 1)}}

(* rbhash_find_bucket: the first match, -1 if there is none.               *)
find_bucket(k, h) ==
    LET at(i) == (h + i) % size
        hits == {i \in 0..maxdistance :
                   table[at(i)].data \in Data /\ KeyOf[table[at(i)].data] = k}
    IN  IF hits = {} THEN -1 ELSE at(CHOOSE i \in hits : \A j \in hits : i <= j)

Find(d) == find_bucket(KeyOf[d], HashOf[d])

-----------------------------------------------------------------------------
(* rbhash_add and rbhash_add_hash: also a key that is already there.       *)
Add(d) ==
    /\ ~ exited /\ d \notin held /\ maxdistance <= MaxDistance
    /\ LET w == swapdown(Walk(table, maxdistance), d)
       IN  \E w2 \in IF w.fail THEN {w} ELSE upsize(w, count + 1) : Take(w2, d)

(* rbhash_add_unique                                                       *)
AddUnique(d) == Find(d) = -1 /\ Add(d)

(* A slip of swapup: the element is copied, not moved.                     *)
swapupCopies(t, b) ==
    LET tbl == t[next(b, Cardinality(DOMAIN t))]
    IN  IF tbl # Empty /\ tbl.distance # 0 THEN [t EXCEPT ![b] = tbl] ELSE t

(* rbhash_swapup, as it is written: one element moves up, with the         *)
(* distance it had; then the loop tests the slot it has just emptied.      *)
swapup(t, b) ==
    LET n == Cardinality(DOMAIN t)
        tbl == t[next(b, n)]
    IN  IF tbl # Empty /\ tbl.distance # 0
        THEN [t EXCEPT ![b] = tbl, ![next(b, n)] = Empty]
        ELSE t

(* rbhash_remove and rbhash_remove_hash: the first element with the key.   *)
Remove(d) ==
    LET b == Find(d)
    IN  /\ ~ exited /\ b # -1
        /\ table' = swapup([table EXCEPT ![b] = Empty], b)
        /\ count' = count - 1
        /\ held' = held \ {table[b].data}
        /\ removed' = TRUE
        /\ UNCHANGED <<maxdistance, dirty, exited>>

(* The process has ended, or the bound is reached.                         *)
Ended == (exited \/ maxdistance > MaxDistance) /\ UNCHANGED vars

Next == (\E d \in Data : Add(d) \/ AddUnique(d) \/ Remove(d)) \/ Ended

Spec == Init /\ [][Next]_vars
-----------------------------------------------------------------------------
(* The types of the variables.                                             *)
TypeOK ==
    /\ \A s \in DOMAIN table : table[s] = Empty \/ table[s].data \in Data \union {Junk}
    /\ count \in Nat /\ maxdistance \in Nat
    /\ held \subseteq Data
    /\ removed \in BOOLEAN /\ dirty \in BOOLEAN /\ exited \in BOOLEAN

(* What was added and not removed is in exactly one slot, nothing else is  *)
(* in the table, and rbhash_free counts down to zero (rbhash.c:40-52) as   *)
(* long as malloc left the new slots empty.                                *)
HeldOnce ==
    ~ exited =>
      /\ \A d \in Data : Cardinality({s \in DOMAIN table : table[s].data = d})
                         = IF d \in held THEN 1 ELSE 0
      /\ ~ dirty => count = Cardinality(Occupied)

(* With clean memory the table never runs full (rbhash.c:79-82).           *)
NeverFull == ~ dirty => ~ exited

(* What was added is found, until something is removed (rbhash.c:154-169). *)
FoundUntilRemoved ==
    ~ exited /\ ~ removed => \A d \in held : Find(d) # -1

(* rbhash.h:120: find returns the "user data associated to key".           *)
AlwaysFound == ~ exited => \A d \in held : Find(d) # -1
=============================================================================
