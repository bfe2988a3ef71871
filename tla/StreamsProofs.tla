---------------------------- MODULE StreamsProofs ----------------------------
(***************************************************************************)
(* For any descriptors, any memory and any batch: while callbacks only     *)
(* unregister their own descriptor, every event that is dispatched is one  *)
(* that is registered, and the timer keeps its period.  For any input, any *)
(* ends of strings and any sizes of the buffers: the calls over a stream   *)
(* see its bytes in their order and each once and stop where they say, and *)
(* what is written arrives in its order, each byte once, or was dropped.   *)
(***************************************************************************)
EXTENDS Deadpoll, Streams, SequenceTheorems, WellFoundedInduction, TLAPS

-----------------------------------------------------------------------------
(* Sequences of numbers that rise, and what cutting and joining leave.     *)
Rises(s) == \A i, j \in 1..Len(s) : i < j => s[i] < s[j]

LEMMA Elements ==
    ASSUME NEW S, NEW s \in Seq(S)
    PROVE  ToSet(s) = {s[i] : i \in 1..Len(s)} /\ ToSet(s) \subseteq S
  BY LenProperties DEF ToSet

(* The places of a joined sequence are those of its parts.                 *)
LEMMA Places ==
    ASSUME NEW S, NEW s \in Seq(S), NEW t \in Seq(S)
    PROVE  /\ s \o t \in Seq(S) /\ Len(s \o t) = Len(s) + Len(t)
           /\ Len(s) \in Nat /\ Len(t) \in Nat
           /\ \A i \in 1..Len(s) : i \in 1..(Len(s) + Len(t)) /\ (s \o t)[i] = s[i]
           /\ \A i \in 1..Len(t) : Len(s) + i \in 1..(Len(s) + Len(t)) /\ (s \o t)[Len(s) + i] = t[i]
           /\ \A i \in 1..(Len(s) + Len(t)) :
                 i \in 1..Len(s) \/ \E j \in 1..Len(t) : i = Len(s) + j
<1> DEFINE u == s \o t
<1>1. /\ u \in Seq(S) /\ Len(u) = Len(s) + Len(t) /\ Len(s) \in Nat /\ Len(t) \in Nat
      /\ \A i \in 1..(Len(s) + Len(t)) : u[i] = IF i <= Len(s) THEN s[i] ELSE t[i - Len(s)]
  BY ConcatProperties
<1> HIDE DEF u
<1>2. ASSUME NEW i \in 1..Len(s) PROVE i \in 1..(Len(s) + Len(t)) /\ u[i] = s[i]
  <2>1. i \in 1..(Len(s) + Len(t)) /\ i <= Len(s)
    BY <1>1
  <2>2. QED
    BY ONLY <1>1, <2>1
<1>3. ASSUME NEW i \in 1..Len(t) PROVE Len(s) + i \in 1..(Len(s) + Len(t)) /\ u[Len(s) + i] = t[i]
  <2>1. /\ Len(s) + i \in 1..(Len(s) + Len(t)) /\ ~ (Len(s) + i <= Len(s))
        /\ (Len(s) + i) - Len(s) = i
    BY <1>1
  <2>2. u[Len(s) + i] = t[(Len(s) + i) - Len(s)]
    BY ONLY <1>1, <2>1
  <2>3. QED
    BY ONLY <2>1, <2>2
<1>4. ASSUME NEW i \in 1..(Len(s) + Len(t)), i \notin 1..Len(s)
      PROVE  \E j \in 1..Len(t) : i = Len(s) + j
  <2>1. i - Len(s) \in 1..Len(t) /\ i = Len(s) + (i - Len(s))
    BY <1>1, <1>4
  <2>2. QED
    BY ONLY <2>1
<1>5. QED
  BY ONLY <1>1, <1>2, <1>3, <1>4 DEF u

LEMMA JoinedElements ==
    ASSUME NEW S, NEW s \in Seq(S), NEW t \in Seq(S)
    PROVE  ToSet(s \o t) = ToSet(s) \union ToSet(t)
<1> DEFINE u == s \o t
<1>1. /\ u \in Seq(S) /\ Len(u) = Len(s) + Len(t)
      /\ \A i \in 1..Len(s) : i \in 1..Len(u) /\ u[i] = s[i]
      /\ \A i \in 1..Len(t) : Len(s) + i \in 1..Len(u) /\ u[Len(s) + i] = t[i]
      /\ \A i \in 1..Len(u) : i \in 1..Len(s) \/ \E j \in 1..Len(t) : i = Len(s) + j
  BY Places
<1> HIDE DEF u
<1>2. /\ ToSet(u) = {u[i] : i \in 1..Len(u)}
      /\ ToSet(s) = {s[i] : i \in 1..Len(s)} /\ ToSet(t) = {t[i] : i \in 1..Len(t)}
  BY <1>1, Elements
<1>3. ASSUME NEW x \in ToSet(u) PROVE x \in ToSet(s) \union ToSet(t)
  <2>1. PICK i \in 1..Len(u) : x = u[i]
    BY ONLY <1>2, x \in ToSet(u)
  <2>2. CASE i \in 1..Len(s)
    BY <1>1, <1>2, <2>1, <2>2
  <2>3. ASSUME NEW j \in 1..Len(t), i = Len(s) + j PROVE x \in ToSet(t)
    BY <1>1, <1>2, <2>1, <2>3
  <2>4. QED
    BY <1>1, <2>2, <2>3
<1>4. ToSet(s) \subseteq ToSet(u) /\ ToSet(t) \subseteq ToSet(u)
  BY ONLY <1>1, <1>2
<1>5. QED
  BY ONLY <1>3, <1>4 DEF u

(* A joined sequence rises when its parts do and all of the first is       *)
(* before all of the other.                                                *)
LEMMA JoinedRises ==
    ASSUME NEW s \in Seq(Int), NEW t \in Seq(Int)
    PROVE  Rises(s \o t) <=> /\ Rises(s) /\ Rises(t)
                             /\ \A i \in 1..Len(s), j \in 1..Len(t) : s[i] < t[j]
<1> DEFINE u == s \o t
           Before == \A i \in 1..Len(s), j \in 1..Len(t) : s[i] < t[j]
<1>1. /\ Len(u) = Len(s) + Len(t) /\ Len(s) \in Nat /\ Len(t) \in Nat
      /\ \A i \in 1..Len(s) : i \in 1..Len(u) /\ u[i] = s[i]
      /\ \A i \in 1..Len(t) : Len(s) + i \in 1..Len(u) /\ u[Len(s) + i] = t[i]
      /\ \A i \in 1..Len(u) : i \in 1..Len(s) \/ \E j \in 1..Len(t) : i = Len(s) + j
  <2>1. /\ Len(s \o t) = Len(s) + Len(t) /\ Len(s) \in Nat /\ Len(t) \in Nat
        /\ \A i \in 1..Len(s) : i \in 1..Len(s \o t) /\ (s \o t)[i] = s[i]
        /\ \A i \in 1..Len(t) : Len(s) + i \in 1..Len(s \o t) /\ (s \o t)[Len(s) + i] = t[i]
        /\ \A i \in 1..Len(s \o t) : i \in 1..Len(s) \/ \E j \in 1..Len(t) : i = Len(s) + j
    BY ONLY Places, s \in Seq(Int), t \in Seq(Int), SMTT(30)
  <2> QED
    BY ONLY <2>1 DEF u
<1> HIDE DEF u
<1>2. ASSUME Rises(u) PROVE Rises(s) /\ Rises(t) /\ Before
  <2>1. Rises(s)
    BY <1>1, <1>2 DEF Rises
  <2>2. ASSUME NEW i \in 1..Len(t), NEW j \in 1..Len(t), i < j PROVE t[i] < t[j]
    <3>1. Len(s) + i < Len(s) + j
      BY <1>1, <2>2
    <3>2. QED
      BY <1>1, <1>2, <3>1 DEF Rises
  <2>3. ASSUME NEW i \in 1..Len(s), NEW j \in 1..Len(t) PROVE s[i] < t[j]
    <3>1. i < Len(s) + j
      BY <1>1
    <3>2. QED
      BY <1>1, <1>2, <3>1 DEF Rises
  <2>4. QED
    BY <2>1, <2>2, <2>3 DEF Rises
<1>3. ASSUME Rises(s), Rises(t), Before PROVE Rises(u)
  <2>1. SUFFICES ASSUME NEW i \in 1..Len(u), NEW j \in 1..Len(u), i < j PROVE u[i] < u[j]
    BY DEF Rises
  <2>2. CASE i \in 1..Len(s) /\ j \in 1..Len(s)
    BY <1>1, <1>3, <2>1, <2>2 DEF Rises
  <2>3. ASSUME i \in 1..Len(s), NEW k \in 1..Len(t), j = Len(s) + k PROVE u[i] < u[j]
    BY <1>1, <1>3, <2>3
  <2>4. ASSUME NEW h \in 1..Len(t), i = Len(s) + h, NEW k \in 1..Len(t), j = Len(s) + k
        PROVE  u[i] < u[j]
    <3>1. h < k
      BY <1>1, <2>1, <2>4
    <3>2. QED
      BY <1>1, <1>3, <2>4, <3>1 DEF Rises
  <2>5. ASSUME NEW h \in 1..Len(t), i = Len(s) + h, j \in 1..Len(s) PROVE FALSE
    BY <1>1, <2>1, <2>5
  <2>6. QED
    BY <1>1, <2>2, <2>3, <2>4, <2>5
<1>4. QED
  BY <1>2, <1>3 DEF u

(* Without a part in the middle a sequence that rises has lost the         *)
(* elements of that part and no other.                                     *)
LEMMA MiddleTaken ==
    ASSUME NEW a \in Seq(Int), NEW b \in Seq(Int), NEW c \in Seq(Int),
           Rises(a \o (b \o c))
    PROVE  Rises(a \o c) /\ ToSet(a \o c) = ToSet(a \o (b \o c)) \ ToSet(b)
<1>1. /\ b \o c \in Seq(Int) /\ Len(b \o c) = Len(b) + Len(c)
      /\ Len(b) \in Nat /\ Len(c) \in Nat
      /\ \A i \in 1..Len(b) : i \in 1..(Len(b) + Len(c)) /\ (b \o c)[i] = b[i]
      /\ \A i \in 1..Len(c) : Len(b) + i \in 1..(Len(b) + Len(c)) /\ (b \o c)[Len(b) + i] = c[i]
  BY Places
<1> DEFINE d == b \o c
<1>2. Rises(a) /\ Rises(d) /\ \A i \in 1..Len(a), j \in 1..Len(d) : a[i] < d[j]
  BY <1>1, JoinedRises
<1>3. Rises(b) /\ Rises(c) /\ \A i \in 1..Len(b), j \in 1..Len(c) : b[i] < c[j]
  BY <1>2, JoinedRises
<1> HIDE DEF d
<1>4. \A i \in 1..Len(a), j \in 1..Len(b) : a[i] < b[j]
  BY <1>1, <1>2 DEF d
<1>5. \A i \in 1..Len(a), j \in 1..Len(c) : a[i] < c[j]
  BY <1>1, <1>2 DEF d
<1>6. Rises(a \o c)
  BY <1>2, <1>3, <1>5, JoinedRises
<1>7. /\ ToSet(a \o c) = ToSet(a) \union ToSet(c)
      /\ ToSet(a \o d) = ToSet(a) \union ToSet(d)
      /\ ToSet(d) = ToSet(b) \union ToSet(c)
  <2>1. ToSet(a \o c) = ToSet(a) \union ToSet(c)
    BY JoinedElements
  <2>2. d \in Seq(Int)
    BY <1>1 DEF d
  <2>3. ToSet(a \o d) = ToSet(a) \union ToSet(d)
    BY <2>2, JoinedElements
  <2>4. ToSet(d) = ToSet(b) \union ToSet(c)
    BY JoinedElements DEF d
  <2>5. QED
    BY <2>1, <2>3, <2>4
<1>8. /\ ToSet(a) = {a[i] : i \in 1..Len(a)} /\ ToSet(b) = {b[i] : i \in 1..Len(b)}
      /\ ToSet(c) = {c[i] : i \in 1..Len(c)}
      /\ ToSet(a) \subseteq Int /\ ToSet(b) \subseteq Int /\ ToSet(c) \subseteq Int
  BY Elements
<1>9. \A x, y \in Int : x < y => x # y
  OBVIOUS
<1>10. ToSet(a) \intersect ToSet(b) = {}
  <2>1. SUFFICES ASSUME NEW x \in ToSet(a), x \in ToSet(b) PROVE FALSE
    OBVIOUS
  <2>2. PICK i \in 1..Len(a) : x = a[i]
    BY <1>8
  <2>3. PICK j \in 1..Len(b) : x = b[j]
    BY <1>8, <2>1
  <2>4. x \in Int
    BY <1>8
  <2>5. QED
    BY <1>4, <1>9, <2>2, <2>3, <2>4
<1>11. ToSet(c) \intersect ToSet(b) = {}
  <2>1. SUFFICES ASSUME NEW x \in ToSet(c), x \in ToSet(b) PROVE FALSE
    OBVIOUS
  <2>2. PICK i \in 1..Len(c) : x = c[i]
    BY <1>8
  <2>3. PICK j \in 1..Len(b) : x = b[j]
    BY <1>8, <2>1, SMTT(30)
  <2>4. x \in Int
    BY <1>8, SMTT(30)
  <2>5. QED
    BY <1>3, <1>9, <2>2, <2>3, <2>4, Zenon
<1>12. QED
  BY <1>6, <1>7, <1>10, <1>11 DEF d

(* A sequence is its beginning and its rest.                               *)
LEMMA CutInTwo ==
    ASSUME NEW S, NEW s \in Seq(S), NEW n \in 0..Len(s)
    PROVE  /\ SubSeq(s, 1, n) \in Seq(S) /\ SubSeq(s, n + 1, Len(s)) \in Seq(S)
           /\ s = SubSeq(s, 1, n) \o SubSeq(s, n + 1, Len(s))
           /\ Len(SubSeq(s, 1, n)) = n /\ Len(SubSeq(s, n + 1, Len(s))) = Len(s) - n
           /\ \A i \in 1..n : SubSeq(s, 1, n)[i] = s[i]
           /\ \A i \in 1..(Len(s) - n) : SubSeq(s, n + 1, Len(s))[i] = s[n + i]
<1>1. Len(s) \in Nat /\ n \in Nat /\ n <= Len(s) /\ \A i \in 1..Len(s) : s[i] \in S
  BY LenProperties
<1>2. ASSUME NEW m \in 1..(Len(s) + 1), NEW l \in Nat, l <= Len(s), m <= l + 1
      PROVE  /\ SubSeq(s, m, l) \in Seq(S) /\ Len(SubSeq(s, m, l)) = l - m + 1
             /\ \A i \in 1..(l - m + 1) : SubSeq(s, m, l)[i] = s[m + i - 1]
  <2>1. m \in Int /\ l \in Int /\ \A i \in m..l : i \in 1..Len(s)
    BY <1>1, <1>2
  <2>2. \A i \in m..l : s[i] \in S
    BY ONLY <1>1, <2>1
  <2>3. /\ SubSeq(s, m, l) \in Seq(S)
        /\ Len(SubSeq(s, m, l)) = IF m <= l THEN l - m + 1 ELSE 0
        /\ \A i \in 1..(l - m + 1) : SubSeq(s, m, l)[i] = s[m + i - 1]
    BY <2>1, <2>2, SubSeqProperties
  <2>4. (IF m <= l THEN l - m + 1 ELSE 0) = l - m + 1
    BY ONLY <1>2, <2>1
  <2>5. QED
    BY ONLY <2>3, <2>4
<1>3. /\ 1 \in 1..(Len(s) + 1) /\ n + 1 \in 1..(Len(s) + 1) /\ 1 <= n + 1 /\ n + 1 <= Len(s) + 1
      /\ n - 1 + 1 = n /\ Len(s) - (n + 1) + 1 = Len(s) - n
      /\ \A i \in Int : 1 + i - 1 = i /\ (n + 1) + i - 1 = n + i
  BY ONLY <1>1
<1>4. /\ SubSeq(s, 1, n) \in Seq(S) /\ Len(SubSeq(s, 1, n)) = n
      /\ \A i \in 1..n : SubSeq(s, 1, n)[i] = s[i]
  <2>1. /\ SubSeq(s, 1, n) \in Seq(S) /\ Len(SubSeq(s, 1, n)) = n - 1 + 1
        /\ \A i \in 1..(n - 1 + 1) : SubSeq(s, 1, n)[i] = s[1 + i - 1]
    BY ONLY <1>1, <1>2, <1>3
  <2>2. QED
    BY ONLY <1>3, <2>1
<1>5. /\ SubSeq(s, n + 1, Len(s)) \in Seq(S) /\ Len(SubSeq(s, n + 1, Len(s))) = Len(s) - n
      /\ \A i \in 1..(Len(s) - n) : SubSeq(s, n + 1, Len(s))[i] = s[n + i]
  <2> DEFINE m == n + 1
             l == Len(s)
  <2>1. l \in Nat /\ l <= Len(s) /\ m \in 1..(Len(s) + 1) /\ m <= l + 1
    BY <1>1, <1>3
  <2>2. l - m + 1 = Len(s) - n /\ \A i \in Int : m + i - 1 = n + i
    BY <1>3
  <2> HIDE DEF m, l
  <2>3. /\ SubSeq(s, m, l) \in Seq(S) /\ Len(SubSeq(s, m, l)) = l - m + 1
        /\ \A i \in 1..(l - m + 1) : SubSeq(s, m, l)[i] = s[m + i - 1]
    BY ONLY <2>1, <1>2
  <2>4. /\ SubSeq(s, m, l) \in Seq(S) /\ Len(SubSeq(s, m, l)) = Len(s) - n
        /\ \A i \in 1..(Len(s) - n) : SubSeq(s, m, l)[i] = s[n + i]
    BY ONLY <2>2, <2>3, SMTT(30)
  <2>5. QED
    BY ONLY <2>4 DEF m, l
<1>6. SubSeq(s, 1, n) \o SubSeq(s, n + 1, Len(s)) = SubSeq(s, 1, Len(s))
  <2>1. 1 \in 1..(Len(s) + 1) /\ n \in (1 - 1)..Len(s) /\ Len(s) \in n..Len(s)
    BY ONLY <1>1
  <2>2. QED
    BY <2>1, ConcatAdjacentSubSeq
<1>7. SubSeq(s, 1, Len(s)) = s
  BY SubSeqFull
<1>8. QED
  BY <1>4, <1>5, <1>6, <1>7, Zenon

-----------------------------------------------------------------------------
(* What is written.  The sink, what the flush in progress has left of the  *)
(* buffer, and what the call has left are the written bytes that no flush  *)
(* dropped, in their order.                                                *)
Left(w, n) == SubSeq(w, (IF n # -1 THEN n ELSE 0) + 1, Len(w))
Sent(s, w, n, p) == s \o (Left(w, n) \o p)

OutTypes ==
    /\ written \in 0..Count /\ dropped \subseteq 1..written
    /\ sink \in Seq(Int) /\ wbuf \in Seq(Int) /\ pend \in Seq(Int)
    /\ Len(wbuf) <= BufOut /\ nt \in -1..Len(wbuf)
    /\ wstate \in {"open", "closing", "closed"}

(* A flush on closing comes after the last call.                           *)
OutStates ==
    /\ wstate = "closing" => nt # -1 /\ pend = <<>>
    /\ wstate = "closed" => nt = -1 /\ wbuf = <<>> /\ pend = <<>>

OutInv ==
    /\ OutTypes /\ OutStates
    /\ Rises(Sent(sink, wbuf, nt, pend))
    /\ ToSet(Sent(sink, wbuf, nt, pend)) = (1..written) \ dropped

LEMMA LeftFacts ==
    ASSUME NEW w \in Seq(Int), NEW n \in -1..Len(w)
    PROVE  Left(w, n) \in Seq(Int) /\ (n \in {-1, 0} => Left(w, n) = w)
<1> DEFINE m == IF n # -1 THEN n ELSE 0
<1>1. Len(w) \in Nat
  OBVIOUS
<1>2. m \in 0..Len(w) /\ (n \in {-1, 0} => m = 0)
  BY <1>1
<1> HIDE DEF m
<1>3. SubSeq(w, m + 1, Len(w)) \in Seq(Int)
  BY <1>2, CutInTwo
<1>4. 0 + 1 = 1 /\ SubSeq(w, 1, Len(w)) = w
  BY SubSeqFull
<1>5. m = 0 => SubSeq(w, m + 1, Len(w)) = w
  BY <1>4
<1>6. QED
  BY <1>2, <1>3, <1>5 DEF Left, m

LEMMA Assoc == \A s, l, p \in Seq(Int) : (s \o l) \o p = s \o (l \o p)
<1>1. ASSUME NEW s \in Seq(Int), NEW l \in Seq(Int), NEW p \in Seq(Int)
      PROVE  (s \o l) \o p = s \o (l \o p)
  BY ConcatAssociative, SMTT(30)
<1>2. QED
  BY <1>1

LEMMA SentFacts ==
    ASSUME NEW s \in Seq(Int), NEW l \in Seq(Int), NEW p \in Seq(Int)
    PROVE  /\ s \o (l \o p) \in Seq(Int) /\ s \o (l \o p) = (s \o l) \o p
           /\ s \o l \in Seq(Int) /\ l \o p \in Seq(Int)
<1>1. s \o l \in Seq(Int) /\ l \o p \in Seq(Int)
  BY Places
<1>2. s \o (l \o p) \in Seq(Int)
  BY <1>1, Places
<1>3. (s \o l) \o p = s \o (l \o p)
  BY Assoc
<1>4. QED
  BY <1>1, <1>2, <1>3

LEMMA OutStart == WriteInit => OutInv
<1> SUFFICES ASSUME WriteInit PROVE OutInv
  OBVIOUS
<1>1. /\ written = 0 /\ pend = <<>> /\ wbuf = <<>> /\ nt = -1
      /\ sink = <<>> /\ dropped = {} /\ wstate = "open"
  BY DEF WriteInit
<1>2. <<>> \in Seq(Int) /\ Len(<<>>) = 0
  OBVIOUS
<1>3. Sent(sink, wbuf, nt, pend) = <<>>
  <2>1. Left(<<>>, -1) = <<>>
    <3>1. -1 \in -1..Len(<<>>) /\ -1 \in {-1, 0}
      BY <1>2
    <3>2. QED
      BY <1>2, <3>1, LeftFacts
  <2>2. <<>> \o <<>> = <<>>
    BY <1>2, ConcatEmptySeq
  <2>3. QED
    BY <1>1, <2>1, <2>2 DEF Sent
<1>4. Rises(<<>>) /\ ToSet(<<>>) = {}
  BY <1>2 DEF Rises, ToSet
<1>5. 1..0 = {}
  OBVIOUS
<1>6. OutTypes /\ OutStates
  BY <1>1, <1>2, StreamAssumption DEF OutTypes, OutStates
<1>7. QED
  BY <1>1, <1>3, <1>4, <1>5, <1>6 DEF OutInv

LEMMA OutWrite ==
    ASSUME OutInv, NEW size \in 1..Count, Write(size)
    PROVE  OutInv'
<1> DEFINE more == [i \in 1..size |-> written + i]
           all == Sent(sink, wbuf, nt, pend)
<1>1. /\ wstate = "open" /\ pend = <<>> /\ nt = -1
      /\ written + size <= Count /\ pend' = more /\ written' = written + size
      /\ wbuf' = wbuf /\ nt' = nt /\ sink' = sink /\ dropped' = dropped /\ wstate' = wstate
  BY DEF Write, Flushing
<1>2. OutTypes
  BY DEF OutInv
<1>3. written \in Nat /\ Count \in Nat /\ size \in Nat
  BY <1>2, StreamAssumption DEF OutTypes
<1>4. /\ more \in Seq(Int) /\ Len(more) = size /\ \A i \in 1..size : more[i] = written + i
      /\ ToSet(more) = {more[i] : i \in 1..size}
  <2>1. more \in [1..size -> Int] /\ DOMAIN more = 1..size
    BY <1>3
  <2>2. QED
    BY <1>3, <2>1 DEF ToSet
<1> HIDE DEF more
<1>5. Left(wbuf, nt) \in Seq(Int) /\ Left(wbuf, nt) \o pend = Left(wbuf, nt)
  BY <1>1, <1>2, LeftFacts, ConcatEmptySeq DEF OutTypes
<1>6. all \in Seq(Int) /\ Sent(sink, wbuf, nt, more) = all \o more
  <2> DEFINE l == Left(wbuf, nt)
  <2>1. sink \in Seq(Int) /\ l \in Seq(Int) /\ l \o pend = l
    BY <1>2, <1>5 DEF OutTypes
  <2> HIDE DEF l
  <2>2. sink \o l \in Seq(Int) /\ sink \o (l \o more) = (sink \o l) \o more
    BY <1>4, <2>1, SentFacts, SMTT(30)
  <2>3. QED
    BY <2>1, <2>2 DEF Sent, l
<1>7. Rises(all) /\ ToSet(all) = (1..written) \ dropped
  BY DEF OutInv
<1> HIDE DEF all
<1>8. Rises(more)
  BY <1>3, <1>4 DEF Rises
<1>9. ASSUME NEW i \in 1..Len(all), NEW j \in 1..Len(more) PROVE all[i] < more[j]
  <2>1. all[i] \in 1..written
    BY <1>6, <1>7, Elements
  <2>2. QED
    BY <1>3, <1>4, <2>1
<1>10. Rises(all \o more)
  BY <1>4, <1>6, <1>7, <1>8, <1>9, JoinedRises
<1>11. ToSet(more) = (written + 1)..(written + size)
  <2>1. ASSUME NEW x \in (written + 1)..(written + size) PROVE x \in ToSet(more)
    <3>1. x - written \in 1..size /\ x = written + (x - written)
      BY <1>3
    <3>2. QED
      BY <1>4, <3>1
  <2>2. \A i \in 1..size : written + i \in (written + 1)..(written + size)
    BY <1>3
  <2>3. ToSet(more) \subseteq (written + 1)..(written + size)
    BY <1>4, <2>2
  <2>4. QED
    BY <2>1, <2>3
<1>12. ToSet(all \o more) = (1..(written + size)) \ dropped
  <2>1. ToSet(all \o more) = ToSet(all) \union ToSet(more)
    BY <1>4, <1>6, JoinedElements
  <2>2. /\ 1..(written + size) = (1..written) \union ((written + 1)..(written + size))
        /\ (1..written) \intersect ((written + 1)..(written + size)) = {}
    BY <1>3
  <2>3. dropped \subseteq 1..written
    BY <1>2 DEF OutTypes
  <2>4. QED
    BY <1>7, <1>11, <2>1, <2>2, <2>3
<1>13. OutTypes' /\ OutStates'
  BY <1>1, <1>2, <1>3, <1>4 DEF OutTypes, OutStates
<1>14. QED
  BY <1>1, <1>6, <1>10, <1>12, <1>13 DEF OutInv

LEMMA OutCopy ==
    ASSUME OutInv, CopyOut
    PROVE  OutInv'
<1> DEFINE nc == IF Len(pend) < BufOut - Len(wbuf) THEN Len(pend) ELSE BufOut - Len(wbuf)
           a == SubSeq(pend, 1, nc)
           b == SubSeq(pend, nc + 1, Len(pend))
<1>1. /\ nt = -1 /\ pend # <<>> /\ Len(wbuf) # BufOut
      /\ wbuf' = wbuf \o a /\ pend' = b
      /\ written' = written /\ nt' = nt /\ sink' = sink /\ dropped' = dropped
      /\ wstate' = wstate
  BY DEF CopyOut, Flushing, wfull
<1>2. OutTypes /\ OutStates
  BY DEF OutInv
<1>3. /\ nc \in 0..Len(pend) /\ Len(wbuf) + nc <= BufOut
      /\ Len(wbuf) \in Nat /\ Len(pend) \in Nat /\ nc \in Nat
  BY <1>2, StreamAssumption DEF OutTypes
<1> HIDE DEF nc
<1>4. a \in Seq(Int) /\ b \in Seq(Int) /\ pend = a \o b /\ Len(a) = nc
  <2>1. sink \in Seq(Int) /\ wbuf \in Seq(Int) /\ pend \in Seq(Int)
    BY <1>2 DEF OutTypes
  <2>2. QED
    BY <1>3, <2>1, CutInTwo, ZenonT(60)
<1> HIDE DEF a, b
<1>5. wbuf \o a \in Seq(Int) /\ Len(wbuf \o a) = Len(wbuf) + nc
  BY <1>2, <1>4, Places DEF OutTypes
<1>6. Left(wbuf, nt) = wbuf /\ Left(wbuf \o a, nt) = wbuf \o a
  <2>1. nt \in {-1, 0} /\ nt \in -1..Len(wbuf) /\ nt \in -1..Len(wbuf \o a)
    BY <1>1, <1>3, <1>5
  <2>2. QED
    BY <1>2, <1>5, <2>1, LeftFacts DEF OutTypes
<1>7. (wbuf \o a) \o b = wbuf \o pend
  <2>1. sink \in Seq(Int) /\ wbuf \in Seq(Int) /\ pend \in Seq(Int)
    BY <1>2 DEF OutTypes
  <2>2. (wbuf \o a) \o b = wbuf \o (a \o b)
    <3>1. wbuf \in Seq(Int) /\ a \in Seq(Int) /\ b \in Seq(Int)
      BY <1>4, <2>1
    <3>2. QED
      BY ONLY <3>1, Assoc
  <2>3. QED
    BY ONLY <1>4, <2>2
<1>8. Sent(sink, wbuf, nt, pend)' = Sent(sink, wbuf, nt, pend)
  BY <1>1, <1>6, <1>7 DEF Sent
<1>9. OutTypes' /\ OutStates'
  <2>1. Len(wbuf \o a) <= BufOut /\ -1 \in -1..Len(wbuf \o a)
    BY ONLY <1>3, <1>5
  <2>2. QED
    BY <1>1, <1>2, <1>4, <1>5, <2>1 DEF OutTypes, OutStates
<1>10. QED
  BY <1>1, <1>8, <1>9 DEF OutInv

LEMMA OutFlush ==
    ASSUME OutInv, Flush \/ Close
    PROVE  OutInv'
<1>1. /\ nt = -1 /\ nt' = 0 /\ wstate = "open" /\ wstate' \in {"open", "closing"}
      /\ wstate' = "closing" => pend = <<>>
      /\ written' = written /\ pend' = pend /\ wbuf' = wbuf /\ sink' = sink /\ dropped' = dropped
  BY DEF Flush, Close, Flushing
<1>2. OutTypes
  BY DEF OutInv
<1>3. Left(wbuf, nt) = wbuf /\ Left(wbuf, 0) = wbuf
  <2>1. nt \in {-1, 0} /\ nt \in -1..Len(wbuf) /\ 0 \in {-1, 0} /\ 0 \in -1..Len(wbuf)
    BY <1>1, <1>2 DEF OutTypes
  <2>2. QED
    BY <1>2, <2>1, LeftFacts DEF OutTypes
<1>4. Sent(sink, wbuf, nt, pend)' = Sent(sink, wbuf, nt, pend)
  BY <1>1, <1>3 DEF Sent
<1>5. OutTypes' /\ OutStates'
  BY <1>1, <1>2 DEF OutTypes, OutStates
<1>6. QED
  BY <1>1, <1>4, <1>5 DEF OutInv

LEMMA OutTakes ==
    ASSUME OutInv, Takes
    PROVE  OutInv'
<1>1. PICK nw \in 1..(Len(wbuf) - nt) :
        /\ nt # -1 /\ nt < Len(wbuf)
        /\ sink' = sink \o SubSeq(wbuf, nt + 1, nt + nw) /\ nt' = nt + nw
        /\ written' = written /\ pend' = pend /\ wbuf' = wbuf /\ dropped' = dropped
        /\ wstate' = wstate
  BY DEF Takes, Flushing
<1>2. OutTypes /\ OutStates
  BY DEF OutInv
<1> DEFINE k == nt + nw
           a == SubSeq(wbuf, nt + 1, k)
           b == SubSeq(wbuf, k + 1, Len(wbuf))
<1>3. /\ nt \in 0..Len(wbuf) /\ k \in 0..Len(wbuf) /\ nt \in Nat /\ nt <= k
      /\ k # -1 /\ Len(wbuf) \in Nat
  BY <1>1, <1>2 DEF OutTypes
<1> HIDE DEF k
<1>4. /\ nt + 1 \in 1..(Len(wbuf) + 1) /\ k \in ((nt + 1) - 1)..Len(wbuf)
      /\ Len(wbuf) \in k..Len(wbuf) /\ \A i \in (nt + 1)..k : i \in 1..Len(wbuf)
      /\ nt + 1 \in Int /\ k \in Int
  BY ONLY <1>3
<1>5. a \o b = SubSeq(wbuf, nt + 1, Len(wbuf))
  BY <1>2, <1>4, ConcatAdjacentSubSeq DEF OutTypes
<1>6. a \in Seq(Int)
  <2>1. \A i \in (nt + 1)..k : wbuf[i] \in Int
    BY <1>2, <1>4 DEF OutTypes
  <2>2. QED
    BY <1>4, <2>1, SubSeqProperties
<1>7. b \in Seq(Int)
  BY <1>2, <1>3, CutInTwo DEF OutTypes
<1>8. Left(wbuf, nt) = a \o b /\ Left(wbuf, k) = b
  BY <1>1, <1>3, <1>5 DEF Left
<1> HIDE DEF a, b
<1>9. sink' = sink \o a /\ nt' = k
  BY <1>1 DEF a, k
<1>10. /\ sink \o a \in Seq(Int)
       /\ (sink \o a) \o (b \o pend) = sink \o (a \o (b \o pend))
       /\ (a \o b) \o pend = a \o (b \o pend)
  <2>1. sink \in Seq(Int) /\ wbuf \in Seq(Int) /\ pend \in Seq(Int)
    BY <1>2 DEF OutTypes
  <2> DEFINE c == b \o pend
  <2>2. c \in Seq(Int)
    BY <1>7, <2>1, Places
  <2>3. (a \o b) \o pend = a \o c
    <3>1. a \in Seq(Int) /\ b \in Seq(Int) /\ pend \in Seq(Int)
      BY <1>6, <1>7, <2>1
    <3>2. QED
      BY ONLY <3>1, Assoc
  <2> HIDE DEF c
  <2>4. sink \o (a \o c) = (sink \o a) \o c /\ sink \o a \in Seq(Int)
    <3>1. sink \in Seq(Int) /\ a \in Seq(Int) /\ c \in Seq(Int)
      BY <1>6, <2>1, <2>2
    <3>2. (sink \o a) \o c = sink \o (a \o c)
      BY ONLY <3>1, Assoc
    <3>3. sink \o a \in Seq(Int)
      BY ONLY <3>1, Places
    <3>4. QED
      BY ONLY <3>2, <3>3
  <2>5. QED
    BY <2>3, <2>4 DEF c
<1>11. Sent(sink, wbuf, nt, pend)' = Sent(sink, wbuf, nt, pend)
  BY <1>1, <1>8, <1>9, <1>10 DEF Sent
<1>12. OutTypes' /\ OutStates'
  <2>1. nt' \in -1..Len(wbuf) /\ nt' # -1
    BY ONLY <1>3, <1>9
  <2>2. sink' \in Seq(Int)
    BY ONLY <1>9, <1>10
  <2>3. OutTypes'
    BY <1>1, <1>2, <2>1, <2>2 DEF OutTypes
  <2>4. QED
    BY <1>1, <1>2, <2>1, <2>3 DEF OutStates
<1>13. QED
  BY <1>1, <1>11, <1>12 DEF OutInv

(* What a flush has not written when it ends is dropped.                   *)
LEMMA OutFlushed ==
    ASSUME OutInv, Flushed
    PROVE  OutInv'
<1> DEFINE a == SubSeq(wbuf, nt + 1, Len(wbuf))
<1>1. /\ nt # -1 /\ dropped' = dropped \union ToSet(a)
      /\ wbuf' = <<>> /\ nt' = -1 /\ wstate' = IF wstate = "closing" THEN "closed" ELSE wstate
      /\ written' = written /\ pend' = pend /\ sink' = sink
  BY DEF Flushed, Flushing, ToSet, ToSet
<1>2. OutTypes /\ OutStates /\ Rises(Sent(sink, wbuf, nt, pend))
      /\ ToSet(Sent(sink, wbuf, nt, pend)) = (1..written) \ dropped
  BY DEF OutInv
<1>3. a \in Seq(Int) /\ Left(wbuf, nt) = a
  <2>1. Left(wbuf, nt) = a
    BY <1>1 DEF Left
  <2>2. Left(wbuf, nt) \in Seq(Int)
    BY <1>2, LeftFacts DEF OutTypes
  <2>3. QED
    BY <2>1, <2>2
<1> HIDE DEF a
<1>4. Left(<<>>, -1) = <<>> /\ <<>> \in Seq(Int)
  <2>1. <<>> \in Seq(Int) /\ -1 \in -1..Len(<<>>) /\ -1 \in {-1, 0}
    OBVIOUS
  <2>2. QED
    BY <2>1, LeftFacts
<1>5. Sent(sink, wbuf, nt, pend) = sink \o (a \o pend)
  BY <1>3 DEF Sent
<1>6. Sent(sink, <<>>, -1, pend) = sink \o pend
  <2>1. <<>> \o pend = pend
    BY <1>2, ConcatEmptySeq DEF OutTypes
  <2>2. QED
    BY <1>4, <2>1 DEF Sent
<1>7. /\ Rises(sink \o pend)
      /\ ToSet(sink \o pend) = ToSet(sink \o (a \o pend)) \ ToSet(a)
  BY <1>2, <1>3, <1>5, MiddleTaken DEF OutTypes
<1>8. ToSet(a) \subseteq 1..written
  <2>1. sink \in Seq(Int) /\ wbuf \in Seq(Int) /\ pend \in Seq(Int)
    BY <1>2 DEF OutTypes
  <2> DEFINE c == a \o pend
  <2>2. c \in Seq(Int)
    BY <1>3, <2>1, Places
  <2>3. ToSet(c) = ToSet(a) \union ToSet(pend)
    BY <1>3, <2>1, JoinedElements
  <2> HIDE DEF c
  <2>4. ToSet(sink \o c) = ToSet(sink) \union ToSet(c)
    BY <2>1, <2>2, JoinedElements
  <2>5. QED
    BY <1>2, <1>5, <2>3, <2>4 DEF c
<1>9. OutTypes' /\ OutStates'
  <2>1. Len(<<>>) = 0 /\ BufOut \in Nat /\ 0 <= BufOut /\ -1 \in -1..0
    BY StreamAssumption
  <2>2. OutTypes'
    BY <1>1, <1>2, <1>4, <1>8, <2>1 DEF OutTypes
  <2>3. QED
    BY <1>1, <1>2, <2>2 DEF OutStates, OutTypes
<1>10. ToSet(sink \o pend) = (1..written) \ (dropped \union ToSet(a))
  BY <1>2, <1>5, <1>7
<1>11. QED
  BY <1>1, <1>6, <1>7, <1>9, <1>10 DEF OutInv

LEMMA OutKept == OutInv /\ UNCHANGED writing => OutInv'
<1> SUFFICES ASSUME OutInv, UNCHANGED writing PROVE OutInv'
  OBVIOUS
<1>1. /\ written' = written /\ pend' = pend /\ wbuf' = wbuf /\ nt' = nt
      /\ sink' = sink /\ dropped' = dropped /\ wstate' = wstate
  BY DEF writing
<1>2. OutTypes' /\ OutStates'
  BY <1>1 DEF OutInv, OutTypes, OutStates
<1>3. Sent(sink, wbuf, nt, pend)' = Sent(sink, wbuf, nt, pend)
  BY <1>1 DEF Sent
<1>4. QED
  BY <1>1, <1>2, <1>3 DEF OutInv

LEMMA OutStep == OutInv /\ WriteNext => OutInv'
<1> SUFFICES ASSUME OutInv, WriteNext PROVE OutInv'
  OBVIOUS
<1>1. CASE \E size \in 1..Count : Write(size)
  BY <1>1, OutWrite
<1>2. CASE CopyOut
  BY <1>2, OutCopy
<1>3. CASE Flush \/ Close
  BY <1>3, OutFlush
<1>4. CASE Takes
  BY <1>4, OutTakes
<1>5. CASE Flushed
  BY <1>5, OutFlushed
<1>6. QED
  BY <1>1, <1>2, <1>3, <1>4, <1>5 DEF WriteNext

LEMMA OutHolds == OutInv => WriteTypeOK /\ WrittenInOrder
<1> SUFFICES ASSUME OutInv PROVE WriteTypeOK /\ WrittenInOrder
  OBVIOUS
<1>1. /\ OutTypes /\ OutStates /\ Rises(Sent(sink, wbuf, nt, pend))
      /\ ToSet(Sent(sink, wbuf, nt, pend)) = (1..written) \ dropped
  BY DEF OutInv
<1>2. WriteTypeOK
  <2>1. written \in Nat /\ written <= Count /\ Count \in Nat
    BY <1>1, StreamAssumption DEF OutTypes
  <2>2. 1..written \subseteq 1..Count
    BY <2>1
  <2>3. dropped \subseteq 1..Count
    BY <1>1, <2>2 DEF OutTypes
  <2>4. QED
    BY <1>1, <2>3 DEF WriteTypeOK, OutTypes
<1>3. Held = Left(wbuf, nt) \o pend
  BY DEF Held, Flushing, Left
<1>4. sink \o Held = Sent(sink, wbuf, nt, pend)
  BY <1>3 DEF Sent
<1>5. Sent(sink, wbuf, nt, pend) \in Seq(Int)
  BY <1>1, LeftFacts, SentFacts DEF OutTypes, Sent
<1> DEFINE all == Sent(sink, wbuf, nt, pend)
<1> HIDE DEF all
<1>6. ASSUME NEW i \in 1..(Len(all) - 1) PROVE all[i] < all[i + 1]
  <2>1. Len(all) \in Nat
    BY <1>5 DEF all
  <2>2. i \in 1..Len(all) /\ i + 1 \in 1..Len(all) /\ i < i + 1
    BY <2>1
  <2>3. QED
    BY <1>1, <2>2 DEF Rises, all
<1>7. wstate = "closed" => Held = <<>>
  <2>1. SUFFICES ASSUME wstate = "closed" PROVE Held = <<>>
    OBVIOUS
  <2>2. nt = -1 /\ wbuf = <<>> /\ pend = <<>>
    BY <1>1, <2>1 DEF OutStates
  <2>3. <<>> \in Seq(Int) /\ -1 \in -1..Len(<<>>) /\ -1 \in {-1, 0}
    OBVIOUS
  <2>4. Left(<<>>, -1) = <<>> /\ <<>> \o <<>> = <<>>
    BY <2>3, LeftFacts, ConcatEmptySeq
  <2>5. QED
    BY <1>3, <2>2, <2>4
<1>8. ToSet(all) = (1..written) \ dropped
  BY <1>1 DEF all
<1>9. QED
  BY <1>2, <1>4, <1>6, <1>7, <1>8 DEF WrittenInOrder, ToSet, ToSet, all

(* What is read.  The bytes that calls got, those that the call in         *)
(* progress holds, the rest of the buffer and what the descriptor has are  *)
(* the input in its order, without what was lost.                          *)
Rest(r, c) == SubSeq(r, c + 1, Len(r))
Whole(g, o, u, s) == (g \o o) \o (u \o s)

LEMMA Closed2 == \A s, t \in Seq(Int) : s \o t \in Seq(Int)
<1>1. ASSUME NEW s \in Seq(Int), NEW t \in Seq(Int) PROVE s \o t \in Seq(Int)
  BY Places
<1>2. QED
  BY <1>1

LEMMA Units == <<>> \in Seq(Int) /\ \A s \in Seq(Int) : s \o <<>> = s /\ <<>> \o s = s
<1>1. ASSUME NEW s \in Seq(Int) PROVE s \o <<>> = s /\ <<>> \o s = s
  BY ConcatEmptySeq
<1>2. QED
  BY <1>1

(* The laws of joining alone.                                              *)
Strings == Seq(Int)
Glue(s, t) == s \o t
None_ == <<>>

LEMMA Gluing ==
    /\ None_ \in Strings
    /\ \A s, t \in Strings : Glue(s, t) \in Strings
    /\ \A s \in Strings : Glue(s, None_) = s /\ Glue(None_, s) = s
    /\ \A s, t, p \in Strings : Glue(Glue(s, t), p) = Glue(s, Glue(t, p))
<1>1. None_ \in Strings /\ \A s \in Strings : Glue(s, None_) = s /\ Glue(None_, s) = s
  BY Units DEF Strings, Glue, None_
<1>2. \A s, t \in Strings : Glue(s, t) \in Strings
  BY Closed2 DEF Strings, Glue
<1>3. \A s, t, p \in Strings : Glue(Glue(s, t), p) = Glue(s, Glue(t, p))
  BY Assoc DEF Strings, Glue
<1>4. QED
  BY ONLY <1>1, <1>2, <1>3

LEMMA WholeFacts ==
    ASSUME NEW g \in Strings, NEW o \in Strings, NEW p \in Strings, NEW u \in Strings,
           NEW s \in Strings
    PROVE  /\ Whole(g, o, u, s) \in Strings
           /\ Whole(g, o \o p, u, s) = Whole(g, o, p \o u, s)
           /\ Whole(g \o o, <<>>, u, s) = Whole(g, o, u, s)
           /\ Whole(g, o, u, s) = Whole(g, o, <<>>, u \o s)
           /\ Whole(g, <<>>, o \o u, s) = Whole(g, o, u, s)
           /\ Whole(g \o o, <<>>, p \o u, s) = Whole(g, o \o p, u, s)
           /\ Whole(g, o \o p, u, s) = (g \o o) \o (p \o (u \o s))
<1> DEFINE Sum(a, b, c, d) == Glue(Glue(a, b), Glue(c, d))
<1> HIDE DEF None_
<1>1. /\ None_ \in Strings /\ Glue(g, o) \in Strings /\ Glue(u, s) \in Strings
      /\ Glue(p, u) \in Strings /\ Glue(o, p) \in Strings /\ Glue(o, u) \in Strings
      /\ Glue(p, Glue(u, s)) \in Strings
  BY Gluing
<1>2. Sum(g, o, u, s) \in Strings
  BY <1>1, Gluing
<1>3. Sum(g, Glue(o, p), u, s) = Glue(Glue(g, o), Glue(p, Glue(u, s)))
  <2>1. Glue(g, Glue(o, p)) = Glue(Glue(g, o), p)
    BY Gluing
  <2>2. Glue(Glue(Glue(g, o), p), Glue(u, s)) = Glue(Glue(g, o), Glue(p, Glue(u, s)))
    BY <1>1, Gluing
  <2>3. QED
    BY <2>1, <2>2
<1>4. Sum(g, o, Glue(p, u), s) = Glue(Glue(g, o), Glue(p, Glue(u, s)))
  BY Gluing
<1>5. Sum(Glue(g, o), None_, u, s) = Sum(g, o, u, s)
  BY <1>1, Gluing
<1>6. Sum(g, o, u, s) = Sum(g, o, None_, Glue(u, s))
  BY <1>1, Gluing
<1>7. Sum(g, None_, Glue(o, u), s) = Sum(g, o, u, s)
  <2>1. Glue(g, None_) = g /\ Glue(Glue(o, u), s) = Glue(o, Glue(u, s))
    BY Gluing
  <2>2. Glue(Glue(g, o), Glue(u, s)) = Glue(g, Glue(o, Glue(u, s)))
    BY <1>1, Gluing
  <2>3. QED
    BY <2>1, <2>2
<1>8. Sum(Glue(g, o), None_, Glue(p, u), s) = Sum(g, o, Glue(p, u), s)
  BY <1>1, Gluing
<1>9. QED
  BY ONLY <1>2, <1>3, <1>4, <1>5, <1>6, <1>7, <1>8 DEF Whole, Glue, None_

LEMMA WholeLaws ==
    /\ \A g, o, p, u, s \in Strings : Whole(g, Glue(o, p), u, s) = Whole(g, o, Glue(p, u), s)
    /\ \A g, o, u, s \in Strings : Whole(Glue(g, o), <<>>, u, s) = Whole(g, o, u, s)
    /\ \A g, o, u, s \in Strings : Whole(g, <<>>, Glue(o, u), s) = Whole(g, o, u, s)
    /\ \A g, o, p, u, s \in Strings :
          Whole(Glue(g, o), <<>>, Glue(p, u), s) = Whole(g, Glue(o, p), u, s)
<1>1. ASSUME NEW g \in Strings, NEW o \in Strings, NEW p \in Strings, NEW u \in Strings,
             NEW s \in Strings
      PROVE  /\ Whole(g, Glue(o, p), u, s) = Whole(g, o, Glue(p, u), s)
             /\ Whole(Glue(g, o), <<>>, u, s) = Whole(g, o, u, s)
             /\ Whole(g, <<>>, Glue(o, u), s) = Whole(g, o, u, s)
             /\ Whole(Glue(g, o), <<>>, Glue(p, u), s) = Whole(g, Glue(o, p), u, s)
  BY WholeFacts DEF Glue
<1>2. QED
  BY ONLY <1>1

LEMMA RestFacts ==
    ASSUME NEW r \in Seq(Int), NEW c \in 0..Len(r)
    PROVE  /\ Rest(r, c) \in Seq(Int) /\ Len(Rest(r, c)) = Len(r) - c
           /\ \A i \in 1..(Len(r) - c) : Rest(r, c)[i] = r[c + i]
           /\ c = 0 => Rest(r, c) = r
           /\ c = Len(r) => Rest(r, c) = <<>>
<1>1. /\ Rest(r, c) \in Seq(Int) /\ Len(Rest(r, c)) = Len(r) - c
      /\ \A i \in 1..(Len(r) - c) : Rest(r, c)[i] = r[c + i]
  BY CutInTwo DEF Rest
<1>2. SubSeq(r, 1, Len(r)) = r /\ 0 + 1 = 1
  BY SubSeqFull
<1>3. c = 0 => Rest(r, c) = r
  BY <1>2 DEF Rest
<1>4. ASSUME c = Len(r) PROVE Rest(r, c) = <<>>
  <2>1. Len(Rest(r, c)) = 0
    BY <1>1, <1>4
  <2>2. QED
    BY <1>1, <2>1
<1>5. QED
  BY <1>1, <1>3, <1>4

LEMMA RestMoves ==
    ASSUME NEW r \in Seq(Int), NEW c \in 0..Len(r), NEW n \in 0..(Len(r) - c)
    PROVE  /\ SubSeq(Rest(r, c), 1, n) \in Seq(Int) /\ Len(SubSeq(Rest(r, c), 1, n)) = n
           /\ c + n \in 0..Len(r)
           /\ Rest(r, c + n) \in Seq(Int)
           /\ Rest(r, c) = SubSeq(Rest(r, c), 1, n) \o Rest(r, c + n)
<1> DEFINE u == Rest(r, c)
           v == Rest(r, c + n)
           b == SubSeq(u, n + 1, Len(u))
<1>1. /\ u \in Seq(Int) /\ Len(u) = Len(r) - c
      /\ \A i \in 1..(Len(r) - c) : u[i] = r[c + i]
  BY RestFacts
<1>2. Len(r) \in Nat /\ c + n \in 0..Len(r) /\ n \in 0..Len(u) /\ Len(r) - (c + n) = Len(u) - n
  BY <1>1
<1>3. /\ v \in Seq(Int) /\ Len(v) = Len(r) - (c + n)
      /\ \A i \in 1..(Len(r) - (c + n)) : v[i] = r[(c + n) + i]
  BY <1>2, RestFacts
<1> HIDE DEF u, v
<1>4. /\ SubSeq(u, 1, n) \in Seq(Int) /\ b \in Seq(Int) /\ u = SubSeq(u, 1, n) \o b
      /\ Len(SubSeq(u, 1, n)) = n /\ Len(b) = Len(u) - n
      /\ \A i \in 1..(Len(u) - n) : b[i] = u[n + i]
  BY <1>1, <1>2, CutInTwo, ZenonT(60)
<1> HIDE DEF b
<1>5. ASSUME NEW i \in 1..(Len(u) - n) PROVE b[i] = v[i]
  <2>1. n + i \in 1..(Len(r) - c) /\ c + (n + i) = (c + n) + i /\ i \in 1..(Len(r) - (c + n))
    BY <1>1, <1>2
  <2>2. b[i] = u[n + i] /\ u[n + i] = r[c + (n + i)] /\ v[i] = r[(c + n) + i]
    BY <1>1, <1>3, <1>4, <2>1
  <2>3. QED
    BY <2>1, <2>2
<1>6. b = v
  <2>1. Len(b) = Len(v)
    BY <1>1, <1>2, <1>3, <1>4
  <2>2. \A i \in 1..Len(b) : b[i] = v[i]
    BY <1>4, <1>5
  <2>3. QED
    BY <1>3, <1>4, <2>1, <2>2, SeqEqual
<1>7. QED
  BY <1>2, <1>3, <1>4, <1>6 DEF u, v

LEMMA RestHead ==
    ASSUME NEW r \in Seq(Int), NEW c \in 0..Len(r), c # Len(r)
    PROVE  /\ r[c + 1] \in Int /\ c + 1 \in 0..Len(r)
           /\ Rest(r, c) = <<r[c + 1]>> \o Rest(r, c + 1)
           /\ Tail(Rest(r, c)) = Rest(r, c + 1)
           /\ <<r[c + 1]>> \in Seq(Int) /\ Rest(r, c + 1) \in Seq(Int)
<1> DEFINE u == Rest(r, c)
           v == Rest(r, c + 1)
           b == r[c + 1]
           h == SubSeq(u, 1, 1)
<1>1. Len(r) \in Nat /\ c + 1 \in 1..Len(r) /\ 1 \in 0..(Len(r) - c) /\ 1 \in 1..(Len(r) - c)
  OBVIOUS
<1>2. b \in Int
  BY <1>1
<1>3. u \in Seq(Int) /\ Len(u) = Len(r) - c /\ u[1] = b
  BY <1>1, RestFacts
<1>4. h \in Seq(Int) /\ Len(h) = 1 /\ v \in Seq(Int) /\ u = h \o v
  BY <1>1, RestMoves
<1> HIDE DEF u, v, b
<1>5. h[1] = u[1]
  <2>1. 1 \in 0..Len(u) /\ 1 \in 1..1
    BY <1>1, <1>3
  <2>2. QED
    BY <1>3, <2>1, CutInTwo
<1> HIDE DEF h
<1>6. h = <<b>> /\ <<b>> \in Seq(Int)
  <2>1. <<b>> \in Seq(Int) /\ Len(<<b>>) = 1 /\ <<b>>[1] = b
    BY <1>2
  <2>2. \A i \in 1..Len(h) : h[i] = <<b>>[i]
    BY <1>3, <1>4, <1>5, <2>1
  <2>3. h = <<b>>
    BY <1>4, <2>1, <2>2, SeqEqual
  <2>4. QED
    BY <2>1, <2>3
<1>7. Tail(u) = v
  <2>1. u # <<>> /\ Len(u) \in Nat
    BY <1>1, <1>3
  <2>2. /\ Tail(u) \in Seq(Int) /\ Len(Tail(u)) = Len(u) - 1
        /\ \A i \in 1..Len(Tail(u)) : Tail(u)[i] = u[i + 1]
    BY <1>3, <2>1, HeadTailProperties
  <2>3. /\ Len(u) = Len(h) + Len(v) /\ Len(v) \in Nat
        /\ \A i \in 1..Len(v) : (h \o v)[Len(h) + i] = v[i]
    <3>1. h \in Seq(Int) /\ v \in Seq(Int)
      BY <1>4
    <3>2. /\ Len(h \o v) = Len(h) + Len(v) /\ Len(v) \in Nat
          /\ \A i \in 1..Len(v) : (h \o v)[Len(h) + i] = v[i]
      BY ONLY <3>1, Places
    <3>3. QED
      BY ONLY <1>4, <3>2
  <2>4. \A i \in 1..Len(v) : 1 + i = i + 1
    BY <2>3
  <2>5. \A i \in 1..Len(v) : u[i + 1] = v[i]
    BY <1>4, <2>3, <2>4
  <2>6. Len(Tail(u)) = Len(v)
    BY <1>4, <2>2, <2>3
  <2>7. \A i \in 1..Len(Tail(u)) : Tail(u)[i] = v[i]
    BY <2>2, <2>5, <2>6
  <2>8. QED
    BY <1>4, <2>2, <2>6, <2>7, SeqEqual
<1>8. c + 1 \in 0..Len(r)
  BY ONLY <1>1
<1>9. u = <<b>> \o v
  BY ONLY <1>4, <1>6, Zenon
<1>10. QED
  BY ONLY <1>2, <1>4, <1>6, <1>7, <1>8, <1>9, Zenon DEF u, v, b

Ops == CharCalls \union {"none", "read", "slurp", "strstr", "convert"}
CallTypes == [op : Ops, set : SUBSET Kinds, add : BOOLEAN, want : Nat, kept : Nat, out : Strings]
LastTypes == [op : Ops, set : SUBSET Kinds, taken : Strings, ended : BOOLEAN]

InTypes ==
    /\ source \in Strings /\ rbuf \in Strings /\ got \in Strings
    /\ Len(rbuf) <= BufIn /\ cursor \in 0..Len(rbuf)
    /\ call \in CallTypes /\ last \in LastTypes
    /\ lost \subseteq Bytes /\ fault \in BOOLEAN

(* The bytes x rise and are, with the lost l, all there are; f: some call  *)
(* was told of it.                                                         *)
Accounts(x, l, f) ==
    /\ Rises(x) /\ Bytes = ToSet(x) \union l
    /\ ~ f => l = {}

(* What the call k in progress has collected is of the kinds that it       *)
(* passes, and a number that ends has a reason to end before what is ahead.*)
Passed(k) ==
    /\ k.op \in {"skip_anyof", "num", "convert"} =>
           \A i \in 1..Len(k.out) : Kind[k.out[i]] \in k.set
    /\ k.op \in {"string", "skip_to", "skip_next"} =>
           \A i \in 1..Len(k.out) : Kind[k.out[i]] \notin k.set
Numeral(k, ahead) ==
    /\ k.op \in {"num", "convert"} => k.set = {"digit", "hex"} /\ Len(k.out) <= Digits
    /\ k.op = "convert" =>
           Len(k.out) = Digits \/ ahead = <<>> \/ Kind[Head(ahead)] \notin k.set

(* The last bytes collected are the first of the end string.               *)
Matched(k) ==
    k.op = "strstr" =>
      /\ k.want <= Len(EndStr) /\ k.want <= Len(k.out)
      /\ \A i \in 1..k.want : Kind[k.out[Len(k.out) - k.want + i]] = EndStr[i]

CallRight(k, ahead) ==
    /\ k.op = "none" => k = NoCall
    /\ k.kept <= Len(k.out)
    /\ Passed(k) /\ Numeral(k, ahead) /\ Matched(k)

InInv ==
    /\ InTypes
    /\ Accounts(Whole(got, call.out, Rest(rbuf, cursor), source), lost, fault)
    /\ CallRight(call, Rest(rbuf, cursor) \o source)
    /\ StopsRight

LEMMA Unread == ravailable = Rest(rbuf, cursor) /\ ravailable' = Rest(rbuf', cursor')
  BY DEF ravailable, Rest

LEMMA AccountsWithout ==
    ASSUME NEW a \in Strings, NEW q \in Strings, NEW c \in Strings, NEW l, NEW f, NEW f2,
           Accounts(a \o (q \o c), l, f), f2 \/ (~ f /\ q = <<>>)
    PROVE  Accounts(a \o c, l \union ToSet(q), f2)
<1>1. Rises(a \o c) /\ ToSet(a \o c) = ToSet(a \o (q \o c)) \ ToSet(q)
  BY MiddleTaken DEF Accounts, Strings
<1>2. ToSet(q) \subseteq ToSet(a \o (q \o c))
  <2> DEFINE d == q \o c
  <2>1. d \in Strings /\ ToSet(d) = ToSet(q) \union ToSet(c)
    BY Closed2, JoinedElements DEF Strings
  <2> HIDE DEF d
  <2>2. ToSet(a \o d) = ToSet(a) \union ToSet(d)
    BY <2>1, JoinedElements DEF Strings
  <2>3. QED
    BY <2>1, <2>2 DEF d
<1>3. q = <<>> => ToSet(q) = {}
  BY DEF ToSet
<1>4. QED
  BY <1>1, <1>2, <1>3 DEF Accounts

(* The types and the kinds of what is there.                               *)
LEMMA Reading ==
    ASSUME InInv
    PROVE  /\ source \in Strings /\ rbuf \in Strings /\ got \in Strings
           /\ call.out \in Strings /\ Rest(rbuf, cursor) \in Strings
           /\ Len(rbuf) \in Nat /\ Len(rbuf) <= BufIn /\ cursor \in 0..Len(rbuf) /\ cursor \in Nat
           /\ Len(call.out) \in Nat /\ Len(source) \in Nat /\ Len(got) \in Nat
           /\ call \in CallTypes /\ last \in LastTypes
           /\ BufIn \in Nat \ {0} /\ Digits \in Nat /\ EndStr \in Seq(Kinds) /\ Len(EndStr) \in Nat
           /\ \A b \in DOMAIN Kind : Kind[b] \in Kinds
<1>1. /\ source \in Strings /\ rbuf \in Strings /\ got \in Strings /\ call.out \in Strings
      /\ Len(rbuf) <= BufIn /\ cursor \in 0..Len(rbuf) /\ call \in CallTypes /\ last \in LastTypes
  BY DEF InInv, InTypes, CallTypes
<1>2. Rest(rbuf, cursor) \in Strings
  BY <1>1, RestFacts DEF Strings
<1>3. /\ Len(rbuf) \in Nat /\ Len(call.out) \in Nat /\ Len(source) \in Nat /\ Len(got) \in Nat
      /\ Len(EndStr) \in Nat
  BY <1>1, StreamAssumption DEF Strings
<1>4. cursor \in Nat
  BY <1>1, <1>3
<1>5. QED
  BY <1>1, <1>2, <1>3, <1>4, StreamAssumption

LEMMA ReadingKinds ==
    ASSUME InInv
    PROVE  /\ \A i \in 1..Len(call.out) : call.out[i] \in DOMAIN Kind
           /\ \A i \in 1..Len(Rest(rbuf, cursor)) : Rest(rbuf, cursor)[i] \in DOMAIN Kind
           /\ ToSet(call.out) \subseteq DOMAIN Kind /\ ToSet(source) \subseteq DOMAIN Kind
           /\ ToSet(got) \subseteq DOMAIN Kind /\ ToSet(Rest(rbuf, cursor)) \subseteq DOMAIN Kind
<1> DEFINE o == call.out
           u == Rest(rbuf, cursor)
           a == got \o o
           b == u \o source
<1>1. got \in Strings /\ o \in Strings /\ u \in Strings /\ source \in Strings
  BY Reading
<1>2. ToSet(a \o b) \subseteq DOMAIN Kind
  BY DEF InInv, Accounts, Whole, Bytes
<1> HIDE DEF o, u
<1>3. /\ a \in Strings /\ b \in Strings
      /\ ToSet(a) = ToSet(got) \union ToSet(o) /\ ToSet(b) = ToSet(u) \union ToSet(source)
  BY <1>1, Closed2, JoinedElements DEF Strings
<1> HIDE DEF a, b
<1>4. ToSet(a \o b) = ToSet(a) \union ToSet(b)
  BY <1>3, JoinedElements DEF Strings
<1>5. /\ ToSet(o) = {o[i] : i \in 1..Len(o)} /\ ToSet(u) = {u[i] : i \in 1..Len(u)}
  BY <1>1, Elements DEF Strings
<1>6. QED
  BY <1>2, <1>3, <1>4, <1>5 DEF o, u

(* A step within a call moves bytes on, and keeps their order.             *)
LEMMA Moves ==
    ASSUME InInv, InTypes',
           Whole(got, call.out, Rest(rbuf, cursor), source)'
             = Whole(got, call.out, Rest(rbuf, cursor), source),
           lost' = lost, fault' = fault, call'.op # "none",
           CallRight(call', Rest(rbuf', cursor') \o source')
    PROVE  InInv'
<1>1. Accounts(Whole(got, call.out, Rest(rbuf, cursor), source), lost, fault)'
  BY DEF InInv, Accounts
<1>2. StopsRight'
  BY DEF StopsRight, Calling
<1>3. QED
  BY <1>1, <1>2 DEF InInv

(* A call returns with p and has lost q of the bytes.                      *)
LEMMA Returns ==
    ASSUME InInv, NEW p \in Strings, NEW q \in Strings, NEW e \in BOOLEAN, Return(p, q, e),
           source' \in Strings, rbuf' \in Strings, Len(rbuf') <= BufIn,
           cursor' \in 0..Len(rbuf'), fault' \in BOOLEAN,
           Accounts(Whole(got \o p, <<>>, Rest(rbuf', cursor'), source'), lost \union ToSet(q), fault'),
           StopsRight'
    PROVE  InInv'
<1>1. /\ call' = NoCall /\ got' = got \o p /\ lost' = lost \union ToSet(q)
      /\ last' = [op |-> call.op, set |-> call.set, taken |-> p, ended |-> e]
  BY DEF Return, ToSet, ToSet
<1>2. got \in Strings /\ call \in CallTypes
  BY Reading
<1>3. /\ call' \in CallTypes /\ call'.out = <<>> /\ call'.kept = 0 /\ call'.op = "none"
  <2>1. <<>> \in Strings
    BY Units DEF Strings
  <2>2. QED
    BY <1>1, <2>1 DEF NoCall, CallTypes, Ops
<1>4. got' \in Strings
  BY <1>1, <1>2, Closed2 DEF Strings
<1>5. last' \in LastTypes
  BY <1>1, <1>2 DEF CallTypes, LastTypes
<1>6. Accounts(Whole(got, call.out, Rest(rbuf, cursor), source), lost, fault)'
  BY <1>1, <1>3
<1>7. lost' \subseteq Bytes
  BY <1>6 DEF Accounts
<1>8. InTypes'
  BY <1>3, <1>4, <1>5, <1>7 DEF InTypes
<1>9. CallRight(call', Rest(rbuf', cursor') \o source')
  <2>1. Len(<<>>) = 0
    OBVIOUS
  <2>2. QED
    BY <1>1, <1>3, <2>1 DEF CallRight, Passed, Numeral, Matched
<1>10. QED
  BY <1>6, <1>8, <1>9 DEF InInv

(* A call that returns with the beginning of what it has collected loses   *)
(* the rest of it.                                                         *)
LEMMA ReturnsPart ==
    ASSUME InInv, NEW p \in Strings, NEW q \in Strings, call.out = p \o q,
           fault' \in BOOLEAN, fault' \/ (~ fault /\ q = <<>>),
           Rest(rbuf', cursor') \o source' = Rest(rbuf, cursor) \o source,
           Rest(rbuf', cursor') \in Strings, source' \in Strings
    PROVE  Accounts(Whole(got \o p, <<>>, Rest(rbuf', cursor'), source'), lost \union ToSet(q), fault')
<1> DEFINE u == Rest(rbuf, cursor)
           v == Rest(rbuf', cursor')
           a == got \o p
           c == u \o source
<1>1. got \in Strings /\ u \in Strings /\ source \in Strings /\ v \in Strings
  BY Reading
<1>2. Accounts(Whole(got, p \o q, u, source), lost, fault)
  BY DEF InInv
<1> HIDE DEF u, v
<1>3. a \in Strings /\ c \in Strings
  BY <1>1, Closed2 DEF Strings
<1>4. Whole(got, p \o q, u, source) = a \o (q \o c)
  <2>1. got \in Strings /\ p \in Strings /\ q \in Strings /\ u \in Strings /\ source \in Strings
    BY <1>1
  <2>2. got \o (p \o q) = a \o q
    <3>1. got \in Seq(Int) /\ p \in Seq(Int) /\ q \in Seq(Int)
      BY <2>1 DEF Strings
    <3>2. QED
      BY ONLY <3>1, Assoc, Zenon
  <2>3. (a \o q) \o c = a \o (q \o c)
    <3> HIDE DEF a, c
    <3>1. a \in Seq(Int) /\ q \in Seq(Int) /\ c \in Seq(Int)
      BY <1>3, <2>1 DEF Strings
    <3>2. QED
      BY ONLY <3>1, Assoc, Zenon
  <2>4. QED
    BY <2>2, <2>3 DEF Whole
<1>5. Whole(a, <<>>, v, source') = a \o c
  <2>1. a \o <<>> = a
    BY <1>3, Units DEF Strings
  <2>2. v \o source' = c
    BY DEF u, v
  <2>3. QED
    BY <2>1, <2>2 DEF Whole
<1> HIDE DEF a, c
<1>6. Accounts(a \o c, lost \union ToSet(q), fault')
  BY <1>2, <1>3, <1>4, AccountsWithout
<1>7. QED
  BY <1>5, <1>6 DEF a, v

LEMMA InStart == ReadInit => InInv
<1> SUFFICES ASSUME ReadInit PROVE InInv
  OBVIOUS
<1>1. /\ source = [i \in DOMAIN Kind |-> i] /\ rbuf = <<>> /\ cursor = 0
      /\ call = NoCall /\ got = <<>> /\ lost = {} /\ fault = FALSE /\ last = NoLast
  BY DEF ReadInit, Bytes
<1>2. /\ DOMAIN Kind = 1..Len(Kind) /\ Len(Kind) \in Nat
  BY StreamAssumption
<1>3. /\ source \in Strings /\ Len(source) = Len(Kind) /\ \A i \in 1..Len(Kind) : source[i] = i
      /\ ToSet(source) = 1..Len(Kind)
  <2>1. source \in [1..Len(Kind) -> Int] /\ DOMAIN source = 1..Len(Kind)
    BY <1>1, <1>2
  <2>2. QED
    BY <1>1, <1>2, <2>1 DEF ToSet, Strings
<1>4. <<>> \in Strings /\ Len(<<>>) = 0
  BY Units DEF Strings
<1>5. /\ call \in CallTypes /\ call.op = "none" /\ call.out = <<>> /\ call.kept = 0
      /\ last \in LastTypes /\ last.op = "none"
  BY <1>1, <1>4 DEF NoCall, NoLast, CallTypes, LastTypes, Ops
<1>6. InTypes
  <2>1. rbuf \in Strings /\ Len(rbuf) = 0 /\ cursor \in 0..Len(rbuf) /\ got \in Strings
    BY <1>1, <1>4
  <2>2. Len(rbuf) <= BufIn
    BY <2>1, StreamAssumption
  <2>3. lost \subseteq Bytes /\ fault \in BOOLEAN
    BY <1>1
  <2>4. QED
    BY <1>3, <1>5, <2>1, <2>2, <2>3 DEF InTypes
<1>7. Rest(rbuf, cursor) = <<>>
  <2>1. <<>> \in Seq(Int) /\ 0 \in 0..Len(<<>>)
    OBVIOUS
  <2>2. QED
    BY <1>1, <2>1, RestFacts
<1>8. Whole(got, call.out, Rest(rbuf, cursor), source) = source
  <2>1. <<>> \o source = source /\ <<>> \o <<>> = <<>>
    BY <1>3, <1>4, Units DEF Strings
  <2>2. got = <<>> /\ call.out = <<>>
    BY <1>1, <1>5
  <2>3. QED
    BY <1>7, <2>1, <2>2 DEF Whole
<1>9. Rises(source)
  BY <1>2, <1>3 DEF Rises
<1>10. Accounts(source, lost, fault)
  BY <1>1, <1>2, <1>3, <1>9 DEF Accounts, Bytes
<1>11. CallRight(call, Rest(rbuf, cursor) \o source)
  BY <1>1, <1>4, <1>5 DEF CallRight, Passed, Numeral, Matched
<1>12. StopsRight
  BY <1>5 DEF StopsRight
<1>13. QED
  BY <1>6, <1>8, <1>10, <1>11, <1>12 DEF InInv

(* A new call has collected nothing.                                       *)
LEMMA InBegin ==
    ASSUME InInv, Start
    PROVE  InInv'
<1>1. PICK op \in Ops \ {"none", "convert"}, set \in SUBSET Kinds, add \in BOOLEAN, want \in Nat :
        /\ Begin(op, set, add, want)
        /\ op = "num" => set = {"digit", "hex"}
        /\ op = "strstr" => want = 0
  <2>1. \A k \in ToSet(Kind) : {k} \in SUBSET Kinds
    BY StreamAssumption DEF ToSet
  <2>2. BufIn + 0 \in Nat /\ BufIn + 1 \in Nat
    BY StreamAssumption
  <2>3. {} \in SUBSET Kinds /\ {"digit", "hex"} \in SUBSET Kinds
    BY DEF Kinds
  <2>4. CASE \E n \in 1..Most : Read(n)
    <3>1. PICK n \in 1..Most : Read(n)
      BY <2>4
    <3>2. Begin("read", {}, FALSE, n)
      BY <3>1 DEF Read
    <3>3. "read" \in Ops \ {"none", "convert"} /\ n \in Nat
      BY DEF Ops
    <3>4. QED
      BY <2>3, <3>2, <3>3
  <2>5. CASE \E n \in {0, 1} : Slurp(n)
    <3>1. PICK n \in {0, 1} : Slurp(n)
      BY <2>5
    <3>2. Begin("slurp", {}, FALSE, BufIn + n) /\ "slurp" \in Ops \ {"none", "convert"}
      BY <3>1 DEF Slurp, Ops
    <3>3. BufIn + n \in Nat
      BY <2>2
    <3>4. QED
      BY <2>3, <3>2, <3>3
  <2>6. CASE \E k \in ToSet(Kind) : InpString({k})
    BY <2>1, <2>6 DEF InpString, Ops, CharCalls
  <2>7. CASE \E addch \in BOOLEAN : InpStrstr(addch)
    BY <2>3, <2>7 DEF InpStrstr, Ops
  <2>8. CASE \E op \in {"skip_anyof", "skip_to", "skip_next"}, k \in ToSet(Kind) : Skip(op, {k})
    <3>1. PICK op \in {"skip_anyof", "skip_to", "skip_next"}, k \in ToSet(Kind) : Skip(op, {k})
      BY <2>8
    <3>2. Begin(op, {k}, FALSE, 0) /\ op \in Ops \ {"none", "convert"} /\ op \notin {"num", "strstr"}
      BY <3>1 DEF Skip, Ops, CharCalls
    <3>3. QED
      BY <2>1, <3>1, <3>2
  <2>9. CASE InpLong
    BY <2>3, <2>9 DEF InpLong, Ops, CharCalls
  <2>10. QED
    BY <2>4, <2>5, <2>6, <2>7, <2>8, <2>9 DEF Start
<1>2. /\ call.op = "none" /\ call' = [NoCall EXCEPT !.op = op, !.set = set, !.add = add, !.want = want]
      /\ last' = NoLast /\ source' = source /\ rbuf' = rbuf /\ cursor' = cursor
      /\ got' = got /\ lost' = lost /\ fault' = fault
  BY <1>1 DEF Begin, Calling
<1>3. call' = [op |-> op, set |-> set, add |-> add, want |-> want, kept |-> 0, out |-> <<>>]
  BY <1>2 DEF NoCall
<1>4. call.out = <<>>
  BY <1>2 DEF InInv, CallRight, NoCall
<1>5. <<>> \in Strings /\ Len(<<>>) = 0
  BY Units DEF Strings
<1>6. InTypes'
  <2>1. call' \in CallTypes
    BY <1>3, <1>5 DEF CallTypes
  <2>2. last' \in LastTypes
    BY <1>2, <1>5 DEF LastTypes, NoLast, Ops
  <2>3. QED
    BY <1>2, <2>1, <2>2 DEF InInv, InTypes
<1>7. CallRight(call', Rest(rbuf', cursor') \o source')
  <2>1. call'.op # "none" /\ call'.op # "convert" /\ call'.kept <= Len(call'.out) /\ Len(call'.out) = 0
    BY <1>3, <1>5
  <2>2. Passed(call')
    BY <2>1 DEF Passed
  <2>3. Numeral(call', Rest(rbuf', cursor') \o source')
    BY <1>1, <1>3, <2>1, StreamAssumption DEF Numeral
  <2>4. Matched(call')
    BY <1>1, <1>3, <2>1, StreamAssumption DEF Matched
  <2>5. QED
    BY <2>1, <2>2, <2>3, <2>4 DEF CallRight
<1>8. Whole(got, call.out, Rest(rbuf, cursor), source)'
        = Whole(got, call.out, Rest(rbuf, cursor), source)
  <2>1. call'.out = call.out
    BY <1>3, <1>4
  <2>2. QED
    BY <1>2, <2>1
<1>9. call'.op # "none" /\ lost' = lost /\ fault' = fault
  BY <1>2, <1>3
<1>10. QED
  BY <1>6, <1>7, <1>8, <1>9, Moves

LEMMA WantsCalls == Wants => call.op # "none" /\ call.op # "convert"
  BY DEF Wants, CharCalls

(* The descriptor hands out a piece of the input.                          *)
LEMMA InFill ==
    ASSUME InInv, Fill
    PROVE  InInv'
<1>1. PICK n \in 1..BufIn :
        /\ n <= Len(source) /\ rbuf' = SubSeq(source, 1, n)
        /\ source' = SubSeq(source, n + 1, Len(source))
  BY DEF Fill
<1>2. /\ cursor' = 0 /\ cursor = Len(rbuf) /\ call' = call /\ got' = got /\ lost' = lost
      /\ fault' = fault /\ last' = last /\ call.op # "none"
  BY WantsCalls DEF Fill, rempty
<1>3. /\ source \in Strings /\ rbuf \in Strings /\ Len(source) \in Nat /\ BufIn \in Nat
      /\ cursor \in 0..Len(rbuf)
  BY Reading
<1>4. n \in 0..Len(source) /\ n <= BufIn
  BY <1>1, <1>3
<1>5. /\ rbuf' \in Strings /\ source' \in Strings /\ source = rbuf' \o source' /\ Len(rbuf') = n
  BY <1>1, <1>3, <1>4, CutInTwo, SMTT(30) DEF Strings
<1>6. Rest(rbuf, cursor) = <<>>
  BY <1>2, <1>3, RestFacts DEF Strings
<1>7. Rest(rbuf', cursor') = rbuf' /\ cursor' \in 0..Len(rbuf')
  <2>1. 0 \in 0..Len(rbuf')
    BY <1>4, <1>5
  <2>2. QED
    BY <1>2, <1>5, <2>1, RestFacts DEF Strings
<1>8. Rest(rbuf', cursor') \o source' = Rest(rbuf, cursor) \o source
  <2>1. <<>> \o source = source
    BY <1>3, Units DEF Strings
  <2>2. QED
    BY <1>5, <1>6, <1>7, <2>1
<1>9. InTypes'
  <2>1. InTypes
    BY DEF InInv
  <2>2. Len(rbuf') <= BufIn
    BY <1>4, <1>5
  <2>3. QED
    BY <1>2, <1>5, <1>7, <2>1, <2>2 DEF InTypes
<1>10. CallRight(call', Rest(rbuf', cursor') \o source')
  BY <1>2, <1>8 DEF InInv
<1>11. Whole(got, call.out, Rest(rbuf, cursor), source)'
         = Whole(got, call.out, Rest(rbuf, cursor), source)
  BY <1>2, <1>8 DEF Whole
<1>12. call'.op # "none" /\ lost' = lost /\ fault' = fault
  BY <1>2
<1>13. QED
  BY <1>9, <1>10, <1>11, <1>12, Moves

(* An input that ended or failed cuts the call short.                      *)
LEMMA InCutShort ==
    ASSUME InInv, NEW failed \in BOOLEAN, CutShort(failed), Wants,
           call.op = "strstr" /\ ~ call.add => Len(call.out) >= Len(EndStr),
           source' = source, rbuf' \in Strings, Len(rbuf') <= BufIn, cursor' \in 0..Len(rbuf'),
           Rest(rbuf', cursor') = Rest(rbuf, cursor)
    PROVE  InInv'
<1>1. PICK n : /\ n = (CASE call.op \in CharCalls \ {"num"} -> Len(call.out)
                         [] call.op = "strstr" /\ call.add -> Len(call.out)
                         [] call.op = "strstr" /\ ~ call.add -> Len(call.out) - Len(EndStr)
                         [] call.op = "slurp" /\ ~ failed -> call.kept
                         [] OTHER -> 0)
               /\ Return(SubSeq(call.out, 1, n), SubSeq(call.out, n + 1, Len(call.out)), TRUE)
  BY DEF CutShort
<1>2. fault' = TRUE
  BY DEF CutShort
<1>3. /\ call.out \in Strings /\ Len(call.out) \in Nat /\ Len(EndStr) \in Nat /\ call \in CallTypes
      /\ source \in Strings /\ Rest(rbuf, cursor) \in Strings
  BY Reading
<1>4. call.kept \in Nat /\ call.kept <= Len(call.out)
  BY <1>3 DEF InInv, CallRight, CallTypes
<1>5. n \in 0..Len(call.out)
  BY <1>1, <1>3, <1>4
<1> DEFINE p == SubSeq(call.out, 1, n)
           q == SubSeq(call.out, n + 1, Len(call.out))
<1>6. p \in Strings /\ q \in Strings /\ call.out = p \o q
  BY <1>3, <1>5, CutInTwo DEF Strings
<1>7. Return(p, q, TRUE)
  BY <1>1
<1> HIDE DEF p, q
<1>8. Accounts(Whole(got \o p, <<>>, Rest(rbuf', cursor'), source'), lost \union ToSet(q), fault')
  <2>1. /\ fault' \in BOOLEAN
        /\ fault' \/ (~ fault /\ q = <<>>)
        /\ Rest(rbuf', cursor') \o source' = Rest(rbuf, cursor) \o source
        /\ Rest(rbuf', cursor') \in Strings /\ source' \in Strings
    BY <1>2, <1>3
  <2>2. InInv
    OBVIOUS
  <2>3. QED
    BY ONLY <2>2, <1>6, <2>1, ReturnsPart
<1>9. StopsRight'
  BY <1>7 DEF StopsRight, Return
<1>10. source' \in Strings /\ fault' \in BOOLEAN /\ TRUE \in BOOLEAN
  BY <1>2, <1>3
<1>11. QED
  BY <1>6, <1>7, <1>8, <1>9, <1>10, Returns

LEMMA InFails ==
    ASSUME InInv, Fails
    PROVE  InInv'
<1>1. /\ Wants /\ CutShort(TRUE) /\ source' = source /\ rbuf' = rbuf /\ cursor' = cursor
      /\ call.op = "strstr" /\ ~ call.add => Len(call.out) >= Len(EndStr)
  BY DEF Fails
<1>2. rbuf' \in Strings /\ Len(rbuf') <= BufIn /\ cursor' \in 0..Len(rbuf')
  BY <1>1, Reading
<1>3. Rest(rbuf', cursor') = Rest(rbuf, cursor)
  BY <1>1
<1>4. QED
  BY <1>1, <1>2, <1>3, InCutShort

(* A number that ends is converted next.                                   *)
LEMMA InNumEnds ==
    ASSUME InInv, call.op = "num", call' = [call EXCEPT !.op = "convert"],
           UNCHANGED <<source, got, lost, fault, last>>,
           rbuf' \in Strings, Len(rbuf') <= BufIn, cursor' \in 0..Len(rbuf'),
           Rest(rbuf', cursor') \o source' = Rest(rbuf, cursor) \o source,
           \/ Len(call.out) = Digits
           \/ Rest(rbuf, cursor) \o source = <<>>
           \/ Kind[Head(Rest(rbuf, cursor) \o source)] \notin call.set
    PROVE  InInv'
<1>1. call \in CallTypes /\ CallRight(call, Rest(rbuf, cursor) \o source)
  BY Reading DEF InInv
<1>2. /\ call'.op = "convert" /\ call'.out = call.out /\ call'.set = call.set
      /\ call'.kept = call.kept /\ call' \in CallTypes
  BY <1>1 DEF CallTypes, Ops
<1>3. InTypes'
  <2>1. InTypes
    BY DEF InInv
  <2>2. QED
    BY <1>2, <2>1 DEF InTypes
<1>4. CallRight(call', Rest(rbuf', cursor') \o source')
  <2> DEFINE a == Rest(rbuf, cursor) \o source
  <2>1. Passed(call) /\ Numeral(call, a) /\ call.kept <= Len(call.out)
    BY <1>1 DEF CallRight
  <2>2. Len(call.out) = Digits \/ a = <<>> \/ Kind[Head(a)] \notin call.set
    OBVIOUS
  <2> HIDE DEF a
  <2>3. Passed(call')
    BY <1>2, <2>1 DEF Passed
  <2>4. Numeral(call', a)
    BY <1>2, <2>1, <2>2 DEF Numeral
  <2>5. Matched(call')
    BY <1>2 DEF Matched
  <2>6. CallRight(call', a)
    BY <1>2, <2>1, <2>3, <2>4, <2>5 DEF CallRight
  <2>7. QED
    BY <2>6 DEF a
<1>5. Whole(got, call.out, Rest(rbuf, cursor), source)'
        = Whole(got, call.out, Rest(rbuf, cursor), source)
  BY <1>2 DEF Whole
<1>6. call'.op # "none" /\ lost' = lost /\ fault' = fault
  BY <1>2
<1>7. QED
  BY <1>3, <1>4, <1>5, <1>6, Moves

LEMMA InEnd ==
    ASSUME InInv, End
    PROVE  InInv'
<1>1. /\ Wants /\ cursor = Len(rbuf) /\ source = <<>> /\ source' = source
      /\ call.op = "strstr" /\ ~ call.add => Len(call.out) >= Len(EndStr)
      /\ rbuf' = <<>> /\ cursor' = 0
  BY DEF End, rempty
<1>2. rbuf \in Strings /\ cursor \in 0..Len(rbuf) /\ BufIn \in Nat
  BY Reading
<1>3. /\ rbuf' \in Strings /\ Len(rbuf') = 0 /\ cursor' \in 0..Len(rbuf') /\ Len(rbuf') <= BufIn
  <2>1. <<>> \in Strings /\ Len(<<>>) = 0
    BY Units DEF Strings
  <2>2. QED
    BY <1>1, <1>2, <2>1
<1>4. Rest(rbuf, cursor) = <<>> /\ Rest(rbuf', cursor') = <<>>
  <2>1. Rest(rbuf, cursor) = <<>>
    BY <1>1, <1>2, RestFacts DEF Strings
  <2>2. QED
    BY <1>1, <1>3, <2>1, RestFacts DEF Strings
<1>5. CASE call.op = "num"
  <2>1. call' = [call EXCEPT !.op = "convert"] /\ UNCHANGED <<got, lost, fault, last>>
    BY <1>5 DEF End
  <2>2. Rest(rbuf, cursor) \o source = <<>> /\ Rest(rbuf', cursor') \o source' = <<>>
    BY <1>1, <1>4, Units
  <2>3. QED
    BY <1>1, <1>3, <1>5, <2>1, <2>2, InNumEnds
<1>6. CASE call.op # "num"
  <2>1. CutShort(FALSE)
    BY <1>6 DEF End
  <2>2. FALSE \in BOOLEAN /\ Rest(rbuf', cursor') = Rest(rbuf, cursor)
    BY <1>4
  <2>3. QED
    BY <1>1, <1>3, <2>1, <2>2, InCutShort
<1>7. QED
  BY <1>5, <1>6

(* A call collects the piece p of the buffer.                              *)
LEMMA InCollects ==
    ASSUME InInv, NEW p \in Strings,
           Rest(rbuf, cursor) = p \o Rest(rbuf', cursor'), Rest(rbuf', cursor') \in Strings,
           UNCHANGED <<source, rbuf, got, lost, fault, last>>, cursor' \in 0..Len(rbuf),
           call' \in CallTypes, call'.op # "none", call'.out = call.out \o p,
           CallRight(call', Rest(rbuf', cursor') \o source')
    PROVE  InInv'
<1> DEFINE v == Rest(rbuf', cursor')
<1>1. /\ got \in Strings /\ call.out \in Strings /\ v \in Strings /\ source \in Strings
      /\ p \in Strings
  BY Reading
<1>2. Whole(got, call.out, Rest(rbuf, cursor), source)'
        = Whole(got, call.out, Rest(rbuf, cursor), source)
  <2>1. Whole(got, call.out \o p, v, source) = Whole(got, call.out, p \o v, source)
    <3> HIDE DEF v
    <3>1. Whole(got, Glue(call.out, p), v, source) = Whole(got, call.out, Glue(p, v), source)
      BY ONLY <1>1, WholeLaws
    <3>2. QED
      BY ONLY <3>1 DEF Glue
  <2>2. Whole(got', call'.out, v, source') = Whole(got, call.out \o p, v, source)
    OBVIOUS
  <2>3. QED
    BY <2>1, <2>2
<1>3. InTypes'
  <2>1. InTypes
    BY DEF InInv
  <2>2. QED
    BY <2>1 DEF InTypes
<1>4. call'.op # "none" /\ lost' = lost /\ fault' = fault
  OBVIOUS
<1>5. QED
  BY <1>2, <1>3, <1>4, Moves

(* One turn of the loop of stream_read.                                    *)
LEMMA InCopy ==
    ASSUME InInv, CopyIn
    PROVE  InInv'
<1> DEFINE u == Rest(rbuf, cursor)
           n == IF call.want < Len(u) THEN call.want ELSE Len(u)
           p == SubSeq(u, 1, n)
<1>1. /\ call.op \in {"read", "slurp"} /\ Wants /\ cursor # Len(rbuf)
      /\ call' = [call EXCEPT !.out = @ \o p, !.want = @ - n]
      /\ cursor' = cursor + n /\ UNCHANGED <<source, rbuf, got, lost, fault, last>>
  BY Unread DEF CopyIn, rempty
<1>2. /\ call \in CallTypes /\ rbuf \in Strings /\ cursor \in 0..Len(rbuf) /\ call.out \in Strings
      /\ Len(rbuf) \in Nat
  BY Reading
<1>3. u \in Strings /\ Len(u) = Len(rbuf) - cursor
  BY <1>2, RestFacts DEF Strings
<1>4. call.want \in Nat /\ call.kept \in Nat /\ call.kept <= Len(call.out)
  BY <1>2 DEF CallTypes, InInv, CallRight
<1>5. n \in 0..(Len(rbuf) - cursor) /\ call.want - n \in Nat
  <2> HIDE DEF u
  <2>1. QED
    BY <1>2, <1>3, <1>4
<1>6. /\ p \in Strings /\ Len(p) = n /\ cursor + n \in 0..Len(rbuf)
      /\ Rest(rbuf, cursor + n) \in Strings /\ u = p \o Rest(rbuf, cursor + n)
  <2> HIDE DEF n
  <2>1. QED
    BY <1>2, <1>5, RestMoves DEF Strings
<1> HIDE DEF n, p, u
<1>7. call.out \o p \in Strings /\ Len(call.out \o p) = Len(call.out) + Len(p) /\ Len(p) \in Nat
      /\ Len(call.out) \in Nat
  <2>1. call.out \in Seq(Int) /\ p \in Seq(Int)
    BY <1>2, <1>6 DEF Strings
  <2>2. QED
    BY ONLY <2>1, Places DEF Strings
<1>8. /\ call'.op = call.op /\ call'.set = call.set /\ call'.kept = call.kept
      /\ call'.out = call.out \o p /\ call' \in CallTypes
  BY <1>1, <1>2, <1>5, <1>7 DEF CallTypes
<1>9. CallRight(call', Rest(rbuf', cursor') \o source')
  <2>1. call'.op \in {"read", "slurp"} /\ call'.kept <= Len(call'.out)
    BY <1>1, <1>4, <1>7, <1>8
  <2>2. QED
    BY <2>1 DEF CallRight, Passed, Numeral, Matched
<1>10. /\ Rest(rbuf, cursor) = p \o Rest(rbuf', cursor') /\ Rest(rbuf', cursor') \in Strings
       /\ cursor' \in 0..Len(rbuf) /\ call'.op # "none"
  BY <1>1, <1>6, <1>8 DEF u
<1>11. QED
  BY <1>1, <1>6, <1>8, <1>9, <1>10, InCollects

(* A slurp keeps what it has read in whole.                                *)
LEMMA InSlurpMore ==
    ASSUME InInv, SlurpMore
    PROVE  InInv'
<1>1. /\ call.op = "slurp" /\ call' = [call EXCEPT !.kept = Len(call.out), !.want = BufIn]
      /\ UNCHANGED <<source, rbuf, cursor, got, lost, fault, last>>
  BY DEF SlurpMore
<1>2. call \in CallTypes /\ Len(call.out) \in Nat /\ BufIn \in Nat
  BY Reading
<1>3. /\ call'.op = "slurp" /\ call'.kept = Len(call.out) /\ call'.out = call.out
      /\ call' \in CallTypes
  BY <1>1, <1>2 DEF CallTypes
<1>4. InTypes'
  <2>1. InTypes
    BY DEF InInv
  <2>2. QED
    BY <1>1, <1>3, <2>1 DEF InTypes
<1>5. CallRight(call', Rest(rbuf', cursor') \o source')
  BY <1>2, <1>3 DEF CallRight, Passed, Numeral, Matched
<1>6. Whole(got, call.out, Rest(rbuf, cursor), source)'
        = Whole(got, call.out, Rest(rbuf, cursor), source)
  BY <1>1, <1>3 DEF Whole, Rest
<1>7. call'.op # "none" /\ lost' = lost /\ fault' = fault
  BY <1>1, <1>3
<1>8. QED
  BY <1>4, <1>5, <1>6, <1>7, Moves

(* A call returns all it has collected.                                    *)
LEMMA InReturnsAll ==
    ASSUME InInv, Return(call.out, <<>>, FALSE),
           UNCHANGED <<source, fault>>,
           rbuf' \in Strings, Len(rbuf') <= BufIn, cursor' \in 0..Len(rbuf'),
           Rest(rbuf', cursor') = Rest(rbuf, cursor),
           StopsRight'
    PROVE  InInv'
<1>1. /\ call.out \in Strings /\ source \in Strings /\ Rest(rbuf, cursor) \in Strings
      /\ fault \in BOOLEAN
  BY Reading DEF InInv, InTypes
<1>2. <<>> \in Strings /\ call.out = call.out \o <<>> /\ ToSet(<<>>) = {}
  BY <1>1, Units DEF Strings, ToSet
<1>3. Accounts(Whole(got \o call.out, <<>>, Rest(rbuf', cursor'), source'),
               lost \union ToSet(<<>>), fault')
  <2>1. Whole(got \o call.out, <<>>, Rest(rbuf, cursor), source)
          = Whole(got, call.out, Rest(rbuf, cursor), source)
    <3>1. got \in Strings
      BY Reading
    <3>2. Whole(Glue(got, call.out), <<>>, Rest(rbuf, cursor), source)
            = Whole(got, call.out, Rest(rbuf, cursor), source)
      BY ONLY <1>1, <3>1, WholeLaws
    <3>3. QED
      BY ONLY <3>2 DEF Glue
  <2>2. Accounts(Whole(got, call.out, Rest(rbuf, cursor), source), lost, fault)
    BY DEF InInv
  <2>3. lost \union ToSet(<<>>) = lost
    BY <1>2
  <2>4. QED
    BY <2>1, <2>2, <2>3
<1>4. source' \in Strings /\ fault' \in BOOLEAN /\ FALSE \in BOOLEAN
  BY <1>1
<1>5. QED
  BY <1>1, <1>2, <1>3, <1>4, Returns

LEMMA InReadDone ==
    ASSUME InInv, ReadDone
    PROVE  InInv'
<1>1. /\ call.op = "read" /\ Return(call.out, <<>>, FALSE)
      /\ UNCHANGED <<source, rbuf, cursor, fault>>
  BY DEF ReadDone
<1>2. rbuf' \in Strings /\ Len(rbuf') <= BufIn /\ cursor' \in 0..Len(rbuf')
  BY <1>1, Reading
<1>3. Rest(rbuf', cursor') = Rest(rbuf, cursor)
  BY <1>1
<1>4. StopsRight'
  <2>1. last'.op = "read"
    BY <1>1 DEF Return
  <2>2. QED
    BY <2>1 DEF StopsRight
<1>5. QED
  BY <1>1, <1>2, <1>3, <1>4, InReturnsAll

LEMMA InNumFull ==
    ASSUME InInv, NumFull
    PROVE  InInv'
<1>1. /\ call.op = "num" /\ ~ Wants /\ call' = [call EXCEPT !.op = "convert"]
      /\ UNCHANGED <<source, rbuf, cursor, got, lost, fault, last>>
  BY DEF NumFull
<1>2. rbuf' \in Strings /\ Len(rbuf') <= BufIn /\ cursor' \in 0..Len(rbuf')
  BY <1>1, Reading
<1>3. Rest(rbuf', cursor') \o source' = Rest(rbuf, cursor) \o source
  BY <1>1
<1>4. Len(call.out) = Digits
  <2>1. Len(call.out) \in Nat /\ Digits \in Nat /\ Len(call.out) <= Digits
    BY <1>1, Reading DEF InInv, CallRight, Numeral
  <2>2. ~ (Len(call.out) < Digits)
    BY <1>1 DEF Wants
  <2>3. QED
    BY <2>1, <2>2
<1>5. QED
  BY <1>1, <1>2, <1>3, <1>4, InNumEnds

(* The next byte of the buffer, and what a call holds when it takes it.    *)
LEMMA NextByte ==
    ASSUME InInv, cursor # Len(rbuf)
    PROVE  /\ <<ch>> \in Strings /\ ch \in Int
           /\ cursor + 1 \in 0..Len(rbuf) /\ Rest(rbuf, cursor + 1) \in Strings
           /\ Rest(rbuf, cursor) = <<ch>> \o Rest(rbuf, cursor + 1)
           /\ Tail(Rest(rbuf, cursor)) = Rest(rbuf, cursor + 1)
           /\ Append(call.out, ch) = call.out \o <<ch>>
           /\ Append(call.out, ch) \in Strings
           /\ Len(Append(call.out, ch)) = Len(call.out) + 1
           /\ \A i \in 1..Len(call.out) : Append(call.out, ch)[i] = call.out[i]
           /\ Append(call.out, ch)[Len(call.out) + 1] = ch
<1>1. rbuf \in Seq(Int) /\ cursor \in 0..Len(rbuf) /\ call.out \in Seq(Int)
  BY Reading DEF Strings
<1>2. /\ ch \in Int /\ cursor + 1 \in 0..Len(rbuf)
      /\ Rest(rbuf, cursor) = <<ch>> \o Rest(rbuf, cursor + 1)
      /\ Tail(Rest(rbuf, cursor)) = Rest(rbuf, cursor + 1)
      /\ <<ch>> \in Seq(Int) /\ Rest(rbuf, cursor + 1) \in Seq(Int)
  BY <1>1, RestHead DEF ch
<1>3. /\ Append(call.out, ch) \in Seq(Int)
      /\ Len(Append(call.out, ch)) = Len(call.out) + 1
      /\ \A i \in 1..Len(call.out) : Append(call.out, ch)[i] = call.out[i]
      /\ Append(call.out, ch)[Len(call.out) + 1] = ch
  BY ONLY <1>1, <1>2, AppendProperties
<1>4. Append(call.out, ch) = call.out \o <<ch>>
  BY ONLY <1>1, <1>2, AppendIsConcat
<1>5. QED
  BY <1>2, <1>3, <1>4 DEF Strings

(* The call goes on with the byte.                                         *)
LEMMA InChar ==
    ASSUME InInv, Char
    PROVE  InInv'
<1> DEFINE o == Append(call.out, ch)
           v == Rest(rbuf, cursor + 1)
<1>1. /\ call.op \in CharCalls /\ Wants /\ cursor # Len(rbuf) /\ GoesOn
      /\ call' = [call EXCEPT !.out = o] /\ cursor' = cursor + 1
      /\ UNCHANGED <<source, rbuf, got, lost, fault, last>>
  BY DEF Char, rempty
<1>2. /\ <<ch>> \in Strings /\ cursor + 1 \in 0..Len(rbuf) /\ v \in Strings
      /\ Rest(rbuf, cursor) = <<ch>> \o v /\ o = call.out \o <<ch>> /\ o \in Strings
      /\ Len(o) = Len(call.out) + 1
      /\ \A i \in 1..Len(call.out) : o[i] = call.out[i]
      /\ o[Len(call.out) + 1] = ch
  BY <1>1, NextByte
<1>3. call \in CallTypes /\ Len(call.out) \in Nat /\ Digits \in Nat /\ call.kept \in Nat
  BY Reading DEF CallTypes
<1> HIDE DEF o, v
<1>4. /\ call'.op = call.op /\ call'.set = call.set /\ call'.out = o /\ call'.kept = call.kept
      /\ call' \in CallTypes
  BY <1>1, <1>2, <1>3 DEF CallTypes
<1>5. Passed(call) /\ Numeral(call, Rest(rbuf, cursor) \o source) /\ call.kept <= Len(call.out)
  BY DEF InInv, CallRight
<1>6. \A i \in 1..Len(o) : i \in 1..Len(call.out) \/ i = Len(call.out) + 1
  BY <1>2, <1>3
<1>7. call.op \in {"string", "skip_anyof", "skip_to", "skip_next", "num"}
  BY <1>1 DEF CharCalls
<1>8. Passed(call')
  <2>1. call.op \in {"skip_anyof", "num"} => Kind[ch] \in call.set
    BY <1>1 DEF GoesOn
  <2>2. call.op \in {"string", "skip_to", "skip_next"} => Kind[ch] \notin call.set
    BY <1>1 DEF GoesOn
  <2>3. ASSUME call.op \in {"skip_anyof", "num"}, NEW i \in 1..Len(o)
        PROVE  Kind[o[i]] \in call.set
    BY <1>2, <1>5, <1>6, <2>1, <2>3 DEF Passed
  <2>4. ASSUME call.op \in {"string", "skip_to", "skip_next"}, NEW i \in 1..Len(o)
        PROVE  Kind[o[i]] \notin call.set
    BY <1>2, <1>5, <1>6, <2>2, <2>4 DEF Passed
  <2>5. QED
    BY <1>4, <1>7, <2>3, <2>4 DEF Passed
<1>9. Numeral(call', Rest(rbuf', cursor') \o source')
  <2>1. call.op = "num" => Len(call.out) < Digits
    BY <1>1 DEF Wants
  <2>2. QED
    BY <1>2, <1>3, <1>4, <1>5, <1>7, <2>1 DEF Numeral
<1>10. CallRight(call', Rest(rbuf', cursor') \o source')
  <2>1. Matched(call') /\ call'.op # "none"
    BY <1>4, <1>7 DEF Matched
  <2>2. call'.kept <= Len(call'.out)
    BY <1>2, <1>3, <1>4, <1>5
  <2>3. QED
    BY <1>8, <1>9, <2>1, <2>2 DEF CallRight
<1>11. /\ Rest(rbuf, cursor) = <<ch>> \o Rest(rbuf', cursor') /\ Rest(rbuf', cursor') \in Strings
       /\ cursor' \in 0..Len(rbuf) /\ call'.op # "none" /\ call'.out = call.out \o <<ch>>
  BY <1>1, <1>2, <1>4, <1>7 DEF v
<1>12. QED
  BY <1>1, <1>2, <1>4, <1>10, <1>11, InCollects

(* One turn of the loop of stream_inp_strstr.                              *)
LEMMA InStrstrChar ==
    ASSUME InInv, StrstrChar
    PROVE  InInv'
<1> DEFINE o == Append(call.out, ch)
           v == Rest(rbuf, cursor + 1)
           w == IF EndStr[call.want + 1] = Kind[ch] THEN call.want + 1 ELSE 0
<1>1. /\ call.op = "strstr" /\ Wants /\ cursor # Len(rbuf)
      /\ call' = [call EXCEPT !.out = o, !.want = w] /\ cursor' = cursor + 1
      /\ UNCHANGED <<source, rbuf, got, lost, fault, last>>
  BY DEF StrstrChar, rempty
<1>2. /\ <<ch>> \in Strings /\ cursor + 1 \in 0..Len(rbuf) /\ v \in Strings
      /\ Rest(rbuf, cursor) = <<ch>> \o v /\ o = call.out \o <<ch>> /\ o \in Strings
      /\ Len(o) = Len(call.out) + 1
      /\ \A i \in 1..Len(call.out) : o[i] = call.out[i]
      /\ o[Len(call.out) + 1] = ch
  BY <1>1, NextByte
<1>3. /\ call \in CallTypes /\ Len(call.out) \in Nat /\ Len(EndStr) \in Nat /\ call.kept \in Nat
      /\ call.want \in Nat
  BY Reading DEF CallTypes
<1>4. w \in Nat /\ (w = 0 \/ (w = call.want + 1 /\ EndStr[call.want + 1] = Kind[ch]))
  BY <1>3
<1> HIDE DEF o, v, w
<1>5. /\ call'.op = "strstr" /\ call'.out = o /\ call'.kept = call.kept /\ call'.want = w
      /\ call' \in CallTypes
  BY <1>1, <1>2, <1>3, <1>4 DEF CallTypes
<1>6. /\ call.want <= Len(call.out) /\ call.want < Len(EndStr) /\ call.kept <= Len(call.out)
      /\ \A i \in 1..call.want : Kind[call.out[Len(call.out) - call.want + i]] = EndStr[i]
  BY <1>1 DEF InInv, CallRight, Matched, Wants
<1>7. Matched(call')
  <2>1. w <= Len(EndStr) /\ w <= Len(o)
    BY <1>2, <1>3, <1>4, <1>6, SMTT(30)
  <2>2. ASSUME NEW i \in 1..w PROVE Kind[o[Len(o) - w + i]] = EndStr[i]
    <3>1. w = call.want + 1 /\ EndStr[call.want + 1] = Kind[ch]
      BY <1>4, <2>2
    <3>2. Len(o) - w + i = Len(call.out) - call.want + i
      <4>1. i \in Nat /\ Len(o) = Len(call.out) + 1
        BY <1>2, <1>4
      <4>2. \A a, b, c \in Nat : (a + 1) - (b + 1) + c = a - b + c
        OBVIOUS
      <4>3. Len(o) - w + i = (Len(call.out) + 1) - (call.want + 1) + i
        BY <3>1, <4>1
      <4>4. QED
        BY ONLY <1>3, <4>1, <4>2, <4>3, SMTT(30)
    <3>3. CASE i = w
      <4>1. Len(call.out) - call.want + i = Len(call.out) + 1
        BY <1>3, <3>1, <3>3
      <4>2. QED
        BY <1>2, <3>1, <3>2, <3>3, <4>1, ZenonT(60)
    <3>4. CASE i # w
      <4>1. i \in 1..call.want /\ Len(call.out) - call.want + i \in 1..Len(call.out)
        BY ONLY <1>3, <1>6, <3>1, <3>4, SMTT(30)
      <4>2. QED
        BY <1>2, <1>6, <3>2, <4>1, SMTT(30)
    <3>5. QED
      BY <3>3, <3>4
  <2>3. QED
    BY <1>5, <2>1, <2>2 DEF Matched
<1>8. CallRight(call', Rest(rbuf', cursor') \o source')
  <2>1. Passed(call') /\ Numeral(call', Rest(rbuf', cursor') \o source') /\ call'.op # "none"
    BY <1>5 DEF Passed, Numeral
  <2>2. call'.kept <= Len(call'.out)
    BY <1>2, <1>3, <1>5, <1>6
  <2>3. QED
    BY <1>7, <2>1, <2>2 DEF CallRight
<1>9. /\ Rest(rbuf, cursor) = <<ch>> \o Rest(rbuf', cursor') /\ Rest(rbuf', cursor') \in Strings
      /\ cursor' \in 0..Len(rbuf) /\ call'.op # "none" /\ call'.out = call.out \o <<ch>>
  BY <1>1, <1>2, <1>5 DEF v
<1>10. QED
  BY <1>1, <1>2, <1>5, <1>8, <1>9, InCollects

(* A string that was searched for its end ends in it.                      *)
LEMMA EndsWith ==
    ASSUME NEW s \in Seq(Kinds), NEW t \in Seq(Kinds), Len(s) <= Len(t),
           \A i \in 1..Len(s) : t[Len(t) - Len(s) + i] = s[i]
    PROVE  IsSuffix(s, t)
<1> DEFINE x == Reverse(s)
           y == Reverse(t)
<1>1. Len(s) \in Nat /\ Len(t) \in Nat
  OBVIOUS
<1>2. x \in Seq(Kinds) /\ Len(x) = Len(s) /\ \A i \in 1..Len(s) : x[i] = s[(Len(s) - i) + 1]
  <2>1. \A i \in 1..Len(s) : (Len(s) - i) + 1 \in 1..Len(s)
    BY <1>1
  <2>2. QED
    BY <1>1, <2>1 DEF Reverse
<1>3. y \in Seq(Kinds) /\ Len(y) = Len(t) /\ \A i \in 1..Len(t) : y[i] = t[(Len(t) - i) + 1]
  <2>1. \A i \in 1..Len(t) : (Len(t) - i) + 1 \in 1..Len(t)
    BY <1>1
  <2>2. QED
    BY <1>1, <2>1 DEF Reverse
<1> HIDE DEF x, y
<1>4. ASSUME NEW i \in 1..Len(s) PROVE x[i] = y[i]
  <2>1. /\ (Len(s) - i) + 1 \in 1..Len(s) /\ i \in 1..Len(t)
        /\ (Len(t) - i) + 1 = Len(t) - Len(s) + ((Len(s) - i) + 1)
    BY <1>1
  <2>2. QED
    BY <1>2, <1>3, <2>1
<1>5. SubSeq(x, 1, Len(x)) = SubSeq(y, 1, Len(x))
  <2>1. Len(x) \in 0..Len(x) /\ Len(x) \in 0..Len(y)
    BY <1>1, <1>2, <1>3
  <2>2. /\ SubSeq(x, 1, Len(x)) \in Seq(Kinds) /\ Len(SubSeq(x, 1, Len(x))) = Len(x)
        /\ \A i \in 1..Len(x) : SubSeq(x, 1, Len(x))[i] = x[i]
    BY <1>2, <2>1, CutInTwo
  <2>3. /\ SubSeq(y, 1, Len(x)) \in Seq(Kinds) /\ Len(SubSeq(y, 1, Len(x))) = Len(x)
        /\ \A i \in 1..Len(x) : SubSeq(y, 1, Len(x))[i] = y[i]
    BY <1>3, <2>1, CutInTwo
  <2>4. \A i \in 1..Len(SubSeq(x, 1, Len(x))) : SubSeq(x, 1, Len(x))[i] = SubSeq(y, 1, Len(x))[i]
    BY <1>2, <1>4, <2>2, <2>3
  <2>5. QED
    BY <2>2, <2>3, <2>4, SeqEqual
<1>6. QED
  BY <1>2, <1>3, <1>5 DEF IsSuffix, IsPrefix, x, y

LEMMA InStrstrDone ==
    ASSUME InInv, StrstrDone
    PROVE  InInv'
<1>1. /\ call.op = "strstr" /\ ~ Wants /\ Return(call.out, <<>>, FALSE)
      /\ UNCHANGED <<source, rbuf, cursor, fault>>
  BY DEF StrstrDone
<1>2. rbuf' \in Strings /\ Len(rbuf') <= BufIn /\ cursor' \in 0..Len(rbuf')
  BY <1>1, Reading
<1>3. Rest(rbuf', cursor') = Rest(rbuf, cursor)
  BY <1>1
<1>4. StopsRight'
  <2> DEFINE t == [i \in DOMAIN call.out |-> Kind[call.out[i]]]
  <2>1. /\ call.out \in Strings /\ Len(call.out) \in Nat /\ EndStr \in Seq(Kinds)
        /\ Len(EndStr) \in Nat /\ call.want \in Nat /\ \A b \in DOMAIN Kind : Kind[b] \in Kinds
    BY Reading DEF CallTypes
  <2>2. /\ call.want = Len(EndStr) /\ call.want <= Len(call.out)
        /\ \A i \in 1..call.want : Kind[call.out[Len(call.out) - call.want + i]] = EndStr[i]
    BY <1>1, <2>1 DEF InInv, CallRight, Matched, Wants
  <2>3. DOMAIN call.out = 1..Len(call.out) /\ \A i \in 1..Len(call.out) : call.out[i] \in DOMAIN Kind
    BY <2>1, ReadingKinds DEF Strings
  <2>4. t \in Seq(Kinds) /\ Len(t) = Len(call.out) /\ \A i \in 1..Len(call.out) : t[i] = Kind[call.out[i]]
    BY <2>1, <2>3
  <2> HIDE DEF t
  <2>5. ASSUME NEW i \in 1..Len(EndStr) PROVE t[Len(t) - Len(EndStr) + i] = EndStr[i]
    <3>1. Len(call.out) - call.want + i \in 1..Len(call.out)
      BY <2>1, <2>2
    <3>2. QED
      BY <2>2, <2>4, <3>1
  <2>6. IsSuffix(EndStr, t)
    BY <2>1, <2>2, <2>4, <2>5, EndsWith
  <2>7. last'.op = "strstr" /\ last'.taken = call.out
    BY <1>1 DEF Return
  <2>8. IsSuffix(EndStr, [i \in DOMAIN last'.taken |-> Kind[last'.taken[i]]])
    BY <2>6, <2>7 DEF t
  <2>9. QED
    BY <2>7, <2>8 DEF StopsRight
<1>5. QED
  BY <1>1, <1>2, <1>3, <1>4, InReturnsAll

(* The call stops at the byte: behind it, or before it.                    *)
LEMMA Heads ==
    ASSUME NEW b \in Int, NEW s \in Strings
    PROVE  <<b>> \o s # <<>> /\ Head(<<b>> \o s) = b
<1>1. <<b>> \in Seq(Int) /\ s \in Seq(Int) /\ Len(<<b>>) = 1 /\ <<b>>[1] = b
  BY DEF Strings
<1> DEFINE c == <<b>>
<1>2. c \in Seq(Int) /\ s \in Seq(Int) /\ Len(c) = 1 /\ c[1] = b
  BY <1>1
<1> HIDE DEF c
<1>3. c \o s \in Seq(Int) /\ Len(c \o s) = 1 + Len(s) /\ Len(s) \in Nat /\ (c \o s)[1] = c[1]
  <2>1. /\ c \o s \in Seq(Int) /\ Len(c \o s) = Len(c) + Len(s) /\ Len(s) \in Nat
        /\ \A i \in 1..Len(c) : (c \o s)[i] = c[i]
    <3>1. c \in Seq(Int) /\ s \in Seq(Int)
      BY <1>2
    <3>2. QED
      BY ONLY <3>1, Places
  <2>2. 1 \in 1..Len(c)
    BY <1>2
  <2>3. QED
    BY <1>2, <2>1, <2>2
<1> DEFINE d == c \o s
<1>4. d \in Seq(Int) /\ Len(d) = 1 + Len(s) /\ Len(s) \in Nat /\ d[1] = b
  BY <1>2, <1>3
<1> HIDE DEF d
<1>5. d # <<>> /\ Head(d) = b
  BY <1>4
<1>6. QED
  BY <1>5 DEF d, c

LEMMA InLastChar ==
    ASSUME InInv, LastChar
    PROVE  InInv'
<1> DEFINE o == Append(call.out, ch)
           v == Rest(rbuf, cursor + 1)
<1>1. /\ call.op \in CharCalls /\ Wants /\ cursor # Len(rbuf) /\ ~ GoesOn
      /\ UNCHANGED <<source, fault>>
  BY DEF LastChar, rempty
<1>2. /\ <<ch>> \in Strings /\ ch \in Int /\ cursor + 1 \in 0..Len(rbuf) /\ v \in Strings
      /\ Rest(rbuf, cursor) = <<ch>> \o v /\ Tail(Rest(rbuf, cursor)) = v
      /\ o = call.out \o <<ch>> /\ o \in Strings
      /\ Len(o) = Len(call.out) + 1
      /\ \A i \in 1..Len(call.out) : o[i] = call.out[i]
      /\ o[Len(call.out) + 1] = ch
  BY <1>1, NextByte
<1>3. /\ call \in CallTypes /\ Len(call.out) \in Nat /\ call.out \in Strings /\ got \in Strings
      /\ source \in Strings /\ rbuf \in Strings /\ Len(rbuf) <= BufIn /\ fault \in BOOLEAN
      /\ Rest(rbuf, cursor) \in Strings /\ cursor \in 0..Len(rbuf) /\ Len(rbuf) \in Nat
  BY Reading DEF InInv, InTypes
<1>4. Passed(call)
  BY DEF InInv, CallRight
<1>5. call.op \in {"string", "skip_anyof", "skip_to", "skip_next", "num"}
  BY <1>1 DEF CharCalls
<1>6. CASE call.op \in {"string", "skip_next"}
  <2>1. Return(o, <<>>, FALSE) /\ cursor' = cursor + 1 /\ rbuf' = rbuf
    BY <1>6 DEF LastChar
  <2>2. Kind[ch] \in call.set
    BY <1>1, <1>6 DEF GoesOn
  <2>3. Rest(rbuf', cursor') = v
    BY <2>1
  <2> HIDE DEF o, v
  <2>4. Accounts(Whole(got \o o, <<>>, Rest(rbuf', cursor'), source'),
                 lost \union ToSet(<<>>), fault')
    <3>1. Whole(got \o o, <<>>, v, source) = Whole(got, o, v, source)
      <4>1. Whole(Glue(got, o), <<>>, v, source) = Whole(got, o, v, source)
        BY ONLY <1>2, <1>3, WholeLaws
      <4>2. QED
        BY ONLY <4>1 DEF Glue
    <3>2. Whole(got, call.out \o <<ch>>, v, source)
            = Whole(got, call.out, <<ch>> \o v, source)
      <4> DEFINE c == <<ch>>
      <4>1. /\ got \in Strings /\ call.out \in Strings /\ c \in Strings /\ v \in Strings
            /\ source \in Strings
        BY <1>2, <1>3
      <4> HIDE DEF c
      <4>2. Whole(got, Glue(call.out, c), v, source) = Whole(got, call.out, Glue(c, v), source)
        BY ONLY <4>1, WholeLaws
      <4>3. QED
        BY ONLY <4>2 DEF Glue, c
    <3>3. Accounts(Whole(got, call.out, Rest(rbuf, cursor), source), lost, fault)
      BY DEF InInv
    <3>4. lost \union ToSet(<<>>) = lost
      BY DEF ToSet
    <3>5. Whole(got \o o, <<>>, v, source) = Whole(got, call.out, Rest(rbuf, cursor), source)
      BY <1>2, <3>1, <3>2
    <3>6. QED
      BY <1>1, <2>3, <3>3, <3>4, <3>5
  <2>5. StopsRight'
    <3>1. last'.op = call.op /\ last'.set = call.set /\ last'.taken = o
      BY <2>1 DEF Return
    <3>2. DOMAIN o = 1..Len(o) /\ 1..Len(o) = 1..Len(call.out) \union {Len(o)}
      <4>1. DOMAIN o = 1..Len(o)
        BY <1>2 DEF Strings
      <4>2. \A n \in Nat : 1..(n + 1) = 1..n \union {n + 1}
        OBVIOUS
      <4>3. QED
        BY <1>2, <1>3, <4>1, <4>2
    <3>3. \A i \in 1..Len(call.out) : Kind[o[i]] \notin call.set
      BY <1>2, <1>4, <1>6 DEF Passed
    <3>4. Kind[o[Len(o)]] \in call.set /\ Len(o) \in 1..Len(o)
      BY <1>2, <1>3, <2>2
    <3>5. {i \in DOMAIN o : Kind[o[i]] \in call.set} = {Len(o)}
      BY <3>2, <3>3, <3>4
    <3>6. {i \in DOMAIN last'.taken : Kind[last'.taken[i]] \in last'.set} = {Len(last'.taken)}
      BY <3>1, <3>5
    <3>7. QED
      BY <1>6, <3>1, <3>6 DEF StopsRight
  <2>6. /\ <<>> \in Strings /\ source' \in Strings /\ rbuf' \in Strings /\ Len(rbuf') <= BufIn
        /\ cursor' \in 0..Len(rbuf') /\ fault' \in BOOLEAN /\ FALSE \in BOOLEAN
    BY <1>1, <1>2, <1>3, <2>1, Units DEF Strings
  <2>7. QED
    BY <1>2, <2>1, <2>4, <2>5, <2>6, Returns
<1>7. CASE call.op \in {"skip_anyof", "skip_to", "num"}
  <2>1. /\ rbuf' = Rest(rbuf, cursor) /\ cursor' = 0
    <3>1. Rollback(<<ch>>, Tail(ravailable))
      BY <1>7 DEF LastChar
    <3>2. QED
      BY <1>2, <3>1, Unread DEF Rollback
  <2>2. /\ rbuf' \in Strings /\ Len(rbuf') <= BufIn /\ cursor' \in 0..Len(rbuf')
        /\ Rest(rbuf', cursor') = Rest(rbuf, cursor)
    <3>1. Len(rbuf') = Len(rbuf) - cursor /\ rbuf' \in Strings
      BY <1>3, <2>1, RestFacts DEF Strings
    <3>2. Len(rbuf') <= BufIn /\ cursor' \in 0..Len(rbuf')
      <4>1. BufIn \in Nat /\ cursor \in Nat /\ Len(rbuf) - cursor \in Nat
        BY <1>3, StreamAssumption
      <4>2. QED
        BY <1>3, <2>1, <3>1, <4>1
    <3>3. Rest(rbuf', cursor') = rbuf'
      BY <2>1, <3>1, <3>2, RestFacts DEF Strings
    <3>4. QED
      BY <2>1, <3>1, <3>2, <3>3
  <2>3. Rest(rbuf, cursor) \o source # <<>> /\ Head(Rest(rbuf, cursor) \o source) = ch
    <3> HIDE DEF v
    <3>1. Rest(rbuf, cursor) \o source = <<ch>> \o (v \o source)
      <4> DEFINE c == <<ch>>
      <4>1. c \in Strings
        BY <1>2
      <4> HIDE DEF c
      <4>2. Glue(Glue(c, v), source) = Glue(c, Glue(v, source))
        BY ONLY <1>2, <1>3, <4>1, Gluing
      <4>3. (c \o v) \o source = c \o (v \o source)
        BY ONLY <4>2 DEF Glue
      <4>4. QED
        BY <1>2, <4>3 DEF c
    <3>2. v \o source \in Strings
      BY <1>2, <1>3, Closed2 DEF Strings
    <3>3. QED
      BY <1>2, <3>1, <3>2, Heads
  <2>4. CASE call.op = "num"
    <3>1. /\ call' = [call EXCEPT !.op = "convert"] /\ UNCHANGED <<source, got, lost, fault, last>>
      BY <1>1, <2>4 DEF LastChar
    <3>2. Kind[Head(Rest(rbuf, cursor) \o source)] \notin call.set
      BY <1>1, <2>3, <2>4 DEF GoesOn
    <3>3. Rest(rbuf', cursor') \o source' = Rest(rbuf, cursor) \o source
      BY <1>1, <2>2
    <3>4. QED
      BY <2>2, <2>4, <3>1, <3>2, <3>3, InNumEnds
  <2>5. CASE call.op # "num"
    <3>1. Return(call.out, <<>>, FALSE)
      BY <1>7, <2>5 DEF LastChar
    <3>2. StopsRight'
      <4>1. last'.op = call.op /\ last'.set = call.set /\ last'.taken = call.out
        BY <3>1 DEF Return
      <4>2. Ahead' = Rest(rbuf, cursor) \o source
        BY <1>1, <2>2, Unread DEF Ahead
      <4>3. Kind[Head(Ahead')] = Kind[ch]
        BY <2>3, <4>2
      <4>4. ToSet(call.out) = {call.out[i] : i \in 1..Len(call.out)}
        BY <1>3 DEF Strings, ToSet
      <4>5. call.op = "skip_anyof" =>
              Kind[ch] \notin call.set /\ \A b \in ToSet(call.out) : Kind[b] \in call.set
        BY <1>1, <1>4, <4>4 DEF GoesOn, Passed
      <4>6. call.op = "skip_to" =>
              Kind[ch] \in call.set /\ \A b \in ToSet(call.out) : Kind[b] \notin call.set
        BY <1>1, <1>4, <4>4 DEF GoesOn, Passed
      <4>7. call.op \in {"skip_anyof", "skip_to"}
        BY <1>7, <2>5
      <4>8. QED
        BY <4>1, <4>3, <4>5, <4>6, <4>7 DEF StopsRight
    <3>3. QED
      BY <1>1, <2>2, <3>1, <3>2, InReturnsAll
  <2>6. QED
    BY <2>4, <2>5
<1>8. QED
  BY <1>5, <1>6, <1>7

(* A set of natural numbers has a least element.                           *)
LEMMA Least ==
    ASSUME NEW S \in SUBSET Nat, S # {}
    PROVE  \E m \in S : \A n \in S : ~ (n < m)
<1> DEFINE R == OpToRel(<, Nat)
<1>1. IsWellFoundedOn(R, Nat)
  BY NatLessThanWellFounded
<1>2. \A m, n \in S : n < m => <<n, m>> \in R
  BY DEF OpToRel
<1> HIDE DEF R
<1>3. PICK m \in S : \A n \in S : <<n, m>> \notin R
  BY <1>1, WFMin
<1> QED
  BY <1>2, <1>3

LEMMA LeastIn ==
    ASSUME NEW S \in SUBSET Nat, S # {}
    PROVE  Min(S) \in S
<1>1. PICK m \in S : \A n \in S : m <= n
  <2>1. PICK m \in S : \A n \in S : ~ (n < m)
    BY Least
  <2>2. \A n \in S : m <= n
    BY <2>1
  <2>3. QED
    BY <2>2
<1>2. QED
  BY <1>1 DEF Min

(* strtol takes bytes up to the end or to one that is no digit.            *)
Other(b) == b = 0 \/ Kind[b] # "digit"
LEMMA Digit ==
    ASSUME NEW o \in Strings, \A i \in 1..Len(o) : o[i] \in DOMAIN Kind
    PROVE  LET n == SelectInSeq(Append(o, 0), Other) - 1
           IN  /\ n \in 0..Len(o)
               /\ n < Len(o) => Kind[o[n + 1]] # "digit"
<1> DEFINE z == Append(o, 0)
           I == {i \in 1..Len(z) : Other(z[i])}
<1>1. /\ z \in Seq(Int) /\ Len(z) = Len(o) + 1 /\ Len(o) \in Nat
      /\ \A i \in 1..Len(o) : z[i] = o[i]
      /\ z[Len(o) + 1] = 0
  <2>1. o \in Seq(Int) /\ 0 \in Int /\ Len(o) \in Nat
    BY DEF Strings
  <2>2. QED
    BY ONLY <2>1, AppendProperties
<1> HIDE DEF z
<1>2. Len(o) + 1 \in I /\ I \in SUBSET Nat
  <2>1. Len(o) + 1 \in 1..Len(z) /\ Other(z[Len(o) + 1])
    BY <1>1 DEF Other
  <2>2. QED
    BY <1>1, <2>1
<1> DEFINE m == Min(I)
<1>3. m \in I
  <2> HIDE DEF I
  <2>1. QED
    BY <1>2, LeastIn
<1>4. SelectInSeq(z, Other) = m
  BY <1>2 DEF SelectInSeq
<1> HIDE DEF m
<1>5. m \in 1..(Len(o) + 1) /\ Other(z[m])
  BY <1>1, <1>3
<1>6. m - 1 \in 0..Len(o) /\ (m - 1 < Len(o) => m \in 1..Len(o) /\ (m - 1) + 1 = m)
  BY <1>1, <1>5
<1>7. m - 1 < Len(o) => Kind[o[(m - 1) + 1]] # "digit"
  <2>1. \A b \in DOMAIN Kind : b # 0
    BY StreamAssumption
  <2>2. QED
    BY <1>1, <1>5, <1>6, <2>1 DEF Other
<1>8. QED
  BY <1>4, <1>6, <1>7 DEF z

(* A number is converted, and what is no digit of it is given back.        *)
LEMMA InConvert ==
    ASSUME InInv, Convert
    PROVE  InInv'
<1> DEFINE n == SelectInSeq(Append(call.out, 0), Other) - 1
           p == SubSeq(call.out, 1, n)
           q == SubSeq(call.out, n + 1, Len(call.out))
           u == Rest(rbuf, cursor)
<1>1. /\ call.op = "convert" /\ source' = source
      /\ IF n = 0
         THEN /\ fault' = (fault \/ call.out # <<>>)
              /\ Return(<<>>, call.out, FALSE)
              /\ rbuf' = rbuf /\ cursor' = cursor
         ELSE /\ Len(q) + Len(u) <= BufIn
              /\ Return(p, <<>>, FALSE)
              /\ IF q = <<>> THEN rbuf' = rbuf /\ cursor' = cursor ELSE Rollback(q, u)
              /\ fault' = fault
  BY Unread DEF Convert, Other
<1>2. /\ call \in CallTypes /\ Len(call.out) \in Nat /\ call.out \in Strings /\ got \in Strings
      /\ source \in Strings /\ rbuf \in Strings /\ Len(rbuf) <= BufIn /\ fault \in BOOLEAN
      /\ u \in Strings /\ cursor \in 0..Len(rbuf)
  BY Reading DEF InInv, InTypes
<1>3. n \in 0..Len(call.out) /\ (n < Len(call.out) => Kind[call.out[n + 1]] # "digit")
  BY <1>2, ReadingKinds, Digit
<1> HIDE DEF n
<1>4. /\ p \in Strings /\ q \in Strings /\ call.out = p \o q /\ Len(p) = n
      /\ Len(q) = Len(call.out) - n
      /\ \A i \in 1..(Len(call.out) - n) : q[i] = call.out[n + i]
  <2>1. call.out \in Seq(Int) /\ n \in 0..Len(call.out)
    BY <1>2, <1>3 DEF Strings
  <2> DEFINE o == call.out
  <2>2. o \in Seq(Int) /\ n \in 0..Len(o)
    BY <2>1
  <2> HIDE DEF o
  <2>3. /\ SubSeq(o, 1, n) \in Seq(Int) /\ SubSeq(o, n + 1, Len(o)) \in Seq(Int)
        /\ o = SubSeq(o, 1, n) \o SubSeq(o, n + 1, Len(o))
        /\ Len(SubSeq(o, 1, n)) = n /\ Len(SubSeq(o, n + 1, Len(o))) = Len(o) - n
        /\ \A i \in 1..n : SubSeq(o, 1, n)[i] = o[i]
        /\ \A i \in 1..(Len(o) - n) : SubSeq(o, n + 1, Len(o))[i] = o[n + i]
    BY ONLY <2>2, CutInTwo, Zenon
  <2>4. QED
    BY <2>3 DEF Strings, o
<1> HIDE DEF p, q
<1>5. <<>> \in Strings /\ Len(<<>>) = 0
  BY Units DEF Strings
<1>6. CASE n = 0
  <2>1. /\ fault' = (fault \/ call.out # <<>>) /\ Return(<<>>, call.out, FALSE)
        /\ rbuf' = rbuf /\ cursor' = cursor
    BY <1>1, <1>6
  <2>2. /\ call.out = <<>> \o call.out /\ fault' \in BOOLEAN
        /\ fault' \/ (~ fault /\ call.out = <<>>)
    <3>1. call.out = <<>> \o call.out
      BY <1>2, Units DEF Strings
    <3>2. QED
      BY <1>2, <2>1, <3>1
  <2>3. /\ Rest(rbuf', cursor') \o source' = Rest(rbuf, cursor) \o source
        /\ Rest(rbuf', cursor') \in Strings /\ source' \in Strings
    BY <1>1, <1>2, <2>1
  <2>4. Accounts(Whole(got \o <<>>, <<>>, Rest(rbuf', cursor'), source'),
                 lost \union ToSet(call.out), fault')
    BY <1>2, <1>5, <2>2, <2>3, ReturnsPart
  <2>5. StopsRight'
    <3>1. last'.op = "convert" /\ last'.taken = <<>>
      BY <1>1, <2>1 DEF Return
    <3>2. QED
      BY <3>1 DEF StopsRight
  <2>6. /\ rbuf' \in Strings /\ Len(rbuf') <= BufIn /\ cursor' \in 0..Len(rbuf') /\ FALSE \in BOOLEAN
    BY <1>2, <2>1
  <2>7. QED
    BY <1>2, <1>5, <2>1, <2>2, <2>3, <2>4, <2>5, <2>6, Returns
<1>7. CASE n # 0
  <2>1. /\ Len(q) + Len(u) <= BufIn /\ Return(p, <<>>, FALSE) /\ fault' = fault
        /\ IF q = <<>> THEN rbuf' = rbuf /\ cursor' = cursor ELSE Rollback(q, u)
    BY <1>1, <1>7
  <2>2. /\ rbuf' \in Strings /\ Len(rbuf') <= BufIn /\ cursor' \in 0..Len(rbuf')
        /\ Rest(rbuf', cursor') = q \o u
    <3>1. CASE q = <<>>
      <4>1. q \o u = u
        BY <1>2, <3>1, Units DEF Strings
      <4>2. QED
        BY <1>2, <2>1, <3>1, <4>1 DEF u
    <3>2. CASE q # <<>>
      <4> HIDE DEF u
      <4>1. rbuf' = q \o u /\ cursor' = 0
        BY <2>1, <3>2 DEF Rollback
      <4>2. q \in Seq(Int) /\ u \in Seq(Int)
        BY <1>2, <1>4 DEF Strings
      <4>3. q \o u \in Seq(Int) /\ Len(q \o u) = Len(q) + Len(u) /\ Len(q) \in Nat /\ Len(u) \in Nat
        BY ONLY <4>2, Places
      <4>4. cursor' \in 0..Len(rbuf') /\ rbuf' \in Seq(Int) /\ Len(rbuf') <= BufIn
        BY <2>1, <4>1, <4>3
      <4>5. Rest(rbuf', cursor') = rbuf'
        BY <4>1, <4>4, RestFacts
      <4>6. QED
        BY <4>1, <4>4, <4>5 DEF Strings
    <3>3. QED
      BY <3>1, <3>2
  <2> HIDE DEF u
  <2>3. Whole(got \o p, <<>>, q \o u, source) = Whole(got, p \o q, u, source)
    <3>1. Whole(Glue(got, p), <<>>, Glue(q, u), source) = Whole(got, Glue(p, q), u, source)
      BY ONLY <1>2, <1>4, WholeLaws
    <3>2. QED
      BY ONLY <3>1 DEF Glue
  <2>4. Accounts(Whole(got \o p, <<>>, Rest(rbuf', cursor'), source'),
                 lost \union ToSet(<<>>), fault')
    <3>1. Accounts(Whole(got, call.out, u, source), lost, fault)
      BY DEF InInv, u
    <3>2. lost \union ToSet(<<>>) = lost
      BY DEF ToSet
    <3>3. Whole(got \o p, <<>>, Rest(rbuf', cursor'), source') = Whole(got, call.out, u, source)
      BY <1>1, <1>4, <2>2, <2>3
    <3>4. QED
      BY <2>1, <3>1, <3>2, <3>3
  <2>5. StopsRight'
    <3>1. last'.op = "convert" /\ last'.taken = p
      BY <1>1, <2>1 DEF Return
    <3>2. Ahead' = (q \o u) \o source
      BY <1>1, <2>2, Unread DEF Ahead
    <3>3. Len(p) = Digits \/ Ahead' = <<>> \/ Kind[Head(Ahead')] # "digit"
      <4>1. CASE q = <<>>
        <5>1. q \o u = u
          BY <1>2, <4>1, Units DEF Strings
        <5>2. Len(p) = Len(call.out)
          <6>1. p \o q = p
            BY <1>4, <4>1, Units DEF Strings
          <6>2. QED
            BY <1>4, <6>1
        <5>3. /\ call.set = {"digit", "hex"}
              /\ \/ Len(call.out) = Digits
                 \/ u \o source = <<>>
                 \/ Kind[Head(u \o source)] \notin call.set
          BY <1>1 DEF InInv, CallRight, Numeral, u
        <5>4. QED
          BY <3>2, <5>1, <5>2, <5>3
      <4>2. CASE q # <<>>
        <5>1. Len(q) # 0 /\ Len(q) \in Nat
          BY <1>4, <4>2 DEF Strings
        <5>2. n < Len(call.out) /\ 1 \in 1..(Len(call.out) - n)
          BY <1>2, <1>3, <1>4, <5>1
        <5>3. q[1] = call.out[n + 1] /\ Kind[q[1]] # "digit"
          BY <1>3, <1>4, <5>2
        <5>4. Head((q \o u) \o source) = q[1]
          <6>1. q \in Seq(Int) /\ u \in Seq(Int) /\ source \in Seq(Int) /\ 1 \in 1..Len(q)
            BY <1>2, <1>4, <5>1 DEF Strings
          <6>2. q \o u \in Seq(Int) /\ 1 \in 1..Len(q \o u) /\ (q \o u)[1] = q[1]
            <7>1. /\ q \o u \in Seq(Int) /\ Len(q \o u) = Len(q) + Len(u)
                  /\ \A i \in 1..Len(q) : i \in 1..(Len(q) + Len(u)) /\ (q \o u)[i] = q[i]
              BY ONLY <6>1, Places
            <7>2. QED
              BY <6>1, <7>1
          <6> DEFINE c == q \o u
          <6>3. c \in Seq(Int) /\ source \in Seq(Int) /\ 1 \in 1..Len(c)
            BY <6>1, <6>2
          <6> HIDE DEF c
          <6>4. c \o source \in Seq(Int) /\ (c \o source)[1] = c[1] /\ c \o source # <<>>
            <7>1. /\ c \o source \in Seq(Int) /\ Len(c \o source) = Len(c) + Len(source)
                  /\ \A i \in 1..Len(c) : i \in 1..(Len(c) + Len(source)) /\ (c \o source)[i] = c[i]
              BY ONLY <6>3, Places
            <7>2. Len(c \o source) # 0 /\ (c \o source)[1] = c[1]
              BY <6>3, <7>1
            <7>3. QED
              BY <7>1, <7>2
          <6> DEFINE d == c \o source
          <6>5. d \in Seq(Int) /\ d[1] = c[1] /\ d # <<>>
            BY <6>4
          <6> HIDE DEF d
          <6>6. Head(d) = d[1]
            BY <6>5
          <6>7. QED
            BY <6>2, <6>5, <6>6 DEF c, d
        <5>5. QED
          BY <3>2, <5>3, <5>4
      <4>3. QED
        BY <4>1, <4>2
    <3>4. QED
      BY <3>1, <3>3 DEF StopsRight
  <2>6. source' \in Strings /\ fault' \in BOOLEAN /\ FALSE \in BOOLEAN
    BY <1>1, <1>2, <2>1
  <2>7. QED
    BY <1>4, <1>5, <2>1, <2>2, <2>4, <2>5, <2>6, Returns
<1>8. QED
  BY <1>6, <1>7

LEMMA Before == \A a, b \in Nat : b <= a => a - b \in 0..a /\ a - (a - b) = b
OBVIOUS

(* A caller gives back the end of what it read.                            *)
LEMMA InGiveBack ==
    ASSUME InInv, NEW back \in 1..Most, GiveBack(back)
    PROVE  InInv'
<1> DEFINE g == SubSeq(got, 1, Len(got) - back)
           h == SubSeq(got, Len(got) - back + 1, Len(got))
           u == Rest(rbuf, cursor)
<1>1. /\ call.op = "none" /\ back <= Len(got) /\ back <= cursor
      /\ rbuf' = h \o u /\ cursor' = 0 /\ got' = g /\ last' = NoLast
      /\ source' = source /\ call' = call /\ lost' = lost /\ fault' = fault
  BY Unread DEF GiveBack, Rollback, Calling
<1>2. /\ got \in Strings /\ Len(got) \in Nat /\ rbuf \in Strings /\ cursor \in 0..Len(rbuf)
      /\ Len(rbuf) \in Nat /\ Len(rbuf) <= BufIn /\ u \in Strings /\ source \in Strings /\ BufIn \in Nat
  BY Reading
<1>3. call = NoCall /\ call.out = <<>>
  BY <1>1 DEF InInv, CallRight, NoCall
<1>4. /\ g \in Strings /\ h \in Strings /\ got = g \o h /\ Len(h) = back
  <2> DEFINE n == Len(got) - back
  <2>1. got \in Seq(Int) /\ n \in 0..Len(got) /\ Len(got) - n = back
    <3>1. n \in 0..Len(got) /\ Len(got) - n = back
      <4>1. back \in Nat
        OBVIOUS
      <4>2. Len(got) \in Nat /\ back <= Len(got)
        BY <1>1, <1>2, Zenon
      <4>3. QED
        BY ONLY <4>1, <4>2, Before
    <3>2. QED
      BY <1>2, <3>1 DEF Strings
  <2> HIDE DEF n
  <2>2. /\ SubSeq(got, 1, n) \in Seq(Int) /\ SubSeq(got, n + 1, Len(got)) \in Seq(Int)
        /\ got = SubSeq(got, 1, n) \o SubSeq(got, n + 1, Len(got))
        /\ Len(SubSeq(got, n + 1, Len(got))) = Len(got) - n
    BY ONLY <2>1, CutInTwo, ZenonT(60)
  <2>3. QED
    BY <2>1, <2>2 DEF Strings, n
<1> HIDE DEF g, h
<1>5. Len(u) = Len(rbuf) - cursor
  BY <1>2, RestFacts DEF Strings
<1> HIDE DEF u
<1>6. /\ rbuf' \in Strings /\ Len(rbuf') <= BufIn /\ cursor' \in 0..Len(rbuf')
      /\ Rest(rbuf', cursor') = h \o u
  <2>1. h \in Seq(Int) /\ u \in Seq(Int)
    BY <1>2, <1>4 DEF Strings
  <2>2. h \o u \in Seq(Int) /\ Len(h \o u) = Len(h) + Len(u) /\ Len(h) \in Nat /\ Len(u) \in Nat
    BY ONLY <2>1, Places
  <2>3. rbuf' \in Seq(Int) /\ Len(rbuf') = back + (Len(rbuf) - cursor) /\ cursor' \in 0..Len(rbuf')
    BY <1>1, <1>4, <1>5, <2>2
  <2>4. Len(rbuf') <= BufIn
    BY <1>1, <1>2, <2>3
  <2>5. Rest(rbuf', cursor') = rbuf'
    BY <1>1, <2>3, RestFacts
  <2>6. QED
    BY <1>1, <2>3, <2>4, <2>5 DEF Strings
<1>7. Whole(g, <<>>, h \o u, source) = Whole(got, <<>>, u, source)
  <2>1. Whole(g, <<>>, Glue(h, u), source) = Whole(g, h, u, source)
    BY ONLY <1>2, <1>4, WholeLaws
  <2>2. Whole(Glue(g, h), <<>>, u, source) = Whole(g, h, u, source)
    BY ONLY <1>2, <1>4, WholeLaws
  <2>3. Whole(g \o h, <<>>, u, source) = Whole(got, <<>>, u, source)
    BY <1>4
  <2>4. QED
    BY ONLY <2>1, <2>2, <2>3 DEF Glue
<1>8. Accounts(Whole(got, call.out, Rest(rbuf, cursor), source), lost, fault)'
  <2>1. Accounts(Whole(got, call.out, Rest(rbuf, cursor), source), lost, fault)
    BY DEF InInv
  <2>2. Whole(got, call.out, Rest(rbuf, cursor), source)'
          = Whole(got, call.out, Rest(rbuf, cursor), source)
    BY <1>1, <1>3, <1>6, <1>7 DEF u
  <2>3. QED
    BY <1>1, <2>1, <2>2
<1>9. last' \in LastTypes /\ last'.op = "none"
  <2>1. <<>> \in Strings
    BY Units DEF Strings
  <2>2. QED
    BY <1>1, <2>1 DEF LastTypes, NoLast, Ops
<1>10. InTypes'
  <2>1. InTypes
    BY DEF InInv
  <2>2. QED
    BY <1>1, <1>4, <1>6, <1>9, <2>1 DEF InTypes
<1>11. CallRight(call', Rest(rbuf', cursor') \o source')
  <2>1. call'.op = "none" /\ call' = NoCall /\ call'.kept <= Len(call'.out)
    BY <1>1, <1>3 DEF InInv, CallRight
  <2>2. QED
    BY <2>1 DEF CallRight, Passed, Numeral, Matched
<1>12. StopsRight'
  BY <1>9 DEF StopsRight
<1>13. QED
  BY <1>8, <1>10, <1>11, <1>12 DEF InInv

(* What is not about reading leaves it as it is.                           *)
LEMMA InKept == InInv /\ UNCHANGED reading => InInv'
<1> SUFFICES ASSUME InInv, UNCHANGED reading PROVE InInv'
  OBVIOUS
<1>1. /\ source' = source /\ rbuf' = rbuf /\ cursor' = cursor /\ call' = call /\ got' = got
      /\ lost' = lost /\ fault' = fault /\ last' = last
  BY DEF reading
<1>2. InTypes'
  BY <1>1 DEF InInv, InTypes
<1>3. Accounts(Whole(got, call.out, Rest(rbuf, cursor), source), lost, fault)'
  BY <1>1 DEF InInv
<1>4. CallRight(call', Rest(rbuf', cursor') \o source')
  BY <1>1 DEF InInv
<1>5. StopsRight'
  BY <1>1 DEF InInv, StopsRight, Calling, Ahead, ravailable
<1>6. QED
  BY <1>2, <1>3, <1>4, <1>5 DEF InInv

LEMMA InStep == InInv /\ ReadNext => InInv'
<1> SUFFICES ASSUME InInv, ReadNext PROVE InInv'
  OBVIOUS
<1>1. CASE Start
  BY <1>1, InBegin
<1>2. CASE Step
  BY <1>2, InFill, InEnd, InFails, InCopy, InReadDone, InSlurpMore, InChar, InLastChar,
     InNumFull, InConvert, InStrstrChar, InStrstrDone DEF Step
<1>3. CASE \E back \in 1..Most : GiveBack(back)
  BY <1>3, InGiveBack
<1>4. QED
  BY <1>1, <1>2, <1>3 DEF ReadNext

(* All of the buffer, also what was read of it, is bytes of the input.     *)
LEMMA InBuffer ==
    InInv /\ ToSet(rbuf) \subseteq DOMAIN Kind /\ ReadNext => ToSet(rbuf') \subseteq DOMAIN Kind
<1> SUFFICES ASSUME InInv, ToSet(rbuf) \subseteq DOMAIN Kind, ReadNext
             PROVE  ToSet(rbuf') \subseteq DOMAIN Kind
  OBVIOUS
<1> DEFINE u == Rest(rbuf, cursor)
<1>1. /\ source \in Seq(Int) /\ rbuf \in Seq(Int) /\ got \in Seq(Int) /\ call.out \in Seq(Int)
      /\ u \in Seq(Int) /\ cursor \in 0..Len(rbuf) /\ Len(got) \in Nat
  BY Reading DEF Strings
<1>2. /\ ToSet(call.out) \subseteq DOMAIN Kind /\ ToSet(source) \subseteq DOMAIN Kind
      /\ ToSet(got) \subseteq DOMAIN Kind /\ ToSet(u) \subseteq DOMAIN Kind
  BY ReadingKinds
<1> HIDE DEF u
<1>3. ASSUME NEW s \in Seq(Int), NEW n \in 0..Len(s)
      PROVE  /\ SubSeq(s, 1, n) \in Seq(Int) /\ SubSeq(s, n + 1, Len(s)) \in Seq(Int)
             /\ ToSet(SubSeq(s, 1, n)) \subseteq ToSet(s)
             /\ ToSet(SubSeq(s, n + 1, Len(s))) \subseteq ToSet(s)
  <2> DEFINE a == SubSeq(s, 1, n)
             b == SubSeq(s, n + 1, Len(s))
  <2>1. a \in Seq(Int) /\ b \in Seq(Int) /\ s = a \o b
    BY CutInTwo
  <2> HIDE DEF a, b
  <2>2. ToSet(a \o b) = ToSet(a) \union ToSet(b)
    BY <2>1, JoinedElements
  <2>3. QED
    BY <2>1, <2>2 DEF a, b
<1>4. ASSUME NEW h \in Seq(Int), ToSet(h) \subseteq DOMAIN Kind, rbuf' = h \o u
      PROVE  ToSet(rbuf') \subseteq DOMAIN Kind
  <2>1. ToSet(h \o u) = ToSet(h) \union ToSet(u)
    BY <1>1, JoinedElements
  <2>2. QED
    BY <1>2, <1>4, <2>1
<1>5. CASE rbuf' = rbuf
  BY <1>5
<1>6. CASE Fill
  <2>1. PICK n \in 1..BufIn : n <= Len(source) /\ rbuf' = SubSeq(source, 1, n)
    BY <1>6 DEF Fill
  <2>2. n \in 0..Len(source)
    BY <1>1, <2>1, StreamAssumption
  <2>3. QED
    BY <1>1, <1>2, <1>3, <2>1, <2>2
<1>7. CASE End
  <2>1. rbuf' = <<>>
    BY <1>7 DEF End
  <2>2. QED
    BY <2>1 DEF ToSet
<1>8. CASE LastChar
  <2>1. cursor # Len(rbuf)
    BY <1>8 DEF LastChar, rempty
  <2>2. rbuf' = rbuf \/ rbuf' = <<ch>> \o Tail(u)
    BY <1>8, Unread DEF LastChar, Rollback, u
  <2>3. <<ch>> \o Tail(u) = u
    BY <2>1, NextByte DEF u
  <2>4. QED
    BY <1>2, <1>5, <2>2, <2>3
<1>9. CASE Convert
  <2> DEFINE n == SelectInSeq(Append(call.out, 0), Other) - 1
             q == SubSeq(call.out, n + 1, Len(call.out))
  <2>1. rbuf' = rbuf \/ rbuf' = q \o u
    BY <1>9, Unread DEF Convert, Rollback, Other, u
  <2>2. n \in 0..Len(call.out)
    BY <1>1, ReadingKinds, Digit DEF Strings
  <2> HIDE DEF n
  <2>3. q \in Seq(Int) /\ ToSet(q) \subseteq DOMAIN Kind
    BY <1>1, <1>2, <1>3, <2>2
  <2> HIDE DEF q
  <2>4. QED
    BY <1>4, <1>5, <2>1, <2>3
<1>10. CASE \E back \in 1..Most : GiveBack(back)
  <2>1. PICK back \in 1..Most : GiveBack(back)
    BY <1>10
  <2> DEFINE n == Len(got) - back
             h == SubSeq(got, n + 1, Len(got))
  <2>2. back <= Len(got) /\ rbuf' = h \o u
    BY <2>1, Unread DEF GiveBack, Rollback, u
  <2>3. n \in 0..Len(got)
    <3>1. back \in Nat
      OBVIOUS
    <3>2. Len(got) \in Nat /\ back <= Len(got)
      BY <1>1, <2>2, ZenonT(60)
    <3>3. QED
      BY ONLY <3>1, <3>2, Before
  <2> HIDE DEF n
  <2>4. h \in Seq(Int) /\ ToSet(h) \subseteq DOMAIN Kind
    BY <1>1, <1>2, <1>3, <2>3, SMTT(30)
  <2> HIDE DEF h
  <2>5. QED
    BY <1>4, <2>2, <2>4
<1>11. \/ rbuf' = rbuf \/ Fill \/ End \/ LastChar \/ Convert
       \/ \E back \in 1..Most : GiveBack(back)
  BY DEF ReadNext, Start, Step, Read, Slurp, InpString, InpStrstr, Skip,
         InpLong, Begin, Fails, CopyIn, ReadDone, SlurpMore, Char,
         NumFull, StrstrChar, StrstrDone
<1>12. QED
  BY <1>5, <1>6, <1>7, <1>8, <1>9, <1>10, <1>11

LEMMA InHolds ==
    InInv /\ ToSet(rbuf) \subseteq DOMAIN Kind => ReadTypeOK /\ Accounted /\ StopsRight
<1> SUFFICES ASSUME InInv, ToSet(rbuf) \subseteq DOMAIN Kind
             PROVE  ReadTypeOK /\ Accounted /\ StopsRight
  OBVIOUS
<1> DEFINE u == Rest(rbuf, cursor)
<1>1. /\ source \in Strings /\ rbuf \in Strings /\ got \in Strings /\ call.out \in Strings
      /\ u \in Strings /\ Len(rbuf) <= BufIn /\ cursor \in 0..Len(rbuf) /\ call \in CallTypes
      /\ lost \subseteq Bytes /\ fault \in BOOLEAN
  BY Reading DEF InInv, InTypes
<1>2. InOrder = Whole(got, call.out, u, source)
  <2>1. InOrder = ((got \o call.out) \o u) \o source
    BY Unread DEF InOrder
  <2> HIDE DEF u
  <2>2. Glue(got, call.out) \in Strings
    BY ONLY <1>1, Gluing
  <2>3. Glue(Glue(Glue(got, call.out), u), source) = Glue(Glue(got, call.out), Glue(u, source))
    BY ONLY <1>1, <2>2, Gluing
  <2>4. ((got \o call.out) \o u) \o source = (got \o call.out) \o (u \o source)
    BY ONLY <2>3 DEF Glue
  <2>5. QED
    BY <2>1, <2>4 DEF Whole
<1>3. Accounted
  <2>1. Accounts(InOrder, lost, fault)
    BY <1>2 DEF InInv
  <2>2. ToSet(InOrder) = ToSet(InOrder)
    BY DEF ToSet, ToSet
  <2>3. \A i \in 1..(Len(InOrder) - 1) : InOrder[i] < InOrder[i + 1]
    BY <2>1 DEF Accounts, Rises
  <2>4. QED
    BY <2>1, <2>2, <2>3 DEF Accounts, Accounted
<1>4. ReadTypeOK
  <2>1. ToSet(source) \subseteq DOMAIN Kind /\ ToSet(rbuf) \subseteq DOMAIN Kind
    BY ReadingKinds
  <2>2. QED
    BY <1>1, <2>1 DEF ReadTypeOK, ToSet, ToSet, Bytes, CallTypes, Ops
<1>5. QED
  BY <1>3, <1>4 DEF InInv

-----------------------------------------------------------------------------
(* What is in the buffer came from the input.                              *)
ReadInv == InInv /\ ToSet(rbuf) \subseteq DOMAIN Kind

LEMMA StreamsStart == StreamInit => ReadInv /\ OutInv
<1> SUFFICES ASSUME StreamInit PROVE ReadInv /\ OutInv
  OBVIOUS
<1>1. ReadInit /\ WriteInit
  BY DEF StreamInit
<1>2. InInv /\ OutInv
  BY <1>1, InStart, OutStart
<1>3. rbuf = <<>>
  BY <1>1 DEF ReadInit
<1>4. QED
  BY <1>2, <1>3 DEF ReadInv, ToSet

(* A step of one half leaves the other as it is.                           *)
LEMMA StreamsStep ==
    ReadInv /\ OutInv /\ [StreamNext]_<<reading, writing>> => ReadInv' /\ OutInv'
<1> SUFFICES ASSUME ReadInv, OutInv, [StreamNext]_<<reading, writing>>
             PROVE  ReadInv' /\ OutInv'
  OBVIOUS
<1>1. /\ ReadNext \/ UNCHANGED reading
      /\ WriteNext \/ UNCHANGED writing
  BY DEF StreamNext
<1>2. OutInv'
  BY <1>1, OutStep, OutKept
<1>3. InInv'
  BY <1>1, InStep, InKept DEF ReadInv
<1>4. ToSet(rbuf') \subseteq DOMAIN Kind
  <2>1. CASE ReadNext
    BY <2>1, InBuffer DEF ReadInv
  <2>2. CASE UNCHANGED reading
    BY <2>2 DEF reading, ReadInv
  <2>3. QED
    BY <1>1, <2>1, <2>2
<1>5. QED
  BY <1>2, <1>3, <1>4 DEF ReadInv

(* However the input is cut into pieces, whatever is given back and        *)
(* wherever a flush stops, the bytes that are read and written keep their  *)
(* order, each is there once, and calls that look for a byte stop where    *)
(* they say (stream.c:104-176, 222-472, 585-611).                          *)
THEOREM StreamsAlways == StreamSpec => []StreamsHold
<1>1. ReadInv /\ OutInv => StreamsHold
  BY InHolds, OutHolds DEF ReadInv, StreamsHold
<1>2. QED
  BY StreamsStart, StreamsStep, <1>1, PTL DEF StreamSpec

-----------------------------------------------------------------------------
(* No object is twice in s.                                                *)
Once(s) == \A i, j \in 1..Len(s) : s[i] = s[j] => i = j

(* All objects of s are registered.                                        *)
Known(s) == \A i \in 1..Len(s) : s[i] \in events

ObjectsOK ==
    /\ fd \in [Objects -> Fds \union {Nobody}]
    /\ ready \in Seq(Objects) /\ batch \in Seq(Objects)
    /\ inside \in Objects \union {Nobody}

(* A callback runs, and entries of a batch are left, in dispatch only.     *)
OnlyInDispatch == state # "dispatch" => inside = Nobody /\ batch = <<>>

(* The object whose callback runs has left the batch: what it does to its  *)
(* own memory concerns no entry that is still to come.                     *)
Apart == \A i \in 1..Len(batch) : batch[i] # inside

IInv ==
    /\ ObjectsOK /\ OnlyInDispatch /\ Apart
    /\ interest = events
    /\ Known(ready) /\ Known(batch)
    /\ Once(ready) /\ Once(batch)
    /\ \A o1, o2 \in events : fd[o1] = fd[o2] => o1 = o2

(* Without an entry, a sequence has the other entries in their order.      *)
LEMMA RemoveAtProperties ==
    ASSUME NEW S, NEW s \in Seq(S), NEW i \in 1..Len(s)
    PROVE  /\ RemoveAt(s, i) \in Seq(S)
           /\ Len(RemoveAt(s, i)) = Len(s) - 1
           /\ \A j \in 1..(Len(s) - 1) :
                 RemoveAt(s, i)[j] = IF j < i THEN s[j] ELSE s[j + 1]
<1> DEFINE a == SubSeq(s, 1, i - 1)
           b == SubSeq(s, i + 1, Len(s))
<1>0. Len(s) \in Nat /\ i \in 1..Len(s)
  OBVIOUS
<1>1. /\ a \in Seq(S) /\ Len(a) = i - 1
      /\ \A j \in 1..(i - 1) : a[j] = s[j]
  OBVIOUS
<1>2. /\ b \in Seq(S) /\ Len(b) = Len(s) - i
      /\ \A j \in 1..(Len(s) - i) : b[j] = s[j + i]
  OBVIOUS
<1>3. RemoveAt(s, i) = a \o b
  BY DEF RemoveAt
<1> HIDE DEF a, b
<1>4. /\ a \o b \in Seq(S) /\ Len(a \o b) = Len(s) - 1
      /\ \A j \in 1..(Len(s) - 1) : (a \o b)[j] = IF j < i THEN a[j] ELSE b[j - (i - 1)]
  <2>1. /\ a \o b \in Seq(S) /\ Len(a \o b) = Len(a) + Len(b)
        /\ \A j \in 1..(Len(a) + Len(b)) :
              (a \o b)[j] = IF j <= Len(a) THEN a[j] ELSE b[j - Len(a)]
    BY <1>1, <1>2, ConcatProperties
  <2>2. Len(a) + Len(b) = Len(s) - 1 /\ Len(a) = i - 1
    BY <1>0, <1>1, <1>2
  <2>3. \A j \in 1..(Len(s) - 1) : (j <= i - 1) = (j < i)
    BY <1>0
  <2> QED BY <2>1, <2>2, <2>3
<1>5. ASSUME NEW j \in 1..(Len(s) - 1)
      PROVE  (a \o b)[j] = IF j < i THEN s[j] ELSE s[j + 1]
  <2>1. CASE j < i
    BY <2>1, <1>1, <1>4
  <2>2. CASE ~ (j < i)
    <3>1. j - (i - 1) \in 1..(Len(s) - i) /\ (j - (i - 1)) + i = j + 1
      BY <2>2
    <3>2. b[j - (i - 1)] = s[j + 1]
      BY <3>1, <1>2
    <3> QED BY <3>2, <2>2, <1>4
  <2> QED BY <2>1, <2>2
<1> QED BY <1>3, <1>4, <1>5

(* The loop begins with nothing registered.                                *)
LEMMA InitIInv == Init => IInv
BY DEF Init, IInv, ObjectsOK, OnlyInDispatch, Apart, Known, Once, events

(* A new object is in no list and has a descriptor of its own.             *)
LEMMA RegisterKeepsIInv == ASSUME IInv, NEW f \in Fds, Register(f) PROVE IInv'
<1>1. PICK o \in Objects \ events :
         /\ fd' = [fd EXCEPT ![o] = f]
         /\ interest' = interest \union {o}
  BY DEF Register
<1>2. /\ UNCHANGED <<ready, batch, inside, state>>
      /\ \A o1 \in events : fd[o1] # f
  BY DEF Register, IInv
<1>3. events' = events \union {o}
  BY <1>1, NobodyAssumption DEF events, IInv, ObjectsOK
<1>4. ObjectsOK' /\ OnlyInDispatch' /\ Apart'
  BY <1>1, <1>2 DEF IInv, ObjectsOK, OnlyInDispatch, Apart
<1>5. Known(ready)' /\ Known(batch)' /\ Once(ready)' /\ Once(batch)'
  BY <1>2, <1>3 DEF IInv, Known, Once
<1>6. \A o1, o2 \in events' : fd'[o1] = fd'[o2] => o1 = o2
  BY <1>1, <1>2, <1>3 DEF IInv, ObjectsOK, events
<1> QED BY <1>1, <1>3, <1>4, <1>5, <1>6 DEF IInv

(* An object that is freed is in no batch, and epoll forgets it.           *)
LEMMA UnregisterKeepsIInv == ASSUME IInv, NEW o \in Objects, Unregister(o) PROVE IInv'
<1>1. /\ fd' = [fd EXCEPT ![o] = Nobody]
      /\ interest' = interest \ {o}
      /\ UNCHANGED <<batch, inside, state>>
      /\ o \in events
  BY DEF Unregister
<1>2. events' = events \ {o}
  BY <1>1 DEF events, IInv, ObjectsOK
<1>3. \A i \in 1..Len(batch) : batch[i] # o
  <2>1. CASE state = "setup"
    <3>1. batch = <<>>
      BY <2>1 DEF IInv, OnlyInDispatch
    <3> QED BY <3>1
  <2>2. CASE inside = o
    BY <2>2 DEF IInv, Apart
  <2> QED BY <2>1, <2>2 DEF Unregister
<1>4. ready' \in Seq(Objects) /\ Known(ready)' /\ Once(ready)'
  <2>1. CASE ~ Contains(ready, o) /\ UNCHANGED ready
    BY <2>1, <1>2 DEF IInv, ObjectsOK, Known, Once, Contains
  <2>2. CASE \E i \in DOMAIN ready : ready[i] = o /\ ready' = RemoveAt(ready, i)
    <3>1. PICK i \in 1..Len(ready) : ready[i] = o /\ ready' = RemoveAt(ready, i)
      BY <2>2 DEF IInv, ObjectsOK
    <3>2. /\ ready' \in Seq(Objects) /\ Len(ready') = Len(ready) - 1
          /\ \A j \in 1..(Len(ready) - 1) :
                ready'[j] = IF j < i THEN ready[j] ELSE ready[j + 1]
      BY <3>1, RemoveAtProperties DEF IInv, ObjectsOK
    <3>3. \A j \in 1..Len(ready') :
             \E k \in 1..Len(ready) : k # i /\ ready'[j] = ready[k] /\ k = IF j < i THEN j ELSE j + 1
      BY <3>1, <3>2 DEF IInv, ObjectsOK
    <3>4. Once(ready)'
      BY <3>1, <3>3, <3>2, SMTT(30) DEF IInv, Once, ObjectsOK
    <3>5. Known(ready)'
      BY <3>1, <3>3, <1>2 DEF IInv, Once, Known
    <3> QED BY <3>2, <3>4, <3>5
  <2> QED BY <2>1, <2>2 DEF Unregister
<1>5. ObjectsOK' /\ OnlyInDispatch' /\ Apart'
  BY <1>1, <1>4 DEF IInv, ObjectsOK, OnlyInDispatch, Apart
<1>6. Known(batch)' /\ Once(batch)'
  BY <1>1, <1>2, <1>3 DEF IInv, Known, Once
<1>7. \A o1, o2 \in events' : fd'[o1] = fd'[o2] => o1 = o2
  BY <1>1, <1>2 DEF IInv, ObjectsOK, events
<1> QED BY <1>1, <1>2, <1>4, <1>5, <1>6, <1>7 DEF IInv

(* epoll reports an object once.                                           *)
LEMMA ArrivesKeepsIInv == ASSUME IInv, NEW o \in Objects, Arrives(o) PROVE IInv'
<1>1. /\ UNCHANGED <<fd, interest, batch, inside, state>>
      /\ o \in events
      /\ events' = events
  BY DEF Arrives, IInv, registry, events
<1>2. ready' \in Seq(Objects) /\ Known(ready)' /\ Once(ready)'
  <2>1. CASE Contains(ready, o)
    BY <2>1, <1>1 DEF Arrives, IInv, ObjectsOK, Known, Once
  <2>2. CASE ~ Contains(ready, o)
    <3>1. /\ ready' = Append(ready, o)
          /\ \A i \in 1..Len(ready) : ready[i] # o
      BY <2>2 DEF Arrives, Contains
    <3>2. /\ ready' \in Seq(Objects) /\ Len(ready') = Len(ready) + 1
          /\ ready'[Len(ready) + 1] = o
          /\ \A i \in 1..Len(ready) : ready'[i] = ready[i]
      BY <3>1 DEF IInv, ObjectsOK
    <3> QED BY <1>1, <3>1, <3>2 DEF IInv, Known, Once, ObjectsOK
  <2> QED BY <2>1, <2>2
<1> QED BY <1>1, <1>2 DEF IInv, ObjectsOK, OnlyInDispatch, Apart, Known, Once

(* A batch is the front of what epoll has.                                 *)
LEMMA WaitKeepsIInv == ASSUME IInv, Wait PROVE IInv'
<1> DEFINE n == IF Len(ready) < Batch THEN Len(ready) ELSE Batch
<1>1. /\ batch' = SubSeq(ready, 1, n) /\ ready' = SubSeq(ready, n + 1, Len(ready))
      /\ UNCHANGED <<fd, interest, inside>> /\ state' = "dispatch"
      /\ events' = events /\ inside = Nobody
      /\ ready \in Seq(Objects) /\ n \in 1..Len(ready)
  BY BatchAssumption DEF Wait, IInv, registry, events, OnlyInDispatch, ObjectsOK
<1> HIDE DEF n
<1>2. /\ batch' \in Seq(Objects) /\ Len(batch') = n
      /\ \A i \in 1..n : batch'[i] = ready[i]
  BY <1>1
<1>3. /\ ready' \in Seq(Objects) /\ Len(ready') = Len(ready) - n
      /\ \A i \in 1..(Len(ready) - n) : ready'[i] = ready[i + n]
  BY <1>1
<1>4. Known(batch)' /\ Once(batch)' /\ Known(ready)' /\ Once(ready)'
  <2>1. /\ \A i \in 1..Len(ready) : ready[i] \in events
        /\ \A i, j \in 1..Len(ready) : ready[i] = ready[j] => i = j
        /\ Len(ready) \in Nat /\ n \in Nat
    BY <1>1 DEF IInv, Known, Once
  <2>2. /\ \A i \in 1..Len(batch') : i \in 1..Len(ready) /\ batch'[i] = ready[i]
        /\ events' = events
    BY <2>1, <1>1, <1>2
  <2>3. Known(batch)'
    BY ONLY <2>1, <2>2 DEF Known
  <2>4. Once(batch)'
    BY ONLY <2>1, <2>2 DEF Once
  <2>5. \A i \in 1..Len(ready') : i + n \in 1..Len(ready) /\ ready'[i] = ready[i + n]
    BY <2>1, <1>3
  <2>6. Known(ready)'
    BY <2>1, <2>5, <1>1 DEF Known
  <2>7. ASSUME NEW i \in 1..Len(ready'), NEW j \in 1..Len(ready'), ready'[i] = ready'[j]
        PROVE  i = j
    <3>1. i + n = j + n
      BY <2>1, <2>5, <2>7
    <3>2. i \in Int /\ j \in Int
      OBVIOUS
    <3> QED BY <3>1, <3>2, <2>1
  <2> QED BY <2>3, <2>4, <2>6, <2>7 DEF Once
<1>5. ObjectsOK' /\ OnlyInDispatch'
  BY <1>1, <1>2, <1>3 DEF IInv, ObjectsOK, OnlyInDispatch
<1>6. Apart'
  BY <1>1, <1>2, <1>5, NobodyAssumption DEF Apart, ObjectsOK
<1> QED BY <1>1, <1>4, <1>5, <1>6 DEF IInv

(* The entry that is dispatched leaves the batch.                          *)
LEMMA DispatchKeepsIInv == ASSUME IInv, Dispatch PROVE IInv'
<1>1. /\ inside' = batch[1] /\ batch' = Tail(batch) /\ batch # <<>>
      /\ UNCHANGED <<fd, interest, ready, state>> /\ state = "dispatch"
      /\ events' = events /\ batch \in Seq(Objects)
  BY DEF Dispatch, IInv, registry, events, ObjectsOK
<1>2. /\ batch' \in Seq(Objects) /\ Len(batch') = Len(batch) - 1
      /\ \A i \in 1..(Len(batch) - 1) : batch'[i] = batch[i + 1]
      /\ Len(batch) \in Nat /\ Len(batch) >= 1 /\ batch[1] \in Objects
  BY <1>1
<1>3. Known(batch)' /\ Once(batch)'
  BY <1>1, <1>2 DEF IInv, Known, Once
<1>4. Apart'
  BY <1>1, <1>2 DEF IInv, Once, Apart
<1>5. ObjectsOK' /\ OnlyInDispatch'
  BY <1>1, <1>2 DEF IInv, ObjectsOK, OnlyInDispatch
<1> QED BY <1>1, <1>3, <1>4, <1>5 DEF IInv, Known, Once

(* A callback that returns leaves the rest of the batch, or none of it.    *)
LEMMA ReturnKeepsIInv == ASSUME IInv, CallbackReturns PROVE IInv'
<1>1. /\ inside' = Nobody /\ inside # Nobody
      /\ UNCHANGED <<fd, interest, ready>>
      /\ events' = events
      /\ state = "dispatch"
  BY DEF CallbackReturns, registry, events, IInv, OnlyInDispatch
<1>2. batch' \in Seq(Objects) /\ Known(batch)' /\ Once(batch)'
  <2>1. CASE UNCHANGED <<batch, state>>
    BY <2>1, <1>1 DEF IInv, ObjectsOK, Known, Once
  <2>2. CASE batch' = <<>> /\ state' = "error"
    <3>1. batch' \in Seq(Objects) /\ Len(batch') = 0
      BY <2>2
    <3> QED BY <3>1 DEF Known, Once
  <2> QED BY <2>1, <2>2 DEF CallbackReturns
<1>3. ObjectsOK' /\ OnlyInDispatch'
  BY <1>1, <1>2 DEF CallbackReturns, IInv, ObjectsOK, OnlyInDispatch
<1>4. Apart'
  BY <1>1, <1>2, NobodyAssumption DEF Apart
<1> QED BY <1>1, <1>2, <1>3, <1>4 DEF IInv, Known, Once

(* The other steps concern the time and the state of the loop only.        *)
LEMMA OthersKeepIInv ==
    ASSUME IInv, Loop \/ WaitFails \/ Timeout \/ BatchDone \/ UNCHANGED vars PROVE IInv'
<1>1. UNCHANGED <<fd, interest, ready, batch, inside>> /\ events' = events
  BY DEF Loop, WaitFails, Timeout, BatchDone, vars, registry, events
<1>2. OnlyInDispatch'
  BY <1>1 DEF IInv, OnlyInDispatch, Loop, WaitFails, Timeout, BatchDone, vars
<1> QED BY <1>1, <1>2 DEF IInv, ObjectsOK, Apart, Known, Once

LEMMA NextKeepsIInv == IInv /\ [Next]_vars => IInv'
BY RegisterKeepsIInv, UnregisterKeepsIInv, ArrivesKeepsIInv, WaitKeepsIInv,
   DispatchKeepsIInv, ReturnKeepsIInv, OthersKeepIInv
   DEF Next, Thread

(* Whatever is dispatched is registered, and epoll and the list agree      *)
(* (deadpoll.c:19-69, 143-152).                                            *)
THEOREM Dispatched == Spec => []DispatchesRegistered
<1>1. IInv => DispatchesRegistered
  BY DEF IInv, DispatchesRegistered, Known, ToSet, ObjectsOK
<1> QED BY InitIInv, NextKeepsIInv, <1>1, PTL DEF Spec

-----------------------------------------------------------------------------
(* The timeout.  Remainders of an integer and of its opposite by the same  *)
(* period add up to nothing or to one period.                              *)
LEMMA Division ==
    ASSUME NEW a \in Int
    PROVE  a % Period \in 0..(Period - 1) /\ \E q \in Int : a = q * Period + (a % Period)
<1>1. Period \in Nat /\ Period > 0
  BY TimeAssumption
<1>2. a % Period \in 0..(Period - 1) /\ a \div Period \in Int
  BY <1>1
<1>3. a = (a \div Period) * Period + (a % Period)
  BY <1>1
<1>4. QED
  BY <1>2, <1>3

(* What the time adds up to is a multiple of the period that is small.     *)
LEMMA SmallMultiple ==
    ASSUME NEW q \in Int, NEW x \in 0..(2 * Period - 1), x = q * Period
    PROVE  x \in {0, Period}
<1>1. Period \in Nat /\ Period > 0
  BY TimeAssumption
<1>2. ~ (q >= 2)
  <2>1. SUFFICES ASSUME q >= 2 PROVE q * Period >= 2 * Period
    BY <1>1
  <2>2. (q - 2) * Period >= 0
    BY <1>1, <2>1
  <2>3. QED
    BY <1>1, <2>2
<1>3. ~ (q <= -1)
  <2>1. SUFFICES ASSUME q <= -1 PROVE q * Period <= -Period
    BY <1>1
  <2>2. (q + 1) * Period <= 0
    BY <1>1, <2>1
  <2>3. QED
    BY <1>1, <2>2
<1>4. q = 0 \/ q = 1
  BY <1>2, <1>3
<1>5. QED
  BY <1>1, <1>4

(* Time passed and time left, both taken modulo the period.                *)
LEMMA Remainders ==
    ASSUME NEW passed \in Int, NEW left \in Int, NEW k \in {0, Period}, passed + left = k
    PROVE  (passed % Period) + (left % Period) \in {0, Period}
<1>1. Period \in Nat /\ Period > 0
  BY TimeAssumption
<1>2. PICK q \in Int : passed = q * Period + (passed % Period)
  BY Division
<1>3. PICK r \in Int : left = r * Period + (left % Period)
  BY Division
<1> DEFINE x == passed % Period
           y == left % Period
<1>4. x \in 0..(Period - 1) /\ y \in 0..(Period - 1)
  BY Division
<1>5. passed = q * Period + x /\ left = r * Period + y
  BY <1>2, <1>3
<1> HIDE DEF x, y
<1>6. PICK c \in {0, 1} : k = c * Period
  BY <1>1
<1>7. x + y = (c - q - r) * Period
  <2>1. (c - q - r) * Period = c * Period - q * Period - r * Period
    BY <1>1
  <2>2. q * Period \in Int /\ r * Period \in Int /\ c * Period \in Int
    BY <1>1
  <2>3. QED
    BY <1>1, <1>4, <1>5, <1>6, <2>1, <2>2
<1>8. x + y \in 0..(2 * Period - 1) /\ c - q - r \in Int
  BY <1>1, <1>4
<1>9. QED
  BY <1>7, <1>8, SmallMultiple DEF x, y

(* The numbers, and that time passed and time left make up a whole period. *)
InPeriod ==
    /\ phase \in 0..(Period - 1) /\ timems \in 0..Period
    /\ spent \in 0..timems
    /\ state \in {"setup", "wait"} => spent = 0
    /\ timer /\ ~ fired => phase + timems \in {0, Period}

LEMMA BatchDoneKeepsPeriod == ASSUME InPeriod, BatchDone PROVE InPeriod'
<1>1. Period \in Nat /\ Period > 0 /\ Late \in Nat
  BY TimeAssumption
<1>2. PICK late \in 0..Late :
         /\ timems' = renew(timems - spent - late)
         /\ phase' = (phase + spent + late) % Period
  BY DEF BatchDone
<1> DEFINE left == timems - spent - late
           passed == phase + spent + late
<1>3. left \in Int /\ passed \in Int /\ passed + left = phase + timems
  BY <1>1 DEF InPeriod
<1>4. timems' = renew(left) /\ phase' = passed % Period
  BY <1>2
<1>5. spent' = 0 /\ UNCHANGED <<timer, fired>>
  BY DEF BatchDone
<1> HIDE DEF left, passed
<1>6. phase' \in 0..(Period - 1) /\ left % Period \in 0..(Period - 1)
  BY <1>3, <1>4, Division
<1>7. timems' = IF left # 0 /\ timer THEN left % Period ELSE Period
  BY <1>4 DEF renew
<1>8. timems' \in 0..Period
  BY <1>1, <1>6, <1>7
<1>9. ASSUME timer, ~ fired PROVE phase' + timems' \in {0, Period}
  <2>1. phase + timems \in {0, Period}
    BY <1>9 DEF InPeriod
  <2>2. (passed % Period) + (left % Period) \in {0, Period}
    BY <1>3, <2>1, Remainders
  <2>3. CASE left # 0
    BY <1>4, <1>7, <1>9, <2>2, <2>3
  <2>4. CASE left = 0
    <3>1. left % Period = 0
      BY <1>1, <2>4
    <3>2. passed % Period = 0
      BY <1>1, <1>4, <1>6, <2>2, <3>1
    <3>3. QED
      BY <1>1, <1>4, <1>7, <2>4, <3>2
  <2>5. QED
    BY <2>3, <2>4
<1>10. spent' \in 0..timems'
  BY <1>1, <1>5, <1>8
<1>11. QED
  BY <1>5, <1>6, <1>8, <1>9, <1>10 DEF InPeriod

LEMMA NextKeepsPeriod == InPeriod /\ [Next]_vars => InPeriod'
<1> SUFFICES ASSUME InPeriod, [Next]_vars PROVE InPeriod'
  OBVIOUS
<1>1. Period \in Nat /\ Period > 0
  BY TimeAssumption
<1>2. CASE Wait
  BY <1>1, <1>2 DEF Wait, InPeriod
<1>3. CASE Timeout
  <2>1. (phase + timems) \in Int
    BY <1>1 DEF InPeriod
  <2>2. (phase + timems) % Period \in 0..(Period - 1)
    BY <2>1, Division
  <2>3. QED
    BY <1>1, <1>3, <2>2 DEF Timeout, InPeriod
<1>4. CASE BatchDone
  BY <1>4, BatchDoneKeepsPeriod
<1>5. CASE UNCHANGED time /\ (state' \in {"setup", "wait"} => state \in {"setup", "wait"})
  BY <1>5 DEF time, InPeriod
<1>6. \/ Wait \/ Timeout \/ BatchDone
      \/ UNCHANGED time /\ (state' \in {"setup", "wait"} => state \in {"setup", "wait"})
  BY DEF Next, Thread, Loop, WaitFails, Dispatch, CallbackReturns, Register,
         Unregister, Arrives, vars
<1>7. QED
  BY <1>2, <1>3, <1>4, <1>5, <1>6

(* Until the first one, timeouts are due at multiples of the period,       *)
(* whatever waits and callbacks take (deadpoll.c:159-178).                 *)
THEOREM PeriodKept == Spec => []KeepsPeriod
<1>1. Init => InPeriod
  BY TimeAssumption DEF Init, InPeriod
<1>2. InPeriod => KeepsPeriod
  <2>1. SUFFICES ASSUME InPeriod, timer, ~ fired PROVE (phase + timems) % Period = 0
    BY DEF KeepsPeriod
  <2>2. phase + timems \in {0, Period}
    BY <2>1 DEF InPeriod
  <2>3. QED
    BY <2>2, TimeAssumption
<1>3. QED
  BY <1>1, <1>2, NextKeepsPeriod, PTL DEF Spec
=============================================================================
