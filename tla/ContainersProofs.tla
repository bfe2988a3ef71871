--------------------------- MODULE ContainersProofs ---------------------------
(***************************************************************************)
(* The containers of ef/datastructure: what holds of the ring buffer, the  *)
(* hash table and the lists, for every size, element, key and hash.        *)
(***************************************************************************)
EXTENDS MCContainers, FiniteSets, FiniteSetTheorems, SequenceTheorems, WellFoundedInduction, TLAPS

-----------------------------------------------------------------------------
LEMMA OneBefore ==
    ASSUME NEW n \in Nat, NEW i \in 1..n
    PROVE  i - 1 \in 0..n
  OBVIOUS

(* A sequence that has the elements of two, one after the other.           *)
LEMMA Joining ==
    ASSUME NEW S, NEW s \in Seq(S), NEW t \in Seq(S), NEW u \in Seq(S),
           Len(u) = Len(s) + Len(t),
           \A i \in 1..Len(s) : u[i] = s[i],
           \A i \in 1..Len(t) : u[Len(s) + i] = t[i]
    PROVE  u = s \o t
<1> DEFINE v == s \o t
<1>1. v \in Seq(S) /\ Len(v) = Len(s) + Len(t)
  BY ConcatProperties
<1>2. \A i \in 1..(Len(s) + Len(t)) : v[i] = IF i <= Len(s) THEN s[i] ELSE t[i - Len(s)]
  BY ConcatProperties
<1>3. Len(s) \in Nat /\ Len(t) \in Nat
  BY LenProperties
<1> HIDE DEF v
<1>4. ASSUME NEW i \in 1..Len(u) PROVE u[i] = v[i]
  <2>1. CASE i <= Len(s)
    BY <1>2, <1>3, <2>1
  <2>2. CASE ~ (i <= Len(s))
    <3>1. i - Len(s) \in 1..Len(t) /\ Len(s) + (i - Len(s)) = i
      BY <1>3, <2>2
    <3>2. u[i] = t[i - Len(s)]
      BY <3>1
    <3>3. QED
      BY <1>2, <2>2, <3>2
  <2>3. QED
    BY <2>1, <2>2
<1>5. u = v
  BY <1>1, <1>4, SeqEqual
<1>6. QED
  BY <1>5 DEF v

LEMMA AfterOne ==
    ASSUME NEW S, NEW d \in Seq(S), NEW s \in Seq(S), Len(d) = 1
    PROVE  /\ d \o s \in Seq(S) /\ Len(d \o s) = 1 + Len(s)
           /\ \A i \in 1..(1 + Len(s)) : (d \o s)[i] = IF i <= 1 THEN d[i] ELSE s[i - 1]
<1>1. /\ d \o s \in Seq(S) /\ Len(d \o s) = Len(d) + Len(s)
      /\ \A i \in 1..(Len(d) + Len(s)) :
             (d \o s)[i] = IF i <= Len(d) THEN d[i] ELSE s[i - Len(d)]
  BY ConcatProperties
<1>2. QED
  BY <1>1

LEMMA Pushing ==
    ASSUME NEW S, NEW s \in Seq(S), NEW e \in S
    PROVE  /\ <<e>> \o s \in Seq(S) /\ Len(<<e>> \o s) = Len(s) + 1
           /\ (<<e>> \o s)[1] = e
           /\ \A i \in 2..(Len(s) + 1) : (<<e>> \o s)[i] = s[i - 1]
<1> DEFINE d == <<e>>
           v == d \o s
<1>1. d \in Seq(S) /\ Len(d) = 1 /\ d[1] = e
  <2>1. d \in Seq(S)
    BY ONLY e \in S DEF d
  <2>2. Len(d) = 1 /\ d[1] = e
    BY ONLY TRUE DEF d
  <2>3. QED
    BY ONLY <2>1, <2>2
<1> HIDE DEF d
<1>2. v \in Seq(S) /\ Len(v) = 1 + Len(s)
  BY <1>1, AfterOne
<1>3. \A i \in 1..(1 + Len(s)) : v[i] = IF i <= 1 THEN d[i] ELSE s[i - 1]
  BY <1>1, AfterOne
<1>4. Len(s) \in Nat
  BY LenProperties
<1> HIDE DEF v
<1>5. v[1] = e
  BY <1>1, <1>3, <1>4
<1>6. \A i \in 2..(Len(s) + 1) : v[i] = s[i - 1]
  BY <1>3, <1>4
<1>7. QED
  BY <1>2, <1>4, <1>5, <1>6 DEF v, d

-----------------------------------------------------------------------------
(* The ring buffer.  What is read and not yet overwritten stands before    *)
(* the read position, the newest nearest to it, and has room there.        *)
Contents == RingData \union {Junk}

RingTypes ==
    /\ element \in [Ring!Slots -> Contents]
    /\ r \in Ring!Slots /\ w \in Ring!Slots
    /\ taken \in Seq(Contents)

StillThere ==
    /\ Len(taken) <= Ring!available_write
    /\ \A i \in 1..Len(taken) : taken[i] = element[Ring!Mod(r - i)]

RingInv == RingTypes /\ StillThere

(* The mask is a remainder: it takes one size off or adds one.             *)
LEMMA RingMod ==
    ASSUME NEW i \in (-RingSize)..(2 * RingSize - 1)
    PROVE  /\ Ring!Mod(i) = IF i < 0 THEN i + RingSize
                            ELSE IF i < RingSize THEN i ELSE i - RingSize
           /\ Ring!Mod(i) \in Ring!Slots
<1> DEFINE N == RingSize
           x == i + N
           m == x % N
           q == x \div N
<1>1. N \in Nat /\ N >= 2 /\ x \in 0..(3 * N - 1)
  BY RingAssumption
<1>2. m \in 0..(N - 1) /\ q \in Int
  BY <1>1
<1>3. x = q * N + m
  BY <1>1
<1>4. Ring!Mod(i) = m
  BY DEF Ring!Mod
<1>5. i \in Int /\ x = i + N
  BY <1>1
<1> HIDE DEF N, x, m, q
<1>6. ~ (q >= 3)
  <2>1. SUFFICES ASSUME q >= 3 PROVE q * N >= 3 * N
    BY <1>1, <1>2, <1>3
  <2>2. (q - 3) * N >= 0
    BY <1>1, <1>2, <2>1
  <2>3. QED
    BY <1>1, <1>2, <2>2
<1>7. ~ (q <= -1)
  <2>1. SUFFICES ASSUME q <= -1 PROVE q * N <= -N
    BY <1>1, <1>2, <1>3
  <2>2. (q + 1) * N <= 0
    BY <1>1, <1>2, <2>1
  <2>3. QED
    BY <1>1, <1>2, <2>2
<1>8. q = 0 \/ q = 1 \/ q = 2
  BY <1>2, <1>6, <1>7
<1>9. x = m \/ x = N + m \/ x = 2 * N + m
  BY <1>1, <1>2, <1>3, <1>8
<1>10. QED
  BY <1>1, <1>2, <1>4, <1>5, <1>9 DEF Ring!Slots, N

LEMMA RingModSum ==
    ASSUME NEW i \in (-RingSize)..(2 * RingSize - 1), NEW j \in (-RingSize)..RingSize,
           i + j \in (-RingSize)..(2 * RingSize - 1)
    PROVE  Ring!Mod(Ring!Mod(i) + j) = Ring!Mod(i + j)
<1>1. RingSize \in Nat /\ RingSize >= 2
  BY RingAssumption
<1> DEFINE m == Ring!Mod(i)
<1>2. /\ m = IF i < 0 THEN i + RingSize ELSE IF i < RingSize THEN i ELSE i - RingSize
      /\ m \in 0..(RingSize - 1)
  BY RingMod DEF Ring!Slots
<1> HIDE DEF m
<1>3. m + j \in (-RingSize)..(2 * RingSize - 1)
  BY <1>1, <1>2
<1>4. Ring!Mod(m + j) = IF m + j < 0 THEN m + j + RingSize
                        ELSE IF m + j < RingSize THEN m + j ELSE m + j - RingSize
  BY <1>1, <1>2, <1>3, RingMod
<1>5. Ring!Mod(i + j) = IF i + j < 0 THEN i + j + RingSize
                        ELSE IF i + j < RingSize THEN i + j ELSE i + j - RingSize
  BY <1>1, RingMod
<1>6. QED
  BY <1>1, <1>2, <1>4, <1>5 DEF m

(* How much there is to read and room to write, and what there is to read. *)
RingCounts ==
    /\ Ring!available_read = IF w >= r THEN w - r ELSE RingSize - r + w
    /\ Ring!available_read \in 0..(RingSize - 1)
    /\ Ring!available_write = RingSize - 1 - Ring!available_read

RingContent ==
    /\ Ring!content \in Seq(Contents)
    /\ Len(Ring!content) = Ring!available_read
    /\ \A i \in 1..Ring!available_read :
          /\ Ring!content[i] = element[Ring!Mod(r + i - 1)]
          /\ Ring!Mod(r + i - 1) \in Ring!Slots

LEMMA RingReading == RingTypes => RingCounts /\ RingContent
<1> SUFFICES ASSUME RingTypes PROVE RingCounts /\ RingContent
  OBVIOUS
<1> DEFINE n == Ring!available_read
<1>1. RingCounts
  BY RingAssumption DEF RingTypes, RingCounts, Ring!Slots, Ring!available_read, Ring!available_write
<1>2. n \in 0..(RingSize - 1)
  BY <1>1 DEF RingCounts
<1>3. \A i \in 1..n : Ring!Mod(r + i - 1) \in Ring!Slots
  <2>1. SUFFICES ASSUME NEW i \in 1..n PROVE Ring!Mod(r + i - 1) \in Ring!Slots
    OBVIOUS
  <2>2. r + i - 1 \in (-RingSize)..(2 * RingSize - 1)
    BY <1>2, RingAssumption DEF RingTypes, Ring!Slots
  <2>3. QED
    BY <2>2, RingMod
<1>4. Ring!content = [i \in 1..n |-> element[Ring!Mod(r + i - 1)]]
  BY DEF Ring!content
<1> HIDE DEF n
<1>5. Ring!content \in [1..n -> Contents]
  BY <1>3, <1>4 DEF RingTypes
<1>6. Ring!content \in Seq(Contents) /\ Len(Ring!content) = n
  BY <1>2, <1>5
<1>7. QED
  BY <1>1, <1>3, <1>4, <1>6 DEF n, RingContent

LEMMA RingReadingLater == RingTypes' => RingCounts' /\ RingContent'
BY RingReading, PTL

(* The room for what is kept is cut down to what is left.                  *)
LEMMA RingNewest ==
    ASSUME RingTypes, NEW n \in Nat
    PROVE  /\ Ring!Newest(n) \in Seq(Contents)
           /\ Len(Ring!Newest(n)) <= n /\ Len(Ring!Newest(n)) <= Len(taken)
           /\ \A i \in 1..Len(Ring!Newest(n)) : Ring!Newest(n)[i] = taken[i]
<1> DEFINE k == IF Len(taken) < n THEN Len(taken) ELSE n
<1>1. k \in Nat /\ k <= n /\ k <= Len(taken) /\ \A i \in 1..k : taken[i] \in Contents
  BY DEF RingTypes
<1>2. Ring!Newest(n) = SubSeq(taken, 1, k)
  BY DEF Ring!Newest
<1> HIDE DEF k
<1>3. /\ SubSeq(taken, 1, k) \in Seq(Contents)
      /\ Len(SubSeq(taken, 1, k)) = k
      /\ \A i \in 1..k : SubSeq(taken, 1, k)[i] = taken[i]
  BY <1>1, SubSeqProperties
<1>4. QED
  BY <1>1, <1>2, <1>3

(* What every operation starts from.                                       *)
LEMMA RingStart ==
    ASSUME RingInv
    PROVE  /\ RingSize \in Nat /\ RingSize >= 2
           /\ r \in 0..(RingSize - 1) /\ w \in 0..(RingSize - 1)
           /\ Ring!available_read \in 0..(RingSize - 1)
           /\ Ring!available_write = RingSize - 1 - Ring!available_read
           /\ Ring!available_read = IF w >= r THEN w - r ELSE RingSize - r + w
           /\ Len(taken) \in Nat /\ Len(taken) <= Ring!available_write
BY RingAssumption, RingReading, LenProperties
   DEF RingInv, RingTypes, StillThere, RingCounts, Ring!Slots

(* rbuffer_write appends one element.                                      *)
LEMMA RingWrite ==
    ASSUME RingInv, NEW d \in RingData, Ring!Write(d)
    PROVE  RingInv' /\ Ring!Abstract!Write
<1> DEFINE N == RingSize
           R == Ring!available_read
           A == Ring!available_write
           Q == Ring!content
           K == Len(taken')
           ds == [i \in 1..1 |-> d]
<1>1. /\ N \in Nat /\ N >= 2
      /\ r \in 0..(N - 1) /\ w \in 0..(N - 1)
      /\ R \in 0..(N - 1) /\ A = N - 1 - R
      /\ R = IF w >= r THEN w - r ELSE N - r + w
  BY RingStart
<1>2. element \in [0..(N - 1) -> Contents]
  BY DEF RingInv, RingTypes, Ring!Slots
<1>3. Q \in Seq(Contents) /\ Len(Q) = R
  BY RingReading DEF RingInv, RingContent
<1>4. /\ Ring!Mod(w + 1) # r
      /\ element' = [element EXCEPT ![w] = d]
      /\ w' = Ring!Mod(w + 1) /\ r' = r
      /\ taken' = Ring!Newest(A - 1)
  BY DEF Ring!Write, Ring!isfull
<1>5. Ring!Mod(w + 1) = IF w + 1 < N THEN w + 1 ELSE w + 1 - N
  BY <1>1, RingMod
<1>6. w' # r /\ w' \in 0..(N - 1) /\ R + 1 <= N - 1 /\ A - 1 \in Nat
  BY <1>1, <1>4, <1>5
<1>7. taken' \in Seq(Contents) /\ K \in Nat /\ K <= A - 1 /\ K <= Len(taken)
  BY <1>4, <1>6, RingNewest, LenProperties DEF RingInv
<1>8. \A i \in 1..K : taken'[i] = taken[i]
  BY <1>4, <1>6, RingNewest DEF RingInv
<1>9. RingTypes'
  <2>1. element' \in [Ring!Slots -> Contents]
    BY <1>2, <1>4 DEF Contents, Ring!Slots
  <2>2. QED
    BY <2>1, <1>1, <1>4, <1>6, <1>7 DEF RingTypes, Ring!Slots
<1>10. R' = R + 1 /\ A' = A - 1
  <2>1. R' = (IF w' >= r' THEN w' - r' ELSE N - r' + w') /\ A' = N - 1 - R'
    BY <1>9, RingReadingLater DEF RingCounts
  <2>2. r' = r /\ w' = IF w + 1 < N THEN w + 1 ELSE w + 1 - N
    BY <1>4, <1>5
  <2> HIDE DEF N, R, A
  <2>3. QED
    BY <2>1, <2>2, <1>1, <1>6
<1>11. /\ Q' \in Seq(Contents) /\ Len(Q') = R + 1
       /\ \A i \in 1..(R + 1) : Q'[i] = element'[Ring!Mod(r + i - 1)]
  BY <1>9, <1>10, <1>4, RingReadingLater DEF RingContent, Ring!Mod
<1>12. ASSUME NEW i \in (-A)..(R - 1)
       PROVE  element'[Ring!Mod(r + i)] = element[Ring!Mod(r + i)]
  <2>1. r + i \in (-N)..(2 * N - 1)
    BY <1>1
  <2>2. Ring!Mod(r + i) # w /\ Ring!Mod(r + i) \in 0..(N - 1)
    BY <2>1, <1>1, RingMod DEF Ring!Slots
  <2>3. QED
    BY <2>2, <1>1, <1>2, <1>4
<1>13. element'[Ring!Mod(r + R)] = d
  <2>1. r + R \in (-N)..(2 * N - 1)
    BY <1>1
  <2>2. Ring!Mod(r + R) = w
    BY <2>1, <1>1, RingMod DEF Ring!Slots
  <2>3. QED
    BY <2>2, <1>1, <1>2, <1>4
<1> HIDE DEF N, R, A, Q, K
<1>14. StillThere'
  <2>1. ASSUME NEW i \in 1..K
        PROVE  taken'[i] = element'[Ring!Mod(r' - i)]
    <3>1. Len(taken) \in Nat
      BY RingStart
    <3>2. i \in 1..Len(taken) /\ -i \in (-A)..(R - 1) /\ r + (-i) = r - i
      BY <1>1, <1>7, <3>1
    <3>3. taken'[i] = element[Ring!Mod(r - i)]
      BY <3>2, <1>8 DEF RingInv, StillThere
    <3>4. QED
      BY <3>2, <3>3, <1>4, <1>12
  <2>2. K <= A'
    BY <1>7, <1>10
  <2>3. QED
    BY <2>1, <2>2 DEF StillThere, Ring!Mod, A, K
<1>15. Q' = Q \o ds
  <2>1. ds \in Seq(Contents) /\ Len(ds) = 1 /\ ds[1] = d
    BY DEF Contents
  <2> HIDE DEF ds
  <2>2. ASSUME NEW i \in 1..Len(Q)
        PROVE  Q'[i] = Q[i]
    <3>1. i \in 1..R /\ i - 1 \in (-A)..(R - 1) /\ r + (i - 1) = r + i - 1 /\ i \in 1..(R + 1)
      BY <1>1, <1>3
    <3>2. Q'[i] = element[Ring!Mod(r + i - 1)]
      BY <3>1, <1>11, <1>12
    <3>3. Q[i] = element[Ring!Mod(r + i - 1)]
      BY <3>1, RingReading DEF RingInv, RingContent, R, Q
    <3>4. QED
      BY <3>2, <3>3
  <2>3. Q'[R + 1] = ds[1]
    <3>1. r + (R + 1) - 1 = r + R /\ R + 1 \in 1..(R + 1)
      BY <1>1
    <3>2. QED
      BY <3>1, <2>1, <1>11, <1>13
  <2>4. \A i \in 1..Len(ds) : Q'[Len(Q) + i] = ds[i]
    BY <2>1, <2>3, <1>3
  <2>5. Q' \in Seq(Contents) /\ Len(Q') = Len(Q) + Len(ds)
    BY <2>1, <1>3, <1>11
  <2>6. QED
    BY ONLY <1>3, <2>1, <2>2, <2>4, <2>5, Joining
<1>16. Ring!Abstract!Write
  <2>1. ds \in [1..1 -> RingData] /\ 1 \in 1..(RingSize - 1 - Len(Ring!content))
    BY <1>1, <1>3, <1>6 DEF N, Q
  <2>2. RingSize - 1 - Len(Ring!content') = A - 1
    BY <1>1, <1>11 DEF N, Q
  <2>3. taken' = Ring!Abstract!Newest(taken, RingSize - 1 - Len(Ring!content'))
    BY <1>4, <2>2 DEF Ring!Newest, Ring!Abstract!Newest
  <2>4. QED
    BY <1>15, <2>1, <2>3 DEF Ring!Abstract!Write, Q
<1>17. QED
  BY <1>9, <1>14, <1>16 DEF RingInv

(* rbuffer_read takes the first one, which is still there.                 *)
LEMMA RingRead ==
    ASSUME RingInv, Ring!Read
    PROVE  RingInv' /\ Ring!Abstract!Read
<1> DEFINE N == RingSize
           R == Ring!available_read
           A == Ring!available_write
           Q == Ring!content
           first == <<element[r]>>
<1>1. /\ N \in Nat /\ N >= 2
      /\ r \in 0..(N - 1) /\ w \in 0..(N - 1)
      /\ R \in 0..(N - 1) /\ A = N - 1 - R
      /\ R = IF w >= r THEN w - r ELSE N - r + w
  BY RingStart
<1>2. Q \in Seq(Contents) /\ Len(Q) = R
  BY RingReading DEF RingInv, RingContent
<1>3. \A i \in 1..R : Q[i] = element[Ring!Mod(r + i - 1)]
  BY RingReading DEF RingInv, RingContent
<1>4. w # r /\ taken' = first \o taken /\ r' = Ring!Mod(r + 1) /\ element' = element /\ w' = w
  BY DEF Ring!Read, Ring!isempty
<1>5. Ring!Mod(r + 1) = (IF r + 1 < N THEN r + 1 ELSE r + 1 - N) /\ Ring!Mod(r) = r
  BY <1>1, RingMod
<1>6. r' \in 0..(N - 1) /\ R >= 1
  BY <1>1, <1>4, <1>5
<1>7. element[r] \in Contents
  BY <1>1 DEF RingInv, RingTypes, Ring!Slots
<1>8. taken \in Seq(Contents) /\ Len(taken) \in Nat /\ Len(taken) <= A
  BY RingStart DEF RingInv, RingTypes
<1>9. /\ taken' \in Seq(Contents) /\ Len(taken') = Len(taken) + 1
      /\ taken'[1] = element[r]
      /\ \A i \in 2..(Len(taken) + 1) : taken'[i] = taken[i - 1]
  <2>1. taken' = <<element[r]>> \o taken
    BY <1>4
  <2>2. QED
    BY ONLY <2>1, <1>7, <1>8, Pushing
<1>10. RingTypes'
  BY <1>1, <1>4, <1>6, <1>9 DEF RingInv, RingTypes, Ring!Slots
<1>11. R' = R - 1 /\ A' = A + 1
  <2>1. R' = (IF w' >= r' THEN w' - r' ELSE N - r' + w') /\ A' = N - 1 - R'
    BY <1>10, RingReadingLater DEF RingCounts
  <2>2. w' = w /\ r' = IF r + 1 < N THEN r + 1 ELSE r + 1 - N
    BY <1>4, <1>5
  <2> HIDE DEF N, R, A
  <2>3. QED
    BY <2>1, <2>2, <1>1, <1>4
<1>12. /\ Q' \in Seq(Contents) /\ Len(Q') = R - 1
       /\ \A i \in 1..(R - 1) : Q'[i] = element[Ring!Mod(r' + i - 1)]
  BY <1>10, <1>11, <1>4, RingReadingLater DEF RingContent, Ring!Mod
<1>13. ASSUME NEW i \in (-A)..R
       PROVE  Ring!Mod(r' + i - 1) = Ring!Mod(r + i)
  <2>1. r + 1 \in (-N)..(2 * N - 1) /\ i - 1 \in (-N)..N /\ (r + 1) + (i - 1) \in (-N)..(2 * N - 1)
    BY <1>1
  <2>2. Ring!Mod(Ring!Mod(r + 1) + (i - 1)) = Ring!Mod((r + 1) + (i - 1))
    BY <2>1, <1>1, RingModSum
  <2>3. (r + 1) + (i - 1) = r + i /\ r' + (i - 1) = r' + i - 1
    BY <1>1, <1>6
  <2>4. QED
    BY <2>2, <2>3, <1>4
<1> HIDE DEF N, R, A, Q
<1>14. StillThere'
  <2>1. ASSUME NEW i \in 1..(Len(taken) + 1)
        PROVE  taken'[i] = element[Ring!Mod(r' - i)]
    <3>1. CASE i = 1
      <4>1. r' + 0 - 1 = r' - i /\ r + 0 = r /\ 0 \in (-A)..R
        BY <1>1, <1>6, <3>1
      <4>2. QED
        BY <4>1, <3>1, <1>5, <1>9, <1>13
    <3>2. CASE i # 1
      <4>1. /\ i - 1 \in 1..Len(taken) /\ i \in 2..(Len(taken) + 1)
            /\ 1 - i \in (-A)..R /\ r' + (1 - i) - 1 = r' - i /\ r + (1 - i) = r - (i - 1)
        BY <1>1, <1>6, <1>8, <3>2
      <4>2. taken[i - 1] = element[Ring!Mod(r - (i - 1))]
        BY <4>1 DEF RingInv, StillThere
      <4>3. QED
        BY <4>1, <4>2, <1>9, <1>13
    <3>3. QED
      BY <3>1, <3>2
  <2>2. Len(taken') <= A'
    BY <1>1, <1>8, <1>9, <1>11
  <2>3. QED
    BY <2>1, <2>2, <1>4, <1>9 DEF StillThere, Ring!Mod, A
<1>15. Q # <<>> /\ Head(Q) = element[r]
  <2>1. Q # <<>> /\ Head(Q) = Q[1]
    BY <1>1, <1>2, <1>6
  <2>2. 1 \in 1..R /\ r + 1 - 1 = r
    BY <1>1, <1>6
  <2>3. QED
    BY <2>1, <2>2, <1>3, <1>5
<1>16. Q' = Tail(Q)
  <2> DEFINE t == Tail(Q)
  <2>1. t \in Seq(Contents) /\ Len(t) = R - 1 /\ \A i \in 1..(R - 1) : t[i] = Q[i + 1]
    BY <1>2, <1>15, HeadTailProperties
  <2> HIDE DEF t
  <2>2. ASSUME NEW i \in 1..(R - 1)
        PROVE  Q'[i] = t[i]
    <3>1. i + 1 \in 1..R /\ i \in (-A)..R /\ r + (i + 1) - 1 = r + i
      BY <1>1
    <3>2. Q'[i] = element[Ring!Mod(r + i)]
      BY <3>1, <1>12, <1>13
    <3>3. QED
      BY <3>1, <3>2, <2>1, <1>3
  <2>3. QED
    BY <2>1, <2>2, <1>12, SeqEqual DEF t
<1>17. Ring!Abstract!Read
  BY <1>4, <1>15, <1>16 DEF Ring!Abstract!Read, Q, first
<1>18. QED
  BY <1>10, <1>14, <1>17 DEF RingInv

(* rbuffer_unread puts back the newest that is kept.                       *)
LEMMA RingUnread ==
    ASSUME RingInv, Ring!Unread
    PROVE  RingInv' /\ Ring!Abstract!Unread
<1> DEFINE N == RingSize
           R == Ring!available_read
           A == Ring!available_write
           Q == Ring!content
           e == Head(taken)
<1>1. /\ N \in Nat /\ N >= 2
      /\ r \in 0..(N - 1) /\ w \in 0..(N - 1)
      /\ R \in 0..(N - 1) /\ A = N - 1 - R
      /\ R = IF w >= r THEN w - r ELSE N - r + w
  BY RingStart
<1>2. Q \in Seq(Contents) /\ Len(Q) = R
  BY RingReading DEF RingInv, RingContent
<1>3. \A i \in 1..R : Q[i] = element[Ring!Mod(r + i - 1)]
  BY RingReading DEF RingInv, RingContent
<1>4. /\ taken # <<>> /\ taken' = Tail(taken)
      /\ Ring!Mod(r - 1) # w /\ r' = Ring!Mod(r - 1) /\ element' = element /\ w' = w
  BY DEF Ring!Unread
<1>5. Ring!Mod(r - 1) = IF r - 1 < 0 THEN r - 1 + N ELSE r - 1
  BY <1>1, RingMod
<1>6. r' \in 0..(N - 1)
  BY <1>1, <1>4, <1>5
<1>7. taken \in Seq(Contents) /\ Len(taken) \in Nat /\ Len(taken) <= A
  BY RingStart DEF RingInv, RingTypes
<1>8. /\ taken' \in Seq(Contents) /\ Len(taken') = Len(taken) - 1 /\ Len(taken) >= 1
      /\ \A i \in 1..(Len(taken) - 1) : taken'[i] = taken[i + 1]
      /\ e = taken[1] /\ e \in Contents
  BY <1>4, <1>7, HeadTailProperties
<1>9. RingTypes'
  BY <1>1, <1>4, <1>6, <1>8 DEF RingInv, RingTypes, Ring!Slots
<1>10. R' = R + 1 /\ A' = A - 1
  <2>1. R' = (IF w' >= r' THEN w' - r' ELSE N - r' + w') /\ A' = N - 1 - R'
    BY <1>9, RingReadingLater DEF RingCounts
  <2>2. w' = w /\ r' # w /\ r' = IF r - 1 < 0 THEN r - 1 + N ELSE r - 1
    BY <1>4, <1>5
  <2> HIDE DEF N, R, A
  <2>3. QED
    BY <2>1, <2>2, <1>1
<1>11. /\ Q' \in Seq(Contents) /\ Len(Q') = R + 1
       /\ \A i \in 1..(R + 1) : Q'[i] = element[Ring!Mod(r' + i - 1)]
  BY <1>9, <1>10, <1>4, RingReadingLater DEF RingContent, Ring!Mod
<1>12. ASSUME NEW i \in (-A)..(R + 1)
       PROVE  Ring!Mod(r' + i) = Ring!Mod(r + i - 1)
  <2>1. /\ r - 1 \in (-N)..(2 * N - 1) /\ i \in (-N)..N
        /\ (r - 1) + i = r + i - 1
    BY <1>1
  <2>2. CASE r + i - 1 \in (-N)..(2 * N - 1)
    BY <2>1, <2>2, <1>1, <1>4, RingModSum
  <2>3. QED
    BY <2>2, <1>1
<1> HIDE DEF N, R, A, Q, e
<1>13. StillThere'
  <2>1. ASSUME NEW i \in 1..(Len(taken) - 1)
        PROVE  taken'[i] = element[Ring!Mod(r' - i)]
    <3>1. /\ i + 1 \in 1..Len(taken) /\ -i \in (-A)..(R + 1)
          /\ r' + (-i) = r' - i /\ r + (-i) - 1 = r - (i + 1)
      BY <1>1, <1>6, <1>7
    <3>2. taken[i + 1] = element[Ring!Mod(r - (i + 1))]
      BY <3>1 DEF RingInv, StillThere
    <3>3. QED
      BY <3>1, <3>2, <1>8, <1>12
  <2>2. Len(taken') <= A'
    BY <1>1, <1>7, <1>8, <1>10
  <2>3. QED
    BY <2>1, <2>2, <1>4, <1>8 DEF StillThere, Ring!Mod, A
<1>14. Q' = <<e>> \o Q
  <2> DEFINE d == <<e>>
  <2>1. d \in Seq(Contents) /\ Len(d) = 1 /\ d[1] = e
    BY <1>8
  <2> HIDE DEF d
  <2>2. Q'[1] = e
    <3>1. 1 \in 1..Len(taken) /\ 1 \in 1..(R + 1) /\ 0 \in (-A)..(R + 1)
          /\ r' + 1 - 1 = r' + 0 /\ r + 0 - 1 = r - 1
      BY <1>1, <1>6, <1>7, <1>8
    <3>2. taken[1] = element[Ring!Mod(r - 1)]
      BY <3>1 DEF RingInv, StillThere
    <3>3. QED
      BY <3>1, <3>2, <1>8, <1>11, <1>12
  <2>3. ASSUME NEW i \in 1..Len(Q)
        PROVE  Q'[1 + i] = Q[i]
    <3>1. /\ i \in 1..R /\ i \in (-A)..(R + 1) /\ 1 + i \in 1..(R + 1)
          /\ r' + (1 + i) - 1 = r' + i
      BY <1>1, <1>2, <1>6
    <3>2. QED
      BY <3>1, <1>3, <1>11, <1>12
  <2>4. Len(Q') = Len(d) + Len(Q)
    BY <1>1, <1>2, <1>11, <2>1
  <2>5. \A i \in 1..Len(d) : Q'[i] = d[i]
    BY <2>1, <2>2
  <2>6. \A i \in 1..Len(Q) : Q'[Len(d) + i] = Q[i]
    BY <2>1, <2>3
  <2>7. Q' = d \o Q
    BY ONLY <1>2, <1>11, <2>1, <2>4, <2>5, <2>6, Joining
  <2>8. QED
    BY <2>7 DEF d
<1>15. Ring!Abstract!Unread
  BY <1>4, <1>14 DEF Ring!Abstract!Unread, Q, e
<1>16. QED
  BY <1>9, <1>13, <1>15 DEF RingInv

(* rbuffer_unwrite drops the last one, and rbuffer_clear all of them.      *)
LEMMA RingUnwrite ==
    ASSUME RingInv, Ring!Unwrite
    PROVE  RingInv' /\ Ring!Abstract!Unwrite
<1> DEFINE N == RingSize
           R == Ring!available_read
           A == Ring!available_write
           Q == Ring!content
           s == SubSeq(Q, 1, R - 1)
<1>1. /\ N \in Nat /\ N >= 2
      /\ r \in 0..(N - 1) /\ w \in 0..(N - 1)
      /\ R \in 0..(N - 1) /\ A = N - 1 - R
      /\ R = IF w >= r THEN w - r ELSE N - r + w
  BY RingStart
<1>2. Q \in Seq(Contents) /\ Len(Q) = R
  BY RingReading DEF RingInv, RingContent
<1>3. \A i \in 1..R : Q[i] = element[Ring!Mod(r + i - 1)]
  BY RingReading DEF RingInv, RingContent
<1>4. w # r /\ Ring!Mod(w - 1) # r /\ w' = Ring!Mod(w - 1) /\ UNCHANGED <<element, r, taken>>
  BY DEF Ring!Unwrite, Ring!isempty
<1>5. Ring!Mod(w - 1) = IF w - 1 < 0 THEN w - 1 + N ELSE w - 1
  BY <1>1, RingMod
<1>6. w' \in 0..(N - 1) /\ w' # r /\ R >= 2
  BY <1>1, <1>4, <1>5
<1>7. RingTypes'
  BY <1>4, <1>6 DEF RingInv, RingTypes, Ring!Slots
<1>8. R' = R - 1 /\ A' = A + 1
  <2>1. R' = (IF w' >= r' THEN w' - r' ELSE N - r' + w') /\ A' = N - 1 - R'
    BY <1>7, RingReadingLater DEF RingCounts
  <2>2. r' = r /\ w' = IF w - 1 < 0 THEN w - 1 + N ELSE w - 1
    BY <1>4, <1>5
  <2> HIDE DEF N, R, A
  <2>3. QED
    BY <2>1, <2>2, <1>1, <1>6
<1>9. /\ Q' \in Seq(Contents) /\ Len(Q') = R - 1
      /\ \A i \in 1..(R - 1) : Q'[i] = element[Ring!Mod(r + i - 1)]
  BY <1>7, <1>8, <1>4, RingReadingLater DEF RingContent, Ring!Mod
<1> HIDE DEF N, R, A, Q
<1>10. StillThere'
  <2>1. Len(taken') <= A'
    BY <1>1, <1>4, <1>8, RingStart DEF A
  <2>2. QED
    BY <2>1, <1>4 DEF RingInv, StillThere, Ring!Mod, A
<1>11. Q' = s
  <2>1. \A i \in 1..(R - 1) : Q[i] \in Contents
    BY <1>1, <1>2
  <2>2. s \in Seq(Contents) /\ Len(s) = R - 1 /\ \A i \in 1..(R - 1) : s[i] = Q[i]
    BY <2>1, <1>1, <1>6, SubSeqProperties
  <2> HIDE DEF s
  <2>3. \A i \in 1..(R - 1) : Q'[i] = s[i]
    BY <2>2, <1>1, <1>3, <1>9
  <2>4. QED
    BY <2>2, <2>3, <1>9, SeqEqual
<1>12. Ring!Abstract!Unwrite
  BY <1>1, <1>2, <1>4, <1>6, <1>11 DEF Ring!Abstract!Unwrite, Q
<1>13. QED
  BY <1>7, <1>10, <1>12 DEF RingInv

LEMMA RingClear ==
    ASSUME RingInv, Ring!Clear
    PROVE  RingInv' /\ Ring!Abstract!Clear
<1>1. w' = r /\ UNCHANGED <<element, r, taken>>
  BY DEF Ring!Clear
<1>2. RingTypes'
  BY <1>1 DEF RingInv, RingTypes
<1>3. Ring!available_read' = 0 /\ Ring!available_write' = RingSize - 1
  BY <1>1, <1>2, RingStart, RingReadingLater DEF RingCounts
<1>4. Len(taken') <= Ring!available_write'
  BY <1>1, <1>3, RingStart
<1>5. Ring!content' = <<>>
  BY <1>2, <1>3, RingReadingLater DEF RingContent
<1>6. QED
  BY <1>1, <1>2, <1>4, <1>5
     DEF RingInv, StillThere, Ring!Mod, Ring!Abstract!Clear

(* fd_read_cb fills an empty buffer up to its end.                         *)
LEMMA RingFill ==
    ASSUME RingInv, Ring!Fill
    PROVE  RingInv' /\ Ring!Abstract!Write
<1> DEFINE N == RingSize
           R == Ring!available_read
           A == Ring!available_write
           Q == Ring!content
           K == Len(taken')
           room == IF Ring!available_linear_write < 1 THEN 1 ELSE Ring!available_linear_write
<1>1. /\ N \in Nat /\ N >= 2
      /\ r \in 0..(N - 1) /\ w \in 0..(N - 1)
      /\ R \in 0..(N - 1) /\ A = N - 1 - R
      /\ R = IF w >= r THEN w - r ELSE N - r + w
  BY RingStart
<1>2. w = r /\ r' = r
  BY DEF Ring!Fill, Ring!isempty
<1> DEFINE Filled(n, ds) ==
              /\ element' = [s \in Ring!Slots |-> IF s \in r..(r + n - 1)
                                                  THEN ds[s - r + 1] ELSE element[s]]
              /\ w' = Ring!Mod(w + n)
              /\ taken' = Ring!Newest(A - n)
<1>filled. PICK n \in 1..room : \E ds \in [1..n -> RingData] : Filled(n, ds)
  BY DEF Ring!Fill, Ring!addr_w
<1>3. PICK ds \in [1..n -> RingData] : Filled(n, ds)
  BY <1>filled
<1>4. n \in 1..(N - 1) /\ r + n <= N /\ R = 0 /\ A = N - 1
  <2>1. Ring!available_linear_write = N - w - 1
    BY <1>1, <1>2 DEF Ring!available_linear_write
  <2>2. room = IF N - w - 1 < 1 THEN 1 ELSE N - w - 1
    BY <2>1
  <2> HIDE DEF room
  <2>3. QED
    BY <1>1, <1>2, <2>2
<1>5. w' = IF r + n < N THEN r + n ELSE 0
  BY <1>1, <1>2, <1>3, <1>4, RingMod
<1>6. w' \in 0..(N - 1) /\ A - n \in Nat
  BY <1>1, <1>4, <1>5
<1>7. taken' \in Seq(Contents) /\ K \in Nat /\ K <= A - n /\ K <= Len(taken)
  BY <1>3, <1>6, RingNewest, LenProperties DEF RingInv
<1>8. \A i \in 1..K : taken'[i] = taken[i]
  BY <1>3, <1>6, RingNewest DEF RingInv
<1>9. RingTypes'
  <2>1. \A s \in r..(r + n - 1) : s - r + 1 \in 1..n
    BY <1>1, <1>4
  <2>2. element' \in [Ring!Slots -> Contents]
    BY <2>1, <1>3 DEF RingInv, RingTypes, Contents
  <2>3. QED
    BY <2>2, <1>2, <1>1, <1>6, <1>7 DEF RingTypes, Ring!Slots
<1>10. R' = n /\ A' = A - n
  <2>1. R' = (IF w' >= r' THEN w' - r' ELSE N - r' + w') /\ A' = N - 1 - R'
    BY <1>9, RingReadingLater DEF RingCounts
  <2> HIDE DEF N, R, A
  <2>2. QED
    BY <2>1, <1>1, <1>2, <1>4, <1>5
<1>11. /\ Q' \in Seq(Contents) /\ Len(Q') = n
       /\ \A i \in 1..n : Q'[i] = element'[Ring!Mod(r + i - 1)]
  BY <1>9, <1>10, <1>2, RingReadingLater DEF RingContent, Ring!Mod
<1> HIDE DEF N, R, A, Q, K, room
<1>12. StillThere'
  <2>1. ASSUME NEW i \in 1..K
        PROVE  taken'[i] = element'[Ring!Mod(r' - i)]
    <3>1. Len(taken) \in Nat
      BY RingStart
    <3>2. i \in 1..Len(taken) /\ r - i \in (-N)..(2 * N - 1)
      BY <1>1, <1>4, <1>7, <3>1
    <3>3. taken'[i] = element[Ring!Mod(r - i)]
      BY <3>2, <1>8 DEF RingInv, StillThere
    <3>4. Ring!Mod(r - i) \in Ring!Slots
      BY <3>2, <1>1, RingMod DEF N
    <3>5. Ring!Mod(r - i) \notin r..(r + n - 1)
      <4>1. Ring!Mod(r - i) = IF r - i < 0 THEN r - i + N ELSE r - i
        BY <3>2, <1>1, RingMod DEF N
      <4>2. i <= N - 1 - n
        BY <1>1, <1>4, <1>7
      <4>3. QED
        BY <4>1, <4>2, <1>1, <1>4
    <3>6. QED
      BY <3>3, <3>4, <3>5, <1>2, <1>3
  <2>2. K <= A'
    BY <1>7, <1>10
  <2>3. QED
    BY <2>1, <2>2 DEF StillThere, Ring!Mod, A, K
<1>13. Ring!content = <<>>
  BY <1>4, RingReading DEF RingInv, RingContent, R
<1>14. Q' = <<>> \o ds
  <2>1. ds \in Seq(Contents) /\ Len(ds) = n
    BY <1>4 DEF Contents
  <2>2. ASSUME NEW i \in 1..n
        PROVE  Q'[i] = ds[i]
    <3>1. /\ r + i - 1 \in (-N)..(2 * N - 1) /\ ~ (r + i - 1 < 0) /\ r + i - 1 < N
          /\ r + i - 1 \in r..(r + n - 1) /\ (r + i - 1) - r + 1 = i
      BY <1>1, <1>4
    <3>2. Ring!Mod(r + i - 1) = r + i - 1 /\ Ring!Mod(r + i - 1) \in Ring!Slots
      BY <3>1, <1>1, RingMod DEF N
    <3>3. element'[r + i - 1] = ds[i]
      BY <3>1, <3>2, <1>3
    <3>4. QED
      BY <3>2, <3>3, <1>11
  <2>3. Q' = ds
    BY <2>1, <2>2, <1>11, SeqEqual
  <2>4. QED
    BY <2>1, <2>3, ConcatEmptySeq
<1>15. Ring!Abstract!Write
  <2>1. n \in 1..(RingSize - 1 - Len(Ring!content))
    BY <1>1, <1>4, <1>13 DEF N
  <2>2. RingSize - 1 - Len(Ring!content') = A - n
    BY <1>1, <1>4, <1>11 DEF N, Q
  <2>3. taken' = Ring!Abstract!Newest(taken, RingSize - 1 - Len(Ring!content'))
    BY <1>3, <2>2 DEF Ring!Newest, Ring!Abstract!Newest
  <2>4. Ring!content' = Ring!content \o ds
    BY <1>13, <1>14 DEF Q
  <2>5. QED
    BY <2>1, <2>3, <2>4 DEF Ring!Abstract!Write
<1>16. QED
  BY <1>9, <1>12, <1>15 DEF RingInv

LEMMA RingInit == Ring!Init => RingInv /\ Ring!Abstract!Init
<1> SUFFICES ASSUME Ring!Init PROVE RingInv /\ Ring!Abstract!Init
  OBVIOUS
<1>1. /\ element = [s \in Ring!Slots |-> Junk] /\ r = 0 /\ w = 0 /\ taken = <<>>
      /\ RingSize \in Nat /\ RingSize >= 2
  BY RingAssumption DEF Ring!Init
<1>2. RingTypes
  BY <1>1 DEF RingTypes, Contents, Ring!Slots
<1>3. Ring!available_read = 0 /\ Ring!available_write = RingSize - 1
  BY <1>1, <1>2, RingReading DEF RingCounts
<1>4. Ring!content = <<>>
  BY <1>2, <1>3, RingReading DEF RingContent
<1>5. QED
  BY <1>1, <1>2, <1>3, <1>4 DEF RingInv, StillThere, Ring!Abstract!Init

LEMMA RingStep ==
    RingInv /\ [Ring!Next]_ring
       => RingInv' /\ [Ring!Abstract!Next]_<<Ring!content, taken>>
<1> SUFFICES ASSUME RingInv, [Ring!Next]_ring
             PROVE  RingInv' /\ [Ring!Abstract!Next]_<<Ring!content, taken>>
  OBVIOUS
<1>1. CASE UNCHANGED ring
  <2>1. UNCHANGED <<element, r, w, taken>>
    BY <1>1 DEF ring
  <2>2. Ring!content' = Ring!content
    BY <2>1 DEF Ring!content, Ring!available_read, Ring!available_write, Ring!Mod
  <2>3. RingInv'
    BY <2>1 DEF RingInv, RingTypes, StillThere, Ring!available_write, Ring!Mod
  <2>4. QED
    BY <2>1, <2>2, <2>3
<1>2. CASE Ring!Next
  BY <1>2, RingWrite, RingRead, RingUnread, RingUnwrite, RingClear, RingFill
     DEF Ring!Next, Ring!Abstract!Next
<1>3. QED
  BY <1>1, <1>2

(* A step of the program that is not one of the ring leaves it alone.      *)
LEMMA RingAlone == [ContainersNext]_all => [Ring!Next]_ring
BY DEF ContainersNext, all

(* The ring buffer is a first-in first-out queue whose reader may put back *)
(* what it took, for every size of at least two (rbuffer.c:43-132 and      *)
(* fd_read_cb).                                                            *)
THEOREM RingRefinement == ContainersSpec => RingImplementsQueue
<1>1. ContainersInit => Ring!Init
  BY DEF ContainersInit
<1>2. QED
  BY <1>1, RingInit, RingStep, RingAlone, PTL
     DEF ContainersSpec, RingImplementsQueue, Ring!ImplementsReadBackQueue, Ring!Abstract!Spec

-----------------------------------------------------------------------------
(* The heap.  HoldsAll and HeapOrder speak of the time between two calls;  *)
(* inside the loops the position `hole` is out of order and `moving` is in *)
(* no position.  HeapInv says what holds all the same: the order away from *)
(* the hole, the order across it (what is above the hole comes before what *)
(* is below), and on which side of the hole the moving element is known to *)
(* fit: below it when going up, above it when going down.                  *)

(* The positions whose content counts.                                     *)
Filled == {i \in 1..count : pc = "idle" \/ i # hole}

InLoop ==
    pc # "idle" =>
      /\ hole \in Positions /\ moving \in Elements
      /\ hole <= count \/ (pc = "down" /\ hole = 1 /\ count = 0)

Stored ==
    /\ \A i \in Filled : elements[i] \in inside /\ index[elements[i]] = i
    /\ pc # "idle" => \A i \in Filled : elements[i] # moving
    /\ pc # "idle" => (moving \in inside <=> hole <= count)
    /\ \A e \in inside : \/ \E i \in Filled : elements[i] = e
                         \/ pc # "idle" /\ e = moving

OrderAway ==
    \A i \in 2..count :
      pc = "idle" \/ (i # hole /\ parent(i) # hole) =>
        ~ After(elements[parent(i)], elements[i])

OrderAcross ==
    pc # "idle" /\ hole > 1 =>
      \A i \in 2..count : parent(i) = hole => ~ After(elements[parent(hole)], elements[i])

OrderBelow ==
    pc = "up" => \A i \in 2..count : parent(i) = hole => ~ After(moving, elements[i])

OrderAbove ==
    pc = "down" /\ hole > 1 => ~ After(elements[parent(hole)], moving)

Order == OrderAway /\ OrderAcross /\ OrderBelow /\ OrderAbove

HeapInv == TypeOK /\ InLoop /\ Stored /\ Order

-----------------------------------------------------------------------------
(* Positions of a binary heap.                                             *)
LEMMA Parent ==
    ASSUME NEW i \in Nat, i >= 2
    PROVE  parent(i) \in Nat /\ 1 <= parent(i) /\ parent(i) < i
BY DEF parent

LEMMA Children ==
    ASSUME NEW h \in Nat, h >= 1
    PROVE  /\ parent(2 * h) = h /\ parent(2 * h + 1) = h
           /\ \A i \in Nat : parent(i) = h => i = 2 * h \/ i = 2 * h + 1
BY DEF parent

(* "Does not come after" is a total preorder, whichever way the queue is   *)
(* sorted.                                                                 *)
LEMMA Preorder ==
    ASSUME NEW a \in Int, NEW b \in Int, NEW c \in Int
    PROVE  /\ ~ Cmp(a, a)
           /\ Cmp(a, b) => ~ Cmp(b, a)
           /\ ~ Cmp(a, b) /\ ~ Cmp(b, c) => ~ Cmp(a, c)
<1>1. CASE Descending
  BY <1>1 DEF Cmp
<1>2. CASE ~ Descending
  BY <1>2 DEF Cmp
<1> QED
  BY <1>1, <1>2

LEMMA AfterIsOrder ==
    ASSUME TypeOK, NEW e \in Elements, NEW f \in Elements, NEW g \in Elements
    PROVE  /\ ~ After(e, e)
           /\ After(e, f) => ~ After(f, e)
           /\ ~ After(e, f) /\ ~ After(f, g) => ~ After(e, g)
<1>1. priority[e] \in Int /\ priority[f] \in Int /\ priority[g] \in Int
  BY PhqAssumption DEF TypeOK
<1> QED
  BY <1>1, Preorder DEF After

LEMMA InitHeapInv == Init => HeapInv
BY PhqAssumption
   DEF Init, HeapInv, TypeOK, InLoop, Stored, Order, OrderAway, OrderAcross, OrderBelow,
       OrderAbove, Filled, Positions

-----------------------------------------------------------------------------
(* The calls: each opens a hole.                                           *)
LEMMA InsertHeapInv ==
    ASSUME HeapInv, NEW e \in Elements, NEW p \in Priorities, Insert(e, p)
    PROVE  HeapInv'
<1> USE DEF Insert, Begin
<1>1. pc = "idle" /\ e \notin inside /\ count \in Nat /\ count < Capacity
  BY DEF HeapInv, TypeOK
<1>2. TypeOK' /\ InLoop'
  BY <1>1, PhqAssumption DEF HeapInv, TypeOK, InLoop, Positions
<1>3. Filled = 1..count /\ Filled' = 1..count
  BY <1>1 DEF Filled, HeapInv, TypeOK
<1>4. \A i \in 1..count : elements'[i] = elements[i] /\ elements[i] \in inside
  BY <1>1, <1>3 DEF HeapInv, TypeOK, Stored, Positions
<1>5. Stored'
  BY <1>1, <1>3, <1>4 DEF HeapInv, TypeOK, Stored, Positions
<1>6. \A i \in 1..count : priority'[elements'[i]] = priority[elements[i]]
  BY <1>1, <1>4 DEF HeapInv, TypeOK
<1>7. Order'
  <2>1. ASSUME NEW i \in 2..count', i # hole'
        PROVE  ~ After(elements[parent(i)], elements[i])'
    BY <1>1, <1>6, <2>1, Parent DEF HeapInv, Order, OrderAway, After
  <2>2. \A i \in 2..count' : parent(i) # hole'
    BY <1>1, Parent
  <2> QED
    BY <2>1, <2>2, <1>1 DEF Order, OrderAway, OrderAcross, OrderBelow, OrderAbove
<1> QED
  BY <1>2, <1>5, <1>7 DEF HeapInv

LEMMA PopHeapInv == ASSUME HeapInv, Pop PROVE HeapInv'
<1> USE DEF Pop, Begin
<1>1. pc = "idle" /\ count \in 1..Capacity /\ Filled = 1..count
  BY DEF HeapInv, TypeOK, Filled
<1>2. elements[count] \in Elements /\ elements[1] \in Elements
  BY <1>1 DEF HeapInv, TypeOK, Stored
<1>3. pc' = "down" /\ hole' = 1 /\ moving' = elements[count] /\ count' = count - 1
  <2>1. 1 \in Positions /\ elements \in [Positions -> Elements \union {NULL}]
    BY <1>1, PhqAssumption DEF HeapInv, TypeOK, Positions
  <2>2. elements'[1] = elements[count]
    BY <2>1
  <2> QED
    BY <2>2
<1>4. TypeOK' /\ InLoop'
  BY <1>1, <1>2, <1>3, PhqAssumption DEF HeapInv, TypeOK, InLoop, Positions
<1>5. Filled' = 2..count'
  BY <1>1, <1>3 DEF Filled
<1>6. \A i \in 2..count : elements'[i] = elements[i]
  BY <1>1 DEF HeapInv, TypeOK, Positions
<1>7. Stored'
  <2>1. \A i, j \in 1..count : elements[i] = elements[j] => i = j
    BY <1>1 DEF HeapInv, Stored
  <2>2. \A i \in Filled' : (elements[i] \in inside /\ index[elements[i]] = i)'
    BY <1>1, <1>3, <1>5, <1>6, <2>1 DEF HeapInv, Stored
  <2>3. \A i \in Filled' : elements'[i] # moving'
    BY <1>1, <1>3, <1>5, <1>6, <2>1
  <2>4. hole' <= count' <=> moving' \in inside'
    BY <1>1, <1>3, <2>1 DEF HeapInv, Stored
  <2>5. \A e \in inside' : e = moving' \/ \E i \in Filled' : elements'[i] = e
    BY <1>1, <1>3, <1>5, <1>6 DEF HeapInv, Stored
  <2> QED
    BY <1>3, <2>2, <2>3, <2>4, <2>5 DEF Stored
<1>8. Order'
  <2>1. ASSUME NEW i \in 2..count', parent(i) # 1
        PROVE  ~ After(elements[parent(i)], elements[i])'
    BY <1>1, <1>3, <1>6, <2>1, Parent DEF HeapInv, Order, OrderAway, After
  <2> QED
    BY <1>3, <2>1 DEF Order, OrderAway, OrderAcross, OrderBelow, OrderAbove
<1> QED
  BY <1>4, <1>7, <1>8 DEF HeapInv

LEMMA ChangeHeapInv ==
    ASSUME HeapInv, NEW e \in Elements, NEW p \in Priorities, ChangePriority(e, p)
    PROVE  HeapInv'
<1> DEFINE h == index[e]
<1>1. pc = "idle" /\ e \in inside /\ Filled = 1..count /\ count \in 0..Capacity
  BY DEF HeapInv, TypeOK, Filled, ChangePriority
<1>2. h \in 1..count /\ elements[h] = e
  BY <1>1 DEF HeapInv, Stored
<1>3. /\ pc' = (IF Cmp(priority[e], p) THEN "up" ELSE "down")
      /\ hole' = h /\ moving' = e
      /\ UNCHANGED <<elements, count, size, index, inside>>
      /\ priority' = [priority EXCEPT ![e] = p]
  BY <1>2 DEF ChangePriority, Begin, array
<1>4. TypeOK' /\ InLoop'
  BY <1>1, <1>2, <1>3, PhqAssumption DEF HeapInv, TypeOK, InLoop, Positions
<1>5. Filled' = (1..count) \ {h} /\ pc' # "idle"
  BY <1>3 DEF Filled
<1>6. Stored'
  BY <1>1, <1>2, <1>3, <1>5 DEF HeapInv, Stored
<1>7. /\ \A i \in 1..count : elements[i] \in Elements
      /\ \A i \in (1..count) \ {h} : priority'[elements[i]] = priority[elements[i]]
      /\ priority'[e] = p
      /\ \A i \in 1..count : priority[elements[i]] \in Int
      /\ p \in Int /\ priority[e] \in Int
  BY <1>1, <1>2, <1>3, PhqAssumption DEF HeapInv, TypeOK, Stored
<1>8. \A i \in 2..count : ~ Cmp(priority[elements[parent(i)]], priority[elements[i]])
  BY <1>1 DEF HeapInv, Order, OrderAway, After
<1>9. \A i \in 2..count : parent(i) \in 1..count /\ parent(i) # i
  BY <1>1, Parent
<1>10. Order'
  <2>1. OrderAway'
    BY <1>3, <1>5, <1>7, <1>8, <1>9 DEF OrderAway, After, parent
  <2>2. OrderAcross'
    <3>1. SUFFICES ASSUME h > 1, NEW i \in 2..count, parent(i) = h
                   PROVE  ~ Cmp(priority'[elements[parent(h)]], priority'[elements[i]])
      BY <1>3 DEF OrderAcross, After, parent
    <3>2. h \in 2..count /\ parent(h) # h /\ i # h
      BY <3>1, <1>2, <1>9
    <3>3. ~ Cmp(priority[elements[parent(h)]], priority[e]) /\ ~ Cmp(priority[e], priority[elements[i]])
      BY <3>1, <3>2, <1>2, <1>8
    <3> QED
      BY <3>1, <3>2, <3>3, <1>7, <1>9, Preorder
  <2>3. OrderBelow'
    <3>1. SUFFICES ASSUME Cmp(priority[e], p), NEW i \in 2..count, parent(i) = h
                   PROVE  ~ Cmp(p, priority[elements[i]])
      BY <1>3, <1>7, <1>9 DEF OrderBelow, After, parent
    <3>2. ~ Cmp(priority[e], priority[elements[i]]) /\ ~ Cmp(p, priority[e])
      BY <3>1, <1>2, <1>7, <1>8, Preorder
    <3> QED
      BY <3>1, <3>2, <1>7, Preorder
  <2>4. OrderAbove'
    <3>1. SUFFICES ASSUME ~ Cmp(priority[e], p), h > 1
                   PROVE  ~ Cmp(priority[elements[parent(h)]], p)
      BY <1>2, <1>3, <1>7, <1>9 DEF OrderAbove, After, parent
    <3>2. h \in 2..count
      BY <3>1, <1>2
    <3>3. ~ Cmp(priority[elements[parent(h)]], priority[e]) /\ parent(h) \in 1..count
      BY <3>2, <1>2, <1>8, <1>9
    <3> QED
      BY <3>1, <3>3, <1>7, Preorder
  <2> QED
    BY <2>1, <2>2, <2>3, <2>4 DEF Order
<1> QED
  BY <1>4, <1>6, <1>10 DEF HeapInv

-----------------------------------------------------------------------------
(* The loops.  When one ends the moving element fits into the hole.        *)
LEMMA FinishHeapInv ==
    ASSUME HeapInv, pc # "idle", Finish,
           hole > 1 /\ hole <= count => ~ After(elements[parent(hole)], moving),
           \A i \in 2..count : parent(i) = hole => ~ After(moving, elements[i])
    PROVE  HeapInv'
<1>1. /\ pc' = "idle" /\ elements' = [elements EXCEPT ![hole] = moving]
      /\ index' = [index EXCEPT ![moving] = hole]
      /\ UNCHANGED <<count, size, priority, inside, hole, moving>>
  BY DEF Finish, Place
<1>2. hole \in Positions /\ moving \in Elements /\ count \in 0..Capacity
  BY DEF HeapInv, TypeOK, InLoop
<1>3. TypeOK' /\ InLoop'
  BY <1>1, <1>2, PhqAssumption DEF HeapInv, TypeOK, InLoop, Positions
<1>4. Filled' = 1..count /\ Filled = (1..count) \ {hole}
  BY <1>1 DEF Filled
<1>5. /\ elements'[hole] = moving /\ index'[moving] = hole
      /\ \A i \in Filled : elements'[i] = elements[i] /\ index'[elements[i]] = i
                          /\ elements[i] \in inside
  BY <1>1, <1>2, <1>4 DEF HeapInv, TypeOK, Stored, Positions
<1>6. Stored'
  <2>1. hole \in 1..count <=> moving \in inside
    BY <1>2 DEF HeapInv, InLoop, Stored, Positions
  <2>2. \A i \in Filled' : (elements[i] \in inside /\ index[elements[i]] = i)'
    BY <2>1, <1>1, <1>4, <1>5
  <2>3. \A e \in inside' : \E i \in Filled' : elements'[i] = e
    BY <2>1, <1>1, <1>4, <1>5 DEF HeapInv, Stored
  <2> QED
    BY <2>2, <2>3, <1>1 DEF Stored
<1>7. ASSUME NEW i \in 2..count
      PROVE  ~ After(elements[parent(i)], elements[i])'
  <2>1. parent(i) \in 1..count /\ parent(i) # i
    BY <1>2, Parent
  <2>2. CASE i = hole
    BY <2>1, <2>2, <1>1, <1>4, <1>5 DEF After
  <2>3. CASE parent(i) = hole
    BY <2>1, <2>3, <1>1, <1>4, <1>5 DEF After
  <2>4. CASE i # hole /\ parent(i) # hole
    BY <2>1, <2>4, <1>1, <1>4, <1>5 DEF After, HeapInv, Order, OrderAway
  <2> QED
    BY <2>2, <2>3, <2>4
<1>8. Order'
  BY <1>1, <1>7 DEF Order, OrderAway, OrderAcross, OrderBelow, OrderAbove, After, parent
<1> QED
  BY <1>3, <1>6, <1>8 DEF HeapInv

(* One iteration: the element at `from` goes into the hole and leaves a    *)
(* hole where it was.                                                      *)
LEMMA ShiftStored ==
    ASSUME HeapInv, pc # "idle", NEW from \in Filled, hole <= count,
           Place(elements[from], hole), hole' = from,
           UNCHANGED <<count, size, priority, inside, pc, moving>>
    PROVE  /\ TypeOK' /\ InLoop' /\ Stored'
           /\ elements'[hole] = elements[from]
           /\ \A i \in 1..count : i # hole => elements'[i] = elements[i]
<1>1. hole \in Positions /\ moving \in Elements /\ count \in 0..Capacity
  BY DEF HeapInv, TypeOK, InLoop
<1>2. from \in 1..count /\ from # hole /\ elements[from] \in inside /\ elements[from] # moving
  BY DEF Filled, HeapInv, Stored
<1>3. TypeOK' /\ InLoop'
  BY <1>1, <1>2, PhqAssumption DEF HeapInv, TypeOK, InLoop, Place, Positions
<1>4. /\ elements'[hole] = elements[from] /\ index'[elements[from]] = hole
      /\ \A i \in 1..count : i # hole => elements'[i] = elements[i]
  BY <1>1, <1>2 DEF HeapInv, TypeOK, Place, Positions
<1>5. Filled' = (1..count) \ {from} /\ Filled = (1..count) \ {hole}
  BY DEF Filled
<1>6. \A i \in Filled : i # from => elements[i] # elements[from]
  <2>1. \A i \in Filled : index[elements[i]] = i
    BY DEF HeapInv, Stored
  <2>2. QED
    BY ONLY <2>1, from \in Filled
<1>7. \A i \in Filled : i # from => index'[elements[i]] = i
  BY <1>2, <1>6 DEF HeapInv, TypeOK, Stored, Place
<1>8. Stored'
  <2>1. \A i \in Filled' : (elements[i] \in inside /\ index[elements[i]] = i)'
    BY <1>1, <1>2, <1>4, <1>5, <1>7 DEF HeapInv, Stored, Positions
  <2>2. \A i \in Filled' : elements'[i] # moving'
    BY <1>1, <1>2, <1>4, <1>5 DEF HeapInv, Stored, Positions
  <2>3. \A e \in inside' : e = moving' \/ \E i \in Filled' : elements'[i] = e
    <3>1. hole \in Filled'
      BY <1>1, <1>2, <1>5 DEF Positions
    <3> QED
      BY <3>1, <1>2, <1>4, <1>5 DEF HeapInv, Stored
  <2>4. moving' \in inside' /\ hole' <= count' /\ pc' # "idle"
    BY <1>2 DEF HeapInv, Stored
  <2> QED
    BY <2>1, <2>2, <2>3, <2>4 DEF Stored
<1> QED
  BY <1>3, <1>4, <1>8

LEMMA BubbleUpHeapInv == ASSUME HeapInv, BubbleUp PROVE HeapInv'
<1>1. /\ pc = "up" /\ hole \in 1..count /\ moving \in Elements
      /\ count \in 0..Capacity /\ Filled = (1..count) \ {hole}
      /\ \A i \in Filled : elements[i] \in Elements
  BY DEF HeapInv, TypeOK, InLoop, Stored, Filled, BubbleUp, Positions
<1>2. CASE ~ (hole > 1 /\ After(elements[parent(hole)], moving))
  <2>1. Finish
    BY <1>2 DEF BubbleUp
  <2>2. \A i \in 2..count : parent(i) = hole => ~ After(moving, elements[i])
    BY <1>1 DEF HeapInv, Order, OrderBelow
  <2> QED
    BY <1>1, <1>2, <2>1, <2>2, FinishHeapInv
<1>3. CASE hole > 1 /\ After(elements[parent(hole)], moving)
  <2> DEFINE up == parent(hole)
  <2>1. up \in Filled /\ up # hole /\ hole \in 2..count /\ up \in 1..count
    BY <1>1, <1>3, Parent
  <2>2. /\ pc' = "up" /\ hole' = up /\ Place(elements[up], hole)
        /\ UNCHANGED <<count, size, priority, inside, pc, moving>>
    BY <1>1, <1>3 DEF BubbleUp
  <2>3. /\ TypeOK' /\ InLoop' /\ Stored' /\ elements'[hole] = elements[up]
        /\ \A i \in 1..count : i # hole => elements'[i] = elements[i]
    BY <1>1, <2>1, <2>2, ShiftStored
  <2>4. \A i \in 2..count : parent(i) \in 1..count /\ parent(i) # i
    BY <1>1, Parent
  <2>5. \A i \in 1..count : i # hole => elements[i] \in Elements
    BY <1>1
  <2>6. TypeOK
    BY DEF HeapInv
  <2>7. OrderAway'
    <3>1. SUFFICES ASSUME NEW i \in 2..count, i # up, parent(i) # up
                   PROVE  ~ After(elements'[parent(i)], elements'[i])
      BY <1>1, <2>2 DEF OrderAway, After, parent
    <3>2. CASE parent(i) = hole
      BY <3>1, <3>2, <1>1, <1>3, <2>3, <2>4 DEF HeapInv, Order, OrderAcross
    <3>3. CASE parent(i) # hole
      BY <3>1, <3>3, <1>1, <2>3, <2>4 DEF HeapInv, Order, OrderAway
    <3> QED
      BY <3>2, <3>3
  <2>8. OrderAcross'
    <3>1. SUFFICES ASSUME up > 1, NEW i \in 2..count, parent(i) = up
                   PROVE  ~ After(elements'[parent(up)], elements'[i])
      BY <1>1, <2>2 DEF OrderAcross, After, parent
    <3>2. /\ up \in 2..count /\ parent(up) \in 1..count
          /\ parent(up) # hole /\ parent(up) # up
      BY <3>1, <2>1, <1>1, Parent
    <3>3. ~ After(elements[parent(up)], elements[up])
      BY <3>2, <1>1, <2>1 DEF HeapInv, Order, OrderAway
    <3>4. CASE i = hole
      BY <3>2, <3>3, <3>4, <2>3
    <3>5. CASE i # hole
      <4>1. ~ After(elements[up], elements[i])
        BY <3>1, <3>5, <1>1, <2>1 DEF HeapInv, Order, OrderAway
      <4> QED
        BY <4>1, <3>2, <3>3, <3>5, <2>1, <2>3, <2>5, <2>6, AfterIsOrder
    <3> QED
      BY <3>4, <3>5
  <2>9. OrderBelow'
    <3>1. SUFFICES ASSUME NEW i \in 2..count, parent(i) = up
                   PROVE  ~ After(moving, elements'[i])
      BY <1>1, <2>2 DEF OrderBelow, After, parent
    <3>2. ~ After(moving, elements[up])
      BY <1>1, <1>3, <2>1, <2>5, <2>6, AfterIsOrder
    <3>3. CASE i = hole
      BY <3>2, <3>3, <2>3
    <3>4. CASE i # hole
      <4>1. ~ After(elements[up], elements[i])
        BY <3>1, <3>4, <1>1, <2>1 DEF HeapInv, Order, OrderAway
      <4> QED
        BY <4>1, <3>2, <3>4, <1>1, <2>1, <2>3, <2>5, <2>6, AfterIsOrder
    <3> QED
      BY <3>3, <3>4
  <2> QED
    BY <2>2, <2>3, <2>7, <2>8, <2>9 DEF HeapInv, Order, OrderAbove
<1> QED
  BY <1>2, <1>3

(* The child maxchild picks does not come after its sibling.               *)
LEMMA MaxChild ==
    ASSUME HeapInv, pc = "down"
    PROVE  LET child == maxchild(hole)
           IN  /\ child = 0 => \A i \in 2..count : parent(i) # hole
               /\ child # 0 =>
                    /\ child \in 2..count /\ parent(child) = hole /\ child # hole
                    /\ \A i \in 2..count :
                         parent(i) = hole => ~ After(elements[child], elements[i])
<1>1. hole \in Nat /\ hole >= 1 /\ count \in Nat
  BY DEF HeapInv, TypeOK, InLoop, Positions
<1>2. /\ parent(2 * hole) = hole /\ parent(2 * hole + 1) = hole
      /\ \A i \in Nat : parent(i) = hole => i = 2 * hole \/ i = 2 * hole + 1
  BY <1>1, Children
<1>3. CASE 2 * hole > count
  BY <1>1, <1>2, <1>3 DEF maxchild
<1>4. CASE 2 * hole = count
  <2>1. maxchild(hole) = 2 * hole /\ 2 * hole \in 2..count /\ 2 * hole # hole
    BY <1>1, <1>4 DEF maxchild
  <2>2. elements[2 * hole] \in Elements /\ TypeOK
    BY <2>1 DEF HeapInv, TypeOK, Stored, Filled
  <2> QED
    BY <1>1, <1>2, <1>4, <2>1, <2>2, AfterIsOrder
<1>5. CASE 2 * hole + 1 <= count
  <2>1. 2 * hole \in 2..count /\ 2 * hole + 1 \in 2..count /\ 2 * hole # hole /\ 2 * hole + 1 # hole
    BY <1>1, <1>5
  <2>2. elements[2 * hole] \in Elements /\ elements[2 * hole + 1] \in Elements /\ TypeOK
    BY <2>1 DEF HeapInv, TypeOK, Stored, Filled
  <2>3. maxchild(hole) = IF After(elements[2 * hole], elements[2 * hole + 1])
                         THEN 2 * hole + 1 ELSE 2 * hole
    BY <1>1, <1>5 DEF maxchild
  <2> QED
    BY <1>1, <1>2, <2>1, <2>2, <2>3, AfterIsOrder
<1> QED
  BY <1>1, <1>3, <1>4, <1>5

LEMMA PercolateDownHeapInv == ASSUME HeapInv, PercolateDown PROVE HeapInv'
<1> DEFINE child == maxchild(hole)
<1>1. /\ pc = "down" /\ hole \in Nat /\ hole >= 1 /\ moving \in Elements
      /\ count \in 0..Capacity /\ Filled = (1..count) \ {hole}
      /\ \A i \in Filled : elements[i] \in Elements
  BY DEF HeapInv, TypeOK, InLoop, Stored, Filled, PercolateDown, Positions
<1>2. /\ child = 0 => \A i \in 2..count : parent(i) # hole
      /\ child # 0 =>
           /\ child \in 2..count /\ parent(child) = hole /\ child # hole
           /\ \A i \in 2..count :
                parent(i) = hole => ~ After(elements[child], elements[i])
  BY <1>1, MaxChild
<1>3. TypeOK
  BY DEF HeapInv
<1>4. \A i \in 2..count : parent(i) \in 1..count /\ parent(i) # i
  BY <1>1, Parent
<1>5. CASE ~ (child # 0 /\ After(moving, elements[child]))
  <2>1. Finish
    BY <1>5 DEF PercolateDown
  <2>2. \A i \in 2..count : parent(i) = hole => ~ After(moving, elements[i])
    BY <1>1, <1>2, <1>3, <1>4, <1>5, AfterIsOrder
  <2>3. hole > 1 => ~ After(elements[parent(hole)], moving)
    BY <1>1 DEF HeapInv, Order, OrderAbove
  <2> QED
    BY <1>1, <2>1, <2>2, <2>3, FinishHeapInv
<1>6. CASE child # 0 /\ After(moving, elements[child])
  <2>1. child \in Filled /\ child \in 2..count /\ parent(child) = hole /\ hole \in 1..count
    BY <1>1, <1>2, <1>4, <1>6
  <2>2. /\ pc' = "down" /\ hole' = child /\ Place(elements[child], hole)
        /\ UNCHANGED <<count, size, priority, inside, pc, moving>>
    BY <1>1, <1>6 DEF PercolateDown
  <2>3. /\ TypeOK' /\ InLoop' /\ Stored' /\ elements'[hole] = elements[child]
        /\ \A i \in 1..count : i # hole => elements'[i] = elements[i]
    BY <1>1, <2>1, <2>2, ShiftStored
  <2> HIDE DEF child
  <2>4. OrderAway'
    <3>1. SUFFICES ASSUME NEW i \in 2..count, i # child, parent(i) # child
                   PROVE  ~ After(elements'[parent(i)], elements'[i])
      BY <1>1, <2>2 DEF OrderAway, After, parent
    <3>2. CASE i = hole
      <4>1. hole > 1 /\ parent(hole) \in 1..count /\ parent(hole) # hole
        BY <3>2, <1>4
      <4>2. ~ After(elements[parent(hole)], elements[child])
        BY <4>1, <1>1, <2>1 DEF HeapInv, Order, OrderAcross
      <4> QED
        BY <4>1, <4>2, <3>2, <2>3
    <3>3. CASE parent(i) = hole
      <4>1. ~ After(elements[child], elements[i])
        BY <3>3, <1>2, <1>6
      <4> QED
        BY <4>1, <3>3, <1>4, <2>3
    <3>4. CASE i # hole /\ parent(i) # hole
      BY <3>4, <1>1, <1>4, <2>3 DEF HeapInv, Order, OrderAway
    <3> QED
      BY <3>2, <3>3, <3>4
  <2>5. OrderAcross'
    <3>1. SUFFICES ASSUME NEW i \in 2..count, parent(i) = child
                   PROVE  ~ After(elements'[hole], elements'[i])
      BY <1>1, <2>1, <2>2 DEF OrderAcross, After, parent
    <3>2. i # hole
      BY <3>1, <2>1, <1>1, Parent
    <3>3. ~ After(elements[child], elements[i])
      BY <3>1, <3>2, <1>1, <2>1 DEF HeapInv, Order, OrderAway
    <3> QED
      BY <3>2, <3>3, <2>3
  <2>6. OrderAbove'
    <3>1. ~ After(elements[child], moving)
      BY <1>1, <1>3, <1>6, <2>1, AfterIsOrder
    <3> QED
      BY <3>1, <2>1, <2>2, <2>3 DEF OrderAbove, After, parent
  <2> QED
    BY <2>2, <2>3, <2>4, <2>5, <2>6 DEF HeapInv, Order, OrderBelow
<1> QED
  BY <1>5, <1>6

LEMMA NextHeapInv == HeapInv /\ [Next]_vars => HeapInv'
<1> SUFFICES ASSUME HeapInv, [Next]_vars PROVE HeapInv'
  OBVIOUS
<1>1. ASSUME NEW e \in Elements, NEW p \in Priorities, Insert(e, p) PROVE HeapInv'
  BY <1>1, InsertHeapInv
<1>2. ASSUME NEW e \in Elements, NEW p \in Priorities, ChangePriority(e, p) PROVE HeapInv'
  BY <1>2, ChangeHeapInv
<1>3. CASE Pop
  BY <1>3, PopHeapInv
<1>4. CASE Loop
  BY <1>4, BubbleUpHeapInv, PercolateDownHeapInv DEF Loop
<1>5. CASE UNCHANGED vars
  BY <1>5 DEF vars, array, loop, HeapInv, TypeOK, InLoop, Stored, Filled, Order, OrderAway,
              OrderAcross, OrderBelow, OrderAbove, After, parent
<1> QED
  BY <1>1, <1>2, <1>3, <1>4, <1>5 DEF Next

(* The inductive invariant gives what the runs check.                      *)
LEMMA HeapInvGives == HeapInv => HoldsAll /\ HeapOrder
<1> SUFFICES ASSUME HeapInv, pc = "idle"
             PROVE  /\ \A i, j \in 1..count : elements[i] = elements[j] => i = j
                    /\ inside = {elements[i] : i \in 1..count}
                    /\ \A i \in 1..count : index[elements[i]] = i
                    /\ \A i \in 2..count : ~ After(elements[parent(i)], elements[i])
  BY DEF HoldsAll, HeapOrder
<1>1. Filled = 1..count
  BY DEF Filled
<1> QED
  BY <1>1 DEF HeapInv, Stored, Order, OrderAway

LEMMA HeapAlone ==
    /\ ContainersInit => Init
    /\ [ContainersNext]_all => [Next]_vars
BY DEF ContainersInit, ContainersNext, all, heap, vars

LEMMA AlwaysHeapInv == ContainersSpec => []HeapInv
BY HeapAlone, InitHeapInv, NextHeapInv, PTL DEF ContainersSpec

(* The types of the variables, count < size among them: no call writes     *)
(* behind the end of the array (phq.c:122-140).                            *)
THEOREM InsideTheArray == ContainersSpec => []TypeOK
<1>1. HeapInv => TypeOK
  BY DEF HeapInv
<1> QED
  BY <1>1, AlwaysHeapInv, PTL

(* Between two calls the heap holds exactly its elements, each where its   *)
(* index says, and no element comes after one of its children.             *)
THEOREM HeapCorrect == ContainersSpec => [](HoldsAll /\ HeapOrder)
BY AlwaysHeapInv, HeapInvGives, PTL

-----------------------------------------------------------------------------
(* A set of natural numbers has a least element.                           *)
LEMMA Least ==
    ASSUME NEW S \in SUBSET Nat, S # {}
    PROVE  \E m \in S : \A n \in S : ~ (n < m)
<1> DEFINE R == OpToRel(<, Nat)
<1>1. IsWellFoundedOn(R, Nat)
  BY NatLessThanWellFounded
<1>2. \A m, n \in S : n < m => <<n, m>> \in R
  BY DEF OpToRel
<1> HIDE DEF R
<1>3. PICK m \in S : \A n \in S : <<n, m>> \notin R
  BY <1>1, WFMin
<1> QED
  BY <1>2, <1>3

(* The root comes first: the first position whose element came before the  *)
(* root would come before its parent, too.                                 *)
LEMMA RootIsFirst ==
    ASSUME HeapInv, pc = "idle", count > 0
    PROVE  \A i \in 1..count : ~ After(elements[1], elements[i])
<1> DEFINE Bad == {i \in 1..count : After(elements[1], elements[i])}
<1>1. /\ \A i \in 1..count : elements[i] \in Elements
      /\ \A i \in 2..count : ~ After(elements[parent(i)], elements[i])
      /\ count \in Nat /\ TypeOK
  BY DEF HeapInv, TypeOK, Stored, Filled, Order, OrderAway
<1>2. SUFFICES ASSUME Bad # {} PROVE FALSE
  OBVIOUS
<1>3. PICK m \in Bad : \A n \in Bad : ~ (n < m)
  <2>1. Bad \in SUBSET Nat
    BY <1>1
  <2> HIDE DEF Bad
  <2> QED
    BY <2>1, <1>2, Least
<1>4. m \in 2..count
  BY <1>1, <1>3, AfterIsOrder
<1>5. parent(m) \in 1..count /\ parent(m) < m
  BY <1>1, <1>4, Parent
<1>6. ~ After(elements[1], elements[parent(m)])
  BY <1>3, <1>5
<1>7. ~ After(elements[1], elements[m])
  BY <1>1, <1>4, <1>5, <1>6, AfterIsOrder
<1> QED
  BY <1>3, <1>7

LEMMA InitAbstract == Init => Abstract!Init
BY DEF Init, Abstract!Init

LEMMA NextAbstract ==
    ASSUME HeapInv, [Next]_vars
    PROVE  [Abstract!Next]_<<inside, priority>>
<1>1. ASSUME NEW e \in Elements, NEW p \in Priorities, Insert(e, p)
      PROVE  Abstract!Next
  BY <1>1 DEF Insert, Abstract!Insert, Abstract!Next
<1>2. ASSUME NEW e \in Elements, NEW p \in Priorities, ChangePriority(e, p)
      PROVE  Abstract!Next
  BY <1>2 DEF ChangePriority, Abstract!Change, Abstract!Next
<1>3. CASE Pop
  <2>1. pc = "idle" /\ count > 0 /\ inside' = inside \ {elements[1]} /\ UNCHANGED priority
    BY <1>3 DEF Pop
  <2>2. count \in Nat /\ Filled = 1..count
    BY <2>1 DEF HeapInv, TypeOK, Filled
  <2>3. elements[1] \in inside /\ inside \subseteq Elements
    BY <2>1, <2>2 DEF HeapInv, TypeOK, Stored
  <2>4. \A f \in inside : ~ Cmp(priority[elements[1]], priority[f])
    BY <2>1, <2>2, RootIsFirst DEF HeapInv, Stored, After
  <2>5. elements[1] \in Abstract!First
    BY <2>3, <2>4 DEF Abstract!First
  <2> QED
    BY <2>1, <2>3, <2>5 DEF Abstract!Pop, Abstract!Next
<1>4. CASE Loop
  BY <1>4 DEF Loop, BubbleUp, PercolateDown, Finish
<1>5. CASE UNCHANGED vars
  BY <1>5 DEF vars
<1> QED
  BY <1>1, <1>2, <1>3, <1>4, <1>5 DEF Next

(* The heap implements the abstract priority queue: what phq_pop returns   *)
(* comes first among all elements, whatever calls came before.             *)
THEOREM HeapRefinement == ContainersSpec => ImplementsPriorityQueue
<1>1. HeapInv /\ [Next]_vars => [Abstract!Next]_<<inside, priority>>
  BY NextAbstract
<1> QED
  BY <1>1, HeapAlone, AlwaysHeapInv, InitAbstract, PTL DEF ContainersSpec, ImplementsPriorityQueue, Abstract!Spec

-----------------------------------------------------------------------------
(* Induction, and what is built up step by step: a function that begins    *)
(* with a and has at i what F makes of its value at i - 1.                 *)
LEMMA Induction ==
    ASSUME NEW T \in SUBSET Nat, 0 \in T, \A n \in T : n + 1 \in T
    PROVE  T = Nat
<1>1. SUFFICES ASSUME Nat \ T # {} PROVE FALSE
  OBVIOUS
<1>2. PICK n \in Nat \ T : \A m \in Nat \ T : ~ (m < n)
  BY <1>1, Least
<1>3. n # 0 /\ n - 1 \in Nat /\ n - 1 < n
  BY <1>2
<1>4. n - 1 \in T /\ (n - 1) + 1 = n
  BY <1>2, <1>3
<1>5. QED
  BY <1>2, <1>4

StepByStep(f, a, F, m) == f[0] = a /\ \A i \in 1..m : f[i] = F[<<f[i - 1], i>>]

LEMMA Repeated ==
    ASSUME NEW S, NEW a \in S, NEW F \in [S \X Nat -> S], NEW m \in Nat
    PROVE  \E f \in [0..m -> S] : StepByStep(f, a, F, m)
<1> DEFINE Upto(n) == \E f \in [0..n -> S] :
                         f[0] = a /\ \A i \in 1..n : f[i] = F[<<f[i - 1], i>>]
           T == {n \in Nat : Upto(n)}
<1>1. 0 \in T
  <2> DEFINE f == [i \in 0..0 |-> a]
  <2>1. f \in [0..0 -> S] /\ f[0] = a /\ \A i \in 1..0 : f[i] = F[<<f[i - 1], i>>]
    OBVIOUS
  <2>2. QED
    BY <2>1
<1>2. ASSUME NEW n \in T PROVE n + 1 \in T
  <2>1. PICK f \in [0..n -> S] : f[0] = a /\ \A i \in 1..n : f[i] = F[<<f[i - 1], i>>]
    OBVIOUS
  <2> DEFINE g == [i \in 0..(n + 1) |-> IF i = n + 1 THEN F[<<f[n], n + 1>>] ELSE f[i]]
  <2>2. n \in Nat /\ f[n] \in S /\ F[<<f[n], n + 1>>] \in S
    BY <2>1
  <2>3. g \in [0..(n + 1) -> S]
    BY <2>1, <2>2
  <2>4. g[n + 1] = F[<<f[n], n + 1>>] /\ \A i \in 0..n : g[i] = f[i]
    BY <2>1, <2>2
  <2> HIDE DEF g
  <2>5. ASSUME NEW i \in 1..(n + 1) PROVE g[i] = F[<<g[i - 1], i>>]
    <3>1. i - 1 \in 0..n /\ g[i - 1] = f[i - 1]
      BY <2>2, <2>4
    <3>2. CASE i = n + 1
      <4>1. i - 1 = n
        BY <2>2, <3>2
      <4>2. QED
        BY <2>4, <3>1, <3>2, <4>1
    <3>3. CASE i # n + 1
      <4>1. i \in 1..n /\ g[i] = f[i]
        BY <2>2, <2>4, <3>3
      <4>2. QED
        BY <2>1, <3>1, <4>1
    <3>4. QED
      BY <3>2, <3>3
  <2>6. g[0] = a /\ n + 1 \in Nat
    BY <2>1, <2>2, <2>4
  <2>7. QED
    BY <2>3, <2>5, <2>6
<1>3. T = Nat
  <2> HIDE DEF T
  <2>1. T \in SUBSET Nat
    BY DEF T
  <2>2. QED
    BY <1>1, <1>2, <2>1, Induction
<1>4. Upto(m)
  BY <1>3
<1>5. QED
  BY <1>4 DEF StepByStep

(* A remainder is told by its equation.                                    *)
LEMMA Remainder ==
    ASSUME NEW n \in Nat, n >= 1, NEW x \in Int, NEW k \in Int, NEW m \in 0..(n - 1),
           x = k * n + m
    PROVE  x % n = m
<1> DEFINE z == x % n
           y == x \div n
<1>1. z \in 0..(n - 1) /\ y \in Int /\ x = y * n + z
  OBVIOUS
<1> HIDE DEF z, y
<1>2. (k - y) * n = z - m
  BY <1>1
<1>3. k - y \in Int /\ z - m < n /\ z - m > -n
  BY <1>1
<1>4. ~ (k - y >= 1)
  <2>1. SUFFICES ASSUME k - y >= 1 PROVE (k - y) * n >= n
    BY <1>2, <1>3
  <2>2. (k - y - 1) * n >= 0
    BY <1>1, <2>1
  <2>3. QED
    BY <1>1, <2>2
<1>5. ~ (k - y <= -1)
  <2>1. SUFFICES ASSUME k - y <= -1 PROVE (k - y) * n <= -n
    BY <1>2, <1>3
  <2>2. (y - k - 1) * n >= 0
    BY <1>1, <2>1
  <2>3. QED
    BY <1>1, <2>2
<1>6. k = y
  BY <1>1, <1>3, <1>4, <1>5
<1>7. QED
  BY <1>1, <1>6 DEF z

-----------------------------------------------------------------------------
(* The hash table.  An entry is empty or holds data, or what malloc left.  *)
(* A walk of rbhash_swapdown carries one element; Carried says what it     *)
(* keeps of the table s it began with to put d there: that nothing is lost *)
(* or doubled on the way, that each element stands where its hash and its  *)
(* distance say, and that the walk looked at every slot behind it.         *)
Junky == HashData \union {Junk}
Full == [data : Junky, distance : Nat]
Entries == Full \union {Hash!Empty}
Tables(n) == [0..(n - 1) -> Entries]
Walks(n) == [table : Tables(n), max : Nat, nw : Entries, at : 0..(n - 1),
             fail : BOOLEAN, dirty : BOOLEAN]

DataOf(t) == {t[a].data : a \in DOMAIN t} \intersect HashData
Once(t) == \A a, b \in DOMAIN t : t[a].data = t[b].data /\ t[a].data \in HashData => a = b
Clean(t) == \A a \in DOMAIN t : t[a].data # Junk
AtHome(e, a, n, far) ==
    e.data \in HashData =>
      e.distance <= far /\ a = (HashHashOf[e.data] + e.distance) % n
Home(t, n, far) == \A a \in 0..(n - 1) : AtHome(t[a], a, n, far)
EmptyIn(t) == {a \in DOMAIN t : t[a] = Hash!Empty}

(* The slot k places behind a.                                             *)
Behind(a, k, n) == IF a + k < n THEN a + k ELSE a + k - n

CarriedWhole(s, d, t) ==
    Once(s.table) /\ d \notin DataOf(s.table) =>
      /\ Once(t.table) /\ t.nw.data \notin DataOf(t.table)
      /\ DataOf(t.table) \union ({t.nw.data} \intersect HashData)
         = DataOf(s.table) \union ({d} \intersect HashData)
CarriedClean(s, d, t) ==
    Clean(s.table) /\ d # Junk => Clean(t.table) /\ t.nw.data # Junk
CarriedHome(s, n, t) ==
    Home(s.table, n, s.max) => Home(t.table, n, t.max) /\ AtHome(t.nw, t.at, n, t.max)
CarriedPast(s, d, n, t, k) ==
    /\ EmptyIn(t.table) = EmptyIn(s.table)
    /\ \/ t.table[t.at] = Hash!Empty
       \/ /\ t.at = Behind(Hash!slot(d, n), k, n)
          /\ \A j \in 0..(k - 1) : Behind(Hash!slot(d, n), j, n) \notin EmptyIn(s.table)

Carried(s, d, n, t, k) ==
    /\ t \in Walks(n) /\ t.nw \in Full /\ t.fail = s.fail /\ t.dirty = s.dirty
    /\ CarriedWhole(s, d, t) /\ CarriedClean(s, d, t) /\ CarriedHome(s, n, t)
    /\ CarriedPast(s, d, n, t, k)

LEMMA EntryKinds ==
    /\ Hash!Empty \notin Full /\ Hash!Empty.data = {} /\ {} \notin Junky
    /\ \A e \in Entries : e # Hash!Empty => e \in Full
    /\ \A e \in Full : e.data \in Junky /\ e.distance \in Nat /\ e # Hash!Empty
    /\ \A e \in Entries : e.data = {} => e = Hash!Empty
<1>1. {} \notin Junky /\ Hash!Empty.data = {}
  BY HashAssumption DEF Junky, Hash!Empty
<1>2. QED
  BY <1>1 DEF Entries, Full

(* The number of slots.                                                    *)
LEMMA SameCardinality == \A S : Hash!Cardinality(S) = Cardinality(S)
BY DEF Hash!Cardinality, Cardinality, Hash!IsFiniteSet, IsFiniteSet

LEMMA SlotCount ==
    ASSUME NEW n \in Nat \ {0}, NEW t \in Tables(n)
    PROVE  DOMAIN t = 0..(n - 1) /\ Cardinality(DOMAIN t) = n /\ IsFiniteSet(DOMAIN t)
<1>1. DOMAIN t = 0..(n - 1) /\ n \in Nat /\ 0 <= n - 1
  BY DEF Tables
<1>2. Cardinality(0..(n - 1)) = (n - 1) - 0 + 1 /\ IsFiniteSet(0..(n - 1))
  BY <1>1, FS_Interval
<1>3. QED
  BY <1>1, <1>2

LEMMA NextSlot ==
    ASSUME NEW n \in Nat \ {0}, NEW a \in 0..(n - 1)
    PROVE  /\ Hash!next(a, n) = IF a + 1 < n THEN a + 1 ELSE 0
           /\ Hash!next(a, n) \in 0..(n - 1)
           /\ \A x \in Nat : a = x % n => Hash!next(a, n) = (x + 1) % n
<1> DEFINE b == IF a + 1 < n THEN a + 1 ELSE 0
<1>1. b \in 0..(n - 1) /\ n \in Nat /\ n >= 1 /\ a \in 0..(n - 1)
  OBVIOUS
<1>2. ASSUME NEW x \in Nat, a = x % n PROVE (x + 1) % n = b
  <2>1. PICK k \in Int : x = k * n + a
    <3>1. x = (x \div n) * n + a /\ x \div n \in Int
      BY <1>1, <1>2
    <3>2. QED
      BY <3>1
  <2>2. PICK m \in Int : x + 1 = m * n + b
    <3>1. CASE a + 1 < n
      <4>1. x + 1 = k * n + b
        BY <1>1, <2>1, <3>1
      <4>2. QED
        BY <4>1
    <3>2. CASE ~ (a + 1 < n)
      <4>1. (k + 1) * n = k * n + n /\ k + 1 \in Int
        BY <1>1
      <4>2. x + 1 = (k + 1) * n + b
        BY <1>1, <2>1, <3>2, <4>1
      <4>3. QED
        BY <4>1, <4>2
    <3>3. QED
      BY <3>1, <3>2
  <2>3. x + 1 \in Int
    OBVIOUS
  <2> HIDE DEF b
  <2>4. QED
    BY ONLY <1>1, <2>2, <2>3, Remainder
<1>3. (a + 1) % n = b
  <2>1. a = a % n
    <3>1. a = 0 * n + a
      BY <1>1
    <3>2. QED
      BY <1>1, <3>1, Remainder
  <2>2. a \in Nat
    OBVIOUS
  <2> HIDE DEF b
  <2>3. QED
    BY <1>2, <2>1, <2>2
<1> HIDE DEF b
<1>4. Hash!next(a, n) = b
  BY <1>3 DEF Hash!next
<1>5. \A x \in Nat : a = x % n => b = (x + 1) % n
  BY <1>2
<1>6. QED
  BY <1>1, <1>4, <1>5 DEF b

LEMMA SlotThere ==
    ASSUME NEW n \in Nat \ {0}, NEW d \in Junky
    PROVE  Hash!slot(d, n) \in 0..(n - 1) /\ HashHashOf[d] \in Nat
BY HashAssumption DEF Hash!slot, Junky

(* One of the two, the element that is carried and the one it meets, stays *)
(* in the slot; the other goes on, one further from its home.              *)
LEMMA CarryKeeps ==
    ASSUME NEW n \in Nat \ {0}, NEW t \in Walks(n), t.nw \in Full,
           t.table[t.at] # Hash!Empty
    PROVE  LET c == Hash!Carry(t)
           IN  \E stay, out \in Full :
                 /\ \/ stay = t.nw /\ out = t.table[t.at]
                    \/ stay = t.table[t.at] /\ out = t.nw
                 /\ c.table = [t.table EXCEPT ![t.at] = stay]
                 /\ c.nw \in Full /\ c.nw.data = out.data
                 /\ c.nw.distance = out.distance + 1
                 /\ c.at = Hash!next(t.at, n)
                 /\ c.max \in Nat /\ c.max >= t.max /\ c.max >= out.distance + 1
                 /\ c.fail = t.fail /\ c.dirty = t.dirty
                 /\ c \in Walks(n)
<1> DEFINE there == t.table[t.at]
           swap == t.nw.distance > there.distance
           out == IF swap THEN there ELSE t.nw
           stay == IF swap THEN t.nw ELSE there
           far == out.distance + 1
           tb == [t.table EXCEPT ![t.at] = stay]
           nw == [data |-> out.data, distance |-> far]
           max == IF far > t.max THEN far ELSE t.max
           c == Hash!Carry(t)
<1>1. /\ t.table \in Tables(n) /\ t.at \in 0..(n - 1) /\ t.max \in Nat
      /\ t.fail \in BOOLEAN /\ t.dirty \in BOOLEAN
      /\ t = [table |-> t.table, max |-> t.max, nw |-> t.nw, at |-> t.at,
              fail |-> t.fail, dirty |-> t.dirty]
  BY DEF Walks
<1>2. there \in Full
  BY <1>1, EntryKinds DEF Tables
<1>3. out \in Full /\ stay \in Full /\ out.distance \in Nat /\ out.data \in Junky
  BY <1>2, EntryKinds
<1>4. far \in Nat /\ max \in Nat /\ max >= t.max /\ max >= far
  BY <1>1, <1>3
<1>5. nw \in Full /\ nw.data = out.data /\ nw.distance = out.distance + 1
  BY <1>3, <1>4 DEF Full
<1>6. tb \in Tables(n)
  BY <1>1, <1>3 DEF Tables, Entries
<1>7. tb = IF swap THEN [t.table EXCEPT ![t.at] = t.nw] ELSE t.table
  BY <1>1 DEF Tables
<1>8. nw = [out EXCEPT !.distance = far]
  BY <1>3 DEF Full
<1>9. Cardinality(DOMAIN t.table) = n
  BY <1>1, SlotCount
<1>10. Hash!next(t.at, n) \in 0..(n - 1)
  BY <1>1, NextSlot
<1>11. c = [t EXCEPT !.table = tb, !.at = Hash!next(t.at, n), !.nw = nw, !.max = max]
  <2> DEFINE tb1 == IF swap THEN [t.table EXCEPT ![t.at] = t.nw] ELSE t.table
             nw1 == [out EXCEPT !.distance = far]
             at1 == Hash!next(t.at, Cardinality(DOMAIN t.table))
  <2>1. c = [t EXCEPT !.table = tb1, !.at = at1, !.nw = nw1, !.max = max]
    BY ONLY SameCardinality DEF Hash!Carry
  <2>2. tb1 = tb /\ nw1 = nw /\ at1 = Hash!next(t.at, n)
    BY ONLY <1>7, <1>8, <1>9
  <2> HIDE DEF c, tb, nw, max, far, out, swap, tb1, nw1, at1
  <2>3. QED
    BY ONLY <2>1, <2>2
<1> HIDE DEF c, tb, nw, max, far, out, stay, swap
<1>12. /\ c.table = tb /\ c.at = Hash!next(t.at, n) /\ c.nw = nw /\ c.max = max
       /\ c.fail = t.fail /\ c.dirty = t.dirty
       /\ c = [table |-> tb, max |-> max, nw |-> nw, at |-> Hash!next(t.at, n),
               fail |-> t.fail, dirty |-> t.dirty]
  BY <1>1, <1>11
<1>13. c \in Walks(n)
  BY <1>1, <1>4, <1>5, <1>6, <1>10, <1>12 DEF Walks, Entries
<1>14. (stay = t.nw /\ out = there) \/ (stay = there /\ out = t.nw)
  BY DEF stay, out
<1>15. max >= out.distance + 1
  BY <1>4 DEF far
<1>16. c.table = [t.table EXCEPT ![t.at] = stay]
  BY <1>12 DEF tb
<1>17. QED
  BY <1>3, <1>4, <1>5, <1>12, <1>13, <1>14, <1>15, <1>16 DEF c, there

(* What a carry does to what the table holds and the walk carries.         *)
LEMMA CarryWhole ==
    ASSUME NEW n \in Nat \ {0}, NEW tb \in Tables(n), NEW here \in 0..(n - 1),
           NEW nw \in Full, NEW stay \in Full, NEW out \in Full,
           \/ stay = nw /\ out = tb[here]
           \/ stay = tb[here] /\ out = nw,
           Once(tb), nw.data \notin DataOf(tb)
    PROVE  LET new == [tb EXCEPT ![here] = stay]
           IN  /\ Once(new) /\ out.data \notin DataOf(new)
               /\ DataOf(new) \union ({out.data} \intersect HashData)
                  = DataOf(tb) \union ({nw.data} \intersect HashData)
<1> DEFINE new == [tb EXCEPT ![here] = stay]
<1>1. /\ DOMAIN tb = 0..(n - 1) /\ DOMAIN new = 0..(n - 1)
      /\ \A a \in 0..(n - 1) : new[a] = IF a = here THEN stay ELSE tb[a]
  BY DEF Tables
<1> HIDE DEF new
<1>2. CASE stay = tb[here] /\ out = nw
  <2>1. new = tb
    BY <1>2 DEF new, Tables
  <2>2. QED
    BY <1>2, <2>1 DEF new
<1>3. CASE stay = nw /\ out = tb[here]
  <2>1. Once(new)
    <3>1. SUFFICES ASSUME NEW a \in 0..(n - 1), NEW b \in 0..(n - 1),
                          new[a].data = new[b].data, new[a].data \in HashData
                   PROVE  a = b
      BY <1>1 DEF Once
    <3>2. \A x \in 0..(n - 1) : tb[x].data = nw.data => nw.data \notin HashData
      BY <1>1 DEF DataOf
    <3>3. CASE a = here
      BY <1>1, <1>3, <3>1, <3>2, <3>3
    <3>4. CASE b = here
      BY <1>1, <1>3, <3>1, <3>2, <3>4
    <3>5. CASE a # here /\ b # here
      BY <1>1, <3>1, <3>5 DEF Once
    <3>6. QED
      BY <3>3, <3>4, <3>5
  <2>2. out.data \notin DataOf(new)
    <3>1. SUFFICES ASSUME out.data \in HashData,
                          NEW a \in 0..(n - 1), new[a].data = out.data
                   PROVE  FALSE
      BY <1>1 DEF DataOf
    <3>2. CASE a = here
      BY <1>1, <1>3, <3>1, <3>2 DEF DataOf
    <3>3. CASE a # here
      BY <1>1, <1>3, <3>1, <3>3 DEF Once
    <3>4. QED
      BY <3>2, <3>3
  <2>3. \A x \in HashData : (\E a \in 0..(n - 1) : new[a].data = x) \/ out.data = x
                            <=> (\E a \in 0..(n - 1) : tb[a].data = x) \/ nw.data = x
    BY <1>1, <1>3
  <2>4. DataOf(new) \union ({out.data} \intersect HashData)
        = DataOf(tb) \union ({nw.data} \intersect HashData)
    BY <1>1, <2>3 DEF DataOf
  <2>5. QED
    BY <2>1, <2>2, <2>4 DEF new
<1>4. QED
  BY <1>2, <1>3

LEMMA CarryHome ==
    ASSUME NEW n \in Nat \ {0}, NEW tb \in Tables(n), NEW here \in 0..(n - 1),
           NEW nw \in Full, NEW stay \in Full, NEW out \in Full, NEW far \in Nat,
           \/ stay = nw /\ out = tb[here]
           \/ stay = tb[here] /\ out = nw,
           Home(tb, n, far), AtHome(nw, here, n, far),
           NEW max \in Nat, max >= far, max >= out.distance + 1,
           NEW nw2 \in Full, nw2.data = out.data, nw2.distance = out.distance + 1
    PROVE  /\ Home([tb EXCEPT ![here] = stay], n, max)
           /\ AtHome(nw2, Hash!next(here, n), n, max)
<1> DEFINE new == [tb EXCEPT ![here] = stay]
<1>1. \A a \in 0..(n - 1) : new[a] = IF a = here THEN stay ELSE tb[a]
  BY DEF Tables
<1> HIDE DEF new
<1>2. \A a \in 0..(n - 1) : AtHome(new[a], a, n, far)
  BY <1>1 DEF Home
<1>3. \A a \in 0..(n - 1) : new[a] \in Entries
  BY <1>1 DEF Tables, Entries
<1>4. Home(new, n, max)
  <2>1. SUFFICES ASSUME NEW a \in 0..(n - 1), new[a].data \in HashData
                 PROVE  /\ new[a].distance <= max
                        /\ a = (HashHashOf[new[a].data] + new[a].distance) % n
    BY DEF Home, AtHome
  <2>2. new[a] \in Full /\ new[a].distance \in Nat
    BY <1>3, <2>1, EntryKinds, HashAssumption
  <2>3. QED
    BY <1>2, <2>1, <2>2 DEF AtHome
<1>5. AtHome(out, here, n, far)
  BY DEF Home
<1>6. AtHome(nw2, Hash!next(here, n), n, max)
  <2>1. SUFFICES ASSUME out.data \in HashData
                 PROVE  /\ nw2.distance <= max
                        /\ Hash!next(here, n) = (HashHashOf[out.data] + nw2.distance) % n
    BY DEF AtHome
  <2> DEFINE h == HashHashOf[out.data]
  <2>2. h \in Nat /\ out.distance \in Nat
    BY <2>1, EntryKinds, HashAssumption
  <2>3. here = (h + out.distance) % n
    BY <1>5, <2>1 DEF AtHome
  <2> HIDE DEF h
  <2>4. h + out.distance \in Nat /\ (h + out.distance) + 1 = h + nw2.distance
    BY <2>2
  <2>5. Hash!next(here, n) = ((h + out.distance) + 1) % n
    BY <2>3, <2>4, NextSlot
  <2>6. QED
    BY <2>4, <2>5 DEF h
<1>7. QED
  BY <1>4, <1>6 DEF new

LEMMA CarryCarried ==
    ASSUME NEW n \in Nat \ {0}, NEW s \in Walks(n), NEW d \in Junky,
           NEW t, NEW k \in 0..(n - 1), Carried(s, d, n, t, k),
           t.table[t.at] # Hash!Empty
    PROVE  Carried(s, d, n, Hash!Carry(t), k + 1)
<1> DEFINE c == Hash!Carry(t)
<1>1. /\ t \in Walks(n) /\ t.nw \in Full /\ t.fail = s.fail /\ t.dirty = s.dirty
      /\ t.table \in Tables(n) /\ t.at \in 0..(n - 1) /\ t.max \in Nat
  BY DEF Carried, Walks
<1>2. PICK stay \in Full, out \in Full :
        /\ \/ stay = t.nw /\ out = t.table[t.at]
           \/ stay = t.table[t.at] /\ out = t.nw
        /\ c.table = [t.table EXCEPT ![t.at] = stay]
        /\ c.nw \in Full /\ c.nw.data = out.data
        /\ c.nw.distance = out.distance + 1
        /\ c.at = Hash!next(t.at, n)
        /\ c.max \in Nat /\ c.max >= t.max /\ c.max >= out.distance + 1
        /\ c.fail = t.fail /\ c.dirty = t.dirty
        /\ c \in Walks(n)
  BY <1>1, CarryKeeps
<1> HIDE DEF c
<1>3. /\ DOMAIN t.table = 0..(n - 1) /\ DOMAIN c.table = 0..(n - 1)
      /\ \A a \in 0..(n - 1) : c.table[a] = IF a = t.at THEN stay ELSE t.table[a]
  BY <1>1, <1>2 DEF Tables
<1>4. CarriedWhole(s, d, c)
  <2>1. SUFFICES ASSUME Once(s.table), d \notin DataOf(s.table)
                 PROVE  /\ Once(c.table) /\ c.nw.data \notin DataOf(c.table)
                        /\ DataOf(c.table) \union ({c.nw.data} \intersect HashData)
                           = DataOf(s.table) \union ({d} \intersect HashData)
    BY DEF CarriedWhole
  <2>2. /\ Once(t.table) /\ t.nw.data \notin DataOf(t.table)
        /\ DataOf(t.table) \union ({t.nw.data} \intersect HashData)
           = DataOf(s.table) \union ({d} \intersect HashData)
    BY <2>1 DEF Carried, CarriedWhole
  <2>3. LET new == [t.table EXCEPT ![t.at] = stay]
        IN  /\ Once(new) /\ out.data \notin DataOf(new)
            /\ DataOf(new) \union ({out.data} \intersect HashData)
               = DataOf(t.table) \union ({t.nw.data} \intersect HashData)
    BY <1>1, <1>2, <2>2, CarryWhole
  <2>4. QED
    BY <1>2, <2>2, <2>3
<1>5. CarriedClean(s, d, c)
  <2>1. SUFFICES ASSUME Clean(s.table), d # Junk
                 PROVE  Clean(c.table) /\ c.nw.data # Junk
    BY DEF CarriedClean
  <2>2. Clean(t.table) /\ t.nw.data # Junk
    BY <2>1 DEF Carried, CarriedClean
  <2>3. QED
    <3>1. stay.data # Junk /\ out.data # Junk
      BY ONLY <1>1, <1>2, <1>3, <2>2 DEF Clean
    <3>2. \A a \in 0..(n - 1) : c.table[a].data # Junk
      BY ONLY <1>3, <2>2, <3>1 DEF Clean
    <3>3. QED
      BY ONLY <1>2, <1>3, <3>1, <3>2 DEF Clean
<1>6. CarriedHome(s, n, c)
  <2>1. SUFFICES ASSUME Home(s.table, n, s.max)
                 PROVE  Home(c.table, n, c.max) /\ AtHome(c.nw, c.at, n, c.max)
    BY DEF CarriedHome
  <2>2. Home(t.table, n, t.max) /\ AtHome(t.nw, t.at, n, t.max)
    BY <2>1 DEF Carried, CarriedHome
  <2>3. Home([t.table EXCEPT ![t.at] = stay], n, c.max) /\ AtHome(c.nw, Hash!next(t.at, n), n, c.max)
    BY <1>1, <1>2, <2>2, CarryHome
  <2>4. QED
    BY <1>2, <2>3
<1>7. CarriedPast(s, d, n, c, k + 1)
  <2> DEFINE h == Hash!slot(d, n)
  <2>1. h \in 0..(n - 1)
    BY SlotThere
  <2>2. EmptyIn(c.table) = EmptyIn(t.table)
    BY <1>2, <1>3, EntryKinds DEF EmptyIn
  <2>3. /\ EmptyIn(t.table) = EmptyIn(s.table) /\ t.at = Behind(h, k, n)
        /\ \A j \in 0..(k - 1) : Behind(h, j, n) \notin EmptyIn(s.table)
    BY DEF Carried, CarriedPast
  <2>4. t.at \notin EmptyIn(s.table)
    BY <2>3 DEF EmptyIn
  <2> HIDE DEF h
  <2>5. Hash!next(t.at, n) = Behind(h, k + 1, n)
    <3>1. Hash!next(t.at, n) = IF t.at + 1 < n THEN t.at + 1 ELSE 0
      BY <1>1, NextSlot
    <3>2. QED
      BY <2>1, <2>3, <3>1 DEF Behind
  <2>6. \A j \in 0..((k + 1) - 1) : Behind(h, j, n) \notin EmptyIn(s.table)
    BY <2>3, <2>4
  <2>7. QED
    BY <1>2, <2>2, <2>3, <2>5, <2>6 DEF CarriedPast, h
<1>8. QED
  BY <1>1, <1>2, <1>4, <1>5, <1>6, <1>7 DEF Carried, c

LEMMA StartCarried ==
    ASSUME NEW n \in Nat \ {0}, NEW s \in Walks(n), NEW d \in Junky
    PROVE  Carried(s, d, n, Hash!Start(s, d), 0)
<1> DEFINE t == Hash!Start(s, d)
           h == Hash!slot(d, n)
           nw == [data |-> d, distance |-> 0]
<1>1. /\ s.table \in Tables(n) /\ s.max \in Nat /\ s.fail \in BOOLEAN /\ s.dirty \in BOOLEAN
      /\ s = [table |-> s.table, max |-> s.max, nw |-> s.nw, at |-> s.at,
              fail |-> s.fail, dirty |-> s.dirty]
  BY DEF Walks
<1>2. h \in 0..(n - 1) /\ HashHashOf[d] \in Nat
  BY SlotThere
<1>3. nw \in Full
  BY DEF Full
<1>4. Cardinality(DOMAIN s.table) = n
  BY <1>1, SlotCount
<1>5. t = [s EXCEPT !.nw = nw, !.at = h]
  BY ONLY <1>4, SameCardinality DEF Hash!Start
<1>6. h = HashHashOf[d] % n
  BY DEF Hash!slot
<1>7. nw.data = d /\ nw.distance = 0
  OBVIOUS
<1> HIDE DEF t, h, nw
<1>8. /\ t.table = s.table /\ t.nw = nw /\ t.at = h /\ t.max = s.max
      /\ t.fail = s.fail /\ t.dirty = s.dirty
      /\ t = [table |-> s.table, max |-> s.max, nw |-> nw, at |-> h,
              fail |-> s.fail, dirty |-> s.dirty]
  BY <1>1, <1>5
<1>9. t \in Walks(n)
  BY <1>1, <1>2, <1>3, <1>8 DEF Walks, Entries
<1>10. CarriedWhole(s, d, t) /\ CarriedClean(s, d, t)
  BY <1>7, <1>8 DEF CarriedWhole, CarriedClean
<1>11. AtHome(nw, h, n, s.max)
  <2>1. HashHashOf[d] + 0 = HashHashOf[d]
    BY <1>2
  <2>2. QED
    BY <1>1, <1>6, <1>7, <2>1 DEF AtHome
<1>12. CarriedHome(s, n, t)
  BY <1>8, <1>11 DEF CarriedHome
<1>13. Behind(h, 0, n) = h
  BY <1>2 DEF Behind
<1>14. CarriedPast(s, d, n, t, 0)
  BY <1>8, <1>13 DEF CarriedPast, h
<1>15. QED
  BY <1>3, <1>8, <1>9, <1>10, <1>12, <1>14 DEF Carried, t

LEMMA RoundCarried ==
    ASSUME NEW n \in Nat \ {0}, NEW s \in Walks(n), NEW d \in Junky,
           NEW t, NEW k \in 0..(n - 1), Carried(s, d, n, t, k)
    PROVE  Carried(s, d, n, Hash!Round(t), k + 1)
<1>1. CASE t.table[t.at] = Hash!Empty
  BY <1>1 DEF Hash!Round, Carried, CarriedPast
<1>2. CASE t.table[t.at] # Hash!Empty
  BY <1>2, CarryCarried DEF Hash!Round
<1>3. QED
  BY <1>1, <1>2

(* The walk after all rounds.                                              *)
LEMMA WalkCarried ==
    ASSUME NEW n \in Nat \ {0}, NEW s \in Walks(n), NEW d \in Junky
    PROVE  \E t : Carried(s, d, n, t, n) /\ Hash!swapdown(s, d) = Hash!Settle(t)
<1> DEFINE S == {t \in Walks(n) : t.nw \in Full}
           F == [x \in S \X Nat |-> Hash!Round(x[1])]
           a == Hash!Start(s, d)
           walk == CHOOSE f : f = [i \in 0..n |-> IF i = 0 THEN a ELSE Hash!Round(f[i - 1])]
<1>1. a \in S
  BY StartCarried DEF Carried
<1>2. \A t \in S : Hash!Round(t) \in S
  <2>1. SUFFICES ASSUME NEW t \in S, t.table[t.at] # Hash!Empty PROVE Hash!Carry(t) \in S
    BY DEF Hash!Round
  <2>2. QED
    BY <2>1, CarryKeeps
<1>3. F \in [S \X Nat -> S]
  <2> HIDE DEF S
  <2>1. \A x \in S \X Nat : x[1] \in S
    OBVIOUS
  <2>2. QED
    BY <1>2, <2>1
<1>4. PICK f \in [0..n -> S] : StepByStep(f, a, F, n)
  <2> HIDE DEF S, F, a
  <2>1. n \in Nat
    OBVIOUS
  <2>2. QED
    BY ONLY <1>1, <1>3, <2>1, Repeated
<1>5. f = [i \in 0..n |-> IF i = 0 THEN a ELSE Hash!Round(f[i - 1])]
  <2> HIDE DEF a, S
  <2>1. \A i \in 1..n : <<f[i - 1], i>> \in S \X Nat /\ <<f[i - 1], i>>[1] = f[i - 1]
    OBVIOUS
  <2>2. \A i \in 0..n : i # 0 => i \in 1..n
    OBVIOUS
  <2>3. QED
    BY <1>4, <2>1, <2>2 DEF StepByStep
<1>6. walk = [i \in 0..n |-> IF i = 0 THEN a ELSE Hash!Round(walk[i - 1])]
  <2> HIDE DEF a
  <2>1. QED
    BY <1>5
<1> HIDE DEF walk, a, S, F
<1>7. \A i \in 0..n : Carried(s, d, n, walk[i], i)
  <2> DEFINE T == {i \in Nat : i <= n => Carried(s, d, n, walk[i], i)}
  <2>1. 0 \in T
    <3>1. walk[0] = a
      BY <1>6
    <3>2. QED
      BY <3>1, StartCarried DEF a
  <2>2. ASSUME NEW i \in T PROVE i + 1 \in T
    <3>1. SUFFICES ASSUME i + 1 <= n PROVE Carried(s, d, n, walk[i + 1], i + 1)
      OBVIOUS
    <3>2. i \in 0..(n - 1) /\ i + 1 \in 0..n /\ i + 1 # 0 /\ (i + 1) - 1 = i
      BY <3>1
    <3>3. Carried(s, d, n, Hash!Round(walk[i]), i + 1)
      BY <3>2, RoundCarried
    <3>4. walk[i + 1] = Hash!Round(walk[(i + 1) - 1])
      BY <1>6, <3>2
    <3>5. QED
      BY <3>2, <3>3, <3>4
  <2>3. T = Nat
    <3>1. T \in SUBSET Nat
      OBVIOUS
    <3> HIDE DEF T
    <3>2. QED
      BY <2>1, <2>2, <3>1, Induction
  <2>4. QED
    BY <2>3
<1>10. Cardinality(DOMAIN s.table) = n
  BY SlotCount DEF Walks
<1>11. Hash!swapdown(s, d) = Hash!Settle(walk[n])
  BY ONLY <1>10, SameCardinality DEF Hash!swapdown, walk, a
<1>12. n \in 0..n
  OBVIOUS
<1>13. QED
  BY <1>7, <1>11, <1>12

(* rbhash_swapdown puts d into the table, loses and doubles nothing,       *)
(* leaves every element where it is looked for, and fails only without an  *)
(* empty slot.                                                             *)
PutWhole(s, d, e) ==
    Once(s.table) /\ d \notin DataOf(s.table) /\ ~ e.fail =>
      Once(e.table) /\ DataOf(e.table) = DataOf(s.table) \union ({d} \intersect HashData)

PutRight(s, d, n, e) ==
    /\ e \in Walks(n) /\ e.dirty = s.dirty /\ (s.fail => e.fail)
    /\ PutWhole(s, d, e)
    /\ Clean(s.table) /\ d # Junk => Clean(e.table)
    /\ Home(s.table, n, s.max) => Home(e.table, n, e.max)
    /\ EmptyIn(s.table) # {} => e.fail = s.fail

LEMMA SettleRight ==
    ASSUME NEW n \in Nat \ {0}, NEW s \in Walks(n), NEW d \in Junky,
           NEW t, Carried(s, d, n, t, n), t.table[t.at] = Hash!Empty
    PROVE  PutRight(s, d, n, Hash!Settle(t))
<1> DEFINE tb == [t.table EXCEPT ![t.at] = t.nw]
           e == Hash!Settle(t)
<1>1. /\ t.table \in Tables(n) /\ t.at \in 0..(n - 1) /\ t.max \in Nat /\ t.nw \in Full
      /\ t.fail \in BOOLEAN /\ t.dirty \in BOOLEAN
      /\ t = [table |-> t.table, max |-> t.max, nw |-> t.nw, at |-> t.at,
              fail |-> t.fail, dirty |-> t.dirty]
      /\ t.fail = s.fail /\ t.dirty = s.dirty
  BY DEF Carried, Walks
<1>2. e = [t EXCEPT !.table = tb]
  BY DEF Hash!Settle
<1> HIDE DEF e
<1>3. /\ e.table = tb /\ e.max = t.max /\ e.fail = s.fail /\ e.dirty = s.dirty
      /\ e = [table |-> tb, max |-> t.max, nw |-> t.nw, at |-> t.at,
              fail |-> t.fail, dirty |-> t.dirty]
  BY <1>1, <1>2
<1>4. tb \in Tables(n) /\ \A a \in 0..(n - 1) : tb[a] = IF a = t.at THEN t.nw ELSE t.table[a]
  BY <1>1 DEF Tables, Entries
<1> HIDE DEF tb
<1>5. e \in Walks(n)
  BY <1>1, <1>3, <1>4 DEF Walks, Entries
<1>6. DOMAIN tb = 0..(n - 1) /\ DOMAIN t.table = 0..(n - 1)
  BY <1>1, <1>4 DEF Tables
<1>7. PutWhole(s, d, e)
  <2>1. SUFFICES ASSUME Once(s.table), d \notin DataOf(s.table)
                 PROVE  Once(tb) /\ DataOf(tb) = DataOf(s.table) \union ({d} \intersect HashData)
    BY <1>3 DEF PutWhole
  <2>2. /\ Once(t.table) /\ t.nw.data \notin DataOf(t.table)
        /\ DataOf(t.table) \union ({t.nw.data} \intersect HashData)
           = DataOf(s.table) \union ({d} \intersect HashData)
    BY <2>1 DEF Carried, CarriedWhole
  <2>3. t.table[t.at].data \notin HashData
    BY EntryKinds DEF Junky
  <2>4. Once(tb)
    <3>1. SUFFICES ASSUME NEW a \in 0..(n - 1), NEW b \in 0..(n - 1),
                          tb[a].data = tb[b].data, tb[a].data \in HashData
                   PROVE  a = b
      BY <1>6 DEF Once
    <3>2. \A x \in 0..(n - 1) : t.table[x].data = t.nw.data => t.nw.data \notin HashData
      BY <1>6, <2>2 DEF DataOf
    <3>3. CASE a = t.at
      BY <1>4, <3>1, <3>2, <3>3
    <3>4. CASE b = t.at
      BY <1>4, <3>1, <3>2, <3>4
    <3>5. CASE a # t.at /\ b # t.at
      BY <1>4, <1>6, <2>2, <3>1, <3>5 DEF Once
    <3>6. QED
      BY <3>3, <3>4, <3>5
  <2>5. \A x \in HashData : (\E a \in 0..(n - 1) : tb[a].data = x)
                            <=> (\E a \in 0..(n - 1) : t.table[a].data = x) \/ t.nw.data = x
    BY <1>1, <1>4, <2>3
  <2>6. DataOf(tb) = DataOf(t.table) \union ({t.nw.data} \intersect HashData)
    BY <1>6, <2>5 DEF DataOf
  <2>7. QED
    BY <2>2, <2>4, <2>6
<1>8. Clean(s.table) /\ d # Junk => Clean(tb)
  <2>1. SUFFICES ASSUME Clean(s.table), d # Junk PROVE Clean(tb)
    OBVIOUS
  <2>2. Clean(t.table) /\ t.nw.data # Junk
    BY <2>1 DEF Carried, CarriedClean
  <2>3. QED
    BY <1>4, <1>6, <2>2 DEF Clean
<1>9. Home(s.table, n, s.max) => Home(tb, n, t.max)
  <2>1. SUFFICES ASSUME Home(s.table, n, s.max) PROVE Home(tb, n, t.max)
    OBVIOUS
  <2>2. Home(t.table, n, t.max) /\ AtHome(t.nw, t.at, n, t.max)
    BY <2>1 DEF Carried, CarriedHome
  <2>3. QED
    BY <1>4, <2>2 DEF Home
<1>10. QED
  BY <1>3, <1>5, <1>7, <1>8, <1>9 DEF PutRight, e

(* After as many rounds as there are slots every slot was full.            *)
LEMMA FullUp ==
    ASSUME NEW n \in Nat \ {0}, NEW s \in Walks(n), NEW d \in Junky,
           NEW t, Carried(s, d, n, t, n), t.table[t.at] # Hash!Empty
    PROVE  PutRight(s, d, n, Hash!Settle(t))
<1> DEFINE h == Hash!slot(d, n)
           e == Hash!Settle(t)
<1>1. /\ t.table \in Tables(n) /\ t.at \in 0..(n - 1) /\ t.max \in Nat /\ t.nw \in Full
      /\ t.fail \in BOOLEAN /\ t.dirty \in BOOLEAN
      /\ t = [table |-> t.table, max |-> t.max, nw |-> t.nw, at |-> t.at,
              fail |-> t.fail, dirty |-> t.dirty]
      /\ t.fail = s.fail /\ t.dirty = s.dirty
  BY DEF Carried, Walks
<1>2. e = [t EXCEPT !.fail = TRUE]
  BY DEF Hash!Settle
<1>3. h \in 0..(n - 1)
  BY SlotThere
<1>4. \A j \in 0..(n - 1) : Behind(h, j, n) \notin EmptyIn(s.table)
  BY DEF Carried, CarriedPast
<1> HIDE DEF e, h
<1>5. e \in Walks(n) /\ e.table = t.table /\ e.max = t.max /\ e.fail = TRUE /\ e.dirty = s.dirty
  BY <1>1, <1>2 DEF Walks, Entries
<1>6. EmptyIn(s.table) = {}
  <2>1. \A a \in 0..(n - 1) : \E j \in 0..(n - 1) : Behind(h, j, n) = a
    <3>1. SUFFICES ASSUME NEW a \in 0..(n - 1) PROVE \E j \in 0..(n - 1) : Behind(h, j, n) = a
      OBVIOUS
    <3>2. CASE h <= a
      <4>1. a - h \in 0..(n - 1) /\ Behind(h, a - h, n) = a
        BY <1>3, <3>2 DEF Behind
      <4>2. QED
        BY <4>1
    <3>3. CASE ~ (h <= a)
      <4>1. a - h + n \in 0..(n - 1) /\ Behind(h, a - h + n, n) = a
        BY <1>3, <3>3 DEF Behind
      <4>2. QED
        BY <4>1
    <3>4. QED
      BY <3>2, <3>3
  <2>2. DOMAIN s.table = 0..(n - 1)
    BY DEF Walks, Tables
  <2>3. QED
    BY <1>4, <2>1, <2>2 DEF EmptyIn
<1>7. Clean(s.table) /\ d # Junk => Clean(e.table)
  BY <1>5 DEF Carried, CarriedClean
<1>8. Home(s.table, n, s.max) => Home(e.table, n, e.max)
  BY <1>5 DEF Carried, CarriedHome
<1>9. QED
  BY <1>5, <1>6, <1>7, <1>8 DEF PutRight, PutWhole, e

LEMMA Swapdown ==
    ASSUME NEW n \in Nat \ {0}, NEW s \in Walks(n), NEW d \in Junky
    PROVE  PutRight(s, d, n, Hash!swapdown(s, d))
BY WalkCarried, SettleRight, FullUp

(* A table with fewer elements than slots has an empty slot.               *)
LEMMA Room ==
    ASSUME NEW n \in Nat \ {0}, NEW t \in Tables(n), Clean(t), Once(t),
           IsFiniteSet(DataOf(t)), Cardinality(DataOf(t)) < n
    PROVE  EmptyIn(t) # {}
<1>1. SUFFICES ASSUME EmptyIn(t) = {} PROVE FALSE
  OBVIOUS
<1>2. DOMAIN t = 0..(n - 1) /\ Cardinality(0..(n - 1)) = n /\ IsFiniteSet(0..(n - 1))
  BY SlotCount
<1>3. \A a \in 0..(n - 1) : t[a].data \in HashData
  <2>1. \A a \in 0..(n - 1) : t[a] \in Full
    BY <1>1, <1>2, EntryKinds DEF EmptyIn, Tables
  <2>2. \A a \in 0..(n - 1) : t[a].data \in Junky /\ t[a].data # Junk
    BY <1>2, <2>1, EntryKinds DEF Clean
  <2>3. QED
    BY <2>2 DEF Junky
<1> DEFINE f == [a \in 0..(n - 1) |-> t[a].data]
<1>4. f \in [0..(n - 1) -> DataOf(t)]
  BY <1>2, <1>3 DEF DataOf
<1>5. \E a, b \in 0..(n - 1) : a # b /\ f[a] = f[b]
  <2> HIDE DEF f
  <2>1. QED
    BY <1>2, <1>4, FS_PigeonHole
<1>6. QED
  BY <1>2, <1>3, <1>5 DEF Once

-----------------------------------------------------------------------------
(* A larger table: Moved says what is in it when the first i slots of the  *)
(* old one have been moved.                                                *)
Bare(t) == DataOf(t) = {}
HasJunk(t, m) == \E a \in 0..(m - 1) : t[a].data = Junk
First(t, i) == {t[j].data : j \in 0..(i - 1)} \intersect HashData

MovedWhole(from, to, x, i) ==
    Once(from) /\ Bare(to) /\ ~ x.fail =>
      Once(x.table) /\ DataOf(x.table) = First(from, i)
MovedClean(from, to, x) == Clean(from) /\ Clean(to) => Clean(x.table)
MovedIn(from, to, m, x) ==
    /\ Once(from) /\ Clean(from) /\ Clean(to) /\ Bare(to)
    /\ IsFiniteSet(DataOf(from)) /\ Cardinality(DataOf(from)) < m
    => ~ x.fail

Moved(from, to, m, x, i) ==
    /\ x \in Walks(m) /\ x.dirty = HasJunk(to, m)
    /\ MovedWhole(from, to, x, i) /\ MovedClean(from, to, x)
    /\ Bare(to) => Home(x.table, m, x.max)
    /\ MovedIn(from, to, m, x)

LEMMA WalkThere ==
    ASSUME NEW m \in Nat \ {0}, NEW t \in Tables(m), NEW far \in Nat
    PROVE  LET x == Hash!Walk(t, far)
           IN  /\ x \in Walks(m) /\ x.table = t /\ x.max = far /\ x.fail = FALSE
               /\ x.dirty = HasJunk(t, m)
<1>1. 0 \in 0..(m - 1) /\ DOMAIN t = 0..(m - 1)
  BY DEF Tables
<1>2. QED
  BY <1>1 DEF Hash!Walk, Walks, Entries, HasJunk

LEMMA MovedNone ==
    ASSUME NEW n \in Nat \ {0}, NEW m \in Nat \ {0},
           NEW from \in Tables(n), NEW to \in Tables(m)
    PROVE  Moved(from, to, m, Hash!Walk(to, 0), 0)
<1> DEFINE x == Hash!Walk(to, 0)
<1>1. /\ x \in Walks(m) /\ x.table = to /\ x.max = 0 /\ x.fail = FALSE
      /\ x.dirty = HasJunk(to, m)
  <2>1. 0 \in Nat
    OBVIOUS
  <2>2. QED
    BY <2>1, WalkThere
<1> HIDE DEF x
<1>2. First(from, 0) = {}
  BY DEF First
<1>3. DOMAIN to = 0..(m - 1)
  BY DEF Tables
<1>4. Bare(to) => Once(to) /\ Home(to, m, 0)
  BY <1>3 DEF Bare, Once, DataOf, Home, AtHome
<1>5. QED
  BY <1>1, <1>2, <1>4 DEF Moved, MovedWhole, MovedClean, MovedIn, Bare, x

LEMMA MovedOne ==
    ASSUME NEW n \in Nat \ {0}, NEW m \in Nat \ {0},
           NEW from \in Tables(n), NEW to \in Tables(m),
           NEW x, NEW i \in 0..(n - 1), Moved(from, to, m, x, i)
    PROVE  Moved(from, to, m, Hash!Put(x, from[i]), i + 1)
<1> DEFINE d == from[i].data
           e == Hash!swapdown(x, d)
<1>1. x \in Walks(m) /\ x.table \in Tables(m) /\ x.fail \in BOOLEAN /\ DOMAIN from = 0..(n - 1)
  BY DEF Moved, Walks, Tables
<1>2. First(from, i + 1) = First(from, i) \union ({d} \intersect HashData)
  <2>1. \A j \in 0..((i + 1) - 1) : j = i \/ j \in 0..(i - 1)
    OBVIOUS
  <2>2. i \in 0..((i + 1) - 1) /\ \A j \in 0..(i - 1) : j \in 0..((i + 1) - 1)
    OBVIOUS
  <2>3. QED
    BY <2>1, <2>2 DEF First
<1>3. CASE from[i] = Hash!Empty
  <2>1. d \notin HashData
    BY <1>3, EntryKinds DEF Junky
  <2>2. First(from, i + 1) = First(from, i) /\ Hash!Put(x, from[i]) = x
    BY <1>2, <1>3, <2>1 DEF Hash!Put
  <2>3. QED
    BY <2>2 DEF Moved, MovedWhole
<1>4. CASE from[i] # Hash!Empty
  <2>1. d \in Junky /\ Hash!Put(x, from[i]) = e
    BY <1>4, EntryKinds DEF Tables, Hash!Put
  <2>2. PutRight(x, d, m, e)
    BY <1>1, <2>1, Swapdown
  <2>3. Once(from) => d \notin First(from, i)
    <3>1. SUFFICES ASSUME Once(from), d \in HashData,
                          NEW j \in 0..(i - 1), from[j].data = d
                   PROVE  FALSE
      BY DEF First
    <3>2. j \in 0..(n - 1) /\ j # i
      OBVIOUS
    <3>3. QED
      BY <1>1, <3>1, <3>2 DEF Once
  <2>4. Clean(from) => d # Junk
    BY <1>1 DEF Clean
  <2> HIDE DEF d, e
  <2>5. MovedWhole(from, to, e, i + 1)
    BY <1>2, <2>2, <2>3 DEF MovedWhole, Moved, PutRight, PutWhole
  <2>6. MovedClean(from, to, e)
    BY <2>2, <2>4 DEF MovedClean, Moved, PutRight
  <2>7. Bare(to) => Home(e.table, m, e.max)
    BY <2>2 DEF Moved, PutRight
  <2>8. MovedIn(from, to, m, e)
    <3>1. SUFFICES ASSUME Once(from), Clean(from), Clean(to), Bare(to),
                          IsFiniteSet(DataOf(from)), Cardinality(DataOf(from)) < m
                   PROVE  ~ e.fail
      BY DEF MovedIn
    <3>2. ~ x.fail /\ Once(x.table) /\ DataOf(x.table) = First(from, i) /\ Clean(x.table)
      BY <3>1 DEF Moved, MovedIn, MovedWhole, MovedClean
    <3>3. First(from, i) \subseteq DataOf(from)
      BY <1>1 DEF First, DataOf
    <3>4. IsFiniteSet(DataOf(x.table)) /\ Cardinality(DataOf(x.table)) <= Cardinality(DataOf(from))
      BY <3>1, <3>2, <3>3, FS_Subset
    <3>5. Cardinality(DataOf(x.table)) \in Nat /\ Cardinality(DataOf(from)) \in Nat
      BY <3>1, <3>4, FS_CardinalityType
    <3>6. Cardinality(DataOf(x.table)) < m
      BY <3>1, <3>4, <3>5
    <3>7. EmptyIn(x.table) # {}
      BY <1>1, <3>2, <3>4, <3>6, Room
    <3>8. QED
      BY <2>2, <3>2, <3>7 DEF PutRight
  <2>9. QED
    BY <2>1, <2>2, <2>5, <2>6, <2>7, <2>8 DEF Moved, PutRight
<1>5. QED
  BY <1>3, <1>4

LEMMA RehashRight ==
    ASSUME NEW n \in Nat \ {0}, NEW m \in Nat \ {0},
           NEW from \in Tables(n), NEW to \in Tables(m)
    PROVE  Moved(from, to, m, Hash!Rehash(from, to), n)
<1> DEFINE S == Walks(m)
           F == [x \in S \X Nat |-> IF x[2] \in 1..n THEN Hash!Put(x[1], from[x[2] - 1]) ELSE x[1]]
           a == Hash!Walk(to, 0)
           moved == CHOOSE f : f = [i \in 0..n |-> IF i = 0 THEN a ELSE Hash!Put(f[i - 1], from[i - 1])]
<1>1. a \in S
  BY MovedNone DEF Moved
<1>2. \A x \in S, e \in Entries : Hash!Put(x, e) \in S
  <2>1. SUFFICES ASSUME NEW x \in S, NEW e \in Entries, e # Hash!Empty
                 PROVE  Hash!swapdown(x, e.data) \in S
    BY DEF Hash!Put
  <2>2. e.data \in Junky
    BY <2>1, EntryKinds
  <2>3. QED
    BY <2>2, Swapdown DEF PutRight
<1>3. F \in [S \X Nat -> S]
  <2>1. SUFFICES ASSUME NEW x \in S \X Nat, x[2] \in 1..n
                 PROVE  Hash!Put(x[1], from[x[2] - 1]) \in S
    OBVIOUS
  <2>2. x[1] \in S /\ x[2] - 1 \in 0..(n - 1)
    BY <2>1
  <2>3. from[x[2] - 1] \in Entries
    BY <2>2 DEF Tables
  <2> HIDE DEF S
  <2>4. QED
    BY <1>2, <2>2, <2>3
<1>4. PICK f \in [0..n -> S] : StepByStep(f, a, F, n)
  <2> HIDE DEF S, F, a
  <2>1. n \in Nat
    OBVIOUS
  <2>2. QED
    BY ONLY <1>1, <1>3, <2>1, Repeated
<1>5. f = [i \in 0..n |-> IF i = 0 THEN a ELSE Hash!Put(f[i - 1], from[i - 1])]
  <2> HIDE DEF a, S
  <2>1. \A i \in 1..n : /\ <<f[i - 1], i>> \in S \X Nat
                        /\ <<f[i - 1], i>>[1] = f[i - 1] /\ <<f[i - 1], i>>[2] = i
    OBVIOUS
  <2>2. \A i \in 0..n : i # 0 => i \in 1..n
    OBVIOUS
  <2>3. \A i \in 1..n : f[i] = Hash!Put(f[i - 1], from[i - 1])
    BY <1>4, <2>1 DEF StepByStep
  <2> HIDE DEF F
  <2>4. QED
    BY <1>4, <2>2, <2>3 DEF StepByStep
<1>6. moved = [i \in 0..n |-> IF i = 0 THEN a ELSE Hash!Put(moved[i - 1], from[i - 1])]
  <2> HIDE DEF a
  <2>1. QED
    BY <1>5
<1> HIDE DEF moved, a, S, F
<1>7. \A i \in 0..n : Moved(from, to, m, moved[i], i)
  <2> DEFINE T == {i \in Nat : i <= n => Moved(from, to, m, moved[i], i)}
  <2>1. 0 \in T
    <3>1. moved[0] = a
      BY <1>6
    <3>2. QED
      BY <3>1, MovedNone DEF a
  <2>2. ASSUME NEW i \in T PROVE i + 1 \in T
    <3>1. SUFFICES ASSUME i + 1 <= n PROVE Moved(from, to, m, moved[i + 1], i + 1)
      OBVIOUS
    <3>2. i \in 0..(n - 1) /\ i + 1 \in 0..n /\ i + 1 # 0 /\ (i + 1) - 1 = i
      BY <3>1
    <3>3. Moved(from, to, m, Hash!Put(moved[i], from[i]), i + 1)
      BY <3>2, MovedOne
    <3>4. moved[i + 1] = Hash!Put(moved[(i + 1) - 1], from[(i + 1) - 1])
      BY <1>6, <3>2
    <3>5. QED
      BY <3>2, <3>3, <3>4
  <2>3. T = Nat
    <3>1. T \in SUBSET Nat
      OBVIOUS
    <3> HIDE DEF T
    <3>2. QED
      BY <2>1, <2>2, <3>1, Induction
  <2>4. QED
    BY <2>3
<1>8. Cardinality(DOMAIN from) = n
  BY SlotCount
<1>9. Hash!Rehash(from, to) = moved[n]
  BY ONLY <1>8, SameCardinality DEF Hash!Rehash, moved, a
<1>10. n \in 0..n
  OBVIOUS
<1>11. QED
  BY <1>7, <1>9, <1>10

(* The size of a new table.                                                *)
LEMMA RoundUp ==
    ASSUME NEW n \in Nat, n >= 1
    PROVE  Hash!RoundUpPowTwo(n) \in Nat /\ Hash!RoundUpPowTwo(n) >= n
<1> DEFINE F == [x \in Nat \X Nat |-> 2 * x[1]]
           power == CHOOSE f : f = [k \in 0..n |-> IF k = 0 THEN 1 ELSE 2 * f[k - 1]]
           large(k) == n <= power[k] /\ power[k] < 2 * n
<1>1. F \in [Nat \X Nat -> Nat]
  OBVIOUS
<1>2. PICK f \in [0..n -> Nat] : StepByStep(f, 1, F, n)
  <2> HIDE DEF F
  <2>1. 1 \in Nat
    OBVIOUS
  <2>2. QED
    BY <1>1, <2>1, Repeated
<1>3. f = [k \in 0..n |-> IF k = 0 THEN 1 ELSE 2 * f[k - 1]] /\ \A k \in 1..n : f[k] = 2 * f[k - 1]
  <2>1. \A k \in 1..n : /\ <<f[k - 1], k>> \in Nat \X Nat
                        /\ <<f[k - 1], k>>[1] = f[k - 1]
    OBVIOUS
  <2>2. \A k \in 0..n : k # 0 => k \in 1..n
    OBVIOUS
  <2>3. \A k \in 1..n : f[k] = 2 * f[k - 1]
    BY <1>2, <2>1 DEF StepByStep
  <2> HIDE DEF F
  <2>4. QED
    BY <1>2, <2>2, <2>3 DEF StepByStep
<1>4. power = [k \in 0..n |-> IF k = 0 THEN 1 ELSE 2 * power[k - 1]]
  BY <1>3
<1> HIDE DEF power
<1>5. power[0] = 1 /\ \A k \in 1..n : power[k] = 2 * power[k - 1]
  <2>1. 0 \in 0..n /\ \A k \in 1..n : k \in 0..n /\ k # 0
    OBVIOUS
  <2>2. QED
    BY <1>4, <2>1
<1>6. \A k \in 0..n : power[k] \in Nat /\ power[k] >= k + 1
  <2> DEFINE T == {k \in Nat : k <= n => power[k] \in Nat /\ power[k] >= k + 1}
  <2>1. 0 \in T
    BY <1>5
  <2>2. ASSUME NEW k \in T PROVE k + 1 \in T
    <3>1. SUFFICES ASSUME k + 1 <= n PROVE power[k + 1] \in Nat /\ power[k + 1] >= (k + 1) + 1
      OBVIOUS
    <3>2. power[k] \in Nat /\ power[k] >= k + 1 /\ k + 1 \in 1..n /\ (k + 1) - 1 = k
      BY <3>1
    <3>3. power[k + 1] = 2 * power[k]
      BY <1>5, <3>2
    <3>4. QED
      BY <3>2, <3>3
  <2>3. T = Nat
    <3>1. T \in SUBSET Nat
      OBVIOUS
    <3> HIDE DEF T
    <3>2. QED
      BY <2>1, <2>2, <3>1, Induction
  <2>4. QED
    BY <2>3
<1>7. \E k \in 0..n : large(k)
  <2> DEFINE T == {k \in 0..n : n <= power[k]}
  <2>1. n \in T
    BY <1>6
  <2>2. PICK k \in T : \A j \in T : ~ (j < k)
    <3>1. T \in SUBSET Nat /\ T # {}
      BY <2>1
    <3> HIDE DEF T
    <3>2. QED
      BY <3>1, Least
  <2>3. CASE k = 0
    BY <1>5, <2>2, <2>3
  <2>4. CASE k # 0
    <3>1. k \in 1..n /\ k - 1 \in 0..n /\ k - 1 < k
      BY <2>4
    <3>2. ~ (n <= power[k - 1])
      BY <2>2, <3>1
    <3>3. power[k - 1] \in Nat /\ power[k] = 2 * power[k - 1]
      BY <1>5, <1>6, <3>1
    <3>4. QED
      BY <2>2, <3>1, <3>2, <3>3
  <2>5. QED
    BY <2>3, <2>4
<1> DEFINE k == CHOOSE k \in 0..n : large(k)
<1>8. k \in 0..n /\ large(k)
  <2> HIDE DEF large
  <2>1. QED
    BY <1>7
<1>9. Hash!RoundUpPowTwo(n) = power[k]
  BY ONLY TRUE DEF Hash!RoundUpPowTwo, power
<1> HIDE DEF k
<1>10. QED
  BY <1>6, <1>8, <1>9

(* rbhash_upsize leaves the table, or moves all of it to one with room.    *)
Grown(x, c, m, y) ==
    /\ ~ y.dirty /\ Clean(x.table) => Clean(y.table)
    /\ Once(x.table) /\ ~ y.fail => Once(y.table) /\ DataOf(y.table) = DataOf(x.table)
    /\ Home(y.table, m, y.max)
    /\ /\ ~ y.dirty /\ Clean(x.table) /\ Once(x.table)
       /\ IsFiniteSet(DataOf(x.table)) /\ Cardinality(DataOf(x.table)) <= c
       => ~ y.fail

LEMMA UpsizeRight ==
    ASSUME NEW n \in Nat \ {0}, NEW x \in Walks(n), NEW c \in Nat, NEW y \in Hash!upsize(x, c)
    PROVE  \/ y = x /\ c < n
           \/ \E m \in Nat \ {0} : y \in Walks(m) /\ c < m /\ Grown(x, c, m, y)
<1> DEFINE old == n
           wanted == (c + ((n * HashPercent) \div 100)) + 1
           m == Hash!RoundUpPowTwo(wanted)
           new(junk) == [s \in 0..(m - 1) |->
                           IF s \in junk THEN [data |-> Junk, distance |-> 0] ELSE Hash!Empty]
<1>1. wanted \in Nat /\ wanted > c /\ wanted >= 1
  <2>1. n * HashPercent \in Nat
    BY HashAssumption
  <2>2. (n * HashPercent) \div 100 \in Nat
    BY <2>1
  <2>3. QED
    BY <2>2
<1> HIDE DEF wanted
<1>2. m \in Nat \ {0} /\ c < m
  BY <1>1, RoundUp
<1> HIDE DEF m
<1>3. x.table \in Tables(n) /\ Cardinality(DOMAIN x.table) = n
  BY SlotCount DEF Walks
<1>4. \/ n > wanted /\ y = x
      \/ \E junk \in {{}, n..(m - 1)} : y = Hash!Rehash(x.table, new(junk))
  BY ONLY <1>3, SameCardinality, y \in Hash!upsize(x, c) DEF Hash!upsize, wanted, m
<1>5. CASE n > wanted /\ y = x
  BY <1>1, <1>5
<1>6. ASSUME NEW junk \in {{}, n..(m - 1)}, y = Hash!Rehash(x.table, new(junk))
      PROVE  y \in Walks(m) /\ Grown(x, c, m, y)
  <2> DEFINE to == new(junk)
  <2>1. to \in Tables(m)
    BY HashAssumption DEF Tables, Entries, Full, Junky
  <2>2. DOMAIN to = 0..(m - 1) /\ \A a \in 0..(m - 1) : to[a].data \in {Junk, {}}
    BY DEF Hash!Empty
  <2> HIDE DEF to
  <2>3. Bare(to) /\ (~ HasJunk(to, m) => Clean(to))
    BY <2>2, HashAssumption DEF Bare, DataOf, HasJunk, Clean
  <2>4. Moved(x.table, to, m, y, n)
    <3>1. y = Hash!Rehash(x.table, to)
      BY <1>6 DEF to
    <3>2. QED
      BY <1>2, <1>3, <2>1, <3>1, RehashRight
  <2>5. First(x.table, n) = DataOf(x.table)
    BY <1>3 DEF First, DataOf, Tables
  <2>6. y \in Walks(m) /\ y.dirty = HasJunk(to, m)
    BY <2>4 DEF Moved
  <2>7. ~ y.dirty /\ Clean(x.table) => Clean(y.table)
    BY <2>3, <2>4, <2>6 DEF Moved, MovedClean
  <2>8. Once(x.table) /\ ~ y.fail => Once(y.table) /\ DataOf(y.table) = DataOf(x.table)
    BY <2>3, <2>4, <2>5 DEF Moved, MovedWhole
  <2>9. Home(y.table, m, y.max)
    BY <2>3, <2>4 DEF Moved
  <2>10. ASSUME ~ y.dirty, Clean(x.table), Once(x.table),
                IsFiniteSet(DataOf(x.table)), Cardinality(DataOf(x.table)) <= c
         PROVE  ~ y.fail
    <3>1. Cardinality(DataOf(x.table)) < m
      <4>1. Cardinality(DataOf(x.table)) \in Nat
        BY <2>10, FS_CardinalityType
      <4>2. QED
        BY <1>2, <2>10, <4>1
    <3>2. QED
      BY <2>3, <2>4, <2>6, <2>10, <3>1 DEF Moved, MovedIn
  <2>11. QED
    BY <2>6, <2>7, <2>8, <2>9, <2>10 DEF Grown
<1>7. QED
  BY <1>2, <1>4, <1>5, <1>6

-----------------------------------------------------------------------------
(* Between two calls: what is held is in the table once; while malloc left *)
(* nothing in a new slot there is more room than elements; and until one   *)
(* is removed all stand where their hash and distance say.                 *)
Ordered(n) ==
    /\ table \in Tables(n)
    /\ ~ dirty => Cardinality(held) < n
    /\ ~ exited /\ ~ removed => Home(table, n, maxdistance)

HashInv ==
    /\ \E n \in Nat \ {0} : Ordered(n)
    /\ maxdistance \in Nat /\ dirty \in BOOLEAN /\ removed \in BOOLEAN /\ exited \in BOOLEAN
    /\ held \subseteq HashData /\ IsFiniteSet(held) /\ used = Cardinality(held)
    /\ ~ exited => Once(table) /\ DataOf(table) = held
    /\ ~ dirty => Clean(table) /\ ~ exited

LEMMA HashInit == Hash!Init => HashInv
<1> SUFFICES ASSUME Hash!Init PROVE HashInv
  OBVIOUS
<1>1. /\ HashInitSize \in Nat \ {0} /\ Hash!Empty \in Entries
      /\ Hash!Empty.data \notin HashData /\ Hash!Empty.data # Junk
  BY HashAssumption, EntryKinds DEF Entries, Junky
<1>2. table = [s \in 0..(HashInitSize - 1) |-> Hash!Empty]
  BY DEF Hash!Init
<1>3. table \in Tables(HashInitSize) /\ DOMAIN table = 0..(HashInitSize - 1)
      /\ \A a \in DOMAIN table : table[a] = Hash!Empty
  BY <1>1, <1>2 DEF Tables
<1>4. Clean(table) /\ Once(table) /\ DataOf(table) = {} /\ Home(table, HashInitSize, maxdistance)
  BY <1>1, <1>3 DEF Clean, Once, DataOf, Home, AtHome
<1>5. held = {} /\ IsFiniteSet({}) /\ Cardinality({}) = 0
  BY FS_EmptySet DEF Hash!Init
<1>6. Cardinality(held) < HashInitSize
  BY <1>1, <1>5
<1>7. Ordered(HashInitSize)
  BY <1>3, <1>4, <1>6 DEF Ordered
<1>8. QED
  BY <1>1, <1>4, <1>5, <1>7 DEF HashInv, Hash!Init

(* What an element that is added leaves, as the walk y has it.             *)
LEMMA HashTake ==
    ASSUME HashInv, NEW n \in Nat \ {0}, Ordered(n),
           NEW d \in HashData, d \notin held, ~ exited,
           NEW x, x = Hash!swapdown(Hash!Walk(table, maxdistance), d),
           NEW y, y \in IF x.fail THEN {x} ELSE Hash!upsize(x, used + 1),
           Hash!Take(y, d)
    PROVE  HashInv'
<1> DEFINE z == Hash!Walk(table, maxdistance)
           c == used + 1
<1>1. /\ table \in Tables(n) /\ maxdistance \in Nat /\ held \subseteq HashData
      /\ IsFiniteSet(held) /\ used = Cardinality(held) /\ used \in Nat
      /\ Once(table) /\ DataOf(table) = held
      /\ dirty \in BOOLEAN /\ removed \in BOOLEAN
  <2>1. IsFiniteSet(held) /\ used = Cardinality(held)
    BY DEF HashInv
  <2>2. used \in Nat
    BY <2>1, FS_CardinalityType
  <2>3. QED
    BY <2>1, <2>2 DEF HashInv, Ordered
<1>2. /\ z \in Walks(n) /\ z.table = table /\ z.max = maxdistance /\ z.fail = FALSE
      /\ z.dirty = HasJunk(table, n)
  BY ONLY <1>1, n \in Nat \ {0}, WalkThere DEF z
<1>3. d \in Junky /\ d # Junk
  BY HashAssumption DEF Junky
<1>4. PutRight(z, d, n, x)
  BY <1>2, <1>3, Swapdown
<1> HIDE DEF z
<1>5. /\ table' = y.table /\ maxdistance' = y.max /\ exited' = y.fail
      /\ used' = c /\ held' = held \union {d}
      /\ removed' = (removed /\ DOMAIN y.table = DOMAIN table)
      /\ dirty' = (dirty \/ y.dirty)
  BY DEF Hash!Take
<1>6. /\ x \in Walks(n) /\ x.dirty = HasJunk(table, n)
      /\ ~ x.fail => Once(x.table) /\ DataOf(x.table) = held \union {d}
      /\ Clean(table) => Clean(x.table)
      /\ Home(table, n, maxdistance) => Home(x.table, n, x.max)
      /\ EmptyIn(table) # {} => ~ x.fail
  <2>1. {d} \intersect HashData = {d}
    OBVIOUS
  <2>2. QED
    BY <1>1, <1>2, <1>3, <1>4, <2>1 DEF PutRight, PutWhole
<1>7. /\ held' \subseteq HashData /\ IsFiniteSet(held') /\ used' = Cardinality(held')
      /\ c \in Nat /\ Cardinality(held \union {d}) = c
  BY <1>1, <1>5, FS_AddElement
<1>8. ~ dirty => Clean(x.table) /\ ~ x.fail
  <2>1. SUFFICES ASSUME ~ dirty PROVE Clean(table) /\ EmptyIn(table) # {}
    BY <1>6
  <2>2. Clean(table) /\ Cardinality(held) < n
    BY <2>1 DEF HashInv, Ordered
  <2>3. QED
    BY <1>1, <2>2, Room
<1>9. CASE x.fail
  <2>1. y = x
    BY <1>9
  <2>2. x.table \in Tables(n) /\ x.max \in Nat /\ x.fail \in BOOLEAN /\ x.dirty \in BOOLEAN
    BY <1>6 DEF Walks
  <2>3. DOMAIN x.table = DOMAIN table
    BY <1>1, <2>2 DEF Tables
  <2>4. exited' /\ dirty' /\ Ordered(n)'
    BY <1>5, <1>8, <1>9, <2>1, <2>2 DEF Ordered
  <2>5. QED
    BY <1>1, <1>5, <1>7, <2>1, <2>2, <2>4 DEF HashInv
<1>10. ASSUME ~ x.fail, y = x, c < n PROVE HashInv'
  <2>1. x.table \in Tables(n) /\ x.max \in Nat /\ x.fail \in BOOLEAN /\ x.dirty \in BOOLEAN
    BY <1>6 DEF Walks
  <2>2. DOMAIN x.table = DOMAIN table
    BY <1>1, <2>1 DEF Tables
  <2>3. removed' = removed /\ exited' = FALSE
    BY <1>1, <1>5, <1>10, <2>1, <2>2
  <2>4. ~ removed => Home(x.table, n, x.max)
    BY <1>6 DEF Ordered
  <2>5. Ordered(n)'
    BY <1>5, <1>7, <1>10, <2>1, <2>3, <2>4 DEF Ordered
  <2>6. ~ dirty' => Clean(table')
    BY <1>5, <1>8, <1>10
  <2>7. QED
    BY <1>1, <1>5, <1>6, <1>7, <1>10, <2>1, <2>3, <2>5, <2>6 DEF HashInv
<1>11. ASSUME ~ x.fail, NEW m \in Nat \ {0}, y \in Walks(m), c < m, Grown(x, c, m, y)
       PROVE  HashInv'
  <2>1. y.table \in Tables(m) /\ y.max \in Nat /\ y.fail \in BOOLEAN /\ y.dirty \in BOOLEAN
    BY <1>11 DEF Walks
  <2>2. Once(x.table) /\ DataOf(x.table) = held \union {d}
    BY <1>6, <1>11
  <2>3. ~ y.fail => Once(y.table) /\ DataOf(y.table) = held \union {d}
    BY <1>11, <2>2 DEF Grown
  <2>4. ~ dirty' => Clean(y.table) /\ ~ y.fail
    <3>1. SUFFICES ASSUME ~ dirty, ~ y.dirty PROVE Clean(y.table) /\ ~ y.fail
      BY <1>5
    <3>2. IsFiniteSet(DataOf(x.table)) /\ Cardinality(DataOf(x.table)) <= c
      BY <1>5, <1>7, <2>2
    <3>3. QED
      BY <1>8, <1>11, <2>2, <3>1, <3>2 DEF Grown
  <2>5. Ordered(m)'
    BY <1>5, <1>7, <1>11, <2>1 DEF Ordered, Grown
  <2>6. removed' \in BOOLEAN /\ dirty' \in BOOLEAN
    BY <1>1, <1>5, <2>1
  <2>7. QED
    BY <1>5, <1>7, <1>11, <2>1, <2>3, <2>4, <2>5, <2>6 DEF HashInv
<1>12. CASE ~ x.fail
  <2>1. y \in Hash!upsize(x, c)
    BY <1>12
  <2> HIDE DEF c
  <2>2. (y = x /\ c < n) \/ \E m \in Nat \ {0} : y \in Walks(m) /\ c < m /\ Grown(x, c, m, y)
    BY <1>6, <1>7, <2>1, UpsizeRight
  <2>3. QED
    BY <1>10, <1>11, <1>12, <2>2
<1>13. QED
  BY <1>9, <1>12

LEMMA HashAdd ==
    ASSUME HashInv, NEW d \in HashData, Hash!Add(d)
    PROVE  HashInv'
<1>1. PICK n \in Nat \ {0} : Ordered(n)
  BY DEF HashInv
<1> DEFINE x == Hash!swapdown(Hash!Walk(table, maxdistance), d)
<1>2. /\ ~ exited /\ d \notin held
      /\ \E y \in IF x.fail THEN {x} ELSE Hash!upsize(x, used + 1) : Hash!Take(y, d)
  BY DEF Hash!Add
<1> HIDE DEF x
<1>3. PICK y \in IF x.fail THEN {x} ELSE Hash!upsize(x, used + 1) : Hash!Take(y, d)
  BY <1>2
<1>4. x = Hash!swapdown(Hash!Walk(table, maxdistance), d)
  BY DEF x
<1>5. QED
  BY <1>1, <1>2, <1>3, <1>4, HashTake

(* A look-up that hits finds an element; and what stands where its hash    *)
(* and distance say is hit.                                                *)
LEMMA FindHits ==
    ASSUME HashInv, NEW d \in HashData, Hash!Find(d) # -1
    PROVE  Hash!Find(d) \in DOMAIN table /\ table[Hash!Find(d)].data \in HashData
<1>1. PICK n \in Nat \ {0} : table \in Tables(n)
  BY DEF HashInv, Ordered
<1> DEFINE place(i) == (HashHashOf[d] + i) % n
           hits == {i \in 0..maxdistance : /\ table[place(i)].data \in HashData
                                           /\ HashKeyOf[table[place(i)].data] = HashKeyOf[d]}
           first == CHOOSE i \in hits : \A j \in hits : i <= j
<1>2. Hash!size = n
  BY <1>1, SlotCount, SameCardinality DEF Hash!size
<1>3. Hash!Find(d) = IF hits = {} THEN -1 ELSE place(first)
  BY ONLY <1>2 DEF Hash!Find, Hash!find_bucket
<1>4. hits # {} /\ hits \in SUBSET Nat
  <2>1. hits \in SUBSET Nat
    BY DEF HashInv
  <2> HIDE DEF hits
  <2>2. QED
    BY <1>3, <2>1
<1>5. first \in hits
  <2>1. PICK i \in hits : \A j \in hits : ~ (j < i)
    <3> HIDE DEF hits
    <3>1. QED
      BY <1>4, Least
  <2>2. \A j \in hits : i <= j
    <3> HIDE DEF hits
    <3>1. \A x, z \in Nat : ~ (z < x) => x <= z
      OBVIOUS
    <3>2. QED
      BY <1>4, <2>1, <3>1
  <2> HIDE DEF hits
  <2>3. QED
    BY <2>1, <2>2
<1>6. Hash!Find(d) = place(first)
  BY <1>3, <1>4
<1> HIDE DEF first
<1>7. first \in Nat /\ HashHashOf[d] \in Nat
  BY <1>4, <1>5, HashAssumption
<1>8. place(first) \in 0..(n - 1)
  BY <1>7
<1>9. DOMAIN table = 0..(n - 1)
  BY <1>1 DEF Tables
<1>10. QED
  BY <1>5, <1>6, <1>8, <1>9

LEMMA FindHeld ==
    ASSUME HashInv, ~ exited, ~ removed, NEW d \in held
    PROVE  Hash!Find(d) # -1
<1>1. PICK n \in Nat \ {0} : table \in Tables(n) /\ Home(table, n, maxdistance)
  BY DEF HashInv, Ordered
<1>2. d \in HashData /\ d \in DataOf(table)
  BY DEF HashInv
<1> DEFINE place(i) == (HashHashOf[d] + i) % n
           hits == {i \in 0..maxdistance : /\ table[place(i)].data \in HashData
                                           /\ HashKeyOf[table[place(i)].data] = HashKeyOf[d]}
           first == CHOOSE i \in hits : \A j \in hits : i <= j
<1>3. PICK a \in 0..(n - 1) : table[a].data = d
  BY <1>1, <1>2 DEF DataOf, Tables
<1>4. table[a].distance <= maxdistance /\ a = place(table[a].distance)
  BY <1>1, <1>2, <1>3 DEF Home, AtHome
<1>5. table[a].distance \in Nat
  <2>1. table[a] \in Entries
    BY <1>1 DEF Tables
  <2>2. table[a] # Hash!Empty
    BY <1>2, <1>3, EntryKinds DEF Junky
  <2>3. QED
    BY <2>1, <2>2, EntryKinds
<1>6. table[a].distance \in hits
  BY <1>2, <1>3, <1>4, <1>5 DEF HashInv
<1>7. hits # {} /\ hits \in SUBSET Nat
  BY <1>6 DEF HashInv
<1>8. first \in hits
  <2>1. PICK i \in hits : \A j \in hits : ~ (j < i)
    <3> HIDE DEF hits
    <3>1. QED
      BY <1>7, Least
  <2>2. \A j \in hits : i <= j
    <3> HIDE DEF hits
    <3>1. \A x, z \in Nat : ~ (z < x) => x <= z
      OBVIOUS
    <3>2. QED
      BY <1>7, <2>1, <3>1
  <2> HIDE DEF hits
  <2>3. QED
    BY <2>1, <2>2
<1>9. Hash!size = n
  BY <1>1, SlotCount, SameCardinality DEF Hash!size
<1>10. Hash!Find(d) = IF hits = {} THEN -1 ELSE place(first)
  BY ONLY <1>9 DEF Hash!Find, Hash!find_bucket
<1>11. Hash!Find(d) = place(first)
  BY <1>7, <1>10
<1> HIDE DEF first
<1>12. first \in Nat /\ HashHashOf[d] \in Nat
  BY <1>2, <1>7, <1>8, HashAssumption
<1>13. place(first) \in 0..(n - 1)
  BY <1>12
<1>14. QED
  BY <1>11, <1>13

(* One element may move into the slot that was emptied.                    *)
LEMMA SwapupKeeps ==
    ASSUME NEW n \in Nat \ {0}, NEW t \in Tables(n), NEW b \in 0..(n - 1),
           t[b].data \in HashData, Once(t)
    PROVE  LET t2 == Hash!swapup([t EXCEPT ![b] = Hash!Empty], b)
           IN  /\ t2 \in Tables(n) /\ Once(t2)
               /\ DataOf(t2) = DataOf(t) \ {t[b].data}
               /\ Clean(t) => Clean(t2)
<1> DEFINE t1 == [t EXCEPT ![b] = Hash!Empty]
           t2 == Hash!swapup(t1, b)
           nx == Hash!next(b, n)
           tbl == t1[nx]
<1>1. /\ DOMAIN t = 0..(n - 1) /\ t1 \in Tables(n) /\ DOMAIN t1 = 0..(n - 1)
      /\ \A a \in 0..(n - 1) : t1[a] = IF a = b THEN Hash!Empty ELSE t[a]
  BY DEF Tables, Entries
<1>2. nx \in 0..(n - 1)
  BY NextSlot
<1>3. Cardinality(DOMAIN t1) = n
  BY <1>1, SlotCount
<1>4. t2 = IF tbl # Hash!Empty /\ tbl.distance # 0
           THEN [t1 EXCEPT ![b] = tbl, ![nx] = Hash!Empty] ELSE t1
  <2> HIDE DEF t1
  <2> DEFINE nx1 == Hash!next(b, Cardinality(DOMAIN t1))
  <2>1. t2 = IF t1[nx1] # Hash!Empty /\ t1[nx1].distance # 0
             THEN [t1 EXCEPT ![b] = t1[nx1], ![nx1] = Hash!Empty] ELSE t1
    BY ONLY SameCardinality DEF Hash!swapup
  <2>2. nx1 = nx
    BY ONLY <1>3
  <2> HIDE DEF nx1, nx, t2
  <2>3. QED
    BY ONLY <2>1, <2>2
<1>5. Hash!Empty.data \notin HashData /\ Hash!Empty.data # Junk
  BY EntryKinds DEF Junky
<1> HIDE DEF t1, t2, nx
<1>6. PICK from \in [0..(n - 1) -> 0..(n - 1)] :
        /\ t2 \in Tables(n)
        /\ \A a \in 0..(n - 1) : t2[a] = Hash!Empty \/ (from[a] # b /\ t2[a] = t[from[a]])
        /\ \A a \in 0..(n - 1) : a # b /\ t[a] # Hash!Empty =>
             \E x \in 0..(n - 1) : from[x] = a /\ t2[x] = t[a]
        /\ \A x, z \in 0..(n - 1) : from[x] = from[z] /\ t2[x] # Hash!Empty /\ t2[z] # Hash!Empty => x = z
  <2>1. CASE tbl # Hash!Empty /\ tbl.distance # 0
    <3> DEFINE from == [a \in 0..(n - 1) |-> IF a = b THEN nx ELSE a]
    <3>1. t2 = [t1 EXCEPT ![b] = tbl, ![nx] = Hash!Empty]
      BY <1>4, <2>1
    <3>2. nx # b /\ tbl = t[nx]
      BY <1>1, <1>2, <2>1
    <3>3. t2 \in Tables(n)
      BY <1>1, <1>2, <3>1 DEF Tables, Entries
    <3>4. \A a \in 0..(n - 1) : t2[a] = IF a = nx THEN Hash!Empty ELSE IF a = b THEN t[nx] ELSE t[a]
      BY <1>1, <1>2, <3>1, <3>2 DEF Tables
    <3>5. from \in [0..(n - 1) -> 0..(n - 1)]
      BY <1>2
    <3>6. \A a \in 0..(n - 1) : t2[a] = Hash!Empty \/ (from[a] # b /\ t2[a] = t[from[a]])
      BY <3>2, <3>4
    <3>7. \A a \in 0..(n - 1) : a # b /\ t[a] # Hash!Empty =>
             \E x \in 0..(n - 1) : from[x] = a /\ t2[x] = t[a]
      <4>1. SUFFICES ASSUME NEW a \in 0..(n - 1), a # b
                     PROVE  \E x \in 0..(n - 1) : from[x] = a /\ t2[x] = t[a]
        OBVIOUS
      <4>2. CASE a = nx
        BY <3>2, <3>4, <4>2
      <4>3. CASE a # nx
        BY <3>4, <4>1, <4>3
      <4>4. QED
        BY <4>2, <4>3
    <3>8. \A x, z \in 0..(n - 1) : from[x] = from[z] /\ t2[x] # Hash!Empty /\ t2[z] # Hash!Empty => x = z
      BY <3>2, <3>4
    <3> HIDE DEF from
    <3>9. QED
      BY <3>3, <3>5, <3>6, <3>7, <3>8
  <2>2. CASE ~ (tbl # Hash!Empty /\ tbl.distance # 0)
    <3> DEFINE from == [a \in 0..(n - 1) |-> a]
    <3>1. t2 = t1
      BY <1>4, <2>2
    <3>2. from \in [0..(n - 1) -> 0..(n - 1)]
      OBVIOUS
    <3>3. /\ \A a \in 0..(n - 1) : t2[a] = Hash!Empty \/ (from[a] # b /\ t2[a] = t[from[a]])
          /\ \A a \in 0..(n - 1) : a # b => from[a] = a /\ t2[a] = t[a]
          /\ \A x, z \in 0..(n - 1) : from[x] = from[z] => x = z
      BY <1>1, <3>1
    <3> HIDE DEF from
    <3>4. QED
      BY <1>1, <3>1, <3>2, <3>3
  <2>3. QED
    BY <2>1, <2>2
<1>7. DOMAIN t2 = 0..(n - 1)
  BY <1>6 DEF Tables
<1>8. Clean(t) => Clean(t2)
  BY <1>1, <1>5, <1>6, <1>7 DEF Clean
<1>9. Once(t2)
  <2>1. SUFFICES ASSUME NEW x \in 0..(n - 1), NEW z \in 0..(n - 1),
                        t2[x].data = t2[z].data, t2[x].data \in HashData
                 PROVE  x = z
    BY <1>7 DEF Once
  <2>2. t2[x] # Hash!Empty /\ t2[z] # Hash!Empty
    BY <1>5, <2>1
  <2>3. t[from[x]].data = t[from[z]].data /\ t[from[x]].data \in HashData
    BY <1>6, <2>1, <2>2
  <2>4. from[x] = from[z]
    BY <1>1, <2>3 DEF Once
  <2>5. QED
    BY <1>6, <2>2, <2>4
<1>10. DataOf(t2) = DataOf(t) \ {t[b].data}
  <2>1. ASSUME NEW d \in HashData, NEW x \in 0..(n - 1), t2[x].data = d
        PROVE  d # t[b].data /\ \E a \in 0..(n - 1) : t[a].data = d
    <3>1. from[x] # b /\ t[from[x]].data = d
      BY <1>5, <1>6, <2>1
    <3>2. d # t[b].data
      BY <1>1, <2>1, <3>1 DEF Once
    <3>3. QED
      BY <3>1, <3>2
  <2>2. ASSUME NEW d \in HashData, d # t[b].data, NEW a \in 0..(n - 1), t[a].data = d
        PROVE  \E x \in 0..(n - 1) : t2[x].data = d
    <3>1. a # b /\ t[a] # Hash!Empty
      BY <1>5, <2>2
    <3>2. QED
      BY <1>6, <2>2, <3>1
  <2>3. DataOf(t2) \subseteq DataOf(t) \ {t[b].data}
    <3>1. SUFFICES ASSUME NEW d \in HashData, NEW x \in 0..(n - 1), t2[x].data = d
                   PROVE  d # t[b].data /\ d \in DataOf(t)
      BY <1>7 DEF DataOf
    <3>2. d # t[b].data /\ \E a \in 0..(n - 1) : t[a].data = d
      BY <2>1, <3>1
    <3>3. QED
      BY <1>1, <3>2 DEF DataOf
  <2>4. DataOf(t) \ {t[b].data} \subseteq DataOf(t2)
    <3>1. SUFFICES ASSUME NEW d \in HashData, d # t[b].data, NEW a \in 0..(n - 1), t[a].data = d
                   PROVE  d \in DataOf(t2)
      BY <1>1 DEF DataOf
    <3>2. QED
      BY <1>7, <2>2, <3>1 DEF DataOf
  <2>5. QED
    BY <2>3, <2>4
<1>11. QED
  BY <1>6, <1>8, <1>9, <1>10 DEF t2, t1

LEMMA HashRemove ==
    ASSUME HashInv, NEW d \in HashData, Hash!Remove(d)
    PROVE  HashInv'
<1>1. PICK n \in Nat \ {0} : Ordered(n)
  BY DEF HashInv
<1> DEFINE b == Hash!Find(d)
<1>2. /\ ~ exited /\ b # -1
      /\ table' = Hash!swapup([table EXCEPT ![b] = Hash!Empty], b)
      /\ used' = used - 1 /\ held' = held \ {table[b].data} /\ removed' = TRUE
      /\ maxdistance' = maxdistance /\ dirty' = dirty /\ exited' = exited
  BY DEF Hash!Remove
<1>3. b \in DOMAIN table /\ table[b].data \in HashData
  BY <1>2, FindHits
<1> HIDE DEF b
<1>4. table \in Tables(n) /\ DOMAIN table = 0..(n - 1)
  BY <1>1 DEF Ordered, Tables
<1>5. Once(table) /\ DataOf(table) = held
  BY <1>2 DEF HashInv
<1>6. LET t2 == Hash!swapup([table EXCEPT ![b] = Hash!Empty], b)
      IN  /\ t2 \in Tables(n) /\ Once(t2)
          /\ DataOf(t2) = DataOf(table) \ {table[b].data}
          /\ Clean(table) => Clean(t2)
  BY <1>3, <1>4, <1>5, SwapupKeeps
<1>7. /\ table' \in Tables(n) /\ Once(table')
      /\ DataOf(table') = held'
      /\ Clean(table) => Clean(table')
  BY <1>2, <1>5, <1>6
<1>8. table[b].data \in held
  BY <1>3, <1>5 DEF DataOf
<1>9. /\ held' \subseteq HashData /\ IsFiniteSet(held') /\ used' = Cardinality(held')
      /\ Cardinality(held) \in Nat /\ Cardinality(held') <= Cardinality(held)
      /\ Cardinality(held') \in Nat
  <2>1. IsFiniteSet(held) /\ used = Cardinality(held) /\ held \subseteq HashData
    BY DEF HashInv
  <2>2. IsFiniteSet(held') /\ Cardinality(held') = Cardinality(held) - 1
    BY ONLY <1>2, <1>8, <2>1, FS_RemoveElement
  <2>3. Cardinality(held) \in Nat /\ Cardinality(held') \in Nat
    BY <2>1, <2>2, FS_CardinalityType
  <2>4. QED
    BY <1>2, <2>1, <2>2, <2>3
<1>10. Ordered(n)'
  <2>1. ~ dirty => Cardinality(held') < n
    BY <1>1, <1>9 DEF Ordered
  <2>2. QED
    BY <1>2, <1>7, <2>1 DEF Ordered
<1>11. QED
  BY <1>2, <1>7, <1>9, <1>10 DEF HashInv

LEMMA HashSame == ASSUME HashInv, UNCHANGED hash PROVE HashInv'
BY DEF HashInv, Ordered, hash, Tables, Home, AtHome, Once, Clean, DataOf

LEMMA HashStep == HashInv /\ [Hash!Next]_hash => HashInv'
<1> SUFFICES ASSUME HashInv, [Hash!Next]_hash PROVE HashInv'
  OBVIOUS
<1>1. ASSUME NEW d \in HashData, Hash!Add(d) PROVE HashInv'
  BY <1>1, HashAdd
<1>2. ASSUME NEW d \in HashData, Hash!AddUnique(d) PROVE HashInv'
  BY <1>2, HashAdd DEF Hash!AddUnique
<1>3. ASSUME NEW d \in HashData, Hash!Remove(d) PROVE HashInv'
  BY <1>3, HashRemove
<1>4. CASE Hash!Ended
  <2>1. UNCHANGED hash
    BY <1>4 DEF Hash!Ended, Hash!vars, hash
  <2>2. QED
    BY <2>1, HashSame
<1>5. CASE UNCHANGED hash
  BY <1>5, HashSame
<1>6. QED
  BY <1>1, <1>2, <1>3, <1>4, <1>5 DEF Hash!Next

(* The invariant gives what the run checks.                                *)
LEMMA HashInvGives == HashInv => HashCorrect
<1> SUFFICES ASSUME HashInv PROVE HashCorrect
  OBVIOUS
<1>1. PICK n \in Nat \ {0} : Ordered(n)
  BY DEF HashInv
<1>2. table \in Tables(n) /\ DOMAIN table = 0..(n - 1) /\ IsFiniteSet(DOMAIN table)
  BY <1>1, SlotCount DEF Ordered, Tables
<1>3. used \in Nat
  <2>1. IsFiniteSet(held) /\ used = Cardinality(held)
    BY DEF HashInv
  <2>2. QED
    BY <2>1, FS_CardinalityType
<1>4. Hash!TypeOK
  <2>1. \A s \in DOMAIN table : table[s] = Hash!Empty \/ table[s].data \in HashData \union {Junk}
    <3>1. SUFFICES ASSUME NEW s \in 0..(n - 1), table[s] # Hash!Empty
                   PROVE  table[s].data \in HashData \union {Junk}
      BY <1>2
    <3>2. table[s] \in Entries
      BY <1>2 DEF Tables
    <3>3. QED
      BY <3>1, <3>2, EntryKinds DEF Junky
  <2>2. QED
    BY <1>3, <2>1 DEF Hash!TypeOK, HashInv
<1>5. Hash!HeldOnce
  <2>1. SUFFICES ASSUME ~ exited
                 PROVE  /\ \A d \in HashData : Cardinality({s \in DOMAIN table : table[s].data = d})
                                               = IF d \in held THEN 1 ELSE 0
                        /\ ~ dirty => used = Cardinality(Hash!Occupied)
    BY SameCardinality DEF Hash!HeldOnce
  <2>2. Once(table) /\ DataOf(table) = held
    BY <2>1 DEF HashInv
  <2>3. ASSUME NEW d \in HashData
        PROVE  Cardinality({s \in DOMAIN table : table[s].data = d})
               = IF d \in held THEN 1 ELSE 0
    <3> DEFINE where == {s \in DOMAIN table : table[s].data = d}
    <3>1. CASE d \in held
      <4>1. PICK a \in DOMAIN table : table[a].data = d
        BY <2>2, <3>1 DEF DataOf
      <4>2. where = {a}
        BY <2>2, <4>1 DEF Once
      <4> HIDE DEF where
      <4>3. Cardinality(where) = 1
        BY <4>2, FS_Singleton
      <4>4. QED
        BY <3>1, <4>3 DEF where
    <3>2. CASE d \notin held
      <4>1. where = {}
        BY <2>2, <3>2 DEF DataOf
      <4> HIDE DEF where
      <4>2. Cardinality(where) = 0
        BY <4>1, FS_EmptySet
      <4>3. QED
        BY <3>2, <4>2 DEF where
    <3>3. QED
      BY <3>1, <3>2
  <2>4. ASSUME ~ dirty PROVE used = Cardinality(Hash!Occupied)
    <3> DEFINE O == Hash!Occupied
               f == [s \in O |-> table[s].data]
    <3>1. O \subseteq DOMAIN table /\ \A s \in DOMAIN table : s \in O <=> table[s] # Hash!Empty
      BY DEF Hash!Occupied
    <3>2. IsFiniteSet(O)
      BY <1>2, <3>1, FS_Subset
    <3>3. \A s \in DOMAIN table : table[s] # Hash!Empty <=> table[s].data \in HashData
      <4>1. SUFFICES ASSUME NEW s \in 0..(n - 1)
                     PROVE  table[s] # Hash!Empty <=> table[s].data \in HashData
        BY <1>2
      <4>2. table[s] \in Entries /\ table[s].data # Junk
        BY <1>2, <2>4 DEF HashInv, Clean, Tables
      <4>3. QED
        BY <4>2, EntryKinds DEF Junky
    <3> HIDE DEF O
    <3>4. f \in [O -> held]
      BY <2>2, <3>1, <3>3 DEF DataOf
    <3>5. \A x, z \in O : f[x] = f[z] => x = z
      BY <2>2, <3>1, <3>3 DEF Once
    <3>6. \A d \in held : \E s \in O : f[s] = d
      BY <2>2, <3>1, <3>3 DEF DataOf
    <3> HIDE DEF f
    <3>7. f \in Bijection(O, held)
      BY <3>4, <3>5, <3>6 DEF Bijection, Injection, Surjection, IsInjective
    <3>8. Cardinality(held) = Cardinality(O)
      BY <3>2, <3>7, FS_Bijection DEF ExistsBijection
    <3>9. QED
      BY <3>8 DEF HashInv, O
  <2>5. QED
    BY <2>3, <2>4
<1>6. Hash!NeverFull
  BY DEF Hash!NeverFull, HashInv
<1>7. Hash!FoundUntilRemoved
  BY FindHeld DEF Hash!FoundUntilRemoved
<1>8. QED
  BY <1>4, <1>5, <1>6, <1>7 DEF HashCorrect

LEMMA HashAlone ==
    /\ ContainersInit => Hash!Init
    /\ [ContainersNext]_all => [Hash!Next]_hash
BY DEF ContainersInit, ContainersNext, all, hash

(* Every element that was added and not removed is in one slot and the     *)
(* count is right, a table of clean memory never runs full, and every key  *)
(* is found until one is removed (rbhash.c:60-137, 154-169, 190-220).      *)
THEOREM HashHolds == ContainersSpec => []HashCorrect
BY HashAlone, HashInit, HashStep, HashInvGives, PTL DEF ContainersSpec

-----------------------------------------------------------------------------
(* Sequences with an element put in or taken out.                          *)
PutIn(s, i, e, u) ==
    /\ Len(u) = Len(s) + 1
    /\ \A k \in 1..(i - 1) : u[k] = s[k]
    /\ u[i] = e
    /\ \A k \in (i + 1)..(Len(s) + 1) : u[k] = s[k - 1]
TakenOut(s, i, u) ==
    /\ Len(u) = Len(s) - 1
    /\ \A k \in 1..(i - 1) : u[k] = s[k]
    /\ \A k \in i..(Len(s) - 1) : u[k] = s[k + 1]

LEMMA Inserting ==
    ASSUME NEW S, NEW s \in Seq(S), NEW e \in S, NEW i \in 1..(Len(s) + 1)
    PROVE  List!InsertAt(s, i, e) \in Seq(S) /\ PutIn(s, i, e, List!InsertAt(s, i, e))
<1> DEFINE d == <<e>>
           a == SubSeq(s, 1, i - 1)
           b == SubSeq(s, i, Len(s))
           ad == a \o d
           u == ad \o b
<1>1. Len(s) \in Nat /\ i \in Int
  BY LenProperties
<1>2. a \in Seq(S) /\ Len(a) = i - 1 /\ \A k \in 1..(i - 1) : a[k] = s[k]
  <2>1. i - 1 \in 0..Len(s)
    BY <1>1
  <2>2. QED
    BY <1>1, <2>1, SubSeqProperties
<1>3. b \in Seq(S) /\ Len(b) = Len(s) - i + 1 /\ \A k \in 1..(Len(s) - i + 1) : b[k] = s[i + k - 1]
  BY <1>1, SubSeqProperties
<1>4. d \in Seq(S)
  BY ONLY e \in S DEF d
<1>5. Len(d) = 1 /\ d[1] = e
  BY ONLY TRUE DEF d
<1> HIDE DEF a, b, d
<1>6. ad \in Seq(S) /\ Len(ad) = i /\ \A k \in 1..i : ad[k] = IF k <= i - 1 THEN a[k] ELSE d[k - (i - 1)]
  <2>1. ad \in Seq(S) /\ Len(ad) = Len(a) + Len(d)
        /\ \A k \in 1..(Len(a) + Len(d)) : ad[k] = IF k <= Len(a) THEN a[k] ELSE d[k - Len(a)]
    BY <1>2, <1>4, ConcatProperties
  <2>2. Len(a) = i - 1 /\ Len(a) + Len(d) = i
    BY <1>1, <1>2, <1>5
  <2> HIDE DEF ad
  <2>3. QED
    BY <2>1, <2>2
<1> HIDE DEF ad
<1>7. u \in Seq(S) /\ Len(u) = Len(s) + 1
      /\ \A k \in 1..(Len(s) + 1) : u[k] = IF k <= i THEN ad[k] ELSE b[k - i]
  <2>1. u \in Seq(S) /\ Len(u) = Len(ad) + Len(b)
        /\ \A k \in 1..(Len(ad) + Len(b)) : u[k] = IF k <= Len(ad) THEN ad[k] ELSE b[k - Len(ad)]
    BY <1>3, <1>6, ConcatProperties
  <2>2. Len(ad) = i /\ Len(ad) + Len(b) = Len(s) + 1
    BY <1>1, <1>3, <1>6
  <2> HIDE DEF u
  <2>3. QED
    BY <2>1, <2>2
<1>8. List!InsertAt(s, i, e) = u
  BY DEF List!InsertAt, ad, a, b, d
<1> HIDE DEF u
<1>9. \A k \in 1..(i - 1) : u[k] = s[k]
  BY <1>1, <1>2, <1>6, <1>7
<1>10. u[i] = e
  BY <1>1, <1>5, <1>6, <1>7
<1>11. ASSUME NEW k \in (i + 1)..(Len(s) + 1) PROVE u[k] = s[k - 1]
  <2>1. k \in 1..(Len(s) + 1) /\ ~ (k <= i) /\ k - i \in 1..(Len(s) - i + 1) /\ i + (k - i) - 1 = k - 1
    BY <1>1
  <2>2. QED
    BY <1>3, <1>7, <2>1
<1>12. QED
  BY <1>7, <1>8, <1>9, <1>10, <1>11 DEF PutIn

LEMMA Appending ==
    ASSUME NEW S, NEW s \in Seq(S), NEW e \in S
    PROVE  Append(s, e) \in Seq(S) /\ PutIn(s, Len(s) + 1, e, Append(s, e))
BY AppendProperties, LenProperties DEF PutIn

LEMMA Heading ==
    ASSUME NEW S, NEW s \in Seq(S), NEW e \in S
    PROVE  <<e>> \o s \in Seq(S) /\ PutIn(s, 1, e, <<e>> \o s)
<1> DEFINE u == <<e>> \o s
<1>1. /\ u \in Seq(S) /\ Len(u) = Len(s) + 1 /\ u[1] = e
      /\ \A i \in 2..(Len(s) + 1) : u[i] = s[i - 1]
  BY Pushing
<1> HIDE DEF u
<1>2. QED
  BY <1>1, LenProperties DEF PutIn, u

LEMMA Removing ==
    ASSUME NEW S, NEW s \in Seq(S), NEW i \in 1..Len(s)
    PROVE  List!RemoveAt(s, i) \in Seq(S) /\ TakenOut(s, i, List!RemoveAt(s, i))
<1> DEFINE a == SubSeq(s, 1, i - 1)
           b == SubSeq(s, i + 1, Len(s))
           u == a \o b
<1>1. Len(s) \in Nat /\ i \in Int
  BY LenProperties
<1>2. a \in Seq(S) /\ Len(a) = i - 1 /\ \A k \in 1..(i - 1) : a[k] = s[k]
  <2>1. i - 1 \in 0..Len(s)
    BY <1>1, OneBefore
  <2>2. QED
    BY <1>1, <2>1, SubSeqProperties
<1>3. b \in Seq(S) /\ Len(b) = Len(s) - i /\ \A k \in 1..(Len(s) - i) : b[k] = s[i + k]
  <2> DEFINE j == i + 1
  <2>1. j \in Int /\ Len(s) \in Int /\ \A k \in j..Len(s) : s[k] \in S
    BY <1>1
  <2>2. Len(s) - j + 1 = Len(s) - i /\ (IF j <= Len(s) THEN Len(s) - j + 1 ELSE 0) = Len(s) - i
        /\ \A k \in 1..(Len(s) - i) : j + k - 1 = i + k
    BY <1>1
  <2> HIDE DEF j
  <2>3. LET c == SubSeq(s, j, Len(s))
        IN  c \in Seq(S) /\ Len(c) = Len(s) - i /\ \A k \in 1..(Len(s) - j + 1) : c[k] = s[j + k - 1]
    BY <2>1, <2>2, SubSeqProperties
  <2>4. QED
    BY <2>2, <2>3 DEF b, j
<1> HIDE DEF a, b
<1>4. u \in Seq(S) /\ Len(u) = Len(s) - 1
      /\ \A k \in 1..(Len(s) - 1) : u[k] = IF k <= i - 1 THEN a[k] ELSE b[k - (i - 1)]
  <2>1. u \in Seq(S) /\ Len(u) = Len(a) + Len(b)
        /\ \A k \in 1..(Len(a) + Len(b)) : u[k] = IF k <= Len(a) THEN a[k] ELSE b[k - Len(a)]
    BY <1>2, <1>3, ConcatProperties
  <2>2. Len(a) = i - 1 /\ Len(a) + Len(b) = Len(s) - 1
    BY <1>1, <1>2, <1>3
  <2> HIDE DEF u
  <2>3. QED
    BY <2>1, <2>2
<1>5. List!RemoveAt(s, i) = u
  BY DEF List!RemoveAt, a, b
<1> HIDE DEF u
<1>6. \A k \in 1..(i - 1) : u[k] = s[k]
  BY <1>1, <1>2, <1>4
<1>7. ASSUME NEW k \in i..(Len(s) - 1) PROVE u[k] = s[k + 1]
  <2>1. k \in 1..(Len(s) - 1) /\ ~ (k <= i - 1) /\ k - (i - 1) \in 1..(Len(s) - i) /\ i + (k - (i - 1)) = k + 1
    BY <1>1
  <2>2. QED
    BY <1>3, <1>4, <2>1
<1>8. QED
  BY <1>4, <1>5, <1>6, <1>7 DEF TakenOut

-----------------------------------------------------------------------------
(* The simple list.  From head h on the links nx lead through l and no     *)
(* further, and a node outside of it points nowhere.                       *)
Points(h, nx, p) == IF p = NULL THEN h ELSE nx[p]
Spot(l, i) == IF i = 0 THEN NULL ELSE l[i]
Chain(h, nx, l) ==
    /\ h \in Nodes \union {NULL} /\ nx \in [Nodes -> Nodes \union {NULL}]
    /\ l \in Seq(Nodes) /\ \A i, j \in 1..Len(l) : l[i] = l[j] => i = j
    /\ \A i \in 0..Len(l) : Points(h, nx, Spot(l, i)) = IF i < Len(l) THEN l[i + 1] ELSE NULL
    /\ \A n \in Nodes : (\A i \in 1..Len(l) : l[i] # n) => nx[n] = NULL

Linked(h, nx, p, n, x, f, h2, nx2) ==
    /\ h2 = IF p = NULL THEN n ELSE h
    /\ nx2 = [y \in Nodes |-> IF y = x THEN f ELSE IF y = p THEN n ELSE nx[y]]

LEMMA ChainPut ==
    ASSUME NEW h, NEW nx, NEW l, Chain(h, nx, l), NEW n \in Nodes, \A i \in 1..Len(l) : l[i] # n,
           NEW m \in 0..Len(l), NEW l2 \in Seq(Nodes), PutIn(l, m + 1, n, l2),
           NEW h2, NEW nx2,
           Linked(h, nx, Spot(l, m), n, n, Points(h, nx, Spot(l, m)), h2, nx2)
    PROVE  Chain(h2, nx2, l2)
<1> DEFINE N == Len(l)
           p == Spot(l, m)
<1>1. N \in Nat /\ m \in Int /\ Len(l2) = N + 1 /\ l2[m + 1] = n
      /\ (\A k \in 1..m : l2[k] = l[k]) /\ \A k \in (m + 2)..(N + 1) : l2[k] = l[k - 1]
  <2>1. N \in Nat
    BY LenProperties DEF Chain
  <2>2. m \in Int /\ (m + 1) - 1 = m /\ (m + 1) + 1 = m + 2
    OBVIOUS
  <2>3. QED
    BY <2>1, <2>2 DEF PutIn
<1>2. NULL \notin Nodes /\ (\A i \in 1..N : l[i] \in Nodes) /\ \A i \in 1..(N + 1) : l2[i] \in Nodes
  BY <1>1, ListsAssumption, ElementOfSeq DEF Chain
<1>3. p = NULL <=> m = 0
  BY <1>1, <1>2 DEF Spot
<1>4. Points(h, nx, p) \in Nodes \union {NULL} /\ Points(h, nx, p) = IF m < N THEN l[m + 1] ELSE NULL
  BY <1>1, <1>2 DEF Chain
<1>5. /\ h2 \in Nodes \union {NULL} /\ nx2 \in [Nodes -> Nodes \union {NULL}]
      /\ nx2[n] = Points(h, nx, p)
      /\ h2 = IF m = 0 THEN n ELSE h
      /\ \A y \in Nodes : y # n => nx2[y] = IF y = p THEN n ELSE nx[y]
  BY <1>3, <1>4 DEF Linked, Chain
<1>6. \A i, j \in 1..(N + 1) : l2[i] = l2[j] => i = j
  <2>1. SUFFICES ASSUME NEW i \in 1..(N + 1), NEW j \in 1..(N + 1), l2[i] = l2[j] PROVE i = j
    OBVIOUS
  <2>2. \A k \in 1..(N + 1) : \/ k \in 1..m
                              \/ k = m + 1
                              \/ k \in (m + 2)..(N + 1) /\ k - 1 \in 1..N /\ ~ (k - 1 \in 1..m)
    BY <1>1
  <2>3. \A k \in 1..m : k \in 1..N
    BY <1>1
  <2>4. \A x, y \in 1..N : l[x] = l[y] => x = y
    BY DEF Chain
  <2>5. \A k \in 1..N : l[k] # n
    OBVIOUS
  <2> HIDE DEF N
  <2>6. \A k \in 1..(N + 1) : l2[k] = n => k = m + 1
    BY <1>1, <2>2, <2>3, <2>5
  <2>7. CASE l2[i] = n
    BY <2>1, <2>6, <2>7
  <2>8. CASE l2[i] # n
    <3> DEFINE Old(k) == IF k \in 1..m THEN k ELSE k - 1
    <3>1. \A k \in 1..(N + 1) : l2[k] # n => Old(k) \in 1..N /\ l2[k] = l[Old(k)]
      BY <1>1, <2>2, <2>3
    <3>2. \A k, x \in 1..(N + 1) : k # m + 1 /\ x # m + 1 /\ Old(k) = Old(x) => k = x
      BY <1>1
    <3>3. i # m + 1 /\ j # m + 1
      BY <1>1, <2>1, <2>8
    <3> HIDE DEF Old
    <3>4. Old(i) = Old(j)
      BY <2>1, <2>4, <2>8, <3>1
    <3>5. QED
      BY <2>1, <3>2, <3>3, <3>4
  <2>9. QED
    BY <2>7, <2>8
<1>7. ASSUME NEW i \in 0..(N + 1)
      PROVE  Points(h2, nx2, Spot(l2, i)) = IF i < N + 1 THEN l2[i + 1] ELSE NULL
  <2>1. CASE i < m
    <3>1. Spot(l2, i) = Spot(l, i) /\ Spot(l, i) # p /\ l2[i + 1] = l[i + 1] /\ i \in 0..N /\ i < N
      <4>1. i \in 0..N /\ i < N /\ i + 1 \in 1..m /\ (i # 0 => i \in 1..m)
        BY <1>1, <2>1
      <4>2. m \in 1..N /\ (i # 0 => i \in 1..N)
        BY <1>1, <2>1
      <4>3. Spot(l2, i) = Spot(l, i) /\ l2[i + 1] = l[i + 1]
        BY <1>1, <4>1 DEF Spot
      <4>4. Spot(l, i) # p
        BY <1>2, <2>1, <4>1, <4>2 DEF Spot, Chain
      <4>5. QED
        BY <4>1, <4>3, <4>4
    <3>2. Points(h2, nx2, Spot(l, i)) = Points(h, nx, Spot(l, i))
      <4>1. CASE i = 0
        BY <1>5, <2>1, <4>1 DEF Points, Spot
      <4>2. CASE i # 0
        <5>1. i \in 1..N
          BY <3>1, <4>2
        <5>2. l[i] \in Nodes /\ l[i] # n /\ l[i] # NULL /\ l[i] # p
          BY <1>2, <3>1, <4>2, <5>1 DEF Spot
        <5>3. QED
          BY <1>5, <4>2, <5>2 DEF Points, Spot
      <4>3. QED
        BY <4>1, <4>2
    <3>3. QED
      BY <1>1, <3>1, <3>2 DEF Chain
  <2>2. CASE i = m
    <3>1. Spot(l2, i) = p
      <4>1. i # 0 => i \in 1..m
        BY <1>1, <2>2
      <4>2. QED
        BY <1>1, <2>2, <4>1 DEF Spot
    <3>2. Points(h2, nx2, p) = n
      <4>1. CASE m = 0
        BY <1>3, <1>5, <4>1 DEF Points
      <4>2. CASE m # 0
        <5>1. m \in 1..N
          BY <1>1, <4>2
        <5>2. p \in Nodes /\ p # n /\ p # NULL
          BY <1>2, <4>2, <5>1 DEF Spot
        <5>3. QED
          BY <1>5, <5>2 DEF Points
      <4>3. QED
        BY <4>1, <4>2
    <3>3. QED
      BY <1>1, <2>2, <3>1, <3>2
  <2>3. CASE i = m + 1
    <3>1. Spot(l2, i) = n /\ n # NULL
      BY <1>1, <1>2, <2>3 DEF Spot
    <3>2. Points(h2, nx2, n) = IF m < N THEN l[m + 1] ELSE NULL
      BY <1>2, <1>4, <1>5 DEF Points
    <3>3. m < N => l2[i + 1] = l[m + 1]
      <4>1. m < N => i + 1 \in (m + 2)..(N + 1) /\ (i + 1) - 1 = m + 1
        BY <1>1, <2>3
      <4>2. QED
        BY <1>1, <4>1
    <3>4. i < N + 1 <=> m < N
      BY <1>1, <2>3
    <3>5. QED
      BY <3>1, <3>2, <3>3, <3>4
  <2>4. CASE i > m + 1
    <3>1. i \in (m + 2)..(N + 1) /\ i - 1 \in 1..N /\ i - 1 \in 0..N /\ i - 1 # m /\ i # 0
      BY <1>1, <2>4
    <3>2. Spot(l2, i) = l[i - 1] /\ Spot(l, i - 1) = l[i - 1] /\ l[i - 1] \in Nodes
      BY <1>1, <1>2, <3>1 DEF Spot
    <3>3. l[i - 1] # n /\ l[i - 1] # NULL /\ l[i - 1] # p
      <4>1. m # 0 => m \in 1..N
        BY <1>1
      <4>2. m # 0 => l[m] # l[i - 1]
        BY <3>1, <4>1 DEF Chain
      <4>3. QED
        BY <1>2, <3>1, <3>2, <4>2 DEF Spot
    <3>4. Points(h2, nx2, Spot(l2, i)) = Points(h, nx, Spot(l, i - 1))
      BY <1>5, <3>2, <3>3 DEF Points
    <3>5. Points(h, nx, Spot(l, i - 1)) = IF i - 1 < N THEN l[(i - 1) + 1] ELSE NULL
      BY <3>1 DEF Chain
    <3>6. (i - 1 < N <=> i < N + 1) /\ (i - 1) + 1 = i
      BY <1>1
    <3>7. i < N + 1 => l2[i + 1] = l[i]
      <4>1. i < N + 1 => i + 1 \in (m + 2)..(N + 1) /\ (i + 1) - 1 = i
        BY <1>1, <3>1
      <4>2. QED
        BY <1>1, <4>1
    <3>8. QED
      BY <3>4, <3>5, <3>6, <3>7
  <2>5. QED
    BY <1>1, <2>1, <2>2, <2>3, <2>4
<1>8. ASSUME NEW y \in Nodes, \A i \in 1..(N + 1) : l2[i] # y PROVE nx2[y] = NULL
  <2>1. y # n
    <3>1. m + 1 \in 1..(N + 1)
      BY <1>1
    <3>2. QED
      BY <1>1, <1>8, <3>1
  <2>2. ASSUME NEW i \in 1..N PROVE l[i] # y
    <3>1. CASE i \in 1..m
      <4>1. i \in 1..(N + 1)
        BY <1>1
      <4>2. QED
        BY <1>1, <1>8, <3>1, <4>1
    <3>2. CASE i \notin 1..m
      <4>1. i + 1 \in (m + 2)..(N + 1) /\ (i + 1) - 1 = i /\ i + 1 \in 1..(N + 1)
        BY <1>1, <3>2
      <4>2. QED
        BY <1>1, <1>8, <4>1
    <3>3. QED
      BY <3>1, <3>2
  <2>3. y # p
    <3>1. m # 0 => m \in 1..N
      BY <1>1
    <3>2. QED
      BY <1>2, <2>2, <3>1 DEF Spot
  <2>4. nx[y] = NULL
    BY <2>2 DEF Chain
  <2>5. QED
    BY <1>5, <2>1, <2>3, <2>4
<1>9. QED
  BY <1>1, <1>5, <1>6, <1>7, <1>8 DEF Chain

LEMMA ChainTake ==
    ASSUME NEW h, NEW nx, NEW l, Chain(h, nx, l), NEW m \in 0..(Len(l) - 1),
           NEW l2 \in Seq(Nodes), TakenOut(l, m + 1, l2), NEW h2, NEW nx2,
           Linked(h, nx, Spot(l, m), nx[l[m + 1]], l[m + 1], NULL, h2, nx2)
    PROVE  Chain(h2, nx2, l2)
<1> DEFINE N == Len(l)
           p == Spot(l, m)
           n == l[m + 1]
<1>1. N \in Nat /\ m \in Int /\ m + 1 \in 1..N /\ Len(l2) = N - 1
      /\ (\A k \in 1..m : l2[k] = l[k]) /\ \A k \in (m + 1)..(N - 1) : l2[k] = l[k + 1]
  <2>1. N \in Nat
    BY LenProperties DEF Chain
  <2>2. m \in Int /\ (m + 1) - 1 = m /\ m + 1 \in 1..N
    BY <2>1
  <2>3. QED
    BY <2>1, <2>2 DEF TakenOut
<1>2. NULL \notin Nodes /\ \A i \in 1..N : l[i] \in Nodes
  BY <1>1, ListsAssumption, ElementOfSeq DEF Chain
<1>3. (p = NULL <=> m = 0) /\ n \in Nodes /\ n # p /\ (m # 0 => p = l[m] /\ p \in Nodes)
  <2>1. m # 0 => m \in 1..N /\ m # m + 1
    BY <1>1
  <2>2. m # 0 => l[m] # l[m + 1]
    BY <1>1, <2>1 DEF Chain
  <2>3. QED
    BY <1>1, <1>2, <2>1, <2>2 DEF Spot
<1>4. nx[n] = (IF m + 1 < N THEN l[m + 2] ELSE NULL) /\ nx[n] \in Nodes \union {NULL}
  <2>1. m + 1 \in 0..N /\ m + 1 # 0 /\ (m + 1) + 1 = m + 2 /\ Spot(l, m + 1) = n /\ n # NULL
    BY <1>1, <1>2, <1>3 DEF Spot
  <2>2. Points(h, nx, Spot(l, m + 1)) = IF m + 1 < N THEN l[(m + 1) + 1] ELSE NULL
    BY <2>1 DEF Chain
  <2>3. QED
    BY <1>3, <2>1, <2>2 DEF Points, Chain
<1>5. /\ h2 \in Nodes \union {NULL} /\ nx2 \in [Nodes -> Nodes \union {NULL}]
      /\ nx2[n] = NULL
      /\ h2 = IF m = 0 THEN nx[n] ELSE h
      /\ \A y \in Nodes : y # n => nx2[y] = IF y = p THEN nx[n] ELSE nx[y]
  BY <1>3, <1>4 DEF Linked, Chain
<1> DEFINE Old(k) == IF k \in 1..m THEN k ELSE k + 1
<1>6. \A k \in 1..(N - 1) : Old(k) \in 1..N /\ Old(k) # m + 1 /\ l2[k] = l[Old(k)]
  BY <1>1
<1>7. \A k \in 1..N : k # m + 1 => \E i \in 1..(N - 1) : Old(i) = k
  <2>1. SUFFICES ASSUME NEW k \in 1..N, k # m + 1 PROVE \E i \in 1..(N - 1) : Old(i) = k
    OBVIOUS
  <2> DEFINE i == IF k \in 1..m THEN k ELSE k - 1
  <2>2. i \in 1..(N - 1) /\ Old(i) = k
    BY <1>1, <2>1
  <2>3. QED
    BY <2>2
<1>8. \A i, j \in 1..(N - 1) : l2[i] = l2[j] => i = j
  <2>1. \A k, x \in 1..(N - 1) : Old(k) = Old(x) => k = x
    BY <1>1
  <2>2. \A x, y \in 1..N : l[x] = l[y] => x = y
    BY DEF Chain
  <2> HIDE DEF Old
  <2>3. QED
    BY <1>6, <2>1, <2>2
<1>9. \A k \in 1..N : l[k] = n => k = m + 1
  BY <1>1 DEF Chain
<1>10. ASSUME NEW i \in 0..(N - 1)
       PROVE  Points(h2, nx2, Spot(l2, i)) = IF i < N - 1 THEN l2[i + 1] ELSE NULL
  <2>1. CASE i < m
    <3>1. Spot(l2, i) = Spot(l, i) /\ l2[i + 1] = l[i + 1] /\ i \in 0..N /\ i < N /\ i < N - 1
      <4>1. i \in 0..N /\ i < N /\ i < N - 1 /\ i + 1 \in 1..m /\ (i # 0 => i \in 1..m)
        BY <1>1, <2>1
      <4>2. QED
        BY <1>1, <4>1 DEF Spot
    <3>2. Points(h2, nx2, Spot(l, i)) = Points(h, nx, Spot(l, i))
      <4>1. CASE i = 0
        BY <1>5, <2>1, <4>1 DEF Points, Spot
      <4>2. CASE i # 0
        <5>1. i \in 1..N /\ i # m + 1 /\ m # 0 /\ m \in 1..N /\ i # m
          BY <1>1, <2>1, <3>1, <4>2
        <5>2. l[i] \in Nodes /\ l[i] # NULL /\ l[i] # n /\ l[i] # p
          BY <1>2, <1>3, <1>9, <5>1 DEF Chain
        <5>3. QED
          BY <1>5, <4>2, <5>2 DEF Points, Spot
      <4>3. QED
        BY <4>1, <4>2
    <3>3. QED
      BY <3>1, <3>2 DEF Chain
  <2>2. CASE i = m
    <3>1. Spot(l2, i) = p
      <4>1. i # 0 => i \in 1..m
        BY <1>1, <2>2
      <4>2. QED
        BY <1>1, <2>2, <4>1 DEF Spot
    <3>2. Points(h2, nx2, p) = nx[n]
      BY <1>3, <1>5 DEF Points
    <3>3. i < N - 1 => l2[i + 1] = l[m + 2]
      <4>1. i < N - 1 => i + 1 \in (m + 1)..(N - 1) /\ (i + 1) + 1 = m + 2
        BY <1>1, <2>2
      <4>2. QED
        BY <1>1, <4>1
    <3>4. m + 1 < N <=> i < N - 1
      BY <1>1, <2>2
    <3>5. QED
      BY <1>4, <3>1, <3>2, <3>3, <3>4
  <2>3. CASE i > m
    <3>1. i \in (m + 1)..(N - 1) /\ i + 1 \in 1..N /\ i + 1 \in 0..N /\ i + 1 # 0 /\ i # 0 /\ i + 1 # m + 1
          /\ (i + 1 < N <=> i < N - 1) /\ (m # 0 => m \in 1..N /\ m # i + 1)
      BY <1>1, <2>3
    <3>2. Spot(l2, i) = l[i + 1] /\ Spot(l, i + 1) = l[i + 1]
      BY <1>1, <3>1 DEF Spot
    <3>3. l[i + 1] \in Nodes /\ l[i + 1] # NULL /\ l[i + 1] # n /\ l[i + 1] # p
      <4>1. l[i + 1] \in Nodes /\ l[i + 1] # NULL /\ l[i + 1] # n
        BY <1>2, <1>9, <3>1
      <4>2. m # 0 => l[m] # l[i + 1]
        BY <3>1 DEF Chain
      <4>3. QED
        BY <1>3, <4>1, <4>2
    <3>4. Points(h2, nx2, Spot(l2, i)) = Points(h, nx, Spot(l, i + 1))
      BY <1>5, <3>2, <3>3 DEF Points
    <3>5. Points(h, nx, Spot(l, i + 1)) = IF i + 1 < N THEN l[(i + 1) + 1] ELSE NULL
      BY <3>1 DEF Chain
    <3>6. i < N - 1 => l2[i + 1] = l[(i + 1) + 1]
      <4>1. i < N - 1 => i + 1 \in (m + 1)..(N - 1)
        BY <1>1, <3>1
      <4>2. QED
        BY <1>1, <4>1
    <3>7. QED
      BY <3>1, <3>4, <3>5, <3>6
  <2>4. QED
    BY <1>1, <2>1, <2>2, <2>3
<1>11. ASSUME NEW y \in Nodes, \A i \in 1..(N - 1) : l2[i] # y PROVE nx2[y] = NULL
  <2>1. CASE y = n
    BY <1>5, <2>1
  <2>2. CASE y # n
    <3>1. \A k \in 1..N : l[k] # y
      <4>1. SUFFICES ASSUME NEW k \in 1..N, l[k] = y PROVE FALSE
        OBVIOUS
      <4>2. k # m + 1
        BY <2>2, <4>1
      <4>3. PICK i \in 1..(N - 1) : Old(i) = k
        BY <1>7, <4>2
      <4> HIDE DEF Old
      <4>4. QED
        BY <1>6, <1>11, <4>1, <4>3
    <3>2. y # p
      <4>1. m # 0 => m \in 1..N
        BY <1>1
      <4>2. QED
        BY <1>2, <1>3, <3>1, <4>1
    <3>3. nx[y] = NULL
      BY <3>1 DEF Chain
    <3>4. QED
      BY <1>5, <2>2, <3>2, <3>3
  <2>3. QED
    BY <2>1, <2>2
<1>12. QED
  BY <1>1, <1>5, <1>8, <1>10, <1>11 DEF Chain

(* A sequence of different nodes is not longer than there are nodes.       *)
LEMMA Pigeons ==
    ASSUME NEW l \in Seq(Nodes), \A i, j \in 1..Len(l) : l[i] = l[j] => i = j
    PROVE  Len(l) <= Cardinality(Nodes)
<1> DEFINE N == Len(l)
<1>1. N \in Nat /\ DOMAIN l = 1..N /\ \A i \in 1..N : l[i] \in Nodes
  BY LenProperties, ElementOfSeq
<1>2. l \in [1..N -> Nodes]
  BY LenProperties
<1>3. l \in Injection(1..N, Nodes)
  BY <1>1, <1>2 DEF Injection, IsInjective
<1>4. Cardinality(1..N) <= Cardinality(Nodes)
  BY <1>3, ListsAssumption, FS_Injection
<1>5. Cardinality(1..N) = N
  <2>1. Cardinality(1..N) = IF 1 > N THEN 0 ELSE N - 1 + 1
    BY <1>1, FS_Interval
  <2>2. QED
    BY <1>1, <2>1
<1>6. QED
  BY <1>4, <1>5

(* list_simple_add_before, _tail and the others walk to the first place    *)
(* that leads to one of these nodes, or to the last one.                   *)
LEMMA PlaceFound ==
    ASSUME Chain(head, next, list), NEW X, NEW m \in 0..Len(list),
           m = Len(list) \/ list[m + 1] \in X,
           \A i \in 1..m : list[i] \notin X
    PROVE  List!Place(X) = Spot(list, m) /\ List!At(Spot(list, m)) = Points(head, next, Spot(list, m))
<1> DEFINE N == Len(list)
           C == Cardinality(Nodes)
           P == Nodes \union {NULL}
           F == [x \in P \X Nat |-> List!Onward(x[1], X)]
           walk == CHOOSE f : f = [k \in 0..C |-> IF k = 0 THEN NULL ELSE List!Onward(f[k - 1], X)]
<1>1. N \in Nat /\ C \in Nat /\ N <= C /\ \A i \in 1..N : list[i] \in Nodes
  BY Pigeons, LenProperties, ElementOfSeq, ListsAssumption, FS_CardinalityType DEF Chain
<1>2. \A p : List!At(p) = Points(head, next, p)
  BY DEF List!At, Points
<1>3. \A p \in P : List!Onward(p, X) \in P
  <2>1. \A p \in P : List!At(p) \in P
    BY <1>2 DEF Points, Chain
  <2>2. QED
    BY <2>1 DEF List!Onward
<1>4. F \in [P \X Nat -> P]
  <2> HIDE DEF P
  <2>1. \A x \in P \X Nat : x[1] \in P
    OBVIOUS
  <2>2. QED
    BY <1>3, <2>1
<1>5. PICK f \in [0..C -> P] : StepByStep(f, NULL, F, C)
  <2>1. NULL \in P
    OBVIOUS
  <2> HIDE DEF P, F, C
  <2>2. QED
    BY ONLY <1>1, <1>4, <2>1, Repeated
<1>6. f = [k \in 0..C |-> IF k = 0 THEN NULL ELSE List!Onward(f[k - 1], X)]
  <2> HIDE DEF P, C
  <2>1. \A k \in 1..C : <<f[k - 1], k>> \in P \X Nat /\ <<f[k - 1], k>>[1] = f[k - 1]
    BY <1>1
  <2>2. \A k \in 0..C : k # 0 => k \in 1..C
    BY <1>1
  <2>3. QED
    BY <1>5, <2>1, <2>2 DEF StepByStep
<1>7. walk = [k \in 0..C |-> IF k = 0 THEN NULL ELSE List!Onward(walk[k - 1], X)]
  BY <1>6
<1>8. List!Place(X) = walk[C]
  <2>1. List!Cardinality(Nodes) = C
    BY DEF List!Cardinality, Cardinality, List!IsFiniteSet, IsFiniteSet
  <2>2. QED
    BY ONLY <2>1 DEF List!Place, walk
<1> HIDE DEF walk, P, F, C
<1> DEFINE There(k) == Spot(list, IF k < m THEN k ELSE m)
<1>9. \A k \in Nat : List!Onward(There(k), X) = There(k + 1)
  <2>1. SUFFICES ASSUME NEW k \in Nat PROVE List!Onward(There(k), X) = There(k + 1)
    OBVIOUS
  <2>2. CASE k < m
    <3>1. k \in 0..N /\ k < N /\ k + 1 \in 1..m /\ k + 1 \in 1..N /\ k + 1 # 0
      BY <1>1, <2>2
    <3>2. There(k) = Spot(list, k) /\ There(k + 1) = list[k + 1]
      <4>1. IF k + 1 < m THEN TRUE ELSE k + 1 = m
        BY <2>2
      <4>2. QED
        BY <2>2, <3>1, <4>1 DEF Spot
    <3>3. List!At(Spot(list, k)) = list[k + 1] /\ list[k + 1] # NULL
      BY <1>1, <1>2, <3>1, ListsAssumption DEF Chain
    <3>4. list[k + 1] \notin X
      BY <3>1
    <3>5. QED
      BY <3>2, <3>3, <3>4 DEF List!Onward
  <2>3. CASE ~ (k < m)
    <3>1. There(k) = Spot(list, m) /\ There(k + 1) = Spot(list, m)
      <4>1. ~ (k + 1 < m)
        BY <2>3
      <4>2. QED
        BY <2>3, <4>1
    <3>2. m = N \/ m < N
      BY <1>1
    <3>3. List!At(Spot(list, m)) = NULL \/ List!At(Spot(list, m)) \in X
      BY <1>2, <3>2 DEF Chain
    <3>4. QED
      BY <3>1, <3>3 DEF List!Onward
  <2>4. QED
    BY <2>2, <2>3
<1>10. There(0) = NULL
  <2>1. (IF 0 < m THEN 0 ELSE m) = 0
    BY <1>1
  <2>2. QED
    BY <2>1 DEF Spot
<1>11. There(C) = Spot(list, m)
  <2>1. (IF C < m THEN C ELSE m) = m
    BY <1>1
  <2>2. QED
    BY <2>1
<1> HIDE DEF There
<1> DEFINE T == {k \in Nat : k <= C => walk[k] = There(k)}
<1>12. 0 \in T
  BY <1>1, <1>7, <1>10
<1>13. ASSUME NEW k \in T PROVE k + 1 \in T
  <2>1. SUFFICES ASSUME k + 1 <= C PROVE walk[k + 1] = There(k + 1)
    OBVIOUS
  <2>2. k + 1 \in 0..C /\ k + 1 # 0 /\ (k + 1) - 1 = k /\ k <= C /\ k \in Nat
    BY <1>1, <2>1
  <2>3. walk[k + 1] = List!Onward(walk[(k + 1) - 1], X)
    BY <1>7, <2>2
  <2>4. QED
    BY <1>9, <2>2, <2>3
<1>14. T = Nat
  <2>1. T \in SUBSET Nat
    OBVIOUS
  <2> HIDE DEF T
  <2>2. QED
    BY <1>12, <1>13, <2>1, Induction
<1>15. walk[C] = There(C)
  BY <1>1, <1>14
<1>16. QED
  BY <1>2, <1>8, <1>11, <1>15

(* The steps of the simple list keep the chain.                            *)
SimpleInv == Chain(head, next, list)

LEMMA Indexed ==
    ASSUME SimpleInv, NEW n \in Nodes
    PROVE  /\ List!Fresh(n) <=> \A i \in 1..Len(list) : list[i] # n
           /\ ~ List!Fresh(n) => /\ List!IndexOf(n) \in 1..Len(list)
                                 /\ list[List!IndexOf(n)] = n
                                 /\ \A i \in 1..Len(list) : list[i] = n => i = List!IndexOf(n)
<1>1. list \in Seq(Nodes) /\ DOMAIN list = 1..Len(list)
  BY LenProperties DEF SimpleInv, Chain
<1>2. List!Fresh(n) <=> \A i \in 1..Len(list) : list[i] # n
  BY <1>1 DEF List!Fresh, List!Range
<1>3. ASSUME ~ List!Fresh(n)
      PROVE  List!IndexOf(n) \in 1..Len(list) /\ list[List!IndexOf(n)] = n
  <2>1. \E i \in DOMAIN list : list[i] = n
    BY <1>1, <1>2, <1>3
  <2>2. QED
    BY <1>1, <2>1 DEF List!IndexOf
<1>4. QED
  BY <1>2, <1>3 DEF SimpleInv, Chain

LEMMA SimpleStart == List!Init => SimpleInv
<1> SUFFICES ASSUME List!Init PROVE SimpleInv
  OBVIOUS
<1>1. head = NULL /\ next = [n \in Nodes |-> NULL] /\ list = <<>> /\ Len(list) = 0 /\ list \in Seq(Nodes)
  BY DEF List!Init
<1>2. \A i \in 0..0 : Points(head, next, Spot(list, i)) = NULL
  BY <1>1 DEF Points, Spot
<1>3. QED
  BY <1>1, <1>2 DEF SimpleInv, Chain

LEMMA SimpleAddHead ==
    ASSUME SimpleInv, NEW n \in Nodes, List!AddHead(n)
    PROVE  SimpleInv'
<1>1. list \in Seq(Nodes) /\ Len(list) \in Nat /\ Spot(list, 0) = NULL /\ Points(head, next, NULL) = head
  BY LenProperties DEF SimpleInv, Chain, Spot, Points
<1>2. \A i \in 1..Len(list) : list[i] # n
  BY Indexed DEF List!AddHead
<1>3. list' \in Seq(Nodes) /\ PutIn(list, 1, n, list')
  BY <1>1, Heading DEF List!AddHead
<1>4. Linked(head, next, NULL, n, n, head, head', next')
  BY DEF List!AddHead, List!Link, Linked
<1>5. 0 \in 0..Len(list) /\ 0 + 1 = 1
  BY <1>1
<1>6. Chain(head', next', list')
  BY <1>1, <1>2, <1>3, <1>4, <1>5, ChainPut DEF SimpleInv
<1>7. QED
  BY <1>6 DEF SimpleInv

(* A new node is put behind m others.                                      *)
LEMMA SimplePut ==
    ASSUME SimpleInv, NEW n \in Nodes, List!Fresh(n), NEW m \in 0..Len(list), NEW p,
           p = Spot(list, m), List!Link(p, n, n, List!At(p)),
           list' \in Seq(Nodes), PutIn(list, m + 1, n, list')
    PROVE  SimpleInv'
<1>1. \A i \in 1..Len(list) : list[i] # n
  BY Indexed
<1>2. Linked(head, next, p, n, n, Points(head, next, p), head', next')
  BY DEF List!Link, Linked, List!At, Points
<1>3. Chain(head', next', list')
  BY <1>1, <1>2, ChainPut DEF SimpleInv
<1>4. QED
  BY <1>3 DEF SimpleInv

(* The place at the end.                                                   *)
LEMMA PlaceLast ==
    ASSUME SimpleInv
    PROVE  /\ List!Place({}) = Spot(list, Len(list)) /\ List!At(List!Place({})) = NULL
           /\ Len(list) \in 0..Len(list)
<1>1. Len(list) \in Nat /\ list \in Seq(Nodes)
  BY LenProperties DEF SimpleInv, Chain
<1> DEFINE m == Len(list)
           X == {}
<1>2. m \in 0..Len(list) /\ (m = Len(list) \/ list[m + 1] \in X) /\ \A i \in 1..m : list[i] \notin X
  BY <1>1
<1>3. Points(head, next, Spot(list, m)) = NULL
  BY <1>2 DEF SimpleInv, Chain
<1> HIDE DEF m, X
<1>4. List!Place(X) = Spot(list, m) /\ List!At(Spot(list, m)) = Points(head, next, Spot(list, m))
  BY <1>2, PlaceFound DEF SimpleInv
<1>5. QED
  BY <1>2, <1>3, <1>4 DEF m, X

(* The place that leads to a node of the list.                             *)
LEMMA PlaceBefore ==
    ASSUME SimpleInv, NEW b \in Nodes
    PROVE  \E m \in 0..Len(list) :
             /\ List!Place({b}) = Spot(list, m)
             /\ List!At(Spot(list, m)) = Points(head, next, Spot(list, m))
             /\ IF List!Fresh(b) THEN m = Len(list) ELSE m + 1 = List!IndexOf(b)
<1>1. Len(list) \in Nat
  BY LenProperties DEF SimpleInv, Chain
<1> DEFINE m == IF List!Fresh(b) THEN Len(list) ELSE List!IndexOf(b) - 1
           X == {b}
<1>2. m \in 0..Len(list) /\ (IF List!Fresh(b) THEN m = Len(list) ELSE m + 1 = List!IndexOf(b))
      /\ \A i \in 1..m : i \in 1..Len(list) /\ (~ List!Fresh(b) => i # List!IndexOf(b))
  <2>1. CASE List!Fresh(b)
    BY <1>1, <2>1
  <2>2. CASE ~ List!Fresh(b)
    <3>1. List!IndexOf(b) \in 1..Len(list)
      BY <2>2, Indexed
    <3>2. QED
      BY <1>1, <2>2, <3>1
  <2>3. QED
    BY <2>1, <2>2
<1>3. (m = Len(list) \/ list[m + 1] \in X) /\ \A i \in 1..m : list[i] \notin X
  <2> HIDE DEF m
  <2>1. QED
    BY <1>2, Indexed
<1> HIDE DEF m, X
<1>4. List!Place(X) = Spot(list, m) /\ List!At(Spot(list, m)) = Points(head, next, Spot(list, m))
  BY <1>2, <1>3, PlaceFound DEF SimpleInv
<1>5. QED
  BY <1>2, <1>4 DEF X

LEMMA SimpleAddTail ==
    ASSUME SimpleInv, NEW n \in Nodes, List!AddTail(n)
    PROVE  SimpleInv'
<1> DEFINE p == List!Place({})
<1>1. list \in Seq(Nodes) /\ Len(list) \in Nat
  BY LenProperties DEF SimpleInv, Chain
<1>2. p = Spot(list, Len(list)) /\ List!At(p) = NULL /\ Len(list) \in 0..Len(list)
  BY PlaceLast
<1>3. List!Fresh(n) /\ List!Link(p, n, n, next[n]) /\ list' = Append(list, n)
  BY DEF List!AddTail
<1>4. next[n] = NULL
  BY <1>3, Indexed DEF SimpleInv, Chain
<1>5. list' \in Seq(Nodes) /\ PutIn(list, Len(list) + 1, n, list')
  BY <1>1, <1>3, Appending
<1> HIDE DEF p
<1>6. QED
  BY <1>2, <1>3, <1>4, <1>5, SimplePut

LEMMA SimpleAddBefore ==
    ASSUME SimpleInv, NEW b \in Nodes, NEW n \in Nodes, List!AddBefore(b, n)
    PROVE  SimpleInv'
<1> DEFINE p == List!Place({b})
<1>1. list \in Seq(Nodes) /\ Len(list) \in Nat
  BY LenProperties DEF SimpleInv, Chain
<1>2. PICK m \in 0..Len(list) :
        p = Spot(list, m) /\ IF List!Fresh(b) THEN m = Len(list) ELSE m + 1 = List!IndexOf(b)
  BY PlaceBefore
<1>3. List!Fresh(n) /\ List!Link(p, n, n, List!At(p))
      /\ list' = IF List!Fresh(b) THEN Append(list, n) ELSE List!InsertAt(list, List!IndexOf(b), n)
  BY DEF List!AddBefore
<1>4. list' \in Seq(Nodes) /\ PutIn(list, m + 1, n, list')
  <2>1. CASE List!Fresh(b)
    BY <1>1, <1>2, <1>3, <2>1, Appending
  <2>2. CASE ~ List!Fresh(b)
    <3>1. m + 1 \in 1..(Len(list) + 1) /\ m + 1 = List!IndexOf(b)
      BY <1>1, <1>2, <2>2
    <3>2. QED
      BY <1>1, <1>3, <2>2, <3>1, Inserting
  <2>3. QED
    BY <2>1, <2>2
<1> HIDE DEF p
<1>5. QED
  BY <1>2, <1>3, <1>4, SimplePut

LEMMA SimpleAddAfter ==
    ASSUME SimpleInv, NEW a \in Nodes, NEW n \in Nodes, List!AddAfter(a, n)
    PROVE  SimpleInv'
<1> DEFINE last == List!Place({})
           p == IF head = NULL \/ List!Fresh(a) THEN last ELSE a
<1>1. list \in Seq(Nodes) /\ Len(list) \in Nat
  BY LenProperties DEF SimpleInv, Chain
<1>2. last = Spot(list, Len(list)) /\ Len(list) \in 0..Len(list)
  BY PlaceLast
<1>3. List!Fresh(n) /\ List!Link(p, n, n, List!At(p))
      /\ list' = IF List!Fresh(a) THEN Append(list, n) ELSE List!InsertAt(list, List!IndexOf(a) + 1, n)
  BY DEF List!AddAfter
<1>4. CASE List!Fresh(a)
  <2>1. p = Spot(list, Len(list))
    BY <1>2, <1>4
  <2>2. list' \in Seq(Nodes) /\ PutIn(list, Len(list) + 1, n, list')
    BY <1>1, <1>3, <1>4, Appending
  <2> HIDE DEF p
  <2>3. QED
    BY <1>2, <1>3, <2>1, <2>2, SimplePut
<1>5. CASE ~ List!Fresh(a)
  <2> DEFINE m == List!IndexOf(a)
  <2>1. m \in 1..Len(list) /\ list[m] = a
    BY <1>5, Indexed
  <2>2. m \in 0..Len(list) /\ m # 0 /\ m + 1 \in 1..(Len(list) + 1) /\ 0 \in 0..Len(list) /\ 0 < Len(list)
        /\ 1 \in 1..Len(list)
    BY <1>1, <2>1
  <2>3. Spot(list, m) = a
    BY <2>1, <2>2 DEF Spot
  <2>4. head # NULL
    <3>1. Points(head, next, Spot(list, 0)) = list[0 + 1] /\ list[1] \in Nodes
      BY <1>1, <2>2, ElementOfSeq DEF SimpleInv, Chain
    <3>2. QED
      BY <3>1, ListsAssumption DEF Points, Spot
  <2>5. list' \in Seq(Nodes) /\ PutIn(list, m + 1, n, list')
    BY <1>1, <1>3, <1>5, <2>2, Inserting
  <2>6. p = Spot(list, m)
    BY <1>5, <2>3, <2>4
  <2> HIDE DEF p, m
  <2>7. QED
    BY <1>3, <2>2, <2>5, <2>6, SimplePut
<1>6. QED
  BY <1>4, <1>5

LEMMA SimpleExtract ==
    ASSUME SimpleInv, NEW n \in Nodes, List!Extract(n)
    PROVE  SimpleInv'
<1> DEFINE p == List!Place({n})
<1>1. list \in Seq(Nodes) /\ Len(list) \in Nat
  BY LenProperties DEF SimpleInv, Chain
<1>2. PICK m \in 0..Len(list) :
        /\ p = Spot(list, m) /\ List!At(p) = Points(head, next, p)
        /\ IF List!Fresh(n) THEN m = Len(list) ELSE m + 1 = List!IndexOf(n)
  BY PlaceBefore
<1>3. /\ IF List!At(p) = NULL THEN UNCHANGED <<head, next>> ELSE List!Link(p, next[n], n, NULL)
      /\ list' = IF List!Fresh(n) THEN list ELSE List!RemoveAt(list, List!IndexOf(n))
  BY DEF List!Extract
<1> HIDE DEF p
<1>4. Points(head, next, p) = IF m < Len(list) THEN list[m + 1] ELSE NULL
  BY <1>2 DEF SimpleInv, Chain
<1>5. CASE List!Fresh(n)
  <2>1. UNCHANGED <<head, next, list>>
    BY <1>1, <1>2, <1>3, <1>4, <1>5
  <2>2. QED
    BY <2>1 DEF SimpleInv
<1>6. CASE ~ List!Fresh(n)
  <2>1. m + 1 \in 1..Len(list) /\ m + 1 = List!IndexOf(n) /\ list[m + 1] = n
    BY <1>2, <1>6, Indexed
  <2>2. m \in 0..(Len(list) - 1) /\ m < Len(list)
    BY <1>1, <2>1
  <2>3. List!At(p) = n /\ n # NULL
    BY <1>2, <1>4, <2>1, <2>2, ListsAssumption
  <2>4. list' \in Seq(Nodes) /\ TakenOut(list, m + 1, list')
    BY <1>1, <1>3, <1>6, <2>1, Removing
  <2>5. Linked(head, next, p, next[list[m + 1]], list[m + 1], NULL, head', next')
    BY <1>3, <2>1, <2>3 DEF List!Link, Linked
  <2>6. Chain(head', next', list')
    BY <1>2, <2>2, <2>4, <2>5, ChainTake DEF SimpleInv
  <2>7. QED
    BY <2>6 DEF SimpleInv
<1>7. QED
  BY <1>5, <1>6

LEMMA SimpleStep == SimpleInv /\ [List!SimpleNext]_simple => SimpleInv'
<1> SUFFICES ASSUME SimpleInv, [List!SimpleNext]_simple PROVE SimpleInv'
  OBVIOUS
<1>1. CASE UNCHANGED simple
  BY <1>1 DEF simple, SimpleInv
<1>2. CASE List!SimpleNext
  BY <1>2, SimpleAddHead, SimpleAddTail, SimpleAddBefore, SimpleAddAfter, SimpleExtract
     DEF List!SimpleNext
<1>3. QED
  BY <1>1, <1>2

-----------------------------------------------------------------------------
(* The rings part the nodes; the links lead round each, both ways, and     *)
(* what they lead round of a ring is the whole of it.                      *)
Parted(rs) ==
    /\ rs \subseteq SUBSET Nodes
    /\ \A n \in Nodes : \E R \in rs : n \in R
    /\ \A R, Q \in rs : R \intersect Q # {} => R = Q
Closed(S, f) == \A n \in S : f[n] \in S
Both(f, g) ==
    /\ f \in [Nodes -> Nodes] /\ g \in [Nodes -> Nodes]
    /\ \A n \in Nodes : g[f[n]] = n /\ f[g[n]] = n
Round(R, f) == Closed(R, f) /\ \A S \in SUBSET R : S # {} /\ Closed(S, f) => S = R
RingsOf(f, g, rs) == Parted(rs) /\ Both(f, g) /\ \A R \in rs : Round(R, f)

DoublyInv == RingsOf(dnext, dprev, rings)

LEMMA OneRing ==
    ASSUME DoublyInv, NEW n \in Nodes
    PROVE  /\ List!RingOf(n) \in rings /\ n \in List!RingOf(n) /\ List!RingOf(n) \subseteq Nodes
           /\ \A R \in rings : n \in R => R = List!RingOf(n)
           /\ dnext[n] \in List!RingOf(n) /\ dprev[n] \in List!RingOf(n)
           /\ List!RingOf(dnext[n]) = List!RingOf(n) /\ List!RingOf(dprev[n]) = List!RingOf(n)
<1>1. \A x \in Nodes : List!RingOf(x) \in rings /\ x \in List!RingOf(x)
  BY DEF List!RingOf, DoublyInv, RingsOf, Parted
<1>2. \A x \in Nodes, R \in rings : x \in R => R = List!RingOf(x)
  BY <1>1 DEF DoublyInv, RingsOf, Parted
<1>3. dnext[n] \in Nodes /\ dprev[n] \in Nodes /\ dnext[dprev[n]] = n
  BY DEF DoublyInv, RingsOf, Both
<1>4. \A x \in Nodes : dnext[x] \in List!RingOf(x)
  BY <1>1 DEF DoublyInv, RingsOf, Round, Closed
<1>5. List!RingOf(dnext[n]) = List!RingOf(n)
  BY <1>1, <1>2, <1>3, <1>4
<1>6. List!RingOf(dprev[n]) = List!RingOf(n)
  BY <1>1, <1>2, <1>3, <1>4
<1>7. QED
  BY <1>1, <1>2, <1>3, <1>4, <1>5, <1>6 DEF DoublyInv, RingsOf, Parted

(* Two rings become one: from a on to b, and back from the one before b.   *)
LEMMA RoundTwo ==
    ASSUME NEW f, NEW g, Both(f, g), NEW A \in SUBSET Nodes, NEW B \in SUBSET Nodes,
           A \intersect B = {}, Round(A, f), Round(B, f), NEW a \in A, NEW b \in B, g[b] \in B,
           NEW f2, f2 = [f EXCEPT ![g[b]] = f[a], ![a] = b]
    PROVE  Round(A \union B, f2)
<1> DEFINE q == g[b]
           c == f[a]
<1>1. /\ a \in Nodes /\ b \in Nodes /\ q \in B /\ q \in Nodes /\ c \in A /\ f[q] = b /\ q # a
      /\ DOMAIN f = Nodes
  BY DEF Both, Round, Closed
<1>2. /\ f2[a] = b /\ f2[q] = c
      /\ \A x \in Nodes : x # a /\ x # q => f2[x] = f[x]
  BY <1>1
<1>3. (\A x \in A : f[x] \in A) /\ \A x \in B : f[x] \in B
  BY DEF Round, Closed
<1> HIDE DEF q, c
<1>4. Closed(A \union B, f2)
  BY <1>1, <1>2, <1>3 DEF Closed
<1>5. ASSUME NEW S \in SUBSET (A \union B), S # {}, Closed(S, f2) PROVE S = A \union B
  <2> DEFINE SA == S \intersect A
             SB == S \intersect B
  <2>1. \A x \in S : f2[x] \in S
    BY <1>5 DEF Closed
  <2>2. (SA # {} /\ Closed(SA, f) => SA = A) /\ (SB # {} /\ Closed(SB, f) => SB = B)
    BY DEF Round
  <2>3. CASE a \in S
    <3>1. b \in SB
      BY <1>2, <2>1, <2>3
    <3>2. Closed(SB, f)
      BY <1>1, <1>2, <1>3, <2>1, <3>1 DEF Closed
    <3>3. SB = B
      BY <2>2, <3>1, <3>2
    <3>4. c \in SA
      BY <1>1, <1>2, <2>1, <3>3
    <3>5. Closed(SA, f)
      <4>1. \A x \in SA : x # q
        BY <1>1
      <4>2. \A x \in SA : x # a => f[x] \in SA
        BY <1>2, <1>3, <2>1, <4>1
      <4>3. f[a] \in SA
        BY <3>4 DEF c
      <4>4. QED
        BY <4>2, <4>3 DEF Closed
    <3>6. SA = A
      BY <2>2, <3>4, <3>5
    <3>7. QED
      BY <3>3, <3>6
  <2>4. CASE a \notin S
    <3>1. SA = {}
      <4>1. SUFFICES ASSUME SA # {} PROVE FALSE
        OBVIOUS
      <4>2. \A x \in SA : x # q /\ x # a
        BY <1>1, <2>4
      <4>3. Closed(SA, f)
        BY <1>2, <1>3, <2>1, <4>2 DEF Closed
      <4>4. SA = A
        BY <2>2, <4>1, <4>3
      <4>5. QED
        BY <2>4, <4>4
    <3>2. SB # {}
      BY <1>5, <3>1
    <3>3. q \notin S
      BY <1>1, <1>2, <2>1, <3>1
    <3>4. Closed(SB, f)
      BY <1>1, <1>2, <1>3, <2>1, <2>4, <3>3 DEF Closed
    <3>5. SB = B
      BY <2>2, <3>2, <3>4
    <3>6. QED
      BY <1>1, <3>3, <3>5
  <2>5. QED
    BY <2>3, <2>4
<1>6. QED
  BY <1>4, <1>5 DEF Round

LEMMA BothTwo ==
    ASSUME NEW f, NEW g, Both(f, g), NEW a \in Nodes, NEW b \in Nodes, NEW f2, NEW g2,
           f[a] # b,
           f2 = [f EXCEPT ![g[b]] = f[a], ![a] = b],
           g2 = [g EXCEPT ![f[a]] = g[b], ![b] = a]
    PROVE  Both(f2, g2)
<1> DEFINE q == g[b]
           c == f[a]
<1>1. q \in Nodes /\ c \in Nodes /\ f[q] = b /\ g[c] = a /\ q # a /\ c # b
      /\ DOMAIN f = Nodes /\ DOMAIN g = Nodes
  BY DEF Both
<1> HIDE DEF q, c
<1>2. f2 = [f EXCEPT ![q] = c, ![a] = b] /\ g2 = [g EXCEPT ![c] = q, ![b] = a]
  BY DEF q, c
<1>3. f2 \in [Nodes -> Nodes] /\ f2[a] = b /\ f2[q] = c
      /\ \A x \in Nodes : x # a /\ x # q => f2[x] = f[x]
  BY <1>1, <1>2 DEF Both
<1>4. g2 \in [Nodes -> Nodes] /\ g2[b] = a /\ g2[c] = q
      /\ \A x \in Nodes : x # b /\ x # c => g2[x] = g[x]
  BY <1>1, <1>2 DEF Both
<1>5. \A x, y \in Nodes : (f[x] = f[y] => x = y) /\ (g[x] = g[y] => x = y)
  BY DEF Both
<1>6. \A x \in Nodes : g2[f2[x]] = x
  <2>1. SUFFICES ASSUME NEW x \in Nodes, x # a, x # q PROVE g2[f2[x]] = x
    BY <1>1, <1>3, <1>4
  <2>2. f[x] # b /\ f[x] # c
    BY <1>1, <1>5, <2>1 DEF c
  <2>3. f[x] \in Nodes /\ g[f[x]] = x
    BY DEF Both
  <2>4. QED
    BY <1>3, <1>4, <2>1, <2>2, <2>3
<1>7. \A x \in Nodes : f2[g2[x]] = x
  <2>1. SUFFICES ASSUME NEW x \in Nodes, x # b, x # c PROVE f2[g2[x]] = x
    BY <1>1, <1>3, <1>4
  <2>2. g[x] # a /\ g[x] # q
    BY <1>1, <1>5, <2>1 DEF q
  <2>3. g[x] \in Nodes /\ f[g[x]] = x
    BY DEF Both
  <2>4. QED
    BY <1>3, <1>4, <2>1, <2>2, <2>3
<1>8. QED
  BY <1>3, <1>4, <1>6, <1>7 DEF Both

(* The rings that have nothing of two others stay as they are.             *)
LEMMA RoundSame ==
    ASSUME NEW R \in SUBSET Nodes, NEW f, NEW f2, Round(R, f), \A x \in R : f2[x] = f[x]
    PROVE  Round(R, f2)
BY DEF Round, Closed

LEMMA JoinTwo ==
    ASSUME DoublyInv, NEW a \in Nodes, NEW b \in Nodes, List!RingOf(a) # List!RingOf(b), List!Join(a, b),
           dnext' = [dnext EXCEPT ![dprev[b]] = dnext[a], ![a] = b],
           dprev' = [dprev EXCEPT ![dnext[a]] = dprev[b], ![b] = a]
    PROVE  DoublyInv'
<1> DEFINE A == List!RingOf(a)
           B == List!RingOf(b)
<1>1. /\ A \in rings /\ B \in rings /\ a \in A /\ b \in B /\ A \subseteq Nodes /\ B \subseteq Nodes
      /\ dnext[a] \in A /\ dprev[b] \in B
  BY OneRing
<1>2. A # B /\ rings' = (rings \ {A, B}) \union {A \union B}
  BY DEF List!Join
<1> HIDE DEF A, B
<1>3. A \intersect B = {}
  BY <1>1, <1>2 DEF DoublyInv, RingsOf, Parted
<1>4. Both(dnext', dprev')
  <2>1. dnext[a] # b
    BY <1>1, <1>3
  <2>2. QED
    BY <2>1, BothTwo DEF DoublyInv, RingsOf
<1>5. Parted(rings')
  <2>1. rings' \subseteq SUBSET Nodes
    BY <1>1, <1>2 DEF DoublyInv, RingsOf, Parted
  <2>2. \A n \in Nodes : \E R \in rings' : n \in R
    <3>1. SUFFICES ASSUME NEW n \in Nodes PROVE \E R \in rings' : n \in R
      OBVIOUS
    <3>2. PICK R \in rings : n \in R
      BY DEF DoublyInv, RingsOf, Parted
    <3>3. CASE R \in {A, B}
      BY <1>2, <3>2, <3>3
    <3>4. CASE R \notin {A, B}
      BY <1>2, <3>2, <3>4
    <3>5. QED
      BY <3>3, <3>4
  <2>3. ASSUME NEW R \in rings', NEW Q \in rings', R \intersect Q # {} PROVE R = Q
    <3>1. \A X \in rings, Y \in rings : X \intersect Y # {} => X = Y
      BY DEF DoublyInv, RingsOf, Parted
    <3>2. \A X \in rings \ {A, B} : X \intersect (A \union B) = {}
      BY <1>1, <3>1
    <3>3. QED
      BY <1>2, <2>3, <3>1, <3>2
  <2>4. QED
    BY <2>1, <2>2, <2>3 DEF Parted
<1>6. ASSUME NEW R \in rings' PROVE Round(R, dnext')
  <2>1. CASE R = A \union B
    <3>1. Round(A, dnext) /\ Round(B, dnext) /\ Both(dnext, dprev)
      BY <1>1 DEF DoublyInv, RingsOf
    <3>2. QED
      BY <1>1, <1>3, <2>1, <3>1, RoundTwo
  <2>2. CASE R \in rings /\ R \notin {A, B}
    <3>1. R \in SUBSET Nodes /\ R \intersect A = {} /\ R \intersect B = {} /\ Round(R, dnext)
      BY <1>1, <2>2 DEF DoublyInv, RingsOf, Parted
    <3>2. \A x \in R : dnext'[x] = dnext[x]
      <4>1. \A x \in R : x \in Nodes /\ x # a /\ x # dprev[b]
        BY <1>1, <3>1
      <4>2. dnext \in [Nodes -> Nodes]
        BY DEF DoublyInv, RingsOf, Both
      <4>3. QED
        BY <4>1, <4>2
    <3> DEFINE f2 == dnext'
    <3>3. \A x \in R : f2[x] = dnext[x]
      BY <3>2
    <3> HIDE DEF f2
    <3>4. Round(R, f2)
      BY ONLY <3>1, <3>3, RoundSame
    <3>5. QED
      BY <3>4 DEF f2
  <2>3. QED
    BY <1>2, <2>1, <2>2
<1>7. QED
  BY <1>4, <1>5, <1>6 DEF DoublyInv, RingsOf

LEMMA DoublyJoins ==
    ASSUME DoublyInv, NEW o \in Nodes, NEW n \in Nodes,
           List!DoublyBefore(o, n) \/ List!DoublyAfter(o, n) \/ List!DoublyMerge(o, n)
    PROVE  DoublyInv'
<1>1. /\ dnext \in [Nodes -> Nodes] /\ dprev \in [Nodes -> Nodes]
      /\ \A x \in Nodes : dprev[dnext[x]] = x /\ dnext[dprev[x]] = x
  BY DEF DoublyInv, RingsOf, Both
<1>2. ASSUME List!Lone(n), n # o
      PROVE  List!RingOf(n) # List!RingOf(o) /\ dprev[n] = n /\ dnext[o] # n
  <2>1. List!RingOf(n) = {n} /\ o \in List!RingOf(o) /\ dprev[n] \in List!RingOf(n)
        /\ dnext[o] \in List!RingOf(o)
    BY <1>2, OneRing DEF List!Lone
  <2>2. List!RingOf(n) # List!RingOf(o) /\ dprev[n] = n
    BY <1>2, <2>1
  <2>3. dnext[o] # n
    <3>1. List!RingOf(dnext[o]) = List!RingOf(o)
      BY OneRing
    <3>2. QED
      BY <2>2, <3>1
  <2>4. QED
    BY <2>2, <2>3
<1>3. CASE List!DoublyBefore(o, n)
  <2> DEFINE a == dprev[o]
  <2>1. a \in Nodes /\ dnext[a] = o /\ List!RingOf(a) = List!RingOf(o)
    BY <1>1, OneRing
  <2>2. n # o /\ List!Lone(n) /\ List!Join(o, n)
        /\ dnext' = [dnext EXCEPT ![n] = o, ![a] = n]
        /\ dprev' = [dprev EXCEPT ![n] = a, ![o] = n]
    BY <1>3 DEF List!DoublyBefore
  <2>3. List!RingOf(n) # List!RingOf(a) /\ dprev[n] = n
    BY <1>2, <2>1, <2>2
  <2>4. List!Join(a, n)
    BY <2>1, <2>2 DEF List!Join
  <2> HIDE DEF a
  <2>5. dnext' = [dnext EXCEPT ![dprev[n]] = dnext[a], ![a] = n]
    BY <2>1, <2>2, <2>3
  <2>6. dprev' = [dprev EXCEPT ![dnext[a]] = dprev[n], ![n] = a]
    BY <1>1, <2>1, <2>2, <2>3
  <2>7. QED
    BY <2>1, <2>3, <2>4, <2>5, <2>6, JoinTwo
<1>4. CASE List!DoublyAfter(o, n)
  <2>1. n # o /\ List!Lone(n) /\ List!Join(o, n)
        /\ dnext' = [dnext EXCEPT ![n] = dnext[o], ![o] = n]
        /\ dprev' = [dprev EXCEPT ![n] = o, ![dnext[o]] = n]
    BY <1>4 DEF List!DoublyAfter
  <2>2. List!RingOf(n) # List!RingOf(o) /\ dprev[n] = n /\ dnext[o] # n
    BY <1>2, <2>1
  <2>3. dnext' = [dnext EXCEPT ![dprev[n]] = dnext[o], ![o] = n]
    BY <2>1, <2>2
  <2>4. dprev' = [dprev EXCEPT ![dnext[o]] = dprev[n], ![n] = o]
    BY <1>1, <2>1, <2>2
  <2>5. QED
    BY <2>1, <2>2, <2>3, <2>4, JoinTwo
<1>5. CASE List!DoublyMerge(o, n)
  <2>1. List!RingOf(o) # List!RingOf(n) /\ List!Join(o, n)
        /\ dnext' = [dnext EXCEPT ![dprev[n]] = dnext[o], ![o] = n]
        /\ dprev' = [dprev EXCEPT ![dnext[o]] = dprev[n], ![n] = o]
    BY <1>5 DEF List!DoublyMerge
  <2>2. QED
    BY <2>1, JoinTwo
<1>6. QED
  BY <1>3, <1>4, <1>5

(* A node that leaves its ring leads to itself, and the others round.      *)
Without(f, g, R, n, f2) ==
    /\ Both(f, g) /\ R \subseteq Nodes /\ Round(R, f) /\ n \in R /\ R # {n} /\ g[n] \in R
    /\ f2[n] = n /\ (g[n] # n => f2[g[n]] = f[n])
    /\ \A x \in Nodes : x # n /\ x # g[n] => f2[x] = f[x]

LEMMA RoundWithout ==
    ASSUME NEW f, NEW g, NEW R, NEW n, NEW f2, Without(f, g, R, n, f2)
    PROVE  Round(R \ {n}, f2) /\ Round({n}, f2) /\ f[n] # n /\ g[n] # n
<1>0. /\ Both(f, g) /\ R \subseteq Nodes /\ Round(R, f) /\ n \in R /\ R # {n} /\ g[n] \in R
      /\ f2[n] = n /\ (g[n] # n => f2[g[n]] = f[n])
      /\ \A x \in Nodes : x # n /\ x # g[n] => f2[x] = f[x]
  BY DEF Without
<1> DEFINE p == g[n]
           c == f[n]
<1>1. /\ n \in Nodes /\ p \in R /\ p \in Nodes /\ c \in R /\ f[p] = n /\ DOMAIN f = Nodes
      /\ \A x, y \in Nodes : f[x] = f[y] => x = y
  BY <1>0 DEF Both, Round, Closed
<1>2. c # n
  <2>1. SUFFICES ASSUME c = n PROVE FALSE
    OBVIOUS
  <2>2. Closed({n}, f) /\ {n} \in SUBSET R /\ {n} # {}
    BY <1>0, <2>1 DEF Closed
  <2>3. QED
    BY <1>0, <2>2 DEF Round
<1>3. p # n
  BY <1>1, <1>2
<1> HIDE DEF p, c
<1>5. f2[n] = n /\ f2[p] = c /\ \A x \in Nodes : x # n /\ x # p => f2[x] = f[x]
  BY <1>0, <1>3 DEF p, c
<1>6. \A x \in R : f[x] \in R
  BY <1>0 DEF Round, Closed
<1>7. Closed(R \ {n}, f2)
  <2>1. SUFFICES ASSUME NEW x \in R \ {n} PROVE f2[x] \in R \ {n}
    BY DEF Closed
  <2>2. CASE x = p
    BY <1>1, <1>2, <1>5, <2>2
  <2>3. CASE x # p
    <3>1. x \in Nodes /\ x # n /\ f[x] \in R /\ f2[x] = f[x]
      BY <1>0, <1>5, <1>6, <2>3
    <3>2. f[x] # n
      BY <1>1, <2>3, <3>1
    <3>3. QED
      BY <3>1, <3>2
  <2>4. QED
    BY <2>2, <2>3
<1>8. ASSUME NEW S \in SUBSET (R \ {n}), S # {}, Closed(S, f2) PROVE S = R \ {n}
  <2> DEFINE S2 == IF p \in S THEN S \union {n} ELSE S
  <2>1. \A x \in S : f2[x] \in S /\ x \in R /\ x \in Nodes /\ x # n
    BY <1>0, <1>8 DEF Closed
  <2>2. S2 \in SUBSET R /\ S2 # {}
    BY <1>0, <1>8
  <2>3. Closed(S2, f)
    <3>1. SUFFICES ASSUME NEW x \in S2 PROVE f[x] \in S2
      BY DEF Closed
    <3>2. CASE x = n
      <4>1. p \in S
        BY <2>1, <3>2
      <4>2. f[x] = c /\ f2[p] = c /\ f2[p] \in S
        BY <1>5, <2>1, <3>2, <4>1 DEF c
      <4>3. QED
        BY <4>2
    <3>3. CASE x = p
      BY <1>1, <1>3, <3>1, <3>3
    <3>4. CASE x # n /\ x # p
      BY <1>5, <2>1, <3>1, <3>4
    <3>5. QED
      BY <3>2, <3>3, <3>4
  <2>4. S2 = R
    BY <1>0, <2>2, <2>3 DEF Round
  <2>5. QED
    BY <2>1, <2>4
<1>9. Round({n}, f2)
  BY <1>5 DEF Round, Closed
<1>10. QED
  BY <1>2, <1>3, <1>7, <1>8, <1>9 DEF Round, p, c

LEMMA BothWithout ==
    ASSUME NEW f, NEW g, Both(f, g), NEW n \in Nodes, f[n] # n, g[n] # n, NEW f2, NEW g2,
           f2 = [[f EXCEPT ![g[n]] = f[n]] EXCEPT ![n] = n],
           g2 = [[g EXCEPT ![f[n]] = g[n]] EXCEPT ![n] = n]
    PROVE  Both(f2, g2)
<1> DEFINE p == g[n]
           c == f[n]
<1>1. p \in Nodes /\ c \in Nodes /\ f[p] = n /\ g[c] = n /\ p # n /\ c # n
      /\ DOMAIN f = Nodes /\ DOMAIN g = Nodes
  BY DEF Both
<1> HIDE DEF p, c
<1>2. f2 = [[f EXCEPT ![p] = c] EXCEPT ![n] = n] /\ g2 = [[g EXCEPT ![c] = p] EXCEPT ![n] = n]
  BY DEF p, c
<1>3. f2 \in [Nodes -> Nodes] /\ f2[n] = n /\ f2[p] = c
      /\ \A x \in Nodes : x # n /\ x # p => f2[x] = f[x]
  BY <1>1, <1>2 DEF Both
<1>4. g2 \in [Nodes -> Nodes] /\ g2[n] = n /\ g2[c] = p
      /\ \A x \in Nodes : x # n /\ x # c => g2[x] = g[x]
  BY <1>1, <1>2 DEF Both
<1>5. \A x, y \in Nodes : (f[x] = f[y] => x = y) /\ (g[x] = g[y] => x = y)
  BY DEF Both
<1>6. \A x \in Nodes : g2[f2[x]] = x
  <2>1. SUFFICES ASSUME NEW x \in Nodes, x # n, x # p PROVE g2[f2[x]] = x
    BY <1>1, <1>3, <1>4
  <2>2. f[x] # n /\ f[x] # c
    BY <1>1, <1>5, <2>1 DEF c
  <2>3. f[x] \in Nodes /\ g[f[x]] = x
    BY DEF Both
  <2>4. QED
    BY <1>3, <1>4, <2>1, <2>2, <2>3
<1>7. \A x \in Nodes : f2[g2[x]] = x
  <2>1. SUFFICES ASSUME NEW x \in Nodes, x # n, x # c PROVE f2[g2[x]] = x
    BY <1>1, <1>3, <1>4
  <2>2. g[x] # n /\ g[x] # p
    BY <1>1, <1>5, <2>1 DEF p
  <2>3. g[x] \in Nodes /\ f[g[x]] = x
    BY DEF Both
  <2>4. QED
    BY <1>3, <1>4, <2>1, <2>2, <2>3
<1>8. QED
  BY <1>3, <1>4, <1>6, <1>7 DEF Both

LEMMA DoublyExtracts ==
    ASSUME DoublyInv, NEW n \in Nodes, List!DoublyExtract(n)
    PROVE  DoublyInv'
<1> DEFINE R == List!RingOf(n)
<1>1. /\ rings' = (rings \ {R}) \union ({{n}, R \ {n}} \ {{}})
      /\ dnext' = [[dnext EXCEPT ![dprev[n]] = dnext[n]] EXCEPT ![n] = n]
      /\ dprev' = [[dprev EXCEPT ![dnext[n]] = dprev[n]] EXCEPT ![n] = n]
  BY DEF List!DoublyExtract
<1>2. R \in rings /\ n \in R /\ R \subseteq Nodes /\ dnext[n] \in R /\ dprev[n] \in R
  BY OneRing
<1> HIDE DEF R
<1>3. Both(dnext, dprev) /\ Parted(rings) /\ \A Q \in rings : Round(Q, dnext)
  BY DEF DoublyInv, RingsOf
<1>4. CASE R = {n}
  <2>1. dnext[n] = n /\ dprev[n] = n
    BY <1>2, <1>4
  <2>2. dnext' = dnext /\ dprev' = dprev
    BY <1>1, <1>3, <2>1 DEF Both
  <2>3. rings' = rings
    BY <1>1, <1>2, <1>4
  <2>4. QED
    BY <2>2, <2>3 DEF DoublyInv, RingsOf
<1>5. CASE R # {n}
  <2>1. Round(R \ {n}, dnext') /\ Round({n}, dnext') /\ dnext[n] # n /\ dprev[n] # n
    <3> DEFINE f2 == dnext'
    <3>1. f2[n] = n /\ (dprev[n] # n => f2[dprev[n]] = dnext[n])
          /\ \A x \in Nodes : x # n /\ x # dprev[n] => f2[x] = dnext[x]
      <4>1. n \in Nodes /\ dnext \in [Nodes -> Nodes] /\ dprev[n] \in Nodes
        BY <1>2, <1>3 DEF Both
      <4>2. QED
        BY <1>1, <4>1
    <3>2. R \in SUBSET Nodes /\ Round(R, dnext)
      BY <1>2, <1>3
    <3> HIDE DEF f2
    <3>3. Round(R \ {n}, f2) /\ Round({n}, f2) /\ dnext[n] # n /\ dprev[n] # n
      <4>1. Without(dnext, dprev, R, n, f2)
        BY <1>2, <1>3, <1>5, <3>1, <3>2 DEF Without
      <4>2. QED
        BY <4>1, RoundWithout
    <3>4. QED
      BY <3>3 DEF f2
  <2>2. Both(dnext', dprev')
    BY <1>1, <1>3, <2>1, BothWithout
  <2>3. rings' = (rings \ {R}) \union {{n}, R \ {n}}
    BY <1>1, <1>2, <1>5
  <2>4. Parted(rings')
    <3>1. rings' \subseteq SUBSET Nodes
      BY <1>2, <1>3, <2>3 DEF Parted
    <3>2. \A x \in Nodes : \E Q \in rings' : x \in Q
      <4>1. SUFFICES ASSUME NEW x \in Nodes PROVE \E Q \in rings' : x \in Q
        OBVIOUS
      <4>2. PICK Q \in rings : x \in Q
        BY <1>3 DEF Parted
      <4>3. CASE Q = R
        BY <2>3, <4>2, <4>3
      <4>4. CASE Q # R
        BY <2>3, <4>2, <4>4
      <4>5. QED
        BY <4>3, <4>4
    <3>3. ASSUME NEW Q \in rings', NEW W \in rings', Q \intersect W # {} PROVE Q = W
      <4>1. \A X \in rings, Y \in rings : X \intersect Y # {} => X = Y
        BY <1>3 DEF Parted
      <4>2. \A X \in rings \ {R} : X \intersect R = {}
        BY <1>2, <4>1
      <4>3. \A X \in rings' : X \in rings \ {R} \/ X = {n} \/ X = R \ {n}
        BY <2>3
      <4>4. \A X \in rings \ {R} : n \notin X /\ X \intersect (R \ {n}) = {}
        BY <1>2, <4>2
      <4>5. CASE Q \in rings \ {R}
        <5>1. W \in rings \ {R}
          BY <3>3, <4>3, <4>4, <4>5
        <5>2. QED
          BY <3>3, <4>1, <4>5, <5>1
      <4>6. CASE Q = {n}
        BY <3>3, <4>3, <4>4, <4>6
      <4>7. CASE Q = R \ {n}
        <5>1. W \notin rings \ {R} /\ W # {n}
          BY <3>3, <4>4, <4>7
        <5>2. QED
          BY <4>3, <4>7, <5>1
      <4>8. QED
        BY <4>3, <4>5, <4>6, <4>7
    <3>4. QED
      BY <3>1, <3>2, <3>3 DEF Parted
  <2>5. ASSUME NEW Q \in rings' PROVE Round(Q, dnext')
    <3>1. CASE Q \in {{n}, R \ {n}}
      BY <2>1, <3>1
    <3>2. CASE Q \in rings /\ Q # R
      <4>1. Q \in SUBSET Nodes /\ Q \intersect R = {} /\ Round(Q, dnext)
        BY <1>2, <1>3, <3>2 DEF Parted
      <4> DEFINE f2 == dnext'
      <4>2. \A x \in Q : f2[x] = dnext[x]
        <5>1. \A x \in Q : x \in Nodes /\ x # n /\ x # dprev[n]
          BY <1>2, <4>1
        <5>2. dnext \in [Nodes -> Nodes]
          BY <1>3 DEF Both
        <5>3. QED
          BY <1>1, <5>1, <5>2
      <4> HIDE DEF f2
      <4>3. Round(Q, f2)
        BY ONLY <4>1, <4>2, RoundSame
      <4>4. QED
        BY <4>3 DEF f2
    <3>3. QED
      BY <2>3, <3>1, <3>2
  <2>6. QED
    BY <2>2, <2>4, <2>5 DEF DoublyInv, RingsOf
<1>6. QED
  BY <1>4, <1>5

LEMMA DoublyStart == List!Init => DoublyInv
<1> SUFFICES ASSUME List!Init PROVE DoublyInv
  OBVIOUS
<1>1. /\ dnext = [n \in Nodes |-> n] /\ dprev = [n \in Nodes |-> n]
      /\ rings = {{n} : n \in Nodes}
  BY DEF List!Init
<1>2. Both(dnext, dprev)
  BY <1>1 DEF Both
<1>3. Parted(rings)
  <2>1. \A R \in rings : \E n \in Nodes : R = {n}
    BY <1>1
  <2>2. \A n \in Nodes : {n} \in rings
    BY <1>1
  <2>3. rings \subseteq SUBSET Nodes
    BY ONLY <2>1
  <2>4. ASSUME NEW R \in rings, NEW Q \in rings, R \intersect Q # {} PROVE R = Q
    <3>1. PICK a \in Nodes : R = {a}
      BY ONLY <2>1
    <3>2. PICK b \in Nodes : Q = {b}
      BY ONLY <2>1
    <3>3. a = b
      BY ONLY <2>4, <3>1, <3>2
    <3>4. QED
      BY ONLY <3>1, <3>2, <3>3
  <2>5. QED
    BY ONLY <2>2, <2>3, <2>4 DEF Parted
<1>4. \A R \in rings : Round(R, dnext)
  BY <1>1 DEF Round, Closed
<1>5. QED
  BY <1>2, <1>3, <1>4 DEF DoublyInv, RingsOf

LEMMA DoublyStep == DoublyInv /\ [List!DoublyNext]_doubly => DoublyInv'
<1> SUFFICES ASSUME DoublyInv, [List!DoublyNext]_doubly PROVE DoublyInv'
  OBVIOUS
<1>1. CASE UNCHANGED doubly
  BY <1>1 DEF doubly, DoublyInv
<1>2. CASE List!DoublyNext
  <2>1. PICK n \in Nodes, o \in Nodes :
          \/ List!DoublyBefore(o, n) \/ List!DoublyAfter(o, n) \/ List!DoublyMerge(o, n)
          \/ List!DoublyExtract(n)
    BY <1>2 DEF List!DoublyNext
  <2>2. QED
    BY <2>1, DoublyJoins, DoublyExtracts
<1>3. QED
  BY <1>1, <1>2

(* What list_doubly_all_free frees after k rounds from n on.               *)
Freed(f, n, k) ==
    /\ f \in Seq(Nodes) /\ Len(f) \in Nat \ {0} /\ f[1] = n
    /\ \A i \in 1..(Len(f) - 1) : f[i + 1] = dnext[f[i]]
    /\ \A i, j \in 1..Len(f) : f[i] = f[j] => i = j
    /\ dnext[f[Len(f)]] = n \/ Len(f) = k + 1

LEMMA FreedStart == ASSUME NEW n \in Nodes PROVE Freed(<<n>>, n, 0)
<1> DEFINE f == <<n>>
<1>1. f \in Seq(Nodes)
  BY ONLY n \in Nodes DEF f
<1>2. Len(f) = 1 /\ f[1] = n
  BY ONLY TRUE DEF f
<1> HIDE DEF f
<1>3. Freed(f, n, 0)
  BY <1>1, <1>2 DEF Freed
<1>4. QED
  BY <1>3 DEF f

LEMMA FreedNext ==
    ASSUME DoublyInv, NEW n \in Nodes, NEW k \in Nat, NEW f, Freed(f, n, k)
    PROVE  Freed(List!FreeNext(f, n), n, k + 1)
<1> DEFINE N == Len(f)
           e == dnext[f[N]]
<1>1. f \in Seq(Nodes) /\ N \in Nat \ {0} /\ \A i \in 1..N : f[i] \in Nodes
  BY ElementOfSeq DEF Freed
<1>2. N \in 1..N /\ f[N] \in Nodes /\ e \in Nodes /\ List!Last(f) = f[N]
  BY <1>1 DEF List!Last, DoublyInv, RingsOf, Both
<1>3. CASE e = n
  BY <1>2, <1>3 DEF List!FreeNext, Freed
<1>4. CASE e # n
  <2> DEFINE g == Append(f, e)
  <2>1. g \in Seq(Nodes) /\ Len(g) = N + 1 /\ (\A i \in 1..N : g[i] = f[i]) /\ g[N + 1] = e
    BY <1>1, <1>2, AppendProperties
  <2>2. List!FreeNext(f, n) = g
    BY <1>2, <1>4 DEF List!FreeNext
  <2>3. N = k + 1
    BY <1>2, <1>4 DEF Freed
  <2> HIDE DEF g
  <2>4. \A i \in 1..N : g[i + 1] = dnext[g[i]]
    <3>1. SUFFICES ASSUME NEW i \in 1..N PROVE g[i + 1] = dnext[g[i]]
      OBVIOUS
    <3>2. CASE i = N
      BY <1>2, <2>1, <3>2
    <3>3. CASE i # N
      <4>1. i \in 1..(N - 1) /\ i + 1 \in 1..N
        BY <1>1, <3>3
      <4>2. QED
        BY <2>1, <4>1 DEF Freed
    <3>4. QED
      BY <3>2, <3>3
  <2>5. \A i \in 1..N : f[i] # e
    <3>1. SUFFICES ASSUME NEW i \in 1..N, f[i] = e PROVE FALSE
      OBVIOUS
    <3>2. i # 1
      BY <1>4, <3>1 DEF Freed
    <3>3. i - 1 \in 1..(N - 1) /\ i - 1 \in 1..N /\ (i - 1) + 1 = i /\ i - 1 # N
      BY <1>1, <3>2
    <3>4. f[i] = dnext[f[i - 1]]
      BY <3>3 DEF Freed
    <3>5. f[i - 1] = f[N]
      <4>1. dnext[f[i - 1]] = dnext[f[N]] /\ f[i - 1] \in Nodes /\ f[N] \in Nodes
        BY <1>1, <1>2, <3>1, <3>3, <3>4
      <4>2. QED
        BY <4>1 DEF DoublyInv, RingsOf, Both
    <3>6. QED
      BY <1>2, <3>3, <3>5 DEF Freed
  <2>6. \A i, j \in 1..(N + 1) : g[i] = g[j] => i = j
    <3>1. \A i \in 1..(N + 1) : i = N + 1 \/ i \in 1..N
      BY <1>1
    <3>2. \A i, j \in 1..N : f[i] = f[j] => i = j
      BY DEF Freed
    <3> HIDE DEF N, e
    <3>3. QED
      BY <2>1, <2>5, <3>1, <3>2
  <2>7. g[1] = n
    BY <1>1, <2>1 DEF Freed
  <2>8. Freed(g, n, k + 1)
    <3>1. Len(g) \in Nat \ {0} /\ Len(g) - 1 = N /\ Len(g) = (k + 1) + 1
      BY <1>1, <2>1, <2>3
    <3> HIDE DEF N, e
    <3>2. QED
      BY <2>1, <2>4, <2>6, <2>7, <3>1 DEF Freed
  <2>9. QED
    BY <2>2, <2>8
<1>5. QED
  BY <1>3, <1>4

LEMMA AllOfTheRing ==
    ASSUME DoublyInv, NEW n \in Nodes
    PROVE  List!Range(List!AllFreed(n)) = List!RingOf(n) /\ List!IsInjective(List!AllFreed(n))
<1> DEFINE C == Cardinality(Nodes)
           S == {s \in Seq(Nodes) : Len(s) # 0}
           a == <<n>>
           F == [x \in S \X Nat |-> List!FreeNext(x[1], n)]
           walk == CHOOSE f : f = [k \in 0..C |-> IF k = 0 THEN a ELSE List!FreeNext(f[k - 1], n)]
<1>1. C \in Nat
  BY ListsAssumption, FS_CardinalityType
<1>2. a \in S
  BY FreedStart DEF Freed
<1>3. \A s \in S : List!FreeNext(s, n) \in S
  <2>1. SUFFICES ASSUME NEW s \in S PROVE List!FreeNext(s, n) \in S
    OBVIOUS
  <2>2. Len(s) \in Nat /\ Len(s) \in 1..Len(s) /\ s[Len(s)] \in Nodes
    BY LenProperties, ElementOfSeq
  <2>3. dnext[s[Len(s)]] \in Nodes
    BY <2>2 DEF DoublyInv, RingsOf, Both
  <2>4. Append(s, dnext[s[Len(s)]]) \in Seq(Nodes) /\ Len(Append(s, dnext[s[Len(s)]])) = Len(s) + 1
    BY <2>3, AppendProperties
  <2>5. QED
    BY <2>2, <2>4 DEF List!FreeNext, List!Last
<1>4. F \in [S \X Nat -> S]
  <2> HIDE DEF S
  <2>1. \A x \in S \X Nat : x[1] \in S
    OBVIOUS
  <2>2. QED
    BY <1>3, <2>1
<1>5. PICK f \in [0..C -> S] : StepByStep(f, a, F, C)
  <2> HIDE DEF S, F, C, a
  <2>1. QED
    BY ONLY <1>1, <1>2, <1>4, Repeated
<1>6. f = [k \in 0..C |-> IF k = 0 THEN a ELSE List!FreeNext(f[k - 1], n)]
  <2> HIDE DEF S, C, a
  <2>1. \A k \in 1..C : <<f[k - 1], k>> \in S \X Nat /\ <<f[k - 1], k>>[1] = f[k - 1]
    BY <1>1
  <2>2. \A k \in 0..C : k # 0 => k \in 1..C
    BY <1>1
  <2>3. QED
    BY <1>5, <2>1, <2>2 DEF StepByStep
<1>7. walk = [k \in 0..C |-> IF k = 0 THEN a ELSE List!FreeNext(walk[k - 1], n)]
  <2> HIDE DEF a
  <2>1. QED
    BY <1>6
<1>8. List!AllFreed(n) = walk[C]
  <2>1. List!Cardinality(Nodes) = C
    BY DEF List!Cardinality, Cardinality, List!IsFiniteSet, IsFiniteSet
  <2>2. QED
    BY ONLY <2>1 DEF List!AllFreed, walk, a
<1> HIDE DEF walk, S, F, C, a
<1> DEFINE T == {k \in Nat : k <= C => Freed(walk[k], n, k)}
<1>9. 0 \in T
  BY <1>1, <1>7, FreedStart DEF a
<1>10. ASSUME NEW k \in T PROVE k + 1 \in T
  <2>1. SUFFICES ASSUME k + 1 <= C PROVE Freed(walk[k + 1], n, k + 1)
    OBVIOUS
  <2>2. k + 1 \in 0..C /\ k + 1 # 0 /\ (k + 1) - 1 = k /\ k <= C /\ k \in Nat
    BY <1>1, <2>1
  <2>3. walk[k + 1] = List!FreeNext(walk[(k + 1) - 1], n)
    BY <1>7, <2>2
  <2>4. Freed(List!FreeNext(walk[k], n), n, k + 1)
    BY <2>2, FreedNext
  <2>5. QED
    BY <2>2, <2>3, <2>4
<1>11. T = Nat
  <2>1. T \in SUBSET Nat
    OBVIOUS
  <2> HIDE DEF T
  <2>2. QED
    BY <1>9, <1>10, <2>1, Induction
<1> DEFINE l == walk[C]
           N == Len(l)
<1>12. Freed(l, n, C)
  BY <1>1, <1>11
<1> HIDE DEF T, l
<1>13. l \in Seq(Nodes) /\ N \in Nat \ {0} /\ DOMAIN l = 1..N /\ \A i \in 1..N : l[i] \in Nodes
  BY <1>12, ElementOfSeq, LenProperties DEF Freed
<1>14. \A i, j \in 1..N : l[i] = l[j] => i = j
  BY <1>12 DEF Freed
<1>15. N <= C
  BY <1>13, <1>14, Pigeons DEF C
<1>16. dnext[l[N]] = n
  BY <1>1, <1>12, <1>15 DEF Freed
<1> DEFINE R == List!RingOf(n)
           X == {l[i] : i \in 1..N}
<1>17. R \in rings /\ n \in R /\ R \subseteq Nodes
  BY OneRing
<1>18. \A i \in 1..N : l[i] \in R
  <2> DEFINE U == {i \in Nat : i + 1 <= N => l[i + 1] \in R}
  <2>1. 0 \in U
    BY <1>12, <1>17 DEF Freed
  <2>2. ASSUME NEW i \in U PROVE i + 1 \in U
    <3>1. SUFFICES ASSUME (i + 1) + 1 <= N PROVE l[(i + 1) + 1] \in R
      OBVIOUS
    <3>2. i + 1 \in 1..(N - 1) /\ i + 1 <= N
      BY <1>13, <3>1
    <3>3. l[(i + 1) + 1] = dnext[l[i + 1]]
      BY <1>12, <3>2 DEF Freed
    <3>4. l[i + 1] \in R
      BY <3>2
    <3>5. \A x \in R : dnext[x] \in R
      BY <1>17 DEF DoublyInv, RingsOf, Round, Closed
    <3>6. QED
      BY <3>3, <3>4, <3>5
  <2>3. U = Nat
    <3>1. U \in SUBSET Nat
      OBVIOUS
    <3> HIDE DEF U
    <3>2. QED
      BY <2>1, <2>2, <3>1, Induction
  <2>4. ASSUME NEW i \in 1..N PROVE l[i] \in R
    <3>1. i - 1 \in Nat /\ (i - 1) + 1 = i /\ i <= N
      BY <1>13
    <3>2. i - 1 \in U
      BY <2>3, <3>1
    <3>3. QED
      BY <3>1, <3>2
  <2>5. QED
    BY <2>4
<1>19. Closed(X, dnext)
  <2>1. SUFFICES ASSUME NEW i \in 1..N PROVE dnext[l[i]] \in X
    BY DEF Closed
  <2>2. CASE i = N
    <3>1. l[1] = n /\ 1 \in 1..N
      BY <1>12, <1>13 DEF Freed
    <3>2. QED
      BY <1>16, <2>2, <3>1
  <2>3. CASE i # N
    <3>1. i \in 1..(N - 1) /\ i + 1 \in 1..N
      <4>1. N \in Nat
        BY <1>13
      <4>2. QED
        BY ONLY i \in 1..N, <2>3, <4>1
    <3>2. l[i + 1] = dnext[l[i]]
      BY <1>12, <3>1 DEF Freed
    <3>3. QED
      BY <3>1, <3>2
  <2>4. QED
    BY <2>2, <2>3
<1>20. X = R
  <2>1. X \in SUBSET R /\ X # {}
    BY <1>13, <1>18
  <2>2. Round(R, dnext)
    BY <1>17 DEF DoublyInv, RingsOf
  <2> HIDE DEF X
  <2>3. QED
    BY <1>19, <2>1, <2>2 DEF Round
<1>21. List!Range(l) = X
  BY <1>13 DEF List!Range
<1>22. List!IsInjective(l)
  BY <1>13, <1>14 DEF List!IsInjective
<1>23. QED
  BY <1>8, <1>20, <1>21, <1>22 DEF l

-----------------------------------------------------------------------------
(* The vector has room for what it holds, in order.                        *)
Slots == Values \union {"?"}
VectorInv ==
    /\ vsize \in Nat \ {0} /\ vcount \in 0..vsize
    /\ mem \in [1..vsize -> Slots] /\ pushed \in [1..vcount -> Values]
    /\ \A i \in 1..vcount : mem[i] = pushed[i]

LEMMA RoundsUp ==
    ASSUME NEW n \in Nat \ {0}, NEW by \in Nat \ {0}
    PROVE  List!RoundUp(n, by) \in Nat /\ List!RoundUp(n, by) >= n
<1> DEFINE z == n + by - 1
           y == z \div by
<1>1. y \in Int /\ z = (y * by) + (z % by) /\ (z % by) \in 0..(by - 1)
  OBVIOUS
<1>2. List!RoundUp(n, by) = y * by
  BY DEF List!RoundUp
<1> HIDE DEF y
<1>3. y * by \in Int
  BY <1>1
<1> DEFINE x == y * by
           d == z % by
<1>4. x \in Int /\ d \in Int /\ d <= by - 1 /\ n + by - 1 = x + d
  BY <1>1, <1>3
<1> HIDE DEF x, d
<1>5. x >= n
  BY <1>4
<1>6. QED
  BY <1>2, <1>4, <1>5 DEF x

LEMMA Upsized ==
    ASSUME VectorInv
    PROVE  /\ List!Upsize(1) \in Nat \ {0} /\ List!Upsize(1) >= vsize
           /\ vcount + 1 \in 1..List!Upsize(1)
<1>1. vsize \in Nat \ {0} /\ vcount \in 0..vsize /\ vsize + 1 \in Nat \ {0} /\ vsize * 2 \in Nat \ {0}
  BY DEF VectorInv
<1> DEFINE x == List!RoundUp(vsize + 1, vsize * 2)
<1>2. x \in Nat /\ x >= vsize + 1
  BY <1>1, RoundsUp
<1>3. List!Upsize(1) = IF 1 + vcount > vsize THEN x ELSE vsize
  BY DEF List!Upsize
<1> HIDE DEF x
<1>4. QED
  BY <1>1, <1>2, <1>3

LEMMA VectorLength ==
    ASSUME VectorInv
    PROVE  Len(mem) = vsize /\ Len(pushed) = vcount /\ pushed \in Seq(Values) /\ mem \in Seq(Slots)
<1>1. vsize \in Nat /\ vcount \in Nat
  BY DEF VectorInv
<1>2. pushed \in Seq(Values) /\ mem \in Seq(Slots)
  BY <1>1, IsASeq DEF VectorInv
<1>3. QED
  BY <1>1, <1>2, LenProperties DEF VectorInv

(* A sequence that is given by its elements.                               *)
LEMMA Spread ==
    ASSUME NEW S, NEW s \in Seq(S), NEW n \in Nat, Len(s) = n
    PROVE  s \in [1..n -> S]
BY LenProperties

LEMMA VectorGrown ==
    ASSUME VectorInv, NEW s \in Nat \ {0}, s >= vsize
    PROVE  /\ List!Resized(mem, s) \in [1..s -> Slots]
           /\ \A i \in 1..vcount : List!Resized(mem, s)[i] = pushed[i]
BY VectorLength DEF List!Resized, VectorInv, Slots

LEMMA VectorPushBack ==
    ASSUME VectorInv, NEW v \in Values, List!PushBack(v)
    PROVE  VectorInv'
<1> DEFINE m == List!Resized(mem, vsize')
<1>1. /\ vsize' = List!Upsize(1) /\ vcount' = vcount + 1
      /\ mem' = [m EXCEPT ![vcount + 1] = v] /\ pushed' = Append(pushed, v)
  BY DEF List!PushBack
<1>2. vsize' \in Nat \ {0} /\ vsize' >= vsize /\ vcount + 1 \in 1..vsize' /\ vcount \in Nat
  BY <1>1, Upsized DEF VectorInv
<1>3. m \in [1..vsize' -> Slots] /\ \A i \in 1..vcount : m[i] = pushed[i]
  BY <1>2, VectorGrown
<1> HIDE DEF m
<1>4. mem' \in [1..vsize' -> Slots] /\ mem'[vcount + 1] = v /\ \A i \in 1..vcount : mem'[i] = m[i]
  BY <1>1, <1>2, <1>3 DEF Slots
<1>5. pushed' \in Seq(Values) /\ Len(pushed') = vcount + 1 /\ pushed'[vcount + 1] = v
      /\ \A i \in 1..vcount : pushed'[i] = pushed[i]
  BY <1>1, VectorLength, AppendProperties
<1>6. pushed' \in [1..(vcount + 1) -> Values]
  BY <1>2, <1>5, Spread
<1>7. \A i \in 1..(vcount + 1) : mem'[i] = pushed'[i]
  <2>1. \A i \in 1..(vcount + 1) : i = vcount + 1 \/ i \in 1..vcount
    BY <1>2
  <2>2. QED
    BY <1>3, <1>4, <1>5, <2>1
<1>8. QED
  BY <1>1, <1>2, <1>4, <1>6, <1>7 DEF VectorInv

LEMMA VectorAddRaw ==
    ASSUME VectorInv, NEW v \in Values, NEW i \in Nat, List!AddRaw(i, v)
    PROVE  VectorInv'
<1> DEFINE m == List!Resized(mem, vsize')
           o == List!Moved(m, i + 1, i, vcount - i)
<1>1. /\ vsize' = List!Upsize(1) /\ vcount' = vcount + 1 /\ i < vcount
      /\ mem' = [o EXCEPT ![i + 1] = v] /\ pushed' = List!InsertAt(pushed, i + 1, v)
  BY DEF List!AddRaw
<1>2. vsize' \in Nat \ {0} /\ vsize' >= vsize /\ vcount + 1 \in 1..vsize' /\ vcount \in Nat
  BY <1>1, Upsized DEF VectorInv
<1>3. m \in [1..vsize' -> Slots] /\ \A k \in 1..vcount : m[k] = pushed[k]
  BY <1>2, VectorGrown
<1> HIDE DEF m
<1>4. DOMAIN m = 1..vsize' /\ Len(m) = vsize'
  <2>1. m \in Seq(Slots)
    BY <1>2, <1>3, IsASeq
  <2>2. QED
    BY <1>2, <1>3, <2>1, LenProperties
<1>5. /\ o \in [1..vsize' -> Slots]
      /\ \A k \in 1..(i + 1) : o[k] = m[k]
      /\ \A k \in (i + 2)..(vcount + 1) : o[k] = m[k - 1]
  <2>1. o = [k \in 1..vsize' |-> IF k > i + 1 /\ k <= (i + 1) + (vcount - i) /\ k - (i + 1) + i <= vsize'
                                 THEN m[k - (i + 1) + i] ELSE m[k]]
    BY <1>4 DEF List!Moved
  <2> HIDE DEF o
  <2>2. \A k \in 1..vsize' : k > i + 1 => k - (i + 1) + i = k - 1 /\ k - 1 \in 1..vsize' /\ k - 1 <= vsize'
    BY <1>2
  <2>3. (i + 1) + (vcount - i) = vcount + 1
    BY <1>2
  <2>4. o = [k \in 1..vsize' |-> IF k > i + 1 /\ k <= vcount + 1 THEN m[k - 1] ELSE m[k]]
    BY <2>1, <2>2, <2>3
  <2>5. o \in [1..vsize' -> Slots]
    BY <1>3, <2>2, <2>4
  <2>6. \A k \in 1..(i + 1) : k \in 1..vsize' /\ ~ (k > i + 1)
    BY <1>1, <1>2
  <2>7. \A k \in (i + 2)..(vcount + 1) : k \in 1..vsize' /\ k > i + 1 /\ k <= vcount + 1
    BY <1>1, <1>2
  <2>8. QED
    BY <2>4, <2>5, <2>6, <2>7
<1> HIDE DEF o
<1>6. i + 1 \in 1..vsize' /\ i + 1 \in 1..vcount /\ i + 1 \in 1..(vcount + 1)
  BY <1>1, <1>2
<1>7. mem' \in [1..vsize' -> Slots] /\ mem'[i + 1] = v
      /\ \A k \in 1..vsize' : k # i + 1 => mem'[k] = o[k]
  BY <1>1, <1>5, <1>6 DEF Slots
<1>8. pushed' \in Seq(Values) /\ PutIn(pushed, i + 1, v, pushed')
  BY <1>1, <1>6, VectorLength, Inserting
<1>9. /\ Len(pushed') = vcount + 1 /\ pushed'[i + 1] = v
      /\ \A k \in 1..i : pushed'[k] = pushed[k]
      /\ \A k \in (i + 2)..(vcount + 1) : pushed'[k] = pushed[k - 1]
  <2>1. (i + 1) - 1 = i /\ (i + 1) + 1 = i + 2
    OBVIOUS
  <2>2. QED
    BY <1>8, <2>1, VectorLength DEF PutIn
<1>10. pushed' \in [1..(vcount + 1) -> Values]
  BY <1>2, <1>8, <1>9, Spread
<1>11. ASSUME NEW k \in 1..(vcount + 1) PROVE mem'[k] = pushed'[k]
  <2>1. CASE k \in 1..i
    <3>1. k \in 1..vsize' /\ k # i + 1 /\ k \in 1..(i + 1) /\ k \in 1..vcount
      BY <1>1, <1>2, <2>1
    <3>2. QED
      BY <1>3, <1>5, <1>7, <1>9, <2>1, <3>1
  <2>2. CASE k = i + 1
    BY <1>7, <1>9, <2>2
  <2>3. CASE k \in (i + 2)..(vcount + 1)
    <3>1. k \in 1..vsize' /\ k # i + 1 /\ k - 1 \in 1..vcount
      BY <1>1, <1>2, <2>3
    <3>2. QED
      BY <1>3, <1>5, <1>7, <1>9, <2>3, <3>1
  <2>4. QED
    BY <1>2, <2>1, <2>2, <2>3
<1>12. QED
  BY <1>1, <1>2, <1>7, <1>10, <1>11 DEF VectorInv

LEMMA VectorRemoveRaw ==
    ASSUME VectorInv, NEW i \in Nat, List!RemoveRaw(i)
    PROVE  VectorInv'
<1> DEFINE o == List!Moved(mem, i, i + 1, vcount - i)
<1>1. /\ i < vcount /\ vcount' = vcount - 1
      /\ vsize' = IF vcount' \div 4 > vsize THEN vsize \div 2 ELSE vsize
      /\ mem' = IF i < vcount - 1 THEN o ELSE mem
      /\ pushed' = List!RemoveAt(pushed, i + 1)
  BY DEF List!RemoveRaw
<1>2. /\ vsize \in Nat \ {0} /\ vcount \in Nat /\ vcount <= vsize
      /\ mem \in [1..vsize -> Slots] /\ \A k \in 1..vcount : mem[k] = pushed[k]
  BY DEF VectorInv
<1>3. vsize' = vsize
  <2> DEFINE c == vcount - 1
             y == c \div 4
  <2>1. c \in Nat /\ c < vsize
    BY <1>1, <1>2
  <2>2. y \in Int /\ y <= c
    BY <2>1
  <2>3. vsize' = IF y > vsize THEN vsize \div 2 ELSE vsize
    BY <1>1
  <2> HIDE DEF y, c
  <2>4. QED
    BY <1>2, <2>1, <2>2, <2>3
<1>4. /\ o \in [1..vsize -> Slots]
      /\ \A k \in 1..i : o[k] = mem[k]
      /\ \A k \in (i + 1)..(vcount - 1) : o[k] = mem[k + 1]
  <2>1. o = [k \in 1..vsize |-> IF k > i /\ k <= i + (vcount - i) /\ k - i + (i + 1) <= vsize
                                THEN mem[k - i + (i + 1)] ELSE mem[k]]
    <3>1. DOMAIN mem = 1..vsize /\ Len(mem) = vsize
      BY <1>2, VectorLength
    <3>2. QED
      BY <3>1 DEF List!Moved
  <2> HIDE DEF o
  <2>2. \A k \in 1..vsize : k - i + (i + 1) = k + 1 /\ (k + 1 <= vsize => k + 1 \in 1..vsize)
    BY <1>2
  <2>3. i + (vcount - i) = vcount
    BY <1>2
  <2>4. o = [k \in 1..vsize |-> IF k > i /\ k <= vcount /\ k + 1 <= vsize THEN mem[k + 1] ELSE mem[k]]
    BY <2>1, <2>2, <2>3
  <2>5. o \in [1..vsize -> Slots]
    BY <1>2, <2>2, <2>4
  <2>6. \A k \in 1..i : k \in 1..vsize /\ ~ (k > i)
    BY <1>1, <1>2
  <2>7. \A k \in (i + 1)..(vcount - 1) : k \in 1..vsize /\ k > i /\ k <= vcount /\ k + 1 <= vsize
    BY <1>1, <1>2
  <2>8. QED
    BY <2>4, <2>5, <2>6, <2>7
<1> HIDE DEF o
<1>5. mem' \in [1..vsize -> Slots]
  BY <1>1, <1>2, <1>4
<1>6. i + 1 \in 1..vcount
  BY <1>1, <1>2
<1>7. pushed' \in Seq(Values) /\ TakenOut(pushed, i + 1, pushed')
  BY <1>1, <1>6, VectorLength, Removing
<1>8. /\ Len(pushed') = vcount - 1
      /\ \A k \in 1..i : pushed'[k] = pushed[k]
      /\ \A k \in (i + 1)..(vcount - 1) : pushed'[k] = pushed[k + 1]
  <2>1. (i + 1) - 1 = i
    OBVIOUS
  <2>2. QED
    BY <1>7, <2>1, VectorLength DEF TakenOut
<1>9. vcount - 1 \in Nat /\ vcount - 1 <= vsize
  BY <1>1, <1>2
<1>10. pushed' \in [1..(vcount - 1) -> Values]
  BY <1>7, <1>8, <1>9, Spread
<1>11. ASSUME NEW k \in 1..(vcount - 1) PROVE mem'[k] = pushed'[k]
  <2>1. CASE k \in 1..i
    <3>1. k \in 1..vcount
      BY <1>2
    <3>2. mem'[k] = mem[k]
      BY <1>1, <1>4, <2>1
    <3>3. QED
      BY <1>2, <1>8, <2>1, <3>1, <3>2
  <2>2. CASE k \in (i + 1)..(vcount - 1)
    <3>1. i < vcount - 1 /\ k + 1 \in 1..vcount
      BY <1>2, <2>2
    <3>2. QED
      BY <1>1, <1>2, <1>4, <1>8, <2>2, <3>1
  <2>3. QED
    BY <1>2, <2>1, <2>2
<1>12. QED
  BY <1>1, <1>2, <1>3, <1>5, <1>9, <1>10, <1>11 DEF VectorInv

LEMMA VectorFitting == ASSUME VectorInv, List!Fitting PROVE VectorInv'
<1>1. /\ vcount > 0 /\ vsize' = vcount /\ vcount' = vcount
      /\ mem' = List!Resized(mem, vcount) /\ pushed' = pushed
  BY DEF List!Fitting
<1>2. vsize \in Nat /\ vcount \in Nat \ {0} /\ vcount <= vsize
  BY <1>1 DEF VectorInv
<1>3. mem' = [i \in 1..vcount |-> mem[i]]
  <2>1. \A i \in 1..vcount : i <= vsize
    BY <1>2
  <2>2. QED
    BY <1>1, <2>1, VectorLength DEF List!Resized
<1>4. \A i \in 1..vcount : i \in 1..vsize
  BY <1>2
<1>5. QED
  BY <1>1, <1>2, <1>3, <1>4 DEF VectorInv

LEMMA VectorClear == ASSUME VectorInv, List!VectorClear PROVE VectorInv'
<1>1. vcount' = 0 /\ pushed' = <<>> /\ vsize' = vsize /\ mem' = mem
  BY DEF List!VectorClear
<1>2. <<>> \in Seq(Values) /\ Len(<<>>) = 0
  OBVIOUS
<1>3. pushed' \in [1..0 -> Values]
  BY <1>1, <1>2, Spread
<1>4. QED
  BY <1>1, <1>3 DEF VectorInv

(* What vector_shuffle does to an array of n, one swap after the other.    *)
Array(m, n, S) == n \in Nat /\ m \in [1..n -> S]

LEMMA SwapsIn ==
    ASSUME NEW S, NEW n, NEW m, Array(m, n, S), NEW x \in 1..n, NEW y \in 1..n
    PROVE  Array(List!Swap(m, x, y), n, S)
           /\ \A i \in 1..n : List!Swap(m, x, y)[i] = IF i = y THEN m[x] ELSE IF i = x THEN m[y] ELSE m[i]
BY DEF List!Swap, Array

Swaps(m, b, e, j, f) ==
    f[0] = m /\ \A k \in 1..(e - b + 1) : f[k] = List!Swap(f[k - 1], b + k - 1, j[b + k - 1])

Choices(m, n, S, b, e, j) ==
    Array(m, n, S) /\ b \in 1..n /\ e \in 1..n /\ b <= e /\ j \in [b..e -> b..e]

LEMMA ShuffledIn ==
    ASSUME NEW S, NEW n, NEW m, NEW b, NEW e, NEW j, Choices(m, n, S, b, e, j)
    PROVE  \E f : /\ \A k \in 0..(e - b + 1) : Array(f[k], n, S)
                  /\ Swaps(m, b, e, j, f) /\ List!Shuffled(m, b, e, j) = f[e - b + 1]
<1> DEFINE z == e - b + 1
           A == [1..n -> S]
           F == [x \in A \X Nat |->
                   IF x[2] \in 1..z THEN List!Swap(x[1], b + x[2] - 1, j[b + x[2] - 1]) ELSE x[1]]
           swapped[k \in 0..z] ==
               IF k = 0 THEN m ELSE List!Swap(swapped[k - 1], b + k - 1, j[b + k - 1])
<1>1. z \in Nat /\ n \in Nat /\ m \in A
  BY DEF Array, Choices
<1>2. \A k \in 1..z : b + k - 1 \in b..e /\ b + k - 1 \in 1..n /\ j[b + k - 1] \in 1..n
  <2>1. n \in Nat /\ b \in 1..n /\ e \in 1..n /\ b <= e /\ \A x \in b..e : j[x] \in b..e
    BY DEF Array, Choices
  <2>2. QED
    BY <2>1
<1> HIDE DEF z
<1> DEFINE G(x) == IF x[2] \in 1..z THEN List!Swap(x[1], b + x[2] - 1, j[b + x[2] - 1]) ELSE x[1]
<1>3. F \in [A \X Nat -> A]
  <2>1. \A x \in A \X Nat : G(x) \in A
    <3>1. \A x \in A \X Nat : x[1] \in A /\ (x[2] \in 1..z => List!Swap(x[1], b + x[2] - 1, j[b + x[2] - 1]) \in A)
      <4>1. SUFFICES ASSUME NEW x \in A \X Nat
                     PROVE  x[1] \in A /\ (x[2] \in 1..z => List!Swap(x[1], b + x[2] - 1, j[b + x[2] - 1]) \in A)
        <5> HIDE DEF A
        <5>1. QED
          OBVIOUS
      <4>2. x[1] \in A
        OBVIOUS
      <4>3. Array(x[1], n, S)
        BY <1>1, <4>2 DEF Array
      <4>4. ASSUME x[2] \in 1..z PROVE Array(List!Swap(x[1], b + x[2] - 1, j[b + x[2] - 1]), n, S)
        <5> DEFINE c == x[1]
                   k == x[2]
        <5>1. b + k - 1 \in 1..n /\ j[b + k - 1] \in 1..n
          BY <1>2, <4>4
        <5>2. Array(c, n, S)
          BY <4>3
        <5> HIDE DEF c, k
        <5>3. Array(List!Swap(c, b + k - 1, j[b + k - 1]), n, S)
          BY <5>1, <5>2, SwapsIn
        <5>4. QED
          BY <5>3 DEF c, k
      <4>5. QED
        BY <4>2, <4>4 DEF Array
    <3> HIDE DEF A
    <3>2. QED
      BY <3>1
  <2>2. F = [x \in A \X Nat |-> G(x)]
    OBVIOUS
  <2> HIDE DEF A, F, G
  <2>3. QED
    BY <2>1, <2>2
<1> HIDE DEF G
<1>4. PICK f \in [0..z -> A] : StepByStep(f, m, F, z)
  <2> HIDE DEF A, F
  <2>1. QED
    BY ONLY <1>1, <1>3, Repeated
<1>5. ASSUME NEW k \in 1..z PROVE f[k] = List!Swap(f[k - 1], b + k - 1, j[b + k - 1])
  <2>1. k - 1 \in 0..z /\ k \in Nat
    BY <1>1
  <2>2. <<f[k - 1], k>> \in A \X Nat /\ <<f[k - 1], k>>[1] = f[k - 1] /\ <<f[k - 1], k>>[2] = k
    <3> HIDE DEF A
    <3>1. QED
      BY <2>1
  <2>3. f[k] = F[<<f[k - 1], k>>]
    BY <1>4 DEF StepByStep
  <2> HIDE DEF A
  <2>4. QED
    BY <2>2, <2>3
<1>6. f[0] = m
  BY <1>4 DEF StepByStep
<1>7. f = [k \in 0..z |-> IF k = 0 THEN m ELSE List!Swap(f[k - 1], b + k - 1, j[b + k - 1])]
  <2> HIDE DEF A, F
  <2>1. \A k \in 0..z : k # 0 => k \in 1..z
    BY <1>1
  <2>2. QED
    BY <1>5, <1>6, <2>1
<1>8. swapped = [k \in 0..z |-> IF k = 0 THEN m ELSE List!Swap(swapped[k - 1], b + k - 1, j[b + k - 1])]
  <2> HIDE DEF A, F
  <2>1. QED
    BY <1>7
<1>9. List!Shuffled(m, b, e, j) = swapped[z]
  BY ONLY TRUE DEF List!Shuffled, swapped, z
<1> HIDE DEF swapped, A, F
<1> DEFINE T == {k \in Nat : k <= z => swapped[k] = f[k]}
<1>10. 0 \in T
  BY <1>1, <1>6, <1>8
<1>11. ASSUME NEW k \in T PROVE k + 1 \in T
  <2>1. SUFFICES ASSUME k + 1 <= z PROVE swapped[k + 1] = f[k + 1]
    OBVIOUS
  <2>2. k + 1 \in 1..z /\ k + 1 \in 0..z /\ k + 1 # 0 /\ (k + 1) - 1 = k /\ k <= z
    BY <1>1, <2>1
  <2>3. swapped[k] = f[k]
    BY <2>2
  <2>4. swapped[k + 1] = List!Swap(swapped[(k + 1) - 1], b + (k + 1) - 1, j[b + (k + 1) - 1])
    BY <1>8, <2>2
  <2>5. f[k + 1] = List!Swap(f[(k + 1) - 1], b + (k + 1) - 1, j[b + (k + 1) - 1])
    BY <1>5, <2>2
  <2>6. QED
    BY <2>2, <2>3, <2>4, <2>5
<1>12. T = Nat
  <2>1. T \in SUBSET Nat
    OBVIOUS
  <2> HIDE DEF T
  <2>2. QED
    BY <1>10, <1>11, <2>1, Induction
<1>13. swapped[z] = f[z]
  <2>1. z \in T /\ z <= z
    BY <1>1, <1>12
  <2>2. QED
    BY <2>1
<1>14. QED
  <2>1. Swaps(m, b, e, j, f)
    BY <1>5, <1>6 DEF Swaps, z
  <2>2. \A k \in 0..z : Array(f[k], n, S)
    BY <1>1 DEF Array, A
  <2>3. QED
    BY <1>9, <1>13, <2>1, <2>2 DEF z

LEMMA VectorShuffle ==
    ASSUME VectorInv, NEW b \in Nat \ {0}, NEW e \in Nat, List!Shuffle(b, e)
    PROVE  VectorInv'
<1>1. /\ vsize \in Nat \ {0} /\ vcount \in Nat /\ vcount <= vsize
      /\ mem \in [1..vsize -> Slots] /\ pushed \in [1..vcount -> Values]
      /\ \A k \in 1..vcount : mem[k] = pushed[k]
  BY DEF VectorInv
<1>2. b <= e /\ e <= vcount /\ vsize' = vsize /\ vcount' = vcount
  BY DEF List!Shuffle
<1>3. PICK j \in [b..e -> b..e] :
         mem' = List!Shuffled(mem, b, e, j) /\ pushed' = List!Shuffled(pushed, b, e, j)
  BY DEF List!Shuffle
<1> DEFINE z == e - b + 1
<1>4. /\ b \in 1..vsize /\ e \in 1..vsize /\ b \in 1..vcount /\ e \in 1..vcount /\ z \in Nat
      /\ vsize \in Nat
  BY <1>1, <1>2
<1>5. \A k \in 1..z : /\ b + k - 1 \in 1..vcount /\ b + k - 1 \in 1..vsize
                      /\ j[b + k - 1] \in 1..vcount /\ j[b + k - 1] \in 1..vsize
  <2>1. \A k \in 1..z : b + k - 1 \in b..e
    OBVIOUS
  <2>2. \A x \in b..e : x \in 1..vcount /\ x \in 1..vsize /\ j[x] \in b..e
    BY <1>1, <1>2
  <2> HIDE DEF z
  <2>3. QED
    BY <2>1, <2>2
<1>6. /\ Array(mem, vsize, Slots) /\ Array(pushed, vcount, Values)
      /\ Choices(mem, vsize, Slots, b, e, j) /\ Choices(pushed, vcount, Values, b, e, j)
  BY <1>1, <1>2, <1>4 DEF Array, Choices
<1>7. PICK f : /\ \A k \in 0..z : Array(f[k], vsize, Slots)
               /\ Swaps(mem, b, e, j, f) /\ List!Shuffled(mem, b, e, j) = f[z]
  BY ONLY <1>6, ShuffledIn DEF z
<1>8. PICK g : /\ \A k \in 0..z : Array(g[k], vcount, Values)
               /\ Swaps(pushed, b, e, j, g) /\ List!Shuffled(pushed, b, e, j) = g[z]
  BY ONLY <1>6, ShuffledIn DEF z
<1>9. \A k \in 1..z : /\ f[k] = List!Swap(f[k - 1], b + k - 1, j[b + k - 1])
                      /\ g[k] = List!Swap(g[k - 1], b + k - 1, j[b + k - 1])
  BY <1>7, <1>8 DEF Swaps, z
<1> HIDE DEF z
<1> DEFINE Same(k) == \A i \in 1..vcount : f[k][i] = g[k][i]
           T == {k \in Nat : k <= z => Same(k)}
<1>10. 0 \in T
  BY <1>1, <1>7, <1>8 DEF Swaps
<1>11. ASSUME NEW k \in T PROVE k + 1 \in T
  <2>1. SUFFICES ASSUME k + 1 <= z PROVE Same(k + 1)
    OBVIOUS
  <2>2. k + 1 \in 1..z /\ (k + 1) - 1 = k /\ k <= z /\ k \in 0..z /\ Same(k)
    BY <1>4, <2>1
  <2> DEFINE x == b + (k + 1) - 1
             y == j[x]
             fk == f[k]
             gk == g[k]
  <2>3. x \in 1..vcount /\ x \in 1..vsize /\ y \in 1..vcount /\ y \in 1..vsize
    BY <1>5, <2>2
  <2>4. f[k + 1] = List!Swap(fk, x, y) /\ g[k + 1] = List!Swap(gk, x, y)
    BY <1>9, <2>2
  <2>5. Array(fk, vsize, Slots) /\ Array(gk, vcount, Values)
    BY <1>7, <1>8, <2>2
  <2>6. \A i \in 1..vcount : fk[i] = gk[i]
    BY <2>2
  <2> HIDE DEF x, y, fk, gk
  <2>7. \A i \in 1..vsize : List!Swap(fk, x, y)[i] = IF i = y THEN fk[x] ELSE IF i = x THEN fk[y] ELSE fk[i]
    BY ONLY <2>3, <2>5, SwapsIn
  <2>8. \A i \in 1..vcount : List!Swap(gk, x, y)[i] = IF i = y THEN gk[x] ELSE IF i = x THEN gk[y] ELSE gk[i]
    BY ONLY <2>3, <2>5, SwapsIn
  <2>9. \A i \in 1..vcount : i \in 1..vsize
    BY <1>1
  <2>10. QED
    BY <2>3, <2>4, <2>6, <2>7, <2>8, <2>9
<1>12. T = Nat
  <2>1. T \in SUBSET Nat
    OBVIOUS
  <2> HIDE DEF T
  <2>2. QED
    BY <1>10, <1>11, <2>1, Induction
<1>13. Same(z)
  <2> HIDE DEF Same
  <2>1. z <= z
    BY <1>4
  <2>2. z \in T
    BY <1>4, <1>12
  <2>3. QED
    BY <2>1, <2>2
<1>14. mem' = f[z] /\ pushed' = g[z] /\ z \in 0..z
  BY <1>3, <1>4, <1>7, <1>8
<1>15. mem' \in [1..vsize -> Slots] /\ pushed' \in [1..vcount -> Values]
  BY <1>7, <1>14, <1>8 DEF Array
<1>16. \A i \in 1..vcount : mem'[i] = pushed'[i]
  BY <1>13, <1>14
<1>17. QED
  BY <1>1, <1>2, <1>15, <1>16 DEF VectorInv

LEMMA VectorStart == List!Init => VectorInv
<1>1. SUFFICES ASSUME List!Init PROVE VectorInv
  OBVIOUS
<1>2. vsize = 1 /\ vcount = 0 /\ mem = <<"?">> /\ pushed = <<>>
  BY <1>1 DEF List!Init
<1>3. <<>> \in Seq(Values) /\ Len(<<>>) = 0
  OBVIOUS
<1>4. pushed \in [1..0 -> Values]
  BY <1>2, <1>3, Spread
<1>5. mem \in [1..1 -> Slots]
  <2>1. "?" \in Slots
    BY DEF Slots
  <2>2. <<"?">> \in Seq(Slots) /\ Len(<<"?">>) = 1
    BY ONLY <2>1
  <2>3. QED
    BY <1>2, <2>2, Spread
<1>6. QED
  BY <1>2, <1>4, <1>5 DEF VectorInv

LEMMA VectorStep == VectorInv /\ [List!VectorNext]_vector => VectorInv'
<1>1. SUFFICES ASSUME VectorInv, [List!VectorNext]_vector PROVE VectorInv'
  OBVIOUS
<1>2. CASE UNCHANGED vector
  BY <1>1, <1>2 DEF VectorInv, vector
<1>3. CASE List!VectorNext
  <2>1. CASE \E v \in Values : List!PushBack(v)
    BY <1>1, <2>1, VectorPushBack
  <2>2. CASE \E v \in Values, i \in Nat : List!AddRaw(i, v)
    BY <1>1, <2>2, VectorAddRaw
  <2>3. CASE \E i \in Nat : List!RemoveRaw(i)
    BY <1>1, <2>3, VectorRemoveRaw
  <2>4. CASE \E b \in Nat \ {0}, e \in Nat : List!Shuffle(b, e)
    BY <1>1, <2>4, VectorShuffle
  <2>5. CASE List!Fitting
    BY <1>1, <2>5, VectorFitting
  <2>6. CASE List!VectorClear
    BY <1>1, <2>6, VectorClear
  <2>7. \A i \in 0..(MaxCount - 1) : i \in Nat
    BY ListsAssumption
  <2>8. \A i \in 1..MaxCount : i \in Nat \ {0}
    BY ListsAssumption
  <2>9. QED
    BY <1>3, <2>1, <2>2, <2>3, <2>4, <2>5, <2>6, <2>7, <2>8 DEF List!VectorNext
<1>4. QED
  BY <1>1, <1>2, <1>3

-----------------------------------------------------------------------------
LEMMA SimpleGives ==
    ASSUME SimpleInv
    PROVE  \A i \in 1..(Len(list) + 1) :
             List!At(IF i = 1 THEN NULL ELSE list[i - 1]) = IF i <= Len(list) THEN list[i] ELSE NULL
<1>1. SUFFICES ASSUME NEW i \in 1..(Len(list) + 1)
               PROVE  List!At(IF i = 1 THEN NULL ELSE list[i - 1]) = IF i <= Len(list) THEN list[i] ELSE NULL
  OBVIOUS
<1> DEFINE k == i - 1
<1>2. Len(list) \in Nat /\ k \in 0..Len(list) /\ k + 1 = i /\ (k = 0 <=> i = 1) /\ (k < Len(list) <=> i <= Len(list))
  BY LenProperties DEF SimpleInv, Chain
<1>3. Points(head, next, Spot(list, k)) = IF k < Len(list) THEN list[k + 1] ELSE NULL
  BY <1>2 DEF SimpleInv, Chain
<1>4. Spot(list, k) = IF i = 1 THEN NULL ELSE list[i - 1]
  BY <1>2 DEF Spot
<1> HIDE DEF k
<1>5. QED
  BY <1>2, <1>3, <1>4 DEF List!At, Points

LEMMA DoublyGives ==
    ASSUME DoublyInv, NEW n \in Nodes
    PROVE  dprev[dnext[n]] = n /\ dnext[dprev[n]] = n
BY DEF DoublyInv, RingsOf, Both

LEMMA VectorGives ==
    ASSUME VectorInv
    PROVE  vcount <= vsize /\ Len(mem) = vsize /\ SubSeq(mem, 1, vcount) = pushed
<1>1. /\ Len(mem) = vsize /\ Len(pushed) = vcount
      /\ pushed \in Seq(Values) /\ mem \in Seq(Slots) /\ pushed \in Seq(Slots)
  <2>1. \A i \in 1..vcount : pushed[i] \in Slots
    BY DEF VectorInv, Slots
  <2>2. pushed \in [1..vcount -> Slots] /\ vcount \in Nat
    BY <2>1 DEF VectorInv
  <2>3. pushed \in Seq(Slots)
    BY <2>2, IsASeq
  <2>4. QED
    BY <2>3, VectorLength
<1>2. vcount \in 0..Len(mem) /\ \A i \in 1..vcount : mem[i] = pushed[i]
  BY <1>1 DEF VectorInv
<1> DEFINE u == SubSeq(mem, 1, vcount)
<1>3. u \in Seq(Slots) /\ Len(u) = vcount /\ \A i \in 1..vcount : u[i] = mem[i]
  <2>1. \A i \in 1..vcount : 1 + i - 1 = i
    BY <1>2
  <2>2. QED
    BY <1>1, <1>2, <2>1, SubSeqProperties
<1> HIDE DEF u
<1>4. u = pushed
  BY <1>1, <1>2, <1>3, SeqEqual
<1>5. QED
  BY <1>1, <1>2, <1>4 DEF u

LEMMA ListsInvGives == SimpleInv /\ DoublyInv /\ VectorInv => ListsHold
BY SimpleGives, DoublyGives, AllOfTheRing, VectorGives DEF ListsHold, List!ListsHold

LEMMA ListsAlone ==
    /\ ContainersInit => List!Init
    /\ [ContainersNext]_all =>
         [List!SimpleNext]_simple /\ [List!DoublyNext]_doubly /\ [List!VectorNext]_vector
BY DEF ContainersInit, ContainersNext, all, lists, simple, doubly, vector,
       List!SimpleNext, List!DoublyNext, List!VectorNext, List!simple, List!doubly, List!vector

(* The links of a list lead through its nodes in order, those of a ring    *)
(* through its nodes and no others, both ways, so that freeing it stops    *)
(* after each one once, and a vector holds its elements in order within    *)
(* the memory it has (list.c:9-221, vector.c:18-142).                      *)
THEOREM ListsAlways == ContainersSpec => []ListsHold
<1>1. ContainersInit => SimpleInv /\ DoublyInv /\ VectorInv
  BY ListsAlone, SimpleStart, DoublyStart, VectorStart
<1>2. SimpleInv /\ DoublyInv /\ VectorInv /\ [ContainersNext]_all => (SimpleInv /\ DoublyInv /\ VectorInv)'
  BY ListsAlone, SimpleStep, DoublyStep, VectorStep
<1>3. QED
  BY <1>1, <1>2, ListsInvGives, PTL DEF ContainersSpec
=============================================================================
