---------------------------- MODULE PromiseProofs ----------------------------
(***************************************************************************)
(* For any promises, descriptors, delays and bounds: the scheduler of      *)
(* promise.c keeps its three notions of who can run in step, every promise *)
(* that waits can be woken from one place, nobody is freed twice, a wait   *)
(* ends with a promise that has terminated, and no delay ends too soon.    *)
(***************************************************************************)
EXTENDS Promise, FiniteSetTheorems, SequenceTheorems, TLAPS

-----------------------------------------------------------------------------
(* Every set of natural numbers has a least one: the initial segments up   *)
(* to its elements are finite sets, and strict inclusion is well-founded.  *)
LEMMA LeastNatural ==
    ASSUME NEW T \in SUBSET Nat, T # {}
    PROVE  \E n \in T : \A m \in T : n <= m
<1> DEFINE I == {1..n : n \in T}
<1>1. I \subseteq FiniteSubsetsOf(Nat) /\ I # {}
  <2>1. \A n \in T : 1..n \in SUBSET Nat /\ IsFiniteSet(1..n)
    BY FS_Interval
  <2>2. QED
    BY <2>1 DEF FiniteSubsetsOf
<1>2. PICK x \in I : \A y \in I : ~ (<<y, x>> \in StrictSubsetOrdering(Nat))
  <2> HIDE DEF I
  <2>1. QED
    BY <1>1, FS_StrictSubsetOrderingWellFounded, WFMin
<1>3. PICK n \in T : x = 1..n
  OBVIOUS
<1>4. ASSUME NEW m \in T, m < n PROVE FALSE
  <2>1. 1..m \in I
    OBVIOUS
  <2>2. <<1..m, 1..n>> \in StrictSubsetOrdering(Nat)
    <3>1. n \in 1..n /\ n \notin 1..m
      BY <1>4
    <3>2. (1..m) \subseteq (1..n) /\ 1..m # 1..n
      BY <1>4, <3>1
    <3>3. QED
      BY <3>2 DEF StrictSubsetOrdering
  <2>3. QED
    BY <1>2, <1>3, <2>1, <2>2
<1>5. QED
  BY <1>4

(* Induction, for the set of numbers with the property.                    *)
LEMMA Induction ==
    ASSUME NEW T \in SUBSET Nat, 0 \in T, \A n \in T : n + 1 \in T
    PROVE  T = Nat
<1>1. SUFFICES ASSUME T # Nat PROVE FALSE
  OBVIOUS
<1>2. PICK n \in Nat \ T : \A m \in Nat \ T : n <= m
  BY <1>1, LeastNatural
<1>3. n # 0 /\ n - 1 \in Nat
  BY <1>2
<1>4. n - 1 \in T
  BY <1>2, <1>3
<1>5. (n - 1) + 1 = n
  BY <1>3
<1>6. QED
  BY <1>4, <1>5

-----------------------------------------------------------------------------
(* What Kept is built from, one entry after the other.                     *)
KeptStep(seq, S, kept, i) ==
    IF i = 0 THEN <<>>
    ELSE IF seq[i] \in S THEN Append(kept[i - 1], seq[i]) ELSE kept[i - 1]

(* There is a function that keeps the entries of every beginning.          *)
LEMMA KeptExists ==
    ASSUME NEW seq, NEW S, NEW m \in Nat
    PROVE  \E kept : kept = [i \in 0..m |-> KeptStep(seq, S, kept, i)]
<1> DEFINE Upto(n) == \E kept : \A i \in 0..n : kept[i] = KeptStep(seq, S, kept, i)
           T == {n \in Nat : Upto(n)}
<1>1. 0 \in T
  <2> DEFINE kept == [i \in 0..0 |-> <<>>]
  <2>1. \A i \in 0..0 : kept[i] = KeptStep(seq, S, kept, i)
    BY DEF KeptStep
  <2>2. QED
    BY <2>1
<1>2. ASSUME NEW n \in T PROVE n + 1 \in T
  <2>1. PICK kept : \A i \in 0..n : kept[i] = KeptStep(seq, S, kept, i)
    OBVIOUS
  <2> DEFINE longer == [i \in 0..(n + 1) |->
                           IF i <= n THEN kept[i] ELSE KeptStep(seq, S, kept, i)]
  <2>2. ASSUME NEW i \in 0..(n + 1)
        PROVE  longer[i] = KeptStep(seq, S, longer, i)
    <3>1. i # 0 => i - 1 \in 0..(n + 1) /\ i - 1 <= n
      OBVIOUS
    <3>2. KeptStep(seq, S, longer, i) = KeptStep(seq, S, kept, i)
      BY <3>1 DEF KeptStep
    <3>3. i <= n => kept[i] = KeptStep(seq, S, kept, i)
      BY <2>1
    <3>4. QED
      BY <3>2, <3>3
  <2> HIDE DEF longer
  <2>3. QED
    BY <2>2
<1>3. T = Nat
  <2>1. T \in SUBSET Nat
    OBVIOUS
  <2> HIDE DEF T
  <2>2. QED
    BY <1>1, <1>2, <2>1, Induction
<1>4. PICK kept : \A i \in 0..m : kept[i] = KeptStep(seq, S, kept, i)
  BY <1>3
<1> DEFINE cut == [i \in 0..m |-> kept[i]]
<1>5. ASSUME NEW i \in 0..m PROVE cut[i] = KeptStep(seq, S, cut, i)
  <2>1. i # 0 => i - 1 \in 0..m
    OBVIOUS
  <2>2. QED
    BY <1>4, <2>1 DEF KeptStep
<1>6. cut = [i \in 0..m |-> cut[i]]
  OBVIOUS
<1> HIDE DEF cut
<1>7. cut = [i \in 0..m |-> KeptStep(seq, S, cut, i)]
  BY <1>5, <1>6
<1>8. QED
  BY <1>7

(* What is kept of a sequence, in the terms the invariants speak of: its   *)
(* entries, that none is twice that was not, and that all is kept when     *)
(* every entry is in S.                                                    *)
LEMMA KeptProperties ==
    ASSUME NEW D, NEW seq \in Seq(D), NEW S
    PROVE  /\ Kept(seq, S) \in Seq(D)
           /\ ToSet(Kept(seq, S)) = ToSet(seq) \cap S
           /\ IsInjective(seq) => IsInjective(Kept(seq, S))
           /\ ToSet(seq) \subseteq S => Kept(seq, S) = seq
<1> DEFINE m == Len(seq)
           F == CHOOSE kept : kept = [i \in 0..m |-> KeptStep(seq, S, kept, i)]
<1>0. m \in Nat /\ seq \in [1..m -> D]
  OBVIOUS
<1>1. F = [i \in 0..m |-> KeptStep(seq, S, F, i)]
  <2>1. \E kept : kept = [i \in 0..m |-> KeptStep(seq, S, kept, i)]
    BY <1>0, KeptExists
  <2>2. QED
    BY <2>1
<1>2. Kept(seq, S) = F[m]
  BY DEF Kept, KeptStep
<1> HIDE DEF F, m
<1>3. \A i \in 0..m : F[i] = KeptStep(seq, S, F, i)
  BY <1>1
<1>4. F[0] = <<>>
  BY <1>0, <1>3 DEF KeptStep
<1>5. ASSUME NEW i \in 1..m
      PROVE  F[i] = IF seq[i] \in S THEN Append(F[i - 1], seq[i]) ELSE F[i - 1]
  BY <1>0, <1>3 DEF KeptStep
<1> DEFINE Good(i) ==
             /\ F[i] \in Seq(D) /\ Len(F[i]) <= i
             /\ \A j \in 1..Len(F[i]) : \E k \in 1..i : k >= j /\ F[i][j] = seq[k] /\ seq[k] \in S
             /\ \A k \in 1..i : seq[k] \in S => \E j \in 1..Len(F[i]) : F[i][j] = seq[k]
             /\ IsInjective(seq) => \A j, k \in 1..Len(F[i]) : F[i][j] = F[i][k] => j = k
             /\ ToSet(seq) \subseteq S =>
                    Len(F[i]) = i /\ \A j \in 1..i : F[i][j] = seq[j]
           T == {i \in Nat : i <= m => Good(i)}
<1>6. 0 \in T
  <2>1. F[0] \in Seq(D) /\ Len(F[0]) = 0
    BY <1>4
  <2>2. QED
    BY <2>1
<1>7. ASSUME NEW n \in T PROVE n + 1 \in T
  <2>1. SUFFICES ASSUME n + 1 <= m PROVE Good(n + 1)
    OBVIOUS
  <2>2. Good(n) /\ n \in Nat /\ n + 1 \in 1..m
    BY <1>0, <2>1
  <2>3. seq[n + 1] \in D
    BY <1>0, <2>2
  <2>4. CASE seq[n + 1] \notin S
    <3>1. F[n + 1] = F[n]
      BY <1>5, <2>2, <2>4
    <3>2. ~ (ToSet(seq) \subseteq S)
      BY <1>0, <2>2, <2>4 DEF ToSet
    <3>3. QED
      BY <2>2, <2>4, <3>1, <3>2
  <2>5. CASE seq[n + 1] \in S
    <3>1. F[n + 1] = Append(F[n], seq[n + 1])
      <4>1. (n + 1) - 1 = n
        BY <2>2
      <4>2. QED
        BY <1>5, <2>2, <2>5, <4>1
    <3>2. /\ F[n + 1] \in Seq(D) /\ Len(F[n + 1]) = Len(F[n]) + 1
          /\ \A j \in 1..Len(F[n]) : F[n + 1][j] = F[n][j]
          /\ F[n + 1][Len(F[n]) + 1] = seq[n + 1]
          /\ Len(F[n]) \in Nat
      BY <2>2, <2>3, <3>1
    <3>a. n \in Nat /\ n + 1 \in 1..m
      BY <2>2
    <3>b. \A j \in 1..Len(F[n + 1]) : j \in 1..Len(F[n]) \/ j = Len(F[n]) + 1
      BY <3>2
    <3>c. 1..Len(F[n]) \subseteq 1..Len(F[n + 1]) /\ Len(F[n]) + 1 \in 1..Len(F[n + 1])
      BY <3>2
    <3>3. \A j \in 1..Len(F[n + 1]) :
              \E k \in 1..(n + 1) : k >= j /\ F[n + 1][j] = seq[k] /\ seq[k] \in S
      <4>1. ASSUME NEW j \in 1..Len(F[n])
            PROVE  \E k \in 1..(n + 1) : k >= j /\ F[n + 1][j] = seq[k] /\ seq[k] \in S
        <5>1. PICK k \in 1..n : k >= j /\ F[n][j] = seq[k] /\ seq[k] \in S
          BY <2>2
        <5>2. k \in 1..(n + 1)
          BY <3>a
        <5>3. QED
          BY <3>2, <5>1, <5>2
      <4>2. \E k \in 1..(n + 1) :
                k >= Len(F[n]) + 1 /\ F[n + 1][Len(F[n]) + 1] = seq[k] /\ seq[k] \in S
        <5>1. n + 1 \in 1..(n + 1) /\ n + 1 >= Len(F[n]) + 1
          BY <2>2, <3>2
        <5>2. QED
          BY <2>5, <3>2, <5>1
      <4>3. QED
        BY <3>b, <4>1, <4>2
    <3>4. \A k \in 1..(n + 1) :
              seq[k] \in S => \E j \in 1..Len(F[n + 1]) : F[n + 1][j] = seq[k]
      <4>1. ASSUME NEW k \in 1..n, seq[k] \in S
            PROVE  \E j \in 1..Len(F[n + 1]) : F[n + 1][j] = seq[k]
        <5>1. PICK j \in 1..Len(F[n]) : F[n][j] = seq[k]
          BY <2>2, <4>1
        <5>2. QED
          BY <3>2, <3>c, <5>1
      <4>2. \A k \in 1..(n + 1) : k \in 1..n \/ k = n + 1
        BY <3>a
      <4>3. QED
        BY <3>2, <3>c, <4>1, <4>2
    <3>5. ASSUME IsInjective(seq)
          PROVE  \A j, k \in 1..Len(F[n + 1]) : F[n + 1][j] = F[n + 1][k] => j = k
      <4>1. \A j \in 1..Len(F[n]) : F[n + 1][j] # seq[n + 1]
        <5>1. SUFFICES ASSUME NEW j \in 1..Len(F[n]), F[n][j] = seq[n + 1] PROVE FALSE
          BY <3>2
        <5>2. PICK k \in 1..n : F[n][j] = seq[k]
          BY <2>2
        <5>3. k \in DOMAIN seq /\ n + 1 \in DOMAIN seq /\ k # n + 1
          BY <1>0, <3>a
        <5>4. QED
          BY <3>5, <5>1, <5>2, <5>3 DEF IsInjective
      <4>2. \A j, k \in 1..Len(F[n]) : F[n][j] = F[n][k] => j = k
        BY <2>2, <3>5
      <4>3. ASSUME NEW j \in 1..Len(F[n + 1]), NEW k \in 1..Len(F[n + 1]),
                   F[n + 1][j] = F[n + 1][k]
            PROVE  j = k
        <5>1. CASE j \in 1..Len(F[n]) /\ k \in 1..Len(F[n])
          BY ONLY <3>2, <4>2, <4>3, <5>1
        <5>2. CASE j \in 1..Len(F[n]) /\ k = Len(F[n]) + 1
          BY ONLY <3>2, <4>1, <4>3, <5>2
        <5>3. CASE j = Len(F[n]) + 1 /\ k \in 1..Len(F[n])
          BY ONLY <3>2, <4>1, <4>3, <5>3
        <5>4. QED
          BY <3>b, <5>1, <5>2, <5>3
      <4>4. QED
        BY <4>3
    <3>6. ASSUME ToSet(seq) \subseteq S
          PROVE  Len(F[n + 1]) = n + 1 /\ \A j \in 1..(n + 1) : F[n + 1][j] = seq[j]
      <4>1. Len(F[n]) = n /\ \A j \in 1..n : F[n][j] = seq[j]
        BY <2>2, <3>6
      <4>2. QED
        BY <3>2, <3>a, <3>b, <4>1
    <3>7. QED
      BY <2>2, <3>2, <3>3, <3>4, <3>5, <3>6
  <2>6. QED
    BY <2>4, <2>5
<1>8. T = Nat
  <2>1. T \in SUBSET Nat
    OBVIOUS
  <2> HIDE DEF T
  <2>2. QED
    BY <1>6, <1>7, <2>1, Induction
<1>9. Good(m)
  <2> HIDE DEF Good
  <2>1. m \in T
    BY <1>0, <1>8
  <2>2. QED
    BY <2>1, <1>0
<1>10. Kept(seq, S) \in Seq(D) /\ DOMAIN F[m] = 1..Len(F[m]) /\ DOMAIN seq = 1..m
  BY <1>0, <1>2, <1>9
<1>11. ToSet(Kept(seq, S)) = ToSet(seq) \cap S
  <2>1. ToSet(Kept(seq, S)) = {F[m][j] : j \in 1..Len(F[m])}
    BY <1>2, <1>10 DEF ToSet
  <2>2. ToSet(seq) = {seq[j] : j \in 1..m}
    BY <1>10 DEF ToSet
  <2>3. \A j \in 1..Len(F[m]) : \E k \in 1..m : F[m][j] = seq[k] /\ seq[k] \in S
    BY <1>9
  <2>4. \A k \in 1..m : seq[k] \in S => \E j \in 1..Len(F[m]) : F[m][j] = seq[k]
    BY <1>9
  <2>5. ASSUME NEW x \in ToSet(Kept(seq, S)) PROVE x \in ToSet(seq) \cap S
    <3>1. PICK j \in 1..Len(F[m]) : x = F[m][j]
      BY <2>1
    <3>2. QED
      BY <2>2, <2>3, <3>1
  <2>6. ASSUME NEW x \in ToSet(seq) \cap S PROVE x \in ToSet(Kept(seq, S))
    <3>1. PICK k \in 1..m : x = seq[k]
      BY <2>2
    <3>2. QED
      BY <2>1, <2>4, <3>1
  <2>7. QED
    BY <2>5, <2>6
<1>12. IsInjective(seq) => IsInjective(Kept(seq, S))
  BY <1>2, <1>9, <1>10 DEF IsInjective
<1>13. ToSet(seq) \subseteq S => Kept(seq, S) = seq
  <2>1. SUFFICES ASSUME ToSet(seq) \subseteq S PROVE F[m] = seq
    BY <1>2
  <2>2. F[m] \in Seq(D) /\ Len(F[m]) = m /\ \A j \in 1..m : F[m][j] = seq[j]
    BY <1>9, <2>1
  <2>3. QED
    BY <2>2, SeqEqual DEF m
<1>14. QED
  BY <1>10, <1>11, <1>12, <1>13

-----------------------------------------------------------------------------
(* The ring, the status, the counter and the cpu agree, until promise_end. *)
Agree ==
    cpu # NULL =>
      /\ IsInjective(ring) /\ Dp \in ToSet(ring)
      /\ ToSet(ring) = {p \in All : status[p] = "IDLE"}
      /\ rcount = Len(ring)
      /\ cpu = running

(* Every context holds the stack of its own promise.                       *)
OwnContext == \A p \in All : ctx[p] = p

(* Who has yet to be started or has terminated waits for nothing.          *)
Alive(p) == status[p] \in {"IDLE", "STOPPED"}

(* The await vectors and the vectors of the calls that have not returned   *)
(* are two sides of one relation, as long as the awaited is alive.         *)
AwaitersKnown ==
    \A p \in All :
        /\ IsInjective(await[p])
        /\ \A q \in All : q \in ToSet(await[p]) <=> (Alive(p) /\ p \in waitset[q])

WaitersAlive ==
    \A q \in All :
        /\ waitset[q] # {} => Alive(q)
        /\ \A p \in waitset[q] : status[p] # "unborn"

(* Entries of the time queue and registrations belong to promises that     *)
(* have stopped, one to each, and not to one inside await or anyof.        *)
TimersStopped ==
    /\ \A e \in timequeue : status[e[2]] = "STOPPED" /\ waitset[e[2]] = {}
    /\ \A e, f \in timequeue : e[2] = f[2] => e = f

EventsStopped ==
    /\ \A f \in Fds : registered[f] # NULL =>
          /\ status[registered[f]] = "STOPPED" /\ waitset[registered[f]] = {}
          /\ \A e \in timequeue : e[2] # registered[f]
    /\ \A f, g \in Fds : registered[f] # NULL /\ registered[f] = registered[g] => f = g

(* Who has stopped waits for something, and for promises only while they   *)
(* all are alive; who was woken knows the one that terminated.             *)
StoppedWaits ==
    cpu # NULL =>
      \A p \in All : status[p] = "STOPPED" =>
          \/ waitset[p] # {}
          \/ \E e \in timequeue : e[2] = p
          \/ \E f \in Fds : registered[f] = p

AwaitsAlive ==
    \A p \in All : status[p] = "STOPPED" => \A q \in waitset[p] : Alive(q)

WokenKnows ==
    \A p \in All : status[p] = "IDLE" /\ waitset[p] # {} =>
        /\ caller[p] \in waitset[p]
        /\ status[caller[p]] = "TERMINATED"

(* Memory is freed once, and before promise_end only of who has terminated. *)
FreedTerminated ==
    \A p \in All :
        /\ freed[p] <= 1
        /\ cpu # NULL /\ freed[p] = 1 => status[p] = "TERMINATED"

IInv ==
    /\ TypeOK /\ Agree /\ OwnContext
    /\ AwaitersKnown /\ WaitersAlive
    /\ TimersStopped /\ EventsStopped /\ StoppedWaits
    /\ AwaitsAlive /\ WokenKnows /\ FreedTerminated

-----------------------------------------------------------------------------
(* Sequences by their entries.                                             *)
LEMMA Entries ==
    ASSUME NEW D, NEW s \in Seq(D)
    PROVE  /\ ToSet(s) = {s[i] : i \in 1..Len(s)} /\ ToSet(s) \subseteq D
           /\ IsInjective(s) <=> \A i, j \in 1..Len(s) : s[i] = s[j] => i = j
BY DEF ToSet, IsInjective

LEMMA Short ==
    /\ ToSet(<<>>) = {} /\ IsInjective(<<>>) /\ Len(<<>>) = 0
    /\ \A D : <<>> \in Seq(D)
    /\ \A D : \A x \in D : /\ <<x>> \in Seq(D) /\ Len(<<x>>) = 1
                           /\ ToSet(<<x>>) = {x} /\ IsInjective(<<x>>)
<1>1. ToSet(<<>>) = {} /\ IsInjective(<<>>) /\ Len(<<>>) = 0
  BY DEF ToSet, IsInjective
<1>2. ASSUME NEW D, NEW x \in D
      PROVE  /\ <<x>> \in Seq(D) /\ Len(<<x>>) = 1
             /\ ToSet(<<x>>) = {x} /\ IsInjective(<<x>>)
  BY DEF ToSet, IsInjective
<1>3. QED
  BY <1>1, <1>2

LEMMA Joined ==
    ASSUME NEW D, NEW s \in Seq(D), NEW t \in Seq(D)
    PROVE  /\ s \o t \in Seq(D) /\ Len(s \o t) = Len(s) + Len(t)
           /\ ToSet(s \o t) = ToSet(s) \union ToSet(t)
           /\ IsInjective(s) /\ IsInjective(t) /\ ToSet(s) \cap ToSet(t) = {}
                 => IsInjective(s \o t)
           /\ s # <<>> => Head(s \o t) = Head(s) /\ s \o t # <<>>
<1> DEFINE u == s \o t
<1>1. /\ u \in Seq(D) /\ Len(u) = Len(s) + Len(t) /\ Len(s) \in Nat /\ Len(t) \in Nat
      /\ \A i \in 1..Len(u) : u[i] = IF i <= Len(s) THEN s[i] ELSE t[i - Len(s)]
  BY ConcatProperties
<1> HIDE DEF u
<1>2. \A i \in 1..Len(s) : i \in 1..Len(u) /\ u[i] = s[i]
  BY <1>1
<1>3. ASSUME NEW i \in 1..Len(t)
      PROVE  i + Len(s) \in 1..Len(u) /\ u[i + Len(s)] = t[i]
  <2>1. i + Len(s) \in 1..Len(u) /\ ~ (i + Len(s) <= Len(s)) /\ (i + Len(s)) - Len(s) = i
    BY <1>1
  <2>2. u[i + Len(s)] = t[(i + Len(s)) - Len(s)]
    BY ONLY <1>1, <2>1
  <2>3. QED
    BY ONLY <2>1, <2>2
<1>4. \A i \in 1..Len(u) : \/ i \in 1..Len(s) /\ u[i] = s[i]
                           \/ i - Len(s) \in 1..Len(t) /\ u[i] = t[i - Len(s)]
  BY <1>1
<1>5. ToSet(u) = ToSet(s) \union ToSet(t)
  <2>1. /\ ToSet(u) = {u[i] : i \in 1..Len(u)}
        /\ ToSet(s) = {s[i] : i \in 1..Len(s)} /\ ToSet(t) = {t[i] : i \in 1..Len(t)}
    <3>1. ToSet(u) = {u[i] : i \in 1..Len(u)}
      BY <1>1, Entries
    <3>2. ToSet(s) = {s[i] : i \in 1..Len(s)}
      BY Entries
    <3>3. ToSet(t) = {t[i] : i \in 1..Len(t)}
      BY Entries
    <3>4. QED
      BY <3>1, <3>2, <3>3
  <2>2. \A x \in ToSet(u) : x \in ToSet(s) \union ToSet(t)
    BY <2>1, <1>4
  <2>3. \A x \in ToSet(s) : x \in ToSet(u)
    BY <2>1, <1>2
  <2>4. \A x \in ToSet(t) : x \in ToSet(u)
    BY <2>1, <1>3
  <2>5. QED
    BY <2>2, <2>3, <2>4
<1>6. ASSUME IsInjective(s), IsInjective(t), ToSet(s) \cap ToSet(t) = {}
      PROVE  IsInjective(u)
  <2>1. SUFFICES ASSUME NEW i \in 1..Len(u), NEW j \in 1..Len(u), u[i] = u[j]
                 PROVE  i = j
    BY <1>1, Entries
  <2>2. \A k \in 1..Len(s), l \in 1..Len(t) : s[k] # t[l]
    <3>1. ToSet(s) = {s[k] : k \in 1..Len(s)}
      BY Entries
    <3>2. ToSet(t) = {t[k] : k \in 1..Len(t)}
      BY Entries
    <3>3. QED
      BY <1>6, <3>1, <3>2
  <2>3. CASE i \in 1..Len(s) /\ j \in 1..Len(s)
    BY <1>2, <1>6, <2>1, <2>3, Entries
  <2>4. CASE i - Len(s) \in 1..Len(t) /\ j - Len(s) \in 1..Len(t)
    <3>1. t[i - Len(s)] = t[j - Len(s)]
      BY <1>1, <2>1, <2>4
    <3>2. i - Len(s) = j - Len(s)
      BY <3>1, <1>6, <2>4, Entries
    <3>3. QED
      BY <3>2, <1>1
  <2>5. QED
    BY <1>4, <2>1, <2>2, <2>3, <2>4
<1>7. s # <<>> => Head(u) = Head(s) /\ u # <<>>
  BY <1>1
<1>8. QED
  BY <1>1, <1>5, <1>6, <1>7 DEF u

LEMMA JoinedApart ==
    ASSUME NEW D, NEW s \in Seq(D), NEW t \in Seq(D),
           IsInjective(s), IsInjective(t), ToSet(s) \cap ToSet(t) = {}
    PROVE  /\ s \o t \in Seq(D) /\ Len(s \o t) = Len(s) + Len(t)
           /\ ToSet(s \o t) = ToSet(s) \union ToSet(t) /\ IsInjective(s \o t)
  BY Joined

LEMMA WithoutHead ==
    ASSUME NEW D, NEW s \in Seq(D), s # <<>>
    PROVE  /\ Head(s) \in ToSet(s) /\ Head(s) \in D
           /\ Tail(s) \in Seq(D) /\ Len(Tail(s)) = Len(s) - 1
           /\ IsInjective(s) => /\ IsInjective(Tail(s))
                                /\ ToSet(Tail(s)) = ToSet(s) \ {Head(s)}
<1>1. /\ Len(s) \in Nat \ {0} /\ Head(s) = s[1]
      /\ Tail(s) \in Seq(D) /\ Len(Tail(s)) = Len(s) - 1
      /\ \A i \in 1..(Len(s) - 1) : Tail(s)[i] = s[i + 1]
  OBVIOUS
<1>2. Head(s) \in ToSet(s) /\ Head(s) \in D
  BY <1>1, Entries
<1>3. ASSUME IsInjective(s) PROVE IsInjective(Tail(s))
  <2>1. ASSUME NEW i \in 1..(Len(s) - 1), NEW j \in 1..(Len(s) - 1), Tail(s)[i] = Tail(s)[j]
        PROVE  i = j
    <3>1. i + 1 \in 1..Len(s) /\ j + 1 \in 1..Len(s) /\ s[i + 1] = s[j + 1]
      BY <1>1, <2>1
    <3>2. i + 1 = j + 1
      BY <1>3, <3>1, Entries
    <3>3. QED
      BY <3>2
  <2>2. \A i, j \in 1..Len(Tail(s)) : Tail(s)[i] = Tail(s)[j] => i = j
    BY <1>1, <2>1
  <2>3. QED
    BY <1>1, <2>2, Entries
<1>4. ASSUME IsInjective(s) PROVE ToSet(Tail(s)) = ToSet(s) \ {Head(s)}
  <2>1. /\ ToSet(s) = {s[i] : i \in 1..Len(s)}
        /\ ToSet(Tail(s)) = {Tail(s)[i] : i \in 1..(Len(s) - 1)}
    <3>1. ToSet(s) = {s[i] : i \in 1..Len(s)}
      BY Entries
    <3>2. ToSet(Tail(s)) = {Tail(s)[i] : i \in 1..Len(Tail(s))}
      <4>1. DOMAIN Tail(s) = 1..Len(Tail(s))
        BY <1>1
      <4>2. QED
        BY <4>1, Zenon DEF ToSet
    <3>3. QED
      BY <1>1, <3>1, <3>2
  <2>2. ASSUME NEW i \in 1..(Len(s) - 1) PROVE Tail(s)[i] \in ToSet(s) \ {Head(s)}
    <3>1. i + 1 \in 1..Len(s) /\ i + 1 # 1 /\ 1 \in 1..Len(s)
      BY <1>1
    <3>2. QED
      BY <1>1, <1>4, <2>1, <3>1, Entries
  <2>3. ASSUME NEW i \in 1..Len(s), s[i] # Head(s) PROVE s[i] \in ToSet(Tail(s))
    <3>1. i - 1 \in 1..(Len(s) - 1) /\ (i - 1) + 1 = i
      BY <1>1, <2>3
    <3>2. Tail(s)[i - 1] = s[i]
      BY <1>1, <3>1
    <3>3. QED
      BY <2>1, <3>1, <3>2
  <2>4. QED
    BY <2>1, <2>2, <2>3
<1>5. QED
  BY <1>1, <1>2, <1>3, <1>4

-----------------------------------------------------------------------------
(* The variables of the scheduler.                                         *)
SchedulerTypes ==
    /\ ring \in Seq(All) /\ rcount \in Nat
    /\ status \in [All -> {"unborn", "IDLE", "STOPPED", "TERMINATED"}]
    /\ ctx \in [All -> All] /\ cpu \in All \union {NULL}

SchedulerInv == SchedulerTypes /\ Agree /\ OwnContext

(* What the head of a ring with dp_task in it is, and the ring without it. *)
LEMMA RunningFacts ==
    ASSUME SchedulerInv, cpu # NULL
    PROVE  /\ ring # <<>> /\ running = cpu /\ cpu \in All /\ status[cpu] = "IDLE"
           /\ Tail(ring) \in Seq(All) /\ Len(Tail(ring)) = Len(ring) - 1
           /\ IsInjective(Tail(ring)) /\ ToSet(Tail(ring)) = ToSet(ring) \ {cpu}
           /\ Len(ring) \in Nat \ {0}
<1>1. ring # <<>>
  BY Short DEF SchedulerInv, Agree
<1>2. QED
  BY <1>1, WithoutHead DEF SchedulerInv, SchedulerTypes, Agree, running

(* Who runs and has to hand on hands on to the head of the new ring.       *)
LEMMA SwapFacts ==
    ASSUME SchedulerInv, cpu # NULL, NEW next \in All, Swap(running, next)
    PROVE  cpu' = next /\ ctx' = ctx
<1>1. running = cpu /\ ctx[cpu] = cpu /\ ctx[next] = next /\ ctx \in [All -> All]
  BY RunningFacts DEF SchedulerInv, SchedulerTypes, OwnContext
<1>2. CASE cpu = next
  BY <1>1, <1>2 DEF Swap
<1>3. CASE cpu # next
  <2>1. cpu' = ctx[next] /\ ctx' = [ctx EXCEPT ![cpu] = cpu]
    BY <1>1, <1>3 DEF Swap
  <2>2. [ctx EXCEPT ![cpu] = cpu] = ctx
    BY ONLY <1>1
  <2>3. QED
    BY ONLY <1>1, <2>1, <2>2
<1>4. QED
  BY <1>2, <1>3

(* A promise that stops or ends after it has pushed some that had stopped. *)
LEMMA PopFacts ==
    ASSUME SchedulerInv, cpu \notin {Dp, NULL},
           NEW st \in {"STOPPED", "TERMINATED"},
           NEW woken \in Seq(All), IsInjective(woken),
           \A p \in ToSet(woken) : status[p] # "IDLE",
           PopAndSwap(st, woken)
    PROVE  /\ SchedulerInv' /\ cpu' # NULL
           /\ status' = [p \in All |-> IF p = cpu THEN st
                                       ELSE IF p \in ToSet(woken) THEN "IDLE"
                                       ELSE status[p]]
<1> DEFINE rest == Tail(ring) \o woken
<1>1. /\ ring # <<>> /\ running = cpu /\ cpu \in All /\ status[cpu] = "IDLE"
      /\ Tail(ring) \in Seq(All) /\ Len(Tail(ring)) = Len(ring) - 1
      /\ IsInjective(Tail(ring)) /\ ToSet(Tail(ring)) = ToSet(ring) \ {cpu}
      /\ Len(ring) \in Nat \ {0}
  BY RunningFacts
<1>2. ToSet(woken) \cap ToSet(ring) = {} /\ ToSet(woken) \subseteq All
  BY Entries DEF SchedulerInv, Agree
<1>3. Absent(woken) = woken
  BY <1>2, KeptProperties DEF Absent
<1>4. /\ rest \in Seq(All) /\ Len(rest) = Len(ring) - 1 + Len(woken)
      /\ ToSet(rest) = (ToSet(ring) \ {cpu}) \union ToSet(woken)
      /\ IsInjective(rest)
  <2>1. ToSet(Tail(ring)) \cap ToSet(woken) = {}
    BY <1>1, <1>2
  <2>2. /\ rest \in Seq(All) /\ Len(rest) = Len(Tail(ring)) + Len(woken)
        /\ ToSet(rest) = ToSet(Tail(ring)) \union ToSet(woken) /\ IsInjective(rest)
    <3>1. Tail(ring) \in Seq(All) /\ IsInjective(Tail(ring))
      BY <1>1
    <3>2. QED
      BY <2>1, <3>1, JoinedApart
  <2>3. QED
    BY <1>1, <2>2
<1>5. Dp \in ToSet(rest)
  BY <1>4 DEF SchedulerInv, Agree
<1>6. ring' = rest /\ Swap(running, Head(rest)) /\ rcount' = rcount + Len(woken) - 1
  BY <1>3 DEF PopAndSwap
<1> HIDE DEF rest
<1>7. rest # <<>> /\ Head(rest) \in All
  BY <1>4, <1>5, Short, WithoutHead
<1>8. cpu' = Head(rest) /\ ctx' = ctx
  BY <1>6, <1>7, SwapFacts
<1>9. status' = [p \in All |-> IF p = cpu THEN st
                               ELSE IF p \in ToSet(woken) THEN "IDLE" ELSE status[p]]
  BY <1>1, <1>3 DEF PopAndSwap
<1>10. SchedulerTypes'
  <2>1. rcount = Len(ring) /\ Len(woken) \in Nat
    BY DEF SchedulerInv, Agree
  <2>2. rcount' \in Nat
    BY <1>1, <1>6, <2>1
  <2>3. status' \in [All -> {"unborn", "IDLE", "STOPPED", "TERMINATED"}]
    BY <1>9 DEF SchedulerInv, SchedulerTypes
  <2>4. QED
    BY <1>4, <1>6, <1>7, <1>8, <2>2, <2>3 DEF SchedulerInv, SchedulerTypes
<1>11. ToSet(rest) = {p \in All : status'[p] = "IDLE"}
  <2>1. ToSet(ring) = {p \in All : status[p] = "IDLE"} /\ cpu \notin ToSet(woken)
    BY <1>1, <1>2 DEF SchedulerInv, Agree
  <2>2. QED
    BY <1>2, <1>4, <1>9, <2>1
<1>12. Agree'
  <2>1. rcount' = Len(rest)
    BY <1>1, <1>4, <1>6 DEF SchedulerInv, Agree
  <2>2. QED
    BY <1>4, <1>5, <1>6, <1>8, <1>11, <2>1 DEF Agree, running
<1>13. QED
  BY <1>7, <1>8, <1>9, <1>10, <1>12, PromiseAssumption DEF SchedulerInv, OwnContext, All

(* A promise is pushed that is not there yet.                              *)
LEMMA PushFacts ==
    ASSUME SchedulerInv, cpu # NULL, NEW p \in All, status[p] # "IDLE",
           PushAll(<<p>>), UNCHANGED <<ctx, cpu>>
    PROVE  SchedulerInv' /\ status' = [status EXCEPT ![p] = "IDLE"]
<1>1. /\ ring # <<>> /\ running = cpu /\ Len(ring) \in Nat \ {0}
      /\ ring \in Seq(All) /\ IsInjective(ring)
      /\ ToSet(ring) = {q \in All : status[q] = "IDLE"}
      /\ rcount = Len(ring) /\ Dp \in ToSet(ring)
  BY RunningFacts DEF SchedulerInv, SchedulerTypes, Agree
<1>2. <<p>> \in Seq(All) /\ Len(<<p>>) = 1 /\ ToSet(<<p>>) = {p} /\ IsInjective(<<p>>)
  BY Short
<1>3. p \notin ToSet(ring)
  BY <1>1
<1>4. Absent(<<p>>) = <<p>>
  BY <1>2, <1>3, KeptProperties DEF Absent
<1>5. ring' = ring \o <<p>> /\ rcount' = rcount + 1
  BY <1>2, <1>4 DEF PushAll
<1>6. /\ ring' \in Seq(All) /\ Len(ring') = Len(ring) + 1 /\ IsInjective(ring')
      /\ ToSet(ring') = ToSet(ring) \union {p} /\ Head(ring') = Head(ring)
  <2>1. ToSet(ring) \cap ToSet(<<p>>) = {}
    BY <1>2, <1>3
  <2> DEFINE more == <<p>>
  <2>2. more \in Seq(All) /\ Len(more) = 1 /\ ToSet(more) = {p} /\ IsInjective(more)
    BY <1>2
  <2>3. ring' = ring \o more /\ ToSet(ring) \cap ToSet(more) = {}
    BY <1>5, <2>1
  <2> HIDE DEF more
  <2>4. QED
    <3>1. ring \in Seq(All) /\ ring # <<>> /\ more \in Seq(All)
      BY <1>1, <2>2
    <3>2. ring \o more \in Seq(All) /\ Len(ring \o more) = Len(ring) + Len(more)
      BY ONLY <3>1, Joined
    <3>3. ToSet(ring \o more) = ToSet(ring) \union ToSet(more)
      BY ONLY <3>1, Joined
    <3>4. ToSet(ring) \cap ToSet(more) = {} /\ IsInjective(ring) /\ IsInjective(more)
      BY <1>1, <2>2, <2>3
    <3>5. IsInjective(ring \o more) /\ Head(ring \o more) = Head(ring)
      BY ONLY <3>1, <3>4, Joined
    <3>6. QED
      BY <2>2, <2>3, <3>2, <3>3, <3>5
<1>7. status' = [status EXCEPT ![p] = "IDLE"]
  BY <1>2, <1>4 DEF PushAll, SchedulerInv, SchedulerTypes
<1>8. SchedulerTypes'
  BY <1>1, <1>5, <1>6, <1>7 DEF SchedulerInv, SchedulerTypes
<1>9. ToSet(ring') = {q \in All : status'[q] = "IDLE"}
  BY <1>1, <1>6, <1>7 DEF SchedulerInv, SchedulerTypes
<1>10. Agree'
  BY <1>1, <1>5, <1>6, <1>9 DEF Agree, running
<1>11. QED
  BY <1>7, <1>8, <1>10 DEF SchedulerInv, OwnContext

(* Who runs goes to the end of the ring, behind those that it has pushed.  *)
LEMMA RotateFacts ==
    ASSUME SchedulerInv, cpu # NULL,
           NEW woken \in Seq(All), IsInjective(woken),
           \A p \in ToSet(woken) : status[p] # "IDLE",
           ring' = Tail(ring) \o woken \o <<running>>,
           rcount' = rcount + Len(woken),
           status' = [p \in All |-> IF p \in ToSet(woken) THEN "IDLE" ELSE status[p]],
           Swap(running, Head(ring'))
    PROVE  SchedulerInv' /\ cpu' # NULL
<1> DEFINE rest == Tail(ring) \o woken
           last == <<running>>
<1>1. /\ ring # <<>> /\ running = cpu /\ cpu \in All /\ status[cpu] = "IDLE"
      /\ Tail(ring) \in Seq(All) /\ Len(Tail(ring)) = Len(ring) - 1
      /\ IsInjective(Tail(ring)) /\ ToSet(Tail(ring)) = ToSet(ring) \ {cpu}
      /\ Len(ring) \in Nat \ {0}
  BY RunningFacts
<1>2. ToSet(woken) \cap ToSet(ring) = {} /\ ToSet(woken) \subseteq All
  BY Entries DEF SchedulerInv, Agree
<1>3. /\ rest \in Seq(All) /\ Len(rest) = Len(ring) - 1 + Len(woken)
      /\ ToSet(rest) = (ToSet(ring) \ {cpu}) \union ToSet(woken)
      /\ IsInjective(rest)
  <2>1. ToSet(Tail(ring)) \cap ToSet(woken) = {}
    BY <1>1, <1>2
  <2>2. /\ rest \in Seq(All) /\ Len(rest) = Len(Tail(ring)) + Len(woken)
        /\ ToSet(rest) = ToSet(Tail(ring)) \union ToSet(woken) /\ IsInjective(rest)
    <3>1. Tail(ring) \in Seq(All) /\ IsInjective(Tail(ring))
      BY <1>1
    <3>2. QED
      BY <2>1, <3>1, JoinedApart
  <2>3. QED
    BY <1>1, <2>2
<1>4. /\ last \in Seq(All) /\ Len(last) = 1 /\ ToSet(last) = {cpu} /\ IsInjective(last)
  BY <1>1, Short
<1>5. cpu \in ToSet(ring) /\ cpu \notin ToSet(woken)
  BY <1>1, <1>2 DEF SchedulerInv, Agree
<1> HIDE DEF rest, last
<1>6. ring' = rest \o last
  BY DEF rest, last
<1>7. /\ ring' \in Seq(All) /\ Len(ring') = Len(rest) + 1
      /\ ToSet(ring') = ToSet(ring) \union ToSet(woken) /\ IsInjective(ring')
  <2>1. ToSet(rest) \cap ToSet(last) = {}
    BY <1>3, <1>4, <1>5
  <2>2. /\ ring' \in Seq(All) /\ Len(ring') = Len(rest) + Len(last)
        /\ ToSet(ring') = ToSet(rest) \union ToSet(last) /\ IsInjective(ring')
    <3>1. rest \in Seq(All) /\ last \in Seq(All)
      BY <1>3, <1>4
    <3>2. rest \o last \in Seq(All) /\ Len(rest \o last) = Len(rest) + Len(last)
      BY ONLY <3>1, Joined
    <3>3. ToSet(rest \o last) = ToSet(rest) \union ToSet(last)
      BY ONLY <3>1, Joined
    <3>4. IsInjective(rest) /\ IsInjective(last)
      BY <1>3, <1>4
    <3>5. IsInjective(rest \o last)
      BY ONLY <3>1, <3>4, <2>1, Joined
    <3>6. QED
      BY <1>6, <3>2, <3>3, <3>5
  <2>3. QED
    BY <1>3, <1>4, <1>5, <2>2
<1>8. ring' # <<>> /\ Head(ring') \in All
  <2>1. cpu \in ToSet(ring')
    BY <1>5, <1>7
  <2>2. ring' # <<>>
    BY <2>1, Short
  <2>3. QED
    BY <1>7, <2>2, WithoutHead
<1>9. cpu' = Head(ring') /\ ctx' = ctx
  BY <1>8, SwapFacts
<1>10. Len(ring') = Len(ring) + Len(woken) /\ Len(woken) \in Nat
  BY <1>1, <1>3, <1>7
<1>11. SchedulerTypes'
  <2>1. status' \in [All -> {"unborn", "IDLE", "STOPPED", "TERMINATED"}]
    BY DEF SchedulerInv, SchedulerTypes
  <2>2. QED
    BY <1>7, <1>8, <1>9, <1>10, <2>1 DEF SchedulerInv, SchedulerTypes
<1>12. ToSet(ring') = {p \in All : status'[p] = "IDLE"}
  BY <1>2, <1>7 DEF SchedulerInv, Agree
<1>13. Agree'
  BY <1>7, <1>9, <1>10, <1>12 DEF SchedulerInv, Agree, running
<1>14. QED
  BY <1>8, <1>9, <1>11, <1>13, PromiseAssumption DEF SchedulerInv, OwnContext, All

(* A promise stops, and nobody else is pushed.                             *)
LEMMA StopFacts ==
    ASSUME SchedulerInv, cpu \notin {Dp, NULL}, Stop
    PROVE  /\ SchedulerInv' /\ cpu' # NULL /\ cpu \in All /\ running = cpu
           /\ status[cpu] = "IDLE"
           /\ status' = [status EXCEPT ![cpu] = "STOPPED"]
<1> DEFINE nobody == <<>>
<1>1. nobody \in Seq(All) /\ IsInjective(nobody) /\ ToSet(nobody) = {}
  BY Short
<1>2. PopAndSwap("STOPPED", nobody)
  BY DEF Stop
<1> HIDE DEF nobody
<1>3. /\ SchedulerInv' /\ cpu' # NULL
      /\ status' = [p \in All |-> IF p = cpu THEN "STOPPED"
                                  ELSE IF p \in ToSet(nobody) THEN "IDLE"
                                  ELSE status[p]]
  BY <1>1, <1>2, PopFacts
<1>4. cpu \in All /\ running = cpu /\ status[cpu] = "IDLE"
  BY RunningFacts
<1>5. QED
  BY <1>1, <1>3, <1>4 DEF SchedulerInv, SchedulerTypes

-----------------------------------------------------------------------------
(* The invariant beside that of the scheduler.                             *)
OtherTypes ==
    /\ await \in [All -> Seq(All)] /\ caller \in [All -> All \union {NULL}]
    /\ waitset \in [All -> SUBSET Promises]
    /\ timequeue \subseteq (Nat \X All)
    /\ registered \in [Fds -> All \union {NULL}] /\ ready \subseteq Fds
    /\ calls \in [All -> Nat] /\ now \in Nat /\ freed \in [All -> Nat]
    /\ dppc \in {"check", "wait", "poll"} /\ twait \in {"no", "head", "forever"}
    /\ until \in Nat

WaitInv ==
    /\ OtherTypes /\ AwaitersKnown /\ WaitersAlive
    /\ TimersStopped /\ EventsStopped /\ StoppedWaits
    /\ AwaitsAlive /\ WokenKnows /\ FreedTerminated

LEMMA Parts == IInv <=> SchedulerInv /\ WaitInv
BY DEF IInv, SchedulerInv, WaitInv, TypeOK, SchedulerTypes, OtherTypes

(* The names of promises are apart, and nobody is one of them.             *)
LEMMA Names ==
    /\ NULL \notin All /\ Promises \subseteq All /\ Main \in All /\ Dp \in All
    /\ Dp \notin Promises
BY PromiseAssumption DEF All

(* The initial states.                                                     *)
LEMMA InitIInv == Init => IInv
<1> SUFFICES ASSUME Init PROVE SchedulerInv /\ WaitInv
  BY Parts
<1> USE Names, PromiseAssumption DEF Init
<1>1. /\ ring = <<Main, Dp>> /\ ring \in Seq(All) /\ Len(ring) = 2 /\ DOMAIN ring = 1..2
      /\ ring[1] = Main /\ ring[2] = Dp /\ Head(ring) = Main
  OBVIOUS
<1>2. ToSet(ring) = {Main, Dp} /\ IsInjective(ring)
  <2>1. 1..2 = {1, 2}
    OBVIOUS
  <2>2. QED
    BY <1>1, <2>1 DEF ToSet, IsInjective
<1>3. SchedulerInv
  <2>1. SchedulerTypes /\ OwnContext
    BY <1>1 DEF SchedulerTypes, OwnContext
  <2>2. Agree
    BY <1>1, <1>2 DEF Agree, running
  <2>3. QED
    BY <2>1, <2>2 DEF SchedulerInv
<1>4. OtherTypes
  BY Short DEF OtherTypes
<1>5. AwaitersKnown
  BY Short DEF AwaitersKnown
<1>6. WaitersAlive /\ TimersStopped /\ EventsStopped /\ StoppedWaits /\ AwaitsAlive
  BY DEF WaitersAlive, TimersStopped, EventsStopped, StoppedWaits, AwaitsAlive
<1>7. WokenKnows /\ FreedTerminated
  BY DEF WokenKnows, FreedTerminated
<1>8. QED
  BY <1>3, <1>4, <1>5, <1>6, <1>7 DEF WaitInv

-----------------------------------------------------------------------------
(* promise_delay: one entry of the time queue, for one that had none.      *)
LEMMA DelayKeeps == ASSUME IInv, NEW ms \in Delays, Delay(ms) PROVE IInv'
<1> USE Names
<1>1. SchedulerInv /\ WaitInv
  BY Parts
<1>2. /\ SchedulerInv' /\ cpu' # NULL /\ cpu \in All /\ running = cpu
      /\ status[cpu] = "IDLE" /\ status' = [status EXCEPT ![cpu] = "STOPPED"]
      /\ status \in [All -> {"unborn", "IDLE", "STOPPED", "TERMINATED"}]
  BY <1>1, StopFacts DEF Delay, Calls, UserCode, SchedulerInv, SchedulerTypes
<1>3. /\ timequeue' = timequeue \union {<<now + ms, cpu>>} /\ waitset[cpu] = {}
      /\ cpu # NULL
      /\ calls' = [calls EXCEPT ![cpu] = @ - 1] /\ calls[cpu] > 0
      /\ UNCHANGED <<await, caller, waitset, registered, ready, now, dppc, twait, until, freed>>
  BY <1>2 DEF Delay, Calls, UserCode, waits, world, dp
<1>4. OtherTypes'
  <2>1. ms \in Nat
    BY PromiseAssumption
  <2>2. now + ms \in Nat /\ calls' \in [All -> Nat]
    BY <1>1, <1>2, <1>3, <2>1 DEF WaitInv, OtherTypes
  <2>3. QED
    BY <1>1, <1>2, <1>3, <2>2 DEF WaitInv, OtherTypes
<1>5. AwaitersKnown' /\ WaitersAlive'
  BY <1>1, <1>2, <1>3 DEF WaitInv, AwaitersKnown, WaitersAlive, Alive
<1>6. \A e \in timequeue : e[2] # cpu
  BY <1>1, <1>2 DEF WaitInv, TimersStopped
<1>7. \A f \in Fds : registered[f] # cpu
  BY <1>1, <1>2 DEF WaitInv, EventsStopped
<1>8. TimersStopped'
  <2>1. \A e \in timequeue : e[2] \in All
    BY <1>1 DEF WaitInv, OtherTypes
  <2>2. \A e \in timequeue' : e \in timequeue \/ (e = <<now + ms, cpu>> /\ e[2] = cpu)
    BY <1>3
  <2>3. \A e \in timequeue' : status'[e[2]] = "STOPPED" /\ waitset'[e[2]] = {}
    BY <1>1, <1>2, <1>3, <2>1, <2>2 DEF WaitInv, TimersStopped
  <2>4. \A e, f \in timequeue' : e[2] = f[2] => e = f
    BY <1>1, <1>6, <2>2 DEF WaitInv, TimersStopped
  <2>5. QED
    BY <2>3, <2>4 DEF TimersStopped
<1>9. EventsStopped'
  BY <1>1, <1>2, <1>3, <1>7 DEF WaitInv, EventsStopped, OtherTypes
<1>10. StoppedWaits'
  <2>1. <<now + ms, cpu>>[2] = cpu /\ timequeue \subseteq timequeue'
    BY <1>3
  <2>2. \E e \in timequeue' : e[2] = cpu
    BY <1>3, <2>1
  <2>3. QED
    BY <1>1, <1>2, <1>3, <2>1, <2>2 DEF WaitInv, StoppedWaits
<1>11. AwaitsAlive' /\ WokenKnows'
  BY <1>1, <1>2, <1>3 DEF WaitInv, AwaitsAlive, WokenKnows, Alive, WaitersAlive
<1>12. FreedTerminated'
  BY <1>1, <1>2, <1>3 DEF WaitInv, FreedTerminated, UserCode, Delay, Calls
<1>13. QED
  BY <1>2, <1>4, <1>5, <1>8, <1>9, <1>10, <1>11, <1>12, Parts, PTL DEF WaitInv

(* promise_await_fd: one registration, of a descriptor that had none.      *)
LEMMA AwaitFdKeeps ==
    ASSUME IInv, NEW f \in Fds, registered[f] = NULL, AwaitFd(f) PROVE IInv'
<1> USE Names
<1>1. SchedulerInv /\ WaitInv
  BY Parts
<1>2. /\ SchedulerInv' /\ cpu' # NULL /\ cpu \in All /\ running = cpu
      /\ status[cpu] = "IDLE" /\ status' = [status EXCEPT ![cpu] = "STOPPED"]
      /\ status \in [All -> {"unborn", "IDLE", "STOPPED", "TERMINATED"}]
  BY <1>1, StopFacts DEF AwaitFd, Calls, UserCode, SchedulerInv, SchedulerTypes
<1>3. /\ registered' = [registered EXCEPT ![f] = cpu] /\ waitset[cpu] = {}
      /\ calls' = [calls EXCEPT ![cpu] = @ - 1] /\ calls[cpu] > 0 /\ cpu # NULL
      /\ UNCHANGED <<await, caller, waitset, timequeue, ready, now, dppc, twait, until, freed>>
  BY <1>2 DEF AwaitFd, Calls, UserCode, waits, world, dp
<1>4. OtherTypes'
  <2>1. calls' \in [All -> Nat] /\ registered' \in [Fds -> All \union {NULL}]
    BY <1>1, <1>2, <1>3 DEF WaitInv, OtherTypes
  <2>2. QED
    BY <1>1, <1>3, <2>1 DEF WaitInv, OtherTypes
<1>5. AwaitersKnown' /\ WaitersAlive'
  BY <1>1, <1>2, <1>3 DEF WaitInv, AwaitersKnown, WaitersAlive, Alive
<1>6. \A e \in timequeue : e[2] # cpu /\ e[2] \in All
  BY <1>1, <1>2 DEF WaitInv, TimersStopped, OtherTypes
<1>7. \A g \in Fds : registered[g] # cpu
  BY <1>1, <1>2 DEF WaitInv, EventsStopped
<1>8. TimersStopped'
  BY <1>1, <1>2, <1>3, <1>6 DEF WaitInv, TimersStopped
<1>9. EventsStopped'
  <2>1. \A g \in Fds : registered'[g] = IF g = f THEN cpu ELSE registered[g]
    BY <1>1, <1>3 DEF WaitInv, OtherTypes
  <2>2. \A g \in Fds : registered[g] \in All \union {NULL}
    BY <1>1 DEF WaitInv, OtherTypes
  <2>3. \A g, h \in Fds : registered'[g] # NULL /\ registered'[g] = registered'[h] => g = h
    BY <1>1, <1>7, <2>1 DEF WaitInv, EventsStopped
  <2>4. \A g \in Fds : registered'[g] # NULL =>
            /\ status'[registered'[g]] = "STOPPED" /\ waitset'[registered'[g]] = {}
            /\ \A e \in timequeue' : e[2] # registered'[g]
    BY <1>1, <1>2, <1>3, <1>6, <1>7, <2>1, <2>2 DEF WaitInv, EventsStopped
  <2>5. QED
    BY <2>3, <2>4 DEF EventsStopped
<1>10. StoppedWaits'
  <2>1. registered'[f] = cpu /\ \A g \in Fds : registered[g] # NULL => registered'[g] = registered[g]
    BY <1>1, <1>3 DEF WaitInv, OtherTypes
  <2>2. QED
    BY <1>1, <1>2, <1>3, <2>1 DEF WaitInv, StoppedWaits
<1>11. AwaitsAlive' /\ WokenKnows'
  BY <1>1, <1>2, <1>3 DEF WaitInv, AwaitsAlive, WokenKnows, Alive, WaitersAlive
<1>12. FreedTerminated'
  BY <1>1, <1>2, <1>3 DEF WaitInv, FreedTerminated
<1>13. QED
  BY <1>2, <1>4, <1>5, <1>8, <1>9, <1>10, <1>11, <1>12, Parts, PTL DEF WaitInv

(* promise_await and promise_anyof: who stops becomes the last entry of    *)
(* the await vectors of its set, all of whose members are alive.           *)
LEMMA WaitForKeeps ==
    ASSUME IInv, UserCode, Stop,
           NEW S \in SUBSET (Promises \ {cpu}), S # {}, \A p \in S : Alive(p),
           await' = [p \in All |-> IF p \in S THEN Append(await[p], cpu) ELSE await[p]],
           waitset' = [waitset EXCEPT ![cpu] = S],
           caller' \in [All -> All \union {NULL}],
           \A p \in All \ {cpu} : caller'[p] = caller[p],
           calls' \in [All -> Nat],
           UNCHANGED <<timequeue, registered, world, dp, freed>>
    PROVE  IInv'
<1> USE Names
<1>1. SchedulerInv /\ WaitInv
  BY Parts
<1>2. /\ SchedulerInv' /\ cpu' # NULL /\ cpu \in All /\ cpu # NULL
      /\ status[cpu] = "IDLE" /\ status' = [status EXCEPT ![cpu] = "STOPPED"]
      /\ status \in [All -> {"unborn", "IDLE", "STOPPED", "TERMINATED"}]
  BY <1>1, StopFacts DEF UserCode, SchedulerInv, SchedulerTypes
<1>3. /\ waitset[cpu] = {} /\ waitset \in [All -> SUBSET Promises]
      /\ await \in [All -> Seq(All)]
      /\ UNCHANGED <<timequeue, registered, ready, now, dppc, twait, until, freed>>
  BY <1>1 DEF UserCode, world, dp, WaitInv, OtherTypes
<1>4. ASSUME NEW p \in S
      PROVE  /\ Append(await[p], cpu) \in Seq(All)
             /\ ToSet(Append(await[p], cpu)) = ToSet(await[p]) \union {cpu}
             /\ IsInjective(Append(await[p], cpu))
  <2> DEFINE last == <<cpu>>
  <2>1. p \in All /\ await[p] \in Seq(All) /\ IsInjective(await[p])
    BY <1>1, <1>3 DEF WaitInv, AwaitersKnown
  <2>2. cpu \notin ToSet(await[p])
    BY <1>1, <1>2, <1>3, <2>1 DEF WaitInv, AwaitersKnown
  <2>3. last \in Seq(All) /\ ToSet(last) = {cpu} /\ IsInjective(last)
    BY <1>2, Short
  <2>4. Append(await[p], cpu) = await[p] \o last
    <3>1. Append(await[p], cpu) = await[p] \o <<cpu>>
      BY ONLY <1>2, <2>1, AppendIsConcat
    <3>2. QED
      BY <3>1
  <2> HIDE DEF last
  <2>5. ToSet(await[p]) \cap ToSet(last) = {}
    BY <2>2, <2>3
  <2>6. await[p] \o last \in Seq(All) /\ ToSet(await[p] \o last) = ToSet(await[p]) \union ToSet(last)
    BY ONLY <2>1, <2>3, Joined
  <2>7. IsInjective(await[p] \o last)
    BY ONLY <2>1, <2>3, <2>5, Joined
  <2>8. QED
    BY <2>3, <2>4, <2>6, <2>7
<1>5. OtherTypes'
  <2>1. await' \in [All -> Seq(All)]
    BY <1>3, <1>4
  <2>2. waitset' \in [All -> SUBSET Promises]
    BY <1>3
  <2>3. QED
    BY <1>1, <1>3, <2>1, <2>2 DEF WaitInv, OtherTypes
<1>6. AwaitersKnown'
  <2>1. SUFFICES ASSUME NEW p \in All
                 PROVE  /\ IsInjective(await'[p])
                        /\ \A q \in All : q \in ToSet(await'[p]) <=> Alive(p)' /\ p \in waitset'[q]
    BY DEF AwaitersKnown
  <2>2. Alive(p)' <=> Alive(p)
    BY <1>2 DEF Alive
  <2>3. CASE p \in S
    <3>1. await'[p] = Append(await[p], cpu) /\ Alive(p)
      BY <2>3
    <3>2. ASSUME NEW q \in All PROVE p \in waitset'[q] <=> p \in waitset[q] \/ q = cpu
      BY <1>2, <1>3, <2>3
    <3>3. \A q \in All : q \in ToSet(await[p]) <=> Alive(p) /\ p \in waitset[q]
      BY <1>1 DEF WaitInv, AwaitersKnown
    <3>4. /\ ToSet(await'[p]) = ToSet(await[p]) \union {cpu}
          /\ IsInjective(await'[p])
      BY <1>4, <2>3, <3>1
    <3>5. QED
      BY <2>2, <3>1, <3>2, <3>3, <3>4
  <2>4. CASE p \notin S
    <3>1. await'[p] = await[p]
      BY <2>4
    <3>2. ASSUME NEW q \in All PROVE p \in waitset'[q] <=> p \in waitset[q]
      BY <1>3, <2>4
    <3>3. QED
      BY <1>1, <2>2, <3>1, <3>2 DEF WaitInv, AwaitersKnown
  <2>5. QED
    BY <2>3, <2>4
<1>7. WaitersAlive'
  BY <1>1, <1>2, <1>3 DEF WaitInv, WaitersAlive, Alive
<1>8. \A e \in timequeue : e[2] # cpu /\ e[2] \in All
  BY <1>1, <1>2 DEF WaitInv, TimersStopped, OtherTypes
<1>9. \A g \in Fds : registered[g] # cpu /\ registered[g] \in All \union {NULL}
  BY <1>1, <1>2 DEF WaitInv, EventsStopped, OtherTypes
<1>10. TimersStopped'
  BY <1>1, <1>2, <1>3, <1>8 DEF WaitInv, TimersStopped
<1>11. EventsStopped'
  BY <1>1, <1>2, <1>3, <1>8, <1>9 DEF WaitInv, EventsStopped
<1>12. StoppedWaits'
  BY <1>1, <1>2, <1>3 DEF WaitInv, StoppedWaits
<1>13. AwaitsAlive'
  BY <1>1, <1>2, <1>3 DEF WaitInv, AwaitsAlive, Alive
<1>14. WokenKnows'
  BY <1>1, <1>2, <1>3 DEF WaitInv, WokenKnows
<1>15. FreedTerminated'
  BY <1>1, <1>2, <1>3 DEF WaitInv, FreedTerminated
<1>16. QED
  BY <1>2, <1>5, <1>6, <1>7, <1>10, <1>11, <1>12, <1>13, <1>14, <1>15, Parts, PTL DEF WaitInv

LEMMA AwaitKeeps == ASSUME IInv, NEW p \in Promises, Await(p) PROVE IInv'
<1> DEFINE S == {p}
<1>1. /\ UserCode /\ Stop /\ running = cpu /\ cpu \in All /\ p # cpu /\ Alive(p)
      /\ await' = [await EXCEPT ![p] = Append(@, cpu)]
      /\ caller' = [caller EXCEPT ![cpu] = NULL]
      /\ calls' = [calls EXCEPT ![cpu] = @ - 1] /\ calls[cpu] > 0
      /\ waitset' = [waitset EXCEPT ![cpu] = S]
      /\ UNCHANGED <<timequeue, registered, world, dp, freed>>
  <2>1. SchedulerInv /\ cpu # NULL
    BY Parts DEF Await, Calls, UserCode
  <2>2. running = cpu /\ cpu \in All
    BY <2>1, RunningFacts
  <2>3. QED
    BY <2>2 DEF Await, Calls, Alive
<1>2. /\ await \in [All -> Seq(All)] /\ caller \in [All -> All \union {NULL}]
      /\ calls \in [All -> Nat]
  BY Parts DEF WaitInv, OtherTypes
<1>3. await' = [q \in All |-> IF q \in S THEN Append(await[q], cpu) ELSE await[q]]
  BY <1>1, <1>2
<1>4. /\ caller' \in [All -> All \union {NULL}] /\ calls' \in [All -> Nat]
      /\ \A q \in All \ {cpu} : caller'[q] = caller[q]
  BY <1>1, <1>2
<1>5. S \in SUBSET (Promises \ {cpu}) /\ S # {} /\ \A q \in S : Alive(q)
  BY <1>1
<1> HIDE DEF S
<1>6. QED
  BY <1>1, <1>3, <1>4, <1>5, WaitForKeeps

LEMMA AnyOfKeeps ==
    ASSUME IInv, NEW S \in Vectors, Unfinished(S) = S, AnyOf(S) PROVE IInv'
<1>1. /\ UserCode /\ Stop /\ running = cpu /\ cpu \in All
      /\ S \in SUBSET (Promises \ {cpu}) /\ S # {}
      /\ await' = [q \in All |-> IF q \in S THEN Append(await[q], cpu) ELSE await[q]]
      /\ calls' = [calls EXCEPT ![cpu] = @ - 1] /\ calls[cpu] > 0
      /\ waitset' = [waitset EXCEPT ![cpu] = S]
      /\ caller' = caller
      /\ UNCHANGED <<timequeue, registered, world, dp, freed>>
  <2>1. SchedulerInv /\ cpu # NULL
    BY Parts DEF AnyOf, Calls, UserCode
  <2>2. running = cpu /\ cpu \in All
    BY <2>1, RunningFacts
  <2>3. QED
    BY <2>2 DEF AnyOf, Calls, Vectors
<1>2. \A p \in S : Alive(p)
  <2>1. \A p \in S : p \in All /\ status[p] # "unborn" /\ status[p] # "TERMINATED"
    BY Names DEF Vectors, Unfinished
  <2>2. QED
    BY <2>1, Parts DEF SchedulerInv, SchedulerTypes, Alive
<1>3. /\ caller' \in [All -> All \union {NULL}] /\ calls' \in [All -> Nat]
      /\ \A q \in All \ {cpu} : caller'[q] = caller[q]
  BY <1>1, Parts DEF WaitInv, OtherTypes
<1>4. QED
  BY <1>1, <1>2, <1>3, WaitForKeeps

(* The wait is over: its entries leave the await vectors.                  *)
LEMMA AwaitReturnsKeeps == ASSUME IInv, AwaitReturns PROVE IInv'
<1> USE Names
<1>1. SchedulerInv /\ WaitInv
  BY Parts
<1>2. /\ cpu \in All /\ cpu # NULL /\ status[cpu] = "IDLE"
      /\ await \in [All -> Seq(All)] /\ waitset \in [All -> SUBSET Promises]
      /\ waitset' = [waitset EXCEPT ![cpu] = {}]
      /\ await' = [p \in All |-> IF p \in waitset[cpu] THEN Kept(await[p], All \ {cpu})
                                 ELSE await[p]]
      /\ UNCHANGED <<scheduler, caller, calls, timequeue, registered, world, dp, freed>>
  BY <1>1, RunningFacts DEF AwaitReturns, WaitInv, OtherTypes
<1>3. SchedulerInv'
  BY <1>1, <1>2 DEF scheduler, SchedulerInv, SchedulerTypes, Agree, OwnContext, running
<1>4. ASSUME NEW p \in All
      PROVE  /\ await'[p] \in Seq(All) /\ IsInjective(await'[p])
             /\ \A q \in All : q \in ToSet(await'[p]) <=> Alive(p) /\ p \in waitset'[q]
  <2>1. await[p] \in Seq(All) /\ IsInjective(await[p])
    BY <1>1, <1>2 DEF WaitInv, AwaitersKnown
  <2>2. \A q \in All : q \in ToSet(await[p]) <=> Alive(p) /\ p \in waitset[q]
    BY <1>1 DEF WaitInv, AwaitersKnown
  <2>3. \A q \in All : waitset'[q] = IF q = cpu THEN {} ELSE waitset[q]
    BY <1>2
  <2>4. CASE p \in waitset[cpu]
    <3> DEFINE others == All \ {cpu}
               kept == Kept(await[p], others)
    <3>1. await'[p] = kept
      BY <1>2, <2>4
    <3> HIDE DEF others
    <3>2. kept \in Seq(All) /\ ToSet(kept) = ToSet(await[p]) \cap others /\ IsInjective(kept)
      BY <2>1, KeptProperties
    <3> HIDE DEF kept
    <3>3. QED
      BY <2>2, <2>3, <3>1, <3>2 DEF others
  <2>5. CASE p \notin waitset[cpu]
    <3>1. await'[p] = await[p]
      BY <1>2, <2>5
    <3>2. QED
      BY <2>1, <2>2, <2>3, <2>5, <3>1
  <2>6. QED
    BY <2>4, <2>5
<1>5. status' = status /\ UNCHANGED <<caller, calls, timequeue, registered, ready, now, dppc, twait, until, freed, cpu>>
  BY <1>2 DEF scheduler, world, dp
<1>6. OtherTypes'
  <2>1. await' \in [All -> Seq(All)]
    BY <1>2, <1>4
  <2>2. waitset' \in [All -> SUBSET Promises]
    BY <1>2
  <2>3. QED
    BY <1>1, <1>5, <2>1, <2>2 DEF WaitInv, OtherTypes
<1>7. AwaitersKnown'
  BY <1>4, <1>5 DEF AwaitersKnown, Alive
<1>8. \A q \in All : waitset'[q] = IF q = cpu THEN {} ELSE waitset[q]
  BY <1>2
<1>9. WaitersAlive' /\ AwaitsAlive' /\ WokenKnows'
  BY <1>1, <1>5, <1>8 DEF WaitInv, WaitersAlive, AwaitsAlive, WokenKnows, Alive
<1>10. TimersStopped' /\ EventsStopped'
  <2>1. \A e \in timequeue : e[2] \in All
    BY <1>1 DEF WaitInv, OtherTypes
  <2>2. \A f \in Fds : registered[f] \in All \union {NULL}
    BY <1>1 DEF WaitInv, OtherTypes
  <2>3. TimersStopped'
    BY <1>1, <1>5, <1>8, <2>1 DEF WaitInv, TimersStopped
  <2>4. QED
    BY <1>1, <1>5, <1>8, <2>2, <2>3 DEF WaitInv, EventsStopped
<1>11. StoppedWaits'
  BY <1>1, <1>2, <1>5, <1>8 DEF WaitInv, StoppedWaits
<1>12. FreedTerminated'
  BY <1>1, <1>5 DEF WaitInv, FreedTerminated
<1>13. QED
  BY <1>3, <1>6, <1>7, <1>9, <1>10, <1>11, <1>12, Parts, PTL DEF WaitInv

(* The waiters that a promise wakes when it ends are those that wait for   *)
(* it and have stopped.                                                    *)
LEMMA WaitersFacts ==
    ASSUME IInv, UserCode
    PROVE  /\ Waiters \in Seq(All) /\ IsInjective(Waiters)
           /\ \A q \in All : q \in ToSet(Waiters) <=>
                  cpu \in waitset[q] /\ status[q] = "STOPPED"
           /\ ToSet(Waiters) \subseteq All
<1>1. SchedulerInv /\ WaitInv /\ cpu # NULL
  BY Parts DEF UserCode
<1>2. cpu \in All /\ status[cpu] = "IDLE" /\ await \in [All -> Seq(All)]
  BY <1>1, RunningFacts DEF WaitInv, OtherTypes
<1>3. /\ await[cpu] \in Seq(All) /\ IsInjective(await[cpu])
      /\ \A q \in All : q \in ToSet(await[cpu]) <=> cpu \in waitset[q]
  BY <1>1, <1>2 DEF WaitInv, AwaitersKnown, Alive
<1> DEFINE stopped == {p \in All : status[p] = "STOPPED"}
<1>4. Waiters = Kept(await[cpu], stopped)
  BY DEF Waiters
<1> HIDE DEF stopped
<1>5. /\ Waiters \in Seq(All) /\ IsInjective(Waiters)
      /\ ToSet(Waiters) = ToSet(await[cpu]) \cap stopped
  BY <1>3, <1>4, KeptProperties
<1>6. QED
  BY <1>3, <1>5 DEF stopped

(* A promise ends: its waiters run again and know whom they waited for.    *)
LEMMA ReturnKeeps == ASSUME IInv, Return PROVE IInv'
<1> USE Names
<1>1. SchedulerInv /\ WaitInv /\ UserCode /\ cpu \notin {Dp, NULL}
  BY Parts DEF Return, UserCode
<1>2. /\ cpu \in All /\ running = cpu /\ status[cpu] = "IDLE" /\ waitset[cpu] = {}
      /\ await \in [All -> Seq(All)] /\ caller \in [All -> All \union {NULL}]
      /\ status \in [All -> {"unborn", "IDLE", "STOPPED", "TERMINATED"}]
  BY <1>1, RunningFacts DEF UserCode, WaitInv, OtherTypes, SchedulerInv, SchedulerTypes
<1> DEFINE W == ToSet(Waiters)
<1>3. /\ Waiters \in Seq(All) /\ IsInjective(Waiters) /\ W \subseteq All
      /\ \A q \in All : q \in W <=> cpu \in waitset[q] /\ status[q] = "STOPPED"
  BY <1>1, WaitersFacts
<1> HIDE DEF W
<1>4. /\ SchedulerInv' /\ cpu' # NULL
      /\ status' = [p \in All |-> IF p = cpu THEN "TERMINATED"
                                  ELSE IF p \in W THEN "IDLE" ELSE status[p]]
  <2>1. \A q \in ToSet(Waiters) : status[q] # "IDLE"
    BY <1>3 DEF W
  <2>2. PopAndSwap("TERMINATED", Waiters)
    BY DEF Return
  <2>3. QED
    BY <1>1, <1>3, <2>1, <2>2, PopFacts DEF W
<1>5. /\ caller' = [p \in All |-> IF p \in W THEN cpu ELSE caller[p]]
      /\ await' = [await EXCEPT ![cpu] = <<>>]
      /\ UNCHANGED <<waitset, calls, timequeue, registered, ready, now, dppc, twait, until, freed>>
  BY <1>2 DEF Return, W, world, dp
<1>6. OtherTypes'
  <2>1. await' \in [All -> Seq(All)] /\ caller' \in [All -> All \union {NULL}]
    BY <1>2, <1>5, Short
  <2>2. QED
    BY <1>1, <1>5, <2>1 DEF WaitInv, OtherTypes
<1>7. \A p \in All : p # cpu => (Alive(p)' <=> Alive(p))
  BY <1>2, <1>3, <1>4 DEF Alive
<1>8. status'[cpu] = "TERMINATED"
  BY <1>2, <1>4
<1>9. AwaitersKnown'
  <2>1. SUFFICES ASSUME NEW p \in All
                 PROVE  /\ IsInjective(await'[p])
                        /\ \A q \in All : q \in ToSet(await'[p]) <=> Alive(p)' /\ p \in waitset'[q]
    BY DEF AwaitersKnown
  <2>2. CASE p = cpu
    <3>1. await'[p] = <<>>
      BY <1>2, <1>5, <2>2
    <3>2. ~ Alive(p)'
      BY <1>8, <2>2 DEF Alive
    <3>3. QED
      BY <3>1, <3>2, Short
  <2>3. CASE p # cpu
    <3>1. await'[p] = await[p] /\ waitset' = waitset
      BY <1>2, <1>5, <2>3
    <3>2. QED
      BY <1>1, <1>7, <2>3, <3>1 DEF WaitInv, AwaitersKnown
  <2>4. QED
    BY <2>2, <2>3
<1>10. WaitersAlive'
  BY <1>1, <1>2, <1>3, <1>4, <1>5, <1>7 DEF WaitInv, WaitersAlive, OtherTypes
<1>11. TimersStopped'
  <2>1. \A e \in timequeue : e[2] \in All /\ e[2] # cpu /\ e[2] \notin W
    BY <1>1, <1>2, <1>3 DEF WaitInv, OtherTypes, TimersStopped
  <2>2. QED
    BY <1>1, <1>4, <1>5, <2>1 DEF WaitInv, TimersStopped
<1>12. EventsStopped'
  <2>1. \A f \in Fds : registered[f] # NULL =>
            registered[f] \in All /\ registered[f] # cpu /\ registered[f] \notin W
    BY <1>1, <1>2, <1>3 DEF WaitInv, OtherTypes, EventsStopped
  <2>2. QED
    BY <1>1, <1>4, <1>5, <2>1 DEF WaitInv, EventsStopped
<1>13. StoppedWaits'
  BY <1>1, <1>4, <1>5 DEF WaitInv, StoppedWaits
<1>14. AwaitsAlive'
  BY <1>1, <1>3, <1>4, <1>5, <1>7 DEF WaitInv, AwaitsAlive, OtherTypes
<1>15. WokenKnows'
  <2>1. SUFFICES ASSUME NEW p \in All, status'[p] = "IDLE", waitset[p] # {}
                 PROVE  caller'[p] \in waitset[p] /\ status'[caller'[p]] = "TERMINATED"
    BY <1>5 DEF WokenKnows
  <2>2. CASE p \in W
    BY <1>2, <1>3, <1>5, <1>8, <2>2
  <2>3. CASE p \notin W
    <3>1. status[p] = "IDLE" /\ caller'[p] = caller[p]
      BY <1>4, <1>5, <2>1, <2>3
    <3>2. caller[p] \in waitset[p] /\ status[caller[p]] = "TERMINATED" /\ caller[p] \in All
      BY <1>1, <2>1, <3>1 DEF WaitInv, WokenKnows, OtherTypes
    <3>3. QED
      BY <1>3, <1>4, <3>1, <3>2
  <2>4. QED
    BY <2>2, <2>3
<1>16. FreedTerminated'
  BY <1>1, <1>2, <1>3, <1>4, <1>5 DEF WaitInv, FreedTerminated
<1>17. QED
  BY <1>4, <1>6, <1>9, <1>10, <1>11, <1>12, <1>13, <1>14, <1>15, <1>16, Parts, PTL DEF WaitInv

-----------------------------------------------------------------------------
(* Steps that wake none or some of those that wait for a time or an event, *)
(* each out of the one place that knows it, and leave the waits for        *)
(* promises alone.                                                         *)
LEMMA WakeKeeps ==
    ASSUME IInv, SchedulerInv', OtherTypes', cpu' # NULL => cpu # NULL,
           NEW W \in SUBSET All,
           \A p \in W : status[p] = "STOPPED" /\ waitset[p] = {},
           status' = [p \in All |-> IF p \in W THEN "IDLE" ELSE status[p]],
           timequeue' = {e \in timequeue : e[2] \notin W},
           \A f \in Fds : registered'[f] = IF registered[f] \in W THEN NULL ELSE registered[f],
           UNCHANGED <<await, caller, waitset, freed>>
    PROVE  IInv'
<1> USE Names
<1>1. SchedulerInv /\ WaitInv
  BY Parts
<1>2. \A p \in All : /\ Alive(p)' <=> Alive(p)
                     /\ p \in W => status[p] = "STOPPED"
                     /\ p \notin W => status'[p] = status[p]
                     /\ status'[p] = "STOPPED" => status[p] = "STOPPED" /\ p \notin W
  BY DEF Alive
<1>3. await' = await /\ caller' = caller /\ waitset' = waitset /\ freed' = freed
  OBVIOUS
<1>4. AwaitersKnown'
  BY <1>1, <1>2, <1>3 DEF WaitInv, AwaitersKnown
<1>5. WaitersAlive'
  <2>1. \A q \in All : waitset[q] \subseteq All
    BY <1>1 DEF WaitInv, OtherTypes
  <2>2. \A p \in All : status[p] # "unborn" => status'[p] # "unborn"
    BY <1>2
  <2>3. QED
    BY <1>1, <1>2, <1>3, <2>1, <2>2 DEF WaitInv, WaitersAlive
<1>6. TimersStopped'
  <2>1. \A e \in timequeue' : e \in timequeue /\ e[2] \in All /\ e[2] \notin W
    BY <1>1 DEF WaitInv, OtherTypes
  <2>2. \A e \in timequeue : status[e[2]] = "STOPPED" /\ waitset[e[2]] = {}
    BY <1>1 DEF WaitInv, TimersStopped
  <2>3. \A e, f \in timequeue : e[2] = f[2] => e = f
    BY <1>1 DEF WaitInv, TimersStopped
  <2>4. QED
    BY <1>2, <1>3, <2>1, <2>2, <2>3 DEF TimersStopped
<1>7. EventsStopped'
  <2>1. ASSUME NEW f \in Fds, registered'[f] # NULL
        PROVE  /\ registered'[f] = registered[f] /\ registered[f] # NULL
               /\ registered[f] \in All /\ registered[f] \notin W
    BY <1>1, <2>1 DEF WaitInv, OtherTypes
  <2>2. \A e \in timequeue' : e \in timequeue
    OBVIOUS
  <2>3. ASSUME NEW f \in Fds, registered'[f] # NULL
        PROVE  /\ status'[registered'[f]] = "STOPPED" /\ waitset'[registered'[f]] = {}
               /\ \A e \in timequeue' : e[2] # registered'[f]
    <3>1. /\ status[registered[f]] = "STOPPED" /\ waitset[registered[f]] = {}
          /\ \A e \in timequeue : e[2] # registered[f]
      BY <1>1, <2>1, <2>3 DEF WaitInv, EventsStopped
    <3>2. QED
      BY <1>2, <1>3, <2>1, <2>2, <2>3, <3>1
  <2>4. ASSUME NEW f \in Fds, NEW g \in Fds, registered'[f] # NULL, registered'[f] = registered'[g]
        PROVE  f = g
    <3>1. registered[f] # NULL /\ registered[f] = registered[g]
      BY <2>1, <2>4
    <3>2. QED
      BY <1>1, <3>1 DEF WaitInv, EventsStopped
  <2>5. QED
    BY <2>3, <2>4 DEF EventsStopped
<1>8. StoppedWaits'
  <2>1. SUFFICES ASSUME cpu' # NULL, NEW p \in All, status'[p] = "STOPPED"
                 PROVE  \/ waitset'[p] # {}
                        \/ \E e \in timequeue' : e[2] = p
                        \/ \E f \in Fds : registered'[f] = p
    BY DEF StoppedWaits
  <2>2. cpu # NULL /\ status[p] = "STOPPED" /\ p \notin W
    BY <1>2, <2>1
  <2>3. CASE waitset[p] # {}
    BY <1>3, <2>3
  <2>4. CASE \E e \in timequeue : e[2] = p
    BY <2>2, <2>4
  <2>5. CASE \E f \in Fds : registered[f] = p
    BY <2>2, <2>5
  <2>6. QED
    BY <1>1, <2>2, <2>3, <2>4, <2>5 DEF WaitInv, StoppedWaits
<1>9. AwaitsAlive'
  <2>1. \A q \in All : waitset[q] \subseteq All
    BY <1>1 DEF WaitInv, OtherTypes
  <2>2. QED
    BY <1>1, <1>2, <1>3, <2>1 DEF WaitInv, AwaitsAlive
<1>10. WokenKnows'
  <2>1. SUFFICES ASSUME NEW p \in All, status'[p] = "IDLE", waitset[p] # {}
                 PROVE  caller[p] \in waitset[p] /\ status'[caller[p]] = "TERMINATED"
    BY <1>3 DEF WokenKnows
  <2>2. p \notin W /\ status[p] = "IDLE"
    BY <1>2, <2>1
  <2>3. caller[p] \in waitset[p] /\ status[caller[p]] = "TERMINATED" /\ caller[p] \in All
    BY <1>1, <2>1, <2>2 DEF WaitInv, WokenKnows, OtherTypes
  <2>4. QED
    BY <1>2, <2>3
<1>11. FreedTerminated'
  BY <1>1, <1>2, <1>3 DEF WaitInv, FreedTerminated
<1>12. QED
  BY <1>4, <1>5, <1>6, <1>7, <1>8, <1>9, <1>10, <1>11, Parts, PTL DEF WaitInv

(* Nobody is woken, and only the order of the ring changes, or neither.    *)
LEMMA IdleKeeps ==
    ASSUME IInv, SchedulerInv', OtherTypes', cpu' # NULL => cpu # NULL,
           UNCHANGED <<status, timequeue, registered, await, caller, waitset, freed>>
    PROVE  IInv'
<1> DEFINE W == {}
<1>1. SchedulerInv /\ WaitInv
  BY Parts
<1>2. W \in SUBSET All /\ \A p \in W : status[p] = "STOPPED" /\ waitset[p] = {}
  OBVIOUS
<1>3. status' = [p \in All |-> IF p \in W THEN "IDLE" ELSE status[p]]
  BY <1>1 DEF SchedulerInv, SchedulerTypes
<1>4. timequeue' = {e \in timequeue : e[2] \notin W}
  OBVIOUS
<1>5. \A f \in Fds : registered'[f] = IF registered[f] \in W THEN NULL ELSE registered[f]
  OBVIOUS
<1> HIDE DEF W
<1>6. UNCHANGED <<await, caller, waitset, freed>>
  OBVIOUS
<1>7. QED
  BY <1>2, <1>3, <1>4, <1>5, <1>6, WakeKeeps

(* The scheduler is left alone.                                            *)
LEMMA SchedulerStays == ASSUME SchedulerInv, UNCHANGED scheduler PROVE SchedulerInv'
BY DEF scheduler, SchedulerInv, SchedulerTypes, Agree, OwnContext, running

(* The one that runs goes to the end of the ring, and nobody is pushed.    *)
LEMMA RotateAlone ==
    ASSUME SchedulerInv, cpu # NULL, ring' = Rotate, Swap(running, Head(ring')),
           UNCHANGED <<rcount, status>>
    PROVE  SchedulerInv' /\ cpu' # NULL
<1> DEFINE nobody == <<>>
<1>1. nobody \in Seq(All) /\ IsInjective(nobody) /\ ToSet(nobody) = {} /\ Len(nobody) = 0
  BY Short
<1>2. Tail(ring) \in Seq(All) /\ rcount \in Nat
  BY RunningFacts DEF SchedulerInv, SchedulerTypes
<1>3. Tail(ring) \o nobody = Tail(ring)
  BY <1>2, ConcatEmptySeq
<1> HIDE DEF nobody
<1>4. ring' = Tail(ring) \o nobody \o <<running>>
  BY <1>3 DEF Rotate
<1>5. rcount' = rcount + Len(nobody)
  BY <1>1, <1>2
<1>6. status' = [p \in All |-> IF p \in ToSet(nobody) THEN "IDLE" ELSE status[p]]
  BY <1>1 DEF SchedulerInv, SchedulerTypes
<1>7. QED
  BY <1>1, <1>4, <1>5, <1>6, RotateFacts

LEMMA YieldKeeps == ASSUME IInv, Yield PROVE IInv'
<1>1. SchedulerInv /\ WaitInv /\ cpu # NULL
  BY Parts DEF Yield, UserCode
<1>2. SchedulerInv' /\ cpu' # NULL
  BY <1>1, RotateAlone DEF Yield
<1>3. OtherTypes'
  BY <1>1 DEF Yield, WaitInv, OtherTypes, waits, world, dp
<1>4. UNCHANGED <<status, timequeue, registered, await, caller, waitset, freed>>
  BY DEF Yield, waits
<1>5. QED
  BY <1>1, <1>2, <1>3, <1>4, IdleKeeps

LEMMA ReadFdKeeps == ASSUME IInv, NEW f \in Fds, ReadFd(f) PROVE IInv'
<1>1. SchedulerInv /\ WaitInv /\ cpu # NULL
  BY Parts DEF ReadFd, Calls, UserCode
<1>2. SchedulerInv' /\ cpu' = cpu
  BY <1>1, SchedulerStays DEF ReadFd, scheduler
<1>3. cpu \in All /\ calls \in [All -> Nat]
  BY <1>1, RunningFacts DEF WaitInv, OtherTypes
<1>4. calls' \in [All -> Nat]
  BY <1>3 DEF ReadFd, Calls
<1>5. OtherTypes'
  BY <1>1, <1>4 DEF ReadFd, Calls, WaitInv, OtherTypes, waits, dp
<1>6. UNCHANGED <<status, timequeue, registered, await, caller, waitset, freed>>
  BY DEF ReadFd, scheduler, waits
<1>7. QED
  BY <1>2, <1>5, <1>6, IdleKeeps

(* promise_start: the new one had no wait and nobody waited for it.        *)
LEMMA StartKeeps == ASSUME IInv, NEW p \in Promises, Start(p) PROVE IInv'
<1> USE Names
<1>1. SchedulerInv /\ WaitInv /\ cpu # NULL /\ p \in All
  BY Parts DEF Start, UserCode
<1>2. SchedulerInv' /\ status' = [status EXCEPT ![p] = "IDLE"] /\ status[p] = "unborn"
  BY <1>1, PushFacts DEF Start
<1>3. /\ UNCHANGED <<await, caller, waitset, calls, timequeue, registered, ready, now,
                     dppc, twait, until, freed, cpu>>
      /\ status \in [All -> {"unborn", "IDLE", "STOPPED", "TERMINATED"}]
  BY <1>1 DEF Start, waits, world, dp, SchedulerInv, SchedulerTypes
<1>4. \A q \in All : q # p => status'[q] = status[q]
  BY <1>2, <1>3
<1>5. status'[p] = "IDLE"
  BY <1>1, <1>2, <1>3
<1>6. OtherTypes'
  BY <1>1, <1>3 DEF WaitInv, OtherTypes
<1>7. waitset[p] = {} /\ \A q \in All : p \notin waitset[q] /\ waitset[q] \subseteq All
  BY <1>1, <1>2 DEF WaitInv, WaitersAlive, Alive, OtherTypes
<1>8. AwaitersKnown'
  BY <1>1, <1>2, <1>3, <1>4, <1>7 DEF WaitInv, AwaitersKnown, Alive
<1>9. WaitersAlive' /\ AwaitsAlive'
  BY <1>1, <1>3, <1>4, <1>5, <1>7 DEF WaitInv, WaitersAlive, AwaitsAlive, Alive
<1>10. TimersStopped'
  <2>1. \A e \in timequeue : e[2] \in All /\ e[2] # p
    BY <1>1, <1>2 DEF WaitInv, OtherTypes, TimersStopped
  <2>2. QED
    BY <1>1, <1>3, <1>4, <2>1 DEF WaitInv, TimersStopped
<1>11. EventsStopped'
  <2>1. \A f \in Fds : registered[f] # NULL => registered[f] \in All /\ registered[f] # p
    BY <1>1, <1>2 DEF WaitInv, OtherTypes, EventsStopped
  <2>2. QED
    BY <1>1, <1>3, <1>4, <2>1 DEF WaitInv, EventsStopped
<1>12. StoppedWaits'
  BY <1>1, <1>3, <1>4, <1>5 DEF WaitInv, StoppedWaits
<1>13. WokenKnows'
  <2>1. SUFFICES ASSUME NEW q \in All, status'[q] = "IDLE", waitset[q] # {}
                 PROVE  caller[q] \in waitset[q] /\ status'[caller[q]] = "TERMINATED"
    BY <1>3 DEF WokenKnows
  <2>2. q # p /\ status[q] = "IDLE"
    BY <1>4, <1>7, <2>1
  <2>3. caller[q] \in waitset[q] /\ status[caller[q]] = "TERMINATED" /\ caller[q] \in All
    BY <1>1, <2>1, <2>2 DEF WaitInv, WokenKnows, OtherTypes
  <2>4. QED
    BY <1>2, <1>4, <2>3
<1>14. FreedTerminated'
  BY <1>1, <1>2, <1>3, <1>4 DEF WaitInv, FreedTerminated
<1>15. QED
  BY <1>2, <1>6, <1>8, <1>9, <1>10, <1>11, <1>12, <1>13, <1>14, Parts, PTL DEF WaitInv

LEMMA FinalizeKeeps == ASSUME IInv, NEW p \in Promises, Finalize(p) PROVE IInv'
<1>1. SchedulerInv /\ WaitInv /\ p \in All
  BY Parts, Names
<1>2. SchedulerInv'
  BY <1>1, SchedulerStays DEF Finalize
<1>3. /\ UNCHANGED <<status, cpu, await, caller, waitset, calls, timequeue, registered,
                     ready, now, dppc, twait, until>>
      /\ freed' = [freed EXCEPT ![p] = @ + 1] /\ freed[p] = 0 /\ status[p] = "TERMINATED"
  BY DEF Finalize, scheduler, waits, world, dp
<1>4. freed' \in [All -> Nat] /\ \A q \in All : freed'[q] = IF q = p THEN 1 ELSE freed[q]
  BY <1>1, <1>3 DEF WaitInv, OtherTypes
<1>5. OtherTypes'
  BY <1>1, <1>3, <1>4 DEF WaitInv, OtherTypes
<1>6. FreedTerminated'
  BY <1>1, <1>3, <1>4 DEF WaitInv, FreedTerminated
<1>7. AwaitersKnown' /\ WaitersAlive' /\ AwaitsAlive' /\ WokenKnows'
  BY <1>1, <1>3 DEF WaitInv, AwaitersKnown, WaitersAlive, AwaitsAlive, WokenKnows, Alive
<1>8. TimersStopped' /\ EventsStopped' /\ StoppedWaits'
  BY <1>1, <1>3 DEF WaitInv, TimersStopped, EventsStopped, StoppedWaits
<1>9. QED
  BY <1>2, <1>5, <1>6, <1>7, <1>8, Parts, PTL DEF WaitInv

-----------------------------------------------------------------------------
(* How many entries of the time queue and registrations a promise has: one *)
(* in all while it has stopped but not in await or anyof, otherwise none.  *)
LEMMA Places ==
    ASSUME IInv, NEW p \in All
    PROVE  /\ Cardinality(Timers(p)) = IF \E e \in timequeue : e[2] = p THEN 1 ELSE 0
           /\ Cardinality(Registrations(p)) = IF \E f \in Fds : registered[f] = p THEN 1 ELSE 0
           /\ (\E e \in timequeue : e[2] = p) => ~ \E f \in Fds : registered[f] = p
           /\ (\E e \in timequeue : e[2] = p) \/ (\E f \in Fds : registered[f] = p)
                 => status[p] = "STOPPED" /\ waitset[p] = {}
<1>1. TimersStopped /\ EventsStopped /\ p # NULL
  BY Parts, Names DEF WaitInv
<1>2. Cardinality(Timers(p)) = IF \E e \in timequeue : e[2] = p THEN 1 ELSE 0
  <2>1. CASE \E e \in timequeue : e[2] = p
    <3>1. PICK e \in timequeue : e[2] = p
      BY <2>1
    <3>2. Timers(p) = {e}
      BY <1>1, <3>1 DEF Timers, TimersStopped
    <3>3. QED
      BY <2>1, <3>2, FS_Singleton
  <2>2. CASE ~ \E e \in timequeue : e[2] = p
    <3>1. Timers(p) = {}
      BY <2>2 DEF Timers
    <3>2. QED
      BY <2>2, <3>1, FS_EmptySet
  <2>3. QED
    BY <2>1, <2>2
<1>3. Cardinality(Registrations(p)) = IF \E f \in Fds : registered[f] = p THEN 1 ELSE 0
  <2>1. CASE \E f \in Fds : registered[f] = p
    <3>1. PICK f \in Fds : registered[f] = p
      BY <2>1
    <3>2. Registrations(p) = {f}
      BY <1>1, <3>1 DEF Registrations, EventsStopped
    <3>3. QED
      BY <2>1, <3>2, FS_Singleton
  <2>2. CASE ~ \E f \in Fds : registered[f] = p
    <3>1. Registrations(p) = {}
      BY <2>2 DEF Registrations
    <3>2. QED
      BY <2>2, <3>1, FS_EmptySet
  <2>3. QED
    BY <2>1, <2>2
<1>4. (\E e \in timequeue : e[2] = p) => ~ \E f \in Fds : registered[f] = p
  BY <1>1 DEF EventsStopped
<1>5. (\E e \in timequeue : e[2] = p) \/ (\E f \in Fds : registered[f] = p)
         => status[p] = "STOPPED" /\ waitset[p] = {}
  BY <1>1 DEF TimersStopped, EventsStopped
<1>6. QED
  BY <1>2, <1>3, <1>4, <1>5

(* promise_end frees from the ring, the time queue and the registrations,  *)
(* and each promise is in one of them at most.                             *)
LEMMA EndKeeps == ASSUME IInv, End PROVE IInv'
<1> USE Names
<1>1. SchedulerInv /\ WaitInv /\ cpu # NULL
  BY Parts DEF End, UserCode
<1>2. /\ rcount' = 0 /\ cpu' = NULL /\ registered' = [f \in Fds |-> NULL] /\ timequeue' = {}
      /\ UNCHANGED <<ring, status, ctx, await, caller, waitset, calls, ready, now, dppc, twait, until>>
      /\ freed' = [p \in All |-> freed[p] + Popped(p) + Cardinality(Registrations(p))
                                  + Cardinality(Timers(p))]
  BY DEF End, waits, world, dp, Registrations, Timers
<1>3. /\ ring \in Seq(All) /\ Len(ring) \in Nat /\ rcount = Len(ring)
      /\ ToSet(ring) = {p \in All : status[p] = "IDLE"}
      /\ ToSet(ring) = {ring[i] : i \in 1..Len(ring)}
      /\ freed \in [All -> Nat]
  BY <1>1, Entries DEF SchedulerInv, SchedulerTypes, Agree, WaitInv, OtherTypes
<1>4. ASSUME NEW p \in All
      PROVE  Popped(p) = IF status[p] = "IDLE" THEN 1 ELSE 0
  <2>1. (\E i \in 1..Len(ring) : i <= rcount /\ ring[i] = p) <=> status[p] = "IDLE"
    BY <1>3
  <2>2. ~ (rcount > Len(ring))
    BY <1>3
  <2>3. QED
    BY <2>1, <2>2 DEF Popped
<1>5. ASSUME NEW p \in All PROVE freed'[p] \in Nat /\ freed'[p] <= 1
  <2>1. /\ freed[p] \in Nat /\ freed[p] <= 1
        /\ freed[p] = 1 => status[p] = "TERMINATED"
    BY <1>1, <1>3 DEF WaitInv, FreedTerminated
  <2>2. freed'[p] = freed[p] + (IF status[p] = "IDLE" THEN 1 ELSE 0)
                    + Cardinality(Registrations(p)) + Cardinality(Timers(p))
    BY <1>2, <1>4
  <2> DEFINE r == Cardinality(Registrations(p))
             t == Cardinality(Timers(p))
  <2>3. r \in {0, 1} /\ t \in {0, 1} /\ ~ (r = 1 /\ t = 1)
    BY Places
  <2>4. r = 1 \/ t = 1 => status[p] = "STOPPED"
    BY Places
  <2>5. freed'[p] = freed[p] + (IF status[p] = "IDLE" THEN 1 ELSE 0) + r + t
    BY <2>2
  <2> HIDE DEF r, t
  <2>6. QED
    BY <2>1, <2>3, <2>4, <2>5
<1>6. SchedulerInv'
  BY <1>1, <1>2 DEF SchedulerInv, SchedulerTypes, Agree, OwnContext
<1>7. OtherTypes'
  <2>1. freed' \in [All -> Nat]
    BY <1>2, <1>5
  <2>2. QED
    BY <1>1, <1>2, <2>1 DEF WaitInv, OtherTypes
<1>8. AwaitersKnown' /\ WaitersAlive' /\ AwaitsAlive' /\ WokenKnows'
  BY <1>1, <1>2 DEF WaitInv, AwaitersKnown, WaitersAlive, AwaitsAlive, WokenKnows, Alive
<1>9. TimersStopped' /\ EventsStopped' /\ StoppedWaits'
  BY <1>2 DEF TimersStopped, EventsStopped, StoppedWaits
<1>10. FreedTerminated'
  BY <1>2, <1>5 DEF FreedTerminated
<1>11. QED
  BY <1>6, <1>7, <1>8, <1>9, <1>10, Parts, PTL DEF WaitInv

-----------------------------------------------------------------------------
(* dp_task takes one entry out of the time queue and wakes its promise.    *)
LEMMA TimerWoken ==
    ASSUME IInv, NEW e \in timequeue
    PROVE  /\ e[2] \in All /\ status[e[2]] = "STOPPED" /\ waitset[e[2]] = {}
           /\ timequeue \ {e} = {x \in timequeue : x[2] \notin {e[2]}}
           /\ \A f \in Fds : registered[f] # e[2]
<1>1. TimersStopped /\ EventsStopped /\ timequeue \subseteq (Nat \X All)
  BY Parts DEF WaitInv, OtherTypes
<1>2. e[2] \in All /\ status[e[2]] = "STOPPED" /\ waitset[e[2]] = {}
  BY <1>1 DEF TimersStopped
<1>3. timequeue \ {e} = {x \in timequeue : x[2] \notin {e[2]}}
  BY <1>1 DEF TimersStopped
<1>4. \A f \in Fds : registered[f] # e[2]
  BY <1>1, <1>2, Names DEF EventsStopped
<1>5. QED
  BY <1>2, <1>3, <1>4

LEMMA DpCheckKeeps == ASSUME IInv, DpCheck PROVE IInv'
<1>1. SchedulerInv /\ WaitInv /\ cpu # NULL
  BY Parts, PromiseAssumption DEF DpCheck
<1>2. UNCHANGED <<await, caller, waitset, calls, registered, ready, now, freed>>
  BY DEF DpCheck, waits, world
<1>3. ASSUME NEW e \in timequeue, PopTimer(e), UNCHANGED <<ctx, cpu, dp>> PROVE IInv'
  <2> DEFINE W == {e[2]}
  <2>1. /\ e[2] \in All /\ status[e[2]] = "STOPPED" /\ waitset[e[2]] = {}
        /\ timequeue \ {e} = {x \in timequeue : x[2] \notin W}
        /\ \A f \in Fds : registered[f] \notin W
    BY TimerWoken
  <2>2. SchedulerInv' /\ status' = [status EXCEPT ![e[2]] = "IDLE"]
    <3>1. PushAll(<<e[2]>>) /\ UNCHANGED <<ctx, cpu>> /\ status[e[2]] # "IDLE"
      BY <1>3, <2>1 DEF PopTimer
    <3>2. QED
      BY <1>1, <2>1, <3>1, PushFacts
  <2>3. status' = [p \in All |-> IF p \in W THEN "IDLE" ELSE status[p]]
    BY <1>1, <2>1, <2>2 DEF SchedulerInv, SchedulerTypes
  <2>4. OtherTypes'
    BY <1>1, <1>2, <1>3 DEF WaitInv, OtherTypes, PopTimer, dp
  <2>5. W \in SUBSET All /\ \A p \in W : status[p] = "STOPPED" /\ waitset[p] = {}
    BY <2>1
  <2>6. \A f \in Fds : registered'[f] = IF registered[f] \in W THEN NULL ELSE registered[f]
    BY <1>2, <2>1
  <2>7. timequeue' = {x \in timequeue : x[2] \notin W}
    BY <1>3, <2>1 DEF PopTimer
  <2> HIDE DEF W
  <2>8. QED
    BY <1>1, <1>2, <2>2, <2>3, <2>4, <2>5, <2>6, <2>7, WakeKeeps
<1>4. ASSUME dppc' = "wait", UNCHANGED <<scheduler, timequeue, twait, until>> PROVE IInv'
  <2>1. SchedulerInv' /\ status' = status
    BY <1>1, <1>4, SchedulerStays DEF scheduler
  <2>2. OtherTypes'
    BY <1>1, <1>2, <1>4 DEF WaitInv, OtherTypes
  <2>3. QED
    BY <1>1, <1>2, <1>4, <2>1, <2>2, IdleKeeps
<1>5. QED
  BY <1>3, <1>4 DEF DpCheck

LEMMA DpWaitKeeps == ASSUME IInv, DpWait PROVE IInv'
<1>1. SchedulerInv /\ WaitInv /\ cpu # NULL
  BY Parts, PromiseAssumption DEF DpWait
<1>2. SchedulerInv'
  BY <1>1, SchedulerStays DEF DpWait
<1>3. OtherTypes'
  <2>1. until' \in Nat
    BY <1>1 DEF DpWait, SleepsUntil, WaitInv, OtherTypes
  <2>2. QED
    BY <1>1, <2>1 DEF DpWait, WaitInv, OtherTypes, waits, world
<1>4. UNCHANGED <<status, timequeue, registered, await, caller, waitset, freed>>
  BY DEF DpWait, scheduler, waits
<1>5. QED
  BY <1>1, <1>2, <1>3, <1>4, IdleKeeps

LEMMA DpInterruptedKeeps == ASSUME IInv, DpInterrupted PROVE IInv'
<1>1. SchedulerInv /\ WaitInv /\ cpu # NULL
  BY Parts, PromiseAssumption DEF DpInterrupted
<1>2. SchedulerInv'
  BY <1>1, RotateAlone DEF DpInterrupted
<1>3. OtherTypes'
  BY <1>1 DEF DpInterrupted, DpYields, WaitInv, OtherTypes, waits, world
<1>4. UNCHANGED <<status, timequeue, registered, await, caller, waitset, freed>>
  BY DEF DpInterrupted, DpYields, waits
<1>5. QED
  BY <1>1, <1>2, <1>3, <1>4, IdleKeeps

LEMMA DpTimeoutKeeps == ASSUME IInv, DpTimeout PROVE IInv'
<1>1. SchedulerInv /\ WaitInv /\ cpu # NULL
  BY Parts, PromiseAssumption DEF DpTimeout
<1>2. UNCHANGED <<await, caller, waitset, calls, registered, ready, now, freed>>
  BY DEF DpTimeout, DpYields, waits, world
<1>3. Swap(running, Head(ring')) /\ dppc' = "check" /\ twait' = "no" /\ until' = 0
  BY DEF DpTimeout, DpYields
<1>4. ASSUME ring' = Rotate, UNCHANGED <<rcount, status, timequeue>> PROVE IInv'
  <2>1. SchedulerInv'
    BY <1>1, <1>3, <1>4, RotateAlone
  <2>2. OtherTypes'
    BY <1>1, <1>2, <1>3, <1>4 DEF WaitInv, OtherTypes
  <2>3. QED
    BY <1>1, <1>2, <1>4, <2>1, <2>2, IdleKeeps
<1>5. ASSUME NEW e \in timequeue, timequeue' = timequeue \ {e}, rcount' = rcount + 1,
             ring' = Tail(ring) \o Absent(<<e[2]>>) \o <<running>>,
             status' = [status EXCEPT ![e[2]] = "IDLE"]
      PROVE  IInv'
  <2> DEFINE W == {e[2]}
             woken == <<e[2]>>
  <2>1. /\ e[2] \in All /\ status[e[2]] = "STOPPED" /\ waitset[e[2]] = {}
        /\ timequeue \ {e} = {x \in timequeue : x[2] \notin W}
        /\ \A f \in Fds : registered[f] \notin W
    BY TimerWoken
  <2>2. woken \in Seq(All) /\ Len(woken) = 1 /\ ToSet(woken) = W /\ IsInjective(woken)
    BY <2>1, Short
  <2>3. status' = [p \in All |-> IF p \in W THEN "IDLE" ELSE status[p]]
    BY <1>1, <1>5, <2>1 DEF SchedulerInv, SchedulerTypes
  <2>4. W \in SUBSET All /\ \A p \in W : status[p] = "STOPPED" /\ waitset[p] = {}
    BY <2>1
  <2>5. ring' = Tail(ring) \o Absent(woken) \o <<running>> /\ rcount' = rcount + Len(woken)
    BY <1>5, <2>2
  <2>6. timequeue' = {x \in timequeue : x[2] \notin W}
    BY <1>5, <2>1
  <2>7. \A f \in Fds : registered'[f] = IF registered[f] \in W THEN NULL ELSE registered[f]
    BY <1>2, <2>1
  <2> HIDE DEF W, woken
  <2>8. Absent(woken) = woken
    <3>1. ToSet(woken) \subseteq All \ ToSet(ring)
      BY <1>1, <2>2, <2>4 DEF SchedulerInv, Agree
    <3>2. QED
      BY <2>2, <3>1, KeptProperties DEF Absent
  <2>9. SchedulerInv'
    <3>1. \A p \in ToSet(woken) : status[p] # "IDLE"
      BY <2>2, <2>4
    <3>2. status' = [p \in All |-> IF p \in ToSet(woken) THEN "IDLE" ELSE status[p]]
      BY <2>2, <2>3
    <3>3. QED
      BY <1>1, <1>3, <2>2, <2>5, <2>8, <3>1, <3>2, RotateFacts
  <2>10. OtherTypes'
    BY <1>1, <1>2, <1>3, <1>5 DEF WaitInv, OtherTypes
  <2>11. QED
    BY <1>1, <1>2, <2>3, <2>4, <2>6, <2>7, <2>9, <2>10, WakeKeeps
<1>6. QED
  BY <1>4, <1>5 DEF DpTimeout, DpPopsHead

(* The sequences of the elements of a finite set.                          *)
LEMMA Listed ==
    ASSUME NEW S, IsFiniteSet(S), NEW s \in SetToSeqs(S)
    PROVE  s \in Seq(S) /\ Len(s) = Cardinality(S) /\ IsInjective(s) /\ ToSet(s) = S
<1> DEFINE n == Cardinality(S)
<1>1. n \in Nat /\ IsFiniteSet(1..n) /\ Cardinality(1..n) = n
  BY FS_CardinalityType, FS_Interval
<1>2. s \in [1..n -> S] /\ \A i, j \in 1..n : i # j => s[i] # s[j]
  BY DEF SetToSeqs
<1> HIDE DEF n
<1>3. s \in Seq(S) /\ Len(s) = n /\ DOMAIN s = 1..n
  BY <1>1, <1>2
<1>4. s \in Surjection(1..n, S)
  <2>1. s \in Injection(1..n, S)
    BY <1>2 DEF Injection, IsInjective
  <2>2. QED
    BY <1>1, <2>1, FS_Injection DEF n
<1>5. ToSet(s) = S
  BY <1>2, <1>3, <1>4 DEF ToSet, Surjection
<1>6. IsInjective(s)
  BY <1>2, <1>3 DEF IsInjective
<1>7. QED
  BY <1>3, <1>5, <1>6 DEF n

(* epoll_wait returns events: every promise whose event came is woken.     *)
LEMMA DpEventsKeeps == ASSUME IInv, DpEvents PROVE IInv'
<1> USE Names
<1>1. SchedulerInv /\ WaitInv /\ cpu # NULL
  BY Parts, PromiseAssumption DEF DpEvents
<1> DEFINE W == {registered[f] : f \in Events}
<1>2. /\ registered \in [Fds -> All \union {NULL}] /\ Events \subseteq Fds
      /\ \A f \in Events : registered[f] # NULL
      /\ \A f, g \in Fds : registered[f] # NULL /\ registered[f] = registered[g] => f = g
  BY <1>1 DEF WaitInv, OtherTypes, Events, EventsStopped
<1>3. W \in SUBSET All /\ \A f \in Fds : registered[f] \in W <=> f \in Events
  BY <1>2
<1>4. \A p \in W : /\ status[p] = "STOPPED" /\ waitset[p] = {}
                   /\ \A e \in timequeue : e[2] # p
  BY <1>1, <1>2 DEF WaitInv, EventsStopped
<1>5. IsFiniteSet(W) /\ Cardinality(W) = Cardinality(Events)
  <2> DEFINE owner == [f \in Events |-> registered[f]]
  <2>1. IsFiniteSet(Events)
    BY <1>2, PromiseAssumption, FS_Subset
  <2>2. owner \in Surjection(Events, W)
    BY DEF Surjection
  <2>3. owner \in Injection(Events, W)
    <3>1. owner \in [Events -> W]
      OBVIOUS
    <3>2. \A f, g \in Events : owner[f] = owner[g] => f = g
      BY <1>2
    <3>3. QED
      BY <3>1, <3>2 DEF Injection, IsInjective
  <2> HIDE DEF W, owner
  <2>4. QED
    BY <2>1, <2>2, <2>3, FS_Surjection
<1>6. PICK woken \in SetToSeqs(W) :
          /\ ring' = Tail(ring) \o Absent(woken) \o <<running>>
          /\ status' = [p \in All |-> IF p \in ToSet(Absent(woken)) THEN "IDLE"
                                      ELSE status[p]]
  BY DEF DpEvents
<1>7. /\ rcount' = rcount + Cardinality(Events)
      /\ Swap(running, Head(ring')) /\ dppc' = "check" /\ twait' = "no" /\ until' = 0
      /\ registered' = [f \in Fds |-> IF f \in Events THEN NULL ELSE registered[f]]
      /\ UNCHANGED <<await, caller, waitset, calls, timequeue, ready, now, freed>>
  BY DEF DpEvents, DpYields, waits, world
<1>8. \A f \in Fds : registered'[f] = IF registered[f] \in W THEN NULL ELSE registered[f]
  BY <1>3, <1>7
<1>9. timequeue' = {e \in timequeue : e[2] \notin W}
  BY <1>4, <1>7
<1> HIDE DEF W
<1>10. woken \in Seq(W) /\ Len(woken) = Cardinality(W) /\ IsInjective(woken) /\ ToSet(woken) = W
  BY <1>5, Listed
<1>11. woken \in Seq(All)
  BY <1>3, <1>10
<1>12. Absent(woken) = woken
  <2>1. ToSet(woken) \subseteq All \ ToSet(ring)
    BY <1>1, <1>3, <1>4, <1>10 DEF SchedulerInv, Agree
  <2>2. QED
    BY <1>11, <2>1, KeptProperties DEF Absent
<1>13. SchedulerInv'
  <2>1. \A p \in ToSet(woken) : status[p] # "IDLE"
    BY <1>4, <1>10
  <2>2. rcount' = rcount + Len(woken)
    BY <1>5, <1>7, <1>10
  <2>3. ring' = Tail(ring) \o woken \o <<running>>
    BY <1>6, <1>12
  <2>4. status' = [p \in All |-> IF p \in ToSet(woken) THEN "IDLE" ELSE status[p]]
    BY <1>6, <1>12
  <2>5. QED
    BY <1>1, <1>7, <1>10, <1>11, <2>1, <2>2, <2>3, <2>4, RotateFacts
<1>14. OtherTypes'
  <2>1. registered' \in [Fds -> All \union {NULL}]
    BY <1>2, <1>7
  <2>2. QED
    BY <1>1, <1>7, <2>1 DEF WaitInv, OtherTypes
<1>15. status' = [p \in All |-> IF p \in W THEN "IDLE" ELSE status[p]]
  BY <1>6, <1>10, <1>12
<1>16. \A p \in W : status[p] = "STOPPED" /\ waitset[p] = {}
  BY <1>4
<1>17. UNCHANGED <<await, caller, waitset, freed>>
  BY <1>7
<1>18. QED
  BY <1>1, <1>3, <1>8, <1>9, <1>13, <1>14, <1>15, <1>16, <1>17, WakeKeeps

LEMMA EnvironmentKeeps ==
    ASSUME IInv, Tick \/ \E f \in Fds : FdReady(f)
    PROVE  IInv'
<1>1. SchedulerInv /\ WaitInv
  BY Parts
<1>2. SchedulerInv' /\ cpu' = cpu
  BY <1>1, SchedulerStays DEF Tick, FdReady, scheduler
<1>3. OtherTypes'
  BY <1>1 DEF Tick, FdReady, WaitInv, OtherTypes, waits, dp
<1>4. UNCHANGED <<status, timequeue, registered, await, caller, waitset, freed>>
  BY DEF Tick, FdReady, scheduler, waits
<1>5. QED
  BY <1>2, <1>3, <1>4, IdleKeeps

-----------------------------------------------------------------------------
(* The steps of Next, and those that leave everything alone.               *)
LEMMA StepIInv == IInv /\ [Next]_vars => IInv'
<1>1. SUFFICES ASSUME IInv, [Next]_vars PROVE IInv'
  OBVIOUS
<1>2. CASE UserStep
  BY <1>1, <1>2, YieldKeeps, ReturnKeeps, AwaitReturnsKeeps, EndKeeps, StartKeeps,
     AwaitKeeps, FinalizeKeeps, DelayKeeps, ReadFdKeeps DEF UserStep
<1>3. CASE Disciplined
  BY <1>1, <1>3, AwaitFdKeeps, AnyOfKeeps DEF Disciplined
<1>4. CASE DpStep
  BY <1>1, <1>4, DpCheckKeeps, DpWaitKeeps, DpEventsKeeps, DpTimeoutKeeps DEF DpStep
<1>5. CASE Environment
  BY <1>1, <1>5, EnvironmentKeeps, DpInterruptedKeeps DEF Environment
<1>6. CASE UNCHANGED vars
  <2>1. SchedulerInv /\ WaitInv
    BY <1>1, Parts
  <2>2. SchedulerInv' /\ cpu' = cpu
    BY <1>6, <2>1, SchedulerStays DEF vars, scheduler
  <2>3. OtherTypes'
    BY <1>6, <2>1 DEF vars, waits, world, dp, WaitInv, OtherTypes
  <2>4. UNCHANGED <<status, timequeue, registered, await, caller, waitset, freed>>
    BY <1>6 DEF vars, scheduler, waits
  <2>5. QED
    BY <1>1, <2>2, <2>3, <2>4, IdleKeeps
<1>7. QED
  BY <1>1, <1>2, <1>3, <1>4, <1>5, <1>6 DEF Next

(* What every call of the promises and every round of dp_task keeps, from  *)
(* which the properties below follow (ef/concurrency/promise.c).           *)
THEOREM Invariant == Spec => []IInv
BY InitIInv, StepIInv, PTL DEF Spec

(* The ring, the status, the counter and the cpu agree in every reachable  *)
(* state until promise_end (ef/concurrency/promise.c).                     *)
THEOREM SchedulerAgreesHolds == Spec => []SchedulerAgrees
<1>1. IInv => SchedulerAgrees
  BY DEF IInv, Agree, SchedulerAgrees
<1>2. QED
  BY <1>1, Invariant, PTL

(* A promise that stopped can be woken from exactly one place, a runnable  *)
(* one from none (promise_await, promise_delay, promise_await_fd).         *)
THEOREM WaitsInOnePlaceHolds == Spec => []WaitsInOnePlace
<1>1. ASSUME IInv PROVE WaitsInOnePlace
  <2>1. SUFFICES ASSUME cpu # NULL, NEW p \in All
                 PROVE  LET places == Cardinality(Timers(p)) + Cardinality(Registrations(p))
                                + (IF status[p] = "STOPPED" /\ AwaitedBy(p) # {} THEN 1 ELSE 0)
                        IN  /\ status[p] = "STOPPED" => places = 1
                            /\ status[p] = "IDLE" => places = 0
    BY DEF WaitsInOnePlace
  <2>2. SchedulerInv /\ WaitInv
    BY <1>1, Parts
  <2>3. ASSUME status[p] = "STOPPED" PROVE AwaitedBy(p) # {} <=> waitset[p] # {}
    <3>1. ASSUME NEW q \in All PROVE Contains(await[q], p) <=> p \in ToSet(await[q])
      <4>1. await[q] \in Seq(All)
        BY <2>2 DEF WaitInv, OtherTypes
      <4>2. ToSet(await[q]) = {await[q][i] : i \in 1..Len(await[q])}
        BY <4>1, Entries
      <4>3. QED
        BY <4>2 DEF Contains
    <3>2. \A q \in All : p \in ToSet(await[q]) <=> Alive(q) /\ q \in waitset[p]
      BY <2>2 DEF WaitInv, AwaitersKnown
    <3>3. waitset[p] \subseteq All /\ \A q \in waitset[p] : Alive(q)
      BY <2>2, <2>3, Names DEF WaitInv, OtherTypes, AwaitsAlive
    <3>4. QED
      BY <3>1, <3>2, <3>3 DEF AwaitedBy
  <2> DEFINE r == Cardinality(Registrations(p))
             t == Cardinality(Timers(p))
  <2>4. /\ r \in {0, 1} /\ t \in {0, 1} /\ ~ (r = 1 /\ t = 1)
        /\ r = 1 \/ t = 1 => status[p] = "STOPPED" /\ waitset[p] = {}
    BY <1>1, Places
  <2>5. status[p] = "STOPPED" => waitset[p] # {} \/ r = 1 \/ t = 1
    BY <1>1, <2>1, <2>2, Places DEF WaitInv, StoppedWaits
  <2> HIDE DEF r, t
  <2>6. CASE status[p] = "STOPPED"
    <3>1. (IF AwaitedBy(p) # {} THEN 1 ELSE 0) = 1 - (r + t)
      BY <2>3, <2>4, <2>5, <2>6
    <3>2. t + r + (IF status[p] = "STOPPED" /\ AwaitedBy(p) # {} THEN 1 ELSE 0) = 1
      BY <2>4, <2>6, <3>1
    <3>3. QED
      BY <2>6, <3>2 DEF r, t
  <2>7. CASE status[p] # "STOPPED"
    <3>1. t + r + (IF status[p] = "STOPPED" /\ AwaitedBy(p) # {} THEN 1 ELSE 0) = 0
      BY <2>4, <2>7
    <3>2. QED
      BY <2>7, <3>1 DEF r, t
  <2>8. QED
    BY <2>6, <2>7
<1>2. QED
  BY <1>1, Invariant, PTL

(* No promise is freed twice, by promise_finalize or by promise_end.       *)
THEOREM FreedOnceHolds == Spec => []FreedOnce
<1>1. IInv => FreedOnce
  BY DEF IInv, FreedTerminated, FreedOnce
<1>2. QED
  BY <1>1, Invariant, PTL

(* promise_await and promise_anyof return a promise of their vector, and   *)
(* one that has terminated.                                                *)
THEOREM ResultHasTerminatedHolds == Spec => ResultHasTerminated
<1>1. ASSUME IInv, AwaitReturns
      PROVE  caller[running] \in waitset[cpu] /\ status[caller[running]] = "TERMINATED"
  <2>1. SchedulerInv /\ WaitInv /\ cpu # NULL /\ waitset[cpu] # {}
    BY <1>1, Parts DEF AwaitReturns
  <2>2. running = cpu /\ cpu \in All /\ status[cpu] = "IDLE"
    BY <2>1, RunningFacts
  <2>3. QED
    BY <2>1, <2>2 DEF WaitInv, WokenKnows
<1>2. IInv => [AwaitReturns => /\ caller[running] \in waitset[cpu]
                               /\ status[caller[running]] = "TERMINATED"]_vars
  BY <1>1
<1>3. QED
  BY <1>2, Invariant, PTL DEF ResultHasTerminated

-----------------------------------------------------------------------------
(* From the top of its loop to its yield nobody but dp_task runs, so a     *)
(* sleep that is to end with the head ends with the one it was counted     *)
(* from.                                                                   *)
Sleeping ==
    /\ dppc # "check" => cpu = Dp
    /\ dppc = "poll" /\ twait = "head" => \E x \in timequeue : x[1] = until

LEMMA SleepingKept == Sleeping /\ [Next]_vars => Sleeping'
<1>1. SUFFICES ASSUME Sleeping, [Next]_vars PROVE Sleeping'
  OBVIOUS
<1>2. ASSUME cpu # Dp, UNCHANGED dp PROVE Sleeping'
  BY <1>1, <1>2 DEF Sleeping, dp
<1>3. CASE UserStep
  <2>1. cpu # Dp /\ UNCHANGED dp
    BY <1>3 DEF UserStep, Yield, Return, AwaitReturns, End, Start, Await, Finalize, Delay,
       ReadFd, Calls, UserCode
  <2>2. QED
    BY <1>2, <2>1
<1>4. CASE Disciplined
  <2>1. cpu # Dp /\ UNCHANGED dp
    BY <1>4 DEF Disciplined, AwaitFd, AnyOf, Calls, UserCode
  <2>2. QED
    BY <1>2, <2>1
<1>5. ASSUME DpYields PROVE Sleeping'
  BY <1>5 DEF DpYields, Sleeping
<1>6. CASE DpEvents \/ DpTimeout \/ DpInterrupted
  BY <1>5, <1>6 DEF DpEvents, DpTimeout, DpInterrupted
<1>7. CASE DpCheck
  BY <1>1, <1>7 DEF DpCheck, Sleeping, dp, scheduler
<1>8. CASE DpWait
  <2>1. cpu' = Dp /\ timequeue' = timequeue
    BY <1>8 DEF DpWait, scheduler
  <2>2. twait' = "head" => \E x \in timequeue : x[1] = until'
    BY <1>8 DEF DpWait, SleepsUntil
  <2>3. QED
    BY <2>1, <2>2 DEF Sleeping
<1>9. CASE UNCHANGED vars \/ Tick \/ \E f \in Fds : FdReady(f)
  <2>1. UNCHANGED <<cpu, dp, timequeue>>
    BY <1>9 DEF vars, Tick, FdReady, scheduler
  <2>2. QED
    BY <1>1, <2>1 DEF Sleeping, dp
<1>10. QED
  BY <1>1, <1>3, <1>4, <1>6, <1>7, <1>8, <1>9 DEF Next, DpStep, Environment

LEMMA SleepingAlways == Spec => []Sleeping
<1>1. Init => Sleeping
  BY DEF Init, Sleeping
<1>2. QED
  BY <1>1, SleepingKept, PTL DEF Spec

(* Who sleeps is made runnable by dp_task only, and only when it is due.   *)
LEMMA SleeperWoken ==
    ASSUME IInv, Sleeping, Next, NEW e \in timequeue, status'[e[2]] = "IDLE"
    PROVE  e[1] <= now
<1> USE Names
<1>1. SchedulerInv /\ WaitInv
  BY Parts
<1>2. /\ e[2] \in All /\ status[e[2]] = "STOPPED" /\ waitset[e[2]] = {}
      /\ \A f \in Fds : registered[f] # e[2]
      /\ \A x \in timequeue : x[2] = e[2] => x = e
      /\ status \in [All -> {"unborn", "IDLE", "STOPPED", "TERMINATED"}]
  BY <1>1, TimerWoken DEF WaitInv, TimersStopped, SchedulerInv, SchedulerTypes
<1>3. status' # status
  BY <1>2
<1>4. ~ Stop \/ ~ UserCode
  <2>1. SUFFICES ASSUME Stop, UserCode PROVE FALSE
    OBVIOUS
  <2>2. status' = [status EXCEPT ![cpu] = "STOPPED"] /\ cpu \in All
    BY <1>1, <2>1, StopFacts DEF UserCode
  <2>3. QED
    BY <1>2, <2>2
<1>5. CASE UserStep
  <2>1. ~ (Yield \/ AwaitReturns \/ End)
    BY <1>3 DEF Yield, AwaitReturns, End, scheduler
  <2>2. ~ Return
    <3>1. SUFFICES ASSUME Return PROVE FALSE
      OBVIOUS
    <3>2. UserCode /\ cpu \notin {Dp, NULL} /\ PopAndSwap("TERMINATED", Waiters)
      BY <3>1 DEF Return, UserCode
    <3>3. /\ Waiters \in Seq(All) /\ IsInjective(Waiters)
          /\ \A q \in All : q \in ToSet(Waiters) <=> cpu \in waitset[q] /\ status[q] = "STOPPED"
          /\ ToSet(Waiters) \subseteq All
      BY <3>2, WaitersFacts
    <3>4. \A q \in ToSet(Waiters) : status[q] # "IDLE"
      BY <3>3
    <3>5. status' = [p \in All |-> IF p = cpu THEN "TERMINATED"
                                   ELSE IF p \in ToSet(Waiters) THEN "IDLE" ELSE status[p]]
      BY <1>1, <3>2, <3>3, <3>4, PopFacts
    <3>6. e[2] \notin ToSet(Waiters)
      BY <1>2, <3>3
    <3>7. QED
      BY <1>2, <3>5, <3>6
  <2>3. ASSUME NEW p \in Promises PROVE ~ (Start(p) \/ Await(p) \/ Finalize(p))
    <3>1. ~ Finalize(p) /\ ~ Await(p)
      BY <1>3, <1>4 DEF Finalize, scheduler, Await, Calls
    <3>2. SUFFICES ASSUME Start(p) PROVE FALSE
      BY <3>1
    <3>3. status[p] = "unborn" /\ status' = [status EXCEPT ![p] = "IDLE"] /\ p \in All
      BY <1>1, <3>2, PushFacts DEF Start, UserCode
    <3>4. QED
      BY <1>2, <3>3
  <2>4. \A ms \in Delays : ~ Delay(ms)
    BY <1>4 DEF Delay, Calls
  <2>5. \A f \in Fds : ~ ReadFd(f)
    BY <1>3 DEF ReadFd, scheduler
  <2>6. QED
    BY <1>5, <2>1, <2>2, <2>3, <2>4, <2>5 DEF UserStep
<1>6. CASE Disciplined
  <2>1. \A f \in Fds : ~ AwaitFd(f)
    BY <1>4 DEF AwaitFd, Calls
  <2>2. ASSUME NEW S \in Vectors, Unfinished(S) = S PROVE ~ AnyOf(S)
    BY <1>4, <2>2 DEF AnyOf, Calls, Vectors
  <2>3. QED
    BY <1>6, <2>1, <2>2 DEF Disciplined
<1>7. CASE DpStep
  <2>1. ~ DpWait
    BY <1>3 DEF DpWait, scheduler
  <2>2. ~ DpEvents
    <3>1. SUFFICES ASSUME DpEvents PROVE FALSE
      OBVIOUS
    <3> DEFINE W == {registered[f] : f \in Events}
    <3>2. PICK woken \in SetToSeqs(W) :
            status' = [p \in All |-> IF p \in ToSet(Absent(woken)) THEN "IDLE" ELSE status[p]]
      BY <3>1 DEF DpEvents
    <3>3. Events \subseteq Fds /\ W \subseteq All
      BY <1>1 DEF Events, WaitInv, OtherTypes
    <3>4. IsFiniteSet(W)
      <4> DEFINE owner == [f \in Events |-> registered[f]]
      <4>1. IsFiniteSet(Events)
        BY <3>3, PromiseAssumption, FS_Subset
      <4>2. owner \in Surjection(Events, W)
        BY DEF Surjection
      <4> HIDE DEF W, owner
      <4>3. QED
        BY <4>1, <4>2, FS_Surjection
    <3>5. e[2] \notin W
      BY <1>2, <3>3
    <3> HIDE DEF W
    <3>6. woken \in Seq(W) /\ ToSet(woken) = W
      BY <3>4, Listed
    <3>7. ToSet(Absent(woken)) \subseteq W
      BY <3>6, KeptProperties DEF Absent
    <3>8. QED
      BY <1>2, <3>2, <3>5, <3>7
  <2>3. CASE DpCheck
    <3>1. PICK x \in timequeue : x[1] <= now /\ PopTimer(x) /\ UNCHANGED <<ctx, cpu>>
      BY <1>3, <2>3 DEF DpCheck, IsHead, scheduler
    <3>2. cpu # NULL /\ x[2] \in All /\ status[x[2]] = "STOPPED"
      BY <2>3, TimerWoken, PromiseAssumption DEF DpCheck
    <3>3. status' = [status EXCEPT ![x[2]] = "IDLE"]
      BY <1>1, <3>1, <3>2, PushFacts DEF PopTimer
    <3>4. QED
      BY <1>2, <3>1, <3>3
  <2>4. CASE DpTimeout
    <3>1. PICK x \in timequeue : IsHead(x) /\ status' = [status EXCEPT ![x[2]] = "IDLE"]
      BY <1>3, <2>4 DEF DpTimeout, DpPopsHead
    <3>2. dppc = "poll" /\ twait = "head" /\ until <= now
      BY <1>3, <2>4 DEF DpTimeout
    <3>3. PICK y \in timequeue : y[1] = until
      BY <3>2 DEF Sleeping
    <3>4. x[1] \in Nat /\ y[1] \in Nat /\ now \in Nat
      BY <1>1 DEF WaitInv, OtherTypes
    <3>5. x[1] <= now
      BY <3>1, <3>2, <3>3, <3>4 DEF IsHead
    <3>6. QED
      BY <1>2, <3>1, <3>5
  <2>5. QED
    BY <1>7, <2>1, <2>2, <2>3, <2>4 DEF DpStep
<1>8. CASE Environment
  BY <1>3, <1>8 DEF Environment, Tick, FdReady, DpInterrupted, scheduler
<1>9. QED
  BY <1>5, <1>6, <1>7, <1>8 DEF Next

(* A promise that called promise_delay does not run before its time.       *)
THEOREM SleepsLongEnoughHolds == Spec => SleepsLongEnough
<1>1. IInv /\ Sleeping /\ [Next]_vars
         => [\A e \in timequeue : status'[e[2]] = "IDLE" => e[1] <= now]_vars
  BY SleeperWoken
<1>2. QED
  BY <1>1, Invariant, SleepingAlways, PTL DEF Spec, SleepsLongEnough

=============================================================================
