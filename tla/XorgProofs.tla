----------------------------- MODULE XorgProofs -----------------------------
(***************************************************************************)
(* For any windows, keys, selections and screens: the program is told what *)
(* the events of the X server stand for, its windows draw on what is sent  *)
(* and lose no memory, and the walk over a screen that changes under it    *)
(* finds the applications that stay, each once.                            *)
(***************************************************************************)
EXTENDS MCIo, SequenceTheorems, FiniteSetTheorems, WellFoundedInduction, TLAPS

LEMMA NoneNoNumber == NONE \notin Int
BY ClientAssumption

-----------------------------------------------------------------------------
(* The events of a client.                                                 *)
Strokes == {"press", "release"}
Levels == {"plain", "shifted"}
KeyEvents == [kind : Strokes, key : Keys, held : SUBSET Keys, unsure : SUBSET Keys]
ButtonEvents == [kind : {"down", "up"}, time : Int]
Requests == [kind : {"request"}, sel : Selections, requestor : Wins \union {Peer},
             target : {"utf8", "image"}, property : {"utf8", NONE}]
Texts == Wins \union {Peer, "targets"}
Notices == [kind : {"notify"}, sel : Selections, requestor : Wins, property : {"utf8"},
            text : Texts]
Refusals == [kind : {"notify"}, sel : Selections, requestor : Wins, property : {NONE}]
     \union [kind : {"notify"}, sel : Selections, requestor : Wins, property : {NONE},
             text : Texts]
PlainEvents == [kind : {"expose", "focus"}, win : Wins] \union [kind : {"clear"}]
Events == KeyEvents \union ButtonEvents \union Requests \union Notices \union Refusals
          \union PlainEvents

ClientTypes ==
    /\ queue \in Seq(Events) /\ held \in SUBSET Keys /\ unsure \in SUBSET Keys
    /\ mods \in SUBSET (Keys \X Levels)
    /\ \A m \in mods : m[1] \notin Levelled => m[2] = "plain"
    /\ owner \in [Selections -> Wins \union {Peer, NONE}]
    /\ property \in [Wins -> Texts \union {NONE}]
    /\ pasting \in [Selections -> Wins \union {NONE}]
    /\ report.kind = "copy" => report.of \in Requests

-----------------------------------------------------------------------------
(* The keys.  The client knows of a key if it has a symbol of it; an event *)
(* makes other keys known, and is seen while those are.                    *)
Known(ms, k) == \E m \in ms : m[1] = k
After(e, b) == CASE e.kind = "press" -> b \union {e.key}
                 [] e.kind = "release" -> b \ {e.key}
                 [] OTHER -> b
Seen(e, b) == IF e.kind = "press" THEN b \union {e.key} ELSE b
Alike(a, b, but) == \A k \in Keys \ but : k \in a <=> k \in b

(* The events on their way lead from the keys the client knows to those    *)
(* that are held, but for those of which it cannot be sure.                *)
Shows(e, before, after, u) ==
    /\ after = After(e, before)
    /\ e.kind \in Strokes => Alike(Seen(e, before), e.held, e.unsure \union (u \intersect Levelled))
Leads(h, q, ms, to, u) ==
    /\ h \in [0..Len(q) -> SUBSET Keys]
    /\ \A k \in Keys \ (u \intersect Levelled) : k \in h[0] <=> Known(ms, k)
    /\ Alike(h[Len(q)], to, u)
    /\ \A i \in 1..Len(q) : Shows(q[i], h[i - 1], h[i], u)
Led == \E h : Leads(h, queue, mods, held, unsure)

(* A key that is known is held or an event of it is on its way, and its    *)
(* symbol is the one it has now; a press is of a key that is held or is    *)
(* followed by another event of it.                                        *)
Level(hd) == IF hd \intersect Shifts # {} THEN "shifted" ELSE "plain"
Strikes(e, k) == e.kind \in Strokes /\ e.key = k
Kept(q, ms, hd, u) ==
    \A m \in ms : m[1] \notin u =>
        /\ m[1] \in hd \/ \E i \in 1..Len(q) : Strikes(q[i], m[1])
        /\ m[1] \in Levelled => m[2] = Level(hd)
Returns(q, hd, u) ==
    \A i \in 1..Len(q) : q[i].kind = "press" /\ q[i].key \notin u =>
        \/ q[i].key \in hd
        \/ \E j \in (i + 1)..Len(q) : Strikes(q[j], q[i].key)
KeysIInv == Led /\ Kept(queue, mods, held, unsure) /\ Returns(queue, held, unsure)

LEMMA QueueGrows ==
    ASSUME ClientTypes, NEW e \in Events
    PROVE  /\ Append(queue, e) \in Seq(Events) /\ Len(queue) \in Nat
           /\ Len(Append(queue, e)) = Len(queue) + 1
           /\ Append(queue, e)[Len(queue) + 1] = e
           /\ \A i \in 1..Len(queue) : Append(queue, e)[i] = queue[i]
BY AppendProperties DEF ClientTypes

LEMMA QueueShrinks ==
    ASSUME ClientTypes, queue # <<>>
    PROVE  /\ Tail(queue) \in Seq(Events) /\ Len(queue) \in Nat
           /\ Len(Tail(queue)) = Len(queue) - 1 /\ 1 \in 1..Len(queue)
           /\ Head(queue) = queue[1] /\ Head(queue) \in Events
           /\ \A i \in 1..(Len(queue) - 1) : i + 1 \in 1..Len(queue) /\ Tail(queue)[i] = queue[i + 1]
<1>1. /\ Len(queue) \in Nat /\ Len(queue) > 0 /\ Len(Tail(queue)) = Len(queue) - 1
      /\ queue[1] = Head(queue) /\ Tail(queue) \in Seq(Events) /\ Head(queue) \in Events
      /\ \A i \in 1..(Len(queue) - 1) : Tail(queue)[i] = queue[i + 1]
  BY HeadTailProperties, EmptySeq DEF ClientTypes
<1> QED BY <1>1

(* An event keys are not unlike is sent.                                   *)
LEMMA LedSent ==
    ASSUME ClientTypes, Led, NEW e \in Events, queue' = Append(queue, e), mods' = mods,
           unsure \intersect Levelled \subseteq unsure',
           \A b \in SUBSET Keys : Alike(b, held, unsure) =>
               /\ After(e, b) \in SUBSET Keys /\ Alike(After(e, b), held', unsure')
               /\ Shows(e, b, After(e, b), unsure')
    PROVE  Led'
<1>1. /\ Len(queue) \in Nat /\ Len(queue') = Len(queue) + 1
      /\ queue'[Len(queue) + 1] = e
      /\ \A i \in 1..Len(queue) : queue'[i] = queue[i]
  BY QueueGrows
<1>3. PICK h \in [0..Len(queue) -> SUBSET Keys] :
        /\ \A k \in Keys \ (unsure \intersect Levelled) : k \in h[0] <=> Known(mods, k)
        /\ Alike(h[Len(queue)], held, unsure)
        /\ \A i \in 1..Len(queue) : Shows(queue[i], h[i - 1], h[i], unsure)
  BY DEF Led, Leads
<1> DEFINE final == h[Len(queue)]
           g == [i \in 0..(Len(queue) + 1) |-> IF i <= Len(queue) THEN h[i] ELSE After(e, final)]
<1>2. final \in SUBSET Keys
  BY <1>1, <1>3
<1>4. /\ g \in [0..(Len(queue) + 1) -> SUBSET Keys]
      /\ \A i \in 0..Len(queue) : g[i] = h[i]
      /\ g[Len(queue) + 1] = After(e, final)
  <2>1. ASSUME NEW i \in 0..(Len(queue) + 1)
        PROVE  (IF i <= Len(queue) THEN h[i] ELSE After(e, final)) \in SUBSET Keys
    BY <1>1, <1>2, <1>3
  <2>2. \A i \in 0..Len(queue) : i \in 0..(Len(queue) + 1) /\ i <= Len(queue)
    BY <1>1
  <2>3. Len(queue) + 1 \in 0..(Len(queue) + 1) /\ ~(Len(queue) + 1 <= Len(queue))
    BY <1>1
  <2> HIDE DEF final
  <2> QED BY <2>1, <2>2, <2>3
<1> HIDE DEF g
<1>5. ASSUME NEW i \in 1..(Len(queue) + 1) PROVE Shows(queue'[i], g[i - 1], g[i], unsure')
  <2>1. CASE i \in 1..Len(queue)
    <3>1. i \in 0..Len(queue) /\ i - 1 \in 0..Len(queue)
      BY <2>1, <1>1
    <3>2. queue'[i] = queue[i] /\ g[i - 1] = h[i - 1] /\ g[i] = h[i]
      BY <3>1, <2>1, <1>1, <1>4
    <3>3. Shows(queue[i], h[i - 1], h[i], unsure)
      BY <2>1, <1>3
    <3> QED BY <3>2, <3>3 DEF Shows, Alike
  <2>2. CASE i = Len(queue) + 1
    <3>1. i - 1 = Len(queue) /\ Len(queue) \in 0..Len(queue)
      BY <2>2, <1>1
    <3>2. queue'[i] = e /\ g[i - 1] = final /\ g[i] = After(e, final)
      BY <3>1, <2>2, <1>1, <1>4
    <3>3. Shows(e, final, After(e, final), unsure')
      BY <1>2, <1>3
    <3> QED BY <3>2, <3>3
  <2> QED BY <2>1, <2>2, <1>1
<1>6. \A k \in Keys \ (unsure' \intersect Levelled) : k \in g[0] <=> Known(mods', k)
  <2>1. g[0] = h[0]
    BY <1>1, <1>4
  <2> QED BY <2>1, <1>3
<1>7. Alike(g[Len(queue')], held', unsure')
  <2>1. g[Len(queue')] = After(e, final)
    BY <1>1, <1>4
  <2> QED BY <2>1, <1>2, <1>3
<1>8. Leads(g, queue', mods', held', unsure')
  BY <1>1, <1>4, <1>5, <1>6, <1>7 DEF Leads
<1> QED BY <1>8 DEF Led

(* The next event is taken, and makes known what it says.                  *)
LEMMA LedTaken ==
    ASSUME ClientTypes, Led, queue # <<>>, queue' = Tail(queue),
           held' = held, unsure' = unsure,
           \A k \in Keys \ (unsure \intersect Levelled), b \in SUBSET Keys :
               (k \in b <=> Known(mods, k)) => (k \in After(Head(queue), b) <=> Known(mods', k))
    PROVE  Led'
<1>1. /\ Len(queue) \in Nat /\ Len(queue) > 0 /\ Len(queue') = Len(queue) - 1
      /\ queue[1] = Head(queue)
      /\ \A i \in 1..(Len(queue) - 1) : queue'[i] = queue[i + 1]
  BY QueueShrinks
<1>3. PICK h \in [0..Len(queue) -> SUBSET Keys] :
        /\ \A k \in Keys \ (unsure \intersect Levelled) : k \in h[0] <=> Known(mods, k)
        /\ Alike(h[Len(queue)], held, unsure)
        /\ \A i \in 1..Len(queue) : Shows(queue[i], h[i - 1], h[i], unsure)
  BY DEF Led, Leads
<1> DEFINE g == [i \in 0..(Len(queue) - 1) |-> h[i + 1]]
<1>4. /\ g \in [0..(Len(queue) - 1) -> SUBSET Keys]
      /\ \A i \in 0..(Len(queue) - 1) : g[i] = h[i + 1]
  <2>1. \A i \in 0..(Len(queue) - 1) : i + 1 \in 0..Len(queue)
    BY <1>1
  <2> QED BY <2>1
<1> HIDE DEF g
<1>5. \A k \in Keys \ (unsure' \intersect Levelled) : k \in g[0] <=> Known(mods', k)
  <2>1. 1 \in 1..Len(queue) /\ 1 - 1 = 0 /\ 0 \in 0..(Len(queue) - 1) /\ 0 + 1 = 1
        /\ 0 \in 0..Len(queue)
    BY <1>1
  <2>2. h[1] = After(Head(queue), h[0]) /\ h[0] \in SUBSET Keys
    BY <2>1, <1>1, <1>3 DEF Shows
  <2>3. g[0] = After(Head(queue), h[0])
    BY <2>1, <2>2, <1>4
  <2>4. ASSUME NEW k \in Keys \ (unsure \intersect Levelled) PROVE k \in g[0] <=> Known(mods', k)
    <3>1. k \in h[0] <=> Known(mods, k)
      BY <1>3
    <3> QED BY <3>1, <2>2, <2>3
  <2> QED BY <2>4
<1>6. ASSUME NEW i \in 1..(Len(queue) - 1) PROVE Shows(queue'[i], g[i - 1], g[i], unsure')
  <2>1. i \in 0..(Len(queue) - 1) /\ i - 1 \in 0..(Len(queue) - 1)
        /\ i + 1 \in 1..Len(queue) /\ (i + 1) - 1 = i /\ (i - 1) + 1 = i
    BY <1>1
  <2>2. queue'[i] = queue[i + 1] /\ g[i - 1] = h[i] /\ g[i] = h[i + 1]
    BY <2>1, <1>1, <1>4
  <2>3. Shows(queue[i + 1], h[i], h[i + 1], unsure)
    BY <2>1, <1>3
  <2> QED BY <2>2, <2>3
<1>7. Alike(g[Len(queue')], held', unsure')
  <2>1. Len(queue) - 1 \in 0..(Len(queue) - 1) /\ (Len(queue) - 1) + 1 = Len(queue)
    BY <1>1
  <2>2. g[Len(queue')] = h[Len(queue)]
    BY <2>1, <1>1, <1>4
  <2> QED BY <2>2, <1>3
<1>8. Leads(g, queue', mods', held', unsure')
  BY <1>1, <1>4, <1>5, <1>6, <1>7 DEF Leads
<1> QED BY <1>8 DEF Led

(* The level changes only while no symbol is known that the other one has. *)
LEMMA LevelKept ==
    ASSUME ClientTypes, Kept(queue, mods, held, unsure),
           NEW m \in mods, m[1] \in Levelled, m[1] \notin unsure, m[1] \notin Client!Mixed
    PROVE  m[2] = Level(held')
<1>1. /\ m[2] = Level(held)
      /\ m[1] \in held \/ \E i \in 1..Len(queue) : Strikes(queue[i], m[1])
  BY DEF Kept
<1>2. m[1] \in Client!Unsettled
  <2>1. CASE m[1] \in held
    BY <2>1 DEF Client!Unsettled
  <2>2. CASE \E i \in 1..Len(queue) : Strikes(queue[i], m[1])
    <3>1. PICK i \in DOMAIN queue : queue[i].kind \in Client!Strokes /\ queue[i].key = m[1]
      BY <2>2 DEF Strikes, Strokes, Client!Strokes, ClientTypes
    <3>2. m[1] \in Client!Stroked
      BY <3>1 DEF Client!Stroked
    <3> QED BY <3>2 DEF Client!Unsettled
  <2> QED BY <1>1, <2>1, <2>2
<1>3. (held \intersect Shifts = {}) <=> (held' \intersect Shifts = {})
  BY <1>2 DEF Client!Mixed
<1> QED BY <1>1, <1>3 DEF Level

(* An event is sent: those that were on their way still are.               *)
LEMMA KeptSent ==
    ASSUME ClientTypes, NEW e \in Events, queue' = Append(queue, e)
    PROVE  /\ \A k : (\E i \in 1..Len(queue) : Strikes(queue[i], k)) \/ Strikes(e, k) =>
                         \E i \in 1..Len(queue') : Strikes(queue'[i], k)
           /\ Returns(queue, held, unsure)
              /\ (e.kind = "press" => e.key \in held')
              /\ (\A k : k \in held \ held' => k \in unsure' \/ Strikes(e, k))
              /\ (\A k : k \in unsure \ unsure' => Strikes(e, k))
              => Returns(queue', held', unsure')
<1>1. /\ Len(queue) \in Nat /\ Len(queue') = Len(queue) + 1
      /\ queue'[Len(queue) + 1] = e
      /\ \A i \in 1..Len(queue) : queue'[i] = queue[i]
  BY QueueGrows
<1>2. ASSUME NEW k, (\E i \in 1..Len(queue) : Strikes(queue[i], k)) \/ Strikes(e, k)
      PROVE  \E i \in 1..Len(queue') : Strikes(queue'[i], k)
  <2>1. CASE Strikes(e, k)
    <3>1. Len(queue) + 1 \in 1..Len(queue')
      BY <1>1
    <3> QED BY <3>1, <2>1, <1>1
  <2>2. CASE \E i \in 1..Len(queue) : Strikes(queue[i], k)
    <3>1. PICK i \in 1..Len(queue) : Strikes(queue[i], k)
      BY <2>2
    <3>2. i \in 1..Len(queue') /\ queue'[i] = queue[i]
      BY <1>1
    <3> QED BY <3>1, <3>2
  <2> QED BY <1>2, <2>1, <2>2
<1>3. ASSUME Returns(queue, held, unsure), e.kind = "press" => e.key \in held',
             \A k : k \in held \ held' => k \in unsure' \/ Strikes(e, k),
             \A k : k \in unsure \ unsure' => Strikes(e, k),
             NEW i \in 1..Len(queue'), queue'[i].kind = "press", queue'[i].key \notin unsure'
      PROVE  \/ queue'[i].key \in held'
             \/ \E j \in (i + 1)..Len(queue') : Strikes(queue'[j], queue'[i].key)
  <2>1. CASE i = Len(queue) + 1
    BY <2>1, <1>1, <1>3
  <2>2. CASE i \in 1..Len(queue)
    <3> DEFINE k == queue[i].key
    <3>1. queue'[i] = queue[i] /\ queue[i].kind = "press" /\ k \notin unsure'
      BY <2>2, <1>1, <1>3
    <3>2. CASE Strikes(e, k)
      <4>1. Len(queue) + 1 \in (i + 1)..Len(queue') /\ queue'[Len(queue) + 1] = e
        BY <2>2, <1>1
      <4> QED BY <4>1, <3>1, <3>2
    <3>3. CASE ~Strikes(e, k)
      <4>1. k \notin unsure
        BY <3>1, <3>3, <1>3
      <4>2. k \in held \/ \E j \in (i + 1)..Len(queue) : Strikes(queue[j], k)
        BY <4>1, <3>1, <2>2, <1>3 DEF Returns
      <4>3. CASE k \in held
        BY <4>3, <3>1, <3>3, <1>3
      <4>4. CASE \E j \in (i + 1)..Len(queue) : Strikes(queue[j], k)
        <5>1. PICK j \in (i + 1)..Len(queue) : Strikes(queue[j], k)
          BY <4>4
        <5>2. j \in (i + 1)..Len(queue') /\ queue'[j] = queue[j]
          BY <2>2, <1>1
        <5> QED BY <5>1, <5>2, <3>1
      <4> QED BY <4>2, <4>3, <4>4
    <3> QED BY <3>2, <3>3
  <2> QED BY <2>1, <2>2, <1>1
<1>4. /\ Returns(queue, held, unsure)
      /\ (e.kind = "press" => e.key \in held')
      /\ (\A k : k \in held \ held' => k \in unsure' \/ Strikes(e, k))
      /\ (\A k : k \in unsure \ unsure' => Strikes(e, k))
      => Returns(queue', held', unsure')
  BY <1>3 DEF Returns
<1> QED BY <1>2, <1>4

(* The next event is taken: the others still are on their way, and so is   *)
(* the one that is to follow a press.                                      *)
LEMMA KeptTaken ==
    ASSUME ClientTypes, queue # <<>>, queue' = Tail(queue), held' = held, unsure' = unsure,
           Returns(queue, held, unsure)
    PROVE  /\ Returns(queue', held', unsure')
           /\ \A k : (\E i \in 1..Len(queue) : Strikes(queue[i], k)) =>
                     \/ \E i \in 1..Len(queue') : Strikes(queue'[i], k)
                     \/ Strikes(Head(queue), k)
           /\ Head(queue).kind = "press" /\ Head(queue).key \notin unsure =>
                  \/ Head(queue).key \in held
                  \/ \E i \in 1..Len(queue') : Strikes(queue'[i], Head(queue).key)
<1>1. /\ Len(queue) \in Nat /\ Len(queue') = Len(queue) - 1 /\ 1 \in 1..Len(queue)
      /\ Head(queue) = queue[1]
      /\ \A i \in 1..(Len(queue) - 1) : i + 1 \in 1..Len(queue) /\ queue'[i] = queue[i + 1]
  BY QueueShrinks
<1>2. ASSUME NEW i \in 1..Len(queue), i # 1
      PROVE  i - 1 \in 1..Len(queue') /\ queue'[i - 1] = queue[i]
  <2>1. i - 1 \in 1..(Len(queue) - 1) /\ (i - 1) + 1 = i
    BY <1>1, <1>2
  <2> QED BY <2>1, <1>1
<1>3. ASSUME NEW k, \E i \in 1..Len(queue) : Strikes(queue[i], k), ~Strikes(Head(queue), k)
      PROVE  \E i \in 1..Len(queue') : Strikes(queue'[i], k)
  <2>1. PICK i \in 1..Len(queue) : Strikes(queue[i], k)
    BY <1>3
  <2>2. i # 1
    BY <2>1, <1>1, <1>3
  <2> QED BY <2>1, <2>2, <1>2
<1>4. ASSUME Head(queue).kind = "press", Head(queue).key \notin unsure, Head(queue).key \notin held
      PROVE  \E i \in 1..Len(queue') : Strikes(queue'[i], Head(queue).key)
  <2>1. PICK j \in (1 + 1)..Len(queue) : Strikes(queue[j], queue[1].key)
    BY <1>1, <1>4 DEF Returns
  <2>2. j \in 1..Len(queue) /\ j # 1
    BY <1>1
  <2> QED BY <2>1, <2>2, <1>1, <1>2
<1>5. ASSUME NEW i \in 1..Len(queue'), queue'[i].kind = "press", queue'[i].key \notin unsure,
             queue'[i].key \notin held
      PROVE  \E j \in (i + 1)..Len(queue') : Strikes(queue'[j], queue'[i].key)
  <2>1. i + 1 \in 1..Len(queue) /\ queue'[i] = queue[i + 1] /\ i \in Nat
    BY <1>1
  <2>2. PICK j \in ((i + 1) + 1)..Len(queue) : Strikes(queue[j], queue[i + 1].key)
    BY <2>1, <1>5 DEF Returns
  <2>3. j \in 1..Len(queue) /\ j # 1 /\ j - 1 \in (i + 1)..Len(queue')
    BY <2>1, <1>1
  <2>4. Strikes(queue'[j - 1], queue'[i].key)
    BY <2>1, <2>2, <2>3, <1>2
  <2> QED BY <2>3, <2>4
<1>6. Returns(queue', held', unsure')
  BY <1>5 DEF Returns
<1> QED BY <1>3, <1>4, <1>6

(* A stroke that is sent: what it says of its key is so.                   *)
LEMMA StrokeSent ==
    ASSUME ClientTypes, KeysIInv, NEW k \in Keys, NEW what \in Strokes, NEW hd \in SUBSET Keys,
           NEW u \in SUBSET Keys, mods' = mods,
           queue' = Append(queue, [kind |-> what, key |-> k, held |-> hd, unsure |-> u]),
           unsure' = (unsure \union Client!Mixed) \ ({k} \ Levelled),
           IF what = "press" THEN held' = held \union {k} /\ hd = held' /\ u = unsure'
                             ELSE held' = held \ {k} /\ hd = held /\ u = unsure
    PROVE  KeysIInv'
<1> DEFINE e == [kind |-> what, key |-> k, held |-> hd, unsure |-> u]
<1>1. e \in Events /\ e.kind = what /\ e.key = k /\ e.held = hd /\ e.unsure = u
      /\ what \in {"press", "release"} /\ Strikes(e, k) /\ queue' = Append(queue, e)
  BY DEF Events, KeyEvents, Strikes, Strokes
<1> HIDE DEF e
<1>2. /\ held \in SUBSET Keys /\ unsure \in SUBSET Keys
      /\ unsure \intersect Levelled \subseteq unsure' /\ unsure \ {k} \subseteq unsure'
  BY DEF ClientTypes
<1>3. ASSUME NEW b \in SUBSET Keys, Alike(b, held, unsure)
      PROVE  /\ After(e, b) \in SUBSET Keys /\ Alike(After(e, b), held', unsure')
             /\ Shows(e, b, After(e, b), unsure')
  <2>1. CASE what = "press"
    <3>1. After(e, b) = b \union {k} /\ Seen(e, b) = b \union {k}
      BY <1>1, <2>1 DEF After, Seen
    <3>2. Alike(b \union {k}, held', unsure')
      BY <2>1, <1>2, <1>3 DEF Alike
    <3>3. Alike(Seen(e, b), e.held, e.unsure \union (unsure' \intersect Levelled))
      BY <3>1, <3>2, <2>1, <1>1 DEF Alike
    <3> QED BY <3>1, <3>2, <3>3 DEF Shows
  <2>2. CASE what = "release"
    <3>1. After(e, b) = b \ {k} /\ Seen(e, b) = b
      BY <1>1, <2>2 DEF After, Seen
    <3>2. Alike(b \ {k}, held', unsure')
      BY <2>2, <1>2, <1>3 DEF Alike
    <3>3. Alike(Seen(e, b), e.held, e.unsure \union (unsure' \intersect Levelled))
      BY <3>1, <2>2, <1>1, <1>3 DEF Alike
    <3> QED BY <3>1, <3>2, <3>3 DEF Shows
  <2> QED BY <2>1, <2>2, <1>1
<1>4. Led'
  BY <1>1, <1>2, <1>3, LedSent DEF KeysIInv
<1>5. Returns(queue', held', unsure')
  <2>1. e.kind = "press" => e.key \in held'
    BY <1>1
  <2>2. \A j : j \in held \ held' => j \in unsure' \/ Strikes(e, j)
    BY <1>1
  <2>3. \A j : j \in unsure \ unsure' => Strikes(e, j)
    BY <1>1, <1>2
  <2> QED BY <2>1, <2>2, <2>3, <1>1, KeptSent DEF KeysIInv
<1>6. ASSUME NEW m \in mods, m[1] \notin unsure'
      PROVE  /\ m[1] \in held' \/ \E i \in 1..Len(queue') : Strikes(queue'[i], m[1])
             /\ m[1] \in Levelled => m[2] = Level(held')
  <2>0. \A j : (\E i \in 1..Len(queue) : Strikes(queue[i], j)) \/ Strikes(e, j) =>
                 \E i \in 1..Len(queue') : Strikes(queue'[i], j)
    BY <1>1, KeptSent
  <2>1. CASE m[1] = k
    <3>1. \E i \in 1..Len(queue') : Strikes(queue'[i], m[1])
      BY <2>0, <2>1, <1>1
    <3>2. m[1] \in Levelled => m[1] \notin unsure /\ m[1] \notin Client!Mixed
      BY <1>6
    <3> QED BY <3>1, <3>2, LevelKept DEF KeysIInv
  <2>2. CASE m[1] # k
    <3>1. m[1] \notin unsure /\ m[1] \notin Client!Mixed
      BY <2>2, <1>6
    <3>2. m[1] \in held \/ \E i \in 1..Len(queue) : Strikes(queue[i], m[1])
      BY <3>1 DEF KeysIInv, Kept
    <3>3. m[1] \in held' \/ \E i \in 1..Len(queue') : Strikes(queue'[i], m[1])
      BY <3>2, <2>0, <2>2
    <3> QED BY <3>1, <3>3, LevelKept DEF KeysIInv
  <2> QED BY <2>1, <2>2
<1>7. Kept(queue', mods', held', unsure')
  BY <1>6 DEF Kept
<1> QED BY <1>4, <1>5, <1>7 DEF KeysIInv

(* An event that is no stroke is sent.                                     *)
LEMMA KeysLeft ==
    ASSUME ClientTypes, KeysIInv, NEW e \in Events, e.kind \notin Strokes,
           queue' = Append(queue, e), UNCHANGED <<mods, held, unsure>>
    PROVE  KeysIInv'
<1>1. \A b \in SUBSET Keys : After(e, b) = b /\ Shows(e, b, After(e, b), unsure')
  BY DEF After, Shows, Strokes
<1>2. Led'
  BY <1>1, LedSent DEF KeysIInv
<1>3. Returns(queue', held', unsure')
  <2>1. e.kind # "press"
    BY DEF Strokes
  <2> QED BY <2>1, KeptSent DEF KeysIInv
<1>4. Kept(queue', mods', held', unsure')
  <2>1. \A k : (\E i \in 1..Len(queue) : Strikes(queue[i], k)) =>
                 \E i \in 1..Len(queue') : Strikes(queue'[i], k)
    BY KeptSent
  <2> QED BY <2>1 DEF KeysIInv, Kept
<1> QED BY <1>2, <1>3, <1>4 DEF KeysIInv

(* An event that is no stroke is taken.                                    *)
LEMMA KeysStay ==
    ASSUME ClientTypes, KeysIInv, queue # <<>>, queue' = Tail(queue),
           Head(queue).kind \notin Strokes, UNCHANGED <<mods, held, unsure>>
    PROVE  KeysIInv'
<1>1. \A b : After(Head(queue), b) = b
  BY DEF After, Strokes
<1>2. Led'
  BY <1>1, LedTaken DEF KeysIInv
<1>3. \A k : ~Strikes(Head(queue), k)
  BY DEF Strikes
<1>4. Kept(queue', mods', held', unsure')
  <2>1. \A k : (\E i \in 1..Len(queue) : Strikes(queue[i], k)) =>
                 \E i \in 1..Len(queue') : Strikes(queue'[i], k)
    BY <1>3, KeptTaken DEF KeysIInv
  <2> QED BY <2>1 DEF KeysIInv, Kept
<1> QED BY <1>2, <1>4, KeptTaken DEF KeysIInv

-----------------------------------------------------------------------------
(* The pastes on their way: requests and answers of the client's windows.  *)
Own(e) == e.kind \in {"request", "notify"} /\ e.requestor \in Wins
Pair(e) == <<e.requestor, e.sel>>

(* What holds of one: somebody waits for it, its text is there.  Unless it *)
(* met another, it is the one that waits, and the text what the answer is. *)
Texted(e) == e.kind = "notify" /\ e.property # NONE
Due(e, to, has, met) ==
    /\ to[e.sel] # NONE
    /\ Texted(e) => has[e.requestor] # NONE
    /\ e.kind = "request" => e.target = "utf8" /\ e.property = "utf8"
    /\ Pair(e) \notin met => /\ to[e.sel] = e.requestor
                             /\ Texted(e) => has[e.requestor] = e.text

(* A window was told to answer a paste, and has not.                       *)
Told(r) == r.kind = "copy" /\ r.win \in Wins /\ Own(r.of)

(* Two of one window or of one selection have met.                         *)
Met(a, b, met) ==
    a.requestor = b.requestor \/ a.sel = b.sel => Pair(a) \in met /\ Pair(b) \in met
Awaited(q, r, to, has, met) ==
    /\ \A i \in 1..Len(q) : Own(q[i]) => Due(q[i], to, has, met)
    /\ Told(r) => Due(r.of, to, has, met)
    /\ \A i, j \in 1..Len(q) : Own(q[i]) /\ Own(q[j]) /\ i # j => Met(q[i], q[j], met)
    /\ Told(r) => \A i \in 1..Len(q) : Own(q[i]) => Met(r.of, q[i], met)
Pastes == Awaited(queue, report, pasting, property, crossed)

ClientIInv == ClientTypes /\ KeysIInv /\ Pastes /\ EventsRight

(* An event that is no paste is sent.                                      *)
LEMMA PastesLeft ==
    ASSUME ClientTypes, Pastes, NEW e \in Events, ~Own(e), queue' = Append(queue, e),
           UNCHANGED <<property, pasting, crossed, report>>
    PROVE  Pastes'
<1>1. /\ Len(queue) \in Nat /\ Len(queue') = Len(queue) + 1
      /\ queue'[Len(queue) + 1] = e
      /\ \A i \in 1..Len(queue) : queue'[i] = queue[i]
  BY QueueGrows
<1>2. ASSUME NEW i \in 1..Len(queue'), Own(queue'[i])
      PROVE  i \in 1..Len(queue) /\ queue'[i] = queue[i] /\ Own(queue[i])
  BY <1>1, <1>2
<1>3. Awaited(queue', report, pasting, property, crossed)
  BY <1>2 DEF Pastes, Awaited
<1> QED BY <1>3 DEF Pastes

(* The report stays what it was.                                           *)
LEMMA ReportKept ==
    ASSUME EventsRight, UNCHANGED <<report, mousetime, mousestate>>
    PROVE  EventsRight'
BY DEF EventsRight, Client!EventsRight, Client!ModifiersRight, Client!ClicksRight, Client!PasteRight

LEMMA Sending ==
    ASSUME ClientIInv, NEW e \in Events, ~Own(e), e.kind \notin Strokes, queue' = Append(queue, e),
           UNCHANGED <<property, pasting, mods, crossed, report, held, unsure,
                       mousetime, mousestate>>,
           owner' \in [Selections -> Wins \union {Peer, NONE}]
    PROVE  ClientIInv'
<1>1. ClientTypes'
  BY QueueGrows DEF ClientIInv, ClientTypes
<1>2. KeysIInv'
  BY KeysLeft DEF ClientIInv
<1> QED BY <1>1, <1>2, PastesLeft, ReportKept DEF ClientIInv

(* Nothing is sent.                                                        *)
LEMMA Staying ==
    ASSUME ClientIInv,
           UNCHANGED <<queue, property, pasting, mods, crossed, report, held, unsure,
                       mousetime, mousestate>>,
           owner' \in [Selections -> Wins \union {Peer, NONE}]
    PROVE  ClientIInv'
<1>1. ClientTypes'
  BY DEF ClientIInv, ClientTypes
<1>2. KeysIInv'
  BY DEF ClientIInv, KeysIInv, Led
<1>3. Pastes'
  BY DEF ClientIInv, Pastes
<1> QED BY <1>1, <1>2, <1>3, ReportKept DEF ClientIInv

(* The next event is taken.  A paste is over or its window is told of it.  *)
LEMMA Taking ==
    ASSUME ClientIInv, queue # <<>>, queue' = Tail(queue), ~Told(report),
           UNCHANGED <<owner, property, pasting, held, unsure, crossed>>,
           mods' \in SUBSET (Keys \X Levels), \A m \in mods' : m[1] \notin Levelled => m[2] = "plain",
           KeysIInv',
           report'.kind = "copy" => report'.of = Head(queue) /\ Head(queue) \in Requests,
           EventsRight'
    PROVE  ClientIInv'
<1>0. ClientTypes /\ Pastes
  BY DEF ClientIInv
<1>1. /\ queue' \in Seq(Events) /\ Len(queue) \in Nat
      /\ Len(queue') = Len(queue) - 1 /\ 1 \in 1..Len(queue)
      /\ Head(queue) = queue[1] /\ Head(queue) \in Events
      /\ \A i \in 1..(Len(queue) - 1) : i + 1 \in 1..Len(queue) /\ queue'[i] = queue[i + 1]
  BY <1>0, QueueShrinks
<1>2. ClientTypes'
  BY <1>0, <1>1 DEF ClientTypes
<1>4. Pastes'
  <2>1. ASSUME NEW i \in 1..Len(queue'), Own(queue'[i])
        PROVE  /\ i + 1 \in 1..Len(queue) /\ i + 1 # 1
               /\ queue'[i] = queue[i + 1] /\ Own(queue[i + 1])
    BY <1>1, <2>1
  <2>2. ASSUME NEW i \in 1..Len(queue'), Own(queue'[i])
        PROVE  Due(queue'[i], pasting, property, crossed)
    BY <2>1, <2>2, <1>0 DEF Pastes, Awaited
  <2>3. ASSUME Told(report')
        PROVE  /\ Due(report'.of, pasting, property, crossed)
               /\ Own(queue[1]) /\ report'.of = queue[1]
    <3>1. report'.of = queue[1] /\ Own(queue[1])
      BY <2>3, <1>1 DEF Told
    <3>2. Due(queue[1], pasting, property, crossed)
      BY <3>1, <1>0, <1>1 DEF Pastes, Awaited
    <3> QED BY <3>1, <3>2
  <2>4. \A i, j \in 1..Len(queue) : Own(queue[i]) /\ Own(queue[j]) /\ i # j =>
            Met(queue[i], queue[j], crossed)
    BY <1>0 DEF Pastes, Awaited
  <2>5. ASSUME NEW i \in 1..Len(queue'), NEW j \in 1..Len(queue'),
               Own(queue'[i]), Own(queue'[j]), i # j
        PROVE  Met(queue'[i], queue'[j], crossed)
    <3>1. i + 1 # j + 1
      BY <1>1, <2>5
    <3> QED BY <3>1, <2>1, <2>4, <2>5
  <2>6. ASSUME Told(report'), NEW i \in 1..Len(queue'), Own(queue'[i])
        PROVE  Met(report'.of, queue'[i], crossed)
    BY <2>1, <2>3, <2>4, <2>6, <1>1
  <2>7. Awaited(queue', report', pasting, property, crossed)
    BY <2>2, <2>3, <2>5, <2>6 DEF Awaited
  <2> QED BY <2>7 DEF Pastes
<1> QED BY <1>2, <1>4 DEF ClientIInv

LEMMA ClientStarts == Client!Init => ClientIInv
<1> SUFFICES ASSUME Client!Init PROVE ClientIInv
  OBVIOUS
<1>1. /\ queue = <<>> /\ report = [kind |-> "nothing"] /\ mods = {} /\ held = {} /\ unsure = {}
      /\ owner = [s \in Selections |-> NONE] /\ property = [w \in Wins |-> NONE]
      /\ pasting = [s \in Selections |-> NONE] /\ crossed = {}
  BY DEF Client!Init, Client!Nothing
<1>2. ClientTypes
  <2>1. <<>> \in Seq(Events)
    OBVIOUS
  <2>2. /\ owner \in [Selections -> Wins \union {Peer, NONE}]
        /\ property \in [Wins -> Texts \union {NONE}]
        /\ pasting \in [Selections -> Wins \union {NONE}]
    BY <1>1
  <2> QED BY <1>1, <2>1, <2>2 DEF ClientTypes
<1>3. Led
  <2> DEFINE h == [i \in 0..0 |-> {}]
  <2>1. /\ Len(queue) = 0 /\ h \in [0..0 -> SUBSET Keys] /\ h[0] = {}
        /\ \A i \in 1..0 : FALSE
    BY <1>1
  <2> HIDE DEF h
  <2>2. Leads(h, queue, mods, held, unsure)
    BY <1>1, <2>1 DEF Leads, Alike, Known
  <2> QED BY <2>2 DEF Led
<1>4. Pastes /\ KeysIInv
  <2>1. Len(queue) = 0 /\ (\A i \in 1..0 : FALSE) /\ ~Told(report)
    BY <1>1 DEF Told
  <2>2. Kept(queue, mods, held, unsure) /\ Returns(queue, held, unsure)
    BY <1>1, <2>1 DEF Kept, Returns
  <2> QED BY <1>1, <1>3, <2>1, <2>2 DEF Pastes, Awaited, KeysIInv
<1>5. EventsRight
  BY <1>1 DEF EventsRight, Client!EventsRight, Client!ModifiersRight,
         Client!ClicksRight, Client!PasteRight
<1> QED BY <1>2, <1>4, <1>5 DEF ClientIInv

(* The same client may send the request to itself.                         *)
LEMMA PasteSends ==
    ASSUME ClientIInv, NEW w \in Wins, NEW s \in Selections, Client!Paste(w, s)
    PROVE  /\ property' \in [Wins -> Texts \union {NONE}]
           /\ \A v \in Wins : property[v] # NONE => property'[v] # NONE
           /\ \A v \in Wins \ {w} : property'[v] = property[v]
           /\ \E e \in Events :
                /\ queue' = Append(queue, e) /\ e.kind \in {"request", "notify"}
                /\ e.requestor = w /\ e.sel = s
                /\ e.kind = "request" => e.target = "utf8" /\ e.property = "utf8"
                /\ Texted(e) => property'[w] # NONE /\ property'[w] = e.text
<1>0. ClientTypes
  BY DEF ClientIInv
<1> DEFINE asks == [kind |-> "request", sel |-> s, requestor |-> w,
                    target |-> "utf8", property |-> "utf8"]
           says == [kind |-> "notify", sel |-> s, requestor |-> w, property |-> "utf8",
                    text |-> Peer]
           refuses == [kind |-> "notify", sel |-> s, requestor |-> w, property |-> NONE]
<1>1. asks \in Events /\ says \in Events /\ refuses \in Events
  BY DEF Events, Requests, Notices, Refusals, Texts
<1>2. \/ queue' = Append(queue, asks) /\ property' = property
      \/ queue' = Append(queue, says) /\ property' = [property EXCEPT ![w] = Peer]
      \/ queue' = Append(queue, refuses) /\ property' = property
  BY DEF Client!Paste, Client!Sent
<1>3. CASE queue' = Append(queue, asks) /\ property' = property
  BY <1>0, <1>1, <1>3 DEF ClientTypes, Texted
<1>4. CASE queue' = Append(queue, says) /\ property' = [property EXCEPT ![w] = Peer]
  <2>1. /\ property' \in [Wins -> Texts \union {NONE}] /\ property'[w] = Peer
        /\ \A v \in Wins : property[v] # NONE => property'[v] # NONE
        /\ \A v \in Wins \ {w} : property'[v] = property[v]
    BY <1>0, <1>4, ClientAssumption DEF ClientTypes, Texts
  <2> QED BY <1>1, <1>4, <2>1, ClientAssumption DEF Texted
<1>5. CASE queue' = Append(queue, refuses) /\ property' = property
  BY <1>0, <1>1, <1>5 DEF ClientTypes, Texted
<1> QED BY <1>2, <1>3, <1>4, <1>5

(* Those that were under way stay as they were, or have met this one.      *)
LEMMA PasteMeets ==
    ASSUME ClientTypes, Pastes, NEW w \in Wins, NEW s \in Selections,
           crossed' = (crossed \intersect Client!UnderWay) \union Client!Rivals(w, s)
                      \union (IF Client!Rivals(w, s) = {} THEN {} ELSE {<<w, s>>}),
           pasting' = [pasting EXCEPT ![s] = w],
           \A v \in Wins : property[v] # NONE => property'[v] # NONE,
           \A v \in Wins \ {w} : property'[v] = property[v],
           NEW d \in Events, Pair(d) \in Client!UnderWay, Own(d), Due(d, pasting, property, crossed)
    PROVE  /\ Due(d, pasting', property', crossed')
           /\ Pair(d) \in crossed => Pair(d) \in crossed'
           /\ d.requestor = w \/ d.sel = s => Pair(d) \in crossed' /\ <<w, s>> \in crossed'
<1>1. d.requestor \in Wins /\ d.sel \in Selections
  BY DEF Own, Events, KeyEvents, ButtonEvents, Requests, Notices, Refusals, PlainEvents, Strokes
<1>2. Pair(d) \in crossed => Pair(d) \in crossed'
  OBVIOUS
<1>3. ASSUME d.requestor = w \/ d.sel = s PROVE Pair(d) \in crossed' /\ <<w, s>> \in crossed'
  <2>1. Pair(d) \in Client!Rivals(w, s)
    BY <1>3 DEF Client!Rivals, Pair
  <2> QED BY <2>1
<1>4. pasting'[d.sel] # NONE
  BY <1>1, ClientAssumption DEF Due, ClientTypes
<1>5. Texted(d) => property'[d.requestor] # NONE
  BY <1>1 DEF Due
<1>6. ASSUME Pair(d) \notin crossed'
      PROVE  pasting'[d.sel] = d.requestor /\ (Texted(d) => property'[d.requestor] = d.text)
  <2>1. d.requestor # w /\ d.sel # s /\ Pair(d) \notin crossed
    BY <1>2, <1>3, <1>6
  <2> QED BY <2>1, <1>1 DEF Due, ClientTypes
<1>7. Due(d, pasting', property', crossed')
  BY <1>4, <1>5, <1>6 DEF Due
<1> QED BY <1>2, <1>3, <1>7

LEMMA PasteKeeps ==
    ASSUME ClientIInv, NEW w \in Wins, NEW s \in Selections, Client!Paste(w, s)
    PROVE  ClientIInv'
<1>0. ClientTypes /\ Pastes /\ KeysIInv
  BY DEF ClientIInv
<1>1. /\ pasting' = [pasting EXCEPT ![s] = w]
      /\ crossed' = (crossed \intersect Client!UnderWay) \union Client!Rivals(w, s)
                    \union (IF Client!Rivals(w, s) = {} THEN {} ELSE {<<w, s>>})
      /\ UNCHANGED <<owner, mods, mousetime, mousestate, held, unsure, report>>
  BY DEF Client!Paste
<1>2. PICK e \in Events :
        /\ queue' = Append(queue, e) /\ e.kind \in {"request", "notify"}
        /\ e.requestor = w /\ e.sel = s
        /\ e.kind = "request" => e.target = "utf8" /\ e.property = "utf8"
        /\ Texted(e) => property'[w] # NONE /\ property'[w] = e.text
  BY PasteSends
<1>3. /\ property' \in [Wins -> Texts \union {NONE}]
      /\ \A v \in Wins : property[v] # NONE => property'[v] # NONE
      /\ \A v \in Wins \ {w} : property'[v] = property[v]
  BY PasteSends
<1>4. /\ queue' \in Seq(Events) /\ Len(queue) \in Nat /\ Len(queue') = Len(queue) + 1
      /\ queue'[Len(queue) + 1] = e
      /\ \A i \in 1..Len(queue) : queue'[i] = queue[i] /\ queue[i] \in Events
  BY <1>0, <1>2, QueueGrows DEF ClientTypes
<1>5. ClientTypes'
  <2>1. pasting' \in [Selections -> Wins \union {NONE}]
    BY <1>0, <1>1 DEF ClientTypes
  <2> QED BY <1>0, <1>1, <1>3, <1>4, <2>1 DEF ClientTypes
<1>6. KeysIInv'
  <2>1. e.kind \notin Strokes
    BY <1>2 DEF Strokes
  <2> QED BY <2>1, <1>0, <1>1, <1>2, KeysLeft
<1>7. Due(e, pasting', property', crossed')
  <2>1. pasting'[s] = w /\ w # NONE
    BY <1>0, <1>1, ClientAssumption DEF ClientTypes
  <2> QED BY <2>1, <1>2 DEF Due
<1>8. ASSUME NEW d \in Events, Own(d), Pair(d) \in Client!UnderWay,
             Due(d, pasting, property, crossed)
      PROVE  /\ Due(d, pasting', property', crossed')
             /\ Pair(d) \in crossed => Pair(d) \in crossed'
             /\ Met(e, d, crossed')
  <2>1. /\ Due(d, pasting', property', crossed')
        /\ Pair(d) \in crossed => Pair(d) \in crossed'
        /\ d.requestor = w \/ d.sel = s => Pair(d) \in crossed' /\ <<w, s>> \in crossed'
    BY <1>0, <1>1, <1>3, <1>8, PasteMeets
  <2> QED BY <2>1, <1>2 DEF Met, Pair
<1>9. \A i \in 1..Len(queue) : Own(queue[i]) =>
         /\ Due(queue[i], pasting', property', crossed')
         /\ Pair(queue[i]) \in crossed => Pair(queue[i]) \in crossed'
         /\ Met(e, queue[i], crossed')
  <2> SUFFICES ASSUME NEW i \in 1..Len(queue), Own(queue[i])
               PROVE  /\ Due(queue[i], pasting', property', crossed')
                      /\ Pair(queue[i]) \in crossed => Pair(queue[i]) \in crossed'
                      /\ Met(e, queue[i], crossed')
    OBVIOUS
  <2>1. i \in DOMAIN queue /\ Client!Own(queue[i])
    BY <1>0 DEF ClientTypes, Own, Client!Own
  <2>2. Pair(queue[i]) \in Client!UnderWay
    BY <2>1 DEF Client!UnderWay, Pair, Client!Pair
  <2>3. Due(queue[i], pasting, property, crossed)
    BY <1>0 DEF Pastes, Awaited
  <2> QED BY <2>2, <2>3, <1>4, <1>8
<1>10. Told(report) =>
         /\ Due(report.of, pasting', property', crossed')
         /\ Pair(report.of) \in crossed => Pair(report.of) \in crossed'
         /\ Met(e, report.of, crossed')
  <2> SUFFICES ASSUME Told(report)
               PROVE  /\ Due(report.of, pasting', property', crossed')
                      /\ Pair(report.of) \in crossed => Pair(report.of) \in crossed'
                      /\ Met(e, report.of, crossed')
    OBVIOUS
  <2>1. Client!Told /\ Own(report.of) /\ report.of \in Events
    BY <1>0 DEF Told, Own, Client!Told, Client!Own, ClientTypes, Events
  <2>2. Pair(report.of) \in Client!UnderWay
    BY <2>1 DEF Client!UnderWay, Pair, Client!Pair
  <2>3. Due(report.of, pasting, property, crossed)
    BY <1>0 DEF Pastes, Awaited
  <2> QED BY <2>1, <2>2, <2>3, <1>8
<1>11. \A i \in 1..Len(queue') : i \in 1..Len(queue) \/ i = Len(queue) + 1
  BY <1>4
<1>12. \A i \in 1..Len(queue') : Own(queue'[i]) => Due(queue'[i], pasting', property', crossed')
  BY <1>4, <1>7, <1>9, <1>11
<1>13. ASSUME NEW i \in 1..Len(queue'), NEW j \in 1..Len(queue'),
              Own(queue'[i]), Own(queue'[j]), i # j
       PROVE  Met(queue'[i], queue'[j], crossed')
  <2>1. CASE i \in 1..Len(queue) /\ j \in 1..Len(queue)
    <3>1. Met(queue[i], queue[j], crossed)
      BY <2>1, <1>0, <1>4, <1>13 DEF Pastes, Awaited
    <3> QED BY <3>1, <2>1, <1>4, <1>9, <1>13 DEF Met
  <2>2. CASE i = Len(queue) + 1 /\ j \in 1..Len(queue)
    BY <2>2, <1>4, <1>9, <1>13
  <2>3. CASE j = Len(queue) + 1 /\ i \in 1..Len(queue)
    <3>1. Met(e, queue[i], crossed')
      BY <2>3, <1>4, <1>9, <1>13
    <3> QED BY <3>1, <2>3, <1>4 DEF Met
  <2> QED BY <2>1, <2>2, <2>3, <1>11, <1>13
<1>14. ASSUME Told(report), NEW i \in 1..Len(queue'), Own(queue'[i])
       PROVE  Met(report.of, queue'[i], crossed')
  <2>1. CASE i \in 1..Len(queue)
    <3>1. Met(report.of, queue[i], crossed)
      BY <2>1, <1>0, <1>4, <1>14 DEF Pastes, Awaited
    <3> QED BY <3>1, <2>1, <1>4, <1>9, <1>10, <1>14 DEF Met
  <2>2. CASE i = Len(queue) + 1
    BY <2>2, <1>4, <1>10, <1>14 DEF Met
  <2> QED BY <2>1, <2>2, <1>11
<1>15. Awaited(queue', report, pasting', property', crossed')
  BY <1>10, <1>12, <1>13, <1>14 DEF Awaited
<1>16. Pastes'
  BY <1>1, <1>15 DEF Pastes
<1> QED BY <1>1, <1>5, <1>6, <1>16, ReportKept DEF ClientIInv

LEMMA AnswerKeeps == ASSUME ClientIInv, Client!Answer PROVE ClientIInv'
<1>0. ClientTypes /\ Pastes /\ KeysIInv
  BY DEF ClientIInv
<1> DEFINE of == report.of
           to == of.requestor
           e == [kind |-> "notify", sel |-> of.sel, requestor |-> to,
                 property |-> "utf8", text |-> report.win]
<1>1. /\ report.kind = "copy" /\ report.win \in Wins /\ report' = [kind |-> "nothing"]
      /\ UNCHANGED <<owner, pasting, mods, mousetime, mousestate,
                     clock, held, unsure, crossed>>
  BY DEF Client!Answer, Client!Nothing, Client!client, Client!world
<1>2. of \in Requests
  BY <1>0, <1>1 DEF ClientTypes
<1>3. EventsRight'
  BY <1>1 DEF EventsRight, Client!EventsRight, Client!ModifiersRight,
         Client!ClicksRight, Client!PasteRight
<1>4. ~Told(report')
  BY <1>1 DEF Told
<1>5. CASE UNCHANGED <<property, queue>>
  <2>1. ClientTypes' /\ KeysIInv'
    BY <1>0, <1>1, <1>5 DEF ClientTypes, KeysIInv, Led
  <2>2. Awaited(queue, report', pasting, property, crossed)
    BY <1>0, <1>4 DEF Pastes, Awaited
  <2>3. Pastes'
    BY <1>1, <1>5, <2>2 DEF Pastes
  <2> QED BY <1>3, <2>1, <2>3 DEF ClientIInv
<1>6. CASE to \in Wins /\ ~UNCHANGED <<property, queue>>
  <2>1. Own(of) /\ Told(report)
    BY <1>1, <1>2, <1>6 DEF Own, Told, Requests
  <2>2. Due(of, pasting, property, crossed) /\ of.target = "utf8" /\ of.property = "utf8"
    BY <2>1, <1>0, <1>2 DEF Pastes, Awaited, Due, Requests
  <2>3. queue' = Append(queue, e) /\ property' = [property EXCEPT ![to] = report.win]
    BY <1>6, <2>2 DEF Client!Answer, Client!Sent
  <2>4. e \in Events /\ of.sel \in Selections /\ e.kind \notin Strokes
    BY <1>1, <1>2, <1>6 DEF Events, Notices, Requests, Texts, Strokes
  <2>5. /\ queue' \in Seq(Events) /\ Len(queue) \in Nat /\ Len(queue') = Len(queue) + 1
        /\ queue'[Len(queue) + 1] = e
        /\ \A i \in 1..Len(queue) : queue'[i] = queue[i]
    BY <1>0, <2>3, <2>4, QueueGrows
  <2>6. /\ property' \in [Wins -> Texts \union {NONE}] /\ property'[to] = report.win
        /\ \A v \in Wins : property[v] # NONE => property'[v] # NONE
        /\ \A v \in Wins \ {to} : property'[v] = property[v]
    BY <1>0, <1>1, <1>6, <2>3, ClientAssumption DEF ClientTypes, Texts
  <2>7. ClientTypes'
    BY <1>0, <1>1, <2>5, <2>6 DEF ClientTypes
  <2>8. KeysIInv'
    <3> HIDE DEF e
    <3> QED BY <1>0, <1>1, <2>3, <2>4, KeysLeft
  <2>9. Due(e, pasting, property', crossed) /\ Pair(e) = Pair(of) /\ e.requestor = to /\ e.sel = of.sel
    <3>1. Pair(e) = Pair(of) /\ e.kind = "notify" /\ e.requestor = to /\ e.sel = of.sel
          /\ e.text = report.win
      BY DEF Pair
    <3>2. property'[to] = e.text /\ property'[to] # NONE
      BY <3>1, <1>1, <2>6, ClientAssumption
    <3> HIDE DEF e
    <3> QED BY <3>1, <3>2, <2>2 DEF Due
  <2> HIDE DEF e
  <2>10. ASSUME NEW i \in 1..Len(queue), Own(queue[i])
         PROVE  Due(queue[i], pasting, property', crossed) /\ Met(e, queue[i], crossed)
    <3>1. Due(queue[i], pasting, property, crossed) /\ Met(of, queue[i], crossed)
      BY <2>1, <2>10, <1>0 DEF Pastes, Awaited
    <3>2. Met(e, queue[i], crossed)
      BY <3>1, <2>9 DEF Met
    <3>3. CASE queue[i].requestor = to
      <4>1. Pair(queue[i]) \in crossed
        BY <3>1, <3>3 DEF Met
      <4>2. property'[to] # NONE
        BY <1>1, <2>6, ClientAssumption
      <4> QED BY <4>1, <4>2, <3>1, <3>2, <3>3 DEF Due
    <3>4. CASE queue[i].requestor # to
      <4>1. property'[queue[i].requestor] = property[queue[i].requestor]
        BY <3>4, <2>6, <2>10 DEF Own
      <4> QED BY <4>1, <3>1, <3>2 DEF Due
    <3> QED BY <3>3, <3>4
  <2>11. Awaited(queue', report', pasting, property', crossed)
    <3>1. \A i \in 1..Len(queue') : i \in 1..Len(queue) \/ i = Len(queue) + 1
      BY <2>5
    <3>2. \A i \in 1..Len(queue') :
             Own(queue'[i]) => Due(queue'[i], pasting, property', crossed)
      BY <3>1, <2>5, <2>9, <2>10
    <3>3. ASSUME NEW i \in 1..Len(queue'), NEW j \in 1..Len(queue'),
                 Own(queue'[i]), Own(queue'[j]), i # j
          PROVE  Met(queue'[i], queue'[j], crossed)
      <4>1. CASE i \in 1..Len(queue) /\ j \in 1..Len(queue)
        BY <4>1, <3>3, <2>5, <1>0 DEF Pastes, Awaited
      <4>2. CASE i = Len(queue) + 1 /\ j \in 1..Len(queue)
        BY <4>2, <3>3, <2>5, <2>10
      <4>3. CASE j = Len(queue) + 1 /\ i \in 1..Len(queue)
        <5>1. Met(e, queue[i], crossed)
          BY <4>3, <3>3, <2>5, <2>10
        <5> QED BY <5>1, <4>3, <2>5 DEF Met
      <4> QED BY <4>1, <4>2, <4>3, <3>1, <3>3
    <3> QED BY <3>2, <3>3, <1>4 DEF Awaited
  <2>12. Pastes'
    BY <1>1, <2>11 DEF Pastes
  <2> QED BY <1>3, <2>7, <2>8, <2>12 DEF ClientIInv
<1> QED BY <1>5, <1>6, ClientAssumption DEF Client!Answer

LEMMA ReconnectKeeps == ASSUME ClientIInv, Client!Reconnect PROVE ClientIInv'
<1>0. ClientTypes /\ KeysIInv
  BY DEF ClientIInv
<1>1. /\ queue' = <<>> /\ report' = [kind |-> "nothing"]
      /\ owner' = [s \in Selections |-> IF owner[s] \in Wins THEN NONE ELSE owner[s]]
      /\ property' = [w \in Wins |-> NONE]
      /\ unsure' = unsure \union held \union Client!Stroked /\ crossed' = {}
      /\ UNCHANGED <<pasting, mods, mousetime, mousestate, clock, held>>
  BY DEF Client!Reconnect, Client!Nothing, Client!client
<1>2. Client!Stroked \subseteq Keys
  <2> SUFFICES ASSUME NEW i \in DOMAIN queue, queue[i].kind \in Strokes PROVE queue[i].key \in Keys
    BY DEF Client!Stroked, Client!Strokes, Strokes
  <2>1. queue[i] \in Events
    BY <1>0 DEF ClientTypes
  <2> QED BY <2>1 DEF Events, KeyEvents, ButtonEvents, Requests, Notices, Refusals, PlainEvents, Strokes
<1>3. ClientTypes'
  <2>1. owner' \in [Selections -> Wins \union {Peer, NONE}]
    BY <1>0, <1>1 DEF ClientTypes
  <2>2. queue' \in Seq(Events)
    BY <1>1
  <2>3. property' \in [Wins -> Texts \union {NONE}]
    BY <1>1
  <2> QED BY <1>0, <1>1, <1>2, <2>1, <2>2, <2>3 DEF ClientTypes
<1>4. ASSUME NEW m \in mods PROVE m[1] \in unsure'
  <2>1. CASE \E i \in 1..Len(queue) : Strikes(queue[i], m[1])
    <3>1. PICK i \in DOMAIN queue : queue[i].kind \in Client!Strokes /\ queue[i].key = m[1]
      BY <2>1, <1>0 DEF Strikes, Strokes, Client!Strokes, ClientTypes
    <3>2. m[1] \in Client!Stroked
      BY <3>1 DEF Client!Stroked
    <3> QED BY <3>2, <1>1
  <2> QED BY <2>1, <1>0, <1>1 DEF KeysIInv, Kept
<1>5. KeysIInv'
  <2>1. Len(queue') = 0 /\ \A i \in 1..0 : FALSE
    BY <1>1
  <2> DEFINE known == {k \in Keys : Known(mods, k)}
             h == [i \in 0..0 |-> known]
  <2>2. h \in [0..0 -> SUBSET Keys] /\ h[0] = known
    OBVIOUS
  <2>3. Alike(known, held, unsure')
    BY <1>1, <1>4 DEF Alike, Known
  <2>4. \A k \in Keys : k \in known <=> Known(mods, k)
    OBVIOUS
  <2> HIDE DEF h, known
  <2>5. Leads(h, queue', mods', held', unsure')
    BY <1>1, <2>1, <2>2, <2>3, <2>4 DEF Leads
  <2>6. Led'
    BY <2>5 DEF Led
  <2>7. Kept(queue', mods', held', unsure') /\ Returns(queue', held', unsure')
    BY <1>1, <1>4, <2>1 DEF Kept, Returns
  <2> QED BY <2>6, <2>7 DEF KeysIInv
<1>6. Pastes'
  <2>1. Len(queue') = 0 /\ (\A i \in 1..0 : FALSE) /\ ~Told(report')
    BY <1>1 DEF Told
  <2>2. Awaited(queue', report', pasting', property', crossed')
    BY <1>1, <2>1 DEF Awaited
  <2> QED BY <2>2 DEF Pastes
<1>7. EventsRight'
  BY <1>1 DEF EventsRight, Client!EventsRight, Client!ModifiersRight,
         Client!ClicksRight, Client!PasteRight
<1> QED BY <1>3, <1>5, <1>6, <1>7 DEF ClientIInv

-----------------------------------------------------------------------------
(* The steps of the world and of the program but the pastes.               *)
LEMMA KeyboardKeeps == ASSUME ClientIInv, Client!Keyboard PROVE ClientIInv'
<1>0. /\ ClientTypes /\ KeysIInv /\ Pastes /\ EventsRight
      /\ held \in SUBSET Keys /\ unsure \in SUBSET Keys
  BY DEF ClientIInv, ClientTypes
<1>1. Client!Stroked \subseteq Keys
  <2> SUFFICES ASSUME NEW i \in DOMAIN queue, queue[i].kind \in Strokes PROVE queue[i].key \in Keys
    BY DEF Client!Stroked, Client!Strokes, Strokes
  <2>1. queue[i] \in Events
    BY <1>0 DEF ClientTypes
  <2> QED BY <2>1 DEF Events, KeyEvents, ButtonEvents, Requests, Notices, Refusals, PlainEvents, Strokes
<1>2. held' \in SUBSET Keys => Client!Mixed \subseteq Keys
  BY <1>0, <1>1 DEF Client!Mixed, Client!Unsettled
<1>3. ASSUME NEW k \in Keys, NEW what \in Strokes, NEW hd \in SUBSET Keys, NEW u \in SUBSET Keys,
             UNCHANGED <<owner, property, pasting, mods, crossed, report, mousetime, mousestate>>,
             queue' = Append(queue, [kind |-> what, key |-> k, held |-> hd, unsure |-> u]),
             unsure' = (unsure \union Client!Mixed) \ ({k} \ Levelled), held' \in SUBSET Keys,
             IF what = "press" THEN held' = held \union {k} /\ hd = held' /\ u = unsure'
                               ELSE held' = held \ {k} /\ hd = held /\ u = unsure
      PROVE  ClientIInv'
  <2> DEFINE e == [kind |-> what, key |-> k, held |-> hd, unsure |-> u]
  <2>1. e \in Events /\ ~Own(e) /\ queue' = Append(queue, e)
    BY <1>3 DEF Events, KeyEvents, Own, Strokes
  <2>2. unsure' \in SUBSET Keys
    BY <1>0, <1>2, <1>3
  <2>3. KeysIInv'
    BY <1>0, <1>3, StrokeSent
  <2> HIDE DEF e
  <2>4. ClientTypes'
    BY <2>1, <2>2, <1>0, <1>3, QueueGrows DEF ClientTypes
  <2>5. Pastes'
    BY <2>1, <1>0, <1>3, PastesLeft
  <2> QED BY <2>3, <2>4, <2>5, <1>0, <1>3, ReportKept DEF ClientIInv
<1>4. ASSUME NEW k \in Keys, Client!PressKey(k) PROVE ClientIInv'
  <2>1. /\ held' = held \union {k} /\ unsure' = (unsure \union Client!Mixed) \ ({k} \ Levelled)
        /\ queue' = Append(queue, [kind |-> "press", key |-> k, held |-> held', unsure |-> unsure'])
        /\ UNCHANGED <<owner, property, pasting, mods, crossed, report, mousetime, mousestate>>
    BY <1>4 DEF Client!PressKey, Client!Sent, Client!selection, Client!client
  <2>2. held' \in SUBSET Keys /\ unsure' \in SUBSET Keys /\ "press" \in Strokes
    BY <1>0, <1>2, <2>1 DEF Strokes
  <2> QED BY <2>1, <2>2, <1>3
<1>5. ASSUME NEW k \in Keys, Client!ReleaseKey(k) PROVE ClientIInv'
  <2>1. /\ held' = held \ {k} /\ unsure' = (unsure \union Client!Mixed) \ ({k} \ Levelled)
        /\ queue' = Append(queue, [kind |-> "release", key |-> k, held |-> held, unsure |-> unsure])
        /\ UNCHANGED <<owner, property, pasting, mods, crossed, report, mousetime, mousestate>>
    BY <1>5 DEF Client!ReleaseKey, Client!Sent, Client!selection, Client!client
  <2>2. held' \in SUBSET Keys /\ "release" \in Strokes /\ "release" # "press"
    BY <1>0, <2>1 DEF Strokes
  <2> QED BY <2>1, <2>2, <1>0, <1>3
<1>6. ASSUME NEW k \in Keys, Client!ReleaseElsewhere(k) PROVE ClientIInv'
  <2>1. held' = held \ {k} /\ unsure' = unsure \union Client!Mixed \union {k}
        /\ UNCHANGED <<queue, owner, property, pasting, mods, crossed, report,
                       mousetime, mousestate>>
    BY <1>6 DEF Client!ReleaseElsewhere, Client!selection, Client!client
  <2>2. held' \in SUBSET Keys /\ unsure' \in SUBSET Keys
    BY <1>0, <1>2, <2>1
  <2>3. ClientTypes'
    BY <2>1, <2>2, <1>0 DEF ClientTypes
  <2>4. Led'
    <3>1. PICK h : Leads(h, queue, mods, held, unsure)
      BY <1>0 DEF KeysIInv, Led
    <3>2. Alike(h[Len(queue)], held', unsure')
      BY <3>1, <2>1 DEF Leads, Alike
    <3>3. \A i \in 1..Len(queue) : Shows(queue[i], h[i - 1], h[i], unsure')
      BY <3>1, <2>1 DEF Leads, Shows, Alike
    <3>4. \A j \in Keys \ (unsure' \intersect Levelled) : j \in h[0] <=> Known(mods, j)
      BY <3>1, <2>1 DEF Leads
    <3>5. Leads(h, queue', mods', held', unsure')
      BY <3>1, <3>2, <3>3, <3>4, <2>1 DEF Leads
    <3> QED BY <3>5 DEF Led
  <2>5. Returns(queue', held', unsure')
    BY <1>0, <2>1 DEF KeysIInv, Returns
  <2>6. ASSUME NEW m \in mods, m[1] \notin unsure'
        PROVE  /\ m[1] \in held' \/ \E i \in 1..Len(queue) : Strikes(queue[i], m[1])
               /\ m[1] \in Levelled => m[2] = Level(held')
    <3>1. m[1] \notin unsure /\ m[1] \notin Client!Mixed /\ m[1] # k
      BY <2>1, <2>6
    <3>2. m[1] \in held \/ \E i \in 1..Len(queue) : Strikes(queue[i], m[1])
      BY <3>1, <1>0 DEF KeysIInv, Kept
    <3> QED BY <3>1, <3>2, <2>1, <1>0, LevelKept DEF KeysIInv
  <2>7. Kept(queue', mods', held', unsure')
    BY <2>1, <2>6 DEF Kept
  <2>8. Pastes'
    BY <1>0, <2>1 DEF Pastes
  <2> QED BY <1>0, <2>1, <2>3, <2>4, <2>5, <2>7, <2>8, ReportKept DEF ClientIInv, KeysIInv
<1> QED BY <1>4, <1>5, <1>6 DEF Client!Keyboard

LEMMA WorldKeeps ==
    ASSUME ClientIInv, clock \in Int, Client!Pointer \/ Client!WindowEvents
    PROVE  ClientIInv'
<1>0. owner \in [Selections -> Wins \union {Peer, NONE}]
  BY DEF ClientIInv, ClientTypes
<1>1. CASE Client!Tick
  <2>1. UNCHANGED <<queue, owner, property, pasting, mods, crossed, report, held, unsure,
                    mousetime, mousestate>>
    BY <1>1 DEF Client!Tick, Client!selection, Client!client
  <2> QED BY <1>0, <2>1, Staying
<1>2. ASSUME NEW e \in Events, e.kind \in {"down", "up", "expose", "focus"},
             Client!Sent(e), UNCHANGED <<Client!selection, Client!client, Client!world, report>>
      PROVE  ClientIInv'
  <2>1. /\ queue' = Append(queue, e)
        /\ UNCHANGED <<owner, property, pasting, mods, crossed, report, held, unsure,
                       mousetime, mousestate>>
    BY <1>2 DEF Client!Sent, Client!selection, Client!client, Client!world
  <2>2. ~Own(e) /\ e.kind \notin Strokes
    BY <1>2, <2>1 DEF Own, Strokes
  <2> QED BY <1>0, <2>1, <2>2, Sending
<1>3. ASSUME NEW what \in {"down", "up"}, Client!Mouse(what) PROVE ClientIInv'
  <2>1. [kind |-> what, time |-> clock] \in Events
    BY DEF Events, ButtonEvents
  <2>2. [kind |-> what, time |-> clock].kind \in {"down", "up", "expose", "focus"}
    OBVIOUS
  <2>3. /\ Client!Sent([kind |-> what, time |-> clock])
        /\ UNCHANGED <<Client!selection, Client!client, Client!world, report>>
    BY <1>3 DEF Client!Mouse
  <2> QED BY <2>1, <2>2, <2>3, <1>2
<1>4. ASSUME NEW w \in Wins, NEW what \in {"expose", "focus"}, Client!Send(w, what)
      PROVE  ClientIInv'
  <2>1. [kind |-> what, win |-> w] \in Events
    BY DEF Events, PlainEvents
  <2>2. [kind |-> what, win |-> w].kind \in {"down", "up", "expose", "focus"}
    OBVIOUS
  <2>3. /\ Client!Sent([kind |-> what, win |-> w])
        /\ UNCHANGED <<Client!selection, Client!client, Client!world, report>>
    BY <1>4 DEF Client!Send
  <2> QED BY <2>1, <2>2, <2>3, <1>2
<1> QED BY <1>1, <1>3, <1>4 DEF Client!Pointer, Client!WindowEvents

LEMMA SelectingKeeps == ASSUME ClientIInv, Client!Selecting PROVE ClientIInv'
<1>0. owner \in [Selections -> Wins \union {Peer, NONE}]
  BY DEF ClientIInv, ClientTypes
<1>1. ASSUME NEW s \in Selections, Client!PeerCopy(s) PROVE ClientIInv'
  <2>1. /\ UNCHANGED <<property, pasting, mods, crossed, report, held, unsure,
                       mousetime, mousestate>>
        /\ queue' = Append(queue, [kind |-> "clear"]) \/ queue' = queue
        /\ owner' \in [Selections -> Wins \union {Peer, NONE}]
    BY <1>0, <1>1 DEF Client!PeerCopy, Client!Sent, Client!client
  <2>2. /\ [kind |-> "clear"] \in Events /\ ~Own([kind |-> "clear"])
        /\ [kind |-> "clear"].kind \notin Strokes
    BY DEF Events, PlainEvents, Own, Strokes
  <2>3. CASE queue' = queue
    BY <1>0, <2>1, <2>3, Staying
  <2>4. CASE queue' = Append(queue, [kind |-> "clear"])
    <3> DEFINE e == [kind |-> "clear"]
    <3>1. e \in Events /\ ~Own(e) /\ e.kind \notin Strokes /\ queue' = Append(queue, e)
      BY <2>2, <2>4
    <3> HIDE DEF e
    <3> QED BY <1>0, <2>1, <3>1, Sending
  <2> QED BY <2>1, <2>3, <2>4
<1>2. ASSUME NEW s \in Selections, NEW w \in Wins, Client!Copy(w, s) PROVE ClientIInv'
  <2>1. /\ UNCHANGED <<queue, property, pasting, mods, crossed, report, held, unsure,
                       mousetime, mousestate>>
        /\ owner' \in [Selections -> Wins \union {Peer, NONE}]
    BY <1>0, <1>2 DEF Client!Copy, Client!client
  <2> QED BY <1>0, <2>1, Staying
<1>3. ASSUME NEW s \in Selections, NEW target \in {"utf8", "image"}, NEW where \in {"utf8", NONE},
             Client!PeerPaste(s, target, where)
      PROVE  ClientIInv'
  <2> DEFINE e == [kind |-> "request", sel |-> s, requestor |-> Peer,
                   target |-> target, property |-> where]
  <2>1. /\ queue' = Append(queue, e)
        /\ UNCHANGED <<owner, property, pasting, mods, crossed, report, held, unsure,
                       mousetime, mousestate>>
    BY <1>3 DEF Client!PeerPaste, Client!Sent, Client!selection, Client!client
  <2>2. e \in Events
    BY DEF Events, Requests
  <2>3. ~Own(e) /\ e.kind \notin Strokes
    BY ClientAssumption DEF Own, Strokes
  <2> HIDE DEF e
  <2> QED BY <1>0, <2>1, <2>2, <2>3, Sending
<1>4. \A how \in {<<"utf8", "utf8">>, <<"utf8", NONE>>, <<"image", "utf8">>} :
         how[1] \in {"utf8", "image"} /\ how[2] \in {"utf8", NONE}
  OBVIOUS
<1> QED BY <1>1, <1>2, <1>3, <1>4, PasteKeeps, AnswerKeeps DEF Client!Selecting

-----------------------------------------------------------------------------
(* The events that are taken.  A key becomes known by a press and is not   *)
(* any more after the release, of which the symbol is the same.            *)
LEMMA KeysTaken ==
    ASSUME ClientIInv, ~Told(report), Client!OnKeyPress \/ Client!OnKeyRelease
    PROVE  ClientIInv'
<1> DEFINE e == Head(queue)
           k == e.key
           sym == <<k, IF k \in Levelled /\ held \intersect Shifts # {} THEN "shifted" ELSE "plain">>
<1>0. ClientTypes /\ KeysIInv
  BY DEF ClientIInv
<1>1. /\ queue # <<>> /\ queue' = Tail(queue)
      /\ UNCHANGED <<owner, property, pasting, held, unsure, crossed>>
  BY DEF Client!OnKeyPress, Client!OnKeyRelease, Client!Taken, Client!selection, Client!world
<1>2. e \in Events /\ e = queue[1] /\ 1 \in 1..Len(queue) /\ Len(queue) \in Nat
  BY <1>0, <1>1, QueueShrinks
<1>3. \/ e.kind = "press" /\ mods' = mods \union {sym} /\ report'.mods = mods'
      \/ e.kind = "release" /\ mods' = mods \ {sym} /\ report'.mods = mods
  BY DEF Client!OnKeyPress, Client!OnKeyRelease, Client!First, Client!Symbol, Client!KeyReport
<1>4. /\ report'.kind = "key" /\ report'.held = e.held
      /\ report'.unsure = e.unsure \union (unsure \intersect Levelled)
  BY DEF Client!OnKeyPress, Client!OnKeyRelease, Client!KeyReport
<1>5. e \in KeyEvents /\ k \in Keys
  <2>1. e \in KeyEvents
    BY <1>2, <1>3 DEF Events, ButtonEvents, Requests, Notices, Refusals, PlainEvents
  <2> QED BY <2>1 DEF KeyEvents
<1>6. /\ sym \in Keys \X Levels /\ sym[1] = k /\ (k \notin Levelled => sym[2] = "plain")
      /\ k \in Levelled => sym[2] = Level(held)
  BY <1>5 DEF Levels, Level
<1>7. /\ \A m \in mods : m \in Keys \X Levels
      /\ \A m \in mods : m[1] \notin Levelled => m[2] = "plain"
      /\ \A m \in mods : m[1] \in Levelled \ unsure => m[2] = Level(held)
  BY <1>0 DEF ClientTypes, KeysIInv, Kept
<1> HIDE DEF sym
<1>8. /\ mods' \in SUBSET (Keys \X Levels)
      /\ \A m \in mods' : m[1] \notin Levelled => m[2] = "plain"
  BY <1>3, <1>6, <1>7
<1>9. ASSUME NEW m \in mods, m[1] = k, k \notin unsure \intersect Levelled PROVE m = sym
  BY <1>6, <1>7, <1>9
<1>10. ASSUME NEW j \in Keys \ (unsure \intersect Levelled), NEW b \in SUBSET Keys,
              j \in b <=> Known(mods, j)
       PROVE  j \in After(e, b) <=> Known(mods', j)
  <2>1. CASE e.kind = "press"
    <3>1. After(e, b) = b \union {k} /\ mods' = mods \union {sym}
      BY <2>1, <1>3 DEF After
    <3> QED BY <3>1, <1>6, <1>10 DEF Known
  <2>2. CASE e.kind = "release"
    <3>1. After(e, b) = b \ {k} /\ mods' = mods \ {sym}
      BY <2>2, <1>3 DEF After
    <3> QED BY <3>1, <1>6, <1>9, <1>10 DEF Known
  <2> QED BY <2>1, <2>2, <1>3
<1>11. Led'
  BY <1>0, <1>1, <1>10, LedTaken DEF KeysIInv
<1>12. /\ Returns(queue', held', unsure')
       /\ \A j : (\E i \in 1..Len(queue) : Strikes(queue[i], j)) =>
                 \/ \E i \in 1..Len(queue') : Strikes(queue'[i], j)
                 \/ Strikes(e, j)
       /\ e.kind = "press" /\ k \notin unsure =>
              \/ k \in held
              \/ \E i \in 1..Len(queue') : Strikes(queue'[i], k)
  BY <1>0, <1>1, KeptTaken DEF KeysIInv
<1>13. ASSUME NEW m \in mods', m[1] \notin unsure
       PROVE  /\ m[1] \in held \/ \E i \in 1..Len(queue') : Strikes(queue'[i], m[1])
              /\ m[1] \in Levelled => m[2] = Level(held)
  <2>1. m[1] \in Levelled => m[2] = Level(held)
    BY <1>3, <1>6, <1>7, <1>13
  <2>2. CASE m[1] = k
    <3>1. e.kind = "press"
      BY <2>2, <1>3, <1>9, <1>13
    <3> QED BY <3>1, <2>1, <2>2, <1>12, <1>13
  <2>3. CASE m[1] # k
    <3>1. m \in mods /\ ~Strikes(e, m[1])
      BY <2>3, <1>3, <1>6, <1>13 DEF Strikes
    <3>2. m[1] \in held \/ \E i \in 1..Len(queue) : Strikes(queue[i], m[1])
      BY <3>1, <1>0, <1>13 DEF KeysIInv, Kept
    <3> QED BY <3>1, <3>2, <2>1, <1>12
  <2> QED BY <2>2, <2>3
<1>14. Kept(queue', mods', held', unsure')
  BY <1>1, <1>13 DEF Kept
<1>15. KeysIInv'
  BY <1>11, <1>12, <1>14 DEF KeysIInv
<1>16. ASSUME NEW j \in Keys, j \notin report'.unsure
       PROVE  /\ j \in report'.held <=> Known(report'.mods, j)
              /\ \A m, n \in report'.mods : m[1] = j /\ n[1] = j => m = n
  <2>1. PICK h : Leads(h, queue, mods, held, unsure)
    BY <1>0 DEF KeysIInv, Led
  <2>2. Shows(e, h[0], h[1], unsure) /\ h[0] \in SUBSET Keys
    <3>1. 1 - 1 = 0 /\ 0 \in 0..Len(queue)
      BY <1>2
    <3> QED BY <1>2, <2>1, <3>1 DEF Leads
  <2>3. j \notin e.unsure /\ j \notin unsure \intersect Levelled
    BY <1>4, <1>16
  <2>4. j \in h[0] <=> Known(mods, j)
    BY <2>1, <2>3 DEF Leads
  <2>5. j \in Seen(e, h[0]) <=> j \in e.held
    BY <2>2, <2>3, <1>3 DEF Shows, Alike, Strokes
  <2>6. j \in Seen(e, h[0]) <=> Known(report'.mods, j)
    <3>1. CASE e.kind = "press"
      <4>1. Seen(e, h[0]) = h[0] \union {k} /\ report'.mods = mods \union {sym}
        BY <3>1, <1>3 DEF Seen
      <4> QED BY <4>1, <2>4, <1>6 DEF Known
    <3>2. CASE e.kind = "release"
      <4>1. Seen(e, h[0]) = h[0] /\ report'.mods = mods
        BY <3>2, <1>3 DEF Seen
      <4> QED BY <4>1, <2>4
    <3> QED BY <3>1, <3>2, <1>3
  <2>7. ASSUME NEW m \in report'.mods, NEW n \in report'.mods, m[1] = j, n[1] = j
        PROVE  m = n
    <3>1. \A l \in report'.mods : l = sym \/ l \in mods
      BY <1>3
    <3>2. \A l \in report'.mods : /\ l \in Keys \X Levels
                                  /\ l[1] \notin Levelled => l[2] = "plain"
                                  /\ l[1] \in Levelled \ unsure => l[2] = Level(held)
      BY <3>1, <1>6, <1>7
    <3>3. m[2] = n[2] /\ m \in Keys \X Levels /\ n \in Keys \X Levels
      BY <3>2, <2>3, <2>7
    <3> QED BY <3>3, <2>7
  <2> QED BY <1>4, <2>5, <2>6, <2>7
<1>17. Client!ModifiersRight'
  BY <1>16 DEF Client!ModifiersRight, Known
<1>18. EventsRight'
  BY <1>4, <1>17 DEF EventsRight, Client!EventsRight, Client!ClicksRight, Client!PasteRight
<1> QED BY <1>1, <1>4, <1>8, <1>15, <1>18, Taking

LEMMA ButtonsTaken ==
    ASSUME ClientIInv, ~Told(report), Client!OnButtonPress \/ Client!OnButtonRelease
    PROVE  ClientIInv'
<1> DEFINE e == Head(queue)
<1>0. ClientTypes /\ KeysIInv
  BY DEF ClientIInv
<1>1. /\ queue # <<>> /\ queue' = Tail(queue) /\ e.kind \in {"down", "up"}
      /\ UNCHANGED <<owner, property, pasting, mods, held, unsure, crossed>>
  BY DEF Client!OnButtonPress, Client!OnButtonRelease, Client!Taken, Client!First,
         Client!selection, Client!world
<1>2. KeysIInv'
  BY <1>0, <1>1, KeysStay DEF Strokes
<1>3. report'.kind \in {"down", "click", "dblclick", "up"}
  BY DEF Client!OnButtonPress, Client!OnButtonRelease
<1>4. Client!ClicksRight'
  <2>1. CASE Client!OnButtonPress
    BY <2>1 DEF Client!OnButtonPress, Client!ClicksRight
  <2>2. CASE Client!OnButtonRelease
    BY <2>2 DEF Client!OnButtonRelease, Client!ClicksRight
  <2> QED BY <2>1, <2>2
<1>5. EventsRight'
  BY <1>3, <1>4 DEF EventsRight, Client!EventsRight, Client!ModifiersRight, Client!PasteRight
<1> QED BY <1>0, <1>1, <1>2, <1>3, <1>5, Taking DEF ClientTypes

(* A text is what the window that asked for it was given.                  *)
LEMMA NoticeTaken == ASSUME ClientIInv, ~Told(report), Client!OnNotify PROVE ClientIInv'
<1> DEFINE e == Head(queue)
<1>0. ClientTypes /\ Pastes /\ KeysIInv
  BY DEF ClientIInv
<1>1. /\ queue # <<>> /\ queue' = Tail(queue) /\ e.kind = "notify" /\ e.property # NONE
      /\ report' = [kind |-> "paste", win |-> pasting[e.sel], of |-> e,
                    text |-> property[e.requestor], alone |-> Pair(e) \notin crossed]
      /\ UNCHANGED <<owner, property, pasting, mods, mousetime, mousestate, held, unsure, crossed>>
  BY DEF Client!OnNotify, Client!Taken, Client!First, Client!selection, Client!client,
         Client!world, Pair, Client!Pair
<1>2. e \in Events /\ e = queue[1] /\ 1 \in 1..Len(queue)
  BY <1>0, <1>1, QueueShrinks
<1>3. Own(e)
  BY <1>1, <1>2 DEF Own, Events, KeyEvents, ButtonEvents, Requests, Notices, Refusals, PlainEvents,
                    Strokes
<1>4. Due(e, pasting, property, crossed)
  BY <1>0, <1>2, <1>3 DEF Pastes, Awaited
<1>5. EventsRight'
  BY <1>1, <1>4 DEF Due, Texted, EventsRight, Client!EventsRight, Client!ModifiersRight,
         Client!ClicksRight, Client!PasteRight
<1>6. KeysIInv'
  BY <1>0, <1>1, KeysStay DEF Strokes
<1>7. report'.kind = "paste" /\ ~Told(report')
  BY <1>1 DEF Told
<1> QED BY <1>0, <1>1, <1>5, <1>6, <1>7, Taking DEF ClientTypes

LEMMA OthersTaken ==
    ASSUME ClientIInv, ~Told(report),
           Client!OnRequest \/ Client!OnRefusal \/ Client!OnPlain \/ Client!OnClear
    PROVE  ClientIInv'
<1> DEFINE e == Head(queue)
<1>0. ClientTypes /\ KeysIInv
  BY DEF ClientIInv
<1>1. /\ queue # <<>> /\ queue' = Tail(queue) /\ e.kind \notin Strokes
      /\ UNCHANGED <<owner, property, pasting, mods, mousetime, mousestate, held, unsure, crossed>>
  BY DEF Client!OnRequest, Client!OnRefusal, Client!OnPlain, Client!OnClear, Strokes,
         Client!Taken, Client!First, Client!selection, Client!client, Client!world
<1>2. e \in Events
  BY <1>0, <1>1, QueueShrinks
<1>3. KeysIInv'
  BY <1>0, <1>1, KeysStay
<1>4. report'.kind = "copy" => report'.of = e /\ e \in Requests
  <2>1. CASE Client!OnRequest
    <3>1. report' = [kind |-> "copy", win |-> owner[e.sel], of |-> e] /\ e.kind = "request"
      BY <2>1 DEF Client!OnRequest, Client!First
    <3>2. e \in Requests
      BY <1>2, <3>1 DEF Events, KeyEvents, ButtonEvents, Notices, Refusals, PlainEvents, Strokes
    <3> QED BY <3>1, <3>2
  <2>2. CASE Client!OnRefusal \/ Client!OnPlain \/ Client!OnClear
    BY <2>2 DEF Client!OnRefusal, Client!OnPlain, Client!OnClear, Client!Nothing, Client!First
  <2> QED BY <2>1, <2>2
<1>5. report'.kind \in {"copy", "expose", "motion", "configure", "focus", "nothing"}
  BY DEF Client!OnRequest, Client!OnRefusal, Client!OnPlain, Client!OnClear, Client!Nothing,
         Client!First
<1>6. EventsRight'
  BY <1>5 DEF EventsRight, Client!EventsRight, Client!ModifiersRight,
         Client!ClicksRight, Client!PasteRight
<1> QED BY <1>0, <1>1, <1>3, <1>4, <1>6, Taking DEF ClientTypes

LEMMA EventKeeps == ASSUME ClientIInv, Client!Event PROVE ClientIInv'
<1>1. ~Told(report)
  BY DEF Client!Event, Told
<1> QED BY <1>1, KeysTaken, ButtonsTaken, NoticeTaken, OthersTaken DEF Client!Event

-----------------------------------------------------------------------------
(* The surfaces of windows have numbers of their own, all that is lost     *)
(* has one that no window has any more.                                    *)
Drawn == {img[w] : w \in Wins} \ {NONE}
SurfacesIInv ==
    /\ shared \in BOOLEAN /\ next \in Int
    /\ img \in [Wins -> Int \union {NONE}]
    /\ \A n \in Drawn : n < next
    /\ \A v, w \in Wins : img[v] = img[w] /\ img[v] # NONE => v = w
    /\ dead \subseteq {"xcb"} \X Int /\ \A n \in Int : <<"xcb", n>> \in dead => n < next
    /\ Server!SurfacesHold

(* The blocks of a number are those of no other.                           *)
LEMMA BlocksApart ==
    ASSUME NEW m, NEW n, NEW b, b \in Server!Blocks(m), b \in Server!Blocks(n)
    PROVE  m = n
BY DEF Server!Blocks

LEMMA SurfacesStart == Server!Init => SurfacesIInv
BY NoneNoNumber DEF Server!Init, SurfacesIInv, Drawn, Server!SurfacesHold

(* A window is drawn on the next number; what it had is dropped or lost.   *)
LEMMA FreshKeeps ==
    ASSUME SurfacesIInv, NEW w \in Wins, Server!WinNew(w) \/ Server!Resize(w)
    PROVE  SurfacesIInv'
<1> DEFINE old == img[w]
           Others1 == {img[v] : v \in Wins \ {w}} \ {NONE}
<1>0. /\ shared \in BOOLEAN /\ next \in Int /\ img \in [Wins -> Int \union {NONE}]
      /\ \A n \in Drawn : n < next
      /\ \A v, u \in Wins : img[v] = img[u] /\ img[v] # NONE => v = u
      /\ dead \subseteq {"xcb"} \X Int /\ \A n \in Int : <<"xcb", n>> \in dead => n < next
      /\ img = ximage /\ attached = mapped /\ attached = (IF shared THEN Drawn ELSE {})
      /\ live = UNION {Server!Blocks(n) : n \in Drawn}
      /\ live \cap dead = {} /\ (~shared => dead = {})
  BY DEF SurfacesIInv, Server!SurfacesHold, Drawn
<1>1. /\ next' = next + 1 /\ shared' = shared
      /\ img' = [img EXCEPT ![w] = next] /\ ximage' = [ximage EXCEPT ![w] = next]
      /\ attached' = (attached \ {old}) \union (IF shared THEN {next} ELSE {})
      /\ mapped' = (mapped \ {old}) \union (IF shared THEN {next} ELSE {})
  BY DEF Server!WinNew, Server!Resize, Server!Fresh, Server!Attach
<1>2. /\ \A v \in Wins \ {w} : img'[v] = img[v]
      /\ img'[w] = next /\ next # NONE
      /\ img' \in [Wins -> Int \union {NONE}]
  BY <1>0, <1>1, NoneNoNumber
<1>3. Drawn' = Others1 \union {next}
  BY <1>2 DEF Drawn
<1>4. /\ Others1 \subseteq Drawn /\ old \notin Others1 /\ Drawn \subseteq Others1 \union {old}
      /\ old # NONE => old \in Drawn
  BY <1>0 DEF Drawn
<1>5. Drawn \subseteq Int
  BY <1>0 DEF Drawn
<1>6. next \notin Drawn /\ next # old
  BY <1>0, <1>4, NoneNoNumber
<1>7. attached' = mapped' /\ attached' = (IF shared THEN Drawn' ELSE {})
  <2>1. CASE shared
    <3> HIDE DEF Others1, old
    <3>1. Drawn \ {old} = Others1
      BY <1>4
    <3> QED BY <2>1, <3>1, <1>0, <1>1, <1>3
  <2>2. CASE ~shared
    BY <2>2, <1>0, <1>1
  <2> QED BY <2>1, <2>2
<1>8. /\ live' = (live \ (IF old = NONE THEN {} ELSE Server!Blocks(old))) \union Server!Blocks(next)
      /\ dead' = dead \union (IF shared /\ old # NONE THEN {<<"xcb", old>>} ELSE {})
  BY DEF Server!WinNew, Server!Resize
<1>9. live' = UNION {Server!Blocks(n) : n \in Drawn'}
  <2>2. ASSUME NEW b, b \in live' PROVE \E n \in Others1 \union {next} : b \in Server!Blocks(n)
    <3>1. CASE b \in Server!Blocks(next)
      BY <3>1
    <3>2. CASE b \in live /\ b \notin (IF old = NONE THEN {} ELSE Server!Blocks(old))
      <4>1. PICK n \in Drawn : b \in Server!Blocks(n)
        BY <3>2, <1>0
      <4>2. n # old
        BY <4>1, <3>2 DEF Drawn
      <4> QED BY <4>1, <4>2, <1>4
    <3> QED BY <3>1, <3>2, <2>2, <1>8
  <2>3. ASSUME NEW n \in Others1 \union {next}, NEW b \in Server!Blocks(n) PROVE b \in live'
    <3>1. CASE n = next
      BY <3>1, <1>8
    <3>2. CASE n \in Others1
      <4>1. b \in live
        BY <3>2, <1>0, <1>4
      <4>2. b \notin Server!Blocks(old)
        BY <3>2, <1>4, BlocksApart
      <4> QED BY <4>1, <4>2, <1>8
    <3> QED BY <3>1, <3>2
  <2> QED BY <2>2, <2>3, <1>1, <1>3 DEF Server!Blocks
<1>10. ASSUME NEW b \in live', b \in dead' PROVE FALSE
  <2>1. CASE b \in Server!Blocks(next)
    <3>1. b # <<"xcb", old>>
      BY <2>1, <1>6 DEF Server!Blocks
    <3>2. b \in dead
      BY <1>8, <1>10, <3>1
    <3>3. b = <<"xcb", next>>
      BY <2>1, <3>2, <1>0 DEF Server!Blocks
    <3> QED BY <3>2, <3>3, <1>0
  <2>2. CASE b \in live /\ b \notin (IF old = NONE THEN {} ELSE Server!Blocks(old))
    <3>1. b \in dead \/ (old # NONE /\ b = <<"xcb", old>>)
      BY <1>8, <1>10
    <3> QED BY <3>1, <2>2, <1>0 DEF Server!Blocks
  <2> QED BY <2>1, <2>2, <1>8, <1>10
<1>11. ~shared' => dead' = {}
  BY <1>0, <1>1, <1>8
<1>12. /\ dead' \subseteq {"xcb"} \X Int /\ \A n \in Int : <<"xcb", n>> \in dead' => n < next'
  <2>1. old # NONE => old \in Int /\ old < next
    BY <1>0, <1>4, <1>5
  <2> QED BY <2>1, <1>0, <1>1, <1>8
<1>13. \A n \in Drawn' : n < next'
  BY <1>0, <1>1, <1>3, <1>4, <1>5
<1>14. \A v, u \in Wins : img'[v] = img'[u] /\ img'[v] # NONE => v = u
  <2> SUFFICES ASSUME NEW v \in Wins, NEW u \in Wins, img'[v] = img'[u], img'[v] # NONE
               PROVE  v = u
    OBVIOUS
  <2>1. \A x \in Wins \ {w} : img'[x] # next
    BY <1>2, <1>6, NoneNoNumber DEF Drawn
  <2> QED BY <2>1, <1>0, <1>2
<1>15. Server!SurfacesHold'
  <2>1. Server!Blocks(0)' = Server!Blocks(0)
    BY <1>1 DEF Server!Blocks
  <2> QED BY <1>0, <1>1, <1>7, <1>9, <1>10, <1>11 DEF Server!SurfacesHold, Drawn, Server!Blocks
<1> QED BY <1>0, <1>1, <1>2, <1>12, <1>13, <1>14, <1>15 DEF SurfacesIInv

LEMMA DestroyKeeps ==
    ASSUME SurfacesIInv, NEW w \in Wins, Server!Destroy(w)
    PROVE  SurfacesIInv'
<1> DEFINE old == img[w]
<1>0. /\ shared \in BOOLEAN /\ next \in Int /\ img \in [Wins -> Int \union {NONE}]
      /\ \A n \in Drawn : n < next
      /\ \A v, u \in Wins : img[v] = img[u] /\ img[v] # NONE => v = u
      /\ dead \subseteq {"xcb"} \X Int /\ \A n \in Int : <<"xcb", n>> \in dead => n < next
      /\ img = ximage /\ attached = mapped /\ attached = (IF shared THEN Drawn ELSE {})
      /\ live = UNION {Server!Blocks(n) : n \in Drawn}
      /\ live \cap dead = {} /\ (~shared => dead = {})
  BY DEF SurfacesIInv, Server!SurfacesHold, Drawn
<1>1. /\ next' = next /\ shared' = shared /\ dead' = dead /\ old # NONE
      /\ img' = [img EXCEPT ![w] = NONE] /\ ximage' = [ximage EXCEPT ![w] = NONE]
      /\ attached' = attached \ {old} /\ mapped' = mapped \ {old}
      /\ live' = live \ Server!Blocks(old)
  BY DEF Server!Destroy
<1>2. /\ \A v \in Wins \ {w} : img'[v] = img[v]
      /\ img'[w] = NONE
      /\ img' \in [Wins -> Int \union {NONE}]
  BY <1>0, <1>1
<1>3. Drawn' = Drawn \ {old} /\ old \in Drawn
  <2>1. Drawn' = {img[v] : v \in Wins \ {w}} \ {NONE}
    BY <1>2 DEF Drawn
  <2> QED BY <2>1, <1>0, <1>1 DEF Drawn
<1>4. attached' = mapped' /\ attached' = (IF shared THEN Drawn' ELSE {})
  BY <1>0, <1>1, <1>3
<1>5. live' = UNION {Server!Blocks(n) : n \in Drawn'}
  <2>1. ASSUME NEW b, b \in live' PROVE \E n \in Drawn' : b \in Server!Blocks(n)
    <3>1. PICK n \in Drawn : b \in Server!Blocks(n)
      BY <2>1, <1>0, <1>1
    <3>2. n # old
      BY <3>1, <2>1, <1>1
    <3> QED BY <3>1, <3>2, <1>3
  <2>2. ASSUME NEW n \in Drawn', NEW b \in Server!Blocks(n) PROVE b \in live'
    <3>1. b \in live
      BY <1>0, <1>3
    <3>2. b \notin Server!Blocks(old)
      BY <1>3, BlocksApart
    <3> QED BY <3>1, <3>2, <1>1
  <2> QED BY <2>1, <2>2, <1>1 DEF Server!Blocks
<1>6. live' \cap dead' = {} /\ (~shared' => dead' = {})
  BY <1>0, <1>1
<1>7. \A v, u \in Wins : img'[v] = img'[u] /\ img'[v] # NONE => v = u
  BY <1>0, <1>2
<1>8. Server!SurfacesHold'
  BY <1>0, <1>1, <1>4, <1>5, <1>6 DEF Server!SurfacesHold, Drawn, Server!Blocks
<1> QED BY <1>0, <1>1, <1>2, <1>3, <1>7, <1>8 DEF SurfacesIInv

LEMMA SurfacesKeep == ASSUME SurfacesIInv, Server!Surfaces PROVE SurfacesIInv'
BY FreshKeeps, DestroyKeeps DEF Server!Surfaces

-----------------------------------------------------------------------------
(* A finite set as a sequence: all of its elements, each once.             *)
LEMMA SetInSequence ==
    ASSUME NEW S, IsFiniteSet(S)
    PROVE  /\ Server!SetToSeq(S) \in Seq(S)
           /\ \A x \in S : \E i \in 1..Len(Server!SetToSeq(S)) : Server!SetToSeq(S)[i] = x
           /\ \A i, j \in 1..Len(Server!SetToSeq(S)) : Server!SetToSeq(S)[i] = Server!SetToSeq(S)[j] => i = j
<1> DEFINE n == Cardinality(S)
           s == Server!SetToSeq(S)
<1>1. n \in Nat /\ ExistsBijection(1..n, S)
  BY FS_CardinalityType
<1>2. \E f \in [1..n -> S] : Server!IsInjective(f)
  <2>1. PICK f \in Bijection(1..n, S) : TRUE
    BY <1>1 DEF ExistsBijection
  <2>2. f \in [1..n -> S] /\ \A a, b \in 1..n : f[a] = f[b] => a = b
    BY <2>1 DEF Bijection, Injection, Surjection, IsInjective
  <2> QED BY <2>2 DEF Server!IsInjective
<1>3. s \in [1..n -> S] /\ Server!IsInjective(s)
  <2>1. Server!Cardinality(S) = n
    BY DEF Server!Cardinality, Cardinality
  <2> QED BY <1>2, <2>1 DEF Server!SetToSeq
<1> HIDE DEF s
<1>4. s \in Injection(1..n, S)
  BY <1>3 DEF Injection, IsInjective, Server!IsInjective
<1>5. IsFiniteSet(1..n) /\ Cardinality(1..n) = n
  BY <1>1, FS_Interval
<1>6. s \in Surjection(1..n, S)
  BY <1>4, <1>5, FS_Injection
<1>7. \A x \in S : \E i \in 1..n : s[i] = x
  BY <1>6 DEF Surjection
<1>8. s \in Seq(S) /\ Len(s) = n
  BY <1>1, <1>3
<1>9. \A i, j \in 1..n : s[i] = s[j] => i = j
  BY <1>3 DEF Server!IsInjective
<1> QED BY <1>7, <1>8, <1>9 DEF s

(* The windows below one, in a screen given by the parents.                *)
Below(up, o, a) == \A below \in SUBSET Others :
    (\A c \in Others : up[c] \in below \union {a} => c \in below) => o \in below
Shown(up, d, o) == IF up[o] # NONE /\ d[o] # -1 THEN d[o] ELSE NONE
Entries == [id : Others, desktop : Nat \union {NONE}]
At(levels, k, i, o) ==
    k \in 1..Len(levels) /\ i \in 1..Len(levels[k]) /\ levels[k][i].id = o

WalkTypes ==
    /\ parent \in [Others -> Others \union {Root, NONE}]
    /\ desktop \in [Others -> Nat \union {-1}]
    /\ frames \in Seq(Seq(Entries)) /\ stack \in Seq(Entries) /\ touched \in SUBSET Others

(* A window of the screen has been seen or is on a level to be seen, never *)
(* both or twice, as soon as its parent has been, unless it was moved.     *)
Follows(levels, up, seen, moved) == \A o \in Others \ moved :
    /\ levels # <<>> =>
          /\ o \in seen \/ (\E k, i \in Nat : At(levels, k, i, o)) <=> up[o] \in seen \union {Root}
          /\ o \in seen => \A k, i \in Nat : ~At(levels, k, i, o)
    /\ \A k, i, l, j \in Nat : At(levels, k, i, o) /\ At(levels, l, j, o) => k = l /\ i = j

(* What is below a window that was moved was moved with it.                *)
Together(up, moved) == \A o \in Others \ moved : up[o] \in (Others \ moved) \union {Root}

(* An application that nobody touched is on the stack once it was seen.    *)
Collected(levels, apps, up, d, hands, seen) == \A o \in Others \ hands :
    /\ \A k, i \in Nat : At(levels, k, i, o) => levels[k][i].desktop = Shown(up, d, o)
    /\ o \notin seen => \A i \in 1..Len(apps) : apps[i].id # o
    /\ o \in seen /\ d[o] \in 0..(Desktops - 1) =>
          \E i \in 1..Len(apps) : apps[i].id = o /\ \A j \in 1..Len(apps) : apps[j].id = o => j = i

Walked == \E seen \in SUBSET Others, moved \in SUBSET touched :
    /\ Follows(frames, parent, seen, moved) /\ Together(parent, moved)
    /\ Collected(frames, stack, parent, desktop, touched, seen)
    /\ frames = <<>> => seen = {} /\ touched = {}

Rooted == \A o \in Others : parent[o] # NONE => Below(parent, o, Root)

WalkIInv ==
    /\ WalkTypes /\ Rooted /\ Walked
    /\ \A i \in 1..Len(stack) : stack[i].desktop \in 0..(Desktops - 1)

LEMMA ScreenNames ==
    /\ NONE \notin Others /\ NONE # Root /\ Root \notin Others /\ -1 # NONE /\ NONE \notin Nat
    /\ \A o \in Others : o \in Nat
<1>1. Others \subseteq Int /\ Root \in Int /\ -1 \in Int /\ Nat \subseteq Int
  BY ScreenAssumption
<1> QED BY <1>1, ScreenAssumption, NoneNoNumber

LEMMA UnderIsBelow == \A o, a : Server!Under(o, a) <=> Below(parent, o, a)
BY DEF Server!Under, Below

(* Below is what hangs on a and what hangs on a window below.              *)
LEMMA BelowGrows ==
    ASSUME NEW up, NEW c \in Others, NEW a, up[c] = a \/ (up[c] \in Others /\ Below(up, up[c], a))
    PROVE  Below(up, c, a)
BY DEF Below

(* What the server answers of the windows below one.                       *)
LEMMA TreeAnswer ==
    ASSUME WalkTypes, NEW p \in Others \union {Root}
    PROVE  /\ Server!QueryTree(p) \in Seq(Entries)
           /\ \A i \in 1..Len(Server!QueryTree(p)) :
                LET e == Server!QueryTree(p)[i] IN
                e.id \in Others /\ parent[e.id] = p /\ e.desktop = Shown(parent, desktop, e.id)
           /\ p = Root \/ parent[p] # NONE => \A o \in Others : parent[o] = p =>
                \E i \in 1..Len(Server!QueryTree(p)) : Server!QueryTree(p)[i].id = o
           /\ \A i, j \in 1..Len(Server!QueryTree(p)) :
                Server!QueryTree(p)[i].id = Server!QueryTree(p)[j].id => i = j
<1> DEFINE S == {o \in Others : parent[o] = p}
           s == Server!Children(p)
           q == Server!QueryTree(p)
           E(o) == [id |-> o, desktop |-> Server!DesktopOf(o)]
<1>1. IsFiniteSet(S)
  BY ScreenAssumption, FS_Subset
<1>2. s = Server!SetToSeq(S)
  BY DEF Server!Children
<1> HIDE DEF s
<1>3. /\ s \in Seq(S)
      /\ \A x \in S : \E i \in 1..Len(s) : s[i] = x
      /\ \A i, j \in 1..Len(s) : s[i] = s[j] => i = j
  <2> HIDE DEF S
  <2>1. /\ Server!SetToSeq(S) \in Seq(S)
        /\ \A x \in S : \E i \in 1..Len(Server!SetToSeq(S)) : Server!SetToSeq(S)[i] = x
        /\ \A i, j \in 1..Len(Server!SetToSeq(S)) :
              Server!SetToSeq(S)[i] = Server!SetToSeq(S)[j] => i = j
    BY <1>1, SetInSequence
  <2> QED BY <1>2, <2>1
<1>4. Len(s) \in Nat /\ DOMAIN s = 1..Len(s) /\ \A i \in 1..Len(s) : s[i] \in S
  BY <1>3
<1>5. \A o \in S : Server!DesktopOf(o) = Shown(parent, desktop, o)
                   /\ E(o) \in Entries
  <2> SUFFICES ASSUME NEW o \in S PROVE Server!DesktopOf(o) = Shown(parent, desktop, o)
                   /\ Shown(parent, desktop, o) \in Nat \union {NONE}
    BY DEF Entries
  <2>1. o \in Others /\ desktop[o] \in Nat \union {-1}
    BY DEF WalkTypes
  <2> QED BY <2>1 DEF Server!DesktopOf, Server!Cardinal, Shown
<1>6. CASE p # Root /\ parent[p] = NONE
  <2>1. q = <<>>
    BY <1>6 DEF Server!QueryTree
  <2> QED BY <2>1, <1>6
<1>7. CASE ~(p # Root /\ parent[p] = NONE)
  <2>1. q = [i \in 1..Len(s) |-> E(s[i])]
    BY <1>4, <1>7 DEF Server!QueryTree, s
  <2>8. \A o : E(o).id = o /\ E(o).desktop = Server!DesktopOf(o)
    OBVIOUS
  <2> HIDE DEF q, E
  <2>2. /\ \A i \in 1..Len(s) : E(s[i]) \in Entries
    BY <1>4, <1>5
  <2>3. q \in Seq(Entries) /\ Len(q) = Len(s) /\ \A i \in 1..Len(s) : q[i] = E(s[i])
    BY <1>4, <2>1, <2>2
  <2>4. \A i \in 1..Len(s) : q[i].id = s[i] /\ q[i].desktop = Server!DesktopOf(s[i])
    BY <2>3, <2>8
  <2>5. \A i \in 1..Len(s) : q[i].id \in Others /\ parent[q[i].id] = p
                             /\ q[i].desktop = Shown(parent, desktop, q[i].id)
    BY <2>4, <1>4, <1>5
  <2>6. \A o \in Others : parent[o] = p => \E i \in 1..Len(s) : q[i].id = o
    BY <2>4, <1>3
  <2>7. \A i, j \in 1..Len(s) : q[i].id = q[j].id => i = j
    BY <2>4, <1>3
  <2> QED BY <2>3, <2>5, <2>6, <2>7 DEF q
<1> QED BY <1>6, <1>7

(* A set of natural numbers has a least element.                           *)
LEMMA LeastOf ==
    ASSUME NEW S \in SUBSET Nat, S # {}
    PROVE  \E m \in S : \A n \in S : ~ (n < m)
<1> DEFINE R == OpToRel(<, Nat)
<1>1. IsWellFoundedOn(R, Nat)
  BY NatLessThanWellFounded
<1>2. \A m, n \in S : n < m => <<n, m>> \in R
  BY DEF OpToRel
<1> HIDE DEF R
<1>3. PICK m \in S : \A n \in S : <<n, m>> \notin R
  BY <1>1, WFMin
<1> QED
  BY <1>2, <1>3

(* The screen is a tree: a window is above its children.                   *)
LEMMA WalkStarts == Server!Init => WalkIInv
<1> SUFFICES ASSUME Server!Init PROVE WalkIInv
  OBVIOUS
<1>1. /\ parent \in [Others -> Others \union {Root}] /\ \A o \in Others : parent[o] < o
      /\ desktop \in [Others -> {-1, 0, Desktops}]
      /\ frames = <<>> /\ stack = <<>> /\ touched = {}
  BY DEF Server!Init
<1>2. WalkTypes
  <2>1. <<>> \in Seq(Seq(Entries)) /\ <<>> \in Seq(Entries)
    OBVIOUS
  <2>2. desktop \in [Others -> Nat \union {-1}]
    BY <1>1, ScreenAssumption
  <2>3. parent \in [Others -> Others \union {Root, NONE}]
    BY <1>1
  <2> QED BY <1>1, <2>1, <2>2, <2>3 DEF WalkTypes
<1>3. Rooted
  <2> SUFFICES ASSUME NEW below \in SUBSET Others,
                      \A c \in Others : parent[c] \in below \union {Root} => c \in below
               PROVE  Others \subseteq below
    BY DEF Rooted, Below
  <2>1. SUFFICES ASSUME Others \ below # {} PROVE FALSE
    OBVIOUS
  <2>2. Others \ below \subseteq Nat
    BY ScreenAssumption
  <2>3. PICK o \in Others \ below : \A c \in Others \ below : ~(c < o)
    BY <2>1, <2>2, LeastOf
  <2>4. parent[o] \in below \union {Root}
    BY <1>1, <2>3
  <2> QED BY <2>3, <2>4
<1>4. Walked
  <2>1. \A k, i, o : ~At(frames, k, i, o)
    BY <1>1 DEF At
  <2>2. Follows(frames, parent, {}, {})
    BY <1>1, <2>1 DEF Follows
  <2>3. Together(parent, {})
    BY <1>1 DEF Together
  <2>4. Collected(frames, stack, parent, desktop, touched, {})
    <3>1. \A i \in 1..Len(stack) : FALSE
      BY <1>1
    <3> QED BY <2>1, <3>1 DEF Collected
  <2> QED BY <1>1, <2>2, <2>3, <2>4 DEF Walked
<1> QED BY <1>1, <1>2, <1>3, <1>4 DEF WalkIInv

(* The found applications are what the walk leads to.                      *)
LEMMA WalkFinds == WalkIInv => Server!ApplicationsFound
<1> SUFFICES ASSUME WalkIInv PROVE Server!ApplicationsFound
  OBVIOUS
<1>0. WalkTypes /\ Rooted /\ Len(stack) \in Nat /\ DOMAIN stack = 1..Len(stack)
  BY DEF WalkIInv, WalkTypes
<1>1. \A i \in DOMAIN stack : stack[i].desktop \in 0..(Desktops - 1)
  BY <1>0 DEF WalkIInv
<1>2. ASSUME frames = <<<<>>>>, NEW o \in Others \ touched, desktop[o] \in 0..(Desktops - 1)
      PROVE  Server!Cardinality({i \in DOMAIN stack : stack[i].id = o}) = 1
  <2>1. PICK seen \in SUBSET Others, moved \in SUBSET touched :
           /\ Follows(frames, parent, seen, moved) /\ Together(parent, moved)
           /\ Collected(frames, stack, parent, desktop, touched, seen)
    BY DEF WalkIInv, Walked
  <2>2. \A k, i, c : ~At(frames, k, i, c)
    BY <1>2 DEF At
  <2>3. ASSUME NEW c \in Others, parent[c] \in (seen \union moved) \union {Root}
        PROVE  c \in seen \union moved
    <3>1. CASE c \in moved
      BY <3>1
    <3>2. CASE c \notin moved
      <4>1. parent[c] \in seen \union {Root}
        BY <2>1, <2>3, <3>2, ScreenNames DEF Together
      <4>2. c \in seen \/ \E k, i \in Nat : At(frames, k, i, c)
        BY <2>1, <3>2, <4>1, <1>2 DEF Follows
      <4> QED BY <4>2, <2>2
    <3> QED BY <3>1, <3>2
  <2>4. parent[o] # NONE
    BY <2>1, ScreenNames DEF Together
  <2>5. o \in seen \union moved
    <3>1. seen \union moved \in SUBSET Others
      BY <1>0 DEF WalkTypes
    <3>2. Below(parent, o, Root)
      BY <1>0, <2>4 DEF Rooted
    <3> QED BY <2>3, <3>1, <3>2 DEF Below
  <2>6. o \in seen
    BY <2>5
  <2>7. PICK i \in 1..Len(stack) :
           stack[i].id = o /\ \A j \in 1..Len(stack) : stack[j].id = o => j = i
    BY <2>1, <2>6, <1>2 DEF Collected
  <2>8. {j \in DOMAIN stack : stack[j].id = o} = {i}
    BY <2>7, <1>0
  <2>9. Cardinality({i}) = 1 /\ Server!Cardinality({i}) = Cardinality({i})
    BY FS_Singleton DEF Server!Cardinality, Cardinality
  <2> QED BY <2>8, <2>9
<1> QED BY <1>1, <1>2 DEF Server!ApplicationsFound

-----------------------------------------------------------------------------
(* A change of the screen moves windows with all that is below them.       *)
LEMMA TreeChanges ==
    ASSUME WalkIInv, frames # <<>>, NEW D \in SUBSET Others,
           UNCHANGED <<desktop, frames, stack>>, touched' = touched \union D,
           parent' \in [Others -> Others \union {Root, NONE}],
           \A c \in Others \ D : parent'[c] = parent[c] /\ parent[c] \notin D,
           Rooted'
    PROVE  WalkIInv'
<1>0. WalkTypes
  BY DEF WalkIInv
<1>1. WalkTypes'
  BY <1>0 DEF WalkTypes
<1>2. PICK seen \in SUBSET Others, moved \in SUBSET touched :
         /\ Follows(frames, parent, seen, moved) /\ Together(parent, moved)
         /\ Collected(frames, stack, parent, desktop, touched, seen)
  BY DEF WalkIInv, Walked
<1>3. \A c \in Others \ (moved \union D) : c \in Others \ moved /\ parent'[c] = parent[c]
  OBVIOUS
<1>4. Follows(frames, parent', seen, moved \union D)
  BY <1>2, <1>3 DEF Follows
<1>5. Together(parent', moved \union D)
  BY <1>2, <1>3 DEF Together
<1>6. Collected(frames, stack, parent', desktop, touched', seen)
  <2>1. \A o \in Others \ touched' : o \in Others \ touched
           /\ Shown(parent', desktop, o) = Shown(parent, desktop, o)
    BY DEF Shown
  <2> QED BY <1>2, <2>1 DEF Collected
<1>7. moved \union D \in SUBSET touched'
  OBVIOUS
<1>8. Walked'
  BY <1>4, <1>5, <1>6, <1>7 DEF Walked
<1>9. \A i \in 1..Len(stack') : stack'[i].desktop \in 0..(Desktops - 1)
  BY DEF WalkIInv
<1> QED BY <1>1, <1>8, <1>9 DEF WalkIInv

(* With a window goes what is below it.                                    *)
LEMMA WithBelow ==
    ASSUME WalkTypes, NEW o \in Others, NEW D,
           D = {c \in Others : c = o \/ Server!Under(c, o)}
    PROVE  /\ o \in D /\ D \in SUBSET Others
           /\ \A c \in Others : parent[c] \in D => c \in D
           /\ \A below \in SUBSET Others :
                o \in below /\ (\A c \in Others : parent[c] \in below => c \in below) => D \subseteq below
<1>1. D = {c \in Others : c = o \/ Below(parent, c, o)}
  BY UnderIsBelow
<1>2. ASSUME NEW c \in Others, parent[c] \in D PROVE c \in D
  <2>1. Below(parent, c, o)
    BY <1>1, <1>2, BelowGrows
  <2> QED BY <2>1, <1>1
<1>3. ASSUME NEW below \in SUBSET Others, o \in below,
             \A c \in Others : parent[c] \in below => c \in below,
             NEW c \in D
      PROVE  c \in below
  BY <1>1, <1>3 DEF Below
<1> QED BY <1>1, <1>2, <1>3

LEMMA VanishKeeps == ASSUME WalkIInv, NEW o \in Others, Server!Vanish(o) PROVE WalkIInv'
<1> DEFINE D == {c \in Others : c = o \/ Server!Under(c, o)}
<1>0. WalkTypes /\ Rooted
  BY DEF WalkIInv
<1>1. /\ parent' = [c \in Others |-> IF c \in D THEN NONE ELSE parent[c]]
      /\ touched' = touched \union D /\ frames # <<>>
      /\ UNCHANGED <<desktop, frames, stack>>
  <2>1. parent' = [c \in Others |-> IF c = o \/ Server!Under(c, o) THEN NONE ELSE parent[c]]
    BY DEF Server!Vanish
  <2>2. \A c \in Others : c \in D <=> c = o \/ Server!Under(c, o)
    OBVIOUS
  <2> HIDE DEF D
  <2>3. parent' = [c \in Others |-> IF c \in D THEN NONE ELSE parent[c]]
    BY <2>1, <2>2
  <2> QED BY <2>3 DEF Server!Vanish, Server!Changes, D
<1> HIDE DEF D
<1>2. o \in D /\ D \in SUBSET Others /\ \A c \in Others : parent[c] \in D => c \in D
  BY <1>0, WithBelow DEF D
<1>3. /\ parent' \in [Others -> Others \union {Root, NONE}]
      /\ \A c \in Others \ D : parent'[c] = parent[c] /\ parent[c] \notin D
      /\ \A c \in D : parent'[c] = NONE
  BY <1>0, <1>1, <1>2 DEF WalkTypes
<1>4. ASSUME NEW c \in Others, parent'[c] # NONE PROVE Below(parent', c, Root)
  <2> SUFFICES ASSUME NEW below \in SUBSET Others,
                      \A x \in Others : parent'[x] \in below \union {Root} => x \in below
               PROVE  c \in below
    BY DEF Below
  <2>1. \A x \in Others : parent[x] \in (below \union D) \union {Root} => x \in below \union D
    BY <1>2, <1>3
  <2>2. Below(parent, c, Root)
    BY <1>0, <1>3, <1>4 DEF Rooted
  <2>3. c \in below \union D
    BY <1>2, <2>1, <2>2 DEF Below
  <2> QED BY <2>3, <1>3, <1>4
<1>5. Rooted'
  BY <1>4 DEF Rooted
<1> QED BY <1>1, <1>2, <1>3, <1>5, TreeChanges

LEMMA ReparentKeeps ==
    ASSUME WalkIInv, NEW o \in Others, NEW p \in Others \union {Root}, Server!Reparent(o, p)
    PROVE  WalkIInv'
<1> DEFINE D == {c \in Others : c = o \/ Server!Under(c, o)}
<1>0. WalkTypes /\ Rooted
  BY DEF WalkIInv
<1>1. /\ parent' = [parent EXCEPT ![o] = p]
      /\ touched' = touched \union D /\ frames # <<>>
      /\ UNCHANGED <<desktop, frames, stack>>
      /\ p # Root => parent[p] # NONE /\ p \notin D
  BY DEF Server!Reparent, Server!Changes
<1> HIDE DEF D
<1>2. /\ o \in D /\ D \in SUBSET Others /\ \A c \in Others : parent[c] \in D => c \in D
      /\ \A below \in SUBSET Others :
            o \in below /\ (\A c \in Others : parent[c] \in below => c \in below) => D \subseteq below
  BY <1>0, WithBelow, ZenonT(60) DEF D
<1>3. /\ parent' \in [Others -> Others \union {Root, NONE}]
      /\ \A c \in Others \ {o} : parent'[c] = parent[c]
      /\ \A c \in Others \ D : parent'[c] = parent[c] /\ parent[c] \notin D
      /\ parent'[o] = p
  BY <1>0, <1>1, <1>2 DEF WalkTypes
<1>4. ASSUME NEW c \in Others, parent'[c] # NONE PROVE Below(parent', c, Root)
  <2> SUFFICES ASSUME NEW below \in SUBSET Others,
                      \A x \in Others : parent'[x] \in below \union {Root} => x \in below
               PROVE  c \in below
    BY DEF Below
  <2>1. \A x \in Others : parent[x] \in (below \union D) \union {Root} => x \in below \union D
    BY <1>2, <1>3
  <2>2. \A x \in Others : parent[x] # NONE => x \in below \union D
    <3>1. below \union D \in SUBSET Others
      BY <1>2
    <3> QED BY <1>0, <2>1, <3>1 DEF Rooted, Below
  <2>3. p \in below \union {Root}
    BY <1>1, <2>2
  <2>4. o \in below
    BY <2>3, <1>3
  <2>5. \A x \in Others : parent[x] \in below => x \in below
    BY <2>4, <1>3
  <2>6. D \subseteq below
    BY <1>2, <2>4, <2>5
  <2>7. c = o \/ parent[c] # NONE
    BY <1>3, <1>4
  <2> QED BY <2>2, <2>4, <2>6, <2>7
<1>5. Rooted'
  BY <1>4 DEF Rooted
<1> QED BY <1>1, <1>2, <1>3, <1>5, TreeChanges

LEMMA SetDesktopKeeps ==
    ASSUME WalkIInv, NEW o \in Others, NEW d \in {0, Desktops}, Server!SetDesktop(o, d)
    PROVE  WalkIInv'
<1>0. WalkTypes
  BY DEF WalkIInv
<1>1. /\ desktop' = [desktop EXCEPT ![o] = d] /\ touched' = touched \union {o} /\ frames # <<>>
      /\ UNCHANGED <<parent, frames, stack>>
  BY DEF Server!SetDesktop, Server!Changes
<1>2. desktop' \in [Others -> Nat \union {-1}] /\ \A c \in Others \ {o} : desktop'[c] = desktop[c]
  BY <1>0, <1>1, ScreenAssumption DEF WalkTypes
<1>3. WalkTypes'
  BY <1>0, <1>1, <1>2 DEF WalkTypes
<1>4. PICK seen \in SUBSET Others, moved \in SUBSET touched :
         /\ Follows(frames, parent, seen, moved) /\ Together(parent, moved)
         /\ Collected(frames, stack, parent, desktop, touched, seen)
  BY DEF WalkIInv, Walked
<1>5. Collected(frames, stack, parent, desktop', touched', seen)
  <2>1. \A c \in Others \ touched' : c \in Others \ touched /\ desktop'[c] = desktop[c]
           /\ Shown(parent, desktop', c) = Shown(parent, desktop, c)
    BY <1>1, <1>2 DEF Shown
  <2> QED BY <1>4, <2>1 DEF Collected
<1>6. Walked'
  BY <1>1, <1>4, <1>5 DEF Walked
<1>7. Rooted' /\ \A i \in 1..Len(stack') : stack'[i].desktop \in 0..(Desktops - 1)
  BY <1>1 DEF WalkIInv, Rooted
<1> QED BY <1>3, <1>6, <1>7 DEF WalkIInv

-----------------------------------------------------------------------------
(* The walk.                                                               *)
LEMMA StartKeeps == ASSUME WalkIInv, Server!Start PROVE WalkIInv'
<1> DEFINE q == Server!QueryTree(Root)
<1>0. WalkTypes
  BY DEF WalkIInv
<1>1. /\ frames = <<>> /\ stack = <<>> /\ touched = {} /\ frames' = <<q>>
      /\ UNCHANGED <<parent, desktop, stack, touched>>
  BY DEF Server!Start
<1>2. /\ q \in Seq(Entries)
      /\ \A i \in 1..Len(q) : /\ q[i].id \in Others /\ parent[q[i].id] = Root
                              /\ q[i].desktop = Shown(parent, desktop, q[i].id)
      /\ \A o \in Others : parent[o] = Root => \E i \in 1..Len(q) : q[i].id = o
      /\ \A i, j \in 1..Len(q) : q[i].id = q[j].id => i = j
  BY <1>0, TreeAnswer
<1> HIDE DEF q
<1>3. \A k, i, o : At(frames', k, i, o) <=> k = 1 /\ i \in 1..Len(q) /\ q[i].id = o
  <2>1. Len(<<q>>) = 1 /\ <<q>>[1] = q
    OBVIOUS
  <2>2. \A k : k \in 1..1 <=> k = 1
    OBVIOUS
  <2> QED BY <1>1, <2>1, <2>2 DEF At
<1>4. WalkTypes'
  BY <1>0, <1>1, <1>2 DEF WalkTypes
<1>5. Together(parent, {})
  BY <1>1 DEF WalkIInv, Walked
<1>6. Follows(frames', parent, {}, {})
  <2> SUFFICES ASSUME NEW o \in Others
               PROVE  /\ (\E k, i \in Nat : At(frames', k, i, o)) <=> parent[o] = Root
                      /\ \A k, i, l, j \in Nat :
                            At(frames', k, i, o) /\ At(frames', l, j, o) => k = l /\ i = j
    BY DEF Follows
  <2>1. \A i \in 1..Len(q) : i \in Nat
    OBVIOUS
  <2> QED BY <1>2, <1>3, <2>1
<1>7. Collected(frames', stack, parent, desktop, touched, {})
  <2>1. \A i \in 1..Len(stack) : FALSE
    BY <1>1
  <2>2. ASSUME NEW o, NEW k, NEW i, At(frames', k, i, o)
        PROVE  frames'[k][i].desktop = Shown(parent, desktop, o)
    <3>1. k = 1 /\ i \in 1..Len(q) /\ q[i].id = o /\ frames'[1] = q
      BY <1>1, <1>3, <2>2
    <3> QED BY <3>1, <1>2
  <2> QED BY <2>1, <2>2 DEF Collected
<1>8. Walked'
  <2>1. frames' # <<>>
    BY <1>1
  <2> QED BY <1>1, <1>5, <1>6, <1>7, <2>1 DEF Walked
<1>9. Rooted' /\ \A i \in 1..Len(stack') : stack'[i].desktop \in 0..(Desktops - 1)
  BY <1>1 DEF WalkIInv, Rooted
<1> QED BY <1>4, <1>8, <1>9 DEF WalkIInv

LEMMA UpKeeps == ASSUME WalkIInv, Server!Up PROVE WalkIInv'
<1>0. WalkTypes
  BY DEF WalkIInv
<1>1. /\ frames # <<>> /\ Head(frames) = <<>> /\ Len(frames) > 1 /\ frames' = Tail(frames)
      /\ UNCHANGED <<parent, desktop, stack, touched>>
  BY DEF Server!Up
<1>2. /\ frames' \in Seq(Seq(Entries)) /\ Len(frames) \in Nat /\ Len(frames') = Len(frames) - 1
      /\ frames[1] = <<>>
      /\ \A k \in 1..(Len(frames) - 1) : frames'[k] = frames[k + 1]
  <2>1. frames \in Seq(Seq(Entries))
    BY <1>0 DEF WalkTypes
  <2> QED BY <2>1, <1>1, HeadTailProperties
<1>3. \A k, i, o : At(frames', k, i, o) => k \in Nat /\ At(frames, k + 1, i, o)
  <2>1. \A k \in 1..Len(frames') : k + 1 \in 1..Len(frames) /\ k \in Nat
    BY <1>2
  <2> QED BY <1>2, <2>1 DEF At
<1>4. \A k, i, o : At(frames, k, i, o) => k - 1 \in Nat /\ At(frames', k - 1, i, o)
  <2>1. \A k \in 1..Len(frames) : k # 1 => k - 1 \in 1..Len(frames') /\ (k - 1) + 1 = k
    BY <1>2
  <2>2. \A i \in 1..Len(frames[1]) : FALSE
    BY <1>2
  <2> QED BY <1>2, <2>1, <2>2, SMTT(30) DEF At
<1>5. PICK seen \in SUBSET Others, moved \in SUBSET touched :
         /\ Follows(frames, parent, seen, moved) /\ Together(parent, moved)
         /\ Collected(frames, stack, parent, desktop, touched, seen)
  BY DEF WalkIInv, Walked
<1>6. Follows(frames', parent, seen, moved)
  <2> SUFFICES ASSUME NEW o \in Others \ moved
               PROVE  /\ o \in seen \/ (\E k, i \in Nat : At(frames', k, i, o))
                            <=> parent[o] \in seen \union {Root}
                      /\ o \in seen => \A k, i \in Nat : ~At(frames', k, i, o)
                      /\ \A k, i, l, j \in Nat :
                            At(frames', k, i, o) /\ At(frames', l, j, o) => k = l /\ i = j
    BY DEF Follows
  <2>1. /\ o \in seen \/ (\E k, i \in Nat : At(frames, k, i, o)) <=> parent[o] \in seen \union {Root}
        /\ o \in seen => \A k, i \in Nat : ~At(frames, k, i, o)
        /\ \A k, i, l, j \in Nat : At(frames, k, i, o) /\ At(frames, l, j, o) => k = l /\ i = j
    BY <1>1, <1>5 DEF Follows
  <2>2. (\E k, i \in Nat : At(frames, k, i, o)) <=> (\E k, i \in Nat : At(frames', k, i, o))
    <3>1. \A k \in Nat : k + 1 \in Nat
      OBVIOUS
    <3> QED BY <1>3, <1>4, <3>1
  <2>3. ASSUME NEW k \in Nat, NEW i \in Nat, NEW l \in Nat, NEW j \in Nat,
               At(frames', k, i, o), At(frames', l, j, o)
        PROVE  k = l /\ i = j
    <3>1. k + 1 \in Nat /\ l + 1 \in Nat /\ At(frames, k + 1, i, o) /\ At(frames, l + 1, j, o)
      BY <1>3, <2>3
    <3>2. k + 1 = l + 1 /\ i = j
      BY <2>1, <3>1
    <3> QED BY <3>2
  <2>4. o \in seen => \A k, i \in Nat : ~At(frames', k, i, o)
    BY <2>1, <2>2
  <2> QED BY <2>1, <2>2, <2>3, <2>4
<1>7. Collected(frames', stack, parent, desktop, touched, seen)
  <2>1. ASSUME NEW o \in Others \ touched, NEW k \in Nat, NEW i \in Nat, At(frames', k, i, o)
        PROVE  frames'[k][i].desktop = Shown(parent, desktop, o)
    <3>1. k + 1 \in Nat /\ At(frames, k + 1, i, o) /\ frames'[k] = frames[k + 1]
      BY <1>2, <1>3, <2>1 DEF At
    <3> QED BY <1>5, <3>1 DEF Collected
  <2> QED BY <1>5, <2>1 DEF Collected
<1>8. Walked'
  <2>1. frames' # <<>>
    <3>1. Len(frames) > 1
      BY <1>1
    <3>2. Len(frames) \in Nat /\ Len(frames') = Len(frames) - 1
      BY <1>2
    <3>3. Len(frames') # 0
      BY ONLY <3>1, <3>2
    <3> QED BY <3>3
  <2> QED BY <1>1, <1>5, <1>6, <1>7, <2>1 DEF Walked
<1>9. WalkTypes' /\ Rooted' /\ \A i \in 1..Len(stack') : stack'[i].desktop \in 0..(Desktops - 1)
  BY <1>0, <1>1, <1>2 DEF WalkIInv, WalkTypes, Rooted
<1> QED BY <1>8, <1>9 DEF WalkIInv

(* The levels after a window was visited: its children, then what was.     *)
Pushed(f, q, g) ==
    /\ \A k, i, o : At(g, k, i, o) <=>
          \/ k = 1 /\ i \in 1..Len(q) /\ q[i].id = o
          \/ k = 2 /\ i \in Nat \ {0} /\ At(f, 1, i + 1, o)
          \/ k \in Nat /\ k > 2 /\ At(f, k - 1, i, o)
    /\ g[1] = q
    /\ \A i \in Nat \ {0} : i + 1 \in 1..Len(f[1]) => g[2][i] = f[1][i + 1]
    /\ \A k \in Nat : k > 2 /\ k - 1 \in 1..Len(f) => g[k] = f[k - 1]

LEMMA VisitLevels ==
    ASSUME NEW S, NEW f \in Seq(Seq(S)), NEW q \in Seq(S), f # <<>>, f[1] # <<>>,
           NEW g, g = <<q, Tail(Head(f))>> \o Tail(f)
    PROVE  g \in Seq(Seq(S)) /\ g # <<>> /\ Pushed(f, q, g)
<1> DEFINE r == Tail(Head(f))
<1>0. g = <<q, r>> \o Tail(f)
  OBVIOUS
<1>1. /\ Head(f) = f[1] /\ f[1] \in Seq(S) /\ Tail(f) \in Seq(Seq(S)) /\ Len(f) \in Nat
      /\ Len(Tail(f)) = Len(f) - 1 /\ Len(f) > 0
      /\ \A k \in 1..(Len(f) - 1) : Tail(f)[k] = f[k + 1]
  <2>1. Len(f) \in Nat /\ Len(f) > 0
    BY EmptySeq
  <2> QED BY <2>1, HeadTailProperties
<1>2. /\ r \in Seq(S) /\ Len(r) = Len(f[1]) - 1 /\ Len(f[1]) \in Nat /\ Len(f[1]) > 0
      /\ \A i \in 1..(Len(f[1]) - 1) : r[i] = f[1][i + 1]
  <2>1. Len(f[1]) \in Nat /\ Len(f[1]) > 0
    BY <1>1, EmptySeq
  <2> QED BY <1>1, <2>1, HeadTailProperties
<1> HIDE DEF r
<1>3. <<q, r>> \in Seq(Seq(S)) /\ Len(<<q, r>>) = 2 /\ <<q, r>>[1] = q /\ <<q, r>>[2] = r
  BY <1>2
<1>4. /\ g \in Seq(Seq(S)) /\ Len(g) = Len(f) + 1
      /\ \A k \in 1..(Len(f) + 1) : g[k] = IF k <= 2 THEN <<q, r>>[k] ELSE Tail(f)[k - 2]
  <2>1. /\ g \in Seq(Seq(S)) /\ Len(g) = 2 + (Len(f) - 1)
        /\ \A k \in 1..(2 + (Len(f) - 1)) : g[k] = IF k <= 2 THEN <<q, r>>[k] ELSE Tail(f)[k - 2]
    BY ONLY <1>0, <1>1, <1>3, ConcatProperties
  <2>2. 2 + (Len(f) - 1) = Len(f) + 1
    BY <1>1
  <2> QED BY <2>1, <2>2
<1>5. g[1] = q /\ g[2] = r
  <2>1. 1 \in 1..(Len(f) + 1) /\ 2 \in 1..(Len(f) + 1) /\ 1 <= 2 /\ 2 <= 2
    BY <1>1
  <2> QED BY <2>1, <1>3, <1>4
<1>6. ASSUME NEW k \in Nat, k > 2, k - 1 \in 1..Len(f) PROVE k \in 1..Len(g) /\ g[k] = f[k - 1]
  <2>1. k \in 1..(Len(f) + 1) /\ ~(k <= 2) /\ k - 2 \in 1..(Len(f) - 1) /\ (k - 2) + 1 = k - 1
    BY <1>1, <1>6
  <2> QED BY <2>1, <1>1, <1>4
<1>7. ASSUME NEW k, NEW i, NEW o, At(g, k, i, o)
      PROVE  \/ k = 1 /\ i \in 1..Len(q) /\ q[i].id = o
             \/ k = 2 /\ i \in Nat \ {0} /\ At(f, 1, i + 1, o)
             \/ k \in Nat /\ k > 2 /\ At(f, k - 1, i, o)
  <2>1. k \in 1..(Len(f) + 1)
    BY <1>4, <1>7 DEF At
  <2>2. CASE k = 1
    BY <2>2, <1>5, <1>7 DEF At
  <2>3. CASE k = 2
    <3>1. i \in 1..(Len(f[1]) - 1) /\ r[i].id = o
      BY <2>3, <1>2, <1>5, <1>7 DEF At
    <3>2. i + 1 \in 1..Len(f[1]) /\ i \in Nat \ {0} /\ 1 \in 1..Len(f)
      BY <3>1, <1>1, <1>2
    <3> QED BY <3>1, <3>2, <2>3, <1>2 DEF At
  <2>4. CASE k > 2
    <3>1. k \in Nat /\ k - 1 \in 1..Len(f)
      BY <2>1, <2>4, <1>1
    <3>2. g[k] = f[k - 1]
      BY <3>1, <2>4, <1>6
    <3> QED BY <3>1, <3>2, <2>4, <1>7 DEF At
  <2> QED BY <2>1, <2>2, <2>3, <2>4, <1>1
<1>8. ASSUME NEW k, NEW i, NEW o,
             \/ k = 1 /\ i \in 1..Len(q) /\ q[i].id = o
             \/ k = 2 /\ i \in Nat \ {0} /\ At(f, 1, i + 1, o)
             \/ k \in Nat /\ k > 2 /\ At(f, k - 1, i, o)
      PROVE  At(g, k, i, o)
  <2>1. CASE k = 1 /\ i \in 1..Len(q) /\ q[i].id = o
    <3>1. 1 \in 1..Len(g)
      BY <1>1, <1>4
    <3> QED BY <3>1, <2>1, <1>5 DEF At
  <2>2. CASE k = 2 /\ i \in Nat \ {0} /\ At(f, 1, i + 1, o)
    <3>1. 2 \in 1..Len(g) /\ i \in 1..(Len(f[1]) - 1) /\ f[1][i + 1].id = o
      BY <2>2, <1>1, <1>2, <1>4 DEF At
    <3>2. r[i] = f[1][i + 1] /\ i \in 1..Len(r)
      BY <3>1, <1>2
    <3> QED BY <3>1, <3>2, <2>2, <1>5 DEF At
  <2>3. CASE k \in Nat /\ k > 2 /\ At(f, k - 1, i, o)
    <3>1. k - 1 \in 1..Len(f) /\ i \in 1..Len(f[k - 1]) /\ f[k - 1][i].id = o
      BY <2>3 DEF At
    <3>2. k \in 1..Len(g) /\ g[k] = f[k - 1]
      BY <2>3, <3>1, <1>6
    <3> QED BY <3>1, <3>2 DEF At
  <2> QED BY <2>1, <2>2, <2>3, <1>8
<1>9. \A i \in Nat \ {0} : i + 1 \in 1..Len(f[1]) => g[2][i] = f[1][i + 1]
  <2>1. \A i \in Nat \ {0} : i + 1 \in 1..Len(f[1]) => i \in 1..(Len(f[1]) - 1)
    BY <1>2
  <2> QED BY <2>1, <1>2, <1>5
<1>10. g # <<>>
  BY <1>1, <1>4
<1>11. Pushed(f, q, g)
  BY <1>5, <1>6, <1>7, <1>8, <1>9 DEF Pushed
<1> QED BY <1>4, <1>10, <1>11

LEMMA VisitKeeps == ASSUME WalkIInv, Server!Visit PROVE WalkIInv'
<1> DEFINE e == Head(Head(frames))
           p == e.id
           q == Server!QueryTree(p)
<1>0. WalkTypes
  BY DEF WalkIInv
<1>1. /\ frames # <<>> /\ Head(frames) # <<>>
      /\ stack' = IF Server!Applies(e) THEN Append(stack, e) ELSE stack
      /\ frames' = <<q, Tail(Head(frames))>> \o Tail(frames)
      /\ UNCHANGED <<parent, desktop, touched>>
  BY DEF Server!Visit
<1>2. /\ frames \in Seq(Seq(Entries)) /\ Len(frames) \in Nat /\ 1 \in 1..Len(frames)
      /\ Head(frames) = frames[1] /\ frames[1] \in Seq(Entries)
      /\ 1 \in 1..Len(frames[1]) /\ e = frames[1][1] /\ e \in Entries
  <2>1. frames \in Seq(Seq(Entries)) /\ Len(frames) \in Nat /\ Len(frames) > 0
    BY <1>0, <1>1, EmptySeq DEF WalkTypes
  <2>2. Head(frames) = frames[1] /\ frames[1] \in Seq(Entries)
    BY <2>1, <1>1, HeadTailProperties
  <2>3. Len(frames[1]) \in Nat /\ Len(frames[1]) > 0
    BY <2>2, <1>1, EmptySeq
  <2>4. e = frames[1][1] /\ e \in Entries
    BY <2>2, <1>1, HeadTailProperties
  <2> QED BY <2>1, <2>2, <2>3, <2>4
<1> HIDE DEF e
<1>3. p \in Others /\ At(frames, 1, 1, p) /\ e.desktop \in Nat \union {NONE}
  BY <1>2 DEF At, Entries
<1>4. /\ q \in Seq(Entries)
      /\ \A i \in 1..Len(q) : /\ q[i].id \in Others /\ parent[q[i].id] = p
                              /\ q[i].desktop = Shown(parent, desktop, q[i].id)
      /\ parent[p] # NONE => \A o \in Others : parent[o] = p => \E i \in 1..Len(q) : q[i].id = o
      /\ \A i, j \in 1..Len(q) : q[i].id = q[j].id => i = j
  BY <1>0, <1>3, TreeAnswer
<1> HIDE DEF q
<1>5. /\ frames' \in Seq(Seq(Entries)) /\ frames' # <<>>
      /\ \A k, i, o : At(frames', k, i, o) <=>
            \/ k = 1 /\ i \in 1..Len(q) /\ q[i].id = o
            \/ k = 2 /\ i \in Nat \ {0} /\ At(frames, 1, i + 1, o)
            \/ k \in Nat /\ k > 2 /\ At(frames, k - 1, i, o)
      /\ frames'[1] = q
      /\ \A i \in Nat \ {0} : i + 1 \in 1..Len(frames[1]) => frames'[2][i] = frames[1][i + 1]
      /\ \A k \in Nat : k > 2 /\ k - 1 \in 1..Len(frames) => frames'[k] = frames[k - 1]
  <2>1. frames[1] # <<>>
    BY <1>1, <1>2
  <2>2. frames' = <<q, Tail(Head(frames))>> \o Tail(frames)
    BY <1>1
  <2>3. q \in Seq(Entries) /\ frames \in Seq(Seq(Entries))
    BY <1>2, <1>4
  <2>4. frames' \in Seq(Seq(Entries)) /\ frames' # <<>> /\ Pushed(frames, q, frames')
    BY <1>1, <2>1, <2>2, <2>3, VisitLevels
  <2> HIDE DEF p
  <2> QED BY <2>4 DEF Pushed
<1>6. PICK seen \in SUBSET Others, moved \in SUBSET touched :
         /\ Follows(frames, parent, seen, moved) /\ Together(parent, moved)
         /\ Collected(frames, stack, parent, desktop, touched, seen)
  BY DEF WalkIInv, Walked
<1> DEFINE Once(f, o) == \A k, i, l, j \in Nat : At(f, k, i, o) /\ At(f, l, j, o) => k = l /\ i = j
           Waits(f, o) == \E k, i \in Nat : At(f, k, i, o)
<1>7. \A o \in Others \ moved :
         /\ o \in seen \/ Waits(frames, o) <=> parent[o] \in seen \union {Root}
         /\ ~(o \in seen /\ Waits(frames, o))
         /\ Once(frames, o)
  BY <1>1, <1>6 DEF Follows
<1>8. \A k, i, o : At(frames, k, i, o) => k \in Nat \ {0} /\ i \in Nat \ {0}
  BY DEF At
<1>9. \A o \in Others : parent[o] # p => \A k, i : At(frames', k, i, o) <=>
            \/ k = 2 /\ i \in Nat \ {0} /\ At(frames, 1, i + 1, o)
            \/ k \in Nat /\ k > 2 /\ At(frames, k - 1, i, o)
  BY <1>4, <1>5
<1>10. ASSUME NEW o \in Others \ moved, parent[o] = p
       PROVE  /\ p \notin moved /\ p \notin seen /\ o \notin seen /\ ~Waits(frames, o) /\ o # p
              /\ Waits(frames', o) /\ Once(frames', o)
  <2>1. p \notin moved /\ parent[p] # NONE /\ p # Root
    BY <1>3, <1>6, <1>10, ScreenNames DEF Together
  <2>2. Waits(frames, p)
    BY <1>3
  <2>3. p \notin seen
    BY <1>3, <1>7, <2>1, <2>2
  <2>4. o \notin seen /\ ~Waits(frames, o)
    BY <1>7, <1>10, <2>1, <2>3
  <2>5. \A k, i : At(frames', k, i, o) <=> k = 1 /\ i \in 1..Len(q) /\ q[i].id = o
    <3>1. \A k, i : ~At(frames, k, i, o)
      BY <1>8, <2>4
    <3> QED BY <1>5, <3>1
  <2>6. PICK i \in 1..Len(q) : q[i].id = o
    BY <1>4, <1>10, <2>1
  <2>7. Waits(frames', o) /\ Once(frames', o)
    <3>1. i \in Nat /\ At(frames', 1, i, o)
      BY <2>5, <2>6
    <3> QED BY <1>4, <2>5, <3>1
  <2> QED BY <2>1, <2>2, <2>3, <2>4, <2>7
<1>11. ASSUME NEW o \in Others, parent[o] # p, Once(frames, o)
       PROVE  /\ Once(frames', o)
              /\ o # p => (Waits(frames', o) <=> Waits(frames, o))
              /\ o = p => ~Waits(frames', o)
  <2>1. ASSUME NEW k \in Nat, NEW i \in Nat, NEW l \in Nat, NEW j \in Nat,
               At(frames', k, i, o), At(frames', l, j, o)
        PROVE  k = l /\ i = j
    <3>1. /\ (k = 2 /\ At(frames, 1, i + 1, o)) \/ (k > 2 /\ At(frames, k - 1, i, o))
          /\ (l = 2 /\ At(frames, 1, j + 1, o)) \/ (l > 2 /\ At(frames, l - 1, j, o))
      BY <1>9, <1>11, <2>1
    <3>2. i + 1 \in Nat /\ j + 1 \in Nat /\ (k > 2 => k - 1 \in Nat /\ k - 1 # 1)
          /\ (l > 2 => l - 1 \in Nat /\ l - 1 # 1)
      OBVIOUS
    <3>3. CASE k = 2 /\ l = 2
      <4>1. i + 1 = j + 1
        BY <1>11, <3>1, <3>2, <3>3
      <4> QED BY <4>1, <3>3
    <3>4. CASE k > 2 /\ l > 2
      <4>1. k - 1 = l - 1 /\ i = j
        BY <1>11, <3>1, <3>2, <3>4
      <4> QED BY <4>1
    <3> QED BY <1>11, <3>1, <3>2, <3>3, <3>4
  <2>2. ASSUME o # p, NEW k \in Nat, NEW i \in Nat, At(frames, k, i, o) PROVE Waits(frames', o)
    <3>1. k \in Nat \ {0} /\ i \in Nat \ {0}
      BY <1>8, <2>2
    <3>2. CASE k = 1
      <4>1. i # 1
        BY <1>2, <2>2, <3>2 DEF At
      <4>2. i - 1 \in Nat \ {0} /\ (i - 1) + 1 = i
        BY <3>1, <4>1
      <4>3. At(frames', 2, i - 1, o)
        BY <1>9, <1>11, <2>2, <3>2, <4>2
      <4> QED BY <4>2, <4>3
    <3>3. CASE k > 1
      <4>1. k + 1 \in Nat /\ k + 1 > 2 /\ (k + 1) - 1 = k
        BY <3>3
      <4>2. At(frames', k + 1, i, o)
        BY <1>9, <1>11, <2>2, <4>1
      <4> QED BY <4>1, <4>2
    <3> QED BY <3>1, <3>2, <3>3
  <2>3. ASSUME NEW k \in Nat, NEW i \in Nat, At(frames', k, i, o)
        PROVE  Waits(frames, o) /\ o # p
    <3>1. \/ i \in Nat \ {0} /\ At(frames, 1, i + 1, o)
          \/ k > 2 /\ At(frames, k - 1, i, o)
      BY <1>9, <1>11, <2>3
    <3>2. PICK l \in Nat, j \in Nat : At(frames, l, j, o) /\ ~(l = 1 /\ j = 1)
      <4>1. i + 1 \in Nat /\ (i \in Nat \ {0} => i + 1 # 1) /\ (k > 2 => k - 1 \in Nat /\ k - 1 # 1)
        OBVIOUS
      <4> QED BY <3>1, <4>1
    <3>3. o # p
      BY <1>3, <1>11, <3>2
    <3> QED BY <3>2, <3>3
  <2> QED BY <2>1, <2>2, <2>3
<1>12. p \notin moved => p \notin seen /\ parent[p] # p /\ parent[p] \in seen \union {Root}
  <2>1. Waits(frames, p)
    BY <1>3
  <2> QED BY <2>1, <1>3, <1>7, ScreenNames
<1> DEFINE now == seen \union {p}
<1>13. Follows(frames', parent, now, moved)
  <2> SUFFICES ASSUME NEW o \in Others \ moved
               PROVE  /\ o \in now \/ Waits(frames', o) <=> parent[o] \in now \union {Root}
                      /\ ~(o \in now /\ Waits(frames', o))
                      /\ Once(frames', o)
    BY DEF Follows
  <2>1. CASE parent[o] = p
    BY <1>10, <2>1
  <2>2. CASE parent[o] # p /\ o # p
    <3> HIDE DEF Once, Waits
    <3> QED BY <1>7, <1>11, <2>2
  <2>3. CASE parent[o] # p /\ o = p
    <3> HIDE DEF Once, Waits
    <3> QED BY <1>7, <1>11, <1>12, <2>3
  <2> QED BY <2>1, <2>2, <2>3
<1>14. /\ stack' \in Seq(Entries)
       /\ \A i \in 1..Len(stack') : stack'[i].desktop \in 0..(Desktops - 1)
  <2>1. CASE ~Server!Applies(e)
    BY <1>0, <1>1, <2>1 DEF WalkIInv, WalkTypes
  <2>2. CASE Server!Applies(e)
    <3>1. e.desktop \in 0..(Desktops - 1)
      BY <1>3, <2>2, ScreenAssumption DEF Server!Applies
    <3>2. /\ stack \in Seq(Entries) /\ stack' = Append(stack, e)
          /\ \A i \in 1..Len(stack) : stack[i].desktop \in 0..(Desktops - 1)
      BY <1>0, <1>1, <2>2 DEF WalkIInv, WalkTypes
    <3>3. /\ stack' \in Seq(Entries) /\ Len(stack) \in Nat /\ Len(stack') = Len(stack) + 1
          /\ stack'[Len(stack) + 1] = e
          /\ \A i \in 1..Len(stack) : stack'[i] = stack[i]
      BY <1>2, <3>2, AppendProperties
    <3>4. \A i \in 1..Len(stack') : i \in 1..Len(stack) \/ i = Len(stack) + 1
      BY <3>3
    <3> QED BY <3>1, <3>2, <3>3, <3>4
  <2> QED BY <2>1, <2>2
<1>15. Collected(frames', stack', parent, desktop, touched, now)
  <2> SUFFICES ASSUME NEW o \in Others \ touched
      PROVE  /\ \A k, i \in Nat : At(frames', k, i, o) =>
                   frames'[k][i].desktop = Shown(parent, desktop, o)
             /\ o \notin now => \A i \in 1..Len(stack') : stack'[i].id # o
             /\ o \in now /\ desktop[o] \in 0..(Desktops - 1) =>
                   \E i \in 1..Len(stack') :
                      stack'[i].id = o /\ \A j \in 1..Len(stack') : stack'[j].id = o => j = i
    BY DEF Collected
  <2>0. /\ \A k, i \in Nat : At(frames, k, i, o) => frames[k][i].desktop = Shown(parent, desktop, o)
        /\ o \notin seen => \A i \in 1..Len(stack) : stack[i].id # o
        /\ o \in seen /\ desktop[o] \in 0..(Desktops - 1) =>
              \E i \in 1..Len(stack) :
                 stack[i].id = o /\ \A j \in 1..Len(stack) : stack[j].id = o => j = i
    BY <1>6 DEF Collected
  <2>1. ASSUME NEW k \in Nat, NEW i \in Nat, At(frames', k, i, o)
        PROVE  frames'[k][i].desktop = Shown(parent, desktop, o)
    <3>1. CASE k = 1 /\ i \in 1..Len(q) /\ q[i].id = o
      BY <1>4, <1>5, <3>1
    <3>2. CASE k = 2 /\ i \in Nat \ {0} /\ At(frames, 1, i + 1, o)
      <4>1. i + 1 \in 1..Len(frames[1]) /\ i + 1 \in Nat
        BY <3>2 DEF At
      <4>2. frames'[2][i] = frames[1][i + 1]
        BY <1>5, <3>2, <4>1
      <4>3. frames[1][i + 1].desktop = Shown(parent, desktop, o)
        BY <2>0, <3>2, <4>1
      <4> QED BY <3>2, <4>2, <4>3
    <3>3. CASE k > 2 /\ At(frames, k - 1, i, o)
      <4>1. k - 1 \in 1..Len(frames) /\ k - 1 \in Nat
        BY <3>3 DEF At
      <4>2. frames'[k] = frames[k - 1]
        BY <1>5, <3>3, <4>1
      <4>3. frames[k - 1][i].desktop = Shown(parent, desktop, o)
        BY <2>0, <3>3, <4>1
      <4> QED BY <4>2, <4>3
    <3> QED BY <1>5, <2>1, <3>1, <3>2, <3>3, SMTT(30)
  <2>2. CASE o # p
    <3>1. CASE ~Server!Applies(e)
      BY <1>1, <2>0, <2>1, <2>2, <3>1
    <3>2. CASE Server!Applies(e)
      <4>1. /\ Len(stack) \in Nat /\ Len(stack') = Len(stack) + 1
            /\ stack'[Len(stack) + 1].id = p
            /\ \A i \in 1..Len(stack) : stack'[i] = stack[i] /\ i \in 1..Len(stack')
            /\ \A i \in 1..Len(stack') : i \in 1..Len(stack) \/ i = Len(stack) + 1
        <5>1. stack \in Seq(Entries) /\ stack' = Append(stack, e)
          BY <1>0, <1>1, <3>2 DEF WalkTypes
        <5>2. /\ Len(stack) \in Nat /\ Len(stack') = Len(stack) + 1
              /\ stack'[Len(stack) + 1] = e
              /\ \A i \in 1..Len(stack) : stack'[i] = stack[i]
          BY <1>2, <5>1, AppendProperties
        <5> QED BY <5>2
      <4>2. o \notin now => \A i \in 1..Len(stack') : stack'[i].id # o
        BY <2>0, <2>2, <4>1
      <4>3. ASSUME o \in now, desktop[o] \in 0..(Desktops - 1)
            PROVE  \E i \in 1..Len(stack') :
                      stack'[i].id = o /\ \A j \in 1..Len(stack') : stack'[j].id = o => j = i
        <5>1. PICK i \in 1..Len(stack) :
                 stack[i].id = o /\ \A j \in 1..Len(stack) : stack[j].id = o => j = i
          BY <2>0, <2>2, <4>3
        <5>2. i \in 1..Len(stack') /\ stack'[i].id = o
          BY <4>1, <5>1
        <5>3. \A j \in 1..Len(stack') : stack'[j].id = o => j = i
          BY <2>2, <4>1, <5>1
        <5> QED BY <5>2, <5>3
      <4> QED BY <2>1, <4>2, <4>3
    <3> QED BY <3>1, <3>2
  <2>3. CASE o = p
    <3>1. p \notin seen /\ e.desktop = Shown(parent, desktop, o) /\ parent[o] # NONE
      <4>1. p \notin seen
        BY <1>12, <2>3
      <4>2. e.desktop = Shown(parent, desktop, o)
        BY <1>2, <1>3, <2>0, <2>3
      <4>3. parent[o] # NONE
        BY <1>6, ScreenNames DEF Together
      <4> QED BY <4>1, <4>2, <4>3
    <3>2. ASSUME desktop[o] \in 0..(Desktops - 1)
          PROVE  \E i \in 1..Len(stack') :
                    stack'[i].id = o /\ \A j \in 1..Len(stack') : stack'[j].id = o => j = i
      <4>1. e.desktop = desktop[o] /\ e.desktop \in Nat /\ e.desktop < Desktops
        BY <3>1, <3>2, ScreenAssumption DEF Shown
      <4>2. stack \in Seq(Entries) /\ stack' = Append(stack, e)
        BY <1>0, <1>1, <4>1, ScreenNames DEF WalkTypes, Server!Applies
      <4>3. /\ Len(stack) \in Nat /\ Len(stack') = Len(stack) + 1
            /\ stack'[Len(stack) + 1] = e
            /\ \A i \in 1..Len(stack) : stack'[i] = stack[i]
        BY <1>2, <4>2, AppendProperties
      <4>4. /\ Len(stack) + 1 \in 1..Len(stack') /\ stack'[Len(stack) + 1].id = o
            /\ \A j \in 1..Len(stack') : j \in 1..Len(stack) \/ j = Len(stack) + 1
        BY <2>3, <4>3
      <4>5. \A j \in 1..Len(stack') : stack'[j].id = o => j = Len(stack) + 1
        BY <2>0, <2>3, <3>1, <4>3, <4>4
      <4> QED BY <4>4, <4>5
    <3> QED BY <2>1, <2>3, <3>2
  <2> QED BY <2>2, <2>3
<1>16. Walked'
  <2>1. now \in SUBSET Others
    BY <1>3
  <2> HIDE DEF now
  <2> QED BY <1>1, <1>5, <1>6, <1>13, <1>15, <2>1 DEF Walked
<1>17. WalkTypes' /\ Rooted'
  BY <1>0, <1>1, <1>5, <1>14 DEF WalkIInv, WalkTypes, Rooted
<1> QED BY <1>14, <1>16, <1>17 DEF WalkIInv

LEMMA ScreenKeeps == ASSUME WalkIInv, Server!Screen \/ Server!Walk PROVE WalkIInv'
BY VanishKeeps, ReparentKeeps, SetDesktopKeeps, StartKeeps, VisitKeeps, UpKeeps
   DEF Server!Screen, Server!Walk

-----------------------------------------------------------------------------
(* Of all behaviours.  The clock of the user is a number as long as the    *)
(* client runs.                                                            *)
LEMMA ClockKeeps ==
    ASSUME clock \in Int,
           \/ Client!Keyboard \/ Client!Pointer \/ Client!WindowEvents
           \/ Client!Selecting \/ Client!Event \/ Client!Reconnect
    PROVE  clock' \in Int
<1>1. clock' = clock \/ clock' = clock + 1
  <2>1. CASE Client!Keyboard
    BY <2>1 DEF Client!Keyboard, Client!PressKey, Client!ReleaseKey, Client!ReleaseElsewhere
  <2>2. CASE Client!Pointer \/ Client!WindowEvents
    BY <2>2 DEF Client!Pointer, Client!WindowEvents, Client!Tick, Client!Mouse, Client!Send, Client!world
  <2>3. CASE Client!Selecting
    <3>1. CASE Client!Answer
      BY <3>1 DEF Client!Answer, Client!world
    <3>2. CASE \E s \in Selections :
                   Client!PeerCopy(s) \/ \E w \in Wins : Client!Copy(w, s) \/ Client!Paste(w, s)
      BY <3>2 DEF Client!PeerCopy, Client!Copy, Client!Paste, Client!Call
    <3>3. CASE \E s \in Selections, how \in {<<"utf8", "utf8">>, <<"utf8", NONE>>, <<"image", "utf8">>} :
                   Client!PeerPaste(s, how[1], how[2])
      BY <3>3 DEF Client!PeerPaste, Client!Call
    <3> QED BY <2>3, <3>1, <3>2, <3>3 DEF Client!Selecting
  <2>4. CASE Client!Event
    BY <2>4 DEF Client!Event, Client!OnKeyPress, Client!OnKeyRelease, Client!OnButtonPress,
                Client!OnButtonRelease, Client!OnRequest, Client!OnRefusal, Client!OnNotify,
                Client!OnPlain, Client!OnClear, Client!world
  <2>5. CASE Client!Reconnect
    BY <2>5 DEF Client!Reconnect
  <2> QED BY <2>1, <2>2, <2>3, <2>4, <2>5
<1> QED BY <1>1

LEMMA ClientRests == ASSUME ClientIInv, UNCHANGED events_ PROVE ClientIInv'
<1>1. UNCHANGED <<queue, owner, property, pasting, mods, mousetime, mousestate,
                  held, unsure, crossed, report>>
  BY DEF events_
<1>2. ClientTypes' /\ KeysIInv' /\ Pastes'
  BY <1>1 DEF ClientIInv, ClientTypes, KeysIInv, Led, Pastes
<1>3. EventsRight'
  BY <1>1 DEF ClientIInv, EventsRight, Client!EventsRight, Client!ModifiersRight,
              Client!ClicksRight, Client!PasteRight
<1> QED BY <1>2, <1>3 DEF ClientIInv

LEMMA SurfacesRest ==
    ASSUME SurfacesIInv, UNCHANGED <<shared, img, ximage, attached, mapped, live, dead, next>>
    PROVE  SurfacesIInv'
<1>1. /\ shared' = shared /\ img' = img /\ ximage' = ximage /\ attached' = attached
      /\ mapped' = mapped /\ live' = live /\ dead' = dead /\ next' = next
  OBVIOUS
<1>2. Server!SurfacesHold'
  <2>1. Drawn' = Drawn
    BY <1>1 DEF Drawn
  <2>2. (UNION {Server!Blocks(n) : n \in Drawn})' = UNION {Server!Blocks(n) : n \in Drawn}
    BY <1>1, <2>1 DEF Server!Blocks
  <2>3. /\ img = ximage /\ attached = mapped /\ attached = (IF shared THEN Drawn ELSE {})
        /\ live = UNION {Server!Blocks(n) : n \in Drawn}
        /\ live \intersect dead = {} /\ (~shared => dead = {})
    BY Zenon DEF SurfacesIInv, Drawn, Server!SurfacesHold
  <2>4. (UNION {Server!Blocks(n) : n \in Drawn})' = live'
    BY <1>1, <2>2, <2>3
  <2>5. /\ img' = ximage' /\ attached' = mapped' /\ attached' = (IF shared' THEN Drawn' ELSE {})
        /\ live' \intersect dead' = {} /\ (~shared' => dead' = {})
    BY <1>1, <2>1, <2>3
  <2> QED BY <2>4, <2>5, Zenon DEF Drawn, Server!SurfacesHold
<1> QED BY <1>1, <1>2 DEF SurfacesIInv, Drawn

LEMMA WalkRests ==
    ASSUME WalkIInv, UNCHANGED <<parent, desktop, frames, stack, touched>>
    PROVE  WalkIInv'
<1>1. WalkTypes' /\ Rooted' /\ Walked'
  BY DEF WalkIInv, WalkTypes, Rooted, Walked
<1> QED BY <1>1 DEF WalkIInv

(* The two halves of the server do not touch each other.                   *)
LEMMA ServerApart ==
    /\ Server!Surfaces => UNCHANGED <<parent, desktop, frames, stack, touched>>
    /\ Server!Screen \/ Server!Walk =>
           UNCHANGED <<shared, img, ximage, attached, mapped, live, dead, next>>
<1>1. ASSUME Server!Surfaces PROVE UNCHANGED <<parent, desktop, frames, stack, touched>>
  BY <1>1 DEF Server!Surfaces, Server!WinNew, Server!Resize, Server!Destroy, Server!walk
<1>2. ASSUME Server!Screen
      PROVE  UNCHANGED <<shared, img, ximage, attached, mapped, live, dead, next>>
  BY <1>2 DEF Server!Screen, Server!Vanish, Server!Reparent, Server!SetDesktop, Server!surface
<1>3. ASSUME Server!Walk
      PROVE  UNCHANGED <<shared, img, ximage, attached, mapped, live, dead, next>>
  BY <1>3 DEF Server!Walk, Server!Start, Server!Visit, Server!Up, Server!surface
<1> QED BY <1>1, <1>2, <1>3

(* For any windows, selections and keys and any bounds on the clock and    *)
(* the queue: the program is told of the modifiers, clicks and texts that  *)
(* the events of the server stand for (xorg.c:936-987, 1830-2183).         *)
THEOREM EventsAlways == IoSpec => []EventsRight
<1> DEFINE I == ClientIInv /\ clock \in Int
<1>1. IoInit => I
  <2>1. Client!Init => clock \in Int
    BY DEF Client!Init
  <2> QED BY <2>1, ClientStarts DEF IoInit
<1>2. I /\ [IoNext]_<<subject, loop, reading, writing, events_, server, www>> => I'
  <2> SUFFICES ASSUME I, [IoNext]_<<subject, loop, reading, writing, events_, server, www>>
               PROVE  I'
    OBVIOUS
  <2>1. CASE UNCHANGED events_
    <3>1. clock' = clock
      BY <2>1 DEF events_
    <3> QED BY <2>1, <3>1, ClientRests
  <2>2. CASE \/ Client!Keyboard \/ Client!Pointer \/ Client!WindowEvents
             \/ Client!Selecting \/ Client!Event \/ Client!Reconnect
    BY <2>2, ClockKeeps, KeyboardKeeps, WorldKeeps, SelectingKeeps, EventKeeps, ReconnectKeeps
  <2>3. IoNext => \/ UNCHANGED events_
                  \/ Client!Keyboard \/ Client!Pointer \/ Client!WindowEvents
                  \/ Client!Selecting \/ Client!Event \/ Client!Reconnect
    BY Zenon DEF IoNext
  <2> QED BY <2>1, <2>2, <2>3
<1>3. I => EventsRight
  BY DEF ClientIInv
<1> QED BY <1>1, <1>2, <1>3, PTL DEF IoSpec

(* For any windows of a program and any finite screen: a window draws on   *)
(* what is sent and no memory in use is lost, and the walk over the screen *)
(* finds each application that stays, once (xorg.c:1016-1131, 1710-1819).  *)
THEOREM WindowsAlways == IoSpec => []WindowsRight
<1> DEFINE I == SurfacesIInv /\ WalkIInv
<1>1. IoInit => I
  BY SurfacesStart, WalkStarts DEF IoInit
<1>2. I /\ [IoNext]_<<subject, loop, reading, writing, events_, server, www>> => I'
  <2> SUFFICES ASSUME I, [IoNext]_<<subject, loop, reading, writing, events_, server, www>>
               PROVE  I'
    OBVIOUS
  <2>1. CASE UNCHANGED server
    <3>1. UNCHANGED <<shared, img, ximage, attached, mapped, live, dead, next>>
      BY <2>1 DEF server
    <3>2. UNCHANGED <<parent, desktop, frames, stack, touched>>
      BY <2>1 DEF server
    <3> QED BY <3>1, <3>2, SurfacesRest, WalkRests
  <2>2. CASE Server!Surfaces
    BY <2>2, ServerApart, SurfacesKeep, WalkRests
  <2>3. CASE Server!Screen \/ Server!Walk
    BY <2>3, ServerApart, SurfacesRest, ScreenKeeps
  <2>4. IoNext => UNCHANGED server \/ Server!Surfaces \/ Server!Screen \/ Server!Walk
    BY Zenon DEF IoNext
  <2> QED BY <2>1, <2>2, <2>3, <2>4
<1>3. I => WindowsRight
  BY WalkFinds DEF SurfacesIInv, WindowsRight
<1> QED BY <1>1, <1>2, <1>3, PTL DEF IoSpec
=============================================================================
