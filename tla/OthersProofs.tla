---------------------------- MODULE OthersProofs ----------------------------
(***************************************************************************)
(* For any replies, sockets, sessions, mailboxes, pipes and shells: an     *)
(* account is what the replies it had granted, sockets neither lose nor    *)
(* use twice their descriptors, sessions and messages, calls over a handle *)
(* of mailboxes are for the mailbox they say, and the output and the end   *)
(* of child processes are what they were.                                  *)
(***************************************************************************)
EXTENDS MCIo, SequenceTheorems, WellFoundedInduction, TLAPS

LEMMA RemoveAtProperties ==
    ASSUME NEW S, NEW s \in Seq(S), NEW i \in 1..Len(s)
    PROVE  /\ RemoveAt(s, i) \in Seq(S)
           /\ Len(RemoveAt(s, i)) = Len(s) - 1
           /\ \A j \in 1..(Len(s) - 1) :
                 RemoveAt(s, i)[j] = IF j < i THEN s[j] ELSE s[j + 1]
<1> DEFINE a == SubSeq(s, 1, i - 1)
           b == SubSeq(s, i + 1, Len(s))
<1>0. Len(s) \in Nat /\ i \in 1..Len(s)
  OBVIOUS
<1>1. /\ a \in Seq(S) /\ Len(a) = i - 1
      /\ \A j \in 1..(i - 1) : a[j] = s[j]
  OBVIOUS
<1>2. /\ b \in Seq(S) /\ Len(b) = Len(s) - i
      /\ \A j \in 1..(Len(s) - i) : b[j] = s[j + i]
  OBVIOUS
<1>3. RemoveAt(s, i) = a \o b
  BY DEF RemoveAt
<1> HIDE DEF a, b
<1>4. /\ a \o b \in Seq(S) /\ Len(a \o b) = Len(s) - 1
      /\ \A j \in 1..(Len(s) - 1) : (a \o b)[j] = IF j < i THEN a[j] ELSE b[j - (i - 1)]
  <2>1. /\ a \o b \in Seq(S) /\ Len(a \o b) = Len(a) + Len(b)
        /\ \A j \in 1..(Len(a) + Len(b)) :
              (a \o b)[j] = IF j <= Len(a) THEN a[j] ELSE b[j - Len(a)]
    BY <1>1, <1>2, ConcatProperties
  <2>2. Len(a) + Len(b) = Len(s) - 1 /\ Len(a) = i - 1
    BY <1>0, <1>1, <1>2
  <2>3. \A j \in 1..(Len(s) - 1) : (j <= i - 1) = (j < i)
    BY <1>0
  <2> QED BY <2>1, <2>2, <2>3
<1>5. ASSUME NEW j \in 1..(Len(s) - 1)
      PROVE  (a \o b)[j] = IF j < i THEN s[j] ELSE s[j + 1]
  <2>1. CASE j < i
    BY <2>1, <1>1, <1>4
  <2>2. CASE ~ (j < i)
    <3>1. j - (i - 1) \in 1..(Len(s) - i) /\ (j - (i - 1)) + i = j + 1
      BY <2>2
    <3>2. b[j - (i - 1)] = s[j + 1]
      BY <3>1, <1>2
    <3> QED BY <3>2, <2>2, <1>4
  <2> QED BY <2>1, <2>2
<1> QED BY <1>3, <1>4, <1>5

-----------------------------------------------------------------------------
(* Accounts.  What the server knows of the tokens it has granted, and how  *)
(* that may grow: the time a token was asked for and its life stay.        *)
Grants == Seq([from : Nat, to : Nat, life : Nat])
Grown(g, h) ==
    /\ Len(g) <= Len(h)
    /\ \A i \in 1..Len(g) :
           h[i].from = g[i].from /\ h[i].life = g[i].life /\ g[i].to <= h[i].to

(* An answer with tokens is of one that was granted.                       *)
Answers == [kind : {"error", "page"}]
    \union [kind : {"tokens"}, token : Nat, life : Lives, refresh : Nat \union {NULL},
            scope : {"mail", "empty"}]
Genuine(r, g) ==
    r.kind = "tokens" =>
        r.token \in 1..Len(g) /\ r.life = g[r.token].life /\ r.refresh \in {NULL, r.token}

(* An account, of a process or of the file, that may be without tokens or  *)
(* without the time.                                                       *)
Sound(t, r, e, et, g) ==
    /\ t \in 1..Len(g) \union {NULL} /\ r \in 1..Len(g) \union {NULL} /\ et \in Nat
    /\ t = NULL => r = NULL
    /\ r = NULL => et = 0
    /\ r # NULL => r <= t
    /\ et # 0 => e = g[t].life /\ et \in (g[t].from + g[t].life)..(g[t].to + g[t].life)

BufferIInv == len \in Nat /\ size \in Nat /\ len <= size /\ (ended => len < size)

RunIInv ==
    /\ running \in {"none", "get", "refresh", "getting", "refreshing"}
    /\ running # "none" => Genuine(reply, granted)
                           /\ (reply.kind = "tokens" => reply.token = Len(granted))
                           /\ reply \in Answers
    /\ replies \in Seq(Answers)
    /\ \A i \in 1..Len(replies) : Genuine(replies[i], granted)
    /\ running \in {"getting", "refreshing"} =>
           Len(replies) > 0 /\ replies[Len(replies)] = reply /\ ~ended

(* The first reply of the buffer was taken when the second one is read.    *)
FirstTaken ==
    ~unended /\ Len(replies) > 0 /\ replies[1].kind = "tokens" =>
        \/ token = replies[1].token
        \/ Len(replies) = 1 /\ running \in {"getting", "refreshing"}

PostIInv ==
    /\ post \in Seq({"get", "refresh"})
    /\ \A i \in 1..Len(post) :
           post[i] = "get" \/ (i = Len(post) /\ running \in {"refresh", "refreshing"})

AccountIInv ==
    /\ today \in Nat
    /\ granted \in Grants
    /\ \A i \in 1..Len(granted) : granted[i].from <= granted[i].to /\ granted[i].to <= today
    /\ BufferIInv /\ RunIInv /\ FirstTaken /\ PostIInv
    /\ Sound(token, tokenRefresh, expires, expiresTime, granted)
    /\ stored # NULL => Sound(stored.token, stored.tokenRefresh, stored.expires,
                              stored.expiresTime, granted)

(* It is strong enough.                                                    *)
LEMMA AccountRight == AccountIInv => Auth!AuthorizeHolds
<1> SUFFICES ASSUME AccountIInv PROVE Auth!AuthorizeHolds
  OBVIOUS
<1>1. Auth!BufferHolds
  BY DEF AccountIInv, BufferIInv, Auth!BufferHolds
<1>2. Auth!TokenRight
  <2>1. DOMAIN granted = 1..Len(granted)
    BY SMTT(30) DEF AccountIInv, Grants
  <2>2. QED
    BY <2>1, SocketAssumption DEF AccountIInv, Sound, Auth!TokenRight
<1>3. Auth!PostRight
  <2>1. post \in Seq({"get", "refresh"})
    BY DEF AccountIInv, PostIInv
  <2>3. DOMAIN post = 1..Len(post)
    BY <2>1, LenProperties
  <2>2. QED
    BY <2>3 DEF AccountIInv, PostIInv, Auth!PostRight
<1>4. QED
  BY <1>1, <1>2, <1>3 DEF Auth!AuthorizeHolds

(* What is granted later leaves answers genuine and accounts sound.        *)
LEMMA GenuineStays ==
    ASSUME NEW g \in Grants, NEW h \in Grants, Grown(g, h), NEW r, Genuine(r, g)
    PROVE  Genuine(r, h)
<1> SUFFICES ASSUME r.kind = "tokens"
             PROVE  r.token \in 1..Len(h) /\ r.life = h[r.token].life /\ r.refresh \in {NULL, r.token}
  BY DEF Genuine
<1>1. Len(g) \in Nat /\ Len(h) \in Nat /\ Len(g) <= Len(h)
  BY DEF Grown, Grants
<1>2. r.token \in 1..Len(g) /\ r.life = g[r.token].life /\ r.refresh \in {NULL, r.token}
  BY DEF Genuine
<1>3. h[r.token].life = g[r.token].life
  BY <1>2 DEF Grown
<1>4. QED
  BY <1>1, <1>2, <1>3

LEMMA SoundStays ==
    ASSUME NEW g \in Grants, NEW h \in Grants, Grown(g, h),
           NEW t, NEW r, NEW e, NEW et, Sound(t, r, e, et, g)
    PROVE  Sound(t, r, e, et, h)
<1>1. Len(g) \in Nat /\ Len(h) \in Nat /\ Len(g) <= Len(h)
  BY DEF Grown, Grants
<1>2. /\ t \in 1..Len(h) \union {NULL} /\ r \in 1..Len(h) \union {NULL} /\ et \in Nat
      /\ t = NULL => r = NULL
      /\ r = NULL => et = 0
      /\ r # NULL => r <= t
  BY <1>1 DEF Sound
<1>3. ASSUME et # 0
      PROVE  e = h[t].life /\ et \in (h[t].from + h[t].life)..(h[t].to + h[t].life)
  <2>1. t \in 1..Len(g)
    BY <1>3 DEF Sound
  <2>2. g[t] \in [from : Nat, to : Nat, life : Nat] /\ h[t] \in [from : Nat, to : Nat, life : Nat]
    <3>1. t \in 1..Len(h)
      BY <1>1, <2>1
    <3>2. QED
      BY <2>1, <3>1, ElementOfSeq DEF Grants
  <2>3. h[t].from = g[t].from /\ h[t].life = g[t].life /\ g[t].to <= h[t].to
    BY <2>1 DEF Grown
  <2>4. e = g[t].life /\ et \in (g[t].from + g[t].life)..(g[t].to + g[t].life)
    BY <1>3 DEF Sound
  <2>5. QED
    BY <1>2, <2>2, <2>3, <2>4
<1>4. QED
  BY <1>2, <1>3 DEF Sound

(* The buffer grows by whole steps to what is asked for at least.          *)
LEMMA RoundedUp == ASSUME NEW n \in Nat PROVE Auth!RoundUp(n) \in Nat /\ n <= Auth!RoundUp(n)
<1> DEFINE k == n + Upto - 1
           q == k \div Upto
<1>1. Upto \in Nat /\ Upto > 0
  BY AccountAssumption
<1>2. k \in Nat
  BY <1>1
<1>3. q \in Nat /\ k % Upto \in 0..(Upto - 1) /\ k = q * Upto + (k % Upto)
  <2> HIDE DEF k
  <2>1. q \in Int /\ k % Upto \in 0..(Upto - 1) /\ k = q * Upto + (k % Upto)
    BY <1>1, <1>2
  <2>2. q \in Nat
    BY <1>1, <1>2
  <2>3. QED
    BY <2>1, <2>2
<1>4. q * Upto \in Nat
  BY <1>1, <1>3
<1>5. q * Upto = k - (k % Upto)
  <2> HIDE DEF k, q
  <2>1. k \in Int /\ q * Upto \in Int /\ k % Upto \in Int
    BY <1>1, <1>2, <1>3, <1>4
  <2>2. QED
    BY <1>3, <2>1
<1>6. n <= q * Upto
  <2> DEFINE z == q * Upto
             m == k % Upto
  <2>1. z \in Nat /\ m \in 0..(Upto - 1) /\ z = n + Upto - 1 - m
    <3>1. z = k - m
      BY <1>5
    <3>2. z \in Nat
      BY <1>4
    <3>3. m \in 0..(Upto - 1)
      BY <1>3
    <3> HIDE DEF z, m
    <3>4. QED
      BY <1>1, <3>1, <3>2, <3>3
  <2> HIDE DEF z, m
  <2>2. n <= z
    BY <1>1, <2>1
  <2>3. QED
    BY <2>2 DEF z
<1>7. Auth!RoundUp(n) = q * Upto
  BY DEF Auth!RoundUp
<1>8. QED
  BY <1>4, <1>6, <1>7

LEMMA Fits ==
    ASSUME NEW s \in Nat, NEW l \in Nat, l <= s, NEW n \in Nat
    PROVE  Auth!Upsized(s, l, n) \in Nat /\ l + n <= Auth!Upsized(s, l, n)
<1>1. CASE s = 0
  BY <1>1 DEF Auth!Upsized
<1>2. CASE s # 0 /\ s - l < n
  <2>1. n - (s - l) \in Nat
    BY <1>2
  <2>2. PICK z \in Nat : z = Auth!RoundUp(n - (s - l)) /\ n - (s - l) <= z
    BY <2>1, RoundedUp
  <2>3. Auth!Upsized(s, l, n) = s + z
    BY <1>2, <2>2 DEF Auth!Upsized
  <2>4. QED
    BY <2>2, <2>3
<1>3. CASE s # 0 /\ ~(s - l < n)
  BY <1>3 DEF Auth!Upsized
<1>4. QED
  BY <1>1, <1>2, <1>3

LEMMA Halves == Auth!Half["get"] = "getting" /\ Auth!Half["refresh"] = "refreshing"
BY DEF Auth!Half

LEMMA AccountStarts == Auth!Init => AccountIInv
<1> SUFFICES ASSUME Auth!Init PROVE AccountIInv
  OBVIOUS
<1>1. /\ token = NULL /\ tokenRefresh = NULL /\ expiresTime = 0 /\ replies = <<>> /\ len = 0
      /\ size = 0 /\ ended = FALSE /\ post = <<>> /\ running = "none" /\ stored = NULL
      /\ today = 0 /\ granted = <<>>
  BY DEF Auth!Init
<1>2. BufferIInv /\ RunIInv /\ FirstTaken /\ PostIInv
  BY <1>1 DEF BufferIInv, RunIInv, FirstTaken, PostIInv
<1>3. today \in Nat /\ granted \in Grants
  BY <1>1 DEF Grants
<1>4. Sound(token, tokenRefresh, expires, expiresTime, granted)
  BY <1>1 DEF Sound
<1>5. QED
  BY <1>1, <1>2, <1>3, <1>4 DEF AccountIInv

(* What the steps leave alone.                                             *)
LEMMA AccountRests == ASSUME AccountIInv, UNCHANGED authorize PROVE AccountIInv'
BY DEF authorize, AccountIInv, BufferIInv, RunIInv, FirstTaken, PostIInv

LEMMA AccountTicks == ASSUME AccountIInv, Auth!Tick PROVE AccountIInv'
<1>1. today' \in Nat /\ today <= today' /\ today \in Nat
  BY DEF Auth!Tick, AccountIInv
<1>2. UNCHANGED <<Auth!account, Auth!http, stored, granted>>
  BY DEF Auth!Tick
<1>3. UNCHANGED <<token, tokenRefresh, expires, expiresTime, replies, len, size, ended, post,
                  running, reply, unended, stored, granted>>
  BY <1>2 DEF Auth!account, Auth!http, Auth!buffer
<1>4. /\ BufferIInv' /\ RunIInv' /\ FirstTaken' /\ PostIInv' /\ granted' \in Grants
      /\ Sound(token, tokenRefresh, expires, expiresTime, granted)'
      /\ (stored # NULL => Sound(stored.token, stored.tokenRefresh, stored.expires,
                                 stored.expiresTime, granted))'
  BY <1>3 DEF AccountIInv, BufferIInv, RunIInv, FirstTaken, PostIInv
<1>5. \A i \in 1..Len(granted') : granted'[i].from <= granted'[i].to /\ granted'[i].to <= today'
  <2> SUFFICES ASSUME NEW i \in 1..Len(granted)
               PROVE  granted[i].from <= granted[i].to /\ granted[i].to <= today'
    BY <1>3
  <2>1. granted[i] \in [from : Nat, to : Nat, life : Nat]
    BY ElementOfSeq DEF AccountIInv, Grants
  <2>2. granted[i].from <= granted[i].to /\ granted[i].to <= today
    BY DEF AccountIInv
  <2>3. QED
    BY <1>1, <2>1, <2>2
<1>6. QED
  BY <1>1, <1>4, <1>5 DEF AccountIInv

LEMMA BrowserKeeps ==
    ASSUME AccountIInv, NEW r \in Auth!Requests, Auth!AuthorizationBrowser(r)
    PROVE  AccountIInv'
BY DEF Auth!AuthorizationBrowser, Auth!buffer, AccountIInv, BufferIInv, RunIInv, FirstTaken,
       PostIInv

LEMMA BeginKeeps ==
    ASSUME AccountIInv, NEW c \in {"get", "refresh"}, Auth!Begin(c)
    PROVE  AccountIInv'
<1>1. UNCHANGED <<token, tokenRefresh, expires, expiresTime, replies, len, size, ended, unended,
                  stored, today>>
  BY DEF Auth!Begin, Auth!account, Auth!buffer
<1>2. running = "none" /\ running' = c /\ post' = Append(post, c)
  BY DEF Auth!Begin
<1>3. /\ today \in Nat /\ granted \in Grants /\ Len(granted) \in Nat
      /\ replies \in Seq(Answers) /\ post \in Seq({"get", "refresh"})
  <2>1. today \in Nat /\ granted \in Grants /\ replies \in Seq(Answers) /\ post \in Seq({"get", "refresh"})
    BY DEF AccountIInv, RunIInv, PostIInv
  <2>2. QED
    BY <2>1, LenProperties DEF Grants
<1>4. /\ granted' \in Grants /\ Grown(granted, granted')
      /\ Genuine(reply', granted') /\ (reply'.kind = "tokens" => reply'.token = Len(granted'))
      /\ reply' \in Answers
      /\ \A i \in 1..Len(granted') :
             granted'[i].from <= granted'[i].to /\ granted'[i].to <= today
  <2>1. CASE reply' \in {[kind |-> "error"], [kind |-> "page"]} /\ granted' = granted
    <3>1. reply'.kind # "tokens" /\ reply' \in Answers
      BY <2>1 DEF Answers
    <3>2. Grown(granted, granted)
      <4> SUFFICES ASSUME NEW i \in 1..Len(granted) PROVE granted[i].to <= granted[i].to
        BY <1>3 DEF Grown
      <4>1. granted[i] \in [from : Nat, to : Nat, life : Nat]
        BY <1>3, ElementOfSeq DEF Grants
      <4>2. QED
        BY <4>1
    <3>3. QED
      BY <1>3, <2>1, <3>1, <3>2 DEF AccountIInv, Genuine
  <2>2. CASE \E life \in Lives, again \in BOOLEAN, s \in {"mail", "empty"} :
              /\ granted' = Append(granted, [from |-> today, to |-> today, life |-> life])
              /\ reply' = [kind |-> "tokens", token |-> Len(granted) + 1, life |-> life,
                           refresh |-> IF again THEN Len(granted) + 1 ELSE NULL, scope |-> s]
    <3>1. PICK life \in Lives, again \in BOOLEAN, s \in {"mail", "empty"} :
              /\ granted' = Append(granted, [from |-> today, to |-> today, life |-> life])
              /\ reply' = [kind |-> "tokens", token |-> Len(granted) + 1, life |-> life,
                           refresh |-> IF again THEN Len(granted) + 1 ELSE NULL, scope |-> s]
      BY <2>2
    <3> DEFINE new == [from |-> today, to |-> today, life |-> life]
    <3>2. new \in [from : Nat, to : Nat, life : Nat] /\ new.to = today /\ new.from = today
          /\ new.life = life
      BY <1>3, AccountAssumption
    <3>3. granted' = Append(granted, new)
      BY <3>1
    <3> HIDE DEF new
    <3>4. /\ granted' \in Grants /\ Len(granted') = Len(granted) + 1
          /\ granted'[Len(granted) + 1] = new
          /\ \A i \in 1..Len(granted) : granted'[i] = granted[i]
      BY <1>3, <3>2, <3>3, AppendProperties DEF Grants
    <3>5. /\ reply'.kind = "tokens" /\ reply'.token = Len(granted) + 1 /\ reply'.life = life
          /\ reply'.refresh \in {NULL, Len(granted) + 1} /\ reply'.scope = s
      BY <3>1
    <3>6. reply' \in Answers
      BY <1>3, <3>1 DEF Answers
    <3>7. Genuine(reply', granted')
      BY <1>3, <3>2, <3>4, <3>5 DEF Genuine
    <3>8. \A i \in 1..Len(granted) : granted[i].to \in Nat
      <4> SUFFICES ASSUME NEW i \in 1..Len(granted) PROVE granted[i].to \in Nat
        OBVIOUS
      <4>1. granted[i] \in [from : Nat, to : Nat, life : Nat]
        BY <1>3, ElementOfSeq DEF Grants
      <4>2. QED
        BY <4>1
    <3>9. Grown(granted, granted')
      BY <1>3, <3>4, <3>8 DEF Grown
    <3>10. \A i \in 1..Len(granted') :
             granted'[i].from <= granted'[i].to /\ granted'[i].to <= today
      <4> SUFFICES ASSUME NEW i \in 1..(Len(granted) + 1)
                   PROVE  granted'[i].from <= granted'[i].to /\ granted'[i].to <= today
        BY <3>4
      <4>1. CASE i = Len(granted) + 1
        BY <1>3, <3>2, <3>4, <4>1
      <4>2. CASE i \in 1..Len(granted)
        BY <3>4, <4>2 DEF AccountIInv
      <4>3. QED
        BY <1>3, <4>1, <4>2
    <3>11. QED
      BY <3>4, <3>5, <3>6, <3>7, <3>9, <3>10
  <2>3. QED
    BY <2>1, <2>2 DEF Auth!Begin
<1>5. RunIInv'
  <2>1. running' \notin {"getting", "refreshing"}
    BY <1>2
  <2>2. \A i \in 1..Len(replies') : Genuine(replies'[i], granted')
    BY <1>1, <1>3, <1>4, GenuineStays DEF AccountIInv, RunIInv
  <2>3. QED
    BY <1>1, <1>2, <1>3, <1>4, <2>1, <2>2 DEF RunIInv
<1>6. FirstTaken'
  BY <1>1, <1>2 DEF FirstTaken, AccountIInv
<1>7. PostIInv'
  <2>1. post' \in Seq({"get", "refresh"}) /\ Len(post') = Len(post) + 1 /\ post'[Len(post) + 1] = c
        /\ \A i \in 1..Len(post) : post'[i] = post[i]
    <3>1. c \in {"get", "refresh"}
      OBVIOUS
    <3>2. QED
      BY ONLY <3>1, <1>2, <1>3, AppendProperties
  <2>2. \A i \in 1..Len(post) : post[i] = "get"
    BY <1>2 DEF AccountIInv, PostIInv
  <2>3. Len(post) \in Nat
    BY <1>3
  <2>4. QED
    <3> SUFFICES ASSUME NEW i \in 1..(Len(post) + 1)
                 PROVE  post'[i] = "get" \/ (i = Len(post) + 1 /\ c = "refresh")
      BY <1>2, <2>1 DEF PostIInv
    <3>1. CASE i = Len(post) + 1
      BY <2>1, <3>1
    <3>2. CASE i \in 1..Len(post)
      BY <2>1, <2>2, <3>2
    <3>3. QED
      BY <2>3, <3>1, <3>2
<1>8. Sound(token, tokenRefresh, expires, expiresTime, granted)'
  BY <1>1, <1>3, <1>4, SoundStays DEF AccountIInv
<1>9. (stored # NULL => Sound(stored.token, stored.tokenRefresh, stored.expires,
                              stored.expiresTime, granted))'
  BY <1>1, <1>3, <1>4, SoundStays DEF AccountIInv
<1>10. BufferIInv'
  BY <1>1 DEF BufferIInv, AccountIInv
<1>11. QED
  BY <1>1, <1>3, <1>4, <1>5, <1>6, <1>7, <1>8, <1>9, <1>10 DEF AccountIInv

LEMMA RecvKeeps == ASSUME AccountIInv, Auth!Recv PROVE AccountIInv'
<1>1. UNCHANGED <<token, tokenRefresh, expires, expiresTime, post, reply, unended, stored, today,
                  granted>>
  BY DEF Auth!Recv, Auth!account, Auth!world
<1>2. /\ running \in {"get", "refresh"} /\ running' = Auth!Half[running]
      /\ replies' = Append(replies, reply) /\ ended' = FALSE
      /\ size' = Auth!Upsized(size, len, ReplyChunk) /\ len' = len + ReplyChunk
  BY DEF Auth!Recv
<1>3. /\ running' \in {"getting", "refreshing"}
      /\ running = "refresh" => running' = "refreshing"
  BY <1>2, Halves
<1>4. reply \in Answers /\ Genuine(reply, granted)
      /\ (reply.kind = "tokens" => reply.token = Len(granted))
      /\ replies \in Seq(Answers) /\ \A i \in 1..Len(replies) : Genuine(replies[i], granted)
  BY <1>2 DEF AccountIInv, RunIInv
<1>5. /\ replies' \in Seq(Answers) /\ Len(replies') = Len(replies) + 1
      /\ replies'[Len(replies) + 1] = reply /\ \A i \in 1..Len(replies) : replies'[i] = replies[i]
  BY <1>2, <1>4, AppendProperties
<1>6. Len(replies) \in Nat
  BY <1>4, LenProperties
<1>7. RunIInv'
  <2>1. \A i \in 1..Len(replies') : Genuine(replies'[i], granted)
    <3> SUFFICES ASSUME NEW i \in 1..(Len(replies) + 1) PROVE Genuine(replies'[i], granted)
      BY <1>5
    <3>1. CASE i = Len(replies) + 1
      BY <1>4, <1>5, <3>1
    <3>2. CASE i \in 1..Len(replies)
      BY <1>4, <1>5, <3>2
    <3>3. QED
      BY <1>6, <3>1, <3>2
  <2>2. Len(replies') > 0
    BY <1>5, <1>6
  <2>3. QED
    BY <1>1, <1>2, <1>3, <1>4, <1>5, <2>1, <2>2 DEF RunIInv
<1>8. FirstTaken'
  <2>1. CASE Len(replies) = 0
    <3>1. Len(replies') = 1
      BY <1>5, <2>1
    <3>2. QED
      BY <1>3, <3>1 DEF FirstTaken
  <2>2. CASE Len(replies) > 0
    <3>1. replies'[1] = replies[1]
      BY <1>5, <1>6, <2>2
    <3>2. FirstTaken
      BY DEF AccountIInv
    <3>3. QED
      BY <1>1, <1>2, <2>2, <3>1, <3>2 DEF FirstTaken
  <2>3. QED
    BY <1>6, <2>1, <2>2
<1>9. PostIInv'
  BY <1>1, <1>2, <1>3 DEF AccountIInv, PostIInv
<1>10. BufferIInv'
  <2>1. len \in Nat /\ size \in Nat /\ len <= size /\ ReplyChunk \in Nat
    BY AccountAssumption DEF AccountIInv, BufferIInv
  <2>2. len' \in Nat /\ size' \in Nat /\ len' <= size'
    BY ONLY <2>1, <1>2, Fits
  <2>3. QED
    BY <1>2, <2>2 DEF BufferIInv
<1>11. QED
  BY <1>1, <1>7, <1>8, <1>9, <1>10 DEF AccountIInv

LEMMA Ran == Auth!Whole("get") \/ Auth!Whole("refresh") => running \in {"getting", "refreshing"}
BY Halves DEF Auth!Whole

(* A call that returns leaves what came of its reply.                      *)
LEMMA PerformFailsKeeps == ASSUME AccountIInv, Auth!PerformFails PROVE AccountIInv'
<1>1. UNCHANGED <<token, tokenRefresh, expires, expiresTime, replies, len, size, ended, stored,
                  today, granted>>
  BY DEF Auth!PerformFails, Auth!account, Auth!world, Auth!buffer
<1>2. running # "none" /\ running' = "none" /\ post' = <<>>
      /\ unended' = (unended \/ \E c \in {"get", "refresh"} : Auth!Whole(c))
  BY DEF Auth!PerformFails, Auth!Returns
<1>3. BufferIInv' /\ RunIInv' /\ PostIInv'
  <2>1. BufferIInv'
    BY <1>1 DEF AccountIInv, BufferIInv
  <2>2. RunIInv'
    BY <1>1, <1>2 DEF AccountIInv, RunIInv
  <2>3. PostIInv'
    BY <1>2 DEF PostIInv
  <2>4. QED
    BY <2>1, <2>2, <2>3
<1>4. FirstTaken'
  <2>1. CASE running \in {"getting", "refreshing"}
    <3>1. unended'
      BY <1>2, <2>1, Halves DEF Auth!Whole
    <3>2. QED
      BY <3>1 DEF FirstTaken
  <2>2. CASE running \notin {"getting", "refreshing"}
    BY <1>1, <1>2, <2>2 DEF FirstTaken, AccountIInv
  <2>3. QED
    BY <2>1, <2>2
<1>5. QED
  BY <1>1, <1>3, <1>4 DEF AccountIInv

LEMMA RefusedKeeps == ASSUME AccountIInv, Auth!Refused PROVE AccountIInv'
<1>1. UNCHANGED <<token, tokenRefresh, expires, expiresTime, replies, ended, unended, stored,
                  today, granted>>
  BY DEF Auth!Refused, Auth!account, Auth!world
<1>2. running' = "none" /\ post' = <<>> /\ reply.kind = "error"
      /\ size' = Auth!Upsized(size, len, ReplyChunk) /\ len' = len + ReplyChunk
  BY DEF Auth!Refused, Auth!Returns
<1>3. running \in {"getting", "refreshing"}
  BY Ran DEF Auth!Refused
<1>4. RunIInv' /\ PostIInv'
  <2>1. RunIInv'
    BY <1>1, <1>2 DEF AccountIInv, RunIInv
  <2>2. PostIInv'
    BY <1>2 DEF PostIInv
  <2>3. QED
    BY <2>1, <2>2
<1>5. FirstTaken'
  <2>1. Len(replies) > 0 /\ replies[Len(replies)] = reply
    BY <1>3 DEF AccountIInv, RunIInv
  <2>2. QED
    BY <1>1, <1>2, <2>1 DEF FirstTaken, AccountIInv
<1>6. BufferIInv'
  <2>1. len \in Nat /\ size \in Nat /\ len <= size /\ ReplyChunk \in Nat \ {0}
        /\ ~ended
    BY <1>3, AccountAssumption DEF AccountIInv, BufferIInv, RunIInv
  <2>2. len' \in Nat /\ size' \in Nat /\ len' <= size'
    BY ONLY <2>1, <1>2, Fits
  <2>3. QED
    BY <1>1, <2>1, <2>2 DEF BufferIInv
<1>7. QED
  BY <1>1, <1>4, <1>5, <1>6 DEF AccountIInv

(* The tokens of an answer are taken, and the time with them if all of it  *)
(* was read.  The time the request took is known from then on.             *)
LEMMA AnsweredKeeps == ASSUME AccountIInv, Auth!Answered PROVE AccountIInv'
<1> DEFINE top == replies[1]
           fits == top.kind = "tokens" /\ Len(replies) = 1 /\ tokenRefresh' # NULL
<1>1. UNCHANGED <<replies, unended, stored, today>>
  BY DEF Auth!Answered
<1>2. running \in {"getting", "refreshing"} /\ ~unended
  BY Ran DEF Auth!Answered
<1>3. /\ reply \in Answers /\ Genuine(reply, granted)
      /\ (reply.kind = "tokens" => reply.token = Len(granted))
      /\ replies \in Seq(Answers) /\ (\A i \in 1..Len(replies) : Genuine(replies[i], granted))
      /\ Len(replies) > 0 /\ replies[Len(replies)] = reply
  BY <1>2 DEF AccountIInv, RunIInv
<1>4. running' = "none" /\ reply' = NULL
  BY DEF Auth!Answered, Auth!Returns
<1>5. Auth!First = top
  BY <1>3, HeadTailProperties DEF Auth!First
<1>6. IF top.kind = "tokens"
      THEN /\ token' = top.token /\ expires' = top.life
           /\ tokenRefresh' = IF top.refresh = NULL THEN tokenRefresh ELSE top.refresh
      ELSE UNCHANGED <<token, tokenRefresh, expires>>
  BY <1>5 DEF Auth!Answered, Auth!Takes
<1>7. expiresTime' = IF fits THEN today + expires' ELSE expiresTime
  BY <1>5 DEF Auth!Answered
<1>8. (post' = post /\ running = "getting") \/ post' = <<>>
  <2>1. (post' = post /\ Auth!Whole("get")) \/ post' = <<>>
    BY DEF Auth!Answered
  <2>2. QED
    BY <2>1, Halves DEF Auth!Whole
<1>9. granted' = IF reply.kind = "tokens" THEN [granted EXCEPT ![reply.token].to = today]
                 ELSE granted
  BY DEF Auth!Answered
<1>10. today \in Nat /\ granted \in Grants /\ Len(granted) \in Nat
  <2>1. today \in Nat /\ granted \in Grants
    BY DEF AccountIInv
  <2>2. QED
    BY <2>1, LenProperties DEF Grants
<1>11. ASSUME NEW i \in 1..Len(granted)
       PROVE  /\ granted[i] \in [from : Nat, to : Nat, life : Nat]
              /\ granted[i].from <= granted[i].to /\ granted[i].to <= today
  BY <1>10, ElementOfSeq DEF Grants, AccountIInv
<1>12. /\ granted' \in Grants /\ Len(granted') = Len(granted) /\ Grown(granted, granted')
       /\ (reply.kind = "tokens" => granted'[Len(granted)].to = today)
       /\ \A i \in 1..Len(granted) :
              granted'[i].from <= granted'[i].to /\ granted'[i].to <= today
  <2>1. CASE reply.kind = "tokens"
    <3> DEFINE n == Len(granted)
               g == [granted[n] EXCEPT !.to = today]
    <3>1. n \in 1..Len(granted) /\ reply.token = n
      BY <1>3, <2>1 DEF Genuine
    <3>2. granted' = [granted EXCEPT ![n] = g]
      BY <1>9, <2>1, <3>1
    <3>3. granted[n] \in [from : Nat, to : Nat, life : Nat]
          /\ granted[n].from <= granted[n].to /\ granted[n].to <= today
      BY <1>11, <3>1
    <3>4. /\ g \in [from : Nat, to : Nat, life : Nat] /\ g.to = today
          /\ g.from = granted[n].from /\ g.life = granted[n].life
      BY <1>10, <3>3
    <3>5. n \in Nat
      BY <1>10
    <3> HIDE DEF g, n
    <3>6. /\ granted' \in Grants /\ Len(granted') = Len(granted) /\ granted'[n] = g
          /\ \A i \in 1..Len(granted) : i # n => granted'[i] = granted[i]
      BY <1>10, <3>1, <3>2, <3>4, ExceptSeq DEF Grants
    <3>7. ASSUME NEW i \in 1..Len(granted)
          PROVE  /\ granted'[i].from = granted[i].from /\ granted'[i].life = granted[i].life
                 /\ granted[i].to <= granted'[i].to
                 /\ granted'[i].from <= granted'[i].to /\ granted'[i].to <= today
      <4>1. CASE i = n
        <5>1. granted[n].from \in Nat /\ granted[n].to \in Nat
          BY <3>3
        <5>2. QED
          BY <1>10, <3>3, <3>4, <3>6, <4>1, <5>1
      <4>2. CASE i # n
        <5>1. granted'[i] = granted[i]
          BY <3>6, <4>2
        <5>2. granted[i].to \in Nat /\ granted[i].from <= granted[i].to /\ granted[i].to <= today
          BY <1>11
        <5>3. QED
          BY <5>1, <5>2
      <4>3. QED
        BY <4>1, <4>2
    <3>8. Grown(granted, granted')
      BY <1>10, <3>6, <3>7 DEF Grown
    <3>9. granted'[Len(granted)].to = today
      BY <3>4, <3>6 DEF n
    <3>10. QED
      BY <3>6, <3>7, <3>8, <3>9
  <2>2. CASE reply.kind # "tokens"
    <3>1. granted' = granted
      BY <1>9, <2>2
    <3>2. \A i \in 1..Len(granted) : granted[i].to <= granted[i].to
      <4> SUFFICES ASSUME NEW i \in 1..Len(granted) PROVE granted[i].to <= granted[i].to
        OBVIOUS
      <4>1. granted[i].to \in Nat
        BY <1>11
      <4>2. QED
        BY <4>1
    <3>3. Grown(granted, granted')
      BY <1>10, <3>1, <3>2 DEF Grown
    <3>4. QED
      BY <1>10, <1>11, <2>2, <3>1, <3>3
  <2>3. QED
    BY <2>1, <2>2
<1> HIDE DEF top, fits
<1>13. RunIInv'
  <2>1. \A i \in 1..Len(replies) : Genuine(replies[i], granted')
    BY <1>3, <1>10, <1>12, GenuineStays
  <2>2. QED
    BY <1>1, <1>3, <1>4, <2>1 DEF RunIInv
<1>14. FirstTaken'
  BY <1>1, <1>6 DEF FirstTaken, top
<1>15. PostIInv'
  <2>1. CASE post' = post /\ running = "getting"
    BY <1>4, <2>1 DEF AccountIInv, PostIInv
  <2>2. CASE post' = <<>>
    BY <2>2 DEF PostIInv
  <2>3. QED
    BY <1>8, <2>1, <2>2
<1>16. BufferIInv'
  <2>1. len \in Nat /\ size \in Nat /\ len <= size /\ ReplyChunk \in Nat
    BY AccountAssumption DEF AccountIInv, BufferIInv
  <2>2. len' = len + ReplyChunk
        /\ size' = Auth!Upsized(Auth!Upsized(size, len, ReplyChunk), len', 1)
    BY DEF Auth!Answered
  <2> DEFINE s == Auth!Upsized(size, len, ReplyChunk)
  <2>3. s \in Nat /\ len + ReplyChunk <= s
    BY ONLY <2>1, Fits
  <2>4. len' \in Nat /\ len' <= s
    BY <2>1, <2>2, <2>3
  <2>5. size' = Auth!Upsized(s, len', 1)
    BY <2>2
  <2> HIDE DEF s
  <2>6. size' \in Nat /\ len' + 1 <= size'
    BY ONLY <2>3, <2>4, <2>5, Fits
  <2> DEFINE l == len'
             z == size'
  <2>7. l \in Nat /\ z \in Nat /\ l <= z /\ l < z
    <3>1. l \in Nat /\ z \in Nat /\ l + 1 <= z
      BY <2>4, <2>6
    <3> HIDE DEF l, z
    <3>2. QED
      BY <3>1
  <2>8. QED
    BY ONLY <2>7 DEF BufferIInv
<1>17. (stored # NULL => Sound(stored.token, stored.tokenRefresh, stored.expires,
                               stored.expiresTime, granted))'
  BY <1>1, <1>10, <1>12, SoundStays DEF AccountIInv
<1>18. Sound(token, tokenRefresh, expires, expiresTime, granted')
  BY <1>10, <1>12, SoundStays DEF AccountIInv
<1>19. Sound(token, tokenRefresh, expires, expiresTime, granted)'
  <2>1. CASE top.kind # "tokens"
    BY <1>6, <1>7, <1>18, <2>1 DEF fits
  <2>2. CASE top.kind = "tokens"
    <3> DEFINE t == top.token
               g == granted'
               n == Len(granted)
    <3>1. top \in Answers /\ Genuine(top, granted')
      <4>1. 1 \in 1..Len(replies)
        BY <1>3, LenProperties
      <4>2. QED
        BY <1>3, <1>10, <1>12, <4>1, GenuineStays, ElementOfSeq DEF top
    <3>2. t \in 1..n /\ top.life = g[t].life /\ top.refresh \in {NULL, t}
      BY <1>12, <2>2, <3>1 DEF Genuine
    <3>3. token' = t /\ expires' = g[t].life
          /\ tokenRefresh' \in {tokenRefresh, t}
      BY <1>6, <2>2, <3>2
    <3>4. /\ token \in 1..n \union {NULL} /\ tokenRefresh \in 1..n \union {NULL}
          /\ (token = NULL => tokenRefresh = NULL) /\ (tokenRefresh = NULL => expiresTime = 0)
          /\ (tokenRefresh # NULL => tokenRefresh <= token)
          /\ expiresTime \in Nat
          /\ (expiresTime # 0 => /\ expires = g[token].life
                                 /\ expiresTime \in (g[token].from + g[token].life)..
                                                    (g[token].to + g[token].life))
      BY <1>12, <1>18 DEF Sound
    <3>5. n \in Nat /\ Len(granted') = n
      BY <1>10, <1>12
    <3>6. g[t].from \in Nat /\ g[t].to \in Nat /\ g[t].life \in Nat
      <4>1. g[t] \in [from : Nat, to : Nat, life : Nat]
        BY <1>12, <3>2, ElementOfSeq DEF Grants
      <4>2. QED
        BY <4>1
    <3>7. NULL \notin Int
      BY SocketAssumption
    <3>8. CASE Len(replies) = 1
      <4>1. top = reply
        BY <1>3, <3>8 DEF top
      <4>2. t = n /\ g[t].to = today /\ g[t].from <= today
        BY <1>3, <1>12, <2>2, <3>2, <4>1
      <4>3. tokenRefresh' # NULL => tokenRefresh' <= t
        <5>1. CASE tokenRefresh' = t
          BY <3>2, <3>5, <5>1
        <5>2. CASE tokenRefresh' = tokenRefresh
          BY <3>4, <3>5, <3>7, <4>2, <5>2
        <5>3. QED
          BY <3>3, <5>1, <5>2
      <4>4. tokenRefresh' = NULL => expiresTime' = 0
        BY <1>6, <1>7, <2>2, <3>2, <3>4, <3>7 DEF fits
      <4>5. expiresTime' # 0 => expiresTime' = today + g[t].life
        <5>1. CASE tokenRefresh' = NULL
          BY <4>4, <5>1
        <5>2. CASE tokenRefresh' # NULL
          BY <1>7, <2>2, <3>3, <3>8, <5>2 DEF fits
        <5>3. QED
          BY <5>1, <5>2
      <4>6. expiresTime' \in Nat
        BY <1>7, <1>10, <3>3, <3>4, <3>6
      <4>7. t \in 1..n /\ tokenRefresh' \in 1..n \union {NULL}
        BY <3>2, <3>3, <3>4
      <4>8. expiresTime' # 0 =>
              expiresTime' \in (g[t].from + g[t].life)..(g[t].to + g[t].life)
        BY <1>10, <3>6, <4>2, <4>5, <4>6
      <4> HIDE DEF t, n
      <4>9. QED
        BY <3>3, <3>5, <3>7, <4>3, <4>4, <4>6, <4>7, <4>8 DEF Sound
    <3>9. CASE Len(replies) # 1
      <4>1. token = t
        BY <1>2, <1>3, <2>2, <3>9 DEF AccountIInv, FirstTaken, top
      <4>2. expiresTime' = expiresTime
        BY <1>7, <3>9 DEF fits
      <4>3. tokenRefresh' # NULL => tokenRefresh' <= t
        BY <3>2, <3>3, <3>4, <3>5, <4>1
      <4>4. tokenRefresh' = NULL => tokenRefresh = NULL
        BY <1>6, <2>2, <3>2, <3>7
      <4>5. t \in 1..n /\ tokenRefresh' \in 1..n \union {NULL}
        BY <3>2, <3>3, <3>4
      <4> HIDE DEF t, n
      <4>6. QED
        BY <3>3, <3>4, <3>5, <3>7, <4>1, <4>2, <4>3, <4>4, <4>5 DEF Sound
    <3>10. QED
      BY <3>8, <3>9
  <2>3. QED
    BY <2>1, <2>2
<1>20. granted' \in Grants /\ today' \in Nat
       /\ \A i \in 1..Len(granted') :
             granted'[i].from <= granted'[i].to /\ granted'[i].to <= today'
  BY <1>1, <1>10, <1>12
<1>21. QED
  BY <1>13, <1>14, <1>15, <1>16, <1>17, <1>19, <1>20 DEF AccountIInv

(* The file keeps what the account was, and gives it to another process.   *)
LEMMA StoreKeeps == ASSUME AccountIInv, Auth!Store PROVE AccountIInv'
<1>1. UNCHANGED <<token, tokenRefresh, expires, expiresTime, replies, len, size, ended, post,
                  running, reply, unended, today, granted>>
  BY DEF Auth!Store, Auth!account, Auth!http, Auth!buffer
<1>2. /\ stored'.token = token /\ stored'.tokenRefresh = tokenRefresh
      /\ stored'.expires = expires /\ stored'.expiresTime = expiresTime
  BY DEF Auth!Store
<1>3. BufferIInv' /\ RunIInv' /\ FirstTaken' /\ PostIInv'
  BY <1>1 DEF AccountIInv, BufferIInv, RunIInv, FirstTaken, PostIInv
<1>4. QED
  BY <1>1, <1>2, <1>3 DEF AccountIInv

LEMMA LoadKeeps == ASSUME AccountIInv, Auth!Load PROVE AccountIInv'
<1>1. UNCHANGED <<replies, len, size, ended, post, running, reply, unended, stored, today,
                  granted>>
  BY DEF Auth!Load, Auth!buffer, Auth!world
<1>2. /\ running = "none" /\ token = NULL /\ stored # NULL
      /\ token' = stored.token /\ tokenRefresh' = stored.tokenRefresh
      /\ \/ UNCHANGED <<expires, expiresTime>>
         \/ expires' = stored.expires /\ expiresTime' = stored.expiresTime
  BY DEF Auth!Load
<1>3. BufferIInv' /\ RunIInv' /\ PostIInv'
  BY <1>1 DEF AccountIInv, BufferIInv, RunIInv, PostIInv
<1>4. FirstTaken'
  <2>1. ~(~unended /\ Len(replies) > 0 /\ replies[1].kind = "tokens")
    <3> SUFFICES ASSUME ~unended, Len(replies) > 0, replies[1].kind = "tokens" PROVE FALSE
      OBVIOUS
    <3>1. token = replies[1].token
      BY <1>2 DEF AccountIInv, FirstTaken
    <3>2. Len(replies) \in Nat /\ Len(granted) \in Nat
      BY LenProperties DEF AccountIInv, RunIInv, Grants
    <3>3. Genuine(replies[1], granted)
      <4>1. 1 \in 1..Len(replies)
        BY <3>2
      <4>2. \A i \in 1..Len(replies) : Genuine(replies[i], granted)
        BY DEF AccountIInv, RunIInv
      <4>3. QED
        BY <4>1, <4>2
    <3>4. replies[1].token \in 1..Len(granted)
      BY <3>3 DEF Genuine
    <3>5. QED
      BY <1>2, <3>1, <3>2, <3>4, SocketAssumption
  <2>2. QED
    BY <1>1, <2>1 DEF FirstTaken
<1>5. Sound(token, tokenRefresh, expires, expiresTime, granted)'
  BY <1>1, <1>2 DEF AccountIInv, Sound
<1>6. QED
  BY <1>1, <1>3, <1>4, <1>5 DEF AccountIInv

LEMMA RestartKeeps == ASSUME AccountIInv, Auth!Restart PROVE AccountIInv'
<1>1. UNCHANGED <<stored, today, granted>>
  BY DEF Auth!Restart, Auth!world
<1>2. /\ token' = NULL /\ tokenRefresh' = NULL /\ expiresTime' = 0 /\ replies' = <<>> /\ len' = 0
      /\ size' = 0 /\ ended' = FALSE /\ post' = <<>> /\ running' = "none"
  BY DEF Auth!Restart
<1>3. BufferIInv' /\ RunIInv' /\ FirstTaken' /\ PostIInv'
  BY <1>2 DEF BufferIInv, RunIInv, FirstTaken, PostIInv
<1>4. Sound(token, tokenRefresh, expires, expiresTime, granted)'
  BY <1>2 DEF Sound
<1>5. QED
  BY <1>1, <1>3, <1>4 DEF AccountIInv

LEMMA AccountKeeps == ASSUME AccountIInv, Auth!Next PROVE AccountIInv'
<1>1. CASE \E r \in Auth!Requests : Auth!AuthorizationBrowser(r)
  BY <1>1, BrowserKeeps
<1>2. CASE \E c \in {"get", "refresh"} : Auth!Begin(c)
  BY <1>2, BeginKeeps
<1>3. CASE Auth!Recv
  BY <1>3, RecvKeeps
<1>4. CASE Auth!PerformFails
  BY <1>4, PerformFailsKeeps
<1>5. CASE Auth!Refused
  BY <1>5, RefusedKeeps
<1>6. CASE Auth!Answered
  BY <1>6, AnsweredKeeps
<1>7. CASE Auth!Store
  BY <1>7, StoreKeeps
<1>8. CASE Auth!Load
  BY <1>8, LoadKeeps
<1>9. CASE Auth!Restart
  BY <1>9, RestartKeeps
<1>10. CASE Auth!Tick
  BY <1>10, AccountTicks
<1>11. QED
  BY <1>1, <1>2, <1>3, <1>4, <1>5, <1>6, <1>7, <1>8, <1>9, <1>10 DEF Auth!Next

-----------------------------------------------------------------------------
(* Sockets.                                                                *)
SocketTypes ==
    /\ sockets \in [Socks -> {"freed", "open", "listening", "connected"}]
    /\ stls \in [Socks -> Tls \union {NULL}] /\ session \in [Tls -> {"new", "freed", "twice"}]
    /\ backlog \in [Socks -> Seq(Socks)] /\ peer \in [Socks -> Socks \union {NULL}]
    /\ inbox \in [Socks -> Nat] /\ sent \in [Socks -> Nat] /\ taken \in [Socks -> Nat]
    /\ unread \in [Socks -> Nat] /\ hup \in [Socks -> BOOLEAN] /\ edge \in SUBSET Socks

(* Descriptors are of sockets in use; a session is that of one socket.     *)
Owned ==
    /\ desc = {s \in Socks : sockets[s] # "freed"}
    /\ \A t \in Tls : session[t] # "twice"
    /\ \A s \in Socks : stls[s] # NULL => session[stls[s]] = "new"
    /\ \A s, o \in Socks : stls[s] # NULL /\ stls[s] = stls[o] => s = o

(* Two ends that know each other are connected.                            *)
Linked == \A s \in Socks : peer[s] # NULL => sockets[s] = "connected" /\ peer[peer[s]] = s

(* A connection that was not accepted waits once, and has no other end.    *)
Waiting == \A o \in Socks : \A i \in 1..Len(backlog[o]) :
               sockets[backlog[o][i]] = "connected" /\ peer[backlog[o][i]] = NULL
WaitsOnce == \A o, q \in Socks : \A i \in 1..Len(backlog[o]), j \in 1..Len(backlog[q]) :
                 backlog[o][i] = backlog[q][j] => o = q /\ i = j

(* Messages of a socket: none before it is connected.                      *)
Counted(s) ==
    /\ sockets[s] # "freed" => sent[s] = taken[s] + inbox[s]
    /\ sockets[s] = "freed" => sent[s] = taken[s] + unread[s] /\ inbox[s] = 0
    /\ sockets[s] \in {"open", "listening"} => sent[s] = 0 /\ unread[s] = 0 /\ ~hup[s]
    /\ sockets[s] = "connected" /\ (inbox[s] > 0 \/ hup[s]) => s \in edge

Links == Linked /\ Waiting /\ WaitsOnce
SocketIInv == SocketTypes /\ Owned /\ Links /\ \A s \in Socks : Counted(s)

LEMMA SocketsRight == SocketIInv => Net!SocketsHold
<1> SUFFICES ASSUME SocketIInv PROVE Net!SocketsHold
  OBVIOUS
<1>1. Net!SocketsOwned
  BY DEF SocketIInv, Owned, Links, Linked, Net!SocketsOwned
<1>2. Net!MessagesKept
  BY DEF SocketIInv, Counted, Net!MessagesKept
<1>3. QED
  BY <1>1, <1>2 DEF Net!SocketsHold

LEMMA SocketsStart == Net!Init => SocketIInv
<1> SUFFICES ASSUME Net!Init PROVE SocketIInv
  OBVIOUS
<1>1. /\ sockets = [s \in Socks |-> "freed"] /\ stls = [s \in Socks |-> NULL]
      /\ session = [t \in Tls |-> "new"] /\ desc = {}
      /\ backlog = [s \in Socks |-> <<>>] /\ peer = [s \in Socks |-> NULL]
      /\ inbox = [s \in Socks |-> 0] /\ hup = [s \in Socks |-> FALSE] /\ edge = {}
      /\ sent = [s \in Socks |-> 0] /\ taken = [s \in Socks |-> 0]
      /\ unread = [s \in Socks |-> 0]
  BY DEF Net!Init
<1>2. SocketTypes
  BY <1>1 DEF SocketTypes
<1>3. Owned
  BY <1>1 DEF Owned
<1>4. Links
  BY <1>1 DEF Links, Linked, Waiting, WaitsOnce
<1>5. \A s \in Socks : Counted(s)
  BY <1>1 DEF Counted
<1>6. QED
  BY <1>2, <1>3, <1>4, <1>5 DEF SocketIInv

(* What waits behind a connection moves up when it is taken out.           *)
LEMMA TakenOut ==
    ASSUME NEW b \in Seq(Socks), NEW s \in Socks,
           \A i, j \in 1..Len(b) : b[i] = b[j] => i = j
    PROVE  /\ Net!Without(b, s) \in Seq(Socks)
           /\ \E k \in Nat : \A i \in 1..Len(Net!Without(b, s)) :
                  /\ (IF i < k THEN i ELSE i + 1) \in 1..Len(b)
                  /\ Net!Without(b, s)[i] = b[IF i < k THEN i ELSE i + 1]
           /\ \A i \in 1..Len(Net!Without(b, s)) : Net!Without(b, s)[i] # s
<1>0. Len(b) \in Nat /\ DOMAIN b = 1..Len(b)
  BY LenProperties
<1>1. CASE \A i \in 1..Len(b) : b[i] # s
  <2>1. Net!Without(b, s) = b
    BY <1>0, <1>1 DEF Net!Without, Net!ToSet
  <2>2. Len(b) + 1 \in Nat /\ \A i \in 1..Len(b) : i < Len(b) + 1
    BY <1>0
  <2>3. QED
    BY <1>1, <2>1, <2>2
<1>2. CASE \E i \in 1..Len(b) : b[i] = s
  <2> DEFINE k == CHOOSE i \in DOMAIN b : b[i] = s
  <2>1. k \in 1..Len(b) /\ b[k] = s
    BY <1>0, <1>2
  <2>2. Net!Without(b, s) = RemoveAt(b, k)
    BY <1>0, <1>2 DEF Net!Without, Net!ToSet, Net!RemoveAt, RemoveAt
  <2> HIDE DEF k
  <2>3. /\ RemoveAt(b, k) \in Seq(Socks) /\ Len(RemoveAt(b, k)) = Len(b) - 1
        /\ \A j \in 1..(Len(b) - 1) : RemoveAt(b, k)[j] = IF j < k THEN b[j] ELSE b[j + 1]
    BY <2>1, RemoveAtProperties
  <2>4. ASSUME NEW i \in 1..(Len(b) - 1)
        PROVE  /\ (IF i < k THEN i ELSE i + 1) \in 1..Len(b)
               /\ RemoveAt(b, k)[i] = b[IF i < k THEN i ELSE i + 1]
               /\ RemoveAt(b, k)[i] # s
    <3>1. CASE i < k
      BY <1>0, <2>1, <2>3, <3>1
    <3>2. CASE ~(i < k)
      <4>1. i + 1 \in 1..Len(b) /\ i + 1 # k
        BY <1>0, <2>1, <3>2
      <4>2. b[i + 1] # s
        BY <2>1, <4>1
      <4>3. QED
        BY <2>3, <3>2, <4>1, <4>2
    <3>3. QED
      BY <3>1, <3>2
  <2>5. k \in Nat
    BY <1>0, <2>1
  <2>6. QED
    BY <2>2, <2>3, <2>4, <2>5
<1>3. QED
  BY <1>1, <1>2

LEMMA SocketsRest == ASSUME SocketIInv, UNCHANGED network PROVE SocketIInv'
<1>1. UNCHANGED <<sockets, stls, session, desc, backlog, peer, inbox, hup, edge, sent, taken,
                  unread>>
  BY DEF network
<1>2. SocketTypes' /\ Owned'
  BY <1>1 DEF SocketIInv, SocketTypes, Owned
<1>3. Links' /\ (\A s \in Socks : Counted(s))'
  BY <1>1 DEF SocketIInv, Links, Linked, Waiting, WaitsOnce, Counted
<1>4. QED
  BY <1>2, <1>3 DEF SocketIInv

(* The names that wait are of sockets.                                     *)
LEMMA Waits ==
    ASSUME SocketTypes, NEW o \in Socks
    PROVE  /\ backlog[o] \in Seq(Socks) /\ Len(backlog[o]) \in Nat
           /\ \A i \in 1..Len(backlog[o]) : backlog[o][i] \in Socks
           /\ Net!ToSet(backlog[o]) = {backlog[o][i] : i \in 1..Len(backlog[o])}
<1>1. backlog[o] \in Seq(Socks)
  BY DEF SocketTypes
<1>2. QED
  BY <1>1, LenProperties, ElementOfSeq DEF Net!ToSet

LEMMA LinksStay ==
    ASSUME SocketTypes, Links, UNCHANGED <<backlog, peer>>,
           \A p \in Socks : sockets[p] = "connected" => sockets'[p] = "connected"
    PROVE  Links'
<1>1. Linked'
  BY DEF Links, Linked
<1>2. Waiting'
  BY Waits DEF Links, Waiting
<1>3. WaitsOnce'
  BY DEF Links, WaitsOnce
<1>4. QED
  BY <1>1, <1>2, <1>3 DEF Links

(* The ends that are told when a descriptor is closed.                     *)
LEMMA GoneAre ==
    ASSUME SocketTypes, NEW s \in Socks, NEW p
    PROVE  p \in Net!Gone(s) <=>
               p \in Socks /\ (peer[p] = s \/ \E i \in 1..Len(backlog[s]) : p = backlog[s][i])
<1>1. /\ \A i \in 1..Len(backlog[s]) : backlog[s][i] \in Socks
      /\ p \in Net!ToSet(backlog[s]) <=> \E i \in 1..Len(backlog[s]) : p = backlog[s][i]
  BY Waits
<1>2. p \in Net!Gone(s) <=> (p \in Socks /\ peer[p] = s) \/ p \in Net!ToSet(backlog[s])
  BY DEF Net!Gone
<1>3. QED
  BY <1>1, <1>2

(* socket_close and what the kernel does.                                  *)
LEMMA UnpluggedLinks ==
    ASSUME SocketTypes, Links, NEW s \in Socks, Net!Unplugged(s),
           sockets' = [sockets EXCEPT ![s] = "freed"]
    PROVE  backlog' \in [Socks -> Seq(Socks)] /\ peer' \in [Socks -> Socks \union {NULL}] /\ Links'
<1>1. /\ \A p \in Socks : peer[p] = s => p \in Net!Gone(s)
      /\ \A p \in Socks : p \in Net!Gone(s) => peer[p] = s \/ peer[p] = NULL
  BY GoneAre DEF Links, Waiting
<1>2. /\ peer' \in [Socks -> Socks \union {NULL}] /\ peer'[s] = NULL
      /\ \A p \in Socks : peer'[p] = peer[p] \/ peer'[p] = NULL
      /\ \A p \in Socks : peer[p] = s => peer'[p] = NULL
      /\ \A p \in Socks : peer[p] # s /\ p # s => peer'[p] = peer[p]
  BY <1>1 DEF Net!Unplugged, SocketTypes
<1>3. \A p \in Socks : backlog'[p] = IF p = s THEN <<>> ELSE Net!Without(backlog[p], s)
  BY DEF Net!Unplugged
<1>4. backlog' = [p \in Socks |-> IF p = s THEN <<>> ELSE Net!Without(backlog[p], s)]
  BY DEF Net!Unplugged
<1>5. ASSUME NEW o \in Socks
      PROVE  /\ backlog'[o] \in Seq(Socks)
             /\ \E k \in Nat : \A i \in 1..Len(backlog'[o]) :
                    /\ (IF i < k THEN i ELSE i + 1) \in 1..Len(backlog[o])
                    /\ backlog'[o][i] = backlog[o][IF i < k THEN i ELSE i + 1]
             /\ \A i \in 1..Len(backlog'[o]) : backlog'[o][i] # s
  <2>1. CASE o = s
    <3>1. backlog'[o] = <<>>
      BY <1>3, <2>1
    <3>2. QED
      BY <3>1
  <2>2. CASE o # s
    <3> DEFINE b == backlog[o]
    <3>1. backlog'[o] = Net!Without(b, s)
      BY <1>3, <2>2
    <3>2. b \in Seq(Socks) /\ \A i, j \in 1..Len(b) : b[i] = b[j] => i = j
      BY Waits DEF Links, WaitsOnce
    <3> HIDE DEF b
    <3>3. /\ Net!Without(b, s) \in Seq(Socks)
          /\ \E k \in Nat : \A i \in 1..Len(Net!Without(b, s)) :
                  /\ (IF i < k THEN i ELSE i + 1) \in 1..Len(b)
                  /\ Net!Without(b, s)[i] = b[IF i < k THEN i ELSE i + 1]
          /\ \A i \in 1..Len(Net!Without(b, s)) : Net!Without(b, s)[i] # s
      BY ONLY <3>2, TakenOut, s \in Socks
    <3>4. QED
      BY ONLY <3>1, <3>3 DEF b
  <2>3. QED
    BY <2>1, <2>2
<1>6. backlog' \in [Socks -> Seq(Socks)]
  BY <1>4, <1>5
<1>7. sockets'[s] = "freed" /\ \A p \in Socks : p # s => sockets'[p] = sockets[p]
  BY DEF SocketTypes
<1>8. Linked'
  <2> SUFFICES ASSUME NEW p \in Socks, peer'[p] # NULL
               PROVE  sockets'[p] = "connected" /\ peer'[peer'[p]] = p
    BY DEF Linked
  <2>1. peer'[p] = peer[p] /\ peer[p] # NULL /\ p # s /\ peer[p] # s
    BY <1>2
  <2>2. sockets[p] = "connected" /\ peer[peer[p]] = p
    BY <2>1 DEF Links, Linked
  <2>3. peer[p] \in Socks
    BY <2>1 DEF SocketTypes
  <2>4. peer'[peer[p]] = p
    BY <1>2, <2>1, <2>2, <2>3
  <2>5. QED
    BY <1>7, <2>1, <2>2, <2>4
<1>9. Waiting'
  <2> SUFFICES ASSUME NEW o \in Socks, NEW i \in 1..Len(backlog'[o])
               PROVE  sockets'[backlog'[o][i]] = "connected" /\ peer'[backlog'[o][i]] = NULL
    BY DEF Waiting
  <2>1. PICK j \in 1..Len(backlog[o]) : backlog'[o][i] = backlog[o][j]
    BY <1>5
  <2>2. backlog'[o][i] # s /\ backlog[o][j] \in Socks
    BY <1>5, Waits
  <2>3. sockets[backlog[o][j]] = "connected" /\ peer[backlog[o][j]] = NULL
    BY DEF Links, Waiting
  <2>4. QED
    BY <1>2, <1>7, <2>1, <2>2, <2>3
<1>10. WaitsOnce'
  <2> SUFFICES ASSUME NEW o \in Socks, NEW q \in Socks, NEW i \in 1..Len(backlog'[o]),
                      NEW j \in 1..Len(backlog'[q]), backlog'[o][i] = backlog'[q][j]
               PROVE  o = q /\ i = j
    BY DEF WaitsOnce
  <2>1. PICK k \in Nat : \A n \in 1..Len(backlog'[o]) :
                    /\ (IF n < k THEN n ELSE n + 1) \in 1..Len(backlog[o])
                    /\ backlog'[o][n] = backlog[o][IF n < k THEN n ELSE n + 1]
    BY <1>5
  <2>2. PICK m \in Nat : \A n \in 1..Len(backlog'[q]) :
                    /\ (IF n < m THEN n ELSE n + 1) \in 1..Len(backlog[q])
                    /\ backlog'[q][n] = backlog[q][IF n < m THEN n ELSE n + 1]
    BY <1>5
  <2> DEFINE x == IF i < k THEN i ELSE i + 1
             y == IF j < m THEN j ELSE j + 1
  <2>3. x \in 1..Len(backlog[o]) /\ backlog'[o][i] = backlog[o][x]
    BY <2>1
  <2>4. y \in 1..Len(backlog[q]) /\ backlog'[q][j] = backlog[q][y]
    BY <2>2
  <2> HIDE DEF x, y
  <2>5. o = q /\ x = y
    <3>1. backlog[o][x] = backlog[q][y]
      BY <2>3, <2>4
    <3>2. WaitsOnce
      BY DEF Links
    <3>3. QED
      BY ONLY <2>3, <2>4, <3>1, <3>2, o \in Socks, q \in Socks DEF WaitsOnce
  <2>6. ASSUME o = q PROVE i = j
    <3>1. \A n \in 1..Len(backlog'[o]) :
              backlog'[o][n] = backlog[o][IF n < k THEN n ELSE n + 1]
      BY <2>1
    <3>2. j \in 1..Len(backlog'[o]) /\ backlog'[o][i] = backlog'[o][j]
      BY <2>6
    <3> DEFINE z == IF j < k THEN j ELSE j + 1
    <3>3. z \in 1..Len(backlog[o]) /\ backlog'[o][j] = backlog[o][z]
      BY <2>1, <3>2
    <3> HIDE DEF z
    <3>4. x = z
      <4>1. backlog[o][x] = backlog[o][z]
        BY <2>3, <3>2, <3>3
      <4>2. WaitsOnce
        BY DEF Links
      <4>3. QED
        BY ONLY <2>3, <3>3, <4>1, <4>2, o \in Socks DEF WaitsOnce
    <3>5. i \in Int /\ j \in Int
      OBVIOUS
    <3>6. QED
      BY ONLY <3>4, <3>5, k \in Nat DEF x, z
  <2>7. QED
    BY <2>5, <2>6
<1>11. QED
  BY <1>2, <1>6, <1>8, <1>9, <1>10 DEF Links

LEMMA FreedKeeps ==
    ASSUME SocketIInv, NEW s \in Socks, NEW t \in Tls \union {NULL},
           sockets[s] # "freed", Net!Freed(s, t), UNCHANGED <<sent, taken>>,
           t # NULL => session[t] = "new" /\ \A o \in Socks : o # s => stls[o] # t,
           unread' \in [Socks -> Nat], unread'[s] = inbox[s],
           \A o \in Socks : o # s => unread'[o] = unread[o]
    PROVE  SocketIInv'
<1>1. /\ sockets' = [sockets EXCEPT ![s] = "freed"] /\ stls' = [stls EXCEPT ![s] = NULL]
      /\ session' = Net!SessionFreed(t) /\ Net!Unplugged(s)
  BY DEF Net!Freed
<1>2. SocketTypes /\ Links
  BY DEF SocketIInv
<1>3. backlog' \in [Socks -> Seq(Socks)] /\ peer' \in [Socks -> Socks \union {NULL}] /\ Links'
  BY <1>1, <1>2, UnpluggedLinks
<1>4. /\ desc' = desc \ {s} /\ edge' = (edge \cup Net!Gone(s)) \ {s}
      /\ hup' = [p \in Socks |-> p # s /\ (hup[p] \/ p \in Net!Gone(s))]
      /\ inbox' = [inbox EXCEPT ![s] = 0]
  BY <1>1 DEF Net!Unplugged
<1>5. Net!Gone(s) \subseteq Socks
      /\ \A p \in Socks : p \in Net!Gone(s) => sockets[p] = "connected"
  <2>1. \A p \in Socks : peer[p] = s => sockets[p] = "connected"
    <3>1. s # NULL
      BY SocketAssumption
    <3>2. QED
      BY <1>2, <3>1 DEF Links, Linked
  <2>2. \A i \in 1..Len(backlog[s]) : sockets[backlog[s][i]] = "connected"
    BY <1>2 DEF Links, Waiting
  <2>3. QED
    BY ONLY <1>2, <2>1, <2>2, GoneAre, s \in Socks
<1>6. session' \in [Tls -> {"new", "freed", "twice"}] /\ (\A o \in Tls : session'[o] # "twice")
      /\ (t # NULL => session'[t] = "freed") /\ (\A o \in Tls : o # t => session'[o] = session[o])
  <2>1. CASE t = NULL
    <3>1. session' = session
      BY <1>1, <2>1 DEF Net!SessionFreed
    <3>2. QED
      BY <1>2, <2>1, <3>1 DEF SocketIInv, SocketTypes, Owned
  <2>2. CASE t # NULL
    <3>1. t \in Tls /\ session[t] = "new"
      BY <2>2
    <3>2. session' = [session EXCEPT ![t] = "freed"]
      BY <1>1, <2>2, <3>1 DEF Net!SessionFreed
    <3>3. QED
      BY <1>2, <3>1, <3>2 DEF SocketIInv, SocketTypes, Owned
  <2>3. QED
    BY <2>1, <2>2
<1>7. SocketTypes'
  <2>1. sockets' \in [Socks -> {"freed", "open", "listening", "connected"}]
        /\ stls' \in [Socks -> Tls \union {NULL}]
    BY <1>1, <1>2 DEF SocketTypes
  <2>2. hup' \in [Socks -> BOOLEAN] /\ edge' \in SUBSET Socks
    BY <1>2, <1>4, <1>5 DEF SocketTypes
  <2>3. inbox' \in [Socks -> Nat] /\ sent' \in [Socks -> Nat] /\ taken' \in [Socks -> Nat]
    BY <1>2, <1>4 DEF SocketTypes
  <2>4. QED
    BY <1>3, <1>6, <2>1, <2>2, <2>3 DEF SocketTypes
<1>8. Owned'
  <2>1. desc' = {p \in Socks : sockets'[p] # "freed"}
    BY <1>1, <1>2, <1>4 DEF SocketIInv, Owned, SocketTypes
  <2>2. ASSUME NEW o \in Socks, stls'[o] # NULL
        PROVE  o # s /\ stls'[o] = stls[o] /\ session'[stls[o]] = "new"
    <3>1. o # s /\ stls'[o] = stls[o] /\ stls[o] \in Tls
      BY <1>1, <1>2, <2>2 DEF SocketTypes
    <3>2. session[stls[o]] = "new" /\ stls[o] # t
      BY <2>2, <3>1 DEF SocketIInv, Owned
    <3>3. QED
      BY <1>6, <3>1, <3>2
  <2>3. QED
    BY <1>6, <2>1, <2>2 DEF SocketIInv, Owned
<1>9. ASSUME NEW p \in Socks PROVE Counted(p)'
  <2>0. Counted(p) /\ Counted(s)
    BY DEF SocketIInv
  <2>1. CASE p = s
    <3>1. sockets'[s] = "freed" /\ inbox'[s] = 0 /\ unread'[s] = inbox[s]
      BY <1>1, <1>2, <1>4 DEF SocketTypes
    <3>2. sent[s] = taken[s] + inbox[s]
      BY <2>0 DEF Counted
    <3>3. QED
      BY <2>1, <3>1, <3>2 DEF Counted
  <2>2. CASE p # s
    <3>1. sockets'[p] = sockets[p] /\ inbox'[p] = inbox[p] /\ unread'[p] = unread[p]
          /\ hup'[p] = (hup[p] \/ p \in Net!Gone(s))
          /\ (p \in edge' <=> p \in edge \/ p \in Net!Gone(s))
      BY <1>1, <1>2, <1>4, <2>2 DEF SocketTypes
    <3>2. p \in Net!Gone(s) => sockets[p] = "connected"
      BY <1>5
    <3>3. QED
      BY <2>0, <3>1, <3>2 DEF Counted
  <2>3. QED
    BY <2>1, <2>2
<1>10. QED
  BY <1>3, <1>7, <1>8, <1>9 DEF SocketIInv

(* A session that is its socket's is that of no other.                     *)
LEMMA OwnSession ==
    ASSUME SocketIInv, NEW s \in Socks
    PROVE  /\ stls[s] \in Tls \union {NULL}
           /\ stls[s] # NULL =>
                  session[stls[s]] = "new" /\ \A o \in Socks : o # s => stls[o] # stls[s]
BY DEF SocketIInv, SocketTypes, Owned

LEMMA CloseKeeps == ASSUME SocketIInv, NEW s \in Socks, Net!Close(s) PROVE SocketIInv'
<1>1. /\ sockets[s] # "freed" /\ unread' = [unread EXCEPT ![s] = inbox[s]]
      /\ Net!Freed(s, stls[s]) /\ UNCHANGED <<sent, taken>>
  BY DEF Net!Close
<1>2. unread' \in [Socks -> Nat] /\ unread'[s] = inbox[s]
      /\ \A o \in Socks : o # s => unread'[o] = unread[o]
  BY <1>1 DEF SocketIInv, SocketTypes
<1>3. QED
  BY <1>1, <1>2, OwnSession, FreedKeeps

LEMMA ClosesKeeps == ASSUME SocketIInv, NEW s \in Socks, Net!Closes(s) PROVE SocketIInv'
<1>1. /\ sockets[s] # "freed" /\ unread' = [unread EXCEPT ![s] = inbox[s]]
      /\ Net!Freed(s, stls[s]) /\ UNCHANGED <<sent, taken>>
  BY DEF Net!Closes
<1>2. unread' \in [Socks -> Nat] /\ unread'[s] = inbox[s]
      /\ \A o \in Socks : o # s => unread'[o] = unread[o]
  BY <1>1 DEF SocketIInv, SocketTypes
<1>3. QED
  BY <1>1, <1>2, OwnSession, FreedKeeps

(* A socket that was never connected has no messages to leave.             *)
LEMMA UnusedFreed ==
    ASSUME SocketIInv, NEW s \in Socks, NEW t \in Tls \union {NULL}, sockets[s] = "open",
           Net!Freed(s, t), UNCHANGED <<sent, taken, unread>>,
           t # NULL => session[t] = "new" /\ \A o \in Socks : o # s => stls[o] # t
    PROVE  SocketIInv'
<1>1. unread' \in [Socks -> Nat] /\ \A o \in Socks : o # s => unread'[o] = unread[o]
  BY DEF SocketIInv, SocketTypes
<1>2. unread'[s] = inbox[s]
  <2>1. Counted(s) /\ sent[s] \in Nat /\ taken[s] \in Nat /\ inbox[s] \in Nat
    BY DEF SocketIInv, SocketTypes
  <2>2. sent[s] = 0 /\ unread[s] = 0 /\ sent[s] = taken[s] + inbox[s]
    BY <2>1 DEF Counted
  <2>3. QED
    BY <2>1, <2>2
<1>3. QED
  BY <1>1, <1>2, FreedKeeps

LEMMA OpenKeeps == ASSUME SocketIInv, NEW s \in Socks, Net!Open(s) PROVE SocketIInv'
<1>1. SocketTypes /\ Links
  BY DEF SocketIInv
<1>2. /\ sockets[s] = "freed" /\ sockets' = [sockets EXCEPT ![s] = "open"] /\ desc' = desc \cup {s}
      /\ sent' = [sent EXCEPT ![s] = 0] /\ taken' = [taken EXCEPT ![s] = 0]
      /\ unread' = [unread EXCEPT ![s] = 0] /\ hup' = [hup EXCEPT ![s] = FALSE]
      /\ UNCHANGED <<stls, session, backlog, peer, inbox, edge>>
  BY DEF Net!Open
<1>3. SocketTypes'
  <2>1. sockets' \in [Socks -> {"freed", "open", "listening", "connected"}]
    BY <1>1, <1>2 DEF SocketTypes
  <2>2. sent' \in [Socks -> Nat] /\ taken' \in [Socks -> Nat] /\ unread' \in [Socks -> Nat]
        /\ hup' \in [Socks -> BOOLEAN]
    BY <1>1, <1>2 DEF SocketTypes
  <2>3. QED
    BY <1>1, <1>2, <2>1, <2>2 DEF SocketTypes
<1>4. Owned'
  BY <1>1, <1>2 DEF SocketIInv, Owned, SocketTypes
<1>5. Links'
  BY <1>1, <1>2, LinksStay DEF SocketTypes
<1>6. ASSUME NEW p \in Socks PROVE Counted(p)'
  <2>1. Counted(p)
    BY DEF SocketIInv
  <2>2. CASE p = s
    <3>1. /\ sockets'[s] = "open" /\ sent'[s] = 0 /\ taken'[s] = 0 /\ unread'[s] = 0
          /\ hup'[s] = FALSE /\ inbox'[s] = inbox[s]
      BY <1>1, <1>2 DEF SocketTypes
    <3>2. inbox[s] = 0
      BY <1>2, <2>1, <2>2 DEF Counted
    <3>3. QED
      BY <2>2, <3>1, <3>2 DEF Counted
  <2>3. CASE p # s
    <3>1. /\ sockets'[p] = sockets[p] /\ sent'[p] = sent[p] /\ taken'[p] = taken[p]
          /\ unread'[p] = unread[p] /\ hup'[p] = hup[p] /\ inbox'[p] = inbox[p] /\ edge' = edge
      BY <1>1, <1>2, <2>3 DEF SocketTypes
    <3>2. QED
      BY <2>1, <3>1 DEF Counted
  <2>4. QED
    BY <2>2, <2>3
<1>7. QED
  BY <1>3, <1>4, <1>5, <1>6 DEF SocketIInv

LEMMA ListenKeeps ==
    ASSUME SocketIInv, NEW s \in Socks, NEW binds \in BOOLEAN, Net!Listen(s, binds)
    PROVE  SocketIInv'
<1>1. SocketTypes /\ Links /\ sockets[s] = "open"
  BY DEF SocketIInv, Net!Listen
<1>2. CASE Net!Freed(s, NULL) /\ UNCHANGED <<sent, taken, unread>>
  BY <1>1, <1>2, UnusedFreed
<1>3. CASE /\ sockets' = [sockets EXCEPT ![s] = "listening"]
           /\ UNCHANGED <<stls, session, desc, backlog, peer, inbox, hup, edge, sent, taken,
                          unread>>
  <2>1. sockets' \in [Socks -> {"freed", "open", "listening", "connected"}]
        /\ sockets'[s] = "listening" /\ \A p \in Socks : p # s => sockets'[p] = sockets[p]
    BY <1>1, <1>3 DEF SocketTypes
  <2>2. SocketTypes'
    BY <1>1, <1>3, <2>1 DEF SocketTypes
  <2>3. Owned'
    BY <1>1, <1>3, <2>1 DEF SocketIInv, Owned
  <2>4. Links'
    BY <1>1, <1>3, <2>1, LinksStay
  <2>5. ASSUME NEW p \in Socks PROVE Counted(p)'
    <3>1. Counted(p)
      BY DEF SocketIInv
    <3>2. QED
      BY <1>1, <1>3, <2>1, <3>1 DEF Counted
  <2>6. QED
    BY <2>2, <2>3, <2>4, <2>5 DEF SocketIInv
<1>4. QED
  BY <1>2, <1>3 DEF Net!Listen

(* A session that is new and nobody's may be given to a socket.            *)
LEMMA SessionTaken ==
    ASSUME SocketIInv, NEW s \in Socks, NEW t \in Tls \union {NULL},
           t # NULL => session[t] = "new" /\ \A o \in Socks : stls[o] # t,
           stls' = [stls EXCEPT ![s] = t], session' = session,
           desc' = {p \in Socks : sockets'[p] # "freed"}
    PROVE  stls' \in [Socks -> Tls \union {NULL}] /\ Owned'
<1>1. stls' \in [Socks -> Tls \union {NULL}] /\ stls'[s] = t
      /\ \A p \in Socks : p # s => stls'[p] = stls[p]
  BY DEF SocketIInv, SocketTypes
<1>2. \A p \in Socks : stls'[p] # NULL => session[stls'[p]] = "new"
  BY <1>1 DEF SocketIInv, Owned
<1>3. \A p, o \in Socks : stls'[p] # NULL /\ stls'[p] = stls'[o] => p = o
  BY <1>1 DEF SocketIInv, Owned
<1>4. QED
  BY <1>1, <1>2, <1>3 DEF SocketIInv, Owned

LEMMA ConnectKeeps ==
    ASSUME SocketIInv, NEW s \in Socks, NEW t \in Tls \union {NULL}, NEW greets \in BOOLEAN,
           Net!Connect(s, t, greets)
    PROVE  SocketIInv'
<1>1. /\ SocketTypes /\ Links /\ sockets[s] = "open"
      /\ t # NULL => session[t] = "new" /\ \A o \in Socks : stls[o] # t
  BY DEF SocketIInv, Net!Connect
<1>2. CASE (Net!Freed(s, NULL) \/ Net!Freed(s, t)) /\ UNCHANGED <<sent, taken, unread>>
  BY <1>1, <1>2, UnusedFreed
<1>3. CASE /\ bound \in Socks
           /\ sockets' = [sockets EXCEPT ![s] = "connected"] /\ stls' = [stls EXCEPT ![s] = t]
           /\ backlog' = [backlog EXCEPT ![bound] = Append(@, s)]
           /\ UNCHANGED <<session, desc, peer, inbox, hup, edge, sent, taken, unread>>
  <2>1. sockets' \in [Socks -> {"freed", "open", "listening", "connected"}]
        /\ sockets'[s] = "connected" /\ \A p \in Socks : p # s => sockets'[p] = sockets[p]
    BY <1>1, <1>3 DEF SocketTypes
  <2>2. backlog' = [backlog EXCEPT ![bound] = Append(backlog[bound], s)]
    BY <1>3
  <2>3. /\ backlog[bound] \in Seq(Socks) /\ Append(backlog[bound], s) \in Seq(Socks)
        /\ Len(Append(backlog[bound], s)) = Len(backlog[bound]) + 1
        /\ Append(backlog[bound], s)[Len(backlog[bound]) + 1] = s
        /\ \A i \in 1..Len(backlog[bound]) : Append(backlog[bound], s)[i] = backlog[bound][i]
        /\ Len(backlog[bound]) \in Nat
    <3>1. backlog[bound] \in Seq(Socks)
      BY <1>1, <1>3 DEF SocketTypes
    <3>2. QED
      BY <3>1, AppendProperties, LenProperties
  <2>4. /\ backlog' \in [Socks -> Seq(Socks)] /\ backlog'[bound] = Append(backlog[bound], s)
        /\ \A o \in Socks : o # bound => backlog'[o] = backlog[o]
    BY <1>1, <1>3, <2>2, <2>3 DEF SocketTypes
  <2>5. \A o \in Socks : \A i \in 1..Len(backlog[o]) :
            backlog[o][i] \in Socks /\ backlog[o][i] # s
    BY <1>1, Waits DEF Links, Waiting
  <2>6. ASSUME NEW o \in Socks, NEW i \in 1..Len(backlog'[o])
        PROVE  \/ i \in 1..Len(backlog[o]) /\ backlog'[o][i] = backlog[o][i]
               \/ o = bound /\ i = Len(backlog[bound]) + 1 /\ backlog'[o][i] = s
    <3>1. CASE o = bound
      <4>1. i \in 1..(Len(backlog[bound]) + 1)
        BY <2>3, <2>4, <3>1
      <4>2. i \in 1..Len(backlog[bound]) \/ i = Len(backlog[bound]) + 1
        BY <2>3, <4>1
      <4>3. QED
        BY <2>3, <2>4, <3>1, <4>2
    <3>2. CASE o # bound
      BY <2>4, <3>2
    <3>3. QED
      BY <3>1, <3>2
  <2>7. peer[s] = NULL
    BY <1>1 DEF Links, Linked
  <2>8. Links'
    <3>1. Linked'
      BY <1>1, <1>3, <2>1 DEF Links, Linked
    <3>2. Waiting'
      <4> SUFFICES ASSUME NEW o \in Socks, NEW i \in 1..Len(backlog'[o])
                   PROVE  sockets'[backlog'[o][i]] = "connected" /\ peer'[backlog'[o][i]] = NULL
        BY DEF Waiting
      <4>1. CASE backlog'[o][i] = s
        BY <1>3, <2>1, <2>7, <4>1
      <4>2. CASE i \in 1..Len(backlog[o]) /\ backlog'[o][i] = backlog[o][i]
        BY <1>1, <1>3, <2>1, <2>5, <4>2 DEF Links, Waiting
      <4>3. QED
        BY <2>6, <4>1, <4>2
    <3>3. WaitsOnce'
      <4> SUFFICES ASSUME NEW o \in Socks, NEW q \in Socks, NEW i \in 1..Len(backlog'[o]),
                          NEW j \in 1..Len(backlog'[q]), backlog'[o][i] = backlog'[q][j]
                   PROVE  o = q /\ i = j
        BY DEF WaitsOnce
      <4>1. \/ i \in 1..Len(backlog[o]) /\ backlog'[o][i] = backlog[o][i]
            \/ o = bound /\ i = Len(backlog[bound]) + 1 /\ backlog'[o][i] = s
        BY <2>6
      <4>2. \/ j \in 1..Len(backlog[q]) /\ backlog'[q][j] = backlog[q][j]
            \/ q = bound /\ j = Len(backlog[bound]) + 1 /\ backlog'[q][j] = s
        BY <2>6
      <4>3. WaitsOnce
        BY <1>1 DEF Links
      <4>4. QED
        BY <2>5, <4>1, <4>2, <4>3 DEF WaitsOnce
    <3>4. QED
      BY <3>1, <3>2, <3>3 DEF Links
  <2>9. desc' = {p \in Socks : sockets'[p] # "freed"}
    BY <1>1, <1>3, <2>1 DEF SocketIInv, Owned
  <2>10. stls' \in [Socks -> Tls \union {NULL}] /\ Owned'
    BY <1>1, <1>3, <2>9, SessionTaken
  <2>11. SocketTypes'
    BY <1>1, <1>3, <2>1, <2>4, <2>10 DEF SocketTypes
  <2>12. ASSUME NEW p \in Socks PROVE Counted(p)'
    <3>1. Counted(p) /\ inbox[p] \in Nat /\ taken[p] \in Nat /\ sent[p] \in Nat
      BY <1>1 DEF SocketIInv, SocketTypes
    <3>2. CASE p = s
      <4>1. sent[s] = taken[s] + inbox[s] /\ sent[s] = 0 /\ ~hup[s]
        BY <1>1, <3>1, <3>2 DEF Counted
      <4>2. inbox[s] = 0
        BY <3>1, <3>2, <4>1
      <4>3. QED
        BY <1>3, <2>1, <3>2, <4>1, <4>2 DEF Counted
    <3>3. CASE p # s
      BY <1>3, <2>1, <3>1, <3>3 DEF Counted
    <3>4. QED
      BY <3>2, <3>3
  <2>13. QED
    BY <2>8, <2>10, <2>11, <2>12 DEF SocketIInv
<1>4. QED
  BY <1>2, <1>3 DEF Net!Connect

(* The first connection that waits is taken; the others move up.           *)
LEMMA FirstTakenOut ==
    ASSUME SocketTypes, Links, NEW v \in Socks, backlog[v] # <<>>,
           backlog' = [backlog EXCEPT ![v] = Tail(backlog[v])]
    PROVE  /\ backlog' \in [Socks -> Seq(Socks)]
           /\ Head(backlog[v]) \in Socks /\ sockets[Head(backlog[v])] = "connected"
           /\ peer[Head(backlog[v])] = NULL
           /\ \A o \in Socks : \A i \in 1..Len(backlog'[o]) :
                  /\ (IF o = v THEN i + 1 ELSE i) \in 1..Len(backlog[o])
                  /\ backlog'[o][i] = backlog[o][IF o = v THEN i + 1 ELSE i]
                  /\ backlog'[o][i] # Head(backlog[v]) /\ backlog'[o][i] \in Socks
           /\ WaitsOnce'
<1> DEFINE b == backlog[v]
           c == Head(b)
<1>1. b \in Seq(Socks) /\ Len(b) \in Nat /\ b # <<>>
  BY Waits
<1>2. c = b[1] /\ 1 \in 1..Len(b) /\ Tail(b) \in Seq(Socks) /\ Len(Tail(b)) = Len(b) - 1
      /\ \A i \in 1..Len(Tail(b)) : Tail(b)[i] = b[i + 1]
  <2> HIDE DEF b
  <2>1. Len(b) > 0
    BY <1>1, LenProperties, EmptySeq
  <2>2. c = b[1]
    BY <1>1
  <2>3. QED
    BY <1>1, <2>1, <2>2, HeadTailProperties
<1>3. /\ backlog' \in [Socks -> Seq(Socks)] /\ backlog'[v] = Tail(b)
      /\ \A o \in Socks : o # v => backlog'[o] = backlog[o]
  BY <1>2 DEF SocketTypes
<1> HIDE DEF b, c
<1>4. c \in Socks /\ sockets[c] = "connected" /\ peer[c] = NULL
  BY <1>1, <1>2, ElementOfSeq DEF Links, Waiting, b
<1>5. ASSUME NEW o \in Socks, NEW i \in 1..Len(backlog'[o])
      PROVE  /\ (IF o = v THEN i + 1 ELSE i) \in 1..Len(backlog[o])
             /\ backlog'[o][i] = backlog[o][IF o = v THEN i + 1 ELSE i]
             /\ backlog'[o][i] # c /\ backlog'[o][i] \in Socks
  <2>0. WaitsOnce
    BY DEF Links
  <2>1. CASE o = v
    <3>1. i \in 1..(Len(b) - 1) /\ backlog'[o][i] = b[i + 1]
      BY <1>2, <1>3, <2>1
    <3>2. i + 1 \in 1..Len(b) /\ i + 1 # 1
      BY <1>1, <3>1
    <3>3. b[i + 1] # b[1]
      BY <1>2, <2>0, <3>2 DEF WaitsOnce, b
    <3>4. b[i + 1] \in Socks
      BY <1>1, <3>2, ElementOfSeq
    <3>5. QED
      BY <1>2, <2>1, <3>1, <3>2, <3>3, <3>4 DEF b
  <2>2. CASE o # v
    <3>1. backlog'[o] = backlog[o] /\ i \in 1..Len(backlog[o])
      BY <1>3, <2>2
    <3>2. backlog[o][i] # b[1]
      BY <1>2, <2>0, <2>2, <3>1 DEF WaitsOnce, b
    <3>3. QED
      BY <1>2, <2>2, <3>1, <3>2, Waits
  <2>3. QED
    BY <2>1, <2>2
<1>6. WaitsOnce'
  <2> SUFFICES ASSUME NEW o \in Socks, NEW q \in Socks, NEW i \in 1..Len(backlog'[o]),
                      NEW j \in 1..Len(backlog'[q]), backlog'[o][i] = backlog'[q][j]
               PROVE  o = q /\ i = j
    BY DEF WaitsOnce
  <2> DEFINE x == IF o = v THEN i + 1 ELSE i
             y == IF q = v THEN j + 1 ELSE j
  <2>1. x \in 1..Len(backlog[o]) /\ y \in 1..Len(backlog[q]) /\ backlog[o][x] = backlog[q][y]
    BY <1>5
  <2> HIDE DEF x, y
  <2>2. WaitsOnce
    BY DEF Links
  <2>3. o = q /\ x = y
    BY ONLY <2>1, <2>2, o \in Socks, q \in Socks DEF WaitsOnce
  <2>4. i \in Int /\ j \in Int
    OBVIOUS
  <2>5. QED
    BY ONLY <2>3, <2>4 DEF x, y
<1>7. QED
  BY <1>3, <1>4, <1>5, <1>6 DEF c, b

LEMMA ZeroCounts == 0 = 0 + 0 /\ ~(0 > 0)
OBVIOUS

LEMMA AcceptKeeps ==
    ASSUME SocketIInv, NEW v \in Socks, NEW s \in Socks, NEW t \in Tls \union {NULL},
           NEW r \in {"connected", "nostream", "nohandshake"}, Net!Accept(v, s, t, r)
    PROVE  SocketIInv'
<1> DEFINE c == Head(backlog[v])
<1>1. /\ SocketTypes /\ Links /\ sockets[s] = "freed"
      /\ t # NULL => session[t] = "new" /\ \A o \in Socks : stls[o] # t
  BY DEF SocketIInv, Net!Accept
<1>2. backlog[v] # <<>> /\ backlog' = [backlog EXCEPT ![v] = Tail(backlog[v])]
  <2>1. CASE r = "connected"
    BY <2>1 DEF Net!Accept
  <2>2. CASE r = "nostream"
    BY <2>2, ZenonT(60) DEF Net!Accept
  <2>3. CASE r = "nohandshake"
    BY <2>3 DEF Net!Accept
  <2>4. QED
    BY <2>1, <2>2, <2>3
<1>3. /\ backlog' \in [Socks -> Seq(Socks)]
      /\ c \in Socks /\ sockets[c] = "connected" /\ peer[c] = NULL
      /\ \A o \in Socks : \A i \in 1..Len(backlog'[o]) :
                  /\ (IF o = v THEN i + 1 ELSE i) \in 1..Len(backlog[o])
                  /\ backlog'[o][i] = backlog[o][IF o = v THEN i + 1 ELSE i]
                  /\ backlog'[o][i] # c /\ backlog'[o][i] \in Socks
      /\ WaitsOnce'
  BY ONLY <1>1, <1>2, FirstTakenOut, v \in Socks
<1>4. \A o \in Socks : \A i \in 1..Len(backlog'[o]) :
          sockets[backlog'[o][i]] = "connected" /\ peer[backlog'[o][i]] = NULL
  <2> SUFFICES ASSUME NEW o \in Socks, NEW i \in 1..Len(backlog'[o])
               PROVE  sockets[backlog'[o][i]] = "connected" /\ peer[backlog'[o][i]] = NULL
    OBVIOUS
  <2>1. PICK j \in 1..Len(backlog[o]) : backlog'[o][i] = backlog[o][j]
    BY <1>3
  <2>2. QED
    BY <1>1, <2>1, ZenonT(60) DEF Links, Waiting
<1>5. CASE r = "connected"
  <2>1. /\ sockets' = [sockets EXCEPT ![s] = "connected"] /\ stls' = [stls EXCEPT ![s] = t]
        /\ desc' = desc \cup {s} /\ peer' = [peer EXCEPT ![s] = c, ![c] = s]
        /\ hup' = [hup EXCEPT ![s] = FALSE]
        /\ sent' = [sent EXCEPT ![s] = 0] /\ taken' = [taken EXCEPT ![s] = 0]
        /\ unread' = [unread EXCEPT ![s] = 0]
        /\ UNCHANGED <<session, inbox, edge>>
    BY <1>5 DEF Net!Accept
  <2> HIDE DEF c
  <2>2. s # c /\ c # NULL /\ s # NULL
    BY <1>1, <1>3, SocketAssumption
  <2>3. /\ sockets' \in [Socks -> {"freed", "open", "listening", "connected"}]
        /\ sockets'[s] = "connected" /\ \A p \in Socks : p # s => sockets'[p] = sockets[p]
    BY <1>1, <2>1 DEF SocketTypes
  <2>4. /\ peer' \in [Socks -> Socks \union {NULL}] /\ peer'[s] = c /\ peer'[c] = s
        /\ \A p \in Socks : p # s /\ p # c => peer'[p] = peer[p]
    BY <1>1, <1>3, <2>1, <2>2 DEF SocketTypes
  <2>5. \A p \in Socks : peer[p] # s /\ peer[p] # c /\ (peer[p] # NULL => peer[p] \in Socks)
    <3>1. peer[s] = NULL
      BY <1>1 DEF Links, Linked
    <3>2. \A p \in Socks : peer[p] # NULL => peer[p] \in Socks /\ peer[peer[p]] = p
      <4>1. \A p \in Socks : peer[p] # NULL => peer[p] \in Socks
        BY <1>1 DEF SocketTypes
      <4>2. \A p \in Socks : peer[p] # NULL => peer[peer[p]] = p
        BY <1>1, Zenon DEF Links, Linked
      <4> QED
        BY <4>1, <4>2
    <3>3. \A p \in Socks : p # NULL
      BY SocketAssumption
    <3>4. QED
      BY <1>3, <2>2, <3>1, <3>2, <3>3, ZenonT(60)
  <2>6. Linked'
    <3> SUFFICES ASSUME NEW p \in Socks, peer'[p] # NULL
                 PROVE  sockets'[p] = "connected" /\ peer'[peer'[p]] = p
      BY DEF Linked
    <3>1. CASE p = s
      BY ONLY <2>2, <2>3, <2>4, <3>1
    <3>4. CASE p = c
      BY ONLY <1>3, <2>2, <2>3, <2>4, <3>4
    <3>2. CASE p # s /\ p # c
      <4>1. peer'[p] = peer[p] /\ peer[p] # NULL /\ peer[p] \in Socks
            /\ peer[p] # s /\ peer[p] # c
        BY <2>4, <2>5, <3>2
      <4>2. sockets[p] = "connected" /\ peer[peer[p]] = p
        BY <1>1, <4>1 DEF Links, Linked
      <4>3. QED
        BY <2>3, <2>4, <3>2, <4>1, <4>2
    <3>3. QED
      BY <3>1, <3>2, <3>4
  <2>7. Waiting'
    <3> SUFFICES ASSUME NEW o \in Socks, NEW i \in 1..Len(backlog'[o])
                 PROVE  sockets'[backlog'[o][i]] = "connected" /\ peer'[backlog'[o][i]] = NULL
      BY DEF Waiting
    <3>1. backlog'[o][i] \in Socks /\ backlog'[o][i] # c
          /\ sockets[backlog'[o][i]] = "connected" /\ peer[backlog'[o][i]] = NULL
      BY <1>3, <1>4
    <3>2. backlog'[o][i] # s
      BY <1>1, <3>1
    <3>3. QED
      BY <2>3, <2>4, <3>1, <3>2
  <2>8. Links'
    BY <1>3, <2>6, <2>7 DEF Links
  <2>9. desc' = {p \in Socks : sockets'[p] # "freed"}
    BY <1>1, <2>1, <2>3, ZenonT(60) DEF SocketIInv, Owned
  <2>10. stls' \in [Socks -> Tls \union {NULL}] /\ Owned'
    BY <1>1, <2>1, <2>9, SessionTaken
  <2>11. /\ sent' \in [Socks -> Nat] /\ taken' \in [Socks -> Nat] /\ unread' \in [Socks -> Nat]
         /\ hup' \in [Socks -> BOOLEAN]
    BY <1>1, <2>1 DEF SocketTypes
  <2>12. SocketTypes'
    BY <1>1, <1>3, <2>1, <2>3, <2>4, <2>10, <2>11 DEF SocketTypes
  <2>13. ASSUME NEW p \in Socks PROVE Counted(p)'
    <3>1. Counted(p)
      BY DEF SocketIInv
    <3>2. CASE p = s
      <4>1. sent'[s] = 0 /\ taken'[s] = 0 /\ inbox'[s] = inbox[s] /\ hup'[s] = FALSE
        BY <1>1, <2>1 DEF SocketTypes
      <4>2. inbox[s] = 0
        BY <1>1, <3>1, <3>2 DEF Counted
      <4>3. QED
        <5>1. /\ sockets'[p] = "connected" /\ sent'[p] = 0 /\ taken'[p] = 0 /\ inbox'[p] = 0
              /\ ~hup'[p]
          BY <2>3, <3>2, <4>1, <4>2
        <5>2. sent'[p] = taken'[p] + inbox'[p] /\ ~(inbox'[p] > 0)
          BY ONLY <5>1, ZeroCounts, Zenon
        <5>4. QED
          BY ONLY <5>1, <5>2, Zenon DEF Counted
    <3>3. CASE p # s
      <4>1. sockets'[p] = sockets[p] /\ sent'[p] = sent[p] /\ taken'[p] = taken[p]
            /\ unread'[p] = unread[p] /\ hup'[p] = hup[p] /\ inbox'[p] = inbox[p] /\ edge' = edge
        BY <1>1, <2>1, <2>3, <3>3 DEF SocketTypes
      <4>2. QED
        BY ONLY <3>1, <4>1 DEF Counted
    <3>4. QED
      BY <3>2, <3>3
  <2>14. QED
    BY <2>8, <2>10, <2>12, <2>13 DEF SocketIInv
<1>6. CASE r \in {"nostream", "nohandshake"}
  <2>1. /\ hup' = [hup EXCEPT ![c] = TRUE] /\ edge' = edge \cup {c}
        /\ session' = IF r = "nohandshake" THEN Net!SessionFreed(t) ELSE session
        /\ r = "nohandshake" => t # NULL
        /\ UNCHANGED <<sockets, stls, desc, peer, inbox, sent, taken, unread>>
    <3>1. CASE r = "nostream"
      BY <3>1 DEF Net!Accept
    <3>2. CASE r = "nohandshake"
      BY <3>2 DEF Net!Accept
    <3>3. QED
      BY <1>6, <3>1, <3>2
  <2> HIDE DEF c
  <2>2. session' = session \/ (t \in Tls /\ session' = [session EXCEPT ![t] = "freed"])
    <3>1. CASE r = "nohandshake"
      <4>1. t \in Tls /\ session[t] = "new"
        BY <1>1, <2>1, <3>1
      <4>2. QED
        BY <2>1, <3>1, <4>1 DEF Net!SessionFreed
    <3>2. CASE r # "nohandshake"
      BY <2>1, <3>2
    <3>3. QED
      BY <3>1, <3>2
  <2>3. session' \in [Tls -> {"new", "freed", "twice"}] /\ (\A o \in Tls : session'[o] # "twice")
        /\ \A o \in Tls : o # t => session'[o] = session[o]
    BY <1>1, <2>2 DEF SocketIInv, SocketTypes, Owned
  <2>4. Owned'
    <3>1. \A p \in Socks : stls[p] # NULL => session'[stls[p]] = "new"
      <4> SUFFICES ASSUME NEW p \in Socks, stls[p] # NULL PROVE session'[stls[p]] = "new"
        OBVIOUS
      <4>1. stls[p] \in Tls /\ session[stls[p]] = "new"
        BY DEF SocketIInv, SocketTypes, Owned
      <4>2. stls[p] # t
        BY <1>1, <4>1, SocketAssumption
      <4>3. QED
        BY <2>3, <4>1, <4>2
    <3>2. QED
      BY <2>1, <2>3, <3>1 DEF SocketIInv, Owned
  <2>5. hup' \in [Socks -> BOOLEAN] /\ edge' \in SUBSET Socks
    BY <1>1, <1>3, <2>1, ZenonT(60) DEF SocketTypes
  <2>6. SocketTypes'
    BY <1>1, <1>3, <2>1, <2>3, <2>5, ZenonT(60) DEF SocketTypes
  <2>7. Links'
    <3>1. Linked'
      BY <1>1, <2>1, ZenonT(60) DEF Links, Linked
    <3>2. Waiting'
      BY <1>4, <2>1, ZenonT(60) DEF Waiting
    <3>3. QED
      BY <1>3, <3>1, <3>2 DEF Links
  <2>8. ASSUME NEW p \in Socks PROVE Counted(p)'
    <3>1. Counted(p)
      BY DEF SocketIInv
    <3>2. hup'[p] = IF p = c THEN TRUE ELSE hup[p]
      BY <1>1, <2>1 DEF SocketTypes
    <3>3. QED
      BY <1>3, <2>1, <3>1, <3>2, ZenonT(60) DEF Counted
  <2>9. QED
    BY <2>4, <2>6, <2>7, <2>8 DEF SocketIInv
<1>7. QED
  BY <1>5, <1>6

LEMMA SendKeeps == ASSUME SocketIInv, NEW s \in Socks, Net!Send(s) PROVE SocketIInv'
<1> DEFINE q == peer[s]
<1>1. SocketTypes /\ Links
  BY DEF SocketIInv
<1>2. /\ q # NULL /\ inbox' = [inbox EXCEPT ![q] = @ + 1] /\ sent' = [sent EXCEPT ![q] = @ + 1]
      /\ edge' = edge \cup {q}
      /\ UNCHANGED <<sockets, stls, session, desc, backlog, peer, hup, taken, unread>>
  BY DEF Net!Send
<1>3. q \in Socks /\ peer[q] = s /\ s # NULL
  BY <1>1, <1>2, SocketAssumption DEF SocketTypes, Links, Linked
<1>4. sockets[q] = "connected"
  BY <1>1, <1>3 DEF Links, Linked
<1> HIDE DEF q
<1>5. inbox' \in [Socks -> Nat] /\ sent' \in [Socks -> Nat] /\ edge' \in SUBSET Socks
      /\ inbox'[q] = inbox[q] + 1 /\ sent'[q] = sent[q] + 1
      /\ \A p \in Socks : p # q => inbox'[p] = inbox[p] /\ sent'[p] = sent[p]
  BY <1>1, <1>2, <1>3 DEF SocketTypes
<1>6. SocketTypes'
  BY <1>1, <1>2, <1>5 DEF SocketTypes
<1>7. Owned' /\ Links'
  BY <1>1, <1>2, LinksStay DEF SocketIInv, Owned
<1>8. ASSUME NEW p \in Socks PROVE Counted(p)'
  <2>1. Counted(p) /\ inbox[p] \in Nat /\ sent[p] \in Nat /\ taken[p] \in Nat
    BY <1>1 DEF SocketIInv, SocketTypes
  <2>2. CASE p = q
    <3>1. sent[q] = taken[q] + inbox[q]
      BY <1>4, <2>1, <2>2 DEF Counted
    <3>2. sent'[q] = taken'[q] + inbox'[q]
      BY <1>2, <1>5, <2>1, <2>2, <3>1
    <3>3. QED
      BY <1>2, <1>4, <2>2, <3>2 DEF Counted
  <2>3. CASE p # q
    BY <1>2, <1>5, <2>1, <2>3 DEF Counted
  <2>4. QED
    BY <2>2, <2>3
<1>9. QED
  BY <1>6, <1>7, <1>8 DEF SocketIInv

LEMMA ReadsKeeps == ASSUME SocketIInv, NEW s \in Socks, Net!Reads(s) PROVE SocketIInv'
<1>1. SocketTypes /\ Links
  BY DEF SocketIInv
<1>2. /\ sockets[s] = "connected" /\ ~hup[s]
      /\ taken' = [taken EXCEPT ![s] = @ + inbox[s]] /\ inbox' = [inbox EXCEPT ![s] = 0]
      /\ edge' = edge \ {s}
      /\ UNCHANGED <<sockets, stls, session, desc, backlog, peer, hup, sent, unread>>
  BY DEF Net!Reads
<1>3. inbox' \in [Socks -> Nat] /\ taken' \in [Socks -> Nat] /\ edge' \in SUBSET Socks
      /\ inbox'[s] = 0 /\ taken'[s] = taken[s] + inbox[s]
      /\ \A p \in Socks : p # s => inbox'[p] = inbox[p] /\ taken'[p] = taken[p]
  BY <1>1, <1>2 DEF SocketTypes
<1>4. SocketTypes'
  BY <1>1, <1>2, <1>3 DEF SocketTypes
<1>5. Owned' /\ Links'
  BY <1>1, <1>2, LinksStay DEF SocketIInv, Owned
<1>6. ASSUME NEW p \in Socks PROVE Counted(p)'
  <2>1. Counted(p) /\ inbox[p] \in Nat /\ sent[p] \in Nat /\ taken[p] \in Nat
    BY <1>1 DEF SocketIInv, SocketTypes
  <2>2. CASE p = s
    <3>1. sent[s] = taken[s] + inbox[s]
      BY <1>2, <2>1, <2>2 DEF Counted
    <3>2. sent'[s] = taken'[s] + inbox'[s] /\ inbox'[s] = 0
      BY <1>2, <1>3, <2>1, <2>2, <3>1
    <3>3. QED
      BY <1>2, <2>2, <3>2 DEF Counted
  <2>3. CASE p # s
    BY <1>2, <1>3, <2>1, <2>3 DEF Counted
  <2>4. QED
    BY <2>2, <2>3
<1>7. QED
  BY <1>4, <1>5, <1>6 DEF SocketIInv

LEMMA SocketsKeep == ASSUME SocketIInv, Net!Next PROVE SocketIInv'
<1>1. ASSUME NEW s \in Socks,
             Net!Open(s) \/ Net!Close(s) \/ Net!Send(s) \/ Net!ParseEvents(s)
      PROVE  SocketIInv'
  BY <1>1, OpenKeeps, CloseKeeps, SendKeeps, ClosesKeeps, ReadsKeeps DEF Net!ParseEvents
<1>2. ASSUME NEW s \in Socks, NEW binds \in BOOLEAN, Net!Listen(s, binds) PROVE SocketIInv'
  BY <1>2, ListenKeeps
<1>3. ASSUME NEW s \in Socks, NEW t \in Tls \union {NULL}, NEW greets \in BOOLEAN,
             Net!Connect(s, t, greets)
      PROVE  SocketIInv'
  BY <1>3, ConnectKeeps
<1>4. ASSUME NEW v \in Socks, NEW s \in Socks, NEW t \in Tls \union {NULL},
             NEW r \in {"connected", "nostream", "nohandshake"}, Net!Accept(v, s, t, r)
      PROVE  SocketIInv'
  BY <1>4, AcceptKeeps
<1>5. QED
  BY <1>1, <1>2, <1>3, <1>4 DEF Net!Next, Net!Calls

-----------------------------------------------------------------------------
(* Mailboxes.  No line in a buffer is of a call to come, and only lines of *)
(* lists are torn.                                                         *)
InMailbox == {"EXAMINE", "FETCH", "STORE"} \X Dirs
Commands == {NULL} \union InMailbox
Tellings == {"list", "exists", "recent", "unseen", "flags", "head"}
Buffers == Seq([is : Tellings, dir : Dirs \union {NULL}, n : Nat, torn : BOOLEAN])
Until(b, now) == \A i \in 1..Len(b) : b[i].n <= now
TornLists(b) == \A i \in 1..Len(b) : b[i].torn => b[i].is = "list"
Kept(b, now) == b \in Buffers /\ Until(b, now) /\ TornLists(b)
ImapIInv == kind = "imap" =>
    /\ calls \in Nat /\ custom \in Commands /\ url \in Dirs \union {"server"}
    /\ Kept(body, calls) /\ Kept(header, calls)
    /\ url # "server" => custom \in InMailbox
    /\ Hosts!ImapRight

LEMMA LeastOf ==
    ASSUME NEW S \in SUBSET Nat, S # {}
    PROVE  Hosts!Min(S) \in S /\ \A n \in S : Hosts!Min(S) <= n
<1> DEFINE R == OpToRel(<, Nat)
<1>1. IsWellFoundedOn(R, Nat)
  BY NatLessThanWellFounded
<1>2. \A m, n \in S : n < m => <<n, m>> \in R
  BY DEF OpToRel
<1> HIDE DEF R
<1>3. PICK m \in S : \A n \in S : <<n, m>> \notin R
  BY <1>1, WFMin
<1>4. \A n \in S : m <= n
  <2>1. \A n \in S : ~(n < m)
    BY <1>2, <1>3
  <2>2. QED
    BY <2>1
<1> QED
  BY <1>4 DEF Hosts!Min

LEMMA ImapHolds == ImapIInv => Hosts!ImapRight
<1>1. kind # "imap" => Hosts!ImapRight
  BY Zenon DEF Hosts!ImapRight
<1>2. QED
  BY <1>1, Zenon DEF ImapIInv

(* The lines of a buffer have numbers, kinds and places.                   *)
LEMMA Buffered ==
    ASSUME NEW b \in Buffers
    PROVE  /\ Len(b) \in Nat /\ DOMAIN b = 1..Len(b)
           /\ \A i \in 1..Len(b) : b[i].n \in Nat /\ b[i].torn \in BOOLEAN
<1> DEFINE R == [is : Tellings, dir : Dirs \union {NULL}, n : Nat, torn : BOOLEAN]
<1>1. \A x \in R : x.n \in Nat /\ x.torn \in BOOLEAN
  OBVIOUS
<1> HIDE DEF R
<1>2. b \in Seq(R)
  BY DEF Buffers, R
<1>3. QED
  BY <1>1, <1>2

(* A place that is found is one, and the first behind another.             *)
LEMMA PlaceFound ==
    ASSUME NEW b \in Buffers, NEW is, NEW after \in Nat, Hosts!Places(b, is, after) # {}
    PROVE  LET p == Hosts!Min(Hosts!Places(b, is, after)) IN
           p \in 1..Len(b) /\ p > after /\ b[p].is = is
<1> DEFINE S == Hosts!Places(b, is, after)
<1>1. S \in SUBSET Nat /\ \A i \in S : i \in 1..Len(b) /\ i > after /\ b[i].is = is
  BY Buffered DEF Hosts!Places
<1> HIDE DEF S
<1>2. Hosts!Min(S) \in S
  <2>1. S # {}
    BY DEF S
  <2>2. QED
    BY <1>1, <2>1, LeastOf
<1>3. QED
  BY <1>1, <1>2 DEF S

LEMMA ImapStarts == Hosts!Init => ImapIInv
<1> SUFFICES ASSUME Hosts!Init PROVE ImapIInv
  OBVIOUS
<1>1. /\ calls = 0 /\ custom = NULL /\ url = "server" /\ body = <<>> /\ header = <<>>
      /\ did = NULL /\ answer = NULL
  BY DEF Hosts!Init
<1>2. Hosts!ImapRight
  BY <1>1, HandleAssumption DEF Hosts!ImapRight
<1>3. calls \in Nat /\ body \in Buffers /\ header \in Buffers
  BY <1>1 DEF Buffers
<1>4. QED
  BY <1>1, <1>2, <1>3 DEF ImapIInv, Kept, Until, TornLists, Commands

LEMMA ImapRests == ASSUME ImapIInv, UNCHANGED handle PROVE ImapIInv'
<1>1. UNCHANGED <<kind, url, custom, body, header, cut, request, answer, did, calls, meant>>
  BY DEF handle
<1>2. Hosts!ImapRight => Hosts!ImapRight'
  BY <1>1 DEF Hosts!ImapRight, Hosts!Own, Hosts!Places
<1>3. QED
  BY <1>1, <1>2 DEF ImapIInv, Kept, Until, TornLists

(* The lines of a reply come behind those of all calls before it.          *)
LEMMA LinesCome ==
    ASSUME NEW b, calls \in Nat, Kept(b, calls),
           NEW kinds \in Seq(Tellings), NEW dir \in Dirs \union {NULL},
           NEW k \in 0..Len(kinds), NEW w \in Int
    PROVE  LET c == b \o Hosts!Lines(kinds, dir, k, w) IN
           /\ Kept(c, calls + 1) /\ Len(c) = Len(b) + k
           /\ \A i \in 1..Len(c) :
                 c[i].n > calls => c[i].n = calls + 1 /\ c[i].dir = dir /\ (w = k => ~c[i].torn)
           /\ \A i, j \in 1..Len(c) : i < j /\ c[i].n > calls => c[j].n > calls
<1> DEFINE R == [is : Tellings, dir : Dirs \union {NULL}, n : Nat, torn : BOOLEAN]
           s == Hosts!Lines(kinds, dir, k, w)
           c == b \o s
<1>1. k \in Nat /\ \A i \in 1..k : kinds[i] \in Tellings
  OBVIOUS
<1>2. /\ s = [i \in 1..k |-> [is |-> kinds[i], dir |-> dir, n |-> calls + 1,
                             torn |-> i > w /\ kinds[i] \in {"list", "entry"}]]
  BY DEF Hosts!Lines
<1>3. ASSUME NEW i \in 1..k
      PROVE  /\ s[i] \in R /\ s[i].n = calls + 1 /\ s[i].dir = dir /\ (w = k => ~s[i].torn)
             /\ s[i].torn => s[i].is = "list"
  <2>1. s[i] = [is |-> kinds[i], dir |-> dir, n |-> calls + 1,
                torn |-> i > w /\ kinds[i] \in {"list", "entry"}]
    BY <1>2
  <2>2. kinds[i] \in Tellings
    BY <1>1
  <2> DEFINE q == i > w /\ kinds[i] \in {"list", "entry"}
  <2>3. q \in BOOLEAN /\ (w = k => ~q) /\ (q => kinds[i] = "list")
    BY <1>1, <2>2 DEF Tellings
  <2>4. s[i] = [is |-> kinds[i], dir |-> dir, n |-> calls + 1, torn |-> q]
    BY <2>1
  <2> HIDE DEF s, q
  <2>5. /\ (s[i]).is = kinds[i] /\ (s[i]).n = calls + 1 /\ (s[i]).dir = dir /\ (s[i]).torn = q
    BY <2>4
  <2>6. s[i] \in R
    BY <2>2, <2>3, <2>4
  <2> HIDE DEF R
  <2>7. QED
    BY <2>3, <2>5, <2>6
<1>4. s \in Seq(R) /\ Len(s) = k
  <2> HIDE DEF R
  <2>1. s \in [1..k -> R]
    <3>1. DOMAIN s = 1..k /\ s = [i \in 1..k |-> s[i]]
      BY <1>2
    <3> HIDE DEF s
    <3>2. QED
      BY <1>3, <3>1
  <2> HIDE DEF s
  <2>2. QED
    BY <1>1, <2>1
<1>5. b \in Seq(R)
  BY DEF Kept, Buffers
<1> HIDE DEF R, s
<1>6. c = b \o s
  OBVIOUS
<1> HIDE DEF c
<1>7. /\ c \in Seq(R) /\ Len(c) = Len(b) + k /\ Len(b) \in Nat
      /\ \A i \in 1..Len(c) : c[i] = IF i <= Len(b) THEN b[i] ELSE s[i - Len(b)]
  <2>1. /\ b \o s \in Seq(R) /\ Len(b \o s) = Len(b) + Len(s)
        /\ \A i \in 1..(Len(b) + Len(s)) :
              (b \o s)[i] = IF i <= Len(b) THEN b[i] ELSE s[i - Len(b)]
    BY <1>4, <1>5, ConcatProperties
  <2>2. Len(b) \in Nat
    BY <1>5
  <2>3. QED
    BY ONLY <1>4, <1>6, <2>1, <2>2
<1>8. ASSUME NEW i \in 1..Len(c)
      PROVE  \/ i \in 1..Len(b) /\ c[i] = b[i]
             \/ i > Len(b) /\ i - Len(b) \in 1..k /\ c[i] = s[i - Len(b)]
  BY <1>1, <1>7
<1>9. \A i \in 1..Len(b) : b[i].n \in Nat /\ b[i].n <= calls /\ (b[i].torn => b[i].is = "list")
  BY Buffered DEF Kept, Until, TornLists
<1>10. ASSUME NEW i \in 1..Len(c)
       PROVE  /\ c[i].n <= calls + 1 /\ (c[i].torn => c[i].is = "list")
              /\ c[i].n > calls <=> i > Len(b)
              /\ i > Len(b) => c[i].n = calls + 1 /\ c[i].dir = dir /\ (w = k => ~c[i].torn)
  <2>1. CASE i \in 1..Len(b) /\ c[i] = b[i]
    BY <1>7, <1>9, <2>1
  <2>2. CASE i > Len(b) /\ i - Len(b) \in 1..k /\ c[i] = s[i - Len(b)]
    <3> DEFINE j == i - Len(b)
    <3> HIDE DEF j
    <3>1. j \in 1..k /\ c[i] = s[j]
      BY <2>2 DEF j
    <3>2. QED
      BY <1>3, <2>2, <3>1
  <2>3. QED
    BY <1>8, <2>1, <2>2
<1>11. Kept(c, calls + 1)
  BY <1>7, <1>10 DEF Kept, Until, TornLists, Buffers, R
<1>12. ASSUME NEW i \in 1..Len(c), NEW j \in 1..Len(c), i < j, c[i].n > calls
       PROVE  c[j].n > calls
  BY <1>7, <1>10, <1>12
<1>13. QED
  BY <1>7, <1>10, <1>11, <1>12 DEF c, s

(* The same for a whole reply, and for what came of one.                   *)
LEMMA ReplyComes ==
    ASSUME NEW b, calls \in Nat, Kept(b, calls),
           NEW kinds \in Seq(Tellings), NEW dir \in Dirs \union {NULL}
    PROVE  /\ \A c \in Hosts!Came(b, kinds, dir) : Kept(c, calls + 1)
           /\ LET c == Hosts!All(b, kinds, dir) IN
              /\ Kept(c, calls + 1)
              /\ \A i \in 1..Len(c) :
                    c[i].n > calls => c[i].n = calls + 1 /\ c[i].dir = dir /\ ~c[i].torn
              /\ \A i, j \in 1..Len(c) : i < j /\ c[i].n > calls => c[j].n > calls
<1>1. Len(kinds) \in Int /\ Len(kinds) \in 0..Len(kinds)
  OBVIOUS
<1>2. ASSUME NEW c \in Hosts!Came(b, kinds, dir) PROVE Kept(c, calls + 1)
  <2>1. PICK k \in 0..Len(kinds) :
          c \in {b \o Hosts!Lines(kinds, dir, k, w) : w \in {k - 1, k}}
    BY Zenon DEF Hosts!Came
  <2>2. PICK w \in {k - 1, k} : c = b \o Hosts!Lines(kinds, dir, k, w)
    BY <2>1, Zenon
  <2>3. w \in Int
    BY <2>2
  <2>4. QED
    BY ONLY <2>2, <2>3, LinesCome, Kept(b, calls), calls \in Nat,
            kinds \in Seq(Tellings), dir \in Dirs \union {NULL}, k \in 0..Len(kinds)
<1> DEFINE m == Len(kinds)
           c == b \o Hosts!Lines(kinds, dir, m, m)
<1>3. c = Hosts!All(b, kinds, dir)
  BY DEF Hosts!All
<1>4. m \in 0..Len(kinds) /\ m \in Int
  BY <1>1
<1> HIDE DEF m
<1>5. /\ Kept(c, calls + 1)
      /\ \A i \in 1..Len(c) :
            c[i].n > calls => c[i].n = calls + 1 /\ c[i].dir = dir /\ (m = m => ~c[i].torn)
      /\ \A i, j \in 1..Len(c) : i < j /\ c[i].n > calls => c[j].n > calls
  BY ONLY <1>4, LinesCome, Kept(b, calls), calls \in Nat,
          kinds \in Seq(Tellings), dir \in Dirs \union {NULL}
<1> HIDE DEF c
<1>6. QED
  BY <1>2, <1>3, <1>5

(* A buffer that no call added to is kept by the next one.                 *)
LEMMA BufferRests ==
    ASSUME NEW b, NEW now \in Nat, Kept(b, now)
    PROVE  Kept(b, now + 1)
BY Buffered DEF Kept, Until

LEMMA Replies ==
    /\ <<>> \in Seq(Tellings) /\ <<"list", "list">> \in Seq(Tellings)
    /\ <<"head", "flags">> \in Seq(Tellings)
    /\ Hosts!Statuses \subseteq Seq(Tellings)
BY DEF Tellings, Hosts!Statuses

LEMMA ImapLsKeeps == ASSUME ImapIInv, Hosts!ImapLs PROVE ImapIInv'
<1> DEFINE dir == IF custom = NULL THEN NULL ELSE custom[2]
<1>1. /\ kind = "imap" /\ calls' = calls + 1 /\ did' \in {"ls", "crashed"}
      /\ UNCHANGED <<kind, url, custom, cut>>
  BY DEF Hosts!ImapLs, Hosts!Perform
<1>2. PICK lists \in Hosts!BodyOf(custom), mails \in Hosts!HeaderOf(custom, url) :
        \/ /\ answer' = NULL
           /\ body' \in Hosts!Came(body, lists, dir) /\ header' \in Hosts!Came(header, mails, dir)
        \/ /\ body' = Hosts!All(body, lists, dir) /\ header' = Hosts!All(header, mails, dir)
           /\ answer' \in Hosts!Listed(body', "list")
  BY DEF Hosts!ImapLs, Hosts!Fails
<1>3. /\ calls \in Nat /\ Kept(body, calls) /\ Kept(header, calls) /\ custom \in Commands
      /\ url \in Dirs \union {"server"}
  BY <1>1 DEF ImapIInv
<1>4. lists \in Seq(Tellings) /\ mails \in Seq(Tellings) /\ dir \in Dirs \union {NULL}
  <2>1. lists \in {<<>>, <<"list", "list">>} \union Hosts!Statuses
    BY DEF Hosts!BodyOf
  <2>2. mails \in {<<>>, <<"head", "flags">>}
    BY DEF Hosts!HeaderOf
  <2>3. dir \in Dirs \union {NULL}
    BY <1>3 DEF Commands, InMailbox
  <2> HIDE DEF dir
  <2>4. QED
    BY <2>1, <2>2, <2>3, Replies
<1> HIDE DEF dir
<1>5. Kept(body', calls + 1) /\ Kept(header', calls + 1)
  BY <1>1, <1>2, <1>3, <1>4, ReplyComes
<1>6. ASSUME answer' # NULL, Hosts!Own(body, "list")'
      PROVE  answer' = Hosts!Places(body', "list", 0)
  <2>1. /\ body' = Hosts!All(body, lists, dir) /\ answer' \in Hosts!Listed(body', "list")
    BY <1>2, <1>6
  <2>2. \A i \in 1..Len(body') : (body'[i]).n > calls => ~(body'[i]).torn
    BY <1>1, <1>3, <1>4, <2>1, ReplyComes
  <2>3. /\ DOMAIN body' = 1..Len(body') /\ Len(body') \in Nat
        /\ \A i \in 1..Len(body') : (body'[i]).torn => (body'[i]).is = "list"
    BY <1>5, Buffered DEF Kept, TornLists
  <2>4. \A i \in 1..Len(body') : (body'[i]).is = "list" => (body'[i]).n = calls + 1
    BY <1>1, <1>6, <2>3 DEF Hosts!Own, Hosts!Places
  <2>5. \A i \in 1..Len(body') : ~(body'[i]).torn
    BY <1>3, <2>2, <2>3, <2>4
  <2>6. ~Hosts!Torn(body')
    BY <2>3, <2>5 DEF Hosts!Torn
  <2>7. answer' = {i \in Hosts!Places(body', "list", 0) : i = 1 \/ ~(body'[i - 1]).torn}
    BY <2>1, <2>6 DEF Hosts!Listed
  <2>8. \A i \in Hosts!Places(body', "list", 0) : i = 1 \/ i - 1 \in 1..Len(body')
    BY <2>3 DEF Hosts!Places
  <2>9. QED
    BY <2>5, <2>7, <2>8
<1>7. Hosts!ImapRight'
  BY <1>1, <1>3, <1>6 DEF ImapIInv, Hosts!ImapRight
<1>8. QED
  BY <1>1, <1>3, <1>5, <1>7 DEF ImapIInv

LEMMA ExamineKeeps ==
    ASSUME ImapIInv, NEW dir \in Dirs, Hosts!Examine(dir)
    PROVE  ImapIInv'
<1> DEFINE c == <<"EXAMINE", dir>>
<1>1. /\ kind = "imap" /\ calls' = calls + 1 /\ did' = "examine" /\ meant' = dir
      /\ UNCHANGED <<kind, url, header, cut>> /\ custom' = c
      /\ request' = [request |-> c, url |-> url]
  BY DEF Hosts!Examine, Hosts!Perform, Hosts!imap
<1>2. PICK s \in Hosts!Statuses :
        \/ answer' = NULL /\ body' \in Hosts!Came(body, s, dir)
        \/ body' = Hosts!All(body, s, dir) /\ answer' = Hosts!Examined(body')
  BY DEF Hosts!Examine, Hosts!Fails
<1>3. /\ calls \in Nat /\ Kept(body, calls) /\ Kept(header, calls)
      /\ url \in Dirs \union {"server"}
  BY <1>1 DEF ImapIInv
<1>4. c \in InMailbox /\ c[1] = "EXAMINE" /\ s \in Seq(Tellings) /\ dir \in Dirs \union {NULL}
  BY Replies DEF InMailbox
<1>5. Kept(body', calls + 1) /\ Kept(header', calls + 1)
  BY <1>1, <1>2, <1>3, <1>4, ReplyComes, BufferRests
<1>6. ASSUME answer' # NULL, Hosts!Own(body, "exists")'
      PROVE  \A l \in {(answer').exists, (answer').recent, (answer').unseen} :
                 l.n = calls + 1 /\ l.dir = dir
  <2> DEFINE e == Hosts!Min(Hosts!Places(body', "exists", 0))
             r == Hosts!Min(Hosts!Places(body', "recent", e))
             u == Hosts!Min(Hosts!Places(body', "unseen", r))
  <2>1. body' = Hosts!All(body, s, dir) /\ answer' = Hosts!Examined(body')
    BY <1>2, <1>6
  <2>2. /\ \A i \in 1..Len(body') :
              (body'[i]).n > calls => (body'[i]).n = calls + 1 /\ (body'[i]).dir = dir
        /\ \A i, j \in 1..Len(body') : i < j /\ (body'[i]).n > calls => (body'[j]).n > calls
    <3> DEFINE b == Hosts!All(body, s, dir)
    <3>1. /\ \A i \in 1..Len(b) :
                b[i].n > calls => b[i].n = calls + 1 /\ b[i].dir = dir /\ ~b[i].torn
          /\ \A i, j \in 1..Len(b) : i < j /\ b[i].n > calls => b[j].n > calls
      BY <1>3, <1>4, ReplyComes, Zenon
    <3>2. body' = b
      BY <2>1
    <3> HIDE DEF b
    <3> QED BY <3>1, <3>2
  <2>3. /\ Hosts!Places(body', "exists", 0) # {} /\ Hosts!Places(body', "recent", e) # {}
        /\ Hosts!Places(body', "unseen", r) # {}
        /\ answer' = [exists |-> body'[e], recent |-> body'[r], unseen |-> body'[u]]
    BY <1>6, <2>1 DEF Hosts!Examined
  <2> HIDE DEF e, r, u
  <2>4. body' \in Buffers
    BY <1>5 DEF Kept
  <2>5. e \in 1..Len(body') /\ (body'[e]).is = "exists" /\ e > 0
    BY <2>3, <2>4, PlaceFound DEF e
  <2>6. r \in 1..Len(body') /\ r > e
    BY <2>3, <2>4, <2>5, PlaceFound DEF r
  <2>7. u \in 1..Len(body') /\ u > r
    BY <2>3, <2>4, <2>6, PlaceFound DEF u
  <2>8. (body'[e]).n = calls + 1
    BY <1>1, <1>6, <2>4, <2>5, Buffered DEF Hosts!Own, Hosts!Places
  <2>9. (body'[e]).n > calls
    BY <1>3, <2>8
  <2>10. (body'[r]).n > calls
    BY <2>2, <2>5, <2>6, <2>9
  <2>11. (body'[u]).n > calls
    BY <2>2, <2>6, <2>7, <2>10
  <2>12. QED
    BY <2>2, <2>3, <2>5, <2>6, <2>7, <2>9, <2>10, <2>11
<1>7. Hosts!ImapRight'
  <2>1. url \in Dirs \/ url = "server"
    BY <1>3
  <2>2. QED
    BY <1>1, <1>4, <1>6, <2>1 DEF Hosts!ImapRight
<1>8. custom' \in InMailbox /\ custom' \in Commands
  BY <1>1, <1>4 DEF Commands
<1>9. QED
  BY <1>1, <1>3, <1>5, <1>7, <1>8 DEF ImapIInv

(* A mail behind no other is of the fetch that finds it, and so is its end.*)
LEMMA FetchKeeps ==
    ASSUME ImapIInv, NEW dir \in Dirs, Hosts!Fetch(dir)
    PROVE  ImapIInv'
<1> DEFINE c == <<"FETCH", dir>>
<1>1. PICK fails \in BOOLEAN, mails \in {<<>>, <<"head", "flags">>} :
        /\ url' = Hosts!Restored(fails, dir) /\ Hosts!Handled("fetch", dir)
        /\ IF fails THEN answer' = NULL /\ header' \in Hosts!Came(header, mails, dir)
           ELSE /\ header' = Hosts!All(header, mails, dir)
                /\ answer' \in {NULL, Hosts!Mail(header')}
  <2>1. PICK fails \in BOOLEAN, mails \in {<<>>, <<"head", "flags">>} :
          /\ url' = Hosts!Restored(fails, dir) /\ Hosts!Handled("fetch", dir)
          /\ IF fails THEN answer' = NULL /\ header' \in Hosts!Came(header, mails, dir)
             ELSE /\ header' = Hosts!All(header, mails, dir)
                  /\ answer' = NULL \/ answer' \in {NULL, Hosts!Mail(header')}
    BY DEF Hosts!Fetch, Hosts!Fails
  <2>2. QED
    BY <2>1
<1>2. /\ kind = "imap" /\ calls' = calls + 1 /\ did' = "fetch" /\ meant' = dir
      /\ UNCHANGED <<kind, body>> /\ custom' = c
      /\ url' = IF fails THEN dir ELSE "server"
      /\ request' = [request |-> c, url |-> dir]
  BY <1>1 DEF Hosts!Fetch, Hosts!Handled, Hosts!Restored
<1>3. calls \in Nat /\ Kept(body, calls) /\ Kept(header, calls)
  BY <1>2 DEF ImapIInv
<1>4. /\ c \in InMailbox /\ c \in Commands /\ c[2] = dir
      /\ mails \in Seq(Tellings) /\ dir \in Dirs \union {NULL}
  BY Replies DEF Commands, InMailbox
<1>5. Kept(body', calls + 1) /\ Kept(header', calls + 1)
  BY <1>1, <1>2, <1>3, <1>4, ReplyComes, BufferRests
<1>6. ASSUME answer' # NULL, Hosts!Own(header, "head")'
      PROVE  \A l \in {(answer').from, (answer').to} : l.n = calls + 1 /\ l.dir = dir
  <2> DEFINE h == Hosts!Min(Hosts!Places(header', "head", 0))
             f == Hosts!Min(Hosts!Places(header', "flags", h))
  <2>1. ~fails /\ header' = Hosts!All(header, mails, dir) /\ answer' = Hosts!Mail(header')
    BY <1>1, <1>6
  <2>2. /\ \A i \in 1..Len(header') :
              (header'[i]).n > calls => (header'[i]).n = calls + 1 /\ (header'[i]).dir = dir
        /\ \A i, j \in 1..Len(header') :
              i < j /\ (header'[i]).n > calls => (header'[j]).n > calls
    BY <1>2, <1>3, <1>4, <2>1, ReplyComes
  <2>3. /\ Hosts!Places(header', "head", 0) # {} /\ Hosts!Places(header', "flags", h) # {}
        /\ answer' = [from |-> header'[h], to |-> header'[f]]
    BY <1>6, <2>1 DEF Hosts!Mail
  <2> HIDE DEF h, f
  <2>4. header' \in Buffers
    BY <1>5 DEF Kept
  <2>5. h \in 1..Len(header') /\ (header'[h]).is = "head" /\ h > 0
    BY <2>3, <2>4, PlaceFound DEF h
  <2>6. f \in 1..Len(header') /\ f > h
    BY <2>3, <2>4, <2>5, PlaceFound DEF f
  <2>7. (header'[h]).n = calls + 1
    BY <1>2, <1>6, <2>4, <2>5, Buffered DEF Hosts!Own, Hosts!Places
  <2>8. (header'[h]).n > calls
    BY <1>3, <2>7
  <2>9. (header'[f]).n > calls
    BY <2>2, <2>5, <2>6, <2>8
  <2>10. QED
    BY <2>2, <2>3, <2>5, <2>6, <2>8, <2>9
<1>7. answer' # NULL => url' = "server"
  BY <1>1, <1>2
<1>8. Hosts!ImapRight'
  BY <1>2, <1>4, <1>6, <1>7 DEF Hosts!ImapRight
<1>9. QED
  BY <1>2, <1>3, <1>4, <1>5, <1>8 DEF ImapIInv

LEMMA FlagsKeeps ==
    ASSUME ImapIInv, NEW dir \in Dirs, Hosts!Flags(dir)
    PROVE  ImapIInv'
<1> DEFINE c == <<"STORE", dir>>
<1>1. PICK fails \in BOOLEAN :
        /\ url' = Hosts!Restored(fails, dir) /\ Hosts!Handled("flags", dir)
        /\ answer' = IF fails THEN NULL ELSE "ok"
  BY DEF Hosts!Flags
<1>2. /\ kind = "imap" /\ calls' = calls + 1 /\ did' = "flags" /\ meant' = dir
      /\ UNCHANGED <<kind, body, header, cut>> /\ custom' = c
      /\ url' = IF fails THEN dir ELSE "server"
      /\ request' = [request |-> c, url |-> dir]
  BY <1>1 DEF Hosts!Flags, Hosts!Handled, Hosts!Restored, Hosts!imap
<1>3. calls \in Nat /\ Kept(body, calls) /\ Kept(header, calls)
  BY <1>2 DEF ImapIInv
<1>4. c \in InMailbox /\ c \in Commands /\ c[2] = dir
  BY DEF Commands, InMailbox
<1>5. Kept(body', calls + 1) /\ Kept(header', calls + 1)
  BY <1>2, <1>3, BufferRests
<1>6. Hosts!ImapRight'
  BY <1>1, <1>2, <1>4 DEF Hosts!ImapRight
<1>7. QED
  BY <1>2, <1>3, <1>4, <1>5, <1>6 DEF ImapIInv

LEMMA ImapKeeps == ASSUME ImapIInv, Hosts!Next PROVE ImapIInv'
<1>1. CASE Hosts!ImapLs
  BY <1>1, ImapLsKeeps
<1>2. CASE \E dir \in Dirs : Hosts!Examine(dir) \/ Hosts!Fetch(dir) \/ Hosts!Flags(dir)
  BY <1>2, ExamineKeeps, FetchKeeps, FlagsKeeps
<1>3. CASE kind' = "ftp"
  BY <1>3 DEF ImapIInv
<1>4. CASE Hosts!FtpList \/ Hosts!Rename
  BY <1>3, <1>4 DEF Hosts!FtpList, Hosts!Rename, Hosts!Perform
<1>5. CASE \E p \in Paths : Hosts!Cd(p) \/ Hosts!Download(p) \/ Hosts!Upload(p)
  BY <1>3, <1>5 DEF Hosts!Cd, Hosts!Download, Hosts!Upload, Hosts!Perform
<1>6. CASE \E p \in Paths, c \in {"DELETE", "MKD", "RMD"} : Hosts!Change(c, p)
  BY <1>3, <1>6 DEF Hosts!Change, Hosts!Perform
<1>7. QED
  BY <1>1, <1>2, <1>4, <1>5, <1>6 DEF Hosts!Next

-----------------------------------------------------------------------------
(* Child processes.                                                        *)
Pieces == Seq(Nat)
ChildTypes ==
    /\ nozombie \in BOOLEAN /\ torn \in BOOLEAN
    /\ pc \in {"start", "out", "err", "wait", "returned", "watching"}
    /\ proc \in [{"child", "back", "helper"} -> {"none", "running", "zombie", "gone"}]
    /\ status \in [{"child", "back", "helper"} -> Int]
    /\ todo \in [{"child", "back", "helper"} -> Seq({"out", "err"})]
    /\ pipe \in [{"out", "err"} -> Pieces] /\ wrote \in [{"out", "err"} -> Pieces]
    /\ buf \in Pieces /\ whole \in Nat /\ part \in Nat
    /\ slurped \in [{"out", "err"} -> Pieces \union {NULL}]
    /\ first \in Nat /\ word \in Int /\ ret \in Int \union {NULL}

(* The text of what was written.                                           *)
TextOf(w) == IF w = <<>> THEN NULL ELSE w

(* What was read fills whole chunks and a part of one.                     *)
Filled == Len(buf) = whole + part /\ part < Chunk

(* What was written is in the pipe, the buffer or the text.                *)
Carried ==
    /\ pc = "start" => ~torn /\ buf = <<>> /\ \A e \in {"out", "err"} : wrote[e] = pipe[e]
    /\ pc = "out" => ~torn /\ wrote["out"] = buf \o pipe["out"] /\ wrote["err"] = pipe["err"]
    /\ pc = "err" /\ ~torn => wrote["err"] = buf \o pipe["err"]
    /\ (pc \in {"err", "wait"} \/ (pc = "returned" /\ ret = 0)) /\ ~torn =>
           slurped["out"] = TextOf(wrote["out"])
           /\ proc["child"] # "running" /\ proc["back"] # "running"
    /\ (pc = "wait" \/ (pc = "returned" /\ ret = 0)) /\ ~torn =>
           slurped["err"] = TextOf(wrote["err"])

(* The child of a slurp is there until it is waited for; its end is known. *)
Waited ==
    /\ pc = "start" => proc["child"] = "none" /\ proc["back"] = "none" /\ proc["helper"] = "none"
                       /\ ret = NULL /\ ~told
    /\ pc \in {"start", "out", "err", "wait"} => word = first
    /\ pc \in {"out", "err", "wait"} => proc["child"] \in {"running", Kids!EndedAs}
    /\ pc = "returned" /\ ret = 0 =>
           word = (IF nozombie THEN first ELSE Kids!Decode(status["child"]))
           /\ proc["child"] = "gone"
    /\ todo["helper"] = <<>>

(* The helper ends after the child; the word is not 0 before.              *)
Watched == pc = "watching" =>
    /\ proc["helper"] \in {"zombie", "gone"} => proc["child"] # "running"
    /\ told => proc["helper"] \in {"zombie", "gone"}
    /\ first # 0 /\ proc["child"] = "running" => word # 0 /\ ret # 1
    /\ first # 0 /\ ret = 1 => proc["child"] = "gone" /\ word = status["child"]

ChildIInv == ChildTypes /\ Filled /\ Carried /\ Waited /\ Watched

LEMMA ChildrenRight == ChildIInv => Kids!ChildrenHold
<1> SUFFICES ASSUME ChildIInv PROVE Kids!ChildrenHold
  OBVIOUS
<1>1. Kids!SlurpRight
  BY DEF ChildIInv, Carried, Waited, TextOf, Kids!SlurpRight, Kids!Pipes
<1>2. Kids!WatchRight
  BY DEF ChildIInv, Watched, Kids!WatchRight, Kids!Over
<1>3. QED
  BY <1>1, <1>2 DEF Kids!ChildrenHold

LEMMA ChildrenStart == Kids!Init => ChildIInv
<1> SUFFICES ASSUME Kids!Init PROVE ChildIInv
  OBVIOUS
<1>1. /\ nozombie \in BOOLEAN /\ pc = "start" /\ buf = <<>> /\ whole = 0 /\ part = 0
      /\ torn = FALSE /\ first \in Nat /\ word = first /\ ret = NULL /\ told = FALSE
  BY ChildAssumption DEF Kids!Init
<1>2. /\ proc = [p \in {"child", "back", "helper"} |-> "none"]
      /\ status = [p \in {"child", "back", "helper"} |-> 0]
      /\ todo = [p \in {"child", "back", "helper"} |-> <<>>]
      /\ pipe = [e \in {"out", "err"} |-> <<>>] /\ wrote = [e \in {"out", "err"} |-> <<>>]
      /\ slurped = [e \in {"out", "err"} |-> NULL]
  BY DEF Kids!Init, Kids!Procs, Kids!Pipes
<1>3. ChildTypes
  <2>1. <<>> \in Pieces /\ <<>> \in Seq({"out", "err"})
    BY DEF Pieces
  <2>2. /\ proc \in [{"child", "back", "helper"} -> {"none", "running", "zombie", "gone"}]
        /\ status \in [{"child", "back", "helper"} -> Int]
    BY <1>2
  <2>3. todo \in [{"child", "back", "helper"} -> Seq({"out", "err"})]
    BY <1>2, <2>1
  <2>4. pipe \in [{"out", "err"} -> Pieces] /\ wrote \in [{"out", "err"} -> Pieces]
    BY <1>2, <2>1
  <2>5. slurped \in [{"out", "err"} -> Pieces \union {NULL}]
    BY <1>2
  <2>6. /\ torn \in BOOLEAN /\ whole \in Nat /\ part \in Nat /\ word \in Int
        /\ ret \in Int \union {NULL} /\ buf \in Pieces
        /\ pc \in {"start", "out", "err", "wait", "returned", "watching"}
    <3>1. 0 \in Nat /\ first \in Int
      BY <1>1
    <3>2. QED
      BY ONLY <1>1, <2>1, <3>1, Zenon
  <2>7. QED
    BY ONLY <1>1, <2>2, <2>3, <2>4, <2>5, <2>6 DEF ChildTypes
<1>4. Filled
  BY <1>1, ChildAssumption DEF Filled
<1>5. Carried
  BY <1>1, <1>2 DEF Carried
<1>6. Waited
  BY <1>1, <1>2 DEF Waited
<1>7. Watched
  BY <1>1 DEF Watched
<1>8. QED
  BY <1>3, <1>4, <1>5, <1>6, <1>7 DEF ChildIInv

LEMMA ChildrenRest == ASSUME ChildIInv, UNCHANGED spawned PROVE ChildIInv'
<1>1. UNCHANGED <<nozombie, pc, proc, status, todo, pipe, wrote, buf, whole, part, slurped, torn,
                  first, word, ret, told>>
  BY DEF spawned
<1>2. ChildTypes' /\ Filled' /\ Carried'
  BY <1>1 DEF ChildIInv, ChildTypes, Filled, Carried
<1>3. Waited' /\ Watched'
  BY <1>1 DEF ChildIInv, Waited, Watched, Kids!EndedAs
<1>4. QED
  BY <1>2, <1>3 DEF ChildIInv

LEMMA Smaller ==
    ASSUME NEW a \in Int, NEW b \in Int
    PROVE  Kids!Min({a, b}) \in Int /\ Kids!Min({a, b}) <= a /\ Kids!Min({a, b}) <= b
<1>1. \E x \in {a, b} : \A y \in {a, b} : x <= y
  OBVIOUS
<1>2. Kids!Min({a, b}) \in {a, b} /\ \A y \in {a, b} : Kids!Min({a, b}) <= y
  BY <1>1 DEF Kids!Min
<1>3. QED
  BY <1>2

LEMMA ChunkFilled ==
    ASSUME NEW k \in 1..Chunk
    PROVE  k % Chunk = IF k = Chunk THEN 0 ELSE k
BY ChildAssumption

LEMMA Regrouped ==
    ASSUME NEW s \in Seq(Nat), NEW t \in Seq(Nat), NEW u \in Seq(Nat)
    PROVE  (s \o t) \o u = s \o (t \o u)
BY ConcatAssociative, SMTT(60)

LEMMA Behind ==
    ASSUME NEW s \in Pieces, NEW t \in Pieces, NEW x \in Nat
    PROVE  Append(s \o t, x) = s \o Append(t, x)
<1>1. <<x>> \in Seq(Nat) /\ s \in Seq(Nat) /\ t \in Seq(Nat)
  BY DEF Pieces
<1>2. s \o t \in Seq(Nat)
  BY <1>1, ConcatProperties
<1>3. Append(s \o t, x) = (s \o t) \o <<x>>
  BY ONLY <1>2, x \in Nat, AppendIsConcat
<1>4. Append(t, x) = t \o <<x>>
  BY ONLY <1>1, x \in Nat, AppendIsConcat
<1>5. (s \o t) \o <<x>> = s \o (t \o <<x>>)
  BY ONLY <1>1, ConcatAssociative, SMTT(30)
<1>6. QED
  BY <1>3, <1>4, <1>5

(* The system: processes write and end.                                    *)
LEMMA WriteKeeps ==
    ASSUME ChildIInv, NEW p \in {"child", "back", "helper"}, Kids!Write(p)
    PROVE  ChildIInv'
<1> DEFINE e == Head(todo[p])
           x == Len(wrote[e]) + 1
<1>1. UNCHANGED <<nozombie, pc, proc, status, buf, whole, part, slurped, torn, first, word, ret,
                  told>>
  BY DEF Kids!Write, Kids!answers
<1>2. /\ proc[p] = "running" /\ todo[p] # <<>> /\ pc # "returned"
      /\ pipe' = [pipe EXCEPT ![e] = Append(pipe[e], x)]
      /\ wrote' = [wrote EXCEPT ![e] = Append(wrote[e], x)]
      /\ todo' = [todo EXCEPT ![p] = Tail(todo[p])]
  BY DEF Kids!Write, Kids!Running
<1>3. ChildTypes
  BY DEF ChildIInv
<1>4. p # "helper"
  BY <1>2 DEF ChildIInv, Waited
<1>5. e \in {"out", "err"} /\ Tail(todo[p]) \in Seq({"out", "err"})
  <2>1. todo[p] \in Seq({"out", "err"})
    BY <1>3 DEF ChildTypes
  <2>2. QED
    BY <1>2, <2>1, HeadTailProperties
<1> HIDE DEF e
<1>6. wrote[e] \in Pieces /\ pipe[e] \in Pieces /\ x \in Nat
  <2>1. wrote[e] \in Pieces /\ pipe[e] \in Pieces
    BY <1>3, <1>5 DEF ChildTypes
  <2>2. QED
    BY <2>1, LenProperties DEF Pieces
<1> HIDE DEF x
<1>7. Append(wrote[e], x) \in Pieces /\ Append(pipe[e], x) \in Pieces
  BY <1>6, AppendProperties DEF Pieces
<1>8. ChildTypes'
  <2>1. todo' \in [{"child", "back", "helper"} -> Seq({"out", "err"})]
    BY <1>2, <1>3, <1>5 DEF ChildTypes
  <2>2. pipe' \in [{"out", "err"} -> Pieces] /\ wrote' \in [{"out", "err"} -> Pieces]
    BY <1>2, <1>3, <1>5, <1>7 DEF ChildTypes
  <2>3. QED
    BY <1>1, <1>3, <2>1, <2>2 DEF ChildTypes
<1>9. /\ pipe'[e] = Append(pipe[e], x) /\ wrote'[e] = Append(wrote[e], x)
      /\ \A d \in {"out", "err"} : d # e => pipe'[d] = pipe[d] /\ wrote'[d] = wrote[d]
  BY <1>2, <1>3, <1>5 DEF ChildTypes
<1>10. Carried'
  <2>0. Carried /\ Waited
    BY DEF ChildIInv
  <2>1. CASE pc = "start"
    <3>1. proc["child"] = "none" /\ proc["back"] = "none"
      BY <2>0, <2>1 DEF Waited
    <3>2. QED
      BY <1>2, <1>4, <3>1
  <2>2. CASE pc = "out"
    <3>1. ~torn /\ wrote["out"] = buf \o pipe["out"] /\ wrote["err"] = pipe["err"]
      BY <2>0, <2>2 DEF Carried
    <3>2. buf \in Pieces /\ pipe["out"] \in Pieces
      BY <1>3 DEF ChildTypes
    <3>3. Append(buf \o pipe["out"], x) = buf \o Append(pipe["out"], x)
      BY ONLY <1>6, <3>2, Behind
    <3>4. wrote'["out"] = buf \o pipe'["out"] /\ wrote'["err"] = pipe'["err"]
      <4>1. CASE e = "out"
        BY <1>9, <3>1, <3>3, <4>1
      <4>2. CASE e = "err"
        BY <1>9, <3>1, <4>2
      <4>3. QED
        BY <1>5, <4>1, <4>2
    <3>5. QED
      BY <1>1, <2>2, <3>1, <3>4 DEF Carried
  <2>3. CASE pc \in {"err", "wait"}
    <3>1. torn
      <4>1. ~torn => proc["child"] # "running" /\ proc["back"] # "running"
        BY <2>0, <2>3 DEF Carried
      <4>2. p = "child" \/ p = "back"
        BY <1>4
      <4>3. QED
        BY <1>2, <4>1, <4>2
    <3>2. QED
      BY <1>1, <2>3, <3>1 DEF Carried
  <2>4. CASE pc = "watching"
    BY <1>1, <2>4 DEF Carried
  <2>5. QED
    BY <1>2, <1>3, <2>1, <2>2, <2>3, <2>4 DEF ChildTypes
<1>11. Waited'
  <2>1. todo'["helper"] = todo["helper"]
    BY <1>2, <1>3, <1>4 DEF ChildTypes
  <2>2. QED
    BY <1>1, <2>1 DEF ChildIInv, Waited, Kids!EndedAs
<1>12. Filled' /\ Watched'
  BY <1>1 DEF ChildIInv, Filled, Watched
<1>13. QED
  BY <1>8, <1>10, <1>11, <1>12 DEF ChildIInv

LEMMA LeavesBehindKeeps == ASSUME ChildIInv, Kids!LeavesBehind PROVE ChildIInv'
<1>1. UNCHANGED <<nozombie, pc, status, pipe, wrote, buf, whole, part, slurped, torn, first, word,
                  ret, told>>
  BY DEF Kids!LeavesBehind, Kids!answers, Kids!slurping
<1>2. /\ proc["child"] = "running" /\ proc' = [proc EXCEPT !["back"] = "running"]
      /\ todo' = [todo EXCEPT !["back"] = todo["child"], !["child"] = <<>>]
  BY DEF Kids!LeavesBehind, Kids!Running
<1>3. ChildTypes
  BY DEF ChildIInv
<1>4. /\ proc' \in [{"child", "back", "helper"} -> {"none", "running", "zombie", "gone"}]
      /\ proc'["child"] = "running" /\ proc'["helper"] = proc["helper"]
  BY <1>2, <1>3 DEF ChildTypes
<1>5. todo' \in [{"child", "back", "helper"} -> Seq({"out", "err"})]
      /\ todo'["helper"] = todo["helper"]
  <2>1. <<>> \in Seq({"out", "err"})
    OBVIOUS
  <2>2. QED
    BY <1>2, <1>3, <2>1 DEF ChildTypes
<1>6. ChildTypes'
  BY <1>1, <1>3, <1>4, <1>5 DEF ChildTypes
<1>7. Carried'
  BY <1>1, <1>2 DEF ChildIInv, Carried, Waited
<1>8. Waited'
  BY <1>1, <1>2, <1>4, <1>5 DEF ChildIInv, Waited, Kids!EndedAs
<1>9. Watched'
  BY <1>1, <1>2, <1>4 DEF ChildIInv, Watched
<1>10. Filled'
  BY <1>1 DEF ChildIInv, Filled
<1>11. QED
  BY <1>6, <1>7, <1>8, <1>9, <1>10 DEF ChildIInv

LEMMA ExitKeeps ==
    ASSUME ChildIInv, NEW p \in {"child", "back", "helper"}, Kids!Exit(p)
    PROVE  ChildIInv'
<1>1. UNCHANGED <<nozombie, pc, todo, pipe, wrote, buf, whole, part, slurped, torn, first, word,
                  ret, told>>
  BY DEF Kids!Exit, Kids!answers, Kids!slurping
<1>2. /\ p # "helper" /\ proc[p] = "running"
      /\ proc' = [proc EXCEPT ![p] = IF p = "child" THEN Kids!EndedAs ELSE "gone"]
  BY DEF Kids!Exit, Kids!Running
<1>3. PICK c \in Codes : status' = [status EXCEPT ![p] = c]
  BY DEF Kids!Exit
<1>4. ChildTypes /\ c \in Int
  BY ChildAssumption DEF ChildIInv
<1>5. Kids!EndedAs \in {"zombie", "gone"}
  BY DEF Kids!EndedAs
<1>6. /\ proc' \in [{"child", "back", "helper"} -> {"none", "running", "zombie", "gone"}]
      /\ proc'["helper"] = proc["helper"]
      /\ proc'["child"] = IF p = "child" THEN Kids!EndedAs ELSE proc["child"]
      /\ proc'["back"] = IF p = "back" THEN "gone" ELSE proc["back"]
  BY <1>2, <1>4, <1>5 DEF ChildTypes
<1>7. status' \in [{"child", "back", "helper"} -> Int]
      /\ (p # "child" => status'["child"] = status["child"])
  BY <1>3, <1>4 DEF ChildTypes
<1>8. ChildTypes'
  BY <1>1, <1>4, <1>6, <1>7 DEF ChildTypes
<1>9. Carried'
  BY <1>1, <1>2, <1>5, <1>6 DEF ChildIInv, Carried
<1>10. Waited'
  <2>1. Kids!EndedAs' = Kids!EndedAs
    BY <1>1 DEF Kids!EndedAs
  <2>2. Waited
    BY DEF ChildIInv
  <2>3. pc # "start"
    BY <1>2, <2>2 DEF Waited
  <2>4. pc = "returned" /\ ret = 0 => p # "child"
    BY <1>2, <2>2 DEF Waited
  <2>5. QED
    BY <1>1, <1>5, <1>6, <1>7, <2>1, <2>2, <2>3, <2>4 DEF Waited, Kids!Decode, Kids!Killed
<1>11. Watched'
  BY <1>1, <1>2, <1>5, <1>6, <1>7 DEF ChildIInv, Watched
<1>12. Filled'
  BY <1>1 DEF ChildIInv, Filled
<1>13. QED
  BY <1>8, <1>9, <1>10, <1>11, <1>12 DEF ChildIInv

LEMMA KillKeeps == ASSUME ChildIInv, Kids!Kill PROVE ChildIInv'
<1>1. UNCHANGED <<nozombie, pc, pipe, wrote, buf, whole, part, slurped, torn, first, word, ret,
                  told>>
  BY DEF Kids!Kill, Kids!answers, Kids!slurping
<1>2. /\ proc["child"] = "running" /\ proc' = [proc EXCEPT !["child"] = Kids!EndedAs]
      /\ status' = [status EXCEPT !["child"] = -1] /\ todo' = [todo EXCEPT !["child"] = <<>>]
  BY DEF Kids!Kill, Kids!Running, Kids!Killed
<1>3. ChildTypes
  BY DEF ChildIInv
<1>4. Kids!EndedAs \in {"zombie", "gone"}
  BY DEF Kids!EndedAs
<1>5. /\ proc' \in [{"child", "back", "helper"} -> {"none", "running", "zombie", "gone"}]
      /\ proc'["helper"] = proc["helper"] /\ proc'["child"] = Kids!EndedAs
      /\ proc'["back"] = proc["back"]
  BY <1>2, <1>3, <1>4 DEF ChildTypes
<1>6. status' \in [{"child", "back", "helper"} -> Int]
  BY <1>2, <1>3 DEF ChildTypes
<1>7. todo' \in [{"child", "back", "helper"} -> Seq({"out", "err"})]
      /\ todo'["helper"] = todo["helper"]
  <2>1. <<>> \in Seq({"out", "err"})
    OBVIOUS
  <2>2. QED
    BY <1>2, <1>3, <2>1 DEF ChildTypes
<1>8. ChildTypes'
  BY <1>1, <1>3, <1>5, <1>6, <1>7 DEF ChildTypes
<1>9. Carried'
  BY <1>1, <1>2, <1>4, <1>5 DEF ChildIInv, Carried
<1>10. Waited'
  <2>1. Kids!EndedAs' = Kids!EndedAs
    BY <1>1 DEF Kids!EndedAs
  <2>2. Waited
    BY DEF ChildIInv
  <2>3. pc # "start" /\ ~(pc = "returned" /\ ret = 0)
    BY <1>2, <2>2 DEF Waited
  <2>4. QED
    BY <1>1, <1>5, <1>7, <2>1, <2>2, <2>3 DEF Waited
<1>11. Watched'
  BY <1>1, <1>2, <1>4, <1>5 DEF ChildIInv, Watched
<1>12. Filled'
  BY <1>1 DEF ChildIInv, Filled
<1>13. QED
  BY <1>8, <1>9, <1>10, <1>11, <1>12 DEF ChildIInv

(* The program slurps.                                                     *)
LEMMA SlurpShellKeeps ==
    ASSUME ChildIInv, NEW script \in Scripts, Kids!SlurpShell(script)
    PROVE  ChildIInv'
<1>1. UNCHANGED <<nozombie, status, pipe, wrote, buf, whole, part, slurped, torn, first, word, ret,
                  told>>
  BY DEF Kids!SlurpShell, Kids!answers, Kids!slurping
<1>2. /\ pc = "start" /\ pc' = "out" /\ proc' = [proc EXCEPT !["child"] = "running"]
      /\ todo' = [todo EXCEPT !["child"] = script]
  BY DEF Kids!SlurpShell
<1>3. ChildTypes /\ script \in Seq({"out", "err"})
  BY ChildAssumption DEF ChildIInv
<1>4. /\ proc' \in [{"child", "back", "helper"} -> {"none", "running", "zombie", "gone"}]
      /\ proc'["child"] = "running"
  BY <1>2, <1>3 DEF ChildTypes
<1>5. todo' \in [{"child", "back", "helper"} -> Seq({"out", "err"})]
      /\ todo'["helper"] = todo["helper"]
  BY <1>2, <1>3 DEF ChildTypes
<1>6. ChildTypes'
  BY <1>1, <1>2, <1>3, <1>4, <1>5 DEF ChildTypes
<1>7. Carried'
  <2>1. ~torn /\ buf = <<>> /\ wrote["out"] = pipe["out"] /\ wrote["err"] = pipe["err"]
    BY <1>2 DEF ChildIInv, Carried
  <2>2. buf \o pipe["out"] = pipe["out"]
    <3>1. pipe["out"] \in Seq(Nat)
      BY <1>3 DEF ChildTypes, Pieces
    <3>2. QED
      BY <2>1, <3>1, ConcatEmptySeq
  <2>3. QED
    BY <1>1, <1>2, <2>1, <2>2 DEF Carried
<1>8. Waited'
  BY <1>1, <1>2, <1>4, <1>5 DEF ChildIInv, Waited
<1>9. Watched' /\ Filled'
  BY <1>1, <1>2 DEF ChildIInv, Watched, Filled
<1>10. QED
  BY <1>6, <1>7, <1>8, <1>9 DEF ChildIInv

LEMMA SlurpFailsKeeps == ASSUME ChildIInv, Kids!SlurpFails PROVE ChildIInv'
<1>1. UNCHANGED <<nozombie, proc, status, todo, pipe, wrote, buf, whole, part, slurped, torn,
                  first, word, told>>
  BY DEF Kids!SlurpFails, Kids!slurping, Kids!process
<1>2. pc = "start" /\ pc' = "returned" /\ ret' = -1 /\ ret' # 0
  BY DEF Kids!SlurpFails
<1>3. ChildTypes'
  BY <1>1, <1>2 DEF ChildIInv, ChildTypes
<1>4. Carried'
  BY <1>1, <1>2 DEF ChildIInv, Carried
<1>5. Waited'
  BY <1>1, <1>2 DEF ChildIInv, Waited
<1>6. Watched' /\ Filled'
  BY <1>1, <1>2 DEF ChildIInv, Watched, Filled
<1>7. QED
  BY <1>3, <1>4, <1>5, <1>6 DEF ChildIInv

(* A read puts what it took behind what there was.                         *)
LEMMA SlurpReadKeeps == ASSUME ChildIInv, Kids!SlurpRead PROVE ChildIInv'
<1>1. UNCHANGED <<nozombie, pc, proc, status, todo, wrote, slurped, torn, first, word, ret, told>>
  BY DEF Kids!SlurpRead, Kids!Reading, Kids!answers, Kids!process
<1>2. pc \in {"out", "err"}
  BY DEF Kids!SlurpRead, Kids!Reading, Kids!Pipes
<1> DEFINE q == pipe[pc]
           most == Kids!Min({Len(q), Chunk - part})
<1>3. PICK n \in 1..most :
          /\ buf' = SubSeq(buf, 1, whole + part) \o SubSeq(q, 1, n)
          /\ pipe' = [pipe EXCEPT ![pc] = SubSeq(q, n + 1, Len(q))]
          /\ whole' = Kids!Grown(whole, part + n) /\ part' = (part + n) % Chunk
  BY DEF Kids!SlurpRead
<1>4. ChildTypes /\ Len(buf) = whole + part /\ part < Chunk /\ Chunk \in Nat \ {0}
  BY ChildAssumption DEF ChildIInv, Filled
<1>5. q \in Seq(Nat) /\ buf \in Seq(Nat) /\ whole \in Nat /\ part \in Nat /\ Len(q) \in Nat
  <2>1. q \in Seq(Nat) /\ buf \in Seq(Nat) /\ whole \in Nat /\ part \in Nat
    BY <1>2, <1>4 DEF ChildTypes, Pieces
  <2>2. QED
    BY <2>1, LenProperties
<1> HIDE DEF q
<1>6. most \in Int /\ most <= Len(q) /\ most <= Chunk - part
  <2>1. Len(q) \in Int /\ Chunk - part \in Int
    BY <1>4, <1>5
  <2>2. QED
    BY ONLY <2>1, Smaller
<1> HIDE DEF most
<1>7. n \in Nat /\ 1 <= n /\ n <= Len(q) /\ part + n \in 1..Chunk
  BY <1>4, <1>5, <1>6
<1>8. whole' \in Nat /\ part' \in Nat /\ part' < Chunk /\ whole' + part' = whole + part + n
  <2>1. part' = IF part + n = Chunk THEN 0 ELSE part + n
    BY <1>3, <1>7, ChunkFilled
  <2>2. whole' = IF part + n = Chunk THEN whole + Chunk ELSE whole
    BY <1>3 DEF Kids!Grown
  <2>3. QED
    BY <1>4, <1>5, <1>7, <2>1, <2>2
<1>9. buf' = buf \o SubSeq(q, 1, n)
  <2>1. SubSeq(buf, 1, Len(buf)) = buf
    BY <1>5, SubSeqFull, SMTT(30)
  <2>2. QED
    BY <1>3, <1>4, <2>1, ZenonT(60)
<1> DEFINE a == SubSeq(q, 1, n)
           b == SubSeq(q, n + 1, Len(q))
<1>10. a \in Seq(Nat) /\ Len(a) = n /\ b \in Seq(Nat) /\ a \o b = q
  <2>1. \A i \in 1..n : q[i] \in Nat
    BY <1>5, <1>7, ElementOfSeq
  <2>2. \A i \in (n + 1)..Len(q) : q[i] \in Nat
    BY <1>5, <1>7, ElementOfSeq
  <2>3. a \in Seq(Nat) /\ Len(a) = n
    BY <1>7, <2>1, SubSeqProperties
  <2>4. b \in Seq(Nat)
    BY <1>5, <1>7, <2>2, SubSeqProperties
  <2>5. a \o b = SubSeq(q, 1, Len(q))
    <3>1. 1 \in 1..(Len(q) + 1) /\ n \in (1 - 1)..Len(q) /\ Len(q) \in n..Len(q)
      BY <1>5, <1>7
    <3>2. QED
      BY ONLY <1>5, <3>1, ConcatAdjacentSubSeq
  <2>6. SubSeq(q, 1, Len(q)) = q
    BY <1>5, SubSeqFull
  <2>7. QED
    BY <2>3, <2>4, <2>5, <2>6, ZenonT(60)
<1>11. buf' = buf \o a /\ pipe' = [pipe EXCEPT ![pc] = b]
  BY <1>3, <1>9
<1> HIDE DEF a, b
<1>12. buf' \in Seq(Nat) /\ Len(buf') = whole + part + n
  <2>1. buf \o a \in Seq(Nat) /\ Len(buf \o a) = Len(buf) + Len(a)
    BY <1>5, <1>10, ConcatProperties
  <2>2. QED
    BY <1>4, <1>10, <1>11, <2>1
<1>13. /\ pipe' \in [{"out", "err"} -> Pieces] /\ pipe'[pc] = b
       /\ \A d \in {"out", "err"} : d # pc => pipe'[d] = pipe[d]
  BY <1>2, <1>4, <1>10, <1>11 DEF ChildTypes, Pieces
<1>14. ChildTypes'
  BY <1>1, <1>4, <1>8, <1>12, <1>13 DEF ChildTypes, Pieces
<1>15. Filled'
  BY <1>8, <1>12 DEF Filled
<1>16. buf' \o pipe'[pc] = buf \o pipe[pc]
  <2>1. (buf \o a) \o b = buf \o (a \o b)
    <3>1. buf \in Seq(Nat) /\ a \in Seq(Nat) /\ b \in Seq(Nat)
      BY <1>5, <1>10
    <3>2. QED
      BY ONLY <3>1, Regrouped, Zenon
  <2>2. QED
    BY <1>10, <1>11, <1>13, <2>1 DEF q
<1>17. Carried'
  BY <1>1, <1>2, <1>13, <1>16 DEF ChildIInv, Carried
<1>18. Waited' /\ Watched'
  BY <1>1, <1>2 DEF ChildIInv, Waited, Watched, Kids!EndedAs
<1>19. QED
  BY <1>14, <1>15, <1>17, <1>18 DEF ChildIInv

(* The text is all of it when the pipe is empty and nobody writes.         *)
LEMMA SlurpDoneKeeps ==
    ASSUME ChildIInv, NEW text, Kids!SlurpDone(text),
           \/ torn' = TRUE /\ text = NULL
           \/ /\ torn' = torn /\ Kids!AllClosed /\ pipe[pc] = <<>>
              /\ text = IF whole + part < 1 THEN NULL ELSE SubSeq(buf, 1, whole + part)
    PROVE  ChildIInv'
<1>1. UNCHANGED <<nozombie, proc, status, todo, pipe, wrote, first, word, ret, told>>
  BY DEF Kids!SlurpDone, Kids!Reading, Kids!answers, Kids!process
<1>2. /\ pc \in {"out", "err"} /\ pc' = IF pc = "out" THEN "err" ELSE "wait"
      /\ slurped' = [slurped EXCEPT ![pc] = text] /\ buf' = <<>> /\ whole' = 0 /\ part' = 0
  BY DEF Kids!SlurpDone, Kids!Reading, Kids!Pipes, Kids!Phase
<1>3. ChildTypes /\ Len(buf) = whole + part /\ buf \in Seq(Nat)
  BY DEF ChildIInv, Filled, ChildTypes, Pieces
<1>4. torn' \in BOOLEAN /\ (~torn' => ~torn)
  BY <1>3 DEF ChildTypes
<1>5. ASSUME ~torn'
      PROVE  /\ proc["child"] # "running" /\ proc["back"] # "running"
             /\ wrote[pc] = buf /\ text = TextOf(buf)
  <2>1. Kids!AllClosed /\ pipe[pc] = <<>>
        /\ text = IF whole + part < 1 THEN NULL ELSE SubSeq(buf, 1, whole + part)
    BY <1>5
  <2>2. wrote[pc] = buf \o pipe[pc]
    BY <1>2, <1>4, <1>5 DEF ChildIInv, Carried
  <2>3. buf \o <<>> = buf /\ SubSeq(buf, 1, Len(buf)) = buf
    BY <1>3, ConcatEmptySeq, SubSeqFull
  <2>4. buf = <<>> <=> whole + part < 1
    <3>1. whole + part \in Nat
      BY <1>3, LenProperties
    <3>2. buf = <<>> <=> Len(buf) = 0
      BY <1>3, EmptySeq
    <3>3. QED
      BY <1>3, <3>1, <3>2
  <2>5. QED
    BY <1>3, <2>1, <2>2, <2>3, <2>4 DEF Kids!AllClosed, Kids!Running, TextOf
<1>6. text \in Pieces \union {NULL}
  <2>1. CASE torn' = TRUE /\ text = NULL
    BY <2>1
  <2>2. CASE text = IF whole + part < 1 THEN NULL ELSE SubSeq(buf, 1, whole + part)
    <3>1. SubSeq(buf, 1, Len(buf)) = buf
      BY <1>3, SubSeqFull
    <3>2. QED
      BY <1>3, <2>2, <3>1 DEF Pieces
  <2>3. QED
    BY <2>1, <2>2
<1>7. /\ slurped' \in [{"out", "err"} -> Pieces \union {NULL}] /\ slurped'[pc] = text
      /\ \A d \in {"out", "err"} : d # pc => slurped'[d] = slurped[d]
  BY <1>2, <1>3, <1>6 DEF ChildTypes
<1>8. ChildTypes'
  <2>1. buf' \in Pieces
    BY <1>2 DEF Pieces
  <2>2. pc' \in {"err", "wait"} /\ whole' \in Nat /\ part' \in Nat
    BY <1>2
  <2>3. QED
    BY <1>1, <1>3, <1>4, <1>7, <2>1, <2>2 DEF ChildTypes
<1>9. Filled'
  <2>1. Len(<<>>) = 0 + 0 /\ 0 < Chunk
    BY ChildAssumption
  <2>2. QED
    BY <1>2, <2>1 DEF Filled
<1>10. Carried'
  <2>1. CASE pc = "out"
    <3>1. ~torn' => wrote["err"] = <<>> \o pipe["err"]
      <4>1. ~torn' => wrote["err"] = pipe["err"]
        BY <2>1 DEF ChildIInv, Carried
      <4>2. pipe["err"] \in Seq(Nat)
        BY <1>3 DEF ChildTypes, Pieces
      <4>3. QED
        BY <4>1, <4>2, ConcatEmptySeq
    <3>2. pc' = "err"
      BY <1>2, <2>1
    <3>3. QED
      BY <1>1, <1>2, <1>5, <1>7, <2>1, <3>1, <3>2 DEF Carried
  <2>2. CASE pc = "err"
    <3>1. pc' = "wait"
      BY <1>2, <2>2
    <3>2. ~torn' => slurped'["out"] = TextOf(wrote["out"])
      <4>1. ~torn => slurped["out"] = TextOf(wrote["out"])
        BY <2>2 DEF ChildIInv, Carried
      <4>2. slurped'["out"] = slurped["out"]
        BY <1>7, <2>2
      <4>3. QED
        BY <1>4, <4>1, <4>2
    <3>3. ~torn' => slurped'["err"] = TextOf(wrote["err"])
      BY <1>5, <1>7, <2>2
    <3>4. QED
      BY <1>1, <1>5, <3>1, <3>2, <3>3 DEF Carried
  <2>3. QED
    BY <1>2, <2>1, <2>2
<1>11. Waited'
  BY <1>1, <1>2 DEF ChildIInv, Waited, Kids!EndedAs
<1>12. Watched'
  BY <1>2 DEF Watched
<1>13. QED
  BY <1>8, <1>9, <1>10, <1>11, <1>12 DEF ChildIInv

LEMMA SlurpEndKeeps == ASSUME ChildIInv, Kids!SlurpEnd PROVE ChildIInv'
<1> DEFINE text == IF whole + part < 1 THEN NULL ELSE SubSeq(buf, 1, whole + part)
<1>1. Kids!SlurpDone(text) /\ torn' = torn /\ Kids!AllClosed /\ pipe[pc] = <<>>
  BY DEF Kids!SlurpEnd
<1>2. text = IF whole + part < 1 THEN NULL ELSE SubSeq(buf, 1, whole + part)
  OBVIOUS
<1> HIDE DEF text
<1>3. QED
  BY <1>1, <1>2, SlurpDoneKeeps

LEMMA SlurpTornKeeps == ASSUME ChildIInv, Kids!SlurpTorn PROVE ChildIInv'
<1>1. Kids!SlurpDone(NULL) /\ torn' = TRUE
  BY DEF Kids!SlurpTorn
<1>2. QED
  BY <1>1, SlurpDoneKeeps

LEMMA SlurpWaitKeeps == ASSUME ChildIInv, Kids!SlurpWait PROVE ChildIInv'
<1>1. UNCHANGED <<nozombie, status, todo, pipe, wrote, buf, whole, part, slurped, torn, first,
                  told>>
  BY DEF Kids!SlurpWait, Kids!slurping
<1>2. /\ pc = "wait" /\ proc["child"] # "running" /\ pc' = "returned" /\ ret' = 0
      /\ word' = IF proc["child"] = "zombie" THEN Kids!Decode(status["child"]) ELSE word
      /\ proc' = [proc EXCEPT !["child"] = "gone"]
  BY DEF Kids!SlurpWait, Kids!Running
<1>3. ChildTypes
  BY DEF ChildIInv
<1>4. Kids!Decode(status["child"]) \in Int
  BY <1>3 DEF ChildTypes, Kids!Decode
<1>5. /\ proc' \in [{"child", "back", "helper"} -> {"none", "running", "zombie", "gone"}]
      /\ proc'["child"] = "gone" /\ proc'["back"] = proc["back"]
  BY <1>2, <1>3 DEF ChildTypes
<1>6. ChildTypes'
  BY <1>1, <1>2, <1>3, <1>4, <1>5 DEF ChildTypes
<1>7. Carried'
  BY <1>1, <1>2, <1>5 DEF ChildIInv, Carried
<1>8. Waited'
  <2>1. word = first /\ proc["child"] = Kids!EndedAs /\ todo["helper"] = <<>>
    BY <1>2 DEF ChildIInv, Waited
  <2>2. word' = IF nozombie THEN first ELSE Kids!Decode(status["child"])
    BY <1>2, <2>1 DEF Kids!EndedAs
  <2>3. QED
    BY <1>1, <1>2, <1>5, <2>1, <2>2 DEF Waited, Kids!Decode, Kids!Killed
<1>9. Watched' /\ Filled'
  BY <1>1, <1>2 DEF ChildIInv, Watched, Filled
<1>10. QED
  BY <1>6, <1>7, <1>8, <1>9 DEF ChildIInv

(* The program watches.                                                    *)
LEMMA SpawnShellKeeps == ASSUME ChildIInv, Kids!SpawnShell PROVE ChildIInv'
<1>1. UNCHANGED <<nozombie, status, todo, pipe, wrote, buf, whole, part, slurped, torn, first,
                  word, ret, told>>
  BY DEF Kids!SpawnShell, Kids!answers, Kids!slurping
<1>2. pc = "start" /\ pc' = "watching" /\ proc' = [proc EXCEPT !["child"] = "running"]
  BY DEF Kids!SpawnShell
<1>3. ChildTypes
  BY DEF ChildIInv
<1>4. /\ proc' \in [{"child", "back", "helper"} -> {"none", "running", "zombie", "gone"}]
      /\ proc'["child"] = "running" /\ proc'["helper"] = proc["helper"]
  BY <1>2, <1>3 DEF ChildTypes
<1>5. ChildTypes'
  BY <1>1, <1>2, <1>3, <1>4 DEF ChildTypes
<1>6. Carried' /\ Filled'
  BY <1>1, <1>2 DEF ChildIInv, Carried, Filled
<1>7. Waited'
  BY <1>1, <1>2 DEF ChildIInv, Waited
<1>8. Watched'
  <2>1. proc["helper"] = "none" /\ ret = NULL /\ ~told /\ word = first
    BY <1>2 DEF ChildIInv, Waited
  <2>2. NULL # 1
    BY SocketAssumption
  <2>3. QED
    BY <1>1, <1>2, <1>4, <2>1, <2>2 DEF Watched
<1>9. QED
  BY <1>5, <1>6, <1>7, <1>8 DEF ChildIInv

(* What all steps of it have in common.                                    *)
LEMMA WatchingKeeps ==
    ASSUME ChildIInv, Kids!Watching, Watched',
           proc' \in [{"child", "back", "helper"} -> {"none", "running", "zombie", "gone"}],
           status' = status, word' \in Int, ret' \in Int \union {NULL}
    PROVE  ChildIInv'
<1>1. UNCHANGED <<nozombie, pc, todo, pipe, wrote, buf, whole, part, slurped, torn, first>>
      /\ pc = "watching"
  BY DEF Kids!Watching, Kids!slurping
<1>2. ChildTypes'
  BY <1>1 DEF ChildIInv, ChildTypes
<1>3. Carried' /\ Filled'
  BY <1>1 DEF ChildIInv, Carried, Filled
<1>4. Waited'
  BY <1>1 DEF ChildIInv, Waited
<1>5. QED
  BY <1>2, <1>3, <1>4 DEF ChildIInv

LEMMA SpawnWaitKeeps == ASSUME ChildIInv, Kids!SpawnWait PROVE ChildIInv'
<1>1. /\ Kids!Watching /\ pc = "watching" /\ pc' = pc /\ first' = first
      /\ UNCHANGED <<status, told>> /\ proc["child"] # "running"
      /\ proc' = [proc EXCEPT !["child"] = "gone"]
  BY DEF Kids!SpawnWait, Kids!Watching, Kids!Running
<1>2. ChildTypes /\ Watched
  BY DEF ChildIInv
<1>3. Kids!Decode(status["child"]) \in Int
  BY <1>2 DEF ChildTypes, Kids!Decode
<1>4. word' \in Int /\ ret' \in {0, -1}
  BY <1>2, <1>3 DEF ChildTypes, Kids!SpawnWait
<1>5. /\ proc' \in [{"child", "back", "helper"} -> {"none", "running", "zombie", "gone"}]
      /\ proc'["child"] = "gone" /\ proc'["helper"] = proc["helper"]
  BY <1>1, <1>2 DEF ChildTypes
<1>6. Watched'
  BY <1>1, <1>2, <1>4, <1>5 DEF Watched
<1>7. QED
  BY <1>1, <1>4, <1>5, <1>6, WatchingKeeps

LEMMA SpawnCheckKeeps == ASSUME ChildIInv, Kids!SpawnCheck PROVE ChildIInv'
<1>1. /\ Kids!Watching /\ pc = "watching" /\ pc' = pc /\ first' = first
      /\ UNCHANGED <<status, told>>
      /\ proc' = [proc EXCEPT !["child"] = IF proc["child"] = "running" THEN @ ELSE "gone"]
  BY DEF Kids!SpawnCheck, Kids!Watching, Kids!Running
<1>2. ChildTypes /\ Watched
  BY DEF ChildIInv
<1>3. /\ proc' \in [{"child", "back", "helper"} -> {"none", "running", "zombie", "gone"}]
      /\ proc'["child"] = (IF proc["child"] = "running" THEN "running" ELSE "gone")
      /\ proc'["helper"] = proc["helper"]
  BY <1>1, <1>2 DEF ChildTypes
<1>4. word \in Int /\ status["child"] \in Int
  BY <1>2 DEF ChildTypes
<1>5. CASE proc["child"] = "running"
  <2>1. word' = (IF word = 0 THEN 0 ELSE -1) /\ ret' = IF word = 0 THEN 1 ELSE 0
    BY <1>5 DEF Kids!SpawnCheck, Kids!Running, Kids!StillRuns, Kids!Undecided
  <2>2. word' \in Int /\ ret' \in Int
    BY <2>1
  <2>3. Watched'
    BY <1>1, <1>2, <1>3, <1>5, <2>1 DEF Watched
  <2>4. QED
    BY <1>1, <1>3, <2>2, <2>3, WatchingKeeps
<1>6. CASE proc["child"] = "zombie"
  <2>1. /\ word' = Kids!Decode(status["child"])
        /\ ret' = IF status["child"] = -1 THEN 0 ELSE 1
    BY <1>6 DEF Kids!SpawnCheck, Kids!Running, Kids!Killed
  <2>2. word' \in Int /\ ret' \in Int /\ (ret' = 1 => word' = status["child"])
    BY <1>4, <2>1 DEF Kids!Decode, Kids!Killed
  <2>3. Watched'
    BY <1>1, <1>2, <1>3, <1>6, <2>2 DEF Watched
  <2>4. QED
    BY <1>1, <1>3, <2>2, <2>3, WatchingKeeps
<1>7. CASE proc["child"] \notin {"running", "zombie"}
  <2>1. word' = word /\ ret' = -1
    BY <1>7 DEF Kids!SpawnCheck, Kids!Running
  <2>2. Watched'
    BY <1>1, <1>2, <1>3, <1>7, <2>1 DEF Watched
  <2>3. QED
    BY <1>1, <1>3, <1>4, <2>1, <2>2, WatchingKeeps
<1>8. QED
  BY <1>5, <1>6, <1>7

LEMMA SpawnWaitfdKeeps == ASSUME ChildIInv, Kids!SpawnWaitfd PROVE ChildIInv'
<1>1. /\ Kids!Watching /\ pc = "watching" /\ pc' = pc /\ first' = first
      /\ UNCHANGED <<status, word, ret, told>> /\ proc["helper"] = "none"
      /\ proc' = [proc EXCEPT !["helper"] = "running"]
  BY DEF Kids!SpawnWaitfd, Kids!Watching
<1>2. ChildTypes /\ Watched
  BY DEF ChildIInv
<1>3. /\ proc' \in [{"child", "back", "helper"} -> {"none", "running", "zombie", "gone"}]
      /\ proc'["child"] = proc["child"] /\ proc'["helper"] = "running"
  BY <1>1, <1>2 DEF ChildTypes
<1>4. Watched'
  BY <1>1, <1>2, <1>3 DEF Watched
<1>5. word' \in Int /\ ret' \in Int \union {NULL}
  BY <1>1, <1>2 DEF ChildTypes
<1>6. QED
  BY <1>1, <1>3, <1>4, <1>5, WatchingKeeps

LEMMA WaitAnyKeeps == ASSUME ChildIInv, Kids!WaitAny PROVE ChildIInv'
<1>1. UNCHANGED <<nozombie, pc, todo, pipe, wrote, buf, whole, part, slurped, torn, first, word,
                  ret, told>>
  BY DEF Kids!WaitAny, Kids!answers, Kids!slurping
<1>2. /\ proc["helper"] = "running" /\ proc["child"] # "running"
      /\ proc' = [proc EXCEPT !["helper"] = Kids!EndedAs]
      /\ status' = [status EXCEPT !["helper"] =
                      IF proc["child"] = "zombie" /\ status["child"] # -1
                      THEN status["child"] ELSE 0]
  BY DEF Kids!WaitAny, Kids!Running, Kids!Seen, Kids!Over, Kids!Killed
<1>3. ChildTypes
  BY DEF ChildIInv
<1>4. Kids!EndedAs \in {"zombie", "gone"} /\ Kids!EndedAs' = Kids!EndedAs
  BY <1>1 DEF Kids!EndedAs
<1>5. /\ proc' \in [{"child", "back", "helper"} -> {"none", "running", "zombie", "gone"}]
      /\ proc'["child"] = proc["child"] /\ proc'["back"] = proc["back"]
  BY <1>2, <1>3, <1>4 DEF ChildTypes
<1>6. status' \in [{"child", "back", "helper"} -> Int] /\ status'["child"] = status["child"]
  BY <1>2, <1>3 DEF ChildTypes
<1>7. ChildTypes'
  BY <1>1, <1>3, <1>5, <1>6 DEF ChildTypes
<1>8. Carried' /\ Filled'
  BY <1>1, <1>5 DEF ChildIInv, Carried, Filled
<1>9. Waited'
  BY <1>1, <1>2, <1>4, <1>5, <1>6 DEF ChildIInv, Waited, Kids!Decode, Kids!Killed
<1>10. Watched'
  <2>1. Watched /\ pc' = pc
    BY <1>1 DEF ChildIInv
  <2>2. proc["helper"] \notin {"zombie", "gone"}
    BY <1>2
  <2>3. QED
    BY <1>1, <1>2, <1>5, <1>6, <2>1, <2>2 DEF Watched
<1>11. QED
  BY <1>7, <1>8, <1>9, <1>10 DEF ChildIInv

LEMMA SpawnWaitfdReadKeeps == ASSUME ChildIInv, Kids!SpawnWaitfdRead PROVE ChildIInv'
<1>1. /\ Kids!Watching /\ pc = "watching" /\ pc' = pc /\ first' = first /\ status' = status
      /\ proc["helper"] \in {"zombie", "gone"} /\ ret' = 0
  BY DEF Kids!SpawnWaitfdRead, Kids!Watching
<1>2. ChildTypes /\ Watched
  BY DEF ChildIInv
<1>3. \/ UNCHANGED <<proc, word>>
      \/ \E p \in {"child", "back", "helper"} :
             /\ proc' = [proc EXCEPT ![p] = "gone"] /\ word' = Kids!Decode(status[p])
  BY DEF Kids!SpawnWaitfdRead, Kids!Procs
<1>4. \A p \in {"child", "back", "helper"} : Kids!Decode(status[p]) \in Int
  BY <1>2 DEF ChildTypes, Kids!Decode
<1>5. /\ proc' \in [{"child", "back", "helper"} -> {"none", "running", "zombie", "gone"}]
      /\ proc'["child"] # "running" /\ proc'["helper"] \in {"zombie", "gone"}
      /\ word' \in Int
  <2>1. proc["child"] # "running"
    BY <1>1, <1>2 DEF Watched
  <2>2. CASE UNCHANGED <<proc, word>>
    BY <1>1, <1>2, <2>1, <2>2 DEF ChildTypes
  <2>3. ASSUME NEW p \in {"child", "back", "helper"}, proc' = [proc EXCEPT ![p] = "gone"],
               word' = Kids!Decode(status[p])
        PROVE  /\ proc' \in [{"child", "back", "helper"} -> {"none", "running", "zombie", "gone"}]
               /\ proc'["child"] # "running" /\ proc'["helper"] \in {"zombie", "gone"}
               /\ word' \in Int
    BY <1>1, <1>2, <1>4, <2>1, <2>3 DEF ChildTypes
  <2>4. QED
    BY <1>3, <2>2, <2>3
<1>6. Watched'
  BY <1>1, <1>5 DEF Watched
<1>7. QED
  BY <1>1, <1>5, <1>6, WatchingKeeps

LEMMA ChildrenKeep == ASSUME ChildIInv, Kids!Next PROVE ChildIInv'
<1>1. CASE Kids!Program
  BY <1>1, SlurpReadKeeps, SlurpEndKeeps, SlurpWaitKeeps DEF Kids!Program
<1>2. CASE Kids!SlurpTorn
  BY <1>2, SlurpTornKeeps
<1>3. CASE Kids!SlurpFails
  BY <1>3, SlurpFailsKeeps
<1>4. CASE \E script \in Scripts : Kids!SlurpShell(script)
  BY <1>4, SlurpShellKeeps
<1>5. CASE Kids!SpawnShell
  BY <1>5, SpawnShellKeeps
<1>6. CASE Kids!SpawnWait
  BY <1>6, SpawnWaitKeeps
<1>7. CASE Kids!SpawnCheck
  BY <1>7, SpawnCheckKeeps
<1>8. CASE Kids!SpawnWaitfd
  BY <1>8, SpawnWaitfdKeeps
<1>9. CASE Kids!WaitAny
  BY <1>9, WaitAnyKeeps
<1>10. CASE Kids!SpawnWaitfdRead
  BY <1>10, SpawnWaitfdReadKeeps
<1>11. CASE Kids!LeavesBehind
  BY <1>11, LeavesBehindKeeps
<1>12. CASE Kids!Kill
  BY <1>12, KillKeeps
<1>13. CASE \E p \in Kids!Procs : Kids!Shells(p)
  <2>1. PICK p \in {"child", "back", "helper"} : Kids!Write(p) \/ Kids!Exit(p)
    BY <1>13 DEF Kids!Procs, Kids!Shells
  <2>2. QED
    BY <2>1, WriteKeeps, ExitKeeps
<1>14. QED
  BY <1>1, <1>2, <1>3, <1>4, <1>5, <1>6, <1>7, <1>8, <1>9, <1>10, <1>11, <1>12, <1>13
  DEF Kids!Next

-----------------------------------------------------------------------------
(* For any replies in any pieces, any sockets and sessions, mailboxes and  *)
(* numbers of calls, and any shells, pipes and buffers: an account is what *)
(* the replies it had granted, descriptors, sessions and messages of       *)
(* sockets are neither lost nor used twice, calls over a handle of         *)
(* mailboxes are for the mailbox and the mail they say, and the output and *)
(* the end of child processes are what they were (oauth.c:50-540,          *)
(* www.c:56-316, socket.c:60-367, imap.c:50-231, spawn.c:82-243).          *)
THEOREM OthersAlways == IoSpec => []OthersHold
<1> DEFINE I == AccountIInv /\ SocketIInv /\ ImapIInv /\ ChildIInv
<1>1. IoInit => I
  BY AccountStarts, SocketsStart, ImapStarts, ChildrenStart DEF IoInit
<1>2. I /\ [IoNext]_<<subject, loop, reading, writing, events_, server, www>> => I'
  <2> SUFFICES ASSUME I, [IoNext]_<<subject, loop, reading, writing, events_, server, www>>
               PROVE  I'
    OBVIOUS
  <2>1. \/ UNCHANGED <<authorize, network, handle, spawned>>
        \/ Auth!Next /\ UNCHANGED <<network, handle, spawned>>
        \/ Net!Next /\ UNCHANGED <<authorize, handle, spawned>>
        \/ Hosts!Next /\ UNCHANGED <<authorize, network, spawned>>
        \/ Kids!Next /\ UNCHANGED <<authorize, network, handle>>
    <3>1. CASE IoNext
      BY <3>1, Zenon DEF IoNext, www
    <3>2. CASE UNCHANGED <<subject, loop, reading, writing, events_, server, www>>
      BY <3>2 DEF www
    <3> QED BY <3>1, <3>2
  <2>2. AccountIInv'
    BY <2>1, AccountKeeps, AccountRests
  <2>3. SocketIInv'
    BY <2>1, SocketsKeep, SocketsRest
  <2>4. ImapIInv'
    BY <2>1, ImapKeeps, ImapRests
  <2>5. ChildIInv'
    BY <2>1, ChildrenKeep, ChildrenRest
  <2> QED BY <2>2, <2>3, <2>4, <2>5
<1>3. I => OthersHold
  BY AccountRight, SocketsRight, ImapHolds, ChildrenRight DEF OthersHold
<1> QED BY <1>1, <1>2, <1>3, PTL DEF IoSpec
=============================================================================
