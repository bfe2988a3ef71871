------------------------------- MODULE Authorize -------------------------------
(***************************************************************************)
(* OAuth 2 of ef/www (oauth.c over http.c and www.c): the code that the    *)
(* browser brings to a local server, the token that is asked for with it,  *)
(* the refreshes, and the file that takes them from one process to the     *)
(* next (read by ef/file/config.c).  curl calls the receiver for each      *)
(* chunk, may fail at any of them, and the buffer of a handle is never     *)
(* emptied: a second reply is put behind the first.                        *)
(***************************************************************************)
EXTENDS Integers, Sequences, SequencesExt

CONSTANTS NULL,
          Upto, Chunk,      \* the step the buffer grows by, what curl brings
          Lives,            \* how long tokens live
          MaxCalls, MaxClock    \* bounds

VARIABLES
    codeReply, token, tokenRefresh, scope, expires, expiresTime,    \* oauth2_s
    body, len, size, ended,     \* www->body: replies, and the byte at len is 0
    post,                       \* http->post: the calls whose fields it has
    call, reply,                \* the call that runs, what the server sends
    cut,                        \* a reply was cut off
    stored,                     \* the file
    clock, calls, granted       \* of the world: token -> when it is over
account == <<codeReply, token, tokenRefresh, scope, expires, expiresTime>>
buffer == <<body, len, size, ended>>
http == <<buffer, post, call, reply, cut>>
world == <<stored, clock, calls, granted>>
vars == <<account, http, world>>

Init ==
    /\ codeReply = NULL /\ token = NULL /\ tokenRefresh = NULL /\ scope = NULL
    /\ expires = 0 /\ expiresTime = 0
    /\ body = <<>> /\ len = 0 /\ size = 0 /\ ended = FALSE
    /\ post = <<>> /\ call = "none" /\ reply = NULL /\ cut = FALSE
    /\ stored = NULL /\ clock = 0 /\ calls = 0 /\ granted = <<>>

Tick == /\ clock < MaxClock /\ clock' = clock + 1
        /\ UNCHANGED <<account, http, stored, calls, granted>>

-----------------------------------------------------------------------------
(* The local server reads the request that the browser was sent back with. *)
(* A code that is followed by nothing has no end; and once there is a code *)
(* the lines of every later request are skipped.                           *)
Requests == {"none", "alien", "nocode", "codelast", "code"}
AuthorizationBrowser(request) ==
    /\ call = "none" /\ calls < MaxCalls /\ calls' = calls + 1
    /\ codeReply' = IF codeReply = NULL /\ request = "code" THEN "code" ELSE codeReply
    /\ UNCHANGED <<token, tokenRefresh, scope, expires, expiresTime, buffer, post,
                   call, reply, cut, stored, clock, granted>>

(* http_post_set of the fields, and the request with all fields there are. *)
(* The server grants a token, refuses, or sends what is no json.  It may   *)
(* leave the refresh token out, as it does when it was given before.       *)
Begin(c) ==
    /\ call = "none" /\ calls < MaxCalls /\ calls' = calls + 1
    /\ c = "get" => codeReply # NULL
    /\ c = "refresh" => tokenRefresh # NULL
    /\ call' = c /\ post' = Append(post, c)
    /\ \/ /\ \E life \in Lives, again \in BOOLEAN, s \in {"mail", "empty"} :
              /\ granted' = Append(granted, [from |-> clock, to |-> clock, life |-> life])
              /\ reply' = [kind |-> "tokens", token |-> Len(granted) + 1, life |-> life,
                           refresh |-> IF again THEN Len(granted) + 1 ELSE NULL, scope |-> s]
       \/ reply' \in {[kind |-> "error"], [kind |-> "page"]} /\ UNCHANGED granted
    /\ UNCHANGED <<account, buffer, cut, stored, clock>>

RoundUp(n) == ((n + Upto - 1) \div Upto) * Upto

(* A slip: what the buffer has is not counted.                             *)
UpsizedBlind(s, l, n) == IF s = 0 THEN n ELSE IF s < n THEN s + RoundUp(n - s) ELSE s

(* www_buffer_upsize: the first block fits, then it grows by whole steps.  *)
Upsized(s, l, n) == IF s = 0 THEN n ELSE IF s - l < n THEN s + RoundUp(n - (s - l)) ELSE s

(* A reply has two chunks: the call that has one of them                   *)
Half == [get |-> "getting", refresh |-> "refreshing"]

Recv ==
    /\ call \in {"get", "refresh"} /\ reply # NULL
    /\ size' = Upsized(size, len, Chunk) /\ len' = len + Chunk /\ ended' = FALSE
    /\ body' = Append(body, reply) /\ call' = Half[call]
    /\ UNCHANGED <<account, post, reply, cut, world>>

Whole(c) == call = Half[c]
Returns == call' = "none" /\ reply' = NULL

(* The request fails, before the reply or in the middle of it, when what   *)
(* has come stays in the buffer.  Its text is looked through for an error. *)
PerformFails ==
    /\ call # "none" /\ Returns /\ post' = <<>>
    /\ cut' = (cut \/ \E c \in {"get", "refresh"} : Whole(c))
    /\ UNCHANGED <<account, buffer, world>>

(* The server has refused: the buffer is left without its terminator.      *)
Refused ==
    /\ \E c \in {"get", "refresh"} : Whole(c)
    /\ reply.kind = "error" /\ ~cut
    /\ size' = Upsized(size, len, Chunk) /\ len' = len + Chunk
    /\ Returns /\ post' = <<>>
    /\ UNCHANGED <<account, body, ended, cut, world>>

(* What the json callbacks take from the first reply in the buffer.  With  *)
(* another behind it the lexer ends in an error, but not before.           *)
Takes(r) ==
    /\ token' = r.token /\ expires' = r.life /\ scope' = r.scope
    /\ tokenRefresh' = IF r.refresh = NULL THEN tokenRefresh ELSE r.refresh

(* A slip: the values are taken from the last reply.                       *)
FirstLast == Last(body)
First == Head(body)

(* The caller of a parse that fails is told that all is well, and a token  *)
(* that was got leaves its fields for the next request.  What the buffer   *)
(* means when a reply in it was cut off is left out.                       *)
Answered ==
    /\ \E c \in {"get", "refresh"} : Whole(c)
    /\ reply.kind # "error" /\ ~cut
    /\ len' = len + Chunk
    /\ size' = Upsized(Upsized(size, len, Chunk), len', 1) /\ ended' = TRUE
    /\ IF First.kind = "tokens" THEN Takes(First)
       ELSE UNCHANGED <<token, tokenRefresh, scope, expires>>
    /\ LET fits == /\ First.kind = "tokens" /\ Len(body) = 1
                   /\ tokenRefresh' # NULL
       IN /\ expiresTime' = IF fits THEN clock + expires' ELSE expiresTime
          /\ post' = IF fits /\ Whole("get") THEN post ELSE <<>>
    /\ granted' = IF reply.kind = "tokens" THEN [granted EXCEPT ![reply.token].to = clock]
                  ELSE granted
    /\ Returns
    /\ UNCHANGED <<codeReply, body, cut, stored, clock, calls>>

-----------------------------------------------------------------------------
(* The file.  config_value_string has no empty values: a line with one     *)
(* ends the reading, and what follows it is not set.                       *)
Store ==
    /\ call = "none" /\ calls < MaxCalls /\ calls' = calls + 1
    /\ stored' = [token |-> token, tokenRefresh |-> tokenRefresh, scope |-> scope,
                  expires |-> expires, expiresTime |-> expiresTime]
    /\ UNCHANGED <<account, http, clock, granted>>

Load ==
    /\ call = "none" /\ stored # NULL /\ token = NULL
    /\ token' = stored.token /\ tokenRefresh' = stored.tokenRefresh
    /\ IF stored.scope = "empty" THEN UNCHANGED <<scope, expires, expiresTime>>
       ELSE /\ scope' = stored.scope
            /\ expires' = stored.expires /\ expiresTime' = stored.expiresTime
    /\ UNCHANGED <<codeReply, buffer, post, call, reply, cut, world>>

(* The process ends, at any time, and another calls oauth2_new.            *)
Restart ==
    /\ token # NULL \/ call # "none"
    /\ codeReply' = NULL /\ token' = NULL /\ tokenRefresh' = NULL /\ scope' = NULL
    /\ expires' = 0 /\ expiresTime' = 0
    /\ body' = <<>> /\ len' = 0 /\ size' = 0 /\ ended' = FALSE
    /\ post' = <<>> /\ call' = "none" /\ reply' = NULL
    /\ cut' = FALSE /\ UNCHANGED world

Next ==
    \/ \E r \in Requests : AuthorizationBrowser(r)
    \/ \E c \in {"get", "refresh"} : Begin(c)
    \/ Recv \/ PerformFails \/ Refused \/ Answered
    \/ Store \/ Load \/ Restart \/ Tick

Spec == Init /\ [][Next]_vars

-----------------------------------------------------------------------------
(* The text of the replies fits into the buffer, and has its end when it   *)
(* is read as that of a reply (www.c:56-64, 250-278, 303-316).             *)
BufferHolds == len <= size /\ (ended => len < size)

(* Whatever failed and was done again, by this process or by one before    *)
(* it, the time the program knows is that of the token it has, as far as   *)
(* the time the request took leaves it known (oauth.c:277-436, 442-542).   *)
TokenRight ==
    /\ token # NULL => token \in DOMAIN granted
    /\ token # NULL /\ expiresTime # 0 =>
           LET g == granted[token] IN
           expires = g.life /\ expiresTime \in (g.from + g.life)..(g.to + g.life)
    /\ tokenRefresh # NULL => tokenRefresh \in DOMAIN granted /\ tokenRefresh <= token

(* Fields that a request has beyond its own are those of a code that was   *)
(* given for a token before (oauth.c:362-436, http.c:45-60).               *)
PostRight == \A i \in DOMAIN post : post[i] = "get" \/ i = Len(post)

AuthorizeHolds == BufferHolds /\ TokenRight /\ PostRight
=============================================================================
