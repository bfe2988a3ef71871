------------------------------- MODULE Sockets -------------------------------
(***************************************************************************)
(* The sockets of ef/www/socket.c: servers that listen, clients that       *)
(* connect, with and without tls, and what an edge triggered poll tells    *)
(* the callbacks.  Every call that may fail does so here.  A socket is the *)
(* memory of a socket_s, which may be taken again when it is freed; its    *)
(* descriptor has the same name.                                           *)
(***************************************************************************)
EXTENDS Integers, Sequences, SequencesExt

CONSTANTS Socks, Sessions,      \* memory, sessions of gnutls
          NULL, MaxSent         \* and a bound on the messages of a connection

VARIABLES type,         \* of all sockets: "unix" or "net"
          state,        \* socket -> freed, open, listening, connected
          stls,         \* s->tls
          session,      \* session -> new, freed, twice: what became of it
          desc,         \* the kernel: descriptors that are open
          place,        \* what has the address: a socket, NULL, a file without one
          backlog,      \* listening socket -> descriptors that wait
          peer,         \* descriptor -> the other end, NULL
          inbox, hup,   \* descriptor -> messages, whether the peer is gone
          edge,         \* descriptors with an event since the last one
          sent, got,    \* socket -> messages sent to it, read by it
          unread        \* messages that were there when it was closed
vars == <<type, state, stls, session, desc, place, backlog, peer, inbox, hup, edge,
          sent, got, unread>>

Init ==
    /\ type \in {"unix", "net"}
    /\ state = [s \in Socks |-> "freed"] /\ stls = [s \in Socks |-> NULL]
    /\ session = [t \in Sessions |-> "new"]
    /\ desc = {} /\ place = NULL
    /\ backlog = [s \in Socks |-> <<>>] /\ peer = [s \in Socks |-> NULL]
    /\ inbox = [s \in Socks |-> 0] /\ hup = [s \in Socks |-> FALSE] /\ edge = {}
    /\ sent = [s \in Socks |-> 0] /\ got = [s \in Socks |-> 0]
    /\ unread = [s \in Socks |-> 0]

SessionFreed(t) == IF t = NULL THEN session
                   ELSE [session EXCEPT ![t] = IF @ = "freed" THEN "twice" ELSE "freed"]

(* A socket waits in one backlog and there once.                           *)
Without(b, s) ==
    IF s \in ToSet(b) THEN RemoveAt(b, CHOOSE i \in DOMAIN b : b[i] = s) ELSE b

(* What the kernel does when a descriptor is closed: the other end is      *)
(* told, and connections that nobody has accepted are reset.               *)
Gone(s) == {p \in Socks : peer[p] = s} \cup ToSet(backlog[s])
Unplugged(s) ==
    /\ desc' = desc \ {s}
    /\ hup' = [p \in Socks |-> p # s /\ (hup[p] \/ p \in Gone(s))]
    /\ edge' = (edge \cup Gone(s)) \ {s}
    /\ peer' = [p \in Socks |-> IF p = s \/ p \in Gone(s) THEN NULL ELSE peer[p]]
    /\ backlog' = [p \in Socks |-> IF p = s THEN <<>> ELSE Without(backlog[p], s)]
    /\ inbox' = [inbox EXCEPT ![s] = 0]

(* socket_close, with the session t.                                       *)
Freed(s, t) ==
    /\ state' = [state EXCEPT ![s] = "freed"] /\ stls' = [stls EXCEPT ![s] = NULL]
    /\ session' = SessionFreed(t)
    /\ Unplugged(s)

(* The address of a socket that is closed: its file stays.                 *)
Deserted == IF type = "unix" THEN "file" ELSE NULL

(* A slip: the descriptor is left open when there is a session to free.    *)
CloseLeaves(s) ==
    /\ state[s] # "freed" /\ unread' = [unread EXCEPT ![s] = inbox[s]]
    /\ IF stls[s] = NULL THEN Freed(s, NULL)
       ELSE /\ state' = [state EXCEPT ![s] = "freed"] /\ session' = SessionFreed(stls[s])
            /\ stls' = [stls EXCEPT ![s] = NULL]
            /\ UNCHANGED <<desc, hup, edge, peer, backlog, inbox>>
    /\ place' = IF place = s THEN Deserted ELSE place
    /\ UNCHANGED <<sent, got>>

Close(s) ==
    /\ state[s] # "freed" /\ unread' = [unread EXCEPT ![s] = inbox[s]]
    /\ Freed(s, stls[s])
    /\ place' = IF place = s THEN Deserted ELSE place
    /\ UNCHANGED <<sent, got>>

-----------------------------------------------------------------------------
(* socket_new and socket_open, which frees the socket if it fails.         *)
Open(s) ==
    /\ state[s] = "freed" /\ s \notin desc
    /\ state' = [state EXCEPT ![s] = "open"] /\ desc' = desc \cup {s}
    /\ sent' = [sent EXCEPT ![s] = 0] /\ got' = [got EXCEPT ![s] = 0]
    /\ unread' = [unread EXCEPT ![s] = 0] /\ hup' = [hup EXCEPT ![s] = FALSE]
    /\ UNCHANGED <<stls, session, place, backlog, peer, inbox, edge>>

(* A bind may fail, because the address is taken or for a reason of its    *)
(* own, after the file of the address was removed.  listen does not know:  *)
(* the socket of a port has another port then, that of a file is refused.  *)
Unlinked == IF type = "unix" THEN NULL ELSE place
Listen(s, binds) ==
    /\ state[s] = "open" /\ (binds => Unlinked = NULL)
    /\ place' = IF binds THEN s ELSE Unlinked
    /\ IF binds \/ type = "net"
       THEN /\ state' = [state EXCEPT ![s] = "listening"]
            /\ UNCHANGED <<stls, session, desc, backlog, peer, inbox, hup, edge, sent, got, unread>>
       ELSE Freed(s, NULL) /\ UNCHANGED <<sent, got, unread>>

(* The connection is there before the server accepts it.                   *)
Connect(s, t, greets) ==
    /\ state[s] = "open" /\ (t # NULL => session[t] = "new" /\ \A o \in Socks : stls[o] # t)
    /\ IF place \in Socks /\ greets
       THEN /\ state' = [state EXCEPT ![s] = "connected"] /\ stls' = [stls EXCEPT ![s] = t]
            /\ backlog' = [backlog EXCEPT ![place] = Append(@, s)]
            /\ UNCHANGED <<session, desc, place, peer, inbox, hup, edge, sent, got, unread>>
       ELSE /\ \/ Freed(s, NULL)                                    \* refused
               \/ place \in Socks /\ Freed(s, t)                       \* a bad handshake
            /\ UNCHANGED <<place, sent, got, unread>>

(* socket_accept: a connection that fails after it was accepted is closed  *)
(* with its session, one that fails before leaves the session with the     *)
(* caller.  When nobody asks for one in time nothing has changed.          *)
Accept(server, s, t, result) ==
    /\ state[server] = "listening" /\ state[s] = "freed" /\ s \notin desc
    /\ t # NULL => session[t] = "new" /\ \A o \in Socks : stls[o] # t
    /\ CASE result = "connected" ->
              /\ backlog[server] # <<>>
              /\ LET client == Head(backlog[server]) IN
                 /\ state' = [state EXCEPT ![s] = "connected"] /\ stls' = [stls EXCEPT ![s] = t]
                 /\ desc' = desc \cup {s}
                 /\ backlog' = [backlog EXCEPT ![server] = Tail(@)]
                 /\ peer' = [peer EXCEPT ![s] = client, ![client] = s]
                 /\ hup' = [hup EXCEPT ![s] = FALSE]
              /\ sent' = [sent EXCEPT ![s] = 0] /\ got' = [got EXCEPT ![s] = 0]
              /\ unread' = [unread EXCEPT ![s] = 0]
              /\ UNCHANGED <<session, place, inbox, edge>>
         [] result \in {"nostream", "nohandshake"} ->
              /\ backlog[server] # <<>> /\ (result = "nohandshake" => t # NULL)
              /\ LET client == Head(backlog[server]) IN
                 /\ backlog' = [backlog EXCEPT ![server] = Tail(@)]
                 /\ hup' = [hup EXCEPT ![client] = TRUE] /\ edge' = edge \cup {client}
              /\ session' = IF result = "nohandshake" THEN SessionFreed(t) ELSE session
              /\ UNCHANGED <<state, stls, desc, place, peer, inbox, sent, got, unread>>

-----------------------------------------------------------------------------
(* stream_write of a socket, and what the poll tells of the other end.     *)
Send(s) ==
    /\ state[s] = "connected" /\ peer[s] # NULL /\ sent[peer[s]] < MaxSent
    /\ inbox' = [inbox EXCEPT ![peer[s]] = @ + 1] /\ sent' = [sent EXCEPT ![peer[s]] = @ + 1]
    /\ edge' = edge \cup {peer[s]}
    /\ UNCHANGED <<state, stls, session, desc, place, backlog, peer, hup, got, unread>>

(* socket_parse_events: a peer that has gone is more than what it said     *)
(* before; onclose unregisters and closes, onread reads what there is.     *)
Closes(s) ==
    /\ state[s] = "connected" /\ s \in edge /\ hup[s]
    /\ Freed(s, stls[s]) /\ unread' = [unread EXCEPT ![s] = inbox[s]]
    /\ UNCHANGED <<place, sent, got>>
Reads(s) ==
    /\ state[s] = "connected" /\ s \in edge /\ ~hup[s]
    /\ got' = [got EXCEPT ![s] = @ + inbox[s]] /\ inbox' = [inbox EXCEPT ![s] = 0]
    /\ edge' = edge \ {s}
    /\ UNCHANGED <<state, stls, session, desc, place, backlog, peer, hup, sent, unread>>
ParseEvents(s) == Closes(s) \/ Reads(s)

Calls ==
    \/ \E s \in Socks : Open(s) \/ Close(s) \/ Send(s) \/ ParseEvents(s)
    \/ \E s \in Socks, binds \in BOOLEAN : Listen(s, binds)
    \/ \E s \in Socks, t \in Sessions \cup {NULL}, greets \in BOOLEAN : Connect(s, t, greets)
    \/ \E server, s \in Socks, t \in Sessions \cup {NULL},
          r \in {"connected", "nostream", "nohandshake"} : Accept(server, s, t, r)

Next == Calls /\ UNCHANGED type

Spec == Init /\ [][Next]_vars

-----------------------------------------------------------------------------
(* Whatever fails, every descriptor that is open is that of a socket in    *)
(* use, no session is freed twice or used when it is freed, and two ends   *)
(* of a connection know each other (socket.c:60-121, 189-338, 573-594).    *)
SocketsOwned ==
    /\ desc = {s \in Socks : state[s] # "freed"}
    /\ \A t \in Sessions : session[t] # "twice"
    /\ \A s \in Socks : stls[s] # NULL => session[stls[s]] = "new"
    /\ \A s, o \in Socks : stls[s] # NULL /\ stls[s] = stls[o] => s = o
    /\ \A s \in Socks : peer[s] # NULL => peer[peer[s]] = s

(* Nothing that was sent is missing or read twice, except what had come    *)
(* when the socket was closed, and an event that nobody was told of is not *)
(* lost (socket.c:356-367).                                                *)
MessagesKept == \A s \in Socks :
    /\ state[s] = "connected" => sent[s] = got[s] + inbox[s]
    /\ state[s] = "freed" => sent[s] = got[s] + unread[s]
    /\ state[s] = "connected" /\ (inbox[s] > 0 \/ hup[s]) => s \in edge

SocketsHold == SocketsOwned /\ MessagesKept
=============================================================================
