-------------------------------- MODULE MCIo --------------------------------
(***************************************************************************)
(* The streams and the event loop of ef/file, child processes, sockets,    *)
(* the protocols over them and the X server for TLC.  They do not          *)
(* interact: a behaviour exercises one of them, chosen at the start, and   *)
(* leaves the others as they were made.                                    *)
(***************************************************************************)
EXTENDS Deadpoll, Streams

CONSTANTS Wins, Peer, NONE,       \* windows, another client, nothing
          Selections, Keys, Shifts, Levelled, ClickMs, DblClickMs, MaxQueue, MaxMs, MaxPastes,
          Others, Root, Desktops, MaxSegments,    \* of the screen
          Upto, ReplyChunk, Lives, MaxRequests, MaxClock, \* of an account
          Socks, Tls, NULL, MaxSent,  \* sockets, sessions of gnutls, nothing
          Dirs, Paths, MaxCalls,      \* of mailboxes and sites
          Cap, Chunk, Scripts, Codes, Words   \* of pipes and shells

(* The values of the program are none of those that stand for nothing; the *)
(* windows of the screen are numbers, finitely many.                       *)
ASSUME ClientAssumption ==
    /\ NONE \notin Wins \union {Peer, "utf8", "targets"} /\ Peer \notin Wins
    /\ NONE \notin Int
ASSUME ScreenAssumption ==
    /\ Others \subseteq Nat /\ IsFiniteSet(Others) /\ Root \in Int \ Others
    /\ Desktops \in Nat
ASSUME AccountAssumption ==
    /\ Upto \in Nat \ {0} /\ ReplyChunk \in Nat \ {0} /\ Lives \subseteq Nat
    /\ MaxClock \in Nat
ASSUME SocketAssumption == NULL \notin Socks \union Tls \union Int
ASSUME HandleAssumption == NULL \notin {"ls", "examine", "fetch", "flags"}
ASSUME ChildAssumption ==
    /\ Chunk \in Nat \ {0} /\ Cap \in Nat
    /\ Scripts \subseteq Seq({"out", "err"}) /\ Codes \subseteq Nat /\ Words \subseteq Nat

VARIABLES subject,      \* what this behaviour is about
          queue, owner, property, pasting, mods, mousetime, mousestate,
          clock, held, unsure, crossed, report,
          shared, img, ximage, attached, mapped, live, dead, next,
          parent, desktop, frames, stack, touched,
          codeReply, token, tokenRefresh, scope, expires, expiresTime,
          replies, len, size, ended, post, running, reply, unended, stored,
          today, turns, granted,
          type, sockets, stls, session, desc, bound, backlog, peer, inbox, hup,
          edge, sent, taken, unread,
          kind, url, custom, body, header, cut, site, request, answer, did, calls, at, meant,
          nozombie, pc, proc, status, todo, pipe, wrote, buf, whole, part, slurped, torn,
          first, word, ret, told

loop == vars
events_ == <<queue, owner, property, pasting, mods, mousetime, mousestate,
             clock, held, unsure, crossed, report>>
server == <<shared, img, ximage, attached, mapped, live, dead, next,
            parent, desktop, frames, stack, touched>>
authorize == <<codeReply, token, tokenRefresh, scope, expires, expiresTime, replies, len,
               size, ended, post, running, reply, unended, stored, today, turns, granted>>
network == <<type, sockets, stls, session, desc, bound, backlog, peer, inbox, hup,
             edge, sent, taken, unread>>
handle == <<kind, url, custom, body, header, cut, site, request, answer, did, calls, at, meant>>
spawned == <<nozombie, pc, proc, status, todo, pipe, wrote, buf, whole, part, slurped, torn,
             first, word, ret, told>>
www == <<authorize, network, handle, spawned>>

FiveBytes == <<"digit", "digit", "hex", "blank", "end">>
BlankEnd == <<"blank", "end">>

Client == INSTANCE XEvents WITH MaxClock <- MaxMs, MaxCalls <- MaxPastes

Server == INSTANCE XWindows

Auth == INSTANCE Authorize WITH
    Chunk <- ReplyChunk, MaxCalls <- MaxRequests,
    body <- replies, call <- running, cut <- unended, clock <- today, calls <- turns

Net == INSTANCE Sockets WITH
    Sessions <- Tls, state <- sockets, place <- bound, got <- taken

SomePaths == {<<"a">>, <<"/", "b">>, <<"..">>, <<"..", "/", "a">>, <<".">>,
              <<".", "/", "b">>, <<"/">>, <<"a", "/", "b">>}
Hosts == INSTANCE Sessions WITH asked <- request

(* Shells write four bytes into pipes of two, read in chunks of two.       *)
FourBytes == UNION {[1..n -> {"out", "err"}] : n \in 0..4}
Kids == INSTANCE Children WITH next <- whole, len <- part, out <- slurped

Subjects == {"children", "loop", "reading", "writing", "keyboard", "mouse", "selections",
             "surfaces", "screen", "authorize", "sockets", "mail", "ftp"}
OneScreen == desktop = [o \in Others |-> 0] /\ parent = [o \in Others |-> o - 1]

IoInit ==
    /\ subject \in Subjects
    /\ subject = "screen" \/ OneScreen
    /\ subject = "surfaces" \/ shared = TRUE
    /\ subject = "loop" \/ timer = TRUE
    /\ type = "unix" \/ subject = "sockets"
    /\ kind = IF subject = "ftp" THEN "ftp" ELSE "imap"
    /\ subject = "children" \/ (nozombie = FALSE /\ first = 0)
    /\ Kids!Init /\ Auth!Init /\ Net!Init /\ Hosts!Init
    /\ Init /\ StreamInit /\ Client!Init /\ Server!Init

IoNext ==
    \/ /\ subject = "loop" /\ Next
       /\ UNCHANGED <<subject, reading, writing, events_, server, www>>
    \/ /\ subject = "reading" /\ ReadNext
       /\ UNCHANGED <<subject, loop, writing, events_, server, www>>
    \/ /\ subject = "writing" /\ WriteNext
       /\ UNCHANGED <<subject, loop, reading, events_, server, www>>
    \/ /\ \/ subject = "keyboard" /\ (Client!Keyboard \/ Client!WindowEvents)
          \/ subject = "mouse" /\ Client!Pointer
          \/ subject = "selections" /\ Client!Selecting
          \/ subject \in {"keyboard", "selections"} /\ Client!Reconnect
          \/ subject \in {"keyboard", "mouse", "selections"} /\ Client!Event
       /\ UNCHANGED <<subject, loop, reading, writing, server, www>>
    \/ /\ \/ subject = "surfaces" /\ Server!Surfaces
          \/ subject = "screen" /\ (Server!Screen \/ Server!Walk)
       /\ UNCHANGED <<subject, loop, reading, writing, events_, www>>
    \/ /\ subject = "authorize" /\ Auth!Next
       /\ UNCHANGED <<subject, loop, reading, writing, events_, server, network, handle, spawned>>
    \/ /\ subject = "sockets" /\ Net!Next
       /\ UNCHANGED <<subject, loop, reading, writing, events_, server, authorize, handle, spawned>>
    \/ /\ subject \in {"mail", "ftp"} /\ Hosts!Next
       /\ UNCHANGED <<subject, loop, reading, writing, events_, server, authorize, network, spawned>>
    \/ /\ subject = "children" /\ Kids!Next
       /\ UNCHANGED <<subject, loop, reading, writing, events_, server, authorize, network, handle>>

IoSpec ==
    /\ IoInit
    /\ [][IoNext]_<<subject, loop, reading, writing, events_, server, www>>
    /\ WF_loop(subject = "loop" /\ Thread)
    /\ WF_spawned(subject = "children" /\ Kids!Program)
    /\ \A p \in Kids!Procs : WF_spawned(subject = "children" /\ Kids!Shells(p))

-----------------------------------------------------------------------------
(* The program is told of the modifiers, clicks and texts that the events  *)
(* of the server stand for (xorg.c:936-987, 1830-2183).                    *)
EventsRight == Client!EventsRight

(* A window draws on what is sent and no memory in use is lost, and the    *)
(* walk over the screen finds the applications that stay                   *)
(* (xorg.c:1016-1131, 1710-1819).                                          *)
WindowsRight == Server!SurfacesHold /\ Server!ApplicationsFound

(* An account is what the replies it had granted, descriptors, sessions    *)
(* and messages of sockets are neither lost nor used twice, calls over a   *)
(* handle of mailboxes are for the mailbox and the mail they say, and the  *)
(* output and the end of child processes are what they were                *)
(* (oauth.c:50-540, www.c:56-316, socket.c:60-367, imap.c:50-231,          *)
(* spawn.c:82-243).                                                        *)
OthersHold ==
    /\ Auth!AuthorizeHolds /\ Net!SocketsHold
    /\ Hosts!ImapRight /\ Kids!ChildrenHold

(* A site is where the paths that were given lead, whatever calls over its *)
(* handle failed or left behind (ftp.c:54-370).                            *)
SitesRight == Hosts!FtpRight

(* The callback of a descriptor with an event is called, and a shell whose *)
(* errors fit their pipe is slurped to its end (deadpoll.c:120-156,        *)
(* spawn.c:115-121).                                                       *)
AllGetThrough == EveryEventServed /\ Kids!SlurpReturns
=============================================================================
