------------------------------- MODULE XEvents -------------------------------
(***************************************************************************)
(* The events of an X client (ef/graphics/xorg.c): xorg_event_new takes    *)
(* the server's events in their order and turns them into the program's.   *)
(* On the way it keeps the modifiers that are held, tells clicks from      *)
(* presses and moves texts between windows by the selections, where the    *)
(* same client may be the owner, the one who asks or both.  A text box     *)
(* answers with its text (guiText.c:994-1017), which is named after it.    *)
(***************************************************************************)
EXTENDS Integers, Sequences, SequencesExt, FiniteSets

CONSTANTS Wins, Peer, NONE,     \* the client's windows, another client's
          Selections,           \* PRIMARY and CLIPBOARD
          Keys, Shifts,         \* keys that are modifiers, those of the shift level,
          Levelled,             \* those with another symbol there, as Alt and Meta
          ClickMs, DblClickMs,  \* 200 and 350, in ticks of the model
          MaxQueue, MaxClock, MaxCalls  \* bounds

VARIABLES
    queue,              \* the events the server has sent and nobody has read
    owner,              \* who owns a selection
    property,           \* whose text a window holds under the atom UTF8_STRING
    pasting,            \* x->primary, x->clipboard: the window that pastes
    mods,               \* mnemonicModifier
    mousetime, mousestate,
    clock, held,        \* of the world: the keys that are held,
    unsure,             \* those of which the client was not told all,
    crossed,            \* the pastes under way that another one met
    report              \* the last event the program was given
client == <<pasting, mods, mousetime, mousestate>>
world == <<clock, held, unsure, crossed>>
selection == <<owner, property>>
vars == <<queue, selection, client, world, report>>

Nothing == [kind |-> "nothing"]

Init ==
    /\ queue = <<>> /\ report = Nothing
    /\ owner = [s \in Selections |-> NONE]
    /\ property = [w \in Wins |-> NONE]
    /\ pasting = [s \in Selections |-> NONE]
    /\ mods = {} /\ mousetime = 0 /\ mousestate = 0
    /\ clock = 0 /\ held = {} /\ unsure = {} /\ crossed = {}

Sent(e) == Len(queue) < MaxQueue /\ queue' = Append(queue, e)
Call == clock < MaxCalls /\ clock' = clock + 1

-----------------------------------------------------------------------------
(* The server and the user.                                                *)
Tick ==
    /\ clock < MaxClock /\ clock' = clock + 1
    /\ UNCHANGED <<queue, selection, client, held, unsure, crossed, report>>

(* A key is unsettled while it is held or a stroke of it is on its way.    *)
Strokes == {"press", "release"}
Stroked == {queue[i].key : i \in {j \in DOMAIN queue : queue[j].kind \in Strokes}}
Unsettled == held \union held' \union Stroked

(* The symbol of a key is that of the level when its stroke is read: keys  *)
(* with two of them that are unsettled when the level changes are mixed up.*)
Mixed == IF (held \intersect Shifts = {}) = (held' \intersect Shifts = {}) THEN {}
         ELSE Levelled \intersect Unsettled

(* The next stroke that is seen tells of a key again, if it has one symbol.*)
PressKey(k) ==
    /\ k \notin held /\ held' = held \union {k}
    /\ unsure' = (unsure \union Mixed) \ ({k} \ Levelled)
    /\ Sent([kind |-> "press", key |-> k, held |-> held', unsure |-> unsure'])
    /\ UNCHANGED <<selection, client, clock, crossed, report>>

ReleaseKey(k) ==
    /\ k \in held /\ held' = held \ {k}
    /\ unsure' = (unsure \union Mixed) \ ({k} \ Levelled)
    /\ Sent([kind |-> "release", key |-> k, held |-> held, unsure |-> unsure])
    /\ UNCHANGED <<selection, client, clock, crossed, report>>

(* A key that is let go while another client has the keyboard.             *)
ReleaseElsewhere(k) ==
    /\ k \in held /\ held' = held \ {k} /\ unsure' = unsure \union Mixed \union {k}
    /\ UNCHANGED <<queue, selection, client, clock, crossed, report>>

Mouse(kind) ==
    /\ Sent([kind |-> kind, time |-> clock])
    /\ UNCHANGED <<selection, client, world, report>>

(* Another client takes a selection, or asks for one, with a property to   *)
(* put it in or, as old clients do, without.                               *)
PeerCopy(s) ==
    /\ owner[s] # Peer /\ owner' = [owner EXCEPT ![s] = Peer]
    /\ IF owner[s] \in Wins THEN Sent([kind |-> "clear"]) ELSE UNCHANGED queue
    /\ Call /\ UNCHANGED <<property, client, held, unsure, crossed, report>>

PeerPaste(s, target, where) ==
    /\ owner[s] \in Wins
    /\ Sent([kind |-> "request", sel |-> s, requestor |-> Peer,
             target |-> target, property |-> where])
    /\ Call /\ UNCHANGED <<selection, client, held, unsure, crossed, report>>

(* xorg_send_expose and its kin: an event goes through the server.         *)
Send(w, kind) ==
    /\ Sent([kind |-> kind, win |-> w])
    /\ UNCHANGED <<selection, client, world, report>>

-----------------------------------------------------------------------------
(* The calls of the program.                                               *)
Copy(w, s) ==
    /\ owner' = [owner EXCEPT ![s] = w]
    /\ Call /\ UNCHANGED <<queue, property, client, held, unsure, crossed, report>>

(* The pastes under way: who asked, for which selection.                   *)
Own(e) == e.kind \in {"request", "notify"} /\ e.requestor \in Wins
Pair(e) == <<e.requestor, e.sel>>
Told == report.kind = "copy" /\ report.win \in Wins /\ Own(report.of)
UnderWay == {Pair(queue[i]) : i \in {j \in DOMAIN queue : Own(queue[j])}}
            \union (IF Told THEN {Pair(report.of)} ELSE {})

(* Two of one window wait for the same property, two of one selection for  *)
(* the same window.                                                        *)
Rivals(w, s) == {p \in UnderWay : p[1] = w \/ p[2] = s}

(* A selection is asked for; a peer that owns it may refuse.               *)
Paste(w, s) ==
    /\ pasting' = [pasting EXCEPT ![s] = w]
    /\ crossed' = (crossed \intersect UnderWay) \union Rivals(w, s)
                  \union (IF Rivals(w, s) = {} THEN {} ELSE {<<w, s>>})
    /\ \/ /\ owner[s] \in Wins
          /\ Sent([kind |-> "request", sel |-> s, requestor |-> w,
                   target |-> "utf8", property |-> "utf8"])
          /\ UNCHANGED property
       \/ /\ owner[s] = Peer
          /\ property' = [property EXCEPT ![w] = Peer]
          /\ Sent([kind |-> "notify", sel |-> s, requestor |-> w, property |-> "utf8",
                   text |-> Peer])
       \/ /\ owner[s] \notin Wins
          /\ Sent([kind |-> "notify", sel |-> s, requestor |-> w, property |-> NONE])
          /\ UNCHANGED property
    /\ Call /\ UNCHANGED <<owner, mods, mousetime, mousestate, held, unsure, report>>

-----------------------------------------------------------------------------
(* xorg_event_new.                                                         *)
Taken == queue # <<>> /\ queue' = Tail(queue)
First(kinds) == queue # <<>> /\ Head(queue).kind \in kinds

(* The symbol a key has now, at the level the keys that are held make: the *)
(* state is asked from the server when the event is read.                  *)
Symbol(k) == <<k, IF k \in Levelled /\ held \intersect Shifts # {} THEN "shifted" ELSE "plain">>
KeyReport(m) == [kind |-> "key", mods |-> m, held |-> Head(queue).held,
                 unsure |-> Head(queue).unsure \union (unsure \intersect Levelled)]

OnKeyPress ==
    /\ First({"press"}) /\ Taken
    /\ mods' = mods \union {Symbol(Head(queue).key)}
    /\ report' = KeyReport(mods')
    /\ UNCHANGED <<selection, pasting, mousetime, mousestate, world>>

(* A release that leaves the modifiers as they were.                       *)
OnKeyReleaseKeeps ==
    /\ First({"release"}) /\ Taken
    /\ report' = KeyReport(mods)
    /\ UNCHANGED <<selection, client, world>>

OnKeyRelease ==
    /\ First({"release"}) /\ Taken
    /\ mods' = mods \ {Symbol(Head(queue).key)}
    /\ report' = KeyReport(mods)
    /\ UNCHANGED <<selection, pasting, mousetime, mousestate, world>>

OnButtonPress ==
    /\ First({"down"}) /\ Taken
    /\ IF Head(queue).time - mousetime > DblClickMs
       THEN mousetime' = Head(queue).time /\ mousestate' = 1
       ELSE UNCHANGED <<mousetime, mousestate>>
    /\ report' = [kind |-> "down", time |-> Head(queue).time]
    /\ UNCHANGED <<selection, pasting, mods, world>>

OnButtonRelease ==
    /\ First({"up"}) /\ Taken
    /\ LET since == Head(queue).time - mousetime
           what == CASE mousestate = 1 /\ since < ClickMs -> "click"
                     [] mousestate = 2 /\ since < DblClickMs -> "dblclick"
                     [] OTHER -> "up"
       IN /\ mousestate' = IF what = "click" THEN 2 ELSE mousestate
          /\ report' = [kind |-> what, time |-> Head(queue).time]
    /\ UNCHANGED <<selection, pasting, mods, mousetime, world>>

(* Whoever owns the selection now is told to send it, which need not be    *)
(* the one that was asked: it is a question to the server.  No window of   *)
(* the client answers for another client.                                  *)
OnRequest ==
    /\ First({"request"}) /\ Taken
    /\ report' = [kind |-> "copy", win |-> owner[Head(queue).sel], of |-> Head(queue)]
    /\ UNCHANGED <<selection, client, world>>

(* xorg_send_copy by the window that was told.  Without a property the     *)
(* text goes to the property of its type, of which the answer says         *)
(* nothing; a type that is not known is refused.                           *)
Answer ==
    /\ report.kind = "copy" /\ report.win \in Wins
    /\ LET to == report.of.requestor
           known == report.of.target \in {"utf8", "targets"}
           said == IF known THEN report.of.property ELSE NONE
           text == IF report.of.target = "utf8" THEN report.win ELSE "targets"
       IN \/ to = Peer /\ UNCHANGED <<property, queue>>
          \/ /\ to \in Wins
             /\ property' = IF known THEN [property EXCEPT ![to] = text] ELSE property
             /\ Sent([kind |-> "notify", sel |-> report.of.sel, requestor |-> to,
                      property |-> said, text |-> text])
    /\ report' = Nothing
    /\ UNCHANGED <<owner, client, world>>

OnRefusal ==
    /\ First({"notify"}) /\ Head(queue).property = NONE /\ Taken
    /\ report' = Nothing
    /\ UNCHANGED <<selection, client, world>>

(* The text is what the property holds by now, and it is the window that   *)
(* pasted last from this selection that is given it.                       *)
OnNotify ==
    /\ First({"notify"}) /\ Head(queue).property # NONE /\ Taken
    /\ report' = [kind |-> "paste", win |-> pasting[Head(queue).sel], of |-> Head(queue),
                  text |-> property[Head(queue).requestor],
                  alone |-> Pair(Head(queue)) \notin crossed]
    /\ UNCHANGED <<selection, client, world>>

OnPlain ==
    /\ First({"expose", "motion", "configure", "focus"}) /\ Taken
    /\ report' = [kind |-> Head(queue).kind, win |-> Head(queue).win]
    /\ UNCHANGED <<selection, client, world>>

OnClear ==
    /\ First({"clear"}) /\ Taken /\ report' = Nothing
    /\ UNCHANGED <<selection, client, world>>

(* The connection breaks and is made anew: what was under way is lost and  *)
(* the windows are gone, but the client goes on with the modifiers it knew.*)
Reconnect ==
    /\ queue' = <<>> /\ report' = Nothing
    /\ owner' = [s \in Selections |-> IF owner[s] \in Wins THEN NONE ELSE owner[s]]
    /\ property' = [w \in Wins |-> NONE]
    /\ unsure' = unsure \union held \union Stroked /\ crossed' = {}
    /\ UNCHANGED <<client, clock, held>>

Event ==
    /\ report.kind = "copy" => report.win \notin Wins
    /\ \/ OnKeyPress \/ OnKeyRelease \/ OnButtonPress \/ OnButtonRelease
       \/ OnRequest \/ OnRefusal \/ OnNotify \/ OnPlain \/ OnClear

Keyboard == \E k \in Keys : PressKey(k) \/ ReleaseKey(k) \/ ReleaseElsewhere(k)
Pointer == Tick \/ \E kind \in {"down", "up"} : Mouse(kind)
Selecting ==
    \/ \E s \in Selections :
           PeerCopy(s) \/ \E w \in Wins : Copy(w, s) \/ Paste(w, s)
    \/ \E s \in Selections, how \in {<<"utf8", "utf8">>, <<"utf8", NONE>>, <<"image", "utf8">>} :
           PeerPaste(s, how[1], how[2])
    \/ Answer
WindowEvents == \E w \in Wins, k \in {"expose", "focus"} : Send(w, k)

-----------------------------------------------------------------------------
(* However late an event is read, the client has for each key that was     *)
(* held when it was sent one modifier and for the others none; not for     *)
(* keys let go where it could not see it until it sees them again, nor for *)
(* a key with two symbols once the level changed while it was unsettled    *)
(* (xorg.c:1830-1982).                                                     *)
ModifiersRight == report.kind = "key" =>
    \A k \in Keys \ report.unsure :
        /\ k \in report.held <=> \E m \in report.mods : m[1] = k
        /\ \A m, n \in report.mods : m[1] = k /\ n[1] = k => m = n

(* A click was released soon after the press it counts from, a double      *)
(* click before the time of one is over, and only after a click            *)
(* (xorg.c:1984-2030).                                                     *)
ClicksRight ==
    /\ report.kind = "click" => report.time - mousetime < ClickMs /\ mousestate = 2
    /\ report.kind = "dblclick" => report.time - mousetime < DblClickMs /\ mousestate = 2

(* A paste is given to the window that asked for it, and it is the text    *)
(* its owner has sent, unless another of this window or this selection was *)
(* under way with it; no paste finds its property empty, where the client  *)
(* would read no string at all (xorg.c:936-987, 2132-2183).                *)
PasteRight ==
    report.kind = "paste" =>
        /\ report.text # NONE /\ report.win # NONE
        /\ report.alone =>
               report.win = report.of.requestor /\ report.text = report.of.text

EventsRight == ModifiersRight /\ ClicksRight /\ PasteRight
=============================================================================
