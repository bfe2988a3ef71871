------------------------------- MODULE XWindows -------------------------------
(***************************************************************************)
(* What ef/graphics/xorg.c holds of windows: the surfaces of the client's  *)
(* own (memory shared with the server, or private), and the walk through   *)
(* the windows of everybody that collects the applications, while those    *)
(* windows come, go and are moved by the window manager.                   *)
(***************************************************************************)
EXTENDS Integers, Sequences, SequencesExt, FiniteSets

CONSTANTS Wins,         \* windows with a surface
          Others, Root, \* the windows of the screen, numbers
          Desktops,     \* xorg_workspace_count
          NONE, MaxSegments   \* bound: shmget

VARIABLES
    shared,             \* x->shared
    img, ximage,        \* the pixels an image draws to, those that are sent
    attached, mapped,   \* the segments of the server and of the client
    live, dead, next,   \* memory in use, memory left behind, the next id
    parent, desktop,    \* the screen: of each window, NONE when it is gone
    frames, stack,      \* the levels of the walk, the applications so far
    touched             \* windows that changed while the walk went on
surface == <<img, ximage, attached, mapped, live, dead, next>>
walk == <<frames, stack, touched>>
vars == <<shared, surface, parent, desktop, walk>>

Init ==
    /\ shared \in BOOLEAN
    /\ img = [w \in Wins |-> NONE] /\ ximage = [w \in Wins |-> NONE]
    /\ attached = {} /\ mapped = {} /\ live = {} /\ dead = {} /\ next = 1
    /\ parent \in [Others -> Others \cup {Root}] /\ \A o \in Others : parent[o] < o
    /\ desktop \in [Others -> {-1, 0, Desktops}]
    /\ frames = <<>> /\ stack = <<>> /\ touched = {}

-----------------------------------------------------------------------------
(* Surfaces.  A segment is marked for removal at once, it stays as long as *)
(* one side has it.  The image of xcb is a block of its own, <<w, n>>.     *)
Fresh(w) ==
    /\ next < MaxSegments /\ next' = next + 1
    /\ img' = [img EXCEPT ![w] = next] /\ ximage' = [ximage EXCEPT ![w] = next]

Attach(w) ==
    /\ attached' = (attached \ {img[w]}) \cup (IF shared THEN {next} ELSE {})
    /\ mapped' = (mapped \ {img[w]}) \cup (IF shared THEN {next} ELSE {})

Blocks(n) == {<<"xcb", n>>} \cup (IF shared THEN {} ELSE {<<"pixel", n>>})

WinNew(w) ==
    /\ img[w] = NONE /\ Fresh(w) /\ Attach(w)
    /\ live' = live \cup Blocks(next)
    /\ UNCHANGED <<shared, dead, parent, desktop, walk>>

(* Nothing is detached when the size changes.                              *)
ResizeKeeps(w) ==
    /\ img[w] # NONE /\ Fresh(w)
    /\ attached' = attached \cup (IF shared THEN {next} ELSE {}) /\ mapped' = attached'
    /\ live' = (live \ Blocks(img[w])) \cup Blocks(next)
    /\ dead' = dead \cup (IF shared THEN {<<"xcb", img[w]>>} ELSE {})
    /\ UNCHANGED <<shared, parent, desktop, walk>>

(* In shared memory the xcb image of the old size is left behind.          *)
Resize(w) ==
    /\ img[w] # NONE /\ Fresh(w) /\ Attach(w)
    /\ live' = (live \ Blocks(img[w])) \cup Blocks(next)
    /\ dead' = dead \cup (IF shared THEN {<<"xcb", img[w]>>} ELSE {})
    /\ UNCHANGED <<shared, parent, desktop, walk>>

Destroy(w) ==
    /\ img[w] # NONE
    /\ img' = [img EXCEPT ![w] = NONE] /\ ximage' = [ximage EXCEPT ![w] = NONE]
    /\ attached' = attached \ {img[w]} /\ mapped' = mapped \ {img[w]}
    /\ live' = live \ Blocks(img[w])
    /\ UNCHANGED <<shared, dead, next, parent, desktop, walk>>

-----------------------------------------------------------------------------
(* The screen is a tree; o is below a: in every set that holds the         *)
(* children of a and with a window its children.                           *)
Under(o, a) == \A below \in SUBSET Others :
    (\A c \in Others : parent[c] \in below \cup {a} => c \in below) => o \in below

Children(p) == SetToSeq({o \in Others : parent[o] = p})

(* A window changes once in a walk: more than that may keep it going.      *)
Changes(o) == frames # <<>> /\ parent[o] # NONE /\ o \notin touched

(* Who is away takes its children with it.                                 *)
Vanish(o) ==
    /\ Changes(o)
    /\ parent' = [c \in Others |-> IF c = o \/ Under(c, o) THEN NONE ELSE parent[c]]
    /\ touched' = touched \cup {c \in Others : c = o \/ Under(c, o)}
    /\ UNCHANGED <<shared, surface, desktop, frames, stack>>

Reparent(o, p) ==
    /\ Changes(o) /\ p # o /\ p # parent[o]
    /\ p # Root => parent[p] # NONE /\ ~Under(p, o)
    /\ parent' = [parent EXCEPT ![o] = p]
    /\ touched' = touched \cup {c \in Others : c = o \/ Under(c, o)}
    /\ UNCHANGED <<shared, surface, desktop, frames, stack>>

SetDesktop(o, d) ==
    /\ Changes(o) /\ desktop[o] # d
    /\ desktop' = [desktop EXCEPT ![o] = d]
    /\ touched' = touched \cup {o}
    /\ UNCHANGED <<shared, surface, parent, frames, stack>>

-----------------------------------------------------------------------------
(* xorg_query_tree: the children of a window, and of each what the server  *)
(* answers.  A window that is gone, or has no desktop, answers nothing:    *)
(* -1 becomes -666, as an unsigned number more than any.                   *)
Cardinal(o) == IF o \in Others /\ parent[o] # NONE THEN desktop[o] ELSE -1
DesktopOf(o) == IF Cardinal(o) = -1 THEN NONE ELSE Cardinal(o)
QueryTree(p) ==
    IF p # Root /\ parent[p] = NONE THEN <<>>
    ELSE [i \in DOMAIN Children(p) |-> [id |-> Children(p)[i], desktop |-> DesktopOf(Children(p)[i])]]

Applies(e) == e.desktop # NONE /\ e.desktop < Desktops

Start ==
    /\ frames = <<>> /\ stack = <<>> /\ touched = {}
    /\ frames' = <<QueryTree(Root)>>
    /\ UNCHANGED <<shared, surface, parent, desktop, stack, touched>>

(* The windows below one that is no application are not looked at.         *)
VisitOnly ==
    /\ frames # <<>> /\ Head(frames) # <<>>
    /\ LET e == Head(Head(frames)) IN
        /\ stack' = IF Applies(e) THEN Append(stack, e) ELSE stack
        /\ frames' = <<IF Applies(e) THEN QueryTree(e.id) ELSE <<>>, Tail(Head(frames))>> \o Tail(frames)
    /\ UNCHANGED <<shared, surface, parent, desktop, touched>>

(* xorg_window_application: the next window of the innermost level is kept *)
(* or released, and the walk goes on below it.                             *)
Visit ==
    /\ frames # <<>> /\ Head(frames) # <<>>
    /\ LET e == Head(Head(frames)) IN
        /\ stack' = IF Applies(e) THEN Append(stack, e) ELSE stack
        /\ frames' = <<QueryTree(e.id), Tail(Head(frames))>> \o Tail(frames)
    /\ UNCHANGED <<shared, surface, parent, desktop, touched>>

Up ==
    /\ frames # <<>> /\ Head(frames) = <<>> /\ Len(frames) > 1
    /\ frames' = Tail(frames)
    /\ UNCHANGED <<shared, surface, parent, desktop, stack, touched>>

Surfaces == \E w \in Wins : WinNew(w) \/ Resize(w) \/ Destroy(w)
Screen == \E o \in Others :
    \/ Vanish(o)
    \/ \E p \in Others \cup {Root} : Reparent(o, p)
    \/ \E d \in {0, Desktops} : SetDesktop(o, d)
Walk == Start \/ Visit \/ Up
Next == Surfaces \/ Screen \/ Walk
Spec == Init /\ [][Next]_vars

-----------------------------------------------------------------------------
(* Every window has one surface: what is drawn on is what is sent, the     *)
(* server and the client share the segments of the windows that live and   *)
(* no other, and nothing that is in use was left behind                    *)
(* (xorg.c:1710-1819).                                                     *)
SurfacesHold ==
    LET drawn == {img[w] : w \in Wins} \ {NONE} IN
    /\ img = ximage
    /\ attached = mapped /\ attached = (IF shared THEN drawn ELSE {})
    /\ live = UNION {Blocks(n) : n \in drawn}
    /\ live \cap dead = {} /\ (~shared => dead = {})

(* When the walk is over every application that nobody touched meanwhile   *)
(* was found, and found once, whatever became of the others; what is on no *)
(* desktop is not among them (xorg.c:1016-1131).                           *)
ApplicationsFound ==
    /\ \A i \in DOMAIN stack : stack[i].desktop \in 0..(Desktops - 1)
    /\ frames = <<<<>>>> =>
           \A o \in Others \ touched : desktop[o] \in 0..(Desktops - 1) =>
               Cardinality({i \in DOMAIN stack : stack[i].id = o}) = 1
=============================================================================
