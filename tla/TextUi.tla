------------------------------- MODULE TextUi --------------------------------
(***************************************************************************)
(* The text interface (ef/term/tui*.c): a tree of widgets of which one has *)
(* the focus, the loop that gives it the keys and does what its handler    *)
(* returns, a list that scrolls, and message boxes, each with a loop of    *)
(* its own inside the handler that opened it.                              *)
(*                                                                         *)
(* The tree is that of test/src/term.c.  The boxes are not modal: keys and *)
(* the mouse lead out of them, and to the widgets that open another.  An   *)
(* action is a key with all that the loop does with it, up to the next key *)
(* of any loop.  Left out: what a text field does with its keys, and       *)
(* drawing but for the places of a list.                                   *)
(***************************************************************************)
EXTENDS Integers, Sequences, FiniteSets, SequencesExt

CONSTANTS Root, Win, Label, Button, Text, List,   \* the widgets
          Boxes, Lbl, Ok,       \* message boxes, a sequence, with their children
          Area,                 \* the rows and columns of each, [top, left, h, w]
          Points,               \* where the mouse may click
          Names, Height, Width, \* of the list: the widths of its entries; its area
          MaxDeaf               \* bound of the boxes that take a widget's eventFocus

VARIABLES childs,       \* tui->childs
          focus,        \* root->focus
          lit,          \* tui->focused
          deaf,         \* whose eventFocus was taken away
          waits,        \* the loops: box, the focus of before, who opened it
          sel, scroll,  \* of the list: the row of the cursor, the first row
          val,          \* the entry of it that is on, or 0
          running
vars == <<childs, focus, lit, deaf, waits, sel, scroll, val, running>>

Count == Len(Names)
InBox(b) == {Boxes[b], Lbl[b], Ok[b]}
Widgets == {Root, Win, Label, Button, Text, List} \cup UNION {InBox(b) : b \in DOMAIN Boxes}
Parent(w) == CHOOSE p \in Widgets : w \in Range(childs[p])

Init ==
    /\ childs = [w \in Widgets |-> IF w = Root THEN <<Win>> ELSE
                    IF w = Win THEN <<Label, Button, Text, List>> ELSE <<>>]
    /\ focus = List /\ lit = {List} /\ deaf = {} /\ waits = <<>>
    /\ sel = 0 /\ scroll = 0 /\ val = 0 /\ running = TRUE

-----------------------------------------------------------------------------
(* tui_root_focus_set; the widget that loses it is drawn without, unless   *)
(* it no longer hears of it.                                               *)
FocusSet(f) ==
    /\ focus' = f
    /\ lit' = (IF focus \in deaf THEN lit ELSE lit \ {focus})
                 \cup (IF f \in deaf THEN {} ELSE {f})
    /\ UNCHANGED deaf

Inside(w, p) ==
    /\ p.row >= Area[w].top /\ p.row <= Area[w].top + Area[w].h
    /\ p.col >= Area[w].left /\ p.col <= Area[w].left + Area[w].w

(* tui_root_getin: the deepest widget under the mouse, of those that       *)
(* overlap the oldest.                                                     *)
Within(w, p) ==
    \E x \in {w} \cup Range(childs[w]) \cup UNION {Range(childs[y]) : y \in Range(childs[w])} :
       Inside(x, p)

RECURSIVE GetIn(_, _)
GetIn(w, p) ==
    LET under == {i \in DOMAIN childs[w] : Within(childs[w][i], p)}
    IN IF under = {} THEN w ELSE GetIn(childs[w][Min(under)], p)

Unchanged == UNCHANGED <<childs, waits, sel, scroll, val, running>>

ChildNext(w) ==
    LET s == childs[Parent(w)] i == CHOOSE n \in DOMAIN s : s[n] = w
    IN s[IF i < Len(s) THEN i + 1 ELSE 1]

ChildPrev(w) ==
    LET s == childs[Parent(w)] i == CHOOSE n \in DOMAIN s : s[n] = w
    IN s[IF i = 1 THEN Len(s) ELSE i - 1]

(* tui_window_msgbox up to its loop, called by who.                        *)
MsgBox(who) ==
    LET b == Len(waits) + 1 box == Boxes[b]
    IN /\ b \in DOMAIN Boxes /\ Cardinality(deaf) < MaxDeaf
       /\ childs' = [childs EXCEPT ![Root] = Append(@, box), ![box] = <<Lbl[b], Ok[b]>>]
       /\ waits' = Append(waits, [box |-> box, old |-> focus, who |-> who])
       /\ focus' = Ok[b]
       /\ lit' = (IF focus \in deaf THEN lit ELSE lit \ {focus}) \cup {Ok[b]}
       /\ UNCHANGED <<deaf, sel, scroll, val, running>>

(* A slip of EndWait: who gets the focus back does not show it.            *)
EndWaitDark ==
    LET w == Last(waits) b == Len(waits) IN
    /\ waits' = Front(waits)
    /\ focus' = w.old
    /\ deaf' = (deaf \cup {focus}) \ InBox(b)
    /\ lit' = lit \ InBox(b)
    /\ childs' = [childs EXCEPT ![Root] = Remove(@, w.box), ![w.box] = <<>>]
    /\ val' = IF w.who = List THEN sel + scroll + 1 ELSE val
    /\ UNCHANGED <<sel, scroll, running>>

(* The end of tui_root_wait: who has the focus is to draw itself no more,  *)
(* the box is freed, and the handler that opened it goes on.               *)
EndWait ==
    LET w == Last(waits) b == Len(waits)
        gone == deaf \cup {focus}
    IN /\ waits' = Front(waits)
       /\ focus' = w.old
       /\ deaf' = gone \ InBox(b)
       /\ lit' = (lit \cup (IF w.old \in gone THEN {} ELSE {w.old})) \ InBox(b)
       /\ childs' = [childs EXCEPT ![Root] = Remove(@, w.box), ![w.box] = <<>>]
       /\ val' = IF w.who = List THEN sel + scroll + 1 ELSE val
       /\ UNCHANGED <<sel, scroll, running>>

(* TUI_EVENT_RETURN_EXIT ends the innermost loop.                          *)
Exit ==
    IF waits # <<>> THEN EndWait
    ELSE running' = FALSE /\ UNCHANGED <<childs, focus, lit, deaf, waits, sel, scroll, val>>

(* What tui_root_loop does with the value a handler returns.               *)
Loop(ret) ==
    CASE ret = "exit" -> Exit
      [] ret = "parent" /\ focus # Root -> FocusSet(Parent(focus)) /\ Unchanged
      [] ret = "child" /\ childs[focus] # <<>> -> FocusSet(childs[focus][1]) /\ Unchanged
      [] ret = "next" /\ focus # Root -> FocusSet(ChildNext(focus)) /\ Unchanged
      [] ret = "prev" /\ focus # Root -> FocusSet(ChildPrev(focus)) /\ Unchanged
      [] OTHER -> UNCHANGED vars

-----------------------------------------------------------------------------
(* The handlers.  tui_default_event_key; the message boxes swap right and  *)
(* left, and a text keeps what it does not know.                           *)
InBoxes == UNION {{Lbl[b], Ok[b]} : b \in DOMAIN Boxes}
DefaultKey(k) ==
    CASE k = "esc" -> "exit" [] k = "up" -> "parent" [] k = "down" -> "child"
      [] k = "right" -> "next" [] k = "left" -> "prev" [] OTHER -> "0"
BoxKey(k) == DefaultKey(IF k = "right" THEN "left" ELSE IF k = "left" THEN "right" ELSE k)
TextKey(k) ==
    CASE k = "esc" -> "parent" [] k = "npage" -> "next" [] k = "ppage" -> "prev" [] OTHER -> "0"

Press ==
    \/ focus = Button /\ MsgBox(Button)
    \/ focus = List /\ MsgBox(List)
    \/ focus \in Range(Ok) /\ Exit

Up ==
    IF sel > 0 THEN sel' = sel - 1 /\ UNCHANGED scroll
    ELSE IF scroll > 0 THEN scroll' = scroll - 1 /\ UNCHANGED sel
    ELSE scroll' = Count - 1 - (Height - 1) /\ sel' = Count - 1 - scroll'

Down ==
    IF sel < Height - 1 THEN sel' = sel + 1 /\ UNCHANGED scroll
    ELSE IF scroll + sel + 1 < Count THEN scroll' = scroll + 1 /\ UNCHANGED sel
    ELSE sel' = 0 /\ scroll' = 0

ListKey(k) ==
    \/ /\ k \in {"esc", "right", "left"}
       /\ Loop(CASE k = "esc" -> "parent" [] k = "right" -> "next" [] OTHER -> "prev")
    \/ /\ (k = "up" /\ Up) \/ (k = "down" /\ Down)
       /\ UNCHANGED <<childs, focus, lit, deaf, waits, val, running>>

Key(k) ==
    /\ running
    /\ \/ k = "enter" /\ Press
       \/ k # "enter" /\ focus = List /\ ListKey(k)
       \/ focus = Text /\ Loop(TextKey(k))
       \/ focus \in InBoxes /\ k # "enter" /\ Loop(BoxKey(k))
       \/ focus \in {Root, Win, Label, Button} \cup Range(Boxes) /\ k # "enter" /\ Loop(DefaultKey(k))

(* A button under the mouse is pressed, another widget takes the focus.    *)
Mouse(p) ==
    /\ running /\ focus # Text
    /\ LET w == GetIn(Root, p) IN
       \/ w = Button /\ MsgBox(Button)
       \/ w \in Range(Ok) /\ Exit
       \/ w \notin {Button} \cup Range(Ok) /\ FocusSet(w) /\ Unchanged

Next ==
    \/ \E k \in {"up", "down", "left", "right", "esc", "enter", "npage", "ppage"} : Key(k)
    \/ \E p \in Points : Mouse(p)

-----------------------------------------------------------------------------
(* tui_list_event_draw: where the entries go.  `we` grows from each entry  *)
(* to the next.                                                            *)
Drawn(mode) ==
    LET step(d, i) ==
            LET we == d.we + Names[i]
                at(r, c) == Append(d.at, [i |-> i, r |-> r, c |-> c, w |-> Names[i]])
            IN IF d.r >= Height THEN d
               ELSE IF mode = "vertical"
               THEN IF i <= scroll THEN d ELSE [d EXCEPT !.r = @ + 1, !.at = at(d.r, 0)]
               ELSE IF d.c >= Width THEN d
               ELSE IF we + d.c < Width
               THEN [d EXCEPT !.we = we, !.c = @ + we + 1, !.at = at(d.r, d.c)]
               ELSE IF mode = "grid" /\ d.r + 1 < Height
               THEN [we |-> we, r |-> d.r + 1, c |-> we + 1, at |-> at(d.r + 1, 0)]
               ELSE [d EXCEPT !.we = we, !.r = IF mode = "grid" THEN @ + 1 ELSE @, !.c = Width]
        draw[i \in 0..Count] ==
            IF i = 0 THEN [we |-> 0, r |-> 0, c |-> 0, at |-> <<>>] ELSE step(draw[i - 1], i)
    IN draw[Count].at

Tree == {Root} \cup UNION {Range(childs[w]) : w \in Widgets}

(* Whatever the boxes nest in and however the focus leaves them, the focus *)
(* and what each loop will restore are widgets of the tree, one that still *)
(* hears of it is drawn with the focus exactly when it has it; and the     *)
(* cursor of a list is on an entry it has and has drawn, no two of which   *)
(* overlap (tuiRoot.c:36-131; tuiList.c:32-189).                           *)
FocusHolds ==
    /\ {focus} \cup {waits[i].old : i \in DOMAIN waits} \subseteq Tree
    /\ \A w \in Tree \ deaf : w \in lit <=> w = focus
    /\ \E d \in Range(Drawn("vertical")) : d.i = sel + scroll + 1 /\ d.r = sel
    /\ \A mode \in {"vertical", "horizontal", "grid"} :
         \A d, e \in Range(Drawn(mode)) :
            /\ d.c + d.w <= Width /\ d.r < Height
            /\ d.i < e.i => d.r < e.r \/ (d.r = e.r /\ d.c + d.w <= e.c)
=============================================================================
