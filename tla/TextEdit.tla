------------------------------ MODULE TextEdit -------------------------------
(***************************************************************************)
(* The text box of ef/graphics/guiText.c as gui_simple_text_new makes it:  *)
(* text in lines that wrap at the width of the window, with a cursor and a *)
(* selection, edited by the keyboard, the mouse and the clipboard, laid    *)
(* out in a window that scrolls down.  An action is an event with its      *)
(* whole handler.                                                          *)
(*                                                                         *)
(* A character is a letter, a tab or the end of a line of one byte, or a   *)
(* letter "w" of two.  A position is the number of characters before it;   *)
(* the ends of the selection are pointers, so of bytes.  Once a text is    *)
(* torn, by an edit of characters of two widths (module Texts), or through *)
(* ends of a selection that are within a character or in memory that was   *)
(* freed, nothing more is said of it.  Left out: an insertion before more  *)
(* than the room holds, what a copy sends, pixels and a theme that makes   *)
(* the box scroll sideways.                                                *)
(***************************************************************************)
EXTENDS Integers, Sequences, FiniteSets, SequencesExt

CONSTANTS Chars,            \* those that are typed: of "a", "w", "tab", "nl"
          MaxLen,           \* bound of the text
          W, H,             \* the window, in pixels
          Adv, LineH, Tab,  \* width of a letter, height of a line, width of a tab
          Points            \* where the mouse may be: pixels
CurW == 1                   \* GUI_TEXT_CURSOR_THIN

VARIABLES text, it,             \* txt->text, and txt->it.str as a position
          selStart, selEnd,     \* the bytes before them + 1, or 0 for NULL
          insert, selecting,    \* GUI_TEXT_INSERT, GUI_TEXT_SEL
          cursor, scroll,       \* where it is laid out, the rows scrolled away
          rend,                 \* GUI_TEXT_REND_CURSOR, _SCROLL, _CURON
          blink,                \* the timer of the cursor runs
          buf,                  \* txt->size; ghost: a selection in memory
                                \* that was freed, a text that was torn
          drawn                 \* the cursor as it was drawn, or <<>>
vars == <<text, it, selStart, selEnd, insert, selecting, cursor, scroll, rend, blink, drawn, buf>>

(* txt->resize: as many characters as the window has places.               *)
Room == (W \div Adv) * (H \div LineH)

Init ==
    /\ text = <<>> /\ it = 0 /\ selStart = 0 /\ selEnd = 0
    /\ insert = TRUE /\ selecting = FALSE
    /\ cursor = [x |-> 0, y |-> 0] /\ scroll = 0
    /\ rend = {} /\ blink = FALSE /\ drawn = <<>>
    /\ buf = [size |-> Room, stale |-> FALSE, torn |-> FALSE]

-----------------------------------------------------------------------------
(* The layout.  Where the cursor is after character k of t, and where the  *)
(* character itself is.                                                    *)
Wide(ch) == IF ch = "tab" THEN Tab ELSE Adv
Wraps(x, ch) == x + Wide(ch) >= W

Layout(t) ==
    LET at[k \in 0..Len(t)] ==
            IF k = 0 THEN [x |-> 0, y |-> 0, left |-> 0, top |-> 0]
            ELSE LET p == at[k - 1]
                     wrap == Wraps(p.x, t[k])
                     x == IF wrap THEN 0 ELSE p.x
                     y == IF wrap THEN p.y + LineH ELSE p.y
                 IN CASE t[k] = "nl" ->
                           [x |-> 0, y |-> p.y + LineH, left |-> p.x, top |-> p.y]
                      [] t[k] = "tab" /\ wrap ->
                           [x |-> 0, y |-> y, left |-> 0, top |-> y]
                      [] OTHER ->
                           [x |-> x + Wide(t[k]), y |-> y, left |-> x, top |-> y]
    IN at

(* The cursor is held to the window, and the rows scroll to its own.       *)
Held(x) == IF x <= CurW THEN 0 ELSE IF x + CurW >= W THEN W ELSE x
Rows(y, from) ==
    IF from > 0 /\ y < from THEN y
    ELSE IF y + LineH - from >= H THEN y + LineH - H ELSE from

(* The cursor is drawn as the flag says, and a blink turns the flag over.  *)
Over(r) == IF "on" \in r THEN r \ {"on"} ELSE r \cup {"on"}

(* gui_text_redraw with the flags r, from rows that are scrolled away.     *)
RedrawFrom(t, i, r, from, blinks) ==
    LET at == Layout(t)[i]
        x == IF "scroll" \in r THEN Held(at.x) ELSE at.x
        rows == IF "scroll" \in r THEN Rows(at.y, from) ELSE from
        shown == "cursor" \in r /\ "on" \in r
    IN /\ cursor' = [x |-> x, y |-> at.y] /\ scroll' = rows
       /\ drawn' = IF shown
                   THEN <<IF x > CurW + 1 THEN x - CurW + 1 ELSE 0, at.y - rows>>
                   ELSE <<>>
       /\ LET left == r \ ({"scroll"} \cup IF shown THEN {"cursor"} ELSE {})
          IN rend' = IF blinks THEN Over(left) ELSE left

Redraw(t, i, r) == RedrawFrom(t, i, r, scroll, FALSE)

-----------------------------------------------------------------------------
(* The bytes of a character, and those before a position.                  *)
Width(ch) == IF ch = "w" THEN 2 ELSE 1
Byte(t, i) == i + Cardinality({k \in 1..i : t[k] = "w"})

(* The selection in bytes, whichever end is first.                         *)
Selected == selStart # selEnd
SelFrom == (IF selStart < selEnd THEN selStart ELSE selEnd) - 1
SelTo == (IF selStart < selEnd THEN selEnd ELSE selStart) - 1
Starts == {i \in 0..Len(text) : Byte(text, i) = SelFrom}

(* From position i, n characters, or as many as there are.                 *)
Cut(t, i, n) == SubSeq(t, 1, i) \o SubSeq(t, i + n + 1, Len(t))

(* The text, the position and the room once a selection is deleted: as     *)
(* many characters as it has bytes; one that is empty stays set.           *)
Here == [t |-> text, i |-> it, size |-> buf.size, torn |-> FALSE]
Without ==
    IF ~Selected THEN Here
    ELSE IF buf.stale \/ Starts = {} THEN [Here EXCEPT !.torn = TRUE]
    ELSE LET from == CHOOSE i \in Starts : TRUE
         IN [Here EXCEPT !.t = Cut(text, from, SelTo - SelFrom), !.i = from]
Deselected == IF Selected THEN selStart' = 0 /\ selEnd' = 0 /\ selecting' = FALSE
              ELSE UNCHANGED <<selStart, selEnd, selecting>>

(* More room when there is little behind the cursor.                       *)
Grown(at) == IF Byte(at.t, at.i) + 4 >= at.size - 1 THEN at.size + Room ELSE at.size

(* The bytes come out right when the new character is as wide as those it  *)
(* is put over are (module Texts).                                         *)
Follows(ch, rest) ==
    \/ rest = <<>>
    \/ insert /\ \E k \in DOMAIN rest : Byte(rest, Len(rest)) - Byte(rest, k - 1) = Width(ch)
    \/ ~insert /\ Width(Head(rest)) = Width(ch)

Put(at, ch) ==
    LET rest == SubSeq(at.t, at.i + 1, Len(at.t))
        behind == IF insert \/ rest = <<>> THEN rest ELSE Tail(rest)
    IN IF at.torn \/ ~Follows(ch, rest) THEN [at EXCEPT !.torn = TRUE]
       ELSE [t |-> SubSeq(at.t, 1, at.i) \o <<ch>> \o behind, i |-> at.i + 1,
             size |-> Grown(at), torn |-> FALSE]

PutAll(at, s) == FoldLeft(Put, at, s)

(* Lines: where the line of position i starts, and its length from i.      *)
Ends == {k \in DOMAIN text : text[k] = "nl"}
LineStart(i) == CHOOSE k \in {0} \cup Ends :
                    k <= i /\ \A j \in Ends : j <= i => j <= k
LineEnd(i) == CHOOSE k \in i..Len(text) :
                    /\ k = Len(text) \/ k + 1 \in Ends
                    /\ \A j \in i..(k - 1) : j + 1 \notin Ends
NoLine == -1
BackLine(i) == IF LineStart(i) = 0 THEN NoLine ELSE LineStart(LineStart(i) - 1)
NextLine(i) == IF LineEnd(i) = Len(text) THEN NoLine ELSE LineEnd(i) + 1

(* The column col of the line at i, or its end.                            *)
ToColumn(i, col) == IF i + col < LineEnd(i) THEN i + col ELSE LineEnd(i)
Vertical(to) == IF to = NoLine THEN it ELSE ToColumn(to, it - LineStart(it))

(* Lines are turned over n times, as far as there are lines; all of them   *)
(* were there.                                                             *)
Turned(Line(_), from, n) ==
    LET go[k \in 0..n] ==
            IF k = 0 THEN [to |-> from, all |-> FALSE]
            ELSE LET next == Line(go[k - 1].to) IN
                 IF next = NoLine THEN [to |-> go[k - 1].to, all |-> FALSE]
                 ELSE [to |-> next, all |-> TRUE]
    IN go[n]

(* A page and back: the rows of the window and those of the column of the  *)
(* cursor, where the code takes cursor.x for cursor.y; unsigned, so a      *)
(* difference below zero is more lines than there are.                     *)
Count(n) == IF n < 0 THEN MaxLen + 1 ELSE n
Full == H \div LineH
Page(Line(_), Back(_), n, back) ==
    LET over == Turned(Line, LineStart(it), Count(n))
        to == IF over.all THEN Turned(Back, over.to, Count(back)).to ELSE over.to
    IN [to |-> ToColumn(to, it - LineStart(it)),
        from |-> IF over.all THEN Rows(Layout(text)[over.to].y, scroll) ELSE scroll]
PageUp == LET up == cursor.x \div LineH IN Page(BackLine, NextLine, Full + up, up)
PageDown ==
    LET down == Full - cursor.x \div LineH IN Page(NextLine, BackLine, Full + down, down)

Separators == {"tab", "nl"}
WordLeft == CHOOSE k \in 0..it :
                /\ k = 0 \/ text[k] \in Separators
                /\ \A j \in (k + 1)..it : text[j] \notin Separators
WordRight == CHOOSE k \in it..Len(text) :
                /\ k = Len(text) \/ text[k + 1] \in Separators
                /\ \A j \in (it + 1)..k : text[j] \notin Separators

-----------------------------------------------------------------------------
(* The text as it is edited.  mem_resize moves it, but not the ends of a   *)
(* selection that stays set.                                               *)
Becomes(at) ==
    /\ text' = at.t /\ it' = at.i
    /\ \E moved \in BOOLEAN :
          buf' = [size |-> at.size, torn |-> at.torn,
                  stale |-> selStart' > 0 /\ (buf.stale \/ (at.size > buf.size /\ moved))]

Edited(at, flags) ==
    /\ Len(at.t) <= MaxLen
    /\ Becomes(at)
    /\ Redraw(at.t, at.i, rend \cup flags \cup {"on"})
Moved == {"cursor", "scroll"}

(* A letter, Return or Tab takes the place of the selection.               *)
Type(ch) ==
    /\ Deselected
    /\ Edited(Put(Without, ch), Moved)
    /\ UNCHANGED <<insert, blink>>

(* Backspace and Delete: the selection, also an empty one, or a character. *)
Erase(back) ==
    /\ IF selStart > 0
       THEN Deselected /\ Edited(Without, IF Selected THEN Moved ELSE {})
       ELSE /\ UNCHANGED <<selStart, selEnd, selecting>>
            /\ LET k == IF back THEN it ELSE it + 1
               IN IF k \in DOMAIN text
                  THEN Edited([Here EXCEPT !.t = RemoveAt(text, k), !.i = k - 1], Moved)
                  ELSE Edited(Here, IF back THEN {} ELSE Moved)
    /\ UNCHANGED <<insert, blink>>

Select(i) ==
    /\ selStart' = IF selStart > 0 THEN selStart ELSE Byte(text, i) + 1
    /\ selEnd' = Byte(text, i) + 1 /\ selecting' = TRUE
    /\ UNCHANGED buf
Selection(from, to, on) ==
    /\ selStart' = from /\ selEnd' = to /\ selecting' = on
    /\ buf' = [buf EXCEPT !.stale = FALSE]
Unselect == Selection(0, 0, FALSE)

(* A key that moves the cursor; with Shift the selection follows it.       *)
Move(to, from, shift) ==
    /\ it' = to
    /\ IF shift THEN Select(to) ELSE Unselect
    /\ RedrawFrom(text, to, rend \cup Moved \cup {"on"}, from, FALSE)
    /\ UNCHANGED <<text, insert, blink>>

(* Left, Right, with Ctrl, Home, End, Up and Down.                         *)
Horizontal ==
    {IF it > 0 THEN it - 1 ELSE 0, IF it < Len(text) THEN it + 1 ELSE it,
     WordLeft, WordRight, LineStart(it), LineEnd(it)}

MoveKey(shift) ==
    \/ \E to \in Horizontal \cup {Vertical(BackLine(it)), Vertical(NextLine(it))} :
          Move(to, scroll, shift)
    \/ \E page \in {PageUp, PageDown} : Move(page.to, page.from, shift)

ShiftKey ==
    /\ Select(it)
    /\ Redraw(text, it, rend \cup {"on"})
    /\ UNCHANGED <<text, it, insert, blink>>

SuperKey ==
    /\ Unselect
    /\ UNCHANGED <<text, it, insert, cursor, scroll, rend, blink, drawn>>

InsertKey ==
    /\ insert' = ~insert
    /\ Redraw(text, it, rend \cup {"on"})
    /\ UNCHANGED <<text, it, selStart, selEnd, selecting, blink, buf>>

(* Ctrl-X; Ctrl-C and Ctrl-V change nothing here.                          *)
CutKey ==
    /\ selStart > 0
    /\ Deselected /\ Edited(Without, IF Selected THEN Moved ELSE {})
    /\ UNCHANGED <<insert, blink>>

(* The answer to a paste: it is not drawn before the next event.           *)
Paste(s) ==
    LET at == PutAll(Without, s) IN
    /\ Len(at.t) <= MaxLen
    /\ Deselected /\ Becomes(at)
    /\ rend' = rend \cup Moved
    /\ UNCHANGED <<insert, cursor, scroll, blink, drawn>>

-----------------------------------------------------------------------------
(* The character under a point of the window, and the position it gives;   *)
(* the coordinates are unsigned.                                           *)
In(v, low, size) == low >= 0 /\ v > low /\ v < low + size

Hits(x, y) ==
    {k \in DOMAIN text : LET p == Layout(text)[k] IN
        /\ In(y, p.top - scroll, LineH)
        /\ text[k] # "nl" => In(x, p.left, Wide(text[k]))}

AtPoint(x, y) ==
    LET hits == Hits(x, y)
        k == CHOOSE j \in hits : \A l \in hits : j <= l
    IN IF hits = {} THEN it
       ELSE IF text[k] = "tab" /\ ~Wraps(Layout(text)[k - 1].x, "tab") THEN k ELSE k - 1

Press(x, y) ==
    LET to == AtPoint(x, y) IN
    /\ it' = to /\ Selection(Byte(text, to) + 1, Byte(text, to) + 1, TRUE)
    /\ Redraw(text, to, rend \cup {"cursor", "on"})
    /\ UNCHANGED <<text, insert, blink>>

Drag(x, y) ==
    /\ selecting
    /\ it' = AtPoint(x, y) /\ Select(it')
    /\ Redraw(text, it', rend \cup {"cursor", "on"})
    /\ UNCHANGED <<text, insert, blink>>

Release ==
    /\ selecting' = FALSE
    /\ Redraw(text, it, rend)
    /\ UNCHANGED <<text, it, selStart, selEnd, insert, blink, buf>>

Click(x, y) ==
    /\ it' = AtPoint(x, y) /\ Unselect
    /\ Redraw(text, it', rend \cup {"cursor", "on"})
    /\ UNCHANGED <<text, insert, blink>>

(* The word at the cursor, with the separator that ends it.                *)
DoubleClick ==
    LET to == CHOOSE k \in WordLeft..Len(text) :
                /\ k = Len(text) \/ text[k + 1] \in Separators
                /\ \A j \in (WordLeft + 1)..k : text[j] \notin Separators
    IN /\ Selection(Byte(text, WordLeft) + 1, Byte(text, to) + (IF to = Len(text) - 1 THEN 2 ELSE 1), FALSE)
       /\ Redraw(text, it, rend \cup Moved)
       /\ UNCHANGED <<text, it, insert, blink>>

Wheel(line) ==
    /\ it' = Vertical(line)
    /\ Redraw(text, it', rend \cup IF line = NoLine THEN {} ELSE Moved)
    /\ UNCHANGED <<text, selStart, selEnd, insert, selecting, blink, buf>>

(* The middle button deletes the selection and asks for the primary one.   *)
MiddleClick ==
    /\ selStart > 0
    /\ Deselected /\ Becomes(Without)
    /\ rend' = rend \cup IF Selected THEN Moved ELSE {}
    /\ UNCHANGED <<insert, cursor, scroll, blink, drawn>>

Blink ==
    /\ blink
    /\ RedrawFrom(text, it, rend \cup {"cursor"}, scroll, TRUE)
    /\ UNCHANGED <<text, it, selStart, selEnd, insert, selecting, blink, buf>>

Focused(in) ==
    /\ blink' = in
    /\ RedrawFrom(text, it, IF in THEN rend \cup {"cursor", "on"}
                            ELSE (rend \ {"on"}) \cup {"cursor"}, scroll, TRUE)
    /\ UNCHANGED <<text, it, selStart, selEnd, insert, selecting, buf>>

-----------------------------------------------------------------------------
Key ==
    \/ \E ch \in Chars : Type(ch)
    \/ \E back \in BOOLEAN : Erase(back)
    \/ \E shift \in BOOLEAN : MoveKey(shift)
    \/ ShiftKey \/ SuperKey \/ InsertKey \/ CutKey

Mouse ==
    \/ \E p \in Points : Press(p[1], p[2]) \/ Drag(p[1], p[2]) \/ Click(p[1], p[2])
    \/ Release \/ DoubleClick \/ MiddleClick
    \/ Wheel(BackLine(it)) \/ Wheel(NextLine(it))

Next ==
    /\ ~buf.torn
    /\ \/ Key \/ Mouse \/ Blink
       \/ \E s \in Chars \X Chars : Paste(s)
       \/ \E in \in BOOLEAN : Focused(in)

Spec == Init /\ [][Next]_vars

-----------------------------------------------------------------------------
(* What is between the ends of the selection; what an edit takes away for  *)
(* it: as many characters as it has bytes.                                 *)
Marked == {k \in DOMAIN text : SelFrom <= Byte(text, k - 1) /\ Byte(text, k) <= SelTo}
Taken == {k \in DOMAIN text : \E i \in Starts : i < k /\ k <= i + (SelTo - SelFrom)}

=============================================================================
