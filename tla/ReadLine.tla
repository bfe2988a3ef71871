------------------------------ MODULE ReadLine -------------------------------
(***************************************************************************)
(* A line of input in the terminal (ef/term/termreadline.c): the text, the *)
(* place in it, and the cursor on the screen, which each key moves and     *)
(* each drawing finds anew.  A text of ef/tui scrolls its rows, a line at  *)
(* the prompt makes the screen scroll when it reaches the bottom.          *)
(*                                                                         *)
(* An action is a key with the drawing that follows it.  Columns count     *)
(* from that of the line.  Left out: the mode that scrolls columns,        *)
(* characters of several bytes and those that are attributes.              *)
(***************************************************************************)
EXTENDS Integers, Sequences, SequencesExt

CONSTANTS Chars, NL,    \* what may be typed; the newline, one of them
          W, H, Prompt, \* the size of the area, the width of the prompt
          Row,          \* where it starts
          MaxText       \* bound, of the rows that are scrolled too

VARIABLES rows,         \* TERM_READLINE_MODE_SCROLL_ROW
          insert,       \* or replace
          text, it,     \* the text, and how much of it is before the place
          top,          \* position.row: negative when it has left the screen
          scrollrow,
          row, col,     \* the cursor
          slid          \* the last drawing made the screen scroll
vars == <<rows, insert, text, it, top, scrollrow, row, col, slid>>

Init ==
    /\ rows \in BOOLEAN /\ insert = TRUE
    /\ text = <<>> /\ it = 0
    /\ top = (IF rows THEN 0 ELSE Row) /\ scrollrow = 0
    /\ row = top /\ col = Prompt /\ slid = FALSE

-----------------------------------------------------------------------------
(* term_readline_draw.  The prompt is drawn as long as its row is there.   *)
Prompted(s, t) == t >= 0 /\ s = 0

(* The rows that are scrolled away: how much of the text x they take.      *)
Skipped(x, s) ==
    LET skip[i \in 0..Len(x)] ==
            IF i = 0 THEN [left |-> s, width |-> W - Prompt, at |-> 0]
            ELSE LET q == skip[i - 1] IN
                 IF q.left = 0 THEN q
                 ELSE IF q.width = 1 \/ x[i] = NL
                 THEN [left |-> q.left - 1, width |-> W, at |-> i]
                 ELSE [q EXCEPT !.width = @ - 1, !.at = i]
    IN skip[Len(x)].at

Ends(q, ch) == ch = NL \/ q.c + 1 >= W

(* term_readline_print: where each character goes, and what follows it.    *)
Printed(x, s, t) ==
    LET first == IF rows THEN Skipped(x, s) ELSE 0
        p[i \in first..Len(x)] ==
            IF i = first THEN [r |-> t, c |-> IF Prompted(s, t) THEN Prompt ELSE 0, top |-> t]
            ELSE LET q == p[i - 1] IN
                 IF q.r >= 0 /\ q.r - q.top >= H THEN q
                 ELSE IF ~Ends(q, x[i]) THEN [q EXCEPT !.c = @ + 1]
                 ELSE IF q.r >= 0 /\ ~rows /\ q.r + 1 >= H
                 THEN [q EXCEPT !.c = 0, !.top = @ - 1]
                 ELSE [q EXCEPT !.c = 0, !.r = @ + 1]
    IN p

(* A slip of CursorAt: the rows that are scrolled away are forgotten.      *)
CursorAtAll(x, i, s, t) ==
    LET u[j \in 0..Len(x)] ==
            IF j = 0 THEN [r |-> t, c |-> IF Prompted(s, t) THEN Prompt ELSE 0]
            ELSE LET q == u[j - 1] IN
                 IF Ends(q, x[j]) THEN [r |-> q.r + 1, c |-> 0] ELSE [q EXCEPT !.c = @ + 1]
    IN u[i]

(* term_readline_cursor_update, from the row the text began at; the cursor *)
(* stays where it was when the place was scrolled away.                    *)
CursorAt(x, i, s, t) ==
    LET first == IF rows THEN Skipped(x, s) ELSE 0
        u[j \in first..Len(x)] ==
            IF j = first THEN [r |-> t, c |-> IF Prompted(s, t) THEN Prompt ELSE 0]
            ELSE LET q == u[j - 1] IN
                 IF Ends(q, x[j]) THEN [r |-> q.r + 1, c |-> 0] ELSE [q EXCEPT !.c = @ + 1]
    IN IF i >= first THEN u[i] ELSE [r |-> row, c |-> col]

Draw(x, i, s) ==
    LET p == Printed(x, s, top)
        end == p[Len(x)]
        at == CursorAt(x, i, s, top)
    IN /\ text' = x /\ it' = i /\ scrollrow' = s
       /\ top' = end.top /\ slid' = (end.top # top)
       /\ row' = at.r /\ col' = at.c

-----------------------------------------------------------------------------
(* The keys.  term_readline_put: a character is inserted, or takes the     *)
(* place of another; the rows scroll when the cursor was below them.  The  *)
(* height also bounds how far the line leaves the screen.                  *)
Put(ch) ==
    /\ Len(text) < MaxText /\ scrollrow < MaxText /\ top > -H
    /\ Draw(IF insert \/ it = Len(text) THEN InsertAt(text, it + 1, ch)
            ELSE [text EXCEPT ![it + 1] = ch],
            it + 1,
            IF rows /\ row - top + 1 > H THEN scrollrow + 1 ELSE scrollrow)
    /\ UNCHANGED <<rows, insert>>

Del ==
    /\ Draw(IF it < Len(text) THEN RemoveAt(text, it + 1) ELSE text, it, scrollrow)
    /\ UNCHANGED <<rows, insert>>

Backspace ==
    /\ IF it > 0 THEN Draw(RemoveAt(text, it), it - 1, scrollrow) ELSE Draw(text, it, scrollrow)
    /\ UNCHANGED <<rows, insert>>

MoveTo(i, s) == Draw(text, i, s) /\ UNCHANGED <<rows, insert>>

CursorNext == MoveTo(IF it < Len(text) THEN it + 1 ELSE it, scrollrow)
CursorPrev == MoveTo(IF it > 0 THEN it - 1 ELSE it, scrollrow)

LineEnd(i) == CHOOSE e \in i..Len(text) :
    (e = Len(text) \/ text[e + 1] = NL) /\ \A k \in (i + 1)..e : text[k] # NL
LineStart(i) == CHOOSE b \in 0..i :
    (b = 0 \/ text[b] = NL) /\ \A k \in (b + 1)..i : text[k] # NL

CursorEnd == MoveTo(LineEnd(it), scrollrow)
CursorHome == MoveTo(LineStart(it), scrollrow)

(* term_readline_line_left_width: with the prompt, whatever the line, when *)
(* the cursor was drawn in the first row.                                  *)
LeftWidth(i) == i - LineStart(i) + (IF row = top THEN Prompt ELSE 0)

(* term_readline_cursor_up and _down from place i: back over the width of  *)
(* a row, which is counted again from each newline.                        *)
Above(i) ==
    LET up[n \in 0..i] ==
            IF n = 0 THEN [at |-> i, wid |-> W]
            ELSE LET q == up[n - 1] IN
                 IF q.wid <= 0 THEN q
                 ELSE [at |-> q.at - 1,
                       wid |-> IF text[q.at] = NL THEN LeftWidth(q.at - 1) - LeftWidth(i)
                               ELSE q.wid - 1]
    IN up[i].at

Below(i) ==
    LET n == Len(text) - i
        down[k \in 0..n] ==
            IF k = 0 THEN [at |-> i, wid |-> W]
            ELSE LET q == down[k - 1] IN
                 IF q.wid <= 0 THEN q
                 ELSE [at |-> q.at + 1,
                       wid |-> IF text[q.at + 1] = NL THEN LeftWidth(i) - LeftWidth(q.at + 1)
                               ELSE q.wid - 1]
    IN down[n].at

(* A page is as many of them, with the cursor as it was drawn.             *)
CursorUp(times) ==
    LET at[n \in 0..times] == IF n = 0 THEN it ELSE Above(at[n - 1])
    IN MoveTo(at[times], IF row > top THEN scrollrow
                         ELSE IF scrollrow > times THEN scrollrow - times ELSE 0)

CursorDown(times) ==
    LET at[n \in 0..times] == IF n = 0 THEN it ELSE Below(at[n - 1])
    IN /\ scrollrow + times <= MaxText
       /\ MoveTo(at[times], IF row - top + 1 >= H THEN scrollrow + times ELSE scrollrow)

ModeToggle ==
    /\ insert' = ~insert
    /\ Draw(text, it, scrollrow)
    /\ UNCHANGED rows

Next ==
    \/ \E ch \in Chars : Put(ch)
    \/ Del \/ Backspace \/ CursorNext \/ CursorPrev \/ CursorEnd \/ CursorHome
    \/ rows /\ \E times \in {1, H} : CursorUp(times) \/ CursorDown(times)
    \/ ModeToggle

-----------------------------------------------------------------------------
(* The place is in the text, and the cursor stands on the character it     *)
(* edits whenever that one is on the screen; only a drawing that made the  *)
(* screen scroll may leave it a row too low (termreadline.c:118-345).      *)
CursorShown ==
    /\ it \in 0..Len(text)
    /\ ~slid => LET p == Printed(text, scrollrow, top)
                IN it \in DOMAIN p /\ p[it].r - p[it].top < H
                   => p[it].r = row /\ p[it].c = col
=============================================================================
