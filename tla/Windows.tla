------------------------------- MODULE Windows -------------------------------
(***************************************************************************)
(* The windows of an interface (ef/graphics/gui.c, guiDiv.c, guiButton.c,  *)
(* guiOptionBox.c, guiSimple.c): the tree, the table each div lays its     *)
(* children out in, the focus and who is told of it, options of which one  *)
(* is on, and the two dialogs of guiSimple, a combo box that is made anew  *)
(* each time and a message box that is made once.                          *)
(*                                                                         *)
(* An action is one event of the X server with the handler it reaches; the *)
(* handlers of the user are those of test/src/gui.c.  Drawing, sizes and   *)
(* themes are left out.                                                    *)
(***************************************************************************)
EXTENDS Integers, Sequences, SequencesExt, FiniteSets

CONSTANTS Main, Combo, Msg,     \* the main window, two buttons of it
          Group, Options,       \* a div of it with options, a sequence
          Label, Sel,           \* a label; the div a combo box opens
          Pool,                 \* the windows its buttons may take
          Box, Ok, Size, NULL   \* the message box; buttons of a combo box

VARIABLES alive,        \* the windows that are allocated (allgui)
          childs,       \* gui->childs
          rows,         \* div->vrows: the table of each div
          focused, stored,
          watchers,     \* vgife: who is told that the focus has moved
          mark,         \* the child a div draws its selection at
          active, visible
vars == <<alive, childs, rows, focused, stored, watchers, mark, active, visible>>

Windows == {Main, Combo, Msg, Group, Label, Sel, Box, Ok} \cup Pool \cup Range(Options)
Divs == {Main, Group, Sel, Box}
Buttons == {Combo, Msg, Ok} \cup Pool

Cells(t) == UNION {Range(t[r]) : r \in DOMAIN t}
Single(s) == [i \in DOMAIN s |-> <<s[i]>>]

Init ==
    /\ alive = {Main, Combo, Msg, Group, Label} \cup Range(Options)
    /\ childs = [w \in Windows |-> IF w = Main THEN <<Label, Combo, Msg, Group>>
                                   ELSE IF w = Group THEN Options ELSE <<>>]
    /\ rows = [d \in Divs |-> IF d = Main THEN <<<<Label>>, <<Combo, Msg>>, <<Group>>>>
                              ELSE IF d = Group THEN Single(Options) ELSE <<>>]
    /\ focused = Combo /\ stored = NULL
    /\ watchers = <<Main>> /\ mark = [d \in Divs |-> IF d = Main THEN Combo ELSE NULL]
    /\ active = {} /\ visible = {Main}

-----------------------------------------------------------------------------
(* Where an arrow leads from cell <<r, c>> of a table.                     *)
RightOf(t, r, c) ==
    IF c < Len(t[r]) THEN <<r, c + 1>>
    ELSE IF r < Len(t) THEN <<r + 1, 1>> ELSE <<1, 1>>

LeftOf(t, r, c) ==
    IF c > 1 THEN <<r, c - 1>>
    ELSE LET up == IF r > 1 THEN r - 1 ELSE Len(t) IN <<up, Len(t[up])>>

Column(t, r, c) == <<r, IF c > Len(t[r]) THEN Len(t[r]) ELSE c>>
UpOf(t, r, c) == Column(t, IF r > 1 THEN r - 1 ELSE Len(t), c)
DownOf(t, r, c) == Column(t, IF r < Len(t) THEN r + 1 ELSE 1, c)

Arrow(dir, t, r, c) ==
    CASE dir = "right" -> RightOf(t, r, c) [] dir = "left" -> LeftOf(t, r, c)
      [] dir = "up"    -> UpOf(t, r, c)    [] dir = "down" -> DownOf(t, r, c)

(* The focus is at w, and each watcher redraws its table.                  *)
MarksAt(w, ws, t) ==
    [d \in Divs |-> IF d \in Range(ws) /\ w \in Cells(t[d]) THEN w ELSE mark[d]]

Focus(w) ==
    /\ focused' = w
    /\ mark' = MarksAt(w, watchers, rows)

(* A window is freed with the children the loop reaches: each takes itself *)
(* out of the vector the loop counts along.                                *)
Reached(w) == {w} \cup {childs[w][i] : i \in {j \in DOMAIN childs[w] : j % 2 = 1}}

(* A slip of Unwatch: the watcher that is freed is still told.             *)
UnwatchKeeps(ws, d) == ws
Unwatch(ws, d) == SelectSeq(ws, LAMBDA x : x # d)
Remove1(s, w) == SelectSeq(s, LAMBDA x : x # w)

-----------------------------------------------------------------------------
(* Buttons and options hand the key on to the handler of the div; labels   *)
(* and divs took it over when they were made.                              *)
ArrowKey(dir) ==
    /\ \E d \in Divs :
        /\ focused \in Range(childs[d])
        /\ \E r \in DOMAIN rows[d] : \E c \in DOMAIN rows[d][r] :
            /\ rows[d][r][c] = focused
            /\ LET to == Arrow(dir, rows[d], r, c)
               IN Focus(rows[d][to[1]][to[2]])
    /\ UNCHANGED <<alive, childs, rows, stored, watchers, active, visible>>

Toggle(o) ==
    active' = IF o \in active THEN active \ {o}
              ELSE (active \ Range(Options)) \cup {o}

ReturnOnOption ==
    /\ focused \in Range(Options)
    /\ Toggle(focused)
    /\ UNCHANGED <<alive, childs, rows, focused, stored, watchers, mark, visible>>

ClickOption(o) ==
    /\ Toggle(o)
    /\ IF focused = o THEN UNCHANGED <<focused, mark>> ELSE Focus(o)
    /\ UNCHANGED <<alive, childs, rows, stored, watchers, visible>>

(* The button of a combo box: an old box is freed, a new one is made of    *)
(* fresh buttons, shown and given the focus.                               *)
OpenCombo(bs) ==
    LET freed == IF Sel \in alive THEN Reached(Sel) ELSE {}
        ws == Append(IF Sel \in alive THEN Unwatch(watchers, Sel) ELSE watchers, Sel)
        t == [rows EXCEPT ![Sel] = Single(bs)]
    IN /\ Len(bs) = Size /\ Cardinality(Range(bs)) = Size
       /\ Range(bs) \cap (alive \ freed) = {}
       /\ alive' = (alive \ freed) \cup {Sel} \cup Range(bs)
       /\ childs' = [childs EXCEPT ![Main] = Append(Remove1(@, Sel), Sel), ![Sel] = bs]
       /\ rows' = t /\ watchers' = ws
       /\ visible' = visible \cup {Sel}
       /\ stored' = Combo
       /\ focused' = bs[1] /\ mark' = MarksAt(bs[1], ws, t)
       /\ UNCHANGED active

(* A button of the combo box: it is hidden and the focus goes back.        *)
Choose(b) ==
    /\ b \in Range(childs[Sel]) /\ Sel \in visible
    /\ visible' = visible \ {Sel}
    /\ Focus(stored)
    /\ UNCHANGED <<alive, childs, rows, stored, watchers, active>>

OpenBox ==
    /\ alive' = alive \cup {Box, Ok}
    /\ childs' = [childs EXCEPT ![Box] = <<Ok>>]
    /\ rows' = [rows EXCEPT ![Box] = <<<<Ok>>>>]
    /\ stored' = IF Box \in visible THEN stored ELSE Msg
    /\ visible' = visible \cup {Box}
    /\ focused' = Ok /\ mark' = MarksAt(Ok, watchers, rows')
    /\ UNCHANGED <<watchers, active>>

CloseBox ==
    /\ Box \in visible
    /\ visible' = visible \ {Box}
    /\ Focus(stored)
    /\ UNCHANGED <<alive, childs, rows, stored, watchers, active>>

(* A button is clicked, or Return is released while it has the focus.      *)
OnClick(b) ==
    CASE b = Combo -> \E bs \in [1..Size -> Pool] : OpenCombo(bs)
      [] b = Msg -> OpenBox
      [] b = Ok -> CloseBox
      [] OTHER -> Choose(b)

(* The focus comes back to the main window: it is set again.               *)
FocusIn ==
    /\ Focus(focused)
    /\ UNCHANGED <<alive, childs, rows, stored, watchers, active, visible>>

Next ==
    \/ \E dir \in {"left", "right", "up", "down"} : ArrowKey(dir)
    \/ ReturnOnOption
    \/ \E o \in Range(Options) : ClickOption(o)
    \/ \E b \in alive \cap Buttons : OnClick(b)
    \/ FocusIn

-----------------------------------------------------------------------------
(* The tree, the focus and the watchers agree: what has the focus, or had  *)
(* it when a dialog came up, is allocated and so is its parent, whose      *)
(* table the keys are looked up in: no child that gui_free left behind has *)
(* it; a list holds allocated windows, each once; nobody who is told of the focus was freed, and a combo box   *)
(* that is open marks the child with the focus; of the options of a group  *)
(* one at most is on (gui.c:109-123, 221-258, 325-395, guiDiv.c:44-64,     *)
(* guiOptionBox.c:76-104).                                                 *)
WindowsAgree ==
    /\ \A w \in {focused, stored} \ {NULL} :
          w \in alive /\ \E p \in alive : w \in Range(childs[p])
    /\ \A w \in alive : IsInjective(childs[w]) /\ Range(childs[w]) \subseteq alive
    /\ Range(watchers) \subseteq alive /\ IsInjective(watchers)
    /\ \A d \in Range(watchers) : focused \in Cells(rows[d]) => mark[d] = focused
    /\ Cardinality(active) <= 1

(* Every cell of a table can be reached with one arrow key, the other      *)
(* leads back, and no arrow leaves the table (guiDiv.c:312-399).           *)
ArrowsReachAll ==
    \A d \in Divs : rows[d] # <<>> =>
        LET t == rows[d]
            P == UNION {{<<r, c>> : c \in DOMAIN t[r]} : r \in DOMAIN t}
            f[n \in 0..Cardinality(P)] ==
                IF n = 0 THEN <<1, 1>> ELSE RightOf(t, f[n-1][1], f[n-1][2])
        IN /\ {f[n] : n \in DOMAIN f} = P /\ f[Cardinality(P)] = <<1, 1>>
           /\ \A p \in P :
                /\ LET q == RightOf(t, p[1], p[2]) IN LeftOf(t, q[1], q[2]) = p
                /\ UpOf(t, p[1], p[2]) \in P /\ DownOf(t, p[1], p[2]) \in P
=============================================================================
