-------------------------------- MODULE Captions --------------------------------
(***************************************************************************)
(* Fonts and captions of ef/graphics.  A group of fonts has one cache of   *)
(* glyphs, filled from the first font that has a character (ft.c).  The    *)
(* text of a caption is measured when it is set and drawn, a character at  *)
(* a time, into a box of that size when the caption is rendered            *)
(* (guiCaption.c).  One line may be painted over another.  Characters are  *)
(* of one byte, or custom ones, that change the colour.                    *)
(***************************************************************************)
EXTENDS Integers, Sequences, SequencesExt, FiniteSetsExt, Functions

CONSTANTS Files,        \* fonts: path -> the advance of each character it has
          Default,      \* that of default_fonts, which may be there
          Bearing,      \* [file, character] -> how far it goes to the left
          Custom, Captions, Lines, NULL,
          W, Cols,      \* the width of the surface, of a line
          Shapes,       \* bitmaps: w, h, left, top, cell, base
          MaxCalls      \* a bound on the calls about fonts

Space == " "
Newline == "nl"
Chars == UNION {DOMAIN Files[f] : f \in DOMAIN Files}

VARIABLES fonts,                \* fonts->font: [fname, size]
          glyphs,               \* fonts->charmap: character -> [fname, size], NULL
          calls,
          text, wrap, textWidth, textHeight, rendering, img,    \* guiCaption_s
          fresh,                \* measured as it will be drawn
          at, x, y, col,        \* the character and the place that are next
          drawn, phase,
          line, cells,          \* a line that is painted over, its columns
          spoiled,              \* a custom character or an empty text was there
          shape, pixels         \* a glyph and what is in its cell
group == <<fonts, glyphs, calls>>
caption == <<text, wrap, textWidth, textHeight, rendering, img, fresh>>
pen == <<at, x, y, col, drawn, phase>>
painted == <<line, cells, spoiled>>
cell == <<shape, pixels>>
vars == <<group, caption, pen, painted, cell>>

Init ==
    /\ fonts \in {<<>>, <<[fname |-> Default, size |-> 1]>>} /\ glyphs = [c \in Chars |-> NULL] /\ calls = 0
    /\ text = NULL /\ wrap \in BOOLEAN /\ textWidth = 0 /\ textHeight = 0
    /\ rendering = FALSE /\ img = <<2, 2>> /\ fresh = TRUE
    /\ at = 1 /\ x = 0 /\ y = 0 /\ col = "fore" /\ drawn = <<>> /\ phase = "idle"
    /\ line = <<>> /\ cells = [i \in 1..Cols |-> Space] /\ spoiled = FALSE
    /\ shape \in Shapes /\ pixels = NULL

-----------------------------------------------------------------------------
(* The group of fonts, that of a program or, with a font, the default one  *)
(* (guiSimple.c:31-54).  A path that is there already is not loaded again;  *)
(* names are compared with paths and find nothing.                         *)
Path(i) == fonts[i].fname
SearchPath(path) == {i \in DOMAIN fonts : Path(i) = path}
Grouping == phase = "idle" /\ calls < MaxCalls /\ calls' = calls + 1
            /\ UNCHANGED <<glyphs, caption, pen, painted, cell>>

(* A slip: a font whose file is bad stays.                                 *)
LoadedKeeps(path, bad) ==
    IF SearchPath(path) # {} THEN fonts
    ELSE Append(fonts, [fname |-> IF bad THEN NULL ELSE path, size |-> 0])
LoadedWith(path, bad) ==
    IF SearchPath(path) # {} \/ bad THEN fonts ELSE Append(fonts, [fname |-> path, size |-> 0])
FontsLoad(path, bad) == Grouping /\ fonts' = LoadedWith(path, bad)

FontSize(i, s) == Grouping /\ fonts' = [fonts EXCEPT ![i].size = s]
RemoveByIndex(i) == Grouping /\ fonts' = RemoveAt(fonts, i)

(* FreeType gives no glyph of a font without a size.                       *)
Able(c) == {i \in DOMAIN fonts : fonts[i].size > 0 /\ c \in DOMAIN Files[Path(i)]}
GlyphLoad(c) == IF Able(c) = {} THEN NULL ELSE fonts[Min(Able(c))]
Asked(cs) == [c \in Chars |-> IF glyphs[c] # NULL \/ c \notin cs THEN glyphs[c] ELSE GlyphLoad(c)]

HoriAdvance(g, c) == IF c \notin Chars THEN 0 ELSE IF g[c] = NULL THEN 0
                     ELSE Files[g[c].fname][c] * g[c].size
HoriBearing(g, c) == Bearing[g[c].fname, c] * g[c].size
LineHeight(g) == IF g[Space] = NULL THEN 0 ELSE g[Space].size

(* Each row of a bitmap is put into the cell of the font; one that is too  *)
(* high begins at the top.                                                 *)
Rendered(s, mono) ==
    LET top == Max({0, s.cell[2] - s.base - s.top})
        left == IF mono \/ s.left > 0 THEN s.left ELSE 0
    IN {<<left + gx, top + gy>> : gx \in {g \in 0..(s.w - 1) : left >= 0 /\ left + g < s.cell[1]},
                                  gy \in {g \in 0..(s.h - 1) : g < s.cell[2] /\ top + g < s.cell[2]}}
RenderGlyph(mono) ==
    /\ pixels = NULL /\ pixels' = Rendered(shape, mono)
    /\ UNCHANGED <<group, caption, pen, painted, shape>>

-----------------------------------------------------------------------------
(* How much room a text takes.                                             *)
LineLength(g, t) == FoldLeft(LAMBDA n, c : n + HoriAdvance(g, c), 0, t)

(* A slip: what is measured is the last line.                              *)
MultilineLast(g, t) ==
    FoldLeft(LAMBDA n, c : IF c = Newline THEN 0 ELSE n + HoriAdvance(g, c), 0, t)

(* The length is not reset by a newline.                                   *)
MultilineLength(g, t) == LineLength(g, t)
MultilineHeight(g, t) == LineHeight(g) * (1 + Len(SelectSeq(t, LAMBDA c : c = Newline)))

(* Every character is as wide as the first one.                            *)
AutowrapHeight(g, t, w) ==
    LET adv == HoriAdvance(g, t[1])
        Next1(m, c) == CASE c = Newline          -> [lines |-> m.lines + 1, len |-> 0]
                         [] c \in Custom         -> m
                         [] m.len >= w           -> [lines |-> m.lines + 1, len |-> adv]
                         [] OTHER                -> [m EXCEPT !.len = @ + adv]
    IN LineHeight(g) * FoldLeft(Next1, [lines |-> 1, len |-> 0], t).lines

(* gui_caption_text_set.                                                   *)
Has(g, t) == \A c \in ToSet(t) \cap Chars : g[c] # NULL
TextSet(t) ==
    /\ phase = "idle" /\ text' = t /\ rendering' = TRUE
    /\ glyphs' = Asked({Space} \cup IF wrap THEN {t[1]} ELSE ToSet(t))
    /\ textWidth' = IF wrap THEN W ELSE MultilineLength(glyphs', t)
    /\ textHeight' = IF wrap THEN AutowrapHeight(glyphs', t, W) ELSE MultilineHeight(glyphs', t)
    /\ fresh' = Has(glyphs', <<Space>> \o IF wrap THEN <<t[1]>> ELSE t)
    /\ UNCHANGED <<fonts, calls, wrap, img, pen, painted, cell>>

(* gui_caption_themes, without a text: nothing is measured again.          *)
Themes ==
    /\ phase = "idle" /\ calls < MaxCalls /\ calls' = calls + 1
    /\ wrap' = ~wrap /\ rendering' = TRUE /\ fresh' = FALSE
    /\ UNCHANGED <<fonts, glyphs, text, textWidth, textHeight, img, pen, painted, cell>>

(* gui_caption_render.                                                     *)
Render ==
    /\ phase = "idle" /\ rendering /\ text # NULL /\ rendering' = FALSE
    /\ img' = IF img[1] < textWidth \/ img[2] < textHeight THEN <<textWidth, textHeight>> ELSE img
    /\ at' = 1 /\ x' = 0 /\ y' = 0 /\ col' = "fore" /\ drawn' = <<>> /\ phase' = "drawing"
    /\ UNCHANGED <<group, text, wrap, textWidth, textHeight, fresh, painted, cell>>

-----------------------------------------------------------------------------
(* g2d_putch at the place p: the place after it and what it returns.       *)
Putch(g, p, c) ==
    IF c = Newline THEN [x |-> 0, y |-> p.y + LineHeight(g), ret |-> 1, out |-> p.out]
    ELSE IF g[c] = NULL THEN [p EXCEPT !.ret = -1]
    ELSE LET px == Max({0, p.x - HoriBearing(g, c)}) IN
         IF px + HoriAdvance(g, c) > textWidth
         THEN [x |-> 0, y |-> p.y + LineHeight(g), ret |-> 2, out |-> p.out]
         ELSE IF p.y + g[c].size > textHeight THEN [p EXCEPT !.x = px, !.ret = -1]
         ELSE [x |-> px + HoriAdvance(g, c), y |-> p.y, ret |-> 0,
               out |-> Append(p.out, [c |-> c, i |-> at, x |-> px, y |-> p.y, col |-> col])]

Put(p) == x' = p.x /\ y' = p.y /\ drawn' = p.out
Here == [x |-> x, y |-> y, ret |-> 0, out |-> drawn]
Drawing == /\ phase = "drawing"
           /\ UNCHANGED <<fonts, calls, caption, painted, cell>>

CustomChar ==
    /\ Drawing /\ at <= Len(text) /\ text[at] \in Custom
    /\ col' = text[at] /\ at' = at + 1
    /\ UNCHANGED <<glyphs, x, y, drawn, phase>>

(* g2d_string_autowrap: what was at the end of a line is put into the next *)
(* one, or nowhere.                                                        *)
StringAutowrap ==
    /\ Drawing /\ wrap /\ at <= Len(text) /\ text[at] \notin Custom
    /\ glyphs' = Asked({text[at], Space})
    /\ LET first == Putch(glyphs', Here, text[at])
           p == IF first.ret = 2 THEN Putch(glyphs', first, text[at]) ELSE first
       IN Put(p) /\ phase' = IF first.ret < 0 THEN "done" ELSE phase
    /\ at' = at + 1 /\ UNCHANGED col

(* g2d_string is called for each line, from what it returned.  A character *)
(* behind a newline is skipped, also the one that ends the text.           *)
StringLine ==
    /\ Drawing /\ ~wrap /\ at <= Len(text) /\ text[at] \notin Custom
    /\ glyphs' = Asked({text[at], Space})
    /\ LET p == Putch(glyphs', Here, text[at]) IN
       /\ Put(p)
       /\ at' = IF p.ret = 1 THEN at + 2 ELSE at + 1
       /\ col' = IF p.ret = 1 THEN "fore" ELSE col
       /\ phase' = CASE p.ret \notin {0, 1} -> "done"
                     [] p.ret = 1 /\ at = Len(text) -> "beyond"
                     [] OTHER -> phase

Drawn ==
    /\ \/ phase = "drawing" /\ at > Len(text) /\ phase' = "done" /\ UNCHANGED drawn
       \/ phase = "done" /\ phase' = "idle" /\ drawn' = <<>>
    /\ UNCHANGED <<group, caption, painted, cell, at, x, y, col>>

-----------------------------------------------------------------------------
(* g2d_string_replace in columns: what is the same in both lines is left,  *)
(* the rest is painted, up to the end of the line; what the old line has   *)
(* more is cleared.  A text without a character has compared with none.    *)
Plain(t) == SelectSeq(t, LAMBDA c : c \notin Custom)

(* A slip: the rest of a longer line stays.                                *)
ReplacedNotCleared(new, old, was) ==
    [i \in 1..Cols |-> IF i <= Len(new) THEN new[i] ELSE was[i]]
Replaced(new, old, was) ==
    [i \in 1..Cols |->
        CASE i <= Len(new) -> IF i <= Len(old) THEN IF old[i] = new[i] THEN was[i] ELSE new[i]
                              ELSE new[i]
          [] new # <<>> /\ i > Len(new) /\ i <= Len(old) -> Space
          [] OTHER -> was[i]]
StringReplace(t) ==
    /\ phase = "idle" /\ text = NULL /\ cells' = Replaced(Plain(t), line, cells) /\ line' = t
    /\ spoiled' = (spoiled \/ Plain(line) # line \/ Plain(t) = <<>>)
    /\ UNCHANGED <<group, caption, pen, cell>>

Grouped ==
    \/ \E path \in DOMAIN Files, bad \in BOOLEAN : FontsLoad(path, bad)
    \/ \E i \in DOMAIN fonts : RemoveByIndex(i) \/ \E s \in 1..2 : FontSize(i, s)
Captioned == \/ Themes \/ Render \/ CustomChar \/ StringAutowrap \/ StringLine \/ Drawn
             \/ \E t \in Captions : TextSet(t)
Painting == \E t \in Lines : StringReplace(t)
Rendering == \E mono \in BOOLEAN : RenderGlyph(mono)
Next == Grouped \/ Captioned \/ Painting \/ Rendering

Spec == Init /\ [][Next]_vars

-----------------------------------------------------------------------------
(* Every font of the group is there once and has its file, and every glyph *)
(* is one that its font has (ft.c:72-195, 371-452).                        *)
FontsHold ==
    /\ \A i \in DOMAIN fonts : Path(i) \in DOMAIN Files /\ SearchPath(Path(i)) = {i}
    /\ \A c \in Chars : glyphs[c] # NULL => c \in DOMAIN Files[glyphs[c].fname] /\ glyphs[c].size > 0

(* What is drawn is inside the box and the picture, in the order of the    *)
(* text and in the colour of the custom character before it in its line.   *)
(* When the text was measured as it is drawn, and all glyphs are as high   *)
(* as the space, it is drawn whole, but for what is behind a newline; and  *)
(* when lines are wrapped, if also every glyph is as wide as the first one *)
(* and the width has room for a number of them                             *)
(* (ft.c:606-883, guiCaption.c:31-70).                                     *)
Lost[i \in 1..Len(text)] == IF i = 1 \/ wrap THEN FALSE
                            ELSE LET before == Lost[i - 1] IN text[i - 1] = Newline /\ ~before
Level == Has(glyphs, text) /\ \A c \in ToSet(text) \cap Chars : glyphs[c].size = LineHeight(glyphs)
Mono == /\ text[1] \in Chars /\ W % HoriAdvance(glyphs, text[1]) = 0
        /\ \A c \in ToSet(text) \cap Chars : /\ HoriBearing(glyphs, c) = 0
                                             /\ HoriAdvance(glyphs, c) = HoriAdvance(glyphs, text[1])
ColourAt(i) == LET behind == {j \in 1..(i - 1) : text[j] \in Custom \/ (text[j] = Newline /\ ~wrap)} IN
    IF behind = {} THEN "fore" ELSE IF text[Max(behind)] = Newline THEN "fore" ELSE text[Max(behind)]
CaptionRight == phase # "idle" =>
    /\ textWidth <= img[1] /\ textHeight <= img[2]
    /\ \A k \in DOMAIN drawn :
           /\ drawn[k].x + HoriAdvance(glyphs, drawn[k].c) <= textWidth
           /\ drawn[k].y + glyphs[drawn[k].c].size <= textHeight
           /\ drawn[k].col = ColourAt(drawn[k].i)
           /\ k > 1 => drawn[k].i > drawn[k - 1].i /\ drawn[k].y >= drawn[k - 1].y
    /\ phase \in {"done", "beyond"} /\ fresh /\ Level /\ (wrap => Mono) =>
           {drawn[k].i : k \in DOMAIN drawn} = {i \in DOMAIN text : text[i] \in Chars /\ ~Lost[i]}

(* Painted over lines of characters, a line that has any is what is seen;  *)
(* a glyph that is not too high for its cell is in it where it belongs     *)
(* (ft.c:245-317, 885-932).                                                *)
PaintedRight ==
    /\ ~spoiled => \A i \in 1..Cols : cells[i] = IF i <= Len(Plain(line)) THEN Plain(line)[i] ELSE Space
    /\ pixels # NULL /\ shape.cell[2] - shape.base - shape.top >= 0 /\ shape.left >= 0 =>
           pixels = {<<shape.left + gx, shape.cell[2] - shape.base - shape.top + gy>> :
                         gx \in 0..(shape.w - 1), gy \in 0..(shape.h - 1)}
                    \cap ((0..(shape.cell[1] - 1)) \X (0..(shape.cell[2] - 1)))

CaptionsHold == FontsHold /\ CaptionRight /\ PaintedRight
=============================================================================
