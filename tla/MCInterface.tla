---------------------------- MODULE MCInterface ----------------------------
(***************************************************************************)
(* What ef/graphics and ef/term show, the events they take, the texts of   *)
(* ef/string that are shown and edited, and what is read from texts (the   *)
(* parsers of ef/parser, ef/opt, ef/file, of mails and of the terminal's   *)
(* database), for TLC.  The parts do not interact: a behaviour exercises   *)
(* one of them, chosen at the start, and leaves the others as they were    *)
(* made.                                                                   *)
(***************************************************************************)
EXTENDS Integers, Sequences, FiniteSets

CONSTANT None           \* no glyph, no text, no value

VARIABLES subject,      \* what this behaviour is about
          alive, childs, rows, focused, stored, watchers, mark, active, visible,
          etext, eit, selStart, selEnd, einsert, selecting, cursor, escroll,
          rend, blink, drawn, buf,
          layers, refs, timers, pending, shown, themed, delays, cost,
          trie, named, typed, tty, uinp, updateResize, key, scan, mouse, out,
          wchilds, focus, lit, deaf, waits, sel, wscroll, val, running,
          byRow, insert, text, it, top, scrollrow, row, col, slid,
          task,
          fonts, glyphs, calls, caption, wrap, textWidth, textHeight, rendering, img, fresh,
          pen, penx, peny, col_, written, phase, line_, cells, spoiled, shape, pixels,
          bytes, at, want, pos, loose,
          doc,
          mail, mailat, field, boundary, nassign, content, part, result,
          argv, argit, hasset, autoset, error, keytrie, given,
          settings, rest, told, ret, path, resolved,
          tree, chars, passed, param, escape, operands, statif, level, made, how,
          file, cap, section, entry, place, names

windows == <<alive, childs, rows, focused, stored, watchers, mark, active, visible>>
edit == <<etext, eit, selStart, selEnd, einsert, selecting, cursor, escroll, rend, blink, drawn,
          buf>>
composite == <<layers, refs, timers, pending, shown, themed, delays, cost>>
keys == <<trie, named, typed, tty, uinp, updateResize, key, scan, mouse, out>>
widgets == <<wchilds, focus, lit, deaf, waits, sel, wscroll, val, running>>
line == <<byRow, insert, text, it, top, scrollrow, row, col, slid>>
labels == <<fonts, glyphs, calls, caption, wrap, textWidth, textHeight, rendering, img, fresh,
            pen, penx, peny, col_, written, phase, line_, cells, spoiled, shape, pixels>>
utf8 == <<bytes, at, want, pos, loose>>
mailing == <<mail, mailat, field, boundary, nassign, content, part, result>>
setting == <<argv, argit, hasset, autoset, error, keytrie, given,
             settings, rest, told, ret, path, resolved>>
terminfo == <<tree, chars, passed, param, escape, operands, statif, level, made, how,
              file, cap, section, entry, place, names>>
texts == <<utf8, doc, mailing, setting, terminfo>>

Pool == {"s1", "s2", "s3", "s4"}
Options == <<"o1", "o2">>
Gui == INSTANCE Windows WITH
    Main <- "main", Combo <- "combo", Msg <- "msg", Group <- "group",
    Label <- "label", Sel <- "sel", Box <- "box", Ok <- "ok", NULL <- "null",
    Size <- 2, Pool <- Pool, Options <- Options

Typed == {"a", "nl"}
Typeable == Typed \cup {"w"}
Clicked == {<<0, 0>>, <<4, 0>>, <<2, 3>>}
Edit == INSTANCE TextEdit WITH
    Chars <- Typeable, MaxLen <- 3, W <- 7, H <- 5,
    Adv <- 3, LineH <- 2, Tab <- 6,
    Points <- Clicked,
    text <- etext, it <- eit, insert <- einsert, scroll <- escroll

(* A bound: what is typed over other characters is shorter, and so is a    *)
(* text with characters of two bytes.                                      *)
EditBound ==
    /\ einsert' \/ Len(etext') <= 2
    /\ "w" \in {etext'[k] : k \in DOMAIN etext'} => einsert' /\ Len(etext') <= 2

Image == [type |-> "img", res |-> "p"]
Gif(loop) == [type |-> "gif", loop |-> loop, play |-> FALSE, frame |-> 1]
Nothing == [type |-> "none"]

(* Frames that move their timer, and some or only frames that do not.      *)
Animations == {<<2, 3>>, <<0, 2>>, <<1, 0>>}
Costs == {0, 1}
Periods == {2}
Paths == {"p"}
Themes == {<<Gif(FALSE), Image, Gif(TRUE)>>, <<Nothing, Gif(FALSE), Image>>,
           <<Gif(FALSE), Gif(FALSE)>>, <<Nothing>>}
Comp == INSTANCE Layers WITH
    Paths <- Paths, Animations <- Animations, Costs <- Costs, Periods <- Periods,
    MaxLayers <- 3, MaxTimers <- 3, MaxBehind <- 2, Themes <- Themes

(* Sequences with a common beginning, with a mouse event, and a repeated.  *)
Table == <<<<"e", "o", "a">>, <<"e", "b", "c">>, <<"e", "b">>, <<"d">>, <<"e", "o", "a">>>>
Letters == {"e", "o", "a", "b"}
Input == INSTANCE TermKeys WITH
    Chars <- Letters, Mouse <- 3, MaxTyped <- 5, Table <- Table

Box(t, l, h, w) == [top |-> t, left |-> l, h |-> h, w |-> w]
Area == [root |-> Box(0, 0, 24, 80), win |-> Box(3, 3, 15, 30),
         label |-> Box(4, 4, 3, 28), button |-> Box(15, 22, 1, 9),
         text |-> Box(13, 4, 3, 15), list |-> Box(7, 4, 4, 12),
         box1 |-> Box(4, 4, 10, 28), l1 |-> Box(5, 5, 7, 26), ok1 |-> Box(12, 28, 1, 2),
         box2 |-> Box(4, 4, 10, 28), l2 |-> Box(5, 5, 7, 26), ok2 |-> Box(12, 28, 1, 2)]
Touched == {[row |-> 12, col |-> 29], [row |-> 15, col |-> 24], [row |-> 20, col |-> 50]}
Boxes == <<"box1", "box2">>
Lbls == <<"l1", "l2">>
Oks == <<"ok1", "ok2">>
Names == <<1, 3, 2>>
Tui == INSTANCE TextUi WITH
    Root <- "root", Win <- "win", Label <- "label", Button <- "button",
    Text <- "text", List <- "list",
    Boxes <- Boxes, Lbl <- Lbls, Ok <- Oks, Area <- Area, Points <- Touched,
    Names <- Names, Height <- 2, Width <- 12, MaxDeaf <- 1,
    childs <- wchilds, scroll <- wscroll

Line == INSTANCE ReadLine WITH
    Chars <- Typed, NL <- "nl", W <- 3, H <- 2, Prompt <- 1, Row <- 1,
    MaxText <- 5, rows <- byRow

Corners == {<<1, 1>>, <<4, 3>>, <<6, 2>>, <<2, 5>>, <<7, 5>>, <<0, 3>>}
Deltas == {0, 1, 4}
Draw == INSTANCE Images WITH
    W <- 9, H <- 7, Word <- 4096, Lanes <- 4, Radii <- 1..3, Deltas <- Deltas,
    Corners <- Corners

(* Two fonts with one width and another that has a wide character.         *)
Files == [f |-> [c \in {" ", "a"} |-> 1],
          g |-> [c \in {" ", "a", "b"} |-> IF c = "b" THEN 2 ELSE 1]]
Bearing == [p \in {"f", "g"} \X {" ", "a", "b"} |-> IF p = <<"g", "b">> THEN 1 ELSE 0]
Custom == {"red"}
Captions_ == {<<"a", "nl", "a", "a">>, <<"a", "red", "b", "nl">>, <<"nl", "nl", "red", "a">>,
              <<"a", "b", "a">>}
Lines == {<<>>, <<"a">>, <<"a", "b">>, <<"b", "b", "a">>, <<"red", "b", "a">>,
          <<"a", "b", "a", "b">>}
Shapes == [w : {1, 2}, h : {1, 3}, left : {-1, 0, 1}, top : {1, 2, 3},
           cell : {<<2, 3>>}, base : {0, 1}]
Labels == INSTANCE Captions WITH
    Files <- Files, Bearing <- Bearing, Default <- "f", Custom <- Custom, NULL <- None,
    W <- 2, Cols <- 3, MaxCalls <- 3, Captions <- Captions_, Lines <- Lines, Shapes <- Shapes,
    text <- caption, at <- pen, x <- penx, y <- peny, col <- col_, drawn <- written, line <- line_

Text == INSTANCE Texts WITH
    Bytes <- 7, Round <- 4, MaxString <- 7, mem <- bytes,
    Subjects <- UNION {[1..n -> {"a", "b"}] : n \in 0..4}

Parser == INSTANCE Json WITH
    Tokens <- {"{", "}", "[", "]", ":", ",", "str", " "}, MaxDoc <- 5, MaxString <- 4

(* Mails with folded headers, marks of two boundaries, parts of all        *)
(* encodings, texts that go on below the last mark, and some that are      *)
(* refused or have more headers than are read.                             *)
Is(k) == [k |-> k]
Auth(fair) == [k |-> "auth", fair |-> fair]
To == [k |-> "field", f |-> "To"]
Boundary(b) == <<[k |-> "mark", b |-> b]>>
Tops == {<<To, Is("fold"), [k |-> "multipart", b |-> "x"]>>,
         <<To, [k |-> "field", f |-> "Subject"], Is("multipart"), [k |-> "fold", b |-> "x"]>>,
         <<Auth(TRUE), [k |-> "multipart", b |-> "y"], Is("text")>>}
Headers == {<<>>,
            <<Is("type"), [k |-> "fold", name |-> "n"], [k |-> "disposition", filename |-> "m"]>>,
            <<Is("multipart"), [k |-> "fold", name |-> "l"], Is("disposition")>>}
Encoding(e) == IF e = "none" THEN <<>> ELSE <<[k |-> "encoding", encoding |-> e]>>
Parts == {Boundary(b) \o h \o Encoding(e) \o <<Is("blank"), Is("text")>> \o d :
              b \in {"x", "y"}, h \in Headers, e \in {"none", "base64", "8bit", "7bit"},
              d \in {<<>>, <<Is("blank")>>}}
More == {<<>>, Boundary("x") \o <<[k |-> "type", name |-> "o"], Is("blank"), Is("text")>>}
Ends == {<<>>, Boundary("x"), Boundary("x") \o <<Is("disposition")>>}
Odd == {<<Auth(FALSE)>>, <<Is("multipart")>>, <<To, To>>,
        [i \in 1..9 |-> Auth(TRUE)] \o <<Is("text")>>}

Mail == INSTANCE Mime WITH
    Mails <- {t \o <<Is("blank")>> \o p \o m \o e : t \in Tops, p \in Parts, m \in More, e \in Ends}
             \cup Odd \cup {<<>>},
    Fields <- {"To", "Subject"}, MIME_HEADER_COUNT <- 9, NULL <- None, at <- mailat

(* Options with and without values, one that is not known, values that are *)
(* numbers and others; a file of two lines, whole, cut off or wrong, with  *)
(* a known key that begins another one; and short paths.                   *)
Option(l, n) == [option |-> TRUE, letters |-> l, number |-> n]
Plain(n) == [option |-> FALSE, letters |-> <<>>, number |-> n]
Words == {Option(<<"a">>, FALSE), Option(<<"n">>, FALSE), Option(<<"n", "s">>, FALSE),
          Option(<<"a", "s">>, FALSE), Option(<<"n", "x">>, FALSE), Option(<<>>, FALSE),
          Option(<<"5">>, TRUE), Plain(TRUE), Plain(FALSE)}
Types == [a |-> "none", n |-> "signed", s |-> "str"]
Known == {<<"a">>, <<"a", "b">>, <<"c", "d">>}
FileLines == {<<>>, <<"a">>, <<"a", "b", "=", "v">>, <<" ", "a", " ", "=", " ", "v", " ", "w">>,
          <<"a", "=", "quote", "v", " ", "w", "quote">>, <<"a", "b", "=", "quote", "v", "quote", " ", "a">>,
          <<"c", "=", "v">>, <<"c">>, <<"#", "a">>, <<"a", "v">>, <<"a", " ", "v">>, <<"a", "=">>,
          <<"a", "=", "quote", "quote">>, <<"a", "=", "quote", "v">>, <<"c", "d">>}
Ended == {<<>>, <<"nl">>}
Settings_ == {<<>>} \cup {l \o e : l \in FileLines, e \in Ended}
             \cup {l \o <<"nl">> \o m \o e : l \in FileLines, m \in FileLines, e \in Ended}
Short(n) == UNION {[1..i -> {"/", ".", "a"}] : i \in 0..n}
PathNames == (Short(6) \ {<<>>}) \cup {<<"~">> \o p : p \in Short(2)}
HomeDir == <<"/", "h">>
CurrentDir == <<"/", "c", "/", "d">>
Refused == {<<"c", "d">>}

Told == INSTANCE Settings WITH
    Words <- Words, MaxWords <- 3, Types <- Types, Keys <- Known, Values <- {1, 2},
    Texts <- Settings_, Refused <- Refused, PathSet <- PathNames, Home <- HomeDir, Here <- CurrentDir,
    NULL <- None, text <- settings, it <- argit, trie <- keytrie

(* Conditions in the first part, in the other part and in neither, texts   *)
(* behind them that look like an end, and escaped percent signs.           *)
Conds == {"p1", "same", "more", "next", "less"}
Txt(c) == <<[kind |-> "text", c |-> c]>>
When(c, a) == <<[kind |-> "if", c |-> c, a |-> a]>>
Either(c, a, b) == <<[kind |-> "else", c |-> c, a |-> a, b |-> b]>>
Number == <<[kind |-> "num", e |-> "p1"]>>
Inner == {When(c, Txt("c")) : c \in Conds} \cup {Either(c, Txt("c"), Txt("d")) : c \in Conds}
Branching == {Txt("[") \o When(c, x) \o Number : c \in Conds, x \in {Txt("a")} \cup Inner}
             \cup {Txt("[") \o Either(c, x, y) \o Number :
                       c \in Conds, x \in {Txt("a")} \cup Inner, y \in {Txt("b")} \cup Inner}
Endings == {Txt("e"), Txt(";"), Txt("x") \o Txt(";"), Txt("%") \o Txt(";"), Txt("%") \o Txt("b")}
Before == {Txt("a"), When("p1", Txt("c")), Either("same", Txt("c"), Txt("d"))}
Looking == {Either("p1", x \o v, y \o w) \o Txt(";") :
                x \in Before, v \in Endings, y \in Before, w \in Endings}
           \cup {When("p1", When("same", x \o v) \o w) :
                     x \in Before, v \in Endings, w \in Endings}
Chains == {<<[kind |-> "chain", c |-> c, a |-> Txt("a"), d |-> d, b |-> Txt("b"),
              e |-> Txt("e")]>> : c \in Conds, d \in Conds}

Formats == Branching \cup Looking \cup Chains
Params == {<<0, 0>>, <<1, 0>>, <<-1, 1>>}
StdNames == <<"am", "cols", "cup">>
ExtNames == {"AX", "RGB", "Ms", "cup"}
TermFiles == {[std |-> std, bools |-> bools, strings |-> <<"x", "y">>, names |-> ext] :
                  std \in {<<"1", "80", "goto">>, <<None, "80">>, <<"1", "80", "goto", "2">>},
                  bools \in {<<>>, <<"1">>, <<None>>},
                  ext \in {<<"AX", "RGB", "Ms">>, <<"cup", "RGB", "Ms">>}}
Term == INSTANCE TermInfo WITH
    Formats <- Formats, Params <- Params, StdNames <- StdNames, ExtNames <- ExtNames,
    Files <- TermFiles, NONE <- None, stack <- operands, reading <- section,
    given <- passed, pos <- escape, out <- made

Subjects == {"windows", "edit", "composite", "keys", "widgets", "line", "task",
             "labels", "painting", "glyph",
             "text", "doc", "mail", "options", "trie", "settings", "path",
             "format", "database"}
OneFile == file = [std |-> <<None, "80">>, bools |-> <<>>, strings |-> <<"x", "y">>,
                   names |-> <<"AX", "RGB", "Ms">>]

InterfaceInit ==
    /\ subject \in Subjects
    /\ subject = "glyph" \/ shape = [w |-> 1, h |-> 1, left |-> 0, top |-> 1, cell |-> <<2, 3>>, base |-> 0]
    /\ subject = "labels" \/ (fonts = <<>> /\ wrap = FALSE)
    /\ subject = "mail" \/ mail = <<>>
    /\ subject = "options" \/ argv = <<>>
    /\ subject = "settings" \/ settings = <<>>
    /\ subject = "path" \/ path = <<"/">>
    /\ subject = "format" \/ (tree = <<>> /\ passed = <<0, 0>>)
    /\ subject = "database" \/ OneFile
    /\ Labels!Init /\ Text!Init /\ Parser!Init /\ Mail!Init /\ Told!Init /\ Term!Init
    /\ Gui!Init /\ Edit!Init /\ Comp!Init /\ Input!Init /\ Tui!Init /\ Line!Init /\ Draw!Init
    /\ subject # "composite" => layers = <<>> /\ delays = <<2, 3>>
    /\ subject # "composite" \/ delays # <<2, 3>> => cost = 0
    /\ subject # "line" => byRow

InterfaceNext ==
    \/ /\ subject = "windows" /\ Gui!Next
       /\ UNCHANGED <<subject, edit, composite, keys, widgets, line, task, labels, texts>>
    \/ /\ subject = "edit" /\ Edit!Next /\ EditBound
       /\ UNCHANGED <<subject, windows, composite, keys, widgets, line, task, labels, texts>>
    \/ /\ subject = "composite" /\ Comp!Next
       /\ UNCHANGED <<subject, windows, edit, keys, widgets, line, task, labels, texts>>
    \/ /\ subject = "keys" /\ Input!Next
       /\ UNCHANGED <<subject, windows, edit, composite, widgets, line, task, labels, texts>>
    \/ /\ subject = "widgets" /\ Tui!Next
       /\ UNCHANGED <<subject, windows, edit, composite, keys, line, task, labels, texts>>
    \/ /\ subject = "line" /\ Line!Next
       /\ UNCHANGED <<subject, windows, edit, composite, keys, widgets, task, labels, texts>>
    \/ /\ subject = "task" /\ Draw!Next
       /\ UNCHANGED <<subject, windows, edit, composite, keys, widgets, line, labels, texts>>
    \/ /\ \/ subject = "labels" /\ (Labels!Grouped \/ Labels!Captioned)
          \/ subject = "painting" /\ Labels!Painting
          \/ subject = "glyph" /\ Labels!Rendering
       /\ UNCHANGED <<subject, windows, edit, composite, keys, widgets, line, task, texts>>
    \/ /\ \/ subject = "text" /\ Text!Next /\ UNCHANGED <<doc, mailing, setting, terminfo>>
          \/ subject = "doc" /\ Parser!Next /\ UNCHANGED <<utf8, mailing, setting, terminfo>>
          \/ subject = "mail" /\ Mail!Parse /\ UNCHANGED <<utf8, doc, setting, terminfo>>
          \/ subject = "options" /\ Told!OptParse /\ UNCHANGED <<utf8, doc, mailing, terminfo>>
          \/ subject = "trie" /\ Told!Filling /\ UNCHANGED <<utf8, doc, mailing, terminfo>>
          \/ subject = "settings" /\ Told!ConfigParse /\ UNCHANGED <<utf8, doc, mailing, terminfo>>
          \/ subject = "path" /\ Told!PathResolve /\ UNCHANGED <<utf8, doc, mailing, terminfo>>
          \/ subject = "format" /\ Term!Make /\ UNCHANGED <<utf8, doc, mailing, setting>>
          \/ subject = "format" /\ (Term!Start \/ Term!MakePrint)
             /\ UNCHANGED <<utf8, doc, mailing, setting>>
          \/ subject = "database" /\ Term!Database /\ UNCHANGED <<utf8, doc, mailing, setting>>
       /\ UNCHANGED <<subject, windows, edit, composite, keys, widgets, line, task, labels>>

InterfaceSpec ==
    /\ InterfaceInit
    /\ [][InterfaceNext]_<<subject, windows, edit, composite, keys, widgets, line, task, labels, texts>>
    /\ WF_composite(subject = "composite" /\ Comp!Loop)

-----------------------------------------------------------------------------



(* Keys arrive in the order they were typed, the line that is edited is    *)
(* shown with the cursor at its place, the focus of the text interface is  *)
(* shown and has its way back, the terminal is sent what its capability    *)
(* means and the capabilities have their own names (terminput.c:51-219,    *)
(* termreadline.c:118-345, tuiRoot.c:36-131, tuiWindow.c:30-62,            *)
(* terminfo.c:279-314, 446-551, 714-1073).                                 *)
TerminalHolds ==
    CASE subject = "keys"    -> Input!KeysInOrder
      [] subject = "line"    -> Line!CursorShown
      [] subject = "widgets" -> Tui!FocusHolds
      [] subject \in {"format", "database"} -> Term!FormatsRight /\ Term!NamesRight
      [] OTHER               -> TRUE

(* Shapes have the pixels they should, and no other, and images are        *)
(* copied, changed and resized without touching what is beside them; a     *)
(* caption is drawn whole into the room that was measured for it           *)
(* (image.c:193-756, 948-1205, 1356-2539, ft.c:72-932, guiCaption.c:31-86). *)
ImagesRight ==
    /\ subject = "task" => Draw!DrawnRight /\ Draw!CopiedRight
    /\ subject \in {"labels", "painting", "glyph"} => Labels!CaptionsHold

(* A text in utf8 is edited without a character torn apart as long as each *)
(* takes the place of one as wide, strings fit what is allocated for them, *)
(* and a search misses no match before the first that is empty             *)
(* (utf8.c:54-272, string.c:77-191, regex.c:54-192).                       *)
TextsHold == subject = "text" => Text!TextKept /\ Text!StringsFit

(* The lexer takes the documents that its grammar has, an unescaped string *)
(* fits the memory that was measured for it, a mail that is parsed has the *)
(* headers and parts that its lines say, and options, settings and paths   *)
(* are what was given (json.c:122-516, imap.c:324-362, 449-691,            *)
(* optex.c:100-213, trie.c:46-146, config.c:5-109, path.c:71-146).  What   *)
(* is unescaped is no part of the document: it is looked at once.          *)
DocumentsRight ==
    /\ subject = "doc" => Parser!LexerTakesDocuments
    /\ subject = "doc" /\ doc = <<>> => Parser!UnescapeFits
    /\ subject = "mail" => Mail!MimeRight
    /\ subject \in {"options", "trie", "settings", "path"} => Told!SettingsRight
=============================================================================
