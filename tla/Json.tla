-------------------------------- MODULE Json ---------------------------------
(***************************************************************************)
(* The JSON lexer (ef/parser/json.c): it calls back for what it finds in a *)
(* document and says whether it was one.  A document is a sequence of      *)
(* tokens, in which strings and numbers are one each, and blanks another;  *)
(* a step types the next token.                                            *)
(***************************************************************************)
EXTENDS Integers, Sequences, SequencesExt

CONSTANTS Tokens, MaxDoc, MaxString     \* bounds of documents and of strings

VARIABLE doc
vars == <<doc>>

Scalars == {"str", "num", "true"} \cap Tokens

Init == doc = <<>>

(* Another token, or another document.                                     *)
Type(t) == doc' = IF Len(doc) < MaxDoc THEN Append(doc, t) ELSE <<t>>
Next == \E t \in Tokens : Type(t)

-----------------------------------------------------------------------------
(* The lexer at token i; what it returns: where it is then, 0 or -1 or 1   *)
(* as json_lexer_value does, and the calls it made.                        *)
Char(d, i) == IF i <= Len(d) THEN d[i] ELSE "end"

(* A slip of TokenNext: one blank only is passed.                          *)
TokenNextOne(d, i) == IF Char(d, i) = " " THEN i + 1 ELSE i

TokenNext(d, i) ==
    CHOOSE k \in i..(Len(d) + 1) :
      Char(d, k) # " " /\ \A j \in i..(k - 1) : Char(d, j) = " "

Failed(i, calls) == [at |-> i, ret |-> -1, calls |-> calls]
Ok(i, calls) == [at |-> i, ret |-> 0, calls |-> calls]

(* The functions of the lexer call each other: lex[f, i] is what f gives   *)
(* at token i, and what it calls back before that comes first.             *)
Behind(calls, v) == [v EXCEPT !.calls = calls \o @]

(* After the name of a member, or behind a comma: name, colon and value.   *)
Members(d, i, lex) ==
    IF Char(d, i) # "str" THEN Failed(i, <<>>)
    ELSE LET colon == TokenNext(d, i + 1) IN
         IF Char(d, colon) # ":" THEN Failed(colon, <<>>)
         ELSE LET v == lex["value", TokenNext(d, colon + 1)] IN
              IF v.ret # 0 THEN Failed(v.at, v.calls)
              ELSE LET k == TokenNext(d, v.at) IN
                   IF Char(d, k) = "}" THEN Ok(k + 1, Append(v.calls, "objectEnd"))
                   ELSE IF Char(d, k) = "," /\ Char(d, TokenNext(d, k + 1)) # "end"
                   THEN Behind(v.calls, lex["members", TokenNext(d, k + 1)])
                   ELSE Failed(k, v.calls)

(* Blanks may be all that an object has, and then its end is not passed.   *)
LexerObject(d, i, lex) ==
    LET first == TokenNext(d, i + 1)
    IN IF Char(d, i + 1) = "}" THEN Failed(i + 1, <<"objectNew">>)
       ELSE IF Char(d, first) = "}" THEN Ok(first, <<"objectNew", "objectEnd">>)
       ELSE Behind(<<"objectNew">>, lex["members", first])

Items(d, i, lex) ==
    LET v == lex["value", i] IN
    IF v.ret # 0 THEN Failed(v.at, v.calls)
    ELSE LET k == TokenNext(d, v.at) IN
         IF Char(d, k) = "," THEN Behind(v.calls, lex["items", TokenNext(d, k + 1)])
         ELSE IF Char(d, k) = "]" THEN Ok(k + 1, Append(v.calls, "arrayEnd"))
         ELSE Failed(k, v.calls)

LexerArray(d, i, lex) ==
    LET first == TokenNext(d, i + 1)
    IN IF Char(d, i + 1) = "]" THEN Failed(i + 1, <<"arrayNew">>)
       ELSE IF Char(d, first) = "]" THEN Ok(first, <<"arrayNew", "arrayEnd">>)
       ELSE Behind(<<"arrayNew">>, lex["items", first])

LexerValue(d, i, lex) ==
    CASE Char(d, i) = "end" -> [at |-> i, ret |-> 1, calls |-> <<>>]
      [] Char(d, i) = "{" -> LexerObject(d, i, lex)
      [] Char(d, i) = "[" -> LexerArray(d, i, lex)
      [] Char(d, i) \in Scalars -> Ok(i + 1, <<"value">>)
      [] OTHER -> Failed(i, <<>>)

(* json_lexer: values with commas between, the last of which may be no     *)
(* value.                                                                  *)
LexerFrom(d, i, lex) ==
    LET v == lex["value", TokenNext(d, i)]
        k == TokenNext(d, v.at)
    IN IF v.ret = -1 THEN v
       ELSE IF v.ret = 1 THEN Ok(v.at, v.calls)
       ELSE IF Char(d, k) = "," THEN Behind(v.calls, lex["lexer", k + 1])
       ELSE [at |-> k, ret |-> IF Char(d, k) = "end" THEN 0 ELSE -1, calls |-> v.calls]

Lexer(d) ==
    LET lex[f \in {"value", "members", "items", "lexer"}, i \in 1..(Len(d) + 1)] ==
            CASE f = "value"   -> LexerValue(d, i, lex)
              [] f = "members" -> Members(d, i, lex)
              [] f = "items"   -> Items(d, i, lex)
              [] f = "lexer"   -> LexerFrom(d, i, lex)
    IN lex["lexer", 1]

-----------------------------------------------------------------------------
(* json_string_size: where a string ends, 0 when it does not.  A quote     *)
(* behind a backslash does not end it, whatever is before the backslash.   *)
StringSize(s) ==
    LET size[i \in 1..(Len(s) + 1)] ==
            IF i > Len(s) THEN 0
            ELSE IF s[i] = "quote" THEN i
            ELSE IF s[i] = "\\" /\ i < Len(s) /\ s[i + 1] = "quote" THEN size[i + 2]
            ELSE size[i + 1]
    IN size[1]

(* json_number_size: "d" is a digit but zero.  How much is a number, and   *)
(* whether it is a float; 0 is none.                                       *)
Digit(n, i) == i \in DOMAIN n /\ n[i] \in {"0", "d"}
Digits(n, i) == CHOOSE k \in i..(Len(n) + 1) : ~Digit(n, k) /\ \A j \in i..(k - 1) : Digit(n, j)
Is(n, i, c) == i \in DOMAIN n /\ n[i] = c

NumberSize(n) ==
    LET int == IF Is(n, 1, "-") THEN 2 ELSE 1
        dot == Digits(n, int)
        exp == IF Is(n, dot, ".") THEN Digits(n, dot + 1) ELSE dot
        sign == IF Is(n, exp + 1, "-") THEN exp + 2 ELSE exp + 1
        end == IF Is(n, exp, "e") THEN Digits(n, sign) ELSE exp
    IN IF \/ Is(n, dot, ".") /\ ~Digit(n, dot + 1)
          \/ Is(n, exp, "e") /\ ~Digit(n, sign)
          \/ end = 1
          \/ Is(n, int, "0") /\ end - int > 1 /\ end = dot
       THEN 0 ELSE end - 1

(* utf16_extract_escaped and utf8_from_seu16: a character, or the first    *)
(* half of one that the second follows; how many are taken, 0 for none.    *)
Escaped(s, i) ==
    CASE Is(s, i, "uplain") -> 1
      [] Is(s, i, "uhigh") /\ Is(s, i + 1, "ulow") -> 2
      [] OTHER -> 0

(* json_unescape: the bytes that are left, those that were written, and    *)
(* the memory for them.  An escaped u is up to four and wants eight free;  *)
(* a backspace takes one back, and then its letter is read as one more.    *)
Bytes(t) == IF t = "x" THEN 1 ELSE IF t = "back" THEN 2 ELSE 6
Source(s) == FoldLeft(LAMBDA n, t : n + Bytes(t), 0, s)

Grow(q) ==
    IF q.el >= q.esz - 1 THEN [q EXCEPT !.esz = @ + (IF q.left < 2 THEN 2 ELSE q.left)] ELSE q

Write(s, q, from, n) ==
    Grow([q EXCEPT !.i = @ + from, !.el = @ + n, !.fits = @ /\ q.el + n < q.esz,
                   !.left = Source(SubSeq(s, q.i + from + 1, Len(s)))])

UnescapeOne(s, q) ==
    LET n == Escaped(s, q.i + 1)
        t == s[q.i + 1]
    IN CASE q.i >= Len(s) \/ q.bad -> q
         [] t = "x" -> Write(s, q, 1, 1)
         [] t = "back" -> Write(s, Write(s, [q EXCEPT !.el = IF @ > 0 THEN @ - 1 ELSE 0], 0, 0), 1, 1)
         [] n > 0 -> Write(s, IF q.el + 8 >= q.esz - 1 THEN [q EXCEPT !.esz = @ + 9] ELSE q, n, n + 2)
         [] OTHER -> [q EXCEPT !.bad = TRUE]

Unescape(s) ==
    LET f[k \in 0..Len(s)] ==
            IF k = 0 THEN [i |-> 0, left |-> Source(s), el |-> 0, esz |-> Source(s) + 1,
                           fits |-> TRUE, bad |-> FALSE]
            ELSE UnescapeOne(s, f[k - 1])
    IN f[Len(s)]

-----------------------------------------------------------------------------
(* What a document is: values between commas, in which no container is     *)
(* empty.  Blanks are left aside.                                          *)
Solid(d) == SelectSeq(d, LAMBDA t : t # " ")

(* The part of d from i to j is a value, items or members.                 *)
Grammar(d) ==
    LET is[what \in {"value", "items", "member", "members"},
           i \in 1..(Len(d) + 1), j \in 0..Len(d)] ==
        /\ i <= j
        /\ CASE what = "value" ->
                  \/ i = j /\ d[i] \in Scalars
                  \/ d[i] = "[" /\ d[j] = "]" /\ is["items", i + 1, j - 1]
                  \/ d[i] = "{" /\ d[j] = "}" /\ is["members", i + 1, j - 1]
             [] what = "items" ->
                  \/ is["value", i, j]
                  \/ \E k \in i..j : d[k] = "," /\ is["value", i, k - 1] /\ is["items", k + 1, j]
             [] what = "member" ->
                  j > i + 1 /\ d[i] = "str" /\ d[i + 1] = ":" /\ is["value", i + 2, j]
             [] what = "members" ->
                  \/ is["member", i, j]
                  \/ \E k \in i..j : d[k] = "," /\ is["member", i, k - 1] /\ is["members", k + 1, j]
    IN is

IsDocument(d) ==
    \/ d = <<>>
    \/ Grammar(d)["items", 1, Len(d)]
    \/ Last(d) = "," /\ Grammar(d)["items", 1, Len(d) - 1]

Blank(d) == \E i \in 1..(Len(d) - 1) : <<d[i], d[i + 1]>> \in {<<"[", "]">>, <<"{", "}">>}

(* The calls of nested containers match.                                   *)
Depth(calls, what) == Len(SelectSeq(calls, LAMBDA c : c = what))
Balanced(calls) == Depth(calls, "objectNew") = Depth(calls, "objectEnd")
                   /\ Depth(calls, "arrayNew") = Depth(calls, "arrayEnd")

(* Numbers as the grammar has them.                                        *)
DigitsUpTo(k) == UNION {[1..n -> {"0", "d"}] : n \in 1..k}
Numbers ==
    LET ints == {<<"0">>} \cup {<<"d">>} \cup {<<"d">> \o t : t \in DigitsUpTo(2)}
        fractions == {<<>>} \cup {<<".">> \o t : t \in DigitsUpTo(2)}
        exps == {<<>>} \cup {<<"e">> \o m \o t : m \in {<<>>, <<"-">>}, t \in DigitsUpTo(2)}
    IN {m \o i \o f \o e : m \in {<<>>, <<"-">>}, i \in ints, f \in fractions, e \in exps}

(* Every document of whole values is taken and no other, the containers    *)
(* that are called for are closed, unless one is empty (json.c:201-390).   *)
LexerTakesDocuments ==
    LET r == Lexer(doc) IN
    ~Blank(Solid(doc)) => /\ (r.ret = 0 <=> IsDocument(Solid(doc)))
                          /\ (r.ret = 0 => Balanced(r.calls))

(* A string ends at the first quote that is not escaped, unless the last   *)
(* it has is a backslash; a number is read whole; and what is unescaped    *)
(* never leaves its memory, its end included (json.c:135-197, 392-503).    *)
UnescapeFits ==
    /\ \A s \in UNION {[1..n -> {"x", "\\", "quote"}] : n \in 0..4} :
          (\A i \in DOMAIN s : s[i] = "\\" => ~Is(s, i + 1, "\\")) =>
             LET ends == {i \in DOMAIN s : s[i] = "quote" /\ ~Is(s, i - 1, "\\")}
             IN StringSize(s) = IF ends = {} THEN 0 ELSE CHOOSE i \in ends : \A j \in ends : i <= j
    /\ \A n \in Numbers, c \in {<<>>, <<",">>} : NumberSize(n \o c) = Len(n)
    /\ \A s \in UNION {[1..n -> {"x", "uplain", "uhigh", "ulow", "back"}] : n \in 0..MaxString} :
          Unescape(s).fits /\ Unescape(s).el < Unescape(s).esz
=============================================================================
