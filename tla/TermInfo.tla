------------------------------- MODULE TermInfo -------------------------------
(***************************************************************************)
(* The terminal's database (ef/term/terminfo.c): how its binary file is    *)
(* read into capabilities, the standard ones by place and the extended     *)
(* ones by name, and how a capability with conditions and parameters is    *)
(* made into what is sent.                                                 *)
(*                                                                         *)
(* A format is read character by character: what is skipped is found by    *)
(* them alone.  The number of a constant stands for its braces and digits. *)
(* The variables a-z are left out, the type of what is stored is never set;    *)
(* and files have no extended numbers, which are read as bytes, so that    *)
(* all that follows them is read from the wrong place (terminfo.c:485).    *)
(***************************************************************************)
EXTENDS Integers, Sequences, SequencesExt, FiniteSets

CONSTANTS Formats, Params,      \* trees of formats; values of p1 and p2
          StdNames, ExtNames,   \* names of capabilities, in their order
          Files, NONE           \* [std, bools, strings, names]: what a file holds

VARIABLES
    tree, chars, given, param, pos, stack, statif, level, out,  \* term_escape_make
    how,                \* the text is made, printed, or was not asked for
    file, cap, reading, entry, place, names               \* term_load
format == <<tree, chars, given, param, pos, stack, statif, level, out, how>>
database == <<file, cap, reading, entry, place, names>>
vars == <<format, database>>

-----------------------------------------------------------------------------
(* Trees: a text, a number, a condition with its two parts, and a chain,   *)
(* where the other part goes on with a condition of its own.               *)
Op(c) == <<"%", c>>
Text(c) == [kind |-> "text", c |-> c]
If(c, a) == [kind |-> "if", c |-> c, a |-> a]
IfElse(c, a, b) == [kind |-> "else", c |-> c, a |-> a, b |-> b]
Chain(c, a, d, b, e) == [kind |-> "chain", c |-> c, a |-> a, d |-> d, b |-> b, e |-> e]

Param(n) == Op("p") \o <<n>>
Const(n) == Op("{") \o <<n>>
Expr(e) == CASE e = "p1" -> Param("1")
             [] e = "next" -> Op("i") \o Param("1")
             [] e = "same" -> Param("1") \o Param("2") \o Op("=")
             [] e = "more" -> Param("1") \o Const("0") \o Op(">")
             [] e = "less" -> Param("1") \o Const("1") \o Op("-") \o Op("!")

RECURSIVE Chars(_)
Chars(nodes) ==
    IF nodes = <<>> THEN <<>>
    ELSE LET n == Head(nodes)
             when(c, a) == Expr(c) \o Op("t") \o Chars(a)
         IN (CASE n.kind = "text" -> IF n.c = "%" THEN Op("%") ELSE <<n.c>>
               [] n.kind = "num" -> Expr(n.e) \o Op("d")
               [] n.kind = "if" -> Op("?") \o when(n.c, n.a) \o Op(";")
               [] n.kind = "else" ->
                    Op("?") \o when(n.c, n.a) \o Op("e") \o Chars(n.b) \o Op(";")
               [] n.kind = "chain" ->
                    Op("?") \o when(n.c, n.a) \o Op("e") \o when(n.d, n.b)
                    \o Op("e") \o Chars(n.e) \o Op(";"))
            \o Chars(Tail(nodes))

(* What a tree says, and the parameters after it: the reference.  The      *)
(* operand that was pushed last is the left one, as in the code.           *)
Value(e, p) == CASE e \in {"p1", "next"} -> p[1] + (IF e = "next" THEN 1 ELSE 0)
                 [] e = "same" -> IF p[1] = p[2] THEN 1 ELSE 0
                 [] e = "more" -> IF 0 > p[1] THEN 1 ELSE 0
                 [] e = "less" -> IF 1 - p[1] = 0 THEN 1 ELSE 0
After(e, p) == IF e = "next" THEN <<p[1] + 1, p[2] + 1>> ELSE p
RECURSIVE Meaning(_, _)
Meaning(nodes, p) ==
    IF nodes = <<>> THEN <<>>
    ELSE LET n == Head(nodes) IN
         CASE n.kind = "text" -> <<n.c>> \o Meaning(Tail(nodes), p)
           [] n.kind = "num" -> <<ToString(Value(n.e, p))>> \o Meaning(Tail(nodes), After(n.e, p))
           [] n.kind = "if" ->
                Meaning((IF Value(n.c, p) # 0 THEN n.a ELSE <<>>) \o Tail(nodes), After(n.c, p))
           [] n.kind = "else" ->
                Meaning((IF Value(n.c, p) # 0 THEN n.a ELSE n.b) \o Tail(nodes), After(n.c, p))
           [] n.kind = "chain" ->
                Meaning((IF Value(n.c, p) # 0 THEN n.a
                         ELSE <<IfElse(n.d, n.b, n.e)>>) \o Tail(nodes), After(n.c, p))

-----------------------------------------------------------------------------
(* Where the part that is skipped ends: conditions inside it are passed,   *)
(* but the character behind one is looked at as if an escape had begun     *)
(* before it, and so is the one behind an escaped percent sign.            *)
Percent(i) == CHOOSE j \in i..Len(chars) :
    chars[j] = "%" /\ \A k \in i..(j - 1) : chars[k] # "%"

RECURSIVE Skip(_, _)
Skip(stops, i) ==
    LET op == Percent(i) + 1 IN
    IF chars[op] # "?" THEN IF chars[op] \in stops THEN op - 1 ELSE Skip(stops, op)
    ELSE LET behind == Skip({";"}, op + 1) + 2 IN
         IF behind <= Len(chars) /\ chars[behind] \in stops THEN behind - 1
         ELSE Skip(stops, behind)

(* What is skipped ends at the first end there is.                         *)
EscapeToEndNear(i) == CHOOSE j \in i..(Len(chars) - 1) :
    /\ chars[j] = "%" /\ chars[j + 1] = ";"
    /\ \A k \in i..(j - 1) : ~(chars[k] = "%" /\ chars[k + 1] = ";")

EscapeToEnd(i) == Skip({";"}, i)
EscapeToElse(i) == Skip({"e", ";"}, i)

Pop(n) == SubSeq(stack, 1, Len(stack) - n)
Top == Last(stack)
Second == stack[Len(stack) - 1]
Truth(b) == IF b THEN 1 ELSE 0

(* term_escape_string and term_escape_print of a capability there is.      *)
Start ==
    /\ how = "no" /\ tree # <<>> /\ how' \in {"string", "print"}
    /\ chars' = Chars(tree)
    /\ UNCHANGED <<tree, given, param, pos, stack, statif, level, out, database>>

(* The escape that is next, and the digit that is its argument.            *)
At(ops) == pos < Len(chars) /\ chars[pos] = "%" /\ chars[pos + 1] \in ops
Arg == CHOOSE n \in 0..9 : ToString(n) = chars[pos + 2]

Copied ==
    /\ \/ /\ pos <= Len(chars) /\ chars[pos] # "%"
          /\ out' = Append(out, chars[pos]) /\ pos' = pos + 1
       \/ At({"%"}) /\ out' = Append(out, "%") /\ pos' = pos + 2
    /\ UNCHANGED <<tree, chars, param, stack, statif, level>>

Number ==
    /\ At({"d"}) /\ out' = Append(out, ToString(Top)) /\ stack' = Pop(1) /\ pos' = pos + 2
    /\ UNCHANGED <<tree, chars, param, statif, level>>

Push ==
    /\ At({"p", "{"})
    /\ stack' = Append(stack, IF At({"p"}) THEN param[Arg] ELSE Arg)
    /\ pos' = pos + 3 /\ UNCHANGED <<tree, chars, param, statif, level, out>>

Operator ==
    /\ At({"=", ">", "-"})
    /\ stack' = Append(Pop(2), CASE At({"-"}) -> Top - Second
                                 [] At({"="}) -> Truth(Top = Second)
                                 [] At({">"}) -> Truth(Top > Second))
    /\ pos' = pos + 2 /\ UNCHANGED <<tree, chars, param, statif, level, out>>

Not ==
    /\ At({"!"}) /\ stack' = Append(Pop(1), Truth(Top = 0)) /\ pos' = pos + 2
    /\ UNCHANGED <<tree, chars, param, statif, level, out>>

Increment ==
    /\ At({"i"}) /\ param' = <<param[1] + 1, param[2] + 1>> /\ pos' = pos + 2
    /\ UNCHANGED <<tree, chars, stack, statif, level, out>>

Question ==
    /\ At({"?"}) /\ statif' = [statif EXCEPT ![level + 1] = 1] /\ level' = level + 1
    /\ pos' = pos + 2 /\ UNCHANGED <<tree, chars, param, stack, out>>

(* Outside of a condition the program ends, by an assertion.               *)
Then ==
    /\ At({"t"}) /\ level > 0 /\ stack' = Pop(1)
    /\ IF Top = 0 THEN pos' = EscapeToElse(pos + 1) /\ statif' = [statif EXCEPT ![level] = 2]
       ELSE pos' = pos + 2 /\ UNCHANGED statif
    /\ UNCHANGED <<tree, chars, param, level, out>>

(* A level at which one condition has failed takes every part after it.    *)
Else ==
    /\ At({"e"}) /\ level > 0
    /\ pos' = IF statif[level] # 2 THEN EscapeToEnd(pos + 1) ELSE pos + 2
    /\ UNCHANGED <<tree, chars, param, stack, statif, level, out>>

EndIf ==
    /\ At({";"}) /\ level > 0 /\ level' = level - 1 /\ pos' = pos + 2
    /\ UNCHANGED <<tree, chars, param, stack, statif, out>>

Step ==
    /\ \/ Copied \/ Number \/ Push \/ Operator \/ Not \/ Increment
       \/ Question \/ Then \/ Else \/ EndIf
    /\ UNCHANGED <<given, how, database>>

Make == how = "string" /\ Step
MakePrint == how = "print" /\ Step

-----------------------------------------------------------------------------
(* term_load: the standard capabilities, then the extended ones, whose     *)
(* names a second stream finds: its place is counted in names.  Any read   *)
(* may fail, for the file may be cut; what was loaded stays loaded.        *)
Load ==
    /\ reading = "closed" /\ reading' \in {"std", "failed"} /\ entry' = 1
    /\ UNCHANGED <<file, cap, place, names, format>>

ReadFails ==
    /\ reading \in {"std", "bools", "strings"} /\ reading' = "failed"
    /\ UNCHANGED <<file, cap, entry, place, names, format>>

(* A file with more values than there are names is malformed.              *)
Standard ==
    /\ reading = "std" /\ entry <= Len(file.std) /\ Len(file.std) <= Len(StdNames)
    /\ cap' = IF file.std[entry] = NONE THEN cap
              ELSE [cap EXCEPT ![StdNames[entry]] = file.std[entry]]
    /\ entry' = entry + 1 /\ UNCHANGED <<file, reading, place, names, format>>

Malformed ==
    /\ reading = "std" /\ Len(file.std) > Len(StdNames) /\ reading' = "failed"
    /\ UNCHANGED <<file, cap, entry, place, names, format>>

(* The second stream is put behind the values of the strings; a file       *)
(* without extended capabilities is loaded by now.                         *)
Extend ==
    /\ reading = "std" /\ entry > Len(file.std)
    /\ reading' \in {"bools", "open"} /\ entry' = 1 /\ place' = 1
    /\ UNCHANGED <<file, cap, names, format>>

(* rbhash_add_unique: what the terminal has by that name stays.            *)
Unique(name, v) == IF cap[name] = NONE THEN [cap EXCEPT ![name] = v] ELSE cap

Named(v) ==
    /\ cap' = Unique(file.names[place], v)
    /\ names' = names \cup {<<file.names[place], reading, entry>>}
    /\ place' = place + 1

(* An absent value is skipped, but its name is not.                        *)
ExtendedBool ==
    /\ reading = "bools" /\ entry <= Len(file.bools) /\ entry' = entry + 1
    /\ IF file.bools[entry] = NONE THEN UNCHANGED <<cap, place, names>>
       ELSE Named(file.bools[entry])
    /\ UNCHANGED <<file, reading, format>>

BoolsEnd ==
    /\ reading = "bools" /\ entry > Len(file.bools) /\ reading' = "strings" /\ entry' = 1
    /\ UNCHANGED <<file, cap, place, names, format>>

ExtendedString ==
    /\ reading = "strings" /\ entry <= Len(file.strings) /\ entry' = entry + 1
    /\ Named(file.strings[entry])
    /\ UNCHANGED <<file, reading, format>>

StringsEnd ==
    /\ reading = "strings" /\ entry > Len(file.strings) /\ reading' = "open"
    /\ UNCHANGED <<file, cap, entry, place, names, format>>

Database == \/ Load \/ ReadFails \/ Standard \/ Malformed \/ Extend
            \/ ExtendedBool \/ BoolsEnd \/ ExtendedString \/ StringsEnd

-----------------------------------------------------------------------------
Init ==
    /\ tree \in Formats \cup {<<>>} /\ chars = <<>> /\ given \in Params /\ param = given
    /\ pos = 1 /\ stack = <<>> /\ statif = [i \in 1..3 |-> 0] /\ level = 0 /\ out = <<>> /\ how = "no"
    /\ file \in Files /\ cap = [n \in Range(StdNames) \cup ExtNames |-> NONE]
    /\ reading = "closed" /\ entry = 1 /\ place = 1 /\ names = {}

Next == Start \/ Make \/ MakePrint \/ Database
Spec == Init /\ [][Next]_vars

-----------------------------------------------------------------------------
(* The text of a part is mistaken for the end of it when it begins with an *)
(* e or a semicolon behind a nested condition or an escaped percent sign;  *)
(* an e only where an else may follow.                                     *)
RECURSIVE Mistaken(_, _)
Mistaken(part, ends) ==
    \/ \E i \in 2..Len(part) :
          /\ part[i].kind = "text" /\ part[i].c \in ends
          /\ part[i - 1].kind \in {"if", "else"} \/ part[i - 1] = Text("%")
    \/ \E i \in DOMAIN part :
          \/ part[i].kind \in {"if", "else"} /\ Mistaken(part[i].a, {"e", ";"})
          \/ part[i].kind = "else" /\ Mistaken(part[i].b, {";"})

(* A format without chains says what it means whatever is nested in it,    *)
(* unless a text in it is mistaken for an end, leaves no condition open    *)
(* and nothing on the stack, and pops nothing that was not pushed.  In a   *)
(* chain of conditions the parts after one that failed are all taken       *)
(* (terminfo.c:714-742, 761-1073).                                         *)
Chained == \E i \in DOMAIN tree : tree[i].kind = "chain"
FormatsRight ==
    /\ At({"d", "t", "!"}) => stack # <<>>
    /\ At({"=", ">", "-"}) => Len(stack) > 1
    /\ ~Mistaken(tree, {}) =>
           /\ At({"t", "e", ";"}) => level > 0
           /\ chars # <<>> /\ pos > Len(chars) =>
                  level = 0 /\ stack = <<>> /\ (~Chained => out = Meaning(tree, given))

(* The extended capabilities get the values that stand beside their names  *)
(* when none is absent, and never take a standard one's place              *)
(* (terminfo.c:279-314, 446-551).                                          *)
NamesRight ==
    /\ (\A i \in DOMAIN file.bools : file.bools[i] # NONE)
       => \A e \in names : e[1] = file.names[IF e[2] = "bools" THEN e[3]
                                            ELSE Len(file.bools) + e[3]]
    /\ \A i \in DOMAIN file.std : i <= Len(StdNames) /\ reading = "open" =>
           file.std[i] \in {NONE, cap[StdNames[i]]}
=============================================================================
