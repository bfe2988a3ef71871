-------------------------------- MODULE Settings --------------------------------
(***************************************************************************)
(* What a program is told from outside: the options of its command line    *)
(* (ef/opt/optex.c), a file of settings (ef/file/config.c, whose keys are  *)
(* in a trie, ef/datastructure/trie.c) and paths (path_resolve of          *)
(* ef/file/path.c).  A word of the command line has letters, when it is an *)
(* option, and may be a number; files and paths are sequences of           *)
(* characters.                                                             *)
(***************************************************************************)
EXTENDS Integers, Sequences, SequencesExt, FiniteSetsExt, Functions

CONSTANTS Words, MaxWords,      \* of a command line, and how many
          Types,                \* argdef_s: option -> "none", "signed" or "str"
          Keys, Values,         \* of the trie
          Texts,                \* files of settings
          Refused,              \* the keys whose callback returns CONFF_ERROR
          PathSet, Home, Here,  \* paths, those of path_home and path_current
          NULL

VARIABLES argv, it, hasset, autoset, error,     \* opt_parse
          trie, given,          \* path -> endnode; history: key -> first value
          text, rest, told, ret,        \* config_parse, history: its callbacks
          path, resolved
options == <<argv, it, hasset, autoset, error>>
keys == <<trie, given>>
config == <<text, rest, told, ret>>
paths == <<path, resolved>>
vars == <<options, keys, config, paths>>

Fine == [info |-> "none"]
Init ==
    /\ argv \in UNION {[1..n -> Words] : n \in 0..MaxWords}
    /\ it = 1 /\ hasset = {} /\ autoset = [o \in DOMAIN Types |-> 0] /\ error = Fine
    /\ trie = <<>> /\ given = <<>>
    /\ text \in Texts /\ rest = text /\ told = <<>> /\ ret = NULL
    /\ path \in PathSet /\ resolved = NULL

-----------------------------------------------------------------------------
(* opt_arg_set: m is what was parsed of the word at it; skipper words are  *)
(* taken.  A value that is no number is stored as far as it is one.        *)
ArgSet(m, o) ==
    LET at == it + m.skipper
        set == [m EXCEPT !.hasset = @ \cup {o}]
    IN  CASE Types[o] = "none"    -> set
          [] at > Len(argv)       -> [set EXCEPT !.error = [info |-> "require", at |-> it]]
          [] Types[o] = "signed" /\ ~argv[at].number ->
                 [set EXCEPT !.autoset[o] = -at, !.error = [info |-> "signed", at |-> at]]
          [] OTHER -> [set EXCEPT !.autoset[o] = at, !.skipper = @ + 1]

(* A slip: every letter of a word takes the value behind the word.         *)
LetterSame(m, o) ==
    CASE m.error # Fine       -> m
      [] o \notin DOMAIN Types -> [m EXCEPT !.error = [info |-> "unknow", at |-> it]]
      [] OTHER -> [ArgSet([m EXCEPT !.skipper = 1], o) EXCEPT !.skipper = Max({@, m.skipper})]

(* One turn of the loop of opt_parse_short; opt_parse_long has one turn.   *)
Letter(m, o) ==
    CASE m.error # Fine       -> m
      [] o \notin DOMAIN Types -> [m EXCEPT !.error = [info |-> "unknow", at |-> it]]
      [] OTHER                -> ArgSet(m, o)

OptParse ==
    /\ error = Fine /\ it <= Len(argv) /\ argv[it].option
    /\ LET m == FoldLeft(Letter, [skipper |-> 1, hasset |-> hasset, autoset |-> autoset,
                                  error |-> Fine], argv[it].letters)
       IN /\ hasset' = m.hasset /\ autoset' = m.autoset /\ error' = m.error
          /\ it' = IF m.error = Fine THEN it + m.skipper ELSE it
    /\ UNCHANGED <<argv, keys, config, paths>>

-----------------------------------------------------------------------------
(* trie_insert: a node for each beginning, and one behind the end of the   *)
(* key, which has the value.                                               *)
Close == "end"
With(key) == DOMAIN trie \cup {SubSeq(key, 1, i) : i \in 1..Len(key)} \cup {Append(key, Close)}
EndNode(n) == IF n \in DOMAIN trie THEN trie[n] ELSE NULL

(* A slip: a key that was there gets the new value.                        *)
InsertedOver(key, value) ==
    [n \in With(key) |-> IF n = Append(key, Close) THEN value ELSE EndNode(n)]
Inserted(key, value) ==
    [n \in With(key) |-> IF n = Append(key, Close) /\ EndNode(n) = NULL THEN value ELSE EndNode(n)]
Insert(key, value) ==
    /\ trie' = Inserted(key, value)
    /\ given' = IF key \in DOMAIN given THEN given
                ELSE [k \in DOMAIN given \cup {key} |-> IF k = key THEN value ELSE given[k]]
    /\ UNCHANGED <<options, config, paths>>

(* trie_search, which has made no step into an empty key.                  *)
Step(node, ch) == IF Append(node, ch) \in DOMAIN trie THEN Append(node, ch) ELSE NULL
Search(key) ==
    LET node == FoldLeft(LAMBDA n, ch : IF n = NULL THEN NULL ELSE Step(n, ch), <<>>, key)
    IN IF key = <<>> \/ node = NULL \/ Step(node, Close) = NULL THEN NULL ELSE trie[Step(node, Close)]

-----------------------------------------------------------------------------
(* config_parse_line, over what is left of the file: what is left then,    *)
(* whom it told what, and what it returned.                                *)
Blank == {" "}
From(s, i) == SubSeq(s, i, Len(s))
SkipH(s) == From(s, SelectInSeq(Append(s, NULL), LAMBDA c : c \notin Blank))
SkipLine(s) == From(s, SelectInSeq(Append(s, "nl"), LAMBDA c : c = "nl") + 1)
UpTo(s, S) == SelectInSeq(s, LAMBDA c : c \in S)        \* 0: not there

Known(s) == \E k \in Keys : IsPrefix(s, k)
Line(left, says, r) == [rest |-> left, told |-> says, ret |-> r]
Says(left, k, value) == Line(left, <<[key |-> k, value |-> value]>>, IF k \in Refused THEN -1 ELSE 1)

(* config_value_string: a value that the end of the file ends loses its    *)
(* last character.                                                         *)
Value(s, k) ==
    IF s = <<>> THEN Line(s, <<>>, -1)
    ELSE IF s[1] = "quote"
         THEN LET e == UpTo(Tail(s), {"quote"})
                  v == IF e = 0 THEN Tail(s) ELSE SubSeq(s, 2, e)
                  left == IF e = 0 THEN <<>> ELSE From(s, e + 2)
              IN IF v = <<>> THEN Line(left, <<>>, -1) ELSE Says(SkipLine(left), k, v)
         ELSE LET e == UpTo(s, Blank \cup {"nl"})
                  n == IF e = 0 THEN Len(s) ELSE e
              IN Says(IF s[n] = "nl" THEN From(s, n + 1) ELSE SkipLine(From(s, n + 1)),
                      k, SubSeq(s, 1, n - 1))

(* A key of which no known one begins is skipped with its line; one that   *)
(* only begins known ones ends the file, unless it ends its line.          *)
ParseLine(s0) ==
    LET s == SkipH(s0)
        e == UpTo(s, Blank \cup {"=", "nl"})
        k == IF e = 0 THEN s ELSE SubSeq(s, 1, e - 1)
        stop == {i \in 1..Len(k) : ~Known(SubSeq(k, 1, i))}
        after == IF s[e] \in Blank THEN SkipH(From(s, e + 1)) ELSE From(s, e)
    IN CASE s0 = <<>>     -> Line(s0, <<>>, 0)
         [] stop # {}     -> Line(SkipLine(From(s, Min(stop) + 1)), <<>>, 1)
         [] k \notin Keys -> IF e = 0 THEN Line(<<>>, <<>>, 0)
                             ELSE Line(From(s, e + 1), <<>>, IF s[e] = "nl" THEN 1 ELSE 0)
         [] e = 0         -> Line(<<>>, <<>>, -1)
         [] after = <<>>  -> Line(<<>>, <<>>, 0)
         [] after[1] = "nl" -> Says(Tail(after), k, NULL)
         [] after[1] # "="  -> Line(Tail(after), <<>>, -1)
         [] OTHER           -> Value(SkipH(Tail(after)), k)

(* A slip: what is behind a quoted value is the next line.                 *)
ParseLineQuoted(s) ==
    LET l == ParseLine(s)
        q == UpTo(s, {"quote"})
    IN IF l.told = <<>> \/ q = 0 \/ q > UpTo(s, {"nl"}) THEN l
       ELSE [l EXCEPT !.rest = From(s, q + UpTo(From(s, q + 1), {"quote"}) + 1)]

(* One turn of the loop of config_parse.                                   *)
ConfigLine(s) == ParseLine(s)
ConfigParse ==
    /\ ret \in {NULL, 1}
    /\ LET l == ConfigLine(rest) IN
       rest' = l.rest /\ told' = told \o l.told /\ ret' = l.ret
    /\ UNCHANGED <<text, options, keys, paths>>

-----------------------------------------------------------------------------
(* path_resolve: the beginning that stands for a directory, then every "." *)
(* before a slash and every ".." before one, or at the end, also when they *)
(* end a longer name.                                                      *)
KillBack(p) ==
    LET q == IF p # <<>> /\ Last(p) = "/" THEN Front(p) ELSE p
        slash == SelectLastInSeq(q, LAMBDA c : c = "/")
    IN IF Len(p) = 1 THEN p ELSE IF slash = 0 THEN q ELSE SubSeq(q, 1, slash - 1)

Begins(p, w) == p = w \/ IsPrefix(Append(w, "/"), p)
Behind(p, n) == IF Len(p) > n + 1 THEN From(p, n + 1) ELSE <<>>
Whole(p) == CASE Begins(p, <<"~">>)      -> Home \o Behind(p, 1)
              [] Begins(p, <<".">>)      -> Here \o Behind(p, 1)
              [] Begins(p, <<".", ".">>) -> KillBack(Here) \o Behind(p, 2)
              [] OTHER                   -> p

WalkTo(ends, w) ==
    LET At(i) == IF i <= Len(w) THEN w[i] ELSE NULL
        Char(m, i) ==
            CASE m.skip > 0 -> [m EXCEPT !.skip = @ - 1]
              [] At(i) = "." /\ At(i + 1) = "/" -> [m EXCEPT !.skip = 1]
              [] At(i) = "." /\ At(i + 1) = "." /\ At(i + 2) \in ends ->
                     [out |-> KillBack(m.out), skip |-> 1]
              [] OTHER -> [m EXCEPT !.out = Append(@, w[i])]
    IN FoldLeftDomain(Char, [out |-> <<>>, skip |-> 0], w).out

(* A slip: ".." at the end is a name.                                      *)
WalkEnd(w) == WalkTo({"/"}, w)
Walk(w) == WalkTo({"/", NULL}, w)
PathResolve ==
    /\ resolved = NULL /\ resolved' = Walk(Whole(path))
    /\ UNCHANGED <<path, options, keys, config>>

Filling == \E k \in Keys \cup {<<>>}, v \in Values : Insert(k, v)
Next == OptParse \/ Filling \/ ConfigParse \/ PathResolve

Spec == Init /\ [][Next]_vars

-----------------------------------------------------------------------------
(* The command line read from left to right: letters that need a value     *)
(* wait for the words that follow.  When it is right the options and their *)
(* values are those, and what is left begins where the parser stopped;     *)
(* when it is not, the parser fails, and names the word at fault           *)
(* (optex.c:76-198).                                                      *)
Read(m, i) ==
    LET w == argv[i]
        o == Head(m.wait)
    IN  CASE m.end # 0 \/ m.bad -> m
          [] m.wait # <<>> -> [m EXCEPT !.wait = Tail(@), !.vals[o] = i,
                                        !.bad = Types[o] = "signed" /\ ~w.number]
          [] ~w.option     -> [m EXCEPT !.end = i]
          [] \E l \in ToSet(w.letters) : l \notin DOMAIN Types -> [m EXCEPT !.bad = TRUE]
          [] OTHER -> [m EXCEPT !.set = @ \cup ToSet(w.letters),
                                !.wait = SelectSeq(w.letters, LAMBDA l : Types[l] # "none")]
Reading == FoldLeftDomain(LAMBDA m, i : Read(m, i),
                          [wait |-> <<>>, set |-> {}, end |-> 0, bad |-> FALSE,
                           vals |-> [o \in DOMAIN Types |-> 0]], argv)
Stopped == it > Len(argv) \/ ~argv[it].option
OptionsRight ==
    /\ error = Fine /\ Stopped =>
           /\ ~Reading.bad /\ Reading.wait = <<>>
           /\ hasset = Reading.set /\ autoset = Reading.vals
           /\ it = IF Reading.end = 0 THEN Len(argv) + 1 ELSE Reading.end
    /\ error # Fine =>
           /\ Reading.bad \/ Reading.wait # <<>>
           /\ CASE error.info = "unknow"  -> argv[error.at].option /\ ~(ToSet(argv[error.at].letters) \subseteq DOMAIN Types)
                [] error.info = "require" -> argv[error.at].option /\ error.at = it
                [] OTHER -> ~argv[error.at].number /\ error.at > it

(* A key is found, but for the empty one, with the value it was first      *)
(* given, and nothing that was not inserted is (trie.c:41-136).            *)
TrieFinds ==
    \A k \in Keys \cup {Front(n) : n \in DOMAIN trie} :
        Search(k) = IF k \in DOMAIN given /\ k # <<>> THEN given[k] ELSE NULL

(* In a file whose lines all end, whose keys are known or do not begin a   *)
(* known one, and whose quoted values are not empty and closed in their    *)
(* line, every known line is told of once, in order, with its value, up to *)
(* one that is refused (config.c:5-108).                                   *)
LinesOf == LET Cut(m, c) == IF c = "nl" THEN [done |-> Append(m.done, m.line), line |-> <<>>]
                            ELSE [m EXCEPT !.line = Append(@, c)]
           IN FoldLeft(Cut, [done |-> <<>>, line |-> <<>>], text).done
Before(s, S) == IF UpTo(s, S) = 0 THEN s ELSE SubSeq(s, 1, UpTo(s, S) - 1)
KeyOf(l) == Before(SkipH(l), Blank \cup {"="})
Rest(l) == SkipH(From(SkipH(l), Len(KeyOf(l)) + 1))
Assigned(l) == SkipH(Tail(Rest(l)))
Quoted(l) == Assigned(l) # <<>> /\ Assigned(l)[1] = "quote"
Well(l) == IF KeyOf(l) \in Keys
           THEN \/ Rest(l) = <<>>
                \/ Rest(l)[1] = "=" /\ (Quoted(l) => UpTo(Tail(Assigned(l)), {"quote"}) > 1)
           ELSE Known(KeyOf(l)) => SkipH(l) = KeyOf(l)
Meant(l) == CASE KeyOf(l) \notin Keys -> <<>>
              [] Rest(l) = <<>> -> <<[key |-> KeyOf(l), value |-> NULL]>>
              [] Quoted(l)      -> <<[key |-> KeyOf(l), value |-> Before(Tail(Assigned(l)), {"quote"})]>>
              [] OTHER          -> <<[key |-> KeyOf(l), value |-> Before(Assigned(l), Blank)]>>
ConfigRight ==
    LET all == FoldLeft(LAMBDA m, l : m \o Meant(l), <<>>, LinesOf)
        bad == {i \in DOMAIN all : all[i].key \in Refused}
    IN ret \in {0, -1} /\ (text # <<>> => Last(text) = "nl") /\ (\A l \in ToSet(LinesOf) : Well(l)) =>
           /\ told = IF bad = {} THEN all ELSE SubSeq(all, 1, Min(bad))
           /\ ret = IF bad = {} THEN 0 ELSE -1

(* An absolute path, whose names have no dots, whose "." are not at its    *)
(* end and whose ".." do not leave the root, is resolved to the place that *)
(* it leads to; the root is the empty path (path.c:72-149).        *)
Parts(p) == LET Cut(m, c) == IF c = "/" THEN Append(m, <<>>) ELSE Append(Front(m), Append(Last(m), c))
            IN FoldLeft(Cut, <<<<>>>>, p)
Places(p) == LET Go(m, w) == CASE w = <<>> \/ w = <<".">> -> m
                               [] w = <<".", ".">>       -> IF m = <<>> THEN <<NULL>> ELSE Front(m)
                               [] OTHER                  -> Append(m, w)
             IN FoldLeft(Go, <<>>, Parts(p))
Sound(p) == /\ p # <<>> /\ p[1] = "/" /\ Last(Parts(p)) # <<".">>
            /\ \A i \in 2..(Len(Parts(p)) - 1) : Parts(p)[i] # <<>>
            /\ \A w \in ToSet(Parts(p)) : "." \in ToSet(w) => w \in {<<".">>, <<".", ".">>}
            /\ \A i \in DOMAIN p : NULL \notin ToSet(Places(SubSeq(p, 1, i)))
PathRight == resolved # NULL /\ Sound(Whole(path)) =>
                 SelectSeq(Parts(resolved), LAMBDA w : w # <<>>) = Places(Whole(path))

SettingsRight == OptionsRight /\ TrieFinds /\ ConfigRight /\ PathRight
=============================================================================
