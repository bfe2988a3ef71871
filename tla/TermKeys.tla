------------------------------ MODULE TermKeys -------------------------------
(***************************************************************************)
(* The keys of a terminal (ef/term/terminput.c): the sequences that        *)
(* terminfo knows are kept in a trie (ef/datastructure/trie.c), and        *)
(* term_input_extend walks it with the characters that are typed until     *)
(* they are a key, or cannot be one and go back to be read again.          *)
(*                                                                         *)
(* A step is a turn of the loop of term_input_extend, so characters arrive *)
(* between any two of them.  Left out: characters of several bytes, the    *)
(* capacity of the buffer of what is read again, errors of read.           *)
(***************************************************************************)
EXTENDS Naturals, Sequences, FiniteSets, SequencesExt

CONSTANTS Chars,            \* what may be typed
          Table,            \* the sequences of terminfo, in the order of their names
          Mouse,            \* the one that says a mouse event follows
          MaxTyped          \* bound of what is typed

VARIABLES trie, named,      \* localTermInfo.caupcake, and the keys put into it
          typed, tty,       \* all that was typed, and what waits in the terminal
          uinp,             \* what was read and is to be read again
          updateResize,
          key, scan,        \* what this call has read, and the node it has come to
          mouse,            \* characters that a mouse event still takes
          out               \* what was returned, character by character
vars == <<trie, named, typed, tty, uinp, updateResize, key, scan, mouse, out>>

Resize == "resize"

-----------------------------------------------------------------------------
(* A trie: its nodes, which are prefixes, and the data of those that end.  *)
EmptyTrie == [nodes |-> {<<>>}, data |-> <<>>]

TrieInsert(t, str, data) ==
    [nodes |-> t.nodes \cup {SubSeq(str, 1, n) : n \in 0..Len(str)},
     data |-> IF str \in DOMAIN t.data THEN t.data
              ELSE [s \in DOMAIN t.data \cup {str} |->
                      IF s = str THEN data ELSE t.data[s]]]

TrieStep(t, node, ch) == Append(node, ch) \in t.nodes
TrieEnds(t, node) == node \in DOMAIN t.data
TrieSearch(t, str) == IF TrieEnds(t, str) THEN {t.data[str]} ELSE {}

Init ==
    /\ trie = EmptyTrie /\ named = 0
    /\ typed = <<>> /\ tty = <<>> /\ uinp = <<>> /\ updateResize = FALSE
    /\ key = <<>> /\ scan = <<>> /\ mouse = 0 /\ out = <<>>

(* term_update_key, a key at a time; of two with one sequence the first is *)
(* kept.                                                                   *)
UpdateKey ==
    /\ named < Len(Table)
    /\ named' = named + 1
    /\ trie' = TrieInsert(trie, Table[named + 1], named + 1)
    /\ UNCHANGED <<typed, tty, uinp, updateResize, key, scan, mouse, out>>

-----------------------------------------------------------------------------
(* term_input_utf8: the next character, from whichever source has one.     *)
Input ==
    CASE uinp # <<>>  -> [ch |-> Head(uinp), uinp |-> Tail(uinp), tty |-> tty, resize |-> updateResize]
      [] uinp = <<>> /\ updateResize -> [ch |-> Resize, uinp |-> uinp, tty |-> tty, resize |-> FALSE]
      [] OTHER -> [ch |-> Head(tty), uinp |-> uinp, tty |-> Tail(tty), resize |-> FALSE]

Kbhit(i) == i.uinp # <<>> \/ i.tty # <<>> \/ i.resize

(* A key is returned, to the caller or to a mouse event; what else was     *)
(* read goes to the end of what is read again.                             *)
Return(read, back, special) ==
    /\ out' = out \o SelectSeq(read, LAMBDA c : c # Resize)
    /\ uinp' = back
    /\ key' = <<>> /\ scan' = <<>>
    /\ mouse' = IF special = Mouse THEN 3
                ELSE IF mouse > 0 THEN mouse - 1 ELSE 0

Plain == 0
(* A slip of Unroll: what was read ahead of the key is dropped.            *)
UnrollDrops(read, i) == Return(<<read[1]>>, i.uinp, Plain)
Unroll(read, i) == Return(<<read[1]>>, i.uinp \o Tail(read), Plain)

InputExtend ==
    /\ named = Len(Table)
    /\ uinp # <<>> \/ updateResize \/ tty # <<>>
    /\ LET i == Input
           read == Append(key, i.ch)
           to == Append(scan, i.ch)
       IN /\ tty' = i.tty /\ updateResize' = i.resize
          /\ CASE i.ch = Resize -> Unroll(read, i)
               [] i.ch # Resize /\ ~TrieStep(trie, scan, i.ch) ->
                    IF TrieEnds(trie, scan)
                    THEN Return(key, Append(i.uinp, i.ch), trie.data[scan])
                    ELSE Unroll(read, i)
               [] i.ch # Resize /\ TrieStep(trie, scan, i.ch) /\ Kbhit(i) ->
                    /\ key' = read /\ scan' = to
                    /\ uinp' = i.uinp
                    /\ UNCHANGED <<mouse, out>>
               [] OTHER ->
                    IF TrieEnds(trie, to) THEN Return(read, i.uinp, trie.data[to])
                    ELSE Unroll(read, i)
    /\ UNCHANGED <<trie, named, typed>>

(* The user types, or the terminal is resized.                             *)
Types(c) ==
    /\ Len(typed) < MaxTyped
    /\ typed' = Append(typed, c) /\ tty' = Append(tty, c)
    /\ UNCHANGED <<trie, named, uinp, updateResize, key, scan, mouse, out>>

SigResize ==
    /\ ~updateResize /\ updateResize' = TRUE
    /\ UNCHANGED <<trie, named, typed, tty, uinp, key, scan, mouse, out>>

Next == UpdateKey \/ InputExtend \/ SigResize \/ \E c \in Chars : Types(c)

Spec == Init /\ [][Next]_vars /\ WF_vars(InputExtend)

-----------------------------------------------------------------------------
(* Nothing that is typed is lost or delivered in another order, however    *)
(* the sequences overlap what is typed and whenever it arrives; and the    *)
(* trie finds each sequence, under the first of its names                  *)
(* (terminput.c:155-219; trie.c:71-129).                                   *)
KeysInOrder ==
    /\ out \o SelectSeq(key \o uinp, LAMBDA c : c # Resize) \o tty = typed
    /\ \A n \in 1..named : \E m \in TrieSearch(trie, Table[n]) :
          Table[m] = Table[n] /\ \A l \in 1..(m - 1) : Table[l] # Table[n]
=============================================================================
