-------------------------------- MODULE Texts --------------------------------
(***************************************************************************)
(* Strings (ef/string): a UTF-8 text that an iterator edits in place, byte *)
(* by byte (utf8.c); a string that grows by what is put at either end, and *)
(* the escapes of mail (string.c); and the matches of a regular            *)
(* expression, one after the other (regex.c, where the matching itself is  *)
(* PCRE's).                                                                *)
(*                                                                         *)
(* A character is "n", of one byte, or "w", of two.                        *)
(***************************************************************************)
EXTENDS Integers, Sequences, SequencesExt

CONSTANTS Bytes,        \* the size of the memory of the text
          Round,        \* how strings grow (128)
          MaxString,    \* bound
          Subjects      \* the texts that are searched

VARIABLES mem, at,      \* the bytes; the one the iterator is at, from 0
          want, pos,    \* ghost: the characters, and how many are before it
          loose         \* ghost: an edit was made that bytes cannot follow
vars == <<mem, at, want, pos, loose>>

Nul == "0"
Width(ch) == IF ch = "w" THEN 2 ELSE 1
Units(ch) == IF ch = "w" THEN <<"h", "t">> ELSE <<ch>>
Encoded(cs) == FlattenSeq([i \in DOMAIN cs |-> Units(cs[i])])

Init ==
    /\ mem = [i \in 0..(Bytes - 1) |-> IF i = 0 THEN Nul ELSE "?"] /\ at = 0
    /\ want = <<>> /\ pos = 0 /\ loose = FALSE

-----------------------------------------------------------------------------
(* An iterator, [m, i]: memory and byte.  utf8_iterator_next and _prev; a  *)
(* byte in the middle of a character reads as one of its own.              *)
Put(m, i, bytes) == [k \in DOMAIN m |-> IF k - i + 1 \in DOMAIN bytes THEN bytes[k - i + 1] ELSE m[k]]
Step(m, i) == IF m[i] = Nul THEN i ELSE IF m[i] = "h" THEN i + 2 ELSE i + 1
(* A slip of BackStep: it goes back one byte, not one character.           *)
BackStepByte(m, i) == IF i = 0 THEN i ELSE i - 1
BackStep(m, i) == IF i = 0 THEN i ELSE IF m[i - 1] = "t" THEN i - 2 ELSE i - 1
Read(m, i) == IF m[i] = "h" THEN "w" ELSE m[i]

(* utf8_iterator_replace: at the end the text becomes longer.              *)
Replaced(q, ch) ==
    LET m == Put(q.m, q.i, Units(ch))
        i == Step(m, q.i)
    IN [m |-> IF q.m[q.i] = Nul THEN [m EXCEPT ![i] = Nul] ELSE m, i |-> i]

Rest(m, i) ==       \* the characters from byte i on
    LET r[k \in 0..Bytes] ==
            IF k = 0 THEN [i |-> i, cs |-> <<>>]
            ELSE LET q == r[k - 1] IN
                 IF m[q.i] = Nul THEN q
                 ELSE [i |-> Step(m, q.i), cs |-> Append(q.cs, Read(m, q.i))]
    IN r[Bytes].cs

(* utf8_iterator_insert: the new one and all that follow are written over  *)
(* one another.  utf8_iterator_delete: each is written one further left.   *)
Inserted(q, ch) ==
    [m |-> FoldLeft(Replaced, q, <<ch>> \o Rest(q.m, q.i)).m, i |-> q.i + Width(ch)]

Deleted(q) ==
    LET rest == Rest(q.m, q.i) IN
    IF rest = <<>> THEN q
    ELSE [m |-> FoldLeft(Replaced, q, Append(Tail(rest), Nul)).m, i |-> q.i]

-----------------------------------------------------------------------------
Here == [m |-> mem, i |-> at]
Holds(extra) == ~loose /\ Len(Encoded(want)) + extra < Bytes

Edit(q, cs, p) ==
    /\ mem' = q.m /\ at' = q.i
    /\ want' = cs /\ pos' = p

(* The bytes come out right when the new character is as wide as some of   *)
(* the last of those behind it are together, or is put at the end.         *)
Follows(ch, rest) ==
    rest = <<>> \/ \E k \in DOMAIN rest : Len(Encoded(SubSeq(rest, k, Len(rest)))) = Width(ch)

Insert(ch) ==
    /\ Holds(Width(ch))
    /\ loose' = ~Follows(ch, SubSeq(want, pos + 1, Len(want)))
    /\ Edit(Inserted(Here, ch), InsertAt(want, pos + 1, ch), pos + 1)

Replace(ch) ==
    /\ Holds(Width(ch))
    /\ loose' = (pos < Len(want) /\ Width(want[pos + 1]) # Width(ch))
    /\ Edit(Replaced(Here, ch),
            IF pos < Len(want) THEN [want EXCEPT ![pos + 1] = ch] ELSE Append(want, ch), pos + 1)

(* utf8_iterator_delete_to.                                                *)
DeleteTo(n) ==
    /\ Holds(0) /\ UNCHANGED loose
    /\ Edit(FoldLeft(LAMBDA q, k : Deleted(q), Here, [k \in 1..n |-> k]),
            SubSeq(want, 1, pos) \o SubSeq(want, pos + 1 + n, Len(want)), pos)

(* utf8_delu, from the place on: what is kept is copied over what is not.  *)
Delu(n) ==
    LET rest == Rest(mem, at)
        kept == SubSeq(rest, n + 1, Len(rest))
        copied == Put(mem, at, Encoded(kept))
    IN /\ Holds(0) /\ UNCHANGED loose
       /\ Edit([m |-> [copied EXCEPT ![at + Len(Encoded(kept))] = Nul], i |-> at],
               SubSeq(want, 1, pos) \o SubSeq(want, pos + 1 + n, Len(want)), pos)

MoveTo(i, p) == at' = i /\ pos' = p /\ UNCHANGED <<mem, want, loose>>
Rewind == Holds(0) /\ MoveTo(0, 0)
IteratorNext == Holds(0) /\ MoveTo(Step(mem, at), IF pos < Len(want) THEN pos + 1 ELSE pos)
IteratorPrev == Holds(0) /\ MoveTo(BackStep(mem, at), IF pos > 0 THEN pos - 1 ELSE pos)

(* utf8_iterator_last_valid: to the end, and one back.                     *)
LastValid ==
    LET end == Len(Encoded(Rest(mem, 0)))
    IN Holds(0) /\ MoveTo(BackStep(mem, end), IF want = <<>> THEN 0 ELSE Len(want) - 1)

-----------------------------------------------------------------------------
(* A slip of Grown: the end of the string is forgotten.                    *)
GrownTight(q, n) ==
    [len |-> q.len + n,
     size |-> IF n > q.size - q.len THEN q.size + n ELSE q.size]

(* string_append and string_head: more room by the rounded length when     *)
(* what is left, but for the end, does not hold it.                        *)
RoundUp(n) == ((n + Round - 1) \div Round) * Round
Grown(q, n) ==
    [len |-> q.len + n,
     size |-> IF n > q.size - q.len - 1 THEN q.size + RoundUp(n + 1) ELSE q.size]

(* utf8_gets_alloc: what a line of n bytes takes, and the room for it.     *)
GetsAlloc(n, chunk, newline) ==
    LET room[k \in 0..n] ==
            IF k = 0 THEN chunk
            ELSE IF k >= room[k - 1] - 1 THEN room[k - 1] + chunk ELSE room[k - 1]
    IN [room |-> room[n], takes |-> n + (IF newline THEN 1 ELSE 0) + 1]

(* quote_printable_decode: a newline behind "=" joins two lines, two       *)
(* digits are a byte.                                                      *)
QuoteDecode(s) ==
    LET q[i \in 0..Len(s)] ==
            IF i = 0 THEN [skip |-> 0, out |-> <<>>]
            ELSE IF q[i - 1].skip > 0
            THEN [q[i - 1] EXCEPT !.skip = @ - 1]
            ELSE IF s[i] # "=" THEN [q[i - 1] EXCEPT !.out = Append(@, s[i])]
            ELSE LET cr == i < Len(s) /\ s[i + 1] = "CR"
                     k == IF cr THEN i + 2 ELSE i + 1
                     nl == k <= Len(s) /\ s[k] = "LF"
                 IN [skip |-> (k - i - 1) + (IF nl THEN 1 ELSE 2),
                     out |-> IF nl THEN q[i - 1].out ELSE Append(q[i - 1].out, "byte")]
    IN q[Len(s)].out

(* What may follow each other in a mail, and what it stands for.           *)
Pieces == {[in |-> <<"x">>, out |-> <<"x">>], [in |-> <<"=", "d", "d">>, out |-> <<"byte">>],
           [in |-> <<"=", "LF">>, out |-> <<>>], [in |-> <<"=", "CR", "LF">>, out |-> <<>>]}

-----------------------------------------------------------------------------
(* PCRE with the pattern a* (least = 0) or a+ (least = 1): the run of a    *)
(* from the first place on where there are as many.                        *)
Run(s, i) == CHOOSE n \in 0..(Len(s) - i) :
    (\A k \in 1..n : s[i + k] = "a") /\ (i + n = Len(s) \/ s[i + n + 1] # "a")
NoMatch == [from |-> -1, to |-> -1]
Match(s, least, i) ==
    LET places == {j \in i..Len(s) : Run(s, j) >= least} IN
    IF places = {} THEN NoMatch ELSE [from |-> Min(places), to |-> Min(places) + Run(s, Min(places))]

(* A slip of MatchContinue: the byte behind a match is skipped.            *)
MatchContinueBehind(s, least, last) ==
    IF last.from < last.to THEN Match(s, least, last.to + 1) ELSE NoMatch

(* regex_match_continue: behind an empty match only one of more characters *)
(* and at this very place, which is none; then the place moves on, and the *)
(* search is given up when a character begins there, because utf8 is -1    *)
(* and never 0.                                                            *)
MatchContinue(s, least, last) ==
    IF last.from < last.to THEN Match(s, least, last.to)
    ELSE IF last.to + 1 = Len(s) THEN Match(s, least, last.to + 1)
    ELSE NoMatch

(* str_regex with global.                                                  *)
StrRegex(s, least) ==
    LET f[n \in 0..(2 * Len(s) + 2)] ==
            IF n = 0 THEN <<Match(s, least, 0)>>
            ELSE IF Last(f[n - 1]) = NoMatch THEN f[n - 1]
            ELSE Append(f[n - 1], MatchContinue(s, least, Last(f[n - 1])))
    IN f[2 * Len(s) + 2]

(* All the matches of a search: the longest runs, and nothing where no run *)
(* is, if that is a match.                                                 *)
AllMatches(s, least) ==
    LET all == {[from |-> i, to |-> i + Run(s, i)] : i \in
                   {i \in 0..Len(s) : Run(s, i) >= least /\ (i = 0 \/ Run(s, i) = 0 \/ s[i] # "a")}}
    IN SetToSortSeq(all, LAMBDA m, n : m.from < n.from)

Next ==
    \/ \E ch \in {"n", "w"} : Insert(ch) \/ Replace(ch)
    \/ \E n \in {1, 2} : DeleteTo(n) \/ Delu(n)
    \/ Rewind \/ IteratorNext \/ IteratorPrev \/ LastValid

-----------------------------------------------------------------------------
(* A string that grows has room for its end; so has a line that is read,   *)
(* if its room grows by more than one; each piece of a mail is decoded as  *)
(* what it stands for; and a search ends and misses no match before the    *)
(* first that is empty: behind that one it may miss all                    *)
(* (string.c:77-111, 161-191; utf8.c:240-272; regex.c:86-192).             *)
StringsFit ==
    /\ \A a, b, c \in 0..MaxString :
          LET q == FoldLeft(Grown, [len |-> 0, size |-> 1], <<a, b, c>>) IN q.len < q.size
    /\ \A n \in 0..MaxString, chunk \in 2..3, nl \in BOOLEAN :
          GetsAlloc(n, chunk, nl).takes <= GetsAlloc(n, chunk, nl).room
    /\ \A p \in [1..3 -> Pieces] :
          QuoteDecode(p[1].in \o p[2].in \o p[3].in) = p[1].out \o p[2].out \o p[3].out
    /\ \A s \in Subjects, least \in {0, 1} :
          LET tried == StrRegex(s, least)
              found == Front(tried)
              all == AllMatches(s, least)
          IN /\ Last(tried) = NoMatch
             /\ IsPrefix(found, all)
             /\ found # all => \E k \in DOMAIN found : found[k].from = found[k].to

(* After any edits the bytes are the text and the iterator is where it     *)
(* should be.  An edit that puts a character over one of another width     *)
(* keeps only what stands before the iterator: what follows may be torn or *)
(* lose its end (utf8.c:54-221).                                           *)
TextKept ==
    LET before == Encoded(SubSeq(want, 1, pos)) IN
    /\ at = Len(before)
    /\ \A k \in DOMAIN before : mem[k - 1] = before[k]
    /\ ~loose => Rest(mem, 0) = want
=============================================================================
