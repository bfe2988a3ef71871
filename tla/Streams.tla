------------------------------ MODULE Streams ------------------------------
(***************************************************************************)
(* The streams of ef/file/stream.c.  The reading half is a buffer between  *)
(* a descriptor that hands out its input in pieces of any size and calls   *)
(* that read a number of bytes, up to a byte of some kind, over bytes of   *)
(* some kind, a number, or everything; a byte is its position in the       *)
(* input.  In the writing half writes collect in a buffer, which is        *)
(* flushed when it is full, on demand and on closing, to a descriptor that *)
(* takes pieces of any size; a byte is its place among the written.        *)
(***************************************************************************)
EXTENDS Integers, SequencesExt

CONSTANTS Kind,         \* the kind of each byte of the input
          BufIn,        \* sm->r.size
          Digits,       \* STREAM_NUM_MAX_DIGIT - 1
          EndStr,       \* kinds of the bytes of an end string
          Most,         \* bound on the sizes of reads and of what is given back
          Count,        \* bytes that are written
          BufOut        \* sm->w.size

(* A byte is of one of the kinds, and a buffer has room for one.           *)
Kinds == {"digit", "hex", "blank", "end"}
ASSUME StreamAssumption ==
    /\ Kind \in Seq(Kinds) /\ EndStr \in Seq(Kinds)
    /\ BufIn \in Nat \ {0} /\ BufOut \in Nat \ {0}
    /\ Digits \in Nat /\ Most \in Nat /\ Count \in Nat

VARIABLES source,       \* what the descriptor has not handed out
          rbuf, cursor, \* sm->r: buf up to len, cursor
          call,         \* the call in progress
          got,          \* history: bytes that calls consumed, without those given back
          lost,         \* history: bytes taken from the stream and not handed to the caller
          fault,        \* history: an input ended or failed, or a number was none
          last,         \* history: the last call and what it consumed
          written,      \* bytes given to stream_write
          pend,         \* of which the call in progress has yet to copy
          wbuf,         \* sm->w: buf up to len
          nt,           \* written of them by the flush in progress, -1: none
          sink,         \* bytes the descriptor took
          dropped,      \* history: bytes that a failed flush forgot
          wstate        \* open, closing, closed

reading == <<source, rbuf, cursor, call, got, lost, fault, last>>
writing == <<written, pend, wbuf, nt, sink, dropped, wstate>>

-----------------------------------------------------------------------------
Bytes == DOMAIN Kind
CharCalls == {"string", "skip_anyof", "skip_to", "skip_next", "num"}

NoCall == [op |-> "none", set |-> {}, add |-> FALSE, want |-> 0, kept |-> 0, out |-> <<>>]

NoLast == [op |-> "none", set |-> {}, taken |-> <<>>, ended |-> FALSE]

(* stream_open_fd                                                          *)
ReadInit ==
    /\ source = [i \in Bytes |-> i]
    /\ rbuf = <<>> /\ cursor = 0
    /\ call = NoCall
    /\ got = <<>> /\ lost = {} /\ fault = FALSE
    /\ last = NoLast

rempty == cursor = Len(rbuf)
ravailable == SubSeq(rbuf, cursor + 1, Len(rbuf))

(* A call returns after it consumed the bytes of taken, of which it does   *)
(* not hand over those of gone.                                            *)
Return(taken, gone, ended) ==
    /\ call' = NoCall
    /\ got' = got \o taken
    /\ lost' = lost \union ToSet(gone)
    /\ last' = [op |-> call.op, set |-> call.set, taken |-> taken, ended |-> ended]

Calling == call.op # "none"

(* Whether the call reads on.                                              *)
Wants ==
    CASE call.op \in {"read", "slurp"} -> call.want > 0
      [] call.op = "num" -> Len(call.out) < Digits
      [] call.op = "strstr" -> call.want < Len(EndStr)
      [] OTHER -> call.op \in CharCalls

Begin(op, set, add, want) ==
    /\ ~ Calling
    /\ call' = [NoCall EXCEPT !.op = op, !.set = set, !.add = add, !.want = want]
    /\ last' = NoLast
    /\ UNCHANGED <<source, rbuf, cursor, got, lost, fault>>

(* stream_read                                                             *)
Read(size) == Begin("read", {}, FALSE, size)

(* stream_slurp, whose first read is one longer when a 0 is to be added    *)
Slurp(addNullChar) == Begin("slurp", {}, FALSE, BufIn + addNullChar)

(* stream_inp_string and stream_inp_toanyof                                *)
InpString(endch) == Begin("string", endch, FALSE, 0)

(* stream_inp_strstr, of a caller that knows the input is long enough      *)
InpStrstr(addch) ==
    /\ Len(ravailable) + Len(source) >= Len(EndStr)
    /\ Begin("strstr", {}, addch, 0)

(* stream_skip_anyof, stream_skip_to and stream_skip_next                  *)
Skip(op, lst) == Begin(op, lst, FALSE, 0)

(* stream_inp_long                                                         *)
InpLong == Begin("num", {"digit", "hex"}, FALSE, 0)

(* stream_rfill, of a descriptor that has n bytes                          *)
Fill ==
    /\ Wants /\ rempty
    /\ \E n \in 1..BufIn :
          /\ n <= Len(source)
          /\ rbuf' = SubSeq(source, 1, n)
          /\ source' = SubSeq(source, n + 1, Len(source))
    /\ cursor' = 0
    /\ UNCHANGED <<call, got, lost, fault, last>>

(* What the end of the input, or an error, makes of each call.  Reads      *)
(* return 0 or -1 whatever they have copied, slurp the length up to its    *)
(* last whole read, and strings cut an end string that was not there (with *)
(* less than its length the code indexes below the string: left out).      *)
CutShort(failed) ==
    /\ fault' = TRUE
    /\ LET n == CASE call.op \in CharCalls \ {"num"} -> Len(call.out)
                  [] call.op = "strstr" /\ call.add -> Len(call.out)
                  [] call.op = "strstr" /\ ~ call.add -> Len(call.out) - Len(EndStr)
                  [] call.op = "slurp" /\ ~ failed -> call.kept
                  [] OTHER -> 0
       IN  Return(SubSeq(call.out, 1, n), SubSeq(call.out, n + 1, Len(call.out)), TRUE)

End ==
    /\ Wants /\ rempty /\ source = <<>>
    /\ call.op = "strstr" /\ ~ call.add => Len(call.out) >= Len(EndStr)
    /\ rbuf' = <<>> /\ cursor' = 0
    /\ IF call.op = "num"
       THEN call' = [call EXCEPT !.op = "convert"] /\ UNCHANGED <<got, lost, fault, last>>
       ELSE CutShort(FALSE)
    /\ UNCHANGED source

Fails ==
    /\ Wants /\ rempty
    /\ call.op = "strstr" /\ ~ call.add => Len(call.out) >= Len(EndStr)
    /\ CutShort(TRUE)
    /\ UNCHANGED <<source, rbuf, cursor>>

(* One turn of the loop of stream_read                                     *)
CopyIn ==
    /\ call.op \in {"read", "slurp"} /\ Wants /\ ~ rempty
    /\ LET n == IF call.want < Len(ravailable) THEN call.want ELSE Len(ravailable)
       IN  /\ call' = [call EXCEPT !.out = @ \o SubSeq(ravailable, 1, n), !.want = @ - n]
           /\ cursor' = cursor + n
    /\ UNCHANGED <<source, rbuf, got, lost, fault, last>>

ReadDone ==
    /\ call.op = "read" /\ ~ Wants
    /\ Return(call.out, <<>>, FALSE)
    /\ UNCHANGED <<source, rbuf, cursor, fault>>

SlurpMore ==
    /\ call.op = "slurp" /\ ~ Wants
    /\ call' = [call EXCEPT !.kept = Len(call.out), !.want = BufIn]
    /\ UNCHANGED <<source, rbuf, cursor, got, lost, fault, last>>

(* stream_fast_read_char takes this byte.                                  *)
ch == rbuf[cursor + 1]

(* A slip of GoesOn: all calls that skip go over the bytes of the list.    *)
GoesOnSkip == IF call.op \in {"skip_anyof", "skip_to", "num"}
              THEN Kind[ch] \in call.set ELSE Kind[ch] \notin call.set

(* Whether the loop of the call goes on with it                            *)
GoesOn == IF call.op \in {"skip_anyof", "num"} THEN Kind[ch] \in call.set
                                               ELSE Kind[ch] \notin call.set

Char ==
    /\ call.op \in CharCalls /\ Wants /\ ~ rempty
    /\ GoesOn
    /\ call' = [call EXCEPT !.out = Append(@, ch)]
    /\ cursor' = cursor + 1
    /\ UNCHANGED <<source, rbuf, got, lost, fault, last>>

(* A slip of Rollback: what was not read is overwritten.                   *)
RollbackOver(data, rest) ==
    rbuf' = data \o SubSeq(rest, Len(data) + 1, Len(rest)) /\ cursor' = 0

(* stream_rollback: the data, then what was not read                       *)
Rollback(data, rest) == rbuf' = data \o rest /\ cursor' = 0

LastChar ==
    /\ call.op \in CharCalls /\ Wants /\ ~ rempty
    /\ ~ GoesOn
    /\ IF call.op \in {"string", "skip_next"}
       THEN cursor' = cursor + 1 /\ Return(Append(call.out, ch), <<>>, FALSE) /\ UNCHANGED rbuf
       ELSE /\ Rollback(<<ch>>, Tail(ravailable))
            /\ IF call.op = "num"
               THEN call' = [call EXCEPT !.op = "convert"] /\ UNCHANGED <<got, lost, last>>
               ELSE Return(call.out, <<>>, FALSE)
    /\ UNCHANGED <<source, fault>>

NumFull ==
    /\ call.op = "num" /\ ~ Wants
    /\ call' = [call EXCEPT !.op = "convert"]
    /\ UNCHANGED <<source, rbuf, cursor, got, lost, fault, last>>

(* stream_inp_long after stream_inp_num: strtol takes the digits and the   *)
(* rest is given back, where the buffer has room: the code compares the    *)
(* rest with len, not with the room, and otherwise writes past the buffer. *)
Convert ==
    /\ call.op = "convert"
    /\ LET n == SelectInSeq(Append(call.out, 0), LAMBDA b : b = 0 \/ Kind[b] # "digit") - 1
           rest == SubSeq(call.out, n + 1, Len(call.out))
       IN  IF n = 0
           THEN /\ fault' = (fault \/ call.out # <<>>)
                /\ Return(<<>>, call.out, FALSE)
                /\ UNCHANGED <<rbuf, cursor>>
           ELSE /\ Len(rest) + Len(ravailable) <= BufIn
                /\ Return(SubSeq(call.out, 1, n), <<>>, FALSE)
                /\ IF rest = <<>> THEN UNCHANGED <<rbuf, cursor>> ELSE Rollback(rest, ravailable)
                /\ UNCHANGED fault
    /\ UNCHANGED source

(* One turn of the loop of stream_inp_strstr                               *)
StrstrChar ==
    /\ call.op = "strstr" /\ Wants /\ ~ rempty
    /\ call' = [call EXCEPT !.out = Append(@, ch),
                            !.want = IF EndStr[@ + 1] = Kind[ch] THEN @ + 1 ELSE 0]
    /\ cursor' = cursor + 1
    /\ UNCHANGED <<source, rbuf, got, lost, fault, last>>

StrstrDone ==
    /\ call.op = "strstr" /\ ~ Wants
    /\ Return(call.out, <<>>, FALSE)
    /\ UNCHANGED <<source, rbuf, cursor, fault>>

(* stream_rollback by a caller that gives back the end of what it read     *)
(* from this buffer                                                        *)
GiveBack(size) ==
    /\ ~ Calling
    /\ size <= Len(got) /\ size <= cursor
    /\ Rollback(SubSeq(got, Len(got) - size + 1, Len(got)), ravailable)
    /\ got' = SubSeq(got, 1, Len(got) - size)
    /\ last' = NoLast
    /\ UNCHANGED <<source, call, lost, fault>>

Start ==
    \/ \E size \in 1..Most : Read(size)
    \/ \E addNullChar \in {0, 1} : Slurp(addNullChar)
    \/ \E k \in ToSet(Kind) : InpString({k})
    \/ \E addch \in BOOLEAN : InpStrstr(addch)
    \/ \E op \in {"skip_anyof", "skip_to", "skip_next"}, k \in ToSet(Kind) : Skip(op, {k})
    \/ InpLong

Step ==
    \/ Fill \/ End \/ Fails
    \/ CopyIn \/ ReadDone \/ SlurpMore
    \/ Char \/ LastChar \/ NumFull \/ Convert
    \/ StrstrChar \/ StrstrDone

ReadNext == Start \/ Step \/ \E size \in 1..Most : GiveBack(size)

-----------------------------------------------------------------------------
(* stream_open_fd                                                          *)
WriteInit ==
    /\ written = 0 /\ pend = <<>>
    /\ wbuf = <<>> /\ nt = -1
    /\ sink = <<>> /\ dropped = {}
    /\ wstate = "open"

Flushing == nt # -1
wfull == Len(wbuf) = BufOut

(* stream_write of size bytes                                              *)
Write(size) ==
    /\ wstate = "open" /\ pend = <<>> /\ ~ Flushing
    /\ written + size <= Count
    /\ pend' = [i \in 1..size |-> written + i]
    /\ written' = written + size
    /\ UNCHANGED <<wbuf, nt, sink, dropped, wstate>>

(* One turn of its loop, after the flush of a full buffer                  *)
CopyOut ==
    /\ pend # <<>> /\ ~ Flushing /\ ~ wfull
    /\ LET nc == IF Len(pend) < BufOut - Len(wbuf) THEN Len(pend) ELSE BufOut - Len(wbuf)
       IN  /\ wbuf' = wbuf \o SubSeq(pend, 1, nc)
           /\ pend' = SubSeq(pend, nc + 1, Len(pend))
    /\ UNCHANGED <<written, nt, sink, dropped, wstate>>

(* stream_flush, called by stream_write, by the user or by stream_close    *)
Flush ==
    /\ ~ Flushing
    /\ wstate = "open"
    /\ pend # <<>> => wfull
    /\ nt' = 0
    /\ UNCHANGED <<written, pend, wbuf, sink, dropped, wstate>>

Close ==
    /\ wstate = "open" /\ pend = <<>> /\ ~ Flushing
    /\ wstate' = "closing"
    /\ nt' = 0
    /\ UNCHANGED <<written, pend, wbuf, sink, dropped>>

(* A slip of Takes: the next piece starts with the buffer again.           *)
TakesFirst ==
    /\ Flushing /\ nt < Len(wbuf)
    /\ \E nw \in 1..(Len(wbuf) - nt) :
          /\ sink' = sink \o SubSeq(wbuf, 1, nw)
          /\ nt' = nt + nw
    /\ UNCHANGED <<written, pend, wbuf, dropped, wstate>>

(* The descriptor takes nw bytes of the rest.                              *)
Takes ==
    /\ Flushing /\ nt < Len(wbuf)
    /\ \E nw \in 1..(Len(wbuf) - nt) :
          /\ sink' = sink \o SubSeq(wbuf, nt + 1, nt + nw)
          /\ nt' = nt + nw
    /\ UNCHANGED <<written, pend, wbuf, dropped, wstate>>

(* A flush is over when all is written or a write failed: what was not     *)
(* written is forgotten, and nobody is told.                               *)
Flushed ==
    /\ Flushing
    /\ dropped' = dropped \union ToSet(SubSeq(wbuf, nt + 1, Len(wbuf)))
    /\ wbuf' = <<>>
    /\ nt' = -1
    /\ wstate' = IF wstate = "closing" THEN "closed" ELSE wstate
    /\ UNCHANGED <<written, pend, sink>>

WriteNext == (\E size \in 1..Count : Write(size)) \/ CopyOut \/ Flush \/ Close \/ Takes \/ Flushed

-----------------------------------------------------------------------------
(* The two halves share the stream and nothing else.                       *)
StreamInit == ReadInit /\ WriteInit

StreamNext ==
    \/ ReadNext /\ UNCHANGED writing
    \/ WriteNext /\ UNCHANGED reading

StreamSpec == StreamInit /\ [][StreamNext]_<<reading, writing>>

-----------------------------------------------------------------------------
(* The types of the variables, and the buffer is never longer than it is:  *)
(* pieces that are given back fit before what was not read                 *)
(* (stream.c:155-176).                                                     *)
ReadTypeOK ==
    /\ ToSet(source) \subseteq Bytes /\ ToSet(rbuf) \subseteq Bytes
    /\ Len(rbuf) <= BufIn /\ cursor \in 0..Len(rbuf)
    /\ call.op \in CharCalls \union {"none", "read", "slurp", "strstr", "convert"}
    /\ lost \subseteq Bytes /\ fault \in BOOLEAN

(* The bytes in the order in which the caller sees them                    *)
InOrder == got \o call.out \o ravailable \o source

(* However the input is cut into pieces and whatever is given back, the    *)
(* calls see its bytes in their order, each once, and none is missing      *)
(* unless the input ended or failed or was no number (stream.c:104-176).   *)
Accounted ==
    /\ \A i \in 1..(Len(InOrder) - 1) : InOrder[i] < InOrder[i + 1]
    /\ Bytes = ToSet(InOrder) \union lost
    /\ ~ fault => lost = {}

(* What the next call will see first                                       *)
Ahead == ravailable \o source

(* A call that looks for a byte, or skips bytes, leaves the stream where   *)
(* it says, also when that byte came with another piece of the input       *)
(* (stream.c:222-394, 585-611).                                            *)
StopsRight ==
    (~ Calling /\ ~ last.ended) =>
      CASE last.op = "skip_anyof" ->
             Kind[Head(Ahead)] \notin last.set /\ \A b \in ToSet(last.taken) : Kind[b] \in last.set
        [] last.op = "skip_to" ->
             Kind[Head(Ahead)] \in last.set /\ \A b \in ToSet(last.taken) : Kind[b] \notin last.set
        [] last.op \in {"string", "skip_next"} ->
             {i \in DOMAIN last.taken : Kind[last.taken[i]] \in last.set} = {Len(last.taken)}
        [] last.op = "strstr" ->
             IsSuffix(EndStr, [i \in DOMAIN last.taken |-> Kind[last.taken[i]]])
        [] last.op = "convert" ->
             last.taken # <<>> => \/ Len(last.taken) = Digits
                                  \/ Ahead = <<>>
                                  \/ Kind[Head(Ahead)] # "digit"
        [] OTHER -> TRUE

(* The types of the variables                                              *)
WriteTypeOK ==
    /\ written \in 0..Count
    /\ Len(wbuf) <= BufOut
    /\ nt \in -1..Len(wbuf)
    /\ dropped \subseteq 1..Count
    /\ wstate \in {"open", "closing", "closed"}

(* What the descriptor has not taken yet                                   *)
Held == SubSeq(wbuf, (IF Flushing THEN nt ELSE 0) + 1, Len(wbuf)) \o pend

(* However the writes fill the buffer and whatever pieces the descriptor   *)
(* takes, it gets the bytes in their order, each once; what is missing was *)
(* dropped by a flush, and a closed stream holds nothing back              *)
(* (stream.c:56-60, 438-472).                                              *)
WrittenInOrder ==
    LET all == sink \o Held
    IN  /\ \A i \in 1..(Len(all) - 1) : all[i] < all[i + 1]
        /\ ToSet(all) = (1..written) \ dropped
        /\ wstate = "closed" => Held = <<>>

(* Calls see the bytes of the input in order and each once, those that     *)
(* look for bytes leave the stream where they say, what is written arrives *)
(* in order, each byte once, or was dropped by a flush that failed, and no *)
(* buffer is overrun (stream.c:104-176, 222-472, 585-611).                 *)
StreamsHold ==
    /\ ReadTypeOK /\ Accounted /\ StopsRight
    /\ WriteTypeOK /\ WrittenInOrder
=============================================================================
