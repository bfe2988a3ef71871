-------------------------------- MODULE Children --------------------------------
(***************************************************************************)
(* Child processes (ef/os/spawn.c).  spawn_shell_slurp reads all of the    *)
(* output of a shell and then all of its errors, from two pipes that hold  *)
(* Cap bytes each; the shell may leave a process behind that writes on.  A *)
(* shell of spawn_shell is waited for, checked, or watched by a helper     *)
(* whose end is seen at a descriptor.  When exec fails the child returns   *)
(* into the program: it then is a shell that writes what the program does. *)
(***************************************************************************)
EXTENDS Integers, Sequences, SequencesExt, FiniteSetsExt

CONSTANTS Cap, Chunk,   \* of a pipe, of fd_slurp
          Scripts,      \* what a shell writes, in order: "out" or "err"
          Codes,        \* exit codes
          Words,        \* what the program has in the word of an exit code
          NULL

VARIABLES nozombie,             \* spawn_disable_zombie was called
          pc,                   \* where the program is
          proc, status, todo,   \* the processes, how they ended, what they will write
          pipe, wrote,          \* what is in the pipes, history: what was
          buf, next, len,       \* of fd_slurp: whole chunks, and of the one that is read
          out,                  \* the texts *out and *err
          torn,                 \* history: a read failed
          first, word,          \* *exitcode before the first call and now
          ret, told             \* the last return, spawn_waitfd_read returned
process == <<proc, status, todo>>
slurping == <<pipe, wrote, buf, next, len, out, torn>>
answers == <<first, word, ret, told>>
vars == <<nozombie, pc, process, slurping, answers>>

Procs == {"child", "back", "helper"}
Pipes == {"out", "err"}
Killed == -1

Init ==
    /\ nozombie \in BOOLEAN /\ pc = "start"
    /\ proc = [p \in Procs |-> "none"] /\ status = [p \in Procs |-> 0]
    /\ todo = [p \in Procs |-> <<>>]
    /\ pipe = [e \in Pipes |-> <<>>] /\ wrote = [e \in Pipes |-> <<>>]
    /\ buf = <<>> /\ next = 0 /\ len = 0 /\ out = [e \in Pipes |-> NULL] /\ torn = FALSE
    /\ first \in Words /\ word = first /\ ret = NULL /\ told = FALSE

-----------------------------------------------------------------------------
(* The kernel and the shell.                                               *)
Running(p) == proc[p] = "running"
EndedAs == IF nozombie THEN "gone" ELSE "zombie"

Write(p) ==
    /\ Running(p) /\ todo[p] # <<>> /\ pc # "returned"
    /\ LET e == Head(todo[p]) IN
       /\ Len(pipe[e]) < Cap
       /\ pipe' = [pipe EXCEPT ![e] = Append(@, Len(wrote[e]) + 1)]
       /\ wrote' = [wrote EXCEPT ![e] = Append(@, Len(wrote[e]) + 1)]
    /\ todo' = [todo EXCEPT ![p] = Tail(@)]
    /\ UNCHANGED <<nozombie, pc, proc, status, buf, next, len, out, torn, answers>>

LeavesBehind ==
    /\ Running("child") /\ proc["back"] = "none" /\ todo["child"] # <<>>
    /\ proc' = [proc EXCEPT !["back"] = "running"]
    /\ todo' = [todo EXCEPT !["back"] = todo["child"], !["child"] = <<>>]
    /\ UNCHANGED <<nozombie, pc, status, slurping, answers>>

Exit(p) ==
    /\ p # "helper" /\ Running(p) /\ todo[p] = <<>>
    /\ proc' = [proc EXCEPT ![p] = IF p = "child" THEN EndedAs ELSE "gone"]
    /\ \E c \in Codes : status' = [status EXCEPT ![p] = c]
    /\ UNCHANGED <<nozombie, pc, todo, slurping, answers>>

Kill ==
    /\ Running("child") /\ proc' = [proc EXCEPT !["child"] = EndedAs]
    /\ status' = [status EXCEPT !["child"] = Killed]
    /\ todo' = [todo EXCEPT !["child"] = <<>>]
    /\ UNCHANGED <<nozombie, pc, slurping, answers>>

Decode(s) == IF s = Killed THEN -1 ELSE s

-----------------------------------------------------------------------------
(* spawn_shell_slurp.  When fork fails the four ends of the pipes stay.    *)
SlurpShell(script) ==
    /\ pc = "start" /\ pc' = "out"
    /\ proc' = [proc EXCEPT !["child"] = "running"] /\ todo' = [todo EXCEPT !["child"] = script]
    /\ UNCHANGED <<nozombie, status, slurping, answers>>
SlurpFails ==
    /\ pc = "start" /\ pc' = "returned" /\ ret' = -1
    /\ UNCHANGED <<nozombie, process, slurping, first, word, told>>

Phase == IF pc = "out" THEN "err" ELSE "wait"
Reading == pc \in Pipes /\ UNCHANGED <<nozombie, process, wrote, answers>>

(* A slip: the chunks are read over each other.                            *)
GrownNot(n, l) == IF l = Chunk THEN 0 ELSE n
Grown(n, l) == IF l = Chunk THEN n + Chunk ELSE n
SlurpRead ==
    /\ Reading
    /\ \E n \in 1..Min({Len(pipe[pc]), Chunk - len}) :
          /\ buf' = SubSeq(buf, 1, next + len) \o SubSeq(pipe[pc], 1, n)
          /\ pipe' = [pipe EXCEPT ![pc] = SubSeq(@, n + 1, Len(@))]
          /\ next' = Grown(next, len + n) /\ len' = (len + n) % Chunk
    /\ UNCHANGED <<pc, out, torn>>

(* Nobody has the other end, or the read fails: then all of it is dropped, *)
(* and nobody reads this pipe any more.                                    *)
SlurpDone(text) ==
    /\ Reading /\ out' = [out EXCEPT ![pc] = text] /\ pc' = Phase
    /\ buf' = <<>> /\ next' = 0 /\ len' = 0 /\ UNCHANGED pipe

(* A slip: the program has kept its own ends for writing.                  *)
AllClosedNever == FALSE
AllClosed == ~Running("child") /\ ~Running("back")
SlurpEnd ==
    /\ pc \in Pipes /\ pipe[pc] = <<>> /\ AllClosed
    /\ SlurpDone(IF next + len < 1 THEN NULL ELSE SubSeq(buf, 1, next + len)) /\ UNCHANGED torn
SlurpTorn == SlurpDone(NULL) /\ torn' = TRUE

SlurpWait ==
    /\ pc = "wait" /\ ~Running("child") /\ pc' = "returned" /\ ret' = 0
    /\ word' = IF proc["child"] = "zombie" THEN Decode(status["child"]) ELSE word
    /\ proc' = [proc EXCEPT !["child"] = "gone"]
    /\ UNCHANGED <<nozombie, status, todo, slurping, first, told>>

-----------------------------------------------------------------------------
(* spawn_shell, and its child.                                             *)
SpawnShell ==
    /\ pc = "start" /\ pc' = "watching" /\ proc' = [proc EXCEPT !["child"] = "running"]
    /\ UNCHANGED <<nozombie, status, todo, slurping, answers>>
Watching == pc = "watching" /\ UNCHANGED <<nozombie, pc, todo, slurping, first>>

SpawnWait ==
    /\ Watching /\ ~Running("child")
    /\ IF proc["child"] = "zombie" THEN word' = Decode(status["child"]) /\ ret' = 0
       ELSE UNCHANGED word /\ ret' = -1
    /\ proc' = [proc EXCEPT !["child"] = "gone"] /\ UNCHANGED <<status, told>>

(* spawn_check: of a child that runs, the word that was there is decoded:  *)
(* 0 is that of a process that exited.                                     *)
Undecided(w) == IF w = 0 THEN 0 ELSE -1

(* A slip: the word is not set when there is no answer.                    *)
UndecidedZero(w) == 0
StillRuns(w) == Undecided(w)
SpawnCheck ==
    /\ Watching
    /\ CASE Running("child") ->
              word' = StillRuns(word) /\ ret' = IF word = 0 THEN 1 ELSE 0
         [] proc["child"] = "zombie" ->
              word' = Decode(status["child"]) /\ ret' = IF status["child"] = Killed THEN 0 ELSE 1
         [] OTHER -> UNCHANGED word /\ ret' = -1
    /\ proc' = [proc EXCEPT !["child"] = IF Running("child") THEN @ ELSE "gone"]
    /\ UNCHANGED <<status, told>>

SpawnWaitfd ==
    /\ Watching /\ proc["helper"] = "none" /\ proc' = [proc EXCEPT !["helper"] = "running"]
    /\ UNCHANGED <<status, word, ret, told>>

(* fork_waitpid over spawn_wait_any, which looks at /proc now and then.    *)
(* What it would write goes to an end that it has closed; it exits.        *)
Over == proc["child"] # "running"

(* A slip: a process that cannot be looked at, or is not seen yet, is over. *)
OverSoon == TRUE
Seen == Over
WaitAny ==
    /\ Running("helper") /\ Seen
    /\ proc' = [proc EXCEPT !["helper"] = EndedAs]
    /\ status' = [status EXCEPT !["helper"] =
                      IF proc["child"] = "zombie" /\ status["child"] # Killed THEN status["child"] ELSE 0]
    /\ UNCHANGED <<nozombie, pc, todo, slurping, answers>>

(* spawn_waitfd_read finds the end of the pipe, and the two process ids it *)
(* waits for and hands out were never set: it may take any child.          *)
SpawnWaitfdRead ==
    /\ Watching /\ proc["helper"] \in {"zombie", "gone"} /\ ~told
    /\ told' = TRUE /\ ret' = 0
    /\ \/ UNCHANGED <<proc, word>>
       \/ \E p \in Procs : /\ proc[p] = "zombie" /\ proc' = [proc EXCEPT ![p] = "gone"]
                           /\ word' = Decode(status[p])
    /\ UNCHANGED status

Program == \/ SlurpRead \/ SlurpEnd \/ SlurpWait
Shells(p) == Write(p) \/ Exit(p)
Next ==
    \/ Program \/ SlurpTorn \/ SlurpFails \/ \E script \in Scripts : SlurpShell(script)
    \/ SpawnShell \/ SpawnWait \/ SpawnCheck \/ SpawnWaitfd \/ WaitAny \/ SpawnWaitfdRead
    \/ LeavesBehind \/ Kill \/ \E p \in Procs : Shells(p)

Fairness == WF_vars(Program) /\ \A p \in Procs : WF_vars(Shells(p))
Spec == Init /\ [][Next]_vars /\ Fairness

-----------------------------------------------------------------------------
(* When no read failed, the texts are all that was written, in order, in   *)
(* chunks of any size, also by what the shell left behind, and the code is *)
(* that of the shell if its end was kept (fd.c:111-154, spawn.c:82-134).   *)
SlurpRight == pc = "returned" /\ ret = 0 =>
    /\ ~torn => \A e \in Pipes : out[e] = IF wrote[e] = <<>> THEN NULL ELSE wrote[e]
    /\ word = IF nozombie THEN first ELSE Decode(status["child"])

(* The descriptor of a watched process says nothing before that process is *)
(* over; and unless the word was that of an exited process to begin with,  *)
(* spawn_check says that one exited only with the code it exited with      *)
(* (spawn.c:134-243).                                                      *)
WatchRight == pc = "watching" =>
    /\ told => Over
    /\ first # 0 /\ ret = 1 => proc["child"] = "gone" /\ word = status["child"]

ChildrenHold == SlurpRight /\ WatchRight

(* A shell whose errors fit the pipe is slurped to its end, if no read     *)
(* fails (spawn.c:115-121).                                                *)
Errors == Len(wrote["err"]) + Len(SelectSeq(todo["child"] \o todo["back"], LAMBDA e : e = "err"))
SlurpReturns == (pc = "out" /\ Errors <= Cap) ~> (pc = "returned" \/ torn)
=============================================================================
