------------------------------- MODULE Sessions -------------------------------
(***************************************************************************)
(* Mailboxes and ftp sites over one handle of curl each (imap.c, ftp.c,    *)
(* www.c of ef/www).  A handle keeps what was set for an earlier call: its *)
(* url, its request, and in its buffers all that ever came.  Every call    *)
(* may fail.  A text is a sequence of words; "/", "." and ".." are words.  *)
(***************************************************************************)
EXTENDS Integers, Sequences, SequencesExt, FiniteSetsExt

CONSTANTS Dirs, Paths,          \* mailboxes; paths a user gives, none begins with "~"
          NULL, MaxCalls        \* and a bound

VARIABLES kind,                 \* "imap" or "ftp"
          url, custom,          \* of the handle
          body, header,         \* the replies in its buffers
          cut,                  \* a text in the header has its end
          site,                 \* ftp->site
          asked, answer,        \* of the last call: request, result
          did, calls,
          at, meant             \* where the user thinks to be, what he means
vars == <<kind, url, custom, body, header, cut, site, asked, answer, did, calls, at, meant>>
imap == <<cut, header>>
ftp == <<site, at>>

Host == <<"host", "/">>
lenSite == Len(Host)

Init ==
    /\ kind \in {"imap", "ftp"}
    /\ url = "server" /\ custom = NULL /\ body = <<>> /\ header = <<>> /\ cut = FALSE
    /\ site = Host /\ asked = NULL /\ answer = NULL /\ did = NULL /\ calls = 0
    /\ at = <<>> /\ meant = NULL

(* www_perform: the request as it is set, and whether it fails.            *)
Perform(call, m) ==
    /\ did # "crashed" /\ calls < MaxCalls /\ calls' = calls + 1
    /\ did' = call /\ meant' = m
    /\ asked' = [request |-> custom', url |-> url']
    /\ UNCHANGED kind

(* A call in a mailbox: its url was set for the request alone.             *)
Handled(call, dir) ==
    /\ did # "crashed" /\ calls < MaxCalls /\ calls' = calls + 1
    /\ did' = call /\ meant' = dir
    /\ asked' = [request |-> custom', url |-> dir]
    /\ UNCHANGED kind

Fails == answer' = NULL

(* The first k lines of a reply, by what they tell; one of a list that is  *)
(* not whole is torn, and any other is read as one that never came.        *)
Lines(kinds, dir, k, whole) ==
    [i \in 1..k |-> [is |-> kinds[i], dir |-> dir, n |-> calls + 1,
                     torn |-> i > whole /\ kinds[i] \in {"list", "entry"}]]
All(b, kinds, dir) == b \o Lines(kinds, dir, Len(kinds), Len(kinds))

(* www_curl_buffer_recv: what came before a call failed stays.             *)
Came(b, kinds, dir) ==
    UNION {{b \o Lines(kinds, dir, k, whole) : whole \in {k - 1, k}} : k \in 0..Len(kinds)}

Places(b, is, after) == {i \in DOMAIN b : b[i].is = is /\ i > after}

(* The lines of a list.  One that was torn and the line behind it are read *)
(* as one, whatever that gives.                                            *)
Torn(b) == \E i \in DOMAIN b : b[i].torn
Listed(b, is) ==
    LET heads == {i \in Places(b, is, 0) : i = 1 \/ ~b[i - 1].torn}
    IN IF Torn(b) THEN {NULL, heads} ELSE {heads}

-----------------------------------------------------------------------------
(* What a server sends for the request and the url that are set.           *)
Statuses == {<<"exists", "recent">>, <<"flags", "exists", "recent", "unseen">>}
BodyOf(r) == CASE r = NULL -> {<<>>, <<"list", "list">>}
               [] r # NULL /\ r[1] = "EXAMINE" -> Statuses
               [] OTHER -> {<<>>}
HeaderOf(r, u) == IF r # NULL /\ r[1] = "FETCH" /\ u # "server"
                  THEN {<<>>, <<"head", "flags">>} ELSE {<<>>}

(* imap_ls: every list in the body, asked for by what is set; no body at   *)
(* all is read through NULL.                                               *)
ImapLs ==
    /\ kind = "imap" /\ UNCHANGED <<url, custom, cut, ftp>>
    /\ \E lists \in BodyOf(custom), mails \in HeaderOf(custom, url) :
        LET dir == IF custom = NULL THEN NULL ELSE custom[2] IN
        \/ /\ Perform("ls", NULL) /\ Fails
           /\ body' \in Came(body, lists, dir) /\ header' \in Came(header, mails, dir)
        \/ /\ Perform(IF body \o lists = <<>> THEN "crashed" ELSE "ls", NULL)
           /\ body' = All(body, lists, dir) /\ header' = All(header, mails, dir)
           /\ answer' \in Listed(body', "list")

(* imap_examine: the first numbers in the body, unless it begins with them.*)
Examined(b) ==
    LET exists == Places(b, "exists", 0)
        recent == Places(b, "recent", Min(exists))
        unseen == Places(b, "unseen", Min(recent))
    IN IF exists = {} \/ 1 \in exists \/ recent = {} \/ unseen = {} THEN NULL
       ELSE [exists |-> b[Min(exists)], recent |-> b[Min(recent)], unseen |-> b[Min(unseen)]]

Examine(dir) ==
    /\ kind = "imap" /\ custom' = <<"EXAMINE", dir>> /\ UNCHANGED <<url, imap, ftp>>
    /\ Perform("examine", dir)
    /\ \E status \in Statuses :
        \/ Fails /\ body' \in Came(body, status, dir)
        \/ body' = All(body, status, dir) /\ answer' = Examined(body')

(* A slip: the url of the mailbox is left.                                 *)
RestoredNot(fails, dir) == dir

(* www_url_set after a perform: the mailbox stays when it failed.          *)
Restored(fails, dir) == IF fails THEN dir ELSE "server"

(* The first mail in the header, up to the flags behind it.                *)
Mail(h) ==
    LET heads == Places(h, "head", 0)
        ends == Places(h, "flags", Min(heads))
    IN IF heads = {} \/ ends = {} THEN NULL ELSE [from |-> h[Min(heads)], to |-> h[Min(ends)]]

(* imap_fetch of one mail, that may not be there.  What is found gets its  *)
(* end written behind it, also when it has no flag and the call fails, and *)
(* nothing is found behind that.                                           *)
Fetch(dir) ==
    /\ kind = "imap" /\ custom' = <<"FETCH", dir>> /\ UNCHANGED <<body, ftp>>
    /\ \E fails \in BOOLEAN, mails \in {<<>>, <<"head", "flags">>} :
        /\ url' = Restored(fails, dir)
        /\ Handled("fetch", dir)
        /\ IF fails THEN Fails /\ header' \in Came(header, mails, dir) /\ UNCHANGED cut
           ELSE /\ header' = All(header, mails, dir)
                /\ IF cut \/ Mail(header') = NULL THEN Fails /\ UNCHANGED cut
                   ELSE answer' \in {NULL, Mail(header')} /\ cut' = TRUE

(* imap_flags; what it is answered is no mail and ends none.               *)
Flags(dir) ==
    /\ kind = "imap" /\ custom' = <<"STORE", dir>> /\ UNCHANGED <<body, imap, ftp>>
    /\ \E fails \in BOOLEAN :
        /\ url' = Restored(fails, dir)
        /\ Handled("flags", dir)
        /\ answer' = IF fails THEN NULL ELSE "ok"

-----------------------------------------------------------------------------
(* A slip of KillBack: the "/" at the end is taken for the last one.       *)
KillBackSlash(p) == LET slashes == {i \in DOMAIN p : p[i] = "/"} IN
    IF Len(p) = 1 \/ slashes = {} THEN p ELSE SubSeq(p, 1, Max(slashes) - 1)

(* path_kill_back.                                                         *)
KillBack(p) ==
    LET q == IF Last(p) = "/" THEN Front(p) ELSE p
        slashes == {i \in DOMAIN q : q[i] = "/"}
    IN IF Len(p) = 1 THEN p
       ELSE IF slashes = {} THEN q ELSE SubSeq(q, 1, Max(slashes) - 1)

Word(p, i) == IF i <= Len(p) THEN p[i] ELSE ""
From(p, i) == SubSeq(p, i, Len(p))
Slashed(p) == IF Last(p) = "/" THEN p ELSE Append(p, "/")

(* path_resolve_custom; a name that begins with a point is not read.       *)
PathResolveCustom(p, current) ==
    CASE p[1] = ".." -> KillBack(current)
                        \o (IF Word(p, 2) \in {"", "/"} THEN <<>> ELSE <<"/">>) \o From(p, 2)
      [] p[1] = "."  -> IF Word(p, 2) = "/" THEN current \o From(p, 3) ELSE current
      [] p[1] = "/"  -> p
      [] OTHER       -> Slashed(current) \o p

Current == From(site, lenSite)
Resolved(p) == PathResolveCustom(p, Current)

(* The directories a path leads through, for a user who is at d.           *)
Walk(d, p) == FoldLeft(LAMBDA w, x : IF x \in {"/", "."} THEN w
                                     ELSE IF x # ".." THEN Append(w, x)
                                     ELSE IF w = <<>> THEN w ELSE Front(w),
                       IF p # <<>> /\ p[1] = "/" THEN <<>> ELSE d, p)

(* ftp_cd; of "/" alone the name in front of it is looked at.              *)
Cd(p) ==
    /\ kind = "ftp" /\ did # "crashed" /\ calls < MaxCalls /\ calls' = calls + 1
    /\ LET res == Resolved(p) IN
       site' = Front(Host) \o (IF res = <<>> THEN <<"/">> ELSE Slashed(res))
    /\ at' = Walk(at, p) /\ did' = "cd" /\ asked' = NULL /\ answer' = NULL /\ meant' = NULL
    /\ UNCHANGED <<kind, url, custom, body, imap>>

(* A listing: files, directories and links, or a line that is none.        *)
Listings == {<<>>, <<"entry", "entry">>, <<"total">>}

(* ftp_list: every line in the body, or nothing when one of them is not    *)
(* read.  No body is read through NULL, and a name that was torn or a link *)
(* without a target may be read beyond the end.                            *)
FtpList ==
    /\ kind = "ftp" /\ custom' = <<"LIST">> /\ url' = site /\ UNCHANGED <<imap, ftp>>
    /\ \E lines \in Listings :
        \/ Perform("list", at) /\ Fails /\ body' \in Came(body, lines, NULL)
        \/ /\ \E call \in IF body \o lines = <<>> THEN {"crashed"}
                          ELSE {"list"} \union (IF Torn(body) THEN {"crashed"} ELSE {}) :
                  Perform(call, at)
           /\ body' = All(body, lines, NULL)
           /\ answer' \in IF Places(body', "total", 0) # {} /\ ~Torn(body') THEN {NULL}
                         ELSE Listed(body', "entry")

(* ftp_unlink, ftp_mkdir and ftp_rmdir.                                    *)
Change(c, p) ==
    /\ kind = "ftp" /\ custom' = <<c>> \o Resolved(p) /\ url' = site /\ UNCHANGED <<imap, ftp, body>>
    /\ Perform("change", Walk(at, p))
    /\ answer' \in {NULL, "ok"}

(* ftp_rename: the names are not sent, but a list comes and is kept.       *)
Rename ==
    /\ kind = "ftp" /\ custom' = <<"LIST">> /\ url' = site /\ UNCHANGED <<imap, ftp>>
    /\ Perform("rename", at)
    /\ \E lines \in Listings :
        \/ Fails /\ body' \in Came(body, lines, NULL)
        \/ answer' = "ok" /\ body' = All(body, lines, NULL)

(* ftp_download and ftp_upload ask for a url without a host, which fails;  *)
(* the second one resets the buffer through NULL then.                     *)
Download(p) ==
    /\ kind = "ftp" /\ url' = Resolved(p) /\ UNCHANGED <<custom, imap, ftp, body>>
    /\ Perform("download", NULL) /\ Fails
Upload(p) ==
    /\ kind = "ftp" /\ url' = Resolved(p) /\ UNCHANGED <<custom, imap, ftp, body>>
    /\ Perform("crashed", NULL) /\ Fails

Next ==
    \/ ImapLs \/ \E dir \in Dirs : Examine(dir) \/ Fetch(dir) \/ Flags(dir)
    \/ FtpList \/ Rename
    \/ \E p \in Paths : Cd(p) \/ Download(p) \/ Upload(p)
    \/ \E p \in Paths, c \in {"DELETE", "MKD", "RMD"} : Change(c, p)

Spec == Init /\ [][Next]_vars

-----------------------------------------------------------------------------
(* What a buffer has of a kind came with the last call.                    *)
Own(b, is) == \A i \in Places(b, is, 0) : b[i].n = calls

(* A call asks for its own command in its own mailbox, whatever was asked, *)
(* failed or broke off before it.  As long as no call left mails, numbers  *)
(* or lists in a buffer, the mail that is found is whole and the one asked *)
(* for, the numbers are those of the mailbox, and the lists are all that   *)
(* came.  A mailbox is left again unless the call in it failed             *)
(* (imap.c:50-128, 152-231, 733-760).                                      *)
ImapRight == kind = "imap" =>
    /\ did \in {"fetch", "flags"} => asked.url = meant /\ asked.request[2] = meant
    /\ did = "examine" => asked.request = <<"EXAMINE", meant>>
    /\ did = "fetch" /\ answer # NULL /\ Own(header, "head") =>
           \A line \in {answer.from, answer.to} : line.n = calls /\ line.dir = meant
    /\ did = "examine" /\ answer # NULL /\ Own(body, "exists") =>
           \A line \in {answer.exists, answer.recent, answer.unseen} :
               line.n = calls /\ line.dir = meant
    /\ did = "ls" /\ answer # NULL /\ Own(body, "list") => answer = Places(body, "list", 0)
    /\ url # "server" => url \in Dirs /\ custom[1] \in {"FETCH", "STORE", "EXAMINE"}
    /\ did \in {"fetch", "flags"} /\ answer # NULL => url = "server"

(* The site is where the paths that were given lead, requests are made     *)
(* there and name what was meant, and the first listing is all that came   *)
(* (ftp.c:54-72, 219-331, path.c:8-14, 148-199).                           *)
FtpRight == kind = "ftp" =>
    /\ SubSeq(site, 1, lenSite) = Host /\ Last(site) = "/"
    /\ Walk(<<>>, Current) = at
    /\ did \in {"list", "rename"} => Walk(<<>>, From(asked.url, lenSite)) = meant
    /\ did = "change" => Walk(<<>>, Tail(asked.request)) = meant /\ asked.url = site
    /\ did = "list" /\ answer # NULL /\ Own(body, "entry") => answer = DOMAIN body
=============================================================================
