--------------------------------- MODULE Mime ---------------------------------
(***************************************************************************)
(* A mail is parsed line by line (ef/www/imap.c): mime_parse assigns its   *)
(* headers, of which the long ones are folded, and mime_content the parts  *)
(* between the boundaries with their own headers and data.  Lines end as   *)
(* they should; the text of a part is what its decoder is given, and the   *)
(* decoders of base64 and quoted-printable are swapped (imap.c:434-449).   *)
(***************************************************************************)
EXTENDS Integers, Sequences, SequencesExt, FiniteSets

CONSTANTS Mails, NULL,
          Fields,           \* headers that have one text: To, Subject, ...
          MIME_HEADER_COUNT

VARIABLES mail, at,         \* the text, the line that is next
          field, boundary,  \* what is assigned
          nassign,
          content,          \* the parts, the last one first
          part,             \* the part whose headers are read
          result
vars == <<mail, at, field, boundary, nassign, content, part, result>>

Init ==
    /\ mail \in Mails /\ at = 1
    /\ field = [f \in Fields |-> NULL] /\ boundary = NULL
    /\ nassign = 0 /\ content = <<>> /\ part = NULL /\ result = "parsing"

Line == mail[at]
Is(k) == /\ result = "parsing" /\ at <= Len(mail) /\ nassign < MIME_HEADER_COUNT
         /\ Line.k = k
InHeader(k) == part = NULL /\ Is(k)
InPart(k) == part # NULL /\ Is(k)
Fails == result' = "error" /\ UNCHANGED <<at, field, boundary, nassign, content, part>>

(* mime_unfolding: the lines that go on with this one are read with it.    *)
UnfoldFirst(i) == i + 1
Unfolded(i) == CHOOSE j \in (i + 1)..(Len(mail) + 1) :
    /\ j <= Len(mail) => mail[j].k # "fold"
    /\ \A l \in (i + 1)..(j - 1) : mail[l].k = "fold"
Says(i, key) == LET named == {j \in i..(Unfolded(i) - 1) : key \in DOMAIN mail[j]} IN
    IF named = {} THEN NULL ELSE mail[CHOOSE j \in named : \A l \in named : j <= l][key]

-----------------------------------------------------------------------------
(* mime_parse.                                                             *)
Auth ==
    /\ InHeader("auth")
    /\ IF ~Line.fair THEN Fails
       ELSE at' = at + 1 /\ nassign' = nassign + 1
            /\ UNCHANGED <<field, boundary, content, part, result>>
    /\ UNCHANGED mail

Field ==
    /\ InHeader("field")
    /\ IF field[Line.f] # NULL THEN Fails
       ELSE /\ field' = [field EXCEPT ![Line.f] = at]
            /\ at' = Unfolded(at) /\ nassign' = nassign + 1
            /\ UNCHANGED <<boundary, content, part, result>>
    /\ UNCHANGED mail

Multipart ==
    /\ InHeader("multipart")
    /\ IF boundary # NULL \/ Says(at, "b") = NULL THEN Fails
       ELSE /\ boundary' = Says(at, "b") /\ at' = Unfolded(at) /\ nassign' = nassign + 1
            /\ UNCHANGED <<field, content, part, result>>
    /\ UNCHANGED mail

(* A mark of this boundary begins a part if anything is below it, so that  *)
(* the last one begins another if the mail goes on; a mark of another      *)
(* boundary, or before there is one, is a line like any other.             *)
Mark ==
    /\ InHeader("mark")
    /\ at' = at + 1
    /\ part' = IF boundary # NULL /\ Line.b = boundary /\ at < Len(mail)
               THEN [from |-> at, encoding |-> NULL, name |-> NULL, filename |-> NULL] ELSE NULL
    /\ UNCHANGED <<mail, field, boundary, nassign, content, result>>

Other ==
    /\ \E k \in {"text", "fold", "blank", "type", "encoding", "disposition"} : InHeader(k)
    /\ at' = at + 1
    /\ UNCHANGED <<mail, field, boundary, nassign, content, part, result>>

(* Whatever is left when all headers were assigned is not read.            *)
Done ==
    /\ result = "parsing" /\ part = NULL
    /\ at > Len(mail) \/ nassign >= MIME_HEADER_COUNT
    /\ result' = "ok"
    /\ UNCHANGED <<mail, at, field, boundary, nassign, content, part>>

-----------------------------------------------------------------------------
(* mime_content: the headers of a part; a line that is none is skipped.  A *)
(* part of several parts has a type like any other.                        *)
PartType ==
    /\ InPart("type") \/ InPart("multipart")
    /\ part' = [part EXCEPT !.name = Says(at, "name")]
    /\ at' = Unfolded(at)
    /\ UNCHANGED <<mail, field, boundary, nassign, content, result>>

PartDisposition ==
    /\ InPart("disposition")
    /\ part' = [part EXCEPT !.filename = Says(at, "filename")]
    /\ at' = Unfolded(at)
    /\ UNCHANGED <<mail, field, boundary, nassign, content, result>>

Encodings == {"base64", "quoted-printable", "8bit"}
PartEncoding ==
    /\ InPart("encoding")
    /\ IF Line.encoding \notin Encodings THEN Fails
       ELSE /\ part' = [part EXCEPT !.encoding = Line.encoding] /\ at' = at + 1
            /\ UNCHANGED <<field, boundary, nassign, content, result>>
    /\ UNCHANGED mail

PartSkip ==
    /\ \E k \in {"text", "fold", "mark", "field", "auth"} : InPart(k)
    /\ at' = at + 1
    /\ UNCHANGED <<mail, field, boundary, nassign, content, part, result>>

(* The data of a part: up to an empty line or the next mark, or, of eight  *)
(* bits, up to a mark below its first line, and beyond the end of the mail *)
(* if there is none.  Without an encoding it is not read here.             *)
DataEnd(i, stops) == CHOOSE j \in i..(Len(mail) + 1) :
    /\ j <= Len(mail) => mail[j].k \in stops
    /\ \A l \in i..(j - 1) : mail[l].k \notin stops
Data(e, i) == CASE e = NULL \/ i > Len(mail) -> i
                [] e = "8bit" -> DataEnd(i + 1, {"mark"})
                [] OTHER -> DataEnd(i, {"mark", "blank"})
SkipBlank(i) == IF i <= Len(mail) /\ mail[i].k = "blank" THEN i + 1 ELSE i

(* The name of the file is that of the disposition, else that of the type. *)
Content == [from |-> part.from,
            filename |-> IF part.filename # NULL THEN part.filename ELSE part.name]

PartData ==
    /\ InPart("blank")
    /\ LET end == Data(part.encoding, at + 1) IN
       IF part.encoding = "8bit" /\ end > Len(mail)
       THEN /\ result' = "overrun"
            /\ UNCHANGED <<at, field, boundary, nassign, content, part>>
       ELSE /\ at' = SkipBlank(end)
            /\ content' = <<Content>> \o content /\ part' = NULL
            /\ UNCHANGED <<field, boundary, nassign, result>>
    /\ UNCHANGED mail

PartEnds ==
    /\ part # NULL /\ result = "parsing" /\ at > Len(mail)
    /\ content' = <<Content>> \o content /\ part' = NULL
    /\ UNCHANGED <<mail, at, field, boundary, nassign, result>>

Parse == \/ Auth \/ Field \/ Multipart \/ Mark \/ Other \/ Done
         \/ PartType \/ PartDisposition \/ PartEncoding \/ PartSkip \/ PartData \/ PartEnds

-----------------------------------------------------------------------------
(* What a mail says: its headers are above its parts, the parts begin at   *)
(* the marks of its boundary.                                              *)
Where(k) == {i \in DOMAIN mail : mail[i].k = k}
Nested == {i \in Where("multipart") : \E m \in Where("mark") :
              m < i /\ mail[m].b = boundary /\ \A l \in m..i : mail[l].k # "blank"}
Multiparts == Where("multipart") \ Nested
Assigned == Where("field") \cup Multiparts \cup Where("auth")
Begins == {i \in Where("mark") : mail[i].b = boundary /\ i < Len(mail)}
Plain == /\ \A i, j \in Where("field") : mail[i].f = mail[j].f => i = j
         /\ \A i \in Assigned, j \in Where("mark") : i < j
         /\ Cardinality(Assigned) < MIME_HEADER_COUNT
Folds(i) == {j \in DOMAIN mail : j > i /\ \A l \in (i + 1)..j : mail[l].k = "fold"}
HeadersOf(p) == LET below == {i \in Where("blank") : i > p.from} IN
    (p.from + 1)..(IF below = {} THEN Len(mail) ELSE CHOOSE i \in below : \A j \in below : i <= j)

(* Of a plain mail that is parsed every header is assigned from its own    *)
(* line, and every part is there, the last one first, with a name that its *)
(* own headers give; it is refused only for what the code says it cannot   *)
(* read (imap.c:324-362, 451-691).                                         *)
MimeRight ==
    /\ result = "ok" /\ Plain =>
           /\ \A f \in Fields : IF field[f] = NULL THEN \A i \in Where("field") : mail[i].f # f
                                ELSE mail[field[f]].k = "field" /\ mail[field[f]].f = f
           /\ (boundary # NULL) = (Multiparts # {})
           /\ {content[i].from : i \in DOMAIN content} = Begins
           /\ \A i, j \in DOMAIN content : i < j => content[i].from > content[j].from
           /\ \A i \in DOMAIN content :
                  \/ content[i].filename = NULL
                  \/ \E l \in HeadersOf(content[i]), key \in {"name", "filename"} :
                         key \in DOMAIN mail[l] /\ mail[l][key] = content[i].filename
    /\ result = "error" /\ Plain =>
           \/ \E i \in Where("auth") : ~mail[i].fair
           \/ \E i \in Where("encoding") : mail[i].encoding \notin Encodings
           \/ \E i \in Multiparts : \A j \in {i} \cup Folds(i) : "b" \notin DOMAIN mail[j]
           \/ Cardinality(Multiparts) > 1
=============================================================================
