------------------------------ MODULE WarcStream ------------------------------
(***************************************************************************)
(* How one WARC object becomes CDX rows: index_warc_object (index.rs)      *)
(* streams the object through a bounded channel to a blocking thread,      *)
(* where GzSplitter (gz_warc.rs) cuts a .warc.gz into gzip members and     *)
(* WarcReader (warc/reader.rs) parses records, from one member or from     *)
(* the stream itself; fetch_warc_record (record_fetch.rs) later finds a    *)
(* record again by the offsets kept in its row.                            *)
(*                                                                         *)
(* The unit of length is a line of text or a piece of a block; a gzip      *)
(* member is two units of header, its optional header units, one unit per  *)
(* unit of text (at least one) and two units of trailer.  Where S3 cuts    *)
(* the object into chunks, and when each side runs, is open.               *)
(***************************************************************************)
EXTENDS Naturals, Sequences, SequencesExt

CONSTANTS
  Objects,    \* objects that may be indexed
  Capacity,   \* chunks the channel holds (16 in the code)
  MaxChunk,   \* bound: units in a chunk
  MaxHeader,  \* MAX_HEADER_BYTES
  SlackGz,    \* what fetch_warc_record adds to a member's length (65536)
  SlackPlain, \* what it adds to a plain record's length (4096)
  Breaks      \* whether the S3 stream may break

(* An element of an object: a record - kind: what from_warc_record and the *)
(* filters make of it; head: its header lines after the version line, none *)
(* of them empty, "length" with its value for a Content-Length; size:      *)
(* units in its block - or a line between records, empty or not.           *)
Captured == {"capture", "warcinfo", "other", "dns", "blacklisted", "invalid"}
HeaderLines == {"field", "length", "folded", "nocolon"}
Element == [kind: Captured \cup {"blank", "garbage"},
            head: Seq([line: HeaderLines, value: Nat]), size: Nat]

(* A gzip member, or a stretch of a plain file: opts - its optional gzip   *)
(* header units; damage - what is wrong with the member.                   *)
PartType == [opts: Nat, damage: {"none", "magic", "deflate"}, text: Seq(Element)]

ASSUME StreamAssumption ==
  /\ \A o \in Objects : o.gz \in BOOLEAN /\ o.parts \in Seq(PartType)
  /\ {Capacity, MaxChunk} \subseteq Nat \ {0}
  /\ {MaxHeader, SlackGz, SlackPlain} \subseteq Nat
  /\ Breaks \in BOOLEAN

-----------------------------------------------------------------------------
(* What the object holds.                                                  *)

Line(l) == [line |-> l, value |-> 0]
Blank == Line("blank")

(* The units of record e of part p: version line, header, empty line,      *)
(* block and two empty lines.                                              *)
RecordText(o, p, e) ==
  LET r == o.parts[p].text[e]
  IN  <<[line |-> "version", value |-> <<p, e>>]>> \o r.head \o <<Blank>>
        \o [n \in 1..r.size |-> [line |-> "block", value |-> <<p, e, n>>]]
        \o <<Blank, Blank>>

IsRecord(o, x) == o.parts[x[1]].text[x[2]].kind \in Captured

ElementText(o, p, e) ==
  IF IsRecord(o, <<p, e>>) THEN RecordText(o, p, e) ELSE <<Line(o.parts[p].text[e].kind)>>

PartText(o, p) == FlattenSeq([e \in 1..Len(o.parts[p].text) |-> ElementText(o, p, e)])

(* The member of part p: two units of fixed header, the second with its    *)
(* flags; its optional header; the text, the last unit of which ends the   *)
(* deflate stream; two units of trailer.                                   *)
Packed(kind, content, end) == [packed |-> kind, content |-> content, end |-> end]

Member(o, p) ==
  LET t == PartText(o, p)
      n == Len(t)
      Framing(kind) == Packed(kind, <<>>, FALSE)
  IN  <<Framing(IF o.parts[p].damage = "magic" THEN "garbage" ELSE "magic"),
        Packed("flags", o.parts[p].opts, FALSE)>>
        \o [i \in 1..o.parts[p].opts |-> Framing("option")]
        \o (IF n = 0 THEN <<Packed("data", <<>>, o.parts[p].damage # "deflate")>>
                     ELSE [i \in 1..n |-> Packed("data", <<t[i]>>,
                                               i = n /\ o.parts[p].damage # "deflate")])
        \o (IF o.parts[p].damage = "deflate" THEN <<Framing("garbage")>> ELSE <<>>)
        \o <<Framing("crc"), Framing("isize")>>

Part(o, p) == IF o.gz THEN Member(o, p) ELSE PartText(o, p)
Stored == [o \in Objects |-> FlattenSeq([p \in 1..Len(o.parts) |-> Part(o, p)])]

-----------------------------------------------------------------------------
VARIABLES
  obj,      \* the object
  cut,      \* units of it that arrive before the stream ends or breaks
  sent,     \* units handed to the channel
  sending,  \* whether the forwarding task runs
  channel,  \* chunks on their way
  reading,  \* whether the receiver exists
  buf,      \* units read and not consumed
  raw_pos,  \* units ever read
  phase,    \* what the parsing thread reads next,
  want,     \*   and how many units of it
  start,    \* member_start
  text,     \* what the member held and is not parsed yet
  offset,   \* WarcReader's offset
  header,   \* the header so far; its length is <<n>>, or <<>> when it has no usable one
  rows,     \* CDX rows found
  count     \* the counters: records, skipped, errors

parser == <<reading, buf, raw_pos, phase, want, start, text, offset, header>>
result == <<rows, count>>
vars == <<obj, cut, sent, sending, channel, parser, result>>

NoHeader == [of |-> <<0, 0>>, offset |-> 0, length |-> <<>>, last |-> "none", size |-> 0]

Init ==
  /\ obj \in Objects
  /\ cut \in IF Breaks THEN 0..Len(Stored[obj]) ELSE {Len(Stored[obj])}
  /\ sent = 0 /\ sending = TRUE /\ channel = <<>>
  /\ reading = TRUE /\ buf = <<>> /\ raw_pos = 0
  /\ phase = (IF obj.gz THEN "member" ELSE "record") /\ want = 1
  /\ start = 0 /\ text = <<>> /\ offset = 0 /\ header = NoHeader
  /\ rows = <<>> /\ count = [records |-> 0, skipped |-> 0, errors |-> 0]

-----------------------------------------------------------------------------
(* The task that forwards the S3 stream.                                   *)

Send ==
  /\ sending /\ reading /\ Len(channel) < Capacity
  /\ \E n \in 1..MaxChunk :
       /\ sent + n <= cut
       /\ channel' = Append(channel, SubSeq(Stored[obj], sent + 1, sent + n))
       /\ sent' = sent + n
  /\ UNCHANGED <<obj, cut, sending, parser, result>>

(* Bug: the task goes on when the parser has given up. *)
SenderStopsAtEnd ==
  /\ sending /\ sent = cut
  /\ sending' = FALSE
  /\ UNCHANGED <<obj, cut, sent, channel, parser, result>>

(* The stream is over, breaks, or nobody receives any more.                *)
SenderStops ==
  /\ sending
  /\ sent = cut \/ ~reading
  /\ sending' = FALSE
  /\ UNCHANGED <<obj, cut, sent, channel, parser, result>>

-----------------------------------------------------------------------------
(* What the parsing thread reads from: the stream, or the decompressed     *)
(* member in memory.                                                       *)

InMemory == obj.gz /\ phase \in {"record", "header", "block", "terminator"}
Input == IF InMemory THEN text ELSE buf

Ready == reading /\ Len(Input) >= want
AtEnd == reading /\ Len(Input) < want /\ (InMemory \/ (channel = <<>> /\ ~sending))

(* ChannelReader::read under CountingReader, and under GzSplitter's        *)
(* ensure or BufReader: the next chunk goes behind what is there, and      *)
(* nothing is read while that is enough.                                   *)
Read ==
  /\ reading /\ ~InMemory /\ Len(buf) < want /\ channel # <<>>
  /\ buf' = buf \o Head(channel)
  /\ raw_pos' = raw_pos + Len(Head(channel))
  /\ channel' = Tail(channel)
  /\ UNCHANGED <<obj, cut, sent, sending, reading, phase, want, start, text, offset,
                 header, result>>

Rest == SubSeq(Input, want + 1, Len(Input))

Consume ==
  /\ buf' = IF InMemory THEN buf ELSE Rest
  /\ text' = IF InMemory THEN Rest ELSE text

(* Bug: a position that forgets what is buffered. *)
PosUnbuffered == raw_pos

pos == raw_pos - Len(buf)

Then(p, w) == phase' = p /\ want' = w

Here == UNCHANGED <<obj, cut, sent, sending, channel, raw_pos>>

Counted(r, s, e) ==
  count' = [records |-> count.records + r, skipped |-> count.skipped + s,
            errors |-> count.errors + e]

(* The closure returns; the receiver goes with it.                         *)
Return ==
  /\ phase' = "done" /\ reading' = FALSE
  /\ UNCHANGED <<buf, want, start, text, offset, header, rows>>
  /\ Here

-----------------------------------------------------------------------------
(* GzSplitter::next_member.                                                *)

InMember == UNCHANGED <<reading, offset, header, result>> /\ Here

BeginMember ==
  /\ phase = "member" /\ Ready
  /\ start' = pos /\ Then("fixed", 2)
  /\ UNCHANGED <<buf, text>> /\ InMember

CleanEnd == phase = "member" /\ AtEnd /\ UNCHANGED count /\ Return

FixedHeader ==
  /\ phase = "fixed" /\ Ready /\ buf[1].packed = "magic"
  /\ Consume /\ UNCHANGED start
  /\ Then("option", buf[2].content)
  /\ InMember

OptionalHeader ==
  /\ phase = "option" /\ Ready
  /\ buf' = Rest /\ text' = <<>> /\ UNCHANGED start
  /\ Then("data", 1)
  /\ InMember

Inflate ==
  /\ phase = "data" /\ Ready /\ buf[1].packed = "data"
  /\ buf' = Rest /\ text' = text \o buf[1].content /\ UNCHANGED start
  /\ IF buf[1].end THEN Then("trailer", 2) ELSE Then("data", 1)
  /\ InMember

(* The member is complete: it counts as a record, and a new WarcReader     *)
(* reads it.                                                               *)
Trailer ==
  /\ phase = "trailer" /\ Ready
  /\ Consume /\ UNCHANGED <<start, reading, rows>>
  /\ Then("record", 1)
  /\ offset' = 0 /\ header' = NoHeader
  /\ Counted(1, 0, 0)
  /\ Here

(* Not gzip, not deflate, or over in the middle: the rest is given up.     *)
SplitterFails ==
  /\ \/ phase = "fixed" /\ Ready /\ buf[1].packed # "magic"
     \/ phase = "data" /\ Ready /\ buf[1].packed # "data"
     \/ phase \in {"fixed", "option", "data", "trailer"} /\ AtEnd
  /\ Counted(0, 0, 1) /\ Return

-----------------------------------------------------------------------------
(* WarcReader::next_record.                                                *)

SkipBlank ==
  /\ phase = "record" /\ Ready /\ Input[1].line = "blank"
  /\ Consume /\ offset' = offset + 1
  /\ UNCHANGED <<phase, want, start, reading, header, result>> /\ Here

(* The version line.  record_offset is taken once it has been counted.     *)
Version ==
  /\ phase = "record" /\ Ready /\ Input[1].line = "version"
  /\ Consume /\ offset' = offset + 1
  /\ header' = [NoHeader EXCEPT !.of = Input[1].value, !.offset = offset + 1]
  /\ Then("header", 1)
  /\ UNCHANGED <<start, reading, result>> /\ Here

(* A field, Content-Length among them; or a folded line, which goes to     *)
(* the end of the field before it.  The last of two equal fields counts.   *)
HeaderLine ==
  /\ phase = "header" /\ Ready /\ header.size < MaxHeader
  /\ Input[1].line \in {"field", "length", "folded"}
  /\ Consume /\ offset' = offset + 1
  /\ header' = [header EXCEPT
       !.size = @ + 1,
       !.last = IF Input[1].line = "folded" THEN @ ELSE Input[1].line,
       !.length = CASE Input[1].line = "length" -> <<Input[1].value>>
                    [] Input[1].line = "folded" /\ header.last = "length" -> <<>>
                    [] OTHER -> @]
  /\ UNCHANGED <<phase, want, start, reading, result>> /\ Here

HeaderEnd ==
  /\ phase = "header" /\ Ready /\ header.size < MaxHeader
  /\ Input[1].line = "blank" /\ header.length # <<>>
  /\ Consume /\ offset' = offset + 1
  /\ header' = [header EXCEPT !.size = @ + 1]
  /\ Then("block", header.length[1])
  /\ UNCHANGED <<start, reading, result>> /\ Here

Block ==
  /\ phase = "block" /\ Ready
  /\ Consume /\ offset' = offset + want
  /\ Then("terminator", 2)
  /\ UNCHANGED <<start, reading, header, result>> /\ Here

(* A record is complete.  handle_record makes a row of a capture that no   *)
(* filter drops; a gzip member is done with, a plain stream goes on.       *)
Row == [of |-> header.of, offset |-> header.offset, length |-> header.length[1],
        c_offset |-> IF obj.gz THEN start ELSE 0]

handle_record(kind) ==
  /\ rows' = IF kind = "capture" THEN Append(rows, Row) ELSE rows
  /\ Counted(IF obj.gz THEN 0 ELSE 1,
             IF kind \in {"capture", "invalid"} THEN 0 ELSE 1,
             IF kind = "invalid" THEN 1 ELSE 0)

KindOf(o, e) == o.parts[e[1]].text[e[2]].kind

Terminator ==
  /\ phase = "terminator" /\ Ready
  /\ Input[1].line = "blank" /\ Input[2].line = "blank"
  /\ Consume /\ offset' = offset + 2
  /\ handle_record(KindOf(obj, header.of))
  /\ Then(IF obj.gz THEN "member" ELSE "record", 1)
  /\ UNCHANGED <<start, reading, header>> /\ Here

(* Text that is no record: no version line, a header that is too long, has *)
(* a line without a colon or no usable length, or anything cut off.        *)
Malformed ==
  \/ phase = "record" /\ Ready /\ Input[1].line \notin {"blank", "version"}
  \/ /\ phase = "header" /\ Ready
     /\ \/ header.size >= MaxHeader
        \/ Input[1].line \notin {"field", "length", "folded", "blank"}
        \/ Input[1].line = "blank" /\ header.length = <<>>
  \/ phase \in {"header", "block", "terminator"} /\ AtEnd
  \/ phase = "terminator" /\ Ready /\ (Input[1].line # "blank" \/ Input[2].line # "blank")

(* Bug: one bad member ends the object. *)
RecordFailsForGood == Malformed /\ Counted(0, 0, 1) /\ Return

(* A member that is no record is passed over; a plain stream is given up.  *)
RecordFails ==
  /\ Malformed
  /\ Counted(0, 0, 1)
  /\ IF obj.gz
       THEN /\ Then("member", 1)
            /\ UNCHANGED <<reading, buf, start, text, offset, header, rows>> /\ Here
       ELSE Return

NoRecord ==
  /\ phase = "record" /\ AtEnd
  /\ IF obj.gz
       THEN /\ Counted(0, 1, 0) /\ Then("member", 1)
            /\ UNCHANGED <<reading, buf, start, text, offset, header, rows>> /\ Here
       ELSE UNCHANGED count /\ Return

-----------------------------------------------------------------------------
Sender == Send \/ SenderStops
Parser ==
  \/ Read
  \/ BeginMember \/ CleanEnd \/ FixedHeader \/ OptionalHeader \/ Inflate
  \/ Trailer \/ SplitterFails
  \/ SkipBlank \/ Version \/ HeaderLine \/ HeaderEnd \/ Block \/ Terminator
  \/ RecordFails \/ NoRecord

Next == Sender \/ Parser

Spec == Init /\ [][Next]_vars

(* The runtime polls the task and the thread runs: neither is starved.     *)
FairSpec == Spec /\ WF_vars(Sender) /\ WF_vars(Parser)
-----------------------------------------------------------------------------
(* fetch_warc_record: the record a row names, read again later.            *)

(* GzDecoder: one member, if all of it is in the range.                    *)
Decoded(range) ==
  LET ends == {i \in 1..Len(range) : range[i].packed = "data" /\ range[i].end}
      end == CHOOSE i \in ends : \A j \in ends : i <= j
  IN  IF range = <<>> \/ range[1].packed # "magic" \/ ends = {} \/ end + 2 > Len(range)
        THEN <<>>
        ELSE FlattenSeq([i \in 1..(end - 2 - range[2].content) |->
                           range[i + 2 + range[2].content].content])

fetch_warc_record(row) ==
  LET stored == Stored[obj]
      get_range(from, n) ==
        SubSeq(stored, from + 1, IF from + n < Len(stored) THEN from + n ELSE Len(stored))
  IN  IF obj.gz THEN Decoded(get_range(row.c_offset, row.length + SlackGz))
                ELSE get_range(row.offset, row.length + SlackPlain)

(* Everything behind the first empty line that another line precedes: the  *)
(* code looks for two line ends in a row.                                  *)
warc_http_block(t) ==
  LET blanks == {i \in 2..Len(t) : t[i].line = "blank"}
  IN  IF blanks = {} THEN t
                     ELSE SubSeq(t, (CHOOSE i \in blanks : \A j \in blanks : i <= j) + 1, Len(t))

-----------------------------------------------------------------------------
(* What the object holds, told from the whole of it.                       *)

Elements(o) == UNION {{p} \X (1..Len(o.parts[p].text)) : p \in 1..Len(o.parts)}
Before(x, y) == x[1] < y[1] \/ (x[1] = y[1] /\ x[2] < y[2])

(* A record as the standard wants it: fields, one of them the length of    *)
(* its block, in a header of bounded size.                                 *)
Sound(r) ==
  /\ Len(r.head) < MaxHeader
  /\ \A i \in 1..Len(r.head) : r.head[i].line \in {"field", "length", "folded"}
  /\ \E i \in 1..Len(r.head) :
       /\ r.head[i] = [line |-> "length", value |-> r.size]
       /\ \A j \in (i + 1)..Len(r.head) : r.head[j].line # "length"
       /\ i < Len(r.head) => r.head[i + 1].line # "folded"

UnitsBefore(o, x) ==
  Len(FlattenSeq([p \in 1..(x[1] - 1) |-> Part(o, p)]))
    + IF o.gz THEN 0
              ELSE Len(FlattenSeq([e \in 1..(x[2] - 1) |-> ElementText(o, x[1], e)]))

UnitsThrough(o, x) ==
  UnitsBefore(o, x) + IF o.gz THEN Len(Member(o, x[1])) ELSE Len(ElementText(o, x[1], x[2]))

(* A capture that can be had: in a gzip object the first record of a       *)
(* member, and no damaged member before it; in a plain one, nothing but    *)
(* sound records before it.                                                *)
Reachable(o, x) ==
  /\ IsRecord(o, x) /\ Sound(o.parts[x[1]].text[x[2]])
  /\ KindOf(o, x) = "capture"
  /\ IF o.gz
       THEN /\ \A e \in 1..(x[2] - 1) : o.parts[x[1]].text[e].kind = "blank"
            /\ \A p \in 1..x[1] : o.parts[p].damage = "none"
       ELSE \A y \in Elements(o) : Before(y, x) =>
              \/ o.parts[y[1]].text[y[2]].kind = "blank"
              \/ IsRecord(o, y) /\ Sound(o.parts[y[1]].text[y[2]])

Captures == [o \in Objects |-> {x \in Elements(o) : Reachable(o, x)}]
EndOf == [o \in Objects |-> [x \in Elements(o) |-> UnitsThrough(o, x)]]
Arrived == {x \in Captures[obj] : EndOf[obj][x] <= cut}

Found == {rows[i].of : i \in 1..Len(rows)}
BlockOf(x) == LET t == RecordText(obj, x[1], x[2])
                  r == obj.parts[x[1]].text[x[2]]
              IN  SubSeq(t, Len(r.head) + 3, Len(r.head) + 2 + r.size)

TypeOK ==
  /\ obj \in Objects /\ sent \in 0..cut /\ cut \in 0..Len(Stored[obj])
  /\ sending \in BOOLEAN /\ reading \in BOOLEAN
  /\ Len(channel) <= Capacity
  /\ raw_pos \in 0..sent /\ start \in 0..raw_pos /\ offset \in Nat /\ want \in Nat
  /\ phase \in {"member", "fixed", "option", "data", "trailer", "record", "header",
                "block", "terminator", "done"}
  /\ \A i \in 1..Len(rows) : rows[i].length \in Nat
  /\ count \in [records: Nat, skipped: Nat, errors: Nat]

(* However the object is cut into chunks and whichever side runs ahead,    *)
(* the rows are those of the captures that arrived, each once and in       *)
(* order: handle_record sees no other record, and misses none.  In the end *)
(* the counters of FileStats account for the rest: what did not become a   *)
(* row was skipped or is an error, giving up is one error more.            *)
RowsAreCaptures ==
  /\ TypeOK
  /\ \A i, j \in 1..Len(rows) : i < j => Before(rows[i].of, rows[j].of)
  /\ Found \subseteq Arrived
  /\ \A x \in Arrived : \A y \in Found : Before(x, y) => x \in Found
  /\ phase = "done" =>
       /\ Found = Arrived
       /\ (Len(rows) + count.skipped + count.errors) - count.records \in {0, 1}

(* A row's coordinates find its record again (record_fetch.rs): the block  *)
(* of the record is what follows the first empty line of what they name -  *)
(* if its gzip member, or its header, fits the slack of the request.       *)
Fits(row) ==
  IF obj.gz THEN Len(Member(obj, row.of[1])) <= row.length + SlackGz
            ELSE Len(obj.parts[row.of[1]].text[row.of[2]].head) < SlackPlain
FetchFinds ==
  \A i \in 1..Len(rows) :
    Fits(rows[i]) => IsPrefix(BlockOf(rows[i].of), warc_http_block(fetch_warc_record(rows[i])))

(* The parser finishes whatever the object holds and wherever it breaks    *)
(* off, and the forwarding task does not outlive it.                       *)
Finishes == <>(phase = "done" /\ ~sending)

(* ocr_worker.rs: "Parse the WARC record exactly the way the index run     *)
(* sees it" - what a row names begins, after empty lines, with the version *)
(* line of its record, which is all next_record accepts there.             *)
JobParses ==
  \A i \in 1..Len(rows) : LET bytes == fetch_warc_record(rows[i]) IN
    Fits(rows[i]) => \E k \in 1..Len(bytes) :
      /\ \A j \in 1..(k - 1) : bytes[j].line = "blank"
      /\ bytes[k] = [line |-> "version", value |-> rows[i].of]
=============================================================================
