-------------------------------- MODULE Serve --------------------------------
(***************************************************************************)
(* `tywb serve` while everything else goes on.  A request for a capture    *)
(* (replay_handler, text_handler in server.rs) looks its row up in the     *)
(* CDX store, lets go of the store, fetches the bytes the row names from   *)
(* S3 and turns them into an answer; a fulltext search shows hits that     *)
(* lead to such requests.  Meanwhile the indexer adds rows and documents,  *)
(* `tywb recompress` rewrites objects, crawlers overwrite them and the OCR *)
(* worker fills the text cache.                                            *)
(*                                                                         *)
(* A row says in which object its capture is and where: the number of its  *)
(* record stands for offset and c_offset.                                  *)
(***************************************************************************)
EXTENDS Integers, Sequences, FiniteSets

CONSTANTS
  Caps,        \* captures
  Url, Stamp,  \* their URL and timestamp
  Digest,      \* the digest of their payload
  Kind,        \* what their payload is
  Objs,        \* objects in the buckets
  Content,     \* Content[o][v]: the captures in version v of o
  Shape,       \* Shape[o][v]: how they are stored
  Long,        \* whole gzip objects longer than a record's Range GET
  Coll,        \* Coll[o]: the collection of o
  Configured,  \* collections the server knows
  Tika,        \* whether indexer.tika is set
  Indexed,     \* rows from earlier: captures, their objects, and where
  MaxVersion,  \* bound: versions of an object
  MaxReplace   \* bound: objects overwritten

Urls == {Url[c] : c \in Caps}
Stamps == {Stamp[c] : c \in Caps}
Versions == 1..MaxVersion

(* html, text: indexed as they are.  pdf: Tika makes text of it; cut: only *)
(* if truncated files are allowed; blank, large: never.  image: no text.   *)
(* packed: an encoding without decoder.                                    *)
Kinds == {"html", "text", "pdf", "cut", "blank", "large", "image", "packed"}

ASSUME ServeAssumption ==
  /\ IsFiniteSet(Caps) /\ IsFiniteSet(Objs)
  /\ Stamp \in [Caps -> Nat] /\ Kind \in [Caps -> Kinds]
  /\ Tika \in BOOLEAN
  /\ MaxVersion \in Nat \ {0} /\ MaxReplace \in Nat
  /\ Content \in [Objs -> [Versions -> Seq(Caps)]]
  /\ Shape \in [Objs -> [Versions -> {"whole", "split", "plain", "file"}]]
  /\ \A o \in Objs, v \in Versions :
       /\ (Coll[o] # "warc") <=> (Shape[o][v] = "file")
       /\ Shape[o][v] = "file" => Len(Content[o][v]) = 1
  /\ Long \subseteq Objs /\ Indexed \subseteq Caps \X Objs \X Nat
  /\ \A r \in Indexed :  \* the rows of an earlier run name their captures
       IF r[3] = 0 THEN Shape[r[2]][1] \in {"whole", "split"}
       ELSE r[3] \in 1..Len(Content[r[2]][1]) /\ Content[r[2]][1][r[3]] = r[1]
  /\ \A c, d \in Caps : Digest[c] = Digest[d] => Kind[c] = Kind[d]

Slots == {<<Url[c], Stamp[c]>> : c \in Caps}
Slot(c) == <<Url[c], Stamp[c]>>

(* at: the record's number, 0 when the row has no c_offset.  version: of   *)
(* the object the row was made from, which the code does not keep.         *)
Row == [cap: Caps, obj: Objs, at: Nat, version: Versions]
NoRow == [cap |-> "none"]

VARIABLES
  bucket,  \* bucket[o]: version, shape and captures of the object
  cdx,     \* cdx[s]: the row with that SURT and timestamp
  docs,    \* committed documents of the fulltext index
  seen,    \*   as the server's reader has loaded them
  cache,   \* cache[d]: OCR text cache
  ix,      \* the indexer: what it has read and not written yet
  req,     \* the request being served
  pc, row, got, answer

outside == <<bucket, cdx, docs, cache, ix>>
request == <<req, pc, row, got, answer>>
vars == <<outside, seen, request>>

Version(o, v) == [version |-> v, shape |-> Shape[o][v], caps |-> Content[o][v]]
Idle == [obj |-> "none"]
NoAnswer == [status |-> 0]
NoReq == [to |-> "none"]

Init ==
  /\ bucket = [o \in Objs |-> Version(o, 1)]
  /\ cdx = [s \in Slots |->
       IF \E r \in Indexed : Slot(r[1]) = s
         THEN LET r == CHOOSE x \in Indexed : Slot(x[1]) = s
              IN  [cap |-> r[1], obj |-> r[2], at |-> r[3], version |-> 1]
         ELSE NoRow]
  /\ docs = {} /\ seen = {}
  /\ cache = [d \in {Digest[c] : c \in Caps} |-> "none"]
  /\ ix = Idle
  /\ req = NoReq /\ pc = "idle" /\ row = NoRow /\ got = "none" /\ answer = NoAnswer

-----------------------------------------------------------------------------
(* The indexer, an object at a time: GET, parse, one transaction of rows,  *)
(* then the documents and their commit.                                    *)

Serving == UNCHANGED <<seen, request>>

(* Bug: all records of a member are taken. *)
RecordsOfMember(o) ==
  LET caps == bucket[o].caps
  IN  {<<caps[k], IF bucket[o].shape = "whole" THEN 1 ELSE k>> : k \in 1..Len(caps)}

(* Of a gzip member only the first record is taken.                        *)
Records(o) ==
  LET caps == bucket[o].caps
  IN  {<<caps[k], k>> : k \in {n \in 1..Len(caps) : bucket[o].shape = "whole" => n = 1}}

ReadObject(o) ==
  /\ ix = Idle /\ Coll[o] \in Configured
  /\ ix' = [obj |-> o, version |-> bucket[o].version, records |-> Records(o), stage |-> "rows"]
  /\ UNCHANGED <<bucket, cdx, docs, cache>> /\ Serving

(* The row of a slot that is taken gives way to the last that wants it.    *)
upsert_batch ==
  /\ ix # Idle /\ ix.stage = "rows"
  /\ cdx' = [s \in Slots |->
       LET mine == {r \in ix.records : Slot(r[1]) = s}
           last == CHOOSE r \in mine : \A x \in mine : x[2] <= r[2]
       IN  IF mine = {} THEN cdx[s]
           ELSE [cap |-> last[1], obj |-> ix.obj, at |-> last[2], version |-> ix.version]]
  /\ ix' = [ix EXCEPT !.stage = "docs"]
  /\ UNCHANGED <<bucket, docs, cache>> /\ Serving

(* build_index_doc has text for these, PDFs from the cache or from Tika.   *)
Indexable(c) ==
  \/ Kind[c] \in {"html", "text"}
  \/ Kind[c] = "pdf" /\ (cache[Digest[c]] = "text" \/ Coll[ix.obj] # "warc")

(* Bug: the documents are committed before the rows. *)
CommitFirst ==
  /\ ix # Idle
  /\ docs' = docs \cup {r[1] : r \in {x \in ix.records : Indexable(x[1])}}
  /\ ix' = IF ix.stage = "rows" THEN ix ELSE Idle
  /\ UNCHANGED <<bucket, cdx, cache>> /\ Serving

commit ==
  /\ ix # Idle /\ ix.stage = "docs"
  /\ docs' = docs \cup {r[1] : r \in {x \in ix.records : Indexable(x[1])}}
  /\ ix' = Idle
  /\ UNCHANGED <<bucket, cdx, cache>> /\ Serving

IndexerDies ==
  /\ ix # Idle /\ ix' = Idle
  /\ UNCHANGED <<bucket, cdx, docs, cache>> /\ Serving

-----------------------------------------------------------------------------
(* The others.                                                             *)

(* Bug: the records come out in another order. *)
RecompressReordered(o) ==
  /\ bucket[o].shape = "whole"
  /\ bucket' = [bucket EXCEPT ![o].shape = "split", ![o].caps = Tail(@) \o <<Head(@)>>]
  /\ UNCHANGED <<cdx, docs, cache, ix>> /\ Serving

(* recompress: the PUT of an object with a member per record.              *)
Recompress(o) ==
  /\ bucket[o].shape = "whole"
  /\ bucket' = [bucket EXCEPT ![o].shape = "split"]
  /\ UNCHANGED <<cdx, docs, cache, ix>> /\ Serving

(* A crawler, or whoever fills a collection's bucket, writes anew.         *)
Replace(o) ==
  /\ bucket[o].version < MaxVersion
  /\ Cardinality({x \in Objs : bucket[x].version > 1}) < MaxReplace
  /\ bucket' = [bucket EXCEPT ![o] = Version(o, @.version + 1)]
  /\ UNCHANGED <<cdx, docs, cache, ix>> /\ Serving

(* The OCR worker: text, or the note that there is none.                   *)
OcrPut(c) ==
  /\ Kind[c] \in {"pdf", "cut", "blank", "large"} /\ cache[Digest[c]] = "none"
  /\ \E o \in Objs : Coll[o] = "warc" /\ cdx[Slot(c)] # NoRow
                       /\ cdx[Slot(c)].cap = c /\ cdx[Slot(c)].obj = o
  /\ cache' = [cache EXCEPT ![Digest[c]] = IF Kind[c] = "pdf" THEN "text" ELSE "empty"]
  /\ UNCHANGED <<bucket, cdx, docs, ix>> /\ Serving

-----------------------------------------------------------------------------
(* SearchReader follows the commits, a moment later.                       *)
Reload ==
  /\ seen # docs /\ seen' = docs
  /\ UNCHANGED <<outside, request>>

(* Requests.  A search shows hits, and the client follows one.             *)

Ask(r) ==
  /\ pc \in {"idle", "answered"}
  /\ req' = r /\ pc' = "lookup" /\ row' = NoRow /\ got' = "none" /\ answer' = NoAnswer
  /\ UNCHANGED <<outside, seen>>

AskFor(u, t) == \E to \in {"replay", "text"} : Ask([to |-> to, url |-> u, stamp |-> t, hit |-> FALSE])

search == \E c \in seen : Ask([to |-> "replay", url |-> Url[c], stamp |-> Stamp[c], hit |-> TRUE])

Answer(status, d) == answer' = [status |-> status, digest |-> d] /\ pc' = "answered"
Refuse(status) == Answer(status, "none")

(* CdxStore::closest: by the difference of the digits, the earlier of two  *)
(* at the same distance.                                                   *)
RowsOf(u) == {cdx[s] : s \in {x \in Slots : x[1] = u /\ cdx[x] # NoRow}}
Distance(r, t) == IF Stamp[r.cap] > t THEN Stamp[r.cap] - t ELSE t - Stamp[r.cap]

closest(u, t) ==
  LET before == {r \in RowsOf(u) : Stamp[r.cap] <= t}
      after == RowsOf(u) \ before
      b == CHOOSE r \in before : \A x \in before : Stamp[x.cap] <= Stamp[r.cap]
      a == CHOOSE r \in after : \A x \in after : Stamp[x.cap] >= Stamp[r.cap]
  IN  CASE before = {} /\ after = {} -> NoRow
        [] after = {} -> b
        [] before = {} -> a
        [] OTHER -> IF Distance(b, t) <= Distance(a, t) THEN b ELSE a

(* A stamp of -1 stands for none, -2 for one that is not a date.           *)
Newest(u) == closest(u, CHOOSE t \in Stamps : \A x \in Stamps : x <= t)

Invalid == req.stamp = -2 \/ (req.to = "replay" /\ req.stamp = -1)

lookup_capture ==
  /\ pc = "lookup" /\ ~Invalid
  /\ row' = IF req.stamp = -1 THEN Newest(req.url) ELSE closest(req.url, req.stamp)
  /\ IF row' = NoRow THEN Refuse(404) ELSE pc' = "fetch" /\ UNCHANGED answer
  /\ UNCHANGED <<outside, seen, req, got>>

LookupFails ==
  /\ pc = "lookup" /\ Invalid
  /\ Refuse(IF req.to = "replay" THEN 500 ELSE 400)
  /\ UNCHANGED <<outside, seen, req, row, got>>

(* What is at the place a row names, now.  Behind the first record of      *)
(* another version there may be any record, or the middle of one.          *)
Moved(r) == r.at > 1 /\ bucket[r.obj].version # r.version /\ bucket[r.obj].shape \in {"split", "plain"}

At(r) ==
  LET caps == bucket[r.obj].caps
  IN  IF caps = <<>> THEN {}
      ELSE CASE bucket[r.obj].shape = "file" -> {caps[1]}
             [] bucket[r.obj].shape = "whole" -> IF r.at = 1 /\ r.obj \notin Long THEN {caps[1]} ELSE {}
             [] Moved(r) -> {caps[k] : k \in 1..Len(caps)}
             [] OTHER -> {caps[r.at]}

fetch_payload ==
  /\ pc = "fetch" /\ Coll[row.obj] \in Configured /\ row.at # 0
  /\ \E c \in At(row) : got' = c
  /\ pc' = "extract"
  /\ UNCHANGED <<outside, seen, req, row, answer>>

FetchFails ==
  /\ pc = "fetch"
  /\ \/ Coll[row.obj] \notin Configured /\ Refuse(500)
     \/ Coll[row.obj] \in Configured /\ row.at = 0 /\ Refuse(503)
     \/ /\ Coll[row.obj] \in Configured /\ row.at # 0
        /\ At(row) = {} \/ Moved(row)
        /\ Refuse(502)
     \/ Coll[row.obj] \in Configured /\ row.at # 0 /\ Refuse(502)
  /\ UNCHANGED <<outside, seen, req, row, got>>

(* serve_warc_response: a body that cannot be decoded goes out as it is.   *)
serve_warc_response ==
  /\ pc = "extract" /\ req.to = "replay"
  /\ Answer(200, Digest[got])
  /\ UNCHANGED <<outside, seen, req, row, got>>

(* extract_capture_text: for a PDF of the archive the cache comes first,   *)
(* under the row's digest.                                                 *)
Pdf(c) == Kind[c] \in {"pdf", "cut", "blank", "large"}
Cached == Coll[row.obj] = "warc" /\ Pdf(got) /\ cache[Digest[row.cap]] # "none"

PlainText ==
  /\ pc = "extract" /\ req.to = "text" /\ ~Pdf(got)
  /\ IF Kind[got] \in {"html", "text"} THEN Answer(200, Digest[got]) ELSE Refuse(415)
  /\ UNCHANGED <<outside, seen, req, row, got>>

CachedText ==
  /\ pc = "extract" /\ req.to = "text" /\ Cached
  /\ IF cache[Digest[row.cap]] = "text" THEN Answer(200, Digest[row.cap]) ELSE Refuse(422)
  /\ UNCHANGED <<outside, seen, req, row, got>>

(* A collection's extractor differs in its settings only, and there is one *)
(* if there is one at all.                                                 *)
ExtractText ==
  /\ pc = "extract" /\ req.to = "text" /\ Pdf(got) /\ ~Cached
  /\ \/ CASE ~Tika -> Refuse(501)
          [] Tika /\ Kind[got] \in {"pdf", "cut"} -> Answer(200, Digest[got])
          [] Tika /\ Kind[got] = "blank" -> Refuse(422)
          [] Tika /\ Kind[got] = "large" -> Refuse(413)
     \/ Tika /\ Refuse(502)
  /\ UNCHANGED <<outside, seen, req, row, got>>

-----------------------------------------------------------------------------
Environment ==
  \/ \E o \in Objs : ReadObject(o) \/ Recompress(o) \/ Replace(o)
  \/ upsert_batch \/ commit \/ IndexerDies
  \/ \E c \in Caps : OcrPut(c)

Handler ==
  \/ lookup_capture \/ LookupFails
  \/ fetch_payload \/ FetchFails
  \/ serve_warc_response \/ PlainText \/ CachedText \/ ExtractText

Client == search \/ \E u \in Urls, t \in Stamps \cup {-1, -2} : AskFor(u, t)

Next == Environment \/ Reload \/ Client \/ Handler

Spec == Init /\ [][Next]_vars
-----------------------------------------------------------------------------
TypeOK ==
  /\ \A s \in Slots : cdx[s] = NoRow \/ (cdx[s] \in Row /\ Slot(cdx[s].cap) = s)
  /\ seen \subseteq docs /\ docs \subseteq Caps
  /\ pc \in {"idle", "lookup", "fetch", "extract", "answered"}
  /\ pc = "extract" => got \in Caps

(* A client that gets a capture gets that capture: what replay and /text   *)
(* answer is the payload the row found by lookup_capture was made for -    *)
(* however often the object was rewritten by recompress between the index  *)
(* run, the lookup and the fetch - unless other contents were stored       *)
(* under its key.  Nothing compares the fetched record with the row.       *)
AnswerIsOwn ==
  pc = "answered" /\ answer.status = 200 =>
    \/ answer.digest = Digest[row.cap]
    \/ bucket[row.obj].version # row.version

(* A search hit leads somewhere: its capture is in the CDX store, because  *)
(* the rows of an object are written before its documents are committed,   *)
(* and the link's timestamp finds its own row.                             *)
HitLeads ==
  /\ TypeOK
  /\ req # NoReq /\ req.hit /\ pc \notin {"idle", "lookup"} =>
       row # NoRow /\ Slot(row.cap) = <<req.url, req.stamp>>

(* recompress breaks no row: every row that named its own record still     *)
(* does, although every offset behind the first record has changed.        *)
Readable == {s \in Slots : cdx[s] # NoRow /\ cdx[s].at # 0 /\ At(cdx[s]) = {cdx[s].cap}}
RecompressKeeps ==
  [][(\E o \in Objs : bucket'[o].version = bucket[o].version /\ bucket'[o] # bucket[o])
       => Readable \subseteq Readable']_vars

=============================================================================
