----------------------------- MODULE UrlExport ------------------------------
(***************************************************************************)
(* One skip list, three programs, and the list of PDF URLs that comes out. *)
(*                                                                         *)
(* An operator edits the skip list.  The server holds the list it loaded   *)
(* when it started and serves it as the crawler's exclusion file           *)
(* (skiplist.rs, server.rs); the crawler captures what its copy allows.    *)
(* The index run and `tywb export-pdf-urls` load the list anew (main.rs,   *)
(* config/src/lib.rs), run side by side, and both upload a list of the     *)
(* PDFs they found or found links to (pdf_url_export.rs).                  *)
(*                                                                         *)
(* What an index run does to its stores is Ingest's subject, how links are *)
(* read out of a page StoredText's; here a run takes one capture after     *)
(* another and a page has the links it has.                                *)
(***************************************************************************)
EXTENDS Integers, FiniteSets, Sequences, SequencesExt

CONSTANTS
  Urls,          \* the URLs of the web
  Host,          \* Host[u]: the labels of its host, <<>> for a urn: or dns:
  Html,          \* the URLs that are HTML pages
  Pdfs,          \* the URLs that are PDFs
  LinksOn,       \* LinksOn[u]: the PDF URLs a page, or a PDF's XHTML, links to
  Retained,      \* the PDFs whose XHTML the OCR cache retained
  Captured0,     \* what was captured before the crawler first asked
  Patterns,      \* URL patterns
  Covers,        \* Covers[p]: the URLs p matches
  Invalid,       \* the patterns that do not compile
  MatchesEmpty,  \* the patterns that match the empty string
  Lists,         \* the skip lists the operator may write
  MaxEdits, MaxClock, MaxFaults,
  None

ASSUME ExportAssumption ==
  /\ Host \in [Urls -> Seq(STRING)] /\ Covers \in [Patterns -> SUBSET Urls]
  /\ LinksOn \in [Urls -> SUBSET Urls]
  /\ Html \cup Pdfs \subseteq Urls /\ Retained \subseteq Pdfs
  /\ Captured0 \subseteq Html \cup Pdfs
  /\ {MaxEdits, MaxFaults} \subseteq Nat /\ MaxClock \in Nat \ {0}

VARIABLES
  config,        \* config.yaml and the two files it names
  server,        \* the skip list the server holds, None while it is down
  zeno,          \* the crawler's exclusion file
  bucket,        \* what has been captured
  cdx,           \* what has a row
  seen,          \* what the list state vouches for
  run,           \* the index run
  exp,           \* the export-pdf-urls run
  exports,       \* exports[t]: the URLs in the object written in second t
  clock,
  edits, faults

vars == <<config, server, zeno, bucket, cdx, seen, run, exp, exports, clock,
          edits, faults>>

-----------------------------------------------------------------------------
(* The skip list as a program holds it *)

NoList == [domains |-> {}, requested |-> {}, source |-> {}, active |-> {}]

(* A pattern is in force if it compiles and does not match every URL. *)
compile_trusting(requested) == requested \ Invalid
compile_url_patterns(requested) == requested \ (Invalid \cup MatchesEmpty)

(* Config::load, load_blacklist_file, load_url_patterns_file: a half whose *)
(* file cannot be read is gone, and the program goes on without it.        *)
load(c, domains, patterns) ==
  LET requested == c.inline \cup (IF patterns THEN c.patterns ELSE {})
  IN [domains |-> c.domains \cup (IF domains THEN c.domainFile ELSE {}),
      requested |-> requested,
      source |-> IF patterns THEN c.patterns ELSE {},
      active |-> compile_url_patterns(requested)]

(* The host is the domain of an entry or below it; "*.b" is a name like    *)
(* any other.                                                              *)
Under(labels, host) == IsSuffix(labels, host)
is_host_blacklisted(l, h) == \E e \in l.domains : ~e.star /\ Under(e.labels, h)

is_url_blacklisted(l, u) ==
  \/ Host[u] # <<>> /\ is_host_blacklisted(l, Host[u])
  \/ \E p \in l.active : u \in Covers[p]

(* The exclusion file: the patterns in force, those from the file first,   *)
(* then the others; and each domain with its wildcard taken off.           *)
to_zeno_requested(l) ==
  [patterns |-> l.requested, hosts |-> {e.labels : e \in l.domains}, of |-> l]
to_zeno_exclusions(l) ==
  LET emitted == l.source \cap l.active
  IN [patterns |-> emitted \cup (l.active \ emitted),
      hosts |-> {e.labels : e \in l.domains}, of |-> l]

rejected_patterns(l) == l.requested \ l.active

(* What the crawler makes of it (external): domain_to_regex is anchored at *)
(* "http(s)://", a pattern is searched for anywhere.                       *)
Excluded(z, u) ==
  \/ Host[u] # <<>> /\ \E h \in z.hosts : Under(h, Host[u])
  \/ \E p \in z.patterns : p \notin Invalid /\ u \in Covers[p]

-----------------------------------------------------------------------------
(* pdf_url_export.rs: the list *)

Http(u) == Host[u] # <<>>

merge(captured, linked, l) ==
  {u \in captured \cup linked : Http(u) /\ ~is_url_blacklisted(l, u)}

(* upload: an empty list leaves no object, a failed PUT is only logged, and *)
(* the key is the second of the upload.                                    *)
upload_once(urls) ==
  /\ exports' = IF exports[clock] # {} THEN exports ELSE [exports EXCEPT ![clock] = urls]
  /\ UNCHANGED faults
upload(urls) ==
  \/ urls = {} /\ UNCHANGED <<exports, faults>>
  \/ urls # {} /\ exports' = [exports EXCEPT ![clock] = urls]
       /\ UNCHANGED faults
  \/ urls # {} /\ faults < MaxFaults /\ faults' = faults + 1 /\ UNCHANGED exports

-----------------------------------------------------------------------------
(* The initial state *)

NoRun == [pc |-> "idle", list |-> NoList, todo |-> {}, pdf_urls |-> {}, pdf_links |-> {}]
NoExport == [pc |-> "idle", list |-> NoList, captured |-> {}, todo |-> {}, linked |-> {},
             base |-> {}, whole |-> TRUE]

Init ==
  /\ config \in Lists
  /\ server = None
  /\ zeno = to_zeno_exclusions(NoList)
  /\ bucket = Captured0
  /\ cdx = {} /\ seen = {}
  /\ run = NoRun /\ exp = NoExport
  /\ exports = [t \in 1..MaxClock |-> {}]
  /\ clock = 1 /\ edits = 0 /\ faults = 0

-----------------------------------------------------------------------------
(* The operator, the server and the crawler *)

Edit(c) ==
  /\ edits < MaxEdits
  /\ config # c
  /\ config' = c /\ edits' = edits + 1
  /\ UNCHANGED <<server, zeno, bucket, cdx, seen, run, exp, exports, clock, faults>>

(* A program starts and loads the list; one of the files may be unreadable. *)
Loads(l) ==
  \/ l = load(config, TRUE, TRUE) /\ UNCHANGED faults
  \/ /\ faults < MaxFaults /\ faults' = faults + 1
     /\ l \in {load(config, FALSE, TRUE), load(config, TRUE, FALSE)}

Loadable == {load(config, d, p) : d \in BOOLEAN, p \in BOOLEAN}

ServerStart ==
  /\ \E l \in Loadable : l # server /\ Loads(l) /\ server' = l
  /\ UNCHANGED <<config, zeno, bucket, cdx, seen, run, exp, exports, clock, edits>>

skiplist_zeno_handler ==
  /\ server # None
  /\ zeno' = to_zeno_exclusions(server)
  /\ zeno' # zeno
  /\ UNCHANGED <<config, server, bucket, cdx, seen, run, exp, exports, clock,
                 edits, faults>>

Crawl(u) ==
  /\ u \notin bucket /\ u \in Html \cup Pdfs
  /\ ~Excluded(zeno, u)
  /\ bucket' = bucket \cup {u}
  /\ UNCHANGED <<config, server, zeno, cdx, seen, run, exp, exports, clock, edits, faults>>

Tick ==
  /\ clock < MaxClock
  /\ clock' = clock + 1
  /\ UNCHANGED <<config, server, zeno, bucket, cdx, seen, run, exp, exports,
                 edits, faults>>

-----------------------------------------------------------------------------
(* The index run *)

(* Load, purge what the list covers, and list what is new. *)
IndexStart ==
  /\ run.pc = "idle"
  /\ \E l \in Loadable :
       /\ Loads(l)
       /\ cdx' = {u \in cdx : ~is_url_blacklisted(l, u)}
       /\ run' = [NoRun EXCEPT !.pc = "loop", !.list = l, !.todo = bucket \ seen]
  /\ UNCHANGED <<config, server, zeno, bucket, seen, exp, exports, clock, edits>>

Kept(u) == ~is_url_blacklisted(run.list, u)

(* One capture: a row, its URL if it is a PDF, its links if it is a page   *)
(* or a PDF with retained XHTML, unless the list covers it.                *)
IndexObject(u) ==
  /\ run.pc = "loop" /\ u \in run.todo
  /\ seen' = seen \cup {u}
  /\ cdx' = IF Kept(u) THEN cdx \cup {u} ELSE cdx
  /\ run' = [run EXCEPT
       !.todo = @ \ {u},
       !.pdf_urls = IF Kept(u) /\ u \in Pdfs /\ Http(u) THEN @ \cup {u} ELSE @,
       !.pdf_links = IF Kept(u) /\ u \in Html \cup Retained THEN @ \cup LinksOn[u] ELSE @]
  /\ UNCHANGED <<config, server, zeno, bucket, exp, exports, clock, edits, faults>>

IndexExport ==
  /\ run.pc = "loop" /\ run.todo = {}
  /\ upload(merge(run.pdf_urls, run.pdf_links, run.list))
  /\ run' = NoRun
  /\ UNCHANGED <<config, server, zeno, bucket, cdx, seen, exp, clock, edits>>

(* Killed, or ended early by an error: what was seen stays seen. *)
IndexDies ==
  /\ run.pc # "idle" /\ faults < MaxFaults
  /\ faults' = faults + 1
  /\ run' = NoRun
  /\ UNCHANGED <<config, server, zeno, bucket, cdx, seen, exp, exports, clock, edits>>

-----------------------------------------------------------------------------
(* export-pdf-urls *)

pdf_urls == cdx \cap Pdfs
html_records == cdx \cap Html

ExportStart ==
  /\ exp.pc = "idle"
  /\ \E l \in Loadable :
       /\ Loads(l)
       /\ exp' = [NoExport EXCEPT !.pc = "html", !.list = l, !.captured = pdf_urls, !.base = cdx]
  /\ UNCHANGED <<config, server, zeno, bucket, cdx, seen, run, exports, clock, edits>>

(* The records to scan; --limit leaves some out. *)
ScanStart ==
  /\ exp.pc = "html"
  /\ \/ exp' = [exp EXCEPT !.pc = "scan", !.todo = html_records] /\ UNCHANGED faults
     \/ /\ faults < MaxFaults /\ faults' = faults + 1
        /\ \E u \in html_records :
             exp' = [exp EXCEPT !.pc = "scan", !.todo = html_records \ {u}, !.whole = FALSE]
  /\ UNCHANGED <<config, server, zeno, bucket, cdx, seen, run, exports, clock, edits>>

(* One of the pages in flight arrives, in any order, or cannot be fetched. *)
scan_link(u) ==
  /\ exp.pc = "scan" /\ u \in exp.todo
  /\ exp' = [exp EXCEPT !.todo = @ \ {u}, !.linked = @ \cup LinksOn[u]]
  /\ UNCHANGED <<config, server, zeno, bucket, cdx, seen, run, exports, clock,
                 edits, faults>>

FetchFails(u) ==
  /\ exp.pc = "scan" /\ u \in exp.todo /\ faults < MaxFaults
  /\ faults' = faults + 1
  /\ exp' = [exp EXCEPT !.todo = @ \ {u}, !.whole = FALSE]
  /\ UNCHANGED <<config, server, zeno, bucket, cdx, seen, run, exports, clock, edits>>

cache_unopened ==
  /\ exp.pc = "scan" /\ exp.todo = {}
  /\ exp' = [exp EXCEPT !.pc = "upload"]
  /\ UNCHANGED <<config, server, zeno, bucket, cdx, seen, run, exports, clock, edits, faults>>

(* The links of the PDFs whose XHTML the OCR cache kept. *)
cached_pdf_links ==
  /\ exp.pc = "scan" /\ exp.todo = {}
  /\ exp' = [exp EXCEPT !.pc = "upload",
       !.linked = @ \cup UNION {LinksOn[u] : u \in pdf_urls \cap Retained}]
  /\ UNCHANGED <<config, server, zeno, bucket, cdx, seen, run, exports, clock,
                 edits, faults>>

ExportUpload ==
  /\ exp.pc = "upload"
  /\ upload(merge(exp.captured, exp.linked, exp.list))
  /\ exp' = NoExport
  /\ UNCHANGED <<config, server, zeno, bucket, cdx, seen, run, clock, edits>>

(* --dry-run, or killed. *)
ExportEnds ==
  /\ exp.pc # "idle" /\ faults < MaxFaults
  /\ faults' = faults + 1
  /\ exp' = NoExport
  /\ UNCHANGED <<config, server, zeno, bucket, cdx, seen, run, exports, clock, edits>>

-----------------------------------------------------------------------------

IndexStep == (\E u \in Urls : IndexObject(u)) \/ IndexExport
ExportStep ==
  \/ ScanStart
  \/ \E u \in Urls : scan_link(u)
  \/ cached_pdf_links
  \/ ExportUpload

Next ==
  \/ \E c \in Lists : Edit(c)
  \/ ServerStart
  \/ skiplist_zeno_handler
  \/ \E u \in Urls : Crawl(u)
  \/ Tick
  \/ IndexStart
  \/ IndexStep
  \/ IndexDies
  \/ ExportStart
  \/ ExportStep
  \/ \E u \in Urls : FetchFails(u)
  \/ ExportEnds

Spec == Init /\ [][Next]_vars

(* export-pdf-urls is started from a timer, and a started run goes on until *)
(* it ends or dies.  Nothing is asked of the index run.                    *)
FairSpec == Spec /\ WF_vars(ExportStart \/ ExportStep)

-----------------------------------------------------------------------------
(* Properties *)

Held == {None} \cup UNION {{load(c, d, p) : d \in BOOLEAN, p \in BOOLEAN} : c \in Lists}

TypeOK ==
  /\ config \in Lists
  /\ server \in Held
  /\ zeno.of \in Held \cup {NoList}
  /\ bucket \subseteq Html \cup Pdfs
  /\ seen \subseteq bucket /\ cdx \subseteq seen
  /\ run.pc \in {"idle", "loop"} /\ run.todo \cap seen = {}
  /\ run.pdf_urls \subseteq seen
  /\ exp.pc \in {"idle", "html", "scan", "upload"}
  /\ \A t \in 1..MaxClock : exports[t] # {} => t <= clock
  /\ clock \in 1..MaxClock /\ edits \in 0..MaxEdits /\ faults \in 0..MaxFaults

(* "Patterns that failed to compile are absent from the export as well:    *)
(* inert in tywb, inert in the crawler" and "tywb matches a domain and     *)
(* every subdomain of it. The regex says the same" (skiplist.rs): for the  *)
(* list it was rendered from, and whichever of its files could be read,    *)
(* the crawler's file excludes exactly the URLs is_url_blacklisted covers. *)
(* "A rule that silently does nothing is worse than no rule, so the page   *)
(* names it" (README, /ui/skiplist): a configured pattern that lets a URL  *)
(* it was written for through is listed as rejected.                       *)
SameAnswer ==
  /\ TypeOK
  /\ \A u \in Urls : Excluded(zeno, u) <=> is_url_blacklisted(zeno.of, u)
  /\ server # None =>
       \A p \in server.requested : \A u \in Covers[p] :
         is_url_blacklisted(server, u) \/ p \in rejected_patterns(server)

(* "Would purge the whole archive on the next `tywb index`"                *)
(* (compile_url_patterns): a row only goes if a domain or a well-formed    *)
(* pattern that is in the configuration covers its URL.                    *)
Meant(c, u) ==
  \/ \E e \in c.domains \cup c.domainFile : ~e.star /\ Under(e.labels, Host[u])
  \/ \E p \in (c.inline \cup c.patterns) \ (Invalid \cup MatchesEmpty) : u \in Covers[p]
TypoPurgesNothing == [][\A u \in cdx \ cdx' : Meant(config, u)]_vars

(* "A wanted page linking into a blacklisted site must not put that site   *)
(* on the list" (merge): no object, from either producer, names a URL the  *)
(* producer's skip list covers or that is no http URL.  "This exports      *)
(* every PDF the archive can point at" (scan_links): an export-pdf-urls    *)
(* run without --limit whose fetches all succeed names every PDF that was  *)
(* indexed when it started and still is when it ends, and every PDF a page *)
(* or a retained PDF of that kind links to, though an index run purges and *)
(* adds rows all the while.                                                *)
Uploaded == exports'[clock]
Pointed(C) == (C \cap Pdfs) \cup UNION {LinksOn[u] : u \in C \cap (Html \cup Retained)}
ExportComplete ==
  [][ /\ IndexExport /\ exports' # exports =>
            \A u \in Uploaded : Http(u) /\ ~is_url_blacklisted(run.list, u)
      /\ ExportUpload /\ exports' # exports =>
            /\ \A u \in Uploaded : Http(u) /\ ~is_url_blacklisted(exp.list, u)
            /\ exp.whole => \A u \in Pointed(exp.base \cap cdx) :
                 u \in Uploaded \/ ~Http(u) \/ is_url_blacklisted(exp.list, u) ]_vars

(* What the consumer waits for (upload is best effort): in the end every   *)
(* PDF with a row, and every PDF a page with a row links to, is named by   *)
(* an object that is there to stay, unless the list covers it.  An index   *)
(* run that dies takes its own list with it; the next full export makes up *)
(* for that.                                                               *)
Due(v) ==
  {u \in ({v} \cap Pdfs) \cup (IF v \in Html THEN LinksOn[v] ELSE {}) :
     Http(u) /\ ~is_url_blacklisted(load(config, TRUE, TRUE), u)}
EventuallyExported ==
  <>[](\A v \in cdx : Due(v) \subseteq UNION {exports[t] : t \in 1..MaxClock})
=============================================================================
