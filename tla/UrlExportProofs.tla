--------------------------- MODULE UrlExportProofs ---------------------------
(***************************************************************************)
(* Proofs about UrlExport, for every web, every set of skip lists the      *)
(* operator may write, and every number of edits, seconds and faults.      *)
(***************************************************************************)
EXTENDS UrlExport, TLAPS

(* What SameAnswer needs of the lists: no domain has an asterisk, which    *)
(* to_zeno_exclusions takes off and is_host_blacklisted does not.          *)
NoAsterisk == \A c \in Lists : \A e \in c.domains \cup c.domainFile : ~e.star

(* A list as load makes it. *)
Listed(l) ==
  /\ l.active = l.requested \ (Invalid \cup MatchesEmpty)
  /\ NoAsterisk => \A e \in l.domains : ~e.star
Lent == server # None => Listed(server)
Rendered == Listed(zeno.of) /\ zeno = to_zeno_exclusions(zeno.of)

(* What goes on between the programs: the index run has seen all that has  *)
(* a row, and takes nothing up that it has seen.                           *)
Runs == [pc: {"idle", "loop"}, list: Held \cup {NoList},
         todo: SUBSET Urls, pdf_urls: SUBSET Urls, pdf_links: SUBSET Urls]
Exports == [pc: {"idle", "html", "scan", "upload"}, list: Held \cup {NoList},
            captured: SUBSET Urls, todo: SUBSET Urls, linked: SUBSET Urls, base: SUBSET Urls,
            whole: BOOLEAN]
TInv ==
  /\ TypeOK
  /\ DOMAIN exports = 1..MaxClock
  /\ run \in Runs /\ exp \in Exports
  /\ run.todo \subseteq bucket

(* The full export: what it has, it has from rows that were there when it  *)
(* started, and what of those is still there it has scanned or will.       *)
Scanned(v) == LinksOn[v] \subseteq exp.linked
Gathered ==
  /\ exp.pc # "idle" => exp.base \subseteq seen /\ exp.captured = exp.base \cap Pdfs
  /\ exp.pc \in {"scan", "upload"} /\ exp.whole =>
       \A v \in exp.base \cap cdx \cap Html : v \in exp.todo \/ Scanned(v)
  /\ exp.pc = "upload" /\ exp.whole =>
       \A v \in exp.base \cap cdx \cap (Html \cup Retained) : Scanned(v)

IInv == TInv /\ Lent /\ Rendered /\ Gathered

-----------------------------------------------------------------------------
(* What a program loads is a list. *)
LEMMA LoadedIsListed ==
  ASSUME config \in Lists, NEW l \in Loadable
  PROVE  Listed(l) /\ l \in Held
<1>1. PICK d \in BOOLEAN, p \in BOOLEAN : l = load(config, d, p)
  BY DEF Loadable
<1>2. Listed(l)
  BY <1>1 DEF load, Listed, NoAsterisk, compile_url_patterns
<1>3. l \in Held
  BY <1>1 DEF Held
<1>4. QED
  BY <1>2, <1>3

(* An upload writes one list under the second it ends in, or nothing. *)
LEMMA Upload ==
  ASSUME TInv, NEW urls, upload(urls)
  PROVE  /\ exports' = exports \/ exports' = [exports EXCEPT ![clock] = urls]
         /\ exports' # exports => exports'[clock] = urls
         /\ DOMAIN exports' = 1..MaxClock
         /\ \A t \in 1..MaxClock : exports'[t] # {} => t <= clock
         /\ faults' \in 0..MaxFaults
<1>1. clock \in 1..MaxClock /\ DOMAIN exports = 1..MaxClock /\ faults \in 0..MaxFaults
      /\ \A t \in 1..MaxClock : exports[t] # {} => t <= clock
  BY DEF TInv, TypeOK
<1>2. exports' = exports \/ exports' = [exports EXCEPT ![clock] = urls]
  BY DEF upload
<1>3. faults' \in 0..MaxFaults
  <2>1. MaxFaults \in Nat
    BY ExportAssumption
  <2>2. QED
    BY <1>1, <2>1 DEF upload
<1>4. DOMAIN exports' = 1..MaxClock /\ (exports' # exports => exports'[clock] = urls)
  BY <1>1, <1>2
<1>5. ASSUME NEW t \in 1..MaxClock, exports'[t] # {}
      PROVE  t <= clock
  <2>1. CASE t = clock
    BY <1>1, <2>1
  <2>2. CASE t # clock
    BY <1>1, <1>2, <1>5, <2>2
  <2>3. QED
    BY <2>1, <2>2
<1>6. QED
  BY <1>2, <1>3, <1>4, <1>5

(* The types hold when everything starts, ... *)
LEMMA TypeInit == Init => TInv
<1> SUFFICES ASSUME Init PROVE TInv
  OBVIOUS
<1>1. 1 \in 1..MaxClock /\ 0 \in 0..MaxEdits /\ 0 \in 0..MaxFaults
  BY ExportAssumption
<1>2. server \in Held /\ zeno.of \in Held \cup {NoList}
  BY DEF Init, Held, to_zeno_exclusions
<1>3. DOMAIN exports = 1..MaxClock /\ \A t \in 1..MaxClock : exports[t] = {}
  BY DEF Init
<1>4. NoRun \in Runs /\ NoExport \in Exports
  BY DEF NoRun, NoExport, Runs, Exports
<1>5. QED
  BY <1>1, <1>2, <1>3, <1>4, ExportAssumption DEF Init, TInv, TypeOK, NoRun, NoExport

(* ... and every step keeps them. *)
LEMMA TypeStep == TInv /\ Lent /\ Rendered /\ [Next]_vars => TInv'
<1> SUFFICES ASSUME TInv, Lent, Rendered, [Next]_vars PROVE TInv'
  OBVIOUS
<1> USE DEF TInv, TypeOK
<1>f. MaxFaults \in Nat /\ MaxEdits \in Nat /\ MaxClock \in Nat
  BY ExportAssumption
<1>l. \A l : Loads(l) => faults' \in 0..MaxFaults
  <2>1. faults' = faults \/ (faults < MaxFaults /\ faults' = faults + 1) => faults' \in 0..MaxFaults
    BY <1>f
  <2>2. QED
    BY <2>1, Zenon DEF Loads
<1>w. Html \subseteq Urls /\ Pdfs \subseteq Urls /\ \A u \in Urls : LinksOn[u] \subseteq Urls
  BY ExportAssumption
<1>i. NoRun \in Runs /\ NoExport \in Exports
  BY DEF NoRun, NoExport, Runs, Exports
<1>1. ASSUME NEW c \in Lists, Edit(c) PROVE TInv'
  BY <1>1, <1>f DEF Edit
<1>2. CASE ServerStart
  BY <1>2, <1>l, LoadedIsListed DEF ServerStart
<1>3. CASE skiplist_zeno_handler
  <2>1. zeno' = to_zeno_exclusions(server) /\ server \in Held
    BY <1>3 DEF skiplist_zeno_handler
  <2>2. zeno'.of \in Held
    BY <2>1 DEF to_zeno_exclusions
  <2>3. QED
    BY <1>3, <2>2 DEF skiplist_zeno_handler
<1>4. ASSUME NEW u \in Urls, Crawl(u) PROVE TInv'
  BY <1>4 DEF Crawl
<1>5. CASE Tick
  BY <1>5, <1>f DEF Tick
<1>6. CASE IndexStart
  <2>1. PICK l \in Loadable :
          /\ Loads(l)
          /\ cdx' = {u \in cdx : ~is_url_blacklisted(l, u)}
          /\ run' = [NoRun EXCEPT !.pc = "loop", !.list = l, !.todo = bucket \ seen]
    BY <1>6 DEF IndexStart
  <2>2. cdx' \subseteq cdx /\ faults' \in 0..MaxFaults /\ l \in Held
    BY <2>1, <1>l, LoadedIsListed
  <2>3. run'.pc = "loop" /\ run'.todo = bucket \ seen /\ run'.pdf_urls = {} /\ run' \in Runs
    BY <2>1, <2>2, <1>w DEF NoRun, Runs
  <2>4. QED
    BY <1>6, <2>2, <2>3 DEF IndexStart
<1>7. ASSUME NEW u \in Urls, IndexObject(u) PROVE TInv'
  <2>1. /\ run.pc = "loop" /\ u \in run.todo /\ seen' = seen \cup {u}
        /\ cdx' \subseteq cdx \cup {u}
    BY <1>7 DEF IndexObject
  <2>2. /\ run'.pc = run.pc /\ run'.todo = run.todo \ {u}
        /\ run'.pdf_urls \subseteq run.pdf_urls \cup {u} /\ run' \in Runs
    BY <1>7, <1>w DEF IndexObject, Runs
  <2>3. QED
    BY <1>7, <2>1, <2>2 DEF IndexObject
<1>8. CASE IndexExport
  <2>1. run' = NoRun /\ UNCHANGED <<config, server, zeno, bucket, cdx, seen, exp, clock, edits>>
    BY <1>8 DEF IndexExport
  <2>2. /\ DOMAIN exports' = 1..MaxClock /\ \A t \in 1..MaxClock : exports'[t] # {} => t <= clock
        /\ faults' \in 0..MaxFaults
    BY <1>8, Upload DEF IndexExport
  <2>3. QED
    BY <2>1, <2>2, <1>i DEF NoRun
<1>9. CASE IndexDies
  BY <1>9, <1>f, <1>i DEF IndexDies, NoRun
<1>10. CASE ExportStart
  <2>1. PICK l \in Loadable :
          /\ Loads(l)
          /\ exp' = [NoExport EXCEPT !.pc = "html", !.list = l, !.captured = pdf_urls, !.base = cdx]
    BY <1>10 DEF ExportStart
  <2>2. faults' \in 0..MaxFaults /\ l \in Held
    BY <2>1, <1>l, LoadedIsListed
  <2>3. exp' \in Exports
    BY <2>1, <2>2, <1>w DEF NoExport, Exports, pdf_urls
  <2>4. exp'.pc \in {"idle", "html", "scan", "upload"}
    BY <2>3 DEF Exports
  <2>5. QED
    BY <1>10, <2>2, <2>3, <2>4 DEF ExportStart
<1>11. CASE ScanStart
  <2>1. exp' \in Exports /\ faults' \in 0..MaxFaults
    <3>1. html_records \subseteq Urls
      BY <1>w DEF html_records
    <3>2. CASE exp' = [exp EXCEPT !.pc = "scan", !.todo = html_records] /\ UNCHANGED faults
      BY <3>1, <3>2 DEF Exports
    <3>3. CASE /\ faults < MaxFaults /\ faults' = faults + 1
               /\ \E u \in html_records :
                    exp' = [exp EXCEPT !.pc = "scan", !.todo = html_records \ {u}, !.whole = FALSE]
      <4>1. faults' \in 0..MaxFaults
        BY <3>3, <1>f
      <4>2. PICK u \in html_records :
              exp' = [exp EXCEPT !.pc = "scan", !.todo = html_records \ {u}, !.whole = FALSE]
        BY <3>3
      <4>3. html_records \ {u} \subseteq Urls
        BY <3>1
      <4>4. exp' \in Exports
        BY <4>2, <4>3 DEF Exports
      <4>5. QED
        BY <4>1, <4>4
    <3>4. QED
      BY <1>11, <3>2, <3>3 DEF ScanStart
  <2>2. QED
    BY <1>11, <2>1 DEF ScanStart, Exports
<1>12. ASSUME NEW u \in Urls, scan_link(u) \/ FetchFails(u) PROVE TInv'
  <2>1. exp' \in Exports
    BY <1>12, <1>w DEF scan_link, FetchFails, Exports
  <2>2. faults' \in 0..MaxFaults
    BY <1>12, <1>f DEF scan_link, FetchFails
  <2>3. QED
    BY <1>12, <2>1, <2>2 DEF scan_link, FetchFails, Exports
<1>13. CASE cached_pdf_links
  <2>1. UNION {LinksOn[u] : u \in pdf_urls \cap Retained} \subseteq Urls
    BY <1>w DEF pdf_urls
  <2>2. exp' \in Exports
    BY <1>13, <2>1 DEF cached_pdf_links, Exports
  <2>3. QED
    BY <1>13, <2>2 DEF cached_pdf_links, Exports
<1>14. CASE ExportUpload
  <2>1. exp' = NoExport /\ UNCHANGED <<config, server, zeno, bucket, cdx, seen, run, clock, edits>>
    BY <1>14 DEF ExportUpload
  <2>2. /\ DOMAIN exports' = 1..MaxClock /\ \A t \in 1..MaxClock : exports'[t] # {} => t <= clock
        /\ faults' \in 0..MaxFaults
    BY <1>14, Upload DEF ExportUpload
  <2>3. QED
    BY <2>1, <2>2, <1>i DEF NoExport
<1>15. CASE ExportEnds
  BY <1>15, <1>f, <1>i DEF ExportEnds, NoExport
<1>16. CASE UNCHANGED vars
  BY <1>16 DEF vars
<1>17. QED
  BY <1>1, <1>2, <1>3, <1>4, <1>5, <1>6, <1>7, <1>8, <1>9, <1>10, <1>11, <1>12, <1>13, <1>14,
     <1>15, <1>16 DEF Next, IndexStep, ExportStep

-----------------------------------------------------------------------------
(* Server and crawler hold lists as load makes them, and the crawler's     *)
(* file is the rendering of one.                                           *)
LEMMA ListsStep == TInv /\ Lent /\ Rendered /\ [Next]_vars => Lent' /\ Rendered'
<1> SUFFICES ASSUME TInv, Lent, Rendered, [Next]_vars PROVE Lent' /\ Rendered'
  OBVIOUS
<1>1. CASE ServerStart
  <2>1. Listed(server')
    BY <1>1, LoadedIsListed DEF ServerStart, TInv, TypeOK
  <2>2. QED
    BY <1>1, <2>1 DEF ServerStart, Lent, Rendered, Listed
<1>2. CASE skiplist_zeno_handler
  <2>1. server' = server /\ Listed(server) /\ zeno' = to_zeno_exclusions(server)
    BY <1>2 DEF skiplist_zeno_handler, Lent
  <2>2. zeno'.of = server
    BY <2>1 DEF to_zeno_exclusions
  <2>3. QED
    BY <2>1, <2>2 DEF Lent, Rendered, Listed, to_zeno_exclusions
<1>3. CASE server' = server /\ zeno' = zeno
  BY <1>3 DEF Lent, Rendered, Listed, to_zeno_exclusions
<1>4. QED
  BY <1>1, <1>2, <1>3 DEF Next, vars, Edit, Crawl, Tick, IndexStart, IndexStep, IndexObject,
     IndexExport, IndexDies, ExportStart, ExportStep, ScanStart, scan_link, cached_pdf_links,
     ExportUpload, FetchFails, ExportEnds

(* What the export gathers, it has from rows that were there when it       *)
(* started: a row that goes does not come back, for its capture is seen.   *)
LEMMA GatheredStep == TInv /\ Gathered /\ [Next]_vars => Gathered'
<1> SUFFICES ASSUME TInv, Gathered, [Next]_vars PROVE Gathered'
  OBVIOUS
<1>1. seen \subseteq seen' /\ (exp.pc # "idle" => exp.base \cap cdx' \subseteq exp.base \cap cdx)
  <2>1. CASE IndexStart
    BY <2>1 DEF IndexStart
  <2>2. ASSUME NEW u \in Urls, IndexObject(u)
        PROVE  seen \subseteq seen' /\ (exp.pc # "idle" => exp.base \cap cdx' \subseteq exp.base \cap cdx)
    <3>1. u \notin seen /\ seen' = seen \cup {u} /\ cdx' \subseteq cdx \cup {u}
      BY <2>2 DEF IndexObject, TInv, TypeOK
    <3>2. QED
      BY <3>1 DEF Gathered
  <2>3. CASE seen' = seen /\ cdx' = cdx
    BY <2>3
  <2>4. QED
    BY <2>1, <2>2, <2>3 DEF Next, vars, Edit, ServerStart, skiplist_zeno_handler, Crawl, Tick,
       IndexStep, IndexExport, IndexDies, ExportStart, ExportStep, ScanStart, scan_link,
       cached_pdf_links, ExportUpload, FetchFails, ExportEnds
<1>t. exp \in Exports /\ cdx \subseteq seen
  BY DEF TInv, TypeOK
<1>2. CASE exp' = exp
  BY <1>1, <1>2 DEF Gathered, Scanned
<1>3. CASE ExportStart
  <2>1. exp'.pc = "html" /\ exp'.base = cdx /\ exp'.captured = cdx \cap Pdfs /\ seen' = seen
    BY <1>3 DEF ExportStart, NoExport, pdf_urls
  <2>2. QED
    BY <1>t, <2>1 DEF Gathered
<1>4. CASE ScanStart
  <2>1. /\ exp.pc = "html" /\ exp'.pc = "scan" /\ exp'.base = exp.base /\ exp'.captured = exp.captured
        /\ exp'.whole => exp'.todo = cdx \cap Html
    BY <1>t, <1>4 DEF ScanStart, Exports, html_records
  <2>2. QED
    BY <1>1, <2>1 DEF Gathered
<1>5. ASSUME NEW u \in Urls, scan_link(u) PROVE Gathered'
  <2>1. /\ exp.pc = "scan" /\ exp'.pc = "scan" /\ exp'.base = exp.base /\ exp'.captured = exp.captured
        /\ exp'.todo = exp.todo \ {u} /\ exp'.linked = exp.linked \cup LinksOn[u]
        /\ exp'.whole = exp.whole
    BY <1>t, <1>5 DEF scan_link, Exports
  <2>2. QED
    BY <1>1, <2>1 DEF Gathered, Scanned
<1>6. ASSUME NEW u \in Urls, FetchFails(u) PROVE Gathered'
  <2>1. /\ exp.pc = "scan" /\ exp'.pc = "scan" /\ exp'.base = exp.base /\ exp'.captured = exp.captured
        /\ exp'.whole = FALSE
    BY <1>t, <1>6 DEF FetchFails, Exports
  <2>2. QED
    BY <1>1, <2>1 DEF Gathered
<1>7. CASE cached_pdf_links
  <2> DEFINE L == UNION {LinksOn[u] : u \in pdf_urls \cap Retained}
  <2>1. /\ exp.pc = "scan" /\ exp'.pc = "upload" /\ exp'.base = exp.base /\ exp'.captured = exp.captured
        /\ exp.todo = {} /\ exp'.linked = exp.linked \cup L
        /\ exp'.whole = exp.whole
    BY <1>t, <1>7 DEF cached_pdf_links, Exports
  <2>2. \A v \in cdx \cap Retained : LinksOn[v] \subseteq L
    BY ExportAssumption DEF pdf_urls
  <2>3. exp.whole => \A v \in exp.base \cap cdx \cap Html : LinksOn[v] \subseteq exp.linked
    BY <2>1 DEF Gathered, Scanned
  <2> HIDE DEF L
  <2>4. QED
    BY <1>1, <2>1, <2>2, <2>3 DEF Gathered, Scanned
<1>8. CASE ExportUpload \/ ExportEnds
  <2>1. exp'.pc = "idle"
    BY <1>8 DEF ExportUpload, ExportEnds, NoExport
  <2>2. QED
    BY <2>1 DEF Gathered
<1>9. QED
  BY <1>2, <1>3, <1>4, <1>5, <1>6, <1>7, <1>8 DEF Next, vars, Edit, ServerStart,
     skiplist_zeno_handler, Crawl, Tick, IndexStart, IndexStep, IndexObject, IndexExport, IndexDies,
     ExportStep

(* Everything together holds at the start, ... *)
LEMMA InvInit == Init => IInv
<1> SUFFICES ASSUME Init PROVE IInv
  OBVIOUS
<1>1. Lent /\ Gathered
  BY DEF Init, Lent, Gathered, NoExport
<1>2. zeno = to_zeno_exclusions(NoList) /\ zeno.of = NoList
  BY DEF Init, to_zeno_exclusions
<1>3. Listed(NoList)
  BY DEF Listed, NoList
<1>4. QED
  BY <1>1, <1>2, <1>3, TypeInit DEF IInv, Rendered

(* ... and every step keeps it. *)
LEMMA InvStep == IInv /\ [Next]_vars => IInv'
BY TypeStep, ListsStep, GatheredStep DEF IInv

-----------------------------------------------------------------------------
(* A list without asterisks excludes the same URLs for the crawler as for  *)
(* tywb, and names each pattern that is not in force.                      *)
LEMMA ListAgrees ==
  ASSUME NoAsterisk, NEW l, Listed(l)
  PROVE  /\ \A u \in Urls : Excluded(to_zeno_exclusions(l), u) <=> is_url_blacklisted(l, u)
         /\ \A p \in l.requested : \A u \in Covers[p] :
              is_url_blacklisted(l, u) \/ p \in rejected_patterns(l)
<1> DEFINE z == to_zeno_exclusions(l)
<1>1. z.patterns = l.active /\ z.hosts = {e.labels : e \in l.domains}
  BY DEF to_zeno_exclusions
<1>2. \A p \in l.active : p \notin Invalid
  BY DEF Listed
<1>3. \A h : is_host_blacklisted(l, h) <=> \E k \in z.hosts : Under(k, h)
  BY <1>1 DEF is_host_blacklisted, Listed
<1> HIDE DEF z
<1>4. \A u \in Urls : Excluded(z, u) <=> is_url_blacklisted(l, u)
  BY <1>1, <1>2, <1>3 DEF Excluded, is_url_blacklisted
<1>5. \A p \in l.requested : \A u \in Covers[p] :
        is_url_blacklisted(l, u) \/ p \in rejected_patterns(l)
  BY DEF is_url_blacklisted, rejected_patterns
<1>6. QED
  BY <1>4, <1>5 DEF z

(* The crawler's exclusion file leaves out what is_url_blacklisted covers  *)
(* and nothing else, for every list without asterisks, whichever of its    *)
(* files could be read; and a pattern that silently does nothing is named. *)
THEOREM CrawlerAgrees ==
  ASSUME NoAsterisk
  PROVE  Spec => []SameAnswer
<1>1. IInv => SameAnswer
  <2> SUFFICES ASSUME IInv PROVE SameAnswer
    OBVIOUS
  <2>1. Listed(zeno.of) /\ zeno = to_zeno_exclusions(zeno.of) /\ TypeOK
        /\ (server # None => Listed(server))
    BY DEF IInv, Rendered, Lent, TInv
  <2>2. \A u \in Urls : Excluded(zeno, u) <=> is_url_blacklisted(zeno.of, u)
    BY <2>1, ListAgrees
  <2>3. QED
    BY <2>1, <2>2, ListAgrees DEF SameAnswer
<1>2. QED
  BY <1>1, InvInit, InvStep, PTL DEF Spec

(* Only a domain or a well-formed pattern of the configuration purges: a   *)
(* pattern that does not compile or would match everything takes no row,   *)
(* whatever the lists and whichever file could not be read.                *)
THEOREM TyposPurgeNothing == Spec => TypoPurgesNothing
<1>1. ASSUME TInv, [Next]_vars, NEW u \in cdx \ cdx'
      PROVE  Meant(config, u)
  <2>1. IndexStart
    BY <1>1 DEF Next, vars, Edit, ServerStart, skiplist_zeno_handler, Crawl, Tick, IndexStep,
       IndexObject, IndexExport, IndexDies, ExportStart, ExportStep, ScanStart, scan_link,
       cached_pdf_links, ExportUpload, FetchFails, ExportEnds
  <2>2. PICK l \in Loadable : is_url_blacklisted(l, u)
    BY <1>1, <2>1 DEF IndexStart
  <2>3. PICK d \in BOOLEAN, p \in BOOLEAN : l = load(config, d, p)
    BY DEF Loadable
  <2>4. /\ l.domains \subseteq config.domains \cup config.domainFile
        /\ l.active \subseteq (config.inline \cup config.patterns) \ (Invalid \cup MatchesEmpty)
    BY <2>3 DEF load, compile_url_patterns
  <2>5. QED
    BY <2>2, <2>4 DEF is_url_blacklisted, is_host_blacklisted, Meant
<1>2. ASSUME TInv, [Next]_vars
      PROVE  \A u \in cdx \ cdx' : Meant(config, u)
  BY <1>1, <1>2
<1>3. IInv => TInv
  BY DEF IInv
<1>4. QED
  BY <1>2, <1>3, InvInit, InvStep, PTL DEF Spec, TypoPurgesNothing

(* No object names a listed URL or one that is no http URL, and a full     *)
(* export names every PDF that was there from its start to its end and     *)
(* every PDF that those pages and retained PDFs link to, while index runs  *)
(* purge and add rows, whatever the web and the lists.                     *)
THEOREM ExportsComplete == Spec => ExportComplete
<1>1. ASSUME IInv, IndexExport, exports' # exports
      PROVE  \A u \in Uploaded : Http(u) /\ ~is_url_blacklisted(run.list, u)
  <2>1. Uploaded = merge(run.pdf_urls, run.pdf_links, run.list)
    BY <1>1, Upload DEF IInv, IndexExport, Uploaded
  <2>2. QED
    BY <2>1 DEF merge
<1>2. ASSUME IInv, ExportUpload, exports' # exports
      PROVE  /\ \A u \in Uploaded : Http(u) /\ ~is_url_blacklisted(exp.list, u)
             /\ exp.whole => \A u \in Pointed(exp.base \cap cdx) :
                  u \in Uploaded \/ ~Http(u) \/ is_url_blacklisted(exp.list, u)
  <2>1. Uploaded = merge(exp.captured, exp.linked, exp.list) /\ exp.pc = "upload"
    BY <1>2, Upload DEF IInv, ExportUpload, Uploaded
  <2>2. \A u \in Uploaded : Http(u) /\ ~is_url_blacklisted(exp.list, u)
    BY <2>1 DEF merge
  <2>3. ASSUME exp.whole, NEW u \in Pointed(exp.base \cap cdx)
        PROVE  u \in exp.captured \cup exp.linked
    <3>1. exp.captured = exp.base \cap Pdfs
          /\ \A v \in exp.base \cap cdx \cap (Html \cup Retained) : LinksOn[v] \subseteq exp.linked
      BY <1>2, <2>1, <2>3 DEF IInv, Gathered, Scanned
    <3>2. QED
      BY <2>3, <3>1 DEF Pointed
  <2>4. QED
    BY <2>1, <2>2, <2>3 DEF merge
<1>3. ASSUME IInv, [Next]_vars
      PROVE  /\ IndexExport /\ exports' # exports =>
                   \A u \in Uploaded : Http(u) /\ ~is_url_blacklisted(run.list, u)
             /\ ExportUpload /\ exports' # exports =>
                   /\ \A u \in Uploaded : Http(u) /\ ~is_url_blacklisted(exp.list, u)
                   /\ exp.whole => \A u \in Pointed(exp.base \cap cdx) :
                        u \in Uploaded \/ ~Http(u) \/ is_url_blacklisted(exp.list, u)
  BY <1>1, <1>2, <1>3
<1>4. QED
  BY <1>3, InvInit, InvStep, PTL DEF Spec, ExportComplete

=============================================================================
