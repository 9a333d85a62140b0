------------------------------- MODULE Ingest -------------------------------
(***************************************************************************)
(* The `tywb index` process over the primary WARC bucket                   *)
(* (crates/tywb/src/index.rs: run, purge_domain, purge_url_patterns,       *)
(* index_warc_object; crates/s3_store/src/list.rs: ListState, Lister).     *)
(*                                                                         *)
(* One run after another works on four stores that no transaction spans:   *)
(* the S3 bucket, the CDX table in SQLite, the Tantivy fulltext index and  *)
(* the ETag state file.  A run may be killed, or a call may fail, between  *)
(* any two of its writes; objects are replaced in the bucket meanwhile.    *)
(***************************************************************************)
EXTENDS Naturals

CONSTANTS
  Keys,        \* keys of the WARC objects
  MaxVersion,  \* bound: how often an object is written; versions have distinct ETags
  Captures,    \* WARC records that yield a CDX record, told apart by content and offset
  Content,     \* Content[k][v]: the captures in version v of object k
  Pos,         \* Pos[c]: where capture c stands in its object
  Textual,     \* the captures for which build_index_doc returns a document
  Urls, Surts, Hosts, Stamps,
  Url,         \* Url[c]: original URL of a capture
  Stamp,       \* Stamp[c]: its 14-digit timestamp
  to_surt,     \* to_surt[u]: SURT of a URL; URLs that differ in scheme share it
  UrlHost,     \* UrlHost[u]: the host is_url_blacklisted cuts out of a URL
  Host,        \* Host[s]: host part of a SURT
  SkipLists,   \* the skip lists the operator may configure for a run
  RunKinds,    \* the ways a run may be started
  NoKey,       \* no object is being indexed
  NoRow,       \* no CDX row under a primary key
  MaxFaults    \* bound: crashes and failing calls in a behaviour

Versions == 1..MaxVersion
Etags == 0..MaxVersion            \* 0: no entry (or the "" that --file stores)
Slots == Surts \X Stamps          \* primary keys of the cdx table
Docs == Keys \X Captures          \* a fulltext document: its s3_key and its record
Rows == [key: Keys, cap: Captures]
AllKinds == {"normal", "force", "file", "capped"}
Slot(c) == <<to_surt[Url[c]], Stamp[c]>>

ASSUME DataAssumption ==
  /\ MaxVersion \in Nat
  /\ MaxFaults \in Nat
  /\ Content \in [Keys -> [Versions -> SUBSET Captures]]
  /\ Pos \in [Captures -> Nat]
  /\ Textual \subseteq Captures
  /\ Url \in [Captures -> Urls]
  /\ Stamp \in [Captures -> Stamps]
  /\ to_surt \in [Urls -> Surts]
  /\ UrlHost \in [Urls -> Hosts]
  /\ Host \in [Surts -> Hosts]
  /\ SkipLists \subseteq [dom: SUBSET Hosts, pat: SUBSET Urls]
  /\ RunKinds \subseteq AllKinds
  /\ NoKey \notin Keys
  /\ NoRow \notin Rows

(* A file is finite: among any of its records there is a last one. *)
ASSUME LastRecordAssumption ==
  \A k \in Keys : \A v \in Versions : \A C \in (SUBSET Content[k][v]) \ {{}} :
    \E c \in C : \A d \in C : Pos[d] <= Pos[c]

VARIABLES
  bucket,   \* bucket[k]: version of the object in S3, 0 when there is none
  cdx,      \* cdx[s]: the row of the cdx table under primary key s
  index,    \* index[d]: how many copies of d the committed fulltext index holds
  saved,    \* the state file on disk: ETag per key
  sidecar,  \* sidecar[k]: version the object <k>.cdx describes, 0 when there is none
  \* in the memory of the running process
  pc,       \* next step of the run
  kind,     \* how the run was started
  skip,     \* its skip list
  doms,     \* blacklisted domains not yet purged
  writer,   \* the fulltext index as the next commit would make it
  seen,     \* ListState::seen
  etag,     \* ETags from the listing
  todo,     \* objects listed and not yet reached
  cur,      \* the object being indexed
  rver,     \* the version its GET returned
  batch,    \* the captures parsed from it
  task,     \* task[k]: version a pending sidecar task describes, 0 when none
  \* history
  faults,   \* crashes and failed calls so far
  ever,     \* SURTs some skip list has covered
  partial   \* objects read short, or damaged by a failed re-index

volatile == <<kind, skip, doms, writer, seen, etag, todo, cur, rver, batch, task>>
durable == <<bucket, cdx, index, saved, sidecar>>
vars == <<durable, volatile, pc, faults, ever, partial>>

NoTags == [k \in Keys |-> 0]

-----------------------------------------------------------------------------
(* The skip list. *)

(* IndexerConfig::is_url_blacklisted, the question asked at ingest.  dom   *)
(* holds the hosts that the listed domains cover, subdomains included.     *)
is_url_blacklisted(c) == UrlHost[Url[c]] \in skip.dom \/ Url[c] \in skip.pat

(* Mutant of handle_record: the skip list is not consulted at ingest. *)
handle_record_unchecked(C) == C

(* handle_record on each of C: what is skip-listed yields nothing. *)
handle_record(C) == {c \in C : ~is_url_blacklisted(c)}

(* Every SURT a skip list can reach through its domains or its patterns. *)
SurtsUnder(l) ==
  {s \in Surts : Host[s] \in l.dom}
    \cup {to_surt[u] : u \in {w \in Urls : UrlHost[w] \in l.dom \/ w \in l.pat}}

-----------------------------------------------------------------------------
(* The stores. *)

HasRow(c) == cdx[Slot(c)] # NoRow

(* CdxStore::upsert_batch_counted: the last record under a key wins. *)
upsert_batch(k, C) ==
  [s \in Slots |->
     LET S == {c \in C : Slot(c) = s}
     IN IF S = {} THEN cdx[s]
        ELSE [key |-> k, cap |-> CHOOSE c \in S : \A d \in S : Pos[d] <= Pos[c]]]

(* DELETE FROM cdx for all rows under the given SURTs. *)
DeleteSurts(S) == [s \in Slots |-> IF s[1] \in S THEN NoRow ELSE cdx[s]]

(* SearchIndex::delete_urls, as the writer will commit it. *)
delete_urls(U) == [d \in Docs |-> IF Url[d[2]] \in U THEN 0 ELSE writer[d]]

(* Mutant of ReplaceDocs: add_document without delete_s3_key. *)
AddDocs(k, C) ==
  [d \in Docs |-> IF d[1] = k /\ d[2] \in C THEN writer[d] + 1 ELSE writer[d]]

(* SearchIndex::delete_s3_key followed by add_document for each of C.      *)
(* delete_term reaches only what was there before, so the adds survive.    *)
ReplaceDocs(k, C) ==
  [d \in Docs |-> IF d[1] # k THEN writer[d] ELSE IF d[2] \in C THEN 1 ELSE 0]

(* Mutant of is_unchanged: the key is looked up, its ETag is not compared. *)
is_known(k) == seen[k] # 0

(* ListState::is_unchanged *)
is_unchanged(k) == seen[k] # 0 /\ seen[k] = bucket[k]

-----------------------------------------------------------------------------
Init ==
  /\ bucket = NoTags
  /\ cdx = [s \in Slots |-> NoRow]
  /\ index = [d \in Docs |-> 0]
  /\ saved = NoTags
  /\ sidecar = NoTags
  /\ pc = "idle"
  /\ kind = "normal"
  /\ skip = [dom |-> {}, pat |-> {}]
  /\ doms = {}
  /\ writer = index
  /\ seen = NoTags
  /\ etag = NoTags
  /\ todo = {}
  /\ cur = NoKey
  /\ rver = 0
  /\ batch = {}
  /\ task = NoTags
  /\ faults = 0
  /\ ever = {}
  /\ partial = {}

Goto(l) == pc' = l

(* The process is gone: what it held in memory, uncommitted documents and  *)
(* unfinished background tasks included, goes with it.                     *)
Stop ==
  /\ Goto("idle")
  /\ kind' = "normal"
  /\ skip' = [dom |-> {}, pat |-> {}]
  /\ doms' = {}
  /\ writer' = index
  /\ seen' = NoTags
  /\ etag' = NoTags
  /\ todo' = {}
  /\ cur' = NoKey
  /\ rver' = 0
  /\ batch' = {}
  /\ task' = NoTags

(* A call fails; the bound on faults is spent. *)
Fault == faults < MaxFaults /\ faults' = faults + 1

-----------------------------------------------------------------------------
(* Outside the process. *)

(* A crawler writes object k, or `tywb recompress` rewrites it. *)
Upload(k) ==
  /\ bucket[k] < MaxVersion
  /\ bucket' = [bucket EXCEPT ![k] = @ + 1]
  /\ UNCHANGED <<cdx, index, saved, sidecar, volatile, pc, faults, ever, partial>>

(* The process is killed at any point. *)
Crash ==
  /\ pc # "idle"
  /\ Fault
  /\ Stop
  /\ UNCHANGED <<durable, ever, partial>>

-----------------------------------------------------------------------------
(* The steps of a run, in the order of index::run. *)

(* `tywb index` is started with the skip list of its configuration. *)
StartRun(m, l) ==
  /\ pc = "idle"
  /\ Goto("domains")
  /\ kind' = m
  /\ skip' = l
  /\ doms' = l.dom
  /\ ever' = ever \cup SurtsUnder(l)
  /\ UNCHANGED <<durable, writer, seen, etag, todo, cur, rver, batch, task, faults, partial>>

(* Mutant of purge_domain: the originals are read after the rows are gone. *)
purge_domain_rows_first(h) ==
  /\ pc = "domains"
  /\ h \in doms
  /\ cdx' = DeleteSurts({s \in Surts : Host[s] = h})
  /\ doms' = doms \ {h}
  /\ UNCHANGED <<bucket, index, saved, sidecar, pc, kind, skip, writer, seen, etag, todo,
                 cur, rver, batch, task, faults, ever, partial>>

(* purge_domain: the rows go at once, the documents with the next commit.  *)
purge_domain(h) ==
  /\ pc = "domains"
  /\ h \in doms
  /\ LET S == {s \in Surts : Host[s] = h}
         urls == {Url[cdx[s].cap] : s \in {t \in Slots : t[1] \in S /\ cdx[t] # NoRow}}
     IN /\ writer' = delete_urls(urls)
        /\ cdx' = DeleteSurts(S)
  /\ doms' = doms \ {h}
  /\ UNCHANGED <<bucket, index, saved, sidecar, pc, kind, skip, seen, etag, todo, cur,
                 rver, batch, task, faults, ever, partial>>

(* One commit covers the deletions of all domains; when it fails, run returns. *)
CommitDomains ==
  /\ pc = "domains"
  /\ doms = {}
  /\ \/ /\ Goto("patterns")
        /\ index' = IF skip.dom = {} THEN index ELSE writer
        /\ UNCHANGED <<volatile, faults>>
     \/ /\ skip.dom # {}
        /\ Fault
        /\ UNCHANGED index
        /\ Stop
  /\ UNCHANGED <<bucket, cdx, saved, sidecar, ever, partial>>

(* purge_url_patterns: of the originals that share a SURT only the first one *)
(* the scan meets is handed to the fulltext index, but all rows of the SURT go. *)
purge_url_patterns ==
  /\ pc = "patterns"
  /\ IF skip.pat = {}
       THEN Goto("load") /\ UNCHANGED <<cdx, writer>>
       ELSE LET hits == {s \in Slots : cdx[s] # NoRow /\ Url[cdx[s].cap] \in skip.pat}
                surts == {s[1] : s \in hits}
            IN /\ Goto("pcommit")
               /\ cdx' = DeleteSurts(surts)
               /\ \E firsts \in SUBSET {Url[cdx[s].cap] : s \in hits} :
                    /\ {to_surt[u] : u \in firsts} = surts
                    /\ \A u, w \in firsts : to_surt[u] = to_surt[w] => u = w
                    /\ writer' = delete_urls(firsts)
  /\ UNCHANGED <<bucket, index, saved, sidecar, kind, skip, doms, seen, etag, todo, cur,
                 rver, batch, task, faults, ever, partial>>

CommitPatterns ==
  /\ pc = "pcommit"
  /\ \/ /\ Goto("load")
        /\ index' = writer
        /\ UNCHANGED <<volatile, faults>>
     \/ /\ Fault
        /\ UNCHANGED index
        /\ Stop
  /\ UNCHANGED <<bucket, cdx, saved, sidecar, ever, partial>>

(* ListState::load; a state file that cannot be read means starting fresh. *)
LoadState ==
  /\ pc = "load"
  /\ Goto("list")
  /\ \/ seen' = saved /\ UNCHANGED faults
     \/ seen' = NoTags /\ Fault
  /\ UNCHANGED <<durable, kind, skip, doms, writer, etag, todo, cur, rver, batch, task,
                 ever, partial>>

(* Mutant of Listings: --force is forgotten. *)
ChangedOnly == {{k \in Keys : bucket[k] # 0 /\ ~is_unchanged(k)}}

(* list_all under --force, list_new_or_changed otherwise. *)
Listings ==
  LET all == {k \in Keys : bucket[k] # 0}
      changed == {k \in all : ~is_unchanged(k)}
  IN CASE kind = "force" -> {all}
       [] kind = "capped" -> {all, changed}
       [] OTHER -> {changed}

(* --file names one key without an ETag.  An empty listing ends the run    *)
(* before the final commit; --max-files, with or without --force, keeps    *)
(* some of it.                                                             *)
ListObjects ==
  /\ pc = "list"
  /\ \/ /\ kind = "file"
        /\ \E k \in Keys : todo' = {k}
        /\ etag' = NoTags
        /\ Goto("loop")
     \/ /\ kind # "file"
        /\ etag' = bucket
        /\ \E listed \in Listings :
             /\ todo' \in IF kind = "capped" THEN SUBSET listed ELSE {listed}
             /\ Goto(IF listed = {} THEN "done" ELSE IF todo' = {} THEN "final" ELSE "loop")
  /\ UNCHANGED <<durable, kind, skip, doms, writer, seen, cur, rver, batch, task,
                 faults, ever, partial>>

(* Listing fails: run returns. *)
ListFails ==
  /\ pc = "list"
  /\ kind # "file"
  /\ Fault
  /\ Stop
  /\ UNCHANGED <<durable, ever, partial>>

NextObject(k) ==
  /\ pc = "loop"
  /\ k \in todo
  /\ Goto("get")
  /\ cur' = k
  /\ todo' = todo \ {k}
  /\ UNCHANGED <<durable, kind, skip, doms, writer, seen, etag, rver, batch, task,
                 faults, ever, partial>>

(* The Err arm of the loop: the object is logged and not marked as seen.   *)
FileFails ==
  /\ Fault
  /\ Goto("save")

(* Mutant of GetFails: the error is swallowed and an empty object indexed. *)
GetErrorIgnored ==
  /\ pc = "get"
  /\ \/ bucket[cur] = 0 /\ UNCHANGED faults
     \/ bucket[cur] # 0 /\ Fault
  /\ Goto("cdx")
  /\ UNCHANGED <<durable, volatile, ever, partial>>

(* get_stream fails, or the object named by --file does not exist. *)
GetFails ==
  /\ pc = "get"
  /\ \/ bucket[cur] = 0 /\ Goto("save") /\ UNCHANGED faults
     \/ bucket[cur] # 0 /\ FileFails
  /\ UNCHANGED <<durable, volatile, ever, partial>>

(* Read the object and run handle_record on each record.  A broken stream, *)
(* a bad gzip member or a bad plain record ends the loop early: the prefix *)
(* read so far is kept and treated as the whole object.                    *)
ParseObject ==
  /\ pc = "get"
  /\ bucket[cur] # 0
  /\ Goto("cdx")
  /\ rver' = bucket[cur]
  /\ LET all == Content[cur][bucket[cur]]
     IN \/ batch' = handle_record(all) /\ UNCHANGED <<partial, faults>>
        \/ /\ \E c \in all : batch' = handle_record({d \in all : Pos[d] < Pos[c]})
           /\ partial' = partial \cup {cur}
           /\ Fault
  /\ UNCHANGED <<durable, kind, skip, doms, writer, seen, etag, todo, cur, task, ever>>

(* Mutant of UpsertCdx: a failed transaction is logged and passed over. *)
UpsertErrorIgnored ==
  /\ pc = "cdx"
  /\ Goto("write")
  /\ \/ /\ cdx' = upsert_batch(cur, batch)
        /\ task' = [task EXCEPT ![cur] = IF batch = {} THEN 0 ELSE rver]
        /\ UNCHANGED faults
     \/ Fault /\ UNCHANGED <<cdx, task>>
  /\ UNCHANGED <<bucket, index, saved, sidecar, kind, skip, doms, writer, seen, etag,
                 todo, cur, rver, batch, ever, partial>>

(* One SQLite transaction, then the sidecar task is spawned. *)
UpsertCdx ==
  /\ pc = "cdx"
  /\ \/ /\ Goto("write")
        /\ cdx' = upsert_batch(cur, batch)
        /\ task' = [task EXCEPT ![cur] = IF batch = {} THEN 0 ELSE rver]
        /\ UNCHANGED faults
     \/ FileFails /\ UNCHANGED <<cdx, task>>
  /\ UNCHANGED <<bucket, index, saved, sidecar, kind, skip, doms, writer, seen, etag,
                 todo, cur, rver, batch, ever, partial>>

(* The state file already answers for object k in its present version. *)
Vouched(k) == bucket[k] # 0 /\ (seen[k] = bucket[k] \/ saved[k] = bucket[k])

(* delete_s3_key and the add_document loop.  When an add fails the earlier *)
(* operations stay queued in the writer: nothing rolls them back.          *)
WriteDocs ==
  /\ pc = "write"
  /\ LET docs == batch \cap Textual
     IN \/ /\ Goto("commit")
           /\ writer' = ReplaceDocs(cur, docs)
           /\ UNCHANGED <<faults, partial>>
        \/ /\ \E c \in docs : writer' = ReplaceDocs(cur, {d \in docs : Pos[d] < Pos[c]})
           /\ partial' = IF Vouched(cur) THEN partial \cup {cur} ELSE partial
           /\ FileFails
  /\ UNCHANGED <<durable, kind, skip, doms, seen, etag, todo, cur, rver, batch, task, ever>>

(* search.commit of the object.  It may fail without effect, or publish    *)
(* the documents and then fail to reload the reader.                       *)
CommitFile ==
  /\ pc = "commit"
  /\ \/ /\ Goto("mark")
        /\ index' = writer
        /\ partial' = IF batch = handle_record(Content[cur][rver])
                        THEN partial \ {cur} ELSE partial
        /\ UNCHANGED faults
     \/ /\ FileFails
        /\ index' \in {index, writer}
        /\ UNCHANGED partial
  /\ UNCHANGED <<bucket, cdx, saved, sidecar, volatile, ever>>

(* Mutant of mark_seen: the ETag the object has by now is recorded. *)
mark_seen_current ==
  /\ pc = "mark"
  /\ Goto("save")
  /\ seen' = [seen EXCEPT ![cur] = bucket[cur]]
  /\ UNCHANGED <<durable, kind, skip, doms, writer, etag, todo, cur, rver, batch, task,
                 faults, ever, partial>>

(* ListState::mark_seen with the ETag of the listing, not of the GET. *)
mark_seen ==
  /\ pc = "mark"
  /\ Goto("save")
  /\ seen' = [seen EXCEPT ![cur] = etag[cur]]
  /\ UNCHANGED <<durable, kind, skip, doms, writer, etag, todo, cur, rver, batch, task,
                 faults, ever, partial>>

(* ListState::save (temp file and rename); a failure is only logged.       *)
(* --max-urls may end the loop after any object.                           *)
SaveState ==
  /\ pc = "save"
  /\ \/ saved' = seen /\ UNCHANGED faults
     \/ UNCHANGED saved /\ Fault
  /\ todo' \in {todo} \cup IF kind = "capped" THEN {{}} ELSE {}
  /\ Goto(IF todo' = {} THEN "final" ELSE "loop")
  /\ cur' = NoKey
  /\ rver' = 0
  /\ batch' = {}
  /\ UNCHANGED <<bucket, cdx, index, sidecar, kind, skip, doms, writer, seen, etag, task,
                 ever, partial>>

(* The commit at the end of run. *)
FinalCommit ==
  /\ pc = "final"
  /\ \/ Goto("done") /\ index' = writer /\ UNCHANGED <<volatile, faults>>
     \/ Fault /\ UNCHANGED index /\ Stop
  /\ UNCHANGED <<bucket, cdx, saved, sidecar, ever, partial>>

(* main returns; the runtime drops the tasks that are still running. *)
Exit ==
  /\ pc = "done"
  /\ Stop
  /\ UNCHANGED <<durable, faults, ever, partial>>

(* write_cdx_sidecar: an existing sidecar is left alone; errors are logged. *)
write_cdx_sidecar(k) ==
  /\ task[k] # 0
  /\ task' = [task EXCEPT ![k] = 0]
  /\ \/ /\ sidecar' = [sidecar EXCEPT ![k] = IF @ = 0 THEN task[k] ELSE @]
        /\ UNCHANGED faults
     \/ UNCHANGED sidecar /\ Fault
  /\ UNCHANGED <<bucket, cdx, index, saved, pc, kind, skip, doms, writer, seen, etag, todo,
                 cur, rver, batch, ever, partial>>

Step ==
  \/ \E h \in doms : purge_domain(h)
  \/ CommitDomains
  \/ purge_url_patterns
  \/ CommitPatterns
  \/ LoadState
  \/ ListObjects
  \/ ListFails
  \/ \E k \in todo : NextObject(k)
  \/ GetFails
  \/ ParseObject
  \/ UpsertCdx
  \/ WriteDocs
  \/ CommitFile
  \/ mark_seen
  \/ SaveState
  \/ FinalCommit
  \/ Exit

Next ==
  \/ \E k \in Keys : Upload(k)
  \/ Crash
  \/ \E m \in RunKinds : \E l \in SkipLists : StartRun(m, l)
  \/ Step
  \/ \E k \in Keys : write_cdx_sidecar(k)

Spec == Init /\ [][Next]_vars

(* The indexer is run from a timer, so a plain run always starts again, and *)
(* a started run takes its next step unless it is killed.                  *)
FairSpec ==
  /\ Spec
  /\ WF_vars(Step)
  /\ WF_vars(\E l \in SkipLists : StartRun("normal", l))

-----------------------------------------------------------------------------
(* Properties *)

TypeOK ==
  /\ bucket \in [Keys -> Etags]
  /\ cdx \in [Slots -> Rows \cup {NoRow}]
  /\ index \in [Docs -> Nat]
  /\ saved \in [Keys -> Etags]
  /\ sidecar \in [Keys -> Etags]
  /\ pc \in {"idle", "domains", "patterns", "pcommit", "load", "list", "loop", "get",
             "cdx", "write", "commit", "mark", "save", "final", "done"}
  /\ kind \in AllKinds
  /\ skip \in [dom: SUBSET Hosts, pat: SUBSET Urls]
  /\ doms \subseteq Hosts
  /\ writer \in [Docs -> Nat]
  /\ seen \in [Keys -> Etags]
  /\ etag \in [Keys -> Etags]
  /\ todo \subseteq Keys
  /\ cur \in Keys \cup {NoKey}
  /\ pc \in {"get", "cdx", "write", "commit", "mark"} => cur \in Keys
  /\ rver \in Etags
  /\ pc \in {"cdx", "write", "commit", "mark"} => rver \in Versions
  /\ batch \subseteq Captures
  /\ task \in [Keys -> Etags]
  /\ faults \in 0..MaxFaults
  /\ ever \subseteq Surts
  /\ partial \subseteq Keys

NeverSkipped(c) == to_surt[Url[c]] \notin ever

(* Object k is in both stores as it stands in the bucket: every record no  *)
(* skip list ever covered has a row and, if textual, exactly one document, *)
(* and no document of an earlier version is left.                          *)
Settled(k, ix) ==
  LET all == Content[k][bucket[k]]
  IN /\ \A c \in all : NeverSkipped(c) => HasRow(c)
     /\ \A c \in all \cap Textual : NeverSkipped(c) => ix[<<k, c>>] = 1
     /\ \A c \in Captures \ all : ix[<<k, c>>] = 0

(* "A crash on a large bucket is safe to resume" (README): an object that  *)
(* the next run will skip, because the state file holds its present ETag,  *)
(* is completely in the CDX table and in the fulltext index, whatever was  *)
(* killed or failed before, if its last read got to the end.               *)
SafeResume ==
  \A k \in Keys \ partial : Vouched(k) => Settled(k, index)

(* "Re-index must replace a file's contribution, not duplicate it"         *)
(* (index_warc_object): no document is ever in the index twice.            *)
NoDuplicates == \A d \in Docs : index[d] <= 1

(* Every document a search can return has its row in the CDX table, which  *)
(* is how replay finds it, unless a skip list has touched its SURT.        *)
HitsResolve ==
  \A k \in Keys : \A c \in Captures :
    index[<<k, c>>] > 0 /\ NeverSkipped(c) => HasRow(c)

AfterPurge == {"load", "list", "loop", "get", "cdx", "write", "commit", "mark", "save",
               "final", "done"}

(* "The single question asked at ingest, at purge time and by the server's *)
(* display filter" (is_url_blacklisted): from the purge to the end of the  *)
(* run the CDX table holds no row that the skip list of the run covers, by *)
(* the URL or by the SURT, however the list changed.                       *)
CdxClean ==
  pc \in AfterPurge =>
    \A s \in Slots : cdx[s] # NoRow =>
      ~is_url_blacklisted(cdx[s].cap) /\ Host[s[1]] \notin skip.dom

(* The SURTs of the URL patterns in the lists that can have been in force. *)
Patterned ==
  UNION {{to_surt[u] : u \in l.pat} : l \in {m \in SkipLists : SurtsUnder(m) \subseteq ever}}

(* "Adding an entry and re-running `tywb index` is enough to clean up data *)
(* indexed earlier" (README): when a run is done and nothing failed, the   *)
(* fulltext index holds no document of a host its skip list names, whatever *)
(* version of the object it came from and however often the entry came and *)
(* went, unless some list so far had a URL pattern on its SURT.  (A pattern *)
(* takes rows away from documents it does not find, and the domain purge   *)
(* then no longer finds them either.)                                      *)
PurgeComplete ==
  pc = "done" /\ faults = 0 =>
    \A d \in Docs : index[d] > 0 /\ UrlHost[Url[d[2]]] \in skip.dom
                      => to_surt[Url[d[2]]] \in Patterned

(* "Remove the rule, re-index, and the captures come back" (README): when  *)
(* a --force run with an empty skip list is done and nothing failed, every *)
(* record of an up-to-date object is back in both stores, though earlier   *)
(* lists purged it.  (A plain run skips the object: its ETag is on record.) *)
CapturesComeBack ==
  pc = "done" /\ kind = "force" /\ skip = [dom |-> {}, pat |-> {}] /\ faults = 0 =>
    \A k \in Keys : saved[k] # 0 /\ saved[k] = bucket[k] =>
      \A c \in Content[k][bucket[k]] : HasRow(c) /\ (c \in Textual => index[<<k, c>>] = 1)

(* Once the bucket is quiet and calls stop failing, every object ends up   *)
(* in the state file with its present ETag (and then, by SafeResume, in    *)
(* both stores): the timer's runs converge.                                *)
EventuallyIndexed == <>[](\A k \in Keys : saved[k] = bucket[k])

-----------------------------------------------------------------------------
(* The inductive invariant behind SafeResume, NoDuplicates and HitsResolve *)

Reading == {"cdx", "write", "commit", "mark"}

(* ETags never run ahead of the bucket, and while an object is worked on   *)
(* nothing on record for it is newer than the version that was read.       *)
EtagsInOrder ==
  /\ \A k \in Keys : seen[k] <= bucket[k] /\ saved[k] <= bucket[k] /\ etag[k] <= bucket[k]
  /\ pc \in Reading => /\ rver <= bucket[cur]
                       /\ etag[cur] <= rver
                       /\ seen[cur] <= rver
                       /\ saved[cur] <= rver

(* The skip list of the run is on record. *)
SkipRecorded == SurtsUnder(skip) \subseteq ever /\ doms \subseteq skip.dom

(* A row stands under the primary key of its record. *)
RowsInSlot == \A s \in Slots : cdx[s] # NoRow => Slot(cdx[s].cap) = s

(* What was parsed came from the version read; all of it, if not short. *)
BatchFromVersion == pc \in Reading => batch \subseteq Content[cur][rver]
BatchWhole ==
  pc \in Reading /\ cur \notin partial => batch = handle_record(Content[cur][rver])

BatchHasRows == pc \in {"write", "commit", "mark"} => \A c \in batch : HasRow(c)

BatchQueued ==
  pc = "commit" =>
    \A c \in Captures : writer[<<cur, c>>] = IF c \in batch \cap Textual THEN 1 ELSE 0

(* Between the commit and mark_seen nothing is left in the writer and the  *)
(* object is in both stores, though the state file does not say so yet.    *)
ReadyToMark ==
  pc = "mark" =>
    /\ writer = index
    /\ cur \notin partial /\ rver = bucket[cur] => Settled(cur, index)

(* SafeResume must hold of the writer too: the next commit publishes it.   *)
VouchedSettled ==
  \A k \in Keys \ partial : Vouched(k) => Settled(k, index) /\ Settled(k, writer)

SingleCopies == \A d \in Docs : index[d] <= 1 /\ writer[d] <= 1

DocsHaveRows ==
  \A k \in Keys : \A c \in Captures :
    NeverSkipped(c) /\ (index[<<k, c>>] > 0 \/ writer[<<k, c>>] > 0) => HasRow(c)

IInv ==
  /\ TypeOK
  /\ EtagsInOrder
  /\ SkipRecorded
  /\ RowsInSlot
  /\ BatchFromVersion
  /\ BatchWhole
  /\ BatchHasRows
  /\ BatchQueued
  /\ ReadyToMark
  /\ VouchedSettled
  /\ SingleCopies
  /\ DocsHaveRows
=============================================================================
