------------------------------ MODULE OcrQueue ------------------------------
(***************************************************************************)
(* The digest-keyed OCR cache and its queue directory                      *)
(* (crates/tywb/src/ocr_cache.rs), shared by the index run that fills the  *)
(* queue (index.rs: build_index_doc) and the `tywb ocr-worker` processes   *)
(* that drain it (ocr_worker.rs).  The processes synchronise through       *)
(* renames and nothing else: a job file that one of them has read may be   *)
(* replaced, moved or removed before it acts on what it read.              *)
(*                                                                         *)
(* An object of the bucket is taken down to the PDF record at the          *)
(* coordinates the CDX knows; a content stands for its own ETag.  What an  *)
(* index run does besides the lookup is the subject of module Ingest.      *)
(***************************************************************************)
EXTENDS Naturals, FiniteSets

CONSTANTS
  Keys,        \* WARC objects
  Digests,     \* contents of PDF records; the cache keys
  Kind,        \* Kind[d]: what text extraction makes of content d
  Start,       \* Start[k]: the content of object k in the beginning
  Seekable,    \* objects whose records can be fetched one by one
  Workers,     \* worker processes that may run at the same time
  Permits,     \* ocr_cache.workers: extractions at a time in one process
  MaxAttempts, \* ocr_cache.max_attempts
  KeepXhtml,   \* ocr_cache.keep_xhtml
  IndexKinds,  \* how index runs are started
  WorkerKinds, \* how workers are started
  Limits,      \* settings of the worker's size limits, one per start
  None,        \* no PDF at the coordinates, no entry, no job
  MaxReplace,  \* bound: objects replaced in a behaviour
  MaxFaults    \* bound: crashes and failing calls in a behaviour

Contents == Digests \cup {None}
Answers == Digests \cup {"empty"}       \* what a cache entry says
Jobs == [key: Keys, attempts: {n \in 0..MaxAttempts : n = 0 \/ n < MaxAttempts}]
Kinds == {"text", "noise", "blank", "big", "wordy", "undecodable"}
TaskStates == {"none", "named", "read", "check", "run", "put", "markup", "remove", "retry"}
Active == {"check", "run", "put", "markup", "remove", "retry"}

ASSUME DataAssumption ==
  /\ Kind \in [Digests -> Kinds]
  /\ Start \in [Keys -> Contents]
  /\ Seekable \subseteq Keys
  /\ Permits \in Nat \ {0}
  /\ MaxAttempts \in Nat
  /\ KeepXhtml \in BOOLEAN
  /\ IndexKinds \subseteq {"plain", "force"}
  /\ WorkerKinds \subseteq {"drain", "prefill"}
  /\ Limits \subseteq {"low", "high"}
  /\ MaxReplace \in Nat
  /\ MaxFaults \in Nat
  /\ None \notin Digests \cup Keys \cup Jobs \cup (Keys \X Digests) \cup {"empty", "error", "new"}
  /\ Digests \cap {"empty", "error", "new"} = {}

VARIABLES
  bucket,   \* bucket[k]: content at the coordinates in object k
  cdx,      \* cdx[k]: digest in the row of object k
  docs,     \* docs[k]: whose text the fulltext document of object k holds
  seen,     \* seen[k]: ETag of k in the state file, "new" when there is none
  text,     \* text[d]: the entry under text/
  xhtml,    \* digests with a retained XHTML
  queue,    \* queue[d]: the job file under queue/
  failed,   \* failed[d]: the job file under failed/
  \* the index run
  ipc,      \* next step
  ilist,    \* the listing
  itodo,    \* objects listed and not yet reached
  ikey,     \* the object being indexed
  iread,    \* the content its GET returned
  itext,    \* the answer found in the cache
  \* the worker processes
  wpc,      \* wpc[w]: next step of run
  wlimit,   \* wlimit[w]: its size limits
  rows,     \* rows[w]: CDX rows the prefill has not reached
  row,      \* row[w]: the row about to be queued
  st,       \* st[w][d]: how far this process is with d
  job,      \* job[w][d]: the job as it was read
  out,      \* out[w][d]: the answer about to be stored
  \* history
  faults,   \* crashes and failed calls so far
  replaced, \* objects replaced so far
  wanted,   \* digests that were queued at some time
  dropped   \* digests whose queueing failed

store == <<text, xhtml, queue, failed>>
archive == <<cdx, docs, seen>>
indexer == <<ipc, ilist, itodo, ikey, iread, itext>>
local == <<wlimit, rows, row, st, job, out>>
worker == <<wpc, local>>
history == <<faults, replaced, wanted, dropped>>
vars == <<bucket, archive, store, indexer, worker, history>>

Idle(w) == wpc[w] = "idle"
NoTasks == [d \in Digests |-> "none"]

Fault == faults < MaxFaults /\ faults' = faults + 1
NoFault == UNCHANGED faults

-----------------------------------------------------------------------------
(* Text extraction. *)

(* PdfExtractor::try_extract as fetch_and_extract sorts its results: a     *)
(* text, the permanent answer "empty", or an error of the run.  An answer  *)
(* of Tika beyond max_response_bytes is an error of the run, a PDF beyond  *)
(* max_pdf_bytes a permanent answer.                                       *)
Extract(x, limit) ==
  IF x = None \/ Kind[x] = "undecodable" \/ (Kind[x] = "wordy" /\ limit = "low") THEN "error"
  ELSE IF Kind[x] = "blank" \/ (Kind[x] = "big" /\ limit = "low") THEN "empty"
  ELSE x

(* Mutant of fetch_and_extract: an error of the run taken for the answer   *)
(* that there is no text.                                                  *)
ErrorIsEmpty(j, limit) ==
  LET r == IF j.key \in Seekable THEN Extract(bucket[j.key], limit) ELSE "error"
  IN IF r = "error" THEN "empty" ELSE r

(* fetch_warc_record at the coordinates of job j, and then the extraction. *)
fetch_and_extract(j, limit) ==
  IF j.key \in Seekable THEN Extract(bucket[j.key], limit) ELSE "error"

(* The text a document is built from: not an empty one, not OCR noise.     *)
Indexed(a) == IF a \in Digests /\ Kind[a] # "noise" THEN a ELSE None

-----------------------------------------------------------------------------
(* The queue directory. *)

(* OcrCache::enqueue, which replaces a job of the same digest.  It may     *)
(* fail; both callers then log a warning and go on.                        *)
enqueue(d, k) ==
  \/ /\ queue' = [queue EXCEPT ![d] = [key |-> k, attempts |-> 0]]
     /\ wanted' = wanted \cup {d}
     /\ NoFault
     /\ UNCHANGED dropped
  \/ /\ Fault
     /\ dropped' = dropped \cup {d}
     /\ UNCHANGED <<queue, wanted>>

(* Mutant of Moved: the job is deleted instead of moved. *)
Deleted(d) ==
  /\ queue[d] # None
  /\ queue' = [queue EXCEPT ![d] = None]
  /\ UNCHANGED failed

(* The rename of OcrCache::park, and what it leaves when the rename fails: *)
(* the file of the same name under failed/ is removed before a second try. *)
Moved(d) ==
  /\ queue[d] # None
  /\ failed' = [failed EXCEPT ![d] = queue[d]]
  /\ queue' = [queue EXCEPT ![d] = None]

ParkFails(d) ==
  /\ failed' = [failed EXCEPT ![d] = None]
  /\ UNCHANGED queue

(* OcrCache::park.  The rename fails when the job file is gone. *)
park(d) ==
  \/ Moved(d) /\ NoFault
  \/ queue[d] = None /\ ParkFails(d) /\ NoFault
  \/ queue[d] # None /\ ParkFails(d) /\ Fault

(* OcrCache::get: an entry that cannot be read is a miss. *)
Miss(d) == (text[d] = None /\ NoFault) \/ (text[d] # None /\ Fault)
Hit(d) == text[d] # None /\ NoFault

-----------------------------------------------------------------------------
Init ==
  /\ bucket = Start
  /\ cdx = [k \in Keys |-> None]
  /\ docs = [k \in Keys |-> None]
  /\ seen = [k \in Keys |-> "new"]
  /\ text = [d \in Digests |-> None]
  /\ xhtml = {}
  /\ queue = [d \in Digests |-> None]
  /\ failed = [d \in Digests |-> None]
  /\ ipc = "idle"
  /\ ilist = [k \in Keys |-> None]
  /\ itodo = {}
  /\ ikey = None
  /\ iread = None
  /\ itext = None
  /\ wpc = [w \in Workers |-> "idle"]
  /\ wlimit = [w \in Workers |-> "low"]
  /\ rows = [w \in Workers |-> {}]
  /\ row = [w \in Workers |-> None]
  /\ st = [w \in Workers |-> NoTasks]
  /\ job = [w \in Workers |-> [d \in Digests |-> None]]
  /\ out = [w \in Workers |-> [d \in Digests |-> None]]
  /\ faults = 0
  /\ replaced = 0
  /\ wanted = {}
  /\ dropped = {}

(* The object is overwritten and its coordinates now hold x. *)
Replace(k, x) ==
  /\ replaced < MaxReplace
  /\ x # bucket[k]
  /\ replaced' = replaced + 1
  /\ bucket' = [bucket EXCEPT ![k] = x]
  /\ UNCHANGED <<archive, store, indexer, worker, faults, wanted, dropped>>

-----------------------------------------------------------------------------
(* The index run. *)

Goto(p) == ipc' = p
EndObject == ikey' = None /\ iread' = None /\ itext' = None
EndIndex ==
  /\ Goto("idle")
  /\ ilist' = [k \in Keys |-> None]
  /\ itodo' = {}
  /\ EndObject

(* run up to the listing: what is new or changed, or everything. *)
StartIndex(m) ==
  /\ ipc = "idle"
  /\ Goto("loop")
  /\ ilist' = bucket
  /\ itodo' = IF m = "force" THEN Keys ELSE {k \in Keys : seen[k] # bucket[k]}
  /\ UNCHANGED <<bucket, archive, store, ikey, iread, itext, worker, history>>

(* The GET of the next object. *)
ReadObject(k) ==
  /\ ipc = "loop"
  /\ k \in itodo
  /\ itodo' = itodo \ {k}
  /\ ikey' = k
  /\ iread' = bucket[k]
  /\ itext' = None
  /\ Goto(IF bucket[k] = None THEN "store" ELSE "lookup")
  /\ UNCHANGED <<bucket, archive, store, ilist, worker, history>>

(* build_index_doc: the cache is asked for the digest. *)
Lookup ==
  /\ ipc = "lookup"
  /\ \/ /\ Hit(iread)
        /\ itext' = text[iread]
        /\ Goto("store")
     \/ /\ Miss(iread)
        /\ Goto("queue")
        /\ UNCHANGED itext
  /\ UNCHANGED <<bucket, archive, store, ilist, itodo, ikey, iread, worker, replaced, wanted, dropped>>

(* build_index_doc: a miss is queued, and the run moves on in any case. *)
QueueMiss ==
  /\ ipc = "queue"
  /\ enqueue(iread, ikey)
  /\ Goto("store")
  /\ UNCHANGED <<bucket, archive, text, xhtml, failed, ilist, itodo, ikey, iread, itext, worker, replaced>>

(* The CDX upsert; rows of records no longer in the object stay. *)
StoreRow ==
  /\ ipc = "store"
  /\ cdx' = IF iread = None THEN cdx ELSE [cdx EXCEPT ![ikey] = iread]
  /\ Goto("commit")
  /\ UNCHANGED <<bucket, docs, seen, store, ilist, itodo, ikey, iread, itext, worker, history>>

(* The fulltext commit replaces the object's document. *)
CommitDoc ==
  /\ ipc = "commit"
  /\ docs' = [docs EXCEPT ![ikey] = Indexed(itext)]
  /\ Goto("mark")
  /\ UNCHANGED <<bucket, cdx, seen, store, ilist, itodo, ikey, iread, itext, worker, history>>

(* Mutant of MarkObject: the ETag the object has now, not the listed one. *)
MarkCurrent ==
  /\ ipc = "mark"
  /\ seen' = [seen EXCEPT ![ikey] = bucket[ikey]]
  /\ Goto("loop")
  /\ EndObject
  /\ UNCHANGED <<bucket, cdx, docs, store, ilist, itodo, worker, history>>

(* mark_seen with the ETag of the listing, and the state saved. *)
MarkObject ==
  /\ ipc = "mark"
  /\ seen' = [seen EXCEPT ![ikey] = ilist[ikey]]
  /\ Goto("loop")
  /\ EndObject
  /\ UNCHANGED <<bucket, cdx, docs, store, ilist, itodo, worker, history>>

(* An object that fails is skipped and not marked. *)
ObjectFails ==
  /\ ipc \in {"lookup", "store", "commit"}
  /\ Fault
  /\ Goto("loop")
  /\ EndObject
  /\ UNCHANGED <<bucket, archive, store, ilist, itodo, worker, replaced, wanted, dropped>>

FinishIndex ==
  /\ ipc = "loop"
  /\ itodo = {}
  /\ EndIndex
  /\ UNCHANGED <<bucket, archive, store, worker, history>>

CrashIndex ==
  /\ ipc # "idle"
  /\ Fault
  /\ EndIndex
  /\ UNCHANGED <<bucket, archive, store, worker, replaced, wanted, dropped>>

-----------------------------------------------------------------------------
(* A worker process w. *)

WGoto(w, p) == wpc' = [wpc EXCEPT ![w] = p]
Task(w, d, s) == st' = [st EXCEPT ![w][d] = s]
EndTask(w, d) ==
  /\ Task(w, d, "none")
  /\ job' = [job EXCEPT ![w][d] = None]
  /\ out' = [out EXCEPT ![w][d] = None]

(* run: the configuration is read; with --prefill the CDX is scanned. *)
StartWorker(w, m, l) ==
  /\ Idle(w)
  /\ wlimit' = [wlimit EXCEPT ![w] = l]
  /\ WGoto(w, IF m = "prefill" THEN "prefill" ELSE "list")
  /\ rows' = [rows EXCEPT ![w] = IF m = "prefill"
                THEN {<<k, cdx[k]>> : k \in {j \in Keys : cdx[j] # None}} ELSE {}]
  /\ UNCHANGED <<bucket, archive, store, indexer, row, st, job, out, history>>

(* for_each_warc_pdf: one row.  What is cached is left alone, and what     *)
(* cannot be fetched by itself is not queued.                              *)
PrefillRow(w, r) ==
  /\ wpc[w] = "prefill"
  /\ r \in rows[w]
  /\ rows' = [rows EXCEPT ![w] = @ \ {r}]
  /\ \/ /\ Hit(r[2])
        /\ UNCHANGED <<wpc, row>>
     \/ /\ Miss(r[2])
        /\ r[1] \notin Seekable
        /\ UNCHANGED <<wpc, row>>
     \/ /\ Miss(r[2])
        /\ r[1] \in Seekable
        /\ row' = [row EXCEPT ![w] = r]
        /\ WGoto(w, "enqueue")
  /\ UNCHANGED <<bucket, archive, store, indexer, wlimit, st, job, out, replaced, wanted, dropped>>

PrefillEnqueue(w) ==
  /\ wpc[w] = "enqueue"
  /\ enqueue(row[w][2], row[w][1])
  /\ WGoto(w, "prefill")
  /\ row' = [row EXCEPT ![w] = None]
  /\ UNCHANGED <<bucket, archive, text, xhtml, failed, indexer, wlimit, rows, st, job, out, replaced>>

PrefillDone(w) ==
  /\ wpc[w] = "prefill"
  /\ rows[w] = {}
  /\ WGoto(w, "list")
  /\ UNCHANGED <<bucket, archive, store, indexer, local, history>>

(* queued_jobs: read_dir, or nothing to do when the listing fails. *)
ListQueue(w) ==
  /\ wpc[w] = "list"
  /\ \/ /\ st' = [st EXCEPT ![w] = [d \in Digests |-> IF queue[d] # None THEN "named" ELSE "none"]]
        /\ WGoto(w, "read")
        /\ NoFault
     \/ /\ Fault
        /\ WGoto(w, "idle")
        /\ UNCHANGED st
  /\ UNCHANGED <<bucket, archive, store, indexer, wlimit, rows, row, job, out, replaced, wanted, dropped>>

(* queued_jobs: a listed file is read; when it is gone or cannot be read,  *)
(* it is parked.                                                           *)
ReadJob(w, d) ==
  /\ st[w][d] = "named"
  /\ \/ /\ queue[d] # None
        /\ job' = [job EXCEPT ![w][d] = queue[d]]
        /\ Task(w, d, "read")
        /\ NoFault
        /\ UNCHANGED <<queue, failed, out>>
     \/ /\ \/ queue[d] = None /\ park(d)
           \/ queue[d] # None /\ Fault /\ (Moved(d) \/ ParkFails(d))
        /\ EndTask(w, d)
  /\ UNCHANGED <<bucket, archive, text, xhtml, indexer, wpc, wlimit, rows, row, replaced, wanted, dropped>>

StartDrain(w) ==
  /\ wpc[w] = "read"
  /\ \A d \in Digests : st[w][d] # "named"
  /\ WGoto(w, IF st[w] = NoTasks THEN "idle" ELSE "drain")
  /\ UNCHANGED <<bucket, archive, store, indexer, local, history>>

(* The loop of run: a permit is acquired and the task spawned. *)
Spawn(w, d) ==
  /\ wpc[w] = "drain"
  /\ st[w][d] = "read"
  /\ Cardinality({e \in Digests : st[w][e] \in Active}) < Permits
  /\ Task(w, d, "check")
  /\ UNCHANGED <<bucket, archive, store, indexer, wpc, wlimit, rows, row, job, out, history>>

(* The task asks the cache once more. *)
CheckCache(w, d) ==
  /\ st[w][d] = "check"
  /\ \/ Hit(d) /\ Task(w, d, "remove")
     \/ Miss(d) /\ Task(w, d, "run")
  /\ UNCHANGED <<bucket, archive, store, indexer, wpc, wlimit, rows, row, job, out, replaced, wanted, dropped>>

(* run_job: the record is fetched and its text extracted. *)
RunJob(w, d) ==
  /\ st[w][d] = "run"
  /\ LET r == fetch_and_extract(job[w][d], wlimit[w]) IN
     \/ /\ r # "error"
        /\ out' = [out EXCEPT ![w][d] = r]
        /\ Task(w, d, "put")
        /\ NoFault
     \/ /\ (r = "error" /\ NoFault) \/ Fault
        /\ Task(w, d, "retry")
        /\ UNCHANGED out
  /\ UNCHANGED <<bucket, archive, store, indexer, wpc, wlimit, rows, row, job, replaced, wanted, dropped>>

(* Mutant of put: the job is removed although its answer was not stored. *)
PutErrorIgnored(w, d) ==
  /\ st[w][d] = "put"
  /\ \/ text' = [text EXCEPT ![d] = out[w][d]] /\ NoFault
     \/ Fault /\ UNCHANGED text
  /\ Task(w, d, "remove")
  /\ UNCHANGED <<bucket, archive, xhtml, queue, failed, indexer, wpc, wlimit, rows, row, job, out, replaced, wanted, dropped>>

(* run_job: the answer is stored before the job goes.  When that fails the *)
(* job stays as it is.                                                     *)
put(w, d) ==
  /\ st[w][d] = "put"
  /\ \/ /\ text' = [text EXCEPT ![d] = out[w][d]]
        /\ Task(w, d, IF KeepXhtml /\ out[w][d] # "empty" THEN "markup" ELSE "remove")
        /\ NoFault
        /\ UNCHANGED <<job, out>>
     \/ /\ Fault
        /\ EndTask(w, d)
        /\ UNCHANGED text
  /\ UNCHANGED <<bucket, archive, xhtml, queue, failed, indexer, wpc, wlimit, rows, row, replaced, wanted, dropped>>

(* run_job: the XHTML is kept on a best-effort basis. *)
put_xhtml(w, d) ==
  /\ st[w][d] = "markup"
  /\ \/ xhtml' = xhtml \cup {d} /\ NoFault
     \/ Fault /\ UNCHANGED xhtml
  /\ Task(w, d, "remove")
  /\ UNCHANGED <<bucket, archive, text, queue, failed, indexer, wpc, wlimit, rows, row, job, out, replaced, wanted, dropped>>

(* OcrCache::remove_job: whatever is under the name by now. *)
remove_job(w, d) ==
  /\ st[w][d] = "remove"
  /\ \/ queue' = [queue EXCEPT ![d] = None] /\ NoFault
     \/ Fault /\ UNCHANGED queue
  /\ EndTask(w, d)
  /\ UNCHANGED <<bucket, archive, text, xhtml, failed, indexer, wpc, wlimit, rows, row, replaced, wanted, dropped>>

(* Mutants of retry: one attempt too many, and a counter that is not bumped. *)
WriteBack(w, d, n, limit) ==
  /\ st[w][d] = "retry"
  /\ \/ n >= limit /\ park(d)
     \/ /\ n < limit
        /\ queue' = [queue EXCEPT ![d] = [job[w][d] EXCEPT !.attempts = n]]
        /\ NoFault
        /\ UNCHANGED failed
  /\ EndTask(w, d)
  /\ UNCHANGED <<bucket, archive, text, xhtml, indexer, wpc, wlimit, rows, row, replaced, wanted, dropped>>
retry_late(w, d) == WriteBack(w, d, job[w][d].attempts + 1, MaxAttempts + 1)
retry_uncounted(w, d) == WriteBack(w, d, job[w][d].attempts, MaxAttempts)

(* OcrCache::retry: parked after max_attempts, otherwise written back with *)
(* the counter of the job that was read, bumped.                           *)
retry(w, d) ==
  /\ st[w][d] = "retry"
  /\ LET n == job[w][d].attempts + 1 IN
     \/ n >= MaxAttempts /\ park(d)
     \/ /\ n < MaxAttempts
        /\ \/ queue' = [queue EXCEPT ![d] = [job[w][d] EXCEPT !.attempts = n]] /\ NoFault
           \/ Fault /\ UNCHANGED queue
        /\ UNCHANGED failed
  /\ EndTask(w, d)
  /\ UNCHANGED <<bucket, archive, text, xhtml, indexer, wpc, wlimit, rows, row, replaced, wanted, dropped>>

(* All tasks have been joined. *)
FinishWorker(w) ==
  /\ wpc[w] = "drain"
  /\ st[w] = NoTasks
  /\ WGoto(w, "idle")
  /\ UNCHANGED <<bucket, archive, store, indexer, local, history>>

CrashWorker(w) ==
  /\ ~Idle(w)
  /\ Fault
  /\ WGoto(w, "idle")
  /\ st' = [st EXCEPT ![w] = NoTasks]
  /\ rows' = [rows EXCEPT ![w] = {}]
  /\ row' = [row EXCEPT ![w] = None]
  /\ job' = [job EXCEPT ![w] = [d \in Digests |-> None]]
  /\ out' = [out EXCEPT ![w] = [d \in Digests |-> None]]
  /\ UNCHANGED <<bucket, archive, store, indexer, wlimit, replaced, wanted, dropped>>

-----------------------------------------------------------------------------
IndexStep ==
  \/ \E k \in Keys : ReadObject(k)
  \/ Lookup
  \/ QueueMiss
  \/ StoreRow
  \/ CommitDoc
  \/ MarkObject
  \/ ObjectFails
  \/ FinishIndex

TaskStep(w, d) ==
  \/ ReadJob(w, d)
  \/ Spawn(w, d)
  \/ CheckCache(w, d)
  \/ RunJob(w, d)
  \/ put(w, d)
  \/ put_xhtml(w, d)
  \/ remove_job(w, d)
  \/ retry(w, d)

WorkerStep(w) ==
  \/ \E r \in rows[w] : PrefillRow(w, r)
  \/ PrefillEnqueue(w)
  \/ PrefillDone(w)
  \/ ListQueue(w)
  \/ StartDrain(w)
  \/ \E d \in Digests : TaskStep(w, d)
  \/ FinishWorker(w)

Next ==
  \/ \E k \in Keys : \E x \in Contents : Replace(k, x)
  \/ \E m \in IndexKinds : StartIndex(m)
  \/ IndexStep
  \/ CrashIndex
  \/ \E w \in Workers : \E m \in WorkerKinds : \E l \in Limits : StartWorker(w, m, l)
  \/ \E w \in Workers : WorkerStep(w)
  \/ \E w \in Workers : CrashWorker(w)

Spec == Init /\ [][Next]_vars

(* The index run is started by a timer, the worker by its operator, both   *)
(* again and again; a started one takes its next step unless it is killed: *)
(* it waits for no other process.                                          *)
FairSpec ==
  /\ Spec
  /\ WF_vars(IndexStep)
  /\ WF_vars(StartIndex("plain"))
  /\ \A w \in Workers : WF_vars(WorkerStep(w))
  /\ \A w \in Workers : WF_vars(\E m \in WorkerKinds : \E l \in Limits : StartWorker(w, m, l))

-----------------------------------------------------------------------------
(* Properties *)

TypeOK ==
  /\ bucket \in [Keys -> Contents]
  /\ cdx \in [Keys -> Contents]
  /\ docs \in [Keys -> Contents]
  /\ seen \in [Keys -> Contents \cup {"new"}]
  /\ text \in [Digests -> Answers \cup {None}]
  /\ xhtml \in SUBSET Digests
  /\ queue \in [Digests -> Jobs \cup {None}]
  /\ failed \in [Digests -> Jobs \cup {None}]
  /\ ipc \in {"idle", "loop", "lookup", "queue", "store", "commit", "mark"}
  /\ ilist \in [Keys -> Contents]
  /\ itodo \in SUBSET Keys
  /\ ikey \in Keys \cup {None}
  /\ iread \in Contents
  /\ itext \in Answers \cup {None}
  /\ wpc \in [Workers -> {"idle", "prefill", "enqueue", "list", "read", "drain"}]
  /\ wlimit \in [Workers -> {"low", "high"}]
  /\ rows \in [Workers -> SUBSET (Keys \X Digests)]
  /\ row \in [Workers -> (Keys \X Digests) \cup {None}]
  /\ st \in [Workers -> [Digests -> TaskStates]]
  /\ job \in [Workers -> [Digests -> Jobs \cup {None}]]
  /\ out \in [Workers -> [Digests -> Answers \cup {None}]]
  /\ faults \in 0..MaxFaults
  /\ replaced \in 0..MaxReplace
  /\ wanted \in SUBSET Digests
  /\ dropped \in SUBSET Digests

(* A queued digest is never lost: from the first time it is queued it has  *)
(* a cache entry, a job in queue/ or a job in failed/, whatever fails and  *)
(* whoever is killed (ocr_cache.rs, put: "a failed store costs a           *)
(* re-extraction, never a lost job").  With one worker process.            *)
Kept(d) == text[d] # None \/ queue[d] # None \/ failed[d] # None
NoLostJob == \A d \in wanted : Kept(d)

(* A job file leaves queue/ only when its text is in the cache or the job  *)
(* lies in failed/ (remove_job: "Its text (or negative entry) must already *)
(* be in the cache").  With any number of worker processes.                *)
LeavesAnswered ==
  [][\A d \in Digests : queue[d] # None /\ queue'[d] = None
       => text[d] # None \/ failed'[d] # None]_vars

(* The entry under a digest is the text of that content, or "empty" for a  *)
(* content that has none: what OcrCache::get returns belongs to the digest *)
(* it is asked for.  Holds as long as no object is replaced.               *)
TextIsOwn ==
  \A d \in Digests :
    text[d] \in {d, None} \/ (text[d] = "empty" /\ Kind[d] \in {"blank", "big"})

(* An object the state file answers for lacks its fulltext only as long as *)
(* the digest is in the cache, queued or parked - or could not be queued,  *)
(* which is logged.  With one worker process, and as long as no object     *)
(* gets a content back that a running index run has listed: it would read  *)
(* another one in between and mark the listed ETag all the same.           *)
SeenIsAccounted ==
  \A k \in Keys : seen[k] = bucket[k] /\ bucket[k] # None
                     => bucket[k] \in dropped \/ Kept(bucket[k])

(* The history of each digest is one JobLife allows: an answer is final,   *)
(* and a digest becomes pending, answered or parked but never unknown.     *)
Status == [d \in Digests |->
             IF text[d] # None THEN "answered"
             ELSE IF queue[d] # None THEN "pending"
             ELSE IF failed[d] # None THEN "parked" ELSE "unknown"]
Life == INSTANCE JobLife WITH status <- Status
ImplementsJobLife == Life!Spec

(* Every job leaves the queue: it is answered, or parked after             *)
(* max_attempts ("visible instead of looping forever").                    *)
QueueDrains == \A d \in Digests : queue[d] # None ~> queue[d] = None
=============================================================================
