----------------------------- MODULE OcrProofs ------------------------------
(***************************************************************************)
(* Proofs about OcrQueue: the type invariant, that a job leaves the queue  *)
(* only answered or parked and that an entry is the text of its digest     *)
(* (any number of worker processes), and, for one worker process, that no  *)
(* job is lost, that JobLife is implemented and that what the state file   *)
(* answers for is accounted for.                                           *)
(***************************************************************************)
EXTENDS OcrQueue, TLAPS

-----------------------------------------------------------------------------
(* Type correctness. *)

(* The locals an action reads have been set when its step is reached. *)
IndexLocals ==
  /\ ipc \in {"lookup", "queue", "store", "commit", "mark"} => ikey \in Keys
  /\ ipc \in {"lookup", "queue"} => iread \in Digests
WorkerLocals ==
  \A w \in Workers :
    /\ wpc[w] = "enqueue" => row[w] \in Keys \X Digests
    /\ \A d \in Digests : st[w][d] \notin {"none", "named"} => job[w][d] \in Jobs
    /\ \A d \in Digests : st[w][d] = "put" => out[w][d] \in Answers
TInv == TypeOK /\ IndexLocals /\ WorkerLocals

(* The initial state satisfies the type invariant. *)
LEMMA TypeInit == Init => TInv
BY DataAssumption DEF Init, TInv, TypeOK, IndexLocals, WorkerLocals, NoTasks, Contents,
     TaskStates

(* What the operators return. *)
LEMMA ExtractType ==
  ASSUME TInv, NEW j \in Jobs, NEW l
  PROVE  fetch_and_extract(j, l) \in Answers \cup {"error"}
BY DEF TInv, TypeOK, fetch_and_extract, Extract, Answers, Jobs, Contents

(* A queued job is a job. *)
LEMMA EnqueueType ==
  ASSUME TInv, NEW d \in Digests, NEW k \in Keys, enqueue(d, k)
  PROVE  /\ queue' \in [Digests -> Jobs \cup {None}]
         /\ faults' \in 0..MaxFaults
         /\ wanted' \in SUBSET Digests
         /\ dropped' \in SUBSET Digests
<1> DEFINE j == [key |-> k, attempts |-> 0]
<1>1. j \in Jobs
  BY DataAssumption DEF Jobs
<1> HIDE DEF j
<1>2. enqueue(d, k) => \/ queue' = [queue EXCEPT ![d] = j]
                       \/ queue' = queue
  BY DEF enqueue, j
<1>3. queue' \in [Digests -> Jobs \cup {None}]
  BY <1>1, <1>2 DEF TInv, TypeOK
<1>4. QED
  BY <1>3, DataAssumption DEF enqueue, TInv, TypeOK, Fault, NoFault

(* Parking, like its two outcomes, moves jobs about and makes none. *)
LEMMA MoveType ==
  ASSUME TInv, NEW d \in Digests, Moved(d) \/ ParkFails(d)
  PROVE  /\ queue' \in [Digests -> Jobs \cup {None}]
         /\ failed' \in [Digests -> Jobs \cup {None}]
BY DEF Moved, ParkFails, TInv, TypeOK

(* A fault is counted within the bound. *)
LEMMA FaultType ==
  ASSUME TInv, Fault \/ NoFault
  PROVE  faults' \in 0..MaxFaults
BY DataAssumption DEF TInv, TypeOK, Fault, NoFault

(* One entry of a table per process and digest is overwritten. *)
LEMMA Overwrite ==
  ASSUME NEW S, NEW f \in [Workers -> [Digests -> S]],
         NEW w \in Workers, NEW d \in Digests, NEW x \in S
  PROVE  /\ [f EXCEPT ![w][d] = x] \in [Workers -> [Digests -> S]]
         /\ \A v \in Workers : \A e \in Digests :
              [f EXCEPT ![w][d] = x][v][e] = IF v = w /\ e = d THEN x ELSE f[v][e]
OBVIOUS

(* The table st after task d of process w has moved to state s. *)
Becomes(w, d, s) ==
  /\ st' \in [Workers -> [Digests -> TaskStates]]
  /\ \A v \in Workers : \A e \in Digests :
       st'[v][e] = IF v = w /\ e = d THEN s ELSE st[v][e]

(* The tables after it has ended: what it held is gone. *)
Ended(w, d) ==
  /\ Becomes(w, d, "none")
  /\ job' \in [Workers -> [Digests -> Jobs \cup {None}]]
  /\ out' \in [Workers -> [Digests -> Answers \cup {None}]]
  /\ \A v \in Workers : \A e \in Digests :
       /\ job'[v][e] = IF v = w /\ e = d THEN None ELSE job[v][e]
       /\ out'[v][e] = IF v = w /\ e = d THEN None ELSE out[v][e]

(* A step of one task leaves the others alone. *)
LEMMA TaskType ==
  ASSUME TInv, NEW w \in Workers, NEW d \in Digests, NEW s \in TaskStates, Task(w, d, s)
  PROVE  Becomes(w, d, s)
BY Overwrite DEF TInv, TypeOK, Task, Becomes

(* The end of a task clears what it held and nothing else. *)
LEMMA EndTaskType ==
  ASSUME TInv, NEW w \in Workers, NEW d \in Digests, EndTask(w, d)
  PROVE  Ended(w, d)
<1>1. /\ job' \in [Workers -> [Digests -> Jobs \cup {None}]]
      /\ \A v \in Workers : \A e \in Digests :
           job'[v][e] = IF v = w /\ e = d THEN None ELSE job[v][e]
  BY Overwrite DEF TInv, TypeOK, EndTask
<1>2. /\ out' \in [Workers -> [Digests -> Answers \cup {None}]]
      /\ \A v \in Workers : \A e \in Digests :
           out'[v][e] = IF v = w /\ e = d THEN None ELSE out[v][e]
  BY Overwrite DEF TInv, TypeOK, EndTask
<1>3. "none" \in TaskStates
  BY DEF TaskStates
<1>4. QED
  BY <1>1, <1>2, <1>3, TaskType DEF EndTask, Ended

(* The other tasks keep their locals. *)
LEMMA EndedLocals ==
  ASSUME TInv, NEW w \in Workers, NEW d \in Digests, Ended(w, d), UNCHANGED <<wpc, row>>
  PROVE  WorkerLocals'
<1> SUFFICES ASSUME NEW v \in Workers, NEW e \in Digests
             PROVE  /\ wpc'[v] = "enqueue" => row'[v] \in Keys \X Digests
                    /\ st'[v][e] \notin {"none", "named"} => job'[v][e] \in Jobs
                    /\ st'[v][e] = "put" => out'[v][e] \in Answers
  BY DEF WorkerLocals, TInv
<1>1. CASE v = w /\ e = d
  BY <1>1 DEF Ended, Becomes, TInv, WorkerLocals
<1>2. CASE ~(v = w /\ e = d)
  BY <1>2 DEF Ended, Becomes, TInv, WorkerLocals
<1>3. QED
  BY <1>1, <1>2

(* Every step preserves it. *)
LEMMA TypeStep ==
  TInv /\ [Next]_vars => TInv'
<1> SUFFICES ASSUME TInv, [Next]_vars
             PROVE  TInv'
  OBVIOUS
<1>1. ASSUME NEW k \in Keys, NEW x \in Contents, Replace(k, x) PROVE TInv'
  BY <1>1, DataAssumption DEF Replace, archive, store, indexer, local, worker, history,
    TInv, TypeOK, IndexLocals, WorkerLocals, Contents, Answers, Jobs, TaskStates,
    NoTasks
<1>2. ASSUME NEW m \in IndexKinds, StartIndex(m) PROVE TInv'
  BY <1>2, DataAssumption DEF StartIndex, Goto, archive, store, indexer, local, worker,
    history, TInv, TypeOK, IndexLocals, WorkerLocals, Contents, Answers, Jobs,
    TaskStates, NoTasks
<1>3. ASSUME NEW k \in Keys, ReadObject(k) PROVE TInv'
  BY <1>3, DataAssumption DEF ReadObject, Goto, archive, store, indexer, local, worker,
    history, TInv, TypeOK, IndexLocals, WorkerLocals, Contents, Answers, Jobs,
    TaskStates, NoTasks
<1>4. CASE Lookup
  BY <1>4, DataAssumption DEF Lookup, Hit, Miss, Goto, Fault, NoFault, archive, store,
    indexer, local, worker, history, TInv, TypeOK, IndexLocals, WorkerLocals, Contents,
    Answers, Jobs, TaskStates, NoTasks
<1>5. CASE QueueMiss
  BY <1>5, EnqueueType, DataAssumption DEF QueueMiss, Goto, archive, store, indexer, local,
    worker, history, TInv, TypeOK, IndexLocals, WorkerLocals, Contents, Answers,
    TaskStates
<1>6. CASE StoreRow
  BY <1>6, DataAssumption DEF StoreRow, Goto, archive, store, indexer, local, worker,
    history, TInv, TypeOK, IndexLocals, WorkerLocals, Contents, Answers, Jobs,
    TaskStates, NoTasks
<1>7. CASE CommitDoc
  BY <1>7, DataAssumption DEF CommitDoc, Goto, Indexed, archive, store, indexer, local,
    worker, history, TInv, TypeOK, IndexLocals, WorkerLocals, Contents, Answers, Jobs,
    TaskStates, NoTasks
<1>8. CASE MarkObject
  BY <1>8, DataAssumption DEF MarkObject, Goto, EndObject, archive, store, indexer,
    local, worker, history, TInv, TypeOK, IndexLocals, WorkerLocals, Contents, Answers,
    Jobs, TaskStates, NoTasks
<1>9. CASE ObjectFails
  BY <1>9, DataAssumption DEF ObjectFails, Goto, EndObject, Fault, archive, store,
    indexer, local, worker, history, TInv, TypeOK, IndexLocals, WorkerLocals, Contents,
    Answers, Jobs, TaskStates, NoTasks
<1>10. CASE FinishIndex
  BY <1>10, DataAssumption DEF FinishIndex, EndIndex, EndObject, Goto, archive, store,
    indexer, local, worker, history, TInv, TypeOK, IndexLocals, WorkerLocals, Contents,
    Answers, Jobs, TaskStates, NoTasks
<1>11. CASE CrashIndex
  BY <1>11, DataAssumption DEF CrashIndex, EndIndex, EndObject, Goto, Fault, archive,
    store, indexer, local, worker, history, TInv, TypeOK, IndexLocals, WorkerLocals,
    Contents, Answers, Jobs, TaskStates, NoTasks
<1>12. ASSUME NEW w \in Workers, NEW m \in WorkerKinds, NEW l \in Limits,
             StartWorker(w, m, l)
      PROVE  TInv'
  BY <1>12, DataAssumption DEF StartWorker, WGoto, Idle, archive, store, indexer, local,
    worker, history, TInv, TypeOK, IndexLocals, WorkerLocals, Contents, Answers, Jobs,
    TaskStates, NoTasks
<1>13. ASSUME NEW w \in Workers, NEW r \in rows[w], PrefillRow(w, r) PROVE TInv'
  <2>1. r \in Keys \X Digests
    BY <1>13 DEF TInv, TypeOK
  <2>2. faults' \in 0..MaxFaults
    BY <1>13, FaultType DEF PrefillRow, Hit, Miss
  <2>3. rows' \in [Workers -> SUBSET (Keys \X Digests)]
    BY <1>13 DEF PrefillRow, TInv, TypeOK
  <2>4. CASE UNCHANGED <<wpc, row>>
    BY <1>13, <2>2, <2>3, <2>4 DEF PrefillRow, archive, store, indexer, local, worker,
      history, TInv, TypeOK, IndexLocals, WorkerLocals
  <2>5. CASE row' = [row EXCEPT ![w] = r] /\ WGoto(w, "enqueue")
    <3>1. /\ row' \in [Workers -> (Keys \X Digests) \cup {None}]
          /\ wpc' \in [Workers -> {"idle", "prefill", "enqueue", "list", "read", "drain"}]
          /\ \A v \in Workers : wpc'[v] = "enqueue" => row'[v] \in Keys \X Digests
      BY <2>1, <2>5 DEF WGoto, TInv, TypeOK, WorkerLocals
    <3>2. QED
      BY <1>13, <2>2, <2>3, <3>1 DEF PrefillRow, archive, store, indexer, local, worker,
      history, TInv, TypeOK, IndexLocals, WorkerLocals
  <2>6. QED
    BY <1>13, <2>4, <2>5 DEF PrefillRow
<1>14. ASSUME NEW w \in Workers, PrefillEnqueue(w) PROVE TInv'
  <2>1. row[w][1] \in Keys /\ row[w][2] \in Digests
    BY <1>14 DEF PrefillEnqueue, TInv, WorkerLocals, Becomes
  <2>2. /\ queue' \in [Digests -> Jobs \cup {None}]
        /\ faults' \in 0..MaxFaults
        /\ wanted' \in SUBSET Digests
        /\ dropped' \in SUBSET Digests
    BY <1>14, <2>1, EnqueueType DEF PrefillEnqueue
  <2>3. QED
    BY <1>14, <2>2, DataAssumption DEF PrefillEnqueue, WGoto, archive, store, indexer, local,
      worker, history, TInv, TypeOK, IndexLocals, WorkerLocals, Contents, Answers,
      TaskStates
<1>15. ASSUME NEW w \in Workers, PrefillDone(w) PROVE TInv'
  BY <1>15, DataAssumption DEF PrefillDone, WGoto, archive, store, indexer, local,
    worker, history, TInv, TypeOK, IndexLocals, WorkerLocals, Contents, Answers, Jobs,
    TaskStates, NoTasks
<1>16. ASSUME NEW w \in Workers, ListQueue(w) PROVE TInv'
  <2>1. faults' \in 0..MaxFaults
    BY <1>16, FaultType DEF ListQueue
  <2>2. CASE WGoto(w, "idle") /\ UNCHANGED st
    BY <1>16, <2>1, <2>2 DEF ListQueue, WGoto, archive, store, indexer, local, worker,
      history, TInv, TypeOK, IndexLocals, WorkerLocals
  <2> DEFINE names == [d \in Digests |-> IF queue[d] # None THEN "named" ELSE "none"]
  <2>3. CASE WGoto(w, "read") /\ st' = [st EXCEPT ![w] = names]
    <3>1. names \in [Digests -> TaskStates] /\ \A d \in Digests : names[d] \in {"none", "named"}
      BY DEF TaskStates
    <3> HIDE DEF names
    <3>2. /\ st' \in [Workers -> [Digests -> TaskStates]]
          /\ wpc' \in [Workers -> {"idle", "prefill", "enqueue", "list", "read", "drain"}]
          /\ \A v \in Workers : wpc'[v] = "enqueue" => v # w /\ wpc[v] = "enqueue"
          /\ \A v \in Workers : \A d \in Digests :
               st'[v][d] \in {"none", "named"} \/ st'[v][d] = st[v][d]
      BY <3>1, <2>3 DEF WGoto, TInv, TypeOK
    <3>3. WorkerLocals'
      BY <1>16, <3>2 DEF ListQueue, TInv, WorkerLocals
    <3>4. QED
      BY <1>16, <2>1, <3>2, <3>3 DEF ListQueue, archive, store, indexer, local, worker, history,
      TInv, TypeOK, IndexLocals
  <2>4. QED
    BY <1>16, <2>2, <2>3 DEF ListQueue
<1>17. ASSUME NEW w \in Workers, StartDrain(w) PROVE TInv'
  BY <1>17, DataAssumption DEF StartDrain, WGoto, archive, store, indexer, local,
    worker, history, TInv, TypeOK, IndexLocals, WorkerLocals, Contents, Answers, Jobs,
    TaskStates, NoTasks
<1>18. ASSUME NEW w \in Workers, NEW d \in Digests, ReadJob(w, d) PROVE TInv'
  <2>1. faults' \in 0..MaxFaults
    BY <1>18, FaultType DEF ReadJob, park
  <2>2. /\ queue' \in [Digests -> Jobs \cup {None}]
        /\ failed' \in [Digests -> Jobs \cup {None}]
    BY <1>18, MoveType DEF ReadJob, park, TInv, TypeOK
  <2>3. CASE EndTask(w, d)
    <3>0. Ended(w, d)
      BY <2>3, EndTaskType
    <3>1. WorkerLocals'
      BY <1>18, <3>0, EndedLocals DEF ReadJob
    <3>2. QED
      BY <1>18, <2>1, <2>2, <3>0, <3>1 DEF ReadJob, archive, store, indexer, local, worker,
      history, TInv, TypeOK, IndexLocals, Becomes, Ended
  <2>4. CASE /\ queue[d] # None /\ Task(w, d, "read") /\ UNCHANGED out
             /\ job' = [job EXCEPT ![w][d] = queue[d]]
    <3>1. queue[d] \in Jobs
      BY <2>4 DEF TInv, TypeOK
    <3>2. /\ job' \in [Workers -> [Digests -> Jobs \cup {None}]]
          /\ \A v \in Workers : \A e \in Digests :
               job'[v][e] = IF v = w /\ e = d THEN queue[d] ELSE job[v][e]
      BY <2>4, <3>1, Overwrite DEF TInv, TypeOK
    <3>3. Becomes(w, d, "read")
      BY <2>4, TaskType DEF TaskStates
    <3>4. WorkerLocals'
      BY <1>18, <2>4, <3>1, <3>2, <3>3 DEF ReadJob, TInv, WorkerLocals, Becomes
    <3>5. QED
      BY <1>18, <2>1, <2>2, <2>4, <3>2, <3>3, <3>4 DEF ReadJob, archive, store, indexer, local,
      worker, history, TInv, TypeOK, IndexLocals, Becomes, Ended
  <2>5. QED
    BY <1>18, <2>3, <2>4 DEF ReadJob
<1>19. ASSUME NEW w \in Workers, NEW d \in Digests, Spawn(w, d) PROVE TInv'
  <2>1. Becomes(w, d, "check")
    BY <1>19, TaskType DEF Spawn, TaskStates
  <2>2. WorkerLocals'
    BY <1>19, <2>1 DEF Spawn, TInv, WorkerLocals, Becomes
  <2>3. QED
    BY <1>19, <2>1, <2>2 DEF Spawn, archive, store, indexer, local, worker, history, TInv,
      TypeOK, IndexLocals, Becomes, Ended
<1>20. ASSUME NEW w \in Workers, NEW d \in Digests, CheckCache(w, d) PROVE TInv'
  <2>1. faults' \in 0..MaxFaults
    BY <1>20, FaultType DEF CheckCache, Hit, Miss
  <2>2. PICK s \in {"remove", "run"} : Task(w, d, s)
    BY <1>20 DEF CheckCache
  <2>3. Becomes(w, d, s)
    BY <2>2, TaskType DEF TaskStates
  <2>4. WorkerLocals'
    BY <1>20, <2>3 DEF CheckCache, TInv, WorkerLocals, Becomes
  <2>5. QED
    BY <1>20, <2>1, <2>3, <2>4 DEF CheckCache, archive, store, indexer, local, worker,
      history, TInv, TypeOK, IndexLocals, Becomes, Ended
<1>21. ASSUME NEW w \in Workers, NEW d \in Digests, RunJob(w, d) PROVE TInv'
  <2> DEFINE r == fetch_and_extract(job[w][d], wlimit[w])
  <2>1. faults' \in 0..MaxFaults
    BY <1>21, FaultType DEF RunJob
  <2>2. r \in Answers \cup {"error"}
    BY <1>21, ExtractType DEF RunJob, TInv, WorkerLocals, Becomes
  <2>3. \/ r # "error" /\ out' = [out EXCEPT ![w][d] = r] /\ Task(w, d, "put")
        \/ Task(w, d, "retry") /\ UNCHANGED out
    BY <1>21 DEF RunJob
  <2> HIDE DEF r
  <2>4. CASE r # "error" /\ out' = [out EXCEPT ![w][d] = r] /\ Task(w, d, "put")
    <3>1. /\ out' \in [Workers -> [Digests -> Answers \cup {None}]]
          /\ \A v \in Workers : \A e \in Digests :
               out'[v][e] = IF v = w /\ e = d THEN r ELSE out[v][e]
      BY <2>2, <2>4, Overwrite DEF TInv, TypeOK
    <3>2. Becomes(w, d, "put")
      BY <2>4, TaskType DEF TaskStates
    <3>3. WorkerLocals'
      <4>1. UNCHANGED <<wpc, row, job>> /\ st[w][d] = "run" /\ r \in Answers
        BY <1>21, <2>2, <2>4 DEF RunJob
      <4>2. ASSUME NEW v \in Workers, NEW e \in Digests
            PROVE  /\ st'[v][e] \notin {"none", "named"} => job'[v][e] \in Jobs
                   /\ st'[v][e] = "put" => out'[v][e] \in Answers
        <5>1. /\ st'[v][e] = IF v = w /\ e = d THEN "put" ELSE st[v][e]
              /\ out'[v][e] = IF v = w /\ e = d THEN r ELSE out[v][e]
          BY <3>1, <3>2 DEF Becomes
        <5>2. QED
          BY <4>1, <5>1 DEF TInv, WorkerLocals
      <4>3. QED
        BY <4>1, <4>2 DEF TInv, WorkerLocals
    <3>4. QED
      BY <1>21, <2>1, <3>1, <3>2, <3>3 DEF RunJob, archive, store, indexer, local, worker,
      history, TInv, TypeOK, IndexLocals, Becomes, Ended
  <2>5. CASE Task(w, d, "retry") /\ UNCHANGED out
    <3>1. Becomes(w, d, "retry")
      BY <2>5, TaskType DEF TaskStates
    <3>2. WorkerLocals'
      BY <1>21, <2>5, <3>1 DEF RunJob, TInv, WorkerLocals, Becomes
    <3>3. QED
      BY <1>21, <2>1, <2>5, <3>1, <3>2 DEF RunJob, archive, store, indexer, local, worker,
      history, TInv, TypeOK, IndexLocals, Becomes, Ended
  <2>6. QED
    BY <2>3, <2>4, <2>5
<1>22. ASSUME NEW w \in Workers, NEW d \in Digests, put(w, d) PROVE TInv'
  <2>1. faults' \in 0..MaxFaults
    BY <1>22, FaultType DEF put
  <2>2. CASE EndTask(w, d) /\ UNCHANGED text
    <3>0. Ended(w, d)
      BY <2>2, EndTaskType
    <3>1. WorkerLocals'
      BY <1>22, <3>0, EndedLocals DEF put
    <3>2. QED
      BY <1>22, <2>1, <2>2, <3>0, <3>1 DEF put, archive, store, indexer, local, worker, history,
      TInv, TypeOK, IndexLocals, Becomes, Ended
  <2>3. CASE /\ text' = [text EXCEPT ![d] = out[w][d]]
             /\ \E s \in {"markup", "remove"} : Task(w, d, s)
             /\ UNCHANGED <<job, out>>
    <3>1. out[w][d] \in Answers
      BY <1>22 DEF put, TInv, WorkerLocals, Becomes
    <3>2. text' \in [Digests -> Answers \cup {None}]
      BY <2>3, <3>1 DEF TInv, TypeOK
    <3>3. PICK s \in {"markup", "remove"} : Task(w, d, s)
      BY <2>3
    <3>4. Becomes(w, d, s)
      BY <3>3, TaskType DEF TaskStates
    <3>5. WorkerLocals'
      BY <1>22, <2>3, <3>4 DEF put, TInv, WorkerLocals, Becomes
    <3>6. QED
      BY <1>22, <2>1, <2>3, <3>2, <3>4, <3>5 DEF put, archive, store, indexer, local, worker,
      history, TInv, TypeOK, IndexLocals, Becomes, Ended
  <2>4. QED
    BY <1>22, <2>2, <2>3 DEF put
<1>23. ASSUME NEW w \in Workers, NEW d \in Digests, put_xhtml(w, d) PROVE TInv'
  BY <1>23, DataAssumption DEF put_xhtml, Task, Fault, NoFault, archive, store, indexer,
    local, worker, history, TInv, TypeOK, IndexLocals, WorkerLocals, Contents, Answers,
    Jobs, TaskStates, NoTasks
<1>24. ASSUME NEW w \in Workers, NEW d \in Digests, remove_job(w, d) PROVE TInv'
  BY <1>24, DataAssumption DEF remove_job, Task, EndTask, Fault, NoFault, archive,
    store, indexer, local, worker, history, TInv, TypeOK, IndexLocals, WorkerLocals,
    Contents, Answers, Jobs, TaskStates, NoTasks
<1>25. ASSUME NEW w \in Workers, NEW d \in Digests, retry(w, d) PROVE TInv'
  <2> DEFINE n == job[w][d].attempts + 1
             j == [job[w][d] EXCEPT !.attempts = n]
  <2>1. faults' \in 0..MaxFaults
    BY <1>25, FaultType DEF retry, park
  <2>2. job[w][d] \in Jobs
    BY <1>25 DEF retry, TInv, WorkerLocals, Becomes
  <2>3. n < MaxAttempts => j \in Jobs
    BY <2>2, DataAssumption DEF Jobs
  <2>4. \/ Moved(d) \/ ParkFails(d)
        \/ n < MaxAttempts /\ queue' = [queue EXCEPT ![d] = j] /\ failed' = failed
        \/ queue' = queue /\ failed' = failed
    BY <1>25 DEF retry, park
  <2> HIDE DEF n, j
  <2>5. /\ queue' \in [Digests -> Jobs \cup {None}]
        /\ failed' \in [Digests -> Jobs \cup {None}]
    BY <2>3, <2>4, MoveType DEF TInv, TypeOK
  <2>6. Ended(w, d)
    BY <1>25, EndTaskType DEF retry
  <2>7. WorkerLocals'
    BY <1>25, <2>6, EndedLocals DEF retry
  <2>8. QED
    BY <1>25, <2>1, <2>5, <2>6, <2>7 DEF retry, archive, store, indexer, local, worker,
      history, TInv, TypeOK, IndexLocals, Becomes, Ended
<1>26. ASSUME NEW w \in Workers, FinishWorker(w) PROVE TInv'
  BY <1>26, DataAssumption DEF FinishWorker, WGoto, archive, store, indexer, local,
    worker, history, TInv, TypeOK, IndexLocals, WorkerLocals, Contents, Answers, Jobs,
    TaskStates, NoTasks
<1>27. ASSUME NEW w \in Workers, CrashWorker(w) PROVE TInv'
  BY <1>27, DataAssumption DEF CrashWorker, WGoto, Idle, NoTasks, Fault, archive, store,
    indexer, local, worker, history, TInv, TypeOK, IndexLocals, WorkerLocals, Contents,
    Answers, Jobs, TaskStates, NoTasks
<1>28. CASE UNCHANGED vars
  BY <1>28, DataAssumption DEF vars, archive, store, indexer, local, worker, history,
    TInv, TypeOK, IndexLocals, WorkerLocals, Contents, Answers, Jobs, TaskStates,
    NoTasks
<1>29. QED
  BY <1>1, <1>2, <1>3, <1>4, <1>5, <1>6, <1>7, <1>8, <1>9, <1>10, <1>11, <1>12, <1>13,
<1>14, <1>15, <1>16, <1>17, <1>18, <1>19, <1>20, <1>21, <1>22, <1>23, <1>24, <1>25,
<1>26, <1>27, <1>28 DEF Next, IndexStep, WorkerStep, TaskStep

(* TypeOK holds in every reachable state, for every number of objects,     *)
(* contents, worker processes and faults.                                  *)
THEOREM OcrTypeCorrect == Spec => []TypeOK
<1>1. TInv => TypeOK
  BY DEF TInv
<1>2. QED
  BY TypeInit, TypeStep, <1>1, PTL DEF Spec

-----------------------------------------------------------------------------
(* The files of the cache and the states of the tasks, and the steps that  *)
(* change them.                                                            *)
files == <<text, queue, failed, wanted, st>>
TaskWrites(w, d) ==
  \/ ReadJob(w, d) \/ Spawn(w, d) \/ CheckCache(w, d) \/ RunJob(w, d)
  \/ put(w, d) \/ put_xhtml(w, d) \/ remove_job(w, d) \/ retry(w, d)
Writes ==
  \/ QueueMiss
  \/ \E w \in Workers :
       \/ PrefillEnqueue(w) \/ ListQueue(w) \/ CrashWorker(w)
       \/ \E d \in Digests : TaskWrites(w, d)

(* All other steps leave them alone. *)
LEMMA QuietStep == [Next]_vars => Writes \/ UNCHANGED files
<1> SUFFICES ASSUME [Next]_vars, ~Writes
             PROVE  UNCHANGED files
  OBVIOUS
<1>1. ASSUME NEW k \in Keys, NEW x \in Contents, Replace(k, x) PROVE UNCHANGED files
  BY <1>1 DEF Replace, files, store, local, worker, history
<1>2. ASSUME NEW m \in IndexKinds, StartIndex(m) PROVE UNCHANGED files
  BY <1>2 DEF StartIndex, files, store, local, worker, history
<1>3. ASSUME NEW k \in Keys, ReadObject(k) PROVE UNCHANGED files
  BY <1>3 DEF ReadObject, files, store, local, worker, history
<1>4. CASE Lookup
  BY <1>4 DEF Lookup, files, store, local, worker, history
<1>5. CASE StoreRow
  BY <1>5 DEF StoreRow, files, store, local, worker, history
<1>6. CASE CommitDoc
  BY <1>6 DEF CommitDoc, files, store, local, worker, history
<1>7. CASE MarkObject
  BY <1>7 DEF MarkObject, files, store, local, worker, history
<1>8. CASE ObjectFails
  BY <1>8 DEF ObjectFails, files, store, local, worker, history
<1>9. CASE FinishIndex
  BY <1>9 DEF FinishIndex, files, store, local, worker, history
<1>10. CASE CrashIndex
  BY <1>10 DEF CrashIndex, files, store, local, worker, history
<1>11. ASSUME NEW w \in Workers, NEW m \in WorkerKinds, NEW l \in Limits,
             StartWorker(w, m, l)
      PROVE  UNCHANGED files
  BY <1>11 DEF StartWorker, files, store, local, worker, history
<1>12. ASSUME NEW w \in Workers, NEW r \in rows[w], PrefillRow(w, r) PROVE UNCHANGED files
  BY <1>12 DEF PrefillRow, files, store, local, worker, history
<1>13. ASSUME NEW w \in Workers, PrefillDone(w) PROVE UNCHANGED files
  BY <1>13 DEF PrefillDone, files, store, local, worker, history
<1>14. ASSUME NEW w \in Workers, StartDrain(w) PROVE UNCHANGED files
  BY <1>14 DEF StartDrain, files, store, local, worker, history
<1>15. ASSUME NEW w \in Workers, FinishWorker(w) PROVE UNCHANGED files
  BY <1>15 DEF FinishWorker, files, store, local, worker, history
<1>16. CASE UNCHANGED vars
  BY <1>16 DEF vars, files, store, local, worker, history
<1>17. QED
  BY <1>1, <1>2, <1>3, <1>4, <1>5, <1>6, <1>7, <1>8, <1>9, <1>10, <1>11, <1>12, <1>13,
<1>14, <1>15, <1>16 DEF Next, IndexStep, WorkerStep, TaskStep, Writes, TaskWrites

-----------------------------------------------------------------------------
(* Any number of worker processes: a job is removed after its answer. *)

(* A listing touches the tasks of its own process only. *)
LEMMA ListedTasks ==
  ASSUME TInv, NEW w \in Workers, ListQueue(w), NEW v \in Workers, NEW e \in Digests
  PROVE  \/ st'[v][e] = st[v][e]
         \/ v = w /\ st'[v][e] = IF queue[e] # None THEN "named" ELSE "none"
<1> DEFINE names == [d \in Digests |-> IF queue[d] # None THEN "named" ELSE "none"]
<1>1. st' = st \/ st' = [st EXCEPT ![w] = names]
  BY DEF ListQueue
<1>2. names[e] = IF queue[e] # None THEN "named" ELSE "none"
  OBVIOUS
<1> HIDE DEF names
<1>3. QED
  BY <1>1, <1>2 DEF TInv, TypeOK

(* A process that dies takes its own tasks with it. *)
LEMMA CrashedTasks ==
  ASSUME TInv, NEW w \in Workers, CrashWorker(w), NEW v \in Workers, NEW e \in Digests
  PROVE  st'[v][e] = st[v][e] \/ st'[v][e] = "none"
<1>1. st' = [st EXCEPT ![w] = NoTasks] /\ NoTasks[e] = "none"
  BY DEF CrashWorker, NoTasks
<1>2. QED
  BY <1>1 DEF TInv, TypeOK

(* A task that is about to remove its job finds an entry in the cache. *)
AnswerStored ==
  \A w \in Workers : \A d \in Digests : st[w][d] \in {"markup", "remove"} => text[d] # None

(* Only put, and a task that found an entry, lead to the removal. *)
LEMMA AnswerStoredStep ==
  TInv /\ AnswerStored /\ [Next]_vars => AnswerStored'
<1> SUFFICES ASSUME TInv, AnswerStored, [Next]_vars
             PROVE  AnswerStored'
  OBVIOUS
<1>1. ASSUME NEW w \in Workers, ListQueue(w) PROVE AnswerStored'
  <2>1. \A v \in Workers : \A d \in Digests :
          st'[v][d] \in {"none", "named"} \/ st'[v][d] = st[v][d]
    BY <1>1, ListedTasks
  <2>2. QED
    BY <1>1, <2>1 DEF ListQueue, store, AnswerStored
<1>2. ASSUME NEW w \in Workers, NEW d \in Digests, ReadJob(w, d) PROVE AnswerStored'
  <2>1. Becomes(w, d, "read") \/ Becomes(w, d, "none")
    BY <1>2, TaskType DEF ReadJob, EndTask, TaskStates
  <2>2. QED
    BY <1>2, <2>1 DEF ReadJob, Becomes, AnswerStored
<1>3. ASSUME NEW w \in Workers, NEW d \in Digests, Spawn(w, d) PROVE AnswerStored'
  <2>1. Becomes(w, d, "check")
    BY <1>3, TaskType DEF Spawn, TaskStates
  <2>2. QED
    BY <1>3, <2>1 DEF Spawn, store, Becomes, AnswerStored
<1>4. ASSUME NEW w \in Workers, NEW d \in Digests, CheckCache(w, d) PROVE AnswerStored'
  <2>1. (text[d] # None /\ Becomes(w, d, "remove")) \/ Becomes(w, d, "run")
    BY <1>4, TaskType DEF CheckCache, Hit, TaskStates
  <2>2. QED
    BY <1>4, <2>1 DEF CheckCache, store, Becomes, AnswerStored
<1>5. ASSUME NEW w \in Workers, NEW d \in Digests, RunJob(w, d) PROVE AnswerStored'
  <2>1. Becomes(w, d, "put") \/ Becomes(w, d, "retry")
    BY <1>5, TaskType DEF RunJob, TaskStates
  <2>2. UNCHANGED text
    BY <1>5 DEF RunJob, store
  <2>3. QED
    BY <2>1, <2>2 DEF Becomes, AnswerStored
<1>6. ASSUME NEW w \in Workers, NEW d \in Digests, put(w, d) PROVE AnswerStored'
  <2>1. CASE EndTask(w, d) /\ UNCHANGED text
    BY <2>1, TaskType DEF EndTask, TaskStates, Becomes, AnswerStored
  <2>2. CASE /\ text' = [text EXCEPT ![d] = out[w][d]]
             /\ \E s \in {"markup", "remove"} : Task(w, d, s)
    <3>1. out[w][d] # None
      BY <1>6, DataAssumption DEF put, TInv, WorkerLocals, Answers
    <3>2. \A e \in Digests : text'[e] = IF e = d THEN out[w][d] ELSE text[e]
      BY <2>2 DEF TInv, TypeOK
    <3>3. PICK s \in {"markup", "remove"} : Becomes(w, d, s)
      BY <2>2, TaskType DEF TaskStates
    <3>4. QED
      BY <3>1, <3>2, <3>3 DEF Becomes, AnswerStored
  <2>3. QED
    BY <1>6, <2>1, <2>2 DEF put
<1>7. ASSUME NEW w \in Workers, NEW d \in Digests, put_xhtml(w, d) PROVE AnswerStored'
  <2>1. Becomes(w, d, "remove")
    BY <1>7, TaskType DEF put_xhtml, TaskStates
  <2>2. QED
    BY <1>7, <2>1 DEF put_xhtml, Becomes, AnswerStored
<1>8. ASSUME NEW w \in Workers, NEW d \in Digests, remove_job(w, d) PROVE AnswerStored'
  <2>1. Becomes(w, d, "none")
    BY <1>8, TaskType DEF remove_job, EndTask, TaskStates
  <2>2. QED
    BY <1>8, <2>1 DEF remove_job, Becomes, AnswerStored
<1>9. ASSUME NEW w \in Workers, NEW d \in Digests, retry(w, d) PROVE AnswerStored'
  <2>1. Becomes(w, d, "none")
    BY <1>9, TaskType DEF retry, EndTask, TaskStates
  <2>2. QED
    BY <1>9, <2>1 DEF retry, Becomes, AnswerStored
<1>10. ASSUME NEW w \in Workers, CrashWorker(w) PROVE AnswerStored'
  <2>1. \A v \in Workers : \A d \in Digests : st'[v][d] = "none" \/ st'[v][d] = st[v][d]
    BY <1>10, CrashedTasks
  <2>2. QED
    BY <1>10, <2>1 DEF CrashWorker, store, AnswerStored
<1>11. CASE UNCHANGED <<st, text>>
  BY <1>11 DEF AnswerStored
<1>12. QueueMiss => UNCHANGED <<st, text>>
  BY DEF QueueMiss, store, local, worker
<1>13. ASSUME NEW w \in Workers,
             PrefillEnqueue(w)
      PROVE  UNCHANGED <<st, text>>
  BY <1>13 DEF PrefillEnqueue, store, local, worker
<1>14. QED
  BY QuietStep, <1>1, <1>2, <1>3, <1>4, <1>5, <1>6, <1>7, <1>8, <1>9, <1>10, <1>11,
<1>12, <1>13 DEF Writes, TaskWrites, files

(* The step formula of LeavesAnswered, for one digest. *)
Left(d) == queue[d] # None /\ queue'[d] = None => text[d] # None \/ failed'[d] # None

(* Queueing leaves every other job, and a job at its own name. *)
LEMMA EnqueueKeeps ==
  ASSUME TInv, NEW d \in Digests, NEW k \in Keys, enqueue(d, k)
  PROVE  \A e \in Digests : queue[e] # None => queue'[e] # None
<1> DEFINE j == [key |-> k, attempts |-> 0]
<1>1. j # None
  BY DataAssumption DEF Jobs
<1>2. queue' = [queue EXCEPT ![d] = j] \/ queue' = queue
  BY DEF enqueue
<1> HIDE DEF j
<1>3. QED
  BY <1>1, <1>2 DEF TInv, TypeOK

(* A job that is written back is a job file. *)
LEMMA BumpedJob ==
  ASSUME TInv, NEW w \in Workers, NEW d \in Digests, st[w][d] = "retry",
         job[w][d].attempts + 1 < MaxAttempts
  PROVE  [job[w][d] EXCEPT !.attempts = job[w][d].attempts + 1] \in Jobs
<1>1. job[w][d] \in Jobs
  BY DEF TInv, WorkerLocals
<1>2. QED
  BY <1>1, DataAssumption DEF Jobs

(* No step takes a job out of the queue unanswered. *)
LEMMA LeavesStep ==
  TInv /\ AnswerStored /\ [Next]_vars => \A d \in Digests : Left(d)
<1> SUFFICES ASSUME TInv, AnswerStored, [Next]_vars
             PROVE  \A e \in Digests : Left(e)
  OBVIOUS
<1>1. CASE QueueMiss
  <2>1. iread \in Digests /\ ikey \in Keys
    BY <1>1 DEF QueueMiss, TInv, IndexLocals
  <2>2. QED
    BY <1>1, <2>1, EnqueueKeeps DEF QueueMiss, Left
<1>2. ASSUME NEW w \in Workers, PrefillEnqueue(w) PROVE \A e \in Digests : Left(e)
  <2>1. row[w][1] \in Keys /\ row[w][2] \in Digests
    BY <1>2 DEF PrefillEnqueue, TInv, WorkerLocals
  <2>2. QED
    BY <1>2, <2>1, EnqueueKeeps DEF PrefillEnqueue, Left
<1>3. ASSUME NEW w \in Workers, NEW d \in Digests, ReadJob(w, d) PROVE \A e \in Digests : Left(e)
  <2>1. Moved(d) \/ queue' = queue
    BY <1>3 DEF ReadJob, park, ParkFails
  <2>2. QED
    BY <2>1 DEF Moved, Left, TInv, TypeOK
<1>4. ASSUME NEW w \in Workers, NEW d \in Digests, remove_job(w, d) PROVE \A e \in Digests : Left(e)
  <2>1. text[d] # None
    BY <1>4 DEF remove_job, AnswerStored
  <2>2. QED
    BY <1>4, <2>1 DEF remove_job, Left, TInv, TypeOK
<1>5. ASSUME NEW w \in Workers, NEW d \in Digests, retry(w, d) PROVE \A e \in Digests : Left(e)
  <2> DEFINE n == job[w][d].attempts + 1
             j == [job[w][d] EXCEPT !.attempts = n]
  <2>1. n < MaxAttempts => j \in Jobs
    BY <1>5, BumpedJob DEF retry
  <2>2. \/ Moved(d)
        \/ n < MaxAttempts /\ queue' = [queue EXCEPT ![d] = j]
        \/ queue' = queue
    BY <1>5 DEF retry, park, ParkFails
  <2> HIDE DEF n, j
  <2>3. QED
    BY <2>1, <2>2, DataAssumption DEF Moved, Left, TInv, TypeOK
<1>6. CASE UNCHANGED queue
  BY <1>6 DEF Left
<1>7. ASSUME NEW w \in Workers,
             ListQueue(w) \/ CrashWorker(w)
      PROVE  UNCHANGED queue
  BY <1>7 DEF ListQueue, CrashWorker, store, local, worker
<1>8. ASSUME NEW w \in Workers, NEW d \in Digests,
             Spawn(w, d) \/ CheckCache(w, d) \/ RunJob(w, d) \/ put(w, d) \/ put_xhtml(w, d)
      PROVE  UNCHANGED queue
  BY <1>8 DEF Spawn, CheckCache, RunJob, put, put_xhtml, store, local, worker
<1>9. QED
  BY QuietStep, <1>1, <1>2, <1>3, <1>4, <1>5, <1>6, <1>7, <1>8 DEF Writes, TaskWrites,
    files

(* LeavesAnswered, for any number of worker processes, permits, faults and *)
(* index runs: remove_job and park are safe in every interleaving.         *)
THEOREM AnsweredFirst == Spec => LeavesAnswered
<1>1. Init => AnswerStored
  BY DEF Init, AnswerStored, NoTasks
<1>2. TInv /\ AnswerStored /\ [Next]_vars
        => [\A d \in Digests : queue[d] # None /\ queue'[d] = None
              => text[d] # None \/ failed'[d] # None]_vars
  BY LeavesStep DEF Left
<1>3. QED
  BY TypeInit, TypeStep, AnswerStoredStep, <1>1, <1>2, PTL DEF Spec, LeavesAnswered

-----------------------------------------------------------------------------
(* One worker process: nothing is lost. *)

OneWorker == \A v, w \in Workers : v = w

(* The file a task works on is there until the task itself removes it. *)
FileThere == \A w \in Workers : \A d \in Digests : st[w][d] # "none" => queue[d] # None

LInv == TInv /\ AnswerStored /\ FileThere

(* No other process moves the file away. *)
LEMMA FileThereStep ==
  OneWorker /\ LInv /\ [Next]_vars => FileThere'
<1> SUFFICES ASSUME OneWorker, LInv, [Next]_vars
             PROVE  FileThere'
  OBVIOUS
<1>1. CASE QueueMiss
  <2>1. iread \in Digests /\ ikey \in Keys
    BY <1>1 DEF QueueMiss, LInv, TInv, IndexLocals
  <2>2. \A e \in Digests : queue[e] # None => queue'[e] # None
    BY <1>1, <2>1, EnqueueKeeps DEF QueueMiss, LInv
  <2>3. UNCHANGED st
    BY <1>1 DEF QueueMiss, local, worker
  <2>4. QED
    BY <2>2, <2>3 DEF LInv, FileThere
<1>2. ASSUME NEW w \in Workers, PrefillEnqueue(w) PROVE FileThere'
  <2>1. row[w][1] \in Keys /\ row[w][2] \in Digests
    BY <1>2 DEF PrefillEnqueue, LInv, TInv, WorkerLocals
  <2>2. \A e \in Digests : queue[e] # None => queue'[e] # None
    BY <1>2, <2>1, EnqueueKeeps DEF PrefillEnqueue, LInv
  <2>3. UNCHANGED st
    BY <1>2 DEF PrefillEnqueue, local, worker
  <2>4. QED
    BY <2>2, <2>3 DEF LInv, FileThere
<1>3. ASSUME NEW w \in Workers, ListQueue(w) PROVE FileThere'
  <2>1. UNCHANGED queue
    BY <1>3 DEF ListQueue, store
  <2>2. \A v \in Workers : \A e \in Digests :
          \/ st'[v][e] = st[v][e]
          \/ v = w /\ st'[v][e] = IF queue[e] # None THEN "named" ELSE "none"
    BY <1>3, ListedTasks DEF LInv
  <2>3. QED
    BY <2>1, <2>2 DEF LInv, FileThere
<1>4. ASSUME NEW w \in Workers, NEW d \in Digests, ReadJob(w, d) PROVE FileThere'
  <2>1. \/ Becomes(w, d, "read") /\ UNCHANGED queue
        \/ Becomes(w, d, "none") /\ \A e \in Digests \ {d} : queue'[e] = queue[e]
    BY <1>4, TaskType DEF ReadJob, park, Moved, ParkFails, LInv, TInv, TypeOK, EndTask, TaskStates
  <2>2. st[w][d] # "none"
    BY <1>4 DEF ReadJob
  <2>3. QED
    BY <2>1, <2>2 DEF LInv, FileThere, Becomes, OneWorker
<1>5. ASSUME NEW w \in Workers, NEW d \in Digests, Spawn(w, d) PROVE FileThere'
  <2>1. Becomes(w, d, "check")
    BY <1>5, TaskType DEF Spawn, LInv, EndTask, TaskStates
  <2>2. UNCHANGED queue /\ st[w][d] # "none"
    BY <1>5 DEF Spawn, store
  <2>3. QED
    BY <2>1, <2>2 DEF LInv, FileThere, Becomes
<1>6. ASSUME NEW w \in Workers, NEW d \in Digests, CheckCache(w, d) PROVE FileThere'
  <2>1. Becomes(w, d, "remove") \/ Becomes(w, d, "run")
    BY <1>6, TaskType DEF CheckCache, LInv, EndTask, TaskStates
  <2>2. UNCHANGED queue /\ st[w][d] # "none"
    BY <1>6 DEF CheckCache, store
  <2>3. QED
    BY <2>1, <2>2 DEF LInv, FileThere, Becomes
<1>7. ASSUME NEW w \in Workers, NEW d \in Digests, RunJob(w, d) PROVE FileThere'
  <2>1. Becomes(w, d, "put") \/ Becomes(w, d, "retry")
    BY <1>7, TaskType DEF RunJob, LInv, EndTask, TaskStates
  <2>2. UNCHANGED queue /\ st[w][d] # "none"
    BY <1>7 DEF RunJob, store
  <2>3. QED
    BY <2>1, <2>2 DEF LInv, FileThere, Becomes
<1>8. ASSUME NEW w \in Workers, NEW d \in Digests, put(w, d) PROVE FileThere'
  <2>1. Becomes(w, d, "markup") \/ Becomes(w, d, "remove") \/ Becomes(w, d, "none")
    BY <1>8, TaskType DEF put, LInv, EndTask, TaskStates
  <2>2. UNCHANGED queue /\ st[w][d] # "none"
    BY <1>8 DEF put, store
  <2>3. QED
    BY <2>1, <2>2 DEF LInv, FileThere, Becomes
<1>9. ASSUME NEW w \in Workers, NEW d \in Digests, put_xhtml(w, d) PROVE FileThere'
  <2>1. Becomes(w, d, "remove")
    BY <1>9, TaskType DEF put_xhtml, LInv, EndTask, TaskStates
  <2>2. UNCHANGED queue /\ st[w][d] # "none"
    BY <1>9 DEF put_xhtml, store
  <2>3. QED
    BY <2>1, <2>2 DEF LInv, FileThere, Becomes
<1>10. ASSUME NEW w \in Workers, NEW d \in Digests, remove_job(w, d) PROVE FileThere'
  <2>1. Becomes(w, d, "none")
    BY <1>10, TaskType DEF remove_job, LInv, EndTask, TaskStates
  <2>2. \A e \in Digests \ {d} : queue'[e] = queue[e]
    BY <1>10 DEF remove_job, LInv, TInv, TypeOK
  <2>3. QED
    BY <2>1, <2>2 DEF LInv, FileThere, Becomes, OneWorker
<1>11. ASSUME NEW w \in Workers, NEW d \in Digests, retry(w, d) PROVE FileThere'
  <2>1. Becomes(w, d, "none")
    BY <1>11, TaskType DEF retry, LInv, EndTask, TaskStates
  <2>2. \A e \in Digests \ {d} : queue'[e] = queue[e]
    BY <1>11 DEF retry, park, Moved, ParkFails, LInv, TInv, TypeOK
  <2>3. QED
    BY <2>1, <2>2 DEF LInv, FileThere, Becomes, OneWorker
<1>12. ASSUME NEW w \in Workers, CrashWorker(w) PROVE FileThere'
  <2>1. UNCHANGED queue
    BY <1>12 DEF CrashWorker, store
  <2>2. \A v \in Workers : \A e \in Digests : st'[v][e] = st[v][e] \/ st'[v][e] = "none"
    BY <1>12, CrashedTasks DEF LInv
  <2>3. QED
    BY <2>1, <2>2 DEF LInv, FileThere
<1>13. CASE UNCHANGED files
  BY <1>13 DEF LInv, FileThere, files
<1>14. QED
  BY QuietStep, <1>1, <1>2, <1>3, <1>4, <1>5, <1>6, <1>7, <1>8, <1>9, <1>10, <1>11,
<1>12, <1>13 DEF Writes, TaskWrites, files

(* LInv is inductive when one worker process runs at a time. *)
LEMMA LostInvariant == OneWorker => (Spec => []LInv)
<1> SUFFICES ASSUME OneWorker
             PROVE  Spec => []LInv
  OBVIOUS
<1>1. Init => LInv
  BY TypeInit DEF Init, LInv, AnswerStored, FileThere, NoTasks
<1>2. LInv /\ [Next]_vars => LInv'
  BY TypeStep, AnswerStoredStep, FileThereStep DEF LInv
<1>3. QED
  BY <1>1, <1>2, PTL DEF Spec

(* The life of one digest in one step. *)
Moves == {<<"unknown", "pending">>, <<"parked", "pending">>,
          <<"pending", "answered">>, <<"pending", "parked">>}
LifeOf(d) == Status'[d] = Status[d] \/ <<Status[d], Status'[d]>> \in Moves
FilesOf(d) == <<text[d], queue[d], failed[d]>>

(* A step on the files of one digest is a step of JobLife. *)
LEMMA OneDigest ==
  ASSUME NEW d \in Digests, LifeOf(d), \A e \in Digests \ {d} : FilesOf(e)' = FilesOf(e)
  PROVE  [Life!Next]_Status
<1>1. \A e \in Digests \ {d} : Status'[e] = Status[e]
  BY DEF FilesOf, Status
<1>2. /\ Status = [e \in Digests |-> Status[e]]
      /\ Status' = [e \in Digests |-> Status'[e]]
  BY DEF Status
<1>3. CASE Status'[d] = Status[d]
  BY <1>1, <1>2, <1>3
<1>4. CASE <<Status[d], Status'[d]>> \in Moves
  <2>1. Status' = [Status EXCEPT ![d] = Status'[d]]
    BY <1>1, <1>2
  <2>2. Life!Queue(d) \/ Life!Answer(d) \/ Life!Park(d)
    BY <1>4, <2>1 DEF Moves, Life!Queue, Life!Answer, Life!Park, Life!Move
  <2>3. QED
    BY <2>2 DEF Life!Next
<1>5. QED
  BY <1>3, <1>4 DEF LifeOf

(* After enqueue the file is there, unless nothing was written. *)
LEMMA QueuedFile ==
  ASSUME TInv, NEW d \in Digests, NEW k \in Keys, enqueue(d, k)
  PROVE  /\ queue'[d] # None \/ queue'[d] = queue[d]
         /\ d \in wanted' \ wanted => queue'[d] # None
         /\ wanted' \subseteq wanted \cup {d}
<1> DEFINE j == [key |-> k, attempts |-> 0]
<1>1. j # None
  BY DataAssumption DEF Jobs
<1>2. \/ queue' = [queue EXCEPT ![d] = j] /\ wanted' = wanted \cup {d}
      \/ queue' = queue /\ wanted' = wanted
  BY DEF enqueue
<1> HIDE DEF j
<1>3. QED
  BY <1>1, <1>2 DEF TInv, TypeOK

(* Every step of the processes is a step of JobLife, or leaves it alone. *)
LEMMA LifeStep ==
  LInv /\ [Next]_vars => [Life!Next]_Status
<1> SUFFICES ASSUME LInv, [Next]_vars
             PROVE  [Life!Next]_Status
  OBVIOUS
<1>1. CASE QueueMiss
  <2>1. iread \in Digests /\ ikey \in Keys
    BY <1>1 DEF QueueMiss, LInv, TInv, IndexLocals
  <2>2. \A e \in Digests \ {iread} : FilesOf(e)' = FilesOf(e)
    BY <1>1, <2>1 DEF QueueMiss, enqueue, FilesOf, LInv, TInv, TypeOK
  <2>3. queue'[iread] # None \/ queue'[iread] = queue[iread]
    BY <1>1, <2>1, QueuedFile DEF QueueMiss, LInv
  <2>4. LifeOf(iread)
    BY <1>1, <2>1, <2>3 DEF QueueMiss, LifeOf, Moves, Status
  <2>5. QED
    BY <2>1, <2>2, <2>4, OneDigest
<1>2. ASSUME NEW w \in Workers, PrefillEnqueue(w) PROVE [Life!Next]_Status
  <2>1. row[w][1] \in Keys /\ row[w][2] \in Digests
    BY <1>2 DEF PrefillEnqueue, LInv, TInv, WorkerLocals
  <2>2. \A e \in Digests \ {row[w][2]} : FilesOf(e)' = FilesOf(e)
    BY <1>2, <2>1 DEF PrefillEnqueue, enqueue, FilesOf, LInv, TInv, TypeOK
  <2>3. queue'[row[w][2]] # None \/ queue'[row[w][2]] = queue[row[w][2]]
    BY <1>2, <2>1, QueuedFile DEF PrefillEnqueue, LInv
  <2>4. LifeOf(row[w][2])
    BY <1>2, <2>1, <2>3 DEF PrefillEnqueue, LifeOf, Moves, Status
  <2>5. QED
    BY <2>1, <2>2, <2>4, OneDigest
<1>3. ASSUME NEW w \in Workers, NEW d \in Digests, ReadJob(w, d) PROVE [Life!Next]_Status
  <2>1. queue[d] # None
    BY <1>3 DEF ReadJob, LInv, FileThere
  <2>2. Moved(d) \/ ParkFails(d) \/ UNCHANGED <<queue, failed>>
    BY <1>3 DEF ReadJob, park
  <2>3. \A e \in Digests \ {d} : FilesOf(e)' = FilesOf(e)
    BY <1>3, <2>2 DEF ReadJob, Moved, ParkFails, FilesOf, LInv, TInv, TypeOK
  <2>4. LifeOf(d)
    BY <1>3, <2>1, <2>2 DEF ReadJob, Moved, ParkFails, LifeOf, Moves, Status, LInv, TInv, TypeOK
  <2>5. QED
    BY <2>3, <2>4, OneDigest
<1>4. ASSUME NEW w \in Workers, NEW d \in Digests, put(w, d) PROVE [Life!Next]_Status
  <2>1. queue[d] # None /\ out[w][d] # None
    BY <1>4, DataAssumption DEF put, LInv, FileThere, TInv, WorkerLocals, Answers
  <2>2. \A e \in Digests \ {d} : FilesOf(e)' = FilesOf(e)
    BY <1>4 DEF put, FilesOf, LInv, TInv, TypeOK
  <2>3. LifeOf(d)
    BY <1>4, <2>1 DEF put, LifeOf, Moves, Status, LInv, TInv, TypeOK
  <2>4. QED
    BY <2>2, <2>3, OneDigest
<1>5. ASSUME NEW w \in Workers, NEW d \in Digests, remove_job(w, d) PROVE [Life!Next]_Status
  <2>1. text[d] # None
    BY <1>5 DEF remove_job, LInv, AnswerStored
  <2>2. \A e \in Digests \ {d} : FilesOf(e)' = FilesOf(e)
    BY <1>5 DEF remove_job, FilesOf, LInv, TInv, TypeOK
  <2>3. LifeOf(d)
    BY <1>5, <2>1 DEF remove_job, LifeOf, Status, LInv, TInv, TypeOK
  <2>4. QED
    BY <2>2, <2>3, OneDigest
<1>6. ASSUME NEW w \in Workers, NEW d \in Digests, retry(w, d) PROVE [Life!Next]_Status
  <2> DEFINE n == job[w][d].attempts + 1
             j == [job[w][d] EXCEPT !.attempts = n]
  <2>1. n < MaxAttempts => j # None
    BY <1>6, BumpedJob, DataAssumption DEF retry, LInv
  <2>2. queue[d] # None
    BY <1>6 DEF retry, LInv, FileThere
  <2>3. UNCHANGED text
    BY <1>6 DEF retry
  <2>4. \/ Moved(d) \/ ParkFails(d) \/ UNCHANGED <<queue, failed>>
        \/ n < MaxAttempts /\ queue' = [queue EXCEPT ![d] = j] /\ UNCHANGED failed
    BY <1>6 DEF retry, park
  <2> HIDE DEF n, j
  <2>5. \A e \in Digests \ {d} : FilesOf(e)' = FilesOf(e)
    BY <2>3, <2>4 DEF Moved, ParkFails, FilesOf, LInv, TInv, TypeOK
  <2>6. LifeOf(d)
    BY <2>1, <2>2, <2>3, <2>4 DEF Moved, ParkFails, LifeOf, Moves, Status, LInv, TInv, TypeOK
  <2>7. QED
    BY <2>5, <2>6, OneDigest
<1>7. CASE UNCHANGED <<text, queue, failed>>
  BY <1>7 DEF Status
<1>8. ASSUME NEW w \in Workers,
             ListQueue(w) \/ CrashWorker(w)
      PROVE  UNCHANGED <<text, queue, failed>>
  BY <1>8 DEF ListQueue, CrashWorker, store, local, worker
<1>9. ASSUME NEW w \in Workers, NEW d \in Digests,
             Spawn(w, d) \/ CheckCache(w, d) \/ RunJob(w, d) \/ put_xhtml(w, d)
      PROVE  UNCHANGED <<text, queue, failed>>
  BY <1>9 DEF Spawn, CheckCache, RunJob, put_xhtml, store, local, worker
<1>10. QED
  BY QuietStep, <1>1, <1>2, <1>3, <1>4, <1>5, <1>6, <1>7, <1>8, <1>9 DEF Writes,
    TaskWrites, files

(* With one worker process OcrQueue implements JobLife: whatever fails,    *)
(* whoever is killed, and however index runs interleave with it, a queued  *)
(* digest is pending, answered or parked, and an answer is final.          *)
THEOREM Refinement == OneWorker => (Spec => ImplementsJobLife)
<1> SUFFICES ASSUME OneWorker
             PROVE  Spec => Life!Spec
  BY DEF ImplementsJobLife
<1>1. Init => Life!Init
  BY DEF Init, Life!Init, Status
<1>2. QED
  BY LostInvariant, LifeStep, <1>1, PTL DEF Spec, Life!Spec

(* A digest becomes wanted by having its job file written. *)
LEMMA NewlyWanted ==
  LInv /\ [Next]_vars => \A e \in wanted' \ wanted : queue'[e] # None
<1> SUFFICES ASSUME LInv, [Next]_vars
             PROVE  \A e \in wanted' \ wanted : queue'[e] # None
  OBVIOUS
<1>1. CASE QueueMiss
  <2>1. iread \in Digests /\ ikey \in Keys
    BY <1>1 DEF QueueMiss, LInv, TInv, IndexLocals
  <2>2. QED
    BY <1>1, <2>1, QueuedFile DEF QueueMiss, LInv
<1>2. ASSUME NEW w \in Workers, PrefillEnqueue(w) PROVE \A e \in wanted' \ wanted : queue'[e] # None
  <2>1. row[w][1] \in Keys /\ row[w][2] \in Digests
    BY <1>2 DEF PrefillEnqueue, LInv, TInv, WorkerLocals
  <2>2. QED
    BY <1>2, <2>1, QueuedFile DEF PrefillEnqueue, LInv
<1>3. CASE UNCHANGED wanted
  BY <1>3
<1>4. ASSUME NEW w \in Workers,
             ListQueue(w) \/ CrashWorker(w)
      PROVE  UNCHANGED wanted
  BY <1>4 DEF ListQueue, CrashWorker, history
<1>5. ASSUME NEW w \in Workers, NEW d \in Digests,
             TaskWrites(w, d)
      PROVE  UNCHANGED wanted
  BY <1>5 DEF TaskWrites, ReadJob, Spawn, CheckCache, RunJob, put, put_xhtml,
    remove_job, retry, history
<1>6. QED
  BY QuietStep, <1>1, <1>2, <1>3, <1>4, <1>5 DEF Writes, files

(* With one worker process no queued digest is ever lost: from the first   *)
(* time it is queued it has an entry, a job or a parked job, whatever      *)
(* fails between fetch, put and remove_job and whoever is killed.          *)
THEOREM NothingLost == OneWorker => (Spec => []NoLostJob)
<1> SUFFICES ASSUME OneWorker
             PROVE  Spec => []NoLostJob
  OBVIOUS
<1>1. Init => NoLostJob
  BY DEF Init, NoLostJob
<1>2. LInv /\ NoLostJob /\ [Next]_vars => NoLostJob'
  <2> SUFFICES ASSUME LInv, NoLostJob, [Next]_vars, NEW d \in wanted'
               PROVE  Kept(d)'
    BY DEF NoLostJob
  <2>1. d \in Digests
    BY TypeStep DEF LInv, TInv, TypeOK
  <2>2. CASE d \in wanted' \ wanted
    BY <2>2, NewlyWanted DEF Kept
  <2>3. CASE d \in wanted
    <3>1. Status[d] # "unknown"
      BY <2>1, <2>3 DEF NoLostJob, Kept, Status
    <3>2. Status'[d] # "unknown"
      <4>1. CASE Status' = Status
        BY <3>1, <4>1
      <4>2. ASSUME NEW e \in Digests, Life!Queue(e) \/ Life!Answer(e) \/ Life!Park(e)
            PROVE  Status'[d] # "unknown"
        <5>1. PICK x \in {"pending", "answered", "parked"} : Status' = [Status EXCEPT ![e] = x]
          BY <4>2 DEF Life!Queue, Life!Answer, Life!Park, Life!Move
        <5>2. Status = [c \in Digests |-> Status[c]]
          BY DEF Status
        <5>3. QED
          BY <2>1, <3>1, <5>1, <5>2
      <4>3. QED
        BY LifeStep, <4>1, <4>2 DEF Life!Next
    <3>3. QED
      BY <2>1, <3>2 DEF Kept, Status
  <2>4. QED
    BY <2>2, <2>3
<1>3. QED
  BY LostInvariant, <1>1, <1>2, PTL DEF Spec

-----------------------------------------------------------------------------
(* The two sides, and what each leaves to the other. *)

IndexSide == (\E m \in IndexKinds : StartIndex(m)) \/ IndexStep \/ CrashIndex
WorkerSide ==
  \E w \in Workers :
    \/ \E m \in WorkerKinds : \E l \in Limits : StartWorker(w, m, l)
    \/ WorkerStep(w)
    \/ CrashWorker(w)
IndexKeeps == UNCHANGED <<bucket, replaced, worker, text, failed>>
WorkerKeeps == UNCHANGED <<bucket, replaced, archive, indexer>>

(* An index run touches nothing of the cache but queue/, and no worker.    *)
LEMMA IndexSideKeeps == IndexSide => IndexKeeps
<1>1. ASSUME NEW m \in IndexKinds, StartIndex(m) PROVE IndexKeeps
  BY <1>1 DEF StartIndex, IndexKeeps, store, history
<1>2. ASSUME NEW k \in Keys, ReadObject(k) PROVE IndexKeeps
  BY <1>2 DEF ReadObject, IndexKeeps, store, history
<1>3. CASE Lookup
  BY <1>3 DEF Lookup, IndexKeeps, store, history
<1>4. CASE QueueMiss
  BY <1>4 DEF QueueMiss, IndexKeeps
<1>5. CASE StoreRow
  BY <1>5 DEF StoreRow, IndexKeeps, store, history
<1>6. CASE CommitDoc
  BY <1>6 DEF CommitDoc, IndexKeeps, store, history
<1>7. CASE MarkObject
  BY <1>7 DEF MarkObject, IndexKeeps, store, history
<1>8. CASE ObjectFails
  BY <1>8 DEF ObjectFails, IndexKeeps, store
<1>9. CASE FinishIndex
  BY <1>9 DEF FinishIndex, IndexKeeps, store, history
<1>10. CASE CrashIndex
  BY <1>10 DEF CrashIndex, IndexKeeps, store
<1>11. QED
  BY <1>1, <1>2, <1>3, <1>4, <1>5, <1>6, <1>7, <1>8, <1>9, <1>10 DEF IndexSide, IndexStep

(* A worker reads the CDX once and writes nothing outside the cache. *)
LEMMA WorkerSideKeeps == WorkerSide => WorkerKeeps
<1> SUFFICES ASSUME NEW w \in Workers,
                    \/ \E m \in WorkerKinds : \E l \in Limits : StartWorker(w, m, l)
                    \/ WorkerStep(w)
                    \/ CrashWorker(w)
             PROVE  WorkerKeeps
  BY DEF WorkerSide
<1>1. ASSUME NEW m \in WorkerKinds, NEW l \in Limits, StartWorker(w, m, l) PROVE WorkerKeeps
  BY <1>1 DEF StartWorker, WorkerKeeps, history
<1>2. ASSUME NEW r \in rows[w], PrefillRow(w, r) PROVE WorkerKeeps
  BY <1>2 DEF PrefillRow, WorkerKeeps
<1>3. CASE PrefillEnqueue(w) \/ PrefillDone(w) \/ ListQueue(w)
  BY <1>3 DEF PrefillEnqueue, PrefillDone, ListQueue, WorkerKeeps, history
<1>4. CASE StartDrain(w) \/ FinishWorker(w) \/ CrashWorker(w)
  BY <1>4 DEF StartDrain, FinishWorker, CrashWorker, WorkerKeeps, history
<1>5. ASSUME NEW d \in Digests, ReadJob(w, d) \/ Spawn(w, d) \/ CheckCache(w, d) \/ RunJob(w, d)
      PROVE  WorkerKeeps
  BY <1>5 DEF ReadJob, Spawn, CheckCache, RunJob, WorkerKeeps, history
<1>6. ASSUME NEW d \in Digests,
             put(w, d) \/ put_xhtml(w, d) \/ remove_job(w, d) \/ retry(w, d)
      PROVE  WorkerKeeps
  BY <1>6 DEF put, put_xhtml, remove_job, retry, WorkerKeeps
<1>7. QED
  BY <1>1, <1>2, <1>3, <1>4, <1>5, <1>6 DEF WorkerStep, TaskStep

(* Every step is a replacement, one of the index run or one of a worker. *)
LEMMA Sides ==
  [Next]_vars
    => \/ \E k \in Keys : \E x \in Contents : Replace(k, x)
       \/ IndexSide /\ IndexKeeps
       \/ WorkerSide /\ WorkerKeeps
       \/ UNCHANGED vars
BY IndexSideKeeps, WorkerSideKeeps DEF Next, IndexSide, WorkerSide

-----------------------------------------------------------------------------
(* As long as no object is replaced, an entry is the text of its digest. *)

AnswerOf(d, a) == a = d \/ (a = "empty" /\ Kind[d] \in {"blank", "big"})
Indexing == {"lookup", "queue", "store", "commit", "mark"}

(* The rows name what the objects hold, and so does the run. *)
IndexOwn ==
  /\ bucket = Start
  /\ \A k \in Keys : cdx[k] \in {Start[k], None}
  /\ ipc \in Indexing => iread = Start[ikey]

(* A job names an object that holds the content it is filed under. *)
QueueOwn == \A d \in Digests : queue[d] # None => Start[queue[d].key] = d

(* So does a row the prefill is at and a job a task works on, and the      *)
(* answer a task is about to store is that of its digest.                  *)
RowsOwn ==
  \A w \in Workers :
    /\ \A r \in rows[w] : Start[r[1]] = r[2]
    /\ wpc[w] = "enqueue" => Start[row[w][1]] = row[w][2]
TasksOwn ==
  \A w \in Workers : \A d \in Digests :
    /\ st[w][d] \notin {"none", "named"} => Start[job[w][d].key] = d
    /\ st[w][d] = "put" => AnswerOf(d, out[w][d])
Own == IndexOwn /\ QueueOwn /\ RowsOwn /\ TasksOwn /\ TextIsOwn
OwnInv == TInv /\ (replaced = 0 => Own)

(* The index run reads what the objects hold. *)
LEMMA IndexOwnStep ==
  ASSUME TInv, IndexOwn, UNCHANGED bucket,
         IndexSide \/ UNCHANGED <<archive, indexer>>
  PROVE  IndexOwn'
<1>1. ASSUME NEW m \in IndexKinds, StartIndex(m) PROVE IndexOwn'
  BY <1>1 DEF StartIndex, Goto, IndexOwn, Indexing, archive
<1>2. ASSUME NEW k \in Keys, ReadObject(k) PROVE IndexOwn'
  BY <1>2 DEF ReadObject, Goto, IndexOwn, Indexing, archive
<1>3. CASE Lookup \/ QueueMiss
  BY <1>3 DEF Lookup, QueueMiss, Goto, IndexOwn, Indexing, archive
<1>4. CASE StoreRow
  <2>1. ikey \in Keys /\ iread = Start[ikey]
    BY <1>4 DEF StoreRow, TInv, IndexLocals, IndexOwn, Indexing
  <2>2. \A k \in Keys : cdx'[k] \in {Start[k], None}
    BY <1>4, <2>1 DEF StoreRow, IndexOwn, TInv, TypeOK
  <2>3. QED
    BY <1>4, <2>1, <2>2 DEF StoreRow, Goto, IndexOwn, Indexing
<1>5. CASE CommitDoc
  BY <1>5 DEF CommitDoc, Goto, IndexOwn, Indexing
<1>6. CASE MarkObject \/ ObjectFails
  BY <1>6 DEF MarkObject, ObjectFails, Goto, IndexOwn, Indexing, archive
<1>7. CASE FinishIndex \/ CrashIndex
  BY <1>7 DEF FinishIndex, CrashIndex, EndIndex, Goto, IndexOwn, Indexing, archive
<1>8. CASE UNCHANGED <<archive, indexer>>
  BY <1>8 DEF IndexOwn, archive, indexer
<1>9. QED
  BY <1>1, <1>2, <1>3, <1>4, <1>5, <1>6, <1>7, <1>8 DEF IndexSide, IndexStep

(* What is queued under a digest names an object that holds it. *)
LEMMA EnqueueOwn ==
  ASSUME TInv, QueueOwn, NEW d \in Digests, NEW k \in Keys, Start[k] = d, enqueue(d, k)
  PROVE  QueueOwn'
<1> DEFINE j == [key |-> k, attempts |-> 0]
<1>1. queue' = [queue EXCEPT ![d] = j] \/ queue' = queue
  BY DEF enqueue
<1>2. j.key = k
  OBVIOUS
<1> HIDE DEF j
<1>3. QED
  BY <1>1, <1>2 DEF QueueOwn, TInv, TypeOK

(* The two who queue have read the digest in a row or in the object; a     *)
(* retry keeps the object of the job.                                      *)
LEMMA QueueOwnStep ==
  ASSUME TInv, Own, [Next]_vars
  PROVE  QueueOwn'
<1>1. CASE QueueMiss
  <2>1. iread \in Digests /\ ikey \in Keys /\ Start[ikey] = iread
    BY <1>1 DEF QueueMiss, TInv, IndexLocals, Own, IndexOwn, Indexing
  <2>2. QED
    BY <1>1, <2>1, EnqueueOwn DEF QueueMiss, Own
<1>2. ASSUME NEW w \in Workers, PrefillEnqueue(w) PROVE QueueOwn'
  <2>1. row[w][1] \in Keys /\ row[w][2] \in Digests /\ Start[row[w][1]] = row[w][2]
    BY <1>2 DEF PrefillEnqueue, TInv, WorkerLocals, Own, RowsOwn
  <2>2. QED
    BY <1>2, <2>1, EnqueueOwn DEF PrefillEnqueue, Own
<1>3. ASSUME NEW w \in Workers, NEW d \in Digests, retry(w, d) PROVE QueueOwn'
  <2> DEFINE n == job[w][d].attempts + 1
             j == [job[w][d] EXCEPT !.attempts = n]
  <2>1. j.key = job[w][d].key /\ Start[job[w][d].key] = d
    BY <1>3 DEF retry, TInv, WorkerLocals, Jobs, Own, TasksOwn
  <2>2. \/ queue' = [queue EXCEPT ![d] = None]
        \/ queue' = [queue EXCEPT ![d] = j]
        \/ queue' = queue
    BY <1>3 DEF retry, park, Moved, ParkFails
  <2> HIDE DEF n, j
  <2>3. QED
    BY <2>1, <2>2 DEF Own, QueueOwn, TInv, TypeOK
<1>4. ASSUME NEW w \in Workers, NEW d \in Digests, ReadJob(w, d) \/ remove_job(w, d)
      PROVE  QueueOwn'
  <2>1. queue' = [queue EXCEPT ![d] = None] \/ queue' = queue
    BY <1>4 DEF ReadJob, remove_job, park, Moved, ParkFails
  <2>2. QED
    BY <2>1 DEF Own, QueueOwn, TInv, TypeOK
<1>5. CASE UNCHANGED queue
  BY <1>5 DEF Own, QueueOwn
<1>6. ASSUME NEW w \in Workers, ListQueue(w) \/ CrashWorker(w)
      PROVE  UNCHANGED queue
  BY <1>6 DEF ListQueue, CrashWorker, store
<1>7. ASSUME NEW w \in Workers, NEW d \in Digests,
             Spawn(w, d) \/ CheckCache(w, d) \/ RunJob(w, d) \/ put(w, d) \/ put_xhtml(w, d)
      PROVE  UNCHANGED queue
  BY <1>7 DEF Spawn, CheckCache, RunJob, put, put_xhtml, store
<1>8. QED
  BY QuietStep, <1>1, <1>2, <1>3, <1>4, <1>5, <1>6, <1>7 DEF Writes, TaskWrites, files

(* The prefill takes its rows from the CDX. *)
LEMMA RowsOwnStep ==
  ASSUME TInv, Own, WorkerSide
  PROVE  RowsOwn'
<1>1. ASSUME NEW w \in Workers, NEW m \in WorkerKinds, NEW l \in Limits, StartWorker(w, m, l)
      PROVE  RowsOwn'
  <2> DEFINE all == {<<k, cdx[k]>> : k \in {j \in Keys : cdx[j] # None}}
  <2>1. \A r \in all : Start[r[1]] = r[2]
    BY DEF Own, IndexOwn
  <2>2. rows' = [rows EXCEPT ![w] = IF m = "prefill" THEN all ELSE {}]
    BY <1>1 DEF StartWorker
  <2> HIDE DEF all
  <2>3. \A v \in Workers : \A r \in rows'[v] : Start[r[1]] = r[2]
    BY <2>1, <2>2 DEF Own, RowsOwn, TInv, TypeOK
  <2>4. \A v \in Workers : wpc'[v] = "enqueue" => wpc[v] = "enqueue"
    BY <1>1 DEF StartWorker, WGoto, TInv, TypeOK
  <2>5. QED
    BY <1>1, <2>3, <2>4 DEF StartWorker, Own, RowsOwn
<1>2. ASSUME NEW w \in Workers, NEW r \in rows[w], PrefillRow(w, r) PROVE RowsOwn'
  <2>1. \A v \in Workers : rows'[v] \subseteq rows[v]
    BY <1>2 DEF PrefillRow, TInv, TypeOK
  <2>2. CASE UNCHANGED <<wpc, row>>
    BY <2>1, <2>2 DEF Own, RowsOwn
  <2>3. CASE row' = [row EXCEPT ![w] = r] /\ WGoto(w, "enqueue")
    <3>1. \A v \in Workers : row'[v] = IF v = w THEN r ELSE row[v]
      BY <2>3 DEF TInv, TypeOK
    <3>2. \A v \in Workers : v # w => wpc'[v] = wpc[v]
      BY <2>3 DEF WGoto, TInv, TypeOK
    <3>3. QED
      BY <2>1, <3>1, <3>2 DEF Own, RowsOwn
  <2>4. QED
    BY <1>2, <2>2, <2>3 DEF PrefillRow
<1>3. ASSUME NEW w \in Workers, PrefillEnqueue(w) PROVE RowsOwn'
  <2>1. \A v \in Workers : wpc'[v] = "enqueue" => wpc[v] = "enqueue" /\ row'[v] = row[v]
    BY <1>3 DEF PrefillEnqueue, WGoto, TInv, TypeOK
  <2>2. QED
    BY <1>3, <2>1 DEF PrefillEnqueue, Own, RowsOwn
<1>4. ASSUME NEW w \in Workers, CrashWorker(w) PROVE RowsOwn'
  <2>1. /\ \A v \in Workers : wpc'[v] = "enqueue" => wpc[v] = "enqueue" /\ row'[v] = row[v]
        /\ \A v \in Workers : rows'[v] \subseteq rows[v]
    BY <1>4 DEF CrashWorker, WGoto, TInv, TypeOK
  <2>2. QED
    BY <2>1 DEF Own, RowsOwn
<1>5. ASSUME NEW w \in Workers,
             PrefillDone(w) \/ ListQueue(w) \/ StartDrain(w) \/ FinishWorker(w)
      PROVE  RowsOwn'
  <2>1. \A v \in Workers : wpc'[v] = "enqueue" => wpc[v] = "enqueue"
    BY <1>5 DEF PrefillDone, ListQueue, StartDrain, FinishWorker, WGoto, TInv, TypeOK
  <2>2. UNCHANGED <<rows, row>>
    BY <1>5 DEF PrefillDone, ListQueue, StartDrain, FinishWorker, local
  <2>3. QED
    BY <2>1, <2>2 DEF Own, RowsOwn
<1>6. ASSUME NEW w \in Workers, NEW d \in Digests, TaskStep(w, d) PROVE RowsOwn'
  <2>1. UNCHANGED <<wpc, rows, row>>
    BY <1>6 DEF TaskStep, ReadJob, Spawn, CheckCache, RunJob, put, put_xhtml, remove_job, retry
  <2>2. QED
    BY <2>1 DEF Own, RowsOwn
<1>7. QED
  BY <1>1, <1>2, <1>3, <1>4, <1>5, <1>6 DEF WorkerSide, WorkerStep

(* The content a task extracts is the one its job is filed under, and a    *)
(* content that is neither blank nor too large has an answer of its own.   *)
LEMMA ExtractOwn ==
  ASSUME TInv, NEW d \in Digests, NEW j \in Jobs, bucket[j.key] = d, NEW l,
         fetch_and_extract(j, l) # "error"
  PROVE  AnswerOf(d, fetch_and_extract(j, l))
BY DEF fetch_and_extract, Extract, AnswerOf

(* A task whose tables are unchanged, or that has none, keeps its promise. *)
LEMMA TasksOwnFrame ==
  ASSUME TasksOwn,
         \A v \in Workers : \A e \in Digests :
           \/ st'[v][e] \in {"none", "named"}
           \/ UNCHANGED <<st[v][e], job[v][e], out[v][e]>>
  PROVE  TasksOwn'
BY DEF TasksOwn

(* The steps of a task after it was listed. *)
LEMMA TasksOwnStep ==
  ASSUME TInv, Own, [Next]_vars
  PROVE  TasksOwn'
<1>1. ASSUME NEW w \in Workers, NEW d \in Digests, ReadJob(w, d) PROVE TasksOwn'
  <2>1. CASE EndTask(w, d)
    BY <2>1, EndTaskType, TasksOwnFrame DEF Ended, Becomes, Own
  <2>2. CASE /\ queue[d] # None /\ Task(w, d, "read") /\ UNCHANGED out
             /\ job' = [job EXCEPT ![w][d] = queue[d]]
    <3>1. Becomes(w, d, "read")
      BY <2>2, TaskType DEF TaskStates
    <3>2. \A v \in Workers : \A e \in Digests :
            job'[v][e] = IF v = w /\ e = d THEN queue[d] ELSE job[v][e]
      BY <2>2, Overwrite DEF TInv, TypeOK
    <3>3. Start[queue[d].key] = d
      BY <2>2 DEF Own, QueueOwn
    <3>4. QED
      BY <2>2, <3>1, <3>2, <3>3 DEF Becomes, Own, TasksOwn
  <2>3. QED
    BY <1>1, <2>1, <2>2 DEF ReadJob
<1>2. ASSUME NEW w \in Workers, NEW d \in Digests, Spawn(w, d) PROVE TasksOwn'
  <2>1. Becomes(w, d, "check") /\ UNCHANGED <<job, out>> /\ st[w][d] = "read"
    BY <1>2, TaskType DEF Spawn, TaskStates
  <2>2. QED
    BY <2>1 DEF Becomes, Own, TasksOwn
<1>3. ASSUME NEW w \in Workers, NEW d \in Digests, CheckCache(w, d) PROVE TasksOwn'
  <2>1. Becomes(w, d, "remove") \/ Becomes(w, d, "run")
    BY <1>3, TaskType DEF CheckCache, TaskStates
  <2>2. UNCHANGED <<job, out>> /\ st[w][d] = "check"
    BY <1>3 DEF CheckCache
  <2>3. QED
    BY <2>1, <2>2 DEF Becomes, Own, TasksOwn
<1>4. ASSUME NEW w \in Workers, NEW d \in Digests, RunJob(w, d) PROVE TasksOwn'
  <2> DEFINE r == fetch_and_extract(job[w][d], wlimit[w])
  <2>1. st[w][d] = "run" /\ UNCHANGED job
    BY <1>4 DEF RunJob
  <2>2. job[w][d] \in Jobs /\ bucket[job[w][d].key] = d
    BY <2>1 DEF TInv, WorkerLocals, Own, TasksOwn, IndexOwn
  <2>3. r # "error" => AnswerOf(d, r) /\ r \in Answers
    BY <2>2, ExtractOwn, ExtractType
  <2>4. \/ r # "error" /\ out' = [out EXCEPT ![w][d] = r] /\ Task(w, d, "put")
        \/ Task(w, d, "retry") /\ UNCHANGED out
    BY <1>4 DEF RunJob
  <2> HIDE DEF r
  <2>5. CASE r # "error" /\ out' = [out EXCEPT ![w][d] = r] /\ Task(w, d, "put")
    <3>1. \A v \in Workers : \A e \in Digests :
            out'[v][e] = IF v = w /\ e = d THEN r ELSE out[v][e]
      BY <2>3, <2>5, Overwrite DEF TInv, TypeOK
    <3>2. Becomes(w, d, "put")
      BY <2>5, TaskType DEF TaskStates
    <3>3. QED
      BY <2>1, <2>3, <2>5, <3>1, <3>2 DEF Becomes, Own, TasksOwn
  <2>6. CASE Task(w, d, "retry") /\ UNCHANGED out
    <3>1. Becomes(w, d, "retry")
      BY <2>6, TaskType DEF TaskStates
    <3>2. QED
      BY <2>1, <2>6, <3>1 DEF Becomes, Own, TasksOwn
  <2>7. QED
    BY <2>4, <2>5, <2>6
<1>5. ASSUME NEW w \in Workers, NEW d \in Digests, put(w, d) PROVE TasksOwn'
  <2>1. CASE EndTask(w, d)
    BY <2>1, EndTaskType, TasksOwnFrame DEF Ended, Becomes, Own
  <2>2. CASE UNCHANGED <<job, out>> /\ \E s \in {"markup", "remove"} : Task(w, d, s)
    <3>1. Becomes(w, d, "markup") \/ Becomes(w, d, "remove")
      BY <2>2, TaskType DEF TaskStates
    <3>2. st[w][d] = "put"
      BY <1>5 DEF put
    <3>3. QED
      BY <2>2, <3>1, <3>2 DEF Becomes, Own, TasksOwn
  <2>3. QED
    BY <1>5, <2>1, <2>2 DEF put
<1>6. ASSUME NEW w \in Workers, NEW d \in Digests, put_xhtml(w, d) PROVE TasksOwn'
  <2>1. Becomes(w, d, "remove") /\ UNCHANGED <<job, out>> /\ st[w][d] = "markup"
    BY <1>6, TaskType DEF put_xhtml, TaskStates
  <2>2. QED
    BY <2>1 DEF Becomes, Own, TasksOwn
<1>7. ASSUME NEW w \in Workers, NEW d \in Digests, remove_job(w, d) \/ retry(w, d)
      PROVE  TasksOwn'
  <2>1. Ended(w, d)
    BY <1>7, EndTaskType DEF remove_job, retry
  <2>2. QED
    BY <2>1, TasksOwnFrame DEF Ended, Becomes, Own
<1>8. ASSUME NEW w \in Workers, ListQueue(w) PROVE TasksOwn'
  <2>1. \A v \in Workers : \A e \in Digests :
          st'[v][e] \in {"none", "named"} \/ st'[v][e] = st[v][e]
    BY <1>8, ListedTasks
  <2>2. UNCHANGED <<job, out>>
    BY <1>8 DEF ListQueue
  <2>3. QED
    BY <2>1, <2>2, TasksOwnFrame DEF Own
<1>9. ASSUME NEW w \in Workers, CrashWorker(w) PROVE TasksOwn'
  <2>1. \A v \in Workers : v # w => UNCHANGED <<st[v], job[v], out[v]>>
    BY <1>9 DEF CrashWorker, TInv, TypeOK
  <2>2. \A e \in Digests : st'[w][e] = "none"
    BY <1>9 DEF CrashWorker, NoTasks, TInv, TypeOK
  <2>3. QED
    BY <2>1, <2>2, TasksOwnFrame DEF Own
<1>10. CASE UNCHANGED <<st, job, out>>
  BY <1>10 DEF Own, TasksOwn
<1>11. ASSUME NEW w \in Workers,
              \/ \E m \in WorkerKinds : \E l \in Limits : StartWorker(w, m, l)
              \/ \E r \in rows[w] : PrefillRow(w, r)
              \/ PrefillEnqueue(w) \/ PrefillDone(w) \/ StartDrain(w) \/ FinishWorker(w)
       PROVE  UNCHANGED <<st, job, out>>
  BY <1>11 DEF StartWorker, PrefillRow, PrefillEnqueue, PrefillDone, StartDrain, FinishWorker,
    local
<1>12. ASSUME NEW k \in Keys, NEW x \in Contents, Replace(k, x)
       PROVE  UNCHANGED <<st, job, out>>
  BY <1>12 DEF Replace, worker, local
<1>13. IndexKeeps \/ UNCHANGED vars => UNCHANGED <<st, job, out>>
  BY DEF IndexKeeps, vars, worker, local
<1>14. WorkerSide => TasksOwn'
  BY <1>1, <1>2, <1>3, <1>4, <1>5, <1>6, <1>7, <1>8, <1>9, <1>10, <1>11
  DEF WorkerSide, WorkerStep, TaskStep
<1>15. QED
  BY Sides, <1>10, <1>12, <1>13, <1>14

(* Only put writes an entry. *)
LEMMA TextIsOwnStep ==
  ASSUME TInv, Own, [Next]_vars
  PROVE  TextIsOwn'
<1>1. ASSUME NEW w \in Workers, NEW d \in Digests, put(w, d) PROVE TextIsOwn'
  <2>1. AnswerOf(d, out[w][d])
    BY <1>1 DEF put, Own, TasksOwn
  <2>2. text' = [text EXCEPT ![d] = out[w][d]] \/ text' = text
    BY <1>1 DEF put
  <2>3. QED
    BY <2>1, <2>2 DEF AnswerOf, Own, TextIsOwn, TInv, TypeOK
<1>2. CASE UNCHANGED text
  BY <1>2 DEF Own, TextIsOwn
<1>3. QueueMiss => UNCHANGED text
  BY DEF QueueMiss
<1>4. ASSUME NEW w \in Workers, PrefillEnqueue(w) \/ ListQueue(w) \/ CrashWorker(w)
      PROVE  UNCHANGED text
  BY <1>4 DEF PrefillEnqueue, ListQueue, CrashWorker, store
<1>5. ASSUME NEW w \in Workers, NEW d \in Digests,
             \/ ReadJob(w, d) \/ Spawn(w, d) \/ CheckCache(w, d) \/ RunJob(w, d)
             \/ put_xhtml(w, d) \/ remove_job(w, d) \/ retry(w, d)
      PROVE  UNCHANGED text
  BY <1>5 DEF ReadJob, Spawn, CheckCache, RunJob, put_xhtml, remove_job, retry, store
<1>6. QED
  BY QuietStep, <1>1, <1>2, <1>3, <1>4, <1>5 DEF Writes, TaskWrites, files

(* OwnInv is inductive: an object is replaced once, and from then on       *)
(* nothing is claimed.                                                     *)
LEMMA OwnStep == OwnInv /\ [Next]_vars => OwnInv'
<1> SUFFICES ASSUME OwnInv, [Next]_vars, replaced' = 0
             PROVE  Own'
  BY TypeStep DEF OwnInv
<1>1. UNCHANGED <<bucket, replaced>>
  <2>1. ASSUME NEW k \in Keys, NEW x \in Contents, Replace(k, x) PROVE FALSE
    BY <2>1 DEF Replace, OwnInv, TInv, TypeOK
  <2>2. QED
    BY Sides, <2>1 DEF IndexKeeps, WorkerKeeps, vars, history
<1>2. TInv /\ Own
  BY <1>1 DEF OwnInv
<1>3. IndexOwn'
  <2>1. IndexSide \/ UNCHANGED <<archive, indexer>>
    <3>1. ASSUME NEW k \in Keys, NEW x \in Contents, Replace(k, x)
          PROVE  UNCHANGED <<archive, indexer>>
      BY <3>1 DEF Replace
    <3>2. QED
      BY Sides, <3>1 DEF WorkerKeeps, vars
  <2>2. QED
    BY <1>1, <1>2, <2>1, IndexOwnStep DEF Own
<1>4. RowsOwn'
  <2>1. CASE WorkerSide
    BY <1>2, <2>1, RowsOwnStep
  <2>2. CASE UNCHANGED <<rows, row, wpc>>
    BY <1>2, <2>2 DEF Own, RowsOwn
  <2>3. ASSUME NEW k \in Keys, NEW x \in Contents, Replace(k, x)
        PROVE  UNCHANGED <<rows, row, wpc>>
    BY <2>3 DEF Replace, worker, local
  <2>4. QED
    BY Sides, <2>1, <2>2, <2>3 DEF IndexKeeps, vars, worker, local
<1>5. QED
  BY <1>2, <1>3, <1>4, QueueOwnStep, TasksOwnStep, TextIsOwnStep DEF Own

(* Whatever the workers, the index runs, the crashes and the failing calls *)
(* do to one another: as long as no object is replaced, what is stored     *)
(* under a digest is the text of that content, or the answer that a blank  *)
(* or oversized one has none.                                              *)
THEOREM EntriesAreOwn == Spec => [](replaced = 0 => TextIsOwn)
<1>1. Init => OwnInv
  <2> SUFFICES ASSUME Init PROVE Own
    BY TypeInit DEF OwnInv
  <2>1. IndexOwn
    BY DEF Init, IndexOwn, Indexing
  <2>2. QueueOwn /\ TextIsOwn
    BY DEF Init, QueueOwn, TextIsOwn
  <2>3. RowsOwn /\ TasksOwn
    BY DEF Init, RowsOwn, TasksOwn, NoTasks
  <2>4. QED
    BY <2>1, <2>2, <2>3 DEF Own
<1>2. OwnInv => (replaced = 0 => TextIsOwn)
  BY DEF OwnInv, Own
<1>3. QED
  BY OwnStep, <1>1, <1>2, PTL DEF Spec

-----------------------------------------------------------------------------
(* One worker process: what the state file answers for is accounted for.   *)

(* The digest was asked for: it has an entry, was queued, or could not be. *)
Accounted(d) == d \in dropped \/ d \in wanted \/ text[d] # None

(* The content an index run has read is the listed one if the object still *)
(* is as listed; past the lookup it is accounted for.                      *)
ReadListed ==
  ipc \in Indexing /\ ilist[ikey] = bucket[ikey] /\ bucket[ikey] # None => iread = bucket[ikey]
ReadAccounted == ipc \in {"store", "commit", "mark"} /\ iread # None => Accounted(iread)
SeenAccounted ==
  \A k \in Keys : seen[k] = bucket[k] /\ bucket[k] # None => Accounted(bucket[k])
SInv == ReadListed /\ ReadAccounted /\ SeenAccounted

(* A step that gives no object a content back which the run has listed or  *)
(* the state file names: between the listing and the mark such an object   *)
(* changes unnoticed.                                                      *)
NewContent ==
  \A k \in Keys : bucket'[k] # bucket[k] /\ bucket'[k] # None
                    => bucket'[k] \notin {seen[k], ilist[k]}
NotRestored == [][NewContent]_vars

(* Queueing only adds to what was asked for. *)
LEMMA EnqueueAccounts ==
  ASSUME NEW d, NEW k, enqueue(d, k)
  PROVE  /\ wanted \subseteq wanted' /\ dropped \subseteq dropped'
         /\ d \in wanted' \/ d \in dropped'
BY DEF enqueue

(* What has been asked for stays so. *)
LEMMA AccountedGrows ==
  ASSUME TInv, [Next]_vars, NEW d \in Digests, Accounted(d)
  PROVE  Accounted(d)'
<1> DEFINE Grows == wanted \subseteq wanted' /\ dropped \subseteq dropped'
<1>1. QueueMiss => Grows /\ UNCHANGED text
  BY EnqueueAccounts DEF QueueMiss
<1>2. ASSUME NEW w \in Workers, PrefillEnqueue(w) PROVE Grows /\ UNCHANGED text
  BY <1>2, EnqueueAccounts DEF PrefillEnqueue
<1>3. ASSUME NEW w \in Workers, NEW e \in Digests, put(w, e)
      PROVE  Grows /\ (text[d] # None => text'[d] # None)
  <2>1. out[w][e] # None
    BY <1>3, DataAssumption DEF put, TInv, WorkerLocals, Answers
  <2>2. text' = [text EXCEPT ![e] = out[w][e]] \/ text' = text
    BY <1>3 DEF put
  <2>3. QED
    BY <1>3, <2>1, <2>2 DEF put, TInv, TypeOK
<1>4. ASSUME NEW w \in Workers, ListQueue(w) \/ CrashWorker(w)
      PROVE  UNCHANGED <<wanted, dropped, text>>
  BY <1>4 DEF ListQueue, CrashWorker, store
<1>5. ASSUME NEW w \in Workers, NEW e \in Digests,
             \/ ReadJob(w, e) \/ Spawn(w, e) \/ CheckCache(w, e) \/ RunJob(w, e)
             \/ put_xhtml(w, e) \/ remove_job(w, e) \/ retry(w, e)
      PROVE  UNCHANGED <<wanted, dropped, text>>
  BY <1>5 DEF ReadJob, Spawn, CheckCache, RunJob, put_xhtml, remove_job, retry, store, history
<1>6. ASSUME ~Writes
      PROVE  UNCHANGED <<wanted, dropped, text>>
  <2>1. ASSUME NEW k \in Keys, NEW x \in Contents, Replace(k, x) PROVE UNCHANGED dropped
    BY <2>1 DEF Replace
  <2>2. IndexSide => UNCHANGED dropped
    BY <1>6 DEF IndexSide, IndexStep, StartIndex, ReadObject, Lookup, StoreRow, CommitDoc,
      MarkObject, ObjectFails, FinishIndex, CrashIndex, Writes, history
  <2>3. WorkerSide => UNCHANGED dropped
    BY <1>6 DEF WorkerSide, WorkerStep, TaskStep, StartWorker, PrefillRow, PrefillDone,
      StartDrain, FinishWorker, Writes, TaskWrites, history
  <2>4. QED
    BY <1>6, QuietStep, Sides, <2>1, <2>2, <2>3 DEF files, vars, history
<1>7. QED
  BY QuietStep, <1>1, <1>2, <1>3, <1>4, <1>5, <1>6 DEF Writes, TaskWrites, Accounted

(* A step of a worker leaves the index run its premises. *)
LEMMA AccountedFrame ==
  ASSUME TInv, SInv, [Next]_vars, UNCHANGED <<bucket, seen, indexer>>
  PROVE  SInv'
<1>1. ReadListed'
  BY DEF SInv, ReadListed, indexer
<1>2. ReadAccounted'
  BY AccountedGrows DEF SInv, ReadAccounted, indexer, TInv, TypeOK, Contents
<1>3. SeenAccounted'
  <2>1. \A k \in Keys : bucket[k] # None => bucket[k] \in Digests
    BY DEF TInv, TypeOK, Contents
  <2>2. QED
    BY <2>1, AccountedGrows DEF SInv, SeenAccounted
<1>4. QED
  BY <1>1, <1>2, <1>3 DEF SInv

(* SInv is inductive as long as no object gets an earlier content back.    *)
LEMMA AccountedStep ==
  ASSUME TInv, SInv, [Next]_vars, NewContent \/ UNCHANGED vars
  PROVE  SInv'
<1>a. /\ \A k \in Keys : bucket[k] # None => bucket[k] \in Digests
      /\ iread # None => iread \in Digests
  BY DEF TInv, TypeOK, Contents
<1>s. UNCHANGED <<bucket, seen>> => SeenAccounted'
  BY <1>a, AccountedGrows DEF SInv, SeenAccounted
<1>1. ASSUME NEW k \in Keys, NEW x \in Contents, Replace(k, x) PROVE SInv'
  <2>1. /\ \A j \in Keys : bucket'[j] = IF j = k THEN x ELSE bucket[j]
        /\ UNCHANGED <<seen, ipc, ilist, ikey, iread>>
    BY <1>1 DEF Replace, archive, indexer, TInv, TypeOK
  <2>2. x # bucket[k]
    BY <1>1 DEF Replace
  <2>3. x = None \/ x \notin {seen[k], ilist[k]}
    BY <2>1, <2>2 DEF NewContent, vars
  <2>4. ReadListed'
    BY <2>1, <2>3 DEF SInv, ReadListed, TInv, IndexLocals, Indexing
  <2>5. ReadAccounted'
    BY <1>a, <2>1, AccountedGrows DEF SInv, ReadAccounted
  <2>6. ASSUME NEW j \in Keys, seen'[j] = bucket'[j], bucket'[j] # None
        PROVE  Accounted(bucket[j])' /\ bucket'[j] = bucket[j]
    BY <1>a, <2>1, <2>3, <2>6, AccountedGrows DEF SInv, SeenAccounted
  <2>7. SeenAccounted'
    BY <2>6 DEF SeenAccounted, Accounted
  <2>8. QED
    BY <2>4, <2>5, <2>7 DEF SInv
<1>2. ASSUME NEW k \in Keys, ReadObject(k) PROVE SInv'
  BY <1>2, <1>s DEF ReadObject, Goto, archive, SInv, ReadListed, ReadAccounted, Indexing
<1>3. CASE Lookup
  <2>1. iread \in Digests
    BY <1>3 DEF Lookup, TInv, IndexLocals
  <2>2. ReadAccounted'
    BY <1>3, <2>1 DEF Lookup, Hit, Goto, ReadAccounted, Accounted, store
  <2>3. ReadListed'
    BY <1>3 DEF Lookup, Goto, SInv, ReadListed, Indexing
  <2>4. QED
    BY <1>3, <1>s, <2>2, <2>3 DEF Lookup, archive, SInv
<1>4. CASE QueueMiss
  <2>1. ReadAccounted'
    BY <1>4, EnqueueAccounts DEF QueueMiss, ReadAccounted, Accounted
  <2>2. ReadListed'
    BY <1>4 DEF QueueMiss, Goto, SInv, ReadListed, Indexing
  <2>3. QED
    BY <1>4, <1>s, <2>1, <2>2 DEF QueueMiss, archive, SInv
<1>5. CASE StoreRow \/ CommitDoc
  <2>1. ReadAccounted'
    BY <1>5, <1>a, AccountedGrows DEF StoreRow, CommitDoc, Goto, SInv, ReadAccounted
  <2>2. ReadListed'
    BY <1>5 DEF StoreRow, CommitDoc, Goto, SInv, ReadListed, Indexing
  <2>3. QED
    BY <1>5, <1>s, <2>1, <2>2 DEF StoreRow, CommitDoc, SInv
<1>6. CASE MarkObject
  <2>1. /\ ikey \in Keys
        /\ \A k \in Keys : seen'[k] = IF k = ikey THEN ilist[ikey] ELSE seen[k]
        /\ UNCHANGED bucket
    BY <1>6 DEF MarkObject, TInv, TypeOK, IndexLocals
  <2>2. ilist[ikey] = bucket[ikey] /\ bucket[ikey] # None => Accounted(bucket[ikey])
    BY <1>6 DEF MarkObject, SInv, ReadListed, ReadAccounted, Indexing
  <2>3. \A k \in Keys : seen'[k] = bucket[k] /\ bucket[k] # None => Accounted(bucket[k])
    BY <2>1, <2>2 DEF SInv, SeenAccounted
  <2>4. SeenAccounted'
    BY <1>a, <2>1, <2>3, AccountedGrows DEF SeenAccounted
  <2>5. QED
    BY <1>6, <2>4 DEF MarkObject, Goto, SInv, ReadListed, ReadAccounted, Indexing
<1>7. CASE ObjectFails \/ FinishIndex \/ CrashIndex \/ \E m \in IndexKinds : StartIndex(m)
  <2>1. ipc' \in {"idle", "loop"} /\ UNCHANGED <<bucket, seen>>
    BY <1>7 DEF ObjectFails, FinishIndex, CrashIndex, StartIndex, EndIndex, Goto, archive
  <2>2. QED
    BY <2>1, <1>s DEF SInv, ReadListed, ReadAccounted, Indexing
<1>8. CASE WorkerKeeps \/ UNCHANGED vars
  BY <1>8, AccountedFrame DEF WorkerKeeps, vars, archive
<1>9. QED
  BY Sides, <1>1, <1>2, <1>3, <1>4, <1>5, <1>6, <1>7, <1>8 DEF IndexSide, IndexStep

(* What was asked for is kept, unless its queueing failed. *)
LEMMA AccountedIsKept ==
  TInv /\ SInv /\ NoLostJob => SeenIsAccounted
BY DEF SInv, SeenAccounted, Accounted, NoLostJob, Kept, SeenIsAccounted

(* Nothing has been seen in the beginning. *)
LEMMA AccountedInit == Init => SInv
<1> SUFFICES ASSUME Init PROVE SInv
  OBVIOUS
<1>1. \A k \in Keys : seen[k] # bucket[k]
  BY DataAssumption DEF Init, Contents
<1>2. QED
  BY <1>1 DEF Init, SInv, ReadListed, ReadAccounted, SeenAccounted, Indexing

(* With one worker process, and as long as no object gets back a content   *)
(* that the running index run listed or the state file names, an object    *)
(* the state file answers for lacks its text only as long as its digest is *)
(* in the cache, queued or parked, or could not be queued.                 *)
THEOREM SeenStaysAccounted == OneWorker => (Spec /\ NotRestored => []SeenIsAccounted)
<1> SUFFICES ASSUME OneWorker
             PROVE  Spec /\ NotRestored => []SeenIsAccounted
  OBVIOUS
<1>1. TInv /\ SInv /\ [Next]_vars /\ [NewContent]_vars => SInv'
  BY AccountedStep
<1>2. QED
  BY TypeInit, TypeStep, AccountedInit, AccountedIsKept, NothingLost, <1>1, PTL
  DEF Spec, NotRestored

(* Before the first replacement everything names the initial contents, so  *)
(* the first one restores nothing.                                         *)
Untouched ==
  /\ bucket = Start
  /\ \A k \in Keys : seen[k] \in {Start[k], "new"} /\ ilist[k] \in {Start[k], None}
  /\ ipc # "idle" => ilist = Start
OnceInv == (replaced = 0 => Untouched) /\ (replaced <= 1 => SInv)

(* Up to the first replacement the inductive invariant needs no premise.   *)
LEMMA OnceStep ==
  TInv /\ OnceInv /\ [Next]_vars => OnceInv'
<1> SUFFICES ASSUME TInv, OnceInv, [Next]_vars
             PROVE  OnceInv'
  OBVIOUS
<1>1. ASSUME NEW k \in Keys, NEW x \in Contents, Replace(k, x) PROVE OnceInv'
  <2>1. replaced' = replaced + 1 /\ replaced \in Nat
    BY <1>1, DataAssumption DEF Replace, TInv, TypeOK
  <2>2. CASE replaced = 0
    <3>1. /\ \A j \in Keys : bucket'[j] = IF j = k THEN x ELSE bucket[j]
          /\ bucket = Start /\ x # Start[k]
      BY <1>1, <2>2 DEF Replace, TInv, TypeOK, OnceInv, Untouched
    <3>2. x # "new"
      BY DataAssumption DEF Contents
    <3>3. NewContent
      BY <2>2, <3>1, <3>2 DEF NewContent, OnceInv, Untouched
    <3>4. SInv'
      BY <2>2, <3>3, AccountedStep DEF OnceInv
    <3>5. QED
      BY <2>1, <2>2, <3>4 DEF OnceInv
  <2>3. CASE replaced # 0
    BY <2>1, <2>3 DEF OnceInv
  <2>4. QED
    BY <2>2, <2>3
<1>2. CASE UNCHANGED <<bucket, replaced>>
  <2>1. SInv => SInv'
    BY <1>2, AccountedStep DEF NewContent
  <2>2. replaced = 0 => Untouched'
    <3> SUFFICES ASSUME Untouched PROVE Untouched'
      BY DEF OnceInv
    <3>1. ASSUME NEW m \in IndexKinds, StartIndex(m) PROVE Untouched'
      BY <1>2, <3>1 DEF StartIndex, archive, Untouched
    <3>2. CASE MarkObject
      <4>1. ikey \in Keys /\ ilist[ikey] = Start[ikey] /\ UNCHANGED ilist /\ ipc # "idle"
        BY <3>2 DEF MarkObject, TInv, IndexLocals, Untouched
      <4>2. seen' = [seen EXCEPT ![ikey] = ilist[ikey]]
        BY <3>2 DEF MarkObject
      <4>3. QED
        BY <1>2, <4>1, <4>2 DEF Untouched, TInv, TypeOK
    <3>3. CASE FinishIndex \/ CrashIndex
      BY <1>2, <3>3 DEF FinishIndex, CrashIndex, EndIndex, Goto, archive, Untouched
    <3>4. CASE UNCHANGED <<seen, ilist>> /\ (ipc # "idle" \/ UNCHANGED ipc)
      BY <1>2, <3>4 DEF Untouched
    <3>5. ASSUME NEW k \in Keys, ReadObject(k) PROVE UNCHANGED <<seen, ilist>> /\ ipc # "idle"
      BY <3>5 DEF ReadObject, archive
    <3>6. Lookup \/ QueueMiss \/ StoreRow \/ CommitDoc \/ ObjectFails
            => UNCHANGED <<seen, ilist>> /\ ipc # "idle"
      BY DEF Lookup, QueueMiss, StoreRow, CommitDoc, ObjectFails, archive
    <3>7. WorkerKeeps \/ UNCHANGED vars => UNCHANGED <<seen, ilist, ipc>>
      BY DEF WorkerKeeps, vars, archive, indexer
    <3>8. ASSUME NEW k \in Keys, NEW x \in Contents, Replace(k, x)
          PROVE  UNCHANGED <<seen, ilist, ipc>>
      BY <3>8 DEF Replace, archive, indexer
    <3>9. QED
      BY Sides, <3>1, <3>2, <3>3, <3>4, <3>5, <3>6, <3>7, <3>8 DEF IndexSide, IndexStep
  <2>3. QED
    BY <1>2, <2>1, <2>2 DEF OnceInv
<1>3. QED
  BY Sides, <1>1, <1>2 DEF IndexKeeps, WorkerKeeps, vars, history

(* The same as an invariant: it holds up to the second replacement, with   *)
(* no premise on what the objects get.                                     *)
THEOREM SeenUpToOneReplacement == OneWorker => (Spec => [](replaced <= 1 => SeenIsAccounted))
<1> SUFFICES ASSUME OneWorker
             PROVE  Spec => [](replaced <= 1 => SeenIsAccounted)
  OBVIOUS
<1>1. Init => OnceInv
  <2>1. Init => Untouched
    BY DEF Init, Untouched
  <2>2. QED
    BY <2>1, AccountedInit DEF OnceInv
<1>2. TInv /\ OnceInv /\ NoLostJob => (replaced <= 1 => SeenIsAccounted)
  BY AccountedIsKept DEF OnceInv
<1>3. QED
  BY TypeInit, TypeStep, OnceStep, NothingLost, <1>1, <1>2, PTL DEF Spec

=============================================================================
