---------------------------- MODULE IngestProofs ----------------------------
(***************************************************************************)
(* Proofs about Ingest, for every set of keys and captures, every content  *)
(* of the objects and every bound on versions and faults.                  *)
(***************************************************************************)
EXTENDS Ingest, TLAPS

(* The records of a batch under one primary key have a last one, so the    *)
(* row upsert_batch_counted leaves there is a row of the batch.            *)
LEMMA LastWins ==
  ASSUME NEW k \in Keys, NEW v \in Versions, NEW S \in SUBSET Content[k][v], S # {}
  PROVE  (CHOOSE c \in S : \A d \in S : Pos[d] <= Pos[c]) \in S
BY LastRecordAssumption

(* What upsert_batch_counted does: keys the batch does not touch keep      *)
(* their rows, the others get a row that names the object and a record of  *)
(* the batch under that key.                                               *)
LEMMA UpsertBatch ==
  ASSUME TypeOK, NEW k \in Keys, NEW v \in Versions, NEW C \in SUBSET Content[k][v]
  PROVE  /\ upsert_batch(k, C) \in [Slots -> Rows \cup {NoRow}]
         /\ \A s \in Slots : \/ /\ upsert_batch(k, C)[s] = cdx[s]
                                /\ \A c \in C : Slot(c) # s
                             \/ /\ upsert_batch(k, C)[s] # NoRow
                                /\ upsert_batch(k, C)[s].cap \in C
                                /\ Slot(upsert_batch(k, C)[s].cap) = s
<1> DEFINE In(s) == {c \in C : Slot(c) = s}
           last(s) == CHOOSE c \in In(s) : \A d \in In(s) : Pos[d] <= Pos[c]
<1>1. ASSUME NEW s \in Slots, In(s) # {}
      PROVE  last(s) \in In(s)
  <2>1. In(s) \in SUBSET Content[k][v]
    OBVIOUS
  <2>2. QED
    BY <1>1, <2>1, LastWins
<1>2. upsert_batch(k, C)
        = [s \in Slots |-> IF In(s) = {} THEN cdx[s] ELSE [key |-> k, cap |-> last(s)]]
  BY DEF upsert_batch
<1>3. C \subseteq Captures
  BY DataAssumption
<1>4. ASSUME NEW s \in Slots
      PROVE  /\ upsert_batch(k, C)[s] \in Rows \cup {NoRow}
             /\ \/ /\ upsert_batch(k, C)[s] = cdx[s]
                   /\ \A c \in C : Slot(c) # s
                \/ /\ upsert_batch(k, C)[s] # NoRow
                   /\ upsert_batch(k, C)[s].cap \in C
                   /\ Slot(upsert_batch(k, C)[s].cap) = s
  <2>1. CASE In(s) = {}
    <3>1. upsert_batch(k, C)[s] = cdx[s]
      BY <2>1, <1>2
    <3>2. cdx[s] \in Rows \cup {NoRow}
      BY DEF TypeOK
    <3>3. \A c \in C : Slot(c) # s
      BY <2>1
    <3>4. QED
      BY <3>1, <3>2, <3>3
  <2>2. CASE In(s) # {}
    <3> HIDE DEF last
    <3>1. upsert_batch(k, C)[s] = [key |-> k, cap |-> last(s)]
      BY <2>2, <1>2
    <3>2. last(s) \in C /\ Slot(last(s)) = s
      BY <1>1, <2>2
    <3>3. [key |-> k, cap |-> last(s)] \in Rows
      BY <3>2, <1>3 DEF Rows
    <3>4. QED
      BY <3>1, <3>2, <3>3, DataAssumption
  <2>3. QED
    BY <2>1, <2>2
<1>5. upsert_batch(k, C) \in [Slots -> Rows \cup {NoRow}]
  <2> HIDE DEF In, last
  <2>1. QED
    BY <1>2, <1>4
<1>6. QED
  BY <1>4, <1>5

(* The first run starts from well-typed, empty stores. *)
LEMMA TypeInit == Init => TypeOK
BY DataAssumption DEF Init, TypeOK, NoTags, Etags, Versions, AllKinds

(* Stopping the process leaves well-typed memory behind. *)
LEMMA TypeStop ==
  ASSUME TypeOK, Stop, UNCHANGED <<durable, ever, partial>>, faults' \in 0..MaxFaults
  PROVE  TypeOK'
BY DataAssumption DEF TypeOK, Stop, Goto, durable, NoTags, Etags, Versions, AllKinds

(* Every step keeps the types; that upsert_batch_counted writes a row needs *)
(* the batch to come from one object.                                      *)
LEMMA TypeStep == TypeOK /\ BatchFromVersion /\ [Next]_vars => TypeOK'
<1> SUFFICES ASSUME TypeOK, BatchFromVersion, [Next]_vars PROVE TypeOK'
  OBVIOUS
<1>f. Fault => faults' \in 0..MaxFaults
  BY DataAssumption DEF Fault, TypeOK
<1>1. ASSUME NEW k \in Keys, Upload(k) PROVE TypeOK'
  <2>1. bucket[k] + 1 \in Etags
    BY <1>1, DataAssumption DEF TypeOK, Upload, Etags
  <2>2. bucket' \in [Keys -> Etags]
    BY <1>1, <2>1 DEF TypeOK, Upload
  <2>3. QED
    BY <1>1, <2>2 DEF TypeOK, Upload, volatile
<1>2. CASE Crash
  BY <1>2, <1>f, TypeStop DEF Crash
<1>3. ASSUME NEW m \in RunKinds, NEW l \in SkipLists, StartRun(m, l) PROVE TypeOK'
  BY <1>3, DataAssumption DEF TypeOK, StartRun, Goto, durable, SurtsUnder
<1>4. ASSUME NEW h \in doms, purge_domain(h) PROVE TypeOK'
  <2>1. cdx' \in [Slots -> Rows \cup {NoRow}]
    BY <1>4 DEF TypeOK, purge_domain, DeleteSurts
  <2>2. writer' \in [Docs -> Nat]
    BY <1>4 DEF TypeOK, purge_domain, delete_urls
  <2>3. QED
    BY <1>4, <2>1, <2>2 DEF TypeOK, purge_domain
<1>5. CASE CommitDomains
  <2>1. CASE Stop /\ Fault /\ UNCHANGED index
    BY <1>5, <2>1, <1>f, TypeStop DEF CommitDomains, durable
  <2>2. CASE /\ Goto("patterns")
             /\ index' = IF skip.dom = {} THEN index ELSE writer
             /\ UNCHANGED <<volatile, faults>>
    BY <1>5, <2>2 DEF TypeOK, CommitDomains, Goto, volatile
  <2>3. QED
    BY <1>5, <2>1, <2>2 DEF CommitDomains
<1>6. CASE purge_url_patterns
  <2>1. cdx' \in [Slots -> Rows \cup {NoRow}]
    BY <1>6 DEF TypeOK, purge_url_patterns, DeleteSurts
  <2>2. writer' \in [Docs -> Nat]
    <3>1. \A U : delete_urls(U) \in [Docs -> Nat]
      BY DEF TypeOK, delete_urls
    <3>2. writer' = writer \/ \E U : writer' = delete_urls(U)
      BY <1>6 DEF purge_url_patterns
    <3>3. QED
      BY <3>1, <3>2 DEF TypeOK
  <2>3. pc' \in {"load", "pcommit"}
    BY <1>6 DEF purge_url_patterns, Goto
  <2>4. QED
    BY <1>6, <2>1, <2>2, <2>3 DEF TypeOK, purge_url_patterns
<1>7. CASE CommitPatterns
  <2>1. CASE Stop /\ Fault /\ UNCHANGED index
    BY <1>7, <2>1, <1>f, TypeStop DEF CommitPatterns, durable
  <2>2. CASE Goto("load") /\ UNCHANGED <<volatile, faults>> /\ index' = writer
    BY <1>7, <2>2 DEF TypeOK, CommitPatterns, Goto, volatile
  <2>3. QED
    BY <1>7, <2>1, <2>2 DEF CommitPatterns
<1>8. CASE LoadState
  <2>1. seen' \in [Keys -> Etags]
    BY <1>8, DataAssumption DEF TypeOK, LoadState, NoTags, Etags
  <2>2. faults' \in 0..MaxFaults
    BY <1>8, <1>f DEF TypeOK, LoadState
  <2>3. QED
    BY <1>8, <2>1, <2>2 DEF TypeOK, LoadState, Goto, durable
<1>9. CASE ListObjects
  <2>1. todo' \subseteq Keys
    BY <1>9 DEF ListObjects, Listings
  <2>2. etag' \in [Keys -> Etags]
    BY <1>9, DataAssumption DEF TypeOK, ListObjects, NoTags, Etags
  <2>3. pc' \in {"done", "final", "loop"}
    BY <1>9 DEF ListObjects, Goto
  <2>4. QED
    BY <1>9, <2>1, <2>2, <2>3 DEF TypeOK, ListObjects, durable
<1>10. CASE ListFails
  BY <1>10, <1>f, TypeStop DEF ListFails
<1>11. ASSUME NEW k \in todo, NextObject(k) PROVE TypeOK'
  BY <1>11 DEF TypeOK, NextObject, Goto, durable
<1>12. CASE GetFails
  BY <1>12, <1>f DEF TypeOK, GetFails, FileFails, Goto, durable, volatile
<1>13. CASE ParseObject
  <2>1. cur \in Keys /\ bucket[cur] \in Versions
    BY <1>13, DataAssumption DEF TypeOK, ParseObject, Etags, Versions
  <2>2. Content[cur][bucket[cur]] \subseteq Captures
    BY <2>1, DataAssumption
  <2>3. batch' \subseteq Captures
    BY <1>13, <2>2 DEF ParseObject, handle_record
  <2>4. partial' \subseteq Keys
    BY <1>13, <2>1 DEF TypeOK, ParseObject
  <2>5. faults' \in 0..MaxFaults
    BY <1>13, <1>f DEF TypeOK, ParseObject
  <2>6. rver' \in Etags /\ rver' \in Versions
    BY <1>13, <2>1 DEF TypeOK, ParseObject
  <2>7. QED
    BY <1>13, <2>1, <2>3, <2>4, <2>5, <2>6 DEF TypeOK, ParseObject, Goto, durable
<1>14. CASE UpsertCdx
  <2>1. cur \in Keys /\ rver \in Versions
    BY <1>14 DEF TypeOK, UpsertCdx
  <2>2. cdx' \in [Slots -> Rows \cup {NoRow}]
    BY <1>14, <2>1, UpsertBatch DEF TypeOK, UpsertCdx, BatchFromVersion, Reading
  <2>3. task' \in [Keys -> Etags]
    BY <1>14, DataAssumption DEF TypeOK, UpsertCdx, Etags
  <2>4. faults' \in 0..MaxFaults /\ pc' \in {"write", "save"}
    BY <1>14, <1>f DEF TypeOK, UpsertCdx, FileFails, Goto
  <2>5. QED
    BY <1>14, <2>1, <2>2, <2>3, <2>4 DEF TypeOK, UpsertCdx
<1>15. CASE WriteDocs
  <2>1. cur \in Keys /\ rver \in Versions
    BY <1>15 DEF TypeOK, WriteDocs
  <2>2. writer' \in [Docs -> Nat]
    BY <1>15 DEF TypeOK, WriteDocs, ReplaceDocs
  <2>3. faults' \in 0..MaxFaults /\ pc' \in {"commit", "save"}
    BY <1>15, <1>f DEF TypeOK, WriteDocs, FileFails, Goto
  <2>4. partial' \subseteq Keys
    BY <1>15, <2>1 DEF TypeOK, WriteDocs
  <2>5. QED
    BY <1>15, <2>1, <2>2, <2>3, <2>4 DEF TypeOK, WriteDocs, durable
<1>16. CASE CommitFile
  <2>1. cur \in Keys /\ rver \in Versions
    BY <1>16 DEF TypeOK, CommitFile
  <2>2. index' \in [Docs -> Nat]
    BY <1>16 DEF TypeOK, CommitFile
  <2>3. faults' \in 0..MaxFaults /\ pc' \in {"mark", "save"}
    BY <1>16, <1>f DEF TypeOK, CommitFile, FileFails, Goto
  <2>4. partial' \subseteq Keys
    BY <1>16 DEF TypeOK, CommitFile
  <2>5. QED
    BY <1>16, <2>1, <2>2, <2>3, <2>4 DEF TypeOK, CommitFile, volatile
<1>17. CASE mark_seen
  BY <1>17 DEF TypeOK, mark_seen, Goto, durable
<1>18. CASE SaveState
  <2>1. saved' \in [Keys -> Etags] /\ faults' \in 0..MaxFaults
    BY <1>18, <1>f DEF TypeOK, SaveState
  <2>2. todo' \subseteq Keys /\ pc' \in {"final", "loop"}
    BY <1>18 DEF TypeOK, SaveState, Goto
  <2>3. QED
    BY <1>18, <2>1, <2>2, DataAssumption DEF TypeOK, SaveState, Etags
<1>19. CASE FinalCommit
  <2>1. CASE Fault /\ UNCHANGED index /\ Stop
    BY <1>19, <2>1, <1>f, TypeStop DEF FinalCommit, durable
  <2>2. CASE Goto("done") /\ index' = writer /\ UNCHANGED <<volatile, faults>>
    BY <1>19, <2>2 DEF TypeOK, FinalCommit, Goto, volatile
  <2>3. QED
    BY <1>19, <2>1, <2>2 DEF FinalCommit
<1>20. CASE Exit
  BY <1>20, TypeStop DEF Exit, TypeOK
<1>21. ASSUME NEW k \in Keys, write_cdx_sidecar(k) PROVE TypeOK'
  <2>1. faults' \in 0..MaxFaults
    BY <1>21, <1>f DEF TypeOK, write_cdx_sidecar
  <2>2. task' \in [Keys -> Etags] /\ sidecar' \in [Keys -> Etags]
    BY <1>21, DataAssumption DEF TypeOK, write_cdx_sidecar, Etags
  <2>3. QED
    BY <1>21, <2>1, <2>2 DEF TypeOK, write_cdx_sidecar
<1>22. CASE UNCHANGED vars
  BY <1>22 DEF TypeOK, vars, durable, volatile
<1>23. QED
  BY <1>1, <1>2, <1>3, <1>4, <1>5, <1>6, <1>7, <1>8, <1>9, <1>10, <1>11, <1>12, <1>13,
     <1>14, <1>15, <1>16, <1>17, <1>18, <1>19, <1>20, <1>21, <1>22 DEF Next, Step

(* ETags and versions stay in order: an upload only raises the bucket, and  *)
(* mark_seen records the ETag of the listing, which the GET cannot precede. *)
LEMMA EtagsStep ==
  TypeOK /\ TypeOK' /\ EtagsInOrder /\ [Next]_vars => EtagsInOrder'
<1> SUFFICES ASSUME TypeOK, TypeOK', EtagsInOrder, [Next]_vars
             PROVE  EtagsInOrder'
  OBVIOUS
<1>1. ASSUME NEW k \in Keys, Upload(k) PROVE EtagsInOrder'
  BY <1>1, DataAssumption DEF Upload, volatile, TypeOK, EtagsInOrder, Etags, Versions, Reading
<1>2. ASSUME NEW m \in RunKinds, NEW l \in SkipLists, StartRun(m, l) PROVE EtagsInOrder'
  BY <1>2, DataAssumption DEF StartRun, Goto, durable, TypeOK, EtagsInOrder, Etags, Versions, Reading
<1>3. ASSUME NEW h \in doms, purge_domain(h) PROVE EtagsInOrder'
  BY <1>3, DataAssumption DEF purge_domain, TypeOK, EtagsInOrder, Etags, Versions, Reading
<1>4. ASSUME NEW k \in todo, NextObject(k) PROVE EtagsInOrder'
  BY <1>4, DataAssumption DEF NextObject, Goto, durable, TypeOK, EtagsInOrder, Etags, Versions, Reading
<1>5. ASSUME NEW k \in Keys, write_cdx_sidecar(k) PROVE EtagsInOrder'
  BY <1>5, DataAssumption DEF write_cdx_sidecar, TypeOK, EtagsInOrder, Etags, Versions, Reading
<1>6. CASE Crash
  BY <1>6, DataAssumption DEF Crash, Stop, Goto, durable, NoTags, TypeOK, EtagsInOrder, Etags, Versions, Reading
<1>7. CASE CommitDomains
  BY <1>7, DataAssumption DEF CommitDomains, Stop, Goto, volatile, NoTags, TypeOK, EtagsInOrder, Etags, Versions, Reading
<1>8. CASE purge_url_patterns
  BY <1>8, DataAssumption DEF purge_url_patterns, Goto, TypeOK, EtagsInOrder, Etags, Versions, Reading
<1>9. CASE CommitPatterns
  BY <1>9, DataAssumption DEF CommitPatterns, Stop, Goto, volatile, NoTags, TypeOK, EtagsInOrder, Etags, Versions, Reading
<1>10. CASE LoadState
  BY <1>10, DataAssumption DEF LoadState, Goto, durable, NoTags, TypeOK, EtagsInOrder, Etags, Versions, Reading
<1>11. CASE ListObjects
  BY <1>11, DataAssumption DEF ListObjects, Goto, durable, NoTags, TypeOK, EtagsInOrder, Etags, Versions, Reading
<1>12. CASE ListFails
  BY <1>12, DataAssumption DEF ListFails, Stop, Goto, durable, NoTags, TypeOK, EtagsInOrder, Etags, Versions, Reading
<1>13. CASE GetFails
  BY <1>13, DataAssumption DEF GetFails, FileFails, Goto, durable, volatile, TypeOK, EtagsInOrder, Etags, Versions, Reading
<1>14. CASE ParseObject
  BY <1>14, DataAssumption DEF ParseObject, Goto, durable, TypeOK, EtagsInOrder, Etags, Versions, Reading
<1>15. CASE UpsertCdx
  BY <1>15, DataAssumption DEF UpsertCdx, FileFails, Goto, TypeOK, EtagsInOrder, Etags, Versions, Reading
<1>16. CASE WriteDocs
  BY <1>16, DataAssumption DEF WriteDocs, FileFails, Goto, durable, TypeOK, EtagsInOrder, Etags, Versions, Reading
<1>17. CASE CommitFile
  BY <1>17, DataAssumption DEF CommitFile, FileFails, Goto, volatile, TypeOK, EtagsInOrder, Etags, Versions, Reading
<1>18. CASE mark_seen
  BY <1>18, DataAssumption DEF mark_seen, Goto, durable, TypeOK, EtagsInOrder, Etags, Versions, Reading
<1>19. CASE SaveState
  BY <1>19, DataAssumption DEF SaveState, Goto, TypeOK, EtagsInOrder, Etags, Versions, Reading
<1>20. CASE FinalCommit
  BY <1>20, DataAssumption DEF FinalCommit, Stop, Goto, volatile, NoTags, TypeOK, EtagsInOrder, Etags, Versions, Reading
<1>21. CASE Exit
  BY <1>21, DataAssumption DEF Exit, Stop, Goto, durable, NoTags, TypeOK, EtagsInOrder, Etags, Versions, Reading
<1>22. CASE UNCHANGED vars
  BY <1>22, DataAssumption DEF vars, durable, volatile, TypeOK, EtagsInOrder, Etags, Versions, Reading
<1>23. QED
  BY <1>1, <1>2, <1>3, <1>4, <1>5, <1>6, <1>7, <1>8, <1>9, <1>10, <1>11, <1>12,
     <1>13, <1>14, <1>15, <1>16, <1>17, <1>18, <1>19, <1>20, <1>21, <1>22 DEF Next,
     Step

(* The skip list of the run stays on record. *)
LEMMA SkipStep ==
  TypeOK /\ SkipRecorded /\ [Next]_vars => SkipRecorded'
<1> SUFFICES ASSUME TypeOK, SkipRecorded, [Next]_vars
             PROVE  SkipRecorded'
  OBVIOUS
<1>1. ASSUME NEW k \in Keys, Upload(k) PROVE SkipRecorded'
  BY <1>1, DataAssumption DEF Upload, volatile, TypeOK, SkipRecorded, SurtsUnder
<1>2. ASSUME NEW m \in RunKinds, NEW l \in SkipLists, StartRun(m, l) PROVE SkipRecorded'
  BY <1>2, DataAssumption DEF StartRun, Goto, durable, TypeOK, SkipRecorded, SurtsUnder
<1>3. ASSUME NEW h \in doms, purge_domain(h) PROVE SkipRecorded'
  BY <1>3, DataAssumption DEF purge_domain, TypeOK, SkipRecorded, SurtsUnder
<1>4. ASSUME NEW k \in todo, NextObject(k) PROVE SkipRecorded'
  BY <1>4, DataAssumption DEF NextObject, Goto, durable, TypeOK, SkipRecorded, SurtsUnder
<1>5. ASSUME NEW k \in Keys, write_cdx_sidecar(k) PROVE SkipRecorded'
  BY <1>5, DataAssumption DEF write_cdx_sidecar, TypeOK, SkipRecorded, SurtsUnder
<1>6. CASE Crash
  BY <1>6, DataAssumption DEF Crash, Stop, Goto, durable, NoTags, TypeOK, SkipRecorded, SurtsUnder
<1>7. CASE CommitDomains
  BY <1>7, DataAssumption DEF CommitDomains, Stop, Goto, volatile, NoTags, TypeOK, SkipRecorded, SurtsUnder
<1>8. CASE purge_url_patterns
  BY <1>8, DataAssumption DEF purge_url_patterns, Goto, TypeOK, SkipRecorded, SurtsUnder
<1>9. CASE CommitPatterns
  BY <1>9, DataAssumption DEF CommitPatterns, Stop, Goto, volatile, NoTags, TypeOK, SkipRecorded, SurtsUnder
<1>10. CASE LoadState
  BY <1>10, DataAssumption DEF LoadState, Goto, durable, NoTags, TypeOK, SkipRecorded, SurtsUnder
<1>11. CASE ListObjects
  BY <1>11, DataAssumption DEF ListObjects, Goto, durable, NoTags, TypeOK, SkipRecorded, SurtsUnder
<1>12. CASE ListFails
  BY <1>12, DataAssumption DEF ListFails, Stop, Goto, durable, NoTags, TypeOK, SkipRecorded, SurtsUnder
<1>13. CASE GetFails
  BY <1>13, DataAssumption DEF GetFails, FileFails, Goto, durable, volatile, TypeOK, SkipRecorded, SurtsUnder
<1>14. CASE ParseObject
  BY <1>14, DataAssumption DEF ParseObject, Goto, durable, TypeOK, SkipRecorded, SurtsUnder
<1>15. CASE UpsertCdx
  BY <1>15, DataAssumption DEF UpsertCdx, FileFails, Goto, TypeOK, SkipRecorded, SurtsUnder
<1>16. CASE WriteDocs
  BY <1>16, DataAssumption DEF WriteDocs, FileFails, Goto, durable, TypeOK, SkipRecorded, SurtsUnder
<1>17. CASE CommitFile
  BY <1>17, DataAssumption DEF CommitFile, FileFails, Goto, volatile, TypeOK, SkipRecorded, SurtsUnder
<1>18. CASE mark_seen
  BY <1>18, DataAssumption DEF mark_seen, Goto, durable, TypeOK, SkipRecorded, SurtsUnder
<1>19. CASE SaveState
  BY <1>19, DataAssumption DEF SaveState, Goto, TypeOK, SkipRecorded, SurtsUnder
<1>20. CASE FinalCommit
  BY <1>20, DataAssumption DEF FinalCommit, Stop, Goto, volatile, NoTags, TypeOK, SkipRecorded, SurtsUnder
<1>21. CASE Exit
  BY <1>21, DataAssumption DEF Exit, Stop, Goto, durable, NoTags, TypeOK, SkipRecorded, SurtsUnder
<1>22. CASE UNCHANGED vars
  BY <1>22, DataAssumption DEF vars, durable, volatile, TypeOK, SkipRecorded, SurtsUnder
<1>23. QED
  BY <1>1, <1>2, <1>3, <1>4, <1>5, <1>6, <1>7, <1>8, <1>9, <1>10, <1>11, <1>12,
     <1>13, <1>14, <1>15, <1>16, <1>17, <1>18, <1>19, <1>20, <1>21, <1>22 DEF Next,
     Step


-----------------------------------------------------------------------------
(* What the two purges do to the stores: rows go by SURT, documents by URL, *)
(* and both only under SURTs that are on record as skip-listed.            *)
Purged(S, U) ==
  /\ cdx' = DeleteSurts(S)
  /\ writer' = delete_urls(U)
  /\ S \subseteq ever
  /\ \A u \in U : u \in Urls /\ to_surt[u] \in ever

(* purge_domain takes only what stands under the domain's SURTs. *)
LEMMA PurgeDomainEffect ==
  ASSUME TypeOK, SkipRecorded, RowsInSlot, NEW h \in doms, purge_domain(h)
  PROVE  \E S, U : Purged(S, U)
<1> DEFINE S == {s \in Surts : Host[s] = h}
           T == {t \in Slots : t[1] \in S /\ cdx[t] # NoRow}
           U == {Url[cdx[t].cap] : t \in T}
<1>1. cdx' = DeleteSurts(S) /\ writer' = delete_urls(U)
  BY DEF purge_domain
<1>2. S \subseteq ever
  BY DEF SkipRecorded, SurtsUnder
<1>3. ASSUME NEW t \in T PROVE Url[cdx[t].cap] \in Urls /\ to_surt[Url[cdx[t].cap]] \in ever
  <2>1. cdx[t] \in Rows /\ Slot(cdx[t].cap) = t
    BY <1>3 DEF TypeOK, RowsInSlot
  <2>2. to_surt[Url[cdx[t].cap]] = t[1]
    BY <2>1 DEF Slot
  <2>3. QED
    BY <1>2, <1>3, <2>1, <2>2, DataAssumption DEF Rows
<1>4. \A u \in U : u \in Urls /\ to_surt[u] \in ever
  BY <1>3
<1>5. QED
  BY <1>1, <1>2, <1>4 DEF Purged

(* purge_url_patterns takes nothing, or only what stands under the SURTs of *)
(* the URLs that its patterns name.                                        *)
LEMMA PurgePatternsEffect ==
  ASSUME TypeOK, SkipRecorded, RowsInSlot, purge_url_patterns
  PROVE  UNCHANGED <<cdx, writer>> \/ \E S, U : Purged(S, U)
<1> DEFINE hits == {s \in Slots : cdx[s] # NoRow /\ Url[cdx[s].cap] \in skip.pat}
           S == {s[1] : s \in hits}
           all == {Url[cdx[s].cap] : s \in hits}
<1>1. CASE skip.pat = {}
  BY <1>1 DEF purge_url_patterns
<1>2. CASE skip.pat # {}
  <2>1. cdx' = DeleteSurts(S) /\ \E U \in SUBSET all : writer' = delete_urls(U)
    BY <1>2 DEF purge_url_patterns
  <2>2. PICK U \in SUBSET all : writer' = delete_urls(U)
    BY <2>1
  <2>3. ASSUME NEW s \in hits
        PROVE  /\ Url[cdx[s].cap] \in Urls
               /\ to_surt[Url[cdx[s].cap]] = s[1]
               /\ s[1] \in ever
    <3>1. cdx[s] \in Rows /\ Slot(cdx[s].cap) = s
      BY <2>3 DEF TypeOK, RowsInSlot
    <3>2. to_surt[Url[cdx[s].cap]] = s[1]
      BY <3>1 DEF Slot
    <3>3. Url[cdx[s].cap] \in skip.pat \cap Urls
      BY <2>3, <3>1, DataAssumption DEF Rows
    <3>4. QED
      BY <3>2, <3>3 DEF SkipRecorded, SurtsUnder
  <2>4. S \subseteq ever
    BY <2>3
  <2>5. \A u \in U : u \in Urls /\ to_surt[u] \in ever
    BY <2>2, <2>3
  <2>6. QED
    BY <2>1, <2>2, <2>4, <2>5 DEF Purged
<1>3. QED
  BY <1>1, <1>2

(* A purge leaves the rows and documents of unlisted SURTs alone and adds  *)
(* neither a row nor a document.                                           *)
LEMMA PurgeKeeps ==
  ASSUME TypeOK, ever' = ever, NEW S, NEW U, Purged(S, U)
  PROVE  /\ \A s \in Slots : cdx'[s] \in {NoRow, cdx[s]}
         /\ \A c \in Captures : NeverSkipped(c) => cdx'[Slot(c)] = cdx[Slot(c)]
         /\ \A d \in Docs : writer'[d] \in {0, writer[d]}
         /\ \A k \in Keys : \A c \in Captures :
              NeverSkipped(c) => writer'[<<k, c>>] = writer[<<k, c>>]
<1>1. \A c \in Captures : Slot(c) \in Slots /\ Slot(c)[1] = to_surt[Url[c]]
  BY DataAssumption DEF Slot, Slots
<1>2. \A s \in Slots : cdx'[s] = IF s[1] \in S THEN NoRow ELSE cdx[s]
  BY DEF Purged, DeleteSurts
<1>3. \A d \in Docs : writer'[d] = IF Url[d[2]] \in U THEN 0 ELSE writer[d]
  BY DEF Purged, delete_urls
<1>4. \A c \in Captures : NeverSkipped(c) => cdx'[Slot(c)] = cdx[Slot(c)]
  BY <1>1, <1>2 DEF Purged, NeverSkipped
<1>5. \A k \in Keys : \A c \in Captures :
        NeverSkipped(c) => writer'[<<k, c>>] = writer[<<k, c>>]
  BY <1>3 DEF Purged, NeverSkipped, Docs
<1>6. QED
  BY <1>2, <1>3, <1>4, <1>5

(* Rows stay under the primary key of their record. *)
LEMMA RowsInSlotStep ==
  /\ TypeOK /\ SkipRecorded /\ BatchFromVersion /\ RowsInSlot
  /\ [Next]_vars
  => RowsInSlot'
<1> SUFFICES ASSUME TypeOK, SkipRecorded, BatchFromVersion, RowsInSlot, [Next]_vars
             PROVE  RowsInSlot'
  OBVIOUS
<1>1. ASSUME NEW k \in Keys, Upload(k) PROVE RowsInSlot'
  BY <1>1 DEF Upload, volatile, RowsInSlot
<1>2. ASSUME NEW m \in RunKinds, NEW l \in SkipLists, StartRun(m, l) PROVE RowsInSlot'
  BY <1>2 DEF StartRun, Goto, durable, RowsInSlot
<1>3. ASSUME NEW h \in doms, purge_domain(h) PROVE RowsInSlot'
  <2>1. PICK S, U : Purged(S, U)
    BY <1>3, PurgeDomainEffect
  <2>2. \A s \in Slots : cdx'[s] \in {NoRow, cdx[s]}
    BY <1>3, <2>1, PurgeKeeps DEF purge_domain
  <2>3. QED
    BY <2>2 DEF RowsInSlot
<1>4. ASSUME NEW k \in todo, NextObject(k) PROVE RowsInSlot'
  BY <1>4 DEF NextObject, Goto, durable, RowsInSlot
<1>5. ASSUME NEW k \in Keys, write_cdx_sidecar(k) PROVE RowsInSlot'
  BY <1>5 DEF write_cdx_sidecar, RowsInSlot
<1>6. CASE Crash
  BY <1>6 DEF Crash, Stop, Goto, durable, NoTags, RowsInSlot
<1>7. CASE CommitDomains
  BY <1>7 DEF CommitDomains, Stop, Goto, volatile, NoTags, RowsInSlot
<1>8. CASE purge_url_patterns
  <2>1. CASE UNCHANGED <<cdx, writer>>
    BY <2>1 DEF RowsInSlot
  <2>2. ASSUME NEW S, NEW U, Purged(S, U) PROVE RowsInSlot'
    <3>1. \A s \in Slots : cdx'[s] \in {NoRow, cdx[s]}
      BY <1>8, <2>2, PurgeKeeps DEF purge_url_patterns
    <3>2. QED
      BY <3>1 DEF RowsInSlot
  <2>3. QED
    BY <1>8, <2>1, <2>2, PurgePatternsEffect
<1>9. CASE CommitPatterns
  BY <1>9 DEF CommitPatterns, Stop, Goto, volatile, NoTags, RowsInSlot
<1>10. CASE LoadState
  BY <1>10 DEF LoadState, Goto, durable, NoTags, RowsInSlot
<1>11. CASE ListObjects
  BY <1>11 DEF ListObjects, Goto, durable, NoTags, RowsInSlot
<1>12. CASE ListFails
  BY <1>12 DEF ListFails, Stop, Goto, durable, NoTags, RowsInSlot
<1>13. CASE GetFails
  BY <1>13 DEF GetFails, FileFails, Goto, durable, volatile, RowsInSlot
<1>14. CASE ParseObject
  BY <1>14 DEF ParseObject, Goto, durable, RowsInSlot
<1>15. CASE UpsertCdx
  <2>1. cur \in Keys /\ rver \in Versions /\ batch \in SUBSET Content[cur][rver]
    BY <1>15 DEF UpsertCdx, TypeOK, BatchFromVersion, Reading
  <2>2. QED
    BY <1>15, <2>1, UpsertBatch DEF UpsertCdx, FileFails, RowsInSlot
<1>16. CASE WriteDocs
  BY <1>16 DEF WriteDocs, FileFails, Goto, durable, RowsInSlot
<1>17. CASE CommitFile
  BY <1>17 DEF CommitFile, FileFails, Goto, volatile, RowsInSlot
<1>18. CASE mark_seen
  BY <1>18 DEF mark_seen, Goto, durable, RowsInSlot
<1>19. CASE SaveState
  BY <1>19 DEF SaveState, Goto, RowsInSlot
<1>20. CASE FinalCommit
  BY <1>20 DEF FinalCommit, Stop, Goto, volatile, NoTags, RowsInSlot
<1>21. CASE Exit
  BY <1>21 DEF Exit, Stop, Goto, durable, NoTags, RowsInSlot
<1>22. CASE UNCHANGED vars
  BY <1>22 DEF vars, durable, volatile, RowsInSlot
<1>23. QED
  BY <1>1, <1>2, <1>3, <1>4, <1>5, <1>6, <1>7, <1>8, <1>9, <1>10, <1>11, <1>12,
     <1>13, <1>14, <1>15, <1>16, <1>17, <1>18, <1>19, <1>20, <1>21, <1>22 DEF Next,
     Step

(* The batch comes from the version read, and is all of it unless short. *)
LEMMA BatchStep ==
  /\ TypeOK /\ BatchFromVersion /\ BatchWhole
  /\ [Next]_vars
  => BatchFromVersion' /\ BatchWhole'
<1> SUFFICES ASSUME TypeOK, BatchFromVersion, BatchWhole, [Next]_vars
             PROVE  BatchFromVersion' /\ BatchWhole'
  OBVIOUS
<1>1. ASSUME NEW k \in Keys, Upload(k) PROVE BatchFromVersion' /\ BatchWhole'
  BY <1>1 DEF Upload, volatile, BatchFromVersion, BatchWhole, Reading, handle_record,
    is_url_blacklisted
<1>2. ASSUME NEW m \in RunKinds, NEW l \in SkipLists, StartRun(m, l) PROVE BatchFromVersion' /\ BatchWhole'
  BY <1>2 DEF StartRun, Goto, durable, BatchFromVersion, BatchWhole, Reading,
    handle_record, is_url_blacklisted
<1>3. ASSUME NEW h \in doms, purge_domain(h) PROVE BatchFromVersion' /\ BatchWhole'
  BY <1>3 DEF purge_domain, BatchFromVersion, BatchWhole, Reading, handle_record,
    is_url_blacklisted
<1>4. ASSUME NEW k \in todo, NextObject(k) PROVE BatchFromVersion' /\ BatchWhole'
  BY <1>4 DEF NextObject, Goto, durable, BatchFromVersion, BatchWhole, Reading,
    handle_record, is_url_blacklisted
<1>5. ASSUME NEW k \in Keys, write_cdx_sidecar(k) PROVE BatchFromVersion' /\ BatchWhole'
  BY <1>5 DEF write_cdx_sidecar, BatchFromVersion, BatchWhole, Reading,
    handle_record, is_url_blacklisted
<1>6. CASE Crash
  BY <1>6 DEF Crash, Stop, Goto, durable, NoTags, BatchFromVersion, BatchWhole,
    Reading, handle_record, is_url_blacklisted
<1>7. CASE CommitDomains
  BY <1>7 DEF CommitDomains, Stop, Goto, volatile, NoTags, BatchFromVersion,
    BatchWhole, Reading, handle_record, is_url_blacklisted
<1>8. CASE purge_url_patterns
  BY <1>8 DEF purge_url_patterns, Goto, BatchFromVersion, BatchWhole, Reading,
    handle_record, is_url_blacklisted
<1>9. CASE CommitPatterns
  BY <1>9 DEF CommitPatterns, Stop, Goto, volatile, NoTags, BatchFromVersion,
    BatchWhole, Reading, handle_record, is_url_blacklisted
<1>10. CASE LoadState
  BY <1>10 DEF LoadState, Goto, durable, NoTags, BatchFromVersion, BatchWhole,
    Reading, handle_record, is_url_blacklisted
<1>11. CASE ListObjects
  BY <1>11 DEF ListObjects, Goto, durable, NoTags, BatchFromVersion, BatchWhole,
    Reading, handle_record, is_url_blacklisted
<1>12. CASE ListFails
  BY <1>12 DEF ListFails, Stop, Goto, durable, NoTags, BatchFromVersion, BatchWhole,
    Reading, handle_record, is_url_blacklisted
<1>13. CASE GetFails
  BY <1>13 DEF GetFails, FileFails, Goto, durable, volatile, BatchFromVersion,
    BatchWhole, Reading, handle_record, is_url_blacklisted
<1>14. CASE ParseObject
  BY <1>14, DataAssumption DEF ParseObject, Goto, durable, handle_record, is_url_blacklisted,
    TypeOK, BatchFromVersion, BatchWhole, Reading
<1>15. CASE UpsertCdx
  BY <1>15 DEF UpsertCdx, FileFails, Goto, BatchFromVersion, BatchWhole, Reading,
    handle_record, is_url_blacklisted
<1>16. CASE WriteDocs
  BY <1>16 DEF WriteDocs, FileFails, Goto, durable, BatchFromVersion, BatchWhole,
    Reading, handle_record, is_url_blacklisted
<1>17. CASE CommitFile
  BY <1>17 DEF CommitFile, FileFails, Goto, volatile, BatchFromVersion, BatchWhole,
    Reading, handle_record, is_url_blacklisted
<1>18. CASE mark_seen
  BY <1>18 DEF mark_seen, Goto, durable, BatchFromVersion, BatchWhole, Reading,
    handle_record, is_url_blacklisted
<1>19. CASE SaveState
  BY <1>19 DEF SaveState, Goto, BatchFromVersion, BatchWhole, Reading, handle_record,
    is_url_blacklisted
<1>20. CASE FinalCommit
  BY <1>20 DEF FinalCommit, Stop, Goto, volatile, NoTags, BatchFromVersion,
    BatchWhole, Reading, handle_record, is_url_blacklisted
<1>21. CASE Exit
  BY <1>21 DEF Exit, Stop, Goto, durable, NoTags, BatchFromVersion, BatchWhole,
    Reading, handle_record, is_url_blacklisted
<1>22. CASE UNCHANGED vars
  BY <1>22 DEF vars, durable, volatile, BatchFromVersion, BatchWhole, Reading,
    handle_record, is_url_blacklisted
<1>23. QED
  BY <1>1, <1>2, <1>3, <1>4, <1>5, <1>6, <1>7, <1>8, <1>9, <1>10, <1>11, <1>12,
     <1>13, <1>14, <1>15, <1>16, <1>17, <1>18, <1>19, <1>20, <1>21, <1>22 DEF Next,
     Step

(* From the upsert to mark_seen every record of the batch has its row. *)
LEMMA BatchHasRowsStep ==
  /\ TypeOK /\ BatchFromVersion /\ BatchHasRows
  /\ [Next]_vars
  => BatchHasRows'
<1> SUFFICES ASSUME TypeOK, BatchFromVersion, BatchHasRows, [Next]_vars
             PROVE  BatchHasRows'
  OBVIOUS
<1>1. ASSUME NEW k \in Keys, Upload(k) PROVE BatchHasRows'
  BY <1>1 DEF Upload, volatile, BatchHasRows, HasRow, Slot
<1>2. ASSUME NEW m \in RunKinds, NEW l \in SkipLists, StartRun(m, l) PROVE BatchHasRows'
  BY <1>2 DEF StartRun, Goto, durable, BatchHasRows, HasRow, Slot
<1>3. ASSUME NEW h \in doms, purge_domain(h) PROVE BatchHasRows'
  BY <1>3 DEF purge_domain, BatchHasRows, HasRow, Slot
<1>4. ASSUME NEW k \in todo, NextObject(k) PROVE BatchHasRows'
  BY <1>4 DEF NextObject, Goto, durable, BatchHasRows, HasRow, Slot
<1>5. ASSUME NEW k \in Keys, write_cdx_sidecar(k) PROVE BatchHasRows'
  BY <1>5 DEF write_cdx_sidecar, BatchHasRows, HasRow, Slot
<1>6. CASE Crash
  BY <1>6 DEF Crash, Stop, Goto, durable, NoTags, BatchHasRows, HasRow, Slot
<1>7. CASE CommitDomains
  BY <1>7 DEF CommitDomains, Stop, Goto, volatile, NoTags, BatchHasRows, HasRow, Slot
<1>8. CASE purge_url_patterns
  BY <1>8 DEF purge_url_patterns, Goto, BatchHasRows, HasRow, Slot
<1>9. CASE CommitPatterns
  BY <1>9 DEF CommitPatterns, Stop, Goto, volatile, NoTags, BatchHasRows, HasRow,
    Slot
<1>10. CASE LoadState
  BY <1>10 DEF LoadState, Goto, durable, NoTags, BatchHasRows, HasRow, Slot
<1>11. CASE ListObjects
  BY <1>11 DEF ListObjects, Goto, durable, NoTags, BatchHasRows, HasRow, Slot
<1>12. CASE ListFails
  BY <1>12 DEF ListFails, Stop, Goto, durable, NoTags, BatchHasRows, HasRow, Slot
<1>13. CASE GetFails
  BY <1>13 DEF GetFails, FileFails, Goto, durable, volatile, BatchHasRows, HasRow,
    Slot
<1>14. CASE ParseObject
  BY <1>14 DEF ParseObject, Goto, durable, BatchHasRows, HasRow, Slot
<1>15. CASE UpsertCdx
  <2>1. cur \in Keys /\ rver \in Versions /\ batch \in SUBSET Content[cur][rver]
    BY <1>15 DEF UpsertCdx, TypeOK, BatchFromVersion, Reading
  <2>2. \A c \in batch : Slot(c) \in Slots
    BY <1>15, DataAssumption DEF TypeOK, Slot, Slots
  <2>3. CASE Goto("write") /\ cdx' = upsert_batch(cur, batch)
    <3>1. \A c \in batch : cdx'[Slot(c)] # NoRow
      BY <2>1, <2>2, <2>3, UpsertBatch
    <3>2. QED
      BY <1>15, <3>1 DEF UpsertCdx, BatchHasRows, HasRow, Slot
  <2>4. CASE FileFails
    BY <2>4 DEF FileFails, Goto, BatchHasRows
  <2>5. QED
    BY <1>15, <2>3, <2>4 DEF UpsertCdx
<1>16. CASE WriteDocs
  BY <1>16 DEF WriteDocs, FileFails, Goto, durable, BatchHasRows, HasRow, Slot
<1>17. CASE CommitFile
  BY <1>17 DEF CommitFile, FileFails, Goto, volatile, BatchHasRows, HasRow, Slot
<1>18. CASE mark_seen
  BY <1>18 DEF mark_seen, Goto, durable, BatchHasRows, HasRow, Slot
<1>19. CASE SaveState
  BY <1>19 DEF SaveState, Goto, BatchHasRows, HasRow, Slot
<1>20. CASE FinalCommit
  BY <1>20 DEF FinalCommit, Stop, Goto, volatile, NoTags, BatchHasRows, HasRow, Slot
<1>21. CASE Exit
  BY <1>21 DEF Exit, Stop, Goto, durable, NoTags, BatchHasRows, HasRow, Slot
<1>22. CASE UNCHANGED vars
  BY <1>22 DEF vars, durable, volatile, BatchHasRows, HasRow, Slot
<1>23. QED
  BY <1>1, <1>2, <1>3, <1>4, <1>5, <1>6, <1>7, <1>8, <1>9, <1>10, <1>11, <1>12,
     <1>13, <1>14, <1>15, <1>16, <1>17, <1>18, <1>19, <1>20, <1>21, <1>22 DEF Next,
     Step

(* Before the commit of an object the writer holds just its new documents. *)
LEMMA BatchQueuedStep ==
  TypeOK /\ BatchQueued /\ [Next]_vars => BatchQueued'
<1> SUFFICES ASSUME TypeOK, BatchQueued, [Next]_vars
             PROVE  BatchQueued'
  OBVIOUS
<1>1. ASSUME NEW k \in Keys, Upload(k) PROVE BatchQueued'
  BY <1>1 DEF Upload, volatile, BatchQueued
<1>2. ASSUME NEW m \in RunKinds, NEW l \in SkipLists, StartRun(m, l) PROVE BatchQueued'
  BY <1>2 DEF StartRun, Goto, durable, BatchQueued
<1>3. ASSUME NEW h \in doms, purge_domain(h) PROVE BatchQueued'
  BY <1>3 DEF purge_domain, BatchQueued
<1>4. ASSUME NEW k \in todo, NextObject(k) PROVE BatchQueued'
  BY <1>4 DEF NextObject, Goto, durable, BatchQueued
<1>5. ASSUME NEW k \in Keys, write_cdx_sidecar(k) PROVE BatchQueued'
  BY <1>5 DEF write_cdx_sidecar, BatchQueued
<1>6. CASE Crash
  BY <1>6 DEF Crash, Stop, Goto, durable, NoTags, BatchQueued
<1>7. CASE CommitDomains
  BY <1>7 DEF CommitDomains, Stop, Goto, volatile, NoTags, BatchQueued
<1>8. CASE purge_url_patterns
  BY <1>8 DEF purge_url_patterns, Goto, BatchQueued
<1>9. CASE CommitPatterns
  BY <1>9 DEF CommitPatterns, Stop, Goto, volatile, NoTags, BatchQueued
<1>10. CASE LoadState
  BY <1>10 DEF LoadState, Goto, durable, NoTags, BatchQueued
<1>11. CASE ListObjects
  BY <1>11 DEF ListObjects, Goto, durable, NoTags, BatchQueued
<1>12. CASE ListFails
  BY <1>12 DEF ListFails, Stop, Goto, durable, NoTags, BatchQueued
<1>13. CASE GetFails
  BY <1>13 DEF GetFails, FileFails, Goto, durable, volatile, BatchQueued
<1>14. CASE ParseObject
  BY <1>14 DEF ParseObject, Goto, durable, BatchQueued
<1>15. CASE UpsertCdx
  BY <1>15 DEF UpsertCdx, FileFails, Goto, BatchQueued
<1>16. CASE WriteDocs
  <2>1. cur \in Keys
    BY <1>16 DEF WriteDocs, TypeOK
  <2>2. \A C : \A c \in Captures :
          ReplaceDocs(cur, C)[<<cur, c>>] = IF c \in C THEN 1 ELSE 0
    BY <2>1 DEF ReplaceDocs, Docs
  <2>3. CASE Goto("commit") /\ writer' = ReplaceDocs(cur, batch \cap Textual)
    BY <1>16, <2>2, <2>3 DEF WriteDocs, BatchQueued
  <2>4. CASE FileFails
    BY <2>4 DEF FileFails, Goto, BatchQueued
  <2>5. QED
    BY <1>16, <2>3, <2>4 DEF WriteDocs
<1>17. CASE CommitFile
  BY <1>17 DEF CommitFile, FileFails, Goto, volatile, BatchQueued
<1>18. CASE mark_seen
  BY <1>18 DEF mark_seen, Goto, durable, BatchQueued
<1>19. CASE SaveState
  BY <1>19 DEF SaveState, Goto, BatchQueued
<1>20. CASE FinalCommit
  BY <1>20 DEF FinalCommit, Stop, Goto, volatile, NoTags, BatchQueued
<1>21. CASE Exit
  BY <1>21 DEF Exit, Stop, Goto, durable, NoTags, BatchQueued
<1>22. CASE UNCHANGED vars
  BY <1>22 DEF vars, durable, volatile, BatchQueued
<1>23. QED
  BY <1>1, <1>2, <1>3, <1>4, <1>5, <1>6, <1>7, <1>8, <1>9, <1>10, <1>11, <1>12,
     <1>13, <1>14, <1>15, <1>16, <1>17, <1>18, <1>19, <1>20, <1>21, <1>22 DEF Next,
     Step

(* No document gets a second copy: an object's documents are replaced,     *)
(* never added to.                                                         *)
LEMMA SingleCopiesStep ==
  TypeOK /\ SkipRecorded /\ RowsInSlot /\ SingleCopies /\ [Next]_vars => SingleCopies'
<1> SUFFICES ASSUME TypeOK, SkipRecorded, RowsInSlot, SingleCopies, [Next]_vars
             PROVE  SingleCopies'
  OBVIOUS
<1>1. ASSUME NEW k \in Keys, Upload(k) PROVE SingleCopies'
  BY <1>1 DEF Upload, volatile, SingleCopies
<1>2. ASSUME NEW m \in RunKinds, NEW l \in SkipLists, StartRun(m, l) PROVE SingleCopies'
  BY <1>2 DEF StartRun, Goto, durable, SingleCopies
<1>3. ASSUME NEW h \in doms, purge_domain(h) PROVE SingleCopies'
  <2>1. \A d \in Docs : writer'[d] \in {0, writer[d]}
    BY <1>3, PurgeDomainEffect, PurgeKeeps DEF purge_domain
  <2>2. QED
    BY <1>3, <2>1 DEF purge_domain, SingleCopies
<1>4. ASSUME NEW k \in todo, NextObject(k) PROVE SingleCopies'
  BY <1>4 DEF NextObject, Goto, durable, SingleCopies
<1>5. ASSUME NEW k \in Keys, write_cdx_sidecar(k) PROVE SingleCopies'
  BY <1>5 DEF write_cdx_sidecar, SingleCopies
<1>6. CASE Crash
  BY <1>6 DEF Crash, Stop, Goto, durable, NoTags, SingleCopies
<1>7. CASE CommitDomains
  BY <1>7 DEF CommitDomains, Stop, Goto, volatile, NoTags, SingleCopies
<1>8. CASE purge_url_patterns
  <2>1. \A d \in Docs : writer'[d] \in {0, writer[d]}
    BY <1>8, PurgePatternsEffect, PurgeKeeps DEF purge_url_patterns
  <2>2. QED
    BY <1>8, <2>1 DEF purge_url_patterns, SingleCopies
<1>9. CASE CommitPatterns
  BY <1>9 DEF CommitPatterns, Stop, Goto, volatile, NoTags, SingleCopies
<1>10. CASE LoadState
  BY <1>10 DEF LoadState, Goto, durable, NoTags, SingleCopies
<1>11. CASE ListObjects
  BY <1>11 DEF ListObjects, Goto, durable, NoTags, SingleCopies
<1>12. CASE ListFails
  BY <1>12 DEF ListFails, Stop, Goto, durable, NoTags, SingleCopies
<1>13. CASE GetFails
  BY <1>13 DEF GetFails, FileFails, Goto, durable, volatile, SingleCopies
<1>14. CASE ParseObject
  BY <1>14 DEF ParseObject, Goto, durable, SingleCopies
<1>15. CASE UpsertCdx
  BY <1>15 DEF UpsertCdx, FileFails, Goto, SingleCopies
<1>16. CASE WriteDocs
  <2>1. \A k, C : \A d \in Docs : ReplaceDocs(k, C)[d] \in {0, 1, writer[d]}
    BY DEF ReplaceDocs
  <2>2. \A d \in Docs : writer'[d] \in {0, 1, writer[d]}
    BY <1>16, <2>1 DEF WriteDocs
  <2>3. QED
    BY <1>16, <2>2 DEF WriteDocs, durable, SingleCopies
<1>17. CASE CommitFile
  BY <1>17 DEF CommitFile, FileFails, Goto, volatile, SingleCopies
<1>18. CASE mark_seen
  BY <1>18 DEF mark_seen, Goto, durable, SingleCopies
<1>19. CASE SaveState
  BY <1>19 DEF SaveState, Goto, SingleCopies
<1>20. CASE FinalCommit
  BY <1>20 DEF FinalCommit, Stop, Goto, volatile, NoTags, SingleCopies
<1>21. CASE Exit
  BY <1>21 DEF Exit, Stop, Goto, durable, NoTags, SingleCopies
<1>22. CASE UNCHANGED vars
  BY <1>22 DEF vars, durable, volatile, SingleCopies
<1>23. QED
  BY <1>1, <1>2, <1>3, <1>4, <1>5, <1>6, <1>7, <1>8, <1>9, <1>10, <1>11, <1>12,
     <1>13, <1>14, <1>15, <1>16, <1>17, <1>18, <1>19, <1>20, <1>21, <1>22 DEF Next,
     Step

(* A purge keeps the row of every document outside the skip lists. *)
LEMMA PurgeKeepsRows ==
  ASSUME TypeOK, DocsHaveRows, ever' = ever, index' = index, NEW S, NEW U, Purged(S, U)
  PROVE  DocsHaveRows'
<1> SUFFICES ASSUME NEW k \in Keys, NEW c \in Captures, NeverSkipped(c)',
                    (index[<<k, c>>] > 0 \/ writer[<<k, c>>] > 0)'
             PROVE  HasRow(c)'
  BY DEF DocsHaveRows
<1>1. NeverSkipped(c)
  BY DEF NeverSkipped
<1>2. cdx'[Slot(c)] = cdx[Slot(c)] /\ writer'[<<k, c>>] = writer[<<k, c>>]
  BY <1>1, PurgeKeeps
<1>3. HasRow(c)
  BY <1>1, <1>2 DEF DocsHaveRows
<1>4. QED
  BY <1>2, <1>3 DEF HasRow, Slot

(* Documents keep their rows: rows are written before documents, and a     *)
(* purge takes rows only under skip-listed SURTs.                          *)
LEMMA DocsHaveRowsStep ==
  /\ TypeOK /\ SkipRecorded /\ BatchFromVersion /\ RowsInSlot /\ BatchHasRows /\ DocsHaveRows
  /\ [Next]_vars
  => DocsHaveRows'
<1> SUFFICES ASSUME TypeOK, SkipRecorded, BatchFromVersion, RowsInSlot, BatchHasRows, DocsHaveRows, [Next]_vars
             PROVE  DocsHaveRows'
  OBVIOUS
<1>1. ASSUME NEW k \in Keys, Upload(k) PROVE DocsHaveRows'
  BY <1>1 DEF Upload, volatile, DocsHaveRows, NeverSkipped, HasRow, Slot
<1>2. ASSUME NEW m \in RunKinds, NEW l \in SkipLists, StartRun(m, l) PROVE DocsHaveRows'
  BY <1>2 DEF StartRun, Goto, durable, DocsHaveRows, NeverSkipped, HasRow, Slot
<1>3. ASSUME NEW h \in doms, purge_domain(h) PROVE DocsHaveRows'
  <2>1. PICK S, U : Purged(S, U)
    BY <1>3, PurgeDomainEffect
  <2>2. ever' = ever /\ index' = index
    BY <1>3 DEF purge_domain
  <2>3. QED
    BY <2>1, <2>2, PurgeKeepsRows
<1>4. ASSUME NEW k \in todo, NextObject(k) PROVE DocsHaveRows'
  BY <1>4 DEF NextObject, Goto, durable, DocsHaveRows, NeverSkipped, HasRow, Slot
<1>5. ASSUME NEW k \in Keys, write_cdx_sidecar(k) PROVE DocsHaveRows'
  BY <1>5 DEF write_cdx_sidecar, DocsHaveRows, NeverSkipped, HasRow, Slot
<1>6. CASE Crash
  BY <1>6 DEF Crash, Stop, Goto, durable, NoTags, DocsHaveRows, NeverSkipped, HasRow,
    Slot
<1>7. CASE CommitDomains
  BY <1>7 DEF CommitDomains, Stop, Goto, volatile, NoTags, DocsHaveRows,
    NeverSkipped, HasRow, Slot
<1>8. CASE purge_url_patterns
  <2>1. ever' = ever /\ index' = index
    BY <1>8 DEF purge_url_patterns
  <2>2. CASE UNCHANGED <<cdx, writer>>
    BY <2>1, <2>2 DEF DocsHaveRows, NeverSkipped, HasRow, Slot
  <2>3. ASSUME NEW S, NEW U, Purged(S, U) PROVE DocsHaveRows'
    BY <2>1, <2>3, PurgeKeepsRows
  <2>4. QED
    BY <1>8, <2>2, <2>3, PurgePatternsEffect
<1>9. CASE CommitPatterns
  BY <1>9 DEF CommitPatterns, Stop, Goto, volatile, NoTags, DocsHaveRows,
    NeverSkipped, HasRow, Slot
<1>10. CASE LoadState
  BY <1>10 DEF LoadState, Goto, durable, NoTags, DocsHaveRows, NeverSkipped, HasRow,
    Slot
<1>11. CASE ListObjects
  BY <1>11 DEF ListObjects, Goto, durable, NoTags, DocsHaveRows, NeverSkipped,
    HasRow, Slot
<1>12. CASE ListFails
  BY <1>12 DEF ListFails, Stop, Goto, durable, NoTags, DocsHaveRows, NeverSkipped,
    HasRow, Slot
<1>13. CASE GetFails
  BY <1>13 DEF GetFails, FileFails, Goto, durable, volatile, DocsHaveRows,
    NeverSkipped, HasRow, Slot
<1>14. CASE ParseObject
  BY <1>14 DEF ParseObject, Goto, durable, DocsHaveRows, NeverSkipped, HasRow, Slot
<1>15. CASE UpsertCdx
  <2>1. cur \in Keys /\ rver \in Versions /\ batch \in SUBSET Content[cur][rver]
    BY <1>15 DEF UpsertCdx, TypeOK, BatchFromVersion, Reading
  <2>2. \A s \in Slots : cdx[s] # NoRow => cdx'[s] # NoRow
    BY <1>15, <2>1, UpsertBatch DEF UpsertCdx
  <2>3. \A c \in Captures : Slot(c) \in Slots
    BY DataAssumption DEF Slot, Slots
  <2>4. \A c \in Captures : HasRow(c) => HasRow(c)'
    BY <2>2, <2>3 DEF HasRow, Slot
  <2>5. QED
    BY <1>15, <2>4 DEF UpsertCdx, DocsHaveRows, NeverSkipped
<1>16. CASE WriteDocs
  <2>1. cur \in Keys /\ batch \subseteq Captures
    BY <1>16 DEF WriteDocs, TypeOK
  <2>2. \A C : C \subseteq batch =>
          \A k \in Keys : \A c \in Captures :
            ReplaceDocs(cur, C)[<<k, c>>] > 0 => writer[<<k, c>>] > 0 \/ c \in batch
    BY <2>1 DEF ReplaceDocs, Docs
  <2>3. \A k \in Keys : \A c \in Captures :
          writer'[<<k, c>>] > 0 => writer[<<k, c>>] > 0 \/ c \in batch
    <3>1. \E C : C \subseteq batch /\ writer' = ReplaceDocs(cur, C)
      BY <1>16 DEF WriteDocs
    <3>2. QED
      BY <2>2, <3>1
  <2>4. \A c \in batch : HasRow(c)
    BY <1>16 DEF WriteDocs, BatchHasRows
  <2>5. QED
    BY <1>16, <2>3, <2>4 DEF WriteDocs, durable, DocsHaveRows, NeverSkipped, HasRow, Slot
<1>17. CASE CommitFile
  BY <1>17 DEF CommitFile, FileFails, Goto, volatile, DocsHaveRows, NeverSkipped,
    HasRow, Slot
<1>18. CASE mark_seen
  BY <1>18 DEF mark_seen, Goto, durable, DocsHaveRows, NeverSkipped, HasRow, Slot
<1>19. CASE SaveState
  BY <1>19 DEF SaveState, Goto, DocsHaveRows, NeverSkipped, HasRow, Slot
<1>20. CASE FinalCommit
  BY <1>20 DEF FinalCommit, Stop, Goto, volatile, NoTags, DocsHaveRows, NeverSkipped,
    HasRow, Slot
<1>21. CASE Exit
  BY <1>21 DEF Exit, Stop, Goto, durable, NoTags, DocsHaveRows, NeverSkipped, HasRow,
    Slot
<1>22. CASE UNCHANGED vars
  BY <1>22 DEF vars, durable, volatile, DocsHaveRows, NeverSkipped, HasRow, Slot
<1>23. QED
  BY <1>1, <1>2, <1>3, <1>4, <1>5, <1>6, <1>7, <1>8, <1>9, <1>10, <1>11, <1>12,
     <1>13, <1>14, <1>15, <1>16, <1>17, <1>18, <1>19, <1>20, <1>21, <1>22 DEF Next,
     Step

-----------------------------------------------------------------------------
(* Settled with the state it depends on as arguments: version of the object, *)
(* rows, SURTs on record and fulltext index.                               *)
SettledIn(k, v, rows, ev, ix) ==
  /\ \A c \in Content[k][v] : to_surt[Url[c]] \notin ev => rows[Slot(c)] # NoRow
  /\ \A c \in Content[k][v] \cap Textual : to_surt[Url[c]] \notin ev => ix[<<k, c>>] = 1
  /\ \A c \in Captures \ Content[k][v] : ix[<<k, c>>] = 0

(* Settled is SettledIn of the present state, before and after a step. *)
LEMMA SettledNow ==
  ASSUME NEW k \in Keys
  PROVE  /\ Settled(k, index) <=> SettledIn(k, bucket[k], cdx, ever, index)
         /\ Settled(k, writer) <=> SettledIn(k, bucket[k], cdx, ever, writer)
         /\ Settled(k, index)' <=> SettledIn(k, bucket'[k], cdx', ever', index')
         /\ Settled(k, writer)' <=> SettledIn(k, bucket'[k], cdx', ever', writer')
BY DEF Settled, SettledIn, NeverSkipped, HasRow, Slot

(* An object stays settled when rows and documents outside the skip lists  *)
(* stay, and the documents under them stay or go.                          *)
LEMMA SettledKeeps ==
  ASSUME NEW k \in Keys, NEW v \in Versions, NEW rows, NEW rows2, NEW ev, NEW ev2,
         NEW ix, NEW iy, SettledIn(k, v, rows, ev, ix), ev \subseteq ev2,
         \A c \in Captures :
           to_surt[Url[c]] \notin ev2 /\ rows[Slot(c)] # NoRow => rows2[Slot(c)] # NoRow,
         \A c \in Captures : \/ iy[<<k, c>>] = ix[<<k, c>>]
                             \/ iy[<<k, c>>] = 0 /\ to_surt[Url[c]] \in ev2
  PROVE  SettledIn(k, v, rows2, ev2, iy)
<1>1. Content[k][v] \subseteq Captures
  BY DataAssumption
<1>2. QED
  BY <1>1 DEF SettledIn

(* A step that leaves bucket, rows and skip history alone, moves documents *)
(* only between writer and index, and vouches for nothing new.             *)
LEMMA QuietStep ==
  ASSUME TypeOK, VouchedSettled, UNCHANGED <<bucket, cdx, ever>>,
         index' \in {index, writer}, writer' \in {index, writer},
         \A k \in Keys \ partial' : Vouched(k)' => k \notin partial /\ Vouched(k)
  PROVE  VouchedSettled'
<1> SUFFICES ASSUME NEW k \in Keys \ partial', Vouched(k)'
             PROVE  Settled(k, index)' /\ Settled(k, writer)'
  BY DEF VouchedSettled
<1>1. Settled(k, index) /\ Settled(k, writer)
  BY DEF VouchedSettled
<1>2. QED
  BY <1>1, SettledNow

(* A record that no skip list has ever covered passes the present one. *)
LEMMA Unlisted ==
  ASSUME TypeOK, SkipRecorded, NEW c \in Captures, NeverSkipped(c)
  PROVE  ~is_url_blacklisted(c)
<1>1. Url[c] \in Urls /\ to_surt[Url[c]] \in Surts
  BY DataAssumption
<1>2. QED
  BY <1>1 DEF SkipRecorded, SurtsUnder, NeverSkipped, is_url_blacklisted

(* Before its commit an object read to the end, in its present version, is *)
(* settled with respect to the writer.                                     *)
LEMMA WholeIsSettled ==
  ASSUME TypeOK, SkipRecorded, BatchHasRows, BatchQueued, pc = "commit",
         batch = handle_record(Content[cur][rver]), rver = bucket[cur]
  PROVE  Settled(cur, writer)
<1> DEFINE all == Content[cur][rver]
<1>1. cur \in Keys /\ rver \in Versions /\ all \subseteq Captures
  BY DataAssumption DEF TypeOK
<1>2. ASSUME NEW c \in all, NeverSkipped(c) PROVE c \in batch
  BY <1>1, <1>2, Unlisted DEF handle_record
<1>3. \A c \in batch : HasRow(c)
  BY DEF BatchHasRows
<1>4. \A c \in Captures : writer[<<cur, c>>] = IF c \in batch \cap Textual THEN 1 ELSE 0
  BY DEF BatchQueued
<1>5. batch \subseteq all
  BY DEF handle_record
<1>6. QED
  BY <1>1, <1>2, <1>3, <1>4, <1>5 DEF Settled

(* The commit of a whole object leaves it ready to be marked. *)
LEMMA ReadyStep ==
  /\ TypeOK /\ EtagsInOrder /\ SkipRecorded /\ BatchWhole /\ BatchHasRows /\ BatchQueued
  /\ ReadyToMark /\ [Next]_vars
  => ReadyToMark'
<1> SUFFICES ASSUME TypeOK, EtagsInOrder, SkipRecorded, BatchWhole, BatchHasRows, BatchQueued,
                    ReadyToMark, [Next]_vars
             PROVE  ReadyToMark'
  OBVIOUS
<1>1. ASSUME NEW k \in Keys, Upload(k) PROVE ReadyToMark'
  <2>1. CASE pc = "mark" /\ k = cur
    BY <1>1, <2>1, DataAssumption DEF Upload, volatile, TypeOK, EtagsInOrder, Reading,
       ReadyToMark, Etags, Versions
  <2>2. CASE pc = "mark" /\ k # cur
    BY <1>1, <2>2 DEF Upload, volatile, TypeOK, ReadyToMark, Settled, NeverSkipped, HasRow,
       Slot
  <2>3. CASE pc # "mark"
    BY <1>1, <2>3 DEF Upload, ReadyToMark
  <2>4. QED
    BY <2>1, <2>2, <2>3
<1>2. ASSUME NEW m \in RunKinds, NEW l \in SkipLists, StartRun(m, l) PROVE ReadyToMark'
  BY <1>2 DEF StartRun, Goto, durable, ReadyToMark, Settled, NeverSkipped, HasRow,
    Slot
<1>3. ASSUME NEW h \in doms, purge_domain(h) PROVE ReadyToMark'
  BY <1>3 DEF purge_domain, ReadyToMark, Settled, NeverSkipped, HasRow, Slot
<1>4. ASSUME NEW k \in todo, NextObject(k) PROVE ReadyToMark'
  BY <1>4 DEF NextObject, Goto, durable, ReadyToMark, Settled, NeverSkipped, HasRow,
    Slot
<1>5. ASSUME NEW k \in Keys, write_cdx_sidecar(k) PROVE ReadyToMark'
  BY <1>5 DEF write_cdx_sidecar, ReadyToMark, Settled, NeverSkipped, HasRow, Slot
<1>6. CASE Crash
  BY <1>6 DEF Crash, Stop, Goto, durable, NoTags, ReadyToMark, Settled, NeverSkipped,
    HasRow, Slot
<1>7. CASE CommitDomains
  BY <1>7 DEF CommitDomains, Stop, Goto, volatile, NoTags, ReadyToMark, Settled,
    NeverSkipped, HasRow, Slot
<1>8. CASE purge_url_patterns
  BY <1>8 DEF purge_url_patterns, Goto, ReadyToMark, Settled, NeverSkipped, HasRow,
    Slot
<1>9. CASE CommitPatterns
  BY <1>9 DEF CommitPatterns, Stop, Goto, volatile, NoTags, ReadyToMark, Settled,
    NeverSkipped, HasRow, Slot
<1>10. CASE LoadState
  BY <1>10 DEF LoadState, Goto, durable, NoTags, ReadyToMark, Settled, NeverSkipped,
    HasRow, Slot
<1>11. CASE ListObjects
  BY <1>11 DEF ListObjects, Goto, durable, NoTags, ReadyToMark, Settled,
    NeverSkipped, HasRow, Slot
<1>12. CASE ListFails
  BY <1>12 DEF ListFails, Stop, Goto, durable, NoTags, ReadyToMark, Settled,
    NeverSkipped, HasRow, Slot
<1>13. CASE GetFails
  BY <1>13 DEF GetFails, FileFails, Goto, durable, volatile, ReadyToMark, Settled,
    NeverSkipped, HasRow, Slot
<1>14. CASE ParseObject
  BY <1>14 DEF ParseObject, Goto, durable, ReadyToMark, Settled, NeverSkipped,
    HasRow, Slot
<1>15. CASE UpsertCdx
  BY <1>15 DEF UpsertCdx, FileFails, Goto, ReadyToMark, Settled, NeverSkipped,
    HasRow, Slot
<1>16. CASE WriteDocs
  BY <1>16 DEF WriteDocs, FileFails, Goto, durable, ReadyToMark, Settled,
    NeverSkipped, HasRow, Slot
<1>17. CASE CommitFile
  <2>1. CASE FileFails
    BY <2>1 DEF FileFails, Goto, ReadyToMark
  <2>2. CASE /\ Goto("mark")
             /\ index' = writer
             /\ partial' = IF batch = handle_record(Content[cur][rver])
                             THEN partial \ {cur} ELSE partial
    <3>1. cur \in Keys /\ pc = "commit"
      BY <1>17 DEF CommitFile, TypeOK
    <3>2. UNCHANGED <<bucket, cdx, ever, cur, rver, writer>>
      BY <1>17 DEF CommitFile, volatile
    <3>3. ASSUME cur' \notin partial', rver' = bucket'[cur'] PROVE Settled(cur, index)'
      <4>1. batch = handle_record(Content[cur][rver])
        BY <2>2, <3>1, <3>2, <3>3 DEF BatchWhole, Reading
      <4>2. Settled(cur, writer)
        BY <3>1, <3>2, <3>3, <4>1, WholeIsSettled
      <4>3. QED
        BY <2>2, <3>1, <3>2, <4>2, SettledNow
    <3>4. QED
      BY <2>2, <3>2, <3>3 DEF ReadyToMark
  <2>3. QED
    BY <1>17, <2>1, <2>2 DEF CommitFile
<1>18. CASE mark_seen
  BY <1>18 DEF mark_seen, Goto, durable, ReadyToMark, Settled, NeverSkipped, HasRow,
    Slot
<1>19. CASE SaveState
  BY <1>19 DEF SaveState, Goto, ReadyToMark, Settled, NeverSkipped, HasRow, Slot
<1>20. CASE FinalCommit
  BY <1>20 DEF FinalCommit, Stop, Goto, volatile, NoTags, ReadyToMark, Settled,
    NeverSkipped, HasRow, Slot
<1>21. CASE Exit
  BY <1>21 DEF Exit, Stop, Goto, durable, NoTags, ReadyToMark, Settled, NeverSkipped,
    HasRow, Slot
<1>22. CASE UNCHANGED vars
  BY <1>22 DEF vars, durable, volatile, ReadyToMark, Settled, NeverSkipped, HasRow,
    Slot
<1>23. QED
  BY <1>1, <1>2, <1>3, <1>4, <1>5, <1>6, <1>7, <1>8, <1>9, <1>10, <1>11, <1>12,
     <1>13, <1>14, <1>15, <1>16, <1>17, <1>18, <1>19, <1>20, <1>21, <1>22 DEF Next,
     Step

(* A purge disturbs nothing the state file vouches for. *)
LEMMA PurgeKeepsSettled ==
  ASSUME TypeOK, VouchedSettled, UNCHANGED <<bucket, seen, saved, index, ever, partial>>,
         NEW S, NEW U, Purged(S, U)
  PROVE  VouchedSettled'
<1> SUFFICES ASSUME NEW j \in Keys \ partial', Vouched(j)'
             PROVE  Settled(j, index)' /\ Settled(j, writer)'
  BY DEF VouchedSettled
<1>1. Settled(j, index) /\ Settled(j, writer) /\ bucket[j] \in Versions
  BY DataAssumption DEF VouchedSettled, Vouched, TypeOK, Etags, Versions
<1>2. /\ \A c \in Captures : to_surt[Url[c]] \notin ever => cdx'[Slot(c)] = cdx[Slot(c)]
      /\ \A c \in Captures : to_surt[Url[c]] \notin ever => writer'[<<j, c>>] = writer[<<j, c>>]
      /\ \A c \in Captures : writer'[<<j, c>>] \in {0, writer[<<j, c>>]}
  <2>1. \A c \in Captures : <<j, c>> \in Docs
    BY DEF Docs
  <2>2. QED
    BY <2>1, PurgeKeeps DEF NeverSkipped
<1>3. SettledIn(j, bucket[j], cdx', ever, index) /\ SettledIn(j, bucket[j], cdx', ever, writer')
  BY <1>1, <1>2, SettledNow, SettledKeeps
<1>4. QED
  BY <1>3, SettledNow

(* What the state file vouches for stays settled: an upload ends the        *)
(* vouching, commits publish what is settled in the writer, and mark_seen  *)
(* comes only after the commit of the version that was listed.             *)
LEMMA SettledStep ==
  /\ TypeOK /\ EtagsInOrder /\ SkipRecorded /\ RowsInSlot /\ BatchFromVersion
  /\ BatchWhole /\ BatchHasRows /\ BatchQueued /\ ReadyToMark /\ VouchedSettled
  /\ [Next]_vars
  => VouchedSettled'
<1> SUFFICES ASSUME TypeOK, EtagsInOrder, SkipRecorded, RowsInSlot, BatchFromVersion, BatchWhole,
                    BatchHasRows, BatchQueued, ReadyToMark, VouchedSettled, [Next]_vars
             PROVE  VouchedSettled'
  OBVIOUS
<1>1. ASSUME NEW k \in Keys, Upload(k) PROVE VouchedSettled'
  <2> SUFFICES ASSUME NEW j \in Keys \ partial', Vouched(j)'
               PROVE  Settled(j, index)' /\ Settled(j, writer)'
    BY DEF VouchedSettled
  <2>1. j # k
    BY <1>1, DataAssumption DEF Upload, volatile, Vouched, EtagsInOrder, TypeOK, Etags
  <2>2. UNCHANGED <<cdx, ever, index, writer, partial, seen, saved>> /\ bucket'[j] = bucket[j]
    BY <1>1, <2>1 DEF Upload, volatile, TypeOK
  <2>3. Settled(j, index) /\ Settled(j, writer)
    BY <2>2 DEF VouchedSettled, Vouched
  <2>4. QED
    BY <2>2, <2>3, SettledNow
<1>2. ASSUME NEW m \in RunKinds, NEW l \in SkipLists, StartRun(m, l) PROVE VouchedSettled'
  <2>1. /\ UNCHANGED <<bucket, cdx, index, writer, partial, seen, saved>>
        /\ ever \subseteq ever'
    BY <1>2 DEF StartRun, durable
  <2> SUFFICES ASSUME NEW j \in Keys \ partial', Vouched(j)'
               PROVE  Settled(j, index)' /\ Settled(j, writer)'
    BY DEF VouchedSettled
  <2>2. Settled(j, index) /\ Settled(j, writer) /\ bucket[j] \in Versions
    BY <2>1, DataAssumption DEF VouchedSettled, Vouched, TypeOK, Etags, Versions
  <2>3. SettledIn(j, bucket[j], cdx, ever', index) /\ SettledIn(j, bucket[j], cdx, ever', writer)
    BY <2>1, <2>2, SettledNow, SettledKeeps
  <2>4. QED
    BY <2>1, <2>3, SettledNow
<1>3. ASSUME NEW h \in doms, purge_domain(h) PROVE VouchedSettled'
  BY <1>3, PurgeDomainEffect, PurgeKeepsSettled DEF purge_domain
<1>4. ASSUME NEW k \in todo, NextObject(k) PROVE VouchedSettled'
  <2>1. UNCHANGED <<bucket, cdx, ever>> /\ index' \in {index, writer}
                                     /\ writer' \in {index, writer}
    BY <1>4 DEF NextObject, Goto, durable
  <2>2. \A j \in Keys \ partial' : Vouched(j)' => j \notin partial /\ Vouched(j)
    BY <1>4 DEF NextObject, Goto, durable, Vouched, TypeOK
  <2>3. QED
    BY <2>1, <2>2, QuietStep
<1>5. ASSUME NEW k \in Keys, write_cdx_sidecar(k) PROVE VouchedSettled'
  <2>1. UNCHANGED <<bucket, cdx, ever>> /\ index' \in {index, writer}
                                     /\ writer' \in {index, writer}
    BY <1>5 DEF write_cdx_sidecar
  <2>2. \A j \in Keys \ partial' : Vouched(j)' => j \notin partial /\ Vouched(j)
    BY <1>5 DEF write_cdx_sidecar, Vouched, TypeOK
  <2>3. QED
    BY <2>1, <2>2, QuietStep
<1>6. CASE Crash
  <2>1. UNCHANGED <<bucket, cdx, ever>> /\ index' \in {index, writer}
                                     /\ writer' \in {index, writer}
    BY <1>6 DEF Crash, Stop, Goto, durable, NoTags
  <2>2. \A k \in Keys \ partial' : Vouched(k)' => k \notin partial /\ Vouched(k)
    BY <1>6 DEF Crash, Stop, Goto, durable, NoTags, Vouched, TypeOK
  <2>3. QED
    BY <2>1, <2>2, QuietStep
<1>7. CASE CommitDomains
  <2>1. UNCHANGED <<bucket, cdx, ever>> /\ index' \in {index, writer}
                                     /\ writer' \in {index, writer}
    BY <1>7 DEF CommitDomains, Stop, Goto, volatile, NoTags
  <2>2. \A k \in Keys \ partial' : Vouched(k)' => k \notin partial /\ Vouched(k)
    BY <1>7 DEF CommitDomains, Stop, Goto, volatile, NoTags, Vouched, TypeOK
  <2>3. QED
    BY <2>1, <2>2, QuietStep
<1>8. CASE purge_url_patterns
  <2>1. CASE UNCHANGED <<cdx, writer>>
    BY <1>8, <2>1, QuietStep DEF purge_url_patterns, Vouched
  <2>2. ASSUME NEW S, NEW U, Purged(S, U) PROVE VouchedSettled'
    BY <1>8, <2>2, PurgeKeepsSettled DEF purge_url_patterns
  <2>3. QED
    BY <1>8, <2>1, <2>2, PurgePatternsEffect
<1>9. CASE CommitPatterns
  <2>1. UNCHANGED <<bucket, cdx, ever>> /\ index' \in {index, writer}
                                     /\ writer' \in {index, writer}
    BY <1>9 DEF CommitPatterns, Stop, Goto, volatile, NoTags
  <2>2. \A k \in Keys \ partial' : Vouched(k)' => k \notin partial /\ Vouched(k)
    BY <1>9 DEF CommitPatterns, Stop, Goto, volatile, NoTags, Vouched, TypeOK
  <2>3. QED
    BY <2>1, <2>2, QuietStep
<1>10. CASE LoadState
  <2>1. UNCHANGED <<bucket, cdx, ever>> /\ index' \in {index, writer}
                                     /\ writer' \in {index, writer}
    BY <1>10 DEF LoadState, Goto, durable, NoTags
  <2>2. \A k \in Keys \ partial' : Vouched(k)' => k \notin partial /\ Vouched(k)
    BY <1>10 DEF LoadState, Goto, durable, NoTags, Vouched, TypeOK
  <2>3. QED
    BY <2>1, <2>2, QuietStep
<1>11. CASE ListObjects
  <2>1. UNCHANGED <<bucket, cdx, ever>> /\ index' \in {index, writer}
                                     /\ writer' \in {index, writer}
    BY <1>11 DEF ListObjects, Goto, durable, NoTags
  <2>2. \A k \in Keys \ partial' : Vouched(k)' => k \notin partial /\ Vouched(k)
    BY <1>11 DEF ListObjects, Goto, durable, NoTags, Vouched, TypeOK
  <2>3. QED
    BY <2>1, <2>2, QuietStep
<1>12. CASE ListFails
  <2>1. UNCHANGED <<bucket, cdx, ever>> /\ index' \in {index, writer}
                                     /\ writer' \in {index, writer}
    BY <1>12 DEF ListFails, Stop, Goto, durable, NoTags
  <2>2. \A k \in Keys \ partial' : Vouched(k)' => k \notin partial /\ Vouched(k)
    BY <1>12 DEF ListFails, Stop, Goto, durable, NoTags, Vouched, TypeOK
  <2>3. QED
    BY <2>1, <2>2, QuietStep
<1>13. CASE GetFails
  <2>1. UNCHANGED <<bucket, cdx, ever>> /\ index' \in {index, writer}
                                     /\ writer' \in {index, writer}
    BY <1>13 DEF GetFails, FileFails, Goto, durable, volatile
  <2>2. \A k \in Keys \ partial' : Vouched(k)' => k \notin partial /\ Vouched(k)
    BY <1>13 DEF GetFails, FileFails, Goto, durable, volatile, Vouched, TypeOK
  <2>3. QED
    BY <2>1, <2>2, QuietStep
<1>14. CASE ParseObject
  <2>1. UNCHANGED <<bucket, cdx, ever>> /\ index' \in {index, writer}
                                     /\ writer' \in {index, writer}
    BY <1>14 DEF ParseObject, Goto, durable
  <2>2. \A k \in Keys \ partial' : Vouched(k)' => k \notin partial /\ Vouched(k)
    BY <1>14 DEF ParseObject, Goto, durable, Vouched, TypeOK
  <2>3. QED
    BY <2>1, <2>2, QuietStep
<1>15. CASE UpsertCdx
  <2>1. cur \in Keys /\ rver \in Versions /\ batch \in SUBSET Content[cur][rver]
    BY <1>15 DEF UpsertCdx, TypeOK, BatchFromVersion, Reading
  <2>2. \A s \in Slots : cdx[s] # NoRow => cdx'[s] # NoRow
    BY <1>15, <2>1, UpsertBatch DEF UpsertCdx
  <2>3. \A c \in Captures : cdx[Slot(c)] # NoRow => cdx'[Slot(c)] # NoRow
    BY <2>2, DataAssumption DEF Slot, Slots
  <2>4. UNCHANGED <<bucket, index, writer, ever, partial, seen, saved>>
    BY <1>15 DEF UpsertCdx
  <2> SUFFICES ASSUME NEW j \in Keys \ partial', Vouched(j)'
               PROVE  Settled(j, index)' /\ Settled(j, writer)'
    BY DEF VouchedSettled
  <2>5. Settled(j, index) /\ Settled(j, writer) /\ bucket[j] \in Versions
    BY <2>4, DataAssumption DEF VouchedSettled, Vouched, TypeOK, Etags, Versions
  <2>6. SettledIn(j, bucket[j], cdx', ever, index) /\ SettledIn(j, bucket[j], cdx', ever, writer)
    BY <2>3, <2>5, SettledNow, SettledKeeps
  <2>7. QED
    BY <2>4, <2>6, SettledNow
<1>16. CASE WriteDocs
  <2>1. /\ UNCHANGED <<bucket, cdx, index, ever, seen, saved>>
        /\ cur \in Keys /\ pc = "write" /\ partial \subseteq partial'
    BY <1>16 DEF WriteDocs, durable, TypeOK
  <2> SUFFICES ASSUME NEW j \in Keys \ partial', Vouched(j)'
               PROVE  Settled(j, index)' /\ Settled(j, writer)'
    BY DEF VouchedSettled
  <2>2. j \notin partial /\ Vouched(j) /\ bucket[j] \in Versions
    BY <2>1, DataAssumption DEF Vouched, TypeOK, Etags, Versions
  <2>3. Settled(j, index) /\ Settled(j, writer)
    BY <2>2 DEF VouchedSettled
  <2>4. CASE j # cur
    <3>1. \A C : \A c \in Captures : ReplaceDocs(cur, C)[<<j, c>>] = writer[<<j, c>>]
      BY <2>4 DEF ReplaceDocs, Docs
    <3>2. \A c \in Captures : writer'[<<j, c>>] = writer[<<j, c>>]
      BY <1>16, <3>1 DEF WriteDocs
    <3>3. SettledIn(j, bucket[j], cdx, ever, writer')
      BY <2>2, <2>3, <3>2, SettledNow, SettledKeeps
    <3>4. QED
      BY <2>1, <2>3, <3>3, SettledNow
  <2>5. CASE j = cur
    <3>1. writer' = ReplaceDocs(cur, batch \cap Textual)
      BY <1>16, <2>2, <2>5 DEF WriteDocs
    <3>2. rver = bucket[cur]
      BY <2>1, <2>2, <2>5, DataAssumption DEF Vouched, EtagsInOrder, Reading, TypeOK, Etags, Versions
    <3>3. batch = handle_record(Content[cur][bucket[cur]])
      BY <2>1, <2>2, <2>5, <3>2 DEF BatchWhole, Reading
    <3>4. Content[cur][bucket[cur]] \subseteq Captures
      BY <2>2, <2>5, DataAssumption
    <3>5. \A c \in Content[cur][bucket[cur]] : NeverSkipped(c) => c \in batch
      BY <3>3, <3>4, Unlisted DEF handle_record
    <3>6. \A c \in Captures : writer'[<<cur, c>>] = IF c \in batch \cap Textual THEN 1 ELSE 0
      BY <2>1, <3>1 DEF ReplaceDocs, Docs
    <3>7. \A c \in Captures \ Content[cur][bucket[cur]] : c \notin batch
      BY <3>3 DEF handle_record
    <3>8. SettledIn(cur, bucket[cur], cdx, ever, writer')
      BY <2>1, <2>3, <2>5, <3>4, <3>5, <3>6, <3>7 DEF SettledIn, Settled, NeverSkipped, HasRow
    <3>9. QED
      BY <2>1, <2>3, <2>5, <3>8, SettledNow
  <2>6. QED
    BY <2>4, <2>5
<1>17. CASE CommitFile
  <2>1. /\ UNCHANGED <<bucket, cdx, ever, writer, seen, saved>>
        /\ cur \in Keys /\ pc = "commit" /\ index' \in {index, writer}
    BY <1>17 DEF CommitFile, volatile, TypeOK
  <2>2. CASE partial' = partial
    BY <2>1, <2>2, QuietStep DEF Vouched
  <2>3. CASE /\ partial' = partial \ {cur}
             /\ batch = handle_record(Content[cur][rver])
             /\ index' = writer
    <3> SUFFICES ASSUME NEW j \in Keys \ partial', Vouched(j)'
                 PROVE  Settled(j, index)' /\ Settled(j, writer)'
      BY DEF VouchedSettled
    <3>1. Settled(j, writer)
      <4>1. CASE j # cur
        BY <2>1, <2>3, <4>1 DEF VouchedSettled, Vouched
      <4>2. CASE j = cur
        <5>1. rver = bucket[cur]
          BY <2>1, <4>2, DataAssumption DEF Vouched, EtagsInOrder, Reading, TypeOK, Etags, Versions
        <5>2. QED
          BY <2>1, <2>3, <4>2, <5>1, WholeIsSettled
      <4>3. QED
        BY <4>1, <4>2
    <3>2. QED
      BY <2>1, <2>3, <3>1, SettledNow
  <2>4. QED
    BY <1>17, <2>1, <2>2, <2>3 DEF CommitFile
<1>18. CASE mark_seen
  <2>1. /\ UNCHANGED <<bucket, cdx, index, writer, ever, saved, partial>>
        /\ cur \in Keys /\ pc = "mark"
        /\ seen' = [seen EXCEPT ![cur] = etag[cur]]
    BY <1>18 DEF mark_seen, durable, TypeOK
  <2> SUFFICES ASSUME NEW j \in Keys \ partial', Vouched(j)'
               PROVE  Settled(j, index)' /\ Settled(j, writer)'
    BY DEF VouchedSettled
  <2>2. Settled(j, index) /\ Settled(j, writer)
    <3>1. CASE Vouched(j)
      BY <2>1, <3>1 DEF VouchedSettled
    <3>2. CASE ~Vouched(j)
      <4>1. j = cur /\ etag[cur] = bucket[cur]
        BY <2>1, <3>2 DEF Vouched, TypeOK
      <4>2. rver = bucket[cur]
        BY <2>1, <4>1, DataAssumption DEF EtagsInOrder, Reading, TypeOK, Etags, Versions
      <4>3. QED
        BY <2>1, <4>1, <4>2 DEF ReadyToMark
    <3>3. QED
      BY <3>1, <3>2
  <2>3. QED
    BY <2>1, <2>2, SettledNow
<1>19. CASE SaveState
  <2>1. UNCHANGED <<bucket, cdx, ever>> /\ index' \in {index, writer}
                                     /\ writer' \in {index, writer}
    BY <1>19 DEF SaveState, Goto
  <2>2. \A k \in Keys \ partial' : Vouched(k)' => k \notin partial /\ Vouched(k)
    BY <1>19 DEF SaveState, Goto, Vouched, TypeOK
  <2>3. QED
    BY <2>1, <2>2, QuietStep
<1>20. CASE FinalCommit
  <2>1. UNCHANGED <<bucket, cdx, ever>> /\ index' \in {index, writer}
                                     /\ writer' \in {index, writer}
    BY <1>20 DEF FinalCommit, Stop, Goto, volatile, NoTags
  <2>2. \A k \in Keys \ partial' : Vouched(k)' => k \notin partial /\ Vouched(k)
    BY <1>20 DEF FinalCommit, Stop, Goto, volatile, NoTags, Vouched, TypeOK
  <2>3. QED
    BY <2>1, <2>2, QuietStep
<1>21. CASE Exit
  <2>1. UNCHANGED <<bucket, cdx, ever>> /\ index' \in {index, writer}
                                     /\ writer' \in {index, writer}
    BY <1>21 DEF Exit, Stop, Goto, durable, NoTags
  <2>2. \A k \in Keys \ partial' : Vouched(k)' => k \notin partial /\ Vouched(k)
    BY <1>21 DEF Exit, Stop, Goto, durable, NoTags, Vouched, TypeOK
  <2>3. QED
    BY <2>1, <2>2, QuietStep
<1>22. CASE UNCHANGED vars
  BY <1>22 DEF vars, durable, volatile, VouchedSettled, Vouched, Settled,
    NeverSkipped, HasRow, Slot
<1>23. QED
  BY <1>1, <1>2, <1>3, <1>4, <1>5, <1>6, <1>7, <1>8, <1>9, <1>10, <1>11, <1>12,
     <1>13, <1>14, <1>15, <1>16, <1>17, <1>18, <1>19, <1>20, <1>21, <1>22 DEF Next,
     Step

-----------------------------------------------------------------------------
(* The initial state, with empty stores, satisfies the inductive invariant. *)
LEMMA InitIInv == Init => IInv
<1> SUFFICES ASSUME Init PROVE IInv
  OBVIOUS
<1>1. TypeOK
  BY TypeInit
<1>2. EtagsInOrder /\ SkipRecorded /\ RowsInSlot
  BY DEF Init, NoTags, EtagsInOrder, Reading, SkipRecorded, SurtsUnder, RowsInSlot
<1>3. /\ BatchFromVersion /\ BatchWhole /\ BatchHasRows /\ BatchQueued /\ ReadyToMark
      /\ SingleCopies /\ DocsHaveRows /\ VouchedSettled
  BY DEF Init, NoTags, BatchFromVersion, BatchWhole, BatchHasRows, BatchQueued, ReadyToMark,
     SingleCopies, DocsHaveRows, VouchedSettled, Vouched, Reading, Docs
<1>4. QED
  BY <1>1, <1>2, <1>3 DEF IInv

(* Every step of a run, every upload and every crash preserves it. *)
LEMMA StepIInv == IInv /\ [Next]_vars => IInv'
<1> SUFFICES ASSUME IInv, [Next]_vars PROVE IInv'
  OBVIOUS
<1>1. TypeOK' 
  BY TypeStep DEF IInv
<1>2. EtagsInOrder' /\ SkipRecorded' /\ RowsInSlot'
  BY <1>1, EtagsStep, SkipStep, RowsInSlotStep DEF IInv
<1>3. BatchFromVersion' /\ BatchWhole' /\ BatchHasRows' /\ BatchQueued'
  BY BatchStep, BatchHasRowsStep, BatchQueuedStep DEF IInv
<1>4. ReadyToMark' /\ VouchedSettled'
  BY ReadyStep, SettledStep DEF IInv
<1>5. SingleCopies' /\ DocsHaveRows'
  BY SingleCopiesStep, DocsHaveRowsStep DEF IInv
<1>6. QED
  BY <1>1, <1>2, <1>3, <1>4, <1>5 DEF IInv

(* The inductive invariant holds in every reachable state. *)
LEMMA Inductive == Spec => []IInv
BY InitIInv, StepIInv, PTL DEF Spec

(* Every variable of the indexer keeps its type, whatever fails. *)
THEOREM TypeCorrect == Spec => []TypeOK
<1>1. IInv => TypeOK
  BY DEF IInv
<1>2. QED
  BY Inductive, <1>1, PTL

(* "A crash on a large bucket is safe to resume": for every bucket content, *)
(* every order of uploads, crashes, failed calls and skip lists, an object  *)
(* that index::run will skip as unchanged is completely in both stores,     *)
(* unless its last read was short.                                          *)
THEOREM Resumable == Spec => []SafeResume
<1>1. IInv => SafeResume
  BY DEF IInv, VouchedSettled, SafeResume
<1>2. QED
  BY Inductive, <1>1, PTL

(* However often index_warc_object is repeated on an object, crashed or     *)
(* not, the fulltext index never holds one of its documents twice.          *)
THEOREM Idempotent == Spec => []NoDuplicates
<1>1. IInv => NoDuplicates
  BY DEF IInv, SingleCopies, NoDuplicates
<1>2. QED
  BY Inductive, <1>1, PTL

(* The CDX upsert precedes the fulltext commit, so every search hit outside *)
(* the skip lists resolves to a row, between any two writes of a run.       *)
THEOREM Replayable == Spec => []HitsResolve
<1>1. IInv => HitsResolve
  BY DEF IInv, DocsHaveRows, HitsResolve
<1>2. QED
  BY Inductive, <1>1, PTL
-----------------------------------------------------------------------------
(* The skip list of a run governs the CDX table from the purge to its end. *)

(* The ingest question cuts the host out of the URL, the purge takes it    *)
(* from the SURT: the lists do not tell the two apart.                     *)
HostsAgree ==
  \A l \in SkipLists : \A c \in Captures :
    UrlHost[Url[c]] \in l.dom <=> Host[to_surt[Url[c]]] \in l.dom

SkipListed == pc # "idle" => skip \in SkipLists

(* How far the purges have come. *)
RowsAllowed ==
  \A s \in Slots : cdx[s] # NoRow =>
    /\ pc = "domains" => Host[s[1]] \notin skip.dom \ doms
    /\ pc \notin {"idle", "domains"} => Host[s[1]] \notin skip.dom
    /\ pc \notin {"idle", "domains", "patterns"} => Url[cdx[s].cap] \notin skip.pat

BatchAllowed == pc \in Reading => \A c \in batch : ~is_url_blacklisted(c)

PInv == SkipListed /\ RowsAllowed /\ BatchAllowed

(* A process that is gone promises nothing. *)
LEMMA PurgedIdle == ASSUME pc' = "idle" PROVE PInv'
BY DEF PInv, SkipListed, RowsAllowed, BatchAllowed, Reading

(* A step that leaves rows, skip list and batch alone, and goes back to no *)
(* earlier stage of the run, keeps it.                                     *)
LEMMA PurgedFrame ==
  ASSUME PInv, UNCHANGED <<cdx, skip, doms>>,
         \/ pc' = pc
         \/ pc \notin {"idle", "domains", "patterns"} /\ pc' \notin {"idle", "domains"},
         pc' \in Reading => pc \in Reading /\ batch' = batch
  PROVE  PInv'
<1>1. SkipListed' /\ RowsAllowed'
  BY DEF PInv, SkipListed, RowsAllowed
<1>2. BatchAllowed'
  BY DEF PInv, BatchAllowed, is_url_blacklisted
<1>3. QED
  BY <1>1, <1>2 DEF PInv

(* Purge, ingest and upsert apply one and the same list. *)
LEMMA PurgedStep ==
  HostsAgree /\ IInv /\ PInv /\ [Next]_vars => PInv'
<1> SUFFICES ASSUME HostsAgree, IInv, PInv, [Next]_vars
             PROVE  PInv'
  OBVIOUS
<1>1. ASSUME NEW k \in Keys, Upload(k) PROVE PInv'
  BY <1>1, PurgedFrame DEF Upload, volatile
<1>2. ASSUME NEW m \in RunKinds, NEW l \in SkipLists, StartRun(m, l) PROVE PInv'
  BY <1>2 DEF StartRun, Goto, PInv, SkipListed, RowsAllowed, BatchAllowed, Reading
<1>3. ASSUME NEW h \in doms, purge_domain(h) PROVE PInv'
  <2>1. \A s \in Slots : cdx'[s] # NoRow => cdx'[s] = cdx[s] /\ Host[s[1]] # h
    BY <1>3 DEF purge_domain, DeleteSurts, Slots
  <2>2. RowsAllowed'
    BY <1>3, <2>1 DEF purge_domain, PInv, RowsAllowed
  <2>3. QED
    BY <1>3, <2>2 DEF purge_domain, PInv, SkipListed, BatchAllowed, Reading
<1>4. CASE CommitDomains
  <2>1. CASE Stop
    BY <2>1, PurgedIdle DEF Stop, Goto
  <2>2. CASE pc = "domains" /\ doms = {} /\ Goto("patterns") /\ UNCHANGED <<cdx, volatile>>
    BY <2>2 DEF Goto, volatile, PInv, SkipListed, RowsAllowed, BatchAllowed, Reading
  <2>3. QED
    BY <1>4, <2>1, <2>2 DEF CommitDomains
<1>5. CASE purge_url_patterns
  <2> DEFINE hits == {s \in Slots : cdx[s] # NoRow /\ Url[cdx[s].cap] \in skip.pat}
  <2>1. pc = "patterns" /\ pc' \in {"load", "pcommit"} /\ UNCHANGED skip
    BY <1>5 DEF purge_url_patterns, Goto
  <2>2. \/ skip.pat = {} /\ UNCHANGED cdx
        \/ cdx' = DeleteSurts({s[1] : s \in hits})
    BY <1>5 DEF purge_url_patterns
  <2>3. \A s \in Slots : cdx'[s] # NoRow => cdx'[s] = cdx[s] /\ Url[cdx[s].cap] \notin skip.pat
    BY <2>2 DEF DeleteSurts
  <2>4. RowsAllowed'
    BY <2>1, <2>3 DEF PInv, RowsAllowed
  <2>5. QED
    BY <2>1, <2>4 DEF PInv, SkipListed, BatchAllowed, Reading
<1>6. CASE CommitPatterns
  BY <1>6, PurgedIdle, PurgedFrame DEF CommitPatterns, Stop, Goto, volatile, Reading
<1>7. CASE LoadState \/ ListObjects \/ \E k \in todo : NextObject(k)
  BY <1>7, PurgedFrame DEF LoadState, ListObjects, NextObject, Goto, durable, Reading
<1>8. CASE Crash \/ ListFails \/ Exit
  BY <1>8, PurgedIdle DEF Crash, ListFails, Exit, Stop, Goto
<1>9. CASE GetFails
  BY <1>9, PurgedFrame DEF GetFails, FileFails, Goto, durable, volatile, Reading
<1>10. CASE ParseObject
  <2>1. \A c \in batch' : ~is_url_blacklisted(c)
    BY <1>10 DEF ParseObject, handle_record
  <2>2. UNCHANGED <<cdx, skip, doms>> /\ pc = "get" /\ pc' = "cdx"
    BY <1>10 DEF ParseObject, Goto, durable
  <2>3. BatchAllowed'
    BY <2>1, <2>2 DEF BatchAllowed, is_url_blacklisted
  <2>4. QED
    BY <2>2, <2>3 DEF PInv, SkipListed, RowsAllowed
<1>11. CASE UpsertCdx
  <2>1. CASE FileFails /\ UNCHANGED cdx
    BY <1>11, <2>1, PurgedFrame DEF UpsertCdx, FileFails, Goto, Reading
  <2>2. CASE Goto("write") /\ cdx' = upsert_batch(cur, batch)
    <3>1. cur \in Keys /\ rver \in Versions /\ batch \in SUBSET Content[cur][rver]
      BY <1>11 DEF UpsertCdx, IInv, TypeOK, BatchFromVersion, Reading
    <3>2. UNCHANGED <<skip, doms, batch>> /\ pc = "cdx" /\ pc' = "write" /\ skip \in SkipLists
      BY <1>11, <2>2 DEF UpsertCdx, Goto, PInv, SkipListed
    <3>3. ASSUME NEW s \in Slots, cdx'[s] # NoRow
          PROVE  Host[s[1]] \notin skip.dom /\ Url[cdx'[s].cap] \notin skip.pat
      <4>1. CASE cdx'[s] = cdx[s]
        BY <3>2, <3>3, <4>1 DEF PInv, RowsAllowed
      <4>2. CASE cdx'[s].cap \in batch /\ Slot(cdx'[s].cap) = s
        <5>1. ~is_url_blacklisted(cdx'[s].cap) /\ cdx'[s].cap \in Captures
          BY <3>2, <4>2 DEF PInv, BatchAllowed, Reading, IInv, TypeOK
        <5>2. s[1] = to_surt[Url[cdx'[s].cap]]
          BY <4>2 DEF Slot
        <5>3. QED
          BY <3>2, <5>1, <5>2 DEF HostsAgree, is_url_blacklisted
      <4>3. QED
        BY <2>2, <3>1, <4>1, <4>2, UpsertBatch DEF IInv
    <3>4. QED
      BY <3>2, <3>3 DEF PInv, SkipListed, RowsAllowed, BatchAllowed, Reading, is_url_blacklisted
  <2>3. QED
    BY <1>11, <2>1, <2>2 DEF UpsertCdx
<1>12. CASE WriteDocs \/ CommitFile \/ mark_seen
  BY <1>12, PurgedFrame DEF WriteDocs, CommitFile, mark_seen, FileFails, Goto, durable, volatile,
    Reading
<1>13. CASE SaveState
  BY <1>13, PurgedFrame DEF SaveState, Goto, Reading
<1>14. CASE FinalCommit
  BY <1>14, PurgedIdle, PurgedFrame DEF FinalCommit, Stop, Goto, volatile, Reading
<1>15. ASSUME NEW k \in Keys, write_cdx_sidecar(k) PROVE PInv'
  BY <1>15, PurgedFrame DEF write_cdx_sidecar
<1>16. CASE UNCHANGED vars
  BY <1>16, PurgedFrame DEF vars, durable, volatile
<1>17. QED
  BY <1>1, <1>2, <1>3, <1>4, <1>5, <1>6, <1>7, <1>8, <1>9, <1>10, <1>11, <1>12, <1>13,
     <1>14, <1>15, <1>16 DEF Next, Step

(* No list is in force in the beginning. *)
LEMMA PurgedInit == Init => PInv
BY DEF Init, PInv, SkipListed, RowsAllowed, BatchAllowed, Reading

(* What purge and ingest promise each row, told by its capture. *)
LEMMA RowsPassFilter ==
  ASSUME HostsAgree, IInv, PInv, pc \in AfterPurge, NEW s \in Slots, cdx[s] # NoRow
  PROVE  ~is_url_blacklisted(cdx[s].cap) /\ Host[s[1]] \notin skip.dom
<1>1. Host[s[1]] \notin skip.dom /\ Url[cdx[s].cap] \notin skip.pat /\ skip \in SkipLists
  BY DEF PInv, SkipListed, RowsAllowed, AfterPurge
<1>2. cdx[s].cap \in Captures /\ s[1] = to_surt[Url[cdx[s].cap]]
  BY DEF IInv, TypeOK, Rows, RowsInSlot, Slot
<1>3. QED
  BY <1>1, <1>2 DEF HostsAgree, is_url_blacklisted

(* From the purge to the end of a run no row is left that its skip list    *)
(* covers, whatever the earlier lists, uploads, crashes and failed calls   *)
(* were.                                                                   *)
THEOREM ListGoverns == HostsAgree => (Spec => []CdxClean)
<1> SUFFICES ASSUME HostsAgree
             PROVE  Spec => []CdxClean
  OBVIOUS
<1>1. IInv /\ PInv => CdxClean
  BY RowsPassFilter DEF CdxClean
<1>2. QED
  BY InitIInv, StepIInv, PurgedInit, PurgedStep, <1>1, PTL DEF Spec

-----------------------------------------------------------------------------
(* Without a fault: the purge finds the documents of the hosts it names.   *)

(* Captures of one SURT and second have one original: the row tells the    *)
(* purge which URL to delete from the fulltext index.                      *)
OneOriginal == \A c, d \in Captures : Slot(c) = Slot(d) => Url[c] = Url[d]

(* Where the writer may be ahead of the index. *)
WriterInStep ==
  \/ pc \in {"pcommit", "commit"}
  \/ pc = "domains" /\ skip.dom # {}
  \/ writer = index

(* A document keeps its row, unless a pattern has taken it. *)
DocsRowed ==
  \A d \in Docs : writer[d] > 0 /\ to_surt[Url[d[2]]] \notin Patterned => HasRow(d[2])

DInv == faults = 0 => WriterInStep /\ DocsRowed

(* Every step counts its faults. *)
LEMMA FaultsGrow ==
  ASSUME TypeOK, [Next]_vars, faults' = 0
  PROVE  faults = 0 /\ ~Fault
<1>1. faults \in Nat
  BY DataAssumption DEF TypeOK
<1>2. UNCHANGED faults \/ Fault
  <2>1. ASSUME NEW k \in Keys, Upload(k) \/ write_cdx_sidecar(k) PROVE UNCHANGED faults \/ Fault
    BY <2>1 DEF Upload, write_cdx_sidecar
  <2>2. ASSUME NEW m \in RunKinds, NEW l \in SkipLists, StartRun(m, l) PROVE UNCHANGED faults
    BY <2>2 DEF StartRun
  <2>3. Crash \/ ListFails => Fault
    BY DEF Crash, ListFails
  <2>4. Step => UNCHANGED faults \/ Fault
    BY DEF Step, purge_domain, CommitDomains, purge_url_patterns, CommitPatterns, LoadState,
       ListObjects, ListFails, NextObject, GetFails, ParseObject, UpsertCdx, WriteDocs,
       CommitFile, mark_seen, SaveState, FinalCommit, Exit, FileFails
  <2>5. QED
    BY <2>1, <2>2, <2>3, <2>4 DEF Next, vars
<1>3. QED
  BY <1>1, <1>2 DEF Fault

(* The lists in force only become more. *)
LEMMA PatternedGrows ==
  ASSUME ever \subseteq ever' PROVE Patterned \subseteq Patterned'
BY DEF Patterned, SurtsUnder

(* A step that keeps the rows and adds no document keeps DocsRowed. *)
LEMMA RowedFrame ==
  ASSUME DocsRowed, ever \subseteq ever',
         \A d \in Docs : writer'[d] > 0 => writer[d] > 0,
         \A d \in Docs : HasRow(d[2]) => HasRow(d[2])'
  PROVE  DocsRowed'
BY PatternedGrows DEF DocsRowed

(* The domain purge deletes the documents whose rows it takes. *)
LEMMA RowedDomain ==
  ASSUME OneOriginal, IInv, DocsRowed, NEW h \in doms, purge_domain(h)
  PROVE  DocsRowed'
<1> DEFINE S == {s \in Surts : Host[s] = h}
           urls == {Url[cdx[s].cap] : s \in {t \in Slots : t[1] \in S /\ cdx[t] # NoRow}}
<1>1. writer' = delete_urls(urls) /\ cdx' = DeleteSurts(S) /\ ever' = ever
  BY DEF purge_domain
<1> SUFFICES ASSUME NEW d \in Docs, writer'[d] > 0, to_surt[Url[d[2]]] \notin Patterned'
             PROVE  HasRow(d[2])'
  BY DEF DocsRowed
<1>2. writer[d] > 0 /\ Url[d[2]] \notin urls
  BY <1>1 DEF delete_urls
<1>3. to_surt[Url[d[2]]] \notin Patterned
  BY <1>1, PatternedGrows
<1>4. cdx[Slot(d[2])] # NoRow
  BY <1>2, <1>3 DEF DocsRowed, HasRow
<1>5. d[2] \in Captures /\ Slot(d[2]) \in Slots
  BY DataAssumption DEF Docs, Slot, Slots
<1>6. Url[cdx[Slot(d[2])].cap] = Url[d[2]]
  <2>1. /\ cdx[Slot(d[2])].cap \in Captures
        /\ Slot(cdx[Slot(d[2])].cap) = Slot(d[2])
    BY <1>4, <1>5 DEF IInv, TypeOK, Rows, RowsInSlot
  <2>2. QED
    BY <1>5, <2>1 DEF OneOriginal
<1>7. Slot(d[2])[1] \notin S
  BY <1>2, <1>4, <1>5, <1>6
<1>8. cdx'[Slot(d[2])] # NoRow
  BY <1>1, <1>4, <1>5, <1>7 DEF DeleteSurts
<1>9. QED
  BY <1>8 DEF HasRow, Slot

(* The pattern purge takes rows under SURTs on record only. *)
LEMMA RowedPatterns ==
  ASSUME IInv, PInv, DocsRowed, purge_url_patterns
  PROVE  DocsRowed'
<1> DEFINE hits == {s \in Slots : cdx[s] # NoRow /\ Url[cdx[s].cap] \in skip.pat}
           S == {s[1] : s \in hits}
<1>1. ever' = ever /\ pc = "patterns"
  BY DEF purge_url_patterns
<1>2. CASE UNCHANGED <<cdx, writer>>
  BY <1>1, <1>2, RowedFrame DEF HasRow, Slot
<1>3. CASE cdx' = DeleteSurts(S) /\ \E U : writer' = delete_urls(U)
  <2> SUFFICES ASSUME NEW d \in Docs, writer'[d] > 0, to_surt[Url[d[2]]] \notin Patterned'
               PROVE  HasRow(d[2])'
    BY DEF DocsRowed
  <2>1. writer[d] > 0
    BY <1>3 DEF delete_urls
  <2>2. to_surt[Url[d[2]]] \notin Patterned
    BY <1>1, PatternedGrows
  <2>3. cdx[Slot(d[2])] # NoRow
    BY <2>1, <2>2 DEF DocsRowed, HasRow
  <2>4. Slot(d[2]) \in Slots /\ Slot(d[2])[1] = to_surt[Url[d[2]]]
    BY DataAssumption DEF Docs, Slot, Slots
  <2>5. S \subseteq Patterned
    <3>1. skip \in SkipLists /\ SurtsUnder(skip) \subseteq ever
      BY <1>1 DEF PInv, SkipListed, IInv, SkipRecorded
    <3>2. \A u \in skip.pat : to_surt[u] \in Patterned
      BY <3>1 DEF Patterned
    <3>3. ASSUME NEW s \in hits PROVE s[1] \in Patterned
      <4>1. Slot(cdx[s].cap) = s
        BY <3>3 DEF IInv, RowsInSlot
      <4>2. s[1] = to_surt[Url[cdx[s].cap]]
        BY <4>1 DEF Slot
      <4>3. QED
        BY <3>2, <3>3, <4>2
    <3>4. QED
      BY <3>3
  <2>6. cdx'[Slot(d[2])] # NoRow
    BY <1>3, <2>2, <2>3, <2>4, <2>5 DEF DeleteSurts
  <2>7. QED
    BY <2>6 DEF HasRow, Slot
<1>4. QED
  BY <1>2, <1>3 DEF purge_url_patterns

(* An object's documents have got their rows before. *)
LEMMA RowedWrite ==
  ASSUME IInv, DocsRowed, WriteDocs
  PROVE  DocsRowed'
<1>1. cur \in Keys /\ UNCHANGED <<cdx, ever>>
  BY DEF WriteDocs, IInv, TypeOK, durable
<1>2. \E C : C \subseteq batch /\ writer' = ReplaceDocs(cur, C)
  BY DEF WriteDocs
<1>3. \A d \in Docs : writer'[d] > 0 => writer[d] > 0 \/ d[2] \in batch
  BY <1>2 DEF ReplaceDocs
<1>4. \A c \in batch : HasRow(c)
  BY DEF WriteDocs, IInv, BatchHasRows
<1>5. Patterned \subseteq Patterned'
  BY <1>1, PatternedGrows
<1>6. \A c : HasRow(c) => HasRow(c)'
  BY <1>1 DEF HasRow, Slot
<1>7. QED
  BY <1>3, <1>4, <1>5, <1>6 DEF DocsRowed

(* The steps of a run that nothing disturbs keep writer, index and rows    *)
(* together.                                                               *)
LEMMA DocsStep ==
  OneOriginal /\ IInv /\ PInv /\ DInv /\ [Next]_vars => DInv'
<1> SUFFICES ASSUME OneOriginal, IInv, PInv, DInv, [Next]_vars, faults' = 0
             PROVE  WriterInStep' /\ DocsRowed'
  BY DEF DInv
<1>f. faults = 0 /\ ~Fault
  BY FaultsGrow DEF IInv
<1>i. WriterInStep /\ DocsRowed
  BY <1>f DEF DInv
<1>1. ASSUME NEW k \in Keys, Upload(k) \/ write_cdx_sidecar(k) PROVE WriterInStep' /\ DocsRowed'
  BY <1>1, <1>i, RowedFrame DEF Upload, write_cdx_sidecar, volatile, WriterInStep, HasRow, Slot
<1>2. ASSUME NEW m \in RunKinds, NEW l \in SkipLists, StartRun(m, l)
      PROVE  WriterInStep' /\ DocsRowed'
  BY <1>2, <1>i, RowedFrame DEF StartRun, durable, WriterInStep, HasRow, Slot
<1>3. ASSUME NEW h \in doms, purge_domain(h) PROVE WriterInStep' /\ DocsRowed'
  <2>1. DocsRowed'
    BY <1>3, <1>i, RowedDomain
  <2>2. h \in skip.dom
    BY <1>3 DEF IInv, SkipRecorded
  <2>3. QED
    BY <1>3, <2>1, <2>2 DEF purge_domain, WriterInStep
<1>4. CASE CommitDomains
  <2>1. pc' = "patterns" /\ UNCHANGED <<cdx, writer, ever, skip>>
    BY <1>4, <1>f DEF CommitDomains, Goto, volatile
  <2>2. writer' = index'
    BY <1>4, <1>f, <1>i DEF CommitDomains, volatile, WriterInStep
  <2>3. QED
    BY <1>i, <2>1, <2>2, RowedFrame DEF WriterInStep, HasRow, Slot
<1>5. CASE purge_url_patterns
  <2>1. DocsRowed'
    BY <1>5, <1>i, RowedPatterns
  <2>2. WriterInStep'
    BY <1>5, <1>i DEF purge_url_patterns, Goto, WriterInStep
  <2>3. QED
    BY <2>1, <2>2
<1>6. CASE CommitPatterns \/ CommitFile \/ FinalCommit
  <2>1. index' = writer /\ UNCHANGED <<cdx, writer, ever>>
    BY <1>6, <1>f DEF CommitPatterns, CommitFile, FileFails, FinalCommit, volatile
  <2>2. QED
    BY <1>i, <2>1, RowedFrame DEF WriterInStep, HasRow, Slot
<1>7. CASE LoadState \/ ListObjects \/ \E k \in todo : NextObject(k)
  <2>1. UNCHANGED <<cdx, writer, index, ever, skip>> /\ pc \notin {"domains", "pcommit", "commit"}
    BY <1>7 DEF LoadState, ListObjects, NextObject, durable
  <2>2. QED
    BY <1>i, <2>1, RowedFrame DEF WriterInStep, HasRow, Slot
<1>8. Crash \/ ListFails => FALSE
  BY <1>f DEF Crash, ListFails
<1>9. CASE GetFails \/ ParseObject \/ mark_seen \/ SaveState
  <2>1. UNCHANGED <<cdx, writer, index, ever, skip>> /\ pc \notin {"domains", "pcommit", "commit"}
    BY <1>9 DEF GetFails, ParseObject, mark_seen, SaveState, durable, volatile
  <2>2. QED
    BY <1>i, <2>1, RowedFrame DEF WriterInStep, HasRow, Slot
<1>10. CASE UpsertCdx
  <2>1. cur \in Keys /\ rver \in Versions /\ batch \in SUBSET Content[cur][rver]
    BY <1>10 DEF UpsertCdx, IInv, TypeOK, BatchFromVersion, Reading
  <2>2. \A s \in Slots : cdx[s] # NoRow => cdx'[s] # NoRow
    BY <1>10, <2>1, UpsertBatch DEF UpsertCdx, IInv
  <2>3. \A d \in Docs : Slot(d[2]) \in Slots
    BY DataAssumption DEF Docs, Slot, Slots
  <2>4. \A d \in Docs : HasRow(d[2]) => HasRow(d[2])'
    BY <2>2, <2>3 DEF HasRow, Slot
  <2>5. UNCHANGED <<writer, index, ever>> /\ pc = "cdx"
    BY <1>10 DEF UpsertCdx
  <2>6. QED
    BY <1>i, <2>4, <2>5, RowedFrame DEF WriterInStep
<1>11. CASE WriteDocs
  <2>1. pc' = "commit"
    BY <1>11, <1>f DEF WriteDocs, FileFails, Goto
  <2>2. QED
    BY <1>11, <1>i, <2>1, RowedWrite DEF WriterInStep
<1>12. CASE Exit
  <2>1. UNCHANGED <<cdx, index, ever>> /\ writer' = index /\ pc = "done"
    BY <1>12 DEF Exit, Stop, durable
  <2>2. writer = index
    BY <1>i, <2>1 DEF WriterInStep
  <2>3. QED
    BY <1>i, <2>1, <2>2, RowedFrame DEF WriterInStep, HasRow, Slot
<1>13. CASE UNCHANGED vars
  BY <1>13, <1>i, RowedFrame DEF vars, durable, volatile, WriterInStep, HasRow, Slot
<1>14. QED
  BY <1>1, <1>2, <1>3, <1>4, <1>5, <1>6, <1>7, <1>8, <1>9, <1>10, <1>11, <1>12, <1>13
  DEF Next, Step

(* No document is there in the beginning. *)
LEMMA DocsInit == Init => DInv
BY DEF Init, DInv, WriterInStep, DocsRowed, Docs

(* When a run is done and nothing has failed, no document of a host on its *)
(* skip list is left, however lists, uploads and runs have come and gone,  *)
(* unless a URL pattern has worked on its SURT; with captures whose        *)
(* originals the rows tell apart.                                          *)
THEOREM PurgeFindsAll == HostsAgree /\ OneOriginal => (Spec => []PurgeComplete)
<1> SUFFICES ASSUME HostsAgree, OneOriginal
             PROVE  Spec => []PurgeComplete
  OBVIOUS
<1>1. IInv /\ PInv /\ DInv => PurgeComplete
  <2> SUFFICES ASSUME IInv, PInv, DInv, pc = "done", faults = 0, NEW d \in Docs, index[d] > 0,
                      UrlHost[Url[d[2]]] \in skip.dom, to_surt[Url[d[2]]] \notin Patterned
               PROVE  FALSE
    BY DEF PurgeComplete
  <2>1. HasRow(d[2])
    BY DEF DInv, WriterInStep, DocsRowed
  <2>2. d[2] \in Captures /\ Slot(d[2]) \in Slots
    BY DataAssumption DEF Docs, Slot, Slots
  <2>3. /\ cdx[Slot(d[2])].cap \in Captures
        /\ Slot(cdx[Slot(d[2])].cap) = Slot(d[2])
    BY <2>1, <2>2 DEF HasRow, IInv, TypeOK, Rows, RowsInSlot
  <2>4. Url[cdx[Slot(d[2])].cap] = Url[d[2]]
    BY <2>2, <2>3 DEF OneOriginal
  <2>5. ~is_url_blacklisted(cdx[Slot(d[2])].cap)
    BY <2>1, <2>2, RowsPassFilter DEF HasRow, AfterPurge
  <2>6. QED
    BY <2>4, <2>5 DEF is_url_blacklisted
<1>2. QED
  BY InitIInv, StepIInv, PurgedInit, PurgedStep, DocsInit, DocsStep, <1>1, PTL DEF Spec

-----------------------------------------------------------------------------
(* Without a fault: a forced run without a list brings everything back.    *)

(* Every record of object k is in the table and in the index. *)
Back(k, ix) ==
  \A c \in Content[k][bucket[k]] : HasRow(c) /\ (c \in Textual => ix[<<k, c>>] = 1)

(* The run is through with the object. *)
Visited(k) == k \notin todo /\ ~(k = cur /\ pc \in {"get", "cdx", "write", "commit"})

Forced ==
  /\ kind = "force" /\ skip = [dom |-> {}, pat |-> {}] /\ faults = 0
  /\ pc \in AfterPurge \ {"load", "list"}

(* The state file knows nothing newer than the listing, and what the run   *)
(* is through with and nobody has overwritten is back in both stores.      *)
StateListed == \A k \in Keys : saved[k] <= etag[k] /\ seen[k] <= etag[k]
VisitedBack ==
  \A k \in Keys :
    Visited(k) /\ etag[k] # 0 /\ etag[k] = bucket[k] => Back(k, index) /\ Back(k, writer)

(* Nothing is left of the listing when the loop is over. *)
Drained == pc \in {"final", "done"} => todo = {}

FInv == (faults = 0 => partial = {}) /\ (Forced => StateListed /\ VisitedBack)

(* An object that is back stays so while nobody writes it and the          *)
(* documents of others change.                                             *)
LEMMA BackFrame ==
  ASSUME NEW k \in Keys, NEW ix, NEW iy, Back(k, ix), UNCHANGED bucket, bucket[k] \in Versions,
         \A c \in Captures : HasRow(c) => HasRow(c)',
         \A c \in Captures : iy[<<k, c>>] = ix[<<k, c>>]
  PROVE  \A c \in Content[k][bucket'[k]] : HasRow(c)' /\ (c \in Textual => iy[<<k, c>>] = 1)
<1>1. Content[k][bucket[k]] \subseteq Captures
  BY DataAssumption
<1>2. QED
  BY <1>1 DEF Back

(* A step of a forced run that writes no documents and leaves the objects  *)
(* it is through with where they are.                                      *)
LEMMA VisitedFrame ==
  ASSUME IInv, Forced, VisitedBack, UNCHANGED <<bucket, etag>>,
         index' \in {index, writer}, writer' = writer,
         \A c \in Captures : HasRow(c) => HasRow(c)',
         \A k \in Keys : Visited(k)' => Visited(k) \/ etag[k] # bucket[k]
  PROVE  VisitedBack'
<1> SUFFICES ASSUME NEW k \in Keys, Visited(k)', etag'[k] # 0, etag'[k] = bucket'[k]
             PROVE  Back(k, index)' /\ Back(k, writer)'
  BY DEF VisitedBack
<1>1. Back(k, index) /\ Back(k, writer)
  BY DEF VisitedBack
<1>2. bucket[k] \in Versions
  BY DataAssumption DEF IInv, TypeOK, Etags, Versions
<1>3. Back(k, index)'
  BY <1>1, <1>2, BackFrame DEF Back
<1>4. Back(k, writer)'
  BY <1>1, <1>2, BackFrame DEF Back
<1>5. QED
  BY <1>3, <1>4

(* Only a short read, a fault, damages an object. *)
LEMMA WholeStep ==
  ASSUME IInv, FInv, [Next]_vars, faults' = 0
  PROVE  partial' = {}
<1>1. faults = 0 /\ ~Fault /\ partial = {}
  BY FaultsGrow DEF IInv, FInv
<1>2. ParseObject \/ WriteDocs \/ CommitFile => partial' = {}
  BY <1>1 DEF ParseObject, WriteDocs, CommitFile, FileFails
<1>3. UNCHANGED partial => partial' = {}
  BY <1>1
<1>4. ASSUME NEW k \in Keys, Upload(k) \/ write_cdx_sidecar(k) PROVE UNCHANGED partial
  BY <1>4 DEF Upload, write_cdx_sidecar
<1>5. ASSUME NEW m \in RunKinds, NEW l \in SkipLists, StartRun(m, l) PROVE UNCHANGED partial
  BY <1>5 DEF StartRun
<1>6. Crash \/ UNCHANGED vars => UNCHANGED partial
  BY DEF Crash, vars
<1>7. Step => UNCHANGED partial \/ ParseObject \/ WriteDocs \/ CommitFile
  BY DEF Step, purge_domain, CommitDomains, purge_url_patterns, CommitPatterns, LoadState,
     ListObjects, ListFails, NextObject, GetFails, UpsertCdx, mark_seen, SaveState, FinalCommit,
     Exit
<1>8. QED
  BY <1>2, <1>3, <1>4, <1>5, <1>6, <1>7 DEF Next

(* A forced run lists everything, and the state file is behind the bucket. *)
LEMMA ForcedListing ==
  ASSUME IInv, ListObjects, kind = "force"
  PROVE  StateListed' /\ VisitedBack'
<1>1. etag' = bucket /\ UNCHANGED <<bucket, seen, saved>>
  BY DEF ListObjects, durable
<1>2. StateListed'
  BY <1>1 DEF StateListed, IInv, EtagsInOrder
<1>3. todo' = {k \in Keys : bucket[k] # 0}
  BY DEF ListObjects, Listings
<1>4. VisitedBack'
  BY <1>1, <1>3 DEF VisitedBack, Visited
<1>5. QED
  BY <1>2, <1>4

(* The commit of an object brings all of it back: nothing of it was        *)
(* skip-listed and nothing was cut off.                                    *)
LEMMA ForcedCommit ==
  ASSUME IInv, FInv, Forced, CommitFile, faults' = 0
  PROVE  VisitedBack'
<1>1. /\ index' = writer /\ UNCHANGED <<bucket, cdx, etag, writer, todo, cur>>
      /\ pc = "commit" /\ pc' = "mark"
  <2>1. faults \in Nat
    BY DataAssumption DEF IInv, TypeOK
  <2>2. QED
    BY <2>1 DEF CommitFile, FileFails, Fault, Forced, volatile, Goto
<1>2. \A c : HasRow(c) => HasRow(c)'
  BY <1>1 DEF HasRow, Slot
<1> SUFFICES ASSUME NEW k \in Keys, Visited(k)', etag'[k] # 0, etag'[k] = bucket'[k]
             PROVE  Back(k, index)' /\ Back(k, writer)'
  BY DEF VisitedBack
<1>3. bucket[k] \in Versions
  BY <1>1, DataAssumption DEF IInv, TypeOK, Etags, Versions
<1>4. Back(k, writer)
  <2>1. CASE k = cur
    <3>1. rver = bucket[k]
      BY <1>1, <2>1 DEF IInv, TypeOK, EtagsInOrder, Reading, Etags, Versions
    <3>2. batch = Content[k][rver]
      BY <1>1, <2>1 DEF IInv, BatchWhole, Reading, FInv, Forced, handle_record,
        is_url_blacklisted
    <3>3. Content[k][rver] \subseteq Captures
      BY <1>3, <3>1, DataAssumption
    <3>4. \A c \in batch : HasRow(c)
      BY <1>1 DEF IInv, BatchHasRows
    <3>5. \A c \in batch \cap Textual : writer[<<k, c>>] = 1
      BY <1>1, <2>1, <3>2, <3>3 DEF IInv, BatchQueued
    <3>6. QED
      BY <3>1, <3>2, <3>4, <3>5 DEF Back
  <2>2. CASE k # cur
    BY <1>1, <2>2 DEF FInv, VisitedBack, Visited
  <2>3. QED
    BY <2>1, <2>2
<1>5. QED
  BY <1>1, <1>2, <1>3, <1>4, BackFrame DEF Back

(* The documents of an object replace its own only. *)
LEMMA ForcedWrite ==
  ASSUME IInv, VisitedBack, WriteDocs, pc' = "commit"
  PROVE  VisitedBack'
<1>1. /\ UNCHANGED <<bucket, cdx, etag, index, todo, cur>> /\ pc = "write" /\ cur \in Keys
      /\ \E C : writer' = ReplaceDocs(cur, C)
  BY DEF WriteDocs, durable, IInv, TypeOK
<1>2. \A c : HasRow(c) => HasRow(c)'
  BY <1>1 DEF HasRow, Slot
<1> SUFFICES ASSUME NEW k \in Keys, Visited(k)', etag'[k] # 0, etag'[k] = bucket'[k]
             PROVE  Back(k, index)' /\ Back(k, writer)'
  BY DEF VisitedBack
<1>3. bucket[k] \in Versions
  BY <1>1, DataAssumption DEF IInv, TypeOK, Etags, Versions
<1>4. k # cur /\ Visited(k)
  BY <1>1 DEF Visited
<1>5. Back(k, index) /\ Back(k, writer)
  BY <1>1, <1>4 DEF VisitedBack
<1>6. \A c \in Captures : writer'[<<k, c>>] = writer[<<k, c>>] /\ index'[<<k, c>>] = index[<<k, c>>]
  BY <1>1, <1>4 DEF ReplaceDocs, Docs
<1>7. Back(k, index)'
  BY <1>1, <1>2, <1>3, <1>5, <1>6, BackFrame DEF Back
<1>8. Back(k, writer)'
  BY <1>1, <1>2, <1>3, <1>5, <1>6, BackFrame DEF Back
<1>9. QED
  BY <1>7, <1>8

(* The loop ends when no object is left. *)
LEMMA DrainedStep ==
  Drained /\ [Next]_vars => Drained'
<1> SUFFICES ASSUME Drained, [Next]_vars, pc' \in {"final", "done"}
             PROVE  todo' = {}
  BY DEF Drained
<1>1. CASE ListObjects
  <2>1. pc' # "loop" /\ kind # "file"
    BY <1>1 DEF ListObjects, Goto
  <2>2. PICK listed \in Listings :
          /\ todo' \in IF kind = "capped" THEN SUBSET listed ELSE {listed}
          /\ Goto(IF listed = {} THEN "done" ELSE IF todo' = {} THEN "final" ELSE "loop")
    BY <1>1, <2>1 DEF ListObjects
  <2>3. QED
    BY <2>1, <2>2 DEF Goto
<1>2. CASE SaveState
  BY <1>2 DEF SaveState, Goto
<1>3. CASE FinalCommit
  BY <1>3 DEF FinalCommit, Goto, Stop, volatile, Drained
<1>4. UNCHANGED <<pc, todo>> => todo' = {}
  BY DEF Drained
<1>5. ASSUME NEW k \in Keys, Upload(k) \/ write_cdx_sidecar(k) PROVE UNCHANGED <<pc, todo>>
  BY <1>5 DEF Upload, write_cdx_sidecar, volatile
<1>6. ASSUME NEW m \in RunKinds, NEW l \in SkipLists, StartRun(m, l) PROVE FALSE
  BY <1>6 DEF StartRun, Goto
<1>7. ASSUME NEW h \in doms, purge_domain(h) PROVE UNCHANGED <<pc, todo>>
  BY <1>7 DEF purge_domain
<1>8. ASSUME NEW k \in todo, NextObject(k) PROVE FALSE
  BY <1>8 DEF NextObject, Goto
<1>9. CommitDomains \/ purge_url_patterns \/ CommitPatterns \/ LoadState => FALSE
  BY DEF CommitDomains, purge_url_patterns, CommitPatterns, LoadState, Stop, Goto
<1>10. Crash \/ ListFails \/ Exit \/ GetFails => FALSE
  BY DEF Crash, ListFails, Exit, GetFails, FileFails, Stop, Goto
<1>11. ParseObject \/ UpsertCdx => FALSE
  BY DEF ParseObject, UpsertCdx, FileFails, Goto
<1>12. WriteDocs \/ CommitFile \/ mark_seen => FALSE
  BY DEF WriteDocs, CommitFile, FileFails, mark_seen, Goto
<1>13. UNCHANGED vars => UNCHANGED <<pc, todo>>
  BY DEF vars, volatile
<1>14. QED
  BY <1>1, <1>2, <1>3, <1>4, <1>5, <1>6, <1>7, <1>8, <1>9, <1>10, <1>11, <1>12, <1>13
     DEF Next, Step

(* FInv is inductive relative to IInv. *)
LEMMA ForcedStep ==
  IInv /\ FInv /\ [Next]_vars => FInv'
<1> SUFFICES ASSUME IInv, FInv, [Next]_vars, Forced'
             PROVE  StateListed' /\ VisitedBack'
  BY WholeStep DEF FInv
<1>f. faults' = 0 /\ faults = 0 /\ ~Fault
  BY FaultsGrow DEF Forced, IInv
<1>p. pc' \notin {"idle", "domains", "patterns", "pcommit", "load", "list"}
  BY DEF Forced, AfterPurge
<1>b. Forced => StateListed /\ VisitedBack
  BY DEF FInv
<1>1. ASSUME NEW k \in Keys, Upload(k) PROVE StateListed' /\ VisitedBack'
  <2>1. Forced /\ UNCHANGED <<etag, seen, saved, todo, cur, pc, index, writer, cdx>>
    BY <1>1 DEF Upload, volatile, Forced
  <2>2. \A j \in Keys : etag'[j] = bucket'[j] => bucket'[j] = bucket[j]
    BY <1>1 DEF Upload, volatile, IInv, TypeOK, EtagsInOrder, Etags
  <2>3. QED
    BY <1>b, <2>1, <2>2 DEF StateListed, VisitedBack, Visited, Back, HasRow, Slot
<1>2. CASE ListObjects
  <2>1. kind = "force"
    BY <1>2 DEF ListObjects, Forced
  <2>2. QED
    BY <1>2, <2>1, ForcedListing
<1>3. ASSUME NEW k \in todo, NextObject(k) PROVE StateListed' /\ VisitedBack'
  <2>1. /\ Forced /\ UNCHANGED <<bucket, cdx, etag, seen, saved, index, writer>>
        /\ pc = "loop" /\ pc' = "get" /\ todo' = todo \ {k} /\ cur' = k
    BY <1>3 DEF NextObject, Goto, durable, Forced, AfterPurge
  <2>2. \A j \in Keys : Visited(j)' => Visited(j)
    BY <2>1 DEF Visited
  <2>3. \A c : HasRow(c) => HasRow(c)'
    BY <2>1 DEF HasRow, Slot
  <2>4. QED
    BY <1>b, <2>1, <2>2, <2>3, VisitedFrame DEF StateListed
<1>4. CASE GetFails
  <2>1. /\ Forced /\ UNCHANGED <<bucket, cdx, etag, seen, saved, index, writer, todo, cur>>
        /\ bucket[cur] = 0
    BY <1>4, <1>f DEF GetFails, FileFails, durable, volatile, Forced, AfterPurge
  <2>2. \A j \in Keys : Visited(j)' => Visited(j) \/ j = cur
    BY <2>1 DEF Visited
  <2>3. \A c : HasRow(c) => HasRow(c)'
    BY <2>1 DEF HasRow, Slot
  <2>4. QED
    BY <1>b, <2>1, <2>2, <2>3 DEF StateListed, VisitedBack, Back, HasRow, Slot
<1>5. CASE ParseObject \/ UpsertCdx
  <2>1. /\ Forced /\ UNCHANGED <<bucket, etag, seen, saved, index, writer, todo, cur>>
        /\ pc \in {"get", "cdx"}
        /\ pc' \in {"cdx", "write"}
    BY <1>5, <1>f DEF ParseObject, UpsertCdx, FileFails, Goto, durable, Forced, AfterPurge
  <2>2. \A j \in Keys : Visited(j)' => Visited(j)
    BY <2>1 DEF Visited
  <2>3. \A c \in Captures : HasRow(c) => HasRow(c)'
    <3>1. CASE ParseObject
      BY <3>1 DEF ParseObject, durable, HasRow, Slot
    <3>2. CASE UpsertCdx
      <4>1. cur \in Keys /\ rver \in Versions /\ batch \in SUBSET Content[cur][rver]
        BY <3>2 DEF UpsertCdx, IInv, TypeOK, BatchFromVersion, Reading
      <4>2. \A s \in Slots : cdx[s] # NoRow => cdx'[s] # NoRow
        BY <3>2, <4>1, UpsertBatch DEF UpsertCdx, IInv
      <4>3. \A c \in Captures : Slot(c) \in Slots
        BY DataAssumption DEF Slot, Slots
      <4>4. QED
        BY <4>2, <4>3 DEF HasRow, Slot
    <3>3. QED
      BY <1>5, <3>1, <3>2
  <2>4. QED
    BY <1>b, <2>1, <2>2, <2>3, VisitedFrame DEF StateListed
<1>6. CASE WriteDocs
  <2>1. Forced /\ pc' = "commit" /\ UNCHANGED <<etag, seen, saved>>
    BY <1>6, <1>f DEF WriteDocs, FileFails, Goto, durable, Forced, AfterPurge
  <2>2. QED
    BY <1>6, <1>b, <2>1, ForcedWrite DEF StateListed
<1>7. CASE CommitFile
  <2>1. Forced /\ UNCHANGED <<etag, seen, saved>>
    BY <1>7, <1>f DEF CommitFile, FileFails, volatile, Forced, AfterPurge
  <2>2. QED
    BY <1>7, <1>b, <1>f, <2>1, ForcedCommit DEF StateListed
<1>8. CASE mark_seen
  <2>1. /\ Forced /\ UNCHANGED <<bucket, cdx, etag, saved, index, writer, todo, cur>>
        /\ seen' = [seen EXCEPT ![cur] = etag[cur]]
        /\ pc = "mark" /\ cur \in Keys
    BY <1>8 DEF mark_seen, durable, Forced, AfterPurge, IInv, TypeOK
  <2>2. StateListed'
    BY <1>b, <2>1 DEF StateListed, IInv, TypeOK, Etags
  <2>3. \A j \in Keys : Visited(j)' => Visited(j)
    BY <2>1 DEF Visited
  <2>4. \A c : HasRow(c) => HasRow(c)'
    BY <2>1 DEF HasRow, Slot
  <2>5. QED
    BY <1>b, <2>1, <2>2, <2>3, <2>4, VisitedFrame
<1>9. CASE SaveState
  <2>1. /\ Forced /\ UNCHANGED <<bucket, cdx, etag, seen, index, writer, todo>>
        /\ saved' = seen /\ pc = "save" /\ cur' = NoKey
    BY <1>9, <1>f DEF SaveState, Forced, AfterPurge
  <2>2. \A j \in Keys : Visited(j)' => Visited(j)
    BY <2>1 DEF Visited
  <2>3. \A c : HasRow(c) => HasRow(c)'
    BY <2>1 DEF HasRow, Slot
  <2>4. QED
    BY <1>b, <2>1, <2>2, <2>3, VisitedFrame DEF StateListed
<1>10. CASE FinalCommit
  <2>1. /\ Forced /\ UNCHANGED <<bucket, cdx, etag, seen, saved, writer, todo, cur>>
        /\ index' = writer /\ pc = "final" /\ pc' = "done"
    BY <1>10, <1>f DEF FinalCommit, Goto, volatile, Forced, AfterPurge
  <2>2. \A c : HasRow(c) => HasRow(c)'
    BY <2>1 DEF HasRow, Slot
  <2>3. \A j \in Keys : Visited(j)' => Visited(j)
    BY <2>1 DEF Visited
  <2>4. QED
    BY <1>b, <2>1, <2>2, <2>3, VisitedFrame DEF StateListed
<1>11. ASSUME NEW k \in Keys, write_cdx_sidecar(k) PROVE StateListed' /\ VisitedBack'
  <2>1. UNCHANGED <<bucket, cdx, etag, seen, saved, index, writer, todo, cur, pc, kind, skip>>
    BY <1>11 DEF write_cdx_sidecar
  <2>2. Forced
    BY <2>1, <1>f DEF Forced
  <2>3. QED
    BY <1>b, <2>1, <2>2 DEF StateListed, VisitedBack, Visited, Back, HasRow, Slot
<1>12. CASE UNCHANGED vars
  BY <1>12, <1>b DEF vars, durable, volatile, Forced, StateListed, VisitedBack, Visited, Back,
    HasRow, Slot
<1>13. ASSUME NEW m \in RunKinds, NEW l \in SkipLists, StartRun(m, l) PROVE FALSE
  BY <1>13, <1>p DEF StartRun, Goto
<1>14. ASSUME NEW h \in doms, purge_domain(h) PROVE FALSE
  BY <1>14, <1>p DEF purge_domain
<1>15. CommitDomains \/ purge_url_patterns \/ CommitPatterns \/ LoadState => FALSE
  BY <1>p DEF CommitDomains, purge_url_patterns, CommitPatterns, LoadState, Stop, Goto
<1>16. Crash \/ ListFails \/ Exit => FALSE
  BY <1>p DEF Crash, ListFails, Exit, Stop, Goto
<1>17. QED
  BY <1>1, <1>2, <1>3, <1>4, <1>5, <1>6, <1>7, <1>8, <1>9, <1>10, <1>11, <1>12, <1>13,
     <1>14, <1>15, <1>16 DEF Next, Step

(* Nothing is damaged and no run under way in the beginning. *)
LEMMA ForcedInit == Init => FInv /\ Drained
BY DEF Init, FInv, Forced, AfterPurge, Drained

(* When a forced run without a skip list is done and nothing has failed,   *)
(* every object the state file vouches for has all its rows and documents, *)
(* whatever earlier lists purged, however uploads fell into the run.       *)
THEOREM ForceBringsBack == Spec => []CapturesComeBack
<1>1. IInv /\ FInv /\ Drained => CapturesComeBack
  <2> SUFFICES ASSUME IInv, FInv, Drained, pc = "done", kind = "force", faults = 0,
                      skip = [dom |-> {}, pat |-> {}],
                      NEW k \in Keys, saved[k] # 0, saved[k] = bucket[k]
               PROVE  Back(k, index)
    BY DEF CapturesComeBack, Back
  <2>1. Forced
    BY DEF Forced, AfterPurge
  <2>2. etag[k] = bucket[k]
    <3>1. saved[k] <= etag[k] /\ etag[k] <= bucket[k] /\ etag[k] \in Nat /\ bucket[k] \in Nat
      BY <2>1 DEF FInv, StateListed, IInv, TypeOK, EtagsInOrder, Etags
    <3>2. QED
      BY <3>1
  <2>3. Visited(k)
    BY DEF Visited, Drained
  <2>4. QED
    BY <2>1, <2>2, <2>3 DEF FInv, VisitedBack
<1>2. QED
  BY InitIInv, StepIInv, ForcedInit, ForcedStep, DrainedStep, <1>1, PTL DEF Spec

=============================================================================
