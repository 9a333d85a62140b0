------------------------- MODULE CollectionsProofs -------------------------
(***************************************************************************)
(* Proofs about Collections, for every set of objects and list of          *)
(* collections - overlapping ones, buckets with equal keys and commits     *)
(* that fail included - and every bound on versions and faults.            *)
(***************************************************************************)
EXTENDS Collections, TLAPS

(* What the writer would commit satisfies what OneDocument says of the     *)
(* index, and between the deletion of an object's earlier document and     *)
(* the new one the writer has none of it, while its row is in the CDX.     *)
Single(D) == \A d, e \in D : d.obj = e.obj => d = e
Captured(R, D) == \A d \in D : \E r \in R : r.coll = d.coll /\ r.obj = d.obj /\ r.stamp = d.stamp
InWork == {"sidecar", "extract", "store", "add"}
Working ==
  /\ \A d \in writer : d.obj # cur
  /\ \E r \in cdx : r.coll = i /\ r.obj = cur /\ r.stamp = listing[cur]

IInv ==
  /\ TypeOK
  /\ Single(index) /\ Single(writer)
  /\ Captured(cdx, index) /\ Captured(cdx, writer)
  /\ pc \in InWork => Working

(* The first run starts from well-typed stores. *)
LEMMA TypeInit == Init => TypeOK
BY CollAssumption DEF Init, TypeOK, Versions, Tags, NoTags, Nothing, CollNos

(* The row of the object at hand is a document. *)
LEMMA RowIsDoc ==
  ASSUME TypeOK, cur \in Objs, listing[cur] # 0, NEW v \in Versions
  PROVE  Row(v) \in Docs
<1>1. listing[cur] \in Versions
  BY CollAssumption DEF TypeOK, Tags, Versions
<1>2. QED
  BY <1>1 DEF Row, Docs, TypeOK

(* CdxStore::upsert keeps a row under every primary key that had one.      *)
LEMMA UpsertKeeps ==
  ASSUME NEW r, upsert(r)
  PROVE  /\ r \in cdx'
         /\ cdx' \subseteq cdx \cup {r}
         /\ \A D : (D \subseteq Docs /\ Captured(cdx, D)) => Captured(cdx', D)
<1>1. r \in cdx' /\ cdx' \subseteq cdx \cup {r}
  BY DEF upsert
<1>2. ASSUME NEW q \in cdx
      PROVE  \E p \in cdx' : p.coll = q.coll /\ p.obj = q.obj /\ p.stamp = q.stamp
  <2>1. CASE <<q.coll, q.obj, q.stamp>> = <<r.coll, r.obj, r.stamp>>
    BY <1>1, <2>1
  <2>2. CASE <<q.coll, q.obj, q.stamp>> # <<r.coll, r.obj, r.stamp>>
    <3>1. q \in cdx'
      BY <2>2 DEF upsert
    <3>2. QED
      BY <3>1
  <2>3. QED
    BY <2>1, <2>2
<1>3. QED
  BY <1>1, <1>2 DEF Captured

(* Taking an object off the listing, seen or not, keeps the types. *)
LEMMA TypeDrop ==
  ASSUME TypeOK, NEW o \in Objs, Drop(o)
  PROVE  /\ listing' \in [Objs -> Tags]
         /\ cur' = None
         /\ pc' = "object"
         /\ Done(o) => mem' \in [Keys -> Tags]
         /\ Leave(o) => mem' \in [Keys -> Tags]
<1>1. listing' \in [Objs -> Tags]
  BY CollAssumption DEF TypeOK, Drop, Tags
<1>2. QED
  BY <1>1, CollAssumption DEF TypeOK, Drop, Done, Leave, mark_seen

(* Every step keeps the types. *)
LEMMA TypeStep == TypeOK /\ [Next]_vars => TypeOK'
<1> SUFFICES ASSUME TypeOK, [Next]_vars PROVE TypeOK'
  OBVIOUS
<1>f. Fault => faults' \in 0..MaxFaults
  BY CollAssumption DEF Fault, TypeOK
<1>n. NoFault => faults' \in 0..MaxFaults
  BY DEF NoFault, TypeOK
<1>1. ASSUME NEW o \in Objs, Replace(o) PROVE TypeOK'
  <2>1. obj' \in [Objs -> Versions]
    BY <1>1, CollAssumption DEF TypeOK, Replace, Versions
  <2>2. QED
    BY <1>1, <2>1 DEF TypeOK, Replace, stores, run
<1>2. CASE StartRun
  <2>1. mem' \in [Keys -> Tags] /\ disk' \in [Keys -> Tags]
    BY <1>2, CollAssumption DEF TypeOK, StartRun, NoTags, Tags
  <2>2. faults' \in 0..MaxFaults /\ i' \in CollNos
    BY <1>2, <1>f, <1>n, CollAssumption DEF StartRun, CollNos
  <2>3. QED
    BY <1>2, <2>1, <2>2 DEF TypeOK, StartRun
<1>3. CASE BeginCollection
  <2>1. listing' \in [Objs -> Tags]
    <3>1. list_new_or_changed \in [Objs -> Tags]
      BY CollAssumption DEF TypeOK, list_new_or_changed, Tags, Versions
    <3>2. QED
      BY <1>3, <3>1 DEF TypeOK, BeginCollection
  <2>2. faults' \in 0..MaxFaults /\ pc' \in {"object", "save"}
    BY <1>3, <1>f, <1>n DEF BeginCollection
  <2>3. QED
    BY <1>3, <2>1, <2>2 DEF TypeOK, BeginCollection, stores
<1>4. ASSUME NEW o \in Objs, NextObject(o) PROVE TypeOK'
  <2>1. CASE Leave(o) \/ Done(o)
    BY <1>4, <2>1, TypeDrop DEF TypeOK, NextObject, Leave, Done, stores
  <2>2. CASE cur' = o /\ pc' = "get" /\ UNCHANGED <<listing, mem>>
    BY <1>4, <2>2, CollAssumption DEF TypeOK, NextObject, stores
  <2>3. QED
    BY <1>4, <2>1, <2>2 DEF NextObject
<1>5. CASE Fetch
  <2>c. cur \in Objs /\ listing[cur] # 0
    BY <1>5, CollAssumption DEF TypeOK, Fetch
  <2>r. Row(obj[cur]) \in Docs
    BY <2>c, RowIsDoc DEF TypeOK
  <2>1. cdx' \subseteq Docs
    BY <1>5, <2>r, UpsertKeeps DEF TypeOK, Fetch
  <2>2. writer' \subseteq Docs
    BY <1>5 DEF TypeOK, Fetch, delete_s3_key
  <2>3. body' \in Versions
    BY <1>5, <2>c DEF TypeOK, Fetch
  <2>4. faults' \in 0..MaxFaults
    BY <1>5, <1>f, <1>n DEF Fetch
  <2>5. CASE pc' \in {"sidecar", "extract"} /\ UNCHANGED <<mem, listing, cur>>
    BY <1>5, <2>c, <2>1, <2>2, <2>3, <2>4, <2>5 DEF TypeOK, Fetch
  <2>6. CASE Leave(cur) \/ Done(cur)
    BY <1>5, <2>c, <2>1, <2>2, <2>3, <2>4, <2>6, TypeDrop DEF TypeOK, Fetch, Leave, Done
  <2>7. QED
    BY <1>5, <2>5, <2>6 DEF Fetch
<1>6. CASE ReadSidecar
  <2>c. cur \in Objs /\ listing[cur] # 0
    BY <1>6, CollAssumption DEF TypeOK, ReadSidecar
  <2>1. text' \in Versions
    <3>1. CASE Matches /\ text' = sidecar[cur].of
      BY <2>c, <3>1 DEF TypeOK, Matches
    <3>2. QED
      BY <1>6, <3>1 DEF TypeOK, ReadSidecar
  <2>2. faults' \in 0..MaxFaults
    BY <1>6, <1>f, <1>n DEF ReadSidecar
  <2>3. QED
    BY <1>6, <2>c, <2>1, <2>2 DEF TypeOK, ReadSidecar, stores
<1>7. CASE Extract
  <2>c. cur \in Objs /\ listing[cur] # 0
    BY <1>7, CollAssumption DEF TypeOK, Extract
  <2>1. faults' \in 0..MaxFaults
    BY <1>7, <1>f, <1>n DEF Extract
  <2>2. CASE text' = body /\ pc' \in {"store", "add"} /\ UNCHANGED <<mem, listing, cur>>
    BY <1>7, <2>c, <2>1, <2>2 DEF TypeOK, Extract, stores
  <2>3. CASE (Leave(cur) \/ Done(cur)) /\ UNCHANGED text
    BY <1>7, <2>c, <2>1, <2>3, TypeDrop DEF TypeOK, Extract, stores, Leave, Done
  <2>4. QED
    BY <1>7, <2>2, <2>3 DEF Extract
<1>8. CASE StoreText
  <2>c. cur \in Objs /\ listing[cur] \in Versions
    BY <1>8, CollAssumption DEF TypeOK, StoreText, Tags, Versions
  <2>1. sidecar' \in [Objs -> [etag: Versions, of: Versions] \cup {None}]
    BY <1>8, <2>c DEF TypeOK, StoreText
  <2>2. faults' \in 0..MaxFaults
    BY <1>8, <1>f, <1>n DEF StoreText
  <2>3. QED
    BY <1>8, <2>c, <2>1, <2>2 DEF TypeOK, StoreText
<1>9. CASE AddDocument
  <2>c. cur \in Objs /\ listing[cur] # 0
    BY <1>9, CollAssumption DEF TypeOK, AddDocument
  <2>r. Row(text) \in Docs
    BY <2>c, RowIsDoc DEF TypeOK
  <2>1. faults' \in 0..MaxFaults
    BY <1>9, <1>f, <1>n DEF AddDocument
  <2>2. writer' \subseteq Docs
    BY <1>9, <2>r DEF TypeOK, AddDocument
  <2>3. Leave(cur) \/ Done(cur)
    BY <1>9 DEF AddDocument
  <2>4. QED
    BY <1>9, <2>c, <2>1, <2>2, <2>3, TypeDrop DEF TypeOK, AddDocument, stores, Leave, Done
<1>10. CASE CommitCollection
  <2>1. faults' \in 0..MaxFaults /\ index' \subseteq Docs
    BY <1>10, <1>f DEF TypeOK, CommitCollection, commit, Uncommitted
  <2>2. QED
    BY <1>10, <2>1 DEF TypeOK, CommitCollection
<1>11. CASE SaveState
  <2>1. faults' \in 0..MaxFaults /\ disk' \in [Keys -> Tags]
    BY <1>11, <1>f, <1>n DEF TypeOK, SaveState
  <2>2. i' \in CollNos
    BY <1>11, CollAssumption DEF TypeOK, SaveState, CollNos
  <2>3. QED
    BY <1>11, <2>1, <2>2 DEF TypeOK, SaveState
<1>12. CASE FinalCommit
  <2>1. faults' \in 0..MaxFaults /\ index' \subseteq Docs
    BY <1>12, <1>f DEF TypeOK, FinalCommit, commit, Uncommitted
  <2>2. QED
    BY <1>12, <2>1 DEF TypeOK, FinalCommit
<1>13. CASE Crash
  <2>1. listing' \in [Objs -> Tags]
    BY <1>13, CollAssumption DEF Crash, Nothing, Tags
  <2>2. faults' \in 0..MaxFaults
    BY <1>13, <1>f DEF Crash
  <2>3. QED
    BY <1>13, <2>1, <2>2 DEF TypeOK, Crash, stores
<1>14. CASE UNCHANGED vars
  BY <1>14 DEF TypeOK, vars, stores, run
<1>15. QED
  BY <1>1, <1>2, <1>3, <1>4, <1>5, <1>6, <1>7, <1>8, <1>9, <1>10, <1>11, <1>12, <1>13, <1>14
  DEF Next, Step

(* A step that neither changes the documents, the rows nor the object at   *)
(* hand, and does not enter its work, keeps the invariant.                 *)
LEMMA Quiet ==
  ASSUME IInv, TypeOK', UNCHANGED <<cdx, index, writer>>,
         \/ pc' \notin InWork
         \/ pc \in InWork /\ UNCHANGED <<i, cur, listing>>
  PROVE  IInv'
BY DEF IInv, Single, Captured, Working

(* The beginning, and every end, of a run: the writer has what is          *)
(* committed, or the index what the writer has.                            *)
LEMMA Settle ==
  ASSUME IInv, TypeOK', UNCHANGED cdx, index' \in {index, writer}, writer' \in {index, writer},
         pc' \notin InWork
  PROVE  IInv'
BY DEF IInv, Single, Captured

(* index_one_pdf up to the text: the row comes before the deletion, and    *)
(* both before the object is worked on.                                    *)
LEMMA FetchKeeps == IInv /\ TypeOK' /\ Fetch => IInv'
<1> SUFFICES ASSUME IInv, TypeOK', Fetch PROVE IInv'
  OBVIOUS
<1>c. cur \in Objs /\ listing[cur] # 0 /\ index \subseteq Docs /\ writer \subseteq Docs
  BY CollAssumption DEF IInv, TypeOK, Fetch
<1>1. UNCHANGED index /\ Single(index)
  BY DEF Fetch, IInv
<1>2. CASE upsert(Row(obj[cur])) /\ delete_s3_key
            /\ (UNCHANGED <<i, cur, listing>> \/ pc' \notin InWork)
  <2>1. writer' \subseteq writer /\ \A d \in writer' : d.obj # cur
    BY <1>2 DEF delete_s3_key
  <2>2. Captured(cdx', index) /\ Captured(cdx', writer)
    BY <1>2, <1>c, UpsertKeeps DEF IInv
  <2>3. Captured(cdx', writer') /\ Single(writer')
    BY <2>1, <2>2 DEF Captured, Single, IInv
  <2>4. \E r \in cdx' : r.coll = i /\ r.obj = cur /\ r.stamp = listing[cur]
    BY <1>2, UpsertKeeps DEF Row
  <2>5. pc' \in InWork => Working'
    BY <1>2, <2>1, <2>4 DEF Working
  <2>6. QED
    BY <1>1, <2>2, <2>3, <2>5 DEF IInv, Single, Captured
<1>3. CASE (upsert(Row(obj[cur])) \/ UNCHANGED cdx) /\ UNCHANGED writer /\ Leave(cur)
  <2>1. Captured(cdx', index) /\ Captured(cdx', writer)
    BY <1>3, <1>c, UpsertKeeps DEF IInv
  <2>2. pc' \notin InWork
    BY <1>3 DEF Leave, Drop, InWork
  <2>3. QED
    BY <1>1, <1>3, <2>1, <2>2 DEF IInv, Single, Captured
<1>4. QED
  <2>1. Done(cur) => pc' \notin InWork
    BY DEF Done, Drop, InWork
  <2>2. UNCHANGED i
    BY DEF Fetch
  <2>3. QED
    BY <1>2, <1>3, <2>1, <2>2 DEF Fetch

(* The new document has its row, and is the only one of its object. *)
LEMMA AddKeeps == IInv /\ TypeOK' /\ AddDocument => IInv'
<1> SUFFICES ASSUME IInv, TypeOK', AddDocument PROVE IInv'
  OBVIOUS
<1>1. Working /\ Single(writer) /\ Captured(cdx, writer)
  BY DEF IInv, AddDocument, InWork
<1>2. UNCHANGED <<cdx, index>> /\ pc' \notin InWork
  BY DEF AddDocument, Done, Leave, Drop, InWork, stores
<1>3. CASE UNCHANGED writer
  BY <1>2, <1>3, Quiet
<1>4. CASE writer' = writer \cup {Row(text)}
  <2>1. Row(text).coll = i /\ Row(text).obj = cur /\ Row(text).stamp = listing[cur]
    BY DEF Row
  <2>2. Single(writer')
    BY <1>1, <1>4, <2>1 DEF Single, Working
  <2>3. Captured(cdx, writer')
    BY <1>1, <1>4, <2>1 DEF Captured, Working
  <2>4. QED
    BY <1>2, <2>2, <2>3 DEF IInv, Single, Captured
<1>5. QED
  BY <1>3, <1>4 DEF AddDocument

(* No step breaks the invariant. *)
LEMMA InvStep == IInv /\ [Next]_vars => IInv'
<1> SUFFICES ASSUME IInv, [Next]_vars PROVE IInv'
  OBVIOUS
<1>t. TypeOK'
  BY TypeStep DEF IInv
<1>1. ASSUME NEW o \in Objs, Replace(o) PROVE IInv'
  <2>1. UNCHANGED <<cdx, index, writer, pc, i, cur, listing>>
    BY <1>1 DEF Replace, stores, run
  <2>2. QED
    BY <2>1, <1>t, Quiet
<1>2. CASE StartRun
  BY <1>2, <1>t, Settle DEF StartRun, InWork
<1>3. CASE BeginCollection
  BY <1>3, <1>t, Quiet DEF BeginCollection, InWork, stores
<1>4. ASSUME NEW o \in Objs, NextObject(o) PROVE IInv'
  <2>1. pc' \notin InWork /\ UNCHANGED <<cdx, index, writer>>
    BY <1>4 DEF NextObject, Leave, Done, Drop, InWork, stores
  <2>2. QED
    BY <2>1, <1>t, Quiet
<1>5. CASE Fetch
  BY <1>5, <1>t, FetchKeeps
<1>6. CASE ReadSidecar
  BY <1>6, <1>t, Quiet DEF ReadSidecar, InWork, stores
<1>7. CASE Extract
  <2>1. UNCHANGED <<cdx, index, writer, i>> /\ pc \in InWork
    BY <1>7 DEF Extract, InWork, stores
  <2>2. UNCHANGED <<cur, listing>> \/ pc' \notin InWork
    BY <1>7 DEF Extract, Leave, Done, Drop, InWork
  <2>3. QED
    BY <2>1, <2>2, <1>t, Quiet
<1>8. CASE StoreText
  BY <1>8, <1>t, Quiet DEF StoreText, InWork
<1>9. CASE AddDocument
  BY <1>9, <1>t, AddKeeps
<1>10. CASE CommitCollection
  BY <1>10, <1>t, Settle DEF CommitCollection, commit, Uncommitted, InWork
<1>11. CASE SaveState
  BY <1>11, <1>t, Quiet DEF SaveState, InWork
<1>12. CASE FinalCommit
  BY <1>12, <1>t, Settle DEF FinalCommit, commit, Uncommitted, InWork
<1>13. CASE Crash
  BY <1>13, <1>t, Settle DEF Crash, InWork, stores
<1>14. CASE UNCHANGED vars
  <2>1. UNCHANGED <<cdx, index, writer, pc, i, cur, listing>>
    BY <1>14 DEF vars, stores, run
  <2>2. QED
    BY <2>1, <1>t, Quiet
<1>15. QED
  BY <1>1, <1>2, <1>3, <1>4, <1>5, <1>6, <1>7, <1>8, <1>9, <1>10, <1>11, <1>12, <1>13, <1>14
  DEF Next, Step

(* No search of the collections finds an object twice, and every document  *)
(* found has its CDX row: over all reruns, failures, crashes and commits   *)
(* that fail, for objects that several collections cover and for buckets   *)
(* that share keys.                                                        *)
THEOREM FoundOnce == Spec => []OneDocument
<1>1. Init => IInv
  BY TypeInit DEF IInv, Init, Single, Captured, InWork
<1>2. IInv => OneDocument
  BY DEF IInv, OneDocument, Single, Captured
<1>3. QED
  BY <1>1, <1>2, InvStep, PTL DEF Spec

-----------------------------------------------------------------------------
(* SeenIsDone needs a fulltext index whose commits do not fail, and        *)
(* buckets that do not share keys: one list state and one deletion by key  *)
(* serve all collections.                                                  *)
Apart ==
  /\ ~CommitFails
  /\ \A o, p \in Objs : Key[o] = Key[p] => o = p

(* What a list state says is done, is done when the documents are D. *)
DoneIn(D, o, v) ==
  \E c \in CollNos : /\ Covers(c, o)
                     /\ \/ NoDocument(c, o, v)
                        \/ \E d \in D : d.coll = c /\ d.obj = o /\ d.body = v
Claimed(T, D) == \A o \in Objs : T[Key[o]] = obj[o] => DoneIn(D, o, obj[o])

(* Nothing is seen before it was uploaded, the file is never ahead of the  *)
(* run's list state, and a sidecar's text is no older than its ETag.       *)
Ordered(o) ==
  /\ disk[Key[o]] <= obj[o] /\ mem[Key[o]] <= obj[o] /\ listing[o] <= obj[o]
  /\ sidecar[o] # None => sidecar[o].etag <= sidecar[o].of /\ sidecar[o].of <= obj[o]
  /\ pc # "idle" => disk[Key[o]] <= mem[Key[o]]

(* What is still to do is newer than what was seen of it, and of the       *)
(* present collection.                                                     *)
Listed(o) ==
  listing[o] # 0 => mem[Key[o]] < listing[o] /\ Colls[i].usable /\ o \in Colls[i].under

(* Between collections all documents are committed. *)
Resting == pc \in {"idle", "collection", "save", "final"} => listing = Nothing /\ writer = index

(* The object at hand belongs to the collection; what was read of it, and  *)
(* its text, are no older than the listing.                                *)
AtHand ==
  /\ pc \in InWork \cup {"get"} =>
       cur \in Colls[i].mine /\ cur \in Pdf /\ <<i, cur>> \notin Blacklisted
  /\ pc \in InWork => Colls[i].tika /\ listing[cur] <= body /\ body <= obj[cur]
  /\ pc \in {"store", "add"} => listing[cur] <= text /\ text <= obj[cur]

SInv ==
  /\ TypeOK
  /\ \A o \in Objs : Ordered(o) /\ Listed(o)
  /\ Resting /\ AtHand
  /\ Claimed(disk, index)
  /\ pc # "idle" => Claimed(mem, writer)

(* Versions and list states are compared as numbers. *)
LEMMA Numbers ==
  ASSUME TypeOK, NEW o \in Objs
  PROVE  /\ obj[o] \in Nat /\ obj[o] # 0 /\ Key[o] \in Keys
         /\ mem[Key[o]] \in Nat /\ disk[Key[o]] \in Nat /\ listing[o] \in Nat
<1>1. Versions \subseteq Nat \ {0} /\ Tags \subseteq Nat
  BY CollAssumption DEF Versions, Tags
<1>2. QED
  BY <1>1, CollAssumption DEF TypeOK

(* A document more takes nothing from what is done. *)
LEMMA DoneGrows ==
  ASSUME NEW D, NEW E, D \subseteq E, NEW o, NEW v, DoneIn(D, o, v)
  PROVE  DoneIn(E, o, v)
BY DEF DoneIn

(* Taking an object off the listing, marked or not, keeps list states,     *)
(* listing and sidecars in order.                                          *)
LEMMA DropOrdered ==
  ASSUME Apart, SInv, TypeOK', pc # "idle", NEW o \in Objs, listing[o] # 0, Done(o) \/ Leave(o),
         UNCHANGED <<obj, sidecar, disk, i>>
  PROVE  /\ \A p \in Objs : Ordered(p)' /\ Listed(p)'
         /\ AtHand' /\ Resting'
<1>1. /\ listing'[o] = 0 /\ pc' = "object"
      /\ \A p \in Objs \ {o} : listing'[p] = listing[p] /\ mem'[Key[p]] = mem[Key[p]]
      /\ mem'[Key[o]] \in {mem[Key[o]], listing[o]}
  <2>1. listing'[o] = 0 /\ pc' = "object" /\ \A p \in Objs \ {o} : listing'[p] = listing[p]
    BY DEF Done, Leave, Drop, SInv, TypeOK
  <2>2. \A p \in Objs \ {o} : Key[p] # Key[o]
    BY DEF Apart
  <2>3. CASE mark_seen(o)
    BY <2>1, <2>2, <2>3, Numbers DEF mark_seen, SInv, TypeOK
  <2>4. CASE UNCHANGED mem
    BY <2>1, <2>4
  <2>5. QED
    BY <2>3, <2>4 DEF Done, Leave
<1>2. ASSUME NEW p \in Objs PROVE Ordered(p)' /\ Listed(p)'
  <2>1. Ordered(p) /\ Listed(p) /\ mem[Key[p]] <= obj[p] /\ TypeOK
    BY DEF SInv, Ordered
  <2>2. mem'[Key[p]] <= obj[p] /\ mem[Key[p]] <= mem'[Key[p]] /\ listing'[p] <= obj[p]
    BY <1>1, <2>1, Numbers DEF Ordered, Listed
  <2>3. Ordered(p)'
    <3>1. mem'[Key[p]] \in Nat
      BY <1>1, <2>1, Numbers
    <3>2. QED
      BY <2>1, <2>2, <3>1, Numbers DEF Ordered
  <2>4. Listed(p)'
    BY <1>1, <2>1 DEF Listed
  <2>5. QED
    BY <2>3, <2>4
<1>3. AtHand' /\ Resting'
  BY <1>1 DEF AtHand, Resting, InWork
<1>4. QED
  BY <1>2, <1>3

(* An object may be marked when the version of the listing is done. *)
LEMMA MarkClaims ==
  ASSUME Apart, SInv, pc # "idle", NEW o \in Objs, listing[o] # 0, Done(o), UNCHANGED obj,
         \A p \in Objs \ {o} : DoneIn(writer, p, obj[p]) => DoneIn(writer', p, obj[p]),
         listing[o] = obj[o] => DoneIn(writer', o, obj[o])
  PROVE  Claimed(mem, writer)'
<1>1. mem'[Key[o]] = listing[o] /\ \A p \in Objs \ {o} : mem'[Key[p]] = mem[Key[p]]
  BY Numbers DEF Done, mark_seen, Apart, SInv, TypeOK
<1>2. ASSUME NEW p \in Objs, mem'[Key[p]] = obj[p] PROVE DoneIn(writer', p, obj[p])
  <2>1. CASE p = o
    BY <1>1, <1>2, <2>1
  <2>2. CASE p # o
    BY <1>1, <1>2, <2>2 DEF SInv, Claimed
  <2>3. QED
    BY <2>1, <2>2
<1>3. QED
  BY <1>2 DEF Claimed

(* What is left out of the next run is none of the claims' business. *)
LEMMA LeaveClaims ==
  ASSUME SInv, pc # "idle", UNCHANGED <<obj, mem>>,
         \A p \in Objs : mem[Key[p]] = obj[p] /\ DoneIn(writer, p, obj[p]) => DoneIn(writer', p, obj[p])
  PROVE  Claimed(mem, writer)'
BY DEF SInv, Claimed

(* A new version of an object is neither seen nor listed yet. *)
LEMMA ReplaceKeeps ==
  ASSUME SInv, TypeOK', NEW o \in Objs, Replace(o)
  PROVE  SInv'
<1>1. /\ UNCHANGED <<sidecar, disk, index, mem, writer, pc, i, listing, cur, body, text>>
      /\ obj'[o] = obj[o] + 1
      /\ \A p \in Objs \ {o} : obj'[p] = obj[p]
  BY DEF Replace, stores, run, SInv, TypeOK
<1>t. TypeOK
  BY DEF SInv
<1>2. ASSUME NEW p \in Objs
      PROVE  obj[p] <= obj'[p] /\ obj[p] \in Nat /\ obj'[p] \in Nat
  BY <1>1, <1>t, Numbers
<1>3. ASSUME NEW p \in Objs PROVE Ordered(p)' /\ Listed(p)'
  <2>1. sidecar[p] # None => sidecar[p].of \in Nat
    BY <1>t, CollAssumption DEF TypeOK, Versions
  <2>2. Ordered(p)'
    BY <1>1, <1>2, <1>t, <2>1, Numbers DEF SInv, Ordered
  <2>3. Listed(p)'
    BY <1>1 DEF SInv, Listed
  <2>4. QED
    BY <2>2, <2>3
<1>4. Resting' /\ AtHand'
  <2>1. Resting'
    BY <1>1 DEF SInv, Resting
  <2>2. pc \in InWork => cur \in Objs /\ body \in Nat /\ text \in Nat
    BY <1>t, CollAssumption DEF TypeOK, InWork, Versions
  <2>3. AtHand'
    BY <1>1, <1>2, <2>2 DEF SInv, AtHand, InWork
  <2>4. QED
    BY <2>1, <2>3
<1>5. ASSUME NEW p \in Objs, NEW T, NEW D, T[Key[p]] \in Nat, T[Key[p]] <= obj[p],
             T[Key[p]] = obj[p] => DoneIn(D, p, obj[p]), T[Key[p]] = obj'[p]
      PROVE  DoneIn(D, p, obj'[p])
  <2>1. p # o
    BY <1>1, <1>2, <1>5
  <2>2. QED
    BY <1>1, <1>5, <2>1
<1>6. Claimed(disk, index)'
  BY <1>1, <1>5, <1>t, Numbers DEF SInv, Ordered, Claimed
<1>7. pc' # "idle" => Claimed(mem, writer)'
  BY <1>1, <1>5, <1>t, Numbers DEF SInv, Ordered, Claimed
<1>8. QED
  BY <1>3, <1>4, <1>6, <1>7 DEF SInv

(* The loop skips an object: it is none for this collection, or none at    *)
(* all.                                                                    *)
LEMMA NextKeeps ==
  ASSUME Apart, SInv, TypeOK', NEW o \in Objs, NextObject(o)
  PROVE  SInv'
<1>1. pc = "object" /\ listing[o] # 0 /\ TypeOK
      /\ UNCHANGED <<obj, sidecar, disk, index, writer, i, body, text>>
  BY DEF NextObject, stores, SInv
<1>2. Claimed(disk, index)'
  BY <1>1 DEF SInv, Claimed
<1>3. CASE Leave(o)
  <2>1. Claimed(mem, writer)'
    BY <1>1, <1>3, LeaveClaims DEF Leave
  <2>2. QED
    BY <1>1, <1>2, <1>3, <2>1, DropOrdered DEF SInv
<1>4. CASE Done(o) /\ o \in Colls[i].mine /\ (o \notin Pdf \/ <<i, o>> \in Blacklisted)
  <2>1. i \in CollNos /\ Covers(i, o) /\ NoDocument(i, o, obj[o])
    BY <1>1, <1>4 DEF SInv, Listed, Covers, NoDocument, TypeOK
  <2>2. DoneIn(writer', o, obj[o])
    BY <2>1 DEF DoneIn
  <2>3. Claimed(mem, writer)'
    BY <1>1, <1>4, <2>2, MarkClaims
  <2>4. QED
    BY <1>1, <1>2, <1>4, <2>3, DropOrdered DEF SInv
<1>5. CASE /\ cur' = o /\ pc' = "get" /\ UNCHANGED <<listing, mem>>
           /\ o \in Colls[i].mine /\ o \in Pdf /\ <<i, o>> \notin Blacklisted
  <2>1. \A p \in Objs : Ordered(p)' /\ Listed(p)'
    BY <1>1, <1>5 DEF SInv, Ordered, Listed
  <2>2. AtHand' /\ Resting'
    BY <1>1, <1>5 DEF AtHand, Resting, InWork
  <2>3. Claimed(mem, writer)'
    BY <1>1, <1>5 DEF SInv, Claimed
  <2>4. QED
    BY <1>2, <2>1, <2>2, <2>3 DEF SInv
<1>6. QED
  BY <1>3, <1>4, <1>5 DEF NextObject

(* The deletion by key takes only the document of the object at hand, of   *)
(* which the list state has an older version.                              *)
LEMMA FetchClaims ==
  ASSUME Apart, SInv, TypeOK', Fetch
  PROVE  SInv'
<1>1. pc = "get" /\ cur \in Objs /\ listing[cur] # 0 /\ i \in CollNos /\ TypeOK
  BY CollAssumption DEF Fetch, SInv, TypeOK
<1>2. UNCHANGED <<obj, sidecar, disk, index, i, text>>
  BY DEF Fetch
<1>3. mem[Key[cur]] < listing[cur] /\ listing[cur] <= obj[cur]
  BY <1>1 DEF SInv, Listed, Ordered
<1>4. mem[Key[cur]] # obj[cur]
  BY <1>1, <1>3, Numbers
<1>5. Claimed(disk, index)'
  BY <1>2 DEF SInv, Claimed
<1>6. CASE UNCHANGED writer /\ Leave(cur)
  <2>1. Claimed(mem, writer)'
    BY <1>1, <1>2, <1>6, LeaveClaims DEF Leave
  <2>2. QED
    BY <1>1, <1>2, <1>5, <1>6, <2>1, DropOrdered DEF SInv
<1>7. CASE /\ delete_s3_key /\ body' = obj[cur]
           /\ \/ Done(cur) /\ ~Colls[i].tika
              \/ /\ pc' \in {"sidecar", "extract"} /\ Colls[i].tika
                 /\ UNCHANGED <<mem, listing, cur>>
  <2>1. ASSUME NEW p \in Objs \ {cur}, DoneIn(writer, p, obj[p]) PROVE DoneIn(writer', p, obj[p])
    <3>1. \A d \in writer : d.obj = p => d \in writer'
      BY <1>1, <1>7 DEF delete_s3_key, Apart
    <3>2. QED
      BY <2>1, <3>1 DEF DoneIn
  <2>2. CASE Done(cur) /\ ~Colls[i].tika
    <3>1. Covers(i, cur) /\ NoDocument(i, cur, obj[cur])
      BY <1>1, <2>2 DEF SInv, AtHand, Listed, Covers, NoDocument
    <3>2. DoneIn(writer', cur, obj[cur])
      BY <1>1, <3>1 DEF DoneIn
    <3>3. Claimed(mem, writer)'
      BY <1>1, <1>2, <2>1, <2>2, <3>2, MarkClaims
    <3>4. QED
      BY <1>1, <1>2, <1>5, <2>2, <3>3, DropOrdered DEF SInv
  <2>3. CASE pc' \in {"sidecar", "extract"} /\ Colls[i].tika /\ UNCHANGED <<mem, listing, cur>>
    <3>1. Claimed(mem, writer)'
      BY <1>1, <1>2, <1>4, <2>1, <2>3, LeaveClaims
    <3>2. \A p \in Objs : Ordered(p)' /\ Listed(p)'
      BY <1>1, <1>2, <2>3 DEF SInv, Ordered, Listed
    <3>3. AtHand' /\ Resting'
      BY <1>1, <1>2, <1>3, <1>7, <2>3, Numbers DEF SInv, AtHand, Resting, InWork
    <3>4. QED
      BY <1>5, <3>1, <3>2, <3>3 DEF SInv
  <2>4. QED
    BY <1>7, <2>2, <2>3
<1>8. QED
  BY <1>6, <1>7 DEF Fetch

(* A step that changes nothing but the text in hand, its sidecar and what  *)
(* is next.                                                                *)
LEMMA TextStep ==
  ASSUME SInv, TypeOK', pc # "idle", pc' # "idle",
         UNCHANGED <<obj, disk, index, mem, writer, i, listing, cur, body>>,
         \A o \in Objs : sidecar'[o] # None
           => sidecar'[o].etag <= sidecar'[o].of /\ sidecar'[o].of <= obj[o],
         AtHand', Resting'
  PROVE  SInv'
<1>1. \A p \in Objs : Ordered(p)' /\ Listed(p)'
  BY DEF SInv, Ordered, Listed
<1>2. Claimed(disk, index)' /\ Claimed(mem, writer)'
  BY DEF SInv, Claimed
<1>3. QED
  BY <1>1, <1>2 DEF SInv

(* The text of a sidecar of the listed ETag is no older than the listing.  *)
LEMMA SidecarKeeps ==
  ASSUME SInv, TypeOK', ReadSidecar
  PROVE  SInv'
<1>1. pc = "sidecar" /\ cur \in Objs /\ TypeOK
      /\ UNCHANGED <<obj, disk, sidecar, index, mem, writer, i, listing, cur, body>>
  BY CollAssumption DEF ReadSidecar, SInv, TypeOK, stores
<1>2. CASE Matches /\ text' = sidecar[cur].of /\ pc' = "add"
  <2>1. listing[cur] <= text' /\ text' <= obj[cur]
    BY <1>1, <1>2 DEF Matches, SInv, Ordered
  <2>2. AtHand' /\ Resting'
    BY <1>1, <1>2, <2>1 DEF SInv, AtHand, Resting, InWork
  <2>3. QED
    BY <1>1, <1>2, <2>2, TextStep DEF SInv, Ordered
<1>3. CASE pc' = "extract" /\ UNCHANGED text
  <2>1. AtHand' /\ Resting'
    BY <1>1, <1>3 DEF SInv, AtHand, Resting, InWork
  <2>2. QED
    BY <1>1, <1>3, <2>1, TextStep DEF SInv, Ordered
<1>4. QED
  BY <1>2, <1>3 DEF ReadSidecar

(* Nor is that of the bytes read, and a file without text is done with.    *)
LEMMA ExtractKeeps ==
  ASSUME Apart, SInv, TypeOK', Extract
  PROVE  SInv'
<1>1. pc = "extract" /\ cur \in Objs /\ listing[cur] # 0 /\ i \in CollNos /\ TypeOK
      /\ UNCHANGED <<obj, disk, sidecar, index, writer, i, body>>
  BY CollAssumption DEF Extract, SInv, TypeOK, stores
<1>2. /\ listing[cur] <= body /\ body <= obj[cur]
      /\ listing[cur] \in Nat /\ body \in Nat /\ obj[cur] \in Nat
  BY <1>1, Numbers, CollAssumption DEF SInv, AtHand, InWork, TypeOK, Versions
<1>c. Claimed(disk, index)'
  BY <1>1 DEF SInv, Claimed
<1>3. CASE text' = body /\ pc' \in {"store", "add"} /\ UNCHANGED <<mem, listing, cur>>
  <2>1. AtHand' /\ Resting'
    BY <1>1, <1>2, <1>3 DEF SInv, AtHand, Resting, InWork
  <2>2. QED
    BY <1>1, <1>3, <2>1, TextStep DEF SInv, Ordered
<1>4. CASE ~HasText(i, cur, body) /\ Done(cur)
  <2>1. listing[cur] = obj[cur] => NoDocument(i, cur, obj[cur])
    BY <1>2, <1>4 DEF NoDocument
  <2>2. Covers(i, cur)
    BY <1>1 DEF SInv, AtHand, InWork, Listed, Covers
  <2>3. listing[cur] = obj[cur] => DoneIn(writer', cur, obj[cur])
    BY <1>1, <2>1, <2>2 DEF DoneIn
  <2>4. Claimed(mem, writer)'
    BY <1>1, <1>4, <2>3, MarkClaims
  <2>5. QED
    BY <1>1, <1>4, <1>c, <2>4, DropOrdered DEF SInv
<1>5. CASE Leave(cur)
  <2>1. Claimed(mem, writer)'
    BY <1>1, <1>5, LeaveClaims DEF Leave
  <2>2. QED
    BY <1>1, <1>5, <1>c, <2>1, DropOrdered DEF SInv
<1>6. QED
  BY <1>3, <1>4, <1>5 DEF Extract

(* The sidecar written is no older than the ETag it names. *)
LEMMA StoreKeeps ==
  ASSUME SInv, TypeOK', StoreText
  PROVE  SInv'
<1>1. pc = "store" /\ pc' = "add" /\ cur \in Objs /\ TypeOK
      /\ UNCHANGED <<obj, disk, index, mem, writer, i, listing, cur, body, text>>
  BY CollAssumption DEF StoreText, SInv, TypeOK
<1>2. listing[cur] <= text /\ text <= obj[cur]
  BY <1>1 DEF SInv, AtHand
<1>3. ASSUME NEW o \in Objs, sidecar'[o] # None
      PROVE  sidecar'[o].etag <= sidecar'[o].of /\ sidecar'[o].of <= obj[o]
  <2>1. CASE sidecar' = [sidecar EXCEPT ![cur] = [etag |-> listing[cur], of |-> text]] /\ o = cur
    <3>1. sidecar'[o] = [etag |-> listing[cur], of |-> text]
      BY <1>1, <2>1 DEF TypeOK
    <3>2. QED
      BY <1>2, <2>1, <3>1
  <2>2. CASE sidecar'[o] = sidecar[o]
    BY <1>3, <2>2 DEF SInv, Ordered
  <2>3. QED
    BY <1>1, <2>1, <2>2 DEF StoreText, TypeOK
<1>4. AtHand' /\ Resting'
  BY <1>1 DEF SInv, AtHand, Resting, InWork
<1>5. QED
  BY <1>1, <1>3, <1>4, TextStep

(* The new document has the text of the version listed, if that is still   *)
(* the object's.                                                           *)
LEMMA AddClaims ==
  ASSUME Apart, SInv, TypeOK', AddDocument
  PROVE  SInv'
<1>1. pc = "add" /\ cur \in Objs /\ listing[cur] # 0 /\ i \in CollNos /\ TypeOK
      /\ UNCHANGED <<obj, disk, sidecar, index, i, body, text>>
  BY CollAssumption DEF AddDocument, SInv, TypeOK, stores
<1>2. /\ listing[cur] <= text /\ text <= obj[cur]
      /\ listing[cur] \in Nat /\ text \in Nat /\ obj[cur] \in Nat
  BY <1>1, Numbers, CollAssumption DEF SInv, AtHand, TypeOK, Versions
<1>3. Covers(i, cur)
  BY <1>1 DEF SInv, AtHand, InWork, Listed, Covers
<1>c. Claimed(disk, index)'
  BY <1>1 DEF SInv, Claimed
<1>4. CASE Done(cur) /\ writer \subseteq writer'
            /\ (Text[cur][text] = "noise" \/ Row(text) \in writer')
  <2>1. listing[cur] = obj[cur] => DoneIn(writer', cur, obj[cur])
    <3>1. CASE Text[cur][text] = "noise"
      BY <1>1, <1>2, <1>3, <3>1 DEF DoneIn, NoDocument
    <3>2. CASE Row(text) \in writer'
      BY <1>1, <1>2, <1>3, <3>2 DEF DoneIn, Row
    <3>3. QED
      BY <1>4, <3>1, <3>2
  <2>2. Claimed(mem, writer)'
    BY <1>1, <1>4, <2>1, DoneGrows, MarkClaims
  <2>3. QED
    BY <1>1, <1>4, <1>c, <2>2, DropOrdered DEF SInv
<1>5. CASE Leave(cur) /\ UNCHANGED writer
  <2>1. Claimed(mem, writer)'
    BY <1>1, <1>5, LeaveClaims DEF Leave
  <2>2. QED
    BY <1>1, <1>5, <1>c, <2>1, DropOrdered DEF SInv
<1>6. QED
  BY <1>4, <1>5 DEF AddDocument

(* No step breaks the invariant of SeenIsDone. *)
LEMMA SeenStep == Apart /\ SInv /\ [Next]_vars => SInv'
<1> SUFFICES ASSUME Apart, SInv, [Next]_vars PROVE SInv'
  OBVIOUS
<1>t. TypeOK /\ TypeOK'
  BY TypeStep DEF SInv
<1>1. ASSUME NEW o \in Objs, Replace(o) PROVE SInv'
  BY <1>1, <1>t, ReplaceKeeps
<1>2. CASE StartRun
  <2>1. /\ pc = "idle" /\ pc' = "collection" /\ writer' = index /\ mem' = disk'
        /\ UNCHANGED <<obj, sidecar, index, listing>>
        /\ disk' = disk \/ disk' = NoTags
    BY <1>2 DEF StartRun
  <2>2. listing = Nothing
    BY <2>1 DEF SInv, Resting
  <2>3. \A o \in Objs : disk'[Key[o]] = disk[Key[o]] \/ disk'[Key[o]] = 0
    BY <2>1, <1>t, Numbers DEF NoTags
  <2>4. ASSUME NEW o \in Objs PROVE Ordered(o)' /\ Listed(o)'
    <3>1. disk'[Key[o]] \in Nat /\ disk'[Key[o]] <= obj[o]
      BY <2>3, <1>t, Numbers DEF SInv, Ordered
    <3>2. Ordered(o)'
      BY <2>1, <3>1 DEF SInv, Ordered
    <3>3. Listed(o)'
      BY <2>1, <2>2 DEF Listed, Nothing
    <3>4. QED
      BY <3>2, <3>3
  <2>5. Claimed(disk, index)' /\ Claimed(mem, writer)'
    BY <2>1, <2>3, <1>t, Numbers DEF SInv, Claimed
  <2>6. Resting' /\ AtHand'
    BY <2>1, <2>2 DEF Resting, AtHand, InWork
  <2>7. QED
    BY <2>4, <2>5, <2>6, <1>t DEF SInv
<1>3. CASE BeginCollection
  <2>1. pc = "collection" /\ UNCHANGED <<obj, sidecar, disk, index, mem, writer, i>>
    BY <1>3 DEF BeginCollection, stores
  <2>2. listing = Nothing /\ writer = index
    BY <2>1 DEF SInv, Resting
  <2>3. Claimed(disk, index)' /\ Claimed(mem, writer)'
    BY <2>1 DEF SInv, Claimed
  <2>4. CASE Colls[i].usable /\ listing' = list_new_or_changed /\ pc' = "object"
    <3>1. ASSUME NEW o \in Objs PROVE Ordered(o)' /\ Listed(o)'
      <4>1. listing'[o] = IF o \in Colls[i].under /\ mem[Key[o]] # obj[o] THEN obj[o] ELSE 0
        BY <2>4 DEF list_new_or_changed, is_unchanged
      <4>2. Ordered(o)'
        BY <2>1, <2>4, <4>1, <1>t, Numbers DEF SInv, Ordered
      <4>3. Listed(o)'
        BY <2>1, <2>4, <4>1, <1>t, Numbers DEF SInv, Ordered, Listed
      <4>4. QED
        BY <4>2, <4>3
    <3>2. Resting' /\ AtHand'
      BY <2>4 DEF Resting, AtHand, InWork
    <3>3. QED
      BY <2>3, <3>1, <3>2, <1>t DEF SInv
  <2>5. CASE pc' = "save" /\ UNCHANGED listing
    <3>1. \A o \in Objs : Ordered(o)' /\ Listed(o)'
      BY <2>1, <2>5 DEF SInv, Ordered, Listed
    <3>2. Resting' /\ AtHand'
      BY <2>1, <2>2, <2>5 DEF Resting, AtHand, InWork
    <3>3. QED
      BY <2>3, <3>1, <3>2, <1>t DEF SInv
  <2>6. QED
    BY <1>3, <2>4, <2>5 DEF BeginCollection
<1>4. ASSUME NEW o \in Objs, NextObject(o) PROVE SInv'
  BY <1>4, <1>t, NextKeeps
<1>5. CASE Fetch
  BY <1>5, <1>t, FetchClaims
<1>6. CASE ReadSidecar
  BY <1>6, <1>t, SidecarKeeps
<1>7. CASE Extract
  BY <1>7, <1>t, ExtractKeeps
<1>8. CASE StoreText
  BY <1>8, <1>t, StoreKeeps
<1>9. CASE AddDocument
  BY <1>9, <1>t, AddClaims
<1>10. CASE CommitCollection
  <2>1. /\ pc = "object" /\ pc' = "save" /\ listing = Nothing /\ index' = writer
        /\ UNCHANGED <<obj, sidecar, disk, mem, writer, i, listing>>
    BY <1>10 DEF CommitCollection, commit, Uncommitted, Apart
  <2>2. \A o \in Objs : Ordered(o)' /\ Listed(o)'
    BY <2>1 DEF SInv, Ordered, Listed
  <2>3. Claimed(mem, writer)'
    BY <2>1 DEF SInv, Claimed
  <2>4. Claimed(disk, index)'
    <3>1. ASSUME NEW o \in Objs, disk[Key[o]] = obj[o] PROVE mem[Key[o]] = obj[o]
      BY <2>1, <3>1, <1>t, Numbers DEF SInv, Ordered
    <3>2. QED
      BY <2>1, <3>1 DEF SInv, Claimed
  <2>5. Resting' /\ AtHand'
    BY <2>1 DEF Resting, AtHand, InWork
  <2>6. QED
    BY <2>2, <2>3, <2>4, <2>5, <1>t DEF SInv
<1>11. CASE SaveState
  <2>1. /\ pc = "save" /\ pc' \in {"collection", "final"} /\ disk' \in {disk, mem}
        /\ UNCHANGED <<obj, sidecar, index, mem, writer, listing>>
    BY <1>11 DEF SaveState
  <2>2. listing = Nothing /\ writer = index
    BY <2>1 DEF SInv, Resting
  <2>3. \A o \in Objs : Ordered(o)' /\ Listed(o)'
    BY <2>1, <2>2, <1>t, Numbers DEF SInv, Ordered, Listed, Nothing
  <2>4. Claimed(mem, writer)' /\ Claimed(disk, index)'
    BY <2>1, <2>2 DEF SInv, Claimed
  <2>5. Resting' /\ AtHand'
    BY <2>1, <2>2 DEF Resting, AtHand, InWork
  <2>6. QED
    BY <2>3, <2>4, <2>5, <1>t DEF SInv
<1>12. CASE FinalCommit
  <2>1. /\ pc = "final" /\ pc' = "idle" /\ index' = writer /\ writer' = writer
        /\ UNCHANGED <<obj, sidecar, disk, mem, i, listing>>
    BY <1>12 DEF FinalCommit, commit, Uncommitted, Apart
  <2>2. listing = Nothing /\ writer = index
    BY <2>1 DEF SInv, Resting
  <2>3. \A o \in Objs : Ordered(o)' /\ Listed(o)'
    BY <2>1 DEF SInv, Ordered, Listed
  <2>4. Claimed(disk, index)'
    BY <2>1, <2>2 DEF SInv, Claimed
  <2>5. Resting' /\ AtHand'
    BY <2>1, <2>2 DEF Resting, AtHand, InWork
  <2>6. QED
    BY <2>1, <2>3, <2>4, <2>5, <1>t DEF SInv
<1>13. CASE Crash
  <2>1. /\ pc' = "idle" /\ listing' = Nothing /\ writer' = index
        /\ UNCHANGED <<obj, sidecar, disk, index, mem, i>>
    BY <1>13 DEF Crash, stores
  <2>2. \A o \in Objs : Ordered(o)' /\ Listed(o)'
    BY <2>1, <1>t, Numbers DEF SInv, Ordered, Listed, Nothing
  <2>3. Claimed(disk, index)'
    BY <2>1 DEF SInv, Claimed
  <2>4. Resting' /\ AtHand'
    BY <2>1 DEF Resting, AtHand, InWork
  <2>5. QED
    BY <2>1, <2>2, <2>3, <2>4, <1>t DEF SInv
<1>14. CASE UNCHANGED vars
  <2>1. UNCHANGED <<obj, sidecar, disk, index, mem, writer, pc, i, listing, cur, body, text>>
    BY <1>14 DEF vars, stores, run
  <2>2. \A o \in Objs : Ordered(o)' /\ Listed(o)'
    BY <2>1 DEF SInv, Ordered, Listed
  <2>3. Resting' /\ AtHand'
    BY <2>1 DEF SInv, Resting, AtHand
  <2>4. Claimed(disk, index)' /\ (pc' # "idle" => Claimed(mem, writer)')
    BY <2>1 DEF SInv, Claimed
  <2>5. QED
    BY <2>2, <2>3, <2>4, <1>t DEF SInv
<1>15. QED
  BY <1>1, <1>2, <1>3, <1>4, <1>5, <1>6, <1>7, <1>8, <1>9, <1>10, <1>11, <1>12, <1>13, <1>14
  DEF Next, Step

(* Whatever fails or is killed - S3, Tika, a sidecar, the list state -     *)
(* and whoever uploads meanwhile: what the saved list state makes the next *)
(* run skip is committed or has nothing to be committed, if commits do not *)
(* fail and no two buckets share keys.                                     *)
THEOREM SeenOnlyWhenDone ==
  ASSUME Apart
  PROVE  Spec => []SeenIsDone
<1>1. Init => SInv
  <2> SUFFICES ASSUME Init PROVE SInv
    OBVIOUS
  <2>1. TypeOK
    BY TypeInit
  <2>2. pc = "idle" /\ listing = Nothing /\ writer = index
        /\ disk = NoTags /\ mem = NoTags /\ \A o \in Objs : obj[o] = 1 /\ sidecar[o] = None
    BY DEF Init
  <2>3. ASSUME NEW o \in Objs PROVE Ordered(o) /\ Listed(o) /\ disk[Key[o]] # obj[o]
    <3>1. Key[o] \in Keys
      BY <2>1, Numbers
    <3>2. disk[Key[o]] = 0 /\ mem[Key[o]] = 0 /\ listing[o] = 0
      BY <2>2, <3>1 DEF NoTags, Nothing
    <3>3. QED
      BY <2>2, <3>2 DEF Ordered, Listed
  <2>4. Resting /\ AtHand
    BY <2>2 DEF Resting, AtHand, InWork
  <2>5. QED
    BY <2>1, <2>2, <2>3, <2>4 DEF SInv, Claimed
<1>2. SInv => SeenIsDone
  BY DEF SInv, Claimed, DoneIn, SeenIsDone
<1>3. SInv /\ [Next]_vars => SInv'
  BY Apart, SeenStep
<1>4. QED
  BY <1>1, <1>2, <1>3, PTL DEF Spec

=============================================================================
