----------------------------- MODULE Collections -----------------------------
(***************************************************************************)
(* The collections phase of `tywb index`: index.rs goes through            *)
(* indexer.collections, pdf_collection.rs indexes the PDF objects of one   *)
(* bucket each.  An object passes through a listing, a GET, the CDX row,   *)
(* the deletion of its earlier document, the text - from the sidecar       *)
(* beside it or from Tika - and the new document; the list state is        *)
(* written after each collection.  Objects are overwritten meanwhile, S3,  *)
(* Tika and the file system fail, and the process may be killed.           *)
(*                                                                         *)
(* A version of an object is a number, and its ETag is that number.        *)
(***************************************************************************)
EXTENDS Naturals, Sequences, FiniteSets

CONSTANTS
  Objs,        \* objects of the collections' buckets
  Key,         \* Key[o]: the object's key, without its bucket
  Colls,       \* the configured collections, in order
  Pdf,         \* objects whose key ends in .pdf
  Blacklisted, \* pairs <<i, o>>: the URL of o in collection i is blacklisted
  Text,        \* Text[o][v]: what Tika makes of version v
  None,
  MaxVersion,  \* bound: versions of an object
  MaxFaults,   \* bound: failures and killed processes
  CommitFails  \* whether a commit of the fulltext index may fail

Versions == 1..MaxVersion
Tags == 0..MaxVersion        \* 0: never seen
Keys == {Key[o] : o \in Objs}
CollNos == 1..Len(Colls)

(* CollectionConfig: usable - kind, base URL and pattern are in order;     *)
(* under - objects below its prefix; mine - those the pattern matches;     *)
(* large - max_pdf_bytes lets large files pass.                            *)
Coll == [usable: BOOLEAN, under: SUBSET Objs, mine: SUBSET Objs,
         tika: BOOLEAN, large: BOOLEAN, store_text: BOOLEAN]

ASSUME CollAssumption ==
  /\ IsFiniteSet(Objs)
  /\ Key \in [Objs -> Keys]
  /\ Colls \in Seq(Coll) /\ Colls # <<>>
  /\ Pdf \subseteq Objs
  /\ Blacklisted \subseteq CollNos \X Objs
  /\ MaxVersion \in Nat \ {0}
  /\ Text \in [Objs -> [Versions -> {"text", "noise", "none", "large"}]]
  /\ None \notin Objs
  /\ MaxFaults \in Nat
  /\ CommitFails \in BOOLEAN

Docs == [coll: CollNos, obj: Objs, stamp: Versions, body: Versions]

VARIABLES
  obj,      \* obj[o]: the version in the bucket
  sidecar,  \* sidecar[o]: text kept beside o: the ETag it names, the version it is of
  disk,     \* the list state: disk[key] is the ETag seen
  cdx,      \* CDX rows, durable at once
  index,    \* committed documents
  mem,      \* the run's list state
  writer,   \* the documents as they will be when the writer commits
  pc,       \* where the run is
  i,        \* its collection
  listing,  \* listing[o]: ETag of an object still to do, or 0
  cur,      \* the object being indexed
  body,     \* the version read
  text,     \* the version the text in hand is of
  faults

stores == <<sidecar, disk, cdx, index>>
run == <<mem, writer, pc, i, listing, cur, body, text>>
vars == <<obj, stores, run, faults>>

Fault == faults < MaxFaults /\ faults' = faults + 1
NoFault == UNCHANGED faults

-----------------------------------------------------------------------------
NoTags == [k \in Keys |-> 0]
Nothing == [o \in Objs |-> 0]

Init ==
  /\ obj = [o \in Objs |-> 1]
  /\ sidecar = [o \in Objs |-> None]
  /\ disk = NoTags
  /\ cdx = {}
  /\ index = {}
  /\ mem = NoTags
  /\ writer = {}
  /\ pc = "idle"
  /\ i = 1
  /\ listing = Nothing
  /\ cur = None
  /\ body = 1
  /\ text = 1
  /\ faults = 0

(* Somebody uploads a new version. *)
Replace(o) ==
  /\ obj[o] < MaxVersion
  /\ obj' = [obj EXCEPT ![o] = @ + 1]
  /\ UNCHANGED <<stores, run, faults>>

(* run: the list state is loaded.  One that cannot be parsed counts as     *)
(* empty, and stays unusable until it is written again.                    *)
StartRun ==
  /\ pc = "idle"
  /\ \/ mem' = disk /\ NoFault /\ UNCHANGED disk
     \/ mem' = NoTags /\ disk' = NoTags /\ Fault
  /\ pc' = "collection"
  /\ i' = 1
  /\ writer' = index
  /\ UNCHANGED <<obj, sidecar, cdx, index, listing, cur, body, text>>

(* is_unchanged, list_new_or_changed *)
is_unchanged(o) == mem[Key[o]] = obj[o]
list_new_or_changed == [o \in Objs |-> IF o \in Colls[i].under /\ ~is_unchanged(o) THEN obj[o] ELSE 0]

(* index_pdf_collection up to its loop.  A collection that cannot be used  *)
(* is skipped, a listing that fails ends it; the state is saved all the    *)
(* same.                                                                   *)
BeginCollection ==
  /\ pc = "collection"
  /\ \/ /\ Colls[i].usable
        /\ listing' = list_new_or_changed
        /\ pc' = "object"
        /\ NoFault
     \/ /\ (~Colls[i].usable /\ NoFault) \/ Fault
        /\ pc' = "save"
        /\ UNCHANGED listing
  /\ UNCHANGED <<obj, stores, mem, writer, i, cur, body, text>>

(* The loop goes on to its next object. *)
mark_seen(o) == mem' = [mem EXCEPT ![Key[o]] = listing[o]]
Drop(o) == listing' = [listing EXCEPT ![o] = 0] /\ cur' = None /\ pc' = "object"
Done(o) == mark_seen(o) /\ Drop(o)
Leave(o) == Drop(o) /\ UNCHANGED mem

(* Mutant of NextObject: what the pattern leaves out is marked as well. *)
MarkAll(o) ==
  /\ pc = "object"
  /\ listing[o] # 0
  /\ IF o \notin Colls[i].mine \/ o \notin Pdf \/ <<i, o>> \in Blacklisted THEN Done(o)
     ELSE cur' = o /\ pc' = "get" /\ UNCHANGED <<listing, mem>>
  /\ UNCHANGED <<obj, stores, writer, i, body, text, faults>>

(* index_pdf_collection: what the pattern leaves out is left unseen for a  *)
(* later collection, what is no PDF or blacklisted is done.                *)
NextObject(o) ==
  /\ pc = "object"
  /\ listing[o] # 0
  /\ IF o \notin Colls[i].mine THEN Leave(o)
     ELSE IF o \notin Pdf \/ <<i, o>> \in Blacklisted THEN Done(o)
     ELSE cur' = o /\ pc' = "get" /\ UNCHANGED <<listing, mem>>
  /\ UNCHANGED <<obj, stores, writer, i, body, text, faults>>

(* CdxStore::upsert of the object's row: URL and timestamp are its key. *)
Row(v) == [coll |-> i, obj |-> cur, stamp |-> listing[cur], body |-> v]
upsert(r) == cdx' = {q \in cdx : <<q.coll, q.obj, q.stamp>> # <<r.coll, r.obj, r.stamp>>} \cup {r}

(* delete_s3_key: the documents of this key, whatever bucket they are of. *)
KeepOld == UNCHANGED writer   \* mutant of delete_s3_key
delete_s3_key == writer' = {d \in writer : Key[d.obj] # Key[cur]}

(* index_one_pdf: GET, CDX row, deletion of the earlier document. *)
Fetch ==
  /\ pc = "get"
  /\ \/ /\ NoFault
        /\ body' = obj[cur]
        /\ upsert(Row(obj[cur]))
        /\ delete_s3_key
        /\ IF Colls[i].tika
           THEN pc' = (IF Colls[i].store_text THEN "sidecar" ELSE "extract")
                /\ UNCHANGED <<mem, listing, cur>>
           ELSE Done(cur)
     \/ /\ Fault
        /\ upsert(Row(obj[cur])) \/ UNCHANGED cdx
        /\ Leave(cur)
        /\ UNCHANGED <<writer, body>>
  /\ UNCHANGED <<obj, sidecar, disk, index, i, text>>

(* read_text_sidecar, parse_text_sidecar: the text must be of this ETag,   *)
(* and every failure is a miss.                                            *)
Matches == IF sidecar[cur] = None THEN FALSE ELSE sidecar[cur].etag = listing[cur]
ReadSidecar ==
  /\ pc = "sidecar"
  /\ \/ /\ Matches
        /\ text' = sidecar[cur].of
        /\ pc' = "add"
        /\ NoFault
     \/ /\ (~Matches /\ NoFault) \/ Fault
        /\ pc' = "extract"
        /\ UNCHANGED text
  /\ UNCHANGED <<obj, stores, mem, writer, i, listing, cur, body>>

(* try_extract on the bytes read: what is of the file is final, a failing  *)
(* Tika leaves the object for the next run.                                *)
HasText(c, o, v) == Text[o][v] \in {"text", "noise"} \/ (Text[o][v] = "large" /\ Colls[c].large)

FailureIsFinal ==   \* mutant of Extract
  /\ pc = "extract"
  /\ \/ /\ HasText(i, cur, body)
        /\ text' = body
        /\ pc' = (IF Colls[i].store_text THEN "store" ELSE "add")
        /\ NoFault
        /\ UNCHANGED <<mem, listing, cur>>
     \/ ((~HasText(i, cur, body) /\ NoFault) \/ Fault) /\ Done(cur) /\ UNCHANGED text
  /\ UNCHANGED <<obj, stores, writer, i, body>>

Extract ==
  /\ pc = "extract"
  /\ \/ /\ HasText(i, cur, body)
        /\ text' = body
        /\ pc' = (IF Colls[i].store_text THEN "store" ELSE "add")
        /\ NoFault
        /\ UNCHANGED <<mem, listing, cur>>
     \/ ~HasText(i, cur, body) /\ NoFault /\ Done(cur) /\ UNCHANGED text
     \/ Fault /\ Leave(cur) /\ UNCHANGED text
  /\ UNCHANGED <<obj, stores, writer, i, body>>

(* write_text_sidecar, best effort: the text of what was read, under the   *)
(* ETag of the listing.                                                    *)
StoreText ==
  /\ pc = "store"
  /\ \/ sidecar' = [sidecar EXCEPT ![cur] = [etag |-> listing[cur], of |-> text]] /\ NoFault
     \/ Fault /\ UNCHANGED sidecar
  /\ pc' = "add"
  /\ UNCHANGED <<obj, disk, cdx, index, mem, writer, i, listing, cur, body, text>>

(* index_one_pdf: noise is no document. *)
AddDocument ==
  /\ pc = "add"
  /\ \/ /\ IF Text[cur][text] = "noise" THEN UNCHANGED writer
           ELSE writer' = writer \cup {Row(text)}
        /\ Done(cur)
        /\ NoFault
     \/ Text[cur][text] # "noise" /\ Fault /\ Leave(cur) /\ UNCHANGED writer
  /\ UNCHANGED <<obj, stores, i, body, text>>

(* SearchIndex::commit *)
commit == index' = writer /\ UNCHANGED faults
Uncommitted == CommitFails /\ Fault /\ UNCHANGED index

CommitCollection ==
  /\ pc = "object"
  /\ listing = Nothing
  /\ commit \/ Uncommitted
  /\ pc' = "save"
  /\ UNCHANGED <<obj, sidecar, disk, cdx, mem, writer, i, listing, cur, body, text>>

(* run: the list state is saved, however the collection has ended. *)
SaveState ==
  /\ pc = "save"
  /\ (disk' = mem /\ NoFault) \/ (Fault /\ UNCHANGED disk)
  /\ IF i < Len(Colls) THEN i' = i + 1 /\ pc' = "collection"
     ELSE pc' = "final" /\ UNCHANGED i
  /\ UNCHANGED <<obj, sidecar, cdx, index, mem, writer, listing, cur, body, text>>

(* run: the final commit.  What is not committed goes with the process. *)
FinalCommit ==
  /\ pc = "final"
  /\ commit \/ Uncommitted
  /\ writer' = index'
  /\ pc' = "idle"
  /\ UNCHANGED <<obj, sidecar, disk, cdx, mem, i, listing, cur, body, text>>

Crash ==
  /\ pc # "idle"
  /\ Fault
  /\ pc' = "idle"
  /\ writer' = index
  /\ listing' = Nothing
  /\ cur' = None
  /\ UNCHANGED <<obj, stores, mem, i, body, text>>

-----------------------------------------------------------------------------
Step ==
  \/ BeginCollection
  \/ \E o \in Objs : NextObject(o)
  \/ Fetch
  \/ ReadSidecar
  \/ Extract
  \/ StoreText
  \/ AddDocument
  \/ CommitCollection
  \/ SaveState
  \/ FinalCommit

Next ==
  \/ \E o \in Objs : Replace(o)
  \/ StartRun
  \/ Step
  \/ Crash

Spec == Init /\ [][Next]_vars

(* The indexer is started again and again, and a run that is not killed    *)
(* goes on: every request it makes ends.                                   *)
FairSpec == Spec /\ WF_vars(StartRun) /\ WF_vars(Step)

-----------------------------------------------------------------------------
(* Properties *)

TypeOK ==
  /\ obj \in [Objs -> Versions]
  /\ sidecar \in [Objs -> [etag: Versions, of: Versions] \cup {None}]
  /\ disk \in [Keys -> Tags]
  /\ cdx \subseteq Docs
  /\ index \subseteq Docs
  /\ mem \in [Keys -> Tags]
  /\ writer \subseteq Docs
  /\ pc \in {"idle", "collection", "object", "get", "sidecar", "extract", "store", "add",
             "save", "final"}
  /\ i \in CollNos
  /\ listing \in [Objs -> Tags]
  /\ cur \in Objs \cup {None}
  /\ body \in Versions
  /\ text \in Versions
  /\ faults \in 0..MaxFaults
  /\ pc \in {"get", "sidecar", "extract", "store", "add"} => cur # None /\ listing[cur] # 0

(* Whether collection c has nothing to index of version v of o. *)
Covers(c, o) == Colls[c].usable /\ o \in Colls[c].under \cap Colls[c].mine
NoDocument(c, o, v) ==
  \/ o \notin Pdf
  \/ <<c, o>> \in Blacklisted
  \/ ~Colls[c].tika
  \/ Text[o][v] = "noise"
  \/ ~HasText(c, o, v)

(* "mark_seen is therefore only written when the object really has been    *)
(* dealt with": when the saved list state would make the next run skip an  *)
(* object as it is now, its document is committed, or there is none to be  *)
(* had for a collection that covers it.                                    *)
SeenIsDone ==
  \A o \in Objs : disk[Key[o]] = obj[o] =>
    \E c \in CollNos : /\ Covers(c, o)
                 /\ \/ NoDocument(c, o, obj[o])
                    \/ \E d \in index : d.coll = c /\ d.obj = o /\ d.body = obj[o]

(* "Replace this object's fulltext document rather than adding a second    *)
(* one": no search finds an object twice, over all reruns, versions and    *)
(* collections that cover it, and what it finds has the CDX row replay     *)
(* needs.                                                                  *)
OneDocument ==
  /\ TypeOK
  /\ \A d, e \in index : d.obj = e.obj => d = e
  /\ \A d \in index : \E r \in cdx : r.coll = d.coll /\ r.obj = d.obj /\ r.stamp = d.stamp

(* Whatever fails on the way, a PDF some collection can index is in the    *)
(* end searchable with the text it has in the end.                         *)
EventuallySearchable ==
  \A o \in Objs :
    (\E c \in CollNos : Covers(c, o))
      => <>[]( (\A c \in CollNos : Covers(c, o) => ~NoDocument(c, o, obj[o]))
                 => \E d \in index : d.obj = o /\ d.body = obj[o])
=============================================================================
