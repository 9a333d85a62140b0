----------------------------- MODULE ServeProofs -----------------------------
(***************************************************************************)
(* Proofs about Serve, for every set of captures and objects, every number *)
(* of versions and replaced objects, and every state of the CDX store that *)
(* an earlier run of the indexer may have left.                            *)
(***************************************************************************)
EXTENDS Serve, FiniteSetTheorems, WellFoundedInduction, TLAPS

Shapes == {"whole", "split", "plain", "file"}
Steps == {"idle", "lookup", "fetch", "extract", "answered"}
Request == [to: {"replay", "text"}, url: Urls, stamp: Stamps \cup {-1, -2}, hit: BOOLEAN]
Batch == [obj: Objs, version: Versions, records: SUBSET (Caps \X Nat), stage: {"rows", "docs"}]

(* An object has the contents of its version, whatever recompress did, and *)
(* only the objects of collections are single files.                       *)
Stored(o) ==
  /\ bucket[o] \in [version: Versions, shape: Shapes, caps: Seq(Caps)]
  /\ bucket[o].caps = Content[o][bucket[o].version]
  /\ bucket[o].shape = "file" <=> Coll[o] # "warc"

(* A place in a version that was stored names the capture that is there.   *)
Names(o, v, k, c) ==
  /\ v <= bucket[o].version
  /\ k # 0 => k \in 1..Len(Content[o][v]) /\ Content[o][v][k] = c
Own(r) == r \in Row /\ Names(r.obj, r.version, r.at, r.cap)

RowsOwn == \A s \in Slots : cdx[s] # NoRow => Own(cdx[s]) /\ Slot(cdx[s].cap) = s

(* What the indexer has read is in the version it read, and its rows are   *)
(* written when it comes to the documents.                                 *)
BatchOwn ==
  ix # Idle =>
    /\ ix \in Batch
    /\ \A x \in ix.records :
         /\ x[2] # 0 /\ Names(ix.obj, ix.version, x[2], x[1])
         /\ ix.stage = "docs" => cdx[Slot(x[1])] # NoRow

(* Documents are of captures with rows, and only those are searched.       *)
DocsHaveRows ==
  /\ seen \subseteq docs /\ docs \subseteq Caps
  /\ \A c \in docs : cdx[Slot(c)] # NoRow

(* A request for a hit asks for a slot with a row.                         *)
Asked ==
  /\ pc \in Steps
  /\ req # NoReq => req \in Request
  /\ pc # "idle" => req # NoReq
  /\ req # NoReq /\ req.hit =>
       /\ req.to = "replay"
       /\ <<req.url, req.stamp>> \in Slots /\ cdx[<<req.url, req.stamp>>] # NoRow

(* What has been fetched is the row's own capture or from another version. *)
Served ==
  /\ row # NoRow => Own(row)
  /\ pc \in {"fetch", "extract"} => row # NoRow
  /\ pc = "extract" =>
       got \in Caps /\ (got = row.cap \/ bucket[row.obj].version # row.version)
  /\ pc = "answered" /\ answer.status = 200 =>
       /\ row # NoRow
       /\ answer.digest = Digest[row.cap] \/ bucket[row.obj].version # row.version

HitFound ==
  req # NoReq /\ req.hit /\ pc \notin {"idle", "lookup"} =>
    row # NoRow /\ Slot(row.cap) = <<req.url, req.stamp>>

IInv ==
  /\ \A o \in Objs : Stored(o)
  /\ DOMAIN bucket = Objs /\ DOMAIN cdx = Slots
  /\ RowsOwn /\ BatchOwn /\ DocsHaveRows /\ Asked /\ Served /\ HitFound

-----------------------------------------------------------------------------
(* Numbers: a set of them has a least element, ... *)
Less == {p \in Nat \X Nat : p[1] < p[2]}
LEMMA Least ==
  ASSUME NEW T, T \subseteq Nat, T # {}
  PROVE  \E n \in T : \A m \in T : n <= m
<1>1. IsWellFoundedOn(Less, Nat)
  <2>1. OpToRel(<, Nat) = Less
    BY DEF OpToRel, Less
  <2>2. QED
    BY <2>1, NatLessThanWellFounded
<1>2. PICK n \in T : \A y \in T : <<y, n>> \notin Less
  BY <1>1, WFMin, Zenon
<1>3. ASSUME NEW m \in T PROVE n <= m
  <2>1. m \in Nat /\ n \in Nat /\ <<m, n>> \notin Less
    BY <1>2
  <2>2. ~(m < n)
    BY <2>1 DEF Less
  <2>3. QED
    BY <2>1, <2>2
<1>4. QED
  BY <1>3

(* ... and a finite one a greatest: else take the smallest subset without. *)
LEMMA Greatest ==
  ASSUME NEW T, T \subseteq Nat, T # {}, IsFiniteSet(T)
  PROVE  \E n \in T : \A m \in T : m <= n
<1> DEFINE Bad(A) == \A n \in A : \E m \in A : ~(m <= n)
           N == {k \in Nat : \E A \in SUBSET T : A # {} /\ Cardinality(A) = k /\ Bad(A)}
<1> SUFFICES ASSUME Bad(T) PROVE FALSE
  OBVIOUS
<1>1. N \subseteq Nat /\ N # {}
  BY FS_CardinalityType
<1>2. PICK k \in N : \A j \in N : k <= j
  BY <1>1, Least
<1>3. PICK A \in SUBSET T : A # {} /\ Cardinality(A) = k /\ Bad(A)
  BY <1>2
<1>4. PICK x \in A : TRUE
  BY <1>3
<1>5. IsFiniteSet(A)
  BY FS_Subset
<1> DEFINE B == A \ {x}
<1>6. IsFiniteSet(B) /\ Cardinality(B) = k - 1
  BY <1>5, <1>3, <1>4, FS_RemoveElement
<1>7. k \in Nat /\ Cardinality(B) \in Nat
  BY <1>6, FS_CardinalityType
<1>8. B \in SUBSET T /\ Bad(B)
  <2>1. PICK y \in A : ~(y <= x)
    BY <1>3, <1>4
  <2>2. ASSUME NEW n \in B PROVE \E m \in B : ~(m <= n)
    <3>1. CASE x <= n
      BY <1>3, <3>1, <2>2
    <3>2. CASE ~(x <= n)
      BY <2>1, <3>2, <2>2
    <3>3. QED
      BY <3>1, <3>2
  <2>3. QED
    BY <2>2
<1>9. B # {}
  BY <1>3, <1>4
<1>10. Cardinality(B) \in N
  BY <1>7, <1>8, <1>9
<1>11. k <= k - 1
  BY <1>2, <1>6, <1>10
<1>12. QED
  BY <1>7, <1>11

-----------------------------------------------------------------------------
(* There are finitely many timestamps. *)
LEMMA FiniteStamps == IsFiniteSet(Stamps) /\ Stamps \subseteq Nat
<1> DEFINE f == [c \in Caps |-> Stamp[c]]
<1>1. f \in Surjection(Caps, Stamps)
  BY DEF Surjection, Stamps
<1>2. IsFiniteSet(Caps) /\ \A c \in Caps : Stamp[c] \in Nat
  BY ServeAssumption
<1>3. IsFiniteSet(Stamps)
  BY <1>1, <1>2, FS_Surjection
<1>4. QED
  BY <1>2, <1>3 DEF Stamps

(* A row of a URL is in the slot of its capture. *)
LEMMA RowsOfUrl ==
  ASSUME RowsOwn, NEW u, NEW r \in RowsOf(u)
  PROVE  /\ Own(r) /\ r.cap \in Caps /\ Stamp[r.cap] \in Nat
         /\ Url[r.cap] = u /\ Slot(r.cap) \in Slots
         /\ r = cdx[<<u, Stamp[r.cap]>>] /\ r # NoRow
<1>1. PICK s \in Slots : s[1] = u /\ r = cdx[s] /\ r # NoRow
  BY DEF RowsOf
<1>2. Own(r) /\ Slot(r.cap) = s
  BY <1>1 DEF RowsOwn
<1>3. r.cap \in Caps
  BY <1>2 DEF Own, Row
<1>4. s = <<Url[r.cap], Stamp[r.cap]>>
  BY <1>2 DEF Slot
<1>5. Url[r.cap] = u
  BY <1>1, <1>4
<1>6. Stamp[r.cap] \in Nat
  BY <1>3, ServeAssumption
<1>7. QED
  BY <1>1, <1>2, <1>3, <1>4, <1>5, <1>6

(* Of the rows of a URL, there is an earliest. *)
LEMMA Earliest ==
  ASSUME RowsOwn, NEW u, NEW A, A \subseteq RowsOf(u), A # {}
  PROVE  \E r \in A : \A x \in A : Stamp[x.cap] >= Stamp[r.cap]
<1> DEFINE T == {Stamp[r.cap] : r \in A}
<1>1. T \subseteq Nat /\ T # {}
  <2>1. \A r \in A : Stamp[r.cap] \in Nat
    BY RowsOfUrl
  <2>2. QED
    BY <2>1
<1>2. PICK n \in T : \A m \in T : n <= m
  BY <1>1, Least
<1>3. PICK r \in A : n = Stamp[r.cap]
  BY <1>2
<1>4. \A x \in A : Stamp[x.cap] >= Stamp[r.cap]
  BY <1>1, <1>2, <1>3
<1>5. QED
  BY <1>4

(* closest finds a row where there is one, ... *)
LEMMA ClosestIsRow ==
  ASSUME RowsOwn, NEW u, NEW t \in Nat
  PROVE  closest(u, t) \in RowsOf(u) \cup {NoRow}
<1> DEFINE before == {r \in RowsOf(u) : Stamp[r.cap] <= t}
           after == RowsOf(u) \ before
           b == CHOOSE r \in before : \A x \in before : Stamp[x.cap] <= Stamp[r.cap]
           a == CHOOSE r \in after : \A x \in after : Stamp[x.cap] >= Stamp[r.cap]
<1>1. \A r \in RowsOf(u) : Stamp[r.cap] \in Nat
  BY RowsOfUrl
<1>2. before # {} => b \in before
  <2> SUFFICES ASSUME before # {} PROVE b \in before
    OBVIOUS
  <2> DEFINE T == {Stamp[r.cap] : r \in before}
  <2>1. T \subseteq Nat /\ T # {}
    BY <1>1
  <2>2. T \subseteq 0..t
    BY <1>1
  <2>3. IsFiniteSet(T)
    <3>1. 0 \in Int /\ t \in Int
      OBVIOUS
    <3>2. QED
      BY <2>2, <3>1, FS_Interval, FS_Subset
  <2>4. PICK n \in T : \A m \in T : m <= n
    BY <2>1, <2>3, Greatest
  <2>5. \E r \in before : \A x \in before : Stamp[x.cap] <= Stamp[r.cap]
    BY <2>4
  <2>6. QED
    BY <2>5
<1>3. after # {} => a \in after
  BY Earliest
<1>4. QED
  BY <1>2, <1>3 DEF closest

(* ... and the row of the very slot it is asked for. *)
LEMMA ClosestIsExact ==
  ASSUME RowsOwn, NEW u, NEW t \in Nat, <<u, t>> \in Slots, cdx[<<u, t>>] # NoRow
  PROVE  closest(u, t) = cdx[<<u, t>>]
<1> DEFINE before == {r \in RowsOf(u) : Stamp[r.cap] <= t}
           after == RowsOf(u) \ before
           b == CHOOSE r \in before : \A x \in before : Stamp[x.cap] <= Stamp[r.cap]
           a == CHOOSE r \in after : \A x \in after : Stamp[x.cap] >= Stamp[r.cap]
           e == cdx[<<u, t>>]
<1>1. \A r \in RowsOf(u) : Stamp[r.cap] \in Nat /\ r = cdx[<<u, Stamp[r.cap]>>]
  BY RowsOfUrl
<1>2. e \in before /\ Stamp[e.cap] = t
  BY <1>1 DEF RowsOf, RowsOwn, Slots, Slot
<1>3. \A x \in before : Stamp[x.cap] <= Stamp[e.cap]
  BY <1>2
<1>4. b \in before /\ \A x \in before : Stamp[x.cap] <= Stamp[b.cap]
  BY <1>2, <1>3
<1>5. Stamp[b.cap] = t
  <2>1. Stamp[b.cap] \in Nat /\ Stamp[b.cap] <= t
    BY <1>1, <1>4
  <2>2. t <= Stamp[b.cap]
    BY <1>2, <1>4
  <2> HIDE DEF b
  <2>3. QED
    BY <2>1, <2>2
<1>6. b = e
  BY <1>1, <1>4, <1>5
<1>7. CASE after = {}
  BY <1>2, <1>6, <1>7 DEF closest
<1>8. CASE after # {}
  <2>1. a \in after
    BY <1>8, Earliest
  <2>2. Stamp[a.cap] \in Nat
    BY <1>1, <2>1
  <2>3. Distance(b, t) <= Distance(a, t)
    <3> HIDE DEF a, b
    <3>1. QED
      BY <1>5, <2>2 DEF Distance
  <2>4. QED
    BY <1>2, <1>6, <1>8, <2>3 DEF closest
<1>9. QED
  BY <1>7, <1>8

-----------------------------------------------------------------------------
(* Who writes what. *)
LEMMA Writers ==
  ASSUME [Next]_vars
  PROVE  /\ bucket' = bucket \/ \E o \in Objs : Recompress(o) \/ Replace(o)
         /\ cdx' = cdx \/ upsert_batch
         /\ docs' = docs \/ commit
         /\ seen' = seen \/ Reload
         /\ \/ ix' = ix \/ upsert_batch \/ commit \/ IndexerDies
            \/ \E o \in Objs : ReadObject(o)
         /\ (UNCHANGED request) \/ Client \/ Handler
<1> USE DEF outside, request
<1>1. CASE UNCHANGED vars
  BY <1>1 DEF vars
<1>2. CASE Environment
  BY <1>2 DEF Environment, ReadObject, Recompress, Replace, upsert_batch, commit, IndexerDies,
              OcrPut, Serving
<1>3. CASE Reload
  BY <1>3 DEF Reload
<1>4. CASE Client
  BY <1>4 DEF Client, search, AskFor, Ask
<1>5. CASE Handler
  BY <1>5 DEF Handler, lookup_capture, LookupFails, fetch_payload, FetchFails,
              serve_warc_response, PlainText, CachedText, ExtractText
<1>6. QED
  BY <1>1, <1>2, <1>3, <1>4, <1>5 DEF Next

(* An object keeps the contents of its version, and gets no earlier one. *)
LEMMA StoredStep ==
  ASSUME IInv, [Next]_vars
  PROVE  /\ DOMAIN bucket' = Objs /\ \A o \in Objs : Stored(o)'
         /\ \A o \in Objs : bucket[o].version <= bucket'[o].version
<1>1. \A o \in Objs : Stored(o) /\ bucket[o].version \in Nat
  BY DEF IInv, Stored, Versions
<1>2. CASE bucket' = bucket
  BY <1>1, <1>2 DEF IInv, Stored
<1>3. ASSUME NEW o \in Objs, Recompress(o)
      PROVE  /\ DOMAIN bucket' = Objs /\ \A p \in Objs : Stored(p)'
             /\ \A p \in Objs : bucket[p].version <= bucket'[p].version
  <2>1. bucket[o].shape = "whole" /\ bucket' = [bucket EXCEPT ![o].shape = "split"]
    BY <1>3 DEF Recompress
  <2>2. DOMAIN bucket' = Objs /\ \A p \in Objs \ {o} : bucket'[p] = bucket[p]
    BY <2>1 DEF IInv
  <2>3. /\ bucket'[o].version = bucket[o].version /\ bucket'[o].caps = bucket[o].caps
        /\ bucket'[o].shape = "split"
        /\ bucket'[o] \in [version: Versions, shape: Shapes, caps: Seq(Caps)]
    BY <1>1, <2>1 DEF IInv, Stored, Shapes
  <2>4. Stored(o)'
    BY <1>1, <2>1, <2>3 DEF Stored
  <2>5. QED
    BY <1>1, <2>2, <2>3, <2>4 DEF Stored
<1>4. ASSUME NEW o \in Objs, Replace(o)
      PROVE  /\ DOMAIN bucket' = Objs /\ \A p \in Objs : Stored(p)'
             /\ \A p \in Objs : bucket[p].version <= bucket'[p].version
  <2> DEFINE v == bucket[o].version + 1
  <2>1. bucket[o].version < MaxVersion /\ bucket' = [bucket EXCEPT ![o] = Version(o, v)]
    BY <1>4 DEF Replace
  <2>2. v \in Versions /\ bucket[o].version <= v
    BY <1>1, <2>1, ServeAssumption DEF Versions
  <2>3. DOMAIN bucket' = Objs /\ bucket'[o] = Version(o, v)
        /\ \A p \in Objs \ {o} : bucket'[p] = bucket[p]
    BY <2>1 DEF IInv
  <2> HIDE DEF v
  <2>4. Stored(o)'
    BY <2>2, <2>3, ServeAssumption DEF Stored, Version, Shapes
  <2>5. bucket'[o].version = v
    BY <2>3 DEF Version
  <2>6. QED
    BY <1>1, <2>2, <2>3, <2>4, <2>5 DEF Stored, v
<1>5. QED
  BY <1>2, <1>3, <1>4, Writers

(* So what a place names it names for good, ... *)
LEMMA NamesStep ==
  ASSUME IInv, [Next]_vars, NEW o \in Objs, NEW v \in Versions, NEW k, NEW c, Names(o, v, k, c)
  PROVE  Names(o, v, k, c)'
<1>1. bucket[o].version \in Nat /\ bucket'[o].version \in Nat /\ v \in Nat
      /\ bucket[o].version <= bucket'[o].version
  BY StoredStep DEF IInv, Stored, Versions
<1>2. QED
  BY <1>1 DEF Names

(* ... and so does a row. *)
LEMMA OwnStep ==
  ASSUME IInv, [Next]_vars, NEW r, Own(r)
  PROVE  Own(r)'
BY NamesStep DEF Own, Row

(* A row is a row. *)
LEMMA RowIsRow == \A r \in Row : r # NoRow
BY DEF Row, NoRow

(* Of the records that want a slot, there is a last one. *)
LEMMA LastWins ==
  ASSUME IInv, ix # Idle, NEW s, NEW mine, mine = {r \in ix.records : Slot(r[1]) = s}, mine # {}
  PROVE  \E r \in mine : \A x \in mine : x[2] <= r[2]
<1> DEFINE T == {x[2] : x \in mine}
           n == Len(Content[ix.obj][ix.version])
<1>1. ix \in Batch /\ \A x \in ix.records : x[2] \in 1..n
  BY DEF IInv, BatchOwn, Names
<1>2. n \in Nat
  BY <1>1, ServeAssumption DEF Batch
<1>3. T \subseteq 1..n /\ T \subseteq Nat /\ T # {}
  BY <1>1
<1>4. IsFiniteSet(T)
  <2>1. 1 \in Int /\ n \in Int
    BY <1>2
  <2> HIDE DEF T, n
  <2>2. QED
    BY <2>1, <1>3, FS_Interval, FS_Subset
<1>5. PICK m \in T : \A k \in T : k <= m
  BY <1>3, <1>4, Greatest
<1>6. QED
  BY <1>5

(* Rows name their captures, and no slot loses its row. *)
LEMMA RowsStep ==
  ASSUME IInv, [Next]_vars
  PROVE  /\ RowsOwn' /\ DOMAIN cdx' = Slots
         /\ \A s \in Slots : cdx[s] # NoRow => cdx'[s] # NoRow
         /\ upsert_batch => \A x \in ix.records : cdx'[Slot(x[1])] # NoRow
<1>1. CASE cdx' = cdx /\ ~upsert_batch
  BY <1>1, OwnStep DEF IInv, RowsOwn
<1>2. CASE upsert_batch
  <2> DEFINE mine(s) == {r \in ix.records : Slot(r[1]) = s}
             last(s) == CHOOSE r \in mine(s) : \A x \in mine(s) : x[2] <= r[2]
             new(s) == [cap |-> last(s)[1], obj |-> ix.obj, at |-> last(s)[2], version |-> ix.version]
  <2>1. ix # Idle /\ cdx' = [s \in Slots |-> IF mine(s) = {} THEN cdx[s] ELSE new(s)]
    BY <1>2 DEF upsert_batch
  <2>2. ix \in Batch /\ \A x \in ix.records : x \in Caps \X Nat /\ Names(ix.obj, ix.version, x[2], x[1])
    BY <2>1 DEF IInv, BatchOwn, Batch
  <2>3. ASSUME NEW s \in Slots, mine(s) # {} PROVE Own(new(s)) /\ Slot(new(s).cap) = s
    <3>1. last(s) \in mine(s)
      BY <2>1, <2>3, LastWins
    <3>2. last(s) \in Caps \X Nat /\ Names(ix.obj, ix.version, last(s)[2], last(s)[1])
          /\ Slot(last(s)[1]) = s
      BY <2>2, <3>1
    <3> HIDE DEF last
    <3>3. new(s) \in Row
      BY <2>2, <3>2 DEF Batch, Row
    <3>4. QED
      BY <3>2, <3>3 DEF Own
  <2>4. ASSUME NEW s \in Slots, mine(s) # {} PROVE cdx'[s] = new(s) /\ new(s) # NoRow
    BY <2>1, <2>3, <2>4, RowIsRow DEF Own
  <2>5. \A s \in Slots : mine(s) = {} => cdx'[s] = cdx[s]
    BY <2>1
  <2>6. \A x \in ix.records : Slot(x[1]) \in Slots /\ x \in mine(Slot(x[1]))
    BY <2>2 DEF Slot, Slots
  <2>7. DOMAIN cdx' = Slots
    BY <2>1
  <2> HIDE DEF mine, new
  <2>8. ASSUME NEW s \in Slots, (cdx[s] # NoRow)'
        PROVE  (Own(cdx[s]) /\ Slot(cdx[s].cap) = s)'
    <3>1. CASE mine(s) = {}
      <4>1. cdx'[s] = cdx[s] /\ Own(cdx[s]) /\ Slot(cdx[s].cap) = s
        BY <2>5, <2>8, <3>1 DEF IInv, RowsOwn
      <4>2. QED
        BY <4>1, OwnStep DEF Own, Names
    <3>2. CASE mine(s) # {}
      <4>1. cdx'[s] = new(s) /\ Own(new(s)) /\ Slot(new(s).cap) = s
        BY <2>3, <2>4, <3>2
      <4>2. QED
        BY <4>1, OwnStep DEF Own, Names
    <3>3. QED
      BY <3>1, <3>2
  <2>9. RowsOwn'
    BY <2>8 DEF RowsOwn
  <2>10. QED
    BY <2>4, <2>5, <2>6, <2>7, <2>9
<1>3. QED
  BY <1>1, <1>2, Writers

(* The indexer holds what is in the version it has read. *)
LEMMA BatchStep ==
  ASSUME IInv, [Next]_vars
  PROVE  BatchOwn'
<1>1. CASE ix' = ix /\ ~upsert_batch
  <2> SUFFICES ASSUME ix # Idle PROVE BatchOwn'
    BY <1>1 DEF BatchOwn
  <2>1. ix \in Batch /\ ix.obj \in Objs /\ ix.version \in Versions
    BY DEF IInv, BatchOwn, Batch
  <2>2. ASSUME NEW x \in ix.records
        PROVE  /\ x[2] # 0 /\ Names(ix.obj, ix.version, x[2], x[1])'
               /\ ix.stage = "docs" => cdx'[Slot(x[1])] # NoRow
    <3>1. x[2] # 0 /\ Names(ix.obj, ix.version, x[2], x[1]) /\ Slot(x[1]) \in Slots
          /\ (ix.stage = "docs" => cdx[Slot(x[1])] # NoRow)
      BY <2>1 DEF IInv, BatchOwn, Batch, Slot, Slots
    <3>2. QED
      BY <1>1, <2>1, <3>1, RowsStep, NamesStep
  <2>3. QED
    BY <1>1, <2>1, <2>2 DEF BatchOwn, Names
<1>2. CASE upsert_batch
  <2>1. ix # Idle /\ ix' = [ix EXCEPT !.stage = "docs"] /\ bucket' = bucket
    BY <1>2 DEF upsert_batch
  <2>2. ix \in Batch /\ ix' \in Batch
    BY <2>1 DEF IInv, BatchOwn, Batch
  <2>3. ix'.records = ix.records /\ ix'.obj = ix.obj /\ ix'.version = ix.version
    BY <2>1, <2>2 DEF Batch
  <2>4. \A x \in ix.records : x[2] # 0 /\ Names(ix.obj, ix.version, x[2], x[1])
                                /\ cdx'[Slot(x[1])] # NoRow
    BY <1>2, <2>1, RowsStep DEF IInv, BatchOwn
  <2>5. QED
    BY <2>1, <2>2, <2>3, <2>4 DEF BatchOwn, Names
<1>3. CASE commit \/ IndexerDies
  BY <1>3 DEF commit, IndexerDies, BatchOwn
<1>4. ASSUME NEW o \in Objs, ReadObject(o)
      PROVE  BatchOwn'
  <2> DEFINE v == bucket[o].version
             caps == bucket[o].caps
  <2>1. bucket' = bucket /\ cdx' = cdx
        /\ ix' = [obj |-> o, version |-> v, records |-> Records(o), stage |-> "rows"]
    BY <1>4 DEF ReadObject
  <2>2. v \in Versions /\ v \in Nat /\ caps \in Seq(Caps) /\ caps = Content[o][v]
    BY DEF IInv, Stored, Versions
  <2>3. ASSUME NEW x \in Records(o)
        PROVE  x \in Caps \X Nat /\ x[2] # 0 /\ Names(o, v, x[2], x[1])
    <3>1. PICK k \in 1..Len(caps) : x = <<caps[k], k>>
      BY <2>3 DEF Records
    <3>2. caps[k] \in Caps /\ k \in Nat /\ k # 0
      BY <2>2
    <3>3. QED
      BY <2>2, <3>1, <3>2 DEF Names
  <2>4. ix' \in Batch
    BY <2>1, <2>2, <2>3 DEF Batch
  <2>5. QED
    BY <2>1, <2>3, <2>4 DEF BatchOwn, Names
<1>5. QED
  BY <1>1, <1>2, <1>3, <1>4, Writers

(* Documents are committed behind their rows. *)
LEMMA DocsStep ==
  ASSUME IInv, [Next]_vars
  PROVE  DocsHaveRows'
<1>1. \A c \in Caps : cdx[Slot(c)] # NoRow => cdx'[Slot(c)] # NoRow
  BY RowsStep DEF Slot, Slots
<1>2. seen \subseteq docs /\ docs \subseteq Caps /\ \A c \in docs : cdx[Slot(c)] # NoRow
  BY DEF IInv, DocsHaveRows
<1>3. docs \subseteq docs' /\ docs' \subseteq Caps /\ \A c \in docs' : cdx'[Slot(c)] # NoRow
  <2>1. CASE docs' = docs
    BY <1>1, <1>2, <2>1
  <2>2. CASE commit
    <3>1. /\ ix # Idle /\ ix.stage = "docs"
          /\ docs' = docs \cup {r[1] : r \in {x \in ix.records : Indexable(x[1])}}
      BY <2>2 DEF commit
    <3>2. \A x \in ix.records : x[1] \in Caps /\ cdx[Slot(x[1])] # NoRow
      BY <3>1 DEF IInv, BatchOwn, Batch
    <3>3. QED
      BY <1>1, <1>2, <3>1, <3>2
  <2>3. QED
    BY <2>1, <2>2, Writers
<1>4. seen' \subseteq docs'
  BY <1>2, <1>3, Writers DEF Reload, outside
<1>5. QED
  BY <1>3, <1>4 DEF DocsHaveRows

(* Tika answers with a text of what was fetched, or there is none. *)
LEMMA Extracted ==
  ASSUME ExtractText
  PROVE  /\ pc = "extract" /\ pc' = "answered" /\ UNCHANGED <<outside, seen, req, row, got>>
         /\ answer'.status = 200 => answer'.digest = Digest[got]
<1>1. \/ Answer(200, Digest[got])
      \/ \E status \in {501, 422, 413, 502} : Refuse(status)
  <2>1. CASE ~Tika
    BY <2>1 DEF ExtractText
  <2>2. CASE Tika /\ Kind[got] \in {"pdf", "cut"}
    BY <2>2 DEF ExtractText
  <2>3. CASE Tika /\ Kind[got] = "blank"
    BY <2>3 DEF ExtractText
  <2>4. CASE Tika /\ Kind[got] = "large"
    BY <2>4 DEF ExtractText
  <2>5. Pdf(got)
    BY DEF ExtractText
  <2>6. QED
    BY <2>1, <2>2, <2>3, <2>4, <2>5 DEF Pdf
<1>2. QED
  BY <1>1 DEF ExtractText, Answer, Refuse

(* Requests are what clients ask, and a hit keeps its row. *)
LEMMA AskedStep ==
  ASSUME IInv, [Next]_vars
  PROVE  Asked'
<1>1. \A s \in Slots : cdx[s] # NoRow => cdx'[s] # NoRow
  BY RowsStep
<1>2. CASE UNCHANGED request
  BY <1>1, <1>2 DEF IInv, Asked, request
<1>3. CASE Handler
  <2>1. req' = req /\ pc' \in Steps
    <3>1. CASE ExtractText
      BY <3>1, Extracted DEF Steps
    <3>2. CASE ~ExtractText
      BY <1>3, <3>2 DEF Handler, lookup_capture, LookupFails, fetch_payload, FetchFails, Refuse,
                        Answer, serve_warc_response, PlainText, CachedText, Steps
    <3>3. QED
      BY <3>1, <3>2
  <2>2. pc # "idle"
    BY <1>3 DEF Handler, lookup_capture, LookupFails, fetch_payload, FetchFails,
                serve_warc_response, PlainText, CachedText, ExtractText
  <2>3. QED
    BY <1>1, <2>1, <2>2 DEF IInv, Asked
<1>4. CASE search
  <2>1. PICK c \in seen : req' = [to |-> "replay", url |-> Url[c], stamp |-> Stamp[c], hit |-> TRUE]
                           /\ pc' = "lookup" /\ cdx' = cdx
    BY <1>4 DEF search, Ask, outside
  <2>2. c \in Caps /\ cdx[Slot(c)] # NoRow
    BY DEF IInv, DocsHaveRows
  <2>3. req' \in Request
    BY <2>1, <2>2 DEF Request, Urls, Stamps
  <2>4. <<req'.url, req'.stamp>> = Slot(c) /\ Slot(c) \in Slots
    BY <2>1, <2>2 DEF Slot, Slots
  <2>5. req'.to = "replay"
    BY <2>1
  <2>6. QED
    BY <2>1, <2>2, <2>3, <2>4, <2>5, RowsStep DEF Asked, Steps, NoReq, Request
<1>5. ASSUME NEW u \in Urls, NEW t \in Stamps \cup {-1, -2}, AskFor(u, t)
      PROVE  Asked'
  <2>1. PICK to \in {"replay", "text"} :
          req' = [to |-> to, url |-> u, stamp |-> t, hit |-> FALSE] /\ pc' = "lookup"
    BY <1>5 DEF AskFor, Ask
  <2>2. req' \in Request /\ ~req'.hit
    BY <2>1 DEF Request
  <2>3. QED
    BY <2>1, <2>2 DEF Asked, Steps, NoReq, Request
<1>6. QED
  BY <1>2, <1>3, <1>4, <1>5, Writers DEF Client

(* What lies where a row points is its own capture, or the object has      *)
(* other contents than the row was made from.                              *)
LEMMA AtIsOwn ==
  ASSUME IInv, NEW r, Own(r), r.at # 0, NEW c \in At(r)
  PROVE  c \in Caps /\ (c = r.cap \/ bucket[r.obj].version # r.version)
<1> DEFINE o == r.obj
           caps == bucket[o].caps
<1>1. /\ o \in Objs /\ Stored(o) /\ r.version \in Versions
      /\ r.at \in 1..Len(Content[o][r.version]) /\ Content[o][r.version][r.at] = r.cap
  BY DEF IInv, Own, Row, Names
<1>2. caps \in Seq(Caps) /\ caps = Content[o][bucket[o].version] /\ caps # <<>>
  BY <1>1 DEF Stored, At
<1>3. caps[1] \in Caps /\ \A k \in 1..Len(caps) : caps[k] \in Caps
  BY <1>2
<1>4. bucket[o].version = r.version => r.at \in 1..Len(caps) /\ caps[r.at] = r.cap
  BY <1>1, <1>2
<1>5. CASE bucket[o].shape = "file"
  <2>1. c = caps[1]
    BY <1>2, <1>5 DEF At, Moved
  <2>2. Shape[o][bucket[o].version] = "file" /\ Len(caps) = 1
    BY <1>1, <1>2, <1>5, ServeAssumption DEF Stored
  <2>3. QED
    BY <1>3, <1>4, <2>1, <2>2
<1>6. CASE bucket[o].shape = "whole"
  <2>1. r.at = 1 /\ c = caps[1]
    BY <1>2, <1>6 DEF At, Moved
  <2>2. QED
    BY <1>3, <1>4, <2>1
<1>7. CASE bucket[o].shape \notin {"file", "whole"} /\ Moved(r)
  BY <1>2, <1>3, <1>7 DEF At, Moved
<1>8. CASE bucket[o].shape \notin {"file", "whole"} /\ ~Moved(r)
  <2>1. c = caps[r.at]
    BY <1>2, <1>8 DEF At
  <2>2. r.at = 1 \/ bucket[o].version = r.version
    BY <1>1, <1>8 DEF Moved, Stored, Shapes
  <2>3. QED
    BY <1>3, <1>4, <2>1, <2>2
<1>9. QED
  BY <1>5, <1>6, <1>7, <1>8

(* lookup_capture finds a row of the store, or none; for a hit, its own.   *)
LEMMA LookedUp ==
  ASSUME IInv, lookup_capture
  PROVE  /\ row' # NoRow => Own(row')
         /\ req.hit => row' # NoRow /\ Slot(row'.cap) = <<req.url, req.stamp>>
<1>1. req \in Request /\ req # NoReq
  BY DEF lookup_capture, IInv, Asked
<1>2. Stamps \subseteq Nat /\ RowsOwn
  BY FiniteStamps DEF IInv
<1>3. PICK t \in Stamps :
        row' = closest(req.url, t) /\ (req.stamp # -1 => t = req.stamp)
  <2>1. CASE req.stamp = -1
    <3> DEFINE t == CHOOSE t \in Stamps : \A x \in Stamps : x <= t
    <3>1. Stamps # {}
      BY <1>1 DEF Request, Urls, Stamps
    <3>2. t \in Stamps
      BY <1>2, <3>1, FiniteStamps, Greatest
    <3>3. row' = closest(req.url, t)
      BY <2>1 DEF lookup_capture, Newest
    <3>4. QED
      BY <2>1, <3>2, <3>3
  <2>2. CASE req.stamp # -1
    <3>1. req.stamp \in Stamps /\ row' = closest(req.url, req.stamp)
      BY <1>1, <2>2 DEF lookup_capture, Invalid, Request
    <3>2. QED
      BY <3>1
  <2>3. QED
    BY <2>1, <2>2
<1>4. row' \in RowsOf(req.url) \cup {NoRow}
  BY <1>2, <1>3, ClosestIsRow
<1>5. row' # NoRow => Own(row')
  BY <1>2, <1>4, RowsOfUrl
<1>6. ASSUME req.hit
      PROVE  row' # NoRow /\ Slot(row'.cap) = <<req.url, req.stamp>>
  <2> DEFINE s == <<req.url, req.stamp>>
  <2>1. s \in Slots /\ cdx[s] # NoRow /\ req.to = "replay"
    BY <1>1, <1>6 DEF IInv, Asked
  <2>2. t = req.stamp
    BY <1>3, <2>1 DEF lookup_capture, Invalid
  <2>3. row' = cdx[s]
    BY <1>2, <1>3, <2>1, <2>2, ClosestIsExact
  <2>4. QED
    BY <1>2, <2>1, <2>3 DEF RowsOwn
<1>7. QED
  BY <1>5, <1>6

(* What is fetched and answered is the row's own capture as long as its    *)
(* object has the contents the row was made from.                          *)
LEMMA ServedStep ==
  ASSUME IInv, [Next]_vars
  PROVE  Served' /\ HitFound'
<1>1. \A o \in Objs, v \in Versions :
        /\ bucket[o].version \in Nat /\ bucket'[o].version \in Nat /\ v \in Nat
        /\ bucket[o].version <= bucket'[o].version
  BY StoredStep DEF IInv, Stored, Versions
<1>2. ASSUME row # NoRow
      PROVE  /\ Own(row) /\ row.obj \in Objs /\ row.version \in Versions
             /\ bucket[row.obj].version # row.version =>
                   bucket'[row.obj].version # row.version
  <2>1. Own(row)
    BY <1>2 DEF IInv, Served
  <2>2. row.obj \in Objs /\ row.version \in Versions /\ row.version <= bucket[row.obj].version
    BY <2>1 DEF Own, Row, Names
  <2>3. QED
    BY <1>1, <2>1, <2>2
<1>3. ASSUME row # NoRow, row' = row
      PROVE  Own(row)'
  BY <1>2, <1>3, OwnStep DEF Own, Names
<1>4. CASE UNCHANGED request
  BY <1>2, <1>3, <1>4 DEF IInv, Served, HitFound, request
<1>5. CASE Client
  BY <1>5 DEF Client, search, AskFor, Ask, Served, HitFound
<1>6. CASE lookup_capture
  <2>1. bucket' = bucket /\ req' = req
        /\ (row' = NoRow => pc' = "answered" /\ answer'.status = 404)
        /\ (row' # NoRow => pc' = "fetch")
    BY <1>6 DEF lookup_capture, Refuse, Answer, outside
  <2>2. QED
    BY <1>6, <2>1, LookedUp DEF Served, HitFound, Own, Names
<1>7. CASE LookupFails
  <2>1. pc' = "answered" /\ answer'.status # 200 /\ row' = row /\ req' = req
    BY <1>7 DEF LookupFails, Refuse, Answer
  <2>2. ~(req # NoReq /\ req.hit)
    <3> SUFFICES ASSUME req # NoReq, req.hit PROVE FALSE
      OBVIOUS
    <3>1. req.to = "replay" /\ <<req.url, req.stamp>> \in Slots
      BY DEF IInv, Asked
    <3>2. req.stamp \in Nat
      BY <3>1, ServeAssumption DEF Slots
    <3>3. QED
      BY <1>7, <3>1, <3>2 DEF LookupFails, Invalid
  <2>3. QED
    BY <1>3, <2>1, <2>2 DEF Served, HitFound
<1>8. CASE fetch_payload
  <2>1. row # NoRow /\ row.at # 0 /\ got' \in At(row)
        /\ pc' = "extract" /\ UNCHANGED <<outside, seen, req, row, answer>>
    BY <1>8 DEF fetch_payload, IInv, Served
  <2>2. got' \in Caps /\ (got' = row.cap \/ bucket[row.obj].version # row.version)
    BY <1>2, <2>1, AtIsOwn
  <2>3. HitFound'
    BY <1>8, <2>1 DEF IInv, HitFound, fetch_payload
  <2>4. QED
    BY <1>3, <2>1, <2>2, <2>3 DEF Served, outside
<1>9. CASE FetchFails
  <2>1. pc = "fetch" /\ pc' = "answered" /\ answer'.status # 200 /\ row' = row /\ req' = req
    BY <1>9 DEF FetchFails, Refuse, Answer
  <2>2. QED
    BY <1>3, <2>1 DEF IInv, Served, HitFound
<1>10. CASE serve_warc_response \/ PlainText \/ CachedText \/ ExtractText
  <2>1. /\ pc = "extract" /\ pc' = "answered" /\ UNCHANGED <<outside, seen, req, row, got>>
        /\ answer'.status = 200 => answer'.digest \in {Digest[got], Digest[row.cap]}
    <3>1. CASE ExtractText
      BY <3>1, Extracted
    <3>2. CASE ~ExtractText
      BY <1>10, <3>2 DEF serve_warc_response, PlainText, CachedText, Answer, Refuse
    <3>3. QED
      BY <3>1, <3>2
  <2>2. row # NoRow /\ (got = row.cap \/ bucket[row.obj].version # row.version)
    BY <2>1 DEF IInv, Served
  <2>3. HitFound'
    BY <2>1 DEF IInv, HitFound
  <2>4. QED
    BY <1>3, <2>1, <2>2, <2>3 DEF Served, outside
<1>11. QED
  BY <1>4, <1>5, <1>6, <1>7, <1>8, <1>9, <1>10, Writers DEF Handler

-----------------------------------------------------------------------------
(* The server starts with the rows an earlier run has left. *)
LEMMA InitInv == Init => IInv
<1> SUFFICES ASSUME Init PROVE IInv
  OBVIOUS
<1>1. 1 \in Versions
  BY ServeAssumption DEF Versions
<1>2. \A o \in Objs : Stored(o) /\ bucket[o].version = 1
  BY <1>1, ServeAssumption DEF Init, Stored, Version, Shapes
<1>3. DOMAIN bucket = Objs /\ DOMAIN cdx = Slots
  BY DEF Init
<1>4. RowsOwn
  <2> SUFFICES ASSUME NEW s \in Slots, cdx[s] # NoRow
               PROVE  Own(cdx[s]) /\ Slot(cdx[s].cap) = s
    BY DEF RowsOwn
  <2>1. PICK r \in Indexed : Slot(r[1]) = s /\ cdx[s] = [cap |-> r[1], obj |-> r[2], at |-> r[3], version |-> 1]
    BY DEF Init
  <2>2. r \in Caps \X Objs \X Nat
    BY ServeAssumption
  <2>3. cdx[s] \in Row
    BY <1>1, <2>1, <2>2 DEF Row
  <2>4. r[3] # 0 => r[3] \in 1..Len(Content[r[2]][1]) /\ Content[r[2]][1][r[3]] = r[1]
    BY ServeAssumption
  <2>5. Names(r[2], 1, r[3], r[1])
    BY <1>2, <2>2, <2>4 DEF Names
  <2>6. QED
    BY <2>1, <2>3, <2>5 DEF Own
<1>5. BatchOwn /\ DocsHaveRows /\ Asked /\ Served /\ HitFound
  BY DEF Init, BatchOwn, DocsHaveRows, Asked, Served, HitFound, Steps
<1>6. QED
  BY <1>2, <1>3, <1>4, <1>5 DEF IInv

(* Every step keeps the invariant. *)
LEMMA Inductive ==
  ASSUME IInv, [Next]_vars
  PROVE  IInv'
BY StoredStep, RowsStep, BatchStep, DocsStep, AskedStep, ServedStep DEF IInv

(* A client that gets a capture gets the one its row was made for, unless  *)
(* other contents were stored under the object's key: however often        *)
(* recompress rewrote it between the index run, lookup_capture and         *)
(* fetch_payload, for any captures, objects and rows of earlier runs.      *)
THEOREM OwnAnswers == Spec => []AnswerIsOwn
<1>1. IInv => AnswerIsOwn
  BY DEF IInv, Served, AnswerIsOwn
<1>2. QED
  BY <1>1, InitInv, Inductive, PTL DEF Spec

(* A search hit leads to the row of its own capture, because upsert_batch  *)
(* comes before the commit of the documents, no row is taken away, and     *)
(* closest prefers an exact timestamp.                                     *)
THEOREM HitsLead == Spec => []HitLeads
<1>1. IInv => HitLeads
  BY DEF IInv, HitLeads, HitFound, TypeOK, RowsOwn, Own, DocsHaveRows, Asked, Steps, Served
<1>2. QED
  BY <1>1, InitInv, Inductive, PTL DEF Spec

(* A step that stores an object anew in its version is recompress's: only  *)
(* there the contents stay.                                                *)
LEMMA Rewrites ==
  ASSUME IInv, [Next]_vars, NEW o \in Objs,
         bucket'[o].version = bucket[o].version, bucket'[o] # bucket[o]
  PROVE  Recompress(o)
<1>1. PICK p \in Objs : Recompress(p) \/ Replace(p)
  BY Writers
<1>2. DOMAIN bucket = Objs /\ Stored(p) /\ bucket[p].version \in Nat
  BY DEF IInv, Stored, Versions
<1>3. o = p
  BY <1>1, <1>2 DEF Recompress, Replace
<1>4. ~Replace(p)
  <2> SUFFICES ASSUME Replace(p) PROVE FALSE
    OBVIOUS
  <2>1. bucket'[p] = Version(p, bucket[p].version + 1)
    BY <1>2 DEF Replace
  <2>2. bucket'[p].version = bucket[p].version + 1
    BY <2>1 DEF Version
  <2>3. QED
    BY <1>2, <1>3, <2>2
<1>5. QED
  BY <1>1, <1>3, <1>4

(* Only recompress stores an object anew under its version, and the rows   *)
(* that could be read can still be: those of the first record, since no    *)
(* other of a single member ever could.                                    *)
THEOREM RowsKept == Spec => RecompressKeeps
<1>1. ASSUME IInv, [Next]_vars, NEW o \in Objs,
             bucket'[o].version = bucket[o].version, bucket'[o] # bucket[o]
      PROVE  Readable \subseteq Readable'
  <2>1. Recompress(o)
    BY <1>1, Rewrites
  <2>2. cdx' = cdx /\ bucket[o].shape = "whole" /\ bucket' = [bucket EXCEPT ![o].shape = "split"]
    BY <2>1 DEF Recompress
  <2>3. DOMAIN bucket = Objs /\ bucket[o] \in [version: Versions, shape: Shapes, caps: Seq(Caps)]
    BY <1>1 DEF IInv, Stored
  <2>4. /\ bucket'[o].shape = "split" /\ bucket'[o].caps = bucket[o].caps
        /\ \A p \in Objs \ {o} : bucket'[p] = bucket[p]
    BY <2>2, <2>3
  <2>5. ASSUME NEW s \in Readable
        PROVE  s \in Slots /\ cdx'[s] # NoRow /\ cdx'[s].at # 0 /\ At(cdx[s])' = {cdx'[s].cap}
    <3> DEFINE r == cdx[s]
    <3>1. s \in Slots /\ r # NoRow /\ r.at # 0 /\ At(r) = {r.cap} /\ r.obj \in Objs /\ r.at \in Nat
      BY <1>1 DEF Readable, IInv, RowsOwn, Own, Row
    <3>2. CASE r.obj # o
      <4> DEFINE b == bucket[r.obj]
      <4>1. bucket'[cdx'[s].obj] = b /\ cdx'[s] = r
        BY <2>2, <2>4, <3>1, <3>2
      <4>2. b.shape \in Shapes
        BY <1>1, <3>1 DEF IInv, Stored
      <4>3. CASE Moved(r) /\ b.caps # <<>>
        <5>1. At(r) = {b.caps[k] : k \in 1..Len(b.caps)}
          BY <4>3 DEF At, Moved
        <5>2. At(cdx[s])' = {b.caps[k] : k \in 1..Len(b.caps)}
          BY <4>1, <4>3 DEF At, Moved
        <5>3. QED
          BY <3>1, <4>1, <5>1, <5>2
      <4>4. CASE ~Moved(r) /\ b.caps # <<>>
        BY <3>1, <4>1, <4>2, <4>4 DEF At, Moved, Shapes
      <4>5. CASE b.caps = <<>>
        BY <3>1, <4>1, <4>5 DEF At
      <4>6. QED
        BY <4>3, <4>4, <4>5
    <3>3. CASE r.obj = o
      <4>1. bucket[o].caps # <<>> /\ r.at = 1 /\ bucket[o].caps[1] = r.cap
        BY <2>2, <3>1, <3>3 DEF At, Moved
      <4>2. QED
        BY <2>2, <2>4, <3>1, <3>3, <4>1 DEF At, Moved
    <3>4. QED
      BY <3>2, <3>3
  <2>6. QED
    BY <2>5 DEF Readable
<1>2. ASSUME IInv, [Next]_vars
      PROVE  (\E o \in Objs : bucket'[o].version = bucket[o].version /\ bucket'[o] # bucket[o])
               => Readable \subseteq Readable'
  BY <1>1, <1>2
<1>3. QED
  BY <1>2, InitInv, Inductive, PTL DEF Spec, RecompressKeeps

=============================================================================
