---------------------------- MODULE BrowseProofs ----------------------------
(***************************************************************************)
(* Proofs about Browse, for every set of captures, however many rows the   *)
(* pages and the prefix query are limited to and however often a host is   *)
(* purged and comes back.                                                  *)
(***************************************************************************)
EXTENDS Browse, FiniteSetTheorems, WellFoundedInduction, TLAPS

(* The numbers up to n.                                                    *)
LEMMA FirstNumbers ==
  ASSUME NEW n \in Nat
  PROVE  IsFiniteSet(1..n) /\ Cardinality(1..n) = n
<1>1. 1 \in Int /\ n \in Int
  OBVIOUS
<1>2. IsFiniteSet(1..n) /\ Cardinality(1..n) = IF 1 > n THEN 0 ELSE n - 1 + 1
  BY <1>1, FS_Interval
<1>3. QED
  BY <1>2

-----------------------------------------------------------------------------
(* ORDER BY surt_url, timestamp.                                           *)

Places(table) == {i \in DOMAIN Order : Order[i] \in table}

(* Every capture has one place in the order, and of two captures of a URL  *)
(* the one with the later place is the later one.                          *)
LEMMA OrderPlaces ==
  /\ Order \in [1..Len(Order) -> Caps] /\ Len(Order) \in Nat
  /\ \A c \in Caps : \E i \in DOMAIN Order : Order[i] = c
  /\ \A i, j \in DOMAIN Order : Order[i] = Order[j] => i = j
<1>1. Order \in [1..Len(Order) -> Caps] /\ Len(Order) \in Nat
  BY BrowseAssumption
<1>2. \A c \in Caps : \E i \in DOMAIN Order : Order[i] = c
  BY BrowseAssumption DEF Range
<1>3. IsFiniteSet(1..Len(Order)) /\ Cardinality(1..Len(Order)) = Len(Order)
  BY <1>1, FirstNumbers
<1>4. Order \in Surjection(1..Len(Order), Caps)
  BY <1>1, <1>2 DEF Surjection
<1>5. Order \in Injection(1..Len(Order), Caps)
  BY <1>3, <1>4, BrowseAssumption, FS_SurjSameCardinalityImpliesInj
<1>6. QED
  BY <1>1, <1>2, <1>5 DEF Injection, IsInjective

(* Two captures of one URL differ in their timestamps.                     *)
LEMMA StampsDiffer ==
  ASSUME NEW c \in Caps, NEW d \in Caps, c # d, to_surt[c] = to_surt[d]
  PROVE  Stamp[c] # Stamp[d]
<1>1. PICK i \in DOMAIN Order : Order[i] = c
  BY OrderPlaces
<1>2. PICK j \in DOMAIN Order : Order[j] = d
  BY OrderPlaces
<1>3. i \in Nat /\ j \in Nat /\ i # j
  BY <1>1, <1>2, OrderPlaces
<1>4. Stamp[c] \in Nat /\ Stamp[d] \in Nat
  BY BrowseAssumption
<1>5. \A m, n \in DOMAIN Order : m < n /\ to_surt[Order[m]] = to_surt[Order[n]] =>
                                Stamp[Order[m]] < Stamp[Order[n]]
  BY BrowseAssumption
<1>6. CASE i < j
  BY <1>1, <1>2, <1>4, <1>5, <1>6
<1>7. CASE j < i
  BY <1>1, <1>2, <1>4, <1>5, <1>7
<1>8. QED
  BY <1>3, <1>6, <1>7

(* Counting upwards numbers the members of a finite set of numbers.        *)
Rank(P, i) == Cardinality({j \in P : j <= i})

(* The later member has the greater number.                                *)
LEMMA RankGrows ==
  ASSUME NEW L \in Nat, NEW P \in SUBSET (1..L), NEW i \in P, NEW k \in P, i < k
  PROVE  Rank(P, i) < Rank(P, k)
<1> DEFINE A == {j \in P : j <= i}
           B == {j \in P : j <= k}
<1>1. IsFiniteSet(P)
  BY FirstNumbers, FS_Subset
<1>2. B \in SUBSET P /\ A \in SUBSET B /\ A # B
  <2>1. \A j \in P : j \in Int
    OBVIOUS
  <2>2. k \in B /\ k \notin A
    BY <2>1
  <2>3. \A j \in P : j <= i => j <= k
    BY <2>1
  <2>4. A \in SUBSET B
    BY <2>3
  <2>5. QED
    BY <2>2, <2>4
<1>3. IsFiniteSet(B)
  BY <1>1, <1>2, FS_Subset
<1>4. IsFiniteSet(A) /\ Cardinality(A) <= Cardinality(B) /\ Cardinality(A) # Cardinality(B)
  BY <1>2, <1>3, FS_Subset
<1>5. Cardinality(A) \in Nat /\ Cardinality(B) \in Nat
  BY <1>3, <1>4, FS_CardinalityType
<1> HIDE DEF A, B
<1>6. Cardinality(A) < Cardinality(B)
  BY <1>4, <1>5
<1>7. QED
  BY <1>6 DEF A, B, Rank

(* The numbers run from 1 to the size of the set, each given once.         *)
LEMMA Ranks ==
  ASSUME NEW L \in Nat, NEW P \in SUBSET (1..L)
  PROVE  /\ Cardinality(P) \in Nat
         /\ \A i \in P : Rank(P, i) \in 1..Cardinality(P)
         /\ \A i, k \in P : Rank(P, i) = Rank(P, k) => i = k
         /\ \A n \in 1..Cardinality(P) : \E i \in P : Rank(P, i) = n
<1>1. IsFiniteSet(P) /\ Cardinality(P) \in Nat
  BY FirstNumbers, FS_Subset, FS_CardinalityType
<1>2. ASSUME NEW i \in P PROVE Rank(P, i) \in 1..Cardinality(P)
  <2> DEFINE A == {j \in P : j <= i}
  <2>1. A \in SUBSET P /\ i \in A
    OBVIOUS
  <2>2. IsFiniteSet(A) /\ Cardinality(A) <= Cardinality(P)
    BY <1>1, <2>1, FS_Subset
  <2>3. Cardinality(A) \in Nat /\ Cardinality(A) # 0
    BY <2>1, <2>2, FS_CardinalityType, FS_EmptySet
  <2> HIDE DEF A
  <2>4. Cardinality(A) \in 1..Cardinality(P)
    BY <1>1, <2>2, <2>3
  <2>5. QED
    BY <2>4 DEF A, Rank
<1>3. ASSUME NEW i \in P, NEW k \in P, Rank(P, i) = Rank(P, k) PROVE i = k
  <2>1. Rank(P, i) \in Int /\ Rank(P, k) \in Int /\ i \in Int /\ k \in Int
    BY <1>2
  <2>2. ~(Rank(P, i) < Rank(P, k)) /\ ~(Rank(P, k) < Rank(P, i))
    BY <1>3, <2>1
  <2>3. ~(i < k) /\ ~(k < i)
    BY <2>2, RankGrows
  <2>4. QED
    BY <2>1, <2>3
<1> DEFINE f == [i \in P |-> Rank(P, i)]
<1>4. f \in Injection(P, 1..Cardinality(P))
  BY <1>2, <1>3 DEF Injection, IsInjective
<1>5. IsFiniteSet(1..Cardinality(P)) /\ Cardinality(1..Cardinality(P)) = Cardinality(P)
  BY <1>1, FirstNumbers
<1>6. f \in Surjection(P, 1..Cardinality(P))
  BY <1>4, <1>5, FS_Injection
<1>7. QED
  BY <1>1, <1>2, <1>3, <1>6 DEF Surjection

(* Ascending lists them: member i at place Rank(i), each before the        *)
(* greater ones.                                                           *)
LEMMA Upwards ==
  ASSUME NEW L \in Nat, NEW P \in SUBSET (1..L)
  PROVE  /\ Ascending(P) \in [1..Cardinality(P) -> P]
         /\ \A i \in P : Ascending(P)[Rank(P, i)] = i
         /\ \A n \in 1..Cardinality(P) : Rank(P, Ascending(P)[n]) = n
         /\ \A m, n \in 1..Cardinality(P) : m < n => Ascending(P)[m] < Ascending(P)[n]
<1> DEFINE Nth(n) == CHOOSE i \in P : Rank(P, i) = n
           up == Ascending(P)
<1>1. /\ Cardinality(P) \in Nat
      /\ \A i \in P : Rank(P, i) \in 1..Cardinality(P)
      /\ \A i, k \in P : Rank(P, i) = Rank(P, k) => i = k
      /\ \A n \in 1..Cardinality(P) : \E i \in P : Rank(P, i) = n
  BY Ranks
<1>2. up = [n \in 1..Cardinality(P) |-> Nth(n)]
  BY DEF Ascending, Rank
<1>3. \A n \in 1..Cardinality(P) : Nth(n) \in P /\ Rank(P, Nth(n)) = n
  BY <1>1
<1>4. \A i \in P : Nth(Rank(P, i)) = i
  BY <1>1, <1>3
<1> HIDE DEF Nth, up
<1>5. up \in [1..Cardinality(P) -> P]
  BY <1>2, <1>3
<1>6. \A i \in P : up[Rank(P, i)] = i
  BY <1>1, <1>2, <1>4
<1>7. \A n \in 1..Cardinality(P) : Rank(P, up[n]) = n
  BY <1>2, <1>3
<1>8. ASSUME NEW m \in 1..Cardinality(P), NEW n \in 1..Cardinality(P), m < n
      PROVE  up[m] < up[n]
  <2>1. up[m] \in P /\ up[n] \in P /\ m \in Int /\ n \in Int
    BY <1>1, <1>5
  <2>2. up[n] < up[m] => n < m
    <3>1. up[n] < up[m] => Rank(P, up[n]) < Rank(P, up[m])
      BY <2>1, RankGrows
    <3>2. QED
      BY <1>7, <3>1
  <2>3. up[n] # up[m]
    BY <1>7, <1>8
  <2>4. \A i \in P : i \in Int
    OBVIOUS
  <2>5. up[m] \in Int /\ up[n] \in Int
    BY <2>1, <2>4, Zenon
  <2>6. ~(n < m)
    BY <1>8, <2>1
  <2>7. QED
    BY <2>2, <2>3, <2>5, <2>6
<1>9. QED
  BY <1>5, <1>6, <1>7, <1>8 DEF up

(* A query lists the captures of the table, and each of them: the one that *)
(* stands at place i is row number Rank(i).                                *)
LEMMA Listed ==
  ASSUME NEW table
  PROVE  /\ Cardinality(Places(table)) \in Nat
         /\ Ordered(table) \in [1..Cardinality(Places(table)) -> Caps]
         /\ \A i \in Places(table) :
              /\ Rank(Places(table), i) \in 1..Cardinality(Places(table))
              /\ Ordered(table)[Rank(Places(table), i)] = Order[i]
         /\ \A n \in 1..Cardinality(Places(table)) :
              \E i \in Places(table) : Rank(Places(table), i) = n
<1> DEFINE P == Places(table)
           up == Ascending(P)
<1>1. Len(Order) \in Nat /\ P \in SUBSET (1..Len(Order)) /\ Order \in [1..Len(Order) -> Caps]
  BY OrderPlaces DEF Places
<1>2. Ordered(table) = [n \in DOMAIN up |-> Order[up[n]]]
  BY DEF Ordered, Places
<1>3. /\ Cardinality(P) \in Nat
      /\ \A i \in P : Rank(P, i) \in 1..Cardinality(P)
      /\ \A n \in 1..Cardinality(P) : \E i \in P : Rank(P, i) = n
  BY <1>1, Ranks
<1>4. up \in [1..Cardinality(P) -> P] /\ \A i \in P : up[Rank(P, i)] = i
  BY <1>1, Upwards
<1> HIDE DEF P, up
<1>5. \A n \in 1..Cardinality(P) : Order[up[n]] \in Caps
  BY <1>1, <1>4
<1>6. DOMAIN up = 1..Cardinality(P)
  BY <1>4
<1>7. Ordered(table) \in [1..Cardinality(P) -> Caps]
  BY <1>2, <1>5, <1>6
<1>8. \A i \in P : Ordered(table)[Rank(P, i)] = Order[i]
  BY <1>2, <1>3, <1>4, <1>6
<1>9. QED
  BY <1>3, <1>7, <1>8 DEF P

-----------------------------------------------------------------------------
(* A revisit repeats a response that has been indexed.                     *)

(* LIMIT.                                                                  *)
LEMMA FirstRows ==
  ASSUME NEW n \in Nat, NEW T, NEW s \in [1..n -> T], NEW m \in Nat
  PROVE  /\ Len(First(s, m)) <= m /\ Len(First(s, m)) <= n /\ Len(First(s, m)) \in Nat
         /\ First(s, m) \in [1..Len(First(s, m)) -> T]
         /\ Len(First(s, m)) < m => Len(First(s, m)) = n
<1>1. s \in Seq(T) /\ Len(s) = n
  OBVIOUS
<1> DEFINE f == First(s, m)
           l == IF n < m THEN n ELSE m
<1>2. f = SubSeq(s, 1, l) /\ l \in Nat /\ l <= n /\ l <= m /\ (l < m => l = n)
  BY <1>1 DEF First
<1> HIDE DEF f, l
<1>3. f \in Seq(T) /\ Len(f) = l
  BY <1>1, <1>2
<1>4. f \in [1..l -> T]
  BY <1>3
<1>5. QED
  BY <1>2, <1>3, <1>4 DEF f

(* What the timemap tells the crawler is a row of the URL.                 *)
LEMMA Latest ==
  ASSUME NEW surt, NEW table, cdx_timemap(surt, -1, table) # <<>>
  PROVE  /\ cdx_timemap(surt, -1, table)[1] \in table \cap Caps
         /\ to_surt[cdx_timemap(surt, -1, table)[1]] = surt
<1> DEFINE T == {c \in table : to_surt[c] = surt}
           P == Places(T)
           N == Cardinality(P)
           all == Ordered(T)
           back == Reverse(all)
<1>1. /\ N \in Nat /\ all \in [1..N -> Caps]
      /\ \A i \in P : all[Rank(P, i)] = Order[i]
      /\ \A n \in 1..N : \E i \in P : Rank(P, i) = n
  BY Listed
<1>2. \A i \in P : Order[i] \in T
  BY DEF Places
<1> HIDE DEF all, N, P
<1>3. \A n \in 1..N : all[n] \in T
  BY <1>1, <1>2
<1>4. Len(all) = N /\ back = [i \in 1..N |-> all[N - i + 1]]
  BY <1>1 DEF Reverse
<1>5. back \in [1..N -> Caps]
  BY <1>1, <1>4
<1>6. cdx_timemap(surt, -1, table) = First(back, 1)
  BY DEF cdx_timemap, get_by_surt, all
<1> HIDE DEF back
<1>7. N # 0
  <2> SUFFICES ASSUME N = 0 PROVE FALSE
    OBVIOUS
  <2>1. Len(back) = 0
    BY <1>5
  <2>2. First(back, 1) = SubSeq(back, 1, 0)
    BY <2>1 DEF First
  <2>3. SubSeq(back, 1, 0) = <<>>
    BY <1>5
  <2>4. QED
    BY <1>6, <2>2, <2>3
<1>8. First(back, 1)[1] = back[1]
  <2>1. back \in Seq(Caps) /\ Len(back) = N /\ N >= 1
    BY <1>1, <1>5, <1>7
  <2>2. First(back, 1) = SubSeq(back, 1, 1)
    BY <2>1, <1>1 DEF First
  <2>3. QED
    BY <2>1, <2>2
<1>9. back[1] = all[N] /\ N \in 1..N
  BY <1>1, <1>4, <1>7
<1>10. all[N] \in T \cap Caps
  BY <1>1, <1>3, <1>9
<1>11. QED
  BY <1>6, <1>8, <1>9, <1>10

-----------------------------------------------------------------------------
(* The pages.                                                              *)

(* A function on a finite set takes finitely many values.                  *)
LEMMA FiniteImage ==
  ASSUME NEW S, IsFiniteSet(S), NEW f, DOMAIN f = S
  PROVE  IsFiniteSet({f[x] : x \in S})
<1> DEFINE g == [x \in S |-> f[x]]
<1>1. g \in Surjection(S, {f[x] : x \in S})
  BY DEF Surjection
<1>2. QED
  BY <1>1, FS_Surjection

(* GROUP BY over a finite table gives finitely many groups: for the root, ... *)
LEMMA TldGroups ==
  ASSUME NEW table \in SUBSET Caps
  PROVE  IsFiniteSet(browse_tlds(table))
<1> DEFINE f == [c \in table |-> <<TldOf(c), Cardinality({d \in table : TldOf(d) = TldOf(c)})>>]
<1>1. IsFiniteSet(table)
  BY BrowseAssumption, FS_Subset
<1>2. browse_tlds(table) = {f[c] : c \in table}
  BY DEF browse_tlds, Groups
<1>3. DOMAIN f = table
  OBVIOUS
<1> HIDE DEF f
<1>4. QED
  BY <1>1, <1>2, <1>3, FiniteImage

(* ... for the domains under a TLD, ...                                    *)
LEMMA DomainGroups ==
  ASSUME NEW table \in SUBSET Caps, NEW tld
  PROVE  IsFiniteSet(browse_domains(tld, table))
<1> DEFINE key(c) == DomainOf(tld \o <<",">>, c)
           T == Under(tld \o <<",">>, table)
           f == [c \in T |-> <<key(c), Cardinality({d \in T : key(d) = key(c)})>>]
<1>1. T \in SUBSET Caps
  BY DEF Under
<1>2. IsFiniteSet(T)
  BY <1>1, BrowseAssumption, FS_Subset
<1>3. browse_domains(tld, table) = {f[c] : c \in T}
  BY DEF browse_domains, Groups
<1> HIDE DEF T, f
<1>4. DOMAIN f = T
  BY DEF f
<1>5. QED
  BY <1>2, <1>3, <1>4, FiniteImage

(* ... and for the hosts of a domain.                                      *)
LEMMA HostGroups ==
  ASSUME NEW table \in SUBSET Caps, NEW prefix
  PROVE  IsFiniteSet(browse_subdomains(prefix, table))
<1> DEFINE T == Under(prefix \o <<")">>, table) \cup Under(prefix \o <<",">>, table)
           f == [c \in T |-> <<HostOf(c), Cardinality({d \in T : HostOf(d) = HostOf(c)})>>]
<1>1. T \in SUBSET Caps
  BY DEF Under
<1>2. IsFiniteSet(T)
  BY <1>1, BrowseAssumption, FS_Subset
<1>3. browse_subdomains(prefix, table) = {f[c] : c \in T}
  BY DEF browse_subdomains, Groups
<1> HIDE DEF T, f
<1>4. DOMAIN f = T
  BY DEF f
<1>5. QED
  BY <1>2, <1>3, <1>4, FiniteImage

(* No page lists more groups than the limit.                               *)
LEMMA ListingFits ==
  ASSUME NEW kind, NEW of, NEW groups, IsFiniteSet(groups), NEW page \in Listing(kind, of, groups)
  PROVE  page.kind = kind /\ Cardinality(page.rows) <= MaxRows
<1>1. PICK S \in TopSets(groups, MaxRows) :
        page = [kind |-> kind, of |-> of, rows |-> S, truncated |-> Cardinality(groups) > MaxRows]
  BY DEF Listing
<1>2. Cardinality(groups) \in Nat /\ MaxRows \in Nat
  BY BrowseAssumption, FS_CardinalityType
<1>3. Cardinality(S) = IF Cardinality(groups) < MaxRows THEN Cardinality(groups) ELSE MaxRows
  BY DEF TopSets
<1>4. Cardinality(S) <= MaxRows
  BY <1>2, <1>3
<1>5. QED
  BY <1>1, <1>4

(* The same of whatever page browse_handler answers with.                  *)
LEMMA PageFits ==
  ASSUME NEW table \in SUBSET Caps, NEW q, NEW page \in Pages(q, table)
  PROVE  /\ page.kind \in PageKinds
         /\ page.kind \in {"tlds", "domains", "hosts"} => Cardinality(page.rows) <= MaxRows
<1>1. CASE q.kind = "host" \/ (q.kind = "domain" /\ Dots(q.name) # 1)
  BY <1>1 DEF Pages, browse_captures, PageKinds
<1>2. CASE q.kind = "domain" /\ Dots(q.name) = 1
  <2> DEFINE prefix == domain_to_surt_prefix(q.name)
             top == SubSeq(prefix, 1, Len(prefix) - 1)
  <2>1. page \in Listing("hosts", q.name, browse_subdomains(top, table))
    BY <1>2 DEF Pages
  <2>2. IsFiniteSet(browse_subdomains(top, table))
    BY HostGroups
  <2>3. QED
    BY <2>1, <2>2, ListingFits DEF PageKinds
<1>3. CASE q.kind = "tld"
  <2>1. page \in Listing("domains", q.name, browse_domains(q.name, table))
    BY <1>3 DEF Pages
  <2>2. QED
    BY <2>1, DomainGroups, ListingFits DEF PageKinds
<1>4. CASE q.kind = "url"
  BY <1>4 DEF Pages, ui_url, PageKinds
<1>5. CASE q.kind \notin {"host", "domain", "tld", "url"}
  <2>1. page \in Listing("tlds", <<>>, browse_tlds(table))
    BY <1>5 DEF Pages
  <2>2. QED
    BY <2>1, TldGroups, ListingFits DEF PageKinds
<1>6. QED
  BY <1>1, <1>2, <1>3, <1>4, <1>5

-----------------------------------------------------------------------------
(* The inductive invariant.                                                *)

(* The homepage and the statistics page under way.                         *)
Shaped ==
  /\ req.kind = "home" =>
       req = [kind |-> "home", total |-> req.total, left |-> req.left, cards |-> req.cards,
              shown |-> req.shown]
  /\ req.kind = "stats" =>
       req = [kind |-> "stats", left |-> req.left, total |-> req.total, cards |-> req.cards]

(* What the crawler has written is its own, and nothing of the crawl is    *)
(* indexed before it is written.                                           *)
Written ==
  /\ \A c \in Caps : stored[c] # "no" => c \in Crawlable
  /\ \A c \in (rows \cup purged) \cap Crawlable : stored[c] # "no"

(* A response of the URL, indexed once, with the payload.                  *)
Holds(d, surt, digest) ==
  d \in rows \cup purged /\ stored[d] = "response" /\ Digest[d] = digest /\ to_surt[d] = surt

(* The crawler writes in the order of time, and what it was told is the    *)
(* digest of a response that was indexed before it asked.                  *)
ToldTruly ==
  asked # Idle =>
    /\ asked.cap \in Crawlable /\ stored[asked.cap] = "no"
    /\ asked.digest # NoDigest =>
         \E d \in Caps : Holds(d, to_surt[asked.cap], asked.digest) /\ Stamp[d] < Stamp[asked.cap]

RevisitsRepeat ==
  \A c \in Caps : stored[c] = "revisit" =>
    \E d \in Caps : Holds(d, to_surt[c], Digest[c]) /\ Stamp[d] < Stamp[c]

BInv == TypeOK /\ Shaped /\ Written /\ ToldTruly /\ RevisitsRepeat

(* The invariant holds of the empty table.                                 *)
LEMMA InitBInv == Init => BInv
<1> SUFFICES ASSUME Init PROVE BInv
  OBVIOUS
<1>1. req.kind = "none" /\ asked = Idle /\ rows = {} /\ purged = {} /\ steady = FALSE
  BY DEF Init, Idle
<1>2. stored \in [Caps -> {"no", "response", "revisit"}] /\ \A c \in Caps : stored[c] = "no"
  BY DEF Init
<1>3. TypeOK
  BY <1>1, <1>2 DEF TypeOK
<1>4. Shaped /\ Written /\ ToldTruly /\ RevisitsRepeat
  BY <1>1, <1>2 DEF Shaped, Written, ToldTruly, RevisitsRepeat
<1>5. QED
  BY <1>3, <1>4 DEF BInv

(* Requests leave the tables and the crawler alone.                        *)
LEMMA RequestFrame ==
  BInv /\ UNCHANGED <<rows, stored, asked, purged>> => (Written /\ ToldTruly /\ RevisitsRepeat)'
BY DEF BInv, Written, ToldTruly, RevisitsRepeat, Holds

(* An answer of bounded length in place of another keeps the invariant.    *)
LEMMA RequestStep ==
  ASSUME BInv, UNCHANGED <<rows, stored, asked, purged>>, steady' \in BOOLEAN,
         /\ req'.kind \in {"none", "home", "stats", "cdx"} \cup PageKinds
         /\ req'.kind \in {"tlds", "domains", "hosts"} => Cardinality(req'.rows) <= MaxRows
         /\ req'.kind = "cdx" /\ req'.prefix => Len(req'.rows) <= CdxLimit,
         Shaped'
  PROVE  BInv'
<1>1. TypeOK'
  BY DEF BInv, TypeOK
<1>2. QED
  BY <1>1, RequestFrame DEF BInv

(* ... and so does an answer of /cdx.                                      *)
LEMMA CdxStep ==
  ASSUME BInv, NEW c \in rows, NEW prefix \in BOOLEAN, NEW from, cdx_handler(c, prefix, from)
  PROVE  BInv'
<1>1. /\ UNCHANGED <<rows, stored, asked, purged>> /\ steady' = TRUE
      /\ req'.kind = "cdx" /\ req'.prefix = prefix /\ req'.rows = CdxAnswer(c, prefix, from, rows)
  BY DEF cdx_handler
<1>2. prefix => Len(req'.rows) <= CdxLimit
  <2> SUFFICES ASSUME prefix PROVE Len(req'.rows) <= CdxLimit
    OBVIOUS
  <2> DEFINE T == Under(SubSeq(to_surt[c], 1, Find(to_surt[c], ")")), rows)
             all == Ordered(T)
             N == Cardinality(Places(T))
  <2>1. req'.rows = First(all, CdxLimit)
    BY <1>1 DEF CdxAnswer, get_by_surt_prefix
  <2>2. N \in Nat /\ all \in [1..N -> Caps]
    BY Listed
  <2>3. CdxLimit \in Nat
    BY BrowseAssumption
  <2> HIDE DEF N, all
  <2>4. Len(First(all, CdxLimit)) <= CdxLimit
    BY <2>2, <2>3, FirstRows
  <2>5. QED
    BY <2>1, <2>4
<1>3. Shaped'
  BY <1>1 DEF Shaped
<1>4. QED
  BY <1>1, <1>2, <1>3, RequestStep

(* The crawler learns of a response.                                       *)
LEMMA AskStep ==
  ASSUME BInv, NEW c \in Caps, CrawlAsk(c)
  PROVE  BInv'
<1>1. /\ c \in Crawlable /\ stored[c] = "no"
      /\ \A d \in Crawlable : stored[d] # "no" => Stamp[d] <= Stamp[c]
      /\ UNCHANGED <<rows, stored, req, purged, steady>>
  BY DEF CrawlAsk
<1> DEFINE latest == cdx_timemap(to_surt[c], -1, rows)
<1>2. asked' = [kind |-> "ask", cap |-> c,
                digest |-> IF latest = <<>> THEN NoDigest ELSE Digest[latest[1]]]
  BY DEF CrawlAsk
<1>3. asked' # Idle /\ asked'.cap = c
  BY <1>2 DEF Idle
<1>4. ASSUME asked'.digest # NoDigest
      PROVE  \E d \in Caps : Holds(d, to_surt[c], asked'.digest) /\ Stamp[d] < Stamp[c]
  <2>1. latest # <<>> /\ asked'.digest = Digest[latest[1]]
    BY <1>2, <1>4
  <2>2. latest[1] \in rows \cap Caps /\ to_surt[latest[1]] = to_surt[c]
    BY <2>1, Latest
  <2> HIDE DEF latest
  <2>3. Coll[latest[1]] = Archive
    BY <1>4, <2>1, <2>2, BrowseAssumption
  <2>4. latest[1] \in Crawlable /\ stored[latest[1]] # "no"
    BY <2>2, <2>3 DEF Crawlable, BInv, Written
  <2>5. PICK d \in Caps : /\ Holds(d, to_surt[c], asked'.digest)
                          /\ d \in Crawlable
    <3>1. CASE stored[latest[1]] = "response"
      BY <2>1, <2>2, <2>4, <3>1 DEF Holds
    <3>2. CASE stored[latest[1]] = "revisit"
      <4>1. PICK d \in Caps : Holds(d, to_surt[latest[1]], Digest[latest[1]])
        BY <2>2, <3>2 DEF BInv, RevisitsRepeat
      <4>2. d \in Crawlable
        BY <4>1 DEF Holds, BInv, Written
      <4>3. QED
        BY <2>1, <2>2, <4>1, <4>2
    <3>3. QED
      BY <2>2, <2>4, <3>1, <3>2 DEF BInv, TypeOK
  <2>6. Stamp[d] <= Stamp[c] /\ d # c /\ to_surt[d] = to_surt[c]
    BY <1>1, <2>5 DEF Holds
  <2>7. Stamp[d] # Stamp[c]
    BY <2>6, StampsDiffer
  <2>8. Stamp[d] \in Nat /\ Stamp[c] \in Nat
    BY BrowseAssumption
  <2>9. Stamp[d] < Stamp[c]
    BY <2>6, <2>7, <2>8
  <2>10. QED
    BY <2>5, <2>9
<1>5. ToldTruly'
  BY <1>1, <1>3, <1>4 DEF ToldTruly, Holds
<1>6. TypeOK' /\ Shaped' /\ Written' /\ RevisitsRepeat'
  BY <1>1, <1>3 DEF BInv, TypeOK, Shaped, Written, RevisitsRepeat, Holds
<1>7. QED
  BY <1>5, <1>6 DEF BInv

(* It writes a revisit only when it was told the digest of its payload.    *)
LEMMA WriteStep ==
  ASSUME BInv, CrawlWrite
  PROVE  BInv'
<1>1. asked # Idle /\ asked' = Idle /\ UNCHANGED <<rows, req, purged, steady>>
  BY DEF CrawlWrite
<1>2. /\ asked.cap \in Crawlable /\ stored[asked.cap] = "no"
      /\ asked.digest # NoDigest =>
           \E d \in Caps : Holds(d, to_surt[asked.cap], asked.digest)
                             /\ Stamp[d] < Stamp[asked.cap]
  BY <1>1 DEF BInv, ToldTruly
<1>3. asked.cap \in Caps /\ Digest[asked.cap] # NoDigest
  BY <1>2, BrowseAssumption DEF Crawlable
<1>4. PICK how \in {"revisit", "response"} :
        /\ stored' = [stored EXCEPT ![asked.cap] = how]
        /\ how = "revisit" => Digest[asked.cap] = asked.digest
  BY DEF CrawlWrite
<1>5. stored \in [Caps -> {"no", "response", "revisit"}]
  BY DEF BInv, TypeOK
<1>6. \A d, s, g : Holds(d, s, g) => Holds(d, s, g)'
  <2> SUFFICES ASSUME NEW d, NEW s, NEW g, Holds(d, s, g) PROVE Holds(d, s, g)'
    OBVIOUS
  <2>1. d \in Caps /\ d # asked.cap
    BY <1>2 DEF Holds, BInv, TypeOK
  <2>2. stored'[d] = stored[d]
    BY <1>4, <1>5, <2>1
  <2>3. QED
    BY <1>1, <2>2 DEF Holds
<1>7. RevisitsRepeat'
  <2> SUFFICES ASSUME NEW c \in Caps, stored'[c] = "revisit"
               PROVE  \E d \in Caps : Holds(d, to_surt[c], Digest[c])' /\ Stamp[d] < Stamp[c]
    BY DEF RevisitsRepeat
  <2>1. CASE c = asked.cap
    <3>1. how = "revisit"
      BY <1>4, <1>5, <2>1
    <3>2. PICK d \in Caps : Holds(d, to_surt[c], Digest[c]) /\ Stamp[d] < Stamp[c]
      BY <1>2, <1>3, <1>4, <2>1, <3>1
    <3>3. QED
      BY <1>6, <3>2
  <2>2. CASE c # asked.cap
    <3>1. stored[c] = "revisit"
      BY <1>4, <1>5, <2>2
    <3>2. PICK d \in Caps : Holds(d, to_surt[c], Digest[c]) /\ Stamp[d] < Stamp[c]
      BY <3>1 DEF BInv, RevisitsRepeat
    <3>3. QED
      BY <1>6, <3>2
  <2>3. QED
    BY <2>1, <2>2
<1>8. TypeOK'
  BY <1>1, <1>4, <1>5 DEF BInv, TypeOK
<1>9. Written'
  BY <1>1, <1>2, <1>4, <1>5 DEF BInv, Written, Crawlable
<1>10. Shaped' /\ ToldTruly'
  BY <1>1 DEF BInv, Shaped, ToldTruly
<1>11. QED
  BY <1>7, <1>8, <1>9, <1>10 DEF BInv

(* What was indexed once stays in the table or among what a purge took.    *)
LEMMA TableStep ==
  ASSUME BInv, NEW c \in Caps, Commit(c) \/ Purge(c)
  PROVE  BInv'
<1>1. /\ UNCHANGED <<stored, asked, req>> /\ steady' = FALSE
      /\ rows' \cup purged' \in {rows \cup purged, rows \cup purged \cup {c}}
      /\ rows \cup purged \subseteq rows' \cup purged'
      /\ rows' \subseteq Caps /\ purged' \subseteq Caps /\ rows' \cap purged' = {}
  BY DEF Commit, Purge, BInv, TypeOK
<1>2. c \in (rows' \cup purged') \cap Crawlable => stored[c] # "no"
  BY DEF Commit, Purge, BInv, Written
<1>3. TypeOK' /\ Shaped'
  BY <1>1 DEF BInv, TypeOK, Shaped
<1>4. Written'
  BY <1>1, <1>2 DEF BInv, Written
<1>5. \A d, s, g : Holds(d, s, g) => Holds(d, s, g)'
  BY <1>1 DEF Holds
<1>6. ToldTruly' /\ RevisitsRepeat'
  BY <1>1, <1>5 DEF BInv, ToldTruly, RevisitsRepeat
<1>7. QED
  BY <1>3, <1>4, <1>6 DEF BInv

(* The invariant is inductive.                                             *)
LEMMA StepBInv == BInv /\ [Next]_vars => BInv'
<1> SUFFICES ASSUME BInv, [Next]_vars PROVE BInv'
  OBVIOUS
<1>1. ASSUME NEW q, Browse(q) PROVE BInv'
  <2>1. req' \in Pages(q, rows) /\ rows \in SUBSET Caps /\ steady' = FALSE
        /\ UNCHANGED <<rows, stored, asked, purged>>
    BY <1>1 DEF Browse, BInv, TypeOK
  <2>2. /\ req'.kind \in PageKinds
        /\ req'.kind \in {"tlds", "domains", "hosts"} => Cardinality(req'.rows) <= MaxRows
    BY <2>1, PageFits
  <2>3. Shaped'
    BY <2>2 DEF Shaped, PageKinds
  <2>4. req'.kind # "cdx"
    BY <2>2 DEF PageKinds
  <2>5. QED
    BY <2>1, <2>2, <2>3, <2>4, RequestStep
<1>2. CASE HomeTotal \/ StatsAsk
  <2>1. /\ req'.kind \in {"home", "stats"} /\ Shaped' /\ steady' = TRUE
        /\ UNCHANGED <<rows, stored, asked, purged>>
    BY <1>2 DEF HomeTotal, StatsAsk, Shaped
  <2>2. QED
    BY <2>1, RequestStep
<1>3. ASSUME NEW name, HomeCount(name) PROVE BInv'
  <2>1. /\ req'.kind = "home" /\ Shaped' /\ steady' = steady
        /\ UNCHANGED <<rows, stored, asked, purged>>
    BY <1>3 DEF HomeCount, BInv, Shaped
  <2>2. QED
    BY <2>1, RequestStep DEF BInv, TypeOK
<1>4. CASE HomeShow
  <2>1. /\ req'.kind = "home" /\ Shaped' /\ steady' = steady
        /\ UNCHANGED <<rows, stored, asked, purged>>
    BY <1>4 DEF HomeShow, BInv, Shaped
  <2>2. QED
    BY <2>1, RequestStep DEF BInv, TypeOK
<1>5. CASE StatsQuery
  <2>1. /\ req'.kind = "stats" /\ Shaped' /\ steady' = steady
        /\ UNCHANGED <<rows, stored, asked, purged>>
    BY <1>5 DEF StatsQuery, BInv, Shaped
  <2>2. QED
    BY <2>1, RequestStep DEF BInv, TypeOK
<1>6. ASSUME NEW c \in rows, NEW prefix \in BOOLEAN, cdx_handler(c, prefix, Stamp[c]) PROVE BInv'
  BY <1>6, CdxStep
<1>7. ASSUME NEW c \in Caps, CrawlAsk(c) \/ Commit(c) \/ Purge(c) PROVE BInv'
  BY <1>7, AskStep, TableStep
<1>8. CASE CrawlWrite
  BY <1>8, WriteStep
<1>9. CASE UNCHANGED vars
  BY <1>9 DEF vars, BInv, TypeOK, Shaped, Written, ToldTruly, RevisitsRepeat, Holds
<1>10. QED
  BY <1>1, <1>2, <1>3, <1>4, <1>5, <1>6, <1>7, <1>8, <1>9 DEF Next

(* However the crawler, the indexer and the purges interleave, every       *)
(* indexed revisit repeats an earlier response of its URL with its payload *)
(* that is indexed too or was purged: from_warc_record may leave it        *)
(* without a document.                                                     *)
THEOREM RevisitsAreIndexed == Spec => []RevisitIndexed
<1>1. BInv => RevisitIndexed
  BY DEF BInv, RevisitIndexed, RevisitsRepeat, Holds, TypeOK
<1>2. QED
  BY InitBInv, StepBInv, <1>1, PTL DEF Spec

-----------------------------------------------------------------------------
(* /cdx.                                                                   *)

(* No label of a host is a comma or a parenthesis.  The URL crate lets     *)
(* both pass in a host, and to_surt does not look.                         *)
PlainLabels == \A c \in Caps : \A i \in DOMAIN Name[c] : Name[c][i] \notin {",", ")"}

(* A sequence of one element.                                              *)
LEMMA Singly ==
  ASSUME NEW S, NEW x \in S
  PROVE  <<x>> \in Seq(S) /\ Len(<<x>>) = 1 /\ <<x>>[1] = x
OBVIOUS

(* One sequence behind another.                                            *)
LEMMA Behind ==
  ASSUME NEW S, NEW s \in Seq(S), NEW t \in Seq(S)
  PROVE  /\ s \o t \in Seq(S) /\ Len(s \o t) = Len(s) + Len(t) /\ Len(t) \in Nat
         /\ \A i \in 1..Len(s) : (s \o t)[i] = s[i]
         /\ \A i \in 1..Len(t) : (s \o t)[Len(s) + i] = t[i]
OBVIOUS

Tokens == STRING \cup {",", ")"}

(* Label k of the host is token 2k - 1 of the key; the host ends with the  *)
(* first parenthesis.                                                      *)
LEMMA SurtOf ==
  ASSUME PlainLabels, NEW c \in Caps
  PROVE  LET m == Len(Name[c])
             s == to_surt[c]
         IN  /\ m \in Nat \ {0} /\ s \in Seq(Tokens) /\ Len(s) >= 2 * m
             /\ s[2 * m] = ")"
             /\ \A i \in 1..(2 * m - 1) :
                  s[i] = IF i % 2 = 1 THEN Name[c][(i + 1) \div 2] ELSE ","
             /\ \A i \in 1..(2 * m - 1) : s[i] # ")"
             /\ \A k \in 1..m : s[2 * k - 1] = Name[c][k]
             /\ \A i \in DOMAIN s : i > 2 * m => s[i] \in Range(Path[c])
<1> DEFINE m == Len(Name[c])
           s == to_surt[c]
           host == Between(Name[c], ",")
<1>1. /\ Path[c] \in Seq(Tokens) /\ m \in Nat \ {0} /\ Name[c] \in [1..m -> Tokens]
  <2>1. Name[c] \in Seq(STRING) /\ Name[c] # <<>> /\ Path[c] \in Seq(STRING)
    BY BrowseAssumption
  <2>2. m \in Nat \ {0} /\ Name[c] \in [1..m -> STRING]
    BY <2>1
  <2>3. Name[c] \in [1..m -> Tokens]
    BY <2>2 DEF Tokens
  <2>4. Path[c] \in [1..Len(Path[c]) -> STRING] /\ Len(Path[c]) \in Nat
    BY <2>1
  <2>5. Path[c] \in [1..Len(Path[c]) -> Tokens]
    BY <2>4 DEF Tokens
  <2>6. Path[c] \in Seq(Tokens)
    BY <2>4, <2>5
  <2>7. QED
    BY <2>2, <2>3, <2>6
<1>4. s = host \o <<")">> \o Path[c]
  BY DEF to_surt
<1>5. /\ DOMAIN host = 1..(2 * m - 1)
      /\ \A i \in 1..(2 * m - 1) :
           host[i] = IF i % 2 = 1 THEN Name[c][(i + 1) \div 2] ELSE ","
      /\ host = [i \in 1..(2 * m - 1) |-> host[i]]
  BY DEF Between
<1> HIDE DEF host, m, s
<1>2. \A i \in 1..(2 * m - 1) : i % 2 = 1 => (i + 1) \div 2 \in 1..m
  BY <1>1
<1>x. "," \in Tokens /\ ")" \in Tokens
  BY DEF Tokens
<1>3. \A i \in 1..(2 * m - 1) : host[i] \in Tokens
  <2>1. \A k \in 1..m : Name[c][k] \in Tokens
    BY <1>1
  <2>2. QED
    BY <1>2, <1>5, <1>x, <2>1
<1>6. \A i \in 1..(2 * m - 1) : host[i] # ")"
  <2>1. \A k \in 1..m : Name[c][k] # ")"
    BY <1>1 DEF PlainLabels
  <2>2. QED
    BY <1>2, <1>5, <2>1
<1>7. host \in Seq(Tokens) /\ Len(host) = 2 * m - 1 /\ 2 * m - 1 \in Nat
  <2>1. 2 * m - 1 \in Nat
    BY <1>1
  <2>2. host \in [1..(2 * m - 1) -> Tokens]
    BY <1>3, <1>5
  <2>3. QED
    BY <2>1, <2>2
<1>8. /\ s \in Seq(Tokens) /\ Len(s) >= 2 * m /\ s[2 * m] = ")"
      /\ \A i \in 1..(2 * m - 1) : s[i] = host[i]
      /\ \A i \in DOMAIN s : i > 2 * m => s[i] \in Range(Path[c])
  <2> DEFINE paren == <<")">>
             front == host \o paren
  <2>1. paren \in Seq(Tokens) /\ Len(paren) = 1 /\ paren[1] = ")"
    BY <1>x, Singly
  <2> HIDE DEF paren
  <2>2. /\ front \in Seq(Tokens) /\ Len(front) = (2 * m - 1) + 1
        /\ \A i \in 1..(2 * m - 1) : front[i] = host[i]
        /\ front[(2 * m - 1) + 1] = paren[1]
    <3>1. /\ front \in Seq(Tokens) /\ Len(front) = Len(host) + Len(paren)
          /\ \A i \in 1..Len(host) : front[i] = host[i]
          /\ \A i \in 1..Len(paren) : front[Len(host) + i] = paren[i]
      BY <1>7, <2>1, Behind
    <3>2. 1 \in 1..Len(paren)
      BY <2>1
    <3> HIDE DEF front
    <3>3. QED
      BY <1>7, <2>1, <3>1, <3>2
  <2>3. s = front \o Path[c]
    BY <1>4 DEF paren
  <2> HIDE DEF front
  <2>4. (2 * m - 1) + 1 = 2 * m /\ 2 * m \in Nat
    BY <1>1
  <2>5. /\ s \in Seq(Tokens) /\ Len(s) = 2 * m + Len(Path[c]) /\ Len(Path[c]) \in Nat
        /\ \A i \in 1..(2 * m) : s[i] = front[i]
        /\ \A i \in 1..Len(Path[c]) : s[2 * m + i] = Path[c][i]
    <3>1. 2 * m = Len(front)
      BY <2>2, <2>4
    <3>2. /\ s \in Seq(Tokens) /\ Len(s) = Len(front) + Len(Path[c]) /\ Len(Path[c]) \in Nat
          /\ \A i \in 1..Len(front) : s[i] = front[i]
          /\ \A i \in 1..Len(Path[c]) : s[Len(front) + i] = Path[c][i]
      <4>1. front \in Seq(Tokens) /\ Path[c] \in Seq(Tokens)
        BY <1>1, <2>2
      <4>2. /\ front \o Path[c] \in Seq(Tokens)
            /\ Len(front \o Path[c]) = Len(front) + Len(Path[c]) /\ Len(Path[c]) \in Nat
            /\ \A i \in 1..Len(front) : (front \o Path[c])[i] = front[i]
            /\ \A i \in 1..Len(Path[c]) : (front \o Path[c])[Len(front) + i] = Path[c][i]
        BY <4>1, Behind
      <4>3. QED
        BY <2>3, <4>2
    <3>3. QED
      BY <3>1, <3>2
  <2>6. \A i \in 1..(2 * m - 1) : i \in 1..(2 * m)
    BY <1>1
  <2>7. 2 * m \in 1..(2 * m)
    BY <1>1
  <2>8. Len(s) >= 2 * m
    BY <2>4, <2>5
  <2>9. ASSUME NEW i \in DOMAIN s, i > 2 * m PROVE s[i] \in Range(Path[c])
    <3> DEFINE k == i - 2 * m
               path == Path[c]
    <3>1. path \in Seq(Tokens) /\ DOMAIN path = 1..Len(path)
      BY <1>1
    <3>2. DOMAIN s = 1..Len(s)
      BY <2>5
    <3>3. k \in 1..Len(path) /\ 2 * m + k = i
      <4> DEFINE n == Len(path)
      <4>1. i \in 1..(2 * m + n) /\ n \in Nat /\ m \in Nat /\ i > 2 * m
        BY <1>1, <2>5, <2>9, <3>2
      <4> HIDE DEF n
      <4>2. k \in 1..n /\ 2 * m + k = i
        BY <4>1
      <4>3. QED
        BY <4>2 DEF n
    <3> HIDE DEF k
    <3>4. s[i] = path[k]
      BY <2>5, <3>3
    <3>5. QED
      BY <3>1, <3>3, <3>4 DEF Range
  <2>10. QED
    BY <2>1, <2>2, <2>4, <2>5, <2>6, <2>7, <2>8, <2>9
<1>9. \A k \in 1..m : 2 * k - 1 \in 1..(2 * m - 1) /\ (2 * k - 1) % 2 = 1
                        /\ ((2 * k - 1) + 1) \div 2 = k
  BY <1>1
<1>10. \A k \in 1..m : s[2 * k - 1] = Name[c][k]
  BY <1>5, <1>8, <1>9
<1>11. QED
  BY <1>1, <1>5, <1>6, <1>8, <1>10 DEF m, s

(* The parenthesis behind the host is the first one.                       *)
LEMMA HostEnds ==
  ASSUME PlainLabels, NEW c \in Caps
  PROVE  Find(to_surt[c], ")") = 2 * Len(Name[c])
<1> DEFINE m == Len(Name[c])
           s == to_surt[c]
           at == {i \in DOMAIN s : s[i] = ")"}
<1>1. m \in Nat \ {0} /\ s \in Seq(Tokens) /\ Len(s) >= 2 * m
  BY SurtOf
<1>2. s[2 * m] = ")" /\ \A i \in 1..(2 * m - 1) : s[i] # ")"
  BY SurtOf
<1>3. 2 * m \in at /\ \A i \in at : 2 * m <= i
  <2>1. DOMAIN s = 1..Len(s)
    BY <1>1
  <2>2. QED
    BY <1>1, <1>2, <2>1
<1>4. \A i \in at : i \in Int
  BY <1>1
<1> HIDE DEF at
<1>5. (CHOOSE i \in at : \A j \in at : i <= j) = 2 * m
  BY <1>3, <1>4
<1>6. at # {}
  BY <1>3
<1>7. QED
  BY <1>5, <1>6 DEF Find, at

(* A key under the host part of a URL's key, parenthesis included, has     *)
(* the same host.                                                          *)
LEMMA SameHost ==
  ASSUME PlainLabels, NEW c \in Caps, NEW d \in Caps
  PROVE  IsPrefix(SubSeq(to_surt[c], 1, Find(to_surt[c], ")")), to_surt[d]) <=> Name[c] = Name[d]
<1> DEFINE m == Len(Name[c])
           n == Len(Name[d])
           s == to_surt[c]
           t == to_surt[d]
           p == SubSeq(s, 1, 2 * m)
<1>1. /\ m \in Nat \ {0} /\ s \in Seq(Tokens) /\ Len(s) >= 2 * m /\ s[2 * m] = ")"
      /\ \A i \in 1..(2 * m - 1) : s[i] # ")"
      /\ \A k \in 1..m : s[2 * k - 1] = Name[c][k]
  BY SurtOf
<1>2. /\ n \in Nat \ {0} /\ t \in Seq(Tokens) /\ Len(t) >= 2 * n /\ t[2 * n] = ")"
      /\ \A i \in 1..(2 * n - 1) : t[i] # ")"
      /\ \A k \in 1..n : t[2 * k - 1] = Name[d][k]
  BY SurtOf
<1>3. Name[c] \in Seq(STRING) /\ Name[d] \in Seq(STRING)
  BY BrowseAssumption
<1>4. /\ \A i \in 1..(2 * m - 1) : s[i] = IF i % 2 = 1 THEN Name[c][(i + 1) \div 2] ELSE ","
      /\ \A i \in 1..(2 * n - 1) : t[i] = IF i % 2 = 1 THEN Name[d][(i + 1) \div 2] ELSE ","
  BY SurtOf
<1> HIDE DEF m, n, s, t
<1>5. p \in Seq(Tokens) /\ Len(p) = 2 * m /\ \A i \in 1..(2 * m) : p[i] = s[i]
  BY <1>1
<1>6. SubSeq(p, 1, Len(p)) = p
  BY <1>1, <1>5
<1> HIDE DEF p
<1>7. IsPrefix(p, t) <=> 2 * m <= Len(t) /\ \A i \in 1..(2 * m) : t[i] = s[i]
  <2>1. IsPrefix(p, t) <=> 2 * m <= Len(t) /\ p = SubSeq(t, 1, 2 * m)
    BY <1>5, <1>6 DEF IsPrefix
  <2>2. ASSUME 2 * m <= Len(t)
        PROVE  /\ SubSeq(t, 1, 2 * m) \in Seq(Tokens) /\ Len(SubSeq(t, 1, 2 * m)) = 2 * m
               /\ \A i \in 1..(2 * m) : SubSeq(t, 1, 2 * m)[i] = t[i]
    BY <1>1, <1>2, <2>2
  <2>3. ASSUME 2 * m <= Len(t), \A i \in 1..(2 * m) : t[i] = s[i]
        PROVE  p = SubSeq(t, 1, 2 * m)
    <3> DEFINE u == SubSeq(t, 1, 2 * m)
    <3>1. u \in Seq(Tokens) /\ Len(u) = 2 * m /\ \A i \in 1..(2 * m) : u[i] = p[i]
      BY <1>5, <2>2, <2>3
    <3> HIDE DEF u
    <3>2. p = u
      BY <1>1, <1>5, <3>1
    <3>3. QED
      BY <3>2 DEF u
  <2>4. QED
    BY <1>5, <2>1, <2>2, <2>3
<1>8. ASSUME IsPrefix(p, t) PROVE Name[c] = Name[d]
  <2>1. 2 * m <= Len(t) /\ \A i \in 1..(2 * m) : t[i] = s[i]
    BY <1>7, <1>8
  <2>2. 2 * m \in 1..(2 * m) /\ 2 * n \in 1..(2 * n)
    BY <1>1, <1>2
  <2>3. t[2 * m] = ")"
    BY <1>1, <2>1, <2>2
  <2>4. ~(m < n)
    <3>1. m < n => 2 * m \in 1..(2 * n - 1)
      BY <1>1, <1>2
    <3>2. QED
      BY <1>2, <2>3, <3>1
  <2>5. ~(n < m)
    <3>1. n < m => 2 * n \in 1..(2 * m - 1) /\ 2 * n \in 1..(2 * m)
      BY <1>1, <1>2
    <3>2. n < m => s[2 * n] = ")"
      BY <1>2, <2>1, <3>1
    <3>3. QED
      BY <1>1, <3>1, <3>2
  <2>6. m = n
    BY <1>1, <1>2, <2>4, <2>5
  <2>7. \A k \in 1..m : Name[c][k] = Name[d][k]
    <3>1. \A k \in 1..m : 2 * k - 1 \in 1..(2 * m)
      BY <1>1
    <3>2. QED
      BY <1>1, <1>2, <2>1, <2>6, <3>1
  <2>8. QED
    BY <1>3, <2>6, <2>7 DEF m, n
<1>9. ASSUME Name[c] = Name[d] PROVE IsPrefix(p, t)
  <2>1. m = n
    BY <1>9 DEF m, n
  <2>2. \A i \in 1..(2 * m - 1) : t[i] = s[i]
    BY <1>4, <1>9, <2>1
  <2>3. t[2 * m] = s[2 * m] /\ Len(t) >= 2 * m
    BY <1>1, <1>2, <2>1
  <2>4. \A i \in 1..(2 * m) : i \in 1..(2 * m - 1) \/ i = 2 * m
    BY <1>1
  <2>5. Len(t) \in Nat /\ 2 * m \in Nat
    BY <1>1, <1>2
  <2>6. 2 * m <= Len(t)
    BY <2>3, <2>5
  <2>7. QED
    BY <1>7, <2>2, <2>3, <2>4, <2>6
<1>10. Find(s, ")") = 2 * m
  BY HostEnds DEF m, s
<1>11. SubSeq(s, 1, Find(s, ")")) = p
  BY <1>10 DEF p
<1>12. QED
  BY <1>8, <1>9, <1>11 DEF s, t

(* The rows of a query are those of the table, and none else.              *)
LEMMA AllListed ==
  ASSUME NEW T \in SUBSET Caps
  PROVE  Range(Ordered(T)) = T
<1> DEFINE P == Places(T)
           N == Cardinality(P)
           all == Ordered(T)
<1>1. /\ N \in Nat /\ all \in [1..N -> Caps]
      /\ \A i \in P : Rank(P, i) \in 1..N /\ all[Rank(P, i)] = Order[i]
      /\ \A n \in 1..N : \E i \in P : Rank(P, i) = n
  BY Listed
<1>2. \A i \in P : Order[i] \in T
  BY DEF Places
<1>3. \A c \in T : \E i \in P : Order[i] = c
  BY OrderPlaces DEF Places
<1> HIDE DEF P, N, all
<1>4. \A n \in 1..N : all[n] \in T
  BY <1>1, <1>2
<1>5. \A c \in T : \E n \in 1..N : all[n] = c
  BY <1>1, <1>3
<1>6. DOMAIN all = 1..N
  BY <1>1
<1>7. Range(all) = T
  BY <1>4, <1>5, <1>6 DEF Range
<1>8. QED
  BY <1>7 DEF all

(* The first rows of an ordered list are ordered like the rest.            *)
LEMMA FirstOrdered ==
  ASSUME NEW T \in SUBSET Caps, NEW limit \in Nat
  PROVE  /\ Range(First(Ordered(T), limit)) \subseteq T
         /\ First(Ordered(T), limit) = Ordered(Range(First(Ordered(T), limit)))
         /\ Len(First(Ordered(T), limit)) < limit => Range(First(Ordered(T), limit)) = T
<1> DEFINE P == Places(T)
           N == Cardinality(P)
           all == Ordered(T)
           s == First(all, limit)
           n == Len(s)
           R == Range(s)
           Q == Places(R)
           M == Cardinality(Q)
           some == Ordered(R)
<1>1. /\ N \in Nat /\ all \in [1..N -> Caps]
      /\ \A i \in P : Rank(P, i) \in 1..N /\ all[Rank(P, i)] = Order[i]
      /\ \A k \in 1..N : \E i \in P : Rank(P, i) = k
  BY Listed
<1>2. /\ M \in Nat /\ some \in [1..M -> Caps]
      /\ \A i \in Q : Rank(Q, i) \in 1..M /\ some[Rank(Q, i)] = Order[i]
      /\ \A k \in 1..M : \E i \in Q : Rank(Q, i) = k
  BY Listed
<1>3. Range(all) = T
  BY AllListed
<1>4. P \in SUBSET (1..Len(Order)) /\ Q \in SUBSET (1..Len(Order)) /\ Len(Order) \in Nat
  BY OrderPlaces DEF Places
<1>5. \A i, k \in DOMAIN Order : Order[i] = Order[k] => i = k
  BY OrderPlaces
<1>6. /\ \A i \in P : i \in DOMAIN Order /\ Order[i] \in T
      /\ \A i : i \in Q <=> i \in DOMAIN Order /\ Order[i] \in R
  BY DEF Places
<1>7. \A i, k \in P : i < k => Rank(P, i) < Rank(P, k)
  BY <1>4, RankGrows
<1>8. \A A : \A i : Rank(A, i) = Cardinality({j \in A : j <= i})
  BY DEF Rank
<1> HIDE DEF P, N, all, Q, M, some
<1>9. /\ n \in Nat /\ s \in [1..n -> Caps] /\ n <= limit /\ n <= N
      /\ \A k \in 1..n : s[k] = all[k]
      /\ n < limit => n = N
  <2>1. Len(First(all, limit)) \in Nat
    BY <1>1, FirstRows
  <2>2. Len(First(all, limit)) <= limit
    BY <1>1, FirstRows
  <2>3. Len(First(all, limit)) <= N
    BY <1>1, FirstRows
  <2>4. First(all, limit) \in [1..Len(First(all, limit)) -> Caps]
    BY <1>1, FirstRows
  <2>5. \A k \in 1..Len(First(all, limit)) : First(all, limit)[k] = all[k]
    <3>1. all \in Seq(Caps) /\ Len(all) = N
      BY <1>1
    <3> DEFINE l == IF N < limit THEN N ELSE limit
    <3>2. First(all, limit) = SubSeq(all, 1, l) /\ l \in Nat /\ l <= N
      BY <1>1, <3>1 DEF First
    <3> HIDE DEF l
    <3>3. Len(First(all, limit)) = l
      BY <3>1, <3>2
    <3>4. \A k \in 1..l : SubSeq(all, 1, l)[k] = all[k]
      BY <3>1, <3>2
    <3>5. QED
      BY <3>2, <3>3, <3>4
  <2>6. Len(First(all, limit)) < limit => Len(First(all, limit)) = N
    BY <1>1, FirstRows
  <2>7. QED
    BY <2>1, <2>2, <2>3, <2>4, <2>5, <2>6
<1>10. DOMAIN s = 1..n
  BY <1>9
<1> HIDE DEF s
<1>11. \A c : c \in R <=> \E k \in 1..n : all[k] = c
  BY <1>9, <1>10 DEF Range
<1> HIDE DEF n, R
<1>12. DOMAIN all = 1..N /\ \A k \in 1..N : all[k] \in T
  BY <1>1, <1>3 DEF Range
<1>13. R \subseteq T
  <2>1. \A k \in 1..n : k \in 1..N
    BY <1>1, <1>9
  <2>2. QED
    BY <1>11, <1>12, <2>1
<1>14. n < limit => R = T
  BY <1>3, <1>9, <1>11, <1>12 DEF Range
<1>15. \A i : i \in Q <=> i \in P /\ Rank(P, i) <= n
  <2>1. ASSUME NEW i \in Q PROVE i \in P /\ Rank(P, i) <= n
    <3>1. PICK k \in 1..n : all[k] = Order[i]
      BY <1>6, <1>11
    <3>2. PICK j \in P : Rank(P, j) = k
      BY <1>1, <1>9, <3>1
    <3>3. j = i
      BY <1>1, <1>5, <1>6, <3>1, <3>2
    <3>4. QED
      BY <1>9, <3>1, <3>2, <3>3
  <2>2. ASSUME NEW i \in P, Rank(P, i) <= n PROVE i \in Q
    <3>1. Rank(P, i) \in 1..n /\ all[Rank(P, i)] = Order[i]
      BY <1>1, <1>9, <2>2
    <3>2. QED
      BY <1>6, <1>11, <3>1
  <2>3. QED
    BY <2>1, <2>2
<1>16. \A i \in Q : Rank(Q, i) = Rank(P, i)
  <2> SUFFICES ASSUME NEW i \in Q PROVE Rank(Q, i) = Rank(P, i)
    OBVIOUS
  <2>1. ASSUME NEW j \in P, j <= i PROVE j \in Q
    <3>1. i \in P /\ Rank(P, i) <= n /\ i \in Int /\ j \in Int
      BY <1>4, <1>15
    <3>2. Rank(P, i) \in Int /\ Rank(P, j) \in Int /\ n \in Int
      BY <1>1, <1>9, <3>1
    <3>3. Rank(P, j) <= Rank(P, i)
      <4>1. j = i \/ j < i
        BY <2>1, <3>1
      <4>2. QED
        BY <1>7, <3>1, <3>2, <4>1
    <3>4. QED
      BY <1>15, <3>1, <3>2, <3>3
  <2>2. {j \in Q : j <= i} = {j \in P : j <= i}
    BY <1>15, <2>1
  <2>3. QED
    BY <1>8, <2>2
<1>17. M = n
  <2>1. ~(n < M)
    <3> SUFFICES ASSUME n < M PROVE FALSE
      OBVIOUS
    <3>1. PICK i \in Q : Rank(Q, i) = M
      BY <1>2, <1>9
    <3>2. QED
      BY <1>2, <1>9, <1>15, <1>16, <3>1
  <2>2. ~(M < n)
    <3> SUFFICES ASSUME M < n PROVE FALSE
      OBVIOUS
    <3>1. n \in 1..N
      BY <1>1, <1>2, <1>9
    <3>2. PICK i \in P : Rank(P, i) = n
      BY <1>1, <3>1
    <3>3. i \in Q /\ Rank(Q, i) = n
      BY <1>9, <1>15, <1>16, <3>2
    <3>4. QED
      BY <1>2, <1>9, <3>3
  <2>3. QED
    BY <1>2, <1>9, <2>1, <2>2
<1>18. \A k \in 1..n : some[k] = s[k]
  <2> SUFFICES ASSUME NEW k \in 1..n PROVE some[k] = s[k]
    OBVIOUS
  <2>1. PICK i \in Q : Rank(Q, i) = k
    BY <1>2, <1>17
  <2>2. i \in P /\ Rank(P, i) = k
    BY <1>15, <1>16, <2>1
  <2>3. some[k] = Order[i] /\ all[k] = Order[i]
    BY <1>1, <1>2, <2>1, <2>2
  <2>4. QED
    BY <1>9, <2>3
<1>19. s = some
  <2>1. DOMAIN some = 1..n /\ some = [k \in 1..n |-> some[k]]
    BY <1>2, <1>17
  <2>2. s = [k \in 1..n |-> s[k]]
    BY <1>9
  <2>3. QED
    BY <1>18, <2>1, <2>2
<1>20. QED
  BY <1>13, <1>14, <1>19 DEF R, n, s, some, all

(* As long as nothing was committed, the answer is what the table gives.   *)
CdxOwn ==
  req.kind = "cdx" /\ steady =>
    /\ req.of \in Caps /\ req.prefix \in BOOLEAN /\ req.from \in Nat
    /\ req.rows = CdxAnswer(req.of, req.prefix, req.from, rows)

(* CdxOwn is inductive relative to the invariant.                          *)
LEMMA CdxOwnStep == BInv /\ CdxOwn /\ [Next]_vars => CdxOwn'
<1> SUFFICES ASSUME BInv, CdxOwn, [Next]_vars PROVE CdxOwn'
  OBVIOUS
<1>1. ASSUME NEW q, Browse(q) PROVE CdxOwn'
  BY <1>1 DEF Browse, CdxOwn
<1>2. HomeTotal \/ StatsAsk => CdxOwn'
  BY DEF HomeTotal, StatsAsk, CdxOwn
<1>3. ASSUME NEW name, HomeCount(name) PROVE CdxOwn'
  <2>1. req'.kind = "home"
    BY <1>3 DEF HomeCount, BInv, Shaped
  <2>2. QED
    BY <2>1 DEF CdxOwn
<1>4. CASE HomeShow \/ StatsQuery
  <2>1. req'.kind \in {"home", "stats"}
    BY <1>4 DEF HomeShow, StatsQuery, BInv, Shaped
  <2>2. QED
    BY <2>1 DEF CdxOwn
<1>5. ASSUME NEW c \in rows, NEW prefix \in BOOLEAN, cdx_handler(c, prefix, Stamp[c]) PROVE CdxOwn'
  <2>1. c \in Caps /\ Stamp[c] \in Nat
    BY BrowseAssumption DEF BInv, TypeOK
  <2>2. QED
    BY <1>5, <2>1 DEF cdx_handler, CdxOwn
<1>6. ASSUME NEW c \in Caps, CrawlAsk(c) PROVE CdxOwn'
  BY <1>6 DEF CrawlAsk, CdxOwn
<1>7. ASSUME NEW c \in Caps, Commit(c) \/ Purge(c) PROVE CdxOwn'
  BY <1>7 DEF Commit, Purge, CdxOwn
<1>8. CrawlWrite \/ UNCHANGED vars => CdxOwn'
  BY DEF CrawlWrite, vars, CdxOwn
<1>9. QED
  BY <1>1, <1>2, <1>3, <1>4, <1>5, <1>6, <1>7, <1>8 DEF Next

(* With plain labels a prefix query is answered with the host of its URL   *)
(* alone, in order and complete below the limit, and an exact one with all *)
(* captures of the URL from the date on, for every table and limit.        *)
THEOREM PrefixStaysOnHost == PlainLabels => (Spec => []PrefixIsHost)
<1> SUFFICES ASSUME PlainLabels PROVE Spec => []PrefixIsHost
  OBVIOUS
<1>1. BInv /\ CdxOwn => PrefixIsHost
  <2> SUFFICES ASSUME BInv, CdxOwn, req.kind = "cdx", steady
               PROVE  LET due == {c \in rows : IF req.prefix THEN Name[c] = Name[req.of]
                                               ELSE to_surt[c] = to_surt[req.of]
                                                      /\ Stamp[c] >= req.from}
                      IN  /\ Range(req.rows) \subseteq due
                          /\ req.rows = Ordered(Range(req.rows))
                          /\ Len(req.rows) < CdxLimit \/ ~req.prefix => Range(req.rows) = due
    BY DEF PrefixIsHost
  <2>1. /\ req.of \in Caps /\ req.prefix \in BOOLEAN /\ req.from \in Nat /\ rows \subseteq Caps
        /\ req.rows = CdxAnswer(req.of, req.prefix, req.from, rows)
    BY DEF CdxOwn, BInv, TypeOK
  <2>2. CASE req.prefix
    <3> DEFINE T == {c \in rows : Name[c] = Name[req.of]}
               prefix == SubSeq(to_surt[req.of], 1, Find(to_surt[req.of], ")"))
    <3>1. Under(prefix, rows) = T
      BY <2>1, SameHost DEF Under
    <3>2. req.rows = First(Ordered(T), CdxLimit)
      BY <2>1, <2>2, <3>1 DEF CdxAnswer, get_by_surt_prefix
    <3>3. T \in SUBSET Caps /\ CdxLimit \in Nat
      BY <2>1, BrowseAssumption
    <3> HIDE DEF T
    <3> DEFINE all == First(Ordered(T), CdxLimit)
    <3>4. /\ Range(all) \subseteq T /\ all = Ordered(Range(all))
          /\ Len(all) < CdxLimit => Range(all) = T
      BY <3>3, FirstOrdered
    <3> HIDE DEF all
    <3>5. req.rows = all
      BY <3>2 DEF all
    <3>6. QED
      BY <2>2, <3>4, <3>5 DEF T
  <2>3. CASE ~req.prefix
    <3> DEFINE T == {c \in rows : to_surt[c] = to_surt[req.of] /\ Stamp[c] >= req.from}
    <3>1. \A c \in Caps : Stamp[c] \in Nat /\ Stamp[c] <= Horizon /\ Horizon \in Nat
      BY BrowseAssumption
    <3>2. \A c \in rows : Stamp[c] \in req.from..Horizon <=> Stamp[c] >= req.from
      BY <2>1, <3>1
    <3>3. {c \in rows : to_surt[c] = to_surt[req.of] /\ Stamp[c] \in req.from..Horizon} = T
      BY <3>2
    <3>4. req.rows = Ordered(T)
      BY <2>1, <2>3, <3>3 DEF CdxAnswer, get_by_surt_range
    <3>5. T \in SUBSET Caps
      BY <2>1
    <3> HIDE DEF T
    <3>6. Range(req.rows) = T
      BY <3>4, <3>5, AllListed
    <3>7. QED
      BY <2>3, <3>4, <3>6 DEF T
  <2>4. QED
    BY <2>1, <2>2, <2>3
<1>2. Init => CdxOwn
  BY DEF Init, Idle, CdxOwn
<1>3. QED
  BY InitBInv, StepBInv, CdxOwnStep, <1>1, <1>2, PTL DEF Spec

-----------------------------------------------------------------------------
(* Sums of counts.                                                         *)

(* Of a property of subsets of a finite set there is a smallest example.   *)
LEMMA Smallest ==
  ASSUME NEW S, IsFiniteSet(S), NEW T, T \subseteq SUBSET S, T # {}
  PROVE  \E A \in T : \A B \in T : B \subseteq A => B = A
<1>1. FiniteSubsetsOf(S) = SUBSET S
  BY FS_FiniteSubsetsOfFinite, Zenon
<1>2. IsWellFoundedOn(StrictSubsetOrdering(S), SUBSET S)
  BY <1>1, FS_StrictSubsetOrderingWellFounded
<1>3. PICK A \in T : \A B \in T : <<B, A>> \notin StrictSubsetOrdering(S)
  BY <1>2, WFMin, Zenon
<1>4. ASSUME NEW B \in T, B \subseteq A PROVE B = A
  <2>1. A \in SUBSET S /\ B \in SUBSET S
    OBVIOUS
  <2>2. B # A => <<B, A>> \in StrictSubsetOrdering(S)
    BY <1>4, <2>1 DEF StrictSubsetOrdering
  <2>3. QED
    BY <1>3, <2>2
<1>5. QED
  BY <1>4

(* Two sets without a common member.                                       *)
LEMMA Apart ==
  ASSUME NEW S, IsFiniteSet(S), NEW T, IsFiniteSet(T), S \cap T = {}
  PROVE  /\ IsFiniteSet(S \cup T)
         /\ Cardinality(S \cup T) = Cardinality(S) + Cardinality(T)
         /\ Cardinality(S) \in Nat /\ Cardinality(T) \in Nat
<1>1. Cardinality(S) \in Nat /\ Cardinality(T) \in Nat
  BY FS_CardinalityType
<1>2. Cardinality(S \cap T) = 0
  BY FS_EmptySet
<1>3. IsFiniteSet(S \cup T) /\ Cardinality(S \cup T) = Cardinality(S) + Cardinality(T) - 0
  BY <1>2, FS_Union
<1>4. QED
  BY <1>1, <1>3

(* Cards, and as many slips for each as it counts.                         *)
AreCards(cards) == IsFiniteSet(cards) /\ \A g \in cards : g[2] \in Nat
Slips(g) == {<<g, k>> : k \in 1..g[2]}
Pile(cards) == UNION {Slips(g) : g \in cards}

(* A card has as many slips as it counts.                                  *)
LEMMA SlipsOfCard ==
  ASSUME NEW g, g[2] \in Nat
  PROVE  IsFiniteSet(Slips(g)) /\ Cardinality(Slips(g)) = g[2]
<1> DEFINE f == [k \in 1..g[2] |-> <<g, k>>]
<1>1. f \in Bijection(1..g[2], Slips(g))
  BY DEF Bijection, Injection, IsInjective, Surjection, Slips
<1>2. IsFiniteSet(1..g[2]) /\ Cardinality(1..g[2]) = g[2]
  BY FirstNumbers
<1>3. ExistsBijection(1..g[2], Slips(g))
  BY <1>1 DEF ExistsBijection
<1>4. QED
  BY <1>2, <1>3, FS_Bijection

(* One card on the pile ...                                                *)
LEMMA OnPile ==
  ASSUME NEW cards, NEW g \in cards
  PROVE  /\ Pile(cards) = Pile(cards \ {g}) \cup Slips(g)
         /\ Pile(cards \ {g}) \cap Slips(g) = {}
<1>1. Pile(cards) = Pile(cards \ {g}) \cup Slips(g)
  BY Zenon DEF Pile
<1>2. ASSUME NEW x \in Pile(cards \ {g}), x \in Slips(g) PROVE FALSE
  <2>1. PICK h \in cards \ {g} : x \in Slips(h)
    BY DEF Pile
  <2>2. PICK k \in 1..h[2] : x = <<h, k>>
    BY <2>1 DEF Slips
  <2>3. PICK l \in 1..g[2] : x = <<g, l>>
    BY <1>2 DEF Slips
  <2>4. QED
    BY <2>2, <2>3
<1>3. QED
  BY <1>1, <1>2

(* ... and the pile grows by what it counts.                               *)
LEMMA PileGrows ==
  ASSUME NEW cards, AreCards(cards)
  PROVE  /\ IsFiniteSet(Pile(cards))
         /\ \A g \in cards :
              Cardinality(Pile(cards)) = g[2] + Cardinality(Pile(cards \ {g}))
<1> DEFINE Bad == {A \in SUBSET cards : ~IsFiniteSet(Pile(A))}
<1>1. ASSUME NEW A \in SUBSET cards PROVE IsFiniteSet(Pile(A))
  <2> SUFFICES ASSUME Bad # {} PROVE FALSE
    OBVIOUS
  <2>1. PICK B \in Bad : \A C \in Bad : C \subseteq B => C = B
    <3>1. IsFiniteSet(cards) /\ Bad \subseteq SUBSET cards
      BY DEF AreCards
    <3>2. Bad # {}
      OBVIOUS
    <3> HIDE DEF Bad
    <3>3. QED
      BY <3>1, <3>2, Smallest
  <2>2. B # {}
    <3>1. Pile({}) = {}
      BY DEF Pile
    <3>2. QED
      BY <3>1, FS_EmptySet
  <2>3. PICK g \in B : TRUE
    BY <2>2
  <2>4. IsFiniteSet(Pile(B \ {g}))
    BY <2>1, <2>3
  <2>5. IsFiniteSet(Slips(g))
    BY <2>3, SlipsOfCard DEF AreCards
  <2>6. IsFiniteSet(Pile(B \ {g}) \cup Slips(g))
    BY <2>4, <2>5, FS_Union
  <2>7. QED
    BY <2>3, <2>6, OnPile
<1>2. ASSUME NEW g \in cards
      PROVE  Cardinality(Pile(cards)) = g[2] + Cardinality(Pile(cards \ {g}))
  <2>1. IsFiniteSet(Slips(g)) /\ Cardinality(Slips(g)) = g[2]
    BY SlipsOfCard DEF AreCards
  <2>2. IsFiniteSet(Pile(cards \ {g}))
    BY <1>1
  <2>3. /\ Pile(cards) = Pile(cards \ {g}) \cup Slips(g)
        /\ Pile(cards \ {g}) \cap Slips(g) = {}
    BY OnPile
  <2> DEFINE P == Pile(cards \ {g})
             Q == Slips(g)
  <2> HIDE DEF P, Q
  <2>4. /\ Cardinality(P \cup Q) = Cardinality(P) + Cardinality(Q)
        /\ Cardinality(P) \in Nat /\ Cardinality(Q) \in Nat
    BY <2>1, <2>2, <2>3, Apart DEF P, Q
  <2>5. Cardinality(P \cup Q) = Cardinality(Q) + Cardinality(P)
    BY <2>4
  <2>6. QED
    BY <2>1, <2>3, <2>5 DEF P, Q
<1>3. QED
  BY <1>1, <1>2

(* The recursive function SumCards is defined with: on every set of the    *)
(* cards, the size of their pile.                                          *)
Adds(cards, f) ==
  f = [s \in SUBSET cards |->
         IF s = {} THEN 0 ELSE (CHOOSE g \in s : TRUE)[2] + f[s \ {CHOOSE g \in s : TRUE}]]

(* Adding up what the cards count is counting their slips, whatever the    *)
(* order they are taken in.                                                *)
LEMMA SumIsPile ==
  ASSUME NEW cards, AreCards(cards)
  PROVE  SumCards(cards) = Cardinality(Pile(cards)) /\ SumCards(cards) \in Nat
<1> DEFINE f == [s \in SUBSET cards |-> Cardinality(Pile(s))]
<1>1. ASSUME NEW s \in SUBSET cards, s # {}
      PROVE  LET g == CHOOSE x \in s : TRUE
             IN  f[s] = g[2] + f[s \ {g}]
  <2> DEFINE g == CHOOSE x \in s : TRUE
  <2>1. g \in s
    BY <1>1
  <2> HIDE DEF g
  <2>2. AreCards(s)
    BY FS_Subset DEF AreCards
  <2>3. Cardinality(Pile(s)) = g[2] + Cardinality(Pile(s \ {g}))
    BY <2>1, <2>2, PileGrows
  <2>4. f[s] = g[2] + f[s \ {g}]
    BY <2>3
  <2>5. QED
    BY <2>4 DEF g
<1>2. f[{}] = 0
  <2>1. Pile({}) = {}
    BY DEF Pile
  <2>2. QED
    BY <2>1, FS_EmptySet
<1>3. Adds(cards, f)
  <2> DEFINE F == [s \in SUBSET cards |->
                     IF s = {} THEN 0
                     ELSE (CHOOSE g \in s : TRUE)[2] + f[s \ {CHOOSE g \in s : TRUE}]]
  <2>1. \A s \in SUBSET cards : f[s] = F[s]
    BY <1>1, <1>2
  <2>2. f = F
    <3>1. DOMAIN f = SUBSET cards /\ DOMAIN F = SUBSET cards
      OBVIOUS
    <3>2. f = [s \in SUBSET cards |-> f[s]] /\ F = [s \in SUBSET cards |-> F[s]]
      OBVIOUS
    <3> HIDE DEF f, F
    <3>3. QED
      BY <2>1, <3>2, Zenon
  <2>3. QED
    BY <2>2 DEF Adds
<1>4. ASSUME NEW h, Adds(cards, h) PROVE h[cards] = f[cards]
  <2> DEFINE Bad == {A \in SUBSET cards : h[A] # f[A]}
  <2> SUFFICES ASSUME Bad # {} PROVE FALSE
    OBVIOUS
  <2>1. PICK B \in Bad : \A C \in Bad : C \subseteq B => C = B
    <3>1. IsFiniteSet(cards) /\ Bad \subseteq SUBSET cards
      BY DEF AreCards
    <3>2. Bad # {}
      OBVIOUS
    <3> HIDE DEF Bad
    <3>3. QED
      BY <3>1, <3>2, Smallest
  <2> DEFINE g == CHOOSE x \in B : TRUE
  <2>2. h[B] = IF B = {} THEN 0 ELSE g[2] + h[B \ {g}]
    BY <1>4 DEF Adds
  <2>3. B # {}
    BY <1>2, <2>1, <2>2
  <2>4. g \in B
    BY <2>3
  <2>5. f[B] = g[2] + f[B \ {g}]
    BY <1>1, <2>1, <2>3
  <2> HIDE DEF f, g
  <2>6. h[B \ {g}] = f[B \ {g}]
    BY <2>1, <2>4
  <2>7. QED
    BY <2>1, <2>2, <2>3, <2>5, <2>6
<1>5. SumCards(cards) = (CHOOSE h : Adds(cards, h))[cards]
  BY DEF SumCards, FoldSet, MapThenFoldSet, Adds
<1>6. Adds(cards, CHOOSE h : Adds(cards, h))
  BY <1>3
<1>7. SumCards(cards) = f[cards]
  BY <1>4, <1>5, <1>6
<1>8. Cardinality(Pile(cards)) \in Nat
  BY PileGrows, FS_CardinalityType
<1>9. QED
  BY <1>7, <1>8

(* One card more.                                                          *)
LEMMA OneCardMore ==
  ASSUME NEW cards, AreCards(cards), NEW g, g \notin cards, g[2] \in Nat
  PROVE  AreCards(cards \cup {g}) /\ SumCards(cards \cup {g}) = g[2] + SumCards(cards)
<1> DEFINE more == cards \cup {g}
<1>1. AreCards(more)
  BY FS_AddElement DEF AreCards
<1>2. more \ {g} = cards /\ g \in more
  OBVIOUS
<1> HIDE DEF more
<1>3. Cardinality(Pile(more)) = g[2] + Cardinality(Pile(more \ {g}))
  BY <1>1, <1>2, PileGrows
<1>4. SumCards(more) = Cardinality(Pile(more)) /\ SumCards(cards) = Cardinality(Pile(cards))
  BY <1>1, SumIsPile
<1>5. QED
  BY <1>1, <1>2, <1>3, <1>4 DEF more

(* GROUP BY the value of f.                                                *)
Group(f, x) == <<x, Cardinality({d \in DOMAIN f : f[d] = x})>>
GroupsOf(f) == {Group(f, f[c]) : c \in DOMAIN f}

(* The groups of a finite table are cards, and their counts add up to the  *)
(* number of rows.                                                         *)
LEMMA GroupsAddUp ==
  ASSUME NEW f, IsFiniteSet(DOMAIN f)
  PROVE  AreCards(GroupsOf(f)) /\ SumCards(GroupsOf(f)) = Cardinality(DOMAIN f)
<1> DEFINE S == DOMAIN f
           G == GroupsOf(f)
           In(A) == {c \in S : Group(f, f[c]) \in A}
           Bad == {A \in SUBSET G : Cardinality(Pile(A)) # Cardinality(In(A))}
<1>1. IsFiniteSet(G)
  <2> DEFINE h == [c \in S |-> Group(f, f[c])]
  <2>1. G = {h[c] : c \in S} /\ DOMAIN h = S
    BY DEF GroupsOf
  <2> HIDE DEF h, G
  <2>2. IsFiniteSet({h[c] : c \in S})
    BY <2>1, FiniteImage
  <2>3. QED
    BY <2>1, <2>2
<1>2. \A g \in G : g[2] \in Nat
  <2> SUFFICES ASSUME NEW c \in S PROVE Group(f, f[c])[2] \in Nat
    BY DEF GroupsOf
  <2>1. Cardinality({d \in S : f[d] = f[c]}) \in Nat
    BY FS_Subset, FS_CardinalityType
  <2>2. QED
    BY <2>1 DEF Group
<1>3. AreCards(G)
  BY <1>1, <1>2 DEF AreCards
<1>4. ASSUME NEW A \in SUBSET G PROVE Cardinality(Pile(A)) = Cardinality(In(A))
  <2> SUFFICES ASSUME Bad # {} PROVE FALSE
    OBVIOUS
  <2>1. PICK B \in Bad : \A C \in Bad : C \subseteq B => C = B
    <3>1. Bad \subseteq SUBSET G
      OBVIOUS
    <3>2. Bad # {}
      OBVIOUS
    <3> HIDE DEF Bad, G
    <3>3. QED
      BY <1>1, <3>1, <3>2, Smallest
  <2>2. B # {}
    <3>1. Pile({}) = {} /\ In({}) = {}
      BY DEF Pile
    <3>2. QED
      BY <2>1, <3>1
  <2>3. PICK g \in B : TRUE
    BY <2>2
  <2>4. PICK c \in S : g = Group(f, f[c])
    BY <2>1, <2>3 DEF GroupsOf
  <2> DEFINE own == {d \in S : f[d] = f[c]}
             rest == In(B \ {g})
  <2>5. Cardinality(Pile(B \ {g})) = Cardinality(rest)
    BY <2>1, <2>3
  <2>6. AreCards(B)
    <3>1. B \in SUBSET G
      BY <2>1
    <3>2. IsFiniteSet(B)
      BY <1>1, <3>1, FS_Subset
    <3>3. QED
      BY <1>2, <3>1, <3>2 DEF AreCards
  <2>7. Cardinality(Pile(B)) = g[2] + Cardinality(Pile(B \ {g}))
    BY <2>3, <2>6, PileGrows
  <2>8. g[2] = Cardinality(own)
    BY <2>4 DEF Group
  <2>9. In(B) = own \cup rest /\ own \cap rest = {}
    <3>1. \A d \in S : Group(f, f[d]) = g <=> f[d] = f[c]
      BY <2>4 DEF Group
    <3>2. QED
      BY <2>3, <3>1
  <2>10. IsFiniteSet(own) /\ IsFiniteSet(rest)
    <3>1. own \in SUBSET S /\ rest \in SUBSET S
      OBVIOUS
    <3> HIDE DEF own, rest
    <3>2. QED
      BY <3>1, FS_Subset
  <2> HIDE DEF own, rest
  <2>11. Cardinality(own \cup rest) = Cardinality(own) + Cardinality(rest)
    BY <2>9, <2>10, Apart
  <2>12. Cardinality(Pile(B)) = Cardinality(In(B))
    BY <2>5, <2>7, <2>8, <2>9, <2>11
  <2>13. QED
    BY <2>1, <2>12
<1>5. In(G) = S
  BY DEF GroupsOf
<1>6. SumCards(G) = Cardinality(Pile(G))
  BY <1>3, SumIsPile
<1>7. QED
  BY <1>3, <1>4, <1>5, <1>6

(* Numbers: a set of them has a least element.                             *)
Less == {p \in Nat \X Nat : p[1] < p[2]}
LEMMA Least ==
  ASSUME NEW T, T \subseteq Nat, T # {}
  PROVE  \E n \in T : \A m \in T : n <= m
<1>1. IsWellFoundedOn(Less, Nat)
  <2>1. OpToRel(<, Nat) = Less
    BY DEF OpToRel, Less
  <2>2. QED
    BY <2>1, NatLessThanWellFounded
<1>2. PICK n \in T : \A y \in T : <<y, n>> \notin Less
  BY <1>1, WFMin, Zenon
<1>3. ASSUME NEW m \in T PROVE n <= m
  <2>1. m \in Nat /\ n \in Nat /\ <<m, n>> \notin Less
    BY <1>2
  <2>2. ~(m < n)
    BY <2>1 DEF Less
  <2>3. QED
    BY <2>1, <2>2
<1>4. QED
  BY <1>3

-----------------------------------------------------------------------------
(* The counts of the pages.                                                *)

(* The first token of a kind.                                              *)
LEMMA FoundAt ==
  ASSUME NEW s, NEW t, NEW p \in DOMAIN s, DOMAIN s \subseteq Nat, s[p] = t,
         \A i \in DOMAIN s : s[i] = t => p <= i
  PROVE  Find(s, t) = p
<1> DEFINE at == {i \in DOMAIN s : s[i] = t}
<1>1. p \in at /\ \A i \in at : p <= i
  OBVIOUS
<1>2. \A i \in at : i \in Nat
  OBVIOUS
<1> HIDE DEF at
<1>3. (CHOOSE i \in at : \A j \in at : i <= j) = p
  BY <1>1, <1>2
<1>4. QED
  BY <1>1, <1>3 DEF Find, at

(* Where Find finds nothing there is nothing; else it is the first one.    *)
LEMMA Finds ==
  ASSUME NEW s, NEW t, DOMAIN s \subseteq Nat
  PROVE  \/ Find(s, t) = 0 /\ \A i \in DOMAIN s : s[i] # t
         \/ /\ Find(s, t) \in DOMAIN s /\ s[Find(s, t)] = t
            /\ \A i \in DOMAIN s : s[i] = t => Find(s, t) <= i
<1> DEFINE at == {i \in DOMAIN s : s[i] = t}
<1>1. CASE at = {}
  BY <1>1 DEF Find
<1>2. CASE at # {}
  <2>1. at \subseteq Nat
    OBVIOUS
  <2>2. PICK p \in at : \A j \in at : p <= j
    <3> HIDE DEF at
    <3>1. QED
      BY <1>2, <2>1, Least
  <2>3. Find(s, t) = p
    BY <2>2, FoundAt
  <2>4. QED
    BY <2>2, <2>3
<1>3. QED
  BY <1>1, <1>2

(* A prefix is a sequence that agrees as far as it goes.                   *)
LEMMA PrefixAgrees ==
  ASSUME NEW S, NEW p \in Seq(S), NEW s \in Seq(S)
  PROVE  IsPrefix(p, s) <=> (Len(p) <= Len(s) /\ \A i \in 1..Len(p) : p[i] = s[i])
<1>1. Len(p) \in Nat /\ Len(s) \in Nat /\ p \in [1..Len(p) -> S]
  OBVIOUS
<1>2. SubSeq(p, 1, Len(p)) = p
  OBVIOUS
<1>3. IsPrefix(p, s) <=> (Len(p) <= Len(s) /\ p = SubSeq(s, 1, Len(p)))
  BY <1>2 DEF IsPrefix
<1>4. ASSUME Len(p) <= Len(s)
      PROVE  (p = SubSeq(s, 1, Len(p))) <=> (\A i \in 1..Len(p) : p[i] = s[i])
  <2> DEFINE n == Len(p)
             u == SubSeq(s, 1, n)
  <2>1. u \in Seq(S) /\ Len(u) = n /\ \A i \in 1..n : u[i] = s[i]
    BY <1>1, <1>4
  <2>2. n \in Nat /\ p \in Seq(S) /\ Len(p) = n
    BY <1>1
  <2> HIDE DEF n, u
  <2>3. ASSUME \A i \in 1..n : p[i] = s[i] PROVE p = u
    <3>1. \A i \in 1..n : u[i] = p[i]
      BY <2>1, <2>3
    <3>2. QED
      BY <2>1, <2>2, <3>1
  <2>4. (p = u) <=> (\A i \in 1..n : p[i] = s[i])
    BY <2>1, <2>3
  <2>5. QED
    BY <2>4 DEF n, u
<1>5. QED
  BY <1>3, <1>4

(* The pages and the statistics group by a function of the capture.        *)
LEMMA PagesGroup ==
  /\ \A table : browse_tlds(table) = GroupsOf([c \in table |-> TldOf(c)])
  /\ \A table, t : browse_domains(t, table) =
       GroupsOf([c \in Under(t \o <<",">>, table) |-> DomainOf(t \o <<",">>, c)])
  /\ \A table, p : browse_subdomains(p, table) =
       GroupsOf([c \in Under(p \o <<")">>, table) \cup Under(p \o <<",">>, table) |-> HostOf(c)])
  /\ \A table : collection_counts(table) = GroupsOf([c \in table |-> Coll[c]])
<1>1. ASSUME NEW table
      PROVE  browse_tlds(table) = GroupsOf([c \in table |-> TldOf(c)])
  <2> DEFINE f == [c \in table |-> TldOf(c)]
  <2>1. DOMAIN f = table /\ \A c \in table : f[c] = TldOf(c)
    OBVIOUS
  <2> HIDE DEF f
  <2>2. \A c \in table : {d \in table : f[d] = f[c]} = {d \in table : TldOf(d) = TldOf(c)}
    BY <2>1
  <2>3. \A c \in table :
          Group(f, f[c]) = <<TldOf(c), Cardinality({d \in table : TldOf(d) = TldOf(c)})>>
    BY <2>1, <2>2 DEF Group
  <2>4. browse_tlds(table) = GroupsOf(f)
    <3>1. GroupsOf(f) = {Group(f, f[c]) : c \in table}
      BY <2>1 DEF GroupsOf
    <3>2. browse_tlds(table) =
            {<<TldOf(c), Cardinality({d \in table : TldOf(d) = TldOf(c)})>> : c \in table}
      BY DEF browse_tlds, Groups
    <3>3. browse_tlds(table) = {Group(f, f[c]) : c \in table}
      BY <3>2, <2>3
    <3>4. QED
      BY <3>1, <3>3
  <2>5. QED
    BY <2>4 DEF f
<1>2. ASSUME NEW table, NEW t
      PROVE  browse_domains(t, table) =
               GroupsOf([c \in Under(t \o <<",">>, table) |-> DomainOf(t \o <<",">>, c)])
  <2> DEFINE T == Under(t \o <<",">>, table)
             key(c) == DomainOf(t \o <<",">>, c)
             f == [c \in T |-> key(c)]
  <2>1. DOMAIN f = T /\ \A c \in T : f[c] = key(c)
    OBVIOUS
  <2>2. browse_domains(t, table) =
          {<<key(c), Cardinality({d \in T : key(d) = key(c)})>> : c \in T}
    BY DEF browse_domains, Groups
  <2> HIDE DEF f, key, T
  <2>3. \A c \in T : {d \in T : f[d] = f[c]} = {d \in T : key(d) = key(c)}
    BY <2>1
  <2>4. \A c \in T : Group(f, f[c]) = <<key(c), Cardinality({d \in T : key(d) = key(c)})>>
    BY <2>1, <2>3 DEF Group
  <2>5. browse_domains(t, table) = GroupsOf(f)
    <3>1. GroupsOf(f) = {Group(f, f[c]) : c \in T}
      BY <2>1 DEF GroupsOf
    <3>2. browse_domains(t, table) = {Group(f, f[c]) : c \in T}
      BY <2>2, <2>4
    <3>3. QED
      BY <3>1, <3>2
  <2>6. QED
    BY <2>5 DEF f, T, key
<1>3. ASSUME NEW table, NEW p
      PROVE  browse_subdomains(p, table) =
               GroupsOf([c \in Under(p \o <<")">>, table) \cup Under(p \o <<",">>, table)
                           |-> HostOf(c)])
  <2> DEFINE T == Under(p \o <<")">>, table) \cup Under(p \o <<",">>, table)
             f == [c \in T |-> HostOf(c)]
  <2>1. DOMAIN f = T /\ \A c \in T : f[c] = HostOf(c)
    OBVIOUS
  <2>2. browse_subdomains(p, table) =
          {<<HostOf(c), Cardinality({d \in T : HostOf(d) = HostOf(c)})>> : c \in T}
    BY DEF browse_subdomains, Groups
  <2> HIDE DEF f, T
  <2>3. \A c \in T : {d \in T : f[d] = f[c]} = {d \in T : HostOf(d) = HostOf(c)}
    BY <2>1
  <2>4. \A c \in T :
          Group(f, f[c]) = <<HostOf(c), Cardinality({d \in T : HostOf(d) = HostOf(c)})>>
    BY <2>1, <2>3 DEF Group
  <2>5. browse_subdomains(p, table) = GroupsOf(f)
    <3>1. GroupsOf(f) = {Group(f, f[c]) : c \in T}
      BY <2>1 DEF GroupsOf
    <3>2. browse_subdomains(p, table) = {Group(f, f[c]) : c \in T}
      BY <2>2, <2>4
    <3>3. QED
      BY <3>1, <3>2
  <2>6. QED
    BY <2>5 DEF f, T
<1>4. ASSUME NEW table
      PROVE  collection_counts(table) = GroupsOf([c \in table |-> Coll[c]])
  <2> DEFINE f == [c \in table |-> Coll[c]]
  <2>1. DOMAIN f = table /\ \A c \in table : f[c] = Coll[c]
    OBVIOUS
  <2> HIDE DEF f
  <2>2. \A c \in table : {d \in table : f[d] = f[c]} = {d \in table : Coll[d] = Coll[c]}
    BY <2>1
  <2>3. \A c \in table :
          Group(f, f[c]) = <<Coll[c], Cardinality({d \in table : Coll[d] = Coll[c]})>>
    BY <2>1, <2>2 DEF Group
  <2>4. collection_counts(table) = GroupsOf(f)
    <3>1. GroupsOf(f) = {Group(f, f[c]) : c \in table}
      BY <2>1 DEF GroupsOf
    <3>2. collection_counts(table) =
            {<<Coll[c], Cardinality({d \in table : Coll[d] = Coll[c]})>> : c \in table}
      BY DEF collection_counts, Groups
    <3>3. collection_counts(table) = {Group(f, f[c]) : c \in table}
      BY <3>2, <2>3
    <3>4. QED
      BY <3>1, <3>3
  <2>5. QED
    BY <2>4 DEF f
<1>5. QED
  BY <1>1, <1>2, <1>3, <1>4

(* A page's counts add up to the rows it groups.                           *)
LEMMA PagesAddUp ==
  ASSUME NEW table \in SUBSET Caps
  PROVE  /\ \A t : SumCards(browse_domains(t, table)) = Cardinality(Under(t \o <<",">>, table))
         /\ \A p : SumCards(browse_subdomains(p, table)) =
                     Cardinality(Under(p \o <<")">>, table) \cup Under(p \o <<",">>, table))
         /\ SumCards(collection_counts(table)) = Cardinality(table)
<1>1. ASSUME NEW T \in SUBSET Caps PROVE IsFiniteSet(T)
  BY BrowseAssumption, FS_Subset
<1>2. ASSUME NEW t
      PROVE  SumCards(browse_domains(t, table)) = Cardinality(Under(t \o <<",">>, table))
  <2> DEFINE T == Under(t \o <<",">>, table)
             f == [c \in T |-> DomainOf(t \o <<",">>, c)]
  <2>1. T \in SUBSET Caps
    BY DEF Under
  <2>2. DOMAIN f = T
    OBVIOUS
  <2>3. browse_domains(t, table) = GroupsOf(f)
    BY PagesGroup
  <2> HIDE DEF f, T
  <2>4. SumCards(GroupsOf(f)) = Cardinality(T)
    BY <1>1, <2>1, <2>2, GroupsAddUp
  <2>5. QED
    BY <2>3, <2>4 DEF T
<1>3. ASSUME NEW p
      PROVE  SumCards(browse_subdomains(p, table)) =
               Cardinality(Under(p \o <<")">>, table) \cup Under(p \o <<",">>, table))
  <2> DEFINE T == Under(p \o <<")">>, table) \cup Under(p \o <<",">>, table)
             f == [c \in T |-> HostOf(c)]
  <2>1. T \in SUBSET Caps
    BY DEF Under
  <2>2. DOMAIN f = T
    OBVIOUS
  <2>3. browse_subdomains(p, table) = GroupsOf(f)
    BY PagesGroup
  <2> HIDE DEF f, T
  <2>4. SumCards(GroupsOf(f)) = Cardinality(T)
    BY <1>1, <2>1, <2>2, GroupsAddUp
  <2>5. QED
    BY <2>3, <2>4 DEF T
<1>4. SumCards(collection_counts(table)) = Cardinality(table)
  <2> DEFINE f == [c \in table |-> Coll[c]]
  <2>1. DOMAIN f = table
    OBVIOUS
  <2>2. collection_counts(table) = GroupsOf(f)
    BY PagesGroup
  <2> HIDE DEF f
  <2>3. QED
    BY <1>1, <2>1, <2>2, GroupsAddUp
<1>5. QED
  BY <1>2, <1>3, <1>4

(* What comes before the first mark of a sequence.                         *)
Upto(s, mark) == SubSeq(s, 1, Find(s, mark) - 1)

(* Where it is not empty, the sequences that begin with it and the mark    *)
(* are those with the same before their first mark.                        *)
LEMMA SameUpto ==
  ASSUME NEW S, NEW mark \in S, NEW s \in Seq(S), NEW t \in Seq(S), Upto(s, mark) # <<>>
  PROVE  IsPrefix(Upto(s, mark) \o <<mark>>, t) <=> Upto(t, mark) = Upto(s, mark)
<1> DEFINE p == Find(s, mark)
           q == Find(t, mark)
           front == Upto(s, mark)
           lower == front \o <<mark>>
<1>2. /\ DOMAIN s \subseteq Nat /\ DOMAIN t \subseteq Nat
      /\ DOMAIN s = 1..Len(s) /\ DOMAIN t = 1..Len(t) /\ Len(s) \in Nat /\ Len(t) \in Nat
  OBVIOUS
<1>3. front = SubSeq(s, 1, p - 1) /\ Upto(t, mark) = SubSeq(t, 1, q - 1)
  BY DEF Upto
<1>4. p \in DOMAIN s /\ s[p] = mark /\ \A i \in DOMAIN s : s[i] = mark => p <= i
  <2>1. p # 0
    BY <1>3
  <2>2. QED
    BY <1>2, <2>1, Finds
<1>5. \/ q = 0 /\ \A i \in DOMAIN t : t[i] # mark
      \/ q \in DOMAIN t /\ t[q] = mark /\ \A i \in DOMAIN t : t[i] = mark => q <= i
  BY <1>2, Finds
<1> HIDE DEF p, q, front
<1>6. /\ front \in Seq(S) /\ Len(front) = p - 1 /\ p \in Nat \ {0} /\ p <= Len(s)
      /\ \A i \in 1..(p - 1) : front[i] = s[i]
  BY <1>2, <1>3, <1>4
<1>7. p # 1
  <2>1. front # <<>>
    BY DEF front
  <2>2. QED
    BY <1>3, <2>1
<1>8. \A i \in 1..(p - 1) : front[i] # mark
  BY <1>2, <1>4, <1>6
<1>9. /\ lower \in Seq(S) /\ Len(lower) = p /\ lower[p] = mark
      /\ \A i \in 1..(p - 1) : lower[i] = front[i]
  <2> DEFINE comma == <<mark>>
  <2>1. comma \in Seq(S) /\ Len(comma) = 1 /\ comma[1] = mark
    BY Singly
  <2> HIDE DEF comma
  <2>2. /\ front \o comma \in Seq(S) /\ Len(front \o comma) = Len(front) + Len(comma)
        /\ \A i \in 1..Len(front) : (front \o comma)[i] = front[i]
        /\ \A i \in 1..Len(comma) : (front \o comma)[Len(front) + i] = comma[i]
    <3>1. front \in Seq(S) /\ comma \in Seq(S)
      BY <1>6, <2>1
    <3>2. /\ front \o comma \in Seq(S) /\ Len(front \o comma) = Len(front) + Len(comma)
          /\ Len(comma) \in Nat
          /\ \A i \in 1..Len(front) : (front \o comma)[i] = front[i]
          /\ \A i \in 1..Len(comma) : (front \o comma)[Len(front) + i] = comma[i]
      BY <3>1, Behind
    <3>3. QED
      BY <3>2
  <2>3. lower = front \o comma
    BY DEF comma
  <2>4. (p - 1) + 1 = p /\ 1 \in 1..Len(comma)
    BY <1>6, <2>1
  <2> HIDE DEF lower
  <2>5. (front \o comma)[(p - 1) + 1] = mark
    BY <1>6, <2>1, <2>2, <2>4
  <2>6. QED
    BY <1>6, <2>1, <2>2, <2>3, <2>4, <2>5
<1> HIDE DEF lower
<1>10. IsPrefix(lower, t) <=> (p <= Len(t) /\ \A i \in 1..p : lower[i] = t[i])
  BY <1>9, PrefixAgrees
<1>11. ASSUME IsPrefix(lower, t) PROVE Upto(t, mark) = front
  <2>1. p <= Len(t) /\ \A i \in 1..p : lower[i] = t[i]
    BY <1>10, <1>11
  <2>2. p \in 1..p /\ \A i \in 1..(p - 1) : i \in 1..p
    BY <1>6
  <2>3. t[p] = mark /\ \A i \in 1..(p - 1) : t[i] = front[i]
    BY <1>9, <2>1, <2>2
  <2>4. p \in DOMAIN t /\ \A i \in DOMAIN t : t[i] = mark => p <= i
    BY <1>2, <1>6, <1>8, <2>1, <2>3
  <2>5. q = p
    BY <1>2, <2>3, <2>4, FoundAt DEF q
  <2>6. /\ SubSeq(t, 1, p - 1) \in Seq(S) /\ Len(SubSeq(t, 1, p - 1)) = p - 1
        /\ \A i \in 1..(p - 1) : SubSeq(t, 1, p - 1)[i] = t[i]
    BY <1>2, <1>6, <2>1
  <2>7. SubSeq(t, 1, p - 1) = front
    BY <1>6, <2>3, <2>6
  <2>8. QED
    BY <1>3, <2>5, <2>7
<1>12. ASSUME Upto(t, mark) = front PROVE IsPrefix(lower, t)
  <2>1. SubSeq(t, 1, q - 1) = front
    BY <1>3, <1>12
  <2>2. q # 0
    <3>1. q = 0 => Len(SubSeq(t, 1, q - 1)) = 0
      OBVIOUS
    <3>2. QED
      BY <1>6, <1>7, <2>1, <3>1
  <2>3. q \in DOMAIN t /\ t[q] = mark
    BY <1>5, <2>2
  <2>4. /\ q \in Nat /\ 1 <= q /\ q <= Len(t) /\ Len(SubSeq(t, 1, q - 1)) = q - 1
        /\ \A i \in 1..(q - 1) : SubSeq(t, 1, q - 1)[i] = t[i]
    BY <1>2, <2>3
  <2>5. q = p
    BY <1>6, <2>1, <2>4
  <2>6. \A i \in 1..(p - 1) : lower[i] = t[i]
    BY <1>9, <2>1, <2>4, <2>5
  <2>7. \A i \in 1..p : i \in 1..(p - 1) \/ i = p
    BY <1>6
  <2>8. QED
    BY <1>9, <1>10, <2>3, <2>4, <2>5, <2>6, <2>7
<1>13. QED
  BY <1>11, <1>12 DEF lower, front

Comma == ","
Paren == ")"

(* A host of several labels and a path without a comma: label, comma,      *)
(* label, and then either a comma again or the parenthesis and no comma    *)
(* after it.                                                               *)
LEMMA KeyStart ==
  ASSUME PlainLabels, NEW c \in Caps, Ordinary(c)
  PROVE  LET s == to_surt[c]
         IN  /\ s \in Seq(Tokens) /\ Len(s) \in Nat /\ Len(s) >= 4 /\ DOMAIN s = 1..Len(s)
             /\ s[1] # Comma /\ s[2] = Comma /\ s[3] # Comma
             /\ \/ s[4] = Comma
                \/ /\ s[4] = Paren /\ Comma # Paren /\ HostOf(c) = SubSeq(s, 1, 3)
                   /\ \A i \in DOMAIN s : i > 4 => s[i] # Comma
<1> DEFINE s == to_surt[c]
           m == Len(Name[c])
<1>1. /\ m \in Nat \ {0} /\ s \in Seq(Tokens) /\ Len(s) >= 2 * m
      /\ s[2 * m] = Paren
      /\ \A i \in 1..(2 * m - 1) : s[i] = IF i % 2 = 1 THEN Name[c][(i + 1) \div 2] ELSE Comma
      /\ \A k \in 1..m : s[2 * k - 1] = Name[c][k]
      /\ \A i \in DOMAIN s : i > 2 * m => s[i] \in Range(Path[c])
  BY SurtOf, Zenon DEF Comma, Paren
<1>2. \A k \in 1..m : Name[c][k] # Comma
  <2>1. DOMAIN Name[c] = 1..m
    BY BrowseAssumption
  <2>2. QED
    BY <2>1, Zenon DEF PlainLabels, Comma
<1>3. m > 1
  BY Zenon DEF Ordinary
<1>4. Comma \notin Range(Path[c])
  BY Zenon DEF Ordinary, Comma
<1>5. Comma # Paren
  BY Zenon DEF Comma, Paren
<1>6. Find(s, Paren) = 2 * m
  BY HostEnds, Zenon DEF Paren
<1>7. HostOf(c) = SubSeq(s, 1, Find(s, Paren) - 1)
  BY Zenon DEF HostOf, Paren
<1> HIDE DEF s, m
<1>8. DOMAIN s = 1..Len(s) /\ Len(s) \in Nat
  BY <1>1
<1>9. /\ Len(s) >= 4
      /\ 1 \in 1..m /\ 2 \in 1..m /\ 2 * 1 - 1 = 1 /\ 2 * 2 - 1 = 3
      /\ 2 \in 1..(2 * m - 1) /\ 2 % 2 = 0 /\ 4 % 2 = 0
  BY <1>1, <1>3, <1>8
<1>10. s[1] # Comma /\ s[3] # Comma
  BY <1>1, <1>2, <1>9
<1>11. s[2] = Comma
  BY <1>1, <1>9
<1>12. CASE m = 2
  <2>1. 2 * m = 4 /\ 4 - 1 = 3
    BY <1>12
  <2>2. s[4] = Paren
    BY <1>1, <2>1
  <2>3. HostOf(c) = SubSeq(s, 1, 3)
    BY <1>6, <1>7, <2>1
  <2>4. \A i \in DOMAIN s : i > 4 => s[i] # Comma
    BY <1>1, <1>4, <2>1
  <2>5. QED
    BY <1>1, <1>5, <1>8, <1>9, <1>10, <1>11, <2>2, <2>3, <2>4 DEF s
<1>13. CASE m # 2
  <2>1. 4 \in 1..(2 * m - 1)
    BY <1>1, <1>3, <1>13
  <2>2. s[4] = Comma
    BY <1>1, <1>9, <2>1
  <2>3. QED
    BY <1>1, <1>8, <1>9, <1>10, <1>11, <2>2 DEF s
<1>14. QED
  BY <1>12, <1>13

(* browse_tlds then shows the first label, and browse_domains the first    *)
(* two.                                                                    *)
LEMMA KeyGroups ==
  ASSUME PlainLabels, NEW c \in Caps, Ordinary(c)
  PROVE  /\ TldOf(c) = SubSeq(to_surt[c], 1, 1)
         /\ \A lower : Len(lower) = 2 => DomainOf(lower, c) = SubSeq(to_surt[c], 1, 3)
<1> DEFINE s == to_surt[c]
           rest == SubSeq(s, 3, Len(s))
<1>1. /\ s \in Seq(Tokens) /\ Len(s) \in Nat /\ Len(s) >= 4 /\ DOMAIN s = 1..Len(s)
      /\ s[1] # Comma /\ s[2] = Comma /\ s[3] # Comma
      /\ \/ s[4] = Comma
         \/ /\ s[4] = Paren /\ Comma # Paren /\ HostOf(c) = SubSeq(s, 1, 3)
            /\ \A i \in DOMAIN s : i > 4 => s[i] # Comma
  BY KeyStart
<1>2. TldOf(c) = SubSeq(s, 1, Find(s, Comma) - 1)
  BY Zenon DEF TldOf, Comma
<1>3. ASSUME NEW lower, Len(lower) = 2
      PROVE  DomainOf(lower, c) = IF Find(rest, Comma) > 0
                                  THEN SubSeq(s, 1, 2 + Find(rest, Comma) - 1) ELSE HostOf(c)
  <2>1. DomainOf(lower, c) =
          IF Find(SubSeq(s, Len(lower) + 1, Len(s)), Comma) > 0
          THEN SubSeq(s, 1, Len(lower) + Find(SubSeq(s, Len(lower) + 1, Len(s)), Comma) - 1)
          ELSE HostOf(c)
    BY Zenon DEF DomainOf, Comma
  <2>2. Len(lower) + 1 = 3
    BY <1>3
  <2>3. QED
    BY <1>3, <2>1, <2>2
<1> HIDE DEF s
<1>4. Find(s, Comma) = 2
  <2>1. 2 \in DOMAIN s /\ DOMAIN s \subseteq Nat
    BY <1>1
  <2>2. \A i \in DOMAIN s : s[i] = Comma => 2 <= i
    <3>1. \A i \in DOMAIN s : i = 1 \/ 2 <= i
      BY <1>1
    <3>2. QED
      BY <1>1, <3>1
  <2>3. QED
    BY <1>1, <2>1, <2>2, FoundAt
<1>5. /\ DOMAIN rest = 1..(Len(s) - 2)
      /\ \A i \in 1..(Len(s) - 2) : rest[i] = s[i + 2]
  BY <1>1
<1> HIDE DEF rest
<1>6. CASE s[4] = Comma
  <2>1. 2 \in DOMAIN rest /\ DOMAIN rest \subseteq Nat /\ 2 + 2 = 4 /\ 1 + 2 = 3
    BY <1>1, <1>5
  <2>2. rest[2] = Comma
    BY <1>5, <1>6, <2>1
  <2>3. \A i \in DOMAIN rest : rest[i] = Comma => 2 <= i
    <3>1. \A i \in DOMAIN rest : i = 1 \/ 2 <= i
      BY <1>5
    <3>2. QED
      BY <1>1, <1>5, <2>1, <3>1
  <2>4. Find(rest, Comma) = 2
    BY <2>1, <2>2, <2>3, FoundAt
  <2>5. QED
    BY <1>2, <1>3, <1>4, <2>4 DEF s
<1>7. CASE s[4] # Comma
  <2>1. HostOf(c) = SubSeq(s, 1, 3) /\ \A i \in DOMAIN s : i > 4 => s[i] # Comma
    BY <1>1, <1>7
  <2>2. \A i \in DOMAIN rest : rest[i] # Comma
    <3> SUFFICES ASSUME NEW i \in DOMAIN rest PROVE s[i + 2] # Comma
      BY <1>5
    <3>1. i + 2 \in DOMAIN s /\ (i + 2 = 3 \/ i + 2 = 4 \/ i + 2 > 4)
      BY <1>1, <1>5
    <3>2. QED
      BY <1>1, <1>7, <2>1, <3>1
  <2>3. DOMAIN rest \subseteq Nat
    BY <1>1, <1>5
  <2>4. Find(rest, Comma) = 0
    BY <2>2, <2>3, Finds
  <2>5. QED
    BY <1>2, <1>3, <1>4, <2>1, <2>4 DEF s
<1>8. QED
  BY <1>6, <1>7

(* The keys under the first two labels.                                    *)
LEMMA UnderDomain ==
  ASSUME PlainLabels, NEW c \in Caps, Ordinary(c), NEW d \in Caps, Ordinary(d)
  PROVE  LET key == SubSeq(to_surt[c], 1, 3)
             t == to_surt[d]
         IN  (IsPrefix(key \o <<Comma>>, t) \/ IsPrefix(key \o <<Paren>>, t))
               <=> SubSeq(t, 1, 3) = key
<1> DEFINE s == to_surt[c]
           t == to_surt[d]
           key == SubSeq(s, 1, 3)
<1>1. s \in Seq(Tokens) /\ Len(s) \in Nat /\ Len(s) >= 4
  BY KeyStart
<1>2. /\ t \in Seq(Tokens) /\ Len(t) \in Nat /\ Len(t) >= 4
      /\ t[4] = Comma \/ t[4] = Paren
  BY KeyStart
<1> HIDE DEF s, t
<1>3. /\ key \in Seq(Tokens) /\ Len(key) = 3
      /\ SubSeq(t, 1, 3) \in Seq(Tokens) /\ Len(SubSeq(t, 1, 3)) = 3
      /\ \A i \in 1..3 : SubSeq(t, 1, 3)[i] = t[i]
  BY <1>1, <1>2
<1> HIDE DEF key
<1>4. SubSeq(t, 1, 3) = key <=> \A i \in 1..3 : key[i] = t[i]
  <2> DEFINE u == SubSeq(t, 1, 3)
  <2>1. u \in Seq(Tokens) /\ Len(u) = 3 /\ \A i \in 1..3 : u[i] = t[i]
    BY <1>3
  <2> HIDE DEF u
  <2>2. ASSUME \A i \in 1..3 : key[i] = t[i] PROVE u = key
    <3>1. \A i \in 1..3 : u[i] = key[i]
      BY <2>1, <2>2
    <3>2. QED
      BY <1>3, <2>1, <3>1
  <2>3. (u = key) <=> (\A i \in 1..3 : key[i] = t[i])
    BY <2>1, <2>2
  <2>4. QED
    BY <2>3 DEF u
<1>5. ASSUME NEW mark \in Tokens
      PROVE  IsPrefix(key \o <<mark>>, t) <=> ((\A i \in 1..3 : key[i] = t[i]) /\ t[4] = mark)
  <2> DEFINE one == <<mark>>
             p == key \o one
  <2>1. one \in Seq(Tokens) /\ Len(one) = 1 /\ one[1] = mark
    BY Singly
  <2> HIDE DEF one
  <2>2. /\ p \in Seq(Tokens) /\ Len(p) = Len(key) + Len(one)
        /\ \A i \in 1..Len(key) : p[i] = key[i]
        /\ \A i \in 1..Len(one) : p[Len(key) + i] = one[i]
    <3>1. key \in Seq(Tokens) /\ one \in Seq(Tokens)
      BY <1>3, <2>1
    <3>2. QED
      BY <3>1, Behind
  <2> HIDE DEF p
  <2>3. Len(p) = 4 /\ (\A i \in 1..3 : p[i] = key[i]) /\ p[4] = mark
    <3>1. 1 \in 1..Len(one) /\ 3 + 1 = 4
      BY <2>1
    <3>2. p[3 + 1] = one[1]
      BY <1>3, <2>2, <3>1
    <3>3. QED
      BY <1>3, <2>1, <2>2, <3>1, <3>2
  <2>4. IsPrefix(p, t) <=> (Len(p) <= Len(t) /\ \A i \in 1..Len(p) : p[i] = t[i])
    <3>1. p \in Seq(Tokens) /\ t \in Seq(Tokens)
      BY <1>2, <2>2
    <3>2. QED
      BY <3>1, PrefixAgrees
  <2>5. (\A i \in 1..4 : p[i] = t[i]) <=> ((\A i \in 1..3 : p[i] = t[i]) /\ p[4] = t[4])
    OBVIOUS
  <2>6. IsPrefix(p, t) <=> ((\A i \in 1..3 : key[i] = t[i]) /\ t[4] = mark)
    BY <1>2, <2>3, <2>4, <2>5
  <2>7. QED
    BY <2>6 DEF p, one
<1>6. Comma \in Tokens /\ Paren \in Tokens
  BY Zenon DEF Comma, Paren, Tokens
<1>7. QED
  BY <1>2, <1>4, <1>5, <1>6 DEF key, s, t

(* The number shown with a TLD on the first page is the sum of those on    *)
(* its own page ...                                                        *)
LEMMA TldCounts ==
  ASSUME PlainLabels, NEW table \in SUBSET Caps, NEW c \in table, TldOf(c) # <<>>
  PROVE  Cardinality({d \in table : TldOf(d) = TldOf(c)}) =
           SumCards(browse_domains(TldOf(c), table))
<1> DEFINE tld == TldOf(c)
           own == {d \in table : TldOf(d) = tld}
           under == Under(tld \o <<Comma>>, table)
<1>1. \A d \in Caps : TldOf(d) = Upto(to_surt[d], Comma)
  BY Zenon DEF TldOf, Upto, Comma
<1>2. ASSUME NEW d \in table PROVE IsPrefix(tld \o <<Comma>>, to_surt[d]) <=> TldOf(d) = tld
  <2>1. to_surt[c] \in Seq(Tokens) /\ to_surt[d] \in Seq(Tokens)
    BY SurtOf
  <2>2. Comma \in Tokens
    BY Zenon DEF Comma, Tokens
  <2>3. Upto(to_surt[c], Comma) # <<>>
    BY <1>1
  <2>4. IsPrefix(Upto(to_surt[c], Comma) \o <<Comma>>, to_surt[d])
          <=> Upto(to_surt[d], Comma) = Upto(to_surt[c], Comma)
    BY <2>1, <2>2, <2>3, SameUpto
  <2>5. QED
    BY <1>1, <2>4
<1>3. under = own
  BY <1>2 DEF Under
<1>4. SumCards(browse_domains(tld, table)) = Cardinality(under)
  BY PagesAddUp, Zenon DEF Comma
<1>5. QED
  BY <1>3, <1>4

(* ... and the number shown with a domain there, where no path holds a     *)
(* comma, the sum of those of its hosts.                                   *)
LEMMA DomainCounts ==
  ASSUME PlainLabels, NEW table \in SUBSET Caps, \A c \in table : Ordinary(c),
         NEW c \in table, NEW d \in browse_domains(TldOf(c), table)
  PROVE  d[2] = SumCards(browse_subdomains(d[1], table))
<1> DEFINE lower == TldOf(c) \o <<Comma>>
           T == Under(lower, table)
           f == [e \in T |-> DomainOf(lower, e)]
<1>1. browse_domains(TldOf(c), table) = GroupsOf(f)
  <2>1. browse_domains(TldOf(c), table) =
          GroupsOf([e \in Under(TldOf(c) \o <<",">>, table) |-> DomainOf(TldOf(c) \o <<",">>, e)])
    BY PagesGroup, Zenon
  <2>2. QED
    BY <2>1, Zenon DEF Comma
<1>2. DOMAIN f = T /\ \A e \in T : f[e] = DomainOf(lower, e)
  OBVIOUS
<1>3. /\ lower \in Seq(Tokens) /\ Len(lower) = 2
      /\ lower[1] = to_surt[c][1] /\ lower[2] = Comma
  <2> DEFINE tld == TldOf(c)
             one == <<Comma>>
  <2>1. to_surt[c] \in Seq(Tokens) /\ Len(to_surt[c]) >= 4 /\ Len(to_surt[c]) \in Nat
    BY KeyStart
  <2>2. tld = SubSeq(to_surt[c], 1, 1)
    BY KeyGroups
  <2> HIDE DEF tld
  <2>3. tld \in Seq(Tokens) /\ Len(tld) = 1 /\ tld[1] = to_surt[c][1]
    BY <2>1, <2>2
  <2>4. Comma \in Tokens
    BY Zenon DEF Comma, Tokens
  <2>5. one \in Seq(Tokens) /\ Len(one) = 1 /\ one[1] = Comma
    BY <2>4, Singly
  <2> HIDE DEF one
  <2> DEFINE l == tld \o one
  <2>6. /\ l \in Seq(Tokens) /\ Len(l) = Len(tld) + Len(one)
        /\ \A i \in 1..Len(tld) : l[i] = tld[i]
        /\ \A i \in 1..Len(one) : l[Len(tld) + i] = one[i]
    BY <2>3, <2>5, Behind
  <2> HIDE DEF l
  <2>7. 1 \in 1..1 /\ 1 + 1 = 2
    OBVIOUS
  <2>8. l \in Seq(Tokens) /\ Len(l) = 2 /\ l[1] = to_surt[c][1] /\ l[1 + 1] = Comma
    BY <2>3, <2>5, <2>6, <2>7
  <2>9. QED
    BY <2>7, <2>8 DEF l, one, tld
<1> HIDE DEF lower
<1>4. PICK e \in T : d = Group(f, f[e])
  BY <1>1, <1>2 DEF GroupsOf
<1>5. e \in table /\ e \in Caps /\ Ordinary(e) /\ T \in SUBSET table
  BY <1>4 DEF Under
<1> DEFINE key == SubSeq(to_surt[e], 1, 3)
           own == {x \in T : f[x] = f[e]}
           A == Under(key \o <<Paren>>, table)
           B == Under(key \o <<Comma>>, table)
<1>6. \A x \in T : f[x] = SubSeq(to_surt[x], 1, 3)
  <2> SUFFICES ASSUME NEW x \in T PROVE f[x] = SubSeq(to_surt[x], 1, 3)
    OBVIOUS
  <2>1. x \in Caps /\ Ordinary(x)
    BY <1>5
  <2>2. QED
    BY <1>2, <1>3, <2>1, KeyGroups
<1>7. d[1] = key /\ d[2] = Cardinality(own)
  BY <1>2, <1>4, <1>6 DEF Group
<1>8. A \cup B = own
  <2>1. \A x \in table : IsPrefix(lower, to_surt[x]) <=>
                           (lower[1] = to_surt[x][1] /\ lower[2] = to_surt[x][2])
    <3> SUFFICES ASSUME NEW x \in table
                 PROVE  IsPrefix(lower, to_surt[x]) <=>
                          (lower[1] = to_surt[x][1] /\ lower[2] = to_surt[x][2])
      OBVIOUS
    <3>1. to_surt[x] \in Seq(Tokens) /\ Len(to_surt[x]) >= 4 /\ Len(to_surt[x]) \in Nat
      BY KeyStart
    <3>2. IsPrefix(lower, to_surt[x]) <=>
            (Len(lower) <= Len(to_surt[x]) /\ \A i \in 1..Len(lower) : lower[i] = to_surt[x][i])
      <4> DEFINE t == to_surt[x]
      <4>1. lower \in Seq(Tokens) /\ t \in Seq(Tokens)
        BY <1>3, <3>1
      <4> HIDE DEF t
      <4>2. IsPrefix(lower, t) <=>
              (Len(lower) <= Len(t) /\ \A i \in 1..Len(lower) : lower[i] = t[i])
        BY <4>1, PrefixAgrees
      <4>3. QED
        BY <4>2 DEF t
    <3>3. QED
      BY <1>3, <3>1, <3>2
  <2>2. \A x \in table : to_surt[x][2] = Comma
    BY KeyStart
  <2>3. \A x \in table : x \in T <=> to_surt[x][1] = to_surt[e][1]
    <3>1. \A x \in table : x \in T <=> lower[1] = to_surt[x][1]
      BY <1>3, <2>1, <2>2 DEF Under
    <3>2. QED
      BY <1>4, <1>5, <3>1
  <2>4. \A x \in table : SubSeq(to_surt[x], 1, 3) = key => to_surt[x][1] = to_surt[e][1]
    <3> SUFFICES ASSUME NEW x \in table, SubSeq(to_surt[x], 1, 3) = key
                 PROVE  to_surt[x][1] = to_surt[e][1]
      OBVIOUS
    <3>1. /\ to_surt[x] \in Seq(Tokens) /\ Len(to_surt[x]) >= 4 /\ Len(to_surt[x]) \in Nat
          /\ to_surt[e] \in Seq(Tokens) /\ Len(to_surt[e]) >= 4 /\ Len(to_surt[e]) \in Nat
      BY <1>5, KeyStart
    <3>2. /\ SubSeq(to_surt[x], 1, 3)[1] = to_surt[x][1]
          /\ SubSeq(to_surt[e], 1, 3)[1] = to_surt[e][1]
      BY <3>1
    <3>3. QED
      BY <3>2
  <2>5. \A x \in table :
          (IsPrefix(key \o <<Comma>>, to_surt[x]) \/ IsPrefix(key \o <<Paren>>, to_surt[x]))
            <=> SubSeq(to_surt[x], 1, 3) = key
    BY <1>5, UnderDomain
  <2>6. \A x : x \in A \cup B <=> x \in table /\ SubSeq(to_surt[x], 1, 3) = key
    BY <2>5 DEF Under
  <2>7. \A x : x \in own <=> x \in T /\ SubSeq(to_surt[x], 1, 3) = key
    BY <1>4, <1>6
  <2> HIDE DEF A, B, own, key
  <2>8. \A x : x \in A \cup B <=> x \in own
    BY <1>5, <2>3, <2>4, <2>6, <2>7
  <2>9. QED
    BY <2>8
<1>9. SumCards(browse_subdomains(key, table)) = Cardinality(A \cup B)
  BY PagesAddUp, Zenon DEF Comma, Paren
<1>10. QED
  BY <1>7, <1>8, <1>9

-----------------------------------------------------------------------------
(* The homepage and the statistics page.                                   *)

(* The cards of the collections asked for, without the empty ones.         *)
Counted(names, table) ==
  {<<n, collection_count(n, table)>> : n \in {m \in names : collection_count(m, table) # 0}}

(* Together they count the rows of the configured collections.             *)
LEMMA CountedSum ==
  ASSUME NEW table \in SUBSET Caps
  PROVE  SumCards(Counted(Configured, table)) =
           Cardinality({c \in table : Coll[c] \in Configured})
<1> DEFINE T == {c \in table : Coll[c] \in Configured}
           f == [c \in T |-> Coll[c]]
<1>1. IsFiniteSet(table) /\ IsFiniteSet(T)
  BY BrowseAssumption, FS_Subset
<1>2. DOMAIN f = T /\ \A c \in T : f[c] = Coll[c]
  OBVIOUS
<1> HIDE DEF f
<1>3. \A n \in Configured : Group(f, n) = <<n, collection_count(n, table)>>
  <2> SUFFICES ASSUME NEW n \in Configured
               PROVE  Group(f, n) = <<n, collection_count(n, table)>>
    OBVIOUS
  <2>1. {d \in T : f[d] = n} = {c \in table : Coll[c] = n}
    BY <1>2
  <2>2. QED
    BY <1>2, <2>1 DEF Group, collection_count
<1>4. \A n \in Configured : collection_count(n, table) # 0 <=> \E c \in T : f[c] = n
  <2> SUFFICES ASSUME NEW n \in Configured
               PROVE  collection_count(n, table) # 0 <=> \E c \in T : f[c] = n
    OBVIOUS
  <2> DEFINE own == {c \in table : Coll[c] = n}
  <2>1. IsFiniteSet(own)
    BY <1>1, FS_Subset
  <2>2. Cardinality(own) = 0 <=> own = {}
    BY <2>1, FS_EmptySet
  <2>3. own # {} <=> \E c \in T : f[c] = n
    BY <1>2
  <2>4. QED
    BY <2>2, <2>3 DEF collection_count
<1>5. Counted(Configured, table) = GroupsOf(f)
  <2>1. \A g : g \in Counted(Configured, table) <=>
          \E n \in Configured : collection_count(n, table) # 0 /\ g = Group(f, n)
    BY <1>3 DEF Counted
  <2>2. \A g : g \in GroupsOf(f) <=> \E c \in T : g = Group(f, f[c])
    BY <1>2 DEF GroupsOf
  <2>3. \A c \in T : f[c] \in Configured
    BY <1>2
  <2>4. \A g : g \in Counted(Configured, table) <=> g \in GroupsOf(f)
    BY <1>4, <2>1, <2>2, <2>3
  <2>5. QED
    BY <2>4
<1> HIDE DEF T
<1>6. SumCards(GroupsOf(f)) = Cardinality(T)
  BY <1>1, <1>2, GroupsAddUp
<1>7. QED
  BY <1>5, <1>6 DEF T

(* The homepage under way, and once it is shown.                           *)
HomeAsked ==
  /\ req.left \subseteq Configured /\ req.total \in Nat /\ AreCards(req.cards)
  /\ \A g \in req.cards : g[1] \in Configured
  /\ steady => /\ req.total = Cardinality(rows)
               /\ req.cards = Counted(Configured \ req.left, rows)
HomeShown ==
  /\ req.left = {}
  /\ req.cards # {} => SumCards(req.cards) >= req.total
  /\ steady => \A g \in req.cards :
       g[2] = Cardinality({c \in rows : IF g[1] = Archive THEN Coll[c] \notin Configured
                                        ELSE Coll[c] = g[1]})
HomeInv ==
  req.kind = "home" => (req.shown /\ HomeShown) \/ (req.shown = FALSE /\ HomeAsked)

(* What the statements of the statistics page have found.                  *)
StatsInv ==
  req.kind = "stats" /\ steady =>
    /\ "basic" \notin req.left => req.total = Cardinality(rows)
    /\ "colls" \notin req.left => req.cards = collection_counts(rows)

(* One more collection is counted.                                         *)
LEMMA HomeCountStep ==
  ASSUME BInv, HomeInv, NEW name \in Configured, HomeCount(name)
  PROVE  HomeInv'
<1>1. /\ req = [kind |-> "home", total |-> req.total, left |-> req.left, cards |-> req.cards,
                shown |-> req.shown]
      /\ req.kind = "home" /\ name \in req.left /\ UNCHANGED <<rows, steady>>
  BY DEF HomeCount, BInv, Shaped
<1>2. req.shown = FALSE /\ HomeAsked
  BY <1>1 DEF HomeInv, HomeShown
<1> DEFINE n == collection_count(name, rows)
           g == <<name, n>>
<1>3. /\ req'.kind = "home" /\ req'.total = req.total /\ req'.shown = FALSE
      /\ req'.left = req.left \ {name}
      /\ req'.cards = IF n = 0 THEN req.cards ELSE req.cards \cup {g}
  BY <1>1, <1>2 DEF HomeCount
<1>4. n \in Nat
  <2>1. rows \in SUBSET Caps
    BY DEF BInv, TypeOK
  <2>2. IsFiniteSet({c \in rows : Coll[c] = name})
    BY <2>1, BrowseAssumption, FS_Subset
  <2>3. QED
    BY <2>2, FS_CardinalityType DEF collection_count
<1>5. Counted(Configured \ req'.left, rows) =
        Counted(Configured \ req.left, rows) \cup (IF n = 0 THEN {} ELSE {g})
  <2>1. Configured \ req'.left = (Configured \ req.left) \cup {name}
    BY <1>2, <1>3 DEF HomeAsked
  <2>2. QED
    BY <2>1 DEF Counted
<1>6. AreCards(req'.cards) /\ \A h \in req'.cards : h[1] \in Configured
  <2>1. g[1] = name /\ g[2] = n
    OBVIOUS
  <2> HIDE DEF n, g
  <2>2. IsFiniteSet(req.cards \cup {g})
    BY <1>2, FS_AddElement DEF HomeAsked, AreCards
  <2>3. QED
    BY <1>2, <1>3, <1>4, <2>1, <2>2 DEF HomeAsked, AreCards
<1> HIDE DEF n, g
<1>7. HomeAsked'
  <2>1. req'.left \subseteq Configured /\ req'.total \in Nat
    BY <1>2, <1>3 DEF HomeAsked
  <2>2. steady => req'.cards = Counted(Configured \ req'.left, rows)
    BY <1>2, <1>3, <1>5 DEF HomeAsked
  <2>3. steady => req'.total = Cardinality(rows)
    BY <1>2, <1>3 DEF HomeAsked
  <2>4. QED
    BY <1>1, <1>6, <2>1, <2>2, <2>3 DEF HomeAsked
<1>8. QED
  BY <1>3, <1>7 DEF HomeInv

(* The archive's card takes what is left of the total.                     *)
LEMMA HomeShowStep ==
  ASSUME BInv, HomeInv, HomeShow
  PROVE  HomeInv'
<1>1. /\ req = [kind |-> "home", total |-> req.total, left |-> req.left, cards |-> req.cards,
                shown |-> req.shown]
      /\ req.kind = "home" /\ req.left = {} /\ ~req.shown /\ UNCHANGED <<rows, steady>>
  BY DEF HomeShow, BInv, Shaped
<1>2. HomeAsked
  BY <1>1 DEF HomeInv
<1> DEFINE S == SumCards(req.cards)
           a == ArchiveCard(req.total, S)
           g == <<Archive, a>>
<1>3. /\ req'.kind = "home" /\ req'.total = req.total /\ req'.shown = TRUE /\ req'.left = {}
      /\ req'.cards = IF req.cards = {} THEN {} ELSE req.cards \cup {g}
  BY <1>1 DEF HomeShow, CardsWithArchive
<1>4. S \in Nat /\ req.total \in Nat /\ AreCards(req.cards)
  BY <1>2, SumIsPile DEF HomeAsked
<1>5. a = (IF req.total < S THEN 0 ELSE req.total - S) /\ a \in Nat
  BY <1>4 DEF ArchiveCard
<1>6. g \notin req.cards /\ g[2] = a /\ g[1] = Archive
  BY <1>2, BrowseAssumption DEF HomeAsked
<1> HIDE DEF S, a, g
<1>7. SumCards(req.cards \cup {g}) = a + S
  BY <1>4, <1>5, <1>6, OneCardMore DEF S
<1>8. req'.cards # {} => SumCards(req'.cards) >= req'.total
  <2>1. a + S >= req.total
    BY <1>4, <1>5
  <2>2. QED
    BY <1>3, <1>7, <2>1
<1>9. ASSUME steady, NEW h \in req'.cards
      PROVE  h[2] = Cardinality({c \in rows : IF h[1] = Archive THEN Coll[c] \notin Configured
                                              ELSE Coll[c] = h[1]})
  <2>1. req.total = Cardinality(rows) /\ req.cards = Counted(Configured, rows)
    <3>1. Configured \ req.left = Configured
      BY <1>1
    <3>2. QED
      BY <1>2, <1>9, <3>1 DEF HomeAsked
  <2>2. rows \in SUBSET Caps
    BY DEF BInv, TypeOK
  <2>3. CASE h = g
    <3> DEFINE named == {c \in rows : Coll[c] \in Configured}
               rest == {c \in rows : Coll[c] \notin Configured}
    <3>1. IsFiniteSet(named) /\ IsFiniteSet(rest)
      BY <2>2, BrowseAssumption, FS_Subset
    <3>2. rows = named \cup rest /\ named \cap rest = {}
      OBVIOUS
    <3>3. S = Cardinality(named)
      BY <2>1, <2>2, CountedSum DEF S
    <3> HIDE DEF named, rest
    <3>4. /\ Cardinality(named \cup rest) = Cardinality(named) + Cardinality(rest)
          /\ Cardinality(named) \in Nat /\ Cardinality(rest) \in Nat
      BY <3>1, <3>2, Apart
    <3>5. req.total = S + Cardinality(rest)
      BY <2>1, <3>2, <3>3, <3>4
    <3>6. a = Cardinality(rest)
      BY <1>4, <1>5, <3>4, <3>5
    <3>7. QED
      BY <1>6, <2>3, <3>6 DEF rest
  <2>4. CASE h # g
    <3>1. h \in Counted(Configured, rows)
      BY <1>3, <1>9, <2>1, <2>4
    <3>2. PICK n \in Configured : h = <<n, collection_count(n, rows)>>
      BY <3>1 DEF Counted
    <3>3. n # Archive /\ h[1] = n /\ h[2] = Cardinality({c \in rows : Coll[c] = n})
      BY <3>2, BrowseAssumption DEF collection_count
    <3>4. QED
      BY <3>3
  <2>5. QED
    BY <2>3, <2>4
<1>10. HomeShown'
  BY <1>1, <1>3, <1>8, <1>9 DEF HomeShown
<1>11. QED
  BY <1>3, <1>10 DEF HomeInv

(* Both pages' counts are inductive relative to the invariant.             *)
LEMMA CardsStep == BInv /\ HomeInv /\ StatsInv /\ [Next]_vars => (HomeInv /\ StatsInv)'
<1> SUFFICES ASSUME BInv, HomeInv, StatsInv, [Next]_vars PROVE HomeInv' /\ StatsInv'
  OBVIOUS
<1>1. ASSUME NEW q, Browse(q) PROVE HomeInv' /\ StatsInv'
  <2>1. req' \in Pages(q, rows) /\ rows \in SUBSET Caps
    BY <1>1 DEF Browse, BInv, TypeOK
  <2>2. req'.kind \in PageKinds
    BY <2>1, PageFits
  <2>3. QED
    BY <2>2 DEF PageKinds, HomeInv, StatsInv
<1>2. CASE HomeTotal
  <2>1. /\ req' = [kind |-> "home", total |-> Cardinality(rows), left |-> Configured,
                   cards |-> {}, shown |-> FALSE]
        /\ steady' = TRUE /\ rows' = rows
    BY <1>2 DEF HomeTotal
  <2>2. Cardinality(rows) \in Nat
    BY BrowseAssumption, FS_Subset, FS_CardinalityType DEF BInv, TypeOK
  <2>3. AreCards({})
    BY FS_EmptySet DEF AreCards
  <2>4. Counted(Configured \ Configured, rows) = {}
    BY DEF Counted
  <2>5. HomeAsked'
    BY <2>1, <2>2, <2>3, <2>4 DEF HomeAsked
  <2>6. QED
    BY <2>1, <2>5 DEF HomeInv, StatsInv
<1>3. ASSUME NEW name \in Configured, HomeCount(name) PROVE HomeInv' /\ StatsInv'
  <2>1. req'.kind = "home"
    BY <1>3 DEF HomeCount, BInv, Shaped
  <2>2. QED
    BY <1>3, <2>1, HomeCountStep DEF StatsInv
<1>4. CASE HomeShow
  <2>1. req'.kind = "home"
    BY <1>4 DEF HomeShow, BInv, Shaped
  <2>2. QED
    BY <1>4, <2>1, HomeShowStep DEF StatsInv
<1>5. CASE StatsAsk
  BY <1>5 DEF StatsAsk, HomeInv, StatsInv
<1>6. CASE StatsQuery
  <2>1. /\ req = [kind |-> "stats", left |-> req.left, total |-> req.total, cards |-> req.cards]
        /\ UNCHANGED <<rows, steady>>
    BY <1>6 DEF StatsQuery, BInv, Shaped
  <2>2. req'.kind = "stats"
    BY <1>6, <2>1 DEF StatsQuery
  <2>3. StatsInv'
    <3>1. CASE "basic" \in req.left /\ req' = [req EXCEPT !.left = @ \ {"basic"},
                                                          !.total = Cardinality(rows)]
      <4>1. /\ req'.left = req.left \ {"basic"} /\ req'.total = Cardinality(rows)
            /\ req'.cards = req.cards
        BY <2>1, <3>1
      <4>2. QED
        BY <2>1, <2>2, <4>1 DEF StatsInv
    <3>2. CASE "colls" \in req.left /\ req' = [req EXCEPT !.left = @ \ {"colls"},
                                                          !.cards = collection_counts(rows)]
      <4>1. /\ req'.left = req.left \ {"colls"} /\ req'.total = req.total
            /\ req'.cards = collection_counts(rows)
        BY <2>1, <3>2
      <4>2. collection_counts(rows)' = collection_counts(rows)
        BY <2>1 DEF collection_counts, Groups
      <4>3. QED
        BY <2>1, <2>2, <4>1, <4>2 DEF StatsInv
    <3>3. QED
      BY <1>6, <3>1, <3>2 DEF StatsQuery
  <2>4. QED
    BY <2>2, <2>3 DEF HomeInv
<1>7. ASSUME NEW c, NEW prefix, cdx_handler(c, prefix, Stamp[c]) PROVE HomeInv' /\ StatsInv'
  BY <1>7 DEF cdx_handler, HomeInv, StatsInv
<1>8. ASSUME NEW c \in Caps, Commit(c) \/ Purge(c) PROVE HomeInv' /\ StatsInv'
  <2>1. UNCHANGED req /\ steady' = FALSE
    BY <1>8 DEF Commit, Purge
  <2>2. QED
    BY <2>1 DEF HomeInv, HomeAsked, HomeShown, StatsInv
<1>9. CASE UNCHANGED <<rows, req, steady>>
  <2>1. collection_counts(rows)' = collection_counts(rows)
    BY <1>9 DEF collection_counts, Groups
  <2>2. StatsInv'
    BY <1>9, <2>1 DEF StatsInv
  <2>3. HomeInv'
    BY <1>9 DEF HomeInv, HomeAsked, HomeShown
  <2>4. QED
    BY <2>2, <2>3
<1>10. ASSUME NEW c \in Caps, CrawlAsk(c) PROVE UNCHANGED <<rows, req, steady>>
  BY <1>10 DEF CrawlAsk
<1>11. CrawlWrite \/ UNCHANGED vars => UNCHANGED <<rows, req, steady>>
  BY DEF CrawlWrite, vars
<1>12. QED
  BY <1>1, <1>2, <1>3, <1>4, <1>5, <1>6, <1>7, <1>8, <1>9, <1>10, <1>11 DEF Next

(* Every number of captures a page shows is the sum of those behind it,    *)
(* for every table: the homepage and the statistics page against the       *)
(* total whatever is committed between their statements, the TLDs against  *)
(* their domains and, where no path holds a comma, the domains against     *)
(* their hosts.                                                            *)
THEOREM PagesAgree == PlainLabels => (Spec => []CountsAgree)
<1> SUFFICES ASSUME PlainLabels PROVE Spec => []CountsAgree
  OBVIOUS
<1>1. BInv /\ HomeInv /\ StatsInv => CountsAgree
  <2> SUFFICES ASSUME BInv, HomeInv, StatsInv PROVE CountsAgree
    OBVIOUS
  <2>1. rows \in SUBSET Caps
    BY DEF BInv, TypeOK
  <2>2. CardsAddUp
    <3>1. req.kind = "home" /\ req.shown /\ req.cards # {} =>
            /\ SumCards(req.cards) >= req.total
            /\ steady => \A g \in req.cards :
                 g[2] = Cardinality({c \in rows : IF g[1] = Archive THEN Coll[c] \notin Configured
                                                  ELSE Coll[c] = g[1]})
      BY DEF HomeInv, HomeShown
    <3>2. req.kind = "stats" /\ req.left = {} /\ steady => SumCards(req.cards) = req.total
      BY <2>1, PagesAddUp DEF StatsInv
    <3>3. QED
      BY <3>1, <3>2 DEF CardsAddUp
  <2>3. ASSUME NEW t \in browse_tlds(rows), t[1] # <<>>
        PROVE  /\ t[2] = SumCards(browse_domains(t[1], rows))
               /\ (\A c \in rows : Ordinary(c)) =>
                     \A d \in browse_domains(t[1], rows) :
                       d[2] = SumCards(browse_subdomains(d[1], rows))
    <3>1. PICK c \in rows : t = <<TldOf(c), Cardinality({d \in rows : TldOf(d) = TldOf(c)})>>
      BY DEF browse_tlds, Groups
    <3>2. t[1] = TldOf(c) /\ t[2] = Cardinality({d \in rows : TldOf(d) = TldOf(c)})
      BY <3>1
    <3>3. t[2] = SumCards(browse_domains(t[1], rows))
      BY <2>1, <2>3, <3>2, TldCounts
    <3>4. ASSUME \A x \in rows : Ordinary(x), NEW d \in browse_domains(t[1], rows)
          PROVE  d[2] = SumCards(browse_subdomains(d[1], rows))
      BY <2>1, <3>2, <3>4, DomainCounts
    <3>5. QED
      BY <3>3, <3>4
  <2>4. QED
    BY <2>2, <2>3 DEF CountsAgree
<1>2. Init => HomeInv /\ StatsInv
  BY DEF Init, Idle, HomeInv, StatsInv
<1>3. QED
  BY InitBInv, StepBInv, CardsStep, <1>1, <1>2, PTL DEF Spec

-----------------------------------------------------------------------------
(* Domains and keys.                                                       *)

Evens(m) == {2 * k : k \in 1..m}

(* There are m even numbers up to 2m.                                      *)
LEMMA EvensCounted ==
  ASSUME NEW m \in Nat
  PROVE  Cardinality(Evens(m)) = m
<1> DEFINE f == [k \in 1..m |-> 2 * k]
<1>1. f \in Bijection(1..m, Evens(m))
  <2>1. f \in [1..m -> Evens(m)]
    BY DEF Evens
  <2>2. \A i, k \in 1..m : f[i] = f[k] => i = k
    OBVIOUS
  <2>3. \A x \in Evens(m) : \E k \in 1..m : f[k] = x
    BY DEF Evens
  <2> HIDE DEF f
  <2>4. QED
    BY <2>1, <2>2, <2>3 DEF Bijection, Injection, IsInjective, Surjection
<1>2. ExistsBijection(1..m, Evens(m))
  BY <1>1 DEF ExistsBijection
<1>3. QED
  BY <1>2, FirstNumbers, FS_Bijection

(* In order they are 2, 4, 6, ...                                          *)
LEMMA EvensAscend ==
  ASSUME NEW m \in Nat
  PROVE  Ascending(Evens(m)) = [k \in 1..m |-> 2 * k]
<1> DEFINE P == Evens(m)
           up == Ascending(P)
<1>1. 2 * m \in Nat /\ P \in SUBSET (1..(2 * m))
  BY DEF Evens
<1>2. Cardinality(P) = m
  BY EvensCounted
<1>3. ASSUME NEW k \in 1..m PROVE Rank(P, 2 * k) = k /\ 2 * k \in P
  <2>1. {j \in P : j <= 2 * k} = Evens(k)
    BY DEF Evens
  <2>2. k \in Nat
    OBVIOUS
  <2>3. Cardinality(Evens(k)) = k
    BY <2>2, EvensCounted
  <2>4. 2 * k \in P
    BY DEF Evens
  <2>5. QED
    BY <2>1, <2>3, <2>4 DEF Rank
<1>4. up \in [1..m -> P] /\ \A i \in P : up[Rank(P, i)] = i
  BY <1>1, <1>2, Upwards
<1> HIDE DEF P, up
<1>5. \A k \in 1..m : up[k] = 2 * k
  BY <1>3, <1>4
<1>6. up = [k \in 1..m |-> 2 * k]
  BY <1>4, <1>5
<1>7. QED
  BY <1>6 DEF up, P

(* Parts with a separator between them.                                    *)
LEMMA MarksBetween ==
  ASSUME NEW parts, Len(parts) \in Nat, NEW a
  PROVE  /\ \A k \in 1..Len(parts) : Between(parts, a)[2 * k - 1] = parts[k]
         /\ \A k \in 1..(Len(parts) - 1) : Between(parts, a)[2 * k] = a
<1> DEFINE m == Len(parts)
           s == Between(parts, a)
<1>1. s = [i \in 1..(2 * m - 1) |-> IF i % 2 = 1 THEN parts[(i + 1) \div 2] ELSE a]
  BY DEF Between
<1> HIDE DEF m, s
<1>2. m \in Nat
  BY DEF m
<1>3. ASSUME NEW k \in 1..m PROVE s[2 * k - 1] = parts[k]
  <2>1. 2 * k - 1 \in 1..(2 * m - 1) /\ (2 * k - 1) % 2 = 1 /\ ((2 * k - 1) + 1) \div 2 = k
    BY <1>2
  <2>2. QED
    BY <1>1, <2>1
<1>4. ASSUME NEW k \in 1..(m - 1) PROVE s[2 * k] = a
  <2>1. 2 * k \in 1..(2 * m - 1) /\ (2 * k) % 2 # 1
    BY <1>2
  <2>2. QED
    BY <1>1, <2>1
<1>5. QED
  BY <1>3, <1>4 DEF m, s

(* Together they are of one kind.                                          *)
LEMMA BetweenIs ==
  ASSUME NEW T, NEW parts \in Seq(T), parts # <<>>, NEW a \in T
  PROVE  /\ Between(parts, a) \in Seq(T)
         /\ Len(Between(parts, a)) = 2 * Len(parts) - 1
<1> DEFINE m == Len(parts)
           s == Between(parts, a)
<1>1. m \in Nat \ {0} /\ parts \in [1..m -> T]
  OBVIOUS
<1>2. s = [i \in 1..(2 * m - 1) |-> IF i % 2 = 1 THEN parts[(i + 1) \div 2] ELSE a]
  BY DEF Between
<1> HIDE DEF m, s
<1>3. \A i \in 1..(2 * m - 1) : i % 2 = 1 => (i + 1) \div 2 \in 1..m
  BY <1>1
<1>4. s \in [1..(2 * m - 1) -> T]
  BY <1>1, <1>2, <1>3
<1>5. s \in Seq(T) /\ Len(s) = 2 * m - 1
  BY <1>1, <1>4
<1>6. QED
  BY <1>5 DEF m, s

(* A piece of one element.                                                 *)
LEMMA OneOf ==
  ASSUME NEW T, NEW s \in Seq(T), NEW i \in 1..Len(s)
  PROVE  SubSeq(s, i, i) = <<s[i]>>
<1> DEFINE u == SubSeq(s, i, i)
           v == <<s[i]>>
<1>1. u \in Seq(T) /\ Len(u) = 1 /\ u[1] = s[i]
  OBVIOUS
<1>2. v \in Seq(T) /\ Len(v) = 1 /\ v[1] = s[i]
  OBVIOUS
<1> HIDE DEF u, v
<1>3. u = v
  BY <1>1, <1>2
<1>4. QED
  BY <1>3 DEF u, v

Singles(parts) == [k \in 1..Len(parts) |-> <<parts[k]>>]

(* Splitting at the separator gives the parts back.                        *)
LEMMA SplitBetween ==
  ASSUME NEW T, NEW parts \in Seq(T), parts # <<>>, NEW a \in T,
         \A k \in DOMAIN parts : parts[k] # a
  PROVE  /\ SplitAt(Between(parts, a), a) = Singles(parts)
         /\ {i \in DOMAIN Between(parts, a) : Between(parts, a)[i] = a} = Evens(Len(parts) - 1)
<1> DEFINE m == Len(parts)
           s == Between(parts, a)
<1>1. /\ m \in Nat \ {0} /\ parts \in [1..m -> T]
      /\ s \in Seq(T) /\ Len(s) = 2 * m - 1 /\ DOMAIN s = 1..(2 * m - 1)
      /\ \A k \in 1..m : s[2 * k - 1] = parts[k]
      /\ \A k \in 1..(m - 1) : s[2 * k] = a
  <2>1. m \in Nat \ {0} /\ parts \in [1..m -> T]
    OBVIOUS
  <2>2. s \in Seq(T) /\ Len(s) = 2 * m - 1
    BY BetweenIs
  <2>3. /\ \A k \in 1..m : s[2 * k - 1] = parts[k]
        /\ \A k \in 1..(m - 1) : s[2 * k] = a
    BY <2>1, MarksBetween
  <2> HIDE DEF m, s
  <2>4. QED
    BY <2>1, <2>2, <2>3
<1>2. \A k \in 1..m : parts[k] # a
  BY <1>1
<1> DEFINE cuts == {i \in DOMAIN s : s[i] = a}
           ends == Ascending(cuts \cup {Len(s) + 1})
<1>3. SplitAt(s, a) = [n \in DOMAIN ends |->
                         SubSeq(s, IF n = 1 THEN 1 ELSE ends[n - 1] + 1, ends[n] - 1)]
  BY DEF SplitAt
<1> HIDE DEF m, s
<1>4. cuts = Evens(m - 1)
  <2>1. ASSUME NEW i \in 1..(2 * m - 1)
        PROVE  s[i] = a <=> i \in Evens(m - 1)
    <3>1. CASE i % 2 = 1
      <4>1. (i + 1) \div 2 \in 1..m /\ i = 2 * ((i + 1) \div 2) - 1
        BY <1>1, <3>1
      <4>2. s[i] # a
        BY <1>1, <1>2, <4>1
      <4>3. i \notin Evens(m - 1)
        BY <1>1, <3>1 DEF Evens
      <4>4. QED
        BY <4>2, <4>3
    <3>2. CASE i % 2 # 1
      <4>1. i \div 2 \in 1..(m - 1) /\ i = 2 * (i \div 2)
        BY <1>1, <3>2
      <4>2. s[i] = a
        BY <1>1, <4>1
      <4>3. i \in Evens(m - 1)
        BY <4>1 DEF Evens
      <4>4. QED
        BY <4>2, <4>3
    <3>3. QED
      BY <3>1, <3>2
  <2>2. \A x \in Evens(m - 1) : x \in 1..(2 * m - 1)
    BY <1>1 DEF Evens
  <2>3. QED
    BY <1>1, <2>1, <2>2
<1>5. cuts \cup {Len(s) + 1} = Evens(m)
  <2>1. \A x : x \in Evens(m) <=> x \in Evens(m - 1) \/ x = 2 * m
    BY <1>1 DEF Evens
  <2>2. Len(s) + 1 = 2 * m
    BY <1>1
  <2> HIDE DEF cuts
  <2>3. QED
    BY <1>4, <2>1, <2>2
<1>6. ends = [k \in 1..m |-> 2 * k]
  BY <1>1, <1>5, EvensAscend
<1> HIDE DEF ends, cuts
<1>7. ASSUME NEW n \in 1..m
      PROVE  SubSeq(s, IF n = 1 THEN 1 ELSE ends[n - 1] + 1, ends[n] - 1) = <<parts[n]>>
  <2> DEFINE from == IF n = 1 THEN 1 ELSE ends[n - 1] + 1
  <2>1. ends[n] = 2 * n /\ (n # 1 => ends[n - 1] = 2 * (n - 1))
    BY <1>1, <1>6
  <2>2. from = 2 * n - 1 /\ ends[n] - 1 = 2 * n - 1
    BY <2>1
  <2>3. 2 * n - 1 \in 1..Len(s) /\ s[2 * n - 1] = parts[n]
    BY <1>1
  <2> HIDE DEF from
  <2>4. SubSeq(s, 2 * n - 1, 2 * n - 1) = <<s[2 * n - 1]>>
    BY <1>1, <2>3, OneOf
  <2>5. SubSeq(s, from, ends[n] - 1) = <<parts[n]>>
    BY <2>2, <2>3, <2>4
  <2>6. QED
    BY <2>5 DEF from
<1>8. DOMAIN ends = 1..m
  BY <1>6
<1>9. SplitAt(s, a) = [n \in 1..m |-> <<parts[n]>>]
  BY <1>3, <1>7, <1>8
<1>10. QED
  BY <1>4, <1>9 DEF Singles, s, m, cuts

(* One element more of a sequence.                                         *)
LEMMA OneLonger ==
  ASSUME NEW T, NEW s \in Seq(T), NEW i \in 2..Len(s)
  PROVE  SubSeq(s, 1, i) = SubSeq(s, 1, i - 1) \o <<s[i]>>
<1> DEFINE u == SubSeq(s, 1, i)
           v == SubSeq(s, 1, i - 1)
           x == <<s[i]>>
<1>1. u \in Seq(T) /\ Len(u) = i /\ \A k \in 1..i : u[k] = s[k]
  OBVIOUS
<1>2. v \in Seq(T) /\ Len(v) = i - 1 /\ \A k \in 1..(i - 1) : v[k] = s[k]
  OBVIOUS
<1>3. x \in Seq(T) /\ Len(x) = 1 /\ x[1] = s[i]
  OBVIOUS
<1>4. i \in Nat /\ i >= 2
  OBVIOUS
<1> HIDE DEF u, v, x
<1>5. /\ v \o x \in Seq(T) /\ Len(v \o x) = Len(v) + Len(x)
      /\ \A k \in 1..Len(v) : (v \o x)[k] = v[k]
      /\ \A k \in 1..Len(x) : (v \o x)[Len(v) + k] = x[k]
  <2>1. v \in Seq(T) /\ x \in Seq(T)
    BY <1>2, <1>3
  <2>2. QED
    BY <2>1, Behind
<1>6. \A k \in 1..i : (v \o x)[k] = s[k]
  <2>1. (v \o x)[i] = s[i]
    <3>1. 1 \in 1..Len(x) /\ Len(v) + 1 = i
      BY <1>2, <1>3, <1>4
    <3>2. QED
      BY <1>3, <1>5, <3>1
  <2>2. \A k \in 1..i : k = i \/ k \in 1..(i - 1)
    BY <1>4
  <2>3. \A k \in 1..(i - 1) : (v \o x)[k] = s[k]
    BY <1>2, <1>5
  <2>4. QED
    BY <2>1, <2>2, <2>3
<1>7. Len(v \o x) = i
  BY <1>2, <1>3, <1>4, <1>5
<1>8. u = v \o x
  <2> DEFINE w == v \o x
  <2>1. w \in Seq(T) /\ Len(w) = i /\ \A k \in 1..i : w[k] = u[k]
    BY <1>1, <1>5, <1>6, <1>7
  <2> HIDE DEF w
  <2>2. u = w
    BY <1>1, <2>1
  <2>3. QED
    BY <2>2 DEF w
<1>9. QED
  BY <1>8 DEF u, v, x

Joins(ss, f) == [i \in 1..Len(ss) |-> IF i = 1 THEN ss[i] ELSE f[i - 1] \o ss[i]]

(* A sequence of singles is put together again to the sequence itself.     *)
LEMMA FlattenSingles ==
  ASSUME NEW T, NEW s \in Seq(T), s # <<>>
  PROVE  FlattenSeq(Singles(s)) = s
<1> DEFINE ss == Singles(s)
           n == Len(s)
           f == [i \in 1..n |-> SubSeq(s, 1, i)]
           g == CHOOSE h : h = Joins(ss, h)
<1>1. n \in Nat \ {0} /\ s \in [1..n -> T] /\ SubSeq(s, 1, n) = s
  OBVIOUS
<1>2. SubSeq(s, 1, 1) = <<s[1]>>
  BY <1>1, OneOf
<1>3. ss = [i \in 1..n |-> <<s[i]>>] /\ Len(ss) = n
  BY DEF Singles
<1>4. \A i \in 2..n : SubSeq(s, 1, i) = SubSeq(s, 1, i - 1) \o <<s[i]>>
  BY OneLonger
<1> HIDE DEF ss
<1>5. f = Joins(ss, f)
  <2>1. \A i \in 1..n : f[i] = IF i = 1 THEN ss[i] ELSE f[i - 1] \o ss[i]
    <3> SUFFICES ASSUME NEW i \in 1..n
                 PROVE  f[i] = IF i = 1 THEN ss[i] ELSE f[i - 1] \o ss[i]
      OBVIOUS
    <3>1. ss[i] = <<s[i]>> /\ f[i] = SubSeq(s, 1, i)
      BY <1>3
    <3>2. CASE i = 1
      BY <1>2, <3>1, <3>2
    <3>3. CASE i # 1
      <4>1. i \in 2..n /\ i - 1 \in 1..n
        BY <1>1, <3>3
      <4>2. f[i - 1] = SubSeq(s, 1, i - 1)
        BY <4>1
      <4> HIDE DEF f, n
      <4>3. QED
        BY <1>4, <3>1, <3>3, <4>1, <4>2
    <3>4. QED
      BY <3>2, <3>3
  <2>2. f = [i \in 1..n |-> f[i]]
    OBVIOUS
  <2> HIDE DEF f, n
  <2>3. QED
    BY <1>3, <2>1, <2>2 DEF Joins
<1>6. g = Joins(ss, g)
  BY <1>5
<1> HIDE DEF g
<1>7. \A i \in 1..n : g[i] = f[i]
  <2> DEFINE Bad == {i \in 1..n : g[i] # f[i]}
  <2> SUFFICES ASSUME Bad # {} PROVE FALSE
    OBVIOUS
  <2>1. PICK i \in Bad : \A j \in Bad : i <= j
    <3>1. Bad \subseteq Nat
      OBVIOUS
    <3> HIDE DEF Bad
    <3>2. QED
      BY <3>1, Least
  <2>2. \A h : Joins(ss, h)[i] = IF i = 1 THEN ss[i] ELSE h[i - 1] \o ss[i]
    BY <1>3, <2>1 DEF Joins
  <2>3. g[i] = IF i = 1 THEN ss[i] ELSE g[i - 1] \o ss[i]
    BY <1>6, <2>2
  <2>4. f[i] = IF i = 1 THEN ss[i] ELSE f[i - 1] \o ss[i]
    BY <1>5, <2>2
  <2>5. i # 1 => i - 1 \in 1..n /\ ~(i <= i - 1)
    BY <1>1, <2>1
  <2> HIDE DEF f
  <2>6. i # 1 => g[i - 1] = f[i - 1]
    BY <2>1, <2>5
  <2>7. g[i] = f[i]
    BY <2>3, <2>4, <2>6
  <2>8. QED
    BY <2>1, <2>7
<1>8. FlattenSeq(ss) = g[n]
  BY <1>1, <1>3 DEF FlattenSeq, Joins, g
<1>9. g[n] = s
  <2>1. n \in 1..n
    BY <1>1
  <2>2. f[n] = SubSeq(s, 1, n)
    BY <2>1
  <2> HIDE DEF f, n
  <2>3. QED
    BY <1>1, <1>7, <2>1, <2>2
<1>10. QED
  BY <1>8, <1>9 DEF ss

(* Singles joined with a separator.                                        *)
LEMMA JoinSingles ==
  ASSUME NEW T, NEW parts \in Seq(T), parts # <<>>, NEW b \in T
  PROVE  Joined(Singles(parts), b) = Between(parts, b)
<1> DEFINE m == Len(parts)
           s == Between(parts, b)
           t == Between(Singles(parts), <<b>>)
<1>1. m \in Nat \ {0}
  OBVIOUS
<1>2. s = [i \in 1..(2 * m - 1) |-> IF i % 2 = 1 THEN parts[(i + 1) \div 2] ELSE b]
  BY DEF Between
<1>3. Len(Singles(parts)) = m /\ \A k \in 1..m : Singles(parts)[k] = <<parts[k]>>
  BY DEF Singles
<1>4. t = [i \in 1..(2 * m - 1) |->
             IF i % 2 = 1 THEN Singles(parts)[(i + 1) \div 2] ELSE <<b>>]
  BY <1>3 DEF Between
<1>5. s \in Seq(T) /\ Len(s) = 2 * m - 1
  BY BetweenIs
<1> HIDE DEF s, t, m
<1>6. \A i \in 1..(2 * m - 1) : i % 2 = 1 => (i + 1) \div 2 \in 1..m
  BY <1>1
<1>7. \A i \in 1..(2 * m - 1) : t[i] = <<s[i]>>
  BY <1>2, <1>3, <1>4, <1>6
<1>8. t = Singles(s)
  <2>1. t = [i \in 1..(2 * m - 1) |-> t[i]]
    BY <1>4
  <2>2. QED
    BY <1>5, <1>7, <2>1 DEF Singles
<1>9. s # <<>>
  BY <1>1, <1>5
<1>10. FlattenSeq(t) = s
  BY <1>5, <1>8, <1>9, FlattenSingles
<1>11. QED
  BY <1>10 DEF Joined, s, t

(* surt_to_domain and domain_to_surt_prefix turn the labels around and     *)
(* change what is between them.                                            *)
LEMMA TurnedAround ==
  ASSUME NEW T, NEW parts \in Seq(T), parts # <<>>, NEW a \in T, NEW b \in T,
         \A k \in DOMAIN parts : parts[k] # a
  PROVE  Joined(Reverse(SplitAt(Between(parts, a), a)), b) = Between(Reverse(parts), b)
<1> DEFINE m == Len(parts)
           rs == Reverse(parts)
<1>1. m \in Nat \ {0} /\ parts \in [1..m -> T]
  OBVIOUS
<1>2. SplitAt(Between(parts, a), a) = Singles(parts)
  BY SplitBetween
<1>3. rs = [i \in 1..m |-> parts[m - i + 1]]
  BY DEF Reverse
<1>4. Singles(parts) = [i \in 1..m |-> <<parts[i]>>] /\ Len(Singles(parts)) = m
  BY DEF Singles
<1>5. Reverse(Singles(parts)) = [i \in 1..m |-> Singles(parts)[m - i + 1]]
  BY <1>4 DEF Reverse
<1> HIDE DEF m, rs
<1>6. \A i \in 1..m : m - i + 1 \in 1..m
  BY <1>1
<1>7. rs \in Seq(T) /\ Len(rs) = m /\ rs # <<>>
  <2>1. rs \in [1..m -> T]
    BY <1>1, <1>3, <1>6
  <2>2. QED
    BY <1>1, <2>1
<1>8. Reverse(Singles(parts)) = Singles(rs)
  <2>1. \A i \in 1..m : Singles(parts)[m - i + 1] = <<rs[i]>>
    BY <1>3, <1>4, <1>6
  <2>2. QED
    BY <1>5, <1>7, <2>1 DEF Singles
<1>9. Joined(Singles(rs), b) = Between(rs, b)
  BY <1>7, JoinSingles
<1>10. QED
  BY <1>2, <1>8, <1>9 DEF rs

Point == "."
Words == Tokens \cup {Point}

(* Labels as they are between points and between commas.                   *)
AreLabels(names) ==
  /\ names \in Seq(Words) /\ names # <<>>
  /\ \A k \in DOMAIN names : names[k] # Comma /\ names[k] # Point

(* So a SURT key's host becomes its domain, and a domain the key's host    *)
(* again, with the parenthesis behind it.                                  *)
LEMMA DomainAndBack ==
  ASSUME NEW names, AreLabels(names)
  PROVE  /\ surt_to_domain(Between(names, Comma)) = Between(Reverse(names), Point)
         /\ domain_to_surt_prefix(Between(Reverse(names), Point))
              = Between(names, Comma) \o <<Paren>>
         /\ Dots(Between(Reverse(names), Point)) = Len(names) - 1
<1> DEFINE m == Len(names)
           rs == Reverse(names)
<1>1. /\ names \in Seq(Words) /\ names # <<>>
      /\ \A k \in DOMAIN names : names[k] # Comma /\ names[k] # Point
  BY DEF AreLabels
<1>2. m \in Nat \ {0} /\ names \in [1..m -> Words]
  BY <1>1
<1>3. Comma \in Words /\ Point \in Words
  BY Zenon DEF Words, Tokens, Comma
<1>4. rs = [i \in 1..m |-> names[m - i + 1]]
  BY DEF Reverse
<1>5. \A i \in 1..m : m - i + 1 \in 1..m /\ m - (m - i + 1) + 1 = i
  BY <1>2
<1> HIDE DEF m, rs
<1>6. rs \in [1..m -> Words]
  BY <1>2, <1>4, <1>5
<1>7. rs \in Seq(Words) /\ Len(rs) = m /\ rs # <<>>
  BY <1>2, <1>6
<1>8. \A k \in DOMAIN rs : rs[k] # Point
  BY <1>1, <1>2, <1>4, <1>5
<1>9. Reverse(rs) = names
  <2>1. Reverse(rs) = [i \in 1..m |-> rs[m - i + 1]]
    BY <1>7 DEF Reverse
  <2>2. \A i \in 1..m : rs[m - i + 1] = names[i]
    BY <1>4, <1>5
  <2>3. names = [i \in 1..m |-> names[i]]
    BY <1>2
  <2>4. QED
    BY <2>1, <2>2, <2>3
<1>10. Joined(Reverse(SplitAt(Between(names, Comma), Comma)), Point) = Between(rs, Point)
  <2>1. \A k \in DOMAIN names : names[k] # Comma
    BY <1>1
  <2>2. QED
    BY <1>1, <1>3, <2>1, TurnedAround, Zenon DEF rs
<1>11. Joined(Reverse(SplitAt(Between(rs, Point), Point)), Comma) = Between(names, Comma)
  BY <1>3, <1>7, <1>8, <1>9, TurnedAround
<1>12. {i \in DOMAIN Between(rs, Point) : Between(rs, Point)[i] = Point} = Evens(m - 1)
  BY <1>3, <1>7, <1>8, SplitBetween
<1>13. Dots(Between(rs, Point)) = m - 1
  <2>1. m - 1 \in Nat
    BY <1>2
  <2>2. Cardinality(Evens(m - 1)) = m - 1
    BY <2>1, EvensCounted
  <2>3. QED
    BY <1>12, <2>2, Zenon DEF Dots, Point
<1>14. surt_to_domain(Between(names, Comma)) = Between(rs, Point)
  BY <1>10, Zenon DEF surt_to_domain, Comma, Point
<1>15. domain_to_surt_prefix(Between(rs, Point)) = Between(names, Comma) \o <<Paren>>
  BY <1>11, Zenon DEF domain_to_surt_prefix, Comma, Point, Paren
<1>16. QED
  BY <1>13, <1>14, <1>15 DEF m, rs

(* to_surt splits the host at its points.                                  *)
SplitLabels == \A c \in Caps : \A k \in DOMAIN Name[c] : Name[c][k] # "."

(* A key is its host with commas, the parenthesis, and the path.           *)
LEMMA HostKey ==
  ASSUME PlainLabels, SplitLabels, NEW c \in Caps
  PROVE  /\ AreLabels(Name[c])
         /\ HostOf(c) = Between(Name[c], Comma)
         /\ IsPrefix(Between(Name[c], Comma) \o <<Paren>>, to_surt[c])
<1> DEFINE names == Name[c]
           m == Len(names)
           s == to_surt[c]
           b == Between(names, Comma)
<1>1. /\ m \in Nat \ {0} /\ s \in Seq(Tokens) /\ Len(s) >= 2 * m
      /\ s[2 * m] = Paren
      /\ \A i \in 1..(2 * m - 1) : s[i] = IF i % 2 = 1 THEN names[(i + 1) \div 2] ELSE Comma
  BY SurtOf, Zenon DEF Comma, Paren
<1>2. names \in Seq(STRING) /\ names # <<>>
  BY BrowseAssumption
<1>3. Comma \in Tokens /\ Paren \in Tokens
  BY Zenon DEF Tokens, Comma, Paren
<1>4. names \in Seq(Tokens) /\ names \in Seq(Words) /\ names \in [1..m -> STRING]
  <2>1. names \in [1..m -> STRING] /\ m \in Nat
    BY <1>2
  <2>2. names \in [1..m -> Tokens] /\ names \in [1..m -> Words]
    BY <2>1 DEF Tokens, Words
  <2>3. QED
    BY <2>1, <2>2
<1>5. \A k \in DOMAIN names : names[k] # Comma /\ names[k] # Point
  BY Zenon DEF PlainLabels, SplitLabels, Comma, Point
<1>6. AreLabels(names)
  BY <1>2, <1>4, <1>5 DEF AreLabels
<1>7. b \in Seq(Tokens) /\ Len(b) = 2 * m - 1
  BY <1>2, <1>3, <1>4, BetweenIs
<1>8. b = [i \in 1..(2 * m - 1) |-> IF i % 2 = 1 THEN names[(i + 1) \div 2] ELSE Comma]
  BY DEF Between
<1>9. HostOf(c) = SubSeq(s, 1, 2 * m - 1)
  BY HostEnds, Zenon DEF HostOf
<1> HIDE DEF names, m, s, b
<1>10. \A i \in 1..(2 * m - 1) : b[i] = s[i]
  BY <1>1, <1>8
<1>11. SubSeq(s, 1, 2 * m - 1) = b
  <2> DEFINE u == SubSeq(s, 1, 2 * m - 1)
  <2>1. u \in Seq(Tokens) /\ Len(u) = 2 * m - 1 /\ \A i \in 1..(2 * m - 1) : u[i] = s[i]
    BY <1>1
  <2> HIDE DEF u
  <2>2. \A i \in 1..(2 * m - 1) : u[i] = b[i]
    BY <1>10, <2>1
  <2>3. u = b
    BY <1>7, <2>1, <2>2
  <2>4. QED
    BY <2>3 DEF u
<1>12. IsPrefix(b \o <<Paren>>, s)
  <2> DEFINE p == <<Paren>>
             h == b \o p
  <2>1. p \in Seq(Tokens) /\ Len(p) = 1 /\ p[1] = Paren
    BY <1>3, Singly
  <2> HIDE DEF p
  <2>2. b \in Seq(Tokens) /\ p \in Seq(Tokens)
    BY <1>7, <2>1
  <2>3. /\ h \in Seq(Tokens) /\ Len(h) = Len(b) + Len(p)
        /\ \A i \in 1..Len(b) : h[i] = b[i]
        /\ \A i \in 1..Len(p) : h[Len(b) + i] = p[i]
    BY <2>2, Behind
  <2>4. Len(h) = 2 * m /\ h[2 * m] = Paren
    <3>1. 1 \in 1..Len(p) /\ Len(b) + 1 = 2 * m
      BY <1>1, <1>7, <2>1
    <3>2. h[2 * m] = p[1]
      BY <2>3, <3>1
    <3>3. QED
      BY <1>1, <1>7, <2>1, <2>3, <3>2
  <2> HIDE DEF h
  <2>5. \A i \in 1..(2 * m) : h[i] = s[i]
    <3>1. \A i \in 1..(2 * m) : i = 2 * m \/ i \in 1..(2 * m - 1)
      BY <1>1
    <3>2. \A i \in 1..(2 * m - 1) : h[i] = s[i]
      BY <1>7, <1>10, <2>3
    <3>3. QED
      BY <1>1, <2>4, <3>1, <3>2
  <2>6. h \in Seq(Tokens) /\ s \in Seq(Tokens)
    BY <1>1, <2>3
  <2>7. IsPrefix(h, s)
    BY <1>1, <2>4, <2>5, <2>6, PrefixAgrees
  <2>8. QED
    BY <2>7 DEF h, p
<1>13. QED
  BY <1>6, <1>9, <1>11, <1>12 DEF names, s, b

(* Its first two labels are a domain.                                      *)
LEMMA DomainKey ==
  ASSUME PlainLabels, SplitLabels, NEW c \in Caps, Ordinary(c)
  PROVE  LET two == <<Name[c][1], Name[c][2]>>
         IN  AreLabels(two) /\ SubSeq(to_surt[c], 1, 3) = Between(two, Comma)
<1> DEFINE names == Name[c]
           m == Len(names)
           s == to_surt[c]
           two == <<names[1], names[2]>>
           b == Between(two, Comma)
           u == SubSeq(s, 1, 3)
<1>1. /\ m \in Nat \ {0} /\ s \in Seq(Tokens) /\ Len(s) >= 2 * m
      /\ \A i \in 1..(2 * m - 1) : s[i] = IF i % 2 = 1 THEN names[(i + 1) \div 2] ELSE Comma
  BY SurtOf, Zenon DEF Comma, Paren
<1>2. m > 1
  BY Zenon DEF Ordinary
<1>3. AreLabels(names)
  BY HostKey
<1>4. names[1] \in Words /\ names[2] \in Words /\ 1 \in DOMAIN names /\ 2 \in DOMAIN names
  BY <1>1, <1>2, <1>3 DEF AreLabels
<1>5. two \in Seq(Words) /\ Len(two) = 2 /\ two # <<>> /\ two[1] = names[1] /\ two[2] = names[2]
  BY <1>4
<1>6. AreLabels(two)
  <2>1. \A k \in DOMAIN two : k = 1 \/ k = 2
    BY <1>5
  <2>2. \A k \in DOMAIN two : two[k] # Comma /\ two[k] # Point
    BY <1>3, <1>4, <1>5, <2>1 DEF AreLabels
  <2>3. QED
    BY <1>5, <2>2 DEF AreLabels
<1>7. u \in Seq(Tokens) /\ Len(u) = 3 /\ u[1] = s[1] /\ u[2] = s[2] /\ u[3] = s[3]
  BY <1>1, <1>2
<1>8. b = [i \in 1..(2 * Len(two) - 1) |-> IF i % 2 = 1 THEN two[(i + 1) \div 2] ELSE Comma]
  BY DEF Between
<1> HIDE DEF names, m, s, two, b, u
<1>9. s[1] = names[1] /\ s[2] = Comma /\ s[3] = names[2]
  <2>1. 1 \in 1..(2 * m - 1) /\ 2 \in 1..(2 * m - 1) /\ 3 \in 1..(2 * m - 1)
    BY <1>1, <1>2
  <2>2. s[1] = names[1]
    <3>1. 1 % 2 = 1 /\ (1 + 1) \div 2 = 1
      OBVIOUS
    <3>2. QED
      BY <1>1, <2>1, <3>1
  <2>3. s[2] = Comma
    <3>1. 2 % 2 # 1
      OBVIOUS
    <3>2. QED
      BY <1>1, <2>1, <3>1
  <2>4. s[3] = names[2]
    <3>1. 3 % 2 = 1 /\ (3 + 1) \div 2 = 2
      OBVIOUS
    <3>2. QED
      BY <1>1, <2>1, <3>1
  <2>5. QED
    BY <2>2, <2>3, <2>4
<1>10. b = [i \in 1..3 |-> IF i % 2 = 1 THEN two[(i + 1) \div 2] ELSE Comma]
  <2>1. 2 * Len(two) - 1 = 3
    BY <1>5
  <2>2. QED
    BY <1>8, <2>1
<1>11. b[1] = two[1] /\ b[2] = Comma /\ b[3] = two[2]
  BY <1>10
<1>12. u = b
  <2>1. u = [i \in 1..3 |-> u[i]]
    BY <1>7
  <2>2. b = [i \in 1..3 |-> b[i]]
    BY <1>10
  <2>3. \A i \in 1..3 : i = 1 \/ i = 2 \/ i = 3
    OBVIOUS
  <2>4. \A i \in 1..3 : u[i] = b[i]
    BY <1>5, <1>7, <1>9, <1>11, <2>3
  <2>5. QED
    BY <2>1, <2>2, <2>4
<1>13. QED
  BY <1>6, <1>12 DEF u, b, two, names, s

-----------------------------------------------------------------------------
(* From page to page.                                                      *)

(* A listing no longer than the limit shows all its groups.                *)
LEMMA AllShown ==
  ASSUME NEW groups, IsFiniteSet(groups), NEW max \in Nat, Cardinality(groups) <= max
  PROVE  groups \in TopSets(groups, max)
<1> DEFINE n == IF Cardinality(groups) < max THEN Cardinality(groups) ELSE max
<1>1. Cardinality(groups) \in Nat
  BY FS_CardinalityType
<1>2. n = Cardinality(groups)
  BY <1>1
<1> HIDE DEF n
<1>3. groups \in {S \in SUBSET groups : /\ Cardinality(S) = n
                                        /\ \A g \in S, h \in groups \ S : g[2] >= h[2]}
  BY <1>2
<1>4. QED
  BY <1>3 DEF TopSets, n

(* There are no more groups than rows, and one for each row.               *)
LEMMA GroupsFit ==
  ASSUME NEW f, IsFiniteSet(DOMAIN f)
  PROVE  /\ IsFiniteSet(GroupsOf(f)) /\ Cardinality(GroupsOf(f)) <= Cardinality(DOMAIN f)
         /\ \A c \in DOMAIN f : \E g \in GroupsOf(f) : g[1] = f[c]
<1> DEFINE T == DOMAIN f
           h == [c \in T |-> Group(f, f[c])]
<1>1. h \in Surjection(T, GroupsOf(f))
  <2>1. h \in [T -> GroupsOf(f)]
    BY DEF GroupsOf
  <2>2. \A g \in GroupsOf(f) : \E c \in T : h[c] = g
    BY DEF GroupsOf
  <2> HIDE DEF h
  <2>3. QED
    BY <2>1, <2>2 DEF Surjection
<1>2. IsFiniteSet(GroupsOf(f)) /\ Cardinality(GroupsOf(f)) <= Cardinality(T)
  BY <1>1, FS_Surjection
<1>3. ASSUME NEW c \in T PROVE \E g \in GroupsOf(f) : g[1] = f[c]
  <2>1. Group(f, f[c])[1] = f[c]
    BY DEF Group
  <2>2. Group(f, f[c]) \in GroupsOf(f)
    BY DEF GroupsOf
  <2>3. QED
    BY <2>1, <2>2
<1>4. QED
  BY <1>2, <1>3

(* So every row has its group on the page.                                 *)
LEMMA OnListing ==
  ASSUME NEW table \in SUBSET Caps, Fits(table), NEW f, DOMAIN f \subseteq table,
         NEW c \in DOMAIN f, NEW kind, NEW of
  PROVE  \E page \in Listing(kind, of, GroupsOf(f)) :
           /\ page.kind = kind /\ page.of = of
           /\ \E g \in page.rows : g[1] = f[c]
<1> DEFINE groups == GroupsOf(f)
           page == [kind |-> kind, of |-> of, rows |-> groups,
                    truncated |-> Cardinality(groups) > MaxRows]
<1>1. IsFiniteSet(table)
  BY BrowseAssumption, FS_Subset
<1>2. IsFiniteSet(DOMAIN f) /\ Cardinality(DOMAIN f) <= Cardinality(table)
  BY <1>1, FS_Subset
<1>3. /\ IsFiniteSet(groups) /\ Cardinality(groups) <= Cardinality(DOMAIN f)
      /\ \E g \in groups : g[1] = f[c]
  BY <1>2, GroupsFit
<1>4. /\ Cardinality(table) \in Nat /\ Cardinality(DOMAIN f) \in Nat
      /\ Cardinality(groups) \in Nat /\ MaxRows \in Nat
  BY <1>1, <1>2, <1>3, FS_CardinalityType, BrowseAssumption
<1> HIDE DEF groups
<1>5. Cardinality(groups) <= MaxRows
  BY <1>2, <1>3, <1>4 DEF Fits
<1>6. groups \in TopSets(groups, MaxRows)
  BY <1>3, <1>4, <1>5, AllShown
<1>7. page \in Listing(kind, of, groups)
  BY <1>6 DEF Listing
<1>8. page.kind = kind /\ page.of = of /\ page.rows = groups
  OBVIOUS
<1> HIDE DEF page
<1>9. QED
  BY <1>3, <1>7, <1>8 DEF groups

(* One click.                                                              *)
Leads(q, r, table) == \E page \in Pages(q, table) : r \in Links(page)

(* From the root to the last label of the host ...                         *)
LEMMA RootLeads ==
  ASSUME PlainLabels, NEW table \in SUBSET Caps, Fits(table), NEW c \in table, Ordinary(c)
  PROVE  Leads(Root, Query("tld", SubSeq(to_surt[c], 1, 1), FALSE), table)
<1> DEFINE f == [d \in table |-> TldOf(d)]
<1>1. DOMAIN f = table /\ f[c] = TldOf(c)
  OBVIOUS
<1>2. browse_tlds(table) = GroupsOf(f)
  BY PagesGroup
<1> HIDE DEF f
<1>3. Pages(Root, table) = Listing("tlds", <<>>, browse_tlds(table))
  BY DEF Pages, Root, Query
<1>4. PICK page \in Listing("tlds", <<>>, GroupsOf(f)) :
        /\ page.kind = "tlds" /\ page.of = <<>>
        /\ \E g \in page.rows : g[1] = f[c]
  BY <1>1, OnListing
<1>5. PICK g \in page.rows : g[1] = TldOf(c)
  BY <1>1, <1>4
<1>6. TldOf(c) = SubSeq(to_surt[c], 1, 1)
  BY KeyGroups
<1>7. Links(page) = {Query("tld", h[1], FALSE) : h \in page.rows}
  BY <1>4 DEF Links
<1>8. Query("tld", SubSeq(to_surt[c], 1, 1), FALSE) \in Links(page)
  BY <1>5, <1>6, <1>7
<1>9. QED
  BY <1>2, <1>3, <1>8 DEF Leads

(* ... to the domain of its last two ...                                   *)
LEMMA TldLeads ==
  ASSUME PlainLabels, NEW table \in SUBSET Caps, Fits(table), NEW c \in table, Ordinary(c)
  PROVE  Leads(Query("tld", SubSeq(to_surt[c], 1, 1), FALSE),
               Query("domain", surt_to_domain(SubSeq(to_surt[c], 1, 3)), FALSE), table)
<1> DEFINE t == SubSeq(to_surt[c], 1, 1)
           lower == t \o <<Comma>>
           T == Under(lower, table)
           f == [d \in T |-> DomainOf(lower, d)]
<1>1. DOMAIN f = T /\ T \subseteq table
  BY DEF Under
<1>2. browse_domains(t, table) = GroupsOf(f)
  BY PagesGroup, Zenon DEF Comma
<1>3. /\ to_surt[c] \in Seq(Tokens) /\ Len(to_surt[c]) \in Nat /\ Len(to_surt[c]) >= 4
      /\ to_surt[c][2] = Comma
  BY KeyStart
<1>4. c \in T /\ Len(lower) = 2
  <2> DEFINE s == to_surt[c]
             p == <<Comma>>
  <2>0. Comma \in Tokens
    BY Zenon DEF Tokens, Comma
  <2>1. t \in Seq(Tokens) /\ Len(t) = 1 /\ t[1] = s[1]
    BY <1>3
  <2>2. p \in Seq(Tokens) /\ Len(p) = 1 /\ p[1] = Comma
    BY <2>0, Singly
  <2> HIDE DEF t, p
  <2>3. t \in Seq(Tokens) /\ p \in Seq(Tokens)
    BY <2>1, <2>2
  <2>4. /\ t \o p \in Seq(Tokens) /\ Len(t \o p) = Len(t) + Len(p)
        /\ \A i \in 1..Len(t) : (t \o p)[i] = t[i]
        /\ \A i \in 1..Len(p) : (t \o p)[Len(t) + i] = p[i]
    BY <2>3, Behind
  <2> DEFINE u == t \o p
  <2>5. Len(u) = 2 /\ u[1] = s[1] /\ u[2] = s[2]
    <3>1. Len(u) = 2
      BY <2>1, <2>2, <2>4
    <3>2. u[1] = t[1]
      BY <2>1, <2>4
    <3>3. 1 \in 1..Len(p) /\ Len(t) + 1 = 2
      BY <2>1, <2>2
    <3>4. u[2] = p[1]
      BY <2>4, <3>3
    <3>5. QED
      BY <1>3, <2>1, <2>2, <3>1, <3>2, <3>4
  <2>6. u \in Seq(Tokens) /\ s \in Seq(Tokens)
    BY <1>3, <2>4
  <2> HIDE DEF u, s
  <2>7. \A i \in 1..Len(u) : u[i] = s[i]
    <3>1. \A i \in 1..2 : i = 1 \/ i = 2
      OBVIOUS
    <3>2. QED
      BY <2>5, <3>1
  <2>8. Len(u) <= Len(s)
    BY <1>3, <2>5 DEF s
  <2>9. IsPrefix(u, s)
    BY <2>6, <2>7, <2>8, PrefixAgrees
  <2>10. QED
    BY <2>5, <2>9 DEF u, p, s, Under
<1>5. f[c] = DomainOf(lower, c)
  BY <1>4
<1>6. DomainOf(lower, c) = SubSeq(to_surt[c], 1, 3)
  BY <1>4, KeyGroups
<1> HIDE DEF f, T
<1>7. PICK page \in Listing("domains", t, GroupsOf(f)) :
        /\ page.kind = "domains" /\ page.of = t
        /\ \E g \in page.rows : g[1] = f[c]
  <2>1. c \in DOMAIN f /\ DOMAIN f \subseteq table
    BY <1>1, <1>4
  <2> HIDE DEF t
  <2>2. QED
    BY <2>1, OnListing
<1>8. PICK g \in page.rows : g[1] = SubSeq(to_surt[c], 1, 3)
  BY <1>5, <1>6, <1>7
<1> DEFINE q == Query("tld", t, FALSE)
<1>9. Pages(q, table) = Listing("domains", t, browse_domains(t, table))
  BY DEF Pages, Query
<1>10. Links(page) = {Query("domain", surt_to_domain(h[1]), FALSE) : h \in page.rows}
  BY <1>7 DEF Links
<1>11. Query("domain", surt_to_domain(SubSeq(to_surt[c], 1, 3)), FALSE) \in Links(page)
  BY <1>8, <1>10
<1>12. QED
  BY <1>2, <1>7, <1>9, <1>11 DEF Leads

(* ... to its host, ...                                                    *)
LEMMA DomainLeads ==
  ASSUME PlainLabels, SplitLabels, NEW table \in SUBSET Caps, Fits(table),
         NEW c \in table, Ordinary(c)
  PROVE  Leads(Query("domain", surt_to_domain(SubSeq(to_surt[c], 1, 3)), FALSE),
               Query("host", surt_to_domain(HostOf(c)), FALSE), table)
<1> DEFINE key == SubSeq(to_surt[c], 1, 3)
           name == surt_to_domain(key)
           two == <<Name[c][1], Name[c][2]>>
           q == Query("domain", name, FALSE)
           T == Under(key \o <<Paren>>, table) \cup Under(key \o <<Comma>>, table)
           f == [d \in T |-> HostOf(d)]
<1>1. AreLabels(two) /\ key = Between(two, Comma)
  BY DomainKey
<1>2. /\ name = Between(Reverse(two), Point)
      /\ domain_to_surt_prefix(name) = key \o <<Paren>>
      /\ Dots(name) = Len(two) - 1
  BY <1>1, DomainAndBack
<1>3. Dots(name) = 1
  <2>1. Len(two) = 2
    OBVIOUS
  <2> HIDE DEF two, name
  <2>2. QED
    BY <1>2, <2>1
<1>4. SubSeq(domain_to_surt_prefix(name), 1, Len(domain_to_surt_prefix(name)) - 1) = key
  <2> DEFINE s == to_surt[c]
             p == <<Paren>>
             w == key \o p
  <2>1. s \in Seq(Tokens) /\ Len(s) \in Nat /\ Len(s) >= 4
    BY KeyStart
  <2>2. key \in Seq(Tokens) /\ Len(key) = 3
    BY <2>1
  <2>3. p \in Seq(Tokens) /\ Len(p) = 1
    <3>1. Paren \in Tokens
      BY Zenon DEF Tokens, Paren
    <3>2. QED
      BY <3>1, Singly
  <2> HIDE DEF key, p
  <2>4. /\ w \in Seq(Tokens) /\ Len(w) = Len(key) + Len(p)
        /\ \A i \in 1..Len(key) : w[i] = key[i]
    <3>1. key \in Seq(Tokens) /\ p \in Seq(Tokens)
      BY <2>2, <2>3
    <3>2. QED
      BY <3>1, Behind
  <2> HIDE DEF w
  <2> DEFINE u == SubSeq(w, 1, 3)
  <2>5. u \in Seq(Tokens) /\ Len(u) = 3 /\ \A i \in 1..3 : u[i] = w[i]
    <3>1. w \in Seq(Tokens) /\ Len(w) = 4
      BY <2>2, <2>3, <2>4
    <3>2. QED
      BY ONLY <3>1
  <2> HIDE DEF u
  <2>6. u = key
    BY <2>2, <2>4, <2>5
  <2>7. Len(w) - 1 = 3
    BY <2>2, <2>3, <2>4
  <2>8. SubSeq(w, 1, Len(w) - 1) = key
    BY <2>6, <2>7 DEF u
  <2>9. QED
    BY <1>2, <2>8 DEF w, p
<1>5. DOMAIN f = T /\ T \subseteq table
  BY DEF Under
<1>6. browse_subdomains(key, table) = GroupsOf(f)
  BY PagesGroup, Zenon DEF Comma, Paren
<1>7. c \in T
  <2>1. IsPrefix(key \o <<Comma>>, to_surt[c]) \/ IsPrefix(key \o <<Paren>>, to_surt[c])
    BY UnderDomain
  <2>2. QED
    BY <2>1 DEF Under
<1>8. f[c] = HostOf(c)
  BY <1>7
<1>9. q.kind = "domain" /\ q.name = name /\ q.all = FALSE
  BY DEF Query
<1> HIDE DEF f, T, key, name, q
<1>10. Pages(q, table) = Listing("hosts", name, browse_subdomains(key, table))
  BY <1>3, <1>4, <1>9 DEF Pages
<1>11. PICK page \in Listing("hosts", name, GroupsOf(f)) :
        /\ page.kind = "hosts" /\ page.of = name
        /\ \E g \in page.rows : g[1] = f[c]
  <2>1. c \in DOMAIN f /\ DOMAIN f \subseteq table
    BY <1>5, <1>7
  <2>2. QED
    BY <2>1, OnListing
<1>12. PICK g \in page.rows : g[1] = HostOf(c)
  BY <1>8, <1>11
<1>13. Links(page) = {Query("host", surt_to_domain(h[1]), FALSE) : h \in page.rows}
  BY <1>11 DEF Links
<1>14. Query("host", surt_to_domain(HostOf(c)), FALSE) \in Links(page)
  BY <1>12, <1>13
<1>15. page \in Pages(q, table)
  BY <1>6, <1>10, <1>11
<1>16. Leads(q, Query("host", surt_to_domain(HostOf(c)), FALSE), table)
  BY <1>14, <1>15 DEF Leads
<1>17. QED
  BY <1>16 DEF q, name, key

(* The entries of a page of captures: each capture is in one, with its     *)
(* URL, and a capture with 2xx status marks it.                            *)
LEMMA InEntries ==
  ASSUME NEW recs \in Seq(Caps), NEW k \in 1..Len(recs)
  PROVE  \E e \in UrlEntries(recs) :
           e.url = Original[recs[k]] /\ (recs[k] \in Good => e.has_2xx)
<1> DEFINE n == Len(recs)
           starts == {i \in DOMAIN recs : i = 1 \/ Original[recs[i]] # Original[recs[i - 1]]}
           Ends(i, j) == /\ j = n \/ j + 1 \in starts
                         /\ \A l \in (i + 1)..j : l \notin starts
           EndOf(i) == CHOOSE j \in i..n : Ends(i, j)
<1>1. n \in Nat /\ DOMAIN recs = 1..n /\ k \in 1..n
  OBVIOUS
<1>2. starts \subseteq 1..n /\ 1 \in starts
  BY <1>1
<1>3. \A i \in 1..n : i \in starts \/ Original[recs[i]] = Original[recs[i - 1]]
  BY <1>1
<1>4. UrlEntries(recs) = {[url |-> Original[recs[i]], count |-> EndOf(i) - i + 1,
                           has_2xx |-> \E l \in i..EndOf(i) : recs[l] \in Good] : i \in starts}
  BY DEF UrlEntries
<1> HIDE DEF starts, n
<1>5. PICK i \in starts : i <= k /\ \A l \in (i + 1)..k : l \notin starts
  <2> DEFINE gaps == {d \in Nat : k - d \in starts}
  <2>1. k - 1 \in gaps
    <3>1. k - 1 \in Nat /\ k - (k - 1) = 1
      BY <1>1
    <3>2. QED
      BY <1>2, <3>1
  <2>2. PICK d \in gaps : \A x \in gaps : d <= x
    <3>1. gaps \subseteq Nat
      OBVIOUS
    <3> HIDE DEF gaps
    <3>2. QED
      BY <2>1, <3>1, Least
  <2>3. k - d \in starts /\ d \in Nat /\ k - d <= k
    BY <1>1, <2>2
  <2>4. ASSUME NEW l \in (k - d + 1)..k PROVE l \notin starts
    <3>1. k - l \in Nat /\ k - (k - l) = l /\ ~(d <= k - l)
      BY <1>1, <2>3
    <3>2. QED
      BY <2>2, <3>1
  <2>5. QED
    BY <2>3, <2>4
<1>6. i \in 1..n
  BY <1>2, <1>5
<1>7. \E j \in i..n : Ends(i, j)
  <2> DEFINE J == {j \in i..n : j = n \/ j + 1 \in starts}
  <2>1. n \in J
    BY <1>1, <1>6
  <2>2. PICK j \in J : \A x \in J : j <= x
    <3>1. J \subseteq Nat
      BY <1>6
    <3> HIDE DEF J
    <3>2. QED
      BY <2>1, <3>1, Least
  <2>3. ASSUME NEW l \in (i + 1)..j PROVE l \notin starts
    <3>1. l - 1 \in i..n /\ (l - 1) + 1 = l /\ ~(j <= l - 1)
      BY <1>1, <1>6, <2>2
    <3>2. QED
      BY <2>2, <3>1
  <2>4. QED
    BY <2>2, <2>3
<1> DEFINE z == EndOf(i)
<1>8. z \in i..n /\ Ends(i, z)
  BY <1>7
<1> HIDE DEF z
<1>9. k <= z
  <2> SUFFICES ASSUME ~(k <= z) PROVE FALSE
    OBVIOUS
  <2>1. z # n /\ z + 1 \in (i + 1)..k
    BY <1>1, <1>6, <1>8
  <2>2. QED
    BY <1>5, <1>8, <2>1
<1>10. Original[recs[k]] = Original[recs[i]]
  <2> DEFINE Bad == {l \in i..k : Original[recs[l]] # Original[recs[i]]}
  <2> SUFFICES ASSUME Bad # {} PROVE FALSE
    <3>1. k \in i..k
      BY <1>1, <1>5, <1>6
    <3>2. QED
      BY <3>1
  <2>1. PICK l \in Bad : \A x \in Bad : l <= x
    <3>1. Bad \subseteq Nat
      BY <1>1, <1>6
    <3> HIDE DEF Bad
    <3>2. QED
      BY <3>1, Least
  <2>2. l # i /\ l \in i..k /\ Original[recs[l]] # Original[recs[i]]
    BY <2>1
  <2>3. l \in (i + 1)..k /\ l - 1 \in i..k /\ l \in 1..n /\ ~(l <= l - 1)
    BY <1>1, <1>6, <2>2
  <2>4. Original[recs[l]] = Original[recs[l - 1]]
    BY <1>3, <1>5, <2>3
  <2>5. l - 1 \notin Bad
    BY <2>1, <2>3
  <2>6. Original[recs[l - 1]] = Original[recs[i]]
    BY <2>3, <2>5
  <2>7. QED
    BY <2>2, <2>4, <2>6
<1> DEFINE e == [url |-> Original[recs[i]], count |-> z - i + 1,
                 has_2xx |-> \E l \in i..z : recs[l] \in Good]
<1>11. e \in UrlEntries(recs)
  BY <1>4, <1>5, Zenon DEF z
<1>12. e.url = Original[recs[k]]
  BY <1>10
<1>13. recs[k] \in Good => e.has_2xx
  <2>1. k \in i..z
    BY <1>1, <1>5, <1>6, <1>8, <1>9
  <2>2. QED
    BY <2>1
<1> HIDE DEF e
<1>14. QED
  BY <1>11, <1>12, <1>13

(* A query has as many rows as its table, at most.                         *)
LEMMA NoMoreRows ==
  ASSUME NEW T \in SUBSET Caps
  PROVE  /\ Ordered(T) \in Seq(Caps) /\ Len(Ordered(T)) \in Nat
         /\ Len(Ordered(T)) <= Cardinality(T) /\ Range(Ordered(T)) = T
<1> DEFINE P == Places(T)
           f == [i \in P |-> Order[i]]
<1>1. IsFiniteSet(T)
  BY BrowseAssumption, FS_Subset
<1>2. f \in Injection(P, T)
  <2>1. \A i \in P : Order[i] \in T /\ i \in DOMAIN Order
    BY DEF Places
  <2>2. \A i, j \in P : f[i] = f[j] => i = j
    BY <2>1, OrderPlaces
  <2>3. f \in [P -> T]
    BY <2>1
  <2> HIDE DEF f, P
  <2>4. QED
    BY <2>2, <2>3 DEF Injection, IsInjective
<1>3. Cardinality(P) <= Cardinality(T)
  BY <1>1, <1>2, FS_Injection
<1>4. Ordered(T) \in [1..Cardinality(P) -> Caps] /\ Cardinality(P) \in Nat
  BY Listed
<1>5. Ordered(T) \in Seq(Caps) /\ Len(Ordered(T)) = Cardinality(P)
  <2> DEFINE all == Ordered(T)
             n == Cardinality(P)
  <2>1. all \in [1..n -> Caps] /\ n \in Nat
    BY <1>4
  <2> HIDE DEF all, n
  <2>2. all \in Seq(Caps) /\ Len(all) = n
    BY <2>1
  <2>3. QED
    BY <2>2 DEF all, n
<1>6. QED
  BY <1>3, <1>4, <1>5, AllListed

(* A list that is short enough is not cut.                                 *)
LEMMA FirstAll ==
  ASSUME NEW S, NEW s \in Seq(S), NEW n \in Nat, Len(s) <= n
  PROVE  First(s, n) = s
<1>1. Len(s) \in Nat /\ SubSeq(s, 1, Len(s)) = s
  OBVIOUS
<1>2. First(s, n) = SubSeq(s, 1, Len(s))
  <2> DEFINE l == Len(s)
  <2>1. l \in Nat /\ l <= n
    BY <1>1
  <2> HIDE DEF l
  <2>2. (IF l < n THEN l ELSE n) = l
    BY <2>1
  <2>3. QED
    BY <2>2, Zenon DEF First, l
<1>3. QED
  BY <1>1, <1>2

(* The page of a host shows the URL of each of its captures, unless        *)
(* captures without 2xx status are left out.                               *)
LEMMA OnCaptures ==
  ASSUME PlainLabels, SplitLabels, NEW table \in SUBSET Caps, Fits(table),
         NEW c \in table, NEW all \in BOOLEAN, all \/ c \in Good
  PROVE  LET page == browse_captures(surt_to_domain(HostOf(c)), all, table)
         IN  /\ page.kind = "captures" /\ page.of = surt_to_domain(HostOf(c)) /\ page.all = all
             /\ \E e \in page.rows : e.url = Original[c]
<1> DEFINE host == surt_to_domain(HostOf(c))
           prefix == domain_to_surt_prefix(host)
           T == Under(prefix, table)
           recs == get_by_surt_prefix(prefix, MaxRows + 1, table)
           page == browse_captures(host, all, table)
<1>1. prefix = Between(Name[c], Comma) \o <<Paren>>
  BY HostKey, DomainAndBack
<1>2. c \in T
  BY <1>1, HostKey DEF Under
<1>3. T \in SUBSET Caps /\ T \subseteq table
  BY DEF Under
<1>4. IsFiniteSet(table)
  BY BrowseAssumption, FS_Subset
<1>5. Cardinality(T) <= Cardinality(table) /\ Cardinality(T) \in Nat /\ Cardinality(table) \in Nat
  BY <1>3, <1>4, FS_Subset, FS_CardinalityType
<1>6. Cardinality(table) <= MaxRows /\ MaxRows \in Nat
  BY BrowseAssumption DEF Fits
<1>7. recs = First(Ordered(T), MaxRows + 1)
  BY DEF get_by_surt_prefix
<1>8. page = [kind |-> "captures", of |-> host, all |-> all,
              rows |-> {e \in UrlEntries(First(recs, MaxRows)) : all \/ e.has_2xx},
              truncated |-> Len(recs) > MaxRows]
  BY DEF browse_captures
<1> HIDE DEF recs, T, page, host, prefix
<1>9. /\ Ordered(T) \in Seq(Caps) /\ Len(Ordered(T)) \in Nat
      /\ Len(Ordered(T)) <= Cardinality(T) /\ Range(Ordered(T)) = T
  BY <1>3, NoMoreRows
<1>10. Len(Ordered(T)) <= MaxRows /\ Len(Ordered(T)) <= MaxRows + 1 /\ MaxRows + 1 \in Nat
  BY <1>5, <1>6, <1>9
<1>11. recs = Ordered(T)
  BY <1>7, <1>9, <1>10, FirstAll
<1>12. First(recs, MaxRows) = recs
  BY <1>6, <1>9, <1>10, <1>11, FirstAll
<1>13. PICK k \in DOMAIN recs : recs[k] = c
  BY <1>2, <1>9, <1>11 DEF Range
<1>14. recs \in Seq(Caps) /\ k \in 1..Len(recs)
  BY <1>9, <1>11, <1>13
<1>15. PICK e \in UrlEntries(recs) : e.url = Original[recs[k]] /\ (recs[k] \in Good => e.has_2xx)
  BY <1>14, InEntries
<1>16. e \in page.rows
  BY <1>8, <1>12, <1>13, <1>15
<1>17. page.kind = "captures" /\ page.of = host /\ page.all = all
  BY <1>8
<1>18. QED
  BY <1>13, <1>15, <1>16, <1>17 DEF page, host

(* ... and from there to the URL, over "Show non-2xx" if need be.          *)
LEMMA HostLeads ==
  ASSUME PlainLabels, SplitLabels, NEW table \in SUBSET Caps, Fits(table), NEW c \in table
  PROVE  LET host == surt_to_domain(HostOf(c))
             url == Query("url", Original[c], FALSE)
             more == Query("domain", host, TRUE)
         IN  /\ c \in Good => Leads(Query("host", host, FALSE), url, table)
             /\ Leads(Query("host", host, FALSE), more, table)
             /\ Len(Name[c]) > 2 => Leads(more, url, table)
<1> DEFINE host == surt_to_domain(HostOf(c))
           url == Query("url", Original[c], FALSE)
           more == Query("domain", host, TRUE)
           plain == Query("host", host, FALSE)
           Shown(all) == browse_captures(host, all, table)
<1>1. ASSUME NEW all \in BOOLEAN
      PROVE  Shown(all).kind = "captures" /\ Shown(all).of = host /\ Shown(all).all = all
  BY DEF browse_captures
<1>2. ASSUME NEW all \in BOOLEAN, all \/ c \in Good
      PROVE  \E e \in Shown(all).rows : e.url = Original[c]
  BY <1>2, OnCaptures
<1>3. Len(Name[c]) > 2 => Dots(host) # 1
  <2>1. HostOf(c) = Between(Name[c], Comma) /\ AreLabels(Name[c])
    BY HostKey
  <2>2. host = Between(Reverse(Name[c]), Point)
    BY <2>1, DomainAndBack
  <2>3. Dots(host) = Len(Name[c]) - 1
    BY <2>1, <2>2, DomainAndBack
  <2>4. Len(Name[c]) \in Nat
    BY BrowseAssumption
  <2> DEFINE d == Dots(host)
             m == Len(Name[c])
  <2>5. d = m - 1 /\ m \in Nat
    BY <2>3, <2>4
  <2> HIDE DEF host, d, m
  <2>6. m > 2 => d # 1
    BY <2>5
  <2>7. QED
    BY <2>6 DEF d, m
<1> HIDE DEF host, Shown
<1>4. Pages(plain, table) = {Shown(FALSE)}
  BY DEF Pages, Query, Shown
<1>5. Len(Name[c]) > 2 => Pages(more, table) = {Shown(TRUE)}
  BY <1>3 DEF Pages, Query, Shown
<1>6. ASSUME NEW all \in BOOLEAN
      PROVE  Links(Shown(all)) = {Toggle(Shown(all))}
                                   \cup {Query("url", e.url, FALSE) : e \in Shown(all).rows}
  BY <1>1 DEF Links
<1>7. ASSUME NEW all \in BOOLEAN, all \/ c \in Good PROVE url \in Links(Shown(all))
  BY <1>2, <1>6, <1>7
<1>8. Toggle(Shown(FALSE)) = more
  BY <1>1 DEF Toggle
<1>9. more \in Links(Shown(FALSE))
  BY <1>6, <1>8
<1> HIDE DEF url, more, plain
<1>10. c \in Good => Leads(plain, url, table)
  BY <1>4, <1>7 DEF Leads
<1>11. Leads(plain, more, table)
  BY <1>4, <1>9 DEF Leads
<1>12. Len(Name[c]) > 2 => Leads(more, url, table)
  BY <1>5, <1>7 DEF Leads
<1>13. QED
  BY <1>10, <1>11, <1>12 DEF host, url, more, plain

-----------------------------------------------------------------------------
(* Five clicks.                                                            *)
Clicked(Q, table) == Q \cup UNION {UNION {Links(p) : p \in Pages(q, table)} : q \in Q}

(* A click keeps what was found and adds where it leads.                   *)
LEMMA ClickAdds ==
  ASSUME NEW Q, NEW table
  PROVE  /\ Q \subseteq Clicked(Q, table)
         /\ \A q \in Q : \A r : Leads(q, r, table) => r \in Clicked(Q, table)
<1>1. ASSUME NEW q \in Q, NEW r, Leads(q, r, table) PROVE r \in Clicked(Q, table)
  <2>1. PICK p \in Pages(q, table) : r \in Links(p)
    BY <1>1 DEF Leads
  <2>2. r \in UNION {Links(x) : x \in Pages(q, table)}
    BY <2>1
  <2>3. r \in UNION {UNION {Links(p1) : p1 \in Pages(y, table)} : y \in Q}
    BY <2>2
  <2>4. QED
    BY <2>3 DEF Clicked
<1>2. Q \subseteq Clicked(Q, table)
  BY DEF Clicked
<1>3. QED
  BY <1>1, <1>2

(* The fold behind Reachable: a click for each member of a set.            *)
Folds(S, table, f) ==
  f = [s \in SUBSET S |-> IF s = {} THEN {Root}
                          ELSE Clicked(f[s \ {CHOOSE x \in s : TRUE}], table)]

Taken(s) == s \ {CHOOSE x \in s : TRUE}

(* Taking one member out of a set of n + 1.                                *)
LEMMA OneTaken ==
  ASSUME NEW s, IsFiniteSet(s), NEW n \in Nat, Cardinality(s) = n + 1
  PROVE  /\ s # {} /\ Taken(s) \subseteq s
         /\ IsFiniteSet(Taken(s)) /\ Cardinality(Taken(s)) = n
<1> DEFINE x == CHOOSE y \in s : TRUE
<1>1. s # {}
  BY FS_EmptySet
<1>2. x \in s
  BY <1>1
<1> HIDE DEF x
<1>3. IsFiniteSet(s \ {x}) /\ Cardinality(s \ {x}) = Cardinality(s) - 1
  BY <1>2, FS_RemoveElement
<1>4. QED
  BY <1>1, <1>3 DEF Taken, x

(* Its values on the sets of up to n members.                              *)
Level(S, n, f, table) ==
  /\ DOMAIN f = {s \in SUBSET S : Cardinality(s) <= n}
  /\ \A s \in DOMAIN f : f[s] = IF s = {} THEN {Root} ELSE Clicked(f[Taken(s)], table)

(* There are such values for every n: take the least n for which not.      *)
LEMMA LevelExists ==
  ASSUME NEW S, IsFiniteSet(S), NEW table, NEW n \in Nat
  PROVE  \E f : Level(S, n, f, table)
<1> DEFINE Bad == {k \in Nat : ~ \E f : Level(S, k, f, table)}
<1> SUFFICES ASSUME Bad # {} PROVE FALSE
  OBVIOUS
<1>1. PICK k \in Bad : \A j \in Bad : k <= j
  <2>1. Bad \subseteq Nat
    OBVIOUS
  <2> HIDE DEF Bad
  <2>2. QED
    BY <2>1, Least
<1>2. \A s \in SUBSET S : IsFiniteSet(s) /\ Cardinality(s) \in Nat
                            /\ (Cardinality(s) = 0 <=> s = {})
  BY FS_Subset, FS_CardinalityType, FS_EmptySet
<1>3. CASE k = 0
  <2> DEFINE f == [s \in {{}} |-> {Root}]
  <2>1. {s \in SUBSET S : Cardinality(s) <= 0} = {{}}
    BY <1>2
  <2>2. Level(S, 0, f, table)
    BY <2>1 DEF Level
  <2>3. QED
    BY <1>1, <1>3, <2>2
<1>4. CASE k # 0
  <2>1. k \in Nat /\ k - 1 \in Nat /\ ~(k <= k - 1)
    BY <1>1, <1>4
  <2>2. PICK g : Level(S, k - 1, g, table)
    BY <1>1, <2>1
  <2> DEFINE D == {s \in SUBSET S : Cardinality(s) <= k}
             E == {s \in SUBSET S : Cardinality(s) <= k - 1}
             f == [s \in D |-> IF s = {} THEN {Root} ELSE Clicked(g[Taken(s)], table)]
  <2>3. DOMAIN g = E /\ \A s \in E : g[s] = IF s = {} THEN {Root} ELSE Clicked(g[Taken(s)], table)
    BY <2>2 DEF Level
  <2>4. \A s \in E : s \in D
    BY <1>2, <2>1
  <2>5. \A s \in E : f[s] = g[s]
    BY <2>3, <2>4
  <2>6. ASSUME NEW s \in D, s # {} PROVE Taken(s) \in E
    <3> DEFINE m == Cardinality(s) - 1
    <3>1. IsFiniteSet(s) /\ m \in Nat /\ Cardinality(s) = m + 1 /\ m <= k - 1
      BY <1>2, <2>1, <2>6
    <3> HIDE DEF m
    <3>2. Taken(s) \subseteq s /\ Cardinality(Taken(s)) = m
      BY <3>1, OneTaken
    <3>3. QED
      BY <3>1, <3>2
  <2>7. \A s \in D : f[s] = IF s = {} THEN {Root} ELSE Clicked(g[Taken(s)], table)
    OBVIOUS
  <2>8. DOMAIN f = D
    OBVIOUS
  <2> HIDE DEF f, D, E
  <2>9. \A s \in D : f[s] = IF s = {} THEN {Root} ELSE Clicked(f[Taken(s)], table)
    BY <2>5, <2>6, <2>7
  <2>10. Level(S, k, f, table)
    BY <2>8, <2>9 DEF Level, D
  <2>11. QED
    BY <1>1, <2>10
<1>5. QED
  BY <1>3, <1>4

(* So there is such a fold.                                                *)
LEMMA FoldExists ==
  ASSUME NEW S, IsFiniteSet(S), NEW table
  PROVE  \E f : Folds(S, table, f)
<1>1. Cardinality(S) \in Nat
  BY FS_CardinalityType
<1>2. PICK f : Level(S, Cardinality(S), f, table)
  BY <1>1, LevelExists
<1>3. \A s \in SUBSET S : Cardinality(s) <= Cardinality(S)
  BY FS_Subset
<1>4. DOMAIN f = SUBSET S
  BY <1>2, <1>3 DEF Level
<1>5. \A s \in SUBSET S : f[s] = IF s = {} THEN {Root} ELSE Clicked(f[Taken(s)], table)
  BY <1>2, <1>4 DEF Level
<1> DEFINE g == [s \in SUBSET S |-> f[s]]
<1>6. \A s \in SUBSET S : s # {} => Taken(s) \in SUBSET S
  BY DEF Taken
<1>7. \A s \in SUBSET S : g[s] = IF s = {} THEN {Root} ELSE Clicked(g[Taken(s)], table)
  BY <1>5, <1>6
<1>8. g = [s \in SUBSET S |-> g[s]]
  OBVIOUS
<1> HIDE DEF g
<1>9. g = [s \in SUBSET S |-> IF s = {} THEN {Root} ELSE Clicked(g[Taken(s)], table)]
  BY <1>7, <1>8
<1>10. Folds(S, table, g)
  BY <1>9 DEF Folds, Taken
<1>11. QED
  BY <1>10

(* A way of five steps, each of them a click or none.                      *)
Way(path, table) ==
  /\ path[0] = Root
  /\ \A n \in 0..4 : path[n + 1] = path[n] \/ Leads(path[n], path[n + 1], table)

(* Where a way of five clicks leads, Reachable comes.                      *)
LEMMA WaysFound ==
  ASSUME NEW table, NEW path, Way(path, table)
  PROVE  path[5] \in Reachable(table)
<1> DEFINE S == 1..5
           g == CHOOSE f : Folds(S, table, f)
<1>1. IsFiniteSet(S) /\ Cardinality(S) = 5
  BY FirstNumbers
<1>2. Folds(S, table, g)
  BY <1>1, FoldExists
<1>3. Reachable(table) = g[S]
  <2>1. DOMAIN <<1, 2, 3, 4, 5>> = 1..5
    OBVIOUS
  <2>2. QED
    BY <2>1, Zenon DEF Reachable, FoldSeq, FoldFunction, FoldFunctionOnSet, MapThenFoldSet,
                       Folds, Clicked
<1> HIDE DEF g
<1>4. \A s \in SUBSET S :
        g[s] = IF s = {} THEN {Root} ELSE Clicked(g[Taken(s)], table)
  BY <1>2 DEF Folds, Taken
<1> HIDE DEF S
<1>5. ASSUME NEW n \in 0..4,
             \A s \in SUBSET S : Cardinality(s) = n => path[n] \in g[s],
             NEW s \in SUBSET S, Cardinality(s) = n + 1
      PROVE  path[n + 1] \in g[s]
  <2>1. IsFiniteSet(s) /\ n \in Nat
    BY <1>1, FS_Subset
  <2>2. s # {} /\ Taken(s) \subseteq s /\ Cardinality(Taken(s)) = n
    BY <1>5, <2>1, OneTaken
  <2>3. path[n] \in g[Taken(s)]
    BY <1>5, <2>2
  <2>4. g[s] = Clicked(g[Taken(s)], table)
    BY <1>4, <2>2
  <2>5. path[n + 1] = path[n] \/ Leads(path[n], path[n + 1], table)
    BY DEF Way
  <2>6. QED
    BY <2>3, <2>4, <2>5, ClickAdds
<1>6. \A s \in SUBSET S : Cardinality(s) = 0 => path[0] \in g[s]
  <2>1. \A s \in SUBSET S : Cardinality(s) = 0 => s = {}
    BY <1>1, FS_Subset, FS_EmptySet
  <2>2. QED
    BY <1>4, <2>1 DEF Way
<1> DEFINE Reached(n) == \A s \in SUBSET S : Cardinality(s) = n => path[n] \in g[s]
<1>7. \A n \in 0..4 : Reached(n) => Reached(n + 1)
  BY <1>5
<1>8. Reached(0)
  BY <1>6
<1> HIDE DEF Reached
<1>9. Reached(1)
  BY <1>7, <1>8
<1>10. Reached(2)
  BY <1>7, <1>9
<1>11. Reached(3)
  BY <1>7, <1>10
<1>12. Reached(4)
  BY <1>7, <1>11
<1>13. Reached(5)
  BY <1>7, <1>12
<1>14. QED
  BY <1>1, <1>3, <1>13 DEF Reached

(* Where nothing is cut off, five clicks lead from the root to every       *)
(* capture of a host with several labels, whose path has no comma and      *)
(* which has 2xx status or is not on a site's apex.                        *)
LEMMA EveryUrlFound ==
  ASSUME PlainLabels, SplitLabels, NEW table \in SUBSET Caps, Fits(table),
         NEW c \in table, Ordinary(c), c \in Good \/ Len(Name[c]) > 2
  PROVE  Query("url", Original[c], FALSE) \in Reachable(table)
<1> DEFINE q1 == Query("tld", SubSeq(to_surt[c], 1, 1), FALSE)
           q2 == Query("domain", surt_to_domain(SubSeq(to_surt[c], 1, 3)), FALSE)
           host == surt_to_domain(HostOf(c))
           q3 == Query("host", host, FALSE)
           more == Query("domain", host, TRUE)
           url == Query("url", Original[c], FALSE)
           q4 == IF c \in Good THEN url ELSE more
           path == [n \in 0..5 |-> CASE n = 0 -> Root [] n = 1 -> q1 [] n = 2 -> q2
                                     [] n = 3 -> q3 [] n = 4 -> q4 [] OTHER -> url]
<1>1. Leads(Root, q1, table)
  BY RootLeads
<1>2. Leads(q1, q2, table)
  BY TldLeads
<1>3. Leads(q2, q3, table)
  BY DomainLeads
<1>4. /\ c \in Good => Leads(q3, url, table)
      /\ Leads(q3, more, table)
      /\ Len(Name[c]) > 2 => Leads(more, url, table)
  BY HostLeads
<1> HIDE DEF q1, q2, q3, more, url
<1>5. Leads(q3, q4, table) /\ (q4 = url \/ Leads(q4, url, table))
  BY <1>4
<1> HIDE DEF q4
<1>6. /\ path[0] = Root /\ path[1] = q1 /\ path[2] = q2
      /\ path[3] = q3 /\ path[4] = q4 /\ path[5] = url
  OBVIOUS
<1> HIDE DEF path
<1>7. \A n \in 0..4 : path[n + 1] = path[n] \/ Leads(path[n], path[n + 1], table)
  <2>1. \A n \in 0..4 : n = 0 \/ n = 1 \/ n = 2 \/ n = 3 \/ n = 4
    OBVIOUS
  <2>2. 0 + 1 = 1 /\ 1 + 1 = 2 /\ 2 + 1 = 3 /\ 3 + 1 = 4 /\ 4 + 1 = 5
    OBVIOUS
  <2>3. QED
    BY <1>1, <1>2, <1>3, <1>5, <1>6, <2>1, <2>2
<1>8. Way(path, table)
  BY <1>6, <1>7 DEF Way
<1>9. url \in Reachable(table)
  BY <1>6, <1>8, WaysFound
<1>10. QED
  BY <1>9 DEF url

(* Every captured URL can be reached by clicking down from /ui/browse, for *)
(* every archive, whatever the indexer commits and purges meanwhile, as    *)
(* long as the table fits the pages and the labels are plain ones.         *)
THEOREM PagesLeadToUrls == PlainLabels /\ SplitLabels => (Spec => []Browsable)
<1> SUFFICES ASSUME PlainLabels, SplitLabels PROVE Spec => []Browsable
  OBVIOUS
<1>1. BInv => Browsable
  <2> SUFFICES ASSUME BInv, Fits(rows), NEW c \in rows, Ordinary(c),
                      c \in Good \/ Len(Name[c]) > 2
               PROVE  Query("url", Original[c], FALSE) \in Reachable(rows)
    BY DEF Browsable
  <2>1. rows \in SUBSET Caps
    BY DEF BInv, TypeOK
  <2>2. QED
    BY <2>1, EveryUrlFound
<1>2. QED
  BY InitBInv, StepBInv, <1>1, PTL DEF Spec

=============================================================================
