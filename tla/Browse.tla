------------------------------- MODULE Browse -------------------------------
(***************************************************************************)
(* The readers of the CDX table: the browse pages, the homepage and the    *)
(* statistics page, /cdx, and /web/timemap/cdx with the crawler that asks  *)
(* it before it writes a capture.  The indexer commits and purges rows     *)
(* meanwhile, on a connection of its own.                                  *)
(*                                                                         *)
(* A SURT key is a sequence of tokens: the labels of the host, last label  *)
(* first, with commas between them, then ")", then the path, in which a    *)
(* comma is a token too.  A hostname is a sequence of labels with dots.    *)
(* Each capture is in an object of its own.  Handlers hold the server's    *)
(* connection while they query and write nothing, so one request at a time *)
(* stands for all of them.                                                 *)
(***************************************************************************)
EXTENDS Integers, Sequences, FiniteSets, SequencesExt

CONSTANTS
  Caps,         \* captures
  Order,        \* all of them, by SURT key and then by timestamp
  Name, Path,   \* host labels, outermost first, and path tokens of the URL
  Original,     \* the URL as captured, scheme included
  Stamp,        \* timestamp
  Horizon,      \* the end of time, 99999999999999 in the code
  Good,         \* captures with a 2xx status
  Digest,       \* payload digest
  Coll,         \* collection
  Configured,   \* collections the server's configuration names
  MaxRows,      \* rows the browse pages list, 500 to 5000 in the code
  CdxLimit,     \* limit of a /cdx prefix query
  MaxPurges     \* bound: purges

Archive == "warc"                     \* DEFAULT_COLLECTION
Crawlable == {c \in Caps : Coll[c] = Archive}
Collections == {Coll[c] : c \in Caps}

Between(parts, sep) ==
  [i \in 1..(2 * Len(parts) - 1) |-> IF i % 2 = 1 THEN parts[(i + 1) \div 2] ELSE sep]
Joined(parts, sep) == FlattenSeq(Between(parts, <<sep>>))
(* Counting upwards: the n-th of a set of numbers has n up to itself.      *)
Ascending(P) ==
  [n \in 1..Cardinality(P) |-> CHOOSE i \in P : Cardinality({j \in P : j <= i}) = n]
SplitAt(s, sep) ==
  LET ends == Ascending({i \in DOMAIN s : s[i] = sep} \cup {Len(s) + 1})
  IN  [n \in DOMAIN ends |->
         SubSeq(s, IF n = 1 THEN 1 ELSE ends[n - 1] + 1, ends[n] - 1)]
Find(s, t) == LET at == {i \in DOMAIN s : s[i] = t}
              IN  IF at = {} THEN 0 ELSE CHOOSE i \in at : \A j \in at : i <= j

(* The URL crate has parsed the URL: Name[c] are the labels of its host.   *)
to_surt == [c \in Caps |-> Between(Name[c], ",") \o <<")">> \o Path[c]]

surt_to_domain(surt) == Joined(Reverse(SplitAt(surt, ",")), ".")
domain_to_surt_prefix(domain) == Joined(Reverse(SplitAt(domain, ".")), ",") \o <<")">>
Dots(domain) == Cardinality({i \in DOMAIN domain : domain[i] = "."})

Idle == [kind |-> "none"]
NoDigest == "-"

(* pdf_collection.rs gives the rows of a collection no digest.             *)
ASSUME BrowseAssumption ==
  /\ IsFiniteSet(Caps) /\ Order \in Seq(Caps)
  /\ Range(Order) = Caps /\ Len(Order) = Cardinality(Caps)
  /\ \A c \in Caps : /\ Name[c] \in Seq(STRING) /\ Name[c] # <<>> /\ Path[c] \in Seq(STRING)
                     /\ Digest[c] = NoDigest <=> Coll[c] # Archive
  /\ \A i, j \in DOMAIN Order : i < j /\ to_surt[Order[i]] = to_surt[Order[j]] =>
        /\ Stamp[Order[i]] < Stamp[Order[j]]
        /\ \A k \in i..j : to_surt[Order[k]] = to_surt[Order[i]]
  /\ \A c, d \in Caps : Original[c] = Original[d] => to_surt[c] = to_surt[d]
  /\ Horizon \in Nat /\ Stamp \in [Caps -> 0..Horizon] /\ Good \subseteq Caps
  /\ Archive \notin Configured /\ MaxRows \in Nat \ {0} /\ CdxLimit \in Nat
  /\ MaxPurges \in Nat

VARIABLES
  rows,     \* the cdx table, as committed
  stored,   \* stored[c]: how the crawler has written c, if it has
  asked,    \* what the crawler is about to write, and the digest it was told
  req,      \* the last request and its answer
  purged,   \* captures a purge has taken out of the table
  steady    \* whether the table is as it was when counting began

vars == <<rows, stored, asked, req, purged, steady>>

(***************************************************************************)
(* Queries of store.rs.                                                    *)
(***************************************************************************)
(* BETWEEN prefix AND next_prefix(prefix).                                 *)
Under(prefix, table) == {c \in table : IsPrefix(prefix, to_surt[c])}
(* ORDER BY surt_url, timestamp.                                           *)
Ordered(table) ==
  LET places == Ascending({i \in DOMAIN Order : Order[i] \in table})
  IN  [n \in DOMAIN places |-> Order[places[n]]]
First(s, n) == SubSeq(s, 1, IF Len(s) < n THEN Len(s) ELSE n)

get_by_surt(surt, table) == Ordered({c \in table : to_surt[c] = surt})
get_by_surt_range(surt, from, to, table) ==
  Ordered({c \in table : to_surt[c] = surt /\ Stamp[c] \in from..to})
get_by_surt_prefix(prefix, limit, table) == First(Ordered(Under(prefix, table)), limit)

collection_count(name, table) == Cardinality({c \in table : Coll[c] = name})

(* GROUP BY: a group is its key and its number of rows.                    *)
Groups(key(_), table) ==
  {<<key(c), Cardinality({d \in table : key(d) = key(c)})>> : c \in table}

(* ORDER BY n DESC LIMIT max: any choice among groups of the same size.    *)
TopSets(groups, max) ==
  LET n == IF Cardinality(groups) < max THEN Cardinality(groups) ELSE max
  IN  {S \in SUBSET groups : /\ Cardinality(S) = n
                             /\ \A g \in S, h \in groups \ S : g[2] >= h[2]}

collection_counts(table) == Groups(LAMBDA c : Coll[c], table)

(* Up to the first comma; without one substr has a negative length and     *)
(* nothing is left.                                                        *)
TldOf(c) == SubSeq(to_surt[c], 1, Find(to_surt[c], ",") - 1)
browse_tlds(table) == Groups(TldOf, table)

HostOf(c) == SubSeq(to_surt[c], 1, Find(to_surt[c], ")") - 1)

(* The first comma after "tld," ends the label, wherever it is.            *)
DomainOf(lower, c) ==
  LET surt == to_surt[c]
      comma == Find(SubSeq(surt, Len(lower) + 1, Len(surt)), ",")
  IN  IF comma > 0 THEN SubSeq(surt, 1, Len(lower) + comma - 1) ELSE HostOf(c)
browse_domains(tld, table) ==
  LET lower == tld \o <<",">>
  IN  Groups(LAMBDA c : DomainOf(lower, c), Under(lower, table))

(* From prefix")" to below prefix"-": the name itself and the names under  *)
(* it.                                                                     *)
browse_subdomains(prefix, table) ==
  Groups(HostOf, Under(prefix \o <<")">>, table) \cup Under(prefix \o <<",">>, table))

(***************************************************************************)
(* Browse pages.                                                           *)
(***************************************************************************)
Listing(kind, of, groups) ==
  {[kind |-> kind, of |-> of, rows |-> S, truncated |-> Cardinality(groups) > MaxRows] :
     S \in TopSets(groups, MaxRows)}

(* One entry for each run of rows with the same original URL.              *)
UrlEntries(recs) ==
  LET starts == {i \in DOMAIN recs : i = 1 \/ Original[recs[i]] # Original[recs[i - 1]]}
      EndOf(i) == CHOOSE j \in i..Len(recs) :
                    /\ j = Len(recs) \/ j + 1 \in starts
                    /\ \A k \in (i + 1)..j : k \notin starts
  IN  {[url |-> Original[recs[i]], count |-> EndOf(i) - i + 1,
        has_2xx |-> \E k \in i..EndOf(i) : recs[k] \in Good] : i \in starts}

browse_captures(host, all, table) ==
  LET recs == get_by_surt_prefix(domain_to_surt_prefix(host), MaxRows + 1, table)
  IN  [kind |-> "captures", of |-> host, all |-> all,
       rows |-> {e \in UrlEntries(First(recs, MaxRows)) : all \/ e.has_2xx},
       truncated |-> Len(recs) > MaxRows]

ui_url(url, table) ==
  LET c == CHOOSE d \in Caps : Original[d] = url
  IN  [kind |-> "url", of |-> url,
       rows |-> Reverse(get_by_surt_range(to_surt[c], 0, Horizon, table))]

(* browse_handler and ui_url_handler: the pages a query may be answered    *)
(* with.                                                                   *)
Pages(q, table) ==
  CASE q.kind = "host" -> {browse_captures(q.name, q.all, table)}
    [] q.kind = "domain" /\ Dots(q.name) = 1 ->
         LET prefix == domain_to_surt_prefix(q.name)
         IN  Listing("hosts", q.name, browse_subdomains(SubSeq(prefix, 1, Len(prefix) - 1), table))
    [] q.kind = "domain" /\ Dots(q.name) # 1 -> {browse_captures(q.name, q.all, table)}
    [] q.kind = "tld" -> Listing("domains", q.name, browse_domains(q.name, table))
    [] q.kind = "url" -> {ui_url(q.name, table)}
    [] OTHER -> Listing("tlds", <<>>, browse_tlds(table))

Query(kind, name, all) == [kind |-> kind, name |-> name, all |-> all]
Root == Query("root", <<>>, FALSE)

(* "Show non-2xx" on a page of captures.                                   *)
Toggle(page) == Query("domain", page.of, ~page.all)

LinksToDomainAgain(page) ==
  CASE page.kind = "tlds" -> {Query("tld", g[1], FALSE) : g \in page.rows}
    [] page.kind \in {"domains", "hosts"} ->
         {Query("domain", surt_to_domain(g[1]), FALSE) : g \in page.rows}
    [] page.kind = "captures" ->
         {Toggle(page)} \cup {Query("url", e.url, FALSE) : e \in page.rows}
    [] OTHER -> {}

(* What the reader can click on.                                           *)
Links(page) ==
  CASE page.kind = "tlds" -> {Query("tld", g[1], FALSE) : g \in page.rows}
    [] page.kind = "domains" ->
         {Query("domain", surt_to_domain(g[1]), FALSE) : g \in page.rows}
    [] page.kind = "hosts" ->
         {Query("host", surt_to_domain(g[1]), FALSE) : g \in page.rows}
    [] page.kind = "captures" ->
         {Toggle(page)} \cup {Query("url", e.url, FALSE) : e \in page.rows}
    [] OTHER -> {}

Browse(q) ==
  /\ req' \in Pages(q, rows)
  /\ steady' = FALSE
  /\ UNCHANGED <<rows, stored, asked, purged>>

(***************************************************************************)
(* Homepage and statistics: several statements, each on the table as it is *)
(* then.                                                                   *)
(***************************************************************************)
HomeTotal ==
  /\ req' = [kind |-> "home", total |-> Cardinality(rows), left |-> Configured,
             cards |-> {}, shown |-> FALSE]
  /\ steady' = TRUE
  /\ UNCHANGED <<rows, stored, asked, purged>>

HomeCount(name) ==
  /\ req.kind = "home" /\ name \in req.left
  /\ LET n == collection_count(name, rows)
     IN  req' = [req EXCEPT !.left = @ \ {name},
                            !.cards = IF n = 0 THEN @ ELSE @ \cup {<<name, n>>}]
  /\ UNCHANGED <<rows, stored, asked, purged, steady>>

SumCards(cards) == FoldSet(LAMBDA g, n : g[2] + n, 0, cards)
ArchiveCard(total, named) == IF total < named THEN 0 ELSE total - named

(* collection_cards: the archive is what is left of the total.             *)
CardsCountArchive(total, cards) ==
  IF cards = {} THEN {} ELSE cards \cup {<<Archive, total>>}
CardsWithArchive(total, cards) ==
  IF cards = {} THEN {} ELSE cards \cup {<<Archive, ArchiveCard(total, SumCards(cards))>>}

HomeShow ==
  /\ req.kind = "home" /\ req.left = {} /\ ~req.shown
  /\ req' = [req EXCEPT !.cards = CardsWithArchive(req.total, @), !.shown = TRUE]
  /\ UNCHANGED <<rows, stored, asked, purged, steady>>

(* ui_stats_handler: basic_stats and collection_counts at the same time.   *)
StatsAsk ==
  /\ req' = [kind |-> "stats", left |-> {"basic", "colls"}, total |-> 0, cards |-> {}]
  /\ steady' = TRUE
  /\ UNCHANGED <<rows, stored, asked, purged>>

StatsQuery ==
  /\ req.kind = "stats"
  /\ \/ /\ "basic" \in req.left
        /\ req' = [req EXCEPT !.left = @ \ {"basic"}, !.total = Cardinality(rows)]
     \/ /\ "colls" \in req.left
        /\ req' = [req EXCEPT !.left = @ \ {"colls"}, !.cards = collection_counts(rows)]
  /\ UNCHANGED <<rows, stored, asked, purged, steady>>

(***************************************************************************)
(* /cdx.  A prefix query is widened to the host, and only it is limited.   *)
(***************************************************************************)
CdxAnswerOpen(c, prefix, from, table) ==
  LET surt == to_surt[c]
  IN  IF prefix THEN get_by_surt_prefix(SubSeq(surt, 1, Find(surt, ")") - 1), CdxLimit, table)
      ELSE get_by_surt_range(surt, from, Horizon, table)
CdxAnswer(c, prefix, from, table) ==
  LET surt == to_surt[c]
  IN  IF prefix THEN get_by_surt_prefix(SubSeq(surt, 1, Find(surt, ")")), CdxLimit, table)
      ELSE get_by_surt_range(surt, from, Horizon, table)

cdx_handler(c, prefix, from) ==
  /\ req' = [kind |-> "cdx", of |-> c, prefix |-> prefix, from |-> from,
             rows |-> CdxAnswer(c, prefix, from, rows)]
  /\ steady' = TRUE
  /\ UNCHANGED <<rows, stored, asked, purged>>

(***************************************************************************)
(* The crawler.  Before it writes a capture it asks for the latest one of  *)
(* the URL, limit=-1; a payload with that digest is written as a revisit   *)
(* record, without body.                                                   *)
(***************************************************************************)
TimemapOfHost(surt, limit, table) ==
  First(Reverse(get_by_surt_prefix(SubSeq(surt, 1, Find(surt, ")")), Len(Order), table)), 1)
cdx_timemap(surt, limit, table) ==
  LET all == get_by_surt(surt, table)
  IN  IF limit < 0 THEN First(Reverse(all), -limit) ELSE First(all, limit)

CrawlAsk(c) ==
  /\ asked = Idle /\ c \in Crawlable /\ stored[c] = "no"
  /\ \A d \in Crawlable : stored[d] # "no" => Stamp[d] <= Stamp[c]
  /\ LET latest == cdx_timemap(to_surt[c], -1, rows)
     IN  asked' = [kind |-> "ask", cap |-> c,
                   digest |-> IF latest = <<>> THEN NoDigest ELSE Digest[latest[1]]]
  /\ UNCHANGED <<rows, stored, req, purged, steady>>

CrawlWrite ==
  /\ asked # Idle
  /\ stored' = [stored EXCEPT ![asked.cap] =
                  IF Digest[asked.cap] = asked.digest THEN "revisit" ELSE "response"]
  /\ asked' = Idle
  /\ UNCHANGED <<rows, req, purged, steady>>

(***************************************************************************)
(* The indexer: rows come with an object's commit, and a purge takes those *)
(* of a host away; once the rule is gone, a forced run brings them back.   *)
(***************************************************************************)
Commit(c) ==
  /\ c \notin rows /\ (c \in Crawlable => stored[c] # "no")
  /\ rows' = rows \cup {c} /\ purged' = purged \ {c} /\ steady' = FALSE
  /\ UNCHANGED <<stored, asked, req>>

Purge(c) ==
  /\ c \in rows /\ Cardinality(purged) < MaxPurges
  /\ LET gone == {d \in rows : Name[d] = Name[c]}
     IN  rows' = rows \ gone /\ purged' = purged \cup gone
  /\ steady' = FALSE
  /\ UNCHANGED <<stored, asked, req>>

Init ==
  /\ rows = {} /\ stored = [c \in Caps |-> "no"] /\ asked = Idle /\ req = Idle
  /\ purged = {} /\ steady = FALSE

Next ==
  \/ \E q \in {Root} \cup Links(req) : Browse(q)
  \/ HomeTotal \/ (\E name \in Configured : HomeCount(name)) \/ HomeShow
  \/ StatsAsk \/ StatsQuery
  \/ \E c \in rows, prefix \in BOOLEAN : cdx_handler(c, prefix, Stamp[c])
  \/ \E c \in Caps : CrawlAsk(c) \/ Commit(c) \/ Purge(c)
  \/ CrawlWrite

Spec == Init /\ [][Next]_vars

-----------------------------------------------------------------------------
PageKinds == {"tlds", "domains", "hosts", "captures", "url"}

TypeOK ==
  /\ rows \subseteq Caps /\ purged \subseteq Caps /\ rows \cap purged = {}
  /\ stored \in [Caps -> {"no", "response", "revisit"}]
  /\ asked = Idle \/ (asked.cap \in Crawlable /\ stored[asked.cap] = "no")
  /\ req.kind \in {"none", "home", "stats", "cdx"} \cup PageKinds
  /\ req.kind \in {"tlds", "domains", "hosts"} => Cardinality(req.rows) <= MaxRows
  /\ req.kind = "cdx" /\ req.prefix => Len(req.rows) <= CdxLimit
  /\ steady \in BOOLEAN

(* A revisit record has no body and gets no document: what it shows is the *)
(* response it repeats.  from_warc_record relies on that response being    *)
(* indexed already, and it is, under the same URL and with the same        *)
(* payload, unless a purge has taken it out since the crawler asked.       *)
RevisitIndexed ==
  /\ TypeOK
  /\ \A c \in rows : stored[c] = "revisit" =>
       \E d \in rows \cup purged : /\ stored[d] = "response" /\ Digest[d] = Digest[c]
                                  /\ to_surt[d] = to_surt[c] /\ Stamp[d] < Stamp[c]

(* The queries reached by at most five clicks.                             *)
Reachable(table) ==
  LET Click(click, Q) == Q \cup UNION {UNION {Links(p) : p \in Pages(q, table)} : q \in Q}
  IN  FoldSeq(Click, {Root}, <<1, 2, 3, 4, 5>>)

Fits(table) == Cardinality(table) <= MaxRows
Ordinary(c) == Len(Name[c]) > 1 /\ "," \notin Range(Path[c])

(* Every captured URL can be reached by clicking from /ui/browse down      *)
(* (browse_handler and the pages' links), as long as no page is cut off.   *)
(* Left out: hosts of one label, paths with a comma, which browse_domains  *)
(* takes for the end of a label, and on a site served from its apex the    *)
(* captures without 2xx status.                                            *)
Browsable ==
  Fits(rows) =>
    LET found == Reachable(rows)
    IN  \A c \in rows : Ordinary(c) /\ (c \in Good \/ Len(Name[c]) > 2) =>
          Query("url", Original[c], FALSE) \in found

(* What the homepage and the statistics page count: the collection cards   *)
(* account for every row counted, and for each collection as it is if      *)
(* nothing was committed meanwhile, the archive taking the rows of         *)
(* collections no longer configured.                                       *)
CardsAddUp ==
  /\ req.kind = "home" /\ req.shown /\ req.cards # {} =>
       /\ SumCards(req.cards) >= req.total
       /\ steady => \A g \in req.cards :
            g[2] = Cardinality({c \in rows : IF g[1] = Archive THEN Coll[c] \notin Configured
                                             ELSE Coll[c] = g[1]})
  /\ req.kind = "stats" /\ req.left = {} /\ steady => SumCards(req.cards) = req.total

(* Every number of captures a page shows is the sum of those behind it:    *)
(* the cards of the homepage and of the statistics page against their      *)
(* totals, browse_tlds against browse_domains, and, where no path holds a  *)
(* comma, browse_domains against browse_subdomains.                        *)
CountsAgree ==
  /\ CardsAddUp
  /\ \A t \in browse_tlds(rows) : t[1] # <<>> =>
       /\ t[2] = SumCards(browse_domains(t[1], rows))
       /\ (\A c \in rows : Ordinary(c)) =>
             \A d \in browse_domains(t[1], rows) :
               d[2] = SumCards(browse_subdomains(d[1], rows))

(* A /cdx prefix query answers with the rows of the URL's own host only,   *)
(* in order, all of them unless the limit is reached; an exact one with    *)
(* every capture of the URL from the date on, whatever the limit.          *)
PrefixIsHost ==
  req.kind = "cdx" /\ steady =>
    LET due == {c \in rows : IF req.prefix THEN Name[c] = Name[req.of]
                                ELSE to_surt[c] = to_surt[req.of] /\ Stamp[c] >= req.from}
    IN  /\ Range(req.rows) \subseteq due
        /\ req.rows = Ordered(Range(req.rows))
        /\ Len(req.rows) < CdxLimit \/ ~req.prefix => Range(req.rows) = due

=============================================================================
