----------------------------- MODULE StoredText -----------------------------
(***************************************************************************)
(* From the bytes a WARC record holds to the text, the links and the pages *)
(* the readers take out of them (http_payload.rs, the text half of         *)
(* build_index_doc in index.rs, pdf.rs, fetch_and_extract in               *)
(* pdf_url_export.rs, classify in wire_scan.rs).                           *)
(*                                                                         *)
(* A site publishes a document, sends it with or without a                 *)
(* Content-Encoding and chunk framing, and the capture may be cut off      *)
(* anywhere.  Then the index run, the PDF URL export and the wire-format   *)
(* scan each read what was stored.  Bytes are symbols: a letter or a digit *)
(* for itself, "<a", "-->" and the like for the few bytes of markup the    *)
(* scanners look for, and Piece[s] for the piece of a compressed stream    *)
(* that inflates to s.                                                     *)
(***************************************************************************)
EXTENDS Integers, Sequences, SequencesExt, FiniteSets, TLC

CONSTANTS
  Documents,     \* the documents a site may publish: records of text and mime
  Codings,       \* what it may do to them: pairs of Content-Encoding and coding used
  ChunkSizes,    \* the sizes it may cut chunks to
  Answers,       \* what Tika may make of a PDF: sequences of XHTML documents
  MaxText,       \* max_text_bytes * 4, the indexer's limit on HTML and text
  MaxDecoded,    \* MAX_DECODED_BYTES, everyone else's
  MaxPdf,        \* tika.max_pdf_bytes
  MaxLine,       \* the longest chunk-size line find_crlf looks at
  MinText,       \* the shortest text the quality gate lets through
  Links,         \* Links[a]: the PDF URL an attribute a leads to, or "no"
  None

ASSUME StoredAssumption ==
  /\ \A n \in {MaxText, MaxDecoded, MaxPdf, MaxLine, MinText} : n \in Nat
  /\ MaxText <= MaxDecoded
  /\ ChunkSizes \subseteq 1..15

VARIABLES
  pc,            \* what happens to the document next
  document,      \* what the site published
  coding,        \* <<Content-Encoding, the coding really used>>
  framed,        \* was it sent in chunks?
  cut,           \* was the capture cut off?
  body,          \* the stored body
  rmeta,         \* Tika's answer, if it was asked
  doc,           \* the index run's document, None if it made none
  runLinks,      \* the links the index run saw
  exportLinks,   \* the links export-pdf-urls saw
  damage         \* the verdict of scan-wire-format

vars == <<pc, document, coding, framed, cut, body, rmeta, doc, runLinks, exportLinks, damage>>

-----------------------------------------------------------------------------
(* Compressed streams *)

Letters == UNION {Range(d.text) : d \in Documents}
Piece == [s \in Letters |-> "z." \o s]
Zipped == Range(Piece)
Unzip == [z \in Zipped |-> CHOOSE s \in Letters : Piece[s] = z]

(* Only the gzip header is sure to hold a NUL byte. *)
Binary == {"gzip.", "nul"}
Noise == Zipped \cup {"gzip.", "zlib.", "end.", "nul"}

Compress(c, s) ==
  CASE c = "gzip" -> <<"gzip.">> \o [i \in 1..Len(s) |-> Piece[s[i]]] \o <<"end.">>
    [] c = "zlib" -> <<"zlib.">> \o [i \in 1..Len(s) |-> Piece[s[i]]] \o <<"end.">>
    [] c = "deflate" -> [i \in 1..Len(s) |-> Piece[s[i]]] \o <<"end.">>
    [] c = "br" -> <<"nul">>
    [] OTHER -> s

Digits == <<"1", "2", "3", "4", "5", "6", "7", "8", "9", "a", "b", "c", "d", "e", "f">>
HexValue == [s \in Range(Digits) \cup {"0"} |->
               IF s = "0" THEN 0 ELSE CHOOSE i \in 1..15 : Digits[i] = s]

RECURSIVE Chunked(_, _)
Chunked(s, n) ==
  IF s = <<>> THEN <<"0", "cr", "lf", "cr", "lf">>
  ELSE LET m == IF Len(s) < n THEN Len(s) ELSE n
       IN <<Digits[m], "cr", "lf">> \o SubSeq(s, 1, m) \o <<"cr", "lf">>
            \o Chunked(SubSeq(s, m + 1, Len(s)), n)

-----------------------------------------------------------------------------
(* http_payload.rs *)

First(s, from, S) ==
  LET at == {i \in from..Len(s) : s[i] \in S}
  IN IF at = {} THEN 0 ELSE CHOOSE i \in at : \A j \in at : i <= j

find_crlf(b, from) ==
  LET at == {i \in from..(from + MaxLine - 2) :
               i < Len(b) /\ b[i] = "cr" /\ b[i + 1] = "lf"}
  IN IF at = {} THEN 0 ELSE CHOOSE i \in at : \A j \in at : i <= j

(* The size on the line b[from..to], None if it is no size line. *)
HexNumber(digits) ==
  IF digits = <<>> \/ ~(Range(digits) \subseteq DOMAIN HexValue) THEN None
  ELSE <<FoldLeft(LAMBDA n, d : 16 * n + HexValue[d], 0, digits)>>
ChunkSize(b, from, to) ==
  LET semi == First(SubSeq(b, 1, to), from, {";"})
  IN HexNumber(SubSeq(b, from, (IF semi = 0 THEN to + 1 ELSE semi) - 1))

(* The chunks from the size line at i on; the one at start, of this size,  *)
(* and those behind it.                                                    *)
RECURSIVE Dechunk(_, _, _), Chunk(_, _, _, _)
Dechunk(b, i, out) ==
  LET eol == find_crlf(b, i)
  IN IF eol = 0 THEN None ELSE Chunk(b, eol + 2, ChunkSize(b, i, eol - 1), out)
Chunk(b, start, size, out) ==
  LET end == start + size[1]
      whole == out \o SubSeq(b, start, end - 1)
  IN IF size = None THEN None
     ELSE CASE size[1] = 0 -> <<out>>
            [] size[1] > 0 /\ end > Len(b) + 1 -> <<out \o SubSeq(b, start, Len(b))>>
            [] size[1] > 0 /\ end \in {Len(b), Len(b) + 1} -> <<whole>>
            [] OTHER -> IF SubSeq(b, end, end + 1) = <<"cr", "lf">>
                        THEN Dechunk(b, end + 2, whole) ELSE None

(* Mutant of dechunk: what does not end in CRLF is still unframed. *)
dechunk_lenient(b) ==
  LET eol == find_crlf(b, 1)
      size == ChunkSize(b, 1, eol - 1)
  IN IF eol # 0 /\ size # None
     THEN LET d == Dechunk(b, 1, <<>>)
          IN IF d # None THEN d ELSE <<SubSeq(b, eol + 2, Len(b))>>
     ELSE None

(* The body without its chunk framing in a tuple, None if it has none. *)
dechunk(b) ==
  IF b = <<>> \/ b[1] \notin DOMAIN HexValue THEN None ELSE Dechunk(b, 1, <<>>)

(* What a decoder for streams with this header makes of b within max       *)
(* bytes: a stream that breaks off keeps what was inflated before.         *)
Inflated(z, stop, max) ==
  LET n == IF stop = 0 THEN Len(z) ELSE stop - 1
      out == [i \in 1..(IF n > max THEN max ELSE n) |-> Unzip[z[i]]]
  IN IF n >= max \/ (stop # 0 /\ z[stop] = "end.") \/ out # <<>> THEN <<out>> ELSE None
inflate(header, b, max) ==
  LET z == SubSeq(b, Len(header) + 1, Len(b))
  IN IF ~IsPrefix(header, b) THEN None
     ELSE Inflated(z, First(z, 1, (Range(z) \cup {"end."}) \ Zipped), max)

Failed == [ok |-> FALSE, bytes |-> <<>>]
Decoded(b) == [ok |-> TRUE, bytes |-> b]

stored_as_is(b) == IF \E i \in 1..Len(b) : b[i] \in Binary THEN Failed ELSE Decoded(b)

(* The body without its framing, if it has any. *)
Unframed(b) == LET d == dechunk(b) IN IF d = None THEN b ELSE d[1]

(* Mutant of Decode: the header is believed. *)
DecodeBelieves(enc, b, max) ==
  LET out == inflate(IF enc = "gzip" THEN <<"gzip.">> ELSE <<"zlib.">>, b, max)
  IN IF enc \in {"", "identity"} THEN Decoded(b)
     ELSE IF out = None THEN Failed ELSE Decoded(out[1])

(* The unframed body b without its Content-Encoding enc. *)
Decode(enc, b, max) ==
  LET gz == inflate(<<"gzip.">>, b, max)
      zlib == inflate(<<"zlib.">>, b, max)
      raw == inflate(<<>>, b, max)
  IN CASE enc \in {"", "identity"} -> Decoded(b)
       [] enc = "gzip" -> IF gz # None THEN Decoded(gz[1]) ELSE stored_as_is(b)
       [] enc = "deflate" -> IF zlib # None THEN Decoded(zlib[1])
                             ELSE IF raw # None THEN Decoded(raw[1])
                             ELSE stored_as_is(b)
       [] OTHER -> Failed

(* HttpParts::payload for a body stored under the Content-Encoding enc. *)
payload(enc, b, max) == Decode(enc, Unframed(b), max)

-----------------------------------------------------------------------------
(* The scanners of index.rs *)

Lt == {"<", "<a", "</a", "<!--", "<script", "</script", "<title", "</title", "<p"}
Gt == {">", "-->"}

(* The first position past the tag, comment or raw-text element at lt. *)
PastMarkup(s, lt) ==
  LET past(i) == IF i = 0 THEN Len(s) + 1 ELSE i + 1
      close == First(s, lt + 1, {"</script"})
  IN CASE s[lt] = "<!--" -> past(First(s, lt + 1, {"-->"}))
       [] s[lt] = "<script" -> IF close = 0 THEN Len(s) + 1 ELSE past(First(s, close, Gt))
       [] OTHER -> past(First(s, lt + 1, Gt))

(* Only what is between the tags, comments and scripts is text; character  *)
(* references are decoded last, so they never make markup.                 *)
decode_entities(s) == [i \in 1..Len(s) |-> IF s[i] = "&lt;" THEN "<" ELSE s[i]]

RECURSIVE Strip(_, _)
Strip(s, i) ==
  LET lt == First(s, i, Lt)
  IN IF lt = 0 THEN SubSeq(s, i, Len(s))
     ELSE SubSeq(s, i, lt - 1) \o Strip(s, PastMarkup(s, lt))

(* Mutant of strip_html: references are decoded first. *)
strip_decoded(s) == Strip(decode_entities(s), 1)
strip_html(s) == decode_entities(Strip(s, 1))

collect_href_links(s, from, to) == {Links[s[i]] : i \in {j \in from..to : s[j] \in DOMAIN Links}}

RECURSIVE LinksFrom(_, _)
LinksFrom(s, i) ==
  LET lt == First(s, i, Lt)
      gt == First(s, lt + 1, Gt)
  IN CASE lt = 0 -> {}
       [] lt # 0 /\ s[lt] \in {"<!--", "<script"} -> LinksFrom(s, PastMarkup(s, lt))
       [] OTHER -> IF gt = 0 THEN {}
                   ELSE collect_href_links(s, lt, gt) \cup LinksFrom(s, gt + 1)

extract_pdf_links(s) == LinksFrom(s, 1) \ {"no"}

extract_title(s) ==
  LET open == First(s, 1, {"<title"})
      gt == First(s, open, {">", "-->"})
      close == First(s, gt + 1, {"</title"})
  IN IF open = 0 \/ gt = 0 \/ close = 0 THEN <<>>
     ELSE decode_entities(SubSeq(s, gt + 1, close - 1))

-----------------------------------------------------------------------------
(* pdf.rs *)

Blocks == {"<p", "<div"}
Spaces == {"nl", "ff"}

pdf_has_eof(b) == \E i \in 1..Len(b) : b[i] = "%%EOF"

(* One XHTML document as text: a form feed between pages, a new line for   *)
(* every block; what stands before the first page is dropped.              *)
xhtml_to_text(x) ==
  LET first == First(x, 1, {"page"})
      rest == SubSeq(x, first + 1, Len(x))
      said == [i \in 1..Len(rest) |-> CASE rest[i] = "page" -> "ff"
                                        [] rest[i] \in Blocks -> "nl"
                                        [] OTHER -> rest[i]]
  IN decode_entities(SelectSeq(said, LAMBDA s : s \notin DOMAIN Links \cup Lt \cup Gt))

Pages(text) ==
  FoldLeft(LAMBDA ps, s : IF s = "ff" THEN Append(ps, <<>>)
                          ELSE [ps EXCEPT ![Len(ps)] = Append(@, s)], << <<>> >>, text)

normalize_ws_page(p) ==
  LET tight == FoldLeft(LAMBDA out, s : IF s = "nl" /\ (out = <<>> \/ Last(out) = "nl")
                                        THEN out ELSE Append(out, s), <<>>, p)
  IN IF tight # <<>> /\ Last(tight) = "nl" THEN Front(tight) ELSE tight

normalise_historic_forms(p) == [i \in 1..Len(p) |-> IF p[i] = "long-s" THEN "s" ELSE p[i]]

(* The text of Tika's answer, the PDF and then the files embedded in it,   *)
(* page by page.                                                           *)
TextOf(docs) == FlattenSeq([i \in 1..Len(docs) |-> Append(xhtml_to_text(docs[i]), "nl")])

(* Mutant of parse_rmeta: blank pages are dropped. *)
rmeta_trimmed(docs) ==
  SelectSeq([i \in 1..Len(Pages(TextOf(docs))) |-> normalize_ws_page(Pages(TextOf(docs))[i])],
            LAMBDA p : p # <<>>)

parse_rmeta(docs) ==
  [i \in 1..Len(Pages(TextOf(docs))) |-> normalize_ws_page(Pages(TextOf(docs))[i])]

looks_like_text(ps) ==
  LET words == SelectSeq(FlattenSeq(ps), LAMBDA s : s \notin Spaces)
      real == SelectSeq(words, LAMBDA s : s # "%$")
  IN Len(words) >= MinText /\ 5 * Len(real) >= 2 * Len(words)

try_extract(b, docs) ==
  LET ps == parse_rmeta(docs)
      text == [i \in 1..Len(ps) |-> normalise_historic_forms(ps[i])]
  IN CASE Len(b) > MaxPdf -> None
       [] Len(b) <= MaxPdf /\ ~pdf_has_eof(b) -> None
       [] OTHER -> IF \A i \in 1..Len(ps) : ps[i] = <<>> THEN None
                   ELSE IF looks_like_text(text) THEN text ELSE None

-----------------------------------------------------------------------------
(* From the site to the stored record (external) *)

Start ==
  /\ pc = "send"
  /\ coding = <<"", "none">> /\ framed = FALSE /\ cut = FALSE /\ body = <<>>
  /\ rmeta = None /\ doc = None /\ runLinks = {} /\ exportLinks = {} /\ damage = "none"

Init == document \in Documents /\ Start

Send(c) ==
  /\ pc = "send"
  /\ coding' = c
  /\ body' = Compress(c[2], document.text)
  /\ pc' = "frame"
  /\ UNCHANGED <<document, framed, cut, rmeta, doc, runLinks, exportLinks, damage>>

Frame ==
  /\ pc = "frame"
  /\ \/ UNCHANGED <<framed, body>>
     \/ framed' = TRUE /\ \E n \in ChunkSizes : body' = Chunked(body, n)
  /\ pc' = "store"
  /\ UNCHANGED <<document, coding, cut, rmeta, doc, runLinks, exportLinks, damage>>

Store ==
  /\ pc = "store"
  /\ \/ UNCHANGED <<cut, body>>
     \/ cut' = TRUE /\ \E n \in 0..(Len(body) - 1) : body' = SubSeq(body, 1, n)
  /\ pc' = "index"
  /\ UNCHANGED <<document, coding, framed, rmeta, doc, runLinks, exportLinks, damage>>

-----------------------------------------------------------------------------
(* The readers *)

Truncated(b, max) == IF Len(b) > max THEN SubSeq(b, 1, max) ELSE b

HtmlDoc(s) == [title |-> extract_title(s), text |-> strip_html(s)]

(* The first line of a text/plain document is its title, the rest its body. *)
PlainDoc(s) ==
  LET lf == First(s, 1, {"lf"})
  IN IF lf = 0 THEN [title |-> s, text |-> <<>>]
     ELSE [title |-> SubSeq(s, 1, lf - 1), text |-> SubSeq(s, lf + 1, Len(s))]

(* The HTML and text/plain part of build_index_doc. *)
IndexText ==
  /\ pc = "index" /\ document.mime \in {"html", "plain"}
  /\ LET p == payload(coding[1], body, MaxText)
         s == Truncated(p.bytes, MaxText)
     IN /\ doc' = IF ~p.ok THEN None
                  ELSE IF document.mime = "html" THEN HtmlDoc(s) ELSE PlainDoc(s)
        /\ runLinks' = IF p.ok /\ document.mime = "html" THEN extract_pdf_links(s) ELSE {}
  /\ pc' = "export"
  /\ UNCHANGED <<document, coding, framed, cut, body, rmeta, exportLinks, damage>>

(* Its PDF part without an OCR cache (with one: OcrQueue): Tika is asked   *)
(* inside the run, and links count only if the document does.              *)
IndexPdf ==
  /\ pc = "index" /\ document.mime = "pdf"
  /\ LET p == payload(coding[1], body, MaxDecoded)
     IN \E a \in Answers :
          LET text == IF p.ok THEN try_extract(p.bytes, a) ELSE None
          IN /\ rmeta' = a
             /\ doc' = IF text = None THEN None ELSE [title |-> <<>>, text |-> text]
             /\ runLinks' = IF text = None THEN {} ELSE extract_pdf_links(FlattenSeq(a))
  /\ pc' = "scan"
  /\ UNCHANGED <<document, coding, framed, cut, body, exportLinks, damage>>

(* A Tika that cannot be reached, times out or answers too much. *)
TikaFails ==
  /\ pc = "index" /\ document.mime = "pdf"
  /\ pc' = "scan"
  /\ UNCHANGED <<document, coding, framed, cut, body, rmeta, doc, runLinks, exportLinks, damage>>

(* Mutant of fetch_and_extract: the body is read as stored. *)
scan_unpeeled ==
  /\ pc = "export"
  /\ exportLinks' = IF document.mime = "html" THEN extract_pdf_links(body) ELSE {}
  /\ pc' = "scan"
  /\ UNCHANGED <<document, coding, framed, cut, body, rmeta, doc, runLinks, damage>>

(* export-pdf-urls reads the pages again, with the larger limit. *)
fetch_and_extract ==
  /\ pc = "export"
  /\ LET p == payload(coding[1], body, MaxDecoded)
     IN exportLinks' = IF p.ok /\ document.mime = "html" THEN extract_pdf_links(p.bytes) ELSE {}
  /\ pc' = "scan"
  /\ UNCHANGED <<document, coding, framed, cut, body, rmeta, doc, runLinks, damage>>

(* Mutant of Verdict: only the framing counts. *)
VerdictByFraming == IF dechunk(body) # None THEN "chunked" ELSE "none"

(* scan-wire-format: what an indexer that did not peel made of the record. *)
Verdict ==
  LET d == dechunk(body)
      p == payload(coding[1], body, MaxDecoded)
      encoded == ~p.ok \/ p.bytes # Unframed(body)
  IN IF encoded \/ (d # None /\ document.mime = "pdf") THEN "encoded"
     ELSE IF d # None THEN "chunked" ELSE "none"

classify ==
  /\ pc = "scan"
  /\ damage' = Verdict
  /\ pc' = "done"
  /\ UNCHANGED <<document, coding, framed, cut, body, rmeta, doc, runLinks, exportLinks>>

Next ==
  \/ \E c \in Codings : Send(c)
  \/ Frame
  \/ Store
  \/ IndexText
  \/ IndexPdf
  \/ TikaFails
  \/ fetch_and_extract
  \/ classify

Spec == Init /\ [][Next]_vars

-----------------------------------------------------------------------------
(* Properties *)

Read == pc \in {"export", "scan", "done"}
Declared == coding[1] = coding[2] \/ coding \in {<<"", "none">>, <<"deflate", "zlib">>}

(* A text that itself opens with a line of hex digits can pass for chunks. *)
SizeLine(s) ==
  \E i \in 1..(Len(s) - 2) : /\ \A j \in 1..i : s[j] \in DOMAIN HexValue
                             /\ s[i + 1] = "cr" /\ s[i + 2] = "lf"

Served == payload(coding[1], body, MaxDecoded)

TypeOK ==
  /\ pc \in {"send", "frame", "store", "index", "export", "scan", "done"}
  /\ document \in Documents /\ coding \in Codings \cup {<<"", "none">>}
  /\ framed \in BOOLEAN /\ cut \in BOOLEAN
  /\ rmeta \in Answers \cup {None}
  /\ runLinks \cup exportLinks \subseteq Range(Links) \ {"no"}
  /\ doc # None => /\ DOMAIN doc = {"title", "text"}
                   /\ document.mime # "pdf" => Len(doc.text) <= MaxText
  /\ damage \in {"none", "chunked", "encoded"}

(* "The indexer, `/text`, replay -- has to peel both, in that order" and    *)
(* "Content-Encoding: gzip on a body the crawler already decoded ... falls *)
(* back to the bytes as stored" (http_payload.rs): a whole capture reads as *)
(* what the site published, framed or not, compressed or falsely said to   *)
(* be, unless the published bytes pass for chunk framing themselves.       *)
PayloadIsContent ==
  /\ TypeOK
  /\ Read /\ ~cut /\ (Declared \/ coding = <<"gzip", "none">>) /\ coding[1] # "br"
       /\ (framed \/ ~SizeLine(body))
       => Served = Decoded(document.text)

(* "A capture cut off mid-chunk keeps what it has", "that prefix is real   *)
(* content, so it is kept" (dechunk, inflate), "an unpeeled body indexes   *)
(* as U+FFFD noise" (build_index_doc): a capture cut off anywhere reads as *)
(* a prefix of the content, as the stored bytes if nothing in them is      *)
(* compressed, or not at all - never as content with pieces missing, with  *)
(* framing left inside, or as noise.  (Not so for zlib: a stream cut right *)
(* behind its header has no NUL byte, and passes for a body that was not   *)
(* encoded.  Nor for a framed capture cut between two chunks: it does not  *)
(* pass for framing, and is read as stored.)                               *)
CutKeepsPrefix ==
  Read /\ cut /\ Declared /\ coding[2] # "zlib" /\ ~SizeLine(document.text) /\ Served.ok =>
    \/ IsPrefix(Served.bytes, document.text)
    \/ Served.bytes = body /\ (framed \/ Range(body) \cap Noise = {})

(* What "would a person call this a link to a PDF" and "markup is removed" *)
(* ask for (extract_pdf_links, strip_html): of a page that was read whole   *)
(* and within the limit, exactly the words outside markup, scripts and     *)
(* comments are searchable, and exactly the PDFs its tags link to found.   *)
ReadsThePage ==
  Read /\ document.mime = "html" /\ ~cut /\ Declared /\ coding[1] # "br"
    /\ Len(document.text) <= MaxText
    => doc.text = document.words /\ runLinks = document.links

(* "So the two producers are deliberately not identical ... a superset"    *)
(* (scan_links): whatever was cut off, truncated or wrongly declared, the  *)
(* export finds every link of a page that the index run found in it.       *)
RunIsSubset ==
  pc = "done" /\ document.mime = "html" => runLinks \subseteq exportLinks

(* "Never truncate a PDF" (build_index_doc) and "a page number that is off *)
(* by one points at the wrong cultivar" (xhtml_to_text): a PDF becomes a   *)
(* document only if its last byte was captured, through whatever framing   *)
(* and encoding, and every page of it keeps its place in the text, behind  *)
(* blank pages, before embedded files, and after normalisation.            *)
PageWords(x, i) ==
  {x[j] : j \in {k \in 1..Len(x) : x[k] \in {"w1", "w2", "w3"}
                   /\ Cardinality({h \in 1..k : x[h] = "page"}) = i}}
PagesKeepTheirNumber ==
  Read /\ document.mime = "pdf" /\ doc # None =>
    /\ Served = Decoded(document.text)
    /\ \A i \in 1..Cardinality({j \in 1..Len(rmeta[1]) : rmeta[1][j] = "page"}) :
         i \in DOMAIN doc.text /\ PageWords(rmeta[1], i) \subseteq Range(doc.text[i])

(* "Objects holding noise" (scan-wire-format): where an indexer that did   *)
(* not peel would have indexed compressed bytes, and this one does not,    *)
(* the scan lists the record for a re-index.                               *)
OldText == strip_html(body)
ScanFindsNoise ==
  pc = "done" /\ document.mime = "html" /\ Range(OldText) \cap Noise # {} /\ doc # None
    /\ Range(doc.text) \cap Noise = {}
    => damage = "encoded"
=============================================================================
