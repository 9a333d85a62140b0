---------------------------- MODULE MCStoredText ----------------------------
(***************************************************************************)
(* Small instance of StoredText.  A page is up to two blocks, with the     *)
(* words and links the block holds by construction; a text/plain document  *)
(* is up to three bytes of digits, line ends and letters, or a size line   *)
(* and one byte; Tika may answer with up to three pages, blank ones among  *)
(* them, and an embedded file.                                             *)
(***************************************************************************)
EXTENDS StoredText

Block(t, w, l) == [text |-> t, words |-> w, links |-> l]
MCBlocks == {
  Block(<<"x">>, <<"x">>, {}),
  Block(<<"1">>, <<"1">>, {}),
  Block(<<"&lt;", "x">>, <<"<", "x">>, {}),
  Block(<<"<!--", "<a", "href=c.pdf", ">", "x", "-->">>, <<>>, {}),
  Block(<<"<script", ">", "x", "<a", "href=c.pdf", ">", "</script", ">">>, <<>>, {}),
  Block(<<"<a", "href=a.pdf#2", ">", "x", "</a", ">">>, <<"x">>, {"a.pdf"}),
  Block(<<"<a", "data-href=c.pdf", "href=b.pdf", ">">>, <<>>, {"b.pdf"}),
  Block(<<"<title", ">", "1", "</title", ">">>, <<"1">>, {})}
MCLinks == [a \in {"href=a.pdf#2", "href=b.pdf", "href=c.pdf", "data-href=c.pdf"} |->
              CASE a = "href=a.pdf#2" -> "a.pdf" [] a = "href=b.pdf" -> "b.pdf"
                [] a = "href=c.pdf" -> "c.pdf" [] OTHER -> "no"]

Page(bs) == [mime |-> "html", text |-> FlattenSeq([i \in 1..Len(bs) |-> bs[i].text]),
             words |-> FlattenSeq([i \in 1..Len(bs) |-> bs[i].words]),
             links |-> UNION {bs[i].links : i \in 1..Len(bs)}]
MCPages == {Page(bs) : bs \in UNION {[1..n -> MCBlocks] : n \in 1..2}}
Other(m, t) == [mime |-> m, text |-> t, words |-> <<>>, links |-> {}]
MCBytes == {"1", "cr", "lf", "x"}
MCTexts == {Other("plain", t) : t \in UNION {[1..n -> MCBytes] : n \in 1..3}
                                        \cup {<<"1", "cr", "lf", b>> : b \in MCBytes}}
MCPdfs == {Other("pdf", <<"x", "x", "%%EOF">>), Other("pdf", <<"1", "cr", "x", "%%EOF">>)}
MCDocuments == MCPages \cup MCTexts \cup MCPdfs

MCCodings == {<<"", "none">>, <<"gzip", "gzip">>, <<"gzip", "none">>, <<"deflate", "zlib">>,
              <<"deflate", "deflate">>, <<"", "gzip">>, <<"br", "br">>}

MCPdfPages == {<<"page">>, <<"page", "<p", ">", "w1", "long-s", "<p", ">">>, <<"page", "w2", "<p", ">", "<p", ">", "w3">>,
               <<"page", "%$", "<a", "href=b.pdf", ">", "%$", "%$">>}
MCMain == {<<"w3">> \o FlattenSeq(ps) : ps \in UNION {[1..n -> MCPdfPages] : n \in 0..3}}
MCAnswers == {<<x>> : x \in MCMain} \cup {<<x, <<"page", "w1", "page", "w1">>>> : x \in MCMain}
=============================================================================
