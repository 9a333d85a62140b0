---------------------------- MODULE MCUrlExport -----------------------------
(***************************************************************************)
(* Small instance of UrlExport.  Site a.org has a page that links to a PDF *)
(* of its own and to one below b.org; the PDF's retained XHTML links to a  *)
(* third, below xb.org; one more PDF has a urn for a URL, and that and the *)
(* page were captured first.  The first list names b.org in its file, and  *)
(* a pattern for the page's own PDF twice, inline and in the file; the     *)
(* second names b.org inline, with a pattern that does not compile and one *)
(* that matches the empty string, and so every URL.                        *)
(***************************************************************************)
EXTENDS UrlExport

MCUrls == {"page", "pdf", "below", "third", "urn"}
MCHost == [u \in MCUrls |-> CASE u = "below" -> <<"w", "b", "org">> [] u = "urn" -> <<>>
                              [] u = "third" -> <<"xb", "org">> [] OTHER -> <<"a", "org">>]
MCLinksOn == [u \in MCUrls |-> CASE u = "page" -> {"pdf", "below"} [] u = "pdf" -> {"third"}
                                 [] OTHER -> {}]
MCCovers == [p \in {"own", "bad", "all"} |-> IF p = "own" THEN {"pdf"} ELSE MCUrls]

Entry(labels) == [star |-> FALSE, labels |-> labels]
List(ds, df, ps, pf) == [domains |-> ds, domainFile |-> df, inline |-> ps, patterns |-> pf]
MCLists == {List({}, {Entry(<<"b", "org">>)}, {"own"}, {"own"}),
            List({Entry(<<"b", "org">>)}, {}, {"bad"}, {"all"})}
=============================================================================
