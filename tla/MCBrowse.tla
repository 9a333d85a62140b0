------------------------------ MODULE MCBrowse ------------------------------
(* p1, p2: captures of the front page of ex.de over http and https, with   *)
(* one payload; q: a page there with the same payload; w: a page of        *)
(* www.ex.de that was not found; f: a file of a collection; m: one of a    *)
(* collection no longer configured, with a comma in its path.              *)
EXTENDS Browse

MCOrder == <<"p1", "p2", "q", "w", "f", "m">>
MCCaps == Range(MCOrder)
MCName == [c \in MCCaps |-> CASE c \in {"p1", "p2", "q"} -> <<"de", "ex">>
                              [] c = "w" -> <<"de", "ex", "www">>
                              [] OTHER -> <<"org", "lib">>]
MCPath == [c \in MCCaps |-> CASE c = "q" -> <<"/q">> [] c = "m" -> <<"/1", ",", "2">>
                              [] OTHER -> <<"/">>]
MCOriginal == [c \in MCCaps |-> c]
MCStamp == [c \in MCCaps |-> CASE c = "p1" -> 1 [] c = "q" -> 3 [] OTHER -> 2]
MCGood == MCCaps \ {"w", "p2"}
MCDigest == [c \in MCCaps |-> CASE c \in {"p1", "p2", "q"} -> "d" [] c = "w" -> "w"
                                [] OTHER -> NoDigest]
MCColl == [c \in MCCaps |-> CASE c = "f" -> "pdfs" [] c = "m" -> "gone" [] OTHER -> "warc"]
=============================================================================
