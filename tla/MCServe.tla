------------------------------- MODULE MCServe -------------------------------
EXTENDS Serve

(* a and b are in a gzip WARC made of one member, b indexed long ago; its  *)
(* next version is b, e, c and has a member for each.  f is a file of a    *)
(* collection, g what replaces it; h is of a collection no longer          *)
(* configured.                                                             *)
MCCaps == {"a", "b", "c", "e", "f", "g", "h"}
MCUrl == [c \in MCCaps |-> CASE c \in {"a", "e"} -> "u" [] c \in {"b", "c"} -> "v" [] OTHER -> "w"]
MCStamp == [c \in MCCaps |-> CASE c \in {"a", "f"} -> 1 [] c \in {"b", "h"} -> 2 [] OTHER -> 4]
MCDigest == [c \in MCCaps |-> CASE c = "a" -> "da" [] c = "b" -> "db" [] c = "c" -> "dc"
                                [] c = "e" -> "de" [] c = "f" -> "df" [] c = "g" -> "dg"
                                [] OTHER -> "dh"]
MCKind == [c \in MCCaps |-> CASE c \in {"a", "h"} -> "html" [] c = "b" -> "cut" [] c = "c" -> "packed"
                              [] c \in {"e", "f"} -> "pdf" [] OTHER -> "large"]
MCObjs == {"x", "y", "z"}
MCContent == [o \in MCObjs |-> CASE o = "x" -> <<<<"a", "b">>, <<"b", "e", "c">>>>
                                 [] o = "y" -> <<<<"f">>, <<"g">>>>
                                 [] OTHER -> <<<<"h">>, <<"h">>>>]
MCShape == [o \in MCObjs |-> IF o = "x" THEN <<"whole", "split">> ELSE <<"file", "file">>]
MCColl == [o \in MCObjs |-> CASE o = "x" -> "warc" [] o = "y" -> "pdfs" [] OTHER -> "gone"]
MCIndexed == {<<"b", "x", 0>>, <<"h", "z", 1>>}
=============================================================================
