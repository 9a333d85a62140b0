------------------------------ MODULE MCIngest ------------------------------
(***************************************************************************)
(* Small instance of Ingest.  Object "k1" holds pages a and b in version   *)
(* 1; version 2 drops b and has a at another offset, under the same key of *)
(* the cdx table.  Object "k2" holds another capture of page a, made over  *)
(* https, and an image, which has no text.                                 *)
(***************************************************************************)
EXTENDS Ingest

MCKeys == {"k1", "k2"}
MCUrls == {"http:a", "https:a", "http:b"}
MCto_surt == [u \in MCUrls |-> IF u = "http:b" THEN "b" ELSE "a"]
MCCaptures == {"a1", "a2", "b1", "s1", "i1"}
MCContent == [k \in MCKeys |->
                [v \in 1..MaxVersion |->
                   IF k = "k2" THEN {"s1", "i1"}
                   ELSE IF v = 1 THEN {"a1", "b1"} ELSE {"a2"}]]
MCPos == [c \in MCCaptures |-> IF c \in {"b1", "i1"} THEN 2 ELSE 1]
MCTextual == MCCaptures \ {"i1"}
MCUrl == [c \in MCCaptures |->
            IF c \in {"a1", "a2"} THEN "http:a" ELSE IF c = "s1" THEN "https:a" ELSE "http:b"]
MCStamp == [c \in MCCaptures |-> IF c \in {"s1", "i1"} THEN 2 ELSE 1]
MCHost == [s \in {"a", "b"} |-> s]
MCUrlHost == [u \in MCUrls |-> MCHost[MCto_surt[u]]]

NoSkip == [dom |-> {}, pat |-> {}]
MCNoSkipList == {NoSkip}
MCDomainLists == {NoSkip, [dom |-> {"a"}, pat |-> {}]}
MCMixedLists == {NoSkip, [dom |-> {"b"}, pat |-> {"https:a"}]}
MCLists == MCDomainLists \cup MCMixedLists
=============================================================================
