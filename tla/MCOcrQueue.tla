----------------------------- MODULE MCOcrQueue -----------------------------
(***************************************************************************)
(* Small instances of OcrQueue: two objects, two contents.                 *)
(***************************************************************************)
EXTENDS OcrQueue

MCKeys == {"k1", "k2"}
MCDigests == {"d1", "d2"}
(* Two crawls of one PDF; the other content comes by replacement. *)
MCTwice == [k \in MCKeys |-> "d1"]
MCDistinct == [k \in MCKeys |-> IF k = "k1" THEN "d1" ELSE "d2"]
(* A content that fails for good under low limits. *)
MCMixed == [d \in MCDigests |-> IF d = "d1" THEN "text" ELSE "wordy"]
MCPages == [d \in MCDigests |-> IF d = "d1" THEN "text" ELSE "blank"]
=============================================================================
