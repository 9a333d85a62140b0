---------------------------- MODULE MCRecompress ----------------------------
(***************************************************************************)
(* A small instance of Recompress: a whole-file gzip of two records and    *)
(* one that breaks off after its second record, either of which a crawler  *)
(* may overwrite with any of the two or with one that is in order.  A scan *)
(* takes one target, files that are named are taken together.              *)
(***************************************************************************)
EXTENDS Recompress

MCKeys == {"k1", "k2"}
MCSources == {"whole", "cut", "split"}
MCStart == [k \in MCKeys |-> IF k = "k1" THEN "whole" ELSE "cut"]
MCMembers == [s \in MCSources |-> IF s = "split" THEN 2 ELSE 1]
MCRecords == [s \in MCSources |-> 2]
MCSize == [o \in Objects |-> (IF o.src = "cut" THEN 2 ELSE 0) + (IF o.rewritten THEN 2 ELSE 1)]
MCStem == [k \in MCKeys |-> k]
MCSalvage == [files |-> MCKeys, salvage |-> TRUE, kind |-> "write"]
MCModes == {Everything, MCSalvage,
            [files |-> {}, salvage |-> TRUE, kind |-> "dry_run"],
            [files |-> {}, salvage |-> FALSE, kind |-> "scan_only"]}
=============================================================================
