--------------------------- MODULE MCCollections ---------------------------
(***************************************************************************)
(* A small instance of Collections: two collections over one bucket, the   *)
(* first narrowed by a pattern and with a size limit, one that is          *)
(* misconfigured and one without Tika.                                     *)
(***************************************************************************)
EXTENDS Collections

MCObjs == {"a", "b", "c", "d"}
MCKey == [o \in MCObjs |-> o]
MCUsual == [usable |-> TRUE, under |-> {"a", "b"}, mine |-> {"a", "b"}, tika |-> TRUE,
            large |-> TRUE, store_text |-> TRUE]
MCColls == <<[MCUsual EXCEPT !.mine = {"a"}, !.large = FALSE],
             [MCUsual EXCEPT !.usable = FALSE],
             [MCUsual EXCEPT !.store_text = FALSE],
             [MCUsual EXCEPT !.under = {"c", "d"}, !.mine = {"c", "d"}, !.tika = FALSE]>>
MCText == [o \in MCObjs |-> [v \in Versions |->
             CASE o = "a" /\ v = 2 -> "noise"
               [] o = "b" /\ v = 1 -> "large"
               [] o = "b" /\ v = 2 -> "none"
               [] OTHER -> "text"]]
=============================================================================
