------------------------------ MODULE JobLife -------------------------------
(***************************************************************************)
(* What the OCR cache promises of each content digest, seen from outside   *)
(* (crates/tywb/src/ocr_cache.rs, module comment): a digest that was       *)
(* queued once is pending, answered or parked from then on; an answer is   *)
(* final, a parked digest may be queued again, and nothing is forgotten.   *)
(***************************************************************************)
CONSTANT Digests
VARIABLE status   \* status[d]

Stages == {"unknown", "pending", "answered", "parked"}

Init == status = [d \in Digests |-> "unknown"]

Move(d, from, to) ==
  /\ status[d] \in from
  /\ status' = [status EXCEPT ![d] = to]

Queue(d) == Move(d, {"unknown", "parked"}, "pending")
Answer(d) == Move(d, {"pending"}, "answered")
Park(d) == Move(d, {"pending"}, "parked")

Next == \E d \in Digests : Queue(d) \/ Answer(d) \/ Park(d)

Spec == Init /\ [][Next]_status
=============================================================================
