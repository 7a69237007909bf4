------------------------------ MODULE MCOutbox ------------------------------
(* An instance of Outbox for TLC. *)
EXTENDS Outbox, TLC

CONSTANTS r1, r2, r3, w1, w2, k1

(* Two background rows with the same dedupe key and an unkeyed one *)
SharedKey == [r \in Rows |-> IF r = r3 THEN NoKey ELSE k1]

(* A bound: two workers and their faults meet over the unkeyed row, or one *)
(* worker's two lanes work off a keyed row and the unkeyed one while at    *)
(* most one fault comes. An operator requeues the unkeyed row when it is   *)
(* alone and met no fault; a keyed row is attempted again when it is alone *)
(* and met no fault.                                                       *)
OneStory ==
  LET keyed == \E r \in Rows \ {r3} : status[r] # "ABSENT"
      Alone(r) == \A q \in Rows \ {r} : status[q] \in {"ABSENT", "DELETED"}
  IN  /\ keyed => /\ faults <= 1 /\ phase[w1] = "idle"
                  /\ \A r \in Rows : /\ requeues[r] = 0
                                     /\ attempts[r] > 1 => Alone(r) /\ faults = 0
      /\ \A r \in Rows : requeues[r] > 0 => faults = 0
=============================================================================
