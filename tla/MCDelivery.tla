----------------------------- MODULE MCDelivery -----------------------------
(* Instances of NetworkingDelivery for TLC: a code, a notice or a report. *)
EXTENDS NetworkingDelivery, TLC

CONSTANTS o1, n1, p1, w1, w2, x1, x2

(* A bound: one delivery, and the lanes that may claim it. A fault comes   *)
(* before a notice's email begins or while a code is sent; webhooks report *)
(* on codes.                                                               *)
OneStory ==
  LET here == {d \in Rows : row[d].status # "ABSENT"}
      involved == IF here \subseteq OtpRows THEN OtpLanes ELSE Lanes \ OtpLanes
  IN  /\ Cardinality(here) <= 1
      /\ \A w \in Lanes : here = {} \/ w \notin involved =>
           lane[w] = Idle({}) /\ signal[w] = "none"
      /\ \A d \in here \ OtpRows : /\ log[d].status = "ABSENT" \/ faults = 0
                                 /\ log[d].status # "DELIVERED"
=============================================================================
