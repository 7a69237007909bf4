------------------------------- MODULE MCBook -------------------------------
(* Instances of AbstractBook for TLC: the jobs and requests of one event. *)
EXTENDS AbstractBook, TLC

CONSTANTS b1, b2, q1, q2, w1, w2, e1

OneEvent == [r \in Rows |-> e1]
OneEventAsked == [q \in Requests |-> e1]

(* A bound: two workers and their faults meet over the job of one request, *)
(* or two requests meet over the jobs of one worker without faults.        *)
OneStory ==
  Cardinality({q \in Requests : request[q] # "new"}) > 1 =>
    faults = 0 /\ phase[w2] = "idle"

(* The ids are interchangeable: the first job is b1, the first request q1. *)
InOrder ==
  /\ status[b1] = "ABSENT" => \A r \in Rows : status[r] = "ABSENT"
  /\ request[q1] = "new" => \A q \in Requests : request[q] = "new"
=============================================================================
