------------------------------- MODULE MCEmail -------------------------------
(* Instances of EmailQueue for TLC. *)
EXTENDS EmailQueue, TLC

CONSTANTS m1, n1, c1, w1, w2

WorkerSymmetry == Permutations(Workers)

(* A bound: an email is sent at once, or two workers send a queued one, or *)
(* one worker sends the copy an admin made of it.                          *)
OneStory ==
  /\ \A n \in SendNowRows : status[n] # "ABSENT" => \A r \in Rows \ {n} : status[r] = "ABSENT"
  /\ \A c \in CopyRows : status[c] # "ABSENT" =>
        /\ Cardinality({w \in Workers : phase[w] # "idle"}) <= 1
        /\ faults <= 1 /\ \A r \in Rows : hook[r] = {}
=============================================================================
