---------------------------- MODULE MCSettlement ----------------------------
(* Instances of the settlement: registrations contending for one place,    *)
(* and one registration whose price, payment and sponsorships change.      *)
EXTENDS Settlement, TLC

CONSTANTS a1, a2

OnePlace == [i \in Items |-> 1]
Prices == [i \in Items |-> IF i = a1 THEN 1 ELSE 2]
OneAnswer == {[base |-> 1, options |-> 0]}
TwoAnswers == {[base |-> 0, options |-> 0], [base |-> 2, options |-> 1]}
ItemOrAll == {[base |-> FALSE, items |-> {a1}], [base |-> TRUE, items |-> Items]}
Swaps == Permutations(Regs) \union Permutations(Spons)

(* A bound: two registrations that are pending or sponsored share one      *)
(* sponsorship and contend for its place, or one registration changes its  *)
(* price and its payment, or one that has paid nothing is linked to two    *)
(* sponsorships. One registration alone has a drop to work off only while  *)
(* the item is full.                                                       *)
OneStory ==
  LET here == {r \in Regs : Exists(r)}
      live == {c \in Spons : SponsorshipExists(c)}
  IN  /\ Cardinality(live) > 1 =>
           /\ \A c \in live : spons[c].status # "CANCELLED"
           /\ \A r \in here : reg[r].paid = 0
      /\ Cardinality(here) <= 1 => \A i \in drops : paidCount[i] >= Capacity[i]
      /\ Cardinality(here) > 1 =>
           /\ Cardinality(live) <= 1
           /\ \A r \in here : /\ reg[r].ans = [base |-> 0, options |-> 0] /\ reg[r].paid = 0
                              /\ reg[r].status \in {"PENDING", "SPONSORED"}
=============================================================================
