---------------------------- MODULE MCNetworking ----------------------------
(* Instances of NetworkingMeetings for TLC. *)
EXTENDS NetworkingMeetings, TLC
CONSTANTS p1, p2, p3, m1, m2, s1

MCStandOf == [p \in Profiles |-> IF p = p3 THEN s1 ELSE None]
MCRequests == {<<m1, p1, p2>>, <<m2, p3, p1>>}
MCMet == {{p1, p3}}
MCConfigs == {[slotDuration |-> 1, autoAssignTables |-> TRUE, blackoutSlots |-> {}],
              [slotDuration |-> 2, autoAssignTables |-> FALSE, blackoutSlots |-> {}]}

(* A bound on what happens together. p1 and p2 swipe before they ask for  *)
(* a meeting, m1. While it is the only one, at most two blocks, disabled   *)
(* tables and participants with changed access exist at a time. While      *)
(* there are two, only the access of p1, who is in both, may change, at    *)
(* most three times are proposed or accepted, and a meeting that is over    *)
(* ends the story.                                                         *)
OneStory ==
  LET mutual == {<<p1, p2>>, <<p2, p1>>}
      changed == {p \in Profiles : access[p] # "ACTIVE" \/ undo[p] # None}
      disturbed == Cardinality(blocks) + Cardinality(changed)
                   + Cardinality({t \in Tables : tables[t] # "active"})
  IN
  /\ likes \subseteq mutual /\ changed \subseteq {p1, p2} /\ blocks \subseteq mutual
  /\ disturbed <= 2 /\ Cardinality(changed) <= 1 /\ tables[s1] = "active"
  /\ disturbed > 0 \/ now > 0 \/ Exists(m1) => likes = mutual
  /\ Exists(m2) =>
       /\ Exists(m1)
       /\ disturbed = Cardinality(changed \intersect {p1})
       /\ Cardinality(agreed[m1]) + Cardinality(agreed[m2]) <= 3
       /\ \A m \in Meetings : Is(m, open \union {"CANCELLED"}) /\ meet[m].checked = {}
       /\ config.slotDuration = 1
=============================================================================
