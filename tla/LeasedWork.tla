----------------------------- MODULE LeasedWork -----------------------------
(***************************************************************************)
(* What a lease queue promises, whatever its tables and workers look like: *)
(* an item of work has at most one holder; only the holder finishes it,    *)
(* gives it up or gives it back; only an overdue item is taken away from   *)
(* its holder; finished work is never held again.                          *)
(***************************************************************************)
CONSTANTS Items, Holders, None

VARIABLES state,     \* of each item
          holder,    \* who holds it
          overdue    \* held for longer than its lease

workVars == <<state, holder, overdue>>

States == {"absent", "waiting", "held", "done", "dead", "gone"}

WorkInit ==
  /\ state = [i \in Items |-> "absent"]
  /\ holder = [i \in Items |-> None]
  /\ overdue = [i \in Items |-> FALSE]

Moved(S, to, h) ==
  /\ state' = [i \in Items |-> IF i \in S THEN to ELSE state[i]]
  /\ holder' = [i \in Items |-> IF i \in S THEN h ELSE holder[i]]
  /\ overdue' = [i \in Items |-> IF i \in S THEN FALSE ELSE overdue[i]]

Holds(h, S) == \A i \in S : state[i] = "held" /\ holder[i] = h

Add(S) == (\A i \in S : state[i] = "absent") /\ Moved(S, "waiting", None)

Take(h, S) == (\A i \in S : state[i] = "waiting") /\ Moved(S, "held", h)

(* The holder ends its hold, whatever becomes of the item. *)
End(h, S, to) == Holds(h, S) /\ Moved(S, to, None)

Renew(h, S) == Holds(h, S) /\ Moved(S, "held", h)

RunLate(i) ==
  /\ state[i] = "held"
  /\ overdue' = [overdue EXCEPT ![i] = TRUE]
  /\ UNCHANGED <<state, holder>>

TakeAway(S, to) ==
  /\ \A i \in S : state[i] = "held" /\ overdue[i]
  /\ Moved(S, to, None)

Revive(S) == (\A i \in S : state[i] = "dead") /\ Moved(S, "waiting", None)

Discard(S) == (\A i \in S : state[i] \notin {"absent", "held"}) /\ Moved(S, "gone", None)

WorkNext ==
  \/ \E S \in SUBSET Items : Add(S) \/ Revive(S) \/ Discard(S)
  \/ \E h \in Holders, S \in SUBSET Items : Take(h, S) \/ Renew(h, S)
  \/ \E h \in Holders, S \in SUBSET Items, to \in {"waiting", "done", "dead"} : End(h, S, to)
  \/ \E S \in SUBSET Items, to \in {"waiting", "dead"} : TakeAway(S, to)
  \/ \E i \in Items : RunLate(i)

WorkSpec == WorkInit /\ [][WorkNext]_workVars
=============================================================================
