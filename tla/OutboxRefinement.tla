-------------------------- MODULE OutboxRefinement --------------------------
(***************************************************************************)
(* The outbox implements LeasedWork: every step of Outbox, seen through    *)
(* WorkState, is a step of WorkNext or leaves the abstract state alone.    *)
(* A step changes the table by one statement (EveryStepIsATableStep), and  *)
(* each statement is matched with the abstract action on the rows it hits. *)
(***************************************************************************)
EXTENDS OutboxProofs

USE NobodyIsNoWorker, RunLeasedConstants, OutboxConstants

LEMMA WorkStates ==
  ASSUME TableTypeOK, NEW r \in Rows
  PROVE  /\ status[r] = "ABSENT" => WorkState(r) = "absent"
         /\ status[r] = "DELETED" => WorkState(r) = "gone"
         /\ status[r] \in Queued => WorkState(r) = "waiting"
         /\ status[r] = "PROCESSING" => WorkState(r) = "held"
         /\ status[r] \in Finished => WorkState(r) = "done"
         /\ status[r] = "DEAD_LETTERED" => WorkState(r) = "dead"
  BY DEF WorkState, Queued, Finished

LEMMA WorkStatesNext ==
  ASSUME TableTypeOK', NEW r \in Rows
  PROVE  /\ status'[r] = "ABSENT" => WorkState(r)' = "absent"
         /\ status'[r] = "DELETED" => WorkState(r)' = "gone"
         /\ status'[r] \in Queued => WorkState(r)' = "waiting"
         /\ status'[r] = "PROCESSING" => WorkState(r)' = "held"
         /\ status'[r] \in Finished => WorkState(r)' = "done"
         /\ status'[r] = "DEAD_LETTERED" => WorkState(r)' = "dead"
  BY DEF WorkState, Queued, Finished

LEMMA SameState ==
  ASSUME NEW r \in Rows, status'[r] = status[r]
  PROVE  WorkState(r)' = WorkState(r)
  BY DEF WorkState

(* The abstract step that moves the rows of S, from the rows it hits. *)
LEMMA MovedRows ==
  ASSUME TableTypeOK, TableTypeOK', NEW S \in SUBSET Rows, NEW to, NEW h,
         \A q \in S : WorkState(q)' = to /\ lockedBy'[q] = h /\ expired'[q] = FALSE,
         \A q \in Rows \ S : status'[q] = status[q] /\ lockedBy'[q] = lockedBy[q] /\ expired'[q] = expired[q]
  PROVE  Work!Moved(S, to, h)
<1>1. \A q \in Rows \ S : WorkState(q)' = WorkState(q)
  BY SameState
<1>2. [r \in Rows |-> WorkState(r)]' = [i \in Rows |-> IF i \in S THEN to ELSE [r \in Rows |-> WorkState(r)][i]]
  BY <1>1
<1>3. lockedBy' = [i \in Rows |-> IF i \in S THEN h ELSE lockedBy[i]]
  BY DEF TableTypeOK
<1>4. expired' = [i \in Rows |-> IF i \in S THEN FALSE ELSE expired[i]]
  BY DEF TableTypeOK
<1>5. QED BY <1>2, <1>3, <1>4 DEF Work!Moved

AbstractStep == Work!WorkNext \/ UNCHANGED Work!workVars

(* A statement that hits no row changes nothing abstract. *)
LEMMA SameTable ==
  ASSUME UNCHANGED <<status, lockedBy, expired>>
  PROVE  UNCHANGED Work!workVars
<1>1. [r \in Rows |-> WorkState(r)]' = [r \in Rows |-> WorkState(r)]
  BY DEF WorkState
<1>2. QED BY <1>1 DEF Work!workVars

LEMMA StepRefines ==
  ASSUME TableInv, TableInv', TableStep
  PROVE  AbstractStep
<1>0. TableTypeOK /\ TableTypeOK'
  BY DEF TableInv
<1> DEFINE st == [r \in Rows |-> WorkState(r)]
<1>00. \A q \in Rows : /\ status[q] # "PROCESSING" => lockedBy[q] = Nobody /\ expired[q] = FALSE
                       /\ st[q] = WorkState(q)
  BY DEF TableInv, RowOK, TableTypeOK
<1>1. CASE UNCHANGED leaseVars
  BY <1>1, SameTable DEF leaseVars, AbstractStep
<1>2. ASSUME NEW r \in Rows, Enqueue(r)
      PROVE  AbstractStep
  <2>1. /\ status[r] = "ABSENT" /\ status'[r] = "PENDING"
        /\ \A q \in Rows \ {r} : status'[q] = status[q]
        /\ UNCHANGED <<lockedBy, expired>>
    BY <1>0, <1>2 DEF Enqueue, TableTypeOK
  <2>2. WorkState(r) = "absent" /\ WorkState(r)' = "waiting"
    BY <1>0, <2>1, WorkStates, WorkStatesNext DEF Queued
  <2>3. Work!Moved({r}, "waiting", Nobody)
    BY <1>0, <1>00, <2>1, <2>2, MovedRows
  <2>4. Work!Add({r})
    BY <1>00, <2>2, <2>3 DEF Work!Add
  <2>5. {r} \in SUBSET Rows
    OBVIOUS
  <2>6. QED BY <2>4, <2>5 DEF Work!WorkNext, AbstractStep
<1>3. ASSUME NEW r \in Rows, Delete(r)
      PROVE  AbstractStep
  <2>1. /\ status[r] \notin {"ABSENT", "PROCESSING"} /\ status'[r] = "DELETED"
        /\ \A q \in Rows \ {r} : status'[q] = status[q]
        /\ UNCHANGED <<lockedBy, expired>>
    BY <1>0, <1>3 DEF Delete, Expirable, Present, Finished, TableTypeOK
  <2>2. WorkState(r)' = "gone"
    BY <1>0, <2>1, WorkStatesNext
  <2>3. WorkState(r) \notin {"absent", "held"}
    BY <1>0, <2>1, WorkStates DEF TableTypeOK, Statuses
  <2>4. Work!Moved({r}, "gone", Nobody)
    BY <1>0, <1>00, <2>1, <2>2, MovedRows
  <2>5. Work!Discard({r})
    BY <1>00, <2>3, <2>4 DEF Work!Discard
  <2>6. {r} \in SUBSET Rows
    OBVIOUS
  <2>7. QED BY <2>5, <2>6 DEF Work!WorkNext, AbstractStep
<1>4. ASSUME NEW r \in Rows, RequeueDeadLetter(r)
      PROVE  AbstractStep
  <2>1. /\ status[r] = "DEAD_LETTERED" /\ status'[r] = "PENDING"
        /\ \A q \in Rows \ {r} : status'[q] = status[q]
        /\ UNCHANGED <<lockedBy, expired>>
    BY <1>0, <1>4 DEF RequeueDeadLetter, TableTypeOK
  <2>2. WorkState(r) = "dead" /\ WorkState(r)' = "waiting"
    BY <1>0, <2>1, WorkStates, WorkStatesNext DEF Queued
  <2>3. Work!Moved({r}, "waiting", Nobody)
    BY <1>0, <1>00, <2>1, <2>2, MovedRows
  <2>4. Work!Revive({r})
    BY <1>00, <2>2, <2>3 DEF Work!Revive
  <2>5. {r} \in SUBSET Rows
    OBVIOUS
  <2>6. QED BY <2>4, <2>5 DEF Work!WorkNext, AbstractStep
<1>5. ASSUME NEW r \in Rows, LeaseRunsOut(r) \/ BecomesDue(r)
      PROVE  AbstractStep
  <2>1. CASE BecomesDue(r)
    BY <2>1, SameTable DEF BecomesDue, AbstractStep
  <2>2. CASE LeaseRunsOut(r)
    <3>1. WorkState(r) = "held"
      BY <1>0, <2>2, WorkStates DEF LeaseRunsOut, Leased
    <3>2. st' = st
      BY <2>2 DEF LeaseRunsOut, WorkState
    <3>3. Work!RunLate(r)
      BY <1>00, <2>2, <3>1, <3>2 DEF LeaseRunsOut, Work!RunLate
    <3>4. QED BY <3>3 DEF Work!WorkNext, AbstractStep
  <2>3. QED BY <1>5, <2>1, <2>2
<1>6. ASSUME NEW w \in Workers, NEW S \in SUBSET {r \in Rows : Claimable(w, r)}, ClaimSql(w, S)
      PROVE  AbstractStep
  <2>1. /\ \A q \in Rows \ S : Kept(q)
        /\ \A q \in S : status'[q] = "PROCESSING" /\ lockedBy'[q] = w /\ ~expired'[q]
    BY <1>0, <1>6, ClaimEffect
  <2>2. \A q \in S : WorkState(q) = "waiting" /\ WorkState(q)' = "held"
    BY <1>0, <2>1, WorkStates, WorkStatesNext DEF Claimable
  <2>3. Work!Moved(S, "held", w)
    BY <1>0, <2>1, <2>2, MovedRows DEF Kept, TableTypeOK
  <2>4. Work!Take(w, S)
    BY <1>00, <2>2, <2>3 DEF Work!Take
  <2>5. QED BY <2>4 DEF Work!WorkNext, AbstractStep
<1>7. ASSUME NEW w \in Workers, NEW S \in SUBSET Rows, RenewSql(w, S)
      PROVE  AbstractStep
  <2> DEFINE hit == {q \in S : Owned(w, q)}
  <2>1. /\ UNCHANGED <<status, lockedBy>>
        /\ \A q \in hit : ~expired'[q]
        /\ \A q \in Rows \ hit : expired'[q] = expired[q]
    BY <1>0, <1>7, RenewEffect
  <2>2. \A q \in hit : status[q] = "PROCESSING" /\ lockedBy[q] = w
    BY DEF Owned, Leased
  <2>3. \A q \in hit : WorkState(q) = "held" /\ WorkState(q)' = "held"
    BY <1>0, <2>1, <2>2, WorkStates, WorkStatesNext
  <2>4. Work!Moved(hit, "held", w)
    BY <1>0, <2>1, <2>2, <2>3, MovedRows DEF TableTypeOK
  <2>5. Work!Renew(w, hit)
    BY <1>00, <2>2, <2>3, <2>4 DEF Work!Renew, Work!Holds
  <2>6. hit \in SUBSET Rows
    OBVIOUS
  <2>7. QED BY <2>5, <2>6 DEF Work!WorkNext, AbstractStep
<1>8. ASSUME NEW w \in Workers, NEW hit \in SUBSET Rows, NEW to \in {"waiting", "done", "dead"},
             \A q \in hit : /\ Owned(w, q) /\ WorkState(q)' = to
                            /\ lockedBy'[q] = Nobody /\ ~expired'[q],
             \A q \in Rows \ hit : Kept(q)
      PROVE  AbstractStep
  <2>1. \A q \in hit : WorkState(q) = "held" /\ lockedBy[q] = w
    BY <1>0, <1>8, WorkStates DEF Owned, Leased
  <2>2. Work!Moved(hit, to, Nobody)
    BY <1>0, <1>8, MovedRows DEF Kept, TableTypeOK
  <2>3. Work!End(w, hit, to)
    BY <1>00, <2>1, <2>2 DEF Work!End, Work!Holds
  <2>4. QED BY <2>3 DEF Work!WorkNext, AbstractStep
<1>9. ASSUME NEW w \in Workers, NEW r \in Rows, NEW d \in BOOLEAN,
             NEW s \in Finished \cup {FailedStatus(r)}, FinishSql(w, r, s, d)
      PROVE  AbstractStep
  <2>1. s \in Statuses /\ s \in Finished \cup {"FAILED", "DEAD_LETTERED"}
    BY DEF FailedStatus, Statuses, Queued
  <2>2. /\ \A q \in Rows : ~(q = r /\ Owned(w, q)) => Kept(q)
        /\ Owned(w, r) => status'[r] = s /\ lockedBy'[r] = Nobody /\ ~expired'[r]
    BY <1>0, <1>9, <2>1, FinishEffect
  <2>3. CASE Owned(w, r)
    <3>1. PICK to \in {"waiting", "done", "dead"} : WorkState(r)' = to
      BY <1>0, <2>1, <2>2, <2>3, WorkStatesNext DEF Queued
    <3>2. {r} \in SUBSET Rows
      OBVIOUS
    <3>3. \A q \in {r} : /\ Owned(w, q) /\ WorkState(q)' = to
                         /\ lockedBy'[q] = Nobody /\ ~expired'[q]
      BY <2>2, <2>3, <3>1
    <3>4. \A q \in Rows \ {r} : Kept(q)
      BY <2>2
    <3>5. QED BY <1>8, <3>1, <3>2, <3>3, <3>4
  <2>4. CASE ~Owned(w, r)
    <3>1. \A q \in Rows : Kept(q)
      BY <2>2, <2>4
    <3>2. UNCHANGED <<status, lockedBy, expired>>
      BY <1>0, <3>1 DEF Kept, TableTypeOK
    <3>3. QED BY <3>2, SameTable DEF AbstractStep
  <2>5. QED BY <2>3, <2>4
<1>10. ASSUME NEW w \in Workers, NEW S \in SUBSET Rows, ReleaseSql(w, S, ReleaseStatus)
       PROVE  AbstractStep
  <2> DEFINE hit == {q \in S : Owned(w, q)}
  <2>1. /\ \A q \in Rows \ hit : Kept(q)
        /\ \A q \in hit : status'[q] = ReleaseStatus[q] /\ lockedBy'[q] = Nobody /\ ~expired'[q]
    BY <1>0, <1>10, ReleaseEffect
  <2>2. \A q \in hit : WorkState(q)' = "waiting"
    BY <1>0, <2>1, WorkStatesNext DEF ReleaseStatus, Queued
  <2>3. hit \in SUBSET Rows /\ \A q \in hit : Owned(w, q)
    OBVIOUS
  <2>4. QED BY <1>8, <2>1, <2>2, <2>3
<1>11. ASSUME NEW hit \in SUBSET Rows, NEW to \in {"waiting", "dead"},
              \A q \in hit : /\ Stale(q) /\ WorkState(q)' = to
                             /\ lockedBy'[q] = Nobody /\ ~expired'[q],
              \A q \in Rows \ hit : Kept(q)
       PROVE  AbstractStep
  <2>1. \A q \in hit : WorkState(q) = "held" /\ expired[q]
    BY <1>0, <1>11, WorkStates DEF Stale, Leased
  <2>2. Work!Moved(hit, to, Nobody)
    BY <1>0, <1>11, MovedRows DEF Kept, TableTypeOK
  <2>3. Work!TakeAway(hit, to)
    BY <1>00, <2>1, <2>2 DEF Work!TakeAway
  <2>4. QED BY <2>3 DEF Work!WorkNext, AbstractStep
<1>12. CASE RecoverSql(Rows \ Exhausted, "FAILED", TRUE)
  <2> DEFINE hit == {q \in Rows : Stale(q) /\ ~LastAttempt(q)}
  <2>1. /\ \A q \in Rows \ hit : Kept(q)
        /\ \A q \in hit : status'[q] = "FAILED" /\ lockedBy'[q] = Nobody /\ ~expired'[q]
    BY <1>0, <1>12, RequeueEffect
  <2>2. \A q \in hit : WorkState(q)' = "waiting"
    BY <1>0, <2>1, WorkStatesNext DEF Queued
  <2>3. hit \in SUBSET Rows /\ \A q \in hit : Stale(q)
    OBVIOUS
  <2>4. QED BY <1>11, <2>1, <2>2, <2>3
<1>13. CASE RecoverSql(Exhausted, "DEAD_LETTERED", TRUE)
  <2> DEFINE hit == {q \in Rows : Stale(q) /\ LastAttempt(q)}
  <2>1. /\ \A q \in Rows \ hit : Kept(q)
        /\ \A q \in hit : status'[q] = "DEAD_LETTERED" /\ lockedBy'[q] = Nobody /\ ~expired'[q]
    BY <1>0, <1>13, DeadLetterEffect
  <2>2. \A q \in hit : WorkState(q)' = "dead"
    BY <1>0, <2>1, WorkStatesNext
  <2>3. hit \in SUBSET Rows /\ \A q \in hit : Stale(q)
    OBVIOUS
  <2>4. QED BY <1>11, <2>1, <2>2, <2>3
<1>14. QED
  BY <1>1, <1>2, <1>3, <1>4, <1>5, <1>6, <1>7, <1>9, <1>10, <1>12, <1>13 DEF TableStep

(* The outbox keeps the promise of LeasedWork: one holder at a time, only  *)
(* the holder ends its hold before the lease is overdue, and finished work *)
(* is never held again.                                                    *)
THEOREM OutboxImplementsLeasedWork == Spec => ImplementsLeasedWork
<1>1. Init => Work!WorkInit
  <2>1. SUFFICES ASSUME Init PROVE Work!WorkInit
    OBVIOUS
  <2>2. \A r \in Rows : status[r] = "ABSENT"
    BY <2>1 DEF Init
  <2>3. \A r \in Rows : WorkState(r) = "absent"
    BY <2>1, <2>2, Initially, WorkStates DEF IInv, TableInv
  <2>4. [r \in Rows |-> WorkState(r)] = [i \in Rows |-> "absent"]
    BY <2>3
  <2>5. QED BY <2>1, <2>4 DEF Init, Work!WorkInit
<1>2. IInv /\ IInv' /\ [Next]_vars => [Work!WorkNext]_(Work!workVars)
  <2>1. SUFFICES ASSUME IInv, IInv', [Next]_vars
                 PROVE  AbstractStep
    BY DEF AbstractStep
  <2>2. QED BY <2>1, EveryStepIsATableStep, StepRefines DEF IInv
<1>3. QED BY <1>1, <1>2, InvariantHolds, PTL DEF Spec, ImplementsLeasedWork, Work!WorkSpec
=============================================================================
