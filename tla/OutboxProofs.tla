---------------------------- MODULE OutboxProofs ----------------------------
(***************************************************************************)
(* Proofs about Outbox, for every set of rows and workers, every batch     *)
(* size, number of lanes, attempt limit and number of faults.              *)
(*                                                                         *)
(* The argument has two levels.  A step of the system changes the table by *)
(* one of the statements of LeaseQueue (EveryStepIsATableStep), so what is *)
(* said of the table alone is proved statement by statement.  What relates *)
(* the table to the workers' memory (NoLeakedLease) is proved action by    *)
(* action.                                                                 *)
(***************************************************************************)
EXTENDS Outbox, FiniteSetTheorems, TLAPS

USE NobodyIsNoWorker, RunLeasedConstants, OutboxConstants

TableTypeOK ==
  /\ status \in [Rows -> Statuses]
  /\ attempts \in [Rows -> Nat]
  /\ due \in [Rows -> BOOLEAN]
  /\ lockedBy \in [Rows -> Workers \cup {Nobody}]
  /\ expired \in [Rows -> BOOLEAN]

-----------------------------------------------------------------------------
(* What each statement does to a row, and that it keeps the columns' types. *)

(* The row q is as it was, but for its retry time. *)
Kept(q) ==
  /\ status'[q] = status[q] /\ attempts'[q] = attempts[q]
  /\ lockedBy'[q] = lockedBy[q] /\ expired'[q] = expired[q]

(* The claim UPDATE. *)
LEMMA ClaimEffect ==
  ASSUME TableTypeOK, NEW w \in Workers, NEW S \in SUBSET Rows, ClaimSql(w, S)
  PROVE  /\ TableTypeOK'
         /\ \A q \in Rows \ S : Kept(q)
         /\ \A q \in S : /\ status'[q] = "PROCESSING" /\ lockedBy'[q] = w
                         /\ attempts'[q] = attempts[q] + 1 /\ ~expired'[q]
<1>1. status' \in [Rows -> Statuses]
  BY DEF ClaimSql, Set, TableTypeOK, Statuses
<1>2. attempts' \in [Rows -> Nat]
  BY DEF ClaimSql, Set, TableTypeOK
<1>3. lockedBy' \in [Rows -> Workers \cup {Nobody}] /\ expired' \in [Rows -> BOOLEAN]
  BY DEF ClaimSql, Set, TableTypeOK
<1>4. due' \in [Rows -> BOOLEAN]
  BY DEF ClaimSql, TableTypeOK
<1>5. QED
  BY <1>1, <1>2, <1>3, <1>4 DEF ClaimSql, Set, TableTypeOK, Kept

(* The renewal and the confirm. *)
LEMMA RenewEffect ==
  ASSUME TableTypeOK, NEW w \in Workers, NEW S \in SUBSET Rows, RenewSql(w, S)
  PROVE  /\ TableTypeOK' /\ UNCHANGED <<status, attempts, lockedBy>>
         /\ \A q \in S : Owned(w, q) => ~expired'[q]
         /\ \A q \in Rows : ~(q \in S /\ Owned(w, q)) => expired'[q] = expired[q]
  BY DEF RenewSql, Set, TableTypeOK, OwnedOf

(* The terminal writes. *)
LEMMA FinishEffect ==
  ASSUME TableTypeOK, NEW w \in Workers, NEW r \in Rows, NEW s \in Statuses, NEW d \in BOOLEAN,
         FinishSql(w, r, s, d)
  PROVE  /\ TableTypeOK'
         /\ \A q \in Rows : ~(q = r /\ Owned(w, q)) => Kept(q)
         /\ Owned(w, r) => /\ status'[r] = s /\ lockedBy'[r] = Nobody
                           /\ attempts'[r] = attempts[r] /\ ~expired'[r]
<1>1. status' \in [Rows -> Statuses] /\ due' \in [Rows -> BOOLEAN]
  BY DEF FinishSql, Set, TableTypeOK
<1>2. lockedBy' \in [Rows -> Workers \cup {Nobody}] /\ expired' \in [Rows -> BOOLEAN]
  BY DEF FinishSql, Set, TableTypeOK, ClearLease
<1>3. attempts' \in [Rows -> Nat]
  BY DEF FinishSql, TableTypeOK
<1>4. QED
  BY <1>1, <1>2, <1>3 DEF FinishSql, Set, TableTypeOK, ClearLease, OwnedOf, Kept

(* The release of a batch. *)
LEMMA ReleaseEffect ==
  ASSUME TableTypeOK, NEW w \in Workers, NEW S \in SUBSET Rows, ReleaseSql(w, S, ReleaseStatus)
  PROVE  /\ TableTypeOK'
         /\ \A q \in Rows : ~(q \in S /\ Owned(w, q)) => Kept(q)
         /\ \A q \in S : Owned(w, q) =>
              /\ status'[q] = ReleaseStatus[q] /\ lockedBy'[q] = Nobody /\ ~expired'[q]
              /\ attempts'[q] = IF attempts[q] = 0 THEN 0 ELSE attempts[q] - 1
<1>1. status' \in [Rows -> Statuses]
  BY DEF ReleaseSql, Set, TableTypeOK, ReleaseStatus, Statuses, Queued
<1>2. attempts' \in [Rows -> Nat]
  BY DEF ReleaseSql, Set, TableTypeOK
<1>3. lockedBy' \in [Rows -> Workers \cup {Nobody}] /\ expired' \in [Rows -> BOOLEAN]
  BY DEF ReleaseSql, Set, TableTypeOK, ClearLease
<1>4. due' \in [Rows -> BOOLEAN]
  BY DEF ReleaseSql, Set, TableTypeOK
<1>5. QED
  BY <1>1, <1>2, <1>3, <1>4 DEF ReleaseSql, Set, TableTypeOK, ClearLease, OwnedOf, Kept

(* The two UPDATEs of recovery. *)
LEMMA RequeueEffect ==
  ASSUME TableTypeOK, RecoverSql(Rows \ Exhausted, "FAILED", TRUE)
  PROVE  /\ TableTypeOK' /\ attempts' = attempts
         /\ \A q \in Rows : ~(Stale(q) /\ ~LastAttempt(q)) => Kept(q)
         /\ \A q \in Rows : Stale(q) /\ ~LastAttempt(q) =>
              status'[q] = "FAILED" /\ lockedBy'[q] = Nobody /\ ~expired'[q]
<1>1. status' \in [Rows -> Statuses] /\ due' \in [Rows -> BOOLEAN]
  BY DEF RecoverSql, Exhausted, Set, TableTypeOK, Statuses, Queued
<1>2. lockedBy' \in [Rows -> Workers \cup {Nobody}] /\ expired' \in [Rows -> BOOLEAN]
  BY DEF RecoverSql, Exhausted, Set, TableTypeOK, ClearLease
<1>3. attempts' \in [Rows -> Nat] /\ attempts' = attempts
  BY DEF RecoverSql, Exhausted, TableTypeOK
<1>4. QED
  BY <1>1, <1>2, <1>3 DEF RecoverSql, Exhausted, Set, TableTypeOK, ClearLease, Kept

LEMMA DeadLetterEffect ==
  ASSUME TableTypeOK, RecoverSql(Exhausted, "DEAD_LETTERED", TRUE)
  PROVE  /\ TableTypeOK' /\ attempts' = attempts
         /\ \A q \in Rows : ~(Stale(q) /\ LastAttempt(q)) => Kept(q)
         /\ \A q \in Rows : Stale(q) /\ LastAttempt(q) =>
              status'[q] = "DEAD_LETTERED" /\ lockedBy'[q] = Nobody /\ ~expired'[q]
<1>1. status' \in [Rows -> Statuses] /\ due' \in [Rows -> BOOLEAN]
  BY DEF RecoverSql, Exhausted, Set, TableTypeOK, Statuses, Queued
<1>2. lockedBy' \in [Rows -> Workers \cup {Nobody}] /\ expired' \in [Rows -> BOOLEAN]
  BY DEF RecoverSql, Exhausted, Set, TableTypeOK, ClearLease
<1>3. attempts' \in [Rows -> Nat] /\ attempts' = attempts
  BY DEF RecoverSql, Exhausted, TableTypeOK
<1>4. QED
  BY <1>1, <1>2, <1>3 DEF RecoverSql, Exhausted, Set, TableTypeOK, ClearLease, Kept

-----------------------------------------------------------------------------
(* A step of the system, seen from the table. *)
TableStep ==
  \/ UNCHANGED leaseVars
  \/ \E r \in Rows : Enqueue(r) \/ Delete(r) \/ RequeueDeadLetter(r)
  \/ \E r \in Rows : LeaseRunsOut(r) \/ BecomesDue(r)
  \/ \E w \in Workers : \E S \in SUBSET {r \in Rows : Claimable(w, r)} : ClaimSql(w, S)
  \/ \E w \in Workers, S \in SUBSET Rows : RenewSql(w, S)
  \/ \E w \in Workers, r \in Rows, d \in BOOLEAN :
       \E s \in Finished \cup {FailedStatus(r)} : FinishSql(w, r, s, d)
  \/ \E w \in Workers, S \in SUBSET Rows : ReleaseSql(w, S, ReleaseStatus)
  \/ RecoverSql(Rows \ Exhausted, "FAILED", TRUE)
  \/ RecoverSql(Exhausted, "DEAD_LETTERED", TRUE)

(* Whatever the workers, the recovery job, retention and the operator do,  *)
(* the table changes by one statement of the queue at a time.              *)
LEMMA EveryStepIsATableStep ==
  ASSUME TypeOK, [Next]_vars
  PROVE  TableStep
<1>1. CASE UNCHANGED vars
  BY <1>1 DEF vars, TableStep
<1>2. CASE \E r \in Rows : Enqueue(r) \/ Clock(r) \/ Delete(r) \/ Compact(r) \/ RequeueDeadLetter(r)
  <2>1. PICK r \in Rows : Enqueue(r) \/ Clock(r) \/ Delete(r) \/ Compact(r) \/ RequeueDeadLetter(r)
    BY <1>2
  <2>2. CASE Enqueue(r) \/ Delete(r) \/ RequeueDeadLetter(r)
    BY <2>2 DEF TableStep
  <2>3. CASE Clock(r)
    BY <2>3 DEF Clock, TableStep
  <2>4. CASE Compact(r)
    BY <2>4 DEF Compact, TableStep
  <2>5. QED BY <2>1, <2>2, <2>3, <2>4
<1>3. CASE \E w \in Workers : Claim(w) \/ ClaimLost(w) \/ RunStep(w) \/ CloseBatch(w) \/ CloseBatchError(w)
  <2>1. PICK w \in Workers : Claim(w) \/ ClaimLost(w) \/ RunStep(w) \/ CloseBatch(w) \/ CloseBatchError(w)
    BY <1>3
  <2>2. CASE Claim(w) \/ ClaimLost(w)
    BY <2>2 DEF Claim, ClaimLost, OpenBatch, ClaimAnswerLost, TableStep
  <2>3. CASE RunStep(w)
    <3>1. unfinished[w] \in SUBSET Rows
      BY DEF TypeOK, WorkerTypeOK
    <3>2. UNCHANGED leaseVars \/ RenewSql(w, unfinished[w])
      BY <2>3 DEF RunStep, Load, LoadError, Beat, BeatAnswer, BeatError, LanesEnd, Timeout,
                  NextTick, Shutdown, Crash
    <3>3. QED BY <3>1, <3>2 DEF TableStep
  <2>4. CASE CloseBatch(w) \/ CloseBatchError(w)
    <3>1. unfinished[w] \cap Rows \in SUBSET Rows
      OBVIOUS
    <3>2. UNCHANGED leaseVars \/ ReleaseSql(w, unfinished[w] \cap Rows, ReleaseStatus)
      BY <2>4 DEF CloseBatch, CloseBatchError, Close, CloseError
    <3>3. QED BY <3>1, <3>2 DEF TableStep
  <2>5. QED BY <2>1, <2>2, <2>3, <2>4
<1>4. CASE \E w \in Workers, r \in Rows :
             \/ RowStep(w, r) \/ BeginHandler(w, r)
             \/ CompleteRow(w, r) \/ CompleteRowError(w, r)
             \/ FailRow(w, r) \/ FailRowError(w, r)
  <2>1. PICK w \in Workers, r \in Rows :
             \/ RowStep(w, r) \/ BeginHandler(w, r)
             \/ CompleteRow(w, r) \/ CompleteRowError(w, r)
             \/ FailRow(w, r) \/ FailRowError(w, r)
    BY <1>4
  <2>2. CASE RowStep(w, r) \/ BeginHandler(w, r)
    <3>1. {r} \in SUBSET Rows
      OBVIOUS
    <3>2. UNCHANGED leaseVars \/ RenewSql(w, {r})
      BY <2>2 DEF RowStep, BeginHandler, Start, Confirm, ConfirmError, MaybeCommitted, Begin, Return, Throw
    <3>3. QED BY <3>1, <3>2 DEF TableStep
  <2>3. CASE CompleteRow(w, r) \/ CompleteRowError(w, r)
    <3>1. UNCHANGED leaseVars \/ \E s \in Finished : FinishSql(w, r, s, TRUE)
      BY <2>3 DEF CompleteRow, CompleteRowError, Complete, CompleteError, MaybeCommitted
    <3>2. QED BY <3>1 DEF TableStep
  <2>4. CASE FailRow(w, r) \/ FailRowError(w, r)
    <3>1. UNCHANGED leaseVars \/ FinishSql(w, r, FailedStatus(r), LastAttempt(r))
      BY <2>4 DEF FailRow, FailRowError, Fail, FailError
    <3>2. LastAttempt(r) \in BOOLEAN
      BY DEF LastAttempt
    <3>3. QED BY <3>1, <3>2 DEF TableStep
  <2>5. QED BY <2>1, <2>2, <2>3, <2>4
<1>5. CASE RecoverRequeue \/ RecoverDead
  BY <1>5 DEF RecoverRequeue, RecoverDead, Recover, TableStep
<1>6. QED BY <1>1, <1>2, <1>3, <1>4, <1>5 DEF Next

-----------------------------------------------------------------------------
(* The inductive invariant of the table, a conjunction over its rows, with *)
(* what relates two rows of one key.                                       *)
RowOK(r) ==
  /\ status[r] \in Queued => attempts[r] < MaxAttempts
  /\ status[r] = "PROCESSING" => attempts[r] \in 1..MaxAttempts
  /\ status[r] = "PROCESSING" <=> lockedBy[r] # Nobody
  /\ expired[r] => status[r] = "PROCESSING"
  /\ status[r] = "ABSENT" => attempts[r] = 0
  /\ KeyOf[r] # NoKey => status[r] # "DELETED"

TableInv == TableTypeOK /\ (\A r \in Rows : RowOK(r)) /\ OneRowPerKey

(* A statement that changes no row but leased, queued or finished ones     *)
(* frees no key and takes none.                                            *)
LEMMA SameRowsSameKeys ==
  ASSUME OneRowPerKey, \A q \in Rows : status[q] = "ABSENT" => status'[q] = "ABSENT"
  PROVE  OneRowPerKey'
  BY DEF OneRowPerKey

LEMMA TableInvariance ==
  ASSUME TableInv, TableStep
  PROVE  TableInv'
<1> USE DEF TableInv
<1>1. CASE UNCHANGED leaseVars
  BY <1>1 DEF leaseVars, TableTypeOK, RowOK, OneRowPerKey
<1>2. CASE \E r \in Rows : Enqueue(r)
  <2>1. PICK r \in Rows : Enqueue(r)
    BY <1>2
  <2>2. TableTypeOK'
    BY <2>1 DEF Enqueue, TableTypeOK, Statuses, Queued
  <2>3. \A q \in Rows : RowOK(q)'
    BY <2>1 DEF Enqueue, TableTypeOK, RowOK, Queued
  <2>4. OneRowPerKey'
    <3>1. SUFFICES ASSUME NEW p \in Rows, NEW q \in Rows, p # q, KeyOf[p] = KeyOf[q], KeyOf[p] # NoKey,
                          status'[p] # "ABSENT", status'[q] # "ABSENT"
                   PROVE  FALSE
      BY DEF OneRowPerKey
    <3>2. \A x \in Rows : x # r => status'[x] = status[x]
      BY <2>1 DEF Enqueue, TableTypeOK
    <3>3. \A x \in Rows : KeyOf[x] # NoKey => status[x] # "DELETED"
      BY DEF RowOK
    <3>4. KeyOf[r] = NoKey \/ \A x \in Rows : Present(x) => KeyOf[x] # KeyOf[r]
      BY <2>1 DEF Enqueue, KeyFree
    <3>5. CASE p # r /\ q # r
      BY <3>1, <3>2, <3>5 DEF OneRowPerKey
    <3>6. CASE p = r
      BY <3>1, <3>2, <3>3, <3>4, <3>6 DEF Present
    <3>7. CASE q = r
      BY <3>1, <3>2, <3>3, <3>4, <3>7 DEF Present
    <3>8. QED BY <3>5, <3>6, <3>7
  <2>5. QED BY <2>2, <2>3, <2>4
<1>3. CASE \E r \in Rows : Delete(r)
  <2>1. PICK r \in Rows : Delete(r)
    BY <1>3
  <2>2. TableTypeOK'
    BY <2>1 DEF Delete, TableTypeOK, Statuses
  <2>3. \A q \in Rows : RowOK(q)'
    BY <2>1 DEF Delete, Expirable, Present, TableTypeOK, RowOK, Queued, Finished
  <2>4. OneRowPerKey'
    BY <2>1, SameRowsSameKeys DEF Delete, Expirable, Present, TableTypeOK
  <2>5. QED BY <2>2, <2>3, <2>4
<1>4. CASE \E r \in Rows : RequeueDeadLetter(r)
  <2>1. PICK r \in Rows : RequeueDeadLetter(r)
    BY <1>4
  <2>2. TableTypeOK'
    BY <2>1 DEF RequeueDeadLetter, TableTypeOK, Statuses, Queued
  <2>3. \A q \in Rows : RowOK(q)'
    BY <2>1 DEF RequeueDeadLetter, TableTypeOK, RowOK, Queued
  <2>4. OneRowPerKey'
    BY <2>1, SameRowsSameKeys DEF RequeueDeadLetter, TableTypeOK
  <2>5. QED BY <2>2, <2>3, <2>4
<1>5. CASE \E r \in Rows : LeaseRunsOut(r) \/ BecomesDue(r)
  <2>1. PICK r \in Rows : LeaseRunsOut(r) \/ BecomesDue(r)
    BY <1>5
  <2>2. TableTypeOK' /\ UNCHANGED <<status, attempts, lockedBy>>
    BY <2>1 DEF LeaseRunsOut, BecomesDue, TableTypeOK
  <2>3. \A q \in Rows : expired'[q] => expired[q] \/ status[q] = "PROCESSING"
    BY <2>1 DEF LeaseRunsOut, BecomesDue, Leased, TableTypeOK
  <2>4. QED BY <2>2, <2>3 DEF RowOK, OneRowPerKey
<1>6. CASE \E w \in Workers : \E S \in SUBSET {r \in Rows : Claimable(w, r)} : ClaimSql(w, S)
  <2>0. PICK w \in Workers : \E S \in SUBSET {r \in Rows : Claimable(w, r)} : ClaimSql(w, S)
    BY <1>6
  <2>1. PICK S \in SUBSET {r \in Rows : Claimable(w, r)} : ClaimSql(w, S)
    BY <2>0
  <2>2. /\ TableTypeOK'
        /\ \A q \in Rows \ S : Kept(q)
        /\ \A q \in S : /\ status'[q] = "PROCESSING" /\ lockedBy'[q] = w
                        /\ attempts'[q] = attempts[q] + 1
    BY <2>1, ClaimEffect
  <2>3. \A q \in S : status[q] \in Queued /\ attempts[q] < MaxAttempts /\ attempts[q] \in Nat
    BY <2>1 DEF Claimable, TableTypeOK
  <2>4. \A q \in Rows : RowOK(q)'
    BY <2>2, <2>3 DEF Kept, RowOK, Queued
  <2>5. OneRowPerKey'
    BY <2>2, <2>3, SameRowsSameKeys DEF Kept, Queued
  <2>6. QED BY <2>2, <2>4, <2>5
<1>7. CASE \E w \in Workers, S \in SUBSET Rows : RenewSql(w, S)
  <2>1. PICK w \in Workers, S \in SUBSET Rows : RenewSql(w, S)
    BY <1>7
  <2>2. /\ TableTypeOK' /\ UNCHANGED <<status, attempts, lockedBy>>
        /\ \A q \in Rows : expired'[q] => expired[q]
    BY <2>1, RenewEffect DEF TableTypeOK
  <2>3. QED BY <2>2 DEF RowOK, OneRowPerKey
<1>8. CASE \E w \in Workers, r \in Rows, d \in BOOLEAN :
             \E s \in Finished \cup {FailedStatus(r)} : FinishSql(w, r, s, d)
  <2>0. PICK w \in Workers, r \in Rows, d \in BOOLEAN :
             \E s \in Finished \cup {FailedStatus(r)} : FinishSql(w, r, s, d)
    BY <1>8
  <2>1. PICK s \in Finished \cup {FailedStatus(r)} : FinishSql(w, r, s, d)
    BY <2>0
  <2>2. s \in Statuses /\ s \notin {"PROCESSING", "ABSENT", "DELETED", "PENDING"}
    BY DEF FailedStatus, Statuses, Finished, Queued
  <2>3. s = "FAILED" => attempts[r] < MaxAttempts
    BY DEF FailedStatus, LastAttempt, Finished, TableTypeOK
  <2>4. /\ TableTypeOK'
        /\ \A q \in Rows : ~(q = r /\ Owned(w, q)) => Kept(q)
        /\ Owned(w, r) => /\ status'[r] = s /\ lockedBy'[r] = Nobody
                          /\ attempts'[r] = attempts[r] /\ ~expired'[r]
    BY <2>1, <2>2, FinishEffect
  <2>5. \A q \in Rows : RowOK(q)'
    BY <2>2, <2>3, <2>4 DEF Kept, RowOK, Queued
  <2>6. OneRowPerKey'
    BY <2>2, <2>4, SameRowsSameKeys DEF Kept, Owned, Leased
  <2>7. QED BY <2>4, <2>5, <2>6
<1>9. CASE \E w \in Workers, S \in SUBSET Rows : ReleaseSql(w, S, ReleaseStatus)
  <2>1. PICK w \in Workers, S \in SUBSET Rows : ReleaseSql(w, S, ReleaseStatus)
    BY <1>9
  <2>2. /\ TableTypeOK'
        /\ \A q \in Rows : ~(q \in S /\ Owned(w, q)) => Kept(q)
        /\ \A q \in S : Owned(w, q) =>
             /\ status'[q] = ReleaseStatus[q] /\ lockedBy'[q] = Nobody /\ ~expired'[q]
             /\ attempts'[q] = IF attempts[q] = 0 THEN 0 ELSE attempts[q] - 1
    BY <2>1, ReleaseEffect
  <2>a. \A q \in Rows : ReleaseStatus[q] = IF attempts[q] > 1 THEN "FAILED" ELSE "PENDING"
    BY DEF ReleaseStatus
  <2>b. ASSUME NEW q \in Rows, q \in S, Owned(w, q) PROVE RowOK(q)'
    <3>1. attempts[q] \in 1..MaxAttempts
      BY <2>b DEF TableInv, RowOK, Owned, Leased, Queued
    <3>2. /\ status'[q] = (IF attempts[q] > 1 THEN "FAILED" ELSE "PENDING")
          /\ lockedBy'[q] = Nobody /\ ~expired'[q]
          /\ attempts'[q] = attempts[q] - 1
      BY <2>2, <2>a, <2>b, <3>1
    <3>3. QED BY <3>1, <3>2, NobodyIsNoWorker DEF RowOK, Queued
  <2>3. \A q \in Rows : RowOK(q)'
    BY <2>2, <2>b DEF Kept, RowOK, Queued
  <2>4. OneRowPerKey'
    BY <2>2, SameRowsSameKeys DEF Kept, Owned, Leased
  <2>5. QED BY <2>2, <2>3, <2>4
<1>10. CASE RecoverSql(Rows \ Exhausted, "FAILED", TRUE)
  <2>1. /\ TableTypeOK' /\ attempts' = attempts
        /\ \A q \in Rows : ~(Stale(q) /\ ~LastAttempt(q)) => Kept(q)
        /\ \A q \in Rows : Stale(q) /\ ~LastAttempt(q) =>
             status'[q] = "FAILED" /\ lockedBy'[q] = Nobody /\ ~expired'[q]
    BY <1>10, RequeueEffect
  <2>2. \A q \in Rows : RowOK(q)'
    BY <2>1 DEF Kept, RowOK, Queued, LastAttempt, TableTypeOK
  <2>3. OneRowPerKey'
    BY <2>1, SameRowsSameKeys DEF Kept, Stale, Leased
  <2>4. QED BY <2>1, <2>2, <2>3
<1>11. CASE RecoverSql(Exhausted, "DEAD_LETTERED", TRUE)
  <2>1. /\ TableTypeOK' /\ attempts' = attempts
        /\ \A q \in Rows : ~(Stale(q) /\ LastAttempt(q)) => Kept(q)
        /\ \A q \in Rows : Stale(q) /\ LastAttempt(q) =>
             status'[q] = "DEAD_LETTERED" /\ lockedBy'[q] = Nobody /\ ~expired'[q]
    BY <1>11, DeadLetterEffect
  <2>2. \A q \in Rows : RowOK(q)'
    BY <2>1 DEF Kept, RowOK, Queued
  <2>3. OneRowPerKey'
    BY <2>1, SameRowsSameKeys DEF Kept, Stale, Leased
  <2>4. QED BY <2>1, <2>2, <2>3
<1>12. QED
  BY <1>1, <1>2, <1>3, <1>4, <1>5, <1>6, <1>7, <1>8, <1>9, <1>10, <1>11 DEF TableStep

-----------------------------------------------------------------------------
(* The workers' memory keeps its type, action by action. *)
MemoryTypeOK ==
  /\ WorkerTypeOK
  /\ compacted \subseteq Rows
  /\ requeues \in [Rows -> Nat] /\ starts \in [Rows -> Nat] /\ refunds \in [Rows -> Nat]

(* The three sets and stages handleOne touches, when it leaves a row. *)
HandTypeOK ==
  /\ stage \in [Workers -> [Rows -> Stages]]
  /\ lost \in [Workers -> SUBSET Rows]
  /\ unfinished \in [Workers -> SUBSET Rows]

LEMMA StageTypes ==
  ASSUME HandTypeOK, NEW w \in Workers, NEW r \in Rows, NEW s \in Stages,
         stage' = [stage EXCEPT ![w][r] = s], UNCHANGED <<unfinished, lost>>
  PROVE  HandTypeOK'
  BY DEF HandTypeOK

LEMMA LeaveTypes ==
  ASSUME HandTypeOK, NEW w \in Workers, NEW r \in Rows, NEW s \in Stages, Leave(w, r, s)
  PROVE  /\ stage' \in [Workers -> [Rows -> Stages]]
         /\ lost' \in [Workers -> SUBSET Rows]
<1>1. stage' \in [Workers -> [Rows -> Stages]]
  BY DEF HandTypeOK, Leave
<1>2. lost' \in [Workers -> SUBSET Rows]
  BY DEF HandTypeOK, Leave
<1>3. QED BY <1>1, <1>2

LEMMA SettleTypes ==
  ASSUME HandTypeOK, NEW w \in Workers, NEW r \in Rows, Settle(w, r)
  PROVE  HandTypeOK'
<1>1. "out" \in Stages
  BY DEF Stages
<1>2. Leave(w, r, "out")
  BY DEF Settle
<1>3. unfinished' \in [Workers -> SUBSET Rows]
  BY DEF HandTypeOK, Settle
<1>4. QED BY <1>1, <1>2, <1>3, LeaveTypes DEF HandTypeOK

LEMMA CatchTypes ==
  ASSUME HandTypeOK, NEW w \in Workers, NEW r \in Rows, Catch(w, r)
  PROVE  HandTypeOK'
<1>1. CASE Settle(w, r)
  BY <1>1, SettleTypes
<1>2. CASE Leave(w, r, "halted") /\ UNCHANGED unfinished
  <2>1. "halted" \in Stages
    BY DEF Stages
  <2>2. QED BY <1>2, <2>1, LeaveTypes DEF HandTypeOK
<1>3. CASE stage' = [stage EXCEPT ![w][r] = "fail"] /\ UNCHANGED <<unfinished, lost>>
  <2>1. "fail" \in Stages
    BY DEF Stages, Running
  <2>2. QED BY <1>3, <2>1, StageTypes
<1>4. QED BY <1>1, <1>2, <1>3 DEF Catch

LEMMA MemoryTypes ==
  ASSUME TypeOK, [Next]_vars
  PROVE  MemoryTypeOK'
<1> USE DEF MemoryTypeOK
<1>0. MemoryTypeOK
  BY DEF TypeOK
<1>1. CASE UNCHANGED vars
  BY <1>0, <1>1 DEF vars, workerVars, batchVars, ghostVars, WorkerTypeOK
<1>2. ASSUME NEW r \in Rows, Enqueue(r) \/ Clock(r) \/ Delete(r) \/ Compact(r) \/ RequeueDeadLetter(r)
      PROVE  MemoryTypeOK'
  <2>1. WorkerTypeOK'
    BY <1>0, <1>2 DEF Enqueue, Clock, Delete, Compact, RequeueDeadLetter, workerVars, batchVars, WorkerTypeOK
  <2>2. compacted' \subseteq Rows /\ requeues' \in [Rows -> Nat] /\ UNCHANGED <<starts, refunds>>
    BY <1>0, <1>2 DEF Enqueue, Clock, Delete, Compact, RequeueDeadLetter, ghostVars
  <2>3. QED BY <1>0, <2>1, <2>2
<1>3. ASSUME NEW w \in Workers, Claim(w) \/ ClaimLost(w) \/ RunStep(w)
      PROVE  MemoryTypeOK'
  <2>1. UNCHANGED <<compacted, requeues, starts, refunds>>
    BY <1>3 DEF Claim, ClaimLost, RunStep, ghostVars
  <2>2. CASE Claim(w)
    <3>1. PICK S \in SUBSET {r \in Rows : Claimable(w, r)} : OpenBatch(w, S)
      BY <2>2 DEF Claim
    <3>2. WorkerTypeOK'
      BY <1>0, <3>1 DEF OpenBatch, WorkerTypeOK, Phases
    <3>3. QED BY <1>0, <2>1, <3>2
  <2>3. CASE ClaimLost(w)
    <3>1. PICK S \in SUBSET {r \in Rows : Claimable(w, r)} : ClaimAnswerLost(w, S)
      BY <2>3 DEF ClaimLost
    <3>2. WorkerTypeOK'
      BY <1>0, <3>1 DEF ClaimAnswerLost, Fault, batchVars, WorkerTypeOK
    <3>3. QED BY <1>0, <2>1, <3>2
  <2>4. CASE RunStep(w)
    <3>1. CASE Load(w)
      BY <1>0, <2>1, <3>1 DEF Load, OwnedOf, WorkerTypeOK, Phases, Stages
    <3>2. CASE LoadError(w) \/ LanesEnd(w)
      BY <1>0, <2>1, <3>2 DEF LoadError, LanesEnd, Fault, WorkerTypeOK, Phases
    <3>3. CASE Beat(w)
      BY <1>0, <2>1, <3>3 DEF Beat, WorkerTypeOK
    <3>4. CASE BeatAnswer(w)
      BY <1>0, <2>1, <3>4 DEF BeatAnswer, WorkerTypeOK, RunningRows
    <3>5. CASE BeatError(w)
      BY <1>0, <2>1, <3>5 DEF BeatError, Fault, WorkerTypeOK
    <3>6. CASE Timeout(w) \/ NextTick(w) \/ Shutdown(w)
      BY <1>0, <2>1, <3>6, SMTT(30) DEF Timeout, NextTick, Shutdown, Fault, WorkerTypeOK, Signals
    <3>7. CASE Crash(w)
      BY <1>0, <2>1, <3>7 DEF Crash, Forget, Fault, OwnedOf, WorkerTypeOK, Phases, Stages
    <3>8. QED BY <2>4, <3>1, <3>2, <3>3, <3>4, <3>5, <3>6, <3>7 DEF RunStep
  <2>5. QED BY <1>3, <2>2, <2>3, <2>4
<1>4. ASSUME NEW w \in Workers, CloseBatch(w) \/ CloseBatchError(w)
      PROVE  MemoryTypeOK'
  <2>1. UNCHANGED <<compacted, requeues, starts>>
    BY <1>4 DEF CloseBatch, CloseBatchError
  <2>2. refunds' \in [Rows -> Nat]
    BY <1>0, <1>4 DEF CloseBatch, CloseBatchError, CountRefunds
  <2>3. /\ UNCHANGED <<beating, missing, signal>>
        /\ orphaned' \in SUBSET Rows /\ faults' \in Nat
    BY <1>0, <1>4 DEF CloseBatch, CloseBatchError, Close, CloseError, Fault, OwnedOf, WorkerTypeOK
  <2>4. Forget(w) /\ phase' = [phase EXCEPT ![w] = "idle"]
    BY <1>4 DEF CloseBatch, CloseBatchError, Close, CloseError
  <2>5. WorkerTypeOK'
    BY <1>0, <2>3, <2>4 DEF Forget, WorkerTypeOK, Phases, Stages
  <2>6. QED BY <1>0, <2>1, <2>2, <2>5
<1>5. ASSUME NEW w \in Workers, NEW r \in Rows,
             \/ RowStep(w, r) \/ BeginHandler(w, r)
             \/ CompleteRow(w, r) \/ CompleteRowError(w, r)
             \/ FailRow(w, r) \/ FailRowError(w, r)
      PROVE  MemoryTypeOK'
  <2>1. UNCHANGED <<compacted, requeues, refunds>>
    BY <1>5 DEF RowStep, BeginHandler, CompleteRow, CompleteRowError, FailRow, FailRowError, ghostVars
  <2>2. starts' \in [Rows -> Nat]
    <3>1. CASE BeginHandler(w, r)
      BY <1>0, <3>1 DEF BeginHandler
    <3>2. CASE ~BeginHandler(w, r)
      BY <1>0, <1>5, <3>2 DEF RowStep, CompleteRow, CompleteRowError, FailRow, FailRowError, ghostVars
    <3>3. QED BY <3>1, <3>2
  <2>3. HandTypeOK
    BY <1>0 DEF WorkerTypeOK, HandTypeOK
  <2>4. HandTypeOK'
    <3>1. CASE Start(w, r)
      BY <2>3, <3>1, StageTypes DEF Start, Stages, Running
    <3>2. CASE Return(w, r)
      BY <2>3, <3>2, StageTypes DEF Return, Stages, Running
    <3>3. CASE Confirm(w, r)
      BY <2>3, <3>3, StageTypes, SettleTypes DEF Confirm, Stages, Running
    <3>4. CASE ConfirmError(w, r)
      BY <2>3, <3>4, LeaveTypes DEF ConfirmError, Stages, HandTypeOK
    <3>5. CASE BeginHandler(w, r)
      BY <2>3, <3>5, StageTypes, SettleTypes DEF BeginHandler, Begin, Stages, Running
    <3>6. CASE Throw(w, r) \/ CompleteRowError(w, r)
      BY <2>3, <3>6, CatchTypes DEF Throw, CompleteRowError, CompleteError
    <3>7. CASE CompleteRow(w, r) \/ FailRow(w, r) \/ FailRowError(w, r)
      BY <2>3, <3>7, SettleTypes DEF CompleteRow, Complete, FailRow, Fail, FailRowError, FailError
    <3>8. QED BY <1>5, <3>1, <3>2, <3>3, <3>4, <3>5, <3>6, <3>7 DEF RowStep
  <2>5. UNCHANGED <<phase, beating, missing, signal>>
    BY <1>5 DEF RowStep, Start, Return, Confirm, ConfirmError, Throw, BeginHandler, Begin, CompleteRow, Complete,
                CompleteRowError, CompleteError, FailRow, Fail, FailRowError, FailError
  <2>6. stopped' \in [Workers -> Nat] /\ orphaned' \subseteq Rows /\ faults' \in Nat
    <3>1. CASE Start(w, r) \/ Return(w, r) \/ Confirm(w, r) \/ Throw(w, r) \/ BeginHandler(w, r)
      BY <1>0, <3>1 DEF Start, Return, Confirm, Throw, BeginHandler, Begin, WorkerTypeOK
    <3>2. CASE CompleteRow(w, r) \/ FailRow(w, r)
      BY <1>0, <3>2 DEF CompleteRow, Complete, FailRow, Fail, WorkerTypeOK
    <3>3. CASE ConfirmError(w, r)
      BY <1>0, <3>3 DEF ConfirmError, Fault, WorkerTypeOK
    <3>4. CASE CompleteRowError(w, r)
      BY <1>0, <3>4 DEF CompleteRowError, CompleteError, Fault, WorkerTypeOK
    <3>5. CASE FailRowError(w, r)
      <4>1. UNCHANGED stopped /\ faults' = faults + 1
        BY <3>5 DEF FailRowError, FailError, Fault
      <4>2. orphaned' \subseteq orphaned \cup {r}
        BY <3>5 DEF FailRowError, FailError, OwnedOf
      <4>3. QED BY <1>0, <4>1, <4>2 DEF WorkerTypeOK
    <3>6. QED BY <1>5, <3>1, <3>2, <3>3, <3>4, <3>5 DEF RowStep
  <2>7. QED BY <1>0, <2>1, <2>2, <2>4, <2>5, <2>6 DEF HandTypeOK, WorkerTypeOK
<1>6. CASE RecoverRequeue \/ RecoverDead
  BY <1>0, <1>6 DEF RecoverRequeue, RecoverDead, Recover, batchVars, ghostVars, WorkerTypeOK
<1>7. QED BY <1>1, <1>2, <1>3, <1>4, <1>5, <1>6 DEF Next

-----------------------------------------------------------------------------
(* No statement selects a finished row, and only retention deletes it. *)
LEMMA EndedStays ==
  ASSUME TableTypeOK, TableStep, NEW q \in Rows
  PROVE  /\ status[q] \in Finished => status'[q] \in {status[q], "DELETED"}
         /\ status[q] = "DELETED" => status'[q] = "DELETED"
<1> DEFINE Ended == status[q] \in Finished \cup {"DELETED"}
<1>1. CASE UNCHANGED leaseVars
  BY <1>1 DEF leaseVars
<1>2. CASE \E r \in Rows : Enqueue(r) \/ Delete(r) \/ RequeueDeadLetter(r)
  BY <1>2 DEF Enqueue, Delete, RequeueDeadLetter, Expirable, Present, TableTypeOK, Finished
<1>3. CASE \E r \in Rows : LeaseRunsOut(r) \/ BecomesDue(r)
  BY <1>3 DEF LeaseRunsOut, BecomesDue
<1>4. CASE \E w \in Workers : \E S \in SUBSET {r \in Rows : Claimable(w, r)} : ClaimSql(w, S)
  <2>1. PICK w \in Workers : \E S \in SUBSET {r \in Rows : Claimable(w, r)} : ClaimSql(w, S)
    BY <1>4
  <2>2. PICK S \in SUBSET {r \in Rows : Claimable(w, r)} : ClaimSql(w, S)
    BY <2>1
  <2>3. Ended => q \notin S
    BY DEF Claimable, Queued, Finished
  <2>4. Ended => Kept(q)
    BY <2>2, <2>3, ClaimEffect
  <2>5. QED BY <2>4 DEF Kept
<1>5. CASE \E w \in Workers, S \in SUBSET Rows : RenewSql(w, S)
  BY <1>5, RenewEffect
<1>6. CASE \E w \in Workers, r \in Rows, d \in BOOLEAN :
             \E s \in Finished \cup {FailedStatus(r)} : FinishSql(w, r, s, d)
  <2>1. PICK w \in Workers, r \in Rows, d \in BOOLEAN :
             \E s \in Finished \cup {FailedStatus(r)} : FinishSql(w, r, s, d)
    BY <1>6
  <2>2. PICK s \in Finished \cup {FailedStatus(r)} : FinishSql(w, r, s, d)
    BY <2>1
  <2>3. s \in Statuses
    BY DEF FailedStatus, Statuses, Finished, Queued
  <2>4. Ended => Kept(q)
    BY <2>2, <2>3, FinishEffect DEF Owned, Leased, Finished
  <2>5. QED BY <2>4 DEF Kept
<1>7. CASE \E w \in Workers, S \in SUBSET Rows : ReleaseSql(w, S, ReleaseStatus)
  <2>1. Ended => Kept(q)
    BY <1>7, ReleaseEffect DEF Owned, Leased, Finished
  <2>2. QED BY <2>1 DEF Kept
<1>8. CASE \/ RecoverSql(Rows \ Exhausted, "FAILED", TRUE)
           \/ RecoverSql(Exhausted, "DEAD_LETTERED", TRUE)
  <2>1. Ended => Kept(q)
    BY <1>8, RequeueEffect, DeadLetterEffect DEF Stale, Leased, Finished
  <2>2. QED BY <2>1 DEF Kept
<1>9. QED BY <1>1, <1>2, <1>3, <1>4, <1>5, <1>6, <1>7, <1>8 DEF TableStep

CompactedIsFinished == \A r \in compacted : status[r] \in Finished \cup {"DELETED"}

LEMMA CompactedInvariance ==
  ASSUME TypeOK, CompactedIsFinished, [Next]_vars
  PROVE  CompactedIsFinished'
<1>1. TableTypeOK /\ TableStep
  BY EveryStepIsATableStep DEF TypeOK, TableTypeOK
<1>2. \A q \in compacted : status'[q] \in Finished \cup {"DELETED"}
  <2>1. compacted \subseteq Rows
    BY DEF TypeOK
  <2>2. QED BY <1>1, <2>1, EndedStays DEF CompactedIsFinished
<1>3. CASE \E r \in Rows : Compact(r)
  BY <1>2, <1>3 DEF Compact, CompactedIsFinished, leaseVars
<1>4. CASE ~\E r \in Rows : Compact(r)
  <2>1. UNCHANGED compacted
    BY <1>4 DEF Next, vars, Enqueue, Clock, Delete, RequeueDeadLetter, Claim, ClaimLost, RunStep, CloseBatch,
                CloseBatchError, RowStep, BeginHandler, CompleteRow, CompleteRowError, FailRow, FailRowError,
                RecoverRequeue, RecoverDead
  <2>2. QED BY <1>2, <2>1 DEF CompactedIsFinished
<1>5. QED BY <1>3, <1>4

-----------------------------------------------------------------------------
(* The table and the workers' memory.  A row the worker was told it lost,  *)
(* or will be told, is indeed not its own: this is what lets runBatch drop *)
(* it without a write.  It holds because a worker claims only between      *)
(* batches, when nothing of the last one is left.                          *)
LostIsLost == \A w \in Workers, r \in Rows : r \in lost[w] \cup missing[w] => ~Owned(w, r)

Quiet ==
  \A w \in Workers :
    /\ ~beating[w] => missing[w] = {}
    /\ phase[w] \in {"idle", "dead"} => ~beating[w] /\ lost[w] = {} /\ unfinished[w] = {}

MemoryInv == NoLeakedLease /\ LostIsLost /\ Quiet

(* Nobody gets a row by this step. *)
NoNewOwner == \A v \in Workers, q \in Rows : Owned(v, q)' => Owned(v, q)

LEMMA RenewOwners ==
  ASSUME TableTypeOK, NEW w \in Workers, NEW S \in SUBSET Rows, RenewSql(w, S) \/ UNCHANGED leaseVars
  PROVE  \A v \in Workers, q \in Rows : Owned(v, q)' <=> Owned(v, q)
  BY RenewEffect DEF Owned, Leased, leaseVars

LEMMA FinishOwners ==
  ASSUME TableTypeOK, NEW w \in Workers, NEW r \in Rows, NEW s \in Statuses \ {"PROCESSING"},
         NEW d \in BOOLEAN, FinishSql(w, r, s, d)
  PROVE  NoNewOwner /\ ~Owned(w, r)'
<1>1. /\ \A q \in Rows : ~(q = r /\ Owned(w, q)) => Kept(q)
      /\ Owned(w, r) => status'[r] = s /\ lockedBy'[r] = Nobody
  BY FinishEffect
<1>2. QED BY <1>1 DEF NoNewOwner, Kept, Owned, Leased

LEMMA ReleaseOwners ==
  ASSUME TableTypeOK, NEW w \in Workers, NEW S \in SUBSET Rows, ReleaseSql(w, S, ReleaseStatus)
  PROVE  NoNewOwner /\ \A q \in S : ~Owned(w, q)'
<1>1. /\ \A q \in Rows : ~(q \in S /\ Owned(w, q)) => Kept(q)
      /\ \A q \in S : Owned(w, q) => lockedBy'[q] = Nobody
  BY ReleaseEffect
<1>2. QED BY <1>1 DEF NoNewOwner, Kept, Owned, Leased

(* A step that gives nobody a row and lets a worker forget only rows it    *)
(* does not own.                                                           *)
LEMMA Forgetting ==
  ASSUME MemoryInv, NoNewOwner,
         \A v \in Workers, q \in Rows :
           /\ Owned(v, q)' /\ q \in unfinished[v] => q \in unfinished'[v] \cup orphaned'
           /\ Owned(v, q)' /\ q \in orphaned => q \in orphaned'
           /\ q \in lost'[v] \cup missing'[v] => q \in lost[v] \cup missing[v] \/ ~Owned(v, q)
  PROVE  NoLeakedLease' /\ LostIsLost'
<1>1. NoLeakedLease'
  BY DEF MemoryInv, NoLeakedLease, NoNewOwner
<1>2. LostIsLost'
  BY DEF MemoryInv, LostIsLost, NoNewOwner
<1>3. QED BY <1>1, <1>2

LEMMA MemoryStutter ==
  ASSUME MemoryInv, NoNewOwner, UNCHANGED workerVars
  PROVE  MemoryInv'
<1>1. UNCHANGED <<phase, unfinished, lost, beating, missing, orphaned>>
  BY DEF workerVars, batchVars
<1>2. Quiet'
  BY <1>1 DEF MemoryInv, Quiet
<1>3. NoLeakedLease' /\ LostIsLost'
  BY <1>1, Forgetting
<1>4. QED BY <1>2, <1>3 DEF MemoryInv

LEMMA MemoryClaim ==
  ASSUME TypeOK, MemoryInv, NEW w \in Workers, Claim(w) \/ ClaimLost(w)
  PROVE  MemoryInv'
<1>1. PICK S \in SUBSET {r \in Rows : Claimable(w, r)} : OpenBatch(w, S) \/ ClaimAnswerLost(w, S)
  BY DEF Claim, ClaimLost
<1>2. TableTypeOK
  BY DEF TypeOK, TableTypeOK
<1>3. /\ \A q \in Rows \ S : Kept(q)
      /\ \A q \in S : status'[q] = "PROCESSING" /\ lockedBy'[q] = w
  BY <1>1, <1>2, ClaimEffect DEF OpenBatch, ClaimAnswerLost
<1>4. \A v \in Workers, q \in Rows : Owned(v, q)' => (v = w /\ q \in S) \/ Owned(v, q)
  BY <1>3 DEF Kept, Owned, Leased
<1>5. /\ phase[w] = "idle" /\ ~beating[w]
      /\ lost[w] = {} /\ missing[w] = {} /\ unfinished[w] = {}
  BY <1>1 DEF OpenBatch, ClaimAnswerLost, MemoryInv, Quiet
<1>6. UNCHANGED <<lost, beating, missing>>
  BY <1>1 DEF OpenBatch, ClaimAnswerLost, batchVars
<1>7. LostIsLost'
  BY <1>4, <1>5, <1>6 DEF LostIsLost, MemoryInv
<1>8. CASE OpenBatch(w, S)
  <2>1. /\ unfinished' = [unfinished EXCEPT ![w] = S] /\ UNCHANGED orphaned
        /\ phase' = [phase EXCEPT ![w] = "load"]
    BY <1>8 DEF OpenBatch
  <2>2. phase \in [Workers -> Phases] /\ unfinished \in [Workers -> SUBSET Rows]
    BY DEF TypeOK, WorkerTypeOK
  <2>3. NoLeakedLease'
    BY <1>4, <1>5, <2>1, <2>2 DEF NoLeakedLease, MemoryInv
  <2>4. Quiet'
    BY <1>6, <2>1, <2>2 DEF Quiet, MemoryInv
  <2>5. QED BY <1>7, <2>3, <2>4 DEF MemoryInv
<1>9. CASE ClaimAnswerLost(w, S)
  <2>1. UNCHANGED batchVars /\ orphaned' = orphaned \cup S
    BY <1>9 DEF ClaimAnswerLost
  <2>2. NoLeakedLease'
    BY <1>4, <2>1 DEF NoLeakedLease, MemoryInv, batchVars
  <2>3. Quiet'
    BY <2>1 DEF Quiet, MemoryInv, batchVars
  <2>4. QED BY <1>7, <2>2, <2>3 DEF MemoryInv
<1>10. QED BY <1>1, <1>8, <1>9

LEMMA MemoryRunStep ==
  ASSUME TypeOK, MemoryInv, NEW w \in Workers, RunStep(w)
  PROVE  MemoryInv'
<1>1. /\ TableTypeOK
      /\ phase \in [Workers -> Phases] /\ unfinished \in [Workers -> SUBSET Rows]
      /\ lost \in [Workers -> SUBSET Rows] /\ missing \in [Workers -> SUBSET Rows]
      /\ beating \in [Workers -> BOOLEAN]
  BY DEF TypeOK, TableTypeOK, WorkerTypeOK
<1>2. UNCHANGED leaseVars \/ RenewSql(w, unfinished[w])
  BY DEF RunStep, Load, LoadError, Beat, BeatAnswer, BeatError, LanesEnd, Timeout, NextTick, Shutdown, Crash
<1>3. \A v \in Workers, q \in Rows : Owned(v, q)' <=> Owned(v, q)
  BY <1>1, <1>2, RenewOwners
<1>4. NoNewOwner
  BY <1>3 DEF NoNewOwner
<1>5. CASE Load(w)
  <2>1. /\ phase' = [phase EXCEPT ![w] = "lanes"]
        /\ unfinished' = [unfinished EXCEPT ![w] = OwnedOf(w, unfinished[w])]
        /\ UNCHANGED <<lost, beating, missing, orphaned>>
    BY <1>5 DEF Load
  <2>2. NoLeakedLease' /\ LostIsLost'
    BY <1>1, <1>3, <1>4, <2>1, Forgetting DEF OwnedOf
  <2>3. Quiet'
    BY <1>1, <2>1 DEF Quiet, MemoryInv
  <2>4. QED BY <2>2, <2>3 DEF MemoryInv
<1>6. CASE LoadError(w) \/ LanesEnd(w)
  <2>1. /\ phase' = [phase EXCEPT ![w] = "closing"]
        /\ UNCHANGED <<unfinished, lost, beating, missing, orphaned>>
    BY <1>6 DEF LoadError, LanesEnd
  <2>2. NoLeakedLease' /\ LostIsLost'
    BY <1>4, <2>1, Forgetting
  <2>3. Quiet'
    BY <1>1, <2>1 DEF Quiet, MemoryInv
  <2>4. QED BY <2>2, <2>3 DEF MemoryInv
<1>7. CASE Beat(w)
  <2>1. /\ phase[w] \in {"load", "lanes"}
        /\ beating' = [beating EXCEPT ![w] = TRUE]
        /\ missing' = [missing EXCEPT ![w] = unfinished[w] \ OwnedOf(w, unfinished[w])]
        /\ UNCHANGED <<phase, unfinished, lost, orphaned>>
    BY <1>7 DEF Beat
  <2>2. NoLeakedLease' /\ LostIsLost'
    BY <1>1, <1>4, <2>1, Forgetting DEF OwnedOf
  <2>3. Quiet'
    BY <1>1, <2>1 DEF Quiet, MemoryInv
  <2>4. QED BY <2>2, <2>3 DEF MemoryInv
<1>8. CASE BeatAnswer(w)
  <2>1. /\ beating[w]
        /\ beating' = [beating EXCEPT ![w] = FALSE]
        /\ missing' = [missing EXCEPT ![w] = {}]
        /\ lost' = [lost EXCEPT ![w] = lost[w] \cup (missing[w] \cap RunningRows(w))]
        /\ unfinished' = [unfinished EXCEPT ![w] = unfinished[w] \ (missing[w] \ RunningRows(w))]
        /\ UNCHANGED <<phase, orphaned>>
    BY <1>8 DEF BeatAnswer
  <2>2. \A q \in missing[w] : ~Owned(w, q)
    BY <1>1 DEF MemoryInv, LostIsLost
  <2>3. NoLeakedLease' /\ LostIsLost'
    BY <1>1, <1>3, <1>4, <2>1, <2>2, Forgetting
  <2>4. Quiet'
    BY <1>1, <2>1 DEF Quiet, MemoryInv
  <2>5. QED BY <2>3, <2>4 DEF MemoryInv
<1>9. CASE BeatError(w)
  <2>1. /\ beating' = [beating EXCEPT ![w] = FALSE]
        /\ missing' = [missing EXCEPT ![w] = {}]
        /\ UNCHANGED <<phase, unfinished, lost, orphaned>>
    BY <1>9 DEF BeatError
  <2>2. NoLeakedLease' /\ LostIsLost'
    BY <1>1, <1>4, <2>1, Forgetting
  <2>3. Quiet'
    BY <1>1, <2>1 DEF Quiet, MemoryInv
  <2>4. QED BY <2>2, <2>3 DEF MemoryInv
<1>10. CASE Timeout(w) \/ NextTick(w) \/ Shutdown(w)
  <2>1. UNCHANGED <<phase, unfinished, lost, beating, missing, orphaned>>
    BY <1>10 DEF Timeout, NextTick, Shutdown
  <2>2. NoLeakedLease' /\ LostIsLost'
    BY <1>4, <2>1, Forgetting
  <2>3. Quiet'
    BY <2>1 DEF Quiet, MemoryInv
  <2>4. QED BY <2>2, <2>3 DEF MemoryInv
<1>11. CASE Crash(w)
  <2>1. /\ phase' = [phase EXCEPT ![w] = "dead"]
        /\ unfinished' = [unfinished EXCEPT ![w] = {}]
        /\ lost' = [lost EXCEPT ![w] = {}]
        /\ beating' = [beating EXCEPT ![w] = FALSE]
        /\ missing' = [missing EXCEPT ![w] = {}]
        /\ orphaned' = orphaned \cup OwnedOf(w, Rows)
    BY <1>11 DEF Crash, Forget
  <2>2. NoLeakedLease' /\ LostIsLost'
    BY <1>1, <1>3, <1>4, <2>1, Forgetting DEF OwnedOf
  <2>3. Quiet'
    BY <1>1, <2>1 DEF Quiet, MemoryInv
  <2>4. QED BY <2>2, <2>3 DEF MemoryInv
<1>12. QED BY <1>5, <1>6, <1>7, <1>8, <1>9, <1>10, <1>11 DEF RunStep

LEMMA MemoryClose ==
  ASSUME TypeOK, MemoryInv, NEW w \in Workers, CloseBatch(w) \/ CloseBatchError(w)
  PROVE  MemoryInv'
<1>1. /\ TableTypeOK
      /\ phase \in [Workers -> Phases] /\ unfinished \in [Workers -> SUBSET Rows]
      /\ lost \in [Workers -> SUBSET Rows]
  BY DEF TypeOK, TableTypeOK, WorkerTypeOK
<1>2. /\ ~beating[w]
      /\ phase' = [phase EXCEPT ![w] = "idle"]
      /\ unfinished' = [unfinished EXCEPT ![w] = {}]
      /\ lost' = [lost EXCEPT ![w] = {}]
      /\ UNCHANGED <<beating, missing>>
  BY DEF CloseBatch, CloseBatchError, Close, CloseError, Forget
<1>3. Quiet'
  BY <1>1, <1>2 DEF Quiet, MemoryInv
<1>4. CASE ReleaseSql(w, unfinished[w] \cap Rows, ReleaseStatus)
             /\ orphaned' = orphaned \cup OwnedOf(w, unfinished[w] \ Rows)
  <2>1. NoNewOwner /\ \A q \in unfinished[w] \cap Rows : ~Owned(w, q)'
    BY <1>1, <1>4, ReleaseOwners
  <2>2. NoLeakedLease' /\ LostIsLost'
    BY <1>1, <1>2, <1>4, <2>1, Forgetting
  <2>3. QED BY <1>3, <2>2 DEF MemoryInv
<1>5. CASE UNCHANGED leaseVars /\ orphaned' = orphaned \cup OwnedOf(w, unfinished[w])
  <2>1. NoNewOwner
    BY <1>5 DEF NoNewOwner, Owned, Leased, leaseVars
  <2>2. \A q \in unfinished[w] : Owned(w, q) => q \in orphaned'
    BY <1>5 DEF OwnedOf
  <2>3. orphaned \subseteq orphaned'
    BY <1>5
  <2>4. NoLeakedLease' /\ LostIsLost'
    BY <1>1, <1>2, <2>1, <2>2, <2>3, Forgetting DEF NoNewOwner
  <2>5. QED BY <1>3, <2>4 DEF MemoryInv
<1>6. QED BY <1>4, <1>5 DEF CloseBatch, CloseBatchError, Close, CloseError

(* handleOne forgets a row it does not own after the step, or, after a     *)
(* failure write that threw, one it leaves to recovery.                    *)
LEMMA MemoryRowStep ==
  ASSUME TypeOK, MemoryInv, NEW w \in Workers, NEW r \in Rows,
         \/ RowStep(w, r) \/ BeginHandler(w, r)
         \/ CompleteRow(w, r) \/ CompleteRowError(w, r)
         \/ FailRow(w, r) \/ FailRowError(w, r)
  PROVE  MemoryInv'
<1>1. /\ TableTypeOK
      /\ unfinished \in [Workers -> SUBSET Rows] /\ lost \in [Workers -> SUBSET Rows]
  BY DEF TypeOK, TableTypeOK, WorkerTypeOK
<1>2. UNCHANGED <<phase, beating, missing>>
  BY DEF RowStep, Start, Return, Confirm, ConfirmError, Throw, BeginHandler, Begin, CompleteRow, Complete,
         CompleteRowError, CompleteError, FailRow, Fail, FailRowError, FailError
<1> DEFINE Same == UNCHANGED <<unfinished, lost>>
           Left == UNCHANGED unfinished /\ lost' = [lost EXCEPT ![w] = lost[w] \ {r}]
           Dropped == /\ unfinished' = [unfinished EXCEPT ![w] = unfinished[w] \ {r}]
                      /\ lost' = [lost EXCEPT ![w] = lost[w] \ {r}]
<1>3. ASSUME NoNewOwner,
             Same \/ Left \/ (Dropped /\ (~Owned(w, r)' \/ r \in orphaned')),
             orphaned \subseteq orphaned'
      PROVE  MemoryInv'
  <2>1. \A v \in Workers : lost'[v] \subseteq lost[v] /\ unfinished'[v] \subseteq unfinished[v]
    BY <1>1, <1>3
  <2>2. Quiet'
    BY <1>2, <2>1 DEF Quiet, MemoryInv
  <2>3. NoLeakedLease' /\ LostIsLost'
    BY <1>1, <1>2, <1>3, <2>1, Forgetting
  <2>4. QED BY <2>2, <2>3 DEF MemoryInv
<1>4. r \in lost[w] => ~Owned(w, r)
  BY DEF MemoryInv, LostIsLost
<1>5. Settle(w, r) => Dropped
  BY DEF Settle, Leave
<1>6. Catch(w, r) => Same \/ Left \/ (Dropped /\ ~Owned(w, r))
  BY <1>4, <1>5 DEF Catch, Leave
<1>7. CASE RowStep(w, r) \/ BeginHandler(w, r)
  <2>1. {r} \in SUBSET Rows
    OBVIOUS
  <2>2. RenewSql(w, {r}) \/ UNCHANGED leaseVars
    BY <1>7 DEF RowStep, Start, Return, Confirm, ConfirmError, MaybeCommitted, Throw, BeginHandler, Begin
  <2>3. \A v \in Workers, q \in Rows : Owned(v, q)' <=> Owned(v, q)
    BY <1>1, <2>1, <2>2, RenewOwners
  <2>4. NoNewOwner
    BY <2>3 DEF NoNewOwner
  <2>5. UNCHANGED orphaned
    BY <1>7 DEF RowStep, Start, Return, Confirm, ConfirmError, Throw, BeginHandler, Begin
  <2>6. Same \/ Left \/ (Dropped /\ ~Owned(w, r))
    <3>1. CASE Start(w, r) \/ Return(w, r)
      BY <3>1 DEF Start, Return
    <3>2. CASE Confirm(w, r)
      BY <3>2, <1>5 DEF Confirm
    <3>3. CASE ConfirmError(w, r)
      BY <3>3 DEF ConfirmError, Leave
    <3>4. CASE Throw(w, r)
      BY <3>4, <1>6 DEF Throw
    <3>5. CASE BeginHandler(w, r)
      BY <3>5, <1>4, <1>5 DEF BeginHandler, Begin
    <3>6. QED BY <1>7, <3>1, <3>2, <3>3, <3>4, <3>5 DEF RowStep
  <2>7. QED BY <1>3, <2>3, <2>4, <2>5, <2>6
<1>8. CASE CompleteRow(w, r)
  <2>1. PICK s \in Finished : Complete(w, r, s, TRUE)
    BY <1>8 DEF CompleteRow
  <2>2. s \in Statuses \ {"PROCESSING"}
    BY DEF Statuses, Finished
  <2>3. NoNewOwner /\ ~Owned(w, r)'
    BY <1>1, <2>1, <2>2, FinishOwners DEF Complete
  <2>4. Dropped /\ UNCHANGED orphaned
    BY <1>5, <2>1 DEF Complete
  <2>5. QED BY <1>3, <2>3, <2>4
<1>9. CASE CompleteRowError(w, r)
  <2>1. PICK s \in Finished : CompleteError(w, r, s, TRUE)
    BY <1>9 DEF CompleteRowError
  <2>2. s \in Statuses \ {"PROCESSING"}
    BY DEF Statuses, Finished
  <2>3. NoNewOwner
    <3>1. CASE FinishSql(w, r, s, TRUE)
      BY <1>1, <2>2, <3>1, FinishOwners
    <3>2. CASE UNCHANGED leaseVars
      BY <3>2 DEF NoNewOwner, Owned, Leased, leaseVars
    <3>3. QED BY <2>1, <3>1, <3>2 DEF CompleteError, MaybeCommitted
  <2>4. Catch(w, r) /\ UNCHANGED orphaned
    BY <2>1 DEF CompleteError
  <2>5. ~Owned(w, r) => ~Owned(w, r)'
    BY <2>3 DEF NoNewOwner
  <2>6. QED BY <1>3, <1>6, <2>3, <2>4, <2>5
<1>10. CASE FailRow(w, r) \/ FailRowError(w, r)
  <2>1. FailedStatus(r) \in Statuses \ {"PROCESSING"} /\ LastAttempt(r) \in BOOLEAN
    BY DEF FailedStatus, LastAttempt, Statuses, Queued
  <2>2. Dropped
    BY <1>5, <1>10 DEF FailRow, Fail, FailRowError, FailError
  <2>3. CASE FinishSql(w, r, FailedStatus(r), LastAttempt(r)) /\ UNCHANGED orphaned
    <3>1. NoNewOwner /\ ~Owned(w, r)'
      BY <1>1, <2>1, <2>3, FinishOwners
    <3>2. QED BY <1>3, <2>2, <2>3, <3>1
  <2>4. CASE UNCHANGED leaseVars /\ orphaned' = orphaned \cup OwnedOf(w, {r})
    <3>1. NoNewOwner /\ (Owned(w, r)' => Owned(w, r))
      BY <2>4 DEF NoNewOwner, Owned, Leased, leaseVars
    <3>2. Owned(w, r) => r \in orphaned'
      BY <2>4 DEF OwnedOf
    <3>3. orphaned \subseteq orphaned'
      BY <2>4
    <3>4. QED BY <1>3, <2>2, <3>1, <3>2, <3>3
  <2>5. QED BY <1>10, <2>3, <2>4 DEF FailRow, Fail, FailRowError, FailError
<1>11. QED BY <1>7, <1>8, <1>9, <1>10

LEMMA MemoryRecover ==
  ASSUME TypeOK, MemoryInv, RecoverRequeue \/ RecoverDead
  PROVE  MemoryInv'
<1>1. TableTypeOK
  BY DEF TypeOK, TableTypeOK
<1>2. UNCHANGED <<phase, unfinished, lost, beating, missing>>
  BY DEF RecoverRequeue, RecoverDead, Recover, batchVars
<1>3. Quiet'
  BY <1>2 DEF Quiet, MemoryInv
<1>4. CASE RecoverRequeue
  <2>1. RecoverSql(Rows \ Exhausted, "FAILED", TRUE)
    BY <1>4 DEF RecoverRequeue, Recover
  <2>2. orphaned' = {q \in orphaned : ~(Stale(q) /\ ~LastAttempt(q))}
    BY <1>4 DEF RecoverRequeue, Recover, Exhausted, TypeOK, WorkerTypeOK
  <2>3. /\ \A q \in Rows : ~(Stale(q) /\ ~LastAttempt(q)) => Kept(q)
        /\ \A q \in Rows : Stale(q) /\ ~LastAttempt(q) => lockedBy'[q] = Nobody
    BY <1>1, <2>1, RequeueEffect
  <2>4. NoNewOwner /\ \A v \in Workers, q \in Rows : Owned(v, q)' => ~(Stale(q) /\ ~LastAttempt(q))
    BY <2>3 DEF NoNewOwner, Kept, Owned, Leased
  <2>5. NoLeakedLease' /\ LostIsLost'
    BY <1>2, <2>2, <2>4, Forgetting
  <2>6. QED BY <1>3, <2>5 DEF MemoryInv
<1>5. CASE RecoverDead
  <2>1. RecoverSql(Exhausted, "DEAD_LETTERED", TRUE)
    BY <1>5 DEF RecoverDead, Recover
  <2>2. orphaned' = {q \in orphaned : ~(Stale(q) /\ LastAttempt(q))}
    BY <1>5 DEF RecoverDead, Recover, Exhausted, TypeOK, WorkerTypeOK
  <2>3. /\ \A q \in Rows : ~(Stale(q) /\ LastAttempt(q)) => Kept(q)
        /\ \A q \in Rows : Stale(q) /\ LastAttempt(q) => lockedBy'[q] = Nobody
    BY <1>1, <2>1, DeadLetterEffect
  <2>4. NoNewOwner /\ \A v \in Workers, q \in Rows : Owned(v, q)' => ~(Stale(q) /\ LastAttempt(q))
    BY <2>3 DEF NoNewOwner, Kept, Owned, Leased
  <2>5. NoLeakedLease' /\ LostIsLost'
    BY <1>2, <2>2, <2>4, Forgetting
  <2>6. QED BY <1>3, <2>5 DEF MemoryInv
<1>6. QED BY <1>4, <1>5

LEMMA MemoryInvariance ==
  ASSUME TypeOK, MemoryInv, [Next]_vars
  PROVE  MemoryInv'
<1>1. CASE UNCHANGED vars
  <2>1. NoNewOwner
    BY <1>1 DEF NoNewOwner, Owned, Leased, vars, leaseVars
  <2>2. QED BY <1>1, <2>1, MemoryStutter DEF vars
<1>2. ASSUME NEW r \in Rows, Enqueue(r) \/ Clock(r) \/ Delete(r) \/ Compact(r) \/ RequeueDeadLetter(r)
      PROVE  MemoryInv'
  <2>1. NoNewOwner
    BY <1>2 DEF NoNewOwner, Owned, Leased, Enqueue, Clock, LeaseRunsOut, BecomesDue, Delete, Compact,
                RequeueDeadLetter, leaseVars, TypeOK
  <2>2. UNCHANGED workerVars
    BY <1>2 DEF Enqueue, Clock, Delete, Compact, RequeueDeadLetter
  <2>3. QED BY <2>1, <2>2, MemoryStutter
<1>3. QED
  BY <1>1, <1>2, MemoryClaim, MemoryRunStep, MemoryClose, MemoryRowStep, MemoryRecover DEF Next

-----------------------------------------------------------------------------
(* The inductive invariant of the outbox *)
IInv == TypeOK /\ TableInv /\ CompactedIsFinished /\ MemoryInv

LEMMA Initially ==
  ASSUME Init
  PROVE  IInv
<1>1. TableTypeOK /\ (\A r \in Rows : RowOK(r)) /\ OneRowPerKey
  BY DEF Init, TableTypeOK, Statuses, RowOK, Queued, OneRowPerKey
<1>2. WorkerTypeOK
  BY DEF Init, WorkerInit, WorkerTypeOK, Phases, Stages, Signals
<1>3. TypeOK
  BY <1>1, <1>2 DEF Init, TypeOK, TableTypeOK
<1>4. MemoryInv
  BY DEF Init, WorkerInit, MemoryInv, NoLeakedLease, LostIsLost, Quiet, Owned, Leased
<1>5. CompactedIsFinished
  BY DEF Init, CompactedIsFinished
<1>6. QED BY <1>1, <1>3, <1>4, <1>5 DEF IInv, TableInv

LEMMA Invariance ==
  ASSUME IInv, [Next]_vars
  PROVE  IInv'
<1>1. TableInv'
  BY EveryStepIsATableStep, TableInvariance DEF IInv
<1>2. TypeOK'
  BY <1>1, MemoryTypes DEF IInv, TableInv, TableTypeOK, MemoryTypeOK, TypeOK
<1>3. QED
  BY <1>1, <1>2, CompactedInvariance, MemoryInvariance DEF IInv

(* The inductive invariant holds in every behaviour of the outbox. *)
THEOREM InvariantHolds == Spec => []IInv
<1>1. Init => IInv
  BY Initially
<1>2. IInv /\ [Next]_vars => IInv'
  BY Invariance
<1>3. QED BY <1>1, <1>2, PTL DEF Spec

(* Every column and every variable of the workers keeps its type. *)
THEOREM TypeCorrect == Spec => []TypeOK
<1>1. IInv => TypeOK
  BY DEF IInv
<1>2. QED BY <1>1, InvariantHolds, PTL

(* claim, fail, release and recovery agree on the attempt count: no row is *)
(* queued that claim would not take, whatever the limit and the faults.    *)
THEOREM NeverWedgedHolds == Spec => []NeverWedged
<1>1. IInv => NeverWedged
  BY DEF IInv, TableInv, RowOK, NeverWedged
<1>2. QED BY <1>1, InvariantHolds, PTL

(* A dedupe key is used by one row for ever. *)
THEOREM OneRowPerKeyHolds == Spec => []OneRowPerKey
<1>1. IInv => OneRowPerKey
  BY DEF IInv, TableInv
<1>2. QED BY <1>1, InvariantHolds, PTL

(* A row without its payload is never handed to a handler. *)
THEOREM CompactedNeverRunsHolds == Spec => []CompactedNeverRuns
<1>1. IInv => CompactedNeverRuns
  BY DEF IInv, CompactedIsFinished, CompactedNeverRuns, Finished, Queued
<1>2. QED BY <1>1, InvariantHolds, PTL

(* runBatch loses track of no lease it holds. *)
THEOREM NoLeakedLeaseHolds == Spec => []NoLeakedLease
<1>1. IInv => NoLeakedLease
  BY DEF IInv, MemoryInv
<1>2. QED BY <1>1, InvariantHolds, PTL

(* A processed or skipped row stays so until retention deletes it. *)
THEOREM FinishedIsFinalHolds == Spec => FinishedIsFinal
<1>1. IInv /\ [Next]_vars =>
        [\A r \in Rows : status[r] \in Finished => status'[r] \in {status[r], "DELETED"}]_vars
  BY EveryStepIsATableStep, EndedStays DEF IInv, TableInv
<1>2. QED BY <1>1, InvariantHolds, PTL DEF Spec, FinishedIsFinal

-----------------------------------------------------------------------------
(* Handler starts.  Every claim charges an attempt for one start to come,  *)
(* so the starts made and the starts still to come are paid for.           *)
Unstarted == {"out", "waiting", "confirm", "confirmed"}

(* The workers whose batch holds the row and may still start its handler.  *)
(* A worker that lost the lease is one until it finds that out.            *)
ToStart(r) == {w \in Workers : r \in unfinished[w] /\ stage[w][r] \in Unstarted}

(* A lane has a row only while the lanes run and the batch tracks the row; *)
(* between batches no row is in anybody's hands.                           *)
HandsOK(w, r) ==
  /\ stage[w][r] \in Running => phase[w] = "lanes" /\ r \in unfinished[w]
  /\ phase[w] \in {"idle", "load"} => stage[w][r] = "out"

HandsInv == \A w \in Workers, r \in Rows : HandsOK(w, r)

PaidOK(r) ==
  /\ IsFiniteSet(ToStart(r))
  /\ attempts[r] <= MaxAttempts
  /\ starts[r] + Cardinality(ToStart(r)) <= MaxAttempts * requeues[r] + attempts[r] + refunds[r]

StartsInv == HandsInv /\ \A r \in Rows : PaidOK(r)

(* How a step of handleOne moves the row: to a stage, keeping it in the    *)
(* batch or dropping it.                                                   *)
Moved(w, r, s) ==
  /\ stage' = [stage EXCEPT ![w][r] = s]
  /\ \/ unfinished' = unfinished
     \/ unfinished' = [unfinished EXCEPT ![w] = unfinished[w] \ {r}]

LEMMA CatchMoves ==
  ASSUME NEW w \in Workers, NEW r \in Rows, Catch(w, r)
  PROVE  \E s \in {"out", "halted", "fail"} :
           /\ Moved(w, r, s)
           /\ s = "out" => unfinished' = [unfinished EXCEPT ![w] = unfinished[w] \ {r}]
           /\ s = "fail" => unfinished' = unfinished
  BY DEF Catch, Settle, Leave, Moved

(* A row comes into a lane's hands by a confirm only, still unfinished; it *)
(* goes out of them unstarted, or no longer in the batch.                  *)
LEMMA RowStepMoves ==
  ASSUME TypeOK, HandsInv, NEW w \in Workers, NEW r \in Rows,
         \/ RowStep(w, r) \/ BeginHandler(w, r)
         \/ CompleteRow(w, r) \/ CompleteRowError(w, r)
         \/ FailRow(w, r) \/ FailRowError(w, r)
  PROVE  /\ phase' = phase /\ phase[w] = "lanes"
         /\ \E s \in Stages :
              /\ Moved(w, r, s)
              /\ s \in Running => r \in unfinished[w] /\ unfinished' = unfinished
              /\ s \in Unstarted /\ r \in unfinished'[w] => stage[w][r] \in Unstarted
<1> DEFINE Good(s) == /\ Moved(w, r, s)
                      /\ s \in Running => r \in unfinished[w] /\ unfinished' = unfinished
                      /\ s \in Unstarted /\ r \in unfinished'[w] => stage[w][r] \in Unstarted
<1>1. unfinished \in [Workers -> SUBSET Rows]
  BY DEF TypeOK, WorkerTypeOK
<1>2. stage[w][r] \in Running => phase[w] = "lanes" /\ r \in unfinished[w]
  BY DEF HandsInv, HandsOK
<1>3. phase' = phase
  BY DEF RowStep, Start, Return, Confirm, ConfirmError, Throw, BeginHandler, Begin, CompleteRow, Complete,
         CompleteRowError, CompleteError, FailRow, Fail, FailRowError, FailError
<1>4. phase[w] = "lanes"
  BY <1>2 DEF RowStep, Start, Return, Confirm, ConfirmError, Throw, BeginHandler, Begin, CompleteRow, Complete,
         CompleteRowError, CompleteError, FailRow, Fail, FailRowError, FailError, Running
<1>5. Settle(w, r) => Good("out")
  BY <1>1 DEF Settle, Leave, Moved, Running, Unstarted
<1>6. Catch(w, r) /\ r \in unfinished[w] => Good("out") \/ Good("halted") \/ Good("fail")
  BY <1>1, CatchMoves DEF Running, Unstarted
<1>7. \E s \in Stages : Good(s)
  <2>1. CASE Start(w, r)
    <3>1. /\ stage[w][r] = "waiting" /\ unfinished' = unfinished
          /\ stage' = [stage EXCEPT ![w][r] = IF r \in unfinished[w] THEN "confirm" ELSE "out"]
      BY <2>1 DEF Start
    <3>2. CASE r \in unfinished[w]
      <4>1. Good("confirm")
        BY <3>1, <3>2 DEF Moved, Running, Unstarted
      <4>2. QED BY <4>1 DEF Stages, Running
    <3>3. CASE r \notin unfinished[w]
      <4>1. Good("out")
        BY <3>1, <3>3 DEF Moved, Running, Unstarted
      <4>2. QED BY <4>1 DEF Stages
    <3>4. QED BY <3>2, <3>3
  <2>2. CASE Return(w, r)
    <3>1. Good("complete")
      BY <1>2, <2>2 DEF Return, Moved, Running, Unstarted
    <3>2. QED BY <3>1 DEF Stages, Running
  <2>3. CASE Confirm(w, r)
    <3>1. CASE Owned(w, r)
      <4>1. Good("confirmed")
        BY <1>2, <2>3, <3>1 DEF Confirm, Moved, Running, Unstarted
      <4>2. QED BY <4>1 DEF Stages, Running
    <3>2. CASE ~Owned(w, r)
      BY <1>5, <2>3, <3>2 DEF Confirm, Stages
    <3>3. QED BY <3>1, <3>2
  <2>4. CASE ConfirmError(w, r)
    <3>1. Good("out")
      BY <2>4 DEF ConfirmError, Leave, Moved, Running, Unstarted
    <3>2. QED BY <3>1 DEF Stages
  <2>5. CASE BeginHandler(w, r)
    <3>1. CASE r \in lost[w]
      BY <1>5, <2>5, <3>1 DEF BeginHandler, Begin, Stages
    <3>2. CASE r \notin lost[w]
      <4>1. Good("handle")
        BY <1>2, <2>5, <3>2 DEF BeginHandler, Begin, Moved, Running, Unstarted
      <4>2. QED BY <4>1 DEF Stages, Running
    <3>3. QED BY <3>1, <3>2
  <2>6. CASE Throw(w, r) \/ CompleteRowError(w, r)
    <3>1. Catch(w, r) /\ stage[w][r] \in Running
      BY <2>6 DEF Throw, CompleteRowError, CompleteError, Running
    <3>2. QED BY <1>2, <1>6, <3>1 DEF Stages, Running
  <2>7. CASE CompleteRow(w, r) \/ FailRow(w, r) \/ FailRowError(w, r)
    <3>1. Settle(w, r)
      BY <2>7 DEF CompleteRow, Complete, FailRow, Fail, FailRowError, FailError
    <3>2. QED BY <1>5, <3>1 DEF Stages
  <2>8. QED BY <2>1, <2>2, <2>3, <2>4, <2>5, <2>6, <2>7 DEF RowStep
<1>8. QED BY <1>3, <1>4, <1>7

(* The other steps of a batch start no handler and put no row back into a  *)
(* lane's hands.                                                           *)
LEMMA BatchStepHands ==
  ASSUME TypeOK, HandsInv, NEW w \in Workers,
         RunStep(w) \/ CloseBatch(w) \/ CloseBatchError(w)
  PROVE  /\ HandsInv'
         /\ \A q \in Rows : ToStart(q)' \subseteq ToStart(q)
<1>1. /\ phase \in [Workers -> Phases] /\ unfinished \in [Workers -> SUBSET Rows]
      /\ stage \in [Workers -> [Rows -> Stages]]
  BY DEF TypeOK, WorkerTypeOK
<1>2. SUFFICES ASSUME NEW v \in Workers, NEW q \in Rows
               PROVE  /\ HandsOK(v, q)'
                      /\ (q \in unfinished[v] /\ stage[v][q] \in Unstarted)' =>
                            q \in unfinished[v] /\ stage[v][q] \in Unstarted
  BY DEF HandsInv, ToStart
<1>3. HandsOK(v, q) /\ HandsOK(w, q)
  BY DEF HandsInv
<1>4. CASE Load(w)
  <2>1. PICK L \in SUBSET unfinished[w] :
          /\ unfinished' = [unfinished EXCEPT ![w] = L]
          /\ stage' = [stage EXCEPT ![w] = [x \in Rows |-> IF x \in L THEN "waiting" ELSE "out"]]
    BY <1>4 DEF Load, OwnedOf
  <2>2. phase[w] = "load" /\ phase' = [phase EXCEPT ![w] = "lanes"]
    BY <1>4 DEF Load
  <2>3. CASE v = w
    <3>1. /\ unfinished'[v] = L /\ phase'[v] = "lanes"
          /\ stage'[v][q] = (IF q \in L THEN "waiting" ELSE "out")
      BY <1>1, <2>1, <2>2, <2>3
    <3>2. stage[v][q] = "out"
      BY <1>3, <2>2, <2>3 DEF HandsOK
    <3>3. QED BY <2>1, <2>3, <3>1, <3>2 DEF HandsOK, Running, Unstarted
  <2>4. CASE v # w
    BY <1>1, <1>3, <2>1, <2>2, <2>4 DEF HandsOK
  <2>5. QED BY <2>3, <2>4
<1>5. CASE LoadError(w)
  BY <1>1, <1>3, <1>5 DEF LoadError, HandsOK, Running
<1>6. CASE LanesEnd(w)
  BY <1>1, <1>3, <1>6 DEF LanesEnd, RunningRows, HandsOK
<1>7. CASE Beat(w) \/ BeatError(w) \/ Timeout(w) \/ NextTick(w) \/ Shutdown(w)
  <2>1. UNCHANGED <<phase, unfinished, stage>>
    BY <1>7 DEF Beat, BeatError, Timeout, NextTick, Shutdown
  <2>2. QED BY <1>3, <2>1 DEF HandsOK
<1>8. CASE BeatAnswer(w)
  <2>1. /\ UNCHANGED <<phase, stage>>
        /\ unfinished' = [unfinished EXCEPT ![w] = unfinished[w] \ (missing[w] \ RunningRows(w))]
    BY <1>8 DEF BeatAnswer
  <2>2. q \in unfinished'[v] => q \in unfinished[v]
    BY <1>1, <2>1
  <2>3. stage[v][q] \in Running /\ q \in unfinished[v] => q \in unfinished'[v]
    BY <1>1, <2>1 DEF RunningRows
  <2>4. QED BY <1>3, <2>1, <2>2, <2>3 DEF HandsOK
<1>9. CASE Crash(w) \/ CloseBatch(w) \/ CloseBatchError(w)
  <2>1. Forget(w) /\ phase' \in {[phase EXCEPT ![w] = "dead"], [phase EXCEPT ![w] = "idle"]}
    BY <1>9 DEF Crash, CloseBatch, CloseBatchError, Close, CloseError
  <2>2. CASE v = w
    <3>1. unfinished'[v] = {} /\ stage'[v][q] = "out"
      BY <1>1, <2>1, <2>2 DEF Forget
    <3>2. QED BY <3>1 DEF HandsOK, Running
  <2>3. CASE v # w
    <3>1. unfinished'[v] = unfinished[v] /\ stage'[v][q] = stage[v][q] /\ phase'[v] = phase[v]
      BY <1>1, <2>1, <2>3 DEF Forget
    <3>2. QED BY <1>3, <3>1 DEF HandsOK
  <2>4. QED BY <2>2, <2>3
<1>10. QED BY <1>4, <1>5, <1>6, <1>7, <1>8, <1>9 DEF RunStep

LEMMA RowStepHands ==
  ASSUME TypeOK, HandsInv, NEW w \in Workers, NEW r \in Rows,
         \/ RowStep(w, r) \/ BeginHandler(w, r)
         \/ CompleteRow(w, r) \/ CompleteRowError(w, r)
         \/ FailRow(w, r) \/ FailRowError(w, r)
  PROVE  /\ HandsInv'
         /\ \A q \in Rows : ToStart(q)' \subseteq ToStart(q)
<1>1. /\ unfinished \in [Workers -> SUBSET Rows]
      /\ stage \in [Workers -> [Rows -> Stages]]
  BY DEF TypeOK, WorkerTypeOK
<1>2. PICK s \in Stages :
        /\ Moved(w, r, s)
        /\ s \in Running => r \in unfinished[w] /\ unfinished' = unfinished
        /\ s \in Unstarted /\ r \in unfinished'[w] => stage[w][r] \in Unstarted
  BY RowStepMoves
<1>3. phase' = phase /\ phase[w] = "lanes"
  BY RowStepMoves
<1>4. SUFFICES ASSUME NEW v \in Workers, NEW q \in Rows
               PROVE  /\ HandsOK(v, q)'
                      /\ (q \in unfinished[v] /\ stage[v][q] \in Unstarted)' =>
                            q \in unfinished[v] /\ stage[v][q] \in Unstarted
  BY DEF HandsInv, ToStart
<1>5. HandsOK(v, q)
  BY DEF HandsInv
<1>6. q \in unfinished'[v] => q \in unfinished[v]
  BY <1>1, <1>2 DEF Moved
<1>7. CASE v = w /\ q = r
  <2>1. stage'[v][q] = s
    BY <1>1, <1>2, <1>7 DEF Moved
  <2>2. QED BY <1>1, <1>2, <1>3, <1>6, <1>7, <2>1 DEF HandsOK
<1>8. CASE ~(v = w /\ q = r)
  <2>1. stage'[v][q] = stage[v][q] /\ (q \in unfinished'[v] <=> q \in unfinished[v])
    BY <1>1, <1>2, <1>8 DEF Moved
  <2>2. QED BY <1>3, <1>5, <2>1 DEF HandsOK
<1>9. QED BY <1>7, <1>8

(* A claim hands the row to a worker that had no batch. *)
LEMMA ClaimHands ==
  ASSUME TypeOK, HandsInv, NEW w \in Workers, NEW S \in SUBSET Rows, OpenBatch(w, S)
  PROVE  /\ HandsInv'
         /\ \A q \in Rows : ToStart(q)' \subseteq IF q \in S THEN ToStart(q) \cup {w} ELSE ToStart(q)
<1>1. /\ phase \in [Workers -> Phases] /\ unfinished \in [Workers -> SUBSET Rows]
  BY DEF TypeOK, WorkerTypeOK
<1>2. /\ phase[w] = "idle" /\ phase' = [phase EXCEPT ![w] = "load"]
      /\ unfinished' = [unfinished EXCEPT ![w] = S] /\ stage' = stage
  BY DEF OpenBatch
<1>3. ASSUME NEW v \in Workers, NEW q \in Rows
      PROVE  /\ HandsOK(v, q)'
             /\ (q \in unfinished[v] /\ stage[v][q] \in Unstarted)' =>
                   \/ q \in unfinished[v] /\ stage[v][q] \in Unstarted
                   \/ v = w /\ q \in S
  <2>1. HandsOK(v, q)
    BY DEF HandsInv
  <2>2. CASE v = w
    BY <1>1, <1>2, <2>1, <2>2 DEF HandsOK, Running
  <2>3. CASE v # w
    BY <1>1, <1>2, <2>1, <2>3 DEF HandsOK
  <2>4. QED BY <2>2, <2>3
<1>4. QED BY <1>3 DEF HandsInv, ToStart

-----------------------------------------------------------------------------
(* What a step may do to a row's account: take starts to come away, ... *)
LEMMA FewerToStart ==
  ASSUME TypeOK, TypeOK', NEW q \in Rows, PaidOK(q),
         ToStart(q)' \subseteq ToStart(q),
         requeues'[q] = requeues[q], starts'[q] = starts[q],
         attempts'[q] + refunds'[q] >= attempts[q] + refunds[q], attempts'[q] <= MaxAttempts
  PROVE  PaidOK(q)'
<1>1. PICK U : U = ToStart(q)
  OBVIOUS
<1>2. PICK V : V = ToStart(q)'
  OBVIOUS
<1>3. V \in SUBSET U /\ IsFiniteSet(U)
  BY <1>1, <1>2 DEF PaidOK
<1>4. IsFiniteSet(V) /\ Cardinality(V) <= Cardinality(U)
  BY <1>3, FS_Subset
<1>5. Cardinality(U) \in Nat /\ Cardinality(V) \in Nat
  BY <1>3, <1>4, FS_CardinalityType
<1>6. PICK m \in Nat : m = MaxAttempts * requeues[q]
  BY DEF TypeOK
<1>7. m = MaxAttempts * requeues'[q]
  BY <1>6
<1>8. starts[q] + Cardinality(U) <= m + attempts[q] + refunds[q]
  BY <1>1, <1>6 DEF PaidOK
<1>9. starts'[q] + Cardinality(V) <= m + attempts'[q] + refunds'[q]
  BY <1>4, <1>5, <1>8 DEF TypeOK
<1>10. QED BY <1>2, <1>4, <1>7, <1>9 DEF PaidOK

(* ... turn one into a start, or take one away with the attempt that paid  *)
(* for it, ...                                                             *)
LEMMA OneLessToStart ==
  ASSUME TypeOK, TypeOK', NEW q \in Rows, PaidOK(q), NEW w \in ToStart(q),
         ToStart(q)' \subseteq ToStart(q) \ {w},
         requeues'[q] = requeues[q],
         starts'[q] + attempts[q] + refunds[q] <= starts[q] + 1 + attempts'[q] + refunds'[q],
         attempts'[q] <= MaxAttempts
  PROVE  PaidOK(q)'
<1>1. PICK U : U = ToStart(q)
  OBVIOUS
<1>2. PICK V : V = ToStart(q)'
  OBVIOUS
<1>3. V \in SUBSET (U \ {w}) /\ IsFiniteSet(U) /\ w \in U
  BY <1>1, <1>2 DEF PaidOK
<1>4. IsFiniteSet(U \ {w}) /\ Cardinality(U \ {w}) = Cardinality(U) - 1
  BY <1>3, FS_RemoveElement
<1>5. IsFiniteSet(V) /\ Cardinality(V) <= Cardinality(U \ {w})
  BY <1>3, <1>4, FS_Subset
<1>6. Cardinality(U) \in Nat /\ Cardinality(V) \in Nat /\ Cardinality(V) + 1 <= Cardinality(U)
  BY <1>3, <1>4, <1>5, FS_CardinalityType
<1>7. PICK m \in Nat : m = MaxAttempts * requeues[q]
  BY DEF TypeOK
<1>8. m = MaxAttempts * requeues'[q]
  BY <1>7
<1>9. starts[q] + Cardinality(U) <= m + attempts[q] + refunds[q]
  BY <1>1, <1>7 DEF PaidOK
<1>10. starts'[q] + Cardinality(V) <= m + attempts'[q] + refunds'[q]
  BY <1>6, <1>9 DEF TypeOK
<1>11. QED BY <1>2, <1>5, <1>8, <1>10 DEF PaidOK

(* ... or add one and charge it. *)
LEMMA OneMoreToStart ==
  ASSUME TypeOK, TypeOK', NEW q \in Rows, PaidOK(q), NEW w,
         ToStart(q)' \subseteq ToStart(q) \cup {w},
         requeues'[q] = requeues[q], starts'[q] = starts[q], refunds'[q] = refunds[q],
         attempts'[q] = attempts[q] + 1, attempts[q] < MaxAttempts
  PROVE  PaidOK(q)'
<1>1. PICK U : U = ToStart(q)
  OBVIOUS
<1>2. PICK V : V = ToStart(q)'
  OBVIOUS
<1>3. V \in SUBSET (U \cup {w}) /\ IsFiniteSet(U)
  BY <1>1, <1>2 DEF PaidOK
<1>4. Cardinality(U) \in Nat
  BY <1>3, FS_CardinalityType
<1>5. IsFiniteSet(U \cup {w}) /\ Cardinality(U \cup {w}) <= Cardinality(U) + 1
  <2>1. /\ IsFiniteSet(U \cup {w})
        /\ Cardinality(U \cup {w}) = IF w \in U THEN Cardinality(U) ELSE Cardinality(U) + 1
    BY <1>3, FS_AddElement, Zenon
  <2>2. QED BY <1>4, <2>1
<1>6. IsFiniteSet(V) /\ Cardinality(V) <= Cardinality(U \cup {w})
  BY <1>3, <1>5, FS_Subset
<1>7. Cardinality(V) \in Nat /\ Cardinality(U \cup {w}) \in Nat
  BY <1>5, <1>6, FS_CardinalityType
<1>8. Cardinality(V) <= Cardinality(U) + 1
  BY <1>4, <1>5, <1>6, <1>7
<1>9. PICK m \in Nat : m = MaxAttempts * requeues[q]
  BY DEF TypeOK
<1>10. m = MaxAttempts * requeues'[q]
  BY <1>9
<1>11. starts[q] + Cardinality(U) <= m + attempts[q] + refunds[q]
  BY <1>1, <1>9 DEF PaidOK
<1>12. starts'[q] + Cardinality(V) <= m + attempts'[q] + refunds'[q]
  BY <1>4, <1>7, <1>8, <1>11 DEF TypeOK
<1>13. attempts'[q] <= MaxAttempts
  BY DEF TypeOK
<1>14. QED BY <1>2, <1>6, <1>10, <1>12, <1>13 DEF PaidOK

-----------------------------------------------------------------------------
LEMMA SameHands ==
  ASSUME HandsInv, UNCHANGED <<phase, unfinished, stage>>
  PROVE  /\ HandsInv'
         /\ \A q \in Rows : ToStart(q)' = ToStart(q)
  BY DEF HandsInv, HandsOK, ToStart

(* What the account of a row needs of the table's invariant. *)
LEMMA Charged ==
  ASSUME IInv, StartsInv, NEW q \in Rows
  PROVE  /\ PaidOK(q)
         /\ attempts[q] \in Nat /\ attempts[q] <= MaxAttempts
         /\ requeues[q] \in Nat /\ starts[q] \in Nat /\ refunds[q] \in Nat
         /\ Leased(q) => attempts[q] \in 1..MaxAttempts
  BY DEF IInv, TableInv, RowOK, TypeOK, StartsInv, PaidOK, Leased

(* The table alone: retention, the clock and enqueues leave the account    *)
(* as it is; a requeue by the operator opens a new one.                    *)
LEMMA StartsTable ==
  ASSUME IInv, TypeOK', StartsInv, NEW r \in Rows,
         Enqueue(r) \/ Clock(r) \/ Delete(r) \/ Compact(r) \/ RequeueDeadLetter(r)
  PROVE  StartsInv'
<1>1. UNCHANGED <<phase, unfinished, stage>>
  BY DEF Enqueue, Clock, Delete, Compact, RequeueDeadLetter, workerVars, batchVars
<1>2. HandsInv' /\ \A q \in Rows : ToStart(q)' = ToStart(q)
  BY <1>1, SameHands DEF StartsInv
<1>3. TypeOK /\ UNCHANGED <<starts, refunds>>
  BY DEF IInv, Enqueue, Clock, Delete, Compact, RequeueDeadLetter, ghostVars
<1>4. ASSUME NEW q \in Rows PROVE PaidOK(q)'
  <2>1. CASE RequeueDeadLetter(r) /\ q = r
    <3>1. attempts'[q] = 0 /\ requeues'[q] = requeues[q] + 1
      BY <1>3, <2>1 DEF RequeueDeadLetter, TypeOK
    <3>2. PICK c : c = Cardinality(ToStart(q))
      OBVIOUS
    <3>3. c \in Nat /\ c = Cardinality(ToStart(q)')
      BY <1>2, <3>2, Charged, FS_CardinalityType DEF PaidOK
    <3>4. PICK m \in Nat : m = MaxAttempts * requeues[q]
      BY Charged
    <3>5. MaxAttempts * requeues'[q] = m + MaxAttempts
      BY <3>1, <3>4, Charged
    <3>6. starts[q] + c <= m + attempts[q] + refunds[q]
      BY <3>2, <3>4, Charged DEF PaidOK
    <3>7. starts'[q] + c <= (m + MaxAttempts) + attempts'[q] + refunds'[q]
      BY <1>3, <3>1, <3>3, <3>6, Charged
    <3>8. attempts'[q] <= MaxAttempts
      BY <3>1
    <3>9. IsFiniteSet(ToStart(q)')
      BY <1>2, Charged DEF PaidOK
    <3>10. QED BY <3>3, <3>5, <3>7, <3>8, <3>9 DEF PaidOK
  <2>2. CASE ~(RequeueDeadLetter(r) /\ q = r)
    <3>1. attempts'[q] = attempts[q] /\ requeues'[q] = requeues[q]
      BY <1>3, <2>2 DEF Enqueue, Clock, LeaseRunsOut, BecomesDue, Delete, Compact, RequeueDeadLetter, ghostVars,
                        leaseVars, TypeOK
    <3>2. ToStart(q)' \subseteq ToStart(q) /\ starts'[q] = starts[q] /\ refunds'[q] = refunds[q]
      BY <1>2, <1>3
    <3>3. attempts'[q] + refunds'[q] >= attempts[q] + refunds[q] /\ attempts'[q] <= MaxAttempts
      BY <3>1, <3>2, Charged
    <3>4. QED BY <1>3, <3>1, <3>2, <3>3, Charged, FewerToStart
  <2>3. QED BY <2>1, <2>2
<1>5. QED BY <1>2, <1>4 DEF StartsInv

LEMMA StartsClaim ==
  ASSUME IInv, TypeOK', StartsInv, NEW w \in Workers, Claim(w) \/ ClaimLost(w)
  PROVE  StartsInv'
<1>1. PICK S \in SUBSET {r \in Rows : Claimable(w, r)} : OpenBatch(w, S) \/ ClaimAnswerLost(w, S)
  BY DEF Claim, ClaimLost
<1>2. TypeOK /\ TableTypeOK /\ HandsInv /\ S \in SUBSET Rows
  BY DEF IInv, TableInv, StartsInv
<1>3. /\ \A q \in Rows \ S : Kept(q)
      /\ \A q \in S : attempts'[q] = attempts[q] + 1
  BY <1>1, <1>2, ClaimEffect DEF OpenBatch, ClaimAnswerLost
<1>4. UNCHANGED <<requeues, starts, refunds>>
  BY DEF Claim, ClaimLost, ghostVars
<1>5. /\ HandsInv'
      /\ \A q \in Rows : ToStart(q)' \subseteq IF q \in S THEN ToStart(q) \cup {w} ELSE ToStart(q)
  <2>1. CASE OpenBatch(w, S)
    BY <1>2, <2>1, ClaimHands
  <2>2. CASE ClaimAnswerLost(w, S)
    <3>1. UNCHANGED <<phase, unfinished, stage>>
      BY <2>2 DEF ClaimAnswerLost, batchVars
    <3>2. QED BY <1>2, <3>1, SameHands
  <2>3. QED BY <1>1, <2>1, <2>2
<1>6. ASSUME NEW q \in Rows PROVE PaidOK(q)'
  <2>1. requeues'[q] = requeues[q] /\ starts'[q] = starts[q] /\ refunds'[q] = refunds[q]
    BY <1>4
  <2>2. CASE q \in S
    <3>1. attempts[q] < MaxAttempts /\ attempts'[q] = attempts[q] + 1
      BY <1>1, <1>3, <2>2 DEF Claimable
    <3>2. ToStart(q)' \subseteq ToStart(q) \cup {w}
      BY <1>5, <2>2
    <3>3. QED BY <1>2, <2>1, <3>1, <3>2, Charged, OneMoreToStart
  <2>3. CASE q \notin S
    <3>1. ToStart(q)' \subseteq ToStart(q) /\ attempts'[q] = attempts[q]
      BY <1>3, <1>5, <2>3 DEF Kept
    <3>2. attempts'[q] + refunds'[q] >= attempts[q] + refunds[q] /\ attempts'[q] <= MaxAttempts
      BY <2>1, <3>1, Charged
    <3>3. QED BY <1>2, <2>1, <3>1, <3>2, Charged, FewerToStart
  <2>4. QED BY <2>2, <2>3
<1>7. QED BY <1>5, <1>6 DEF StartsInv

(* A release gives the attempt back: of a row whose handler never started, *)
(* which leaves the batch, or of one whose start is counted as refunded.   *)
LEMMA StartsClose ==
  ASSUME IInv, TypeOK', StartsInv, NEW w \in Workers, CloseBatch(w) \/ CloseBatchError(w)
  PROVE  StartsInv'
<1>1. TypeOK /\ TableTypeOK /\ HandsInv
  BY DEF IInv, TableInv, StartsInv
<1>2. HandsInv' /\ \A q \in Rows : ToStart(q)' \subseteq ToStart(q)
  BY <1>1, BatchStepHands
<1>3. UNCHANGED <<requeues, starts>> /\ CountRefunds(w) /\ phase[w] = "closing" /\ Forget(w)
  BY DEF CloseBatch, CloseBatchError, Close, CloseError
<1>4. UNCHANGED leaseVars \/ ReleaseSql(w, unfinished[w] \cap Rows, ReleaseStatus)
  BY DEF CloseBatch, CloseBatchError, Close, CloseError
<1>5. ASSUME NEW q \in Rows PROVE PaidOK(q)'
  <2>1. /\ requeues'[q] = requeues[q] /\ starts'[q] = starts[q]
        /\ refunds'[q] = IF stage[w][q] = "halted" /\ Owned(w, q) /\ status'[q] # LeasedStatus
                           THEN refunds[q] + 1 ELSE refunds[q]
    BY <1>3 DEF CountRefunds
  <2>2. CASE attempts'[q] = attempts[q]
    <3>1. attempts'[q] + refunds'[q] >= attempts[q] + refunds[q] /\ attempts'[q] <= MaxAttempts
      BY <2>1, <2>2, Charged
    <3>2. ToStart(q)' \subseteq ToStart(q)
      BY <1>2
    <3>3. QED BY <1>1, <2>1, <3>1, <3>2, Charged, FewerToStart
  <2>3. CASE attempts'[q] # attempts[q]
    <3>1. ReleaseSql(w, unfinished[w] \cap Rows, ReleaseStatus)
      BY <1>4, <2>3 DEF leaseVars
    <3>2. unfinished[w] \cap Rows \in SUBSET Rows
      OBVIOUS
    <3>3. /\ ~(q \in unfinished[w] \cap Rows /\ Owned(w, q)) => Kept(q)
          /\ q \in unfinished[w] \cap Rows /\ Owned(w, q) =>
               /\ status'[q] = ReleaseStatus[q]
               /\ attempts'[q] = IF attempts[q] = 0 THEN 0 ELSE attempts[q] - 1
      BY <1>1, <3>1, <3>2, ReleaseEffect
    <3>4. q \in unfinished[w] /\ Owned(w, q)
      BY <2>3, <3>3 DEF Kept
    <3>5. attempts[q] \in 1..MaxAttempts
      BY <3>4, Charged DEF Owned
    <3>6. attempts'[q] = attempts[q] - 1 /\ attempts'[q] <= MaxAttempts
      BY <3>3, <3>4, <3>5
    <3>7. status'[q] # LeasedStatus
      BY <3>3, <3>4 DEF ReleaseStatus
    <3>8. stage[w][q] \in Stages /\ stage[w][q] \notin Running
      BY <1>1, <1>3 DEF HandsInv, HandsOK, TypeOK, WorkerTypeOK
    <3>9. CASE stage[w][q] = "halted"
      <4>1. refunds'[q] = refunds[q] + 1
        BY <2>1, <3>4, <3>7, <3>9
      <4>2. attempts'[q] + refunds'[q] >= attempts[q] + refunds[q]
        BY <3>5, <3>6, <4>1, Charged
      <4>3. ToStart(q)' \subseteq ToStart(q)
        BY <1>2
      <4>4. QED BY <1>1, <2>1, <3>6, <4>2, <4>3, Charged, FewerToStart
    <3>10. CASE stage[w][q] # "halted"
      <4>1. stage[w][q] \in Unstarted
        BY <3>8, <3>10 DEF Stages, Unstarted
      <4>2. w \in ToStart(q)
        BY <3>4, <4>1 DEF ToStart
      <4>3. unfinished'[w] = {}
        BY <1>1, <1>3 DEF Forget, TypeOK, WorkerTypeOK
      <4>4. ToStart(q)' \subseteq ToStart(q) \ {w}
        BY <1>2, <4>3 DEF ToStart
      <4>5. refunds'[q] = refunds[q]
        BY <2>1, <3>10
      <4>6. starts'[q] + attempts[q] + refunds[q] <= starts[q] + 1 + attempts'[q] + refunds'[q]
        BY <2>1, <3>5, <3>6, <4>5, Charged
      <4>7. QED BY <1>1, <2>1, <3>6, <4>2, <4>4, <4>6, Charged, OneLessToStart
    <3>11. QED BY <3>9, <3>10
  <2>4. QED BY <2>2, <2>3
<1>6. QED BY <1>2, <1>5 DEF StartsInv

(* A handler starts: its start was to come, and is made. *)
LEMMA StartsRow ==
  ASSUME IInv, TypeOK', StartsInv, NEW w \in Workers, NEW r \in Rows,
         \/ RowStep(w, r) \/ BeginHandler(w, r)
         \/ CompleteRow(w, r) \/ CompleteRowError(w, r)
         \/ FailRow(w, r) \/ FailRowError(w, r)
  PROVE  StartsInv'
<1>1. TypeOK /\ HandsInv
  BY DEF IInv, StartsInv
<1>2. HandsInv' /\ \A q \in Rows : ToStart(q)' \subseteq ToStart(q)
  BY <1>1, RowStepHands
<1>3. attempts' = attempts /\ UNCHANGED <<requeues, refunds>>
  BY DEF RowStep, Start, Return, Confirm, ConfirmError, MaybeCommitted, RenewSql, Throw, BeginHandler, Begin,
         CompleteRow, Complete, CompleteRowError, CompleteError, FinishSql, FailRow, Fail, FailRowError, FailError,
         leaseVars, ghostVars
<1>4. ASSUME NEW q \in Rows PROVE PaidOK(q)'
  <2>1. /\ requeues'[q] = requeues[q] /\ refunds'[q] = refunds[q] /\ attempts'[q] = attempts[q]
        /\ attempts'[q] <= MaxAttempts
    BY <1>3, Charged
  <2>2. CASE BeginHandler(w, r) /\ r \notin lost[w] /\ q = r
    <3>1. /\ stage[w][r] = "confirmed" /\ stage' = [stage EXCEPT ![w][r] = "handle"]
          /\ starts'[q] = starts[q] + 1
      BY <1>1, <2>2 DEF BeginHandler, Begin, TypeOK
    <3>2. r \in unfinished[w]
      BY <1>1, <3>1 DEF HandsInv, HandsOK, Running
    <3>3. w \in ToStart(q)
      BY <2>2, <3>1, <3>2 DEF ToStart, Unstarted
    <3>4. stage'[w][q] = "handle"
      BY <1>1, <2>2, <3>1 DEF TypeOK, WorkerTypeOK
    <3>5. ToStart(q)' \subseteq ToStart(q) \ {w}
      BY <1>2, <3>4 DEF ToStart, Unstarted
    <3>6. starts'[q] + attempts[q] + refunds[q] <= starts[q] + 1 + attempts'[q] + refunds'[q]
      BY <2>1, <3>1, Charged
    <3>7. QED BY <1>1, <2>1, <3>3, <3>5, <3>6, Charged, OneLessToStart
  <2>3. CASE ~(BeginHandler(w, r) /\ r \notin lost[w] /\ q = r)
    <3>1. starts'[q] = starts[q]
      <4>1. CASE BeginHandler(w, r)
        <5>1. starts' = [starts EXCEPT ![r] = IF r \in lost[w] THEN starts[r] ELSE starts[r] + 1]
          BY <4>1 DEF BeginHandler
        <5>2. starts \in [Rows -> Nat]
          BY <1>1 DEF TypeOK
        <5>3. r \in lost[w] \/ q # r
          BY <2>3, <4>1
        <5>4. QED BY <5>1, <5>2, <5>3
      <4>2. CASE ~BeginHandler(w, r)
        BY <4>2 DEF RowStep, CompleteRow, CompleteRowError, FailRow, FailRowError, ghostVars
      <4>3. QED BY <4>1, <4>2
    <3>2. attempts'[q] + refunds'[q] >= attempts[q] + refunds[q]
      BY <2>1, Charged
    <3>3. ToStart(q)' \subseteq ToStart(q)
      BY <1>2
    <3>4. QED BY <1>1, <2>1, <3>1, <3>2, <3>3, Charged, FewerToStart
  <2>4. QED BY <2>2, <2>3
<1>5. QED BY <1>2, <1>4 DEF StartsInv

LEMMA StartsRest ==
  ASSUME IInv, TypeOK', StartsInv,
         \/ \E w \in Workers : RunStep(w)
         \/ RecoverRequeue \/ RecoverDead
         \/ UNCHANGED vars
  PROVE  StartsInv'
<1>1. TypeOK /\ TableTypeOK /\ HandsInv
  BY DEF IInv, TableInv, StartsInv
<1>2. HandsInv' /\ \A q \in Rows : ToStart(q)' \subseteq ToStart(q)
  <2>1. CASE \E w \in Workers : RunStep(w)
    BY <1>1, <2>1, BatchStepHands
  <2>2. CASE RecoverRequeue \/ RecoverDead \/ UNCHANGED vars
    <3>1. UNCHANGED <<phase, unfinished, stage>>
      BY <2>2 DEF RecoverRequeue, RecoverDead, Recover, vars, workerVars, batchVars
    <3>2. QED BY <1>1, <3>1, SameHands
  <2>3. QED BY <2>1, <2>2
<1>3. UNCHANGED <<requeues, starts, refunds>>
  BY DEF RunStep, RecoverRequeue, RecoverDead, vars, ghostVars
<1>4. attempts' = attempts
  <2>1. CASE \E w \in Workers : RunStep(w)
    BY <2>1 DEF RunStep, Load, LoadError, Beat, RenewSql, BeatAnswer, BeatError, LanesEnd, Timeout, NextTick,
                Shutdown, Crash, leaseVars
  <2>2. CASE RecoverRequeue \/ RecoverDead
    BY <2>2, Zenon DEF RecoverRequeue, RecoverDead, Recover, RecoverSql
  <2>3. CASE UNCHANGED vars
    BY <2>3 DEF vars, leaseVars
  <2>4. QED BY <2>1, <2>2, <2>3
<1>5. ASSUME NEW q \in Rows PROVE PaidOK(q)'
  <2>1. /\ ToStart(q)' \subseteq ToStart(q)
        /\ requeues'[q] = requeues[q] /\ starts'[q] = starts[q] /\ refunds'[q] = refunds[q]
        /\ attempts'[q] = attempts[q]
    BY <1>2, <1>3, <1>4
  <2>2. attempts'[q] + refunds'[q] >= attempts[q] + refunds[q] /\ attempts'[q] <= MaxAttempts
    BY <2>1, Charged
  <2>3. QED BY <1>1, <2>1, <2>2, Charged, FewerToStart
<1>6. QED BY <1>2, <1>5 DEF StartsInv

(* The account of every row holds in every state. *)
LEMMA StartsInvariant == Spec => []StartsInv
<1>1. Init => StartsInv
  <2>1. SUFFICES ASSUME Init PROVE StartsInv
    OBVIOUS
  <2>2. HandsInv
    BY <2>1 DEF Init, WorkerInit, HandsInv, HandsOK, Running
  <2>3. ASSUME NEW q \in Rows PROVE PaidOK(q)
    <3>1. /\ attempts[q] = 0 /\ starts[q] = 0 /\ requeues[q] = 0 /\ refunds[q] = 0
          /\ \A w \in Workers : unfinished[w] = {}
      BY <2>1 DEF Init, WorkerInit
    <3>2. ToStart(q) = {}
      BY <3>1 DEF ToStart
    <3>3. MaxAttempts * requeues[q] = 0
      BY <3>1
    <3>4. QED BY <3>1, <3>2, <3>3, FS_EmptySet DEF PaidOK
  <2>4. QED BY <2>2, <2>3 DEF StartsInv
<1>2. IInv /\ IInv' /\ StartsInv /\ [Next]_vars => StartsInv'
  <2>1. SUFFICES ASSUME IInv, IInv', StartsInv, [Next]_vars PROVE StartsInv'
    OBVIOUS
  <2>2. TypeOK'
    BY <2>1 DEF IInv
  <2>3. QED BY <2>1, <2>2, StartsTable, StartsClaim, StartsClose, StartsRow, StartsRest DEF Next
<1>3. QED BY <1>1, <1>2, InvariantHolds, PTL DEF Spec

(* However the workers interleave, a row's handler starts at most          *)
(* MaxAttempts times per life of the row (its enqueue and each requeue by  *)
(* the operator), not counting the starts a shutdown interrupted and the   *)
(* release refunded.                                                       *)
THEOREM StartsBoundedHolds == Spec => []StartsBounded
<1>1. IInv /\ StartsInv => StartsBounded
  <2>1. SUFFICES ASSUME IInv, StartsInv, NEW q \in Rows
                 PROVE  starts[q] <= MaxAttempts * (1 + requeues[q]) + refunds[q]
    BY DEF StartsBounded
  <2>2. PICK m \in Nat : m = MaxAttempts * requeues[q]
    BY <2>1, Charged
  <2>3. MaxAttempts * (1 + requeues[q]) = MaxAttempts + m
    BY <2>1, <2>2, Charged
  <2>4. PICK c \in Nat : c = Cardinality(ToStart(q))
    BY <2>1, Charged, FS_CardinalityType DEF PaidOK
  <2>5. starts[q] + c <= m + attempts[q] + refunds[q]
    BY <2>1, <2>2, <2>4, Charged DEF PaidOK
  <2>6. starts[q] <= MaxAttempts + m + refunds[q]
    BY <2>1, <2>5, Charged
  <2>7. QED BY <2>3, <2>6
<1>2. QED BY <1>1, InvariantHolds, StartsInvariant, PTL

-----------------------------------------------------------------------------
(* How a lease may end: the body of LeaseEndsRightly for one worker and row. *)
EndsRightly(v, q) ==
  /\ lockedBy'[q] = Nobody
  /\ \/ expired[q]
     \/ stage[v][q] \in {"complete", "fail"}
     \/ phase[v] = "closing" /\ q \in unfinished[v] \ RunningRows(v)

LEMMA LeaseEnds ==
  ASSUME TypeOK, HandsInv, [Next]_vars, NEW v \in Workers, NEW q \in Rows, Owned(v, q), lockedBy'[q] # v
  PROVE  EndsRightly(v, q)
<1>0. TableTypeOK /\ lockedBy[q] = v /\ status[q] = "PROCESSING"
  BY DEF TypeOK, TableTypeOK, Owned, Leased
<1>1. CASE UNCHANGED lockedBy
  BY <1>0, <1>1
<1>2. ASSUME NEW r \in Rows, Enqueue(r) \/ Clock(r) \/ Delete(r) \/ Compact(r) \/ RequeueDeadLetter(r)
      PROVE  UNCHANGED lockedBy
  BY <1>2 DEF Enqueue, Clock, LeaseRunsOut, BecomesDue, Delete, Compact, RequeueDeadLetter, leaseVars
<1>3. ASSUME NEW w \in Workers, Claim(w) \/ ClaimLost(w)
      PROVE  FALSE
  <2>1. PICK S \in SUBSET {r \in Rows : Claimable(w, r)} : ClaimSql(w, S)
    BY <1>3 DEF Claim, ClaimLost, OpenBatch, ClaimAnswerLost
  <2>2. q \notin S
    BY <1>0 DEF Claimable, Queued
  <2>3. Kept(q)
    BY <1>0, <2>1, <2>2, ClaimEffect
  <2>4. QED BY <1>0, <2>3 DEF Kept
<1>4. ASSUME NEW w \in Workers, RunStep(w)
      PROVE  UNCHANGED lockedBy
  BY <1>4 DEF RunStep, Load, LoadError, Beat, RenewSql, BeatAnswer, BeatError, LanesEnd, Timeout, NextTick,
              Shutdown, Crash, leaseVars
<1>5. ASSUME NEW w \in Workers, CloseBatch(w) \/ CloseBatchError(w)
      PROVE  EndsRightly(v, q)
  <2>1. CASE UNCHANGED leaseVars
    BY <1>1, <2>1 DEF leaseVars
  <2>2. CASE ReleaseSql(w, unfinished[w] \cap Rows, ReleaseStatus)
    <3>0. unfinished[w] \cap Rows \in SUBSET Rows
      OBVIOUS
    <3>1. /\ ~(q \in unfinished[w] \cap Rows /\ Owned(w, q)) => Kept(q)
          /\ q \in unfinished[w] \cap Rows /\ Owned(w, q) => lockedBy'[q] = Nobody
      BY <1>0, <2>2, <3>0, ReleaseEffect
    <3>2. q \in unfinished[w] /\ v = w
      BY <1>0, <3>1 DEF Kept, Owned
    <3>3. phase[w] = "closing"
      BY <1>5 DEF CloseBatch, CloseBatchError, Close, CloseError
    <3>4. q \notin RunningRows(v)
      BY <3>2, <3>3 DEF HandsInv, HandsOK, RunningRows
    <3>5. QED BY <3>1, <3>2, <3>3, <3>4 DEF EndsRightly
  <2>3. QED BY <1>5, <2>1, <2>2 DEF CloseBatch, CloseBatchError, Close, CloseError
<1>6. ASSUME NEW w \in Workers, NEW r \in Rows, RowStep(w, r) \/ BeginHandler(w, r)
      PROVE  UNCHANGED lockedBy
  BY <1>6 DEF RowStep, Start, Confirm, ConfirmError, MaybeCommitted, RenewSql, Return, Throw, BeginHandler, Begin,
              leaseVars
<1>7. ASSUME NEW w \in Workers, NEW r \in Rows,
             \/ CompleteRow(w, r) \/ CompleteRowError(w, r)
             \/ FailRow(w, r) \/ FailRowError(w, r)
      PROVE  EndsRightly(v, q)
  <2>1. CASE UNCHANGED leaseVars
    BY <1>1, <2>1 DEF leaseVars
  <2>2. CASE \E s \in Finished \cup {FailedStatus(r)}, d \in BOOLEAN : FinishSql(w, r, s, d)
    <3>1. PICK s \in Finished \cup {FailedStatus(r)}, d \in BOOLEAN : FinishSql(w, r, s, d)
      BY <2>2
    <3>2. s \in Statuses
      BY DEF FailedStatus, Statuses, Finished, Queued
    <3>3. /\ ~(q = r /\ Owned(w, q)) => Kept(q)
          /\ q = r /\ Owned(w, q) => lockedBy'[q] = Nobody
      BY <1>0, <3>1, <3>2, FinishEffect
    <3>4. q = r /\ v = w
      BY <1>0, <3>3 DEF Kept, Owned
    <3>5. stage[w][r] \in {"complete", "fail"}
      BY <1>7 DEF CompleteRow, Complete, CompleteRowError, CompleteError, FailRow, Fail, FailRowError, FailError
    <3>6. QED BY <3>3, <3>4, <3>5 DEF EndsRightly
  <2>3. LastAttempt(r) \in BOOLEAN
    BY DEF LastAttempt
  <2>4. QED
    BY <1>7, <2>1, <2>2, <2>3 DEF CompleteRow, Complete, CompleteRowError, CompleteError, MaybeCommitted,
       FailRow, Fail, FailRowError, FailError
<1>8. CASE RecoverRequeue \/ RecoverDead
  <2>1. /\ ~Stale(q) => Kept(q)
        /\ ~Kept(q) => lockedBy'[q] = Nobody
    BY <1>0, <1>8, RequeueEffect, DeadLetterEffect DEF RecoverRequeue, RecoverDead, Recover
  <2>2. QED BY <1>0, <2>1 DEF Kept, Stale, EndsRightly
<1>9. QED
  BY <1>1, <1>2, <1>3, <1>4, <1>5, <1>6, <1>7, <1>8 DEF Next, vars, leaseVars

(* No statement ends a lease but its holder's own, or recovery once it has *)
(* expired, and a release leaves the rows whose handlers run.              *)
THEOREM LeaseEndsRightlyHolds == Spec => LeaseEndsRightly
<1>1. IInv /\ StartsInv /\ [Next]_vars =>
        [\A w \in Workers, r \in Rows :
           Owned(w, r) /\ lockedBy'[r] # w =>
             /\ lockedBy'[r] = Nobody
             /\ \/ expired[r]
                \/ stage[w][r] \in {"complete", "fail"}
                \/ phase[w] = "closing" /\ r \in unfinished[w] \ RunningRows(w)]_vars
  BY LeaseEnds DEF IInv, StartsInv, EndsRightly
<1>2. QED BY <1>1, InvariantHolds, StartsInvariant, PTL DEF Spec, LeaseEndsRightly

=============================================================================
