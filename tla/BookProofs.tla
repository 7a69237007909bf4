----------------------------- MODULE BookProofs -----------------------------
(***************************************************************************)
(* Proofs about AbstractBook, for every set of jobs, events, requests and  *)
(* workers, every attempt limit and number of faults.                      *)
(*                                                                         *)
(* A step changes the table in one of six ways, on the rows it hits        *)
(* (EveryStepHits). What is about the table alone, and the refinement of   *)
(* LeasedWork, are then about the six; only that a completed job has a book*)
(* also needs what a worker knows when it completes one.                   *)
(***************************************************************************)
EXTENDS AbstractBook, TLAPS

USE NobodyIsNoWorker, BookConstants

JobStatuses == {"ABSENT", "PENDING", "RUNNING", "COMPLETED", "FAILED"}

Table ==
  /\ status \in [Rows -> JobStatuses]
  /\ attempts \in [Rows -> Nat]
  /\ lockedBy \in [Rows -> Workers \cup {Nobody}]
  /\ expired \in [Rows -> BOOLEAN]

Memory ==
  /\ unfinished \in [Workers -> SUBSET Rows]
  /\ stage \in [Workers -> [Rows -> Stages]]
  /\ uploading \in [Workers -> SUBSET Rows]
  /\ file \in [Rows -> Workers \cup {Nobody}]

(* A job waiting has an attempt left, one running is charged for its claim *)
RowOK(r) ==
  /\ status[r] = "PENDING" => attempts[r] < MaxAttempts
  /\ status[r] = "RUNNING" => attempts[r] \in 1..MaxAttempts
  /\ status[r] = "RUNNING" <=> lockedBy[r] # Nobody
  /\ expired[r] => status[r] = "RUNNING"
  /\ status[r] = "ABSENT" => attempts[r] = 0

(* Nobody completes a job before its upload is stored *)
Uploaded == \A w \in Workers, r \in Rows : stage[w][r] = "complete" => file[r] # Nobody

(* The inductive invariant *)
Inv ==
  /\ Table /\ Memory /\ Uploaded
  /\ \A r \in Rows : RowOK(r)
  /\ OneActiveJob /\ CompletedHasBook

-----------------------------------------------------------------------------
(* The six ways in which the table changes *)

Kept(q) ==
  /\ status'[q] = status[q] /\ attempts'[q] = attempts[q]
  /\ lockedBy'[q] = lockedBy[q] /\ expired'[q] = expired[q]

(* The rows of S, and no others, get the status s and the holder h. *)
Written(S, s, h) ==
  /\ \A q \in S : status'[q] = s /\ lockedBy'[q] = h /\ ~expired'[q]
  /\ \A q \in Rows \ S : Kept(q)

Inserted(r) ==
  /\ status[r] = "ABSENT" /\ status' = [status EXCEPT ![r] = "PENDING"]
  /\ \A q \in Rows : EventOf[q] = EventOf[r] => ~ActiveJob(q)
  /\ UNCHANGED <<attempts, lockedBy, expired>>

Taken(w, S) ==
  /\ \A q \in S : Claimable(q) /\ attempts'[q] = attempts[q] + 1
  /\ Written(S, "RUNNING", w)

Renewed(w, S) ==
  /\ \A q \in S : Owned(w, q) /\ attempts'[q] = attempts[q]
  /\ Written(S, "RUNNING", w)

(* Its holder ends a job: completed, failed, or put back for another       *)
(* attempt, which a release does not charge.                               *)
Ended(w, S, s) ==
  /\ \A q \in S :
       /\ Owned(w, q)
       /\ s = "COMPLETED" => file[q] # Nobody
       /\ \/ attempts'[q] = attempts[q] /\ (s = "PENDING" => ~LastAttempt(q))
          \/ attempts'[q] = IF attempts[q] = 0 THEN 0 ELSE attempts[q] - 1
  /\ Written(S, s, Nobody)

TakenAway(S, s) ==
  /\ \A q \in S : Stale(q) /\ attempts'[q] = attempts[q] /\ (s = "PENDING" => ~LastAttempt(q))
  /\ Written(S, s, Nobody)

TableStep ==
  \/ UNCHANGED <<status, attempts, lockedBy, expired>>
  \/ \E r \in Rows : Inserted(r) \/ LeaseRunsOut(r)
  \/ \E w \in Workers, S \in SUBSET Rows : Taken(w, S) \/ Renewed(w, S)
  \/ \E w \in Workers, S \in SUBSET Rows, s \in {"PENDING", "COMPLETED", "FAILED"} : Ended(w, S, s)
  \/ \E S \in SUBSET Rows, s \in {"PENDING", "FAILED"} : TakenAway(S, s)

-----------------------------------------------------------------------------
(* Each statement of the queue is one of the six *)

LEMMA ClaimHits ==
  ASSUME Table, NEW w \in Workers, NEW S \in SUBSET {r \in Rows : Claimable(r)}, ClaimSql(w, S)
  PROVE  Table' /\ TableStep
<1>1. status' \in [Rows -> JobStatuses] /\ attempts' \in [Rows -> Nat]
  BY DEF ClaimSql, Set, Table, JobStatuses
<1>2. lockedBy' \in [Rows -> Workers \cup {Nobody}] /\ expired' \in [Rows -> BOOLEAN]
  BY DEF ClaimSql, Set, Table
<1>3. Taken(w, S)
  BY DEF ClaimSql, Set, Table, Taken, Written, Kept
<1>4. S \in SUBSET Rows
  OBVIOUS
<1>5. QED BY <1>1, <1>2, <1>3, <1>4 DEF Table, TableStep

LEMMA RenewHits ==
  ASSUME Table, NEW w \in Workers, NEW S \in SUBSET Rows, RenewSql(w, S)
  PROVE  Table' /\ TableStep
<1> DEFINE hit == {q \in S : Owned(w, q)}
<1>1. Table'
  BY DEF RenewSql, Set, Table
<1>2. Renewed(w, hit)
  BY DEF RenewSql, Set, Table, OwnedOf, Renewed, Written, Kept, Owned, Leased
<1>3. hit \in SUBSET Rows
  OBVIOUS
<1>4. QED BY <1>1, <1>2, <1>3 DEF TableStep

LEMMA FinishHits ==
  ASSUME Table, NEW w \in Workers, NEW r \in Rows, NEW d,
         NEW s \in {"PENDING", "COMPLETED", "FAILED"}, FinishSql(w, r, s, d),
         s = "COMPLETED" => file[r] # Nobody, s = "PENDING" => ~LastAttempt(r)
  PROVE  Table' /\ TableStep
<1> DEFINE hit == {q \in {r} : Owned(w, q)}
<1>1. status' \in [Rows -> JobStatuses] /\ attempts' \in [Rows -> Nat]
  BY DEF FinishSql, Set, Table, JobStatuses
<1>2. lockedBy' \in [Rows -> Workers \cup {Nobody}] /\ expired' \in [Rows -> BOOLEAN]
  BY DEF FinishSql, Set, Table, ClearLease
<1>3. Ended(w, hit, s)
  BY DEF FinishSql, Set, Table, ClearLease, OwnedOf, Ended, Written, Kept
<1>4. hit \in SUBSET Rows
  OBVIOUS
<1>5. QED BY <1>1, <1>2, <1>3, <1>4 DEF Table, TableStep

LEMMA ReleaseHits ==
  ASSUME Table, NEW w \in Workers, NEW S \in SUBSET Rows,
         ReleaseSql(w, S, [r \in Rows |-> "PENDING"])
  PROVE  Table' /\ TableStep
<1> DEFINE hit == {q \in S : Owned(w, q)}
<1>1. status' \in [Rows -> JobStatuses] /\ attempts' \in [Rows -> Nat]
  BY DEF ReleaseSql, Set, Table, JobStatuses
<1>2. lockedBy' \in [Rows -> Workers \cup {Nobody}] /\ expired' \in [Rows -> BOOLEAN]
  BY DEF ReleaseSql, Set, Table, ClearLease
<1>3. Written(hit, "PENDING", Nobody)
  BY DEF ReleaseSql, Set, Table, ClearLease, OwnedOf, Written, Kept
<1>4. \A q \in hit : attempts'[q] = IF attempts[q] = 0 THEN 0 ELSE attempts[q] - 1
  BY DEF ReleaseSql, Set, OwnedOf
<1>5. hit \in SUBSET Rows /\ Ended(w, hit, "PENDING")
  BY <1>3, <1>4 DEF Ended
<1>6. QED BY <1>1, <1>2, <1>5 DEF Table, TableStep

LEMMA RecoverHits ==
  ASSUME Table, NEW S \in SUBSET Rows, NEW s \in {"PENDING", "FAILED"}, NEW d,
         RecoverSql(S, s, d), s = "PENDING" => \A q \in S : ~LastAttempt(q)
  PROVE  Table' /\ TableStep
<1> DEFINE hit == {q \in S : Stale(q)}
<1>1. status' \in [Rows -> JobStatuses] /\ attempts' \in [Rows -> Nat]
  BY DEF RecoverSql, Set, Table, JobStatuses
<1>2. lockedBy' \in [Rows -> Workers \cup {Nobody}] /\ expired' \in [Rows -> BOOLEAN]
  BY DEF RecoverSql, Set, Table, ClearLease
<1>3. TakenAway(hit, s)
  BY DEF RecoverSql, Set, Table, ClearLease, TakenAway, Written, Kept
<1>4. hit \in SUBSET Rows
  OBVIOUS
<1>5. QED BY <1>1, <1>2, <1>3, <1>4 DEF Table, TableStep

(* Whatever the workers, the recovery job and the requests do, the table   *)
(* changes in one of the six ways.                                         *)
LEMMA EveryStepHits ==
  ASSUME Inv, [Next]_vars
  PROVE  Table' /\ TableStep
<1>0. Table /\ Memory /\ Uploaded
  BY DEF Inv
<1>1. CASE UNCHANGED leaseVars
  BY <1>0, <1>1 DEF leaseVars, Table, TableStep
<1>2. ASSUME NEW S \in SUBSET Rows, NEW s \in {"PENDING", "FAILED"}, NEW d,
             s = "PENDING" => \A q \in S : ~LastAttempt(q), Recover(S, s, d)
      PROVE  Table' /\ TableStep
  BY <1>0, <1>2, RecoverHits DEF Recover
<1>3. (\A q \in Rows \ Exhausted : ~LastAttempt(q)) /\ Rows \ Exhausted \in SUBSET Rows /\ Exhausted \in SUBSET Rows
  BY DEF Exhausted
<1>4. CASE RecoverRequeue \/ RecoverDead
  <2>1. PICK pending \in {"PENDING", "FAILED"}, failed \in {"PENDING", "FAILED"} :
          pending = "PENDING" /\ failed = "FAILED"
    OBVIOUS
  <2>2. CASE RecoverRequeue
    <3>1. Recover(Rows \ Exhausted, pending, FALSE)
      BY <2>1, <2>2 DEF RecoverRequeue
    <3>2. QED BY <1>2, <1>3, <3>1
  <2>3. CASE RecoverDead
    <3>1. Recover(Exhausted, failed, TRUE)
      BY <2>1, <2>3 DEF RecoverDead
    <3>2. QED BY <1>2, <1>3, <2>1, <3>1
  <2>4. QED BY <1>4, <2>2, <2>3
<1>5. ASSUME NEW q \in Requests, AskRequeue(q) \/ AskBury(q)
      PROVE  Table' /\ TableStep
  <2>1. PICK pending \in {"PENDING", "FAILED"}, failed \in {"PENDING", "FAILED"} :
          pending = "PENDING" /\ failed = "FAILED"
    OBVIOUS
  <2>2. JobsOf(q) \ Exhausted \in SUBSET Rows /\ JobsOf(q) \cap Exhausted \in SUBSET Rows
    BY DEF JobsOf
  <2>3. \/ UNCHANGED leaseVars
        \/ Recover(JobsOf(q) \ Exhausted, pending, FALSE)
        \/ Recover(JobsOf(q) \cap Exhausted, failed, TRUE)
    BY <1>5, <2>1 DEF AskRequeue, AskBury, RecoverOrNone
  <2>4. \A p \in JobsOf(q) \ Exhausted : ~LastAttempt(p)
    BY DEF JobsOf, Exhausted
  <2>5. QED BY <1>1, <1>2, <2>1, <2>2, <2>3, <2>4
<1>6. ASSUME NEW q \in Requests, AskCheck(q) \/ AskInsert(q) \/ AskAgain(q)
      PROVE  Table' /\ TableStep
  <2>1. CASE UNCHANGED leaseVars
    BY <1>1, <2>1
  <2>2. CASE AskInsert(q) /\ ~HasActive(q)
    <3>1. PICK r \in JobsOf(q) : status[r] = "ABSENT" /\ status' = [status EXCEPT ![r] = "PENDING"]
      BY <2>2 DEF AskInsert
    <3>2. r \in Rows /\ UNCHANGED <<attempts, lockedBy, expired>>
      BY <2>2 DEF AskInsert, JobsOf
    <3>3. Table'
      BY <1>0, <3>1, <3>2 DEF Table, JobStatuses
    <3>4. \A p \in Rows : EventOf[p] = EventOf[r] => ~ActiveJob(p)
      BY <2>2 DEF HasActive, JobsOf
    <3>5. QED BY <3>1, <3>2, <3>3, <3>4 DEF Inserted, TableStep
  <2>3. QED
    BY <1>6, <2>1, <2>2 DEF AskCheck, AskInsert, AskAgain
<1>7. ASSUME NEW r \in Rows, Clock(r)
      PROVE  Table' /\ TableStep
  BY <1>0, <1>7 DEF Clock, LeaseRunsOut, BecomesDue, Table, TableStep
<1>8. ASSUME NEW w \in Workers,
             Claim(w) \/ ClaimLost(w) \/ RunStep(w) \/ CrashWorker(w) \/ CloseBatch(w) \/ CloseBatchError(w)
      PROVE  Table' /\ TableStep
  <2>1. unfinished[w] \in SUBSET Rows /\ unfinished[w] \cap Rows \in SUBSET Rows
    BY <1>0 DEF Memory
  <2>2. CASE Claim(w) \/ ClaimLost(w)
    <3>1. PICK S \in SUBSET {r \in Rows : Claimable(r)} : ClaimSql(w, S)
      BY <2>2 DEF Claim, ClaimLost, OpenBatch, ClaimAnswerLost
    <3>2. QED BY <1>0, <3>1, ClaimHits
  <2>3. CASE RunStep(w)
    <3>1. UNCHANGED leaseVars \/ RenewSql(w, unfinished[w])
      BY <2>3 DEF RunStep, Load, LoadError, Beat, BeatAnswer, BeatError, LanesEnd, Timeout, NextTick, Shutdown
    <3>2. QED BY <1>0, <1>1, <2>1, <3>1, RenewHits
  <2>4. CASE CrashWorker(w)
    BY <1>1, <2>4 DEF CrashWorker, Crash
  <2>5. CASE CloseBatch(w) \/ CloseBatchError(w)
    <3>1. UNCHANGED leaseVars \/ ReleaseSql(w, unfinished[w] \cap Rows, [r \in Rows |-> "PENDING"])
      BY <2>5 DEF CloseBatch, CloseBatchError, Close, CloseError
    <3>2. QED BY <1>0, <1>1, <2>1, <3>1, ReleaseHits
  <2>6. QED BY <1>8, <2>2, <2>3, <2>4, <2>5
<1>9. ASSUME NEW w \in Workers, NEW r \in Rows,
             \/ RowStep(w, r) \/ BeginHandler(w, r)
             \/ RenderBreaks(w, r) \/ StartUpload(w, r) \/ UploadDone(w, r) \/ UploadError(w, r)
      PROVE  Table' /\ TableStep
  <2>1. {r} \in SUBSET Rows
    OBVIOUS
  <2>2. UNCHANGED leaseVars \/ RenewSql(w, {r})
    BY <1>9 DEF RowStep, BeginHandler, Start, Confirm, ConfirmError, MaybeCommitted, Begin,
         RenderBreaks, StartUpload, UploadDone, UploadError, Return, Throw
  <2>3. QED BY <1>0, <1>1, <2>1, <2>2, RenewHits
<1>10. ASSUME NEW w \in Workers, NEW r \in Rows, CompleteRow(w, r) \/ CompleteRowError(w, r)
       PROVE  Table' /\ TableStep
  <2>1. PICK s \in {"PENDING", "COMPLETED", "FAILED"} : s = "COMPLETED"
    OBVIOUS
  <2>2. UNCHANGED leaseVars \/ FinishSql(w, r, s, TRUE)
    BY <1>10, <2>1 DEF CompleteRow, CompleteRowError, Complete
  <2>3. stage[w][r] = "complete"
    BY <1>10 DEF CompleteRow, CompleteRowError, Complete
  <2>4. file[r] # Nobody /\ s # "PENDING"
    BY <1>0, <2>1, <2>3 DEF Uploaded
  <2>5. QED BY <1>0, <1>1, <2>2, <2>4, FinishHits
<1>11. ASSUME NEW w \in Workers, NEW r \in Rows, FailRow(w, r) \/ FailRowError(w, r)
       PROVE  Table' /\ TableStep
  <2>1. PICK s \in {"PENDING", "COMPLETED", "FAILED"} : s = FailedStatus(r)
    BY DEF FailedStatus
  <2>2. UNCHANGED leaseVars \/ FinishSql(w, r, s, LastAttempt(r))
    BY <1>11, <2>1 DEF FailRow, FailRowError, Fail, FailError
  <2>3. s # "COMPLETED" /\ (s = "PENDING" => ~LastAttempt(r))
    BY <2>1 DEF FailedStatus
  <2>4. QED BY <1>0, <1>1, <2>2, <2>3, FinishHits
<1>12. CASE UNCHANGED vars
  BY <1>1, <1>12 DEF vars
<1>13. QED
  BY <1>4, <1>5, <1>6, <1>7, <1>8, <1>9, <1>10, <1>11, <1>12 DEF Next

-----------------------------------------------------------------------------
(* What the six ways keep *)

(* A row in a waiting, running or finished status does not become active   *)
(* otherwise than by staying so, but for the row inserted.                 *)
LEMMA TableInvariance ==
  ASSUME Table, Table', TableStep, \A r \in Rows : RowOK(r), OneActiveJob
  PROVE  (\A r \in Rows : RowOK(r)') /\ OneActiveJob'
<1> DEFINE Good == \A r \in Rows : RowOK(r)'
           NoneBorn == \A r \in Rows : ActiveJob(r)' => ActiveJob(r)
<1>0. NoneBorn => OneActiveJob'
  BY DEF OneActiveJob
<1>1. CASE UNCHANGED <<status, attempts, lockedBy, expired>>
  BY <1>0, <1>1 DEF RowOK, ActiveJob
<1>2. ASSUME NEW r \in Rows, Inserted(r)
      PROVE  Good /\ OneActiveJob'
  <2>1. Good
    BY <1>2 DEF Inserted, RowOK, Table
  <2>2. \A q \in Rows : ActiveJob(q)' => ActiveJob(q) \/ q = r
    BY <1>2 DEF Inserted, ActiveJob, Table
  <2>3. OneActiveJob'
    BY <1>2, <2>2 DEF Inserted, OneActiveJob
  <2>4. QED BY <2>1, <2>3
<1>3. ASSUME NEW r \in Rows, LeaseRunsOut(r)
      PROVE  Good /\ NoneBorn
  BY <1>3 DEF LeaseRunsOut, Leased, RowOK, ActiveJob, Table
<1>4. ASSUME NEW w \in Workers, NEW S \in SUBSET Rows, Taken(w, S)
      PROVE  Good /\ NoneBorn
  <2>1. \A q \in S : status[q] = "PENDING" /\ attempts[q] < MaxAttempts /\ attempts[q] \in Nat
    BY <1>4 DEF Taken, Claimable, Table
  <2>2. QED BY <1>4, <2>1 DEF Taken, Written, Kept, RowOK, ActiveJob
<1>5. ASSUME NEW w \in Workers, NEW S \in SUBSET Rows, Renewed(w, S)
      PROVE  Good /\ NoneBorn
  BY <1>5 DEF Renewed, Written, Kept, RowOK, ActiveJob, Owned, Leased
<1>6. ASSUME NEW w \in Workers, NEW S \in SUBSET Rows, NEW s \in {"PENDING", "COMPLETED", "FAILED"}, Ended(w, S, s)
      PROVE  Good /\ NoneBorn
  <2>1. \A q \in S : status[q] = "RUNNING" /\ attempts[q] \in 1..MaxAttempts
    BY <1>6 DEF Ended, Owned, Leased, RowOK
  <2>2. NoneBorn
    BY <1>6, <2>1 DEF Ended, Written, Kept, ActiveJob
  <2>3. \A q \in S : s = "PENDING" => attempts'[q] < MaxAttempts
    BY <1>6, <2>1 DEF Ended, LastAttempt
  <2>4. Good
    BY <1>6, <2>3 DEF Ended, Written, Kept, RowOK
  <2>5. QED BY <2>2, <2>4
<1>7. ASSUME NEW S \in SUBSET Rows, NEW s \in {"PENDING", "FAILED"}, TakenAway(S, s)
      PROVE  Good /\ NoneBorn
  <2>1. \A q \in S : status[q] = "RUNNING" /\ attempts[q] \in 1..MaxAttempts
    BY <1>7 DEF TakenAway, Stale, Leased, RowOK
  <2>2. NoneBorn
    BY <1>7, <2>1 DEF TakenAway, Written, Kept, ActiveJob
  <2>3. \A q \in S : s = "PENDING" => attempts'[q] < MaxAttempts
    BY <1>7, <2>1 DEF TakenAway, LastAttempt
  <2>4. Good
    BY <1>7, <2>3 DEF TakenAway, Written, Kept, RowOK
  <2>5. QED BY <2>2, <2>4
<1>8. QED
  BY <1>0, <1>1, <1>2, <1>3, <1>4, <1>5, <1>6, <1>7 DEF TableStep

(* A job becomes COMPLETED only by its holder's write, with a book stored. *)
LEMMA CompletedWithBook ==
  ASSUME Table, Table', TableStep, CompletedHasBook, NEW r \in Rows, status'[r] = "COMPLETED"
  PROVE  file[r] # Nobody
<1>1. CASE status'[r] = status[r]
  BY <1>1 DEF CompletedHasBook
<1>2. CASE status'[r] # status[r]
  <2>1. PICK w \in Workers, S \in SUBSET Rows, s \in {"PENDING", "COMPLETED", "FAILED"} : Ended(w, S, s)
    BY <1>2 DEF TableStep, Inserted, LeaseRunsOut, Taken, Renewed, TakenAway, Written, Kept, Table
  <2>2. QED BY <1>2, <2>1 DEF Ended, Written, Kept
<1>3. QED BY <1>1, <1>2

-----------------------------------------------------------------------------
(* The workers' memory and the storage *)

FilesStay == file' \in [Rows -> Workers \cup {Nobody}] /\ \A r \in Rows : file[r] # Nobody => file'[r] # Nobody

NoneNewlyComplete ==
  \A w \in Workers, r \in Rows : stage'[w][r] = "complete" => stage[w][r] = "complete"

LEMMA StoredStays ==
  ASSUME Memory, NEW w \in Workers, NEW S \in SUBSET Rows, Stored(w, S) \/ UNCHANGED file
  PROVE  FilesStay
  BY DEF Memory, Stored, Set, FilesStay

(* handleOne's moves of one row, but for the handler's return *)
LEMMA RowMemory ==
  ASSUME Memory, NEW w \in Workers, NEW r \in Rows, NEW s \in Stages \ {"complete"},
         stage' = [stage EXCEPT ![w][r] = s],
         unfinished' = [unfinished EXCEPT ![w] = @ \ {r}] \/ unfinished' = unfinished
  PROVE  /\ stage' \in [Workers -> [Rows -> Stages]] /\ unfinished' \in [Workers -> SUBSET Rows]
         /\ NoneNewlyComplete
<1>1. stage' \in [Workers -> [Rows -> Stages]] /\ unfinished' \in [Workers -> SUBSET Rows]
  BY DEF Memory
<1>2. NoneNewlyComplete
  BY DEF Memory, NoneNewlyComplete
<1>3. QED BY <1>1, <1>2

LEMMA CatchStage ==
  ASSUME NEW w \in Workers, NEW r \in Rows, Catch(w, r)
  PROVE  /\ \E s \in Stages \ {"complete"} : stage' = [stage EXCEPT ![w][r] = s]
         /\ unfinished' = [unfinished EXCEPT ![w] = @ \ {r}] \/ unfinished' = unfinished
  BY DEF Catch, Settle, Leave, Stages, Running

LEMMA MemoryStep ==
  ASSUME Inv, [Next]_vars
  PROVE  Memory' /\ Uploaded' /\ \A r \in Rows : file[r] # Nobody => file'[r] # Nobody
<1> DEFINE Fine == Memory' /\ FilesStay /\ NoneNewlyComplete
<1>0. Memory /\ Uploaded
  BY DEF Inv
<1>1. Fine => Memory' /\ Uploaded' /\ \A r \in Rows : file[r] # Nobody => file'[r] # Nobody
  BY <1>0 DEF FilesStay, NoneNewlyComplete, Uploaded
<1>2. ASSUME UNCHANGED <<stage, unfinished, uploading, file>>
      PROVE  Fine
  BY <1>0, <1>2 DEF Memory, FilesStay, NoneNewlyComplete
<1>3. CASE RecoverRequeue \/ RecoverDead
  BY <1>1, <1>2, <1>3 DEF RecoverRequeue, RecoverDead, Recover, batchVars, bookVars
<1>4. ASSUME NEW q \in Requests, AskRequeue(q) \/ AskBury(q) \/ AskCheck(q) \/ AskInsert(q) \/ AskAgain(q)
      PROVE  Fine
  BY <1>2, <1>4 DEF AskRequeue, AskBury, AskCheck, AskInsert, AskAgain, RecoverOrNone, Recover, Goes,
       workerVars, batchVars
<1>5. ASSUME NEW r \in Rows, Clock(r)
      PROVE  Fine
  BY <1>2, <1>5 DEF Clock, workerVars, batchVars, bookVars
<1>6. ASSUME NEW w \in Workers, Claim(w) \/ ClaimLost(w) \/ RunStep(w) \/ CloseBatch(w) \/ CloseBatchError(w)
      PROVE  Fine
  <2>1. UNCHANGED <<uploading, file>>
    BY <1>6 DEF Claim, ClaimLost, RunStep, CloseBatch, CloseBatchError, bookVars
  <2>2. \/ UNCHANGED stage
        \/ stage' = [stage EXCEPT ![w] = [r \in Rows |-> "out"]]
        \/ stage' = [stage EXCEPT ![w] = [r \in Rows |->
                        IF r \in OwnedOf(w, unfinished[w]) THEN "waiting" ELSE "out"]]
    <3>1. CASE CloseBatch(w) \/ CloseBatchError(w)
      BY <3>1 DEF CloseBatch, CloseBatchError, Close, CloseError, Forget
    <3>2. CASE Claim(w) \/ ClaimLost(w)
      BY <3>2 DEF Claim, ClaimLost, OpenBatch, ClaimAnswerLost, batchVars
    <3>3. CASE Load(w)
      BY <3>3 DEF Load
    <3>4. CASE RunStep(w) /\ ~Load(w)
      BY <3>4 DEF RunStep, LoadError, Beat, BeatAnswer, BeatError, LanesEnd, Timeout, NextTick, Shutdown
    <3>5. QED BY <1>6, <3>1, <3>2, <3>3, <3>4
  <2>3. stage' \in [Workers -> [Rows -> Stages]] /\ NoneNewlyComplete
    <3>1. CASE UNCHANGED stage
      BY <1>0, <3>1 DEF Memory, NoneNewlyComplete
    <3>2. ASSUME NEW row \in [Rows -> {"waiting", "out"}], stage' = [stage EXCEPT ![w] = row]
          PROVE  stage' \in [Workers -> [Rows -> Stages]] /\ NoneNewlyComplete
      <4>1. row \in [Rows -> Stages] /\ \A r \in Rows : row[r] # "complete"
        BY DEF Stages
      <4>2. stage' \in [Workers -> [Rows -> Stages]]
        BY <1>0, <3>2, <4>1 DEF Memory
      <4>3. NoneNewlyComplete
        BY <1>0, <3>2, <4>1 DEF Memory, NoneNewlyComplete
      <4>4. QED BY <4>2, <4>3
    <3>3. /\ [r \in Rows |-> "out"] \in [Rows -> {"waiting", "out"}]
          /\ [r \in Rows |-> IF r \in OwnedOf(w, unfinished[w]) THEN "waiting" ELSE "out"]
               \in [Rows -> {"waiting", "out"}]
      OBVIOUS
    <3>4. QED BY <2>2, <3>1, <3>2, <3>3
  <2>4. unfinished' = unfinished \/ \E T \in SUBSET Rows : unfinished' = [unfinished EXCEPT ![w] = T]
    <3>1. unfinished[w] \in SUBSET Rows
      BY <1>0 DEF Memory
    <3>2. CASE Claim(w) \/ ClaimLost(w)
      BY <3>2 DEF Claim, ClaimLost, OpenBatch, ClaimAnswerLost, batchVars
    <3>3. CASE Load(w)
      <4>1. OwnedOf(w, unfinished[w]) \in SUBSET Rows
        BY <3>1 DEF OwnedOf
      <4>2. QED BY <3>3, <4>1 DEF Load
    <3>4. CASE BeatAnswer(w)
      <4>1. unfinished' = [unfinished EXCEPT ![w] = unfinished[w] \ (missing[w] \ RunningRows(w))]
        BY <3>4 DEF BeatAnswer
      <4>2. unfinished[w] \ (missing[w] \ RunningRows(w)) \in SUBSET Rows
        BY <3>1
      <4>3. QED BY <4>1, <4>2
    <3>5. CASE RunStep(w) /\ ~Load(w) /\ ~BeatAnswer(w)
      BY <3>5 DEF RunStep, LoadError, Beat, BeatError, LanesEnd, Timeout, NextTick, Shutdown
    <3>6. CASE CloseBatch(w) \/ CloseBatchError(w)
      <4>1. unfinished' = [unfinished EXCEPT ![w] = {}] /\ {} \in SUBSET Rows
        BY <3>6 DEF CloseBatch, CloseBatchError, Close, CloseError, Forget
      <4>2. QED BY <4>1
    <3>7. QED BY <1>6, <3>2, <3>3, <3>4, <3>5, <3>6
  <2>5. unfinished' \in [Workers -> SUBSET Rows]
    BY <1>0, <2>4 DEF Memory
  <2>6. QED BY <1>0, <2>1, <2>3, <2>5 DEF Memory, FilesStay
<1>7. ASSUME NEW w \in Workers, CrashWorker(w)
      PROVE  Fine
  <2>1. uploading[w] \in SUBSET Rows
    BY <1>0 DEF Memory
  <2>2. FilesStay
    BY <1>0, <1>7, <2>1, StoredStays DEF CrashWorker
  <2>3. /\ uploading' = [uploading EXCEPT ![w] = {}] /\ unfinished' = [unfinished EXCEPT ![w] = {}]
        /\ stage' = [stage EXCEPT ![w] = [r \in Rows |-> "out"]]
    BY <1>7 DEF CrashWorker, Crash, Forget
  <2>4. Memory' /\ NoneNewlyComplete
    BY <1>0, <2>2, <2>3 DEF Memory, NoneNewlyComplete, FilesStay, Stages
  <2>5. QED BY <2>2, <2>4
<1>8. ASSUME NEW w \in Workers, NEW r \in Rows,
             \/ RowStep(w, r) \/ BeginHandler(w, r) \/ RenderBreaks(w, r) \/ UploadError(w, r)
             \/ CompleteRow(w, r) \/ CompleteRowError(w, r) \/ FailRow(w, r) \/ FailRowError(w, r)
      PROVE  Fine
  <2>1. /\ \E s \in Stages \ {"complete"} : stage' = [stage EXCEPT ![w][r] = s]
        /\ unfinished' = [unfinished EXCEPT ![w] = @ \ {r}] \/ unfinished' = unfinished
    <3>1. CASE RenderBreaks(w, r) \/ UploadError(w, r) \/ CompleteRowError(w, r)
      BY <3>1, CatchStage DEF RenderBreaks, UploadError, CompleteRowError, Throw
    <3>2. CASE CompleteRow(w, r) \/ FailRow(w, r) \/ FailRowError(w, r)
      BY <3>2 DEF CompleteRow, FailRow, FailRowError, Complete, Fail, FailError, Settle, Leave, Stages, Running
    <3>3. CASE RowStep(w, r)
      BY <3>3 DEF RowStep, Start, Confirm, ConfirmError, Settle, Leave, Stages, Running
    <3>4. CASE BeginHandler(w, r)
      BY <3>4 DEF BeginHandler, Begin, Settle, Leave, Stages, Running
    <3>5. QED BY <1>8, <3>1, <3>2, <3>3, <3>4
  <2>2. {r} \in SUBSET Rows
    OBVIOUS
  <2>3. FilesStay
    <3>1. Stored(w, {r}) \/ UNCHANGED file
      BY <1>8 DEF RowStep, BeginHandler, RenderBreaks, UploadError, CompleteRow, CompleteRowError,
           FailRow, FailRowError, bookVars
    <3>2. QED BY <1>0, <2>2, <3>1, StoredStays
  <2>4. uploading' = [uploading EXCEPT ![w] = @ \ {r}] \/ uploading' = uploading
    BY <1>8 DEF RowStep, BeginHandler, RenderBreaks, UploadError, CompleteRow, CompleteRowError,
         FailRow, FailRowError, bookVars
  <2>5. uploading' \in [Workers -> SUBSET Rows]
    BY <1>0, <2>4 DEF Memory
  <2>6. QED BY <1>0, <2>1, <2>3, <2>5, RowMemory DEF Memory, FilesStay
<1>9. ASSUME NEW w \in Workers, NEW r \in Rows, StartUpload(w, r)
      PROVE  Fine
  <2>1. uploading' = [uploading EXCEPT ![w] = @ \cup {r}] /\ UNCHANGED <<stage, unfinished, file>>
    BY <1>9 DEF StartUpload, workerVars, batchVars
  <2>2. QED BY <1>0, <2>1 DEF Memory, FilesStay, NoneNewlyComplete
<1>10. ASSUME NEW w \in Workers, NEW r \in Rows, UploadDone(w, r)
       PROVE  Memory' /\ Uploaded' /\ \A q \in Rows : file[q] # Nobody => file'[q] # Nobody
  <2>1. /\ stage' = [stage EXCEPT ![w][r] = "complete"] /\ UNCHANGED unfinished
        /\ uploading' = [uploading EXCEPT ![w] = @ \ {r}]
        /\ Stored(w, {r})
    BY <1>10 DEF UploadDone, Return
  <2>2. {r} \in SUBSET Rows
    OBVIOUS
  <2>3. FilesStay /\ file'[r] # Nobody
    <3>1. FilesStay
      BY <1>0, <2>1, <2>2, StoredStays
    <3>2. file'[r] = w
      BY <2>1 DEF Stored, Set
    <3>3. QED BY <3>1, <3>2
  <2>4. Memory'
    BY <1>0, <2>1, <2>3 DEF Memory, FilesStay, Stages, Running
  <2>5. \A v \in Workers, q \in Rows : stage'[v][q] = "complete" => stage[v][q] = "complete" \/ q = r
    BY <1>0, <2>1 DEF Memory
  <2>6. Uploaded'
    BY <1>0, <2>3, <2>5 DEF Uploaded, FilesStay
  <2>7. QED BY <2>3, <2>4, <2>6 DEF FilesStay
<1>11. CASE UNCHANGED vars
  BY <1>1, <1>2, <1>11 DEF vars, workerVars, batchVars, bookVars
<1>12. QED
  BY <1>1, <1>3, <1>4, <1>5, <1>6, <1>7, <1>8, <1>9, <1>10, <1>11 DEF Next

-----------------------------------------------------------------------------
(* The properties *)

LEMMA Initially ==
  ASSUME Init
  PROVE  Inv
<1>1. Table /\ Memory
  BY DEF Init, WorkerInit, Table, Memory, JobStatuses, Stages
<1>2. Uploaded /\ OneActiveJob /\ CompletedHasBook
  BY DEF Init, WorkerInit, Uploaded, OneActiveJob, ActiveJob, CompletedHasBook
<1>3. \A r \in Rows : RowOK(r)
  BY DEF Init, RowOK
<1>4. QED BY <1>1, <1>2, <1>3 DEF Inv

(* What holds in every state: the rows have an attempt left or are charged *)
(* for the one that runs, an event has one active job, a worker completes  *)
(* a job only after its upload.                                            *)
THEOREM BookInvariant == Spec => []Inv
<1>1. Init => Inv
  BY Initially
<1>2. ASSUME Inv, [Next]_vars
      PROVE  Inv'
  <2>1. Table /\ (\A r \in Rows : RowOK(r)) /\ OneActiveJob /\ CompletedHasBook
    BY <1>2 DEF Inv
  <2>2. Table' /\ TableStep
    BY <1>2, EveryStepHits
  <2>3. Memory' /\ Uploaded' /\ \A r \in Rows : file[r] # Nobody => file'[r] # Nobody
    BY <1>2, MemoryStep
  <2>4. (\A r \in Rows : RowOK(r)') /\ OneActiveJob'
    BY <2>1, <2>2, TableInvariance
  <2>5. CompletedHasBook'
    <3>1. \A r \in Rows : status'[r] = "COMPLETED" => file[r] # Nobody
      BY <2>1, <2>2, CompletedWithBook
    <3>2. QED BY <2>3, <3>1 DEF CompletedHasBook
  <2>6. QED BY <2>2, <2>3, <2>4, <2>5 DEF Inv
<1>3. QED BY <1>1, <1>2, PTL DEF Spec

(* An event has at most one job PENDING or RUNNING, although requests find *)
(* none and insert in two statements, and the recovery of one request runs *)
(* between those of another (enqueueAbstractBookJob, the partial unique    *)
(* index).                                                                 *)
THEOREM OneActiveJobHolds == Spec => []OneActiveJob
<1>1. Inv => OneActiveJob
  BY DEF Inv
<1>2. QED BY <1>1, BookInvariant, PTL

(* A COMPLETED job has a book in the storage, whichever worker uploaded it *)
(* and whatever became of that worker (AbstractBookJob's render, the       *)
(* upload before completeAbstractBookJob).                                 *)
THEOREM CompletedHasBookHolds == Spec => []CompletedHasBook
<1>1. Inv => CompletedHasBook
  BY DEF Inv
<1>2. QED BY <1>1, BookInvariant, PTL

(* A PENDING job always has an attempt left, so that it can be claimed:    *)
(* claim, release, failure and recovery each test or change the count of a *)
(* job in another state (claimable, LastAttempt).                          *)
NeverWedged == \A r \in Rows : status[r] = "PENDING" => attempts[r] < MaxAttempts

THEOREM BookNeverWedged == Spec => []NeverWedged
<1>1. Inv => NeverWedged
  BY DEF Inv, RowOK, NeverWedged
<1>2. QED BY <1>1, BookInvariant, PTL

-----------------------------------------------------------------------------
(* The refinement: each of the six is matched with the abstract action on  *)
(* the rows it hits.                                                       *)

LEMMA WorkStates ==
  ASSUME NEW r \in Rows
  PROVE  /\ status[r] = "ABSENT" => WorkState(r) = "absent"
         /\ status[r] = "PENDING" => WorkState(r) = "waiting"
         /\ status[r] = "RUNNING" => WorkState(r) = "held"
         /\ status'[r] = "PENDING" => WorkState(r)' = "waiting"
         /\ status'[r] = "RUNNING" => WorkState(r)' = "held"
         /\ status'[r] = "COMPLETED" => WorkState(r)' = "done"
         /\ status'[r] = "FAILED" => WorkState(r)' = "dead"
         /\ status'[r] = status[r] => WorkState(r)' = WorkState(r)
  BY DEF WorkState

AbstractStep == Work!WorkNext \/ UNCHANGED Work!workVars

LEMMA SameTable ==
  ASSUME UNCHANGED <<status, lockedBy, expired>>
  PROVE  AbstractStep
<1>1. [r \in Rows |-> WorkState(r)]' = [r \in Rows |-> WorkState(r)]
  BY DEF WorkState
<1>2. QED BY <1>1 DEF Work!workVars, AbstractStep

(* The abstract step that moves the rows of S, from the rows it hits *)
LEMMA MovedRows ==
  ASSUME Table, Table', NEW S \in SUBSET Rows, NEW s, NEW to, NEW h,
         \A q \in S : status'[q] = s /\ WorkState(q)' = to /\ lockedBy'[q] = h /\ ~expired'[q],
         \A q \in Rows \ S : status'[q] = status[q] /\ lockedBy'[q] = lockedBy[q] /\ expired'[q] = expired[q]
  PROVE  Work!Moved(S, to, h)
<1>1. \A q \in Rows \ S : WorkState(q)' = WorkState(q)
  BY WorkStates
<1>2. [r \in Rows |-> WorkState(r)]' = [i \in Rows |-> IF i \in S THEN to ELSE [r \in Rows |-> WorkState(r)][i]]
  BY <1>1
<1>3. lockedBy' = [i \in Rows |-> IF i \in S THEN h ELSE lockedBy[i]]
  BY DEF Table
<1>4. expired' = [i \in Rows |-> IF i \in S THEN FALSE ELSE expired[i]]
  BY DEF Table
<1>5. QED BY <1>2, <1>3, <1>4 DEF Work!Moved

LEMMA StepRefines ==
  ASSUME Table, Table', \A r \in Rows : RowOK(r), TableStep
  PROVE  AbstractStep
<1> DEFINE st == [r \in Rows |-> WorkState(r)]
<1>0. \A q \in Rows : /\ status[q] # "RUNNING" => lockedBy[q] = Nobody /\ expired[q] = FALSE
                      /\ st[q] = WorkState(q)
  BY DEF RowOK, Table
<1>1. CASE UNCHANGED <<status, attempts, lockedBy, expired>>
  BY <1>1, SameTable
<1>2. ASSUME NEW r \in Rows, Inserted(r)
      PROVE  AbstractStep
  <2>1. /\ status[r] = "ABSENT" /\ status'[r] = "PENDING"
        /\ \A q \in Rows \ {r} : status'[q] = status[q]
        /\ UNCHANGED <<lockedBy, expired>>
    BY <1>2 DEF Inserted, Table
  <2>2. WorkState(r) = "absent" /\ WorkState(r)' = "waiting"
    BY <2>1, WorkStates
  <2>3. {r} \in SUBSET Rows
    OBVIOUS
  <2>4. Work!Moved({r}, "waiting", Nobody)
    BY <1>0, <2>1, <2>2, <2>3, MovedRows
  <2>5. Work!Add({r})
    BY <1>0, <2>2, <2>4 DEF Work!Add
  <2>6. QED BY <2>3, <2>5 DEF Work!WorkNext, AbstractStep
<1>3. ASSUME NEW r \in Rows, LeaseRunsOut(r)
      PROVE  AbstractStep
  <2>1. WorkState(r) = "held"
    BY <1>3, WorkStates DEF LeaseRunsOut, Leased
  <2>2. st' = st
    BY <1>3 DEF LeaseRunsOut, WorkState
  <2>3. Work!RunLate(r)
    BY <1>0, <1>3, <2>1, <2>2 DEF LeaseRunsOut, Work!RunLate
  <2>4. QED BY <2>3 DEF Work!WorkNext, AbstractStep
<1>4. ASSUME NEW w \in Workers, NEW S \in SUBSET Rows, Taken(w, S)
      PROVE  AbstractStep
  <2>1. Written(S, "RUNNING", w) /\ \A q \in S : status[q] = "PENDING"
    BY <1>4 DEF Taken, Claimable
  <2>2. \A q \in S : WorkState(q) = "waiting" /\ WorkState(q)' = "held"
    BY <2>1, WorkStates DEF Written
  <2>3. Work!Moved(S, "held", w)
    BY <2>1, <2>2, MovedRows DEF Written, Kept
  <2>4. Work!Take(w, S)
    BY <1>0, <2>2, <2>3 DEF Work!Take
  <2>5. QED BY <2>4 DEF Work!WorkNext, AbstractStep
<1>5. ASSUME NEW w \in Workers, NEW S \in SUBSET Rows, Renewed(w, S)
      PROVE  AbstractStep
  <2>1. Written(S, "RUNNING", w) /\ \A q \in S : status[q] = "RUNNING" /\ lockedBy[q] = w
    BY <1>5 DEF Renewed, Owned, Leased
  <2>2. \A q \in S : WorkState(q) = "held" /\ WorkState(q)' = "held"
    BY <2>1, WorkStates DEF Written
  <2>3. Work!Moved(S, "held", w)
    BY <2>1, <2>2, MovedRows DEF Written, Kept
  <2>4. Work!Renew(w, S)
    BY <1>0, <2>1, <2>2, <2>3 DEF Work!Renew, Work!Holds
  <2>5. QED BY <2>4 DEF Work!WorkNext, AbstractStep
<1>6. ASSUME NEW s \in {"PENDING", "COMPLETED", "FAILED"}, NEW S \in SUBSET Rows, Written(S, s, Nobody),
             \A q \in S : status[q] = "RUNNING"
      PROVE  \E to \in {"waiting", "done", "dead"} :
               /\ Work!Moved(S, to, Nobody) /\ \A q \in S : st[q] = "held"
               /\ s # "COMPLETED" => to # "done"
  <2>1. PICK to \in {"waiting", "done", "dead"} :
          /\ s = "PENDING" => to = "waiting"
          /\ s = "COMPLETED" => to = "done"
          /\ s = "FAILED" => to = "dead"
    OBVIOUS
  <2>2. \A q \in S : WorkState(q) = "held" /\ WorkState(q)' = to /\ status'[q] = s
    <3>1. ASSUME NEW q \in S
          PROVE  WorkState(q) = "held" /\ status'[q] = s
      BY <1>6, <3>1, WorkStates DEF Written
    <3>2. ASSUME NEW q \in S
          PROVE  WorkState(q)' = to
      BY <2>1, <3>1, <3>2, WorkStates
    <3>3. QED BY <3>1, <3>2
  <2>3. Work!Moved(S, to, Nobody)
    <3>1. /\ \A q \in S : lockedBy'[q] = Nobody /\ ~expired'[q]
          /\ \A q \in Rows \ S : status'[q] = status[q] /\ lockedBy'[q] = lockedBy[q] /\ expired'[q] = expired[q]
      BY <1>6 DEF Written, Kept
    <3>2. QED BY <2>2, <3>1, MovedRows
  <2>4. QED BY <1>0, <2>1, <2>2, <2>3
<1>7. ASSUME NEW w \in Workers, NEW S \in SUBSET Rows, NEW s \in {"PENDING", "COMPLETED", "FAILED"}, Ended(w, S, s)
      PROVE  AbstractStep
  <2>1. Written(S, s, Nobody) /\ \A q \in S : status[q] = "RUNNING" /\ lockedBy[q] = w
    BY <1>7 DEF Ended, Owned, Leased
  <2>2. PICK to \in {"waiting", "done", "dead"} :
          Work!Moved(S, to, Nobody) /\ \A q \in S : st[q] = "held"
    BY <1>6, <2>1
  <2>3. Work!End(w, S, to)
    BY <2>1, <2>2 DEF Work!End, Work!Holds
  <2>4. QED BY <2>3 DEF Work!WorkNext, AbstractStep
<1>8. ASSUME NEW S \in SUBSET Rows, NEW s \in {"PENDING", "FAILED"}, TakenAway(S, s)
      PROVE  AbstractStep
  <2>1. Written(S, s, Nobody) /\ \A q \in S : status[q] = "RUNNING" /\ expired[q]
    BY <1>8 DEF TakenAway, Stale, Leased
  <2>2. PICK to \in {"waiting", "dead"} :
          Work!Moved(S, to, Nobody) /\ \A q \in S : st[q] = "held"
    BY <1>6, <2>1
  <2>3. Work!TakeAway(S, to)
    BY <2>1, <2>2 DEF Work!TakeAway
  <2>4. QED BY <2>3 DEF Work!WorkNext, AbstractStep
<1>9. QED
  BY <1>1, <1>2, <1>3, <1>4, <1>5, <1>7, <1>8 DEF TableStep

(* The book queue keeps the promise of LeasedWork, the statements of the   *)
(* requests included: one holder at a time, nobody but the holder ends a   *)
(* hold that is not overdue, and a finished job is never held again.       *)
THEOREM BookImplementsLeasedWork == Spec => ImplementsLeasedWork
<1>1. Init => Work!WorkInit
  <2>1. SUFFICES ASSUME Init PROVE Work!WorkInit
    OBVIOUS
  <2>2. \A r \in Rows : WorkState(r) = "absent"
    BY <2>1, WorkStates DEF Init
  <2>3. [r \in Rows |-> WorkState(r)] = [i \in Rows |-> "absent"]
    BY <2>2
  <2>4. QED BY <2>1, <2>3 DEF Init, Work!WorkInit
<1>2. Inv /\ [Next]_vars => [Work!WorkNext]_(Work!workVars)
  <2>1. SUFFICES ASSUME Inv, [Next]_vars
                 PROVE  AbstractStep
    BY DEF AbstractStep
  <2>2. QED BY <2>1, EveryStepHits, StepRefines DEF Inv
<1>3. QED BY <1>1, <1>2, BookInvariant, PTL DEF Spec, ImplementsLeasedWork, Work!WorkSpec
=============================================================================
