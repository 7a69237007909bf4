---------------------------- MODULE AbstractBook ----------------------------
(***************************************************************************)
(* The Abstract Book jobs: abstract_book_jobs as a lease queue             *)
(* (packages/db/src/queries/abstracts/book-queue.ts), rendered by          *)
(* AbstractBookJob (apps/worker/src/jobs/abstract-book.job.ts).            *)
(*                                                                         *)
(* Two things are hard here.  The book is uploaded to object storage, under*)
(* a key fixed by the job, before the job is completed: the upload is an   *)
(* effect no lease fences.  And a request enqueues in several statements:  *)
(* it recovers the event's expired job, looks for an active one, inserts.  *)
(***************************************************************************)
EXTENDS RunLeased

CONSTANTS MaxAttempts,   \* "max_attempts"
          Events,
          EventOf,       \* the event of each job
          Requests,      \* calls of enqueueAbstractBookJob that pass its gate
          EventAsked     \* the event of each request

ASSUME BookConstants ==
  /\ MaxAttempts \in Nat \ {0}
  /\ EventOf \in [Rows -> Events] /\ EventAsked \in [Requests -> Events]
  /\ LeasedStatus = "RUNNING"

VARIABLES uploading,   \* the rows each worker's upload is in flight for
          file,        \* whose upload the storage holds under the job's key
          completer,   \* who wrote "storage_key" and "included_count"
          request      \* how far each enqueueAbstractBookJob is; it returns
                       \* as "covered" or "error"

bookVars == <<uploading, file, completer, request>>
vars == <<leaseVars, workerVars, bookVars>>

Init ==
  /\ status = [r \in Rows |-> "ABSENT"]
  /\ attempts = [r \in Rows |-> 0]
  /\ due = [r \in Rows |-> TRUE]
  /\ lockedBy = [r \in Rows |-> Nobody]
  /\ expired = [r \in Rows |-> FALSE]
  /\ WorkerInit
  /\ uploading = [w \in Workers |-> {}]
  /\ file = [r \in Rows |-> Nobody]
  /\ completer = [r \in Rows |-> Nobody]
  /\ request = [q \in Requests |-> "new"]

-----------------------------------------------------------------------------
(* Mutant: claimable stops one attempt early *)
ClaimableEarly(r) == status[r] = "PENDING" /\ due[r] /\ attempts[r] + 1 < MaxAttempts

(* abstractBookQueue.claimable *)
Claimable(r) == status[r] = "PENDING" /\ due[r] /\ attempts[r] < MaxAttempts

Claim(w) ==
  /\ \E S \in SUBSET {r \in Rows : Claimable(r)} : OpenBatch(w, S)
  /\ UNCHANGED bookVars

ClaimLost(w) ==
  /\ \E S \in SUBSET {r \in Rows : Claimable(r)} : ClaimAnswerLost(w, S)
  /\ UNCHANGED bookVars

BeginHandler(w, r) == Begin(w, r) /\ UNCHANGED bookVars

(* render, up to the upload: no configuration, an error of the PDF, or the *)
(* signal found aborted at a yield.                                        *)
RenderBreaks(w, r) ==
  /\ r \notin uploading[w]
  /\ Throw(w, r)
  /\ UNCHANGED bookVars

(* signal.throwIfAborted, then the upload starts; nothing interrupts it. *)
StartUpload(w, r) ==
  /\ stage[w][r] = "handle" /\ r \notin uploading[w]
  /\ signal[w] = "none" /\ r \notin lost[w]
  /\ uploading' = [uploading EXCEPT ![w] = @ \cup {r}]
  /\ UNCHANGED <<leaseVars, workerVars, file, completer, request>>

(* The storage is external: the last upload under a key is what it holds. *)
Stored(w, S) == file' = Set(file, S, LAMBDA r : w)

UploadDone(w, r) ==
  /\ r \in uploading[w]
  /\ Return(w, r)
  /\ Stored(w, {r})
  /\ uploading' = [uploading EXCEPT ![w] = @ \ {r}]
  /\ UNCHANGED <<completer, request>>

UploadError(w, r) ==
  /\ r \in uploading[w]
  /\ Throw(w, r)
  /\ Stored(w, {r}) \/ UNCHANGED file
  /\ uploading' = [uploading EXCEPT ![w] = @ \ {r}]
  /\ UNCHANGED <<completer, request>>

(* completeAbstractBookJob *)
Completed(w, r) == completer' = [completer EXCEPT ![r] = IF Owned(w, r) THEN w ELSE @]

(* Mutant: the job is completed while its upload is still in flight *)
CompleteRowEarly(w, r) ==
  /\ \/ Complete(w, r, "COMPLETED", TRUE)
     \/ /\ r \in uploading[w]
        /\ FinishSql(w, r, "COMPLETED", TRUE)
        /\ UNCHANGED workerVars
  /\ Completed(w, r)
  /\ UNCHANGED <<uploading, file, request>>

CompleteRow(w, r) ==
  /\ Complete(w, r, "COMPLETED", TRUE)
  /\ Completed(w, r)
  /\ UNCHANGED <<uploading, file, request>>

CompleteRowError(w, r) ==
  /\ stage[w][r] = "complete"
  /\ Fault
  /\ \/ FinishSql(w, r, "COMPLETED", TRUE) /\ Completed(w, r)
     \/ UNCHANGED <<leaseVars, completer>>
  /\ Catch(w, r)
  /\ UNCHANGED <<phase, beating, missing, signal, stopped, orphaned, uploading, file, request>>

(* failAbstractBookJob *)
LastAttempt(r) == attempts[r] >= MaxAttempts

FailedStatus(r) == IF LastAttempt(r) THEN "FAILED" ELSE "PENDING"

FailRow(w, r) ==
  /\ Fail(w, r, FailedStatus(r), LastAttempt(r))
  /\ UNCHANGED bookVars

FailRowError(w, r) ==
  /\ FailError(w, r, FailedStatus(r), LastAttempt(r))
  /\ UNCHANGED bookVars

(* abstractBookQueue.releaseSet *)
CloseBatch(w) == Close(w, Rows, [r \in Rows |-> "PENDING"]) /\ UNCHANGED bookVars

CloseBatchError(w) == CloseError(w, Rows, [r \in Rows |-> "PENDING"]) /\ UNCHANGED bookVars

RunStep(w) ==
  /\ \/ Load(w) \/ LoadError(w) \/ Beat(w) \/ BeatAnswer(w) \/ BeatError(w)
     \/ LanesEnd(w) \/ Timeout(w) \/ NextTick(w) \/ Shutdown(w)
  /\ UNCHANGED bookVars

RowStep(w, r) ==
  /\ Start(w, r) \/ Confirm(w, r) \/ ConfirmError(w, r)
  /\ UNCHANGED bookVars

(* The process dies; an upload it had in flight arrived or did not. *)
CrashWorker(w) ==
  /\ Crash(w)
  /\ Stored(w, uploading[w]) \/ UNCHANGED file
  /\ uploading' = [uploading EXCEPT ![w] = {}]
  /\ UNCHANGED <<completer, request>>

-----------------------------------------------------------------------------
(* abstractBookQueue.recovery, in the recovery job *)
Exhausted == {r \in Rows : LastAttempt(r)}

RecoverRequeue == Recover(Rows \ Exhausted, "PENDING", FALSE) /\ UNCHANGED bookVars

RecoverDead == Recover(Exhausted, "FAILED", TRUE) /\ UNCHANGED bookVars

Clock(r) == (LeaseRunsOut(r) \/ BecomesDue(r)) /\ UNCHANGED <<workerVars, bookVars>>

-----------------------------------------------------------------------------
(* enqueueAbstractBookJob *)
JobsOf(q) == {r \in Rows : EventOf[r] = EventAsked[q]}

ActiveJob(r) == status[r] \in {"PENDING", "RUNNING"}

HasActive(q) == \E r \in JobsOf(q) : ActiveJob(r)

Goes(q, to) ==
  /\ request' = [request EXCEPT ![q] = to]
  /\ UNCHANGED <<uploading, file, completer>>

(* recoverStale for the event: its two UPDATEs, which may find nothing *)
RecoverOrNone(S, newStatus, newDue) ==
  \/ Recover(S, newStatus, newDue)
  \/ (\A r \in S : ~Stale(r)) /\ UNCHANGED <<leaseVars, workerVars>>

AskRequeue(q) ==
  /\ request[q] = "new"
  /\ RecoverOrNone(JobsOf(q) \ Exhausted, "PENDING", FALSE)
  /\ Goes(q, "bury")

AskBury(q) ==
  /\ request[q] = "bury"
  /\ RecoverOrNone(JobsOf(q) \cap Exhausted, "FAILED", TRUE)
  /\ Goes(q, "check")

(* findActiveAbstractBookJob, in the transaction *)
AskCheck(q) ==
  /\ request[q] = "check"
  /\ Goes(q, IF HasActive(q) THEN "covered" ELSE "insert")
  /\ UNCHANGED <<leaseVars, workerVars>>

(* Mutant: no unique index behind the check *)
AskInsertUnindexed(q) ==
  /\ request[q] = "insert"
  /\ \E r \in JobsOf(q) : /\ status[r] = "ABSENT"
                          /\ status' = [status EXCEPT ![r] = "PENDING"]
  /\ UNCHANGED <<attempts, due, lockedBy, expired>>
  /\ Goes(q, "covered")
  /\ UNCHANGED workerVars

(* The insert, refused by the partial unique index on active jobs *)
AskInsert(q) ==
  /\ request[q] = "insert"
  /\ \/ /\ ~HasActive(q)
        /\ \E r \in JobsOf(q) : /\ status[r] = "ABSENT"
                                /\ status' = [status EXCEPT ![r] = "PENDING"]
        /\ UNCHANGED <<attempts, due, lockedBy, expired>>
        /\ Goes(q, "covered")
     \/ /\ HasActive(q)
        /\ UNCHANGED leaseVars
        /\ Goes(q, "again")
  /\ UNCHANGED workerVars

(* The catch: the other job is returned if it is still active. *)
AskAgain(q) ==
  /\ request[q] = "again"
  /\ Goes(q, IF HasActive(q) THEN "covered" ELSE "error")
  /\ UNCHANGED <<leaseVars, workerVars>>

-----------------------------------------------------------------------------
Next ==
  \/ \E q \in Requests : AskRequeue(q) \/ AskBury(q) \/ AskCheck(q) \/ AskInsert(q) \/ AskAgain(q)
  \/ \E r \in Rows : Clock(r)
  \/ \E w \in Workers : \/ Claim(w) \/ ClaimLost(w) \/ RunStep(w) \/ CrashWorker(w)
                        \/ CloseBatch(w) \/ CloseBatchError(w)
  \/ \E w \in Workers, r \in Rows :
       \/ RowStep(w, r) \/ BeginHandler(w, r)
       \/ RenderBreaks(w, r) \/ StartUpload(w, r) \/ UploadDone(w, r) \/ UploadError(w, r)
       \/ CompleteRow(w, r) \/ CompleteRowError(w, r)
       \/ FailRow(w, r) \/ FailRowError(w, r)
  \/ RecoverRequeue \/ RecoverDead

Spec == Init /\ [][Next]_vars

(* As for the other queues; an upload ends (the storage client times out). *)
(* The requests are not fair: a caller may go away at any statement.       *)
Fairness ==
  /\ \A w \in Workers :
       /\ WF_vars(Claim(w)) /\ WF_vars(CloseBatch(w))
       /\ WF_vars(Load(w) /\ UNCHANGED bookVars) /\ WF_vars(BeatAnswer(w) /\ UNCHANGED bookVars)
       /\ WF_vars(LanesEnd(w) /\ UNCHANGED bookVars) /\ WF_vars(NextTick(w) /\ UNCHANGED bookVars)
       /\ \A r \in Rows :
            /\ WF_vars(RowStep(w, r)) /\ WF_vars(BeginHandler(w, r))
            /\ WF_vars(RenderBreaks(w, r) \/ StartUpload(w, r))
            /\ WF_vars(UploadDone(w, r) \/ UploadError(w, r))
            /\ WF_vars(CompleteRow(w, r)) /\ WF_vars(FailRow(w, r))
  /\ \A r \in Rows : WF_vars(Clock(r))
  /\ WF_vars(RecoverRequeue) /\ WF_vars(RecoverDead)

FairSpec == Spec /\ Fairness

-----------------------------------------------------------------------------
(* At most one active job per event, although two requests may both find   *)
(* none, and release, failure and recovery put running jobs back.          *)
OneActiveJob ==
  \A r, s \in Rows : r # s /\ EventOf[r] = EventOf[s] => ~(ActiveJob(r) /\ ActiveJob(s))

(* A COMPLETED job can be downloaded: some attempt's book is in the storage*)
(* under its key by the time the job is completed, whatever happened to    *)
(* earlier attempts and their workers.                                     *)
CompletedHasBook == \A r \in Rows : status[r] = "COMPLETED" => file[r] # Nobody

(* "... so a worker that lost its lease can't clobber another's result"    *)
(* (book-queue.ts): the book under a completed job's key is the one whose  *)
(* attempt completed it.                                                   *)
ResultNotClobbered == \A r \in Rows : status[r] = "COMPLETED" => file[r] = completer[r]

(* Every job ends, so that its event can have another book, as long as one *)
(* worker stays up.                                                        *)
EveryJobEnds == \A r \in Rows : ActiveJob(r) ~> ~ActiveJob(r)

-----------------------------------------------------------------------------
(* The book queue implements LeasedWork. *)
WorkState(r) ==
  CASE status[r] = "ABSENT" -> "absent"
    [] status[r] = "PENDING" -> "waiting"
    [] status[r] = "RUNNING" -> "held"
    [] status[r] = "COMPLETED" -> "done"
    [] status[r] = "FAILED" -> "dead"

Work == INSTANCE LeasedWork WITH
          Items <- Rows, Holders <- Workers, None <- Nobody,
          state <- [r \in Rows |-> WorkState(r)], holder <- lockedBy, overdue <- expired

(* Seen through WorkState, the workers, the recovery job and the requests' *)
(* own recovery only do what a lease queue promises.                       *)
ImplementsLeasedWork == Work!WorkSpec
=============================================================================
