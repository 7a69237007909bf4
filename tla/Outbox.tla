------------------------------- MODULE Outbox -------------------------------
(***************************************************************************)
(* The transactional outbox: packages/db/src/outbox.  Domain transactions  *)
(* enqueue rows; workers drain them with runLeased (processOutboxEvents),  *)
(* the worker app the background rows and the api's realtime pump the      *)
(* realtime ones; LeaseRecoveryJob recovers expired leases; RetentionJob   *)
(* deletes or compacts old rows; an operator requeues dead letters.        *)
(***************************************************************************)
EXTENDS RunLeased

CONSTANTS MaxAttempts,   \* "max_attempts"
          RealtimeRows,  \* rows whose type is in REALTIME_OUTBOX_TYPES
          Pumps,         \* workers with scope "realtime" (the api's pump); the others "background"
          Keys, NoKey,   \* dedupe keys; "dedupe_key" IS NULL
          KeyOf,         \* the dedupe key each row is enqueued with
          MaxRequeues    \* bound: operator requeues of one row

ASSUME OutboxConstants ==
  /\ MaxAttempts \in Nat \ {0} /\ MaxRequeues \in Nat
  /\ RealtimeRows \subseteq Rows /\ Pumps \subseteq Workers
  /\ NoKey \notin Keys /\ KeyOf \in [Rows -> Keys \cup {NoKey}]
  /\ LeasedStatus = "PROCESSING"

VARIABLES compacted,   \* rows whose payload retention replaced by {}
          requeues,    \* operator requeues of each row
          starts,      \* handler starts of each row
          refunds      \* releases of a row whose handler had started

ghostVars == <<requeues, starts, refunds>>
vars == <<leaseVars, workerVars, compacted, ghostVars>>

Finished == {"PROCESSED", "SKIPPED"}
Queued == {"PENDING", "FAILED"}

(* "ABSENT": not inserted yet; "DELETED": removed by retention *)
Statuses == {"ABSENT", "DELETED", "PROCESSING", "DEAD_LETTERED"} \cup Queued \cup Finished

TypeOK ==
  /\ status \in [Rows -> Statuses]
  /\ attempts \in [Rows -> Nat]
  /\ due \in [Rows -> BOOLEAN]
  /\ lockedBy \in [Rows -> Workers \cup {Nobody}]
  /\ expired \in [Rows -> BOOLEAN]
  /\ WorkerTypeOK
  /\ compacted \subseteq Rows
  /\ requeues \in [Rows -> Nat] /\ starts \in [Rows -> Nat] /\ refunds \in [Rows -> Nat]

Init ==
  /\ status = [r \in Rows |-> "ABSENT"]
  /\ attempts = [r \in Rows |-> 0]
  /\ due = [r \in Rows |-> TRUE]
  /\ lockedBy = [r \in Rows |-> Nobody]
  /\ expired = [r \in Rows |-> FALSE]
  /\ WorkerInit
  /\ compacted = {}
  /\ requeues = [r \in Rows |-> 0]
  /\ starts = [r \in Rows |-> 0]
  /\ refunds = [r \in Rows |-> 0]

-----------------------------------------------------------------------------
(* enqueueOutboxEvent: ON CONFLICT (dedupe_key) DO NOTHING.  An insert that *)
(* conflicts changes nothing, so only the one that inserts is a step.      *)
Present(r) == status[r] \notin {"ABSENT", "DELETED"}

KeyFree(r) == KeyOf[r] = NoKey \/ \A q \in Rows : Present(q) => KeyOf[q] # KeyOf[r]

Enqueue(r) ==
  /\ status[r] = "ABSENT" /\ KeyFree(r)
  /\ status' = [status EXCEPT ![r] = "PENDING"]
  /\ UNCHANGED <<attempts, due, lockedBy, expired, workerVars, compacted, ghostVars>>

-----------------------------------------------------------------------------
(* outboxLeaseSpec.claimable with outboxScopeClause *)
Claimable(w, r) ==
  /\ status[r] \in Queued /\ due[r] /\ attempts[r] < MaxAttempts
  /\ r \in RealtimeRows <=> w \in Pumps

(* ORDER BY created_at LIMIT n FOR UPDATE SKIP LOCKED: rows another        *)
(* transaction holds are skipped, so any few claimable rows may come back. *)
Claim(w) ==
  /\ \E S \in SUBSET {r \in Rows : Claimable(w, r)} : OpenBatch(w, S)
  /\ UNCHANGED <<compacted, ghostVars>>

ClaimLost(w) ==
  /\ \E S \in SUBSET {r \in Rows : Claimable(w, r)} : ClaimAnswerLost(w, S)
  /\ UNCHANGED <<compacted, ghostVars>>

BeginHandler(w, r) ==
  /\ Begin(w, r)
  /\ starts' = [starts EXCEPT ![r] = IF r \in lost[w] THEN @ ELSE @ + 1]
  /\ UNCHANGED <<compacted, requeues, refunds>>

(* outboxDoneSet *)
CompleteRow(w, r) ==
  /\ \E s \in Finished : Complete(w, r, s, TRUE)
  /\ UNCHANGED <<compacted, ghostVars>>

CompleteRowError(w, r) ==
  /\ \E s \in Finished : CompleteError(w, r, s, TRUE)
  /\ UNCHANGED <<compacted, ghostVars>>

(* Mutant: off by one at the last attempt *)
LastAttemptLate(r) == attempts[r] > MaxAttempts

(* outboxFailedSet: dead letter at the last attempt, else a retry after a  *)
(* backoff.  The code reads the attempt count from the loaded row, which   *)
(* is the row's own while the worker owns it.                              *)
LastAttempt(r) == attempts[r] >= MaxAttempts
FailedStatus(r) == IF LastAttempt(r) THEN "DEAD_LETTERED" ELSE "FAILED"

FailRow(w, r) ==
  /\ Fail(w, r, FailedStatus(r), LastAttempt(r))
  /\ UNCHANGED <<compacted, ghostVars>>

FailRowError(w, r) ==
  /\ FailError(w, r, FailedStatus(r), LastAttempt(r))
  /\ UNCHANGED <<compacted, ghostVars>>

(* outboxLeaseSpec.releaseSet *)
ReleaseStatus == [r \in Rows |-> IF attempts[r] > 1 THEN "FAILED" ELSE "PENDING"]

(* Counts the rows this step put back although their handler had started. *)
CountRefunds(w) ==
  refunds' = [r \in Rows |->
    IF stage[w][r] = "halted" /\ Owned(w, r) /\ status'[r] # LeasedStatus
      THEN refunds[r] + 1 ELSE refunds[r]]

CloseBatch(w) ==
  /\ Close(w, Rows, ReleaseStatus)
  /\ CountRefunds(w)
  /\ UNCHANGED <<compacted, requeues, starts>>

CloseBatchError(w) ==
  /\ CloseError(w, Rows, ReleaseStatus)
  /\ CountRefunds(w)
  /\ UNCHANGED <<compacted, requeues, starts>>

(* The steps of runLeased that are the same for every queue. *)
RunStep(w) ==
  /\ \/ Load(w) \/ LoadError(w) \/ Beat(w) \/ BeatAnswer(w) \/ BeatError(w)
     \/ LanesEnd(w) \/ Timeout(w) \/ NextTick(w) \/ Shutdown(w) \/ Crash(w)
  /\ UNCHANGED <<compacted, ghostVars>>

RowStep(w, r) ==
  /\ Start(w, r) \/ Confirm(w, r) \/ ConfirmError(w, r) \/ Return(w, r) \/ Throw(w, r)
  /\ UNCHANGED <<compacted, ghostVars>>

-----------------------------------------------------------------------------
(* outboxLeaseSpec.recovery: retrySet, then deadSet for exhausted rows *)
Exhausted == {r \in Rows : LastAttempt(r)}

RecoverRequeue ==
  /\ Recover(Rows \ Exhausted, "FAILED", TRUE)
  /\ UNCHANGED <<compacted, ghostVars>>

(* Mutant: an exhausted row is found one attempt too late *)
RecoverDeadLate ==
  /\ Recover({r \in Rows : attempts[r] > MaxAttempts}, "DEAD_LETTERED", TRUE)
  /\ UNCHANGED <<compacted, ghostVars>>

RecoverDead ==
  /\ Recover(Exhausted, "DEAD_LETTERED", TRUE)
  /\ UNCHANGED <<compacted, ghostVars>>

Clock(r) ==
  /\ LeaseRunsOut(r) \/ BecomesDue(r)
  /\ UNCHANGED <<workerVars, compacted, ghostVars>>

(* Mutant: retention deletes keyed rows too *)
ExpirableKeyed(r) ==
  /\ Present(r)
  /\ IF r \in RealtimeRows THEN status[r] # "PROCESSING" ELSE status[r] \in Finished

(* runOutboxRetention: a day-old unkeyed realtime row goes unless leased,  *)
(* an old unkeyed background row once finished.  The age passes at any     *)
(* time.                                                                   *)
Expirable(r) ==
  /\ Present(r) /\ KeyOf[r] = NoKey
  /\ IF r \in RealtimeRows THEN status[r] # "PROCESSING" ELSE status[r] \in Finished

Delete(r) ==
  /\ Expirable(r)
  /\ status' = [status EXCEPT ![r] = "DELETED"]
  /\ UNCHANGED <<attempts, due, lockedBy, expired, workerVars, compacted, ghostVars>>

(* An old finished keyed row loses its payload, never its key. *)
Compact(r) ==
  /\ KeyOf[r] # NoKey /\ status[r] \in Finished /\ r \notin compacted
  /\ compacted' = compacted \cup {r}
  /\ UNCHANGED <<leaseVars, workerVars, ghostVars>>

(* requeueDeadLetteredOutboxEvents *)
RequeueDeadLetter(r) ==
  /\ status[r] = "DEAD_LETTERED" /\ r \notin RealtimeRows
  /\ requeues[r] < MaxRequeues
  /\ requeues' = [requeues EXCEPT ![r] = @ + 1]
  /\ status' = [status EXCEPT ![r] = "PENDING"]
  /\ attempts' = [attempts EXCEPT ![r] = 0]
  /\ due' = [due EXCEPT ![r] = TRUE]
  /\ UNCHANGED <<lockedBy, expired, workerVars, compacted, starts, refunds>>

-----------------------------------------------------------------------------
Next ==
  \/ \E r \in Rows : Enqueue(r) \/ Clock(r) \/ Delete(r) \/ Compact(r) \/ RequeueDeadLetter(r)
  \/ \E w \in Workers : Claim(w) \/ ClaimLost(w) \/ RunStep(w) \/ CloseBatch(w) \/ CloseBatchError(w)
  \/ \E w \in Workers, r \in Rows :
       \/ RowStep(w, r) \/ BeginHandler(w, r)
       \/ CompleteRow(w, r) \/ CompleteRowError(w, r)
       \/ FailRow(w, r) \/ FailRowError(w, r)
  \/ RecoverRequeue \/ RecoverDead

Spec == Init /\ [][Next]_vars

(* Every process that is up keeps running its awaits and its timers, the   *)
(* recovery job keeps its interval in at least one process, and the clock  *)
(* passes every lease end and retry time.                                  *)
Fairness ==
  /\ \A w \in Workers :
       /\ WF_vars(Claim(w)) /\ WF_vars(CloseBatch(w))
       /\ WF_vars(Load(w) /\ UNCHANGED <<compacted, ghostVars>>)
       /\ WF_vars(BeatAnswer(w) /\ UNCHANGED <<compacted, ghostVars>>)
       /\ WF_vars(LanesEnd(w) /\ UNCHANGED <<compacted, ghostVars>>)
       /\ WF_vars(NextTick(w) /\ UNCHANGED <<compacted, ghostVars>>)
       /\ \A r \in Rows : /\ WF_vars(RowStep(w, r)) /\ WF_vars(BeginHandler(w, r))
                          /\ WF_vars(CompleteRow(w, r)) /\ WF_vars(FailRow(w, r))
  /\ \A r \in Rows : WF_vars(Clock(r))
  /\ WF_vars(RecoverRequeue) /\ WF_vars(RecoverDead)

FairSpec == Spec /\ Fairness

-----------------------------------------------------------------------------
(* No lease leaks: a row leased to a worker is one its current batch still *)
(* tracks (and so renews, settles or releases), or one the code knowingly  *)
(* left to stale-lease recovery (crash, lost claim answer, failed release  *)
(* or failure write).  runBatch's unfinished set and the table agree.      *)
NoLeakedLease ==
  \A w \in Workers, r \in Rows : Owned(w, r) => r \in unfinished[w] \/ r \in orphaned

(* No row gets stuck between the two tests of the attempt count: a queued  *)
(* row always has an attempt left, so claim's "attempt_count < max" never  *)
(* hides a row that fail, release and recovery left in a queued status;    *)
(* and a leased row is charged for the claim that leased it.               *)
NeverWedged ==
  \A r \in Rows :
    /\ status[r] \in Queued => attempts[r] < MaxAttempts
    /\ status[r] = "PROCESSING" => attempts[r] \in 1..MaxAttempts
    /\ status[r] = "PROCESSING" <=> lockedBy[r] # Nobody

(* A poison row (one that kills or hangs every worker that handles it)     *)
(* still ends: each handler start uses up an attempt, except the starts a  *)
(* shutdown interrupted and release refunded, however claims, lost leases, *)
(* recoveries and stale workers interleave.                                *)
StartsBounded ==
  \A r \in Rows : starts[r] <= MaxAttempts * (1 + requeues[r]) + refunds[r]

(* One row per dedupe key, forever: retention and requeues never free the  *)
(* key of a row that was once enqueued.                                    *)
OneRowPerKey ==
  \A q, r \in Rows : q # r /\ KeyOf[q] = KeyOf[r] /\ KeyOf[q] # NoKey
                       => ~(status[q] # "ABSENT" /\ status[r] # "ABSENT")

(* A row whose payload retention compacted away never runs again: no late  *)
(* failure write, recovery or operator requeue brings it back to the queue.*)
CompactedNeverRuns == \A r \in compacted : status[r] \notin Queued \cup {"PROCESSING"}

(* Only the holder's own write or release, or recovery of an expired lease,*)
(* ends a lease: no worker's late statement touches a row that was         *)
(* recovered and leased to another worker meanwhile, and no release takes  *)
(* a row from under a lane that is still at work on it.                    *)
LeaseEndsRightly ==
  [][\A w \in Workers, r \in Rows :
       Owned(w, r) /\ lockedBy'[r] # w =>
         /\ lockedBy'[r] = Nobody
         /\ \/ expired[r]
            \/ stage[w][r] \in {"complete", "fail"}
            \/ phase[w] = "closing" /\ r \in unfinished[w] \ RunningRows(w)]_vars

(* A finished row is never claimed, failed or requeued again; it only      *)
(* disappears by retention.                                                *)
FinishedIsFinal ==
  [][\A r \in Rows : status[r] \in Finished => status'[r] \in {status[r], "DELETED"}]_vars

(* Every enqueued row is eventually finished, dead-lettered or expired by  *)
(* retention, across crashes, timeouts, shutdowns, database errors and     *)
(* lost leases, as long as one worker of its scope stays up: again and     *)
(* again, all of them are.                                                 *)
Settled(r) == status[r] \in Finished \cup {"DEAD_LETTERED", "DELETED"}

EveryRowSettles == []<>(\A r \in Rows : Present(r) => Settled(r))

-----------------------------------------------------------------------------
(* The outbox implements LeasedWork. *)
WorkState(r) ==
  CASE status[r] = "ABSENT" -> "absent"
    [] status[r] = "DELETED" -> "gone"
    [] status[r] \in Queued -> "waiting"
    [] status[r] = "PROCESSING" -> "held"
    [] status[r] \in Finished -> "done"
    [] status[r] = "DEAD_LETTERED" -> "dead"

Work == INSTANCE LeasedWork WITH
          Items <- Rows, Holders <- Workers, None <- Nobody,
          state <- [r \in Rows |-> WorkState(r)], holder <- lockedBy, overdue <- expired

(* Seen through WorkState, every step of the workers, the recovery job,    *)
(* retention and the operator is a step of the abstract leased work (or    *)
(* changes nothing there).                                                 *)
ImplementsLeasedWork == Work!WorkSpec
=============================================================================
