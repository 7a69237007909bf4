----------------------------- MODULE EmailQueue -----------------------------
(***************************************************************************)
(* The email queue: email_logs as a lease queue                            *)
(* (packages/db/src/queries/email-queue.ts), drained by processEmailQueue  *)
(* (packages/integrations/src/email/queue.ts), with the emails sent during *)
(* a request (send-now.ts), the provider's webhooks and the admin's resend *)
(* of an UNCERTAIN email (queries/email-resend.ts).                        *)
(*                                                                         *)
(* The hard part is that the provider call is an effect outside the        *)
(* database: a crash, a lost answer or an expired lease may come between   *)
(* the call and the write of its outcome, and SendGrid does not            *)
(* deduplicate.  The provider is external: a call is accepted, rejected or *)
(* ambiguous, and an ambiguous one may or may not have been taken.         *)
(***************************************************************************)
EXTENDS RunLeased

CONSTANTS Provider,      \* "resend" (deduplicates on the log id) or "sendgrid"
          MaxRetries,    \* "max_retries" of a queued email
          SendNowRows,   \* rows written by sendEmailNow
          CopyRows,      \* rows only an admin's resend creates
          Api,           \* SEND_NOW_WORKER_ID, the lease owner of send-now rows
          Webhooks,      \* the webhook event types that arrive
          MaxHooks       \* bound: webhooks handled at once for one row

ASSUME EmailConstants ==
  /\ Provider \in {"resend", "sendgrid"} /\ MaxRetries \in Nat
  /\ SendNowRows \subseteq Rows /\ CopyRows \subseteq Rows \ SendNowRows
  /\ Webhooks \subseteq {"processed", "delivered", "open", "click", "bounce", "dropped"}
  /\ MaxHooks \in Nat
  /\ Api \notin Workers \cup {Nobody}
  /\ LeasedStatus = "SENDING"

VARIABLES retries,     \* "retry_count"
          marker,      \* "provider_attempted_at" IS NOT NULL
          send,        \* processEmail's progress with a row, per worker: "none" before
                       \* the marker, "broken" after an error there, "marked" while the
                       \* provider is called, then the outcome to be written
          now,         \* sendEmailNow's progress with a row
          copyOf,      \* the source of a resent row ("dedupe_key" = resend:<source>)
          hook,        \* webhooks that have read the row's status, and will write
          delivered    \* emails the provider sends for this log: what the recipient gets

emailVars == <<retries, marker, send, now, copyOf, hook, delivered>>
vars == <<leaseVars, workerVars, emailVars>>

NoRow == Nobody

(* The provider's answers; "retryable" is ambiguous with idempotentRetry. *)
Outcomes == {"accepted", "rejected", "ambiguous"}
              \cup (IF Provider = "resend" THEN {"retryable"} ELSE {})

(* providerCalled.has(id) *)
ProviderCalled(w, r) == send[w][r] \in {"marked"} \cup Outcomes

(* Mutant: send-now rows keep the column's default max_retries *)
RetryLimitDefault(r) == MaxRetries

(* "max_retries" *)
RetryLimit(r) == IF r \in SendNowRows THEN 0 ELSE MaxRetries

Init ==
  /\ status = [r \in Rows |-> "ABSENT"]
  /\ attempts = [r \in Rows |-> 0]
  /\ due = [r \in Rows |-> TRUE]
  /\ lockedBy = [r \in Rows |-> Nobody]
  /\ expired = [r \in Rows |-> FALSE]
  /\ WorkerInit
  /\ retries = [r \in Rows |-> 0]
  /\ marker = [r \in Rows |-> FALSE]
  /\ send = [w \in Workers |-> [r \in Rows |-> "none"]]
  /\ now = [r \in Rows |-> "none"]
  /\ copyOf = [r \in Rows |-> NoRow]
  /\ hook = [r \in Rows |-> {}]
  /\ delivered = [r \in Rows |-> 0]

-----------------------------------------------------------------------------
(* queueTriggeredEmail and its siblings insert a QUEUED row. *)
Enqueue(r) ==
  /\ status[r] = "ABSENT" /\ r \notin SendNowRows \cup CopyRows
  /\ status' = [status EXCEPT ![r] = "QUEUED"]
  /\ UNCHANGED <<attempts, due, lockedBy, expired, workerVars, emailVars>>

(* Mutant: claimable stops one attempt early *)
ClaimableEarly(r) == status[r] = "QUEUED" /\ due[r] /\ attempts[r] < RetryLimit(r)

(* emailQueue's claimable and claimSet *)
Claimable(r) == status[r] = "QUEUED" /\ due[r] /\ attempts[r] <= RetryLimit(r)

ClearMarker(S) == marker' = Set(marker, S, LAMBDA r : FALSE)

Claim(w) ==
  /\ \E S \in SUBSET {r \in Rows : Claimable(r)} : OpenBatch(w, S) /\ ClearMarker(S)
  /\ UNCHANGED <<retries, send, now, copyOf, hook, delivered>>

ClaimLost(w) ==
  /\ \E S \in SUBSET {r \in Rows : Claimable(r)} : ClaimAnswerLost(w, S) /\ ClearMarker(S)
  /\ UNCHANGED <<retries, send, now, copyOf, hook, delivered>>

-----------------------------------------------------------------------------
(* processEmail, from the handler's start to its terminal write *)
Aborted(w, r) == signal[w] # "none" \/ r \in lost[w]

SetSend(w, r, s) == send' = [send EXCEPT ![w][r] = s]

BeginHandler(w, r) ==
  /\ Begin(w, r)
  /\ SetSend(w, r, "none")   \* providerCalled.delete
  /\ UNCHANGED <<retries, marker, now, copyOf, hook, delivered>>

(* skipEmail: inactive or missing template, no context, no certificate *)
Skip(w, r) ==
  /\ send[w][r] = "none"
  /\ Return(w, r)
  /\ UNCHANGED emailVars

(* An error before the marker.  An abort is runLeased's to settle; any     *)
(* other error is written by failEmail.                                    *)
BreakBeforeSend(w, r) ==
  /\ send[w][r] = "none"
  /\ IF Aborted(w, r)
       THEN Throw(w, r) /\ UNCHANGED send
       ELSE Return(w, r) /\ SetSend(w, r, "broken")
  /\ UNCHANGED <<retries, marker, now, copyOf, hook, delivered>>

(* writeResolvedSubjectIfLeaseHeld or beginProviderAttempt found the row   *)
(* not owned: the handler resolves false.                                  *)
LeaseLostBeforeSend(w, r) ==
  /\ stage[w][r] = "handle" /\ send[w][r] = "none"
  /\ ~Owned(w, r)
  /\ Settle(w, r)
  /\ UNCHANGED <<leaseVars, phase, beating, missing, signal, stopped, orphaned, faults, emailVars>>

(* signal.throwIfAborted, then beginProviderAttempt: the marker and a new  *)
(* lease end, while owned.                                                 *)
MarkSql(w, r) ==
  /\ RenewSql(w, {r})
  /\ marker' = [marker EXCEPT ![r] = TRUE]

Mark(w, r) ==
  /\ stage[w][r] = "handle" /\ send[w][r] = "none" /\ ~Aborted(w, r)
  /\ Owned(w, r)
  /\ MarkSql(w, r)
  /\ SetSend(w, r, "marked")
  /\ UNCHANGED <<workerVars, retries, now, copyOf, hook, delivered>>

(* beginProviderAttempt committed but answered with an error: the provider *)
(* is not called.                                                          *)
MarkError(w, r) ==
  /\ send[w][r] = "none" /\ ~Aborted(w, r)
  /\ Owned(w, r)
  /\ stage[w][r] = "handle"
  /\ Fault
  /\ MarkSql(w, r)
  /\ stage' = [stage EXCEPT ![w][r] = "complete"]
  /\ SetSend(w, r, "broken")
  /\ UNCHANGED <<phase, unfinished, lost, beating, missing, signal, stopped, orphaned>>
  /\ UNCHANGED <<retries, now, copyOf, hook, delivered>>

(* The provider.  A rejected call sends nothing; an ambiguous one may have *)
(* been taken; Resend sends one email per idempotency key (the log id).    *)
Taken(r) ==
  IF Provider = "resend" /\ delivered[r] > 0 THEN delivered[r] ELSE delivered[r] + 1

ProviderAnswers(r, o) ==
  delivered' \in { [delivered EXCEPT ![r] = n] :
    n \in CASE o = "accepted" -> {Taken(r)}
            [] o = "rejected" -> {delivered[r]}
            [] OTHER -> {delivered[r], Taken(r)} }

(* callEmailProvider: never interrupted by an abort *)
CallProvider(w, r) ==
  /\ send[w][r] = "marked"
  /\ \E o \in Outcomes : ProviderAnswers(r, o) /\ SetSend(w, r, o)
  /\ Return(w, r)
  /\ UNCHANGED <<retries, marker, now, copyOf, hook>>

(* emailFailureStatus: gated on the attempt count of this claim *)
RetriesLeft(r) == attempts[r] <= RetryLimit(r)

(* What the handler writes: [status, is it due now, does it cost a retry] *)
Failed(r) == [to |-> IF RetriesLeft(r) THEN "QUEUED" ELSE "FAILED", due |-> ~RetriesLeft(r), cost |-> 1]
Parked == [to |-> "UNCERTAIN", due |-> TRUE, cost |-> 0]

(* Mutant: an ambiguous answer counts as a failure *)
SettleWriteFails(w, r) ==
  CASE send[w][r] = "none" -> [to |-> "SKIPPED", due |-> TRUE, cost |-> 0]
    [] send[w][r] = "accepted" -> [to |-> "SENT", due |-> TRUE, cost |-> 0]
    [] OTHER -> Failed(r)

SettleWrite(w, r) ==
  CASE send[w][r] = "none" -> [to |-> "SKIPPED", due |-> TRUE, cost |-> 0]
    [] send[w][r] = "accepted" -> [to |-> "SENT", due |-> TRUE, cost |-> 0]
    [] send[w][r] \in {"rejected", "broken"} -> Failed(r)
    [] send[w][r] = "retryable" /\ RetriesLeft(r) -> Failed(r)
    [] OTHER -> Parked

(* Mutant: the retry is charged whoever owns the row *)
ChargeRetryUnowned(owner, r, n) == retries' = [retries EXCEPT ![r] = @ + n]

ChargeRetry(owner, r, n) ==
  retries' = [retries EXCEPT ![r] = IF Owned(owner, r) THEN @ + n ELSE @]

CompleteRow(w, r) ==
  LET write == SettleWrite(w, r) IN
  /\ Complete(w, r, write.to, write.due)
  /\ ChargeRetry(w, r, write.cost)
  /\ SetSend(w, r, "none")
  /\ UNCHANGED <<marker, now, copyOf, hook, delivered>>

(* The write fails before the provider was called: runLeased's catch. *)
CompleteRowError(w, r) ==
  LET write == SettleWrite(w, r) IN
  /\ stage[w][r] = "complete" /\ ~ProviderCalled(w, r)
  /\ Fault
  /\ Catch(w, r)
  /\ \/ FinishSql(w, r, write.to, write.due) /\ ChargeRetry(w, r, write.cost)
     \/ UNCHANGED <<leaseVars, retries>>
  /\ SetSend(w, r, "none")
  /\ UNCHANGED <<phase, beating, missing, signal, stopped, orphaned>>
  /\ UNCHANGED <<marker, now, copyOf, hook, delivered>>

(* The write fails after the provider call.  retryOutcomeWrite tries SENT  *)
(* again; when it gives up, and for the other outcomes at once, the row is *)
(* "unsettled": not released, left to recovery with its marker.            *)
OutcomeNotWritten(w, r) ==
  LET write == SettleWrite(w, r) IN
  /\ stage[w][r] = "complete" /\ ProviderCalled(w, r)
  /\ Fault
  /\ \/ FinishSql(w, r, write.to, write.due) /\ ChargeRetry(w, r, write.cost) /\ UNCHANGED orphaned
     \/ UNCHANGED <<leaseVars, retries>> /\ orphaned' = orphaned \cup OwnedOf(w, {r})
  /\ Settle(w, r)
  /\ SetSend(w, r, "none")
  /\ UNCHANGED <<phase, beating, missing, signal, stopped>>
  /\ UNCHANGED <<marker, now, copyOf, hook, delivered>>

RetryOutcomeWrite(w, r) ==
  LET write == SettleWrite(w, r) IN
  /\ stage[w][r] = "complete" /\ send[w][r] = "accepted"
  /\ Fault
  /\ FinishSql(w, r, write.to, write.due)
  /\ UNCHANGED <<batchVars, orphaned, emailVars>>

(* onError, for a row interrupted before its send *)
FailRow(w, r) ==
  /\ Fail(w, r, Failed(r).to, Failed(r).due)
  /\ ChargeRetry(w, r, 1)
  /\ UNCHANGED <<marker, send, now, copyOf, hook, delivered>>

FailRowError(w, r) ==
  /\ stage[w][r] = "fail"
  /\ Fault
  /\ Settle(w, r)
  /\ \/ /\ FinishSql(w, r, Failed(r).to, Failed(r).due) /\ ChargeRetry(w, r, 1)
        /\ UNCHANGED orphaned
     \/ UNCHANGED <<leaseVars, retries>> /\ orphaned' = orphaned \cup OwnedOf(w, {r})
  /\ UNCHANGED <<phase, beating, missing, signal, stopped>>
  /\ UNCHANGED <<marker, send, now, copyOf, hook, delivered>>

(* Mutant: a marked row is released like any other *)
ReleasableAll == Rows

(* emailQueue's releaseSet and releasable *)
Releasable == {r \in Rows : ~marker[r]}

CloseBatch(w) ==
  /\ Close(w, Releasable, [r \in Rows |-> "QUEUED"])
  /\ UNCHANGED emailVars

CloseBatchError(w) ==
  /\ CloseError(w, Releasable, [r \in Rows |-> "QUEUED"])
  /\ UNCHANGED emailVars

RunStep(w) ==
  /\ \/ Load(w) \/ LoadError(w) \/ Beat(w) \/ BeatAnswer(w) \/ BeatError(w)
     \/ LanesEnd(w) \/ Timeout(w) \/ NextTick(w) \/ Shutdown(w) \/ Crash(w)
  /\ UNCHANGED emailVars

RowStep(w, r) ==
  /\ Start(w, r) \/ Confirm(w, r) \/ ConfirmError(w, r)
  /\ UNCHANGED emailVars

-----------------------------------------------------------------------------
(* emailQueue.recovery, gated on the retry count (not the attempt count)   *)
Exhausted(r) == retries[r] >= RetryLimit(r)

(* Mutant: only exhausted rows are parked, whoever the provider is *)
MustParkExhausted(r) == marker[r] /\ Exhausted(r)

MustPark(r) == marker[r] /\ (Provider # "resend" \/ Exhausted(r))

RecoverUncertain ==
  /\ Recover({r \in Rows : MustPark(r)}, "UNCERTAIN", TRUE)
  /\ UNCHANGED emailVars

CountRetry(S) ==
  /\ retries' = Set(retries, {r \in S : Stale(r)}, LAMBDA r : retries[r] + 1)
  /\ UNCHANGED <<marker, send, now, copyOf, hook, delivered>>

Retriable == {r \in Rows : ~MustPark(r) /\ ~Exhausted(r)}
Dead == {r \in Rows : ~MustPark(r) /\ Exhausted(r)}

RecoverRequeue == Recover(Retriable, "QUEUED", FALSE) /\ CountRetry(Retriable)

RecoverDead == Recover(Dead, "FAILED", TRUE) /\ CountRetry(Dead)

Clock(r) ==
  /\ LeaseRunsOut(r) \/ BecomesDue(r)
  /\ UNCHANGED <<workerVars, emailVars>>

-----------------------------------------------------------------------------
(* sendEmailNow, in an api process.  createSendNowEmailLog: the row is born *)
(* leased by the process and marked.                                       *)
SendNow(r) ==
  /\ r \in SendNowRows /\ status[r] = "ABSENT"
  /\ status' = [status EXCEPT ![r] = "SENDING"]
  /\ attempts' = [attempts EXCEPT ![r] = 1]
  /\ lockedBy' = [lockedBy EXCEPT ![r] = Api]
  /\ marker' = [marker EXCEPT ![r] = TRUE]
  /\ now' = [now EXCEPT ![r] = "marked"]
  /\ UNCHANGED <<due, expired, workerVars, retries, send, copyOf, hook, delivered>>

CallNow(r) ==
  /\ now[r] = "marked"
  /\ \E o \in Outcomes : ProviderAnswers(r, o) /\ now' = [now EXCEPT ![r] = o]
  /\ UNCHANGED <<leaseVars, workerVars, retries, marker, send, copyOf, hook>>

(* markEmailFailed(..., 1, 0) for a rejected call: FAILED; any ambiguous   *)
(* outcome: UNCERTAIN, for Resend too.                                     *)
NowStatus(r) ==
  CASE now[r] = "accepted" -> "SENT" [] now[r] = "rejected" -> "FAILED" [] OTHER -> "UNCERTAIN"

SettleNow(r) ==
  /\ now[r] \in Outcomes
  /\ FinishSql(Api, r, NowStatus(r), TRUE)
  /\ ChargeRetry(Api, r, IF now[r] = "rejected" THEN 1 ELSE 0)
  /\ now' = [now EXCEPT ![r] = "done"]
  /\ UNCHANGED <<workerVars, marker, send, copyOf, hook, delivered>>

(* The api process dies, or every try of the outcome write fails. *)
AbandonNow(r) ==
  /\ now[r] \in {"marked"} \cup Outcomes
  /\ Fault
  /\ now' = [now EXCEPT ![r] = "done"]
  /\ UNCHANGED <<leaseVars, batchVars, orphaned, retries, marker, send, copyOf, hook, delivered>>

-----------------------------------------------------------------------------
(* updateEmailStatusFromWebhook: read the status, then a guarded update.   *)
(* Webhooks only arrive for an email the provider took.                    *)
Rank(s) ==
  CASE s = "QUEUED" -> 1 [] s \in {"SENDING", "UNCERTAIN"} -> 2 [] s = "SENT" -> 3
    [] s = "DELIVERED" -> 4 [] s = "OPENED" -> 5 [] s = "CLICKED" -> 6 [] OTHER -> 0

Terminal == {"BOUNCED", "DROPPED", "FAILED"}

WebhookStatus(event) ==
  CASE event = "processed" -> "SENT" [] event = "delivered" -> "DELIVERED"
    [] event = "open" -> "OPENED" [] event = "click" -> "CLICKED"
    [] event = "bounce" -> "BOUNCED" [] event = "dropped" -> "DROPPED"

WebhookRead(r, event) ==
  LET to == WebhookStatus(event) IN
  /\ Cardinality(hook[r]) < MaxHooks /\ delivered[r] > 0
  /\ event = "processed" => status[r] = "UNCERTAIN"
  /\ status[r] \notin Terminal
  /\ to \notin Terminal => Rank(to) > Rank(status[r])
  /\ hook' = [hook EXCEPT ![r] = @ \cup {[seen |-> status[r], to |-> to]}]
  /\ UNCHANGED <<leaseVars, workerVars, retries, marker, send, now, copyOf, delivered>>

(* The statuses of the partial unique indexes: one such row per trigger,   *)
(* the source of a resend and its copy being for the same trigger.         *)
Indexed == {"QUEUED", "SENDING", "SENT", "DELIVERED"}

SameTrigger(r) == {q \in Rows \ {r} : copyOf[q] = r \/ copyOf[r] = q
                                        \/ (copyOf[q] # NoRow /\ copyOf[q] = copyOf[r])}

IndexFree(r) == \A q \in SameTrigger(r) : status[q] \notin Indexed

(* Mutant: the update does not compare the status it read *)
WebhookWriteBlind(r, h) ==
  /\ h \in hook[r]
  /\ hook' = [hook EXCEPT ![r] = @ \ {h}]
  /\ status' = IF h.to \in Indexed => IndexFree(r) THEN [status EXCEPT ![r] = h.to] ELSE status
  /\ UNCHANGED <<attempts, due, lockedBy, expired, workerVars>>
  /\ UNCHANGED <<retries, marker, send, now, copyOf, delivered>>

(* updateEmailLogStatusGuarded; a unique violation is swallowed *)
WebhookWrite(r, h) ==
  /\ h \in hook[r]
  /\ hook' = [hook EXCEPT ![r] = @ \ {h}]
  /\ status' = IF status[r] = h.seen /\ (h.to \in Indexed => IndexFree(r))
                 THEN [status EXCEPT ![r] = h.to] ELSE status
  /\ UNCHANGED <<attempts, due, lockedBy, expired, workerVars>>
  /\ UNCHANGED <<retries, marker, send, now, copyOf, delivered>>

(* resendUncertainEmailLog: a new QUEUED log, unless the resend key or a   *)
(* per-trigger index is taken.  A send-now email cannot be rendered again. *)
Resend(r, copy) ==
  /\ status[r] = "UNCERTAIN" /\ r \notin SendNowRows
  /\ copy \in CopyRows /\ status[copy] = "ABSENT" /\ copy # r
  /\ IndexFree(r)
  /\ status' = [status EXCEPT ![copy] = "QUEUED"]
  /\ copyOf' = [copyOf EXCEPT ![copy] = r]
  /\ UNCHANGED <<attempts, due, lockedBy, expired, workerVars>>
  /\ UNCHANGED <<retries, marker, send, now, hook, delivered>>

-----------------------------------------------------------------------------
Next ==
  \/ \E r \in Rows : \/ Enqueue(r) \/ Clock(r)
                     \/ SendNow(r) \/ CallNow(r) \/ SettleNow(r) \/ AbandonNow(r)
                     \/ \E h \in hook[r] : WebhookWrite(r, h)
  \/ \E r \in Rows, event \in Webhooks : WebhookRead(r, event)
  \/ \E r, copy \in Rows : Resend(r, copy)
  \/ \E w \in Workers : Claim(w) \/ ClaimLost(w) \/ RunStep(w) \/ CloseBatch(w) \/ CloseBatchError(w)
  \/ \E w \in Workers, r \in Rows :
       \/ RowStep(w, r) \/ BeginHandler(w, r)
       \/ Skip(w, r) \/ BreakBeforeSend(w, r) \/ LeaseLostBeforeSend(w, r)
       \/ Mark(w, r) \/ MarkError(w, r) \/ CallProvider(w, r)
       \/ CompleteRow(w, r) \/ CompleteRowError(w, r)
       \/ OutcomeNotWritten(w, r) \/ RetryOutcomeWrite(w, r)
       \/ FailRow(w, r) \/ FailRowError(w, r)
  \/ RecoverUncertain \/ RecoverRequeue \/ RecoverDead

Spec == Init /\ [][Next]_vars

(* As for the outbox, plus: a provider call ends (it has a timeout) and a  *)
(* request that sends an email now runs to its end.                        *)
Fairness ==
  /\ \A w \in Workers :
       /\ WF_vars(Claim(w)) /\ WF_vars(CloseBatch(w))
       /\ WF_vars(Load(w) /\ UNCHANGED emailVars) /\ WF_vars(BeatAnswer(w) /\ UNCHANGED emailVars)
       /\ WF_vars(LanesEnd(w) /\ UNCHANGED emailVars) /\ WF_vars(NextTick(w) /\ UNCHANGED emailVars)
       /\ \A r \in Rows :
            /\ WF_vars(RowStep(w, r)) /\ WF_vars(BeginHandler(w, r))
            /\ WF_vars(BreakBeforeSend(w, r) \/ LeaseLostBeforeSend(w, r) \/ Mark(w, r))
            /\ WF_vars(CallProvider(w, r)) /\ WF_vars(CompleteRow(w, r)) /\ WF_vars(FailRow(w, r))
  /\ \A r \in Rows : WF_vars(Clock(r)) /\ WF_vars(CallNow(r)) /\ WF_vars(SettleNow(r))
  /\ WF_vars(RecoverUncertain) /\ WF_vars(RecoverRequeue) /\ WF_vars(RecoverDead)

FairSpec == Spec /\ Fairness

-----------------------------------------------------------------------------
(* One email log, at most one email in the recipient's mailbox: no crash,  *)
(* lost answer, expired lease, requeue, release or stale worker makes the  *)
(* queue or a send-now request hand the same log to a provider that        *)
(* already took it, unless that provider deduplicates on the log id.       *)
OneEmailPerLog == \A r \in Rows : delivered[r] <= 1

(* The log tells the truth about the email. With SendGrid, and for a       *)
(* send-now email with either provider, one the provider took is never     *)
(* queued again nor FAILED or SKIPPED; and a log that says sent, or        *)
(* anything reported after that, stands for one the provider took. No      *)
(* ambiguous call, retry or stale worker's write makes it say otherwise.   *)
StatusTellsTruth ==
  \A r \in Rows :
    /\ delivered[r] > 0 /\ (Provider = "sendgrid" \/ r \in SendNowRows)
         => status[r] \notin {"QUEUED", "FAILED", "SKIPPED"}
    /\ status[r] \in {"SENT", "DELIVERED", "OPENED", "CLICKED", "BOUNCED", "DROPPED"}
         => delivered[r] = 1

(* The two counters agree although claims, releases, failures and recovery *)
(* each move only one of them: failures are gated on attempt_count and     *)
(* recovery on retry_count, and no QUEUED email is left with an attempt    *)
(* count that claimable excludes.                                          *)
CountersAgree ==
  \A r \in Rows :
    /\ status[r] = "QUEUED" => attempts[r] = retries[r] /\ attempts[r] <= RetryLimit(r)
    /\ status[r] = "SENDING" => attempts[r] = retries[r] + 1
    /\ attempts[r] <= RetryLimit(r) + 1

(* A send-now email is never put in the queue (nothing can render it again)*)
(* nor claimed by a worker.                                                *)
SendNowStaysOut ==
  \A r \in SendNowRows : status[r] # "QUEUED" /\ lockedBy[r] \in {Api, Nobody}

(* A marked email goes back to the queue only charged: release never       *)
(* refunds the attempt of a provider call.                                 *)
MarkedIsCharged ==
  [][\A r \in Rows : marker[r] /\ status[r] = "SENDING" /\ status'[r] = "QUEUED"
                       => retries'[r] = retries[r] + 1]_vars

(* What the provider reported is never taken back: neither a late worker   *)
(* write, nor recovery, nor an out-of-order webhook lowers the status, and *)
(* a bounce or drop is final.                                              *)
ReportsOnlyAdvance ==
  [][\A r \in Rows :
       /\ Rank(status[r]) >= 3 => Rank(status'[r]) >= Rank(status[r])
                                    \/ status'[r] \in {"BOUNCED", "DROPPED"}
       /\ status[r] \in Terminal => status'[r] = status[r]]_vars

(* Every email leaves the queue: it is sent, skipped, failed or parked as  *)
(* UNCERTAIN, as long as one worker stays up.                              *)
EveryEmailSettles ==
  \A r \in Rows : status[r] \in {"QUEUED", "SENDING"} ~> status[r] \notin {"QUEUED", "SENDING"}
=============================================================================
