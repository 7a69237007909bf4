------------------------- MODULE NetworkingDelivery -------------------------
(***************************************************************************)
(* The delivery of networking notifications by email and push: the table   *)
(* networking_deliveries with its own leases                               *)
(* (packages/db/src/queries/networking-delivery.ts), the email log of each *)
(* delivery (networking-email-tracking.ts), the lanes that work it off     *)
(* (packages/integrations/src/networking/notification-worker.ts) and the   *)
(* maintenance job (networking-maintenance.ts).                            *)
(*                                                                         *)
(* Unlike the queues on LeaseQueue, a lease has no owner column and no     *)
(* heartbeat: a lane knows its lease by the exact value of locked_until,   *)
(* and an expired lease is claimed again without a recovery. The model     *)
(* keeps, for each row, the lane that knows the value in the table.        *)
(*                                                                         *)
(* A lease that is over is a Boolean that the clock may set. The deadlines *)
(* that are only waited for (available_at, the lease of the log) are not   *)
(* kept: a step that needs one to be past may happen at any time. A fence  *)
(* that compares locked_until with the worker's own clock                  *)
(* (updateNetworkingDelivery) may still pass after the database says that  *)
(* the lease is over.                                                      *)
(* The email provider, the push services and the storage are external.     *)
(***************************************************************************)
EXTENDS Integers, FiniteSets

CONSTANTS
  Rows,        \* ids of deliveries, which are those of their email logs too
  OtpRows,     \* sign-in codes: email only
  ReportRows,  \* post-event reports: a stored file
  Lanes,       \* the lanes of all worker processes
  OtpLanes,    \* those that claim sign-in codes only
  Endpoints,   \* the recipient's push subscriptions
  Provider,    \* "sendgrid", or "resend", which deduplicates on the log id
  Webhooks,    \* the statuses that webhooks report: "DELIVERED", "BOUNCED"
  BatchSize,   \* rows a general lane claims at a time
  MaxAttempts, \* NETWORKING_DELIVERY_MAX_ATTEMPTS
  Stoppable,   \* bound: the lanes whose process may stop or die
  MaxFaults,   \* bound on the failures of one behaviour
  None

ASSUME DeliveryConstants ==
  /\ OtpRows \subseteq Rows /\ ReportRows \subseteq Rows \ OtpRows
  /\ OtpLanes \subseteq Lanes /\ Stoppable \subseteq Lanes
  /\ Provider \in {"sendgrid", "resend"}
  /\ Webhooks \subseteq {"DELIVERED", "BOUNCED"}
  /\ BatchSize \in Nat \ {0} /\ MaxAttempts \in Nat \ {0} /\ MaxFaults \in Nat
  /\ None \notin Lanes \union Rows

VARIABLES
  row,     \* networking_deliveries
  log,     \* email_logs, the row with the delivery's id
  lane,    \* what each lane has in memory
  signal,  \* "none", "timeout" or "shutdown": why the lane's job was aborted
  stored,  \* the reports in storage
  audit,   \* the reports in networking_audit
  taken,   \* how many emails the provider took for each delivery
  faults,  \* the failures so far
  \* history, read by properties only
  blinded  \* deliveries whose marker was cleared by a claim that could not begin

vars == <<row, log, lane, signal, stored, audit, taken, faults, blinded>>

PROVIDER_TOOK_IT == {"SENT", "DELIVERED", "OPENED", "CLICKED", "BOUNCED", "DROPPED"}

(* A lane between rows; `batch` are the rows it claimed and has not started *)
Idle(batch) ==
  [pc |-> "idle", batch |-> batch, at |-> None, email |-> "none", out |-> "none",
   todo |-> {}, got |-> {}, failed |-> FALSE]

Fault == faults < MaxFaults /\ faults' = faults + 1

Go(w, pc) == lane' = [lane EXCEPT ![w].pc = pc]
(* The lane is through with its row, whatever became of it *)
Leave(w) == lane' = [lane EXCEPT ![w] = Idle(@.batch)]

At(w, pc) == lane[w].pc = pc
Aborted(w) == signal[w] # "none"

-----------------------------------------------------------------------------
(* Leases *)

(* Mutant: the fence does not compare locked_until *)
HoldsAnyLease(w, d) == row[d].status = "PROCESSING"

(* networkingDeliveryLeaseIdentity: locked_until is the value w knows *)
Holds(w, d) == row[d].status = "PROCESSING" /\ row[d].holder = w

(* ownsDelivery, by the database's clock *)
ownsDelivery(w, d) == Holds(w, d) /\ ~row[d].expired

(* The fence of updateNetworkingDelivery turned the lane away *)
Fenced(w, d) == ~Holds(w, d) \/ row[d].expired

(* updateNetworkingDelivery: `to` is the row it writes. When it fails      *)
(* nobody can tell whether it committed.                                   *)
updateNetworkingDelivery(w, d, to) == Holds(w, d) /\ row' = [row EXCEPT ![d] = to]
NotUpdated(w, d) == Fenced(w, d) /\ UNCHANGED row
UpdateFails(w, d, to) == Fault /\ (updateNetworkingDelivery(w, d, to) \/ UNCHANGED row)

(* Ended, or back in the queue: the lease is over either way *)
Unleased(d, status) ==
  [row[d] EXCEPT !.status = status, !.holder = None, !.expired = FALSE]

(* refreshNetworkingDeliveryLease, then what follows at `pc`. When the     *)
(* statement commits and its answer is lost, no lane knows locked_until.   *)
Refresh(w, d, pc) ==
  \/ /\ updateNetworkingDelivery(w, d, [row[d] EXCEPT !.expired = FALSE])
     /\ Go(w, pc)
     /\ UNCHANGED faults
  \/ /\ NotUpdated(w, d)
     /\ Leave(w)
     /\ UNCHANGED faults

RefreshFails(w, d) == UpdateFails(w, d, [row[d] EXCEPT !.expired = FALSE, !.holder = None])

-----------------------------------------------------------------------------
(* The queue and the lanes *)

enqueueNetworkingDelivery(d) ==
  /\ row[d].status = "ABSENT"
  /\ row' = [row EXCEPT ![d].status = "PENDING"]
  /\ UNCHANGED <<log, lane, signal, stored, audit, taken, faults, blinded>>

Claimable(w) ==
  {d \in Rows : /\ (d \in OtpRows) <=> (w \in OtpLanes)
                /\ row[d].status \in {"PENDING", "PROCESSING", "FAILED"}
                /\ row[d].attempts < MaxAttempts
                /\ row[d].status # "PROCESSING" \/ row[d].expired}

Claimed(S, w) ==
  [d \in Rows |->
     IF d \in S THEN [row[d] EXCEPT !.status = "PROCESSING", !.attempts = @ + 1,
                                    !.holder = w, !.expired = FALSE]
     ELSE row[d]]

ClaimSize(w) == IF w \in OtpLanes THEN 1 ELSE BatchSize

(* runClaimLanes: a lane claims when it is through with its last batch and *)
(* its run was not aborted.                                                *)
MayClaim(w, S) ==
  /\ lane[w] = Idle({}) /\ ~Aborted(w)
  /\ S # {} /\ S \subseteq Claimable(w) /\ Cardinality(S) <= ClaimSize(w)

claimNetworkingDeliveries(w, S) ==
  /\ MayClaim(w, S)
  /\ row' = Claimed(S, w)
  /\ lane' = [lane EXCEPT ![w] = Idle(S)]
  /\ UNCHANGED <<log, signal, stored, audit, taken, faults, blinded>>

(* The claim committed and its answer was lost *)
ClaimLost(w, S) ==
  /\ MayClaim(w, S)
  /\ Fault
  /\ row' = Claimed(S, None)
  /\ UNCHANGED <<log, lane, signal, stored, audit, taken, blinded>>

(* processRows, aborted: a row not started goes back with its attempt *)
HandBack(w, d) ==
  /\ At(w, "idle") /\ d \in lane[w].batch /\ Aborted(w)
  /\ LET back == [Unleased(d, "PENDING") EXCEPT !.attempts = @ - 1]
     IN  \/ updateNetworkingDelivery(w, d, back) /\ UNCHANGED faults
         \/ NotUpdated(w, d) /\ UNCHANGED faults
         \/ UpdateFails(w, d, back)
  /\ lane' = [lane EXCEPT ![w].batch = @ \ {d}]
  /\ UNCHANGED <<log, signal, stored, audit, taken, blinded>>

(* The job's timeout or its process's shutdown aborts the signal; after a  *)
(* timeout the next run starts when the lanes of this one are through.     *)
Abort(w, why) ==
  /\ signal[w] = "none" /\ ~At(w, "down")
  /\ \/ why = "timeout" /\ lane[w] # Idle({}) /\ Fault
     \/ why = "shutdown" /\ w \in Stoppable /\ UNCHANGED faults
  /\ signal' = [signal EXCEPT ![w] = why]
  /\ UNCHANGED <<row, log, lane, stored, audit, taken, blinded>>

NextRun(w) ==
  /\ signal[w] = "timeout" /\ lane[w] = Idle({})
  /\ signal' = [signal EXCEPT ![w] = "none"]
  /\ UNCHANGED <<row, log, lane, stored, audit, taken, faults, blinded>>

Crash(w) ==
  /\ w \in Stoppable /\ ~At(w, "down")
  /\ lane' = [lane EXCEPT ![w] = [Idle({}) EXCEPT !.pc = "down"]]
  /\ UNCHANGED <<row, log, signal, stored, audit, taken, faults, blinded>>

-----------------------------------------------------------------------------
(* processOne *)

Pushable(d) == d \notin OtpRows \union ReportRows

(* The channels that follow the email: push, or the final write *)
AfterEmail(d) == IF Pushable(d) THEN "push" ELSE "settle"

(* Where the read of the context sends a row. networkingDeliverySkipReason *)
(* and the participant's email preference may change between two reads; a  *)
(* sign-in code is always an email.                                        *)
NextStep(d) ==
  IF d \in ReportRows THEN {"render", "skipRow"}
  ELSE {"skip"} \union
       (IF row[d].sent \/ row[d].uncertain THEN {AfterEmail(d)}
        ELSE IF d \in OtpRows THEN {"email"} ELSE {"email", AfterEmail(d)})

Start(w, d) ==
  /\ At(w, "idle") /\ d \in lane[w].batch /\ ~Aborted(w)
  /\ LET started == [Idle(lane[w].batch \ {d}) EXCEPT !.at = d]
     IN  \/ /\ updateNetworkingDelivery(w, d, [row[d] EXCEPT !.expired = FALSE])
            /\ \E pc \in NextStep(d) : lane' = [lane EXCEPT ![w] = [started EXCEPT !.pc = pc]]
            /\ UNCHANGED faults
         \/ /\ NotUpdated(w, d)
            /\ lane' = [lane EXCEPT ![w].batch = @ \ {d}]
            /\ UNCHANGED faults
         \/ /\ RefreshFails(w, d)
            /\ lane' = [lane EXCEPT ![w] = [started EXCEPT !.pc = "throw"]]
  /\ UNCHANGED <<log, signal, stored, audit, taken, blinded>>

(* readOwnedDeliveryContext before a channel; `then` is the channel *)
Revalidate(w, then) ==
  LET d == lane[w].at IN
  /\ \/ \E pc \in {"skip", then} : Refresh(w, d, pc)
     \/ RefreshFails(w, d) /\ Go(w, "throw")
  /\ UNCHANGED <<log, signal, stored, audit, taken, blinded>>

(* The preference is read again with the rest *)
EmailChannel(w) ==
  /\ At(w, "email")
  /\ \/ Revalidate(w, "begin")
     \/ lane[w].at \notin OtpRows /\ Revalidate(w, AfterEmail(lane[w].at))

(* The catch of processRows: the attempt failed *)
Throw(w) ==
  LET d == lane[w].at
      failed == Unleased(d, "FAILED")
  IN
  /\ At(w, "throw")
  /\ \/ updateNetworkingDelivery(w, d, failed) /\ UNCHANGED faults
     \/ NotUpdated(w, d) /\ UNCHANGED faults
     \/ UpdateFails(w, d, failed)
  /\ Leave(w)
  /\ UNCHANGED <<log, signal, stored, audit, taken, blinded>>

(* The write that ends a row; its own failure is thrown *)
EndRow(w, to) ==
  LET d == lane[w].at IN
  /\ \/ updateNetworkingDelivery(w, d, to) /\ Leave(w) /\ UNCHANGED faults
     \/ NotUpdated(w, d) /\ Leave(w) /\ UNCHANGED faults
     \/ UpdateFails(w, d, to) /\ Go(w, "throw")
  /\ UNCHANGED <<log, signal, stored, audit, taken, blinded>>

SkipRow(w) ==
  /\ At(w, "skipRow")
  /\ EndRow(w, Unleased(lane[w].at, "SKIPPED"))

Settle(w) ==
  LET d == lane[w].at
      deferred == lane[w].email = "deferred"
  IN
  /\ At(w, "settle")
  /\ EndRow(w, IF lane[w].failed THEN Unleased(d, "FAILED")
               ELSE IF deferred THEN [Unleased(d, "FAILED") EXCEPT !.attempts = @ - 1]
               ELSE Unleased(d, "SENT"))

-----------------------------------------------------------------------------
(* The email channel *)

(* Mutant: an attempt without an answer is sent again, whoever sends it *)
BeginResends(d) ==
  IF log[d].status \in PROVIDER_TOOK_IT THEN [email |-> "sent", log |-> log[d]]
  ELSE IF log[d].status = "UNCERTAIN" THEN [email |-> "uncertain", log |-> log[d]]
  ELSE [email |-> "none", log |-> [status |-> "SENDING", marker |-> FALSE]]

(* beginNetworkingEmailLog, for a lane that owns the row: what it answers  *)
(* and the log it leaves                                                   *)
BeginLog(d) ==
  LET unanswered == log[d].status = "SENDING" /\ log[d].marker
  IN  IF log[d].status \in PROVIDER_TOOK_IT THEN [email |-> "sent", log |-> log[d]]
      ELSE IF log[d].status = "UNCERTAIN" THEN [email |-> "uncertain", log |-> log[d]]
      ELSE IF unanswered /\ Provider # "resend"
      THEN [email |-> "uncertain", log |-> [log[d] EXCEPT !.status = "UNCERTAIN"]]
      ELSE [email |-> "none", log |-> [status |-> "SENDING", marker |-> FALSE]]

SetLog(d, l) == log' = [log EXCEPT ![d] = l]

(* The email's outcome is known: a settled one is saved in the payload *)
Emailed(w, email) ==
  lane' = [lane EXCEPT ![w].email = email,
                       ![w].failed = @ \/ email = "failed",
                       ![w].out = "none",
                       ![w].pc = IF email \in {"sent", "uncertain"} THEN "save"
                                 ELSE AfterEmail(lane[w].at)]

beginNetworkingEmailLog(w) ==
  LET d == lane[w].at
      begun == BeginLog(d)
  IN
  /\ At(w, "begin")
  /\ \/ ~ownsDelivery(w, d) /\ Leave(w) /\ UNCHANGED <<log, faults>>
     \/ /\ ownsDelivery(w, d) /\ begun.email # "none"
        /\ SetLog(d, begun.log) /\ Emailed(w, begun.email) /\ UNCHANGED faults
     \/ /\ ownsDelivery(w, d) /\ begun.email = "none"
        /\ SetLog(d, begun.log) /\ Go(w, "wait") /\ UNCHANGED faults
     \/ /\ Fault /\ Go(w, "unbegun")
        /\ UNCHANGED log \/ (ownsDelivery(w, d) /\ SetLog(d, begun.log))
  /\ UNCHANGED <<row, signal, stored, audit, taken, blinded>>

(* getEmailProvider is not configured, or has no sender *)
Unconfigured(w) ==
  /\ At(w, "wait") /\ Fault /\ Go(w, "unbegun")
  /\ UNCHANGED <<row, log, signal, stored, audit, taken, blinded>>

(* finishNetworkingEmailLog with outcome failed or deferred *)
FailedLog(d, failed) ==
  IF log[d].status \in {"SENDING", "FAILED"}
  THEN [status |-> IF failed /\ row[d].attempts >= MaxAttempts THEN "FAILED" ELSE "SENDING", marker |-> FALSE]
  ELSE log[d]

UncertainLog(d) ==
  IF log[d].status = "SENDING" THEN [log[d] EXCEPT !.status = "UNCERTAIN"]
  ELSE log[d]

(* Mutant: an unanswered attempt is skipped like one that was not made *)
SkippedLogAlways(d) ==
  IF log[d].status \in {"SENDING", "FAILED"}
  THEN [log[d] EXCEPT !.status = "SKIPPED"]
  ELSE log[d]

SkippedLog(d) ==
  IF log[d].status = "SENDING" /\ log[d].marker THEN UncertainLog(d)
  ELSE IF log[d].status \in {"SENDING", "FAILED"}
  THEN [log[d] EXCEPT !.status = "SKIPPED"]
  ELSE log[d]

SentLog(d) ==
  [log[d] EXCEPT !.status = IF @ \in {"SENDING", "FAILED", "SKIPPED", "UNCERTAIN"} THEN "SENT" ELSE @]

(* finishNetworkingEmailLog, fenced: it writes only for the owner *)
FinishLog(w, l) ==
  LET d == lane[w].at IN SetLog(d, IF ownsDelivery(w, d) THEN l ELSE log[d])

FinishFails(w, l) == Fault /\ (FinishLog(w, l) \/ UNCHANGED log)

(* The catch around the beginning takes it that nothing was sent, also     *)
(* when an earlier claim left its marker in the log.                       *)
Unbegun(w) ==
  LET d == lane[w].at
      l == FailedLog(d, TRUE)
  IN
  /\ At(w, "unbegun")
  /\ \/ FinishLog(w, l) /\ Emailed(w, "failed") /\ UNCHANGED faults
     \/ FinishFails(w, l) /\ Go(w, "throw")
  /\ blinded' = IF log[d].marker /\ ~log'[d].marker THEN blinded \union {d} ELSE blinded
  /\ UNCHANGED <<row, signal, stored, audit, taken>>

(* limiter.take rejects: the worker stops *)
Interrupted(w) ==
  LET l == FailedLog(lane[w].at, FALSE) IN
  /\ At(w, "wait") /\ Aborted(w)
  /\ \/ FinishLog(w, l) /\ Emailed(w, "deferred") /\ UNCHANGED faults
     \/ FinishFails(w, l) /\ Go(w, "throw")
  /\ UNCHANGED <<row, signal, stored, audit, taken, blinded>>

(* The marker and a new lease, in one transaction. Its failure is thrown.  *)
markNetworkingEmailAttempt(w) ==
  LET d == lane[w].at
      may == ownsDelivery(w, d) /\ log[d].status = "SENDING"
      marked == [log[d] EXCEPT !.marker = TRUE]
  IN
  /\ At(w, "wait")
  /\ \/ may /\ SetLog(d, marked) /\ Go(w, "call") /\ UNCHANGED <<row, faults>>
     \/ ~may /\ Leave(w) /\ UNCHANGED <<row, log, faults>>
     \/ /\ Fault /\ Go(w, "throw")
        /\ \/ UNCHANGED <<row, log>>
           \/ may /\ SetLog(d, marked) /\ row' = [row EXCEPT ![d].holder = None]
  /\ UNCHANGED <<signal, stored, audit, taken, blinded>>

(* The provider: a 429 is a failure of its; Resend takes one email per key *)
Taken(d) == IF Provider = "resend" /\ taken[d] > 0 THEN taken[d] ELSE taken[d] + 1

callProvider(w) ==
  LET d == lane[w].at
      Answers(out, numbers) ==
        /\ lane' = [lane EXCEPT ![w].pc = "outcome", ![w].out = out]
        /\ \E n \in numbers : taken' = [taken EXCEPT ![d] = n]
  IN
  /\ At(w, "call")
  /\ \/ Answers("accepted", {Taken(d)}) /\ UNCHANGED faults
     \/ Answers("rejected", {taken[d]}) /\ UNCHANGED faults
     \/ Answers("limited", {taken[d]}) /\ Fault
     \/ Answers("ambiguous", {taken[d], Taken(d)}) /\ UNCHANGED faults
  /\ UNCHANGED <<row, log, signal, stored, audit, blinded>>

(* An accepted email is recorded whoever owns the row now, and a failure   *)
(* to do so is swallowed.                                                  *)
RecordSent(w) ==
  LET d == lane[w].at IN
  /\ At(w, "outcome") /\ lane[w].out = "accepted"
  /\ \/ SetLog(d, SentLog(d)) /\ UNCHANGED faults
     \/ Fault /\ (SetLog(d, SentLog(d)) \/ UNCHANGED log)
  /\ Emailed(w, "sent")
  /\ UNCHANGED <<row, signal, stored, audit, taken, blinded>>

Retryable(d) == Provider = "resend" /\ row[d].attempts < MaxAttempts

(* When the bookkeeping of the other outcomes fails, the row is left to    *)
(* the end of its lease.                                                   *)
RecordOutcome(w) ==
  LET d == lane[w].at
      out == lane[w].out
      ends == IF out = "limited" THEN [email |-> "deferred", log |-> FailedLog(d, FALSE)]
              ELSE IF out = "rejected" \/ Retryable(d)
              THEN [email |-> "failed", log |-> FailedLog(d, TRUE)]
              ELSE [email |-> "uncertain", log |-> UncertainLog(d)]
  IN
  /\ At(w, "outcome") /\ out # "accepted"
  /\ \/ FinishLog(w, ends.log) /\ Emailed(w, ends.email) /\ UNCHANGED faults
     \/ FinishFails(w, ends.log) /\ Leave(w)
  /\ UNCHANGED <<row, signal, stored, audit, taken, blinded>>

(* The progress in the payload, so that a later claim does not email again *)
SaveEmail(w) ==
  LET d == lane[w].at
      saved == [row[d] EXCEPT !.sent = @ \/ lane[w].email = "sent",
                              !.uncertain = @ \/ lane[w].email = "uncertain"]
  IN
  /\ At(w, "save")
  /\ \/ updateNetworkingDelivery(w, d, saved) /\ Go(w, AfterEmail(d)) /\ UNCHANGED faults
     \/ NotUpdated(w, d) /\ Leave(w) /\ UNCHANGED faults
     \/ UpdateFails(w, d, saved) /\ Leave(w)
  /\ UNCHANGED <<log, signal, stored, audit, taken, blinded>>

(* skip: the log first, then the row *)
SkipLog(w) ==
  LET l == SkippedLog(lane[w].at) IN
  /\ At(w, "skip")
  /\ \/ FinishLog(w, l) /\ Go(w, "skipRow") /\ UNCHANGED faults
     \/ FinishFails(w, l) /\ Go(w, "throw")
  /\ UNCHANGED <<row, signal, stored, audit, taken, blinded>>

-----------------------------------------------------------------------------
(* The push channel *)

(* The subscriptions read with the context decide whether there is a push; *)
(* a digest has none.                                                      *)
PushChannel(w) ==
  /\ At(w, "push")
  /\ \/ Endpoints \ row[lane[w].at].pushed # {} /\ Revalidate(w, "endpoints")
     \/ /\ Go(w, "settle")
        /\ UNCHANGED <<row, log, signal, stored, audit, taken, faults, blinded>>

(* One subscription after the other; one that is expired is deleted. *)
EndpointsListed(w) ==
  /\ At(w, "endpoints")
  /\ \E S \in SUBSET (Endpoints \ row[lane[w].at].pushed) :
       lane' = [lane EXCEPT ![w].todo = S, ![w].pc = "endpoint"]
  /\ UNCHANGED <<row, log, signal, stored, audit, taken, faults, blinded>>

PushesDone(w) ==
  /\ At(w, "endpoint") /\ lane[w].todo = {}
  /\ Go(w, "settle")
  /\ UNCHANGED <<row, log, signal, stored, audit, taken, faults, blinded>>

(* A failure of the refresh before a push counts as a failure of the push. *)
RefreshBeforePush(w) ==
  LET d == lane[w].at IN
  /\ At(w, "endpoint") /\ lane[w].todo # {}
  /\ \/ Refresh(w, d, "pushing")
     \/ /\ RefreshFails(w, d)
        /\ \E e \in lane[w].todo :
             lane' = [lane EXCEPT ![w].todo = @ \ {e}, ![w].failed = TRUE, ![w].pc = "savePush"]
  /\ UNCHANGED <<log, signal, stored, audit, taken, blinded>>

(* The push service takes it or says that the subscription is gone, or fails *)
Push(w) ==
  /\ At(w, "pushing")
  /\ \E e \in lane[w].todo :
       \/ lane' = [lane EXCEPT ![w].todo = @ \ {e}, ![w].got = @ \union {e}, ![w].pc = "savePush"]
       \/ lane' = [lane EXCEPT ![w].todo = @ \ {e}, ![w].failed = TRUE, ![w].pc = "savePush"]
  /\ UNCHANGED <<row, log, signal, stored, audit, taken, faults, blinded>>

(* An expired or gone subscription is deleted; that fails the channel only *)
(* by its own error.                                                       *)
DeletionFails(w) ==
  /\ lane[w].pc \in {"endpoint", "pushing"}
  /\ Fault /\ Go(w, "throw")
  /\ UNCHANGED <<row, log, signal, stored, audit, taken, blinded>>

SavePush(w) ==
  LET d == lane[w].at
      saved == [row[d] EXCEPT !.pushed = @ \union lane[w].got]
  IN
  /\ At(w, "savePush")
  /\ \/ updateNetworkingDelivery(w, d, saved) /\ Go(w, "endpoint") /\ UNCHANGED faults
     \/ NotUpdated(w, d) /\ Leave(w) /\ UNCHANGED faults
     \/ UpdateFails(w, d, saved) /\ Go(w, "throw")
  /\ UNCHANGED <<log, signal, stored, audit, taken, blinded>>

-----------------------------------------------------------------------------
(* The post-event report *)

RenderReport(w) ==
  /\ At(w, "render")
  /\ \/ Refresh(w, lane[w].at, "upload")
     \/ RefreshFails(w, lane[w].at) /\ Go(w, "throw")
  /\ UNCHANGED <<log, signal, stored, audit, taken, blinded>>

UploadReport(w) ==
  /\ At(w, "upload")
  /\ \/ stored' = stored \union {lane[w].at} /\ Go(w, "saveReport") /\ UNCHANGED faults
     \/ Fault /\ stored' \in {stored, stored \union {lane[w].at}} /\ Go(w, "throw")
  /\ UNCHANGED <<row, log, signal, audit, taken, blinded>>

(* Row and audit entry commit together *)
saveNetworkingPostEventReport(w) ==
  LET d == lane[w].at
      Saved == /\ ownsDelivery(w, d)
               /\ row' = [row EXCEPT ![d] = Unleased(d, "SENT")]
               /\ audit' = audit \union {d}
  IN
  /\ At(w, "saveReport")
  /\ \/ Saved /\ Leave(w) /\ UNCHANGED faults
     \/ ~ownsDelivery(w, d) /\ Leave(w) /\ UNCHANGED <<row, audit, faults>>
     \/ Fault /\ (Saved \/ UNCHANGED <<row, audit>>) /\ Go(w, "throw")
  /\ UNCHANGED <<log, signal, stored, taken, blinded>>

-----------------------------------------------------------------------------
(* Maintenance, webhooks, withdrawal and the clock *)

(* Codes that are used up, or that nobody can use any more *)
ScrubCode(d) ==
  /\ d \in OtpRows
  /\ row[d].status \in {"PENDING", "FAILED", "SKIPPED", "PROCESSING"}
  /\ row[d].status # "PROCESSING" \/ row[d].expired
  /\ row' = [row EXCEPT ![d] = Unleased(d, "SKIPPED")]
  /\ UNCHANGED <<log, lane, signal, stored, audit, taken, faults, blinded>>

(* Mutant: one attempt more than the claim allows *)
ExhaustRowLate(d) ==
  /\ row[d].status = "PROCESSING" /\ row[d].expired
  /\ row[d].attempts > MaxAttempts
  /\ row' = [row EXCEPT ![d] = Unleased(d, "FAILED")]
  /\ UNCHANGED <<log, lane, signal, stored, audit, taken, faults, blinded>>

ExhaustRow(d) ==
  /\ row[d].status = "PROCESSING" /\ row[d].expired
  /\ row[d].attempts >= MaxAttempts
  /\ row' = [row EXCEPT ![d] = Unleased(d, "FAILED")]
  /\ UNCHANGED <<log, lane, signal, stored, audit, taken, faults, blinded>>

GoingOn(d) ==
  \/ row[d].status \in {"PENDING", "PROCESSING"}
  \/ row[d].status = "FAILED" /\ row[d].attempts < MaxAttempts

OrphanLog(d) == [log[d] EXCEPT !.status = IF log[d].marker THEN "UNCERTAIN" ELSE "FAILED"]

settleOrphanedNetworkingEmailLogs(d) ==
  /\ log[d].status = "SENDING"
  /\ ~GoingOn(d)
  /\ SetLog(d, OrphanLog(d))
  /\ UNCHANGED <<row, lane, signal, stored, audit, taken, faults, blinded>>

(* Withdrawal deletes what was not sent; retention and erasure delete      *)
(* every delivery, and then its log.                                       *)
DeleteRow(d) ==
  /\ row[d].status \notin {"ABSENT", "DELETED"}
  /\ row' = [row EXCEPT ![d] = Unleased(d, "DELETED")]
  /\ UNCHANGED <<log, lane, signal, stored, audit, taken, faults, blinded>>

DeleteLog(d) ==
  /\ row[d].status = "DELETED" /\ log[d].status # "ABSENT"
  /\ SetLog(d, [status |-> "ABSENT", marker |-> FALSE])
  /\ UNCHANGED <<row, lane, signal, stored, audit, taken, faults, blinded>>

(* updateEmailStatusFromWebhook, for an email the provider took *)
Webhook(d, to) ==
  /\ taken[d] > 0
  /\ log[d].status \in {"SENDING", "UNCERTAIN", "SENT", "SKIPPED"}
       \union (IF to = "BOUNCED" THEN {"DELIVERED"} ELSE {})
  /\ SetLog(d, [log[d] EXCEPT !.status = to])
  /\ UNCHANGED <<row, lane, signal, stored, audit, taken, faults, blinded>>

LeaseRunsOut(d) ==
  /\ row[d].status = "PROCESSING" /\ ~row[d].expired
  /\ row' = [row EXCEPT ![d].expired = TRUE]
  /\ UNCHANGED <<log, lane, signal, stored, audit, taken, faults, blinded>>

-----------------------------------------------------------------------------
Init ==
  /\ row = [d \in Rows |-> [status |-> "ABSENT", attempts |-> 0, holder |-> None, expired |-> FALSE,
                            sent |-> FALSE, uncertain |-> FALSE, pushed |-> {}]]
  /\ log = [d \in Rows |-> [status |-> "ABSENT", marker |-> FALSE]]
  /\ lane = [w \in Lanes |-> Idle({})]
  /\ signal = [w \in Lanes |-> "none"]
  /\ stored = {} /\ audit = {} /\ blinded = {}
  /\ taken = [d \in Rows |-> 0]
  /\ faults = 0

(* The steps of a lane that its event loop takes by itself *)
LaneStep(w) ==
  \/ \E S \in SUBSET Rows : claimNetworkingDeliveries(w, S)
  \/ \E d \in Rows : Start(w, d) \/ HandBack(w, d)
  \/ NextRun(w) \/ Throw(w) \/ SkipLog(w) \/ SkipRow(w) \/ Settle(w)
  \/ EmailChannel(w) \/ beginNetworkingEmailLog(w) \/ Unbegun(w) \/ Interrupted(w)
  \/ markNetworkingEmailAttempt(w) \/ callProvider(w) \/ RecordSent(w) \/ RecordOutcome(w)
  \/ SaveEmail(w)
  \/ PushChannel(w) \/ EndpointsListed(w) \/ PushesDone(w) \/ RefreshBeforePush(w)
  \/ Push(w) \/ SavePush(w)
  \/ RenderReport(w) \/ UploadReport(w) \/ saveNetworkingPostEventReport(w)

LaneFails(w) ==
  \/ \E S \in SUBSET Rows : ClaimLost(w, S)
  \/ \E why \in {"timeout", "shutdown"} : Abort(w, why)
  \/ Crash(w) \/ Unconfigured(w) \/ DeletionFails(w)

Maintenance(d) == ExhaustRow(d) \/ settleOrphanedNetworkingEmailLogs(d)

Environment(d) ==
  \/ enqueueNetworkingDelivery(d) \/ ScrubCode(d) \/ DeleteRow(d) \/ DeleteLog(d)
  \/ \E to \in Webhooks : Webhook(d, to)

Next ==
  \/ \E w \in Lanes : LaneStep(w) \/ LaneFails(w)
  \/ \E d \in Rows : Maintenance(d) \/ LeaseRunsOut(d) \/ Environment(d)

Spec == Init /\ [][Next]_vars

(* The lanes of a process that stays up keep running their awaits and their *)
(* claims; the maintenance job runs every minute; every lease runs out.    *)
FairSpec ==
  /\ Spec
  /\ \A w \in Lanes \ Stoppable : WF_vars(LaneStep(w))
  /\ WF_vars(\E d \in Rows : Maintenance(d))
  /\ WF_vars(\E d \in Rows : LeaseRunsOut(d))

-----------------------------------------------------------------------------
(* Properties *)

(* A provider that does not deduplicate takes one email per delivery,      *)
(* however often the delivery is claimed, crashes or loses its lease       *)
(* between the marker, the call and the record of its outcome. The         *)
(* exception is a claim whose beginning failed, which clears the marker of *)
(* an earlier one.                                                         *)
OneEmailPerDelivery ==
  Provider # "resend" => \A d \in Rows : taken[d] > 1 => d \in blinded

(* What "the marker ... right before the call: past this point the email   *)
(* is never sent again blind" promises of sendEmailChannel without the     *)
(* exception above.                                                        *)
NeverSentAgainBlind == Provider # "resend" => \A d \in Rows : taken[d] <= 1

(* What the records say: a log or a payload that says sent is of an email  *)
(* the provider took; a code delivered as SENT was taken or is uncertain;  *)
(* a report delivered as SENT is stored and audited. A failed or skipped   *)
(* log is of an email that was never taken (UNCERTAIN says that nobody     *)
(* knows) with two exceptions: a delivery whose marker a claim cleared     *)
(* when it could not begin (FailedWasNotSent), and Resend, whose ambiguous *)
(* call is retried under the same key and may end as either.               *)
OutcomesTellTruth ==
  \A d \in Rows :
    /\ log[d].status \in PROVIDER_TOOK_IT \/ row[d].sent => taken[d] > 0
    /\ log[d].status \in {"FAILED", "SKIPPED"} /\ Provider # "resend" =>
         taken[d] = 0 \/ d \in blinded
    /\ row[d].status = "SENT" /\ d \in OtpRows => row[d].sent \/ row[d].uncertain
    /\ row[d].status = "SENT" /\ d \in ReportRows => d \in stored \intersect audit

(* What "failed: nothing was sent (a rejection, or an error before the     *)
(* call)" promises of finishNetworkingEmailLog without the exception of a  *)
(* cleared marker, once no lane is at work on the delivery.                *)
FailedWasNotSent ==
  Provider # "resend" => \A d \in Rows :
    log[d].status = "FAILED" /\ (\A w \in Lanes : lane[w].at # d) => taken[d] = 0

(* While a lease runs, only the lane that knows it ends it or writes the   *)
(* delivery's progress, never a lane that lost the row; and a delivery     *)
(* that was sent or skipped stays so until it is deleted.                  *)
HolderDecides ==
  [][\A d \in Rows :
       LET before == row[d]
           after == row'[d]
       IN
       /\ /\ before.status = "PROCESSING" /\ ~before.expired
          /\ after # [before EXCEPT !.expired = TRUE] /\ after # before
          /\ after.status # "DELETED"
          => /\ before.holder # None
             /\ lane'[before.holder] # lane[before.holder]
             /\ \A w \in Lanes \ {before.holder} : lane'[w] = lane[w]
       /\ before.status \in {"SENT", "SKIPPED"} => after.status \in {before.status, "DELETED"}]_vars

(* Under fairness every delivery ends although lanes stop, statements fail *)
(* and the last attempt may die with its lease: again and again there is   *)
(* none that is not sent, skipped, deleted or out of attempts, and no      *)
(* email log is left SENDING.                                              *)
EveryDeliveryEnds ==
  []<>(\A d \in Rows : ~GoingOn(d) /\ log[d].status # "SENDING")
=============================================================================
