--------------------------- MODULE DeliveryProofs ---------------------------
(***************************************************************************)
(* Proofs about NetworkingDelivery, for every set of deliveries and lanes, *)
(* either provider and any number of failures.                             *)
(*                                                                         *)
(* Most steps of a lane do not touch the email log and do not lead it to   *)
(* the provider: one lemma shows what each of them may do to the rows and  *)
(* to the lanes, another that such a step keeps the invariant. Only the    *)
(* steps that write the log or call the provider are looked at one by one. *)
(***************************************************************************)
EXTENDS NetworkingDelivery, TLAPS

Emails == {"none", "sent", "uncertain", "failed", "deferred"}
Outs == {"none", "accepted", "rejected", "limited", "ambiguous"}

EmailSteps == {"email", "begin", "wait", "unbegun", "call", "outcome", "save"}
PushSteps == {"push", "endpoints", "endpoint", "pushing", "savePush"}
ReportSteps == {"render", "upload", "saveReport"}
Steps == {"idle", "down", "skip", "skipRow", "settle", "throw"}
           \union EmailSteps \union PushSteps \union ReportSteps

LaneRows ==
  [pc : Steps, batch : SUBSET Rows, at : Rows \union {None}, email : Emails,
   out : Outs, todo : SUBSET Endpoints, got : SUBSET Endpoints, failed : BOOLEAN]

DeliveryRows ==
  [status : {"ABSENT", "PENDING", "PROCESSING", "FAILED", "SENT", "SKIPPED", "DELETED"},
   attempts : Int, holder : Lanes \union {None}, expired : BOOLEAN,
   sent : BOOLEAN, uncertain : BOOLEAN, pushed : SUBSET Endpoints]

LogRows ==
  [status : {"ABSENT", "SENDING", "FAILED", "UNCERTAIN", "SKIPPED"} \union PROVIDER_TOOK_IT,
   marker : BOOLEAN]

RowShape == row \in [Rows -> DeliveryRows]
LogShape == log \in [Rows -> LogRows]
TakenShape == taken \in [Rows -> Nat]
LaneShape ==
  /\ lane \in [Lanes -> LaneRows]
  /\ \A w \in Lanes : lane[w].pc \notin {"idle", "down"} => lane[w].at \in Rows

Shape == RowShape /\ LogShape /\ TakenShape /\ LaneShape

(* Nobody may send the email of this log any more: the provider took it,   *)
(* its fate is unknown, or the marker says that a call was about to start  *)
Closed(d) ==
  \/ log[d].status \in PROVIDER_TOOK_IT \union {"UNCERTAIN"}
  \/ log[d].status = "SENDING" /\ log[d].marker
  \/ log[d].status = "ABSENT" /\ row[d].status = "DELETED"

On(w, d, pc) == lane[w].pc = pc /\ lane[w].at = d
NobodyCalls(d) == \A w \in Lanes : ~On(w, d, "call")

(* Why no delivery is emailed twice: from the moment a lane is about to    *)
(* call the provider the log is closed, one lane at most is there, a lane  *)
(* that still owns the row waits for its turn only while the log is open,  *)
(* and one that owns it and may reopen the log knows that nothing was sent *)
Once(d) ==
  /\ taken[d] <= 1
  /\ taken[d] > 0 => Closed(d) /\ NobodyCalls(d)
  /\ \A w \in Lanes : On(w, d, "call") => Closed(d)
  /\ \A v, w \in Lanes : On(v, d, "call") /\ On(w, d, "call") => v = w
  /\ \A w \in Lanes : Holds(w, d) =>
       /\ On(w, d, "wait") => ~Closed(d)
       /\ On(w, d, "outcome") /\ lane[w].out \in {"rejected", "limited"} =>
            taken[d] = 0 /\ NobodyCalls(d)

SentOnce == Provider # "resend" => \A d \in Rows \ blinded : Once(d)

(* Whoever says that an email was sent says it of one the provider took *)
SaysSent ==
  /\ \A d \in Rows : log[d].status \in PROVIDER_TOOK_IT \/ row[d].sent => taken[d] > 0
  /\ \A w \in Lanes : lane[w].email = "sent" \/ lane[w].out = "accepted" =>
                         lane[w].at \in Rows /\ taken[lane[w].at] > 0

(* Which deliveries take which way, and what a lane knows at its end *)
Way(w) ==
  /\ lane[w].pc \in ReportSteps => lane[w].at \in ReportRows
  /\ lane[w].pc \in EmailSteps \union PushSteps \union {"settle"} => lane[w].at \notin ReportRows
  /\ lane[w].pc \in PushSteps => lane[w].at \notin OtpRows
  /\ lane[w].pc = "save" => lane[w].email \in {"sent", "uncertain"}
  /\ lane[w].pc = "saveReport" => lane[w].at \in stored
  /\ lane[w].pc = "settle" /\ lane[w].at \in OtpRows =>
       \/ lane[w].failed \/ lane[w].email = "deferred"
       \/ row[lane[w].at].sent \/ row[lane[w].at].uncertain

Finished(d) ==
  /\ row[d].status = "SENT" /\ d \in OtpRows => row[d].sent \/ row[d].uncertain
  /\ row[d].status = "SENT" /\ d \in ReportRows => d \in stored \intersect audit

(* The inductive invariant *)
Inv ==
  /\ Shape /\ SentOnce /\ SaysSent
  /\ \A w \in Lanes : Way(w)
  /\ \A d \in Rows : Finished(d)

-----------------------------------------------------------------------------
(* Types *)

LEMMA ConstantFacts ==
  /\ None \notin Lanes /\ None \notin Rows
  /\ OtpRows \subseteq Rows /\ ReportRows \subseteq Rows /\ OtpRows \intersect ReportRows = {}
  /\ Provider \in {"sendgrid", "resend"} /\ Webhooks \subseteq {"DELIVERED", "BOUNCED"}
BY DeliveryConstants

LEMMA IdleShape ==
  ASSUME NEW batch \in SUBSET Rows
  PROVE  Idle(batch) \in LaneRows
BY DEF Idle, LaneRows, Steps, Emails, Outs

(* A lane that takes a step within its row, and one that leaves it *)
LEMMA GoTo ==
  ASSUME LaneShape, NEW w \in Lanes, NEW pc \in Steps, lane[w].at \in Rows, lane[w].pc # pc, Go(w, pc)
  PROVE  /\ LaneShape' /\ \A v \in Lanes \ {w} : lane'[v] = lane[v]
         /\ lane'[w] = [lane[w] EXCEPT !.pc = pc] /\ lane'[w] # lane[w] /\ lane[w] \in LaneRows
<1>1. lane[w] \in LaneRows /\ [lane[w] EXCEPT !.pc = pc] \in LaneRows
  BY DEF LaneShape, LaneRows
<1>2. lane' = [lane EXCEPT ![w] = [lane[w] EXCEPT !.pc = pc]]
  BY DEF Go
<1>3. lane'[w] = [lane[w] EXCEPT !.pc = pc]
  BY <1>2 DEF LaneShape
<1>4. lane'[w] # lane[w] /\ lane'[w].at \in Rows
  BY <1>1, <1>3 DEF LaneRows
<1>5. QED
  BY <1>1, <1>2, <1>3, <1>4 DEF LaneShape

LEMMA LeaveTo ==
  ASSUME LaneShape, NEW w \in Lanes, lane[w].pc # "idle", Leave(w)
  PROVE  /\ LaneShape' /\ \A v \in Lanes \ {w} : lane'[v] = lane[v]
         /\ lane'[w] = Idle(lane[w].batch) /\ lane'[w] # lane[w]
<1>1. lane[w].batch \in SUBSET Rows
  BY DEF LaneShape, LaneRows
<1>2. Idle(lane[w].batch) \in LaneRows /\ Idle(lane[w].batch).pc = "idle"
  BY <1>1, IdleShape DEF Idle
<1>3. lane' = [lane EXCEPT ![w] = Idle(lane[w].batch)]
  BY DEF Leave
<1>4. QED
  BY <1>2, <1>3 DEF LaneShape

LEMMA EmailedTo ==
  ASSUME LaneShape, NEW w \in Lanes, NEW email \in Emails \ {"none"}, lane[w].at \in Rows, Emailed(w, email)
  PROVE  /\ LaneShape' /\ \A v \in Lanes \ {w} : lane'[v] = lane[v]
         /\ lane'[w].email = email /\ lane'[w].out = "none" /\ lane'[w].at = lane[w].at
         /\ lane'[w].failed \/ email # "failed"
         /\ lane'[w].pc = IF email \in {"sent", "uncertain"} THEN "save" ELSE AfterEmail(lane[w].at)
<1>1. AfterEmail(lane[w].at) \in {"push", "settle"} /\ lane[w] \in LaneRows
  BY DEF AfterEmail, LaneShape
<1>2. PICK pc \in {"save", "push", "settle"}, b \in BOOLEAN :
        lane' = [lane EXCEPT ![w] = [@ EXCEPT !.email = email, !.failed = b, !.out = "none", !.pc = pc]]
  BY <1>1 DEF Emailed, LaneShape, LaneRows
<1>3. [lane[w] EXCEPT !.email = email, !.failed = b, !.out = "none", !.pc = pc] \in LaneRows
  BY <1>1 DEF LaneRows, Steps, EmailSteps, PushSteps, Outs
<1>4. LaneShape' /\ \A v \in Lanes \ {w} : lane'[v] = lane[v]
  BY <1>1, <1>2, <1>3 DEF LaneShape, LaneRows
<1>5. QED
  BY <1>1, <1>4 DEF Emailed, LaneShape, LaneRows

LEMMA UnleasedShape ==
  ASSUME RowShape, NEW d \in Rows, NEW status \in {"PENDING", "FAILED", "SENT", "SKIPPED", "DELETED"}
  PROVE  /\ Unleased(d, status) \in DeliveryRows
         /\ [Unleased(d, status) EXCEPT !.attempts = @ - 1] \in DeliveryRows
<1>1. row[d] \in DeliveryRows
  BY DEF RowShape
<1>2. Unleased(d, status) \in DeliveryRows
  BY <1>1 DEF DeliveryRows, Unleased
<1>3. QED
  BY <1>2 DEF DeliveryRows

LEMMA LogsShape ==
  ASSUME LogShape, NEW d \in Rows, NEW l \in LogRows, SetLog(d, l)
  PROVE  LogShape'
BY DEF LogShape, SetLog

LEMMA WrittenLogs ==
  ASSUME LogShape, NEW d \in Rows
  PROVE  /\ BeginLog(d).log \in LogRows /\ SentLog(d) \in LogRows /\ UncertainLog(d) \in LogRows
         /\ SkippedLog(d) \in LogRows /\ OrphanLog(d) \in LogRows
         /\ \A b \in BOOLEAN : FailedLog(d, b) \in LogRows
         /\ BeginLog(d).email \in {"none", "sent", "uncertain"}
BY DEF LogShape, LogRows, BeginLog, SentLog, UncertainLog, SkippedLog, OrphanLog, FailedLog, PROVIDER_TOOK_IT

-----------------------------------------------------------------------------
(* What a step of a lane may do *)

(* `to` is what lane w may write in the row d: its progress or its end *)
Writes(w, d, to) ==
  /\ to \in DeliveryRows /\ to.holder \in {w, None}
  /\ to.status \in {"PROCESSING", "PENDING", "FAILED", "SENT", "SKIPPED"}
  /\ row[d].sent => to.sent
  /\ row[d].uncertain => to.uncertain
  /\ to.sent => row[d].sent \/ (lane[w].at = d /\ lane[w].email = "sent")
  /\ to.status = "SENT" /\ d \in OtpRows => to.sent \/ to.uncertain
  /\ to.status = "SENT" /\ d \in ReportRows => d \in stored /\ d \in audit'

Written(w, d) == Holds(w, d) /\ lane'[w] # lane[w] /\ Writes(w, d, row'[d])

Leased(w, d) ==
  /\ row[d].status \in {"PENDING", "PROCESSING", "FAILED"}
  /\ row[d].status # "PROCESSING" \/ row[d].expired
  /\ row'[d] \in DeliveryRows
  /\ row'[d].status = "PROCESSING" /\ row'[d].holder \in {w, None}
  /\ row'[d].sent = row[d].sent /\ row'[d].uncertain = row[d].uncertain

RowEffect(w) ==
  /\ row' = [d \in Rows |-> row'[d]]
  /\ \A d \in Rows : \/ row'[d] = row[d]
                     \/ Written(w, d)
                     \/ Leased(w, d) /\ lane'[w].pc = "idle"

(* Every step of lane w *)
Effect(w) ==
  /\ RowEffect(w) /\ LaneShape' /\ Way(w)'
  /\ \A v \in Lanes \ {w} : lane'[v] = lane[v]
  /\ stored \subseteq stored' /\ audit \subseteq audit'

(* A step that has nothing to do with the email *)
Quiet(w) ==
  /\ log' = log /\ taken' = taken /\ blinded' = blinded
  /\ lane'[w] = lane[w] \/ lane'[w].pc \notin {"wait", "call", "outcome"}
  /\ lane'[w].email = "sent" => lane[w].email = "sent" /\ lane'[w].at = lane[w].at
  /\ lane'[w].out = "accepted" => lane[w].out = "accepted" /\ lane'[w].at = lane[w].at

LEMMA NoWrite ==
  ASSUME RowShape, NEW w \in Lanes, UNCHANGED row
  PROVE  RowEffect(w)
BY DEF RowEffect, RowShape

LEMMA OneWrite ==
  ASSUME RowShape, NEW w \in Lanes, NEW d \in Rows, NEW to, Writes(w, d, to), lane'[w] # lane[w],
         updateNetworkingDelivery(w, d, to) \/ NotUpdated(w, d) \/ UpdateFails(w, d, to)
  PROVE  RowEffect(w)
<1>1. CASE UNCHANGED row
  BY <1>1, NoWrite
<1>2. CASE updateNetworkingDelivery(w, d, to)
  <2>1. row' = [row EXCEPT ![d] = to] /\ Holds(w, d)
    BY <1>2 DEF updateNetworkingDelivery
  <2>2. row'[d] = to /\ \A x \in Rows \ {d} : row'[x] = row[x]
    BY <2>1 DEF RowShape
  <2>3. Written(w, d)
    BY <2>1, <2>2 DEF Written
  <2>4. QED
    BY <2>1, <2>2, <2>3 DEF RowEffect, RowShape
<1>3. QED
  BY <1>1, <1>2 DEF NotUpdated, UpdateFails

LEMMA OneClaim ==
  ASSUME RowShape, NEW w \in Lanes, NEW S \in SUBSET Claimable(w), NEW h \in {w, None},
         row' = Claimed(S, h), lane'[w].pc = "idle"
  PROVE  RowEffect(w)
<1>1. ASSUME NEW d \in Rows
      PROVE  row'[d] = row[d] \/ Leased(w, d)
  <2>1. row[d] \in DeliveryRows
    BY DEF RowShape
  <2>2. CASE d \notin S
    BY <2>2 DEF Claimed
  <2>3. CASE d \in S
    <3>1. row'[d] = [row[d] EXCEPT !.status = "PROCESSING", !.attempts = @ + 1, !.holder = h, !.expired = FALSE]
      BY <2>3 DEF Claimed
    <3>2. row[d].attempts + 1 \in Int
      BY <2>1 DEF DeliveryRows
    <3>3. [row[d] EXCEPT !.status = "PROCESSING", !.attempts = row[d].attempts + 1, !.holder = h, !.expired = FALSE]
            \in DeliveryRows
      BY <2>1, <3>2 DEF DeliveryRows
    <3>4. /\ row'[d].status = "PROCESSING" /\ row'[d].holder = h
          /\ row'[d].sent = row[d].sent /\ row'[d].uncertain = row[d].uncertain
      BY <2>1, <3>1 DEF DeliveryRows
    <3>5. QED
      BY <2>3, <3>1, <3>3, <3>4 DEF Leased, Claimable
  <2>4. QED
    BY <2>2, <2>3
<1>2. row' = [d \in Rows |-> row'[d]]
  BY DEF Claimed
<1>3. QED
  BY <1>1, <1>2 DEF RowEffect

(* The writes of a lane, one by one *)
LEMMA EndWrites ==
  ASSUME RowShape, NEW w \in Lanes, NEW d \in Rows, NEW status \in {"PENDING", "FAILED", "SKIPPED", "SENT"},
         status = "SENT" => /\ d \in OtpRows => row[d].sent \/ row[d].uncertain
                            /\ d \in ReportRows => d \in stored /\ d \in audit'
  PROVE  /\ Writes(w, d, Unleased(d, status))
         /\ status # "SENT" => Writes(w, d, [Unleased(d, status) EXCEPT !.attempts = @ - 1])
<1>1. row[d] \in DeliveryRows
  BY DEF RowShape
<1>2. /\ Unleased(d, status) \in DeliveryRows
      /\ [Unleased(d, status) EXCEPT !.attempts = @ - 1] \in DeliveryRows
  BY UnleasedShape
<1>3. /\ Unleased(d, status).status = status /\ Unleased(d, status).holder = None
      /\ Unleased(d, status).sent = row[d].sent /\ Unleased(d, status).uncertain = row[d].uncertain
  BY <1>1 DEF Unleased, DeliveryRows
<1>4. QED
  BY <1>2, <1>3 DEF Writes, DeliveryRows

LEMMA RefreshWrites ==
  ASSUME RowShape, NEW w \in Lanes, NEW d \in Rows, Holds(w, d)
  PROVE  /\ Writes(w, d, [row[d] EXCEPT !.expired = FALSE])
         /\ Writes(w, d, [row[d] EXCEPT !.expired = FALSE, !.holder = None])
         /\ Writes(w, d, [row[d] EXCEPT !.holder = None])
<1>1. row[d] \in DeliveryRows
  BY DEF RowShape
<1>2. QED
  BY <1>1 DEF Holds, Writes, DeliveryRows

LEMMA SaveWrites ==
  ASSUME RowShape, NEW w \in Lanes, NEW d \in Rows, Holds(w, d),
         NEW s \in BOOLEAN, NEW u \in BOOLEAN, NEW p \in SUBSET Endpoints,
         s => lane[w].at = d /\ lane[w].email = "sent"
  PROVE  Writes(w, d, [row[d] EXCEPT !.sent = @ \/ s, !.uncertain = @ \/ u, !.pushed = @ \union p])
<1>1. row[d] \in DeliveryRows
  BY DEF RowShape
<1>2. QED
  BY <1>1 DEF Holds, Writes, DeliveryRows

-----------------------------------------------------------------------------
(* The quiet steps of a lane *)

LEMMA ClaimQuiet ==
  ASSUME Inv, NEW w \in Lanes, NEW S \in SUBSET Rows, claimNetworkingDeliveries(w, S) \/ ClaimLost(w, S)
  PROVE  Effect(w) /\ Quiet(w)
<1>1. RowShape /\ LaneShape /\ S \subseteq Claimable(w) /\ lane[w] = Idle({})
  BY DEF Inv, Shape, claimNetworkingDeliveries, ClaimLost, MayClaim
<1>2. PICK B \in SUBSET Rows : lane' = [lane EXCEPT ![w] = Idle(B)]
  <2>1. CASE claimNetworkingDeliveries(w, S)
    BY <2>1 DEF claimNetworkingDeliveries
  <2>2. CASE ClaimLost(w, S)
    <3>1. lane' = [lane EXCEPT ![w] = Idle({})]
      BY <1>1, <2>2 DEF ClaimLost, LaneShape
    <3>2. QED
      BY <3>1
  <2>3. QED
    BY <2>1, <2>2
<1>3. Idle(B) \in LaneRows
  BY IdleShape
<1>4. /\ LaneShape' /\ lane'[w] = Idle(B) /\ lane'[w].pc = "idle"
      /\ \A v \in Lanes \ {w} : lane'[v] = lane[v]
  BY <1>1, <1>2, <1>3 DEF LaneShape, Idle
<1>5. PICK h \in {w, None} : row' = Claimed(S, h)
  BY DEF claimNetworkingDeliveries, ClaimLost
<1>6. RowEffect(w)
  BY <1>1, <1>4, <1>5, OneClaim
<1>7. Way(w)'
  BY <1>4 DEF Way, EmailSteps, PushSteps, ReportSteps
<1>8. Quiet(w)
  BY <1>4 DEF Quiet, Idle, claimNetworkingDeliveries, ClaimLost
<1>9. QED
  BY <1>4, <1>6, <1>7, <1>8 DEF Effect, claimNetworkingDeliveries, ClaimLost

(* A step that leaves the rows alone, or writes one row *)
Wrote(w) ==
  \/ UNCHANGED row
  \/ \E d \in Rows : \E to : /\ Writes(w, d, to)
                             /\ \/ updateNetworkingDelivery(w, d, to)
                                \/ NotUpdated(w, d)
                                \/ UpdateFails(w, d, to)

LEMMA WroteEffect ==
  ASSUME RowShape, NEW w \in Lanes, Wrote(w), lane'[w] # lane[w]
  PROVE  RowEffect(w)
BY NoWrite, OneWrite DEF Wrote

(* What has to be shown of a quiet step within a row *)
MayGo(w, pc) ==
  LET d == lane[w].at IN
  /\ d \in Rows /\ pc \in Steps \ {"wait", "call", "outcome", "save", lane[w].pc}
  /\ pc \in ReportSteps => d \in ReportRows
  /\ pc \in EmailSteps \union PushSteps \union {"settle"} => d \notin ReportRows
  /\ pc \in PushSteps => d \notin OtpRows
  /\ pc = "saveReport" => d \in stored'
  /\ pc = "settle" /\ d \in OtpRows =>
       lane[w].failed \/ lane[w].email = "deferred" \/ row'[d].sent \/ row'[d].uncertain

LEMMA GoQuiet ==
  ASSUME Inv, NEW w \in Lanes, NEW pc, MayGo(w, pc), Go(w, pc), Wrote(w),
         stored \subseteq stored', audit \subseteq audit', UNCHANGED <<log, taken, blinded>>
  PROVE  Effect(w) /\ Quiet(w)
<1>1. RowShape /\ LaneShape
  BY DEF Inv, Shape
<1>2. /\ LaneShape' /\ \A v \in Lanes \ {w} : lane'[v] = lane[v]
      /\ lane'[w] = [lane[w] EXCEPT !.pc = pc] /\ lane'[w] # lane[w] /\ lane[w] \in LaneRows
  BY <1>1, GoTo DEF MayGo
<1>3. /\ lane'[w].pc = pc /\ lane'[w].at = lane[w].at /\ lane'[w].email = lane[w].email
      /\ lane'[w].out = lane[w].out /\ lane'[w].failed = lane[w].failed
  BY <1>2 DEF LaneRows
<1>4. Way(w)'
  BY <1>3 DEF Way, MayGo
<1>5. Quiet(w)
  BY <1>3 DEF Quiet, MayGo
<1>6. QED
  BY <1>1, <1>2, <1>4, <1>5, WroteEffect DEF Effect

LEMMA LeaveQuiet ==
  ASSUME Inv, NEW w \in Lanes, lane[w].pc # "idle", Leave(w), Wrote(w),
         stored \subseteq stored', audit \subseteq audit', UNCHANGED <<log, taken, blinded>>
  PROVE  Effect(w) /\ Quiet(w)
<1>1. RowShape /\ LaneShape
  BY DEF Inv, Shape
<1>2. /\ LaneShape' /\ \A v \in Lanes \ {w} : lane'[v] = lane[v]
      /\ lane'[w] = Idle(lane[w].batch) /\ lane'[w] # lane[w]
  BY <1>1, LeaveTo
<1>3. Way(w)'
  BY <1>2 DEF Way, Idle, EmailSteps, PushSteps, ReportSteps
<1>4. Quiet(w)
  BY <1>2 DEF Quiet, Idle
<1>5. QED
  BY <1>1, <1>2, <1>3, <1>4, WroteEffect DEF Effect

(* The rows of the lanes *)
LEMMA AtRow ==
  ASSUME Inv, NEW w \in Lanes, lane[w].pc \notin {"idle", "down"}
  PROVE  /\ lane[w].at \in Rows /\ row[lane[w].at] \in DeliveryRows /\ lane[w] \in LaneRows
         /\ RowShape
BY DEF Inv, Shape, LaneShape, RowShape

LEMMA RefreshWrote ==
  ASSUME RowShape, NEW w \in Lanes, NEW d \in Rows, NEW pc, Refresh(w, d, pc) \/ RefreshFails(w, d)
  PROVE  Wrote(w)
<1>1. CASE UNCHANGED row
  BY <1>1 DEF Wrote
<1>2. CASE Holds(w, d)
  BY <1>2, RefreshWrites DEF Wrote, Refresh, RefreshFails
<1>3. QED
  BY <1>1, <1>2 DEF Refresh, RefreshFails, UpdateFails, updateNetworkingDelivery, NotUpdated

LEMMA RevalidateQuiet ==
  ASSUME Inv, NEW w \in Lanes, NEW then, lane[w].pc \notin {"idle", "down", "skip", "throw"}, Revalidate(w, then),
         MayGo(w, then)
  PROVE  Effect(w) /\ Quiet(w)
<1>1. lane[w].at \in Rows /\ RowShape
  BY AtRow
<1>2. Wrote(w)
  BY <1>1, RefreshWrote DEF Revalidate
<1>3. MayGo(w, "skip") /\ MayGo(w, "throw")
  BY <1>1 DEF MayGo, Steps, EmailSteps, PushSteps, ReportSteps
<1>4. CASE Leave(w)
  BY <1>2, <1>4, LeaveQuiet DEF Revalidate
<1>5. CASE \E pc \in {"skip", then, "throw"} : Go(w, pc)
  BY <1>2, <1>3, <1>5, GoQuiet DEF Revalidate
<1>6. QED
  BY <1>4, <1>5 DEF Revalidate, Refresh

LEMMA EndRowQuiet ==
  ASSUME Inv, NEW w \in Lanes, NEW to, lane[w].pc \notin {"idle", "down", "throw"}, EndRow(w, to),
         Writes(w, lane[w].at, to)
  PROVE  Effect(w) /\ Quiet(w)
<1>1. lane[w].at \in Rows
  BY AtRow
<1>2. Wrote(w)
  BY <1>1 DEF EndRow, Wrote
<1>3. MayGo(w, "throw")
  BY <1>1 DEF MayGo, Steps, EmailSteps, PushSteps, ReportSteps
<1>4. CASE Leave(w)
  BY <1>2, <1>4, LeaveQuiet DEF EndRow
<1>5. CASE Go(w, "throw")
  BY <1>2, <1>3, <1>5, GoQuiet DEF EndRow
<1>6. QED
  BY <1>4, <1>5 DEF EndRow

LEMMA BatchTo ==
  ASSUME LaneShape, NEW w \in Lanes, lane[w].pc = "idle", NEW d \in lane[w].batch,
         lane' = [lane EXCEPT ![w].batch = @ \ {d}]
  PROVE  /\ LaneShape' /\ \A v \in Lanes \ {w} : lane'[v] = lane[v]
         /\ lane'[w] # lane[w] /\ lane'[w].pc = "idle" /\ lane'[w].email = lane[w].email
         /\ lane'[w].at = lane[w].at /\ lane'[w].out = lane[w].out
<1>1. lane[w] \in LaneRows
  BY DEF LaneShape
<1>2. PICK B \in SUBSET Rows : B = lane[w].batch \ {d}
  BY <1>1 DEF LaneRows
<1>3. lane' = [lane EXCEPT ![w] = [@ EXCEPT !.batch = B]]
  BY <1>2
<1>4. [lane[w] EXCEPT !.batch = B] \in LaneRows /\ B # lane[w].batch
  BY <1>1, <1>2 DEF LaneRows
<1>5. lane'[w] = [lane[w] EXCEPT !.batch = B] /\ \A v \in Lanes \ {w} : lane'[v] = lane[v]
  BY <1>3 DEF LaneShape
<1>6. /\ lane'[w].pc = "idle" /\ lane'[w].batch = B /\ lane'[w].email = lane[w].email
      /\ lane'[w].at = lane[w].at /\ lane'[w].out = lane[w].out
  BY <1>1, <1>5 DEF LaneRows
<1>7. QED
  BY <1>3, <1>4, <1>5, <1>6 DEF LaneShape

LEMMA HandBackQuiet ==
  ASSUME Inv, NEW w \in Lanes, NEW d \in Rows, HandBack(w, d)
  PROVE  Effect(w) /\ Quiet(w)
<1>1. RowShape /\ LaneShape /\ lane[w] \in LaneRows /\ lane[w].pc = "idle" /\ d \in lane[w].batch
  BY DEF Inv, Shape, LaneShape, HandBack, At
<1>2. /\ LaneShape' /\ \A v \in Lanes \ {w} : lane'[v] = lane[v]
      /\ lane'[w] # lane[w] /\ lane'[w].pc = "idle" /\ lane'[w].email = lane[w].email
      /\ lane'[w].at = lane[w].at /\ lane'[w].out = lane[w].out
  BY <1>1, BatchTo DEF HandBack
<1>3. Wrote(w)
  <2>1. Writes(w, d, [Unleased(d, "PENDING") EXCEPT !.attempts = @ - 1])
    BY <1>1, EndWrites
  <2>2. QED
    BY <2>1 DEF HandBack, Wrote
<1>4. Way(w)'
  BY <1>2 DEF Way, EmailSteps, PushSteps, ReportSteps
<1>5. QED
  BY <1>1, <1>2, <1>3, <1>4, WroteEffect DEF Effect, Quiet, HandBack

LEMMA StartQuiet ==
  ASSUME Inv, NEW w \in Lanes, NEW d \in Rows, Start(w, d)
  PROVE  Effect(w) /\ Quiet(w)
<1>1. /\ RowShape /\ LaneShape /\ lane[w] \in LaneRows /\ lane[w].pc = "idle" /\ d \in lane[w].batch
      /\ row[d] \in DeliveryRows
  BY DEF Inv, Shape, LaneShape, RowShape, Start, At
<1>2. PICK B \in SUBSET Rows : B = lane[w].batch \ {d}
  BY <1>1 DEF LaneRows
<1>3. PICK started : started = [Idle(B) EXCEPT !.at = d]
  OBVIOUS
<1>4. started \in LaneRows /\ started.at = d /\ started.email = "none" /\ started.out = "none"
  <2>1. Idle(B) \in LaneRows /\ Idle(B).email = "none" /\ Idle(B).out = "none"
    BY IdleShape DEF Idle
  <2>2. QED
    BY <1>3, <2>1 DEF LaneRows
<1>5. Wrote(w)
  <2>1. CASE Holds(w, d)
    BY <1>1, <2>1, RefreshWrites DEF Start, Wrote, RefreshFails
  <2>2. CASE ~Holds(w, d)
    BY <2>2 DEF Start, Wrote, RefreshFails, UpdateFails, updateNetworkingDelivery, NotUpdated
  <2>3. QED
    BY <2>1, <2>2
<1>6. CASE lane' = [lane EXCEPT ![w].batch = @ \ {d}]
  <2>1. /\ LaneShape' /\ \A v \in Lanes \ {w} : lane'[v] = lane[v]
        /\ lane'[w] # lane[w] /\ lane'[w].pc = "idle" /\ lane'[w].email = lane[w].email
        /\ lane'[w].at = lane[w].at /\ lane'[w].out = lane[w].out
    BY <1>1, <1>6, BatchTo
  <2>2. Way(w)'
    BY <2>1 DEF Way, EmailSteps, PushSteps, ReportSteps
  <2>3. QED
    BY <1>1, <1>5, <2>1, <2>2, WroteEffect DEF Effect, Quiet, Start
<1>7. ASSUME NEW pc \in NextStep(d) \union {"throw"},
             lane' = [lane EXCEPT ![w] = [started EXCEPT !.pc = pc]],
             pc # "throw" => row'[d].sent = row[d].sent /\ row'[d].uncertain = row[d].uncertain
      PROVE  Effect(w) /\ Quiet(w)
  <2>1. pc \in {"render", "skipRow", "skip", "push", "settle", "email", "throw"}
    BY DEF NextStep, AfterEmail
  <2>2. PICK l : l = [started EXCEPT !.pc = pc]
    OBVIOUS
  <2>3. l \in LaneRows /\ l.pc = pc /\ l.at = d /\ l.email = "none" /\ l.out = "none"
    BY <1>4, <2>1, <2>2 DEF LaneRows, Steps, EmailSteps, PushSteps, ReportSteps
  <2>4. lane'[w] = l /\ \A v \in Lanes \ {w} : lane'[v] = lane[v]
    BY <1>1, <1>7, <2>2 DEF LaneShape
  <2>5. LaneShape' /\ lane'[w] # lane[w]
    BY <1>1, <1>7, <2>1, <2>2, <2>3, <2>4 DEF LaneShape
  <2>6. Way(w)'
    BY <1>7, <2>1, <2>3, <2>4, ConstantFacts
    DEF Way, NextStep, AfterEmail, Pushable, EmailSteps, PushSteps, ReportSteps
  <2>7. QED
    BY <1>1, <1>5, <2>1, <2>3, <2>4, <2>5, <2>6, WroteEffect DEF Effect, Quiet, Start
<1>8. ASSUME updateNetworkingDelivery(w, d, [row[d] EXCEPT !.expired = FALSE])
      PROVE  row'[d].sent = row[d].sent /\ row'[d].uncertain = row[d].uncertain
  BY <1>1, <1>8 DEF updateNetworkingDelivery, RowShape, DeliveryRows
<1>9. QED
  BY <1>2, <1>3, <1>6, <1>7, <1>8 DEF Start

LEMMA AbortQuiet ==
  ASSUME Inv, NEW w \in Lanes, UNCHANGED lane, UNCHANGED <<row, log, stored, audit, taken, blinded>>
  PROVE  Effect(w) /\ Quiet(w)
<1>1. RowEffect(w)
  BY NoWrite DEF Inv, Shape
<1>2. QED
  BY <1>1 DEF Inv, Shape, Effect, Quiet, Way, LaneShape

LEMMA CrashQuiet ==
  ASSUME Inv, NEW w \in Lanes, Crash(w)
  PROVE  Effect(w) /\ Quiet(w)
<1>1. RowShape /\ LaneShape
  BY DEF Inv, Shape
<1>2. [Idle({}) EXCEPT !.pc = "down"] \in LaneRows /\ [Idle({}) EXCEPT !.pc = "down"].pc = "down"
  BY DEF Idle, LaneRows, Steps, Emails, Outs
<1>3. /\ LaneShape' /\ \A v \in Lanes \ {w} : lane'[v] = lane[v]
      /\ lane'[w] = [Idle({}) EXCEPT !.pc = "down"]
  BY <1>1, <1>2 DEF LaneShape, Crash
<1>4. lane'[w].email = "none" /\ lane'[w].out = "none" /\ lane'[w].pc = "down"
  BY <1>3 DEF Idle
<1>5. Way(w)'
  BY <1>4 DEF Way, EmailSteps, PushSteps, ReportSteps
<1>6. QED
  BY <1>1, <1>3, <1>4, <1>5, NoWrite DEF Effect, Quiet, Crash

LEMMA EndQuiet ==
  ASSUME Inv, NEW w \in Lanes, Throw(w) \/ SkipRow(w) \/ Settle(w)
  PROVE  Effect(w) /\ Quiet(w)
<1>1. /\ lane[w].at \in Rows /\ row[lane[w].at] \in DeliveryRows /\ lane[w] \in LaneRows /\ RowShape
      /\ Way(w)
  BY AtRow DEF Throw, SkipRow, Settle, At, Inv
<1>2. CASE Throw(w)
  <2>1. Writes(w, lane[w].at, Unleased(lane[w].at, "FAILED"))
    BY <1>1, EndWrites
  <2>2. Wrote(w)
    BY <1>1, <1>2, <2>1 DEF Throw, Wrote
  <2>3. QED
    BY <1>2, <2>2, LeaveQuiet DEF Throw, At
<1>3. CASE SkipRow(w)
  <2>1. Writes(w, lane[w].at, Unleased(lane[w].at, "SKIPPED"))
    BY <1>1, EndWrites
  <2>2. QED
    BY <1>3, <2>1, EndRowQuiet DEF SkipRow, At
<1>4. CASE Settle(w)
  <2>1. /\ Writes(w, lane[w].at, Unleased(lane[w].at, "FAILED"))
        /\ Writes(w, lane[w].at, [Unleased(lane[w].at, "FAILED") EXCEPT !.attempts = @ - 1])
    BY <1>1, EndWrites
  <2>2. ASSUME ~lane[w].failed, lane[w].email # "deferred"
        PROVE  Writes(w, lane[w].at, Unleased(lane[w].at, "SENT"))
    BY <1>1, <1>4, <2>2, EndWrites DEF Settle, At, Way
  <2>3. QED
    BY <1>4, <2>1, <2>2, EndRowQuiet DEF Settle, At
<1>5. QED
  BY <1>2, <1>3, <1>4

LEMMA EmailChannelQuiet ==
  ASSUME Inv, NEW w \in Lanes, EmailChannel(w)
  PROVE  Effect(w) /\ Quiet(w)
<1>1. lane[w].at \in Rows /\ Way(w) /\ lane[w].pc = "email"
  BY AtRow DEF EmailChannel, At, Inv
<1>2. MayGo(w, "begin") /\ (lane[w].at \notin OtpRows => MayGo(w, AfterEmail(lane[w].at)))
  BY <1>1 DEF MayGo, Way, AfterEmail, Steps, EmailSteps, PushSteps, ReportSteps
<1>3. QED
  BY <1>1, <1>2, RevalidateQuiet DEF EmailChannel

LEMMA UnconfiguredQuiet ==
  ASSUME Inv, NEW w \in Lanes, Unconfigured(w)
  PROVE  Effect(w) /\ Quiet(w)
<1>1. lane[w].at \in Rows /\ Way(w) /\ lane[w].pc = "wait"
  BY AtRow DEF Unconfigured, At, Inv
<1>2. MayGo(w, "unbegun") /\ Wrote(w)
  BY <1>1 DEF MayGo, Way, Wrote, Unconfigured, Steps, EmailSteps, PushSteps, ReportSteps
<1>3. QED
  BY <1>2, GoQuiet DEF Unconfigured

LEMMA SaveEmailQuiet ==
  ASSUME Inv, NEW w \in Lanes, SaveEmail(w)
  PROVE  Effect(w) /\ Quiet(w)
<1> DEFINE d == lane[w].at
           to == [row[d] EXCEPT !.sent = @ \/ lane[w].email = "sent",
                                !.uncertain = @ \/ lane[w].email = "uncertain"]
<1>1. d \in Rows /\ row[d] \in DeliveryRows /\ RowShape /\ Way(w) /\ lane[w].pc = "save"
  BY AtRow DEF SaveEmail, At, Inv
<1>2. lane[w].email \in {"sent", "uncertain"}
  BY <1>1 DEF Way
<1>3. to \in DeliveryRows /\ (to.sent \/ to.uncertain)
  BY <1>1, <1>2 DEF DeliveryRows
<1>4. Holds(w, d) => Writes(w, d, to)
  BY <1>1, <1>2, <1>3 DEF Holds, Writes, DeliveryRows
<1>5. Wrote(w)
  <2>1. CASE Holds(w, d)
    BY <1>1, <1>4, <2>1 DEF SaveEmail, Wrote
  <2>2. CASE ~Holds(w, d)
    BY <2>2 DEF SaveEmail, Wrote, UpdateFails, updateNetworkingDelivery, NotUpdated
  <2>3. QED
    BY <2>1, <2>2
<1>6. CASE Leave(w)
  BY <1>1, <1>5, <1>6, LeaveQuiet DEF SaveEmail
<1>7. CASE updateNetworkingDelivery(w, d, to) /\ Go(w, AfterEmail(d))
  <2>1. row'[d] = to
    BY <1>1, <1>7 DEF updateNetworkingDelivery, RowShape
  <2>2. MayGo(w, AfterEmail(d))
    BY <1>1, <1>3, <2>1 DEF MayGo, Way, AfterEmail, Pushable, Steps, EmailSteps, PushSteps, ReportSteps
  <2>3. QED
    BY <1>5, <1>7, <2>2, GoQuiet DEF SaveEmail
<1>8. QED
  BY <1>6, <1>7 DEF SaveEmail

(* The steps of the push channel that write more than the pc *)
LEMMA PushQuiet ==
  ASSUME Inv, NEW w \in Lanes, lane[w].pc \in PushSteps, Wrote(w),
         UNCHANGED <<log, stored, audit, taken, blinded>>,
         NEW l \in LaneRows, lane' = [lane EXCEPT ![w] = l], l.pc \in PushSteps \ {lane[w].pc},
         l.at = lane[w].at, l.email = lane[w].email, l.out = lane[w].out
  PROVE  Effect(w) /\ Quiet(w)
<1>1. RowShape /\ LaneShape /\ Way(w)
  BY DEF Inv, Shape
<1>2. lane'[w] = l /\ lane'[w] # lane[w] /\ \A v \in Lanes \ {w} : lane'[v] = lane[v]
  BY <1>1 DEF LaneShape
<1>3. LaneShape'
  BY <1>1, <1>2 DEF LaneShape, PushSteps
<1>4. Way(w)' /\ Quiet(w)
  BY <1>1, <1>2 DEF Way, Quiet, EmailSteps, PushSteps, ReportSteps
<1>5. QED
  BY <1>1, <1>2, <1>3, <1>4, WroteEffect DEF Effect

LEMMA PushChannelQuiet ==
  ASSUME Inv, NEW w \in Lanes, PushChannel(w) \/ PushesDone(w)
  PROVE  Effect(w) /\ Quiet(w)
<1>1. lane[w].at \in Rows /\ Way(w) /\ lane[w].pc \in {"push", "endpoint"}
  BY AtRow DEF PushChannel, PushesDone, At, Inv
<1>2. MayGo(w, "settle") /\ (lane[w].pc = "push" => MayGo(w, "endpoints"))
  BY <1>1 DEF MayGo, Way, Steps, EmailSteps, PushSteps, ReportSteps
<1>3. CASE UNCHANGED row /\ Go(w, "settle") /\ UNCHANGED <<log, stored, audit, taken, blinded>>
  BY <1>2, <1>3, GoQuiet DEF Wrote
<1>4. CASE At(w, "push") /\ Revalidate(w, "endpoints")
  BY <1>2, <1>4, RevalidateQuiet DEF At
<1>5. QED
  BY <1>3, <1>4 DEF PushChannel, PushesDone

LEMMA EndpointsQuiet ==
  ASSUME Inv, NEW w \in Lanes, EndpointsListed(w) \/ Push(w)
  PROVE  Effect(w) /\ Quiet(w)
<1>1. /\ lane[w].at \in Rows /\ lane[w] \in LaneRows /\ lane[w].pc \in {"endpoints", "pushing"}
      /\ row[lane[w].at] \in DeliveryRows /\ RowShape
  BY AtRow DEF EndpointsListed, Push, At
<1>2. Wrote(w)
  BY DEF Wrote, EndpointsListed, Push
<1>3. CASE EndpointsListed(w)
  <2>1. PICK S \in SUBSET Endpoints : lane' = [lane EXCEPT ![w] = [@ EXCEPT !.todo = S, !.pc = "endpoint"]]
    BY <1>3 DEF EndpointsListed
  <2>2. PICK l : l = [lane[w] EXCEPT !.todo = S, !.pc = "endpoint"]
    OBVIOUS
  <2>3. l \in LaneRows /\ l.pc = "endpoint" /\ l.at = lane[w].at /\ l.email = lane[w].email /\ l.out = lane[w].out
    BY <1>1, <2>2 DEF LaneRows, Steps, PushSteps
  <2>4. lane[w].pc = "endpoints"
    BY <1>3 DEF EndpointsListed, At
  <2>5. QED
    BY <1>2, <1>3, <2>1, <2>2, <2>3, <2>4, PushQuiet DEF PushSteps, EndpointsListed
<1>4. CASE Push(w)
  <2>1. PICK e \in lane[w].todo :
          \/ lane' = [lane EXCEPT ![w].todo = @ \ {e}, ![w].got = @ \union {e}, ![w].pc = "savePush"]
          \/ lane' = [lane EXCEPT ![w].todo = @ \ {e}, ![w].failed = TRUE, ![w].pc = "savePush"]
    BY <1>4 DEF Push
  <2>2. PICK S \in SUBSET Endpoints : S = lane[w].todo \ {e}
    BY <1>1 DEF LaneRows
  <2>3. PICK G \in SUBSET Endpoints : G = lane[w].got \union {e}
    BY <1>1, <2>1 DEF LaneRows
  <2>4. PICK k, l : /\ k = [lane[w] EXCEPT !.todo = S, !.got = G, !.pc = "savePush"]
                    /\ l = [lane[w] EXCEPT !.todo = S, !.failed = TRUE, !.pc = "savePush"]
    OBVIOUS
  <2>5. lane' = [lane EXCEPT ![w] = k] \/ lane' = [lane EXCEPT ![w] = l]
    BY <2>1, <2>2, <2>3, <2>4
  <2>6. k \in LaneRows /\ k.pc = "savePush" /\ k.at = lane[w].at /\ k.email = lane[w].email /\ k.out = lane[w].out
    BY <1>1, <2>4 DEF LaneRows, Steps, PushSteps
  <2>7. l \in LaneRows /\ l.pc = "savePush" /\ l.at = lane[w].at /\ l.email = lane[w].email /\ l.out = lane[w].out
    BY <1>1, <2>4 DEF LaneRows, Steps, PushSteps
  <2>8. lane[w].pc = "pushing"
    BY <1>4 DEF Push, At
  <2>9. QED
    BY <1>2, <1>4, <2>5, <2>6, <2>7, <2>8, PushQuiet DEF PushSteps, Push
<1>5. QED
  BY <1>3, <1>4

LEMMA DeletionFailsQuiet ==
  ASSUME Inv, NEW w \in Lanes, DeletionFails(w)
  PROVE  Effect(w) /\ Quiet(w)
<1>1. lane[w].at \in Rows /\ Way(w) /\ lane[w].pc \in {"endpoint", "pushing"}
  BY AtRow DEF DeletionFails, Inv
<1>2. MayGo(w, "throw") /\ Wrote(w)
  BY <1>1 DEF MayGo, Way, Wrote, DeletionFails, Steps, EmailSteps, PushSteps, ReportSteps
<1>3. QED
  BY <1>2, GoQuiet DEF DeletionFails

LEMMA RefreshBeforePushQuiet ==
  ASSUME Inv, NEW w \in Lanes, RefreshBeforePush(w)
  PROVE  Effect(w) /\ Quiet(w)
<1>1. /\ lane[w].at \in Rows /\ lane[w] \in LaneRows /\ lane[w].pc = "endpoint"
      /\ row[lane[w].at] \in DeliveryRows /\ RowShape /\ Way(w)
  BY AtRow DEF RefreshBeforePush, At, Inv
<1>2. Wrote(w)
  BY <1>1, RefreshWrote DEF RefreshBeforePush
<1>3. CASE Refresh(w, lane[w].at, "pushing")
  <2>1. MayGo(w, "pushing")
    BY <1>1 DEF MayGo, Way, Steps, EmailSteps, PushSteps, ReportSteps
  <2>2. QED
    BY <1>1, <1>2, <1>3, <2>1, GoQuiet, LeaveQuiet DEF Refresh, RefreshBeforePush
<1>4. CASE \E e \in lane[w].todo :
             lane' = [lane EXCEPT ![w].todo = @ \ {e}, ![w].failed = TRUE, ![w].pc = "savePush"]
  <2>1. PICK e \in lane[w].todo :
             lane' = [lane EXCEPT ![w].todo = @ \ {e}, ![w].failed = TRUE, ![w].pc = "savePush"]
    BY <1>4
  <2>2. PICK S \in SUBSET Endpoints : S = lane[w].todo \ {e}
    BY <1>1 DEF LaneRows
  <2>3. PICK l : l = [lane[w] EXCEPT !.todo = S, !.failed = TRUE, !.pc = "savePush"]
    OBVIOUS
  <2>4. lane' = [lane EXCEPT ![w] = l]
    BY <2>1, <2>2, <2>3
  <2>5. l \in LaneRows /\ l.pc = "savePush" /\ l.at = lane[w].at /\ l.email = lane[w].email /\ l.out = lane[w].out
    BY <1>1, <2>3 DEF LaneRows, Steps, PushSteps
  <2>6. QED
    BY <1>1, <1>2, <2>4, <2>5, PushQuiet DEF PushSteps, RefreshBeforePush
<1>5. QED
  BY <1>3, <1>4 DEF RefreshBeforePush

LEMMA SavePushQuiet ==
  ASSUME Inv, NEW w \in Lanes, SavePush(w)
  PROVE  Effect(w) /\ Quiet(w)
<1> DEFINE d == lane[w].at
           to == [row[d] EXCEPT !.pushed = @ \union lane[w].got]
<1>1. /\ d \in Rows /\ row[d] \in DeliveryRows /\ lane[w] \in LaneRows /\ RowShape /\ Way(w)
      /\ lane[w].pc = "savePush"
  BY AtRow DEF SavePush, At, Inv
<1>2. Holds(w, d) => Writes(w, d, to)
  BY <1>1 DEF Holds, Writes, DeliveryRows, LaneRows
<1>3. Wrote(w)
  <2>1. CASE Holds(w, d)
    BY <1>1, <1>2, <2>1 DEF SavePush, Wrote
  <2>2. CASE ~Holds(w, d)
    BY <2>2 DEF SavePush, Wrote, UpdateFails, updateNetworkingDelivery, NotUpdated
  <2>3. QED
    BY <2>1, <2>2
<1>4. MayGo(w, "endpoint") /\ MayGo(w, "throw")
  BY <1>1 DEF MayGo, Way, Steps, EmailSteps, PushSteps, ReportSteps
<1>5. QED
  BY <1>1, <1>3, <1>4, GoQuiet, LeaveQuiet DEF SavePush

LEMMA ReportQuiet ==
  ASSUME Inv, NEW w \in Lanes, RenderReport(w) \/ UploadReport(w) \/ saveNetworkingPostEventReport(w)
  PROVE  Effect(w) /\ Quiet(w)
<1> DEFINE d == lane[w].at
<1>1. /\ d \in Rows /\ RowShape /\ Way(w) /\ lane[w].pc \in ReportSteps /\ d \in ReportRows /\ d \notin OtpRows
      /\ row[d] \in DeliveryRows
  BY AtRow, ConstantFacts
  DEF RenderReport, UploadReport, saveNetworkingPostEventReport, At, Inv, Way, ReportSteps
<1>2. MayGo(w, "throw")
  BY <1>1 DEF MayGo, Steps, EmailSteps, PushSteps, ReportSteps
<1>3. CASE RenderReport(w)
  <2>1. MayGo(w, "upload")
    BY <1>1, <1>3 DEF MayGo, RenderReport, At, Steps, EmailSteps, PushSteps, ReportSteps
  <2>2. Wrote(w)
    BY <1>1, <1>3, RefreshWrote DEF RenderReport
  <2>3. QED
    BY <1>1, <1>2, <1>3, <2>1, <2>2, GoQuiet, LeaveQuiet DEF RenderReport, Refresh, ReportSteps
<1>4. CASE UploadReport(w)
  <2>1. stored' = stored \union {d} => MayGo(w, "saveReport")
    BY <1>1, <1>4 DEF MayGo, UploadReport, At, Steps, EmailSteps, PushSteps, ReportSteps
  <2>2. Wrote(w) /\ stored \subseteq stored'
    BY <1>4 DEF UploadReport, Wrote
  <2>3. QED
    BY <1>2, <1>4, <2>1, <2>2, GoQuiet DEF UploadReport
<1>5. CASE saveNetworkingPostEventReport(w)
  <2>1. lane[w].pc = "saveReport" /\ d \in stored
    BY <1>1, <1>5 DEF saveNetworkingPostEventReport, At, Way
  <2>2. Wrote(w) /\ audit \subseteq audit'
    <3>1. CASE UNCHANGED <<row, audit>>
      BY <3>1 DEF Wrote
    <3>2. CASE ownsDelivery(w, d) /\ row' = [row EXCEPT ![d] = Unleased(d, "SENT")] /\ audit' = audit \union {d}
      <4>1. Writes(w, d, Unleased(d, "SENT"))
        BY <1>1, <2>1, <3>2, EndWrites
      <4>2. updateNetworkingDelivery(w, d, Unleased(d, "SENT"))
        BY <3>2 DEF ownsDelivery, updateNetworkingDelivery
      <4>3. QED
        BY <1>1, <3>2, <4>1, <4>2 DEF Wrote
    <3>3. QED
      BY <1>5, <3>1, <3>2 DEF saveNetworkingPostEventReport
  <2>3. QED
    BY <1>2, <1>5, <2>1, <2>2, GoQuiet, LeaveQuiet DEF saveNetworkingPostEventReport
<1>6. QED
  BY <1>3, <1>4, <1>5

-----------------------------------------------------------------------------
(* What every step of a lane keeps *)

(* A lane that owns a row after a step and is not between rows owned it    *)
(* before; a deleted row stays deleted.                                    *)
LEMMA Holding ==
  ASSUME Inv, NEW w \in Lanes, Effect(w), NEW v \in Lanes, NEW d \in Rows
  PROVE  /\ Holds(v, d)' /\ lane'[v].pc # "idle" => Holds(v, d)
         /\ row[d].status = "DELETED" => row'[d].status = "DELETED"
<1>1. None # v
  BY ConstantFacts
<1>2. CASE row'[d] = row[d]
  BY <1>2 DEF Holds
<1>3. CASE Written(w, d)
  BY <1>1, <1>3 DEF Holds, Written, Writes
<1>4. CASE Leased(w, d) /\ lane'[w].pc = "idle"
  BY <1>1, <1>4 DEF Holds, Leased
<1>5. QED
  BY <1>2, <1>3, <1>4 DEF Effect, RowEffect

LEMMA RowShapeKept ==
  ASSUME Inv, NEW w \in Lanes, Effect(w)
  PROVE  RowShape'
<1>1. ASSUME NEW d \in Rows
      PROVE  row'[d] \in DeliveryRows
  BY DEF Inv, Shape, RowShape, Effect, RowEffect, Written, Writes, Leased
<1>2. row' = [d \in Rows |-> row'[d]]
  BY DEF Effect, RowEffect
<1>3. QED
  BY <1>1, <1>2 DEF RowShape

LEMMA WaysKept ==
  ASSUME Inv, NEW w \in Lanes, Effect(w)
  PROVE  \A v \in Lanes : Way(v)'
<1>1. SUFFICES ASSUME NEW v \in Lanes \ {w} PROVE Way(v)'
  BY DEF Effect
<1>2. lane'[v] = lane[v] /\ Way(v) /\ stored \subseteq stored'
  BY DEF Effect, Inv
<1>3. lane[v].pc = "settle" => lane[v].at \in Rows
  BY AtRow
<1>4. ASSUME NEW d \in Rows
      PROVE  (row[d].sent => row'[d].sent) /\ (row[d].uncertain => row'[d].uncertain)
  BY DEF Effect, RowEffect, Written, Writes, Leased
<1>5. QED
  BY <1>2, <1>3, <1>4 DEF Way

LEMMA FinishedKept ==
  ASSUME Inv, NEW w \in Lanes, Effect(w), NEW d \in Rows
  PROVE  Finished(d)'
<1>1. stored \subseteq stored' /\ audit \subseteq audit' /\ Finished(d)
  BY DEF Effect, Inv
<1>2. CASE row'[d] = row[d]
  BY <1>1, <1>2 DEF Finished
<1>3. CASE Written(w, d)
  BY <1>1, <1>3 DEF Finished, Written, Writes
<1>4. CASE Leased(w, d)
  BY <1>4 DEF Finished, Leased
<1>5. QED
  BY <1>2, <1>3, <1>4 DEF Effect, RowEffect

(* A step of a lane that says no more than the provider took *)
LEMMA SaysSentKept ==
  ASSUME Inv, NEW w \in Lanes, Effect(w), TakenShape', LaneShape',
         \A d \in Rows : taken'[d] >= taken[d],
         \A d \in Rows : log'[d].status \in PROVIDER_TOOK_IT =>
                           log[d].status \in PROVIDER_TOOK_IT \/ taken[d] > 0,
         lane'[w].email = "sent" \/ lane'[w].out = "accepted" =>
           \/ lane'[w].at \in Rows /\ taken'[lane'[w].at] > 0
           \/ /\ lane[w].email = "sent" \/ lane[w].out = "accepted"
              /\ lane'[w].at = lane[w].at
  PROVE  SaysSent'
<1>1. SaysSent /\ TakenShape
  BY DEF Inv, Shape
<1>2. ASSUME NEW d \in Rows
      PROVE  taken[d] > 0 => taken'[d] > 0
  BY <1>1 DEF TakenShape
<1>3. ASSUME NEW d \in Rows
      PROVE  log'[d].status \in PROVIDER_TOOK_IT \/ row'[d].sent => taken'[d] > 0
  <2>1. row'[d].sent => taken[d] > 0
    BY <1>1 DEF Effect, RowEffect, Written, Writes, Leased, SaysSent
  <2>2. QED
    BY <1>1, <1>2, <2>1 DEF SaysSent
<1>4. ASSUME NEW v \in Lanes, lane'[v].email = "sent" \/ lane'[v].out = "accepted"
      PROVE  lane'[v].at \in Rows /\ taken'[lane'[v].at] > 0
  BY <1>1, <1>2, <1>4 DEF SaysSent, Effect
<1>5. QED
  BY <1>3, <1>4 DEF SaysSent

LEMMA LaneInv ==
  ASSUME Inv, NEW w \in Lanes, Effect(w), LogShape', TakenShape', SentOnce', SaysSent'
  PROVE  Inv'
BY RowShapeKept, WaysKept, FinishedKept DEF Inv, Shape, Effect

-----------------------------------------------------------------------------
(* Once *)

(* A step that changes neither the log nor the lanes near the provider *)
LEMMA QuietOnce ==
  ASSUME NEW d \in Rows, Once(d), log'[d] = log[d], taken'[d] = taken[d],
         row[d].status = "DELETED" => row'[d].status = "DELETED",
         \A v \in Lanes : lane'[v].pc \in {"wait", "call", "outcome"} /\ lane'[v].at = d =>
                            lane'[v] = lane[v] /\ (Holds(v, d)' => Holds(v, d))
  PROVE  Once(d)'
<1>1. Closed(d) => Closed(d)'
  BY DEF Closed
<1>2. row'[d].status # "DELETED" => (Closed(d)' <=> Closed(d))
  BY DEF Closed
<1>3. \A v \in Lanes : Holds(v, d)' => row'[d].status # "DELETED"
  BY DEF Holds
<1>4. \A v \in Lanes : /\ On(v, d, "call")' => On(v, d, "call")
                       /\ On(v, d, "wait")' => On(v, d, "wait") /\ (Holds(v, d)' => Holds(v, d))
                       /\ On(v, d, "outcome")' => /\ On(v, d, "outcome") /\ lane'[v].out = lane[v].out
                                                  /\ Holds(v, d)' => Holds(v, d)
  BY DEF On
<1>5. QED
  BY <1>1, <1>2, <1>3, <1>4 DEF Once, NobodyCalls

(* The owner of a row writes its log: it may stay closed, or nobody needed *)
(* it closed.                                                              *)
LEMMA OwnerOnce ==
  ASSUME NEW d \in Rows, Once(d), NEW w \in Lanes, Holds(w, d), UNCHANGED row, taken'[d] = taken[d],
         \A v \in Lanes \ {w} : lane'[v] = lane[v],
         lane'[w].pc \notin {"call", "outcome"},
         lane'[w].pc = "wait" => ~Closed(d)',
         Closed(d)' \/ ~Closed(d) \/ (taken[d] = 0 /\ NobodyCalls(d)),
         taken[d] \in Nat
  PROVE  Once(d)'
<1>1. \A v \in Lanes : Holds(v, d)' => v = w
  BY DEF Holds
<1>2. \A v \in Lanes : On(v, d, "call")' => On(v, d, "call") /\ v # w
  BY DEF On
<1>3. Closed(d)' \/ (taken[d] = 0 /\ NobodyCalls(d))
  BY DEF Once, NobodyCalls
<1>4. QED
  BY <1>1, <1>2, <1>3 DEF Once, NobodyCalls, On

(* An email that was taken is recorded, whoever owns the row *)
LEMMA RecordOnce ==
  ASSUME NEW d \in Rows, Once(d), NEW w \in Lanes, UNCHANGED row, taken'[d] = taken[d],
         \A v \in Lanes \ {w} : lane'[v] = lane[v],
         lane'[w].pc \notin {"wait", "call", "outcome"}, Closed(d), Closed(d)'
  PROVE  Once(d)'
<1>1. \A v \in Lanes : /\ Holds(v, d)' <=> Holds(v, d)
                       /\ \A pc \in {"wait", "call", "outcome"} :
                            On(v, d, pc)' => On(v, d, pc) /\ lane'[v] = lane[v]
  BY DEF Holds, On
<1>2. QED
  BY <1>1 DEF Once, NobodyCalls

(* The rows that a step of lane w is not about *)
LEMMA OthersOnce ==
  ASSUME Inv, NEW w \in Lanes, Effect(w), NEW d \in Rows, Once(d), log'[d] = log[d], taken'[d] = taken[d],
         lane'[w].pc \in {"wait", "call", "outcome"} => lane'[w] = lane[w] \/ lane'[w].at # d
  PROVE  Once(d)'
<1>1. ASSUME NEW v \in Lanes, lane'[v].pc \in {"wait", "call", "outcome"}, lane'[v].at = d
      PROVE  lane'[v] = lane[v] /\ (Holds(v, d)' => Holds(v, d))
  BY <1>1, Holding DEF Effect
<1>2. row[d].status = "DELETED" => row'[d].status = "DELETED"
  BY Holding
<1>3. QED
  BY <1>1, <1>2, QuietOnce

LEMMA QuietInv ==
  ASSUME Inv, NEW w \in Lanes, Effect(w), Quiet(w)
  PROVE  Inv'
<1>1. LogShape' /\ TakenShape' /\ TakenShape /\ LaneShape'
  BY DEF Inv, Shape, LogShape, TakenShape, Quiet, Effect
<1>2. SentOnce'
  <2>1. ASSUME Provider # "resend", NEW d \in Rows \ blinded
        PROVE  Once(d)'
    BY <2>1, OthersOnce DEF Inv, SentOnce, Quiet
  <2>2. QED
    BY <2>1 DEF SentOnce, Quiet
<1>3. SaysSent'
  <2>1. \A d \in Rows : taken'[d] >= taken[d]
    BY <1>1 DEF Quiet, TakenShape
  <2>2. QED
    BY <1>1, <2>1, SaysSentKept DEF Quiet
<1>4. QED
  BY <1>1, <1>2, <1>3, LaneInv

-----------------------------------------------------------------------------
(* The steps that write the log or call the provider *)

(* The three ways such a step moves its lane *)
LEMMA GoEffect ==
  ASSUME Inv, NEW w \in Lanes, lane[w].pc \in EmailSteps \union {"skip"},
         NEW pc \in {"wait", "call", "unbegun", "throw", "skipRow"} \ {lane[w].pc}, Go(w, pc),
         pc \in EmailSteps => lane[w].pc # "skip",
         Wrote(w), UNCHANGED <<stored, audit>>
  PROVE  /\ Effect(w) /\ lane'[w].pc = pc /\ lane'[w].at = lane[w].at
         /\ lane'[w].email = lane[w].email /\ lane'[w].out = lane[w].out
<1>1. RowShape /\ LaneShape /\ Way(w) /\ lane[w].at \in Rows
  BY AtRow DEF Inv, Shape, EmailSteps
<1>2. /\ LaneShape' /\ \A v \in Lanes \ {w} : lane'[v] = lane[v]
      /\ lane'[w] = [lane[w] EXCEPT !.pc = pc] /\ lane'[w] # lane[w] /\ lane[w] \in LaneRows
  BY <1>1, GoTo DEF Steps, EmailSteps
<1>3. /\ lane'[w].pc = pc /\ lane'[w].at = lane[w].at /\ lane'[w].email = lane[w].email
      /\ lane'[w].out = lane[w].out
  BY <1>2 DEF LaneRows
<1>4. Way(w)'
  BY <1>1, <1>3 DEF Way, EmailSteps, PushSteps, ReportSteps
<1>5. QED
  BY <1>1, <1>2, <1>3, <1>4, WroteEffect DEF Effect

LEMMA LeaveEffect ==
  ASSUME Inv, NEW w \in Lanes, lane[w].pc # "idle", Leave(w), Wrote(w), UNCHANGED <<stored, audit>>
  PROVE  Effect(w) /\ lane'[w].pc = "idle" /\ lane'[w].email = "none" /\ lane'[w].out = "none"
<1>1. RowShape /\ LaneShape
  BY DEF Inv, Shape
<1>2. /\ LaneShape' /\ \A v \in Lanes \ {w} : lane'[v] = lane[v]
      /\ lane'[w] = Idle(lane[w].batch) /\ lane'[w] # lane[w]
  BY <1>1, LeaveTo
<1>3. lane'[w].pc = "idle" /\ lane'[w].email = "none" /\ lane'[w].out = "none"
  BY <1>2 DEF Idle
<1>4. Way(w)'
  BY <1>3 DEF Way, EmailSteps, PushSteps, ReportSteps
<1>5. QED
  BY <1>1, <1>2, <1>3, <1>4, WroteEffect DEF Effect

LEMMA EmailedEffect ==
  ASSUME Inv, NEW w \in Lanes, lane[w].pc \in EmailSteps, NEW email \in Emails \ {"none"}, Emailed(w, email),
         UNCHANGED <<row, stored, audit>>
  PROVE  /\ Effect(w) /\ lane'[w].pc \in {"save", "push", "settle"} /\ lane'[w].at = lane[w].at
         /\ lane'[w].email = email /\ lane'[w].out = "none"
<1>1. RowShape /\ LaneShape /\ Way(w) /\ lane[w].at \in Rows
  BY AtRow DEF Inv, Shape, EmailSteps
<1>2. /\ LaneShape' /\ \A v \in Lanes \ {w} : lane'[v] = lane[v]
      /\ lane'[w].email = email /\ lane'[w].out = "none" /\ lane'[w].at = lane[w].at
      /\ lane'[w].failed \/ email # "failed"
      /\ lane'[w].pc = IF email \in {"sent", "uncertain"} THEN "save" ELSE AfterEmail(lane[w].at)
  BY <1>1, EmailedTo
<1>3. Way(w)'
  BY <1>1, <1>2 DEF Way, AfterEmail, Pushable, Emails, EmailSteps, PushSteps, ReportSteps
<1>4. QED
  BY <1>1, <1>2, <1>3, NoWrite DEF Effect, AfterEmail

(* The owner of the row or nobody writes its log *)
LEMMA FinishedLog ==
  ASSUME Inv, NEW w \in Lanes, lane[w].at \in Rows, NEW l \in LogRows, FinishLog(w, l) \/ UNCHANGED log
  PROVE  /\ LogShape'
         /\ \A d \in Rows \ {lane[w].at} : log'[d] = log[d]
         /\ \/ log' = log
            \/ log'[lane[w].at] = l /\ Holds(w, lane[w].at)
<1>1. LogShape
  BY DEF Inv, Shape
<1>2. QED
  BY <1>1 DEF FinishLog, SetLog, LogShape, ownsDelivery

(* A step that writes the log as its owner, and not for the better *)
LEMMA OwnerInv ==
  ASSUME Inv, NEW w \in Lanes, NEW d \in Rows, lane[w].at = d,
         Effect(w), UNCHANGED <<row, taken>>, LogShape',
         \A x \in Rows \ {d} : log'[x] = log[x],
         log' = log \/ Holds(w, d),
         lane'[w].pc \notin {"call", "outcome"}, lane'[w].pc \in {"wait"} => lane'[w].at = d,
         lane'[w].pc = "wait" => Holds(w, d) /\ (Provider # "resend" => ~Closed(d)'),
         blinded \subseteq blinded',
         Provider # "resend" /\ d \notin blinded' /\ log' # log =>
           Closed(d)' \/ ~Closed(d) \/ (taken[d] = 0 /\ NobodyCalls(d)),
         log'[d].status \in PROVIDER_TOOK_IT => log[d].status \in PROVIDER_TOOK_IT,
         lane'[w].email = "sent" \/ lane'[w].out = "accepted" =>
           \/ lane'[w].at \in Rows /\ taken[lane'[w].at] > 0
           \/ lane[w].email = "sent" /\ lane'[w].at = lane[w].at
  PROVE  Inv'
<1>1. TakenShape /\ TakenShape' /\ LaneShape'
  BY DEF Inv, Shape, TakenShape, Effect
<1>2. SentOnce'
  <2>1. SUFFICES ASSUME Provider # "resend", NEW x \in Rows \ blinded' PROVE Once(x)'
    BY DEF SentOnce
  <2>2. Once(x)
    BY <2>1 DEF Inv, SentOnce
  <2>3. CASE x # d
    BY <2>2, <2>3, OthersOnce
  <2>4. CASE x = d /\ (log' # log \/ lane'[w].pc = "wait")
    <3>1. Holds(w, d) /\ taken[d] \in Nat
      BY <1>1, <2>4 DEF TakenShape
    <3>2. Closed(d)' \/ ~Closed(d) \/ (taken[d] = 0 /\ NobodyCalls(d))
      BY <2>1, <2>4 DEF Closed
    <3>3. QED
      BY <2>1, <2>2, <2>4, <3>1, <3>2, OwnerOnce DEF Effect
  <2>5. CASE x = d /\ log' = log /\ lane'[w].pc # "wait"
    BY <2>2, <2>5, OthersOnce
  <2>6. QED
    BY <2>3, <2>4, <2>5
<1>3. SaysSent'
  <2>1. \A x \in Rows : taken'[x] >= taken[x]
    BY <1>1 DEF TakenShape
  <2>2. \A x \in Rows : log'[x].status \in PROVIDER_TOOK_IT => log[x].status \in PROVIDER_TOOK_IT
    OBVIOUS
  <2>3. QED
    BY <1>1, <2>1, <2>2, SaysSentKept
<1>4. QED
  BY <1>1, <1>2, <1>3, LaneInv

LEMMA BeginInv ==
  ASSUME Inv, NEW w \in Lanes, beginNetworkingEmailLog(w)
  PROVE  Inv'
<1>0. PICK d \in Rows : d = lane[w].at
  BY AtRow DEF beginNetworkingEmailLog, At
<1> DEFINE l == BeginLog(d).log
<1>1. lane[w].at = d /\ lane[w].pc = "begin" /\ Wrote(w) /\ LogShape
  BY <1>0 DEF beginNetworkingEmailLog, At, Wrote, Inv, Shape
<1>2. l \in LogRows /\ BeginLog(d).email \in {"none", "sent", "uncertain"}
  BY <1>1, WrittenLogs
<1>3. CASE ~ownsDelivery(w, d) /\ Leave(w) /\ UNCHANGED log
  <2>1. Effect(w) /\ lane'[w].pc = "idle" /\ lane'[w].email = "none" /\ lane'[w].out = "none"
    BY <1>1, <1>3, LeaveEffect DEF beginNetworkingEmailLog
  <2>2. QED
    BY <1>3, <2>1, QuietInv DEF Quiet, beginNetworkingEmailLog
<1>4. ASSUME UNCHANGED log, Go(w, "unbegun")
      PROVE  Inv'
  <2>1. Effect(w) /\ lane'[w].pc = "unbegun" /\ lane'[w].at = d /\ lane'[w].email = lane[w].email /\ lane'[w].out = lane[w].out
    BY <1>1, <1>4, GoEffect DEF beginNetworkingEmailLog, EmailSteps
  <2>2. QED
    BY <1>1, <1>4, <2>1, QuietInv DEF Quiet, beginNetworkingEmailLog
<1>5. ASSUME ownsDelivery(w, d), SetLog(d, l)
      PROVE  /\ Holds(w, d) /\ row[d].status # "DELETED" /\ LogShape'
             /\ log'[d] = l /\ \A x \in Rows \ {d} : log'[x] = log[x]
             /\ Provider # "resend" => (BeginLog(d).email # "none" => Closed(d)')
                                       /\ (BeginLog(d).email = "none" => ~Closed(d) /\ ~Closed(d)')
             /\ l.status \in PROVIDER_TOOK_IT => log[d].status \in PROVIDER_TOOK_IT
             /\ BeginLog(d).email = "sent" => taken[d] > 0
  <2>1. Holds(w, d) /\ row[d].status # "DELETED" /\ row' = row
    BY <1>5 DEF ownsDelivery, Holds, beginNetworkingEmailLog
  <2>2. LogShape' /\ log'[d] = l /\ \A x \in Rows \ {d} : log'[x] = log[x]
    BY <1>1, <1>2, <1>5 DEF LogShape, SetLog
  <2>3. log[d] \in LogRows
    BY <1>1 DEF LogShape
  <2>4. Provider # "resend" => /\ BeginLog(d).email # "none" => Closed(d)'
                               /\ BeginLog(d).email = "none" => ~Closed(d) /\ ~Closed(d)'
    BY <2>1, <2>2, <2>3 DEF Closed, BeginLog, LogRows, PROVIDER_TOOK_IT
  <2>5. /\ l.status \in PROVIDER_TOOK_IT => log[d].status \in PROVIDER_TOOK_IT
        /\ BeginLog(d).email = "sent" => log[d].status \in PROVIDER_TOOK_IT
    BY <2>3 DEF BeginLog, LogRows, PROVIDER_TOOK_IT
  <2>6. QED
    BY <1>1, <2>1, <2>2, <2>4, <2>5 DEF Inv, SaysSent
<1>6. ASSUME ownsDelivery(w, d), BeginLog(d).email # "none", SetLog(d, l), Emailed(w, BeginLog(d).email)
      PROVE  Inv'
  <2>1. /\ Effect(w) /\ lane'[w].pc \in {"save", "push", "settle"} /\ lane'[w].at = d
        /\ lane'[w].email = BeginLog(d).email /\ lane'[w].out = "none"
    BY <1>1, <1>2, <1>6, EmailedEffect DEF beginNetworkingEmailLog, Emails, EmailSteps
  <2>2. QED
    BY <1>1, <1>5, <1>6, <2>1, OwnerInv DEF beginNetworkingEmailLog
<1>7. ASSUME ownsDelivery(w, d), BeginLog(d).email = "none", SetLog(d, l), Go(w, "wait")
      PROVE  Inv'
  <2>1. Effect(w) /\ lane'[w].pc = "wait" /\ lane'[w].at = d /\ lane'[w].email = lane[w].email /\ lane'[w].out = lane[w].out
    BY <1>1, <1>7, GoEffect DEF beginNetworkingEmailLog, EmailSteps
  <2>2. lane[w].out = "accepted" => taken[d] > 0
    BY <1>1 DEF Inv, SaysSent
  <2>3. QED
    BY <1>1, <1>5, <1>7, <2>1, <2>2, OwnerInv DEF beginNetworkingEmailLog
<1>8. ASSUME ownsDelivery(w, d), SetLog(d, l), Go(w, "unbegun")
      PROVE  Inv'
  <2>1. Effect(w) /\ lane'[w].pc = "unbegun" /\ lane'[w].at = d /\ lane'[w].email = lane[w].email /\ lane'[w].out = lane[w].out
    BY <1>1, <1>8, GoEffect DEF beginNetworkingEmailLog, EmailSteps
  <2>2. lane[w].out = "accepted" => taken[d] > 0
    BY <1>1 DEF Inv, SaysSent
  <2>3. QED
    BY <1>1, <1>5, <1>8, <2>1, <2>2, OwnerInv DEF beginNetworkingEmailLog
<1>9. QED
  BY <1>1, <1>3, <1>4, <1>6, <1>7, <1>8 DEF beginNetworkingEmailLog

(* A lane that owns its row and waits for its turn knows the log is open;  *)
(* one that was turned away knows that nothing was sent.                   *)
LEMMA WaitingOpen ==
  ASSUME Inv, Provider # "resend", NEW w \in Lanes, NEW d \in Rows \ blinded, lane[w].at = d, Holds(w, d)
  PROVE  /\ lane[w].pc = "wait" => ~Closed(d) /\ taken[d] = 0 /\ NobodyCalls(d)
         /\ lane[w].pc = "outcome" /\ lane[w].out \in {"rejected", "limited"} =>
              taken[d] = 0 /\ NobodyCalls(d)
<1>1. Once(d) /\ taken[d] \in Nat
  BY DEF Inv, SentOnce, Shape, TakenShape
<1>2. QED
  BY <1>1 DEF Once, On, NobodyCalls

(* The ends of an attempt that write the log as its owner or not at all *)
LEMMA FinishInv ==
  ASSUME Inv, NEW w \in Lanes, NEW d \in Rows, lane[w].at = d, NEW l \in LogRows, FinishLog(w, l) \/ UNCHANGED log,
         Effect(w), UNCHANGED <<row, taken>>, lane'[w].pc \notin {"wait", "call", "outcome"},
         blinded \subseteq blinded',
         Provider # "resend" /\ d \notin blinded' /\ Holds(w, d) /\ log' # log /\ log'[d] = l =>
           Closed(d)' \/ ~Closed(d) \/ (taken[d] = 0 /\ NobodyCalls(d)),
         l.status \in PROVIDER_TOOK_IT => log[d].status \in PROVIDER_TOOK_IT,
         lane'[w].out # "accepted" \/ lane'[w].out = lane[w].out,
         lane'[w].email # "sent" \/ lane'[w].email = lane[w].email,
         lane'[w].at = d \/ (lane'[w].pc = "idle" /\ lane'[w].email = "none" /\ lane'[w].out = "none")
  PROVE  Inv'
<1>1. /\ LogShape' /\ \A x \in Rows \ {d} : log'[x] = log[x]
      /\ log' = log \/ (log'[d] = l /\ Holds(w, d))
  BY FinishedLog
<1>2. lane[w].email = "sent" \/ lane[w].out = "accepted" => taken[d] > 0
  BY DEF Inv, SaysSent
<1>3. QED
  BY <1>1, <1>2, OwnerInv

LEMMA FailedLogFacts ==
  ASSUME LogShape, NEW d \in Rows, NEW b \in BOOLEAN
  PROVE  /\ FailedLog(d, b) \in LogRows
         /\ FailedLog(d, b).status \in PROVIDER_TOOK_IT => log[d].status \in PROVIDER_TOOK_IT
         /\ FailedLog(d, b) # log[d] => ~FailedLog(d, b).marker
BY WrittenLogs DEF FailedLog, PROVIDER_TOOK_IT

LEMMA UnbegunInv ==
  ASSUME Inv, NEW w \in Lanes, Unbegun(w)
  PROVE  Inv'
<1>0. PICK d \in Rows : d = lane[w].at
  BY AtRow DEF Unbegun, At
<1> DEFINE l == FailedLog(d, TRUE)
<1>1. lane[w].at = d /\ lane[w].pc = "unbegun" /\ Wrote(w) /\ LogShape /\ log[d] \in LogRows
  BY <1>0 DEF Unbegun, At, Wrote, Inv, Shape, LogShape
<1>2. l \in LogRows /\ (l.status \in PROVIDER_TOOK_IT => log[d].status \in PROVIDER_TOOK_IT)
  BY <1>1, FailedLogFacts
<1>3. FinishLog(w, l) \/ UNCHANGED log
  BY <1>1 DEF Unbegun, FinishFails
<1>4. /\ Effect(w) /\ lane'[w].pc \notin {"wait", "call", "outcome"}
      /\ lane'[w].out # "accepted" \/ lane'[w].out = lane[w].out
      /\ lane'[w].email # "sent" \/ lane'[w].email = lane[w].email
      /\ lane'[w].at = d
  <2>1. CASE Emailed(w, "failed")
    BY <1>1, <2>1, EmailedEffect DEF Unbegun, Emails, EmailSteps
  <2>2. CASE Go(w, "throw")
    BY <1>1, <2>2, GoEffect DEF Unbegun, EmailSteps
  <2>3. QED
    BY <2>1, <2>2 DEF Unbegun
<1>5. ASSUME d \notin blinded', Holds(w, d), log'[d] = l
      PROVE  Closed(d)' \/ ~Closed(d)
  <2>1. CASE l = log[d]
    BY <1>5, <2>1 DEF Closed, Unbegun
  <2>2. CASE l # log[d]
    <3>1. ~l.marker
      BY <1>1, <2>2, FailedLogFacts
    <3>2. ~log[d].marker
      BY <1>1, <1>5, <3>1 DEF Unbegun
    <3>3. log[d].status \in {"SENDING", "FAILED"}
      BY <2>2 DEF FailedLog
    <3>4. QED
      BY <3>2, <3>3 DEF Closed, PROVIDER_TOOK_IT
  <2>3. QED
    BY <2>1, <2>2
<1>6. blinded \subseteq blinded'
  BY DEF Unbegun
<1>7. QED
  BY <1>1, <1>2, <1>3, <1>4, <1>5, <1>6, FinishInv DEF Unbegun

LEMMA InterruptedInv ==
  ASSUME Inv, NEW w \in Lanes, Interrupted(w)
  PROVE  Inv'
<1>0. PICK d \in Rows : d = lane[w].at
  BY AtRow DEF Interrupted, At
<1> DEFINE l == FailedLog(d, FALSE)
<1>1. lane[w].at = d /\ lane[w].pc = "wait" /\ Wrote(w) /\ LogShape
  BY <1>0 DEF Interrupted, At, Wrote, Inv, Shape
<1>2. l \in LogRows /\ (l.status \in PROVIDER_TOOK_IT => log[d].status \in PROVIDER_TOOK_IT)
  BY <1>1, FailedLogFacts
<1>3. FinishLog(w, l) \/ UNCHANGED log
  BY <1>1 DEF Interrupted, FinishFails
<1>4. /\ Effect(w) /\ lane'[w].pc \notin {"wait", "call", "outcome"}
      /\ lane'[w].out # "accepted" \/ lane'[w].out = lane[w].out
      /\ lane'[w].email # "sent" \/ lane'[w].email = lane[w].email
      /\ lane'[w].at = d
  <2>1. CASE Emailed(w, "deferred")
    BY <1>1, <2>1, EmailedEffect DEF Interrupted, Emails, EmailSteps
  <2>2. CASE Go(w, "throw")
    BY <1>1, <2>2, GoEffect DEF Interrupted, EmailSteps
  <2>3. QED
    BY <2>1, <2>2 DEF Interrupted
<1>5. Provider # "resend" /\ d \notin blinded' /\ Holds(w, d) => ~Closed(d)
  BY <1>1, WaitingOpen DEF Interrupted
<1>6. QED
  BY <1>1, <1>2, <1>3, <1>4, <1>5, FinishInv DEF Interrupted

LEMMA RecordOutcomeInv ==
  ASSUME Inv, NEW w \in Lanes, RecordOutcome(w)
  PROVE  Inv'
<1>0. PICK d \in Rows : d = lane[w].at
  BY AtRow DEF RecordOutcome, At
<1> DEFINE out == lane[w].out
           ends == IF out = "limited" THEN [email |-> "deferred", log |-> FailedLog(d, FALSE)]
                   ELSE IF out = "rejected" \/ Retryable(d)
                   THEN [email |-> "failed", log |-> FailedLog(d, TRUE)]
                   ELSE [email |-> "uncertain", log |-> UncertainLog(d)]
<1>1. lane[w].at = d /\ lane[w].pc = "outcome" /\ Wrote(w) /\ LogShape /\ log[d] \in LogRows
  BY <1>0 DEF RecordOutcome, At, Wrote, Inv, Shape, LogShape
<1>2. /\ ends.log \in LogRows
      /\ ends.log.status \in PROVIDER_TOOK_IT => log[d].status \in PROVIDER_TOOK_IT
  <2>1. UncertainLog(d) \in LogRows /\ (UncertainLog(d).status \in PROVIDER_TOOK_IT => log[d].status \in PROVIDER_TOOK_IT)
    BY <1>1, WrittenLogs DEF UncertainLog, PROVIDER_TOOK_IT, LogRows
  <2>2. QED
    BY <1>1, <2>1, FailedLogFacts
<1>3. ends.email \in {"deferred", "failed", "uncertain"}
  OBVIOUS
<1>4. /\ FinishLog(w, ends.log) \/ UNCHANGED log
      /\ Emailed(w, ends.email) \/ Leave(w)
  BY <1>1 DEF RecordOutcome, FinishFails
<1>5. /\ Effect(w) /\ lane'[w].pc \notin {"wait", "call", "outcome"}
      /\ lane'[w].out # "accepted" \/ lane'[w].out = lane[w].out
      /\ lane'[w].email # "sent" \/ lane'[w].email = lane[w].email
      /\ lane'[w].at = d \/ (lane'[w].pc = "idle" /\ lane'[w].email = "none" /\ lane'[w].out = "none")
  <2>1. CASE Emailed(w, ends.email)
    <3>1. /\ Effect(w) /\ lane'[w].pc \in {"save", "push", "settle"} /\ lane'[w].at = lane[w].at
          /\ lane'[w].email = ends.email /\ lane'[w].out = "none"
      BY <1>1, <1>3, <2>1, EmailedEffect DEF RecordOutcome, Emails, EmailSteps
    <3>2. QED
      BY <1>1, <1>3, <3>1
  <2>2. CASE Leave(w)
    BY <1>1, <2>2, LeaveEffect DEF RecordOutcome
  <2>3. QED
    BY <1>4, <2>1, <2>2
<1>6. ASSUME Provider # "resend", d \notin blinded', Holds(w, d), log'[d] = ends.log
      PROVE  Closed(d)' \/ ~Closed(d) \/ (taken[d] = 0 /\ NobodyCalls(d))
  <2>1. CASE out \in {"rejected", "limited"}
    BY <1>1, <1>6, <2>1, WaitingOpen DEF RecordOutcome
  <2>2. CASE out \notin {"rejected", "limited"}
    <3>1. log'[d] = UncertainLog(d) /\ row'[d].status = row[d].status
      BY <1>6, <2>2 DEF Retryable, RecordOutcome
    <3>2. QED
      BY <1>1, <3>1 DEF Closed, UncertainLog, LogRows
  <2>3. QED
    BY <2>1, <2>2
<1>7. QED
  <2> HIDE DEF ends
  <2> QED
    BY <1>1, <1>2, <1>4, <1>5, <1>6, FinishInv DEF RecordOutcome

LEMMA SkipLogInv ==
  ASSUME Inv, NEW w \in Lanes, SkipLog(w)
  PROVE  Inv'
<1>0. PICK d \in Rows : d = lane[w].at
  BY AtRow DEF SkipLog, At
<1> DEFINE l == SkippedLog(d)
<1>1. lane[w].at = d /\ lane[w].pc = "skip" /\ Wrote(w) /\ LogShape /\ log[d] \in LogRows
  BY <1>0 DEF SkipLog, At, Wrote, Inv, Shape, LogShape
<1>2. l \in LogRows /\ (l.status \in PROVIDER_TOOK_IT => log[d].status \in PROVIDER_TOOK_IT)
  BY <1>1, WrittenLogs DEF SkippedLog, UncertainLog, PROVIDER_TOOK_IT, LogRows
<1>3. FinishLog(w, l) \/ UNCHANGED log
  BY <1>1 DEF SkipLog, FinishFails
<1>4. /\ Effect(w) /\ lane'[w].pc \notin {"wait", "call", "outcome"}
      /\ lane'[w].out # "accepted" \/ lane'[w].out = lane[w].out
      /\ lane'[w].email # "sent" \/ lane'[w].email = lane[w].email
      /\ lane'[w].at = d
  <2>1. CASE Go(w, "skipRow")
    BY <1>1, <2>1, GoEffect DEF SkipLog, EmailSteps
  <2>2. CASE Go(w, "throw")
    BY <1>1, <2>2, GoEffect DEF SkipLog, EmailSteps
  <2>3. QED
    BY <2>1, <2>2 DEF SkipLog
<1>5. log'[d] = l => Closed(d)' \/ ~Closed(d)
  BY <1>1 DEF Closed, SkippedLog, UncertainLog, LogRows, PROVIDER_TOOK_IT, SkipLog
<1>6. QED
  BY <1>1, <1>2, <1>3, <1>4, <1>5, FinishInv DEF SkipLog

LEMMA MarkWrote ==
  ASSUME Inv, NEW w \in Lanes, markNetworkingEmailAttempt(w)
  PROVE  Wrote(w)
<1>0. PICK d \in Rows : d = lane[w].at
  BY AtRow DEF markNetworkingEmailAttempt, At
<1>1. RowShape
  BY DEF Inv, Shape
<1>2. CASE UNCHANGED row
  BY <1>2 DEF Wrote
<1>3. CASE ownsDelivery(w, d) /\ row' = [row EXCEPT ![d].holder = None]
  <2>1. Writes(w, d, [row[d] EXCEPT !.holder = None])
    BY <1>1, <1>3, RefreshWrites DEF ownsDelivery
  <2>2. updateNetworkingDelivery(w, d, [row[d] EXCEPT !.holder = None])
    BY <1>1, <1>3 DEF ownsDelivery, updateNetworkingDelivery
  <2>3. QED
    BY <2>1, <2>2 DEF Wrote
<1>4. QED
  BY <1>0, <1>2, <1>3 DEF markNetworkingEmailAttempt

LEMMA MarkEffect ==
  ASSUME Inv, NEW w \in Lanes, markNetworkingEmailAttempt(w)
  PROVE  Effect(w)
<1>1. lane[w].pc = "wait"
  BY DEF markNetworkingEmailAttempt, At
<1>2. QED
  BY <1>1, MarkWrote, GoEffect, LeaveEffect DEF markNetworkingEmailAttempt, EmailSteps

(* The marker: the log closes before anybody calls *)
LEMMA MarkInv ==
  ASSUME Inv, NEW w \in Lanes, markNetworkingEmailAttempt(w)
  PROVE  Inv'
<1>0. PICK d \in Rows : d = lane[w].at
  BY AtRow DEF markNetworkingEmailAttempt, At
<1> DEFINE marked == [log[d] EXCEPT !.marker = TRUE]
<1>1. lane[w].at = d /\ lane[w].pc = "wait" /\ LogShape /\ log[d] \in LogRows /\ RowShape /\ TakenShape
  BY <1>0 DEF markNetworkingEmailAttempt, At, Inv, Shape, LogShape
<1>2. marked \in LogRows /\ marked.status = log[d].status /\ marked.marker
  BY <1>1 DEF LogRows
<1>3. Wrote(w)
  BY MarkWrote
<1>4. CASE Leave(w) /\ UNCHANGED log
  <2>1. Effect(w) /\ lane'[w].pc = "idle" /\ lane'[w].email = "none" /\ lane'[w].out = "none"
    BY <1>1, <1>3, <1>4, LeaveEffect DEF markNetworkingEmailAttempt
  <2>2. QED
    BY <1>4, <2>1, QuietInv DEF Quiet, markNetworkingEmailAttempt
<1>5. ASSUME NEW pc \in {"call", "throw"}, Go(w, pc)
      PROVE  /\ Effect(w) /\ lane'[w].pc = pc /\ lane'[w].at = d
             /\ lane'[w].email = lane[w].email /\ lane'[w].out = lane[w].out
  BY <1>1, <1>3, <1>5, GoEffect DEF markNetworkingEmailAttempt, EmailSteps
<1>6. CASE Go(w, "throw") /\ UNCHANGED log
  BY <1>1, <1>5, <1>6, QuietInv DEF Quiet, markNetworkingEmailAttempt
<1>7. ASSUME NEW pc \in {"call", "throw"}, Go(w, pc), ownsDelivery(w, d), log[d].status = "SENDING",
             SetLog(d, marked), pc = "call" => UNCHANGED row,
             pc = "throw" => row' = [row EXCEPT ![d].holder = None]
      PROVE  Inv'
  <2>1. /\ Effect(w) /\ lane'[w].pc = pc /\ lane'[w].at = d
        /\ lane'[w].email = lane[w].email /\ lane'[w].out = lane[w].out
    BY <1>5, <1>7
  <2>2. LogShape' /\ log'[d] = marked /\ \A x \in Rows \ {d} : log'[x] = log[x]
    BY <1>1, <1>2, <1>7 DEF LogShape, SetLog
  <2>3. taken' = taken /\ blinded' = blinded
    BY DEF markNetworkingEmailAttempt
  <2>4. SentOnce'
    <3>1. SUFFICES ASSUME Provider # "resend", NEW x \in Rows \ blinded PROVE Once(x)'
      BY <2>3 DEF SentOnce
    <3>2. Once(x)
      BY <3>1 DEF Inv, SentOnce
    <3>3. CASE x # d
      BY <2>1, <2>2, <2>3, <3>2, <3>3, OthersOnce
    <3>4. CASE x = d
      <4>1. Holds(w, d)
        BY <1>7 DEF ownsDelivery
      <4>2. taken[d] = 0 /\ NobodyCalls(d)
        BY <1>1, <3>1, <3>4, <4>1, WaitingOpen
      <4>3. Closed(d)'
        BY <1>2, <1>7, <2>2 DEF Closed
      <4>4. ASSUME NEW v \in Lanes, Holds(v, d)'
            PROVE  v = w /\ pc = "call"
        <5>1. CASE pc = "call"
          BY <1>7, <4>1, <4>4, <5>1 DEF Holds
        <5>2. CASE pc = "throw"
          BY <1>1, <1>7, <4>4, <5>2, ConstantFacts DEF Holds, RowShape, DeliveryRows
        <5>3. QED
          BY <5>1, <5>2
      <4>5. \A v \in Lanes : On(v, d, "call")' => v = w
        BY <2>1, <4>2 DEF On, NobodyCalls, Effect
      <4>6. Once(d)'
        BY <2>1, <2>3, <4>2, <4>3, <4>4, <4>5 DEF Once, NobodyCalls, On
      <4>7. QED
        BY <3>4, <4>6
    <3>5. QED
      BY <3>3, <3>4
  <2>5. SaysSent'
    <3>1. \A x \in Rows : taken'[x] >= taken[x]
      BY <1>1, <2>3 DEF TakenShape
    <3>2. \A x \in Rows : log'[x].status = log[x].status
      BY <1>2, <2>2
    <3>3. TakenShape' /\ LaneShape'
      BY <1>1, <2>1, <2>3 DEF TakenShape, Effect
    <3>4. QED
      BY <1>1, <2>1, <3>1, <3>2, <3>3, SaysSentKept
  <2>6. TakenShape'
    BY <1>1, <2>3 DEF TakenShape
  <2>7. QED
    BY <2>1, <2>2, <2>4, <2>5, <2>6, LaneInv
<1>8. QED
  BY <1>1, <1>4, <1>6, <1>7 DEF markNetworkingEmailAttempt

(* The call: whoever is there is alone and the first *)
LEMMA CallInv ==
  ASSUME Inv, NEW w \in Lanes, callProvider(w)
  PROVE  Inv'
<1>0. PICK d \in Rows : d = lane[w].at
  BY AtRow DEF callProvider, At
<1>1. /\ lane[w].at = d /\ lane[w].pc = "call" /\ RowShape /\ TakenShape /\ LaneShape /\ Way(w)
      /\ lane[w] \in LaneRows /\ taken[d] \in Nat
  BY <1>0 DEF callProvider, At, Inv, Shape, LaneShape, TakenShape
<1>2. PICK out \in {"accepted", "rejected", "limited", "ambiguous"}, n \in {taken[d], Taken(d)} :
        /\ lane' = [lane EXCEPT ![w] = [@ EXCEPT !.pc = "outcome", !.out = out]]
        /\ taken' = [taken EXCEPT ![d] = n]
        /\ out = "accepted" => n = Taken(d)
        /\ out \in {"rejected", "limited"} => n = taken[d]
  BY <1>1 DEF callProvider
<1>3. PICK l : l = [lane[w] EXCEPT !.pc = "outcome", !.out = out]
  OBVIOUS
<1>4. /\ l \in LaneRows /\ l.pc = "outcome" /\ l.at = d /\ l.out = out /\ l.email = lane[w].email
  BY <1>1, <1>3 DEF LaneRows, Steps, EmailSteps, Outs
<1>5. lane'[w] = l /\ \A v \in Lanes \ {w} : lane'[v] = lane[v]
  BY <1>1, <1>2, <1>3 DEF LaneShape
<1>6. LaneShape'
  BY <1>1, <1>2, <1>3, <1>4, <1>5 DEF LaneShape
<1>7. Taken(d) \in Nat /\ Taken(d) > 0 /\ Taken(d) >= taken[d] /\ (Provider # "resend" => Taken(d) = taken[d] + 1)
  BY <1>1 DEF Taken
<1>8. /\ TakenShape' /\ taken'[d] = n /\ \A x \in Rows \ {d} : taken'[x] = taken[x]
      /\ \A x \in Rows : taken'[x] >= taken[x]
  BY <1>1, <1>2, <1>7 DEF TakenShape
<1>9. UNCHANGED <<row, log, stored, audit, blinded>>
  BY DEF callProvider
<1>10. Effect(w)
  <2>1. Way(w)'
    BY <1>1, <1>4, <1>5 DEF Way, EmailSteps, PushSteps, ReportSteps
  <2>2. QED
    BY <1>1, <1>5, <1>6, <1>9, <2>1, NoWrite DEF Effect
<1>11. SentOnce'
  <2>1. SUFFICES ASSUME Provider # "resend", NEW x \in Rows \ blinded PROVE Once(x)'
    BY <1>9 DEF SentOnce
  <2>2. Once(x)
    BY <2>1 DEF Inv, SentOnce
  <2>3. CASE x # d
    BY <1>4, <1>5, <1>8, <1>9, <1>10, <2>2, <2>3, OthersOnce
  <2>4. CASE x = d
    <3>1. On(w, d, "call")
      BY <1>1 DEF On
    <3>2. taken[d] = 0 /\ Closed(d) /\ \A v \in Lanes : On(v, d, "call") => v = w
      BY <1>1, <2>2, <2>4, <3>1 DEF Once, NobodyCalls
    <3>3. Closed(d)'
      BY <1>9, <3>2 DEF Closed
    <3>4. \A v \in Lanes : ~On(v, d, "call")'
      BY <1>4, <1>5, <3>2 DEF On
    <3>5. taken'[d] <= 1 /\ (out \in {"rejected", "limited"} => taken'[d] = 0)
      BY <1>2, <1>7, <1>8, <2>1, <3>2
    <3>6. ASSUME NEW v \in Lanes, Holds(v, d)'
          PROVE  /\ ~On(v, d, "wait")'
                 /\ On(v, d, "outcome")' /\ lane'[v].out \in {"rejected", "limited"} => taken'[d] = 0
      <4>1. Holds(v, d)
        BY <1>9, <3>6 DEF Holds
      <4>2. CASE v = w
        BY <1>4, <1>5, <3>5, <4>2 DEF On
      <4>3. CASE v # w
        <5>1. lane'[v] = lane[v]
          BY <1>5, <4>3
        <5>2. ~On(v, d, "wait") /\ ~(On(v, d, "outcome") /\ lane[v].out \in {"rejected", "limited"})
          BY <2>2, <2>4, <3>1, <3>2, <4>1 DEF Once, NobodyCalls
        <5>3. QED
          BY <5>1, <5>2 DEF On
      <4>4. QED
        BY <4>2, <4>3
    <3>7. Once(d)'
      BY <3>3, <3>4, <3>5, <3>6 DEF Once, NobodyCalls
    <3>8. QED
      BY <2>4, <3>7
  <2>5. QED
    BY <2>3, <2>4
<1>12. SaysSent'
  <2>1. lane'[w].out = "accepted" => taken'[d] > 0
    BY <1>2, <1>4, <1>5, <1>7, <1>8
  <2>2. lane'[w].email = "sent" => lane[w].email = "sent"
    BY <1>4, <1>5
  <2>3. QED
    BY <1>1, <1>4, <1>5, <1>6, <1>8, <1>9, <1>10, <2>1, <2>2, SaysSentKept
<1>13. LogShape'
  BY <1>9 DEF Inv, Shape, LogShape
<1>14. QED
  BY <1>8, <1>10, <1>11, <1>12, <1>13, LaneInv

LEMMA RecordSentInv ==
  ASSUME Inv, NEW w \in Lanes, RecordSent(w)
  PROVE  Inv'
<1>0. PICK d \in Rows : d = lane[w].at
  BY AtRow DEF RecordSent, At
<1>1. /\ lane[w].at = d /\ lane[w].pc = "outcome" /\ lane[w].out = "accepted"
      /\ LogShape /\ log[d] \in LogRows /\ TakenShape /\ taken[d] > 0
  BY <1>0 DEF RecordSent, At, Inv, Shape, LogShape, SaysSent
<1>2. /\ Effect(w) /\ lane'[w].pc \in {"save", "push", "settle"} /\ lane'[w].at = d
      /\ lane'[w].email = "sent" /\ lane'[w].out = "none"
  BY <1>1, EmailedEffect DEF RecordSent, Emails, EmailSteps
<1>3. SentLog(d) \in LogRows
  BY <1>1, WrittenLogs
<1>4. /\ LogShape' /\ \A x \in Rows \ {d} : log'[x] = log[x]
      /\ log'[d] = log[d] \/ log'[d] = SentLog(d)
  BY <1>1, <1>3 DEF RecordSent, SetLog, LogShape
<1>5. UNCHANGED <<row, taken, blinded>>
  BY DEF RecordSent
<1>6. Closed(d) => Closed(d)'
  BY <1>1, <1>4, <1>5 DEF Closed, SentLog, LogRows, PROVIDER_TOOK_IT
<1>7. SentOnce'
  <2>1. SUFFICES ASSUME Provider # "resend", NEW x \in Rows \ blinded PROVE Once(x)'
    BY <1>5 DEF SentOnce
  <2>2. Once(x)
    BY <2>1 DEF Inv, SentOnce
  <2>3. CASE x # d
    BY <1>2, <1>4, <1>5, <2>2, <2>3, OthersOnce
  <2>4. CASE x = d
    <3>1. Closed(d)
      BY <1>1, <2>2, <2>4 DEF Once
    <3>2. QED
      BY <1>2, <1>5, <1>6, <2>2, <2>4, <3>1, RecordOnce DEF Effect
  <2>5. QED
    BY <2>3, <2>4
<1>8. TakenShape' /\ LaneShape' /\ \A x \in Rows : taken'[x] >= taken[x]
  BY <1>1, <1>2, <1>5 DEF TakenShape, Effect
<1>9. SaysSent'
  BY <1>1, <1>2, <1>4, <1>5, <1>8, SaysSentKept
<1>10. QED
  BY <1>2, <1>4, <1>7, <1>8, <1>9, LaneInv

-----------------------------------------------------------------------------
(* The steps that are no lane's *)

(* A write to one row by nobody's lane *)
LEMMA EnvironmentRow ==
  ASSUME Inv, NEW d \in Rows, NEW to \in DeliveryRows, row' = [row EXCEPT ![d] = to],
         UNCHANGED <<log, lane, stored, audit, taken, blinded>>,
         to.sent = row[d].sent, to.uncertain = row[d].uncertain, to.status # "SENT" \/ row[d].status = "SENT",
         \A v \in Lanes : to.status = "PROCESSING" /\ to.holder = v => Holds(v, d),
         row[d].status = "DELETED" => to.status = "DELETED"
  PROVE  Inv'
<1>1. row'[d] = to /\ \A x \in Rows \ {d} : row'[x] = row[x]
  BY DEF Inv, Shape, RowShape
<1>2. Shape'
  BY DEF Inv, Shape, RowShape, LogShape, TakenShape, LaneShape
<1>3. SentOnce'
  <2>1. SUFFICES ASSUME Provider # "resend", NEW x \in Rows \ blinded PROVE Once(x)'
    BY DEF SentOnce
  <2>2. Once(x)
    BY <2>1 DEF Inv, SentOnce
  <2>3. \A v \in Lanes : Holds(v, x)' => Holds(v, x)
    BY <1>1 DEF Holds
  <2>4. row[x].status = "DELETED" => row'[x].status = "DELETED"
    BY <1>1
  <2>5. QED
    BY <2>2, <2>3, <2>4, QuietOnce
<1>4. SaysSent'
  BY <1>1 DEF Inv, SaysSent
<1>5. ASSUME NEW w \in Lanes
      PROVE  Way(w)'
  <2>1. lane[w].pc = "settle" => lane[w].at \in Rows
    BY AtRow
  <2>2. \A x \in Rows : row'[x].sent = row[x].sent /\ row'[x].uncertain = row[x].uncertain
    BY <1>1
  <2>3. QED
    BY <2>1, <2>2 DEF Inv, Way
<1>6. ASSUME NEW x \in Rows
      PROVE  Finished(x)'
  BY <1>1 DEF Inv, Finished
<1>7. QED
  BY <1>2, <1>3, <1>4, <1>5, <1>6 DEF Inv

(* A write to one log by nobody's lane *)
LEMMA EnvironmentLog ==
  ASSUME Inv, NEW d \in Rows, NEW l \in LogRows, SetLog(d, l),
         UNCHANGED <<row, lane, stored, audit, taken, blinded>>,
         l.status \in PROVIDER_TOOK_IT => taken[d] > 0,
         Provider # "resend" /\ d \notin blinded => Once(d)'
  PROVE  Inv'
<1>1. log'[d] = l /\ \A x \in Rows \ {d} : log'[x] = log[x]
  BY DEF Inv, Shape, LogShape, SetLog
<1>2. Shape'
  BY DEF Inv, Shape, RowShape, LogShape, TakenShape, LaneShape, SetLog
<1>3. SentOnce'
  <2>1. SUFFICES ASSUME Provider # "resend", NEW x \in Rows \ blinded PROVE Once(x)'
    BY DEF SentOnce
  <2>2. Once(x)
    BY <2>1 DEF Inv, SentOnce
  <2>3. CASE x # d
    <3>1. \A v \in Lanes : Holds(v, x)' => Holds(v, x)
      BY DEF Holds
    <3>2. QED
      BY <1>1, <2>2, <2>3, <3>1, QuietOnce
  <2>4. QED
    BY <2>1, <2>3
<1>4. SaysSent'
  BY <1>1 DEF Inv, SaysSent
<1>5. (\A w \in Lanes : Way(w)') /\ \A x \in Rows : Finished(x)'
  BY DEF Inv, Way, Finished
<1>6. QED
  BY <1>2, <1>3, <1>4, <1>5 DEF Inv

LEMMA RowActionsInv ==
  ASSUME Inv, NEW d \in Rows,
         \/ enqueueNetworkingDelivery(d) \/ ScrubCode(d) \/ ExhaustRow(d) \/ DeleteRow(d) \/ LeaseRunsOut(d)
  PROVE  Inv'
<1>1. RowShape /\ row[d] \in DeliveryRows
  BY DEF Inv, Shape, RowShape
<1>2. ASSUME NEW status \in {"SKIPPED", "FAILED", "DELETED"}, row' = [row EXCEPT ![d] = Unleased(d, status)],
             UNCHANGED <<log, lane, stored, audit, taken, blinded>>,
             row[d].status # "DELETED"
      PROVE  Inv'
  <2>1. Unleased(d, status) \in DeliveryRows
    BY <1>1, UnleasedShape
  <2>2. /\ Unleased(d, status).status = status
        /\ Unleased(d, status).sent = row[d].sent /\ Unleased(d, status).uncertain = row[d].uncertain
    BY <1>1 DEF Unleased, DeliveryRows
  <2>3. QED
    BY <1>2, <2>1, <2>2, EnvironmentRow
<1>3. CASE enqueueNetworkingDelivery(d)
  <2>1. PICK to : to = [row[d] EXCEPT !.status = "PENDING"]
    OBVIOUS
  <2>2. to \in DeliveryRows /\ to.status = "PENDING" /\ to.sent = row[d].sent /\ to.uncertain = row[d].uncertain
    BY <1>1, <2>1 DEF DeliveryRows
  <2>3. row' = [row EXCEPT ![d] = to] /\ row[d].status = "ABSENT"
    BY <1>3, <2>1 DEF enqueueNetworkingDelivery
  <2>4. QED
    BY <1>3, <2>2, <2>3, EnvironmentRow DEF enqueueNetworkingDelivery
<1>4. CASE LeaseRunsOut(d)
  <2>1. PICK to : to = [row[d] EXCEPT !.expired = TRUE]
    OBVIOUS
  <2>2. /\ to \in DeliveryRows /\ to.status = "PROCESSING" /\ to.holder = row[d].holder
        /\ to.sent = row[d].sent /\ to.uncertain = row[d].uncertain
    BY <1>1, <1>4, <2>1 DEF DeliveryRows, LeaseRunsOut
  <2>3. row' = [row EXCEPT ![d] = to] /\ row[d].status = "PROCESSING"
    BY <1>4, <2>1 DEF LeaseRunsOut
  <2>4. \A v \in Lanes : to.holder = v => Holds(v, d)
    BY <2>2, <2>3 DEF Holds
  <2>5. UNCHANGED <<log, lane, stored, audit, taken, blinded>>
    BY <1>4 DEF LeaseRunsOut
  <2>6. QED
    BY <2>2, <2>3, <2>4, <2>5, EnvironmentRow
<1>5. QED
  BY <1>2, <1>3, <1>4 DEF ScrubCode, ExhaustRow, DeleteRow

(* No lane owns a delivery that is not going on, and its log closes as it  *)
(* was: uncertain when the marker is set.                                  *)
LEMMA OrphanInv ==
  ASSUME Inv, NEW d \in Rows, settleOrphanedNetworkingEmailLogs(d)
  PROVE  Inv'
<1>1. log[d] \in LogRows /\ log[d].status = "SENDING" /\ row[d].status # "PROCESSING" /\ LogShape
  BY DEF Inv, Shape, LogShape, settleOrphanedNetworkingEmailLogs, GoingOn
<1>2. OrphanLog(d) \in LogRows /\ OrphanLog(d).status = (IF log[d].marker THEN "UNCERTAIN" ELSE "FAILED")
  BY <1>1, WrittenLogs DEF OrphanLog, LogRows
<1>3. UNCHANGED <<row, lane, stored, audit, taken, blinded>> /\ log'[d] = OrphanLog(d)
  BY <1>1 DEF settleOrphanedNetworkingEmailLogs, SetLog, LogShape
<1>4. ASSUME Provider # "resend", d \notin blinded
      PROVE  Once(d)'
  <2>1. Once(d)
    BY <1>4 DEF Inv, SentOnce
  <2>2. Closed(d) => Closed(d)'
    BY <1>1, <1>2, <1>3 DEF Closed, PROVIDER_TOOK_IT
  <2>3. \A v \in Lanes : ~Holds(v, d)'
    BY <1>1, <1>3 DEF Holds
  <2>4. QED
    BY <1>3, <2>1, <2>2, <2>3 DEF Once, NobodyCalls, On
<1>5. QED
  BY <1>2, <1>3, <1>4, EnvironmentLog DEF settleOrphanedNetworkingEmailLogs, PROVIDER_TOOK_IT

LEMMA DeleteLogInv ==
  ASSUME Inv, NEW d \in Rows, DeleteLog(d)
  PROVE  Inv'
<1> DEFINE l == [status |-> "ABSENT", marker |-> FALSE]
<1>1. l \in LogRows /\ LogShape /\ row[d].status = "DELETED"
  BY DEF Inv, Shape, LogRows, DeleteLog
<1>2. UNCHANGED <<row, lane, stored, audit, taken, blinded>> /\ log'[d] = l
  BY <1>1 DEF DeleteLog, SetLog, LogShape
<1>3. ASSUME Provider # "resend", d \notin blinded
      PROVE  Once(d)'
  <2>1. Once(d)
    BY <1>3 DEF Inv, SentOnce
  <2>2. Closed(d)'
    BY <1>1, <1>2 DEF Closed
  <2>3. \A v \in Lanes : ~Holds(v, d)'
    BY <1>1, <1>2 DEF Holds
  <2>4. QED
    BY <1>2, <2>1, <2>2, <2>3 DEF Once, NobodyCalls, On
<1>4. QED
  BY <1>1, <1>2, <1>3, EnvironmentLog DEF DeleteLog, PROVIDER_TOOK_IT

LEMMA WebhookInv ==
  ASSUME Inv, NEW d \in Rows, NEW to \in Webhooks, Webhook(d, to)
  PROVE  Inv'
<1>1. log[d] \in LogRows /\ LogShape /\ taken[d] > 0 /\ to \in PROVIDER_TOOK_IT
  BY ConstantFacts DEF Inv, Shape, LogShape, Webhook, PROVIDER_TOOK_IT
<1>2. PICK l : l = [log[d] EXCEPT !.status = to]
  OBVIOUS
<1>3. l \in LogRows /\ l.status = to
  BY <1>1, <1>2 DEF LogRows
<1>4. UNCHANGED <<row, lane, stored, audit, taken, blinded>> /\ log'[d] = l /\ SetLog(d, l)
  BY <1>1, <1>2 DEF Webhook, SetLog, LogShape
<1>5. ASSUME Provider # "resend", d \notin blinded
      PROVE  Once(d)'
  <2>1. Once(d)
    BY <1>5 DEF Inv, SentOnce
  <2>2. Closed(d)' /\ Closed(d) /\ taken[d] # 0
    BY <1>1, <1>3, <1>4, <2>1 DEF Closed, Once
  <2>3. \A v \in Lanes : Holds(v, d)' <=> Holds(v, d)
    BY <1>4 DEF Holds
  <2>4. QED
    BY <1>4, <2>1, <2>2, <2>3 DEF Once, NobodyCalls, On
<1>6. QED
  BY <1>1, <1>3, <1>4, <1>5, EnvironmentLog

-----------------------------------------------------------------------------
(* The invariant *)

LEMMA InitInv == Init => Inv
<1> SUFFICES ASSUME Init PROVE Inv
  OBVIOUS
<1>1. Shape
  <2>1. Idle({}) \in LaneRows /\ Idle({}).pc = "idle"
    BY IdleShape DEF Idle
  <2>2. LaneShape
    BY <2>1 DEF Init, LaneShape
  <2>3. RowShape /\ LogShape /\ TakenShape
    BY DEF Init, RowShape, DeliveryRows, LogShape, LogRows, TakenShape
  <2>4. QED
    BY <2>2, <2>3 DEF Shape
<1>2. \A w \in Lanes : lane[w].pc = "idle" /\ lane[w].email = "none" /\ lane[w].out = "none"
  BY DEF Init, Idle
<1>3. SentOnce
  BY <1>2 DEF Init, SentOnce, Once, On, NobodyCalls
<1>4. SaysSent
  BY <1>2 DEF Init, SaysSent, PROVIDER_TOOK_IT
<1>5. (\A w \in Lanes : Way(w)) /\ \A d \in Rows : Finished(d)
  BY <1>2 DEF Init, Way, Finished, EmailSteps, PushSteps, ReportSteps
<1>6. QED
  BY <1>1, <1>3, <1>4, <1>5 DEF Inv

(* The steps of a lane that have nothing to do with the email *)
QuietStep(w) ==
  \/ \E S \in SUBSET Rows : claimNetworkingDeliveries(w, S) \/ ClaimLost(w, S)
  \/ \E d \in Rows : Start(w, d) \/ HandBack(w, d)
  \/ \E why \in {"timeout", "shutdown"} : Abort(w, why)
  \/ NextRun(w) \/ Crash(w) \/ Throw(w) \/ SkipRow(w) \/ Settle(w)
  \/ EmailChannel(w) \/ Unconfigured(w) \/ SaveEmail(w)
  \/ PushChannel(w) \/ EndpointsListed(w) \/ PushesDone(w) \/ RefreshBeforePush(w)
  \/ Push(w) \/ DeletionFails(w) \/ SavePush(w)
  \/ RenderReport(w) \/ UploadReport(w) \/ saveNetworkingPostEventReport(w)

LEMMA QuietSteps ==
  ASSUME Inv, NEW w \in Lanes, QuietStep(w)
  PROVE  Effect(w) /\ Quiet(w)
<1>1. CASE \E why \in {"timeout", "shutdown"} : Abort(w, why)
  BY <1>1, AbortQuiet DEF Abort
<1>2. CASE NextRun(w)
  BY <1>2, AbortQuiet DEF NextRun
<1>3. QED
  BY <1>1, <1>2, ClaimQuiet, StartQuiet, HandBackQuiet, CrashQuiet, EndQuiet, EmailChannelQuiet,
     UnconfiguredQuiet, SaveEmailQuiet, PushChannelQuiet, EndpointsQuiet, DeletionFailsQuiet,
     RefreshBeforePushQuiet, SavePushQuiet, ReportQuiet
  DEF QuietStep

LEMMA LaneCases ==
  ASSUME NEW w \in Lanes, LaneStep(w) \/ LaneFails(w)
  PROVE  \/ QuietStep(w)
         \/ beginNetworkingEmailLog(w) \/ Unbegun(w) \/ Interrupted(w) \/ markNetworkingEmailAttempt(w)
         \/ callProvider(w) \/ RecordSent(w) \/ RecordOutcome(w) \/ SkipLog(w)
BY DEF LaneStep, LaneFails, QuietStep

LEMMA NextInv == Inv /\ [Next]_vars => Inv'
<1> SUFFICES ASSUME Inv, [Next]_vars PROVE Inv'
  OBVIOUS
<1>1. ASSUME NEW w \in Lanes, LaneStep(w) \/ LaneFails(w)
      PROVE  Inv'
  BY <1>1, LaneCases, QuietSteps, QuietInv, BeginInv, UnbegunInv, InterruptedInv, MarkInv, CallInv,
     RecordSentInv, RecordOutcomeInv, SkipLogInv
<1>2. ASSUME NEW d \in Rows, Maintenance(d) \/ LeaseRunsOut(d) \/ Environment(d)
      PROVE  Inv'
  BY <1>2, RowActionsInv, OrphanInv, DeleteLogInv, WebhookInv DEF Maintenance, Environment
<1>3. CASE UNCHANGED vars
  BY <1>3 DEF vars, Inv, Shape, RowShape, LogShape, TakenShape, LaneShape, SentOnce, Once, Closed, On,
     NobodyCalls, Holds, SaysSent, Way, Finished
<1>4. QED
  BY <1>1, <1>2, <1>3 DEF Next

(* The inductive invariant, for every set of deliveries and lanes, both    *)
(* providers and any number of failures.                                   *)
THEOREM DeliveryInvariant == Spec => []Inv
BY InitInv, NextInv, PTL DEF Spec

-----------------------------------------------------------------------------
(* The properties *)

(* A provider that does not deduplicate takes one email per delivery,      *)
(* whatever crashes, is retried or loses its lease between the marker, the *)
(* call and the record of its outcome (beginNetworkingEmailLog,            *)
(* markNetworkingEmailAttempt, finishNetworkingEmailLog); the deliveries   *)
(* whose marker a failed beginning cleared are the only exception.         *)
THEOREM OneEmailPerDeliveryHolds == Spec => []OneEmailPerDelivery
<1>1. Inv => OneEmailPerDelivery
  BY DEF Inv, SentOnce, Once, Shape, TakenShape, OneEmailPerDelivery
<1>2. QED
  BY <1>1, DeliveryInvariant, PTL

(* What the log, the payload and the status of a delivery say of its       *)
(* email, its code and its report: sent means taken, a code or a report    *)
(* delivered as SENT has been taken or is uncertain, or is stored and      *)
(* audited, and failed and skipped mean not taken, except for Resend and   *)
(* for a delivery whose marker a failed beginning cleared.                 *)
THEOREM OutcomesTellTruthHolds == Spec => []OutcomesTellTruth
<1>1. Inv => OutcomesTellTruth
  <2> SUFFICES ASSUME Inv, NEW d \in Rows
               PROVE  /\ log[d].status \in PROVIDER_TOOK_IT \/ row[d].sent => taken[d] > 0
                      /\ log[d].status \in {"FAILED", "SKIPPED"} /\ Provider # "resend" =>
                           taken[d] = 0 \/ d \in blinded
                      /\ row[d].status = "SENT" /\ d \in OtpRows => row[d].sent \/ row[d].uncertain
                      /\ row[d].status = "SENT" /\ d \in ReportRows => d \in stored \intersect audit
    BY DEF OutcomesTellTruth
  <2>1. log[d].status \in PROVIDER_TOOK_IT \/ row[d].sent => taken[d] > 0
    BY DEF Inv, SaysSent
  <2>2. ASSUME log[d].status \in {"FAILED", "SKIPPED"}, Provider # "resend", d \notin blinded
        PROVE  taken[d] = 0
    <3>1. ~Closed(d)
      BY <2>2 DEF Closed, PROVIDER_TOOK_IT
    <3>2. Once(d) /\ taken[d] \in Nat
      BY <2>2 DEF Inv, SentOnce, Shape, TakenShape
    <3>3. QED
      BY <3>1, <3>2 DEF Once
  <2>3. Finished(d)
    BY DEF Inv
  <2>4. QED
    BY <2>1, <2>2, <2>3 DEF Finished
<1>2. QED
  BY <1>1, DeliveryInvariant, PTL

(* While a lease runs only the lane that knows it ends it or writes the    *)
(* delivery's progress, never one that lost the row (the fence on          *)
(* locked_until of updateNetworkingDelivery); and a delivery that was sent *)
(* or skipped stays so until it is deleted.                                *)
THEOREM HolderDecidesHolds == Spec => HolderDecides
<1> DEFINE Decides(d) ==
             /\ /\ row[d].status = "PROCESSING" /\ ~row[d].expired
                /\ row'[d] # [row[d] EXCEPT !.expired = TRUE] /\ row'[d] # row[d]
                /\ row'[d].status # "DELETED"
                => /\ row[d].holder # None
                   /\ lane'[row[d].holder] # lane[row[d].holder]
                   /\ \A v \in Lanes \ {row[d].holder} : lane'[v] = lane[v]
             /\ row[d].status \in {"SENT", "SKIPPED"} => row'[d].status \in {row[d].status, "DELETED"}
<1>1. ASSUME Inv, NEW w \in Lanes, Effect(w), NEW d \in Rows
      PROVE  Decides(d)
  <2>1. CASE row'[d] = row[d]
    BY <2>1
  <2>2. CASE Written(w, d)
    BY <1>1, <2>2, ConstantFacts DEF Written, Holds, Effect
  <2>3. CASE Leased(w, d)
    BY <2>3 DEF Leased
  <2>4. QED
    BY <1>1, <2>1, <2>2, <2>3 DEF Effect, RowEffect
<1>2. ASSUME Inv, NEW w \in Lanes, LaneStep(w) \/ LaneFails(w), NEW d \in Rows
      PROVE  Decides(d)
  <2>1. CASE QuietStep(w) \/ markNetworkingEmailAttempt(w)
    BY <1>1, <1>2, <2>1, QuietSteps, MarkEffect
  <2>2. CASE UNCHANGED row
    BY <2>2
  <2>3. QED
    BY <1>2, <2>1, <2>2, LaneCases
    DEF beginNetworkingEmailLog, Unbegun, Interrupted, callProvider, RecordSent, RecordOutcome, SkipLog
<1>3. ASSUME Inv, NEW x \in Rows, Maintenance(x) \/ LeaseRunsOut(x) \/ Environment(x), NEW d \in Rows
      PROVE  Decides(d)
  <2>1. row[x] \in DeliveryRows /\ RowShape
    BY <1>3 DEF Inv, Shape, RowShape
  <2>2. CASE UNCHANGED row
    BY <2>2
  <2>3. ASSUME NEW to, row' = [row EXCEPT ![x] = to],
               \/ to = [row[x] EXCEPT !.expired = TRUE] /\ row[x].status = "PROCESSING"
               \/ row[x].status \notin {"PROCESSING", "SENT", "SKIPPED"}
               \/ row[x].status = "PROCESSING" /\ row[x].expired
               \/ row[x].status = "SKIPPED" /\ to.status = "SKIPPED"
               \/ to.status = "DELETED"
        PROVE  Decides(d)
    BY <2>1, <2>3 DEF RowShape
  <2>4. CASE LeaseRunsOut(x)
    <3>1. PICK to : to = [row[x] EXCEPT !.expired = TRUE]
      OBVIOUS
    <3>2. row' = [row EXCEPT ![x] = to] /\ row[x].status = "PROCESSING"
      BY <2>4, <3>1 DEF LeaseRunsOut
    <3>3. QED
      BY <2>3, <3>1, <3>2
  <2>5. CASE enqueueNetworkingDelivery(x)
    <3>1. PICK to : to = [row[x] EXCEPT !.status = "PENDING"]
      OBVIOUS
    <3>2. row' = [row EXCEPT ![x] = to] /\ row[x].status = "ABSENT"
      BY <2>5, <3>1 DEF enqueueNetworkingDelivery
    <3>3. QED
      BY <2>3, <3>2
  <2>6. \A status : Unleased(x, status).status = status
    BY <2>1 DEF Unleased, DeliveryRows
  <2>7. CASE ScrubCode(x)
    BY <2>3, <2>6, <2>7 DEF ScrubCode
  <2>8. CASE ExhaustRow(x)
    BY <2>3, <2>8 DEF ExhaustRow
  <2>9. CASE DeleteRow(x)
    BY <2>3, <2>6, <2>9 DEF DeleteRow
  <2>10. QED
    BY <1>3, <2>2, <2>4, <2>5, <2>7, <2>8, <2>9
    DEF Maintenance, Environment, settleOrphanedNetworkingEmailLogs, DeleteLog, Webhook
<1>4. Inv /\ [Next]_vars => [\A d \in Rows : Decides(d)]_vars
  <2>1. SUFFICES ASSUME Inv, Next, NEW d \in Rows PROVE Decides(d)
    OBVIOUS
  <2>2. QED
    BY <1>2, <1>3, <2>1 DEF Next
<1>5. Spec => [][\A d \in Rows : Decides(d)]_vars
  BY <1>4, DeliveryInvariant, PTL DEF Spec
<1>6. (\A d \in Rows : Decides(d)) =>
        \A d \in Rows :
          LET before == row[d]
              after == row'[d]
          IN
          /\ /\ before.status = "PROCESSING" /\ ~before.expired
             /\ after # [before EXCEPT !.expired = TRUE] /\ after # before
             /\ after.status # "DELETED"
             => /\ before.holder # None
                /\ lane'[before.holder] # lane[before.holder]
                /\ \A w \in Lanes \ {before.holder} : lane'[w] = lane[w]
          /\ before.status \in {"SENT", "SKIPPED"} => after.status \in {before.status, "DELETED"}
  OBVIOUS
<1>7. QED
  BY <1>5, <1>6, PTL DEF HolderDecides
=============================================================================
