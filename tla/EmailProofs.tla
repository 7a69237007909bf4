---------------------------- MODULE EmailProofs ----------------------------
(***************************************************************************)
(* Proofs about EmailQueue, for every set of rows and workers, either      *)
(* provider, every retry limit and any number of faults and webhooks.      *)
(*                                                                         *)
(* Three things change at different times: the row, what a worker (or the  *)
(* request that sends at once) knows of the call, and what the provider    *)
(* took. EveryRowMoves says what one step may do to a row, and under which *)
(* knowledge of its owner; what is about the row alone follows from it.    *)
(* RowKeeps and BatchKeeps say what the steps do to the workers' memory.  *)
(* They leave only the four steps that begin or make a call to be looked   *)
(* at by themselves.                                                       *)
(***************************************************************************)
EXTENDS EmailQueue, TLAPS

Reports == {"SENT", "DELIVERED", "OPENED", "CLICKED", "BOUNCED", "DROPPED"}
Reopened == {"QUEUED", "FAILED", "SKIPPED"}
Statuses == {"ABSENT", "SENDING", "UNCERTAIN"} \cup Reopened \cup Reports
Answers == {"accepted", "rejected", "ambiguous", "retryable"}
Sends == {"none", "broken", "marked"} \cup Answers
Owners == Workers \cup {Api}

Columns ==
  /\ status \in [Rows -> Statuses]
  /\ attempts \in [Rows -> Nat] /\ retries \in [Rows -> Nat]
  /\ lockedBy \in [Rows -> Owners \cup {Nobody}]
  /\ marker \in [Rows -> BOOLEAN]

Outside ==
  /\ delivered \in [Rows -> {0, 1}]
  /\ hook \in [Rows -> SUBSET [seen : Statuses, to : Reports]]
  /\ now \in [Rows -> {"none", "marked", "done"} \cup Answers]

MemoryShape ==
  /\ phase \in [Workers -> Phases]
  /\ unfinished \in [Workers -> SUBSET Rows]
  /\ stage \in [Workers -> [Rows -> Stages]]
  /\ send \in [Workers -> [Rows -> Sends]]

Shape == Columns /\ Outside /\ MemoryShape

(* The row alone: CountersAgree, what a webhook will write *)
RowOK(r) ==
  /\ status[r] = "ABSENT" => attempts[r] = 0 /\ retries[r] = 0
  /\ status[r] = "QUEUED" => attempts[r] = retries[r] /\ attempts[r] <= RetryLimit(r)
  /\ status[r] = "SENDING" => attempts[r] = retries[r] + 1
  /\ attempts[r] <= RetryLimit(r) + 1
  /\ r \in SendNowRows =>
       /\ status[r] \notin {"QUEUED", "SKIPPED"} /\ lockedBy[r] \in {Api, Nobody}
       /\ status[r] = "SENDING" => lockedBy[r] = Api /\ marker[r]
  /\ \A h \in hook[r] :
       /\ delivered[r] > 0
       /\ h.seen \notin Terminal /\ (h.to \in Terminal \/ Rank(h.to) > Rank(h.seen))
  /\ status[r] \in Reports => delivered[r] > 0

(* What a worker has of a row between batches and in each phase of one *)
MemoryOK(w, r) ==
  /\ stage[w][r] \in Running => phase[w] = "lanes"
  /\ stage[w][r] # "out" => phase[w] \in {"lanes", "closing"} /\ r \notin SendNowRows
  /\ r \in unfinished[w] => r \notin SendNowRows
  /\ stage[w][r] = "handle" => send[w][r] \in {"none", "marked"}
  /\ stage[w][r] = "complete" => send[w][r] \in {"none", "broken"} \cup Outcomes
  /\ send[w][r] = "accepted" => delivered[r] > 0

NowOK(r) ==
  /\ now[r] # "none" => r \in SendNowRows
  /\ r \in SendNowRows /\ now[r] = "none" => status[r] = "ABSENT"
  /\ now[r] = "accepted" => delivered[r] > 0
  /\ now[r] = "rejected" => delivered[r] = 0

(* The owner has recorded the marker and is about to call the provider *)
AtCall(o, r) ==
  IF o \in Workers THEN stage[o][r] = "handle" /\ send[o][r] = "marked" ELSE now[r] = "marked"

(* The owner called the provider for r, and only writes the outcome if any *)
Called(o, r) ==
  IF o \in Workers
  THEN \/ stage[o][r] = "complete" /\ send[o][r] \in {"accepted", "ambiguous"}
       \/ stage[o][r] = "out" /\ (phase[o] = "load" => r \notin unfinished[o])
  ELSE now[r] \in {"accepted", "ambiguous", "retryable", "done"}

(* The logs that no second call may be made for *)
Guarded(r) == Provider = "sendgrid" \/ r \in SendNowRows

(* Before the call the row cannot be opened to anybody else, and after it  *)
(* it is never opened again: a marked row is parked by recovery, is not    *)
(* released, and its owner knows of the call.                              *)
Once(r) ==
  /\ \A o \in Owners : AtCall(o, r) =>
       /\ delivered[r] = 0 /\ marker[r]
       /\ status[r] = "UNCERTAIN" \/ (status[r] = "SENDING" /\ lockedBy[r] = o)
  /\ \A o, p \in Owners : AtCall(o, r) /\ AtCall(p, r) => o = p
  /\ delivered[r] > 0 =>
       /\ status[r] \notin ({"ABSENT"} \cup Reopened)
       /\ status[r] = "SENDING" =>
            marker[r] /\ \E o \in Owners : lockedBy[r] = o /\ Called(o, r)

(* The inductive invariant *)
Inv ==
  /\ Shape
  /\ \A r \in Rows : RowOK(r) /\ NowOK(r)
  /\ \A w \in Workers, r \in Rows : MemoryOK(w, r)
  /\ \A r \in Rows : Guarded(r) => Once(r)

-----------------------------------------------------------------------------
(* What one step may do to a row *)

SameRow(r) ==
  /\ status'[r] = status[r] /\ attempts'[r] = attempts[r] /\ retries'[r] = retries[r]
  /\ lockedBy'[r] = lockedBy[r]

(* Nothing, but that its owner may set the marker *)
Stays(r) == SameRow(r) /\ (marker'[r] = marker[r] \/ (marker'[r] /\ status[r] = "SENDING"))

Born(r) ==
  /\ status[r] = "ABSENT" /\ r \notin SendNowRows /\ status'[r] = "QUEUED"
  /\ attempts'[r] = attempts[r] /\ retries'[r] = retries[r] /\ lockedBy'[r] = lockedBy[r]
  /\ marker'[r] = marker[r]

BornLeased(r) ==
  /\ status[r] = "ABSENT" /\ r \in SendNowRows /\ status'[r] = "SENDING"
  /\ attempts'[r] = 1 /\ retries'[r] = retries[r] /\ lockedBy'[r] = Api /\ marker'[r]
  /\ now'[r] = "marked"

Claimed(r) ==
  /\ status[r] = "QUEUED" /\ attempts[r] <= RetryLimit(r)
  /\ status'[r] = "SENDING" /\ attempts'[r] = attempts[r] + 1 /\ retries'[r] = retries[r]
  /\ lockedBy'[r] \in Workers /\ ~marker'[r]

Freed(r) == status[r] = "SENDING" /\ lockedBy'[r] = Nobody /\ marker'[r] = marker[r]

(* The outcome, written by an owner who knows that no call was made or     *)
(* that the provider refused it, or by recovery for a row not to be parked *)
MayReopen(r) ==
  \/ /\ lockedBy[r] \in Owners
     /\ ~AtCall(lockedBy[r], r) /\ ~Called(lockedBy[r], r)
  \/ ~MustPark(r)

Charged(r) ==
  /\ Freed(r) /\ status'[r] \in {"QUEUED", "FAILED"} /\ MayReopen(r)
  /\ attempts'[r] = attempts[r] /\ retries'[r] = retries[r] + 1
  /\ status'[r] = "QUEUED" =>
       \/ lockedBy[r] \in Workers /\ attempts[r] <= RetryLimit(r)
       \/ retries[r] < RetryLimit(r)

Ended(r) ==
  /\ Freed(r) /\ attempts'[r] = attempts[r] /\ retries'[r] = retries[r]
  /\ \/ status'[r] = "UNCERTAIN"
     \/ status'[r] = "SENT" /\ delivered[r] > 0
     \/ status'[r] = "SKIPPED" /\ MayReopen(r) /\ lockedBy[r] \in Workers

Released(r) ==
  /\ Freed(r) /\ status'[r] = "QUEUED" /\ ~marker[r] /\ lockedBy[r] \in Workers
  /\ attempts'[r] = (IF attempts[r] = 0 THEN 0 ELSE attempts[r] - 1) /\ retries'[r] = retries[r]

Reported(r) ==
  /\ \E h \in hook[r] : status[r] = h.seen /\ status'[r] = h.to
  /\ attempts'[r] = attempts[r] /\ retries'[r] = retries[r] /\ lockedBy'[r] = lockedBy[r]
  /\ marker'[r] = marker[r]

Moves(r) ==
  Stays(r) \/ Born(r) \/ BornLeased(r) \/ Claimed(r) \/ Charged(r) \/ Ended(r)
    \/ Released(r) \/ Reported(r)

-----------------------------------------------------------------------------
(* The statements *)

LEMMA ConstantFacts ==
  /\ Nobody \notin Workers /\ Api \notin Workers /\ Api # Nobody
  /\ SendNowRows \subseteq Rows /\ CopyRows \intersect SendNowRows = {}
  /\ LeasedStatus = "SENDING" /\ Provider \in {"resend", "sendgrid"}
  /\ MaxRetries \in Nat
BY EmailConstants, NobodyIsNoWorker

LEMMA Limits ==
  ASSUME NEW r \in Rows
  PROVE  /\ RetryLimit(r) \in Nat
         /\ r \in SendNowRows => RetryLimit(r) = 0
BY ConstantFacts DEF RetryLimit

LEMMA OwnedRow ==
  ASSUME NEW o, NEW r \in Rows
  PROVE  Owned(o, r) <=> status[r] = "SENDING" /\ lockedBy[r] = o
BY ConstantFacts DEF Owned, Leased

LEMMA NothingMoves ==
  ASSUME Columns, UNCHANGED <<status, attempts, lockedBy, retries, marker>>
  PROVE  Columns' /\ \A q \in Rows : Stays(q)
BY DEF Columns, Stays, SameRow

LEMMA RenewMoves ==
  ASSUME Columns, NEW w, NEW S, RenewSql(w, S), UNCHANGED <<retries, marker>>
  PROVE  Columns' /\ \A q \in Rows : Stays(q)
BY NothingMoves DEF RenewSql

LEMMA MarkMoves ==
  ASSUME Columns, NEW w, NEW r \in Rows, Owned(w, r), MarkSql(w, r), UNCHANGED retries
  PROVE  /\ Columns' /\ \A q \in Rows : Stays(q)
         /\ marker'[r]
<1>1. status[r] = "SENDING"
  BY OwnedRow
<1>2. QED BY <1>1 DEF MarkSql, RenewSql, Columns, Stays, SameRow

LEMMA FinishMoves ==
  ASSUME Columns, NEW o \in Owners, NEW r \in Rows, NEW to \in Statuses, NEW d, NEW n \in {0, 1},
         FinishSql(o, r, to, d), ChargeRetry(o, r, n), marker' = marker
  PROVE  /\ Columns'
         /\ \A q \in Rows : ~(q = r /\ Owned(o, q)) => Stays(q)
         /\ Owned(o, r) =>
              /\ Freed(r) /\ lockedBy[r] = o /\ status'[r] = to
              /\ attempts'[r] = attempts[r] /\ retries'[r] = retries[r] + n
<1>1. OwnedOf(o, {r}) = {x \in {r} : Owned(o, x)}
  BY DEF OwnedOf
<1>2. status' = [x \in Rows |-> IF x \in OwnedOf(o, {r}) THEN to ELSE status[x]]
  BY DEF FinishSql, Set
<1>3. lockedBy' = [x \in Rows |-> IF x \in OwnedOf(o, {r}) THEN Nobody ELSE lockedBy[x]]
  BY DEF FinishSql, ClearLease, Set
<1>4. attempts' = attempts
  BY DEF FinishSql
<1>5. retries' \in [Rows -> Nat] /\ \A x \in Rows : retries'[x] = IF x = r /\ Owned(o, r) THEN retries[x] + n ELSE retries[x]
  BY DEF ChargeRetry, Columns
<1>6. Columns'
  BY <1>1, <1>2, <1>3, <1>4, <1>5 DEF Columns
<1>7. \A q \in Rows : ~(q = r /\ Owned(o, q)) => Stays(q)
  BY <1>1, <1>2, <1>3, <1>4, <1>5 DEF Stays, SameRow, Columns
<1>8. Owned(o, r) =>
              /\ Freed(r) /\ lockedBy[r] = o /\ status'[r] = to
              /\ attempts'[r] = attempts[r] /\ retries'[r] = retries[r] + n
  BY <1>1, <1>2, <1>3, <1>4, <1>5, OwnedRow DEF Freed
<1>9. QED BY <1>6, <1>7, <1>8

LEMMA ReleaseMoves ==
  ASSUME Columns, NEW w \in Workers, NEW S \in SUBSET Rows,
         ReleaseSql(w, S \cap Releasable, [r \in Rows |-> "QUEUED"]), UNCHANGED <<retries, marker>>
  PROVE  Columns' /\ \A q \in Rows : Stays(q) \/ Released(q)
<1> DEFINE hit == {q \in S \cap Releasable : Owned(w, q)}
<1>1. hit = OwnedOf(w, S \cap Releasable)
  BY DEF OwnedOf
<1>2. /\ status' = [x \in Rows |-> IF x \in hit THEN "QUEUED" ELSE status[x]]
      /\ lockedBy' = [x \in Rows |-> IF x \in hit THEN Nobody ELSE lockedBy[x]]
      /\ attempts' = [x \in Rows |-> IF x \in hit THEN IF attempts[x] = 0 THEN 0 ELSE attempts[x] - 1
                                                  ELSE attempts[x]]
  BY <1>1 DEF ReleaseSql, Set, ClearLease
<1>3. \A x \in hit : status[x] = "SENDING" /\ lockedBy[x] = w /\ ~marker[x]
  BY OwnedRow DEF Releasable
<1> HIDE DEF hit
<1>4. Columns'
  BY <1>2 DEF Columns, Statuses, Reopened
<1>5. \A q \in Rows : Stays(q) \/ Released(q)
  BY <1>2, <1>3 DEF Stays, SameRow, Released, Freed, Columns
<1>6. QED BY <1>4, <1>5

LEMMA ClaimMoves ==
  ASSUME Columns, NEW w \in Workers, NEW S \in SUBSET {r \in Rows : Claimable(r)},
         ClaimSql(w, S), ClearMarker(S), UNCHANGED retries
  PROVE  Columns' /\ \A q \in Rows : Stays(q) \/ Claimed(q)
<1>1. /\ status' = [x \in Rows |-> IF x \in S THEN "SENDING" ELSE status[x]]
      /\ lockedBy' = [x \in Rows |-> IF x \in S THEN w ELSE lockedBy[x]]
      /\ attempts' = [x \in Rows |-> IF x \in S THEN attempts[x] + 1 ELSE attempts[x]]
      /\ marker' = [x \in Rows |-> IF x \in S THEN FALSE ELSE marker[x]]
  BY ConstantFacts DEF ClaimSql, ClearMarker, Set
<1>2. \A x \in S : status[x] = "QUEUED" /\ attempts[x] <= RetryLimit(x)
  BY DEF Claimable
<1>3. Columns'
  <2>1. status' \in [Rows -> Statuses] /\ marker' \in [Rows -> BOOLEAN]
    BY <1>1 DEF Columns, Statuses
  <2>2. attempts' \in [Rows -> Nat] /\ retries' \in [Rows -> Nat]
    BY <1>1 DEF Columns
  <2>3. lockedBy' \in [Rows -> Owners \cup {Nobody}]
    BY <1>1 DEF Columns, Owners
  <2>4. QED BY <2>1, <2>2, <2>3 DEF Columns
<1>4. \A q \in Rows : Stays(q) \/ Claimed(q)
  BY <1>1, <1>2 DEF Stays, SameRow, Claimed, Columns
<1>5. QED BY <1>3, <1>4

LEMMA ParkMoves ==
  ASSUME Columns, RecoverUncertain
  PROVE  Columns' /\ \A q \in Rows : Stays(q) \/ Ended(q)
<1> DEFINE hit == {q \in {r \in Rows : MustPark(r)} : Stale(q)}
<1>1. /\ status' = [x \in Rows |-> IF x \in hit THEN "UNCERTAIN" ELSE status[x]]
      /\ lockedBy' = [x \in Rows |-> IF x \in hit THEN Nobody ELSE lockedBy[x]]
      /\ UNCHANGED <<attempts, retries, marker>>
  BY DEF RecoverUncertain, Recover, RecoverSql, Set, ClearLease, emailVars
<1>2. \A x \in hit : status[x] = "SENDING"
  BY ConstantFacts DEF Stale, Leased
<1> HIDE DEF hit
<1>3. QED BY <1>1, <1>2 DEF Columns, Statuses, Stays, SameRow, Ended, Freed

LEMMA RecoverMoves ==
  ASSUME Columns, NEW S \in SUBSET {r \in Rows : ~MustPark(r)}, NEW to \in {"QUEUED", "FAILED"}, NEW d,
         to = "QUEUED" => \A r \in S : ~Exhausted(r),
         Recover(S, to, d), CountRetry(S)
  PROVE  Columns' /\ \A q \in Rows : Stays(q) \/ Charged(q)
<1> DEFINE hit == {q \in S : Stale(q)}
<1>1. /\ status' = [x \in Rows |-> IF x \in hit THEN to ELSE status[x]]
      /\ lockedBy' = [x \in Rows |-> IF x \in hit THEN Nobody ELSE lockedBy[x]]
      /\ retries' = [x \in Rows |-> IF x \in hit THEN retries[x] + 1 ELSE retries[x]]
      /\ UNCHANGED <<attempts, marker>>
  BY DEF Recover, RecoverSql, Set, ClearLease, CountRetry
<1>2. \A x \in hit : status[x] = "SENDING" /\ ~MustPark(x)
  BY ConstantFacts DEF Stale, Leased
<1>3. to = "QUEUED" => \A x \in hit : retries[x] < RetryLimit(x)
  BY Limits DEF Exhausted, Columns
<1> HIDE DEF hit
<1>4. Columns'
  BY <1>1 DEF Columns, Statuses, Reopened
<1>5. \A q \in Rows : Stays(q) \/ Charged(q)
  BY <1>1, <1>2, <1>3 DEF Stays, SameRow, Charged, Freed, MayReopen, Columns
<1>6. QED BY <1>4, <1>5

-----------------------------------------------------------------------------
(* Every step, row by row *)

(* The write of a worker: what it knows at "complete" or "fail" decides    *)
LEMMA OutcomeMoves ==
  ASSUME Inv, NEW w \in Workers, NEW r \in Rows, stage[w][r] = "complete", NEW d,
         FinishSql(w, r, SettleWrite(w, r).to, d), ChargeRetry(w, r, SettleWrite(w, r).cost),
         marker' = marker
  PROVE  Columns' /\ \A q \in Rows : Moves(q)
<1> DEFINE to == SettleWrite(w, r).to
           n == SettleWrite(w, r).cost
<1>0. Columns /\ w \in Owners /\ send[w][r] \in {"none", "broken"} \cup Outcomes
      /\ (send[w][r] = "accepted" => delivered[r] > 0)
  BY DEF Inv, Shape, Owners, MemoryOK
<1>1. \/ to = "SKIPPED" /\ n = 0 /\ send[w][r] = "none"
      \/ to = "SENT" /\ n = 0 /\ send[w][r] = "accepted"
      \/ to = "UNCERTAIN" /\ n = 0
      \/ /\ to \in {"QUEUED", "FAILED"} /\ n = 1 /\ send[w][r] \notin {"accepted", "ambiguous"}
         /\ to = "QUEUED" => RetriesLeft(r)
  BY <1>0 DEF SettleWrite, Failed, Parked, Outcomes
<1>2. to \in Statuses /\ n \in {0, 1}
  BY <1>1 DEF Statuses, Reopened, Reports
<1>3. /\ Columns'
      /\ \A q \in Rows : ~(q = r /\ Owned(w, q)) => Stays(q)
      /\ Owned(w, r) =>
           /\ Freed(r) /\ lockedBy[r] = w /\ status'[r] = to
           /\ attempts'[r] = attempts[r] /\ retries'[r] = retries[r] + n
  <2> HIDE DEF to, n
  <2> QED BY <1>0, <1>2, FinishMoves DEF to, n
<1> HIDE DEF to, n
<1>4. ASSUME Owned(w, r) PROVE Moves(r)
  <2>1. ~AtCall(w, r) /\ (send[w][r] \notin {"accepted", "ambiguous"} => ~Called(w, r))
    BY DEF AtCall, Called
  <2>2. send[w][r] \notin {"accepted", "ambiguous"} => MayReopen(r)
    BY <1>0, <1>3, <1>4, <2>1 DEF MayReopen
  <2>3. CASE n = 0
    BY <1>0, <1>1, <1>3, <1>4, <2>2, <2>3 DEF Moves, Ended, Columns
  <2>4. CASE n = 1
    BY <1>1, <1>3, <1>4, <2>2, <2>4 DEF Moves, Charged, RetriesLeft
  <2>5. QED BY <1>2, <2>3, <2>4
<1>5. QED BY <1>3, <1>4 DEF Moves

LEMMA FailMoves ==
  ASSUME Inv, NEW w \in Workers, NEW r \in Rows, stage[w][r] = "fail", NEW d,
         FinishSql(w, r, Failed(r).to, d), ChargeRetry(w, r, 1), marker' = marker
  PROVE  Columns' /\ \A q \in Rows : Moves(q)
<1> DEFINE to == Failed(r).to
<1>0. Columns /\ w \in Owners
  BY DEF Inv, Shape, Owners
<1>1. to \in {"QUEUED", "FAILED"} /\ (to = "QUEUED" => RetriesLeft(r))
  BY DEF Failed
<1>2. to \in Statuses
  BY <1>1 DEF Statuses, Reopened
<1>3. /\ Columns'
      /\ \A q \in Rows : ~(q = r /\ Owned(w, q)) => Stays(q)
      /\ Owned(w, r) =>
           /\ Freed(r) /\ lockedBy[r] = w /\ status'[r] = to
           /\ attempts'[r] = attempts[r] /\ retries'[r] = retries[r] + 1
  <2> HIDE DEF to
  <2> QED BY <1>0, <1>2, FinishMoves DEF to
<1> HIDE DEF to
<1>4. ASSUME Owned(w, r) PROVE Moves(r)
  <2>1. ~AtCall(w, r) /\ ~Called(w, r)
    BY DEF AtCall, Called
  <2>2. MayReopen(r)
    BY <1>0, <1>3, <1>4, <2>1 DEF MayReopen
  <2>3. QED
    BY <1>1, <1>3, <1>4, <2>2 DEF Moves, Charged, RetriesLeft
<1>5. QED BY <1>3, <1>4 DEF Moves

LEMMA SettleNowMoves ==
  ASSUME Inv, NEW r \in Rows, SettleNow(r)
  PROVE  Columns' /\ \A q \in Rows : Moves(q)
<1> DEFINE to == NowStatus(r)
           n == IF now[r] = "rejected" THEN 1 ELSE 0
<1>0. Columns /\ Api \in Owners /\ Api \notin Workers /\ now[r] \in Outcomes
      /\ (now[r] = "accepted" => delivered[r] > 0)
  BY ConstantFacts DEF Inv, Shape, Owners, NowOK, SettleNow
<1>1. \/ to = "SENT" /\ n = 0 /\ now[r] = "accepted"
      \/ to = "FAILED" /\ n = 1 /\ now[r] = "rejected"
      \/ to = "UNCERTAIN" /\ n = 0
  BY <1>0 DEF NowStatus
<1>2. to \in Statuses /\ n \in {0, 1}
  BY <1>1 DEF Statuses, Reopened, Reports
<1>3. FinishSql(Api, r, to, TRUE) /\ ChargeRetry(Api, r, n) /\ marker' = marker
  BY DEF SettleNow
<1> HIDE DEF to, n
<1>4. /\ Columns'
      /\ \A q \in Rows : ~(q = r /\ Owned(Api, q)) => Stays(q)
      /\ Owned(Api, r) =>
           /\ Freed(r) /\ lockedBy[r] = Api /\ status'[r] = to
           /\ attempts'[r] = attempts[r] /\ retries'[r] = retries[r] + n
  BY <1>0, <1>2, <1>3, FinishMoves
<1>5. ASSUME Owned(Api, r) PROVE Moves(r)
  <2>1. CASE n = 0
    BY <1>0, <1>1, <1>4, <1>5, <2>1 DEF Moves, Ended, Columns
  <2>2. CASE n = 1
    <3>1. now[r] = "rejected" /\ to = "FAILED"
      BY <1>1, <2>2
    <3>2. ~AtCall(Api, r) /\ ~Called(Api, r)
      BY <1>0, <3>1 DEF AtCall, Called
    <3>3. MayReopen(r)
      BY <1>0, <1>4, <1>5, <3>2 DEF MayReopen
    <3>4. QED BY <1>4, <1>5, <2>2, <3>1, <3>3 DEF Moves, Charged
  <2>3. QED BY <1>2, <2>1, <2>2
<1>6. QED BY <1>4, <1>5 DEF Moves

(* Whatever happens, each row moves in one of these ways *)
LEMMA EveryRowMoves ==
  ASSUME Inv, [Next]_vars
  PROVE  Columns' /\ \A q \in Rows : Moves(q)
<1>0. Columns /\ Outside
  BY DEF Inv, Shape
<1>1. ASSUME UNCHANGED <<leaseVars, retries, marker>>
      PROVE  Columns' /\ \A q \in Rows : Moves(q)
  BY <1>0, <1>1, NothingMoves DEF leaseVars, Moves
<1>2. ASSUME NEW w, NEW S, RenewSql(w, S), UNCHANGED <<retries, marker>>
      PROVE  Columns' /\ \A q \in Rows : Moves(q)
  BY <1>0, <1>2, RenewMoves DEF Moves
<1>3. CASE UNCHANGED vars
  BY <1>1, <1>3 DEF vars, emailVars
<1>4. ASSUME NEW r \in Rows,
             \/ Enqueue(r) \/ Clock(r)
             \/ SendNow(r) \/ CallNow(r) \/ SettleNow(r) \/ AbandonNow(r)
             \/ \E h \in hook[r] : WebhookWrite(r, h)
      PROVE  Columns' /\ \A q \in Rows : Moves(q)
  <2>1. CASE Enqueue(r)
    <3>1. Columns'
      BY <1>0, <2>1 DEF Enqueue, emailVars, Columns, Statuses, Reopened
    <3>2. \A q \in Rows : Stays(q) \/ Born(q)
      BY <1>0, <2>1 DEF Enqueue, emailVars, Columns, Stays, SameRow, Born
    <3>3. QED BY <3>1, <3>2 DEF Moves
  <2>2. CASE Clock(r)
    <3>1. UNCHANGED <<status, attempts, lockedBy, retries, marker>>
      BY <2>2 DEF Clock, LeaseRunsOut, BecomesDue, emailVars
    <3>2. QED BY <1>0, <3>1, NothingMoves DEF Moves
  <2>3. CASE SendNow(r)
    <3>1. Columns'
      BY <1>0, <2>3 DEF SendNow, Columns, Statuses, Owners
    <3>2. \A q \in Rows : Stays(q) \/ BornLeased(q)
      BY <1>0, <2>3 DEF SendNow, Columns, Outside, Stays, SameRow, BornLeased
    <3>3. QED BY <3>1, <3>2 DEF Moves
  <2>4. CASE CallNow(r) \/ AbandonNow(r)
    BY <1>1, <2>4 DEF CallNow, AbandonNow
  <2>5. CASE SettleNow(r)
    BY <2>5, SettleNowMoves
  <2>6. CASE \E h \in hook[r] : WebhookWrite(r, h)
    <3>1. PICK h \in hook[r] : WebhookWrite(r, h)
      BY <2>6
    <3>2. h.to \in Statuses
      BY <1>0 DEF Outside, Statuses
    <3>3. status' = status \/ (status' = [status EXCEPT ![r] = h.to] /\ status[r] = h.seen)
      BY <3>1 DEF WebhookWrite
    <3>4. UNCHANGED <<attempts, lockedBy, retries, marker>>
      BY <3>1 DEF WebhookWrite
    <3>5. Columns'
      BY <1>0, <3>2, <3>3, <3>4 DEF Columns
    <3>6. \A q \in Rows : Stays(q) \/ Reported(q)
      BY <1>0, <3>3, <3>4 DEF Columns, Stays, SameRow, Reported
    <3>7. QED BY <3>5, <3>6 DEF Moves
  <2>7. QED BY <1>4, <2>1, <2>2, <2>3, <2>4, <2>5, <2>6
<1>5. ASSUME NEW r \in Rows, NEW event \in Webhooks, WebhookRead(r, event)
      PROVE  Columns' /\ \A q \in Rows : Moves(q)
  BY <1>1, <1>5 DEF WebhookRead
<1>6. ASSUME NEW r \in Rows, NEW copy \in Rows, Resend(r, copy)
      PROVE  Columns' /\ \A q \in Rows : Moves(q)
  <2>1. copy \notin SendNowRows
    BY <1>6, ConstantFacts DEF Resend
  <2>2. Columns'
    BY <1>0, <1>6 DEF Resend, Columns, Statuses, Reopened
  <2>3. \A q \in Rows : Stays(q) \/ Born(q)
    BY <1>0, <1>6, <2>1 DEF Resend, Columns, Stays, SameRow, Born
  <2>4. QED BY <2>2, <2>3 DEF Moves
<1>7. ASSUME NEW w \in Workers,
             Claim(w) \/ ClaimLost(w) \/ RunStep(w) \/ CloseBatch(w) \/ CloseBatchError(w)
      PROVE  Columns' /\ \A q \in Rows : Moves(q)
  <2>1. CASE Claim(w) \/ ClaimLost(w)
    <3>1. PICK S \in SUBSET {r \in Rows : Claimable(r)} : ClaimSql(w, S) /\ ClearMarker(S)
      BY <2>1 DEF Claim, ClaimLost, OpenBatch, ClaimAnswerLost
    <3>2. UNCHANGED retries
      BY <2>1 DEF Claim, ClaimLost
    <3>3. QED BY <1>0, <3>1, <3>2, ClaimMoves DEF Moves
  <2>2. CASE RunStep(w)
    <3>1. UNCHANGED leaseVars \/ RenewSql(w, unfinished[w])
      BY <2>2 DEF RunStep, Load, LoadError, Beat, BeatAnswer, BeatError, LanesEnd, Timeout,
                  NextTick, Shutdown, Crash
    <3>2. UNCHANGED <<retries, marker>>
      BY <2>2 DEF RunStep, emailVars
    <3>3. QED BY <1>1, <1>2, <3>1, <3>2
  <2>3. CASE CloseBatch(w) \/ CloseBatchError(w)
    <3>1. \/ UNCHANGED leaseVars
          \/ ReleaseSql(w, unfinished[w] \cap Releasable, [r \in Rows |-> "QUEUED"])
      BY <2>3 DEF CloseBatch, CloseBatchError, Close, CloseError
    <3>2. UNCHANGED <<retries, marker>>
      BY <2>3 DEF CloseBatch, CloseBatchError, emailVars
    <3>3. unfinished[w] \in SUBSET Rows
      BY DEF Inv, Shape, MemoryShape
    <3>4. QED BY <1>0, <1>1, <3>1, <3>2, <3>3, ReleaseMoves DEF Moves
  <2>4. QED BY <1>7, <2>1, <2>2, <2>3
<1>8. ASSUME NEW w \in Workers, NEW r \in Rows,
             \/ RowStep(w, r) \/ BeginHandler(w, r)
             \/ Skip(w, r) \/ BreakBeforeSend(w, r) \/ LeaseLostBeforeSend(w, r)
             \/ Mark(w, r) \/ MarkError(w, r) \/ CallProvider(w, r)
             \/ CompleteRow(w, r) \/ CompleteRowError(w, r)
             \/ OutcomeNotWritten(w, r) \/ RetryOutcomeWrite(w, r)
             \/ FailRow(w, r) \/ FailRowError(w, r)
      PROVE  Columns' /\ \A q \in Rows : Moves(q)
  <2>1. CASE RowStep(w, r)
    <3>1. UNCHANGED leaseVars \/ RenewSql(w, {r})
      BY <2>1 DEF RowStep, Start, Confirm, ConfirmError, MaybeCommitted
    <3>2. QED BY <1>1, <1>2, <2>1, <3>1 DEF RowStep, emailVars
  <2>2. CASE \/ BeginHandler(w, r) \/ Skip(w, r) \/ BreakBeforeSend(w, r)
             \/ LeaseLostBeforeSend(w, r) \/ CallProvider(w, r)
    BY <1>1, <2>2 DEF BeginHandler, Begin, Skip, BreakBeforeSend, LeaseLostBeforeSend,
                      CallProvider, Return, Throw, emailVars
  <2>3. CASE Mark(w, r) \/ MarkError(w, r)
    BY <1>0, <2>3, MarkMoves DEF Mark, MarkError, Moves
  <2>4. CASE \/ CompleteRow(w, r) \/ CompleteRowError(w, r)
             \/ OutcomeNotWritten(w, r) \/ RetryOutcomeWrite(w, r)
    <3>1. stage[w][r] = "complete" /\ UNCHANGED marker
      BY <2>4 DEF CompleteRow, CompleteRowError, OutcomeNotWritten, RetryOutcomeWrite, Complete,
                  emailVars
    <3>2. CASE UNCHANGED leaseVars /\ UNCHANGED retries
      BY <1>1, <3>1, <3>2
    <3>3. CASE /\ FinishSql(w, r, SettleWrite(w, r).to, SettleWrite(w, r).due)
               /\ ChargeRetry(w, r, SettleWrite(w, r).cost)
      BY <3>1, <3>3, OutcomeMoves
    <3>4. CASE RetryOutcomeWrite(w, r)
      <4>1. SettleWrite(w, r).cost = 0
        BY <3>4 DEF RetryOutcomeWrite, SettleWrite
      <4>2. ChargeRetry(w, r, 0)
        BY <1>0, <3>4 DEF RetryOutcomeWrite, emailVars, ChargeRetry, Columns
      <4>3. FinishSql(w, r, SettleWrite(w, r).to, SettleWrite(w, r).due)
        BY <3>4 DEF RetryOutcomeWrite
      <4>4. QED BY <3>3, <4>1, <4>2, <4>3
    <3>5. QED BY <2>4, <3>2, <3>3, <3>4 DEF CompleteRow, CompleteRowError, OutcomeNotWritten, Complete
  <2>5. CASE FailRow(w, r) \/ FailRowError(w, r)
    <3>1. stage[w][r] = "fail" /\ UNCHANGED marker
      BY <2>5 DEF FailRow, FailRowError, Fail
    <3>2. \/ UNCHANGED leaseVars /\ UNCHANGED retries
          \/ FinishSql(w, r, Failed(r).to, Failed(r).due) /\ ChargeRetry(w, r, 1)
      BY <2>5 DEF FailRow, FailRowError, Fail
    <3>3. QED BY <1>1, <3>1, <3>2, FailMoves
  <2>6. QED BY <1>8, <2>1, <2>2, <2>3, <2>4, <2>5
<1>9. CASE RecoverUncertain
  BY <1>0, <1>9, ParkMoves DEF Moves
<1>10. CASE RecoverRequeue
  <2>1. Retriable \in SUBSET {r \in Rows : ~MustPark(r)} /\ \A r \in Retriable : ~Exhausted(r)
    BY DEF Retriable
  <2>2. QED BY <1>0, <1>10, <2>1, RecoverMoves DEF RecoverRequeue, Moves
<1>11. CASE RecoverDead
  <2>1. Dead \in SUBSET {r \in Rows : ~MustPark(r)}
    BY DEF Dead
  <2>2. QED BY <1>0, <1>11, <2>1, RecoverMoves DEF RecoverDead, Moves
<1>12. QED
  BY <1>3, <1>4, <1>5, <1>6, <1>7, <1>8, <1>9, <1>10, <1>11 DEF Next

-----------------------------------------------------------------------------
(* The workers' memory *)

Memory == MemoryShape /\ \A w \in Workers, r \in Rows : MemoryOK(w, r)

(* The step brings nobody to the call, and the owner of a leased row that  *)
(* knows of the call still does.                                           *)
Keeps(w, r) ==
  /\ AtCall(w, r)' => AtCall(w, r)
  /\ status[r] = "SENDING" /\ Called(w, r) => Called(w, r)'

KeepAll == \A w \in Workers, r \in Rows : Keeps(w, r)

Grow == \A r \in Rows : delivered[r] > 0 => delivered'[r] > 0

LEMMA NothingKeeps ==
  ASSUME Memory, Grow, UNCHANGED <<phase, unfinished, stage, send>>
  PROVE  Memory' /\ KeepAll
BY DEF Memory, MemoryShape, MemoryOK, KeepAll, Keeps, AtCall, Called, Grow

(* A row of the batch goes on, or is forgotten *)
LEMMA RowKeeps ==
  ASSUME Memory, Grow, NEW w \in Workers, NEW r \in Rows, NEW s \in Stages, NEW t \in Sends,
         phase' = phase, phase[w] = "lanes", stage[w][r] # "out",
         stage' = [stage EXCEPT ![w][r] = s], send' = [send EXCEPT ![w][r] = t],
         unfinished' = [unfinished EXCEPT ![w] = @ \ {r}] \/ unfinished' = unfinished,
         s = "handle" => t \in {"none", "marked"},
         s = "complete" => t \in {"none", "broken"} \cup Outcomes,
         t = "accepted" => delivered'[r] > 0
  PROVE  /\ Memory'
         /\ \A v \in Workers, q \in Rows : v # w \/ q # r => Keeps(v, q)
         /\ (s # "handle" \/ t # "marked") /\ (Called(w, r) => s = "out") => KeepAll
<1>1. /\ \A v \in Workers, q \in Rows : v # w \/ q # r => stage'[v][q] = stage[v][q] /\ send'[v][q] = send[v][q]
      /\ stage'[w][r] = s /\ send'[w][r] = t
      /\ \A v \in Workers : unfinished'[v] \subseteq unfinished[v]
  BY DEF Memory, MemoryShape
<1>2. MemoryShape'
  BY DEF Memory, MemoryShape
<1>3. r \notin SendNowRows
  BY DEF Memory, MemoryOK
<1>4. ASSUME NEW v \in Workers, NEW q \in Rows PROVE MemoryOK(v, q)'
  <2>1. MemoryOK(v, q)
    BY DEF Memory
  <2>2. CASE v # w \/ q # r
    BY <1>1, <2>1, <2>2 DEF MemoryOK, Grow
  <2>3. CASE v = w /\ q = r
    BY <1>1, <1>3, <2>3 DEF MemoryOK
  <2>4. QED BY <2>2, <2>3
<1>5. ASSUME NEW v \in Workers, NEW q \in Rows, v # w \/ q # r PROVE Keeps(v, q)
  BY <1>1, <1>5 DEF Keeps, AtCall, Called
<1>6. ASSUME s # "handle" \/ t # "marked", Called(w, r) => s = "out" PROVE KeepAll
  <2>1. Keeps(w, r)
    BY <1>1, <1>6 DEF Keeps, AtCall, Called
  <2>2. QED BY <1>5, <2>1 DEF KeepAll
<1>7. QED BY <1>2, <1>4, <1>5, <1>6 DEF Memory

(* Steps of a whole batch, which never begin a row *)
LEMMA BatchKeeps ==
  ASSUME Memory, Grow, NEW w \in Workers, UNCHANGED send, MemoryShape',
         \A v \in Workers \ {w} :
            phase'[v] = phase[v] /\ unfinished'[v] = unfinished[v] /\ stage'[v] = stage[v],
         \A q \in Rows :
            /\ stage'[w][q] \in {"out", "waiting"} \/ stage'[w][q] = stage[w][q]
            /\ stage'[w][q] \in Running => phase'[w] = "lanes"
            /\ stage'[w][q] # "out" => phase'[w] \in {"lanes", "closing"} /\ q \notin SendNowRows
            /\ q \in unfinished'[w] => q \notin SendNowRows
            /\ status[q] = "SENDING" /\ Called(w, q) => Called(w, q)'
  PROVE  Memory' /\ KeepAll
<1>1. ASSUME NEW v \in Workers, NEW q \in Rows PROVE MemoryOK(v, q)' /\ Keeps(v, q)
  <2>1. MemoryOK(v, q)
    BY DEF Memory
  <2>2. CASE v = w
    BY <2>1, <2>2 DEF MemoryOK, Keeps, AtCall, Grow
  <2>3. CASE v # w
    BY <2>1, <2>3 DEF MemoryOK, Keeps, AtCall, Called, Grow
  <2>4. QED BY <2>2, <2>3
<1>2. QED BY <1>1 DEF Memory, KeepAll

LEMMA BatchStepsKeep ==
  ASSUME Inv, Memory, Grow, NEW w \in Workers,
         \/ Claim(w) \/ ClaimLost(w) \/ RunStep(w) \/ CloseBatch(w) \/ CloseBatchError(w)
  PROVE  Memory' /\ KeepAll
<1>0. /\ MemoryShape /\ \A q \in Rows : MemoryOK(w, q)
      /\ \A q \in Rows : status[q] = "QUEUED" => q \notin SendNowRows
  BY DEF Memory, Inv, RowOK
<1>1. UNCHANGED send
  BY DEF Claim, ClaimLost, RunStep, CloseBatch, CloseBatchError, emailVars
<1>2. CASE Claim(w)
  <2>1. PICK S \in SUBSET {r \in Rows : Claimable(r)} : OpenBatch(w, S)
    BY <1>2 DEF Claim
  <2>2. /\ phase[w] = "idle" /\ phase' = [phase EXCEPT ![w] = "load"]
        /\ unfinished' = [unfinished EXCEPT ![w] = S] /\ stage' = stage
    BY <2>1 DEF OpenBatch
  <2>3. \A q \in S : q \in Rows /\ status[q] = "QUEUED"
    BY DEF Claimable
  <2>4. MemoryShape'
    BY <1>0, <1>1, <2>2, <2>3 DEF MemoryShape, Phases
  <2>5. \A q \in Rows : stage[w][q] = "out"
    BY <1>0, <2>2 DEF MemoryOK
  <2>6. phase'[w] = "load" /\ unfinished'[w] = S
    BY <1>0, <2>2 DEF MemoryShape
  <2>7. \A q \in Rows : status[q] = "SENDING" => Called(w, q)'
    BY <2>2, <2>3, <2>5, <2>6 DEF Called
  <2>8. \A v \in Workers \ {w} :
            phase'[v] = phase[v] /\ unfinished'[v] = unfinished[v] /\ stage'[v] = stage[v]
    BY <1>0, <2>2 DEF MemoryShape
  <2>9. QED
    BY <1>0, <1>1, <2>2, <2>3, <2>4, <2>5, <2>6, <2>7, <2>8, BatchKeeps DEF Running
<1>3. CASE ClaimLost(w)
  <2>1. UNCHANGED <<phase, unfinished, stage>>
    BY <1>3 DEF ClaimLost, ClaimAnswerLost, batchVars
  <2>2. QED BY <1>1, <2>1, NothingKeeps
<1>4. CASE RunStep(w) /\ Load(w)
  <2> DEFINE loaded == OwnedOf(w, unfinished[w])
  <2>1. /\ phase[w] = "load" /\ phase' = [phase EXCEPT ![w] = "lanes"]
        /\ unfinished' = [unfinished EXCEPT ![w] = loaded]
        /\ stage' = [stage EXCEPT ![w] = [r \in Rows |-> IF r \in loaded THEN "waiting" ELSE "out"]]
    BY <1>4 DEF Load
  <2>2. loaded \subseteq unfinished[w] /\ unfinished[w] \subseteq Rows
    BY <1>0 DEF OwnedOf, MemoryShape
  <2> HIDE DEF loaded
  <2>3. MemoryShape'
    BY <1>0, <1>1, <2>1, <2>2 DEF MemoryShape, Phases, Stages
  <2>4. /\ phase'[w] = "lanes" /\ unfinished'[w] = loaded
        /\ \A q \in Rows : stage'[w][q] = IF q \in loaded THEN "waiting" ELSE "out"
    BY <1>0, <2>1 DEF MemoryShape
  <2>5. \A q \in Rows : Called(w, q) => q \notin unfinished[w]
    BY <1>0, <2>1 DEF MemoryOK, Called, Running
  <2>6. \A q \in Rows : Called(w, q) => Called(w, q)'
    BY <2>2, <2>4, <2>5 DEF Called
  <2>7. \A q \in loaded : q \notin SendNowRows
    BY <1>0, <2>2 DEF MemoryOK
  <2>8. \A v \in Workers \ {w} :
            phase'[v] = phase[v] /\ unfinished'[v] = unfinished[v] /\ stage'[v] = stage[v]
    BY <1>0, <2>1 DEF MemoryShape
  <2>9. QED
    BY <1>1, <2>3, <2>4, <2>6, <2>7, <2>8, BatchKeeps DEF Running
<1>5. CASE RunStep(w) /\ (LoadError(w) \/ LanesEnd(w))
  <2>1. /\ phase[w] \in {"load", "lanes"} /\ phase' = [phase EXCEPT ![w] = "closing"]
        /\ UNCHANGED <<unfinished, stage>>
    BY <1>5 DEF LoadError, LanesEnd
  <2>2. \A q \in Rows : stage[w][q] \notin Running
    <3>1. CASE LoadError(w)
      BY <1>0, <3>1 DEF LoadError, MemoryOK, Running
    <3>2. CASE LanesEnd(w)
      BY <3>2 DEF LanesEnd, RunningRows
    <3>3. QED BY <1>5, <3>1, <3>2
  <2>3. MemoryShape'
    BY <1>0, <1>1, <2>1 DEF MemoryShape, Phases
  <2>4. phase'[w] = "closing" /\ \A v \in Workers \ {w} : phase'[v] = phase[v]
    BY <1>0, <2>1 DEF MemoryShape
  <2>5. \A q \in Rows : Called(w, q) => Called(w, q)'
    BY <1>1, <2>1, <2>4 DEF Called
  <2>6. QED
    BY <1>0, <1>1, <2>1, <2>2, <2>3, <2>4, <2>5, BatchKeeps DEF MemoryOK
<1>6. CASE RunStep(w) /\ (Beat(w) \/ BeatError(w) \/ Timeout(w) \/ NextTick(w) \/ Shutdown(w))
  BY <1>1, <1>6, NothingKeeps DEF Beat, BeatError, Timeout, NextTick, Shutdown
<1>7. CASE RunStep(w) /\ BeatAnswer(w)
  <2>1. /\ UNCHANGED <<phase, stage>>
        /\ unfinished' = [unfinished EXCEPT ![w] = @ \ (missing[w] \ RunningRows(w))]
    BY <1>7 DEF BeatAnswer
  <2>2. MemoryShape' /\ unfinished'[w] \subseteq unfinished[w]
        /\ \A v \in Workers \ {w} : unfinished'[v] = unfinished[v]
    BY <1>0, <1>1, <2>1 DEF MemoryShape
  <2>3. \A q \in Rows : Called(w, q) => Called(w, q)'
    BY <1>1, <2>1, <2>2 DEF Called
  <2>4. QED
    BY <1>0, <1>1, <2>1, <2>2, <2>3, BatchKeeps DEF MemoryOK
<1>8. ASSUME NEW p \in {"idle", "dead"}, phase' = [phase EXCEPT ![w] = p], Forget(w)
      PROVE  Memory' /\ KeepAll
  <2>1. MemoryShape'
    BY <1>0, <1>1, <1>8 DEF MemoryShape, Forget, Phases, Stages
  <2>2. /\ phase'[w] = p /\ unfinished'[w] = {} /\ \A q \in Rows : stage'[w][q] = "out"
        /\ \A v \in Workers \ {w} :
             phase'[v] = phase[v] /\ unfinished'[v] = unfinished[v] /\ stage'[v] = stage[v]
    BY <1>0, <1>8 DEF MemoryShape, Forget
  <2>3. \A q \in Rows : Called(w, q)'
    BY <2>2 DEF Called
  <2>4. QED
    BY <1>1, <2>1, <2>2, <2>3, BatchKeeps DEF Running
<1>9. CASE RunStep(w) /\ Crash(w)
  BY <1>8, <1>9 DEF Crash
<1>10. CASE CloseBatch(w) \/ CloseBatchError(w)
  BY <1>8, <1>10 DEF CloseBatch, CloseBatchError, Close, CloseError
<1>11. QED
  BY <1>2, <1>3, <1>4, <1>5, <1>6, <1>7, <1>9, <1>10 DEF RunStep

(* Where runLeased's catch leaves the row *)
LEMMA CatchSteps ==
  ASSUME NEW w \in Workers, NEW r \in Rows, Catch(w, r) \/ Settle(w, r)
  PROVE  /\ \E s \in {"out", "halted", "fail"} : stage' = [stage EXCEPT ![w][r] = s]
         /\ unfinished' = [unfinished EXCEPT ![w] = @ \ {r}] \/ unfinished' = unfinished
BY DEF Catch, Settle, Leave

(* A lane's move of its row that neither begins the handler nor ends it *)
LEMMA RowMoves ==
  ASSUME Memory, Grow, NEW w \in Workers, NEW r \in Rows,
         NEW s \in Stages \ {"handle", "complete"}, NEW t \in Sends,
         phase' = phase, phase[w] = "lanes", stage[w][r] # "out",
         stage' = [stage EXCEPT ![w][r] = s], send' = [send EXCEPT ![w][r] = t],
         unfinished' = [unfinished EXCEPT ![w] = @ \ {r}] \/ unfinished' = unfinished,
         t = "accepted" => delivered'[r] > 0, Called(w, r) => s = "out"
  PROVE  Memory' /\ KeepAll
<1>1. s \in Stages /\ s # "handle" /\ s # "complete"
  OBVIOUS
<1>2. QED BY <1>1, RowKeeps

LEMMA RowStepsKeep ==
  ASSUME Inv, Memory, Grow, NEW w \in Workers, NEW r \in Rows,
         \/ RowStep(w, r) \/ BeginHandler(w, r)
         \/ Skip(w, r) \/ BreakBeforeSend(w, r) \/ LeaseLostBeforeSend(w, r) \/ MarkError(w, r)
         \/ CompleteRow(w, r) \/ CompleteRowError(w, r)
         \/ OutcomeNotWritten(w, r) \/ RetryOutcomeWrite(w, r)
         \/ FailRow(w, r) \/ FailRowError(w, r)
  PROVE  Memory' /\ KeepAll
<1>0. MemoryShape /\ MemoryOK(w, r) /\ stage[w][r] \in Stages /\ send[w][r] \in Sends
  BY DEF Memory, MemoryShape
<1>1. send = [send EXCEPT ![w][r] = send[w][r]] /\ stage = [stage EXCEPT ![w][r] = stage[w][r]]
  BY <1>0 DEF MemoryShape
<1>2. stage[w][r] \in Running => phase[w] = "lanes" /\ stage[w][r] # "out"
  BY <1>0 DEF MemoryOK, Running
<1>3. CASE RowStep(w, r)
  <2>1. UNCHANGED <<phase, send>>
    BY <1>3 DEF RowStep, emailVars, Start, Confirm, ConfirmError
  <2>2. phase[w] = "lanes" /\ stage[w][r] \in {"waiting", "confirm"}
    BY <1>2, <1>3 DEF RowStep, Start, Confirm, ConfirmError, Running
  <2>3. PICK s \in {"confirm", "confirmed", "out"} : stage' = [stage EXCEPT ![w][r] = s]
    BY <1>3 DEF RowStep, Start, Confirm, ConfirmError, Settle, Leave
  <2>4. unfinished' = [unfinished EXCEPT ![w] = @ \ {r}] \/ unfinished' = unfinished
    BY <1>3 DEF RowStep, Start, Confirm, ConfirmError, Settle, Leave
  <2>5. ~Called(w, r) /\ stage[w][r] # "out" /\ s \in Stages
    BY <2>2 DEF Called, Stages, Running
  <2>6. send[w][r] = "accepted" => delivered'[r] > 0
    BY <1>0 DEF MemoryOK, Grow
  <2>7. PICK t \in Sends : t = send[w][r]
    BY <1>0
  <2>8. send' = [send EXCEPT ![w][r] = t] /\ phase' = phase
    BY <1>1, <2>1, <2>7
  <2>9. s \in Stages \ {"handle", "complete"} /\ phase[w] = "lanes" /\ (t = "accepted" => delivered'[r] > 0)
    BY <2>2, <2>5, <2>6, <2>7
  <2>10. QED BY <2>3, <2>4, <2>5, <2>8, <2>9, RowMoves
<1>4. CASE BeginHandler(w, r)
  <2>1. stage[w][r] = "confirmed" /\ UNCHANGED phase /\ send' = [send EXCEPT ![w][r] = "none"]
    BY <1>4 DEF BeginHandler, Begin, SetSend
  <2>2. PICK s \in {"handle", "out"} : stage' = [stage EXCEPT ![w][r] = s]
    BY <1>4 DEF BeginHandler, Begin, Settle, Leave
  <2>3. unfinished' = [unfinished EXCEPT ![w] = @ \ {r}] \/ unfinished' = unfinished
    BY <1>4 DEF BeginHandler, Begin, Settle, Leave
  <2>4. ~Called(w, r) /\ s \in Stages /\ stage[w][r] # "out" /\ phase[w] = "lanes"
    BY <1>2, <2>1 DEF Called, Stages, Running
  <2>5. PICK t \in Sends : t = "none"
    BY DEF Sends
  <2>6. s # "complete" /\ t # "accepted" /\ t # "marked" /\ t \in {"none", "marked"}
    BY <2>2, <2>5
  <2>7. send' = [send EXCEPT ![w][r] = t] /\ phase' = phase
    BY <2>1, <2>5
  <2>8. QED BY <2>2, <2>3, <2>4, <2>6, <2>7, RowKeeps
<1>5. CASE Skip(w, r) \/ BreakBeforeSend(w, r) \/ MarkError(w, r)
  <2>1. stage[w][r] = "handle" /\ send[w][r] = "none" /\ UNCHANGED phase
    BY <1>5 DEF Skip, BreakBeforeSend, MarkError, Return, Throw
  <2>2. PICK s \in {"complete", "out", "halted", "fail"} : stage' = [stage EXCEPT ![w][r] = s]
    BY <1>5, CatchSteps DEF Skip, BreakBeforeSend, MarkError, Return, Throw
  <2>3. PICK t \in {"none", "broken"} : send' = [send EXCEPT ![w][r] = t]
    BY <1>1, <1>5, <2>1 DEF Skip, BreakBeforeSend, MarkError, SetSend, emailVars
  <2>4. unfinished' = [unfinished EXCEPT ![w] = @ \ {r}] \/ unfinished' = unfinished
    BY <1>5, CatchSteps DEF Skip, BreakBeforeSend, MarkError, Return, Throw
  <2>5. ~Called(w, r) /\ s \in Stages /\ t \in Sends /\ phase[w] = "lanes"
    BY <1>2, <2>1 DEF Called, Stages, Running, Sends
  <2>6. QED BY <2>1, <2>2, <2>3, <2>4, <2>5, RowKeeps
<1>6. CASE LeaseLostBeforeSend(w, r)
  <2>1. stage[w][r] = "handle" /\ send[w][r] = "none" /\ UNCHANGED <<phase, send>>
    BY <1>6 DEF LeaseLostBeforeSend, emailVars
  <2>2. PICK s \in {"out"} :
           /\ stage' = [stage EXCEPT ![w][r] = s]
           /\ unfinished' = [unfinished EXCEPT ![w] = @ \ {r}] \/ unfinished' = unfinished
    BY <1>6 DEF LeaseLostBeforeSend, Settle, Leave
  <2>3. ~Called(w, r) /\ s \in Stages /\ phase[w] = "lanes"
    BY <1>2, <2>1 DEF Called, Stages, Running
  <2>4. PICK t \in Sends : t = send[w][r]
    BY <1>0
  <2>5. send' = [send EXCEPT ![w][r] = t] /\ phase' = phase
    BY <1>1, <2>1, <2>4
  <2>6. s \in Stages \ {"handle", "complete"} /\ stage[w][r] # "out" /\ t # "accepted"
    BY <2>1, <2>3, <2>4
  <2>7. QED BY <2>2, <2>3, <2>5, <2>6, RowMoves
<1>7. CASE CompleteRow(w, r) \/ OutcomeNotWritten(w, r)
  <2>1. stage[w][r] = "complete" /\ UNCHANGED phase /\ send' = [send EXCEPT ![w][r] = "none"]
    BY <1>7 DEF CompleteRow, OutcomeNotWritten, Complete, SetSend
  <2>2. PICK s \in {"out"} :
           /\ stage' = [stage EXCEPT ![w][r] = s]
           /\ unfinished' = [unfinished EXCEPT ![w] = @ \ {r}] \/ unfinished' = unfinished
    BY <1>7 DEF CompleteRow, OutcomeNotWritten, Complete, Settle, Leave
  <2>3. PICK t \in Sends : t = "none"
    BY DEF Sends
  <2>4. s \in Stages \ {"handle", "complete"} /\ s = "out" /\ phase[w] = "lanes" /\ stage[w][r] # "out"
        /\ t # "accepted"
    BY <1>2, <2>1, <2>3 DEF Stages, Running
  <2>5. send' = [send EXCEPT ![w][r] = t] /\ phase' = phase
    BY <2>1, <2>3
  <2>6. QED BY <2>2, <2>4, <2>5, RowMoves
<1>8. CASE CompleteRowError(w, r)
  <2>1. /\ stage[w][r] = "complete" /\ send[w][r] \notin Outcomes
        /\ UNCHANGED phase /\ send' = [send EXCEPT ![w][r] = "none"]
    BY <1>8 DEF CompleteRowError, ProviderCalled, SetSend
  <2>2. PICK s \in {"out", "halted", "fail"} : stage' = [stage EXCEPT ![w][r] = s]
    BY <1>8, CatchSteps DEF CompleteRowError
  <2>3. unfinished' = [unfinished EXCEPT ![w] = @ \ {r}] \/ unfinished' = unfinished
    BY <1>8, CatchSteps DEF CompleteRowError
  <2>4. ~Called(w, r)
    BY <2>1 DEF Called, Outcomes
  <2>5. PICK t \in Sends : t = "none"
    BY DEF Sends
  <2>6. s \in Stages /\ phase[w] = "lanes" /\ stage[w][r] # "out"
        /\ s # "handle" /\ s # "complete" /\ t # "accepted"
    BY <1>2, <2>1, <2>5 DEF Stages, Running
  <2>7. send' = [send EXCEPT ![w][r] = t] /\ UNCHANGED phase
    BY <2>1, <2>5
  <2>8. QED BY <2>2, <2>3, <2>4, <2>6, <2>7, RowKeeps
<1>9. CASE RetryOutcomeWrite(w, r)
  BY <1>9, NothingKeeps DEF RetryOutcomeWrite, batchVars, emailVars
<1>10. CASE FailRow(w, r) \/ FailRowError(w, r)
  <2>1. stage[w][r] = "fail" /\ UNCHANGED <<phase, send>>
    BY <1>10 DEF FailRow, FailRowError, Fail
  <2>2. PICK s \in {"out"} :
           /\ stage' = [stage EXCEPT ![w][r] = s]
           /\ unfinished' = [unfinished EXCEPT ![w] = @ \ {r}] \/ unfinished' = unfinished
    BY <1>10 DEF FailRow, FailRowError, Fail, Settle, Leave
  <2>3. ~Called(w, r) /\ s \in Stages /\ phase[w] = "lanes"
    BY <1>2, <2>1 DEF Called, Stages, Running
  <2>4. send[w][r] = "accepted" => delivered'[r] > 0
    BY <1>0 DEF MemoryOK, Grow
  <2>5. PICK t \in Sends : t = send[w][r]
    BY <1>0
  <2>6. send' = [send EXCEPT ![w][r] = t] /\ phase' = phase
    BY <1>1, <2>1, <2>5
  <2>7. s \in Stages \ {"handle", "complete"} /\ stage[w][r] # "out" /\ (t = "accepted" => delivered'[r] > 0)
    BY <2>1, <2>3, <2>4, <2>5
  <2>8. QED BY <2>2, <2>3, <2>6, <2>7, RowMoves
<1>11. QED
  BY <1>3, <1>4, <1>5, <1>6, <1>7, <1>8, <1>9, <1>10

LEMMA MarkKeeps ==
  ASSUME Memory, Grow, NEW w \in Workers, NEW r \in Rows, Mark(w, r)
  PROVE  /\ Memory'
         /\ \A v \in Workers, q \in Rows : v # w \/ q # r => Keeps(v, q)
<1>0. MemoryShape /\ MemoryOK(w, r)
  BY DEF Memory
<1>1. stage[w][r] = "handle" /\ send' = [send EXCEPT ![w][r] = "marked"]
      /\ UNCHANGED <<phase, unfinished, stage>>
  BY DEF Mark, SetSend, workerVars, batchVars
<1>2. PICK s \in Stages, t \in Sends : s = "handle" /\ t = "marked"
  BY DEF Stages, Running, Sends
<1>3. stage' = [stage EXCEPT ![w][r] = s] /\ send' = [send EXCEPT ![w][r] = t]
  BY <1>0, <1>1, <1>2 DEF MemoryShape
<1>4. phase[w] = "lanes" /\ stage[w][r] # "out"
  BY <1>0, <1>1 DEF MemoryOK, Running
<1>5. UNCHANGED phase /\ UNCHANGED unfinished
  BY <1>1
<1>6. QED BY <1>2, <1>3, <1>4, <1>5, RowKeeps

LEMMA CallKeeps ==
  ASSUME Memory, Grow, NEW w \in Workers, NEW r \in Rows, CallProvider(w, r), NEW o \in Outcomes,
         SetSend(w, r, o), o = "accepted" => delivered'[r] > 0
  PROVE  Memory' /\ KeepAll
<1>0. MemoryShape /\ MemoryOK(w, r)
  BY DEF Memory
<1>1. /\ stage[w][r] = "handle" /\ send' = [send EXCEPT ![w][r] = o]
      /\ stage' = [stage EXCEPT ![w][r] = "complete"]
      /\ UNCHANGED phase /\ UNCHANGED unfinished
  BY DEF CallProvider, SetSend, Return
<1>2. PICK s \in Stages : s = "complete"
  BY DEF Stages, Running
<1>3. o \in Sends
  BY DEF Outcomes, Sends, Answers
<1>4. phase[w] = "lanes" /\ stage[w][r] # "out" /\ ~Called(w, r)
  BY <1>0, <1>1 DEF MemoryOK, Running, Called
<1>5. stage' = [stage EXCEPT ![w][r] = s] /\ s # "handle"
  BY <1>1, <1>2
<1>6. QED BY <1>1, <1>2, <1>3, <1>4, <1>5, RowKeeps

-----------------------------------------------------------------------------
(* The invariant, part by part *)

LEMMA RowStaysOK ==
  ASSUME Inv, NEW r \in Rows, Columns', Outside', Moves(r),
         delivered[r] > 0 => delivered'[r] > 0,
         \A h \in hook'[r] : h \in hook[r] \/
            (delivered'[r] > 0 /\ h.seen \notin Terminal
               /\ (h.to \in Terminal \/ Rank(h.to) > Rank(h.seen)))
  PROVE  RowOK(r)'
<1>0. Columns /\ Outside /\ RowOK(r)
  BY DEF Inv, Shape
<1>1. \A h \in hook'[r] : delivered'[r] > 0 /\ h.seen \notin Terminal
                           /\ (h.to \in Terminal \/ Rank(h.to) > Rank(h.seen))
  BY <1>0 DEF RowOK
<1>2. status'[r] \in Reports => delivered'[r] > 0
  BY <1>0 DEF RowOK, Moves, Stays, SameRow, Born, BornLeased, Claimed, Charged, Ended, Released,
              Reported, Freed, Reports
<1>3. /\ attempts[r] \in Nat /\ retries[r] \in Nat /\ RetryLimit(r) \in Nat
      /\ r \in SendNowRows => RetryLimit(r) = 0
      /\ Api \notin Workers /\ Api # Nobody
  BY <1>0, Limits, ConstantFacts DEF Columns
<1>4. \A h \in hook[r] : h.to \in Reports
  BY <1>0 DEF Outside
<1>5. /\ status'[r] = "ABSENT" => attempts'[r] = 0 /\ retries'[r] = 0
      /\ status'[r] = "QUEUED" => attempts'[r] = retries'[r] /\ attempts'[r] <= RetryLimit(r)
      /\ status'[r] = "SENDING" => attempts'[r] = retries'[r] + 1
      /\ attempts'[r] <= RetryLimit(r) + 1
  <2>1. CASE Stays(r) \/ Reported(r)
    BY <1>0, <1>4, <2>1 DEF Stays, SameRow, Reported, RowOK, Reports
  <2>2. CASE Born(r) \/ BornLeased(r) \/ Claimed(r)
    BY <1>0, <1>3, <2>2 DEF Born, BornLeased, Claimed, RowOK
  <2>3. CASE Charged(r)
    BY <1>0, <1>3, <2>3 DEF Charged, Freed, RowOK
  <2>4. CASE Ended(r) \/ Released(r)
    BY <1>0, <1>3, <2>4 DEF Ended, Released, Freed, RowOK
  <2>5. QED BY <2>1, <2>2, <2>3, <2>4 DEF Moves
<1>6. ASSUME r \in SendNowRows
      PROVE  /\ status'[r] \notin {"QUEUED", "SKIPPED"} /\ lockedBy'[r] \in {Api, Nobody}
             /\ status'[r] = "SENDING" => lockedBy'[r] = Api /\ marker'[r]
  <2>1. CASE Stays(r) \/ Reported(r)
    BY <1>0, <1>4, <1>6, <2>1 DEF Stays, SameRow, Reported, RowOK, Reports
  <2>2. CASE Born(r) \/ BornLeased(r) \/ Claimed(r)
    BY <1>0, <1>6, <2>2 DEF Born, BornLeased, Claimed, RowOK
  <2>3. CASE Charged(r) \/ Ended(r) \/ Released(r)
    BY <1>0, <1>3, <1>6, <2>3 DEF Charged, Ended, Released, Freed, RowOK
  <2>4. QED BY <2>1, <2>2, <2>3 DEF Moves
<1>7. QED BY <1>1, <1>2, <1>5, <1>6 DEF RowOK, RetryLimit

LEMMA NowStaysOK ==
  ASSUME Inv, NEW r \in Rows, Moves(r), ~BornLeased(r),
         now'[r] = now[r] \/ (now'[r] = "done" /\ now[r] # "none"),
         delivered'[r] = delivered[r] \/ r \notin SendNowRows
  PROVE  NowOK(r)'
<1>1. NowOK(r) /\ RowOK(r) /\ Outside
  BY DEF Inv, Shape
<1>2. r \in SendNowRows /\ status[r] = "ABSENT" => status'[r] = "ABSENT"
  <2>1. \A h \in hook[r] : delivered[r] > 0
    BY <1>1 DEF RowOK
  <2>2. r \in SendNowRows /\ status[r] = "ABSENT" => delivered[r] = 0
    BY <1>1 DEF Inv, Guarded, Once, Outside
  <2>3. QED
    BY <1>1, <2>1, <2>2 DEF Moves, Stays, SameRow, Born, Claimed, Charged, Ended, Released,
                      Reported, Freed
<1>3. QED BY <1>1, <1>2 DEF NowOK

(* A step that brings nobody to the call and makes none *)
LEMMA OnceStays ==
  ASSUME Inv, NEW r \in Rows, Guarded(r), Moves(r), ~BornLeased(r), Columns',
         delivered'[r] = delivered[r], \A o \in Owners : Keeps(o, r)
  PROVE  Once(r)'
<1>0. Columns /\ Outside /\ RowOK(r) /\ Once(r) /\ Api \notin Workers
  BY ConstantFacts DEF Inv, Shape
<1>1. ASSUME status[r] = "SENDING", marker[r] PROVE MustPark(r)
  <2>1. CASE Provider = "sendgrid"
    BY <1>1, <2>1 DEF MustPark
  <2>2. CASE r \in SendNowRows
    BY <1>0, <1>1, <2>2, Limits DEF MustPark, Exhausted, Columns
  <2>3. QED BY <2>1, <2>2 DEF Guarded
<1>2. \A h \in hook[r] : delivered[r] > 0 /\ h.to \in Reports
  BY <1>0 DEF RowOK, Outside
<1>3. ASSUME NEW o \in Owners, AtCall(o, r)'
      PROVE  /\ delivered'[r] = 0 /\ marker'[r]
             /\ status'[r] = "UNCERTAIN" \/ (status'[r] = "SENDING" /\ lockedBy'[r] = o)
  <2>1. /\ AtCall(o, r) /\ delivered[r] = 0 /\ marker[r]
        /\ status[r] = "UNCERTAIN" \/ (status[r] = "SENDING" /\ lockedBy[r] = o)
    BY <1>0, <1>3 DEF Keeps, Once
  <2>2. ~MayReopen(r) \/ status[r] # "SENDING"
    BY <1>1, <2>1 DEF MayReopen
  <2>3. ~Born(r) /\ ~Claimed(r) /\ ~Released(r) /\ ~Reported(r)
    <3>1. ~Reported(r)
      <4>1. ~(delivered[r] > 0)
        BY <2>1
      <4>2. hook[r] = {}
        BY <1>2, <4>1
      <4>3. QED BY <4>2 DEF Reported
    <3>2. ~Born(r) /\ ~Claimed(r)
      BY <2>1 DEF Born, Claimed
    <3>3. ~Released(r)
      BY <2>1, Zenon DEF Released
    <3>4. QED BY <3>1, <3>2, <3>3
  <2>4. ~Charged(r)
    BY <2>2 DEF Charged, Freed
  <2>5. Ended(r) => status'[r] = "UNCERTAIN"
    <3>1. ~(delivered[r] > 0)
      BY <2>1
    <3>2. QED BY <2>2, <3>1 DEF Ended, Freed
  <2>6. Stays(r) \/ Ended(r)
    BY <2>3, <2>4 DEF Moves
  <2>7. QED BY <2>1, <2>5, <2>6 DEF Stays, SameRow, Ended, Freed
<1>4. ASSUME NEW o \in Owners, NEW p \in Owners, AtCall(o, r)', AtCall(p, r)'
      PROVE  o = p
  BY <1>0, <1>4 DEF Keeps, Once
<1>5. ASSUME delivered'[r] > 0
      PROVE  /\ status'[r] \notin ({"ABSENT"} \cup Reopened)
             /\ status'[r] = "SENDING" =>
                  marker'[r] /\ \E o \in Owners : lockedBy'[r] = o /\ Called(o, r)'
  <2>1. /\ delivered[r] > 0 /\ status[r] \notin ({"ABSENT"} \cup Reopened)
        /\ status[r] = "SENDING" => marker[r] /\ \E o \in Owners : lockedBy[r] = o /\ Called(o, r)
    BY <1>0, <1>5 DEF Once
  <2>2. ~MayReopen(r) \/ status[r] # "SENDING"
    BY <1>1, <2>1 DEF MayReopen
  <2>3. CASE Stays(r)
    <3>1. CASE status[r] = "SENDING"
      <4>1. PICK o \in Owners : lockedBy[r] = o /\ Called(o, r)
        BY <2>1, <3>1
      <4>2. lockedBy'[r] = o /\ Called(o, r)'
        BY <2>3, <3>1, <4>1 DEF Stays, SameRow, Keeps
      <4>3. QED BY <2>1, <2>3, <3>1, <4>2 DEF Stays, SameRow
    <3>2. QED BY <2>1, <2>3, <3>1 DEF Stays, SameRow
  <2>4. CASE ~Stays(r)
    <3>1. ~Born(r) /\ ~Claimed(r) /\ ~Released(r)
      <4>1. ~Born(r) /\ ~Claimed(r)
        BY <2>1 DEF Born, Claimed, Reopened
      <4>2. ~Released(r)
        BY <2>1, Zenon DEF Released, Freed
      <4>3. QED BY <4>1, <4>2
    <3>2. ~Charged(r)
      BY <2>2 DEF Charged, Freed
    <3>3. (Ended(r) /\ status'[r] \in {"UNCERTAIN", "SENT"}) \/ Reported(r)
      BY <2>2, <2>4, <3>1, <3>2 DEF Moves, Ended, Freed
    <3>4. status'[r] \in {"UNCERTAIN"} \cup Reports
      BY <1>2, <3>3 DEF Reported, Reports
    <3>5. QED BY <3>4 DEF Reports, Reopened
  <2>5. QED BY <2>3, <2>4
<1>6. QED BY <1>3, <1>4, <1>5 DEF Once

(* A lane, or the request, passes the marker *)
LEMMA OnceMarked ==
  ASSUME Inv, NEW r \in Rows, Guarded(r), NEW o \in Owners, Stays(r),
         status[r] = "SENDING", lockedBy[r] = o, ~Called(o, r), marker'[r],
         delivered'[r] = delivered[r],
         \A p \in Owners \ {o} : AtCall(p, r)' => AtCall(p, r)
  PROVE  Once(r)'
<1>0. Outside /\ Once(r)
  BY DEF Inv, Shape
<1>1. delivered[r] = 0
  BY <1>0 DEF Once, Outside
<1>2. \A p \in Owners \ {o} : ~AtCall(p, r)'
  BY <1>0 DEF Once
<1>3. QED BY <1>1, <1>2 DEF Once, Stays, SameRow

(* Whoever is about to call does *)
LEMMA OnceCalled ==
  ASSUME Inv, NEW r \in Rows, Guarded(r), NEW o \in Owners, AtCall(o, r), Stays(r),
         delivered'[r] \in {0, 1}, delivered'[r] > 0 => Called(o, r)',
         ~AtCall(o, r)', \A p \in Owners \ {o} : AtCall(p, r)' => AtCall(p, r)
  PROVE  Once(r)'
<1>0. Once(r)
  BY DEF Inv
<1>1. /\ marker[r]
      /\ status[r] = "UNCERTAIN" \/ (status[r] = "SENDING" /\ lockedBy[r] = o)
  BY <1>0 DEF Once
<1>2. \A p \in Owners : ~AtCall(p, r)'
  BY <1>0 DEF Once
<1>3. /\ marker'[r]
      /\ status'[r] = "UNCERTAIN" \/ (status'[r] = "SENDING" /\ lockedBy'[r] = o)
  BY <1>1 DEF Stays, SameRow
<1>4. status'[r] = "SENDING" => lockedBy'[r] = o
  BY <1>3
<1>5. delivered'[r] > 0 /\ status'[r] = "SENDING" => \E p \in Owners : lockedBy'[r] = p /\ Called(p, r)'
  BY <1>4
<1>6. QED BY <1>2, <1>3, <1>5 DEF Once, Reopened

-----------------------------------------------------------------------------
(* Steps that make no call keep the invariant *)

LEMMA NowKeeps ==
  ASSUME Inv, NEW r \in Rows, now'[r] = now[r] \/ now'[r] = "done"
  PROVE  Keeps(Api, r)
BY ConstantFacts DEF Keeps, AtCall, Called

LEMMA NobodyBorn ==
  ASSUME Inv, NEW r \in Rows, now'[r] = now[r] \/ now'[r] = "done"
  PROVE  ~BornLeased(r)
<1> SUFFICES ASSUME BornLeased(r) PROVE FALSE
  OBVIOUS
<1>1. r \in SendNowRows /\ status[r] = "ABSENT" /\ now[r] = "marked"
  BY DEF BornLeased
<1>2. AtCall(Api, r) /\ Api \in Owners /\ Once(r)
  BY <1>1, ConstantFacts DEF AtCall, Owners, Inv, Guarded
<1>3. QED BY <1>1, <1>2 DEF Once

LEMMA QuietStep ==
  ASSUME Inv, Columns', Outside', \A q \in Rows : Moves(q), Memory', KeepAll,
         delivered' = delivered,
         \A q \in Rows : now'[q] = now[q] \/ (now'[q] = "done" /\ now[q] # "none"),
         \A q \in Rows : \A h \in hook'[q] : h \in hook[q] \/
            (delivered[q] > 0 /\ h.seen \notin Terminal
               /\ (h.to \in Terminal \/ Rank(h.to) > Rank(h.seen)))
  PROVE  Inv'
<1>1. \A q \in Rows : Keeps(Api, q) /\ ~BornLeased(q)
  BY NowKeeps, NobodyBorn
<1>2. \A q \in Rows : RowOK(q)'
  BY RowStaysOK
<1>3. \A q \in Rows : NowOK(q)'
  BY <1>1, NowStaysOK
<1>4. \A q \in Rows, o \in Owners : Keeps(o, q)
  BY <1>1 DEF KeepAll, Owners
<1>5. \A q \in Rows : Guarded(q) => Once(q)'
  BY <1>1, <1>4, OnceStays
<1>6. QED BY <1>2, <1>3, <1>5 DEF Inv, Shape, Memory, Guarded

(* One row, whose call begins or is made *)
LEMMA CallStep ==
  ASSUME Inv, Columns', Outside', \A q \in Rows : Moves(q), Memory', NEW r \in Rows, hook' = hook,
         delivered[r] > 0 => delivered'[r] > 0,
         \A q \in Rows \ {r} : delivered'[q] = delivered[q] /\ now'[q] = now[q],
         \A w \in Workers : \A q \in Rows \ {r} : Keeps(w, q),
         NowOK(r)', Guarded(r) => Once(r)'
  PROVE  Inv'
<1>1. \A q \in Rows \ {r} : Keeps(Api, q) /\ ~BornLeased(q)
  BY NowKeeps, NobodyBorn
<1>2. \A q \in Rows : RowOK(q)'
  BY RowStaysOK
<1>3. \A q \in Rows \ {r} : NowOK(q)'
  BY <1>1, NowStaysOK
<1>4. \A q \in Rows \ {r}, o \in Owners : Keeps(o, q)
  BY <1>1 DEF Owners
<1>5. \A q \in Rows \ {r} : Guarded(q) => Once(q)'
  BY <1>1, <1>4, OnceStays
<1>6. QED BY <1>2, <1>3, <1>5 DEF Inv, Shape, Memory, Guarded

LEMMA ProviderTakes ==
  ASSUME Outside, NEW r \in Rows, NEW o \in Outcomes, ProviderAnswers(r, o),
         Guarded(r) => delivered[r] = 0
  PROVE  /\ delivered' \in [Rows -> {0, 1}]
         /\ \A q \in Rows \ {r} : delivered'[q] = delivered[q]
         /\ delivered[r] > 0 => delivered'[r] > 0
         /\ o = "accepted" => delivered'[r] > 0
         /\ o = "rejected" => delivered'[r] = delivered[r]
<1>1. PICK n : delivered' = [delivered EXCEPT ![r] = n] /\ n \in {delivered[r], Taken(r)}
               /\ (o = "accepted" => n = Taken(r)) /\ (o = "rejected" => n = delivered[r])
  BY DEF ProviderAnswers, Outcomes
<1>2. Taken(r) = 1
  BY ConstantFacts DEF Taken, Outside, Guarded
<1>3. delivered[r] \in {0, 1}
  BY DEF Outside
<1>4. QED BY <1>1, <1>2, <1>3 DEF Outside

LEMMA MarkStep ==
  ASSUME Inv, Columns', \A q \in Rows : Moves(q), NEW w \in Workers, NEW r \in Rows, Mark(w, r)
  PROVE  Inv'
<1>0. Columns /\ Outside /\ Memory /\ MemoryOK(w, r) /\ NowOK(r) /\ w \in Owners
  BY DEF Inv, Shape, Memory, Owners
<1>1. /\ UNCHANGED <<delivered, hook, now>> /\ stage[w][r] = "handle" /\ stage' = stage
      /\ Owned(w, r) /\ MarkSql(w, r) /\ UNCHANGED retries
  BY DEF Mark, workerVars, batchVars
<1>2. Grow /\ Outside'
  BY <1>0, <1>1 DEF Grow, Outside
<1>3. /\ Memory'
      /\ \A v \in Workers, q \in Rows : v # w \/ q # r => Keeps(v, q)
  BY <1>0, <1>2, MarkKeeps
<1>4. Stays(r) /\ marker'[r] /\ status[r] = "SENDING" /\ lockedBy[r] = w
  BY <1>0, <1>1, MarkMoves, OwnedRow
<1>5. \A q \in Rows : now'[q] = now[q]
  BY <1>1
<1>6. NowOK(r)'
  BY <1>0, <1>1, <1>4 DEF NowOK, Stays, SameRow
<1>7. Guarded(r) => Once(r)'
  <2>1. ~Called(w, r)
    BY <1>1 DEF Called
  <2>2. \A p \in Owners \ {w} : AtCall(p, r)' => AtCall(p, r)
    BY <1>3, <1>5, NowKeeps DEF Keeps, Owners
  <2>3. QED BY <1>0, <1>1, <1>4, <2>1, <2>2, OnceMarked
<1>8. QED BY <1>1, <1>2, <1>3, <1>6, <1>7, CallStep

LEMMA CallProviderStep ==
  ASSUME Inv, Columns', \A q \in Rows : Moves(q), NEW w \in Workers, NEW r \in Rows,
         CallProvider(w, r)
  PROVE  Inv'
<1>0. Columns /\ Outside /\ Memory /\ MemoryOK(w, r) /\ NowOK(r) /\ w \in Owners
  BY DEF Inv, Shape, Memory, Owners
<1>1. /\ UNCHANGED <<leaseVars, retries, marker, hook, now>>
      /\ stage[w][r] = "handle" /\ send[w][r] = "marked" /\ stage' = [stage EXCEPT ![w][r] = "complete"]
  BY DEF CallProvider, Return
<1>2. PICK o \in Outcomes : ProviderAnswers(r, o) /\ SetSend(w, r, o)
  BY DEF CallProvider
<1>3. AtCall(w, r) /\ r \notin SendNowRows
  BY <1>0, <1>1 DEF AtCall, MemoryOK
<1>4. Guarded(r) => delivered[r] = 0
  BY <1>0, <1>3 DEF Inv, Once
<1>5. /\ delivered' \in [Rows -> {0, 1}]
      /\ \A q \in Rows \ {r} : delivered'[q] = delivered[q]
      /\ delivered[r] > 0 => delivered'[r] > 0
      /\ o = "accepted" => delivered'[r] > 0
      /\ o = "rejected" => delivered'[r] = delivered[r]
  BY <1>0, <1>2, <1>4, ProviderTakes
<1>6. Grow /\ Outside'
  BY <1>0, <1>1, <1>5 DEF Grow, Outside
<1>7. Memory' /\ KeepAll
  BY <1>0, <1>2, <1>5, <1>6, CallKeeps
<1>8. Stays(r)
  BY <1>0, <1>1 DEF leaseVars, Stays, SameRow
<1>9. NowOK(r)'
  BY <1>0, <1>1, <1>3, <1>8 DEF NowOK
<1>10. \A q \in Rows : now'[q] = now[q]
  BY <1>1
<1>11. stage'[w][r] = "complete" /\ send'[w][r] = o
  BY <1>0, <1>1, <1>2 DEF Memory, MemoryShape, SetSend
<1>12. ASSUME Guarded(r) PROVE Once(r)'
  <2>1. Provider = "sendgrid"
    BY <1>3, <1>12 DEF Guarded
  <2>2. delivered'[r] > 0 => o \in {"accepted", "ambiguous"}
    BY <1>4, <1>5, <1>12, <2>1 DEF Outcomes
  <2>3. ~AtCall(w, r)' /\ (delivered'[r] > 0 => Called(w, r)')
    BY <1>11, <2>2 DEF AtCall, Called
  <2>4. \A p \in Owners \ {w} : AtCall(p, r)' => AtCall(p, r)
    BY <1>7, <1>10, NowKeeps DEF Keeps, KeepAll, Owners
  <2>5. delivered'[r] \in {0, 1}
    BY <1>5
  <2>6. QED BY <1>0, <1>3, <1>8, <1>12, <2>3, <2>4, <2>5, OnceCalled
<1>13. QED BY <1>1, <1>5, <1>6, <1>7, <1>9, <1>10, <1>12, CallStep DEF KeepAll

LEMMA SendNowStep ==
  ASSUME Inv, Columns', \A q \in Rows : Moves(q), NEW r \in Rows, SendNow(r)
  PROVE  Inv'
<1>0. Columns /\ Outside /\ Memory /\ NowOK(r) /\ Api \in Owners /\ Api \notin Workers
  BY ConstantFacts DEF Inv, Shape, Memory, Owners
<1>1. /\ r \in SendNowRows /\ status[r] = "ABSENT"
      /\ status' = [status EXCEPT ![r] = "SENDING"] /\ lockedBy' = [lockedBy EXCEPT ![r] = Api]
      /\ marker' = [marker EXCEPT ![r] = TRUE] /\ now' = [now EXCEPT ![r] = "marked"]
      /\ UNCHANGED <<delivered, hook, phase, unfinished, stage, send>>
  BY DEF SendNow, workerVars, batchVars
<1>2. Grow /\ Outside'
  BY <1>0, <1>1 DEF Grow, Outside
<1>3. Memory' /\ KeepAll
  BY <1>0, <1>1, <1>2, NothingKeeps
<1>4. Guarded(r) /\ Once(r)
  BY <1>1 DEF Inv, Guarded
<1>5. delivered[r] = 0 /\ \A p \in Owners : ~AtCall(p, r)
  BY <1>0, <1>1, <1>4 DEF Once, Outside
<1>6. \A p \in Owners \ {Api} : ~AtCall(p, r)'
  BY <1>3, <1>5 DEF KeepAll, Keeps, Owners
<1>7. delivered'[r] = 0 /\ marker'[r] /\ status'[r] = "SENDING" /\ lockedBy'[r] = Api
  BY <1>0, <1>1, <1>5 DEF Columns
<1>8. Once(r)'
  BY <1>6, <1>7 DEF Once
<1>9. NowOK(r)'
  BY <1>0, <1>1 DEF NowOK, Outside
<1>10. \A q \in Rows \ {r} : delivered'[q] = delivered[q] /\ now'[q] = now[q]
  BY <1>0, <1>1 DEF Outside
<1>11. QED BY <1>1, <1>2, <1>3, <1>8, <1>9, <1>10, CallStep DEF KeepAll

LEMMA CallNowStep ==
  ASSUME Inv, Columns', \A q \in Rows : Moves(q), NEW r \in Rows, CallNow(r)
  PROVE  Inv'
<1>0. Columns /\ Outside /\ Memory /\ NowOK(r) /\ Api \in Owners /\ Api \notin Workers
  BY ConstantFacts DEF Inv, Shape, Memory, Owners
<1>1. /\ now[r] = "marked"
      /\ UNCHANGED <<leaseVars, retries, marker, send, hook, phase, unfinished, stage>>
  BY DEF CallNow, workerVars, batchVars
<1>2. PICK o \in Outcomes : ProviderAnswers(r, o) /\ now' = [now EXCEPT ![r] = o]
  BY DEF CallNow
<1>3. AtCall(Api, r) /\ r \in SendNowRows /\ Guarded(r)
  BY <1>0, <1>1 DEF AtCall, NowOK, Guarded
<1>4. delivered[r] = 0
  BY <1>0, <1>3 DEF Inv, Once
<1>5. /\ delivered' \in [Rows -> {0, 1}]
      /\ \A q \in Rows \ {r} : delivered'[q] = delivered[q]
      /\ delivered[r] > 0 => delivered'[r] > 0
      /\ o = "accepted" => delivered'[r] > 0
      /\ o = "rejected" => delivered'[r] = delivered[r]
  BY <1>0, <1>2, <1>4, ProviderTakes
<1>6. o \in Answers /\ now'[r] = o /\ \A q \in Rows \ {r} : now'[q] = now[q]
  BY <1>0, <1>2 DEF Outcomes, Answers, Outside
<1>7. Grow /\ Outside'
  BY <1>0, <1>1, <1>2, <1>5, <1>6 DEF Grow, Outside
<1>8. Memory' /\ KeepAll
  BY <1>0, <1>1, <1>7, NothingKeeps
<1>9. Stays(r)
  BY <1>0, <1>1 DEF leaseVars, Stays, SameRow
<1>10. NowOK(r)'
  BY <1>3, <1>4, <1>5, <1>6 DEF NowOK, Answers
<1>11. Once(r)'
  <2>1. ~AtCall(Api, r)'
    BY <1>0, <1>6 DEF AtCall, Answers
  <2>2. delivered'[r] > 0 => Called(Api, r)'
    BY <1>0, <1>4, <1>5, <1>6 DEF Called, Answers
  <2>3. \A p \in Owners \ {Api} : AtCall(p, r)' => AtCall(p, r)
    BY <1>8 DEF Keeps, KeepAll, Owners
  <2>4. delivered'[r] \in {0, 1}
    BY <1>5
  <2>5. QED BY <1>0, <1>3, <1>9, <2>1, <2>2, <2>3, <2>4, OnceCalled
<1>12. QED BY <1>1, <1>5, <1>6, <1>7, <1>8, <1>10, <1>11, CallStep DEF KeepAll

(* Webhooks, and the steps that leave the workers' memory alone *)
LEMMA OutsideStep ==
  ASSUME Inv, Columns', \A q \in Rows : Moves(q), NEW r \in Rows,
         \/ SettleNow(r) \/ AbandonNow(r)
         \/ \E event \in Webhooks : WebhookRead(r, event)
         \/ \E h \in hook[r] : WebhookWrite(r, h)
  PROVE  Inv'
<1>0. Columns /\ Outside /\ Memory
  BY DEF Inv, Shape, Memory
<1>1. UNCHANGED <<delivered, phase, unfinished, stage, send>>
  BY DEF SettleNow, AbandonNow, WebhookRead, WebhookWrite, workerVars, batchVars
<1>2. Memory' /\ KeepAll
  BY <1>0, <1>1, NothingKeeps DEF Grow
<1>3. CASE SettleNow(r) \/ AbandonNow(r)
  <2>1. now[r] # "none" /\ now' = [now EXCEPT ![r] = "done"] /\ hook' = hook
    BY <1>3 DEF SettleNow, AbandonNow, Outcomes
  <2>2. \A q \in Rows : now'[q] = now[q] \/ (now'[q] = "done" /\ now[q] # "none")
    BY <1>0, <2>1 DEF Outside
  <2>3. Outside'
    BY <1>0, <1>1, <2>1 DEF Outside
  <2>4. QED BY <1>1, <1>2, <2>1, <2>2, <2>3, QuietStep
<1>4. CASE \E event \in Webhooks : WebhookRead(r, event)
  <2>1. PICK event \in Webhooks : WebhookRead(r, event)
    BY <1>4
  <2>2. PICK h : h = [seen |-> status[r], to |-> WebhookStatus(event)]
    OBVIOUS
  <2>3. hook' = [hook EXCEPT ![r] = @ \cup {h}] /\ UNCHANGED now
    BY <2>1, <2>2 DEF WebhookRead
  <2>4. event \in {"processed", "delivered", "open", "click", "bounce", "dropped"}
    BY EmailConstants
  <2>5. WebhookStatus(event) \in Reports
    BY <2>4 DEF WebhookStatus, Reports
  <2>6. h \in [seen : Statuses, to : Reports]
    BY <1>0, <2>2, <2>5 DEF Columns
  <2>7. Outside'
    BY <1>0, <1>1, <2>3, <2>6 DEF Outside
  <2>8. delivered[r] > 0 /\ h.seen \notin Terminal
        /\ (h.to \in Terminal \/ Rank(h.to) > Rank(h.seen))
    BY <2>1, <2>2 DEF WebhookRead
  <2>9. \A q \in Rows : \A g \in hook'[q] : g \in hook[q] \/ (q = r /\ g = h)
    BY <1>0, <2>3 DEF Outside
  <2>10. QED BY <1>1, <1>2, <2>3, <2>7, <2>8, <2>9, QuietStep
<1>5. CASE \E h \in hook[r] : WebhookWrite(r, h)
  <2>1. PICK h \in hook[r] : WebhookWrite(r, h)
    BY <1>5
  <2>2. hook' = [hook EXCEPT ![r] = @ \ {h}] /\ UNCHANGED now
    BY <2>1 DEF WebhookWrite
  <2>3. Outside' /\ \A q \in Rows : hook'[q] \subseteq hook[q]
    BY <1>0, <1>1, <2>2 DEF Outside
  <2>4. QED BY <1>1, <1>2, <2>2, <2>3, QuietStep
<1>6. QED BY <1>3, <1>4, <1>5

LEMMA InvStep ==
  ASSUME Inv, [Next]_vars
  PROVE  Inv'
<1>0. Columns /\ Outside /\ Memory
  BY DEF Inv, Shape, Memory
<1>1. Columns' /\ \A q \in Rows : Moves(q)
  BY EveryRowMoves
<1>2. ASSUME UNCHANGED <<delivered, hook, now>>
      PROVE  Outside' /\ Grow
  BY <1>0, <1>2 DEF Outside, Grow
<1>3. ASSUME UNCHANGED <<delivered, hook, now>>, Memory', KeepAll
      PROVE  Inv'
  BY <1>1, <1>2, <1>3, QuietStep
<1>4. ASSUME UNCHANGED <<delivered, hook, now, phase, unfinished, stage, send>>
      PROVE  Inv'
  BY <1>0, <1>2, <1>3, <1>4, NothingKeeps
<1>5. CASE UNCHANGED vars
  BY <1>4, <1>5 DEF vars, workerVars, batchVars, emailVars
<1>6. ASSUME NEW r \in Rows,
             \/ Enqueue(r) \/ Clock(r)
             \/ SendNow(r) \/ CallNow(r) \/ SettleNow(r) \/ AbandonNow(r)
             \/ \E h \in hook[r] : WebhookWrite(r, h)
      PROVE  Inv'
  <2>1. CASE Enqueue(r) \/ Clock(r)
    BY <1>4, <2>1 DEF Enqueue, Clock, workerVars, batchVars, emailVars
  <2>2. QED BY <1>1, <1>6, <2>1, SendNowStep, CallNowStep, OutsideStep
<1>7. ASSUME NEW r \in Rows, NEW event \in Webhooks, WebhookRead(r, event)
      PROVE  Inv'
  BY <1>1, <1>7, OutsideStep
<1>8. ASSUME NEW r \in Rows, NEW copy \in Rows, Resend(r, copy)
      PROVE  Inv'
  BY <1>4, <1>8 DEF Resend, workerVars, batchVars
<1>9. ASSUME NEW w \in Workers,
             Claim(w) \/ ClaimLost(w) \/ RunStep(w) \/ CloseBatch(w) \/ CloseBatchError(w)
      PROVE  Inv'
  <2>1. UNCHANGED <<delivered, hook, now>>
    BY <1>9 DEF Claim, ClaimLost, RunStep, CloseBatch, CloseBatchError, emailVars
  <2>2. QED BY <1>0, <1>2, <1>3, <1>9, <2>1, BatchStepsKeep
<1>10. ASSUME NEW w \in Workers, NEW r \in Rows,
              \/ RowStep(w, r) \/ BeginHandler(w, r)
              \/ Skip(w, r) \/ BreakBeforeSend(w, r) \/ LeaseLostBeforeSend(w, r)
              \/ Mark(w, r) \/ MarkError(w, r) \/ CallProvider(w, r)
              \/ CompleteRow(w, r) \/ CompleteRowError(w, r)
              \/ OutcomeNotWritten(w, r) \/ RetryOutcomeWrite(w, r)
              \/ FailRow(w, r) \/ FailRowError(w, r)
       PROVE  Inv'
  <2>1. CASE Mark(w, r)
    BY <1>1, <2>1, MarkStep
  <2>2. CASE CallProvider(w, r)
    BY <1>1, <2>2, CallProviderStep
  <2>3. CASE ~Mark(w, r) /\ ~CallProvider(w, r)
    <3>1. UNCHANGED <<delivered, hook, now>>
      BY <1>10, <2>3 DEF RowStep, BeginHandler, Skip, BreakBeforeSend, LeaseLostBeforeSend, MarkError,
           CompleteRow, CompleteRowError, OutcomeNotWritten, RetryOutcomeWrite, FailRow, FailRowError,
           emailVars
    <3>2. QED BY <1>0, <1>2, <1>3, <1>10, <2>3, <3>1, RowStepsKeep
  <2>4. QED BY <2>1, <2>2, <2>3
<1>11. CASE RecoverUncertain \/ RecoverRequeue \/ RecoverDead
  BY <1>4, <1>11 DEF RecoverUncertain, RecoverRequeue, RecoverDead, Recover, CountRetry, batchVars,
                     emailVars
<1>12. QED
  BY <1>5, <1>6, <1>7, <1>8, <1>9, <1>10, <1>11 DEF Next

LEMMA Initially ==
  ASSUME Init
  PROVE  Inv
<1>1. Columns
  BY DEF Init, Columns, Statuses
<1>2. Outside
  BY DEF Init, Outside
<1>3. MemoryShape
  BY DEF Init, WorkerInit, MemoryShape, Phases, Stages, Sends
<1>4. \A r \in Rows : RowOK(r)
  BY Limits DEF Init, RowOK, Reports
<1>5. \A r \in Rows : NowOK(r)
  BY DEF Init, NowOK
<1>6. \A w \in Workers, r \in Rows : MemoryOK(w, r)
  BY DEF Init, WorkerInit, MemoryOK, Running
<1>7. \A r \in Rows, o \in Owners : ~AtCall(o, r)
  BY DEF Init, WorkerInit, AtCall
<1>8. \A r \in Rows : Once(r)
  BY <1>7 DEF Init, Once
<1>9. QED BY <1>1, <1>2, <1>3, <1>4, <1>5, <1>6, <1>8 DEF Inv, Shape

-----------------------------------------------------------------------------
(* The properties *)

(* What holds in every state of the queue: the counters, the marker and    *)
(* the lease of a row agree with what its owner knows of the provider call *)
(* (claimSet, beginProviderAttempt, settleProviderOutcome, recovery).      *)
THEOREM EmailInvariant == Spec => []Inv
<1>1. Init => Inv
  BY Initially
<1>2. Inv /\ [Next]_vars => Inv'
  BY InvStep
<1>3. QED
  BY <1>1, <1>2, PTL DEF Spec

(* The provider sends at most one email per log, whatever crashes, expires *)
(* or answers late around the call: the marker of beginProviderAttempt     *)
(* with a provider that does not deduplicate, the idempotency key with one *)
(* that does.                                                              *)
THEOREM OneEmailPerLogHolds == Spec => []OneEmailPerLog
<1>1. Inv => OneEmailPerLog
  BY DEF Inv, Shape, Outside, OneEmailPerLog
<1>2. QED
  BY <1>1, EmailInvariant, PTL

(* A log never says queued, failed or skipped of an email the provider     *)
(* took (SendGrid, and send-now with either provider), and what it reports *)
(* as sent, or anything after that, was taken (settleProviderOutcome,      *)
(* recovery's park of marked rows, the webhooks' compare-and-set).         *)
THEOREM StatusTellsTruthHolds == Spec => []StatusTellsTruth
<1>1. ASSUME Inv, NEW r \in Rows
      PROVE  /\ delivered[r] > 0 /\ (Provider = "sendgrid" \/ r \in SendNowRows)
                  => status[r] \notin {"QUEUED", "FAILED", "SKIPPED"}
             /\ status[r] \in Reports => delivered[r] = 1
  <2>1. delivered[r] \in {0, 1}
    BY <1>1 DEF Inv, Shape, Outside
  <2>2. Guarded(r) => Once(r)
    BY <1>1 DEF Inv
  <2>3. delivered[r] > 0 /\ Guarded(r) => status[r] \notin {"QUEUED", "FAILED", "SKIPPED"}
    BY <2>2 DEF Once, Reopened
  <2>4. status[r] \in Reports => delivered[r] = 1
    BY <1>1, <2>1 DEF Inv, RowOK
  <2>5. QED
    BY <2>3, <2>4 DEF Guarded
<1>2. Inv => StatusTellsTruth
  BY <1>1 DEF StatusTellsTruth, Reports
<1>3. QED
  BY <1>2, EmailInvariant, PTL

(* attempt_count and retry_count agree in a QUEUED email and differ by the *)
(* claim in a SENDING one, although claim, release, failEmail and recovery *)
(* each move one of them: no QUEUED email is beyond what claimable allows. *)
THEOREM CountersAgreeHolds == Spec => []CountersAgree
<1>1. Inv => CountersAgree
  BY DEF Inv, RowOK, CountersAgree
<1>2. QED
  BY <1>1, EmailInvariant, PTL

(* A send-now email, which nothing can render again, is never queued nor   *)
(* leased by a worker of the queue.                                        *)
THEOREM SendNowStaysOutHolds == Spec => []SendNowStaysOut
<1>1. ASSUME Inv, NEW r \in SendNowRows
      PROVE  status[r] # "QUEUED" /\ lockedBy[r] \in {Api, Nobody}
  BY <1>1, EmailConstants DEF Inv, RowOK
<1>2. Inv => SendNowStaysOut
  BY <1>1 DEF SendNowStaysOut
<1>3. QED
  BY <1>2, EmailInvariant, PTL

(* An email whose provider call was announced goes back to the queue only  *)
(* with its retry charged: releaseEmailLeases refunds unmarked rows only.  *)
THEOREM MarkedIsChargedHolds == Spec => MarkedIsCharged
<1> DEFINE Kept(r) == marker[r] /\ status[r] = "SENDING" /\ status'[r] = "QUEUED"
                        => retries'[r] = retries[r] + 1
<1>1. ASSUME Inv, [Next]_vars, NEW r \in Rows PROVE Kept(r)
  <2> SUFFICES ASSUME marker[r], status[r] = "SENDING", status'[r] = "QUEUED"
               PROVE  Charged(r)
    BY DEF Charged
  <2>1. Moves(r)
    BY <1>1, EveryRowMoves
  <2>2. ~Released(r)
    BY Zenon DEF Released
  <2>3. ~Reported(r)
    <3>1. \A h \in hook[r] : h.to # "QUEUED"
      <4>1. hook[r] \subseteq [seen : Statuses, to : Reports]
        BY <1>1 DEF Inv, Shape, Outside
      <4>2. QED
        BY <4>1 DEF Reports
    <3>2. QED
      BY <3>1 DEF Reported
  <2>4. ~Stays(r) /\ ~Born(r) /\ ~BornLeased(r) /\ ~Claimed(r) /\ ~Ended(r)
    BY DEF Stays, SameRow, Born, BornLeased, Claimed, Ended
  <2>5. QED
    BY <2>1, <2>2, <2>3, <2>4 DEF Moves
<1>2. Inv /\ [Next]_vars => [\A r \in Rows : Kept(r)]_vars
  BY <1>1
<1>3. QED
  BY <1>2, EmailInvariant, PTL DEF Spec, MarkedIsCharged

(* What the provider reported is never taken back: no late worker's write, *)
(* recovery or out-of-order webhook lowers the status, and a bounce, drop  *)
(* or failure is final (the rank and the compare-and-set of the webhooks). *)
THEOREM ReportsOnlyAdvanceHolds == Spec => ReportsOnlyAdvance
<1> DEFINE Kept(r) == /\ Rank(status[r]) >= 3 => Rank(status'[r]) >= Rank(status[r])
                                                   \/ status'[r] \in {"BOUNCED", "DROPPED"}
                      /\ status[r] \in Terminal => status'[r] = status[r]
<1>1. ASSUME Inv, [Next]_vars, NEW r \in Rows PROVE Kept(r)
  <2>1. Moves(r) /\ RowOK(r) /\ status[r] \in Statuses
    BY <1>1, EveryRowMoves DEF Inv, Shape, Columns
  <2>2. \A s \in Statuses : Rank(s) >= 3 => s \in Reports \ {"BOUNCED", "DROPPED"}
    BY DEF Rank, Statuses, Reopened, Reports
  <2>3. CASE status'[r] = status[r]
    BY <2>2, <2>3, <2>1 DEF Rank, Reports
  <2>4. CASE status[r] \in {"ABSENT", "QUEUED", "SENDING"}
    BY <2>4 DEF Rank, Terminal
  <2>5. CASE Reported(r)
    <3>1. PICK h \in hook[r] : status[r] = h.seen /\ status'[r] = h.to
      BY <2>5 DEF Reported
    <3>2. h.to \in Reports
      BY <1>1, <3>1 DEF Inv, Shape, Outside
    <3>3. h.seen \notin Terminal /\ (h.to \in Terminal \/ Rank(h.to) > Rank(h.seen))
      BY <2>1, <3>1 DEF RowOK
    <3>4. h.to \in Terminal => h.to \in {"BOUNCED", "DROPPED"}
      BY <3>2 DEF Terminal, Reports
    <3>5. Rank(h.to) \in Nat /\ Rank(h.seen) \in Nat
      BY DEF Rank
    <3>6. QED
      BY <3>1, <3>3, <3>4, <3>5
  <2>6. QED
    BY <2>1, <2>3, <2>4, <2>5
    DEF Moves, Stays, SameRow, Born, BornLeased, Claimed, Charged, Ended, Released, Freed
<1>2. Inv /\ [Next]_vars => [\A r \in Rows : Kept(r)]_vars
  BY <1>1
<1>3. QED
  BY <1>2, EmailInvariant, PTL DEF Spec, ReportsOnlyAdvance
=============================================================================
