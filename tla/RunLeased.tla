----------------------------- MODULE RunLeased -----------------------------
(***************************************************************************)
(* The worker side of a lease queue: runLeased and runBatch of             *)
(* packages/db/src/lease-queue/run-leased.ts.  A worker claims a batch,    *)
(* renews the leases of its unfinished rows on a timer, confirms each row  *)
(* right before handling it, writes the row's outcome and, at the end,     *)
(* releases what it did not finish.                                        *)
(*                                                                         *)
(* A worker is one process running one job, so the steps of a worker       *)
(* interleave only at its awaits: a statement executes at the database,    *)
(* and its answer is a callback that runs later.  An answer is a step of   *)
(* its own where another callback of the same worker can come in between   *)
(* and make a difference (the renewal, the confirm).  A statement may also *)
(* answer with an error, having committed or not.                          *)
(***************************************************************************)
EXTENDS LeaseQueue

CONSTANTS Limit,       \* options.limit: rows per claim
          Lanes,       \* options.concurrency: rows handled at once
          Stoppable,   \* workers whose process may be shut down or crash
          MaxFaults    \* bound: database errors, timeouts and crashes of a behaviour

ASSUME RunLeasedConstants ==
  /\ Limit \in Nat \ {0} /\ Lanes \in Nat \ {0} /\ MaxFaults \in Nat
  /\ Stoppable \subseteq Workers

VARIABLES phase,       \* where runBatch is
          unfinished,  \* the set `unfinished`: renewed by the beat, released at the end
          stage,       \* how far handleOne is with each row of the batch
          lost,        \* running rows whose AbortController was aborted by `lose`
          beating,     \* a renewal has executed and its answer is on the way
          missing,     \* the rows that renewal did not find owned
          signal,      \* the job's AbortSignal
          stopped,     \* lanes ended by a failed confirm
          orphaned,    \* leased rows no batch holds: left for stale-lease recovery
          faults       \* faults so far

batchVars == <<phase, unfinished, stage, lost, beating, missing, signal, stopped>>
workerVars == <<batchVars, orphaned, faults>>

Phases == {"idle", "load", "lanes", "closing", "dead"}

(* "out": not (or no longer) in the hands of a lane; "waiting": loaded;    *)
(* "halted": its handler was interrupted by a shutdown; the others are the *)
(* points of handleOne, where the row is in the map `running`.             *)
Running == {"confirm", "confirmed", "handle", "complete", "fail"}
Stages == {"out", "waiting", "halted"} \cup Running

Signals == {"none", "timeout", "shutdown"}

RunningRows(w) == {r \in Rows : stage[w][r] \in Running}

WorkerTypeOK ==
  /\ phase \in [Workers -> Phases]
  /\ unfinished \in [Workers -> SUBSET Rows]
  /\ stage \in [Workers -> [Rows -> Stages]]
  /\ lost \in [Workers -> SUBSET Rows]
  /\ beating \in [Workers -> BOOLEAN]
  /\ missing \in [Workers -> SUBSET Rows]
  /\ signal \in [Workers -> Signals]
  /\ stopped \in [Workers -> Nat]
  /\ orphaned \subseteq Rows
  /\ faults \in Nat

WorkerInit ==
  /\ phase = [w \in Workers |-> "idle"]
  /\ unfinished = [w \in Workers |-> {}]
  /\ stage = [w \in Workers |-> [r \in Rows |-> "out"]]
  /\ lost = [w \in Workers |-> {}]
  /\ beating = [w \in Workers |-> FALSE]
  /\ missing = [w \in Workers |-> {}]
  /\ signal = [w \in Workers |-> "none"]
  /\ stopped = [w \in Workers |-> 0]
  /\ orphaned = {}
  /\ faults = 0

Fault == faults < MaxFaults /\ faults' = faults + 1

(* A statement that answers with an error took effect or did not. *)
MaybeCommitted(statement) == statement \/ UNCHANGED leaseVars

-----------------------------------------------------------------------------
(* queue.claim answered with S, and unfinished = new Set(ids).  A run      *)
(* claims only while its signal is not aborted.                            *)
OpenBatch(w, S) ==
  /\ phase[w] = "idle" /\ signal[w] = "none"
  /\ S # {} /\ Cardinality(S) <= Limit
  /\ ClaimSql(w, S)
  /\ phase' = [phase EXCEPT ![w] = "load"]
  /\ unfinished' = [unfinished EXCEPT ![w] = S]
  /\ UNCHANGED <<stage, lost, beating, missing, signal, stopped, orphaned, faults>>

(* The claim committed and its answer was an error: nobody works on S. *)
ClaimAnswerLost(w, S) ==
  /\ phase[w] = "idle" /\ signal[w] = "none"
  /\ S # {} /\ Cardinality(S) <= Limit
  /\ Fault
  /\ ClaimSql(w, S)
  /\ orphaned' = orphaned \cup S
  /\ UNCHANGED batchVars

(* options.load: the claimed rows still owned; the others are settled "lost". *)
Load(w) ==
  LET loaded == OwnedOf(w, unfinished[w]) IN
  /\ phase[w] = "load"
  /\ phase' = [phase EXCEPT ![w] = "lanes"]
  /\ unfinished' = [unfinished EXCEPT ![w] = loaded]
  /\ stage' = [stage EXCEPT ![w] =
                 [r \in Rows |-> IF r \in loaded THEN "waiting" ELSE "out"]]
  /\ UNCHANGED <<leaseVars, lost, beating, missing, signal, stopped, orphaned, faults>>

LoadError(w) ==
  /\ phase[w] = "load"
  /\ Fault
  /\ phase' = [phase EXCEPT ![w] = "closing"]
  /\ UNCHANGED <<leaseVars, unfinished, stage, lost, beating, missing, signal, stopped, orphaned>>

(* A free lane takes the next loaded row: it is skipped when the beat has  *)
(* dropped it, else handleOne sends its confirm.                           *)
Start(w, r) ==
  /\ phase[w] = "lanes" /\ signal[w] = "none"
  /\ stage[w][r] = "waiting"
  /\ Cardinality(RunningRows(w)) + stopped[w] < Lanes
  /\ stage' = [stage EXCEPT ![w][r] = IF r \in unfinished[w] THEN "confirm" ELSE "out"]
  /\ UNCHANGED <<leaseVars, phase, unfinished, lost, beating, missing, signal, stopped, orphaned, faults>>

(* handleOne is over with r: running.delete, and the lane moves on. *)
Leave(w, r, s) ==
  /\ stage' = [stage EXCEPT ![w][r] = s]
  /\ lost' = [lost EXCEPT ![w] = @ \ {r}]

Settle(w, r) ==
  /\ Leave(w, r, "out")
  /\ unfinished' = [unfinished EXCEPT ![w] = @ \ {r}]

(* The confirm executes: it extends the lease, or finds the row not owned  *)
(* and the row is settled "lost".                                          *)
Confirm(w, r) ==
  /\ stage[w][r] = "confirm"
  /\ RenewSql(w, {r})
  /\ IF Owned(w, r)
       THEN /\ stage' = [stage EXCEPT ![w][r] = "confirmed"]
            /\ UNCHANGED <<unfinished, lost>>
       ELSE Settle(w, r)
  /\ UNCHANGED <<phase, beating, missing, signal, stopped, orphaned, faults>>

(* The confirm throws: the lane ends, the row stays unfinished. *)
ConfirmError(w, r) ==
  /\ stage[w][r] = "confirm"
  /\ Fault
  /\ MaybeCommitted(RenewSql(w, {r}))
  /\ Leave(w, r, "out")
  /\ stopped' = [stopped EXCEPT ![w] = @ + 1]
  /\ UNCHANGED <<phase, unfinished, beating, missing, signal, orphaned>>

(* The confirm's answer arrives: the handler starts unless the beat told   *)
(* the row meanwhile that its lease is lost.                               *)
Begin(w, r) ==
  /\ stage[w][r] = "confirmed"
  /\ IF r \in lost[w]
       THEN Settle(w, r)
       ELSE /\ stage' = [stage EXCEPT ![w][r] = "handle"]
            /\ UNCHANGED <<unfinished, lost>>
  /\ UNCHANGED <<leaseVars, phase, beating, missing, signal, stopped, orphaned, faults>>

(* The handler's work is done; its terminal write goes out. *)
Return(w, r) ==
  /\ stage[w][r] = "handle"
  /\ stage' = [stage EXCEPT ![w][r] = "complete"]
  /\ UNCHANGED <<leaseVars, phase, unfinished, lost, beating, missing, signal, stopped, orphaned, faults>>

(* The catch of handle: a row that lost its lease is settled "lost"; one   *)
(* interrupted by shutdown stays unfinished; any other failure is written  *)
(* by onError.                                                             *)
Catch(w, r) ==
  \/ r \in lost[w] /\ Settle(w, r)
  \/ r \notin lost[w] /\ signal[w] = "shutdown" /\ Leave(w, r, "halted") /\ UNCHANGED unfinished
  \/ /\ r \notin lost[w] /\ signal[w] # "shutdown"
     /\ stage' = [stage EXCEPT ![w][r] = "fail"]
     /\ UNCHANGED <<unfinished, lost>>

Throw(w, r) ==
  /\ stage[w][r] = "handle"
  /\ Catch(w, r)
  /\ UNCHANGED <<leaseVars, phase, beating, missing, signal, stopped, orphaned, faults>>

(* The terminal write executes and its answer settles the row, "handled"   *)
(* when it matched and "lost" when it did not.                             *)
Complete(w, r, newStatus, newDue) ==
  /\ stage[w][r] = "complete"
  /\ FinishSql(w, r, newStatus, newDue)
  /\ Settle(w, r)
  /\ UNCHANGED <<phase, beating, missing, signal, stopped, orphaned, faults>>

CompleteError(w, r, newStatus, newDue) ==
  /\ stage[w][r] = "complete"
  /\ Fault
  /\ MaybeCommitted(FinishSql(w, r, newStatus, newDue))
  /\ Catch(w, r)
  /\ UNCHANGED <<phase, beating, missing, signal, stopped, orphaned>>

(* onError: the failure write, which costs the attempt. *)
Fail(w, r, newStatus, newDue) ==
  /\ stage[w][r] = "fail"
  /\ FinishSql(w, r, newStatus, newDue)
  /\ Settle(w, r)
  /\ UNCHANGED <<phase, beating, missing, signal, stopped, orphaned, faults>>

(* Mutant: a row whose failure write throws stays unfinished, and is released *)
FailErrorReleases(w, r, newStatus, newDue) ==
  /\ stage[w][r] = "fail"
  /\ Fault
  /\ Leave(w, r, "out")
  /\ MaybeCommitted(FinishSql(w, r, newStatus, newDue))
  /\ UNCHANGED <<phase, unfinished, beating, missing, signal, stopped, orphaned>>

(* onError throws: the row is dropped without a release (that would refund *)
(* the attempt) and stays leased unless the write did commit.              *)
FailError(w, r, newStatus, newDue) ==
  /\ stage[w][r] = "fail"
  /\ Fault
  /\ Settle(w, r)
  /\ \/ FinishSql(w, r, newStatus, newDue) /\ UNCHANGED orphaned
     \/ UNCHANGED leaseVars /\ orphaned' = orphaned \cup OwnedOf(w, {r})
  /\ UNCHANGED <<phase, beating, missing, signal, stopped>>

-----------------------------------------------------------------------------
(* The heartbeat, one renewal at a time, over the rows unfinished now.  A  *)
(* row finished between the snapshot and the statement is not renewed and, *)
(* when the answer comes, not found: the two are one step.                 *)
Beat(w) ==
  /\ phase[w] \in {"load", "lanes"}
  /\ ~beating[w] /\ unfinished[w] # {}
  /\ RenewSql(w, unfinished[w])
  /\ beating' = [beating EXCEPT ![w] = TRUE]
  /\ missing' = [missing EXCEPT ![w] = unfinished[w] \ OwnedOf(w, unfinished[w])]
  /\ UNCHANGED <<phase, unfinished, stage, lost, signal, stopped, orphaned, faults>>

(* `lose`: a running row is only told, an idle one is dropped. *)
BeatAnswer(w) ==
  /\ beating[w]
  /\ beating' = [beating EXCEPT ![w] = FALSE]
  /\ missing' = [missing EXCEPT ![w] = {}]
  /\ lost' = [lost EXCEPT ![w] = @ \cup (missing[w] \cap RunningRows(w))]
  /\ unfinished' = [unfinished EXCEPT ![w] = @ \ (missing[w] \ RunningRows(w))]
  /\ UNCHANGED <<leaseVars, phase, stage, signal, stopped, orphaned, faults>>

(* Mutant: a failed renewal drops the idle rows, as a lost lease does *)
BeatErrorLoses(w) ==
  /\ beating[w]
  /\ Fault
  /\ beating' = [beating EXCEPT ![w] = FALSE]
  /\ missing' = [missing EXCEPT ![w] = {}]
  /\ unfinished' = [unfinished EXCEPT ![w] = @ \cap RunningRows(w)]
  /\ UNCHANGED <<leaseVars, phase, stage, lost, signal, stopped, orphaned>>

(* A failed renewal is not a lost lease: the next beat retries. *)
BeatError(w) ==
  /\ beating[w]
  /\ Fault
  /\ beating' = [beating EXCEPT ![w] = FALSE]
  /\ missing' = [missing EXCEPT ![w] = {}]
  /\ UNCHANGED <<leaseVars, phase, unfinished, stage, lost, signal, stopped, orphaned>>

-----------------------------------------------------------------------------
(* Mutant: one lane's error ends the wait for the others *)
LanesEndEarly(w) ==
  /\ phase[w] = "lanes"
  /\ stopped[w] > 0 \/ RunningRows(w) = {}
  /\ \/ \A r \in Rows : stage[w][r] # "waiting"
     \/ signal[w] # "none"
     \/ stopped[w] > 0
  /\ phase' = [phase EXCEPT ![w] = "closing"]
  /\ UNCHANGED <<leaseVars, unfinished, stage, lost, beating, missing, signal, stopped, orphaned, faults>>

(* Promise.all(lanes): no lane has a row, and none will take another. *)
LanesEnd(w) ==
  /\ phase[w] = "lanes"
  /\ RunningRows(w) = {}
  /\ \/ \A r \in Rows : stage[w][r] # "waiting"
     \/ signal[w] # "none"
     \/ stopped[w] >= Lanes
  /\ phase' = [phase EXCEPT ![w] = "closing"]
  /\ UNCHANGED <<leaseVars, unfinished, stage, lost, beating, missing, signal, stopped, orphaned, faults>>

(* The batch's state is gone. *)
Forget(w) ==
  /\ unfinished' = [unfinished EXCEPT ![w] = {}]
  /\ stage' = [stage EXCEPT ![w] = [r \in Rows |-> "out"]]
  /\ lost' = [lost EXCEPT ![w] = {}]
  /\ stopped' = [stopped EXCEPT ![w] = 0]

(* The finally block: once no renewal is in flight, release what is left.  *)
(* Owned rows outside spec.releasable stay leased, for recovery.           *)
Close(w, releasable, releaseStatus) ==
  /\ phase[w] = "closing" /\ ~beating[w]
  /\ ReleaseSql(w, unfinished[w] \cap releasable, releaseStatus)
  /\ orphaned' = orphaned \cup OwnedOf(w, unfinished[w] \ releasable)
  /\ Forget(w)
  /\ phase' = [phase EXCEPT ![w] = "idle"]
  /\ UNCHANGED <<beating, missing, signal, faults>>

CloseError(w, releasable, releaseStatus) ==
  /\ phase[w] = "closing" /\ ~beating[w] /\ unfinished[w] # {}
  /\ Fault
  /\ \/ /\ ReleaseSql(w, unfinished[w] \cap releasable, releaseStatus)
        /\ orphaned' = orphaned \cup OwnedOf(w, unfinished[w] \ releasable)
     \/ UNCHANGED leaseVars /\ orphaned' = orphaned \cup OwnedOf(w, unfinished[w])
  /\ Forget(w)
  /\ phase' = [phase EXCEPT ![w] = "idle"]
  /\ UNCHANGED <<beating, missing, signal>>

-----------------------------------------------------------------------------
(* The run's timeout aborts its signal. *)
Timeout(w) ==
  /\ phase[w] \in {"load", "lanes"} /\ signal[w] = "none"
  /\ Fault
  /\ signal' = [signal EXCEPT ![w] = "timeout"]
  /\ UNCHANGED <<leaseVars, phase, unfinished, stage, lost, beating, missing, stopped, orphaned>>

(* The next tick starts a run with a new signal. *)
NextTick(w) ==
  /\ phase[w] = "idle" /\ signal[w] = "timeout"
  /\ signal' = [signal EXCEPT ![w] = "none"]
  /\ UNCHANGED <<leaseVars, phase, unfinished, stage, lost, beating, missing, stopped, orphaned, faults>>

(* JobRunner.stop: at the deadline the running job is aborted with a       *)
(* WorkerShutdownError (a signal already aborted keeps its first reason);  *)
(* no run starts after it.                                                 *)
Shutdown(w) ==
  /\ w \in Stoppable
  /\ signal[w] = "none" \/ (phase[w] = "idle" /\ signal[w] = "timeout")
  /\ phase[w] # "dead"
  /\ signal' = [signal EXCEPT ![w] = "shutdown"]
  /\ UNCHANGED <<leaseVars, phase, unfinished, stage, lost, beating, missing, stopped, orphaned, faults>>

(* The process dies: its leases stay in the table.  A restarted process    *)
(* has another worker id.                                                  *)
Crash(w) ==
  /\ w \in Stoppable /\ phase[w] # "dead"
  /\ Fault
  /\ phase' = [phase EXCEPT ![w] = "dead"]
  /\ Forget(w)
  /\ beating' = [beating EXCEPT ![w] = FALSE]
  /\ missing' = [missing EXCEPT ![w] = {}]
  /\ orphaned' = orphaned \cup OwnedOf(w, Rows)
  /\ UNCHANGED <<leaseVars, signal>>

(* One UPDATE of a LeaseRecoveryJob run, in any live process. *)
Recover(S, newStatus, newDue) ==
  /\ RecoverSql(S, newStatus, newDue)
  /\ orphaned' = {r \in orphaned : ~(Stale(r) /\ r \in S)}
  /\ UNCHANGED <<batchVars, faults>>
=============================================================================
