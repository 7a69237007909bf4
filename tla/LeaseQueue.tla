----------------------------- MODULE LeaseQueue -----------------------------
(***************************************************************************)
(* A table leased row by row: packages/db/src/lease-queue/lease-queue.ts.  *)
(* Every queue of the system (outbox_events, email_logs, the abstract book *)
(* jobs) is such a table.  This module holds the lease columns and one     *)
(* operator per statement createLeaseQueue runs; each statement is one     *)
(* autocommit UPDATE and therefore one atomic change of the columns.  The  *)
(* queue's own fragments (claimable, releaseSet, recovery.retrySet ...)    *)
(* come in as arguments: the set of rows a WHERE selects and the values a  *)
(* SET assigns.                                                            *)
(*                                                                         *)
(* Time.  The code compares the database clock with two columns only:      *)
(* locked_until (is the lease over?) and next_attempt_at (is the row due?).*)
(* Each comparison is one Boolean here: expired and due.  LeaseRunsOut and *)
(* BecomesDue let the clock pass either column at any moment.              *)
(***************************************************************************)
EXTENDS Naturals, FiniteSets

CONSTANTS Rows,          \* ids of the table's rows
          Workers,       \* worker ids (makeWorkerId: unique per process and job)
          Nobody,        \* locked_by IS NULL
          LeasedStatus   \* spec.leasedStatus

ASSUME NobodyIsNoWorker == Nobody \notin Workers

VARIABLES status,     \* "status"
          attempts,   \* "attempt_count"
          due,        \* "next_attempt_at" IS NULL OR <= now
          lockedBy,   \* "locked_by"
          expired     \* "locked_until" < now

leaseVars == <<status, attempts, due, lockedBy, expired>>

Leased(r) == status[r] = LeasedStatus

(* The ownership test of every owner write.  It does not look at           *)
(* locked_until: an expired lease nobody has recovered is still owned.     *)
Owned(w, r) == Leased(r) /\ lockedBy[r] = w

OwnedOf(w, S) == {r \in S : Owned(w, r)}

Stale(r) == Leased(r) /\ expired[r]

(* f with the rows of S changed to what g says *)
Set(f, S, g(_)) == [r \in Rows |-> IF r \in S THEN g(r) ELSE f[r]]

(* "locked_at" = NULL, "locked_until" = NULL, "locked_by" = NULL *)
ClearLease(S) ==
  /\ lockedBy' = Set(lockedBy, S, LAMBDA r : Nobody)
  /\ expired' = Set(expired, S, LAMBDA r : FALSE)

-----------------------------------------------------------------------------
(* The claim UPDATE: S is what the inner SELECT ... FOR UPDATE SKIP LOCKED *)
(* picked.                                                                 *)
ClaimSql(w, S) ==
  /\ status' = Set(status, S, LAMBDA r : LeasedStatus)
  /\ attempts' = Set(attempts, S, LAMBDA r : attempts[r] + 1)
  /\ lockedBy' = Set(lockedBy, S, LAMBDA r : w)
  /\ expired' = Set(expired, S, LAMBDA r : FALSE)
  /\ UNCHANGED due

(* renew, and confirm for one row: a new lease end for the rows of S that  *)
(* w still owns.                                                           *)
RenewSql(w, S) ==
  /\ expired' = Set(expired, OwnedOf(w, S), LAMBDA r : FALSE)
  /\ UNCHANGED <<status, attempts, due, lockedBy>>

(* Mutant: the terminal write forgets locked_by *)
FinishSqlAnyOwner(w, r, newStatus, newDue) ==
  LET hit == {x \in {r} : Leased(x)} IN
  /\ status' = Set(status, hit, LAMBDA x : newStatus)
  /\ due' = Set(due, hit, LAMBDA x : newDue)
  /\ ClearLease(hit)
  /\ UNCHANGED attempts

(* Mutant: the terminal write selects the row by its id alone *)
FinishSqlById(w, r, newStatus, newDue) ==
  /\ status' = [status EXCEPT ![r] = newStatus]
  /\ due' = [due EXCEPT ![r] = newDue]
  /\ ClearLease({r})
  /\ UNCHANGED attempts

(* complete and fail: the caller's SET and the end of the lease, only      *)
(* while w owns the row.                                                   *)
FinishSql(w, r, newStatus, newDue) ==
  LET hit == OwnedOf(w, {r}) IN
  /\ status' = Set(status, hit, LAMBDA x : newStatus)
  /\ due' = Set(due, hit, LAMBDA x : newDue)
  /\ ClearLease(hit)
  /\ UNCHANGED attempts

(* release: owned rows of S go back uncharged; newStatus[r] is releaseSet, *)
(* evaluated on the claimed row.                                           *)
ReleaseSql(w, S, newStatus) ==
  LET hit == OwnedOf(w, S) IN
  /\ status' = Set(status, hit, LAMBDA r : newStatus[r])
  /\ attempts' = Set(attempts, hit,
                     LAMBDA r : IF attempts[r] = 0 THEN 0 ELSE attempts[r] - 1)
  /\ due' = Set(due, hit, LAMBDA r : TRUE)
  /\ ClearLease(hit)

(* One UPDATE of recoverStale: the stale rows of S are moved out of the    *)
(* leased status whoever owns them.  The attempt stays charged.            *)
RecoverSql(S, newStatus, newDue) ==
  LET hit == {r \in S : Stale(r)} IN
  /\ hit # {}
  /\ status' = Set(status, hit, LAMBDA r : newStatus)
  /\ due' = Set(due, hit, LAMBDA r : newDue)
  /\ ClearLease(hit)
  /\ UNCHANGED attempts

-----------------------------------------------------------------------------
(* The database clock passes locked_until: the worker is dead, its renewals*)
(* fail, or its event loop stalls for longer than the lease.               *)
LeaseRunsOut(r) ==
  /\ Leased(r) /\ ~expired[r]
  /\ expired' = [expired EXCEPT ![r] = TRUE]
  /\ UNCHANGED <<status, attempts, due, lockedBy>>

(* The database clock passes next_attempt_at. *)
BecomesDue(r) ==
  /\ ~due[r]
  /\ due' = [due EXCEPT ![r] = TRUE]
  /\ UNCHANGED <<status, attempts, lockedBy, expired>>
=============================================================================
