# Verification of the focale backend

TLA+ models of the parts of this repository whose correctness depends on
interleavings, failures and retries, the TLC runs that check them on small
instances, and TLAPS proofs of the results that matter for every instance.
Source paths below are relative to the repository root.

## 1. The system

focale is an event platform: registrations with payment and sponsorship,
access items with limited seats, abstracts and their review, certificates,
check-in, networking, and the emails about all of it. It runs as

* **api** (`apps/api`), any number of HTTP processes;
* **worker** (`apps/worker`), any number of processes running interval jobs;
* **PostgreSQL**, the only shared state. Every coordination between processes
  is a row: a lease, a lock, a unique index, a compare-and-set update;
* external services: email providers (SendGrid or Resend), object storage.

### Inventory

| component | state | operations | what is hard | what makes it correct |
|---|---|---|---|---|
| lease queue (`packages/db/src/lease-queue/lease-queue.ts`) | `status`, `attempt_count`, `next_attempt_at`, `locked_by`, `locked_until` of a table | claim, renew, confirm, complete, fail, release, recoverStale | statements of two owners of one row in any order | a lease ends only by its holder or, expired, by recovery; attempt counts never wedge a row |
| `runLeased` (`run-leased.ts`) | the batch in memory: `unfinished`, `running`, lanes, the heartbeat | claim a batch, beat, confirm, handle, write the outcome, release | memory is stale against the table; errors of every await; timeout, shutdown, crash | what the table says a worker holds and what its batch tracks agree |
| job runner, poller (`apps/worker/src/job-runner.ts`, `packages/shared/src/poller.ts`) | one abort controller per running job | tick, timeout, stop | timeout racing shutdown racing a lost lease | one run of a job at a time per process; the first abort reason counts |
| outbox (`packages/db/src/outbox/*.ts`) | `outbox_events` | enqueue with dedupe key, drain in two scopes, dead letter, requeue, retention | redelivery, poison rows, retention racing the drain | each row settles, once; a key is used once |
| email queue (`packages/db/src/queries/email-queue.ts`, `packages/integrations/src/email/*.ts`) | `email_logs`, with `retry_count` and `provider_attempted_at` | enqueue, drain, send-now, webhook, admin resend, recovery | the provider call is an effect outside the database | at most one email per log; no log lies about it |
| abstract book jobs (`packages/db/src/queries/abstracts/book-queue.ts`, `apps/worker/src/jobs/abstract-book.job.ts`) | a third lease queue, one active job per event | enqueue, render, upload, complete | the upload is outside the transaction | the stored file is the completed job's |
| settlement (`packages/db/src/settlement/*.ts`, `packages/shared/src/settlement.ts`) | amounts and status of a registration, sponsorship usages, paid seat counters | settle, link, unlink, change coverage, drop access | concurrent payments, links and drops of one registration | amounts, usages, status and counters agree |
| registrations, access, sponsorships (`apps/api/src/modules/{registrations,access,sponsorships}`) | registrations, access items, batches and codes | create, edit, confirm payment, upload proof, delete | last seat, last code, edits racing payments | capacity is respected, a code is used once |
| abstracts (`apps/api/src/modules/abstracts`, `packages/db/src/queries/abstracts`) | abstracts, reviews, committee, themes, code counters, final files | submit, edit, assign, score, decide, reopen, upload, edit themes | checks made before a transaction, stored aggregates, numbers that must not come back, uploads in three steps | the aggregate is that of the active reviews, a decision's record is kept, a number is given once |
| networking: meetings (`apps/api/src/modules/networking`, `packages/db/src/queries/networking*.ts`) | meetings, reservations per resource and quantum, tables, access, blocks, undo snapshots | swipe, request, counter, answer, check in, expire, block, assign, cancel, restore, change tables, slots or access | a restore meets a changed world; an acceptance carries no revision | nobody and no table is booked twice; a meeting to come is possible and both agreed to it |
| networking: notifications (`packages/integrations/src/networking/*.ts`, `networking-delivery.ts`, `networking-email-tracking.ts`) | `networking_deliveries` with their own leases, their email logs, progress in the payload | claim, email, push, report, maintenance | a lease known only by its end time, claimed again without a recovery; the provider call is outside the database | one email per delivery; every delivery and its log end |
| check-in, realtime, migrator, health, forms, pricing, identity, reports, storage, certificates | | | | listed in `PROJECT.json`, with the reason when they are left out |

`PROJECT.json` lists every component with its files and its status, and under
`hazards` the lines where the code is exposed to what a test would hardly reach.

### How the parts interact

Domain transactions insert outbox rows in the same transaction as their data.
The worker drains the background rows and the api's realtime pump the realtime
ones. Outbox handlers insert email logs, which the email job drains. Both jobs
(and the abstract book job) are `runLeased` over a `createLeaseQueue`; one
`LeaseRecoveryJob` recovers the expired leases of all of them, in every worker
process. The lease queue is therefore the part on which everything else rests,
and it is modelled first. The networking notifications are the exception: they
have a table, lanes and a lease of their own, and share only `email_logs`, whose
rows they own and the email job's recovery leaves alone.

## 2. Modules

| module | models |
|---|---|
| `LeaseQueue` | the lease columns of a table and one operator per SQL statement of `createLeaseQueue` |
| `RunLeased` | `runLeased`/`runBatch`: a worker's memory and its steps, the job's timeout, shutdown and crash, and `LeaseRecoveryJob`; extends `LeaseQueue` |
| `Outbox` | `outbox_events` as such a queue: enqueue, both scopes, dead letters, requeue, retention; extends `RunLeased` |
| `EmailQueue` | `email_logs` as such a queue: `processEmail`, the provider, recovery, send-now, webhooks, admin resend; extends `RunLeased` |
| `EmailProofs` | the theorems about `EmailQueue` |
| `AbstractBook` | `abstract_book_jobs` as such a queue: the render, the upload, the statements of `enqueueAbstractBookJob`; extends `RunLeased` |
| `BookProofs` | the theorems about `AbstractBook` |
| `LeasedWork` | the abstract specification: what a lease queue promises |
| `OutboxProofs`, `OutboxRefinement` | the theorems about `Outbox` |
| `Settlement` | registrations, sponsorships, their links and the paid places of access items: the pure functions of `packages/shared/src/settlement.ts` and `sponsorship-math.ts`, and every operation of the api and the worker that settles a registration |
| `SettlementProofs` | the theorems about `Settlement` |
| `AbstractReview` | abstracts from submission to decision: the author, the committee, the admin, themes and printed codes, final files |
| `ReviewProofs` | the theorems about `AbstractReview` |
| `NetworkingMeetings` | requests, answers, reservations and the organizer's operations of the one-to-one meetings |
| `NetworkingProofs` | the theorems about `NetworkingMeetings` |
| `NetworkingDelivery` | the delivery of networking notifications: claims, lanes, email log, push, report, maintenance |
| `DeliveryProofs` | the theorems about `NetworkingDelivery` |
| `MCOutbox`, `MCEmail`, `MCBook`, `MCSettlement`, `MCAbstracts`, `MCNetworking`, `MCDelivery` | the instances for TLC |

### State and steps

*The table.* Each statement of `createLeaseQueue` is one autocommit `UPDATE`,
so one atomic change of the columns: `ClaimSql`, `RenewSql`, `FinishSql`
(complete and fail), `ReleaseSql`, `RecoverSql`. The queue's own SQL fragments
(`claimable`, `releaseSet`, `releasable`, `recovery`) are the arguments. The
claim picks any few claimable rows: `ORDER BY ... LIMIT ... FOR UPDATE SKIP
LOCKED` skips what another transaction holds, so no order can be relied on.

*Time.* The code compares the database clock with two columns. Each comparison
is a Boolean (`expired`, `due`) that the clock may flip at any moment, which is
every timing the code can meet, a worker stalled for longer than its lease
included.

*A worker* is one process running one job. Its steps interleave with the others
at its awaits. A statement executes at the database and its answer is a
callback that comes later; where another callback of the same process can come
in between and matter, the answer is a step of its own (`Beat`/`BeatAnswer`,
`Confirm`/`BeginHandler`). The points of `handleOne` are the values of `stage`.
`unfinished`, `lost` (the rows whose controller was aborted) and `orphaned` (a
history variable: rows the code knowingly leaves to recovery) complete the
batch. `drainUntil` loops are repeated claims.

*Failures.* Every statement may answer with an error, having committed or not
(`...Error` actions, `MaybeCommitted`, `ClaimLost`). A run may time out, a
process may be shut down or die. `MaxFaults` bounds their number.

*Email.* `send` is where `processEmail` is with a row: before the marker
(`provider_attempted_at`), marked, or with an outcome to be written. The
provider is external: a call is accepted, rejected, ambiguous (which may have
been taken or not) or, for Resend, ambiguous and safe to repeat under the same
key. `delivered` counts the emails the provider takes for a log. A webhook reads
the status and writes with a guard in a second step. `Rank` is `STATUS_RANK`
shifted by one so that an unranked status is 0; `blocked`, `spam_report` and
`unsubscribe` map to the statuses of `dropped` and `bounce` and add no case.

*Books.* `uploading` is the upload in flight, which no signal interrupts, and
`file` whose upload the object storage (external) holds under the job's key: the
last one to arrive. `completer` is who wrote the result columns. A request is a
call of `enqueueAbstractBookJob` at one of its statements: the two updates of its
own `recoverStale`, the look for an active job, the insert under the partial
unique index, and the second look after a refused insert.

*Settlement.* Every operation is one `withLockingTxn` that locks its rows before
it reads them, so one action; a refusal rolls back and is a disabled action. `reg`
holds a registration's status, paid amount, payment date (as a Boolean), total,
sponsorship amount, priced answer, items and signup code; `links` is
`sponsorship_usages`; `paidCount` the `paid_count` of the items; `drops` the items
with an `access.capacityReached` event the worker has yet to work off.
`Recomputed` is `recomputeRegistrationSponsorship`, `Derived` is
`deriveSettlement`, `PaidPlaces` is `paidAccessQuantities`, and `Commit` the
writer with `applyPaidAccessDelta`: the rows, the compare-and-set of each counter,
and the event of an item that filled up. The amount of a usage is a function of
the sponsorship and the registration (every operation that changes either
recomputes it), so `links` does not store it, and `AmountFollowsUsages` says the
registration's stored sum keeps up. What the form prices is an `Answer`: the base
after the pricing rules, and the options. `uncounted` is a history variable (see
`settlement_drift`).

*Abstracts.* A handler that checks the database and then opens a transaction is
two steps, with the request in `inflight` between them; what the transaction
reads again under its locks is read in the second step. An upload is three
(`upload`): the object is stored, the row rewritten, and the old object deleted or,
after any error of the second step, the new one; the commit's answer may be lost, a
deletion may fail and the process may die in between. `abs`, `review`, `member`, `prefs`, `theme` and
`counter` are the tables, `computeReviewAggregate` and `deriveReviewStatus` the
functions of `review-aggregate.ts`; an average is kept as the sum and the count
it is the quotient of. `decided`, `printed` and `leftDecided` are history.

*Meetings.* Every write is a SERIALIZABLE transaction retried until it commits,
or one statement, so one action; an attempt that finds its hour locks too narrow
has written nothing. Time is counted in the quanta of the reservations (five
minutes). `held` has one record per resource and quantum; a meeting's claims are
the participants' keys, the requester's hold while the request is pending, and its
table or the representative of its stand. `undo` is the latest restorable access
snapshot of a profile. `agreed` is history: the times each participant proposed or
accepted.

*Deliveries.* A lease has no owner column and no heartbeat. A lane knows its lease
by the exact `locked_until` it read; the model keeps which lane that is
(`holder`), and nobody when the answer of a claim or a refresh was lost. The fence
of `updateNetworkingDelivery` compares with the worker's clock and may still pass
after the database says that the lease is over; `ownsDelivery`, inside a
transaction, does not. `available_at` and the log's own lease only delay a step
and are not kept. What a read of the context decides (eligibility, preference,
subscriptions) may differ between two reads. `taken` counts the emails the provider
took; `blinded` is history (see `delivery_blind`).

### What the code does that a reader may not expect

The properties are stated so as to be true of these. None contradicts a comment
or a test unless it says so; those with a run are in section 4.

* The ownership test does not look at `locked_until`: an expired lease that
  nobody has recovered is still owned, and its holder may still write.
* A failed failure-write leaves the row leased instead of releasing it: release
  would refund the attempt of a row that fails every time (`FailError`).
* A Resend email, a networking delivery's too, may end FAILED or SKIPPED although
  an earlier attempt of the same log was taken: the marker is cleared for the retry.
  That part of `StatusTellsTruth` is therefore about SendGrid, and about send-now
  emails with either provider; that of `OutcomesTellTruth` is about SendGrid.
* A row whose marker write committed but answered with an error, in a process
  that then shuts down, is parked UNCERTAIN although it was never sent.
* A registrant's edit can leave a registration paid more than it owes: a
  signup code that covers only an item not selected applies nothing; once the
  registrant has paid, the total never goes down, and adding the covered item
  raises the sponsorship. `OnlySelfEditOverpays` says that nothing else does.
* `updateRegistration` and the payment part of `adminEditRegistration` accept
  PAID with an amount below the net; `confirmPayment` and a price edit do not.
* A webhook that settles a row leaves its lease columns set; the ownership test
  on `status` is what keeps the holder's later write away.
* `updateTheme` checks the coded abstracts and the sort order, then writes with a
  plain UPDATE. `ActiveThemesNeverCollide` is what survives that race.
* The order of a soft-deleted theme may be used again while its codes are still
  in use: the new theme counts from 1, the acceptance meets the unique code and
  rolls back with its counter, and so does every later one. A comment of
  `abstracts.config.service.ts` ("a reused sortOrder from a soft-deleted theme is
  fine") reads otherwise. No run is about it: nothing is numbered twice.
* `setReviewerThemesTxn` does not look again whether the reviewer is a member. A
  member removed while an abstract is decided keeps the review, which is active
  again after a reopening: `ReviewersAreMembers` excepts exactly those.
* An acceptance of a meeting carries no revision: it accepts the proposal it finds,
  which may be newer than the one on the screen. It is still one the other side
  made (`BothAgreed`).
* Only a new request checks that a pair has no other meeting open. An assignment
  without a table drops the meeting's table when tables are not assigned
  automatically. Restoring access is all or nothing and depends on the order of
  the rows.

## 3. Runs

`CHECK_DEADLOCK FALSE` for the queues, the abstracts, the meetings and the
deliveries: what an instance can do is finite and the system comes to rest. The
settlement run checks deadlock. Symmetry is over ids that are interchangeable, only
in runs without liveness properties.

| run | instance | shows | states |
|---|---|---|---|
| `outbox` | a row without a key and 2 with one key, 2 workers of which one may stop or die, 2 lanes, 2 attempts, 2 faults, 1 requeue, fair | `NoLeakedLease`, `NeverWedged`, `StartsBounded`, `LeaseEndsRightly`, `FinishedIsFinal`, `OneRowPerKey`, `EveryRowSettles`, and the outbox implements `LeasedWork` | 305 000 |
| `email_sendgrid` | 1 email or its copy, 2 workers, 2 faults, 1 retry, 2 webhooks at once | `OneEmailPerLog`, `StatusTellsTruth`, `CountersAgree`, `MarkedIsCharged`, `ReportsOnlyAdvance` | 1 362 000 |
| `email_resend` | 1 queued or send-now email, 2 workers of which one may stop, 1 fault, Resend, fair | `SendNowStaysOut`, `EveryEmailSettles` | 204 000 |
| `book_queue` | 2 jobs of one event, 2 requests, 2 workers of which one may stop, 2 faults, 2 attempts, fair | `CompletedHasBook`, `OneActiveJob`, `EveryJobEnds`, and the book queue implements `LeasedWork`, a request's own recovery included | 202 000 |
| `settlement` | 2 registrations, 2 sponsorships, 1 item with 1 place, 2 answers, a payment of 2, a free event | `PlacesCounted`, `UsedWhileLinked`, `AmountFollowsUsages`, `PaidPriceLocked`, `RefundIsFinal`, `OnlySelfEditOverpays` | 23 000 |
| `abstracts` | 2 abstracts, 2 authors, 3 reviewers of which 2 are needed, 2 themes, 2 scores, 2 uploads, 2 decisions, 1 request in flight | `AggregateFresh`, `ReviewersAreMembers`, `DecisionRecordKept`, `CodesNotReissued`, `ActiveThemesNeverCollide`, `StoredUnlessDiscarded` | 311 000 |
| `networking_meetings` | 3 participants, a table and a stand, 2 meetings, 2 quanta, 2 configurations | `ReservationsFollowStatus`, `NoDoubleBooking`, `BookingsStayValid`, `BlockedNeverMeet`, `BothAgreed` | 352 000 |
| `networking_delivery` | a sign-in code (2 code lanes), or a notice or a report (2 general lanes), of which one lane may stop, 1 fault, 2 attempts, SendGrid, fair | `OneEmailPerDelivery`, `OutcomesTellTruth`, `HolderDecides`, `EveryDeliveryEnds` | 242 000 |
| `book_clobbered` | 1 job, 2 workers | `ResultNotClobbered` is violated (section 4) | |
| `settlement_drift` | 2 registrations, 1 sponsorship, 1 place | `NoCountDrift` is violated (section 4) | |
| `delivery_blind` | a sign-in code, 2 code lanes, 1 fault, 3 attempts | `NeverSentAgainBlind` is violated (section 4) | |
| `delivery_untrue` | a sign-in code, 2 code lanes, 1 fault, 2 attempts | `FailedWasNotSent` is violated (section 4) | |

*Why these bounds.* A race over a lease needs a row, a worker that lost it and
the worker that has it now: two workers and one row. Two faults allow a failure
and the failure of the step that handles it. Two attempts (one retry) are the
least at which "last attempt" and "one left" differ. Rows of one queue meet only in
a batch and in a dedupe key: `outbox` has a key, and a batch of two rows in two
lanes, where one lane's confirm or handler fails while the other's runs (a release
under a running handler would break `LeaseEndsRightly`). The email and book runs
have one lane. Safety and refinement of the outbox are theorems
(section 5), which have no bounds, so its run can be the smaller for them.
`OneEmailPerLog` with Resend is not a property of a run: it is what the provider's
deduplication, an assumption of the model, says.

*Stories.* Several MC modules have a constraint (`OneStory`) that names the
combinations a run follows, because the product of all of them is out of reach:

* `MCOutbox`: two workers and their faults over the row without a key, or one
  worker's two lanes over a keyed row and that one with at most one fault. A row is
  requeued when it met no fault and no keyed row is there, a keyed one tried again
  when it is alone and met none;
* `MCEmail`: a send-now email, or a queued one with two workers, or an admin's
  copy with one worker and one fault and no webhook in flight;
* `MCBook`: two workers and their faults over the job of one request, or two
  requests over the jobs of one worker without faults (`InOrder` only names the
  interchangeable ids);
* `MCSettlement`: two registrations, pending or sponsored, that share a
  sponsorship and a place, or one registration with a sponsorship, two answers
  and a payment, or one that has paid nothing with two sponsorships. Registrations meet only in the counter of an item and in a
  sponsorship, which the first has, and amounts interact within one registration,
  which the second has; the proofs cover the counters for any number of both. An
  item of price 1, a free answer and one of base 2 (by a pricing rule: a free
  event's own base price is 0) with an option of 1 that no sponsorship covers, and
  a payment of 2 make every order of paid amount, net, total and sponsorship limit
  occur;
* `MCAbstracts`: one abstract edited (under two committee accounts), reviewed and decided; or two abstracts and two
  themes without a committee; or one abstract decided twice while its files are
  uploaded. Preferences are set while nobody reviews. `DistributeByTheme` is FALSE;
* `MCNetworking`: one meeting with at most two blocks, disabled tables and changes
  of access at a time, or two meetings that share a participant and overlap, with
  three proposals or acceptances. The proofs have no such bound;
* `MCDelivery`: one delivery at a time. The fault of a code may come anywhere, that
  of a notice until its email begins; webhooks report on codes. Batches have one row, since rows
  of a batch are worked off one after another and share nothing.

TLC does not look beyond a state that breaks a constraint, so a run says nothing of
the behaviours that leave its stories, of liveness neither: a behaviour that ends at
the border is not fair, and counts neither for nor against a liveness property.

`networking_delivery` meets a claim that cannot begin and clears the marker of an
earlier one: the exception of `OutcomesTellTruth` is then used, and `delivery_untrue`
is about it. With two attempts such a delivery is not yet sent twice (that takes a
claim that sends, one that clears and one that sends again), so the exception of
`OneEmailPerDelivery` is not used there; `delivery_blind` has three attempts.

`EveryRowSettles` says that all present rows are settled again and again. Rows are
enqueued and requeued a bounded number of times, so this is more than that each row
settles after it was enqueued.

*Fairness.* Weak fairness of every step of a process that is up: its event loop
keeps running its awaits and its interval timers (`startPoller`), the recovery
job included; the clock passes every lease end and retry time; a handler and a
provider call end (they have statement and HTTP timeouts: a handler that never
settles would keep its slot, a hazard the code accepts). No fairness of faults,
enqueues, webhooks, requests, operators or of a worker that stopped: `Stoppable` leaves one
worker up. For deliveries likewise: the lanes that stay up, the two statements of the maintenance
job that `EveryDeliveryEnds` needs, and the clock, which ends some lease as long as
one runs (a delivery has few attempts, so in the end all of them).

Every property has a mutant in `PROJECT.json`: a definition of the model changed
as a plausible bug would change the code (commented "Mutant" in the modules) that
violates it.

`LeasedWork` sees rows and holders only, so it cannot tell a recovery that comes
too early from the holder giving the row up: `LeaseEndsRightly` is the sharper
property for that, and `NoLeakedLease` for the opposite.

## 4. Where the code and its comments disagree

* `book_clobbered`. `book-queue.ts` says of the lease columns "so a worker that
  lost its lease can't clobber another's result". The columns are fenced, the
  file is not: both attempts upload under one key, so a worker whose lease ran
  out during its upload replaces the book of the attempt that completed the job,
  and the included count stored then belongs to another file.
  `CompletedHasBook` is what does hold.
* `settlement_drift`. `uploadPaymentProof` writes VERIFYING without moving paid
  places, because "PARTIAL and VERIFYING retain the same sponsored seats". But
  PENDING may also become VERIFYING, and a PENDING registration may have linked
  sponsorships: an admin set it to PENDING, or sent its first proof back
  (VERIFYING to PENDING releases the places; the second upload does not take
  them again). It then holds places that `paid_count` does not count, the
  `count_drift` of `invariants.ts`: the item can be sold beyond its capacity, and
  a later release fails with `AccessPaidCountUnderflowError`, which rolls back
  the admin's operation. `PlacesCounted` says that this is the only drift.
* `delivery_blind`. `sendEmailChannel` says of the marker "past this point the email
  is never sent again blind". When `beginNetworkingEmailLog` throws, its catch takes
  it that "nothing reached the provider in this claim" and records the outcome
  failed, which clears the marker, also one that an earlier claim left before it
  died or lost its lease. The next claim then sends the email again. It takes a
  crash (or an expired lease) after the call and a failing statement in the next
  claim. `OneEmailPerDelivery` says that nothing else sends twice.
* `delivery_untrue`. `networking-email-tracking.ts` says of a `failed` outcome "nothing
  was sent (a rejection, or an error before the call)", with an ambiguous Resend
  call as its only exception. The same catch records that outcome for a delivery that
  an earlier claim may have sent. When the claim that could not begin was the last,
  the log ends FAILED for an email that was taken. `OutcomesTellTruth` says that
  nothing else does, and that the marker of such a delivery was cleared that way.

Two more were met and have no run of their own.

* `uploadAbstractFinalFile` says in its catch "The row still points at the previous
  file; drop the one nobody references". The catch is also reached when the
  transaction committed and its answer was lost. The row then names the new object,
  and the code deletes it: the abstract has no final file until the next upload, and
  the previous one stays behind unreferenced. `abstracts` contains this step
  (`updateAbstractFinalFileTxn` with the answer lost, then `deleteNewFile`), and the
  exception of `StoredUnlessDiscarded` is exactly that the file's own request
  deleted it after a lost answer: without the exception the run fails on these steps.
* `enqueueAbstractBookJob` says that the unique index "backstops the remaining
  check-then-insert race with the same idempotent response"; when the job that won
  the insert is over by the time of the second look, the loser rethrows the unique
  violation instead.

## 5. Proofs

### Outbox

For every set of rows and workers, every number of lanes,
attempts, faults and requeues and every assignment of dedupe keys, from the named
assumptions `NobodyIsNoWorker`, `RunLeasedConstants`, `OutboxConstants`, which
only say that the constants have the right kind (TLC evaluates them in every
run).

* `NeverWedgedHolds`, `OneRowPerKeyHolds`, `NoLeakedLeaseHolds`: the invariants of
  the runs. `TypeCorrect` and `CompactedNeverRunsHolds` (an emptied row is never
  queued or leased again) are stated by the proofs alone.
* `StartsBoundedHolds`: the bound on the handler starts of a poison row.
* `FinishedIsFinalHolds`, `LeaseEndsRightlyHolds`: the action properties.
* `OutboxImplementsLeasedWork` (`OutboxRefinement`): the refinement.

*The argument.* `Next` has some thirty actions but a step changes the table by
at most one of a dozen statements: `EveryStepIsATableStep` shows
`[Next]_vars => TableStep`, and the results about rows alone are then about
`TableStep`, one case per statement, with one `...Effect` lemma per statement
saying what it does to each row.

The inductive invariant is `IInv`:

* `TypeOK`;
* `TableInv`: for each row, `NeverWedged` and "not leased, no owner, not
  expired", and `OneRowPerKey`. The first needs the last: a row in a queued
  status has an attempt left only because release, failure and recovery each
  test the count of a row they know to be leased and charged;
* `CompactedIsFinished`, stronger than `CompactedNeverRuns`: a compacted row is
  finished or deleted, which no statement undoes;
* `MemoryInv`, the workers' memory against the table: `NoLeakedLease`, which is
  not inductive alone. It needs `LostIsLost` (a row the heartbeat reported
  missing, or a running row told so, really is not owned: nothing gives a row
  back to a worker except its own claim, which it makes only between batches) and
  `Quiet` (between batches a worker tracks nothing and has no renewal in flight).

`StartsBounded` needs an account per row (`PaidOK`): the starts made and the
starts still to come (`ToStart`: the workers whose batch holds the row and has not
begun its handler; a worker that lost the lease still is one) are together at most
what was charged, `MaxAttempts` per requeue plus the current `attempts`, plus the
refunds. A claim adds a worker and charges an attempt; a handler start turns one to
come into one made; a release gives the attempt back and either takes the worker
away or counts a refund. That a worker is counted until it starts rests on
`HandsInv`: a lane has a row only while the lanes run and the batch still tracks it.

`LeaseEndsRightly` is an action property of `Next` proper: per action, whose
lease it may end and at which `stage`; that no lane is at work on a row the batch
releases is `HandsInv` again. The refinement matches each statement with
the abstract action on the set of rows it hits (`Take`, `Renew`, `End`,
`TakeAway`, ...); it uses `TableInv` for the claim (only waiting rows) and for
recovery (only overdue ones).

### Email queue

For every set of rows (queued, sent at once and resent) and workers, either
provider, any retry limit and any number of faults and webhooks, from
`EmailConstants` (the constants have the right kind, `Api` is no worker, the
events are those the webhook parser knows) and the assumptions of
`RunLeased`: the four invariants of the runs, `OneEmailPerLogHolds`,
`StatusTellsTruthHolds`, `CountersAgreeHolds`, `SendNowStaysOutHolds`, and the action
properties `MarkedIsChargedHolds` and `ReportsOnlyAdvanceHolds`.

*The argument.* A step changes a row in one of eight ways, whatever
the action: `EveryRowMoves` proves it, and `MayReopen` is the important guard in it
(who makes a row QUEUED, FAILED or SKIPPED either knows that no call was made or
that the provider refused it, or is recovery and the row carries no marker,
or the provider deduplicates). The counters and the two action properties follow
from the moves alone. One email per log does not: a worker may call the provider
long after it lost its lease, so no lease excludes a second call. `Once`
therefore says, for the logs that must not be sent twice (`Guarded`: SendGrid, or
sent at once), that

* whoever is about to call (`AtCall`) is alone, nothing was taken yet, the row
  carries the marker and is its own lease or was parked as UNCERTAIN;
* once something was taken, the row is not open to anybody, and if it is still
  leased, its owner knows of the call (`Called`) and will not open it.

`MemoryOK` and `NowOK` say what a worker and a request know in each phase;
`RowKeeps` and `BatchKeeps` carry them through the steps that do not call. With
Resend `Once` is not claimed: the row is opened again on purpose, and the
provider takes the second call for the first.

### Abstract book

For every set of jobs, events, requests and workers, any attempt limit and number of
faults, from `BookConstants` (the constants have the right kind) and
`NobodyIsNoWorker`: `OneActiveJobHolds`, `CompletedHasBookHolds`,
`BookNeverWedged` (a pending job has an attempt left), and the refinement
`BookImplementsLeasedWork`. `ResultNotClobbered` is false (section 4), so nothing
is proved about whose book it is.

*The argument.* `EveryStepHits` shows that a step changes the table in one of six
ways (`TableStep`): a job inserted, taken, renewed, ended, taken away, or late.
They carry what their statement knows of the rows they hit: a job inserted is the
only active one of its event (the unique index), one put back has an attempt
left, one completed has a book. `OneActiveJob` then needs no more than that no
other way makes a job active, and the refinement matches each way with
one abstract action. `CompletedHasBook` needs `Uploaded` too: a
worker that is about to complete a job has stored its upload, and what the storage
holds is overwritten but never removed.

### Settlement

For all finite sets of registrations, sponsorships and items, every capacity,
price, answer, coverage and payment, from the assumptions named in `Settlement`
(prices, base prices and payments are naturals, an option's price may be negative,
`NotGiven` is no sponsorship, no payment and no status):

* `PlacesCountedHolds`: the counters count the places held, up to `uncounted`, and
  never exceed the capacity.
* `UsedWhileLinkedHolds`: a sponsorship is USED exactly while linked, and a stored
  signup code is that of a linked sponsorship.
* `RefundIsFinalHolds`: the action property. Each way of writing a row keeps
  REFUNDED: neither table of transitions leads out of it, `Derived` leaves it alone,
  and the operations that do not look at either refuse such a row.
* `AmountFollowsUsagesHolds`: the stored sponsorship amount is always what the linked
  sponsorships now apply to what the registration now holds.
* `PaidPriceLockedHolds`, `OnlySelfEditOverpaysHolds`: the action properties about
  what a registration owes and has paid.

*The argument, for the places.* The inductive invariant `Inv` adds two parts: `Shape`
(the rows have their columns; nothing about amounts, which these results do not need) and
`LinkedExist` (only stored registrations are linked), without which a new
registration could be born holding places. `CommitCounts` is the core: if for each
settled registration `from` is what it holds before and `to` what it holds
after, and no other registration's places change, then the counters stay right; it
rests on one lemma about cardinalities. Each operation then only has to show
that the `from` and `to` it passes are those, which is a matter of which rows,
links and coverages it writes: `RowWritten` for the operations that keep links
and coverages, `RowCreated` for signups, and a lemma of its own for each operation
that changes a link or a coverage.

*The argument, for the amounts.* A row is `Right` when its amounts are naturals and
its sponsorship is `Due`, what its usages come to; `AmountInv` says that of every row,
and is inductive next to `Inv`. Three facts carry it:

* `DueFrame`: `Due` depends on the answers, the items and what the usages cover, so
  a payment or a status keeps a row right, and a settlement of one registration keeps
  the others right;
* `RecomputedKept`: the code keeps a stored amount when a registration has no usages.
  Under the invariant that amount is 0, so keeping it is recomputing it. This is the
  one place where the two invariants need each other in every operation: dropping the
  last usage must not keep the amount (`Unlinked` passes FALSE);
* `ChangeAllowedKeeps`: `guardSponsorshipChange` alone is enough for the two action
  properties, whatever status is derived afterwards.

Each operation then leaves the rows it settles right (`OneAmountStep` for one row,
`ManySettled` for a release or a coverage change). A registrant's own edit is the one
lemma that does not show `NotOverpaying` of the row it edits (`EditPublicAmounts`).

The sums are `MapThenSumSet`, a recursive function on the subsets of a set, chosen
by its equation. That one exists (`SumsExist`), that equal summands give equal sums
(`SumsAgree`) and that naturals sum to a natural (`SumIsNat`) go by induction on the
cardinality, from the library's least element of a well-founded relation: the property
of an induction is a set here (`NatSetInduction`, `SetInduction`), which needs no
operator as a parameter.

### Networking meetings

For every set of participants, meetings, tables and stands, all slots,
configurations and statuses, from `NetworkingConstants` (the constants have the
right kind, slots fit the opening hours, `None` is none of the others): the five
invariants of the run, `ReservationsFollowStatusHolds`, `NoDoubleBookingHolds`,
`BookingsStayValidHolds`, `BlockedNeverMeetHolds`, `BothAgreedHolds`.

*The argument.* There are three ways in which a step writes meetings and
reservations: an allocation (requests in its way expire, the meeting's own
reservations are dropped, free ones are claimed), a transition of some meetings to
a status that releases their claims, and an update that keeps the claims. One
group of lemmas per way shows what becomes of the reservations; an action then only
has to show which of them it is, and that the rows it writes are right. The
inductive invariant `Inv` is `Shape` (the rows have their columns), `Booked`
(`ReservationsFollowStatus` and `NoDoubleBooking`), `NoSelfBlock`, and per meeting
`Possible` (what a meeting to come needs) and
`Agreed` (whose proposal is on the table, also in the state a cancelled meeting
would be restored to: without that a restore could bring back a time that one
side never chose).

### Networking deliveries

For every set of deliveries and lanes, either provider, any number of attempts and
failures, from `DeliveryConstants` (the constants have the right kind, `None` is no
lane and no delivery):

* `OneEmailPerDeliveryHolds`: a provider that does not deduplicate takes one email
  per delivery, but for the claims `delivery_blind` is about.
* `OutcomesTellTruthHolds`: what the log, the payload and the status say was sent,
  stored or audited was. What they say failed or was skipped was not taken, but for
  Resend and for the claims `delivery_untrue` is about.
* `HolderDecidesHolds`: while a lease runs only its lane writes the row.

*The argument.* `OneEmailPerDelivery` counts what the provider took; that it stays
at one is no consequence of leases, since a lane may call after it lost its own.
The inductive invariant `Inv` therefore says when a log is closed (`Closed`: sent,
uncertain, or SENDING with the marker) and, in `Once`, that it is closed
from the moment a lane is about to call the provider until for ever, that at most
one lane is about to, and that a lane which still holds the row and may open the
log again (after a refusal) knows that nothing was taken. `SaysSent` ties the
lanes' memory to what was taken, `Way` says which kinds of delivery take
which steps, `Finished` is the part of `OutcomesTellTruth` about finished rows.
Most steps of a lane touch neither the log nor the provider: `QuietStep` is one
lemma for all of them, the others are taken one by one.

### Abstracts

For every set of abstracts, authors, reviewers, uploads and codes, finitely many
themes, any scores and sort orders, from
`AbstractConstants` (`None` is none of the others, sort orders are integers):
the five invariants of the run, `AggregateFreshHolds`, `ReviewersAreMembersHolds`,
`CodesNotReissuedHolds`, `ActiveThemesNeverCollideHolds`, `StoredUnlessDiscardedHolds`
(with the exception of section 4), and the action property `DecisionRecordKeptHolds`.

*The argument.* The inductive invariant `Inv` has these parts:

* `Shape`, the columns of the rows, and `RequestsOn`: an edit, an assignment or a
  review under way is about an abstract that exists (nothing deletes one);
* `Reviewed`, per abstract: the aggregate is that of the review rows and whoever
  reviews is a member or left before. It is stated for decided abstracts too,
  which `ReviewersAreMembers` and `AggregateFresh` are not: a reopening keeps the
  reviews. The operators of the aggregate take the review rows as a parameter, so
  that a lemma can compare the rows before and after;
* `ThemesLinked` and `OrdersDistinct`: a theme in use is not deleted, and the
  unique index;
* `Series`: a printed number is at most its counter (that is what makes the next one
  new), its theme still exists (a theme created again starts at one), and the code
  an abstract shows was printed by the decision in force. The code's search for a
  sort order past all others needs a largest one: `MaxOfBounded`, by the least
  element of a set of naturals;
* `Files`: a row names an object its own upload wrote, which is stored unless that
  upload discarded it after a lost answer; an upload deletes another object only when
  no row names it any more.

### Only model-checked

Liveness: `EveryRowSettles`, `EveryEmailSettles`, `EveryJobEnds` and
`EveryDeliveryEnds`, which rest on fairness and so on ENABLED, outside the prover's
reach. Every invariant and every action property of a passing run is a theorem.

## 6. Not modelled, and why

* The branch of `stale` for rows leased before `locked_until` existed: no such
  row can be created any more.
* In `EmailQueue`, rows owned by the networking dispatcher, which its recovery
  excludes: they are the logs of `NetworkingDelivery`.
* The enqueue's duplicate pre-checks (a read, then an insert under the unique
  indexes): the enqueue is one step here. The pre-check counts UNCERTAIN emails
  and the indexes do not; planned.
* A change of the configured provider between two attempts of one log.
* The gate of `enqueueAbstractBookJob` (event, module and configuration reads)
  and the deletion of an event with its jobs.
* Settlement: restoring a cancelled sponsorship with its links (`undo.ts`),
  sponsorship batches that target registrations, deactivation of an item and
  changes of its price or capacity, quantities above one and items without a
  capacity, `registered_count` and the event's own capacity, the choice of a
  payment method, and the gates on event status and modules.
* When one transaction settles several registrations (release, coverage change)
  the code does so one by one in id order and stops at the first place it cannot
  take; the model requires the places to fit after all of them, which an order
  that releases first also allows.
* Abstracts: form data and word limits, the windows of dates (they only refuse),
  invitations of committee accounts, linked registrations, the configuration row
  (`updateConfig` validates its windows against a row read before the transaction).
* Meetings: availability and the meetings switch, eligibility beyond a profile's
  status, moves of a stand's representatives, messages, contact exchange, reports,
  hour locks and re-planning. `sweepReleasedNetworkingReservations` finds nothing
  while `ReservationsFollowStatus` holds. A transaction that failed is taken not to
  have committed.
* Deliveries: the rate limiter's tokens (a 429 defers), rendering, localization,
  the queueing of reminders and digests, a change of provider between attempts.
* What an outbox handler does, but for the drop of a full item; rendering, HTTP, logging, metrics.
* The components marked `not_modelled` in `PROJECT.json`.

## 7. Plan

In this order, the most important behaviour first:

Done: the three lease queues, settlement, abstracts, networking meetings and
networking deliveries, with the proofs of section 5.

1. **Settlement**, the rest: restore and batches, deactivation, the pure functions
   against a reference definition, a run for the overpaying self-edit.
2. **Registration** counters over settlement: `registered_count`, event capacity,
   idempotency, edits with the `updatedAt` compare-and-set.
3. **EmailEnqueue**: pre-check and insert as two steps.
4. **JobRunner** stop protocol; **Migrator** lease and ledger; **CheckIn** with
   offline sync and undo; **Realtime** pump.
5. Proofs: the email queue implements `LeasedWork`; with the induction over sets of
   `SettlementProofs`, what further pure functions compute.

Most of the repository's lines are schemas, routes, rendering, reports and their
types, which have no state of their own to model; the modules above cover the parts
where processes meet.
