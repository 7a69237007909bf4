----------------------------- MODULE Settlement -----------------------------
(***************************************************************************)
(* What a registration owes, what was paid, and the places it holds:       *)
(* packages/shared/src/settlement.ts, packages/db/src/settlement/ and the  *)
(* registrations and sponsorships services of apps/api that call them.     *)
(*                                                                         *)
(* Every operation runs in one withLockingTxn that locks the rows it       *)
(* changes before it reads them, so each is one action.  A refusal throws  *)
(* and rolls the transaction back: the action is not enabled.  Amounts are *)
(* whole units, every access item is selected once (quantity 1), and an    *)
(* item's price and capacity do not change.  An answer is what the         *)
(* registration form prices: the base price after the pricing rules and    *)
(* the total of the options, which no sponsorship covers.                  *)
(***************************************************************************)
EXTENDS Integers, FiniteSets, FiniteSetsExt

CONSTANTS Regs,        \* ids of registrations
          Spons,       \* ids of sponsorships (each has one code)
          Items,       \* access items of the event
          Capacity,    \* event_access.max_capacity
          Price,       \* event_access.price
          Answers,     \* what the form can price: records [base, options]
          BasePrice,   \* event_pricing.base_price
          Coverages,   \* what a sponsor may cover: records [base, items]
          Payments,    \* paid amounts an admin enters
          AutoAccept,  \* a free event that accepts signups owing nothing
          NotGiven     \* an optional input left out, a column that is null

ASSUME CapacityType == Capacity \in [Items -> Nat]
ASSUME PriceType == Price \in [Items -> Nat] /\ BasePrice \in Nat
ASSUME AnswersType == Answers \subseteq [base : Nat, options : Int]
ASSUME CoveragesType == Coverages \subseteq [base : BOOLEAN, items : SUBSET Items]
ASSUME PaymentsType == Payments \subseteq Nat /\ AutoAccept \in BOOLEAN
(* A free event holds its base price at 0; a pricing rule may still price one *)
ASSUME FreeEvent == AutoAccept => BasePrice = 0
(* The rows of an event's tables are finitely many *)
ASSUME RegsFinite == IsFiniteSet(Regs)
ASSUME SponsFinite == IsFiniteSet(Spons)
ASSUME ItemsFinite == IsFiniteSet(Items)

VARIABLES reg,        \* registrations
          spons,      \* sponsorships
          links,      \* sponsorship_usages: pairs <<sponsorship, registration>>
          paidCount,  \* event_access.paid_count
          drops,      \* items with an access.capacityReached outbox event
          uncounted   \* history: places a proof upload took without counting

vars == <<reg, spons, links, paidCount, drops, uncounted>>

Statuses == {"PENDING", "VERIFYING", "PARTIAL", "PAID", "SPONSORED", "WAIVED", "REFUNDED"}
ASSUME NotGivenIsNull ==
  NotGiven \notin Spons /\ NotGiven \notin Payments /\ NotGiven \notin Statuses

Settled == {"PAID", "SPONSORED", "WAIVED"}
Sticky == {"REFUNDED", "WAIVED", "PAID", "VERIFYING"}

AllowedTransitions ==
  [PENDING   |-> Statuses \ {"PENDING"},
   VERIFYING |-> {"PAID", "PARTIAL", "PENDING", "REFUNDED"},
   PARTIAL   |-> {"VERIFYING", "PAID", "SPONSORED", "REFUNDED"},
   PAID      |-> {"REFUNDED"},
   SPONSORED |-> {"PARTIAL", "REFUNDED"},
   WAIVED    |-> {"PENDING", "REFUNDED"},
   REFUNDED  |-> {}]

AdminOverrideTransitions ==
  [s \in Statuses |-> IF s = "REFUNDED" THEN {} ELSE Statuses \ {s}]

(* Keeping a status is not a transition *)
MayMove(table, from, to) == to = NotGiven \/ to = from \/ to \in table[from]

Exists(r) == reg[r].status # "NONE"

NoRegistration ==
  [status |-> "NONE", paid |-> 0, dated |-> FALSE, total |-> 0, spons |-> 0,
   ans |-> [base |-> 0, options |-> 0], items |-> {}, code |-> NotGiven]

-----------------------------------------------------------------------------
(* Prices *)

Floor(n) == IF n < 0 THEN 0 ELSE n
PriceOf(its) == MapThenSumSet(LAMBDA i : Price[i], its)
Subtotal(g) == Floor(g.ans.base + PriceOf(g.items) + g.ans.options)
Net(g) == Floor(g.total - g.spons)

(* A sponsorship's total_amount, set with its coverage *)
CoverageTotal(k) == (IF k.base THEN BasePrice ELSE 0) + PriceOf(k.items)

(* calculateApplicableAmount *)
Applicable(k, g) ==
  Min({(IF k.base THEN g.ans.base ELSE 0) + PriceOf(k.items \cap g.items),
       Subtotal(g), CoverageTotal(k)})

SponsorshipLimit(g) == Floor(Min({Subtotal(g), g.ans.base + PriceOf(g.items)}))

-----------------------------------------------------------------------------
(* Settlement of one registration *)

Usages(ls, r) == {c \in Spons : <<c, r>> \in ls}
Covered(used, cover) == UNION {cover[c].items : c \in used}

(* What the usages apply, capped; an amount without usages is kept unless  *)
(* the last one just went.                                                 *)
SponsorshipAmount(g, used, cover, keepUnlinked) ==
  Min({IF used = {} /\ keepUnlinked THEN g.spons
       ELSE MapThenSumSet(LAMBDA c : Applicable(cover[c], g), used),
       SponsorshipLimit(g)})

(* recomputeRegistrationSponsorship *)
Recomputed(g, used, cover, keepUnlinked) ==
  [g EXCEPT !.spons = SponsorshipAmount(g, used, cover, keepUnlinked)]

(* Mutant: WAIVED and REFUNDED alone are the admin's *)
EagerDerived(g) ==
  LET due == Floor(Net(g) - g.paid)
      status == IF g.total > 0 /\ g.spons >= g.total THEN "SPONSORED"
                ELSE IF g.paid > 0 /\ due = 0 THEN "PAID"
                ELSE IF g.paid + g.spons > 0 /\ due > 0 THEN "PARTIAL"
                ELSE "PENDING"
  IN  IF g.status = "WAIVED" THEN g
      ELSE [g EXCEPT !.status = status, !.dated = status \in {"PAID", "SPONSORED"}]

(* The status the amounts imply, for the statuses the settlement may change *)
Derived(g) ==
  LET due == Floor(Net(g) - g.paid)
      status == IF g.total > 0 /\ g.spons >= g.total THEN "SPONSORED"
                ELSE IF g.paid > 0 /\ due = 0 THEN "PAID"
                ELSE IF g.paid + g.spons > 0 /\ due > 0 THEN "PARTIAL"
                ELSE "PENDING"
  IN  IF g.status \in Sticky THEN g
      ELSE [g EXCEPT !.status = status, !.dated = status \in {"PAID", "SPONSORED"}]

(* The items a registration holds a paid place of *)
PaidPlaces(g, covered) ==
  IF g.status \in Settled THEN g.items
  ELSE IF g.status \in {"PARTIAL", "VERIFYING"} THEN g.items \cap covered
  ELSE {}

(* What one registration's settlement writes and the places it moves *)
Settle(old, coveredBefore, new, coveredNow) ==
  [reg |-> new, from |-> PaidPlaces(old, coveredBefore), to |-> PaidPlaces(new, coveredNow)]

(* The registrations that take and that release a place of an item *)
Taken(settled, i) == {r \in DOMAIN settled : i \in settled[r].to \ settled[r].from}
Released(settled, i) == {r \in DOMAIN settled : i \in settled[r].from \ settled[r].to}
Count(settled, i) ==
  paidCount[i] + Cardinality(Taken(settled, i)) - Cardinality(Released(settled, i))

(* casIncrementAccessPaidCount within the capacity, casDecrement... not    *)
(* below zero.  Several registrations are settled one by one in id order;  *)
(* the guard is that of an order that keeps the count within its bounds.   *)
Fits(settled, i) ==
  /\ Count(settled, i) >= 0
  /\ Taken(settled, i) # {} => Count(settled, i) <= Capacity[i]

(* Write settlements: the rows, and each item's paid_count by the places   *)
(* taken and released.  An item whose count went up to its capacity gets   *)
(* an access.capacityReached.                                              *)
Commit(settled) ==
  /\ \A i \in Items : Fits(settled, i)
  /\ reg' = [r \in Regs |-> IF r \in DOMAIN settled THEN settled[r].reg ELSE reg[r]]
  /\ paidCount' = [i \in Items |-> Count(settled, i)]
  /\ drops' = drops \cup {i \in Items : /\ Taken(settled, i) # {}
                                        /\ Count(settled, i) >= Capacity[i]}

SettleOne(r, old, before, new, now) ==
  Commit([x \in {r} |-> Settle(old, before, new, now)])

(* Newly selected items must still have a place: casIncrementAccessRegisteredCount *)
Selectable(its) == \A i \in its : paidCount[i] + 1 <= Capacity[i]

-----------------------------------------------------------------------------
(* Creating and deleting registrations *)

NewRegistration(a, its, status, code) ==
  LET g == [NoRegistration EXCEPT !.status = status, !.ans = a,
                                    !.items = its, !.code = code]
  IN  [g EXCEPT !.total = Subtotal(g),
                !.paid = IF status = "PAID" THEN Subtotal(g) ELSE 0,
                !.dated = status \in Settled]

(* claimSponsorshipCodeTxn: a code a registration may still consume *)
Claimable(c) ==
  /\ spons[c].status = "PENDING"
  /\ \A r \in Regs : <<c, r>> \notin links /\ reg[r].code # c

(* Public signup without a code.  On a free event with auto-accept, one    *)
(* that owes nothing is WAIVED at once.                                    *)
Register(r, a, its) ==
  LET g == NewRegistration(a, its, "PENDING", NotGiven)
      accepted == IF AutoAccept /\ g.total = 0
                  THEN [g EXCEPT !.status = "WAIVED", !.dated = TRUE] ELSE g
  IN  /\ ~Exists(r)
      /\ Selectable(its)
      /\ SettleOne(r, g, {}, accepted, {})
      /\ UNCHANGED <<spons, links, uncounted>>

(* Public signup that consumes a sponsorship code *)
RegisterWithCode(r, a, its, c) ==
  LET g == NewRegistration(a, its, "PENDING", c)
      settled == Derived(Recomputed(g, {c}, spons, TRUE))
  IN  /\ ~Exists(r)
      /\ Claimable(c)
      /\ Selectable(its)
      /\ links' = links \cup {<<c, r>>}
      /\ spons' = [spons EXCEPT ![c].status = "USED"]
      /\ SettleOne(r, g, {}, settled, spons[c].items)
      /\ UNCHANGED uncounted

(* createAdminRegistration: places are taken only by a settled status *)
CreateAdminRegistration(r, a, its, status) ==
  LET g == NewRegistration(a, its, status, NotGiven)
  IN  /\ ~Exists(r)
      /\ Selectable(its)
      /\ SettleOne(r, [g EXCEPT !.status = "PENDING"], {}, g, {})
      /\ UNCHANGED <<spons, links, uncounted>>

(* Mutant: the places are released without what the usages covered *)
DeleteUncovered(r) ==
  LET freed == {c \in Usages(links, r) : \A x \in Regs \ {r} : <<c, x>> \notin links}
  IN  /\ Exists(r)
      /\ links' = {l \in links : l[2] # r}
      /\ spons' = [c \in Spons |-> IF c \in freed THEN [spons[c] EXCEPT !.status = "PENDING"]
                                   ELSE spons[c]]
      /\ SettleOne(r, reg[r], {}, NoRegistration, {})
      /\ UNCHANGED uncounted

(* deleteRegistration: an admin deletes any registration, a PAID one with  *)
(* force.  Its usages go first; a sponsorship with no other usage is       *)
(* PENDING again.                                                          *)
DeleteRegistration(r) ==
  LET used == Usages(links, r)
      freed == {c \in used : \A x \in Regs \ {r} : <<c, x>> \notin links}
  IN  /\ Exists(r)
      /\ links' = {l \in links : l[2] # r}
      /\ spons' = [c \in Spons |-> IF c \in freed THEN [spons[c] EXCEPT !.status = "PENDING"]
                                   ELSE spons[c]]
      /\ SettleOne(r, reg[r], Covered(used, spons), NoRegistration, {})
      /\ UNCHANGED uncounted

-----------------------------------------------------------------------------
(* Payments *)

(* The registration with the status, amount and date an admin writes *)
WithPayment(g, status, paid) ==
  [g EXCEPT !.status = IF status = NotGiven THEN @ ELSE status,
            !.paid = IF paid = NotGiven THEN @ ELSE paid,
            !.dated = @ \/ status \in Settled]

(* A write that changes status and amounts only: syncPaidCount *)
WritePayment(r, new) ==
  LET covered == Covered(Usages(links, r), spons)
  IN  /\ SettleOne(r, reg[r], covered, new, covered)
      /\ UNCHANGED <<spons, links, uncounted>>

(* updateRegistration: the admin's partial update, against the stored net *)
UpdateRegistration(r, status, amount) ==
  LET g == reg[r]
      paid == IF amount = NotGiven /\ status = "PAID" THEN Net(g) ELSE amount
  IN  /\ Exists(r)
      /\ MayMove(AllowedTransitions, g.status, status)
      /\ paid # NotGiven => paid <= Net(g)
      /\ WritePayment(r, WithPayment(g, status, paid))

(* adminEditRegistration without a price edit: any status but out of       *)
(* REFUNDED; an amount equal to the stored one is not written.             *)
AdminEditPayment(r, status, amount) ==
  LET g == reg[r]
      change == IF status = g.status THEN NotGiven ELSE status
      paid == IF amount = NotGiven /\ status = "PAID" THEN Net(g)
              ELSE IF amount = g.paid THEN NotGiven ELSE amount
  IN  /\ Exists(r)
      /\ MayMove(AdminOverrideTransitions, g.status, change)
      /\ paid # NotGiven => paid <= Net(g)
      /\ WritePayment(r, WithPayment(g, change, paid))

(* confirmPayment: settle against the recomputed net *)
ConfirmPayment(r, status, amount) ==
  LET used == Usages(links, r)
      g == Recomputed(reg[r], used, spons, TRUE)
      paid == IF amount = NotGiven THEN Net(g) ELSE amount
      covered == Covered(used, spons)
  IN  /\ Exists(r)
      /\ MayMove(AllowedTransitions, g.status, status)
      /\ paid <= Net(g)
      /\ status = "PAID" => paid >= Net(g)
      /\ SettleOne(r, reg[r], covered, WithPayment(g, status, paid), covered)
      /\ UNCHANGED <<spons, links, uncounted>>

(* uploadPaymentProof: only the status is written.  No place moves: the    *)
(* code expects PARTIAL and VERIFYING to hold the same ones.  Those that   *)
(* VERIFYING holds and the old status did not go uncounted.                *)
UploadPaymentProof(r) ==
  LET covered == Covered(Usages(links, r), spons)
      new == [reg[r] EXCEPT !.status = "VERIFYING"]
      more == PaidPlaces(new, covered) \ PaidPlaces(reg[r], covered)
  IN  /\ Exists(r)
      /\ MayMove(AllowedTransitions, reg[r].status, "VERIFYING")
      /\ reg' = [reg EXCEPT ![r] = new]
      /\ uncounted' = [i \in Items |-> uncounted[i] + (IF i \in more THEN 1 ELSE 0)]
      /\ UNCHANGED <<spons, links, paidCount, drops>>

-----------------------------------------------------------------------------
(* Edits that reprice: repriceRegistration.  The sponsorship comes from    *)
(* the linked usages; without any, the stored amount is kept, capped.      *)

Repriced(r, a, its, leastTotal) ==
  LET g == [reg[r] EXCEPT !.ans = a, !.items = its]
      total == Max({Subtotal(g), leastTotal})
  IN  Recomputed([g EXCEPT !.total = total], Usages(links, r), spons, TRUE)

WriteReprice(r, new) ==
  LET covered == Covered(Usages(links, r), spons)
  IN  /\ Selectable(new.items \ reg[r].items)
      /\ SettleOne(r, reg[r], covered, new, covered)
      /\ UNCHANGED <<spons, links, uncounted>>

(* adminEditRegistration with new answers or items.  A PAID registration   *)
(* whose net moves needs an amount or a status, and to stay PAID it must   *)
(* be paid in full.  Without a status the amounts decide.                  *)
AdminEditPrice(r, a, its, status, amount) ==
  LET g == reg[r]
      n == Repriced(r, a, its, 0)
      change == IF status = g.status THEN NotGiven ELSE status
      paid == IF amount = NotGiven /\ status = "PAID" THEN Net(n) ELSE amount
      edited == WithPayment(n, change, paid)
  IN  /\ Exists(r)
      /\ MayMove(AdminOverrideTransitions, g.status, change)
      /\ edited.paid <= Net(n)
      /\ g.status = "PAID" /\ Net(n) # Net(g) =>
           /\ status # NotGiven \/ amount # NotGiven
           /\ edited.status = "PAID" => edited.paid >= Net(n)
      /\ WriteReprice(r, IF status = NotGiven THEN Derived(edited) ELSE edited)

(* evaluateEditPolicy *)
PaymentReceived(g) == g.status \in {"PAID", "SPONSORED"} \/ g.paid > 0
AccessBlocked(g) ==
  g.status \in {"VERIFYING", "WAIVED"} \/ (g.total > 0 /\ g.spons >= g.total)

(* Mutant: a registrant edits a paid price *)
EditPaidPublic(r, a, its) ==
  LET g == reg[r]
      n == Repriced(r, a, its, IF PaymentReceived(g) THEN g.total ELSE 0)
  IN  /\ Exists(r) /\ g.status # "REFUNDED"
      /\ its # g.items => ~AccessBlocked(g)
      /\ g.items \ its # {} => ~PaymentReceived(g)
      /\ WriteReprice(r, Derived(n))

(* editRegistrationPublic, when something priced changed.  Once payment    *)
(* was received the total never goes down.                                 *)
EditRegistrationPublic(r, a, its) ==
  LET g == reg[r]
      n == Repriced(r, a, its, IF PaymentReceived(g) THEN g.total ELSE 0)
  IN  /\ Exists(r) /\ g.status # "REFUNDED"
      /\ its # g.items => ~AccessBlocked(g)
      /\ g.items \ its # {} => ~PaymentReceived(g)
      /\ g.status = "PAID" => Net(n) = Net(g)
      /\ WriteReprice(r, Derived(n))

-----------------------------------------------------------------------------
(* Sponsorships *)

SponsorshipExists(c) == spons[c].status # "NONE"

(* createCodeModeSponsorships *)
CreateSponsorship(c, k) ==
  /\ ~SponsorshipExists(c)
  /\ spons' = [spons EXCEPT ![c] = [status |-> "PENDING", base |-> k.base, items |-> k.items]]
  /\ UNCHANGED <<reg, links, paidCount, drops, uncounted>>

(* Mutant: a larger sponsorship is taken whatever was paid *)
ChangeAllowedPaid(old, new) ==
  new.spons # old.spons => old.status # "PAID"

(* guardSponsorshipChange: the sponsorship of a PAID registration does not *)
(* move, and a larger one leaves nothing overpaid.                         *)
ChangeAllowed(old, new) ==
  new.spons # old.spons =>
    /\ old.status # "PAID"
    /\ new.spons > old.spons => old.paid <= Net(new)

(* linkSponsorshipToRegistrationTxn: g is the registration with the code   *)
(* its caller stores.                                                      *)
Link(c, r, g) ==
  LET before == Usages(links, r)
      n == Recomputed(g, before \cup {c}, spons, TRUE)
  IN  /\ spons[c].status \in {"PENDING", "USED"}
      /\ Exists(r) /\ c \notin before
      /\ g.status \notin {"PAID", "WAIVED", "REFUNDED"}
      /\ Applicable(spons[c], g) > 0 \/ CoverageTotal(spons[c]) = 0
      /\ g.paid <= Net(n)
      /\ ChangeAllowed(reg[r], n)
      /\ links' = links \cup {<<c, r>>}
      /\ spons' = [spons EXCEPT ![c].status = "USED"]
      /\ SettleOne(r, reg[r], Covered(before, spons),
                   Derived(n), Covered(before \cup {c}, spons))
      /\ UNCHANGED uncounted

(* The admin links a sponsorship, by id or by code *)
LinkSponsorship(c, r) == Link(c, r, reg[r])

(* redeemSponsorshipCode: a registrant applies an unused code, stored as   *)
(* the registration's own unless it has one.                               *)
RedeemSponsorshipCode(c, r) ==
  /\ Claimable(c)
  /\ reg[r].status \in {"PENDING", "PARTIAL"}
  /\ Link(c, r, [reg[r] EXCEPT !.code = IF @ = NotGiven THEN c ELSE @])

(* Mutant: the amount of the last usage is kept as an unlinked one *)
UnlinkedKeeping(c, r) ==
  LET g == [reg[r] EXCEPT !.code = IF @ = c THEN NotGiven ELSE @]
  IN  Recomputed(g, Usages(links, r) \ {c}, spons, TRUE)

(* unlinkLockedUsage: the registration without this sponsorship; its       *)
(* signup code goes with it.                                               *)
Unlinked(c, r) ==
  LET g == [reg[r] EXCEPT !.code = IF @ = c THEN NotGiven ELSE @]
  IN  Recomputed(g, Usages(links, r) \ {c}, spons, FALSE)

SettleUnlinked(c, r) ==
  Settle(reg[r], Covered(Usages(links, r), spons),
         Derived(Unlinked(c, r)), Covered(Usages(links, r) \ {c}, spons))

LinkedTo(c) == {r \in Regs : <<c, r>> \in links}

(* Mutant: the sponsorship stays USED *)
UnlinkUsed(c, r) ==
  /\ <<c, r>> \in links
  /\ ChangeAllowed(reg[r], Unlinked(c, r))
  /\ links' = links \ {<<c, r>>}
  /\ Commit([x \in {r} |-> SettleUnlinked(c, x)])
  /\ UNCHANGED <<spons, uncounted>>

(* unlinkSponsorshipFromRegistrationTxn *)
UnlinkSponsorship(c, r) ==
  /\ <<c, r>> \in links
  /\ ChangeAllowed(reg[r], Unlinked(c, r))
  /\ links' = links \ {<<c, r>>}
  /\ spons' = [spons EXCEPT ![c].status = IF LinkedTo(c) = {r} THEN "PENDING" ELSE @]
  /\ Commit([x \in {r} |-> SettleUnlinked(c, x)])
  /\ UNCHANGED uncounted

(* releaseSponsorshipTxn: unlink and settle every linked registration *)
ReleaseSponsorship(c, status) ==
  /\ SponsorshipExists(c)
  /\ \A r \in LinkedTo(c) : ChangeAllowed(reg[r], Unlinked(c, r))
  /\ links' = {l \in links : l[1] # c}
  /\ spons' = [spons EXCEPT ![c].status = status]
  /\ Commit([r \in LinkedTo(c) |-> SettleUnlinked(c, r)])
  /\ UNCHANGED uncounted

CancelSponsorship(c) == ReleaseSponsorship(c, "CANCELLED")
DeleteSponsorship(c) == ReleaseSponsorship(c, "NONE")

(* changeSponsorshipCoverageTxn *)
ChangeCoverage(c, k) ==
  LET cover == [spons EXCEPT ![c].base = k.base, ![c].items = k.items]
      Fresh(r) == Recomputed(reg[r], Usages(links, r), cover, TRUE)
  IN  /\ SponsorshipExists(c)
      /\ \A r \in LinkedTo(c) : ChangeAllowed(reg[r], Fresh(r))
      /\ spons' = cover
      /\ Commit([r \in LinkedTo(c) |->
                   Settle(reg[r], Covered(Usages(links, r), spons),
                          Derived(Fresh(r)), Covered(Usages(links, r), cover))])
      /\ UNCHANGED <<links, uncounted>>

-----------------------------------------------------------------------------
(* The worker drops a full item from the unsettled registrations that hold *)
(* it, one registration per transaction.                                   *)

(* dropAccessFromRegistration: the item is still full and held, not        *)
(* covered, and the registration would not have paid more than it owes.    *)
DropAccess(r, i) ==
  LET used == Usages(links, r)
      covered == Covered(used, spons)
      g == [reg[r] EXCEPT !.items = @ \ {i}]
      n == Recomputed([g EXCEPT !.total = Subtotal(g)], used, spons, TRUE)
  IN  /\ i \in drops
      /\ Exists(r) /\ reg[r].status \notin Settled \cup {"REFUNDED"}
      /\ i \in reg[r].items \ covered
      /\ paidCount[i] >= Capacity[i]
      /\ reg[r].paid <= Net(n)
      /\ SettleOne(r, reg[r], covered, Derived(n), covered)
      /\ UNCHANGED <<spons, links, uncounted>>

(* handleAccessCapacityReachedOutbox has gone through its candidates, or   *)
(* found the item no longer full.                                          *)
EndDrop(i) ==
  /\ i \in drops
  /\ drops' = drops \ {i}
  /\ UNCHANGED <<reg, spons, links, paidCount, uncounted>>

-----------------------------------------------------------------------------
Init ==
  /\ reg = [r \in Regs |-> NoRegistration]
  /\ spons = [c \in Spons |-> [status |-> "NONE", base |-> FALSE, items |-> {}]]
  /\ links = {}
  /\ paidCount = [i \in Items |-> 0]
  /\ drops = {}
  /\ uncounted = [i \in Items |-> 0]

RegistrationStep(r) ==
  \/ \E a \in Answers, its \in SUBSET Items :
       \/ Register(r, a, its)
       \/ \E c \in Spons : RegisterWithCode(r, a, its, c)
       \/ \E s \in Statuses : CreateAdminRegistration(r, a, its, s)
       \/ EditRegistrationPublic(r, a, its)
       \/ \E s \in Statuses \cup {NotGiven}, m \in Payments \cup {NotGiven} :
            AdminEditPrice(r, a, its, s, m)
  \/ \E s \in Statuses \cup {NotGiven}, m \in Payments \cup {NotGiven} :
       UpdateRegistration(r, s, m) \/ AdminEditPayment(r, s, m)
  \/ \E s \in Statuses, m \in Payments \cup {NotGiven} : ConfirmPayment(r, s, m)
  \/ UploadPaymentProof(r)
  \/ DeleteRegistration(r)
  \/ \E i \in Items : DropAccess(r, i)

SponsorshipStep(c) ==
  \/ \E k \in Coverages : CreateSponsorship(c, k) \/ ChangeCoverage(c, k)
  \/ \E r \in Regs :
       LinkSponsorship(c, r) \/ RedeemSponsorshipCode(c, r) \/ UnlinkSponsorship(c, r)
  \/ CancelSponsorship(c)
  \/ DeleteSponsorship(c)

Next ==
  \/ \E r \in Regs : RegistrationStep(r)
  \/ \E c \in Spons : SponsorshipStep(c)
  \/ \E i \in Items : EndDrop(i)

Spec == Init /\ [][Next]_vars

-----------------------------------------------------------------------------
PlacesOf(r) == PaidPlaces(reg[r], Covered(Usages(links, r), spons))
Holders(i) == {r \in Regs : i \in PlacesOf(r)}

(* paid_count is the number of registrations that hold a paid place of the *)
(* item, but for the places proof uploads took without counting them: no   *)
(* link, unlink, coverage change, edit, payment, drop or delete ever loses *)
(* or invents one, nor takes one beyond the capacity.                      *)
PlacesCounted ==
  \A i \in Items : /\ paidCount[i] + uncounted[i] = Cardinality(Holders(i))
                   /\ paidCount[i] <= Capacity[i]

(* The count_drift rule of settlement/invariants.ts *)
NoCountDrift == \A i \in Items : paidCount[i] = Cardinality(Holders(i))

(* sponsorship_vs_usages: the stored sponsorship amount is always what the *)
(* linked sponsorships now apply to what the registration now holds.       *)
AmountFollowsUsages ==
  \A r \in Regs : Exists(r) =>
    reg[r].spons = SponsorshipAmount(reg[r], Usages(links, r), spons, FALSE)

(* A sponsorship is USED exactly while a registration is linked to it, and *)
(* a signup code a registration stores is that of a linked sponsorship.    *)
UsedWhileLinked ==
  /\ \A c \in Spons : spons[c].status = "USED" <=> LinkedTo(c) # {}
  /\ \A r \in Regs : reg[r].code # NotGiven => <<reg[r].code, r>> \in links

(* Paid more than it owes (status_vs_amounts), a refund aside *)
Overpaid(g) == g.status # "REFUNDED" /\ g.paid > Net(g)

(* Only a registrant's own edit can leave a registration paid more than it *)
(* owes: no payment, admin edit, sponsorship change or drop does.          *)
OnlySelfEditOverpays ==
  [][\A r \in Regs :
       ~Overpaid(reg[r]) /\ reg[r].status # "REFUNDED" /\ Overpaid(reg'[r]) =>
         \E a \in Answers, its \in SUBSET Items : EditRegistrationPublic(r, a, its)]_vars

(* PAID means paid in full: what a PAID registration owes moves only with  *)
(* its payment.                                                            *)
PaidPriceLocked ==
  [][\A r \in Regs :
       reg[r].status = "PAID" /\ reg'[r].status = "PAID" /\ Net(reg'[r]) # Net(reg[r]) =>
         reg'[r].paid = Net(reg'[r])]_vars

(* A refund is final: no recomputation, edit or sponsorship change revives *)
(* a refunded registration.                                                *)
RefundIsFinal ==
  [][\A r \in Regs : reg[r].status = "REFUNDED" =>
       reg'[r].status \in {"REFUNDED", "NONE"}]_vars

=============================================================================
