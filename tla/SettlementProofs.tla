-------------------------- MODULE SettlementProofs --------------------------
(***************************************************************************)
(* Proofs about Settlement, for every set of registrations, sponsorships   *)
(* and items, every capacity and every price.                              *)
(*                                                                         *)
(* Places.  The places an operation moves are those its Commit is given.   *)
(* They are the right ones when, for each registration it settles, `from`  *)
(* is what the registration holds before and `to` what it holds after, and *)
(* no other registration's places change (CommitCounts).  That is shown    *)
(* for each operation from which rows, usages and coverages it writes;     *)
(* what the amounts are does not matter.                                   *)
(*                                                                         *)
(* Amounts.  A row is Right when its sponsorship is what its usages come   *)
(* to (Due), which depends on its answers, its items and what the usages   *)
(* cover.  Each operation leaves the rows it settles Right and the others' *)
(* usages as they are (AmountInv); what it may do to what a row owes and   *)
(* has paid (PriceKept, NotOverpaying) follows from its guards.            *)
(***************************************************************************)
EXTENDS Settlement, FiniteSetTheorems, TLAPS

Columns == {"status", "paid", "dated", "total", "spons", "ans", "items", "code"}

(* A registration row, stored or not *)
Row(g) == DOMAIN g = Columns /\ g.status \in Statuses \cup {"NONE"}

(* A row that is stored *)
Stored(g) == Row(g) /\ g.status # "NONE"

Sponsorships ==
  [status : {"NONE", "PENDING", "USED", "CANCELLED"}, base : BOOLEAN, items : SUBSET Items]

Shape ==
  /\ reg = [r \in Regs |-> reg[r]]
  /\ \A r \in Regs : Row(reg[r])
  /\ spons \in [Spons -> Sponsorships]
  /\ links \subseteq Spons \X Regs
  /\ paidCount \in [Items -> Nat]
  /\ uncounted \in [Items -> Nat]

(* Only stored registrations are linked: a usage does not outlive its row *)
LinkedExist == \A l \in links : Exists(l[2])

(* The inductive invariant *)
Inv == Shape /\ LinkedExist /\ UsedWhileLinked /\ PlacesCounted

-----------------------------------------------------------------------------
(* Counting places *)

(* Taking places of T and releasing those of L *)
LEMMA MovedCardinality ==
  ASSUME NEW H, NEW T, NEW L, IsFiniteSet(H), IsFiniteSet(T),
         L \subseteq H, T \cap H = {}
  PROVE  /\ Cardinality((H \ L) \cup T) = Cardinality(H) + Cardinality(T) - Cardinality(L)
         /\ Cardinality(H) \in Nat /\ Cardinality(T) \in Nat /\ Cardinality(L) \in Nat
<1>1. IsFiniteSet(L) /\ H \cap L = L /\ (H \ L) \cap T = {}
  BY FS_Subset
<1>2. IsFiniteSet(H \ L) /\ Cardinality(H \ L) = Cardinality(H) - Cardinality(L)
  <2>1. IsFiniteSet(H \ L) /\ Cardinality(H \ L) = Cardinality(H) - Cardinality(H \cap L)
    BY <1>1, FS_Difference, Zenon
  <2>2. QED BY <1>1, <2>1
<1>3. Cardinality((H \ L) \cup T) = Cardinality(H \ L) + Cardinality(T) - Cardinality({})
  BY <1>1, <1>2, FS_Union
<1>4. /\ Cardinality(H) \in Nat /\ Cardinality(T) \in Nat /\ Cardinality(L) \in Nat
      /\ Cardinality({}) = 0
  BY <1>1, FS_CardinalityType, FS_EmptySet
<1>5. QED
  BY <1>2, <1>3, <1>4

(* A Commit that is given the places each registration holds before and    *)
(* after keeps paid_count right.                                           *)
LEMMA CommitCounts ==
  ASSUME Shape, PlacesCounted, NEW settled, Commit(settled), uncounted' = uncounted,
         DOMAIN settled \subseteq Regs,
         \A r \in DOMAIN settled : settled[r].from = PlacesOf(r) /\ settled[r].to = PlacesOf(r)',
         \A r \in Regs \ DOMAIN settled : PlacesOf(r)' = PlacesOf(r)
  PROVE  PlacesCounted' /\ paidCount' \in [Items -> Nat]
<1> SUFFICES ASSUME NEW i \in Items
             PROVE  /\ paidCount'[i] + uncounted'[i] = Cardinality(Holders(i)')
                    /\ paidCount'[i] <= Capacity[i]
                    /\ Count(settled, i) \in Nat /\ paidCount'[i] = Count(settled, i)
  BY DEF PlacesCounted, Commit
<1> DEFINE H == Holders(i)
           T == Taken(settled, i)
           L == Released(settled, i)
<1>1. Holders(i)' = (H \ L) \cup T
  BY DEF Holders, Taken, Released
<1>2. L \subseteq H /\ T \cap H = {} /\ T \subseteq Regs /\ H \subseteq Regs
  BY DEF Holders, Taken, Released
<1>3. IsFiniteSet(H) /\ IsFiniteSet(T)
  BY <1>2, RegsFinite, FS_Subset
<1>4. /\ Cardinality(Holders(i)') = Cardinality(H) + Cardinality(T) - Cardinality(L)
      /\ Cardinality(H) \in Nat /\ Cardinality(T) \in Nat /\ Cardinality(L) \in Nat
  <2> HIDE DEF H, T, L
  <2> QED BY <1>1, <1>2, <1>3, MovedCardinality
<1>5. paidCount[i] + uncounted[i] = Cardinality(H) /\ paidCount[i] \in Nat /\ uncounted[i] \in Nat
  BY DEF PlacesCounted, Shape
<1>6. Count(settled, i) = paidCount[i] + Cardinality(T) - Cardinality(L) /\ Count(settled, i) >= 0
  BY DEF Count, Commit, Fits
<1>7. paidCount'[i] = Count(settled, i)
  BY DEF Commit
<1>8. T = {} => Cardinality(T) = 0
  BY FS_EmptySet
<1>9. T # {} => Count(settled, i) <= Capacity[i]
  BY DEF Commit, Fits
<1>10. paidCount[i] <= Capacity[i] /\ Capacity[i] \in Nat
  BY CapacityType DEF PlacesCounted
<1> HIDE DEF H, T, L
<1>11. QED
  BY <1>4, <1>5, <1>6, <1>7, <1>8, <1>9, <1>10

(* What a registration holds depends on its row, its usages and what they  *)
(* cover.                                                                  *)
Untouched(q) ==
  /\ Usages(links', q) = Usages(links, q)
  /\ \A c \in Usages(links, q) : spons'[c].items = spons[c].items

LEMMA UntouchedPlaces ==
  ASSUME NEW q \in Regs, reg'[q] = reg[q], Untouched(q)
  PROVE  PlacesOf(q)' = PlacesOf(q)
<1>1. Covered(Usages(links', q), spons') = Covered(Usages(links, q), spons)
  BY DEF Untouched, Covered
<1>2. QED
  BY <1>1 DEF PlacesOf

(* An operation that settles one registration *)
LEMMA OneSettled ==
  ASSUME Shape, PlacesCounted, NEW r \in Regs, NEW old, NEW before, NEW new, NEW now,
         SettleOne(r, old, before, new, now), uncounted' = uncounted,
         PaidPlaces(old, before) = PlacesOf(r),
         PaidPlaces(new, now) = PaidPlaces(new, Covered(Usages(links', r), spons')),
         \A q \in Regs \ {r} : Untouched(q)
  PROVE  /\ reg' = [q \in Regs |-> IF q = r THEN new ELSE reg[q]]
         /\ PlacesCounted' /\ paidCount' \in [Items -> Nat]
<1> DEFINE settled == [x \in {r} |-> Settle(old, before, new, now)]
<1>1. /\ DOMAIN settled = {r} /\ settled[r].reg = new
      /\ settled[r].from = PaidPlaces(old, before) /\ settled[r].to = PaidPlaces(new, now)
  BY DEF Settle
<1> Commit(settled)
  BY DEF SettleOne
<1> HIDE DEF settled
<1>2. reg' = [q \in Regs |-> IF q = r THEN new ELSE reg[q]]
  BY <1>1 DEF Commit
<1>3. settled[r].to = PlacesOf(r)'
  BY <1>1, <1>2 DEF PlacesOf
<1>4. \A q \in Regs \ {r} : PlacesOf(q)' = PlacesOf(q)
  BY <1>2, UntouchedPlaces
<1>5. PlacesCounted' /\ paidCount' \in [Items -> Nat]
  BY <1>1, <1>3, <1>4, CommitCounts
<1>6. QED
  BY <1>2, <1>5

-----------------------------------------------------------------------------
(* The rows the operators build *)

LEMMA DerivedRow ==
  ASSUME NEW g, Stored(g)
  PROVE  Stored(Derived(g)) /\ Derived(g).items = g.items /\ Derived(g).code = g.code
  BY DEF Derived, Stored, Row, Columns, Statuses

LEMMA WithPaymentRow ==
  ASSUME NEW g, Stored(g), NEW status \in Statuses \cup {NotGiven}, NEW paid
  PROVE  LET n == WithPayment(g, status, paid)
         IN  Stored(n) /\ n.items = g.items /\ n.code = g.code
  BY DEF WithPayment, Stored, Row, Columns, Statuses

LEMMA NewRow ==
  ASSUME NEW a, NEW its, NEW status \in Statuses, NEW code
  PROVE  LET n == NewRegistration(a, its, status, code)
         IN  Stored(n) /\ n.status = status /\ n.items = its /\ n.code = code
  BY DEF NewRegistration, NoRegistration, Stored, Row, Columns, Statuses

LEMMA NoRow ==
  Row(NoRegistration) /\ NoRegistration.status = "NONE" /\ NoRegistration.code = NotGiven
  BY DEF NoRegistration, Row, Columns

LEMMA RepricedRow ==
  ASSUME NEW r, Stored(reg[r]), NEW a, NEW its, NEW least
  PROVE  Stored(Repriced(r, a, its, least)) /\ Repriced(r, a, its, least).code = reg[r].code
<1> DEFINE g == [reg[r] EXCEPT !.ans = a, !.items = its]
           t == [g EXCEPT !.total = Max({Subtotal(g), least})]
<1>1. Row(t) /\ t.status = reg[r].status /\ t.code = reg[r].code
  BY DEF Stored, Row, Columns
<1>2. Repriced(r, a, its, least) = Recomputed(t, Usages(links, r), spons, TRUE)
  BY DEF Repriced
<1> HIDE DEF t
<1>3. QED
  BY <1>1, <1>2 DEF Recomputed, Stored, Row, Columns

-----------------------------------------------------------------------------
(* Operations that write one stored row and no usage or sponsorship *)

LEMMA RowWritten ==
  ASSUME Inv, NEW r \in Regs, Exists(r), NEW new, Stored(new), new.code = reg[r].code,
         NEW covered, covered = Covered(Usages(links, r), spons),
         SettleOne(r, reg[r], covered, new, covered),
         UNCHANGED <<spons, links, uncounted>>
  PROVE  Inv'
<1>1. \A q \in Regs \ {r} : Untouched(q)
  BY DEF Untouched
<1>2. /\ reg' = [q \in Regs |-> IF q = r THEN new ELSE reg[q]]
      /\ PlacesCounted' /\ paidCount' \in [Items -> Nat]
  BY <1>1, OneSettled DEF Inv, PlacesOf
<1>3. Shape'
  BY <1>2 DEF Inv, Shape, Stored
<1>4. LinkedExist' /\ UsedWhileLinked'
  BY <1>2 DEF Inv, Shape, LinkedExist, UsedWhileLinked, Exists, LinkedTo, Stored
<1>5. QED
  BY <1>2, <1>3, <1>4 DEF Inv

LEMMA StoredRow ==
  ASSUME Inv, NEW r \in Regs, Exists(r)
  PROVE  Stored(reg[r])
  BY DEF Inv, Shape, Exists, Stored

LEMMA PaymentKeepsInv ==
  ASSUME Inv, NEW r \in Regs, NEW status \in Statuses \cup {NotGiven}, NEW amount,
         UpdateRegistration(r, status, amount) \/ AdminEditPayment(r, status, amount)
  PROVE  Inv'
<1>1. Exists(r) /\ Stored(reg[r])
  BY StoredRow DEF UpdateRegistration, AdminEditPayment
<1>2. ASSUME NEW s \in Statuses \cup {NotGiven}, NEW paid, WritePayment(r, WithPayment(reg[r], s, paid))
      PROVE  Inv'
  <2>1. Stored(WithPayment(reg[r], s, paid)) /\ WithPayment(reg[r], s, paid).code = reg[r].code
    BY <1>1, WithPaymentRow
  <2>2. QED
    BY <1>1, <1>2, <2>1, RowWritten DEF WritePayment
<1>3. CASE UpdateRegistration(r, status, amount)
  BY <1>2, <1>3 DEF UpdateRegistration
<1>4. CASE AdminEditPayment(r, status, amount)
  BY <1>2, <1>4 DEF AdminEditPayment
<1>5. QED
  BY <1>3, <1>4

LEMMA ConfirmPaymentKeepsInv ==
  ASSUME Inv, NEW r \in Regs, NEW status \in Statuses, NEW amount, ConfirmPayment(r, status, amount)
  PROVE  Inv'
<1> DEFINE g == Recomputed(reg[r], Usages(links, r), spons, TRUE)
           paid == IF amount = NotGiven THEN Net(g) ELSE amount
           covered == Covered(Usages(links, r), spons)
<1>1. Exists(r) /\ Stored(reg[r])
  BY StoredRow DEF ConfirmPayment
<1>2. Stored(g) /\ g.code = reg[r].code
  BY <1>1 DEF Recomputed, Stored, Row, Columns
<1>3. SettleOne(r, reg[r], covered, WithPayment(g, status, paid), covered)
      /\ UNCHANGED <<spons, links, uncounted>>
  BY DEF ConfirmPayment
<1> HIDE DEF g, paid
<1>4. Stored(WithPayment(g, status, paid)) /\ WithPayment(g, status, paid).code = reg[r].code
  BY <1>2, WithPaymentRow
<1>5. QED
  BY <1>1, <1>3, <1>4, RowWritten

LEMMA RepriceKeepsInv ==
  ASSUME Inv, NEW r \in Regs, Exists(r), NEW new, Stored(new), new.code = reg[r].code,
         WriteReprice(r, new)
  PROVE  Inv'
  BY RowWritten DEF WriteReprice

LEMMA AdminEditPriceKeepsInv ==
  ASSUME Inv, NEW r \in Regs, NEW a, NEW its, NEW status \in Statuses \cup {NotGiven}, NEW amount,
         AdminEditPrice(r, a, its, status, amount)
  PROVE  Inv'
<1> DEFINE n == Repriced(r, a, its, 0)
           change == IF status = reg[r].status THEN NotGiven ELSE status
           paid == IF amount = NotGiven /\ status = "PAID" THEN Net(n) ELSE amount
           edited == WithPayment(n, change, paid)
           new == IF status = NotGiven THEN Derived(edited) ELSE edited
<1>1. Exists(r) /\ Stored(reg[r])
  BY StoredRow DEF AdminEditPrice
<1>2. Stored(n) /\ n.code = reg[r].code
  BY <1>1, RepricedRow
<1>3. WriteReprice(r, new)
  BY DEF AdminEditPrice
<1>4. Stored(edited) /\ edited.code = reg[r].code
  <2>1. change \in Statuses \cup {NotGiven}
    OBVIOUS
  <2> HIDE DEF n, paid, change
  <2>2. QED
    BY <1>2, <2>1, WithPaymentRow
<1> HIDE DEF edited
<1>5. Stored(new) /\ new.code = reg[r].code
  BY <1>4, DerivedRow
<1> HIDE DEF new
<1>6. QED
  BY <1>1, <1>3, <1>5, RepriceKeepsInv

LEMMA EditPublicKeepsInv ==
  ASSUME Inv, NEW r \in Regs, NEW a, NEW its, EditRegistrationPublic(r, a, its)
  PROVE  Inv'
<1> DEFINE n == Repriced(r, a, its, IF PaymentReceived(reg[r]) THEN reg[r].total ELSE 0)
<1>1. Exists(r) /\ Stored(reg[r])
  BY StoredRow DEF EditRegistrationPublic
<1>2. Stored(n) /\ n.code = reg[r].code
  BY <1>1, RepricedRow
<1>3. WriteReprice(r, Derived(n))
  BY DEF EditRegistrationPublic
<1> HIDE DEF n
<1>4. QED
  BY <1>1, <1>2, <1>3, DerivedRow, RepriceKeepsInv

LEMMA DropAccessKeepsInv ==
  ASSUME Inv, NEW r \in Regs, NEW i, DropAccess(r, i)
  PROVE  Inv'
<1> DEFINE g == [reg[r] EXCEPT !.items = @ \ {i}]
           t == [g EXCEPT !.total = Subtotal(g)]
           n == Recomputed(t, Usages(links, r), spons, TRUE)
           covered == Covered(Usages(links, r), spons)
<1>1. Exists(r) /\ Stored(reg[r])
  BY StoredRow DEF DropAccess
<1>2. Stored(t) /\ t.code = reg[r].code
  BY <1>1 DEF Stored, Row, Columns
<1>3. SettleOne(r, reg[r], covered, Derived(n), covered) /\ UNCHANGED <<spons, links, uncounted>>
  BY DEF DropAccess
<1> HIDE DEF t
<1>4. Stored(n) /\ n.code = reg[r].code
  BY <1>2 DEF Recomputed, Stored, Row, Columns
<1> HIDE DEF n
<1>5. QED
  BY <1>1, <1>3, <1>4, DerivedRow, RowWritten

-----------------------------------------------------------------------------
(* Operations that create, delete or mark a row *)

(* A registration that is not stored has no usages and holds no place. *)
LEMMA NothingHeld ==
  ASSUME Inv, NEW r \in Regs, ~Exists(r)
  PROVE  Usages(links, r) = {} /\ PlacesOf(r) = {} /\ reg[r].code = NotGiven
<1>1. \A c \in Spons : <<c, r>> \notin links
  BY DEF Inv, LinkedExist
<1>2. reg[r].code = NotGiven
  BY <1>1 DEF Inv, UsedWhileLinked, Shape
<1>3. PlacesOf(r) = {}
  BY DEF PlacesOf, PaidPlaces, Exists, Settled
<1>4. QED
  BY <1>1, <1>2, <1>3 DEF Usages

LEMMA RowCreated ==
  ASSUME Inv, NEW r \in Regs, ~Exists(r), NEW old, old.status = "PENDING",
         NEW new, Stored(new), new.code = NotGiven,
         SettleOne(r, old, {}, new, {}), UNCHANGED <<spons, links, uncounted>>
  PROVE  Inv'
<1>1. \A q \in Regs \ {r} : Untouched(q)
  BY DEF Untouched
<1>2. PaidPlaces(old, {}) = PlacesOf(r)
  BY NothingHeld DEF PaidPlaces, Settled
<1>3. {} = Covered(Usages(links', r), spons')
  BY NothingHeld DEF Covered
<1>4. /\ reg' = [q \in Regs |-> IF q = r THEN new ELSE reg[q]]
      /\ PlacesCounted' /\ paidCount' \in [Items -> Nat]
  BY <1>1, <1>2, <1>3, OneSettled DEF Inv
<1>5. Shape'
  BY <1>4 DEF Inv, Shape, Stored
<1>6. LinkedExist' /\ UsedWhileLinked'
  BY <1>4 DEF Inv, Shape, LinkedExist, UsedWhileLinked, Exists, LinkedTo, Stored
<1>7. QED
  BY <1>4, <1>5, <1>6 DEF Inv

LEMMA RegisterKeepsInv ==
  ASSUME Inv, NEW r \in Regs, NEW a, NEW its, Register(r, a, its)
  PROVE  Inv'
<1> DEFINE g == NewRegistration(a, its, "PENDING", NotGiven)
           new == IF AutoAccept /\ g.total = 0
                  THEN [g EXCEPT !.status = "WAIVED", !.dated = TRUE] ELSE g
<1>1. Stored(g) /\ g.status = "PENDING" /\ g.code = NotGiven
  BY NewRow DEF Statuses
<1>2. ~Exists(r) /\ SettleOne(r, g, {}, new, {}) /\ UNCHANGED <<spons, links, uncounted>>
  BY DEF Register
<1> HIDE DEF g
<1>3. Stored(new) /\ new.code = NotGiven
  BY <1>1 DEF Stored, Row, Columns, Statuses
<1> HIDE DEF new
<1>4. QED
  BY <1>1, <1>2, <1>3, RowCreated

LEMMA CreateAdminKeepsInv ==
  ASSUME Inv, NEW r \in Regs, NEW a, NEW its, NEW status \in Statuses,
         CreateAdminRegistration(r, a, its, status)
  PROVE  Inv'
<1> DEFINE g == NewRegistration(a, its, status, NotGiven)
           old == [g EXCEPT !.status = "PENDING"]
<1>1. Stored(g) /\ g.code = NotGiven
  BY NewRow
<1>2. ~Exists(r) /\ SettleOne(r, old, {}, g, {}) /\ UNCHANGED <<spons, links, uncounted>>
  BY DEF CreateAdminRegistration
<1> HIDE DEF g
<1>3. old.status = "PENDING"
  BY <1>1 DEF Stored, Row, Columns
<1> HIDE DEF old
<1>4. QED
  BY <1>1, <1>2, <1>3, RowCreated

(* Linking sets exactly the linked sponsorship USED. *)
LEMMA LinkedIsUsed ==
  ASSUME Inv, NEW c \in Spons, NEW r \in Regs,
         links' = links \cup {<<c, r>>}, spons' = [spons EXCEPT ![c].status = "USED"]
  PROVE  \A d \in Spons : (spons[d].status = "USED" <=> LinkedTo(d) # {})'
<1> SUFFICES ASSUME NEW d \in Spons
             PROVE  spons'[d].status = "USED" <=> LinkedTo(d)' # {}
  OBVIOUS
<1>1. spons[d].status = "USED" <=> LinkedTo(d) # {}
  BY DEF Inv, UsedWhileLinked
<1>2. LinkedTo(d)' = IF d = c THEN LinkedTo(d) \cup {r} ELSE LinkedTo(d)
  BY DEF LinkedTo
<1>3. spons'[d].status = IF d = c THEN "USED" ELSE spons[d].status
  BY DEF Inv, Shape, Sponsorships
<1>4. QED
  BY <1>1, <1>2, <1>3

LEMMA RegisterWithCodeKeepsInv ==
  ASSUME Inv, NEW r \in Regs, NEW a, NEW its, NEW c \in Spons, RegisterWithCode(r, a, its, c)
  PROVE  Inv'
<1> DEFINE g == NewRegistration(a, its, "PENDING", c)
           n == Recomputed(g, {c}, spons, TRUE)
           new == Derived(n)
<1>1. Stored(g) /\ g.status = "PENDING" /\ g.code = c
  BY NewRow DEF Statuses
<1>2. /\ ~Exists(r) /\ Claimable(c) /\ SettleOne(r, g, {}, new, spons[c].items)
      /\ links' = links \cup {<<c, r>>} /\ spons' = [spons EXCEPT ![c].status = "USED"]
      /\ uncounted' = uncounted
  BY DEF RegisterWithCode
<1>3. Stored(n) /\ n.code = c
  <2> HIDE DEF g
  <2> QED BY <1>1 DEF Recomputed, Stored, Row, Columns
<1>4. Stored(new) /\ new.code = c
  <2> HIDE DEF n
  <2> QED BY <1>3, DerivedRow
<1> HIDE DEF g, new
<1>5. \A d \in Spons : spons'[d].items = spons[d].items
  BY <1>2 DEF Inv, Shape, Sponsorships
<1>6. \A q \in Regs \ {r} : Untouched(q)
  BY <1>2, <1>5 DEF Untouched, Usages
<1>7. PaidPlaces(g, {}) = PlacesOf(r)
  BY <1>1, <1>2, NothingHeld DEF PaidPlaces, Settled
<1>8. Usages(links', r) = {c}
  BY <1>2, NothingHeld DEF Usages
<1>9. spons[c].items = Covered(Usages(links', r), spons')
  BY <1>5, <1>8 DEF Covered
<1>10. /\ reg' = [q \in Regs |-> IF q = r THEN new ELSE reg[q]]
       /\ PlacesCounted' /\ paidCount' \in [Items -> Nat]
  BY <1>2, <1>6, <1>7, <1>9, OneSettled DEF Inv
<1>11. Shape'
  BY <1>2, <1>4, <1>10 DEF Inv, Shape, Stored, Sponsorships
<1>12. LinkedExist'
  BY <1>2, <1>4, <1>10 DEF Inv, Shape, LinkedExist, Exists, Stored
<1>13. UsedWhileLinked'
  <2>1. ASSUME NEW q \in Regs, reg'[q].code # NotGiven
        PROVE  <<reg'[q].code, q>> \in links'
    BY <1>2, <1>4, <1>10, <2>1 DEF Inv, UsedWhileLinked
  <2>2. QED
    BY <1>2, <2>1, LinkedIsUsed DEF UsedWhileLinked
<1>14. QED
  BY <1>10, <1>11, <1>12, <1>13 DEF Inv

LEMMA DeleteKeepsInv ==
  ASSUME Inv, NEW r \in Regs, DeleteRegistration(r)
  PROVE  Inv'
<1> DEFINE used == Usages(links, r)
           freed == {c \in used : \A x \in Regs \ {r} : <<c, x>> \notin links}
<1>1. /\ Exists(r) /\ links' = {l \in links : l[2] # r}
      /\ spons' = [c \in Spons |-> IF c \in freed THEN [spons[c] EXCEPT !.status = "PENDING"]
                                   ELSE spons[c]]
      /\ SettleOne(r, reg[r], Covered(used, spons), NoRegistration, {})
      /\ uncounted' = uncounted
  BY DEF DeleteRegistration
<1>2. \A d \in Spons : spons'[d].items = spons[d].items
  BY <1>1 DEF Inv, Shape, Sponsorships
<1>3. \A q \in Regs \ {r} : Untouched(q)
  BY <1>1, <1>2 DEF Untouched, Usages
<1>4. \A covered : PaidPlaces(NoRegistration, covered) = {}
  BY NoRow DEF PaidPlaces, Settled
<1>5. /\ reg' = [q \in Regs |-> IF q = r THEN NoRegistration ELSE reg[q]]
      /\ PlacesCounted' /\ paidCount' \in [Items -> Nat]
  BY <1>1, <1>3, <1>4, OneSettled DEF Inv, PlacesOf
<1>6. Shape'
  BY <1>1, <1>5, NoRow DEF Inv, Shape, Sponsorships
<1>7. LinkedExist'
  BY <1>1, <1>5 DEF Inv, Shape, LinkedExist, Exists
<1>8. UsedWhileLinked'
  <2>1. ASSUME NEW c \in Spons
        PROVE  (spons[c].status = "USED" <=> LinkedTo(c) # {})'
    <3>1. LinkedTo(c)' = LinkedTo(c) \ {r}
      BY <1>1 DEF LinkedTo
    <3>2. spons[c].status = "USED" <=> LinkedTo(c) # {}
      BY DEF Inv, UsedWhileLinked
    <3>3. c \in freed <=> LinkedTo(c) = {r}
      BY DEF LinkedTo, Usages, Inv, Shape
    <3>4. spons'[c].status = IF c \in freed THEN "PENDING" ELSE spons[c].status
      BY <1>1 DEF Inv, Shape, Sponsorships
    <3> HIDE DEF freed
    <3>5. QED
      BY <3>1, <3>2, <3>3, <3>4
  <2>2. ASSUME NEW q \in Regs, reg'[q].code # NotGiven
        PROVE  <<reg'[q].code, q>> \in links'
    BY <1>1, <1>5, <2>2, NoRow DEF Inv, UsedWhileLinked
  <2>3. QED
    BY <2>1, <2>2 DEF UsedWhileLinked
<1>9. QED
  BY <1>5, <1>6, <1>7, <1>8 DEF Inv

(* The places VERIFYING holds and the old status did not are the ones      *)
(* `uncounted` records.                                                    *)
LEMMA UploadKeepsInv ==
  ASSUME Inv, NEW r \in Regs, UploadPaymentProof(r)
  PROVE  Inv'
<1> DEFINE covered == Covered(Usages(links, r), spons)
           new == [reg[r] EXCEPT !.status = "VERIFYING"]
           more == PaidPlaces(new, covered) \ PaidPlaces(reg[r], covered)
<1>1. /\ Exists(r) /\ MayMove(AllowedTransitions, reg[r].status, "VERIFYING")
      /\ reg' = [reg EXCEPT ![r] = new]
      /\ uncounted' = [i \in Items |-> uncounted[i] + (IF i \in more THEN 1 ELSE 0)]
      /\ UNCHANGED <<spons, links, paidCount, drops>>
  BY DEF UploadPaymentProof
<1>2. Stored(new) /\ new.code = reg[r].code /\ new.status = "VERIFYING" /\ new.items = reg[r].items
  BY <1>1, StoredRow DEF Stored, Row, Columns, Statuses
<1>3. reg[r].status \in {"PENDING", "PARTIAL", "VERIFYING"}
  <2>1. reg[r].status \in Statuses
    BY <1>1, StoredRow DEF Stored, Row
  <2>2. QED
    BY <1>1, <2>1, NotGivenIsNull DEF MayMove, AllowedTransitions, Statuses
<1>4. PaidPlaces(reg[r], covered) \subseteq PaidPlaces(new, covered)
  BY <1>2, <1>3 DEF PaidPlaces, Settled
<1>5. \A q \in Regs : reg'[q] = IF q = r THEN new ELSE reg[q]
  BY <1>1 DEF Inv, Shape
<1>6. PlacesOf(r)' = PaidPlaces(new, covered) /\ PlacesOf(r) = PaidPlaces(reg[r], covered)
  BY <1>1, <1>5 DEF PlacesOf
<1>7. \A q \in Regs \ {r} : PlacesOf(q)' = PlacesOf(q)
  BY <1>1, <1>5 DEF PlacesOf
<1>8. PlacesCounted'
  <2> SUFFICES ASSUME NEW i \in Items
               PROVE  paidCount[i] + uncounted'[i] = Cardinality(Holders(i)')
    BY <1>1 DEF Inv, PlacesCounted
  <2>1. /\ paidCount[i] + uncounted[i] = Cardinality(Holders(i))
        /\ paidCount[i] \in Nat /\ uncounted[i] \in Nat
    BY DEF Inv, PlacesCounted, Shape
  <2>2. Holders(i)' = IF i \in more THEN Holders(i) \cup {r} ELSE Holders(i)
    BY <1>4, <1>6, <1>7 DEF Holders
  <2>3. i \in more => r \notin Holders(i)
    BY <1>6 DEF Holders
  <2>4. IsFiniteSet(Holders(i))
    BY RegsFinite, FS_Subset DEF Holders
  <2>5. i \in more => Cardinality(Holders(i)') = Cardinality(Holders(i)) + 1
    BY <2>2, <2>3, <2>4, FS_AddElement
  <2>6. uncounted'[i] = uncounted[i] + (IF i \in more THEN 1 ELSE 0)
    BY <1>1
  <2> HIDE DEF more
  <2>7. QED
    BY <2>1, <2>2, <2>5, <2>6
<1> HIDE DEF more, new
<1>9. Shape'
  <2>1. uncounted' \in [Items -> Nat]
    BY <1>1 DEF Inv, Shape
  <2>2. reg' = [q \in Regs |-> reg'[q]]
    BY <1>1 DEF Inv, Shape
  <2>3. \A q \in Regs : Row(reg'[q])
    BY <1>2, <1>5 DEF Inv, Shape, Stored
  <2>4. QED
    BY <1>1, <2>1, <2>2, <2>3 DEF Inv, Shape
<1>10. LinkedExist' /\ UsedWhileLinked'
  BY <1>1, <1>2, <1>5 DEF Inv, Shape, LinkedExist, UsedWhileLinked, Exists, LinkedTo, Stored
<1>11. QED
  BY <1>8, <1>9, <1>10 DEF Inv

-----------------------------------------------------------------------------
(* Operations on sponsorships *)

LEMMA CreateSponsorshipKeepsInv ==
  ASSUME Inv, NEW c \in Spons, NEW k \in Coverages, CreateSponsorship(c, k)
  PROVE  Inv'
<1>1. k.base \in BOOLEAN /\ k.items \in SUBSET Items
  BY CoveragesType
<1>2. /\ spons' = [spons EXCEPT ![c] = [status |-> "PENDING", base |-> k.base, items |-> k.items]]
      /\ spons[c].status = "NONE" /\ UNCHANGED <<reg, links, paidCount, drops, uncounted>>
  BY DEF CreateSponsorship, SponsorshipExists
<1>3. LinkedTo(c) = {}
  BY <1>2 DEF Inv, UsedWhileLinked
<1>4. \A q \in Regs : Untouched(q)
  BY <1>2, <1>3 DEF Untouched, Usages, LinkedTo, Inv, Shape
<1>5. \A q \in Regs : PlacesOf(q)' = PlacesOf(q)
  BY <1>2, <1>4, UntouchedPlaces
<1>6. PlacesCounted'
  <2>1. \A i \in Items : Holders(i)' = Holders(i)
    BY <1>5 DEF Holders
  <2>2. QED
    BY <1>2, <2>1 DEF Inv, PlacesCounted
<1>7. Shape' /\ LinkedExist'
  BY <1>1, <1>2 DEF Inv, Shape, LinkedExist, Exists, Sponsorships
<1>8. UsedWhileLinked'
  <2>1. \A d \in Spons : LinkedTo(d)' = LinkedTo(d)
    BY <1>2 DEF LinkedTo
  <2>2. \A d \in Spons : spons'[d].status = IF d = c THEN "PENDING" ELSE spons[d].status
    BY <1>2 DEF Inv, Shape
  <2>3. QED
    BY <1>2, <1>3, <2>1, <2>2 DEF Inv, UsedWhileLinked
<1>9. QED
  BY <1>6, <1>7, <1>8 DEF Inv

LEMMA LinkKeepsInv ==
  ASSUME Inv, NEW c \in Spons, NEW r \in Regs, NEW g, Stored(g), g.code \in {reg[r].code, c},
         Link(c, r, g)
  PROVE  Inv'
<1> DEFINE used == Usages(links, r)
           n == Recomputed(g, used \cup {c}, spons, TRUE)
           new == Derived(n)
<1>1. /\ Exists(r) /\ links' = links \cup {<<c, r>>}
      /\ spons' = [spons EXCEPT ![c].status = "USED"]
      /\ SettleOne(r, reg[r], Covered(used, spons), new, Covered(used \cup {c}, spons))
      /\ uncounted' = uncounted
  BY DEF Link
<1>2. Stored(n) /\ n.code = g.code
  BY DEF Recomputed, Stored, Row, Columns
<1>3. Stored(new) /\ new.code = g.code
  <2> HIDE DEF n
  <2> QED BY <1>2, DerivedRow
<1> HIDE DEF new
<1>4. \A d \in Spons : spons'[d].items = spons[d].items
  BY <1>1 DEF Inv, Shape, Sponsorships
<1>5. \A q \in Regs \ {r} : Untouched(q)
  BY <1>1, <1>4 DEF Untouched, Usages
<1>6. Usages(links', r) = used \cup {c}
  BY <1>1 DEF Usages
<1>7. Covered(used \cup {c}, spons) = Covered(Usages(links', r), spons')
  BY <1>4, <1>6 DEF Covered, Usages
<1>8. /\ reg' = [q \in Regs |-> IF q = r THEN new ELSE reg[q]]
      /\ PlacesCounted' /\ paidCount' \in [Items -> Nat]
  BY <1>1, <1>5, <1>7, OneSettled DEF Inv, PlacesOf
<1>9. Shape'
  BY <1>1, <1>3, <1>8, SMTT(30) DEF Inv, Shape, Stored, Sponsorships
<1>10. LinkedExist'
  BY <1>1, <1>3, <1>8 DEF Inv, Shape, LinkedExist, Exists, Stored
<1>11. UsedWhileLinked'
  <2>1. ASSUME NEW q \in Regs, reg'[q].code # NotGiven
        PROVE  <<reg'[q].code, q>> \in links'
    BY <1>1, <1>3, <1>8, <2>1 DEF Inv, UsedWhileLinked
  <2>2. QED
    BY <1>1, <2>1, LinkedIsUsed DEF UsedWhileLinked
<1>12. QED
  BY <1>8, <1>9, <1>10, <1>11 DEF Inv

LEMMA LinkOrRedeemKeepsInv ==
  ASSUME Inv, NEW c \in Spons, NEW r \in Regs, LinkSponsorship(c, r) \/ RedeemSponsorshipCode(c, r)
  PROVE  Inv'
<1> DEFINE g == [reg[r] EXCEPT !.code = IF @ = NotGiven THEN c ELSE @]
<1>1. Exists(r) /\ Stored(reg[r])
  BY StoredRow DEF LinkSponsorship, RedeemSponsorshipCode, Link
<1>2. CASE LinkSponsorship(c, r)
  BY <1>1, <1>2, LinkKeepsInv DEF LinkSponsorship
<1>3. CASE RedeemSponsorshipCode(c, r)
  <2>1. Link(c, r, g)
    BY <1>3 DEF RedeemSponsorshipCode
  <2>2. Stored(g) /\ g.code \in {reg[r].code, c}
    BY <1>1 DEF Stored, Row, Columns
  <2> HIDE DEF g
  <2>3. QED
    BY <2>1, <2>2, LinkKeepsInv
<1>4. QED
  BY <1>2, <1>3

(* Unlinking a sponsorship from the registrations of S *)
LEMMA UnlinkedFrom ==
  ASSUME Inv, NEW c \in Spons, NEW S, S \subseteq LinkedTo(c),
         Commit([r \in S |-> SettleUnlinked(c, r)]), uncounted' = uncounted,
         links' = {l \in links : ~(l[1] = c /\ l[2] \in S)},
         \A d \in Spons : spons'[d].items = spons[d].items,
         spons' \in [Spons -> Sponsorships],
         \A d \in Spons : (spons[d].status = "USED" <=> LinkedTo(d) # {})'
  PROVE  Inv'
<1> DEFINE settled == [r \in S |-> SettleUnlinked(c, r)]
           New(r) == Derived(Unlinked(c, r))
<1>0. S \subseteq Regs
  BY DEF LinkedTo
<1>1. DOMAIN settled = S
  OBVIOUS
<1>2. ASSUME NEW r \in S
      PROVE  /\ settled[r].reg = New(r)
             /\ settled[r].from = PaidPlaces(reg[r], Covered(Usages(links, r), spons))
             /\ settled[r].to = PaidPlaces(New(r), Covered(Usages(links, r) \ {c}, spons))
  BY DEF SettleUnlinked, Settle
<1>3. Commit(settled)
  OBVIOUS
<1>4. ASSUME NEW r \in S
      PROVE  Stored(New(r)) /\ New(r).code = IF reg[r].code = c THEN NotGiven ELSE reg[r].code
  <2> DEFINE g == [reg[r] EXCEPT !.code = IF @ = c THEN NotGiven ELSE @]
  <2>1. Stored(reg[r])
    BY <1>0, StoredRow DEF LinkedTo, Inv, LinkedExist
  <2>2. Stored(g) /\ g.code = IF reg[r].code = c THEN NotGiven ELSE reg[r].code
    BY <2>1 DEF Stored, Row, Columns
  <2>3. Unlinked(c, r) = Recomputed(g, Usages(links, r) \ {c}, spons, FALSE)
    BY DEF Unlinked
  <2> HIDE DEF g
  <2>4. Stored(Unlinked(c, r)) /\ Unlinked(c, r).code = g.code
    BY <2>2, <2>3 DEF Recomputed, Stored, Row, Columns
  <2>5. QED
    BY <2>2, <2>4, DerivedRow
<1> HIDE DEF settled, New
<1>5. \A r \in Regs : reg'[r] = IF r \in S THEN New(r) ELSE reg[r]
  BY <1>0, <1>1, <1>2, <1>3 DEF Commit
<1>6. ASSUME NEW r \in S
      PROVE  settled[r].from = PlacesOf(r) /\ settled[r].to = PlacesOf(r)'
  <2>1. Usages(links', r) = Usages(links, r) \ {c}
    BY DEF Usages
  <2>2. Covered(Usages(links', r), spons') = Covered(Usages(links, r) \ {c}, spons)
    BY <2>1 DEF Covered, Usages
  <2>3. QED
    BY <1>0, <1>2, <1>5, <2>2 DEF PlacesOf
<1>7. ASSUME NEW r \in Regs \ S
      PROVE  PlacesOf(r)' = PlacesOf(r)
  <2>1. Untouched(r)
    BY DEF Untouched, Usages
  <2>2. QED
    BY <1>5, <2>1, UntouchedPlaces
<1>8. PlacesCounted' /\ paidCount' \in [Items -> Nat]
  BY <1>0, <1>1, <1>3, <1>6, <1>7, CommitCounts DEF Inv
<1>9. Shape'
  <2>1. reg' = [r \in Regs |-> reg'[r]]
    BY <1>3 DEF Commit
  <2>2. \A r \in Regs : Row(reg'[r])
    BY <1>4, <1>5 DEF Inv, Shape, Stored
  <2>3. QED
    BY <1>8, <2>1, <2>2 DEF Inv, Shape
<1>10. LinkedExist'
  <2>1. \A r \in Regs : Exists(r) => Exists(r)'
    BY <1>4, <1>5 DEF Exists, Stored
  <2>2. \A l \in links' : l \in links /\ l[2] \in Regs
    BY DEF Inv, Shape
  <2>3. QED
    BY <2>1, <2>2 DEF Inv, LinkedExist
<1>11. UsedWhileLinked'
  <2>1. ASSUME NEW r \in Regs, reg'[r].code # NotGiven
        PROVE  <<reg'[r].code, r>> \in links'
    <3>1. reg'[r].code = reg[r].code /\ (r \in S => reg[r].code # c)
      BY <1>4, <1>5, <2>1
    <3>2. <<reg[r].code, r>> \in links
      BY <2>1, <3>1 DEF Inv, UsedWhileLinked
    <3>3. QED
      BY <3>1, <3>2
  <2>2. QED
    BY <2>1 DEF UsedWhileLinked
<1>12. QED
  BY <1>8, <1>9, <1>10, <1>11 DEF Inv

LEMMA UnlinkKeepsInv ==
  ASSUME Inv, NEW c \in Spons, NEW r \in Regs, UnlinkSponsorship(c, r)
  PROVE  Inv'
<1> DEFINE S == {r}
<1>1. /\ <<c, r>> \in links /\ links' = links \ {<<c, r>>} /\ uncounted' = uncounted
      /\ spons' = [spons EXCEPT ![c].status = IF LinkedTo(c) = {r} THEN "PENDING" ELSE @]
      /\ Commit([x \in S |-> SettleUnlinked(c, x)])
  BY DEF UnlinkSponsorship
<1>2. S \subseteq LinkedTo(c)
  BY <1>1 DEF LinkedTo
<1>3. links' = {l \in links : ~(l[1] = c /\ l[2] \in S)}
  BY <1>1 DEF Inv, Shape
<1>4. spons' \in [Spons -> Sponsorships] /\ \A d \in Spons : spons'[d].items = spons[d].items
  BY <1>1 DEF Inv, Shape, Sponsorships
<1>5. ASSUME NEW d \in Spons
      PROVE  spons'[d].status = "USED" <=> LinkedTo(d)' # {}
  <2>1. spons[d].status = "USED" <=> LinkedTo(d) # {}
    BY DEF Inv, UsedWhileLinked
  <2>2. LinkedTo(d)' = IF d = c THEN LinkedTo(d) \ {r} ELSE LinkedTo(d)
    BY <1>1 DEF LinkedTo
  <2>3. spons'[d].status = IF d = c /\ LinkedTo(d) = {r} THEN "PENDING" ELSE spons[d].status
    BY <1>1 DEF Inv, Shape, Sponsorships
  <2>4. d = c => r \in LinkedTo(d)
    BY <1>1 DEF LinkedTo
  <2>5. QED
    BY <2>1, <2>2, <2>3, <2>4
<1> HIDE DEF S
<1>6. QED
  BY <1>1, <1>2, <1>3, <1>4, <1>5, UnlinkedFrom

LEMMA ReleaseKeepsInv ==
  ASSUME Inv, NEW c \in Spons, NEW status \in {"NONE", "CANCELLED"}, ReleaseSponsorship(c, status)
  PROVE  Inv'
<1> DEFINE S == LinkedTo(c)
<1>1. /\ links' = {l \in links : l[1] # c} /\ uncounted' = uncounted
      /\ spons' = [spons EXCEPT ![c].status = status]
      /\ Commit([x \in S |-> SettleUnlinked(c, x)])
  BY DEF ReleaseSponsorship
<1>2. links' = {l \in links : ~(l[1] = c /\ l[2] \in S)}
  BY <1>1 DEF Inv, Shape, LinkedTo
<1>3. spons' \in [Spons -> Sponsorships] /\ \A d \in Spons : spons'[d].items = spons[d].items
  BY <1>1 DEF Inv, Shape, Sponsorships
<1>4. ASSUME NEW d \in Spons
      PROVE  spons'[d].status = "USED" <=> LinkedTo(d)' # {}
  <2>1. spons[d].status = "USED" <=> LinkedTo(d) # {}
    BY DEF Inv, UsedWhileLinked
  <2>2. LinkedTo(d)' = IF d = c THEN {} ELSE LinkedTo(d)
    BY <1>1 DEF LinkedTo
  <2>3. spons'[d].status = IF d = c THEN status ELSE spons[d].status
    BY <1>1 DEF Inv, Shape, Sponsorships
  <2>4. QED
    BY <2>1, <2>2, <2>3
<1>5. S \subseteq LinkedTo(c)
  OBVIOUS
<1> HIDE DEF S
<1>6. QED
  BY <1>1, <1>2, <1>3, <1>4, <1>5, UnlinkedFrom

LEMMA ChangeCoverageKeepsInv ==
  ASSUME Inv, NEW c \in Spons, NEW k \in Coverages, ChangeCoverage(c, k)
  PROVE  Inv'
<1> DEFINE cover == [spons EXCEPT ![c].base = k.base, ![c].items = k.items]
           Fresh(r) == Recomputed(reg[r], Usages(links, r), cover, TRUE)
           New(r) == Derived(Fresh(r))
           S == LinkedTo(c)
           settled == [r \in S |-> Settle(reg[r], Covered(Usages(links, r), spons),
                                          New(r), Covered(Usages(links, r), cover))]
<1>1. spons' = cover /\ Commit(settled) /\ UNCHANGED <<links, uncounted>>
  BY DEF ChangeCoverage
<1>2. S \subseteq Regs /\ DOMAIN settled = S
  BY DEF LinkedTo
<1>3. ASSUME NEW r \in S
      PROVE  /\ settled[r].reg = New(r)
             /\ settled[r].from = PaidPlaces(reg[r], Covered(Usages(links, r), spons))
             /\ settled[r].to = PaidPlaces(New(r), Covered(Usages(links, r), cover))
  BY DEF Settle
<1>4. ASSUME NEW r \in S
      PROVE  Stored(New(r)) /\ New(r).code = reg[r].code
  <2>1. Stored(reg[r])
    BY <1>2, StoredRow DEF LinkedTo, Inv, LinkedExist
  <2>2. Stored(Fresh(r)) /\ Fresh(r).code = reg[r].code
    <3> HIDE DEF cover
    <3> QED BY <2>1 DEF Recomputed, Stored, Row, Columns
  <2> HIDE DEF Fresh
  <2>3. QED
    BY <2>2, DerivedRow
<1>5. /\ cover \in [Spons -> Sponsorships]
      /\ \A d \in Spons : cover[d].status = spons[d].status
      /\ \A d \in Spons \ {c} : cover[d].items = spons[d].items
  BY CoveragesType DEF Inv, Shape, Sponsorships
<1> HIDE DEF settled, New, cover
<1>6. \A r \in Regs : reg'[r] = IF r \in S THEN New(r) ELSE reg[r]
  BY <1>1, <1>2, <1>3 DEF Commit
<1>7. ASSUME NEW r \in S
      PROVE  settled[r].from = PlacesOf(r) /\ settled[r].to = PlacesOf(r)'
  BY <1>1, <1>2, <1>3, <1>6 DEF PlacesOf
<1>8. ASSUME NEW r \in Regs \ S
      PROVE  PlacesOf(r)' = PlacesOf(r)
  <2>1. Untouched(r)
    BY <1>1, <1>5 DEF Untouched, Usages, LinkedTo
  <2>2. QED
    BY <1>6, <2>1, UntouchedPlaces
<1>9. PlacesCounted' /\ paidCount' \in [Items -> Nat]
  <2> HIDE DEF S
  <2> QED BY <1>1, <1>2, <1>7, <1>8, CommitCounts DEF Inv
<1>10. Shape'
  <2>1. reg' = [r \in Regs |-> reg'[r]]
    BY <1>1 DEF Commit
  <2>2. \A r \in Regs : Row(reg'[r])
    BY <1>4, <1>6 DEF Inv, Shape, Stored
  <2>3. QED
    BY <1>1, <1>5, <1>9, <2>1, <2>2 DEF Inv, Shape
<1>11. LinkedExist'
  BY <1>1, <1>4, <1>6 DEF Inv, Shape, LinkedExist, Exists, Stored
<1>12. UsedWhileLinked'
  <2>1. \A d \in Spons : LinkedTo(d)' = LinkedTo(d)
    BY <1>1 DEF LinkedTo
  <2>2. \A r \in Regs : reg'[r].code = reg[r].code
    BY <1>4, <1>6
  <2>3. QED
    BY <1>1, <1>5, <2>1, <2>2 DEF Inv, UsedWhileLinked
<1>13. QED
  BY <1>9, <1>10, <1>11, <1>12 DEF Inv

-----------------------------------------------------------------------------
LEMMA InitInv == Init => Inv
<1> SUFFICES ASSUME Init PROVE Inv
  OBVIOUS
<1>1. Shape
  BY NoRow DEF Init, Shape, Sponsorships
<1>2. LinkedExist /\ UsedWhileLinked
  BY NoRow DEF Init, LinkedExist, UsedWhileLinked, LinkedTo
<1>3. PlacesCounted
  <2>1. \A i \in Items : Holders(i) = {}
    BY NoRow DEF Init, Holders, PlacesOf, PaidPlaces, Settled
  <2>2. QED
    BY <2>1, FS_EmptySet, CapacityType, SMTT(30) DEF Init, PlacesCounted
<1>4. QED
  BY <1>1, <1>2, <1>3 DEF Inv

(* A state that keeps every variable but the drops *)
LEMMA StutterKeepsInv ==
  ASSUME Inv, UNCHANGED <<reg, spons, links, paidCount, uncounted>>
  PROVE  Inv'
<1>1. Shape' /\ LinkedExist' /\ UsedWhileLinked'
  BY DEF Inv, Shape, LinkedExist, UsedWhileLinked, Exists, LinkedTo
<1>2. \A i \in Items : Holders(i)' = Holders(i)
  BY DEF Holders, PlacesOf
<1>3. PlacesCounted'
  BY <1>2 DEF Inv, PlacesCounted
<1>4. QED
  BY <1>1, <1>3 DEF Inv

LEMMA NextKeepsInv == Inv /\ [Next]_vars => Inv'
<1> SUFFICES ASSUME Inv, [Next]_vars PROVE Inv'
  OBVIOUS
<1>1. ASSUME NEW r \in Regs, RegistrationStep(r)
      PROVE  Inv'
  BY <1>1, RegisterKeepsInv, RegisterWithCodeKeepsInv, CreateAdminKeepsInv, EditPublicKeepsInv,
     AdminEditPriceKeepsInv, PaymentKeepsInv, ConfirmPaymentKeepsInv, UploadKeepsInv,
     DeleteKeepsInv, DropAccessKeepsInv DEF RegistrationStep
<1>2. ASSUME NEW c \in Spons, SponsorshipStep(c)
      PROVE  Inv'
  BY <1>2, CreateSponsorshipKeepsInv, ChangeCoverageKeepsInv, LinkOrRedeemKeepsInv,
     UnlinkKeepsInv, ReleaseKeepsInv DEF SponsorshipStep, CancelSponsorship, DeleteSponsorship
<1>3. ASSUME NEW i \in Items, EndDrop(i)
      PROVE  Inv'
  BY <1>3, StutterKeepsInv DEF EndDrop
<1>4. CASE UNCHANGED vars
  BY <1>4, StutterKeepsInv DEF vars
<1>5. QED
  BY <1>1, <1>2, <1>3, <1>4 DEF Next

(* The inductive invariant of the settlement: the tables' shape, usages    *)
(* only of stored registrations, USED exactly while linked, and every      *)
(* place counted but those of proof uploads.                               *)
THEOREM SettlementInvariant == Spec => []Inv
  BY InitInv, NextKeepsInv, PTL DEF Spec

(* Whatever the registrations, capacities, prices and coverages, paid_count *)
(* counts the paid places held, but for those a proof upload took.          *)
THEOREM PlacesCountedHolds == Spec => []PlacesCounted
<1>1. Inv => PlacesCounted
  BY DEF Inv
<1>2. QED
  BY <1>1, SettlementInvariant, PTL

(* A sponsorship is USED exactly while a registration is linked to it, and *)
(* a stored signup code is that of a linked sponsorship.                   *)
THEOREM UsedWhileLinkedHolds == Spec => []UsedWhileLinked
<1>1. Inv => UsedWhileLinked
  BY DEF Inv
<1>2. QED
  BY <1>1, SettlementInvariant, PTL

-----------------------------------------------------------------------------
(* What an operation leaves a refunded registration as *)
Refunded(g) == Row(g) /\ g.status = "REFUNDED"

LEMMA OneWritten ==
  ASSUME NEW r \in Regs, NEW q \in Regs, NEW old, NEW before, NEW new, NEW now,
         SettleOne(r, old, before, new, now)
  PROVE  reg'[q] = IF q = r THEN new ELSE reg[q]
  BY DEF SettleOne, Commit, Settle

LEMMA RecomputedRefund ==
  ASSUME NEW g, Refunded(g), NEW used, NEW cover, NEW keep
  PROVE  Refunded(Recomputed(g, used, cover, keep))
  BY DEF Recomputed, Refunded, Row, Columns

LEMMA DerivedRefund ==
  ASSUME NEW g, Refunded(g)
  PROVE  Derived(g) = g
  BY DEF Derived, Refunded, Sticky

(* Neither table has a way out of REFUNDED: a status given is REFUNDED itself. *)
LEMMA NoWayOut ==
  ASSUME NEW to, MayMove(AllowedTransitions, "REFUNDED", to) \/ MayMove(AdminOverrideTransitions, "REFUNDED", to)
  PROVE  to \in {NotGiven, "REFUNDED"}
  BY DEF MayMove, AllowedTransitions, AdminOverrideTransitions, Statuses

LEMMA PaymentRefund ==
  ASSUME NEW g, Refunded(g), NEW status \in {NotGiven, "REFUNDED"}, NEW paid
  PROVE  Refunded(WithPayment(g, status, paid))
  BY DEF WithPayment, Refunded, Row, Columns, Statuses

LEMMA RegistrationStepRefund ==
  ASSUME Shape, NEW r \in Regs, RegistrationStep(r), NEW q \in Regs, reg[q].status = "REFUNDED"
  PROVE  reg'[q].status \in {"REFUNDED", "NONE"}
<1>0. Refunded(reg[q])
  BY DEF Refunded, Shape
<1>1. ASSUME NEW a, NEW its, Register(r, a, its)
      PROVE  reg'[q].status = "REFUNDED"
  BY <1>1, OneWritten DEF Register, Exists
<1>2. ASSUME NEW a, NEW its, NEW c, RegisterWithCode(r, a, its, c)
      PROVE  reg'[q].status = "REFUNDED"
  BY <1>2, OneWritten DEF RegisterWithCode, Exists
<1>3. ASSUME NEW a, NEW its, NEW s, CreateAdminRegistration(r, a, its, s)
      PROVE  reg'[q].status = "REFUNDED"
  BY <1>3, OneWritten DEF CreateAdminRegistration, Exists
<1>4. ASSUME NEW a, NEW its, EditRegistrationPublic(r, a, its)
      PROVE  reg'[q].status = "REFUNDED"
  BY <1>4, OneWritten DEF EditRegistrationPublic, WriteReprice
<1>5. ASSUME NEW a, NEW its, NEW s, NEW m, AdminEditPrice(r, a, its, s, m)
      PROVE  reg'[q].status = "REFUNDED"
  <2> DEFINE n == Repriced(r, a, its, 0)
             change == IF s = reg[r].status THEN NotGiven ELSE s
             paid == IF m = NotGiven /\ s = "PAID" THEN Net(n) ELSE m
             edited == WithPayment(n, change, paid)
             new == IF s = NotGiven THEN Derived(edited) ELSE edited
  <2>1. reg'[q] = IF q = r THEN new ELSE reg[q]
    BY <1>5, OneWritten DEF AdminEditPrice, WriteReprice
  <2>2. ASSUME q = r PROVE new.status = "REFUNDED"
    <3>1. MayMove(AdminOverrideTransitions, reg[r].status, change)
      BY <1>5 DEF AdminEditPrice
    <3>2. change \in {NotGiven, "REFUNDED"}
      <4> HIDE DEF change
      <4> QED BY <2>2, <3>1, NoWayOut
    <3>3. Refunded(n)
      <4> DEFINE g == [reg[r] EXCEPT !.ans = a, !.items = its]
                 t == [g EXCEPT !.total = Max({Subtotal(g), 0})]
      <4>1. Refunded(t)
        BY <1>0, <2>2 DEF Refunded, Row, Columns
      <4>2. n = Recomputed(t, Usages(links, r), spons, TRUE)
        BY DEF Repriced
      <4> HIDE DEF t, n
      <4>3. QED BY <4>1, <4>2, RecomputedRefund
    <3>4. Refunded(edited)
      <4> HIDE DEF n, change, paid
      <4> QED BY <3>2, <3>3, PaymentRefund
    <3> HIDE DEF edited
    <3>5. QED BY <3>4, DerivedRefund DEF Refunded
  <2> HIDE DEF new
  <2>3. QED BY <2>1, <2>2
<1>6. ASSUME NEW s \in Statuses \cup {NotGiven}, NEW m, UpdateRegistration(r, s, m) \/ AdminEditPayment(r, s, m)
      PROVE  reg'[q].status = "REFUNDED"
  <2>1. PICK change, paid :
          /\ \/ MayMove(AllowedTransitions, reg[r].status, change)
             \/ MayMove(AdminOverrideTransitions, reg[r].status, change)
          /\ WritePayment(r, WithPayment(reg[r], change, paid))
    <3>1. CASE UpdateRegistration(r, s, m)
      BY <3>1 DEF UpdateRegistration
    <3>2. CASE AdminEditPayment(r, s, m)
      BY <3>2 DEF AdminEditPayment
    <3>3. QED BY <1>6, <3>1, <3>2
  <2>2. reg'[q] = IF q = r THEN WithPayment(reg[r], change, paid) ELSE reg[q]
    BY <2>1, OneWritten DEF WritePayment
  <2>3. ASSUME q = r PROVE Refunded(WithPayment(reg[r], change, paid))
    <3>1. change \in {NotGiven, "REFUNDED"}
      BY <2>1, <2>3, NoWayOut
    <3>2. QED BY <1>0, <2>3, <3>1, PaymentRefund
  <2>4. QED BY <2>2, <2>3 DEF Refunded
<1>7. ASSUME NEW s, NEW m, ConfirmPayment(r, s, m)
      PROVE  reg'[q].status = "REFUNDED"
  <2> DEFINE g == Recomputed(reg[r], Usages(links, r), spons, TRUE)
             paid == IF m = NotGiven THEN Net(g) ELSE m
             new == WithPayment(g, s, paid)
  <2>1. reg'[q] = IF q = r THEN new ELSE reg[q]
    <3>1. SettleOne(r, reg[r], Covered(Usages(links, r), spons), new, Covered(Usages(links, r), spons))
      BY <1>7 DEF ConfirmPayment
    <3> HIDE DEF new
    <3>2. QED BY <3>1, OneWritten
  <2>2. MayMove(AllowedTransitions, g.status, s)
    BY <1>7 DEF ConfirmPayment
  <2>3. ASSUME q = r PROVE Refunded(new)
    <3>1. Refunded(g)
      BY <1>0, <2>3, RecomputedRefund
    <3> HIDE DEF g, paid
    <3>2. s \in {NotGiven, "REFUNDED"}
      BY <2>2, <3>1, NoWayOut DEF Refunded
    <3>3. QED BY <3>1, <3>2, PaymentRefund
  <2> HIDE DEF new
  <2>4. QED BY <2>1, <2>3 DEF Refunded
<1>8. ASSUME UploadPaymentProof(r)
      PROVE  reg'[q].status = "REFUNDED"
  <2>1. r # q
    <3>1. ASSUME r = q PROVE FALSE
      <4>1. "VERIFYING" \in {NotGiven, "REFUNDED"}
        BY <1>8, <3>1, NoWayOut DEF UploadPaymentProof
      <4>2. QED BY <4>1, NotGivenIsNull DEF Statuses
    <3>2. QED BY <3>1
  <2>2. QED BY <1>8, <2>1 DEF UploadPaymentProof, Shape
<1>9. ASSUME DeleteRegistration(r)
      PROVE  reg'[q].status \in {"REFUNDED", "NONE"}
  BY <1>9, OneWritten, NoRow DEF DeleteRegistration
<1>10. ASSUME NEW i, DropAccess(r, i)
       PROVE  reg'[q].status = "REFUNDED"
  BY <1>10, OneWritten DEF DropAccess
<1>11. QED
  BY <1>1, <1>2, <1>3, <1>4, <1>5, <1>6, <1>7, <1>8, <1>9, <1>10 DEF RegistrationStep

LEMMA SponsorshipStepRefund ==
  ASSUME Shape, NEW c \in Spons, SponsorshipStep(c), NEW q \in Regs, reg[q].status = "REFUNDED"
  PROVE  reg'[q].status = "REFUNDED"
<1>0. Refunded(reg[q])
  BY DEF Refunded, Shape
<1>1. Refunded(Unlinked(c, q))
  <2> DEFINE g == [reg[q] EXCEPT !.code = IF @ = c THEN NotGiven ELSE @]
  <2>1. Refunded(g)
    BY <1>0 DEF Refunded, Row, Columns
  <2>2. Unlinked(c, q) = Recomputed(g, Usages(links, q) \ {c}, spons, FALSE)
    BY DEF Unlinked
  <2> HIDE DEF g
  <2>3. QED BY <2>1, <2>2, RecomputedRefund
<1>2. SettleUnlinked(c, q).reg.status = "REFUNDED"
  BY <1>1, DerivedRefund DEF SettleUnlinked, Settle, Refunded
<1>3. ASSUME NEW r \in Regs, NEW g, Link(c, r, g), g.status = reg[r].status
      PROVE  reg'[q].status = "REFUNDED"
  <2>1. r # q
    BY <1>3 DEF Link
  <2>2. QED BY <1>3, <2>1, OneWritten DEF Link
<1>4. ASSUME NEW r \in Regs, LinkSponsorship(c, r) \/ RedeemSponsorshipCode(c, r)
      PROVE  reg'[q].status = "REFUNDED"
  <2> DEFINE g == [reg[r] EXCEPT !.code = IF @ = NotGiven THEN c ELSE @]
  <2>1. g.status = reg[r].status
    BY DEF Shape, Row, Columns
  <2>2. Link(c, r, reg[r]) \/ Link(c, r, g)
    BY <1>4 DEF LinkSponsorship, RedeemSponsorshipCode
  <2> HIDE DEF g
  <2>3. QED BY <1>3, <2>1, <2>2
<1>5. ASSUME NEW S, Commit([x \in S |-> SettleUnlinked(c, x)])
      PROVE  reg'[q].status = "REFUNDED"
  <2>1. reg'[q] = IF q \in S THEN SettleUnlinked(c, q).reg ELSE reg[q]
    BY <1>5 DEF Commit
  <2>2. QED BY <1>2, <2>1
<1>6. ASSUME NEW k \in Coverages, ChangeCoverage(c, k)
      PROVE  reg'[q].status = "REFUNDED"
  <2> DEFINE cover == [spons EXCEPT ![c].base = k.base, ![c].items = k.items]
             Fresh(r) == Recomputed(reg[r], Usages(links, r), cover, TRUE)
             New(r) == Derived(Fresh(r))
             S == LinkedTo(c)
             settled == [r \in S |-> Settle(reg[r], Covered(Usages(links, r), spons),
                                            New(r), Covered(Usages(links, r), cover))]
  <2>1. reg'[q] = IF q \in S THEN New(q) ELSE reg[q]
    <3>1. Commit(settled)
      BY <1>6 DEF ChangeCoverage
    <3>2. DOMAIN settled = S /\ \A r \in S : settled[r].reg = New(r)
      <4> HIDE DEF New, cover, S
      <4> QED BY DEF Settle
    <3> HIDE DEF settled, New, S
    <3>3. QED BY <3>1, <3>2 DEF Commit
  <2>2. Refunded(Fresh(q))
    <3> HIDE DEF cover
    <3> QED BY <1>0, RecomputedRefund
  <2> HIDE DEF Fresh
  <2>3. QED BY <2>1, <2>2, DerivedRefund DEF Refunded
<1>7. ASSUME NEW r \in Regs, UnlinkSponsorship(c, r)
      PROVE  reg'[q].status = "REFUNDED"
  <2>1. Commit([x \in {r} |-> SettleUnlinked(c, x)])
    BY <1>7 DEF UnlinkSponsorship
  <2>2. QED BY <1>5, <2>1
<1>8. ASSUME CancelSponsorship(c) \/ DeleteSponsorship(c)
      PROVE  reg'[q].status = "REFUNDED"
  <2>1. Commit([x \in LinkedTo(c) |-> SettleUnlinked(c, x)])
    BY <1>8 DEF CancelSponsorship, DeleteSponsorship, ReleaseSponsorship
  <2>2. QED BY <1>5, <2>1
<1>9. ASSUME NEW k \in Coverages, CreateSponsorship(c, k)
      PROVE  reg'[q].status = "REFUNDED"
  BY <1>9 DEF CreateSponsorship
<1>10. QED
  BY <1>4, <1>6, <1>7, <1>8, <1>9 DEF SponsorshipStep

(* Nothing revives a refunded registration: neither table of transitions,  *)
(* nor a recomputation of its amounts, nor a sponsorship linked, unlinked, *)
(* changed or cancelled, nor an item dropped.  It is only deleted.         *)
THEOREM RefundIsFinalHolds == Spec => RefundIsFinal
<1>1. Inv /\ [Next]_vars =>
        [\A r \in Regs : reg[r].status = "REFUNDED" => reg'[r].status \in {"REFUNDED", "NONE"}]_vars
  <2>1. SUFFICES ASSUME Inv, Next, NEW q \in Regs, reg[q].status = "REFUNDED"
                 PROVE  reg'[q].status \in {"REFUNDED", "NONE"}
    OBVIOUS
  <2>2. Shape
    BY <2>1 DEF Inv
  <2>3. CASE \E r \in Regs : RegistrationStep(r)
    BY <2>1, <2>2, <2>3, RegistrationStepRefund
  <2>4. CASE \E c \in Spons : SponsorshipStep(c)
    BY <2>1, <2>2, <2>4, SponsorshipStepRefund
  <2>5. CASE \E i \in Items : EndDrop(i)
    BY <2>1, <2>5 DEF EndDrop
  <2>6. QED BY <2>1, <2>3, <2>4, <2>5 DEF Next
<1>2. QED
  BY <1>1, SettlementInvariant, PTL DEF Spec, RefundIsFinal

-----------------------------------------------------------------------------
(* Sums over finite sets.  MapThenSumSet is a recursive function on the    *)
(* subsets of a set, chosen by its equation: that one exists, and what it  *)
(* is, go by induction on the cardinality.  The property of an induction   *)
(* is a set here, the numbers or the subsets that have it.                 *)

LEMMA NatSetInduction ==
  ASSUME NEW P, 0 \in P, \A n \in Nat : n \in P => n + 1 \in P
  PROVE  Nat \subseteq P
<1> DEFINE R == OpToRel(<, Nat)
           T == Nat \ P
<1>1. SUFFICES ASSUME T # {} PROVE FALSE
  OBVIOUS
<1>2. PICK m \in T : \A k \in T : ~(<<k, m>> \in R)
  <2>1. IsWellFoundedOn(R, Nat)
    BY NatLessThanWellFounded
  <2>2. T \subseteq Nat
    OBVIOUS
  <2> HIDE DEF R, T
  <2>3. QED BY <1>1, <2>1, <2>2, WFMin
<1>3. m # 0 /\ m \in Nat
  OBVIOUS
<1>4. m - 1 \in Nat /\ m - 1 \notin T
  <2>1. m - 1 \in Nat /\ m - 1 < m
    BY <1>3
  <2>2. <<m - 1, m>> \in R
    BY <1>3, <2>1 DEF OpToRel
  <2>3. QED BY <1>2, <2>1, <2>2
<1>5. m - 1 + 1 = m
  BY <1>3
<1>6. QED BY <1>3, <1>4, <1>5

(* The element a fold takes first, and what it leaves *)
AnElement(s) == CHOOSE x \in s : TRUE
Rest(s) == s \ {AnElement(s)}

LEMMA RestIsSmaller ==
  ASSUME NEW s, IsFiniteSet(s), s # {}
  PROVE  /\ AnElement(s) \in s /\ Rest(s) \subseteq s
         /\ IsFiniteSet(Rest(s)) /\ Cardinality(s) = Cardinality(Rest(s)) + 1
         /\ Cardinality(Rest(s)) \in Nat
<1>1. AnElement(s) \in s
  BY DEF AnElement
<1>2. IsFiniteSet(Rest(s)) /\ Cardinality(Rest(s)) = Cardinality(s) - 1
  BY <1>1, FS_RemoveElement, Zenon DEF Rest
<1>3. Cardinality(Rest(s)) \in Nat /\ Cardinality(s) \in Nat
  BY <1>2, FS_CardinalityType
<1>4. QED BY <1>1, <1>2, <1>3 DEF Rest

LEMMA SetInduction ==
  ASSUME NEW S, IsFiniteSet(S), NEW P, {} \in P,
         \A s \in SUBSET S : s # {} /\ Rest(s) \in P => s \in P
  PROVE  S \in P
<1> DEFINE N == {n \in Nat : \A s \in SUBSET S : Cardinality(s) = n => s \in P}
<1>1. 0 \in N
  <2>1. ASSUME NEW s \in SUBSET S, Cardinality(s) = 0 PROVE s \in P
    BY <2>1, FS_Subset, FS_EmptySet
  <2>2. QED BY <2>1
<1>2. ASSUME NEW n \in Nat, n \in N PROVE n + 1 \in N
  <2>1. ASSUME NEW s \in SUBSET S, Cardinality(s) = n + 1 PROVE s \in P
    <3>1. IsFiniteSet(s)
      BY FS_Subset
    <3>2. s # {}
      BY <2>1, FS_EmptySet
    <3>3. Rest(s) \in SUBSET S /\ Cardinality(Rest(s)) = n
      BY <2>1, <3>1, <3>2, RestIsSmaller
    <3>4. Rest(s) \in P
      BY <1>2, <3>3
    <3>5. QED BY <3>2, <3>4
  <2>2. QED BY <2>1
<1>3. Nat \subseteq N
  <2> HIDE DEF N
  <2> QED BY <1>1, <1>2, NatSetInduction
<1>4. Cardinality(S) \in N
  BY <1>3, FS_CardinalityType
<1>5. QED BY <1>4

(* g is the recursive function MapThenSumSet defines, for the summands f *)
Sums(g, f, D) ==
  g = [s \in D |-> IF s = {} THEN 0 ELSE f[AnElement(s)] + g[Rest(s)]]

LEMMA SumsExist ==
  ASSUME NEW S, IsFiniteSet(S), NEW f
  PROVE  \E g : Sums(g, f, SUBSET S)
<1> DEFINE D(n) == {s \in SUBSET S : Cardinality(s) <= n}
           N == {n \in Nat : \E g : Sums(g, f, D(n))}
<1>0. ASSUME NEW s \in SUBSET S PROVE IsFiniteSet(s) /\ Cardinality(s) \in Nat
  BY FS_Subset, FS_CardinalityType
<1>1. 0 \in N
  <2> DEFINE g == [s \in D(0) |-> 0]
  <2>1. ASSUME NEW s \in D(0) PROVE s = {}
    <3>1. Cardinality(s) = 0 /\ IsFiniteSet(s)
      BY <1>0
    <3>2. QED BY <3>1, FS_EmptySet
  <2>2. Sums(g, f, D(0))
    BY <2>1 DEF Sums
  <2>3. QED BY <2>2
<1>2. ASSUME NEW n \in Nat, n \in N PROVE n + 1 \in N
  <2>1. PICK h : Sums(h, f, D(n))
    BY <1>2
  <2> DEFINE g == [s \in D(n + 1) |-> IF s = {} THEN 0 ELSE f[AnElement(s)] + h[Rest(s)]]
  <2>2. ASSUME NEW s \in D(n + 1), s # {} PROVE Rest(s) \in D(n) /\ Rest(s) \in D(n + 1)
    <3>1. IsFiniteSet(s) /\ Cardinality(s) \in Nat /\ Cardinality(s) <= n + 1 /\ s \in SUBSET S
      BY <1>0
    <3>2. /\ Rest(s) \in SUBSET S /\ Cardinality(s) = Cardinality(Rest(s)) + 1
          /\ Cardinality(Rest(s)) \in Nat
      BY <2>2, <3>1, RestIsSmaller
    <3>3. Cardinality(Rest(s)) <= n /\ Cardinality(Rest(s)) <= n + 1
      BY <3>1, <3>2
    <3>4. QED BY <3>2, <3>3
  <2>3. ASSUME NEW s \in D(n) PROVE g[s] = h[s]
    <3>1. s \in D(n + 1)
      BY <1>0
    <3>2. g[s] = IF s = {} THEN 0 ELSE f[AnElement(s)] + h[Rest(s)]
      BY <3>1
    <3>3. h[s] = IF s = {} THEN 0 ELSE f[AnElement(s)] + h[Rest(s)]
      BY <2>1 DEF Sums
    <3>4. QED BY <3>2, <3>3
  <2>4. Sums(g, f, D(n + 1))
    <3>1. g = [s \in D(n + 1) |-> g[s]]
      OBVIOUS
    <3>2. ASSUME NEW s \in D(n + 1)
          PROVE  g[s] = IF s = {} THEN 0 ELSE f[AnElement(s)] + g[Rest(s)]
      <4>1. CASE s = {}
        BY <4>1
      <4>2. CASE s # {}
        <5>1. g[Rest(s)] = h[Rest(s)]
          BY <2>2, <2>3, <4>2
        <5>2. g[s] = f[AnElement(s)] + h[Rest(s)]
          BY <4>2
        <5>3. QED BY <4>2, <5>1, <5>2
      <4>3. QED BY <4>1, <4>2
    <3> HIDE DEF g, D
    <3>3. QED BY <3>1, <3>2 DEF Sums
  <2> HIDE DEF g, D
  <2>5. QED BY <2>4
<1>3. Nat \subseteq N
  <2> HIDE DEF N
  <2> QED BY <1>1, <1>2, NatSetInduction
<1>4. Cardinality(S) \in N
  BY <1>3, FS_CardinalityType
<1>5. D(Cardinality(S)) = SUBSET S
  BY FS_Subset
<1> HIDE DEF D
<1>6. QED BY <1>4, <1>5

(* Two sums of the same summands are equal. *)
LEMMA SumsAgree ==
  ASSUME NEW S, IsFiniteSet(S), NEW f, NEW g, Sums(g, f, SUBSET S), NEW e, NEW h, Sums(h, e, SUBSET S),
         \A x \in S : e[x] = f[x]
  PROVE  g[S] = h[S]
<1> DEFINE P == {s \in SUBSET S : g[s] = h[s]}
<1>0. ASSUME NEW s \in SUBSET S
      PROVE  /\ g[s] = IF s = {} THEN 0 ELSE f[AnElement(s)] + g[Rest(s)]
             /\ h[s] = IF s = {} THEN 0 ELSE e[AnElement(s)] + h[Rest(s)]
  BY DEF Sums
<1>1. {} \in P
  BY <1>0
<1>2. ASSUME NEW s \in SUBSET S, s # {}, Rest(s) \in P PROVE s \in P
  <2>1. AnElement(s) \in S
    BY <1>2 DEF AnElement
  <2>2. QED BY <1>0, <1>2, <2>1
<1>3. S \in P
  <2> HIDE DEF P
  <2> QED BY <1>1, <1>2, SetInduction
<1>4. QED BY <1>3

LEMMA SumIsNat ==
  ASSUME NEW S, IsFiniteSet(S), NEW f, NEW g, Sums(g, f, SUBSET S), \A x \in S : f[x] \in Nat
  PROVE  g[S] \in Nat
<1> DEFINE P == {s \in SUBSET S : g[s] \in Nat}
<1>0. ASSUME NEW s \in SUBSET S
      PROVE  g[s] = IF s = {} THEN 0 ELSE f[AnElement(s)] + g[Rest(s)]
  BY DEF Sums
<1>1. {} \in P
  BY <1>0
<1>2. ASSUME NEW s \in SUBSET S, s # {}, Rest(s) \in P PROVE s \in P
  <2>1. AnElement(s) \in S
    BY <1>2 DEF AnElement
  <2>2. f[AnElement(s)] \in Nat /\ g[Rest(s)] \in Nat
    BY <1>2, <2>1
  <2>3. QED BY <1>0, <1>2, <2>2
<1>3. S \in P
  <2> HIDE DEF P
  <2> QED BY <1>1, <1>2, SetInduction
<1>4. QED BY <1>3

-----------------------------------------------------------------------------
(* Prices and applied amounts are whole numbers *)

LEMMA MinOfTwo ==
  ASSUME NEW a \in Int, NEW b \in Int
  PROVE  Min({a, b}) = IF a <= b THEN a ELSE b
<1>1. \E x \in {a, b} : \A y \in {a, b} : x <= y
  OBVIOUS
<1>2. Min({a, b}) \in {a, b} /\ \A y \in {a, b} : Min({a, b}) <= y
  BY <1>1 DEF Min
<1>3. QED BY <1>2

LEMMA MaxOfTwo ==
  ASSUME NEW a \in Int, NEW b \in Int
  PROVE  Max({a, b}) = IF a >= b THEN a ELSE b
<1>1. \E x \in {a, b} : \A y \in {a, b} : x >= y
  OBVIOUS
<1>2. Max({a, b}) \in {a, b} /\ \A y \in {a, b} : Max({a, b}) >= y
  BY <1>1 DEF Max
<1>3. QED BY <1>2

LEMMA MinOfThree ==
  ASSUME NEW a \in Nat, NEW b \in Nat, NEW c \in Nat
  PROVE  Min({a, b, c}) \in Nat
<1>1. \E x \in {a, b, c} : \A y \in {a, b, c} : x <= y
  OBVIOUS
<1>2. Min({a, b, c}) \in {a, b, c}
  BY <1>1 DEF Min
<1>3. QED BY <1>2

LEMMA FloorType == \A n \in Int : Floor(n) \in Nat
  BY DEF Floor

LEMMA PriceOfType ==
  ASSUME NEW its \in SUBSET Items
  PROVE  PriceOf(its) \in Nat
<1>1. IsFiniteSet(its)
  BY ItemsFinite, FS_Subset
<1>2. PriceOf(its) = (CHOOSE g : Sums(g, Price, SUBSET its))[its]
  BY DEF PriceOf, MapThenSumSet, MapThenFoldSet, Sums, AnElement, Rest
<1>3. PICK g : Sums(g, Price, SUBSET its) /\ PriceOf(its) = g[its]
  BY <1>1, <1>2, SumsExist
<1>4. \A i \in its : Price[i] \in Nat
  BY PriceType
<1>5. QED BY <1>1, <1>3, <1>4, SumIsNat

(* What the usages apply *)
Applied(g, used, cover) == MapThenSumSet(LAMBDA c : Applicable(cover[c], g), used)

LEMMA AppliedSums ==
  ASSUME NEW g, NEW used, IsFiniteSet(used), NEW cover
  PROVE  \E h : /\ Sums(h, [c \in used |-> Applicable(cover[c], g)], SUBSET used)
                /\ Applied(g, used, cover) = h[used]
<1> DEFINE f == [c \in used |-> Applicable(cover[c], g)]
           Is(h) == h = [s \in SUBSET used |->
                           IF s = {} THEN 0 ELSE Applicable(cover[AnElement(s)], g) + h[Rest(s)]]
<1>1. ASSUME NEW h PROVE Is(h) <=> Sums(h, f, SUBSET used)
  <2>1. ASSUME NEW s \in SUBSET used, s # {}
        PROVE  f[AnElement(s)] = Applicable(cover[AnElement(s)], g)
    BY <2>1 DEF AnElement
  <2>2. [s \in SUBSET used |-> IF s = {} THEN 0 ELSE f[AnElement(s)] + h[Rest(s)]]
        = [s \in SUBSET used |->
             IF s = {} THEN 0 ELSE Applicable(cover[AnElement(s)], g) + h[Rest(s)]]
    <3> HIDE DEF f
    <3> QED BY <2>1
  <2>3. QED BY <2>2 DEF Sums
<1>2. Applied(g, used, cover) = (CHOOSE h : Is(h))[used]
  BY DEF Applied, MapThenSumSet, MapThenFoldSet, AnElement, Rest
<1>3. PICK k : Sums(k, f, SUBSET used)
  <2> HIDE DEF f
  <2> QED BY SumsExist
<1>4. Is(CHOOSE h : Is(h))
  <2>1. \E h : Is(h)
    BY <1>1, <1>3
  <2> HIDE DEF Is
  <2>2. QED BY <2>1
<1> HIDE DEF Is, f
<1>5. QED BY <1>1, <1>2, <1>4 DEF f

-----------------------------------------------------------------------------
(* The amounts of a row, and what its usages make of them *)

Amounts(g) ==
  /\ g.paid \in Nat /\ g.total \in Nat /\ g.spons \in Nat
  /\ g.ans \in [base : Nat, options : Int] /\ g.items \subseteq Items

(* The sponsorship amount the usages of a registration come to *)
Due(g, used, cover) == SponsorshipAmount(g, used, cover, FALSE)

(* Two rows that price the same, two coverages that cover the same *)
SamePrice(g, n) == n.ans = g.ans /\ n.items = g.items
SameCover(used, cover, changed) ==
  \A c \in used : changed[c].base = cover[c].base /\ changed[c].items = cover[c].items

LEMMA SubtotalType ==
  ASSUME NEW g, Amounts(g)
  PROVE  Subtotal(g) \in Nat /\ SponsorshipLimit(g) \in Nat
<1>1. PriceOf(g.items) \in Nat /\ g.ans.base \in Nat /\ g.ans.options \in Int
  BY PriceOfType DEF Amounts
<1>2. g.ans.base + PriceOf(g.items) + g.ans.options \in Int /\ g.ans.base + PriceOf(g.items) \in Nat
  BY <1>1
<1>3. Subtotal(g) \in Nat
  BY <1>2, FloorType DEF Subtotal
<1>4. Min({Subtotal(g), g.ans.base + PriceOf(g.items)}) \in Int
  BY <1>2, <1>3, MinOfTwo
<1>5. QED BY <1>3, <1>4, FloorType DEF SponsorshipLimit

LEMMA ApplicableType ==
  ASSUME NEW g, Amounts(g), NEW k \in Sponsorships
  PROVE  Applicable(k, g) \in Nat
<1>1. PriceOf(k.items) \in Nat /\ PriceOf(k.items \cap g.items) \in Nat
  BY PriceOfType DEF Sponsorships
<1>2. g.ans.base \in Nat /\ BasePrice \in Nat
  BY PriceType DEF Amounts
<1>3. /\ (IF k.base THEN g.ans.base ELSE 0) + PriceOf(k.items \cap g.items) \in Nat
      /\ CoverageTotal(k) \in Nat
  BY <1>1, <1>2 DEF CoverageTotal
<1>4. QED BY <1>3, SubtotalType, MinOfThree DEF Applicable

LEMMA DueType ==
  ASSUME NEW g, Amounts(g), NEW used \in SUBSET Spons, NEW cover \in [Spons -> Sponsorships]
  PROVE  /\ Applied(g, used, cover) \in Nat /\ Due(g, used, cover) \in Nat
         /\ used = {} => Due(g, used, cover) = 0
<1> DEFINE f == [c \in used |-> Applicable(cover[c], g)]
<1>1. IsFiniteSet(used)
  BY SponsFinite, FS_Subset
<1>2. PICK h : Sums(h, f, SUBSET used) /\ Applied(g, used, cover) = h[used]
  BY <1>1, AppliedSums
<1>3. \A c \in used : f[c] \in Nat
  BY ApplicableType
<1> HIDE DEF f
<1>4. Applied(g, used, cover) \in Nat
  BY <1>1, <1>2, <1>3, SumIsNat
<1>5. used = {} => Applied(g, used, cover) = 0
  BY <1>2 DEF Sums
<1>6. Due(g, used, cover) = Min({Applied(g, used, cover), SponsorshipLimit(g)})
  BY DEF Due, SponsorshipAmount, Applied
<1>7. SponsorshipLimit(g) \in Nat
  BY SubtotalType
<1>8. Due(g, used, cover) = IF Applied(g, used, cover) <= SponsorshipLimit(g)
                            THEN Applied(g, used, cover) ELSE SponsorshipLimit(g)
  BY <1>4, <1>6, <1>7, MinOfTwo
<1>9. QED BY <1>4, <1>5, <1>7, <1>8

(* What a registration's usages come to depends on what it holds and what  *)
(* they cover.                                                             *)
LEMMA DueFrame ==
  ASSUME NEW g, NEW n, SamePrice(g, n), NEW used \in SUBSET Spons, NEW cover, NEW changed,
         SameCover(used, cover, changed)
  PROVE  Due(n, used, changed) = Due(g, used, cover)
<1> DEFINE f == [c \in used |-> Applicable(cover[c], g)]
           e == [c \in used |-> Applicable(changed[c], n)]
<1>1. IsFiniteSet(used)
  BY SponsFinite, FS_Subset
<1>2. Subtotal(n) = Subtotal(g) /\ SponsorshipLimit(n) = SponsorshipLimit(g)
  BY DEF SamePrice, Subtotal, SponsorshipLimit
<1>3. \A c \in used : e[c] = f[c]
  BY <1>2 DEF SamePrice, SameCover, Applicable, CoverageTotal
<1>4. PICK h : Sums(h, f, SUBSET used) /\ Applied(g, used, cover) = h[used]
  BY <1>1, AppliedSums
<1>5. PICK k : Sums(k, e, SUBSET used) /\ Applied(n, used, changed) = k[used]
  BY <1>1, AppliedSums
<1> HIDE DEF e, f
<1>6. Applied(n, used, changed) = Applied(g, used, cover)
  BY <1>1, <1>3, <1>4, <1>5, SumsAgree
<1>7. QED BY <1>2, <1>6 DEF Due, SponsorshipAmount, Applied

(* A recomputation sets the sponsorship to what the usages come to... *)
AtDue(g, used, cover) == [g EXCEPT !.spons = Due(g, used, cover)]

LEMMA RecomputedFresh ==
  ASSUME NEW g, NEW used, NEW cover
  PROVE  Recomputed(g, used, cover, FALSE) = AtDue(g, used, cover)
  BY DEF Recomputed, AtDue, Due

(* ... also when an amount without usages is kept: that amount is 0. *)
LEMMA RecomputedKept ==
  ASSUME NEW g, Amounts(g), NEW used \in SUBSET Spons,
         NEW cover \in [Spons -> Sponsorships], used = {} => g.spons = 0
  PROVE  Recomputed(g, used, cover, TRUE) = AtDue(g, used, cover)
<1>1. SponsorshipAmount(g, used, cover, TRUE) = Due(g, used, cover)
  <2>1. CASE used = {}
    <3>1. SponsorshipAmount(g, used, cover, TRUE) = Min({0, SponsorshipLimit(g)})
      BY <2>1 DEF SponsorshipAmount
    <3>2. Min({0, SponsorshipLimit(g)}) = 0
      BY SubtotalType, MinOfTwo
    <3>3. QED BY <2>1, <3>1, <3>2, DueType
  <2>2. CASE used # {}
    BY <2>2 DEF Due, SponsorshipAmount
  <2>3. QED BY <2>1, <2>2
<1>2. QED BY <1>1 DEF Recomputed, AtDue

LEMMA AtDueFrame ==
  ASSUME NEW g, Row(g), NEW used, NEW cover, NEW n, n = AtDue(g, used, cover)
  PROVE  /\ Row(n) /\ n.status = g.status /\ n.paid = g.paid /\ n.total = g.total
         /\ n.ans = g.ans /\ n.items = g.items
<1> DEFINE d == Due(g, used, cover)
<1>1. n = [g EXCEPT !.spons = d]
  BY DEF AtDue
<1> HIDE DEF d
<1>2. QED BY <1>1 DEF Row, Columns

LEMMA AtDueAmounts ==
  ASSUME NEW g, Row(g), Amounts(g), NEW used \in SUBSET Spons,
         NEW cover \in [Spons -> Sponsorships], NEW n, n = AtDue(g, used, cover)
  PROVE  Amounts(n) /\ n.spons = Due(n, used, cover)
<1> DEFINE d == Due(g, used, cover)
<1>1. n = [g EXCEPT !.spons = d]
  BY DEF AtDue
<1>2. d \in Nat
  BY DueType
<1> HIDE DEF d
<1>3. Amounts(n) /\ SamePrice(g, n) /\ n.spons = d
  BY <1>1, <1>2 DEF Row, Columns, Amounts, SamePrice
<1>4. Due(n, used, cover) = d
  BY <1>3, DueFrame DEF SameCover, d
<1>5. QED BY <1>3, <1>4

-----------------------------------------------------------------------------
(* A row whose sponsorship is what its usages come to *)
Right(g, used, cover) ==
  Row(g) /\ Amounts(g) /\ (g.status # "NONE" => g.spons = Due(g, used, cover))

(* The inductive invariant of the amounts, next to Inv *)
AmountInv == \A r \in Regs : Right(reg[r], Usages(links, r), spons)

(* What a step may do to one row *)
PriceKept(g, n) ==
  g.status = "PAID" /\ n.status = "PAID" /\ Net(n) # Net(g) => n.paid = Net(n)
NotOverpaying(g, n) ==
  ~Overpaid(g) /\ g.status # "REFUNDED" => ~Overpaid(n)

AmountStep ==
  /\ AmountInv'
  /\ \A q \in Regs : PriceKept(reg[q], reg'[q]) /\ NotOverpaying(reg[q], reg'[q])

SameUsages(q) ==
  /\ Usages(links', q) = Usages(links, q)
  /\ SameCover(Usages(links, q), spons, spons')

LEMMA NetType ==
  ASSUME NEW g, Amounts(g)
  PROVE  Net(g) \in Nat /\ g.paid \in Nat
         /\ Net(g) = IF g.total - g.spons < 0 THEN 0 ELSE g.total - g.spons
  BY DEF Net, Floor, Amounts

LEMMA SameRow ==
  ASSUME NEW g, NEW n, n = g
  PROVE  PriceKept(g, n) /\ NotOverpaying(g, n)
  BY DEF PriceKept, NotOverpaying

(* Coverages that cover the same keep a row right, and so does a change of *)
(* its status and payment alone.                                           *)
LEMMA RightFrame ==
  ASSUME NEW used \in SUBSET Spons, NEW cover, NEW changed, SameCover(used, cover, changed),
         NEW g, Right(g, used, cover), NEW n, Row(n), Amounts(n), SamePrice(g, n), n.spons = g.spons,
         n.status # "NONE" => g.status # "NONE"
  PROVE  Right(n, used, changed)
<1>1. Due(n, used, changed) = Due(g, used, cover)
  BY DueFrame
<1>2. QED BY <1>1 DEF Right

LEMMA UntouchedRight ==
  ASSUME AmountInv, NEW q \in Regs, reg'[q] = reg[q], SameUsages(q)
  PROVE  Right(reg'[q], Usages(links', q), spons')
<1>1. Usages(links, q) \in SUBSET Spons
  BY DEF Usages
<1>2. Right(reg[q], Usages(links, q), spons)
  BY DEF AmountInv
<1>3. Right(reg[q], Usages(links, q), spons')
  BY <1>1, <1>2, RightFrame DEF SameUsages, SamePrice, Right
<1>4. QED BY <1>3 DEF SameUsages

(* An operation that settles one registration *)
LEMMA OneAmount ==
  ASSUME AmountInv, NEW r \in Regs, NEW old, NEW before, NEW new, NEW now,
         SettleOne(r, old, before, new, now),
         Right(new, Usages(links', r), spons'), PriceKept(reg[r], new),
         \A q \in Regs \ {r} : SameUsages(q)
  PROVE  /\ AmountInv' /\ reg'[r] = new
         /\ \A q \in Regs : PriceKept(reg[q], reg'[q])
         /\ \A q \in Regs \ {r} : NotOverpaying(reg[q], reg'[q])
<1>1. \A q \in Regs : reg'[q] = IF q = r THEN new ELSE reg[q]
  BY OneWritten
<1>2. ASSUME NEW q \in Regs
      PROVE  Right(reg'[q], Usages(links', q), spons')
  BY <1>1, UntouchedRight
<1>3. AmountInv'
  BY <1>2 DEF AmountInv
<1>4. QED BY <1>1, <1>3, SameRow

LEMMA OneAmountStep ==
  ASSUME AmountInv, NEW r \in Regs, NEW old, NEW before, NEW new, NEW now,
         SettleOne(r, old, before, new, now),
         Right(new, Usages(links', r), spons'), PriceKept(reg[r], new), NotOverpaying(reg[r], new),
         \A q \in Regs \ {r} : SameUsages(q)
  PROVE  AmountStep
  BY OneAmount DEF AmountStep

-----------------------------------------------------------------------------
(* The amounts of the rows the operators build *)

LEMMA DerivedAmounts ==
  ASSUME NEW g, Stored(g), Amounts(g), NEW n, n = Derived(g)
  PROVE  /\ Stored(n) /\ Amounts(n) /\ SamePrice(g, n)
         /\ n.paid = g.paid /\ n.total = g.total /\ n.spons = g.spons /\ Net(n) = Net(g)
         /\ g.status \in Sticky => n.status = g.status
<1>1. Stored(n)
  BY DerivedRow
<1>2. /\ n.ans = g.ans /\ n.items = g.items
      /\ n.paid = g.paid /\ n.total = g.total /\ n.spons = g.spons
      /\ g.status \in Sticky => n.status = g.status
  BY DEF Derived, Stored, Row, Columns
<1>3. QED BY <1>1, <1>2 DEF Amounts, SamePrice, Net

LEMMA WithPaymentAmounts ==
  ASSUME NEW g, Stored(g), Amounts(g), NEW status \in Statuses \cup {NotGiven},
         NEW paid, paid # NotGiven => paid \in Nat, NEW n, n = WithPayment(g, status, paid)
  PROVE  /\ Stored(n) /\ Amounts(n) /\ SamePrice(g, n)
         /\ n.total = g.total /\ n.spons = g.spons /\ Net(n) = Net(g)
         /\ n.paid = IF paid = NotGiven THEN g.paid ELSE paid
         /\ n.status = IF status = NotGiven THEN g.status ELSE status
<1>1. Stored(n)
  BY WithPaymentRow
<1>2. /\ n.ans = g.ans /\ n.items = g.items /\ n.total = g.total /\ n.spons = g.spons
      /\ n.paid = IF paid = NotGiven THEN g.paid ELSE paid
      /\ n.status = IF status = NotGiven THEN g.status ELSE status
  BY DEF WithPayment, Stored, Row, Columns
<1>3. QED BY <1>1, <1>2 DEF Amounts, SamePrice, Net

LEMMA NewAmounts ==
  ASSUME NEW a \in Answers, NEW its \in SUBSET Items, NEW status \in Statuses, NEW code,
         NEW n, n = NewRegistration(a, its, status, code)
  PROVE  /\ Stored(n) /\ Amounts(n) /\ n.status = status /\ n.spons = 0 /\ n.paid <= Net(n)
         /\ status # "PAID" => n.paid = 0
<1> DEFINE g == [NoRegistration EXCEPT !.status = status, !.ans = a, !.items = its, !.code = code]
           t == Subtotal(g)
<1>1. Amounts(g) /\ g.spons = 0 /\ g.ans = a /\ g.items = its
  BY AnswersType DEF NoRegistration, Amounts
<1>2. t \in Nat
  <2> HIDE DEF g
  <2> QED BY <1>1, SubtotalType
<1>3. n = [g EXCEPT !.total = t, !.paid = IF status = "PAID" THEN t ELSE 0,
                    !.dated = status \in Settled]
  BY DEF NewRegistration
<1> HIDE DEF t
<1>4. /\ n.total = t /\ n.paid = IF status = "PAID" THEN t ELSE 0
      /\ n.spons = 0 /\ n.ans = a /\ n.items = its /\ n.status = status
  BY <1>3 DEF NoRegistration
<1>5. Amounts(n)
  BY <1>1, <1>2, <1>4 DEF Amounts
<1>6. Net(n) = t
  BY <1>2, <1>4, <1>5, NetType
<1>7. n.paid <= Net(n)
  BY <1>2, <1>4, <1>6
<1>8. Stored(n)
  BY NewRow
<1>9. QED BY <1>4, <1>5, <1>7, <1>8

(* Without usages, a row without an amount is right. *)
LEMMA UnsponsoredRight ==
  ASSUME Shape, NEW n, Row(n), Amounts(n), n.spons = 0, NEW cover \in [Spons -> Sponsorships]
  PROVE  Right(n, {}, cover)
  BY DueType DEF Right

LEMMA NoRegistrationRight ==
  ASSUME NEW used, NEW cover
  PROVE  Right(NoRegistration, used, cover) /\ Amounts(NoRegistration) /\ ~Overpaid(NoRegistration)
<1>1. Amounts(NoRegistration)
  BY DEF Amounts, NoRegistration
<1>2. NoRegistration.paid = 0 /\ Net(NoRegistration) \in Nat
  BY <1>1, NetType DEF NoRegistration
<1>3. QED BY <1>1, <1>2, NoRow DEF Right, Overpaid

LEMMA RowFacts ==
  ASSUME Inv, AmountInv, NEW r \in Regs, Exists(r)
  PROVE  /\ Stored(reg[r]) /\ Amounts(reg[r]) /\ Right(reg[r], Usages(links, r), spons)
         /\ Usages(links, r) \in SUBSET Spons /\ spons \in [Spons -> Sponsorships]
         /\ Usages(links, r) = {} => reg[r].spons = 0
<1>1. Stored(reg[r]) /\ Right(reg[r], Usages(links, r), spons) /\ spons \in [Spons -> Sponsorships]
  BY StoredRow DEF AmountInv, Inv, Shape
<1>2. Amounts(reg[r]) /\ reg[r].spons = Due(reg[r], Usages(links, r), spons)
  BY <1>1 DEF Right, Stored
<1>3. Usages(links, r) \in SUBSET Spons
  BY DEF Usages
<1>4. Usages(links, r) = {} => reg[r].spons = 0
  BY <1>1, <1>2, <1>3, DueType
<1>5. QED BY <1>1, <1>2, <1>3, <1>4

(* A row recomputed from its usages, its status then derived *)
LEMMA SettledRight ==
  ASSUME NEW g, Stored(g), Amounts(g), NEW used \in SUBSET Spons,
         NEW cover \in [Spons -> Sponsorships], NEW changed, SameCover(used, cover, changed), 
         NEW n, n = AtDue(g, used, cover), NEW new, new = Derived(n)
  PROVE  /\ Stored(n) /\ Amounts(n) /\ Right(n, used, changed)
         /\ Stored(new) /\ Amounts(new) /\ Right(new, used, changed)
         /\ n.status = g.status /\ n.paid = g.paid /\ n.total = g.total
         /\ new.paid = g.paid /\ new.total = g.total /\ new.spons = n.spons /\ Net(new) = Net(n)
         /\ g.status \in Sticky => new.status = g.status
<1>1. /\ Row(n) /\ n.status = g.status /\ n.paid = g.paid /\ n.total = g.total
      /\ Amounts(n) /\ n.spons = Due(n, used, cover)
  BY AtDueFrame, AtDueAmounts DEF Stored
<1>2. Stored(n) /\ Right(n, used, cover)
  BY <1>1 DEF Stored, Right
<1>3. /\ Stored(new) /\ Amounts(new) /\ SamePrice(n, new)
      /\ new.paid = n.paid /\ new.total = n.total /\ new.spons = n.spons /\ Net(new) = Net(n)
      /\ n.status \in Sticky => new.status = n.status
  BY <1>1, <1>2, DerivedAmounts
<1>4. Right(n, used, changed)
  BY <1>1, <1>2, RightFrame DEF SamePrice
<1>5. Right(new, used, changed)
  BY <1>2, <1>3, RightFrame DEF Stored
<1>6. QED BY <1>1, <1>2, <1>3, <1>4, <1>5

LEMMA RepricedRight ==
  ASSUME Inv, AmountInv, NEW r \in Regs, Exists(r), NEW a \in Answers, NEW its \in SUBSET Items,
         NEW least \in Nat, NEW n, n = Repriced(r, a, its, least)
  PROVE  /\ Stored(n) /\ Amounts(n) /\ Right(n, Usages(links, r), spons)
         /\ n.status = reg[r].status /\ n.paid = reg[r].paid
<1> DEFINE g == [reg[r] EXCEPT !.ans = a, !.items = its]
           total == Max({Subtotal(g), least})
           t == [g EXCEPT !.total = total]
<1>0. /\ Stored(reg[r]) /\ Amounts(reg[r])
      /\ Usages(links, r) \in SUBSET Spons /\ spons \in [Spons -> Sponsorships]
      /\ Usages(links, r) = {} => reg[r].spons = 0
  BY RowFacts
<1>1. /\ Stored(g) /\ Amounts(g) /\ g.status = reg[r].status
      /\ g.paid = reg[r].paid /\ g.spons = reg[r].spons
  BY <1>0, AnswersType DEF Stored, Row, Columns, Amounts
<1>2. n = Recomputed(t, Usages(links, r), spons, TRUE)
  BY DEF Repriced
<1> HIDE DEF g
<1>3. total \in Nat
  BY <1>1, SubtotalType, MaxOfTwo
<1> HIDE DEF total
<1>4. /\ Stored(t) /\ Amounts(t) /\ t.status = reg[r].status
      /\ t.paid = reg[r].paid /\ t.spons = reg[r].spons
  BY <1>1, <1>3 DEF Stored, Row, Columns, Amounts
<1> HIDE DEF t
<1>5. n = AtDue(t, Usages(links, r), spons)
  BY <1>0, <1>2, <1>4, RecomputedKept
<1>6. Row(n) /\ n.status = t.status /\ n.paid = t.paid
  BY <1>4, <1>5, AtDueFrame DEF Stored
<1>7. Amounts(n) /\ n.spons = Due(n, Usages(links, r), spons)
  BY <1>0, <1>4, <1>5, AtDueAmounts DEF Stored
<1>8. QED BY <1>4, <1>6, <1>7 DEF Stored, Right

-----------------------------------------------------------------------------
(* Operations that create and delete rows *)

LEMMA NotStored ==
  ASSUME NEW r \in Regs, ~Exists(r), NEW n, n.paid \in Nat, Amounts(n), n.paid <= Net(n)
  PROVE  PriceKept(reg[r], n) /\ NotOverpaying(reg[r], n)
<1>1. reg[r].status = "NONE"
  BY DEF Exists
<1>2. ~Overpaid(n)
  BY NetType DEF Overpaid
<1>3. QED BY <1>1, <1>2 DEF PriceKept, NotOverpaying

LEMMA CreatedAmounts ==
  ASSUME Inv, AmountInv, NEW r \in Regs, ~Exists(r), NEW old, NEW new, Stored(new), Amounts(new),
         new.spons = 0, new.paid <= Net(new), SettleOne(r, old, {}, new, {}),
         UNCHANGED <<spons, links>>
  PROVE  AmountStep
<1>1. Usages(links', r) = {}
  BY NothingHeld
<1>2. spons' \in [Spons -> Sponsorships] /\ Shape
  BY DEF Inv, Shape
<1>3. Right(new, Usages(links', r), spons')
  BY <1>1, <1>2, UnsponsoredRight DEF Stored
<1>4. PriceKept(reg[r], new) /\ NotOverpaying(reg[r], new)
  BY NotStored DEF Amounts
<1>5. \A q \in Regs \ {r} : SameUsages(q)
  BY DEF SameUsages, SameCover
<1>6. QED BY <1>3, <1>4, <1>5, OneAmountStep

LEMMA RegisterAmounts ==
  ASSUME Inv, AmountInv, NEW r \in Regs, NEW a \in Answers, NEW its \in SUBSET Items,
         Register(r, a, its)
  PROVE  AmountStep
<1> DEFINE g == NewRegistration(a, its, "PENDING", NotGiven)
           new == IF AutoAccept /\ g.total = 0
                  THEN [g EXCEPT !.status = "WAIVED", !.dated = TRUE] ELSE g
<1>1. Stored(g) /\ Amounts(g) /\ g.spons = 0 /\ g.paid <= Net(g)
  BY NewAmounts DEF Statuses
<1>2. ~Exists(r) /\ SettleOne(r, g, {}, new, {}) /\ UNCHANGED <<spons, links>>
  BY DEF Register
<1> HIDE DEF g
<1>3. /\ Stored(new) /\ new.spons = g.spons /\ new.paid = g.paid /\ new.total = g.total
      /\ new.ans = g.ans /\ new.items = g.items
  BY <1>1 DEF Stored, Row, Columns, Statuses
<1> HIDE DEF new
<1>4. Amounts(new) /\ Net(new) = Net(g)
  BY <1>1, <1>3 DEF Amounts, Net
<1>5. QED BY <1>1, <1>2, <1>3, <1>4, CreatedAmounts

LEMMA CreateAdminAmounts ==
  ASSUME Inv, AmountInv, NEW r \in Regs, NEW a \in Answers, NEW its \in SUBSET Items,
         NEW status \in Statuses, CreateAdminRegistration(r, a, its, status)
  PROVE  AmountStep
<1> DEFINE g == NewRegistration(a, its, status, NotGiven)
           old == [g EXCEPT !.status = "PENDING"]
<1>1. Stored(g) /\ Amounts(g) /\ g.spons = 0 /\ g.paid <= Net(g)
  BY NewAmounts
<1>2. ~Exists(r) /\ SettleOne(r, old, {}, g, {}) /\ UNCHANGED <<spons, links>>
  BY DEF CreateAdminRegistration
<1> HIDE DEF g, old
<1>3. QED BY <1>1, <1>2, CreatedAmounts

(* Sponsorships only change their status *)
StatusOnly == \A d \in Spons : spons'[d].base = spons[d].base /\ spons'[d].items = spons[d].items

LEMMA RegisterWithCodeAmounts ==
  ASSUME Inv, AmountInv, NEW r \in Regs, NEW a \in Answers, NEW its \in SUBSET Items,
         NEW c \in Spons, RegisterWithCode(r, a, its, c)
  PROVE  AmountStep
<1> DEFINE g == NewRegistration(a, its, "PENDING", c)
           n == Recomputed(g, {c}, spons, TRUE)
           new == Derived(n)
<1>1. /\ Stored(g) /\ Amounts(g) /\ g.status = "PENDING" /\ g.spons = 0 /\ g.paid = 0
  BY NewAmounts DEF Statuses
<1>2. /\ ~Exists(r) /\ SettleOne(r, g, {}, new, spons[c].items)
      /\ links' = links \cup {<<c, r>>} /\ spons' = [spons EXCEPT ![c].status = "USED"]
  BY DEF RegisterWithCode
<1> HIDE DEF g
<1>3. spons \in [Spons -> Sponsorships] /\ StatusOnly
  BY <1>2 DEF Inv, Shape, Sponsorships, StatusOnly
<1>4. n = AtDue(g, {c}, spons)
  BY <1>1, <1>3, RecomputedKept
<1> HIDE DEF n
<1>5. /\ Stored(new) /\ Amounts(new) /\ Right(new, {c}, spons') /\ new.paid = g.paid
  <2>1. {c} \in SUBSET Spons /\ SameCover({c}, spons, spons')
    BY <1>3 DEF SameCover, StatusOnly
  <2> HIDE DEF new
  <2>2. new = Derived(n)
    BY DEF new
  <2>3. QED BY <1>1, <1>3, <1>4, <2>1, <2>2, SettledRight
<1> HIDE DEF new
<1>6. Usages(links', r) = {c}
  BY <1>2, NothingHeld DEF Usages
<1>7. PriceKept(reg[r], new) /\ NotOverpaying(reg[r], new)
  <2>1. new.paid = 0 /\ Net(new) \in Nat
    BY <1>1, <1>5, NetType
  <2>2. QED BY <1>2, <1>5, <2>1, NotStored
<1>8. \A q \in Regs \ {r} : SameUsages(q)
  BY <1>2, <1>3 DEF SameUsages, SameCover, StatusOnly, Usages
<1>9. QED BY <1>2, <1>5, <1>6, <1>7, <1>8, OneAmountStep

LEMMA DeleteAmounts ==
  ASSUME Inv, AmountInv, NEW r \in Regs, DeleteRegistration(r)
  PROVE  AmountStep
<1> DEFINE freed == {c \in Usages(links, r) : \A x \in Regs \ {r} : <<c, x>> \notin links}
<1>1. /\ links' = {l \in links : l[2] # r}
      /\ spons' = [c \in Spons |-> IF c \in freed THEN [spons[c] EXCEPT !.status = "PENDING"]
                                   ELSE spons[c]]
      /\ SettleOne(r, reg[r], Covered(Usages(links, r), spons), NoRegistration, {})
  BY DEF DeleteRegistration
<1> HIDE DEF freed
<1>2. StatusOnly
  BY <1>1 DEF Inv, Shape, Sponsorships, StatusOnly
<1>3. \A q \in Regs \ {r} : SameUsages(q)
  BY <1>1, <1>2 DEF SameUsages, SameCover, StatusOnly, Usages
<1>4. PriceKept(reg[r], NoRegistration) /\ NotOverpaying(reg[r], NoRegistration)
  BY NoRow, NoRegistrationRight DEF PriceKept, NotOverpaying
<1>5. QED BY <1>1, <1>3, <1>4, NoRegistrationRight, OneAmountStep

-----------------------------------------------------------------------------
(* Operations that write one stored row and no usage or sponsorship *)

LEMMA WrittenAmounts ==
  ASSUME Inv, AmountInv, NEW r \in Regs, NEW old, NEW before, NEW new, NEW now,
         SettleOne(r, old, before, new, now), UNCHANGED <<spons, links>>,
         Right(new, Usages(links, r), spons), PriceKept(reg[r], new), NotOverpaying(reg[r], new)
  PROVE  AmountStep
<1>1. \A q \in Regs \ {r} : SameUsages(q)
  BY DEF SameUsages, SameCover
<1>2. Right(new, Usages(links', r), spons')
  OBVIOUS
<1>3. QED BY <1>1, <1>2, OneAmountStep

(* A payment that is not more than the net, at an unchanged price *)
LEMMA PaidAmounts ==
  ASSUME Inv, AmountInv, NEW r \in Regs, Exists(r), NEW status \in Statuses \cup {NotGiven},
         NEW paid, paid # NotGiven => paid \in Nat /\ paid <= Net(reg[r]),
         NEW g, Stored(g), Amounts(g), Right(g, Usages(links, r), spons), g.status = reg[r].status,
         g.paid = reg[r].paid, Net(g) = Net(reg[r]), WritePayment(r, WithPayment(g, status, paid))
  PROVE  AmountStep
<1> DEFINE new == WithPayment(g, status, paid)
<1>1. Usages(links, r) \in SUBSET Spons
  BY DEF Usages
<1>2. /\ Stored(new) /\ Amounts(new) /\ SamePrice(g, new)
      /\ new.total = g.total /\ new.spons = g.spons /\ Net(new) = Net(g)
      /\ new.paid = IF paid = NotGiven THEN g.paid ELSE paid
      /\ new.status = IF status = NotGiven THEN g.status ELSE status
  BY <1>1, WithPaymentAmounts
<1>3. /\ SettleOne(r, reg[r], Covered(Usages(links, r), spons), new, Covered(Usages(links, r), spons))
      /\ UNCHANGED <<spons, links>>
  BY DEF WritePayment
<1> HIDE DEF new
<1>4. Right(new, Usages(links, r), spons)
  BY <1>1, <1>2, RightFrame DEF SameCover, Stored
<1>5. PriceKept(reg[r], new)
  BY <1>2 DEF PriceKept
<1>6. NotOverpaying(reg[r], new)
  <2>1. /\ Net(g) \in Nat /\ g.paid \in Nat /\ new.paid \in Nat
        /\ new.paid = g.paid \/ new.paid <= Net(g)
    BY <1>2, NetType DEF Amounts
  <2>2. QED BY <1>2, <2>1 DEF NotOverpaying, Overpaid
<1>7. QED BY <1>3, <1>4, <1>5, <1>6, WrittenAmounts

LEMMA PaymentAmounts ==
  ASSUME Inv, AmountInv, NEW r \in Regs, NEW status \in Statuses \cup {NotGiven},
         NEW amount \in Payments \cup {NotGiven},
         UpdateRegistration(r, status, amount) \/ AdminEditPayment(r, status, amount)
  PROVE  AmountStep
<1>1. Exists(r)
  BY DEF UpdateRegistration, AdminEditPayment
<1>0. Stored(reg[r]) /\ Amounts(reg[r]) /\ Right(reg[r], Usages(links, r), spons)
  BY <1>1, RowFacts
<1>2. Net(reg[r]) \in Nat /\ Payments \subseteq Nat
  BY <1>0, NetType, PaymentsType
<1>3. CASE UpdateRegistration(r, status, amount)
  <2> DEFINE paid == IF amount = NotGiven /\ status = "PAID" THEN Net(reg[r]) ELSE amount
  <2>1. (paid # NotGiven => paid <= Net(reg[r])) /\ WritePayment(r, WithPayment(reg[r], status, paid))
    BY <1>3 DEF UpdateRegistration
  <2>2. paid # NotGiven => paid \in Nat
    BY <1>2
  <2> HIDE DEF paid
  <2>3. QED BY <1>0, <1>1, <2>1, <2>2, PaidAmounts
<1>4. CASE AdminEditPayment(r, status, amount)
  <2> DEFINE change == IF status = reg[r].status THEN NotGiven ELSE status
             paid == IF amount = NotGiven /\ status = "PAID" THEN Net(reg[r])
                     ELSE IF amount = reg[r].paid THEN NotGiven ELSE amount
  <2>1. (paid # NotGiven => paid <= Net(reg[r])) /\ WritePayment(r, WithPayment(reg[r], change, paid))
    BY <1>4 DEF AdminEditPayment
  <2>2. (paid # NotGiven => paid \in Nat) /\ change \in Statuses \cup {NotGiven}
    BY <1>2
  <2> HIDE DEF paid, change
  <2>3. QED BY <1>0, <1>1, <2>1, <2>2, PaidAmounts
<1>5. QED BY <1>3, <1>4

(* The stored amount already is what the usages come to: settling against  *)
(* the recomputed net is settling against the stored one.                  *)
LEMMA AlreadyDue ==
  ASSUME Inv, AmountInv, NEW r \in Regs, Exists(r),
         NEW n, n = AtDue(reg[r], Usages(links, r), spons)
  PROVE  /\ Stored(n) /\ Amounts(n) /\ Right(n, Usages(links, r), spons)
         /\ n.status = reg[r].status /\ n.paid = reg[r].paid /\ Net(n) = Net(reg[r])
<1> PICK g : g = reg[r]
  OBVIOUS
<1> PICK u \in SUBSET Spons : u = Usages(links, r)
  BY DEF Usages
<1>1. /\ Stored(g) /\ Amounts(g) /\ Right(g, u, spons)
      /\ spons \in [Spons -> Sponsorships] /\ (u = {} => g.spons = 0)
  BY RowFacts
<1>2. n = AtDue(g, u, spons)
  OBVIOUS
<1>3. Row(g) /\ g.spons = Due(g, u, spons)
  BY <1>1 DEF Right, Stored
<1>4. /\ Row(n) /\ n.status = g.status /\ n.paid = g.paid /\ n.total = g.total
      /\ n.ans = g.ans /\ n.items = g.items
  BY <1>2, <1>3, AtDueFrame
<1>5. Amounts(n) /\ n.spons = Due(n, u, spons)
  BY <1>1, <1>2, <1>3, AtDueAmounts
<1>6. Due(n, u, spons) = Due(g, u, spons)
  BY <1>4, DueFrame DEF SamePrice, SameCover
<1>7. Net(n) = Net(g)
  BY <1>3, <1>4, <1>5, <1>6 DEF Net
<1>8. QED BY <1>1, <1>4, <1>5, <1>7 DEF Stored, Right

LEMMA ConfirmPaymentAmounts ==
  ASSUME Inv, AmountInv, NEW r \in Regs, NEW status \in Statuses,
         NEW amount \in Payments \cup {NotGiven}, ConfirmPayment(r, status, amount)
  PROVE  AmountStep
<1> DEFINE n == Recomputed(reg[r], Usages(links, r), spons, TRUE)
           paid == IF amount = NotGiven THEN Net(n) ELSE amount
<1>1. /\ Exists(r) /\ paid <= Net(n) /\ UNCHANGED <<spons, links, uncounted>>
      /\ SettleOne(r, reg[r], Covered(Usages(links, r), spons),
                   WithPayment(n, status, paid), Covered(Usages(links, r), spons))
  BY DEF ConfirmPayment
<1>2. PICK g : g = n
  OBVIOUS
<1>3. /\ Stored(g) /\ Amounts(g) /\ Right(g, Usages(links, r), spons)
      /\ g.status = reg[r].status /\ g.paid = reg[r].paid /\ Net(g) = Net(reg[r])
  <2>1. /\ Amounts(reg[r]) /\ Usages(links, r) \in SUBSET Spons
        /\ spons \in [Spons -> Sponsorships] /\ (Usages(links, r) = {} => reg[r].spons = 0)
    BY <1>1, RowFacts
  <2>2. n = AtDue(reg[r], Usages(links, r), spons)
    BY <2>1, RecomputedKept
  <2> HIDE DEF n, paid
  <2>3. QED BY <1>1, <1>2, <2>2, AlreadyDue
<1> HIDE DEF n
<1>4. Net(g) \in Nat
  BY <1>3, NetType
<1>5. paid \in Nat /\ paid <= Net(reg[r])
  BY <1>1, <1>2, <1>3, <1>4, PaymentsType
<1> HIDE DEF paid
<1>6. WritePayment(r, WithPayment(g, status, paid))
  BY <1>1, <1>2 DEF WritePayment
<1>7. QED BY <1>1, <1>3, <1>5, <1>6, PaidAmounts

LEMMA UploadAmounts ==
  ASSUME Inv, AmountInv, NEW r \in Regs, UploadPaymentProof(r)
  PROVE  AmountStep
<1> DEFINE new == [reg[r] EXCEPT !.status = "VERIFYING"]
<1>1. Exists(r) /\ reg' = [reg EXCEPT ![r] = new] /\ UNCHANGED <<spons, links>>
  BY DEF UploadPaymentProof
<1>2. /\ Stored(reg[r]) /\ Amounts(reg[r]) /\ Right(reg[r], Usages(links, r), spons)
      /\ Usages(links, r) \in SUBSET Spons
  BY <1>1, RowFacts
<1>3. /\ Stored(new) /\ new.status = "VERIFYING" /\ new.spons = reg[r].spons
      /\ new.paid = reg[r].paid /\ new.total = reg[r].total
      /\ new.ans = reg[r].ans /\ new.items = reg[r].items
  BY <1>2 DEF Stored, Row, Columns, Statuses
<1>4. \A q \in Regs : reg'[q] = IF q = r THEN new ELSE reg[q]
  BY <1>1 DEF Inv, Shape
<1> HIDE DEF new
<1>5. Amounts(new) /\ SamePrice(reg[r], new) /\ Net(new) = Net(reg[r])
  BY <1>2, <1>3 DEF Amounts, SamePrice, Net
<1>6. Right(new, Usages(links, r), spons)
  BY <1>2, <1>3, <1>5, RightFrame DEF SameCover, Stored
<1>7. AmountInv'
  <2>1. ASSUME NEW q \in Regs PROVE Right(reg'[q], Usages(links', q), spons')
    BY <1>1, <1>4, <1>6 DEF AmountInv
  <2>2. QED BY <2>1 DEF AmountInv
<1>8. PriceKept(reg[r], new) /\ NotOverpaying(reg[r], new)
  BY <1>3, <1>5 DEF PriceKept, NotOverpaying, Overpaid
<1>9. QED BY <1>4, <1>7, <1>8, SameRow DEF AmountStep

-----------------------------------------------------------------------------
(* Edits that reprice, and drops *)

(* An admin's edit is paid at most the new net, and in full to stay PAID. *)
LEMMA AdminEditPriceAmounts ==
  ASSUME Inv, AmountInv, NEW r \in Regs, NEW a \in Answers, NEW its \in SUBSET Items,
         NEW status \in Statuses \cup {NotGiven}, NEW amount \in Payments \cup {NotGiven},
         AdminEditPrice(r, a, its, status, amount)
  PROVE  AmountStep
<1> DEFINE n == Repriced(r, a, its, 0)
           change == IF status = reg[r].status THEN NotGiven ELSE status
           paid == IF amount = NotGiven /\ status = "PAID" THEN Net(n) ELSE amount
           edited == WithPayment(n, change, paid)
           new == IF status = NotGiven THEN Derived(edited) ELSE edited
<1>1. /\ Exists(r) /\ edited.paid <= Net(n)
      /\ reg[r].status = "PAID" /\ Net(n) # Net(reg[r]) =>
           (edited.status = "PAID" => edited.paid >= Net(n))
      /\ WriteReprice(r, new)
  BY DEF AdminEditPrice
<1>2. /\ SettleOne(r, reg[r], Covered(Usages(links, r), spons), new, Covered(Usages(links, r), spons))
      /\ UNCHANGED <<spons, links>>
  <2> HIDE DEF new
  <2> QED BY <1>1 DEF WriteReprice
<1>3. PICK u \in SUBSET Spons : u = Usages(links, r)
  BY DEF Usages
<1>4. /\ Stored(n) /\ Amounts(n) /\ Right(n, u, spons)
      /\ n.status = reg[r].status /\ n.paid = reg[r].paid
  <2> HIDE DEF n
  <2>1. n = Repriced(r, a, its, 0) /\ 0 \in Nat
    BY DEF n
  <2>2. QED BY <1>1, <1>3, <2>1, RepricedRight
<1>5. change \in Statuses \cup {NotGiven} /\ (status = NotGiven => change = NotGiven)
  OBVIOUS
<1> HIDE DEF n
<1>6. paid # NotGiven => paid \in Nat
  BY <1>4, NetType, PaymentsType
<1> HIDE DEF change, paid
<1>0. edited = WithPayment(n, change, paid)
  OBVIOUS
<1> HIDE DEF edited
<1>7. /\ Stored(edited) /\ Amounts(edited) /\ SamePrice(n, edited)
      /\ edited.spons = n.spons /\ Net(edited) = Net(n)
      /\ edited.status = IF change = NotGiven THEN n.status ELSE change
  <2>1. Stored(n) /\ Amounts(n) /\ change \in Statuses \cup {NotGiven}
    BY <1>4, <1>5
  <2>2. Stored(edited) /\ Amounts(edited)
    BY <1>0, <1>6, <2>1, WithPaymentAmounts
  <2>3. SamePrice(n, edited)
    BY <1>0, <1>6, <2>1, WithPaymentAmounts
  <2>4. edited.spons = n.spons /\ Net(edited) = Net(n)
    BY <1>0, <1>6, <2>1, WithPaymentAmounts
  <2>5. edited.status = IF change = NotGiven THEN n.status ELSE change
    BY <1>0, <1>6, <2>1, WithPaymentAmounts
  <2>6. QED BY <2>2, <2>3, <2>4, <2>5
<1>8. Right(edited, u, spons)
  BY <1>4, <1>7, RightFrame DEF SameCover, Stored
<1>9. /\ Stored(new) /\ Amounts(new) /\ SamePrice(edited, new)
      /\ new.paid = edited.paid /\ new.spons = edited.spons /\ Net(new) = Net(n)
      /\ status # NotGiven \/ edited.status \in Sticky => new.status = edited.status
  BY <1>7, DerivedAmounts DEF SamePrice
<1> HIDE DEF new
<1>10. Right(new, u, spons)
  <2>1. SameCover(u, spons, spons) /\ Row(new) /\ edited.status # "NONE"
    BY <1>7, <1>9 DEF SameCover, Stored
  <2>2. QED BY <1>8, <1>9, <2>1, RightFrame
<1>11. Net(n) \in Nat /\ edited.paid \in Nat
  BY <1>4, <1>7, NetType
<1>12. NotOverpaying(reg[r], new)
  BY <1>1, <1>9, <1>11 DEF NotOverpaying, Overpaid
<1>13. PriceKept(reg[r], new)
  <2> SUFFICES ASSUME reg[r].status = "PAID", new.status = "PAID", Net(new) # Net(reg[r])
               PROVE  new.paid = Net(new)
    BY DEF PriceKept
  <2>1. edited.status = "PAID"
    BY <1>4, <1>5, <1>7, <1>9 DEF Sticky
  <2>2. QED BY <1>1, <1>9, <1>11, <2>1
<1>14. QED BY <1>2, <1>3, <1>10, <1>12, <1>13, WrittenAmounts

(* A registrant's own edit keeps the price of a PAID registration; what it *)
(* may leave overpaid is the exception of OnlySelfEditOverpays.            *)
LEMMA EditPublicAmounts ==
  ASSUME Inv, AmountInv, NEW r \in Regs, NEW a \in Answers, NEW its \in SUBSET Items,
         EditRegistrationPublic(r, a, its)
  PROVE  /\ AmountInv'
         /\ \A q \in Regs : PriceKept(reg[q], reg'[q])
         /\ \A q \in Regs \ {r} : NotOverpaying(reg[q], reg'[q])
<1> DEFINE least == IF PaymentReceived(reg[r]) THEN reg[r].total ELSE 0
           n == Repriced(r, a, its, least)
           new == Derived(n)
<1>1. /\ Exists(r) /\ (reg[r].status = "PAID" => Net(n) = Net(reg[r]))
      /\ WriteReprice(r, new)
  BY DEF EditRegistrationPublic
<1>2. /\ SettleOne(r, reg[r], Covered(Usages(links, r), spons), new, Covered(Usages(links, r), spons))
      /\ UNCHANGED <<spons, links>>
  <2> HIDE DEF new
  <2> QED BY <1>1 DEF WriteReprice
<1>3. PICK u \in SUBSET Spons : u = Usages(links, r)
  BY DEF Usages
<1>4. least \in Nat
  BY <1>1, RowFacts DEF Amounts
<1> HIDE DEF least
<1>5. Stored(n) /\ Amounts(n) /\ Right(n, u, spons)
  <2> HIDE DEF n
  <2>1. n = Repriced(r, a, its, least)
    BY DEF n
  <2>2. QED BY <1>1, <1>3, <1>4, <2>1, RepricedRight
<1> HIDE DEF n
<1>6. Stored(new) /\ Amounts(new) /\ SamePrice(n, new) /\ new.spons = n.spons /\ Net(new) = Net(n)
  BY <1>5, DerivedAmounts
<1> HIDE DEF new
<1>7. Right(new, u, spons)
  BY <1>5, <1>6, RightFrame DEF SameCover, Stored
<1>8. PriceKept(reg[r], new)
  BY <1>1, <1>6 DEF PriceKept
<1>9. Right(new, Usages(links', r), spons')
  BY <1>2, <1>3, <1>7
<1>10. \A q \in Regs \ {r} : SameUsages(q)
  BY <1>2 DEF SameUsages, SameCover
<1>11. QED BY <1>2, <1>8, <1>9, <1>10, OneAmount

LEMMA DropAccessAmounts ==
  ASSUME Inv, AmountInv, NEW r \in Regs, NEW i, DropAccess(r, i)
  PROVE  AmountStep
<1> DEFINE g == [reg[r] EXCEPT !.items = @ \ {i}]
           total == Subtotal(g)
           t == [g EXCEPT !.total = total]
           n == Recomputed(t, Usages(links, r), spons, TRUE)
           new == Derived(n)
           covered == Covered(Usages(links, r), spons)
<1>1. /\ Exists(r) /\ reg[r].status \notin Settled \cup {"REFUNDED"} /\ reg[r].paid <= Net(n)
      /\ SettleOne(r, reg[r], covered, new, covered) /\ UNCHANGED <<spons, links>>
  BY DEF DropAccess
<1>2. PICK u \in SUBSET Spons : u = Usages(links, r)
  BY DEF Usages
<1>3. /\ Stored(reg[r]) /\ Amounts(reg[r]) /\ spons \in [Spons -> Sponsorships]
      /\ u = {} => reg[r].spons = 0
  BY <1>1, <1>2, RowFacts
<1>4. Stored(g) /\ Amounts(g) /\ g.paid = reg[r].paid /\ g.spons = reg[r].spons
  BY <1>3 DEF Stored, Row, Columns, Amounts
<1> HIDE DEF g
<1>5. total \in Nat
  BY <1>4, SubtotalType
<1> HIDE DEF total
<1>6. Stored(t) /\ Amounts(t) /\ t.paid = reg[r].paid /\ t.spons = reg[r].spons
  BY <1>4, <1>5 DEF Stored, Row, Columns, Amounts
<1> HIDE DEF t
<1>7. n = AtDue(t, u, spons)
  BY <1>2, <1>3, <1>6, RecomputedKept
<1> HIDE DEF n
<1>8. SameCover(u, spons, spons) /\ new = Derived(n)
  BY DEF SameCover
<1> HIDE DEF new, covered
<1>9. Amounts(new) /\ Right(new, u, spons) /\ new.paid = reg[r].paid /\ Net(new) = Net(n)
  BY <1>3, <1>6, <1>7, <1>8, SettledRight
<1>10. PriceKept(reg[r], new) /\ NotOverpaying(reg[r], new)
  <2>1. ~Overpaid(new)
    BY <1>1, <1>9, NetType DEF Overpaid
  <2>2. QED BY <1>1, <2>1 DEF PriceKept, NotOverpaying, Settled
<1>11. QED BY <1>1, <1>2, <1>9, <1>10, WrittenAmounts

-----------------------------------------------------------------------------
(* Operations on sponsorships *)

(* guardSponsorshipChange is enough, whatever status is then derived. *)
LEMMA ChangeAllowedKeeps ==
  ASSUME NEW g, Amounts(g), NEW n, Amounts(n), n.total = g.total, n.paid = g.paid,
         ChangeAllowed(g, n), NEW new, Net(new) = Net(n), new.paid = n.paid
  PROVE  PriceKept(g, new) /\ NotOverpaying(g, new)
<1>1. /\ g.spons \in Nat /\ n.spons \in Nat /\ g.total \in Nat
      /\ g.paid \in Nat /\ Net(g) \in Nat /\ Net(n) \in Nat
      /\ Net(g) = IF g.total - g.spons < 0 THEN 0 ELSE g.total - g.spons
      /\ Net(n) = IF g.total - n.spons < 0 THEN 0 ELSE g.total - n.spons
  BY NetType DEF Amounts
<1>2. n.spons = g.spons => Net(n) = Net(g)
  BY <1>1
<1>3. PriceKept(g, new)
  BY <1>2 DEF ChangeAllowed, PriceKept
<1>4. g.paid <= Net(g) => g.paid <= Net(n)
  <2>1. CASE n.spons > g.spons
    BY <1>1, <2>1 DEF ChangeAllowed
  <2>2. CASE n.spons <= g.spons
    BY <1>1, <2>2
  <2>3. QED BY <1>1, <2>1, <2>2
<1>5. NotOverpaying(g, new)
  BY <1>1, <1>4 DEF NotOverpaying, Overpaid
<1>6. QED BY <1>3, <1>5

LEMMA LinkAmounts ==
  ASSUME Inv, AmountInv, NEW c \in Spons, NEW r \in Regs, NEW g, Stored(g), Amounts(g),
         g.status = reg[r].status, g.paid = reg[r].paid, g.total = reg[r].total, Link(c, r, g)
  PROVE  AmountStep
<1>1. PICK u \in SUBSET Spons : u = Usages(links, r)
  BY DEF Usages
<1> DEFINE n == Recomputed(g, u \cup {c}, spons, TRUE)
           new == Derived(n)
<1>2. /\ Exists(r) /\ g.paid <= Net(n) /\ ChangeAllowed(reg[r], n)
      /\ links' = links \cup {<<c, r>>} /\ spons' = [spons EXCEPT ![c].status = "USED"]
      /\ SettleOne(r, reg[r], Covered(u, spons), new, Covered(u \cup {c}, spons))
  BY <1>1 DEF Link
<1>3. Amounts(reg[r]) /\ spons \in [Spons -> Sponsorships]
  BY <1>2, RowFacts
<1>4. StatusOnly /\ SameCover(u \cup {c}, spons, spons') /\ u \cup {c} \in SUBSET Spons
  BY <1>2, <1>3 DEF Sponsorships, StatusOnly, SameCover
<1>5. n = AtDue(g, u \cup {c}, spons)
  BY <1>3, <1>4, RecomputedKept
<1> HIDE DEF n
<1>6. new = Derived(n)
  OBVIOUS
<1> HIDE DEF new
<1>7. /\ Amounts(n) /\ Amounts(new) /\ Right(new, u \cup {c}, spons')
      /\ n.paid = g.paid /\ n.total = g.total /\ new.paid = g.paid /\ Net(new) = Net(n)
  BY <1>3, <1>4, <1>5, <1>6, SettledRight
<1>8. Usages(links', r) = u \cup {c}
  BY <1>1, <1>2 DEF Usages
<1>9. PriceKept(reg[r], new) /\ NotOverpaying(reg[r], new)
  BY <1>2, <1>3, <1>7, ChangeAllowedKeeps
<1>10. \A q \in Regs \ {r} : SameUsages(q)
  BY <1>2, <1>4 DEF SameUsages, SameCover, StatusOnly, Usages
<1>11. QED BY <1>2, <1>7, <1>8, <1>9, <1>10, OneAmountStep

LEMMA LinkOrRedeemAmounts ==
  ASSUME Inv, AmountInv, NEW c \in Spons, NEW r \in Regs,
         LinkSponsorship(c, r) \/ RedeemSponsorshipCode(c, r)
  PROVE  AmountStep
<1> DEFINE g == [reg[r] EXCEPT !.code = IF @ = NotGiven THEN c ELSE @]
<1>1. Exists(r)
  BY DEF LinkSponsorship, RedeemSponsorshipCode, Link
<1>2. Stored(reg[r]) /\ Amounts(reg[r])
  BY <1>1, RowFacts
<1>3. /\ Stored(g) /\ Amounts(g)
      /\ g.status = reg[r].status /\ g.paid = reg[r].paid /\ g.total = reg[r].total
  BY <1>2 DEF Stored, Row, Columns, Amounts
<1>4. Link(c, r, reg[r]) \/ Link(c, r, g)
  BY DEF LinkSponsorship, RedeemSponsorshipCode
<1> HIDE DEF g
<1>5. QED BY <1>2, <1>3, <1>4, LinkAmounts

(* Settling several registrations, each as guardSponsorshipChange allows *)
LEMMA ManySettled ==
  ASSUME AmountInv, NEW S, S \subseteq Regs, NEW settled, DOMAIN settled = S, Commit(settled),
         \A q \in S : /\ Right(settled[q].reg, Usages(links', q), spons')
                      /\ PriceKept(reg[q], settled[q].reg) /\ NotOverpaying(reg[q], settled[q].reg),
         \A q \in Regs \ S : SameUsages(q)
  PROVE  AmountStep
<1>1. \A q \in Regs : reg'[q] = IF q \in S THEN settled[q].reg ELSE reg[q]
  BY DEF Commit
<1>2. ASSUME NEW q \in Regs
      PROVE  /\ Right(reg'[q], Usages(links', q), spons')
             /\ PriceKept(reg[q], reg'[q]) /\ NotOverpaying(reg[q], reg'[q])
  <2>1. CASE q \in S
    BY <1>1, <2>1
  <2>2. CASE q \notin S
    BY <1>1, <2>2, UntouchedRight, SameRow
  <2>3. QED BY <2>1, <2>2
<1>3. QED BY <1>2 DEF AmountStep, AmountInv

LEMMA UnlinkedAmounts ==
  ASSUME Inv, AmountInv, NEW c \in Spons, NEW S, S \subseteq LinkedTo(c),
         Commit([r \in S |-> SettleUnlinked(c, r)]),
         links' = {l \in links : ~(l[1] = c /\ l[2] \in S)}, StatusOnly,
         \A r \in S : ChangeAllowed(reg[r], Unlinked(c, r))
  PROVE  AmountStep
<1> DEFINE settled == [r \in S |-> SettleUnlinked(c, r)]
<1>1. S \subseteq Regs /\ DOMAIN settled = S /\ Commit(settled)
  BY DEF LinkedTo
<1>2. ASSUME NEW r \in S
      PROVE  /\ Right(settled[r].reg, Usages(links', r), spons')
             /\ PriceKept(reg[r], settled[r].reg) /\ NotOverpaying(reg[r], settled[r].reg)
  <2> DEFINE g == [reg[r] EXCEPT !.code = IF @ = c THEN NotGiven ELSE @]
             n == Unlinked(c, r)
  <2>1. r \in Regs /\ Exists(r)
    BY <1>1 DEF LinkedTo, Inv, LinkedExist
  <2>2. PICK u \in SUBSET Spons : u = Usages(links, r) \ {c}
    BY DEF Usages
  <2>3. Stored(reg[r]) /\ Amounts(reg[r]) /\ spons \in [Spons -> Sponsorships]
    BY <2>1, RowFacts
  <2>4. Stored(g) /\ Amounts(g) /\ g.paid = reg[r].paid /\ g.total = reg[r].total
    BY <2>3 DEF Stored, Row, Columns, Amounts
  <2>5. n = AtDue(g, u, spons)
    BY <2>2, RecomputedFresh DEF Unlinked
  <2>6. settled[r].reg = Derived(n) /\ ChangeAllowed(reg[r], n)
    BY DEF SettleUnlinked, Settle
  <2>7. SameCover(u, spons, spons') /\ Usages(links', r) = u
    BY <1>1, <2>2 DEF SameCover, StatusOnly, Usages
  <2>8. PICK new : new = settled[r].reg
    OBVIOUS
  <2> HIDE DEF g, n, settled
  <2>9. /\ Amounts(n) /\ Right(new, u, spons') /\ n.paid = g.paid /\ n.total = g.total
        /\ new.paid = g.paid /\ Net(new) = Net(n)
    BY <2>3, <2>4, <2>5, <2>6, <2>7, <2>8, SettledRight
  <2>10. PriceKept(reg[r], new) /\ NotOverpaying(reg[r], new)
    BY <2>3, <2>4, <2>6, <2>9, ChangeAllowedKeeps
  <2>11. QED BY <2>7, <2>8, <2>9, <2>10
<1>3. \A q \in Regs \ S : SameUsages(q)
  BY DEF SameUsages, SameCover, StatusOnly, Usages
<1> HIDE DEF settled
<1>4. QED BY <1>1, <1>2, <1>3, ManySettled

LEMMA UnlinkAmounts ==
  ASSUME Inv, AmountInv, NEW c \in Spons, NEW r \in Regs, UnlinkSponsorship(c, r)
  PROVE  AmountStep
<1> DEFINE S == {r}
<1>1. /\ <<c, r>> \in links /\ ChangeAllowed(reg[r], Unlinked(c, r)) /\ links' = links \ {<<c, r>>}
      /\ spons' = [spons EXCEPT ![c].status = IF LinkedTo(c) = {r} THEN "PENDING" ELSE @]
      /\ Commit([x \in S |-> SettleUnlinked(c, x)])
  BY DEF UnlinkSponsorship
<1>2. S \subseteq LinkedTo(c) /\ \A q \in S : ChangeAllowed(reg[q], Unlinked(c, q))
  BY <1>1 DEF LinkedTo
<1>3. links' = {l \in links : ~(l[1] = c /\ l[2] \in S)}
  BY <1>1 DEF Inv, Shape
<1>4. StatusOnly
  BY <1>1 DEF Inv, Shape, Sponsorships, StatusOnly
<1> HIDE DEF S
<1>5. QED BY <1>1, <1>2, <1>3, <1>4, UnlinkedAmounts

LEMMA ReleaseAmounts ==
  ASSUME Inv, AmountInv, NEW c \in Spons, NEW status, ReleaseSponsorship(c, status)
  PROVE  AmountStep
<1> DEFINE S == LinkedTo(c)
<1>1. /\ \A r \in S : ChangeAllowed(reg[r], Unlinked(c, r))
      /\ links' = {l \in links : l[1] # c}
      /\ spons' = [spons EXCEPT ![c].status = status]
      /\ Commit([x \in S |-> SettleUnlinked(c, x)])
  BY DEF ReleaseSponsorship
<1>2. links' = {l \in links : ~(l[1] = c /\ l[2] \in S)} /\ S \subseteq LinkedTo(c)
  BY <1>1 DEF Inv, Shape, LinkedTo
<1>3. StatusOnly
  BY <1>1 DEF Inv, Shape, Sponsorships, StatusOnly
<1> HIDE DEF S
<1>4. QED BY <1>1, <1>2, <1>3, UnlinkedAmounts

LEMMA ChangeCoverageAmounts ==
  ASSUME Inv, AmountInv, NEW c \in Spons, NEW k \in Coverages, ChangeCoverage(c, k)
  PROVE  AmountStep
<1> DEFINE cover == [spons EXCEPT ![c].base = k.base, ![c].items = k.items]
           Fresh(r) == Recomputed(reg[r], Usages(links, r), cover, TRUE)
           New(r) == Derived(Fresh(r))
           S == LinkedTo(c)
           settled == [r \in S |-> Settle(reg[r], Covered(Usages(links, r), spons),
                                          New(r), Covered(Usages(links, r), cover))]
<1>1. /\ spons' = cover /\ Commit(settled) /\ links' = links
      /\ \A r \in S : ChangeAllowed(reg[r], Fresh(r))
  BY DEF ChangeCoverage
<1>2. S \subseteq Regs /\ DOMAIN settled = S
  BY DEF LinkedTo
<1>3. ASSUME NEW r \in S PROVE settled[r].reg = New(r)
  BY DEF Settle
<1>4. /\ cover \in [Spons -> Sponsorships]
      /\ \A d \in Spons \ {c} : cover[d].base = spons[d].base /\ cover[d].items = spons[d].items
  BY CoveragesType DEF Inv, Shape, Sponsorships
<1> HIDE DEF cover, settled
<1>5. ASSUME NEW r \in S
      PROVE  /\ Right(settled[r].reg, Usages(links', r), spons')
             /\ PriceKept(reg[r], settled[r].reg) /\ NotOverpaying(reg[r], settled[r].reg)
  <2>1. r \in Regs /\ Exists(r)
    BY <1>2 DEF LinkedTo, Inv, LinkedExist
  <2>2. PICK u \in SUBSET Spons : u = Usages(links, r)
    BY DEF Usages
  <2>3. Stored(reg[r]) /\ Amounts(reg[r]) /\ (u = {} => reg[r].spons = 0)
    BY <2>1, <2>2, RowFacts
  <2>4. PICK n : n = Fresh(r)
    OBVIOUS
  <2>5. n = AtDue(reg[r], u, cover)
    BY <1>4, <2>2, <2>3, <2>4, RecomputedKept
  <2>6. ChangeAllowed(reg[r], n) /\ settled[r].reg = Derived(n)
    BY <1>1, <1>3, <2>4
  <2>7. PICK new : new = settled[r].reg
    OBVIOUS
  <2>8. SameCover(u, cover, cover)
    BY DEF SameCover
  <2> HIDE DEF Fresh, New, S
  <2>9. /\ Amounts(n) /\ Right(new, u, cover) /\ n.paid = reg[r].paid /\ n.total = reg[r].total
        /\ new.paid = n.paid /\ Net(new) = Net(n)
    BY <1>4, <2>3, <2>5, <2>6, <2>7, <2>8, SettledRight
  <2>10. PriceKept(reg[r], new) /\ NotOverpaying(reg[r], new)
    BY <2>3, <2>6, <2>9, ChangeAllowedKeeps
  <2>11. QED BY <1>1, <2>2, <2>7, <2>9, <2>10
<1>6. \A q \in Regs \ S : SameUsages(q)
  BY <1>1, <1>4 DEF SameUsages, SameCover, Usages, LinkedTo
<1> HIDE DEF S
<1>7. QED BY <1>1, <1>2, <1>5, <1>6, ManySettled

LEMMA CreateSponsorshipAmounts ==
  ASSUME Inv, AmountInv, NEW c \in Spons, NEW k \in Coverages, CreateSponsorship(c, k)
  PROVE  AmountStep
<1>1. /\ spons' = [spons EXCEPT ![c] = [status |-> "PENDING", base |-> k.base, items |-> k.items]]
      /\ spons[c].status = "NONE" /\ UNCHANGED <<reg, links, paidCount, drops, uncounted>>
  BY DEF CreateSponsorship, SponsorshipExists
<1>2. LinkedTo(c) = {}
  BY <1>1 DEF Inv, UsedWhileLinked
<1>3. \A q \in Regs : SameUsages(q)
  BY <1>1, <1>2 DEF SameUsages, SameCover, Usages, LinkedTo, Inv, Shape
<1>4. \A q \in Regs : Right(reg'[q], Usages(links', q), spons')
  BY <1>1, <1>3, UntouchedRight
<1>5. QED BY <1>1, <1>4, SameRow DEF AmountStep, AmountInv

-----------------------------------------------------------------------------
LEMMA StutterAmounts ==
  ASSUME AmountInv, UNCHANGED <<reg, spons, links>>
  PROVE  AmountStep
  BY SameRow DEF AmountStep, AmountInv

(* Every step but a registrant's own edit *)
SelfEdit(r) ==
  \E a \in Answers, its \in SUBSET Items : EditRegistrationPublic(r, a, its)

LEMMA NextAmounts ==
  ASSUME Inv, AmountInv, [Next]_vars
  PROVE  /\ AmountInv'
         /\ \A q \in Regs : PriceKept(reg[q], reg'[q])
         /\ \A q \in Regs : NotOverpaying(reg[q], reg'[q]) \/ SelfEdit(q)
<1> DEFINE Goal == /\ AmountInv'
                   /\ \A q \in Regs : PriceKept(reg[q], reg'[q])
                   /\ \A q \in Regs : NotOverpaying(reg[q], reg'[q]) \/ SelfEdit(q)
<1>1. AmountStep => Goal
  BY DEF AmountStep
<1>2. ASSUME NEW r \in Regs, SelfEdit(r) PROVE Goal
  <2>1. PICK a \in Answers, its \in SUBSET Items : EditRegistrationPublic(r, a, its)
    BY <1>2 DEF SelfEdit
  <2>2. /\ AmountInv'
        /\ \A q \in Regs : PriceKept(reg[q], reg'[q])
        /\ \A q \in Regs \ {r} : NotOverpaying(reg[q], reg'[q])
    BY <2>1, EditPublicAmounts
  <2>3. QED BY <1>2, <2>2
<1> HIDE DEF Goal
<1>3. ASSUME NEW r \in Regs, RegistrationStep(r)
      PROVE  AmountStep \/ SelfEdit(r)
  BY <1>3, RegisterAmounts, RegisterWithCodeAmounts, CreateAdminAmounts, AdminEditPriceAmounts,
     PaymentAmounts, ConfirmPaymentAmounts, UploadAmounts, DeleteAmounts, DropAccessAmounts
     DEF RegistrationStep, SelfEdit
<1>4. ASSUME NEW c \in Spons, SponsorshipStep(c)
      PROVE  AmountStep
  BY <1>4, CreateSponsorshipAmounts, ChangeCoverageAmounts, LinkOrRedeemAmounts,
     UnlinkAmounts, ReleaseAmounts DEF SponsorshipStep, CancelSponsorship, DeleteSponsorship
<1>5. ASSUME NEW i \in Items, EndDrop(i)
      PROVE  AmountStep
  BY <1>5, StutterAmounts DEF EndDrop
<1>6. ASSUME UNCHANGED vars PROVE Goal
  BY <1>1, <1>6, StutterAmounts DEF vars
<1>7. Goal
  BY <1>1, <1>2, <1>3, <1>4, <1>5, <1>6 DEF Next
<1>8. QED BY <1>7 DEF Goal

LEMMA InitAmounts == Init => AmountInv
  BY NoRegistrationRight DEF Init, AmountInv

(* The amounts stay right: next to Inv, AmountInv is inductive. *)
THEOREM AmountInvariant == Spec => []AmountInv
<1>1. Inv /\ AmountInv /\ [Next]_vars => AmountInv'
  BY NextAmounts
<1>2. QED
  BY <1>1, InitAmounts, SettlementInvariant, PTL DEF Spec

(* The stored sponsorship amount is always what the linked sponsorships    *)
(* now apply to what the registration now holds: no edit, link, unlink,    *)
(* coverage change, drop or payment leaves a stale amount, whatever the    *)
(* prices, coverages and answers (sponsorship_vs_usages).                  *)
THEOREM AmountFollowsUsagesHolds == Spec => []AmountFollowsUsages
<1>1. AmountInv => AmountFollowsUsages
  BY DEF AmountInv, AmountFollowsUsages, Right, Due, Exists
<1>2. QED
  BY <1>1, AmountInvariant, PTL

(* What a PAID registration owes moves only with its payment. *)
THEOREM PaidPriceLockedHolds == Spec => PaidPriceLocked
<1>1. Inv /\ AmountInv /\ [Next]_vars =>
        [\A r \in Regs :
           reg[r].status = "PAID" /\ reg'[r].status = "PAID" /\ Net(reg'[r]) # Net(reg[r]) =>
             reg'[r].paid = Net(reg'[r])]_vars
  BY NextAmounts DEF PriceKept
<1>2. QED
  BY <1>1, SettlementInvariant, AmountInvariant, PTL DEF Spec, PaidPriceLocked

(* Only a registrant's own edit can leave a registration paid more than it *)
(* owes: not a payment, an admin's edit, a sponsorship linked, unlinked,   *)
(* changed or cancelled, nor a dropped item.                               *)
THEOREM OnlySelfEditOverpaysHolds == Spec => OnlySelfEditOverpays
<1>1. Inv /\ AmountInv /\ [Next]_vars =>
        [\A r \in Regs :
           ~Overpaid(reg[r]) /\ reg[r].status # "REFUNDED" /\ Overpaid(reg'[r]) =>
             \E a \in Answers, its \in SUBSET Items : EditRegistrationPublic(r, a, its)]_vars
  BY NextAmounts DEF NotOverpaying, SelfEdit
<1>2. QED
  BY <1>1, SettlementInvariant, AmountInvariant, PTL DEF Spec, OnlySelfEditOverpays

=============================================================================
