--------------------------- MODULE AbstractReview ---------------------------
(***************************************************************************)
(* The abstracts of one event, from submission to decision: the author's   *)
(* submit, edit and final-file upload, the committee and its reviews, the  *)
(* admin's decisions and the themes that the printed codes are numbered by *)
(* (apps/api/src/modules/abstracts, packages/db/src/queries/abstracts).    *)
(*                                                                         *)
(* A handler that checks the database and then opens a transaction is two  *)
(* steps with a request in flight between them; what the transaction reads *)
(* after its row locks is read in the second step. A transaction is one    *)
(* step: it locks first (withLockingTxn) or is serializable, or its        *)
(* decisive statement is one guarded UPDATE. A window of dates that the    *)
(* handlers compare the clock with (submission, editing, scoring, upload)  *)
(* only refuses requests; a refused request is one that is not made.       *)
(***************************************************************************)
EXTENDS Integers, FiniteSets, FiniteSetsExt

CONSTANTS
  Abstracts,            \* ids of the abstracts that may be submitted
  Authors,              \* normalised first-author addresses
  Reviewers,            \* committee accounts
  PrefSetters,          \* bound: the reviewers whose theme preferences are set
  Themes,               \* ids of the themes that may be created
  SortOrders,           \* the sort orders a theme may have
  FinalTypes,           \* the presentation types an acceptance may store
  Scores,               \* the scores a review may give
  ReviewersPerAbstract, \* abstract_config.reviewers_per_abstract
  DivergenceThreshold,  \* abstract_config.divergence_threshold
  DistributeByTheme,    \* abstract_config.distribute_by_theme
  Uploads,              \* final-file uploads; each stores under a fresh key
  MaxEdits,             \* bound on the edits of an abstract
  MaxDecisions,         \* bound on the decisions on an abstract
  MaxInFlight,          \* bound on the requests between check and write
  None

VARIABLES
  abs,         \* the abstracts rows with their theme links
  review,      \* the abstract_reviews rows
  member,      \* the committee memberships
  prefs,       \* the active theme preferences of the reviewers
  prefRows,    \* the <<reviewer, theme>> rows, active or not
  theme,       \* the abstract_themes rows
  counter,     \* abstract_code_counters.last_value; 0 where there is no row
  outbox,      \* dedupe keys of the enqueued abstract emails
  inflight,    \* requests that passed their checks
  upload,      \* the final-file uploads
  storage,     \* the objects in storage
  \* history, read by properties only
  decided,     \* how often each abstract was decided
  printed,     \* every code number handed out
  leftDecided  \* reviews a member left behind on decided abstracts

vars == <<abs, review, member, prefs, prefRows, theme, counter, outbox,
          inflight, upload, storage, decided, printed, leftDecided>>

Open == {"SUBMITTED", "UNDER_REVIEW", "REVIEW_COMPLETE"}
FINAL_STATUSES == {"ACCEPTED", "REJECTED", "PENDING"}
Kinds == {"PDF", "PPTX"}

Exists(a) == abs[a] # None
Final(a) == abs[a].status \in FINAL_STATUSES
ActiveThemes == {t \in Themes : theme[t] # None /\ theme[t].active}

-----------------------------------------------------------------------------
(* The review aggregate *)

(* rows: the review rows of one abstract, by reviewer *)
ActiveReviewers(rows) == {r \in Reviewers : rows[r] # None /\ rows[r].active}
Scored(rows) == {r \in ActiveReviewers(rows) : rows[r].score # None}

(* The average is kept as the sum and the number it is the quotient of.    *)
summarizeScores(rows) ==
  LET scored == Scored(rows)
  IN  IF scored = {} THEN None
      ELSE [sum |-> MapThenSumSet(LAMBDA r : rows[r].score, scored),
            of |-> Cardinality(scored)]

computeReviewAggregate(rows) ==
  [averageScore |-> summarizeScores(rows),
   reviewCount |-> Cardinality(Scored(rows)),
   allScored |-> ActiveReviewers(rows) # {} /\ Scored(rows) = ActiveReviewers(rows)]

(* Mutant: a complete review stays complete when a reviewer is added *)
StickyReviewStatus(current, hasReviewers, allScored) ==
  IF current \in FINAL_STATUSES THEN current
  ELSE IF allScored THEN "REVIEW_COMPLETE"
  ELSE IF hasReviewers /\ current = "SUBMITTED" THEN "UNDER_REVIEW" ELSE current

deriveReviewStatus(current, hasReviewers, allScored) ==
  LET base == IF hasReviewers /\ current = "SUBMITTED" THEN "UNDER_REVIEW" ELSE current
  IN  IF current \in FINAL_STATUSES THEN current
      ELSE IF allScored THEN "REVIEW_COMPLETE"
      ELSE IF base = "REVIEW_COMPLETE" THEN "UNDER_REVIEW" ELSE base

(* The row after its aggregate is recomputed; a decided row keeps it.      *)
applyReviewAggregate(a, rows, hasReviewers) ==
  LET agg == computeReviewAggregate(rows)
  IN  IF Final(a) THEN abs[a]
      ELSE [abs[a] EXCEPT
             !.averageScore = agg.averageScore,
             !.reviewCount = agg.reviewCount,
             !.status = deriveReviewStatus(@, hasReviewers, agg.allScored)]

scoreDivergence(rows) ==
  \E r, q \in Scored(rows) :
     LET spread == rows[r].score - rows[q].score
     IN  spread > 0 /\ spread >= DivergenceThreshold

-----------------------------------------------------------------------------
(* The columns of the rows; the average and the count are those of some    *)
(* reviews                                                                 *)

ReviewRows == [active : BOOLEAN, score : Scores \union {None}]
Sheets == [Reviewers -> ReviewRows \union {None}]
ThemeRows == [sortOrder : Int, active : BOOLEAN]
CodeRows == [number : Nat, type : FinalTypes, sortOrder : Int]

AbstractRows ==
  [status : Open \union FINAL_STATUSES, author : Authors, themes : SUBSET Themes,
   version : Int, averageScore : {summarizeScores(rows) : rows \in Sheets},
   reviewCount : {Cardinality(Scored(rows)) : rows \in Sheets},
   finalType : FinalTypes \union {None}, code : CodeRows \union {None},
   presented : BOOLEAN, file : Uploads \union {None}]

ASSUME AbstractConstants ==
  /\ SortOrders \subseteq Int /\ IsFiniteSet(Themes)
  /\ None \notin FinalTypes \union Uploads \union CodeRows \union ReviewRows
  /\ None \notin ThemeRows \union AbstractRows

-----------------------------------------------------------------------------
(* The author *)

Begin(req) ==
  /\ Cardinality(inflight) < MaxInFlight
  /\ inflight' = inflight \union {req}

EmailFree(a, e) == \A b \in Abstracts \ {a} : Exists(b) => abs[b].author # e

validateThemes(ts, extraAllowed) ==
  ts # {} /\ ts \subseteq ActiveThemes \union extraAllowed

(* The unique index on (event, author address) decides a duplicate that    *)
(* the read before the insert missed.                                      *)
submitAbstract(a, e, ts) ==
  /\ ~Exists(a)
  /\ validateThemes(ts, {})
  /\ EmailFree(a, e)
  /\ abs' = [abs EXCEPT ![a] =
       [status |-> "SUBMITTED", author |-> e, themes |-> ts, version |-> 1,
        averageScore |-> None, reviewCount |-> 0, finalType |-> None,
        code |-> None, presented |-> FALSE, file |-> None]]
  /\ outbox' = outbox \union {<<"ABSTRACT_SUBMISSION_ACK", a, 1>>}
  /\ UNCHANGED <<review, member, prefs, prefRows, theme, counter, inflight,
                 upload, storage, decided, printed, leftDecided>>

editAbstract(a, e, ts) ==
  /\ Exists(a) /\ ~Final(a)
  /\ abs[a].version <= MaxEdits
  /\ validateThemes(ts, abs[a].themes)
  /\ EmailFree(a, e)
  /\ Begin([op |-> "edit", on |-> a, author |-> e, themes |-> ts])
  /\ UNCHANGED <<abs, review, member, prefs, prefRows, theme, counter, outbox,
                 upload, storage, decided, printed, leftDecided>>

(* Refused when a decision or another author's address came in between;    *)
(* a theme deleted meanwhile has no row to link to.                        *)
editAbstractTxn(req) ==
  LET a == req.on
      next == abs[a].version + 1
  IN
  /\ req \in inflight /\ req.op = "edit"
  /\ inflight' = inflight \ {req}
  /\ IF ~Final(a) /\ EmailFree(a, req.author) /\ \A t \in req.themes : theme[t] # None
     THEN /\ abs' = [abs EXCEPT ![a].author = req.author,
                                ![a].themes = req.themes,
                                ![a].version = next]
          /\ outbox' = outbox \union {<<"ABSTRACT_EDIT_ACK", a, next>>}
     ELSE UNCHANGED <<abs, outbox>>
  /\ UNCHANGED <<review, member, prefs, prefRows, theme, counter, upload,
                 storage, decided, printed, leftDecided>>

-----------------------------------------------------------------------------
(* The committee *)

addCommitteeMember(r) ==
  /\ member' = [member EXCEPT ![r] = TRUE]
  /\ UNCHANGED <<abs, review, prefs, prefRows, theme, counter, outbox,
                 inflight, upload, storage, decided, printed, leftDecided>>

(* Mutant: the reviews on decided abstracts go too *)
DeactivateReviewsEverywhere(r) ==
  [a \in Abstracts |->
     IF r \in ActiveReviewers(review[a]) THEN [review[a] EXCEPT ![r].active = FALSE]
     ELSE review[a]]

(* The reviews of r on abstracts that are still open *)
deactivateReviewsOnOpenAbstracts(r) ==
  [a \in Abstracts |->
     IF Exists(a) /\ ~Final(a) /\ r \in ActiveReviewers(review[a])
     THEN [review[a] EXCEPT ![r].active = FALSE]
     ELSE review[a]]

removeCommitteeMember(r) ==
  LET rv == deactivateReviewsOnOpenAbstracts(r)
      touched == {a \in Abstracts : rv[a] # review[a]}
      kept == {a \in Abstracts : Exists(a) /\ r \in ActiveReviewers(rv[a])}
  IN
  /\ member[r]
  /\ member' = [member EXCEPT ![r] = FALSE]
  /\ prefs' = [prefs EXCEPT ![r] = {}]
  /\ review' = rv
  /\ abs' = [a \in Abstracts |->
               IF a \in touched THEN applyReviewAggregate(a, rv[a], FALSE) ELSE abs[a]]
  /\ leftDecided' = leftDecided \union {<<a, r>> : a \in kept}
  /\ UNCHANGED <<prefRows, theme, counter, outbox, inflight, upload, storage,
                 decided, printed>>

setReviewerThemes(r, ts) ==
  /\ member[r]
  /\ ts \subseteq ActiveThemes
  /\ Begin([op |-> "themes", on |-> r, themes |-> ts])
  /\ UNCHANGED <<abs, review, member, prefs, prefRows, theme, counter, outbox,
                 upload, storage, decided, printed, leftDecided>>

(* The membership is not read again: a member removed in between gets      *)
(* active preferences back.                                                *)
setReviewerThemesTxn(req) ==
  /\ req \in inflight /\ req.op = "themes"
  /\ inflight' = inflight \ {req}
  /\ IF \A t \in req.themes : theme[t] # None
     THEN /\ prefs' = [prefs EXCEPT ![req.on] = req.themes]
          /\ prefRows' = prefRows \union ({req.on} \X req.themes)
     ELSE UNCHANGED <<prefs, prefRows>>
  /\ UNCHANGED <<abs, review, member, theme, counter, outbox, upload, storage,
                 decided, printed, leftDecided>>

assignReviewers(a, rs) ==
  /\ Exists(a) /\ ~Final(a)
  /\ rs # {} =>
       /\ Cardinality(rs) >= ReviewersPerAbstract
       /\ Cardinality(rs) > ReviewersPerAbstract => scoreDivergence(review[a])
       /\ \A r \in rs : member[r]
       /\ DistributeByTheme => \A r \in rs : prefs[r] \intersect abs[a].themes # {}
  /\ Begin([op |-> "assign", on |-> a, reviewers |-> rs])
  /\ UNCHANGED <<abs, review, member, prefs, prefRows, theme, counter, outbox,
                 upload, storage, decided, printed, leftDecided>>

(* Mutant: the memberships are not read again *)
TrustCommitteeMemberIds(rs) == rs

(* Memberships locked, then the abstract: both are read again              *)
lockActiveCommitteeMemberIds(rs) == {r \in rs : member[r]}

(* The reviews of a once rs are its reviewers: a review taken up again     *)
(* after it was inactive starts without its old score.                     *)
ReplaceReviewers(a, rs) ==
  LET kept == rs \intersect ActiveReviewers(review[a])
  IN  [review EXCEPT ![a] = [r \in Reviewers |->
         CASE r \in kept -> @[r]
           [] r \in rs \ kept -> [active |-> TRUE, score |-> None]
           [] r \notin rs /\ @[r] = None -> None
           [] r \notin rs /\ @[r] # None -> [@[r] EXCEPT !.active = FALSE]]]

assignReviewersTxn(req) ==
  LET a == req.on
      rs == req.reviewers
      rv == ReplaceReviewers(a, rs)
  IN
  /\ req \in inflight /\ req.op = "assign"
  /\ inflight' = inflight \ {req}
  /\ IF ~Final(a) /\ lockActiveCommitteeMemberIds(rs) = rs
     THEN /\ review' = rv
          /\ abs' = [abs EXCEPT ![a] = applyReviewAggregate(a, rv[a], rs # {})]
          /\ leftDecided' = leftDecided \ ({a} \X Reviewers)
     ELSE UNCHANGED <<review, abs, leftDecided>>
  /\ UNCHANGED <<member, prefs, prefRows, theme, counter, outbox, upload,
                 storage, decided, printed>>

reviewAssignedAbstract(a, r, s) ==
  /\ Exists(a) /\ ~Final(a)
  /\ member[r]
  /\ r \in ActiveReviewers(review[a])
  /\ Begin([op |-> "review", on |-> a, reviewer |-> r, score |-> s])
  /\ UNCHANGED <<abs, review, member, prefs, prefRows, theme, counter, outbox,
                 upload, storage, decided, printed, leftDecided>>

(* One divergence alert per abstract and hour; the model lives in one hour. *)
notifyScoreDivergence(a, rows) ==
  IF scoreDivergence(rows) THEN {<<"ABSTRACT_SCORE_DIVERGENCE", a, 1>>} ELSE {}

reviewAbstractTxn(req) ==
  LET a == req.on
      r == req.reviewer
      rv == [review EXCEPT ![a][r].score = req.score]
  IN
  /\ req \in inflight /\ req.op = "review"
  /\ inflight' = inflight \ {req}
  /\ IF ~Final(a) /\ r \in ActiveReviewers(review[a])
     THEN /\ review' = rv
          /\ abs' = [abs EXCEPT ![a] = applyReviewAggregate(a, rv[a], TRUE)]
          /\ outbox' = outbox \union notifyScoreDivergence(a, rv[a])
     ELSE UNCHANGED <<review, abs, outbox>>
  /\ UNCHANGED <<member, prefs, prefRows, theme, counter, upload, storage,
                 decided, printed, leftDecided>>

-----------------------------------------------------------------------------
(* Decisions *)

(* The first theme by sort order; a soft-deleted theme may share its order *)
(* with another, and then either may come first.                           *)
CodeTheme(a, t) ==
  /\ t \in abs[a].themes
  /\ \A u \in abs[a].themes : theme[t].sortOrder <= theme[u].sortOrder

(* Mutant: numbers follow the codes in use, without a counter *)
NextUnusedCode(t, ty) ==
  LET used == {abs[b].code.number : b \in {x \in Abstracts :
                 Exists(x) /\ abs[x].finalType = ty /\ abs[x].code # None /\ t \in abs[x].themes}}
  IN  [number |-> Max({0} \union used) + 1, type |-> ty, sortOrder |-> theme[t].sortOrder]

(* The number after the largest one in use or handed out in the series     *)
allocateAbstractCode(t, ty) ==
  LET used == {abs[b].code.number : b \in {x \in Abstracts :
                 Exists(x) /\ abs[x].finalType = ty /\ abs[x].code # None /\ t \in abs[x].themes}}
      row == counter[t][ty]
  IN  [number |-> IF row = 0 THEN Max({0} \union used) + 1 ELSE row + 1,
       type |-> ty, sortOrder |-> theme[t].sortOrder]

(* The keys are scoped by updated_at before the decision, which every      *)
(* decision and every reopening moves on: one scope per decision.          *)
selectDecisionEmails(a, decision) ==
  {<<CASE decision = "ACCEPTED" -> "ABSTRACT_ACCEPTED"
       [] decision = "REJECTED" -> "ABSTRACT_REJECTED"
       [] OTHER -> "ABSTRACT_DECISION", a, decided[a] + 1>>}

CodeTaken(a, code) == \E b \in Abstracts \ {a} : Exists(b) /\ abs[b].code = code

finalizeAbstract(a, decision, ty, t) ==
  LET accepted == decision = "ACCEPTED"
      code == allocateAbstractCode(t, ty)
  IN
  /\ Exists(a) /\ ~Final(a)
  /\ decided[a] < MaxDecisions
  /\ accepted <=> ty # None
  /\ CodeTheme(a, t)
  /\ accepted => ~CodeTaken(a, code)
  /\ abs' = [abs EXCEPT ![a].status = decision,
                        ![a].finalType = ty,
                        ![a].code = IF accepted THEN code ELSE None]
  /\ counter' = IF accepted THEN [counter EXCEPT ![t][ty] = code.number] ELSE counter
  /\ printed' = IF accepted
                THEN printed \union {[on |-> a, theme |-> t, type |-> ty, number |-> code.number,
                                      decision |-> decided[a] + 1]}
                ELSE printed
  /\ outbox' = outbox \union selectDecisionEmails(a, decision)
  /\ decided' = [decided EXCEPT ![a] = @ + 1]
  /\ UNCHANGED <<review, member, prefs, prefRows, theme, inflight, upload,
                 storage, leftDecided>>

reopenAbstract(a) ==
  /\ Exists(a) /\ Final(a)
  /\ abs' = [abs EXCEPT
       ![a].status = IF ActiveReviewers(review[a]) # {} THEN "UNDER_REVIEW" ELSE "SUBMITTED",
       ![a].finalType = None,
       ![a].code = None,
       ![a].presented = FALSE]
  /\ UNCHANGED <<review, member, prefs, prefRows, theme, counter, outbox,
                 inflight, upload, storage, decided, printed, leftDecided>>

markAbstractPresented(a, presented) ==
  /\ Exists(a) /\ abs[a].status = "ACCEPTED"
  /\ abs' = [abs EXCEPT ![a].presented = presented]
  /\ UNCHANGED <<review, member, prefs, prefRows, theme, counter, outbox,
                 inflight, upload, storage, decided, printed, leftDecided>>

-----------------------------------------------------------------------------
(* The final file *)

assertUploadWindowOpen(a) == Exists(a) /\ abs[a].status = "ACCEPTED"

assertKindAllowed(kind, ty) == ty # None /\ (ty = "POSTER" => kind = "PDF")

uploadAbstractFinalFile(u, a, kind) ==
  /\ upload[u].pc = "idle"
  /\ assertUploadWindowOpen(a)
  /\ assertKindAllowed(kind, abs[a].finalType)
  /\ storage' = storage \union {u}
  /\ upload' = [upload EXCEPT ![u] = [pc |-> "stored", on |-> a, kind |-> kind, old |-> None]]
  /\ UNCHANGED <<abs, review, member, prefs, prefRows, theme, counter, outbox,
                 inflight, decided, printed, leftDecided>>

(* The locked row is checked again and rewritten, or the transaction is    *)
(* refused or fails, or it commits and its answer is lost, which the code  *)
(* cannot tell from a failure.                                             *)
updateAbstractFinalFileTxn(u) ==
  LET a == upload[u].on IN
  /\ upload[u].pc = "stored"
  /\ \/ /\ assertUploadWindowOpen(a)
        /\ assertKindAllowed(upload[u].kind, abs[a].finalType)
        /\ abs' = [abs EXCEPT ![a].file = u]
        /\ \E answer \in {"written", "unanswered"} :
             upload' = [upload EXCEPT ![u].pc = answer, ![u].old = abs[a].file]
     \/ /\ abs' = abs
        /\ upload' = [upload EXCEPT ![u].pc = "refused"]
  /\ UNCHANGED <<review, member, prefs, prefRows, theme, counter, outbox,
                 inflight, storage, decided, printed, leftDecided>>

(* The catch: the new object is deleted after any error, best effort, also *)
(* when the row names it.                                                  *)
deleteNewFile(u) ==
  /\ upload[u].pc \in {"refused", "unanswered"}
  /\ \/ /\ storage' = storage
        /\ upload' = [upload EXCEPT ![u].pc = "ended"]
     \/ /\ storage' = storage \ {u}
        /\ upload' = [upload EXCEPT ![u].pc = IF @ = "refused" THEN "ended" ELSE "discarded"]
  /\ UNCHANGED <<abs, review, member, prefs, prefRows, theme, counter, outbox,
                 inflight, decided, printed, leftDecided>>

(* Mutant: the old file is deleted before the row is rewritten *)
DeletePreviousFirst(u) ==
  /\ upload[u].pc \in {"stored", "written"}
  /\ storage' \in {storage, storage \ {abs[upload[u].on].file}}
  /\ upload' = [upload EXCEPT ![u].pc = "ended"]
  /\ UNCHANGED <<abs, review, member, prefs, prefRows, theme, counter, outbox,
                 inflight, decided, printed, leftDecided>>

deletePreviousFile(u) ==
  /\ upload[u].pc = "written"
  /\ storage' \in {storage, storage \ {upload[u].old}}
  /\ upload' = [upload EXCEPT ![u].pc = "ended"]
  /\ UNCHANGED <<abs, review, member, prefs, prefRows, theme, counter, outbox,
                 inflight, decided, printed, leftDecided>>

(* The process dies between the steps of an upload *)
uploadCrashes(u) ==
  /\ upload[u].pc \in {"stored", "written", "refused", "unanswered"}
  /\ upload' = [upload EXCEPT ![u].pc = "ended"]
  /\ UNCHANGED <<abs, review, member, prefs, prefRows, theme, counter, outbox,
                 inflight, storage, decided, printed, leftDecided>>

-----------------------------------------------------------------------------
(* Themes *)

Coded(t) == \E a \in Abstracts : Exists(a) /\ t \in abs[a].themes /\ abs[a].code # None

(* Mutant: any sort order may be taken *)
AnyOrder(t, order) == TRUE

OrderFree(t, order) == \A u \in ActiveThemes \ {t} : theme[u].sortOrder # order

ThemeStep(t, row) ==
  /\ theme' = [theme EXCEPT ![t] = row]
  /\ UNCHANGED <<abs, review, member, prefs, prefRows, counter, outbox, upload,
                 storage, decided, printed, leftDecided>>

createTheme(t, order, active) ==
  /\ theme[t] = None
  /\ OrderFree(t, order)
  /\ ThemeStep(t, [sortOrder |-> order, active |-> active])
  /\ UNCHANGED inflight

updateTheme(t, order, active) ==
  /\ theme[t] # None
  /\ order # theme[t].sortOrder => ~Coded(t) /\ OrderFree(t, order)
  /\ Begin([op |-> "theme", on |-> t, active |-> active,
            sortOrder |-> IF order = theme[t].sortOrder THEN None ELSE order])
  /\ UNCHANGED <<abs, review, member, prefs, prefRows, theme, counter, outbox,
                 upload, storage, decided, printed, leftDecided>>

(* A plain UPDATE by id: only the unique index on the active themes' sort  *)
(* orders is checked again, not the codes printed since the check.         *)
updateThemeRow(req) ==
  LET t == req.on
      row == [sortOrder |-> IF req.sortOrder = None THEN theme[t].sortOrder ELSE req.sortOrder,
              active |-> req.active]
  IN
  /\ req \in inflight /\ req.op = "theme"
  /\ inflight' = inflight \ {req}
  /\ IF theme[t] # None /\ (row.active => OrderFree(t, row.sortOrder))
     THEN ThemeStep(t, row)
     ELSE ThemeStep(t, theme[t])

softDeleteTheme(t) ==
  /\ theme[t] # None
  /\ ThemeStep(t, [theme[t] EXCEPT !.active = FALSE])
  /\ UNCHANGED inflight

deleteUnusedTheme(t) ==
  /\ theme[t] # None
  /\ \A a \in Abstracts : Exists(a) => t \notin abs[a].themes
  /\ \A r \in Reviewers : <<r, t>> \notin prefRows
  /\ \A ty \in FinalTypes : counter[t][ty] = 0
  /\ ThemeStep(t, None)
  /\ UNCHANGED inflight

(* order is the position of each active theme in the list given *)
reorderThemes(order) ==
  LET moved == {t \in ActiveThemes : order[t] # theme[t].sortOrder}
  IN
  /\ \A t \in moved : ~Coded(t) /\ \A ty \in FinalTypes : counter[t][ty] = 0
  /\ theme' = [t \in Themes |->
                 IF t \in moved THEN [theme[t] EXCEPT !.sortOrder = order[t]] ELSE theme[t]]
  /\ UNCHANGED <<abs, review, member, prefs, prefRows, counter, outbox,
                 inflight, upload, storage, decided, printed, leftDecided>>

Permuted == {f \in [ActiveThemes -> 0..Cardinality(ActiveThemes) - 1] :
               \A t, u \in ActiveThemes : f[t] = f[u] => t = u}

-----------------------------------------------------------------------------
Init ==
  /\ abs = [a \in Abstracts |-> None]
  /\ review = [a \in Abstracts |-> [r \in Reviewers |-> None]]
  /\ member = [r \in Reviewers |-> FALSE]
  /\ prefs = [r \in Reviewers |-> {}]
  /\ prefRows = {}
  /\ theme = [t \in Themes |-> None]
  /\ counter = [t \in Themes |-> [ty \in FinalTypes |-> 0]]
  /\ outbox = {}
  /\ inflight = {}
  /\ upload = [u \in Uploads |-> [pc |-> "idle", on |-> None, kind |-> None, old |-> None]]
  /\ storage = {}
  /\ decided = [a \in Abstracts |-> 0]
  /\ printed = {}
  /\ leftDecided = {}

AuthorNext ==
  \E a \in Abstracts :
     \/ \E e \in Authors, ts \in SUBSET Themes : submitAbstract(a, e, ts) \/ editAbstract(a, e, ts)
     \/ \E u \in Uploads, kind \in Kinds : uploadAbstractFinalFile(u, a, kind)

CommitteeNext ==
  \/ \E r \in Reviewers :
       \/ addCommitteeMember(r)
       \/ removeCommitteeMember(r)
  \/ \E r \in PrefSetters, ts \in SUBSET Themes : setReviewerThemes(r, ts)
  \/ \E a \in Abstracts :
       \/ \E rs \in SUBSET Reviewers : assignReviewers(a, rs)
       \/ \E r \in Reviewers, s \in Scores : reviewAssignedAbstract(a, r, s)

AdminNext ==
  \/ \E a \in Abstracts :
       \/ \E d \in FINAL_STATUSES, ty \in FinalTypes \union {None}, t \in Themes :
            finalizeAbstract(a, d, ty, t)
       \/ reopenAbstract(a)
       \/ \E b \in BOOLEAN : markAbstractPresented(a, b)
  \/ \E t \in Themes :
       \/ \E o \in SortOrders, b \in BOOLEAN : createTheme(t, o, b) \/ updateTheme(t, o, b)
       \/ softDeleteTheme(t)
       \/ deleteUnusedTheme(t)
  \/ \E order \in Permuted : reorderThemes(order)

WriteNext ==
  \/ \E req \in inflight :
       \/ editAbstractTxn(req)
       \/ setReviewerThemesTxn(req)
       \/ assignReviewersTxn(req)
       \/ reviewAbstractTxn(req)
       \/ updateThemeRow(req)
  \/ \E u \in Uploads :
       \/ updateAbstractFinalFileTxn(u)
       \/ deleteNewFile(u)
       \/ deletePreviousFile(u)
       \/ uploadCrashes(u)

Next == AuthorNext \/ CommitteeNext \/ AdminNext \/ WriteNext

Spec == Init /\ [][Next]_vars

-----------------------------------------------------------------------------
(* Properties *)

(* What an abstract shows of its reviews is what its active reviews say,   *)
(* whichever of a score, a new assignment, a member's removal, a decision  *)
(* or a reopening came last: the average and count are those of the active *)
(* scored reviews, a complete review has every reviewer's score and an     *)
(* abstract shown as merely submitted has no reviewer.                     *)
AggregateFresh ==
  \A a \in Abstracts : Exists(a) =>
    /\ abs[a].averageScore = summarizeScores(review[a])
    /\ abs[a].reviewCount = Cardinality(Scored(review[a]))
    /\ abs[a].status = "REVIEW_COMPLETE" =>
         ActiveReviewers(review[a]) # {} /\ Scored(review[a]) = ActiveReviewers(review[a])
    /\ abs[a].status = "SUBMITTED" => ActiveReviewers(review[a]) = {}

(* On an open abstract only members of the committee review, even when a   *)
(* member is removed while an assignment that names him is on its way.     *)
(* The exception is a review left behind on an abstract that was decided   *)
(* when its reviewer left and that was reopened since.                     *)
ReviewersAreMembers ==
  \A a \in Abstracts : Exists(a) /\ ~Final(a) =>
    \A r \in ActiveReviewers(review[a]) : member[r] \/ <<a, r>> \in leftDecided

(* From a decision until the abstract is reopened its reviews, aggregate,  *)
(* content and themes stay as they were decided on, whatever reviews,      *)
(* assignments, edits and removals were already under way.                 *)
DecisionRecordKept ==
  [][\A a \in Abstracts :
       Exists(a) /\ Final(a) /\ abs'[a].status \in FINAL_STATUSES =>
         /\ review'[a] = review[a]
         /\ abs'[a] = [abs[a] EXCEPT !.presented = abs'[a].presented, !.file = abs'[a].file]]_vars

(* A theme's series of one type hands out each number once: a number is    *)
(* not given again after the abstract that had it was reopened, and no two *)
(* abstracts hold one code. Only an accepted abstract is coded or marked   *)
(* as presented.                                                           *)
CodesNotReissued ==
  /\ \A p, q \in printed :
       p.theme = q.theme /\ p.type = q.type /\ p.number = q.number => p = q
  /\ \A a, b \in Abstracts :
       a # b /\ Exists(a) /\ Exists(b) /\ abs[a].code # None => abs[a].code # abs[b].code
  /\ \A a \in Abstracts : Exists(a) =>
       /\ (abs[a].code # None) <=> (abs[a].status = "ACCEPTED")
       /\ abs[a].presented => abs[a].status = "ACCEPTED"

(* An acceptance in an active theme is refused for want of a free code     *)
(* only when the theme that numbered the abstract in its way was switched  *)
(* off, or moved to another sort order by an update that was checked       *)
(* before that number was given: two active themes never collide else.     *)
ActiveThemesNeverCollide ==
  \A a, b \in Abstracts, t \in ActiveThemes, ty \in FinalTypes :
    a # b /\ Exists(a) /\ ~Final(a) /\ CodeTheme(a, t)
          /\ Exists(b) /\ abs[b].code = allocateAbstractCode(t, ty) =>
      \E p \in printed :
         /\ p.on = b /\ p.decision = decided[b]
         /\ ~theme[p.theme].active \/ theme[p.theme].sortOrder # abs[b].code.sortOrder

(* The file an abstract refers to is in storage, however two uploads and   *)
(* the deletions after them interleave or crash, but for one case: the     *)
(* commit's answer was lost and the code, taking it for a failure, deleted *)
(* the object the row had just come to name.                               *)
StoredUnlessDiscarded ==
  \A a \in Abstracts : Exists(a) /\ abs[a].file # None =>
    abs[a].file \in storage \/ upload[abs[a].file].pc = "discarded"
=============================================================================
