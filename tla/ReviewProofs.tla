---------------------------- MODULE ReviewProofs ----------------------------
(***************************************************************************)
(* Proofs about AbstractReview, for every set of abstracts, authors,       *)
(* reviewers, themes, scores and uploads and any number of requests in     *)
(* flight.                                                                 *)
(*                                                                         *)
(* The invariant has a part for each pair of tables that must agree: the   *)
(* reviews and the stored aggregate, the links and the themes, the codes   *)
(* and their counters, the file column and the storage. Most actions write *)
(* one row and disturb one part: one lemma per part says which rows keep   *)
(* it, and an action's own lemma looks at the part it is about.            *)
(***************************************************************************)
EXTENDS AbstractReview, FiniteSetTheorems, WellFoundedInduction, TLAPS

EditRequests == [op : {"edit"}, on : Abstracts, author : Authors, themes : SUBSET Themes]
AssignRequests == [op : {"assign"}, on : Abstracts, reviewers : SUBSET Reviewers]
ReviewRequests == [op : {"review"}, on : Abstracts, reviewer : Reviewers, score : Scores]
PreferenceRequests == [op : {"themes"}, on : PrefSetters, themes : SUBSET Themes]
ThemeRequests == [op : {"theme"}, on : Themes, active : BOOLEAN, sortOrder : SortOrders \union {None}]

UploadRows ==
  [pc : {"idle", "stored", "written", "unanswered", "refused", "ended", "discarded"},
   on : Abstracts \union {None},
   kind : Kinds \union {None}, old : Uploads \union {None}]
PrintedRows ==
  [on : Abstracts, theme : Themes, type : FinalTypes, number : Nat, decision : Nat]

Shape ==
  /\ abs \in [Abstracts -> AbstractRows \union {None}]
  /\ review \in [Abstracts -> Sheets]
  /\ member \in [Reviewers -> BOOLEAN]
  /\ theme \in [Themes -> ThemeRows \union {None}]
  /\ counter \in [Themes -> [FinalTypes -> Nat]]
  /\ inflight \subseteq EditRequests \union AssignRequests \union ReviewRequests
                          \union PreferenceRequests \union ThemeRequests
  /\ upload \in [Uploads -> UploadRows]
  /\ decided \in [Abstracts -> Nat]
  /\ printed \subseteq PrintedRows

(* A request keeps its abstract: abstracts are not deleted *)
RequestsOn ==
  \A req \in inflight : req.op \in {"edit", "assign", "review"} => Exists(req.on)

(* AggregateFresh of one row and its review rows *)
Fresh(row, rows) ==
  /\ row.averageScore = summarizeScores(rows)
  /\ row.reviewCount = Cardinality(Scored(rows))
  /\ row.status = "REVIEW_COMPLETE" =>
       ActiveReviewers(rows) # {} /\ Scored(rows) = ActiveReviewers(rows)
  /\ row.status = "SUBMITTED" => ActiveReviewers(rows) = {}

(* Decided abstracts too: a reopening keeps the reviews *)
Reviewed(a) ==
  IF Exists(a)
  THEN /\ Fresh(abs[a], review[a])
       /\ \A r \in ActiveReviewers(review[a]) : member[r] \/ <<a, r>> \in leftDecided
  ELSE \A r \in Reviewers : review[a][r] = None

(* The links of an abstract keep their themes, and the unique index *)
ThemesLinked == \A a \in Abstracts : Exists(a) => \A t \in abs[a].themes : theme[t] # None
OrdersDistinct ==
  \A t, u \in ActiveThemes : theme[t].sortOrder = theme[u].sortOrder => t = u

CodedRow(row) ==
  /\ (row.code # None) <=> (row.status = "ACCEPTED")
  /\ row.presented => row.status = "ACCEPTED"

(* The number a code shows was printed by the decision that is in force *)
Backed(a) ==
  Exists(a) => CodedRow(abs[a]) /\ (abs[a].code # None =>
    \E p \in printed : p.on = a /\ p.decision = decided[a]
                         /\ p.type = abs[a].code.type /\ p.number = abs[a].code.number)

(* The counter of a series is where its numbers end; a theme that printed  *)
(* one is never deleted                                                    *)
Counted(p) == p.number >= 1 /\ p.number <= counter[p.theme][p.type] /\ theme[p.theme] # None

Series ==
  /\ \A a \in Abstracts : Backed(a)
  /\ \A p \in printed : Counted(p)
  /\ \A p, q \in printed : p.theme = q.theme /\ p.type = q.type /\ p.number = q.number => p = q
  /\ \A a, b \in Abstracts :
       a # b /\ Exists(a) /\ Exists(b) /\ abs[a].code # None => abs[a].code # abs[b].code
  /\ \E top \in Nat : \A p \in printed : p.number <= top

(* An upload past its write: its object may be the one a row names *)
Named(u) == upload[u].pc \in {"written", "unanswered", "ended", "discarded"}

(* The object is stored, or its own request deleted it after its commit *)
Available(u) == u \in storage \/ upload[u].pc = "discarded"

(* A row names an object its upload wrote to it, and an upload deletes     *)
(* only its own object, and another one that no row names any more         *)
Files ==
  /\ \A a \in Abstracts : Exists(a) /\ abs[a].file # None =>
       Available(abs[a].file) /\ Named(abs[a].file) /\ upload[abs[a].file].on = a
  /\ \A u \in Uploads :
       /\ upload[u].pc = "stored" =>
            u \in storage /\ upload[u].on \in Abstracts /\ Exists(upload[u].on)
       /\ upload[u].pc = "written" /\ upload[u].old # None =>
            Named(upload[u].old) /\ \A a \in Abstracts : Exists(a) => abs[a].file # upload[u].old

(* The inductive invariant *)
Inv ==
  /\ Shape /\ RequestsOn
  /\ \A a \in Abstracts : Reviewed(a)
  /\ ThemesLinked /\ OrdersDistinct
  /\ Series /\ Files

-----------------------------------------------------------------------------
(* Operators *)

LEMMA MaxOfBounded ==
  ASSUME NEW S \in SUBSET Nat, S # {}, NEW top \in Nat, \A x \in S : x <= top
  PROVE  Max(S) \in S /\ \A y \in S : Max(S) >= y
<1> DEFINE T == {top - x : x \in S}
           R == {ss \in Nat \X Nat : ss[1] < ss[2]}
<1>1. IsWellFoundedOn(R, Nat)
  BY NatLessThanWellFounded DEF OpToRel
<1>2. \A x \in S : top - x \in Nat
  OBVIOUS
<1>3. T \subseteq Nat /\ T # {}
  BY <1>2
<1>4. PICK m \in T : \A y \in T : ~(<<y, m>> \in R)
  <2> HIDE DEF T, R
  <2> QED BY <1>1, <1>3, WFMin
<1>5. PICK x \in S : m = top - x
  BY <1>4
<1>6. \A y \in S : x >= y
  <2> SUFFICES ASSUME NEW y \in S, y > x PROVE FALSE
    OBVIOUS
  <2>1. top - y \in T /\ top - y < m
    BY <1>5
  <2>2. QED
    BY <2>1, <1>3, <1>4
<1>7. QED
  BY <1>5, <1>6 DEF Max

LEMMA NoReviews ==
  ASSUME NEW rows \in Sheets, \A r \in Reviewers : rows[r] = None
  PROVE  /\ ActiveReviewers(rows) = {} /\ Scored(rows) = {}
         /\ summarizeScores(rows) = None /\ Cardinality(Scored(rows)) = 0
<1>1. ActiveReviewers(rows) = {}
  BY DEF ActiveReviewers
<1>2. Scored(rows) = {}
  BY <1>1 DEF Scored
<1>3. QED
  BY <1>1, <1>2, FS_EmptySet DEF summarizeScores

(* The one review of a sheet that a step writes *)
LEMMA SheetWritten ==
  ASSUME NEW rows \in Sheets, NEW r \in Reviewers, NEW row \in ReviewRows
  PROVE  LET next == [rows EXCEPT ![r] = row]
         IN  /\ next \in Sheets
             /\ ActiveReviewers(next) = IF row.active THEN ActiveReviewers(rows) \union {r}
                                        ELSE ActiveReviewers(rows) \ {r}
<1>1. [rows EXCEPT ![r] = row] \in Sheets /\ row # None
  BY AbstractConstants DEF Sheets
<1>2. QED
  BY <1>1 DEF ActiveReviewers, Sheets

(* deriveReviewStatus and applyReviewAggregate: the row is up to date      *)
LEMMA AggregateApplied ==
  ASSUME NEW a \in Abstracts, NEW rows \in Sheets, NEW has \in BOOLEAN,
         abs[a] \in AbstractRows, ~Final(a),
         has \/ abs[a].status # "SUBMITTED" \/ ActiveReviewers(rows) = {}
  PROVE  LET row == applyReviewAggregate(a, rows, has)
         IN  /\ row \in AbstractRows /\ Fresh(row, rows) /\ row.status \in Open
             /\ row.themes = abs[a].themes /\ row.code = abs[a].code
             /\ row.presented = abs[a].presented /\ row.file = abs[a].file
<1> DEFINE agg == computeReviewAggregate(rows)
           status == deriveReviewStatus(abs[a].status, has, agg.allScored)
           row == [abs[a] EXCEPT !.averageScore = agg.averageScore,
                                 !.reviewCount = agg.reviewCount, !.status = status]
<1>1. applyReviewAggregate(a, rows, has) = row
  BY DEF applyReviewAggregate, AbstractRows
<1>2. /\ agg.averageScore = summarizeScores(rows) /\ agg.reviewCount = Cardinality(Scored(rows))
      /\ agg.allScored <=> ActiveReviewers(rows) # {} /\ Scored(rows) = ActiveReviewers(rows)
  BY DEF computeReviewAggregate
<1>3. abs[a].status \in Open
  BY DEF AbstractRows, Final
<1>4. /\ status \in Open
      /\ status = "REVIEW_COMPLETE" => agg.allScored
      /\ status = "SUBMITTED" => ActiveReviewers(rows) = {}
  <2> HIDE DEF agg
  <2> QED BY <1>3, <1>2 DEF deriveReviewStatus, Open, FINAL_STATUSES
<1>5. /\ agg.averageScore \in {summarizeScores(s) : s \in Sheets}
      /\ agg.reviewCount \in {Cardinality(Scored(s)) : s \in Sheets}
  BY <1>2
<1>6. /\ row \in AbstractRows /\ row.status = status
      /\ row.averageScore = agg.averageScore /\ row.reviewCount = agg.reviewCount
      /\ row.themes = abs[a].themes /\ row.code = abs[a].code
      /\ row.presented = abs[a].presented /\ row.file = abs[a].file
  <2> HIDE DEF agg, status
  <2>1. status \in Open \union FINAL_STATUSES
    BY <1>4
  <2>2. QED
    BY <1>5, <2>1 DEF AbstractRows
<1>7. Fresh(row, rows)
  <2> HIDE DEF agg, status, row
  <2> QED BY <1>2, <1>4, <1>6 DEF Fresh
<1>8. QED
  <2> HIDE DEF row, status
  <2> QED BY <1>1, <1>4, <1>6, <1>7

-----------------------------------------------------------------------------
(* What one written row keeps *)

LEMMA RowWritten ==
  ASSUME Shape, NEW a \in Abstracts, NEW row \in AbstractRows, abs' = [abs EXCEPT ![a] = row]
  PROVE  /\ abs' \in [Abstracts -> AbstractRows \union {None}]
         /\ abs'[a] = row /\ Exists(a)'
         /\ \A b \in Abstracts : b # a => abs'[b] = abs[b]
         /\ \A b \in Abstracts : b # a => (Exists(b)' <=> Exists(b))
         /\ \A b \in Abstracts : Exists(b) => Exists(b)'
<1>1. abs' \in [Abstracts -> AbstractRows \union {None}] /\ abs'[a] = row
  BY DEF Shape
<1>2. \A b \in Abstracts : b # a => abs'[b] = abs[b]
  BY DEF Shape
<1>3. row # None
  BY AbstractConstants
<1>4. QED
  BY <1>1, <1>2, <1>3 DEF Exists

LEMMA ARow ==
  ASSUME Shape, NEW a \in Abstracts, Exists(a)
  PROVE  abs[a] \in AbstractRows
BY DEF Shape, Exists

LEMMA RequestsKept ==
  ASSUME Shape, RequestsOn, inflight' \subseteq inflight,
         \A a \in Abstracts : Exists(a) => Exists(a)'
  PROVE  RequestsOn'
<1> SUFFICES ASSUME NEW req \in inflight', req.op \in {"edit", "assign", "review"}
             PROVE  Exists(req.on)'
  BY DEF RequestsOn
<1>1. req \in EditRequests \union AssignRequests \union ReviewRequests
  BY DEF Shape, PreferenceRequests, ThemeRequests
<1>2. req.on \in Abstracts
  BY <1>1 DEF EditRequests, AssignRequests, ReviewRequests
<1>3. QED
  BY <1>2 DEF RequestsOn

LEMMA ReviewedKept ==
  ASSUME NEW a \in Abstracts, Reviewed(a), abs'[a] = abs[a], review'[a] = review[a],
         UNCHANGED <<member, leftDecided>>
  PROVE  Reviewed(a)'
BY DEF Reviewed, Exists

LEMMA ThemesKept ==
  ASSUME ThemesLinked, OrdersDistinct, theme' = theme,
         \A a \in Abstracts : Exists(a)' =>
           \/ Exists(a) /\ abs'[a].themes = abs[a].themes
           \/ \A t \in abs'[a].themes : theme[t] # None
  PROVE  ThemesLinked' /\ OrdersDistinct'
<1>1. ThemesLinked'
  BY DEF ThemesLinked
<1>2. OrdersDistinct'
  BY DEF OrdersDistinct, ActiveThemes
<1>3. QED
  BY <1>1, <1>2

LEMMA SeriesKept ==
  ASSUME Shape, Series, UNCHANGED <<counter, printed, decided>>,
         \A t \in Themes : theme[t] # None /\ (\E p \in printed : p.theme = t) => theme'[t] # None,
         \A a \in Abstracts : Exists(a)' => CodedRow(abs'[a]) /\
           (abs'[a].code = None \/ (Exists(a) /\ abs'[a].code = abs[a].code))
  PROVE  Series'
<1>1. ASSUME NEW a \in Abstracts PROVE Backed(a)'
  BY DEF Series, Backed
<1>2. ASSUME NEW p \in printed PROVE Counted(p)'
  <2>1. p.theme \in Themes /\ Counted(p)
    BY DEF Shape, PrintedRows, Series
  <2>2. QED
    BY <2>1 DEF Counted
<1>3. ASSUME NEW a \in Abstracts, NEW b \in Abstracts, a # b, Exists(a)', Exists(b)',
             abs'[a].code # None
      PROVE  abs'[a].code # abs'[b].code
  BY <1>3 DEF Series
<1>4. QED
  BY <1>1, <1>2, <1>3 DEF Series

LEMMA FilesKept ==
  ASSUME Shape, Files, UNCHANGED <<upload, storage>>,
         \A a \in Abstracts : Exists(a) => Exists(a)',
         \A a \in Abstracts : Exists(a)' =>
           abs'[a].file = None \/ (Exists(a) /\ abs'[a].file = abs[a].file)
  PROVE  Files'
<1>1. ASSUME NEW a \in Abstracts, Exists(a)', abs'[a].file # None
      PROVE  (Available(abs[a].file) /\ Named(abs[a].file) /\ upload[abs[a].file].on = a)'
  BY <1>1 DEF Files, Named, Available
<1>2. ASSUME NEW u \in Uploads, upload[u].pc = "stored"
      PROVE  u \in storage /\ upload[u].on \in Abstracts /\ Exists(upload[u].on)'
  <2>1. upload[u].on \in Abstracts /\ Exists(upload[u].on) /\ u \in storage
    BY <1>2 DEF Files
  <2>2. QED
    BY <2>1 DEF Exists
<1>3. ASSUME NEW u \in Uploads, upload[u].pc = "written", upload[u].old # None
      PROVE  Named(upload[u].old)' /\ \A a \in Abstracts : Exists(a)' => abs'[a].file # upload[u].old
  BY <1>3 DEF Files, Named
<1>4. QED
  BY <1>1, <1>2, <1>3 DEF Files

(* A step that writes at most one row, and its reviews, but neither a code *)
(* nor a file nor a theme                                                  *)
LEMMA OtherPartsKept ==
  ASSUME Inv, NEW a \in Abstracts, NEW row \in AbstractRows, Exists(a),
         abs' = [abs EXCEPT ![a] = row],
         \A t \in row.themes : theme[t] # None,
         CodedRow(row), row.code \in {None, abs[a].code}, row.file = abs[a].file,
         inflight' \subseteq inflight,
         UNCHANGED <<theme, counter, printed, decided, upload, storage>>
  PROVE  /\ RequestsOn' /\ ThemesLinked' /\ OrdersDistinct' /\ Series' /\ Files'
         /\ abs' \in [Abstracts -> AbstractRows \union {None}]
         /\ inflight' \subseteq EditRequests \union AssignRequests \union ReviewRequests
                                  \union PreferenceRequests \union ThemeRequests
<1>1. /\ abs' \in [Abstracts -> AbstractRows \union {None}]
      /\ abs'[a] = row /\ Exists(a)'
      /\ \A b \in Abstracts : b # a => abs'[b] = abs[b]
      /\ \A b \in Abstracts : b # a => (Exists(b)' <=> Exists(b))
      /\ \A b \in Abstracts : Exists(b) => Exists(b)'
  BY RowWritten DEF Inv
<1>2. RequestsOn'
  BY <1>1, RequestsKept DEF Inv
<1>3. ThemesLinked' /\ OrdersDistinct'
  BY <1>1, ThemesKept DEF Inv
<1>4. \A b \in Abstracts : Exists(b)' => CodedRow(abs'[b]) /\
        (abs'[b].code = None \/ (Exists(b) /\ abs'[b].code = abs[b].code))
  BY <1>1 DEF Inv, Series, Backed
<1>5. Series'
  BY <1>4, SeriesKept DEF Inv
<1>6. Files'
  BY <1>1, FilesKept DEF Inv
<1>7. QED
  BY <1>1, <1>2, <1>3, <1>5, <1>6 DEF Inv, Shape

-----------------------------------------------------------------------------
(* Requests on their way, and the author *)

LEMMA ShapeOfRequests ==
  ASSUME Shape, NEW req \in inflight
  PROVE  /\ req.op = "edit" => req \in EditRequests
         /\ req.op = "assign" => req \in AssignRequests
         /\ req.op = "review" => req \in ReviewRequests
         /\ req.op = "themes" => req \in PreferenceRequests
         /\ req.op = "theme" => req \in ThemeRequests
BY DEF Shape, EditRequests, AssignRequests, ReviewRequests, PreferenceRequests, ThemeRequests

(* A check writes nothing but its request *)
LEMMA BeginInv ==
  ASSUME Inv,
         NEW req \in EditRequests \union AssignRequests \union ReviewRequests
                       \union PreferenceRequests \union ThemeRequests,
         req.op \in {"edit", "assign", "review"} => Exists(req.on),
         Begin(req),
         UNCHANGED <<abs, review, member, theme, counter, upload, storage, decided, printed,
                     leftDecided>>
  PROVE  Inv'
<1>1. Shape' /\ RequestsOn'
  BY DEF Inv, Shape, RequestsOn, Begin, Exists
<1>2. \A a \in Abstracts : Reviewed(a)'
  BY ReviewedKept DEF Inv
<1>3. ThemesLinked' /\ OrdersDistinct'
  BY DEF Inv, ThemesLinked, OrdersDistinct, ActiveThemes, Exists
<1>4. Series'
  BY SeriesKept DEF Inv, Series, Backed, Exists
<1>5. Files'
  BY FilesKept DEF Inv, Exists
<1>6. QED
  BY <1>1, <1>2, <1>3, <1>4, <1>5 DEF Inv

LEMMA ChecksInv ==
  ASSUME Inv,
         \/ \E a \in Abstracts, e \in Authors, ts \in SUBSET Themes : editAbstract(a, e, ts)
         \/ \E r \in PrefSetters, ts \in SUBSET Themes : setReviewerThemes(r, ts)
         \/ \E a \in Abstracts, rs \in SUBSET Reviewers : assignReviewers(a, rs)
         \/ \E a \in Abstracts, r \in Reviewers, s \in Scores : reviewAssignedAbstract(a, r, s)
         \/ \E t \in Themes, o \in SortOrders, b \in BOOLEAN : updateTheme(t, o, b)
  PROVE  Inv'
<1>1. ASSUME NEW a \in Abstracts, NEW e \in Authors, NEW ts \in SUBSET Themes, editAbstract(a, e, ts)
      PROVE  Inv'
  <2> DEFINE req == [op |-> "edit", on |-> a, author |-> e, themes |-> ts]
  <2>1. req \in EditRequests /\ req.on = a
    BY DEF EditRequests
  <2>2. QED
    BY <1>1, <2>1, BeginInv DEF editAbstract
<1>2. ASSUME NEW r \in PrefSetters, NEW ts \in SUBSET Themes, setReviewerThemes(r, ts)
      PROVE  Inv'
  <2> DEFINE req == [op |-> "themes", on |-> r, themes |-> ts]
  <2>1. req \in PreferenceRequests /\ req.op = "themes"
    BY DEF PreferenceRequests
  <2>2. QED
    BY <1>2, <2>1, BeginInv DEF setReviewerThemes
<1>3. ASSUME NEW a \in Abstracts, NEW rs \in SUBSET Reviewers, assignReviewers(a, rs)
      PROVE  Inv'
  <2> DEFINE req == [op |-> "assign", on |-> a, reviewers |-> rs]
  <2>1. req \in AssignRequests /\ req.on = a
    BY DEF AssignRequests
  <2>2. QED
    BY <1>3, <2>1, BeginInv DEF assignReviewers
<1>4. ASSUME NEW a \in Abstracts, NEW r \in Reviewers, NEW s \in Scores, reviewAssignedAbstract(a, r, s)
      PROVE  Inv'
  <2> DEFINE req == [op |-> "review", on |-> a, reviewer |-> r, score |-> s]
  <2>1. req \in ReviewRequests /\ req.on = a
    BY DEF ReviewRequests
  <2>2. QED
    BY <1>4, <2>1, BeginInv DEF reviewAssignedAbstract
<1>5. ASSUME NEW t \in Themes, NEW o \in SortOrders, NEW b \in BOOLEAN, updateTheme(t, o, b)
      PROVE  Inv'
  <2> DEFINE req == [op |-> "theme", on |-> t, active |-> b,
                     sortOrder |-> IF o = theme[t].sortOrder THEN None ELSE o]
  <2>1. req \in ThemeRequests /\ req.op = "theme"
    BY DEF ThemeRequests
  <2>2. QED
    BY <1>5, <2>1, BeginInv DEF updateTheme
<1>6. QED
  BY <1>1, <1>2, <1>3, <1>4, <1>5

(* What an ended request without effect keeps, and a member added *)
LEMMA QuietInv ==
  ASSUME Inv, inflight' \subseteq inflight, member' \in [Reviewers -> BOOLEAN],
         \A r \in Reviewers : member[r] => member'[r],
         UNCHANGED <<abs, review, theme, counter, upload, storage, decided, printed, leftDecided>>
  PROVE  Inv'
<1>1. Shape'
  BY DEF Inv, Shape
<1>2. RequestsOn'
  BY RequestsKept DEF Inv, Exists
<1>3. \A a \in Abstracts : Reviewed(a)'
  BY DEF Inv, Reviewed, Exists, ActiveReviewers
<1>4. ThemesLinked' /\ OrdersDistinct'
  BY DEF Inv, ThemesLinked, OrdersDistinct, ActiveThemes, Exists
<1>5. Series'
  BY SeriesKept DEF Inv, Series, Backed, Exists
<1>6. Files'
  BY FilesKept DEF Inv, Exists
<1>7. QED
  BY <1>1, <1>2, <1>3, <1>4, <1>5, <1>6 DEF Inv

(* A step that writes one row only *)
LEMMA OneRowInv ==
  ASSUME Inv, NEW a \in Abstracts, NEW row \in AbstractRows, Exists(a),
         abs' = [abs EXCEPT ![a] = row],
         \A t \in row.themes : theme[t] # None,
         CodedRow(row), row.code \in {None, abs[a].code}, row.file = abs[a].file,
         Fresh(row, review[a]),
         inflight' \subseteq inflight,
         UNCHANGED <<review, member, leftDecided, theme, counter, printed, decided, upload, storage>>
  PROVE  Inv'
<1>1. abs'[a] = row /\ Exists(a)' /\ \A b \in Abstracts : b # a => abs'[b] = abs[b]
  BY RowWritten DEF Inv
<1>2. Reviewed(a)'
  BY <1>1 DEF Inv, Reviewed
<1>3. \A b \in Abstracts : Reviewed(b)'
  BY <1>1, <1>2, ReviewedKept DEF Inv
<1>4. QED
  BY <1>3, OtherPartsKept DEF Inv, Shape

LEMMA SubmitInv ==
  ASSUME Inv, NEW a \in Abstracts, NEW e \in Authors, NEW ts \in SUBSET Themes, submitAbstract(a, e, ts)
  PROVE  Inv'
<1> DEFINE row == [status |-> "SUBMITTED", author |-> e, themes |-> ts, version |-> 1,
                   averageScore |-> None, reviewCount |-> 0, finalType |-> None,
                   code |-> None, presented |-> FALSE, file |-> None]
<1>1. /\ review[a] \in Sheets /\ \A r \in Reviewers : review[a][r] = None
      /\ ~Exists(a)
  BY DEF Inv, Shape, Reviewed, submitAbstract
<1>2. /\ ActiveReviewers(review[a]) = {} /\ Scored(review[a]) = {}
      /\ summarizeScores(review[a]) = None /\ Cardinality(Scored(review[a])) = 0
  BY <1>1, NoReviews
<1>3. row \in AbstractRows
  <2>1. None \in {summarizeScores(rows) : rows \in Sheets} /\ 0 \in {Cardinality(Scored(rows)) : rows \in Sheets}
    BY <1>1, <1>2
  <2>2. QED
    BY <2>1 DEF AbstractRows, Open
<1>4. Fresh(row, review[a]) /\ CodedRow(row)
  BY <1>2 DEF Fresh, CodedRow
<1>5. row.code = None /\ row.file = None /\ row.themes = ts
  OBVIOUS
<1>6. abs' = [abs EXCEPT ![a] = row]
  BY DEF submitAbstract
<1> HIDE DEF row
<1>7. /\ abs' \in [Abstracts -> AbstractRows \union {None}]
      /\ abs'[a] = row /\ Exists(a)'
      /\ \A b \in Abstracts : b # a => abs'[b] = abs[b]
      /\ \A b \in Abstracts : b # a => (Exists(b)' <=> Exists(b))
      /\ \A b \in Abstracts : Exists(b) => Exists(b)'
  BY <1>3, <1>6, RowWritten DEF Inv
<1> USE DEF submitAbstract
<1>8. Shape' /\ RequestsOn'
  BY <1>7, RequestsKept DEF Inv, Shape
<1>9. Reviewed(a)'
  BY <1>2, <1>4, <1>7 DEF Reviewed
<1>10. \A b \in Abstracts : Reviewed(b)'
  BY <1>7, <1>9, ReviewedKept DEF Inv
<1>11. ThemesLinked' /\ OrdersDistinct'
  <2>1. \A t \in abs'[a].themes : theme[t] # None
    BY <1>5, <1>7 DEF validateThemes, ActiveThemes
  <2>2. \A b \in Abstracts : Exists(b)' =>
          \/ Exists(b) /\ abs'[b].themes = abs[b].themes
          \/ \A t \in abs'[b].themes : theme[t] # None
    BY <1>7, <2>1
  <2>3. theme' = theme
    OBVIOUS
  <2>4. QED
    BY <2>2, <2>3, ThemesKept DEF Inv
<1>12. Series'
  <2>1. \A b \in Abstracts : Exists(b)' => CodedRow(abs'[b]) /\
          (abs'[b].code = None \/ (Exists(b) /\ abs'[b].code = abs[b].code))
    BY <1>4, <1>5, <1>7 DEF Inv, Series, Backed
  <2>2. UNCHANGED <<theme, counter, printed, decided>>
    OBVIOUS
  <2>3. QED
    BY <2>1, <2>2, SeriesKept DEF Inv
<1>13. Files'
  BY <1>5, <1>7, FilesKept DEF Inv
<1>14. QED
  BY <1>8, <1>10, <1>11, <1>12, <1>13 DEF Inv

LEMMA EditInv ==
  ASSUME Inv, NEW req \in inflight, editAbstractTxn(req)
  PROVE  Inv'
<1>1. PICK a \in Abstracts : a = req.on
  BY ShapeOfRequests DEF Inv, editAbstractTxn, EditRequests
<1>2. req \in EditRequests /\ Exists(a)
  BY <1>1, ShapeOfRequests DEF Inv, RequestsOn, editAbstractTxn
<1>3. inflight' \subseteq inflight
  BY DEF editAbstractTxn
<1>4. CASE UNCHANGED abs
  BY <1>3, <1>4, QuietInv DEF editAbstractTxn, Inv, Shape
<1>5. ASSUME ~Final(a), \A t \in req.themes : theme[t] # None,
             abs' = [abs EXCEPT ![a].author = req.author, ![a].themes = req.themes,
                                ![a].version = abs[a].version + 1]
      PROVE  Inv'
  <2>1. abs[a] \in AbstractRows
    BY <1>2, ARow DEF Inv
  <2>2. PICK row : row = [abs[a] EXCEPT !.author = req.author, !.themes = req.themes,
                                        !.version = abs[a].version + 1]
    OBVIOUS
  <2>3. abs' = [abs EXCEPT ![a] = row]
    BY <1>5, <2>2 DEF Inv, Shape
  <2>4. /\ row \in AbstractRows /\ row.themes = req.themes
        /\ row.status = abs[a].status /\ row.averageScore = abs[a].averageScore
        /\ row.reviewCount = abs[a].reviewCount /\ row.code = abs[a].code
        /\ row.presented = abs[a].presented /\ row.file = abs[a].file
    <3>1. abs[a].version + 1 \in Int /\ req.author \in Authors /\ req.themes \in SUBSET Themes
      BY <1>2, <2>1 DEF AbstractRows, EditRequests
    <3>2. QED
      BY <2>1, <2>2, <3>1 DEF AbstractRows
  <2>5. Fresh(row, review[a]) /\ CodedRow(row)
    BY <1>2, <2>4 DEF Inv, Reviewed, Fresh, Series, Backed, CodedRow
  <2>6. QED
    BY <1>2, <1>3, <1>5, <2>3, <2>4, <2>5, OneRowInv DEF editAbstractTxn
<1>6. QED
  BY <1>1, <1>4, <1>5 DEF editAbstractTxn

-----------------------------------------------------------------------------
(* The committee *)

LEMMA PreferencesInv ==
  ASSUME Inv, NEW req \in inflight, setReviewerThemesTxn(req)
  PROVE  Inv'
BY QuietInv DEF setReviewerThemesTxn, Inv, Shape

LEMMA AddMemberInv ==
  ASSUME Inv, NEW r \in Reviewers, addCommitteeMember(r)
  PROVE  Inv'
<1>1. member' \in [Reviewers -> BOOLEAN] /\ \A q \in Reviewers : member[q] => member'[q]
  BY DEF addCommitteeMember, Inv, Shape
<1>2. QED
  BY <1>1, QuietInv DEF addCommitteeMember

(* The reviews of one abstract after its transaction, and the others'      *)
LEMMA SheetInv ==
  ASSUME Inv, NEW a \in Abstracts, NEW rows \in Sheets, NEW has \in BOOLEAN,
         Exists(a), ~Final(a),
         has \/ abs[a].status # "SUBMITTED" \/ ActiveReviewers(rows) = {},
         review' = [review EXCEPT ![a] = rows],
         abs' = [abs EXCEPT ![a] = applyReviewAggregate(a, rows, has)],
         inflight' \subseteq inflight,
         \A r \in ActiveReviewers(rows) : member[r] \/ <<a, r>> \in leftDecided',
         \A b \in Abstracts, r \in Reviewers :
           b # a => (<<b, r>> \in leftDecided => <<b, r>> \in leftDecided'),
         UNCHANGED <<member, theme, counter, printed, decided, upload, storage>>
  PROVE  Inv'
<1>1. abs[a] \in AbstractRows
  BY ARow DEF Inv
<1>2. PICK row : row = applyReviewAggregate(a, rows, has)
  OBVIOUS
<1>3. /\ row \in AbstractRows /\ Fresh(row, rows) /\ row.status \in Open
      /\ row.themes = abs[a].themes /\ row.code = abs[a].code
      /\ row.presented = abs[a].presented /\ row.file = abs[a].file
  BY <1>1, <1>2, AggregateApplied
<1>4. CodedRow(row) /\ \A t \in row.themes : theme[t] # None
  <2>1. CodedRow(abs[a]) /\ abs[a].status # "ACCEPTED"
    BY DEF Inv, Series, Backed, Final, FINAL_STATUSES
  <2>2. row.status # "ACCEPTED"
    BY <1>3 DEF Open
  <2>3. QED
    BY <1>3, <2>1, <2>2 DEF CodedRow, Inv, ThemesLinked
<1>5. abs' = [abs EXCEPT ![a] = row]
  BY <1>2
<1>6. /\ RequestsOn' /\ ThemesLinked' /\ OrdersDistinct' /\ Series' /\ Files'
      /\ abs' \in [Abstracts -> AbstractRows \union {None}]
      /\ inflight' \subseteq EditRequests \union AssignRequests \union ReviewRequests
                               \union PreferenceRequests \union ThemeRequests
  BY <1>3, <1>4, <1>5, OtherPartsKept
<1>7. review' \in [Abstracts -> Sheets] /\ review'[a] = rows
      /\ \A b \in Abstracts : b # a => review'[b] = review[b]
  BY DEF Inv, Shape
<1>8. /\ abs'[a] = row /\ Exists(a)'
      /\ \A b \in Abstracts : b # a => abs'[b] = abs[b]
  BY <1>3, <1>5, RowWritten DEF Inv
<1>9. Reviewed(a)'
  BY <1>3, <1>7, <1>8 DEF Reviewed
<1>10. ASSUME NEW b \in Abstracts, b # a PROVE Reviewed(b)'
  BY <1>7, <1>8, <1>10 DEF Inv, Reviewed, Exists, ActiveReviewers
<1>11. Shape'
  BY <1>6, <1>7 DEF Inv, Shape
<1>12. QED
  BY <1>6, <1>9, <1>10, <1>11 DEF Inv

LEMMA AssignInv ==
  ASSUME Inv, NEW req \in inflight, assignReviewersTxn(req)
  PROVE  Inv'
<1>1. PICK a \in Abstracts, rs \in SUBSET Reviewers : a = req.on /\ rs = req.reviewers
  BY ShapeOfRequests DEF Inv, assignReviewersTxn, AssignRequests
<1>2. Exists(a) /\ inflight' \subseteq inflight
  BY <1>1 DEF Inv, RequestsOn, assignReviewersTxn
<1>3. CASE UNCHANGED <<review, abs, leftDecided>>
  BY <1>2, <1>3, QuietInv DEF assignReviewersTxn, Inv, Shape
<1>4. ASSUME ~Final(a), lockActiveCommitteeMemberIds(rs) = rs,
             review' = ReplaceReviewers(a, rs),
             abs' = [abs EXCEPT ![a] = applyReviewAggregate(a, ReplaceReviewers(a, rs)[a], rs # {})],
             leftDecided' = leftDecided \ ({a} \X Reviewers)
      PROVE  Inv'
  <2> DEFINE Row(r) == CASE r \in rs \intersect ActiveReviewers(review[a]) -> review[a][r]
                         [] r \in rs \ (rs \intersect ActiveReviewers(review[a])) -> [active |-> TRUE, score |-> None]
                         [] r \notin rs /\ review[a][r] = None -> None
                         [] r \notin rs /\ review[a][r] # None -> [review[a][r] EXCEPT !.active = FALSE]
  <2>1. PICK rows : rows = [r \in Reviewers |-> Row(r)]
    OBVIOUS
  <2>2. review' = [review EXCEPT ![a] = rows] /\ ReplaceReviewers(a, rs)[a] = rows
    BY <1>4, <2>1 DEF ReplaceReviewers, Inv, Shape
  <2>3. review[a] \in Sheets
    BY DEF Inv, Shape
  <2>4. ASSUME NEW r \in Reviewers
        PROVE  /\ rows[r] \in ReviewRows \union {None}
               /\ (rows[r] # None /\ rows[r].active) <=> r \in rs
    <3>1. review[a][r] \in ReviewRows \union {None} /\ rows[r] = Row(r)
      BY <2>1, <2>3 DEF Sheets
    <3>2. CASE r \in rs \intersect ActiveReviewers(review[a])
      BY <3>1, <3>2 DEF ActiveReviewers
    <3>3. CASE r \in rs \ ActiveReviewers(review[a])
      <4>1. PICK new : new = [active |-> TRUE, score |-> None]
        OBVIOUS
      <4>2. new \in ReviewRows /\ new.active
        BY <4>1 DEF ReviewRows
      <4>3. rows[r] = new
        BY <3>1, <3>3, <4>1
      <4>4. QED
        BY <3>3, <4>2, <4>3, AbstractConstants
    <3>4. CASE r \notin rs /\ review[a][r] = None
      BY <3>1, <3>4
    <3>5. CASE r \notin rs /\ review[a][r] # None
      <4>1. PICK new : new = [review[a][r] EXCEPT !.active = FALSE]
        OBVIOUS
      <4>2. new \in ReviewRows /\ ~new.active
        BY <3>1, <3>5, <4>1 DEF ReviewRows
      <4>3. rows[r] = new
        BY <3>1, <3>5, <4>1
      <4>4. QED
        BY <3>5, <4>2, <4>3
    <3>6. QED
      BY <3>2, <3>3, <3>4, <3>5
  <2>5. rows \in Sheets /\ ActiveReviewers(rows) = rs
    BY <2>1, <2>4 DEF Sheets, ActiveReviewers
  <2>6. \A r \in rs : member[r]
    BY <1>4 DEF lockActiveCommitteeMemberIds
  <2>7. /\ abs' = [abs EXCEPT ![a] = applyReviewAggregate(a, rows, rs # {})]
        /\ (rs # {}) \in BOOLEAN /\ (rs # {} \/ ActiveReviewers(rows) = {})
    BY <1>4, <2>2, <2>5
  <2>8. \A b \in Abstracts, r \in Reviewers :
          b # a => (<<b, r>> \in leftDecided => <<b, r>> \in leftDecided')
    BY <1>4
  <2>9. UNCHANGED <<member, theme, counter, printed, decided, upload, storage>>
    BY DEF assignReviewersTxn
  <2>10. QED
    BY <1>2, <1>4, <2>2, <2>5, <2>6, <2>7, <2>8, <2>9, SheetInv
<1>5. QED
  BY <1>1, <1>3, <1>4 DEF assignReviewersTxn

LEMMA ReviewInv ==
  ASSUME Inv, NEW req \in inflight, reviewAbstractTxn(req)
  PROVE  Inv'
<1>1. PICK a \in Abstracts, r \in Reviewers, s \in Scores :
        a = req.on /\ r = req.reviewer /\ s = req.score
  BY ShapeOfRequests DEF Inv, reviewAbstractTxn, ReviewRequests
<1>2. Exists(a) /\ inflight' \subseteq inflight
  BY <1>1 DEF Inv, RequestsOn, reviewAbstractTxn
<1>3. CASE UNCHANGED <<review, abs>>
  BY <1>2, <1>3, QuietInv DEF reviewAbstractTxn, Inv, Shape
<1>4. ASSUME ~Final(a), r \in ActiveReviewers(review[a]),
             review' = [review EXCEPT ![a][r].score = s],
             abs' = [abs EXCEPT ![a] =
                       applyReviewAggregate(a, [review EXCEPT ![a][r].score = s][a], TRUE)]
      PROVE  Inv'
  <2>1. review[a] \in Sheets /\ review[a][r] \in ReviewRows /\ review[a][r].active
    BY <1>4 DEF Inv, Shape, Sheets, ActiveReviewers
  <2>2. PICK row : row = [review[a][r] EXCEPT !.score = s]
    OBVIOUS
  <2>3. row \in ReviewRows /\ row.active
    BY <2>1, <2>2 DEF ReviewRows
  <2>4. PICK rows : rows = [review[a] EXCEPT ![r] = row]
    OBVIOUS
  <2>5. rows \in Sheets /\ ActiveReviewers(rows) = ActiveReviewers(review[a])
    <3>1. PICK old : old = review[a]
      OBVIOUS
    <3>2. rows \in Sheets /\ ActiveReviewers(rows) = ActiveReviewers(old) \union {r}
      BY <2>1, <2>3, <2>4, <3>1, SheetWritten
    <3>3. QED
      BY <1>4, <3>1, <3>2
  <2>6. [review EXCEPT ![a][r].score = s] = [review EXCEPT ![a] = rows]
    BY <2>2, <2>4
  <2>7. [review EXCEPT ![a] = rows][a] = rows
    BY DEF Inv, Shape
  <2>8. \A q \in ActiveReviewers(rows) : member[q] \/ <<a, q>> \in leftDecided
    BY <1>2, <2>5 DEF Inv, Reviewed
  <2>9. QED
    BY <1>2, <1>4, <2>5, <2>6, <2>7, <2>8, SheetInv DEF reviewAbstractTxn
<1>5. QED
  BY <1>1, <1>3, <1>4 DEF reviewAbstractTxn

LEMMA RemoveMemberInv ==
  ASSUME Inv, NEW r \in Reviewers, removeCommitteeMember(r)
  PROVE  Inv'
<1> DEFINE touched(a) == Exists(a) /\ ~Final(a) /\ r \in ActiveReviewers(review[a])
<1>1. review' = [a \in Abstracts |-> IF touched(a) THEN [review[a] EXCEPT ![r].active = FALSE]
                                     ELSE review[a]]
  BY DEF removeCommitteeMember, deactivateReviewsOnOpenAbstracts
<1>2. ASSUME NEW a \in Abstracts
      PROVE  /\ review'[a] \in Sheets
             /\ ~touched(a) => review'[a] = review[a]
             /\ touched(a) => /\ ActiveReviewers(review'[a]) = ActiveReviewers(review[a]) \ {r}
                              /\ review'[a] # review[a]
  <2>1. review[a] \in Sheets
    BY DEF Inv, Shape
  <2>2. ASSUME touched(a)
        PROVE  /\ review'[a] \in Sheets
               /\ ActiveReviewers(review'[a]) = ActiveReviewers(review[a]) \ {r}
               /\ review'[a] # review[a]
    <3>1. review[a][r] \in ReviewRows /\ review[a][r].active
      BY <2>1, <2>2 DEF Sheets, ActiveReviewers
    <3>2. PICK row : row = [review[a][r] EXCEPT !.active = FALSE]
      OBVIOUS
    <3>3. row \in ReviewRows /\ ~row.active
      BY <3>1, <3>2 DEF ReviewRows
    <3>4. PICK old : old = review[a]
      OBVIOUS
    <3>5. review'[a] = [old EXCEPT ![r] = row]
      BY <1>1, <2>2, <3>2, <3>4
    <3>6. PICK rows : rows = [old EXCEPT ![r] = row]
      OBVIOUS
    <3>7. rows \in Sheets /\ ActiveReviewers(rows) = ActiveReviewers(old) \ {r}
      BY <2>1, <3>3, <3>4, <3>6, SheetWritten
    <3>8. QED
      BY <2>2, <3>4, <3>5, <3>6, <3>7
  <2>3. QED
    BY <1>1, <2>1, <2>2
<1>3. abs' = [a \in Abstracts |-> IF touched(a) THEN applyReviewAggregate(a, review'[a], FALSE)
                                  ELSE abs[a]]
  <2>1. review' = deactivateReviewsOnOpenAbstracts(r)
    BY DEF removeCommitteeMember
  <2>2. \A a \in Abstracts : (review'[a] # review[a]) <=> touched(a)
    BY <1>2
  <2>3. abs' = [a \in Abstracts |->
                  IF a \in {b \in Abstracts : review'[b] # review[b]}
                  THEN applyReviewAggregate(a, review'[a], FALSE) ELSE abs[a]]
    BY <2>1 DEF removeCommitteeMember
  <2> HIDE DEF touched
  <2>4. QED
    BY <2>2, <2>3
<1>4. ASSUME NEW a \in Abstracts
      PROVE  /\ Exists(a)' <=> Exists(a)
             /\ ~touched(a) => abs'[a] = abs[a]
             /\ touched(a) =>
                  /\ abs'[a] \in AbstractRows /\ Fresh(abs'[a], review'[a])
                  /\ abs'[a].status \in Open /\ abs'[a].themes = abs[a].themes
                  /\ abs'[a].code = abs[a].code /\ abs'[a].presented = abs[a].presented
                  /\ abs'[a].file = abs[a].file
  <2>1. CASE ~touched(a)
    BY <1>3, <2>1 DEF Exists
  <2>2. CASE touched(a)
    <3>1. abs[a] \in AbstractRows
      BY <2>2, ARow DEF Inv
    <3>2. abs[a].status # "SUBMITTED"
      BY <2>2 DEF Inv, Reviewed, Fresh
    <3>3. PICK rows \in Sheets : rows = review'[a]
      BY <1>2
    <3>4. PICK row : row = applyReviewAggregate(a, rows, FALSE)
      OBVIOUS
    <3>5. abs'[a] = row
      BY <1>3, <2>2, <3>3, <3>4
    <3>6. /\ row \in AbstractRows /\ Fresh(row, rows) /\ row.status \in Open
          /\ row.themes = abs[a].themes /\ row.code = abs[a].code
          /\ row.presented = abs[a].presented /\ row.file = abs[a].file
      BY <2>2, <3>1, <3>2, <3>4, AggregateApplied
    <3>7. QED
      BY <2>2, <3>3, <3>5, <3>6, AbstractConstants DEF Exists
  <2>3. QED
    BY <2>1, <2>2
<1>5. /\ member' = [member EXCEPT ![r] = FALSE]
      /\ UNCHANGED <<theme, counter, inflight, upload, storage, decided, printed>>
      /\ leftDecided' = leftDecided \union
           {<<a, r>> : a \in {b \in Abstracts : Exists(b) /\ r \in ActiveReviewers(review'[b])}}
  BY DEF removeCommitteeMember
<1> HIDE DEF touched
<1>6. Shape'
  <2>1. abs' \in [Abstracts -> AbstractRows \union {None}]
    BY <1>3, <1>4 DEF Inv, Shape
  <2>2. review' \in [Abstracts -> Sheets]
    BY <1>1, <1>2
  <2>3. QED
    BY <1>5, <2>1, <2>2 DEF Inv, Shape
<1>7. RequestsOn'
  BY <1>4, <1>5, RequestsKept DEF Inv
<1>8. ASSUME NEW a \in Abstracts PROVE Reviewed(a)'
  <2>1. Exists(a) => Fresh(abs'[a], review'[a])
    BY <1>2, <1>4 DEF Inv, Reviewed
  <2>2. ActiveReviewers(review'[a]) \subseteq ActiveReviewers(review[a])
    BY <1>2
  <2>3. ASSUME Exists(a), NEW q \in ActiveReviewers(review'[a])
        PROVE  member'[q] \/ <<a, q>> \in leftDecided'
    <3>1. q \in Reviewers /\ (member[q] \/ <<a, q>> \in leftDecided)
      BY <2>2, <2>3 DEF Inv, Reviewed, ActiveReviewers
    <3>2. CASE q = r
      BY <1>5, <2>3, <3>2
    <3>3. CASE q # r
      BY <1>5, <3>1, <3>3 DEF Inv, Shape
    <3>4. QED
      BY <3>2, <3>3
  <2>4. ~Exists(a) => \A q \in Reviewers : review'[a][q] = None
    BY <1>2 DEF Inv, Reviewed, touched
  <2>5. QED
    BY <1>4, <2>1, <2>3, <2>4 DEF Reviewed
<1>9. \A a \in Abstracts : Exists(a)' =>
        /\ Exists(a) /\ abs'[a].themes = abs[a].themes
        /\ CodedRow(abs'[a]) /\ abs'[a].code = abs[a].code /\ abs'[a].file = abs[a].file
  <2> SUFFICES ASSUME NEW a \in Abstracts, Exists(a)', touched(a)
               PROVE  Exists(a) /\ CodedRow(abs'[a])
    BY <1>4 DEF Inv, Series, Backed
  <2>1. Exists(a) /\ CodedRow(abs[a]) /\ abs[a].status # "ACCEPTED"
    BY DEF Inv, Series, Backed, touched, Final, FINAL_STATUSES
  <2>2. abs'[a].status # "ACCEPTED"
    BY <1>4 DEF Open
  <2>3. QED
    BY <1>4, <2>1, <2>2 DEF CodedRow
<1>10. ThemesLinked' /\ OrdersDistinct'
  BY <1>5, <1>9, ThemesKept DEF Inv
<1>11. Series'
  BY <1>5, <1>9, SeriesKept DEF Inv
<1>12. Files'
  BY <1>4, <1>5, <1>9, FilesKept DEF Inv
<1>13. QED
  BY <1>6, <1>7, <1>8, <1>10, <1>11, <1>12 DEF Inv

-----------------------------------------------------------------------------
(* Decisions *)

(* The number of a new code is above every number of its series *)
LEMMA CodeAllocated ==
  ASSUME Inv, NEW t \in Themes, NEW ty \in FinalTypes, theme[t] # None
  PROVE  LET code == allocateAbstractCode(t, ty)
         IN  /\ code \in CodeRows /\ code.number >= 1
             /\ code.type = ty /\ code.sortOrder = theme[t].sortOrder
             /\ \A p \in printed : p.theme = t /\ p.type = ty => p.number < code.number
<1> DEFINE used == {abs[b].code.number : b \in {x \in Abstracts :
                      Exists(x) /\ abs[x].finalType = ty /\ abs[x].code # None /\ t \in abs[x].themes}}
           number == IF counter[t][ty] = 0 THEN Max({0} \union used) + 1 ELSE counter[t][ty] + 1
           code == [number |-> number, type |-> ty, sortOrder |-> theme[t].sortOrder]
<1>1. allocateAbstractCode(t, ty) = code
  BY DEF allocateAbstractCode
<1>2. counter[t][ty] \in Nat /\ theme[t].sortOrder \in Int
  BY DEF Inv, Shape, ThemeRows
<1>3. PICK top \in Nat : \A p \in printed : p.number <= top
  BY DEF Inv, Series
<1>4. \A n \in {0} \union used : n \in Nat /\ n <= top
  <2> SUFFICES ASSUME NEW b \in Abstracts, Exists(b), abs[b].code # None
               PROVE  abs[b].code.number \in Nat /\ abs[b].code.number <= top
    BY <1>3
  <2>1. PICK p \in printed : p.number = abs[b].code.number
    BY DEF Inv, Series, Backed
  <2>2. p.number \in Nat
    BY DEF Inv, Shape, PrintedRows
  <2>3. QED
    BY <1>3, <2>1, <2>2
<1>5. Max({0} \union used) \in Nat
  <2>1. PICK S : S = {0} \union used
    OBVIOUS
  <2>2. S \in SUBSET Nat /\ S # {} /\ \A n \in S : n <= top
    BY <1>4, <2>1
  <2>3. Max(S) \in S
    BY <1>3, <2>2, MaxOfBounded
  <2>4. QED
    BY <2>1, <2>2, <2>3
<1>6. number \in Nat /\ number >= 1 /\ number > counter[t][ty]
  <2> HIDE DEF used
  <2> QED BY <1>2, <1>5
<1>7. \A p \in printed : p.theme = t /\ p.type = ty => p.number < number
  <2> HIDE DEF number
  <2> TAKE p \in printed
  <2>1. Counted(p) /\ p.number \in Nat
    BY DEF Inv, Series, Shape, PrintedRows
  <2>2. QED
    BY <1>2, <1>6, <2>1 DEF Counted
<1>8. code \in CodeRows
  <2> HIDE DEF number
  <2> QED BY <1>2, <1>6 DEF CodeRows
<1>9. QED
  <2> HIDE DEF number
  <2> QED BY <1>1, <1>6, <1>7, <1>8

LEMMA ThemeOfCode ==
  ASSUME Inv, NEW a \in Abstracts, Exists(a), NEW t \in Themes, CodeTheme(a, t)
  PROVE  theme[t] # None
BY DEF Inv, ThemesLinked, CodeTheme

LEMMA FinalizeInv ==
  ASSUME Inv, NEW a \in Abstracts, NEW decision \in FINAL_STATUSES,
         NEW ty \in FinalTypes \union {None}, NEW t \in Themes, finalizeAbstract(a, decision, ty, t)
  PROVE  Inv'
<1> DEFINE accepted == decision = "ACCEPTED"
           code == allocateAbstractCode(t, ty)
           new == [on |-> a, theme |-> t, type |-> ty, number |-> code.number,
                   decision |-> decided[a] + 1]
<1>1. /\ Exists(a) /\ ~Final(a) /\ CodeTheme(a, t) /\ (accepted <=> ty # None)
      /\ accepted => ~CodeTaken(a, code)
      /\ counter' = IF accepted THEN [counter EXCEPT ![t][ty] = code.number] ELSE counter
      /\ printed' = IF accepted THEN printed \union {new} ELSE printed
      /\ decided' = [decided EXCEPT ![a] = decided[a] + 1]
      /\ UNCHANGED <<review, member, theme, inflight, upload, storage, leftDecided>>
  BY DEF finalizeAbstract, Inv, Shape
<1>2. abs[a] \in AbstractRows /\ theme[t] # None
  BY <1>1, ARow, ThemeOfCode DEF Inv
<1>3. accepted => /\ ty \in FinalTypes /\ code \in CodeRows /\ code.number >= 1 /\ code.type = ty
                  /\ \A p \in printed : p.theme = t /\ p.type = ty => p.number < code.number
  BY <1>1, <1>2, CodeAllocated
<1> HIDE DEF code
<1>4. PICK given : given = IF accepted THEN code ELSE None
  OBVIOUS
<1>5. PICK row : row = [abs[a] EXCEPT !.status = decision, !.finalType = ty, !.code = given]
  OBVIOUS
<1>6. abs' = [abs EXCEPT ![a] = row]
  BY <1>4, <1>5 DEF finalizeAbstract, code, Inv, Shape
<1>7. /\ row \in AbstractRows /\ row.status = decision /\ row.code = given
      /\ row.averageScore = abs[a].averageScore /\ row.reviewCount = abs[a].reviewCount
      /\ row.themes = abs[a].themes /\ row.presented = abs[a].presented /\ row.file = abs[a].file
  <2>1. given \in CodeRows \union {None} /\ decision \in Open \union FINAL_STATUSES
    BY <1>3, <1>4
  <2>2. QED
    BY <1>2, <1>5, <2>1 DEF AbstractRows
<1>8. CodedRow(row)
  <2>1. CodedRow(abs[a]) /\ abs[a].status # "ACCEPTED"
    BY <1>1 DEF Inv, Series, Backed, Final, FINAL_STATUSES
  <2>2. QED
    BY <1>3, <1>4, <1>7, <2>1, AbstractConstants DEF CodedRow
<1>9. /\ abs' \in [Abstracts -> AbstractRows \union {None}]
      /\ abs'[a] = row /\ Exists(a)'
      /\ \A b \in Abstracts : b # a => abs'[b] = abs[b]
      /\ \A b \in Abstracts : b # a => (Exists(b)' <=> Exists(b))
      /\ \A b \in Abstracts : Exists(b) => Exists(b)'
  BY <1>6, <1>7, RowWritten DEF Inv
<1>10. decided' \in [Abstracts -> Nat] /\ \A b \in Abstracts : b # a => decided'[b] = decided[b]
  BY <1>1 DEF Inv, Shape
<1>11. ASSUME accepted
       PROVE  /\ new \in PrintedRows /\ counter' \in [Themes -> [FinalTypes -> Nat]]
              /\ counter'[t][ty] = code.number
              /\ \A u \in Themes, k \in FinalTypes :
                   (u # t \/ k # ty) => counter'[u][k] = counter[u][k]
  <2>1. code.number \in Nat /\ ty \in FinalTypes /\ decided[a] + 1 \in Nat
    BY <1>3, <1>11 DEF CodeRows, Inv, Shape
  <2>2. PICK number \in Nat : number = code.number
    BY <2>1
  <2>3. counter' = [counter EXCEPT ![t] = [counter[t] EXCEPT ![ty] = number]]
    BY <1>1, <1>11, <2>2 DEF Inv, Shape
  <2>4. counter \in [Themes -> [FinalTypes -> Nat]]
    BY DEF Inv, Shape
  <2>5. new \in PrintedRows
    BY <2>1 DEF PrintedRows
  <2> HIDE DEF new, accepted
  <2>6. QED
    BY <2>1, <2>2, <2>3, <2>4, <2>5
<1>12. Shape'
  <2> HIDE DEF new, accepted
  <2>1. printed' \subseteq PrintedRows /\ counter' \in [Themes -> [FinalTypes -> Nat]]
    BY <1>1, <1>11 DEF Inv, Shape
  <2>2. QED
    BY <1>1, <1>9, <1>10, <2>1 DEF Inv, Shape
<1>13. RequestsOn'
  BY <1>1, <1>9, RequestsKept DEF Inv
<1>14. \A b \in Abstracts : Reviewed(b)'
  <2>1. Fresh(row, review[a])
    BY <1>1, <1>7 DEF Inv, Reviewed, Fresh, FINAL_STATUSES
  <2>2. Reviewed(a)'
    BY <1>1, <1>9, <2>1 DEF Inv, Reviewed
  <2>3. QED
    BY <1>1, <1>9, <2>2, ReviewedKept DEF Inv
<1>15. ThemesLinked' /\ OrdersDistinct'
  BY <1>1, <1>7, <1>9, ThemesKept DEF Inv
<1>16. Files'
  BY <1>1, <1>7, <1>9, FilesKept DEF Inv
<1>17. Series'
  <2>1. ASSUME NEW b \in Abstracts PROVE Backed(b)'
    <3>1. CASE b # a
      <4>1. Backed(b)
        BY DEF Inv, Series
      <4>2. printed \subseteq printed'
        BY <1>1
      <4>3. QED
        BY <1>9, <1>10, <3>1, <4>1, <4>2 DEF Backed
    <3>2. CASE b = a /\ ~accepted
      BY <1>4, <1>7, <1>8, <1>9, <3>2 DEF Backed
    <3>3. CASE b = a /\ accepted
      <4>1. /\ new \in printed' /\ new.on = a /\ new.decision = decided'[a]
            /\ new.type = code.type /\ new.number = code.number
        BY <1>1, <1>3, <3>3 DEF Inv, Shape
      <4>2. abs'[a].code = code
        BY <1>4, <1>7, <1>9, <3>3
      <4>3. QED
        BY <1>8, <1>9, <3>3, <4>1, <4>2 DEF Backed
    <3>4. QED
      BY <3>1, <3>2, <3>3
  <2>2. ASSUME NEW p \in printed PROVE Counted(p)'
    <3>1. /\ Counted(p) /\ p.theme \in Themes /\ p.type \in FinalTypes /\ p.number \in Nat
          /\ counter[p.theme][p.type] \in Nat
      BY DEF Inv, Series, Shape, PrintedRows
    <3>2. p.number <= counter'[p.theme][p.type]
      <4>1. CASE ~accepted
        BY <1>1, <3>1, <4>1 DEF Counted
      <4>2. CASE accepted /\ p.theme = t /\ p.type = ty
        BY <1>3, <1>11, <3>1, <4>2 DEF CodeRows
      <4>3. CASE accepted /\ (p.theme # t \/ p.type # ty)
        BY <1>11, <3>1, <4>3 DEF Counted
      <4>4. QED
        BY <4>1, <4>2, <4>3
    <3>3. QED
      BY <1>1, <3>1, <3>2 DEF Counted
  <2>3. ASSUME accepted, NEW p, p = new PROVE Counted(p)'
    <3>1. p.theme = t /\ p.type = ty /\ p.number = code.number
      BY <2>3
    <3>2. code.number \in Nat
      BY <1>3, <2>3 DEF CodeRows
    <3>3. QED
      BY <1>1, <1>2, <1>3, <1>11, <2>3, <3>1, <3>2 DEF Counted
  <2>4. ASSUME NEW p \in printed', NEW q \in printed',
               p.theme = q.theme, p.type = q.type, p.number = q.number
        PROVE  p = q
    <3>1. ASSUME NEW x \in printed, accepted, x.theme = t, x.type = ty PROVE x.number # code.number
      <4>1. x.number \in Nat /\ code.number \in Nat /\ x.number < code.number
        BY <1>3, <3>1 DEF CodeRows, Inv, Shape, PrintedRows
      <4>2. QED
        BY <4>1
    <3>2. new.theme = t /\ new.type = ty /\ new.number = code.number
      OBVIOUS
    <3> HIDE DEF new, accepted
    <3>3. CASE p \in printed /\ q \in printed
      BY <2>4, <3>3 DEF Inv, Series
    <3>4. CASE accepted /\ (p = new \/ q = new)
      BY <1>1, <2>4, <3>1, <3>2, <3>4
    <3>5. QED
      BY <1>1, <3>3, <3>4
  <2>5. ASSUME NEW b \in Abstracts, NEW c \in Abstracts, b # c, Exists(b)', Exists(c)',
               abs'[b].code # None
        PROVE  abs'[b].code # abs'[c].code
    <3>1. CASE b # a /\ c # a
      BY <1>9, <2>5, <3>1 DEF Inv, Series
    <3>2. ASSUME NEW x \in Abstracts \ {a}, Exists(x), row.code # None PROVE abs[x].code # row.code
      BY <1>1, <1>4, <1>7, <3>2 DEF CodeTaken
    <3>3. QED
      BY <1>9, <2>5, <3>1, <3>2
  <2>6. \E top \in Nat : \A p \in printed' : p.number <= top
    <3>1. PICK top \in Nat : \A p \in printed : p.number <= top
      BY DEF Inv, Series
    <3>2. CASE ~accepted
      BY <1>1, <3>1, <3>2
    <3>3. CASE accepted
      <4>1. PICK n \in Nat : n = code.number
        BY <1>3, <3>3 DEF CodeRows
      <4>2. new.number = n /\ printed' = printed \union {new}
        BY <1>1, <3>3, <4>1
      <4>3. \A p \in printed : p.number \in Nat
        BY DEF Inv, Shape, PrintedRows
      <4> HIDE DEF new
      <4>4. \A p \in printed' : p.number <= top + n
        BY <3>1, <4>2, <4>3
      <4>5. top + n \in Nat
        OBVIOUS
      <4>6. QED
        BY <4>4, <4>5
    <3>4. QED
      BY <3>2, <3>3
  <2>7. ASSUME NEW p \in printed' PROVE Counted(p)'
    <3>1. p \in printed \/ (accepted /\ p = new)
      BY <1>1
    <3>2. QED
      BY <2>2, <2>3, <3>1
  <2>8. QED
    BY <2>1, <2>4, <2>5, <2>6, <2>7 DEF Series
<1>18. QED
  BY <1>12, <1>13, <1>14, <1>15, <1>16, <1>17 DEF Inv

LEMMA ReopenInv ==
  ASSUME Inv, NEW a \in Abstracts, reopenAbstract(a)
  PROVE  Inv'
<1>1. PICK status \in Open :
        /\ status = IF ActiveReviewers(review[a]) # {} THEN "UNDER_REVIEW" ELSE "SUBMITTED"
        /\ status # "REVIEW_COMPLETE"
  BY DEF Open
<1>2. PICK row : row = [abs[a] EXCEPT !.status = status, !.finalType = None, !.code = None,
                                      !.presented = FALSE]
  OBVIOUS
<1>3. abs' = [abs EXCEPT ![a] = row] /\ Exists(a)
  BY <1>1, <1>2 DEF reopenAbstract, Inv, Shape
<1>4. abs[a] \in AbstractRows
  BY <1>3, ARow DEF Inv
<1>5. /\ row \in AbstractRows /\ row.status = status /\ row.code = None /\ row.presented = FALSE
      /\ row.averageScore = abs[a].averageScore /\ row.reviewCount = abs[a].reviewCount
      /\ row.themes = abs[a].themes /\ row.file = abs[a].file
  BY <1>2, <1>4 DEF AbstractRows
<1>6. Fresh(row, review[a]) /\ CodedRow(row)
  BY <1>1, <1>3, <1>5 DEF Inv, Reviewed, Fresh, CodedRow, Open
<1>7. \A t \in row.themes : theme[t] # None
  BY <1>3, <1>5 DEF Inv, ThemesLinked
<1>8. QED
  BY <1>3, <1>5, <1>6, <1>7, OneRowInv DEF reopenAbstract

LEMMA PresentedInv ==
  ASSUME Inv, NEW a \in Abstracts, NEW b \in BOOLEAN, markAbstractPresented(a, b)
  PROVE  Inv'
<1>1. PICK row : row = [abs[a] EXCEPT !.presented = b]
  OBVIOUS
<1>2. abs' = [abs EXCEPT ![a] = row] /\ Exists(a) /\ abs[a].status = "ACCEPTED"
  BY <1>1 DEF markAbstractPresented, Inv, Shape
<1>3. abs[a] \in AbstractRows
  BY <1>2, ARow DEF Inv
<1>4. /\ row \in AbstractRows /\ row.status = abs[a].status /\ row.code = abs[a].code
      /\ row.averageScore = abs[a].averageScore /\ row.reviewCount = abs[a].reviewCount
      /\ row.themes = abs[a].themes /\ row.file = abs[a].file
  BY <1>1, <1>3 DEF AbstractRows
<1>5. Fresh(row, review[a]) /\ CodedRow(row)
  BY <1>2, <1>4 DEF Inv, Reviewed, Fresh, Series, Backed, CodedRow
<1>6. \A t \in row.themes : theme[t] # None
  BY <1>2, <1>4 DEF Inv, ThemesLinked
<1>7. QED
  BY <1>2, <1>4, <1>5, <1>6, OneRowInv DEF markAbstractPresented

-----------------------------------------------------------------------------
(* The final file *)

(* What an upload keeps that writes no row and deletes no named object *)
LEMMA UploadInv ==
  ASSUME Inv, upload' \in [Uploads -> UploadRows], Files',
         UNCHANGED <<abs, review, member, theme, counter, inflight, decided, printed, leftDecided>>
  PROVE  Inv'
<1>1. Shape' /\ RequestsOn'
  BY DEF Inv, Shape, RequestsOn, Exists
<1>2. \A a \in Abstracts : Reviewed(a)'
  BY ReviewedKept DEF Inv
<1>3. ThemesLinked' /\ OrdersDistinct'
  BY DEF Inv, ThemesLinked, OrdersDistinct, ActiveThemes, Exists
<1>4. Series'
  BY SeriesKept DEF Inv, Series, Backed, Exists
<1>5. QED
  BY <1>1, <1>2, <1>3, <1>4 DEF Inv

LEMMA StoreInv ==
  ASSUME Inv, NEW u \in Uploads, NEW a \in Abstracts, NEW kind \in Kinds,
         uploadAbstractFinalFile(u, a, kind)
  PROVE  Inv'
<1>1. PICK up : up = [pc |-> "stored", on |-> a, kind |-> kind, old |-> None]
  OBVIOUS
<1>2. up \in UploadRows /\ up.pc = "stored" /\ up.on = a
  BY <1>1 DEF UploadRows
<1>3. /\ upload[u].pc = "idle" /\ Exists(a) /\ upload' = [upload EXCEPT ![u] = up]
      /\ storage' = storage \union {u} /\ abs' = abs
  BY <1>1 DEF uploadAbstractFinalFile, assertUploadWindowOpen
<1>4. /\ upload' \in [Uploads -> UploadRows] /\ upload'[u] = up
      /\ \A v \in Uploads : v # u => upload'[v] = upload[v]
  BY <1>2, <1>3 DEF Inv, Shape
<1>5. Files'
  <2>1. ASSUME NEW b \in Abstracts, Exists(b), abs[b].file # None
        PROVE  (Available(abs[b].file) /\ Named(abs[b].file) /\ upload[abs[b].file].on = b)'
    <3>1. PICK f \in Uploads : f = abs[b].file
      BY <2>1, ARow DEF Inv, AbstractRows
    <3>2. Available(f) /\ Named(f) /\ upload[f].on = b
      BY <2>1, <3>1 DEF Inv, Files
    <3>3. f # u
      BY <1>3, <3>2 DEF Named
    <3>4. QED
      BY <1>3, <1>4, <3>1, <3>2, <3>3 DEF Named, Available
  <2>2. ASSUME NEW v \in Uploads, upload'[v].pc = "stored"
        PROVE  v \in storage' /\ (upload[v].on \in Abstracts /\ Exists(upload[v].on))'
    BY <1>2, <1>3, <1>4, <2>2 DEF Inv, Files, Exists
  <2>3. ASSUME NEW v \in Uploads, upload'[v].pc = "written", upload'[v].old # None
        PROVE  Named(upload[v].old)' /\ \A b \in Abstracts : Exists(b) => abs[b].file # upload'[v].old
    <3>1. v # u
      BY <1>2, <1>4, <2>3
    <3>2. PICK f \in Uploads : f = upload[v].old
      BY <1>4, <2>3, <3>1 DEF Inv, Shape, UploadRows
    <3>3. upload'[v].old = f /\ Named(f) /\ \A b \in Abstracts : Exists(b) => abs[b].file # f
      BY <1>4, <2>3, <3>1, <3>2 DEF Inv, Files
    <3>4. f # u
      BY <1>3, <3>3 DEF Named
    <3>5. QED
      BY <1>4, <3>3, <3>4 DEF Named
  <2>4. QED
    BY <1>3, <2>1, <2>2, <2>3 DEF Files, Exists
<1>6. QED
  BY <1>4, <1>5, UploadInv DEF uploadAbstractFinalFile

(* An upload that ends or is refused: its own object goes while no row     *)
(* names it or in the catch after a lost answer, or the one it replaced    *)
(* goes                                                                    *)
LEMMA EndUploadInv ==
  ASSUME Inv, NEW u \in Uploads, NEW pc \in {"refused", "ended", "discarded"},
         upload[u].pc \in {"stored", "written", "unanswered", "refused"},
         upload' = [upload EXCEPT ![u].pc = pc],
         pc = "refused" => upload[u].pc = "stored",
         \/ storage' = storage /\ pc # "discarded"
         \/ upload[u].pc = "refused" /\ pc = "ended" /\ storage' = storage \ {u}
         \/ upload[u].pc = "unanswered" /\ pc = "discarded" /\ storage' = storage \ {u}
         \/ upload[u].pc = "written" /\ pc = "ended" /\ storage' = storage \ {upload[u].old},
         UNCHANGED <<abs, review, member, theme, counter, inflight, decided, printed, leftDecided>>
  PROVE  Inv'
<1>1. PICK up : up = [upload[u] EXCEPT !.pc = pc]
  OBVIOUS
<1>2. up \in UploadRows /\ up.pc = pc /\ up.on = upload[u].on /\ up.old = upload[u].old
  BY <1>1 DEF Inv, Shape, UploadRows
<1>3. /\ upload' \in [Uploads -> UploadRows] /\ upload'[u] = up
      /\ \A v \in Uploads : v # u => upload'[v] = upload[v]
  BY <1>1, <1>2 DEF Inv, Shape
<1>4. \A v \in Uploads : Named(v) => Named(v)'
  BY <1>2, <1>3 DEF Named
<1>5. Files'
  <2>1. ASSUME NEW b \in Abstracts, Exists(b), abs[b].file # None
        PROVE  (Available(abs[b].file) /\ Named(abs[b].file) /\ upload[abs[b].file].on = b)'
    <3>1. PICK f \in Uploads : f = abs[b].file
      BY <2>1, ARow DEF Inv, AbstractRows
    <3>2. Available(f) /\ Named(f) /\ upload[f].on = b
      BY <2>1, <3>1 DEF Inv, Files
    <3>3. Available(f)'
      <4>1. upload[u].pc \in {"stored", "refused"} => f # u
        BY <3>2 DEF Named
      <4>2. upload[u].pc = "written" => f # upload[u].old
        BY <2>1, <3>1 DEF Inv, Files
      <4>3. CASE f = u
        BY <1>2, <1>3, <3>2, <4>1, <4>2, <4>3 DEF Available
      <4>4. CASE f # u
        BY <1>3, <3>2, <4>2, <4>4 DEF Available
      <4>5. QED
        BY <4>3, <4>4
    <3>4. upload'[f].on = b /\ Named(f)'
      BY <1>2, <1>3, <1>4, <3>2
    <3>5. QED
      BY <3>1, <3>3, <3>4
  <2>2. ASSUME NEW v \in Uploads, upload'[v].pc = "stored"
        PROVE  v \in storage' /\ (upload[v].on \in Abstracts /\ Exists(upload[v].on))'
    <3>1. v # u /\ upload'[v] = upload[v]
      BY <1>2, <1>3, <2>2
    <3>2. v \in storage /\ upload[v].on \in Abstracts /\ Exists(upload[v].on)
      BY <2>2, <3>1 DEF Inv, Files
    <3>3. upload[u].pc = "written" => v # upload[u].old
      BY <2>2, <3>1, AbstractConstants DEF Inv, Files, Named
    <3>4. QED
      BY <3>1, <3>2, <3>3 DEF Exists
  <2>3. ASSUME NEW v \in Uploads, upload'[v].pc = "written", upload'[v].old # None
        PROVE  Named(upload[v].old)' /\ \A b \in Abstracts : Exists(b) => abs[b].file # upload'[v].old
    <3>1. v # u /\ upload'[v] = upload[v]
      BY <1>2, <1>3, <2>3
    <3>2. PICK f \in Uploads : f = upload[v].old
      BY <2>3, <3>1 DEF Inv, Shape, UploadRows
    <3>3. upload'[v].old = f /\ Named(f) /\ \A b \in Abstracts : Exists(b) => abs[b].file # f
      BY <2>3, <3>1, <3>2 DEF Inv, Files
    <3>4. QED
      BY <1>4, <3>3
  <2>4. QED
    BY <2>1, <2>2, <2>3 DEF Files, Exists
<1>6. QED
  BY <1>3, <1>5, UploadInv

LEMMA FileWrittenInv ==
  ASSUME Inv, NEW u \in Uploads, updateAbstractFinalFileTxn(u)
  PROVE  Inv'
<1>1. CASE abs' = abs /\ upload' = [upload EXCEPT ![u].pc = "refused"]
  BY <1>1, EndUploadInv DEF updateAbstractFinalFileTxn
<1>2. PICK a : a = upload[u].on
  OBVIOUS
<1>3. ASSUME abs' = [abs EXCEPT ![a].file = u], storage' = storage,
             NEW answer \in {"written", "unanswered"},
             upload' = [upload EXCEPT ![u].pc = answer, ![u].old = abs[a].file]
      PROVE  Inv'
  <2>1. upload[u].pc = "stored" /\ a \in Abstracts /\ Exists(a) /\ u \in storage
    BY <1>2 DEF updateAbstractFinalFileTxn, Inv, Files
  <2>2. abs[a] \in AbstractRows
    BY <2>1, ARow DEF Inv
  <2>3. PICK row : row = [abs[a] EXCEPT !.file = u]
    OBVIOUS
  <2>4. /\ row \in AbstractRows /\ row.status = abs[a].status /\ row.code = abs[a].code
        /\ row.averageScore = abs[a].averageScore /\ row.reviewCount = abs[a].reviewCount
        /\ row.themes = abs[a].themes /\ row.file = u /\ row.presented = abs[a].presented
    BY <2>2, <2>3 DEF AbstractRows
  <2>5. abs' = [abs EXCEPT ![a] = row]
    BY <1>3, <2>3 DEF Inv, Shape
  <2>6. /\ abs' \in [Abstracts -> AbstractRows \union {None}]
        /\ abs'[a] = row /\ Exists(a)'
        /\ \A b \in Abstracts : b # a => abs'[b] = abs[b]
        /\ \A b \in Abstracts : b # a => (Exists(b)' <=> Exists(b))
        /\ \A b \in Abstracts : Exists(b) => Exists(b)'
    BY <2>1, <2>4, <2>5, RowWritten DEF Inv
  <2>7. UNCHANGED <<review, member, theme, counter, inflight, decided, printed, leftDecided>>
    BY DEF updateAbstractFinalFileTxn
  <2>8. PICK old \in Uploads \union {None} : old = abs[a].file
    BY <2>2 DEF AbstractRows
  <2>9. PICK up : up = [upload[u] EXCEPT !.pc = answer, !.old = old]
    OBVIOUS
  <2>10. up \in UploadRows /\ up.pc = answer /\ up.on = a /\ up.old = old
    BY <1>2, <2>8, <2>9 DEF Inv, Shape, UploadRows
  <2>11. /\ upload' \in [Uploads -> UploadRows] /\ upload'[u] = up
         /\ \A v \in Uploads : v # u => upload'[v] = upload[v]
    BY <1>3, <2>8, <2>9, <2>10 DEF Inv, Shape
  <2>12. Shape' /\ RequestsOn'
    BY <2>6, <2>7, <2>11, RequestsKept DEF Inv, Shape
  <2>13. \A b \in Abstracts : Reviewed(b)'
    <3>1. Fresh(row, review[a])
      BY <2>1, <2>4 DEF Inv, Reviewed, Fresh
    <3>2. Reviewed(a)'
      BY <2>1, <2>6, <2>7, <3>1 DEF Inv, Reviewed
    <3>3. QED
      BY <2>6, <2>7, <3>2, ReviewedKept DEF Inv
  <2>14. ThemesLinked' /\ OrdersDistinct'
    BY <2>1, <2>4, <2>6, <2>7, ThemesKept DEF Inv
  <2>15. Series'
    <3>1. CodedRow(row)
      BY <2>1, <2>4 DEF Inv, Series, Backed, CodedRow
    <3>2. \A b \in Abstracts : Exists(b)' => CodedRow(abs'[b]) /\
            (abs'[b].code = None \/ (Exists(b) /\ abs'[b].code = abs[b].code))
      BY <2>1, <2>4, <2>6, <3>1 DEF Inv, Series, Backed
    <3>3. QED
      BY <2>7, <3>2, SeriesKept DEF Inv
  <2>16. Files'
    <3>1. \A v \in Uploads : Named(v) => Named(v)' /\ v # u /\ upload'[v] = upload[v]
      BY <2>1, <2>11 DEF Named
    <3>2. ASSUME NEW b \in Abstracts, Exists(b)', abs'[b].file # None
          PROVE  (Available(abs[b].file) /\ Named(abs[b].file) /\ upload[abs[b].file].on = b)'
      <4>1. CASE b = a
        <5>1. abs'[b].file = u
          BY <2>4, <2>6, <4>1
        <5>2. Available(u)' /\ Named(u)' /\ upload'[u].on = b
          BY <1>3, <2>1, <2>10, <2>11, <4>1 DEF Named, Available
        <5>3. QED
          BY <5>1, <5>2
      <4>2. CASE b # a
        <5>1. Exists(b) /\ abs'[b] = abs[b]
          BY <2>6, <3>2, <4>2
        <5>2. PICK f \in Uploads : f = abs[b].file
          BY <3>2, <5>1, ARow DEF Inv, AbstractRows
        <5>3. Available(f) /\ Named(f) /\ upload[f].on = b
          BY <3>2, <5>1, <5>2 DEF Inv, Files
        <5>4. Available(f)' /\ Named(f)' /\ upload'[f].on = b
          BY <1>3, <3>1, <5>3 DEF Available
        <5>5. QED
          BY <5>1, <5>2, <5>4
      <4>3. QED
        BY <4>1, <4>2
    <3>3. ASSUME NEW v \in Uploads, upload'[v].pc = "stored"
          PROVE  v \in storage' /\ (upload[v].on \in Abstracts /\ Exists(upload[v].on))'
      <4>1. upload'[v] = upload[v]
        BY <2>10, <2>11, <3>3
      <4>2. v \in storage /\ upload[v].on \in Abstracts /\ Exists(upload[v].on)
        BY <3>3, <4>1 DEF Inv, Files
      <4>3. QED
        BY <1>3, <2>6, <4>1, <4>2
    <3>4. ASSUME NEW v \in Uploads, upload'[v].pc = "written", upload'[v].old # None
          PROVE  Named(upload[v].old)' /\ \A b \in Abstracts : Exists(b)' => abs'[b].file # upload'[v].old
      <4>1. PICK f \in Uploads : f = upload'[v].old
        BY <2>11, <3>4 DEF UploadRows
      <4>2. /\ Named(f) /\ \A b \in Abstracts \ {a} : Exists(b) => abs[b].file # f
        <5>1. CASE v = u
          <6>1. f = old /\ f = abs[a].file
            BY <2>8, <2>10, <2>11, <3>4, <4>1, <5>1
          <6>2. Named(f) /\ upload[f].on = a
            BY <2>1, <3>4, <4>1, <6>1 DEF Inv, Files
          <6>3. ASSUME NEW b \in Abstracts \ {a}, Exists(b), abs[b].file = f PROVE FALSE
            BY <3>4, <4>1, <6>2, <6>3 DEF Inv, Files
          <6>4. QED
            BY <6>2, <6>3
        <5>2. CASE v # u
          BY <2>11, <3>4, <4>1, <5>2 DEF Inv, Files
        <5>3. QED
          BY <5>1, <5>2
      <4>3. f # u /\ Named(f)'
        BY <3>1, <4>2
      <4>4. ASSUME NEW b \in Abstracts, Exists(b)' PROVE abs'[b].file # f
        BY <2>4, <2>6, <4>2, <4>3, <4>4
      <4>5. QED
        BY <4>1, <4>3, <4>4
    <3>5. QED
      BY <3>2, <3>3, <3>4 DEF Files
  <2>17. QED
    BY <2>12, <2>13, <2>14, <2>15, <2>16 DEF Inv
<1>4. QED
  BY <1>1, <1>2, <1>3 DEF updateAbstractFinalFileTxn

-----------------------------------------------------------------------------
(* Themes *)

(* A theme stays while an abstract links to it or a number was printed in  *)
(* one of its series                                                       *)
LEMMA ThemeInv ==
  ASSUME Inv, theme' \in [Themes -> ThemeRows \union {None}], OrdersDistinct',
         \A t \in Themes :
           /\ theme[t] # None
           /\ \/ \E a \in Abstracts : Exists(a) /\ t \in abs[a].themes
              \/ \E p \in printed : p.theme = t
           => theme'[t] # None,
         inflight' \subseteq inflight,
         UNCHANGED <<abs, review, member, counter, upload, storage, decided, printed, leftDecided>>
  PROVE  Inv'
<1>1. Shape'
  BY DEF Inv, Shape
<1>2. RequestsOn'
  BY RequestsKept DEF Inv, Exists
<1>3. \A a \in Abstracts : Reviewed(a)'
  BY ReviewedKept DEF Inv
<1>4. ThemesLinked'
  <2> SUFFICES ASSUME NEW a \in Abstracts, Exists(a), NEW t \in abs[a].themes PROVE theme'[t] # None
    BY DEF ThemesLinked, Exists
  <2>1. t \in Themes /\ theme[t] # None
    BY ARow DEF Inv, ThemesLinked, AbstractRows
  <2>2. QED
    BY <2>1
<1>5. Series'
  <2>1. \A a \in Abstracts : Exists(a)' => CodedRow(abs'[a]) /\
          (abs'[a].code = None \/ (Exists(a) /\ abs'[a].code = abs[a].code))
    BY DEF Inv, Series, Backed, Exists
  <2>2. QED
    BY <2>1, SeriesKept DEF Inv
<1>6. Files'
  BY FilesKept DEF Inv, Exists
<1>7. QED
  BY <1>1, <1>2, <1>3, <1>4, <1>5, <1>6 DEF Inv

(* One theme's row: at an order that no other active theme has, or not     *)
(* active                                                                  *)
LEMMA ThemeRowInv ==
  ASSUME Inv, NEW t \in Themes, NEW row \in ThemeRows, ThemeStep(t, row),
         row.active => OrderFree(t, row.sortOrder),
         inflight' \subseteq inflight
  PROVE  Inv'
<1>1. /\ theme' \in [Themes -> ThemeRows \union {None}] /\ theme'[t] = row
      /\ \A u \in Themes : u # t => theme'[u] = theme[u]
  BY DEF Inv, Shape, ThemeStep
<1>2. row # None
  BY AbstractConstants
<1>3. OrdersDistinct'
  <2> SUFFICES ASSUME NEW u \in Themes, NEW v \in Themes, theme'[u] # None, theme'[v] # None,
                      theme'[u].active, theme'[v].active,
                      theme'[u].sortOrder = theme'[v].sortOrder, u # v
               PROVE  FALSE
    BY DEF OrdersDistinct, ActiveThemes
  <2>1. CASE u # t /\ v # t
    BY <1>1, <2>1 DEF Inv, OrdersDistinct, ActiveThemes
  <2>2. ASSUME NEW x \in Themes, x # t, theme[x] # None, theme[x].active, row.active
        PROVE  theme[x].sortOrder # row.sortOrder
    BY <2>2 DEF OrderFree, ActiveThemes
  <2>3. QED
    BY <1>1, <2>1, <2>2
<1>4. QED
  BY <1>1, <1>2, <1>3, ThemeInv DEF ThemeStep

LEMMA CreateThemeInv ==
  ASSUME Inv, NEW t \in Themes, NEW order \in SortOrders, NEW active \in BOOLEAN,
         createTheme(t, order, active)
  PROVE  Inv'
<1>1. PICK row : row = [sortOrder |-> order, active |-> active]
  OBVIOUS
<1>2. row \in ThemeRows /\ row.sortOrder = order
  BY <1>1, AbstractConstants DEF ThemeRows
<1>3. QED
  BY <1>1, <1>2, ThemeRowInv DEF createTheme

LEMMA UpdateThemeInv ==
  ASSUME Inv, NEW req \in inflight, updateThemeRow(req)
  PROVE  Inv'
<1>1. PICK t \in Themes : t = req.on
  BY ShapeOfRequests DEF Inv, updateThemeRow, ThemeRequests
<1>2. req \in ThemeRequests /\ inflight' \subseteq inflight
  BY ShapeOfRequests DEF Inv, updateThemeRow
<1>3. PICK row : row = [sortOrder |-> IF req.sortOrder = None THEN theme[t].sortOrder ELSE req.sortOrder,
                        active |-> req.active]
  OBVIOUS
<1>4. CASE theme[t] # None /\ (row.active => OrderFree(t, row.sortOrder)) /\ ThemeStep(t, row)
  <2>1. theme[t].sortOrder \in Int /\ (req.sortOrder # None => req.sortOrder \in Int) /\ req.active \in BOOLEAN
    BY <1>2, <1>4, AbstractConstants DEF Inv, Shape, ThemeRows, ThemeRequests
  <2>2. row \in ThemeRows
    BY <1>3, <2>1 DEF ThemeRows
  <2>3. QED
    BY <1>2, <1>4, <2>2, ThemeRowInv
<1>5. CASE ThemeStep(t, theme[t])
  <2>1. UNCHANGED theme
    BY <1>5 DEF ThemeStep, Inv, Shape
  <2>2. QED
    BY <1>2, <1>5, <2>1, QuietInv DEF ThemeStep, Inv, Shape
<1>6. QED
  BY <1>1, <1>3, <1>4, <1>5 DEF updateThemeRow

LEMMA SoftDeleteInv ==
  ASSUME Inv, NEW t \in Themes, softDeleteTheme(t)
  PROVE  Inv'
<1>1. PICK row : row = [theme[t] EXCEPT !.active = FALSE]
  OBVIOUS
<1>2. row \in ThemeRows /\ ~row.active
  BY <1>1 DEF softDeleteTheme, Inv, Shape, ThemeRows
<1>3. QED
  BY <1>1, <1>2, ThemeRowInv DEF softDeleteTheme

LEMMA DeleteThemeInv ==
  ASSUME Inv, NEW t \in Themes, deleteUnusedTheme(t)
  PROVE  Inv'
<1>1. /\ theme' \in [Themes -> ThemeRows \union {None}] /\ theme'[t] = None
      /\ \A u \in Themes : u # t => theme'[u] = theme[u]
  BY DEF Inv, Shape, ThemeStep, deleteUnusedTheme
<1>2. OrdersDistinct'
  BY <1>1 DEF Inv, OrdersDistinct, ActiveThemes
<1>3. ASSUME NEW p \in printed PROVE p.theme # t
  <2>1. /\ p.theme \in Themes /\ p.type \in FinalTypes /\ p.number \in Nat
        /\ p.number >= 1 /\ p.number <= counter[p.theme][p.type]
    BY DEF Inv, Shape, PrintedRows, Series, Counted
  <2>2. QED
    BY <2>1 DEF deleteUnusedTheme
<1>4. \A a \in Abstracts : Exists(a) => t \notin abs[a].themes
  BY DEF deleteUnusedTheme
<1>5. QED
  BY <1>1, <1>2, <1>3, <1>4, ThemeInv DEF deleteUnusedTheme, ThemeStep

LEMMA ReorderInv ==
  ASSUME Inv, NEW order \in Permuted, reorderThemes(order)
  PROVE  Inv'
<1>1. /\ \A t \in ActiveThemes : order[t] \in Int
      /\ \A t, u \in ActiveThemes : order[t] = order[u] => t = u
  <2>1. IsFiniteSet(ActiveThemes)
    BY AbstractConstants, FS_Subset DEF ActiveThemes
  <2>2. Cardinality(ActiveThemes) \in Nat
    BY <2>1, FS_CardinalityType
  <2>3. QED
    BY <2>2 DEF Permuted
<1>2. ASSUME NEW t \in Themes
      PROVE  /\ theme'[t] \in ThemeRows \union {None}
             /\ theme'[t] # None <=> theme[t] # None
             /\ t \in ActiveThemes => theme'[t].active /\ theme'[t].sortOrder = order[t]
             /\ t \notin ActiveThemes => theme'[t] = theme[t]
  <2>1. theme[t] \in ThemeRows \union {None}
    BY DEF Inv, Shape
  <2>2. CASE t \in ActiveThemes /\ order[t] # theme[t].sortOrder
    <3>1. theme[t] \in ThemeRows /\ theme[t].active
      BY <2>1, <2>2 DEF ActiveThemes
    <3>2. PICK row : row = [theme[t] EXCEPT !.sortOrder = order[t]]
      OBVIOUS
    <3>3. row \in ThemeRows /\ row.active /\ row.sortOrder = order[t]
      BY <1>1, <2>2, <3>1, <3>2 DEF ThemeRows
    <3>4. theme'[t] = row
      BY <2>2, <3>2 DEF reorderThemes
    <3>5. QED
      BY <2>2, <3>1, <3>3, <3>4, AbstractConstants
  <2>3. CASE ~(t \in ActiveThemes /\ order[t] # theme[t].sortOrder)
    <3>1. theme'[t] = theme[t]
      BY <2>3 DEF reorderThemes
    <3>2. QED
      BY <2>1, <2>3, <3>1 DEF ActiveThemes
  <2>4. QED
    BY <2>2, <2>3
<1>3. theme' \in [Themes -> ThemeRows \union {None}]
  BY <1>2 DEF reorderThemes
<1>4. OrdersDistinct'
  <2>1. ActiveThemes' = ActiveThemes
    BY <1>2 DEF ActiveThemes
  <2>2. \A t \in ActiveThemes : t \in Themes
    BY DEF ActiveThemes
  <2>3. QED
    BY <1>1, <1>2, <2>1, <2>2 DEF OrdersDistinct
<1>5. QED
  BY <1>2, <1>3, <1>4, ThemeInv DEF reorderThemes

-----------------------------------------------------------------------------
(* The invariant *)

LEMMA InitInv == Init => Inv
<1> SUFFICES ASSUME Init PROVE Inv
  OBVIOUS
<1> USE DEF Init
<1>1. [r \in Reviewers |-> None] \in Sheets
  BY DEF Sheets
<1>2. Shape
  <2>1. ASSUME NEW u \in Uploads PROVE upload[u] \in UploadRows
    BY DEF UploadRows
  <2>2. QED
    BY <1>1, <2>1 DEF Shape
<1>3. \A a \in Abstracts : ~Exists(a)
  BY DEF Exists
<1>4. RequestsOn /\ ThemesLinked /\ OrdersDistinct /\ \A a \in Abstracts : Reviewed(a)
  BY <1>3 DEF RequestsOn, ThemesLinked, OrdersDistinct, ActiveThemes, Reviewed
<1>5. Series
  <2>1. \E top \in Nat : \A p \in printed : p.number <= top
    <3>1. 0 \in Nat /\ printed = {}
      OBVIOUS
    <3>2. QED
      BY <3>1
  <2>2. QED
    BY <1>3, <2>1 DEF Series, Backed
<1>6. Files
  BY <1>3 DEF Files
<1>7. QED
  BY <1>2, <1>4, <1>5, <1>6 DEF Inv

LEMMA NextInv == Inv /\ [Next]_vars => Inv'
<1> SUFFICES ASSUME Inv, [Next]_vars PROVE Inv'
  OBVIOUS
<1>1. CASE UNCHANGED vars
  BY <1>1, QuietInv DEF vars, Inv, Shape
<1>2. CASE AuthorNext
  BY <1>2, SubmitInv, ChecksInv, StoreInv DEF AuthorNext
<1>3. CASE CommitteeNext
  BY <1>3, AddMemberInv, RemoveMemberInv, ChecksInv DEF CommitteeNext
<1>4. CASE AdminNext
  BY <1>4, FinalizeInv, ReopenInv, PresentedInv, CreateThemeInv, ChecksInv, SoftDeleteInv,
     DeleteThemeInv, ReorderInv DEF AdminNext
<1>5. CASE \E req \in inflight :
             \/ editAbstractTxn(req) \/ setReviewerThemesTxn(req) \/ assignReviewersTxn(req)
             \/ reviewAbstractTxn(req) \/ updateThemeRow(req)
  BY <1>5, EditInv, PreferencesInv, AssignInv, ReviewInv, UpdateThemeInv
<1>6. ASSUME NEW u \in Uploads, deleteNewFile(u) \/ deletePreviousFile(u) \/ uploadCrashes(u)
      PROVE  Inv'
  <2>1. CASE deleteNewFile(u)
    <3>1. CASE upload[u].pc = "refused"
      BY <2>1, <3>1, EndUploadInv DEF deleteNewFile
    <3>2. CASE upload[u].pc = "unanswered"
      BY <2>1, <3>2, EndUploadInv DEF deleteNewFile
    <3>3. QED
      BY <2>1, <3>1, <3>2 DEF deleteNewFile
  <2>2. CASE deletePreviousFile(u)
    BY <2>2, EndUploadInv DEF deletePreviousFile
  <2>3. CASE uploadCrashes(u)
    BY <2>3, EndUploadInv DEF uploadCrashes
  <2>4. QED
    BY <1>6, <2>1, <2>2, <2>3
<1>7. QED
  BY <1>1, <1>2, <1>3, <1>4, <1>5, <1>6, FileWrittenInv DEF Next, WriteNext

(* Every state of the abstracts satisfies the invariant. *)
THEOREM ReviewInvariant == Spec => []Inv
BY InitInv, NextInv, PTL DEF Spec

-----------------------------------------------------------------------------
(* The properties *)

(* The average, count and status an abstract shows are what its active     *)
(* reviews say, whichever of a score, an assignment, a member's removal, a *)
(* decision or a reopening came last (applyReviewAggregate).               *)
THEOREM AggregateFreshHolds == Spec => []AggregateFresh
<1>1. Inv => AggregateFresh
  BY DEF Inv, Reviewed, Fresh, AggregateFresh
<1>2. QED
  BY <1>1, ReviewInvariant, PTL

(* On an open abstract only members of the committee review, except for a  *)
(* review left behind on an abstract that was decided when its reviewer    *)
(* left (lockActiveCommitteeMemberIds, deactivateReviewsOnOpenAbstracts).  *)
THEOREM ReviewersAreMembersHolds == Spec => []ReviewersAreMembers
<1>1. Inv => ReviewersAreMembers
  BY DEF Inv, Reviewed, ReviewersAreMembers
<1>2. QED
  BY <1>1, ReviewInvariant, PTL

(* A series hands out each number once, no two abstracts hold one code,    *)
(* and only an accepted abstract is coded or marked as presented           *)
(* (allocateAbstractCode, finalizeAbstractTxn, reopenAbstractTxn).         *)
THEOREM CodesNotReissuedHolds == Spec => []CodesNotReissued
<1>1. Inv => CodesNotReissued
  BY DEF Inv, Series, Backed, CodedRow, CodesNotReissued
<1>2. QED
  BY <1>1, ReviewInvariant, PTL

(* Two active themes never give one code: an acceptance is refused for     *)
(* want of a free code only when the theme that numbered the abstract in   *)
(* its way was switched off or moved since (assertSortOrderAvailable, the  *)
(* unique index on the active themes' sort orders).                        *)
THEOREM ActiveThemesNeverCollideHolds == Spec => []ActiveThemesNeverCollide
<1>1. Inv => ActiveThemesNeverCollide
  <2> SUFFICES ASSUME Inv, NEW b \in Abstracts, NEW t \in ActiveThemes, NEW ty \in FinalTypes,
                      Exists(b), abs[b].code = allocateAbstractCode(t, ty)
               PROVE  \E p \in printed :
                         /\ p.on = b /\ p.decision = decided[b]
                         /\ ~theme[p.theme].active \/ theme[p.theme].sortOrder # abs[b].code.sortOrder
    BY DEF ActiveThemesNeverCollide
  <2>1. PICK code : code = allocateAbstractCode(t, ty)
    OBVIOUS
  <2>2. t \in Themes /\ theme[t] # None /\ theme[t].active
    BY DEF ActiveThemes
  <2>3. /\ code \in CodeRows /\ code.type = ty /\ code.sortOrder = theme[t].sortOrder
        /\ \A p \in printed : p.theme = t /\ p.type = ty => p.number < code.number
    BY <2>1, <2>2, CodeAllocated
  <2>4. abs[b].code # None
    BY <2>1, <2>3, AbstractConstants
  <2>5. PICK p \in printed : p.on = b /\ p.decision = decided[b]
                               /\ p.type = code.type /\ p.number = code.number
    BY <2>1, <2>4 DEF Inv, Series, Backed
  <2>6. p.theme \in Themes /\ p.number \in Nat /\ theme[p.theme] # None
    BY DEF Inv, Series, Counted, Shape, PrintedRows
  <2>7. ASSUME theme[p.theme].active, theme[p.theme].sortOrder = code.sortOrder PROVE FALSE
    <3>1. p.theme = t
      BY <2>2, <2>3, <2>6, <2>7 DEF Inv, OrdersDistinct, ActiveThemes
    <3>2. QED
      BY <2>3, <2>5, <2>6, <3>1
  <2>8. QED
    BY <2>1, <2>5, <2>7
<1>2. QED
  BY <1>1, ReviewInvariant, PTL

(* The file an abstract refers to is in storage, however uploads and the   *)
(* deletions after them interleave or crash, unless its own request        *)
(* deleted it in the catch, after a commit whose answer was lost           *)
(* (uploadAbstractFinalFile).                                              *)
THEOREM StoredUnlessDiscardedHolds == Spec => []StoredUnlessDiscarded
<1>1. Inv => StoredUnlessDiscarded
  BY DEF Inv, Files, Available, StoredUnlessDiscarded
<1>2. QED
  BY <1>1, ReviewInvariant, PTL

(* From a decision until the abstract is reopened its reviews, aggregate,  *)
(* content and themes stay as they were decided on (the locked row is read *)
(* again in editAbstractTxn, assignReviewersTxn and reviewAbstractTxn).    *)
THEOREM DecisionRecordKeptHolds == Spec => DecisionRecordKept
<1> DEFINE Kept(a) ==
             Exists(a) /\ Final(a) /\ abs'[a].status \in FINAL_STATUSES =>
               /\ review'[a] = review[a]
               /\ abs'[a] = [abs[a] EXCEPT !.presented = abs'[a].presented, !.file = abs'[a].file]
<1>1. ASSUME Inv, NEW a \in Abstracts, abs'[a] = abs[a], review'[a] = review[a] PROVE Kept(a)
  BY <1>1, ARow DEF Inv, AbstractRows
<1>2. ASSUME Inv, Next, NEW a \in Abstracts PROVE Kept(a)
  <2>1. CASE UNCHANGED <<abs, review>>
    BY <1>1, <1>2, <2>1
  <2>2. abs \in [Abstracts -> AbstractRows \union {None}] /\ review \in [Abstracts -> Sheets]
    BY <1>2 DEF Inv, Shape
  <2>3. ASSUME NEW b \in Abstracts, ~Exists(b) \/ ~Final(b), NEW row,
               abs' = [abs EXCEPT ![b] = row], NEW rows, review' = [review EXCEPT ![b] = rows]
        PROVE  Kept(a)
    BY <1>1, <1>2, <2>2, <2>3
  <2>4. review = [review EXCEPT ![a] = review[a]]
    BY <2>2
  <2>5. ASSUME NEW b \in Abstracts, ~Exists(b) \/ ~Final(b), NEW row,
               abs' = [abs EXCEPT ![b] = row], review' = review
        PROVE  Kept(a)
    BY <1>1, <1>2, <2>2, <2>5
  <2>6. CASE AuthorNext
    BY <2>1, <2>5, <2>6 DEF AuthorNext, submitAbstract, editAbstract, uploadAbstractFinalFile
  <2>7. CASE CommitteeNext
    <3>1. ASSUME NEW r \in Reviewers, removeCommitteeMember(r) PROVE Kept(a)
      <4>1. Final(a) => review'[a] = review[a]
        BY <3>1 DEF removeCommitteeMember, deactivateReviewsOnOpenAbstracts
      <4>2. Final(a) => abs'[a] = abs[a]
        BY <3>1, <4>1 DEF removeCommitteeMember
      <4>3. QED
        BY <1>1, <1>2, <4>1, <4>2
    <3>2. QED
      BY <2>1, <2>7, <3>1 DEF CommitteeNext, addCommitteeMember, setReviewerThemes, assignReviewers,
         reviewAssignedAbstract
  <2>8. CASE AdminNext
    <3>1. ASSUME NEW b \in Abstracts, NEW decision \in FINAL_STATUSES,
                 NEW ty \in FinalTypes \union {None}, NEW t \in Themes, finalizeAbstract(b, decision, ty, t)
          PROVE  Kept(a)
      <4>1. PICK row : abs' = [abs EXCEPT ![b] = row]
        BY <3>1 DEF finalizeAbstract
      <4>2. QED
        BY <2>5, <3>1, <4>1 DEF finalizeAbstract
    <3>2. ASSUME NEW b \in Abstracts, reopenAbstract(b) PROVE Kept(a)
      <4>1. CASE a = b
        <5>1. abs[a] \in AbstractRows
          BY <1>2, <3>2, <4>1, ARow DEF reopenAbstract, Inv
        <5>2. abs'[a].status \in {"UNDER_REVIEW", "SUBMITTED"}
          BY <2>2, <3>2, <4>1, <5>1 DEF reopenAbstract, AbstractRows
        <5>3. QED
          BY <5>2 DEF FINAL_STATUSES
      <4>2. CASE a # b
        BY <1>1, <1>2, <2>2, <3>2, <4>2 DEF reopenAbstract
      <4>3. QED
        BY <4>1, <4>2
    <3>3. ASSUME NEW b \in Abstracts, NEW presented \in BOOLEAN, markAbstractPresented(b, presented)
          PROVE  Kept(a)
      <4>1. CASE a = b
        <5>1. abs[a] \in AbstractRows
          BY <1>2, <3>3, <4>1, ARow DEF markAbstractPresented, Inv
        <5>2. abs'[a] = [abs[a] EXCEPT !.presented = presented] /\ review'[a] = review[a]
          BY <2>2, <3>3, <4>1 DEF markAbstractPresented
        <5>3. QED
          BY <5>1, <5>2 DEF AbstractRows
      <4>2. CASE a # b
        BY <1>1, <1>2, <2>2, <3>3, <4>2 DEF markAbstractPresented
      <4>3. QED
        BY <4>1, <4>2
    <3>4. QED
      BY <2>1, <2>8, <3>1, <3>2, <3>3 DEF AdminNext, createTheme, updateTheme, softDeleteTheme,
         deleteUnusedTheme, reorderThemes, ThemeStep
  <2>9. ASSUME NEW req \in inflight, editAbstractTxn(req) PROVE Kept(a)
    <3>1. PICK b \in Abstracts : b = req.on
      BY <1>2, <2>9, ShapeOfRequests DEF Inv, editAbstractTxn, EditRequests
    <3>2. CASE ~Final(b)
      <4>1. UNCHANGED abs \/ \E row : abs' = [abs EXCEPT ![b] = row]
        BY <2>9, <3>1 DEF editAbstractTxn
      <4>2. QED
        BY <2>1, <2>5, <2>9, <3>2, <4>1 DEF editAbstractTxn
    <3>3. CASE Final(b)
      BY <2>1, <2>9, <3>1, <3>3 DEF editAbstractTxn
    <3>4. QED
      BY <3>2, <3>3
  <2>10. ASSUME NEW req \in inflight, assignReviewersTxn(req) PROVE Kept(a)
    <3>1. PICK b \in Abstracts : b = req.on
      BY <1>2, <2>10, ShapeOfRequests DEF Inv, assignReviewersTxn, AssignRequests
    <3>2. \/ UNCHANGED <<abs, review>>
          \/ ~Final(b) /\ \E row, rows : abs' = [abs EXCEPT ![b] = row] /\ review' = [review EXCEPT ![b] = rows]
      BY <2>10, <3>1 DEF assignReviewersTxn, ReplaceReviewers
    <3>3. QED
      BY <2>1, <2>3, <3>2
  <2>11. ASSUME NEW req \in inflight, reviewAbstractTxn(req) PROVE Kept(a)
    <3>1. PICK b \in Abstracts : b = req.on
      BY <1>2, <2>11, ShapeOfRequests DEF Inv, reviewAbstractTxn, ReviewRequests
    <3>2. \/ UNCHANGED <<abs, review>>
          \/ ~Final(b) /\ \E row, rows : abs' = [abs EXCEPT ![b] = row] /\ review' = [review EXCEPT ![b] = rows]
      BY <2>11, <3>1 DEF reviewAbstractTxn
    <3>3. QED
      BY <2>1, <2>3, <3>2
  <2>12. ASSUME NEW req \in inflight, setReviewerThemesTxn(req) \/ updateThemeRow(req) PROVE Kept(a)
    BY <2>1, <2>12 DEF setReviewerThemesTxn, updateThemeRow, ThemeStep
  <2>13. ASSUME NEW u \in Uploads, updateAbstractFinalFileTxn(u) PROVE Kept(a)
    <3>1. CASE abs' = abs
      BY <2>1, <2>13, <3>1 DEF updateAbstractFinalFileTxn
    <3>2. PICK b : b = upload[u].on
      OBVIOUS
    <3>3. CASE abs' = [abs EXCEPT ![b].file = u]
      <4>1. CASE a = b /\ Exists(a)
        <5>1. abs[a] \in AbstractRows
          BY <1>2, <4>1, ARow DEF Inv
        <5>2. abs'[a] = [abs[a] EXCEPT !.file = u] /\ review'[a] = review[a]
          BY <2>2, <2>13, <3>3, <4>1 DEF updateAbstractFinalFileTxn
        <5>3. QED
          BY <5>1, <5>2 DEF AbstractRows
      <4>2. CASE a # b
        BY <1>1, <1>2, <2>2, <2>13, <3>3, <4>2 DEF updateAbstractFinalFileTxn
      <4>3. QED
        BY <4>1, <4>2
    <3>4. QED
      BY <2>13, <3>1, <3>2, <3>3 DEF updateAbstractFinalFileTxn
  <2>14. ASSUME NEW u \in Uploads, deleteNewFile(u) \/ deletePreviousFile(u) \/ uploadCrashes(u)
         PROVE  Kept(a)
    BY <2>1, <2>14 DEF deleteNewFile, deletePreviousFile, uploadCrashes
  <2>15. QED
    BY <1>2, <2>6, <2>7, <2>8, <2>9, <2>10, <2>11, <2>12, <2>13, <2>14 DEF Next, WriteNext
<1>3. Inv /\ [Next]_vars => [\A a \in Abstracts : Kept(a)]_vars
  BY <1>2
<1>4. QED
  BY <1>3, ReviewInvariant, PTL DEF Spec, DecisionRecordKept
=============================================================================
