SPECIFICATION Spec
CONSTANTS
  Abstracts = {a1, a2}
  Authors = {e1, e2}
  Reviewers = {r1, r2, r3}
  PrefSetters = {r1, r2, r3}
  Themes = {t1, t2}
  SortOrders = {0, 1}
  FinalTypes = {"POSTER"}
  Scores = {1, 3}
  ReviewersPerAbstract = 2
  DivergenceThreshold = 2
  DistributeByTheme = FALSE
  Uploads = {u1, u2}
  MaxEdits = 1
  MaxDecisions = 2
  MaxInFlight = 1
  None = None
SYMMETRY Swaps
CONSTRAINT OneStory
INVARIANTS AggregateFresh ReviewersAreMembers CodesNotReissued ActiveThemesNeverCollide StoredUnlessDiscarded
PROPERTIES DecisionRecordKept
CHECK_DEADLOCK FALSE
