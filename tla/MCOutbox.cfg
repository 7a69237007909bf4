SPECIFICATION FairSpec
CONSTANTS
  r1 = r1  r2 = r2  r3 = r3  w1 = w1  w2 = w2  k1 = k1
  Rows = {r1, r2, r3}
  Workers = {w1, w2}
  Nobody = Nobody
  LeasedStatus = "PROCESSING"
  Limit = 2
  Lanes = 2
  Stoppable = {w1}
  MaxFaults = 2
  MaxAttempts = 2
  RealtimeRows = {}
  Pumps = {}
  Keys = {k1}
  NoKey = NoKey
  KeyOf <- SharedKey
  MaxRequeues = 1
CONSTRAINT OneStory
INVARIANTS NoLeakedLease NeverWedged StartsBounded OneRowPerKey
PROPERTIES LeaseEndsRightly FinishedIsFinal ImplementsLeasedWork EveryRowSettles
CHECK_DEADLOCK FALSE
