SPECIFICATION FairSpec
CONSTANTS
  b1 = b1  b2 = b2  q1 = q1  q2 = q2  w1 = w1  w2 = w2  e1 = e1
  Rows = {b1, b2}
  Workers = {w1, w2}
  Nobody = Nobody
  LeasedStatus = "RUNNING"
  Limit = 1
  Lanes = 1
  Stoppable = {w1}
  MaxFaults = 2
  MaxAttempts = 2
  Events = {e1}
  EventOf <- OneEvent
  Requests = {q1, q2}
  EventAsked <- OneEventAsked
CONSTRAINTS OneStory InOrder
INVARIANTS CompletedHasBook OneActiveJob
PROPERTIES ImplementsLeasedWork EveryJobEnds
CHECK_DEADLOCK FALSE
