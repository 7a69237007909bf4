SPECIFICATION Spec
CONSTANTS
  m1 = m1  n1 = n1  c1 = c1  w1 = w1  w2 = w2
  Rows = {m1, n1, c1}
  Workers = {w1, w2}
  Nobody = Nobody
  Api = Api
  LeasedStatus = "SENDING"
  Limit = 1
  Lanes = 1
  Stoppable = {w1, w2}
  MaxFaults = 2
  Provider = "sendgrid"
  MaxRetries = 1
  SendNowRows = {n1}
  CopyRows = {c1}
  Webhooks = {"delivered", "bounce"}
  MaxHooks = 2
CONSTRAINT OneStory
SYMMETRY WorkerSymmetry
INVARIANTS OneEmailPerLog StatusTellsTruth CountersAgree
PROPERTIES MarkedIsCharged ReportsOnlyAdvance
CHECK_DEADLOCK FALSE
