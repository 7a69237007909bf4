SPECIFICATION Spec
CONSTANTS
  o1 = o1  n1 = n1  p1 = p1  w1 = w1  w2 = w2  x1 = x1  x2 = x2
  Rows = {o1}
  OtpRows = {o1}
  ReportRows = {}
  Lanes = {w1, w2, x1, x2}
  OtpLanes = {x1, x2}
  Endpoints = {e1}
  Provider = "sendgrid"
  Webhooks = {"DELIVERED"}
  BatchSize = 1
  MaxAttempts = 3
  Stoppable = {w1, x1}
  MaxFaults = 1
  None = None
CONSTRAINT OneStory
INVARIANTS NeverSentAgainBlind
CHECK_DEADLOCK FALSE
