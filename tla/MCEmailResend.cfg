SPECIFICATION FairSpec
CONSTANTS
  m1 = m1  n1 = n1  c1 = c1  w1 = w1  w2 = w2
  Rows = {m1, n1}
  Workers = {w1, w2}
  Nobody = Nobody
  Api = Api
  LeasedStatus = "SENDING"
  Limit = 1
  Lanes = 1
  Stoppable = {w1}
  MaxFaults = 1
  Provider = "resend"
  MaxRetries = 1
  SendNowRows = {n1}
  CopyRows = {}
  Webhooks = {}
  MaxHooks = 0
CONSTRAINT OneStory
INVARIANTS SendNowStaysOut
PROPERTIES EveryEmailSettles
CHECK_DEADLOCK FALSE
