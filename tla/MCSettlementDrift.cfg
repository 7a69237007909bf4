\* A proof upload takes a covered place that paid_count does not count
CONSTANTS
  a1 = a1
  a2 = a2
  Regs = {r1, r2}
  Spons = {c1}
  Items = {a1}
  Capacity <- OnePlace
  Price <- Prices
  Answers <- OneAnswer
  BasePrice = 1
  Coverages <- ItemOrAll
  Payments = {}
  AutoAccept = FALSE
  NotGiven = NotGiven
SPECIFICATION Spec
INVARIANT NoCountDrift
