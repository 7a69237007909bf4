\* Two registrations contend for a place, or one changes its price and payment
CONSTANTS
  a1 = a1
  a2 = a2
  Regs = {r1, r2}
  Spons = {c1, c2}
  Items = {a1}
  Capacity <- OnePlace
  Price <- Prices
  Answers <- TwoAnswers
  BasePrice = 0
  Coverages <- ItemOrAll
  Payments = {2}
  AutoAccept = TRUE
  NotGiven = NotGiven
SPECIFICATION Spec
SYMMETRY Swaps
CONSTRAINT OneStory
INVARIANTS PlacesCounted UsedWhileLinked AmountFollowsUsages
PROPERTIES PaidPriceLocked RefundIsFinal OnlySelfEditOverpays
