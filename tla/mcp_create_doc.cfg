SPECIFICATION OfferSpec
CONSTANTS
  x1 = x1  b1 = b1  l1 = l1  p1 = p1  m1 = m1  h1 = h1
  ClientWorks = {x1, b1, l1, p1, m1, h1}
  Scenarios <- Together
  Kind <- HowPaid
  Amount <- AmountsOf
  TransferFee = 1
  Routes <- RouteChoices
  Arc = "arc"
  Criteria = {"c1", "c2"}
  Ttl = 1
  OfferLives = {1, 2}
  Halves = {p1}
  MaxTime = 2
  MaxOffers = 1
INVARIANT SwapsAreReal
CHECK_DEADLOCK FALSE
