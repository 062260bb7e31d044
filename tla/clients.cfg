SPECIFICATION ClientsSpec
CONSTANTS
  x1 = x1  b1 = b1  l1 = l1  p1 = p1  m1 = m1  h1 = h1
  ClientWorks = {x1, b1, l1, p1, h1}
  Scenarios <- Together
  Kind <- HowPaid
  Amount <- AmountsOf
  TransferFee = 1
  Routes <- RouteChoices
  Arc = "arc"
  Criteria = {"c1", "c2"}
  Ttl = 1
  OfferLives = {1, 2}
  Halves = {p1}
  MaxTime = 2
  MaxOffers = 1
  Money = {"release"}
  MaxFetches = 2
  MaxDrops = 1
  a1 = a1  c1 = c1  c2 = c2
  AcpJobs = {a1}
  AcpRoutes = {"tool_output", "answer"}
  PerIp = 1
  EvalWindow = 2
  PerDay = 2
  EvalDay = 2
  MaxEvalTime = 5
  MaxTroubles = 2
  Vendors = {"v1"}
  MaxHires = 2
  Clicks = {c1, c2}
  Price = 1
  Drip = 1
  Cooldown = 1
  MaxHireTime = 2
  MaxMishaps = 1
  CORRIDORS <- CorridorDests
  Bounties = {1, 2}
  MaxWorks = 3
INVARIANTS
  ClientsTypeOK AcceptedOfferIsBacked OwnOffersAreAcceptable JudgedAsOffered RelayEndsDelivered
  NoOptimisticLie OpenTabIsCurrent PageTellsTheMoney OneDripWhenHeard CompletedIsApproved
  ProvedCorridorsArePaid
CHECK_DEADLOCK FALSE
