SPECIFICATION ServicesSpec
CONSTANTS
  w1 = w1  w2 = w2  zero = zero  self = self  deployer = deployer  court = court
  buyer = buyer  seller = seller  funder = funder
  sellerHome = sellerHome  buyerHome = buyerHome  h1 = h1
  WorkIds <- MCWorkIds
  Address <- MCAddress
  ZeroAddress = zero
  EscrowAddress = self
  Senders = {deployer, court, buyer, seller, funder}
  Deployer = deployer
  InitialVerdict = court
  Remote <- MCRemote
  NoRecipient = none
  Evidence <- MCEvidence
  NoEvidence = nohash
  Amounts = {3}
  Fees = {0, 1}
  Ttls = {1}
  BpsInputs = {0, 1, 5000, 10000}
  Parties = {buyer, seller}
  Appointees = {}
  StrayAmounts = {}
  RouteInputs <- MCRouteInputs
  Signed <- MCSigned
  InitialUsdc <- MCInitialUsdc
  MaxTime = 3
  Items = {"a", "b", "c"}
  Confidences = {0, 4, 4945, 6600, 9999, 12000}
  NoItem = "x"
  Settlements = {1, 2}
  SettledAs <- SettledAlternately
  MaxSends = 2
  MaxMisses = 3
  Pages = {"courtroom", "try", "hire"}
  Stories <- RunStories
  MaxRuns = 2
  MaxFaults = 1
  Protocols = {"webhook", "a2a", "x402"}
  MaxAttempts = 2
  Prices = {1, 2, 5}
  TollCap = 2
  MaxLosses = 2
  s1 = s1  s2 = s2  s3 = s3  v1 = v1  v2 = v2
  Submissions = {s1, s2, s3}
  Works = {v1, v2}
  WorkOf <- TwoOfOneWork
  Nobody = nobody
  Stake = 2
  DepositUsdc = 1
  MinUsdc = 1
  VERDICT_FEE_USDC = 1
  MaxTroubles = 2
  Wallets = {wa, wb}
  NoWallet = nowallet
  MaxVersion = 2
  MaxLoads = 2
  MaxConnects = 2
  MaxFailures = 1
INVARIANTS
  ServicesTypeOK PaidInFullOnce NoStrandedAuthorization FailedEvidenceEarnsNothing
  SettlementIsAccepted OwnDisputeNeverHurts AnswersResolve
  StoryInOrder TollOnceWhenHeard HeardDeliveryCounts FeesAreEarned
PROPERTIES
  TermsAreFinal KeepsPromise ListGoesForward NoPrincipalLocked SpinnerEnds WorkIsCollected
CHECK_DEADLOCK FALSE
