SPECIFICATION HookSpec
CONSTANTS
  w1 = w1  w2 = w2  zero = zero  self = self  deployer = deployer  court = court
  buyer = buyer  seller = seller  hookAddress = hookAddress  buyerHome = buyerHome
  WorkIds = {w1, w2}
  Address <- MCAddress
  ZeroAddress = zero
  EscrowAddress = self
  Senders = {deployer, court, buyer}
  Deployer = deployer
  InitialVerdict = court
  Remote = {buyerHome}
  NoRecipient = none
  Evidence = {h1}
  NoEvidence = nohash
  Amounts = {2}
  Fees = {1}
  Ttls = {1}
  BpsInputs = {5000}
  Parties = {seller}
  Appointees = {zero, hookAddress}
  StrayAmounts = {2}
  RouteInputs <- MCRouteInputs
  Signed <- MCSigned
  InitialUsdc <- MCInitialUsdc
  MaxTime = 2
  HookAddress = hookAddress
  HookOwner = deployer
  Messages <- MCMessages
  RescueTo = {zero, seller}
  AdminFallbackTtl = 1
INVARIANTS RelayedAsCommitted Backed
PROPERTIES HookBalanceGuarded OnlyBoundPartiesPaid
CHECK_DEADLOCK FALSE
