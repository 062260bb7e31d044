SPECIFICATION FairSpec
CONSTANTS
  j1 = j1  j2 = j2  w1 = w1  r1 = r1  r2 = r2  r3 = r3
  Jobs = {j1}
  Works = {w1}
  WorkOf <- OneWork
  Labels = {"release"}
  Runs = {r1, r2}
  MaxAttempts = 2
  Ttl = 3
  Window = 1
  Margin = 1
  MaxTime = 4
  MaxCrashes = 1
  BuyerActs = TRUE

PROPERTY FundsNeverStranded
CHECK_DEADLOCK FALSE
