SPECIFICATION Spec
CONSTANTS
  j1 = j1  j2 = j2  w1 = w1  r1 = r1  r2 = r2  r3 = r3
  Jobs = {j1, j2}
  Works = {w1}
  WorkOf <- OneWork
  Labels = {"release"}
  Runs = {r1, r2}
  MaxAttempts = 1
  Ttl = 3
  Window = 1
  Margin = 1
  MaxTime = 4
  MaxCrashes = 0
  BuyerActs = FALSE
SYMMETRY Alike
PROPERTY NothingPaidInTheWindow
CHECK_DEADLOCK FALSE
