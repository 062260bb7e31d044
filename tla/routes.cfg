SPECIFICATION Spec
CONSTANTS
  w1 = w1  v1 = v1  v2 = v2  relay1 = relay1  demo1 = demo1  demo2 = demo2
  Works = {w1}
  WorkOf <- OneWork
  Requests = {v1, v2, relay1, demo1, demo2}
  KindOf <- KindsOf
  Labels <- LabelsOf
  Nobody = nobody
SYMMETRY Alike
INVARIANTS ChargedForASettledVerdict RowFollowsTheChain
CHECK_DEADLOCK FALSE
