SPECIFICATION PipelineSpec
CONSTANTS
  Items = {"a", "b", "c"}
  Confidences = {0, 4, 4945, 6600, 9999, 12000}
  NoItem = "x"
INVARIANT RouteErrorRefundsThePayer
CHECK_DEADLOCK FALSE
