SPECIFICATION Spec
CONSTANTS
  MaxMsg = 2
  MaxPipeline = 2
  Kinds = {"plain", "body", "expect"}
  HasConnect = FALSE
  Informs = TRUE
CHECK_DEADLOCK FALSE
INVARIANT
  InterimOutsideResponse
