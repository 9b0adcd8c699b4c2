SPECIFICATION Spec
CONSTANTS
  MaxMsg = 3
  MaxPipeline = 2
  Kinds = {"plain", "body", "expect", "close", "closeBody", "refused", "malformed", "connect"}
  HasConnect = TRUE
  Informs = TRUE
CHECK_DEADLOCK FALSE
INVARIANTS
  TypeOK
  ResponsesInOrder
  RejectOutsideResponse
  LastWordIsLast
  AbortedOrAnswered
  BodySettled
  DeadlineRuns
  TunnelReleased
PROPERTY
  NoDispatchAfterFailure
