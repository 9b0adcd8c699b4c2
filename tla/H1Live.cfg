SPECIFICATION Spec
CONSTANTS
  MaxMsg = 3
  MaxPipeline = 2
  Kinds = {"plain", "body", "close", "closeBody", "refused", "connect"}
  HasConnect = FALSE
  Informs = FALSE
CHECK_DEADLOCK FALSE
PROPERTIES
  QueueDrains
  PipelineProgress
  ClosingCompletes
