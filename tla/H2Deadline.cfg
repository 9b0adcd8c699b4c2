SPECIFICATION FairSpec
CONSTANTS
  Kinds = {"plain", "post"}
  Timers = {"armed"}
  MaxBody = 1
  MaxChunks = 1
CHECK_DEADLOCK FALSE
PROPERTY
  DeadlineCompletes
