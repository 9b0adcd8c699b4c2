SPECIFICATION FairSpec
CONSTANTS
  Kinds = {"get", "post", "big", "declared", "connect"}
  Timers = {"armed", "unset"}
  MaxBody = 2
  MaxChunks = 3
CHECK_DEADLOCK FALSE
INVARIANT
  TypeOK
PROPERTIES
  NoResponseAfterRefusal
  IgnoredBodyCounted
  DeadlineEnds
  TunnelFollowsStream
  ImplementsExchange
