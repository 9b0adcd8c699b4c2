SPECIFICATION FairSpec
CONSTANTS
  Kinds = {"plain", "get", "post", "big", "declared", "connect"}
  Timers = {"armed", "unset"}
  MaxBody = 2
  MaxChunks = 4
CHECK_DEADLOCK FALSE
INVARIANTS
  TypeOK
  ToldWhenGone
  BodyReaderSettles
  DiscardedBodyFlows
  ClientTrailersWin
  NoFalseCompletion
  FaultOnlyAfterRefusal
PROPERTIES
  ExchangeEnds
  GoneIsFinished
  ImplementsExchange
