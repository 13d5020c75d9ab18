CONSTANTS
  Methods = {m1}
  Conns = {c1, c2}
  MaxMethods = 2
  MaxSignals = 2
SPECIFICATION FairSpec
INVARIANTS HandlersCounted ExitMatchesReport ReplyTruth
PROPERTY RunEnds
CHECK_DEADLOCK FALSE
