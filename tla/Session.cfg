CONSTANTS
  Peer = {p1, p2, p3}
  Max = 1
SPECIFICATION FairSpec
INVARIANTS CarrierExclusive StoppedIsClosed
PROPERTIES PoolSpec SessionMoves
CHECK_DEADLOCK FALSE
