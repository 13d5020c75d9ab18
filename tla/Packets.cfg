CONSTANTS
  QueueSize = 1
  OutSize = 1
  MaxSend = 3
  MaxServed = 2
  MaxPackets = 4
  MaxDials = 2
SPECIFICATION FairSpec
INVARIANTS InOrder LossPerRedial
PROPERTIES UpDatagrams NothingHangs
CHECK_DEADLOCK FALSE
