CONSTANTS
  client = client
  server = server
  Side <- MCSide
  SnModulus = 16
  FirstSn = 14
  Wnd = 2
  FirstRmt = 1
  Mss = 2
  Writes <- MCWrites
  ReadSizes = {2}
  MaxBytes <- MCMaxBytes
  NetSize <- MCNetSize
  MaxFaults = 1
  Closers = {client}
  MaxAcks = 1
  Cut = {server}
SPECIFICATION FairSpec
INVARIANTS FreedHasArrived Bounded
PROPERTIES StreamSpec NothingStalls
CHECK_DEADLOCK FALSE
