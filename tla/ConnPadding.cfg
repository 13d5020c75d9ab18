CONSTANTS
  Seg = 5
  Header = 2
  ZeroSamples = 1
  SockSize = 2
  Tables <- MissedTable
  Modes = {"paranoid"}
  MaxWrite = 2
  MaxWrites = 1
SPECIFICATION FairSpec
PROPERTY WriteEnds
CHECK_DEADLOCK FALSE
