CONSTANTS
  Seg = 5
  Header = 2
  ZeroSamples = 1
  SockSize = 2
  Tables <- GoodTables
  Modes = {"none", "enabled", "paranoid"}
  MaxWrite = 4
  MaxWrites = 1
SPECIFICATION FairSpec
INVARIANTS Conserved Shaped
PROPERTIES WriteEnds DataArrives
CHECK_DEADLOCK FALSE
