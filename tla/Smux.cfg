CONSTANTS
  client = client
  server = server
  Side <- MCSide
  Client = client
  Streams = 1
  Total <- MCTotal
  WriteSizes = {3}
  ReadSize = 1
  FrameSize = 1
  FirstWindow = 1
  StreamBuffer = 2
  ReceiveBuffer = 2
  PipeSize = 1
  MaxCloses = 1
  MaxEvents = 1
SPECIFICATION FairSpec
INVARIANTS TokensConserved WholeStream WindowKept
CHECK_DEADLOCK FALSE
PROPERTY CallsReturn
