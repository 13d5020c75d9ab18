CONSTANTS
  Buffering <- Tls
  CopyBuffer = 2
  HeldSize = 2
  SockSize = 1
  MaxBytes = 3
SPECIFICATION FairCopySpec
INVARIANT CleanClose
PROPERTY RelayMoves
CHECK_DEADLOCK FALSE
