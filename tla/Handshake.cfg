CONSTANTS
  m1 = m1
  m2 = m2
  c1 = c1
  c2 = c2
  c3 = c3
  Digest <- Clients
  Conn <- Conns3
  MaxFilterSize = 3
  Ttl = 3
  HourLength = 1
  MaxClock = 3
  ClockSteps = TRUE
SPECIFICATION HandshakeSpec
SYMMETRY Symmetry
INVARIANTS RecordedOnce ReplayHasOriginal ReplyVerifies
CHECK_DEADLOCK FALSE
