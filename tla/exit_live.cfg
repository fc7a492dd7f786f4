CONSTANTS
  c1 = c1
  c2 = c2
  Cpu = {c1, c2}
  REASON_NUM = 1
  Probed = {0}
  Named = {0}
  Second = 1
  BusyGuests = TRUE
  MayFail = TRUE
  MaxExits = 2
  MaxTime = 1
SPECIFICATION StallSpec
PROPERTY NonBlocking
PROPERTY RemovalEnds
