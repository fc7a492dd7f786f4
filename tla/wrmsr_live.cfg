CONSTANTS
  c1 = c1
  c2 = c2
  Cpu = {c1, c2}
  Named = {}
  Other = {16}
  OTHER_MSRS = 1
  Second = 0
  BusyGuests = TRUE
  MayFail = TRUE
  MaxWrites = 2
  MaxTime = 1
SPECIFICATION FairSpec
PROPERTY HandlerReturns
