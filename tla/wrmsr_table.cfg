CONSTANTS
  c1 = c1
  c2 = c2
  Cpu = {c1, c2}
  Named = {27}
  Other = {16, 17, 18}
  OTHER_MSRS = 2
  Second = 0
  BusyGuests = FALSE
  MayFail = TRUE
  MaxWrites = 3
  MaxTime = 1
SPECIFICATION Spec
SYMMETRY CpuSymmetry
INVARIANT TypeOK
INVARIANT TableExclusive
INVARIANT TableExact
INVARIANT OneReporter
