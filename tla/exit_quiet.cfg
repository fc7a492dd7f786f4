CONSTANTS
  c1 = c1
  c2 = c2
  Cpu = {c1, c2}
  REASON_NUM = 3
  Probed = {0, 2}
  Named = {0, 1}
  Second = 1
  BusyGuests = FALSE
  MayFail = TRUE
  MaxExits = 3
  MaxTime = 2
SPECIFICATION Spec
SYMMETRY CpuSymmetry
INVARIANT TypeOK
INVARIANT OneReporter
INVARIANT LockInv
INVARIANT TotalsAccounted
INVARIANT NoProbeLeft
INVARIANT NamesKnown
