CONSTANTS
  c1 = c1
  c2 = c2
  Cpu = {c1, c2}
  Named = {}
  Other = {0, 16}
  OTHER_MSRS = 2
  Second = 0
  BusyGuests = FALSE
  MayFail = FALSE
  MaxWrites = 2
  MaxTime = 1
SPECIFICATION Spec
SYMMETRY CpuSymmetry
INVARIANT EntryNotOver
