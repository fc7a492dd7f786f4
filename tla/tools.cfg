CONSTANTS
  Msrs <- MostMsrs
  CallCpu = {0, 1, 2}
  CallCases <- MCCallCases
  MaxClock = 2
  IpiFails = TRUE
  Options <- MCOptions
  Pages = 2
  Regions = {1, 2}
  Cores = 2
  SysFaults = {"calloc", "clone", "mmap", "munmap", "madvise"}
  IpiFunc = {0, 1}
  MAXNUMA = 2
  Topologies <- MCTopologies
  EmptyNodes = {0, 1}
  RemapFails = TRUE
  PortTrees <- MCPortTrees
  MemTrees <- MCMemTrees
SPECIFICATION ToolsSpec
INVARIANT ShownOnOwnLine
INVARIANT CallTypeOK
INVARIANT FrameOutlivesCalls
INVARIANT TimeWithinElapsed
INVARIANT CallsExact
INVARIANT TlbTypeOK
INVARIANT OwnRegion
INVARIANT FillFaults
INVARIANT TotalsComplete
INVARIANT EachNodeOnce
INVARIANT EachPortOnce
PROPERTY CallsEnd
PROPERTY ShootdownEnds
