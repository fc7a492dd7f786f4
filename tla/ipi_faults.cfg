CONSTANTS
  NumCpus = 4
  NodeOf <- MCNodeOf
  Params <- OneFlag
  Faults = {"nomem", "nothread", "timeout", "signal", "ipi"}
SPECIFICATION Spec
INVARIANT TypeOK
INVARIANT BarrierHolds
INVARIANT NoBugExit
INVARIANT NoLostWakeup
INVARIANT OwnCpu
INVARIANT BarrierInv
