CONSTANTS
  NumCpus = 2
  NodeOf <- MCNodeOf
  Params <- FewFlags
  Faults = {"nomem", "nothread", "timeout", "ipi"}
SPECIFICATION FairSpec
PROPERTY InsmodReturns
