CONSTANTS
  NumCpus = 2
  NodeOf <- MCNodeOf
  Params <- ManyFlags
  Faults = {}
SPECIFICATION Spec
INVARIANT NoBugExit
