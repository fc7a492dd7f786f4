CONSTANTS
  NumCpus = 4
  NodeOf <- MCNodeOf
  Params <- OneFlag
  Faults = {}
SPECIFICATION FairSpec
INVARIANT ArgsOutliveWorker
INVARIANT LateWorkersOnlyWake
INVARIANT ReportExact
INVARIANT CpusAsAsked
PROPERTY BarrierOpens
PROPERTY ImplementsForkJoin
