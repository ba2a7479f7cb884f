SPECIFICATION FairSpec
CONSTANTS
  Topologies <- MCPool
  Requirements = {}
  Closers = {}
  Dispatchers = {}
  Faults = {"start"}
  None = None
PROPERTIES
  StartReturns
CHECK_DEADLOCK FALSE
