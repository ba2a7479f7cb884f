SPECIFICATION FairSpec
CONSTANTS
  Records = {r1}
  Workers = {w1}
  Clients = {c1}
  Unmanaged = {}
  Dispatchers = {c1}
  TaskWaiters = {}
  Policies = {"Queue"}
  Faulty = {}
  None = None
PROPERTIES
  ShutdownCompletes
CHECK_DEADLOCK FALSE
