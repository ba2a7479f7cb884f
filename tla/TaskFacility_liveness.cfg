SPECIFICATION FairSpec
CONSTANTS
  Records = {r1}
  Workers = {w1}
  Clients = {c1}
  Unmanaged = {}
  Dispatchers = {c1}
  TaskWaiters = {c1}
  Policies = {"Queue", "QueueWithTimeout"}
  Faulty = {}
  None = None
PROPERTIES
  
  TaskWaitReturns
CHECK_DEADLOCK FALSE
