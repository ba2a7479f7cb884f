SPECIFICATION Spec
CONSTANTS
  Records = {r1, r2}
  Workers = {w1, w2}
  Clients = {}
  Unmanaged = {u1}
  Dispatchers = {w1, u1}
  TaskWaiters = {w1}
  Policies = {"Queue", "QueueWithTimeout", "AbandonImmediately"}
  Faulty = {w1}
  None = None
SYMMETRY Symmetry
INVARIANTS
  IInv
  PayloadLifetime
  
  GrantsAreExclusive
  WorkConserved
  NoStrandedGrant
PROPERTIES
  TasksOnlyAdvance
  ImplementsPool
CHECK_DEADLOCK FALSE
