SPECIFICATION Spec
CONSTANTS
  Records = {r1}
  Workers = {w1}
  Clients = {}
  Unmanaged = {u1}
  Dispatchers = {w1, u1}
  TaskWaiters = {}
  Policies = {"Queue"}
  Faulty = {}
  None = None
INVARIANTS
  NeverReacquiresFacilityMutex
CHECK_DEADLOCK FALSE
