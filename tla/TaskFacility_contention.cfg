SPECIFICATION Spec
CONSTANTS
  Records = {r1}
  Workers = {w1}
  Clients = {c1, c2}
  Unmanaged = {}
  Dispatchers = {c1, c2}
  TaskWaiters = {w1, c1, c2}
  Policies = {"Queue", "QueueWithTimeout"}
  Faulty = {}
  None = None
SYMMETRY Symmetry
INVARIANTS
  InterestsPinRecord
  NoRecordLeak
  NoLostTaskWakeup
  NoLostCapacityWakeup
  InterruptedTaskWaitIsWoken
PROPERTIES
  RefusedDispatchNeverRan
CHECK_DEADLOCK FALSE
