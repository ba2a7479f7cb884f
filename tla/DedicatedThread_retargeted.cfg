SPECIFICATION Spec
CONSTANTS
  Threads = {t1}
  Workers = {w1}
  Unmanaged = {u1}
  Starters = {u1}
  Joiners = {w1}
  Budgets = {"Forever"}
  Faulty = {}
  MaxActivations = 3
  None = None
INVARIANTS
  JoinNeverRetargeted
CHECK_DEADLOCK FALSE
