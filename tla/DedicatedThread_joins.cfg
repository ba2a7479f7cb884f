SPECIFICATION FairSpec
CONSTANTS
  Threads = {t1}
  Workers = {w1, w2}
  Unmanaged = {u1}
  Starters = {u1}
  Joiners = {w1, w2}
  Budgets = {"Forever"}
  Faulty = {}
  MaxActivations = 2
  None = None
PROPERTIES
  JoinReturns
  ImplementsActivations
CHECK_DEADLOCK FALSE
