SPECIFICATION Spec
CONSTANTS
  Threads = {t1, t2}
  Workers = {}
  Unmanaged = {u1}
  Starters = {t1, t2, u1}
  Joiners = {t1, t2, u1}
  Budgets = {"Forever", "Finite"}
  Faulty = {t1}
  MaxActivations = 3
  None = None
INVARIANTS
  NoLostActivation
  NoLostJoinWakeup
  JoinRegistrationsLive
  ShutdownStopsActivations
  IInv
PROPERTIES
  JoinedMeansEnded
SYMMETRY Symmetry
CHECK_DEADLOCK FALSE
