SPECIFICATION FairSpec
CONSTANTS
  Callers = {a, b}
  Managed = {a}
  Points = {p}
  Durations <- MCDurations
  Deadlines <- MCDeadlines
  EndOfTime = 3
INVARIANTS
  WakesNeverExtendBudget
PROPERTIES
  SleepNotEarly
  WaitReturns
CHECK_DEADLOCK FALSE
