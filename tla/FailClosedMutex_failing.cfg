SPECIFICATION FairSpec
CONSTANTS
  Callers = {a, b, c}
  NativeFaults = {"acquire", "release"}
  None = None
INVARIANTS
  IInv
PROPERTIES
  ImplementsLock
  WaiterSeesFailure
CHECK_DEADLOCK FALSE
