SPECIFICATION Spec
CONSTANTS
  Topologies <- MCTopologies
  Requirements <- MCRequirements
  Closers = {x1, x2}
  Dispatchers = {d1}
  Faults = {"initialize", "start", "join"}
  None = None
INVARIANTS
  ContextsPartitioned
  RequirementsAreMet
  BindingsTakenOnce
  FailedStartLeavesNothing
  TerminatingContextIsWoken
  CompletionAfterTeardown
  
  WorkOnlyOnceStarted
  IInv
PROPERTIES
  TerminationIsFinal
SYMMETRY Symmetry
CHECK_DEADLOCK FALSE
