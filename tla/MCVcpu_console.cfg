SPECIFICATION Spec
CONSTANTS
  NumVms = 2
  Cpus <- PairedVms
  MaxPendingMsg = 1
  Keys = {"ctrl_a"}
  IpiVectors = {}
  IcrDests = {2}
  LdrValues = {}
  TimerVectors = {}
  MaxStimuli = 6
CHECK_DEADLOCK FALSE
INVARIANTS
  ConsoleConserved RouteFollowsConsole
PROPERTY
  ConsoleSpec
