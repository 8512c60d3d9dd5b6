SPECIFICATION FairSpec
CONSTANTS
  NumVms = 1
  Cpus <- OneVm
  MaxPendingMsg = 2
  Keys = {"ctrl_a"}
  IpiVectors = {64}
  IcrDests = {1}
  LdrValues = {}
  TimerVectors = {48}
  MaxStimuli = 3
CHECK_DEADLOCK FALSE
PROPERTIES
  PendingInjected
  NotifiedDrained
  SipiStarts
