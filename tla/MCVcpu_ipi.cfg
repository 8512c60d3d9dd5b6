SPECIFICATION Spec
CONSTANTS
  NumVms = 1
  Cpus <- OneVm
  MaxPendingMsg = 2
  Keys = {}
  IpiVectors = {64}
  IcrDests = {1, 2}
  LdrValues = {2}
  TimerVectors = {48}
  MaxStimuli = 4
CHECK_DEADLOCK FALSE
INVARIANTS
  TypeOK
  NoLostWakeup
  WindowIffPending
  BarrierHolds
