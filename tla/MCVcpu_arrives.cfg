SPECIFICATION FairSpec
CONSTANTS
  NumVms = 2
  Cpus <- TwoVms
  MaxPendingMsg = 2
  Keys = {"ctrl_a", "other"}
  IpiVectors = {}
  IcrDests = {}
  LdrValues = {}
  TimerVectors = {}
  MaxStimuli = 7
PROPERTIES
  ConsoleArrives
