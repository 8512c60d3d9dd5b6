SPECIFICATION Spec
CONSTANTS
  Core <- TwoCores
  Channels = {0}
  Accesses = {"LoByte"}
  Bytes = {3}
  Radix = 2
  Grain = 2
  MaxPendingMsg = 2
  Disciplined = TRUE
  MaxTime = 4
  MaxTimers = 2
CHECK_DEADLOCK FALSE
INVARIANT
  TimerArmed
