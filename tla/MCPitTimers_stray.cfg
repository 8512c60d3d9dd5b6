SPECIFICATION Spec
CONSTANTS
  Core <- TwoCores
  Channels = {0}
  Accesses = {"LoByte"}
  Bytes = {1}
  Radix = 2
  Grain = 1
  MaxPendingMsg = 2
  Disciplined = FALSE
  MaxTime = 3
  MaxTimers = 2
CHECK_DEADLOCK FALSE
INVARIANT
  NoStrayTimer
