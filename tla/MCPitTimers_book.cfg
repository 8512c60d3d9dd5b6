SPECIFICATION FairSpec
CONSTANTS
  Core <- TwoCores
  Channels = {0, 2}
  Accesses = {"LoByte"}
  Bytes = {1}
  Radix = 2
  Grain = 2
  MaxPendingMsg = 2
  Disciplined = TRUE
  MaxTime = 3
  MaxTimers = 2
CHECK_DEADLOCK FALSE
INVARIANT
  NoStrayTimer
PROPERTY
  CancelTakesEffect
