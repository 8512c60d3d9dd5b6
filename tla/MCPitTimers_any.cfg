SPECIFICATION Spec
CONSTANTS
  Core <- TwoCores
  Channels = {0}
  Accesses = {"LatchCount", "Word", "HiByte"}
  Bytes = {0, 1}
  Radix = 2
  Grain = 2
  MaxPendingMsg = 1
  Disciplined = FALSE
  MaxTime = 4
  MaxTimers = 2
CHECK_DEADLOCK FALSE
INVARIANTS
  TypeOK
  CurrentTimerKept
  NoDrift
