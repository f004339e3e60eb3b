SPECIFICATION BoardSpec
CONSTANTS
  HSE_STARTUP_TIMEOUT = 4
  Times <- MCTimes
  VbusDelay = 2
INVARIANT DelayLongEnough
