SPECIFICATION BoardFairSpec
CONSTANTS
  HSE_STARTUP_TIMEOUT = 4
  Times <- MCTimes
  VbusDelay = 2
INVARIANTS
  ClockTypeOK WithinLimits PllSound SetUpWhole
  BspTypeOK UncutDelayLongEnough InterruptBacked
  TickIsTrue
PROPERTIES
  VbusRests DelayReturns TicksServed BoardRuns
