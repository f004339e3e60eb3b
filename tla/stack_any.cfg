SPECIFICATION Spec
CONSTANTS
  FRNUM_PERIOD = 8
  MaxLag = 2
  CtlOutcomes = {"OK", "FAIL", "NOT_SUPPORTED"}
  UrbOutcomes <- AnyAnswer
  PacketSizes <- OneSize
INVARIANTS InFlightHeld RxBufferHeld DetachedQuiet PollPeriod
PROPERTIES OnlyLateLost NothingTwice ImplementsPort
