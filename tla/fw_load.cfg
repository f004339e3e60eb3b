SPECIFICATION FairSpec
CONSTANTS
  FRNUM_PERIOD = 6
  MaxLag = 0
  CtlOutcomes = {"OK", "FAIL", "NOT_SUPPORTED"}
  UrbOutcomes <- Answers
  FwSize <- MCFwSize
INVARIANTS FwTypeOK FirmwareInOrder FirmwareComplete
PROPERTY LoadEnds
