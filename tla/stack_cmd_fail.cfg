SPECIFICATION Spec
CONSTANTS
  FRNUM_PERIOD = 6
  MaxLag = 1
  CtlOutcomes = {"OK", "FAIL"}
  UrbOutcomes <- NoStall
  PacketSizes <- OneSize
INVARIANT TxAccounted
