SPECIFICATION FairSpec
CONSTANTS
  FRNUM_PERIOD = 6
  MaxLag = 1
  CtlOutcomes = {"OK", "FAIL", "NOT_SUPPORTED"}
  UrbOutcomes <- AcloHalts
  PacketSizes <- OneSize
PROPERTIES TxEnds EvtRearmed
