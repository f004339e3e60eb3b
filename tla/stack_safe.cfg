SPECIFICATION Spec
CONSTANTS
  FRNUM_PERIOD = 6
  MaxLag = 1
  CtlOutcomes = {"OK", "NOT_SUPPORTED"}
  UrbOutcomes <- AcloHalts
  PacketSizes <- MCSizes
INVARIANTS TypeOK TxAccounted EventAfterSent
PROPERTY ImplementsPort
