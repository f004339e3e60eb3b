SPECIFICATION Spec
CONSTANTS
  FRNUM_PERIOD = 8
  MaxLag = 1
  CtlOutcomes = {"OK"}
  UrbOutcomes <- AnyAnswer
  PacketSizes <- OneSize
INVARIANT SentMeansOnWire
