SPECIFICATION FairSpec
CONSTANTS
  Cids = {1, 2}
  MAX_NO_RFCOMM_CHANNELS = 1
INVARIANTS SppTypeOK OpenIsCounted
PROPERTY Served
