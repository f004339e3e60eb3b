SPECIFICATION Spec
CONSTANTS
  Cids = {1}
  MAX_NO_RFCOMM_CHANNELS = 1
INVARIANT RequestsAnswered
