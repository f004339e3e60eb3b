SPECIFICATION FairSpec
CONSTANTS
  VbusDelay <- MCVbusDelay
  ResetDelay <- MCResetDelay
  PulseDelay <- MCPulseDelay
  EnumDelay <- MCEnumDelay
INVARIANTS RtTypeOK ReadyOnlySuspended DroppedOnlyInReset PortBacked
PROPERTIES VbusRests AcceptedIsDone
