SPECIFICATION Spec
CONSTANTS
  Capacity = 1
  SysExMax = 1
  Voices <- MCVoices
  SysExes <- MCSysExes
  Nothing = Nothing
  Items <- Bytes
INVARIANT DeliversWhatWasSent
