SPECIFICATION Spec
CONSTANTS
  Instruments = {dx}
  Payloads = {v1, v2, v3}
  None = None
  Default = v1
  Stable = 8
  MaxGap = 3
INVARIANTS TypeOK BeliefIsFlash NoRedundantWrite
PROPERTIES SettledIsSaved
