SPECIFICATION LiveSpec
CONSTANTS
  slow = slow
  fast = fast
  Notes = {c, g}
  Pedal = Pedal
  Channels = {player}
  Settings <- MCSettings
  Voices = 2
  RingSize = 3
  MaxStranded = 1
  Instruments = {slow, fast}
  Base <- MCBase
  Floor = 1
  Cut = 1
  Fixed = {1}
  None = None
  AutoMode = AutoMode
INVARIANTS WithinLimit NoHangingNote CoresApart
PROPERTIES BlockIsWhole SilenceComes
