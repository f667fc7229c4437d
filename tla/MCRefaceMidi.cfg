SPECIFICATION LiveSpec
CONSTANTS
  Wires = {usb, din}
  Usb = {usb}
  Keys = {0, 1}
  Channels = {c1, c2}
  All = All
  MaxNote = 2
  MaxShift = 1
  Octaves <- MCOctaves
  Sense = 3
  Timeout = 4
  Gap = 1
  MaxSenders = 1
INVARIANT OffsFindTheirNotes
PROPERTIES NoFalseAlarm GoneIsSilent
