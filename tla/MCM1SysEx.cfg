SPECIFICATION LiveSpec
CONSTANTS
  Units = 2
  Tail = 1
  Values = {v1, v2}
  Wires = {usb}
  DinSize = 1
  UsbSize = 1
  Burst = 2
  None = None
INVARIANT LosesOnlyStalled
PROPERTIES LoadIsMessage SendingEnds
