SPECIFICATION RingSpec
CONSTANTS
  RingSize = 4
  RxBytes = {a, b, c}
  NoByte = NoByte
INVARIANTS RingTypeOK
PROPERTIES RingIsQueue
