SPECIFICATION LiveSpec
CONSTANTS
  Buffers = 6
  PerPlay = 4
  Drain = 5
  MaxChanges = 3
INVARIANTS TypeOK MismatchBounded
PROPERTIES DrainedBeforeSwitch RateSettles
