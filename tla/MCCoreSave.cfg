SPECIFICATION Spec
CONSTANTS
  Instruments = {jv, cp}
  Sized = {jv}
  Payloads = {v1, v2}
  None = None
  Default = v1
  Debounce = 8
  Arm = 2
  Hold = 10
  Drain = 1
  MaxRetries = 3
INVARIANTS TypeOK NoForgottenEdit BoundedHammering
PROPERTIES CalmUpdateKeepsEdits EditsReachFlash
