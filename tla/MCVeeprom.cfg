SPECIFICATION Spec
CONSTANTS
  SlotsPerSector = 2
  Instruments = {yc, dx}
  Payloads = {v1, v2}
  None = None
  Blank = Blank
  Garbage = Garbage
  Faults = {"unwritten", "garbled"}
  MaxSeq = 7
INVARIANTS TypeOK SafeErase ProgramsBlank RamAgreesWithFlash SeqUnique
PROPERTIES AtomicRegister
SYMMETRY Symmetry
