SPECIFICATION LiveMemory
CONSTANTS
  old = old
  new = new
  LastSector = 2
  Contents <- MCContents
  Preload <- MCPreload
  Garbage = Garbage
  Idle = Idle
INVARIANTS MemoryTypeOK MirrorIsCovered
PROPERTIES BootFindsSnapshot QuietIsStored
