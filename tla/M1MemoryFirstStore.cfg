SPECIFICATION MemorySpec
CONSTANTS
  old = old
  new = new
  LastSector = 2
  Contents <- MCContents
  Preload <- MCPreload
  Garbage = Garbage
  Idle = Idle
INVARIANT NothingPendingIsSaved
