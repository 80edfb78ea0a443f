SPECIFICATION HistorySpec
CONSTANTS
  MaxEntries = 2
  OldPhotos = 2
  MaxSaves = 1
INVARIANT DeleteRemovesAskedPhoto
CHECK_DEADLOCK FALSE
