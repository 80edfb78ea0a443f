SPECIFICATION FairSpec
CONSTANTS
  MaxEntries = 2
  OldPhotos = 1
  MaxSaves = 2
INVARIANT SavesAreAnswered
INVARIANT ThumbnailIsLoadedPhoto
INVARIANT IndicesAgree
PROPERTY MessagesExpire
PROPERTY StopReturns
CHECK_DEADLOCK FALSE
PROPERTY StoreIsCalledReady
