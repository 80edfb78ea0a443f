SPECIFICATION Spec
CONSTANTS
  MaxEntries = 2
  MaxPhotos = 4
  MaxEdits = 1
  MTime <- MCMTime
INVARIANT IndexNamesCompleteSets
INVARIANT CardAndMemoryAgree
PROPERTY ImplementsGallery
PROPERTY CallsDoAsAnswered
