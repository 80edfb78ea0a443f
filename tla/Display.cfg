SPECIFICATION FairSpec
CONSTANTS
  MaxFrames = 4
  MaxStarts = 2
INVARIANT OverlayIsFiltered
INVARIANT ImbalanceHasACause
PROPERTY PostingGoesOn
PROPERTY PollDecides
CHECK_DEADLOCK FALSE
