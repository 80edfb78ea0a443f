SPECIFICATION Spec
CONSTANTS
  Looks = {warm, mono}
  InitialLook = warm
  MaxFrames = 3
INVARIANT HistoryResetsOnStyleChange
CHECK_DEADLOCK FALSE
