SPECIFICATION FairSpec
CONSTANTS
  Looks = {warm, mono}
  InitialLook = warm
  MaxFrames = 3
INVARIANT FrameConservation
INVARIANT DecodedFrameIsTaken
INVARIANT HistoryOfOneLook
PROPERTY SnapshotShowsSelection
PROPERTY LookReachesScreen
CHECK_DEADLOCK FALSE
