SPECIFICATION Spec
CONSTANTS
  PresetCount = 4
  RecentMax = 3
  Adjustments = 1
  Id <- MCIds
  Category <- MCCategory
  Lowest <- MCLowest
  Highest <- MCHighest
  Step <- MCStep
  NoFile = NoFile
  MaxActs = 6
  MaxSessions = 2
INVARIANT RecentIsHistory
INVARIANT ShownIsLive
INVARIANT StoredIsWhatWasLeft
CHECK_DEADLOCK FALSE
