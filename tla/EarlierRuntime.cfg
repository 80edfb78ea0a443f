SPECIFICATION EarlierSpec
CONSTANTS
  MaxFrames = 2
  MaxJpeg = 3
  Sizes = {0, 2, 3, 4}
  MaxClips = 3
  RetroClipEnabled = TRUE
  ProcessedDerivativeEnabled = TRUE
  PresetCount = 2
  Category <- MCCategory
  Windows = {w1, w2}
  None = None
  Inputs = {"keys", "favorite", "recording", "surface"}
  Submitted = 2
  MaxActs = 2
PROPERTY NamedClipIsPlayable
PROPERTY WorkStandsStill
CHECK_DEADLOCK FALSE
