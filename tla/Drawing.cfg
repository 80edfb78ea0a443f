SPECIFICATION DrawingSpec
CONSTANTS
  Geometries <- MCGeometries
  Formats = {"RGB_565"}
  Stale = Stale
  Looks <- MCLooks
  Subjects <- MCSubjects
  Places <- MCPlaces
  Intensities <- MCIntensities
  Adjustments <- MCAdjustments
  Grains <- MCGrains
  Metrics <- MCMetrics
INVARIANT DrawnInRange
INVARIANT TonesStand
INVARIANT RowsAreWhole
INVARIANT ScreenReads
PROPERTY TrailsDecay
