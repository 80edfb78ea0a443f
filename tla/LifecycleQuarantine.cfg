SPECIFICATION ActivitySpec
CONSTANTS
  MaxSessions = 2
  MaxCaptures = 3
PROPERTY CameraStaysQuarantined
CHECK_DEADLOCK FALSE
