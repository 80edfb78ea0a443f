SPECIFICATION ActivitySpec
CONSTANTS
  MaxSessions = 2
  MaxCaptures = 3
INVARIANT ReleasedInOrder
INVARIANT ReportsStayInSession
INVARIANT CaptureIsGuarded
PROPERTY LiveCallsKeepWhatTheyUse
PROPERTY FailureHidesOutput
PROPERTY PauseReturns
PROPERTY TimerReleasesItsOwn
PROPERTY ShutterIsLetGo
CHECK_DEADLOCK FALSE
