SPECIFICATION FairSpec
CONSTANTS
  MaxAttempts = 2
  MaxSessions = 2
INVARIANT VerdictOfThisSession
INVARIANT NativeFailureIsReal
PROPERTY GateOpens
CHECK_DEADLOCK FALSE
