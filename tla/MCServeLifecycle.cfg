SPECIFICATION Spec
CONSTANTS
  MaxInFlight = 2
  MaxNotices = 3
  MaxRuns = 3
INVARIANTS
  ReleasedAtExit
  RequestsSeenOut
  LoginReported
  InitEnough
PROPERTIES
  CommandsEnd
  LoginAborts
