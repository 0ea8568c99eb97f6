CONSTANTS
  NSessions = 5
  NServers = 4
  Users = {"alice"}
  Configurations <- MCLockAndEnd
SPECIFICATION SeatSpec
INVARIANTS
  LeftIsLocked
PROPERTIES
  SessionsSurvive
  SeatStops
CHECK_DEADLOCK FALSE
