CONSTANTS
  NSessions = 4
  NServers = 4
  Users = {"alice"}
  Configurations <- MCLoginAndSwitch
SPECIFICATION SeatSafety
INVARIANTS
  SeatInv
  ChosenSessionRuns
  SomethingShown
CHECK_DEADLOCK FALSE
