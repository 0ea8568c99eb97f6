SPECIFICATION UnitySpec
CONSTANTS
  MaxSessions = 2
  Managers = {TRUE, FALSE}
  EarlyRequests = TRUE
INVARIANTS
  UnityInv
  ActiveShown
PROPERTIES
  SeatStops
CHECK_DEADLOCK FALSE
