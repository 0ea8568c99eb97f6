CONSTANTS
  Names = {seat1}
  Seat0 = seat0
  XRemote = xremote0
  NoName = NoName
  MaxBus = 3
  CheckGraphical = TRUE
  NTypes = 2
  RemoteRequired = {"name"}
  MaxEvents = 3
  MaxRemote = 1
  MaxSessions = 1
SPECIFICATION DMSpec
INVARIANTS
  DMInv
  OfferedIsServed
  LogindFollowed
  BusShowsSeats
PROPERTIES
  DMStops
CHECK_DEADLOCK FALSE
