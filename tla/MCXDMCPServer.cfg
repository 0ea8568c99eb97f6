CONSTANTS
  Displays = {d1, d2}
  Ids = {1, 2}
  Numbers = {0, 1}
  MaxRequests = 2
  NoSession = NoSession
  BufferSize = 24
SPECIFICATION XDMCPSafety
INVARIANTS
  OneSeatPerSession
  PacketsArrive
  ChosenWell
PROPERTIES
  ManagedStaysKnown
