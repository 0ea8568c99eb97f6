CONSTANTS
  c1 = c1
  c2 = c2
  Clients <- MCClients
  NoClient = NoClient
  MAX_MESSAGE_LENGTH = 40
  NameLengths = {0}
  MaxAuth = 2
  MaxRequests = 2
  MaxQueue = 1
  MaxPrompts = 1
  MaxMessages = 1
SYMMETRY MCSymmetry
SPECIFICATION GreeterSafety
INVARIANTS
  StartsWhatWasAsked
  BelievedIsTrue
  GreeterInv
CHECK_DEADLOCK FALSE
