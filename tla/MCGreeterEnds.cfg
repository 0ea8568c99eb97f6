CONSTANTS
  c1 = c1
  c2 = c2
  Clients <- MCOneClient
  NoClient = NoClient
  MAX_MESSAGE_LENGTH = 40
  NameLengths = {0, 13}
  MaxAuth = 2
  MaxRequests = 1
  MaxQueue = 2
  MaxPrompts = 2
  MaxMessages = 2
SPECIFICATION GreeterSpec
INVARIANTS
  WireKeepsMessages
  AnswersReachTheirPrompt
PROPERTIES
  AuthenticationEnds
CHECK_DEADLOCK FALSE
