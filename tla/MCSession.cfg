CONSTANT
  MaxPrompts = 2
  MaxUnasked = 2
SPECIFICATION SessionSpec
INVARIANTS
  SessionInv
  OneResult
  TrustsOnlyPAM
PROPERTIES
  SessionStops
  RunReturns
  NothingLeaks
CHECK_DEADLOCK FALSE
