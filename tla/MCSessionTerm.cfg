CONSTANT
  MaxPrompts = 2
  MaxUnasked = 0
SPECIFICATION SessionSpec
INVARIANT
  TermReachesCommand
CHECK_DEADLOCK FALSE
