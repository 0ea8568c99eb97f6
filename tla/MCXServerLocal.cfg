CONSTANTS
  s1 = s1
  s2 = s2
  script = script
  None = None
  MaxPipe = 1
  Procs <- MCServers
  Servers <- MCServers
  VTs <- MCVTs
  DisplayNumbers <- MCDisplayNumbers
  ForeignNumbers <- MCForeign
SPECIFICATION XSafety
SYMMETRY MCSymmetry
INVARIANTS
  XResourcesInv
CHECK_DEADLOCK FALSE
