CONSTANTS
  s1 = s1
  s2 = s2
  script = script
  None = None
  MaxPipe = 1
  Procs <- MCServerAndScript
  Servers <- MCOneServer
  VTs <- MCVTs
  DisplayNumbers <- MCDisplayNumbers
  ForeignNumbers <- MCForeign
SPECIFICATION XSpec
INVARIANTS
  TimerInv
  TableInv
  StoppedOnce
PROPERTIES
  KeepsPromise
  StopIsAnswered
CHECK_DEADLOCK FALSE
