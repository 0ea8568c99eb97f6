CONSTANTS
  Users = {1, 2, 3}
  System = {3}
  RealNames = {0, 4}
  SessionNames = {1, 2}
  MaxChanges <- MCMaxChanges
  MaxLogins = 1
  NUM_ENUMERATION_FILES = 2
SPECIFICATION SharedSpec
INVARIANTS
  ListInv
  RowsMirror
  ObsoleteGone
PROPERTIES
  DirectoriesKept
CHECK_DEADLOCK FALSE
