SPECIFICATION Spec
CONSTANTS
  Grants = {g1, g2, g3}
  capacity = 2
  USizeMax = 1
  MaxLeases = 2
  MAX_SOURCES = 3
  FrameLimits = {3}
  ByteLimits = {8}
  SnapLengths = {2}
  MaxPending = 1
CHECK_DEADLOCK FALSE
INVARIANTS
  LedgerExact
  GroupHonest
  NoLostWork
  AttemptsRecorded
PROPERTIES
  ImplementsControl
  WindowKept
