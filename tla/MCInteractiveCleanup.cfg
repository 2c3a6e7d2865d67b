SPECIFICATION Spec
CONSTANTS
  g1 = g1
  g2 = g2
  None = None
  Slots <- MCSlots
  NTasks = 2
  MaxRepeats = 2
INVARIANT ActsOnLatestPointing
PROPERTIES NoCommandLost SessionEnds ReportsAreExpected
CHECK_DEADLOCK FALSE
