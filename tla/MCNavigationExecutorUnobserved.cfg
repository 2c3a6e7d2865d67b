CONSTANTS
  Goals = {g1, g2, g3}
  None = None
  MaxAttempts = 2
  Candidates = 2
  RouteLength <- Routes
  StartupWindow = 1
  Observed = FALSE
  SearchOwned = TRUE
SYMMETRY Symmetry
SPECIFICATION Spec
CHECK_DEADLOCK FALSE
INVARIANT RefusalNeverDrains
