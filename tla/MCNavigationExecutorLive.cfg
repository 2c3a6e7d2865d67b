CONSTANTS
  Goals = {g1, g2, g3, g4}
  None = None
  MaxAttempts = 2
  Candidates = 2
  RouteLength <- Routes
  StartupWindow = 1
  Observed = TRUE
  SearchOwned = FALSE
SPECIFICATION OnePlanSpec
CHECK_DEADLOCK FALSE
PROPERTY SealSettles
PROPERTY PlanEnds
