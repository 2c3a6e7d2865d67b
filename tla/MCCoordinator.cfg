CONSTANTS
  Goals = {g1, g2}
  Requests = {r1, r2}
  None = None
  MaxAttempts = 2
  Candidates = 1
  RouteLength <- Routes
  StartupWindow = 0
  Observed = TRUE
  SearchOwned = FALSE
  SearchEnabled = TRUE
SYMMETRY Symmetry
SPECIFICATION CoordinatorSpec
CHECK_DEADLOCK FALSE
INVARIANT OneUncancelledGoal
INVARIANT PlanMatchesTask
PROPERTY HandsOver
PROPERTY FaultIsFinal
PROPERTY StallsOnlyWhenBlocked
PROPERTY SearchHasRequest
