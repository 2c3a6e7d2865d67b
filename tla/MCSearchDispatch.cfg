CONSTANTS
  g1 = g1
  None = None
  Goals = {g1}
  MaxAttempts = 2
  Candidates = 1
  RouteLength <- NoRoute
  StartupWindow = 0
  Observed = FALSE
  SearchOwned = TRUE
SPECIFICATION FairDispatchSpec
CHECK_DEADLOCK FALSE
INVARIANT SentIsJournaled
INVARIANT ClosedIsOver
INVARIANT DrainIsAccounted
INVARIANT RetiredMeansQuiet
INVARIANT RestartFindsQuiet
PROPERTY OrphansAreCancelled
