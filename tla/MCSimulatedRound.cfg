SPECIFICATION Spec
CONSTANTS
  None = None
  Lower <- MCLower
  Spelling <- MCSpelling
  Tolerance = 2
  Layouts = 4
  Scripts <- MCScripts
  AliasFiles <- MCAliasFiles
  CatalogFiles <- MCCatalogFiles
  RepeatEvery = 2
  Backlog = 4
  Attempts = 4
  RobotPoses <- MCRobotPoses
INVARIANTS ParsedAsMeant ReadersAgree PlansReachTheTask VerdictIsTrue
PROPERTIES RoundPasses
CHECK_DEADLOCK FALSE
