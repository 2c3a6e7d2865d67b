SPECIFICATION Spec
CONSTANTS
  MAX_GUIDANCE_COUNT = 2
  MAX_AUTOMATIC_GUIDANCE_COUNT = 1
  MaxAsked = 2
  Words <- MCWords
  Lower <- MCLower
  CloneTag <- MCCloneTag
  Noise <- MCNoise
  RoundTables <- MCRoundTables
  SideTables <- MCSideTables
  RoundTable <- MCRoundTable
  SideTable <- MCSideTable
  TableWords <- MCTableWords
  ContainerWords <- MCContainerWords
INVARIANT GuidanceWithinBudget
PROPERTIES TalksOverOnlyIfLate OnlyCompletionAfterEnd GuidanceGetsOut
