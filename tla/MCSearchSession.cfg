CONSTANTS
  None = None
  Requests = 2
  Points = 2
SPECIFICATION FairSpec
CHECK_DEADLOCK FALSE
PROPERTY AnswersOnce
PROPERTY FaultsLatch
PROPERTY SearchIsAnswered
