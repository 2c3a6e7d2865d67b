SPECIFICATION Spec
CONSTANTS
  g1 = g1
  g2 = g2
  None = None
  Goals <- MCGoals
  Job <- MCJob
  Within <- MCWithin
  RobotPoses <- MCRobotPoses
INVARIANTS WorksOnCurrentTask MapIsOfEnvironment ArrivalIsOwn
PROPERTIES CreditIsForTask HandshakeCompletes
CHECK_DEADLOCK FALSE
