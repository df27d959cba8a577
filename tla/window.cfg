CONSTANTS
  Turn = 16
  Slack = 1
  NI = 4
  Times = 2
  InnerColumns = 1
  PerShard = 2
  IndexLen = 2
  Stores <- MCStores
  Requests <- MCRequests
  MaxShort = 1
  MaxPans = 1
  None = None
SPECIFICATION Spec
INVARIANTS TypeOK AnswersAreTheStores WindowIsTheBox PlanIsEnough
PROPERTY WindowsAreAnswered
CHECK_DEADLOCK FALSE
