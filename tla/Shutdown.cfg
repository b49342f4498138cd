CONSTANTS
  pcbTable <- MCpcbTable
  msgTable <- MCmsgTable
  NULL = NULL
  Device <- MCDevice
  MAXMESSAGES = 5
  Idle = Idle
  UPROCMAX = 2
  Strings <- MCStrings
  Requests = 1
  LastRequest <- MCLastRequest
  Orderly = FALSE
SPECIFICATION Spec
INVARIANT DeadStayDead
