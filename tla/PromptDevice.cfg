CONSTANTS
  pcbTable <- MCpcbTable
  msgTable <- MCmsgTable
  NULL = NULL
  Device <- MCDevice
  MAXMESSAGES = 50
  Idle = Idle
  Waits = 10
  Prompt = TRUE
SPECIFICATION Spec
INVARIANT TestPasses
