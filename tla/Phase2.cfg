CONSTANTS
  pcbTable <- MCpcbTable
  msgTable <- MCmsgTable
  NULL = NULL
  Device <- MCDevice
  MAXMESSAGES = 50
  Idle = Idle
  Waits = 10
  Prompt = FALSE
SPECIFICATION FairSpec
INVARIANTS TestPasses PoolLasts OtherQueuesWhole
PROPERTIES TerminalWakesPrint TestEnds
