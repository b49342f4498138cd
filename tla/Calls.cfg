SPECIFICATION FairSpec
CONSTANTS
  ssi = ssi
  test = test
  a = a
  b = b
  NULL = NULL
  ssi_pcb = ssi
  test_pcb = test
  Pcb <- FourPcbs
  Device <- TwoDisks
  MAXMESSAGES = 3
  Behaviour <- Calls
  Victim <- Clients
  Prudent = TRUE
INVARIANTS NotBroken OneAnswerPerCall WaiterHasOperation PoolAccounted NeverStops
PROPERTIES EventuallyDispatched ImplementsServiceCalls CallsReturn
