SPECIFICATION Spec
CONSTANTS
  ssi = ssi
  test = test
  a = a
  b = b
  NULL = NULL
  ssi_pcb = ssi
  test_pcb = test
  Pcb <- FourPcbs
  Device <- NoDevice
  MAXMESSAGES = 7
  Behaviour <- Preempted
  Victim <- Clients
  Prudent = TRUE
PROPERTY
  PreemptionSavesState
