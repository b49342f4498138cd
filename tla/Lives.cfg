SPECIFICATION FairSpec
CONSTANTS
  ssi = ssi
  test = test
  a = a
  b = b
  NULL = NULL
  ssi_pcb = ssi
  test_pcb = test
  Pcb <- FourPcbs
  Device <- NoDevice
  MAXMESSAGES = 6
  Behaviour <- Lives
  Victim <- Clients
  Prudent = TRUE
INVARIANTS
  NotBroken OneAnswerPerCall NoOrphans VerdictSound
PROPERTY
  AloneHalts
