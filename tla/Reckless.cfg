SPECIFICATION Spec
CONSTANTS
  ssi = ssi
  test = test
  a = a
  b = b
  NULL = NULL
  ssi_pcb = ssi
  test_pcb = test
  Pcb <- ThreePcbs
  Device <- OneTerm
  MAXMESSAGES = 2
  Behaviour <- Reckless
  Victim <- ThreeClients
  Prudent = FALSE
INVARIANTS
  TypeOK NoLostWakeup OnePlace CountersAccurate VerdictSound NoOrphans
