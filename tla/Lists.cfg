SPECIFICATION Spec
CONSTANTS
  ssi = ssi
  test = test
  a = a
  b = b
  one = one
  two = two
  NULL = NULL
  pcbTable <- FourPcbs
  msgTable <- TwoMessages
  DevNo <- OneDevice
  Talk <- WithTheSSI
  Crowd = 5
SYMMETRY Alike
CHECK_DEADLOCK FALSE
INVARIANTS
  RingsWhole
  TreeAgrees
PROPERTY
  ImplementsSequences
