SPECIFICATION FairSpec
CONSTANTS
  code = code
  stack = stack
  UPROCMAX = 3
  POOLSIZE = 1
  TLBSIZE = 2
  Page <- Stack
  Writable <- Nothing
  Data <- Bits
  Image = 0
  Behaviour <- AllEvents
  Orderly = TRUE
INVARIANTS
  TypeOK MutualExclusion FramesOwned TLBCoherent
PROPERTY
  FaultsServed
