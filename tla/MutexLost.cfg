SPECIFICATION Spec
CONSTANTS
  code = code
  stack = stack
  UPROCMAX = 3
  POOLSIZE = 3
  TLBSIZE = 2
  Page <- TwoPages
  Writable <- Stack
  Data <- Bits
  Image = 0
  Behaviour <- JustTraps
  Orderly = TRUE
INVARIANT
  NotLockedIndefinitely
