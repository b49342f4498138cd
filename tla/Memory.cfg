SPECIFICATION Spec
CONSTANTS
  code = code
  stack = stack
  UPROCMAX = 3
  POOLSIZE = 1
  TLBSIZE = 2
  Page <- TwoPages
  Writable <- Stack
  Data <- Bits
  Image = 0
  Behaviour <- JustExits
  Orderly = TRUE
PROPERTY
  ImplementsVirtualMemory
