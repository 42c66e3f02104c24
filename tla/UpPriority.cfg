CONSTANTS
  N = 7
  M = 3
  None = None
  Ifaces <- MCIfaces
  Order <- MCOrder
  Kernel <- MCKernel
  Name <- Twins
  MaxRetry = 4
  Inputs <- MixedAndNested
SPECIFICATION Spec
INVARIANTS TypeOK PortAfterController ChildAfterParent NestingAccepted
CHECK_DEADLOCK FALSE
