CONSTANTS
  N = 7
  M = 3
  None = None
  Ifaces <- MCIfaces
  Order <- MCOrder
  Kernel <- MCKernel
  Name <- Twins
  MaxRetry = 4
  Inputs <- Example
SPECIFICATION Spec
INVARIANTS DocPortAfterController
CHECK_DEADLOCK FALSE
