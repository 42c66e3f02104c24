CONSTANTS
  T = 16
  MaxLag = 1
  MaxOp = 2
  MaxTail = 1
  MaxRetrieve = 3
  VerifyInterval = 1
  RetryInterval = 2
SPECIFICATION Spec
INVARIANT NeverExpires
