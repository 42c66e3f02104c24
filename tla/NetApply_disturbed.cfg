CONSTANTS
  c1 = c1
  c2 = c2
  Clients = {c1, c2}
  NoClient = NoClient
  Options <- PlainOptions
  Disturbances = {"slow", "sigint", "user"}
  RETRY_NM_COUNT = 2
  ACTIVATION_RETRY_COUNT = 1
  VERIFY_RETRY_COUNT_DEFAULT = 1
  VERIFY_RETRY_COUNT_OVS = 3
  VERIFY_RETRY_COUNT_SRIOV_MIN = 2
  VERIFY_RETRY_COUNT_SRIOV_MAX = 3
SPECIFICATION Spec
INVARIANT OkMeansCommitted
