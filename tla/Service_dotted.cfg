CONSTANTS
  v1 = v1
  v2 = v2
  bad = bad
  blob = blob
  Torn = Torn
  None = None
  NameOrder <- DottedNames
  Contents = {v1}
  Invalid = {}
  Unreadable = {}
  Modes = {"rename"}
  MaxMishaps = 0
SPECIFICATION FairSpec
PROPERTY DocAllApplied
