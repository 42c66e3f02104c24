CONSTANTS
  v1 = v1
  v2 = v2
  bad = bad
  blob = blob
  Torn = Torn
  None = None
  NameOrder <- TwoNames
  Contents = {v1, bad}
  Invalid = {bad}
  Unreadable = {blob}
  Modes = {"rename", "keep", "broken"}
  MaxMishaps = 1
SPECIFICATION FairSpec
INVARIANTS TypeOK MarkedWasApplied AppliedOnce
PROPERTY EveryFileApplied
