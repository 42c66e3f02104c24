SPECIFICATION Spec
CONSTANTS
  Hidden = Hidden
  Rejected = Rejected
  Kinds <- MCKinds
  Starts <- MCStarts
  Adopted <- MCAdopted
  Spoken <- MCSpoken
  MaxSaid <- MCMaxSaid
INVARIANTS
  TypeOK
  HostKept
  RealisedStateVerifies
  LossIsNoticed
  AgainChangesNothing
  RevertRestores
  DiffReachesDesired
  UnsaidKept
  RefusedOnlyForCause
  NewRulesLast
PROPERTY OtherKeysKept
