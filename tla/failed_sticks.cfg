CONSTANTS
  Nil = Nil
  Specs <- NodeSpecs
  Hash <- HashDef
  EPPImages = {"epp"}
  LWSStatuses = {"Ready"}
  MaxUid = 1
  MaxDeletes = 0
  MaxGeneration = 2
  MaxFaults = 0
  MaxCrashes = 0
  MaxFlaps = 0
SPECIFICATION Spec
INVARIANT FailedIsLatestObservation
CHECK_DEADLOCK FALSE
