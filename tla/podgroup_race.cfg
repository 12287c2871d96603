CONSTANTS
  Nil = Nil
  Specs <- NodeSpecs
  Hash <- HashDef
  EPPImages = {"epp"}
  LWSStatuses = {}
  MaxUid = 2
  MaxDeletes = 1
  MaxGeneration = 1
  MaxFaults = 0
  MaxCrashes = 0
  MaxFlaps = 0
SPECIFICATION Spec
INVARIANT GangLWSHasPodGroup
CHECK_DEADLOCK FALSE
