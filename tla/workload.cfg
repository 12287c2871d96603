CONSTANTS
  Nil = Nil
  Specs <- WorkloadSpecs
  Hash <- HashDef
  EPPImages = {"epp"}
  LWSStatuses = {}
  MaxUid = 1
  MaxDeletes = 0
  MaxGeneration = 2
  MaxFaults = 1
  MaxCrashes = 1
  MaxFlaps = 0
SPECIFICATION Spec
INVARIANTS TypeOK QuiescentConverged GangLWSHasPodGroup
PROPERTY IsLevelTriggered
CHECK_DEADLOCK FALSE
