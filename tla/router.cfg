CONSTANTS
  Nil = Nil
  Specs <- RouterSpecs
  Hash <- HashDef
  EPPImages = {"epp1", "epp2"}
  LWSStatuses = {}
  MaxUid = 1
  MaxDeletes = 0
  MaxGeneration = 2
  MaxFaults = 0
  MaxCrashes = 1
  MaxFlaps = 0
SPECIFICATION Spec
INVARIANT QuiescentConverged
CHECK_DEADLOCK FALSE
