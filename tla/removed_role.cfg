CONSTANTS
  Nil = Nil
  Specs <- RenameSpecs
  Hash <- HashDef
  EPPImages = {"epp"}
  LWSStatuses = {}
  MaxUid = 1
  MaxDeletes = 0
  MaxGeneration = 2
  MaxFaults = 0
  MaxCrashes = 0
  MaxFlaps = 0
SPECIFICATION Spec
INVARIANT NoUnneededLWS
CHECK_DEADLOCK FALSE
