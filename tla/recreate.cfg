CONSTANTS
  Nil = Nil
  Specs <- RecreateSpecs
  Hash <- HashDef
  EPPImages = {"epp"}
  LWSStatuses = {}
  MaxUid = 2
  MaxDeletes = 2
  MaxGeneration = 1
  MaxFaults = 0
  MaxCrashes = 0
  MaxFlaps = 0
SPECIFICATION FairSpec
INVARIANT StatusOfObservedGeneration
PROPERTIES EventuallyConverged ChildrenOwned
CHECK_DEADLOCK FALSE
