CONSTANTS
  Nil = Nil
  Specs <- LifecycleSpecs
  Hash <- HashDef
  EPPImages = {"epp"}
  LWSStatuses = {"Ready"}
  MaxUid = 1
  MaxDeletes = 0
  MaxGeneration = 2
  MaxFaults = 1
  MaxCrashes = 0
  MaxFlaps = 1
SPECIFICATION FairSpec
INVARIANTS QuiescentStatus StatusOfObservedGeneration
PROPERTIES EventuallyConverged EventuallyActive ChildrenSettle
CHECK_DEADLOCK FALSE
