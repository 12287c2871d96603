CONSTANTS
  Nil = Nil
  Callers = {c1, c2}
  Resources = {"inferenceservices", "clustermodels", "pods"}
  OptionLists <- OptionListsDef
SPECIFICATION FairSpec
INVARIANTS TypeOK RunOnce NothingRunsAfterShutdown SyncedAsReported InformersAsConfigured
PROPERTIES ShutdownTerminates WaitForCacheSyncTerminates
CHECK_DEADLOCK FALSE
