CONSTANTS
  Nil = Nil
  Names <- NamesDef
  ReplicaCounts <- ReplicaCountsDef
  NodeCounts <- NodeCountsDef
  Templates <- TemplatesDef
  Strategies <- StrategiesDef
SPECIFICATION Spec
INVARIANT MultiNodeIsGangScheduled
CHECK_DEADLOCK FALSE
