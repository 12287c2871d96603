CONSTANTS
  Nil = Nil
  Names <- NamesDef
  ReplicaCounts <- ReplicaCountsDef
  NodeCounts <- NodeCountsDef
  Templates <- TemplatesDef
  Strategies <- StrategiesDef
SPECIFICATION Spec
INVARIANTS GangDecisionsAgree TasksMatchLWS MinMemberIsGangSize PoolSelectsEveryLeader
CHECK_DEADLOCK FALSE
