SPECIFICATION Spec
CONSTANTS
  Proc = {"p"}
  Skill = {"a", "b"}
  Source = {"s1"}
  Path = {"pa", "pb"}
  Commit = {"c1", "c2", "c3"}
  Upstream = {"a1", "a2", "b3"}
  UserContent = {"u"}
  Torn = "torn"
  Absent = "absent"
  None = None
  Tree <- MCTree
  Published <- MCPublished
  CacheId <- MCCacheId
  InitConfigs <- MCInitConfigs
  UserConfigs <- MCUserConfigs
  Decisions <- MCDecisions
  Fragile = TRUE
  Stubborn = FALSE
INVARIANTS
  TypeOK
  BaselinesNeverOfSettledWork
  PlansStaySafe
  CurrentItemSafe
  ConvergedMeansReconciled
PROPERTIES
  UserWorkKept
  RetiresOnlyUndeclared
