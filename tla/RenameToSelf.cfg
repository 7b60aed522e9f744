SPECIFICATION Spec
CONSTANTS
  Proc = {"p"}
  Skill = {"a"}
  Source = {"s1"}
  Path = {"pa", "pb"}
  Commit = {"c1", "c2"}
  Upstream = {"v1", "v2"}
  UserContent = {}
  Torn = "torn"
  Absent = "absent"
  None = None
  Tree <- MoveTree
  Published <- MC_Published
  CacheId <- MC_CacheId
  InitConfigs <- InitialConfigs
  UserConfigs <- MC_UserConfigs
  Decisions <- MC_Decisions
  Fragile = FALSE
  Stubborn = FALSE
PROPERTY
  RenameMovesDeclaration
