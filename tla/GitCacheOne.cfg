SPECIFICATION FairSpec
CONSTANTS
  Proc = {"p"}
  Scope = {"s1", "s2"}
  Branch = {"main", "dev"}
  Path = {"a", "b"}
  Root = "."
  Commit = {"c1", "c2"}
  Gone = "gone"
  NoClone = NoClone
  Broken = Broken
  None = None
  InitDefault = "main"
  Defaults = {"dev"}
  Addable = {"a"}
  Pinned <- MCPinned
  Tree <- MCTree
  Replaces <- MCReplaces
  InitTip <- MCInitTip
  Tips <- MCTips
  InitDeclared <- MCInitDeclared
INVARIANTS
  UpdatedMeansCurrent
  MarkerNamesClone
PROPERTIES
  ImplementsGrowingCoverage
  Converges
