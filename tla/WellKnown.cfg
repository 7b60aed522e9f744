SPECIFICATION FairSpec
CONSTANTS
  Proc = {"p"}
  Scope = {"s1", "s2"}
  Skill = {"a", "b"}
  Digest = {"a1", "a2", "b1"}
  Version = {"v1", "v2", "v3"}
  First = "v1"
  Addable = {"b"}
  Unlisted = "unlisted"
  Absent = "absent"
  Torn = "torn"
  None = None
  Index <- MCIndex
  Publishes <- MCPublishes
  InitDeclared <- MCInitDeclared
INVARIANTS
  UpdatedMeansCurrent
  IndexedMeansIntact
PROPERTIES
  Converges
