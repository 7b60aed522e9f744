SPECIFICATION Spec
CONSTANTS
  Agent = {"a", "b"}
  Content = {"plain", "repo", "other", "junk"}
  Digest <- MCDigest
  NotSkill = {"junk"}
  Checkout = {"repo"}
  Upstream = "plain"
  UserPlaces = {"a", "b", "move", "scope"}
  MaxEdits = 1
  MaxFaults = 2
  KillAt = {"stage", "toScope", "toMove", "declare", "clear", "apply", "link"}
  None = None
  Layouts <- MCLayouts
  Defaults <- MCDefaults
INVARIANTS
  UndoRestores
  AdoptedMeansAvailable
PROPERTIES
  KeepsContent
CHECK_DEADLOCK FALSE
