SPECIFICATION Spec
CONSTANTS
  Proc = {"p"}
  Agent = {"x", "y"}
  Linkable = {"x", "y"}
  Version = {v1, v2}
  Mangled = "mangled"
  Other = {"file", "remains"}
  Remains = "remains"
  None = None
  Shape <- MCShape
  InitEntries <- MCInitEntries
  Policies <- MCPolicies
INVARIANTS
  TypeOK
  AppliedMeansAvailable
  DoctorLeavesNothing
  CopyKept
PROPERTIES
  ForeignKept
  SelectedKept
SYMMETRY Symmetry
VIEW Deciding
