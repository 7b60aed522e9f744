SPECIFICATION CommandsSpec
CONSTANTS
  Proc = {p, q}
  Agent = {"x", "r"}
  Linkable = {"x"}
  Version = {"v1", "v2"}
  Mangled = "mangled"
  Other = {"file", "remains"}
  Remains = "remains"
  None = None
  Shape <- MCShape
  InitEntries <- MCInitEntries
  Policies <- MCPolicies
INVARIANTS
  AppliesAgree
SYMMETRY Symmetry
VIEW Deciding
