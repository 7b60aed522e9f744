SPECIFICATION Spec
CONSTANTS
  ann = ann
  bob = bob
  ca = ca
  plain = plain
  byAnn = byAnn
  byBob = byBob
  byCa = byCa
  Skill = {x, y}
  Content = {plain, byAnn, byBob, byCa}
  Mine = Mine
  Signer = {ann, bob}
  Cert = {ca}
  Unsigned = Unsigned
  Invalid = Invalid
  None = None
  SignedBy <- MCSignedBy
  Policies <- MCPolicies
  Forces = {TRUE, FALSE}
  MaxCommands = 4
  MaxEvents = 1
INVARIANT NeverUnverified
SYMMETRY MCSymmetry
CHECK_DEADLOCK FALSE
