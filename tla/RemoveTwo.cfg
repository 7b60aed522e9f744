SPECIFICATION Spec
CONSTANTS
  a = a
  b = b
  r = r
  lib = lib
  prog = prog
  p = p
  g = g
  h = h
  Name = {a, b}
  Remote = {r}
  Dir = {lib}
  Command = {prog}
  Path = {p}
  Branch = {}
  Cert = {}
  Agent = {g, h}
  Mine = {m1}
  Defaults <- MCDefaults
  Torn = Torn
  InitConfigs <- MCInitConfigs
  None = None
  Specs <- MCSpecs
  MaxRemovals = 2
INVARIANT RemovalIsAgreed RemovedMeansGone
PROPERTY DeclaredStaysWhole
CHECK_DEADLOCK FALSE
