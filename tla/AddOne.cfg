SPECIFICATION Spec
CONSTANTS
  a = a
  b = b
  r = r
  s = s
  lib = lib
  prog = prog
  p = p
  q = q
  main = main
  dev = dev
  ca = ca
  g = g
  h = h
  Name = {a, b}
  Remote = {r, s}
  Dir = {lib}
  Command = {prog}
  Path = {p, q}
  Branch = {main, dev}
  Cert = {ca}
  Agent = {g, h}
  Mine = {m1}
  Defaults <- MCDefaults
  Torn = Torn
  InitConfigs <- MCInitConfigs
  None = None
  Specs <- MCSpecs
  Offers <- MCOffers
  Unverified <- MCUnverified
  Inside <- MCInside
  MaxAdds = 1
INVARIANT LossIsAgreed MarksHold AddedIsThere
PROPERTY RedeclaringIsAgreed SourceKept Settles
CHECK_DEADLOCK FALSE
