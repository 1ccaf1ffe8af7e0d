SPECIFICATION Spec
CONSTANTS
  k1 = k1
  k2 = k2
  k3 = k3
  enc = enc
  bad = bad
  Kids = {k1, k2, k3, enc, bad}
  Good = {k1, k2, k3}
  Broken = {bad}
  JWKS <- MCJWKS
  Calls = {c1, c2}
  NoKid = NoKid
INVARIANTS
  RefreshFinds
CHECK_DEADLOCK FALSE
