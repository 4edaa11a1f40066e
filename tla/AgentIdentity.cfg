\* Two calls on one provider, one on another, two new versions.
CONSTANTS
  p1 = p1
  p2 = p2
  c1 = c1
  c2 = c2
  d1 = d1
  Providers = {p1, p2}
  Calls = {c1, c2, d1}
  Of <- MCOf
  MaxRev = 2
  Torn = Torn
  Down = Down
  Nobody = Nobody
SPECIFICATION Spec
INVARIANT ReloadFindsIdentity
INVARIANT ServerKnowsCommitted
INVARIANT NoRetiredSigner
PROPERTY ServerKeyAdvances
CHECK_DEADLOCK FALSE
