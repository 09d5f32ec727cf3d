CONSTANTS
  d1 = d1
  c1 = c1
  c2 = c2
  h1 = h1
  h2 = h2
  NoHome = NoHome
  Devices = {d1}
  Calls = {c1, c2}
  Homes = {h1}
  MaxTokens = 2
  Lossy = TRUE
SYMMETRY CallSymmetry
SPECIFICATION Spec
INVARIANTS TypeOK ReuseMeansLostAnswer RevokedFamilyStaysRevoked StoredTokenIsGood OneUsableToken RefusedForCause
CHECK_DEADLOCK FALSE
