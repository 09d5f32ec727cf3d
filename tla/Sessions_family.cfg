CONSTANTS
  d1 = d1
  c1 = c1
  c2 = c2
  h1 = h1
  h2 = h2
  NoHome = NoHome
  Devices = {d1}
  Calls = {c1}
  Homes = {h1, h2}
  MaxTokens = 3
  Lossy = FALSE
SPECIFICATION Spec
PROPERTY SignedOutForCause
CHECK_DEADLOCK FALSE
