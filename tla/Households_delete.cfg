CONSTANTS
  k1 = k1
  k2 = k2
  k3 = k3
  s1 = s1
  s2 = s2
  NoCode = NoCode
  MaxUsers = 1
  MaxHomes = 1
  Codes = {k1}
  Limit = 1
  Slots = {s1}
SPECIFICATION Spec
PROPERTY DeletedHouseholdIsGone
CHECK_DEADLOCK FALSE
