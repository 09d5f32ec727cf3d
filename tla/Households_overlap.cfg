CONSTANTS
  k1 = k1
  k2 = k2
  k3 = k3
  s1 = s1
  s2 = s2
  NoCode = NoCode
  MaxUsers = 2
  MaxHomes = 2
  Codes = {k1, k2, k3}
  Limit = 1
  Slots = {s1, s2}
SYMMETRY SlotSymmetry
SPECIFICATION Spec
INVARIANTS TypeOK CodesNearLimit
PROPERTIES ImplementsMembership MembersKeepData
CHECK_DEADLOCK FALSE
