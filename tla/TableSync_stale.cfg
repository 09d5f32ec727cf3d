CONSTANTS
  d1 = d1
  d2 = d2
  bill = bill
  goal = goal
  saved = saved
  food1 = food1
  food2 = food2
  custom = custom
  cash1 = cash1
  cash2 = cash2
  system = system
  NoRow = NoRow
  Devices = {d1, d2}
  KindOf <- MCKindOf
  ParentOf <- MCParentOf
  CellOf <- MCCellOf
  NameOf <- MCNameOf
  SystemCategories = {}
  Casts = {{bill}}
  Records = {bill}
  MaxChanges = 2
SPECIFICATION Spec
PROPERTY NewerRowKept
