CONSTANTS
  d1 = d1
  d2 = d2
  bill = bill
  goal = goal
  saved = saved
  food1 = food1
  food2 = food2
  custom = custom
  cash1 = cash1
  cash2 = cash2
  system = system
  NoRow = NoRow
  Devices = {d1, d2}
  KindOf <- MCKindOf
  ParentOf <- MCParentOf
  CellOf <- MCCellOf
  NameOf <- MCNameOf
  SystemCategories = {system}
  Casts <- MCCasts
  Records = {bill, goal, saved, food1, food2, custom, cash1, cash2, system}
  MaxChanges = 2
SYMMETRY TableSymmetry
SPECIFICATION Spec
INVARIANTS TypeOK GoneStaysGone PushedIsKept NeverForbidden
PROPERTIES DeletionLeavesTombstone
