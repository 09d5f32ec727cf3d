CONSTANTS
  d1 = d1
  d2 = d2
  coffee = coffee
  tea = tea
  rent = rent
  NoRow = NoRow
  Devices = {d1, d2}
  Contents = {coffee, rent}
  MonthOf <- MCMonthOf
  MaxFailures = 1
  MaxClosed = 1
  EditMidSync = TRUE
  MaxEdits = 2
  MaxInFlight = 2
  MaxAttempts = 2
SPECIFICATION Spec
SYMMETRY DeviceSymmetry
INVARIANTS TypeOK SyncedInsertIsStored NobodyAhead UnchangedCopyOnlyTruncates
PROPERTIES SuccessNeverDropsPushedEdit DeletionIsFinal ClosedMonthFrozen ImplementsRegister
