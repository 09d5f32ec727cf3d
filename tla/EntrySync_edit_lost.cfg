CONSTANTS
  d1 = d1
  d2 = d2
  coffee = coffee
  tea = tea
  rent = rent
  NoRow = NoRow
  Devices = {d1}
  Contents = {coffee, tea}
  MonthOf <- MCMonthOf
  MaxFailures = 1
  MaxClosed = 1
  EditMidSync = FALSE
  MaxEdits = 2
  MaxInFlight = 1
  MaxAttempts = 2
SPECIFICATION Spec
PROPERTIES EditReachesServer
