CONSTANTS
  d1 = d1
  d2 = d2
  coffee = coffee
  tea = tea
  rent = rent
  NoRow = NoRow
  Devices = {d1, d2}
  Contents = {coffee, tea}
  MonthOf <- MCMonthOf
  MaxFailures = 0
  MaxClosed = 1
  EditMidSync = TRUE
  MaxEdits = 2
  MaxInFlight = 2
  MaxAttempts = 2
SPECIFICATION FairSpec
PROPERTIES DevicesConverge ServerRowSettles
