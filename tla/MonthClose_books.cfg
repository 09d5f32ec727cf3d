CONSTANTS
  wage = wage
  tax = tax
  refund = refund
  rent = rent
  plumber = plumber
  spare = spare
  put = put
  took = took
  visa = visa
  shop = shop
  ann = ann
  power = power
  bank = bank
  s1 = s1
  s2 = s2
  Rows = {wage, tax, refund, rent, plumber, spare, put, took, visa, shop, ann, power, bank}
  TableOf <- MCTableOf
  AmountOf <- MCAmountOf
  ParentOf <- MCParentOf
  MonthOf <- MCMonthOf
  CategoryOf <- MCCategoryOf
  KindOf <- MCKindOf
  Deductions = {"given"}
  Opened = {wage, spare, bank}
  Balances = {500, 800}
  Months = {1, 2, 3}
  Slots = {s1, s2}
  MaxChanges = 2
SYMMETRY SlotSymmetry
SPECIFICATION Spec
INVARIANTS TypeOK FrozenFiguresAddUp FrozenCountsItsEntries ReportsAgree 
PROPERTIES FrozenMonthKept ClosesWhatDashboardShows
CHECK_DEADLOCK FALSE
