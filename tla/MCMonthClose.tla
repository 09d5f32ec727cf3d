----------------------------- MODULE MCMonthClose -----------------------------
(* A small household for TLC: two months that can be closed and the next,  *)
(* a row or two of each table, amounts whose sums tell them apart.         *)
EXTENDS MonthClose, TLC

CONSTANTS wage, tax, refund, rent, plumber, spare, put, took, visa, shop, ann, power,
          bank, s1, s2

MCTableOf ==
  wage :> "entry" @@ tax :> "entry" @@ refund :> "entry" @@ rent :> "entry" @@
  plumber :> "entry" @@ spare :> "fund" @@ put :> "fund_movement" @@
  took :> "fund_movement" @@ visa :> "card" @@ shop :> "card_transaction" @@
  ann :> "receivable" @@ power :> "planned_bill" @@ bank :> "account"

MCAmountOf ==
  wage :> 1000 @@ tax :> 200 @@ refund :> 30 @@ rent :> 400 @@ plumber :> 50 @@
  spare :> 5 @@ put :> 20 @@ took :> 7 @@ visa :> 60 @@ shop :> 9 @@ ann :> 11 @@
  power :> 13 @@ bank :> 500

MCParentOf == put :> spare @@ took :> spare @@ shop :> visa

MCMonthOf == wage :> 1 @@ tax :> 1 @@ refund :> 1 @@ rent :> 1 @@ plumber :> 2

MCCategoryOf ==
  wage :> "salary" @@ tax :> "tax" @@ refund :> "given" @@ rent :> "home" @@
  plumber :> "home"

MCKindOf ==
  "salary" :> "income" @@ "tax" :> "incomeDeduction" @@ "given" :> "adjustment" @@
  "home" :> "spending" @@ put :> "contribution" @@ took :> "withdrawal"

SlotSymmetry == Permutations(Slots)

=============================================================================
