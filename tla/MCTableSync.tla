----------------------------- MODULE MCTableSync -----------------------------
(* Small instances of TableSync for TLC: at least one record of each sort,  *)
(* and two of the sorts whose records may stand for the same thing.         *)
EXTENDS TableSync, TLC

CONSTANTS d1, d2, bill, goal, saved, food1, food2, custom, cash1, cash2, system

MCKindOf == [r \in Records |->
  CASE r = bill -> "planned_bill"
    [] r = goal -> "saving_goal"
    [] r = saved -> "goal_contribution"
    [] r \in {food1, food2} -> "budget"
    [] r \in {custom, system} -> "category"
    [] r \in {cash1, cash2} -> "account"]
MCParentOf == [r \in Records |-> goal]
MCCellOf == [r \in Records |-> "food in september"]
MCNameOf == [r \in Records |-> "cash"]

MCCasts == {{bill}, {custom}, {goal, saved}, {food1, food2}, {cash1, cash2}}

TableSymmetry ==
  Permutations(Devices) \union Permutations({food1, food2}) \union
  Permutations({cash1, cash2})

=============================================================================
