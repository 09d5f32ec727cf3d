---------------------------- MODULE MCHouseholds ----------------------------
(* Small instances of Households for TLC. *)
EXTENDS Households, TLC

CONSTANTS k1, k2, k3, s1, s2

SlotSymmetry == Permutations(Slots) \union Permutations(Codes)

=============================================================================
