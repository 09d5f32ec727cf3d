----------------------------- MODULE MCSessions -----------------------------
(* Small instances of Sessions for TLC. *)
EXTENDS Sessions, TLC

CONSTANTS d1, c1, c2, h1, h2

CallSymmetry == Permutations(Calls)

=============================================================================
