----------------------------- MODULE MCEntrySync -----------------------------
(* Small instances of EntrySync for TLC. *)
EXTENDS EntrySync, TLC

CONSTANTS d1, d2, coffee, tea, rent

\* coffee and tea are dated in one month, rent in the next.
MCMonthOf == [c \in Contents |-> IF c = rent THEN "oct" ELSE "sep"]

DeviceSymmetry == Permutations(Devices)

=============================================================================
