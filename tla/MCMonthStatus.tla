---------------------------- MODULE MCMonthStatus ----------------------------
(* Small instances of MonthStatus for TLC. *)
EXTENDS MonthStatus

CONSTANTS d1, d2

=============================================================================
