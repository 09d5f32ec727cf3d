---------------------------- MODULE EntryRegister ----------------------------
(***************************************************************************)
(* What the server promises of one ledger entry, as its devices see it: a  *)
(* register whose writes are numbered one after the other, that is never   *)
(* revived once deleted, and that stands still while a month it is dated   *)
(* in is closed.  Writes are decided before they are made.  A decision     *)
(* overtaken by another write or by a close is carried out all the same.   *)
(***************************************************************************)
EXTENDS Naturals

CONSTANTS Contents, MonthOf, NoRow

VARIABLES
  entry,      \* the row
  closed,     \* the closed months
  overtaken,  \* what has overtaken decisions still to be carried out
  raced       \* has an overtaken decision replaced a later write?

Row == [content : Contents, deleted : BOOLEAN, version : Nat, fine : BOOLEAN]

Version == IF entry = NoRow THEN 0 ELSE entry.version

Init ==
  /\ entry = NoRow
  /\ closed = {}
  /\ overtaken = {}
  /\ raced = FALSE

\* The number and the deletion are respected: to the letter while no
\* overtaken decision has blurred what a number means.
InTurn ==
  /\ entry' \in Row
  /\ entry'.version > Version
  /\ ~raced => entry'.version = Version + 1
  /\ ~raced /\ entry # NoRow => (entry.deleted => entry'.deleted)
  /\ raced' = raced

InOpenMonths ==
  /\ MonthOf[entry'.content] \notin closed
  /\ entry # NoRow => MonthOf[entry.content] \notin closed

Overtakes(event) == overtaken' \subseteq overtaken \union {event}

Write == InTurn /\ InOpenMonths /\ Overtakes("written") /\ UNCHANGED closed

WriteAfterClose ==
  "closed" \in overtaken /\ InTurn /\ Overtakes("written") /\ UNCHANGED closed

\* The first overtaken write cannot even be told by its number.
LateWrite ==
  /\ "written" \in overtaken
  /\ entry # NoRow
  /\ entry' \in Row
  /\ ~raced => entry'.version <= Version
  /\ raced' = TRUE
  /\ Overtakes("written")
  /\ UNCHANGED closed

Close(m) ==
  /\ m \notin closed
  /\ closed' = closed \union {m}
  /\ Overtakes("closed")
  /\ UNCHANGED <<entry, raced>>

Reopen(m) ==
  /\ m \in closed
  /\ closed' = closed \ {m}
  /\ UNCHANGED <<entry, overtaken, raced>>

\* A decision is given up, when the transaction fails.
Forget == overtaken' \subseteq overtaken /\ UNCHANGED <<entry, closed, raced>>

Next ==
  \/ Write \/ WriteAfterClose \/ LateWrite \/ Forget
  \/ \E content \in Contents : Close(MonthOf[content]) \/ Reopen(MonthOf[content])

Spec == Init /\ [][Next]_<<entry, closed, overtaken, raced>>

=============================================================================
