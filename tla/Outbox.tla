------------------------------- MODULE Outbox -------------------------------
(***************************************************************************)
(* What the sync of a device promises its user: changes are numbered as    *)
(* they are made; the server's copy only grows, and holds nothing the user *)
(* did not make; the device takes over only what the server has, and no    *)
(* added entry goes for it; the user is told that a change is synced only  *)
(* when the server has it or has refused it, and loses none of those for   *)
(* the server's rows but the refused ones; and what the device shows is    *)
(* wiped only when no added entry would be lost.                           *)
(***************************************************************************)
EXTENDS Naturals

VARIABLES
  made,     \* number of changes made so far
  added,    \* those that added an entry
  here,     \* changes the device shows
  safe,     \* changes the server has
  refused,  \* changes the server has refused
  told      \* changes reported as synced

vars == <<made, added, here, safe, refused, told>>

Init == made = 0 /\ added = {} /\ here = {} /\ safe = {} /\ refused = {} /\ told = {}

Make ==
  /\ made' = made + 1
  /\ here' = here \union {made + 1}
  /\ added' \in {added, added \union {made + 1}}
  /\ UNCHANGED <<safe, refused, told>>

Deliver ==
  /\ \E sent \in SUBSET (1..made) : safe' = safe \union sent
  /\ \E no \in SUBSET (1..made) : refused' = refused \union no
  /\ UNCHANGED <<made, added, here, told>>

TakeOver(undone) ==
  /\ undone \cap added = {}
  /\ \E pulled \in SUBSET safe : here' = (here \ undone) \union pulled
  /\ UNCHANGED <<made, added, safe, refused>>

\* A change no longer shown may be reported too: it was there when the sync began.
Report ==
  \E seen \in SUBSET (1..made), undone \in SUBSET here :
    /\ seen \cap here \subseteq safe \union refused
    /\ seen \cap undone \subseteq refused
    /\ told' = told \union seen
    /\ TakeOver(undone)

\* A sync that is not reported takes over the server's rows all the same.
Replace ==
  \E undone \in SUBSET here : TakeOver(undone) /\ told' = told

Wipe ==
  /\ here \cap added \subseteq safe
  /\ here' = {}
  /\ UNCHANGED <<made, added, safe, refused, told>>

Next == Make \/ Deliver \/ Report \/ Replace \/ Wipe

Spec == Init /\ [][Next]_vars

=============================================================================
