----------------------------- MODULE Membership -----------------------------
(***************************************************************************)
(* What the household service promises about membership: a user belongs to *)
(* one household at most, enters one by founding it or by taking up an     *)
(* invitation, an invitation serves once, and a household ends with nobody *)
(* in it.  Who may invite, remove or dissolve is left to the service.      *)
(***************************************************************************)
CONSTANTS
  Users,
  Homes,
  Invitations,
  NoHome        \* "belongs to no household": none of Homes

VARIABLES
  live,         \* the households that exist
  home,         \* the household of each user
  invited       \* the household each outstanding invitation is to, or NoHome

vars == <<live, home, invited>>

Init ==
  /\ live = {}
  /\ home = [u \in Users |-> NoHome]
  /\ invited = [i \in Invitations |-> NoHome]

\* A household begins, with or without the user it is for.
Found(h) ==
  /\ h \notin live
  /\ live' = live \union {h}
  /\ \/ home' = home
     \/ \E u \in Users : home' = [home EXCEPT ![u] = h]
  /\ UNCHANGED invited

\* Its founder moves in later.
MoveIn(u, h) ==
  /\ h \in live
  /\ \A v \in Users : home[v] # h
  /\ home' = [home EXCEPT ![u] = h]
  /\ UNCHANGED <<live, invited>>

Invite(i, h) ==
  /\ h \in live
  /\ invited[i] = NoHome
  /\ invited' = [invited EXCEPT ![i] = h]
  /\ UNCHANGED <<live, home>>

Join(u, i) ==
  /\ invited[i] # NoHome
  /\ home' = [home EXCEPT ![u] = invited[i]]
  /\ invited' = [invited EXCEPT ![i] = NoHome]
  /\ UNCHANGED live

Leave(u) ==
  /\ home' = [home EXCEPT ![u] = NoHome]
  /\ UNCHANGED <<live, invited>>

Dissolve(h) ==
  /\ h \in live
  /\ live' = live \ {h}
  /\ home' = [u \in Users |-> IF home[u] = h THEN NoHome ELSE home[u]]
  /\ UNCHANGED invited

Next ==
  \/ \E h \in Homes : Found(h) \/ Dissolve(h) \/ \E u \in Users : MoveIn(u, h)
  \/ \E i \in Invitations : \E h \in Homes : Invite(i, h)
  \/ \E u \in Users : Leave(u) \/ \E i \in Invitations : Join(u, i)

Spec == Init /\ [][Next]_vars

=============================================================================
