----------------------------- MODULE Households -----------------------------
(***************************************************************************)
(* Households and accounts on the server: registering, signing in,         *)
(* creating, inviting, joining, removing, deleting a household, deleting   *)
(* an account.  Every handler is a chain of database statements; between   *)
(* two of them other requests run, and a handler may be cut short.         *)
(*                                                                         *)
(* The reads a handler begins with are one step.  What may go wrong lies   *)
(* between the last read and the writes, which trust it; those are steps   *)
(* of their own.                                                           *)
(*                                                                         *)
(* Users and households are numbered in the order they are created; 0 is   *)
(* nobody and no household.                                                *)
(***************************************************************************)
EXTENDS Naturals, FiniteSets

CONSTANTS
  MaxUsers, MaxHomes,   \* bounds: accounts and households ever created
  Codes,                \* invite codes that may be generated
  NoCode,
  Limit,                \* outstanding codes a household may have (5)
  Slots                 \* requests the server handles at a time

ASSUME HouseholdsAssumption ==
  /\ MaxUsers \in Nat /\ MaxHomes \in Nat
  /\ Limit \in Nat \ {0}
  /\ NoCode \notin Codes
  /\ IsFiniteSet(Codes) /\ IsFiniteSet(Slots)

Users == 1..MaxUsers
Homes == 1..MaxHomes
NoHome == 0
Nobody == 0

VARIABLES
  user,         \* users: whether the account exists, and household_id
  house,        \* households: whether the row exists, and ownerId
  data,         \* per household: whether rows of other tables belong to it
  code,         \* household_invites
  founded,      \* household ids ever drawn
  req           \* the request each slot handles, and where it stands

vars == <<user, house, data, code, founded, req>>

Idle == [op |-> "none", at |-> "none", me |-> Nobody, home |-> NoHome,
         other |-> Nobody, code |-> NoCode]

Init ==
  /\ user = [u \in Users |-> [st |-> "none", home |-> NoHome]]
  /\ house = [h \in Homes |-> [st |-> "none", owner |-> Nobody]]
  /\ data = [h \in Homes |-> FALSE]
  /\ code = [k \in Codes |-> [st |-> "none", home |-> NoHome, late |-> FALSE]]
  /\ founded = 0
  /\ req = [s \in Slots |-> Idle]

Members(h) == {u \in Users : user[u].st = "in" /\ user[u].home = h}
Active(h) == {k \in Codes : code[k].st = "open" /\ code[k].home = h /\ ~code[k].late}

\* The row is referenced by an account or an invite (ON DELETE RESTRICT); the
\* rows of other tables are deleted before it.
Referenced(h) == Members(h) # {} \/ \E k \in Codes : code[k].home = h

Done(s) == req' = [req EXCEPT ![s] = Idle]
GoOn(s, at) == req' = [req EXCEPT ![s].at = at]

Own(h, u) ==
  house' = [house EXCEPT ![h] = [st |-> "live", owner |-> u]]

-----------------------------------------------------------------------------
(* Accounts.                                                               *)

\* register, and googleSignIn for a new address: household, user and
\* categories in one transaction.
Register(u) ==
  LET h == founded + 1 IN
  /\ user[u].st = "none" /\ \A v \in 1..(u - 1) : user[v].st # "none"
  /\ founded < MaxHomes
  /\ founded' = h
  /\ Own(h, u)
  /\ user' = [user EXCEPT ![u] = [st |-> "in", home |-> h]]
  /\ data' = [data EXCEPT ![h] = TRUE]
  /\ UNCHANGED <<code, req>>

Request(op, at, u, h) == [Idle EXCEPT !.op = op, !.at = at, !.me = u, !.home = h]

\* A request has arrived and its handler has read what it needs.
Begin(s, r) ==
  /\ req[s] = Idle
  /\ user[r.me].st = "in"
  /\ req' = [req EXCEPT ![s] = r]
  /\ UNCHANGED <<user, house, data, code, founded>>

\* login, findMe: the account names a household.
BeginEnsure(s, u) ==
  /\ user[u].home # NoHome
  /\ Begin(s, Request("ensure", "read", u, user[u].home))

\* login, and googleSignIn for a known address: the household that was read is
\* upserted, then its categories are; findMe creates it and stops there.
EnsureHousehold(s) ==
  /\ req[s].op = "ensure" /\ req[s].at = "read"
  /\ IF house[req[s].home].st = "live" THEN UNCHANGED house
     ELSE Own(req[s].home, req[s].me)
  /\ GoOn(s, "seed") \/ Done(s)
  /\ UNCHANGED <<user, data, code, founded>>

\* The categories every household starts with.
Seed(s) ==
  /\ req[s].at = "seed"
  /\ data' = IF house[req[s].home].st = "live" THEN [data EXCEPT ![req[s].home] = TRUE]
             ELSE data
  /\ Done(s)
  /\ UNCHANGED <<user, house, code, founded>>

-----------------------------------------------------------------------------
(* Creating a household, inviting and joining.                             *)

BeginCreate(s, u) == Begin(s, Request("create", "read", u, NoHome))

\* create: the household, then the user's move into it, then the categories.
Create(s) ==
  LET h == founded + 1 IN
  /\ req[s].op = "create" /\ req[s].at = "read"
  /\ founded < MaxHomes
  /\ founded' = h
  /\ Own(h, req[s].me)
  /\ req' = [req EXCEPT ![s].at = "move", ![s].home = h]
  /\ UNCHANGED <<user, data, code>>

MoveIn(s) ==
  /\ req[s].op = "create" /\ req[s].at = "move"
  /\ IF user[req[s].me].st = "in" /\ house[req[s].home].st = "live"
     THEN /\ user' = [user EXCEPT ![req[s].me].home = req[s].home]
          /\ GoOn(s, "seed")
     ELSE Done(s) /\ UNCHANGED user
  /\ UNCHANGED <<house, data, code, founded>>

\* The account's household exists and belongs to it.
MayManage(u, h) == h # NoHome /\ house[h].st = "live" /\ house[h].owner = u

\* Variant: codes that were used count, those outstanding do not.
UnderUsedLimit(h) ==
  Cardinality({k \in Codes : code[k].home = h /\ code[k].st = "used"}) < Limit

UnderLimit(h) == Cardinality(Active(h)) < Limit

\* generateInvite, up to the codes it counts.
BeginInvite(s, u) ==
  /\ MayManage(u, user[u].home) /\ UnderLimit(user[u].home)
  /\ Begin(s, Request("invite", "counted", u, user[u].home))

\* generateInvite's last statement; the household must still exist.
IssueCode(s) ==
  /\ req[s].op = "invite" /\ req[s].at = "counted"
  /\ IF house[req[s].home].st = "live"
     THEN \E k \in Codes :
            /\ code[k].st = "none"
            /\ code' = [code EXCEPT ![k] = [st |-> "open", home |-> req[s].home,
                                            late |-> FALSE]]
     ELSE UNCHANGED code
  /\ Done(s)
  /\ UNCHANGED <<user, house, data, founded>>

\* 24 hours go by.
Expire(k) ==
  /\ code[k].st = "open" /\ ~code[k].late
  /\ code' = [code EXCEPT ![k].late = TRUE]
  /\ UNCHANGED <<user, house, data, founded, req>>

\* joinByCode, up to its transaction: code, household and user are read.
BeginJoin(s, u, k) ==
  /\ code[k].st = "open" /\ ~code[k].late
  /\ Begin(s, [Request("join", "read", u, code[k].home) EXCEPT !.code = k])

\* Variant: the code is not guarded by its being unused.
RedeemAnyhow(s) ==
  LET k == req[s].code IN
  /\ req[s].op = "join"
  /\ IF user[req[s].me].st = "in"
     THEN /\ code' = [code EXCEPT ![k].st = "used"]
          /\ user' = [user EXCEPT ![req[s].me].home = req[s].home]
     ELSE UNCHANGED <<code, user>>
  /\ Done(s)
  /\ UNCHANGED <<house, data, founded>>

\* Its transaction: the code is taken if nobody was faster, and the user
\* moves; without the user it is rolled back.
Redeem(s) ==
  LET k == req[s].code IN
  /\ req[s].op = "join"
  /\ IF code[k].st = "open" /\ user[req[s].me].st = "in"
     THEN /\ code' = [code EXCEPT ![k].st = "used"]
          /\ user' = [user EXCEPT ![req[s].me].home = req[s].home]
     ELSE UNCHANGED <<code, user>>
  /\ Done(s)
  /\ UNCHANGED <<house, data, founded>>

-----------------------------------------------------------------------------
(* Removing a member, deleting a household.                                *)

\* removeMember reads the member, and then updates it by its id alone.
BeginRemove(s, u, v) ==
  /\ MayManage(u, user[u].home)
  /\ v # u /\ v \in Members(user[u].home)
  /\ Begin(s, [Request("remove", "found", u, user[u].home) EXCEPT !.other = v])

Remove(s) ==
  /\ req[s].op = "remove" /\ req[s].at = "found"
  /\ user' = IF user[req[s].other].st = "in" THEN [user EXCEPT ![req[s].other].home = NoHome]
             ELSE user
  /\ Done(s)
  /\ UNCHANGED <<house, data, code, founded>>

\* Everybody out, everything deleted.
Empty(h) ==
  /\ user' = [u \in Users |-> IF user[u].home = h THEN [user[u] EXCEPT !.home = NoHome]
                              ELSE user[u]]
  /\ data' = [data EXCEPT ![h] = FALSE]
  /\ house' = [house EXCEPT ![h].st = "gone"]

BeginDissolve(s, u) ==
  /\ MayManage(u, user[u].home)
  /\ Begin(s, Request("dissolve", "read", u, user[u].home))

\* The transaction of deleteHousehold.  The rows it deletes before the
\* household do not include the invites, which hold on to it.
Dissolve(s) ==
  LET h == req[s].home IN
  /\ req[s].op = "dissolve" /\ req[s].at = "read"
  /\ IF house[h].st = "live" /\ ~ \E k \in Codes : code[k].home = h THEN Empty(h)
     ELSE UNCHANGED <<user, data, house>>
  /\ Done(s)
  /\ UNCHANGED <<code, founded>>

-----------------------------------------------------------------------------
(* Deleting an account.                                                    *)

\* deleteAccount: who else is in the household, and who of them is the oldest?
BeginDelete(s, u) ==
  LET h == user[u].home
      others == Members(h) \ {u} IN
  \/ h = NoHome /\ Begin(s, Request("account", "leave", u, h))
  \/ h # NoHome /\ others = {} /\ Begin(s, Request("account", "alone", u, h))
  \/ /\ h # NoHome
     /\ \E v \in others :
          /\ \A w \in others : v <= w
          /\ Begin(s, [Request("account", "shared", u, h) EXCEPT !.other = v])

\* That one becomes the owner if this user was.
HandOver(s) ==
  LET h == req[s].home IN
  /\ req[s].op = "account" /\ req[s].at = "shared"
  /\ IF house[h].st = "live" /\ house[h].owner = req[s].me THEN Own(h, req[s].other)
     ELSE UNCHANGED house
  /\ GoOn(s, "leave")
  /\ UNCHANGED <<user, data, code, founded>>

\* Variant: every deletion is a statement of its own.
CleanHomePiecemeal(s) ==
  LET h == req[s].home IN
  /\ req[s].op = "account" /\ req[s].at = "alone"
  /\ data' = [data EXCEPT ![h] = FALSE]
  /\ house' = IF Referenced(h) THEN house ELSE [house EXCEPT ![h].st = "gone"]
  /\ GoOn(s, "leave")
  /\ UNCHANGED <<user, code, founded>>

\* The sole member's transaction.  Deleting the household fails while it is
\* referenced, by this very user for one; the error is swallowed, and the
\* database rolls back everything.
CleanHome(s) ==
  LET h == req[s].home IN
  /\ req[s].op = "account" /\ req[s].at = "alone"
  /\ IF Referenced(h) THEN UNCHANGED <<house, data>>
     ELSE /\ house' = [house EXCEPT ![h].st = "gone"]
          /\ data' = [data EXCEPT ![h] = FALSE]
  /\ GoOn(s, "leave")
  /\ UNCHANGED <<user, code, founded>>

\* Variant: the deleted account keeps its household.
DeleteUserKeepsHome(s) ==
  /\ req[s].op = "account" /\ req[s].at = "leave"
  /\ user' = [user EXCEPT ![req[s].me].st = "gone"]
  /\ Done(s)
  /\ UNCHANGED <<house, data, code, founded>>

DeleteUser(s) ==
  /\ req[s].op = "account" /\ req[s].at = "leave"
  /\ user' = [user EXCEPT ![req[s].me] = [st |-> "gone", home |-> NoHome]]
  /\ Done(s)
  /\ UNCHANGED <<house, data, code, founded>>

\* A statement fails, or the process dies: what was written stays.
Abort(s) ==
  /\ req[s] # Idle
  /\ Done(s)
  /\ UNCHANGED <<user, house, data, code, founded>>

-----------------------------------------------------------------------------
Arrival(s, u) ==
  \/ BeginEnsure(s, u) \/ BeginCreate(s, u) \/ BeginInvite(s, u)
  \/ (\E k \in Codes : BeginJoin(s, u, k))
  \/ (\E v \in Users : BeginRemove(s, u, v))
  \/ BeginDissolve(s, u) \/ BeginDelete(s, u)

Step(s) ==
  \/ EnsureHousehold(s) \/ Seed(s) \/ Create(s) \/ MoveIn(s)
  \/ IssueCode(s) \/ Redeem(s) \/ Remove(s) \/ Dissolve(s)
  \/ HandOver(s) \/ CleanHome(s) \/ DeleteUser(s) \/ Abort(s)

Next ==
  \/ \E u \in Users : Register(u) \/ \E s \in Slots : Arrival(s, u)
  \/ \E k \in Codes : Expire(k)
  \/ \E s \in Slots : Step(s)

Spec == Init /\ [][Next]_vars

-----------------------------------------------------------------------------
(* Properties.                                                             *)

UserState ==
  [st : {"none", "gone"}, home : {NoHome}] \union [st : {"in"}, home : Homes \union {NoHome}]
HouseState ==
  [st : {"none"}, owner : {Nobody}] \union [st : {"live", "gone"}, owner : Users]
CodeState ==
  [st : {"none", "open", "used"}, home : Homes \union {NoHome}, late : BOOLEAN]
ReqState ==
  [op : {"none", "ensure", "create", "invite", "join", "remove", "dissolve", "account"},
   at : {"none", "read", "seed", "move", "counted", "found", "alone", "shared", "leave"},
   me : Users \union {Nobody}, home : Homes \union {NoHome},
   other : Users \union {Nobody}, code : Codes \union {NoCode}]

TypeOK ==
  /\ user \in [Users -> UserState]
  /\ house \in [Homes -> HouseState]
  /\ data \in [Homes -> BOOLEAN]
  /\ code \in [Codes -> CodeState]
  /\ founded \in Homes \union {0}
  /\ req \in [Slots -> ReqState]

\* Membership as promised: whatever requests overlap or are cut short, a user
\* enters a household only by founding it or with an invitation nobody used
\* before (create, joinByCode), and a household ends with nobody in it.
Promise == INSTANCE Membership WITH
  Users <- Users, Homes <- Homes, Invitations <- Codes, NoHome <- NoHome,
  live <- {h \in Homes : house[h].st = "live"},
  home <- [u \in Users |-> user[u].home],
  invited <- [k \in Codes |-> IF code[k].st = "open" THEN code[k].home ELSE NoHome]

ImplementsMembership == Promise!Spec

\* The limit on outstanding codes is checked before the code is created: it
\* can be passed by the requests that overlap, and by no more than these
\* (generateInvite, households.service.ts:106-133).
CodesNearLimit ==
  \A h \in Homes : Cardinality(Active(h)) < Limit + Cardinality(Slots)

\* What a household recorded is never deleted under the feet of a member: also
\* not when somebody joins while its last member deletes his account
\* (deleteAccount, users.service.ts:50-89).
MembersKeepData ==
  [][\A h \in Homes : data[h] /\ ~data'[h] => Members(h)' = {}]_vars

\* A household whose owner may delete it is gone once the transaction that
\* deletes it has run (households.service.ts:316-321).
DeletedHouseholdIsGone ==
  [][\A s \in Slots :
       Dissolve(s) /\ house[req[s].home].st = "live"
         => house'[req[s].home].st = "gone"]_vars

=============================================================================
