------------------------- MODULE Households_proofs -------------------------
(***************************************************************************)
(* What TLAPS proves of Households for any number of users, households,    *)
(* codes and overlapping requests.                                         *)
(***************************************************************************)
EXTENDS Households, FiniteSetTheorems, TLAPS

\* Ids are drawn in order: nothing names a household before it is founded.
Numbered ==
  /\ \A h \in Homes : h > founded <=> house[h].st = "none"
  /\ \A u \in Users : user[u].home <= founded
  /\ \A k \in Codes : code[k].home <= founded
  /\ \A s \in Slots : req[s].home <= founded

\* A code that was issued is to a household, and keeps it; a request to join
\* goes where its code leads.
Invited ==
  /\ \A k \in Codes : code[k].st # "none" => code[k].home \in Homes
  /\ \A s \in Slots : req[s].op = "join" =>
       /\ req[s].code \in Codes
       /\ code[req[s].code].st # "none"
       /\ code[req[s].code].home = req[s].home
       /\ req[s].at = "read"

\* Only who creates a household knows it before he moves in.
EmptyUntilMoved ==
  \A s \in Slots : req[s].at = "move" =>
    /\ \A u \in Users : user[u].home # req[s].home
    /\ \A k \in Codes : code[k].home # req[s].home
    /\ \A r \in Slots \ {s} : req[r].at = "move" => req[r].home # req[s].home
    /\ \A r \in Slots : req[r].at = "counted" => req[r].home # req[s].home

\* Who a request is from, and about, and where.
Named ==
  \A s \in Slots :
    /\ req[s] # Idle => req[s].me \in Users
    /\ req[s].at \in {"found", "shared"} => req[s].other \in Users
    /\ req[s] # Idle /\ req[s].op # "create" /\ req[s].at # "leave" => req[s].home \in Homes
    /\ req[s].at \in {"seed", "move"} => req[s].home \in Homes

IInv == TypeOK /\ Numbered /\ Invited /\ EmptyUntilMoved /\ Named

USE HouseholdsAssumption DEF Users, Homes, NoHome, Nobody

-----------------------------------------------------------------------------
(* What happens to a request.                                              *)

\* A free slot is a request record like any other.
LEMMA IdleTyped == Idle \in ReqState
  BY DEF Idle, ReqState

\* A request that is done leaves its slot free.
LEMMA DoneFacts ==
  ASSUME TypeOK, NEW s \in Slots, Done(s)
  PROVE  \E r \in ReqState : /\ req' = [req EXCEPT ![s] = r]
                             /\ r = Idle /\ r.op = "none" /\ r.at = "none" /\ r.home = 0
  BY IdleTyped DEF Done, Idle

\* A request that goes on to its next statement keeps all else.
LEMMA GoOnFacts ==
  ASSUME TypeOK, NEW s \in Slots, GoOn(s, "seed") \/ GoOn(s, "leave")
  PROVE  \E r \in ReqState :
           /\ req' = [req EXCEPT ![s] = r]
           /\ r.op = req[s].op /\ r.me = req[s].me /\ r.home = req[s].home
           /\ r.other = req[s].other /\ r.code = req[s].code
           /\ r.at \in {"seed", "leave"} /\ GoOn(s, r.at)
  <1>1. req[s] \in ReqState
    BY DEF TypeOK
  <1>2. CASE GoOn(s, "seed")
    <2> DEFINE r == [req[s] EXCEPT !.at = "seed"]
    <2>1. /\ r \in ReqState /\ r.op = req[s].op /\ r.me = req[s].me /\ r.home = req[s].home
          /\ r.other = req[s].other /\ r.code = req[s].code /\ r.at = "seed"
      BY <1>1 DEF ReqState
    <2>2. req' = [req EXCEPT ![s] = r]
      BY <1>2 DEF GoOn, TypeOK
    <2> QED
      BY <1>2, <2>1, <2>2
  <1>3. CASE GoOn(s, "leave")
    <2> DEFINE r == [req[s] EXCEPT !.at = "leave"]
    <2>1. /\ r \in ReqState /\ r.op = req[s].op /\ r.me = req[s].me /\ r.home = req[s].home
          /\ r.other = req[s].other /\ r.code = req[s].code /\ r.at = "leave"
      BY <1>1 DEF ReqState
    <2>2. req' = [req EXCEPT ![s] = r]
      BY <1>3 DEF GoOn, TypeOK
    <2> QED
      BY <1>3, <2>1, <2>2
  <1> QED
    BY <1>2, <1>3

-----------------------------------------------------------------------------
(* The shape every step has: slot s goes on to request r, and the tables   *)
(* change in ways the other requests may rely on.                          *)

\* A request on its own.
Sound(r) ==
  /\ r \in ReqState
  /\ r.home \in 0..founded
  /\ r.op = "join" => /\ r.code \in Codes /\ code[r.code].st # "none"
                      /\ code[r.code].home = r.home /\ r.at = "read"
  /\ r # Idle => r.me \in Users
  /\ r.at \in {"found", "shared"} => r.other \in Users
  /\ r # Idle /\ r.op # "create" /\ r.at # "leave" => r.home \in Homes
  /\ r.at \in {"seed", "move"} => r.home \in Homes

\* A household that a request outside T is about to move into.
Awaiting(T, h) == \E q \in Slots \ T : req[q].at = "move" /\ req[q].home = h
Awaited(s, h) == Awaiting({s}, h)

TablesTyped ==
  /\ user \in [Users -> UserState]
  /\ house \in [Homes -> HouseState]
  /\ data \in [Homes -> BOOLEAN]
  /\ code \in [Codes -> CodeState]
  /\ founded \in Homes \union {0}

\* The invariant says of each single request that it is sound.
LEMMA SoundRequests ==
  ASSUME IInv, NEW s \in Slots
  PROVE  Sound(req[s])
  <1>1. req[s] \in ReqState
    BY DEF IInv, TypeOK
  <1>2. req[s].home \in 0..founded
    BY <1>1 DEF IInv, TypeOK, Numbered, ReqState
  <1> QED
    BY <1>1, <1>2 DEF IInv, Invited, Named, Sound

\* The slots in T go on to request r: at most one does.
Shape(T, r) ==
  /\ \A p, q \in T : p = q
  /\ T # {} => Sound(r)'
  /\ req' = [q \in Slots |-> IF q \in T THEN r ELSE req[q]]
  /\ TablesTyped'
  /\ founded <= founded'
  /\ \A h \in Homes : h > founded' <=> house'[h].st = "none"
  /\ \A u \in Users : \/ user'[u].home = user[u].home
                      \/ user'[u].home <= founded' /\ ~Awaiting(T, user'[u].home)
  /\ \A k \in Codes : \/ code'[k].home = code[k].home /\ (code[k].st = "none" <=> code'[k].st = "none")
                      \/ /\ code[k].st = "none" /\ code'[k].home \in Homes
                         /\ code'[k].home <= founded' /\ ~Awaiting(T, code'[k].home)
  /\ T # {} /\ r.at = "counted" => ~Awaiting(T, r.home)
  /\ T # {} /\ r.at = "move" =>
       /\ \A u \in Users : user'[u].home # r.home
       /\ \A k \in Codes : code'[k].home # r.home
       /\ \A q \in Slots \ T : req[q].at \in {"move", "counted"} => req[q].home # r.home

\* A step of this shape keeps the invariant.
LEMMA ShapeKeeps ==
  ASSUME IInv, NEW T \in SUBSET Slots, NEW r, Shape(T, r)
  PROVE  IInv'
  <1> USE DEF Shape
  <1>0. /\ req \in [Slots -> ReqState] /\ (T # {} => r \in ReqState)
        /\ user \in [Users -> UserState] /\ user' \in [Users -> UserState]
        /\ code \in [Codes -> CodeState] /\ code' \in [Codes -> CodeState]
        /\ founded \in Nat /\ founded' \in Nat
    BY DEF IInv, TypeOK, TablesTyped, Sound
  <1>1. /\ \A q \in T : req'[q] = r
        /\ \A q \in Slots \ T : req'[q] = req[q]
        /\ req' \in [Slots -> ReqState]
    BY <1>0
  <1>2. TypeOK'
    BY <1>0, <1>1 DEF TypeOK, TablesTyped
  <1>3. Numbered'
    <2>1. \A h \in Homes : h > founded' <=> house'[h].st = "none"
      OBVIOUS
    <2>2. \A u \in Users : user'[u].home <= founded'
      <3> SUFFICES ASSUME NEW u \in Users
                   PROVE  user'[u].home <= founded'
        OBVIOUS
      <3>1. user[u].home <= founded /\ user[u].home \in Nat
        BY <1>0 DEF IInv, Numbered, UserState
      <3> QED
        BY <1>0, <3>1
    <2>3. \A k \in Codes : code'[k].home <= founded'
      <3> SUFFICES ASSUME NEW k \in Codes
                   PROVE  code'[k].home <= founded'
        OBVIOUS
      <3>1. code[k].home <= founded /\ code[k].home \in Nat
        BY <1>0 DEF IInv, Numbered, CodeState
      <3> QED
        BY <1>0, <3>1
    <2>4. \A q \in Slots : req'[q].home <= founded'
      <3> SUFFICES ASSUME NEW q \in Slots
                   PROVE  req'[q].home <= founded'
        OBVIOUS
      <3>1. req[q].home <= founded /\ req[q].home \in Nat
        BY <1>0 DEF IInv, Numbered, ReqState
      <3>2. q \in T => r.home <= founded'
        BY <1>0 DEF Sound
      <3> QED
        BY <1>0, <1>1, <3>1, <3>2
    <2> QED
      BY <2>1, <2>2, <2>3, <2>4 DEF Numbered
  <1>4. Invited'
    <2>1. \A k \in Codes : code'[k].st # "none" => code'[k].home \in Homes
      BY DEF IInv, Invited
    <2>2. ASSUME NEW q \in Slots, req'[q].op = "join"
          PROVE  /\ req'[q].code \in Codes
                 /\ code'[req'[q].code].st # "none"
                 /\ code'[req'[q].code].home = req'[q].home
                 /\ req'[q].at = "read"
      <3>1. CASE q \in T
        BY <1>1, <2>2, <3>1 DEF Sound
      <3>2. CASE q \notin T
        <4>1. /\ req'[q] = req[q]
              /\ req[q].code \in Codes /\ code[req[q].code].st # "none"
              /\ code[req[q].code].home = req[q].home /\ req[q].at = "read"
          BY <1>1, <2>2, <3>2 DEF IInv, Invited
        <4> QED
          BY <4>1
      <3> QED
        BY <3>1, <3>2
    <2> QED
      BY <2>1, <2>2 DEF Invited
  <1>5. EmptyUntilMoved'
    <2> SUFFICES ASSUME NEW m \in Slots, req'[m].at = "move"
                 PROVE  /\ \A u \in Users : user'[u].home # req'[m].home
                        /\ \A k \in Codes : code'[k].home # req'[m].home
                        /\ \A q \in Slots \ {m} : req'[q].at = "move" => req'[q].home # req'[m].home
                        /\ \A q \in Slots : req'[q].at = "counted" => req'[q].home # req'[m].home
      BY DEF EmptyUntilMoved
    <2>1. CASE m \in T
      BY <1>1, <2>1
    <2>2. CASE m \notin T
      <3>1. /\ req'[m] = req[m] /\ Awaiting(T, req[m].home)
            /\ \A u \in Users : user[u].home # req[m].home
            /\ \A k \in Codes : code[k].home # req[m].home
            /\ \A q \in Slots \ {m} : req[q].at = "move" => req[q].home # req[m].home
            /\ \A q \in Slots : req[q].at = "counted" => req[q].home # req[m].home
        BY <1>1, <2>2 DEF IInv, EmptyUntilMoved, Awaiting
      <3>2. T # {} /\ r.at \in {"move", "counted"} => r.home # req[m].home
        BY <2>2, <3>1
      <3> QED
        BY <1>1, <2>2, <3>1, <3>2
    <2> QED
      BY <2>1, <2>2
  <1>6. Named'
    <2> SUFFICES ASSUME NEW q \in Slots
                 PROVE  /\ req'[q] # Idle => req'[q].me \in Users
                        /\ req'[q].at \in {"found", "shared"} => req'[q].other \in Users
                        /\ req'[q] # Idle /\ req'[q].op # "create" /\ req'[q].at # "leave"
                             => req'[q].home \in Homes
                        /\ req'[q].at \in {"seed", "move"} => req'[q].home \in Homes
      BY DEF Named, Idle
    <2>1. CASE q \in T
      BY <1>1, <2>1 DEF Sound, Idle
    <2>2. CASE q \notin T
      BY <1>1, <2>2 DEF IInv, Named
    <2> QED
      BY <2>1, <2>2
  <1> QED
    BY <1>2, <1>3, <1>4, <1>5, <1>6 DEF IInv

\* A step that founds at most new households, keeps what the codes lead to, and moves
\* nobody into a household another request still waits for keeps the invariant.
LEMMA Change ==
  ASSUME IInv, NEW s \in Slots, NEW r, Sound(r)',
         req' = [req EXCEPT ![s] = r],
         TablesTyped', founded <= founded',
         \A h \in Homes : h > founded' <=> house'[h].st = "none",
         \A u \in Users : \/ user'[u].home = user[u].home
                          \/ user'[u].home <= founded' /\ ~Awaited(s, user'[u].home),
         \A k \in Codes : \/ code'[k].home = code[k].home /\ (code[k].st = "none" <=> code'[k].st = "none")
                          \/ /\ code[k].st = "none" /\ code'[k].home \in Homes
                             /\ code'[k].home <= founded' /\ ~Awaited(s, code'[k].home),
         r.at = "counted" => ~Awaited(s, r.home),
         r.at = "move" => /\ \A u \in Users : user'[u].home # r.home
                          /\ \A k \in Codes : code'[k].home # r.home
                          /\ \A q \in Slots \ {s} : req[q].at \in {"move", "counted"} => req[q].home # r.home
  PROVE  IInv'
  <1>1. PICK T \in SUBSET Slots : T = {s}
    OBVIOUS
  <1>2. req' = [q \in Slots |-> IF q \in T THEN r ELSE req[q]]
    BY <1>1 DEF IInv, TypeOK
  <1>3. \A h : Awaiting(T, h) = Awaited(s, h)
    BY <1>1 DEF Awaited
  <1>4. Shape(T, r)
    BY <1>1, <1>2, <1>3 DEF Shape
  <1> QED
    BY <1>4, ShapeKeeps

\* Nothing but the tables changes.
LEMMA OnlyTables ==
  ASSUME IInv, req' = req, TablesTyped', founded <= founded',
         \A h \in Homes : h > founded' <=> house'[h].st = "none",
         \A u \in Users : \/ user'[u].home = user[u].home
                          \/ user'[u].home <= founded' /\ ~Awaiting({}, user'[u].home),
         \A k \in Codes : \/ code'[k].home = code[k].home /\ (code[k].st = "none" <=> code'[k].st = "none")
                          \/ /\ code[k].st = "none" /\ code'[k].home \in Homes
                             /\ code'[k].home <= founded' /\ ~Awaiting({}, code'[k].home)
  PROVE  IInv'
  <1>1. PICK T \in SUBSET Slots : T = {}
    OBVIOUS
  <1>2. PICK r : r = Idle
    OBVIOUS
  <1>3. req' = [q \in Slots |-> IF q \in T THEN r ELSE req[q]]
    BY <1>1 DEF IInv, TypeOK
  <1>4. \A h : Awaiting(T, h) = Awaiting({}, h)
    BY <1>1
  <1>5. Shape(T, r)
    BY <1>1, <1>3, <1>4 DEF Shape
  <1> QED
    BY <1>5, ShapeKeeps

-----------------------------------------------------------------------------
(* Every step has that shape.                                              *)

\* The types of the tables are part of TypeOK.
LEMMA TypedTables == TypeOK => TablesTyped
  BY DEF TypeOK, TablesTyped

\* Nothing but the request changes.
LEMMA OnlyRequest ==
  ASSUME IInv, NEW s \in Slots, NEW r, Sound(r),
         req' = [req EXCEPT ![s] = r],
         r.at # "move", r.at = "counted" => ~Awaited(s, r.home),
         UNCHANGED <<user, house, data, code, founded>>
  PROVE  IInv'
  <1>1. Sound(r)' /\ TablesTyped'
    BY TypedTables DEF IInv, Sound, TablesTyped
  <1>2. founded <= founded' /\ \A h \in Homes : h > founded' <=> house'[h].st = "none"
    BY DEF IInv, Numbered, TypeOK
  <1> QED
    BY <1>1, <1>2, Change

\* A free slot names nothing.
LEMMA IdleSound == ASSUME IInv PROVE Sound(Idle)
  BY IdleTyped DEF Sound, Idle, IInv, TypeOK

\* A request that ends and changes no table keeps the invariant.
LEMMA DoneOnly ==
  ASSUME IInv, NEW s \in Slots, Done(s), UNCHANGED <<user, house, data, code, founded>>
  PROVE  IInv'
  <1>1. PICK r \in ReqState : req' = [req EXCEPT ![s] = r] /\ r = Idle /\ r.at = "none"
    BY DoneFacts DEF IInv
  <1> QED
    BY <1>1, IdleSound, OnlyRequest

\* What a member may name.
LEMMA MemberFacts ==
  ASSUME IInv, NEW u \in Users, user[u].st = "in"
  PROVE  /\ user[u].home \in 0..founded /\ user[u].home \in Homes \union {0}
         /\ \A s \in Slots : user[u].home # 0 => ~Awaited(s, user[u].home)
  <1>1. /\ user[u] \in UserState /\ founded \in Nat
    BY DEF IInv, TypeOK
  <1>2. user[u].home \in Homes \union {0} /\ user[u].home <= founded
    BY <1>1 DEF UserState, IInv, Numbered
  <1>3. \A s \in Slots : user[u].home # 0 => ~Awaited(s, user[u].home)
    BY DEF Awaited, Awaiting, IInv, EmptyUntilMoved
  <1> QED
    BY <1>1, <1>2, <1>3

\* A request that arrives changes no table, and names what it has read.
LEMMA ArrivalKeeps ==
  ASSUME IInv, NEW s \in Slots, NEW u \in Users, Arrival(s, u)
  PROVE  IInv'
  <1>1. CASE BeginEnsure(s, u)
    <2>1. PICK r : r = Request("ensure", "read", u, user[u].home)
      OBVIOUS
    <2>2. /\ req' = [req EXCEPT ![s] = r] /\ user[u].st = "in"
          /\ UNCHANGED <<user, house, data, code, founded>>
      BY <1>1, <2>1 DEF BeginEnsure, Begin, Request, Idle
    <2>3. /\ r.op = "ensure" /\ r.at = "read" /\ r.me = u /\ r.home = user[u].home
          /\ r.other = 0 /\ r.code = NoCode
      BY <2>1 DEF Request, Idle
    <2>4. /\ r \in ReqState /\ r.home \in 0..founded /\ r.home # 0 /\ ~Awaited(s, r.home)
      BY <1>1, <2>1, <2>2, <2>3, MemberFacts DEF BeginEnsure, Request, Idle, ReqState
    <2>5. Sound(r)
      BY <2>3, <2>4 DEF Sound, ReqState
    <2> QED
      BY <2>2, <2>3, <2>4, <2>5, OnlyRequest
  <1>2. CASE BeginCreate(s, u)
    <2>1. PICK r : r = Request("create", "read", u, NoHome)
      OBVIOUS
    <2>2. /\ req' = [req EXCEPT ![s] = r] /\ user[u].st = "in"
          /\ UNCHANGED <<user, house, data, code, founded>>
      BY <1>2, <2>1 DEF BeginCreate, Begin, Request, Idle
    <2>3. /\ r.op = "create" /\ r.at = "read" /\ r.me = u /\ r.home = 0
          /\ r.other = 0 /\ r.code = NoCode
      BY <2>1 DEF Request, Idle
    <2>4. /\ r \in ReqState /\ r.home \in 0..founded
      <3>1. r \in ReqState
        BY <2>1 DEF Request, Idle, ReqState
      <3>2. founded \in Nat
        BY DEF IInv, TypeOK
      <3> QED
        BY <2>3, <3>1, <3>2
    <2>5. Sound(r)
      BY <2>3, <2>4 DEF Sound, ReqState
    <2> QED
      BY <2>2, <2>3, <2>4, <2>5, OnlyRequest
  <1>3. CASE BeginInvite(s, u)
    <2>1. PICK r : r = Request("invite", "counted", u, user[u].home)
      OBVIOUS
    <2>2. /\ req' = [req EXCEPT ![s] = r] /\ user[u].st = "in"
          /\ UNCHANGED <<user, house, data, code, founded>>
      BY <1>3, <2>1 DEF BeginInvite, Begin, Request, Idle
    <2>3. /\ r.op = "invite" /\ r.at = "counted" /\ r.me = u /\ r.home = user[u].home
          /\ r.other = 0 /\ r.code = NoCode
      BY <2>1 DEF Request, Idle
    <2>4. /\ r \in ReqState /\ r.home \in 0..founded /\ r.home # 0 /\ ~Awaited(s, r.home)
      BY <1>3, <2>1, <2>2, <2>3, MemberFacts DEF BeginInvite, MayManage, Request, Idle, ReqState
    <2>5. Sound(r)
      BY <2>3, <2>4 DEF Sound, ReqState
    <2> QED
      BY <2>2, <2>3, <2>4, <2>5, OnlyRequest
  <1>4. CASE BeginDissolve(s, u)
    <2>1. PICK r : r = Request("dissolve", "read", u, user[u].home)
      OBVIOUS
    <2>2. /\ req' = [req EXCEPT ![s] = r] /\ user[u].st = "in"
          /\ UNCHANGED <<user, house, data, code, founded>>
      BY <1>4, <2>1 DEF BeginDissolve, Begin, Request, Idle
    <2>3. /\ r.op = "dissolve" /\ r.at = "read" /\ r.me = u /\ r.home = user[u].home
          /\ r.other = 0 /\ r.code = NoCode
      BY <2>1 DEF Request, Idle
    <2>4. /\ r \in ReqState /\ r.home \in 0..founded /\ r.home # 0 /\ ~Awaited(s, r.home)
      BY <1>4, <2>1, <2>2, <2>3, MemberFacts DEF BeginDissolve, MayManage, Request, Idle, ReqState
    <2>5. Sound(r)
      BY <2>3, <2>4 DEF Sound, ReqState
    <2> QED
      BY <2>2, <2>3, <2>4, <2>5, OnlyRequest
  <1>5. ASSUME NEW k \in Codes, BeginJoin(s, u, k)
        PROVE  IInv'
    <2>1. PICK r : r = [Request("join", "read", u, code[k].home) EXCEPT !.code = k]
      OBVIOUS
    <2>2. /\ req' = [req EXCEPT ![s] = r] /\ user[u].st = "in" /\ code[k].st = "open"
          /\ UNCHANGED <<user, house, data, code, founded>>
      BY <1>5, <2>1 DEF BeginJoin, Begin, Request, Idle
    <2>3. /\ r.op = "join" /\ r.at = "read" /\ r.me = u /\ r.home = code[k].home
          /\ r.other = 0 /\ r.code = k
      BY <2>1 DEF Request, Idle
    <2>4. code[k].home \in Homes /\ code[k].home \in 0..founded
      BY <2>2 DEF IInv, Invited, Numbered, TypeOK
    <2>5. r \in ReqState
      BY <2>1, <2>4 DEF Request, Idle, ReqState
    <2>6. Sound(r)
      BY <2>2, <2>3, <2>4, <2>5 DEF Sound, ReqState
    <2> QED
      BY <2>2, <2>3, <2>6, OnlyRequest
  <1>6. ASSUME NEW v \in Users, BeginRemove(s, u, v)
        PROVE  IInv'
    <2>1. PICK r : r = [Request("remove", "found", u, user[u].home) EXCEPT !.other = v]
      OBVIOUS
    <2>2. /\ req' = [req EXCEPT ![s] = r] /\ user[u].st = "in" /\ user[u].home # 0
          /\ UNCHANGED <<user, house, data, code, founded>>
      BY <1>6, <2>1 DEF BeginRemove, MayManage, Begin, Request, Idle
    <2>3. /\ r.op = "remove" /\ r.at = "found" /\ r.me = u /\ r.home = user[u].home
          /\ r.other = v /\ r.code = NoCode
      BY <2>1 DEF Request, Idle
    <2>4. r \in ReqState /\ r.home \in 0..founded /\ r.home \in Homes
      BY <2>1, <2>2, <2>3, MemberFacts DEF Request, Idle, ReqState
    <2>5. Sound(r)
      BY <2>3, <2>4 DEF Sound, ReqState
    <2> QED
      BY <2>2, <2>3, <2>5, OnlyRequest
  <1>7. CASE BeginDelete(s, u)
    <2>1. PICK r : /\ req' = [req EXCEPT ![s] = r] /\ user[u].st = "in"
                   /\ UNCHANGED <<user, house, data, code, founded>>
                   /\ r.op = "account" /\ r.me = u /\ r.home = user[u].home /\ r.code = NoCode
                   /\ \/ r.at = "leave" /\ r.other = 0
                      \/ r.at = "alone" /\ r.other = 0 /\ r.home # 0
                      \/ r.at = "shared" /\ r.other \in Users /\ r.home # 0
                   /\ r \in ReqState
      <3>1. CASE user[u].home = NoHome /\ Begin(s, Request("account", "leave", u, user[u].home))
        <4>1. PICK r : r = Request("account", "leave", u, user[u].home)
          OBVIOUS
        <4>2. /\ req' = [req EXCEPT ![s] = r] /\ user[u].st = "in"
              /\ UNCHANGED <<user, house, data, code, founded>>
          BY <3>1, <4>1 DEF Begin, Request, Idle
        <4>3. /\ r.op = "account" /\ r.me = u /\ r.home = user[u].home /\ r.code = NoCode
              /\ r.at = "leave" /\ r.other = 0
          BY <4>1 DEF Request, Idle
        <4>4. r \in ReqState
          BY <4>1, <4>2, MemberFacts DEF Request, Idle, ReqState
        <4> QED
          BY <3>1, <4>2, <4>3, <4>4
      <3>2. CASE user[u].home # NoHome /\ Begin(s, Request("account", "alone", u, user[u].home))
        <4>1. PICK r : r = Request("account", "alone", u, user[u].home)
          OBVIOUS
        <4>2. /\ req' = [req EXCEPT ![s] = r] /\ user[u].st = "in"
              /\ UNCHANGED <<user, house, data, code, founded>>
          BY <3>2, <4>1 DEF Begin, Request, Idle
        <4>3. /\ r.op = "account" /\ r.me = u /\ r.home = user[u].home /\ r.code = NoCode
              /\ r.at = "alone" /\ r.other = 0
          BY <4>1 DEF Request, Idle
        <4>4. r \in ReqState
          BY <4>1, <4>2, MemberFacts DEF Request, Idle, ReqState
        <4> QED
          BY <3>2, <4>2, <4>3, <4>4
      <3>3. ASSUME NEW v \in Users, user[u].home # NoHome,
                   Begin(s, [Request("account", "shared", u, user[u].home) EXCEPT !.other = v])
            PROVE  \E r : /\ req' = [req EXCEPT ![s] = r] /\ user[u].st = "in"
                   /\ UNCHANGED <<user, house, data, code, founded>>
                   /\ r.op = "account" /\ r.me = u /\ r.home = user[u].home /\ r.code = NoCode
                   /\ r.at = "shared" /\ r.other \in Users /\ r.home # 0
                   /\ r \in ReqState
        <4>1. PICK r : r = [Request("account", "shared", u, user[u].home) EXCEPT !.other = v]
          OBVIOUS
        <4>2. /\ req' = [req EXCEPT ![s] = r] /\ user[u].st = "in"
              /\ UNCHANGED <<user, house, data, code, founded>>
          BY <3>3, <4>1 DEF Begin, Request, Idle
        <4>3. /\ r.op = "account" /\ r.me = u /\ r.home = user[u].home /\ r.code = NoCode
              /\ r.at = "shared" /\ r.other = v
          BY <4>1 DEF Request, Idle
        <4>4. r \in ReqState
          BY <4>1, <4>2, MemberFacts DEF Request, Idle, ReqState
        <4> QED
          BY <3>3, <4>2, <4>3, <4>4
      <3>4. \/ user[u].home = NoHome /\ Begin(s, Request("account", "leave", u, user[u].home))
            \/ user[u].home # NoHome /\ Begin(s, Request("account", "alone", u, user[u].home))
            \/ \E v \in Users : /\ user[u].home # NoHome
                 /\ Begin(s, [Request("account", "shared", u, user[u].home) EXCEPT !.other = v])
        BY <1>7 DEF BeginDelete, Members
      <3> QED
        BY <3>1, <3>2, <3>3, <3>4
    <2>2. r.home \in 0..founded
      BY <2>1, MemberFacts
    <2>3. Sound(r)
      BY <2>1, <2>2, MemberFacts DEF Sound, ReqState
    <2> QED
      BY <2>1, <2>3, OnlyRequest
  <1> QED
    BY <1>1, <1>2, <1>3, <1>4, <1>5, <1>6, <1>7 DEF Arrival

\* A request ends, or goes on to its next statement, and the tables change.
LEMMA Advance ==
  ASSUME IInv, NEW s \in Slots, Done(s) \/ GoOn(s, "seed") \/ GoOn(s, "leave"),
         \/ Done(s)
         \/ req[s].op # "join" /\ req[s] # Idle /\ (GoOn(s, "seed") => req[s].home \in Homes),
         TablesTyped', founded' = founded,
         \A h \in Homes : h > founded <=> house'[h].st = "none",
         \A u \in Users : \/ user'[u].home = user[u].home \/ user'[u].home = 0
                          \/ user'[u].home <= founded /\ ~Awaited(s, user'[u].home),
         \A k \in Codes : \/ code'[k].home = code[k].home /\ (code[k].st = "none" <=> code'[k].st = "none")
                          \/ /\ code[k].st = "none" /\ code'[k].home \in Homes
                             /\ code'[k].home <= founded /\ ~Awaited(s, code'[k].home)
  PROVE  IInv'
  <1>1. PICK r : /\ req' = [req EXCEPT ![s] = r] /\ r.at \notin {"move", "counted"}
                 /\ Sound(r) /\ r.op # "join"
    <2>1. CASE Done(s)
      BY <2>1, DoneFacts, IdleSound DEF IInv
    <2>2. CASE ~Done(s)
      <3>1. PICK r \in ReqState :
              /\ req' = [req EXCEPT ![s] = r]
              /\ r.op = req[s].op /\ r.me = req[s].me /\ r.home = req[s].home
              /\ r.other = req[s].other /\ r.code = req[s].code
              /\ r.at \in {"seed", "leave"} /\ GoOn(s, r.at)
        BY <2>2, GoOnFacts DEF IInv
      <3>2. Sound(req[s])
        BY SoundRequests
      <3>3. Sound(r)
        BY <2>2, <3>1, <3>2 DEF Sound
      <3> QED
        BY <2>2, <3>1, <3>3
    <2> QED
      BY <2>1, <2>2
  <1>2. Sound(r)'
    BY <1>1 DEF Sound
  <1>3. ~Awaited(s, 0) /\ founded \in Nat
    BY DEF Awaited, Awaiting, IInv, Named, TypeOK
  <1>4. \A u \in Users : \/ user'[u].home = user[u].home
                         \/ user'[u].home <= founded' /\ ~Awaited(s, user'[u].home)
    BY <1>3
  <1>5. /\ \A h \in Homes : h > founded' <=> house'[h].st = "none"
        /\ \A k \in Codes : \/ code'[k].home = code[k].home /\ (code[k].st = "none" <=> code'[k].st = "none")
                            \/ /\ code[k].st = "none" /\ code'[k].home \in Homes
                               /\ code'[k].home <= founded' /\ ~Awaited(s, code'[k].home)
        /\ founded <= founded'
    BY <1>3
  <1>6. r.at # "counted" /\ r.at # "move"
    BY <1>1
  <1> QED
    BY <1>1, <1>2, <1>4, <1>5, <1>6, Change

\* Each row has its type.
LEMMA Rows ==
  ASSUME TypeOK
  PROVE  /\ \A u \in Users : user[u] \in UserState
         /\ \A h \in Homes : house[h] \in HouseState
         /\ \A k \in Codes : code[k] \in CodeState
         /\ \A s \in Slots : req[s] \in ReqState
         /\ founded \in Nat
  BY DEF TypeOK

\* What Own does.
LEMMA OwnFacts ==
  ASSUME TypeOK, NEW h \in Homes, NEW u \in Users, Own(h, u)
  PROVE  /\ house' \in [Homes -> HouseState]
         /\ house'[h].st = "live"
         /\ \A g \in Homes \ {h} : house'[g] = house[g]
  BY DEF Own, TypeOK, HouseState

\* A user goes to another household, or to none.
LEMMA GoesTo ==
  ASSUME TypeOK, NEW u \in Users, NEW h \in Homes \union {0}, user[u].st = "in",
         user' = [user EXCEPT ![u].home = h]
  PROVE  /\ user' \in [Users -> UserState]
         /\ user'[u].home = h /\ user'[u].st = "in"
         /\ \A v \in Users \ {u} : user'[v] = user[v]
  <1>1. user[u] \in UserState /\ user[u].st = "in"
    BY Rows
  <1> DEFINE r == [user[u] EXCEPT !.home = h]
  <1>2. r \in UserState /\ r.home = h /\ r.st = "in"
    BY <1>1 DEF UserState
  <1>3. user' = [user EXCEPT ![u] = r]
    BY DEF TypeOK
  <1> HIDE DEF r
  <1> QED
    BY <1>2, <1>3 DEF TypeOK

\* Every statement of a request keeps the invariant.
LEMMA StepKeeps ==
  ASSUME IInv, NEW s \in Slots, Step(s)
  PROVE  IInv'
  <1>0. /\ TypeOK /\ TablesTyped /\ Sound(req[s])
        /\ \A h \in Homes : h > founded <=> house[h].st = "none"
    BY TypedTables, SoundRequests DEF IInv, Numbered
  <1>1. CASE EnsureHousehold(s)
    <2>1. req[s].home \in Homes /\ req[s].home <= founded /\ req[s].me \in Users /\ req[s] # Idle
      BY <1>0, <1>1, Rows DEF EnsureHousehold, Sound, Idle
    <2>2. house' = house \/ Own(req[s].home, req[s].me)
      BY <1>1 DEF EnsureHousehold
    <2>3. /\ house' \in [Homes -> HouseState]
          /\ \A h \in Homes : h > founded <=> house'[h].st = "none"
      <3>1. CASE house' = house
        BY <1>0, <3>1 DEF TablesTyped
      <3>2. CASE Own(req[s].home, req[s].me)
        <4>1. /\ house' \in [Homes -> HouseState] /\ house'[req[s].home].st = "live"
              /\ \A g \in Homes \ {req[s].home} : house'[g] = house[g]
          BY <1>0, <2>1, <3>2, OwnFacts
        <4>2. ~(req[s].home > founded)
          BY <1>0, <2>1, Rows
        <4> QED
          BY <1>0, <4>1, <4>2
      <3> QED
        BY <2>2, <3>1, <3>2
    <2>4. TablesTyped'
      BY <1>0, <1>1, <2>3 DEF EnsureHousehold, TablesTyped
    <2> QED
      BY <1>1, <2>1, <2>3, <2>4, Advance DEF EnsureHousehold
  <1>2. CASE Seed(s)
    <2>1. TablesTyped'
      BY <1>0, <1>2 DEF Seed, TablesTyped
    <2> QED
      BY <1>0, <1>2, <2>1, Advance DEF Seed
  <1>3. CASE Create(s)
    <2>1. PICK h \in Homes : h = founded + 1
      BY <1>3, Rows, <1>0 DEF Create
    <2>2. req[s] # Idle /\ req[s].me \in Users /\ req[s].op = "create" /\ req[s] \in ReqState
      BY <1>0, <1>3 DEF Create, Idle, Sound
    <2> DEFINE e == [req[s] EXCEPT !.at = "move", !.home = h]
    <2>3. PICK r : r = e
      OBVIOUS
    <2>4. /\ r \in ReqState /\ r.op = "create" /\ r.at = "move" /\ r.home = h /\ r.me \in Users
      BY <2>2, <2>3 DEF ReqState
    <2>5. req' = [req EXCEPT ![s] = r]
      BY <1>3, <2>1, <2>3, <1>0 DEF Create, TypeOK
    <2> HIDE DEF e
    <2>6. founded' = h /\ founded <= founded' /\ founded \in Nat
      BY <1>0, <1>3, <2>1, Rows DEF Create
    <2>7. /\ house' \in [Homes -> HouseState]
          /\ house'[h].st = "live"
          /\ \A g \in Homes \ {h} : house'[g] = house[g]
      BY <1>0, <1>3, <2>1, <2>2, OwnFacts DEF Create
    <2>8. TablesTyped' /\ \A g \in Homes : g > founded' <=> house'[g].st = "none"
      <3>1. TablesTyped'
        BY <1>0, <1>3, <2>6, <2>7 DEF Create, TablesTyped
      <3>2. \A g \in Homes \ {h} : g > founded' <=> g > founded
        BY <2>1, <2>6
      <3> QED
        BY <1>0, <2>6, <2>7, <3>1, <3>2
    <2>9. Sound(r)'
      BY <2>4, <2>6 DEF Sound
    <2>10. /\ \A u \in Users : user'[u].home = user[u].home /\ user'[u].home # h
           /\ \A k \in Codes : code'[k] = code[k] /\ code'[k].home # h
           /\ \A q \in Slots : req[q].home # h
      <3>1. /\ \A u \in Users : user[u].home <= founded /\ user[u].home \in Nat
            /\ \A k \in Codes : code[k].home <= founded /\ code[k].home \in Nat
            /\ \A q \in Slots : req[q].home <= founded /\ req[q].home \in Nat
        BY <1>0, Rows DEF IInv, Numbered, UserState, CodeState, ReqState
      <3> QED
        BY <1>3, <2>1, <2>6, <3>1 DEF Create
    <2> QED
      BY <2>4, <2>5, <2>6, <2>8, <2>9, <2>10, Change
  <1>4. CASE MoveIn(s)
    <2>1. PICK h \in Homes : h = req[s].home
      BY <1>0, <1>4 DEF MoveIn, Sound
    <2>2. req[s] # Idle /\ req[s].me \in Users /\ h <= founded /\ req[s].op = "create"
      BY <1>0, <1>4, <2>1, Rows DEF MoveIn, Idle, Sound
    <2>3. ~Awaited(s, h)
      BY <1>4, <2>1 DEF MoveIn, IInv, EmptyUntilMoved, Awaited, Awaiting
    <2>4. CASE user' = user
      <3>1. TablesTyped'
        BY <1>0, <1>4, <2>4 DEF MoveIn, TablesTyped
      <3> QED
        BY <1>0, <1>4, <2>1, <2>2, <2>4, <3>1, Advance DEF MoveIn
    <2>5. CASE user' # user
      <3>1. user[req[s].me].st = "in" /\ user' = [user EXCEPT ![req[s].me].home = h] /\ GoOn(s, "seed")
        BY <1>4, <2>1, <2>5 DEF MoveIn
      <3>2. /\ user' \in [Users -> UserState] /\ user'[req[s].me].home = h
            /\ \A v \in Users \ {req[s].me} : user'[v] = user[v]
        BY <1>0, <2>2, <3>1, GoesTo
      <3>3. TablesTyped'
        BY <1>0, <1>4, <3>2 DEF MoveIn, TablesTyped
      <3> QED
        BY <1>0, <1>4, <2>1, <2>2, <2>3, <3>1, <3>2, <3>3, Advance DEF MoveIn
    <2> QED
      BY <2>4, <2>5
  <1>5. CASE IssueCode(s)
    <2>1. PICK h \in Homes : h = req[s].home
      BY <1>0, <1>5 DEF IssueCode, Sound, Idle
    <2>2. h <= founded /\ ~Awaited(s, h)
      BY <1>0, <1>5, <2>1, Rows DEF IssueCode, IInv, EmptyUntilMoved, Awaited, Awaiting, Sound
    <2>3. CASE code' = code
      <3>1. TablesTyped'
        BY <1>0, <1>5, <2>3 DEF IssueCode, TablesTyped
      <3> QED
        BY <1>0, <1>5, <2>3, <3>1, Advance DEF IssueCode
    <2>4. ASSUME NEW k \in Codes, code[k].st = "none",
                 code' = [code EXCEPT ![k] = [st |-> "open", home |-> req[s].home, late |-> FALSE]]
          PROVE  IInv'
      <3> DEFINE e == [st |-> "open", home |-> h, late |-> FALSE]
      <3>0. e \in CodeState /\ e.st = "open" /\ e.home = h
        BY DEF CodeState
      <3>1. PICK c \in CodeState : c = e /\ c.st = "open" /\ c.home = h
        BY <3>0
      <3>2. code' = [code EXCEPT ![k] = c]
        BY <2>1, <2>4, <3>1
      <3>3. TablesTyped'
        BY <1>0, <1>5, <3>2 DEF IssueCode, TablesTyped
      <3>4. \A j \in Codes : \/ code'[j] = code[j]
                             \/ code[j].st = "none" /\ code'[j].home = h
        BY <1>0, <2>4, <3>1, <3>2 DEF TypeOK
      <3> QED
        BY <1>0, <1>5, <2>2, <3>3, <3>4, Advance DEF IssueCode
    <2> QED
      BY <1>5, <2>3, <2>4 DEF IssueCode
  <1>6. CASE Redeem(s)
    <2>1. CASE code' = code /\ user' = user
      <3>1. TablesTyped'
        BY <1>0, <1>6, <2>1 DEF Redeem, TablesTyped
      <3> QED
        BY <1>0, <1>6, <2>1, <3>1, Advance DEF Redeem
    <2>2. CASE ~(code' = code /\ user' = user)
      <3>1. PICK k \in Codes : /\ k = req[s].code /\ code[k].st = "open"
                               /\ code[k].home = req[s].home
                               /\ code' = [code EXCEPT ![k].st = "used"]
        BY <1>0, <1>6, <2>2 DEF Redeem, Sound
      <3>2. PICK h \in Homes : h = req[s].home
        BY <3>1 DEF IInv, Invited
      <3>3. /\ req[s].me \in Users /\ user[req[s].me].st = "in"
            /\ user' = [user EXCEPT ![req[s].me].home = h]
        BY <1>0, <1>6, <2>2, <3>2 DEF Redeem, Sound, Idle
      <3>4. /\ user' \in [Users -> UserState] /\ user'[req[s].me].home = h
            /\ \A v \in Users \ {req[s].me} : user'[v] = user[v]
        BY <1>0, <3>3, GoesTo
      <3> DEFINE e == [code[k] EXCEPT !.st = "used"]
      <3>5. PICK c : c = e
        OBVIOUS
      <3>6. code' = [code EXCEPT ![k] = c]
        BY <1>0, <3>1, <3>5 DEF TypeOK
      <3>7. c \in CodeState /\ c.st = "used" /\ c.home = code[k].home
        BY <1>0, <3>5, Rows DEF CodeState
      <3> HIDE DEF e
      <3>8. TablesTyped'
        BY <1>0, <1>6, <3>4, <3>6, <3>7 DEF Redeem, TablesTyped
      <3>9. \A j \in Codes : code'[j].home = code[j].home /\ (code[j].st = "none" <=> code'[j].st = "none")
        BY <1>0, <3>1, <3>6, <3>7 DEF TypeOK
      <3>10. h <= founded /\ ~Awaited(s, h)
        BY <3>1, <3>2 DEF IInv, Numbered, EmptyUntilMoved, Awaited, Awaiting
      <3> QED
        BY <1>0, <1>6, <3>4, <3>8, <3>9, <3>10, Advance DEF Redeem
    <2> QED
      BY <2>1, <2>2
  <1>7. CASE Remove(s)
    <2>1. req[s].other \in Users
      BY <1>0, <1>7 DEF Remove, Sound
    <2>2. user' \in [Users -> UserState] /\ \A v \in Users : user'[v].home = user[v].home \/ user'[v].home = 0
      <3>1. CASE user[req[s].other].st = "in"
        <4>1. PICK u \in Users : u = req[s].other
          BY <2>1
        <4>2. user[u].st = "in" /\ user' = [user EXCEPT ![u].home = 0]
          BY <1>7, <3>1, <4>1 DEF Remove, NoHome
        <4>3. /\ user' \in [Users -> UserState] /\ user'[u].home = 0
              /\ \A v \in Users \ {u} : user'[v] = user[v]
          BY <1>0, <4>2, GoesTo
        <4> QED
          BY <4>3
      <3>2. CASE user[req[s].other].st # "in"
        BY <1>0, <1>7, <3>2 DEF Remove, TypeOK
      <3> QED
        BY <3>1, <3>2
    <2>3. TablesTyped'
      BY <1>0, <1>7, <2>2 DEF Remove, TablesTyped
    <2> QED
      BY <1>0, <1>7, <2>2, <2>3, Advance DEF Remove
  <1>8. CASE Dissolve(s)
    <2>1. CASE UNCHANGED <<user, data, house>>
      <3>1. TablesTyped'
        BY <1>0, <1>8, <2>1 DEF Dissolve, TablesTyped
      <3> QED
        BY <1>0, <1>8, <2>1, <3>1, Advance DEF Dissolve
    <2>2. CASE ~UNCHANGED <<user, data, house>>
      <3>1. PICK h \in Homes : h = req[s].home
        BY <1>0, <1>8 DEF Dissolve, Sound, Idle
      <3>2. house[h].st = "live" /\ Empty(h)
        BY <1>8, <2>2, <3>1 DEF Dissolve
      <3>3. /\ user' \in [Users -> UserState] /\ data' \in [Homes -> BOOLEAN]
            /\ \A v \in Users : user'[v].home = user[v].home \/ user'[v].home = 0
        <4>1. \A v \in Users : user[v] \in UserState
          BY <1>0, Rows
        <4>2. \A v \in Users : user[v].home = h => /\ [user[v] EXCEPT !.home = NoHome] \in UserState
                                                   /\ [user[v] EXCEPT !.home = NoHome].home = 0
          BY <4>1 DEF UserState
        <4> QED
          BY <1>0, <3>2, <4>1, <4>2 DEF Empty, TypeOK
      <3>4. /\ house' \in [Homes -> HouseState]
            /\ \A g \in Homes : g > founded <=> house'[g].st = "none"
        <4> DEFINE e == [house[h] EXCEPT !.st = "gone"]
        <4>1. PICK c : c = e
          OBVIOUS
        <4>2. house[h] \in HouseState /\ house[h].st = "live"
          BY <1>0, <3>2, Rows
        <4>3. c \in HouseState /\ c.st = "gone"
          BY <4>1, <4>2 DEF HouseState
        <4>4. house' = [house EXCEPT ![h] = c]
          BY <1>0, <3>2, <4>1 DEF Empty, TypeOK
        <4> HIDE DEF e
        <4> QED
          BY <1>0, <4>2, <4>3, <4>4 DEF TypeOK
      <3>5. TablesTyped'
        BY <1>0, <1>8, <3>3, <3>4 DEF Dissolve, TablesTyped
      <3> QED
        BY <1>0, <1>8, <3>3, <3>4, <3>5, Advance DEF Dissolve
    <2> QED
      BY <2>1, <2>2
  <1>9. CASE HandOver(s)
    <2>1. /\ req[s].home \in Homes /\ req[s].home <= founded /\ req[s].other \in Users /\ req[s] # Idle
      BY <1>0, <1>9, Rows DEF HandOver, Sound, Idle
    <2>2. house' = house \/ Own(req[s].home, req[s].other)
      BY <1>9 DEF HandOver
    <2>3. /\ house' \in [Homes -> HouseState]
          /\ \A h \in Homes : h > founded <=> house'[h].st = "none"
      <3>1. CASE house' = house
        BY <1>0, <3>1 DEF TablesTyped
      <3>2. CASE Own(req[s].home, req[s].other)
        <4>1. /\ house' \in [Homes -> HouseState] /\ house'[req[s].home].st = "live"
              /\ \A g \in Homes \ {req[s].home} : house'[g] = house[g]
          BY <1>0, <2>1, <3>2, OwnFacts
        <4>2. ~(req[s].home > founded)
          BY <1>0, <2>1, Rows
        <4> QED
          BY <1>0, <4>1, <4>2
      <3> QED
        BY <2>2, <3>1, <3>2
    <2>4. TablesTyped'
      BY <1>0, <1>9, <2>3 DEF HandOver, TablesTyped
    <2> QED
      BY <1>9, <2>1, <2>3, <2>4, Advance DEF HandOver
  <1>10. CASE CleanHome(s)
    <2>1. req[s].home \in Homes /\ req[s] # Idle /\ req[s].op = "account"
      BY <1>0, <1>10 DEF CleanHome, Sound, Idle
    <2>2. /\ house' \in [Homes -> HouseState] /\ data' \in [Homes -> BOOLEAN]
          /\ \A h \in Homes : h > founded <=> house'[h].st = "none"
      <3>1. CASE Referenced(req[s].home)
        BY <1>0, <1>10, <3>1 DEF CleanHome, TablesTyped
      <3>2. CASE ~Referenced(req[s].home)
        <4> DEFINE e == [house[req[s].home] EXCEPT !.st = "gone"]
        <4>1. PICK c : c = e
          OBVIOUS
        <4>2. house' = [house EXCEPT ![req[s].home] = c] /\ data' \in [Homes -> BOOLEAN]
          BY <1>0, <1>10, <2>1, <3>2, <4>1 DEF CleanHome, TypeOK
        <4>3. house[req[s].home].st # "none" /\ house[req[s].home] \in HouseState
          <5>1. req[s].home <= founded /\ founded \in Nat
            BY <1>0, Rows DEF Sound
          <5> QED
            BY <1>0, <2>1, <5>1, Rows
        <4>4. c \in HouseState /\ c.st = "gone"
          BY <4>1, <4>3 DEF HouseState
        <4> HIDE DEF e
        <4> QED
          BY <1>0, <2>1, <4>2, <4>3, <4>4 DEF TypeOK
      <3> QED
        BY <3>1, <3>2
    <2>3. TablesTyped'
      BY <1>0, <1>10, <2>2 DEF CleanHome, TablesTyped
    <2> QED
      BY <1>0, <1>10, <2>1, <2>2, <2>3, Advance DEF CleanHome
  <1>11. CASE DeleteUser(s)
    <2> DEFINE e == [st |-> "gone", home |-> NoHome]
    <2>0. e \in UserState /\ e.home = 0
      BY DEF UserState
    <2>1. PICK c \in UserState : c = e /\ c.home = 0
      BY <2>0
    <2>2. user' = [user EXCEPT ![req[s].me] = c]
      BY <1>11, <2>1 DEF DeleteUser
    <2>3. user' \in [Users -> UserState] /\ \A v \in Users : user'[v].home = user[v].home \/ user'[v].home = 0
      BY <1>0, <2>1, <2>2 DEF TypeOK
    <2>4. TablesTyped'
      BY <1>0, <1>11, <2>3 DEF DeleteUser, TablesTyped
    <2> QED
      BY <1>0, <1>11, <2>3, <2>4, Advance DEF DeleteUser
  <1>12. CASE Abort(s)
    BY <1>12, DoneOnly DEF Abort
  <1> QED
    BY <1>1, <1>2, <1>3, <1>4, <1>5, <1>6, <1>7, <1>8, <1>9, <1>10, <1>11, <1>12 DEF Step

\* Registration founds a household and moves the new user in, in one transaction.
LEMMA RegisterKeeps ==
  ASSUME IInv, NEW u \in Users, Register(u)
  PROVE  IInv'
  <1>1. PICK h \in Homes : h = founded + 1
    BY Rows DEF IInv, Register
  <1>2. /\ founded' = h /\ founded <= founded' /\ founded \in Nat
        /\ data' \in [Homes -> BOOLEAN] /\ req' = req /\ code' = code
    BY <1>1, Rows DEF IInv, TypeOK, Register
  <1>3. /\ house' \in [Homes -> HouseState]
        /\ house'[h].st = "live"
        /\ \A g \in Homes \ {h} : house'[g] = house[g]
    BY <1>1, OwnFacts DEF IInv, Register
  <1> DEFINE e == [st |-> "in", home |-> h]
  <1>4. e \in UserState /\ e.home = h
    BY DEF UserState
  <1>5. user' = [user EXCEPT ![u] = e]
    BY <1>1 DEF Register
  <1> HIDE DEF e
  <1>6. /\ user' \in [Users -> UserState]
        /\ \A v \in Users : user'[v].home = user[v].home \/ user'[v].home = h
    BY <1>4, <1>5 DEF IInv, TypeOK
  <1>7. TablesTyped'
    BY <1>2, <1>3, <1>6, TypedTables DEF IInv, TablesTyped
  <1>8. \A g \in Homes : g > founded' <=> house'[g].st = "none"
    <2>1. \A g \in Homes \ {h} : g > founded' <=> g > founded
      BY <1>1, <1>2
    <2> QED
      BY <1>2, <1>3, <2>1 DEF IInv, Numbered
  <1>9. ~Awaiting({}, h)
    <2>1. \A q \in Slots : req[q].home <= founded /\ req[q].home \in Nat
      BY Rows DEF IInv, Numbered, ReqState
    <2> QED
      BY <1>1, <1>2, <2>1 DEF Awaiting
  <1> QED
    BY <1>2, <1>6, <1>7, <1>8, <1>9, OnlyTables

\* A code that expires goes on leading where it led.
LEMMA ExpireKeeps ==
  ASSUME IInv, NEW k \in Codes, Expire(k)
  PROVE  IInv'
  <1>1. code[k] \in CodeState
    BY Rows DEF IInv
  <1> DEFINE e == [code[k] EXCEPT !.late = TRUE]
  <1>2. e \in CodeState /\ e.home = code[k].home /\ e.st = code[k].st
    BY <1>1 DEF CodeState
  <1>3. code' = [code EXCEPT ![k] = e]
    BY DEF Expire, IInv, TypeOK
  <1> HIDE DEF e
  <1>4. code' \in [Codes -> CodeState]
    BY <1>2, <1>3 DEF IInv, TypeOK
  <1>5. \A j \in Codes : code'[j].home = code[j].home /\ code'[j].st = code[j].st
    BY <1>2, <1>3 DEF IInv, TypeOK
  <1>6. TablesTyped' /\ founded <= founded'
    BY <1>4, TypedTables, Rows DEF IInv, Expire, TablesTyped
  <1> QED
    BY <1>5, <1>6, OnlyTables DEF Expire, IInv, Numbered

\* At first there are no users, households, codes or requests.
LEMMA InitHolds == Init => IInv
  <1> SUFFICES ASSUME Init PROVE IInv
    OBVIOUS
  <1>1. /\ [st |-> "none", home |-> NoHome] \in UserState
        /\ [st |-> "none", owner |-> Nobody] \in HouseState
        /\ [st |-> "none", home |-> NoHome, late |-> FALSE] \in CodeState
    BY DEF UserState, HouseState, CodeState
  <1>2. TypeOK
    BY <1>1, IdleTyped DEF Init, TypeOK
  <1>3. \A s \in Slots : req[s] = Idle /\ req[s].op = "none" /\ req[s].at = "none" /\ req[s].home = 0
    BY DEF Init, Idle
  <1>4. \A h \in Homes : house[h].st = "none" /\ h > founded
    BY DEF Init
  <1>5. Numbered
    BY <1>3, <1>4 DEF Init, Numbered
  <1> QED
    BY <1>2, <1>3, <1>5 DEF IInv, Invited, EmptyUntilMoved, Named, Init

\* Every step keeps the invariant.
LEMMA NextKeeps == IInv /\ [Next]_vars => IInv'
  <1> SUFFICES ASSUME IInv, [Next]_vars PROVE IInv'
    OBVIOUS
  <1>1. CASE Next
    BY <1>1, RegisterKeeps, ArrivalKeeps, ExpireKeeps, StepKeeps DEF Next
  <1>2. CASE UNCHANGED vars
    <2>1. TablesTyped' /\ req' = req /\ user' = user /\ code' = code /\ house' = house /\ founded' = founded
      BY <1>2, TypedTables DEF vars, IInv, TablesTyped
    <2> QED
      BY <2>1, OnlyTables, Rows DEF IInv, Numbered
  <1> QED
    BY <1>1, <1>2

-----------------------------------------------------------------------------
(* The theorems.                                                           *)

\* Nothing a request does leaves the tables or the requests malformed.
THEOREM HouseholdsInvariant == Spec => []IInv
  <1> QED
    BY InitHolds, NextKeeps, PTL DEF Spec

\* The tables keep their types: an account belongs to a household that was
\* founded, a deleted account to none (schema.prisma, users and households).
THEOREM HouseholdTypes == Spec => []TypeOK
  <1>1. IInv => TypeOK
    BY DEF IInv
  <1> QED
    BY <1>1, HouseholdsInvariant, PTL

\* Whatever overlaps and whatever is cut short, a household's rows are deleted
\* only when nobody is left in it (deleteHousehold, deleteAccount).
THEOREM DataKept == Spec => MembersKeepData
  <1>1. ASSUME IInv, [Next]_vars
        PROVE  [\A h \in Homes : data[h] /\ ~data'[h] => Members(h)' = {}]_vars
    <2> SUFFICES ASSUME Next, NEW h \in Homes, data[h], ~data'[h]
                 PROVE  Members(h)' = {}
      BY <1>1
    <2>1. \A g \in Homes : \/ data' = data \/ data' = [data EXCEPT ![g] = TRUE]
                           => data'[h]
      BY <1>1 DEF IInv, TypeOK
    <2>2. \/ \E s \in Slots : Dissolve(s) \/ CleanHome(s)
          \/ data' = data \/ \E g \in Homes : data' = [data EXCEPT ![g] = TRUE]
      <3>1. ASSUME NEW u \in Users, Register(u)
            PROVE  \E g \in Homes : data' = [data EXCEPT ![g] = TRUE]
        <4>1. founded + 1 \in Homes
          BY <1>1, <3>1, Rows DEF IInv, Register
        <4> QED
          BY <3>1, <4>1 DEF Register
      <3>2. ASSUME NEW u \in Users, NEW s \in Slots, Arrival(s, u)
            PROVE  data' = data
        BY <3>2 DEF Arrival, BeginEnsure, BeginCreate, BeginInvite, BeginJoin, BeginRemove,
                    BeginDissolve, BeginDelete, Begin
      <3>3. ASSUME NEW k \in Codes, Expire(k)
            PROVE  data' = data
        BY <3>3 DEF Expire
      <3>4. ASSUME NEW s \in Slots, Seed(s)
            PROVE  data' = data \/ \E g \in Homes : data' = [data EXCEPT ![g] = TRUE]
        BY <1>1, <3>4, SoundRequests DEF Seed, Sound
      <3>5. ASSUME NEW s \in Slots, Step(s), ~Seed(s)
            PROVE  Dissolve(s) \/ CleanHome(s) \/ data' = data
        BY <3>5 DEF Step, EnsureHousehold, Create, MoveIn, IssueCode, Redeem, Remove, HandOver,
                    DeleteUser, Abort
      <3> QED
        BY <3>1, <3>2, <3>3, <3>4, <3>5 DEF Next
    <2>3. PICK s \in Slots : Dissolve(s) \/ CleanHome(s)
      BY <2>1, <2>2
    <2>4. CASE Dissolve(s)
      <3>1. Empty(req[s].home) /\ req[s].home = h
        BY <1>1, <2>4 DEF Dissolve, Empty, IInv, TypeOK
      <3>2. \A u \in Users : user'[u].home # h
        <4> SUFFICES ASSUME NEW u \in Users PROVE user'[u].home # h
          OBVIOUS
        <4>1. user[u] \in UserState
          BY <1>1, Rows DEF IInv
        <4>2. [user[u] EXCEPT !.home = NoHome].home # h
          BY <4>1 DEF UserState
        <4> QED
          BY <3>1, <4>2 DEF Empty
      <3> QED
        BY <3>2 DEF Members
    <2>5. CASE CleanHome(s)
      <3>1. ~Referenced(h) /\ user' = user
        BY <1>1, <2>5 DEF CleanHome, IInv, TypeOK
      <3> QED
        BY <3>1 DEF Referenced, Members
    <2> QED
      BY <2>3, <2>4, <2>5
  <1> QED
    BY <1>1, HouseholdsInvariant, PTL DEF Spec, MembersKeepData

-----------------------------------------------------------------------------
(* The refinement.                                                         *)

Live == {h \in Homes : house[h].st = "live"}
HomeOf == [u \in Users |-> user[u].home]
Invitation == [k \in Codes |-> IF code[k].st = "open" THEN code[k].home ELSE NoHome]

\* A household is (again) one that exists, and nobody moves.
LEMMA OwnFounds ==
  ASSUME TypeOK, NEW h \in Homes, NEW u \in Users, Own(h, u), house[h].st # "live",
         user' = user, code' = code
  PROVE  Promise!Found(h)
  <1>1. house'[h].st = "live" /\ \A g \in Homes \ {h} : house'[g] = house[g]
    BY OwnFacts
  <1>2. Live' = Live \union {h} /\ h \notin Live
    BY <1>1 DEF Live
  <1>3. HomeOf' = HomeOf /\ Invitation' = Invitation
    BY DEF HomeOf, Invitation
  <1> QED
    BY <1>2, <1>3 DEF Promise!Found, Live, HomeOf, Invitation

\* Where live households, homes and invitations stay, Membership sees no step.
LEMMA Stutters ==
  ASSUME Live' = Live, HomeOf' = HomeOf, Invitation' = Invitation
  PROVE  UNCHANGED Promise!vars
  BY DEF Promise!vars, Live, HomeOf, Invitation

\* Where the tables stay, Membership sees no step.
LEMMA SameTables ==
  ASSUME user' = user, house' = house, code' = code
  PROVE  UNCHANGED Promise!vars
  BY Stutters DEF Live, HomeOf, Invitation

\* A user moved in the table is moved in Membership.
LEMMA GoesHome ==
  ASSUME TypeOK, NEW u \in Users, NEW h \in Homes \union {0}, user[u].st = "in",
         user' = [user EXCEPT ![u].home = h]
  PROVE  HomeOf' = [HomeOf EXCEPT ![u] = h]
  <1>1. user'[u].home = h /\ \A v \in Users \ {u} : user'[v] = user[v]
    BY GoesTo
  <1>2. \A v \in Users : user'[v].home = IF v = u THEN h ELSE user[v].home
    BY <1>1
  <1> QED
    BY <1>2 DEF HomeOf

\* Every statement of a request is a step of Membership, or none of its business.
LEMMA StepRefines ==
  ASSUME IInv, NEW s \in Slots, Step(s)
  PROVE  Promise!Next \/ UNCHANGED Promise!vars
  <1>0. TypeOK /\ Sound(req[s])
    BY SoundRequests DEF IInv
  <1>1. CASE EnsureHousehold(s)
    <2>1. req[s].home \in Homes /\ req[s].me \in Users
      BY <1>0, <1>1 DEF EnsureHousehold, Sound, Idle
    <2>2. CASE house[req[s].home].st = "live"
      BY <1>1, <2>2, SameTables DEF EnsureHousehold
    <2>3. CASE house[req[s].home].st # "live"
      BY <1>0, <1>1, <2>1, <2>3, OwnFounds DEF EnsureHousehold, Promise!Next
    <2> QED
      BY <2>2, <2>3
  <1>2. CASE Seed(s)
    BY <1>2, SameTables DEF Seed
  <1>3. CASE Create(s)
    <2>1. PICK h \in Homes : h = founded + 1
      BY <1>0, <1>3, Rows DEF Create
    <2>2. house[h].st # "live" /\ req[s].me \in Users
      BY <1>0, <1>3, <2>1, Rows DEF Create, Sound, Idle, IInv, Numbered
    <2> QED
      BY <1>0, <1>3, <2>1, <2>2, OwnFounds DEF Create, Promise!Next
  <1>4. CASE MoveIn(s)
    <2>1. PICK h \in Homes : h = req[s].home
      BY <1>0, <1>4 DEF MoveIn, Sound
    <2>2. req[s].me \in Users /\ \A v \in Users : user[v].home # h
      BY <1>0, <1>4, <2>1 DEF MoveIn, Sound, Idle, IInv, EmptyUntilMoved
    <2>3. CASE user' = user
      BY <1>4, <2>3, SameTables DEF MoveIn
    <2>4. CASE user' # user
      <3>1. /\ user[req[s].me].st = "in" /\ house[h].st = "live"
            /\ user' = [user EXCEPT ![req[s].me].home = h]
        BY <1>4, <2>1, <2>4 DEF MoveIn
      <3>2. HomeOf' = [HomeOf EXCEPT ![req[s].me] = h]
        BY <1>0, <2>2, <3>1, GoesHome
      <3>3. Live' = Live /\ Invitation' = Invitation /\ h \in Live /\ \A v \in Users : HomeOf[v] # h
        BY <1>4, <2>2, <3>1 DEF MoveIn, Live, Invitation, HomeOf
      <3>4. Promise!MoveIn(req[s].me, h)
        BY <3>2, <3>3 DEF Promise!MoveIn, Live, HomeOf, Invitation
      <3> QED
        BY <2>2, <3>4 DEF Promise!Next
    <2> QED
      BY <2>3, <2>4
  <1>5. CASE IssueCode(s)
    <2>1. PICK h \in Homes : h = req[s].home
      BY <1>0, <1>5 DEF IssueCode, Sound, Idle
    <2>2. CASE code' = code
      BY <1>5, <2>2, SameTables DEF IssueCode
    <2>3. CASE code' # code
      <3>1. PICK k \in Codes : /\ house[h].st = "live" /\ code[k].st = "none"
                               /\ code' = [code EXCEPT ![k] = [st |-> "open", home |-> h, late |-> FALSE]]
        BY <1>5, <2>1, <2>3 DEF IssueCode
      <3>2. /\ code'[k].st = "open" /\ code'[k].home = h
            /\ \A j \in Codes \ {k} : code'[j] = code[j]
        BY <1>0, <3>1 DEF TypeOK
      <3>3. Invitation[k] = NoHome /\ Invitation' = [Invitation EXCEPT ![k] = h]
        <4>1. \A j \in Codes : (IF code'[j].st = "open" THEN code'[j].home ELSE NoHome)
                = IF j = k THEN h ELSE IF code[j].st = "open" THEN code[j].home ELSE NoHome
          BY <3>2
        <4> QED
          BY <3>1, <4>1 DEF Invitation
      <3>4. Live' = Live /\ HomeOf' = HomeOf /\ h \in Live
        BY <1>5, <3>1 DEF IssueCode, Live, HomeOf
      <3>5. Promise!Invite(k, h)
        BY <3>3, <3>4 DEF Promise!Invite, Live, HomeOf, Invitation
      <3> QED
        BY <3>5 DEF Promise!Next
    <2> QED
      BY <2>2, <2>3
  <1>6. CASE Redeem(s)
    <2>1. CASE code' = code /\ user' = user
      BY <1>6, <2>1, SameTables DEF Redeem
    <2>2. CASE ~(code' = code /\ user' = user)
      <3>1. PICK k \in Codes : /\ k = req[s].code /\ code[k].st = "open"
                               /\ code[k].home = req[s].home
                               /\ code' = [code EXCEPT ![k].st = "used"]
        BY <1>0, <1>6, <2>2 DEF Redeem, Sound
      <3>2. PICK h \in Homes : h = req[s].home
        BY <3>1 DEF IInv, Invited
      <3>3. /\ req[s].me \in Users /\ user[req[s].me].st = "in"
            /\ user' = [user EXCEPT ![req[s].me].home = h]
        BY <1>0, <1>6, <2>2, <3>2 DEF Redeem, Sound, Idle
      <3>4. HomeOf' = [HomeOf EXCEPT ![req[s].me] = h]
        BY <1>0, <3>3, GoesHome
      <3>5. code'[k].st = "used" /\ \A j \in Codes \ {k} : code'[j] = code[j]
        <4>1. code[k] \in CodeState
          BY <1>0, Rows
        <4> QED
          BY <1>0, <3>1, <4>1 DEF TypeOK, CodeState
      <3>6. Invitation[k] = h /\ Invitation' = [Invitation EXCEPT ![k] = NoHome]
        BY <3>1, <3>2, <3>5 DEF Invitation
      <3>7. Live' = Live
        BY <1>6 DEF Redeem, Live
      <3>8. Promise!Join(req[s].me, k)
        <4>1. /\ Invitation[k] # NoHome /\ HomeOf' = [HomeOf EXCEPT ![req[s].me] = Invitation[k]]
              /\ Invitation' = [Invitation EXCEPT ![k] = NoHome] /\ Live' = Live
          BY <3>4, <3>6, <3>7
        <4> QED
          BY <4>1 DEF Promise!Join, Live, HomeOf, Invitation
      <3> QED
        BY <3>3, <3>8 DEF Promise!Next
    <2> QED
      BY <2>1, <2>2
  <1>7. CASE Remove(s)
    <2>1. PICK v \in Users : v = req[s].other
      BY <1>0, <1>7 DEF Remove, Sound
    <2>2. CASE user' = user
      BY <1>7, <2>2, SameTables DEF Remove
    <2>3. CASE user' # user
      <3>1. HomeOf' = [HomeOf EXCEPT ![v] = 0]
        BY <1>0, <1>7, <2>1, <2>3, GoesHome DEF Remove
      <3>2. Live' = Live /\ Invitation' = Invitation
        BY <1>7 DEF Remove, Live, Invitation
      <3>3. Promise!Leave(v)
        BY <3>1, <3>2 DEF Promise!Leave, Live, HomeOf, Invitation
      <3> QED
        BY <3>3 DEF Promise!Next
    <2> QED
      BY <2>2, <2>3
  <1>8. CASE Dissolve(s)
    <2>1. CASE UNCHANGED <<user, data, house>>
      BY <1>8, <2>1, SameTables DEF Dissolve
    <2>2. CASE ~UNCHANGED <<user, data, house>>
      <3>1. PICK h \in Homes : h = req[s].home
        BY <1>0, <1>8 DEF Dissolve, Sound, Idle
      <3>2. house[h].st = "live" /\ Empty(h)
        BY <1>8, <2>2, <3>1 DEF Dissolve
      <3>3. \A v \in Users : user'[v].home = IF user[v].home = h THEN NoHome ELSE user[v].home
        <4>1. \A v \in Users : user[v] \in UserState
          BY <1>0, Rows
        <4>2. \A v \in Users : [user[v] EXCEPT !.home = NoHome].home = NoHome
          BY <4>1 DEF UserState
        <4> QED
          BY <3>2, <4>2 DEF Empty
      <3>4. house'[h].st = "gone" /\ \A g \in Homes \ {h} : house'[g] = house[g]
        <4>1. house[h] \in HouseState
          BY <1>0, Rows
        <4> QED
          BY <1>0, <3>2, <4>1 DEF Empty, TypeOK, HouseState
      <3>5. /\ h \in Live /\ Live' = Live \ {h}
            /\ HomeOf' = [u \in Users |-> IF HomeOf[u] = h THEN NoHome ELSE HomeOf[u]]
            /\ Invitation' = Invitation
        BY <1>8, <3>2, <3>3, <3>4 DEF Dissolve, Live, HomeOf, Invitation
      <3>6. Promise!Dissolve(h)
        BY <3>5 DEF Promise!Dissolve, Live, HomeOf, Invitation
      <3> QED
        BY <3>6 DEF Promise!Next
    <2> QED
      BY <2>1, <2>2
  <1>9. CASE HandOver(s)
    <2>1. req[s].home \in Homes /\ req[s].other \in Users
      BY <1>0, <1>9 DEF HandOver, Sound, Idle
    <2>2. Live' = Live
      BY <1>0, <1>9, <2>1, OwnFacts DEF HandOver, Live
    <2> QED
      BY <1>9, <2>2, Stutters DEF HandOver, HomeOf, Invitation
  <1>10. CASE CleanHome(s)
    <2>1. PICK h \in Homes : h = req[s].home
      BY <1>0, <1>10 DEF CleanHome, Sound, Idle
    <2>2. CASE house' = house \/ house[h].st # "live"
      <3>1. Live' = Live
        <4>1. CASE house' = house
          BY <4>1 DEF Live
        <4>2. CASE house' # house
          <5>1. house[h].st # "live" /\ house' = [house EXCEPT ![h].st = "gone"]
            BY <1>10, <2>1, <2>2, <4>2 DEF CleanHome
          <5>2. house'[h].st = "gone" /\ \A g \in Homes \ {h} : house'[g] = house[g]
            <6>1. house[h] \in HouseState
              BY <1>0, Rows
            <6> QED
              BY <1>0, <5>1, <6>1 DEF TypeOK, HouseState
          <5> QED
            BY <5>1, <5>2 DEF Live
        <4> QED
          BY <4>1, <4>2
      <3> QED
        BY <1>10, <3>1, Stutters DEF CleanHome, HomeOf, Invitation
    <2>3. CASE house' # house /\ house[h].st = "live"
      <3>1. /\ ~Referenced(h) /\ house' = [house EXCEPT ![h].st = "gone"]
        BY <1>10, <2>1, <2>3 DEF CleanHome
      <3>2. house'[h].st = "gone" /\ \A g \in Homes \ {h} : house'[g] = house[g]
        <4>1. house[h] \in HouseState
          BY <1>0, Rows
        <4> QED
          BY <1>0, <3>1, <4>1 DEF TypeOK, HouseState
      <3>3. \A u \in Users : user[u].home # h
        <4>1. \A u \in Users : user[u] \in UserState
          BY <1>0, Rows
        <4>2. \A u \in Users : user[u].home # NoHome => user[u].st = "in"
          BY <4>1 DEF UserState
        <4> QED
          BY <3>1, <4>2 DEF Referenced, Members
      <3>4. /\ h \in Live /\ Live' = Live \ {h}
            /\ HomeOf' = [u \in Users |-> IF HomeOf[u] = h THEN NoHome ELSE HomeOf[u]]
            /\ Invitation' = Invitation
        BY <1>10, <2>3, <3>2, <3>3 DEF CleanHome, Live, HomeOf, Invitation
      <3>5. Promise!Dissolve(h)
        BY <3>4 DEF Promise!Dissolve, Live, HomeOf, Invitation
      <3> QED
        BY <3>5 DEF Promise!Next
    <2> QED
      BY <2>2, <2>3
  <1>11. CASE DeleteUser(s)
    <2>1. PICK v \in Users : v = req[s].me
      BY <1>0, <1>11 DEF DeleteUser, Sound, Idle
    <2>2. \A w \in Users : user'[w].home = IF w = v THEN NoHome ELSE user[w].home
      BY <1>0, <1>11, <2>1 DEF DeleteUser, TypeOK
    <2>3. /\ HomeOf' = [HomeOf EXCEPT ![v] = NoHome]
          /\ Live' = Live /\ Invitation' = Invitation
      BY <1>11, <2>2 DEF DeleteUser, Live, HomeOf, Invitation
    <2>4. Promise!Leave(v)
      BY <2>3 DEF Promise!Leave, Live, HomeOf, Invitation
    <2> QED
      BY <2>4 DEF Promise!Next
  <1>12. CASE Abort(s)
    BY <1>12, SameTables DEF Abort
  <1> QED
    BY <1>1, <1>2, <1>3, <1>4, <1>5, <1>6, <1>7, <1>8, <1>9, <1>10, <1>11, <1>12 DEF Step

\* The handlers implement the promise about membership: one household at most,
\* entered by founding or by an invitation that served nobody else, ended with
\* nobody in it (households.service.ts, auth.service.ts, users.service.ts).
THEOREM MembershipKept == Spec => ImplementsMembership
  <1>1. Init => Promise!Init
    <2> SUFFICES ASSUME Init PROVE Promise!Init
      OBVIOUS
    <2>1. Live = {} /\ HomeOf = [u \in Users |-> NoHome] /\ Invitation = [k \in Codes |-> NoHome]
      BY DEF Init, Live, HomeOf, Invitation
    <2> QED
      BY <2>1 DEF Promise!Init, Live, HomeOf, Invitation
  <1>2. IInv /\ [Next]_vars => [Promise!Next]_(Promise!vars)
    <2> SUFFICES ASSUME IInv, [Next]_vars
                 PROVE  Promise!Next \/ UNCHANGED Promise!vars
      OBVIOUS
    <2>1. ASSUME NEW u \in Users, Register(u)
          PROVE  Promise!Next
      <3>1. PICK h \in Homes : h = founded + 1
        BY <2>1, Rows DEF IInv, Register
      <3>2. house[h].st # "live"
        BY <3>1, Rows DEF IInv, Numbered
      <3>3. house'[h].st = "live" /\ \A g \in Homes \ {h} : house'[g] = house[g]
        BY <2>1, <3>1, OwnFacts DEF IInv, Register
      <3>4. \A v \in Users : user'[v].home = IF v = u THEN h ELSE user[v].home
        BY <2>1, <3>1 DEF Register, IInv, TypeOK
      <3>5. /\ h \notin Live /\ Live' = Live \union {h}
            /\ HomeOf' = [HomeOf EXCEPT ![u] = h] /\ Invitation' = Invitation
        BY <2>1, <3>2, <3>3, <3>4 DEF Register, Live, HomeOf, Invitation
      <3>6. Promise!Found(h)
        BY <3>5 DEF Promise!Found, Live, HomeOf, Invitation
      <3> QED
        BY <3>6 DEF Promise!Next
    <2>2. ASSUME NEW u \in Users, NEW s \in Slots, Arrival(s, u)
          PROVE  UNCHANGED Promise!vars
      <3>1. user' = user /\ house' = house /\ code' = code
        BY <2>2 DEF Arrival, BeginEnsure, BeginCreate, BeginInvite, BeginJoin, BeginRemove,
                    BeginDissolve, BeginDelete, Begin
      <3> QED
        BY <3>1, SameTables
    <2>3. ASSUME NEW k \in Codes, Expire(k)
          PROVE  UNCHANGED Promise!vars
      <3>1. code[k] \in CodeState
        BY Rows DEF IInv
      <3>2. \A j \in Codes : code'[j].home = code[j].home /\ code'[j].st = code[j].st
        BY <2>3, <3>1 DEF Expire, IInv, TypeOK, CodeState
      <3>3. Invitation' = Invitation /\ Live' = Live /\ HomeOf' = HomeOf
        BY <2>3, <3>2 DEF Invitation, Live, HomeOf, Expire
      <3> QED
        BY <3>3, Stutters
    <2>4. CASE UNCHANGED vars
      BY <2>4, SameTables DEF vars
    <2> QED
      BY <2>1, <2>2, <2>3, <2>4, StepRefines DEF Next
  <1> QED
    BY <1>1, <1>2, HouseholdsInvariant, PTL DEF Spec, ImplementsMembership, Promise!Spec

-----------------------------------------------------------------------------
(* The limit on outstanding codes.                                         *)

\* The requests that counted a household's codes and will add one.
Counted(h) == {s \in Slots : req[s].at = "counted" /\ req[s].home = h}

\* Every code beyond the limit was counted for by a request that is still a
\* slot: what is outstanding and what is about to be, together.
WithinSlots ==
  \A h \in Homes : Cardinality(Active(h)) + Cardinality(Counted(h)) < Limit + Cardinality(Slots)

\* The codes and requests that are counted are finitely many.
LEMMA SetsFinite ==
  /\ Cardinality(Slots) \in Nat
  /\ \A h : /\ IsFiniteSet(Active(h)) /\ IsFiniteSet(Active(h)')
            /\ Cardinality(Active(h)) \in Nat /\ Cardinality(Active(h)') \in Nat
            /\ IsFiniteSet(Counted(h)) /\ IsFiniteSet(Counted(h)')
            /\ Cardinality(Counted(h)) \in Nat /\ Cardinality(Counted(h)') \in Nat
            /\ Cardinality(Counted(h)') <= Cardinality(Slots)
  <1>1. \A h : Active(h) \subseteq Codes /\ Active(h)' \subseteq Codes
    BY DEF Active
  <1>2. \A h : Counted(h) \subseteq Slots /\ Counted(h)' \subseteq Slots
    BY DEF Counted
  <1> QED
    BY <1>1, <1>2, FS_Subset, FS_CardinalityType

\* Nothing is added.
LEMMA FewerCodes ==
  ASSUME NEW h, Cardinality(Active(h)) + Cardinality(Counted(h)) < Limit + Cardinality(Slots),
         Active(h)' \subseteq Active(h), Counted(h)' \subseteq Counted(h)
  PROVE  Cardinality(Active(h)') + Cardinality(Counted(h)') < Limit + Cardinality(Slots)
  <1>1. Cardinality(Active(h)') <= Cardinality(Active(h))
    BY FS_Subset, SetsFinite
  <1>2. Cardinality(Counted(h)') <= Cardinality(Counted(h))
    BY FS_Subset, SetsFinite
  <1> QED
    BY <1>1, <1>2, SetsFinite

\* The requests other than generateInvite.
LEMMA OtherSteps ==
  ASSUME IInv, NEW s \in Slots, Done(s) \/ GoOn(s, "seed") \/ GoOn(s, "leave"),
         NEW h \in Homes
  PROVE  Counted(h)' \subseteq Counted(h) /\ s \notin Counted(h)'
  <1>1. PICK r : req' = [req EXCEPT ![s] = r] /\ r.at # "counted"
    BY DoneFacts, GoOnFacts DEF IInv
  <1> QED
    BY <1>1 DEF Counted, IInv, TypeOK

\* A new request stands where it is put.
LEMMA RequestAt ==
  ASSUME NEW op, NEW at, NEW u, NEW h, NEW x
  PROVE  /\ Request(op, at, u, h).at = at /\ Request(op, at, u, h).home = h
         /\ [Request(op, at, u, h) EXCEPT !.code = x].at = at
         /\ [Request(op, at, u, h) EXCEPT !.other = x].at = at
  BY DEF Request, Idle

\* The limit on outstanding codes is passed by overlapping requests at most
\* (generateInvite, households.service.ts:106-133).
THEOREM CodesLimited == Spec => []CodesNearLimit
  <1>1. Init => WithinSlots
    <2> SUFFICES ASSUME Init, NEW h \in Homes
                 PROVE  Cardinality(Active(h)) + Cardinality(Counted(h)) < Limit + Cardinality(Slots)
      BY DEF WithinSlots
    <2>1. Active(h) = {} /\ Counted(h) = {}
      BY DEF Init, Active, Counted, Idle
    <2> QED
      BY <2>1, FS_EmptySet, SetsFinite
  <1>2. IInv /\ WithinSlots /\ [Next]_vars => WithinSlots'
    <2> SUFFICES ASSUME IInv, WithinSlots, [Next]_vars, NEW h \in Homes
                 PROVE  Cardinality(Active(h)') + Cardinality(Counted(h)') < Limit + Cardinality(Slots)
      BY DEF WithinSlots
    <2>0. /\ Cardinality(Active(h)) + Cardinality(Counted(h)) < Limit + Cardinality(Slots)
          /\ TypeOK
      BY DEF WithinSlots, IInv
    <2>1. ASSUME NEW u \in Users, Register(u)
          PROVE  Active(h)' \subseteq Active(h) /\ Counted(h)' \subseteq Counted(h)
      BY <2>1 DEF Register, Active, Counted
    <2>2. ASSUME NEW u \in Users, NEW s \in Slots, Arrival(s, u), ~BeginInvite(s, u)
          PROVE  Active(h)' \subseteq Active(h) /\ Counted(h)' \subseteq Counted(h)
      <3>1. code' = code
        BY <2>2 DEF Arrival, BeginEnsure, BeginCreate, BeginJoin, BeginRemove,
                    BeginDissolve, BeginDelete, Begin
      <3>2. PICK r : req' = [req EXCEPT ![s] = r] /\ r.at # "counted"
        <4>1. CASE BeginEnsure(s, u)
          <5>1. PICK r : r = Request("ensure", "read", u, user[u].home)
            OBVIOUS
          <5>2. r.at # "counted"
            BY <5>1, RequestAt
          <5>3. req' = [req EXCEPT ![s] = r]
            BY <4>1, <5>1 DEF BeginEnsure, Begin
          <5> QED
            BY <5>2, <5>3
        <4>2. CASE BeginCreate(s, u)
          <5>1. PICK r : r = Request("create", "read", u, NoHome)
            OBVIOUS
          <5>2. r.at # "counted"
            BY <5>1, RequestAt
          <5>3. req' = [req EXCEPT ![s] = r]
            BY <4>2, <5>1 DEF BeginCreate, Begin
          <5> QED
            BY <5>2, <5>3
        <4>3. ASSUME NEW k \in Codes, BeginJoin(s, u, k)
              PROVE  \E r : req' = [req EXCEPT ![s] = r] /\ r.at # "counted"
          <5>1. PICK r : r = [Request("join", "read", u, code[k].home) EXCEPT !.code = k]
            OBVIOUS
          <5>2. r.at # "counted"
            BY <5>1, RequestAt
          <5>3. req' = [req EXCEPT ![s] = r]
            BY <4>3, <5>1 DEF BeginJoin, Begin
          <5> QED
            BY <5>2, <5>3
        <4>4. ASSUME NEW v \in Users, BeginRemove(s, u, v)
              PROVE  \E r : req' = [req EXCEPT ![s] = r] /\ r.at # "counted"
          <5>1. PICK r : r = [Request("remove", "found", u, user[u].home) EXCEPT !.other = v]
            OBVIOUS
          <5>2. r.at # "counted"
            BY <5>1, RequestAt
          <5>3. req' = [req EXCEPT ![s] = r]
            BY <4>4, <5>1 DEF BeginRemove, Begin
          <5> QED
            BY <5>2, <5>3
        <4>5. CASE BeginDissolve(s, u)
          <5>1. PICK r : r = Request("dissolve", "read", u, user[u].home)
            OBVIOUS
          <5>2. r.at # "counted"
            BY <5>1, RequestAt
          <5>3. req' = [req EXCEPT ![s] = r]
            BY <4>5, <5>1 DEF BeginDissolve, Begin
          <5> QED
            BY <5>2, <5>3
        <4>6. CASE BeginDelete(s, u)
          <5>1. ASSUME NEW v \in Users, Begin(s, Request("account", "leave", u, user[u].home))
                PROVE  \E r : req' = [req EXCEPT ![s] = r] /\ r.at # "counted"
            <6>1. PICK r : r = Request("account", "leave", u, user[u].home)
              OBVIOUS
            <6>2. r.at # "counted"
              BY <6>1, RequestAt
            <6>3. req' = [req EXCEPT ![s] = r]
              BY <5>1, <6>1 DEF Begin
            <6> QED
              BY <6>2, <6>3
          <5>2. ASSUME NEW v \in Users, Begin(s, Request("account", "alone", u, user[u].home))
                PROVE  \E r : req' = [req EXCEPT ![s] = r] /\ r.at # "counted"
            <6>1. PICK r : r = Request("account", "alone", u, user[u].home)
              OBVIOUS
            <6>2. r.at # "counted"
              BY <6>1, RequestAt
            <6>3. req' = [req EXCEPT ![s] = r]
              BY <5>2, <6>1 DEF Begin
            <6> QED
              BY <6>2, <6>3
          <5>3. ASSUME NEW v \in Users, Begin(s, [Request("account", "shared", u, user[u].home) EXCEPT !.other = v])
                PROVE  \E r : req' = [req EXCEPT ![s] = r] /\ r.at # "counted"
            <6>1. PICK r : r = [Request("account", "shared", u, user[u].home) EXCEPT !.other = v]
              OBVIOUS
            <6>2. r.at # "counted"
              BY <6>1, RequestAt
            <6>3. req' = [req EXCEPT ![s] = r]
              BY <5>3, <6>1 DEF Begin
            <6> QED
              BY <6>2, <6>3
          <5>4. \/ Begin(s, Request("account", "leave", u, user[u].home))
                \/ Begin(s, Request("account", "alone", u, user[u].home))
                \/ \E v \in Users : Begin(s, [Request("account", "shared", u, user[u].home) EXCEPT !.other = v])
            BY <4>6 DEF BeginDelete, Members
          <5> QED
            BY <5>1, <5>2, <5>3, <5>4
        <4> QED
          BY <2>2, <4>1, <4>2, <4>3, <4>4, <4>5, <4>6 DEF Arrival
      <3> QED
        BY <2>0, <3>1, <3>2 DEF Active, Counted, TypeOK
    <2>3. ASSUME NEW u \in Users, NEW s \in Slots, BeginInvite(s, u)
          PROVE  Cardinality(Active(h)') + Cardinality(Counted(h)') < Limit + Cardinality(Slots)
      <3>1. Active(h)' = Active(h)
        BY <2>3 DEF BeginInvite, Begin, Active
      <3>2. CASE h = user[u].home
        <4>1. Cardinality(Active(h)) < Limit
          BY <2>3, <3>2 DEF BeginInvite, UnderLimit
        <4> QED
          BY <3>1, <4>1, SetsFinite
      <3>3. CASE h # user[u].home
        <4>1. PICK r : req' = [req EXCEPT ![s] = r] /\ r.home # h
          <5>1. PICK r : r = Request("invite", "counted", u, user[u].home)
            OBVIOUS
          <5>2. r.home # h
            BY <3>3, <5>1, RequestAt
          <5>3. req' = [req EXCEPT ![s] = r]
            BY <2>3, <5>1 DEF BeginInvite, Begin
          <5> QED
            BY <5>2, <5>3
        <4>2. Counted(h)' \subseteq Counted(h)
          BY <2>0, <4>1 DEF Counted, TypeOK
        <4> QED
          BY <2>0, <3>1, <4>2, FewerCodes
      <3> QED
        BY <3>2, <3>3
    <2>4. ASSUME NEW k \in Codes, Expire(k)
          PROVE  Active(h)' \subseteq Active(h) /\ Counted(h)' \subseteq Counted(h)
      <3>1. code[k] \in CodeState
        BY <2>0, Rows
      <3>2. code'[k].late /\ \A j \in Codes \ {k} : code'[j] = code[j]
        BY <2>0, <2>4, <3>1 DEF Expire, TypeOK, CodeState
      <3> QED
        BY <2>4, <3>2 DEF Expire, Active, Counted
    <2>5. ASSUME NEW s \in Slots, Step(s), ~IssueCode(s)
          PROVE  Active(h)' \subseteq Active(h) /\ Counted(h)' \subseteq Counted(h)
      <3>1. CASE Create(s)
        <4>1. PICK r : req' = [req EXCEPT ![s] = r] /\ r.at # "counted"
          <5>1. PICK r : r = [req[s] EXCEPT !.at = "move", !.home = founded + 1]
            OBVIOUS
          <5>2. req[s] \in ReqState
            BY <2>0, Rows
          <5>3. r.at = "move"
            BY <5>1, <5>2 DEF ReqState
          <5>4. req' = [req EXCEPT ![s] = r]
            BY <2>0, <3>1, <5>1 DEF Create, TypeOK
          <5> QED
            BY <5>3, <5>4
        <4> QED
          BY <2>0, <3>1, <4>1 DEF Create, Active, Counted, TypeOK
      <3>2. CASE ~Create(s)
        <4>1. Counted(h)' \subseteq Counted(h)
          BY <2>5, <3>2, OtherSteps DEF Step, EnsureHousehold, Seed, MoveIn, Redeem, Remove,
             Dissolve, HandOver, CleanHome, DeleteUser, Abort
        <4>2. CASE code' = code
          BY <4>1, <4>2 DEF Active
        <4>3. CASE code' # code
          <5>1. Redeem(s)
            BY <2>5, <3>2, <4>3 DEF Step, EnsureHousehold, Seed, MoveIn, Remove,
               Dissolve, HandOver, CleanHome, DeleteUser, Abort
          <5>2. PICK k \in Codes : code' = [code EXCEPT ![k].st = "used"]
            BY <4>3, <5>1, SoundRequests DEF Redeem, Sound
          <5>3. code[k] \in CodeState
            BY <2>0, Rows
          <5>4. code'[k].st = "used" /\ \A j \in Codes \ {k} : code'[j] = code[j]
            BY <2>0, <5>2, <5>3 DEF TypeOK, CodeState
          <5> QED
            BY <4>1, <5>4 DEF Active
        <4> QED
          BY <4>2, <4>3
      <3> QED
        BY <3>1, <3>2
    <2>6. ASSUME NEW s \in Slots, IssueCode(s)
          PROVE  Cardinality(Active(h)') + Cardinality(Counted(h)') < Limit + Cardinality(Slots)
      <3>1. Counted(h)' \subseteq Counted(h) /\ s \notin Counted(h)'
        BY <2>6, OtherSteps DEF IssueCode
      <3>2. CASE Active(h)' \subseteq Active(h)
        BY <2>0, <3>1, <3>2, FewerCodes
      <3>3. CASE ~(Active(h)' \subseteq Active(h))
        <4>1. PICK k \in Codes :
                code' = [code EXCEPT ![k] = [st |-> "open", home |-> req[s].home, late |-> FALSE]]
          BY <2>6, <3>3 DEF IssueCode, Active
        <4>2. /\ code'[k].home = req[s].home
              /\ \A j \in Codes \ {k} : code'[j] = code[j]
          BY <2>0, <4>1 DEF TypeOK
        <4>3. req[s].home = h /\ Active(h)' \subseteq Active(h) \union {k}
          BY <3>3, <4>2 DEF Active
        <4>4. s \in Counted(h)
          BY <2>6, <4>3 DEF IssueCode, Counted
        <4>5. Cardinality(Active(h)') <= Cardinality(Active(h)) + 1
          <5>0. IsFiniteSet(Active(h)) /\ Cardinality(Active(h)) \in Nat
            BY SetsFinite
          <5>1. Cardinality(Active(h) \union {k}) = IF k \in Active(h) THEN Cardinality(Active(h))
                                                    ELSE Cardinality(Active(h)) + 1
            BY <5>0, FS_AddElement
          <5>2. IsFiniteSet(Active(h) \union {k})
            BY <5>0, FS_AddElement
          <5>3. Cardinality(Active(h)') <= Cardinality(Active(h) \union {k})
            BY <4>3, <5>2, FS_Subset
          <5> QED
            BY <5>0, <5>1, <5>3, SetsFinite
        <4>6. Cardinality(Counted(h)') <= Cardinality(Counted(h)) - 1
          <5>1. Counted(h)' \subseteq Counted(h) \ {s}
            BY <3>1
          <5>2. IsFiniteSet(Counted(h) \ {s}) /\ Cardinality(Counted(h) \ {s}) = Cardinality(Counted(h)) - 1
            BY <4>4, FS_RemoveElement, SetsFinite
          <5> QED
            BY <5>1, <5>2, FS_Subset
        <4> QED
          BY <2>0, <4>5, <4>6, SetsFinite
      <3> QED
        BY <3>2, <3>3
    <2>7. CASE UNCHANGED vars
      BY <2>7, <2>0 DEF vars, Active, Counted
    <2> QED
      BY <2>0, <2>1, <2>2, <2>3, <2>4, <2>5, <2>6, <2>7, FewerCodes DEF Next
  <1>3. WithinSlots => CodesNearLimit
    <2> SUFFICES ASSUME WithinSlots, NEW h \in Homes
                 PROVE  Cardinality(Active(h)) < Limit + Cardinality(Slots)
      BY DEF CodesNearLimit
    <2> QED
      BY SetsFinite DEF WithinSlots
  <1> QED
    BY <1>1, <1>2, <1>3, HouseholdsInvariant, PTL DEF Spec

=============================================================================
