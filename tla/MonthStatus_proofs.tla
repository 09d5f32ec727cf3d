-------------------------- MODULE MonthStatus_proofs --------------------------
(***************************************************************************)
(* What TLAPS proves of MonthStatus for any set of devices and any bounds. *)
(***************************************************************************)
EXTENDS MonthStatus, TLAPS

(***************************************************************************)
(* Where a sync stands tells what it holds: the row it is about to post or *)
(* to queue, and, until a post is answered, a row that may count one more  *)
(* attempt.                                                                *)
(***************************************************************************)
Replaying == {"replay", "replayWait", "lastReplay", "lastWait"}

ReplayHolds ==
  \A d \in Devices :
    /\ pc[d] \in {"replay", "lastReplay", "unsent"} => held[d] # None
    /\ pc[d] \in Replaying => queue[d] # None /\ queue[d].attempts < MaxAttempts

TypeInv == TypeOK /\ ReplayHolds

\* A snapshot is made of a status and whether it was ever changed.
LEMMA SnapshotType ==
  \A status \in {"open", "closed"}, changed \in BOOLEAN :
    [status |-> status, changed |-> changed] \in Snapshot
BY DEF Snapshot

\* None is no action, queue row or snapshot.
LEMMA NoneApart ==
  /\ \A x \in Action : x # None
  /\ \A x \in QueueRow : x # None
  /\ \A x \in Snapshot : x # None
BY NoneAssumption

(***************************************************************************)
(* What the steps do to the queue row of a month.                          *)
(***************************************************************************)
LEMMA EnqueueType ==
  ASSUME TypeOK, NEW d \in Devices, NEW op \in Actions, NEW n \in Nat, Enqueue(d, op, n)
  PROVE  /\ queue' \in [Devices -> QueueRow \union {None}]
         /\ queue'[d] \in QueueRow
         /\ queue'[d] = [op |-> op, n |-> n, attempts |-> 0, synced |-> FALSE]
         /\ queue'[d].attempts < MaxAttempts
         /\ \A x \in Devices \ {d} : queue'[x] = queue[x]
<1> DEFINE row == [op |-> op, n |-> n, attempts |-> 0, synced |-> FALSE]
<1>1. row \in QueueRow /\ row.attempts < MaxAttempts
  BY BoundsAssumption, AttemptsAssumption DEF QueueRow
<1> QED
  BY <1>1 DEF TypeOK, Enqueue

\* Marking a queue row synced leaves its action and attempts, and all other rows.
LEMMA MarkType ==
  ASSUME TypeOK, NEW d \in Devices, NEW n \in Nat, MarkSynced(d, n)
  PROVE  /\ queue' \in [Devices -> QueueRow \union {None}]
         /\ \A x \in Devices :
              /\ queue'[x] = None <=> queue[x] = None
              /\ queue[x] # None => /\ queue'[x].attempts = queue[x].attempts
                                    /\ queue'[x].n = queue[x].n
         /\ \A x \in Devices \ {d} : queue'[x] = queue[x]
         /\ standing' \in [Devices -> {"settled", "open", "mixedUp"}]
         /\ \A x \in Devices : /\ standing[x] # "open" => standing'[x] = standing[x]
                              /\ standing'[x] = "open" => standing[x] = "open"
         /\ queue[d] # None /\ acting[d] = None /\ standing'[d] = "open" => n = queue[d].n
<1>1. CASE queue[d] = None
  BY <1>1 DEF MarkSynced, TypeOK
<1>2. CASE queue[d] # None
  <2> DEFINE row == [queue[d] EXCEPT !.synced = TRUE]
  <2>1. /\ row \in QueueRow
        /\ row.attempts = queue[d].attempts /\ row.n = queue[d].n
    BY <1>2 DEF TypeOK, QueueRow
  <2>2. queue' = [queue EXCEPT ![d] = row] /\ MixUp(d, n, queue[d].n)
    BY <1>2 DEF MarkSynced
  <2>3. /\ queue' \in [Devices -> QueueRow \union {None}]
        /\ queue'[d] = row
        /\ \A x \in Devices \ {d} : queue'[x] = queue[x]
    BY <2>1, <2>2 DEF TypeOK
  <2>4. row # None
    BY <2>1, NoneApart
  <2>5. /\ standing' \in [Devices -> {"settled", "open", "mixedUp"}]
        /\ \A x \in Devices : /\ standing[x] # "open" => standing'[x] = standing[x]
                              /\ standing'[x] = "open" => standing[x] = "open"
        /\ acting[d] = None /\ standing'[d] = "open" => n = queue[d].n
    BY <2>2 DEF MixUp, TypeOK
  <2> HIDE DEF row
  <2> QED
    BY <1>2, <2>1, <2>3, <2>4, <2>5
<1> QED
  BY <1>1, <1>2

\* Counting an attempt leaves the action of the queue row, and all other rows.
LEMMA CountType ==
  ASSUME TypeOK, NEW d \in Devices, queue[d] # None, queue[d].attempts < MaxAttempts,
         queue' = [queue EXCEPT ![d].attempts = @ + 1]
  PROVE  /\ queue' \in [Devices -> QueueRow \union {None}]
         /\ queue'[d] # None
         /\ queue'[d].n = queue[d].n /\ queue'[d].synced = queue[d].synced
         /\ \A x \in Devices \ {d} : queue'[x] = queue[x]
<1> DEFINE row == [queue[d] EXCEPT !.attempts = queue[d].attempts + 1]
<1>1. /\ row \in QueueRow
      /\ row.n = queue[d].n /\ row.synced = queue[d].synced
  BY BoundsAssumption DEF TypeOK, QueueRow
<1>2. queue' = [queue EXCEPT ![d] = row]
  OBVIOUS
<1> QED
  BY <1>1, <1>2, NoneApart DEF TypeOK

(***************************************************************************)
(* Posts stay posts as they are made, dealt with and taken away.           *)
(***************************************************************************)
LEMMA PostType ==
  ASSUME TypeOK
  PROVE  /\ \A d \in Devices, via \in {"notify", "replay"}, op \in Actions, n \in Nat :
              Post(d, via, op, n) => posts' \subseteq PostRecord
         /\ \A p \in posts, state \in PostState :
              /\ [p EXCEPT !.state = state] \in PostRecord
              /\ [p EXCEPT !.state = state].dev = p.dev
              /\ [p EXCEPT !.state = state].n = p.n
              /\ [p EXCEPT !.state = state].state = state
              /\ Becomes(p, state) => posts' \subseteq PostRecord
<1>1. ASSUME NEW d \in Devices, NEW via \in {"notify", "replay"}, NEW op \in Actions,
             NEW n \in Nat, Post(d, via, op, n)
      PROVE  posts' \subseteq PostRecord
  <2>1. [dev |-> d, via |-> via, op |-> op, n |-> n, state |-> "sent"] \in PostRecord
    BY DEF PostRecord, PostState
  <2> QED
    BY <1>1, <2>1 DEF TypeOK, Post
<1>2. ASSUME NEW p \in posts, NEW state \in PostState
      PROVE  /\ [p EXCEPT !.state = state] \in PostRecord
             /\ [p EXCEPT !.state = state].dev = p.dev
             /\ [p EXCEPT !.state = state].n = p.n
             /\ [p EXCEPT !.state = state].state = state
  BY DEF TypeOK, PostRecord
<1>3. ASSUME NEW p \in posts, NEW state \in PostState, Becomes(p, state)
      PROVE  posts' \subseteq PostRecord
  BY <1>2, <1>3 DEF TypeOK, Becomes
<1> QED
  BY <1>1, <1>2, <1>3

-----------------------------------------------------------------------------
(***************************************************************************)
(* One step keeps every variable in its type and the attempts in range.    *)
(***************************************************************************)
LEMMA TypeStep == TypeInv /\ [Next]_vars => TypeInv'
<1> SUFFICES ASSUME TypeInv, [Next]_vars PROVE TypeInv'
  OBVIOUS
<1> USE DEF syncVars, boundVars, historyVars
<1>1. TypeOK
  BY DEF TypeInv
<1>2. ASSUME NEW d \in Devices, Act(d) PROVE TypeInv'
  <2> DEFINE op == IF local[d] = "closed" THEN "reopen" ELSE "close"
  <2>1. /\ latest' \in [Devices -> Nat] /\ actions' \in Nat
        /\ standing' \in [Devices -> {"settled", "open", "mixedUp"}]
    BY <1>1, <1>2 DEF Act, TypeOK
  <2>2. [op |-> op, n |-> latest'[d]] \in Action
    BY <2>1 DEF Action, Actions
  <2>3. acting' \in [Devices -> Action \union {None}]
    BY <1>1, <1>2, <2>2 DEF Act, TypeOK
  <2>4. local' \in [Devices -> {"open", "closed", None}]
    BY <1>1, <1>2 DEF Act, TypeOK
  <2> QED
    BY <1>2, <2>1, <2>3, <2>4 DEF Act, TypeInv, TypeOK, ReplayHolds
<1>3. ASSUME NEW d \in Devices, Notify(d) PROVE TypeInv'
  <2>1. acting[d].op \in Actions /\ acting[d].n \in Nat
    BY <1>1, <1>3 DEF Notify, TypeOK, Action
  <2>2. /\ queue' \in [Devices -> QueueRow \union {None}]
        /\ queue'[d] # None /\ queue'[d].attempts < MaxAttempts
        /\ \A x \in Devices \ {d} : queue'[x] = queue[x]
    BY <1>1, <1>3, <2>1, EnqueueType, NoneApart DEF Notify
  <2>3. posts' \subseteq PostRecord
    BY <1>1, <1>3, <2>1, PostType DEF Notify
  <2>4. acting' \in [Devices -> Action \union {None}]
    BY <1>1, <1>3 DEF Notify, TypeOK
  <2> QED
    BY <1>3, <2>2, <2>3, <2>4 DEF Notify, TypeInv, TypeOK, ReplayHolds
<1>4. ASSUME NEW p \in posts, NotifyAnswered(p) PROVE TypeInv'
  <2>1. p.dev \in Devices /\ p.n \in Nat
    BY <1>1 DEF TypeOK, PostRecord
  <2>2. /\ queue' \in [Devices -> QueueRow \union {None}]
        /\ \A x \in Devices : queue[x] # None =>
             queue'[x] # None /\ queue'[x].attempts = queue[x].attempts
        /\ standing' \in [Devices -> {"settled", "open", "mixedUp"}]
    BY <1>1, <1>4, <2>1, MarkType DEF NotifyAnswered, TypeOK
  <2> QED
    BY <1>4, <2>2 DEF NotifyAnswered, TypeInv, TypeOK, ReplayHolds
<1>5. ASSUME NEW d \in Devices, ReadQueue(d) PROVE TypeInv'
  <2>1. CASE Waiting(d) /\ queue[d].attempts < MaxAttempts
    <3>1. /\ held' = [held EXCEPT ![d] = queue[d]]
          /\ queue[d] \in QueueRow /\ queue[d] # None
      BY <1>1, <1>5, <2>1 DEF ReadQueue, Waiting, TypeOK
    <3>2. /\ held' \in [Devices -> QueueRow \union {None}]
          /\ held'[d] # None /\ \A x \in Devices \ {d} : held'[x] = held[x]
      BY <1>1, <3>1 DEF TypeOK
    <3>3. \E step \in {"replay", "lastReplay"} : pc' = [pc EXCEPT ![d] = step]
      BY <1>5, <3>2 DEF ReadQueue, Goto
    <3> QED
      BY <1>5, <2>1, <3>1, <3>2, <3>3 DEF ReadQueue, TypeInv, TypeOK, ReplayHolds
  <2>2. CASE ~(Waiting(d) /\ queue[d].attempts < MaxAttempts)
    <3>1. /\ held' = [held EXCEPT ![d] = None]
          /\ held' \in [Devices -> QueueRow \union {None}]
      BY <1>1, <1>5, <2>2 DEF ReadQueue, TypeOK
    <3>2. \E step \in {"pull", "idle"} : pc' = [pc EXCEPT ![d] = step]
      BY <1>1, <1>5, <3>1 DEF ReadQueue, Goto, TypeOK
    <3> QED
      BY <1>5, <3>1, <3>2 DEF ReadQueue, TypeInv, TypeOK, ReplayHolds, Replaying
  <2> QED
    BY <2>1, <2>2
<1>6. ASSUME NEW d \in Devices, PushFails(d) PROVE TypeInv'
  BY <1>6 DEF PushFails, Goto, TypeInv, TypeOK, ReplayHolds, Replaying
<1>7. ASSUME NEW d \in Devices, ReplayPost(d) PROVE TypeInv'
  <2>1. held[d].op \in Actions /\ held[d].n \in Nat
    BY <1>1, <1>7 DEF ReplayPost, TypeInv, TypeOK, ReplayHolds, QueueRow
  <2>2. posts' \subseteq PostRecord
    BY <1>1, <1>7, <2>1, PostType DEF ReplayPost
  <2>3. /\ held' = [held EXCEPT ![d] = None]
        /\ \E step \in {"replayWait", "lastWait"} : pc' = [pc EXCEPT ![d] = step]
    BY <1>7 DEF ReplayPost, Goto
  <2> QED
    BY <1>7, <2>2, <2>3 DEF ReplayPost, TypeInv, TypeOK, ReplayHolds, Replaying
<1>8. ASSUME NEW p \in posts, ReplayAnswered(p) PROVE TypeInv'
  <2> DEFINE d == p.dev
  <2>1. d \in Devices /\ p.n \in Nat
    BY <1>1 DEF TypeOK, PostRecord
  <2>2. queue[d] # None /\ queue[d].attempts < MaxAttempts
    BY <1>8, <2>1 DEF ReplayAnswered, TypeInv, ReplayHolds, Replaying
  <2>3. /\ queue' \in [Devices -> QueueRow \union {None}]
        /\ \A x \in Devices \ {d} : queue'[x] = queue[x]
        /\ standing' \in [Devices -> {"settled", "open", "mixedUp"}]
    BY <1>1, <1>8, <2>1, <2>2, MarkType, CountType DEF ReplayAnswered, TypeOK
  <2>4. \E step \in {"pull", "idle"} : pc' = [pc EXCEPT ![d] = step]
    BY <1>8 DEF ReplayAnswered, Goto
  <2> QED
    BY <1>8, <2>1, <2>3, <2>4
       DEF ReplayAnswered, TypeInv, TypeOK, ReplayHolds, Replaying
<1>9. ASSUME NEW d \in Devices, PullRead(d) PROVE TypeInv'
  BY <1>9 DEF PullRead, Goto, TypeInv, TypeOK, ReplayHolds, Replaying
<1>10. ASSUME NEW d \in Devices, ApplyPull(d) PROVE TypeInv'
  <2>1. local' \in [Devices -> {"open", "closed", None}]
    BY <1>1, <1>10 DEF ApplyPull, KeepLocal, TypeOK, Snapshot
  <2>2. UnsentClose(d) \in QueueRow
    BY <1>1, BoundsAssumption DEF UnsentClose, TypeOK, QueueRow, Actions
  <2>3. \/ pc' = [pc EXCEPT ![d] = "idle"] /\ held' = held
        \/ pc' = [pc EXCEPT ![d] = "unsent"] /\ held' = [held EXCEPT ![d] = UnsentClose(d)]
    BY <1>10 DEF ApplyPull, Goto
  <2>4. TypeOK'
    BY <1>1, <1>10, <2>1, <2>2, <2>3 DEF ApplyPull, TypeOK
  <2>5. UnsentClose(d) # None
    BY <2>2, NoneApart
  <2>6. ReplayHolds'
    BY <1>10, <2>3, <2>5 DEF ApplyPull, TypeInv, TypeOK, ReplayHolds, Replaying
  <2> QED
    BY <2>4, <2>6 DEF TypeInv
<1>11. ASSUME NEW d \in Devices, RequeueClose(d) PROVE TypeInv'
  <2>1. held[d].n \in Nat
    BY <1>1, <1>11 DEF RequeueClose, TypeInv, TypeOK, ReplayHolds, QueueRow
  <2>2. /\ queue' \in [Devices -> QueueRow \union {None}]
        /\ queue'[d] # None /\ queue'[d].attempts < MaxAttempts
        /\ \A x \in Devices \ {d} : queue'[x] = queue[x]
    BY <1>1, <1>11, <2>1, EnqueueType, NoneApart DEF RequeueClose, Actions
  <2>3. standing' \in [Devices -> {"settled", "open", "mixedUp"}]
    BY <1>1, <1>11 DEF RequeueClose, MixUp, TypeOK
  <2>4. pc' = [pc EXCEPT ![d] = "requeued"] /\ held' = [held EXCEPT ![d] = None]
    BY <1>11 DEF RequeueClose, Goto
  <2>5. TypeOK'
    BY <1>1, <1>11, <2>2, <2>3, <2>4 DEF RequeueClose, TypeOK
  <2>6. ReplayHolds'
    BY <1>1, <2>2, <2>4 DEF TypeInv, TypeOK, ReplayHolds, Replaying
  <2> QED
    BY <2>5, <2>6 DEF TypeInv
<1>12. ASSUME NEW p \in posts, CloseMonth(p) PROVE TypeInv'
  <2>1. /\ posts' \subseteq PostRecord
        /\ standing' \in [Devices -> {"settled", "open", "mixedUp"}]
    BY <1>1, <1>12, PostType DEF CloseMonth, Accept, PostState, TypeOK
  <2> QED
    BY <1>12, <2>1 DEF CloseMonth, TypeInv, TypeOK, ReplayHolds, Snapshot
<1>13. ASSUME NEW p \in posts, ReopenMonth(p) PROVE TypeInv'
  <2>1. /\ posts' \subseteq PostRecord
        /\ standing' \in [Devices -> {"settled", "open", "mixedUp"}]
    BY <1>1, <1>13, PostType DEF ReopenMonth, Accept, PostState, TypeOK
  <2>2. server' \in Snapshot \union {None}
    BY <1>1, <1>13, SnapshotType DEF ReopenMonth, TypeOK
  <2> QED
    BY <1>13, <2>1, <2>2 DEF ReopenMonth, TypeInv, TypeOK, ReplayHolds
<1>14. ASSUME NEW p \in posts, FailPost(p) PROVE TypeInv'
  <2>1. posts' \subseteq PostRecord
    BY <1>1, <1>14, PostType DEF FailPost, PostState
  <2> QED
    BY <1>14, <2>1 DEF FailPost, TypeInv, TypeOK, ReplayHolds
<1>15. ASSUME SeedMonth PROVE TypeInv'
  BY <1>15 DEF SeedMonth, SeededOpen, TypeInv, TypeOK, ReplayHolds, Snapshot
<1>16. ASSUME UNCHANGED vars PROVE TypeInv'
  BY <1>16 DEF vars, TypeInv, TypeOK, ReplayHolds
<1> QED
  BY <1>2, <1>3, <1>4, <1>5, <1>6, <1>7, <1>8, <1>9, <1>10, <1>11, <1>12, <1>13,
     <1>14, <1>15, <1>16 DEF Next, Device, Handle

\* The types hold of every behaviour.
LEMMA TypeInvariant == Spec => []TypeInv
<1>1. Init => TypeInv
  <2> SUFFICES ASSUME Init PROVE TypeInv
    OBVIOUS
  <2>1. /\ server \in Snapshot \union {None}
        /\ local \in [Devices -> {"open", "closed", None}]
    <3>1. CASE server = None /\ local = [d \in Devices |-> None]
      BY <3>1
    <3>2. CASE server = SeededOpen /\ local \in [Devices -> {None, "closed"}]
      BY <3>2, SnapshotType DEF SeededOpen
    <3> QED
      BY <3>1, <3>2 DEF Init
  <2>2. TypeOK
    BY <2>1 DEF Init, TypeOK
  <2>3. ReplayHolds
    BY DEF Init, ReplayHolds, Replaying
  <2> QED
    BY <2>2, <2>3 DEF TypeInv
<1> QED
  BY <1>1, TypeStep, PTL DEF Spec

(***************************************************************************)
(* Every variable keeps its type: an action of a month is never tried more *)
(* often than the queue allows, requeued by a pull or not.                 *)
(***************************************************************************)
THEOREM MonthTypes == Spec => []TypeOK
<1>1. TypeInv => TypeOK
  BY DEF TypeInv
<1> QED
  BY <1>1, TypeInvariant, PTL

-----------------------------------------------------------------------------
(***************************************************************************)
(* Why an action that is not mixed up with another is not lost: what a     *)
(* device holds, has queued or has posted is never about a later action    *)
(* than its user's last one, and a post about that one which the server    *)
(* has dealt with has settled it.                                          *)
(***************************************************************************)
NothingAhead ==
  /\ \A d \in Devices :
       /\ acting[d] # None => acting[d].n = latest[d]
       /\ held[d] # None => held[d].n <= latest[d]
       /\ queue[d] # None => queue[d].n <= latest[d]
  /\ \A p \in posts : p.n <= latest[p.dev]

DealtWith(p) == p.state \in {"accepted", "notFound"}

AcceptedSettled ==
  \A p \in posts : DealtWith(p) /\ p.n = latest[p.dev] => standing[p.dev] = "settled"

KeptInv == NothingAhead /\ AcceptedSettled /\ LatestActionKept

(***************************************************************************)
(* Marking the row for a post that is done either is right, or settles     *)
(* nothing and is a mix-up.                                                *)
(***************************************************************************)
LEMMA MarkKeeps ==
  ASSUME TypeInv, KeptInv, NEW p \in posts, Done(p), MarkSynced(p.dev, p.n),
         UNCHANGED <<acting, latest>>
  PROVE  /\ \A d \in Devices : queue'[d] # None => queue'[d].n <= latest[d]
         /\ \A d \in Devices : standing[d] = "settled" => standing'[d] = "settled"
         /\ LatestActionKept'
<1>1. p.dev \in Devices /\ p.n \in Nat /\ TypeOK
  BY DEF TypeInv, TypeOK, PostRecord
<1>2. /\ \A d \in Devices :
           /\ queue'[d] = None <=> queue[d] = None
           /\ queue[d] # None => queue'[d].n = queue[d].n
      /\ \A d \in Devices \ {p.dev} : queue'[d] = queue[d]
      /\ \A d \in Devices : /\ standing[d] # "open" => standing'[d] = standing[d]
                            /\ standing'[d] = "open" => standing[d] = "open"
  <2> DEFINE dev == p.dev
             n == p.n
  <2>1. dev \in Devices /\ n \in Nat /\ MarkSynced(dev, n)
    BY <1>1
  <2> HIDE DEF dev, n
  <2>2. \A d \in Devices :
          /\ queue'[d] = None <=> queue[d] = None
          /\ queue[d] # None => queue'[d].n = queue[d].n
    BY <1>1, <2>1, MarkType
  <2>3. \A d \in Devices : /\ standing[d] # "open" => standing'[d] = standing[d]
                           /\ standing'[d] = "open" => standing[d] = "open"
    BY <1>1, <2>1 DEF MarkSynced, MixUp, TypeOK
  <2>4. \A d \in Devices \ {dev} : queue'[d] = queue[d]
    BY <1>1, <2>1, MarkType
  <2> QED
    BY <2>2, <2>3, <2>4 DEF dev
<1>3. queue[p.dev] # None /\ acting[p.dev] = None /\ standing'[p.dev] = "open"
        => p.n = queue[p.dev].n
  BY <1>1, MarkType
<1>4. DealtWith(p)
  BY DEF Done, DealtWith
<1>5. ~(acting[p.dev] = None /\ standing'[p.dev] = "open")
  <2> SUFFICES ASSUME acting[p.dev] = None, standing'[p.dev] = "open" PROVE FALSE
    OBVIOUS
  <2>1. standing[p.dev] = "open"
    BY <1>1, <1>2
  <2>2. queue[p.dev] # None /\ queue[p.dev].n = latest[p.dev]
    BY <1>1, <2>1 DEF KeptInv, LatestActionKept, Waiting
  <2> QED
    BY <1>3, <1>4, <2>1, <2>2 DEF KeptInv, AcceptedSettled
<1>6. LatestActionKept'
  BY <1>1, <1>2, <1>5 DEF KeptInv, LatestActionKept, Waiting
<1> QED
  BY <1>2, <1>6 DEF KeptInv, NothingAhead

(***************************************************************************)
(* A step of the device or of the user that leaves the queue rows alone    *)
(* keeps what the posts and rows say of the last action.                   *)
(***************************************************************************)
LEMMA QuietKeeps ==
  ASSUME TypeInv, KeptInv, posts' \subseteq posts,
         UNCHANGED <<acting, queue, historyVars>>,
         \A d \in Devices : held'[d] # None => held'[d].n <= latest[d]
  PROVE  KeptInv'
BY DEF KeptInv, NothingAhead, AcceptedSettled, LatestActionKept, Waiting, historyVars

\* A post of the device about an action that is not after its last one.
LEMMA PostKeeps ==
  ASSUME TypeInv, KeptInv, NEW d \in Devices, NEW via, NEW op, NEW n, n <= latest[d],
         Post(d, via, op, n), UNCHANGED historyVars
  PROVE  /\ \A p \in posts' : p.n <= latest[p.dev]
         /\ AcceptedSettled'
<1> DEFINE new == [dev |-> d, via |-> via, op |-> op, n |-> n, state |-> "sent"]
<1>1. posts' = posts \union {new} /\ new.n <= latest[new.dev] /\ ~DealtWith(new)
  BY DEF Post, DealtWith
<1> QED
  BY <1>1 DEF KeptInv, NothingAhead, AcceptedSettled, DealtWith, historyVars

(***************************************************************************)
(* A post that moves on stays about the action it was about; once it is    *)
(* dealt with, that action is settled if it is the last.                   *)
(***************************************************************************)
LEMMA BecomesKeeps ==
  ASSUME TypeInv, KeptInv, NEW p \in posts, NEW state \in PostState, Becomes(p, state),
         \/ Accept(p)
         \/ /\ state = "failed"
            /\ standing' = standing,
         UNCHANGED <<acting, latest, queue, held>>
  PROVE  KeptInv'
<1> DEFINE new == [p EXCEPT !.state = state]
<1>1. posts' = (posts \ {p}) \union {new}
  BY DEF Becomes
<1>2. new.dev = p.dev /\ new.n = p.n /\ new.state = state
  BY PostType DEF TypeInv
<1>3. p.dev \in Devices /\ \A q \in posts : q.dev \in Devices
  BY DEF TypeInv, TypeOK, PostRecord
<1>4. /\ \A d \in Devices : standing[d] = "settled" => standing'[d] = "settled"
      /\ \A d \in Devices : standing'[d] = "open" => standing[d] = "open"
      /\ state # "failed" /\ p.n = latest[p.dev] => standing'[p.dev] = "settled"
  BY <1>3 DEF Accept, TypeInv, TypeOK
<1>5. NothingAhead'
  BY <1>1, <1>2 DEF KeptInv, NothingAhead
<1>6. AcceptedSettled'
  BY <1>1, <1>2, <1>3, <1>4 DEF KeptInv, AcceptedSettled, DealtWith
<1>7. LatestActionKept'
  BY <1>4 DEF KeptInv, LatestActionKept, Waiting
<1> QED
  BY <1>5, <1>6, <1>7 DEF KeptInv

(***************************************************************************)
(* One step keeps all of that.                                             *)
(***************************************************************************)
LEMMA KeptStep == TypeInv /\ KeptInv /\ [Next]_vars => KeptInv'
<1> SUFFICES ASSUME TypeInv, KeptInv, [Next]_vars PROVE KeptInv'
  OBVIOUS
<1> USE DEF syncVars, boundVars
<1>0. TypeOK /\ TypeOK'
  BY TypeStep DEF TypeInv
<1>1. ASSUME NEW d \in Devices, Act(d) PROVE KeptInv'
  <2>1. /\ latest' = [latest EXCEPT ![d] = latest[d] + 1]
        /\ latest'[d] = latest[d] + 1
        /\ standing' = [standing EXCEPT ![d] = "open"]
        /\ \A x \in Devices : latest[x] \in Nat
    BY <1>0, <1>1 DEF Act, TypeOK
  <2>2. /\ acting'[d] # None /\ acting'[d].n = latest'[d]
        /\ \A x \in Devices \ {d} : acting'[x] = acting[x]
    <3> DEFINE op == IF local[d] = "closed" THEN "reopen" ELSE "close"
    <3>1. [op |-> op, n |-> latest'[d]] \in Action
      BY <1>0 DEF TypeOK, Action, Actions
    <3>2. acting' = [acting EXCEPT ![d] = [op |-> op, n |-> latest'[d]]]
      BY <1>1 DEF Act
    <3> QED
      BY <1>0, <3>1, <3>2, NoneApart DEF TypeOK
  <2>3. \A x \in Devices : /\ held[x] # None => held[x].n \in Nat
                           /\ queue[x] # None => queue[x].n \in Nat
    BY <1>0 DEF TypeOK, QueueRow
  <2>4. \A p \in posts : p.dev \in Devices /\ p.n \in Nat
    BY <1>0 DEF TypeOK, PostRecord
  <2>5. NothingAhead'
    BY <1>1, <2>1, <2>2, <2>3, <2>4 DEF Act, KeptInv, NothingAhead
  <2>6. AcceptedSettled'
    BY <1>0, <1>1, <2>1, <2>4
       DEF Act, KeptInv, NothingAhead, AcceptedSettled, DealtWith, TypeOK
  <2>7. LatestActionKept'
    BY <1>0, <1>1, <2>1, <2>2 DEF Act, KeptInv, LatestActionKept, Waiting, TypeOK
  <2> QED
    BY <2>5, <2>6, <2>7 DEF KeptInv
<1>2. ASSUME NEW d \in Devices, Notify(d) PROVE KeptInv'
  <2>1. /\ acting[d].op \in Actions /\ acting[d].n = latest[d] /\ latest[d] \in Nat
    BY <1>0, <1>2 DEF Notify, TypeOK, Action, KeptInv, NothingAhead
  <2>2. /\ queue'[d].n = latest[d] /\ queue'[d] # None /\ ~queue'[d].synced
        /\ \A x \in Devices \ {d} : queue'[x] = queue[x]
    <3>1. Enqueue(d, acting[d].op, latest[d])
      BY <1>2, <2>1 DEF Notify
    <3>2. /\ queue'[d] \in QueueRow
          /\ queue'[d] = [op |-> acting[d].op, n |-> latest[d], attempts |-> 0,
                          synced |-> FALSE]
          /\ \A x \in Devices \ {d} : queue'[x] = queue[x]
      BY <1>0, <2>1, <3>1, EnqueueType
    <3>3. queue'[d].n = latest[d] /\ ~queue'[d].synced
      BY <3>2
    <3> QED
      BY <3>2, <3>3, NoneApart
  <2>3. acting'[d] = None /\ \A x \in Devices \ {d} : acting'[x] = acting[x]
    BY <1>0, <1>2 DEF Notify, TypeOK
  <2>4. (\A p \in posts' : p.n <= latest[p.dev]) /\ AcceptedSettled'
    BY <1>2, <2>1, PostKeeps DEF Notify
  <2>5. NothingAhead'
    BY <1>2, <2>1, <2>2, <2>3, <2>4 DEF Notify, KeptInv, NothingAhead, historyVars
  <2>6. LatestActionKept'
    BY <1>2, <2>2, <2>3 DEF Notify, KeptInv, LatestActionKept, Waiting, historyVars
  <2> QED
    BY <2>4, <2>5, <2>6 DEF KeptInv
<1>3. ASSUME NEW p \in posts, Done(p), MarkSynced(p.dev, p.n), posts' = posts \ {p},
             UNCHANGED <<acting, held, latest>>
      PROVE  KeptInv'
  <2>1. /\ \A d \in Devices : queue'[d] # None => queue'[d].n <= latest[d]
        /\ \A d \in Devices : standing[d] = "settled" => standing'[d] = "settled"
        /\ LatestActionKept'
    BY <1>3, MarkKeeps
  <2>2. \A q \in posts : q.dev \in Devices
    BY <1>0 DEF TypeOK, PostRecord
  <2> QED
    BY <1>3, <2>1, <2>2 DEF KeptInv, NothingAhead, AcceptedSettled, DealtWith
<1>4. ASSUME NEW p \in posts, NotifyAnswered(p) PROVE KeptInv'
  <2>1. CASE Done(p)
    BY <1>3, <1>4, <2>1 DEF NotifyAnswered
  <2>2. CASE ~Done(p)
    BY <1>4, <2>2, QuietKeeps DEF NotifyAnswered, KeptInv, NothingAhead, historyVars
  <2> QED
    BY <2>1, <2>2
<1>5. ASSUME NEW d \in Devices, ReadQueue(d) PROVE KeptInv'
  <2>1. \A x \in Devices : held'[x] # None => held'[x].n <= latest[x]
    BY <1>0, <1>5 DEF ReadQueue, Waiting, TypeOK, KeptInv, NothingAhead
  <2> QED
    BY <1>5, <2>1, QuietKeeps DEF ReadQueue
<1>6. ASSUME NEW d \in Devices, PushFails(d) \/ PullRead(d) PROVE KeptInv'
  BY <1>6, QuietKeeps DEF PushFails, PullRead, KeptInv, NothingAhead
<1>7. ASSUME NEW d \in Devices, ReplayPost(d) PROVE KeptInv'
  <2>1. held[d] # None /\ held[d].n <= latest[d]
    BY <1>7 DEF ReplayPost, TypeInv, ReplayHolds, KeptInv, NothingAhead
  <2>2. (\A p \in posts' : p.n <= latest[p.dev]) /\ AcceptedSettled'
    BY <1>7, <2>1, PostKeeps DEF ReplayPost
  <2>3. \A x \in Devices : held'[x] # None => held'[x] = held[x]
    BY <1>0, <1>7 DEF ReplayPost, TypeOK
  <2> QED
    BY <1>7, <2>2, <2>3
       DEF ReplayPost, KeptInv, NothingAhead, LatestActionKept, Waiting, historyVars
<1>8. ASSUME NEW p \in posts, ReplayAnswered(p) PROVE KeptInv'
  <2>1. CASE Done(p)
    BY <1>3, <1>8, <2>1 DEF ReplayAnswered
  <2>2. CASE ~Done(p)
    <3> DEFINE d == p.dev
    <3>1. d \in Devices
      BY <1>0 DEF TypeOK, PostRecord
    <3>2. queue[d] # None /\ queue[d].attempts < MaxAttempts
      BY <1>8, <3>1 DEF ReplayAnswered, TypeInv, ReplayHolds, Replaying
    <3>3. /\ queue'[d] # None
          /\ queue'[d].n = queue[d].n /\ queue'[d].synced = queue[d].synced
          /\ \A x \in Devices \ {d} : queue'[x] = queue[x]
      BY <1>0, <1>8, <2>2, <3>1, <3>2, CountType DEF ReplayAnswered
    <3>4. UNCHANGED <<acting, held, latest, standing>> /\ posts' \subseteq posts
      BY <1>8, <2>2 DEF ReplayAnswered
    <3> QED
      BY <3>1, <3>2, <3>3, <3>4
         DEF KeptInv, NothingAhead, AcceptedSettled, LatestActionKept, Waiting
  <2> QED
    BY <2>1, <2>2
<1>9. ASSUME NEW d \in Devices, ApplyPull(d) PROVE KeptInv'
  <2>1. UnsentClose(d).n = latest[d] /\ latest[d] \in Nat
    BY <1>0 DEF UnsentClose, TypeOK
  <2>2. \A x \in Devices : held'[x] # None => held'[x].n <= latest[x]
    <3>1. held' = held \/ held' = [held EXCEPT ![d] = UnsentClose(d)]
      BY <1>9 DEF ApplyPull
    <3> QED
      BY <1>0, <2>1, <3>1 DEF TypeOK, KeptInv, NothingAhead
  <2> QED
    BY <1>9, <2>2, QuietKeeps DEF ApplyPull
<1>10. ASSUME NEW d \in Devices, RequeueClose(d) PROVE KeptInv'
  <2>1. held[d].n \in Nat /\ held[d].n <= latest[d]
    BY <1>0, <1>10
       DEF RequeueClose, TypeInv, TypeOK, ReplayHolds, QueueRow, KeptInv, NothingAhead
  <2>2. /\ queue'[d] = [op |-> "close", n |-> held[d].n, attempts |-> 0, synced |-> FALSE]
        /\ queue'[d] # None
        /\ \A x \in Devices \ {d} : queue'[x] = queue[x]
    BY <1>0, <1>10, <2>1, EnqueueType, NoneApart DEF RequeueClose, Actions
  <2>3. queue'[d].n = held[d].n /\ ~queue'[d].synced
    BY <2>2
  <2>4. /\ \A x \in Devices : /\ standing[x] # "open" => standing'[x] = standing[x]
                              /\ standing'[x] = "open" => standing[x] = "open"
        /\ acting[d] = None /\ standing'[d] = "open" => held[d].n = latest[d]
    BY <1>0, <1>10 DEF RequeueClose, MixUp, TypeOK
  <2>5. \A x \in Devices : held'[x] # None => held'[x] = held[x]
    BY <1>0, <1>10 DEF RequeueClose, TypeOK
  <2>6. \A p \in posts : p.dev \in Devices
    BY <1>0 DEF TypeOK, PostRecord
  <2>7. NothingAhead'
    BY <1>10, <2>1, <2>2, <2>3, <2>5 DEF RequeueClose, KeptInv, NothingAhead
  <2>8. AcceptedSettled'
    BY <1>10, <2>4, <2>6 DEF RequeueClose, KeptInv, AcceptedSettled, DealtWith
  <2>9. LatestActionKept'
    BY <1>10, <2>2, <2>3, <2>4 DEF RequeueClose, KeptInv, LatestActionKept, Waiting
  <2> QED
    BY <2>7, <2>8, <2>9 DEF KeptInv
<1>11. ASSUME NEW p \in posts, CloseMonth(p) \/ ReopenMonth(p) \/ FailPost(p)
       PROVE  KeptInv'
  BY <1>11, BecomesKeeps DEF CloseMonth, ReopenMonth, FailPost, PostState, historyVars
<1>12. ASSUME SeedMonth \/ UNCHANGED vars PROVE KeptInv'
  BY <1>12, QuietKeeps DEF SeedMonth, vars, historyVars, KeptInv, NothingAhead
<1> QED
  BY <1>1, <1>2, <1>4, <1>5, <1>6, <1>7, <1>8, <1>9, <1>10, <1>11, <1>12
     DEF Next, Device, Handle

\* What is held, queued and posted fits the last actions in every behaviour.
LEMMA KeptInvariant == Spec => [](TypeInv /\ KeptInv)
<1>1. Init => KeptInv
  BY DEF Init, KeptInv, NothingAhead, AcceptedSettled, LatestActionKept
<1>2. TypeInv /\ KeptInv /\ [Next]_vars => KeptInv'
  BY KeptStep
<1> QED
  BY <1>1, <1>2, TypeInvariant, PTL DEF Spec

(***************************************************************************)
(* The queue keeps every user's last action until the server has accepted  *)
(* it or the answer to another one is taken for its own.                   *)
(***************************************************************************)
THEOREM ActionKept == Spec => []LatestActionKept
<1>1. KeptInv => LatestActionKept
  BY DEF KeptInv
<1> QED
  BY <1>1, KeptInvariant, PTL

(***************************************************************************)
(* No pull undoes an action that is kept in the queue.                     *)
(***************************************************************************)
THEOREM PullNeverUndoes == Spec => PullKeepsAction
<1> DEFINE Keeps == \A d \in Devices :
                      pc[d] = "apply" /\ pc'[d] # "apply" /\ local'[d] # local[d] =>
                        acting[d] # None \/ standing[d] # "open"
<1>1. TypeInv /\ KeptInv /\ [Next]_vars => [Keeps]_vars
  <2> SUFFICES ASSUME TypeInv, KeptInv, [Next]_vars, NEW d \in Devices,
                      pc[d] = "apply", pc'[d] # "apply", local'[d] # local[d],
                      acting[d] = None, standing[d] = "open"
               PROVE  FALSE
    OBVIOUS
  <2>1. Waiting(d)
    BY DEF KeptInv, LatestActionKept
  <2>2. ASSUME NEW x \in Devices, Act(x) PROVE FALSE
    BY <2>2 DEF Act, syncVars
  <2>3. ASSUME NEW x \in Devices, ApplyPull(x) PROVE FALSE
    BY <2>1, <2>3 DEF ApplyPull, KeepLocal, TypeInv, TypeOK
  <2>4. local' # local
    OBVIOUS
  <2> QED
    BY <2>2, <2>3, <2>4
       DEF Next, Device, Handle, vars, Notify, NotifyAnswered, ReadQueue, PushFails,
           ReplayPost, ReplayAnswered, PullRead, RequeueClose, CloseMonth,
           ReopenMonth, FailPost, SeedMonth
<1>2. Spec => [][Keeps]_vars
  BY <1>1, KeptInvariant, PTL DEF Spec
<1> QED
  BY <1>2 DEF PullKeepsAction

===============================================================================
