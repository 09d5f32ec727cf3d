-------------------------- MODULE SyncRunner_proofs --------------------------
(***************************************************************************)
(* What TLAPS proves of SyncRunner for any bounds.                         *)
(***************************************************************************)
EXTENDS SyncRunner, FiniteSetTheorems, TLAPS

(***************************************************************************)
(* A run that begins is a run, and one that is cancelled or moves to its   *)
(* next stage remains one.                                                 *)
(***************************************************************************)
LEMMA RunType ==
  /\ \A by \in Callers, now \in SUBSET Changes :
       /\ Fresh(by, now) \in Run
       /\ Fresh(by, now) # NoRun
       /\ Fresh(by, now).by = by
  /\ \A r \in Run :
       /\ r # NoRun
       /\ [r EXCEPT !.cancelled = TRUE] \in Run
       /\ [r EXCEPT !.cancelled = TRUE].by = r.by
<1>1. ASSUME NEW by \in Callers, NEW now \in SUBSET Changes
      PROVE  Fresh(by, now) \in Run /\ Fresh(by, now).by = by
  BY <1>1 DEF Fresh, Run
<1>2. \A r \in Run : r # NoRun
  BY NoRunAssumption
<1>3. ASSUME NEW r \in Run
      PROVE  /\ [r EXCEPT !.cancelled = TRUE] \in Run
             /\ [r EXCEPT !.cancelled = TRUE].by = r.by
  BY <1>3 DEF Run
<1> QED
  BY <1>1, <1>2, <1>3

(***************************************************************************)
(* What the callers of a run have in common: starting one, or finding one  *)
(* in progress, keeps every variable in its type.                          *)
(***************************************************************************)
LEMMA TriggerType ==
  ASSUME TypeOK, NEW now \in SUBSET Changes,
         \/ Trigger(now)
         \/ loop = "check" /\ Turn(now)
  PROVE  /\ run' \in Run \union {NoRun}
         /\ loop' \in {"off", "await", "check"}
         /\ again' \in BOOLEAN
         /\ loop' = "await" <=> RunBy("loop")'
         /\ RunBy("logout")' <=> RunBy("logout")
<1>1. CASE Turn(now) /\ loop # "await"
  <2>1. CASE run = NoRun /\ session # "out"
    <3>1. run' = Fresh("loop", now) /\ loop' = "await" /\ again' = FALSE
      BY <1>1, <2>1 DEF Turn
    <3>2. "loop" \in Callers
      BY DEF Callers
    <3> QED
      BY <2>1, <3>1, <3>2, RunType DEF RunBy
  <2>2. CASE ~(run = NoRun /\ session # "out")
    BY <1>1, <2>2 DEF Turn, TypeOK, RunBy
  <2> QED
    BY <2>1, <2>2
<1>2. CASE again' = TRUE /\ UNCHANGED <<run, loop>>
  BY <1>2 DEF TypeOK, RunBy
<1> QED
  BY <1>1, <1>2 DEF Trigger

(***************************************************************************)
(* When a run returns, whoever called it goes on.                          *)
(***************************************************************************)
LEMMA ReturnType ==
  ASSUME TypeOK, run # NoRun, Return
  PROVE  /\ run' = NoRun
         /\ loop' \in {"off", "await", "check"}
         /\ again' \in BOOLEAN /\ keep' \in BOOLEAN
         /\ session' \in {"in", "syncing", "recount", "leaving", "out"}
         /\ loop' = "await" <=> RunBy("loop")'
         /\ session' = "syncing" <=> RunBy("logout")'
         /\ logouts' = logouts
  BY DEF TypeOK, Return, RunBy

(***************************************************************************)
(* The stages of a run keep it a run of the same caller.                   *)
(***************************************************************************)
LEMMA StageType ==
  ASSUME TypeOK, run # NoRun,
         NEW stage \in {"drain", "push", "pushWait", "pull", "pullWait"},
         NEW rows \in SUBSET Changes
  PROVE  /\ [run EXCEPT !.stage = stage] \in Run
         /\ [run EXCEPT !.stage = stage].by = run.by
         /\ [run EXCEPT !.stage = stage, !.rows = rows] \in Run
         /\ [run EXCEPT !.stage = stage, !.rows = rows].by = run.by
         /\ [run EXCEPT !.stage = stage, !.failed = TRUE] \in Run
         /\ [run EXCEPT !.stage = stage, !.failed = TRUE].by = run.by
  BY DEF TypeOK, Run

(***************************************************************************)
(* Counting what failed gives a number.                                    *)
(***************************************************************************)
LEMMA CountType ==
  ASSUME NEW S \in SUBSET Changes
  PROVE  Cardinality(S) \in Nat
<1>1. IsFiniteSet(Changes)
  BY BoundsAssumption, FS_Interval DEF Changes
<1> QED
  BY <1>1, FS_Subset, FS_CardinalityType

(***************************************************************************)
(* A batch that arrives adds what it carries to what the server has or has *)
(* refused.                                                                *)
(***************************************************************************)
LEMMA BatchType ==
  ASSUME TypeOK, run # NoRun, BatchArrives
  PROVE  /\ {stored', refused'} \subseteq SUBSET Changes
         /\ stored \subseteq stored' /\ refused \subseteq refused'
         /\ stored' \subseteq stored \union run.rows
         /\ refused' \subseteq refused \union run.rows
         /\ run.rows \subseteq stored' \union refused'
<1>1. PICK no \in SUBSET (run.rows \ stored) :
        /\ stored' = stored \union (run.rows \ no)
        /\ refused' = refused \union no
  BY DEF BatchArrives
<1>2. run.rows \subseteq Changes
  BY DEF TypeOK, Run
<1> QED
  BY <1>1, <1>2 DEF TypeOK

(***************************************************************************)
(* One step keeps every variable in its type.                              *)
(***************************************************************************)
LEMMA TypeStep == TypeOK /\ [Next]_vars => TypeOK'
<1> SUFFICES ASSUME TypeOK, [Next]_vars PROVE TypeOK'
  OBVIOUS
<1> USE DEF sessionVars, loopVars, dataVars
<1>1. ASSUME NEW queue \in BOOLEAN, Change(queue) PROVE TypeOK'
  <2>1. /\ made' \in 0..MaxChanges
        /\ {changed', queued', added'} \subseteq SUBSET Changes
    BY <1>1, BoundsAssumption DEF Change, TypeOK, Changes
  <2>2. /\ run' \in Run \union {NoRun}
        /\ loop' \in {"off", "await", "check"}
        /\ again' \in BOOLEAN
        /\ loop' = "await" <=> RunBy("loop")'
        /\ RunBy("logout")' <=> RunBy("logout")
    BY <1>1, <2>1, TriggerType DEF Change
  <2> QED
    BY <1>1, <2>1, <2>2 DEF Change, TypeOK
<1>2. ASSUME DirectSync PROVE TypeOK'
  BY <1>2, RunType DEF DirectSync, TypeOK, RunBy, Callers
<1>3. ASSUME Reconnect PROVE TypeOK'
  <2>1. changed \in SUBSET Changes
    BY DEF TypeOK
  <2> QED
    BY <1>3, <2>1, TriggerType DEF Reconnect, TypeOK
<1>4. ASSUME LoopCheck PROVE TypeOK'
  <2>1. changed \in SUBSET Changes
    BY DEF TypeOK
  <2>2. CASE again
    BY <1>4, <2>1, <2>2, TriggerType DEF LoopCheck, TypeOK
  <2>3. CASE ~again
    BY <1>4, <2>3 DEF LoopCheck, TypeOK, RunBy
  <2> QED
    BY <2>2, <2>3
<1>5. ASSUME Drain PROVE TypeOK'
  <2>1. PICK done \in SUBSET queued, got \in SUBSET queued :
          /\ failures' = failures + Cardinality(queued \ done)
          /\ stored' = stored \union got
          /\ queued' = queued \ done
    BY <1>5 DEF Drain
  <2>2. queued \ done \in SUBSET Changes
    BY DEF TypeOK
  <2>3. failures' \in Nat
    BY <2>1, <2>2, CountType DEF TypeOK
  <2>4. run' \in Run /\ run'.by = run.by /\ run # NoRun /\ run' # NoRun
    BY <1>5, RunType, StageType, {} \in SUBSET Changes DEF Drain, Running
  <2> QED
    BY <1>5, <2>1, <2>3, <2>4 DEF Drain, TypeOK, RunBy
<1>6. ASSUME Push PROVE TypeOK'
  BY <1>6, RunType, StageType DEF Push, Running, TypeOK, RunBy
<1>7. ASSUME Pushed PROVE TypeOK'
  <2>1. run' \in Run /\ run'.by = run.by /\ run # NoRun /\ run' # NoRun
    BY <1>7, RunType, StageType, {} \in SUBSET Changes DEF Pushed, Running
  <2>2. {stored', refused'} \subseteq SUBSET Changes
    BY <1>7, <2>1, BatchType DEF Pushed
  <2> QED
    BY <1>7, <2>1, <2>2 DEF Pushed, TypeOK, RunBy
<1>8. ASSUME PullData PROVE TypeOK'
  BY <1>8, RunType, StageType DEF PullData, Running, TypeOK, RunBy
<1>9. ASSUME PullNothing PROVE TypeOK'
  BY <1>9, ReturnType DEF PullNothing, Report, Running, TypeOK, Run
<1>10. ASSUME Pulled PROVE TypeOK'
  <2>1. {changed', reported'} \subseteq SUBSET Changes
    BY <1>10 DEF Pulled, Report, Running, TypeOK, Run
  <2> QED
    BY <1>10, <2>1, ReturnType DEF Pulled, Running, TypeOK
<1>11. ASSUME Cancelled PROVE TypeOK'
  <2>1. {stored', refused'} \subseteq SUBSET Changes
    BY <1>11, BatchType DEF Cancelled, TypeOK
  <2> QED
    BY <1>11, <2>1, ReturnType DEF Cancelled, TypeOK
<1>12. ASSUME PushFails PROVE TypeOK'
  <2>1. run' \in Run /\ run'.by = run.by /\ run # NoRun /\ run' # NoRun
    BY <1>12, RunType, StageType, {} \in SUBSET Changes DEF PushFails, Running
  <2>2. {stored', refused'} \subseteq SUBSET Changes
    BY <1>12, <2>1, BatchType DEF PushFails, TypeOK
  <2> QED
    BY <1>12, <2>1, <2>2 DEF PushFails, TypeOK, RunBy
<1>13. ASSUME PullFails PROVE TypeOK'
  BY <1>13, ReturnType DEF PullFails, Running, TypeOK
<1>14. ASSUME TimeOut PROVE TypeOK'
  BY <1>14, RunType DEF TimeOut, TypeOK, RunBy
<1>15. ASSUME CancelRun PROVE /\ run' \in Run \union {NoRun}
                              /\ RunBy("loop")' <=> RunBy("loop")
                              /\ RunBy("logout")' <=> RunBy("logout")
  BY <1>15, RunType DEF CancelRun, TypeOK, RunBy
<1>16. ASSUME Logout PROVE TypeOK'
  <2>1. CASE queued = {}
    <3>1. CancelRun /\ session = "in" /\ session' = "leaving" /\ logouts' \in Nat
      BY <1>16, <2>1 DEF Logout, TypeOK
    <3> QED
      BY <1>15, <1>16, <2>1, <3>1 DEF Logout, TypeOK
  <2>2. CASE queued # {} /\ run = NoRun
    BY <1>16, <2>2, RunType DEF Logout, TypeOK, RunBy, Callers
  <2>3. CASE queued # {} /\ run # NoRun
    BY <1>16, <2>3 DEF Logout, TypeOK, RunBy
  <2> QED
    BY <2>1, <2>2, <2>3
<1>17. ASSUME Recount PROVE TypeOK'
  BY <1>15, <1>17 DEF Recount, TypeOK
<1>18. ASSUME Wipe PROVE TypeOK'
  BY <1>18 DEF Wipe, TypeOK, RunBy
<1>19. ASSUME SignIn PROVE TypeOK'
  BY <1>19, RunType DEF SignIn, TypeOK, RunBy, Callers
<1>20. ASSUME UNCHANGED vars PROVE TypeOK'
  BY <1>20 DEF vars, TypeOK, RunBy
<1> QED
  BY <1>1, <1>2, <1>3, <1>4, <1>5, <1>6, <1>7, <1>8, <1>9, <1>10, <1>11, <1>12,
     <1>13, <1>14, <1>16, <1>17, <1>18, <1>19, <1>20 DEF Next, Steps

(***************************************************************************)
(* Every variable keeps its type, and no more than one run of the sync is  *)
(* under way, the one its caller waits for.                                *)
(***************************************************************************)
THEOREM RunnerTypes == Spec => []TypeOK
<1>1. ASSUME Init PROVE TypeOK
  <2>1. made \in 0..MaxChanges
    BY <1>1, BoundsAssumption DEF Init
  <2>2. {changed, queued, stored, refused, added, reported} \subseteq SUBSET Changes
    BY <1>1 DEF Init
  <2>3. /\ loop = "await" <=> RunBy("loop")
        /\ session = "syncing" <=> RunBy("logout")
    BY <1>1 DEF Init, RunBy
  <2>4. {directs, failures, logouts} \subseteq Nat
    BY <1>1 DEF Init
  <2> QED
    BY <1>1, <2>1, <2>2, <2>3, <2>4 DEF Init, TypeOK
<1> QED
  BY <1>1, TypeStep, PTL DEF Spec

-----------------------------------------------------------------------------
(***************************************************************************)
(* Why a reported change is one the server has ruled on.  A run carries    *)
(* only changes that were made; what was in the database when it started   *)
(* is in the table it pushes, unless wiped meanwhile, and stored or refused*)
(* once the push has been answered; and what it pulled the server has.     *)
(***************************************************************************)
OnlyMade ==
  /\ {changed, queued, stored, refused, added, reported} \subseteq SUBSET (1..made)
  /\ run # NoRun => {run.before, run.rows} \subseteq SUBSET (1..made)

RunCarries ==
  run # NoRun =>
    /\ run.stage = "pushWait" => run.before \cap changed \subseteq run.rows
    /\ run.stage = "pull" /\ ~run.failed =>
         run.before \cap changed \subseteq stored \union refused
    /\ run.stage = "pullWait" => run.rows \subseteq stored
    /\ run.stage = "pullWait" /\ ~run.failed =>
         run.before \cap changed \subseteq run.rows \union refused

(***************************************************************************)
(* Why an added entry survives signing out: until the server has it, it is *)
(* in the queue, and the queue is empty when the data is to be wiped.      *)
(***************************************************************************)
QueueHoldsUnstored == (added \cap changed) \ queued \subseteq stored

WipeOnlyEmptied == session = "leaving" /\ ~keep => queued = {}

RunnerInv ==
  OnlyMade /\ RunCarries /\ SuccessIsEarned /\ QueueHoldsUnstored /\ WipeOnlyEmptied

(***************************************************************************)
(* A step of the loop or of signing out either leaves the run alone, but   *)
(* for cancelling it, or starts one with what is in the database.          *)
(***************************************************************************)
RunLeftAlone ==
  \/ run' = run
  \/ run # NoRun /\ run' = [run EXCEPT !.cancelled = TRUE]

RunStarts(now) == \E by \in Callers : run = NoRun /\ run' = Fresh(by, now)

\* A round of the loop starts a run or leaves the one there is alone.
LEMMA TurnStarts ==
  ASSUME TypeOK, NEW now, Turn(now)
  PROVE  RunLeftAlone \/ RunStarts(now)
<1>1. "loop" \in Callers
  BY DEF Callers
<1> QED
  BY <1>1 DEF Turn, RunLeftAlone, RunStarts

\* So does a trigger.
LEMMA TriggerStarts ==
  ASSUME TypeOK, NEW now, Trigger(now)
  PROVE  RunLeftAlone \/ RunStarts(now)
BY TurnStarts DEF Trigger, RunLeftAlone

(***************************************************************************)
(* What a run promises, kept by every step that does not move it on: the   *)
(* database may gain changes made after the run started, or be wiped.      *)
(***************************************************************************)
LEMMA RunKept ==
  ASSUME TypeOK, TypeOK', RunnerInv, made' \in Nat, made <= made',
         {changed', queued', added'} \subseteq SUBSET (1..made'),
         changed' \subseteq changed \union ((1..made') \ (1..made)),
         UNCHANGED <<stored, refused, reported>>,
         RunLeftAlone \/ RunStarts(changed')
  PROVE  OnlyMade' /\ RunCarries' /\ SuccessIsEarned'
<1>1. {stored', refused', reported'} \subseteq SUBSET (1..made')
  BY DEF TypeOK, RunnerInv, OnlyMade
<1>2. SuccessIsEarned'
  BY DEF RunnerInv, OnlyMade, SuccessIsEarned
<1>3. CASE RunLeftAlone
  <2>1. \/ run = NoRun /\ run' = NoRun
        \/ /\ run # NoRun
           /\ run'.before = run.before /\ run'.rows = run.rows
           /\ run'.stage = run.stage /\ run'.failed = run.failed
    BY <1>3 DEF RunLeftAlone, TypeOK, Run
  <2> QED
    BY <1>1, <1>2, <2>1 DEF RunnerInv, OnlyMade, RunCarries, TypeOK
<1>4. CASE RunStarts(changed')
  <2>1. /\ run' # NoRun
        /\ run'.before = changed' /\ run'.rows = {} /\ run'.stage = "drain"
    <3>1. PICK by \in Callers : run' = Fresh(by, changed')
      BY <1>4 DEF RunStarts
    <3> QED
      BY <3>1, RunType DEF Fresh, TypeOK
  <2> QED
    BY <1>1, <1>2, <2>1 DEF OnlyMade, RunCarries
<1> QED
  BY <1>3, <1>4

(***************************************************************************)
(* One step keeps what makes the properties hold.                          *)
(***************************************************************************)
LEMMA RunnerStep == TypeOK /\ RunnerInv /\ [Next]_vars => RunnerInv'
<1> SUFFICES ASSUME TypeOK, RunnerInv, [Next]_vars PROVE RunnerInv'
  OBVIOUS
<1>0. TypeOK'
  BY TypeStep
<1> USE DEF sessionVars, loopVars, dataVars
<1>a. /\ made \in Nat
      /\ {changed, queued, stored, refused, added, reported} \subseteq SUBSET (1..made)
  BY BoundsAssumption DEF TypeOK, RunnerInv, OnlyMade
<1>1. ASSUME NEW queue \in BOOLEAN, Change(queue) PROVE RunnerInv'
  <2>1. /\ made' = made + 1
        /\ {changed', queued', added'} \subseteq SUBSET (1..made')
        /\ changed' \subseteq changed \union ((1..made') \ (1..made))
        /\ session' = session /\ session = "in"
    BY <1>1, <1>a DEF Change
  <2>2. RunLeftAlone \/ RunStarts(changed')
    BY <1>1, TriggerStarts DEF Change
  <2>3. OnlyMade' /\ RunCarries' /\ SuccessIsEarned'
    BY <1>0, <1>1, <1>a, <2>1, <2>2, RunKept DEF Change
  <2>4. made' \notin added
    BY <1>a, <2>1
  <2>5. QueueHoldsUnstored'
    BY <1>1, <2>4 DEF Change, RunnerInv, QueueHoldsUnstored
  <2> QED
    BY <2>1, <2>3, <2>5 DEF RunnerInv, WipeOnlyEmptied
<1>2. ASSUME RunLeftAlone \/ RunStarts(changed), UNCHANGED <<dataVars, reported>>
      PROVE  OnlyMade' /\ RunCarries' /\ SuccessIsEarned' /\ QueueHoldsUnstored'
  BY <1>0, <1>2, <1>a, RunKept DEF RunnerInv, QueueHoldsUnstored
<1>3. ASSUME DirectSync PROVE RunnerInv'
  <2>1. RunStarts(changed)
    BY <1>3 DEF DirectSync, RunStarts, Callers
  <2> QED
    BY <1>2, <1>3, <2>1 DEF DirectSync, RunnerInv, WipeOnlyEmptied
<1>4. ASSUME Reconnect PROVE RunnerInv'
  BY <1>2, <1>4, TriggerStarts DEF Reconnect, RunnerInv, WipeOnlyEmptied
<1>5. ASSUME LoopCheck PROVE RunnerInv'
  <2>1. RunLeftAlone \/ RunStarts(changed)
    BY <1>5, TurnStarts DEF LoopCheck, RunLeftAlone
  <2> QED
    BY <1>2, <1>5, <2>1 DEF LoopCheck, RunnerInv, WipeOnlyEmptied
<1>6. ASSUME TimeOut PROVE RunnerInv'
  <2>1. RunLeftAlone
    BY <1>6 DEF TimeOut, RunLeftAlone
  <2> QED
    BY <1>2, <1>6, <2>1 DEF TimeOut, RunnerInv, WipeOnlyEmptied
<1>7. ASSUME CancelRun PROVE RunLeftAlone
  BY <1>7 DEF CancelRun, RunLeftAlone
<1>8. ASSUME Logout PROVE RunnerInv'
  <2>1. RunLeftAlone \/ RunStarts(changed)
    BY <1>7, <1>8 DEF Logout, RunLeftAlone, RunStarts, Callers
  <2>2. WipeOnlyEmptied'
    BY <1>8 DEF Logout, WipeOnlyEmptied
  <2> QED
    BY <1>2, <1>8, <2>1, <2>2 DEF Logout, RunnerInv
<1>9. ASSUME Recount PROVE RunnerInv'
  <2>1. WipeOnlyEmptied'
    BY <1>9 DEF Recount, WipeOnlyEmptied
  <2> QED
    BY <1>2, <1>7, <1>9, <2>1 DEF Recount, RunnerInv
<1>10. ASSUME SignIn PROVE RunnerInv'
  <2>1. RunLeftAlone \/ RunStarts(changed)
    BY <1>10 DEF SignIn, RunLeftAlone, RunStarts, Callers
  <2> QED
    BY <1>2, <1>10, <2>1 DEF SignIn, RunnerInv, WipeOnlyEmptied
<1>11. ASSUME Wipe PROVE RunnerInv'
  <2>1. OnlyMade' /\ RunCarries' /\ SuccessIsEarned'
    BY <1>0, <1>11, <1>a, RunKept DEF Wipe, RunLeftAlone
  <2> QED
    BY <1>11, <2>1 DEF Wipe, RunnerInv, QueueHoldsUnstored, WipeOnlyEmptied
<1>12. ASSUME UNCHANGED vars PROVE RunnerInv'
  BY <1>2, <1>12 DEF vars, RunLeftAlone, RunnerInv, WipeOnlyEmptied

\* The run itself.
<1>13. ASSUME run # NoRun PROVE run \in Run /\ run' # NoRun => run' \in Run
  BY <1>0, <1>13 DEF TypeOK
<1>14. ASSUME Drain PROVE RunnerInv'
  <2>1. PICK done \in SUBSET queued, got \in SUBSET queued :
          /\ done \subseteq got
          /\ stored' = stored \union got
          /\ queued' = queued \ done
    BY <1>14 DEF Drain
  <2>2. /\ run # NoRun /\ run'.stage = "push"
        /\ run'.before = run.before /\ run'.rows = run.rows
    BY <1>14, <1>13 DEF Drain, Running, Run
  <2>3. OnlyMade'
    BY <1>14, <1>a, <2>1, <2>2 DEF Drain, RunnerInv, OnlyMade
  <2>4. RunCarries'
    BY <2>2 DEF RunCarries
  <2> QED
    BY <1>14, <2>1, <2>3, <2>4
       DEF Drain, RunnerInv, SuccessIsEarned, QueueHoldsUnstored, WipeOnlyEmptied
<1>15. ASSUME Push PROVE RunnerInv'
  <2>1. /\ run # NoRun /\ run'.stage = "pushWait"
        /\ run'.before = run.before /\ run'.rows = changed
    BY <1>15, <1>13 DEF Push, Running, Run
  <2>2. OnlyMade' /\ RunCarries'
    BY <1>15, <1>a, <2>1 DEF Push, RunnerInv, OnlyMade, RunCarries
  <2> QED
    BY <1>15, <2>2
       DEF Push, RunnerInv, SuccessIsEarned, QueueHoldsUnstored, WipeOnlyEmptied
<1>b. ASSUME run # NoRun, BatchArrives
      PROVE  /\ {stored', refused'} \subseteq SUBSET (1..made)
             /\ stored \subseteq stored' /\ refused \subseteq refused'
             /\ run.rows \subseteq stored' \union refused'
  BY <1>a, <1>b, BatchType DEF RunnerInv, OnlyMade
<1>16. ASSUME Pushed PROVE RunnerInv'
  <2>1. /\ run # NoRun /\ run.stage = "pushWait" /\ run'.stage = "pull"
        /\ run'.before = run.before /\ run'.rows = run.rows
    BY <1>16, <1>13 DEF Pushed, Running, Run
  <2>2. /\ {stored', refused'} \subseteq SUBSET (1..made)
        /\ stored \subseteq stored' /\ refused \subseteq refused'
        /\ run.rows \subseteq stored' \union refused'
    BY <1>16, <1>b, <2>1 DEF Pushed
  <2>3. OnlyMade'
    BY <1>16, <1>a, <2>1, <2>2 DEF Pushed, RunnerInv, OnlyMade
  <2>4. RunCarries'
    BY <1>16, <2>1, <2>2 DEF Pushed, RunnerInv, RunCarries
  <2> QED
    BY <1>16, <2>2, <2>3, <2>4
       DEF Pushed, RunnerInv, SuccessIsEarned, QueueHoldsUnstored, WipeOnlyEmptied
<1>24. ASSUME PushFails PROVE RunnerInv'
  <2>1. /\ run # NoRun /\ run'.stage = "pull" /\ run'.failed
        /\ run'.before = run.before /\ run'.rows = run.rows
    BY <1>24, <1>13 DEF PushFails, Running, Run
  <2>2. /\ {stored', refused'} \subseteq SUBSET (1..made)
        /\ stored \subseteq stored' /\ refused \subseteq refused'
    BY <1>24, <1>a, <1>b, <2>1 DEF PushFails
  <2>3. OnlyMade'
    BY <1>24, <1>a, <2>1, <2>2 DEF PushFails, RunnerInv, OnlyMade
  <2>4. RunCarries'
    BY <2>1 DEF RunCarries
  <2> QED
    BY <1>24, <2>2, <2>3, <2>4
       DEF PushFails, RunnerInv, SuccessIsEarned, QueueHoldsUnstored, WipeOnlyEmptied
<1>17. ASSUME PullData PROVE RunnerInv'
  <2>1. /\ run # NoRun /\ run.stage = "pull" /\ run'.stage = "pullWait"
        /\ run'.before = run.before /\ run'.rows = stored
        /\ run'.failed = run.failed
    BY <1>17, <1>13 DEF PullData, Running, Run
  <2>2. OnlyMade' /\ RunCarries'
    BY <1>17, <1>a, <2>1 DEF PullData, RunnerInv, OnlyMade, RunCarries
  <2> QED
    BY <1>17, <2>2
       DEF PullData, RunnerInv, SuccessIsEarned, QueueHoldsUnstored, WipeOnlyEmptied

\* The steps that end it.
<1>18. ASSUME run # NoRun, Return, UNCHANGED <<made, queued, added>>,
              {changed', stored', refused', reported'} \subseteq SUBSET (1..made),
              stored \subseteq stored', refused \subseteq refused',
              changed' \subseteq changed \union stored,
              (reported' \ reported) \cap changed' \subseteq stored \union refused
       PROVE  RunnerInv'
  <2>1. OnlyMade' /\ RunCarries'
    BY <1>18, <1>a DEF Return, OnlyMade, RunCarries
  <2>2. WipeOnlyEmptied'
    BY <1>18 DEF Return, RunnerInv, WipeOnlyEmptied
  <2> QED
    BY <1>18, <2>1, <2>2 DEF RunnerInv, SuccessIsEarned, QueueHoldsUnstored
<1>19. ASSUME run # NoRun PROVE {run.before, run.rows} \subseteq SUBSET (1..made)
  BY <1>19 DEF RunnerInv, OnlyMade
<1>20. ASSUME PullNothing PROVE RunnerInv'
  <2>1. /\ run # NoRun
        /\ ~run.failed => run.before \cap changed \subseteq stored \union refused
    BY <1>20 DEF PullNothing, Running, RunnerInv, RunCarries
  <2> QED
    BY <1>18, <1>19, <1>20, <1>a, <2>1 DEF PullNothing, Report
<1>21. ASSUME Pulled PROVE RunnerInv'
  <2>1. /\ run # NoRun /\ run.rows \subseteq stored
        /\ ~run.failed => run.before \cap changed \subseteq run.rows \union refused
    BY <1>21 DEF Pulled, Running, RunnerInv, RunCarries
  <2>2. changed' \subseteq changed \union run.rows
    BY <1>21 DEF Pulled
  <2> QED
    BY <1>18, <1>19, <1>21, <1>a, <2>1, <2>2 DEF Pulled, Report
<1>22. ASSUME PullFails PROVE RunnerInv'
  BY <1>18, <1>22, <1>a DEF PullFails, Running
<1>23. ASSUME Cancelled PROVE RunnerInv'
  <2>1. /\ {stored', refused'} \subseteq SUBSET (1..made)
        /\ stored \subseteq stored' /\ refused \subseteq refused'
    BY <1>23, <1>a, <1>b DEF Cancelled
  <2> QED
    BY <1>18, <1>23, <1>a, <2>1 DEF Cancelled
<1> QED
  BY <1>1, <1>3, <1>4, <1>5, <1>6, <1>8, <1>9, <1>10, <1>11, <1>12, <1>14, <1>15,
     <1>16, <1>17, <1>20, <1>21, <1>22, <1>23, <1>24 DEF Next, Steps

\* The invariant holds of every behaviour.
LEMMA RunnerInvariant == Spec => [](TypeOK /\ RunnerInv)
<1>1. Init => RunnerInv
  BY DEF Init, RunnerInv, OnlyMade, RunCarries, SuccessIsEarned, QueueHoldsUnstored,
         WipeOnlyEmptied
<1> QED
  BY <1>1, RunnerTypes, RunnerStep, PTL DEF Spec

(***************************************************************************)
(* What a sync reports as synced the server has, or has refused.           *)
(***************************************************************************)
THEOREM ReportedIsStored == Spec => []SuccessIsEarned
<1>1. RunnerInv => SuccessIsEarned
  BY DEF RunnerInv
<1> QED
  BY <1>1, RunnerInvariant, PTL

(***************************************************************************)
(* Signing out never wipes an added entry the server does not have.        *)
(***************************************************************************)
THEOREM LogoutKeepsAdded == Spec => AddedSurvivesLogout
<1> DEFINE Kept == session = "leaving" /\ session' = "out" =>
                     (changed \ changed') \cap added \subseteq stored
<1>1. TypeOK /\ RunnerInv /\ [Next]_vars => [Kept]_vars
  <2> SUFFICES ASSUME TypeOK, RunnerInv, [Next]_vars,
                      session = "leaving", session' = "out"
               PROVE  (changed \ changed') \cap added \subseteq stored
    OBVIOUS
  <2>1. CASE changed' = changed
    BY <2>1
  <2>2. CASE Wipe
    BY <2>2 DEF Wipe, TypeOK, RunnerInv, QueueHoldsUnstored, WipeOnlyEmptied
  <2>3. CASE Pulled
    BY <2>3 DEF Pulled
  <2>4. ASSUME NEW queue \in BOOLEAN, Change(queue) PROVE FALSE
    BY <2>4 DEF Change
  <2> QED
    BY <2>1, <2>2, <2>3, <2>4
       DEF Next, Steps, vars, dataVars, DirectSync, Reconnect, LoopCheck, Drain, Push,
           Pushed, PullData, PullNothing, Cancelled, PushFails, PullFails, TimeOut,
           Logout, Recount, SignIn
<1>2. Spec => [][Kept]_vars
  BY <1>1, RunnerInvariant, PTL DEF Spec
<1> QED
  BY <1>2 DEF AddedSurvivesLogout

-----------------------------------------------------------------------------
(***************************************************************************)
(* The refinement of Outbox.  A step of the loop, of the user's session or *)
(* of a run that only moves on is none of its business.                    *)
(***************************************************************************)
LEMMA OutboxStep == TypeOK /\ RunnerInv /\ [Next]_vars => [Promise!Next]_(Promise!vars)
<1> SUFFICES ASSUME TypeOK, RunnerInv, [Next]_vars PROVE [Promise!Next]_(Promise!vars)
  OBVIOUS
<1> USE DEF Promise!vars, dataVars
<1>a. /\ made \in Nat
      /\ {changed, queued, stored, refused, added, reported} \subseteq SUBSET (1..made)
      /\ run # NoRun => {run.before, run.rows} \subseteq SUBSET (1..made)
  BY BoundsAssumption DEF TypeOK, RunnerInv, OnlyMade
<1>b. ASSUME NEW sent \in SUBSET (1..made), stored' = stored \union sent,
             NEW no \in SUBSET (1..made), refused' = refused \union no,
             UNCHANGED <<made, added, changed, reported>>
      PROVE  Promise!Next
  BY <1>b DEF Promise!Next, Promise!Deliver
<1>c. ASSUME run # NoRun, BatchArrives, UNCHANGED <<made, added, changed, reported>>
      PROVE  Promise!Next
  <2>1. PICK no \in SUBSET (run.rows \ stored) :
          /\ stored' = stored \union (run.rows \ no)
          /\ refused' = refused \union no
    BY <1>c DEF BatchArrives
  <2>2. run.rows \ no \in SUBSET (1..made) /\ no \in SUBSET (1..made)
    BY <1>a, <1>c
  <2> QED
    BY <1>b, <1>c, <2>1, <2>2
<1>d. ASSUME NEW got \in SUBSET queued, stored' = stored \union got,
             UNCHANGED <<refused, made, added, changed, reported>>
      PROVE  Promise!Next
  <2>1. got \in SUBSET (1..made) /\ {} \in SUBSET (1..made) /\ refused' = refused \union {}
    BY <1>a, <1>d
  <2> QED
    BY <1>b, <1>d, <2>1
<1>1. ASSUME NEW queue \in BOOLEAN, Change(queue) PROVE Promise!Next
  <2>1. Promise!Make
    BY <1>1 DEF Change, Promise!Make
  <2> QED BY <2>1 DEF Promise!Next
<1>2. ASSUME Drain PROVE Promise!Next
  BY <1>2, <1>d DEF Drain
<1>3. ASSUME Pushed PROVE Promise!Next
  BY <1>3, <1>c DEF Pushed, Running
<1>4. ASSUME PushFails PROVE [Promise!Next]_(Promise!vars)
  BY <1>4, <1>c DEF PushFails, Running
<1>5. ASSUME PullNothing PROVE [Promise!Next]_(Promise!vars)
  <2>1. /\ run # NoRun /\ run.before \in SUBSET (1..made)
        /\ UNCHANGED <<made, added, changed, stored, refused>>
    BY <1>5, <1>a DEF PullNothing, Running
  <2>2. CASE run.failed
    BY <1>5, <2>1, <2>2 DEF PullNothing, Report
  <2>3. CASE ~run.failed
    <3>1. /\ run.before \cap changed \subseteq stored \union refused
          /\ reported' = reported \union run.before
      BY <1>5, <2>1, <2>3 DEF PullNothing, Report, Running, RunnerInv, RunCarries
    <3>2. (changed \ {}) \union {} = changed /\ {} \in SUBSET stored
      OBVIOUS
    <3>3. Promise!TakeOver({})
      BY <2>1, <3>2 DEF Promise!TakeOver
    <3>4. {} \in SUBSET changed /\ run.before \cap {} \subseteq refused
      OBVIOUS
    <3>5. Promise!Report
      BY <2>1, <3>1, <3>3, <3>4 DEF Promise!Report
    <3> QED
      BY <3>5 DEF Promise!Next
  <2> QED
    BY <2>2, <2>3
<1>6. ASSUME Pulled PROVE Promise!Next
  <2>1. PICK undone \in SUBSET (changed \ (added \union run.rows)) :
          changed' = (changed \ undone) \union run.rows
    BY <1>6 DEF Pulled
  <2>2. /\ run # NoRun /\ run.before \in SUBSET (1..made) /\ run.rows \in SUBSET stored
        /\ UNCHANGED <<made, added, stored, refused>>
        /\ undone \in SUBSET changed
    BY <1>6, <1>a DEF Pulled, Running, RunnerInv, RunCarries
  <2>3. Promise!TakeOver(undone)
    BY <2>1, <2>2 DEF Promise!TakeOver
  <2>4. CASE run.failed
    BY <1>6, <2>2, <2>3, <2>4 DEF Pulled, Report, Promise!Next, Promise!Replace
  <2>5. CASE ~run.failed
    <3>1. /\ run.before \cap changed \subseteq run.rows \union refused
          /\ reported' = reported \union run.before
      BY <1>6, <2>5 DEF Pulled, Report, Running, RunnerInv, RunCarries
    <3>2. /\ run.before \cap changed \subseteq stored \union refused
          /\ run.before \cap undone \subseteq refused
      BY <2>1, <2>2, <3>1
    <3> QED
      BY <2>2, <2>3, <3>1, <3>2 DEF Promise!Next, Promise!Report
  <2> QED
    BY <2>4, <2>5
<1>7. ASSUME Cancelled PROVE [Promise!Next]_(Promise!vars)
  BY <1>7, <1>c, <1>d DEF Cancelled
<1>8. ASSUME Wipe PROVE [Promise!Next]_(Promise!vars)
  <2>1. /\ UNCHANGED <<made, added, stored, refused, reported>>
        /\ session = "leaving" /\ keep \in BOOLEAN
    BY <1>8 DEF Wipe, TypeOK
  <2>2. CASE keep
    BY <1>8, <2>1, <2>2 DEF Wipe
  <2>3. CASE ~keep
    <3>1. changed' = {} /\ changed \cap added \subseteq stored
      BY <1>8, <2>1, <2>3 DEF Wipe, RunnerInv, QueueHoldsUnstored, WipeOnlyEmptied
    <3> QED BY <2>1, <3>1 DEF Promise!Next, Promise!Wipe
  <2> QED BY <2>1, <2>2, <2>3
<1>9. ASSUME \/ DirectSync \/ Reconnect \/ LoopCheck \/ Push \/ PullData \/ PullFails
             \/ TimeOut \/ Logout \/ Recount \/ SignIn \/ UNCHANGED vars
      PROVE  UNCHANGED Promise!vars
  BY <1>9 DEF DirectSync, Reconnect, LoopCheck, Push, PullData, PullFails, TimeOut, Logout,
    Recount, SignIn, vars
<1> QED
  BY <1>1, <1>2, <1>3, <1>4, <1>5, <1>6, <1>7, <1>8, <1>9 DEF Next, Steps

(***************************************************************************)
(* The scheduler keeps the promise of Outbox: syncAllQueue, triggerSync,   *)
(* cancelCurrentSync and logout, in whatever order they come, report only  *)
(* what the server has or has refused, undo no added entry by a pull, and  *)
(* wipe none the server lacks.                                             *)
(***************************************************************************)
THEOREM OutboxKept == Spec => ImplementsOutbox
<1>1. Init => Promise!Init
  BY DEF Init, Promise!Init
<1> QED
  BY <1>1, RunnerInvariant, OutboxStep, PTL DEF Spec, ImplementsOutbox, Promise!Spec

=============================================================================
