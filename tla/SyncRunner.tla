------------------------------ MODULE SyncRunner ------------------------------
(***************************************************************************)
(* Who runs the sync of a device, and what becomes of local changes.       *)
(*                                                                         *)
(* A change is written to the local database.  Adding an entry also puts a *)
(* row in the sync queue; editing and deleting do not.  After every change *)
(* the screens call triggerSync, a loop around syncAllQueue that runs it   *)
(* again when another change came in meanwhile.  Force Sync, signing in    *)
(* and signing out call syncAllQueue itself; a call finding a run in       *)
(* progress returns at once.  Signing out wipes the local database unless  *)
(* the queue has unsent rows.                                              *)
(*                                                                         *)
(* Changes are numbered; `stored' is the set the server has.  It may refuse*)
(* changes of a batch and still answer that all went well.  A pull writes  *)
(* the server's rows over the local ones: a change the server does not have*)
(* of a row it does have is undone.  A new entry is no such change, it has *)
(* no row there.  A sync run is one record, its stage following            *)
(* syncAllQueue.  Which changes the server refuses is in EntrySync.        *)
(***************************************************************************)
EXTENDS Naturals, FiniteSets

CONSTANTS
  NoRun,
  MaxChanges,   \* bound: changes made by the user
  MaxDirects,   \* bound: runs started by Force Sync or by signing in
  MaxFailures,  \* bound: requests that fail or are cancelled by the timer
  MaxRefused,   \* bound: changes the server refuses in a batch
  MaxLogouts    \* bound: times the user signs out

ASSUME BoundsAssumption ==
  {MaxChanges, MaxDirects, MaxFailures, MaxRefused, MaxLogouts} \subseteq Nat

Changes == 1..MaxChanges
Callers == {"loop", "direct", "logout"}

(***************************************************************************)
(* A run: what was in the database when it started (before), and what its  *)
(* request, or the answer to it, carries (rows).  A run whose push failed  *)
(* still pulls, and does not report success.                               *)
(***************************************************************************)
Run == [by : Callers, stage : {"drain", "push", "pushWait", "pull", "pullWait"},
        before : SUBSET Changes, rows : SUBSET Changes, failed : BOOLEAN,
        cancelled : BOOLEAN]

ASSUME NoRunAssumption == NoRun \notin Run

VARIABLES
  made,       \* number of changes made so far
  changed,    \* changes in the local database
  queued,     \* changes with an unsynced row in the sync queue
  stored,     \* changes the server has
  refused,    \* history: changes it has refused in a batch
  run,        \* the run of syncAllQueue (_isSyncRunning), or NoRun
  loop,       \* triggerSync: "off" unless _isSyncing
  again,      \* triggerSync: _hasPendingSync
  session,    \* "in", the steps of signing out, "out"
  keep,       \* signing out: does it keep the local data?
  added,      \* history: changes that were queued
  reported,   \* history: changes a sync reported as successfully synced
  directs, failures, logouts  \* bounds

dataVars == <<made, changed, queued, stored, refused, added>>
loopVars == <<loop, again>>
sessionVars == <<session, keep, logouts>>
vars == <<made, changed, queued, stored, refused, run, loop, again, session, keep,
          added, reported, directs, failures, logouts>>

RunBy(caller) == run # NoRun /\ run.by = caller

(***************************************************************************)
(* Every variable has its type, and whoever waits for a run waits for one  *)
(* that is under way: the lock of syncAllQueue keeps two apart.            *)
(***************************************************************************)
TypeOK ==
  /\ made \in 0..MaxChanges
  /\ {changed, queued, stored, refused, added, reported} \subseteq SUBSET Changes
  /\ run \in Run \union {NoRun}
  /\ loop \in {"off", "await", "check"}
  /\ again \in BOOLEAN
  /\ session \in {"in", "syncing", "recount", "leaving", "out"}
  /\ keep \in BOOLEAN
  /\ {directs, failures, logouts} \subseteq Nat
  /\ loop = "await" <=> RunBy("loop")
  /\ session = "syncing" <=> RunBy("logout")

Init ==
  /\ made = 0
  /\ changed = {} /\ queued = {} /\ stored = {} /\ refused = {}
  /\ run = NoRun
  /\ loop = "off" /\ again = FALSE
  /\ session = "in" /\ keep = FALSE
  /\ added = {} /\ reported = {}
  /\ directs = 0 /\ failures = 0 /\ logouts = 0

-----------------------------------------------------------------------------

Fresh(by, now) == [by |-> by, stage |-> "drain", before |-> now, rows |-> {},
                   failed |-> FALSE, cancelled |-> FALSE]

\* Variant: a call does not look whether a run is in progress.
TurnUnlocked(now) ==
  /\ again' = FALSE
  /\ IF session # "out"
       THEN run' = Fresh("loop", now) /\ loop' = "await"
       ELSE run' = run /\ loop' = "check"

\* One turn of the loop in triggerSync, up to its first wait: the call of
\* syncAllQueue returns at once during a run and after signing out.
Turn(now) ==
  /\ again' = FALSE
  /\ IF run = NoRun /\ session # "out"
       THEN run' = Fresh("loop", now) /\ loop' = "await"
       ELSE run' = run /\ loop' = "check"

\* Variant: a call during a run is simply ignored.
TriggerIgnored(now) ==
  IF loop = "off" THEN Turn(now) ELSE UNCHANGED <<run, loop, again>>

Trigger(now) ==
  IF loop = "off" THEN Turn(now) ELSE again' = TRUE /\ UNCHANGED <<run, loop>>

Change(queue) ==
  /\ session = "in"
  /\ made < MaxChanges
  /\ made' = made + 1
  /\ changed' = changed \union {made'}
  /\ queued' = IF queue THEN queued \union {made'} ELSE queued
  /\ added' = IF queue THEN added \union {made'} ELSE added
  /\ Trigger(changed')
  /\ UNCHANGED <<stored, refused, sessionVars, reported, directs, failures>>

\* The network coming back starts a sync whatever the application is doing.
Reconnect ==
  /\ Trigger(changed)
  /\ UNCHANGED <<dataVars, sessionVars, reported, directs, failures>>

LoopCheck ==
  /\ loop = "check"
  /\ IF again THEN Turn(changed) ELSE loop' = "off" /\ UNCHANGED <<run, again>>
  /\ UNCHANGED <<dataVars, sessionVars, reported, directs, failures>>

DirectSync ==
  /\ session = "in"
  /\ directs < MaxDirects
  /\ directs' = directs + 1
  /\ run = NoRun
  /\ run' = Fresh("direct", changed)
  /\ UNCHANGED <<dataVars, loopVars, sessionVars, reported, failures>>

-----------------------------------------------------------------------------
(***************************************************************************)
(* The run.  Closing and reopening months is in MonthStatus.               *)
(***************************************************************************)

Running(stage) == run # NoRun /\ run.stage = stage /\ ~run.cancelled

\* Returning: whoever called goes on.
Return ==
  /\ run' = NoRun
  /\ loop' = IF run.by = "loop" THEN "check" ELSE loop
  /\ session' = IF run.by = "logout" /\ session = "syncing" THEN "recount" ELSE session
  /\ UNCHANGED <<again, keep, logouts>>

\* Queued inserts are posted one by one.  Those that fail stay queued, even
\* if the server has stored them.
Drain ==
  /\ Running("drain")
  /\ \E done \in SUBSET queued : \E got \in SUBSET queued :
       /\ done \subseteq got
       /\ failures + Cardinality(queued \ done) <= MaxFailures
       /\ failures' = failures + Cardinality(queued \ done)
       /\ stored' = stored \union got
       /\ queued' = queued \ done
  /\ run' = [run EXCEPT !.stage = "push"]
  /\ UNCHANGED <<made, changed, refused, added, loopVars, sessionVars, reported, directs>>

Push ==
  /\ Running("push")
  /\ run' = [run EXCEPT !.stage = "pushWait", !.rows = changed]
  /\ UNCHANGED <<dataVars, loopVars, sessionVars, reported, directs, failures>>

\* The server rules on each row by itself.
BatchArrives ==
  \E no \in SUBSET (run.rows \ stored) :
    /\ Cardinality(refused \union no) <= MaxRefused
    /\ stored' = stored \union (run.rows \ no)
    /\ refused' = refused \union no

Pushed ==
  /\ Running("pushWait")
  /\ BatchArrives
  /\ run' = [run EXCEPT !.stage = "pull"]
  /\ UNCHANGED <<made, changed, queued, added, loopVars, sessionVars, reported,
                 directs, failures>>

\* Variant: a failed push is treated like a successful one.
PushFailsUnnoticed ==
  /\ Running("pushWait")
  /\ failures < MaxFailures
  /\ failures' = failures + 1
  /\ run' = [run EXCEPT !.stage = "pull"]
  /\ UNCHANGED <<dataVars, loopVars, sessionVars, reported, directs>>

\* The push fails, before or after the server has dealt with it.
PushFails ==
  /\ Running("pushWait")
  /\ failures < MaxFailures
  /\ failures' = failures + 1
  /\ BatchArrives \/ UNCHANGED <<stored, refused>>
  /\ run' = [run EXCEPT !.stage = "pull", !.failed = TRUE]
  /\ UNCHANGED <<made, changed, queued, added, loopVars, sessionVars, reported, directs>>

\* Pulling is a no-op, and no failure, once the device is signed out.
PullData ==
  /\ Running("pull")
  /\ session # "out"
  /\ run' = [run EXCEPT !.stage = "pullWait", !.rows = stored]
  /\ UNCHANGED <<dataVars, loopVars, sessionVars, reported, directs, failures>>

Report == reported' = IF run.failed THEN reported ELSE reported \union run.before

PullNothing ==
  /\ Running("pull")
  /\ session = "out"
  /\ Report
  /\ Return
  /\ UNCHANGED <<dataVars, directs, failures>>

\* Variant: the pull makes the local rows those of the server.
PulledOnly ==
  /\ Running("pullWait")
  /\ changed' = run.rows
  /\ Report
  /\ Return
  /\ UNCHANGED <<made, queued, stored, refused, added, directs, failures>>

\* Rows are replaced whatever has happened to them since the push.
Pulled ==
  /\ Running("pullWait")
  /\ \E undone \in SUBSET (changed \ (added \union run.rows)) :
       changed' = (changed \ undone) \union run.rows
  /\ Report
  /\ Return
  /\ UNCHANGED <<made, queued, stored, refused, added, directs, failures>>

PullFails ==
  /\ Running("pullWait")
  /\ failures < MaxFailures
  /\ failures' = failures + 1
  /\ Return
  /\ UNCHANGED <<dataVars, reported, directs>>

\* The timer, or the Cancel button, cancels the run's token.
TimeOut ==
  /\ run # NoRun
  /\ ~run.cancelled
  /\ failures < MaxFailures
  /\ failures' = failures + 1
  /\ run' = [run EXCEPT !.cancelled = TRUE]
  /\ UNCHANGED <<dataVars, loopVars, sessionVars, reported, directs>>

\* A cancelled run stops at its next step; what it had posted may arrive.
Cancelled ==
  /\ run # NoRun
  /\ run.cancelled
  /\ \/ UNCHANGED <<stored, refused>>
     \/ /\ run.stage = "drain"
        /\ \E got \in SUBSET queued : stored' = stored \union got
        /\ UNCHANGED refused
     \/ run.stage = "pushWait" /\ BatchArrives
  /\ Return
  /\ UNCHANGED <<made, changed, queued, added, reported, directs, failures>>

-----------------------------------------------------------------------------
(***************************************************************************)
(* Signing out, behind a dialog that keeps the user from changing anything.*)
(***************************************************************************)

CancelRun == run' = IF run = NoRun THEN NoRun ELSE [run EXCEPT !.cancelled = TRUE]

Logout ==
  /\ session = "in"
  /\ logouts < MaxLogouts
  /\ logouts' = logouts + 1
  /\ IF queued = {}
       THEN /\ session' = "leaving"
            /\ keep' = FALSE
            /\ CancelRun
       ELSE /\ session' = IF run = NoRun THEN "syncing" ELSE "recount"
            /\ run' = IF run = NoRun THEN Fresh("logout", changed) ELSE run
            /\ UNCHANGED keep
  /\ UNCHANGED <<dataVars, loopVars, reported, directs, failures>>

\* Variant: what is left after the attempt to sync is not counted again.
RecountBlind ==
  /\ session = "recount"
  /\ session' = "leaving"
  /\ keep' = FALSE
  /\ CancelRun
  /\ UNCHANGED <<dataVars, loopVars, logouts, reported, directs, failures>>

Recount ==
  /\ session = "recount"
  /\ session' = "leaving"
  /\ keep' = (queued # {})
  /\ CancelRun
  /\ UNCHANGED <<dataVars, loopVars, logouts, reported, directs, failures>>

Wipe ==
  /\ session = "leaving"
  /\ session' = "out"
  /\ changed' = IF keep THEN changed ELSE {}
  /\ queued' = IF keep THEN queued ELSE {}
  /\ UNCHANGED <<made, stored, refused, added, run, loopVars, keep, logouts, reported,
                 directs, failures>>

\* Signing in again, with the same account, starts a run.
SignIn ==
  /\ session = "out"
  /\ session' = "in"
  /\ run' = IF run = NoRun THEN Fresh("direct", changed) ELSE run
  /\ UNCHANGED <<dataVars, loopVars, keep, logouts, reported, directs, failures>>

-----------------------------------------------------------------------------

Steps == Drain \/ Push \/ Pushed \/ PullData \/ PullNothing \/ Pulled \/ Cancelled

Next ==
  \/ \E queue \in BOOLEAN : Change(queue)
  \/ DirectSync
  \/ Reconnect
  \/ LoopCheck
  \/ Steps
  \/ PushFails \/ PullFails \/ TimeOut
  \/ Logout \/ Recount \/ Wipe \/ SignIn

Spec == Init /\ [][Next]_vars

\* A run goes on, and so does its caller.
FairSpec == Spec /\ WF_vars(Steps) /\ WF_vars(LoopCheck)

-----------------------------------------------------------------------------

(***************************************************************************)
(* What a sync reports as synced, the server has, or has refused in a      *)
(* batch: every change made before a successful run started, and still     *)
(* there.                                                                  *)
(***************************************************************************)
SuccessIsEarned == reported \cap changed \subseteq stored \union refused

(***************************************************************************)
(* Signing out never wipes an added entry the server does not have.        *)
(***************************************************************************)
AddedSurvivesLogout ==
  [][session = "leaving" /\ session' = "out" =>
       (changed \ changed') \cap added \subseteq stored]_vars

(***************************************************************************)
(* All of it together: however runs, failures, triggers and signing out    *)
(* interleave, the device does to the user's data only what Outbox allows. *)
(***************************************************************************)
Promise ==
  INSTANCE Outbox
  WITH made <- made, added <- added, here <- changed, safe <- stored,
       refused <- refused, told <- reported

ImplementsOutbox == Promise!Spec

(***************************************************************************)
(* While nothing fails and nobody but the screens' changes starts a sync,  *)
(* every change is sent, also one made during a run: the server ends up    *)
(* having it, or refuses it, unless the pull of the run it was made during *)
(* has undone it before, which happens to no added entry.                  *)
(***************************************************************************)
Undisturbed == failures = 0 /\ directs = 0 /\ logouts = 0

TriggeredChangesArrive ==
  []Undisturbed =>
    \A c \in Changes :
      c \in changed ~> c \in stored \union refused \/ c \notin changed \union added

(***************************************************************************)
(* The three properties below do not hold of the code and no run has them: *)
(* the README lists under "Observed" the behaviours that break them.       *)
(*                                                                         *)
(* A change made during a run, whoever started it, is sent: "so the        *)
(* mutation that arrived mid-sync isn't silently dropped".                 *)
(***************************************************************************)
ChangesArrive == \A c \in Changes : c \in changed ~> c \in stored

(***************************************************************************)
(* Signing out wipes the local data only when the server has all of it.    *)
(***************************************************************************)
WipeLosesNothing ==
  [][session = "leaving" /\ session' = "out" => changed \ changed' \subseteq stored]_vars

(***************************************************************************)
(* No sync writes the local database of a device that has signed out.      *)
(***************************************************************************)
SignedOutIsQuiet == [][session = "out" => changed' \subseteq changed]_vars

=============================================================================
