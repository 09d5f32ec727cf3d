----------------------------- MODULE MonthStatus -----------------------------
(***************************************************************************)
(* Closing and reopening one month of a household from several devices.    *)
(*                                                                         *)
(* A device writes the new status to its own snapshot, then records the    *)
(* action in its sync queue (one row per month, a newer action replaces    *)
(* the row) and posts it, without waiting, to /months/close or /reopen.    *)
(* The answer marks the row synced, by the row's id.  A row that stays     *)
(* unsynced is posted again by the next syncs, which also pull the         *)
(* server's status and apply it unless a row of the month is waiting.      *)
(* Nothing makes a user wait for an answer or for a sync, so an answer may *)
(* come when the row is about a newer action already.                      *)
(*                                                                         *)
(* Only the status and whether statusChangedAt is set are kept of a        *)
(* snapshot.  The server's handlers act as one step: the reads of a close  *)
(* and a reopen before their writes only turn them into no-ops.            *)
(***************************************************************************)
EXTENDS Naturals, FiniteSets

CONSTANTS
  Devices,
  None,         \* no snapshot of the month, no queue row, nothing to announce
  MaxAttempts,  \* SyncQueueDao.maxAttempts (10 in the code)
  MaxActions,   \* bound: closes and reopens made by users
  MaxFailures   \* bound: posts that fail on the way or whose answer is lost

Actions == {"close", "reopen"}

ASSUME BoundsAssumption == {MaxAttempts, MaxActions, MaxFailures} \subseteq Nat
ASSUME AttemptsAssumption == MaxAttempts # 0

VARIABLES
  server,    \* the server's snapshot: [status, changed], or None
  local,     \* device: status of its snapshot, or None
  acting,    \* device: the action whose announcement has not started, or None
  queue,     \* device: the queue row of the month, or None
  pc,        \* device: where its sync stands
  held,      \* device: the queue row its replay has read, or the close its
             \* pull is about to queue again, or None
  pulled,    \* device: the snapshot its pull has read, or None
  posts,     \* posts not yet dealt with by their sender
  latest,    \* device: number of its user's last action, 0 for none
  standing,  \* history, device: how that action stands.  "settled": accepted
             \* by the server, or none was made.  "open": not accepted yet.
             \* "mixedUp": the same, and its queue row was marked for another
             \* action's answer or replaced by a close queued again.
  actions,   \* bound: actions so far
  failures   \* bound: failures so far

syncVars == <<pc, held, pulled>>
boundVars == <<actions, failures>>
historyVars == <<latest, standing>>
vars == <<server, local, acting, queue, pc, held, pulled, posts, latest,
          standing, actions, failures>>

Action == [op : Actions, n : Nat]
QueueRow == [op : Actions, n : Nat, attempts : 0..MaxAttempts, synced : BOOLEAN]
Snapshot == [status : {"open", "closed"}, changed : BOOLEAN]

ASSUME NoneAssumption == None \notin Action \union QueueRow \union Snapshot

PostState == {"sent", "accepted", "notFound", "failed"}
PostRecord == [dev : Devices, via : {"notify", "replay"}, op : Actions, n : Nat,
               state : PostState]

(***************************************************************************)
(* Every variable has its type; the attempt counter stays in its range.    *)
(***************************************************************************)
TypeOK ==
  /\ server \in Snapshot \union {None}
  /\ local \in [Devices -> {"open", "closed", None}]
  /\ acting \in [Devices -> Action \union {None}]
  /\ queue \in [Devices -> QueueRow \union {None}]
  /\ pc \in [Devices -> {"idle", "replay", "replayWait", "pull", "apply", "unsent",
                         "requeued", "lastReplay", "lastWait"}]
  /\ held \in [Devices -> QueueRow \union {None}]
  /\ pulled \in [Devices -> Snapshot \union {None}]
  /\ posts \subseteq PostRecord
  /\ latest \in [Devices -> Nat]
  /\ standing \in [Devices -> {"settled", "open", "mixedUp"}]
  /\ actions \in Nat /\ failures \in Nat

SeededOpen == [status |-> "open", changed |-> FALSE]

\* Older versions of the application closed months without recording it: the
\* server may have the month open, never stamped, and a device closed.
Init ==
  /\ \/ server = None /\ local = [d \in Devices |-> None]
     \/ server = SeededOpen /\ local \in [Devices -> {None, "closed"}]
  /\ acting = [d \in Devices |-> None]
  /\ queue = [d \in Devices |-> None]
  /\ pc = [d \in Devices |-> "idle"]
  /\ held = [d \in Devices |-> None]
  /\ pulled = [d \in Devices |-> None]
  /\ posts = {}
  /\ latest = [d \in Devices |-> 0]
  /\ standing = [d \in Devices |-> "settled"]
  /\ actions = 0
  /\ failures = 0

Goto(d, step) == pc' = [pc EXCEPT ![d] = step]

Post(d, via, op, n) ==
  posts' = posts \union {[dev |-> d, via |-> via, op |-> op, n |-> n, state |-> "sent"]}

\* Variant: a row of the month that is there already stays.
EnqueueOnce(d, op, n) ==
  queue' = IF queue[d] # None THEN queue
           ELSE [queue EXCEPT ![d] = [op |-> op, n |-> n, attempts |-> 0, synced |-> FALSE]]

\* Variant: an action that had failed before goes on counting its attempts.
EnqueueCounting(d, op, n) ==
  queue' = [queue EXCEPT ![d] =
    [op |-> op, n |-> n, synced |-> FALSE,
     attempts |-> IF @ = None THEN 0 ELSE @.attempts + 1]]

Enqueue(d, op, n) ==
  queue' = [queue EXCEPT ![d] = [op |-> op, n |-> n, attempts |-> 0, synced |-> FALSE]]

\* What the row says before the device's last action is queued matters little.
MixUp(d, n, m) ==
  standing' = [standing EXCEPT ![d] =
                 IF @ = "open" /\ acting[d] = None /\ n # m THEN "mixedUp" ELSE @]

\* The row is found by its id, which is the month's: whatever action it is
\* about by now, it is marked.
MarkSynced(d, n) ==
  IF queue[d] = None THEN UNCHANGED <<queue, standing>>
  ELSE /\ queue' = [queue EXCEPT ![d].synced = TRUE]
       /\ MixUp(d, n, queue[d].n)

Waiting(d) == queue[d] # None /\ ~queue[d].synced

-----------------------------------------------------------------------------
(***************************************************************************)
(* The user.  The screen offers to reopen a closed month and to close any  *)
(* other one.                                                              *)
(***************************************************************************)

MayAct(d) ==
  /\ actions < MaxActions
  /\ acting[d] = None

Act(d) ==
  LET op == IF local[d] = "closed" THEN "reopen" ELSE "close" IN
  /\ MayAct(d)
  /\ local' = [local EXCEPT ![d] = IF op = "close" THEN "closed" ELSE "open"]
  /\ latest' = [latest EXCEPT ![d] = @ + 1]
  /\ acting' = [acting EXCEPT ![d] = [op |-> op, n |-> latest'[d]]]
  /\ standing' = [standing EXCEPT ![d] = "open"]
  /\ actions' = actions + 1
  /\ UNCHANGED <<server, queue, syncVars, posts, failures>>

\* notifyMonthClosed and notifyMonthReopened, up to their post.
Notify(d) ==
  /\ acting[d] # None
  /\ Enqueue(d, acting[d].op, acting[d].n)
  /\ Post(d, "notify", acting[d].op, acting[d].n)
  /\ acting' = [acting EXCEPT ![d] = None]
  /\ UNCHANGED <<server, local, syncVars, historyVars, boundVars>>

\* Reopening a month the server does not have counts as done.
Done(p) == p.state = "accepted" \/ (p.state = "notFound" /\ p.op = "reopen")

NotifyAnswered(p) ==
  /\ p.via = "notify"
  /\ p.state # "sent"
  /\ posts' = posts \ {p}
  /\ IF Done(p) THEN MarkSynced(p.dev, p.n) ELSE UNCHANGED <<queue, standing>>
  /\ UNCHANGED <<server, local, acting, syncVars, latest, boundVars>>

-----------------------------------------------------------------------------
(***************************************************************************)
(* The sync of a device: replay after its push, then pull.  A push that    *)
(* fails skips the replay.                                                 *)
(***************************************************************************)

\* The unsynced row of the month, unless it has been tried too often, at the
\* end of a push and once more after a close was queued again.
ReadQueue(d) ==
  /\ pc[d] \in {"idle", "requeued"}
  /\ held' = [held EXCEPT ![d] =
                IF Waiting(d) /\ queue[d].attempts < MaxAttempts THEN queue[d] ELSE None]
  /\ Goto(d, IF pc[d] = "idle" THEN IF held'[d] = None THEN "pull" ELSE "replay"
                               ELSE IF held'[d] = None THEN "idle" ELSE "lastReplay")
  /\ UNCHANGED <<server, local, acting, queue, pulled, posts, historyVars, boundVars>>

PushFails(d) ==
  /\ pc[d] = "idle"
  /\ failures < MaxFailures
  /\ failures' = failures + 1
  /\ Goto(d, "pull")
  /\ UNCHANGED <<server, local, acting, queue, held, pulled, posts, historyVars, actions>>

ReplayPost(d) ==
  /\ pc[d] \in {"replay", "lastReplay"}
  /\ Post(d, "replay", held[d].op, held[d].n)
  /\ held' = [held EXCEPT ![d] = None]
  /\ Goto(d, IF pc[d] = "replay" THEN "replayWait" ELSE "lastWait")
  /\ UNCHANGED <<server, local, acting, queue, pulled, historyVars, boundVars>>

ReplayAnswered(p) ==
  LET d == p.dev IN
  /\ p.via = "replay"
  /\ p.state # "sent"
  /\ pc[d] \in {"replayWait", "lastWait"}
  /\ posts' = posts \ {p}
  /\ IF Done(p) THEN MarkSynced(d, p.n)
     ELSE UNCHANGED standing /\ queue' = [queue EXCEPT ![d].attempts = @ + 1]
  /\ Goto(d, IF pc[d] = "replayWait" THEN "pull" ELSE "idle")
  /\ UNCHANGED <<server, local, acting, held, pulled, latest, boundVars>>

PullRead(d) ==
  /\ pc[d] = "pull"
  /\ pulled' = [pulled EXCEPT ![d] = server]
  /\ Goto(d, "apply")
  /\ UNCHANGED <<server, local, acting, queue, held, posts, historyVars, boundVars>>

\* A close the server has no record of: its row was never stamped.
NeverRecorded(d) ==
  /\ pulled[d].status = "open"
  /\ ~pulled[d].changed
  /\ local[d] = "closed"

\* Variants: the pull does not look at the queue, or not at its marks.
KeepLocalNever(d) == pulled[d] = None

KeepLocalOnceQueued(d) == pulled[d] = None \/ queue[d] # None

KeepLocal(d) == pulled[d] = None \/ Waiting(d)

\* The close of the device's last action, or of one from before all of them.
UnsentClose(d) == [op |-> "close", n |-> latest[d], attempts |-> 0, synced |-> FALSE]

ApplyPull(d) ==
  /\ pc[d] = "apply"
  /\ IF KeepLocal(d)
       THEN UNCHANGED <<local, held>> /\ Goto(d, "idle")
     ELSE IF NeverRecorded(d)
       THEN /\ UNCHANGED local
            /\ held' = [held EXCEPT ![d] = UnsentClose(d)]
            /\ Goto(d, "unsent")
     ELSE /\ local' = [local EXCEPT ![d] =
                         IF @ = None /\ pulled[d].status = "open" THEN None
                                                                  ELSE pulled[d].status]
          /\ UNCHANGED held
          /\ Goto(d, "idle")
  /\ pulled' = [pulled EXCEPT ![d] = None]
  /\ UNCHANGED <<server, acting, queue, posts, historyVars, boundVars>>

\* After the pull's transaction the close is queued again, whatever the user
\* has done since, and then replayed; that ends the sync.
RequeueClose(d) ==
  /\ pc[d] = "unsent"
  /\ Enqueue(d, "close", held[d].n)
  /\ MixUp(d, held[d].n, latest[d])
  /\ held' = [held EXCEPT ![d] = None]
  /\ Goto(d, "requeued")
  /\ UNCHANGED <<server, local, acting, pulled, posts, latest, boundVars>>

-----------------------------------------------------------------------------
(***************************************************************************)
(* The server and the network.                                             *)
(***************************************************************************)

Becomes(p, state) == posts' = (posts \ {p}) \union {[p EXCEPT !.state = state]}

Accept(p) ==
  standing' = [standing EXCEPT ![p.dev] = IF p.n = latest[p.dev] THEN "settled" ELSE @]

CloseMonth(p) ==
  /\ p.state = "sent"
  /\ p.op = "close"
  /\ server' = [status |-> "closed", changed |-> TRUE]
  /\ Becomes(p, "accepted")
  /\ Accept(p)
  /\ UNCHANGED <<local, acting, queue, syncVars, latest, boundVars>>

ReopenMonth(p) ==
  /\ p.state = "sent"
  /\ p.op = "reopen"
  /\ IF server = None THEN UNCHANGED server /\ Becomes(p, "notFound")
     ELSE /\ server' = IF server.status = "open" THEN server
                       ELSE [status |-> "open", changed |-> TRUE]
          /\ Becomes(p, "accepted")
  /\ Accept(p)
  /\ UNCHANGED <<local, acting, queue, syncVars, latest, boundVars>>

\* Closing the month before creates this one, open, when it is missing.
SeedMonth ==
  /\ server = None
  /\ server' = SeededOpen
  /\ UNCHANGED <<local, acting, queue, syncVars, posts, historyVars, boundVars>>

\* A post that does not arrive, or whose answer does not.
FailPost(p) ==
  /\ failures < MaxFailures
  /\ p.state # "failed"
  /\ Becomes(p, "failed")
  /\ failures' = failures + 1
  /\ UNCHANGED <<server, local, acting, queue, syncVars, historyVars, actions>>

-----------------------------------------------------------------------------

Device(d) ==
  \/ Notify(d)
  \/ ReadQueue(d)
  \/ ReplayPost(d)
  \/ PullRead(d)
  \/ ApplyPull(d)
  \/ RequeueClose(d)
  \/ \E p \in posts : p.dev = d /\ (NotifyAnswered(p) \/ ReplayAnswered(p))

Handle(p) == CloseMonth(p) \/ ReopenMonth(p)

Next ==
  \/ \E d \in Devices : Act(d) \/ Device(d) \/ PushFails(d)
  \/ \E p \in posts : Handle(p) \/ FailPost(p)
  \/ SeedMonth

Spec == Init /\ [][Next]_vars

(***************************************************************************)
(* Devices go on syncing, every call of theirs goes on, and the server     *)
(* answers.  Users, failures and the month before are not made to act.     *)
(***************************************************************************)
Fairness ==
  \A d \in Devices :
    /\ WF_vars(Notify(d))
    /\ WF_vars(ReadQueue(d) \/ ReplayPost(d) \/ PullRead(d) \/ ApplyPull(d) \/ RequeueClose(d))
    /\ WF_vars(\E p \in posts : p.dev = d /\ ReplayAnswered(p))
    /\ WF_vars(\E p \in posts : p.dev = d /\ NotifyAnswered(p))
    /\ WF_vars(\E p \in posts : p.dev = d /\ Handle(p))

FairSpec == Spec /\ Fairness

-----------------------------------------------------------------------------

(***************************************************************************)
(* The queue keeps the last close or reopen a user made on the device      *)
(* until the server has accepted it, whatever syncs, failures and earlier  *)
(* actions come in between.  The one exception: the answer to another      *)
(* action's post came when this one had taken its place in the queue row,  *)
(* or a pull under way queued an older close over it.                      *)
(***************************************************************************)
LatestActionKept ==
  \A d \in Devices :
    acting[d] = None /\ standing[d] = "open" =>
      Waiting(d) /\ queue[d].n = latest[d]

(***************************************************************************)
(* Once recorded, a close or reopen the server has not accepted is never   *)
(* undone by a pull, with the same exception.                              *)
(***************************************************************************)
PullKeepsAction ==
  [][\A d \in Devices :
       pc[d] = "apply" /\ pc'[d] # "apply" /\ local'[d] # local[d] =>
         acting[d] # None \/ standing[d] # "open"]_vars

(***************************************************************************)
(* When users have stopped closing and reopening the month, it ends up     *)
(* open everywhere or closed everywhere.                                   *)
(***************************************************************************)
IsClosed(d) == local[d] = "closed"
ServerClosed == server # None /\ server.status = "closed"

StatusConverges == <>[](\A d \in Devices : IsClosed(d) <=> ServerClosed)

=============================================================================
