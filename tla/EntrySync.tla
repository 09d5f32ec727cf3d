------------------------------ MODULE EntrySync ------------------------------
(***************************************************************************)
(* One ledger entry as it travels between the devices of a household and   *)
(* the server.                                                             *)
(*                                                                         *)
(* A device keeps the entry in its Drift table, and the entry's creation   *)
(* as an 'insert' row of its sync queue.  The table keeps dates to the     *)
(* second, the queued row and the server to the millisecond.  Editing or   *)
(* deleting the entry on the screens changes the table row only: no        *)
(* version bump, no queue row.  A sync (SyncService.syncAllQueue) then     *)
(*   1. posts the queued insert to /entries/batch,                         *)
(*   2. posts the whole table to /sync/batch,                              *)
(*   3. pulls the server's row and writes it over the local one.           *)
(* The server handles a posted entry in two phases, and other requests may *)
(* run between them: validateBatch reads the stored row and decides,       *)
(* applyBatch writes later, in a transaction, without reading again.       *)
(*                                                                         *)
(* Entries are validated one by one and independently of each other, so    *)
(* one entry id is enough.  A `content' stands for every column isUnchanged*)
(* compares except deletedAt, of which only its being null is kept, and    *)
(* the part of the entry date below the second, of which `fine' says       *)
(* whether there is any.                                                   *)
(* A device and the server are taken to run at the same UTC offset, so the *)
(* entry date has the same reading on both sides.                          *)
(***************************************************************************)
EXTENDS Naturals, FiniteSets

CONSTANTS
  Devices,      \* devices signed in to the household
  Contents,     \* what an entry may say
  MonthOf,      \* [Contents -> month the entry is dated in]
  NoRow,        \* no such row
  MaxAttempts,  \* SyncQueueDao.maxAttempts (10 in the code)
  MaxEdits,     \* bound: local creations, edits and deletions in a behaviour
  MaxClosed,    \* bound: months closed at a time
  MaxInFlight,  \* bound: requests the server has not answered
  MaxFailures,  \* bound: requests, answers and syncs that fail, get lost or time out
  EditMidSync   \* may the user change the entry while a sync is running?

Row == [content : Contents, deleted : BOOLEAN, version : Nat, fine : BOOLEAN]
QueuedInsert == [row : Row, attempts : 0..MaxAttempts, synced : BOOLEAN]
Plan == [act : {"create", "update"}, row : Row]
Months == {MonthOf[c] : c \in Contents}

ASSUME MonthOfAssumption   == MonthOf \in [Contents -> Months]
ASSUME NoRowAssumption     == NoRow \notin Row \union QueuedInsert \union Plan
ASSUME BoundsAssumption    == {MaxAttempts, MaxEdits, MaxClosed, MaxInFlight, MaxFailures} \subseteq Nat
ASSUME SwitchAssumption    == EditMidSync \in BOOLEAN

VARIABLES
  entry,    \* server: the row of the entries table, or NoRow
  closed,   \* server: months whose snapshot has status 'closed'
  local,    \* device: the row of the Drift entries table, or NoRow
  queue,    \* device: the queued insert, or NoRow
  pc,       \* device: where its sync stands
  reply,    \* device: the answer to its outstanding post
  pulled,   \* device: the server row its outstanding pull has read
  net,      \* posts the server has not answered
  edit,     \* history: how far the local change of a device has got
  issued,   \* history: the highest version there has been (devices begin at 1)
  raced,    \* history: has a write decided before another one come after it?
  edits,    \* bound: local changes so far
  failures  \* bound: failures so far

serverVars == <<entry, closed, issued, raced>>
deviceVars == <<local, queue, edits, failures>>
vars == <<entry, closed, local, queue, pc, reply, pulled, net, edit, issued, raced,
          edits, failures>>

-----------------------------------------------------------------------------

Answers == {"none", "synced", "rejected", "error"}
SyncSteps == {"idle", "insert", "insertWait", "push", "pushWait",
              "pull", "pullWait", "fallback", "fallbackWait"}

(***************************************************************************)
(* A post: live until its sender stops waiting for it, clean when it       *)
(* carries a row the device has not changed since it pulled it.  `late'    *)
(* is a history field: what has come between the decision about the        *)
(* request and its write, a close of a month it touches or another write.  *)
(***************************************************************************)
Request == [dev : Devices, kind : {"insert", "push"}, live : BOOLEAN,
            clean : BOOLEAN, row : Row, plan : Plan \union {NoRow},
            late : {"no", "closed", "written"}]

(***************************************************************************)
(* Every variable has its type.                                            *)
(***************************************************************************)
TypeOK ==
  /\ entry \in Row \union {NoRow}
  /\ closed \subseteq Months
  /\ local \in [Devices -> Row \union {NoRow}]
  /\ queue \in [Devices -> QueuedInsert \union {NoRow}]
  /\ pc \in [Devices -> SyncSteps]
  /\ reply \in [Devices -> Answers]
  /\ pulled \in [Devices -> Row \union {NoRow}]
  /\ net \subseteq Request
  /\ edit \in [Devices -> {"clean", "unsent", "sent", "decided"}]
  /\ issued \in Nat
  /\ raced \in BOOLEAN
  /\ edits \in Nat
  /\ failures \in Nat

Init ==
  /\ entry = NoRow
  /\ closed = {}
  /\ local = [d \in Devices |-> NoRow]
  /\ queue = [d \in Devices |-> NoRow]
  /\ pc = [d \in Devices |-> "idle"]
  /\ reply = [d \in Devices |-> "none"]
  /\ pulled = [d \in Devices |-> NoRow]
  /\ net = {}
  /\ edit = [d \in Devices |-> "clean"]
  /\ issued = 1
  /\ raced = FALSE
  /\ edits = 0
  /\ failures = 0

-----------------------------------------------------------------------------
(***************************************************************************)
(* The user.                                                               *)
(***************************************************************************)

MayEdit(d) ==
  /\ edits < MaxEdits
  /\ EditMidSync \/ pc[d] = "idle"

\* Variant: a local change numbers itself.
ChangeLocalNumbered(d, row) ==
  /\ local' = [local EXCEPT ![d] = [row EXCEPT !.version = @ + 1]]
  /\ edit' = [edit EXCEPT ![d] = "unsent"]
  /\ edits' = edits + 1
  /\ UNCHANGED failures

ChangeLocal(d, row) ==
  /\ local' = [local EXCEPT ![d] = row]
  /\ edit' = [edit EXCEPT ![d] = "unsent"]
  /\ edits' = edits + 1
  /\ UNCHANGED failures

\* The queued payload has the date with its milliseconds, if it has any.
Queued(row, fine) ==
  [row |-> [row EXCEPT !.fine = fine], attempts |-> 0, synced |-> FALSE]

(***************************************************************************)
(* A new entry has a fresh id, so nobody has it yet.  The add-entry screen *)
(* also queues the insert, with the date as it was given; the table drops  *)
(* what is below the second.  Other screens write the table only.  Whether *)
(* the device believes the month open is not followed here.                *)
(***************************************************************************)
AddEntry(d, c, queued, fine) ==
  LET row == [content |-> c, deleted |-> FALSE, version |-> 1, fine |-> FALSE] IN
  /\ fine => queued
  /\ MayEdit(d)
  /\ \A x \in Devices : local[x] = NoRow
  /\ ChangeLocal(d, row)
  /\ queue' = IF queued
                THEN [queue EXCEPT ![d] = Queued(row, fine)]
                ELSE queue
  /\ UNCHANGED <<serverVars, pc, reply, pulled, net>>

UpdateEntry(d, c) ==
  /\ MayEdit(d)
  /\ local[d] # NoRow
  /\ c # local[d].content
  /\ ChangeLocal(d, [local[d] EXCEPT !.content = c])
  /\ UNCHANGED <<serverVars, queue, pc, reply, pulled, net>>

SoftDelete(d) ==
  /\ MayEdit(d)
  /\ local[d] # NoRow
  /\ ~local[d].deleted
  /\ ChangeLocal(d, [local[d] EXCEPT !.deleted = TRUE])
  /\ UNCHANGED <<serverVars, queue, pc, reply, pulled, net>>

-----------------------------------------------------------------------------
(***************************************************************************)
(* The sync of a device.                                                   *)
(***************************************************************************)

\* Variant: a failing insert is retried for ever.
InsertDueForEver(d) == queue[d] # NoRow /\ ~queue[d].synced

InsertDue(d) ==
  /\ queue[d] # NoRow
  /\ ~queue[d].synced
  /\ queue[d].attempts < MaxAttempts

Post(d, kind, row) ==
  /\ Cardinality(net) < MaxInFlight
  /\ net' = net \union {[dev |-> d, kind |-> kind, live |-> TRUE, row |-> row,
                         clean |-> kind = "push" /\ edit[d] = "clean",
                         plan |-> NoRow, late |-> "no"]}

Goto(d, step) == pc' = [pc EXCEPT ![d] = step]

\* The pending queue is read once, when the sync starts.
StartSync(d) ==
  /\ pc[d] = "idle"
  /\ Goto(d, IF InsertDue(d) THEN "insert" ELSE "push")
  /\ UNCHANGED <<serverVars, deviceVars, reply, pulled, net, edit>>

PostInsert(d) ==
  /\ pc[d] = "insert"
  /\ Post(d, "insert", queue[d].row)
  /\ Goto(d, "insertWait")
  /\ UNCHANGED <<serverVars, deviceVars, reply, pulled, edit>>

\* An insert the server stored or already had is marked synced; one it
\* rejected, or that failed on the way, counts an attempt and stays queued.
InsertAnswered(d) ==
  /\ pc[d] = "insertWait"
  /\ reply[d] # "none"
  /\ queue' = IF reply[d] = "synced" THEN [queue EXCEPT ![d].synced = TRUE]
                                     ELSE [queue EXCEPT ![d].attempts = @ + 1]
  /\ reply' = [reply EXCEPT ![d] = "none"]
  /\ Goto(d, "push")
  /\ UNCHANGED <<serverVars, local, edits, failures, pulled, net, edit>>

PostTable(d) ==
  /\ pc[d] = "push"
  /\ local[d] # NoRow
  /\ Post(d, "push", local[d])
  /\ edit' = [edit EXCEPT ![d] = IF @ = "unsent" THEN "sent" ELSE @]
  /\ Goto(d, "pushWait")
  /\ UNCHANGED <<serverVars, deviceVars, reply, pulled>>

PostTableWithoutEntry(d) ==
  /\ pc[d] = "push"
  /\ local[d] = NoRow
  /\ Goto(d, "pull")
  /\ UNCHANGED <<serverVars, deviceVars, reply, pulled, net, edit>>

\* Variant: a failed push is taken for an answered one.
TableAnsweredAnyhow(d) ==
  /\ pc[d] = "pushWait"
  /\ reply[d] # "none"
  /\ reply' = [reply EXCEPT ![d] = "none"]
  /\ Goto(d, "pull")
  /\ UNCHANGED <<serverVars, deviceVars, pulled, net, edit>>

\* The counts in the answer of /sync/batch are not read: only a request that
\* fails counts as a failure, and it is followed by a pull all the same.
TableAnswered(d) ==
  /\ pc[d] = "pushWait"
  /\ reply[d] # "none"
  /\ reply' = [reply EXCEPT ![d] = "none"]
  /\ Goto(d, IF reply[d] = "error" THEN "fallback" ELSE "pull")
  /\ UNCHANGED <<serverVars, deviceVars, pulled, net, edit>>

PullData(d) ==
  /\ pc[d] \in {"pull", "fallback"}
  /\ pulled' = [pulled EXCEPT ![d] = entry]
  /\ Goto(d, IF pc[d] = "pull" THEN "pullWait" ELSE "fallbackWait")
  /\ UNCHANGED <<serverVars, deviceVars, reply, net, edit>>

\* The row as the table of a device keeps it: its date to the second.
Truncated(row) == [row EXCEPT !.fine = FALSE]

\* Variant: the pull brings live rows only.
AfterPullLive(d) ==
  IF pulled[d] = NoRow \/ pulled[d].deleted THEN local[d] ELSE Truncated(pulled[d])

\* A live row replaces the local one whatever the local one says; of a
\* deleted row only the deletion is taken, and only by a device that has it.
AfterPull(d) ==
  IF pulled[d] = NoRow THEN local[d]
  ELSE IF ~pulled[d].deleted THEN Truncated(pulled[d])
  ELSE IF local[d] = NoRow THEN NoRow
  ELSE [local[d] EXCEPT !.deleted = TRUE]

ApplyPull(d) ==
  /\ pc[d] \in {"pullWait", "fallbackWait"}
  /\ local' = [local EXCEPT ![d] = AfterPull(d)]
  /\ edit' = [edit EXCEPT ![d] =
                IF pulled[d] # NoRow /\ ~pulled[d].deleted THEN "clean" ELSE @]
  /\ pulled' = [pulled EXCEPT ![d] = NoRow]
  /\ Goto(d, "idle")
  /\ UNCHANGED <<serverVars, queue, edits, failures, reply, net>>

Fail == failures < MaxFailures /\ failures' = failures + 1

\* The sync ends early: its 30 s timer or a cancellation, a failed pull, or
\* the application dying.  The server still handles a post it has received.
AbandonSync(d) ==
  /\ Fail
  /\ pc[d] # "idle"
  /\ net' = {IF r.dev = d THEN [r EXCEPT !.live = FALSE] ELSE r : r \in net}
  /\ reply' = [reply EXCEPT ![d] = "none"]
  /\ pulled' = [pulled EXCEPT ![d] = NoRow]
  /\ Goto(d, "idle")
  /\ UNCHANGED <<serverVars, local, queue, edits, edit>>

-----------------------------------------------------------------------------
(***************************************************************************)
(* The server.                                                             *)
(***************************************************************************)

Unchanged(row) ==
  /\ entry # NoRow
  /\ entry.content = row.content
  /\ entry.deleted = row.deleted
  /\ entry.fine = row.fine

\* Variant: only the month an entry moves into is looked at.
MonthsEntered(row) == {MonthOf[row.content]}

MonthsTouched(row) ==
  {MonthOf[row.content]} \union
     (IF entry = NoRow THEN {} ELSE {MonthOf[entry.content]})

InClosedMonth(row) == MonthsTouched(row) \cap closed # {}

\* Variant: no version, no deletion and no rejection stands in the way.
Never(row) == FALSE

Stale(row) == entry # NoRow /\ row.version < entry.version

Revives(row) ==
  /\ entry # NoRow
  /\ entry.deleted
  /\ ~row.deleted
  /\ ~(row.version > entry.version)

Rejected(row) == ~Unchanged(row) /\ InClosedMonth(row)

Writes(row) ==
  /\ ~Unchanged(row)
  /\ ~InClosedMonth(row)
  /\ ~Stale(row)
  /\ ~Revives(row)

\* Variant: a write keeps the version the device sent.
PlanAsSent(row) ==
  [act |-> IF entry = NoRow THEN "create" ELSE "update", row |-> row]

PlanFor(row) ==
  IF entry = NoRow
    THEN [act |-> "create", row |-> row]
    ELSE [act |-> "update",
          row |-> [row EXCEPT !.version =
                     1 + IF row.version > entry.version THEN row.version
                                                        ELSE entry.version]]

\* A write to the entry, or a close of month m, makes the decisions that are
\* still to be carried out late.
LateForWrite(r) == IF r.plan = NoRow THEN r ELSE [r EXCEPT !.late = "written"]

LateForClose(r, m) ==
  IF r.plan # NoRow /\ r.late = "no" /\ m \in MonthsTouched(r.row)
    THEN [r EXCEPT !.late = "closed"]
    ELSE r

Answer(r, a) ==
  /\ reply' = IF r.live THEN [reply EXCEPT ![r.dev] = a] ELSE reply
  /\ edit' = IF r.live /\ r.kind = "push" /\ a # "error" /\ edit[r.dev] = "sent"
               THEN [edit EXCEPT ![r.dev] = "decided"]
               ELSE edit

(***************************************************************************)
(* Phase 1, validateBatch.  An unchanged, a stale and a reviving row are   *)
(* acknowledged like a stored one; a row of a closed month is rejected.    *)
(***************************************************************************)
ValidateBatch(r) ==
  /\ r.plan = NoRow
  /\ Writes(r.row)
  /\ net' = (net \ {r}) \union {[r EXCEPT !.plan = PlanFor(r.row)]}
  /\ UNCHANGED <<serverVars, deviceVars, pc, reply, pulled, edit>>

ValidateWithoutWrite(r) ==
  /\ r.plan = NoRow
  /\ ~Writes(r.row)
  /\ net' = net \ {r}
  /\ Answer(r, IF Rejected(r.row) THEN "rejected" ELSE "synced")
  /\ UNCHANGED <<serverVars, deviceVars, pc, pulled>>

(***************************************************************************)
(* Phase 2, applyBatch: the write decided in phase 1.  Creating a row that *)
(* exists by now violates the primary key and rolls the transaction back.  *)
(***************************************************************************)
ApplyBatch(r) ==
  /\ r.plan # NoRow
  /\ ~(r.plan.act = "create" /\ entry # NoRow)
  /\ net' = {LateForWrite(q) : q \in net \ {r}}
  /\ entry' = r.plan.row
  /\ issued' = IF r.plan.row.version > issued THEN r.plan.row.version ELSE issued
  /\ raced' = (raced \/ r.late = "written")
  /\ Answer(r, "synced")
  /\ UNCHANGED <<closed, deviceVars, pc, pulled>>

ApplyCollides(r) ==
  /\ r.plan # NoRow
  /\ r.plan.act = "create"
  /\ entry # NoRow
  /\ net' = net \ {r}
  /\ Answer(r, "error")
  /\ UNCHANGED <<serverVars, deviceVars, pc, pulled>>

\* The post does not arrive, or its transaction fails for a reason outside
\* this entry: one failing record rolls back the whole of /sync/batch.
LoseRequest(r) ==
  /\ Fail
  /\ net' = net \ {r}
  /\ Answer(r, "error")
  /\ UNCHANGED <<serverVars, local, queue, edits, pc, pulled>>

LoseReply(d) ==
  /\ Fail
  /\ reply[d] \in {"synced", "rejected"}
  /\ reply' = [reply EXCEPT ![d] = "error"]
  /\ UNCHANGED <<serverVars, local, queue, edits, pc, pulled, net, edit>>

\* A close or a reopen of a month, by any device of the household.
CloseMonth(m) ==
  /\ m \notin closed
  /\ Cardinality(closed) < MaxClosed
  /\ closed' = closed \union {m}
  /\ net' = {LateForClose(r, m) : r \in net}
  /\ UNCHANGED <<entry, issued, raced, deviceVars, pc, reply, pulled, edit>>

ReopenMonth(m) ==
  /\ m \in closed
  /\ closed' = closed \ {m}
  /\ UNCHANGED <<entry, issued, raced, deviceVars, pc, reply, pulled, net, edit>>

-----------------------------------------------------------------------------

User ==
  \/ \E d \in Devices, c \in Contents, queued, fine \in BOOLEAN : AddEntry(d, c, queued, fine)
  \/ \E d \in Devices, c \in Contents : UpdateEntry(d, c)
  \/ \E d \in Devices : SoftDelete(d)

Sync(d) ==
  \/ StartSync(d)
  \/ PostInsert(d)
  \/ InsertAnswered(d)
  \/ PostTable(d)
  \/ PostTableWithoutEntry(d)
  \/ TableAnswered(d)
  \/ PullData(d)
  \/ ApplyPull(d)

Handle(r) ==
  \/ ValidateBatch(r)
  \/ ValidateWithoutWrite(r)
  \/ ApplyBatch(r)
  \/ ApplyCollides(r)

Network ==
  \/ \E d \in Devices : AbandonSync(d) \/ LoseReply(d)
  \/ \E r \in net : LoseRequest(r)

Next ==
  \/ User
  \/ \E d \in Devices : Sync(d)
  \/ \E r \in net : Handle(r)
  \/ Network
  \/ \E m \in Months : CloseMonth(m) \/ ReopenMonth(m)

Spec == Init /\ [][Next]_vars

(***************************************************************************)
(* Devices keep syncing (every change, reconnection and refresh starts a   *)
(* sync) and the server answers each of them.  Users need not do anything. *)
(***************************************************************************)
Fairness ==
  \A d \in Devices : /\ SF_vars(Sync(d))
                     /\ SF_vars(\E r \in net : r.dev = d /\ Handle(r))

FairSpec == Spec /\ Fairness

-----------------------------------------------------------------------------
(***************************************************************************)
(* What must hold whatever the network does and however requests overlap.  *)
(***************************************************************************)

(***************************************************************************)
(* A queued insert is marked synced only when the server has the entry:    *)
(* counting "nothing to do" as synced, answering a request nobody waits    *)
(* for any more, or retrying, never takes an unsaved entry off the queue.  *)
(***************************************************************************)
SyncedInsertIsStored ==
  \A d \in Devices : queue[d] # NoRow /\ queue[d].synced => entry # NoRow

(***************************************************************************)
(* A local change that was part of the pushed table is only ever replaced  *)
(* by a pull before the server has ruled on it when the push had failed: a *)
(* sync that reports success never drops it unseen.                        *)
(***************************************************************************)
SuccessNeverDropsPushedEdit ==
  [][\A d \in Devices :
       edit[d] = "sent" /\ edit'[d] = "clean" => pc[d] = "fallbackWait"]_vars

(***************************************************************************)
(* What the version protocol promises.  It decides about a request and     *)
(* writes later without looking again, so each promise names the request   *)
(* that may break it: one whose write comes after another write (late      *)
(* "written") or after a close ("closed") made since it was decided.       *)
(***************************************************************************)

LateWrite(r) == r.late = "written" /\ ApplyBatch(r)

(***************************************************************************)
(* No copy of the entry, on a device, in its queue or on the wire, bears a *)
(* version the server has not stored: local changes make no versions.      *)
(***************************************************************************)
NobodyAhead ==
  LET Known(row) == row = NoRow \/ row.version <= issued IN
  /\ \A d \in Devices : Known(local[d]) /\ Known(pulled[d])
  /\ \A d \in Devices : queue[d] # NoRow => Known(queue[d].row)
  /\ \A r \in net : Known(r.row)

(***************************************************************************)
(* A device pushes its whole table on every sync.  The copy of an entry it *)
(* has not changed since pulling it, however old, never makes the server   *)
(* write anything but the entry's date without its fraction of a second.   *)
(* (Late writes void this: they give one version to two values.)           *)
(***************************************************************************)
UnchangedCopyOnlyTruncates ==
  ~raced =>
    \A r \in net :
      r.clean /\ r.plan # NoRow /\ r.late # "written" =>
        /\ entry # NoRow
        /\ entry.fine
        /\ r.plan.row = [Truncated(entry) EXCEPT !.version = @ + 1]

(***************************************************************************)
(* Once the server has the entry as deleted it stays deleted: no edit, no  *)
(* retry and no old copy of another device brings it back.  Only a late    *)
(* write does, or a copy left ahead of the server by an earlier late write.*)
(***************************************************************************)
DeletionIsFinal ==
  [][entry # NoRow /\ entry.deleted /\ ~entry'.deleted =>
       \E r \in net : \/ LateWrite(r)
                      \/ raced /\ r.row.version > entry.version /\ ApplyBatch(r)]_vars

(***************************************************************************)
(* No write changes an entry of a closed month or moves one into it, but   *)
(* one decided before the month was closed or before the entry was moved.  *)
(***************************************************************************)
ClosedMonthFrozen ==
  [][entry' # entry =>
       \/ /\ MonthOf[entry'.content] \notin closed
          /\ entry # NoRow => MonthOf[entry.content] \notin closed
       \/ \E r \in net : r.late # "no" /\ ApplyBatch(r)]_vars

(***************************************************************************)
(* All of it together: the validate-then-apply protocol with its version,  *)
(* tombstone and closed-month guards implements a register with late       *)
(* writes.                                                                 *)
(***************************************************************************)
Register ==
  INSTANCE EntryRegister
  WITH Contents <- Contents, MonthOf <- MonthOf, NoRow <- NoRow,
       entry <- entry, closed <- closed, raced <- raced,
       overtaken <- {r.late : r \in net} \ {"no"}

ImplementsRegister == Register!Spec

(***************************************************************************)
(* What repeated syncing achieves.                                         *)
(***************************************************************************)

Agrees(d) ==
  IF entry = NoRow THEN local[d] = NoRow
  ELSE IF local[d] = NoRow THEN entry.deleted
  ELSE /\ local[d].deleted = entry.deleted
       /\ entry.deleted \/ local[d].content = entry.content

(***************************************************************************)
(* When users stop changing the entry and its month stays open, the        *)
(* devices and the server end up showing the same entry.                   *)
(***************************************************************************)
DevicesConverge ==
  <>[](closed = {}) => <>[](\A d \in Devices : Agrees(d))

(***************************************************************************)
(* When users stop changing the entry the server's row stops changing:     *)
(* devices holding different copies do not overwrite each other for ever.  *)
(***************************************************************************)
ServerRowSettles == <>[][UNCHANGED entry]_entry

(***************************************************************************)
(* What the program's comments say of a local change.                      *)
(***************************************************************************)

(***************************************************************************)
(* A pull never takes back a local change the server has not ruled on yet. *)
(***************************************************************************)
EditReachesServer ==
  [][\A d \in Devices :
       edit[d] \in {"unsent", "sent"} /\ edit'[d] = "clean" =>
         /\ local'[d].content = local[d].content
         /\ local'[d].deleted = local[d].deleted]_vars

=============================================================================
