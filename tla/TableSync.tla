------------------------------ MODULE TableSync ------------------------------
(***************************************************************************)
(* The tables of a household other than its entries: accounts, cards and   *)
(* their transactions, bills, receivables, goals and contributions, funds  *)
(* and movements, budgets, reserve lines, annual targets and categories.   *)
(* A device sends all its rows of every table to POST /sync/batch, with    *)
(* the deletions waiting in its queue, and then replaces its rows by those *)
(* of GET /sync/pull.  Rows have no version: the server keeps a tombstone  *)
(* for each deleted record and refuses nothing else.                       *)
(*                                                                         *)
(* One household, so no batch is refused as another household's.  A device *)
(* sends its next batch when the server is through with its last one; its  *)
(* reading of its tables, the server's validation of a batch, its          *)
(* transaction and the queries of a pull are steps, with other devices in  *)
(* between.                                                                *)
(***************************************************************************)
EXTENDS Naturals

CONSTANTS Devices, Records,
          KindOf,      \* the table a record belongs to
          ParentOf,    \* the card, goal or fund of a record that has one
          CellOf,      \* a budget's category and month
          NameOf,      \* an account's name
          SystemCategories,  \* those the application itself makes on each device
          NoRow,
          MaxChanges,  \* bound: creations and edits by the users
          Casts        \* bound: which records the users ever create together

DeletableKinds ==
  {"planned_bill", "receivable", "card_transaction", "budget", "reserve_line",
   "goal_contribution", "fund_movement", "annual_target", "category"}

OfKind(kinds) == {r \in Records : KindOf[r] \in kinds}
Deletable == OfKind(DeletableKinds)
Categories == OfKind({"category"})     \* deleting one archives it
Budgets == OfKind({"budget"})
Accounts == OfKind({"account"})
Parts == OfKind({"card_transaction", "goal_contribution", "fund_movement"})
CardParts == OfKind({"card_transaction"})

ASSUME PartsHaveParents ==
  \A p \in Parts : ParentOf[p] \in OfKind({"credit_card", "saving_goal", "protection_fund"})

ASSUME SystemCategoriesAssumption == SystemCategories \subseteq Categories

SameCell(b) == {c \in Budgets : CellOf[c] = CellOf[b]}
SameName(a) == {b \in Accounts : NameOf[b] = NameOf[a]}

\* What else a row says: which of the users' changes, in the order they were
\* made, it is the result of; 0 when the application made it.
Contents == 0..MaxChanges

ASSUME ContentsAssumption == MaxChanges \in Nat /\ NoRow \notin Contents

VARIABLES
  row,        \* the server's rows
  archived,   \* the categories the server has archived
  tombs,      \* the server's tombstones
  local,      \* local[d]: the rows of device d
  hidden,     \* hidden[d]: the categories device d has archived
  dels,       \* dels[d]: deletions waiting in d's queue
  run,        \* run[d]: d's sync, from the reading of its tables on
  changes,    \* the changes made so far
  born,       \* the records created so far
  gone,       \* gone[d]: history, deletions device d has taken from a pull
  slipped     \* slipped[d]: history, categories deleted between the reading of
              \* the categories and of the tombstones for d's pull, until a pull
              \* brings them as archived

serverVars == <<row, archived, tombs>>
deviceVars == <<local, hidden, dels>>
userVars == <<changes, born>>
history == <<gone, slipped>>
vars == <<serverVars, deviceVars, userVars, run, history>>

Rows == [Records -> Contents \union {NoRow}]
NoRows == [r \in Records |-> NoRow]
Present(rows) == {r \in Records : rows[r] # NoRow}
Shown(d) == Present(local[d]) \ hidden[d]

Batch == [rows : Rows, del : SUBSET Deletable]
\* What the server decides about a batch before writing: the tombstones there
\* are, the records to delete and to write, the row each is written to, and
\* the cards to be made up for transactions that come without theirs.
Plans == [known : SUBSET Deletable, doomed : SUBSET Deletable,
          puts : SUBSET Records, target : [Records -> Records], cards : SUBSET Records]
Pulled == [rows : Rows, archived : SUBSET Categories, tombs : SUBSET Deletable]

Steps == {"idle", "read", "sent", "planned", "written", "failed",
          "answered", "first", "second", "categories", "tombstones", "pulled"}

Stays == [r \in Records |-> r]
NoBatch == [rows |-> NoRows, del |-> {}]
NoPlan == [known |-> {}, doomed |-> {}, puts |-> {}, target |-> Stays, cards |-> {}]
NoPull == [rows |-> NoRows, archived |-> {}, tombs |-> {}]
Run(step, batch, plan, pull) ==
  [at |-> step, batch |-> batch, plan |-> plan, pull |-> pull]
At(step) == Run(step, NoBatch, NoPlan, NoPull)

Init ==
  /\ row = NoRows /\ archived = {} /\ tombs = {}
  /\ local = [d \in Devices |-> [r \in Records |-> IF r \in SystemCategories THEN 0 ELSE NoRow]]
  /\ hidden = [d \in Devices |-> {}]
  /\ dels = [d \in Devices |-> {}]
  /\ run = [d \in Devices |-> At("idle")]
  /\ changes = 0 /\ born = SystemCategories
  /\ gone = [d \in Devices |-> {}]
  /\ slipped = [d \in Devices |-> {}]

-----------------------------------------------------------------------------
(***************************************************************************)
(* The screens.                                                            *)
(***************************************************************************)

\* A record gets an id of its own.  Setting the budget of a cell that has one
\* on this device changes that one instead.
Create(d, r) ==
  /\ changes < MaxChanges
  /\ r \notin born
  /\ \E cast \in Casts : (born \ SystemCategories) \union {r} \subseteq cast
  /\ r \in Parts => local[d][ParentOf[r]] # NoRow
  /\ r \in Budgets => Present(local[d]) \intersect SameCell(r) = {}
  /\ changes' = changes + 1
  /\ local' = [local EXCEPT ![d] = [@ EXCEPT ![r] = changes']]
  /\ born' = born \union {r}
  /\ UNCHANGED <<serverVars, hidden, dels, run, history>>

Edit(d, r) ==
  /\ changes < MaxChanges
  /\ r \in Shown(d)
  /\ changes' = changes + 1
  /\ local' = [local EXCEPT ![d] = [@ EXCEPT ![r] = changes']]
  /\ UNCHANGED <<serverVars, hidden, dels, run, born, history>>

DeleteHides(d, r) ==
  /\ r \in (Shown(d) \intersect Deletable) \ SystemCategories
  /\ dels' = [dels EXCEPT ![d] = @ \union {r}]
  /\ hidden' = [hidden EXCEPT ![d] = @ \union {r}]
  /\ UNCHANGED <<serverVars, userVars, local, run, history>>

\* The deletion is queued and the row removed, or the category archived.
Delete(d, r) ==
  /\ r \in (Shown(d) \intersect Deletable) \ SystemCategories
  /\ dels' = [dels EXCEPT ![d] = @ \union {r}]
  /\ IF r \in Categories
     THEN hidden' = [hidden EXCEPT ![d] = @ \union {r}] /\ UNCHANGED local
     ELSE local' = [local EXCEPT ![d] = [@ EXCEPT ![r] = NoRow]] /\ UNCHANGED hidden
  /\ UNCHANGED <<serverVars, userVars, run, history>>

\* The Budget screen archives the category and queues no deletion of it.
DeleteUnqueued(d, r) ==
  /\ r \in (Shown(d) \intersect Categories) \ SystemCategories
  /\ hidden' = [hidden EXCEPT ![d] = @ \union {r}]
  /\ UNCHANGED <<serverVars, userVars, local, dels, run, history>>

-----------------------------------------------------------------------------
(***************************************************************************)
(* The push.  The tables are read first, the queue of deletions after them.*)
(***************************************************************************)
ReadTables(d) ==
  /\ run[d].at = "idle"
  /\ run' = [run EXCEPT ![d] =
       Run("read", [rows |-> local[d], del |-> {}], NoPlan, NoPull)]
  /\ UNCHANGED <<serverVars, deviceVars, userVars, history>>

Send(d) ==
  /\ run[d].at = "read"
  /\ run' = [run EXCEPT ![d] =
       Run("sent", [rows |-> run[d].batch.rows, del |-> dels[d]], NoPlan, NoPull)]
  /\ UNCHANGED <<serverVars, deviceVars, userVars, history>>

(***************************************************************************)
(* Phase 1.  An account is to be written to an account of its name if there*)
(* is one, whichever is found first; a budget the server has not yet to the*)
(* budget that fills its cell; everything else to its own id.              *)
(***************************************************************************)
Stored == Present(row)

\* A contribution or movement without its goal or fund makes the whole batch
\* forbidden; for a card transaction the card is made up.
BatchAllowedAlone(b) ==
  \A p \in (Parts \ CardParts) \intersect Present(b.rows) : ParentOf[p] \in Stored

BatchAllowed(b) ==
  \A p \in (Parts \ CardParts) \intersect Present(b.rows) :
    ParentOf[p] \in Stored \union Present(b.rows)

Doomed(b) == b.del \intersect Stored

AccountTargets(a) ==
  LET twins == Stored \intersect SameName(a) IN
  IF twins = {} THEN {a} ELSE twins

BudgetTarget(b) ==
  LET twins == Stored \intersect SameCell(b) IN
  IF b \in twins \/ twins = {} THEN b ELSE CHOOSE t \in twins : TRUE

PutsWithoutParts(b) ==
  {r \in Present(b.rows) \ (tombs \union Parts \union SystemCategories) :
     r \in Categories => row[r] # b.rows[r]}

\* A record with a tombstone is passed over, and so is a category that the
\* server has like this, or that the server has under an id of its own.
Puts(b) ==
  {r \in Present(b.rows) \ (tombs \union SystemCategories) :
     r \in Categories => row[r] # b.rows[r]}

MissingCards(b) ==
  {ParentOf[p] : p \in CardParts \intersect Puts(b)} \ (Stored \union Present(b.rows))

PlanFor(b, found) ==
  [known |-> tombs,
   doomed |-> Doomed(b),
   puts |-> Puts(b),
   target |-> [r \in Records |-> IF r \in Accounts THEN found[r]
                                 ELSE IF r \in Budgets THEN BudgetTarget(r) ELSE r],
   cards |-> MissingCards(b)]

ValidateBatch(d) ==
  /\ run[d].at = "sent"
  /\ BatchAllowed(run[d].batch)
  /\ \E found \in [Accounts -> Accounts] :
       /\ \A a \in Accounts : found[a] \in AccountTargets(a)
       /\ run' = [run EXCEPT ![d] =
            Run("planned", run[d].batch, PlanFor(run[d].batch, found), NoPull)]
  /\ UNCHANGED <<serverVars, deviceVars, userVars, history>>

(***************************************************************************)
(* Phase 2, one transaction: the deletions of records the server had, then *)
(* every row of the batch that phase 1 let through.                        *)
(***************************************************************************)
AfterDeletions(p) ==
  [r \in Records |-> IF r \in p.doomed \ Categories THEN NoRow ELSE row[r]]

\* A tombstone for each record deleted, unless it has one.
NewTombsKnown(p) == p.doomed \intersect p.known

NewTombs(p) == p.doomed \ p.known

\* What may be in row r when every put of the batch has been made.
Written(b, p, r) ==
  LET onto == {s \in p.puts : p.target[s] = r}
      kept == AfterDeletions(p)[r] IN
  IF onto # {} THEN {b.rows[s] : s \in onto}
  ELSE IF r \in p.cards /\ kept = NoRow THEN {0} ELSE {kept}

\* Updating a budget that is gone fails, and so does a second one in a cell.
BudgetRefused(p) ==
  LET kept == AfterDeletions(p) IN
  \E s \in p.puts \intersect Budgets :
    LET t == p.target[s] IN
    /\ kept[t] = NoRow
    /\ t # s \/ \E c \in SameCell(s) \ {s} : kept[c] # NoRow

ApplyBatch(d) ==
  LET b == run[d].batch
      p == run[d].plan IN
  /\ run[d].at = "planned"
  /\ ~BudgetRefused(p)
  /\ \E last \in [Accounts -> Contents \union {NoRow}] :
       /\ \A a \in Accounts : last[a] \in Written(b, p, a)
       /\ row' = [r \in Records |-> IF r \in Accounts THEN last[r]
                                    ELSE CHOOSE c \in Written(b, p, r) : TRUE]
  /\ archived' = archived \union (p.doomed \intersect Categories)
  /\ tombs' = tombs \union NewTombs(p)
  /\ slipped' = [e \in Devices |->
       IF run[e].at = "categories" THEN slipped[e] \union (Categories \intersect (tombs' \ tombs))
       ELSE slipped[e]]
  /\ run' = [run EXCEPT ![d] = Run("written", run[d].batch, NoPlan, NoPull)]
  /\ UNCHANGED <<deviceVars, userVars, gone>>

\* One write that fails rolls the whole batch back.
BatchFails(d) ==
  /\ run[d].at = "planned"
  /\ BudgetRefused(run[d].plan)
  /\ run' = [run EXCEPT ![d] = At("failed")]
  /\ UNCHANGED <<serverVars, deviceVars, userVars, history>>

\* The request or its answer is lost, or the transaction takes too long.
Lose(d) ==
  /\ run[d].at \in {"sent", "planned", "written"}
  /\ run' = [run EXCEPT ![d] = At("failed")]
  /\ UNCHANGED <<serverVars, deviceVars, userVars, history>>

Answered(d) ==
  /\ run[d].at = "written"
  /\ dels' = [dels EXCEPT ![d] = @ \ run[d].batch.del]
  /\ run' = [run EXCEPT ![d] = At("answered")]
  /\ UNCHANGED <<serverVars, local, hidden, userVars, history>>

-----------------------------------------------------------------------------
(***************************************************************************)
(* The pull, after the push whether it succeeded or failed.  The server    *)
(* reads one group of tables after the other, those of a group side by     *)
(* side: in the last the categories before the tombstones, or after them.  *)
(***************************************************************************)
FirstGroup ==
  OfKind({"account", "credit_card", "card_transaction", "planned_bill",
          "receivable", "saving_goal"})

\* A pull that reads some tables more, as they are now.
Reading(pull, tables) ==
  [pull EXCEPT !.rows = [r \in Records |-> IF r \in tables THEN row[r] ELSE pull.rows[r]]]

PullGoesOn(d, step, pull) ==
  /\ run' = [run EXCEPT ![d] = Run(step, NoBatch, NoPlan, pull)]
  /\ UNCHANGED <<serverVars, deviceVars, userVars, history>>

PullFirst(d) ==
  /\ run[d].at \in {"answered", "failed"}
  /\ PullGoesOn(d, "first", Reading(NoPull, FirstGroup))

PullSecond(d) ==
  /\ run[d].at = "first"
  /\ PullGoesOn(d, "second", Reading(run[d].pull, Records \ (FirstGroup \union Categories)))

\* With a category's row comes whether it is archived.
PullCategories(d) ==
  /\ run[d].at \in {"second", "tombstones"}
  /\ PullGoesOn(d, IF run[d].at = "second" THEN "categories" ELSE "pulled",
                [Reading(run[d].pull, Categories) EXCEPT !.archived = archived])

PullTombstones(d) ==
  /\ run[d].at \in {"second", "categories"}
  /\ PullGoesOn(d, IF run[d].at = "second" THEN "tombstones" ELSE "pulled",
                [run[d].pull EXCEPT !.tombs = tombs])

\* A pulled budget in the cell of another local one breaks the local table's
\* uniqueness, a part whose parent is in neither database its foreign key.
PullRefused(d) ==
  LET got == Present(run[d].pull.rows)
      have == Present(local[d]) IN
  \/ \E b \in got \intersect Budgets : (SameCell(b) \ {b}) \intersect have # {}
  \/ \E p \in got \intersect Parts : ParentOf[p] \notin got \union have

RowsRemovedFirst(d) ==
  [r \in Records |-> IF run[d].pull.rows[r] # NoRow THEN run[d].pull.rows[r]
                     ELSE IF r \in run[d].pull.tombs \ Categories THEN NoRow
                     ELSE local[d][r]]

\* The deletions of other devices are made after the rows are written.
RowsPulled(d) ==
  [r \in Records |-> IF r \in run[d].pull.tombs \ Categories THEN NoRow
                     ELSE IF run[d].pull.rows[r] # NoRow THEN run[d].pull.rows[r]
                     ELSE local[d][r]]

\* The tombstones of categories are not looked at.
ApplyPull(d) ==
  LET pull == run[d].pull
      got == Present(pull.rows) IN
  /\ run[d].at = "pulled"
  /\ ~PullRefused(d)
  /\ local' = [local EXCEPT ![d] = RowsPulled(d)]
  /\ hidden' = [hidden EXCEPT ![d] = (@ \ got) \union (got \intersect pull.archived)]
  /\ gone' = [gone EXCEPT ![d] = @ \union pull.tombs]
  /\ slipped' = [slipped EXCEPT ![d] = @ \ (got \intersect pull.archived)]
  /\ run' = [run EXCEPT ![d] = At("idle")]
  /\ UNCHANGED <<serverVars, dels, userVars>>

PullFails(d) ==
  /\ run[d].at = "pulled"
  /\ PullRefused(d)
  /\ run' = [run EXCEPT ![d] = At("idle")]
  /\ UNCHANGED <<serverVars, deviceVars, userVars, history>>

\* Cancelled, timed out or offline, or the application is closed.
Stop(d) ==
  /\ run[d].at \in {"read", "failed", "answered", "first", "second", "categories",
                   "tombstones", "pulled"}
  /\ run' = [run EXCEPT ![d] = At("idle")]
  /\ UNCHANGED <<serverVars, deviceVars, userVars, history>>

-----------------------------------------------------------------------------

User ==
  \E d \in Devices, r \in Records :
    Create(d, r) \/ Edit(d, r) \/ Delete(d, r) \/ DeleteUnqueued(d, r)

Sync(d) ==
  \/ ReadTables(d)
  \/ Send(d)
  \/ ValidateBatch(d)
  \/ ApplyBatch(d)
  \/ BatchFails(d)
  \/ Answered(d)
  \/ PullFirst(d)
  \/ PullSecond(d)
  \/ PullCategories(d)
  \/ PullTombstones(d)
  \/ ApplyPull(d)
  \/ PullFails(d)

Next ==
  \/ User
  \/ \E d \in Devices : Sync(d) \/ Lose(d) \/ Stop(d)

Spec == Init /\ [][Next]_vars
-----------------------------------------------------------------------------

TypeOK ==
  /\ row \in Rows /\ archived \subseteq Categories /\ tombs \subseteq Deletable
  /\ local \in [Devices -> Rows]
  /\ hidden \in [Devices -> SUBSET Categories]
  /\ dels \in [Devices -> SUBSET Deletable]
  /\ run \in [Devices -> [at : Steps, batch : Batch, plan : Plans, pull : Pulled]]
  /\ changes \in 0..MaxChanges /\ born \subseteq Records
  /\ gone \in [Devices -> SUBSET Deletable]
  /\ slipped \in [Devices -> SUBSET Categories]

(***************************************************************************)
(* A deletion that has reached a device stays made there: no row the       *)
(* server still or again has beside its tombstone, and no pull that was    *)
(* reading the tables while the deletion came in, shows the record again.  *)
(* The one exception is a category whose deletion came in between the two  *)
(* queries for categories and tombstones, until the next pull is applied.  *)
(***************************************************************************)
GoneStaysGone ==
  \A d \in Devices : gone[d] \intersect Shown(d) \subseteq slipped[d]

(***************************************************************************)
(* No device ever sends a contribution or movement whose goal or fund is   *)
(* neither in its batch nor on the server: the batch would be forbidden,   *)
(* and every later one of that device with it.                             *)
(***************************************************************************)
NeverForbidden ==
  \A d \in Devices : run[d].at = "sent" => BatchAllowed(run[d].batch)

(***************************************************************************)
(* A row leaves the server only for a tombstone, whatever the batch knew   *)
(* when it was validated: the other devices would keep it for ever.        *)
(***************************************************************************)
DeletionLeavesTombstone ==
  [][Present(row) \subseteq Present(row') \union tombs']_vars

(***************************************************************************)
(* When the server is about to report a batch as stored, each row of it is *)
(* there, or was deleted, or has its place taken by the account or budget  *)
(* it was merged into, whatever other devices wrote since its validation.  *)
(* The system categories of a device are not meant for the server.         *)
(***************************************************************************)
Same(r) == {r} \union (IF r \in Budgets THEN SameCell(r)
                      ELSE IF r \in Accounts THEN SameName(r) ELSE {})

PushedIsKept ==
  \A d \in Devices : run[d].at = "written" =>
    \A r \in Present(run[d].batch.rows) \ SystemCategories :
      Same(r) \intersect (Present(row) \union tombs) # {}

(***************************************************************************)
(* What the documentation says of two devices that push the same record:   *)
(* "version and updated_at columns prevent older client state from         *)
(* overwriting newer server records".                                      *)
(***************************************************************************)
NewerRowKept ==
  [][\A r \in Records :
       row[r] # NoRow /\ row'[r] # NoRow => row[r] <= row'[r]]_vars

=============================================================================
