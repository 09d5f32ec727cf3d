# CalBudget: a verification of its synchronisation, sessions, households and books

CalBudget is a household budget tracker: a Flutter application (`lib/`) that works offline
on a local Drift (SQLite) database, and a NestJS server (`backend/`) with a PostgreSQL
database that several devices of one household share. What can go wrong in it, and is hard
to test, is what happens between the two and between requests on the server: syncing,
renewing sessions, joining and leaving households, closing months. This directory models these
in TLA+, checks the models with TLC and proves most of their properties with TLAPS.

`PROJECT.json` lists the components, the runs, the source lines behind each definition,
the findings, the hazards and the theorems; this file explains them.

## 1. The system

### Components, state and operations

| Component | Code | State it keeps | Operations | Module |
|---|---|---|---|---|
| Entries on the device | `add_entry.dart`, `transactions_providers.dart`, `entry_dao.dart` | table `entries` | add (and queue), edit, soft-delete | `EntrySync` |
| Sync queue | `sync_queue_dao.dart` | rows: op, payload, attempts, syncedAt | enqueue, mark synced, count attempts | `EntrySync`, `MonthStatus`, `SyncRunner`, `TableSync` |
| Sync client, one run | `sync_service.dart` `syncAllQueue`, `pullFromServer` | local variables of the run, cancel token | drain the queue, push everything, replay month actions, pull everything | `EntrySync` (what it does to an entry), `TableSync` (to all other rows), `MonthStatus`, `SyncRunner` (the run itself) |
| Sync client, scheduling | `sync_service.dart` `triggerSync`, `cancelCurrentSync` | `_isSyncing`, `_hasPendingSync`, `_isSyncRunning`, `_activeCancelToken` | trigger, direct run, cancel, time out | `SyncRunner`, `Outbox` |
| Entries service | `entries.service.ts` | table `entries` on the server | validate a batch, apply a batch | `EntrySync`, `EntryRegister` |
| Sync service | `sync.service.ts`, `sync-batch.dto.ts` | all other household tables, tombstones | `/sync/batch`, `/sync/pull` | `TableSync` |
| Month status | `more_screen.dart`, `sync_service.dart`, `months.service.ts` | month snapshots on both sides | close, reopen, notify, replay, pull | `MonthStatus`; as a guard in `EntrySync` |
| Month figures | `months.service.ts`, `engine.ts` | figures of the snapshots | close (freeze, roll over), reopen | `MonthClose` |
| Reports | `reports.service.ts`, lists of the cards and protection services | none | dashboard, budget report, trends, year | `MonthClose` |
| Planning, saving, protection, cards, accounts | `*.service.ts` | their rows | create, add a part, settle, set a balance | `MonthClose` |
| Sessions | `auth.service.ts`, `jwt.strategy.ts`, `auth_providers.dart` | refresh tokens and families; tokens on the device | sign in, refresh, log out, expire | `Sessions` |
| Households, users | `households.service.ts`, `users.service.ts`, `auth.service.ts` | membership, ownership, invites | register, create, invite, join, remove, delete | `Households`, `Membership` |
| Clean-up jobs | `cleanup.service.ts` | - | drop expired tokens, old tombstones | tokens in `Sessions` |
| Signing out and in | `auth_providers.dart`, `app_init_service.dart` | session, tokens, the local database as a whole | sign out (keep or wipe), sign in | `SyncRunner`, `Sessions` |
| Balances and linked entries on the device | `account_dao.dart`, `borrow_lend_dao.dart` | derived amounts | recompute, settle | not modelled |
| Screens, platform | | none of their own | presentation | not modelled |

### How they interact

* A change on a screen writes the local database, and calls `triggerSync` without waiting.
* `triggerSync` is a loop around `syncAllQueue`; sign-in, sign-out, Force Sync and two
  budget dialogs call `syncAllQueue` themselves. A lock lets one run at a time through.
* A run posts the queued inserts one by one to `/entries/batch`, posts all tables and the queued
  deletions to `/sync/batch`, replays queued month actions, and pulls all tables from `/sync/pull`,
  writing them over the local rows. If the push fails it pulls all the same.
* The server decides a request by reading the stored rows first and writes afterwards
  in a transaction that does not read them again; what it refuses of a batch it leaves out of an answer that says success. Requests of different devices, and a
  request its sender has given up and the next one of the same device, run side by side.
* Closing a month writes the local snapshot, records the action in the queue, and posts it
  at once; the answer marks the queue row synced by its id. The server reads entries, snapshots,
  funds and accounts one after the other and then freezes the figures.
* A request of the device that comes back with 401 makes its interceptor renew the tokens and
  send it again; if that fails it signs out. The household is a claim of the access token, so joining,
  creating, leaving or deleting one makes every older access token of the user invalid.

### What is hard

Requests that overlap between validation and write; answers lost after the effect; a run
abandoned by its timer while the server works on; edits made between the push's read and the
pull's write; a full-table push of mostly stale rows; two actions sharing one queue row; the
lock and the two flags of the scheduler; signing out in the middle of it; a renewal whose answer
is lost, or that a logout overtakes; handlers that are chains of statements cut short anywhere;
deletions that must win over copies of what was deleted; dates that lose their milliseconds in one of two copies; figures
gathered by several queries while the rows change, and statuses read in a transaction that locks nothing. The list, line by line, is `hazards` in `PROJECT.json`; those no property
covers carry a note.

### What makes each part correct

* Entries: an entry never leaves the queue unsaved; versions count writes; stale copies change
  nothing; deletions stay; closed months stand still - but for a decision overtaken before it is written; devices converge.
* Other tables: a deletion leaves a tombstone and holds wherever it has arrived; what is reported
  pushed is kept; a device never gets into a state in which all its pushes are forbidden.
* Month status: the user's last action is kept until accepted, unless another action's answer is taken for its own; a pull does not undo it; all
  devices agree in the end.
* Month figures: a closed month is frozen; its figures add up, count the month's entries and are those of the
  dashboard; reports that sum the same rows agree.
* Scheduler: one run at a time; success is reported only for what the server has or has refused; every
  change a pull leaves is sent; signing out loses nothing and leaves nothing running.
* Sessions: only a lost answer makes a device look like a thief; a revoked family stays revoked;
  a family has one usable token; a stored token is good unless something happened to it.
* Households: a user has one at most, and gets into it by founding it or by an unused
  invitation; no member loses the household's data.

## 2. The modules

### `EntrySync` - one entry between the devices and the server

Entries are validated one by one and independently, so the module follows one entry id.
The server has its row (`entry`: content, deleted or not, version) and the `closed` months.
A device has its row (`local`), the queued insert (`queue`), and where its sync stands (`pc`,
`reply`, `pulled`). `net` holds the posts the server has not answered; a post's `plan` is the
write decided in phase one. `edit` is a history variable: `clean`, `unsent`, `sent` with a push, or
`decided` by the server.

| Action | Code |
|---|---|
| `AddEntry`, `UpdateEntry`, `SoftDelete` | `AddEntryUseCase.execute`, `updateEntry`, `EntryDao.softDelete` |
| `StartSync`, `PostInsert`, `InsertAnswered` | the queue loop of `syncAllQueue` |
| `PostTable`, `PostTableWithoutEntry`, `TableAnswered` | the push, its success and its catch block |
| `PullData`, `ApplyPull` | `pullData` on the server; `pullFromServer`, live rows, then deletions |
| `AbandonSync` | the timer, a cancellation, a failed pull, the application dying |
| `ValidateBatch`, `ValidateWithoutWrite` | `validateBatch`; `Unchanged`, `InClosedMonth`, `Stale`, `Revives` are its tests, in its order |
| `ApplyBatch`, `ApplyCollides` | `applyBatch`, and the primary key refusing a second create |
| `LoseRequest`, `LoseReply` | the network; a transaction rolled back by another record of the batch |
| `CloseMonth`, `ReopenMonth` | the status the closed-month guard reads |

A date has milliseconds in the queued insert and on the server, and whole seconds in the local table and in what the table push
sends: `fine` says of a row whether its date has a part below the second. `AddEntry` queues the row with it and stores it without; a pull
stores it without (`Truncated`); `Unchanged` compares it. So the first table push of an entry just added is no
repetition to the server: it writes the row once more, with the date cut off.

Requests overlap freely, those of two devices and those of one device that gave the first up. A post's `late` says what has happened since its plan was made:
`written`, the row was written by another; `closed`, a month it touches was closed. `issued` is the highest version there has
been; `raced` is set once a late write has replaced a row its decision did not see. The properties use them to say exactly which promise which late write breaks,
and hold in full as long as none has. `EditMidSync` says whether the user may edit while a sync runs; only the run `edit_lost` forbids it, to
show that the loss it is about needs no such edit. `MaxFailures` bounds lost requests, lost answers and abandoned runs, `MaxClosed` the months closed at a time.

Abstractions: a content stands for all columns that `isUnchanged` compares, so two contents
differ in some column; of `deletedAt` only whether it is null is kept. Category, account and
card ownership checks depend on other tables and would refuse an entry like a closed month. A
device and the server have the same UTC offset (see hazard at `entries.service.ts:144`). The
pull reads the row in one step. A created row is at version 1 because all callers send 1.

### `EntryRegister` - what the server promises of an entry

The abstract specification: a register whose writes are numbered, that is not revived and that
stands still while its month is closed. Decisions are made before they are carried out: `overtaken` says by what those still to come have been
overtaken, and `WriteAfterClose` and `LateWrite` are their writes, which need not respect the close, or the number and the deletion. After
a late write (`raced`) a number no longer names one value, and `Write` promises only that it grows. `EntrySync` implements it (`ImplementsRegister`;
`entry`, `closed` and `raced` mean the same in both, `overtaken` is what the posts in `net` say, everything else is hidden).

### `TableSync` - the twelve other tables

A device has its rows (`local`), the categories it archived (`hidden`, as a category is archived and not removed),
the deletions in its queue (`dels`) and its run. The server has `row`, `archived` and `tombs`. What a row
says is the number of the user change it results from, which makes "older" and "newer" meaningful
although the code keeps no version. `gone` and `slipped` are history variables: the deletions a device took from a pull, and the
categories whose deletion came between the two queries of one.

| Action | Code |
|---|---|
| `Create`, `Edit`, `Delete` | the screens; `enqueueDelete` with the removal of the row |
| `DeleteUnqueued` | the Budget screen, which archives a category and queues nothing |
| `ReadTables`, `Send` | the reading of the tables and, after it, of the queue; the post |
| `ValidateBatch` | phase 1 of `syncBatch`: `BatchAllowed` (`assertBatchOwnership`), `Doomed` (`validateDeletions`), `AccountTargets`, `BudgetTarget` (the merging of accounts by name, of budgets by cell), `Puts` (which passes over tombstones, system categories and known categories), `MissingCards` |
| `ApplyBatch`, `BatchFails` | phase 2, one transaction: `applyValidatedDeletions`, then the upserts; a write that fails rolls all of it back |
| `Lose`, `Answered`, `Stop` | the network and the timer; the deletions marked synced |
| `PullFirst`, `PullSecond`, `PullCategories`, `PullTombstones` | `pullData`: two groups of queries one after the other, and of the third the queries for categories and for tombstones, which run side by side and so in either order |
| `ApplyPull`, `PullFails` | `pullFromServer`'s transaction, and a local constraint that rolls it back |

Records differ by kind (`KindOf`), as far as the code treats kinds differently: parts with a parent,
budgets with a cell, accounts with a name, categories that are archived, the system categories each device has of its own. Which record of a name is
found first is left open. A card transaction without its card gets a placeholder card, a contribution or movement
without its goal or fund makes the batch forbidden. The tombstones of categories are not looked at by the device, as in the code. One household, so ownership is never the reason to refuse. Simplified: reading all tables is one
step, and so are a validation, a transaction and a local deletion; a device does not post
again before the server is done with its last request (an abandoned request that arrives late is
looked at in `EntrySync`); the category of a budget is on the server; tombstones are not pruned.

### `MonthStatus` - closing and reopening one month

The server's snapshot (status, and whether `statusChangedAt` was ever set), each device's
status, its single queue row, and the posts under way. Each user action has a number, so that the
model can tell which action a queue row or an answer belongs to; the code cannot. `Act` is the
screen's write, `Notify` the enqueue and post that follow, `NotifyAnswered` the end of the call;
`ReadQueue`, `ReplayPost`, `ReplayAnswered`, `PullRead`, `ApplyPull`, `RequeueClose` are a sync;
`PushFails` a sync whose push fails, which pulls without replaying. The initial states include
those an older version of the application left: the server open and never stamped, a device closed.

Nothing keeps the user waiting: an action may follow another at any time, with the posts of earlier ones, a replay or a pull under way. `standing` is a
history variable that says how a user's last action stands: `settled` once the server has accepted it, `open` until then,
`mixedUp` if the queue row that records it was marked for the answer to another action's post (`MarkSynced` finds the row by its id, which is the month's), or
was replaced by an older close that a pull had decided to queue again (`RequeueClose`).

### `MonthClose` - the books, and closing them

The rows of the household that figures are made of (`kept`, `settled`, `archived`, `balance`), the
snapshots, and the requests to close a month. `BeginClose`, `CountEntries`, `ReadSnapshots`, `ReadFunds`, `ReadAccounts` are the
queries of `closeMonth` with other requests in between. Its transaction is READ COMMITTED and has two steps: `WriteMonth` writes the month, whose row is locked from
then on (`Locked`), and reads whether the next one is closed; `Freeze` carries the figures into the next month if it was not (`Seed`, whatever that month is by now) and commits.
An entry is written in two steps too: `ValidateEntry` is the guard, `AddEntry` and `RemoveEntry` the write after it. `missed` and `flaws` are history variables: what a request
has not seen of what happened since it looked, and what a month got from such a request. `Waterfall`,
`Adjustments`, `ClosingReserve`, `ClosingBalance` are the engine's functions on paise. `Dashboard`,
`BudgetVsActual`, `Trends`, `YearlyRemaining`, `OwedOn`, `ClosingReserveOf` are the reports and
lists, each translated from its own code: that they agree with each other and with what is frozen is the point. What a fund
has left and what is owed on a card are worked out for each fund and card from the rows that refer to it, as the code does;
a row whose fund or card were gone would be in no report.

Of the constants the module assumes that the columns have their types, that a movement refers to a fund and a transaction to a card
(foreign keys), and that the rows the household starts with include what they refer to. A fund movement's
`type` is a plain string in the batch of `/sync/batch`; a movement that says neither contribution nor withdrawal counts nowhere, in the code and in
`Moved`, and no assumption excludes it.

Left out: inactive accounts and archived funds; budgeted amounts (which only format lines); an
entry's kind is that of its category. Amounts are integers: the server keeps paise as bigint and rounds what comes in.

### `SyncRunner` and `Outbox` - who runs the sync, and signing out

Changes are numbered. `changed`, `queued`, `stored` are the sets in the local database, in the
queue and on the server. `run` is the invocation of `syncAllQueue` that holds the lock; `loop` and `again` are
`_isSyncing` and `_hasPendingSync`; `session` follows `logout`. `before` remembers what was in the
database when the run started: that is what a success is taken to vouch for.

`Change` covers every screen, with or without a queue row. `Turn` is one round of the loop.
`DirectSync` is any other caller. A run goes `Drain`, `Push`, `Pushed`, `PullData`,
`Pulled`, with `PushFails`, `PullFails`, `TimeOut` and `Cancelled` on the way.
The server rules on each row of a batch by itself (`BatchArrives`): it stores it or adds it to `refused`, and the answer is a success in both cases. `Pulled`
replaces local rows whatever has happened to them since the push: any changes not in what was pulled may be undone, but for added entries, whose rows the
server does not have.
`PullNothing` is the early return of `pullFromServer` on a device that has signed out in the meantime.
Signing out is `Logout`, `Recount`, `Wipe`; a modal dialog excludes changes meanwhile, but not
the loop and not `Reconnect`. Left out: discarding unsynced changes on purpose, and the application being
killed.

`Outbox` is the abstract specification, without runs, locks, triggers or sessions: a user makes changes (`Make`), the server's copy grows (`Deliver`), changes are
reported once it has them or has refused them (`Report`), the server's rows replace local ones (`Replace`, and in `Report`), and the device is wiped only if no added
entry would be lost (`Wipe`). `SyncRunner` implements it (`ImplementsOutbox`; `here` is `changed`, `safe` is `stored`, `told` is `reported`). That edits may be undone
or wiped is part of it (see "Observed").

### `Sessions` - tokens and their renewal

One user with several devices. The server has the `refresh_tokens` rows (`row`, `family`), the
household claim of each access token and `users.household_id`. A device has what is in its secure
store (`app`) and its requests (`call`); `renewal` is the `/auth/refresh` a request started, with where its handler stands.

| Action | Code |
|---|---|
| `Check`, `EndFamily`, `Mark`, `Issue`, `Break` | `AuthService.refresh`, between whose statements others run |
| `Login`, `EnterHome`, `DissolveHome` | the requests that issue tokens, and what the device stores of the answer |
| `ServeLogout`, `RemovedFromHome`, `CleanUp`, `ExpireAccess`, `ExpireRefresh` | logout, `removeMember` by another user, the job, time |
| `Send`, `Serve`, `Lose`, `Renew`, `GiveUp`, `Renewed`, `NotRenewed`, `TimeOut` | the interceptor and `_attemptTokenRefresh` |
| `SignOut`, `Clear`, `Restart` | `_signOutSession` and its logout request, which passes through the same interceptor; the application being killed |

An access token and the refresh token issued with it share a number. A renewal ends `answered`, `refused` (the handler throws: the token, or the row to mark, is not
what it must be) or `broken` (a database call failed); the client treats the last two alike. `unheard`, `revoked` and `racing` are history variables.
Passwords and Google tokens are taken as verified; which member removes whom is in `Households`.

### `Households` and `Membership` - who belongs where

Every handler is a chain of statements, and in `Households` every write is a step, made by one of the
`Slots` of requests under way; `Abort` cuts any of them short. Where a handler reads several rows
before it writes, the reads are one step; what may change before the writes is what matters. `Register` is one transaction.
`EnsureHousehold` and `Seed` are what signing in and `findMe` do; `BeginCreate`, `Create`, `MoveIn`; `BeginInvite`,
`IssueCode`; `BeginJoin`, `Redeem`; `BeginRemove`, `Remove`; `BeginDissolve`, `Dissolve`; `BeginDelete`, `HandOver`, `CleanHome`,
`DeleteUser` are the others. `Referenced` is what foreign keys make of a deletion (`ON DELETE RESTRICT`).

`Membership` is the abstract specification: users found households, are invited and join by an
invitation that serves once, leave, and households dissolve with everybody out. `Households` implements it: `live`, `home`,
`invited` of `Membership` are computed from the tables.

Left out: the name of a household, e-mail addresses (and the race of two registrations for one),
a code's letters.

### How they fit together

`SyncRunner` says when a run happens and treats the data as a set; `EntrySync`, `TableSync` and
`MonthStatus` say what a run does to one entry, to the other rows and to one month, and let runs happen at any time.
The views meet in two facts. A device has at most one run (`TypeOK` of `SyncRunner`, the reason
`pc` and `run` in the others are one value per device), and runs keep happening (the fairness of the others). What `SyncRunner` leaves open - which rows a batch refuses, which changes a
pull undoes - the others decide.
`Sessions` takes from `Households` that a user's household changes at any time, with new tokens for who
asked for it and none for others. `MonthClose` has the guard of `EntrySync` on entries of a closed month, for many entries
at once, and keeps the frozen figures the statuses of `MonthStatus` belong to.

## 3. The runs

Run each with `tlc -config <cfg> <module>`; the cfg and the module are in `PROJECT.json`.

| Run | Bounds | Distinct states | Shows |
|---|---|---|---|
| `entry_all` | 2 devices, 2 contents in 2 months, 2 changes, also during a sync; 2 requests under way at a time, overlapping; 1 loss or abandoned run, 1 month closed at a time | 5.2 million | queue, versions, staleness, deletions, closed months; the refinement of `EntryRegister` |
| `entry_live` | 2 devices, 2 contents, 2 changes, overlap, no losses | 0.46 million | convergence |
| `month_all` | 2 devices, 2 actions at any time, 1 failure, 2 attempts | 1.0 million | the month properties |
| `runner_all` | 3 changes, 1 direct run, 1 failure, 1 refusal, 1 sign-out | 1.8 million | the scheduler's properties; the refinement of `Outbox` |
| `sessions_lossy` | 1 device, 2 requests out, 2 token pairs, 1 household, losses | 0.9 million | the session properties |
| `households_overlap` | 2 users, 2 households, 3 codes, limit 1, 2 requests at a time | 1.2 million | the refinement of `Membership`; the limit; nobody loses data |
| `tables_all` | 2 devices, 2 changes and any deletions, of: a bill, a category, a goal and a contribution, two budgets of a cell, two accounts of a name; beside a system category | 1.05 million | deletions and pushes hold |
| `books` | 3 months, 2 requests to close, 2 changes or reopenings, 13 rows of all tables | 0.26 million | figures and reports |
| `edit_lost` | 1 device, 2 changes, none during a sync; 1 loss | | violation: the pull after a failed push drops an edit |
| `sessions_family` | 1 device, 3 token pairs, 2 households, no losses | | violation: signed out with a good token |
| `households_delete` | 1 user, 1 household, 1 code | | violation: a household cannot be deleted |
| `tables_stale` | 2 devices, 1 record, 2 changes | | violation: an older row overwrites a newer |

**Why the bounds are enough to be worth something.**

* Entries. One device making an edit and one that has not heard of it is where versions matter; a third device only adds another stale copy,
  which the proofs cover. Two changes are create and edit, create and delete, on either device, at any moment. Two requests
  under way are the least that overlap; the abandoned request of a device counts, so a
  retry can overtake it. Late writes occur within these bounds: without the exceptions for them the run fails (see "Observed").
  `MaxAttempts` is 2 instead of 10: a refusal for a closed month counts as an attempt, so that exhaustion happens.
* Months. Two actions are the least that share a queue row, and either device may make them. The failures of `month_all` are fewer than the attempts. With as many, an exhausted queue row
  blocks the pulled status for ever and `StatusConverges` fails: `getPending` does not look at
  attempts (`sync_service.dart:1086`). That is listed as a hazard. The safety properties were also checked with three actions (13 million states).
* Scheduler. Three changes are one before the run, one during it and one after; one of each kind of disturbance, in any order.
* Sessions. Two requests out at once are what `_isRefreshing` is about. Two token pairs are one and its successor, so
  reuse, a revoked successor and a renewal racing a logout all happen; losses include a killed application. A household change uses up a pair:
  the device then presents its token with another family, the third of the reasons in `RefusedForCause` and the bug `sessions_family` shows; the property says there is no fourth.
* Households. Two requests are the least that overlap, two users the least that share a
  household; limit 1 makes the limit reachable with three codes. A third user or slot is covered by the proofs.
* Tables. The five casts bring together the kinds that interact. Two changes on two devices include one record
  created by one and edited by the other, or two records of one cell or name; deletions are not bounded.
* Books. Two months that can be closed and the one after, two closes at once: of the same month, of neighbours, with their transactions overlapping. Amounts
  are chosen so that no two sums of different rows agree. Two changes fall anywhere between the queries, and an entry's guard and write are two steps.
  Row changes and reopenings share the bound; with one reopening besides two changes (1.7 million states) the properties hold too.

Devices, slots, requests, and records of one cell or name are symmetric; no symmetry is used in the liveness runs. Deadlock is
checked except where the bounds let everything come to an end: nothing left to change and signed out, no token pairs left and signed out,
no household ids left and no accounts, all months closed and no change left. (The row locks of `MonthClose` make nobody wait in a circle: a transaction waits for a later month only.)

**Fairness.** `EntrySync`: strong fairness of each device's sync and of the server handling each device's
requests - every change, reconnection and refresh starts a sync, so a device that goes on being
used goes on syncing; strong, because the request limit of the model may block a post now and
then. Neither users nor losses are fair; `entry_live` has no losses, since a network that loses everything
lets nothing converge. `MonthStatus`: weak fairness of the device's next step and of the server. `SyncRunner`: weak
fairness of a run's steps and of the loop: the event loop of Dart goes on. Nothing is assumed of the user, of signing in, or
of the network coming back.

There is no liveness property of `TableSync`: devices with rows that have no versions need not agree
(`tables_stale`), and a device may be locked out for good (below). `Sessions` and `Households` promise nothing that must happen.

## 4. What was found

### Findings: runs that contradict the code's own words

1. `edit_lost`: the pull that follows a failed push replaces edits that never reached the server. In the run: `AddEntry`, `UpdateEntry`, a sync in which the
   queued insert stores the entry as it was added (`PostInsert`), the table with the edit is posted and lost (`PostTable`, `LoseRequest`), and the pull puts the old content back.
2. `sessions_family`: creating or joining a household stores the new family and access token but not the new refresh
   token. At the first 401 after that the device presents a token of another family, is refused and
   signs out, although the token is good. In the run: `Login`, `Send`, `EnterHome`, `Renew`, `Check`, `NotRenewed`.
3. `households_delete`: `deleteHousehold` leaves the household's invites, which reference it; once one was generated the
   deletion fails. In the run: `Register`, `BeginInvite`, `IssueCode`, `BeginDissolve`, `Dissolve`.
4. `tables_stale`: in every table but `entries`, a device's old copy overwrites a newer row of another.

### Observed: seen with the same models under other constants

Each of these is a behaviour of a model under the constants named, and of the code at the line named.

* An edit made while a sync runs is replaced by the pull at its end, without any failure
  (`sync_service.dart:952`): `EntrySync_edit_lost.cfg` with `MaxFailures = 0`, `EditMidSync = TRUE`.
* A change made while a direct run is under way triggers nothing (`sync_service.dart:303`): `ChangesArrive` of `SyncRunner`.
* Signing out wipes edits and deletions of entries that were not pushed, as they have no queue row
  (`auth_providers.dart:1108`): `WipeLosesNothing`.
* A run that the loop or a reconnection starts during signing out is not cancelled, and its pull
  fills the wiped database again (`auth_providers.dart:1121`): `SignedOutIsQuiet`.

The exceptions that properties name are behaviours too, and each is reached by the run that checks the property:

* `DeletionIsFinal`, `ImplementsRegister`: the version is compared before the transaction and not in it (`entries.service.ts:333`), so a write that another has
  overtaken undoes a deletion, or gives its number to a second value. One device suffices: a post it gave up, and the next.
* `ClosedMonthFrozen`: an entry let through by the guard (`entries.service.ts:154`) is written into a month closed since.
* `UnchangedCopyOnlyTruncates`: the first table push after an entry was added repeats it with its date cut to seconds (`entry_repository_impl.dart:234`, `sync_service.dart:594`,
  `entries.service.ts:58`), which takes a version though the user changed nothing. Overlapping the edit of another device it puts the old content back over it.
* `LatestActionKept`, `PullKeepsAction`: a reopen made while the close is in flight is marked synced by the answer to the close (`sync_service.dart:1200`); if its own post
  gets lost it is never sent, and a pull undoes it. A pull that has decided to queue a close again does so over a reopen made since (`sync_service.dart:1125`). `sync_queue_dao.dart:65` says
  the row "Records the latest local close/reopen of a month until the server has accepted it".
* `SuccessIsEarned`: a batch whose entries were refused for a closed month is answered with success and their number (`sync.service.ts:702`), which the client does not read; the
  user sees a successful sync, and the pull has put the server's row over the edit.
* `TriggeredChangesArrive`, `Outbox`: a change made between the push and the pull of a run is in the loop's next run only if the pull has left it (`sync_service.dart:952`).
* `GoneStaysGone`: categories and tombstones are read by two queries side by side (`sync.service.ts:781`), and the device ignores the tombstones of
  categories (`sync_service.dart:1076`): a category deleted between the two shows up again until the next pull.
* `PushedIsKept`: a device's system categories are passed over (`sync.service.ts:57`, `:92`), neither stored nor refused.
* `FrozenMonthKept`, `FrozenFiguresAddUp`: two closes of neighbouring months. The earlier month's transaction finds the later one open (`months.service.ts:169`), the later one commits, and the
  first then writes opening and reserves of the closed month (`:176`), whose remainder no longer is that of its figures. The comment between the two lines says "A closed month is frozen and must never be
  mutated by re-closing an earlier month".
* `FrozenCountsItsEntries`: an entry written between the count and the freeze, or let through before the close and written after it, is in the month and not in its figures.

Seen in the behaviours of the models without contradicting a property they state:

* Sessions. A second request refused while the first renews finds `_isRefreshing` set, and signs a good session out
  (`auth_providers.dart:193`, action `GiveUp`); so does a renewal slower than eight seconds, whose answer is then not stored.
  The logout request passes through the same interceptor, so with an expired access token it renews, or signs out within
  signing out. A renewal past its check when the logout comes puts a usable row back (`auth.service.ts:243`); a renewal answered after
  the tokens were cleared stores tokens again. Two renewals of one token that overlap both succeed.
* Month status. A close or reopen whose answer was lost, or whose first post is still on its way, is posted again (`sync_service.dart:1260`). If the
  other device has acted in between, the second delivery undoes that action on the server: the endpoints know no versions (`months.service.ts`).
* Households. `deleteAccount` of a sole member never removes the household: the user still references it, and
  the error is swallowed (`users.service.ts:88`), though PostgreSQL rolls back the clean-up with it. `removeMember` updates by id alone, so a
  member who has meanwhile joined elsewhere is taken out of there (`households.service.ts:423`). An owner who joins or creates another household leaves members nobody can
  manage. `findMe` and signing in create a deleted household again (`households.service.ts:252`). `create` cut short leaves a household without members.
* Tables. A budget cleared and set again before the next push makes the transaction fail for ever (`sync.service.ts:615`, `BatchFails`).
  Two devices that set the budget of one cell: the pull of one violates the local uniqueness, and fails for ever (`PullFails`).
  A row and its deletion in one batch leave the row beside its tombstone; devices that know the tombstone do not show it. Once the tombstone is
  pruned (`cleanup.service.ts:67`) it comes back. The Budget screen archives a category without queueing the deletion, and the next pull brings it
  back (`budget_screen.dart:970`, `:1232`, action `DeleteUnqueued`). A category created and deleted before its first push has no tombstone and comes back (`settings_screen.dart:509`).
* Books. Two closes of one month both find it open, and the second freezes it again (`months.service.ts:60`). A close of the month after
  that has read its opening before writes stale figures over the rollover.
  Closing a month whose predecessor is only a placeholder opens it with 0. The budget report omits archived categories, so its lines need not sum to the month's spending.

## 5. What is proved

Eight modules hold proofs: seven of a component each, and `Sums`, the lemmas on sums they share. Each theorem holds for every value of the constants that satisfies the
named assumptions of the module - these say what sort of values the constants are and nothing of the order in which things happen: any devices, contents, records, users, codes, months, bounds.

| Module | Theorem | Says |
|---|---|---|
| `EntrySync_proofs` | `TypeCorrect` | `TypeOK` |
| | `QueueIsHonest` | an insert marked synced is stored |
| | `SuccessIsSafe` | only the pull after a failed push replaces a pushed, unruled change |
| | `OnlyServerNumbers` | no copy bears a version the server has not stored |
| | `FullPushIsHarmless` | unchanged copies write nothing but the date without its fraction, as long as no late write has happened |
| | `DeletedForGood` | deletions stay, but for late writes and copies these left ahead |
| | `ClosedIsClosed` | closed months stand still, but for writes decided before |
| | `ServerImplementsRegister` | `EntrySync` refines `EntryRegister`, with all overlaps: versions count the writes, but for late ones |
| `SyncRunner_proofs` | `RunnerTypes` | `TypeOK`, with it that the caller that waits owns the one run |
| | `ReportedIsStored` | what is reported as synced is stored or was refused |
| | `LogoutKeepsAdded` | signing out wipes no added entry the server lacks |
| | `OutboxKept` | `SyncRunner` refines `Outbox` |
| `MonthStatus_proofs` | `MonthTypes` | `TypeOK` |
| | `ActionKept` | the last action stays queued until accepted, unless mixed up with another |
| | `PullNeverUndoes` | no pull undoes an action not accepted, unless it was mixed up |
| `Sessions_proofs` | `SessionTypes` | `TypeOK` |
| | `RevokedForGood` | a revoked family stays revoked, but for a renewal under way |
| | `ReuseForCause` | a device is taken for a thief only after an answer to it was lost |
| | `StoredTokensAreGood` | a stored token is usable unless something happened to it |
| | `OneTokenPerFamily` | a family has one usable token, unless an answer was lost |
| | `RefusalsForCause` | a renewal is refused only for an expired token, a revoked family or a wrong one |
| `Households_proofs` | `HouseholdsInvariant` | the inductive invariant below |
| | `HouseholdTypes` | `TypeOK` |
| | `DataKept` | no member loses the household's data |
| | `CodesLimited` | the limit is passed by fewer than the requests under way |
| | `MembershipKept` | `Households` refines `Membership` |
| `TableSync_proofs` | `TableTypes` | `TypeOK` |
| | `AllowedForEver` | no batch is refused for a part without parent |
| | `TombstoneForEach` | a row leaves the server only for a tombstone |
| | `BatchesAreKept` | what is reported stored is there, deleted or merged, system categories apart |
| | `DeletedForGood` | a deletion taken from a pull holds on that device, but for a category that slipped through |
| `MonthClose_proofs` | `FrozenStays` | closed months change only by being reopened or closed themselves, and in what a close that missed theirs carries in |
| | `FrozenAddsUp` | what is frozen adds up, unless such a close wrote its opening |
| | `FrozenCounts` | what is frozen counts the month's entries, but for those written after the count |
| | `BooksTypes` | `TypeOK` |
| | `ClosingShown` | each figure a close works out is the one the dashboard shows |
| | `ReportsAlwaysAgree` | the reports agree with each other and with the rows |

**`EntrySync`** has three inductive invariants; the second and the third are each built on the first.

* `TypeInv`: `TypeOK` and `DueWhilePosting`. The attempt counter stays in range only because an insert
  being posted is one that was due, which the second conjunct carries through the wait.
* `SyncInv`: an answer is there only for a device that waits (`ReplyAwaited`); a request its sender
  still waits for is the only one of that device (`LiveAwaited`); "synced" means the server has the row
  (`SyncedIsStored`); a change counts as sent only until the answer to its push (`AnsweredIsDecided`,
  `NothingToEdit`). `SyncedInsertIsStored` and `SuccessNeverDropsPushedEdit` are not inductive without
  it: the answer is sent in one step and acted on in another, and the sender may have given up in between.
* `VersionInv`: the stored row's number is one that has been issued, and every row anywhere has one (`Numbered`, `RowsKnown`), whatever overlaps; the local table knows no fractions
  of a second (`TableTruncated`). A plan that no write has overtaken is still the one that would be made now, but for closes (`PlansHold`): whatever overtakes a plan marks it `late`
  in the same step, so this needs no bound on the requests under way. As long as no late write has happened, what a device has pulled, and what it has not changed
  since, is the server's row, to the second, or an older one (`PulledFresh`, `CleanFresh`).

The step of each invariant has one case per action. `RegisterStep` shows that under `VersionInv` each
step is a step of the register or leaves it alone - applying a plan is a `Write`, a `WriteAfterClose` or a `LateWrite` by its mark; the theorems on versions, deletions and closed
months follow from the same invariant.

**`SyncRunner`**: `RunnerInv` says that nothing carries a change not yet made (`OnlyMade`; a new number
could otherwise be reported already); that what was in the database when the run started, and has not
been wiped or undone since, is in the table being pushed and, after the answer, on the server or refused (`RunCarries`); that
an added entry the server lacks is in the queue (`QueueHoldsUnstored`); and that the data is only
marked for wiping when the queue is empty (`WipeOnlyEmptied`). The steps that do not move a run on
share one lemma, `RunKept`, and the steps that end it another case: both say that the database gains
only changes made after the start of the run, whatever interleaves. `OutboxStep` needs the same invariant: `RunCarries` makes the end of a run a
`Report`, and `QueueHoldsUnstored` with `WipeOnlyEmptied` makes signing out a `Wipe`; all other steps deliver, make a change, or are none of
its business.

**`MonthStatus`**: `TypeInv` adds to the types that a sync about to post holds a row, and that the row
it waits about can count one more attempt. The row may be replaced during the wait, and the close
requeued by a pull is posted without looking at its attempts, so this needs `MaxAttempts # 0`.
`KeptInv` is the one for the queue: whatever a device holds, has queued or has posted bears a number its user's actions have reached (`NothingAhead`);
a post the server has accepted and that bears the last action's number has settled that action (`AcceptedSettled`); and `LatestActionKept`. Marking a row for
a post that is done therefore either is right, as post and row have one number, or marks another action's row, and then `MixUp` has said so in the same step (`MarkKeeps`).

**`Sessions`**: a family is named by its first token, so a new token could land in a family revoked before it existed unless nobody
names a family early: `Known` bounds every family anybody names by `issued`, and `Flight` says that a renewal in flight has a real
token. `Races` is the heart: a renewal past its check belongs to a family not revoked, or to one that was revoked while a renewal
was under way. `Issue` is the only step that makes a row of an old family usable, and `Races` is what it needs.

`Custody` is the invariant behind the two theorems on stored tokens. A token is used by the renewal that marks it, and what is to be shown is
that nobody presents it afterwards who has not lost an answer; but between the mark and the storing of the answer lie three steps in which
the store still holds the used token, other requests fail, and the user may sign out. So it follows a token wherever it is: no token is held by two
devices, in a store or a renewal (`Owned`); a device waits for one renewal at a time (`Waiting`, this is `_isRefreshing`,
`auth_providers.dart:192`); a renewal that has not marked its own token presents one that is unused or whose answer was not heard (`InFlight`); the token in an answer is new to everybody
(`Delivered`); a stored token that is used is the one being renewed (`Stored`); a row that is missing was old or of a revoked family (`Gone`). Without `Owned` the step of one device
could use up the token of another; without `Delivered` storing an answer could store a used one. Most steps issue and mark nothing and share one lemma, `CalmKeeps`;
marking, issuing, starting and storing a renewal have one each.

`Chain` gives `OneTokenPerFamily`. `refresh` checks a token, marks it and issues the next in three statements, so two usable tokens of a family could
come from two renewals of one token, or from one that a new token overtakes. `Heir` follows the family through the middle: while a renewal that has marked
its token is about to issue, the family has no usable token and no second such renewal, or an answer of the family was lost. Marking keeps this since,
by `Custody`, a renewal that marks a token already used presents one whose answer was not heard; issuing keeps it since `Named` ties
a renewal past its check to its token's family, and `Known` makes a new family empty (`Vacant`). `Causes` gives `RefusalsForCause`: by `Gone`
a missing row has its reason, a detected reuse revokes the family it refuses, and a cause stays one.

**`Households`**: `IInv`. `Numbered`: no table and no request names a household before its id is drawn; `Invited`: a code keeps its household, and a
request to join goes where its code leads, though code and household were read before the transaction; `EmptyUntilMoved`: only who creates a household knows it
before moving in, which makes `MoveIn` of `Membership` possible; `Named`: requests name users and households that exist in their step. The refinement has one lemma per
action. `CodesLimited` needs a sum: outstanding codes and requests that have counted and will add one, together, stay under the limit
plus the slots (`WithinSlots`).

**`TableSync`**: `WholeInv` (whoever has a part has its parent, in a local database and in a batch) gives `AllowedForEver`. `ServerInv` says what a plan may still rely on when
its transaction comes: the tombstones it saw are still there, its categories too, and every row of the batch is to be written, was deleted, is a category the server has,
or a system category (`PlanInv`); tombstoned categories are archived and stay. `BornInv`: nothing carries a record that was not created; no card is ever made up, as
a batch is whole. `GoneInv` with
`PullInv`: a pull that has read the tombstones knows every deletion its device has taken before, as the device has one pull at a time and the server's tombstones only grow; and once
it has read the categories too, each category deleted by then is among those it brings as archived, or has slipped through (`Brought`, `slipped`), in whichever order the two were read. Applying it therefore shows
nothing deleted but what has slipped: the things `DeletedForGood` rests on.

**`MonthClose`**: `BooksInv` has these parts. `TypeOK` has requests be about months that have a next one, and all figures be numbers. `Whole` says that a
movement's fund and a transaction's card are there, which holds as nothing removes them and a part is added only beside its parent (`AddPart`).
`PendingInv`: an entry still `valid` to be written is of an open month. `SeedsInv`: a request about to seed a closed month has missed its close. `CountsInv`: what a request has
counted is what there is, unless it has missed entries. With these, `FrozenFiguresAddUp` and `FrozenCountsItsEntries` are inductive. The first holds although openings change under a close that
is under way, since the waterfall is computed from the very figures frozen (`SnapshotAddsUp`); seeding changes nothing but what is carried in (`SeedKeeps`), and by `SeedsInv` it does so to a closed month only
where the exception says so. The second holds because a request that commits has counted all there is or has missed entries (`CountsInv`), and because a write that comes after the close
was let through before it (`PendingInv`). `FreezeWrites` says what a commit does to each month, and `FrozenStays` follows from it. `ReportsAlwaysAgree` needs `Whole`: summing each card's transactions card by card
gives the sum of all transactions only if each belongs to a card that is kept. Cards' transactions, funds' movements and
the budget report's lines are uses of one lemma: grouping rows by a key and adding up the groups adds up the rows (`SumByKey`).
`ClosingShown` compares each query of `closeMonth` with the dashboard's own expression in the state the query reads.

**`Sums`** gives the lemmas these need: the sum over a finite set of integers exists and is an integer, taking one element away subtracts its value, disjoint
sets add up, equal functions have equal sums, and `SumByKey`. `SumFunctionOnSet` is a fold, defined by a recursive function on sets, and the library's induction
theorems take the statement to be shown as an operator parameter, which the provers cannot instantiate. The induction is therefore done with sets: the
subsets for which a statement fails form a set; were it not empty, it would have a member with no smaller one in it, strict inclusion being well-founded on the subsets of
a finite set (`WFMin`, `FS_StrictSubsetOrderingWellFounded`); `SubsetInduction` and `NumberInduction` say this once, of a set of subsets or numbers, and each lemma
names the set of those for which it holds.

## 6. What is only model-checked

* Liveness: `DevicesConverge`, `ServerRowSettles`, `StatusConverges`, `TriggeredChangesArrive`. Fairness and ENABLED are beyond the prover.
* All other properties the passing runs check, invariants and action properties and the three refinements, are theorems of section 5.
* The runs that show a violation are counterexamples on small instances and need no proof.

## 7. What is not modelled

* Account balances and linked entries on the device (`account_dao.dart`, `borrow_lend_dao.dart`): a balance is recomputed from local entries and replaced by the pull.
  Editing a receivable rewrites its linked entry with version 1 (`borrow_lend_dao.dart:63`), so its later changes are refused as stale; that is the version rule `EntrySync` has, applied to a writer it does not have.
* Dates at different UTC offsets (hazard at `entries.service.ts:144`); the models assume equal offsets.
* Pruning of tombstones by age: `GoneStaysGone` presumes that a device syncs within 90 days.
* Ownership checks between households (`assertBatchOwnership`, the services): one household is modelled, in which they never refuse.
* Budgets, reserve lines and annual targets beyond their sync; they enter no figure that is frozen.
* The engine's copy in the application, screens, dashboards, the guest mode and its migration, configuration, logging and platform code: presentation, or nothing that interleaves.
