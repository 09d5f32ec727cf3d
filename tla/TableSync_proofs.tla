---------------------------- MODULE TableSync_proofs ----------------------------
(***************************************************************************)
(* The properties of TableSync for any devices, records and number of      *)
(* changes.  The type invariant comes first, then an invariant of what the *)
(* devices hold, then one of the server's tombstones and of the runs under *)
(* way, each proved with the help of those before it.                      *)
(***************************************************************************)
EXTENDS TableSync, TLAPS

RunType == [at : Steps, batch : Batch, plan : Plans, pull : Pulled]

\* A run made of typed parts is typed.
LEMMA RunIsTyped ==
  ASSUME NEW step \in Steps, NEW batch \in Batch, NEW plan \in Plans, NEW pull \in Pulled
  PROVE  Run(step, batch, plan, pull) \in RunType
BY DEF Run, RunType

\* Nothing sent, planned or pulled is typed too.
LEMMA EmptyIsTyped ==
  NoRows \in Rows /\ NoBatch \in Batch /\ NoPlan \in Plans /\ NoPull \in Pulled
<1>1. NoRows \in Rows
  BY DEF NoRows, Rows
<1>2. NoPlan \in Plans
  BY DEF NoPlan, Plans, Stays
<1> QED BY <1>1, <1>2 DEF NoBatch, Batch, NoPull, Pulled

\* So is a run that carries nothing.
LEMMA AtIsTyped ==
  ASSUME NEW step \in Steps
  PROVE  At(step) \in RunType
BY RunIsTyped, EmptyIsTyped DEF At

\* A step that gives one device's run a typed value and leaves the rest alone.
LEMMA RunStepTyped ==
  ASSUME TypeOK, NEW d \in Devices, NEW r \in RunType, run' = [run EXCEPT ![d] = r]
  PROVE  run' \in [Devices -> RunType]
BY DEF TypeOK, RunType

\* Each part of a run has its type.
LEMMA RunHasType ==
  ASSUME TypeOK, NEW d \in Devices
  PROVE  /\ run[d].at \in Steps
         /\ run[d].batch \in Batch /\ run[d].batch.rows \in Rows
         /\ run[d].batch.del \in SUBSET Deletable
         /\ run[d].plan \in Plans
         /\ run[d].pull \in Pulled /\ run[d].pull.rows \in Rows
         /\ run[d].pull.archived \in SUBSET Categories
         /\ run[d].pull.tombs \in SUBSET Deletable
<1>1. run[d] \in [at : Steps, batch : Batch, plan : Plans, pull : Pulled]
  BY DEF TypeOK
<1> QED BY <1>1 DEF Batch, Pulled

\* A plan writes and deletes records.
LEMMA PlanForTyped ==
  ASSUME TypeOK, NEW b \in Batch, NEW found \in [Accounts -> Accounts]
  PROVE  PlanFor(b, found) \in Plans
<1>1. Doomed(b) \in SUBSET Deletable
  BY DEF Doomed, Batch
<1>2. \A r \in Budgets : BudgetTarget(r) \in Records
  BY DEF BudgetTarget, SameCell, Stored, Present, Budgets, OfKind
<1>3. \A r \in Accounts : found[r] \in Records
  BY DEF Accounts, OfKind
<1>4. Puts(b) \subseteq Records
  BY DEF Puts, Present
<1>5. MissingCards(b) \subseteq Records
  BY PartsHaveParents DEF MissingCards, CardParts, Parts, OfKind
<1> QED BY <1>1, <1>2, <1>3, <1>4, <1>5 DEF PlanFor, Plans, TypeOK

\* What a plan leaves after its deletions are rows.
LEMMA AfterDeletionsTyped ==
  ASSUME TypeOK, NEW p \in Plans
  PROVE  AfterDeletions(p) \in Rows
BY DEF AfterDeletions, TypeOK, Rows

\* A plan writes some content for each record, or none.
LEMMA WrittenTyped ==
  ASSUME TypeOK, NEW b \in Batch, NEW p \in Plans, NEW r \in Records
  PROVE  /\ Written(b, p, r) # {}
         /\ Written(b, p, r) \subseteq Contents \union {NoRow}
<1> DEFINE onto == {s \in p.puts : p.target[s] = r}
<1>1. CASE onto = {}
  <2>1. Written(b, p, r) \in {{0}, {AfterDeletions(p)[r]}}
    BY <1>1 DEF Written
  <2>2. 0 \in Contents
    BY ContentsAssumption DEF Contents
  <2> QED BY <2>1, <2>2, AfterDeletionsTyped DEF Rows
<1>2. CASE onto # {}
  <2>1. Written(b, p, r) = {b.rows[s] : s \in onto}
    BY <1>2 DEF Written
  <2>2. \A s \in onto : b.rows[s] \in Contents \union {NoRow}
    BY DEF Plans, Batch, Rows
  <2> QED BY <1>2, <2>1, <2>2
<1> QED BY <1>1, <1>2

\* What a transaction leaves in the tables.
LEMMA ApplyBatchRow ==
  ASSUME TypeOK, NEW d \in Devices, ApplyBatch(d)
  PROVE  /\ row' \in Rows
         /\ \A r \in Records : row'[r] \in Written(run[d].batch, run[d].plan, r)
<1> DEFINE b == run[d].batch
           p == run[d].plan
<1>1. PICK last \in [Accounts -> Contents \union {NoRow}] :
        /\ \A a \in Accounts : last[a] \in Written(b, p, a)
        /\ row' = [r \in Records |-> IF r \in Accounts THEN last[r]
                                     ELSE CHOOSE c \in Written(b, p, r) : TRUE]
  BY DEF ApplyBatch
<1>2. b \in Batch /\ p \in Plans
  BY RunHasType
<1> HIDE DEF b, p
<1>3. \A r \in Records : row'[r] \in Written(b, p, r)
  BY <1>1, <1>2, WrittenTyped
<1>4. \A r \in Records : row'[r] \in Contents \union {NoRow}
  BY <1>2, <1>3, WrittenTyped
<1>5. row' = [r \in Records |-> row'[r]]
  BY <1>1
<1> QED BY <1>3, <1>4, <1>5 DEF b, p, Rows

-----------------------------------------------------------------------------

\* The types hold at first.
LEMMA TypeInitially == Init => TypeOK
<1> SUFFICES ASSUME Init PROVE TypeOK
  OBVIOUS
<1>1. At("idle") \in RunType
  BY AtIsTyped DEF Steps
<1>2. run \in [Devices -> [at : Steps, batch : Batch, plan : Plans, pull : Pulled]]
  BY <1>1 DEF Init, RunType
<1>3. 0 \in Contents
  BY ContentsAssumption DEF Contents
<1>4. local \in [Devices -> Rows] /\ row \in Rows
  BY <1>3, EmptyIsTyped DEF Init, Rows
<1>5. born \subseteq Records
  BY SystemCategoriesAssumption DEF Init, Categories, OfKind
<1> QED BY <1>2, <1>4, <1>5, ContentsAssumption DEF Init, TypeOK

\* A user's change keeps the types.
LEMMA UserTyped ==
  ASSUME TypeOK, NEW d \in Devices, NEW r \in Records,
         Create(d, r) \/ Edit(d, r) \/ Delete(d, r) \/ DeleteUnqueued(d, r)
  PROVE  TypeOK'
<1>1. local[d] \in Rows
  BY DEF TypeOK
<1>2. CASE Create(d, r) \/ Edit(d, r)
  <2>1. changes' \in 0..MaxChanges /\ changes' \in Contents
    BY <1>2, ContentsAssumption DEF Create, Edit, TypeOK, Contents
  <2>2. [local[d] EXCEPT ![r] = changes'] \in Rows
    BY <1>1, <2>1 DEF Rows
  <2>3. local' \in [Devices -> Rows]
    BY <1>2, <2>2 DEF Create, Edit, TypeOK
  <2>4. born' \subseteq Records
    BY <1>2 DEF Create, Edit, TypeOK
  <2> QED BY <1>2, <2>1, <2>3, <2>4 DEF Create, Edit, TypeOK, serverVars, history
<1>3. CASE Delete(d, r)
  <2>1. dels' \in [Devices -> SUBSET Deletable]
    BY <1>3 DEF Delete, TypeOK
  <2>2. hidden' \in [Devices -> SUBSET Categories]
    BY <1>3 DEF Delete, TypeOK
  <2>3. [local[d] EXCEPT ![r] = NoRow] \in Rows
    BY <1>1 DEF Rows
  <2>4. local' \in [Devices -> Rows]
    BY <1>3, <2>3 DEF Delete, TypeOK
  <2> QED BY <1>3, <2>1, <2>2, <2>4 DEF Delete, TypeOK, serverVars, userVars, history
<1>4. CASE DeleteUnqueued(d, r)
  <2>1. hidden' \in [Devices -> SUBSET Categories]
    BY <1>4 DEF DeleteUnqueued, TypeOK
  <2> QED BY <1>4, <2>1 DEF DeleteUnqueued, TypeOK, serverVars, userVars, history
<1> QED BY <1>2, <1>3, <1>4

\* Steps that change a device's run only.
LEMMA RunOnlyTyped ==
  ASSUME TypeOK, NEW d \in Devices, NEW r \in RunType, run' = [run EXCEPT ![d] = r],
         UNCHANGED <<serverVars, deviceVars, userVars, history>>
  PROVE  TypeOK'
<1>1. run' \in [Devices -> RunType]
  BY RunStepTyped
<1> QED BY <1>1 DEF TypeOK, RunType, serverVars, deviceVars, userVars, history

\* What a pull reads is typed, and comes from the server.
LEMMA ReadingSound ==
  ASSUME TypeOK, NEW pull \in Pulled, NEW tables \in SUBSET Records
  PROVE  /\ Reading(pull, tables) \in Pulled
         /\ Reading(pull, tables).archived = pull.archived
         /\ Reading(pull, tables).tombs = pull.tombs
         /\ Present(Reading(pull, tables).rows) =
              (Present(pull.rows) \ tables) \union (Stored \intersect tables)
<1>1. Reading(pull, tables) =
        [rows |-> [r \in Records |-> IF r \in tables THEN row[r] ELSE pull.rows[r]],
         archived |-> pull.archived, tombs |-> pull.tombs]
  BY DEF Reading, Pulled
<1> QED BY <1>1 DEF Pulled, Rows, TypeOK, Present, Stored

\* The tables of each group are of records.
LEMMA GroupsAreRecords ==
  FirstGroup \subseteq Records /\ Categories \subseteq Records
    /\ Records \ (FirstGroup \union Categories) \subseteq Records
BY DEF FirstGroup, Categories, OfKind

\* So is what the two queries of the last group add.
LEMMA LastGroupSound ==
  ASSUME TypeOK, NEW pull \in Pulled
  PROVE  LET cats == [Reading(pull, Categories) EXCEPT !.archived = archived]
             full == [pull EXCEPT !.tombs = tombs] IN
         /\ cats \in Pulled /\ cats.archived = archived /\ cats.tombs = pull.tombs
         /\ Present(cats.rows) =
              (Present(pull.rows) \ Categories) \union (Stored \intersect Categories)
         /\ full \in Pulled /\ full.tombs = tombs
         /\ full.archived = pull.archived /\ full.rows = pull.rows
<1> DEFINE mid == Reading(pull, Categories)
<1>1. /\ mid \in Pulled /\ mid.tombs = pull.tombs
      /\ Present(mid.rows) =
           (Present(pull.rows) \ Categories) \union (Stored \intersect Categories)
  BY ReadingSound, GroupsAreRecords
<1> HIDE DEF mid
<1>2. /\ [mid EXCEPT !.archived = archived] \in Pulled
      /\ [mid EXCEPT !.archived = archived].archived = archived
      /\ [mid EXCEPT !.archived = archived].tombs = mid.tombs
      /\ [mid EXCEPT !.archived = archived].rows = mid.rows
  BY <1>1 DEF Pulled, TypeOK
<1>3. /\ [pull EXCEPT !.tombs = tombs] \in Pulled
      /\ [pull EXCEPT !.tombs = tombs].tombs = tombs
      /\ [pull EXCEPT !.tombs = tombs].archived = pull.archived
      /\ [pull EXCEPT !.tombs = tombs].rows = pull.rows
  BY DEF Pulled, TypeOK
<1> QED BY <1>1, <1>2, <1>3 DEF mid

\* A step of a sync, or of what stops it, keeps the types.
LEMMA SyncTyped ==
  ASSUME TypeOK, NEW d \in Devices, Sync(d) \/ Lose(d) \/ Stop(d)
  PROVE  TypeOK'
<1> USE RunHasType, EmptyIsTyped
<1>1. CASE ReadTables(d)
  <2>1. Run("read", [rows |-> local[d], del |-> {}], NoPlan, NoPull) \in RunType
    BY RunIsTyped DEF Steps, Batch, TypeOK
  <2> QED BY <1>1, <2>1, RunOnlyTyped DEF ReadTables
<1>2. CASE Send(d)
  <2>1. Run("sent", [rows |-> run[d].batch.rows, del |-> dels[d]], NoPlan, NoPull) \in RunType
    BY RunIsTyped DEF Steps, Batch, TypeOK
  <2> QED BY <1>2, <2>1, RunOnlyTyped DEF Send
<1>3. CASE ValidateBatch(d)
  <2>1. PICK found \in [Accounts -> Accounts] :
          run' = [run EXCEPT ![d] =
                   Run("planned", run[d].batch, PlanFor(run[d].batch, found), NoPull)]
    BY <1>3 DEF ValidateBatch
  <2>2. Run("planned", run[d].batch, PlanFor(run[d].batch, found), NoPull) \in RunType
    BY RunIsTyped, PlanForTyped DEF Steps
  <2> QED BY <1>3, <2>1, <2>2, RunOnlyTyped DEF ValidateBatch
<1>4. CASE ApplyBatch(d)
  <2>1. Run("written", run[d].batch, NoPlan, NoPull) \in RunType
    BY RunIsTyped DEF Steps
  <2>2. run' \in [Devices -> RunType]
    BY <1>4, <2>1, RunStepTyped DEF ApplyBatch
  <2>3. run[d].plan.doomed \subseteq Deletable
    BY DEF Plans
  <2>4. row' \in Rows
    BY <1>4, ApplyBatchRow
  <2>5. tombs' \subseteq Deletable /\ archived' \subseteq Categories
    BY <1>4, <2>3 DEF ApplyBatch, NewTombs, TypeOK
  <2>6. slipped' \in [Devices -> SUBSET Categories]
    BY <1>4 DEF ApplyBatch, TypeOK
  <2> QED
    BY <1>4, <2>2, <2>4, <2>5, <2>6 DEF ApplyBatch, TypeOK, RunType, deviceVars, userVars
<1>5. CASE BatchFails(d) \/ Lose(d)
  <2>1. At("failed") \in RunType
    BY AtIsTyped DEF Steps
  <2> QED BY <1>5, <2>1, RunOnlyTyped DEF BatchFails, Lose
<1>6. CASE Answered(d)
  <2>1. At("answered") \in RunType
    BY AtIsTyped DEF Steps
  <2>2. run' \in [Devices -> RunType]
    BY <1>6, <2>1, RunStepTyped DEF Answered
  <2> QED BY <1>6, <2>2 DEF Answered, TypeOK, RunType, serverVars, userVars, history
<1>7. CASE PullFirst(d) \/ PullSecond(d)
  <2>1. PICK step \in {"first", "second"}, pull \in Pulled :
          PullGoesOn(d, step, pull)
    BY <1>7, ReadingSound, GroupsAreRecords DEF PullFirst, PullSecond
  <2>2. Run(step, NoBatch, NoPlan, pull) \in RunType
    BY <2>1, RunIsTyped DEF Steps
  <2> QED BY <2>1, <2>2, RunOnlyTyped DEF PullGoesOn
<1>8. CASE PullCategories(d) \/ PullTombstones(d)
  <2>1. /\ [Reading(run[d].pull, Categories) EXCEPT !.archived = archived] \in Pulled
        /\ [run[d].pull EXCEPT !.tombs = tombs] \in Pulled
    BY LastGroupSound
  <2>2. PICK step \in {"categories", "tombstones", "pulled"}, pull \in Pulled :
          PullGoesOn(d, step, pull)
    BY <1>8, <2>1 DEF PullCategories, PullTombstones
  <2>3. Run(step, NoBatch, NoPlan, pull) \in RunType
    BY <2>2, RunIsTyped DEF Steps
  <2> QED BY <2>2, <2>3, RunOnlyTyped DEF PullGoesOn
<1>9. CASE ApplyPull(d)
  <2>1. At("idle") \in RunType
    BY AtIsTyped DEF Steps
  <2>2. run' \in [Devices -> RunType]
    BY <1>9, <2>1, RunStepTyped DEF ApplyPull
  <2>3. RowsPulled(d) \in Rows
    BY DEF RowsPulled, Rows, TypeOK
  <2>4. /\ hidden' \in [Devices -> SUBSET Categories] /\ gone' \in [Devices -> SUBSET Deletable]
        /\ slipped' \in [Devices -> SUBSET Categories]
    BY <1>9 DEF ApplyPull, TypeOK
  <2> QED BY <1>9, <2>2, <2>3, <2>4 DEF ApplyPull, TypeOK, RunType, serverVars, userVars
<1>10. CASE PullFails(d) \/ Stop(d)
  <2>1. At("idle") \in RunType
    BY AtIsTyped DEF Steps
  <2> QED BY <1>10, <2>1, RunOnlyTyped DEF PullFails, Stop
<1> QED
  BY <1>1, <1>2, <1>3, <1>4, <1>5, <1>6, <1>7, <1>8, <1>9, <1>10 DEF Sync

\* Every step keeps the types.
LEMMA TypePreserved == TypeOK /\ [Next]_vars => TypeOK'
<1> SUFFICES ASSUME TypeOK, [Next]_vars PROVE TypeOK'
  OBVIOUS
<1>1. CASE UNCHANGED vars
  BY <1>1 DEF TypeOK, vars, serverVars, deviceVars, userVars, history
<1> QED BY <1>1, UserTyped, SyncTyped DEF Next, User

(***************************************************************************)
(* Every variable keeps its type.                                          *)
(***************************************************************************)
THEOREM TableTypes == Spec => []TypeOK
BY TypeInitially, TypePreserved, PTL DEF Spec

-----------------------------------------------------------------------------
(***************************************************************************)
(* Who changes what.                                                       *)
(***************************************************************************)
LEMMA ServerChanges ==
  ASSUME [Next]_vars
  PROVE  UNCHANGED serverVars \/ \E d \in Devices : ApplyBatch(d)
<1>1. CASE UNCHANGED vars
  BY <1>1 DEF vars
<1>2. ASSUME NEW d \in Devices, NEW r \in Records,
             Create(d, r) \/ Edit(d, r) \/ Delete(d, r) \/ DeleteUnqueued(d, r)
      PROVE  UNCHANGED serverVars
  BY <1>2 DEF Create, Edit, Delete, DeleteUnqueued
<1>3. ASSUME NEW d \in Devices, Sync(d) \/ Lose(d) \/ Stop(d), ~ApplyBatch(d)
      PROVE  UNCHANGED serverVars
  BY <1>3 DEF Sync, ReadTables, Send, ValidateBatch, BatchFails, Answered, PullFirst,
              PullSecond, PullCategories, PullTombstones, PullGoesOn, ApplyPull,
              PullFails, Lose, Stop
<1> QED BY <1>1, <1>2, <1>3 DEF Next, User

\* A device's run changes only by its own sync, and by what stops it.
LEMMA RunChanges ==
  ASSUME TypeOK, [Next]_vars, NEW d \in Devices
  PROVE  run'[d] = run[d] \/ Sync(d) \/ Lose(d) \/ Stop(d)
<1>1. CASE UNCHANGED vars
  BY <1>1 DEF vars
<1>2. ASSUME NEW e \in Devices, NEW r \in Records,
             Create(e, r) \/ Edit(e, r) \/ Delete(e, r) \/ DeleteUnqueued(e, r)
      PROVE  run'[d] = run[d]
  BY <1>2 DEF Create, Edit, Delete, DeleteUnqueued
<1>3. ASSUME NEW e \in Devices, Sync(e) \/ Lose(e) \/ Stop(e), e # d
      PROVE  run'[d] = run[d]
  BY <1>3 DEF TypeOK, Sync, ReadTables, Send, ValidateBatch, ApplyBatch, BatchFails,
              Answered, PullFirst, PullSecond, PullCategories, PullTombstones, PullGoesOn,
              ApplyPull, PullFails, Lose, Stop
<1> QED BY <1>1, <1>2, <1>3 DEF Next, User

\* A device's rows change only by its user and by a pull it applies.
LEMMA DeviceChanges ==
  ASSUME TypeOK, [Next]_vars, NEW d \in Devices
  PROVE  \/ local'[d] = local[d] /\ hidden'[d] = hidden[d] /\ gone'[d] = gone[d]
         \/ \E r \in Records : Create(d, r) \/ Edit(d, r) \/ Delete(d, r) \/ DeleteUnqueued(d, r)
         \/ ApplyPull(d)
<1>1. CASE UNCHANGED vars
  BY <1>1 DEF vars, deviceVars, history
<1>2. ASSUME NEW e \in Devices, NEW r \in Records,
             Create(e, r) \/ Edit(e, r) \/ Delete(e, r) \/ DeleteUnqueued(e, r), e # d
      PROVE  local'[d] = local[d] /\ hidden'[d] = hidden[d] /\ gone'[d] = gone[d]
  BY <1>2 DEF TypeOK, Create, Edit, Delete, DeleteUnqueued, history
<1>3. ASSUME NEW e \in Devices, Sync(e) \/ Lose(e) \/ Stop(e), ~ApplyPull(e)
      PROVE  local'[d] = local[d] /\ hidden'[d] = hidden[d] /\ gone'[d] = gone[d]
  BY <1>3 DEF deviceVars, history, Sync, ReadTables, Send, ValidateBatch, ApplyBatch, BatchFails,
              Answered, PullFirst, PullSecond, PullCategories, PullTombstones, PullGoesOn,
              PullFails, Lose, Stop
<1>4. ASSUME NEW e \in Devices, ApplyPull(e), e # d
      PROVE  local'[d] = local[d] /\ hidden'[d] = hidden[d] /\ gone'[d] = gone[d]
  BY <1>4 DEF TypeOK, ApplyPull
<1> QED BY <1>1, <1>2, <1>3, <1>4 DEF Next, User

\* The batch of a run is a copy of the device's tables.
LEMMA BatchChanges ==
  ASSUME TypeOK, [Next]_vars, NEW d \in Devices
  PROVE  run'[d].batch.rows \in {run[d].batch.rows, local[d], NoRows}
<1>1. CASE run'[d] = run[d]
  BY <1>1
<1>2. CASE Sync(d) \/ Lose(d) \/ Stop(d)
  BY <1>2 DEF TypeOK, Run, At, NoBatch, Sync, ReadTables, Send, ValidateBatch, ApplyBatch,
              BatchFails, Answered, PullFirst, PullSecond, PullCategories, PullTombstones,
              PullGoesOn, ApplyPull, PullFails, Lose, Stop
<1> QED BY <1>1, <1>2, RunChanges

-----------------------------------------------------------------------------
(***************************************************************************)
(* No device has a part without what it belongs to: funds, cards and goals *)
(* are never deleted, and a pull that would bring a part alone fails.      *)
(***************************************************************************)
Whole(rows) == \A p \in Parts : rows[p] # NoRow => rows[ParentOf[p]] # NoRow

WholeInv == \A d \in Devices : Whole(local[d]) /\ Whole(run[d].batch.rows)

\* What a part belongs to is neither deletable nor archived.
LEMMA ParentsStay ==
  ASSUME NEW p \in Parts
  PROVE  /\ p \in Records /\ ParentOf[p] \in Records
         /\ ParentOf[p] \notin Deletable /\ ParentOf[p] \notin Categories
BY PartsHaveParents DEF Parts, OfKind, Deletable, DeletableKinds, Categories

\* No part without parent among no rows.
LEMMA NoRowsWhole == Whole(NoRows)
BY DEF Whole, NoRows, Parts, OfKind

\* Nor at first.
LEMMA WholeInitially == Init => WholeInv
<1> SUFFICES ASSUME Init, NEW d \in Devices PROVE Whole(local[d]) /\ Whole(run[d].batch.rows)
  BY DEF WholeInv
<1>1. run[d].batch.rows = NoRows
  BY DEF Init, At, Run, NoBatch
<1>2. Whole(local[d])
  BY SystemCategoriesAssumption DEF Init, Whole, Parts, Categories, OfKind
<1> QED BY <1>1, <1>2, NoRowsWhole

\* Nor after any step.
LEMMA WholePreserved == TypeOK /\ WholeInv /\ [Next]_vars => WholeInv'
<1> SUFFICES ASSUME TypeOK, WholeInv, [Next]_vars, NEW d \in Devices
             PROVE  Whole(local'[d]) /\ Whole(run'[d].batch.rows)
  BY DEF WholeInv, Whole
<1> local[d] \in Rows /\ Whole(local[d])
  BY DEF TypeOK, WholeInv
<1>1. Whole(run'[d].batch.rows)
  BY BatchChanges, NoRowsWhole DEF WholeInv
<1>2. ASSUME NEW r \in Records, Create(d, r) \/ Edit(d, r)
      PROVE  Whole(local'[d])
  <2>1. local'[d] = [local[d] EXCEPT ![r] = changes'] /\ changes' # NoRow
    BY <1>2, ContentsAssumption DEF Create, Edit, TypeOK, Contents
  <2>2. r \in Parts => local[d][ParentOf[r]] # NoRow
    BY <1>2 DEF Create, Edit, Shown, Present, Whole
  <2> SUFFICES ASSUME NEW p \in Parts, local'[d][p] # NoRow
               PROVE  local'[d][ParentOf[p]] # NoRow
    BY DEF Whole
  <2>3. p \in Records /\ ParentOf[p] \in Records
    BY ParentsStay
  <2>4. local[d][ParentOf[p]] # NoRow
    BY <2>1, <2>2, <2>3 DEF Whole, Rows
  <2> QED BY <2>1, <2>3, <2>4 DEF Rows
<1>3. ASSUME NEW r \in Records, Delete(d, r) \/ DeleteUnqueued(d, r)
      PROVE  Whole(local'[d])
  <2>1. CASE local'[d] = local[d]
    BY <2>1
  <2>2. CASE local'[d] = [local[d] EXCEPT ![r] = NoRow]
    <3>1. r \in Deletable
      BY <1>3 DEF Delete, DeleteUnqueued, Deletable, DeletableKinds, Categories, OfKind
    <3> SUFFICES ASSUME NEW p \in Parts, local'[d][p] # NoRow
                 PROVE  local'[d][ParentOf[p]] # NoRow
      BY DEF Whole
    <3>2. p \in Records /\ ParentOf[p] \in Records /\ ParentOf[p] # r
      BY <3>1, ParentsStay
    <3> QED BY <2>2, <3>2 DEF Whole, Rows
  <2> QED BY <1>3, <2>1, <2>2 DEF Delete, DeleteUnqueued, TypeOK
<1>4. ASSUME ApplyPull(d)
      PROVE  Whole(local'[d])
  <2> DEFINE pull == run[d].pull
  <2>1. local'[d] = RowsPulled(d) /\ ~PullRefused(d) /\ pull.tombs \subseteq Deletable
    BY <1>4, RunHasType DEF ApplyPull, TypeOK
  <2> SUFFICES ASSUME NEW p \in Parts, local'[d][p] # NoRow
               PROVE  local'[d][ParentOf[p]] # NoRow
    BY DEF Whole
  <2>2. p \in Records /\ ParentOf[p] \in Records /\ ParentOf[p] \notin pull.tombs
    BY <2>1, ParentsStay
  <2>3. pull.rows[p] # NoRow \/ local[d][p] # NoRow
    BY <2>1, <2>2 DEF RowsPulled
  <2>4. pull.rows[ParentOf[p]] # NoRow \/ local[d][ParentOf[p]] # NoRow
    <3>1. ParentOf[p] \in Present(pull.rows) \union Present(local[d])
            \/ p \notin Present(pull.rows)
      BY <2>1 DEF PullRefused
    <3>2. local[d][p] # NoRow => local[d][ParentOf[p]] # NoRow
      BY DEF Whole
    <3> QED BY <2>2, <2>3, <3>1, <3>2 DEF Present
  <2> QED BY <2>1, <2>2, <2>4 DEF RowsPulled
<1> QED BY <1>1, <1>2, <1>3, <1>4, DeviceChanges

(***************************************************************************)
(* No batch is ever forbidden for a part without its parent.               *)
(***************************************************************************)
THEOREM AllowedForEver == Spec => []NeverForbidden
<1>1. TypeOK /\ WholeInv => NeverForbidden
  <2> SUFFICES ASSUME TypeOK, WholeInv, NEW d \in Devices, NEW p \in Parts,
                      p \in Present(run[d].batch.rows)
               PROVE  ParentOf[p] \in Stored \union Present(run[d].batch.rows)
    BY DEF NeverForbidden, BatchAllowed
  <2> QED BY ParentsStay DEF WholeInv, Whole, Present
<1> QED
  BY TypeInitially, TypePreserved, WholeInitially, WholePreserved, <1>1, PTL DEF Spec

-----------------------------------------------------------------------------
(***************************************************************************)
(* What is under way on the server.  What a validated batch is about to    *)
(* write goes to a record that is or stands for the one it was sent for,   *)
(* the tombstones it counts on are there, and the categories it is about to*)
(* archive are there too.                                                  *)
(***************************************************************************)
PlanInv(d) ==
  run[d].at = "planned" =>
    /\ run[d].plan.known \subseteq tombs
    /\ run[d].plan.doomed \intersect Categories \subseteq Stored
    /\ run[d].plan.puts \subseteq Present(run[d].batch.rows)
    /\ Present(run[d].batch.rows)
         \subseteq run[d].plan.puts \union run[d].plan.known
                     \union (Stored \intersect Categories) \union SystemCategories
    /\ \A r \in Records : run[d].plan.target[r] \in Same(r)

ServerInv ==
  /\ tombs \intersect Categories \subseteq archived \intersect Stored
  /\ \A d \in Devices : PlanInv(d)

\* A plan writes every row of its batch but those with a tombstone, the categories
\* that are known and those of the system; with a whole batch it makes up no card.
LEMMA PlanForSound ==
  ASSUME TypeOK, NEW b \in Batch, NEW found \in [Accounts -> Accounts],
         \A a \in Accounts : found[a] \in AccountTargets(a)
  PROVE  LET p == PlanFor(b, found) IN
         /\ p.known \subseteq tombs
         /\ p.doomed \subseteq Stored
         /\ p.puts \subseteq Present(b.rows)
         /\ Present(b.rows) \subseteq p.puts \union p.known \union (Stored \intersect Categories)
                                        \union SystemCategories
         /\ Whole(b.rows) => p.cards = {}
         /\ \A r \in Records : /\ p.target[r] \in Same(r)
                               /\ p.target[r] \in {r} \union Stored
<1> DEFINE p == PlanFor(b, found)
<1>1. /\ p.known = tombs /\ p.doomed = Doomed(b) /\ p.puts = Puts(b)
      /\ p.cards = MissingCards(b)
  BY DEF PlanFor
<1>6. /\ Puts(b) \subseteq Present(b.rows)
      /\ Present(b.rows) \subseteq Puts(b) \union tombs \union (Stored \intersect Categories)
                                     \union SystemCategories
  BY DEF Puts, Present, Stored
<1>2. \A r \in Records : p.target[r] = IF r \in Accounts THEN found[r]
                                       ELSE IF r \in Budgets THEN BudgetTarget(r) ELSE r
  BY DEF PlanFor
<1> HIDE DEF p
<1>3. ASSUME NEW r \in Accounts
      PROVE  r \notin Budgets /\ found[r] \in ({r} \union SameName(r)) \intersect ({r} \union Stored)
  BY DEF AccountTargets, Accounts, Budgets, OfKind
<1>4. ASSUME NEW r \in Budgets
      PROVE  BudgetTarget(r) \in ({r} \union SameCell(r)) \intersect ({r} \union Stored)
  <2> DEFINE twins == Stored \intersect SameCell(r)
  <2>1. CASE r \in twins \/ twins = {}
    BY <2>1 DEF BudgetTarget
  <2>2. CASE ~(r \in twins \/ twins = {})
    <3>1. BudgetTarget(r) \in twins
      BY <2>2 DEF BudgetTarget
    <3> QED BY <3>1
  <2> QED BY <2>1, <2>2
<1>5. \A r \in Records : p.target[r] \in Same(r) /\ p.target[r] \in {r} \union Stored
  BY <1>2, <1>3, <1>4 DEF Same
<1>7. ASSUME Whole(b.rows)
      PROVE  MissingCards(b) = {}
  <2>1. \A q \in CardParts \intersect Puts(b) : q \in Parts /\ ParentOf[q] \in Present(b.rows)
    BY <1>6, <1>7, ParentsStay DEF CardParts, Parts, OfKind, Whole, Present
  <2> QED BY <2>1 DEF MissingCards
<1> QED BY <1>1, <1>5, <1>6, <1>7 DEF Doomed, p

\* A validation plans for the batch of its run.
LEMMA ValidateEffect ==
  ASSUME TypeOK, NEW d \in Devices, ValidateBatch(d)
  PROVE  \E found \in [Accounts -> Accounts] :
           /\ \A a \in Accounts : found[a] \in AccountTargets(a)
           /\ run'[d].plan = PlanFor(run[d].batch, found)
<1>1. PICK found \in [Accounts -> Accounts] :
        /\ \A a \in Accounts : found[a] \in AccountTargets(a)
        /\ run' = [run EXCEPT ![d] =
                 Run("planned", run[d].batch, PlanFor(run[d].batch, found), NoPull)]
  BY DEF ValidateBatch
<1>2. run'[d] = Run("planned", run[d].batch, PlanFor(run[d].batch, found), NoPull)
  BY <1>1 DEF TypeOK
<1> QED BY <1>1, <1>2 DEF Run

\* Only validation makes a plan.
LEMMA PlannedByValidation ==
  ASSUME TypeOK, [Next]_vars, NEW d \in Devices, run'[d].at = "planned"
  PROVE  run'[d] = run[d] \/ (ValidateBatch(d) /\ run'[d].batch = run[d].batch)
<1>1. CASE ValidateBatch(d)
  <2>1. PICK found \in [Accounts -> Accounts] :
          run' = [run EXCEPT ![d] =
                   Run("planned", run[d].batch, PlanFor(run[d].batch, found), NoPull)]
    BY <1>1 DEF ValidateBatch
  <2> QED BY <1>1, <2>1 DEF TypeOK, Run
<1>2. CASE Sync(d) /\ ~ValidateBatch(d)
  BY <1>2 DEF TypeOK, Run, At, Sync, ReadTables, Send, ApplyBatch, BatchFails, Answered,
              PullFirst, PullSecond, PullCategories, PullTombstones, PullGoesOn,
              ApplyPull, PullFails
<1>3. CASE Lose(d) \/ Stop(d)
  BY <1>3 DEF TypeOK, Run, At, Lose, Stop
<1> QED BY <1>1, <1>2, <1>3, RunChanges

\* A transaction: a record goes only with a tombstone, a category never.
LEMMA RecordsKept ==
  ASSUME TypeOK, ServerInv, NEW d \in Devices, ApplyBatch(d)
  PROVE  /\ Present(row) \subseteq Present(row') \union tombs'
         /\ Present(row) \intersect Categories \subseteq Present(row')
         /\ tombs \subseteq tombs' /\ archived \subseteq archived'
         /\ tombs' \intersect Categories \subseteq archived' \intersect Present(row')
<1> DEFINE b == run[d].batch
           p == run[d].plan
<1>1. /\ row' \in Rows
      /\ \A r \in Records : row'[r] \in Written(b, p, r)
  BY ApplyBatchRow
<1>2. /\ p.known \subseteq tombs
      /\ p.doomed \intersect Categories \subseteq Stored
      /\ p.puts \subseteq Present(b.rows)
      /\ archived' = archived \union (p.doomed \intersect Categories)
      /\ tombs' = tombs \union NewTombs(p)
  BY DEF ApplyBatch, ServerInv, PlanInv
<1> HIDE DEF b, p
<1>3. ASSUME NEW r \in Records, row'[r] = NoRow
      PROVE  row[r] = NoRow \/ r \in p.doomed \ Categories
  <2> DEFINE onto == {s \in p.puts : p.target[s] = r}
  <2>1. onto = {}
    BY <1>1, <1>2, <1>3 DEF Written, Present
  <2>2. row'[r] = 0 \/ row'[r] = AfterDeletions(p)[r]
    BY <1>1, <2>1 DEF Written
  <2>3. row'[r] # 0
    BY <1>3, ContentsAssumption DEF Contents
  <2> QED BY <1>3, <2>2, <2>3 DEF AfterDeletions
<1>4. Present(row) \subseteq Present(row') \union tombs'
  BY <1>2, <1>3 DEF Present, NewTombs
<1>5. Present(row) \intersect Categories \subseteq Present(row')
  BY <1>3 DEF Present
<1>6. tombs' \intersect Categories \subseteq archived' \intersect Present(row')
  BY <1>2, <1>5 DEF ServerInv, NewTombs, Stored
<1> QED BY <1>2, <1>4, <1>5, <1>6

\* At first nothing is planned.
LEMMA ServerInvInitially == Init => ServerInv
BY DEF Init, ServerInv, PlanInv, At, Run

\* What a plan relies on still holds after any step.
LEMMA ServerInvPreserved == TypeOK /\ ServerInv /\ [Next]_vars => ServerInv'
<1> SUFFICES ASSUME TypeOK, ServerInv, [Next]_vars PROVE ServerInv'
  OBVIOUS
<1>1. /\ tombs \subseteq tombs'
      /\ Present(row) \intersect Categories \subseteq Present(row')
      /\ tombs' \intersect Categories \subseteq archived' \intersect Present(row')
  <2>1. CASE UNCHANGED serverVars
    BY <2>1 DEF serverVars, ServerInv, Stored
  <2>2. CASE \E d \in Devices : ApplyBatch(d)
    BY <2>2, RecordsKept
  <2> QED BY <2>1, <2>2, ServerChanges
<1>2. ASSUME NEW d \in Devices, run'[d].at = "planned"
      PROVE  /\ run'[d].plan.known \subseteq tombs'
             /\ run'[d].plan.doomed \intersect Categories \subseteq Present(row')
             /\ run'[d].plan.puts \subseteq Present(run'[d].batch.rows)
             /\ Present(run'[d].batch.rows) \subseteq
                  run'[d].plan.puts \union run'[d].plan.known
                    \union (Present(row') \intersect Categories) \union SystemCategories
             /\ \A r \in Records : run'[d].plan.target[r] \in Same(r)
  <2>1. /\ run'[d].plan.known \subseteq tombs
        /\ run'[d].plan.doomed \intersect Categories \subseteq Stored
        /\ run'[d].plan.puts \subseteq Present(run'[d].batch.rows)
        /\ Present(run'[d].batch.rows) \subseteq
             run'[d].plan.puts \union run'[d].plan.known \union (Stored \intersect Categories)
               \union SystemCategories
        /\ \A r \in Records : run'[d].plan.target[r] \in Same(r)
    <3>1. CASE run'[d] = run[d]
      BY <1>2, <3>1 DEF ServerInv, PlanInv
    <3>2. CASE ValidateBatch(d) /\ run'[d].batch = run[d].batch
      BY <3>2, ValidateEffect, PlanForSound, RunHasType
    <3> QED BY <1>2, <3>1, <3>2, PlannedByValidation
  <2> QED BY <1>1, <2>1 DEF Stored
<1> QED BY <1>1, <1>2 DEF ServerInv, PlanInv, Stored, Same, Present

(***************************************************************************)
(* A row leaves the server only for a tombstone.                           *)
(***************************************************************************)
THEOREM TombstoneForEach == Spec => DeletionLeavesTombstone
<1>1. TypeOK /\ ServerInv /\ [Next]_vars => [Present(row) \subseteq Present(row') \union tombs']_vars
  <2> SUFFICES ASSUME TypeOK, ServerInv, [Next]_vars
               PROVE  Present(row) \subseteq Present(row') \union tombs'
    OBVIOUS
  <2> QED BY ServerChanges, RecordsKept DEF serverVars
<1> QED
  BY TypeInitially, TypePreserved, ServerInvInitially, ServerInvPreserved, <1>1, PTL
  DEF Spec, DeletionLeavesTombstone

-----------------------------------------------------------------------------
(***************************************************************************)
(* What a transaction writes stays for its device to be told of it.        *)
(***************************************************************************)
LEMMA BatchWritten ==
  ASSUME TypeOK, ServerInv, NEW d \in Devices, ApplyBatch(d),
         NEW r \in Present(run[d].batch.rows) \ SystemCategories
  PROVE  Same(r) \intersect (Present(row') \union tombs') # {}
<1> DEFINE b == run[d].batch
           p == run[d].plan
<1>1. /\ \A t \in Records : row'[t] \in Written(b, p, t)
      /\ p.known \subseteq tombs'
      /\ p.target[r] \in Same(r)
      /\ p.puts \subseteq Present(b.rows)
      /\ r \in p.puts \union p.known \union (Stored \intersect Categories)
      /\ Present(row) \intersect Categories \subseteq Present(row')
  BY ApplyBatchRow, RecordsKept DEF ApplyBatch, ServerInv, PlanInv, Present
<1>2. b \in Batch /\ p \in Plans /\ r \in Present(b.rows) /\ r \in Records
  BY RunHasType DEF Present
<1> HIDE DEF b, p
<1>3. CASE r \in p.known \/ r \in Stored \intersect Categories
  BY <1>1, <1>3 DEF Same, Stored
<1>4. CASE r \in p.puts
  <2> DEFINE t == p.target[r]
             onto == {s \in p.puts : p.target[s] = t}
  <2>1. r \in onto /\ t \in Records
    BY <1>2, <1>4 DEF Plans
  <2>2. row'[t] \in {b.rows[s] : s \in onto}
    BY <1>1, <2>1 DEF Written
  <2>3. row'[t] # NoRow
    BY <1>1, <2>2 DEF Present
  <2>4. t \in Present(row')
    BY <2>1, <2>3 DEF Present
  <2> QED BY <1>1, <2>4
<1> QED BY <1>1, <1>3, <1>4

\* A batch counts as written only by the transaction.
LEMMA WrittenByTransaction ==
  ASSUME TypeOK, [Next]_vars, NEW d \in Devices, run'[d].at = "written"
  PROVE  run'[d] = run[d] \/ (ApplyBatch(d) /\ run'[d].batch = run[d].batch)
<1>1. CASE ApplyBatch(d)
  BY <1>1 DEF TypeOK, Run, ApplyBatch
<1>2. CASE Sync(d) /\ ~ApplyBatch(d)
  BY <1>2 DEF TypeOK, Run, At, Sync, ReadTables, Send, ValidateBatch, BatchFails,
              Answered, PullFirst, PullSecond, PullCategories, PullTombstones, PullGoesOn,
              ApplyPull, PullFails
<1>3. CASE Lose(d) \/ Stop(d)
  BY <1>3 DEF TypeOK, Run, At, Lose, Stop
<1> QED BY <1>1, <1>2, <1>3, RunChanges

(***************************************************************************)
(* When a batch is about to be reported as stored, each row of it is there,*)
(* was deleted or has its place taken.                                     *)
(***************************************************************************)
THEOREM BatchesAreKept == Spec => []PushedIsKept
<1>1. Init => PushedIsKept
  BY DEF Init, PushedIsKept, At, Run
<1>2. TypeOK /\ ServerInv /\ PushedIsKept /\ [Next]_vars => PushedIsKept'
  <2> SUFFICES ASSUME TypeOK, ServerInv, PushedIsKept, [Next]_vars,
                      NEW d \in Devices, run'[d].at = "written",
                      NEW r \in Present(run'[d].batch.rows) \ SystemCategories
               PROVE  Same(r) \intersect (Present(row') \union tombs') # {}
    BY DEF PushedIsKept, Same, Present
  <2>1. CASE run'[d] = run[d]
    <3>1. Same(r) \intersect (Present(row) \union tombs) # {}
      BY <2>1 DEF PushedIsKept
    <3>2. Present(row) \union tombs \subseteq Present(row') \union tombs'
      BY ServerChanges, RecordsKept DEF serverVars
    <3> QED BY <3>1, <3>2
  <2>2. CASE ApplyBatch(d) /\ run'[d].batch = run[d].batch
    BY <2>2, BatchWritten
  <2> QED BY <2>1, <2>2, WrittenByTransaction
<1> QED
  BY TypeInitially, TypePreserved, ServerInvInitially, ServerInvPreserved, <1>1, <1>2, PTL
  DEF Spec

-----------------------------------------------------------------------------
(***************************************************************************)
(* Only records that were created are anywhere, so no record is created    *)
(* again after its deletion.                                               *)
(***************************************************************************)
BornInv ==
  /\ Stored \subseteq born /\ tombs \subseteq born
  /\ \A d \in Devices :
       /\ Present(local[d]) \subseteq born
       /\ Present(run[d].batch.rows) \subseteq born
       /\ Present(run[d].pull.rows) \subseteq born
       /\ run[d].at = "planned" =>
            /\ run[d].plan.doomed \subseteq born /\ run[d].plan.cards = {}
            /\ \A r \in Present(run[d].batch.rows) : run[d].plan.target[r] \in born

\* At first there are the system categories only.
LEMMA BornInvInitially == Init => BornInv
BY SystemCategoriesAssumption DEF Categories, OfKind, Init, BornInv, At, Run, NoBatch, NoPull, NoRows, Stored, Present

\* A record once created stays created.
LEMMA BornGrows ==
  ASSUME [Next]_vars
  PROVE  born \subseteq born'
<1>1. CASE UNCHANGED vars
  BY <1>1 DEF vars, userVars
<1>2. ASSUME NEW d \in Devices, NEW r \in Records,
             Create(d, r) \/ Edit(d, r) \/ Delete(d, r) \/ DeleteUnqueued(d, r)
      PROVE  born \subseteq born'
  BY <1>2 DEF Create, Edit, Delete, DeleteUnqueued, userVars
<1>3. ASSUME NEW d \in Devices, Sync(d) \/ Lose(d) \/ Stop(d)
      PROVE  born \subseteq born'
  BY <1>3 DEF userVars, Sync, ReadTables, Send, ValidateBatch, ApplyBatch, BatchFails,
              Answered, PullFirst, PullSecond, PullCategories, PullTombstones, PullGoesOn,
              ApplyPull, PullFails, Lose, Stop
<1> QED BY <1>1, <1>2, <1>3 DEF Next, User

\* The transaction stores and deletes only records that were created.
LEMMA StoredAreBorn ==
  ASSUME TypeOK, ServerInv, BornInv, NEW d \in Devices, ApplyBatch(d)
  PROVE  Present(row') \subseteq born /\ tombs' \subseteq born
<1> DEFINE b == run[d].batch
           p == run[d].plan
<1>1. \A t \in Records : row'[t] \in Written(b, p, t)
  BY ApplyBatchRow
<1>2. /\ tombs' = tombs \union NewTombs(p) /\ p.doomed \subseteq born
      /\ \A r \in p.puts : p.target[r] \in born
  BY DEF ApplyBatch, BornInv, ServerInv, PlanInv
<1>4. p.cards = {}
  BY DEF ApplyBatch, BornInv
<1> HIDE DEF b, p
<1>3. ASSUME NEW r \in Present(row')
      PROVE  r \in born
  <2> DEFINE onto == {s \in p.puts : p.target[s] = r}
  <2>1. CASE onto = {}
    <3>1. row'[r] = AfterDeletions(p)[r] /\ r \in Records
      BY <1>1, <1>4, <2>1 DEF Written, Present
    <3>2. row[r] # NoRow
      BY <3>1, <1>3 DEF AfterDeletions, Present
    <3> QED BY <3>1, <3>2 DEF BornInv, Stored, Present
  <2>2. CASE onto # {}
    BY <1>2, <2>2
  <2> QED BY <2>1, <2>2
<1> QED BY <1>2, <1>3 DEF BornInv, NewTombs

\* A pull brings the server's records only.
LEMMA PullChanges ==
  ASSUME TypeOK, [Next]_vars, NEW d \in Devices
  PROVE  Present(run'[d].pull.rows) \subseteq Present(run[d].pull.rows) \union Stored
<1> USE RunHasType DEF Run
<1>0. Present(NoRows) = {} /\ NoPull.rows = NoRows /\ NoPull \in Pulled
  BY EmptyIsTyped DEF NoRows, Present, NoPull
<1>1. CASE run'[d] = run[d]
  BY <1>1
<1>2. CASE PullFirst(d)
  <2>1. run'[d].pull = Reading(NoPull, FirstGroup)
    BY <1>2 DEF TypeOK, PullFirst, PullGoesOn
  <2> QED BY <1>0, <2>1, ReadingSound, GroupsAreRecords
<1>3. CASE PullSecond(d)
  <2>1. run'[d].pull = Reading(run[d].pull, Records \ (FirstGroup \union Categories))
    BY <1>3 DEF TypeOK, PullSecond, PullGoesOn
  <2> QED BY <2>1, ReadingSound, GroupsAreRecords
<1>4. CASE PullCategories(d)
  <2>1. run'[d].pull = [Reading(run[d].pull, Categories) EXCEPT !.archived = archived]
    BY <1>4 DEF TypeOK, PullCategories, PullGoesOn
  <2> QED BY <2>1, LastGroupSound
<1>5. CASE PullTombstones(d)
  <2>1. run'[d].pull = [run[d].pull EXCEPT !.tombs = tombs]
    BY <1>5 DEF TypeOK, PullTombstones, PullGoesOn
  <2> QED BY <2>1, LastGroupSound
<1>6. CASE Lose(d) \/ Stop(d) \/ (Sync(d) /\ ~PullFirst(d) /\ ~PullSecond(d)
                                        /\ ~PullCategories(d) /\ ~PullTombstones(d))
  <2>1. run'[d].pull = NoPull
    BY <1>6 DEF TypeOK, At, Sync, ReadTables, Send, ValidateBatch, ApplyBatch,
                BatchFails, Answered, ApplyPull, PullFails, Lose, Stop
  <2> QED BY <1>0, <2>1
<1> QED BY <1>1, <1>2, <1>3, <1>4, <1>5, <1>6, RunChanges

\* A device has only records that were created.
LEMMA LocalAreBorn ==
  ASSUME TypeOK, BornInv, [Next]_vars, NEW d \in Devices
  PROVE  Present(local'[d]) \subseteq born'
<1> born \subseteq born' /\ Present(local[d]) \subseteq born
  BY BornGrows DEF BornInv
<1>1. CASE local'[d] = local[d]
  BY <1>1
<1>2. ASSUME NEW r \in Records, Create(d, r) \/ Edit(d, r)
      PROVE  Present(local'[d]) \subseteq born'
  <2>1. r \in born'
    BY <1>2 DEF Create, Edit, Shown
  <2>2. Present(local'[d]) \subseteq Present(local[d]) \union {r}
    BY <1>2 DEF Create, Edit, Present, TypeOK, Rows
  <2> QED BY <2>1, <2>2
<1>3. ASSUME NEW r \in Records, Delete(d, r) \/ DeleteUnqueued(d, r)
      PROVE  Present(local'[d]) \subseteq born'
  <2>1. Present(local'[d]) \subseteq Present(local[d])
    BY <1>3 DEF Delete, DeleteUnqueued, Present, TypeOK, Rows
  <2> QED BY <2>1
<1>4. CASE ApplyPull(d)
  <2>1. local'[d] = RowsPulled(d)
    BY <1>4 DEF ApplyPull, TypeOK
  <2>2. Present(local'[d]) \subseteq Present(local[d]) \union Present(run[d].pull.rows)
    BY <2>1 DEF RowsPulled, Present
  <2> QED BY <2>2 DEF BornInv
<1> QED BY <1>1, <1>2, <1>3, <1>4, DeviceChanges

\* Nothing carries a record before it is created, after any step.
LEMMA BornInvPreserved ==
  TypeOK /\ WholeInv /\ ServerInv /\ BornInv /\ [Next]_vars => BornInv'
<1> SUFFICES ASSUME TypeOK, WholeInv, ServerInv, BornInv, [Next]_vars PROVE BornInv'
  OBVIOUS
<1>1. born \subseteq born'
  BY BornGrows
<1>2. Present(row') \subseteq born' /\ tombs' \subseteq born'
  BY <1>1, ServerChanges, StoredAreBorn DEF BornInv, Stored, serverVars
<1>3. ASSUME NEW d \in Devices
      PROVE  /\ Present(local'[d]) \subseteq born'
             /\ Present(run'[d].batch.rows) \subseteq born'
             /\ Present(run'[d].pull.rows) \subseteq born'
             /\ run'[d].at = "planned" =>
                  /\ run'[d].plan.doomed \subseteq born' /\ run'[d].plan.cards = {}
                  /\ \A r \in Present(run'[d].batch.rows) : run'[d].plan.target[r] \in born'
  <2>1. Present(run'[d].batch.rows) \subseteq born'
    <3>1. Present(NoRows) = {}
      BY DEF Present, NoRows
    <3> QED BY <1>1, <3>1, BatchChanges DEF BornInv
  <2>2. Present(run'[d].pull.rows) \subseteq born'
    BY <1>1, PullChanges DEF BornInv
  <2>3. ASSUME run'[d].at = "planned"
        PROVE  /\ run'[d].plan.doomed \subseteq born' /\ run'[d].plan.cards = {}
               /\ \A r \in Present(run'[d].batch.rows) : run'[d].plan.target[r] \in born'
    <3>1. CASE run'[d] = run[d]
      BY <1>1, <2>3, <3>1 DEF BornInv
    <3>2. CASE ValidateBatch(d) /\ run'[d].batch = run[d].batch
      <4>1. /\ run'[d].plan.doomed \subseteq Stored /\ run'[d].plan.cards = {}
            /\ \A r \in Records : run'[d].plan.target[r] \in {r} \union Stored
        BY <3>2, ValidateEffect, PlanForSound, RunHasType DEF WholeInv
      <4>2. Present(run[d].batch.rows) \subseteq born /\ Stored \subseteq born
        BY DEF BornInv
      <4> QED BY <1>1, <3>2, <4>1, <4>2 DEF Present
    <3> QED BY <2>3, <3>1, <3>2, PlannedByValidation
  <2> QED BY <2>1, <2>2, <2>3, LocalAreBorn
<1> QED BY <1>2, <1>3 DEF BornInv, Stored, Present

-----------------------------------------------------------------------------
(***************************************************************************)
(* A pull that has read the tombstones knows every deletion its device took*)
(* from an earlier one.  Once it has read the categories too, each deleted *)
(* category is among those it brings as archived, or has slipped through.  *)
(***************************************************************************)
Brought(d) == run[d].pull.archived \intersect Present(run[d].pull.rows)

PullInv(d) ==
  /\ run[d].at \in {"tombstones", "pulled"} => gone[d] \subseteq run[d].pull.tombs
  /\ run[d].at = "categories" =>
       tombs \intersect Categories \subseteq Brought(d) \union slipped[d]
  /\ run[d].at = "pulled" =>
       run[d].pull.tombs \intersect Categories \subseteq Brought(d) \union slipped[d]

GoneInv ==
  /\ GoneStaysGone
  /\ \A d \in Devices :
       gone[d] \subseteq tombs /\ run[d].pull.tombs \subseteq tombs /\ PullInv(d)

\* At first no deletion was pulled.
LEMMA GoneInvInitially == Init => GoneInv
BY DEF Init, GoneInv, GoneStaysGone, PullInv, At, Run, NoPull

\* A category stays slipped until a pull is applied.
LEMMA SlippedChanges ==
  ASSUME TypeOK, [Next]_vars, NEW d \in Devices, ~ApplyPull(d)
  PROVE  slipped[d] \subseteq slipped'[d]
<1>1. CASE UNCHANGED slipped
  BY <1>1
<1>2. ASSUME NEW e \in Devices, ApplyBatch(e)
      PROVE  slipped[d] \subseteq slipped'[d]
  BY <1>2 DEF ApplyBatch
<1>3. ASSUME NEW e \in Devices, ApplyPull(e), e # d
      PROVE  slipped[d] \subseteq slipped'[d]
  BY <1>3 DEF ApplyPull, TypeOK
<1>4. ASSUME NEW e \in Devices, Sync(e) \/ Lose(e) \/ Stop(e), ~ApplyBatch(e), ~ApplyPull(e)
      PROVE  UNCHANGED slipped
  BY <1>4 DEF history, Sync, ReadTables, Send, ValidateBatch, BatchFails, Answered, PullFirst,
              PullSecond, PullCategories, PullTombstones, PullGoesOn, PullFails, Lose, Stop
<1>5. ASSUME NEW e \in Devices, NEW r \in Records,
             Create(e, r) \/ Edit(e, r) \/ Delete(e, r) \/ DeleteUnqueued(e, r)
      PROVE  UNCHANGED slipped
  BY <1>5 DEF history, Create, Edit, Delete, DeleteUnqueued
<1>6. CASE UNCHANGED vars
  BY <1>6 DEF vars, history
<1> QED BY <1>1, <1>2, <1>3, <1>4, <1>5, <1>6 DEF Next, User

\* A device without a record it knows deleted gets it by no step, unless it slipped through.
LEMMA GoneFromDevice ==
  ASSUME TypeOK, BornInv, GoneInv, [Next]_vars, NEW d \in Devices
  PROVE  gone'[d] \intersect (Present(local'[d]) \ hidden'[d]) \subseteq slipped'[d]
<1>1. gone[d] \intersect (Present(local[d]) \ hidden[d]) \subseteq slipped[d] /\ gone[d] \subseteq born
  BY DEF GoneInv, GoneStaysGone, Shown, BornInv
<1>2. CASE local'[d] = local[d] /\ hidden'[d] = hidden[d] /\ gone'[d] = gone[d] /\ ~ApplyPull(d)
  BY <1>1, <1>2, SlippedChanges
<1>3. ASSUME NEW r \in Records, Create(d, r) \/ Edit(d, r)
      PROVE  gone'[d] \intersect (Present(local'[d]) \ hidden'[d]) \subseteq slipped'[d]
  <2>1. r \in gone[d] => r \in Present(local[d]) \ hidden[d]
    BY <1>1, <1>3 DEF Create, Edit, Shown
  <2>2. Present(local'[d]) \subseteq Present(local[d]) \union {r}
    BY <1>3 DEF Create, Edit, Present, TypeOK, Rows
  <2>3. hidden'[d] = hidden[d] /\ gone'[d] = gone[d] /\ slipped'[d] = slipped[d]
    BY <1>3 DEF Create, Edit, history
  <2> QED BY <1>1, <2>1, <2>2, <2>3
<1>4. ASSUME NEW r \in Records, Delete(d, r) \/ DeleteUnqueued(d, r)
      PROVE  gone'[d] \intersect (Present(local'[d]) \ hidden'[d]) \subseteq slipped'[d]
  <2>1. Present(local'[d]) \subseteq Present(local[d])
    BY <1>4 DEF Delete, DeleteUnqueued, Present, TypeOK, Rows
  <2>2. hidden[d] \subseteq hidden'[d] /\ gone'[d] = gone[d] /\ slipped'[d] = slipped[d]
    BY <1>4 DEF Delete, DeleteUnqueued, TypeOK, history
  <2> QED BY <1>1, <2>1, <2>2
<1>5. ASSUME ApplyPull(d)
      PROVE  gone'[d] \intersect (Present(local'[d]) \ hidden'[d]) \subseteq slipped'[d]
  <2> DEFINE pull == run[d].pull
             got == Present(pull.rows)
  <2>1. /\ local'[d] = RowsPulled(d)
        /\ hidden'[d] = (hidden[d] \ got) \union (got \intersect pull.archived)
        /\ gone'[d] = gone[d] \union pull.tombs
        /\ slipped'[d] = slipped[d] \ (got \intersect pull.archived)
    BY <1>5 DEF ApplyPull, TypeOK
  <2>2. /\ gone[d] \subseteq pull.tombs
        /\ pull.tombs \intersect Categories \subseteq (pull.archived \intersect got) \union slipped[d]
    BY <1>5 DEF GoneInv, PullInv, Brought, ApplyPull
  <2>3. ASSUME NEW r \in pull.tombs, r \notin Categories
        PROVE  r \notin Present(local'[d])
    BY <2>1, <2>3 DEF RowsPulled, Present
  <2>4. pull.tombs \intersect Categories \subseteq hidden'[d] \union slipped'[d]
    BY <2>1, <2>2
  <2> QED BY <2>1, <2>2, <2>3, <2>4
<1> QED BY <1>2, <1>3, <1>4, <1>5, DeviceChanges

\* A pull's tombstones are the server's at the time it reads them.
LEMMA PulledTombs ==
  ASSUME TypeOK, [Next]_vars, NEW d \in Devices
  PROVE  /\ run'[d].pull.tombs \in {run[d].pull.tombs, tombs, {}}
         /\ run'[d].at \in {"categories", "tombstones", "pulled"} =>
              run'[d] = run[d] \/ PullCategories(d) \/ PullTombstones(d)
<1> USE RunHasType DEF Run
<1>1. CASE run'[d] = run[d]
  BY <1>1
<1>2. CASE PullFirst(d) \/ PullSecond(d)
  <2>1. NoPull \in Pulled /\ NoPull.tombs = {}
    BY EmptyIsTyped DEF NoPull
  <2>2. run'[d].at \in {"first", "second"}
    BY <1>2 DEF TypeOK, PullFirst, PullSecond, PullGoesOn
  <2>3. run'[d].pull \in {Reading(NoPull, FirstGroup),
                          Reading(run[d].pull, Records \ (FirstGroup \union Categories))}
    BY <1>2 DEF TypeOK, PullFirst, PullSecond, PullGoesOn
  <2> QED BY <2>1, <2>2, <2>3, ReadingSound, GroupsAreRecords
<1>3. CASE PullCategories(d) \/ PullTombstones(d)
  <2>1. run'[d].pull \in {[Reading(run[d].pull, Categories) EXCEPT !.archived = archived],
                          [run[d].pull EXCEPT !.tombs = tombs]}
    BY <1>3 DEF TypeOK, PullCategories, PullTombstones, PullGoesOn
  <2>2. /\ [Reading(run[d].pull, Categories) EXCEPT !.archived = archived].tombs = run[d].pull.tombs
        /\ [run[d].pull EXCEPT !.tombs = tombs].tombs = tombs
    BY LastGroupSound
  <2>3. run'[d].pull.tombs \in {run[d].pull.tombs, tombs}
    BY <2>1, <2>2
  <2> QED BY <1>3, <2>3
<1>4. CASE Lose(d) \/ Stop(d) \/ (Sync(d) /\ ~PullFirst(d) /\ ~PullSecond(d)
                                        /\ ~PullCategories(d) /\ ~PullTombstones(d))
  BY <1>4 DEF TypeOK, At, NoPull, Sync, ReadTables, Send, ValidateBatch, ApplyBatch,
              BatchFails, Answered, ApplyPull, PullFails, Lose, Stop
<1> QED BY <1>1, <1>2, <1>3, <1>4, RunChanges

\* Whatever has a tombstone when the categories are read comes archived.
LEMMA CategoriesRead ==
  ASSUME TypeOK, ServerInv, GoneInv, NEW d \in Devices, PullCategories(d)
  PROVE  PullInv(d)'
<1> DEFINE pull == [Reading(run[d].pull, Categories) EXCEPT !.archived = archived]
<1>1. /\ run'[d] = Run(IF run[d].at = "second" THEN "categories" ELSE "pulled", NoBatch, NoPlan, pull)
      /\ run[d].at \in {"second", "tombstones"}
      /\ UNCHANGED <<tombs, gone, slipped>>
  BY DEF TypeOK, PullCategories, PullGoesOn, serverVars, history
<1>2. /\ pull.archived = archived /\ pull.tombs = run[d].pull.tombs
      /\ Stored \intersect Categories \subseteq Present(pull.rows)
  <2>1. run[d].pull \in Pulled
    BY RunHasType
  <2>2. /\ pull.archived = archived /\ pull.tombs = run[d].pull.tombs
        /\ Present(pull.rows) =
             (Present(run[d].pull.rows) \ Categories) \union (Stored \intersect Categories)
    BY <2>1, LastGroupSound
  <2> HIDE DEF pull
  <2> QED BY <2>2
<1> HIDE DEF pull
<1>3. run'[d].pull = pull /\ run'[d].at = IF run[d].at = "second" THEN "categories" ELSE "pulled"
  BY <1>1 DEF Run
<1>4. tombs \intersect Categories \subseteq run'[d].pull.archived \intersect Present(run'[d].pull.rows)
  BY <1>2, <1>3 DEF ServerInv
<1>5. run[d].pull.tombs \subseteq tombs /\ (run[d].at = "tombstones" => gone[d] \subseteq run[d].pull.tombs)
  BY DEF GoneInv, PullInv
<1> QED BY <1>1, <1>2, <1>3, <1>4, <1>5 DEF PullInv, Brought, Present

\* The tombstones read last are those of the categories read, or of what slipped through.
LEMMA TombstonesRead ==
  ASSUME TypeOK, GoneInv, NEW d \in Devices, PullTombstones(d)
  PROVE  PullInv(d)'
<1>1. /\ run'[d] = Run(IF run[d].at = "second" THEN "tombstones" ELSE "pulled",
                       NoBatch, NoPlan, [run[d].pull EXCEPT !.tombs = tombs])
      /\ run[d].at \in {"second", "categories"}
      /\ UNCHANGED <<tombs, gone, slipped>>
  BY DEF TypeOK, PullTombstones, PullGoesOn, serverVars, history
<1>2. /\ run'[d].pull.tombs = tombs
      /\ run'[d].pull.archived = run[d].pull.archived /\ run'[d].pull.rows = run[d].pull.rows
      /\ run'[d].at = IF run[d].at = "second" THEN "tombstones" ELSE "pulled"
  <2>1. /\ run'[d].pull = [run[d].pull EXCEPT !.tombs = tombs]
        /\ run'[d].at = IF run[d].at = "second" THEN "tombstones" ELSE "pulled"
    BY <1>1 DEF Run
  <2>2. run[d].pull \in Pulled
    BY RunHasType
  <2> QED BY <2>1, <2>2 DEF Pulled
<1>3. /\ gone[d] \subseteq tombs
      /\ run[d].at = "categories" => tombs \intersect Categories \subseteq Brought(d) \union slipped[d]
  BY DEF GoneInv, PullInv
<1> QED BY <1>1, <1>2, <1>3 DEF PullInv, Brought, Present

\* A deletion that comes in while a pull is half way either is new to it or slips through.
LEMMA PullWaits ==
  ASSUME TypeOK, ServerInv, GoneInv, [Next]_vars, NEW d \in Devices, run'[d] = run[d],
         ~PullCategories(d), ~PullTombstones(d),
         run[d].at \in {"categories", "tombstones", "pulled"}
  PROVE  PullInv(d)'
<1>1. ~ApplyPull(d)
  BY DEF ApplyPull, At, Run, TypeOK
<1>2. gone'[d] = gone[d]
  BY <1>1, DeviceChanges DEF Create, Edit, Delete, DeleteUnqueued, history
<1>3. slipped[d] \subseteq slipped'[d]
  BY <1>1, SlippedChanges
<1>4. run[d].at = "categories" =>
        tombs' \intersect Categories \subseteq (tombs \intersect Categories) \union slipped'[d]
  <2>1. CASE UNCHANGED serverVars
    BY <2>1 DEF serverVars
  <2>2. ASSUME NEW e \in Devices, ApplyBatch(e), run[d].at = "categories"
        PROVE  tombs' \intersect Categories \subseteq (tombs \intersect Categories) \union slipped'[d]
    BY <2>2 DEF ApplyBatch
  <2> QED BY <2>1, <2>2, ServerChanges
<1> QED BY <1>2, <1>3, <1>4 DEF GoneInv, PullInv, Brought, Present

\* A pull about to be applied knows every deletion its device took before.
LEMMA GoneInvPreserved ==
  TypeOK /\ ServerInv /\ BornInv /\ GoneInv /\ [Next]_vars => GoneInv'
<1> SUFFICES ASSUME TypeOK, ServerInv, BornInv, GoneInv, [Next]_vars PROVE GoneInv'
  OBVIOUS
<1>1. tombs \subseteq tombs'
  BY ServerChanges, RecordsKept DEF serverVars
<1>2. ASSUME NEW d \in Devices
      PROVE  gone'[d] \subseteq tombs' /\ run'[d].pull.tombs \subseteq tombs'
  <2>1. gone'[d] \subseteq gone[d] \union run[d].pull.tombs
    BY DeviceChanges DEF Create, Edit, Delete, DeleteUnqueued, ApplyPull, TypeOK, history
  <2> QED BY <1>1, <2>1, PulledTombs DEF GoneInv
<1>3. ASSUME NEW d \in Devices
      PROVE  PullInv(d)'
  <2>1. CASE run'[d].at \notin {"categories", "tombstones", "pulled"}
    BY <2>1 DEF PullInv
  <2> QED BY <2>1, CategoriesRead, TombstonesRead, PullWaits, PulledTombs
<1>4. GoneStaysGone'
  BY GoneFromDevice DEF GoneStaysGone, Shown, Present
<1> QED BY <1>2, <1>3, <1>4 DEF GoneInv

(***************************************************************************)
(* A deletion that has reached a device stays made there, but for the      *)
(* category that slipped between the two queries of its last pull.         *)
(***************************************************************************)
THEOREM DeletedForGood == Spec => []GoneStaysGone
<1>1. GoneInv => GoneStaysGone
  BY DEF GoneInv
<1> QED
  BY TypeInitially, TypePreserved, WholeInitially, WholePreserved, ServerInvInitially,
     ServerInvPreserved, BornInvInitially, BornInvPreserved, GoneInvInitially,
     GoneInvPreserved, <1>1, PTL
  DEF Spec

================================================================================
