--------------------------- MODULE MonthClose_proofs ---------------------------
(***************************************************************************)
(* What TLAPS proves of MonthClose for any rows, any number of months and  *)
(* of requests closing them at once: types; closed months stay as they were*)
(* frozen, and what was frozen adds up; a month is closed with what the    *)
(* dashboard shows; the reports count every row once.                      *)
(***************************************************************************)
EXTENDS MonthClose, Sums

-----------------------------------------------------------------------------
(***************************************************************************)
(* The sums over the rows.                                                 *)
(***************************************************************************)
\* A set of rows is finite, and its amounts are whole numbers.
LEMMA RowSets ==
  ASSUME NEW rows \in SUBSET Rows
  PROVE  IsFiniteSet(rows) /\ \A r \in rows : AmountOf[r] \in Int
BY RowsAreTyped, FS_Subset

\* Their sums are whole numbers.
LEMMA SumInt ==
  ASSUME NEW rows \in SUBSET Rows
  PROVE  Sum(rows) \in Int
BY RowSets, SumType DEF Sum

\* A sum is that of a part and that of the rest.
LEMMA SumSplit ==
  ASSUME NEW rows \in SUBSET Rows, NEW part
  PROVE  Sum(rows) = Sum(rows \intersect part) + Sum(rows \ part)
<1> DEFINE inside == rows \intersect part
           outside == rows \ part
<1>1. /\ inside \in SUBSET Rows /\ outside \in SUBSET Rows
      /\ inside \intersect outside = {} /\ inside \union outside = rows
  OBVIOUS
<1> HIDE DEF inside, outside
<1>2. IsFiniteSet(inside) /\ IsFiniteSet(outside)
      /\ \A r \in inside \union outside : AmountOf[r] \in Int
  BY <1>1, RowSets
<1>3. SumFunctionOnSet(AmountOf, inside \union outside) =
        SumFunctionOnSet(AmountOf, inside) + SumFunctionOnSet(AmountOf, outside)
  BY <1>1, <1>2, SumUnion
<1> QED BY <1>1, <1>3 DEF Sum, inside, outside

(***************************************************************************)
(* The tables hold different rows.                                         *)
(***************************************************************************)
LEMMA TablesDiffer ==
  /\ Entries \intersect Settleable = {} /\ Entries \intersect Parts = {}
  /\ Funds \intersect Parts = {} /\ Cards \intersect Parts = {}
  /\ Entries \intersect Funds = {} /\ Entries \intersect Cards = {}
  /\ Movements \subseteq Parts /\ Transactions \subseteq Parts
  /\ Cards \intersect Transactions = {}
  /\ Entries \union Funds \union Movements \union Cards \union Transactions
       \union Accounts \union Settleable \union Parts \subseteq Rows
BY DEF Entries, Settleable, Parts, Funds, Cards, Movements, Transactions, Accounts,
  Receivables, Bills, InTable

\* What a closing reads is a number.
LEMMA MovedInt ==
  ASSUME NEW f, NEW way
  PROVE  Moved(f, way) \in Int
<1>1. {r \in kept \intersect Movements : ParentOf[r] = f /\ KindOf[r] = way} \in SUBSET Rows
  BY TablesDiffer
<1> QED BY <1>1, SumInt DEF Moved

\* What the funds hold together.
LEMMA ReservesInt ==
  ASSUME TypeOK
  PROVE  Reserves \in Int
<1> DEFINE funds == kept \intersect Funds
           closing == [f \in funds |->
             ClosingReserve(AmountOf[f], Moved(f, "contribution"), Moved(f, "withdrawal"))]
<1>1. funds \in SUBSET Rows
  BY TablesDiffer
<1> HIDE DEF funds
<1>2. IsFiniteSet(funds) /\ \A f \in funds : closing[f] \in Int
  BY <1>1, RowSets, MovedInt DEF ClosingReserve
<1>3. DOMAIN closing = funds
  OBVIOUS
<1> HIDE DEF closing
<1>4. SumFunctionOnSet(closing, funds) \in Int
  BY <1>2, SumType
<1> QED BY <1>3, <1>4 DEF Reserves, SumFunction, closing, funds

\* What the accounts hold together.
LEMMA AvailableInt ==
  ASSUME TypeOK
  PROVE  Available \in Int
<1> DEFINE accounts == kept \intersect Accounts
<1>1. accounts \in SUBSET Rows /\ \A a \in accounts : balance[a] \in Int
  BY TablesDiffer DEF TypeOK
<1> HIDE DEF accounts
<1>2. SumFunctionOnSet(balance, accounts) \in Int
  BY <1>1, RowSets, SumType
<1> QED BY <1>2 DEF Available, accounts

\* What a closing counts.
LEMMA LayersTyped ==
  ASSUME NEW m
  PROVE  Layers(m) \in LayerSet
<1>1. \A kind : OfMonth(m, kind) \in SUBSET Rows
  BY TablesDiffer DEF OfMonth
<1>2. \A kind : Sum(OfMonth(m, kind)) \in Int
  BY <1>1, SumInt
<1>3. Adjustments(m) \in Int
  <2> DEFINE outflows == {e \in OfMonth(m, "adjustment") : CategoryOf[e] \in Deductions}
             inflows == OfMonth(m, "adjustment") \ outflows
  <2>1. outflows \in SUBSET Rows /\ inflows \in SUBSET Rows
    BY <1>1
  <2> HIDE DEF outflows, inflows
  <2>2. Sum(inflows) - Sum(outflows) \in Int
    BY <2>1, SumInt
  <2> QED BY <2>2 DEF Adjustments, inflows, outflows
<1> QED BY <1>2, <1>3 DEF Layers, LayerSet

\* What it carries in from the snapshots.
LEMMA CarriedTyped ==
  ASSUME TypeOK, NEW m \in Months
  PROVE  Carried(m) \in CarriedSet
<1>1. \A k \in Months : snap[k] # NoSnap =>
        /\ snap[k].opening \in Int /\ snap[k].lastReserves \in Int
        /\ snap[k].closing \in Int /\ snap[k].reserves \in Int
  BY DEF TypeOK, SnapshotSet
<1> QED BY <1>1 DEF Carried, CarriedSet

\* The figures made of both.
LEMMA FiguresTyped ==
  ASSUME NEW layers \in LayerSet, NEW carried \in CarriedSet, NEW reserves \in Int
  PROVE  Figures(layers, carried, reserves) \in FigureSet
BY DEF Figures, LayerSet, CarriedSet, FigureSet

\* The snapshot made of the figures.
LEMMA SnapshotTyped ==
  ASSUME NEW f, f \in FigureSet \/ f \in SnapshotSet, NEW closing \in Int,
         NEW remaining \in Int, NEW status \in {"open", "closed"}
  PROVE  Snapshot(f, closing, remaining, status) \in SnapshotSet
BY DEF Snapshot, FigureSet, SnapshotSet

\* The remainder of figures is a number.
LEMMA WaterfallInt ==
  ASSUME NEW f \in FigureSet
  PROVE  Waterfall(f) \in Int
BY DEF Waterfall, FigureSet

\* Seeding a next month gives a snapshot.
LEMMA SeedTyped ==
  ASSUME NEW next \in SnapshotSet \union {NoSnap}, NEW carried \in CarriedSet
  PROVE  Seed(next, carried) \in SnapshotSet
<1>1. NoLayers \in LayerSet
  BY DEF NoLayers, LayerSet
<1>2. NewSnapshot(carried) \in SnapshotSet
  BY <1>1, FiguresTyped, SnapshotTyped DEF NewSnapshot
<1>3. ASSUME next \in SnapshotSet PROVE Reseeded(next, carried) \in SnapshotSet
  <2>1. /\ next.reserves \in Int /\ next.closing \in Int /\ next.remaining \in Int
        /\ next.status \in {"open", "closed"}
    BY <1>3 DEF SnapshotSet
  <2>2. Figures(next, carried, next.reserves) \in FigureSet
    BY <1>3 DEF Figures, CarriedSet, SnapshotSet, FigureSet
  <2> QED BY <2>1, <2>2, SnapshotTyped DEF Reseeded
<1> QED BY <1>2, <1>3 DEF Seed

-----------------------------------------------------------------------------
(***************************************************************************)
(* Types.                                                                  *)
(***************************************************************************)
\* At first.
LEMMA TypesInitially == Init => TypeOK
BY RowsAreTyped, OpenedIsWhole, TablesDiffer DEF Init, TypeOK, RequestSet

\* What a change of the rows keeps.
LEMMA ChangedKeeps ==
  ASSUME TypeOK, Changed,
         kept' \subseteq Rows, archived' \subseteq Categories,
         settled' \subseteq kept' \intersect Settleable, balance' \in [Accounts -> Int],
         pending' \in [Entries -> {"none", "valid", "late"}]
  PROVE  TypeOK'
BY RowsAreTyped DEF TypeOK, Changed, history

\* A request goes on.
LEMMA RequestSetTo ==
  ASSUME TypeOK, NEW s \in Slots, NEW x \in RequestSet,
         req' = [req EXCEPT ![s] = x], UNCHANGED <<bookVars, snap, history>>
  PROVE  TypeOK'
BY DEF TypeOK, bookVars, history

\* An entry is written: only what is there, what is pending and the history
\* change.
LEMMA WrittenTyped ==
  ASSUME TypeOK, NEW e \in Entries, WriteEntry(e), kept' \subseteq Rows,
         settled \subseteq kept' \intersect Settleable
  PROVE  TypeOK'
<1>1. pending' \in [Entries -> {"none", "valid", "late"}]
  BY DEF WriteEntry, TypeOK
<1>2. missed' \in [Slots -> SUBSET {"entries", "close"}]
  BY DEF WriteEntry, TypeOK
<1>3. flaws' \in [Months -> SUBSET {"reseeded", "uncounted"}]
  <2>1. CASE pending[e] = "late"
    <3>1. flaws' = [flaws EXCEPT ![MonthOf[e]] = @ \union {"uncounted"}]
      BY <2>1 DEF WriteEntry
    <3> QED BY <3>1 DEF TypeOK
  <2>2. CASE pending[e] # "late"
    BY <2>2 DEF WriteEntry, TypeOK
  <2> QED BY <2>1, <2>2
<1> QED BY <1>1, <1>2, <1>3 DEF WriteEntry, TypeOK

\* What the state of a request says of its fields.
LEMMA RequestFields ==
  ASSUME TypeOK, NEW s \in Slots
  PROVE  /\ req[s].at # "idle" => req[s].month \in Months /\ req[s].month + 1 \in Months
         /\ req[s].at \in {"counted", "carried"} => req[s].layers \in LayerSet
         /\ req[s].at = "carried" => req[s].carried \in CarriedSet
         /\ req[s].at \in {"reserved", "ready", "writing"} => req[s].figures \in FigureSet
         /\ req[s].at \in {"ready", "writing"} => req[s].closing \in Int
         /\ req[s].at = "writing" => req[s].seeds \in BOOLEAN
BY DEF TypeOK, RequestSet, ToClose, Idle

\* Every action keeps the types.
LEMMA TypesKept == TypeOK /\ [Next]_vars => TypeOK'
<1> SUFFICES ASSUME TypeOK, [Next]_vars PROVE TypeOK'
  OBVIOUS
<1>0. ASSUME NEW e \in Entries, ValidateEntry(e) PROVE TypeOK'
  BY <1>0, ChangedKeeps DEF ValidateEntry, TypeOK
<1>1. ASSUME NEW e \in Entries, AddEntry(e) PROVE TypeOK'
  BY <1>1, WrittenTyped, TablesDiffer DEF AddEntry, TypeOK
<1>2. ASSUME NEW e \in Entries, RemoveEntry(e) PROVE TypeOK'
  BY <1>2, WrittenTyped, TablesDiffer DEF RemoveEntry, TypeOK
<1>3. ASSUME NEW r \in Rows, AddPart(r) PROVE TypeOK'
  BY <1>3, ChangedKeeps DEF AddPart, TypeOK
<1>4. ASSUME NEW r \in Rows, CreateRow(r) PROVE TypeOK'
  BY <1>4, ChangedKeeps DEF CreateRow, TypeOK
<1>5. ASSUME NEW r \in Rows, Settle(r) PROVE TypeOK'
  BY <1>5, ChangedKeeps DEF Settle, TypeOK
<1>6. ASSUME NEW a \in Accounts, NEW amount \in Balances, UpdateBalance(a, amount) PROVE TypeOK'
  BY <1>6, ChangedKeeps, RowsAreTyped DEF UpdateBalance, TypeOK
<1>7. ASSUME NEW c \in Categories, ArchiveCategory(c) PROVE TypeOK'
  BY <1>7, ChangedKeeps DEF ArchiveCategory, TypeOK
<1>8. ASSUME NEW s \in Slots, NEW m \in Months, BeginClose(s, m) PROVE TypeOK'
  <2>1. [at |-> "checked", month |-> m] \in RequestSet
    BY <1>8 DEF BeginClose, RequestSet, ToClose
  <2> QED BY <1>8, <2>1, RequestSetTo DEF BeginClose
<1>9. ASSUME NEW s \in Slots, CountEntries(s) PROVE TypeOK'
  <2> DEFINE x == [at |-> "counted", month |-> req[s].month, layers |-> Layers(req[s].month)]
  <2>1. req' = [req EXCEPT ![s] = x]
    BY <1>9 DEF CountEntries
  <2>2. req[s].month \in ToClose
    BY <1>9, RequestFields DEF CountEntries, ToClose
  <2>3. x \in RequestSet
    BY <2>2, LayersTyped DEF RequestSet
  <2> QED BY <1>9, <2>1, <2>3, RequestSetTo DEF CountEntries
<1>10. ASSUME NEW s \in Slots, ReadSnapshots(s) PROVE TypeOK'
  <2> DEFINE x == [at |-> "carried", month |-> req[s].month, layers |-> req[s].layers,
                   carried |-> Carried(req[s].month)]
  <2>1. req' = [req EXCEPT ![s] = x]
    BY <1>10 DEF ReadSnapshots
  <2>2. req[s].month \in ToClose /\ req[s].month \in Months /\ req[s].layers \in LayerSet
    BY <1>10, RequestFields DEF ReadSnapshots, ToClose
  <2>3. x \in RequestSet
    BY <2>2, CarriedTyped DEF RequestSet
  <2> QED BY <1>10, <2>1, <2>3, RequestSetTo DEF ReadSnapshots
<1>11. ASSUME NEW s \in Slots, ReadFunds(s) PROVE TypeOK'
  <2> DEFINE x == [at |-> "reserved", month |-> req[s].month,
                   figures |-> Figures(req[s].layers, req[s].carried, Reserves)]
  <2>1. req' = [req EXCEPT ![s] = x]
    BY <1>11 DEF ReadFunds
  <2>2. /\ req[s].month \in ToClose
        /\ req[s].layers \in LayerSet /\ req[s].carried \in CarriedSet
    BY <1>11, RequestFields DEF ReadFunds, ToClose
  <2>3. x \in RequestSet
    BY <2>2, ReservesInt, FiguresTyped DEF RequestSet
  <2> QED BY <1>11, <2>1, <2>3, RequestSetTo DEF ReadFunds
<1>12. ASSUME NEW s \in Slots, ReadAccounts(s) PROVE TypeOK'
  <2> DEFINE x == [at |-> "ready", month |-> req[s].month, figures |-> req[s].figures,
                   closing |-> ClosingBalance(Available, req[s].figures.reserves)]
  <2>1. req' = [req EXCEPT ![s] = x]
    BY <1>12 DEF ReadAccounts
  <2>2. req[s].month \in ToClose /\ req[s].figures \in FigureSet
    BY <1>12, RequestFields DEF ReadAccounts, ToClose
  <2>3. ClosingBalance(Available, req[s].figures.reserves) \in Int
    BY <2>2, AvailableInt DEF ClosingBalance, FigureSet
  <2>4. x \in RequestSet
    BY <2>2, <2>3 DEF RequestSet
  <2> QED BY <1>12, <2>1, <2>4, RequestSetTo DEF ReadAccounts
<1>13. ASSUME NEW s \in Slots, WriteMonth(s) PROVE TypeOK'
  <2>1. PICK seeds \in BOOLEAN :
          req' = [req EXCEPT ![s] =
            [at |-> "writing", month |-> req[s].month, figures |-> req[s].figures,
             closing |-> req[s].closing, seeds |-> seeds]]
    BY <1>13 DEF WriteMonth, Writing
  <2>2. /\ req[s].month \in ToClose /\ req[s].figures \in FigureSet
        /\ req[s].closing \in Int
    BY <1>13, RequestFields DEF WriteMonth, Writing, ToClose
  <2>3. [at |-> "writing", month |-> req[s].month, figures |-> req[s].figures,
         closing |-> req[s].closing, seeds |-> seeds] \in RequestSet
    BY <2>2 DEF RequestSet
  <2> QED BY <1>13, <2>1, <2>3, RequestSetTo DEF WriteMonth, Writing
<1>14. ASSUME NEW s \in Slots, Freeze(s) PROVE TypeOK'
  <2>1. PICK m \in Months, k \in Months :
          /\ m = req[s].month /\ k = req[s].month + 1 /\ m # k
          /\ req[s].figures \in FigureSet /\ req[s].closing \in Int
          /\ req[s].seeds \in BOOLEAN
    <3>1. req[s].at = "writing"
      BY <1>14 DEF Freeze
    <3>2. /\ req[s].month \in Months /\ req[s].month + 1 \in Months
          /\ req[s].figures \in FigureSet /\ req[s].closing \in Int
          /\ req[s].seeds \in BOOLEAN
      BY <3>1, RequestFields
    <3>3. req[s].month \in Nat
      BY <3>2, MonthsAreNumbered
    <3>4. req[s].month # req[s].month + 1
      BY <3>3
    <3>5. PICK m \in Months : m = req[s].month
      BY <3>2
    <3> WITNESS m \in Months
    <3>6. PICK k \in Months : k = req[s].month + 1
      BY <3>2
    <3> WITNESS k \in Months
    <3> QED BY <3>2, <3>4, <3>5, <3>6
  <2> DEFINE carried == [opening |-> req[s].closing, lastReserves |-> req[s].figures.reserves]
             frozen == Snapshot(req[s].figures, req[s].closing, Waterfall(req[s].figures), "closed")
             seeded == IF req[s].seeds THEN Seed(snap[k], carried) ELSE snap[k]
  <2>2. carried \in CarriedSet
    BY <2>1 DEF CarriedSet, FigureSet
  <2>3. frozen \in SnapshotSet
    BY <2>1, WaterfallInt, SnapshotTyped
  <2>4. seeded \in SnapshotSet \union {NoSnap}
    BY <2>1, <2>2, SeedTyped DEF TypeOK
  <2>5. snap' = [snap EXCEPT ![m] = frozen, ![k] = seeded]
    BY <1>14, <2>1 DEF Freeze
  <2> HIDE DEF frozen, seeded
  <2>6. snap' \in [Months -> SnapshotSet \union {NoSnap}]
    BY <2>1, <2>3, <2>4, <2>5 DEF TypeOK
  <2>7. req' \in [Slots -> RequestSet]
    BY <1>14 DEF Freeze, TypeOK, RequestSet
  <2>8. /\ pending' \in [Entries -> {"none", "valid", "late"}]
        /\ missed' \in [Slots -> SUBSET {"entries", "close"}]
    BY <1>14 DEF Freeze, ClosedUnseen, TypeOK
  <2>9. flaws' \in [Months -> SUBSET {"reseeded", "uncounted"}]
    <3> DEFINE own == IF "entries" \in missed[s] THEN {"uncounted"} ELSE {}
               next == IF req[s].seeds /\ "close" \in missed[s]
                       THEN flaws[k] \union {"reseeded"} ELSE flaws[k]
    <3>1. flaws' = [flaws EXCEPT ![m] = own, ![k] = next]
      BY <1>14, <2>1 DEF Freeze
    <3>2. own \in SUBSET {"reseeded", "uncounted"} /\ next \in SUBSET {"reseeded", "uncounted"}
      BY <2>1 DEF TypeOK
    <3> HIDE DEF own, next
    <3> QED BY <2>1, <3>1, <3>2 DEF TypeOK
  <2> QED BY <1>14, <2>6, <2>7, <2>8, <2>9 DEF Freeze, TypeOK
<1>15. ASSUME NEW m \in Months, ReopenMonth(m) PROVE TypeOK'
  <2>1. snap[m] \in SnapshotSet
    BY <1>15 DEF ReopenMonth, IsClosed, TypeOK, NoSnap
  <2>2. Snapshot(snap[m], snap[m].closing, snap[m].remaining, "open") \in SnapshotSet
    BY <2>1 DEF SnapshotSet, Snapshot
  <2>3. snap' = [snap EXCEPT ![m] = Snapshot(snap[m], snap[m].closing, snap[m].remaining, "open")]
    BY <1>15 DEF ReopenMonth, TypeOK
  <2>4. snap' \in [Months -> SnapshotSet \union {NoSnap}]
    BY <2>2, <2>3 DEF TypeOK
  <2>5. changes' \in 0..MaxChanges
    BY <1>15, RowsAreTyped DEF ReopenMonth, TypeOK
  <2>6. flaws' \in [Months -> SUBSET {"reseeded", "uncounted"}]
    BY <1>15 DEF ReopenMonth, TypeOK
  <2> QED BY <1>15, <2>4, <2>5, <2>6 DEF ReopenMonth, TypeOK
<1>16. CASE UNCHANGED vars
  BY <1>16 DEF vars, bookVars, history, TypeOK
<1> QED
  BY <1>0, <1>1, <1>2, <1>3, <1>4, <1>5, <1>6, <1>7, <1>8, <1>9, <1>10, <1>11, <1>12, <1>13,
     <1>14, <1>15, <1>16 DEF Next

(***************************************************************************)
(* Whatever is opened, changed, closed and reopened, every figure is a     *)
(* number and every request holds what its next query needs.               *)
(***************************************************************************)
THEOREM BooksTypes == Spec => []TypeOK
BY TypesInitially, TypesKept, PTL DEF Spec
-----------------------------------------------------------------------------
(***************************************************************************)
(* Closed months.                                                          *)
(***************************************************************************)

\* A movement's fund and a transaction's card are there.
Whole == \A r \in kept \intersect (Movements \union Transactions) : ParentOf[r] \in kept

\* A write that was let through and has missed no close is to an open month.
PendingInv ==
  \A e \in Entries, m \in Months :
    MonthOf[e] = m /\ pending[e] = "valid" => ~IsClosed(m)

\* A request about to seed a closed month has missed its close.
SeedsInv ==
  \A s \in Slots, m \in Months :
    req[s].at = "writing" /\ req[s].seeds /\ m = req[s].month + 1 /\ IsClosed(m)
      => "close" \in missed[s]

\* What a request has counted is what there is, unless it has missed entries.
CountsInv ==
  \A s \in Slots, m \in Months :
    s \in Counted(m) /\ "entries" \notin missed[s] =>
      /\ req[s].at \in {"counted", "carried"} => req[s].layers = Layers(m)
      /\ req[s].at \in {"reserved", "ready", "writing"} => LayersOf(req[s].figures) = Layers(m)

BooksInv ==
  /\ TypeOK /\ Whole
  /\ PendingInv /\ SeedsInv /\ CountsInv
  /\ FrozenFiguresAddUp /\ FrozenCountsItsEntries

(***************************************************************************)
(* A snapshot frozen with the waterfall of its figures adds up.            *)
(***************************************************************************)
LEMMA SnapshotAddsUp ==
  ASSUME NEW f, NEW closing, NEW status
  PROVE  Waterfall(Snapshot(f, closing, Waterfall(f), status)) =
           Snapshot(f, closing, Waterfall(f), status).remaining
BY DEF Snapshot, Waterfall

\* A snapshot has the status it is made with, and the layers of its figures.
LEMMA SnapshotParts ==
  ASSUME NEW f, NEW closing, NEW remaining, NEW status
  PROVE  /\ Snapshot(f, closing, remaining, status).status = status
         /\ LayersOf(Snapshot(f, closing, remaining, status)) = LayersOf(f)
BY DEF Snapshot, LayersOf

\* Figures have the layers they are made of.
LEMMA FiguresLayers ==
  ASSUME NEW layers \in LayerSet, NEW carried, NEW reserves
  PROVE  LayersOf(Figures(layers, carried, reserves)) = layers
BY DEF LayersOf, Figures, LayerSet

(***************************************************************************)
(* Seeding closes no month, and leaves the status and the layers of one    *)
(* there is.                                                               *)
(***************************************************************************)
LEMMA SeedKeeps ==
  ASSUME NEW next, NEW carried
  PROVE  /\ next = NoSnap => Seed(next, carried).status # "closed"
         /\ next # NoSnap =>
              /\ Seed(next, carried) = Reseeded(next, carried)
              /\ Seed(next, carried).status = next.status
              /\ LayersOf(Seed(next, carried)) = LayersOf(next)
<1>1. CASE next = NoSnap
  <2>1. Seed(next, carried).status = "open"
    BY <1>1, SnapshotParts DEF Seed, NewSnapshot
  <2> QED BY <1>1, <2>1
<1>2. CASE next # NoSnap
  <2>1. Seed(next, carried) = Reseeded(next, carried)
    BY <1>2 DEF Seed
  <2>2. Reseeded(next, carried).status = next.status
    BY SnapshotParts DEF Reseeded
  <2>3. LayersOf(Reseeded(next, carried)) = LayersOf(Figures(next, carried, next.reserves))
    BY SnapshotParts DEF Reseeded
  <2>4. LayersOf(Figures(next, carried, next.reserves)) = LayersOf(next)
    BY DEF LayersOf, Figures
  <2> QED BY <1>2, <2>1, <2>2, <2>3, <2>4
<1> QED BY <1>1, <1>2

\* Nothing is frozen at first, and what is opened is whole.
LEMMA BooksInvInitially == Init => BooksInv
<1> SUFFICES ASSUME Init PROVE BooksInv
  OBVIOUS
<1>1. Whole
  BY OpenedIsWhole, TablesDiffer DEF Init, Whole
<1>2. \A m \in Months : ~IsClosed(m)
  BY DEF Init, IsClosed, NoSnap
<1>3. \A s \in Slots : req[s].at = "idle"
  BY DEF Init, Idle
<1>4. PendingInv /\ SeedsInv /\ FrozenFiguresAddUp /\ FrozenCountsItsEntries
  BY <1>2 DEF PendingInv, SeedsInv, FrozenFiguresAddUp, FrozenCountsItsEntries
<1>5. CountsInv
  BY <1>3 DEF CountsInv, Counted
<1> QED BY <1>1, <1>4, <1>5, TypesInitially DEF BooksInv

(***************************************************************************)
(* The steps, by what they do to the entries and the closings.             *)
(***************************************************************************)
Aside == UNCHANGED <<snap, req, pending, history>> /\ kept' \intersect Entries = kept \intersect Entries

Written(e) == WriteEntry(e) /\ kept' \ {e} = kept \ {e}

Proceeds(s) ==
  CountEntries(s) \/ ReadSnapshots(s) \/ ReadFunds(s) \/ ReadAccounts(s) \/ WriteMonth(s)

LEMMA Steps ==
  ASSUME [Next]_vars
  PROVE  \/ Aside
         \/ \E e \in Entries : ValidateEntry(e) \/ Written(e)
         \/ \E s \in Slots, m \in Months : BeginClose(s, m)
         \/ \E s \in Slots : Proceeds(s) \/ Freeze(s)
         \/ \E m \in Months : ReopenMonth(m)
<1>1. ASSUME NEW e \in Entries, ValidateEntry(e) \/ AddEntry(e) \/ RemoveEntry(e)
      PROVE  ValidateEntry(e) \/ Written(e)
  BY <1>1 DEF AddEntry, RemoveEntry, Written
<1>2. ASSUME NEW r \in Rows, AddPart(r) \/ CreateRow(r) \/ Settle(r)
      PROVE  Aside
  BY <1>2, TablesDiffer DEF AddPart, CreateRow, Settle, Changed, Aside
<1>3. CASE \E a \in Accounts, amount \in Balances : UpdateBalance(a, amount)
  BY <1>3 DEF UpdateBalance, Changed, Aside
<1>4. CASE \E c \in Categories : ArchiveCategory(c)
  BY <1>4 DEF ArchiveCategory, Changed, Aside
<1>5. CASE UNCHANGED vars
  BY <1>5 DEF vars, bookVars, Aside
<1> QED
  BY <1>1, <1>2, <1>3, <1>4, <1>5 DEF Next, Proceeds

(***************************************************************************)
(* What a transaction does to the month it is about, to the next one and to*)
(* the others, and what the other requests have not seen of it.            *)
(***************************************************************************)
LEMMA FreezeWrites ==
  ASSUME TypeOK, NEW s \in Slots, Freeze(s)
  PROVE  \E m \in Months, k \in Months :
           /\ m = req[s].month /\ k = m + 1 /\ m # k
           /\ req[s].at = "writing" /\ req' = [req EXCEPT ![s] = Idle] /\ req'[s] = Idle
           /\ snap'[m] =
                Snapshot(req[s].figures, req[s].closing, Waterfall(req[s].figures), "closed")
           /\ req[s].seeds => snap'[k] =
                Seed(snap[k], [opening |-> req[s].closing, lastReserves |-> req[s].figures.reserves])
           /\ ~req[s].seeds => snap'[k] = snap[k]
           /\ \A x \in Months \ {m, k} : snap'[x] = snap[x]
           /\ flaws'[m] = IF "entries" \in missed[s] THEN {"uncounted"} ELSE {}
           /\ flaws[k] \subseteq flaws'[k] /\ flaws'[k] \subseteq flaws[k] \union {"reseeded"}
           /\ req[s].seeds /\ "close" \in missed[s] => "reseeded" \in flaws'[k]
           /\ \A x \in Months \ {m, k} : flaws'[x] = flaws[x]
           /\ \A t \in Slots \ {s} :
                /\ missed[t] \subseteq missed'[t] /\ missed'[t] \subseteq missed[t] \union {"close"}
                /\ req[t].at = "writing" /\ req[t].month + 1 = m => "close" \in missed'[t]
           /\ \A e \in Entries :
                /\ MonthOf[e] = m => pending'[e] # "valid"
                /\ MonthOf[e] # m => pending'[e] = pending[e]
<1>1. req[s].at = "writing"
  BY DEF Freeze
<1>2. /\ req[s].month \in Months /\ req[s].month + 1 \in Months
      /\ req[s].month # req[s].month + 1 /\ req[s].seeds \in BOOLEAN
  <2>1. /\ req[s].month \in Months /\ req[s].month + 1 \in Months
        /\ req[s].seeds \in BOOLEAN
    BY <1>1, RequestFields
  <2>2. req[s].month \in Nat
    BY <2>1, MonthsAreNumbered
  <2>3. req[s].month # req[s].month + 1
    BY <2>2
  <2> QED BY <2>1, <2>3
<1>3. PICK m \in Months, k \in Months : m = req[s].month /\ k = m + 1 /\ m # k
  BY <1>2
<1> DEFINE carried == [opening |-> req[s].closing, lastReserves |-> req[s].figures.reserves]
           frozen == Snapshot(req[s].figures, req[s].closing, Waterfall(req[s].figures), "closed")
           seeded == IF req[s].seeds THEN Seed(snap[k], carried) ELSE snap[k]
           own == IF "entries" \in missed[s] THEN {"uncounted"} ELSE {}
           next == IF req[s].seeds /\ "close" \in missed[s]
                   THEN flaws[k] \union {"reseeded"} ELSE flaws[k]
<1>4. /\ snap' = [snap EXCEPT ![m] = frozen, ![k] = seeded]
      /\ flaws' = [flaws EXCEPT ![m] = own, ![k] = next]
      /\ req' = [req EXCEPT ![s] = Idle]
  BY <1>3 DEF Freeze
<1>5. /\ seeded = IF req[s].seeds THEN Seed(snap[k], carried) ELSE snap[k]
      /\ next = IF req[s].seeds /\ "close" \in missed[s]
                THEN flaws[k] \union {"reseeded"} ELSE flaws[k]
      /\ own = IF "entries" \in missed[s] THEN {"uncounted"} ELSE {}
  OBVIOUS
<1>6. /\ \A t \in Slots \ {s} :
           missed'[t] = IF req[t].at = "writing" /\ req[t].month + 1 = m
                        THEN missed[t] \union {"close"} ELSE missed[t]
      /\ \A e \in Entries :
           pending'[e] = IF pending[e] # "none" /\ MonthOf[e] = m THEN "late" ELSE pending[e]
  BY <1>3 DEF Freeze, ClosedUnseen
<1> HIDE DEF frozen, seeded, own, next, carried
<1>7. /\ snap'[m] = frozen /\ snap'[k] = seeded
      /\ \A x \in Months \ {m, k} : snap'[x] = snap[x]
  BY <1>3, <1>4 DEF TypeOK
<1>8. /\ flaws'[m] = own /\ flaws'[k] = next
      /\ \A x \in Months \ {m, k} : flaws'[x] = flaws[x]
  BY <1>3, <1>4 DEF TypeOK
<1>9. req'[s] = Idle
  BY <1>4 DEF TypeOK
<1>10. /\ flaws[k] \subseteq flaws'[k] /\ flaws'[k] \subseteq flaws[k] \union {"reseeded"}
       /\ req[s].seeds /\ "close" \in missed[s] => "reseeded" \in flaws'[k]
  BY <1>5, <1>8
<1>11. /\ \A t \in Slots \ {s} :
            /\ missed[t] \subseteq missed'[t] /\ missed'[t] \subseteq missed[t] \union {"close"}
            /\ req[t].at = "writing" /\ req[t].month + 1 = m => "close" \in missed'[t]
       /\ \A e \in Entries :
            /\ MonthOf[e] = m => pending'[e] # "valid"
            /\ MonthOf[e] # m => pending'[e] = pending[e]
  BY <1>6
<1>12. /\ req[s].seeds => snap'[k] = Seed(snap[k], carried)
       /\ ~req[s].seeds => snap'[k] = snap[k]
       /\ flaws'[m] = IF "entries" \in missed[s] THEN {"uncounted"} ELSE {}
  BY <1>5, <1>7, <1>8
<1> WITNESS m \in Months, k \in Months
<1> QED
  BY <1>1, <1>3, <1>4, <1>7, <1>8, <1>9, <1>10, <1>11, <1>12 DEF frozen, carried

\* What a reopening does.
LEMMA ReopenWrites ==
  ASSUME TypeOK, NEW m \in Months, ReopenMonth(m)
  PROVE  /\ snap'[m] = Snapshot(snap[m], snap[m].closing, snap[m].remaining, "open")
         /\ ~(snap'[m].status = "closed")
         /\ \A k \in Months \ {m} : snap'[k] = snap[k] /\ flaws'[k] = flaws[k]
         /\ UNCHANGED <<req, pending, missed, kept>>
<1>1. /\ snap'[m] = Snapshot(snap[m], snap[m].closing, snap[m].remaining, "open")
      /\ \A k \in Months \ {m} : snap'[k] = snap[k] /\ flaws'[k] = flaws[k]
      /\ UNCHANGED <<req, pending, missed, kept>>
  BY DEF ReopenMonth, TypeOK
<1>2. snap'[m].status = "open"
  BY <1>1, SnapshotParts
<1> QED BY <1>1, <1>2

(***************************************************************************)
(* A month's layers are those of its entries.                              *)
(***************************************************************************)
LEMMA LayersStay ==
  ASSUME NEW m,
         \A e \in Entries : MonthOf[e] = m => (e \in kept' <=> e \in kept)
  PROVE  Layers(m)' = Layers(m)
<1>1. /\ OfMonth(m, "income")' = OfMonth(m, "income")
      /\ OfMonth(m, "incomeDeduction")' = OfMonth(m, "incomeDeduction")
      /\ OfMonth(m, "adjustment")' = OfMonth(m, "adjustment")
      /\ OfMonth(m, "spending")' = OfMonth(m, "spending")
      /\ OfMonth(m, "protection")' = OfMonth(m, "protection")
      /\ OfMonth(m, "saving")' = OfMonth(m, "saving")
  BY DEF OfMonth
<1>2. Adjustments(m)' = Adjustments(m)
  BY <1>1 DEF Adjustments, Sum
<1> QED BY <1>1, <1>2 DEF Layers, Sum

\* An entry written leaves the layers of the other months.
LEMMA WrittenLayers ==
  ASSUME NEW e \in Entries, Written(e), NEW m, MonthOf[e] # m
  PROVE  Layers(m)' = Layers(m)
<1>1. \A x \in Entries : MonthOf[x] = m => (x \in kept' <=> x \in kept)
  BY DEF Written
<1> QED BY <1>1, LayersStay

\* What is not an entry leaves them all.
LEMMA SameLayers ==
  ASSUME kept' \intersect Entries = kept \intersect Entries, NEW m
  PROVE  Layers(m)' = Layers(m)
<1>1. \A x \in Entries : MonthOf[x] = m => (x \in kept' <=> x \in kept)
  OBVIOUS
<1> QED BY <1>1, LayersStay

-----------------------------------------------------------------------------
\* A write is let through while its month is open, and closing the month marks
\* those that were let through before.
LEMMA PendingKept ==
  ASSUME TypeOK, PendingInv, [Next]_vars
  PROVE  PendingInv'
<1>1. CASE Aside
  BY <1>1 DEF Aside, PendingInv, IsClosed
<1>2. ASSUME NEW e \in Entries, ValidateEntry(e) PROVE PendingInv'
  <2>1. /\ UNCHANGED snap /\ ~IsClosed(MonthOf[e])
        /\ \A x \in Entries \ {e} : pending'[x] = pending[x]
    BY <1>2 DEF ValidateEntry, Changed, TypeOK
  <2> QED BY <2>1 DEF PendingInv, IsClosed
<1>3. ASSUME NEW e \in Entries, Written(e) PROVE PendingInv'
  <2>1. /\ UNCHANGED snap /\ pending'[e] = "none"
        /\ \A x \in Entries \ {e} : pending'[x] = pending[x]
    BY <1>3 DEF Written, WriteEntry, TypeOK
  <2> QED BY <2>1 DEF PendingInv, IsClosed
<1>4. ASSUME NEW s \in Slots, Proceeds(s) \/ \E m \in Months : BeginClose(s, m)
      PROVE  PendingInv'
  <2>1. UNCHANGED <<snap, pending>>
    BY <1>4 DEF Proceeds, BeginClose, CountEntries, ReadSnapshots, ReadFunds, ReadAccounts,
      WriteMonth, Writing, bookVars
  <2> QED BY <2>1 DEF PendingInv, IsClosed
<1>5. ASSUME NEW s \in Slots, Freeze(s) PROVE PendingInv'
  <2>1. PICK m \in Months, k \in Months :
          /\ k = m + 1
          /\ req[s].seeds => snap'[k] =
               Seed(snap[k], [opening |-> req[s].closing, lastReserves |-> req[s].figures.reserves])
          /\ ~req[s].seeds => snap'[k] = snap[k]
          /\ \A x \in Months \ {m, k} : snap'[x] = snap[x]
          /\ \A e \in Entries :
               /\ MonthOf[e] = m => pending'[e] # "valid"
               /\ MonthOf[e] # m => pending'[e] = pending[e]
    BY <1>5, FreezeWrites
  <2>2. snap'[k].status = "closed" => snap[k].status = "closed"
    BY <2>1, SeedKeeps
  <2> QED BY <2>1, <2>2 DEF PendingInv, IsClosed
<1>6. ASSUME NEW m \in Months, ReopenMonth(m) PROVE PendingInv'
  BY <1>6, ReopenWrites DEF PendingInv, IsClosed
<1> QED BY <1>1, <1>2, <1>3, <1>4, <1>5, <1>6, Steps

\* A request decides to seed while the next month is open, and closing that
\* one marks the requests that have decided.
LEMMA SeedsKept ==
  ASSUME TypeOK, SeedsInv, [Next]_vars
  PROVE  SeedsInv'
<1>1. CASE Aside
  BY <1>1 DEF Aside, history, SeedsInv, IsClosed
<1>2. ASSUME NEW e \in Entries, ValidateEntry(e) \/ Written(e) PROVE SeedsInv'
  <2>1. UNCHANGED <<snap, req>> /\ \A s \in Slots : missed[s] \subseteq missed'[s]
    BY <1>2 DEF ValidateEntry, Changed, history, Written, WriteEntry
  <2> QED BY <2>1 DEF SeedsInv, IsClosed
<1>3. ASSUME NEW s \in Slots, NEW m \in Months, BeginClose(s, m) PROVE SeedsInv'
  <2>1. /\ UNCHANGED <<snap, missed>> /\ req'[s].at = "checked"
        /\ \A t \in Slots \ {s} : req'[t] = req[t]
    BY <1>3 DEF BeginClose, history, TypeOK
  <2> QED BY <2>1 DEF SeedsInv, IsClosed
<1>4. ASSUME NEW s \in Slots, Proceeds(s) PROVE SeedsInv'
  <2>1. /\ UNCHANGED <<snap, missed>>
        /\ \A t \in Slots \ {s} : req'[t] = req[t]
    BY <1>4 DEF Proceeds, CountEntries, ReadSnapshots, ReadFunds, ReadAccounts,
      WriteMonth, Writing, history, TypeOK
  <2>2. req'[s].at = "writing" =>
          req'[s].month = req[s].month /\ req'[s].seeds = ~IsClosed(req[s].month + 1)
    BY <1>4 DEF Proceeds, CountEntries, ReadSnapshots, ReadFunds, ReadAccounts,
      WriteMonth, Writing, TypeOK
  <2> QED BY <2>1, <2>2 DEF SeedsInv, IsClosed
<1>5. ASSUME NEW s \in Slots, Freeze(s) PROVE SeedsInv'
  <2>1. PICK m \in Months, k \in Months :
          /\ k = m + 1
          /\ req' = [req EXCEPT ![s] = Idle] /\ req'[s] = Idle
          /\ req[s].seeds => snap'[k] =
               Seed(snap[k], [opening |-> req[s].closing, lastReserves |-> req[s].figures.reserves])
          /\ ~req[s].seeds => snap'[k] = snap[k]
          /\ \A x \in Months \ {m, k} : snap'[x] = snap[x]
          /\ \A t \in Slots \ {s} :
               /\ missed[t] \subseteq missed'[t]
               /\ req[t].at = "writing" /\ req[t].month + 1 = m => "close" \in missed'[t]
    BY <1>5, FreezeWrites
  <2>2. snap'[k].status = "closed" => snap[k].status = "closed"
    BY <2>1, SeedKeeps
  <2>3. req'[s].at = "idle" /\ \A t \in Slots \ {s} : req'[t] = req[t]
    BY <2>1 DEF Idle, TypeOK
  <2>4. ASSUME NEW t \in Slots \ {s}, NEW x \in Months, req[t].at = "writing", req[t].seeds,
               x = req[t].month + 1, snap'[x].status = "closed"
        PROVE  "close" \in missed'[t]
    <3>1. CASE x = m
      BY <2>1, <2>4, <3>1
    <3>2. CASE x # m
      <4>1. snap[x].status = "closed"
        BY <2>1, <2>2, <2>4, <3>2
      <4>2. "close" \in missed[t]
        BY <2>4, <4>1 DEF SeedsInv, IsClosed
      <4> QED BY <2>1, <4>2
    <3> QED BY <3>1, <3>2
  <2> QED BY <2>3, <2>4 DEF SeedsInv, IsClosed
<1>6. ASSUME NEW m \in Months, ReopenMonth(m) PROVE SeedsInv'
  BY <1>6, ReopenWrites DEF SeedsInv, IsClosed
<1> QED BY <1>1, <1>2, <1>3, <1>4, <1>5, <1>6, Steps

\* A request keeps what it has counted, and an entry written marks those that
\* have counted its month.
LEMMA CountsKept ==
  ASSUME TypeOK, CountsInv, [Next]_vars
  PROVE  CountsInv'
<1> DEFINE Right(s, m) ==
      s \in Counted(m) /\ "entries" \notin missed[s] =>
        /\ req[s].at \in {"counted", "carried"} => req[s].layers = Layers(m)
        /\ req[s].at \in {"reserved", "ready", "writing"} => LayersOf(req[s].figures) = Layers(m)
<1> SUFFICES ASSUME NEW s \in Slots, NEW m \in Months PROVE Right(s, m)'
  BY DEF CountsInv
<1>0. Right(s, m)
  BY DEF CountsInv
<1>1. ASSUME req'[s] = req[s], missed[s] \intersect {"entries"} = missed'[s] \intersect {"entries"},
             Layers(m)' = Layers(m)
      PROVE  Right(s, m)'
  BY <1>0, <1>1 DEF Counted
<1>2. CASE Aside
  <2>1. Layers(m)' = Layers(m)
    BY <1>2, SameLayers DEF Aside
  <2> QED BY <1>1, <1>2, <2>1 DEF Aside, history
<1>3. ASSUME NEW e \in Entries, ValidateEntry(e) PROVE Right(s, m)'
  <2>1. UNCHANGED <<kept, req, missed>>
    BY <1>3 DEF ValidateEntry, Changed, history
  <2>2. Layers(m)' = Layers(m)
    BY <2>1, SameLayers
  <2> QED BY <1>1, <2>1, <2>2
<1>4. ASSUME NEW e \in Entries, Written(e) PROVE Right(s, m)'
  <2>1. /\ UNCHANGED req
        /\ missed'[s] = IF s \in Counted(MonthOf[e]) THEN missed[s] \union {"entries"} ELSE missed[s]
    BY <1>4 DEF Written, WriteEntry
  <2>2. CASE MonthOf[e] = m
    BY <2>1, <2>2 DEF Counted
  <2>3. CASE MonthOf[e] # m
    <3>1. Layers(m)' = Layers(m)
      BY <1>4, <2>3, WrittenLayers
    <3>2. CASE s \in Counted(m)
      BY <1>1, <2>1, <2>3, <3>1, <3>2 DEF Counted
    <3>3. CASE s \notin Counted(m)
      BY <2>1, <3>3 DEF Counted
    <3> QED BY <3>2, <3>3
  <2> QED BY <2>2, <2>3
<1>5. ASSUME NEW t \in Slots, NEW k \in Months, BeginClose(t, k) PROVE Right(s, m)'
  <2>1. Layers(m)' = Layers(m) /\ UNCHANGED missed
    BY <1>5, SameLayers DEF BeginClose, bookVars, history
  <2>2. CASE s = t
    <3>1. req'[s].at = "checked"
      BY <1>5, <2>2 DEF BeginClose, TypeOK
    <3> QED BY <3>1 DEF Counted
  <2>3. CASE s # t
    BY <1>1, <1>5, <2>1, <2>3 DEF BeginClose, TypeOK
  <2> QED BY <2>2, <2>3
<1>6. ASSUME NEW t \in Slots, Proceeds(t) PROVE Right(s, m)'
  <2>1. Layers(m)' = Layers(m) /\ UNCHANGED missed
    BY <1>6, SameLayers DEF Proceeds, CountEntries, ReadSnapshots, ReadFunds, ReadAccounts,
      WriteMonth, Writing, bookVars, history
  <2>2. CASE s # t
    BY <1>1, <1>6, <2>1, <2>2 DEF Proceeds, CountEntries, ReadSnapshots, ReadFunds,
      ReadAccounts, WriteMonth, Writing, TypeOK
  <2>3. CASE s = t
    <3>1. CASE CountEntries(s)
      <4>1. req'[s] = [at |-> "counted", month |-> req[s].month, layers |-> Layers(req[s].month)]
        BY <3>1 DEF CountEntries, TypeOK
      <4>2. /\ req'[s].at = "counted" /\ req'[s].month = req[s].month
            /\ req'[s].layers = Layers(req[s].month)
        BY <4>1
      <4> QED BY <2>1, <4>2 DEF Counted
    <3>2. CASE ReadSnapshots(s)
      <4>1. /\ req[s].at = "counted"
            /\ req'[s].at = "carried" /\ req'[s].month = req[s].month
            /\ req'[s].layers = req[s].layers
        BY <3>2 DEF ReadSnapshots, TypeOK
      <4> QED BY <1>0, <2>1, <4>1 DEF Counted
    <3>3. CASE ReadFunds(s)
      <4>1. PICK reserves :
              req'[s] = [at |-> "reserved", month |-> req[s].month,
                         figures |-> Figures(req[s].layers, req[s].carried, reserves)]
        BY <3>3 DEF ReadFunds, TypeOK
      <4>2. req[s].at = "carried" /\ req[s].layers \in LayerSet
        BY <3>3, RequestFields DEF ReadFunds
      <4>3. /\ req'[s].at = "reserved" /\ req'[s].month = req[s].month
            /\ req'[s].figures = Figures(req[s].layers, req[s].carried, reserves)
        BY <4>1
      <4>4. LayersOf(req'[s].figures) = req[s].layers
        BY <4>2, <4>3, FiguresLayers
      <4> QED BY <1>0, <2>1, <4>2, <4>3, <4>4 DEF Counted, LayersOf
    <3>4. CASE ReadAccounts(s) \/ WriteMonth(s)
      <4>1. /\ req[s].at \in {"reserved", "ready"} /\ req'[s].at \in {"ready", "writing"}
            /\ req'[s].month = req[s].month /\ req'[s].figures = req[s].figures
        BY <3>4 DEF ReadAccounts, WriteMonth, Writing, TypeOK
      <4> QED BY <1>0, <2>1, <4>1 DEF Counted, LayersOf
    <3> QED BY <1>6, <2>3, <3>1, <3>2, <3>3, <3>4 DEF Proceeds
  <2> QED BY <2>2, <2>3
<1>7. ASSUME NEW t \in Slots, Freeze(t) PROVE Right(s, m)'
  <2>1. Layers(m)' = Layers(m)
    BY <1>7, SameLayers DEF Freeze
  <2>2. /\ req' = [req EXCEPT ![t] = Idle]
        /\ \A u \in Slots \ {t} : missed'[u] \in {missed[u], missed[u] \union {"close"}}
    BY <1>7 DEF Freeze, ClosedUnseen
  <2>3. CASE s = t
    <3>1. req'[s].at = "idle"
      BY <2>2, <2>3 DEF Idle, TypeOK
    <3> QED BY <3>1 DEF Counted
  <2>4. CASE s # t
    <3>1. req'[s] = req[s] /\ missed[s] \intersect {"entries"} = missed'[s] \intersect {"entries"}
      BY <2>2, <2>4
    <3> QED BY <1>1, <2>1, <3>1
  <2> QED BY <2>3, <2>4
<1>8. ASSUME NEW k \in Months, ReopenMonth(k) PROVE Right(s, m)'
  <2>1. UNCHANGED <<kept, req, missed>>
    BY <1>8, ReopenWrites
  <2>2. Layers(m)' = Layers(m)
    BY <2>1, SameLayers
  <2> QED BY <1>1, <2>1, <2>2
<1> QED BY <1>2, <1>3, <1>4, <1>5, <1>6, <1>7, <1>8, Steps

(***************************************************************************)
(* What is frozen adds up: a transaction writes the waterfall of what it   *)
(* writes, and changes a closed next month only where it marks it.         *)
(***************************************************************************)
LEMMA FrozenKept ==
  ASSUME TypeOK, SeedsInv, FrozenFiguresAddUp, [Next]_vars
  PROVE  FrozenFiguresAddUp'
<1>1. ASSUME UNCHANGED snap, \A m \in Months : "reseeded" \in flaws[m] => "reseeded" \in flaws'[m]
      PROVE  FrozenFiguresAddUp'
  BY <1>1 DEF FrozenFiguresAddUp, IsClosed
<1>2. CASE Aside
  BY <1>1, <1>2 DEF Aside, history
<1>3. ASSUME NEW e \in Entries, ValidateEntry(e) PROVE FrozenFiguresAddUp'
  BY <1>1, <1>3 DEF ValidateEntry, Changed, history
<1>4. ASSUME NEW e \in Entries, Written(e) PROVE FrozenFiguresAddUp'
  <2>1. UNCHANGED snap
    BY <1>4 DEF Written, WriteEntry
  <2>2. \A m \in Months : "reseeded" \in flaws[m] => "reseeded" \in flaws'[m]
    BY <1>4 DEF Written, WriteEntry, TypeOK
  <2> QED BY <1>1, <2>1, <2>2
<1>5. ASSUME NEW s \in Slots, Proceeds(s) \/ \E m \in Months : BeginClose(s, m)
      PROVE  FrozenFiguresAddUp'
  BY <1>1, <1>5 DEF Proceeds, BeginClose, CountEntries, ReadSnapshots, ReadFunds, ReadAccounts,
    WriteMonth, Writing, history
<1>6. ASSUME NEW s \in Slots, Freeze(s) PROVE FrozenFiguresAddUp'
  <2>1. PICK m \in Months, k \in Months :
          /\ m = req[s].month /\ k = m + 1 /\ req[s].at = "writing"
          /\ snap'[m] =
               Snapshot(req[s].figures, req[s].closing, Waterfall(req[s].figures), "closed")
          /\ req[s].seeds => snap'[k] =
               Seed(snap[k], [opening |-> req[s].closing, lastReserves |-> req[s].figures.reserves])
          /\ ~req[s].seeds => snap'[k] = snap[k]
          /\ \A x \in Months \ {m, k} : snap'[x] = snap[x]
          /\ flaws[k] \subseteq flaws'[k]
          /\ req[s].seeds /\ "close" \in missed[s] => "reseeded" \in flaws'[k]
          /\ \A x \in Months \ {m, k} : flaws'[x] = flaws[x]
    BY <1>6, FreezeWrites
  <2>2. snap'[m].remaining = Waterfall(snap'[m])
    BY <2>1, SnapshotAddsUp
  <2>3. ASSUME snap'[k].status = "closed", "reseeded" \notin flaws'[k]
        PROVE  snap'[k].remaining = Waterfall(snap'[k])
    <3>1. snap[k].status = "closed"
      BY <2>1, <2>3, SeedKeeps
    <3>2. req[s].seeds \in BOOLEAN
      BY <2>1, RequestFields
    <3>3. ~req[s].seeds
      BY <2>1, <2>3, <3>1, <3>2 DEF SeedsInv, IsClosed
    <3> QED BY <2>1, <2>3, <3>1, <3>3 DEF FrozenFiguresAddUp, IsClosed
  <2>4. \A x \in Months \ {m, k} :
          snap'[x].status = "closed" /\ "reseeded" \notin flaws'[x] =>
            snap'[x].remaining = Waterfall(snap'[x])
    BY <2>1 DEF FrozenFiguresAddUp, IsClosed
  <2> QED BY <2>2, <2>3, <2>4 DEF FrozenFiguresAddUp, IsClosed
<1>7. ASSUME NEW m \in Months, ReopenMonth(m) PROVE FrozenFiguresAddUp'
  BY <1>7, ReopenWrites DEF FrozenFiguresAddUp, IsClosed
<1> QED BY <1>2, <1>3, <1>4, <1>5, <1>6, <1>7, Steps

(***************************************************************************)
(* What is frozen counts the entries: a transaction freezes what its       *)
(* request has counted, an entry written to a closed month had been let    *)
(* through before, and seeding leaves the layers.                          *)
(***************************************************************************)
LEMMA CountedKept ==
  ASSUME TypeOK, PendingInv, CountsInv, FrozenCountsItsEntries, [Next]_vars
  PROVE  FrozenCountsItsEntries'
<1>1. ASSUME UNCHANGED <<snap, flaws>>, kept' \intersect Entries = kept \intersect Entries
      PROVE  FrozenCountsItsEntries'
  <2>1. \A m \in Months : Layers(m)' = Layers(m)
    BY <1>1, SameLayers
  <2> QED BY <1>1, <2>1 DEF FrozenCountsItsEntries, IsClosed, LayersOf
<1>2. CASE Aside
  BY <1>1, <1>2 DEF Aside, history
<1>3. ASSUME NEW e \in Entries, ValidateEntry(e) PROVE FrozenCountsItsEntries'
  BY <1>1, <1>3 DEF ValidateEntry, Changed, history
<1>4. ASSUME NEW e \in Entries, Written(e) PROVE FrozenCountsItsEntries'
  <2> SUFFICES ASSUME NEW m \in Months, snap[m].status = "closed", "uncounted" \notin flaws'[m]
               PROVE  LayersOf(snap[m]) = Layers(m)'
    BY <1>4 DEF FrozenCountsItsEntries, IsClosed, Written, WriteEntry, LayersOf
  <2>1. /\ pending[e] \in {"valid", "late"}
        /\ pending[e] = "late" => flaws' = [flaws EXCEPT ![MonthOf[e]] = @ \union {"uncounted"}]
        /\ pending[e] # "late" => flaws' = flaws
    BY <1>4 DEF Written, WriteEntry, TypeOK
  <2>2. MonthOf[e] # m
    <3> SUFFICES ASSUME MonthOf[e] = m PROVE FALSE
      OBVIOUS
    <3>1. pending[e] = "late"
      BY <2>1 DEF PendingInv, IsClosed
    <3>2. "uncounted" \in flaws'[m]
      BY <2>1, <3>1 DEF TypeOK
    <3> QED BY <3>2
  <2>3. "uncounted" \notin flaws[m]
    BY <2>1 DEF TypeOK
  <2>4. Layers(m)' = Layers(m)
    BY <1>4, <2>2, WrittenLayers
  <2> QED BY <2>3, <2>4 DEF FrozenCountsItsEntries, IsClosed
<1>5. ASSUME NEW s \in Slots, Proceeds(s) \/ \E m \in Months : BeginClose(s, m)
      PROVE  FrozenCountsItsEntries'
  BY <1>1, <1>5 DEF Proceeds, BeginClose, CountEntries, ReadSnapshots, ReadFunds, ReadAccounts,
    WriteMonth, Writing, bookVars, history
<1>6. ASSUME NEW s \in Slots, Freeze(s) PROVE FrozenCountsItsEntries'
  <2>1. PICK m \in Months, k \in Months :
          /\ m = req[s].month /\ k = m + 1 /\ req[s].at = "writing"
          /\ snap'[m] =
               Snapshot(req[s].figures, req[s].closing, Waterfall(req[s].figures), "closed")
          /\ req[s].seeds => snap'[k] =
               Seed(snap[k], [opening |-> req[s].closing, lastReserves |-> req[s].figures.reserves])
          /\ ~req[s].seeds => snap'[k] = snap[k]
          /\ \A x \in Months \ {m, k} : snap'[x] = snap[x]
          /\ flaws'[m] = IF "entries" \in missed[s] THEN {"uncounted"} ELSE {}
          /\ flaws[k] \subseteq flaws'[k]
          /\ \A x \in Months \ {m, k} : flaws'[x] = flaws[x]
    BY <1>6, FreezeWrites
  <2>2. \A x \in Months : Layers(x)' = Layers(x)
    BY <1>6, SameLayers DEF Freeze
  <2>3. "uncounted" \notin flaws'[m] => LayersOf(snap'[m]) = Layers(m)
    <3>1. s \in Counted(m)
      BY <2>1 DEF Counted
    <3>2. "entries" \notin missed[s] => LayersOf(req[s].figures) = Layers(m)
      BY <2>1, <3>1 DEF CountsInv
    <3>3. LayersOf(snap'[m]) = LayersOf(req[s].figures)
      BY <2>1, SnapshotParts
    <3> QED BY <2>1, <3>2, <3>3
  <2>4. ASSUME snap'[k].status = "closed", "uncounted" \notin flaws'[k]
        PROVE  LayersOf(snap'[k]) = Layers(k)
    <3>1. snap[k].status = "closed" /\ LayersOf(snap'[k]) = LayersOf(snap[k])
      BY <2>1, <2>4, SeedKeeps
    <3>2. "uncounted" \notin flaws[k]
      BY <2>1, <2>4
    <3> QED BY <3>1, <3>2 DEF FrozenCountsItsEntries, IsClosed
  <2>5. \A x \in Months \ {m, k} :
          snap'[x].status = "closed" /\ "uncounted" \notin flaws'[x] =>
            LayersOf(snap'[x]) = Layers(x)
    <3> SUFFICES ASSUME NEW x \in Months \ {m, k}, snap'[x].status = "closed",
                        "uncounted" \notin flaws'[x]
                 PROVE  LayersOf(snap'[x]) = Layers(x)
      OBVIOUS
    <3>1. snap'[x] = snap[x] /\ flaws'[x] = flaws[x]
      BY <2>1
    <3> QED BY <3>1 DEF FrozenCountsItsEntries, IsClosed
  <2>6. \A x \in Months : snap'[x].status = "closed" /\ "uncounted" \notin flaws'[x] =>
          LayersOf(snap'[x]) = Layers(x)'
    BY <2>2, <2>3, <2>4, <2>5
  <2> QED BY <2>6 DEF FrozenCountsItsEntries, IsClosed, LayersOf
<1>7. ASSUME NEW m \in Months, ReopenMonth(m) PROVE FrozenCountsItsEntries'
  <2>1. \A x \in Months : Layers(x)' = Layers(x)
    BY <1>7, ReopenWrites, SameLayers
  <2>2. \A x \in Months : snap'[x].status = "closed" =>
          x # m /\ snap'[x] = snap[x] /\ flaws'[x] = flaws[x]
    BY <1>7, ReopenWrites
  <2> QED BY <2>1, <2>2 DEF FrozenCountsItsEntries, IsClosed, LayersOf
<1> QED BY <1>2, <1>3, <1>4, <1>5, <1>6, <1>7, Steps

(***************************************************************************)
(* A part is added to what is there, and only entries are removed.         *)
(***************************************************************************)
LEMMA WholeKept ==
  ASSUME TypeOK, Whole, [Next]_vars
  PROVE  Whole'
<1>1. ASSUME UNCHANGED kept PROVE Whole'
  BY <1>1 DEF Whole
<1>2. ASSUME NEW e \in Entries, AddEntry(e) \/ RemoveEntry(e) PROVE Whole'
  <2>1. \A p \in Movements \union Transactions : ParentOf[p] # e /\ p # e
    BY <1>2, TablesDiffer, RowsAreTyped
  <2>2. kept' = kept \union {e} \/ kept' = kept \ {e}
    BY <1>2 DEF AddEntry, RemoveEntry
  <2> QED BY <2>1, <2>2 DEF Whole
<1>3. ASSUME NEW r \in Rows, AddPart(r) PROVE Whole'
  BY <1>3 DEF AddPart, Whole
<1>4. ASSUME NEW r \in Rows, CreateRow(r) PROVE Whole'
  BY <1>4, TablesDiffer DEF CreateRow, Whole
<1>5. CASE \E e \in Entries : ValidateEntry(e)
  BY <1>1, <1>5 DEF ValidateEntry
<1>6. CASE \/ \E r \in Rows : Settle(r)
           \/ \E a \in Accounts, amount \in Balances : UpdateBalance(a, amount)
           \/ \E c \in Categories : ArchiveCategory(c)
  BY <1>1, <1>6 DEF Settle, UpdateBalance, ArchiveCategory
<1>7. CASE \E s \in Slots :
             \/ \E m \in Months : BeginClose(s, m)
             \/ CountEntries(s) \/ ReadSnapshots(s) \/ ReadFunds(s) \/ ReadAccounts(s)
             \/ WriteMonth(s) \/ Freeze(s)
  BY <1>1, <1>7 DEF BeginClose, CountEntries, ReadSnapshots, ReadFunds, ReadAccounts,
    WriteMonth, Writing, Freeze, bookVars
<1>8. CASE \E m \in Months : ReopenMonth(m)
  BY <1>1, <1>8 DEF ReopenMonth
<1>9. CASE UNCHANGED vars
  BY <1>1, <1>9 DEF vars, bookVars
<1> QED
  BY <1>2, <1>3, <1>4, <1>5, <1>6, <1>7, <1>8, <1>9 DEF Next

\* The invariant is inductive.
LEMMA BooksInvPreserved == BooksInv /\ [Next]_vars => BooksInv'
BY TypesKept, WholeKept, PendingKept, SeedsKept, CountsKept, FrozenKept, CountedKept DEF BooksInv

\* It holds throughout.
LEMMA Books == Spec => []BooksInv
BY BooksInvInitially, BooksInvPreserved, PTL DEF Spec

(***************************************************************************)
(* A closed month's remainder is the waterfall of the figures frozen with  *)
(* it, unless a request that had missed its close carried others in.       *)
(***************************************************************************)
THEOREM FrozenAddsUp == Spec => []FrozenFiguresAddUp
<1>1. BooksInv => FrozenFiguresAddUp
  BY DEF BooksInv
<1> QED BY Books, <1>1, PTL

(***************************************************************************)
(* A closed month's figures count its entries, unless one was written after*)
(* they were counted or let through before the month was closed.           *)
(***************************************************************************)
THEOREM FrozenCounts == Spec => []FrozenCountsItsEntries
<1>1. BooksInv => FrozenCountsItsEntries
  BY DEF BooksInv
<1> QED BY Books, <1>1, PTL

(***************************************************************************)
(* A closed month changes only by a request to close that month, by being  *)
(* reopened, or in what is carried in, by a request to close the month     *)
(* before it that has missed its close.                                    *)
(***************************************************************************)
THEOREM FrozenStays == Spec => FrozenMonthKept
<1> DEFINE Kept(m) ==
      IsClosed(m) /\ snap'[m] # snap[m] =>
        \/ snap'[m] = Snapshot(snap[m], snap[m].closing, snap[m].remaining, "open")
        \/ \E s \in Slots :
             /\ req[s].at = "writing" /\ req'[s] = Idle
             /\ \/ req[s].month = m
                \/ /\ req[s].month + 1 = m /\ "close" \in missed[s]
                   /\ snap'[m] = Reseeded(snap[m],
                        [opening |-> req[s].closing, lastReserves |-> req[s].figures.reserves])
<1>1. ASSUME BooksInv, [Next]_vars, NEW m \in Months
      PROVE  Kept(m)
  <2> SUFFICES ASSUME IsClosed(m), snap'[m] # snap[m] PROVE Kept(m)
    OBVIOUS
  <2>1. ASSUME NEW s \in Slots, Freeze(s) PROVE Kept(m)
    <3>1. PICK own \in Months, k \in Months :
            /\ own = req[s].month /\ k = own + 1
            /\ req[s].at = "writing" /\ req'[s] = Idle
            /\ req[s].seeds => snap'[k] =
                 Seed(snap[k], [opening |-> req[s].closing, lastReserves |-> req[s].figures.reserves])
            /\ ~req[s].seeds => snap'[k] = snap[k]
            /\ \A x \in Months \ {own, k} : snap'[x] = snap[x]
      BY <1>1, <2>1, FreezeWrites DEF BooksInv
    <3>2. CASE m = own
      BY <3>1, <3>2
    <3>3. CASE m # own
      <4>1. m = k /\ req[s].seeds
        BY <3>1, <3>3, <1>1, RequestFields DEF BooksInv
      <4>2. "close" \in missed[s]
        BY <1>1, <3>1, <4>1 DEF BooksInv, SeedsInv
      <4>3. snap[m] # NoSnap
        BY DEF IsClosed, NoSnap
      <4>4. snap'[m] = Reseeded(snap[m],
              [opening |-> req[s].closing, lastReserves |-> req[s].figures.reserves])
        BY <3>1, <4>1, <4>3 DEF Seed
      <4> QED BY <3>1, <4>1, <4>2, <4>4
    <3> QED BY <3>2, <3>3
  <2>2. ASSUME NEW k \in Months, ReopenMonth(k) PROVE Kept(m)
    BY <1>1, <2>2, ReopenWrites DEF BooksInv
  <2>3. ASSUME UNCHANGED snap PROVE Kept(m)
    BY <2>3
  <2>4. ASSUME NEW s \in Slots, Proceeds(s) \/ \E k \in Months : BeginClose(s, k)
        PROVE  UNCHANGED snap
    BY <2>4 DEF Proceeds, BeginClose, CountEntries, ReadSnapshots, ReadFunds, ReadAccounts,
      WriteMonth, Writing
  <2>5. ASSUME NEW e \in Entries, ValidateEntry(e) \/ Written(e) PROVE UNCHANGED snap
    BY <2>5 DEF ValidateEntry, Changed, Written, WriteEntry
  <2>6. Aside => UNCHANGED snap
    BY DEF Aside
  <2> HIDE DEF Kept
  <2> QED BY <1>1, <2>1, <2>2, <2>3, <2>4, <2>5, <2>6, Steps
<1>2. BooksInv /\ [Next]_vars => [\A m \in Months : Kept(m)]_vars
  BY <1>1
<1> QED BY Books, <1>2, PTL DEF Spec, FrozenMonthKept

-----------------------------------------------------------------------------
(***************************************************************************)
(* The dashboard and the figures a closing reads.                          *)
(***************************************************************************)

\* Signing each adjustment and adding up is adding up and subtracting.
LEMMA AdjustmentsSigned ==
  ASSUME NEW m
  PROVE  Adjustments(m) =
           SumFunction([e \in OfMonth(m, "adjustment") |->
                          IF CategoryOf[e] \in Deductions THEN -AmountOf[e] ELSE AmountOf[e]])
<1> DEFINE rows == OfMonth(m, "adjustment")
           out == {e \in rows : CategoryOf[e] \in Deductions}
           in == rows \ out
           g == [e \in rows |-> IF CategoryOf[e] \in Deductions THEN -AmountOf[e] ELSE AmountOf[e]]
           none == [e \in rows |-> 0]
<1>1. rows \in SUBSET Rows
  BY TablesDiffer DEF OfMonth
<1>2. /\ in \in SUBSET Rows /\ out \in SUBSET Rows
      /\ in \intersect out = {} /\ in \union out = rows
  BY <1>1
<1>3. \A e \in rows : AmountOf[e] \in Int
  BY <1>1, RowSets
<1>4. /\ \A e \in in : g[e] = AmountOf[e] /\ g[e] \in Int
      /\ \A e \in out : g[e] = -AmountOf[e] /\ g[e] \in Int /\ none[e] = AmountOf[e] + g[e]
      /\ \A e \in out : none[e] = 0
      /\ DOMAIN g = rows
  BY <1>3
<1>5. Adjustments(m) = Sum(in) - Sum(out)
  BY DEF Adjustments
<1> HIDE DEF rows, in, out, g, none
<1>6. IsFiniteSet(in) /\ IsFiniteSet(out)
  BY <1>2, RowSets
<1>7. SumFunctionOnSet(g, rows) = SumFunctionOnSet(g, in) + SumFunctionOnSet(g, out)
  BY <1>2, <1>4, <1>6, SumUnion
<1>8. SumFunctionOnSet(g, in) = Sum(in)
  BY <1>4, <1>6, SumSame DEF Sum
<1>9. SumFunctionOnSet(g, out) = -Sum(out)
  <2>1. SumFunctionOnSet(none, out) = 0
    BY <1>4, <1>6, SumZero
  <2>2. \A e \in out : AmountOf[e] \in Int
    BY <1>2, RowSets
  <2>3. SumFunctionOnSet(none, out) = Sum(out) + SumFunctionOnSet(g, out)
    BY <1>4, <1>6, <2>2, SumPlus DEF Sum
  <2>4. Sum(out) \in Int /\ SumFunctionOnSet(g, out) \in Int
    BY <1>2, <1>4, <1>6, SumInt, SumType
  <2> QED BY <2>1, <2>3, <2>4
<1>10. Sum(in) \in Int /\ Sum(out) \in Int
  BY <1>2, SumInt
<1>11. SumFunction(g) = Adjustments(m)
  BY <1>4, <1>5, <1>7, <1>8, <1>9, <1>10 DEF SumFunction
<1> QED BY <1>11 DEF g, rows

\* The dashboard, as one handler reads it, shows the figures a closing works
\* out query by query.
LEMMA DashboardFigures ==
  ASSUME NEW m
  PROVE  /\ Dashboard(m).figures = Figures(Layers(m), Carried(m), Reserves)
         /\ Dashboard(m).totalAvailable = Available
<1> DEFINE entries == {e \in kept \intersect Entries : MonthOf[e] = m}
<1>1. \A kind : {e \in entries : KindOf[CategoryOf[e]] = kind} = OfMonth(m, kind)
  BY DEF OfMonth
<1>2. SumFunction([e \in {a \in entries : KindOf[CategoryOf[a]] = "adjustment"} |->
         IF CategoryOf[e] \in Deductions THEN -AmountOf[e] ELSE AmountOf[e]]) = Adjustments(m)
  BY <1>1, AdjustmentsSigned
<1> QED BY <1>1, <1>2 DEF Dashboard, Layers, Reserves

(***************************************************************************)
(* Only the queries of a closing put a request into the states that hold   *)
(* figures.                                                                *)
(***************************************************************************)
LEMMA RequestsChange ==
  ASSUME TypeOK, [Next]_vars, NEW s \in Slots, req'[s] # req[s],
         req'[s].at \in {"counted", "carried", "reserved", "ready"}
  PROVE  CountEntries(s) \/ ReadSnapshots(s) \/ ReadFunds(s) \/ ReadAccounts(s)
<1>0. ASSUME NEW e \in Entries, ValidateEntry(e) \/ AddEntry(e) \/ RemoveEntry(e) PROVE FALSE
  BY <1>0 DEF ValidateEntry, AddEntry, RemoveEntry, WriteEntry, Changed
<1>1. ASSUME NEW r \in Rows, AddPart(r) \/ CreateRow(r) \/ Settle(r) PROVE FALSE
  BY <1>1 DEF AddPart, CreateRow, Settle, Changed
<1>2. ASSUME NEW a \in Accounts, NEW amount \in Balances, UpdateBalance(a, amount) PROVE FALSE
  BY <1>2 DEF UpdateBalance, Changed
<1>3. ASSUME NEW c \in Categories, ArchiveCategory(c) PROVE FALSE
  BY <1>3 DEF ArchiveCategory, Changed
<1>4. ASSUME NEW k \in Slots, NEW m \in Months, BeginClose(k, m) PROVE FALSE
  BY <1>4 DEF BeginClose, TypeOK
<1>5. ASSUME NEW k \in Slots, CountEntries(k) \/ ReadSnapshots(k) \/ ReadFunds(k) \/ ReadAccounts(k)
      PROVE  k = s
  BY <1>5 DEF CountEntries, ReadSnapshots, ReadFunds, ReadAccounts, TypeOK
<1>6. ASSUME NEW k \in Slots, WriteMonth(k) PROVE FALSE
  BY <1>6 DEF WriteMonth, Writing, TypeOK
<1>7. ASSUME NEW k \in Slots, Freeze(k) PROVE FALSE
  BY <1>7 DEF Freeze, TypeOK, Idle
<1>8. ASSUME NEW m \in Months, ReopenMonth(m) PROVE FALSE
  BY <1>8 DEF ReopenMonth
<1>9. CASE UNCHANGED vars
  BY <1>9 DEF vars
<1> QED
  BY <1>0, <1>1, <1>2, <1>3, <1>4, <1>5, <1>6, <1>7, <1>8, <1>9 DEF Next

(***************************************************************************)
(* Each figure closeMonth works out for itself (months.service.ts:68-138)  *)
(* is, when its rows are read, what getDashboard shows                     *)
(* (reports.service.ts:17-166), whatever other requests do meanwhile.      *)
(***************************************************************************)
THEOREM ClosingShown == Spec => ClosesWhatDashboardShows
<1> DEFINE Agrees(s) ==
      req'[s] # req[s] /\ req'[s].at \in {"counted", "carried", "reserved", "ready"} =>
         LET r == req'[s]
             shown == Dashboard(r.month) IN
         /\ r.at = "counted" => \A layer \in DOMAIN r.layers : r.layers[layer] = shown.figures[layer]
         /\ r.at = "carried" => \A part \in DOMAIN r.carried : r.carried[part] = shown.figures[part]
         /\ r.at = "reserved" => r.figures.reserves = shown.figures.reserves
         /\ r.at = "ready" => r.closing = shown.totalAvailable - r.figures.reserves
<1>1. ASSUME TypeOK, [Next]_vars, NEW s \in Slots
      PROVE  Agrees(s)
  <2> SUFFICES ASSUME req'[s] # req[s],
                      req'[s].at \in {"counted", "carried", "reserved", "ready"}
               PROVE  Agrees(s)
    OBVIOUS
  <2>1. ASSUME CountEntries(s) PROVE Agrees(s)
    <3>1. req'[s] = [at |-> "counted", month |-> req[s].month, layers |-> Layers(req[s].month)]
      BY <1>1, <2>1 DEF CountEntries, TypeOK
    <3>2. \A layer \in DOMAIN Layers(req[s].month) :
            Layers(req[s].month)[layer] = Dashboard(req[s].month).figures[layer]
      <4>1. Dashboard(req[s].month).figures
              = Figures(Layers(req[s].month), Carried(req[s].month), Reserves)
        BY DashboardFigures
      <4> QED BY <4>1 DEF Figures, Layers
    <3>3. /\ req'[s].at = "counted" /\ req'[s].month = req[s].month
          /\ req'[s].layers = Layers(req[s].month)
      BY <3>1
    <3> QED BY <3>2, <3>3
  <2>2. ASSUME ReadSnapshots(s) PROVE Agrees(s)
    <3>1. req'[s] = [at |-> "carried", month |-> req[s].month, layers |-> req[s].layers,
                     carried |-> Carried(req[s].month)]
      BY <1>1, <2>2 DEF ReadSnapshots, TypeOK
    <3>2. \A part \in DOMAIN Carried(req[s].month) :
            Carried(req[s].month)[part] = Dashboard(req[s].month).figures[part]
      <4>1. Dashboard(req[s].month).figures
              = Figures(Layers(req[s].month), Carried(req[s].month), Reserves)
        BY DashboardFigures
      <4>2. DOMAIN Carried(req[s].month) = {"opening", "lastReserves"}
        BY DEF Carried
      <4> QED BY <4>1, <4>2 DEF Figures
    <3>3. /\ req'[s].at = "carried" /\ req'[s].month = req[s].month
          /\ req'[s].carried = Carried(req[s].month)
      BY <3>1
    <3> QED BY <3>2, <3>3
  <2>3. ASSUME ReadFunds(s) PROVE Agrees(s)
    <3>1. req'[s] = [at |-> "reserved", month |-> req[s].month,
                     figures |-> Figures(req[s].layers, req[s].carried, Reserves)]
      BY <1>1, <2>3 DEF ReadFunds, TypeOK
    <3>2. Dashboard(req[s].month).figures.reserves = Reserves
      <4>1. Dashboard(req[s].month).figures
              = Figures(Layers(req[s].month), Carried(req[s].month), Reserves)
        BY DashboardFigures
      <4> QED BY <4>1 DEF Figures
    <3>3. /\ req'[s].at = "reserved" /\ req'[s].month = req[s].month
          /\ req'[s].figures.reserves = Reserves
      BY <3>1 DEF Figures
    <3> QED BY <3>2, <3>3
  <2>4. ASSUME ReadAccounts(s) PROVE Agrees(s)
    <3>1. req'[s] = [at |-> "ready", month |-> req[s].month, figures |-> req[s].figures,
                     closing |-> ClosingBalance(Available, req[s].figures.reserves)]
      BY <1>1, <2>4 DEF ReadAccounts, TypeOK
    <3> QED BY <3>1, DashboardFigures DEF ClosingBalance
  <2> QED BY <1>1, <2>1, <2>2, <2>3, <2>4, RequestsChange
<1>2. TypeOK /\ [Next]_vars => [\A s \in Slots : Agrees(s)]_vars
  BY <1>1
<1> QED BY BooksTypes, <1>2, PTL DEF Spec, ClosesWhatDashboardShows

-----------------------------------------------------------------------------
(***************************************************************************)
(* The reports.                                                            *)
(***************************************************************************)

\* The rows of each parent, added up, are all the rows.
LEMMA SumOfParts ==
  ASSUME NEW parts \in SUBSET Rows, NEW parents \in SUBSET Rows,
         \A r \in parts : ParentOf[r] \in parents
  PROVE  SumFunctionOnSet([p \in parents |-> Sum({r \in parts : ParentOf[r] = p})], parents) = Sum(parts)
<1> DEFINE part == [p \in parents |-> Sum({r \in parts : ParentOf[r] = p})]
<1>1. \A p \in parents : part[p] = SumFunctionOnSet(AmountOf, Keyed(ParentOf, p, parts))
  BY DEF Sum, Keyed
<1> HIDE DEF part
<1>2. /\ IsFiniteSet(parents) /\ IsFiniteSet(parts)
      /\ \A r \in parts : AmountOf[r] \in Int
  BY RowSets
<1>3. SumFunctionOnSet(part, parents) = SumFunctionOnSet(AmountOf, parts)
  BY <1>1, <1>2, SumByKey
<1> QED BY <1>3 DEF part, Sum

\* What the dashboard says is owed on cards is what their lists say, and what
\* the rows of both tables say.
LEMMA CardsAddUp ==
  ASSUME TypeOK, Whole, NEW m
  PROVE  /\ Dashboard(m).ccOutstanding = SumFunction([c \in kept \intersect Cards |-> OwedOn(c)])
         /\ Dashboard(m).ccOutstanding = Sum(kept \intersect (Cards \union Transactions))
<1> DEFINE cards == kept \intersect Cards
           txns == kept \intersect Transactions
           of(c) == {t \in txns : ParentOf[t] = c}
           owed == [c \in cards |-> AmountOf[c] + Sum(of(c))]
           spent == [c \in cards |-> Sum(of(c))]
<1>1. cards \in SUBSET Rows /\ txns \in SUBSET Rows /\ cards \intersect txns = {}
  BY TablesDiffer
<1>2. \A c : of(c) \in SUBSET Rows
  BY <1>1
<1>3. Dashboard(m).ccOutstanding = SumFunction(owed)
  BY DEF Dashboard
<1>4. \A c \in cards : owed[c] = OwedOn(c)
  <2> SUFFICES ASSUME NEW c \in cards PROVE owed[c] = OwedOn(c)
    OBVIOUS
  <2> DEFINE pos == {t \in of(c) : AmountOf[t] > 0}
  <2>1. /\ of(c) \intersect pos = pos /\ pos \in SUBSET Rows
        /\ of(c) \ pos \in SUBSET Rows
    BY <1>2
  <2>2. Sum(of(c)) = Sum(pos) + Sum(of(c) \ pos)
    BY <1>2, <2>1, SumSplit
  <2>3. OwedOn(c) = AmountOf[c] + Sum(pos) + Sum(of(c) \ pos)
    BY DEF OwedOn
  <2>4. AmountOf[c] \in Int /\ Sum(pos) \in Int /\ Sum(of(c) \ pos) \in Int
    BY <1>1, <2>1, RowSets, SumInt
  <2>5. owed[c] = AmountOf[c] + Sum(of(c))
    OBVIOUS
  <2> HIDE DEF pos, of, owed
  <2> QED BY <2>2, <2>3, <2>4, <2>5
<1>5. owed = [c \in cards |-> OwedOn(c)]
  BY <1>4
<1>6. \A t \in txns : ParentOf[t] \in cards
  BY RowsAreTyped DEF Whole
<1>7. \A c \in cards : AmountOf[c] \in Int /\ spent[c] \in Int /\ owed[c] = AmountOf[c] + spent[c]
  <2>1. \A c \in cards : AmountOf[c] \in Int /\ Sum(of(c)) \in Int
    BY <1>1, <1>2, RowSets, SumInt
  <2> HIDE DEF of
  <2> QED BY <2>1
<1>8. SumFunctionOnSet(spent, cards) = Sum(txns)
  BY <1>1, <1>6, SumOfParts
<1>9. DOMAIN owed = cards
  OBVIOUS
<1>10. kept \intersect (Cards \union Transactions) = cards \union txns
  OBVIOUS
<1>11. SumFunction(owed) = SumFunction([c \in cards |-> OwedOn(c)])
  BY <1>5
<1> HIDE DEF cards, txns, of, owed, spent
<1>12. SumFunctionOnSet(owed, cards) = Sum(cards) + SumFunctionOnSet(spent, cards)
  BY <1>1, <1>7, RowSets, SumPlus DEF Sum
<1>13. Sum(cards \union txns) = Sum(cards) + Sum(txns)
  <2>1. /\ IsFiniteSet(cards) /\ IsFiniteSet(txns)
        /\ \A x \in cards \union txns : AmountOf[x] \in Int
    BY <1>1, RowSets
  <2> QED BY <1>1, <2>1, SumUnion DEF Sum
<1>14. Dashboard(m).ccOutstanding = Sum(cards \union txns)
  BY <1>3, <1>8, <1>9, <1>12, <1>13 DEF SumFunction
<1> QED BY <1>3, <1>10, <1>11, <1>14 DEF cards

\* The same of the protection funds and their movements.
LEMMA FundsAddUp ==
  ASSUME TypeOK, Whole, NEW m
  PROVE  /\ Dashboard(m).figures.reserves = SumFunction([f \in kept \intersect Funds |-> ClosingReserveOf(f)])
         /\ Dashboard(m).figures.reserves =
              Sum(kept \intersect Funds)
              + Sum({r \in kept \intersect Movements : KindOf[r] = "contribution"})
              - Sum({r \in kept \intersect Movements : KindOf[r] = "withdrawal"})
<1> DEFINE funds == kept \intersect Funds
           moved(way) == {r \in kept \intersect Movements : KindOf[r] = way}
           by(way) == [f \in funds |-> Sum({r \in moved(way) : ParentOf[r] = f})]
           closing == [f \in funds |-> ClosingReserveOf(f)]
           held == [f \in funds |-> AmountOf[f] + by("contribution")[f]]
<1>1. funds \in SUBSET Rows /\ \A way : moved(way) \in SUBSET Rows
  BY TablesDiffer
<1>2. \A way : SumFunctionOnSet(by(way), funds) = Sum(moved(way))
  <2> SUFFICES ASSUME NEW way PROVE SumFunctionOnSet(by(way), funds) = Sum(moved(way))
    OBVIOUS
  <2>1. \A r \in moved(way) : ParentOf[r] \in funds
    BY RowsAreTyped DEF Whole
  <2> HIDE DEF funds, moved
  <2> QED BY <1>1, <2>1, SumOfParts
<1>3. \A way, f : f \in funds => by(way)[f] = Moved(f, way)
  <2> SUFFICES ASSUME NEW way, NEW f \in funds PROVE by(way)[f] = Moved(f, way)
    OBVIOUS
  <2>1. {r \in moved(way) : ParentOf[r] = f} =
          {r \in kept \intersect Movements : ParentOf[r] = f /\ KindOf[r] = way}
    OBVIOUS
  <2> HIDE DEF moved, funds
  <2> QED BY <2>1 DEF Moved
<1>4. Dashboard(m).figures.reserves = SumFunction(closing)
  <2>1. Dashboard(m).figures.reserves = Reserves
    <3>1. Dashboard(m).figures = Figures(Layers(m), Carried(m), Reserves)
      BY DashboardFigures
    <3> QED BY <3>1 DEF Figures
  <2>2. closing = [f \in funds |->
          ClosingReserve(AmountOf[f], Moved(f, "contribution"), Moved(f, "withdrawal"))]
    BY DEF ClosingReserve, ClosingReserveOf
  <2> QED BY <2>1, <2>2 DEF Reserves
<1> HIDE DEF by
<1>5. \A f \in funds :
        /\ AmountOf[f] \in Int /\ by("contribution")[f] \in Int /\ by("withdrawal")[f] \in Int
        /\ held[f] = AmountOf[f] + by("contribution")[f]
        /\ closing[f] \in Int
        /\ held[f] = closing[f] + by("withdrawal")[f]
  <2> SUFFICES ASSUME NEW f \in funds
               PROVE  /\ AmountOf[f] \in Int
                      /\ by("contribution")[f] \in Int /\ by("withdrawal")[f] \in Int
                      /\ held[f] = AmountOf[f] + by("contribution")[f]
                      /\ closing[f] \in Int
                      /\ held[f] = closing[f] + by("withdrawal")[f]
    OBVIOUS
  <2>1. AmountOf[f] \in Int /\ by("contribution")[f] \in Int /\ by("withdrawal")[f] \in Int
    BY <1>1, <1>3, MovedInt, RowSets
  <2>2. closing[f] = AmountOf[f] + by("contribution")[f] - by("withdrawal")[f]
    BY <1>3 DEF ClosingReserveOf
  <2>3. held[f] = AmountOf[f] + by("contribution")[f]
    OBVIOUS
  <2> HIDE DEF held, closing
  <2> QED BY <2>1, <2>2, <2>3
<1>6. DOMAIN closing = funds
  OBVIOUS
<1> HIDE DEF funds, moved, closing, held
<1>7. IsFiniteSet(funds)
  BY <1>1, RowSets
<1>8. SumFunctionOnSet(held, funds) = Sum(funds) + SumFunctionOnSet(by("contribution"), funds)
  <2>1. PICK into : into = by("contribution")
    OBVIOUS
  <2>2. \A f \in funds : AmountOf[f] \in Int /\ into[f] \in Int /\ held[f] = AmountOf[f] + into[f]
    BY <1>5, <2>1
  <2>3. SumFunctionOnSet(held, funds) = SumFunctionOnSet(AmountOf, funds) + SumFunctionOnSet(into, funds)
    BY <1>7, <2>2, SumPlus
  <2> QED BY <2>1, <2>3 DEF Sum
<1>9. SumFunctionOnSet(held, funds) =
        SumFunctionOnSet(closing, funds) + SumFunctionOnSet(by("withdrawal"), funds)
  <2>1. PICK out : out = by("withdrawal")
    OBVIOUS
  <2>2. \A f \in funds : closing[f] \in Int /\ out[f] \in Int /\ held[f] = closing[f] + out[f]
    BY <1>5, <2>1
  <2>3. SumFunctionOnSet(held, funds) = SumFunctionOnSet(closing, funds) + SumFunctionOnSet(out, funds)
    BY <1>7, <2>2, SumPlus
  <2> QED BY <2>1, <2>3
<1>10. SumFunctionOnSet(closing, funds) \in Int
  <2>1. \A f \in funds : closing[f] \in Int
    BY <1>5
  <2> QED BY <1>7, <2>1, SumType
<1>11. Sum(funds) \in Int /\ Sum(moved("contribution")) \in Int /\ Sum(moved("withdrawal")) \in Int
  BY <1>1, SumInt
<1>12. SumFunction(closing) = Sum(funds) + Sum(moved("contribution")) - Sum(moved("withdrawal"))
  <2>1. /\ SumFunctionOnSet(by("contribution"), funds) = Sum(moved("contribution"))
        /\ SumFunctionOnSet(by("withdrawal"), funds) = Sum(moved("withdrawal"))
    BY <1>2
  <2>2. SumFunction(closing) = SumFunctionOnSet(closing, funds)
    BY <1>6 DEF SumFunction
  <2> QED BY <1>8, <1>9, <1>10, <1>11, <2>1, <2>2
<1>13. /\ closing = [f \in kept \intersect Funds |-> ClosingReserveOf(f)]
       /\ Sum(moved("contribution")) = Sum({r \in kept \intersect Movements : KindOf[r] = "contribution"})
       /\ Sum(moved("withdrawal")) = Sum({r \in kept \intersect Movements : KindOf[r] = "withdrawal"})
       /\ funds = kept \intersect Funds
  BY DEF closing, funds, moved
<1> QED BY <1>4, <1>12, <1>13

\* There are finitely many categories: entries refer to them.
LEMMA CategoriesFinite == IsFiniteSet(Categories)
<1> DEFINE f == [e \in Entries |-> CategoryOf[e]]
<1>1. f \in Surjection(Entries, Categories)
  BY DEF Surjection, Categories
<1>2. IsFiniteSet(Entries)
  BY RowSets, TablesDiffer
<1> QED BY <1>1, <1>2, FS_Surjection

\* A month's spending is the lines of the budget report and what archived
\* categories hide from it.
LEMMA BudgetAddsUp ==
  ASSUME TypeOK, NEW m
  PROVE  Dashboard(m).figures.spending =
           SumFunctionOnSet(BudgetVsActual(m), {c \in Categories : KindOf[c] = "spending"} \ archived)
           + Sum({e \in OfMonth(m, "spending") : CategoryOf[e] \in archived})
<1> DEFINE rows == OfMonth(m, "spending")
           hidden == {e \in rows : CategoryOf[e] \in archived}
           lines == {c \in Categories : KindOf[c] = "spending"} \ archived
           listed == rows \ hidden
<1>1. rows \in SUBSET Rows /\ listed \in SUBSET Rows /\ hidden \in SUBSET Rows
  BY TablesDiffer DEF OfMonth
<1>2. Dashboard(m).figures.spending = Sum(rows)
  <2>1. Dashboard(m).figures = Figures(Layers(m), Carried(m), Reserves)
    BY DashboardFigures
  <2> QED BY <2>1 DEF Figures, Layers
<1>3. Sum(rows) = Sum(hidden) + Sum(listed)
  <2>1. rows \intersect hidden = hidden
    OBVIOUS
  <2> QED BY <1>1, <2>1, SumSplit
<1>4. \A e \in listed : CategoryOf[e] \in lines
  BY DEF OfMonth, Categories
<1>5. \A c \in lines : BudgetVsActual(m)[c] = SumFunctionOnSet(AmountOf, Keyed(CategoryOf, c, listed))
  <2> SUFFICES ASSUME NEW c \in lines
               PROVE  BudgetVsActual(m)[c] = SumFunctionOnSet(AmountOf, Keyed(CategoryOf, c, listed))
    OBVIOUS
  <2>1. {e \in kept \intersect Entries : MonthOf[e] = m /\ CategoryOf[e] = c} =
          Keyed(CategoryOf, c, listed)
    BY DEF OfMonth, Keyed
  <2>2. c \in Categories \ archived
    OBVIOUS
  <2> HIDE DEF listed, lines
  <2> QED BY <2>1, <2>2 DEF BudgetVsActual, Sum
<1>6. IsFiniteSet(lines)
  <2>1. lines \in SUBSET Categories
    OBVIOUS
  <2> HIDE DEF lines
  <2> QED BY <2>1, CategoriesFinite, FS_Subset
<1> HIDE DEF rows, hidden, lines, listed
<1>7. SumFunctionOnSet(BudgetVsActual(m), lines) = Sum(listed)
  <2>1. IsFiniteSet(listed) /\ \A e \in listed : AmountOf[e] \in Int
    BY <1>1, RowSets
  <2> QED BY <1>4, <1>5, <1>6, <2>1, SumByKey DEF Sum
<1>8. Sum(hidden) \in Int /\ Sum(listed) \in Int
  BY <1>1, SumInt
<1> QED BY <1>2, <1>3, <1>7, <1>8 DEF rows, hidden, lines

\* A year is the sum of its trends, in which an open month counts nothing.
LEMMA YearAddsUp ==
  ASSUME TypeOK
  PROVE  YearlyRemaining(Months) = SumFunction(Trends(Months))
<1> DEFINE closed == {m \in Months : IsClosed(m)}
           open == Months \ closed
           year == [m \in closed |-> snap[m].remaining]
           trend == Trends(Months)
<1>1. /\ \A m \in closed : trend[m] = year[m] /\ year[m] \in Int
      /\ \A m \in open : trend[m] = 0
      /\ DOMAIN trend = Months /\ DOMAIN year = closed
  <2>1. \A m \in closed : snap[m].remaining \in Int
    BY DEF TypeOK, SnapshotSet, NoSnap, IsClosed
  <2> QED BY <2>1 DEF Trends
<1>2. /\ closed \in SUBSET Months /\ open \in SUBSET Months
      /\ closed \intersect open = {} /\ closed \union open = Months
  OBVIOUS
<1>3. YearlyRemaining(Months) = SumFunction(year)
  BY DEF YearlyRemaining
<1> HIDE DEF closed, open, year, trend
<1>4. IsFiniteSet(closed) /\ IsFiniteSet(open)
  BY <1>2, MonthsAreNumbered, FS_Subset
<1>5. SumFunctionOnSet(trend, Months) = SumFunctionOnSet(trend, closed) + SumFunctionOnSet(trend, open)
  BY <1>1, <1>2, <1>4, SumUnion
<1>6. SumFunctionOnSet(trend, open) = 0
  BY <1>1, <1>4, SumZero
<1>7. SumFunctionOnSet(trend, closed) = SumFunctionOnSet(year, closed)
  BY <1>1, <1>4, SumSame
<1>8. SumFunctionOnSet(year, closed) \in Int
  BY <1>1, <1>4, SumType
<1>9. SumFunction(trend) = SumFunction(year)
  BY <1>1, <1>5, <1>6, <1>7, <1>8 DEF SumFunction
<1> QED BY <1>3, <1>9 DEF trend

(***************************************************************************)
(* The dashboard, the lists of cards and funds, the budget report, the     *)
(* trends and the yearly summary agree in every state, and count each      *)
(* transaction and movement once (reports.service.ts, cards.service.ts,    *)
(* protection.service.ts).                                                 *)
(***************************************************************************)
THEOREM ReportsAlwaysAgree == Spec => []ReportsAgree
<1>1. BooksInv => ReportsAgree
  BY CardsAddUp, FundsAddUp, BudgetAddsUp, YearAddsUp DEF BooksInv, ReportsAgree
<1> QED BY Books, <1>1, PTL

=============================================================================
