------------------------------ MODULE MonthClose ------------------------------
(***************************************************************************)
(* The books of a household on the server: the rows the planning, saving,  *)
(* protection, cards and accounts services keep, the closing of a month,   *)
(* which freezes its figures and carries its balance into the next one,    *)
(* and the reports read from both.                                         *)
(*                                                                         *)
(* closeMonth reads its figures query by query, with other requests in     *)
(* between, and then writes them in a transaction (READ COMMITTED): it     *)
(* writes its own month, whose row it holds from then on, reads the status *)
(* of the next one, and writes that unless it is closed.  Nothing holds the*)
(* next month's row in between.  An entry is written after the month guard *)
(* let it through, and its month may have been closed meanwhile.           *)
(***************************************************************************)
EXTENDS Integers, FiniteSets, Functions

CONSTANTS
  Rows,        \* entries, movements, bills, ... , and what they belong to
  TableOf, AmountOf,
  ParentOf,    \* the fund, card or goal of a row that has one
  MonthOf,     \* an entry's month
  CategoryOf,  \* an entry's category
  KindOf,      \* a category's kind
  Deductions,  \* the categories that reduce their layer
  Opened,      \* the rows the household starts with
  Balances,    \* what an account's balance may be set to
  Months,      \* a range of numbers, the last of them never closed
  Slots,       \* bound: requests to close a month under way at once
  MaxChanges   \* bound: changes of the rows, and months reopened

Tables == {"entry", "fund", "fund_movement", "card", "card_transaction", "goal",
           "goal_contribution", "receivable", "planned_bill", "account"}
InTable(t) == {r \in Rows : TableOf[r] = t}
Entries == InTable("entry")
Funds == InTable("fund")
Movements == InTable("fund_movement")
Cards == InTable("card")
Transactions == InTable("card_transaction")
Receivables == InTable("receivable")
Bills == InTable("planned_bill")
Accounts == InTable("account")
Settleable == Receivables \union Bills
Parts == Movements \union Transactions \union InTable("goal_contribution")
Categories == {CategoryOf[e] : e \in Entries}

ASSUME MonthsAreNumbered == Months \subseteq Nat /\ IsFiniteSet(Months)

\* The columns' types, what the foreign keys refer to, and what is in the
\* tables at first.
ASSUME RowsAreTyped ==
  /\ IsFiniteSet(Rows)
  /\ TableOf \in [Rows -> Tables] /\ AmountOf \in [Rows -> Int]
  /\ \A r \in Movements : ParentOf[r] \in Funds
  /\ \A r \in Transactions : ParentOf[r] \in Cards
  /\ Balances \subseteq Int /\ MaxChanges \in Nat

ASSUME OpenedIsWhole ==
  Opened \subseteq Rows /\ \A r \in Opened \intersect Parts : ParentOf[r] \in Opened

NoSnap == [status |-> "none"]

VARIABLES
  kept,       \* the rows there are
  settled,    \* the receivables returned and the bills paid
  archived,   \* the archived categories
  balance,    \* balance[a] of account a
  snap,       \* snap[m]: the snapshot of month m
  req,        \* req[s]: a request to close a month
  pending,    \* pending[e]: a request to write entry e that the guard let
              \* through; "late" once the month has been closed since
  changes,    \* changes of the rows and reopenings so far
  \* For the properties only:
  missed,     \* missed[s]: what request s has not seen: "entries" of its
              \* month written since it counted them, the "close" of the
              \* next month since it found that open
  flaws       \* flaws[m]: month m was "reseeded" by a request that had not
              \* seen its close, or closed with entries "uncounted"

bookVars == <<kept, settled, archived, balance, pending, changes>>
history == <<missed, flaws>>
vars == <<bookVars, snap, req, history>>

Sum(rows) == SumFunctionOnSet(AmountOf, rows)

Idle == [at |-> "idle"]

Init ==
  /\ kept = Opened /\ settled = {} /\ archived = {}
  /\ balance = [a \in Accounts |-> AmountOf[a]]
  /\ snap = [m \in Months |-> NoSnap]
  /\ req = [s \in Slots |-> Idle]
  /\ pending = [e \in Entries |-> "none"]
  /\ changes = 0
  /\ missed = [s \in Slots |-> {}]
  /\ flaws = [m \in Months |-> {}]

-----------------------------------------------------------------------------
(***************************************************************************)
(* What changes the rows.                                                  *)
(***************************************************************************)
Changed ==
  /\ changes < MaxChanges
  /\ changes' = changes + 1
  /\ UNCHANGED <<snap, req, history>>

IsClosed(m) == snap[m].status = "closed"

ValidateAnyhow(e) ==
  /\ Changed
  /\ pending[e] = "none"
  /\ pending' = [pending EXCEPT ![e] = "valid"]
  /\ UNCHANGED <<kept, settled, archived, balance>>

\* An entry of a closed month is refused.
ValidateEntry(e) ==
  /\ Changed
  /\ pending[e] = "none" /\ ~IsClosed(MonthOf[e])
  /\ pending' = [pending EXCEPT ![e] = "valid"]
  /\ UNCHANGED <<kept, settled, archived, balance>>

\* The requests that have counted month m.
Counted(m) == {s \in Slots : req[s].at \notin {"idle", "checked"} /\ req[s].month = m}

\* The write of an entry validated before: it asks no more.
WriteEntry(e) ==
  LET m == MonthOf[e] IN
  /\ pending[e] # "none"
  /\ pending' = [pending EXCEPT ![e] = "none"]
  /\ missed' = [s \in Slots |->
       IF s \in Counted(m) THEN missed[s] \union {"entries"} ELSE missed[s]]
  /\ flaws' = IF pending[e] = "late"
              THEN [flaws EXCEPT ![m] = @ \union {"uncounted"}]
              ELSE flaws
  /\ UNCHANGED <<settled, archived, balance, changes, snap, req>>

AddEntry(e) ==
  /\ e \in Entries \ kept
  /\ WriteEntry(e)
  /\ kept' = kept \union {e}

RemoveEntry(e) ==
  /\ e \in kept \intersect Entries
  /\ WriteEntry(e)
  /\ kept' = kept \ {e}

AddPartAnyhow(r) ==
  /\ Changed
  /\ r \in Parts \ kept
  /\ kept' = kept \union {r}
  /\ UNCHANGED <<settled, archived, balance, pending>>

\* A movement, transaction or contribution needs its fund, card or goal.
AddPart(r) ==
  /\ Changed
  /\ r \in Parts \ kept /\ ParentOf[r] \in kept
  /\ kept' = kept \union {r}
  /\ UNCHANGED <<settled, archived, balance, pending>>

CreateRow(r) ==
  /\ Changed
  /\ r \in Rows \ (kept \union Parts \union Entries)
  /\ kept' = kept \union {r}
  /\ UNCHANGED <<settled, archived, balance, pending>>

SettleAny(r) ==
  /\ Changed
  /\ r \in kept
  /\ settled' = IF r \in settled THEN settled \ {r} ELSE settled \union {r}
  /\ UNCHANGED <<kept, archived, balance, pending>>

\* updateReceivableStatus and markBillPaid, either way.
Settle(r) ==
  /\ Changed
  /\ r \in kept \intersect Settleable
  /\ settled' = IF r \in settled THEN settled \ {r} ELSE settled \union {r}
  /\ UNCHANGED <<kept, archived, balance, pending>>

UpdateBalance(a, amount) ==
  /\ Changed
  /\ a \in kept \intersect Accounts /\ balance[a] # amount
  /\ balance' = [balance EXCEPT ![a] = amount]
  /\ UNCHANGED <<kept, settled, archived, pending>>

ArchiveCategory(c) ==
  /\ Changed
  /\ c \in Categories \ archived
  /\ archived' = archived \union {c}
  /\ UNCHANGED <<kept, settled, balance, pending>>

-----------------------------------------------------------------------------
(***************************************************************************)
(* The engine.                                                             *)
(***************************************************************************)
Waterfall(f) ==
  f.opening + f.lastReserves + f.income + f.adjustments - f.spending
    - f.protection - f.saving - f.reserves

ClosingReserve(opening, contributions, withdrawals) ==
  opening + contributions - withdrawals

ClosingBalance(available, reserves) == available - reserves

-----------------------------------------------------------------------------
(***************************************************************************)
(* Closing a month.                                                        *)
(***************************************************************************)
OfMonth(m, kind) ==
  {e \in kept \intersect Entries : MonthOf[e] = m /\ KindOf[CategoryOf[e]] = kind}

AdjustmentsUnsigned(m) == Sum(OfMonth(m, "adjustment"))

Adjustments(m) ==
  LET outflows == {e \in OfMonth(m, "adjustment") : CategoryOf[e] \in Deductions} IN
  Sum(OfMonth(m, "adjustment") \ outflows) - Sum(outflows)

Layers(m) ==
  [income      |-> Sum(OfMonth(m, "income")) - Sum(OfMonth(m, "incomeDeduction")),
   adjustments |-> Adjustments(m),
   spending    |-> Sum(OfMonth(m, "spending")),
   protection  |-> Sum(OfMonth(m, "protection")),
   saving      |-> Sum(OfMonth(m, "saving"))]

\* A month takes its opening from its own snapshot if it has one, else from
\* the month before.
Carried(m) ==
  IF snap[m] # NoSnap
  THEN [opening |-> snap[m].opening, lastReserves |-> snap[m].lastReserves]
  ELSE IF m - 1 \in Months /\ snap[m - 1] # NoSnap
  THEN [opening |-> snap[m - 1].closing, lastReserves |-> snap[m - 1].reserves]
  ELSE [opening |-> 0, lastReserves |-> 0]

Moved(f, way) == Sum({r \in kept \intersect Movements : ParentOf[r] = f /\ KindOf[r] = way})

Reserves ==
  SumFunction([f \in kept \intersect Funds |->
    ClosingReserve(AmountOf[f], Moved(f, "contribution"), Moved(f, "withdrawal"))])

Available == SumFunctionOnSet(balance, kept \intersect Accounts)

\* A month that is closed already is answered as it is.
BeginClose(s, m) ==
  /\ req[s].at = "idle"
  /\ m + 1 \in Months /\ ~IsClosed(m)
  /\ req' = [req EXCEPT ![s] = [at |-> "checked", month |-> m]]
  /\ UNCHANGED <<bookVars, snap, history>>

CountEntries(s) ==
  /\ req[s].at = "checked"
  /\ req' = [req EXCEPT ![s] =
       [at |-> "counted", month |-> @.month, layers |-> Layers(@.month)]]
  /\ UNCHANGED <<bookVars, snap, history>>

ReadSnapshots(s) ==
  /\ req[s].at = "counted"
  /\ req' = [req EXCEPT ![s] =
       [at |-> "carried", month |-> @.month, layers |-> @.layers,
        carried |-> Carried(@.month)]]
  /\ UNCHANGED <<bookVars, snap, history>>

Figures(layers, carried, reserves) ==
  [opening |-> carried.opening, lastReserves |-> carried.lastReserves,
   income |-> layers.income, adjustments |-> layers.adjustments,
   spending |-> layers.spending, protection |-> layers.protection,
   saving |-> layers.saving, reserves |-> reserves]

ReadFunds(s) ==
  /\ req[s].at = "carried"
  /\ req' = [req EXCEPT ![s] =
       [at |-> "reserved", month |-> @.month,
        figures |-> Figures(@.layers, @.carried, Reserves)]]
  /\ UNCHANGED <<bookVars, snap, history>>

ReadAccounts(s) ==
  /\ req[s].at = "reserved"
  /\ req' = [req EXCEPT ![s] =
       [at |-> "ready", month |-> @.month, figures |-> @.figures,
        closing |-> ClosingBalance(Available, @.figures.reserves)]]
  /\ UNCHANGED <<bookVars, snap, history>>

Snapshot(f, closing, remaining, status) ==
  [status |-> status, opening |-> f.opening, lastReserves |-> f.lastReserves,
   income |-> f.income, adjustments |-> f.adjustments, spending |-> f.spending,
   protection |-> f.protection, saving |-> f.saving, reserves |-> f.reserves,
   closing |-> closing, remaining |-> remaining]

NoLayers == [income |-> 0, adjustments |-> 0, spending |-> 0, protection |-> 0, saving |-> 0]

NewSnapshot(carried) == Snapshot(Figures(NoLayers, carried, 0), 0, 0, "open")

Reseeded(next, carried) ==
  Snapshot(Figures(next, carried, next.reserves), next.closing, next.remaining, next.status)

Seed(next, carried) ==
  IF next = NoSnap THEN NewSnapshot(carried) ELSE Reseeded(next, carried)

\* A transaction that has written its month holds that month's row.
Locked(m) == \E s \in Slots : req[s].at = "writing" /\ req[s].month = m

\* The transaction writes its own month, which nobody sees before it commits,
\* and then looks at the next one.
Writing(s, seeds) ==
  /\ req[s].at = "ready" /\ ~Locked(req[s].month)
  /\ req' = [req EXCEPT ![s] =
       [at |-> "writing", month |-> @.month, figures |-> @.figures, closing |-> @.closing,
        seeds |-> seeds]]
  /\ UNCHANGED <<bookVars, snap, history>>

WriteMonthBlindly(s) == Writing(s, TRUE)

\* A missing or open next month is to be (re)seeded, a closed one is frozen.
WriteMonth(s) == Writing(s, ~IsClosed(req[s].month + 1))

\* The requests and writes under way that have not seen month m close.
ClosedUnseen(s) ==
  LET m == req[s].month IN
  /\ missed' = [t \in Slots |->
       IF t = s THEN {}
       ELSE IF req[t].at = "writing" /\ req[t].month + 1 = m
       THEN missed[t] \union {"close"}
       ELSE missed[t]]
  /\ pending' = [e \in Entries |->
       IF pending[e] # "none" /\ MonthOf[e] = m THEN "late" ELSE pending[e]]

\* It seeds the next month if that was missing or open, whatever it is now,
\* and commits.
Freeze(s) ==
  LET m == req[s].month
      f == req[s].figures
      c == req[s].closing
      seeded == IF req[s].seeds
                THEN Seed(snap[m + 1], [opening |-> c, lastReserves |-> f.reserves])
                ELSE snap[m + 1] IN
  /\ req[s].at = "writing" /\ (req[s].seeds => ~Locked(m + 1))
  /\ snap' = [snap EXCEPT ![m] = Snapshot(f, c, Waterfall(f), "closed"), ![m + 1] = seeded]
  /\ req' = [req EXCEPT ![s] = Idle]
  /\ ClosedUnseen(s)
  /\ flaws' = [flaws EXCEPT
       ![m] = IF "entries" \in missed[s] THEN {"uncounted"} ELSE {},
       ![m + 1] = IF req[s].seeds /\ "close" \in missed[s] THEN @ \union {"reseeded"} ELSE @]
  /\ UNCHANGED <<kept, settled, archived, balance, changes>>

\* The figures stay, and so does what was carried into the next month.
ReopenMonth(m) ==
  /\ IsClosed(m) /\ ~Locked(m)
  /\ changes < MaxChanges
  /\ changes' = changes + 1
  /\ snap' = [snap EXCEPT ![m] = Snapshot(@, @.closing, @.remaining, "open")]
  /\ flaws' = [flaws EXCEPT ![m] = {}]
  /\ UNCHANGED <<kept, settled, archived, balance, pending, req, missed>>

-----------------------------------------------------------------------------
(***************************************************************************)
(* The reports.                                                            *)
(***************************************************************************)
Dashboard(m) ==
  LET entries == {e \in kept \intersect Entries : MonthOf[e] = m}
      total(kind) == Sum({e \in entries : KindOf[CategoryOf[e]] = kind})
      figures == Figures(
        [income |-> total("income") - total("incomeDeduction"),
         adjustments |-> SumFunction(
           [e \in {a \in entries : KindOf[CategoryOf[a]] = "adjustment"} |->
              IF CategoryOf[e] \in Deductions THEN -AmountOf[e] ELSE AmountOf[e]]),
         spending |-> total("spending"),
         protection |-> total("protection"),
         saving |-> total("saving")],
        Carried(m),
        SumFunction([f \in kept \intersect Funds |->
          ClosingReserve(AmountOf[f], Moved(f, "contribution"), Moved(f, "withdrawal"))])) IN
  [figures |-> figures,
   remaining |-> Waterfall(figures),
   totalAvailable |-> Available,
   ccOutstanding |-> SumFunction([c \in kept \intersect Cards |->
     AmountOf[c] + Sum({t \in kept \intersect Transactions : ParentOf[t] = c})]),
   returnAwaited |-> Sum((kept \intersect Receivables) \ settled),
   toBePaid |-> Sum((kept \intersect Bills) \ settled)]

\* A line for each category that is not archived.
BudgetVsActual(m) ==
  [c \in Categories \ archived |->
     Sum({e \in kept \intersect Entries : MonthOf[e] = m /\ CategoryOf[e] = c})]

\* The lists of the cards and protection services.
OwedOn(c) ==
  LET txns == {t \in kept \intersect Transactions : ParentOf[t] = c}
      spent == {t \in txns : AmountOf[t] > 0} IN
  AmountOf[c] + Sum(spent) + Sum(txns \ spent)

ClosingReserveOf(f) ==
  AmountOf[f] + Moved(f, "contribution") - Moved(f, "withdrawal")

\* Only closed months have figures in the trends and count in the year.
Trends(months) ==
  [m \in months |-> IF IsClosed(m) THEN snap[m].remaining ELSE 0]

YearlyRemaining(months) ==
  SumFunction([m \in {k \in months : IsClosed(k)} |-> snap[m].remaining])

-----------------------------------------------------------------------------

Next ==
  \/ \E e \in Entries : ValidateEntry(e) \/ AddEntry(e) \/ RemoveEntry(e)
  \/ \E r \in Rows : AddPart(r) \/ CreateRow(r) \/ Settle(r)
  \/ \E a \in Accounts, amount \in Balances : UpdateBalance(a, amount)
  \/ \E c \in Categories : ArchiveCategory(c)
  \/ \E s \in Slots :
       \/ \E m \in Months : BeginClose(s, m)
       \/ CountEntries(s) \/ ReadSnapshots(s) \/ ReadFunds(s) \/ ReadAccounts(s)
       \/ WriteMonth(s) \/ Freeze(s)
  \/ \E m \in Months : ReopenMonth(m)

Spec == Init /\ [][Next]_vars

-----------------------------------------------------------------------------

FigureSet ==
  [opening : Int, lastReserves : Int, income : Int, adjustments : Int, spending : Int,
   protection : Int, saving : Int, reserves : Int]

SnapshotSet ==
  [status : {"open", "closed"}, opening : Int, lastReserves : Int, income : Int,
   adjustments : Int, spending : Int, protection : Int, saving : Int, reserves : Int,
   closing : Int, remaining : Int]

LayerSet ==
  [income : Int, adjustments : Int, spending : Int, protection : Int, saving : Int]
CarriedSet == [opening : Int, lastReserves : Int]

ToClose == {m \in Months : m + 1 \in Months}

RequestSet ==
  {Idle} \union
  [at : {"checked"}, month : ToClose] \union
  [at : {"counted"}, month : ToClose, layers : LayerSet] \union
  [at : {"carried"}, month : ToClose, layers : LayerSet, carried : CarriedSet] \union
  [at : {"reserved"}, month : ToClose, figures : FigureSet] \union
  [at : {"ready"}, month : ToClose, figures : FigureSet, closing : Int] \union
  [at : {"writing"}, month : ToClose, figures : FigureSet, closing : Int, seeds : BOOLEAN]

TypeOK ==
  /\ kept \subseteq Rows /\ archived \subseteq Categories
  /\ settled \subseteq kept \intersect Settleable
  /\ balance \in [Accounts -> Int]
  /\ snap \in [Months -> SnapshotSet \union {NoSnap}]
  /\ req \in [Slots -> RequestSet]
  /\ pending \in [Entries -> {"none", "valid", "late"}]
  /\ changes \in 0..MaxChanges
  /\ missed \in [Slots -> SUBSET {"entries", "close"}]
  /\ flaws \in [Months -> SUBSET {"reseeded", "uncounted"}]

(***************************************************************************)
(* "A closed month is frozen and must never be mutated by re-closing an    *)
(* earlier month": it changes only by a request to close that very month,  *)
(* with it reopened, or - the transaction reads the next month's status    *)
(* and writes it later - by a request that closes the month before it,     *)
(* which had found it open before it was closed, and writes over what was  *)
(* carried in but nothing else.                                            *)
(***************************************************************************)
FrozenMonthKept ==
  [][\A m \in Months : IsClosed(m) /\ snap'[m] # snap[m] =>
       \/ snap'[m] = Snapshot(snap[m], snap[m].closing, snap[m].remaining, "open")
       \/ \E s \in Slots :
            /\ req[s].at = "writing" /\ req'[s] = Idle
            /\ \/ req[s].month = m
               \/ /\ req[s].month + 1 = m /\ "close" \in missed[s]
                  /\ snap'[m] = Reseeded(snap[m],
                       [opening |-> req[s].closing, lastReserves |-> req[s].figures.reserves])]_vars

(***************************************************************************)
(* The remainder frozen with a month is the waterfall of the figures frozen*)
(* with it, however requests to close it and its neighbours overlap, except*)
(* where a request that had not seen its close carried other figures in.   *)
(* (An open month's need not be: its opening may have been carried in      *)
(* since.)                                                                 *)
(***************************************************************************)
FrozenFiguresAddUp ==
  \A m \in Months :
    IsClosed(m) /\ "reseeded" \notin flaws[m] => snap[m].remaining = Waterfall(snap[m])

LayersOf(f) ==
  [income |-> f.income, adjustments |-> f.adjustments, spending |-> f.spending,
   protection |-> f.protection, saving |-> f.saving]

(***************************************************************************)
(* A closed month's figures count the entries it has, neither more nor     *)
(* less: the guard keeps others out, and closing again counts again.  Only *)
(* an entry written after the request that closed the month had counted, or*)
(* validated before the month was closed and written after, is missing.    *)
(***************************************************************************)
FrozenCountsItsEntries ==
  \A m \in Months :
    IsClosed(m) /\ "uncounted" \notin flaws[m] => LayersOf(snap[m]) = Layers(m)

(***************************************************************************)
(* A month is closed with what the dashboard shows of it: closeMonth works *)
(* each figure out by itself, and at the moment it reads a figure's rows   *)
(* its result is the dashboard's.                                          *)
(***************************************************************************)
ClosesWhatDashboardShows ==
  [][\A s \in Slots :
       req'[s] # req[s] /\ req'[s].at \in {"counted", "carried", "reserved", "ready"} =>
         LET r == req'[s]
             shown == Dashboard(r.month) IN
         /\ r.at = "counted" => \A layer \in DOMAIN r.layers : r.layers[layer] = shown.figures[layer]
         /\ r.at = "carried" => \A part \in DOMAIN r.carried : r.carried[part] = shown.figures[part]
         /\ r.at = "reserved" => r.figures.reserves = shown.figures.reserves
         /\ r.at = "ready" => r.closing = shown.totalAvailable - r.figures.reserves]_vars

(***************************************************************************)
(* The reports that add the same rows up separately agree, and count each  *)
(* row once: the dashboard with the lists of the cards and funds and with  *)
(* the rows themselves (a transaction or movement whose card or fund were  *)
(* gone would be missing from it), the year with the trends, and a month's *)
(* spending with the lines of its budget report plus what archived         *)
(* categories hide from that report.                                       *)
(***************************************************************************)
ReportsAgree ==
  /\ \A m \in Months :
       LET shown == Dashboard(m)
           spending == {c \in Categories : KindOf[c] = "spending"}
           moved(way) == {r \in kept \intersect Movements : KindOf[r] = way} IN
       /\ shown.ccOutstanding = SumFunction([c \in kept \intersect Cards |-> OwedOn(c)])
       /\ shown.ccOutstanding = Sum(kept \intersect (Cards \union Transactions))
       /\ shown.figures.reserves = SumFunction([f \in kept \intersect Funds |-> ClosingReserveOf(f)])
       /\ shown.figures.reserves =
            Sum(kept \intersect Funds) + Sum(moved("contribution")) - Sum(moved("withdrawal"))
       /\ shown.figures.spending =
            SumFunctionOnSet(BudgetVsActual(m), spending \ archived)
            + Sum({e \in OfMonth(m, "spending") : CategoryOf[e] \in archived})
  /\ YearlyRemaining(Months) = SumFunction(Trends(Months))
=============================================================================
