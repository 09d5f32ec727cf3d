--------------------------- MODULE EntrySync_proofs ---------------------------
(***************************************************************************)
(* What TLAPS proves of EntrySync for any devices, contents and bounds.    *)
(***************************************************************************)
EXTENDS EntrySync, TLAPS

(***************************************************************************)
(* A sync that posts its queued insert has one that is due: the reason the *)
(* attempt counter never passes MaxAttempts.                               *)
(***************************************************************************)
DueWhilePosting ==
  \A d \in Devices : pc[d] \in {"insert", "insertWait"} => InsertDue(d)

TypeInv == TypeOK /\ DueWhilePosting

(***************************************************************************)
(* A request stays a request when its plan is filled in or when its sender *)
(* stops waiting for it.                                                   *)
(***************************************************************************)
LEMMA RequestType ==
  ASSUME NEW r \in Request
  PROVE  /\ r.dev \in Devices /\ r.row \in Row
         /\ r.plan \in Plan \union {NoRow}
         /\ [r EXCEPT !.live = FALSE] \in Request
         /\ \A p \in Plan : [r EXCEPT !.plan = p] \in Request
  BY DEF Request

(***************************************************************************)
(* A request that becomes late stays the same request.                     *)
(***************************************************************************)
LEMMA LateType ==
  ASSUME NEW r \in Request
  PROVE  /\ LateForWrite(r) \in Request
         /\ LateForWrite(r).dev = r.dev /\ LateForWrite(r).live = r.live
         /\ LateForWrite(r).kind = r.kind /\ LateForWrite(r).clean = r.clean
         /\ LateForWrite(r).row = r.row /\ LateForWrite(r).plan = r.plan
         /\ r.plan = NoRow => LateForWrite(r) = r
         /\ r.plan # NoRow => LateForWrite(r).late = "written"
  BY DEF Request, LateForWrite

LEMMA LateForCloseType ==
  ASSUME NEW r \in Request, NEW m
  PROVE  /\ LateForClose(r, m) \in Request
         /\ LateForClose(r, m).dev = r.dev /\ LateForClose(r, m).live = r.live
         /\ LateForClose(r, m).kind = r.kind /\ LateForClose(r, m).clean = r.clean
         /\ LateForClose(r, m).row = r.row /\ LateForClose(r, m).plan = r.plan
         /\ \/ LateForClose(r, m) = r /\ (r.plan # NoRow /\ r.late = "no" => m \notin MonthsTouched(r.row))
            \/ r.plan # NoRow /\ r.late = "no" /\ LateForClose(r, m).late = "closed"
<1>1. CASE r.plan # NoRow /\ r.late = "no" /\ m \in MonthsTouched(r.row)
  <2>1. LateForClose(r, m) = [r EXCEPT !.late = "closed"]
    BY <1>1 DEF LateForClose
  <2> QED
    BY <1>1, <2>1 DEF Request
<1>2. CASE ~(r.plan # NoRow /\ r.late = "no" /\ m \in MonthsTouched(r.row))
  <2>1. LateForClose(r, m) = r
    BY <1>2 DEF LateForClose
  <2> QED
    BY <1>2, <2>1
<1> QED
  BY <1>1, <1>2

(***************************************************************************)
(* A row stays a row when its content or deletion is changed on a device.  *)
(***************************************************************************)
LEMMA RowType ==
  ASSUME NEW row \in Row
  PROVE  /\ row # NoRow
         /\ [row EXCEPT !.deleted = TRUE] \in Row
         /\ [row EXCEPT !.deleted = TRUE].version = row.version
         /\ [row EXCEPT !.deleted = TRUE].deleted
         /\ \A c \in Contents : /\ [row EXCEPT !.content = c] \in Row
                                /\ [row EXCEPT !.content = c].version = row.version
<1>1. row # NoRow
  BY NoRowAssumption
<1> QED
  BY <1>1 DEF Row

(***************************************************************************)
(* What the truncation of a date leaves as it is.                          *)
(***************************************************************************)
LEMMA TruncatedType ==
  ASSUME NEW row \in Row
  PROVE  /\ Truncated(row) \in Row /\ Truncated(row) # NoRow
         /\ Truncated(row).content = row.content
         /\ Truncated(row).deleted = row.deleted
         /\ Truncated(row).version = row.version
         /\ ~Truncated(row).fine
         /\ Truncated(Truncated(row)) = Truncated(row)
<1>1. Truncated(row) \in Row
  BY DEF Truncated, Row
<1>2. Truncated(row) # NoRow
  BY <1>1, RowType
<1> QED
  BY <1>1, <1>2 DEF Truncated, Row

(***************************************************************************)
(* What a device posts is a request.                                       *)
(***************************************************************************)
LEMMA PostType ==
  ASSUME TypeOK, NEW d \in Devices, NEW kind \in {"insert", "push"}, NEW row \in Row,
         Post(d, kind, row)
  PROVE  net' \subseteq Request
<1>1. (kind = "push" /\ edit[d] = "clean") \in BOOLEAN
  OBVIOUS
<1>2. [dev |-> d, kind |-> kind, live |-> TRUE, row |-> row,
       clean |-> kind = "push" /\ edit[d] = "clean", plan |-> NoRow, late |-> "no"] \in Request
  BY <1>1, Zenon DEF Request
<1> QED
  BY <1>2 DEF Post, TypeOK

(***************************************************************************)
(* The server plans to write a row.                                        *)
(***************************************************************************)
LEMMA PlanType ==
  ASSUME TypeOK, NEW row \in Row
  PROVE  PlanFor(row) \in Plan
  BY DEF TypeOK, PlanFor, Plan, Row

(***************************************************************************)
(* An answer is one of Answers and moves edit within its states.           *)
(***************************************************************************)
LEMMA AnswerType ==
  ASSUME TypeOK, NEW r \in Request, NEW a \in {"synced", "rejected", "error"}, Answer(r, a)
  PROVE  /\ reply' \in [Devices -> Answers]
         /\ edit' \in [Devices -> {"clean", "unsent", "sent", "decided"}]
  BY RequestType DEF TypeOK, Answer, Answers

(***************************************************************************)
(* The type invariant is inductive together with DueWhilePosting.          *)
(***************************************************************************)
LEMMA TypeStep == TypeInv /\ [Next]_vars => TypeInv'
<1> SUFFICES ASSUME TypeInv, [Next]_vars PROVE TypeInv'
  OBVIOUS
<1> USE BoundsAssumption, NoRowAssumption, MonthOfAssumption
<1> USE DEF TypeInv, DueWhilePosting, serverVars, deviceVars
<1>1. ASSUME NEW d \in Devices, NEW c \in Contents, NEW queued \in BOOLEAN,
             NEW fine \in BOOLEAN, AddEntry(d, c, queued, fine)
      PROVE  TypeInv'
  <2> DEFINE row == [content |-> c, deleted |-> FALSE, version |-> 1, fine |-> FALSE]
             op == [row |-> [row EXCEPT !.fine = fine], attempts |-> 0, synced |-> FALSE]
  <2>1. row \in Row
    BY DEF Row
  <2>2. op \in QueuedInsert /\ op.attempts = 0 /\ ~op.synced
    <3>1. [row EXCEPT !.fine = fine] \in Row
      BY <2>1 DEF Row
    <3> QED
      BY <3>1 DEF QueuedInsert
  <2>3. /\ queue' = queue \/ queue' = [queue EXCEPT ![d] = op]
        /\ pc' = pc
    BY <1>1 DEF AddEntry, Queued
  <2>4. TypeOK'
    <3>1. queue' \in [Devices -> QueuedInsert \union {NoRow}]
      BY <2>2, <2>3 DEF TypeOK
    <3>2. ChangeLocal(d, row) /\ UNCHANGED <<serverVars, pc, reply, pulled, net>>
      BY <1>1 DEF AddEntry
    <3> HIDE DEF op, row
    <3> QED
      BY <2>1, <3>1, <3>2 DEF ChangeLocal, TypeOK
  <2>5. ASSUME NEW x \in Devices, pc'[x] \in {"insert", "insertWait"}
        PROVE  InsertDue(x)'
    <3>1. InsertDue(x)
      BY <2>3, <2>5
    <3>2. 0 < MaxAttempts
      BY <3>1 DEF InsertDue, TypeOK, QueuedInsert
    <3>3. queue'[x] = queue[x] \/ queue'[x] = op
      BY <2>3 DEF TypeOK
    <3>4. op # NoRow
      BY <2>2
    <3> HIDE DEF op
    <3> QED
      BY <3>1, <3>2, <3>3, <3>4, <2>2 DEF InsertDue
  <2> QED
    BY <2>4, <2>5
<1>2. ASSUME NEW d \in Devices, NEW c \in Contents, UpdateEntry(d, c)
      PROVE  TypeInv'
  BY <1>2 DEF UpdateEntry, ChangeLocal, MayEdit, TypeOK, Row, InsertDue
<1>3. ASSUME NEW d \in Devices, SoftDelete(d)
      PROVE  TypeInv'
  <2>1. [local[d] EXCEPT !.deleted = TRUE] \in Row
    BY <1>3, RowType DEF SoftDelete, TypeOK
  <2> QED
    BY <1>3, <2>1 DEF SoftDelete, ChangeLocal, TypeOK, InsertDue
<1>4. ASSUME NEW d \in Devices, StartSync(d)
      PROVE  TypeInv'
  BY <1>4 DEF StartSync, Goto, TypeOK, SyncSteps, InsertDue
<1>5. ASSUME NEW d \in Devices, PostInsert(d)
      PROVE  TypeInv'
  <2>1. queue[d].row \in Row
    BY <1>5 DEF PostInsert, InsertDue, TypeOK, QueuedInsert
  <2>2. net' \subseteq Request
    BY <1>5, <2>1, PostType DEF PostInsert
  <2> QED
    BY <1>5, <2>2 DEF PostInsert, Goto, TypeOK, SyncSteps, InsertDue
<1>6. ASSUME NEW d \in Devices, InsertAnswered(d)
      PROVE  TypeInv'
  <2>1. queue' \in [Devices -> QueuedInsert \union {NoRow}]
    <3>1. queue[d] \in QueuedInsert /\ queue[d].attempts < MaxAttempts
      BY <1>6 DEF InsertAnswered, InsertDue, TypeOK
    <3>2. [queue[d] EXCEPT !.attempts = @ + 1] \in QueuedInsert
      BY <3>1 DEF QueuedInsert
    <3>3. [queue[d] EXCEPT !.synced = TRUE] \in QueuedInsert
      BY <3>1 DEF QueuedInsert
    <3> DEFINE op == IF reply[d] = "synced" THEN [queue[d] EXCEPT !.synced = TRUE]
                                            ELSE [queue[d] EXCEPT !.attempts = @ + 1]
    <3>4. op \in QueuedInsert
      BY <3>2, <3>3
    <3>5. queue' = [queue EXCEPT ![d] = op]
      BY <1>6 DEF InsertAnswered
    <3> HIDE DEF op
    <3> QED
      BY <3>4, <3>5 DEF TypeOK
  <2> QED
    BY <1>6, <2>1 DEF InsertAnswered, Goto, TypeOK, SyncSteps, Answers, InsertDue
<1>7. ASSUME NEW d \in Devices, PostTable(d)
      PROVE  TypeInv'
  <2>1. net' \subseteq Request
    BY <1>7, PostType DEF PostTable, TypeOK
  <2> QED
    BY <1>7, <2>1 DEF PostTable, Goto, TypeOK, SyncSteps, InsertDue
<1>8. ASSUME NEW d \in Devices, PostTableWithoutEntry(d)
      PROVE  TypeInv'
  BY <1>8 DEF PostTableWithoutEntry, Goto, TypeOK, SyncSteps, InsertDue
<1>9. ASSUME NEW d \in Devices, TableAnswered(d)
      PROVE  TypeInv'
  BY <1>9 DEF TableAnswered, Goto, TypeOK, SyncSteps, Answers, InsertDue
<1>10. ASSUME NEW d \in Devices, PullData(d)
       PROVE  TypeInv'
  BY <1>10 DEF PullData, Goto, TypeOK, SyncSteps, InsertDue
<1>11. ASSUME NEW d \in Devices, ApplyPull(d)
       PROVE  TypeInv'
  <2>1. AfterPull(d) \in Row \union {NoRow}
    <3>1. local[d] \in Row \union {NoRow} /\ pulled[d] \in Row \union {NoRow}
      BY DEF TypeOK
    <3>2. \A row \in Row : Truncated(row) \in Row /\ [row EXCEPT !.deleted = TRUE] \in Row
      BY DEF Truncated, Row
    <3> QED BY <3>1, <3>2 DEF AfterPull
  <2> QED
    BY <1>11, <2>1 DEF ApplyPull, Goto, TypeOK, SyncSteps, InsertDue
<1>12. ASSUME NEW d \in Devices, AbandonSync(d)
       PROVE  TypeInv'
  <2>1. net' \subseteq Request
    BY <1>12, RequestType DEF AbandonSync, TypeOK
  <2> QED
    BY <1>12, <2>1 DEF AbandonSync, Fail, Goto, TypeOK, SyncSteps, Answers, InsertDue
<1>13. ASSUME NEW d \in Devices, LoseReply(d)
       PROVE  TypeInv'
  BY <1>13 DEF LoseReply, Fail, TypeOK, Answers, InsertDue
<1>14. ASSUME NEW r \in net, LoseRequest(r)
       PROVE  TypeInv'
  BY <1>14, AnswerType DEF LoseRequest, Fail, TypeOK, InsertDue
<1>15. ASSUME NEW r \in net, ValidateBatch(r)
       PROVE  TypeInv'
  <2>1. net' \subseteq Request
    <3>1. r \in Request /\ PlanFor(r.row) \in Plan
      BY RequestType, PlanType DEF TypeOK
    <3>2. [r EXCEPT !.plan = PlanFor(r.row)] \in Request
      BY <3>1, RequestType
    <3> QED
      BY <1>15, <3>2 DEF ValidateBatch, TypeOK
  <2> QED
    BY <1>15, <2>1 DEF ValidateBatch, TypeOK, InsertDue
<1>16. ASSUME NEW r \in net, ValidateWithoutWrite(r)
       PROVE  TypeInv'
  BY <1>16, AnswerType DEF ValidateWithoutWrite, TypeOK, InsertDue
<1>17. ASSUME NEW r \in net, ApplyBatch(r)
       PROVE  TypeInv'
  <2>1. r.plan.row \in Row
    BY <1>17, RequestType DEF ApplyBatch, TypeOK, Plan
  <2>2. net' \subseteq Request
    BY <1>17, LateType DEF ApplyBatch, TypeOK
  <2>3. issued' \in Nat /\ raced' \in BOOLEAN
    BY <1>17, <2>1 DEF ApplyBatch, TypeOK, Row
  <2>4. entry' \in Row
    BY <1>17, <2>1 DEF ApplyBatch
  <2>5. r \in Request /\ Answer(r, "synced")
    BY <1>17 DEF ApplyBatch, TypeOK
  <2>6. /\ reply' \in [Devices -> Answers]
        /\ edit' \in [Devices -> {"clean", "unsent", "sent", "decided"}]
    BY <2>5, AnswerType
  <2>7. UNCHANGED <<closed, deviceVars, pc, pulled>>
    BY <1>17 DEF ApplyBatch
  <2> QED
    BY <2>2, <2>3, <2>4, <2>6, <2>7 DEF TypeOK, InsertDue
<1>18. ASSUME NEW r \in net, ApplyCollides(r)
       PROVE  TypeInv'
  BY <1>18, AnswerType DEF ApplyCollides, TypeOK, InsertDue
<1>19. ASSUME NEW m \in Months, CloseMonth(m) \/ ReopenMonth(m)
       PROVE  TypeInv'
  <2>1. net' \subseteq Request
    BY <1>19, LateForCloseType DEF CloseMonth, ReopenMonth, TypeOK
  <2> QED
    BY <1>19, <2>1 DEF CloseMonth, ReopenMonth, TypeOK, InsertDue
<1>20. ASSUME UNCHANGED vars
       PROVE  TypeInv'
  BY <1>20 DEF vars, TypeOK, InsertDue
<1> QED
  BY <1>1, <1>2, <1>3, <1>4, <1>5, <1>6, <1>7, <1>8, <1>9, <1>10, <1>11, <1>12,
     <1>13, <1>14, <1>15, <1>16, <1>17, <1>18, <1>19, <1>20
  DEF Next, User, Sync, Handle, Network

\* At first nothing is there.
LEMMA TypeInit == Init => TypeInv
<1> SUFFICES ASSUME Init PROVE TypeInv
  OBVIOUS
<1>1. raced \in BOOLEAN /\ issued \in Nat
  BY DEF Init
<1>2. DueWhilePosting
  BY DEF Init, DueWhilePosting
<1>3. /\ entry \in Row \union {NoRow} /\ closed \subseteq Months /\ net \subseteq Request
      /\ edits \in Nat /\ failures \in Nat
  BY DEF Init
<1>4. /\ local \in [Devices -> Row \union {NoRow}]
      /\ queue \in [Devices -> QueuedInsert \union {NoRow}]
      /\ pulled \in [Devices -> Row \union {NoRow}]
  BY DEF Init
<1>5. /\ pc \in [Devices -> SyncSteps]
      /\ reply \in [Devices -> Answers]
      /\ edit \in [Devices -> {"clean", "unsent", "sent", "decided"}]
  BY DEF Init, SyncSteps, Answers
<1> QED
  BY <1>1, <1>2, <1>3, <1>4, <1>5 DEF TypeInv, TypeOK

(***************************************************************************)
(* Every variable keeps its type; in particular no queued insert is tried  *)
(* more than MaxAttempts times.                                            *)
(***************************************************************************)
THEOREM TypeCorrect == Spec => []TypeOK
<1> QED
  BY TypeInit, TypeStep, PTL DEF Spec, TypeInv

-----------------------------------------------------------------------------
(***************************************************************************)
(* The sync of a device, whatever the network does and however requests    *)
(* overlap.  Part by part: an answer is for the post the device waits for; *)
(* a request its sender still waits for is that post, and the only one; an *)
(* answer says "synced" only of an entry the server has; the table counts  *)
(* as sent only until the answer to it.                                    *)
(***************************************************************************)
ReplyAwaited ==
  \A d \in Devices : reply[d] # "none" => pc[d] \in {"insertWait", "pushWait"}

LiveAwaited ==
  \A r \in net : r.live =>
    /\ pc[r.dev] = IF r.kind = "insert" THEN "insertWait" ELSE "pushWait"
    /\ reply[r.dev] = "none"
    /\ \A q \in net : q.live /\ q.dev = r.dev => q = r

SyncedIsStored == \A d \in Devices : reply[d] = "synced" => entry # NoRow

AnsweredIsDecided ==
  \A d \in Devices :
    /\ pc[d] = "pushWait" /\ reply[d] \in {"synced", "rejected"} => edit[d] # "sent"
    /\ pc[d] \in {"pull", "pullWait"} => edit[d] # "sent"

NothingToEdit == \A d \in Devices : local[d] = NoRow => edit[d] = "clean"

SyncInv ==
  /\ TypeInv
  /\ ReplyAwaited
  /\ LiveAwaited
  /\ SyncedIsStored
  /\ AnsweredIsDecided
  /\ NothingToEdit
  /\ SyncedInsertIsStored

(***************************************************************************)
(* What an answer changes, seen from any device.                           *)
(***************************************************************************)
LEMMA AnswerStep ==
  ASSUME TypeOK, NEW r \in Request, NEW a, Answer(r, a), NEW d \in Devices
  PROVE  /\ reply'[d] = reply[d] \/ (r.live /\ d = r.dev /\ reply'[d] = a)
         /\ r.live /\ d = r.dev => reply'[d] = a
         /\ edit'[d] = edit[d] \/ (edit[d] = "sent" /\ edit'[d] = "decided")
         /\ r.live /\ d = r.dev /\ r.kind = "push" /\ a # "error" => edit'[d] # "sent"
<1>1. r.dev \in Devices
  BY RequestType
<1> QED
  BY <1>1 DEF TypeOK, Answer

(***************************************************************************)
(* The server answers a request, truthfully, and may store the entry.      *)
(***************************************************************************)
LEMMA AnsweredStep ==
  ASSUME SyncInv, TypeInv', NEW r \in net, NEW a \in {"synced", "rejected", "error"},
         Answer(r, a), net' = net \ {r} \/ net' = {LateForWrite(q) : q \in net \ {r}},
         UNCHANGED <<pc, local, queue>>,
         entry # NoRow => entry' # NoRow,
         a = "synced" => entry' # NoRow
  PROVE  SyncInv'
<1>1. r \in Request /\ net \subseteq Request /\ \A q \in net : q.dev \in Devices
  BY RequestType DEF SyncInv, TypeInv, TypeOK
<1>n. \A q \in net' : \E o \in net \ {r} :
         /\ q.dev = o.dev /\ q.live = o.live /\ q.kind = o.kind
         /\ q = IF net' = net \ {r} THEN o ELSE LateForWrite(o)
  BY <1>1, LateType
<1>2. \A d \in Devices :
         /\ reply'[d] = reply[d] \/ (r.live /\ d = r.dev /\ reply'[d] = a)
         /\ r.live /\ d = r.dev => reply'[d] = a
         /\ edit'[d] = edit[d] \/ (edit[d] = "sent" /\ edit'[d] = "decided")
         /\ r.live /\ d = r.dev /\ r.kind = "push" /\ a # "error" => edit'[d] # "sent"
  BY <1>1, AnswerStep DEF SyncInv, TypeInv
<1>3. ReplyAwaited'
  BY <1>1, <1>2 DEF SyncInv, ReplyAwaited, LiveAwaited
<1>4. LiveAwaited'
  <2> SUFFICES ASSUME NEW q \in net', q.live
               PROVE  /\ pc'[q.dev] = IF q.kind = "insert" THEN "insertWait" ELSE "pushWait"
                      /\ reply'[q.dev] = "none"
                      /\ \A p \in net' : p.live /\ p.dev = q.dev => p = q
    BY DEF LiveAwaited
  <2>1. PICK o \in net \ {r} : /\ q.dev = o.dev /\ q.live = o.live /\ q.kind = o.kind
                              /\ q = IF net' = net \ {r} THEN o ELSE LateForWrite(o)
    BY <1>n
  <2>2. /\ pc[o.dev] = IF o.kind = "insert" THEN "insertWait" ELSE "pushWait"
        /\ reply[o.dev] = "none"
        /\ \A p \in net : p.live /\ p.dev = o.dev => p = o
    BY <2>1 DEF SyncInv, LiveAwaited
  <2>3. ~(r.live /\ o.dev = r.dev)
    BY <2>1, <2>2
  <2>4. reply'[q.dev] = "none" /\ pc' = pc
    BY <1>1, <1>2, <2>1, <2>2, <2>3
  <2>5. ASSUME NEW p \in net', p.live, p.dev = q.dev
        PROVE  p = q
    <3>1. PICK x \in net \ {r} : /\ p.dev = x.dev /\ p.live = x.live
                                /\ p = IF net' = net \ {r} THEN x ELSE LateForWrite(x)
      BY <1>n
    <3>2. x = o
      BY <2>1, <2>2, <2>5, <3>1
    <3> QED
      BY <2>1, <3>1, <3>2
  <2> QED
    BY <2>1, <2>2, <2>4, <2>5
<1>5. SyncedIsStored'
  BY <1>2 DEF SyncInv, SyncedIsStored
<1>6. AnsweredIsDecided'
  BY <1>1, <1>2 DEF SyncInv, AnsweredIsDecided, LiveAwaited, Request
<1>7. NothingToEdit'
  BY <1>2 DEF SyncInv, NothingToEdit
<1>8. SyncedInsertIsStored'
  BY DEF SyncInv, SyncedInsertIsStored
<1> QED
  BY <1>3, <1>4, <1>5, <1>6, <1>7, <1>8 DEF SyncInv

(***************************************************************************)
(* A device with a new row is no device without one.                       *)
(***************************************************************************)
LEMMA RowChanged ==
  ASSUME TypeOK, NEW d \in Devices, NEW row \in Row, local' = [local EXCEPT ![d] = row]
  PROVE  \A x \in Devices : local'[x] = NoRow => x # d /\ local[x] = NoRow
<1>1. row # NoRow
  BY RowType
<1> QED
  BY <1>1 DEF TypeOK

(***************************************************************************)
(* The sync invariant is inductive, with and without overlap and loss.     *)
(***************************************************************************)
LEMMA SyncStep == SyncInv /\ [Next]_vars => SyncInv'
<1> SUFFICES ASSUME SyncInv, [Next]_vars PROVE SyncInv'
  OBVIOUS
<1>t. TypeInv /\ TypeInv' /\ TypeOK /\ TypeOK'
  BY TypeStep DEF SyncInv, TypeInv
<1> USE <1>t, NoRowAssumption
<1> USE DEF serverVars, deviceVars, SyncInv, ReplyAwaited, LiveAwaited, SyncedIsStored,
            AnsweredIsDecided, NothingToEdit, SyncedInsertIsStored
<1>1. ASSUME NEW d \in Devices, NEW c \in Contents, NEW queued \in BOOLEAN,
             NEW fine \in BOOLEAN, AddEntry(d, c, queued, fine)
      PROVE  SyncInv'
  <2> DEFINE row == [content |-> c, deleted |-> FALSE, version |-> 1, fine |-> FALSE]
  <2>a. row \in Row
    BY DEF Row
  <2>b. local' = [local EXCEPT ![d] = row]
    BY <1>1 DEF AddEntry, ChangeLocal
  <2> HIDE DEF row
  <2>1. \A x \in Devices : local'[x] = NoRow => x # d /\ local[x] = NoRow
    BY <2>a, <2>b, RowChanged
  <2>2. \A x \in Devices : queue'[x] = queue[x] \/ ~queue'[x].synced
    BY <1>1 DEF AddEntry, Queued, TypeOK
  <2>3. edit' = [edit EXCEPT ![d] = "unsent"]
    BY <1>1 DEF AddEntry, ChangeLocal
  <2>4. UNCHANGED <<entry, pc, reply, net>>
    BY <1>1 DEF AddEntry
  <2>5. ReplyAwaited' /\ LiveAwaited' /\ SyncedIsStored'
    BY <2>4
  <2>6. SyncedInsertIsStored'
    BY <2>2, <2>4
  <2>7. AnsweredIsDecided' /\ NothingToEdit'
    BY <2>1, <2>3, <2>4 DEF TypeOK
  <2> QED
    BY <2>5, <2>6, <2>7
<1>2. ASSUME NEW d \in Devices, NEW c \in Contents, UpdateEntry(d, c)
      PROVE  SyncInv'
  <2>1. [local[d] EXCEPT !.content = c] \in Row
    BY <1>2, RowType DEF UpdateEntry, TypeOK, Row
  <2>2. \A x \in Devices : local'[x] = NoRow => x # d /\ local[x] = NoRow
    BY <1>2, <2>1, RowChanged DEF UpdateEntry, ChangeLocal
  <2>3. edit' = [edit EXCEPT ![d] = "unsent"]
    BY <1>2 DEF UpdateEntry, ChangeLocal
  <2>4. UNCHANGED <<entry, queue, pc, reply, net>>
    BY <1>2 DEF UpdateEntry
  <2>5. ReplyAwaited' /\ LiveAwaited' /\ SyncedIsStored' /\ SyncedInsertIsStored'
    BY <2>4
  <2> QED
    BY <2>2, <2>3, <2>4, <2>5 DEF TypeOK
<1>3. ASSUME NEW d \in Devices, SoftDelete(d)
      PROVE  SyncInv'
  <2>1. [local[d] EXCEPT !.deleted = TRUE] \in Row
    BY <1>3, RowType DEF SoftDelete, TypeOK
  <2>2. \A x \in Devices : local'[x] = NoRow => x # d /\ local[x] = NoRow
    BY <1>3, <2>1, RowChanged DEF SoftDelete, ChangeLocal
  <2>3. edit' = [edit EXCEPT ![d] = "unsent"]
    BY <1>3 DEF SoftDelete, ChangeLocal
  <2>4. UNCHANGED <<entry, queue, pc, reply, net>>
    BY <1>3 DEF SoftDelete
  <2>5. ReplyAwaited' /\ LiveAwaited' /\ SyncedIsStored' /\ SyncedInsertIsStored'
    BY <2>4
  <2> QED
    BY <2>2, <2>3, <2>4, <2>5 DEF TypeOK
<1>4. ASSUME NEW d \in Devices, StartSync(d)
      PROVE  SyncInv'
  BY <1>4 DEF StartSync, Goto, TypeOK
<1>5. ASSUME NEW d \in Devices, PostInsert(d)
      PROVE  SyncInv'
  <2>1. \A q \in net : q.live => q.dev # d
    BY <1>5 DEF PostInsert
  <2>2. \A q \in net' \ net : q.dev = d /\ q.kind = "insert"
    BY <1>5 DEF PostInsert, Post
  <2>3. \A q1, q2 \in net' \ net : q1 = q2
    BY <1>5 DEF PostInsert, Post
  <2>4. LiveAwaited'
    BY <1>5, <2>1, <2>2, <2>3, RequestType DEF PostInsert, Goto, TypeOK
  <2> QED
    BY <1>5, <2>4 DEF PostInsert, Goto, TypeOK
<1>6. ASSUME NEW d \in Devices, InsertAnswered(d)
      PROVE  SyncInv'
  <2>1. queue[d] # NoRow /\ queue[d] \in QueuedInsert
    BY <1>6 DEF InsertAnswered, InsertDue, TypeInv, DueWhilePosting, TypeOK
  <2>2. queue'[d].synced = queue[d].synced \/ reply[d] = "synced"
    BY <1>6, <2>1 DEF InsertAnswered, TypeOK, QueuedInsert
  <2>3. SyncedInsertIsStored'
    BY <1>6, <2>1, <2>2 DEF InsertAnswered, TypeOK
  <2>4. LiveAwaited'
    BY <1>6 DEF InsertAnswered, Goto, TypeOK
  <2> QED
    BY <1>6, <2>3, <2>4 DEF InsertAnswered, Goto, TypeOK
<1>7. ASSUME NEW d \in Devices, PostTable(d)
      PROVE  SyncInv'
  <2>1. \A q \in net : q.live => q.dev # d
    BY <1>7 DEF PostTable
  <2>2. \A q \in net' \ net : q.dev = d /\ q.kind = "push"
    BY <1>7 DEF PostTable, Post
  <2>3. \A q1, q2 \in net' \ net : q1 = q2
    BY <1>7 DEF PostTable, Post
  <2>4. LiveAwaited'
    BY <1>7, <2>1, <2>2, <2>3, RequestType DEF PostTable, Goto, TypeOK
  <2> QED
    BY <1>7, <2>4 DEF PostTable, Goto, TypeOK
<1>8. ASSUME NEW d \in Devices, PostTableWithoutEntry(d)
      PROVE  SyncInv'
  BY <1>8 DEF PostTableWithoutEntry, Goto, TypeOK
<1>9. ASSUME NEW d \in Devices, TableAnswered(d)
      PROVE  SyncInv'
  <2>1. LiveAwaited'
    BY <1>9 DEF TableAnswered, Goto, TypeOK
  <2>2. AnsweredIsDecided'
    BY <1>9 DEF TableAnswered, Goto, TypeOK, Answers
  <2> QED
    BY <1>9, <2>1, <2>2 DEF TableAnswered, Goto, TypeOK
<1>10. ASSUME NEW d \in Devices, PullData(d)
       PROVE  SyncInv'
  BY <1>10 DEF PullData, Goto, TypeOK
<1>11. ASSUME NEW d \in Devices, ApplyPull(d)
       PROVE  SyncInv'
  <2>1. AfterPull(d) = NoRow => local[d] = NoRow /\ (pulled[d] = NoRow \/ pulled[d].deleted)
    <3>1. pulled[d] # NoRow => Truncated(pulled[d]) # NoRow
      BY TruncatedType DEF TypeOK
    <3> QED
      BY <3>1, RowType DEF AfterPull, TypeOK
  <2>2. NothingToEdit'
    BY <1>11, <2>1 DEF ApplyPull, TypeOK
  <2> QED
    BY <1>11, <2>2 DEF ApplyPull, Goto, TypeOK
<1>12. ASSUME NEW d \in Devices, AbandonSync(d)
       PROVE  SyncInv'
  <2>1. \A r \in net' : r.live => r \in net /\ r.dev # d
    BY <1>12, RequestType DEF AbandonSync, TypeOK, Request
  <2>2. LiveAwaited'
    BY <1>12, <2>1 DEF AbandonSync, Goto, TypeOK
  <2> QED
    BY <1>12, <2>2 DEF AbandonSync, Goto, TypeOK
<1>13. ASSUME NEW d \in Devices, LoseReply(d)
       PROVE  SyncInv'
  BY <1>13 DEF LoseReply, TypeOK
<1>14. ASSUME NEW r \in net, LoseRequest(r)
       PROVE  SyncInv'
  BY <1>14, AnsweredStep DEF LoseRequest
<1>15. ASSUME NEW r \in net, ValidateBatch(r)
       PROVE  SyncInv'
  <2>1. \A q \in net' : \E o \in net :
           /\ q.dev = o.dev /\ q.live = o.live /\ q.kind = o.kind
           /\ o # r => q = o
           /\ o = r => q = [r EXCEPT !.plan = PlanFor(r.row)]
    BY <1>15 DEF ValidateBatch, TypeOK, Request
  <2>2. LiveAwaited'
    BY <1>15, <2>1 DEF ValidateBatch
  <2> QED
    BY <1>15, <2>2 DEF ValidateBatch
<1>16. ASSUME NEW r \in net, ValidateWithoutWrite(r)
       PROVE  SyncInv'
  <2>1. ~Rejected(r.row) => entry # NoRow
    BY <1>16 DEF ValidateWithoutWrite, Rejected, Writes, Unchanged, Stale, Revives
  <2> QED
    BY <1>16, <2>1, AnsweredStep DEF ValidateWithoutWrite
<1>17. ASSUME NEW r \in net, ApplyBatch(r)
       PROVE  SyncInv'
  <2>1. r.plan.row \in Row
    BY <1>17, RequestType DEF ApplyBatch, TypeOK, Plan
  <2>2. entry' # NoRow
    BY <1>17, <2>1 DEF ApplyBatch
  <2> QED
    BY <1>17, <2>2, AnsweredStep DEF ApplyBatch
<1>18. ASSUME NEW r \in net, ApplyCollides(r)
       PROVE  SyncInv'
  BY <1>18, AnsweredStep DEF ApplyCollides
<1>19. ASSUME NEW m \in Months, CloseMonth(m) \/ ReopenMonth(m)
       PROVE  SyncInv'
  <2>1. CASE ReopenMonth(m)
    BY <2>1 DEF ReopenMonth
  <2>2. CASE CloseMonth(m)
    <3>1. \A q \in net' : \E o \in net :
             q.dev = o.dev /\ q.live = o.live /\ q.kind = o.kind /\ q = LateForClose(o, m)
      BY <2>2, LateForCloseType DEF CloseMonth, TypeOK
    <3>2. UNCHANGED <<entry, local, queue, pc, reply, edit>>
      BY <2>2 DEF CloseMonth
    <3>3. LiveAwaited'
      BY <3>1, <3>2
    <3> QED
      BY <3>2, <3>3
  <2> QED
    BY <1>19, <2>1, <2>2
<1>20. ASSUME UNCHANGED vars
       PROVE  SyncInv'
  BY <1>20 DEF vars
<1> QED
  BY <1>1, <1>2, <1>3, <1>4, <1>5, <1>6, <1>7, <1>8, <1>9, <1>10, <1>11, <1>12,
     <1>13, <1>14, <1>15, <1>16, <1>17, <1>18, <1>19, <1>20
  DEF Next, User, Sync, Handle, Network

\* At first nothing is queued, sent or answered.
LEMMA SyncInit == Init => SyncInv
  BY TypeInit DEF Init, SyncInv, ReplyAwaited, LiveAwaited, SyncedIsStored, AnsweredIsDecided, NothingToEdit,
         SyncedInsertIsStored

(***************************************************************************)
(* A queued insert is marked synced only when the server has the entry.    *)
(***************************************************************************)
THEOREM QueueIsHonest == Spec => []SyncedInsertIsStored
<1>1. SyncInv => SyncedInsertIsStored
  BY DEF SyncInv
<1> QED
  BY <1>1, SyncInit, SyncStep, PTL DEF Spec

(***************************************************************************)
(* A pushed change is replaced undecided only by the pull that follows a   *)
(* failed push.                                                            *)
(***************************************************************************)
THEOREM SuccessIsSafe == Spec => SuccessNeverDropsPushedEdit
<1> DEFINE Step == \A d \in Devices :
             edit[d] = "sent" /\ edit'[d] = "clean" => pc[d] = "fallbackWait"
<1>1. SyncInv /\ [Next]_vars => [Step]_vars
  <2> SUFFICES ASSUME SyncInv, Next, NEW d \in Devices,
                      edit[d] = "sent", edit'[d] = "clean"
               PROVE  pc[d] = "fallbackWait"
    OBVIOUS
  <2>1. TypeOK /\ pc[d] \notin {"pull", "pullWait"}
    BY DEF SyncInv, TypeInv, AnsweredIsDecided
  <2>2. ASSUME NEW x \in Devices, ApplyPull(x)
        PROVE  pc[d] = "fallbackWait"
    BY <2>1, <2>2 DEF ApplyPull, TypeOK
  <2>3. ASSUME NEW r \in net, NEW a, Answer(r, a)
        PROVE  FALSE
    BY <2>1, <2>3, AnswerStep DEF TypeOK
  <2>4. CASE User
    BY <2>1, <2>4 DEF User, AddEntry, UpdateEntry, SoftDelete, ChangeLocal, TypeOK
  <2>5. CASE \E x \in Devices : Sync(x)
    BY <2>1, <2>2, <2>5 DEF Sync, StartSync, PostInsert, InsertAnswered, PostTable,
       PostTableWithoutEntry, TableAnswered, PullData, TypeOK
  <2>6. CASE \E r \in net : Handle(r)
    BY <2>3, <2>6 DEF Handle, ValidateBatch, ValidateWithoutWrite, ApplyBatch, ApplyCollides
  <2>7. CASE Network
    BY <2>3, <2>7 DEF Network, AbandonSync, LoseReply, LoseRequest
  <2>8. CASE \E m \in Months : CloseMonth(m) \/ ReopenMonth(m)
    BY <2>8 DEF CloseMonth, ReopenMonth
  <2> QED
    BY <2>4, <2>5, <2>6, <2>7, <2>8 DEF Next
<1> QED
  BY <1>1, SyncInit, SyncStep, PTL DEF Spec, SuccessNeverDropsPushedEdit

-----------------------------------------------------------------------------
(***************************************************************************)
(* The version protocol.  A row is fresh when a push of it could write its *)
(* date at most: it is the server's row, to the second, or carries an      *)
(* older version.  It is known when its version is one there has been.     *)
(***************************************************************************)
Fresh(row) ==
  entry # NoRow /\ (row.version < entry.version \/ Truncated(row) = Truncated(entry))

Known(row) == 1 <= row.version /\ row.version <= issued

Numbered ==
  /\ entry = NoRow => issued = 1 /\ ~raced
  /\ entry # NoRow => Known(entry)
  /\ entry # NoRow /\ ~raced => entry.version = issued

RowsKnown ==
  /\ \A d \in Devices : local[d] # NoRow => Known(local[d])
  /\ \A d \in Devices : pulled[d] # NoRow => Known(pulled[d])
  /\ \A d \in Devices : queue[d] # NoRow => Known(queue[d].row)
  /\ \A r \in net : Known(r.row)

\* The table of a device keeps no fractions of seconds.
TableTruncated ==
  /\ \A d \in Devices : local[d] # NoRow => ~local[d].fine
  /\ \A r \in net : r.clean => ~r.row.fine

PulledFresh ==
  ~raced => \A d \in Devices : pulled[d] # NoRow =>
              Fresh(pulled[d]) /\ (pulled[d].deleted => entry.deleted)

CleanFresh ==
  ~raced => /\ \A d \in Devices : edit[d] = "clean" /\ local[d] # NoRow => Fresh(local[d])
            /\ \A r \in net : r.clean => Fresh(r.row)

\* A decision is what the server would decide now, but for the closed months
\* and for rows written since.
PlanHolds(r) ==
  IF r.late = "written"
    THEN /\ entry # NoRow
         /\ 1 <= r.plan.row.version
         /\ ~raced => r.plan.row.version <= entry.version
    ELSE /\ r.plan = PlanFor(r.row)
         /\ ~Unchanged(r.row)
         /\ ~Stale(r.row)
         /\ ~Revives(r.row)
         /\ r.late = "no" => ~InClosedMonth(r.row)

PlansHold ==
  \A r \in net : IF r.plan = NoRow THEN r.late = "no" ELSE PlanHolds(r)

VersionInv ==
  /\ TypeInv
  /\ Numbered
  /\ RowsKnown
  /\ TableTruncated
  /\ PulledFresh
  /\ CleanFresh
  /\ PlansHold

(***************************************************************************)
(* The plan for a row: the row itself, with a number above the server's.   *)
(***************************************************************************)
LEMMA PlanNumber ==
  ASSUME TypeOK, Numbered, NEW row \in Row, Known(row)
  PROVE  /\ PlanFor(row) \in Plan
         /\ PlanFor(row).row.content = row.content
         /\ PlanFor(row).row.deleted = row.deleted
         /\ PlanFor(row).row.fine = row.fine
         /\ entry = NoRow => PlanFor(row).row.version = 1
         /\ entry # NoRow => /\ PlanFor(row).row.version > entry.version
                             /\ PlanFor(row).act = "update"
         /\ entry # NoRow /\ ~raced => /\ row.version <= entry.version
                                       /\ PlanFor(row).row.version = entry.version + 1
<1>1. PlanFor(row) \in Plan
  BY PlanType
<1>2. CASE entry = NoRow
  <2>1. row.version = 1
    BY <1>2 DEF Numbered, Known, Row
  <2>2. PlanFor(row).row = row
    BY <1>2 DEF PlanFor
  <2> QED
    BY <1>1, <1>2, <2>1, <2>2
<1>3. CASE entry # NoRow
  <2> DEFINE version == 1 + IF row.version > entry.version THEN row.version ELSE entry.version
  <2>1. entry \in Row /\ entry.version \in Nat /\ row.version \in Nat
    BY <1>3 DEF TypeOK, Row
  <2>2. PlanFor(row).act = "update" /\ PlanFor(row).row = [row EXCEPT !.version = version]
    BY <1>3 DEF PlanFor
  <2>3. version > entry.version
    BY <2>1
  <2>4. ~raced => row.version <= entry.version /\ version = entry.version + 1
    BY <1>3, <2>1 DEF Numbered, Known
  <2>5. /\ PlanFor(row).row.version = version
        /\ PlanFor(row).row.content = row.content
        /\ PlanFor(row).row.deleted = row.deleted
        /\ PlanFor(row).row.fine = row.fine
    BY <2>2 DEF Row
  <2> QED
    BY <1>1, <1>3, <2>2, <2>3, <2>4, <2>5
<1> QED
  BY <1>2, <1>3

(***************************************************************************)
(* What carrying out a decision does to the row, by what has overtaken it. *)
(***************************************************************************)
LEMMA WriteStep ==
  ASSUME VersionInv, NEW r \in net, ApplyBatch(r)
  PROVE  /\ entry' \in Row /\ entry' = r.plan.row
         /\ r.late # "written" =>
              /\ raced' = raced
              /\ entry = NoRow => entry'.version = 1
              /\ entry # NoRow => entry'.version > entry.version
              /\ entry # NoRow /\ ~raced => entry'.version = entry.version + 1
              /\ entry # NoRow /\ entry.deleted =>
                   entry'.deleted \/ (raced /\ r.row.version > entry.version)
         /\ r.late = "no" =>
              /\ MonthOf[entry'.content] \notin closed
              /\ entry # NoRow => MonthOf[entry.content] \notin closed
         /\ r.late = "written" =>
              /\ raced'
              /\ entry # NoRow
              /\ 1 <= entry'.version
              /\ ~raced => entry'.version <= entry.version
<1>t. TypeOK /\ Numbered /\ PlansHold
  BY DEF VersionInv, TypeInv
<1>1. /\ r \in Request /\ r.row \in Row /\ r.plan \in Plan /\ Known(r.row)
      /\ entry' = r.plan.row /\ raced' = (raced \/ r.late = "written")
  BY <1>t, RequestType DEF ApplyBatch, TypeOK, VersionInv, RowsKnown
<1>2. entry' \in Row
  BY <1>1 DEF Plan
<1>3. PlanHolds(r)
  BY <1>t DEF PlansHold, ApplyBatch
<1>4. CASE r.late = "written"
  BY <1>1, <1>2, <1>3, <1>4 DEF PlanHolds
<1>5. CASE r.late # "written"
  <2>1. /\ r.plan = PlanFor(r.row) /\ ~Revives(r.row)
        /\ r.late = "no" => ~InClosedMonth(r.row)
    BY <1>3, <1>5 DEF PlanHolds
  <2>2. /\ entry'.content = r.row.content
        /\ entry'.deleted = r.row.deleted
        /\ entry = NoRow => entry'.version = 1
        /\ entry # NoRow => entry'.version > entry.version
        /\ entry # NoRow /\ ~raced => /\ r.row.version <= entry.version
                                      /\ entry'.version = entry.version + 1
    BY <1>t, <1>1, <2>1, PlanNumber
  <2>3. raced \in BOOLEAN /\ raced' = raced
    BY <1>t, <1>1, <1>5 DEF TypeOK
  <2>4. ASSUME entry # NoRow, entry.deleted
        PROVE  entry'.deleted \/ (raced /\ r.row.version > entry.version)
    <3>1. r.row.deleted \/ r.row.version > entry.version
      BY <2>1, <2>4 DEF Revives
    <3>2. r.row.version \in Nat /\ entry.version \in Nat
      BY <1>t, <1>1, <2>4 DEF TypeOK, Row
    <3> QED
      BY <2>2, <2>3, <2>4, <3>1, <3>2
  <2>5. r.late = "no" =>
           /\ MonthOf[entry'.content] \notin closed
           /\ entry # NoRow => MonthOf[entry.content] \notin closed
    BY <2>1, <2>2 DEF InClosedMonth, MonthsTouched
  <2> QED
    BY <1>1, <1>2, <1>5, <2>2, <2>3, <2>4, <2>5
<1> QED
  BY <1>4, <1>5

(***************************************************************************)
(* What a write makes of the other copies and decisions.                   *)
(***************************************************************************)
LEMMA CopiesAge ==
  ASSUME VersionInv, NEW r \in net, ApplyBatch(r)
  PROVE  /\ Numbered'
         /\ \A row \in Row : Known(row) => Known(row)'
         /\ ~raced' => \A row \in Row : Fresh(row) => Fresh(row)'
         /\ ~raced' => (entry # NoRow /\ entry.deleted => entry'.deleted)
         /\ \A q \in net : q.plan # NoRow => PlanHolds(LateForWrite(q))'
<1>t. TypeOK /\ Numbered /\ PlansHold /\ issued \in Nat /\ raced \in BOOLEAN
  BY DEF VersionInv, TypeInv, TypeOK
<1>1. /\ issued' = IF entry'.version > issued THEN entry'.version ELSE issued
      /\ raced' = (raced \/ r.late = "written")
      /\ r \in Request
  BY <1>t DEF ApplyBatch, TypeOK
<1>2. entry' \in Row /\ entry' # NoRow /\ entry'.version \in Nat
  BY WriteStep, RowType DEF Row
<1>3. entry # NoRow => entry \in Row /\ entry.version \in Nat /\ Known(entry)
  BY <1>t DEF TypeOK, Row, Numbered
<1>4. ~raced' => /\ r.late # "written" /\ ~raced
                 /\ entry'.version = issued'
                 /\ entry # NoRow => entry'.version = entry.version + 1
                 /\ entry = NoRow => entry'.version = 1
  BY <1>t, <1>1, <1>2, <1>3, WriteStep DEF Numbered
<1>5. 1 <= entry'.version
  BY <1>2, <1>3, WriteStep DEF Known
<1>6. Numbered'
  BY <1>t, <1>1, <1>2, <1>4, <1>5 DEF Numbered, Known
<1>7. \A row \in Row : Known(row) => Known(row)'
  BY <1>t, <1>1, <1>2 DEF Known, Row
<1>8. ASSUME ~raced', NEW row \in Row, Fresh(row)
      PROVE  Fresh(row)'
  <2>1. entry # NoRow
    BY <1>8 DEF Fresh
  <2>2. Truncated(row) = Truncated(entry) => row.version = entry.version
    BY <1>3, <2>1, TruncatedType
  <2>3. row.version <= entry.version
    BY <1>3, <1>8, <2>1, <2>2 DEF Fresh, Row
  <2>4. row.version < entry'.version
    BY <1>2, <1>3, <1>4, <1>8, <2>1, <2>3 DEF Row
  <2> QED
    BY <1>2, <2>4 DEF Fresh
<1>9. ~raced' => (entry # NoRow /\ entry.deleted => entry'.deleted)
  BY <1>4, WriteStep
<1>10. ASSUME NEW q \in net, q.plan # NoRow
       PROVE  PlanHolds(LateForWrite(q))'
  <2>1. /\ q \in Request /\ q.row \in Row /\ Known(q.row) /\ PlanHolds(q)
        /\ q.plan \in Plan
    BY <1>t, <1>10, RequestType DEF TypeOK, PlansHold, VersionInv, RowsKnown
  <2>2. LateForWrite(q).late = "written" /\ LateForWrite(q).plan = q.plan
    BY <1>10, <2>1, LateType
  <2>3. q.plan.row.version \in Nat
    BY <2>1 DEF Plan, Row
  <2>4. CASE q.late = "written"
    <3>1. /\ entry # NoRow /\ 1 <= q.plan.row.version
          /\ ~raced => q.plan.row.version <= entry.version
      BY <2>1, <2>4 DEF PlanHolds
    <3>2. ~raced' => q.plan.row.version <= entry'.version
      BY <1>2, <1>3, <1>4, <2>3, <3>1
    <3> QED
      BY <1>2, <2>2, <3>1, <3>2 DEF PlanHolds
  <2>5. CASE q.late # "written"
    <3>1. q.plan = PlanFor(q.row)
      BY <2>1, <2>5 DEF PlanHolds
    <3>2. /\ entry = NoRow => q.plan.row.version = 1
          /\ entry # NoRow => q.plan.row.version > entry.version
          /\ entry # NoRow /\ ~raced => q.plan.row.version = entry.version + 1
      BY <1>t, <2>1, <3>1, PlanNumber
    <3>3. 1 <= q.plan.row.version
      BY <1>3, <2>3, <3>2 DEF Known
    <3>4. ~raced' => q.plan.row.version <= entry'.version
      BY <1>2, <1>3, <1>4, <2>3, <3>2
    <3> QED
      BY <1>2, <2>2, <3>3, <3>4 DEF PlanHolds
  <2> QED
    BY <2>4, <2>5
<1> QED
  BY <1>6, <1>7, <1>8, <1>9, <1>10

(***************************************************************************)
(* The version invariant is inductive, however requests overlap.           *)
(***************************************************************************)
LEMMA VersionStep ==
  ASSUME VersionInv, [Next]_vars
  PROVE  VersionInv'
<1>t. TypeInv /\ TypeInv' /\ TypeOK /\ TypeOK'
  BY TypeStep DEF VersionInv, TypeInv
<1> USE <1>t, NoRowAssumption
<1> USE DEF serverVars, deviceVars
<1>r. /\ \A d \in Devices : local[d] # NoRow => local[d] \in Row
      /\ \A d \in Devices : pulled[d] # NoRow => pulled[d] \in Row
      /\ \A d \in Devices : queue[d] # NoRow => queue[d].row \in Row
      /\ \A r \in net : r \in Request /\ r.row \in Row /\ r.dev \in Devices
  BY RequestType DEF TypeOK, QueuedInsert
<1>v. Numbered /\ RowsKnown /\ TableTruncated /\ PulledFresh /\ CleanFresh /\ PlansHold
  BY DEF VersionInv
\* The user and the device leave the server alone.
<1>s. ASSUME UNCHANGED <<entry, closed, issued, raced>>
      PROVE  /\ \A row : (Known(row)' <=> Known(row)) /\ (Fresh(row)' <=> Fresh(row))
             /\ \A r : PlanHolds(r)' <=> PlanHolds(r)
             /\ Numbered' /\ raced' = raced /\ entry' = entry
  BY <1>s, <1>v
  DEF Known, Fresh, PlanHolds, Numbered, PlanFor, Unchanged, Stale, Revives,
      InClosedMonth, MonthsTouched
<1>1. ASSUME NEW d \in Devices, NEW c \in Contents, NEW queued \in BOOLEAN,
             NEW fine \in BOOLEAN, AddEntry(d, c, queued, fine)
      PROVE  VersionInv'
  <2> DEFINE row == [content |-> c, deleted |-> FALSE, version |-> 1, fine |-> FALSE]
             op == [row |-> [row EXCEPT !.fine = fine], attempts |-> 0, synced |-> FALSE]
  <2>1. /\ local' = [local EXCEPT ![d] = row]
        /\ edit' = [edit EXCEPT ![d] = "unsent"]
        /\ queue' = queue \/ queue' = [queue EXCEPT ![d] = op]
        /\ UNCHANGED <<serverVars, net, pulled>>
    BY <1>1 DEF AddEntry, Queued, ChangeLocal
  <2>2. 1 <= issued
    BY <1>v DEF Numbered, Known, TypeOK, Row
  <2>3. Known(row) /\ Known(op.row) /\ ~row.fine
    BY <2>2 DEF Known
  <2> HIDE DEF row, op
  <2>4. RowsKnown'
    BY <1>s, <1>v, <2>1, <2>3 DEF RowsKnown, TypeOK
  <2>5. CleanFresh' /\ TableTruncated'
    BY <1>s, <1>v, <2>1, <2>3 DEF CleanFresh, TableTruncated, TypeOK
  <2> QED
    BY <1>s, <1>v, <2>1, <2>4, <2>5 DEF VersionInv, PulledFresh, PlansHold
<1>2. ASSUME NEW d \in Devices, NEW row \in Row, local[d] # NoRow, ~row.fine,
             row.version = local[d].version, ChangeLocal(d, row),
             UNCHANGED <<serverVars, queue, net, pulled>>
      PROVE  VersionInv'
  <2>1. Known(row)
    BY <1>2, <1>v DEF RowsKnown, Known
  <2>2. RowsKnown' /\ TableTruncated'
    BY <1>s, <1>v, <1>2, <2>1 DEF RowsKnown, TableTruncated, ChangeLocal, TypeOK
  <2>3. CleanFresh'
    BY <1>s, <1>v, <1>2 DEF CleanFresh, ChangeLocal, TypeOK
  <2> QED
    BY <1>s, <1>v, <1>2, <2>2, <2>3 DEF VersionInv, PulledFresh, PlansHold
<1>3. ASSUME NEW d \in Devices, (\E c \in Contents : UpdateEntry(d, c)) \/ SoftDelete(d)
      PROVE  VersionInv'
  <2>0. local[d] # NoRow => ~local[d].fine
    BY <1>v DEF TableTruncated
  <2>1. ASSUME NEW c \in Contents, UpdateEntry(d, c)
        PROVE  VersionInv'
    <3>1. local[d] # NoRow /\ local[d] \in Row
      BY <1>r, <2>1 DEF UpdateEntry
    <3>2. /\ [local[d] EXCEPT !.content = c] \in Row
          /\ [local[d] EXCEPT !.content = c].version = local[d].version
          /\ ~[local[d] EXCEPT !.content = c].fine
      BY <2>0, <3>1, RowType DEF Row
    <3> QED
      BY <1>2, <2>1, <3>1, <3>2 DEF UpdateEntry
  <2>2. CASE SoftDelete(d)
    <3>1. local[d] # NoRow /\ local[d] \in Row
      BY <1>r, <2>2 DEF SoftDelete
    <3>2. /\ [local[d] EXCEPT !.deleted = TRUE] \in Row
          /\ [local[d] EXCEPT !.deleted = TRUE].version = local[d].version
          /\ ~[local[d] EXCEPT !.deleted = TRUE].fine
      BY <2>0, <3>1, RowType DEF Row
    <3> QED
      BY <1>2, <2>2, <3>1, <3>2 DEF SoftDelete
  <2> QED
    BY <1>3, <2>1, <2>2
\* A post carries a copy the device holds, and takes its cleanness along.
<1>4. ASSUME NEW d \in Devices, NEW kind \in {"insert", "push"}, NEW row \in Row,
             Post(d, kind, row), Known(row),
             kind = "push" => row = local[d] /\ local[d] # NoRow,
             UNCHANGED <<serverVars, local, queue, pulled>>,
             \A x \in Devices : edit'[x] = "clean" => edit[x] = "clean"
      PROVE  VersionInv'
  <2> DEFINE q == [dev |-> d, kind |-> kind, live |-> TRUE, row |-> row,
                   clean |-> kind = "push" /\ edit[d] = "clean", plan |-> NoRow,
                   late |-> "no"]
  <2>1. net' = net \union {q}
    BY <1>4 DEF Post
  <2>2. q.row = row /\ q.plan = NoRow /\ q.late = "no"
    OBVIOUS
  <2>3. q.clean => ~row.fine /\ (~raced => Fresh(row))
    BY <1>4, <1>v DEF CleanFresh, TableTruncated
  <2> HIDE DEF q
  <2>4. RowsKnown'
    BY <1>s, <1>v, <1>4, <2>1, <2>2 DEF RowsKnown
  <2>5. CleanFresh' /\ TableTruncated'
    BY <1>s, <1>v, <1>4, <2>1, <2>2, <2>3 DEF CleanFresh, TableTruncated
  <2>6. PlansHold'
    BY <1>s, <1>v, <1>4, <2>1, <2>2 DEF PlansHold
  <2> QED
    BY <1>s, <1>v, <1>4, <2>4, <2>5, <2>6 DEF VersionInv, PulledFresh
<1>5. ASSUME NEW d \in Devices, PostInsert(d)
      PROVE  VersionInv'
  <2>1. queue[d] # NoRow
    BY <1>5 DEF PostInsert, InsertDue, TypeInv, DueWhilePosting
  <2> QED
    BY <1>4, <1>5, <1>r, <1>v, <2>1 DEF PostInsert, RowsKnown
<1>6. ASSUME NEW d \in Devices, PostTable(d)
      PROVE  VersionInv'
  BY <1>4, <1>6, <1>r, <1>v DEF PostTable, RowsKnown, TypeOK
<1>7. ASSUME NEW d \in Devices, InsertAnswered(d)
      PROVE  VersionInv'
  <2>1. \A x \in Devices : queue'[x] # NoRow => queue[x] # NoRow /\ queue'[x].row = queue[x].row
    <3>1. queue[d] # NoRow /\ queue[d] \in QueuedInsert
      BY <1>7 DEF InsertAnswered, InsertDue, TypeInv, DueWhilePosting, TypeOK
    <3> QED
      BY <1>7, <3>1 DEF InsertAnswered, TypeOK, QueuedInsert
  <2>2. RowsKnown'
    BY <1>s, <1>v, <1>7, <2>1 DEF RowsKnown, InsertAnswered
  <2> QED
    BY <1>s, <1>v, <1>7, <2>2
    DEF VersionInv, InsertAnswered, TableTruncated, PulledFresh, CleanFresh, PlansHold
<1>8. ASSUME NEW d \in Devices, PullData(d)
      PROVE  VersionInv'
  <2>1. entry # NoRow => Fresh(entry) /\ Known(entry)
    BY <1>v DEF Fresh, Numbered
  <2>2. pulled' = [pulled EXCEPT ![d] = entry] /\ UNCHANGED <<serverVars, local, queue, net, edit>>
    BY <1>8 DEF PullData
  <2>3. PulledFresh' /\ RowsKnown'
    BY <1>s, <1>v, <2>1, <2>2 DEF PulledFresh, RowsKnown, TypeOK
  <2> QED
    BY <1>s, <1>v, <2>2, <2>3 DEF VersionInv, TableTruncated, CleanFresh, PlansHold
<1>9. ASSUME NEW d \in Devices, ApplyPull(d)
      PROVE  VersionInv'
  <2>1. /\ UNCHANGED <<serverVars, queue, net>>
        /\ local' = [local EXCEPT ![d] = AfterPull(d)]
        /\ pulled' = [pulled EXCEPT ![d] = NoRow]
        /\ edit' = [edit EXCEPT ![d] =
             IF pulled[d] # NoRow /\ ~pulled[d].deleted THEN "clean" ELSE @]
    BY <1>9 DEF ApplyPull
  <2>2. PulledFresh' /\ PlansHold' /\ Numbered'
    BY <1>s, <1>v, <2>1 DEF PulledFresh, PlansHold, TypeOK
  <2>3. AfterPull(d) # NoRow =>
          /\ Known(AfterPull(d)) /\ ~AfterPull(d).fine
          /\ edit'[d] = "clean" /\ ~raced => Fresh(AfterPull(d))
    <3>1. CASE pulled[d] = NoRow
      <4>1. AfterPull(d) = local[d] /\ edit'[d] = edit[d]
        BY <2>1, <3>1 DEF AfterPull, TypeOK
      <4> QED
        BY <1>v, <4>1 DEF RowsKnown, TableTruncated, CleanFresh
    <3>2. CASE pulled[d] # NoRow /\ ~pulled[d].deleted
      <4>1. AfterPull(d) = Truncated(pulled[d]) /\ pulled[d] \in Row
        BY <1>r, <3>2 DEF AfterPull
      <4>2. /\ AfterPull(d).version = pulled[d].version
            /\ ~AfterPull(d).fine
            /\ Truncated(AfterPull(d)) = Truncated(pulled[d])
        BY <4>1, TruncatedType
      <4> QED
        BY <1>v, <3>2, <4>2 DEF RowsKnown, PulledFresh, Known, Fresh
    <3>3. CASE pulled[d] # NoRow /\ pulled[d].deleted
      <4> SUFFICES ASSUME AfterPull(d) # NoRow
                   PROVE  /\ Known(AfterPull(d)) /\ ~AfterPull(d).fine
                          /\ edit'[d] = "clean" /\ ~raced => Fresh(AfterPull(d))
        OBVIOUS
      <4>1. /\ local[d] # NoRow /\ local[d] \in Row
            /\ AfterPull(d) = [local[d] EXCEPT !.deleted = TRUE]
            /\ edit'[d] = edit[d]
        BY <1>r, <2>1, <3>3 DEF AfterPull, TypeOK
      <4>2. AfterPull(d).version = local[d].version /\ AfterPull(d).fine = local[d].fine
        BY <4>1 DEF Row
      <4>3. Known(AfterPull(d)) /\ ~AfterPull(d).fine
        BY <1>v, <4>1, <4>2 DEF RowsKnown, TableTruncated, Known
      <4>4. ASSUME edit'[d] = "clean", ~raced
            PROVE  Fresh(AfterPull(d))
        <5>1. entry # NoRow /\ entry.deleted /\ entry \in Row /\ Fresh(local[d])
          BY <1>v, <3>3, <4>1, <4>4 DEF PulledFresh, CleanFresh, Fresh, TypeOK
        <5>2. CASE Truncated(local[d]) = Truncated(entry)
          <6>1. local[d].deleted = TRUE
            BY <4>1, <5>1, <5>2, TruncatedType DEF Row
          <6>2. AfterPull(d) = local[d]
            BY <4>1, <6>1 DEF Row
          <6> QED
            BY <5>1, <6>2
        <5>3. CASE local[d].version < entry.version
          BY <4>2, <5>1, <5>3 DEF Fresh
        <5> QED
          BY <5>1, <5>2, <5>3 DEF Fresh
      <4> QED
        BY <4>3, <4>4
    <3> QED
      BY <3>1, <3>2, <3>3
  <2> DEFINE after == AfterPull(d)
  <2>4. after # NoRow => /\ Known(after) /\ ~after.fine
                         /\ edit'[d] = "clean" /\ ~raced => Fresh(after)
    BY <2>3
  <2>5. local' = [local EXCEPT ![d] = after]
    BY <2>1
  <2>6. \A x \in Devices : x # d => edit'[x] = edit[x]
    BY <2>1 DEF TypeOK
  <2> HIDE DEF after
  <2>7. RowsKnown'
    BY <1>s, <1>v, <2>1, <2>4, <2>5 DEF RowsKnown, TypeOK
  <2>8. TableTruncated'
    BY <1>s, <1>v, <2>1, <2>4, <2>5 DEF TableTruncated, TypeOK
  <2>9. CleanFresh'
    BY <1>s, <1>v, <2>1, <2>4, <2>5, <2>6 DEF CleanFresh, TypeOK
  <2> QED
    BY <2>2, <2>7, <2>8, <2>9 DEF VersionInv
<1>10. ASSUME NEW d \in Devices, AbandonSync(d)
       PROVE  VersionInv'
  <2>1. \A q \in net' : \E o \in net :
           /\ q.row = o.row /\ q.plan = o.plan /\ q.clean = o.clean /\ q.late = o.late
    BY <1>10, <1>r DEF AbandonSync, Request
  <2>2. UNCHANGED <<serverVars, local, queue, edit>>
    BY <1>10 DEF AbandonSync
  <2>3. PulledFresh' /\ \A x \in Devices : pulled'[x] # NoRow => pulled'[x] = pulled[x]
    BY <1>s, <1>v, <1>10, <2>2 DEF AbandonSync, PulledFresh, TypeOK
  <2>4. RowsKnown' /\ CleanFresh' /\ TableTruncated'
    BY <1>s, <1>v, <2>1, <2>2, <2>3 DEF RowsKnown, CleanFresh, TableTruncated
  <2>5. PlansHold'
    <3> SUFFICES ASSUME NEW q \in net'
                 PROVE  (IF q.plan = NoRow THEN q.late = "no" ELSE PlanHolds(q))'
      BY DEF PlansHold
    <3>1. PICK o \in net : q.row = o.row /\ q.plan = o.plan /\ q.late = o.late
      BY <2>1
    <3>2. PlanHolds(o) <=> PlanHolds(q)
      BY <3>1 DEF PlanHolds
    <3>3. q.plan # NoRow => PlanHolds(q)'
      BY <1>s, <1>v, <2>2, <3>1, <3>2 DEF PlansHold
    <3> QED
      BY <1>v, <3>1, <3>3 DEF PlansHold
  <2> QED
    BY <1>s, <2>2, <2>3, <2>4, <2>5 DEF VersionInv
\* Requests that leave the net without a write.
<1>11. ASSUME NEW r \in net, net' = net \ {r}, NEW a, Answer(r, a),
              UNCHANGED <<serverVars, local, queue, pulled>>
       PROVE  VersionInv'
  <2>1. \A x \in Devices : edit'[x] = "clean" => edit[x] = "clean"
    BY <1>r, <1>11, AnswerStep DEF TypeOK
  <2> QED
    BY <1>s, <1>v, <1>11, <2>1
    DEF VersionInv, RowsKnown, TableTruncated, PulledFresh, CleanFresh, PlansHold
<1>12. ASSUME NEW r \in net, ValidateBatch(r)
       PROVE  VersionInv'
  <2> DEFINE q == [r EXCEPT !.plan = PlanFor(r.row)]
  <2>1. /\ net' = (net \ {r}) \union {q}
        /\ UNCHANGED <<serverVars, local, queue, pulled, edit>>
        /\ Writes(r.row) /\ r.late = "no"
    BY <1>12, <1>v DEF ValidateBatch, PlansHold
  <2>2. q.row = r.row /\ q.plan = PlanFor(r.row) /\ q.clean = r.clean /\ q.late = "no"
    BY <1>r, <2>1 DEF Request
  <2>3. q.plan # NoRow
    BY <1>r, <2>2, PlanType
  <2> HIDE DEF q
  <2>4. PlanHolds(q)
    BY <2>1, <2>2 DEF PlanHolds, Writes
  <2>5. RowsKnown' /\ CleanFresh' /\ TableTruncated'
    BY <1>s, <1>v, <2>1, <2>2 DEF RowsKnown, CleanFresh, TableTruncated
  <2>6. PlansHold'
    BY <1>s, <1>v, <2>1, <2>3, <2>4 DEF PlansHold
  <2> QED
    BY <1>s, <1>v, <2>1, <2>5, <2>6 DEF VersionInv, PulledFresh
<1>13. ASSUME NEW r \in net, ApplyBatch(r)
       PROVE  VersionInv'
  <2>1. /\ net' = {LateForWrite(q) : q \in net \ {r}}
        /\ UNCHANGED <<closed, local, queue, pulled>>
        /\ Answer(r, "synced")
    BY <1>13 DEF ApplyBatch
  <2>2. /\ Numbered'
        /\ \A row \in Row : Known(row) => Known(row)'
        /\ ~raced' => \A row \in Row : Fresh(row) => Fresh(row)'
        /\ ~raced' => (entry # NoRow /\ entry.deleted => entry'.deleted)
        /\ \A q \in net : q.plan # NoRow => PlanHolds(LateForWrite(q))'
    BY <1>13, CopiesAge
  <2>3. ~raced' => ~raced
    BY <1>13 DEF ApplyBatch, TypeOK
  <2>4. \A q \in net' : \E o \in net :
           q.row = o.row /\ q.clean = o.clean /\ q.plan = o.plan /\ q = LateForWrite(o)
    BY <1>r, <2>1, LateType
  <2>5. \A x \in Devices : edit'[x] = "clean" => edit[x] = "clean"
    BY <1>r, <2>1, AnswerStep DEF TypeOK
  <2>6. RowsKnown'
    BY <1>r, <1>v, <2>1, <2>2, <2>4 DEF RowsKnown
  <2>7. TableTruncated'
    BY <1>v, <2>1, <2>4 DEF TableTruncated
  <2>8. CleanFresh'
    BY <1>r, <1>v, <2>1, <2>2, <2>3, <2>4, <2>5 DEF CleanFresh
  <2>9. PulledFresh'
    BY <1>r, <1>v, <2>1, <2>2, <2>3 DEF PulledFresh, Fresh
  <2>10. PlansHold'
    <3> SUFFICES ASSUME NEW q \in net'
                 PROVE  IF q.plan = NoRow THEN q.late = "no" ELSE PlanHolds(q)'
      BY DEF PlansHold
    <3>1. PICK o \in net : q.plan = o.plan /\ q = LateForWrite(o)
      BY <2>4
    <3>2. q.plan = NoRow => q = o
      BY <1>r, <3>1, LateType
    <3> QED
      BY <1>v, <2>2, <3>1, <3>2 DEF PlansHold
  <2> QED
    BY <2>2, <2>6, <2>7, <2>8, <2>9, <2>10 DEF VersionInv
<1>14. ASSUME NEW m \in Months, CloseMonth(m)
       PROVE  VersionInv'
  <2>1. /\ net' = {LateForClose(r, m) : r \in net}
        /\ closed' = closed \union {m}
        /\ UNCHANGED <<entry, issued, raced, local, queue, pulled, edit>>
    BY <1>14 DEF CloseMonth
  <2>2. \A row : (Known(row)' <=> Known(row)) /\ (Fresh(row)' <=> Fresh(row))
    BY <2>1 DEF Known, Fresh
  <2>3. \A q \in net' : \E o \in net :
           /\ q.row = o.row /\ q.clean = o.clean /\ q.plan = o.plan
           /\ \/ q = o /\ (o.plan # NoRow /\ o.late = "no" => m \notin MonthsTouched(o.row))
              \/ o.plan # NoRow /\ o.late = "no" /\ q.late = "closed"
    BY <1>r, <2>1, LateForCloseType
  <2>4. RowsKnown' /\ CleanFresh' /\ TableTruncated' /\ PulledFresh' /\ Numbered'
    BY <1>v, <2>1, <2>2, <2>3
    DEF RowsKnown, CleanFresh, TableTruncated, PulledFresh, Numbered, Known
  <2>5. PlansHold'
    <3> SUFFICES ASSUME NEW q \in net'
                 PROVE  (IF q.plan = NoRow THEN q.late = "no" ELSE PlanHolds(q))'
      BY DEF PlansHold
    <3>1. PICK o \in net :
             /\ q.row = o.row /\ q.plan = o.plan
             /\ \/ q = o /\ (o.plan # NoRow /\ o.late = "no" => m \notin MonthsTouched(o.row))
                \/ o.plan # NoRow /\ o.late = "no" /\ q.late = "closed"
      BY <2>3
    <3>2. CASE q.plan = NoRow
      BY <1>v, <3>1, <3>2 DEF PlansHold
    <3>3. CASE q.plan # NoRow
      <4>1. PlanHolds(o)
        BY <1>v, <3>1, <3>3 DEF PlansHold
      <4>2. CASE q.late = "written"
        <5>1. q = o
          BY <3>1, <4>2
        <5>2. /\ entry # NoRow /\ 1 <= q.plan.row.version
              /\ ~raced => q.plan.row.version <= entry.version
          BY <4>1, <4>2, <5>1 DEF PlanHolds
        <5>3. /\ entry' # NoRow /\ 1 <= q.plan.row.version
              /\ ~raced' => q.plan.row.version <= entry'.version
          BY <2>1, <5>2
        <5> QED
          BY <3>3, <4>2, <5>3 DEF PlanHolds
      <4>3. CASE q.late # "written"
        <5>1. o.late # "written" /\ (q.late = "no" => o.late = "no" /\ m \notin MonthsTouched(o.row))
          BY <3>1, <3>3, <4>3
        <5>2. /\ q.plan = PlanFor(q.row) /\ ~Unchanged(q.row) /\ ~Stale(q.row)
              /\ ~Revives(q.row) /\ (q.late = "no" => ~InClosedMonth(q.row))
          BY <3>1, <4>1, <5>1 DEF PlanHolds
        <5>3. /\ (q.plan = PlanFor(q.row))' /\ ~Unchanged(q.row)' /\ ~Stale(q.row)'
              /\ ~Revives(q.row)'
          BY <2>1, <5>2 DEF PlanFor, Unchanged, Stale, Revives
        <5>4. ASSUME q.late = "no"
              PROVE  ~InClosedMonth(q.row)'
          <6>1. /\ MonthsTouched(q.row) \cap closed = {}
                /\ m \notin MonthsTouched(q.row)
            BY <3>1, <5>1, <5>2, <5>4 DEF InClosedMonth
          <6>2. MonthsTouched(q.row)' = MonthsTouched(q.row)
            BY <2>1 DEF MonthsTouched
          <6> QED
            BY <2>1, <6>1, <6>2 DEF InClosedMonth
        <5> QED
          BY <3>3, <4>3, <5>3, <5>4 DEF PlanHolds
      <4> QED
        BY <3>3, <4>2, <4>3
    <3> QED
      BY <3>2, <3>3
  <2> QED
    BY <2>4, <2>5 DEF VersionInv
<1>15. ASSUME NEW m \in Months, ReopenMonth(m)
       PROVE  VersionInv'
  <2>1. /\ closed' = closed \ {m}
        /\ UNCHANGED <<entry, issued, raced, local, queue, pulled, net, edit>>
    BY <1>15 DEF ReopenMonth
  <2>2. \A row : (Known(row)' <=> Known(row)) /\ (Fresh(row)' <=> Fresh(row))
    BY <2>1 DEF Known, Fresh
  <2>3. RowsKnown' /\ CleanFresh' /\ TableTruncated' /\ PulledFresh' /\ Numbered'
    BY <1>v, <2>1, <2>2
    DEF RowsKnown, CleanFresh, TableTruncated, PulledFresh, Numbered, Known
  <2>4. \A r : PlanHolds(r) => PlanHolds(r)'
    BY <2>1
    DEF PlanHolds, PlanFor, Unchanged, Stale, Revives, InClosedMonth, MonthsTouched
  <2>5. PlansHold'
    BY <1>v, <2>1, <2>4 DEF PlansHold
  <2> QED
    BY <2>3, <2>5 DEF VersionInv
<1>16. ASSUME UNCHANGED <<serverVars, local, queue, pulled, net, edit>>
       PROVE  VersionInv'
  BY <1>s, <1>v, <1>16
  DEF VersionInv, RowsKnown, TableTruncated, PulledFresh, CleanFresh, PlansHold
<1>17. CASE User
  BY <1>1, <1>3, <1>17 DEF User
<1>18. CASE \E d \in Devices : Sync(d)
  BY <1>5, <1>6, <1>7, <1>8, <1>9, <1>16, <1>18
  DEF Sync, StartSync, PostTableWithoutEntry, TableAnswered
<1>19. CASE \E r \in net : Handle(r)
  BY <1>11, <1>12, <1>13, <1>19 DEF Handle, ValidateWithoutWrite, ApplyCollides
<1>20. CASE Network
  BY <1>10, <1>11, <1>16, <1>20 DEF Network, LoseReply, LoseRequest
<1>21. CASE UNCHANGED vars
  BY <1>16, <1>21 DEF vars
<1> QED
  BY <1>14, <1>15, <1>17, <1>18, <1>19, <1>20, <1>21 DEF Next

\* At first there is no row, so no version and no plan.
LEMMA VersionInit == Init => VersionInv
  BY TypeInit DEF Init, VersionInv, Numbered, RowsKnown, TableTruncated, PulledFresh, CleanFresh, PlansHold

-----------------------------------------------------------------------------
(***************************************************************************)
(* Only a decision carried out changes the server's row.                   *)
(***************************************************************************)
LEMMA OnlyApplyWrites ==
  ASSUME [Next]_vars, entry' # entry
  PROVE  \E r \in net : ApplyBatch(r)
<1> USE DEF serverVars
<1>1. CASE User
  BY <1>1 DEF User, AddEntry, UpdateEntry, SoftDelete
<1>2. CASE \E d \in Devices : Sync(d)
  BY <1>2 DEF Sync, StartSync, PostInsert, InsertAnswered, PostTable,
     PostTableWithoutEntry, TableAnswered, PullData, ApplyPull
<1>3. CASE \E r \in net : Handle(r)
  BY <1>3 DEF Handle, ValidateBatch, ValidateWithoutWrite, ApplyCollides
<1>4. CASE Network
  BY <1>4 DEF Network, AbandonSync, LoseReply, LoseRequest
<1>5. CASE \E m \in Months : CloseMonth(m) \/ ReopenMonth(m)
  BY <1>5 DEF CloseMonth, ReopenMonth
<1>6. CASE UNCHANGED vars
  BY <1>6 DEF vars
<1> QED
  BY <1>1, <1>2, <1>3, <1>4, <1>5, <1>6 DEF Next

(***************************************************************************)
(* What has overtaken the decisions that are to be carried out.            *)
(***************************************************************************)
Overtaken == {r.late : r \in net} \ {"no"}

(***************************************************************************)
(* A step of the protocol is a step of the register, or none of its        *)
(* business.                                                               *)
(***************************************************************************)
LEMMA RegisterStep ==
  ASSUME VersionInv, [Next]_vars
  PROVE  [Register!Next]_<<entry, closed, Overtaken, raced>>
<1> USE DEF serverVars
<1>t. TypeOK /\ PlansHold /\ Numbered /\ \A r \in net : r \in Request
  BY DEF VersionInv, TypeInv, TypeOK
<1>1. ASSUME NEW r \in net, ApplyBatch(r)
      PROVE  Register!Next
  <2>1. closed' = closed
    BY <1>1 DEF ApplyBatch
  <2>2. entry' \in Register!Row
    BY <1>1, WriteStep DEF Register!Row, Row
  <2>3. Overtaken' \subseteq Overtaken \union {"written"}
    <3>1. \A q \in net' : q.late = "written" \/ q \in net
      BY <1>1, <1>t, LateType DEF ApplyBatch
    <3> QED
      BY <3>1 DEF Overtaken
  <2>4. Register!Overtakes("written")
    BY <2>3 DEF Register!Overtakes, Overtaken
  <2>5. CASE r.late = "written"
    <3>1. "written" \in Overtaken
      BY <2>5 DEF Overtaken
    <3>2. raced' = TRUE /\ entry # NoRow /\ (~raced => entry'.version <= entry.version)
      BY <1>1, <1>t, <2>5, WriteStep DEF ApplyBatch, TypeOK
    <3>3. Register!LateWrite
      BY <2>1, <2>2, <2>4, <3>1, <3>2 DEF Register!LateWrite, Register!Version, Overtaken
    <3> QED
      BY <3>3 DEF Register!Next
  <2>6. CASE r.late # "written"
    <3>1. /\ raced' = raced
          /\ entry = NoRow => entry'.version = 1
          /\ entry # NoRow => entry'.version > entry.version
          /\ entry # NoRow /\ ~raced => entry'.version = entry.version + 1
          /\ entry # NoRow /\ ~raced => (entry.deleted => entry'.deleted)
      BY <1>1, <2>6, WriteStep
    <3>2. entry # NoRow => entry.version \in Nat
      BY <1>t DEF TypeOK, Row
    <3>3. entry'.version > Register!Version /\ (~raced => entry'.version = Register!Version + 1)
      BY <3>1, <3>2 DEF Register!Version
    <3>4. Register!InTurn
      BY <2>2, <3>1, <3>3 DEF Register!InTurn
    <3>5. CASE r.late = "no"
      <4>1. Register!InOpenMonths
        BY <1>1, <3>5, WriteStep DEF Register!InOpenMonths
      <4>2. Register!Write
        BY <2>1, <2>4, <3>4, <4>1 DEF Register!Write
      <4> QED
        BY <4>2 DEF Register!Next
    <3>6. CASE r.late # "no"
      <4>1. r.late = "closed"
        BY <1>t, <2>6, <3>6 DEF Request
      <4>2. "closed" \in Overtaken
        BY <4>1 DEF Overtaken
      <4>3. Register!WriteAfterClose
        BY <2>1, <2>4, <3>4, <4>2 DEF Register!WriteAfterClose, Overtaken
      <4> QED
        BY <4>3 DEF Register!Next
    <3> QED
      BY <3>5, <3>6
  <2> QED
    BY <2>5, <2>6
<1>2. ASSUME NEW m \in Months, CloseMonth(m)
      PROVE  Register!Next
  <2>1. \A q \in net' : q.late = "closed" \/ q \in net
    BY <1>2, <1>t, LateForCloseType DEF CloseMonth
  <2>2. Overtaken' \subseteq Overtaken \union {"closed"}
    BY <2>1 DEF Overtaken
  <2>3. Register!Close(m)
    BY <1>2, <2>2 DEF CloseMonth, Register!Close, Register!Overtakes, Overtaken
  <2> QED
    BY <2>3 DEF Register!Next, Months
<1>3. ASSUME NEW m \in Months, ReopenMonth(m)
      PROVE  Register!Next
  <2>1. Register!Reopen(m)
    BY <1>3 DEF ReopenMonth, Register!Reopen
  <2> QED
    BY <2>1 DEF Register!Next, Months
\* All other steps bring no lateness along.
<1>4. ASSUME UNCHANGED <<entry, closed, raced>>,
             \A q \in net' : q.late = "no" \/ \E o \in net : q.late = o.late
      PROVE  Register!Next
  <2>1. Overtaken' \subseteq Overtaken
    BY <1>4 DEF Overtaken
  <2>2. Register!Forget
    BY <1>4, <2>1 DEF Register!Forget, Overtaken
  <2> QED
    BY <2>2 DEF Register!Next
<1>5. ASSUME NEW d \in Devices, NEW kind, NEW row, Post(d, kind, row)
      PROVE  \A q \in net' : q.late = "no" \/ \E o \in net : q.late = o.late
  BY <1>5 DEF Post
<1>6. CASE User
  <2>1. UNCHANGED <<entry, closed, raced, net>>
    BY <1>6 DEF User, AddEntry, UpdateEntry, SoftDelete
  <2> QED
    BY <1>4, <2>1
<1>7. CASE \E d \in Devices : Sync(d)
  <2> SUFFICES ASSUME NEW d \in Devices, Sync(d) PROVE Register!Next
    BY <1>7
  <2>1. CASE PostInsert(d)
    BY <1>4, <1>5, <2>1 DEF PostInsert
  <2>2. CASE PostTable(d)
    BY <1>4, <1>5, <2>2 DEF PostTable
  <2>3. CASE ~PostInsert(d) /\ ~PostTable(d)
    <3>1. UNCHANGED <<entry, closed, raced, net>>
      BY <2>3 DEF Sync, StartSync, InsertAnswered, PostTableWithoutEntry, TableAnswered,
         PullData, ApplyPull
    <3> QED
      BY <1>4, <3>1
  <2> QED
    BY <2>1, <2>2, <2>3
<1>8. CASE \E r \in net : Handle(r)
  <2> SUFFICES ASSUME NEW r \in net, Handle(r) PROVE Register!Next
    BY <1>8
  <2>1. CASE ValidateBatch(r)
    <3>1. [r EXCEPT !.plan = PlanFor(r.row)].late = r.late
      BY <1>t DEF Request
    <3> QED
      BY <1>4, <2>1, <3>1 DEF ValidateBatch
  <2>2. CASE ValidateWithoutWrite(r) \/ ApplyCollides(r)
    BY <1>4, <2>2 DEF ValidateWithoutWrite, ApplyCollides
  <2> QED
    BY <1>1, <2>1, <2>2 DEF Handle
<1>9. CASE Network
  <2>1. ASSUME NEW d \in Devices, AbandonSync(d)
        PROVE  Register!Next
    <3>1. \A r \in net : [r EXCEPT !.live = FALSE].late = r.late
      BY <1>t DEF Request
    <3> QED
      BY <1>4, <2>1, <3>1 DEF AbandonSync
  <2>2. ASSUME NEW d \in Devices, LoseReply(d)
        PROVE  Register!Next
    BY <1>4, <2>2 DEF LoseReply
  <2>3. ASSUME NEW r \in net, LoseRequest(r)
        PROVE  Register!Next
    BY <1>4, <2>3 DEF LoseRequest
  <2> QED
    BY <1>9, <2>1, <2>2, <2>3 DEF Network
<1>10. CASE UNCHANGED vars
  BY <1>10 DEF vars, Overtaken
<1> QED
  BY <1>2, <1>3, <1>6, <1>7, <1>8, <1>9, <1>10 DEF Next

(***************************************************************************)
(* The server's handling of pushed entries implements the register with    *)
(* late writes, for any devices, overlaps, losses and retries.             *)
(***************************************************************************)
THEOREM ServerImplementsRegister == Spec => ImplementsRegister
<1>1. Init => Register!Init
  BY DEF Init, Register!Init
<1>2. VersionInv /\ [Next]_vars => VersionInv'
  BY VersionStep
<1>3. VersionInv /\ [Next]_vars
        => [Register!Next]_<<entry, closed, {r.late : r \in net} \ {"no"}, raced>>
  BY RegisterStep DEF Overtaken
<1> QED
  BY <1>1, <1>2, <1>3, VersionInit, PTL DEF Spec, ImplementsRegister, Register!Spec

(***************************************************************************)
(* No copy bears a version the server has not stored.                      *)
(***************************************************************************)
THEOREM OnlyServerNumbers == Spec => []NobodyAhead
<1>1. VersionInv => NobodyAhead
  BY DEF VersionInv, RowsKnown, Known, NobodyAhead
<1>2. VersionInv /\ [Next]_vars => VersionInv'
  BY VersionStep
<1> QED
  BY <1>1, <1>2, VersionInit, PTL DEF Spec

(***************************************************************************)
(* The push of a copy its device has not changed truncates the date of the *)
(* server's row at most.                                                   *)
(***************************************************************************)
THEOREM FullPushIsHarmless == Spec => []UnchangedCopyOnlyTruncates
<1>1. VersionInv => UnchangedCopyOnlyTruncates
  <2> SUFFICES ASSUME VersionInv, ~raced, NEW r \in net, r.clean, r.plan # NoRow,
                      r.late # "written"
               PROVE  /\ entry # NoRow
                      /\ entry.fine
                      /\ r.plan.row = [Truncated(entry) EXCEPT !.version = @ + 1]
    BY DEF UnchangedCopyOnlyTruncates
  <2>1. /\ TypeOK /\ r \in Request /\ r.row \in Row
        /\ r.plan = PlanFor(r.row) /\ ~Unchanged(r.row) /\ ~Stale(r.row)
    BY RequestType DEF VersionInv, TypeInv, TypeOK, PlansHold, PlanHolds
  <2>2. Fresh(r.row) /\ ~r.row.fine
    BY DEF VersionInv, CleanFresh, TableTruncated
  <2>3. entry # NoRow /\ entry \in Row /\ Truncated(r.row) = Truncated(entry)
    BY <2>1, <2>2 DEF Fresh, Stale, TypeOK
  <2>4. /\ r.row.content = entry.content
        /\ r.row.deleted = entry.deleted
        /\ r.row.version = entry.version
    BY <2>1, <2>3, TruncatedType
  <2>5. entry.fine
    BY <2>1, <2>2, <2>3, <2>4 DEF Unchanged, Row
  <2>6. r.row = Truncated(r.row)
    BY <2>1, <2>2 DEF Truncated, Row
  <2>7. r.plan.row = [r.row EXCEPT !.version = 1 + entry.version]
    BY <2>1, <2>3, <2>4 DEF PlanFor, Row
  <2>8. Truncated(entry) \in Row /\ Truncated(entry).version = entry.version
    BY <2>3, TruncatedType
  <2>9. [r.row EXCEPT !.version = 1 + entry.version]
          = [Truncated(entry) EXCEPT !.version = @ + 1]
    BY <2>3, <2>6, <2>8 DEF Row
  <2> QED
    BY <2>3, <2>5, <2>7, <2>9
<1>2. VersionInv /\ [Next]_vars => VersionInv'
  BY VersionStep
<1> QED
  BY <1>1, <1>2, VersionInit, PTL DEF Spec

(***************************************************************************)
(* A deleted entry stays deleted, but for late writes.                     *)
(***************************************************************************)
THEOREM DeletedForGood == Spec => DeletionIsFinal
<1> DEFINE Step ==
      entry # NoRow /\ entry.deleted /\ ~entry'.deleted =>
        \E r \in net : \/ LateWrite(r)
                       \/ raced /\ r.row.version > entry.version /\ ApplyBatch(r)
<1>1. VersionInv /\ [Next]_vars => [Step]_vars
  <2> SUFFICES ASSUME VersionInv, [Next]_vars, entry # NoRow, entry.deleted, ~entry'.deleted
               PROVE  \E r \in net : \/ LateWrite(r)
                                     \/ raced /\ r.row.version > entry.version /\ ApplyBatch(r)
    OBVIOUS
  <2>1. PICK r \in net : ApplyBatch(r)
    BY OnlyApplyWrites
  <2> QED
    BY <2>1, WriteStep DEF LateWrite
<1>2. VersionInv /\ [Next]_vars => VersionInv'
  BY VersionStep
<1> QED
  BY <1>1, <1>2, VersionInit, PTL DEF Spec, DeletionIsFinal

(***************************************************************************)
(* A closed month is frozen, but for decisions made before the close or    *)
(* before another write.                                                   *)
(***************************************************************************)
THEOREM ClosedIsClosed == Spec => ClosedMonthFrozen
<1> DEFINE Step == entry' # entry =>
      \/ /\ MonthOf[entry'.content] \notin closed
         /\ entry # NoRow => MonthOf[entry.content] \notin closed
      \/ \E r \in net : r.late # "no" /\ ApplyBatch(r)
<1>1. VersionInv /\ [Next]_vars => [Step]_vars
  <2> SUFFICES ASSUME VersionInv, [Next]_vars, entry' # entry PROVE Step
    OBVIOUS
  <2>1. PICK r \in net : ApplyBatch(r)
    BY OnlyApplyWrites
  <2> QED
    BY <2>1, WriteStep
<1>2. VersionInv /\ [Next]_vars => VersionInv'
  BY VersionStep
<1> QED
  BY <1>1, <1>2, VersionInit, PTL DEF Spec, ClosedMonthFrozen

=============================================================================
