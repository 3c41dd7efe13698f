-------------------------- MODULE InspectionIntake --------------------------
(***************************************************************************)
(* The write requests of the business service as MySQL runs them: READ     *)
(* COMMITTED transactions, one action per statement that reads, waits or   *)
(* writes, with the locks InnoDB takes for FOR UPDATE, for updates, for    *)
(* new rows, for duplicate keys and for foreign keys.  What a transaction  *)
(* writes becomes visible when it commits, so the tables change in the     *)
(* action that commits.                                                    *)
(***************************************************************************)
EXTENDS QualityLedger

CONSTANT Callers  \* threads that serve requests

VARIABLES
  tx,    \* the request each caller is in, None when it has none
  locks  \* row locks each caller's transaction holds

vars == <<ledger, tx, locks>>

CreateBatchRequest == [kind : {"batch"}, batch : Batches, product : Products]
CreateRequest ==
  [kind : {"inspection"}, batch : Batches, inspection : Inspections, image : Images]
HoldRequest == [kind : {"hold"}, batch : Batches, hold : Hold]
ReleaseRequest == [kind : {"release"}, batch : Batches, reason : ReleaseReasons]
ResultRequest ==
  [kind : {"result"}, result : Results, inspection : Inspections, image : Images,
   anomaly : BOOLEAN]
Request ==
  CreateBatchRequest \cup CreateRequest \cup HoldRequest \cup ReleaseRequest
    \cup ResultRequest

\* The statement a request is about to execute, or the answer it got.  An
\* INSERT that met its key is queued at "duplicate"; at "commit" the new row of
\* the request is there, for nobody else to see.
Statements == {"lock batch", "evidence", "write hold", "complete", "insert",
  "duplicate", "commit", "open incident", "find winner"}
Answers == {"done", "replayed", "conflict", "refused", "error"}

\* batch is the batch of the inspection that accept() read, for the incident.
Tx == [at : Statements \cup Answers, req : Request, batch : Batches \cup {None}]

ASSUME NoRequestAssumption == None \notin Tx \cup Batches

Rows ==
  ({"batch"} \X Batches) \cup ({"inspection"} \X Inspections)
    \cup ({"result"} \X Results)
\* Shared and exclusive locks of a row, the gap where a row was not inserted
\* after all, and the intention to insert into a gap.
Locks == [mode : {"S", "X", "Gap", "Insert"}, row : Rows]

TypeOK ==
  /\ TablesOK
  /\ tx \in [Callers -> Tx \cup {None}]
  /\ locks \in [Callers -> SUBSET Locks]

Init ==
  /\ EmptyTables
  /\ tx = [c \in Callers |-> None]
  /\ locks = [c \in Callers |-> {}]

-----------------------------------------------------------------------------
\* Locks

Shared(table, id) == [mode |-> "S", row |-> <<table, id>>]
Exclusive(table, id) == [mode |-> "X", row |-> <<table, id>>]

\* What is wanted has to wait for what is held.
Conflict(wanted, held) ==
  /\ wanted.row = held.row
  /\ <<wanted.mode, held.mode>> \in
       {<<"S", "X">>, <<"X", "S">>, <<"X", "X">>, <<"Insert", "Gap">>}

IsAt(c, label) == tx[c] # None /\ tx[c].at = label

\* The row a request inserts.
Key(q) ==
  CASE q.kind = "batch" -> <<"batch", q.batch>>
    [] q.kind = "inspection" -> <<"inspection", q.inspection>>
    [] q.kind = "result" -> <<"result", q.result>>
Exists(q) ==
  CASE q.kind = "batch" -> batches[q.batch] # None
    [] q.kind = "inspection" -> inspections[q.inspection] # None
    [] q.kind = "result" -> results[q.result] # None

\* The row is there, be it one that another transaction has not committed.
Met(c) ==
  \/ Exists(tx[c].req)
  \/ \E d \in Callers \ {c} : [mode |-> "X", row |-> Key(tx[c].req)] \in locks[d]

\* The locks the next statement of c needs.  FOR UPDATE takes the row; an
\* INSERT takes its new row and has to get into the gap where it belongs; one
\* that met its key queues for a shared lock on it; a row that refers to
\* another takes a shared lock on it.
PlainRead(c) == {}              \* mutant: SELECT without FOR UPDATE
LockForUpdate(c) == {Exclusive("batch", tx[c].req.batch)}

NewRow(q) == {[mode |-> "X", row |-> Key(q)], [mode |-> "Insert", row |-> Key(q)]}

ChildFirst(c) ==                \* mutant: the result is inserted first
  LET q == tx[c].req IN
  CASE IsAt(c, "complete") -> {Shared("inspection", q.inspection)}
    [] IsAt(c, "insert") /\ q.kind = "result" -> {Exclusive("inspection", q.inspection)}
    [] OTHER -> {}
ResultWants(c) ==
  LET q == tx[c].req IN
  CASE IsAt(c, "complete") -> {Exclusive("inspection", q.inspection)}
    [] IsAt(c, "insert") /\ q.kind = "result" -> {Shared("inspection", q.inspection)}
    [] IsAt(c, "open incident") ->
         {Shared("batch", tx[c].batch), Shared("inspection", q.inspection)}
    [] OTHER -> {}

Wants(c) ==
  LET q == tx[c].req IN
  CASE IsAt(c, "lock batch") -> LockForUpdate(c)
    [] IsAt(c, "insert") -> IF Met(c) THEN {} ELSE NewRow(q) \cup ResultWants(c)
    [] IsAt(c, "duplicate") -> {[mode |-> "S", row |-> Key(q)]}
    [] IsAt(c, "write hold") /\ q.hold.reason = "QUALITY_ANOMALY" ->
         {Shared("inspection", q.hold.inspection), Shared("result", q.hold.result)}
    [] OTHER -> ResultWants(c)

Blocks(l, c) == \E k \in Wants(c) : Conflict(k, l)
WaitsFor(c, d) == c # d /\ \E l \in locks[d] : Blocks(l, c)

At(c, label) == IsAt(c, label) /\ \A d \in Callers : ~WaitsFor(c, d)

Begin(c, req, label, batch) ==
  /\ tx[c] = None
  /\ tx' = [tx EXCEPT ![c] = [at |-> label, req |-> req, batch |-> batch]]
  /\ UNCHANGED locks

\* The transaction goes on with the locks it has and those it wanted.
Goto(c, label) ==
  /\ tx' = [tx EXCEPT ![c].at = label]
  /\ locks' = [locks EXCEPT ![c] = @ \cup Wants(c)]

\* Commit or rollback: the locks are gone.
End(c, label) ==
  /\ tx' = [tx EXCEPT ![c].at = label]
  /\ locks' = [locks EXCEPT ![c] = {}]

-----------------------------------------------------------------------------
\* BatchApplicationService

BatchVerdict(q) ==
  IF batches[q.batch].product = q.product THEN "replayed" ELSE "conflict"

FindBatch(c, q) ==
  /\ Begin(c, q,
       IF batches[q.batch] = None THEN "insert" ELSE BatchVerdict(q), None)
  /\ UNCHANGED ledger

CommitBatch(c) ==
  LET q == tx[c].req IN
  /\ IsAt(c, "commit") /\ q.kind = "batch"
  /\ batches' = [batches EXCEPT ![q.batch] = OpenBatch(q.product)]
  /\ End(c, "done")
  /\ UNCHANGED <<inspections, results, incidents, outbox>>

\* hold and release lock the row before they look at it.
Command(c, q) == Begin(c, q, "lock batch", None) /\ UNCHANGED ledger

\* A batch that is not OPEN compares a hold with the one it has.
HoldVerdict(q) ==
  IF batches[q.batch].status = "RELEASED" THEN "refused"
  ELSE IF batches[q.batch].hold = q.hold THEN "replayed" ELSE "conflict"

LockForHold(c) ==
  LET q == tx[c].req IN
  /\ At(c, "lock batch") /\ q.kind = "hold"
  /\ \/ batches[q.batch] = None /\ End(c, "refused")
     \/ /\ batches[q.batch] # None /\ batches[q.batch].status # "OPEN"
        /\ End(c, HoldVerdict(q))
     \/ /\ HasBatch(q.batch, "OPEN")
        /\ Goto(c, IF q.hold.reason = "QUALITY_ANOMALY" THEN "evidence"
                                                        ELSE "write hold")
  /\ UNCHANGED ledger

ValidateEvidence(c) ==
  LET q == tx[c].req IN
  /\ At(c, "evidence")
  /\ IF Evidence(q.batch, q.hold) THEN Goto(c, "write hold") ELSE End(c, "refused")
  /\ UNCHANGED ledger

\* UPDATE batches ... WHERE status = 'OPEN'
HoldOpen(c) ==
  LET q == tx[c].req IN
  /\ At(c, "write hold")
  /\ batches' = IF HasBatch(q.batch, "OPEN")
       THEN [batches EXCEPT ![q.batch].status = "HELD", ![q.batch].hold = q.hold]
       ELSE batches
  /\ End(c, "done")
  /\ UNCHANGED <<inspections, results, incidents, outbox>>

ReleaseVerdict(q) ==
  IF batches[q.batch].status = "OPEN" THEN "refused"
  ELSE IF batches[q.batch].release = q.reason THEN "replayed" ELSE "conflict"

Release(c) ==
  LET q == tx[c].req IN
  /\ At(c, "lock batch") /\ q.kind = "release"
  /\ \/ batches[q.batch] = None /\ End(c, "refused") /\ UNCHANGED batches
     \/ /\ batches[q.batch] # None /\ batches[q.batch].status # "HELD"
        /\ End(c, ReleaseVerdict(q))
        /\ UNCHANGED batches
     \/ /\ HasBatch(q.batch, "HELD")
        /\ batches' = [batches EXCEPT
             ![q.batch].status = "RELEASED", ![q.batch].release = q.reason]
        /\ End(c, "done")
  /\ UNCHANGED <<inspections, results, incidents, outbox>>

-----------------------------------------------------------------------------
\* InspectionApplicationService

InspectionVerdict(q) ==
  LET row == inspections[q.inspection] IN
  IF row.batch = q.batch /\ row.image = q.image THEN "replayed" ELSE "conflict"

FindInspection(c, q) ==
  /\ Begin(c, q,
       IF inspections[q.inspection] = None THEN "lock batch"
                                           ELSE InspectionVerdict(q), None)
  /\ UNCHANGED ledger

LockForInspection(c) ==
  LET q == tx[c].req IN
  /\ At(c, "lock batch") /\ q.kind = "inspection"
  /\ IF HasBatch(q.batch, "OPEN") \/ HasBatch(q.batch, "HELD")
     THEN Goto(c, "insert")
     ELSE End(c, "refused")
  /\ UNCHANGED ledger

CommitInspection(c) ==
  LET q == tx[c].req
      row == [batch |-> q.batch, image |-> q.image, completed |-> None] IN
  /\ IsAt(c, "commit") /\ q.kind = "inspection"
  /\ inspections' = [inspections EXCEPT ![q.inspection] = row]
  /\ End(c, "done")
  /\ UNCHANGED <<batches, results, incidents, outbox>>

-----------------------------------------------------------------------------
\* InspectionResultIntakeService

RowOf(q) == [inspection |-> q.inspection, anomaly |-> q.anomaly]
ByResultId(c) ==                \* mutant: arguments swapped
  [batch |-> tx[c].batch, inspection |-> tx[c].req.result]
IncidentOf(c) == [batch |-> tx[c].batch, inspection |-> tx[c].req.inspection]

\* compare and findForReplay: a replay of an anomaly needs its incident and a
\* matching event, an exception otherwise.
ResultVerdict(q) ==
  IF results[q.result] # RowOf(q) THEN "conflict"
  ELSE IF q.anomaly /\ (incidents[q.result] = None
                          \/ outbox[q.result] # incidents[q.result])
  THEN "error" ELSE "replayed"

FirstVerdict(q) ==
  IF inspections[q.inspection] = None \/ inspections[q.inspection].image # q.image
  THEN "refused"
  ELSE IF results[q.result] = None THEN "complete" ELSE ResultVerdict(q)

FindResult(c, q) ==
  LET row == inspections[q.inspection] IN
  /\ Begin(c, q, FirstVerdict(q), IF row = None THEN None ELSE row.batch)
  /\ UNCHANGED ledger

\* UPDATE inspections ... WHERE status = 'PENDING'.  A row that does not match
\* is not kept locked.
Complete(c) ==
  /\ At(c, "complete")
  /\ IF inspections[tx[c].req.inspection].completed = None
     THEN Goto(c, "insert")
     ELSE /\ tx' = [tx EXCEPT ![c].at = "insert"]
          /\ UNCHANGED locks
  /\ UNCHANGED ledger

\* The inspection row is locked exclusively by the transaction that completes it.
Completes(c) == Exclusive("inspection", tx[c].req.inspection) \in locks[c]

StoreResult(c) ==
  LET q == tx[c].req IN
  /\ results' = [results EXCEPT ![q.result] = RowOf(q)]
  /\ inspections' = IF Completes(c)
       THEN [inspections EXCEPT ![q.inspection].completed = q.result]
       ELSE inspections
  /\ End(c, "done")

CommitResult(c) ==
  /\ IsAt(c, "commit") /\ tx[c].req.kind = "result"
  /\ StoreResult(c)
  /\ UNCHANGED <<batches, incidents, outbox>>

OpenWithoutEvent(c) ==          \* mutant: no Outbox row
  /\ At(c, "open incident")
  /\ incidents' = [incidents EXCEPT ![tx[c].req.result] = IncidentOf(c)]
  /\ StoreResult(c)
  /\ UNCHANGED <<batches, outbox>>

\* An incident that is already there is kept; an event is written for a new one.
OpenIncident(c) ==
  LET r == tx[c].req.result IN
  /\ At(c, "open incident")
  /\ incidents' = [incidents EXCEPT ![r] = IF @ = None THEN IncidentOf(c) ELSE @]
  /\ outbox' = [outbox EXCEPT ![r] =
       IF incidents[r] = None THEN IncidentOf(c) ELSE @]
  /\ StoreResult(c)
  /\ UNCHANGED batches

TrustWinner(c) ==               \* mutant: the loser does not compare
  /\ At(c, "find winner")
  /\ End(c, "replayed")
  /\ UNCHANGED ledger
FindWinner(c) ==
  LET q == tx[c].req IN
  /\ At(c, "find winner")
  /\ End(c, IF results[q.result] = None THEN "error" ELSE ResultVerdict(q))
  /\ UNCHANGED ledger

-----------------------------------------------------------------------------
\* INSERT, by each of the three services

MeetKey(c) ==
  /\ IsAt(c, "insert") /\ Met(c)
  /\ Goto(c, "duplicate")
  /\ UNCHANGED ledger

\* DuplicateKeyException: the loser of a race finds the row of the winner.
KeyTaken(c) ==
  LET q == tx[c].req IN
  /\ At(c, "duplicate") /\ Exists(q)
  /\ End(c, CASE q.kind = "batch" -> BatchVerdict(q)
              [] q.kind = "inspection" -> InspectionVerdict(q)
              [] q.kind = "result" -> "find winner")
  /\ UNCHANGED ledger

\* The owner of the row rolled back.  Everyone who queued for the row is left
\* with a lock on the gap where it was, and tries again.
KeyFreed(c) ==
  LET q == tx[c].req IN
  /\ At(c, "duplicate") /\ ~Exists(q)
  /\ tx' = [tx EXCEPT ![c].at = "insert"]
  /\ locks' = [locks EXCEPT ![c] = @ \cup {[mode |-> "Gap", row |-> Key(q)]}]
  /\ UNCHANGED ledger

InsertRow(c) ==
  LET q == tx[c].req IN
  /\ At(c, "insert") /\ ~Met(c)
  /\ Goto(c, IF q.kind = "result" /\ q.anomaly THEN "open incident" ELSE "commit")
  /\ UNCHANGED ledger

-----------------------------------------------------------------------------
\* The caller takes its answer.
Return(c) ==
  /\ tx[c] # None /\ tx[c].at \in Answers
  /\ tx' = [tx EXCEPT ![c] = None]
  /\ UNCHANGED <<ledger, locks>>

\* Between any two statements: a deadlock victim, a lock wait timeout, a lost
\* connection or the death of the process.  Nobody hears of the outcome.
Rollback(c) ==
  /\ tx[c] # None /\ tx[c].at \in Statements
  /\ tx' = [tx EXCEPT ![c] = None]
  /\ locks' = [locks EXCEPT ![c] = {}]
  /\ UNCHANGED ledger

BatchStep(c) ==
  \/ \E q \in CreateBatchRequest : FindBatch(c, q)
  \/ \E q \in HoldRequest \cup ReleaseRequest : Command(c, q)
  \/ CommitBatch(c) \/ LockForHold(c) \/ ValidateEvidence(c) \/ HoldOpen(c)
  \/ Release(c)
InspectionStep(c) ==
  \/ \E q \in CreateRequest : FindInspection(c, q)
  \/ LockForInspection(c) \/ CommitInspection(c)
ResultStep(c) ==
  \/ \E q \in ResultRequest : FindResult(c, q)
  \/ Complete(c) \/ CommitResult(c) \/ OpenIncident(c) \/ FindWinner(c)
InsertStep(c) == MeetKey(c) \/ KeyTaken(c) \/ KeyFreed(c) \/ InsertRow(c)

CallerStep(c) ==
  \/ BatchStep(c) \/ InspectionStep(c) \/ ResultStep(c) \/ InsertStep(c)
  \/ Return(c) \/ Rollback(c)

Next == \E c \in Callers : CallerStep(c)

Spec == Init /\ [][Next]_vars

-----------------------------------------------------------------------------
\* Properties

\* The request is the one the tables have.
Stored(q) ==
  CASE q.kind = "batch" -> batches[q.batch].product = q.product
    [] q.kind = "hold" -> batches[q.batch].hold = q.hold
    [] q.kind = "release" -> batches[q.batch].release = q.reason
    [] q.kind = "inspection" ->
         /\ inspections[q.inspection].batch = q.batch
         /\ inspections[q.inspection].image = q.image
    [] q.kind = "result" ->
         /\ results[q.result] = RowOf(q)
         /\ q.anomaly <=> outbox[q.result] # None

\* What a caller is told is what the tables say, and stays so while it has the
\* answer: an accepted or replayed request is the stored one, whoever stored
\* it; a conflict is answered only to a request that differs from the stored
\* one; nobody meets a result without its incident, or a winner that is gone.
AnswersTrue ==
  \A c \in Callers : tx[c] # None =>
    /\ tx[c].at \in {"done", "replayed"} => Stored(tx[c].req)
    /\ tx[c].at = "conflict" => ~Stored(tx[c].req)
    /\ tx[c].at # "error"

\* Beside the locks in its way, a statement may wait in two ways that depend on
\* what is not modelled: an insert for a gap that another key of the table
\* shares with its own, a shared lock behind an exclusive one that was asked
\* for before.
SharesGap(c, l) ==
  /\ IsAt(c, "insert") /\ ~Met(c)
  /\ l.mode = "Gap" /\ l.row[1] = Key(tx[c].req)[1]
Behind(c, e, l) ==
  /\ \E k \in Wants(c) : k.mode = "S" /\ k.row = l.row
  /\ \A own \in locks[c] : own.row # l.row
  /\ \E k \in Wants(e) : k.mode = "X" /\ Conflict(k, l)
MayWaitFor(c, d) ==
  /\ c # d
  /\ \E l \in locks[d] :
       \/ Blocks(l, c) \/ SharesGap(c, l)
       \/ \E e \in Callers \ {c, d} : Behind(c, e, l)

\* The callers of a group wait for each other.
Deadlocked(group) == \A c \in group : \E d \in group : MayWaitFor(c, d)

\* c creates an inspection that appeared after c had looked for it.
CreatesExisting(c) ==
  /\ IsAt(c, "insert") \/ IsAt(c, "duplicate")
  /\ tx[c].req.kind = "inspection" /\ Exists(tx[c].req)

\* c and d had both queued behind inserts that were rolled back.
BothFreed(c, d) ==
  /\ IsAt(c, "insert") /\ IsAt(d, "insert") /\ tx[c].req.kind = tx[d].req.kind
  /\ \E k \in locks[c], l \in locks[d] : k.mode = "Gap" /\ l.mode = "Gap"

\* c holds a batch for the anomaly of an inspection, d opens the incident of
\* another result of it, and a third request has come to complete it.
HoldMeetsResults(c, d) ==
  /\ IsAt(c, "write hold") /\ IsAt(d, "open incident")
  /\ tx[c].req.hold.inspection = tx[d].req.inspection
  /\ tx[c].req.batch = tx[d].batch
  /\ \E e \in Callers :
       IsAt(e, "complete") /\ tx[e].req.inspection = tx[d].req.inspection

\* Results lock inspection, result and batch in this order, creation locks the
\* batch before the inspection.  Requests that deadlock do so in one of three
\* ways, and results among themselves in the second only: that is why the
\* inspection is completed before the result row that refers to it is inserted.
DeadlocksExplained ==
  \A group \in (SUBSET Callers) \ {{}} : Deadlocked(group) =>
    \E c \in group :
      \/ CreatesExisting(c)
      \/ \E d \in group \ {c} : BothFreed(c, d) \/ HoldMeetsResults(c, d)
=============================================================================
