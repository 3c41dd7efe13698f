# FactoryOps: TLA+ models and proofs

FactoryOps is the back end of a quality-inspection platform.  A Java business
service stores batches, inspections, vision results and quality incidents, and
publishes an event for each incident through a transactional Outbox and Kafka.
A Python agent service reads the events into an Inbox, starts one Agent Run per
event, and keeps the Tasks, leases and Executions with which Workers carry out a
Run.  This directory models the parts where processes, transactions, messages and
clocks meet, checks them with TLC and proves the most important results with
TLAPS.

Paths below: `B/` is `src/backend/business-service/src/main/java/com/factoryops/business/`,
`A/` is `src/services/agent-service/src/factoryops_agent_service/`.

## 1. Inventory

| Component | State it keeps | Operations | What is hard | What makes it correct | Modelled by |
|---|---|---|---|---|---|
| Batches `B/batch` | `batches` | create, hold, release | row lock against inspections, repeated and conflicting commands | first hold and release are kept; no inspection of a RELEASED batch | `InspectionIntake` |
| Inspections, result intake `B/inspection` | `inspections`, `vision_inspection_results` | create, accept | races for unique keys under READ COMMITTED, replays | one immutable result per id; first completion is kept; answers are true | `InspectionIntake` |
| Quality incidents `B/incident` | `quality_incidents`, `outbox_events` | openOrFind, findForReplay | atomic with the result and the Outbox row | an anomalous result has exactly one incident and one event | `InspectionIntake` |
| Outbox publisher `B/outbox` | `outbox_events` | findPublishable, send, markPublished | crash or lost answer between acknowledgement and mark, late records, two instances | PUBLISHED implies delivered; failing events do not block others | `OutboxPublisher` |
| Event ingress `A/event_ingress` | offsets, `agent_event_inbox`, `agent_event_rejections` | poll, process, commit, seek | crashes between three commits, rebalances, redeliveries, conflicting contents | no record skipped, facts never rewritten | `EventIngress` |
| Run creation `A/run_lifecycle` | `agent_runs`, `agent_run_transitions` | create_original_run, create_replay_run | two callers race for a key, lineage of replays | one original Run per event, replays form trees | `EventIngress`, `AgentRuns` |
| Run lifecycle `A/run_lifecycle` | the same | transition_run | compare-and-set with request ids | one history per revision, repeated requests are recognised | `AgentRuns` |
| Coordinator start `A/coordinator_start` | Run, Coordinator Execution, `coordinator_start_requests` | start | two requests for one Run, a Run moved meanwhile | one Coordinator per Run | `AgentRuns` |
| Coordinator dispatch `A/coordinator_task_dispatch` | Task rows, Coordinator row | dispatch | promotion of the Coordinator in the same transaction | Tasks only of a live Coordinator | `TaskLifecycle` |
| Task and Execution lifecycle `A/task_lifecycle`, `A/execution_lifecycle` | `agent_tasks`, `agent_executions` and histories | create, transition | write the same rows as the Workers | rows evolve by legal revisions | `TaskLifecycle` (writes; not the answers to repeated requests) |
| Task leases `A/task_lease.py` | `agent_task_leases` | claim, renew, release | expiry, clocks read before lock waits, lost answers | one Worker may rely on a Task | `TaskLease` |
| Worker execution `A/worker_task_execution.py` | Task, Execution, lease and receipts | start, complete | late Workers, retries, five tables in one transaction | started once, completed once, by the holder | `WorkerExecution` |
| Contracts `src/contracts` | none | validate, classify | own tables of legal edges | services write what the Contracts accept | revision relations in `AgentContracts` |
| HTTP controllers, schemas, decoding | none | translation, validation | | | no: no state of their own |

Interaction: the business service writes the incident and its `outbox_events` row
in one transaction; the publisher sends the row to Kafka and marks it; the ingress
workers of the agent service read the topic and create Inbox rows and Runs; a
Coordinator Execution of the Run dispatches Tasks; Workers, which are not in this
repository, lease, start and complete them.  All coordination goes through MySQL:
row locks, unique and foreign keys, conditional updates and GET_LOCK.

The hazards of the code, with their lines and the properties that watch them, are
listed in `PROJECT.json`.

## 2. Modules

Business service:

- `QualityLedger`: the abstract specification of the tables.  Each action is one
  accepted request: the check of its conditions and all its rows in one step.
- `InspectionIntake`: the requests as MySQL runs them, READ COMMITTED, one action per
  statement that reads, waits or writes.  `tx[c].at` is the next statement or the
  answer; `locks[c]` are the locks InnoDB takes for FOR UPDATE, for updates, for new
  rows, for duplicate keys and for foreign keys.  What a transaction writes becomes
  visible when it commits, so the tables change in the action that commits.  An INSERT
  that meets its key, committed or not, queues for a shared lock of that row
  (`MeetKey`); if the row commits, the key is taken (`KeyTaken`); if it rolls back, the
  waiters are left with a lock of the gap where it was and try again (`KeyFreed`), and
  an insert has to wait for the gap locks of others.
  `Rollback` between any two statements stands for deadlock victims, timeouts and
  crashes.  The module implements `QualityLedger` (`LedgerSpec`, same variables).
- `OutboxPublisher`: rounds of any number of publisher instances.  The topic is the
  number of records of each event; `late` are records whose wait timed out.

Event ingress:

- `EventIngress`: the workers of one partition.  `pc[c]` follows `run_once`
  (`accept`, `find`, `insert`, `commit`, `seek`); each database transaction is one
  action, because the code opens a new transaction for the Inbox row, for looking up
  the Run and for inserting it.  Kafka is a log, a committed offset and an owner.
  `DatabaseFault` and `CommitFault` are exceptions before and after the effect,
  `Crash`/`Restart` the death of the process, `Assign` the rebalance: a worker that
  lost the partition goes on until its next poll and may still commit.  One partition
  is enough because the key of a record is its incident id, from which the event id
  is derived: the records of an event share a partition.
- `EventTrust`: the abstract specification: an event is trusted by its first record
  and started once, a record excluded by that trust is refused, and only settled
  records are passed.  `EventIngress` implements it by a refinement mapping
  (`TrustSpec`): trust is the content of the Inbox row, started are the Runs, passed
  is the committed offset.

Agent Runs:

- `RunLedger`: the tables of Runs and the abstract specification of the services:
  every change is one whole command, and its conditions hold when it is committed.
- `AgentRuns`: both creations, `transition_run` and the Coordinator's `start`, as calls
  that look their key up, read, write in one transaction and look the key up again when
  they cannot go on.  Each of these is one action; other callers run in between.
  It implements `RunLedger` (`LedgerSpec`, same tables).
  `key` tells an original from a replay.  The single `Matches` stands for the
  comparison of a stored row with the command, `Verdict` for identical or different.

Tasks:

- `AgentTables`: the tables of Tasks, Executions, leases and receipts of one Run, the
  Workers' knowledge and time.  Time is relative: a lease has `left` ticks, a call is
  `age` ticks old since the service read `now`, so that `expires_at > now` is
  `left + age > 0`.  `taskSince` and `executionSince` are the ticks since `updated_at`
  of a row: a Worker's call writes `age`, the `now` it read before it waited, a
  lifecycle service writes 0.
- `TaskLease`, `WorkerExecution`, `TaskLifecycle`: one action per service operation on
  these tables.  A transaction is atomic in the model because the code holds the
  request's GET_LOCK and the Task, lease and Execution row locks until the commit.  The
  status of dependencies is read without a lock, after all of these; SUCCEEDED is final,
  so what it read stays true.  That a refusal undoes all writes of its transaction is
  taken from MySQL.  Lifecycle transitions are conditional updates on status and
  revision, and every writer raises the revision, so reading, planning and updating
  are one step and a miss changes nothing (`Refused` stands for every refusal).
- `AgentContracts`: the `next revision` relations of the Contract validators, with the
  order of `updated_at` (`InOrder`), and the status reason a valid snapshot has
  (`ValidTask`, `ValidExecution`).
- `AgentTasks`: composes the Task modules and states their properties.
- `TaskWork`: the abstract specification of Tasks: offered, taken, begun and ended, each
  by a Worker nobody else competes with; leases, clocks, calls and receipts are gone.
  `AgentTasks` implements it (`WorkSpec`): `Stage` is the status of the Task row,
  `Needs` its dependencies, `Users` the Workers that believe in a Lease with time left,
  `Starters` the Worker of the start receipt.

`EventIngressProofs`, `EventTrustProofs`, `OutboxProofs`, `IntakeProofs`,
`AgentRunsProofs`, `AgentTasksProofs` and `TaskWorkProofs` hold the theorems (section 5),
`TaskWork` the one about itself; the `MC*`
modules are instances for TLC, with symmetry of the identifiers where only safety is
checked.

## 3. Runs

| Run | Instance | Shows |
|---|---|---|
| `ingress_safety` | 2 workers, 1 event, 2 contents, 2 configurations, 3 records, 3 faults | no record below the committed offset is unhandled; one Run per event; rejections and trust exclude each other; stored facts are frozen; no redelivery ends in the integrity exit; the whole implements `EventTrust` |
| `ingress_liveness` | the same without symmetry, 2 records, 2 faults | every record is eventually handled |
| `ingress_seek_faults` | 2 events, seek may raise | uniqueness and evidence do not depend on the seek |
| `outbox_rounds` | 2 publishers, 3 events, one of them never acknowledged, batches of 2, 2 faults | PUBLISHED implies delivered; each extra record has a cause; deliverable events are published |
| `intake` | 3 callers, 1 batch, 1 inspection, 2 images, 2 results | the interleaved transactions implement the ledger; the evidence chain; answers are true; every deadlock has one of the three known causes |
| `runs_lifecycle` | 2 callers, 1 Run, 3 request ids, 2 payloads, moves up to revision 3 | one gapless legal history written by two services; one start; answers are true; a violated key has an owner |
| `runs_lineage` | 2 callers, 3 Runs: two originals and a replay, or a chain of two replays | replays form a tree below an original of their incident; the calls implement the ledger of whole commands |
| `tasks_workers` | 2 Workers, 1 Task, TTL 3, waits of 2 ticks, 2 faults | two Workers never both believe in a lease of one Task; the lease of a started Task is the one it was started with, and nobody but its starter relies on one; the whole implements `TaskWork` |
| `tasks_pair` | 2 Workers, 2 Tasks with or without a dependency, TTL 1, 1 fault | started once, completed once, by the starter; rows, receipts and lease change together; dependencies first; the whole implements `TaskWork` |
| `tasks_lifecycle` | 1 Worker and the lifecycle services on the same rows, 2 attempts, TTL 1, waits of 1 tick | rows evolve by the next-revision relation of the validators, time included; a started lease is kept |
| `rows_unreadable` | | **violated**: a Worker's rows carry a reason without a message |
| `start_retry` | 2 callers, 1 Run, 2 request ids | **violated**: an identical retry of a start that succeeded ends in an error |

Bounds.  Two workers, publishers or callers are the least that race, and each race in
the code is between two (for a row lock, a lease or a key), but for one: when the owner
of a new key rolls back, those who queued for it race for what it leaves, and a hold and
an incident deadlock only with a third request queued between them.  Therefore `intake`
has three callers (1,365,602 states).  Three records hold
a first delivery, a conflicting one and a later record that could be committed over
them; three faults allow a failure during the recovery from a failure.  Two results of
one inspection race for its completion and for one result id, and two images let a
repeated inspection and a repeated result differ from the stored one.  The moves of `runs_lifecycle` contain a cycle
(RUNNING, SUSPENDED, RUNNING), two ends, an illegal edge, and the move out of PENDING
that competes with a start.  TTL 3 with waits of 2 lets a call outlive the lease it
works with and a takeover be itself taken over.  Tokens are fresh while somebody knows
them.  `MaxAttempts` is 1 where only Workers run, since `start` refuses a revision
other than 0, and 2 with the lifecycle services, whose transitions may attach a second
Execution.  `tasks_lifecycle` has one Worker, whose
calls wait while the lifecycle services move its rows, and no faults: races of two
Workers and lost answers are what the other two runs vary.  The theorems of section 5 hold
without any of these bounds.  `WorkSpec` with the lifecycle services and `LedgerSpec` with
moves and starts are proved and left out of their runs, which would take minutes longer.

Deadlock checking is off in the ingress runs: the model stops when the bounded log
is full and handled.  It is on everywhere else; idle publishers restart, callers give
up or take their answers, a transaction that waits is rolled back, and time passes for
ever in the Task runs.

Fairness.  `run_forever` calls `run_once` again after every exception but an
integrity error, the process is restarted by its supervisor, and the group
coordinator gives an unowned partition to a live member: weak fairness of a worker's
next step, of `Restart` and of assigning an unowned partition.  The scheduler of the
publisher starts a round after every delay and the delivery timeout ends every wait:
weak fairness of a round's next step and of `Restart`.  Faults are bounded, which says
that they stop for long enough; nothing makes an unroutable event succeed.

## 4. What the documents say and the code does not do

Shown by a run:

- `rows_unreadable`: Workers write `status_reason_message = NULL` beside a code;
  `get_task` and `get_execution` then raise `PersistenceIntegrityError`.
  For the same reason the validators refuse a Worker's row as one of two snapshots
  whatever its relation to the other; `RowsEvolve` therefore speaks of their `_is_next`
  relation alone, and not of the validity of the rows.
- `start_retry`: `start` looks its receipt up once, then validates the RUNNING
  candidate of the Run it read.  If the first attempt commits in between and the Run
  ends, the retry is answered `PersistenceIntegrityError` where the specification
  promises `duplicate-identical`; `transition_run` looks the key up again, `start`
  does not.

Met while reading, without a run of their own:

- The ingress specification forbids committing a higher offset over a failed record.
  `_seek_for_retry` swallows an exception of `seek` and the worker polls on.
  librdkafka refuses a seek mostly for a partition that is not assigned, so the case
  is rare; the theorems about skipped records carry the assumption explicitly.
- `start` and `complete` compare `expires_at` with a `now` read before up to ten
  seconds of GET_LOCK and the row locks.  Fencing by token keeps this harmless for
  other Workers (`StartedLeaseKept`, `OneReceiptEach` hold), but the stated condition
  is not met.
- The Contracts want time not to go backwards (`agent-task-contract/spec.md:59`,
  `agent-execution-contract/spec.md:56` and `:79`).  `complete` writes as `updated_at`
  and `ended_at` the `now` it read before GET_LOCK and the row locks.  If the lifecycle
  service made the Task or its Execution RUNNING while the call waited, that is earlier
  than the `updated_at` it replaces, and earlier than `started_at`, which is not a valid
  snapshot at all.  A Task that a Worker started is safe: the call can only be made
  after the start, and every transition since makes it miss.  `RowsEvolve` states the
  order of time for all other writes and excepts this one (`EndsUnstarted`).
- `transition_task` does not read the status of the Execution it refers to, so a Task
  may be SUCCEEDED by an Execution that is not.
- Failed Outbox events keep their place at the head of the selection; as many of them
  as the batch size starve all later events.
- `dispatch` accepts a PENDING Coordinator and promotes it, where the specification
  asks for a RUNNING one.
- The design of the result intake (`src/openspec`) states the lock order batch,
  inspection, result; the code locks inspection, result, batch for a result.
- Deadlocks remain possible and end in an unhandled exception of the victim: three
  deliveries of one result of which the first rolls back, a repeated creation of an
  inspection, a hold for the anomaly of an inspection whose results are arriving.
- Two identical requests create an inspection; one looks before the other commits, and
  the batch is RELEASED before it has the batch lock.  It is refused although the
  batch specification answers an identical repetition with a replay.
- `transition_run` may move a PENDING Run to RUNNING without a Coordinator, and
  `create_execution` may take the Coordinator's key; no start of that Run can succeed
  afterwards.
- Transition requests and start requests share one unique column: a start whose id is
  the transition id of another Run raises `IntegrityError`.

## 5. Proofs

All theorems hold for any number of processes, rows, keys, records and faults.  They
assume the named ASSUMEs of the modules only (bounds are naturals, NULL is not a value,
event ids and replay ids differ, events are ordered like numbers, the publishers are
finitely many), which TLC evaluates in every run.  Every argument is an inductive invariant.

`EventIngressProofs`: `IngressInvariance` if a seek of an assigned partition succeeds.
`CommittedHandled` alone is not inductive: a worker in `commit` might be about to pass
an unhandled record.  `IngressInv` adds that a busy worker saw every earlier record
handled (`HoldsInOrder`) and that the owner's fetch position is ahead of the handled
prefix by at most the record it holds (`FetchesInOrder`).  Handled records stay handled
because tables only grow (`RecordInv`, `Grows`).  `NoRecordSkipped` follows;
`StoredFactsFrozen` and `RunUniqueness` hold whatever the seek does.

`EventTrustProofs`: `EvidenceNeverContradicts`, `RunsAreTrusted` and `NeverFatal` from
`EvidenceInv`, which says of each worker past `accept` that the Inbox has the event
with the content it read, and of each rejection why it was written; whatever the seek
does.  `IngressImplementsTrust` maps each transaction to its action of `EventTrust`,
and a commit to `Pass`, which is where the assumption about the seek is needed.

`OutboxProofs`: `PublisherInvariance` and `NothingForgotten`: a publisher about to mark
an event has seen its acknowledgement, and records never leave the topic.
`DuplicatesHaveCauses` counts: the records of an event are at most the faults so far and
the publishers that are done with it (`Spent`: their record is acknowledged and they are
about to mark it, or it is marked and their round will not send it again).  A record more
needs a fault or a publisher more; a publisher leaves the set by a fault only.  Counting
is where finitely many publishers are assumed.

`IntakeProofs`: `IntakeInv` says, statement by statement, what a transaction has locked
and what is therefore still as it read it: the batch it locked, the inspection it is
about to complete, the result whose row it inserted.  A lock held exclusively keeps
every other transaction from writing that row.  Hence each commit is an action of
`QualityLedger` and every other step a stutter (`IntakeImplementsLedger`); the evidence
chain is proved of the ledger alone and carried over (`IntakeEvidence`).
`TruthfulAnswers` adds that the row an answer is about never changes again in the
columns that were compared.  `IntakeTypes` is the type invariant.
`DeadlocksHaveThreeCauses` is about any set of transactions that wait for each other.
The invariant says at which statements a transaction may hold which lock (`LockInv`) and
that only the shared locks and the gap locks of a row have several holders
(`Compatible`).  Take a group without the three causes.  A hold with the evidence in hand, a creation
that met its key and a creation that inserts could each wait in one of the three ways
only, so no member holds a batch exclusively; so none that opens an incident waits; so
none that met its key waits, nor one that inserts a result, since it could only wait for
the gap locks of another such one, which is the second cause, or for one of those before;
so none that completes an inspection or locks a batch waits, and nobody is left.
Two waits depend on what is not modelled, which keys are neighbours in an index
and who asked first; `MayWaitFor` allows both wherever they are possible, so the theorem
holds for either.

`AgentRunsProofs`: a table never loses a row and a key, once known, answers every later
lookup alike, so a verdict stays true (`TrueOutcomes`).  `OneHistory` goes entry by
entry: a move or a start adds the entry of the next revision and the update that goes
with it is conditional on the revision before.  `StartsAgree` ties Run, Execution,
history and receipt of a start; `LineageTree` proves that no set of Runs of any size is
a cycle of sources, because a new Run's source already exists; `RacesLost` that
a call in `breach` has lost its key to a row that is still there; `LegalRuns` that Runs
move along legal edges only.  `RunsImplementLedger`: what a call read and relies on
when it writes is stable under all other calls - an event stays in the Inbox, a lineage
stays valid - or is compared again by the write itself, so every write is a command of
`RunLedger`.  `RunTypes` is the type invariant.

`AgentTasksProofs`: `TasksInv` has these parts.  Rows have the shape of their revision
(a PENDING Task has never been started), which makes every write a next revision.
`SinceInv` adds the time: a row of a Task that a Worker holds or calls for was last
written before the call read its clock, as long as no lifecycle transition has made the
call miss.  `LegalRows` follows, up to the completions `RowsEvolve` excepts.  A call in flight fits the Lease its Worker has: no Lease is relied on
while it is claimed or released, and a renewal will not shorten it.  A Lease with time
left is the lease row, with no more time than the row has, or the row is gone and its
Task no longer PENDING (`Backed`): two Workers would need the same row, and a Task that
left PENDING is never leased again (`LeasesExclude`).  A receipt's Task has left
PENDING, or is over, which is what makes a second receipt impossible (`OneReceipt`) and
keeps a started lease from takeovers (`StartedLeases`).  These hold with the lifecycle
services on the same rows.  While only Workers move the rows, `PairsAgree` and
`DependenciesBefore` follow.

`TaskWorkProofs`: a step of the services takes, drops, begins, ends or moves one Task of
`TaskWork`, or is a stutter (`TasksImplementWork`, with the lifecycle services or
without).  `Backed` gives the guard of `Take`: whoever claims a lease finds every other
Lease of the Task without time left.  `TasksInv` does not say that a starter is alone:
that is proved of `TaskWork`, where it is one line of an inductive invariant
(`OneWorkerEach`), and carried over by the refinement (`StarterIsAlone`).

Only model-checked: liveness (`EventuallyHandled`, `UnrelatedPublished`), which is out of
the prover's reach.

## 6. Not modelled

Validation of documents (schemas, decoding, canonical JSON) appears by its result: a
record the decoder refuses is `Poison`, equal canonical hashes are equal contents, and
commands are well formed.  The Contract check of a Run row is modelled where a stale
read breaks it.  In the intake only PRODUCTION batches exist (LEGACY rows come from a
migration), the image only decides whether a result is accepted, and the result that
completed an inspection stands for `completed_at`.  WAITING_FOR_APPROVAL is in the
table of legal edges, but no run asks for it: it is an edge like SUSPENDED.

Skew between clocks is left out: all processes share time, and a tick is long against
a transaction.  A Worker that asks for a shorter lease is taken to rely on the shorter
one even if the answer is lost; TLC finds `ExclusiveLease` violated otherwise.  A
RUNNING Task whose lease is gone stays RUNNING: no document promises more, so no
property is stated.  Lock-order deadlocks of the agent service, which InnoDB resolves by
aborting one transaction, are refused calls.  How the Task and Execution lifecycle
services classify repeated requests is not modelled: it is the pattern of
`transition_run`, which `AgentRuns` has.  HTTP controllers and logging have no state.

## 7. What could follow

1. The path from an incident to its Run: intake, Outbox, topic and ingress composed,
   with `QualityLedger` and `EventTrust` standing for their ends.
2. Classification of repeated Task and Execution lifecycle requests, and the lock
   orders of dispatch, start and complete.
