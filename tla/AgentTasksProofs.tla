-------------------------- MODULE AgentTasksProofs --------------------------
(***************************************************************************)
(* Proofs about AgentTasks: rows, leases and receipts, for any number of   *)
(* Workers, Tasks, tokens and requests, any wait, TTL and number of faults.*)
(***************************************************************************)
EXTENDS AgentTasks, TLAPS

-----------------------------------------------------------------------------
\* The invariants

\* A PENDING Task has never been started; each later revision is an attempt or
\* the end.
TaskShape(row) ==
  /\ row.status = "PENDING" => row.revision = 0 /\ row.attempts = 0 /\ row.current = None
  /\ row.status = "RUNNING" => row.revision = row.attempts
  /\ row.revision <= row.attempts + 1

ExecutionShape(row) ==
  /\ row.status = "PENDING" => row.revision = 0
  /\ row.status = "RUNNING" => row.revision = 1

RowsInv ==
  /\ tasks \in [Tasks -> TaskRow \cup {None}]
  /\ executions \in [Executions -> ExecutionRow \cup {None}]
  /\ coordinator \in ExecutionStates
  /\ \A t \in Tasks : tasks[t] # None => TaskShape(tasks[t])
  /\ \A x \in Executions : executions[x] # None => ExecutionShape(executions[x])

\* What a call in flight says of the Lease its Worker has: no Lease is relied
\* on while it is claimed or released, a renewal will not shorten it, and the
\* others are made for its Task.
CallFits(c, h) ==
  /\ c.op \in {"claim", "release"} => h = None
  /\ c.op = "renew" => /\ h # None
                       /\ h.task = c.task /\ h.token = c.token
                       /\ h.left <= Expiry(c.ttl, c.age)
  /\ c.op \in {"start", "complete"} =>
       c.request \in Requests /\ h # None /\ h.task = c.task
  /\ c.op = "complete" => c.exec \in Executions /\ c.final # None

CallsInv ==
  /\ handle \in [Workers -> Handle \cup {None}]
  /\ call \in [Workers -> Call \cup {None}]
  /\ faults \in 0..MaxFaults
  /\ \A w \in Workers : call[w] # None => CallFits(call[w], handle[w])

RecordsInv ==
  /\ leases \in [Tasks -> LeaseRow \cup {None}]
  /\ starts \in [Requests -> Command \cup {None}]
  /\ completions \in [Requests -> Completion \cup {None}]

LeftPending(t) == tasks[t] # None /\ tasks[t].status # "PENDING"
Over(t) == tasks[t] # None /\ tasks[t].status \in TaskTerminal

\* A Lease with time left is the row, or the answer to complete was lost.
Backed(w, h) ==
  \/ Owns(h.task, w, h.token) /\ h.left <= leases[h.task].left
  \/ leases[h.task] = None /\ LeftPending(h.task)

LeasesInv ==
  /\ ExclusiveLease
  /\ \A w \in Workers, h \in Handle : handle[w] = h /\ h.left > 0 => Backed(w, h)

ReceiptsInv ==
  /\ StartedLeaseKept /\ OneReceiptEach
  /\ \A r \in Requests : starts[r] # None => LeftPending(starts[r].task)
  /\ \A r \in Requests : completions[r] # None => Over(completions[r].task)

-----------------------------------------------------------------------------
\* Rows of the Task services

LEMMA Attempts ==
  /\ MaxAttempts \in Nat \ {0} /\ 1 \in 1..MaxAttempts
  /\ \A t \in Tasks : <<t, 1>> \in Executions
  /\ None \notin TaskRow /\ None \notin ExecutionRow
BY TableAssumption DEF Executions

LEMMA Domains ==
  /\ {"PENDING", "RUNNING", "SUCCEEDED", "FAILED"} \subseteq ExecutionStates
  /\ ExecutionStates \subseteq TaskStates
  /\ {"none", "code", "full"} = Reasons
  /\ {1, 2} \subseteq 0..(MaxAttempts + 1) /\ 1 \in 0..MaxAttempts
BY Attempts DEF ExecutionStates, TaskStates, Reasons

LEMMA NewTaskRow ==
  ASSUME NEW deps \in SUBSET Tasks
  PROVE  /\ PendingTask(deps) \in TaskRow /\ TaskShape(PendingTask(deps))
         /\ PendingTask(deps).status = "PENDING"
BY Attempts DEF PendingTask, TaskRow, TaskShape, TaskStates, Reasons

LEMMA PlannedRow ==
  ASSUME NEW t \in Tasks, NEW to \in TaskStates, NEW x \in Executions \cup {None},
         tasks[t] \in TaskRow, TaskShape(tasks[t]), Plannable(t, to, x),
         to = "RUNNING" => tasks[t].attempts < MaxAttempts
  PROVE  /\ Planned(t, to, x) \in TaskRow /\ TaskShape(Planned(t, to, x))
         /\ TaskFollows(tasks[t], Planned(t, to, x))
<1>1. PICK a \in TaskRow : a = tasks[t]
  OBVIOUS
<1>2. /\ a.status \in TaskStates /\ a.revision \in Nat /\ a.attempts \in 0..MaxAttempts
      /\ a.current \in Executions \cup {None} /\ a.deps \in SUBSET Tasks
      /\ a.revision <= a.attempts + 1
      /\ a.status = "PENDING" => a.revision = 0 /\ a.attempts = 0
      /\ a.status = "RUNNING" => a.revision = a.attempts
  BY <1>1 DEF TaskRow, TaskShape
<1>3. to \in TaskLegal[a.status]
  BY <1>1 DEF Plannable
<1>4. /\ a.status \in {"PENDING", "RUNNING"} /\ to # "PENDING"
      /\ <<a.status, to>> \in LegalTaskEdges
  BY <1>2, <1>3 DEF TaskLegal, TaskStates, LegalTaskEdges
<1>5. a.revision <= a.attempts
  BY <1>2, <1>4
<1>6. CASE to = "RUNNING"
  <2>1. Planned(t, to, x) = [a EXCEPT !.status = to, !.revision = a.revision + 1,
          !.reason = "full", !.current = x, !.attempts = a.attempts + 1]
    BY <1>1, <1>6 DEF Planned, TaskRow
  <2>2. PICK b : b = [a EXCEPT !.status = to, !.revision = a.revision + 1,
          !.reason = "full", !.current = x, !.attempts = a.attempts + 1]
    OBVIOUS
  <2>3. /\ b.status = to /\ b.revision = a.revision + 1 /\ b.current = x
        /\ b.attempts = a.attempts + 1 /\ b.deps = a.deps
    BY <2>2 DEF TaskRow
  <2>4. a.attempts + 1 \in 0..MaxAttempts /\ a.revision + 1 \in 0..(MaxAttempts + 1)
    BY <1>1, <1>2, <1>5, <1>6, Attempts
  <2>5. b \in TaskRow
    BY <1>2, <2>2, <2>4 DEF TaskRow, Reasons
  <2>6. a.revision = a.attempts
    BY <1>2, <1>4
  <2>7. TaskShape(b) /\ TaskFollows(a, b)
    BY <1>2, <1>4, <1>6, <2>3, <2>6 DEF TaskShape, TaskFollows
  <2> QED
    BY <1>1, <2>1, <2>2, <2>5, <2>7
<1>7. CASE to # "RUNNING"
  <2>1. Planned(t, to, x) = [a EXCEPT !.status = to, !.revision = a.revision + 1,
          !.reason = "full"]
    BY <1>1, <1>7 DEF Planned
  <2>2. PICK b : b = [a EXCEPT !.status = to, !.revision = a.revision + 1,
          !.reason = "full"]
    OBVIOUS
  <2>3. /\ b.status = to /\ b.revision = a.revision + 1 /\ b.current = a.current
        /\ b.attempts = a.attempts /\ b.deps = a.deps
    BY <2>2 DEF TaskRow
  <2>4. a.revision + 1 \in 0..(MaxAttempts + 1)
    BY <1>2, <1>5, Attempts
  <2>5. b \in TaskRow
    BY <1>2, <2>2, <2>4 DEF TaskRow, Reasons
  <2>6. TaskShape(b) /\ TaskFollows(a, b)
    BY <1>2, <1>4, <1>5, <1>7, <2>3 DEF TaskShape, TaskFollows
  <2> QED
    BY <1>1, <2>1, <2>2, <2>5, <2>6
<1> QED
  BY <1>6, <1>7

-----------------------------------------------------------------------------
\* The services' transactions, with what they read named

\* Every call of a service ends like this.
Answered(w, h) ==
  /\ call' = [call EXCEPT ![w] = None]
  /\ handle' = [handle EXCEPT ![w] = h] \/ UNCHANGED handle

ClaimBy(w, c, k) ==
  /\ c = call[w] /\ c.op = "claim" /\ Claimable(c.task, c.age)
  /\ leases' = [leases EXCEPT ![c.task] =
       [owner |-> w, token |-> k, left |-> Expiry(c.ttl, c.age)]]
  /\ Answered(w, [task |-> c.task, token |-> k, left |-> Expiry(c.ttl, c.age)])
  /\ UNCHANGED <<rows, receipts>>

RenewBy(w, c) ==
  /\ c = call[w] /\ c.op = "renew" /\ Owns(c.task, w, c.token)
  /\ leases' = [leases EXCEPT ![c.task].left = Expiry(c.ttl, c.age)]
  /\ Answered(w, [task |-> c.task, token |-> c.token, left |-> Expiry(c.ttl, c.age)])
  /\ UNCHANGED <<rows, receipts>>

ReleaseBy(w, c) ==
  /\ c = call[w] /\ c.op = "release" /\ Owns(c.task, w, c.token)
  /\ leases' = [leases EXCEPT ![c.task] = None]
  /\ Answered(w, None)
  /\ UNCHANGED <<rows, receipts>>

StartBy(w, c, h) ==
  /\ c = call[w] /\ h = handle[w] /\ c.op = "start"
  /\ starts[c.request] = None
  /\ HasStatus(c.task, "PENDING") /\ Owns(c.task, w, c.token)
  /\ DependenciesReady(c.task) /\ executions[<<c.task, 1>>] = None
  /\ StartPair(c.task, <<c.task, 1>>)
  /\ UpdatedAt(c.task, <<c.task, 1>>, c.age)
  /\ starts' = [starts EXCEPT ![c.request] =
       [task |-> c.task, owner |-> w, token |-> c.token]]
  /\ Answered(w, h)
  /\ UNCHANGED <<coordinator, leases, completions>>

CompleteBy(w, c) ==
  /\ c = call[w] /\ c.op = "complete"
  /\ completions[c.request] = None
  /\ HasStatus(c.task, "RUNNING") /\ tasks[c.task].current = c.exec
  /\ tasks[c.task].revision = 1 /\ c.exec[1] = c.task
  /\ IsExecution(c.exec, "RUNNING") /\ executions[c.exec].revision = 1
  /\ Owns(c.task, w, c.token)
  /\ FinishPair(c.task, c.exec, c.final)
  /\ UpdatedAt(c.task, c.exec, c.age)
  /\ leases' = [leases EXCEPT ![c.task] = None]
  /\ completions' = [completions EXCEPT ![c.request] =
       [task |-> c.task, owner |-> w, token |-> c.token, exec |-> c.exec,
        final |-> c.final]]
  /\ Answered(w, None)
  /\ UNCHANGED <<coordinator, starts>>

LEMMA Transactions ==
  ASSUME CallsInv, NEW w \in Workers
  PROVE  /\ Claim(w) => \E c \in Call, k \in Tokens : ClaimBy(w, c, k)
         /\ Renew(w) => \E c \in Call : RenewBy(w, c)
         /\ Release(w) => \E c \in Call : ReleaseBy(w, c)
         /\ Start(w) => \E c \in Call, h \in Handle \cup {None} : StartBy(w, c, h)
         /\ Complete(w) => \E c \in Call : CompleteBy(w, c)
<1>1. ASSUME NEW op, Calling(w, op)
      PROVE  \E c \in Call : c = call[w] /\ c.op = op
  BY <1>1 DEF Calling, CallsInv
<1>2. ASSUME NEW h, Answer(w, h)
      PROVE  Answered(w, h)
  BY <1>2 DEF Answer, Answered
<1>3. ASSUME Claim(w)
      PROVE  \E c \in Call, k \in Tokens : ClaimBy(w, c, k)
  <2>1. PICK c \in Call : c = call[w] /\ c.op = "claim"
    BY <1>1, <1>3 DEF Claim
  <2>2. PICK k \in Tokens :
          /\ leases' = [leases EXCEPT ![c.task] =
               [owner |-> w, token |-> k, left |-> Expiry(c.ttl, c.age)]]
          /\ Answer(w, [task |-> c.task, token |-> k, left |-> Expiry(c.ttl, c.age)])
    BY <1>3, <2>1, Zenon DEF Claim
  <2>3. Claimable(c.task, c.age) /\ UNCHANGED <<rows, receipts>>
    BY <1>3, <2>1, Zenon DEF Claim
  <2>4. ClaimBy(w, c, k)
    BY <1>2, <2>1, <2>2, <2>3, Zenon DEF ClaimBy
  <2> QED
    BY <2>4
<1>4. ASSUME Renew(w)
      PROVE  \E c \in Call : RenewBy(w, c)
  <2>1. PICK c \in Call : c = call[w] /\ c.op = "renew"
    BY <1>1, <1>4 DEF Renew
  <2>2. /\ Owns(c.task, w, c.token)
        /\ leases' = [leases EXCEPT ![c.task].left = Expiry(c.ttl, c.age)]
        /\ Answer(w, [task |-> c.task, token |-> c.token,
                      left |-> Expiry(c.ttl, c.age)])
        /\ UNCHANGED <<rows, receipts>>
    BY <1>4, <2>1, Zenon DEF Renew
  <2> QED
    BY <1>2, <2>1, <2>2, Zenon DEF RenewBy
<1>5. ASSUME Release(w)
      PROVE  \E c \in Call : ReleaseBy(w, c)
  <2>1. PICK c \in Call : c = call[w] /\ c.op = "release"
    BY <1>1, <1>5 DEF Release
  <2>2. /\ Owns(c.task, w, c.token)
        /\ leases' = [leases EXCEPT ![c.task] = None]
        /\ Answer(w, None)
        /\ UNCHANGED <<rows, receipts>>
    BY <1>5, <2>1, Zenon DEF Release
  <2> QED
    BY <1>2, <2>1, <2>2, Zenon DEF ReleaseBy
<1>6. ASSUME Start(w)
      PROVE  \E c \in Call, h \in Handle \cup {None} : StartBy(w, c, h)
  <2>1. PICK c \in Call : c = call[w] /\ c.op = "start"
    BY <1>1, <1>6 DEF Start
  <2>2. PICK h \in Handle \cup {None} : h = handle[w]
    BY DEF CallsInv
  <2>3. /\ starts[c.request] = None
        /\ HasStatus(c.task, "PENDING") /\ LeaseValid(w)
        /\ DependenciesReady(c.task) /\ executions[<<c.task, 1>>] = None
        /\ StartPair(c.task, <<c.task, 1>>)
        /\ UpdatedAt(c.task, <<c.task, 1>>, c.age)
        /\ starts' = [starts EXCEPT ![c.request] =
             [task |-> c.task, owner |-> w, token |-> c.token]]
        /\ Answer(w, h)
        /\ UNCHANGED <<coordinator, leases, completions>>
    BY <1>6, <2>1, <2>2, Zenon DEF Start
  <2>4. Owns(c.task, w, c.token)
    BY <2>1, <2>3, Zenon DEF LeaseValid
  <2>5. StartBy(w, c, h)
    BY <1>2, <2>1, <2>2, <2>3, <2>4, Zenon DEF StartBy
  <2> QED
    BY <2>5
<1>7. ASSUME Complete(w)
      PROVE  \E c \in Call : CompleteBy(w, c)
  <2>1. PICK c \in Call : c = call[w] /\ c.op = "complete"
    BY <1>1, <1>7 DEF Complete
  <2>2. /\ completions[c.request] = None
        /\ HasStatus(c.task, "RUNNING") /\ tasks[c.task].current = c.exec
        /\ tasks[c.task].revision = 1 /\ c.exec[1] = c.task
        /\ IsExecution(c.exec, "RUNNING") /\ executions[c.exec].revision = 1
        /\ LeaseValid(w)
        /\ FinishPair(c.task, c.exec, c.final)
        /\ UpdatedAt(c.task, c.exec, c.age)
        /\ leases' = [leases EXCEPT ![c.task] = None]
        /\ completions' = [completions EXCEPT ![c.request] =
             [task |-> c.task, owner |-> w, token |-> c.token, exec |-> c.exec,
              final |-> c.final]]
        /\ Answer(w, None)
        /\ UNCHANGED <<coordinator, starts>>
    BY <1>7, <2>1, Zenon DEF Complete
  <2>3. Owns(c.task, w, c.token)
    BY <2>1, <2>2, Zenon DEF LeaseValid
  <2> QED
    BY <1>2, <2>1, <2>2, <2>3, Zenon DEF CompleteBy
<1> QED
  BY <1>3, <1>4, <1>5, <1>6, <1>7

-----------------------------------------------------------------------------
\* Every row is written as the next revision of what it was, with a time of
\* its own

TaskWrite(t, b) ==
  /\ TaskShape(b)
  /\ tasks' = [tasks EXCEPT ![t] = b]
  /\ \E age \in 0..Patience : taskSince' = [taskSince EXCEPT ![t] = age]
  /\ tasks[t] = None => b.status = "PENDING"
  /\ tasks[t] # None => TaskFollows(tasks[t], b)

ExecutionWrite(x, b) ==
  /\ ExecutionShape(b)
  /\ executions' = [executions EXCEPT ![x] = b]
  /\ \E age \in 0..Patience : executionSince' = [executionSince EXCEPT ![x] = age]
  /\ executions[x] # None => ExecutionFollows(executions[x], b)

RowsStep ==
  /\ \/ UNCHANGED tasks /\ (Tick \/ UNCHANGED taskSince)
     \/ \E t \in Tasks, b \in TaskRow : TaskWrite(t, b)
  /\ \/ UNCHANGED executions /\ (Tick \/ UNCHANGED executionSince)
     \/ \E x \in Executions, b \in ExecutionRow : ExecutionWrite(x, b)
  /\ coordinator' \in ExecutionStates

LEMMA StartWrites ==
  ASSUME RowsInv, CallsInv, NEW w \in Workers, NEW c \in Call, NEW h \in Handle \cup {None},
         StartBy(w, c, h)
  PROVE  RowsStep
<1>1. c.task \in Tasks /\ <<c.task, 1>> \in Executions
  BY Attempts DEF Call
<1>2. PICK a \in TaskRow : a = tasks[c.task]
  BY <1>1 DEF StartBy, HasStatus, RowsInv
<1>3. a.status = "PENDING" /\ a.revision = 0 /\ a.attempts = 0
  BY <1>1, <1>2, Attempts DEF StartBy, HasStatus, RowsInv, TaskShape
<1>4. PICK b : b = [a EXCEPT !.status = "RUNNING", !.revision = 1, !.reason = "code",
                             !.current = <<c.task, 1>>, !.attempts = 1]
  OBVIOUS
<1>5. /\ b \in TaskRow /\ b.status = "RUNNING" /\ b.revision = 1 /\ b.attempts = 1
      /\ b.current = <<c.task, 1>> /\ b.deps = a.deps
  <2>1. PICK x \in Executions : x = <<c.task, 1>>
    BY <1>1
  <2>2. /\ "RUNNING" \in TaskStates /\ "code" \in Reasons
        /\ 1 \in 0..(MaxAttempts + 1) /\ 1 \in 0..MaxAttempts
    BY Domains
  <2>3. b = [a EXCEPT !.status = "RUNNING", !.revision = 1, !.reason = "code",
                      !.current = x, !.attempts = 1]
    BY <1>4, <2>1
  <2> QED
    BY <2>1, <2>2, <2>3 DEF TaskRow
<1>6. TaskShape(b) /\ TaskFollows(a, b)
  BY <1>3, <1>5 DEF TaskShape, TaskFollows, LegalTaskEdges
<1>7. tasks' = [tasks EXCEPT ![c.task] = b]
  BY <1>2, <1>4 DEF StartBy, StartPair
<1>8. TaskWrite(c.task, b)
  BY <1>2, <1>6, <1>7, Attempts DEF TaskWrite, StartBy, UpdatedAt, Call
<1>9. PICK e : e = [status |-> "RUNNING", revision |-> 1, reason |-> "code"]
  OBVIOUS
<1>10. e \in ExecutionRow /\ ExecutionShape(e)
  BY <1>9 DEF ExecutionRow, ExecutionShape, ExecutionStates, TaskStates, Reasons
<1>11. ExecutionWrite(<<c.task, 1>>, e)
  BY <1>9, <1>10 DEF ExecutionWrite, StartBy, StartPair, UpdatedAt, Call
<1> QED
  BY <1>1, <1>5, <1>8, <1>10, <1>11 DEF RowsStep, StartBy, RowsInv

LEMMA CompleteWrites ==
  ASSUME RowsInv, CallsInv, NEW w \in Workers, NEW c \in Call, CompleteBy(w, c)
  PROVE  RowsStep /\ c.exec \in Executions /\ c.final \in {"SUCCEEDED", "FAILED"}
<1>1. c.task \in Tasks
  BY DEF Call
<1>2. c.exec \in Executions /\ c.final \in {"SUCCEEDED", "FAILED"}
  <2>1. c # None
    BY TableAssumption
  <2>2. CallFits(c, handle[w])
    BY <2>1 DEF CompleteBy, CallsInv
  <2> QED
    BY <2>2 DEF CallFits, CompleteBy, Call
<1>3. PICK a \in TaskRow : a = tasks[c.task]
  BY <1>1 DEF CompleteBy, HasStatus, RowsInv
<1>4. a.status = "RUNNING" /\ a.revision = 1 /\ a.attempts = 1
  BY <1>1, <1>3, Attempts DEF CompleteBy, HasStatus, RowsInv, TaskShape
<1>5. PICK b : b = [a EXCEPT !.status = c.final, !.revision = 2, !.reason = "code"]
  OBVIOUS
<1>6. /\ b \in TaskRow /\ b.status = c.final /\ b.revision = 2 /\ b.attempts = 1
      /\ b.current = a.current /\ b.deps = a.deps
  <2>1. c.final \in TaskStates /\ "code" \in Reasons /\ 2 \in 0..(MaxAttempts + 1)
    BY <1>2, Domains
  <2> QED
    BY <1>4, <1>5, <2>1 DEF TaskRow
<1>7. TaskShape(b) /\ TaskFollows(a, b)
  BY <1>2, <1>4, <1>6 DEF TaskShape, TaskFollows, LegalTaskEdges
<1>8. tasks' = [tasks EXCEPT ![c.task] = b]
  BY <1>3, <1>5 DEF CompleteBy, FinishPair
<1>9. TaskWrite(c.task, b)
  BY <1>3, <1>7, <1>8, Attempts DEF TaskWrite, CompleteBy, UpdatedAt, Call
<1>10. PICK e : e = [status |-> c.final, revision |-> 2, reason |-> "code"]
  OBVIOUS
<1>11. /\ e \in ExecutionRow /\ ExecutionShape(e)
       /\ e.status = c.final /\ e.revision = 2
  BY <1>2, <1>10 DEF ExecutionRow, ExecutionShape, ExecutionStates, TaskStates, Reasons
<1>12. ExecutionWrite(c.exec, e)
  <2>1. executions[c.exec].status = "RUNNING" /\ executions[c.exec].revision = 1
    BY DEF CompleteBy, IsExecution
  <2>2. ExecutionFollows(executions[c.exec], e)
    BY <1>2, <1>11, <2>1 DEF ExecutionFollows, LegalExecutionEdges
  <2>3. executions' = [executions EXCEPT ![c.exec] = e]
    BY <1>10 DEF CompleteBy, FinishPair
  <2> QED
    BY <1>11, <2>2, <2>3 DEF ExecutionWrite, CompleteBy, UpdatedAt, Call
<1> QED
  BY <1>1, <1>2, <1>6, <1>9, <1>11, <1>12 DEF RowsStep, CompleteBy, RowsInv

LEMMA RowsSteps ==
  ASSUME RowsInv, CallsInv, [Next]_vars
  PROVE  RowsStep
<1>0. 0 \in 0..Patience
  BY TableAssumption
<1>1. CASE UNCHANGED rows /\ (Tick \/ UNCHANGED since)
  BY <1>1 DEF rows, since, RowsStep, RowsInv
<1>2. ASSUME NEW t \in Tasks, NEW deps \in SUBSET Tasks, tasks[t] = None,
             tasks' = [tasks EXCEPT ![t] = PendingTask(deps)],
             taskSince' = [taskSince EXCEPT ![t] = 0]
      PROVE  \E b \in TaskRow : TaskWrite(t, b)
  <2>1. PICK b \in TaskRow : b = PendingTask(deps)
    BY NewTaskRow
  <2>2. TaskWrite(t, b)
    BY <1>0, <1>2, <2>1, NewTaskRow DEF TaskWrite
  <2> QED
    BY <2>2
<1>3. ASSUME NEW t \in Tasks, NEW deps \in SUBSET Tasks, Dispatch(t, deps)
      PROVE  RowsStep
  <2>1. \E b \in TaskRow : TaskWrite(t, b)
    BY <1>2, <1>3 DEF Dispatch
  <2> QED
    BY <1>3, <2>1 DEF Dispatch, RowsStep, ExecutionStates, TaskStates
<1>4. ASSUME NEW t \in Tasks, NEW deps \in SUBSET Tasks, CreateTask(t, deps)
      PROVE  RowsStep
  <2>1. \E b \in TaskRow : TaskWrite(t, b)
    BY <1>2, <1>4 DEF CreateTask
  <2> QED
    BY <1>4, <2>1 DEF CreateTask, RowsStep, RowsInv
<1>5. ASSUME NEW t \in Tasks, NEW to \in TaskStates, NEW x \in Executions \cup {None},
             TransitionTask(t, to, x)
      PROVE  RowsStep
  <2>1. PICK a \in TaskRow : a = tasks[t]
    BY <1>5 DEF TransitionTask, RowsInv
  <2>2. tasks[t] # None /\ TaskShape(tasks[t])
    BY <1>5 DEF TransitionTask, RowsInv
  <2>3. /\ Planned(t, to, x) \in TaskRow /\ TaskShape(Planned(t, to, x))
        /\ TaskFollows(tasks[t], Planned(t, to, x))
    BY <1>5, <2>1, <2>2, PlannedRow DEF TransitionTask
  <2>4. PICK b \in TaskRow : b = Planned(t, to, x)
    BY <2>3
  <2>5. TaskWrite(t, b)
    BY <1>0, <1>5, <2>2, <2>3, <2>4 DEF TransitionTask, TaskWrite
  <2> QED
    BY <1>5, <2>5 DEF TransitionTask, RowsStep, RowsInv
<1>6. ASSUME NEW x \in Executions, CreateExecution(x)
      PROVE  RowsStep
  <2>1. PICK e : e = [status |-> "PENDING", revision |-> 0, reason |-> "none"]
    OBVIOUS
  <2>2. e \in ExecutionRow /\ ExecutionShape(e)
    BY <2>1 DEF ExecutionRow, ExecutionShape, ExecutionStates, TaskStates, Reasons
  <2>3. ExecutionWrite(x, e)
    BY <1>0, <1>6, <2>1, <2>2 DEF CreateExecution, ExecutionWrite
  <2> QED
    BY <1>6, <2>2, <2>3 DEF CreateExecution, RowsStep, RowsInv
<1>7. ASSUME NEW x \in Executions, NEW to \in ExecutionStates, TransitionExecution(x, to)
      PROVE  RowsStep
  <2>1. PICK a \in ExecutionRow : a = executions[x]
    BY <1>7 DEF TransitionExecution, RowsInv
  <2>2. /\ to \in ExecutionLegal[a.status] /\ a.status \in ExecutionStates
        /\ a.status = "PENDING" => a.revision = 0
        /\ a.status = "RUNNING" => a.revision = 1
    BY <1>7, <2>1 DEF TransitionExecution, RowsInv, ExecutionShape, ExecutionRow
  <2>3. /\ a.status \in {"PENDING", "RUNNING"} /\ <<a.status, to>> \in LegalExecutionEdges
        /\ a.revision \in {0, 1} /\ to # "PENDING"
        /\ to = "RUNNING" => a.revision = 0
    BY <2>2 DEF ExecutionLegal, ExecutionStates, TaskStates, LegalExecutionEdges
  <2>4. PICK e : e = [a EXCEPT !.status = to, !.revision = a.revision + 1, !.reason = "full"]
    OBVIOUS
  <2>5. /\ e \in ExecutionRow /\ e.status = to /\ e.revision = a.revision + 1
    <3>1. "full" \in Reasons /\ a.revision + 1 \in 0..2
      BY <2>3, Domains
    <3> QED
      BY <2>4, <3>1 DEF ExecutionRow
  <2>6. ExecutionShape(e) /\ ExecutionFollows(a, e)
    BY <2>3, <2>5 DEF ExecutionShape, ExecutionFollows
  <2>7. executions' = [executions EXCEPT ![x] = e]
    BY <1>7, <2>1, <2>4 DEF TransitionExecution
  <2>8. ExecutionWrite(x, e)
    BY <1>0, <1>7, <2>1, <2>6, <2>7 DEF ExecutionWrite, TransitionExecution
  <2> QED
    BY <1>7, <2>5, <2>8 DEF TransitionExecution, RowsStep, RowsInv
<1>8. ASSUME NEW to \in ExecutionStates, TransitionCoordinator(to)
      PROVE  RowsStep
  BY <1>8 DEF TransitionCoordinator, RowsStep, since
<1>9. ASSUME NEW w \in Workers, WorkerStep(w)
      PROVE  RowsStep
  <2>1. CASE Claim(w) \/ Renew(w) \/ Release(w)
    <3>1. UNCHANGED rows /\ UNCHANGED since
      BY <2>1, Zenon DEF Claim, Renew, Release
    <3> QED
      BY <1>1, <3>1
  <2>2. CASE CallLease(w) \/ CallExecution(w) \/ Refused(w) \/ GiveUp(w) \/ Crash(w)
    <3>1. UNCHANGED rows /\ UNCHANGED since
      BY <2>2, Zenon DEF CallLease, CallExecution, Refused, GiveUp, Crash, tableVars
    <3> QED
      BY <1>1, <3>1
  <2>3. CASE Start(w)
    BY <2>3, Transactions, StartWrites
  <2>4. CASE Complete(w)
    BY <2>4, Transactions, CompleteWrites
  <2> QED
    BY <1>9, <2>1, <2>2, <2>3, <2>4 DEF WorkerStep
<1>10. CASE Tick
  BY <1>1, <1>10 DEF Tick
<1>11. CASE UNCHANGED vars
  BY <1>1, <1>11 DEF vars, rows, since
<1> QED
  BY <1>3, <1>4, <1>5, <1>6, <1>7, <1>8, <1>9, <1>10, <1>11 DEF Next, LifecycleStep

LEMMA RowsKept ==
  ASSUME RowsInv, RowsStep
  PROVE  /\ RowsInv'
         /\ \A t \in Tasks :
              /\ tasks[t] # None =>
                   /\ tasks'[t] # None
                   /\ tasks'[t] = tasks[t] \/ TaskFollows(tasks[t], tasks'[t])
              /\ LeftPending(t) => LeftPending(t)'
              /\ Over(t) => Over(t)'
         /\ \A x \in Executions :
              executions[x] # None =>
                executions'[x] = executions[x] \/ ExecutionFollows(executions[x], executions'[x])
<1>1. ASSUME NEW s \in Tasks, NEW b \in TaskRow, TaskWrite(s, b)
      PROVE  /\ tasks' \in [Tasks -> TaskRow \cup {None}]
             /\ tasks'[s] = b /\ b # None
             /\ \A t \in Tasks : t # s => tasks'[t] = tasks[t]
  BY <1>1, Attempts DEF TaskWrite, RowsInv
<1>2. ASSUME NEW s \in Executions, NEW b \in ExecutionRow, ExecutionWrite(s, b)
      PROVE  /\ executions' \in [Executions -> ExecutionRow \cup {None}]
             /\ executions'[s] = b /\ b # None
             /\ \A x \in Executions : x # s => executions'[x] = executions[x]
  BY <1>2, Attempts DEF ExecutionWrite, RowsInv
<1>3. /\ tasks' \in [Tasks -> TaskRow \cup {None}]
      /\ \A t \in Tasks : tasks'[t] # None => TaskShape(tasks'[t])
      /\ \A t \in Tasks : tasks[t] # None =>
           /\ tasks'[t] # None
           /\ tasks'[t] = tasks[t] \/ TaskFollows(tasks[t], tasks'[t])
  <2>1. CASE UNCHANGED tasks
    BY <2>1 DEF RowsInv
  <2>2. ASSUME NEW s \in Tasks, NEW b \in TaskRow, TaskWrite(s, b)
        PROVE  <1>3!:
    BY <1>1, <2>2 DEF RowsInv, TaskWrite
  <2> QED
    BY <2>1, <2>2 DEF RowsStep
<1>4. /\ executions' \in [Executions -> ExecutionRow \cup {None}]
      /\ \A x \in Executions : executions'[x] # None => ExecutionShape(executions'[x])
      /\ \A x \in Executions : executions[x] # None =>
           executions'[x] = executions[x] \/ ExecutionFollows(executions[x], executions'[x])
  <2>1. CASE UNCHANGED executions
    BY <2>1 DEF RowsInv
  <2>2. ASSUME NEW s \in Executions, NEW b \in ExecutionRow, ExecutionWrite(s, b)
        PROVE  <1>4!:
    BY <1>2, <2>2 DEF RowsInv, ExecutionWrite
  <2> QED
    BY <2>1, <2>2 DEF RowsStep
<1>5. RowsInv'
  BY <1>3, <1>4 DEF RowsInv, RowsStep
<1>6. ASSUME NEW t \in Tasks, tasks[t] # None
      PROVE  /\ tasks[t].status # "PENDING" => tasks'[t].status # "PENDING"
             /\ tasks[t].status \in TaskTerminal => tasks'[t].status \in TaskTerminal
  <2>1. CASE tasks'[t] = tasks[t]
    BY <2>1
  <2>2. CASE TaskFollows(tasks[t], tasks'[t])
    BY <2>2 DEF TaskFollows, LegalTaskEdges, TaskTerminal, TaskStates
  <2> QED
    BY <1>3, <1>6, <2>1, <2>2
<1> QED
  BY <1>3, <1>4, <1>5, <1>6 DEF LeftPending, Over

-----------------------------------------------------------------------------
\* Calls and Leases

LEMMA ExpiryRange ==
  ASSUME NEW ttl \in 0..TTL, NEW age \in 0..Patience
  PROVE  /\ Expiry(ttl, age) \in (-Patience)..TTL
         /\ Patience \in Nat /\ TTL \in Nat \ {0}
BY TableAssumption DEF Expiry

\* What suffices for a step of one Worker.
LEMMA OneWorker ==
  ASSUME CallsInv, NEW w \in Workers,
         NEW c \in Call \cup {None}, NEW h \in Handle \cup {None},
         call' = [call EXCEPT ![w] = c], handle' = [handle EXCEPT ![w] = h],
         faults' \in 0..MaxFaults, c # None => CallFits(c, h)
  PROVE  CallsInv'
BY DEF CallsInv

LEMMA AnsweredCalls ==
  ASSUME CallsInv, NEW w \in Workers, NEW h \in Handle \cup {None}, Answered(w, h),
         faults' \in 0..MaxFaults
  PROVE  CallsInv'
<1>1. CASE handle' = [handle EXCEPT ![w] = h]
  BY <1>1, OneWorker DEF Answered
<1>2. CASE UNCHANGED handle
  <2>1. PICK g \in Handle \cup {None} : g = handle[w]
    BY DEF CallsInv
  <2>2. handle' = [handle EXCEPT ![w] = g]
    BY <1>2, <2>1 DEF CallsInv
  <2> QED
    BY <2>2, OneWorker DEF Answered
<1> QED
  BY <1>1, <1>2 DEF Answered

LEMMA FaultsStep ==
  ASSUME CallsInv, [Next]_vars
  PROVE  faults' \in 0..MaxFaults
<1>1. MaxFaults \in Nat
  BY TableAssumption
<1>2. UNCHANGED faults \/ Fault
  <2>1. ASSUME NEW w \in Workers, WorkerStep(w)
        PROVE  UNCHANGED faults \/ Fault
    BY <2>1, Zenon DEF WorkerStep, CallLease, Claim, Renew, Release, CallExecution, Start,
      Complete, Refused, GiveUp, Crash, Answer
  <2>2. CASE LifecycleStep
    BY <2>2, Zenon DEF LifecycleStep, CreateTask, TransitionTask, CreateExecution,
      TransitionExecution, TransitionCoordinator
  <2>3. CASE \E t \in Tasks, deps \in SUBSET Tasks : Dispatch(t, deps)
    BY <2>3, Zenon DEF Dispatch
  <2>4. CASE Tick
    BY <2>4 DEF Tick
  <2>5. CASE UNCHANGED vars
    BY <2>5 DEF vars
  <2> QED
    BY <2>1, <2>2, <2>3, <2>4, <2>5 DEF Next
<1> QED
  BY <1>1, <1>2 DEF Fault, CallsInv

LEMMA CallShape ==
  ASSUME NEW op \in {"claim", "renew", "release", "start", "complete"},
         NEW t \in Tasks, NEW k \in Tokens \cup {None}, NEW ttl \in 0..TTL,
         NEW r \in Requests \cup {None}, NEW x \in Executions \cup {None},
         NEW f \in {"SUCCEEDED", "FAILED", None}
  PROVE  /\ [op |-> op, task |-> t, token |-> k, request |-> r, exec |-> x,
             final |-> f, ttl |-> ttl, age |-> 0] \in Call
         /\ 0 \in 0..TTL /\ Expiry(ttl, 0) = ttl
BY TableAssumption DEF Call, Expiry

LEMMA CallLeaseStep ==
  ASSUME CallsInv, NEW w \in Workers, CallLease(w)
  PROVE  CallsInv'
<1>1. PICK h \in Handle \cup {None} : h = handle[w]
  BY DEF CallsInv
<1>2. UNCHANGED faults /\ faults' \in 0..MaxFaults
  BY DEF CallLease, CallsInv
<1>3. ASSUME h = None, NEW t \in Tasks, NEW ttl \in 1..TTL,
             Calls(w, LeaseCall("claim", t, None, ttl)), UNCHANGED handle
      PROVE  CallsInv'
  <2>1. PICK c : c = LeaseCall("claim", t, None, ttl)
    OBVIOUS
  <2>2. c \in Call /\ c.op = "claim" /\ c.ttl > 0
    <3>1. ttl \in 0..TTL /\ ttl > 0
      BY TableAssumption
    <3> QED
      BY <2>1, <3>1, CallShape DEF LeaseCall
  <2>3. CallFits(c, h)
    BY <1>3, <2>2 DEF CallFits
  <2>4. call' = [call EXCEPT ![w] = c] /\ handle' = [handle EXCEPT ![w] = h]
    BY <1>1, <1>3, <2>1 DEF Calls, CallsInv
  <2> QED
    BY <1>2, <2>2, <2>3, <2>4, OneWorker
<1>4. ASSUME h # None, NEW ttl \in 1..TTL,
             Calls(w, LeaseCall("renew", h.task, h.token, ttl)),
             handle' = [handle EXCEPT ![w].left = IF ttl < @ THEN ttl ELSE @]
      PROVE  CallsInv'
  <2>1. h \in Handle /\ h.task \in Tasks /\ h.token \in Tokens
        /\ h.left \in (-Patience)..TTL
    BY <1>4 DEF Handle
  <2>2. PICK c : c = LeaseCall("renew", h.task, h.token, ttl)
    OBVIOUS
  <2>3. PICK g : g = [h EXCEPT !.left = IF ttl < h.left THEN ttl ELSE h.left]
    OBVIOUS
  <2>4. ttl \in 0..TTL /\ ttl \in (-Patience)..TTL
    BY TableAssumption
  <2>5. /\ g \in Handle /\ g # None /\ g.left <= ttl
        /\ g.task = h.task /\ g.token = h.token
    <3>1. (IF ttl < h.left THEN ttl ELSE h.left) \in (-Patience)..TTL
          /\ (IF ttl < h.left THEN ttl ELSE h.left) <= ttl
      BY <2>1, <2>4, TableAssumption
    <3>2. g \in Handle /\ g.left <= ttl /\ g.task = h.task /\ g.token = h.token
      BY <2>1, <2>3, <3>1 DEF Handle
    <3> QED
      BY <3>2, TableAssumption
  <2>6. /\ c \in Call /\ c.op = "renew" /\ c.task = h.task /\ c.token = h.token
        /\ Expiry(c.ttl, c.age) = ttl
    BY <2>1, <2>2, <2>4, CallShape DEF LeaseCall
  <2>7. CallFits(c, g)
    BY <2>5, <2>6 DEF CallFits
  <2>8. call' = [call EXCEPT ![w] = c] /\ handle' = [handle EXCEPT ![w] = g]
    BY <1>1, <1>4, <2>2, <2>3 DEF Calls, CallsInv
  <2> QED
    BY <1>2, <2>5, <2>6, <2>7, <2>8, OneWorker
<1>5. ASSUME h # None, Calls(w, LeaseCall("release", h.task, h.token, 0)),
             handle' = [handle EXCEPT ![w] = None]
      PROVE  CallsInv'
  <2>1. h.task \in Tasks /\ h.token \in Tokens
    BY <1>5 DEF Handle
  <2>2. PICK c : c = LeaseCall("release", h.task, h.token, 0)
    OBVIOUS
  <2>3. 0 \in 0..TTL
    BY TableAssumption
  <2>4. c \in Call /\ c.op = "release"
    BY <2>1, <2>2, <2>3, CallShape DEF LeaseCall
  <2>5. CallFits(c, None)
    BY <2>4 DEF CallFits
  <2> QED
    BY <1>2, <1>5, <2>2, <2>4, <2>5, OneWorker DEF Calls
<1> QED
  BY <1>1, <1>3, <1>4, <1>5 DEF CallLease

LEMMA CallExecutionStep ==
  ASSUME CallsInv, NEW w \in Workers, CallExecution(w)
  PROVE  CallsInv'
<1>1. PICK h \in Handle : h = handle[w]
  BY DEF CallsInv, CallExecution
<1>2. h.task \in Tasks /\ h.token \in Tokens /\ h # None
  BY TableAssumption DEF Handle
<1>3. UNCHANGED handle /\ faults' \in 0..MaxFaults
  BY DEF CallExecution, CallsInv
<1>4. handle' = [handle EXCEPT ![w] = h]
  BY <1>1, <1>3 DEF CallsInv
<1>5. 0 \in 0..TTL
  BY TableAssumption
<1>6. ASSUME NEW r \in Requests,
             Calls(w, [LeaseCall("start", h.task, h.token, 0) EXCEPT !.request = r])
      PROVE  CallsInv'
  <2>1. PICK c : c = [op |-> "start", task |-> h.task, token |-> h.token, request |-> r,
                      exec |-> None, final |-> None, ttl |-> 0, age |-> 0]
    OBVIOUS
  <2>2. c = [LeaseCall("start", h.task, h.token, 0) EXCEPT !.request = r]
    BY <2>1 DEF LeaseCall
  <2>3. c \in Call
    BY <1>2, <1>5, <2>1, CallShape
  <2>4. CallFits(c, h)
    BY <1>2, <2>1 DEF CallFits
  <2> QED
    BY <1>3, <1>4, <1>6, <2>2, <2>3, <2>4, OneWorker DEF Calls
<1>7. ASSUME NEW r \in Requests, NEW x \in Executions, NEW f \in {"SUCCEEDED", "FAILED"},
             Calls(w, [LeaseCall("complete", h.task, h.token, 0)
                         EXCEPT !.request = r, !.exec = x, !.final = f])
      PROVE  CallsInv'
  <2>1. PICK base : base = LeaseCall("complete", h.task, h.token, 0)
    OBVIOUS
  <2>2. PICK c : c = [base EXCEPT !.request = r, !.exec = x, !.final = f]
    OBVIOUS
  <2>3. base \in Call /\ base.op = "complete" /\ base.task = h.task
    BY <1>2, <1>5, <2>1, CallShape DEF LeaseCall
  <2>4. c \in Call /\ c.op = "complete" /\ c.request = r /\ c.exec = x /\ c.final = f
        /\ c.task = h.task
    BY <2>2, <2>3 DEF Call
  <2>5. f # None
    BY Domains, TableAssumption
  <2>6. CallFits(c, h)
    BY <1>2, <2>4, <2>5 DEF CallFits
  <2>7. call' = [call EXCEPT ![w] = c]
    BY <1>7, <2>1, <2>2 DEF Calls
  <2> QED
    BY <1>3, <1>4, <2>4, <2>6, <2>7, OneWorker
<1> QED
  BY <1>1, <1>6, <1>7 DEF CallExecution

LEMMA EarlierRange ==
  ASSUME NEW a \in (-Patience)..TTL
  PROVE  /\ Earlier(a) \in (-Patience)..TTL
         /\ Earlier(a) > 0 => a > 0
         /\ \A b \in (-Patience)..TTL : a <= b => Earlier(a) <= Earlier(b)
         /\ a <= 0 => Earlier(a) <= 0
         /\ \A ttl \in 0..TTL, age \in 0..Patience :
              a <= Expiry(ttl, age) => Earlier(a) <= Expiry(ttl, age + 1)
BY TableAssumption DEF Earlier, Expiry

\* Time passes for every lease row, Lease and call at once.
LEMMA TickFacts ==
  ASSUME CallsInv, RecordsInv, Tick
  PROVE  /\ leases' \in [Tasks -> LeaseRow \cup {None}]
         /\ handle' \in [Workers -> Handle \cup {None}]
         /\ call' \in [Workers -> Call \cup {None}]
         /\ \A t \in Tasks :
              /\ leases[t] = None => leases'[t] = None
              /\ leases[t] # None =>
                   /\ leases'[t] # None /\ leases'[t].left = Earlier(leases[t].left)
                   /\ leases'[t].owner = leases[t].owner
                   /\ leases'[t].token = leases[t].token
         /\ \A w \in Workers :
              /\ handle[w] = None => handle'[w] = None
              /\ handle[w] # None =>
                   /\ handle'[w] # None /\ handle'[w].left = Earlier(handle[w].left)
                   /\ handle'[w].task = handle[w].task
                   /\ handle'[w].token = handle[w].token
         /\ \A w \in Workers :
              /\ call[w] = None => call'[w] = None
              /\ call[w] # None => call'[w] = [call[w] EXCEPT !.age = call[w].age + 1]
<1>1. ASSUME NEW t \in Tasks, leases[t] # None
      PROVE  /\ leases'[t] \in LeaseRow /\ leases'[t] # None
             /\ leases'[t].left = Earlier(leases[t].left)
             /\ leases'[t].owner = leases[t].owner /\ leases'[t].token = leases[t].token
  <2>1. PICK a \in LeaseRow : a = leases[t]
    BY <1>1 DEF RecordsInv
  <2>2. PICK b : b = [a EXCEPT !.left = Earlier(a.left)]
    OBVIOUS
  <2>3. Earlier(a.left) \in (-Patience)..TTL
    BY EarlierRange DEF LeaseRow
  <2>4. /\ b \in LeaseRow /\ b.left = Earlier(a.left)
        /\ b.owner = a.owner /\ b.token = a.token
    BY <2>2, <2>3 DEF LeaseRow
  <2>5. leases'[t] = b
    BY <1>1, <2>1, <2>2 DEF Tick
  <2>6. b # None
    BY <2>4, TableAssumption
  <2> QED
    BY <2>1, <2>4, <2>5, <2>6
<1>2. ASSUME NEW w \in Workers, handle[w] # None
      PROVE  /\ handle'[w] \in Handle /\ handle'[w] # None
             /\ handle'[w].left = Earlier(handle[w].left)
             /\ handle'[w].task = handle[w].task /\ handle'[w].token = handle[w].token
  <2>1. PICK a \in Handle : a = handle[w]
    BY <1>2 DEF CallsInv
  <2>2. PICK b : b = [a EXCEPT !.left = Earlier(a.left)]
    OBVIOUS
  <2>3. Earlier(a.left) \in (-Patience)..TTL
    BY EarlierRange DEF Handle
  <2>4. /\ b \in Handle /\ b.left = Earlier(a.left)
        /\ b.task = a.task /\ b.token = a.token
    BY <2>2, <2>3 DEF Handle
  <2>5. handle'[w] = b
    BY <1>2, <2>1, <2>2 DEF Tick
  <2>6. b # None
    BY <2>4, TableAssumption
  <2> QED
    BY <2>1, <2>4, <2>5, <2>6
<1>3. ASSUME NEW w \in Workers, call[w] # None
      PROVE  call'[w] \in Call /\ call'[w] = [call[w] EXCEPT !.age = call[w].age + 1]
  <2>1. PICK a \in Call : a = call[w]
    BY <1>3 DEF CallsInv
  <2>2. PICK b : b = [a EXCEPT !.age = a.age + 1]
    OBVIOUS
  <2>3. a.age \in 0..Patience /\ a.age < Patience
    BY <1>3, <2>1 DEF Tick, Call
  <2>4. a.age + 1 \in 0..Patience
    BY <2>3, TableAssumption
  <2>5. b \in Call
    BY <2>2, <2>4 DEF Call
  <2>6. call'[w] = b
    BY <1>3, <2>1, <2>2 DEF Tick
  <2> QED
    BY <2>1, <2>2, <2>5, <2>6
<1>4. /\ leases' \in [Tasks -> LeaseRow \cup {None}]
      /\ \A t \in Tasks : leases[t] = None => leases'[t] = None
  BY <1>1 DEF Tick
<1>5. /\ handle' \in [Workers -> Handle \cup {None}]
      /\ \A w \in Workers : handle[w] = None => handle'[w] = None
  BY <1>2 DEF Tick
<1>6. /\ call' \in [Workers -> Call \cup {None}]
      /\ \A w \in Workers : call[w] = None => call'[w] = None
  BY <1>3 DEF Tick
<1> QED
  BY <1>1, <1>2, <1>3, <1>4, <1>5, <1>6

LEMMA TickCalls ==
  ASSUME CallsInv, RecordsInv, Tick
  PROVE  CallsInv'
<1>1. ASSUME NEW w \in Workers, call'[w] # None
      PROVE  CallFits(call'[w], handle'[w])
  <2>1. call[w] # None
    BY <1>1, TickFacts
  <2>2. PICK a \in Call : a = call[w]
    BY <2>1 DEF CallsInv
  <2>3. PICK b : b = [a EXCEPT !.age = a.age + 1]
    OBVIOUS
  <2>4. /\ b.op = a.op /\ b.task = a.task /\ b.token = a.token /\ b.request = a.request
        /\ b.exec = a.exec /\ b.final = a.final /\ b.ttl = a.ttl /\ b.age = a.age + 1
        /\ a.ttl \in 0..TTL /\ a.age \in 0..Patience
    BY <2>3 DEF Call
  <2>5. call'[w] = b
    BY <2>1, <2>2, <2>3, TickFacts
  <2>6. PICK h \in Handle \cup {None} : h = handle[w]
    BY DEF CallsInv
  <2>7. CallFits(a, h)
    BY <2>1, <2>2, <2>6 DEF CallsInv
  <2>8. CASE h = None
    <3>1. handle'[w] = None
      BY <2>6, <2>8, TickFacts
    <3> QED
      BY <2>4, <2>5, <2>7, <2>8, <3>1 DEF CallFits
  <2>9. CASE h # None
    <3>1. PICK g : g = handle'[w]
      OBVIOUS
    <3>2. g # None /\ g.left = Earlier(h.left) /\ g.task = h.task /\ g.token = h.token
      BY <2>6, <2>9, <3>1, TickFacts
    <3>3. h.left \in (-Patience)..TTL
      BY <2>9 DEF Handle
    <3>4. h.left <= Expiry(a.ttl, a.age) => g.left <= Expiry(b.ttl, b.age)
      BY <2>4, <3>2, <3>3, EarlierRange
    <3> QED
      BY <2>4, <2>5, <2>7, <2>9, <3>1, <3>2, <3>4 DEF CallFits
  <2> QED
    BY <2>8, <2>9
<1>2. UNCHANGED faults
  BY DEF Tick
<1> QED
  BY <1>1, <1>2, TickFacts DEF CallsInv

LEMMA CallsSteps ==
  ASSUME CallsInv, RecordsInv, [Next]_vars
  PROVE  CallsInv'
<1>1. faults' \in 0..MaxFaults
  BY FaultsStep
<1>2. CASE UNCHANGED <<handle, call>>
  BY <1>1, <1>2 DEF CallsInv
<1>3. ASSUME NEW w \in Workers, WorkerStep(w)
      PROVE  CallsInv'
  <2>1. None \in Handle \cup {None}
    OBVIOUS
  <2>2. CASE Claim(w)
    <3>1. PICK c \in Call, k \in Tokens : ClaimBy(w, c, k)
      BY <2>2, Transactions
    <3>2. Expiry(c.ttl, c.age) \in (-Patience)..TTL /\ c.task \in Tasks
      BY ExpiryRange DEF Call
    <3>3. [task |-> c.task, token |-> k, left |-> Expiry(c.ttl, c.age)] \in Handle
      BY <3>2 DEF Handle
    <3> QED
      BY <1>1, <3>1, <3>3, AnsweredCalls DEF ClaimBy
  <2>3. CASE Renew(w)
    <3>1. PICK c \in Call : RenewBy(w, c)
      BY <2>3, Transactions
    <3>2. Expiry(c.ttl, c.age) \in (-Patience)..TTL /\ c.task \in Tasks
      BY ExpiryRange DEF Call
    <3>3. c.token \in Tokens
      BY <3>1, <3>2 DEF RenewBy, Owns, RecordsInv, LeaseRow
    <3>4. [task |-> c.task, token |-> c.token, left |-> Expiry(c.ttl, c.age)] \in Handle
      BY <3>2, <3>3 DEF Handle
    <3> QED
      BY <1>1, <3>1, <3>4, AnsweredCalls DEF RenewBy
  <2>4. CASE Release(w) \/ Complete(w)
    <3>1. Answered(w, None)
      BY <2>4, Transactions DEF ReleaseBy, CompleteBy
    <3> QED
      BY <1>1, <2>1, <3>1, AnsweredCalls
  <2>5. CASE Start(w)
    <3>1. PICK c \in Call, h \in Handle \cup {None} : StartBy(w, c, h)
      BY <2>5, Transactions
    <3> QED
      BY <1>1, <3>1, AnsweredCalls DEF StartBy
  <2>6. CASE Refused(w)
    <3>1. PICK h \in Handle \cup {None} : h = handle[w]
      BY DEF CallsInv
    <3>2. call' = [call EXCEPT ![w] = None] /\ handle' = [handle EXCEPT ![w] = h]
      BY <2>6, <3>1 DEF Refused, CallsInv
    <3> QED
      BY <1>1, <3>2, OneWorker
  <2>7. CASE GiveUp(w)
    <3>1. call' = [call EXCEPT ![w] = None] /\ handle' = [handle EXCEPT ![w] = None]
      BY <2>7 DEF GiveUp, CallsInv
    <3> QED
      BY <1>1, <3>1, OneWorker
  <2>8. CASE Crash(w)
    <3>1. call' = [call EXCEPT ![w] = None] /\ handle' = [handle EXCEPT ![w] = None]
      BY <2>8 DEF Crash
    <3> QED
      BY <1>1, <3>1, OneWorker
  <2> QED
    BY <1>3, <2>2, <2>3, <2>4, <2>5, <2>6, <2>7, <2>8, CallLeaseStep, CallExecutionStep
       DEF WorkerStep
<1>4. CASE LifecycleStep
  <2>1. UNCHANGED <<handle, call>>
    BY <1>4, Zenon DEF LifecycleStep, CreateTask, TransitionTask, CreateExecution,
      TransitionExecution, TransitionCoordinator
  <2> QED
    BY <1>2, <2>1
<1>5. CASE \E t \in Tasks, deps \in SUBSET Tasks : Dispatch(t, deps)
  BY <1>2, <1>5 DEF Dispatch
<1>6. CASE Tick
  BY <1>6, TickCalls
<1>7. CASE UNCHANGED vars
  BY <1>2, <1>7 DEF vars
<1> QED
  BY <1>3, <1>4, <1>5, <1>6, <1>7 DEF Next

-----------------------------------------------------------------------------
\* What a step does to lease rows, receipts and Leases

\* Workers keep, shorten or drop the Leases they have.
Shrinks ==
  \A v \in Workers : handle'[v] # None =>
    /\ handle[v] # None /\ handle'[v].left <= handle[v].left
    /\ handle'[v].task = handle[v].task /\ handle'[v].token = handle[v].token

Transaction ==
  \/ \E w \in Workers, c \in Call, k \in Tokens : ClaimBy(w, c, k)
  \/ \E w \in Workers, c \in Call : RenewBy(w, c) \/ ReleaseBy(w, c) \/ CompleteBy(w, c)
  \/ \E w \in Workers, c \in Call, h \in Handle \cup {None} : StartBy(w, c, h)

LEMMA SameHandle ==
  ASSUME CallsInv, NEW w \in Workers, NEW h \in Handle \cup {None}, h = handle[w],
         Answered(w, h)
  PROVE  UNCHANGED handle
BY DEF Answered, CallsInv

LEMMA KeepingShrinks ==
  ASSUME CallsInv, UNCHANGED handle
  PROVE  Shrinks
<1>1. \A v \in Workers : handle[v] # None => handle[v].left \in (-Patience)..TTL
  BY DEF CallsInv, Handle
<1>2. \A v \in Workers : handle[v] # None => handle[v].left <= handle[v].left
  BY <1>1, TableAssumption
<1> QED
  BY <1>2 DEF Shrinks

LEMMA DroppingShrinks ==
  ASSUME CallsInv, NEW w \in Workers, handle' = [handle EXCEPT ![w] = None]
  PROVE  Shrinks
<1>1. \A v \in Workers : handle[v] # None => handle[v].left \in (-Patience)..TTL
  BY DEF CallsInv, Handle
<1>2. \A v \in Workers : handle[v] # None => handle[v].left <= handle[v].left
  BY <1>1, TableAssumption
<1> QED
  BY <1>2 DEF Shrinks, CallsInv

LEMMA StepCases ==
  ASSUME CallsInv, [Next]_vars
  PROVE  \/ Tick
         \/ Transaction
         \/ UNCHANGED <<leases, receipts>> /\ Shrinks
<1>1. CASE UNCHANGED <<leases, receipts>> /\ UNCHANGED handle
  BY <1>1, KeepingShrinks
<1>2. ASSUME NEW w \in Workers, WorkerStep(w)
      PROVE  Transaction \/ (UNCHANGED <<leases, receipts>> /\ Shrinks)
  <2>1. CASE Claim(w) \/ Renew(w) \/ Release(w) \/ Start(w) \/ Complete(w)
    BY <2>1, Transactions DEF Transaction
  <2>2. CASE CallLease(w)
    <3>1. UNCHANGED <<leases, receipts>>
      BY <2>2 DEF CallLease, tableVars, receipts
    <3>2. CASE UNCHANGED handle
      BY <3>1, <3>2, KeepingShrinks
    <3>3. CASE handle' = [handle EXCEPT ![w] = None]
      BY <3>1, <3>3, DroppingShrinks
    <3>4. ASSUME handle[w] # None, NEW ttl \in 1..TTL,
                 handle' = [handle EXCEPT ![w].left = IF ttl < @ THEN ttl ELSE @]
          PROVE  Shrinks
      <4>1. PICK h \in Handle : h = handle[w]
        BY <3>4 DEF CallsInv
      <4>2. PICK g : g = [h EXCEPT !.left = IF ttl < h.left THEN ttl ELSE h.left]
        OBVIOUS
      <4>3. g.task = h.task /\ g.token = h.token
            /\ g.left = IF ttl < h.left THEN ttl ELSE h.left
        BY <4>2 DEF Handle
      <4>4. g.left <= h.left
        <5>1. h.left \in Int /\ ttl \in Int
          BY TableAssumption DEF Handle
        <5> QED
          BY <4>3, <5>1
      <4>5. handle' = [handle EXCEPT ![w] = g]
        BY <3>4, <4>1, <4>2
      <4>6. \A v \in Workers : handle[v] # None => handle[v].left <= handle[v].left
        BY TableAssumption DEF CallsInv, Handle
      <4> QED
        BY <3>4, <4>1, <4>3, <4>4, <4>5, <4>6 DEF Shrinks, CallsInv
    <3> QED
      BY <2>2, <3>1, <3>2, <3>3, <3>4 DEF CallLease
  <2>3. CASE CallExecution(w) \/ Refused(w)
    <3>1. UNCHANGED <<leases, receipts>> /\ UNCHANGED handle
      <4>1. UNCHANGED tableVars /\ UNCHANGED handle
        BY <2>3, Zenon DEF CallExecution, Refused
      <4>2. UNCHANGED <<leases, receipts>>
        BY <4>1, Zenon DEF tableVars
      <4> QED
        BY <4>1, <4>2
    <3> QED
      BY <3>1, KeepingShrinks
  <2>4. CASE GiveUp(w) \/ Crash(w)
    <3>1. UNCHANGED <<leases, receipts>> /\ handle' = [handle EXCEPT ![w] = None]
      BY <2>4 DEF GiveUp, Crash, tableVars, receipts
    <3> QED
      BY <3>1, DroppingShrinks
  <2> QED
    BY <1>2, <2>1, <2>2, <2>3, <2>4 DEF WorkerStep
<1>3. CASE LifecycleStep
  <2>1. UNCHANGED <<leases, receipts>> /\ UNCHANGED handle
    BY <1>3, Zenon DEF LifecycleStep, CreateTask, TransitionTask, CreateExecution,
      TransitionExecution, TransitionCoordinator
  <2> QED
    BY <1>1, <2>1
<1>4. CASE \E t \in Tasks, deps \in SUBSET Tasks : Dispatch(t, deps)
  BY <1>1, <1>4 DEF Dispatch
<1>5. CASE UNCHANGED vars
  BY <1>1, <1>5 DEF vars, receipts
<1> QED
  BY <1>2, <1>3, <1>4, <1>5 DEF Next

\* A claim, a renewal, a release and a completion write one lease row.
LEMMA LeaseWrites ==
  ASSUME CallsInv, RecordsInv, NEW w \in Workers, NEW c \in Call
  PROVE  /\ c.task \in Tasks
         /\ \A k \in Tokens : ClaimBy(w, c, k) =>
              /\ leases' \in [Tasks -> LeaseRow \cup {None}]
              /\ leases'[c.task] # None /\ leases'[c.task].owner = w
              /\ leases'[c.task].token = k /\ leases'[c.task].left = Expiry(c.ttl, c.age)
              /\ \A t \in Tasks : t # c.task => leases'[t] = leases[t]
         /\ RenewBy(w, c) =>
              /\ leases' \in [Tasks -> LeaseRow \cup {None}]
              /\ leases'[c.task] # None /\ leases'[c.task].owner = w
              /\ leases'[c.task].token = c.token
              /\ leases'[c.task].left = Expiry(c.ttl, c.age)
              /\ \A t \in Tasks : t # c.task => leases'[t] = leases[t]
         /\ ReleaseBy(w, c) \/ CompleteBy(w, c) =>
              /\ leases' \in [Tasks -> LeaseRow \cup {None}]
              /\ leases'[c.task] = None
              /\ \A t \in Tasks : t # c.task => leases'[t] = leases[t]
<1>1. c.task \in Tasks /\ Expiry(c.ttl, c.age) \in (-Patience)..TTL
  BY ExpiryRange DEF Call
<1>2. ASSUME NEW k \in Tokens, ClaimBy(w, c, k)
      PROVE  /\ leases' \in [Tasks -> LeaseRow \cup {None}]
             /\ leases'[c.task] # None /\ leases'[c.task].owner = w
             /\ leases'[c.task].token = k /\ leases'[c.task].left = Expiry(c.ttl, c.age)
             /\ \A t \in Tasks : t # c.task => leases'[t] = leases[t]
  <2>1. PICK row : row = [owner |-> w, token |-> k, left |-> Expiry(c.ttl, c.age)]
    OBVIOUS
  <2>2. row \in LeaseRow /\ row # None
    BY <1>1, <2>1, TableAssumption DEF LeaseRow
  <2>3. leases' = [leases EXCEPT ![c.task] = row]
    BY <1>2, <2>1 DEF ClaimBy
  <2> QED
    BY <1>1, <2>1, <2>2, <2>3 DEF RecordsInv
<1>3. ASSUME RenewBy(w, c)
      PROVE  /\ leases' \in [Tasks -> LeaseRow \cup {None}]
             /\ leases'[c.task] # None /\ leases'[c.task].owner = w
             /\ leases'[c.task].token = c.token
             /\ leases'[c.task].left = Expiry(c.ttl, c.age)
             /\ \A t \in Tasks : t # c.task => leases'[t] = leases[t]
  <2>1. PICK old \in LeaseRow : old = leases[c.task]
    BY <1>1, <1>3 DEF RenewBy, Owns, RecordsInv
  <2>2. old.owner = w /\ old.token = c.token
    BY <1>3, <2>1 DEF RenewBy, Owns
  <2>3. PICK row : row = [old EXCEPT !.left = Expiry(c.ttl, c.age)]
    OBVIOUS
  <2>4. /\ row \in LeaseRow /\ row.owner = w /\ row.token = c.token
        /\ row.left = Expiry(c.ttl, c.age)
    BY <1>1, <2>2, <2>3 DEF LeaseRow
  <2>5. row # None
    BY <2>4, TableAssumption
  <2>6. leases' = [leases EXCEPT ![c.task] = row]
    BY <1>3, <2>1, <2>3 DEF RenewBy
  <2> QED
    BY <1>1, <2>4, <2>5, <2>6 DEF RecordsInv
<1>4. ASSUME ReleaseBy(w, c) \/ CompleteBy(w, c)
      PROVE  /\ leases' \in [Tasks -> LeaseRow \cup {None}]
             /\ leases'[c.task] = None
             /\ \A t \in Tasks : t # c.task => leases'[t] = leases[t]
  <2>1. leases' = [leases EXCEPT ![c.task] = None]
    BY <1>4 DEF ReleaseBy, CompleteBy
  <2> QED
    BY <1>1, <2>1 DEF RecordsInv
<1> QED
  BY <1>1, <1>2, <1>3, <1>4

\* A start and a completion write one receipt, of their Task and Lease.
LEMMA ReceiptWrites ==
  ASSUME CallsInv, RecordsInv, NEW w \in Workers, NEW c \in Call
  PROVE  /\ \A h \in Handle \cup {None} : StartBy(w, c, h) =>
              /\ c.request \in Requests
              /\ starts' \in [Requests -> Command \cup {None}]
              /\ starts'[c.request] # None /\ starts'[c.request].task = c.task
              /\ starts'[c.request].owner = w /\ starts'[c.request].token = c.token
              /\ \A r \in Requests : r # c.request => starts'[r] = starts[r]
         /\ RowsInv /\ CompleteBy(w, c) =>
              /\ c.request \in Requests
              /\ completions' \in [Requests -> Completion \cup {None}]
              /\ completions'[c.request] # None /\ completions'[c.request].task = c.task
              /\ completions'[c.request].owner = w
              /\ completions'[c.request].token = c.token
              /\ completions'[c.request].final = c.final
              /\ \A r \in Requests : r # c.request => completions'[r] = completions[r]
<1>1. c.task \in Tasks /\ c # None
  BY TableAssumption DEF Call
<1>2. ASSUME Owns(c.task, w, c.token)
      PROVE  c.token \in Tokens
  BY <1>1, <1>2 DEF Owns, RecordsInv, LeaseRow
<1>3. ASSUME NEW h \in Handle \cup {None}, StartBy(w, c, h)
      PROVE  /\ c.request \in Requests
             /\ starts' \in [Requests -> Command \cup {None}]
             /\ starts'[c.request] # None /\ starts'[c.request].task = c.task
             /\ starts'[c.request].owner = w /\ starts'[c.request].token = c.token
             /\ \A r \in Requests : r # c.request => starts'[r] = starts[r]
  <2>1. CallFits(c, handle[w]) /\ c.op = "start"
    BY <1>1, <1>3 DEF StartBy, CallsInv
  <2>2. c.request \in Requests
    BY <2>1 DEF CallFits
  <2>3. c.token \in Tokens
    BY <1>2, <1>3 DEF StartBy
  <2>4. PICK row : row = [task |-> c.task, owner |-> w, token |-> c.token]
    OBVIOUS
  <2>5. row \in Command /\ row # None
    BY <1>1, <2>3, <2>4, TableAssumption DEF Command
  <2>6. starts' = [starts EXCEPT ![c.request] = row]
    BY <1>3, <2>4 DEF StartBy
  <2> QED
    BY <2>2, <2>4, <2>5, <2>6 DEF RecordsInv
<1>4. ASSUME RowsInv, CompleteBy(w, c)
      PROVE  /\ c.request \in Requests
             /\ completions' \in [Requests -> Completion \cup {None}]
             /\ completions'[c.request] # None /\ completions'[c.request].task = c.task
             /\ completions'[c.request].owner = w
             /\ completions'[c.request].token = c.token
             /\ completions'[c.request].final = c.final
             /\ \A r \in Requests : r # c.request => completions'[r] = completions[r]
  <2>1. CallFits(c, handle[w]) /\ c.op = "complete"
    BY <1>1, <1>4 DEF CompleteBy, CallsInv
  <2>2. c.request \in Requests
    BY <2>1 DEF CallFits
  <2>3. c.token \in Tokens
    BY <1>2, <1>4 DEF CompleteBy
  <2>4. PICK row : row = [task |-> c.task, owner |-> w, token |-> c.token,
                          exec |-> c.exec, final |-> c.final]
    OBVIOUS
  <2>5. c.exec \in Executions /\ c.final \in {"SUCCEEDED", "FAILED"}
    BY <1>4, CompleteWrites
  <2>6. row \in Completion /\ row # None
    <3>1. row \in Completion
      BY <1>1, <2>3, <2>4, <2>5 DEF Completion
    <3> QED
      BY <3>1, TableAssumption
  <2>7. completions' = [completions EXCEPT ![c.request] = row]
    BY <1>4, <2>4 DEF CompleteBy
  <2> QED
    BY <2>2, <2>4, <2>6, <2>7 DEF RecordsInv
<1> QED
  BY <1>3, <1>4

LEMMA RecordsStep ==
  ASSUME RowsInv, CallsInv, RecordsInv, [Next]_vars
  PROVE  RecordsInv'
<1>1. CASE Tick
  BY <1>1, TickFacts DEF Tick, receipts, RecordsInv
<1>2. ASSUME NEW w \in Workers, NEW c \in Call, NEW k \in Tokens, ClaimBy(w, c, k)
      PROVE  RecordsInv'
  BY <1>2, LeaseWrites DEF ClaimBy, receipts, RecordsInv
<1>3. ASSUME NEW w \in Workers, NEW c \in Call, RenewBy(w, c)
      PROVE  RecordsInv'
  BY <1>3, LeaseWrites DEF RenewBy, receipts, RecordsInv
<1>4. ASSUME NEW w \in Workers, NEW c \in Call, ReleaseBy(w, c)
      PROVE  RecordsInv'
  BY <1>4, LeaseWrites DEF ReleaseBy, receipts, RecordsInv
<1>5. ASSUME NEW w \in Workers, NEW c \in Call, CompleteBy(w, c)
      PROVE  RecordsInv'
  <2>1. leases' \in [Tasks -> LeaseRow \cup {None}]
    BY <1>5, LeaseWrites
  <2>2. completions' \in [Requests -> Completion \cup {None}]
    BY <1>5, ReceiptWrites
  <2> QED
    BY <1>5, <2>1, <2>2 DEF CompleteBy, RecordsInv
<1>6. ASSUME NEW w \in Workers, NEW c \in Call, NEW h \in Handle \cup {None},
             StartBy(w, c, h)
      PROVE  RecordsInv'
  <2>1. starts' \in [Requests -> Command \cup {None}]
    BY <1>6, ReceiptWrites
  <2> QED
    BY <1>6, <2>1 DEF StartBy, RecordsInv
<1>7. CASE UNCHANGED <<leases, receipts>>
  BY <1>7 DEF receipts, RecordsInv
<1> QED
  BY <1>1, <1>2, <1>3, <1>4, <1>5, <1>6, <1>7, StepCases DEF Transaction

-----------------------------------------------------------------------------
\* Leases exclude each other

\* If only the rows and Leases of one Task move, and afterwards its Leases with
\* time left are those of one Worker, then Leases still exclude each other.
LEMMA OneHolder ==
  ASSUME RowsInv, CallsInv, RecordsInv, LeasesInv, RowsStep, CallsInv',
         NEW w \in Workers, NEW c \in Call,
         \A t \in Tasks : t # c.task => leases'[t] = leases[t],
         \A v \in Workers : v # w => handle'[v] = handle[v],
         \A v \in Workers : v # w /\ handle[v] # None /\ handle[v].left > 0 =>
           handle[v].task # c.task,
         \A g \in Handle : handle'[w] = g => g.task = c.task /\ (g.left > 0 => Backed(w, g)')
  PROVE  LeasesInv'
<1>1. ASSUME NEW v \in Workers, NEW h \in Handle, handle'[v] = h, h.left > 0
      PROVE  Backed(v, h)'
  <2>1. CASE v = w
    BY <1>1, <2>1
  <2>2. CASE v # w
    <3>1. handle[v] = h /\ handle[v] # None
      BY <1>1, <2>2, TableAssumption
    <3>2. h.task \in Tasks /\ h.task # c.task
      BY <1>1, <2>2, <3>1 DEF Handle
    <3>3. Backed(v, h)
      BY <1>1, <3>1 DEF LeasesInv
    <3>4. leases'[h.task] = leases[h.task] /\ (LeftPending(h.task) => LeftPending(h.task)')
      BY <3>2, RowsKept
    <3> QED
      BY <3>3, <3>4 DEF Backed, Owns
  <2> QED
    BY <2>1, <2>2
<1>2. ASSUME NEW u \in Workers, NEW v \in Workers, u # v,
             handle'[u] # None, handle'[v] # None, handle'[u].task = handle'[v].task,
             handle'[u].left > 0, handle'[v].left > 0
      PROVE  FALSE
  <2>1. CASE u # w /\ v # w
    BY <1>2, <2>1, TableAssumption DEF LeasesInv, ExclusiveLease, CallsInv, Handle
  <2>2. ASSUME NEW x \in Workers, x # w, handle'[x] # None, handle'[w] # None,
               handle'[x].task = handle'[w].task, handle'[x].left > 0
        PROVE  FALSE
    <3>1. handle'[w] \in Handle
      BY <2>2 DEF CallsInv
    <3>2. handle'[w].task = c.task
      BY <3>1
    <3> QED
      BY <2>2, <3>2
  <2> QED
    BY <1>2, <2>1, <2>2
<1>3. \A v \in Workers : handle'[v] # None => handle'[v].left \in Int
  BY TableAssumption DEF CallsInv, Handle
<1>4. ExclusiveLease'
  BY <1>2, <1>3 DEF ExclusiveLease
<1> QED
  BY <1>1, <1>4 DEF LeasesInv

\* A Lease with time left on a Task whose row is another Worker's, or which may
\* be claimed, is nobody's.
LEMMA OthersOut ==
  ASSUME CallsInv, RecordsInv, LeasesInv, NEW w \in Workers, NEW c \in Call,
         \/ Claimable(c.task, c.age)
         \/ leases[c.task] # None /\ leases[c.task].owner = w,
         NEW v \in Workers, v # w, handle[v] # None, handle[v].left > 0
  PROVE  handle[v].task # c.task
<1> SUFFICES ASSUME handle[v].task = c.task
             PROVE  FALSE
  OBVIOUS
<1>1. PICK h \in Handle : h = handle[v]
  BY DEF CallsInv
<1>2. Backed(v, h) /\ h.task = c.task /\ h.left > 0 /\ h.left \in Int
  BY <1>1, TableAssumption DEF LeasesInv, Handle
<1>3. CASE leases[c.task] # None /\ leases[c.task].owner = w
  BY <1>2, <1>3 DEF Backed, Owns
<1>4. CASE Claimable(c.task, c.age)
  <2>1. HasStatus(c.task, "PENDING")
    BY <1>4 DEF Claimable
  <2>2. leases[c.task] # None /\ h.left <= leases[c.task].left
    BY <1>2, <2>1 DEF Backed, Owns, HasStatus, LeftPending
  <2>3. leases[c.task].left \in Int /\ c.age \in Nat
    BY <2>2, TableAssumption DEF RecordsInv, LeaseRow, Call
  <2>4. ~(leases[c.task].left + c.age > 0)
    BY <1>4, <2>2 DEF Claimable, Unexpired
  <2> QED
    BY <1>2, <2>2, <2>3, <2>4
<1> QED
  BY <1>3, <1>4

LEMMA HandleAfter ==
  ASSUME CallsInv, NEW w \in Workers, NEW h, Answered(w, h)
  PROVE  /\ handle'[w] = h \/ handle'[w] = handle[w]
         /\ \A v \in Workers : v # w => handle'[v] = handle[v]
BY DEF Answered, CallsInv

LEMMA LeasesStep ==
  ASSUME RowsInv, CallsInv, RecordsInv, LeasesInv, RowsStep, CallsInv', [Next]_vars
  PROVE  LeasesInv'
<1>1. ASSUME NEW w \in Workers, NEW c \in Call, c = call[w]
      PROVE  c # None /\ CallFits(c, handle[w]) /\ c.task \in Tasks
             /\ Expiry(c.ttl, c.age) \in Int
  BY <1>1, ExpiryRange, TableAssumption DEF CallsInv, Call
<1>2. ASSUME NEW w \in Workers, NEW c \in Call, NEW k \in Tokens, ClaimBy(w, c, k)
      PROVE  LeasesInv'
  <2>1. PICK g : g = [task |-> c.task, token |-> k, left |-> Expiry(c.ttl, c.age)]
    OBVIOUS
  <2>2. handle[w] = None /\ Claimable(c.task, c.age)
    BY <1>1, <1>2 DEF ClaimBy, CallFits
  <2>3. Answered(w, g)
    BY <1>2, <2>1 DEF ClaimBy
  <2>4. /\ leases'[c.task] # None /\ leases'[c.task].owner = w
        /\ leases'[c.task].token = k /\ leases'[c.task].left = Expiry(c.ttl, c.age)
        /\ \A t \in Tasks : t # c.task => leases'[t] = leases[t]
    BY <1>2, LeaseWrites
  <2>5. g.task = c.task /\ Backed(w, g)'
    <3>1. g.task = c.task /\ g.token = k /\ g.left = Expiry(c.ttl, c.age)
      BY <2>1
    <3>2. Expiry(c.ttl, c.age) \in Int
      BY <1>1, <1>2 DEF ClaimBy
    <3> QED
      BY <2>4, <3>1, <3>2 DEF Backed, Owns
  <2>6. \A f \in Handle : handle'[w] = f => f = g
    BY <2>2, <2>3, HandleAfter, TableAssumption
  <2>7. \A v \in Workers : v # w => handle'[v] = handle[v]
    BY <2>3, HandleAfter
  <2>8. \A v \in Workers : v # w /\ handle[v] # None /\ handle[v].left > 0 =>
          handle[v].task # c.task
    BY <2>2, OthersOut
  <2> QED
    BY <2>4, <2>5, <2>6, <2>7, <2>8, OneHolder
<1>3. ASSUME NEW w \in Workers, NEW c \in Call, RenewBy(w, c)
      PROVE  LeasesInv'
  <2>1. PICK g : g = [task |-> c.task, token |-> c.token, left |-> Expiry(c.ttl, c.age)]
    OBVIOUS
  <2>2. PICK h : h = handle[w]
    OBVIOUS
  <2>3. h.task = c.task /\ h.token = c.token /\ h.left <= Expiry(c.ttl, c.age)
    BY <1>1, <1>3, <2>2 DEF RenewBy, CallFits
  <2>4. /\ leases'[c.task] # None /\ leases'[c.task].owner = w
        /\ leases'[c.task].token = c.token
        /\ leases'[c.task].left = Expiry(c.ttl, c.age)
        /\ \A t \in Tasks : t # c.task => leases'[t] = leases[t]
    BY <1>3, LeaseWrites
  <2>5. Answered(w, g)
    BY <1>3, <2>1 DEF RenewBy
  <2>6. g.task = c.task /\ Backed(w, g)'
    <3>1. g.task = c.task /\ g.token = c.token /\ g.left = Expiry(c.ttl, c.age)
      BY <2>1
    <3>2. Expiry(c.ttl, c.age) \in Int
      BY <1>1, <1>3 DEF RenewBy
    <3> QED
      BY <2>4, <3>1, <3>2 DEF Backed, Owns
  <2>7. h.task = c.task /\ Backed(w, h)'
    BY <2>3, <2>4 DEF Backed, Owns
  <2>8. \A f \in Handle : handle'[w] = f => f = g \/ f = h
    BY <2>2, <2>5, HandleAfter
  <2>9. \A v \in Workers : v # w => handle'[v] = handle[v]
    BY <2>5, HandleAfter
  <2>10. \A v \in Workers : v # w /\ handle[v] # None /\ handle[v].left > 0 =>
           handle[v].task # c.task
    BY <1>3, OthersOut DEF RenewBy, Owns
  <2>11. \A f \in Handle : handle'[w] = f => f.task = c.task /\ (f.left > 0 => Backed(w, f)')
    BY <2>6, <2>7, <2>8
  <2> QED
    BY <2>4, <2>9, <2>10, <2>11, OneHolder
<1>4. ASSUME NEW w \in Workers, NEW c \in Call, ReleaseBy(w, c)
      PROVE  LeasesInv'
  <2>1. handle[w] = None
    BY <1>1, <1>4 DEF ReleaseBy, CallFits
  <2>2. \A t \in Tasks : t # c.task => leases'[t] = leases[t]
    BY <1>4, LeaseWrites
  <2>3. Answered(w, None)
    BY <1>4 DEF ReleaseBy
  <2>4. \A f \in Handle : handle'[w] # f
    BY <2>1, <2>3, HandleAfter, TableAssumption
  <2>5. \A v \in Workers : v # w => handle'[v] = handle[v]
    BY <2>3, HandleAfter
  <2>6. \A v \in Workers : v # w /\ handle[v] # None /\ handle[v].left > 0 =>
          handle[v].task # c.task
    BY <1>4, OthersOut DEF ReleaseBy, Owns
  <2> QED
    BY <2>2, <2>4, <2>5, <2>6, OneHolder
<1>5. ASSUME NEW w \in Workers, NEW c \in Call, CompleteBy(w, c)
      PROVE  LeasesInv'
  <2>1. PICK h : h = handle[w]
    OBVIOUS
  <2>2. h.task = c.task /\ c.task \in Tasks
    BY <1>1, <1>5, <2>1 DEF CompleteBy, CallFits
  <2>3. leases'[c.task] = None /\ \A t \in Tasks : t # c.task => leases'[t] = leases[t]
    BY <1>5, LeaseWrites
  <2>4. Answered(w, None)
    BY <1>5 DEF CompleteBy
  <2>5. LeftPending(c.task)'
    <3>1. LeftPending(c.task)
      BY <1>5 DEF CompleteBy, HasStatus, LeftPending
    <3> QED
      BY <2>2, <3>1, RowsKept
  <2>6. Backed(w, h)'
    BY <2>2, <2>3, <2>5 DEF Backed
  <2>7. \A f \in Handle : handle'[w] = f => f.task = c.task /\ (f.left > 0 => Backed(w, f)')
    BY <2>1, <2>2, <2>4, <2>6, HandleAfter, TableAssumption
  <2>8. \A v \in Workers : v # w => handle'[v] = handle[v]
    BY <2>4, HandleAfter
  <2>9. \A v \in Workers : v # w /\ handle[v] # None /\ handle[v].left > 0 =>
          handle[v].task # c.task
    BY <1>5, OthersOut DEF CompleteBy, Owns
  <2> QED
    BY <2>3, <2>7, <2>8, <2>9, OneHolder
<1>6. CASE UNCHANGED leases /\ Shrinks
  <2>1. ASSUME NEW v \in Workers, NEW h \in Handle, handle'[v] = h, h.left > 0
        PROVE  Backed(v, h)'
    <3>1. handle'[v] # None
      BY <2>1, TableAssumption
    <3>2. PICK g \in Handle : g = handle[v]
      BY <1>6, <3>1 DEF Shrinks, CallsInv
    <3>3. h.left <= g.left /\ h.task = g.task /\ h.token = g.token
      BY <1>6, <2>1, <3>1, <3>2 DEF Shrinks
    <3>4. h.left \in Int /\ g.left \in Int /\ g.task \in Tasks
      BY TableAssumption DEF Handle
    <3>5. Backed(v, g)
      BY <2>1, <3>2, <3>3, <3>4 DEF LeasesInv
    <3>6. CASE Owns(g.task, v, g.token) /\ g.left <= leases[g.task].left
      <4>1. leases[g.task].left \in Int
        BY <3>4, <3>6, TableAssumption DEF Owns, RecordsInv, LeaseRow
      <4> QED
        BY <1>6, <3>3, <3>4, <3>6, <4>1 DEF Backed, Owns
    <3>7. CASE leases[g.task] = None /\ LeftPending(g.task)
      <4>1. LeftPending(g.task)'
        BY <3>4, <3>7, RowsKept
      <4> QED
        BY <1>6, <3>3, <3>7, <4>1 DEF Backed
    <3> QED
      BY <3>5, <3>6, <3>7 DEF Backed
  <2>2. ASSUME NEW u \in Workers, NEW v \in Workers, u # v,
               handle'[u] # None, handle'[v] # None,
               handle'[u].task = handle'[v].task
        PROVE  handle'[u].left <= 0 \/ handle'[v].left <= 0
    <3>1. /\ handle[u] # None /\ handle[v] # None
          /\ handle[u].task = handle[v].task
          /\ handle'[u].left <= handle[u].left /\ handle'[v].left <= handle[v].left
      BY <1>6, <2>2 DEF Shrinks
    <3>2. handle[u].left <= 0 \/ handle[v].left <= 0
      BY <2>2, <3>1 DEF LeasesInv, ExclusiveLease
    <3>3. /\ handle[u].left \in Int /\ handle[v].left \in Int
          /\ handle'[u].left \in Int /\ handle'[v].left \in Int
      BY <2>2, <3>1, TableAssumption DEF CallsInv, Handle
    <3> QED
      BY <3>1, <3>2, <3>3
  <2> QED
    BY <2>1, <2>2 DEF LeasesInv, ExclusiveLease
<1>7. ASSUME NEW w \in Workers, NEW c \in Call, NEW h \in Handle \cup {None},
             StartBy(w, c, h)
      PROVE  LeasesInv'
  <2>1. UNCHANGED handle
    BY <1>7, SameHandle DEF StartBy
  <2> QED
    BY <1>6, <1>7, <2>1, KeepingShrinks DEF StartBy
<1>8. CASE Tick
  <2>1. ASSUME NEW v \in Workers, NEW h \in Handle, handle'[v] = h, h.left > 0
        PROVE  Backed(v, h)'
    <3>1. handle'[v] # None
      BY <2>1, TableAssumption
    <3>2. PICK g \in Handle : g = handle[v]
      BY <1>8, <3>1, TickFacts DEF CallsInv
    <3>3. h.left = Earlier(g.left) /\ h.task = g.task /\ h.token = g.token /\ g # None
      BY <1>8, <2>1, <3>2, TickFacts, TableAssumption
    <3>4. g.left \in (-Patience)..TTL /\ g.task \in Tasks
      BY DEF Handle
    <3>5. g.left > 0
      BY <2>1, <3>3, <3>4, EarlierRange
    <3>6. Backed(v, g)
      BY <3>2, <3>5 DEF LeasesInv
    <3>7. CASE Owns(g.task, v, g.token) /\ g.left <= leases[g.task].left
      <4>1. leases[g.task].left \in (-Patience)..TTL
        BY <3>4, <3>7 DEF Owns, RecordsInv, LeaseRow
      <4>2. Earlier(g.left) <= Earlier(leases[g.task].left)
        BY <3>4, <3>7, <4>1, EarlierRange
      <4>3. Owns(g.task, v, g.token)' /\ leases'[g.task].left = Earlier(leases[g.task].left)
        BY <1>8, <3>4, <3>7, TickFacts DEF Owns
      <4> QED
        BY <3>3, <4>2, <4>3 DEF Backed, Owns
    <3>8. CASE leases[g.task] = None /\ LeftPending(g.task)
      <4>1. leases'[g.task] = None
        BY <1>8, <3>4, <3>8, TickFacts
      <4>2. LeftPending(g.task)'
        BY <3>4, <3>8, RowsKept
      <4> QED
        BY <3>3, <4>1, <4>2 DEF Backed
    <3> QED
      BY <3>6, <3>7, <3>8 DEF Backed
  <2>2. ASSUME NEW u \in Workers, NEW v \in Workers, u # v,
               handle'[u] # None, handle'[v] # None,
               handle'[u].task = handle'[v].task
        PROVE  handle'[u].left <= 0 \/ handle'[v].left <= 0
    <3>1. /\ handle[u] # None /\ handle[v] # None
          /\ handle[u].task = handle[v].task
          /\ handle'[u].left = Earlier(handle[u].left)
          /\ handle'[v].left = Earlier(handle[v].left)
      BY <1>8, <2>2, TickFacts
    <3>2. handle[u].left <= 0 \/ handle[v].left <= 0
      BY <2>2, <3>1 DEF LeasesInv, ExclusiveLease
    <3>3. handle[u].left \in (-Patience)..TTL /\ handle[v].left \in (-Patience)..TTL
      BY <2>2, <3>1 DEF CallsInv, Handle
    <3> QED
      BY <3>1, <3>2, <3>3, EarlierRange
  <2> QED
    BY <2>1, <2>2 DEF LeasesInv, ExclusiveLease
<1> QED
  BY <1>2, <1>3, <1>4, <1>5, <1>6, <1>7, <1>8, StepCases DEF Transaction

-----------------------------------------------------------------------------
\* Receipts

LEMMA StartedRow ==
  ASSUME RowsInv, NEW w \in Workers, NEW c \in Call, NEW h \in Handle \cup {None},
         StartBy(w, c, h)
  PROVE  LeftPending(c.task)'
<1>1. PICK a \in TaskRow : a = tasks[c.task]
  BY DEF StartBy, HasStatus, RowsInv, Call
<1>2. PICK b : b = [a EXCEPT !.status = "RUNNING", !.revision = 1, !.reason = "code",
                             !.current = <<c.task, 1>>, !.attempts = 1]
  OBVIOUS
<1>3. tasks' = [tasks EXCEPT ![c.task] = b]
  BY <1>1, <1>2 DEF StartBy, StartPair, RowsInv
<1>4. b \in TaskRow /\ b.status = "RUNNING"
  BY <1>1, <1>2, Attempts, Domains DEF TaskRow, Call
<1> QED
  BY <1>3, <1>4, Attempts DEF LeftPending, RowsInv, Call

LEMMA FinishedRow ==
  ASSUME RowsInv, CallsInv, NEW w \in Workers, NEW c \in Call, CompleteBy(w, c)
  PROVE  Over(c.task)'
<1>1. PICK a \in TaskRow : a = tasks[c.task]
  BY DEF CompleteBy, HasStatus, RowsInv, Call
<1>2. PICK b : b = [a EXCEPT !.status = c.final, !.revision = 2, !.reason = "code"]
  OBVIOUS
<1>3. tasks' = [tasks EXCEPT ![c.task] = b]
  BY <1>1, <1>2 DEF CompleteBy, FinishPair, RowsInv
<1>4. c.final \in {"SUCCEEDED", "FAILED"}
  BY CompleteWrites
<1>5. b \in TaskRow /\ b.status = c.final
  BY <1>1, <1>2, <1>4, Attempts, Domains DEF TaskRow
<1> QED
  BY <1>3, <1>4, <1>5, Attempts DEF Over, RowsInv, Call, TaskTerminal, TaskStates

LEMMA ReceiptsStep ==
  ASSUME RowsInv, CallsInv, RecordsInv, ReceiptsInv, RowsStep, [Next]_vars
  PROVE  ReceiptsInv'
<1> DEFINE LeftAfter(t) == tasks'[t] # None /\ tasks'[t].status # "PENDING"
           OverAfter(t) == tasks'[t] # None /\ tasks'[t].status \in TaskTerminal
<1>1. /\ \A r \in Requests : starts[r] # None => starts[r].task \in Tasks
      /\ \A r \in Requests : completions[r] # None => completions[r].task \in Tasks
  BY DEF RecordsInv, Command, Completion
<1>2. /\ \A r \in Requests : starts[r] # None => LeftAfter(starts[r].task)
      /\ \A r \in Requests : completions[r] # None => OverAfter(completions[r].task)
  BY <1>1, RowsKept DEF ReceiptsInv, LeftPending, Over
<1>3. ASSUME UNCHANGED receipts,
             \A t \in Tasks : leases'[t] # None =>
               \A r \in Requests : starts[r] # None /\ starts[r].task = t =>
                 leases'[t].owner = starts[r].owner /\ leases'[t].token = starts[r].token
      PROVE  ReceiptsInv'
  <2>1. starts' = starts /\ completions' = completions
    BY <1>3 DEF receipts
  <2>2. StartedLeaseKept'
    BY <1>1, <1>3, <2>1 DEF StartedLeaseKept
  <2>3. OneReceiptEach'
    BY <2>1 DEF ReceiptsInv, OneReceiptEach
  <2>4. /\ \A r \in Requests : starts'[r] # None => LeftAfter(starts'[r].task)
        /\ \A r \in Requests : completions'[r] # None => OverAfter(completions'[r].task)
    BY <1>2, <2>1
  <2> QED
    BY <2>2, <2>3, <2>4 DEF ReceiptsInv, LeftPending, Over
<1>4. ASSUME NEW w \in Workers, NEW c \in Call, NEW k \in Tokens, ClaimBy(w, c, k)
      PROVE  ReceiptsInv'
  <2>1. \A t \in Tasks : t # c.task => leases'[t] = leases[t]
    BY <1>4, LeaseWrites
  <2>2. \A r \in Requests : starts[r] # None => starts[r].task # c.task
    BY <1>4 DEF ClaimBy, Claimable, HasStatus, ReceiptsInv, LeftPending
  <2>3. UNCHANGED receipts
    BY <1>4 DEF ClaimBy
  <2> QED
    BY <1>3, <2>1, <2>2, <2>3 DEF ReceiptsInv, StartedLeaseKept
<1>5. ASSUME NEW w \in Workers, NEW c \in Call, RenewBy(w, c)
      PROVE  ReceiptsInv'
  <2>1. /\ \A t \in Tasks : t # c.task => leases'[t] = leases[t]
        /\ leases'[c.task].owner = w /\ leases'[c.task].token = c.token
    BY <1>5, LeaseWrites
  <2>2. /\ leases[c.task] # None
        /\ leases[c.task].owner = w /\ leases[c.task].token = c.token
    BY <1>5 DEF RenewBy, Owns
  <2>3. UNCHANGED receipts
    BY <1>5 DEF RenewBy
  <2> QED
    BY <1>3, <2>1, <2>2, <2>3 DEF ReceiptsInv, StartedLeaseKept
<1>6. ASSUME NEW w \in Workers, NEW c \in Call, ReleaseBy(w, c)
      PROVE  ReceiptsInv'
  <2>1. leases'[c.task] = None /\ \A t \in Tasks : t # c.task => leases'[t] = leases[t]
    BY <1>6, LeaseWrites
  <2>2. UNCHANGED receipts
    BY <1>6 DEF ReleaseBy
  <2> QED
    BY <1>3, <2>1, <2>2 DEF ReceiptsInv, StartedLeaseKept
<1>7. ASSUME NEW w \in Workers, NEW c \in Call, NEW h \in Handle \cup {None},
             StartBy(w, c, h)
      PROVE  ReceiptsInv'
  <2>1. /\ c.request \in Requests /\ starts[c.request] = None
        /\ starts'[c.request] # None /\ starts'[c.request].task = c.task
        /\ starts'[c.request].owner = w /\ starts'[c.request].token = c.token
        /\ \A r \in Requests : r # c.request => starts'[r] = starts[r]
    BY <1>7, ReceiptWrites DEF StartBy
  <2>2. /\ completions' = completions /\ leases' = leases
        /\ Owns(c.task, w, c.token) /\ HasStatus(c.task, "PENDING")
    BY <1>7 DEF StartBy
  <2>3. /\ \A r \in Requests : starts[r] # None => starts[r].task # c.task
        /\ \A r \in Requests : completions[r] # None => completions[r].task # c.task
    BY <2>2 DEF HasStatus, ReceiptsInv, LeftPending, Over, TaskTerminal
  <2>4. LeftAfter(c.task)
    BY <1>7, StartedRow DEF LeftPending
  <2>5. StartedLeaseKept'
    BY <2>1, <2>2 DEF ReceiptsInv, StartedLeaseKept, Owns
  <2>6. OneReceiptEach'
    BY <2>1, <2>2, <2>3 DEF ReceiptsInv, OneReceiptEach
  <2>7. /\ \A r \in Requests : starts'[r] # None => LeftAfter(starts'[r].task)
        /\ \A r \in Requests : completions'[r] # None => OverAfter(completions'[r].task)
    BY <1>2, <2>1, <2>2, <2>4
  <2> QED
    BY <2>5, <2>6, <2>7 DEF ReceiptsInv, LeftPending, Over
<1>8. ASSUME NEW w \in Workers, NEW c \in Call, CompleteBy(w, c)
      PROVE  ReceiptsInv'
  <2>1. /\ c.request \in Requests
        /\ completions'[c.request] # None /\ completions'[c.request].task = c.task
        /\ completions'[c.request].owner = w /\ completions'[c.request].token = c.token
        /\ \A r \in Requests : r # c.request => completions'[r] = completions[r]
    BY <1>8, ReceiptWrites
  <2>2. /\ starts' = starts /\ Owns(c.task, w, c.token) /\ HasStatus(c.task, "RUNNING")
    BY <1>8 DEF CompleteBy
  <2>3. /\ leases'[c.task] = None
        /\ \A t \in Tasks : t # c.task => leases'[t] = leases[t]
    BY <1>8, LeaseWrites
  <2>4. \A r \in Requests : completions[r] # None => completions[r].task # c.task
    BY <2>2 DEF HasStatus, ReceiptsInv, Over, TaskTerminal
  <2>5. OverAfter(c.task)
    BY <1>8, FinishedRow DEF Over
  <2>6. StartedLeaseKept'
    BY <1>1, <2>2, <2>3 DEF ReceiptsInv, StartedLeaseKept
  <2>7. \A r \in Requests : starts[r] # None /\ starts[r].task = c.task =>
          starts[r].owner = w /\ starts[r].token = c.token
    BY <2>2 DEF ReceiptsInv, StartedLeaseKept, Owns
  <2>8. OneReceiptEach'
    BY <2>1, <2>2, <2>4, <2>7 DEF ReceiptsInv, OneReceiptEach
  <2>9. /\ \A r \in Requests : starts'[r] # None => LeftAfter(starts'[r].task)
        /\ \A r \in Requests : completions'[r] # None => OverAfter(completions'[r].task)
    BY <1>2, <2>1, <2>2, <2>5
  <2> QED
    BY <2>6, <2>8, <2>9 DEF ReceiptsInv, LeftPending, Over
<1>9. CASE UNCHANGED <<leases, receipts>>
  BY <1>1, <1>3, <1>9 DEF ReceiptsInv, StartedLeaseKept
<1>10. CASE Tick
  <2>1. UNCHANGED receipts
    BY <1>10 DEF Tick
  <2>2. \A t \in Tasks : leases'[t] # None =>
          /\ leases[t] # None /\ leases'[t].owner = leases[t].owner
          /\ leases'[t].token = leases[t].token
    BY <1>10, TickFacts
  <2> QED
    BY <1>3, <2>1, <2>2 DEF ReceiptsInv, StartedLeaseKept
<1> QED
  BY <1>4, <1>5, <1>6, <1>7, <1>8, <1>9, <1>10, StepCases DEF Transaction

-----------------------------------------------------------------------------
\* The inductive invariant

TasksInv == RowsInv /\ CallsInv /\ RecordsInv /\ LeasesInv /\ ReceiptsInv

LEMMA TasksInit ==
  ASSUME Init
  PROVE  TasksInv
<1>1. RowsInv
  BY Domains DEF Init, RowsInv, ExecutionStates, TaskStates
<1>2. MaxFaults \in Nat
  BY TableAssumption
<1>3. CallsInv /\ RecordsInv
  BY <1>2 DEF Init, CallsInv, RecordsInv
<1>4. LeasesInv
  BY TableAssumption DEF Init, LeasesInv, ExclusiveLease
<1>5. ReceiptsInv
  BY DEF Init, ReceiptsInv, StartedLeaseKept, OneReceiptEach
<1> QED
  BY <1>1, <1>3, <1>4, <1>5 DEF TasksInv

LEMMA TasksStep ==
  ASSUME TasksInv, [Next]_vars
  PROVE  TasksInv'
<1>1. RowsStep
  BY RowsSteps DEF TasksInv
<1>2. RowsInv'
  BY <1>1, RowsKept DEF TasksInv
<1>3. CallsInv' /\ RecordsInv'
  BY CallsSteps, RecordsStep DEF TasksInv
<1>4. LeasesInv'
  BY <1>1, <1>3, LeasesStep DEF TasksInv
<1>5. ReceiptsInv'
  BY <1>1, ReceiptsStep DEF TasksInv
<1> QED
  BY <1>2, <1>3, <1>4, <1>5 DEF TasksInv

\* The invariant of leases, calls and receipts holds in every state, with the
\* lifecycle services writing the same rows or without them.
THEOREM TasksInvariant == Spec => []TasksInv
<1>1. Init => TasksInv
  BY TasksInit
<1>2. TasksInv /\ [Next]_vars => TasksInv'
  BY TasksStep
<1> QED
  BY <1>1, <1>2, PTL DEF Spec

-----------------------------------------------------------------------------
\* The order of updated_at

Started(t) == \E r \in Requests : starts[r] # None /\ starts[r].task = t

\* The rows of a Task that a Worker started: until they are moved on, they are
\* the ones the start wrote.
Begun(t) ==
  /\ tasks[t] # None /\ tasks[t].revision >= 1
  /\ tasks[t].revision = 1 => tasks[t].current = <<t, 1>>
  /\ executions[<<t, 1>>] # None /\ executions[<<t, 1>>].revision >= 1

\* A call of start knows a Task and a call of complete an Execution, and each
\* read its clock after the rows it may still write were written.
StartInTime(c) ==
  c.op = "start" =>
    /\ tasks[c.task] # None
    /\ tasks[c.task].revision = 0 => c.age <= taskSince[c.task]
CompleteInTime(c) ==
  c.op = "complete" =>
    /\ executions[c.exec] # None
    /\ \A t \in Tasks : c.exec = <<t, 1>> /\ Started(t) =>
         /\ tasks[t].revision = 1 => c.age <= taskSince[t]
         /\ executions[<<t, 1>>].revision = 1 => c.age <= executionSince[<<t, 1>>]

SinceInv ==
  /\ taskSince \in [Tasks -> 0..Patience]
  /\ executionSince \in [Executions -> 0..Patience]
  /\ \A t \in Tasks : Started(t) => Begun(t)
  /\ \A w \in Workers : handle[w] # None => tasks[handle[w].task] # None
  /\ \A w \in Workers :
       call[w] # None => StartInTime(call[w]) /\ CompleteInTime(call[w])

LEMMA LaterRange ==
  ASSUME NEW n \in 0..Patience
  PROVE  /\ Later(n) \in 0..Patience
         /\ \A age \in 0..Patience :
              age <= n /\ age < Patience => age + 1 <= Later(n)
BY TableAssumption DEF Later

\* A row that stays keeps its time, but for a Tick.
LEMMA RowTimes ==
  ASSUME RowsInv, RowsStep, taskSince \in [Tasks -> 0..Patience],
         executionSince \in [Executions -> 0..Patience]
  PROVE  /\ taskSince' \in [Tasks -> 0..Patience]
         /\ executionSince' \in [Executions -> 0..Patience]
         /\ \A t \in Tasks : tasks[t] # None =>
              /\ tasks'[t] # None
              /\ \/ TaskFollows(tasks[t], tasks'[t])
                 \/ tasks'[t] = tasks[t] /\ (Tick \/ taskSince'[t] = taskSince[t])
         /\ \A x \in Executions : executions[x] # None =>
              /\ executions'[x] # None
              /\ \/ ExecutionFollows(executions[x], executions'[x])
                 \/ /\ executions'[x] = executions[x]
                    /\ Tick \/ executionSince'[x] = executionSince[x]
<1>1. ASSUME Tick
      PROVE  /\ taskSince' \in [Tasks -> 0..Patience]
             /\ executionSince' \in [Executions -> 0..Patience]
  <2>1. \A t \in Tasks : Later(taskSince[t]) \in 0..Patience
    BY LaterRange
  <2>2. \A x \in Executions : Later(executionSince[x]) \in 0..Patience
    BY LaterRange
  <2> QED
    BY <1>1, <2>1, <2>2 DEF Tick
<1>2. /\ taskSince' \in [Tasks -> 0..Patience]
      /\ \A t \in Tasks : tasks[t] # None =>
           /\ tasks'[t] # None
           /\ \/ TaskFollows(tasks[t], tasks'[t])
              \/ tasks'[t] = tasks[t] /\ (Tick \/ taskSince'[t] = taskSince[t])
  <2>1. CASE UNCHANGED tasks /\ (Tick \/ UNCHANGED taskSince)
    BY <1>1, <2>1
  <2>2. ASSUME NEW s \in Tasks, NEW b \in TaskRow, TaskWrite(s, b)
        PROVE  <1>2!:
    BY <2>2, Attempts DEF TaskWrite, RowsInv
  <2> QED
    BY <2>1, <2>2 DEF RowsStep
<1>3. /\ executionSince' \in [Executions -> 0..Patience]
      /\ \A x \in Executions : executions[x] # None =>
           /\ executions'[x] # None
           /\ \/ ExecutionFollows(executions[x], executions'[x])
              \/ /\ executions'[x] = executions[x]
                 /\ Tick \/ executionSince'[x] = executionSince[x]
  <2>1. CASE UNCHANGED executions /\ (Tick \/ UNCHANGED executionSince)
    BY <1>1, <2>1
  <2>2. ASSUME NEW s \in Executions, NEW b \in ExecutionRow, ExecutionWrite(s, b)
        PROVE  <1>3!:
    BY <2>2, Attempts DEF ExecutionWrite, RowsInv
  <2> QED
    BY <2>1, <2>2 DEF RowsStep
<1> QED
  BY <1>2, <1>3

\* A call in flight stays as it is, but for a Tick; a new one has just read its
\* clock.
FreshCall(w, c) ==
  /\ c.age = 0
  /\ c.op = "start" => handle[w] # None /\ c.task = handle[w].task
  /\ c.op = "complete" => c.exec \in Executions /\ executions[c.exec] # None

LEMMA CallTimes ==
  ASSUME CallsInv, [Next]_vars
  PROVE  \/ Tick
         \/ \A v \in Workers : call'[v] # None =>
              (call[v] # None /\ call'[v] = call[v]) \/ FreshCall(v, call'[v])
<1> DEFINE Kept == \A v \in Workers : call'[v] # None =>
              (call[v] # None /\ call'[v] = call[v]) \/ FreshCall(v, call'[v])
<1>1. CASE UNCHANGED call
  BY <1>1
<1>2. ASSUME NEW w \in Workers, NEW c, c = None \/ FreshCall(w, c),
             call' = [call EXCEPT ![w] = c]
      PROVE  Kept
  BY <1>2 DEF CallsInv
<1>3. ASSUME NEW w \in Workers, WorkerStep(w)
      PROVE  Kept
  <2>1. CASE Claim(w) \/ Renew(w) \/ Release(w) \/ Start(w) \/ Complete(w)
    <3>1. call' = [call EXCEPT ![w] = None]
      BY <2>1, Transactions DEF ClaimBy, RenewBy, ReleaseBy, StartBy, CompleteBy, Answered
    <3> QED
      BY <1>2, <3>1
  <2>2. CASE Refused(w) \/ Crash(w)
    BY <1>2, <2>2 DEF Refused, Crash
  <2>3. CASE GiveUp(w)
    BY <1>1, <2>3 DEF GiveUp
  <2>4. CASE CallLease(w)
    <3>1. ASSUME NEW op, op # "start", op # "complete", NEW t, NEW k, NEW ttl,
                 Calls(w, LeaseCall(op, t, k, ttl))
          PROVE  Kept
      <4>1. PICK c : c = LeaseCall(op, t, k, ttl)
        OBVIOUS
      <4>2. FreshCall(w, c)
        BY <3>1, <4>1 DEF FreshCall, LeaseCall
      <4>3. call' = [call EXCEPT ![w] = c]
        BY <3>1, <4>1 DEF Calls
      <4> QED
        BY <1>2, <4>2, <4>3
    <3>2. \/ \E t \in Tasks, ttl \in 1..TTL : Calls(w, LeaseCall("claim", t, None, ttl))
          \/ \E ttl \in 1..TTL :
               Calls(w, LeaseCall("renew", handle[w].task, handle[w].token, ttl))
          \/ Calls(w, LeaseCall("release", handle[w].task, handle[w].token, 0))
      BY <2>4, Zenon DEF CallLease
    <3> HIDE DEF Kept
    <3>3. CASE \E t \in Tasks, ttl \in 1..TTL : Calls(w, LeaseCall("claim", t, None, ttl))
      BY <3>1, <3>3
    <3>4. CASE \E ttl \in 1..TTL :
                 Calls(w, LeaseCall("renew", handle[w].task, handle[w].token, ttl))
      BY <3>1, <3>4
    <3>5. CASE Calls(w, LeaseCall("release", handle[w].task, handle[w].token, 0))
      BY <3>1, <3>5
    <3> QED
      BY <3>2, <3>3, <3>4, <3>5
  <2>5. CASE CallExecution(w)
    <3>1. PICK r \in Requests :
            \/ Calls(w, [LeaseCall("start", handle[w].task, handle[w].token, 0)
                           EXCEPT !.request = r])
            \/ \E x \in Executions, f \in {"SUCCEEDED", "FAILED"} :
                 /\ executions[x] # None
                 /\ Calls(w, [LeaseCall("complete", handle[w].task, handle[w].token, 0)
                                EXCEPT !.request = r, !.exec = x, !.final = f])
      BY <2>5, Zenon DEF CallExecution
    <3>2. handle[w] # None
      BY <2>5, Zenon DEF CallExecution
    <3>3. ASSUME NEW c, c = [LeaseCall("start", handle[w].task, handle[w].token, 0)
                               EXCEPT !.request = r]
          PROVE  FreshCall(w, c)
      BY <3>2, <3>3 DEF FreshCall, LeaseCall
    <3>4. ASSUME NEW x \in Executions, NEW f, executions[x] # None,
                 NEW c, c = [LeaseCall("complete", handle[w].task, handle[w].token, 0)
                               EXCEPT !.request = r, !.exec = x, !.final = f]
          PROVE  FreshCall(w, c)
      BY <3>4 DEF FreshCall, LeaseCall
    <3> QED
      BY <1>2, <3>1, <3>3, <3>4 DEF Calls
  <2> QED
    BY <1>3, <2>1, <2>2, <2>3, <2>4, <2>5 DEF WorkerStep
<1>4. CASE LifecycleStep
  <2>1. UNCHANGED call
    BY <1>4, Zenon DEF LifecycleStep, CreateTask, TransitionTask, CreateExecution,
      TransitionExecution, TransitionCoordinator
  <2> QED
    BY <1>1, <2>1
<1>5. CASE \E t \in Tasks, deps \in SUBSET Tasks : Dispatch(t, deps)
  BY <1>1, <1>5 DEF Dispatch
<1>6. CASE UNCHANGED vars
  BY <1>1, <1>6 DEF vars
<1> QED
  BY <1>3, <1>4, <1>5, <1>6 DEF Next

\* A Worker is given a Lease of a Task that exists.
LEMMA HandleTasks ==
  ASSUME TasksInv, [Next]_vars, NEW v \in Workers, handle'[v] # None
  PROVE  \/ handle[v] # None /\ handle'[v].task = handle[v].task
         \/ tasks[handle'[v].task] # None
<1>1. ASSUME NEW w \in Workers, NEW h, Answered(w, h), handle'[v] # handle[v]
      PROVE  v = w /\ handle'[v] = h
  BY <1>1 DEF Answered, TasksInv, CallsInv
<1>2. ASSUME NEW w \in Workers, NEW c \in Call, NEW k \in Tokens, ClaimBy(w, c, k),
             handle'[v] # handle[v]
      PROVE  tasks[handle'[v].task] # None
  <2>1. handle'[v].task = c.task
    BY <1>1, <1>2 DEF ClaimBy
  <2> QED
    BY <1>2, <2>1 DEF ClaimBy, Claimable, HasStatus
<1>3. ASSUME NEW w \in Workers, NEW c \in Call, RenewBy(w, c), handle'[v] # handle[v]
      PROVE  handle[v] # None /\ handle'[v].task = handle[v].task
  <2>1. v = w /\ handle'[v].task = c.task
    BY <1>1, <1>3 DEF RenewBy
  <2>2. c # None /\ c = call[w]
    BY <1>3, TableAssumption DEF RenewBy
  <2>3. CallFits(c, handle[w])
    BY <2>2 DEF TasksInv, CallsInv
  <2> QED
    BY <1>3, <2>1, <2>3 DEF RenewBy, CallFits
<1>4. ASSUME NEW w \in Workers, NEW c \in Call, ReleaseBy(w, c) \/ CompleteBy(w, c)
      PROVE  handle'[v] = handle[v]
  BY <1>1, <1>4 DEF ReleaseBy, CompleteBy
<1>5. ASSUME NEW w \in Workers, NEW c \in Call, NEW h \in Handle \cup {None}, StartBy(w, c, h)
      PROVE  handle'[v] = handle[v]
  BY <1>1, <1>5 DEF StartBy
<1>6. CASE Tick
  BY <1>6, TickFacts DEF TasksInv
<1>7. CASE Shrinks
  BY <1>7 DEF Shrinks
<1> QED
  BY <1>2, <1>3, <1>4, <1>5, <1>6, <1>7, StepCases DEF TasksInv, Transaction

\* Only a start writes a start receipt.
LEMMA StartsKept ==
  ASSUME TasksInv, [Next]_vars
  PROVE  \/ UNCHANGED starts
         \/ \E w \in Workers, c \in Call, h \in Handle \cup {None} : StartBy(w, c, h)
<1>1. CASE Transaction
  BY <1>1 DEF Transaction, ClaimBy, RenewBy, ReleaseBy, CompleteBy, receipts
<1>2. CASE Tick
  BY <1>2 DEF Tick, receipts
<1>3. CASE UNCHANGED <<leases, receipts>>
  BY <1>3 DEF receipts
<1> QED
  BY <1>1, <1>2, <1>3, StepCases DEF TasksInv

\* What a start leaves of its Task.
LEMMA StartBegins ==
  ASSUME TasksInv, NEW w \in Workers, NEW c \in Call, NEW h \in Handle \cup {None},
         StartBy(w, c, h)
  PROVE  /\ c.task \in Tasks /\ executions[<<c.task, 1>>] = None
         /\ \A t \in Tasks : Started(t)' => Started(t) \/ t = c.task
         /\ tasks'[c.task] # None /\ tasks'[c.task].revision = 1
         /\ tasks'[c.task].current = <<c.task, 1>>
         /\ executions'[<<c.task, 1>>] # None
         /\ executions'[<<c.task, 1>>].revision = 1
<1>1. c.task \in Tasks /\ <<c.task, 1>> \in Executions
  BY Attempts DEF Call
<1>2. PICK a \in TaskRow : a = tasks[c.task]
  BY <1>1 DEF StartBy, HasStatus, TasksInv, RowsInv
<1>3. PICK b : b = [a EXCEPT !.status = "RUNNING", !.revision = 1, !.reason = "code",
                             !.current = <<c.task, 1>>, !.attempts = 1]
  OBVIOUS
<1>4. b.revision = 1 /\ b.current = <<c.task, 1>> /\ tasks' = [tasks EXCEPT ![c.task] = b]
  BY <1>2, <1>3 DEF StartBy, StartPair, TaskRow
<1>5. tasks'[c.task] = b
  BY <1>1, <1>4 DEF TasksInv, RowsInv
<1>6. RowsStep
  BY StartWrites DEF TasksInv
<1>7. tasks'[c.task] # None
  BY <1>1, <1>6, RowsKept DEF TasksInv, StartBy, HasStatus
<1>8. executions'[<<c.task, 1>>] = [status |-> "RUNNING", revision |-> 1, reason |-> "code"]
  BY <1>1 DEF StartBy, StartPair, TasksInv, RowsInv
<1>9. [status |-> "RUNNING", revision |-> 1, reason |-> "code"] \in ExecutionRow
  BY DEF ExecutionRow, ExecutionStates, TaskStates, Reasons
<1>10. executions'[<<c.task, 1>>] # None
  BY <1>8, <1>9, Attempts
<1>11. \A t \in Tasks : Started(t)' => Started(t) \/ t = c.task
  BY ReceiptWrites DEF Started, TasksInv
<1> QED
  BY <1>1, <1>4, <1>5, <1>7, <1>8, <1>10, <1>11 DEF StartBy

\* What a call in flight may overwrite is not newer than its clock.
LEMMA TimesKept ==
  ASSUME TasksInv, SinceInv, RowsStep, [Next]_vars, NEW c \in Call, NEW d \in Call,
         StartInTime(c), CompleteInTime(c),
         d.op = c.op, d.task = c.task, d.exec = c.exec,
         c.op = "complete" => c.exec \in Executions,
         \/ ~Tick /\ d.age = c.age
         \/ Tick /\ d.age = c.age + 1
  PROVE  StartInTime(d)' /\ CompleteInTime(d)'
<1>1. /\ \A t \in Tasks : tasks[t] # None =>
           /\ tasks'[t] # None
           /\ \/ TaskFollows(tasks[t], tasks'[t])
              \/ tasks'[t] = tasks[t] /\ (Tick \/ taskSince'[t] = taskSince[t])
      /\ \A x \in Executions : executions[x] # None =>
           /\ executions'[x] # None
           /\ \/ ExecutionFollows(executions[x], executions'[x])
              \/ /\ executions'[x] = executions[x]
                 /\ Tick \/ executionSince'[x] = executionSince[x]
  BY RowTimes DEF TasksInv, SinceInv
<1>2. /\ \A t \in Tasks : tasks[t] # None => tasks[t].revision \in Nat
      /\ \A x \in Executions : executions[x] # None => executions[x].revision \in Nat
  BY Attempts DEF TasksInv, RowsInv, TaskRow, ExecutionRow
<1>3. /\ \A t \in Tasks : c.age <= taskSince[t] /\ (Tick \/ taskSince'[t] = taskSince[t])
           => d.age <= taskSince'[t]
      /\ \A x \in Executions :
           c.age <= executionSince[x] /\ (Tick \/ executionSince'[x] = executionSince[x])
             => d.age <= executionSince'[x]
  <2>1. c.age \in 0..Patience /\ d.age \in 0..Patience
    BY DEF Call
  <2>2. CASE Tick /\ d.age = c.age + 1
    <3>1. c.age < Patience
      BY <2>1, <2>2, TableAssumption
    <3>2. /\ \A t \in Tasks : c.age <= taskSince[t] => d.age <= Later(taskSince[t])
          /\ \A x \in Executions :
               c.age <= executionSince[x] => d.age <= Later(executionSince[x])
      BY <2>1, <2>2, <3>1, LaterRange DEF SinceInv
    <3>3. /\ \A t \in Tasks : taskSince'[t] = Later(taskSince[t])
          /\ \A x \in Executions : executionSince'[x] = Later(executionSince[x])
      BY <2>2 DEF Tick
    <3> QED
      BY <3>2, <3>3
  <2>3. CASE ~Tick /\ d.age = c.age
    BY <2>3
  <2> QED
    BY <2>2, <2>3
<1>4. StartInTime(d)'
  <2>1. SUFFICES ASSUME c.op = "start"
                 PROVE  /\ tasks'[c.task] # None
                        /\ tasks'[c.task].revision = 0 => d.age <= taskSince'[c.task]
    BY DEF StartInTime
  <2>2. /\ c.task \in Tasks /\ tasks[c.task] # None
        /\ tasks[c.task].revision = 0 => c.age <= taskSince[c.task]
    BY <2>1 DEF StartInTime, Call
  <2>3. TaskFollows(tasks[c.task], tasks'[c.task]) => tasks'[c.task].revision # 0
    BY <1>2, <2>2 DEF TaskFollows
  <2> QED
    BY <1>1, <1>3, <2>2, <2>3
<1>5. CompleteInTime(d)'
  <2>1. SUFFICES ASSUME c.op = "complete"
                 PROVE  /\ executions'[c.exec] # None
                        /\ \A t \in Tasks : c.exec = <<t, 1>> /\ Started(t)' =>
                             /\ tasks'[t].revision = 1 => d.age <= taskSince'[t]
                             /\ executions'[<<t, 1>>].revision = 1 =>
                                  d.age <= executionSince'[<<t, 1>>]
    BY DEF CompleteInTime
  <2>2. c.exec \in Executions /\ executions[c.exec] # None
    BY <2>1 DEF CompleteInTime
  <2>3. ASSUME NEW t \in Tasks, c.exec = <<t, 1>>, Started(t)'
        PROVE  /\ tasks'[t].revision = 1 => d.age <= taskSince'[t]
               /\ executions'[<<t, 1>>].revision = 1 => d.age <= executionSince'[<<t, 1>>]
    <3>1. Started(t)
      <4>1. CASE UNCHANGED starts
        BY <2>3, <4>1 DEF Started
      <4>2. ASSUME NEW w \in Workers, NEW k \in Call, NEW h \in Handle \cup {None},
                   StartBy(w, k, h)
            PROVE  Started(t)
        BY <2>2, <2>3, <4>2, StartBegins
      <4> QED
        BY <4>1, <4>2, StartsKept
    <3>2. Begun(t)
      BY <3>1 DEF SinceInv
    <3>3. <<t, 1>> \in Executions
      BY Attempts
    <3>4. TaskFollows(tasks[t], tasks'[t]) => tasks'[t].revision # 1
      BY <1>2, <3>2 DEF TaskFollows, Begun
    <3>5. ExecutionFollows(executions[<<t, 1>>], executions'[<<t, 1>>])
            => executions'[<<t, 1>>].revision # 1
      BY <1>2, <3>2, <3>3 DEF ExecutionFollows, Begun
    <3>6. /\ tasks[t].revision = 1 => c.age <= taskSince[t]
          /\ executions[<<t, 1>>].revision = 1 => c.age <= executionSince[<<t, 1>>]
      BY <2>1, <2>3, <3>1 DEF CompleteInTime
    <3>7. /\ \/ TaskFollows(tasks[t], tasks'[t])
             \/ tasks'[t] = tasks[t] /\ (Tick \/ taskSince'[t] = taskSince[t])
          /\ \/ ExecutionFollows(executions[<<t, 1>>], executions'[<<t, 1>>])
             \/ /\ executions'[<<t, 1>>] = executions[<<t, 1>>]
                /\ Tick \/ executionSince'[<<t, 1>>] = executionSince[<<t, 1>>]
      BY <1>1, <3>2, <3>3 DEF Begun
    <3> QED
      BY <1>3, <3>3, <3>4, <3>5, <3>6, <3>7
  <2> QED
    BY <1>1, <2>2, <2>3
<1> QED
  BY <1>4, <1>5

LEMMA BegunKept ==
  ASSUME TasksInv, SinceInv, RowsStep, NEW t \in Tasks, Begun(t)
  PROVE  Begun(t)'
<1>1. <<t, 1>> \in Executions
  BY Attempts
<1>2. /\ tasks[t].revision \in Nat /\ executions[<<t, 1>>].revision \in Nat
  BY <1>1, Attempts DEF TasksInv, RowsInv, TaskRow, ExecutionRow, Begun
<1>3. /\ tasks'[t] # None /\ executions'[<<t, 1>>] # None
      /\ TaskFollows(tasks[t], tasks'[t]) \/ tasks'[t] = tasks[t]
      /\ \/ ExecutionFollows(executions[<<t, 1>>], executions'[<<t, 1>>])
         \/ executions'[<<t, 1>>] = executions[<<t, 1>>]
  BY <1>1, RowTimes DEF TasksInv, SinceInv, Begun
<1>4. /\ tasks'[t].revision >= 1
      /\ tasks'[t].revision = 1 => tasks'[t].current = <<t, 1>>
  BY <1>2, <1>3 DEF Begun, TaskFollows
<1>5. executions'[<<t, 1>>].revision >= 1
  BY <1>2, <1>3 DEF Begun, ExecutionFollows
<1> QED
  BY <1>3, <1>4, <1>5 DEF Begun

LEMMA SinceInit ==
  ASSUME Init
  PROVE  SinceInv
<1>1. Patience \in 0..Patience
  BY TableAssumption
<1> QED
  BY <1>1 DEF Init, SinceInv, Started

LEMMA SinceStep ==
  ASSUME TasksInv, TasksInv', SinceInv, [Next]_vars
  PROVE  SinceInv'
<1>1. RowsStep
  BY RowsSteps DEF TasksInv
<1>2. /\ taskSince' \in [Tasks -> 0..Patience]
      /\ executionSince' \in [Executions -> 0..Patience]
      /\ \A t \in Tasks : tasks[t] # None => tasks'[t] # None
      /\ \A x \in Executions : executions[x] # None => executions'[x] # None
  BY <1>1, RowTimes DEF TasksInv, SinceInv
<1>3. ASSUME NEW t \in Tasks, Started(t)'
      PROVE  Begun(t)'
  <2>1. CASE Started(t)
    BY <1>1, <2>1, BegunKept DEF SinceInv
  <2>2. CASE ~Started(t)
    <3>1. PICK w \in Workers, c \in Call, h \in Handle \cup {None} : StartBy(w, c, h)
      BY <1>3, <2>2, StartsKept DEF Started
    <3>2. t = c.task
      BY <1>3, <2>2, <3>1, StartBegins
    <3>3. /\ tasks'[t] # None /\ tasks'[t].revision = 1 /\ tasks'[t].current = <<t, 1>>
          /\ executions'[<<t, 1>>] # None /\ executions'[<<t, 1>>].revision = 1
      BY <3>1, <3>2, StartBegins
    <3>4. tasks'[t].revision >= 1 /\ executions'[<<t, 1>>].revision >= 1
      BY <3>3
    <3> QED
      BY <3>3, <3>4, Zenon DEF Begun
  <2> QED
    BY <2>1, <2>2
<1>4. ASSUME NEW v \in Workers, handle'[v] # None
      PROVE  tasks'[handle'[v].task] # None
  <2>1. handle'[v].task \in Tasks
    BY <1>4 DEF TasksInv, CallsInv, Handle
  <2>2. tasks[handle'[v].task] # None
    BY <1>4, HandleTasks DEF SinceInv
  <2> QED
    BY <1>2, <2>1, <2>2
<1>5. ASSUME NEW v \in Workers, call'[v] # None
      PROVE  StartInTime(call[v])' /\ CompleteInTime(call[v])'
  <2>1. PICK d \in Call : d = call'[v]
    BY <1>5 DEF TasksInv, CallsInv
  <2>2. CASE call[v] # None /\ (Tick \/ call'[v] = call[v])
    <3>1. PICK c \in Call : c = call[v]
      BY <2>2 DEF TasksInv, CallsInv
    <3>2. StartInTime(c) /\ CompleteInTime(c) /\ CallFits(c, handle[v])
      BY <2>2, <3>1 DEF SinceInv, TasksInv, CallsInv
    <3>3. /\ d.op = c.op /\ d.task = c.task /\ d.exec = c.exec
          /\ (~Tick /\ d.age = c.age) \/ (Tick /\ d.age = c.age + 1)
      <4>1. CASE Tick
        <5>1. d = [c EXCEPT !.age = c.age + 1]
          BY <2>1, <2>2, <3>1, <4>1, TickFacts DEF TasksInv
        <5> QED
          BY <4>1, <5>1 DEF Call
      <4>2. CASE ~Tick
        BY <2>1, <2>2, <3>1, <4>2
      <4> QED
        BY <4>1, <4>2
    <3>4. StartInTime(d)' /\ CompleteInTime(d)'
      BY <1>1, <3>2, <3>3, TimesKept DEF CallFits
    <3> QED
      BY <2>1, <3>4 DEF StartInTime, CompleteInTime
  <2>3. CASE FreshCall(v, d)
    <3>1. d.op = "start" => d.task \in Tasks /\ tasks[d.task] # None
      BY <2>3 DEF FreshCall, SinceInv, Call
    <3>2. /\ \A t \in Tasks : 0 <= taskSince'[t]
          /\ \A t \in Tasks : 0 <= executionSince'[<<t, 1>>]
      BY <1>2, Attempts, TableAssumption
    <3>3. StartInTime(d)' /\ CompleteInTime(d)'
      BY <1>2, <2>3, <3>1, <3>2 DEF FreshCall, StartInTime, CompleteInTime
    <3> QED
      BY <2>1, <3>3 DEF StartInTime, CompleteInTime
  <2>4. \/ call[v] # None /\ call'[v] = call[v]
        \/ FreshCall(v, d)
        \/ Tick /\ call[v] # None
    BY <1>5, <2>1, CallTimes, TickFacts DEF TasksInv
  <2> QED
    BY <2>2, <2>3, <2>4
<1> QED
  BY <1>2, <1>3, <1>4, <1>5 DEF SinceInv

\* A start or a completion that may still succeed read its clock after the rows
\* it will write were written, if a Worker started the Task.
LEMMA ClocksInOrder == Spec => [](TasksInv /\ SinceInv)
<1>1. Init => SinceInv
  BY SinceInit
<1>2. TasksInv /\ TasksInv' /\ SinceInv /\ [Next]_vars => SinceInv'
  BY SinceStep
<1> QED
  BY <1>1, <1>2, TasksInvariant, PTL DEF Spec

LEMMA WriteTimes ==
  ASSUME CallsInv, [Next]_vars
  PROVE  \/ \E w \in Workers, c \in Call, h \in Handle \cup {None} : StartBy(w, c, h)
         \/ \E w \in Workers, c \in Call : CompleteBy(w, c)
         \/ UNCHANGED <<tasks, executions>>
         \/ \E t \in Tasks : UNCHANGED executions /\ taskSince' = [taskSince EXCEPT ![t] = 0]
              /\ \E b : tasks' = [tasks EXCEPT ![t] = b]
         \/ \E x \in Executions : UNCHANGED tasks
              /\ executionSince' = [executionSince EXCEPT ![x] = 0]
              /\ \E b : executions' = [executions EXCEPT ![x] = b]
<1>1. ASSUME NEW w \in Workers, WorkerStep(w)
      PROVE  \/ \E c \in Call, h \in Handle \cup {None} : StartBy(w, c, h)
             \/ \E c \in Call : CompleteBy(w, c)
             \/ UNCHANGED <<tasks, executions>>
  <2>1. CASE Start(w) \/ Complete(w)
    BY <2>1, Transactions
  <2>2. CASE Claim(w) \/ Renew(w) \/ Release(w)
    BY <2>2, Zenon DEF Claim, Renew, Release, rows
  <2>3. CASE CallLease(w) \/ CallExecution(w) \/ Refused(w) \/ GiveUp(w) \/ Crash(w)
    BY <2>3, Zenon DEF CallLease, CallExecution, Refused, GiveUp, Crash, tableVars, rows
  <2> QED
    BY <1>1, <2>1, <2>2, <2>3 DEF WorkerStep
<1>2. ASSUME NEW t \in Tasks, NEW deps \in SUBSET Tasks,
             Dispatch(t, deps) \/ CreateTask(t, deps)
      PROVE  /\ UNCHANGED executions /\ taskSince' = [taskSince EXCEPT ![t] = 0]
             /\ tasks' = [tasks EXCEPT ![t] = PendingTask(deps)]
  BY <1>2 DEF Dispatch, CreateTask
<1>3. ASSUME NEW t \in Tasks, NEW to \in TaskStates, NEW x \in Executions \cup {None},
             TransitionTask(t, to, x)
      PROVE  /\ UNCHANGED executions /\ taskSince' = [taskSince EXCEPT ![t] = 0]
             /\ tasks' = [tasks EXCEPT ![t] = Planned(t, to, x)]
  BY <1>3 DEF TransitionTask
<1>4. ASSUME NEW x \in Executions, CreateExecution(x)
      PROVE  /\ UNCHANGED tasks /\ executionSince' = [executionSince EXCEPT ![x] = 0]
             /\ \E b : executions' = [executions EXCEPT ![x] = b]
  BY <1>4 DEF CreateExecution
<1>5. ASSUME NEW x \in Executions, NEW to \in ExecutionStates, TransitionExecution(x, to)
      PROVE  /\ UNCHANGED tasks /\ executionSince' = [executionSince EXCEPT ![x] = 0]
             /\ \E b : executions' = [executions EXCEPT ![x] = b]
  BY <1>5 DEF TransitionExecution
<1>6. CASE \E to \in ExecutionStates : TransitionCoordinator(to)
  BY <1>6 DEF TransitionCoordinator
<1>7. CASE Tick
  BY <1>7 DEF Tick, rows
<1>8. CASE UNCHANGED vars
  BY <1>8 DEF vars
<1> QED
  BY <1>1, <1>2, <1>3, <1>4, <1>5, <1>6, <1>7, <1>8 DEF Next, LifecycleStep

\* updated_at does not go back, except where a Worker ends an unstarted Task.
LEMMA TimeGoesOn ==
  ASSUME TasksInv, SinceInv, [Next]_vars
  PROVE  /\ \A t \in Tasks :
              tasks[t] # None /\ tasks'[t] # tasks[t] /\ ~EndsUnstarted(t)
                => InOrder(taskSince[t], taskSince'[t])
         /\ \A x \in Executions :
              executions[x] # None /\ executions'[x] # executions[x] /\ ~EndsUnstarted(x[1])
                => InOrder(executionSince[x], executionSince'[x])
<1> DEFINE
     TasksGoOn == \A t \in Tasks :
       tasks[t] # None /\ tasks'[t] # tasks[t] /\ ~EndsUnstarted(t)
         => InOrder(taskSince[t], taskSince'[t])
     ExecutionsGoOn == \A x \in Executions :
       executions[x] # None /\ executions'[x] # executions[x] /\ ~EndsUnstarted(x[1])
         => InOrder(executionSince[x], executionSince'[x])
<1>1. ASSUME NEW w \in Workers, NEW c \in Call, NEW h \in Handle \cup {None}, StartBy(w, c, h)
      PROVE  TasksGoOn /\ ExecutionsGoOn
  <2>1. /\ c # None /\ c.task \in Tasks /\ <<c.task, 1>> \in Executions
    BY Attempts, TableAssumption DEF Call
  <2>2. StartInTime(c)
    BY <1>1, <2>1 DEF StartBy, SinceInv
  <2>3. tasks[c.task].revision = 0
    BY <1>1, <2>1 DEF StartBy, HasStatus, TasksInv, RowsInv, TaskShape
  <2>4. c.age <= taskSince[c.task]
    BY <1>1, <2>2, <2>3 DEF StartBy, StartInTime
  <2>5. /\ \A t \in Tasks : t # c.task => tasks'[t] = tasks[t]
        /\ \A x \in Executions : x # <<c.task, 1>> => executions'[x] = executions[x]
        /\ executions[<<c.task, 1>>] = None
    BY <1>1, <2>1 DEF StartBy, StartPair, TasksInv, RowsInv
  <2>6. taskSince'[c.task] = c.age
    BY <1>1, <2>1 DEF StartBy, UpdatedAt, SinceInv
  <2> QED
    BY <2>4, <2>5, <2>6 DEF InOrder
<1>2. ASSUME NEW w \in Workers, NEW c \in Call, CompleteBy(w, c)
      PROVE  TasksGoOn /\ ExecutionsGoOn
  <2>1. c # None /\ c.task \in Tasks /\ c.exec \in Executions
    BY <1>2, CompleteWrites, TableAssumption DEF TasksInv, Call
  <2>2. CompleteInTime(c)
    BY <1>2, <2>1 DEF CompleteBy, SinceInv
  <2>3. /\ \A t \in Tasks : t # c.task => tasks'[t] = tasks[t]
        /\ \A x \in Executions : x # c.exec => executions'[x] = executions[x]
        /\ taskSince'[c.task] = c.age /\ executionSince'[c.exec] = c.age
    <3>1. PICK a : tasks' = [tasks EXCEPT ![c.task] = a]
      BY <1>2, Zenon DEF CompleteBy, FinishPair
    <3>2. PICK e : executions' = [executions EXCEPT ![c.exec] = e]
      BY <1>2, Zenon DEF CompleteBy, FinishPair
    <3>3. /\ taskSince' = [taskSince EXCEPT ![c.task] = c.age]
          /\ executionSince' = [executionSince EXCEPT ![c.exec] = c.age]
      BY <1>2, Zenon DEF CompleteBy, UpdatedAt
    <3> QED
      BY <2>1, <3>1, <3>2, <3>3 DEF TasksInv, RowsInv, SinceInv
  <2>4. c.exec[1] = c.task
    BY <1>2 DEF CompleteBy
  <2>5. CASE Started(c.task)
    <3>1. Begun(c.task)
      BY <2>1, <2>5 DEF SinceInv
    <3>2. c.exec = <<c.task, 1>> /\ tasks[c.task].revision = 1
          /\ executions[c.exec].revision = 1
      BY <1>2, <3>1 DEF CompleteBy, Begun
    <3>3. c.age <= taskSince[c.task] /\ c.age <= executionSince[c.exec]
      BY <1>2, <2>1, <2>2, <2>5, <3>2 DEF CompleteBy, CompleteInTime
    <3> QED
      BY <2>3, <3>3 DEF InOrder
  <2>6. CASE ~Started(c.task)
    <3>1. EndsUnstarted(c.task)
      <4>1. /\ c.request \in Requests /\ completions[c.request] = None
            /\ completions'[c.request] # None /\ completions'[c.request].task = c.task
        BY <1>2, ReceiptWrites DEF TasksInv, CompleteBy
      <4> QED
        BY <2>6, <4>1 DEF EndsUnstarted, Started
    <3> QED
      BY <2>3, <2>4, <3>1
  <2> QED
    BY <2>5, <2>6
<1>3. /\ \A t \in Tasks : 0 <= taskSince[t]
      /\ \A x \in Executions : 0 <= executionSince[x]
  BY TableAssumption DEF SinceInv
<1>4. ASSUME NEW s \in Tasks, UNCHANGED executions,
             taskSince' = [taskSince EXCEPT ![s] = 0],
             NEW b, tasks' = [tasks EXCEPT ![s] = b]
      PROVE  TasksGoOn /\ ExecutionsGoOn
  BY <1>3, <1>4 DEF InOrder, TasksInv, RowsInv, SinceInv
<1>5. ASSUME NEW s \in Executions, UNCHANGED tasks,
             executionSince' = [executionSince EXCEPT ![s] = 0],
             NEW b, executions' = [executions EXCEPT ![s] = b]
      PROVE  TasksGoOn /\ ExecutionsGoOn
  BY <1>3, <1>5 DEF InOrder, TasksInv, RowsInv, SinceInv
<1>6. CASE UNCHANGED <<tasks, executions>>
  BY <1>6
<1> QED
  BY <1>1, <1>2, <1>4, <1>5, <1>6, WriteTimes DEF TasksInv

-----------------------------------------------------------------------------
\* What follows of every behaviour

\* Every variable keeps its type.
THEOREM TaskTypes == Spec => []TypeOK
<1>1. TasksInv /\ SinceInv => TypeOK
  BY DEF TasksInv, SinceInv, RowsInv, CallsInv, RecordsInv, TypeOK
<1> QED
  BY <1>1, ClocksInOrder, PTL

\* Two Workers never both hold a Lease of one Task that each may believe to be
\* unexpired, however long calls wait and whatever answers are lost.
THEOREM LeasesExclude == Spec => []ExclusiveLease
<1>1. TasksInv => ExclusiveLease
  BY DEF TasksInv, LeasesInv
<1> QED
  BY <1>1, TasksInvariant, PTL

\* The lease row of a started Task is the one it was started with, or gone.
THEOREM StartedLeases == Spec => []StartedLeaseKept
<1>1. TasksInv => StartedLeaseKept
  BY DEF TasksInv, ReceiptsInv
<1> QED
  BY <1>1, TasksInvariant, PTL

\* A Task is started once and completed once, and its starter completes it, by
\* whatever request ids the Workers try.
THEOREM OneReceipt == Spec => []OneReceiptEach
<1>1. TasksInv => OneReceiptEach
  BY DEF TasksInv, ReceiptsInv
<1> QED
  BY <1>1, TasksInvariant, PTL

\* Every writer of a row leaves what the validators' _is_next calls the next
\* revision of it, in time too unless a Worker ends a Task that no Worker
\* started; no terminal row is written again.
THEOREM LegalRows == Spec => RowsEvolve
<1>1. TasksInv /\ SinceInv /\ [Next]_vars =>
        /\ \A t \in Tasks : tasks[t] # None /\ tasks'[t] # tasks[t] =>
             IF EndsUnstarted(t) THEN TaskFollows(tasks[t], tasks'[t])
             ELSE IsNextTask(tasks[t], tasks'[t], taskSince[t], taskSince'[t])
        /\ \A x \in Executions : executions[x] # None /\ executions'[x] # executions[x] =>
             IF EndsUnstarted(x[1]) THEN ExecutionFollows(executions[x], executions'[x])
             ELSE IsNextExecution(executions[x], executions'[x],
                                  executionSince[x], executionSince'[x])
  <2> SUFFICES ASSUME TasksInv, SinceInv, [Next]_vars
               PROVE  <1>1!2
    OBVIOUS
  <2>1. /\ \A t \in Tasks : tasks[t] # None /\ tasks'[t] # tasks[t] =>
             TaskFollows(tasks[t], tasks'[t])
        /\ \A x \in Executions : executions[x] # None /\ executions'[x] # executions[x] =>
             ExecutionFollows(executions[x], executions'[x])
    BY RowsSteps, RowsKept DEF TasksInv
  <2> QED
    BY <2>1, TimeGoesOn, Zenon DEF IsNextTask, IsNextExecution
<1> QED
  BY <1>1, ClocksInOrder, PTL DEF Spec, RowsEvolve

-----------------------------------------------------------------------------
\* While only Workers move the rows

Ended(t, f) ==
  \E r \in Requests :
    completions[r] # None /\ completions[r].task = t /\ completions[r].final = f

\* Task, Execution, lease and receipts of one Task.
PairOf(t) ==
  /\ tasks[t] = None \/ HasStatus(t, "PENDING") => executions[<<t, 1>>] = None
  /\ HasStatus(t, "RUNNING") =>
       Started(t) /\ tasks[t].current = <<t, 1>> /\ IsExecution(<<t, 1>>, "RUNNING")
  /\ \A f \in {"SUCCEEDED", "FAILED"} : HasStatus(t, f) =>
       Started(t) /\ Ended(t, f) /\ IsExecution(<<t, 1>>, f) /\ leases[t] = None

PairInv == DependenciesFirst /\ \A t \in Tasks : PairOf(t)

LEMMA WorkersOnly ==
  ASSUME ~Lifecycle, CallsInv, RecordsInv, [Next]_vars
  PROVE  \/ \E t \in Tasks, deps \in SUBSET Tasks : Dispatch(t, deps)
         \/ \E w \in Workers, c \in Call, h \in Handle \cup {None} : StartBy(w, c, h)
         \/ \E w \in Workers, c \in Call : CompleteBy(w, c)
         \/ /\ UNCHANGED <<tasks, executions, starts, completions>>
            /\ \A t \in Tasks : leases[t] = None /\ leases'[t] # None =>
                 HasStatus(t, "PENDING")
<1>1. CASE UNCHANGED <<tasks, executions, starts, completions, leases>>
  BY <1>1
<1>2. ASSUME NEW w \in Workers, WorkerStep(w)
      PROVE  \/ \E c \in Call, h \in Handle \cup {None} : StartBy(w, c, h)
             \/ \E c \in Call : CompleteBy(w, c)
             \/ /\ UNCHANGED <<tasks, executions, starts, completions>>
                /\ \A t \in Tasks : leases[t] = None /\ leases'[t] # None =>
                     HasStatus(t, "PENDING")
  <2>1. CASE Start(w) \/ Complete(w)
    BY <2>1, Transactions
  <2>2. CASE Claim(w)
    <3>1. PICK c \in Call, k \in Tokens : ClaimBy(w, c, k)
      BY <2>2, Transactions
    <3>2. \A t \in Tasks : t # c.task => leases'[t] = leases[t]
      BY <3>1, LeaseWrites
    <3>3. HasStatus(c.task, "PENDING") /\ UNCHANGED <<rows, receipts>>
      BY <3>1 DEF ClaimBy, Claimable
    <3> QED
      BY <3>2, <3>3 DEF rows, receipts
  <2>3. CASE Renew(w)
    <3>1. PICK c \in Call : RenewBy(w, c)
      BY <2>3, Transactions
    <3>2. \A t \in Tasks : t # c.task => leases'[t] = leases[t]
      BY <3>1, LeaseWrites
    <3>3. leases[c.task] # None /\ UNCHANGED <<rows, receipts>>
      BY <3>1 DEF RenewBy, Owns
    <3> QED
      BY <3>2, <3>3 DEF rows, receipts
  <2>4. CASE Release(w)
    <3>1. PICK c \in Call : ReleaseBy(w, c)
      BY <2>4, Transactions
    <3>2. leases'[c.task] = None /\ \A t \in Tasks : t # c.task => leases'[t] = leases[t]
      BY <3>1, LeaseWrites
    <3>3. UNCHANGED <<rows, receipts>>
      BY <3>1 DEF ReleaseBy
    <3> QED
      BY <3>2, <3>3 DEF rows, receipts
  <2>5. CASE CallLease(w) \/ CallExecution(w) \/ Refused(w) \/ GiveUp(w) \/ Crash(w)
    <3>1. UNCHANGED tableVars
      BY <2>5, Zenon DEF CallLease, CallExecution, Refused, GiveUp, Crash
    <3> QED
      BY <3>1 DEF tableVars, rows, receipts
  <2> QED
    BY <1>2, <2>1, <2>2, <2>3, <2>4, <2>5 DEF WorkerStep
<1>3. ~LifecycleStep
  BY DEF LifecycleStep, CreateTask, TransitionTask, CreateExecution,
    TransitionExecution, TransitionCoordinator
<1>4. CASE Tick
  <2>1. UNCHANGED <<rows, receipts>> /\ \A t \in Tasks : leases[t] = None => leases'[t] = None
    BY <1>4, TickFacts DEF Tick
  <2> QED
    BY <2>1 DEF rows, receipts
<1>5. CASE UNCHANGED vars
  BY <1>1, <1>5 DEF vars
<1> QED
  BY <1>2, <1>3, <1>4, <1>5 DEF Next

\* The rows that a start and a completion write.
LEMMA PairWrites ==
  ASSUME RowsInv, CallsInv, NEW w \in Workers, NEW c \in Call
  PROVE  /\ c.task \in Tasks /\ <<c.task, 1>> \in Executions
         /\ \A h \in Handle \cup {None} : StartBy(w, c, h) =>
              /\ HasStatus(c.task, "RUNNING")' /\ tasks'[c.task].current = <<c.task, 1>>
              /\ tasks'[c.task].deps = tasks[c.task].deps
              /\ IsExecution(<<c.task, 1>>, "RUNNING")'
              /\ \A t \in Tasks : t # c.task =>
                   tasks'[t] = tasks[t] /\ executions'[<<t, 1>>] = executions[<<t, 1>>]
         /\ CompleteBy(w, c) =>
              /\ tasks'[c.task] # None /\ tasks'[c.task].status = c.final
              /\ tasks'[c.task].deps = tasks[c.task].deps
              /\ executions'[c.exec] # None /\ executions'[c.exec].status = c.final
              /\ \A t \in Tasks : t # c.task => tasks'[t] = tasks[t]
              /\ \A x \in Executions : x # c.exec => executions'[x] = executions[x]
<1>1. c.task \in Tasks /\ <<c.task, 1>> \in Executions
  BY Attempts DEF Call
<1>2. ASSUME NEW h \in Handle \cup {None}, StartBy(w, c, h)
      PROVE  /\ HasStatus(c.task, "RUNNING")' /\ tasks'[c.task].current = <<c.task, 1>>
             /\ tasks'[c.task].deps = tasks[c.task].deps
             /\ IsExecution(<<c.task, 1>>, "RUNNING")'
             /\ \A t \in Tasks : t # c.task =>
                  tasks'[t] = tasks[t] /\ executions'[<<t, 1>>] = executions[<<t, 1>>]
  <2>1. PICK a \in TaskRow : a = tasks[c.task]
    BY <1>1, <1>2 DEF StartBy, HasStatus, RowsInv
  <2>2. PICK b : b = [a EXCEPT !.status = "RUNNING", !.revision = 1, !.reason = "code",
                               !.current = <<c.task, 1>>, !.attempts = 1]
    OBVIOUS
  <2>3. tasks' = [tasks EXCEPT ![c.task] = b]
    BY <1>1, <1>2, <2>1, <2>2 DEF StartBy, StartPair, RowsInv
  <2>4. /\ b \in TaskRow /\ b.status = "RUNNING" /\ b.current = <<c.task, 1>>
        /\ b.deps = a.deps
    BY <1>1, <2>1, <2>2, Attempts, Domains DEF TaskRow
  <2>5. PICK e : e = [status |-> "RUNNING", revision |-> 1, reason |-> "code"]
    OBVIOUS
  <2>6. executions' = [executions EXCEPT ![<<c.task, 1>>] = e]
    BY <1>2, <2>5 DEF StartBy, StartPair
  <2>7. e \in ExecutionRow /\ e.status = "RUNNING"
    BY <2>5 DEF ExecutionRow, ExecutionStates, TaskStates, Reasons
  <2>8. b # None /\ e # None
    BY <2>4, <2>7, Attempts
  <2>9. /\ tasks'[c.task] = b /\ \A t \in Tasks : t # c.task => tasks'[t] = tasks[t]
    BY <1>1, <2>3 DEF RowsInv
  <2>10. /\ executions'[<<c.task, 1>>] = e
         /\ \A t \in Tasks : t # c.task => executions'[<<t, 1>>] = executions[<<t, 1>>]
    BY <1>1, <2>6, Attempts DEF RowsInv
  <2> QED
    BY <2>1, <2>4, <2>7, <2>8, <2>9, <2>10 DEF HasStatus, IsExecution
<1>3. ASSUME CompleteBy(w, c)
      PROVE  /\ tasks'[c.task] # None /\ tasks'[c.task].status = c.final
             /\ tasks'[c.task].deps = tasks[c.task].deps
             /\ executions'[c.exec] # None /\ executions'[c.exec].status = c.final
             /\ \A t \in Tasks : t # c.task => tasks'[t] = tasks[t]
             /\ \A x \in Executions : x # c.exec => executions'[x] = executions[x]
  <2>1. PICK a \in TaskRow : a = tasks[c.task]
    BY <1>1, <1>3 DEF CompleteBy, HasStatus, RowsInv
  <2>2. PICK b : b = [a EXCEPT !.status = c.final, !.revision = 2, !.reason = "code"]
    OBVIOUS
  <2>3. tasks' = [tasks EXCEPT ![c.task] = b]
    BY <1>1, <1>3, <2>1, <2>2 DEF CompleteBy, FinishPair, RowsInv
  <2>4. c.exec \in Executions /\ c.final \in {"SUCCEEDED", "FAILED"}
    BY <1>3, CompleteWrites
  <2>5. b \in TaskRow /\ b.status = c.final /\ b.deps = a.deps
    BY <2>1, <2>2, <2>4, Attempts, Domains DEF TaskRow
  <2>6. PICK e : e = [status |-> c.final, revision |-> 2, reason |-> "code"]
    OBVIOUS
  <2>7. executions' = [executions EXCEPT ![c.exec] = e]
    BY <1>3, <2>6 DEF CompleteBy, FinishPair
  <2>8. e \in ExecutionRow /\ e.status = c.final
    BY <2>4, <2>6 DEF ExecutionRow, ExecutionStates, TaskStates, Reasons
  <2>9. b # None /\ e # None
    BY <2>5, <2>8, Attempts
  <2> QED
    BY <1>1, <2>1, <2>3, <2>4, <2>5, <2>7, <2>8, <2>9 DEF RowsInv
<1> QED
  BY <1>1, <1>2, <1>3

\* Receipts are never deleted or overwritten.
LEMMA ReceiptsStay ==
  ASSUME RowsInv, CallsInv, RecordsInv, NEW w \in Workers, NEW c \in Call
  PROVE  /\ \A h \in Handle \cup {None} : StartBy(w, c, h) =>
              /\ Started(c.task)'
              /\ \A t \in Tasks : Started(t) => Started(t)'
         /\ CompleteBy(w, c) =>
              /\ c.final \in {"SUCCEEDED", "FAILED"} /\ Ended(c.task, c.final)'
              /\ \A t \in Tasks, f \in {"SUCCEEDED", "FAILED"} :
                   Ended(t, f) => Ended(t, f)'
<1>1. ASSUME NEW h \in Handle \cup {None}, StartBy(w, c, h)
      PROVE  Started(c.task)' /\ \A t \in Tasks : Started(t) => Started(t)'
  <2>1. starts[c.request] = None
    BY <1>1 DEF StartBy
  <2>2. /\ c.request \in Requests /\ starts'[c.request] # None
        /\ starts'[c.request].task = c.task
        /\ \A r \in Requests : r # c.request => starts'[r] = starts[r]
    BY <1>1, ReceiptWrites
  <2> QED
    BY <2>1, <2>2 DEF Started
<1>2. ASSUME CompleteBy(w, c)
      PROVE  /\ c.final \in {"SUCCEEDED", "FAILED"} /\ Ended(c.task, c.final)'
             /\ \A t \in Tasks, f \in {"SUCCEEDED", "FAILED"} : Ended(t, f) => Ended(t, f)'
  <2>1. completions[c.request] = None
    BY <1>2 DEF CompleteBy
  <2>2. /\ c.request \in Requests /\ completions'[c.request] # None
        /\ completions'[c.request].task = c.task /\ completions'[c.request].final = c.final
        /\ \A r \in Requests : r # c.request => completions'[r] = completions[r]
    BY <1>2, ReceiptWrites
  <2>3. c.final \in {"SUCCEEDED", "FAILED"}
    BY <1>2, CompleteWrites
  <2> QED
    BY <2>1, <2>2, <2>3 DEF Ended
<1> QED
  BY <1>1, <1>2

\* A step that leaves the rows of a Task alone.
LEMMA PairFrame ==
  ASSUME NEW t \in Tasks, PairOf(t), tasks'[t] = tasks[t],
         executions'[<<t, 1>>] = executions[<<t, 1>>],
         leases[t] = None => leases'[t] = None \/ HasStatus(t, "PENDING"),
         Started(t) => Started(t)',
         \A f \in {"SUCCEEDED", "FAILED"} : Ended(t, f) => Ended(t, f)'
  PROVE  PairOf(t)'
<1>1. HasStatus(t, "RUNNING")' =>
        /\ Started(t)' /\ tasks'[t].current = <<t, 1>> /\ IsExecution(<<t, 1>>, "RUNNING")'
  BY DEF PairOf, HasStatus, IsExecution
<1>2. ASSUME NEW f \in {"SUCCEEDED", "FAILED"}, HasStatus(t, f)'
      PROVE  Started(t)' /\ Ended(t, f)' /\ IsExecution(<<t, 1>>, f)' /\ leases'[t] = None
  BY <1>2 DEF PairOf, HasStatus, IsExecution
<1>3. tasks'[t] = None \/ HasStatus(t, "PENDING")' => executions'[<<t, 1>>] = None
  BY DEF PairOf, HasStatus
<1> QED
  BY <1>1, <1>2, <1>3 DEF PairOf

LEMMA PairStep ==
  ASSUME ~Lifecycle, TasksInv, PairInv, [Next]_vars
  PROVE  PairInv'
<1>1. RowsInv /\ CallsInv /\ RecordsInv /\ RowsStep /\ RowsInv'
  BY RowsSteps, RowsKept DEF TasksInv
<1>2. \A d \in Tasks : HasStatus(d, "SUCCEEDED") => HasStatus(d, "SUCCEEDED")'
  BY <1>1, RowsKept DEF HasStatus, TaskFollows, LegalTaskEdges
<1>3. \A t \in Tasks : tasks[t] # None => tasks[t].deps \in SUBSET Tasks
  BY <1>1 DEF RowsInv, TaskRow
\* Enough for DependenciesFirst: the dependencies of a Task that is started now.
<1>4. ASSUME \A t \in Tasks : tasks'[t] # None /\ tasks'[t].status # "PENDING" =>
               /\ tasks[t] # None /\ tasks'[t].deps = tasks[t].deps
               /\ tasks[t].status # "PENDING" \/ DependenciesReady(t)
      PROVE  DependenciesFirst'
  <2>1. ASSUME NEW t \in Tasks, tasks'[t] # None, tasks'[t].status # "PENDING",
               NEW d \in tasks'[t].deps
        PROVE  HasStatus(d, "SUCCEEDED")'
    <3>1. /\ tasks[t] # None /\ d \in tasks[t].deps
          /\ tasks[t].status # "PENDING" \/ DependenciesReady(t)
      BY <1>4, <2>1
    <3>2. HasStatus(d, "SUCCEEDED")
      BY <3>1 DEF PairInv, DependenciesFirst, DependenciesReady
    <3> QED
      BY <1>2, <1>3, <3>1, <3>2
  <2> QED
    BY <2>1 DEF DependenciesFirst
<1>5. ASSUME NEW s \in Tasks, NEW deps \in SUBSET Tasks, Dispatch(s, deps)
      PROVE  PairInv'
  <2>1. /\ tasks'[s] = PendingTask(deps) /\ \A t \in Tasks : t # s => tasks'[t] = tasks[t]
        /\ tasks[s] = None
    BY <1>1, <1>5 DEF Dispatch, RowsInv
  <2>2. tasks'[s].status = "PENDING" /\ PendingTask(deps) # None
    BY <2>1, NewTaskRow, Attempts
  <2>3. executions' = executions /\ leases' = leases
        /\ starts' = starts /\ completions' = completions
    BY <1>5 DEF Dispatch, receipts
  <2>4. \A t \in Tasks : tasks'[t] # None /\ tasks'[t].status # "PENDING" =>
          tasks'[t] = tasks[t]
    BY <2>1, <2>2
  <2>5. DependenciesFirst'
    BY <1>4, <2>4
  <2>6. ASSUME NEW t \in Tasks, t # s
        PROVE  PairOf(t)'
    BY <2>1, <2>3, <2>6, PairFrame DEF PairInv, Started, Ended
  <2>7. PairOf(s)'
    BY <2>1, <2>2, <2>3 DEF PairInv, PairOf, HasStatus
  <2> QED
    BY <2>5, <2>6, <2>7 DEF PairInv
<1>6. ASSUME NEW w \in Workers, NEW c \in Call, NEW h \in Handle \cup {None},
             StartBy(w, c, h)
      PROVE  PairInv'
  <2>1. /\ c.task \in Tasks
        /\ HasStatus(c.task, "RUNNING")' /\ tasks'[c.task].current = <<c.task, 1>>
        /\ tasks'[c.task].deps = tasks[c.task].deps
        /\ IsExecution(<<c.task, 1>>, "RUNNING")'
        /\ \A t \in Tasks : t # c.task =>
             tasks'[t] = tasks[t] /\ executions'[<<t, 1>>] = executions[<<t, 1>>]
    BY <1>1, <1>6, PairWrites
  <2>2. Started(c.task)' /\ \A t \in Tasks : Started(t) => Started(t)'
    BY <1>1, <1>6, ReceiptsStay
  <2>3. leases' = leases /\ completions' = completions
        /\ HasStatus(c.task, "PENDING") /\ DependenciesReady(c.task)
    BY <1>6 DEF StartBy
  <2>4. DependenciesFirst'
    BY <1>4, <2>1, <2>3 DEF HasStatus
  <2>5. ASSUME NEW t \in Tasks, t # c.task
        PROVE  PairOf(t)'
    BY <2>1, <2>2, <2>3, <2>5, PairFrame DEF PairInv, Ended
  <2>6. PairOf(c.task)'
    BY <2>1, <2>2 DEF PairOf, HasStatus
  <2> QED
    BY <2>4, <2>5, <2>6 DEF PairInv
<1>7. ASSUME NEW w \in Workers, NEW c \in Call, CompleteBy(w, c)
      PROVE  PairInv'
  <2>1. /\ c.task \in Tasks
        /\ tasks'[c.task] # None /\ tasks'[c.task].status = c.final
        /\ tasks'[c.task].deps = tasks[c.task].deps
        /\ executions'[c.exec] # None /\ executions'[c.exec].status = c.final
        /\ \A t \in Tasks : t # c.task => tasks'[t] = tasks[t]
        /\ \A x \in Executions : x # c.exec => executions'[x] = executions[x]
    BY <1>1, <1>7, PairWrites
  <2>2. HasStatus(c.task, "RUNNING") /\ tasks[c.task].current = c.exec
        /\ starts' = starts
    BY <1>7 DEF CompleteBy
  <2>3. c.exec = <<c.task, 1>> /\ Started(c.task)
    BY <2>1, <2>2 DEF PairInv, PairOf
  <2>4. /\ c.final \in {"SUCCEEDED", "FAILED"} /\ Ended(c.task, c.final)'
        /\ \A t \in Tasks, f \in {"SUCCEEDED", "FAILED"} : Ended(t, f) => Ended(t, f)'
    BY <1>1, <1>7, ReceiptsStay
  <2>5. leases'[c.task] = None /\ \A t \in Tasks : t # c.task => leases'[t] = leases[t]
    BY <1>1, <1>7, LeaseWrites
  <2>6. \A t \in Tasks : Started(t) => Started(t)'
    BY <2>2 DEF Started
  <2>7. DependenciesFirst'
    BY <1>4, <2>1, <2>2 DEF HasStatus
  <2>8. ASSUME NEW t \in Tasks, t # c.task
        PROVE  PairOf(t)'
    <3>1. executions'[<<t, 1>>] = executions[<<t, 1>>]
      BY <2>1, <2>3, <2>8, Attempts
    <3> QED
      BY <2>1, <2>4, <2>5, <2>6, <2>8, <3>1, PairFrame DEF PairInv
  <2>9. PairOf(c.task)'
    <3>1. IsExecution(<<c.task, 1>>, c.final)' /\ Started(c.task)'
      BY <2>1, <2>3, <2>6 DEF IsExecution
    <3>2. \A s \in TaskStates : HasStatus(c.task, s)' => s = c.final
      BY <2>1 DEF HasStatus
    <3>3. ~HasStatus(c.task, "PENDING")' /\ ~HasStatus(c.task, "RUNNING")'
      BY <2>1, <2>4 DEF HasStatus
    <3>4. ASSUME NEW f \in {"SUCCEEDED", "FAILED"}, HasStatus(c.task, f)'
          PROVE  Started(c.task)' /\ Ended(c.task, f)' /\ IsExecution(<<c.task, 1>>, f)'
                 /\ leases'[c.task] = None
      <4>1. f = c.final
        BY <2>1, <3>4 DEF HasStatus
      <4> QED
        BY <2>4, <2>5, <3>1, <4>1
    <3> QED
      BY <2>1, <3>3, <3>4 DEF PairOf
  <2> QED
    BY <2>7, <2>8, <2>9 DEF PairInv
<1>8. ASSUME UNCHANGED <<tasks, executions, starts, completions>>,
             \A t \in Tasks : leases[t] = None /\ leases'[t] # None => HasStatus(t, "PENDING")
      PROVE  PairInv'
  <2>1. DependenciesFirst'
    BY <1>4, <1>8 DEF PairInv
  <2>2. ASSUME NEW t \in Tasks
        PROVE  PairOf(t)'
    BY <1>8, <2>2, PairFrame DEF PairInv, Started, Ended
  <2> QED
    BY <2>1, <2>2 DEF PairInv
<1> QED
  BY <1>1, <1>5, <1>6, <1>7, <1>8, WorkersOnly

LEMMA PairInvariant == ~Lifecycle => (Spec => []PairInv)
<1> SUFFICES ASSUME ~Lifecycle
             PROVE  Spec => []PairInv
  OBVIOUS
<1>1. Init => PairInv
  BY Attempts DEF Init, PairInv, PairOf, HasStatus, DependenciesFirst
<1>2. PairInv /\ TasksInv /\ [Next]_vars => PairInv'
  BY PairStep
<1> QED
  BY <1>1, <1>2, TasksInvariant, PTL DEF Spec

\* While only Workers move them, the rows of Task, Execution and lease and the
\* receipts always tell the same story.
THEOREM PairsAgree == ~Lifecycle => (Spec => []PairAgrees)
<1>1. ASSUME TasksInv, PairInv
      PROVE  PairAgrees
  <2>1. ASSUME NEW t \in Tasks
        PROVE  /\ HasStatus(t, "PENDING") => ~Started(t)
               /\ HasStatus(t, "RUNNING") => \A f \in {"SUCCEEDED", "FAILED"} : ~Ended(t, f)
    BY <1>1 DEF TasksInv, ReceiptsInv, HasStatus, Started, Ended, LeftPending, Over,
      TaskTerminal
  <2> QED
    BY <1>1, <2>1 DEF PairInv, PairOf, PairAgrees, Started, Ended
<1>2. TasksInv /\ PairInv => PairAgrees
  BY <1>1
<1> QED
  BY <1>2, TasksInvariant, PairInvariant, PTL

\* No Worker runs a Task before every Task it depends on has SUCCEEDED.
THEOREM DependenciesBefore == ~Lifecycle => (Spec => []DependenciesFirst)
<1>1. PairInv => DependenciesFirst
  BY DEF PairInv
<1> QED
  BY <1>1, PairInvariant, PTL
=============================================================================
