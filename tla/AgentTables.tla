---------------------------- MODULE AgentTables -----------------------------
(***************************************************************************)
(* The tables that the Task services of the agent service share, for one   *)
(* Agent Run, the Workers that call the services, and time.  An Execution  *)
(* is named by its unique execution_key: a Task and an attempt.            *)
(*                                                                         *)
(* Time is relative: a lease has the ticks left until expires_at, a call   *)
(* has the ticks that passed since it read its clock.  expires_at > now is *)
(* then left + age > 0, for the `now` a service read before it waited for  *)
(* its locks.  A row has the ticks since its updated_at, up to Patience,   *)
(* beyond which no call tells them apart.  One tick is long against a      *)
(* transaction: all clocks agree.                                          *)
(***************************************************************************)
EXTENDS Integers, FiniteSets

CONSTANTS
  Workers,      \* callers of the services, their owner_id
  Tasks,        \* task ids, each dispatched under a request id of its own
  Tokens,       \* lease tokens
  Requests,     \* request ids of start and of complete
  MaxAttempts,  \* bound: attempts of a Task
  TTL,          \* bound: the longest ttl_seconds, in ticks
  Patience,     \* the longest wait of a call (GET_LOCK and row locks), in ticks
  MaxFaults,    \* bound: crashes of Workers and lost answers
  Lifecycle,    \* TRUE: the lifecycle services are called on the same rows
  None          \* SQL NULL, no row, no call

TaskStates ==
  {"PENDING", "RUNNING", "SUCCEEDED", "FAILED", "CANCELLED", "SKIPPED"}
ExecutionStates == TaskStates \ {"SKIPPED"}
TaskTerminal == TaskStates \ {"PENDING", "RUNNING"}

Executions == Tasks \X (1..MaxAttempts)

\* The status reason of a row: both columns NULL, a code without a message,
\* or both.
Reasons == {"none", "code", "full"}

TaskRow == [status : TaskStates, revision : 0..(MaxAttempts + 1),
            current : Executions \cup {None}, attempts : 0..MaxAttempts,
            deps : SUBSET Tasks, reason : Reasons]
ExecutionRow == [status : ExecutionStates, revision : 0..2, reason : Reasons]
LeaseRow == [owner : Workers, token : Tokens, left : (-Patience)..TTL]

\* What start and complete hash: the command of a request.
Command == [task : Tasks, owner : Workers, token : Tokens]
Completion == [task : Tasks, owner : Workers, token : Tokens,
               exec : Executions, final : {"SUCCEEDED", "FAILED"}]

\* A Lease as claim and renew return it.
Handle == [task : Tasks, token : Tokens, left : (-Patience)..TTL]

Call == [op : {"claim", "renew", "release", "start", "complete"},
         task : Tasks, token : Tokens \cup {None},
         request : Requests \cup {None},
         exec : Executions \cup {None},
         final : {"SUCCEEDED", "FAILED", None},
         ttl : 0..TTL, age : 0..Patience]

ASSUME TableAssumption ==
  /\ MaxAttempts \in Nat \ {0}
  /\ TTL \in Nat \ {0}
  /\ Patience \in Nat
  /\ MaxFaults \in Nat
  /\ Lifecycle \in BOOLEAN
  /\ None \notin TaskRow \cup ExecutionRow \cup LeaseRow \cup Command
                   \cup Completion \cup Handle \cup Call
  /\ None \notin Executions \cup Tokens \cup Requests \cup TaskStates

VARIABLES
  tasks,        \* table agent_tasks with agent_task_dependencies
  executions,   \* table agent_executions, the rows of Specialists
  coordinator,  \* status of the Run's Coordinator row in agent_executions
  taskSince, executionSince,  \* ticks since updated_at of each row
  leases,       \* table agent_task_leases
  starts,       \* table worker_task_execution_start_requests
  completions,  \* table worker_task_execution_completion_requests
  handle,       \* the Lease each Worker was given and has not given up
  call,         \* the call each Worker has in flight
  faults        \* faults so far, bounded by MaxFaults

rows == <<tasks, executions, coordinator>>
receipts == <<starts, completions>>
since == <<taskSince, executionSince>>
tableVars == <<rows, since, leases, receipts>>
vars == <<tasks, executions, coordinator, taskSince, executionSince, leases, starts, completions,
          handle, call, faults>>

TypeOK ==
  /\ tasks \in [Tasks -> TaskRow \cup {None}]
  /\ executions \in [Executions -> ExecutionRow \cup {None}]
  /\ coordinator \in ExecutionStates
  /\ taskSince \in [Tasks -> 0..Patience]
  /\ executionSince \in [Executions -> 0..Patience]
  /\ leases \in [Tasks -> LeaseRow \cup {None}]
  /\ starts \in [Requests -> Command \cup {None}]
  /\ completions \in [Requests -> Completion \cup {None}]
  /\ handle \in [Workers -> Handle \cup {None}]
  /\ call \in [Workers -> Call \cup {None}]
  /\ faults \in 0..MaxFaults

Init ==
  /\ tasks = [t \in Tasks |-> None]
  /\ executions = [x \in Executions |-> None]
  /\ coordinator = "PENDING"
  /\ taskSince = [t \in Tasks |-> Patience]
  /\ executionSince = [x \in Executions |-> Patience]
  /\ leases = [t \in Tasks |-> None]
  /\ starts = [r \in Requests |-> None]
  /\ completions = [r \in Requests |-> None]
  /\ handle = [w \in Workers |-> None]
  /\ call = [w \in Workers |-> None]
  /\ faults = 0

-----------------------------------------------------------------------------
\* Helpers

HasStatus(t, s) == tasks[t] # None /\ tasks[t].status = s
IsExecution(x, s) == executions[x] # None /\ executions[x].status = s

Fault == faults < MaxFaults /\ faults' = faults + 1

Calling(w, op) == call[w] # None /\ call[w].op = op

\* A Worker calls a service, which reads its clock now.
Calls(w, c) == call[w] = None /\ call' = [call EXCEPT ![w] = c]

\* The service returns: the Worker keeps h as its Lease, or the answer is lost
\* and the Worker keeps what it had.
Answer(w, h) ==
  /\ call' = [call EXCEPT ![w] = None]
  /\ \/ /\ handle' = [handle EXCEPT ![w] = h]
        /\ UNCHANGED faults
     \/ /\ Fault
        /\ UNCHANGED handle

\* expires_at > now, for a call that read `now` age ticks ago.
ExpiredEarly(left, age) == left + age > 1   \* mutant: off by one tick
Unexpired(left, age) == left + age > 0

\* expires_at as now + ttl, seen from the tick in which it is written.
Expiry(ttl, age) == IF ttl - age < -Patience THEN -Patience ELSE ttl - age

\* A uuid never repeats; a token that nobody holds may stand for a new one.
HeldTokens ==
  {leases[t].token : t \in {u \in Tasks : leases[u] # None}}
    \cup {handle[w].token : w \in {v \in Workers : handle[v] # None}}
    \cup {call[w].token : w \in {v \in Workers : call[v] # None}}
    \cup {starts[r].token : r \in {q \in Requests : starts[q] # None}}

-----------------------------------------------------------------------------
\* Time and the Workers

Earlier(left) == IF left > -Patience THEN left - 1 ELSE left
Later(ticks) == IF ticks < Patience THEN ticks + 1 ELSE ticks

Tick ==
  /\ \A w \in Workers : call[w] # None => call[w].age < Patience
  /\ leases' = [t \in Tasks |->
       IF leases[t] = None THEN None
       ELSE [leases[t] EXCEPT !.left = Earlier(@)]]
  /\ handle' = [w \in Workers |->
       IF handle[w] = None THEN None
       ELSE [handle[w] EXCEPT !.left = Earlier(@)]]
  /\ call' = [w \in Workers |->
       IF call[w] = None THEN None ELSE [call[w] EXCEPT !.age = @ + 1]]
  /\ taskSince' = [t \in Tasks |-> Later(taskSince[t])]
  /\ executionSince' = [x \in Executions |-> Later(executionSince[x])]
  /\ UNCHANGED <<rows, receipts, faults>>

\* The call ends without an effect: its command is rejected or replayed, a
\* lock wait times out, or the transaction is rolled back.
Refused(w) ==
  /\ call[w] # None
  /\ call' = [call EXCEPT ![w] = None]
  /\ UNCHANGED <<tableVars, handle, faults>>

\* The Worker drops its Lease without telling the service.
GiveUp(w) ==
  /\ call[w] = None
  /\ handle[w] # None
  /\ handle' = [handle EXCEPT ![w] = None]
  /\ UNCHANGED <<tableVars, call, faults>>

\* The Worker restarts and has forgotten its Lease and its call; a transaction
\* of the call that did not commit is rolled back.
Crash(w) ==
  /\ handle[w] # None \/ call[w] # None
  /\ Fault
  /\ handle' = [handle EXCEPT ![w] = None]
  /\ call' = [call EXCEPT ![w] = None]
  /\ UNCHANGED tableVars
=============================================================================
