--------------------------- MODULE TaskLifecycle ----------------------------
(***************************************************************************)
(* CoordinatorTaskDispatchService, AgentTaskLifecycleService and           *)
(* AgentExecutionLifecycleService on the tables of one Run.  A transition  *)
(* is applied by an UPDATE on the expected status and revision, and every  *)
(* write raises the revision, so reading, planning and updating are one    *)
(* step; a miss changes nothing.  Its clock is read after the row it moves *)
(* on from; updated_at is taken to be the tick of the write, the latest    *)
(* that it can be.                                                         *)
(***************************************************************************)
EXTENDS AgentTables

\* Mutant: a RUNNING Task may be SKIPPED.
RunningSkippable == [
  PENDING |-> {"RUNNING", "CANCELLED", "SKIPPED"},
  RUNNING |-> {"RUNNING", "SUCCEEDED", "FAILED", "CANCELLED", "SKIPPED"},
  SUCCEEDED |-> {}, FAILED |-> {}, CANCELLED |-> {}, SKIPPED |-> {}]

TaskLegal == [
  PENDING |-> {"RUNNING", "CANCELLED", "SKIPPED"},
  RUNNING |-> {"RUNNING", "SUCCEEDED", "FAILED", "CANCELLED"},
  SUCCEEDED |-> {}, FAILED |-> {}, CANCELLED |-> {}, SKIPPED |-> {}]

ExecutionLegal == [
  PENDING |-> {"RUNNING", "CANCELLED"},
  RUNNING |-> {"SUCCEEDED", "FAILED", "CANCELLED"},
  SUCCEEDED |-> {}, FAILED |-> {}, CANCELLED |-> {}]

PendingTask(deps) ==
  [status |-> "PENDING", revision |-> 0, current |-> None, attempts |-> 0,
   deps |-> deps, reason |-> "none"]

\* The Coordinator dispatches a Task that depends on Tasks of the Run; the
\* first dispatch also starts a PENDING Coordinator Execution.
Dispatch(t, deps) ==
  /\ coordinator \in {"PENDING", "RUNNING"}
  /\ tasks[t] = None
  /\ \A d \in deps : tasks[d] # None
  /\ coordinator' = "RUNNING"
  /\ tasks' = [tasks EXCEPT ![t] = PendingTask(deps)]
  /\ taskSince' = [taskSince EXCEPT ![t] = 0]
  /\ UNCHANGED <<executions, executionSince, leases, receipts, handle, call, faults>>

\* create_task asks for an existing Run, not for a Coordinator at work.
CreateTask(t, deps) ==
  /\ Lifecycle
  /\ tasks[t] = None
  /\ \A d \in deps : tasks[d] # None
  /\ tasks' = [tasks EXCEPT ![t] = PendingTask(deps)]
  /\ taskSince' = [taskSince EXCEPT ![t] = 0]
  /\ UNCHANGED <<executions, coordinator, executionSince, leases, receipts, handle,
                 call, faults>>

\* plan_transition: x is the execution_id of the command, NULL for CANCELLED
\* and SKIPPED; a new attempt names an Execution other than the current one.
Plannable(t, to, x) ==
  /\ to \in TaskLegal[tasks[t].status]
  /\ to = "RUNNING" => x # None /\ x # tasks[t].current
  /\ to \in {"SUCCEEDED", "FAILED"} => x = tasks[t].current
  /\ to \in {"CANCELLED", "SKIPPED"} => x = None

Planned(t, to, x) ==
  LET row == [tasks[t] EXCEPT !.status = to, !.revision = @ + 1,
                              !.reason = "full"] IN
  IF to = "RUNNING"
  THEN [row EXCEPT !.current = x, !.attempts = @ + 1]
  ELSE row

\* The foreign key of current_execution_id wants an Execution, any Execution.
TransitionTask(t, to, x) ==
  /\ Lifecycle
  /\ tasks[t] # None
  /\ Plannable(t, to, x)
  /\ to = "RUNNING" => executions[x] # None /\ tasks[t].attempts < MaxAttempts
  /\ tasks' = [tasks EXCEPT ![t] = Planned(t, to, x)]
  /\ taskSince' = [taskSince EXCEPT ![t] = 0]
  /\ UNCHANGED <<executions, coordinator, executionSince, leases, receipts, handle,
                 call, faults>>

\* create_execution of a Specialist: the Task exists, the key is new.
CreateExecution(x) ==
  /\ Lifecycle
  /\ tasks[x[1]] # None
  /\ executions[x] = None
  /\ executions' = [executions EXCEPT ![x] =
       [status |-> "PENDING", revision |-> 0, reason |-> "none"]]
  /\ executionSince' = [executionSince EXCEPT ![x] = 0]
  /\ UNCHANGED <<tasks, coordinator, taskSince, leases, receipts, handle, call,
                 faults>>

TransitionExecution(x, to) ==
  /\ Lifecycle
  /\ executions[x] # None
  /\ to \in ExecutionLegal[executions[x].status]
  /\ executions' = [executions EXCEPT
       ![x].status = to, ![x].revision = @ + 1, ![x].reason = "full"]
  /\ executionSince' = [executionSince EXCEPT ![x] = 0]
  /\ UNCHANGED <<tasks, coordinator, taskSince, leases, receipts, handle, call,
                 faults>>

\* The same service on the row of the Coordinator.
TransitionCoordinator(to) ==
  /\ Lifecycle
  /\ to \in ExecutionLegal[coordinator]
  /\ coordinator' = to
  /\ UNCHANGED <<tasks, executions, since, leases, receipts, handle, call, faults>>
=============================================================================
