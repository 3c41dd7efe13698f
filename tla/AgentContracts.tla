--------------------------- MODULE AgentContracts ---------------------------
(***************************************************************************)
(* The Contract validators of agent_task and agent_execution, on the       *)
(* columns of the rows that AgentTables models.  The validators keep       *)
(* tables of legal edges of their own.  A row is the next revision of      *)
(* another for them when both are valid snapshots and the second follows   *)
(* the first, in time too; created_at and started_at are never rewritten.  *)
(***************************************************************************)
EXTENDS Integers

LegalTaskEdges ==
  {<<"PENDING", "RUNNING">>, <<"PENDING", "CANCELLED">>,
   <<"PENDING", "SKIPPED">>, <<"RUNNING", "RUNNING">>,
   <<"RUNNING", "SUCCEEDED">>, <<"RUNNING", "FAILED">>,
   <<"RUNNING", "CANCELLED">>}

LegalExecutionEdges ==
  {<<"PENDING", "RUNNING">>, <<"PENDING", "CANCELLED">>,
   <<"RUNNING", "SUCCEEDED">>, <<"RUNNING", "FAILED">>,
   <<"RUNNING", "CANCELLED">>}

\* A status reason has a code and a message; a Task that left PENDING has one.
ValidTask(row) ==
  /\ row.reason # "code"
  /\ row.status # "PENDING" => row.reason # "none"
ValidExecution(row) == row.reason # "code"

\* updated_at may stand still: was and is are the ticks since its value in the
\* first row and in the second.
InOrder(was, is) == is <= was

\* _is_next: b follows a, time aside and with it.
TaskFollows(a, b) ==
  /\ b.revision = a.revision + 1
  /\ <<a.status, b.status>> \in LegalTaskEdges
  /\ b.deps = a.deps
  /\ b.attempts \in {a.attempts, a.attempts + 1}
  /\ b.current # a.current => b.attempts = a.attempts + 1
IsNextTask(a, b, was, is) == TaskFollows(a, b) /\ InOrder(was, is)

\* _is_next_revision: b follows a, time aside and with it.
ExecutionFollows(a, b) ==
  /\ b.revision = a.revision + 1
  /\ <<a.status, b.status>> \in LegalExecutionEdges
IsNextExecution(a, b, was, is) == ExecutionFollows(a, b) /\ InOrder(was, is)
=============================================================================
