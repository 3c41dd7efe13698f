-------------------------- MODULE WorkerExecution ---------------------------
(***************************************************************************)
(* WorkerTaskExecutionService: start and complete.  The request id is      *)
(* locked (GET_LOCK) before the receipt is looked for, then the Task row,  *)
(* the lease row and, in complete, the Execution row, so that everything   *)
(* the transaction checks still holds when it commits; only `now` is read  *)
(* before.  A request with a receipt is a replay and changes nothing.      *)
(***************************************************************************)
EXTENDS TaskLease

\* A Worker uses its Lease; the execution id of a completion may come from the
\* answer to start or from another reader of the rows.
CallExecution(w) ==
  /\ handle[w] # None
  /\ \E r \in Requests :
       \/ Calls(w, [LeaseCall("start", handle[w].task, handle[w].token, 0)
                      EXCEPT !.request = r])
       \/ \E x \in Executions, f \in {"SUCCEEDED", "FAILED"} :
            /\ executions[x] # None
            /\ Calls(w, [LeaseCall("complete", handle[w].task, handle[w].token, 0)
                           EXCEPT !.request = r, !.exec = x, !.final = f])
  /\ UNCHANGED <<tableVars, handle, faults>>

DependenciesOver(t) ==                      \* mutant: a failed one counts too
  \A d \in tasks[t].deps : tasks[d].status \in TaskTerminal
DependenciesReady(t) == \A d \in tasks[t].deps : HasStatus(d, "SUCCEEDED")

\* The lease row names this Worker and token and has not expired by `now`.
LeaseValid(w) ==
  LET t == call[w].task IN
  /\ Owns(t, w, call[w].token)
  /\ Unexpired(leases[t].left, call[w].age)

\* updated_at of both rows is the `now` that the call read age ticks ago.
UpdatedAt(t, x, age) ==
  /\ taskSince' = [taskSince EXCEPT ![t] = age]
  /\ executionSince' = [executionSince EXCEPT ![x] = age]

\* INSERT of the RUNNING Execution and UPDATE of the Task, at revision 1.
StartPair(t, x) ==
  /\ executions' = [executions EXCEPT ![x] =
       [status |-> "RUNNING", revision |-> 1, reason |-> "code"]]
  /\ tasks' = [tasks EXCEPT ![t].status = "RUNNING", ![t].revision = 1,
       ![t].reason = "code", ![t].current = x, ![t].attempts = 1]

\* Execution and Task become RUNNING together.  A row with the execution_key of
\* attempt 1 (create_execution may have made one) rolls everything back.
Start(w) ==
  /\ Calling(w, "start")
  /\ LET t == call[w].task
         x == <<t, 1>> IN
       /\ starts[call[w].request] = None
       /\ HasStatus(t, "PENDING")
       /\ tasks[t].revision = 0
       /\ LeaseValid(w)
       /\ DependenciesReady(t)
       /\ executions[x] = None
       /\ StartPair(t, x)
       /\ starts' = [starts EXCEPT ![call[w].request] =
            [task |-> t, owner |-> w, token |-> call[w].token]]
  /\ UpdatedAt(call[w].task, <<call[w].task, 1>>, call[w].age)
  /\ Answer(w, handle[w])
  /\ UNCHANGED <<coordinator, leases, completions>>

\* UPDATE of both rows to the final status and revision 2.
FinishTask(t, x, final) ==                  \* mutant: the Execution is forgotten
  /\ tasks' = [tasks EXCEPT ![t].status = final, ![t].revision = 2,
       ![t].reason = "code"]
  /\ UNCHANGED executions
FinishTwice(t, x, final) ==                 \* mutant: the Task at revision 3
  /\ executions' = [executions EXCEPT ![x] =
       [status |-> final, revision |-> 2, reason |-> "code"]]
  /\ tasks' = [tasks EXCEPT ![t].status = final, ![t].revision = 3,
       ![t].reason = "code"]
FinishPair(t, x, final) ==
  /\ executions' = [executions EXCEPT ![x] =
       [status |-> final, revision |-> 2, reason |-> "code"]]
  /\ tasks' = [tasks EXCEPT ![t].status = final, ![t].revision = 2,
       ![t].reason = "code"]

\* Execution and Task reach the final status together and the lease is deleted.
Complete(w) ==
  /\ Calling(w, "complete")
  /\ LET c == call[w]
         t == c.task
         x == c.exec IN
       /\ completions[c.request] = None
       /\ HasStatus(t, "RUNNING")
       /\ tasks[t].current = x
       /\ IsExecution(x, "RUNNING")
       /\ x[1] = t
       /\ LeaseValid(w)
       /\ executions[x].revision = 1
       /\ tasks[t].revision = 1
       /\ FinishPair(t, x, c.final)
       /\ leases' = [leases EXCEPT ![t] = None]
       /\ completions' = [completions EXCEPT ![c.request] =
            [task |-> t, owner |-> w, token |-> c.token,
             exec |-> x, final |-> c.final]]
  /\ UpdatedAt(call[w].task, call[w].exec, call[w].age)
  /\ Answer(w, None)
  /\ UNCHANGED <<coordinator, starts>>
=============================================================================
