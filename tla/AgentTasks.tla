----------------------------- MODULE AgentTasks -----------------------------
(***************************************************************************)
(* The Task services together: dispatch, leases, Worker executions and the *)
(* lifecycle services, all on the same rows.                               *)
(***************************************************************************)
EXTENDS WorkerExecution, TaskLifecycle, AgentContracts

WorkerStep(w) ==
  \/ CallLease(w) \/ Claim(w) \/ Renew(w) \/ Release(w)
  \/ CallExecution(w) \/ Start(w) \/ Complete(w)
  \/ Refused(w) \/ GiveUp(w) \/ Crash(w)

LifecycleStep ==
  \/ \E t \in Tasks, deps \in SUBSET Tasks : CreateTask(t, deps)
  \/ \E t \in Tasks, to \in TaskStates, x \in Executions \cup {None} :
       TransitionTask(t, to, x)
  \/ \E x \in Executions : CreateExecution(x)
  \/ \E x \in Executions, to \in ExecutionStates : TransitionExecution(x, to)
  \/ \E to \in ExecutionStates : TransitionCoordinator(to)

Next ==
  \/ \E t \in Tasks, deps \in SUBSET Tasks : Dispatch(t, deps)
  \/ \E w \in Workers : WorkerStep(w)
  \/ LifecycleStep
  \/ Tick

Spec == Init /\ [][Next]_vars

-----------------------------------------------------------------------------
\* The work as the Workers see it

Stage == [t \in Tasks |-> IF tasks[t] = None THEN "ABSENT" ELSE tasks[t].status]
Needs == [t \in Tasks |-> IF tasks[t] = None THEN {} ELSE tasks[t].deps]
Users == [t \in Tasks |->
  {w \in Workers : handle[w] # None /\ handle[w].task = t /\ handle[w].left > 0}]
Starters == [t \in Tasks |->
  {starts[r].owner : r \in {q \in Requests : starts[q] # None /\ starts[q].task = t}}]

Work == INSTANCE TaskWork
  WITH stage <- Stage, needs <- Needs, users <- Users, starters <- Starters

-----------------------------------------------------------------------------
\* Properties

\* Lease rows, late clocks, lost answers and request ids come to no more than
\* this: a Worker takes, begins and ends a Task only while no other Worker
\* relies on it or began it, and begins it after all it depends on.
WorkSpec == Work!Spec

\* Once a Task is started no Worker but its starter relies on a Lease for it,
\* whatever answer arrives or was lost before.
StarterAlone ==
  \A r \in Requests, w \in Workers :
    (starts[r] # None /\ handle[w] # None
       /\ handle[w].task = starts[r].task /\ handle[w].left > 0)
      => w = starts[r].owner

\* Two Workers never both hold a Lease of one Task that each may believe to be
\* unexpired, whatever `now` their calls worked with and whatever answers were
\* lost: this is what "an expired lease can be taken over safely" needs.
ExclusiveLease ==
  \A v, w \in Workers :
    (v # w /\ handle[v] # None /\ handle[w] # None
       /\ handle[v].task = handle[w].task)
      => handle[v].left <= 0 \/ handle[w].left <= 0

\* The lease of a started Task is the one it was started with, or gone: no
\* takeover, renewal or late claim puts another owner or token in its place.
StartedLeaseKept ==
  \A r \in Requests : starts[r] # None =>
    LET t == starts[r].task IN
      leases[t] # None =>
        leases[t].owner = starts[r].owner /\ leases[t].token = starts[r].token

\* A Task is started once and completed once, however many request ids the
\* Workers use for it, and only its starter completes it.
OneReceiptEach ==
  \A q, r \in Requests :
    /\ (starts[q] # None /\ starts[r] # None
          /\ starts[q].task = starts[r].task) => q = r
    /\ (completions[q] # None /\ completions[r] # None
          /\ completions[q].task = completions[r].task) => q = r
    /\ (starts[q] # None /\ completions[r] # None
          /\ starts[q].task = completions[r].task)
         => starts[q].owner = completions[r].owner
              /\ starts[q].token = completions[r].token

\* The receipts tell the truth of the rows while only Workers move them: the
\* rows of Task, Execution, lease and receipts always change together.
PairAgrees ==
  \A t \in Tasks :
    LET started == \E r \in Requests : starts[r] # None /\ starts[r].task = t
        ended(f) == \E r \in Requests :
          completions[r] # None /\ completions[r].task = t
            /\ completions[r].final = f
    IN
      /\ HasStatus(t, "PENDING") => ~started /\ executions[<<t, 1>>] = None
      /\ HasStatus(t, "RUNNING") =>
           started /\ IsExecution(<<t, 1>>, "RUNNING")
             /\ ~ended("SUCCEEDED") /\ ~ended("FAILED")
      /\ \A f \in {"SUCCEEDED", "FAILED"} : HasStatus(t, f) =>
           started /\ ended(f) /\ IsExecution(<<t, 1>>, f) /\ leases[t] = None

\* No Worker runs a Task before all Tasks it depends on have SUCCEEDED.
DependenciesFirst ==
  \A t \in Tasks : tasks[t] # None /\ tasks[t].status # "PENDING" =>
    \A d \in tasks[t].deps : HasStatus(d, "SUCCEEDED")

\* A Worker ends a Task that the lifecycle services had made RUNNING.
EndsUnstarted(t) ==
  /\ \A r \in Requests : starts[r] # None => starts[r].task # t
  /\ \E r \in Requests :
       completions[r] = None /\ completions'[r] # None /\ completions'[r].task = t

\* Every writer of a row, the Workers included, leaves the next revision of it
\* in the sense of the validators' _is_next, time included: a start or a
\* completion works with the `now` it read before it waited, and still never
\* writes it over a later updated_at.  One writer can: a complete() that was
\* called for a Task not started by a Worker, whose rows the lifecycle services
\* move while it waits.  A terminal row is never written again.
RowsEvolve ==
  [][/\ \A t \in Tasks : tasks[t] # None /\ tasks'[t] # tasks[t] =>
          IF EndsUnstarted(t) THEN TaskFollows(tasks[t], tasks'[t])
          ELSE IsNextTask(tasks[t], tasks'[t], taskSince[t], taskSince'[t])
     /\ \A x \in Executions : executions[x] # None /\ executions'[x] # executions[x] =>
          IF EndsUnstarted(x[1]) THEN ExecutionFollows(executions[x], executions'[x])
          ELSE IsNextExecution(executions[x], executions'[x],
                               executionSince[x], executionSince'[x])]_vars

-----------------------------------------------------------------------------
\* What the documents promise and the code does not keep

\* "Every non-PENDING state has a stable status reason", which the Contract
\* gives a code and a message; get_task refuses a row without one.
RowsReadable ==
  /\ \A t \in Tasks : tasks[t] # None => ValidTask(tasks[t])
  /\ \A x \in Executions : executions[x] # None => ValidExecution(executions[x])
=============================================================================
