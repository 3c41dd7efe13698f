--------------------------- MODULE TaskWorkProofs ---------------------------
(***************************************************************************)
(* AgentTasks implements TaskWork: whatever happens to lease rows, clocks, *)
(* calls and answers, and whatever the lifecycle services do to the rows,  *)
(* every step takes, begins or ends the work of a Task for one Worker who  *)
(* is alone with it, or changes nothing that a Worker relies on.           *)
(***************************************************************************)
EXTENDS AgentTasksProofs

-----------------------------------------------------------------------------
\* A lease row is of a Task that is still open, while only Workers move them

LeaseOpen ==
  \A t \in Tasks : leases[t] # None => HasStatus(t, "PENDING") \/ HasStatus(t, "RUNNING")

LEMMA LeaseOpenStep ==
  ASSUME ~Lifecycle, TasksInv, LeaseOpen, [Next]_vars
  PROVE  LeaseOpen'
<1>1. RowsInv /\ CallsInv /\ RecordsInv
  BY DEF TasksInv
<1>2. CASE \E t \in Tasks, deps \in SUBSET Tasks : Dispatch(t, deps)
  BY <1>1, <1>2, NewTaskRow, Attempts DEF Dispatch, LeaseOpen, HasStatus, RowsInv
<1>3. ASSUME NEW w \in Workers, NEW c \in Call, NEW h \in Handle \cup {None},
             StartBy(w, c, h)
      PROVE  LeaseOpen'
  <2>1. /\ HasStatus(c.task, "RUNNING")'
        /\ \A t \in Tasks : t # c.task => tasks'[t] = tasks[t]
    BY <1>1, <1>3, PairWrites
  <2>2. UNCHANGED leases
    BY <1>3 DEF StartBy
  <2> QED
    BY <2>1, <2>2 DEF LeaseOpen, HasStatus
<1>4. ASSUME NEW w \in Workers, NEW c \in Call, CompleteBy(w, c)
      PROVE  LeaseOpen'
  <2>1. \A t \in Tasks : t # c.task => tasks'[t] = tasks[t]
    BY <1>1, <1>4, PairWrites
  <2>2. leases'[c.task] = None /\ \A t \in Tasks : t # c.task => leases'[t] = leases[t]
    BY <1>1, <1>4, LeaseWrites
  <2> QED
    BY <2>1, <2>2 DEF LeaseOpen, HasStatus
<1>5. CASE /\ UNCHANGED <<tasks, executions, starts, completions>>
           /\ \A t \in Tasks : leases[t] = None /\ leases'[t] # None =>
                HasStatus(t, "PENDING")
  BY <1>5 DEF LeaseOpen, HasStatus
<1> QED
  BY <1>1, <1>2, <1>3, <1>4, <1>5, WorkersOnly

LEMMA LeasesOpen == Spec => [](Lifecycle \/ LeaseOpen)
<1>1. Init => Lifecycle \/ LeaseOpen
  BY DEF Init, LeaseOpen
<1>2. TasksInv /\ (Lifecycle \/ LeaseOpen) /\ [Next]_vars => (Lifecycle \/ LeaseOpen)'
  BY LeaseOpenStep, TableAssumption
<1> QED
  BY <1>1, <1>2, TasksInvariant, PTL DEF Spec

-----------------------------------------------------------------------------
\* What the writes of a step are for the Workers

LEMMA RowSeen ==
  ASSUME RowsInv, NEW t \in Tasks, NEW b \in TaskRow, tasks' = [tasks EXCEPT ![t] = b]
  PROVE  /\ Stage' = [Stage EXCEPT ![t] = b.status]
         /\ Needs' = [Needs EXCEPT ![t] = b.deps]
BY Attempts DEF RowsInv, Stage, Needs

LEMMA StartersKept ==
  ASSUME UNCHANGED starts
  PROVE  Starters' = Starters
BY DEF Starters

\* Workers in W, and nobody else, may stop relying on what they had.
LEMMA Gone ==
  ASSUME Shrinks, CallsInv, CallsInv', NEW W \in SUBSET Workers,
         \A v \in Workers : v \notin W => handle'[v] = handle[v]
  PROVE  \E gone \in SUBSET W : Users' = Work!Without(gone)
<1> DEFINE gone == {v \in W : handle'[v] = None \/ handle'[v].left <= 0}
<1>1. \A v \in Workers :
        /\ handle[v] # None => handle[v].left \in Int
        /\ handle'[v] # None => handle'[v].left \in Int
  BY TableAssumption DEF CallsInv, Handle
<1>2. ASSUME NEW t \in Tasks, NEW v \in Workers
      PROVE  v \in Users'[t] <=> v \in Users[t] \ gone
  BY <1>1, <1>2 DEF Shrinks, Users
<1>3. \A t \in Tasks : Users[t] \in SUBSET Workers /\ Users'[t] \in SUBSET Workers
  BY DEF Users
<1>4. Users' = [t \in Tasks |-> Users'[t]]
  BY DEF Users
<1>5. \A t \in Tasks : Users'[t] = Users[t] \ gone
  BY <1>2, <1>3
<1>6. Users' = Work!Without(gone)
  BY <1>4, <1>5 DEF Work!Without
<1>7. gone \in SUBSET W
  OBVIOUS
<1> QED
  BY <1>6, <1>7

\* A Worker is given a Lease of the Task it alone relies on.
LEMMA Taken ==
  ASSUME CallsInv, CallsInv', NEW w \in Workers, NEW t \in Tasks, NEW g \in Handle,
         handle'[w] = g, g.task = t, handle[w] # None => handle[w].task = t,
         \A v \in Workers : v # w => handle'[v] = handle[v],
         Users[t] \subseteq {w}
  PROVE  \/ Users' = [Users EXCEPT ![t] = {w}]
         \/ Users' = Work!Without({w})
<1>1. g # None /\ g.left \in Int
  BY TableAssumption DEF Handle
<1>2. \A s \in Tasks : Users[s] \in SUBSET Workers /\ Users'[s] \in SUBSET Workers
  BY DEF Users
<1>3. \A v \in Workers, s \in Tasks : v # w => (v \in Users'[s] <=> v \in Users[s])
  BY DEF Users
<1>4. \A s \in Tasks : s # t => w \notin Users[s] /\ w \notin Users'[s]
  BY <1>1 DEF Users
<1>5. w \in Users'[t] <=> g.left > 0
  BY <1>1 DEF Users
<1>6. Users' = [s \in Tasks |-> Users'[s]] /\ Users = [s \in Tasks |-> Users[s]]
  BY DEF Users
<1>7. CASE g.left > 0
  <2>1. Users'[t] = {w}
    BY <1>2, <1>3, <1>5, <1>7
  <2>2. ASSUME NEW s \in Tasks, s # t
        PROVE  Users'[s] = Users[s]
    <3>1. \A v \in Workers : v \in Users'[s] <=> v \in Users[s]
      BY <1>3, <1>4, <2>2
    <3> QED
      BY <1>2, <3>1
  <2>3. [Users EXCEPT ![t] = {w}] = [s \in Tasks |-> IF s = t THEN {w} ELSE Users[s]]
    BY DEF Users
  <2>4. [s \in Tasks |-> IF s = t THEN {w} ELSE Users[s]] = [s \in Tasks |-> Users'[s]]
    BY <2>1, <2>2
  <2> QED
    BY <1>6, <2>3, <2>4
<1>8. CASE ~(g.left > 0)
  <2>1. \A s \in Tasks : Users'[s] = Users[s] \ {w}
    BY <1>2, <1>3, <1>4, <1>5, <1>8
  <2> QED
    BY <1>6, <2>1 DEF Work!Without
<1> QED
  BY <1>7, <1>8

\* Whoever may be given the Lease of a Task, start it or end it is alone with it.
LEMMA AloneAt ==
  ASSUME TasksInv, NEW w \in Workers, NEW c \in Call,
         Claimable(c.task, c.age) \/ Owns(c.task, w, c.token)
  PROVE  Work!Alone(w, c.task) /\ Users[c.task] \subseteq {w}
<1>1. c.task \in Tasks
  BY DEF Call
<1>2. ASSUME NEW v \in Users[c.task]
      PROVE  v = w
  <2>1. v \in Workers /\ handle[v] # None /\ handle[v].left > 0 /\ handle[v].task = c.task
    BY <1>1 DEF Users
  <2> QED
    BY <2>1, OthersOut DEF TasksInv, Owns
<1>3. ASSUME NEW v \in Starters[c.task]
      PROVE  v = w
  <2>1. PICK r \in Requests : starts[r] # None /\ starts[r].task = c.task
                              /\ starts[r].owner = v
    BY <1>1 DEF Starters
  <2>2. LeftPending(c.task)
    BY <2>1 DEF TasksInv, ReceiptsInv
  <2>3. Owns(c.task, w, c.token)
    BY <2>2 DEF LeftPending, Claimable, HasStatus
  <2> QED
    BY <2>1, <2>3 DEF TasksInv, ReceiptsInv, StartedLeaseKept, Owns
<1> QED
  BY <1>2, <1>3 DEF Work!Alone

-----------------------------------------------------------------------------
\* The steps

\* Time only shortens Leases.
LEMMA TickShrinks ==
  ASSUME CallsInv, RecordsInv, Tick
  PROVE  Shrinks
<1>1. ASSUME NEW v \in Workers, handle'[v] # None
      PROVE  /\ handle[v] # None /\ handle'[v].left <= handle[v].left
             /\ handle'[v].task = handle[v].task /\ handle'[v].token = handle[v].token
  <2>1. /\ handle[v] # None /\ handle'[v].left = Earlier(handle[v].left)
        /\ handle'[v].task = handle[v].task /\ handle'[v].token = handle[v].token
    BY <1>1, TickFacts
  <2>2. handle[v].left \in (-Patience)..TTL
    BY <2>1 DEF CallsInv, Handle
  <2>3. Earlier(handle[v].left) <= handle[v].left
    BY <2>2, TableAssumption DEF Earlier
  <2> QED
    BY <2>1, <2>3
<1> QED
  BY <1>1 DEF Shrinks

LEMMA WorkCases ==
  ASSUME CallsInv, RecordsInv, [Next]_vars
  PROVE  \/ \E t \in Tasks, deps \in SUBSET Tasks : Dispatch(t, deps) \/ CreateTask(t, deps)
         \/ \E t \in Tasks, to \in TaskStates, x \in Executions \cup {None} :
              TransitionTask(t, to, x)
         \/ Transaction
         \/ UNCHANGED <<tasks, starts>> /\ Shrinks
<1>1. CASE UNCHANGED <<tasks, starts, handle>>
  BY <1>1, KeepingShrinks
<1>2. ASSUME NEW w \in Workers, WorkerStep(w)
      PROVE  Transaction \/ (UNCHANGED <<tasks, starts>> /\ Shrinks)
  <2>1. CASE Claim(w) \/ Renew(w) \/ Release(w) \/ Start(w) \/ Complete(w)
    BY <2>1, Transactions DEF Transaction
  <2>2. CASE CallLease(w) \/ CallExecution(w) \/ Refused(w) \/ GiveUp(w) \/ Crash(w)
    <3>1. UNCHANGED tableVars
      BY <2>2, Zenon DEF CallLease, CallExecution, Refused, GiveUp, Crash
    <3>2. UNCHANGED <<tasks, starts, leases, receipts>>
      BY <3>1 DEF tableVars, rows, receipts
    <3>3. Transaction \/ Shrinks
      <4>1. ~Tick \/ Shrinks
        BY TickShrinks
      <4> QED
        BY <4>1, StepCases
    <3> QED
      BY <3>2, <3>3
  <2> QED
    BY <1>2, <2>1, <2>2 DEF WorkerStep
<1>3. CASE LifecycleStep
  BY <1>1, <1>3 DEF LifecycleStep, CreateExecution, TransitionExecution,
    TransitionCoordinator, receipts
<1>4. CASE Tick
  BY <1>4, TickShrinks DEF Tick, rows, receipts
<1>5. CASE UNCHANGED vars
  BY <1>1, <1>5 DEF vars
<1> QED
  BY <1>2, <1>3, <1>4, <1>5 DEF Next

\* A step of the Workers' own that gives nobody a Lease.
LEMMA DropImplements ==
  ASSUME CallsInv, CallsInv', UNCHANGED <<tasks, starts>>, Shrinks
  PROVE  Work!Next
<1>1. PICK gone \in SUBSET Workers : Users' = Work!Without(gone)
  BY Gone
<1>2. Work!Drop(gone)
  BY <1>1, StartersKept DEF Work!Drop, Stage, Needs
<1> QED
  BY <1>2 DEF Work!Next

LEMMA OfferImplements ==
  ASSUME RowsInv, NEW t \in Tasks, NEW deps \in SUBSET Tasks,
         Dispatch(t, deps) \/ CreateTask(t, deps)
  PROVE  Work!Next
<1>1. PICK b \in TaskRow : b = PendingTask(deps)
  BY NewTaskRow
<1>2. b.status = "PENDING" /\ b.deps = deps
  BY <1>1 DEF PendingTask
<1>3. /\ tasks[t] = None /\ \A d \in deps : tasks[d] # None
      /\ tasks' = [tasks EXCEPT ![t] = b]
      /\ UNCHANGED <<starts, handle>>
  BY <1>1 DEF Dispatch, CreateTask, receipts
<1>4. Users' = Users /\ Starters' = Starters
  BY <1>3, StartersKept DEF Users
<1>5. \A d \in deps : Stage[d] # "ABSENT"
  <2>1. \A d \in deps : tasks[d] \in TaskRow /\ Stage[d] = tasks[d].status
    BY <1>3 DEF RowsInv, Stage
  <2> QED
    BY <2>1 DEF TaskRow, TaskStates
<1>6. Stage[t] = "ABSENT"
  BY <1>3 DEF Stage
<1>7. /\ Stage' = [Stage EXCEPT ![t] = "PENDING"]
      /\ Needs' = [Needs EXCEPT ![t] = deps]
  BY <1>2, <1>3, RowSeen
<1>8. Work!Offer(t, deps)
  BY <1>4, <1>5, <1>6, <1>7 DEF Work!Offer
<1> QED
  BY <1>8 DEF Work!Next

LEMMA MoveImplements ==
  ASSUME RowsInv, NEW t \in Tasks, NEW to \in TaskStates, NEW x \in Executions \cup {None},
         TransitionTask(t, to, x)
  PROVE  [Work!Next]_(Work!vars)
<1>1. PICK a \in TaskRow : a = tasks[t]
  BY DEF TransitionTask, RowsInv
<1>2. PICK b \in TaskRow : b = Planned(t, to, x) /\ TaskFollows(a, b)
  BY <1>1, PlannedRow, Attempts DEF TransitionTask, RowsInv
<1>3. b.status = to /\ b.deps = a.deps /\ to \in TaskLegal[a.status]
  <2>1. b.status = to
    <3>1. CASE to = "RUNNING"
      <4>1. b = [a EXCEPT !.status = to, !.revision = a.revision + 1,
              !.reason = "full", !.current = x, !.attempts = a.attempts + 1]
        BY <1>1, <1>2, <3>1 DEF Planned, TaskRow
      <4> QED
        BY <4>1 DEF TaskRow
    <3>2. CASE to # "RUNNING"
      <4>1. b = [a EXCEPT !.status = to, !.revision = a.revision + 1, !.reason = "full"]
        BY <1>1, <1>2, <3>2 DEF Planned
      <4> QED
        BY <4>1 DEF TaskRow
    <3> QED
      BY <3>1, <3>2
  <2> QED
    BY <1>1, <1>2, <2>1 DEF TaskFollows, TransitionTask, Plannable
<1>4. tasks' = [tasks EXCEPT ![t] = b] /\ UNCHANGED <<starts, handle>> /\ Lifecycle
  BY <1>2 DEF TransitionTask, receipts
<1>5. Users' = Users /\ Starters' = Starters
  BY <1>4, StartersKept DEF Users
<1>6. Stage[t] = a.status /\ Needs[t] = a.deps
  BY <1>1, Attempts DEF Stage, Needs
<1>7. /\ Stage' = [Stage EXCEPT ![t] = to]
      /\ Needs' = Needs
  <2>1. /\ Stage' = [Stage EXCEPT ![t] = b.status]
        /\ Needs' = [Needs EXCEPT ![t] = b.deps]
    BY <1>4, RowSeen
  <2>2. Needs' = [Needs EXCEPT ![t] = Needs[t]]
    BY <1>3, <1>6, <2>1
  <2>3. [Needs EXCEPT ![t] = Needs[t]] = Needs
    BY DEF Needs
  <2> QED
    BY <1>3, <2>1, <2>2, <2>3
<1>8. CASE a.status = to
  <2>1. Stage' = Stage
    BY <1>6, <1>7, <1>8 DEF Stage
  <2> QED
    BY <1>5, <1>7, <2>1 DEF Work!vars
<1>9. CASE a.status # to
  <2>1. <<a.status, to>> \in Work!Moves
    BY <1>3, <1>9, <1>1 DEF TaskLegal, Work!Moves, TaskRow, TaskStates
  <2>2. Work!Move(t, a.status, to)
    BY <1>4, <1>5, <1>6, <1>7 DEF Work!Move
  <2>3. PICK m \in Work!Moves : m = <<a.status, to>>
    BY <2>1
  <2>4. Work!Move(t, m[1], m[2])
    BY <2>2, <2>3
  <2> QED
    BY <2>4 DEF Work!Next
<1> QED
  BY <1>8, <1>9

LEMMA LeaseGiven ==
  ASSUME TasksInv, CallsInv', NEW w \in Workers, NEW t \in Tasks, NEW g \in Handle,
         g.task = t, Answered(w, g),
         handle[w] # None => handle[w].task = t,
         UNCHANGED <<tasks, starts>>,
         Stage[t] \in {"PENDING", "RUNNING"} \/ Lifecycle,
         Work!Alone(w, t), Users[t] \subseteq {w}
  PROVE  [Work!Next]_(Work!vars)
<1>1. CallsInv
  BY DEF TasksInv
<1>2. Stage' = Stage /\ Needs' = Needs /\ Starters' = Starters
  BY StartersKept DEF Stage, Needs
<1>3. CASE UNCHANGED handle
  BY <1>2, <1>3 DEF Work!vars, Users
<1>4. CASE handle' = [handle EXCEPT ![w] = g]
  <2>1. handle'[w] = g /\ \A v \in Workers : v # w => handle'[v] = handle[v]
    BY <1>1, <1>4 DEF CallsInv
  <2>2. CASE Users' = [Users EXCEPT ![t] = {w}]
    <3>1. Work!Take(w, t)
      BY <1>2, <2>2 DEF Work!Take
    <3> QED
      BY <3>1 DEF Work!Next
  <2>3. CASE Users' = Work!Without({w})
    <3>1. Work!Drop({w}) /\ {w} \in SUBSET Workers
      BY <1>2, <2>3 DEF Work!Drop
    <3> QED
      BY <3>1 DEF Work!Next
  <2> QED
    BY <1>1, <2>1, <2>2, <2>3, Taken
<1> QED
  BY <1>3, <1>4 DEF Answered

\* A claim and a renewal: the Lease is given, or it comes too late or is lost.
LEMMA TakeImplements ==
  ASSUME TasksInv, CallsInv', Lifecycle \/ LeaseOpen, NEW w \in Workers, NEW c \in Call,
         (\E k \in Tokens : ClaimBy(w, c, k)) \/ RenewBy(w, c)
  PROVE  [Work!Next]_(Work!vars)
<1>1. /\ c.task \in Tasks /\ Work!Alone(w, c.task) /\ Users[c.task] \subseteq {w}
      /\ UNCHANGED <<tasks, starts>>
  BY AloneAt DEF ClaimBy, RenewBy, Call, rows, receipts
<1>2. c = call[w] /\ c # None
  BY TableAssumption DEF ClaimBy, RenewBy
<1>3. CallFits(c, handle[w])
  BY <1>2 DEF TasksInv, CallsInv
<1>4. handle[w] # None => handle[w].task = c.task
  BY <1>3 DEF ClaimBy, RenewBy, CallFits
<1>5. Stage[c.task] \in {"PENDING", "RUNNING"} \/ Lifecycle
  <2>1. \/ HasStatus(c.task, "PENDING") \/ HasStatus(c.task, "RUNNING")
        \/ Lifecycle
    BY <1>1 DEF ClaimBy, Claimable, RenewBy, Owns, LeaseOpen
  <2> QED
    BY <1>1, <2>1 DEF Stage, HasStatus
<1>6. PICK k \in Tokens :
        Answered(w, [task |-> c.task, token |-> k, left |-> Expiry(c.ttl, c.age)])
  <2>1. ASSUME RenewBy(w, c)
        PROVE  c.token \in Tokens
    BY <1>1, <2>1 DEF RenewBy, Owns, TasksInv, RecordsInv, LeaseRow
  <2> QED
    BY <2>1 DEF ClaimBy, RenewBy
<1>7. PICK g : g = [task |-> c.task, token |-> k, left |-> Expiry(c.ttl, c.age)]
  OBVIOUS
<1>8. g \in Handle /\ g.task = c.task /\ Answered(w, g)
  <2>1. Expiry(c.ttl, c.age) \in (-Patience)..TTL
    BY ExpiryRange DEF Call
  <2> QED
    BY <1>1, <1>6, <1>7, <2>1 DEF Handle
<1> QED
  BY <1>1, <1>4, <1>5, <1>8, LeaseGiven

LEMMA ReleaseImplements ==
  ASSUME CallsInv, CallsInv', NEW w \in Workers, NEW c \in Call, ReleaseBy(w, c)
  PROVE  Work!Next
<1>1. UNCHANGED <<tasks, starts>>
  BY DEF ReleaseBy, rows, receipts
<1>2. Shrinks
  BY KeepingShrinks, DroppingShrinks DEF ReleaseBy, Answered
<1> QED
  BY <1>1, <1>2, DropImplements

LEMMA BeginImplements ==
  ASSUME TasksInv, NEW w \in Workers, NEW c \in Call, NEW h \in Handle \cup {None},
         StartBy(w, c, h)
  PROVE  Work!Next
<1>1. /\ RowsInv /\ CallsInv /\ RecordsInv /\ c.task \in Tasks
      /\ Work!Alone(w, c.task) /\ Users[c.task] \subseteq {w}
  BY AloneAt DEF TasksInv, StartBy, Call
<1>2. PICK a \in TaskRow : a = tasks[c.task]
  BY <1>1 DEF StartBy, HasStatus, RowsInv
<1>3. PICK b : b = [a EXCEPT !.status = "RUNNING", !.revision = 1, !.reason = "code",
                             !.current = <<c.task, 1>>, !.attempts = 1]
  OBVIOUS
<1>4. b \in TaskRow /\ b.status = "RUNNING" /\ b.deps = a.deps
  BY <1>1, <1>2, <1>3, Attempts, Domains DEF TaskRow
<1>5. tasks' = [tasks EXCEPT ![c.task] = b]
  BY <1>1, <1>2, <1>3 DEF StartBy, StartPair, RowsInv
<1>6. /\ Stage[c.task] = "PENDING" /\ Needs[c.task] = a.deps
      /\ \A d \in a.deps : Stage[d] = "SUCCEEDED"
  <2>1. /\ a.deps \in SUBSET Tasks /\ a.status = "PENDING"
        /\ \A d \in a.deps : tasks[d] # None /\ tasks[d].status = "SUCCEEDED"
    BY <1>1, <1>2 DEF StartBy, HasStatus, DependenciesReady, TaskRow
  <2>2. \A d \in a.deps : Stage[d] = "SUCCEEDED"
    BY <2>1 DEF Stage
  <2> QED
    BY <1>1, <1>2, <2>1, <2>2, Attempts DEF Stage, Needs
<1>7. Stage' = [Stage EXCEPT ![c.task] = "RUNNING"]
  <2>1. Stage' = [Stage EXCEPT ![c.task] = b.status]
    BY <1>1, <1>4, <1>5, RowSeen
  <2> QED
    BY <1>4, <2>1
<1>8. Needs' = Needs
  <2>1. Needs' = [Needs EXCEPT ![c.task] = Needs[c.task]]
    BY <1>1, <1>4, <1>5, <1>6, RowSeen
  <2>2. [Needs EXCEPT ![c.task] = Needs[c.task]] = Needs
    BY DEF Needs
  <2> QED
    BY <2>1, <2>2
<1>9. Users' = Users
  BY <1>1, SameHandle DEF StartBy, Users
<1>10. Starters' = [Starters EXCEPT ![c.task] = {w}]
  <2>1. /\ c.request \in Requests /\ starts[c.request] = None
        /\ starts'[c.request] # None /\ starts'[c.request].task = c.task
        /\ starts'[c.request].owner = w
        /\ \A r \in Requests : r # c.request => starts'[r] = starts[r]
    BY <1>1, ReceiptWrites DEF StartBy
  <2>2. \A r \in Requests : starts[r] # None => starts[r].task # c.task
    BY DEF StartBy, HasStatus, TasksInv, ReceiptsInv, LeftPending
  <2>3. Starters'[c.task] = {w}
    BY <1>1, <2>1, <2>2 DEF Starters
  <2>4. ASSUME NEW t \in Tasks, t # c.task
        PROVE  Starters'[t] = Starters[t]
    <3>1. \A r \in Requests : (starts'[r] # None /\ starts'[r].task = t) <=>
                              (starts[r] # None /\ starts[r].task = t)
      BY <2>1, <2>4
    <3>2. \A r \in Requests : starts[r] # None /\ starts[r].task = t =>
            starts'[r] = starts[r]
      BY <2>1, <2>4
    <3> QED
      BY <3>1, <3>2 DEF Starters
  <2>5. [Starters EXCEPT ![c.task] = {w}] =
          [t \in Tasks |-> IF t = c.task THEN {w} ELSE Starters[t]]
    BY DEF Starters
  <2>6. Starters' = [t \in Tasks |-> Starters'[t]]
    BY DEF Starters
  <2>7. [t \in Tasks |-> IF t = c.task THEN {w} ELSE Starters[t]] =
          [t \in Tasks |-> Starters'[t]]
    BY <2>3, <2>4
  <2> QED
    BY <2>5, <2>6, <2>7
<1>11. Work!Begin(w, c.task)
  BY <1>1, <1>6, <1>7, <1>8, <1>9, <1>10 DEF Work!Begin
<1> QED
  BY <1>1, <1>11 DEF Work!Next

LEMMA EndImplements ==
  ASSUME TasksInv, CallsInv', NEW w \in Workers, NEW c \in Call, CompleteBy(w, c)
  PROVE  Work!Next
<1>1. /\ RowsInv /\ CallsInv /\ c.task \in Tasks /\ Work!Alone(w, c.task)
  BY AloneAt DEF TasksInv, CompleteBy, Call
<1>2. PICK a \in TaskRow : a = tasks[c.task]
  BY <1>1 DEF CompleteBy, HasStatus, RowsInv
<1>3. PICK b : b = [a EXCEPT !.status = c.final, !.revision = 2, !.reason = "code"]
  OBVIOUS
<1>4. c.final \in {"SUCCEEDED", "FAILED"}
  BY <1>1, CompleteWrites
<1>5. b \in TaskRow /\ b.status = c.final /\ b.deps = a.deps
  BY <1>2, <1>3, <1>4, Attempts, Domains DEF TaskRow
<1>6. tasks' = [tasks EXCEPT ![c.task] = b]
  BY <1>1, <1>2, <1>3 DEF CompleteBy, FinishPair, RowsInv
<1>7. Stage[c.task] = "RUNNING" /\ Needs[c.task] = b.deps
  BY <1>1, <1>2, <1>5, Attempts DEF CompleteBy, HasStatus, Stage, Needs
<1>8. Stage' = [Stage EXCEPT ![c.task] = c.final]
  BY <1>1, <1>5, <1>6, RowSeen
<1>9. Needs' = Needs
  <2>1. Needs' = [Needs EXCEPT ![c.task] = Needs[c.task]]
    BY <1>1, <1>5, <1>6, <1>7, RowSeen
  <2>2. [Needs EXCEPT ![c.task] = Needs[c.task]] = Needs
    BY DEF Needs
  <2> QED
    BY <2>1, <2>2
<1>10. Starters' = Starters
  BY StartersKept DEF CompleteBy
<1>11. \E gone \in SUBSET {w} : Users' = Work!Without(gone)
  <2>1. Shrinks
    BY <1>1, KeepingShrinks, DroppingShrinks DEF CompleteBy, Answered
  <2>2. \A v \in Workers : v \notin {w} => handle'[v] = handle[v]
    BY <1>1, HandleAfter DEF CompleteBy
  <2> QED
    BY <1>1, <2>1, <2>2, Gone
<1>12. Work!End(w, c.task, c.final)
  BY <1>1, <1>7, <1>8, <1>9, <1>10, <1>11 DEF Work!End
<1> QED
  BY <1>1, <1>4, <1>12 DEF Work!Next

LEMMA InitImplements ==
  ASSUME Init
  PROVE  Work!Init
BY DEF Init, Work!Init, Stage, Needs, Users, Starters

LEMMA StepImplements ==
  ASSUME TasksInv, TasksInv', Lifecycle \/ LeaseOpen, [Next]_vars
  PROVE  [Work!Next]_(Work!vars)
<1>1. RowsInv /\ CallsInv /\ RecordsInv /\ CallsInv'
  BY DEF TasksInv
<1>2. CASE Transaction
  BY <1>1, <1>2, TakeImplements, ReleaseImplements, BeginImplements, EndImplements
     DEF Transaction
<1> QED
  BY <1>1, <1>2, WorkCases, DropImplements, OfferImplements, MoveImplements

-----------------------------------------------------------------------------
\* What follows of every behaviour

\* The Task services implement the work of the Workers: each Task is taken,
\* begun and ended by a Worker that is alone with it, for any number of Workers,
\* Tasks, tokens and requests, any wait, and whatever answers are lost.
THEOREM TasksImplementWork == Spec => WorkSpec
<1>1. Init => Work!Init
  BY InitImplements
<1>2. TasksInv /\ TasksInv' /\ (Lifecycle \/ LeaseOpen) /\ [Next]_vars
        => [Work!Next]_(Work!vars)
  BY StepImplements
<1> QED
  BY <1>1, <1>2, TasksInvariant, LeasesOpen, PTL DEF Spec, WorkSpec, Work!Spec

\* Once a Task is started, no Worker but its starter relies on a Lease for it.
THEOREM StarterIsAlone == Spec => []StarterAlone
<1>1. ASSUME Work!OneEach, RecordsInv, NEW r \in Requests, NEW w \in Workers,
             starts[r] # None, handle[w] # None,
             handle[w].task = starts[r].task, handle[w].left > 0
      PROVE  w = starts[r].owner
  <2>1. starts[r].task \in Tasks
    BY <1>1 DEF RecordsInv, Command
  <2>2. w \in Users[starts[r].task]
    BY <1>1, <2>1 DEF Users
  <2>3. starts[r].owner \in Starters[starts[r].task]
    BY <1>1, <2>1 DEF Starters
  <2> QED
    BY <1>1, <2>1, <2>2, <2>3 DEF Work!OneEach
<1>2. TasksInv /\ Work!OneEach => StarterAlone
  BY <1>1 DEF TasksInv, StarterAlone
<1> QED
  BY <1>2, TasksInvariant, TasksImplementWork, Work!OneWorkerEach, PTL DEF WorkSpec
=============================================================================
