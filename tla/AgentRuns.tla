----------------------------- MODULE AgentRuns ------------------------------
(***************************************************************************)
(* AgentRunLifecycleService and CoordinatorStartService: Agent Runs are    *)
(* created for Inbox events or replay requests, moved through their        *)
(* lifecycle, and started with a Coordinator Execution.  Every call is     *)
(* idempotent by a key of its caller; it looks the key up, reads, writes   *)
(* in one transaction and looks the key up again when it cannot.  Each of  *)
(* these is one action: other callers run in between.  Commands are well   *)
(* formed; the Contract of a row is modelled where a stale read breaks it. *)
(* RunLedger is what the callers together promise about the tables.        *)
(***************************************************************************)
EXTENDS RunLedger

CONSTANT Callers    \* calls of the services in flight

\* "refuse", "miss" and "breach" look the key up again after a refusal, a
\* conditional update that missed or a constraint violation.
Steps == {"event", "lineage", "insert", "read", "apply", "start",
          "refuse", "miss", "breach", "competing"}
Answers == {"applied", "identical", "differs", "conflict", "refused", "error"}
Call == [at : Steps \cup Answers, cmd : Command]

ASSUME NoCallAssumption == None \notin Call

VARIABLE call    \* the call each caller is in

vars == <<inbox, runs, history, coordinators, receipts, call>>

TypeOK ==
  /\ inbox \subseteq Events
  /\ runs \in [Runs -> RunRow \cup {None}]
  /\ \A h \in history : h \in Transition /\ (h.from = None <=> h.revision = 0)
  /\ coordinators \in [Runs -> Payloads \cup {None}]
  /\ receipts \in [Requests -> Receipt \cup {None}]
  /\ call \in [Callers -> Call \cup {None}]

Init == EmptyTables /\ call = [c \in Callers |-> None]

-----------------------------------------------------------------------------
\* Lookups

At(c, label) == call[c] # None /\ call[c].at = label
Goto(c, label) == call' = [call EXCEPT ![c].at = label]

\* A row has the key of the command.
Known(q) ==
  CASE q.kind \in {"original", "replay"} -> \E r \in Runs : HasKey(q.key, r)
    [] q.kind = "move" -> \E h \in history : h.request = q.request
    [] q.kind = "start" -> receipts[q.request] # None

\* That row is what the command asks for.
Matches(q) ==
  CASE q.kind = "original" ->
         \E r \in Runs : HasKey(q.key, r) /\ runs[r].incident = q.incident
    [] q.kind = "replay" ->
         \E r \in Runs :
           /\ HasKey(q.key, r) /\ runs[r].incident = q.incident
           /\ runs[r].root = q.root /\ runs[r].source = q.source
    [] q.kind = "move" -> EntryOf(q) \in history
    [] q.kind = "start" -> receipts[q.request] = ReceiptOf(q)

TrustKey(q) == "identical"              \* mutant: payloads are not compared
Verdict(q) == IF Matches(q) THEN "identical" ELSE "differs"

First == [original |-> "event", replay |-> "lineage", move |-> "read", start |-> "read"]

\* Every call starts with its key.
Find(c, q) ==
  /\ call[c] = None
  /\ call' = [call EXCEPT ![c] =
       [at |-> IF Known(q) THEN Verdict(q) ELSE First[q.kind], cmd |-> q]]
  /\ UNCHANGED tables

\* A call that cannot go on looks its key up again.
Recheck(c) ==
  LET q == call[c].cmd IN
  /\ \/ /\ call[c] # None /\ call[c].at \in {"refuse", "miss", "breach"} /\ Known(q)
        /\ Goto(c, Verdict(q))
     \/ At(c, "refuse") /\ ~Known(q) /\ Goto(c, "refused")
     \/ At(c, "miss") /\ ~Known(q) /\ Goto(c, "conflict")
     \/ /\ At(c, "breach") /\ ~Known(q)
        /\ Goto(c, IF q.kind = "start" THEN "competing"
                   ELSE IF q.kind = "move" THEN "error" ELSE "refused")
  /\ UNCHANGED tables

-----------------------------------------------------------------------------
\* create_original_run, create_replay_run

TrustEvent(c) ==                        \* mutant: the Inbox is not asked
  At(c, "event") /\ Goto(c, "insert") /\ UNCHANGED tables
CheckEvent(c) ==
  /\ At(c, "event")
  /\ Goto(c, IF call[c].cmd.key \in inbox THEN "insert" ELSE "refuse")
  /\ UNCHANGED tables

\* Rows stay and their lineage never changes: both are read at once.
CheckLineage(c) ==
  /\ At(c, "lineage")
  /\ Goto(c, IF ValidLineage(call[c].cmd) THEN "insert" ELSE "refuse")
  /\ UNCHANGED tables

\* The unique keys on trigger_event_id and replay_request_id decide a race.
Insert(c) ==
  LET q == call[c].cmd IN
  /\ At(c, "insert")
  /\ \/ /\ \E r \in Runs : HasKey(q.key, r)
        /\ Goto(c, "breach")
        /\ UNCHANGED <<runs, history>>
     \/ /\ ~\E r \in Runs : HasKey(q.key, r)
        /\ \E r \in Runs :
             /\ runs[r] = None
             /\ runs' = [runs EXCEPT ![r] = NewRun(r, q)]
             /\ history' = history \cup {InitialTransition(r)}
        /\ Goto(c, "applied")
  /\ UNCHANGED <<inbox, coordinators, receipts>>

-----------------------------------------------------------------------------
\* transition_run

Unplanned(c) ==                         \* mutant: plan_transition is not asked
  LET q == call[c].cmd IN
  /\ At(c, "read") /\ q.kind = "move"
  /\ Goto(c, IF Expected(q) THEN "apply" ELSE "miss")
  /\ UNCHANGED tables
ReadForMove(c) ==
  LET q == call[c].cmd IN
  /\ At(c, "read") /\ q.kind = "move"
  /\ Goto(c, IF runs[q.run] = None THEN "refuse"
             ELSE IF ~Expected(q) THEN "miss"
             ELSE IF q.move[3] \notin Legal[q.move[1]] THEN "refuse" ELSE "apply")
  /\ UNCHANGED tables

\* UPDATE ... WHERE status and revision are the expected ones, then the history.
Apply(c) ==
  LET q == call[c].cmd IN
  /\ At(c, "apply")
  /\ \/ /\ ~Expected(q)
        /\ Goto(c, "miss")
        /\ UNCHANGED <<runs, history>>
     \/ /\ Expected(q) /\ Violates(EntryOf(q))
        /\ Goto(c, "breach")
        /\ UNCHANGED <<runs, history>>
     \/ /\ Expected(q) /\ ~Violates(EntryOf(q))
        /\ runs' = [runs EXCEPT ![q.run].status = q.move[3],
                                ![q.run].revision = q.move[2] + 1]
        /\ history' = history \cup {EntryOf(q)}
        /\ Goto(c, "applied")
  /\ UNCHANGED <<inbox, coordinators, receipts>>

-----------------------------------------------------------------------------
\* CoordinatorStartService.start

\* The RUNNING candidate of a Run that has an end violates the Contract.
ReadForStart(c) ==
  LET q == call[c].cmd IN
  /\ At(c, "read") /\ q.kind = "start"
  /\ Goto(c, IF runs[q.run] = None THEN "refused"
             ELSE IF runs[q.run].status \in Terminal THEN "error" ELSE "start")
  /\ UNCHANGED tables

\* The row lock of the Run makes its check and the writes one step.
Start(c) ==
  LET q == call[c].cmd
      taken == \/ coordinators[q.run] # None
               \/ Violates(StartTransition(q))
               \/ receipts[q.request] # None IN
  /\ At(c, "start")
  /\ \/ /\ ~Startable(q.run)
        /\ Goto(c, "miss")
        /\ UNCHANGED <<runs, history, coordinators, receipts>>
     \/ /\ Startable(q.run) /\ taken
        /\ Goto(c, "breach")
        /\ UNCHANGED <<runs, history, coordinators, receipts>>
     \/ /\ Startable(q.run) /\ ~taken
        /\ coordinators' = [coordinators EXCEPT ![q.run] = q.payload]
        /\ Bind(q)
        /\ receipts' = [receipts EXCEPT ![q.request] = ReceiptOf(q)]
        /\ Goto(c, "applied")
  /\ UNCHANGED inbox

\* After a violation: does another Execution have the Coordinator's key?
FindCompeting(c) ==
  /\ At(c, "competing")
  /\ Goto(c, IF coordinators[call[c].cmd.run] # None THEN "conflict" ELSE "error")
  /\ UNCHANGED tables

-----------------------------------------------------------------------------
\* The caller takes its answer, or the call dies: its process crashes, its
\* connection or a lock wait fails, an open transaction is rolled back.
Leave(c) ==
  /\ call[c] # None
  /\ call' = [call EXCEPT ![c] = None]
  /\ UNCHANGED tables

CallerStep(c) ==
  \/ \E q \in Command : Find(c, q)
  \/ Recheck(c) \/ CheckEvent(c) \/ CheckLineage(c) \/ Insert(c)
  \/ ReadForMove(c) \/ Apply(c)
  \/ ReadForStart(c) \/ Start(c) \/ FindCompeting(c)
  \/ Leave(c)

Next ==
  \/ \E c \in Callers : CallerStep(c)
  \/ \E e \in Events : Arrive(e) /\ UNCHANGED call
  \/ \E r \in Runs, payload \in Payloads :
       CreateCoordinator(r, payload) /\ UNCHANGED call

Spec == Init /\ [][Next]_vars

-----------------------------------------------------------------------------
\* Properties

Entries(r) == {h \in history : h.run = r}

\* The history of a Run tells its life without a gap, a branch or an illegal
\* edge, and ends in the snapshot, although two services write it and lost
\* races leave nothing: revision n is entry n.
HistoryChain ==
  \A r \in Runs :
    IF runs[r] = None THEN Entries(r) = {}
    ELSE /\ {h.revision : h \in Entries(r)} = 0..runs[r].revision
         /\ \A g, h \in Entries(r) :
              /\ g.revision = h.revision => g = h
              /\ h.revision = g.revision + 1 =>
                   h.from = g.to /\ h.to \in Legal[g.to]
         /\ \A h \in Entries(r) :
              /\ h.revision = 0 => h.to = "PENDING"
              /\ h.revision = runs[r].revision => h.to = runs[r].status

\* A Run names a Coordinator exactly when one start request did it, and then
\* Run, Execution, history and receipt are of that request: four writes of one
\* transaction, against moves and lifecycle Executions of other callers.
StartFacts ==
  /\ \A r \in Runs : runs[r] # None =>
       (runs[r].coordinator <=>
          \E q \in Requests : receipts[q] # None /\ receipts[q].run = r)
  /\ \A q \in Requests : receipts[q] # None =>
       /\ coordinators[receipts[q].run] = receipts[q].payload
       /\ StartTransition([request |-> q, run |-> receipts[q].run]) \in history
       /\ \A p \in Requests :
            receipts[p] # None /\ receipts[p].run = receipts[q].run => p = q

\* The replays of a Run form a tree below one original of the same incident,
\* whatever creations race: no source is missing, foreign or its own descendant.
LineageSound ==
  /\ \A r \in Runs : runs[r] # None =>
       IF runs[r].key \in Events
       THEN runs[r].root = r /\ runs[r].source = None
       ELSE LET root == runs[r].root
                source == runs[r].source IN
            /\ root \in Runs /\ runs[root] # None /\ runs[root].key \in Events
            /\ source \in Runs /\ runs[source] # None /\ runs[source].root = root
            /\ runs[r].incident = runs[root].incident
  /\ \A group \in (SUBSET Runs) \ {{}} :
       \E r \in group : runs[r] = None \/ runs[r].source \notin group

\* What a caller is told of its command is what the tables have: an applied or
\* identical command is there word by word, whoever wrote it; "differs" means
\* that its key belongs to another command.
OutcomesTrue ==
  \A c \in Callers : call[c] # None =>
    /\ call[c].at \in {"applied", "identical"} => Matches(call[c].cmd)
    /\ call[c].at = "differs" => Known(call[c].cmd) /\ ~Matches(call[c].cmd)

\* A constraint violation always means a lost race for a key: no transition
\* fails with PersistenceIntegrityError, and a creation refused after one has
\* not lost its key to nobody.
RacesExplained ==
  \A c \in Callers : call[c] # None /\ call[c].cmd.kind # "start" =>
    /\ call[c].at # "error"
    /\ call[c].at = "breach" => Known(call[c].cmd)

\* A Run moves along legal edges only, one revision at a time; what it is for
\* and its Coordinator never change: PENDING can be left once, terminal never.
RunsEvolve ==
  [][\A r \in Runs : runs[r] # None /\ runs'[r] # runs[r] =>
       /\ runs'[r].status \in Legal[runs[r].status]
       /\ runs'[r].revision = runs[r].revision + 1
       /\ [runs'[r] EXCEPT !.status = runs[r].status, !.revision = runs[r].revision,
                           !.coordinator = runs[r].coordinator] = runs[r]
       /\ runs[r].coordinator => runs'[r].coordinator]_vars

-----------------------------------------------------------------------------
\* What the specification promises and the code does not keep

\* "The same request with the same payload is answered duplicate-identical."
StartRecognised ==
  \A c \in Callers : At(c, "error") /\ call[c].cmd.kind = "start" =>
    receipts[call[c].cmd.request] # ReceiptOf(call[c].cmd)
=============================================================================
