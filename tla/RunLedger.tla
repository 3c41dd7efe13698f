----------------------------- MODULE RunLedger ------------------------------
(***************************************************************************)
(* The tables of Agent Runs, and what the services promise about them:     *)
(* every change is one whole command, whose conditions hold when it is     *)
(* committed, however old the reads are on which the service accepted it.  *)
(* AgentRuns implements LedgerSpec.                                        *)
(***************************************************************************)
EXTENDS Integers, FiniteSets

CONSTANTS
  Runs,       \* run ids, minted by the service
  Events,     \* trigger_event_id
  Replays,    \* replay_request_id
  Incidents,  \* incident_id, for the whole frozen provenance of a Run
  Requests,   \* transition_request_id and start_request_id: one column holds both
  Payloads,   \* inputs of a Coordinator: prompt version, context, evidence
  Moves,      \* bound: <<expected status, expected revision, target>> asked for
  None        \* SQL NULL, no row

Legal == [
  PENDING |-> {"RUNNING", "CANCELLED"},
  RUNNING |-> {"WAITING_FOR_APPROVAL", "SUSPENDED", "SUCCEEDED", "FAILED",
               "CANCELLED"},
  WAITING_FOR_APPROVAL |-> {"RUNNING", "SUSPENDED", "CANCELLED"},
  SUSPENDED |-> {"RUNNING", "FAILED", "CANCELLED"},
  SUCCEEDED |-> {}, FAILED |-> {}, CANCELLED |-> {}]

Terminal == {"SUCCEEDED", "FAILED", "CANCELLED"}
RunStatus == {"PENDING", "RUNNING", "WAITING_FOR_APPROVAL", "SUSPENDED"} \cup Terminal

\* A reason with its actor: that of a start, or another.
Reasons == {"start", "other"}

\* key tells the run_kind: an event or a replay request.
RunRow ==
  [key : Events \cup Replays, root : Runs, source : Runs \cup {None},
   incident : Incidents, status : RunStatus, revision : Nat, coordinator : BOOLEAN]
Transition ==
  [request : Requests \cup {None}, run : Runs, from : RunStatus \cup {None},
   to : RunStatus, revision : Nat, reason : Reasons \cup {None}]
Receipt == [run : Runs, payload : Payloads]

OriginalCommand == [kind : {"original"}, key : Events, incident : Incidents]
ReplayCommand ==
  [kind : {"replay"}, key : Replays, root : Runs, source : Runs, incident : Incidents]
MoveCommand == [kind : {"move"}, request : Requests, run : Runs, move : Moves,
                reason : Reasons]
StartCommand ==
  [kind : {"start"}, request : Requests, run : Runs, payload : Payloads]
Command == OriginalCommand \cup ReplayCommand \cup MoveCommand \cup StartCommand

ASSUME MovesAssumption == Moves \subseteq RunStatus \X Nat \X RunStatus
ASSUME NullAssumption ==
  /\ None \notin RunRow \cup Receipt
  /\ None \notin Payloads \cup Requests \cup Runs \cup RunStatus \cup Reasons
ASSUME KeysAssumption == Events \cap Replays = {}

VARIABLES
  inbox,         \* event ids in agent_event_inbox
  runs,          \* table agent_runs
  history,       \* table agent_run_transitions
  coordinators,  \* agent_executions: inputs of the row that has the key of the
                 \* Run's Coordinator, attempt 1
  receipts       \* table coordinator_start_requests

tables == <<inbox, runs, history, coordinators, receipts>>

EmptyTables ==
  /\ inbox = {}
  /\ runs = [r \in Runs |-> None]
  /\ history = {}
  /\ coordinators = [r \in Runs |-> None]
  /\ receipts = [q \in Requests |-> None]

-----------------------------------------------------------------------------
\* Rows and look-ups

HasKey(key, r) == runs[r] # None /\ runs[r].key = key

\* The history row a move inserts.
SameRevision(q) ==                      \* mutant: to_revision off by one
  [request |-> q.request, run |-> q.run, from |-> q.move[1], to |-> q.move[3],
   revision |-> q.move[2], reason |-> q.reason]
EntryOf(q) ==
  [request |-> q.request, run |-> q.run, from |-> q.move[1], to |-> q.move[3],
   revision |-> q.move[2] + 1, reason |-> q.reason]
ReceiptOf(q) == [run |-> q.run, payload |-> q.payload]

\* _validate_replay_lineage
AnySource(q) ==                         \* mutant: the source is not compared
  /\ runs[q.root] # None /\ runs[q.source] # None
  /\ runs[q.root].key \in Events
  /\ runs[q.root].incident = q.incident /\ runs[q.source].incident = q.incident
ValidLineage(q) ==
  /\ runs[q.root] # None /\ runs[q.source] # None
  /\ runs[q.root].key \in Events
  /\ runs[q.source].root = q.root
  /\ runs[q.root].incident = q.incident /\ runs[q.source].incident = q.incident

NewRun(r, q) ==
  [key |-> q.key, root |-> IF q.kind = "original" THEN r ELSE q.root,
   source |-> IF q.kind = "original" THEN None ELSE q.source,
   incident |-> q.incident, status |-> "PENDING", revision |-> 0,
   coordinator |-> FALSE]

FromPending(r) ==                       \* mutant: the first entry has a from_status
  [request |-> None, run |-> r, from |-> "PENDING", to |-> "PENDING", revision |-> 0,
   reason |-> None]
InitialTransition(r) ==
  [request |-> None, run |-> r, from |-> None, to |-> "PENDING", revision |-> 0,
   reason |-> None]

\* The unique keys on transition_request_id and on (run_id, to_revision).
Violates(entry) ==
  \E h \in history :
    \/ h.request = entry.request
    \/ h.run = entry.run /\ h.revision = entry.revision

Expected(q) ==
  /\ runs[q.run] # None
  /\ runs[q.run].status = q.move[1] /\ runs[q.run].revision = q.move[2]

StartTransition(q) ==
  [request |-> q.request, run |-> q.run, from |-> "PENDING", to |-> "RUNNING",
   revision |-> 1, reason |-> "start"]

Startable(r) ==
  /\ runs[r] # None
  /\ runs[r].status = "PENDING" /\ runs[r].revision = 0 /\ ~runs[r].coordinator

Unbound(q) ==                           \* mutant: the Run does not name its Coordinator
  /\ runs' = [runs EXCEPT ![q.run].status = "RUNNING", ![q.run].revision = 1]
  /\ history' = history \cup {StartTransition(q)}
Unrecorded(q) ==                        \* mutant: no history
  /\ runs' = [runs EXCEPT ![q.run].status = "RUNNING", ![q.run].revision = 1,
                          ![q.run].coordinator = TRUE]
  /\ UNCHANGED history
Bind(q) ==
  /\ runs' = [runs EXCEPT ![q.run].status = "RUNNING", ![q.run].revision = 1,
                          ![q.run].coordinator = TRUE]
  /\ history' = history \cup {StartTransition(q)}

-----------------------------------------------------------------------------
\* Commands

\* A Run for an event of the Inbox, or a replay of a Run in its own lineage.
CreateRun(q, r) ==
  /\ q.kind \in {"original", "replay"}
  /\ q.kind = "original" => q.key \in inbox
  /\ q.kind = "replay" => ValidLineage(q)
  /\ runs[r] = None /\ ~\E s \in Runs : HasKey(q.key, s)
  /\ runs' = [runs EXCEPT ![r] = NewRun(r, q)]
  /\ history' = history \cup {InitialTransition(r)}
  /\ UNCHANGED <<inbox, coordinators, receipts>>

MoveRun(q) ==
  /\ q.kind = "move" /\ Expected(q) /\ ~Violates(EntryOf(q))
  /\ q.move[3] \in Legal[q.move[1]]
  /\ runs' = [runs EXCEPT ![q.run].status = q.move[3],
                          ![q.run].revision = q.move[2] + 1]
  /\ history' = history \cup {EntryOf(q)}
  /\ UNCHANGED <<inbox, coordinators, receipts>>

StartRun(q) ==
  /\ q.kind = "start" /\ Startable(q.run) /\ ~Violates(StartTransition(q))
  /\ coordinators[q.run] = None /\ receipts[q.request] = None
  /\ Bind(q)
  /\ coordinators' = [coordinators EXCEPT ![q.run] = q.payload]
  /\ receipts' = [receipts EXCEPT ![q.request] = ReceiptOf(q)]
  /\ UNCHANGED inbox

\* create_execution may be asked for the Coordinator of a Run, too; the Run is
\* not told.
CreateCoordinator(r, payload) ==
  /\ runs[r] # None /\ coordinators[r] = None
  /\ coordinators' = [coordinators EXCEPT ![r] = payload]
  /\ UNCHANGED <<inbox, runs, history, receipts>>

\* The ingress accepts an event.
Arrive(e) ==
  /\ inbox' = inbox \cup {e}
  /\ UNCHANGED <<runs, history, coordinators, receipts>>

LedgerNext ==
  \/ \E q \in Command, r \in Runs : CreateRun(q, r)
  \/ \E q \in Command : MoveRun(q) \/ StartRun(q)
  \/ \E r \in Runs, payload \in Payloads : CreateCoordinator(r, payload)
  \/ \E e \in Events : Arrive(e)

LedgerSpec == EmptyTables /\ [][LedgerNext]_tables
=============================================================================
