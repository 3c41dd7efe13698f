---------------------------- MODULE EventIngress ----------------------------
(***************************************************************************)
(* The event ingress of the agent service: Kafka workers that turn the     *)
(* records of one partition of factoryops.quality.incident.v1 into Inbox   *)
(* rows, rejection rows and original Agent Runs, and commit the offset of  *)
(* a record only after its database work.  Kafka and the group coordinator *)
(* are external; a record's key is its incident id and its event id is     *)
(* derived from it, so all records of one event share a partition and one  *)
(* partition is modelled.  Offsets are positions of the log, from 1.       *)
(***************************************************************************)
EXTENDS Integers, Sequences, FiniteSets

CONSTANTS
  Consumers,   \* worker processes of the consumer group
  Events,      \* event ids
  Contents,    \* canonical contents (canonical_sha256) an event id may carry
  Configs,     \* frozen start-up configurations (provenance of a Run)
  RunIds,      \* identifiers the run_id factory may draw
  Poison,      \* any record the decoder refuses
  None,        \* SQL NULL, and "no consumer"
  MaxLog,      \* bound: records produced
  MaxFaults,   \* bound: crashes, database or Kafka faults, forced rebalances
  SeekFaults   \* TRUE: a seek may raise although the partition is assigned

Message == [event : Events, content : Contents]
InboxRow == [content : Contents, source : 1..MaxLog]
RunRow == [trigger : Events, config : Configs]

ASSUME BoundsAssumption == MaxLog \in Nat /\ MaxFaults \in Nat
ASSUME SeekAssumption == SeekFaults \in BOOLEAN
ASSUME NullAssumption ==
  /\ None \notin Consumers \cup Contents
  /\ None \notin InboxRow
  /\ None \notin RunRow
  /\ Poison \notin Message

VARIABLES
  log,         \* Kafka: the records of the partition
  committed,   \* Kafka: next position of the consumer group
  owner,       \* Kafka: consumer the partition is assigned to, or None
  position,    \* next position each consumer fetches
  pc,          \* where each worker is in run_once
  cur,         \* position of the record each worker holds
  config,      \* configuration each worker was started with
  inbox,       \* table agent_event_inbox, by event_id
  rejections,  \* table agent_event_rejections, by source position
  runs,        \* table agent_runs (original Runs), by run_id
  faults       \* faults so far, bounded by MaxFaults

kafka == <<log, committed, owner>>
tables == <<inbox, rejections, runs>>
vars == <<log, committed, owner, position, pc, cur, config, inbox,
          rejections, runs, faults>>

Busy == {"accept", "find", "insert", "commit", "seek"}

TypeOK ==
  /\ log \in Seq(Message \cup {Poison})
  /\ Len(log) <= MaxLog
  /\ committed \in 1..(MaxLog + 1)
  /\ owner \in Consumers \cup {None}
  /\ position \in [Consumers -> 1..(MaxLog + 1)]
  /\ pc \in [Consumers -> Busy \cup {"idle", "fatal", "down"}]
  /\ cur \in [Consumers -> 0..MaxLog]
  /\ config \in [Consumers -> Configs]
  /\ inbox \in [Events -> InboxRow \cup {None}]
  /\ rejections \subseteq 1..MaxLog
  /\ runs \in [RunIds -> RunRow \cup {None}]
  /\ faults \in 0..MaxFaults

Init ==
  /\ log = <<>>
  /\ committed = 1
  /\ owner = None
  /\ position = [c \in Consumers |-> 1]
  /\ pc = [c \in Consumers |-> "idle"]
  /\ cur = [c \in Consumers |-> 0]
  /\ config \in [Consumers -> Configs]
  /\ inbox = [e \in Events |-> None]
  /\ rejections = {}
  /\ runs = [r \in RunIds |-> None]
  /\ faults = 0

-----------------------------------------------------------------------------
\* Helpers

Goto(c, label) == pc' = [pc EXCEPT ![c] = label]
Fault == faults < MaxFaults /\ faults' = faults + 1

\* SELECT ... FROM agent_runs WHERE trigger_event_id = e
HasRun(e) == \E r \in RunIds : runs[r] # None /\ runs[r].trigger = e

\* The exception handler of run_once: no commit, seek back to the record.
RetryByCommitting(c) == Goto(c, "commit")   \* mutant: falls through to commit
RetryByPolling(c) == Goto(c, "idle")        \* mutant: no seek
Retry(c) == Goto(c, "seek")

Accepts(e, i) ==
  inbox' = [inbox EXCEPT ![e] = [content |-> log[i].content, source |-> i]]

-----------------------------------------------------------------------------
\* Kafka (external): the publisher appends, the group coordinator assigns.

Produce ==
  /\ Len(log) < MaxLog
  /\ \E m \in Message \cup {Poison} : log' = Append(log, m)
  /\ UNCHANGED <<committed, owner, position, pc, cur, config, tables, faults>>

\* The consumer assigned to the partition starts from the committed offset.
\* Taking the partition from a live consumer does not interrupt that worker.
Assign(c) ==
  /\ pc[c] \notin {"down", "fatal"}
  /\ owner # c
  /\ IF owner = None THEN UNCHANGED faults ELSE Fault
  /\ owner' = c
  /\ position' = [position EXCEPT ![c] = committed]
  /\ UNCHANGED <<log, committed, pc, cur, config, tables>>

-----------------------------------------------------------------------------
\* One iteration of the worker: poll, process, commit, seek on any exception

Poll(c) ==
  /\ pc[c] = "idle"
  /\ owner = c
  /\ position[c] <= Len(log)
  /\ cur' = [cur EXCEPT ![c] = position[c]]
  /\ position' = [position EXCEPT ![c] = @ + 1]
  /\ Goto(c, "accept")
  /\ UNCHANGED <<kafka, config, tables, faults>>

\* The record is the trusted content of its event: only such a record has a Run.
AnyDecoded(i, rows) == log[i] # Poison      \* mutant: the Inbox is not asked
Trusted(i, rows) ==
  /\ log[i] # Poison
  /\ rows[log[i].event] # None
  /\ rows[log[i].event].content = log[i].content

\* Mutants of the transaction below: a duplicate event id overwrites the content,
\* or is rejected even when its content is the trusted one.
Overwrite(i) ==
  IF log[i] = Poison
  THEN rejections' = rejections \cup {i} /\ UNCHANGED inbox
  ELSE /\ IF inbox[log[i].event] = None
          THEN Accepts(log[i].event, i)
          ELSE inbox' = [inbox EXCEPT ![log[i].event].content = log[i].content]
       /\ UNCHANGED rejections
RejectDuplicates(i) ==
  IF log[i] # Poison /\ inbox[log[i].event] = None
  THEN Accepts(log[i].event, i) /\ UNCHANGED rejections
  ELSE rejections' = rejections \cup {i} /\ UNCHANGED inbox

\* The Inbox transaction of the record at position i: what it leaves in the
\* Inbox and in the rejections.
InboxTransaction(i) ==
  \/ /\ log[i] = Poison
     /\ rejections' = rejections \cup {i}
     /\ UNCHANGED inbox
  \/ /\ log[i] # Poison
     /\ inbox[log[i].event] = None
     /\ Accepts(log[i].event, i)
     /\ UNCHANGED rejections
  \/ /\ Trusted(i, inbox)
     /\ UNCHANGED <<inbox, rejections>>
  \/ /\ log[i] # Poison
     /\ inbox[log[i].event] # None
     /\ inbox[log[i].event].content # log[i].content
     /\ rejections' = rejections \cup {i}
     /\ UNCHANGED inbox

Accept(c) ==
  /\ pc[c] = "accept"
  /\ InboxTransaction(cur[c])
  /\ Goto(c, IF Trusted(cur[c], inbox') THEN "find" ELSE "commit")
  /\ UNCHANGED <<kafka, position, cur, config, runs, faults>>

\* create_original_run looks for the Run, then for the Inbox row it needs.
FindRun(c) ==
  /\ pc[c] = "find"
  /\ LET e == log[cur[c]].event IN
     Goto(c, CASE HasRun(e) -> "commit"
               [] ~HasRun(e) /\ inbox[e] = None -> "fatal"
               [] OTHER -> "insert")
  /\ UNCHANGED <<kafka, position, cur, config, tables, faults>>

\* Mutant: no unique key on trigger_event_id.
InsertAlways(c) ==
  \E r \in RunIds :
    /\ runs[r] = None
    /\ runs' = [runs EXCEPT ![r] =
         [trigger |-> log[cur[c]].event, config |-> config[c]]]

\* INSERT of the PENDING Run and its initial history in one transaction.  The
\* unique key on trigger_event_id turns a lost race into the winner's Run.
RunTransaction(c) ==
  LET e == log[cur[c]].event IN
  IF HasRun(e)
  THEN UNCHANGED runs
  ELSE \E r \in RunIds :
         /\ runs[r] = None
         /\ runs' = [runs EXCEPT ![r] =
                       [trigger |-> e, config |-> config[c]]]

InsertRun(c) ==
  /\ pc[c] = "insert"
  /\ RunTransaction(c)
  /\ Goto(c, "commit")
  /\ UNCHANGED <<kafka, position, cur, config, inbox, rejections, faults>>

\* The synchronous commit of offset + 1.  The broker checks the generation of
\* the member, not that it owns the partition.
Commit(c) ==
  /\ pc[c] = "commit"
  /\ committed' = cur[c] + 1
  /\ cur' = [cur EXCEPT ![c] = 0]
  /\ Goto(c, "idle")
  /\ UNCHANGED <<log, owner, position, config, tables, faults>>

\* _seek_for_retry: the record is fetched again while the partition is ours;
\* an exception of the seek itself is only logged, and run_forever goes on.
Seek(c) ==
  /\ pc[c] = "seek"
  /\ \/ /\ owner = c
        /\ position' = [position EXCEPT ![c] = cur[c]]
        /\ UNCHANGED faults
     \/ /\ owner # c
        /\ UNCHANGED <<position, faults>>
     \/ /\ SeekFaults
        /\ owner = c
        /\ Fault
        /\ UNCHANGED position
  /\ cur' = [cur EXCEPT ![c] = 0]
  /\ Goto(c, "idle")
  /\ UNCHANGED <<kafka, config, tables>>

-----------------------------------------------------------------------------
\* Failures

\* A database call raises: before anything was written, or after its
\* transaction committed (the acknowledgement is lost, or the reload fails).
DatabaseFault(c) ==
  /\ pc[c] \in {"accept", "find", "insert"}
  /\ Fault
  /\ \/ UNCHANGED tables
     \/ /\ pc[c] = "accept"
        /\ InboxTransaction(cur[c])
        /\ UNCHANGED runs
     \/ /\ pc[c] = "insert"
        /\ RunTransaction(c)
        /\ UNCHANGED <<inbox, rejections>>
  /\ Retry(c)
  /\ UNCHANGED <<kafka, position, cur, config>>

\* The commit raises: the broker refused it (always possible for a worker that
\* lost the partition), or it was applied and the answer was lost.
CommitFault(c) ==
  /\ pc[c] = "commit"
  /\ \/ /\ owner # c
        /\ UNCHANGED <<committed, faults>>
     \/ /\ Fault
        /\ committed' \in {committed, cur[c] + 1}
  /\ Retry(c)
  /\ UNCHANGED <<log, owner, position, cur, config, tables>>

Crash(c) ==
  /\ pc[c] \notin {"down", "fatal"}
  /\ Fault
  /\ Goto(c, "down")
  /\ cur' = [cur EXCEPT ![c] = 0]
  /\ owner' = IF owner = c THEN None ELSE owner
  /\ UNCHANGED <<log, committed, position, config, tables>>

\* The process is started again, perhaps with another configuration.
Restart(c) ==
  /\ pc[c] = "down"
  /\ Goto(c, "idle")
  /\ \E g \in Configs : config' = [config EXCEPT ![c] = g]
  /\ UNCHANGED <<kafka, position, cur, tables, faults>>

-----------------------------------------------------------------------------
WorkerStep(c) ==
  \/ Poll(c) \/ Accept(c) \/ FindRun(c) \/ InsertRun(c) \/ Commit(c)
  \/ Seek(c)

Next ==
  \/ Produce
  \/ \E c \in Consumers :
       \/ Assign(c) \/ WorkerStep(c) \/ DatabaseFault(c) \/ CommitFault(c)
       \/ Crash(c) \/ Restart(c)

Spec == Init /\ [][Next]_vars

\* run_forever never stops calling run_once, a crashed process is restarted
\* and an unassigned partition is given to a live consumer.
Fairness ==
  /\ \A c \in Consumers : WF_vars(WorkerStep(c)) /\ WF_vars(Restart(c))
  /\ WF_vars(owner = None /\ \E c \in Consumers : Assign(c))

FairSpec == Spec /\ Fairness

-----------------------------------------------------------------------------
\* Properties

\* What the service owes a record before its offset may be passed: evidence
\* of a refusal, or the trusted Inbox row and the original Run of its event.
Handled(i) ==
  IF log[i] = Poison
  THEN i \in rejections
  ELSE LET e == log[i].event IN
       /\ inbox[e] # None
       /\ IF inbox[e].content = log[i].content
          THEN HasRun(e)
          ELSE i \in rejections

\* No record below the committed offset is unhandled: whatever crashes, lost
\* acknowledgements, rebalances and late commits of former owners happen, the
\* group never skips a record (worker.run_once commits after process).
CommittedHandled == \A i \in 1..(committed - 1) : Handled(i)

\* A trusted event has at most one original Run, although two workers may
\* process redeliveries of the same record at once (uk_agent_runs_trigger_event
\* and the classification of the lost race).
OneRunPerEvent ==
  \A r, s \in RunIds :
    (runs[r] # None /\ runs[s] # None /\ runs[r].trigger = runs[s].trigger)
      => r = s

\* Rejection evidence and trust exclude each other: a rejected position holds
\* a record that is not the trusted content of its event, so a redelivery of
\* the accepted record never turns into a rejection of it.
EvidenceConsistent ==
  /\ \A i \in rejections : i <= Len(log) /\ ~Trusted(i, inbox)
  /\ \A e \in Events : inbox[e] # None => inbox[e].source \notin rejections

\* Every Run was started for an event the Inbox trusts, and the record the
\* Inbox row was taken from has that event and that content.
RunsOnlyForTrusted ==
  \A r \in RunIds : runs[r] # None =>
    LET e == runs[r].trigger IN
      /\ inbox[e] # None
      /\ log[inbox[e].source] = [event |-> e, content |-> inbox[e].content]

\* No redelivery, crash or race takes a worker into the integrity exit of
\* run_forever (RunStartIntegrityError): it would crash-loop on the record.
NoIntegrityExit == \A c \in Consumers : pc[c] # "fatal"

\* Inbox rows, Runs and rejections are facts: later deliveries, conflicting
\* contents and workers with another configuration never rewrite them.
FactsFrozen ==
  [][/\ \A e \in Events : inbox[e] # None => inbox'[e] = inbox[e]
     /\ \A r \in RunIds : runs[r] # None => runs'[r] = runs[r]
     /\ rejections \subseteq rejections']_vars

\* The inductive strengthening of CommittedHandled and NoIntegrityExit: what
\* each worker may rely on at each point of run_once.  The offset of a record
\* is committed by a worker that handled it and that saw every earlier record
\* handled; the position of the assigned worker may be ahead of the handled
\* prefix by the record it holds, and only by that one.
HandledBefore(n) == \A i \in 1..(n - 1) : Handled(i)

HoldsInOrder(c) ==
  /\ pc[c] \in Busy => cur[c] \in 1..Len(log) /\ HandledBefore(cur[c])
  /\ pc[c] \in {"find", "insert"} => Trusted(cur[c], inbox)
  /\ pc[c] = "commit" => Handled(cur[c])

FetchesInOrder(c) ==
  owner = c =>
    /\ pc[c] \in Busy \cup {"idle"}
    /\ position[c] <= Len(log) + 1
    /\ \A i \in 1..(position[c] - 1) :
         Handled(i) \/ (pc[c] \in Busy /\ i = cur[c])

IngressInv ==
  /\ TypeOK
  /\ committed <= Len(log) + 1
  /\ HandledBefore(committed)
  /\ \A c \in Consumers : HoldsInOrder(c) /\ FetchesInOrder(c)
  /\ NoIntegrityExit

\* The ingress implements EventTrust: the Inbox is the trust, the original Runs
\* are the starts, rejection rows the refusals, the committed offset is what was
\* passed.  Every statement of a worker, every lost acknowledgement, crash and
\* rebalance is one step of that specification or none.
Trust == INSTANCE EventTrust WITH
  trusted <- [e \in Events |-> IF inbox[e] = None THEN None ELSE inbox[e].content],
  started <- [e \in Events |->
    {[run |-> r, config |-> runs[r].config] :
       r \in {s \in RunIds : runs[s] # None /\ runs[s].trigger = e}}],
  refused <- rejections,
  passed <- committed
TrustSpec == Trust!Spec

\* Every record the log holds is eventually handled, once the finitely many
\* faults are over.
EventuallyHandled ==
  \A i \in 1..MaxLog : (i <= Len(log)) ~> (i <= Len(log) /\ Handled(i))
=============================================================================
