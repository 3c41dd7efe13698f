--------------------------- MODULE OutboxPublisher ---------------------------
(***************************************************************************)
(* The Outbox publisher of the business service: rounds that send PENDING  *)
(* rows of outbox_events to Kafka and mark them PUBLISHED when the broker  *)
(* has acknowledged them.  Every event has a Kafka key of its own and its  *)
(* stored payload, so the topic is modelled by the number of records each  *)
(* event has in it.  An event is its position in the order of selection,   *)
(* (available_at, created_at, event_id).                                   *)
(***************************************************************************)
EXTENDS Integers, FiniteSets

CONSTANTS
  Publishers,  \* application instances with the publisher enabled
  Events,      \* outbox events
  Unroutable,  \* events whose partition never acknowledges a record
  BatchSize,   \* factoryops.outbox.publisher.batch-size
  MaxFaults    \* bound: crashes, send timeouts and database faults

ASSUME PublisherAssumption == IsFiniteSet(Publishers)
ASSUME EventAssumption == Events \subseteq Nat /\ Unroutable \subseteq Events
ASSUME BoundAssumption == BatchSize \in Nat \ {0} /\ MaxFaults \in Nat

VARIABLES
  status,  \* column status of each row, "none" before its insert
  copies,  \* Kafka: records of each event in the topic
  late,    \* Kafka: records of each event in flight that nobody waits for
  pc,      \* where each publisher is in its round
  batch,   \* the events of its round it has not finished
  faults   \* faults so far, bounded by MaxFaults

vars == <<status, copies, late, pc, batch, faults>>

TypeOK ==
  /\ status \in [Events -> {"none", "PENDING", "PUBLISHED"}]
  /\ copies \in [Events -> Nat]
  /\ late \in [Events -> Nat]
  /\ pc \in [Publishers -> {"idle", "send", "wait", "mark", "down"}]
  /\ batch \in [Publishers -> SUBSET Events]
  /\ faults \in 0..MaxFaults

Init ==
  /\ status = [e \in Events |-> "none"]
  /\ copies = [e \in Events |-> 0]
  /\ late = [e \in Events |-> 0]
  /\ pc = [p \in Publishers |-> "idle"]
  /\ batch = [p \in Publishers |-> {}]
  /\ faults = 0

-----------------------------------------------------------------------------
\* Helpers

Goto(p, label) == pc' = [pc EXCEPT ![p] = label]
Fault == faults < MaxFaults /\ faults' = faults + 1

\* The event the round of p is at.
IsAt(p, e) == e \in batch[p] /\ \A d \in batch[p] : e <= d

\* ORDER BY available_at, created_at, event_id LIMIT BatchSize
Publishable == {e \in Events : status[e] = "PENDING"}
Selection ==
  {e \in Publishable : Cardinality({d \in Publishable : d <= e}) <= BatchSize}

\* The round goes on with the next event, whatever became of e.
EndRound(p, e) ==                       \* mutant: a failure ends the round
  /\ batch' = [batch EXCEPT ![p] = {}]
  /\ Goto(p, "idle")
Continue(p, e) ==
  /\ batch' = [batch EXCEPT ![p] = @ \ {e}]
  /\ Goto(p, IF batch[p] = {e} THEN "idle" ELSE "send")

\* UPDATE ... SET status = 'PUBLISHED' WHERE status = 'PENDING'
KeepPending(e) == UNCHANGED status      \* mutant: the transaction is lost
MarkPublished(e) == status' = [status EXCEPT ![e] = "PUBLISHED"]

-----------------------------------------------------------------------------
\* The transaction of an incident inserts the row of its event.  Rows become
\* visible in the order of the commits, which is not the order of created_at.
Insert(e) ==
  /\ status[e] = "none"
  /\ status' = [status EXCEPT ![e] = "PENDING"]
  /\ UNCHANGED <<copies, late, pc, batch, faults>>

\* A round begins; a round that selects nothing changes nothing.
Select(p) ==
  /\ pc[p] = "idle"
  /\ Publishable # {}
  /\ batch' = [batch EXCEPT ![p] = Selection]
  /\ Goto(p, "send")
  /\ UNCHANGED <<status, copies, late, faults>>

\* The record is handed to the producer, whatever the row says by now.
Send(p) ==
  /\ pc[p] = "send"
  /\ Goto(p, "wait")
  /\ UNCHANGED <<status, copies, late, batch, faults>>

\* The broker appends the record and its acknowledgement arrives in time.
Acknowledge(p) ==
  /\ pc[p] = "wait"
  /\ \E e \in Events \ Unroutable :
       /\ IsAt(p, e)
       /\ copies' = [copies EXCEPT ![e] = @ + 1]
  /\ Goto(p, "mark")
  /\ UNCHANGED <<status, late, batch, faults>>

\* The send fails: a record that cannot be delivered expires; any other one is
\* given up after delivery-timeout, and may still be in flight.
MarkUnacknowledged(p, e) ==             \* mutant: a timeout counts as success
  Goto(p, "mark") /\ UNCHANGED batch
AfterFailedSend(p, e) == Continue(p, e)
SendFails(p) ==
  /\ pc[p] = "wait"
  /\ \E e \in Events :
       /\ IsAt(p, e)
       /\ AfterFailedSend(p, e)
       /\ \/ e \in Unroutable /\ UNCHANGED <<late, faults>>
          \/ /\ e \notin Unroutable
             /\ Fault
             /\ \/ UNCHANGED late
                \/ late' = [late EXCEPT ![e] = @ + 1]
  /\ UNCHANGED <<status, copies>>

\* A record in flight arrives late, or never.
LateArrival(e) ==
  /\ late[e] > 0
  /\ late' = [late EXCEPT ![e] = @ - 1]
  /\ copies' \in {copies, [copies EXCEPT ![e] = @ + 1]}
  /\ UNCHANGED <<status, pc, batch, faults>>

\* The row is marked in a transaction of its own; a row that is not PENDING
\* any more is reported as a failure, and either way the round goes on.
Mark(p) ==
  /\ pc[p] = "mark"
  /\ \E e \in Events :
       /\ IsAt(p, e)
       /\ IF status[e] = "PENDING" THEN MarkPublished(e) ELSE UNCHANGED status
       /\ Continue(p, e)
  /\ UNCHANGED <<copies, late, faults>>

\* The transaction fails before its commit, or its answer is lost after it.
MarkFails(p) ==
  /\ pc[p] = "mark"
  /\ Fault
  /\ \E e \in Events :
       /\ IsAt(p, e)
       /\ \/ UNCHANGED status
          \/ status[e] = "PENDING" /\ MarkPublished(e)
       /\ Continue(p, e)
  /\ UNCHANGED <<copies, late>>

\* The process dies; a record it was waiting for may still be in flight.
Crash(p) ==
  /\ pc[p] # "down"
  /\ Fault
  /\ batch' = [batch EXCEPT ![p] = {}]
  /\ Goto(p, "down")
  /\ \/ UNCHANGED late
     \/ /\ pc[p] = "wait"
        /\ \E e \in Events \ Unroutable :
             IsAt(p, e) /\ late' = [late EXCEPT ![e] = @ + 1]
  /\ UNCHANGED <<status, copies>>

Restart(p) ==
  /\ pc[p] = "down"
  /\ Goto(p, "idle")
  /\ UNCHANGED <<status, copies, late, batch, faults>>

-----------------------------------------------------------------------------
Round(p) == Select(p) \/ Send(p) \/ Mark(p) \/ Acknowledge(p)

\* An unroutable record is in the end given up by the producer.
Next ==
  \/ \E e \in Events : Insert(e) \/ LateArrival(e)
  \/ \E p \in Publishers :
       Round(p) \/ SendFails(p) \/ MarkFails(p) \/ Crash(p) \/ Restart(p)

Spec == Init /\ [][Next]_vars

\* The scheduler starts a round after every delay, delivery-timeout ends every
\* wait, and a crashed instance is started again.
Fairness ==
  \A p \in Publishers :
    /\ WF_vars(Round(p) \/ (pc[p] = "wait" /\ SendFails(p)))
    /\ WF_vars(Restart(p))

FairSpec == Spec /\ Fairness

-----------------------------------------------------------------------------
\* Properties

\* A row is PUBLISHED only when the topic holds its record: no timeout, crash,
\* late record or second publisher makes the publisher forget an event
\* (OutboxPublicationService marks after the acknowledgement).
PublishedIsDelivered ==
  \A e \in Events : status[e] = "PUBLISHED" => copies[e] > 0

\* Why: a publisher that is about to mark an event has seen it delivered.
PublisherInv ==
  /\ TypeOK
  /\ PublishedIsDelivered
  /\ \A p \in Publishers, e \in Events :
       pc[p] = "mark" /\ IsAt(p, e) => copies[e] > 0

\* Duplicates have a cause: without faults each publisher sends an event at
\* most once, and each fault accounts for at most one more record.
DuplicatesExplained ==
  \A e \in Events : copies[e] + late[e] <= Cardinality(Publishers) + faults

\* A failing event does not block the others: an event that can be delivered
\* is published, also when earlier ones fail in every round.
UnrelatedPublished ==
  \A e \in Events \ Unroutable :
    (status[e] = "PENDING") ~> (status[e] = "PUBLISHED")
=============================================================================
