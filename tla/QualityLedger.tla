--------------------------- MODULE QualityLedger ----------------------------
(***************************************************************************)
(* What the business service promises of its tables: batches, inspections, *)
(* results, quality incidents and Outbox rows change by whole facts.  Each *)
(* action is one accepted request, the check of its conditions and all its *)
(* rows in one step.  InspectionIntake shows that the transactions of the  *)
(* service, which interleave, come to no more than this.                   *)
(***************************************************************************)
EXTENDS FiniteSets

CONSTANTS
  Batches,      \* batch ids of PRODUCTION batches
  Products,     \* product code and production line of a batch
  Inspections,  \* inspection ids
  Images,       \* expected image: URI and digest
  Results,      \* result ids; incident and event ids are derived from them
  None          \* SQL NULL, no row, no request

\* A hold for an anomaly names its evidence, any other hold has none.
Hold ==
  [reason : {"QUALITY_ANOMALY"}, inspection : Inspections, result : Results]
    \cup [reason : {"MANUAL_QUALITY_HOLD"}, inspection : {None}, result : {None}]
ReleaseReasons == {"MANUAL_REVIEW_PASSED", "RECHECK_PASSED"}

BatchRow ==
  [product : Products, status : {"OPEN", "HELD", "RELEASED"},
   hold : Hold \cup {None}, release : ReleaseReasons \cup {None}]

\* completed is the result whose request completed the inspection, standing for
\* completed_at; NULL while the inspection is PENDING.
InspectionRow ==
  [batch : Batches, image : Images, completed : Results \cup {None}]
ResultRow == [inspection : Inspections, anomaly : BOOLEAN]
IncidentRow == [batch : Batches, inspection : Inspections]

ASSUME NoneAssumption ==
  None \notin BatchRow \cup InspectionRow \cup ResultRow \cup IncidentRow
                \cup Hold \cup ReleaseReasons \cup Results \cup Inspections

VARIABLES
  batches,      \* table batches, by batch id
  inspections,  \* table inspections, by inspection id
  results,      \* table vision_inspection_results, by result id
  incidents,    \* table quality_incidents, by the result of the incident
  outbox        \* table outbox_events, by the result of its incident

ledger == <<batches, inspections, results, incidents, outbox>>

TablesOK ==
  /\ batches \in [Batches -> BatchRow \cup {None}]
  /\ inspections \in [Inspections -> InspectionRow \cup {None}]
  /\ results \in [Results -> ResultRow \cup {None}]
  /\ incidents \in [Results -> IncidentRow \cup {None}]
  /\ outbox \in [Results -> IncidentRow \cup {None}]

EmptyTables ==
  /\ batches = [b \in Batches |-> None]
  /\ inspections = [i \in Inspections |-> None]
  /\ results = [r \in Results |-> None]
  /\ incidents = [r \in Results |-> None]
  /\ outbox = [r \in Results |-> None]

-----------------------------------------------------------------------------
\* Rows

OpenBatch(p) == [product |-> p, status |-> "OPEN", hold |-> None, release |-> None]

HasBatch(b, status) == batches[b] # None /\ batches[b].status = status

\* The evidence of a hold: an anomalous result of an inspection of the batch.
Evidence(b, h) ==
  /\ inspections[h.inspection] # None
  /\ inspections[h.inspection].batch = b
  /\ results[h.result] # None
  /\ results[h.result].inspection = h.inspection
  /\ results[h.result].anomaly

Justified(b, h) == h.reason = "QUALITY_ANOMALY" => Evidence(b, h)

-----------------------------------------------------------------------------
\* Accepted requests

CreateBatch(b, p) ==
  /\ batches[b] = None
  /\ batches' = [batches EXCEPT ![b] = OpenBatch(p)]
  /\ UNCHANGED <<inspections, results, incidents, outbox>>

HoldBatch(b, h) ==
  /\ HasBatch(b, "OPEN")
  /\ Justified(b, h)
  /\ batches' = [batches EXCEPT ![b].status = "HELD", ![b].hold = h]
  /\ UNCHANGED <<inspections, results, incidents, outbox>>

ReleaseBatch(b, reason) ==
  /\ HasBatch(b, "HELD")
  /\ batches' = [batches EXCEPT ![b].status = "RELEASED", ![b].release = reason]
  /\ UNCHANGED <<inspections, results, incidents, outbox>>

CreateInspection(i, b, m) ==
  /\ inspections[i] = None
  /\ HasBatch(b, "OPEN") \/ HasBatch(b, "HELD")
  /\ inspections' = [inspections EXCEPT ![i] =
       [batch |-> b, image |-> m, completed |-> None]]
  /\ UNCHANGED <<batches, results, incidents, outbox>>

\* The first result completes its inspection; an anomalous one opens an
\* incident and leaves an event in the Outbox.
AcceptResult(r, row) ==
  LET i == row.inspection
      incident == [batch |-> inspections[i].batch, inspection |-> i] IN
  /\ results[r] = None
  /\ inspections[i] # None
  /\ results' = [results EXCEPT ![r] = row]
  /\ inspections' = [inspections EXCEPT ![i].completed =
       IF @ = None THEN r ELSE @]
  /\ IF row.anomaly
     THEN /\ incidents' = [incidents EXCEPT ![r] = incident]
          /\ outbox' = [outbox EXCEPT ![r] = incident]
     ELSE UNCHANGED <<incidents, outbox>>
  /\ UNCHANGED batches

LedgerNext ==
  \/ \E b \in Batches, p \in Products : CreateBatch(b, p)
  \/ \E b \in Batches, h \in Hold : HoldBatch(b, h)
  \/ \E b \in Batches, reason \in ReleaseReasons : ReleaseBatch(b, reason)
  \/ \E i \in Inspections, b \in Batches, m \in Images : CreateInspection(i, b, m)
  \/ \E r \in Results, row \in ResultRow : AcceptResult(r, row)

LedgerSpec == EmptyTables /\ [][LedgerNext]_ledger

-----------------------------------------------------------------------------
\* Properties

\* Batch, inspection, result, incident and event form one chain of evidence: an
\* inspection is complete exactly when it has a result, and was completed by
\* one of its own; an incident and an event exist for exactly the anomalous
\* results and name the batch of the result's inspection; a batch held for an
\* anomaly keeps evidence that is still true.
EvidenceChain ==
  /\ \A r \in Results : results[r] # None =>
       /\ inspections[results[r].inspection] # None
       /\ inspections[results[r].inspection].completed # None
  /\ \A i \in Inspections : inspections[i] # None =>
       /\ batches[inspections[i].batch] # None
       /\ inspections[i].completed # None =>
            LET r == inspections[i].completed IN
              results[r] # None /\ results[r].inspection = i
  /\ \A r \in Results :
       /\ outbox[r] = incidents[r]
       /\ incidents[r] # None <=> (results[r] # None /\ results[r].anomaly)
       /\ incidents[r] # None =>
            /\ incidents[r].inspection = results[r].inspection
            /\ incidents[r].batch = inspections[incidents[r].inspection].batch
  /\ \A b \in Batches : batches[b] # None =>
       /\ batches[b].hold = None <=> batches[b].status = "OPEN"
       /\ batches[b].release # None <=> batches[b].status = "RELEASED"
       /\ batches[b].hold # None => Justified(b, batches[b].hold)
=============================================================================
