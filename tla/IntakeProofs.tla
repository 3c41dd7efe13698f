---------------------------- MODULE IntakeProofs ----------------------------
(***************************************************************************)
(* Proofs about QualityLedger and InspectionIntake: the interleaved        *)
(* transactions implement the ledger, so that the chain of evidence, an    *)
(* invariant of the ledger, holds of them too; what callers are told is    *)
(* what the tables say; and transactions deadlock in three ways only.      *)
(***************************************************************************)
EXTENDS InspectionIntake, TLAPS

-----------------------------------------------------------------------------
\* The ledger

LEMMA LedgerType ==
  ASSUME TablesOK, [LedgerNext]_ledger
  PROVE  TablesOK'
<1>1. ASSUME NEW b \in Batches, NEW p \in Products, CreateBatch(b, p)
      PROVE  TablesOK'
  <2>1. OpenBatch(p) \in BatchRow
    BY DEF OpenBatch, BatchRow
  <2> QED
    BY <1>1, <2>1 DEF CreateBatch, TablesOK
<1>2. ASSUME NEW b \in Batches, NEW h \in Hold, HoldBatch(b, h)
      PROVE  TablesOK'
  <2>1. batches[b] \in BatchRow
    BY <1>2 DEF HoldBatch, HasBatch, TablesOK
  <2>2. [[batches[b] EXCEPT !.status = "HELD"] EXCEPT !.hold = h] \in BatchRow
    BY <2>1 DEF BatchRow
  <2>3. batches' = [batches EXCEPT ![b] =
          [[batches[b] EXCEPT !.status = "HELD"] EXCEPT !.hold = h]]
    BY <1>2 DEF HoldBatch, TablesOK
  <2> QED
    BY <1>2, <2>2, <2>3 DEF HoldBatch, TablesOK
<1>3. ASSUME NEW b \in Batches, NEW reason \in ReleaseReasons, ReleaseBatch(b, reason)
      PROVE  TablesOK'
  <2>1. batches[b] \in BatchRow
    BY <1>3 DEF ReleaseBatch, HasBatch, TablesOK
  <2>2. [[batches[b] EXCEPT !.status = "RELEASED"] EXCEPT !.release = reason] \in BatchRow
    BY <2>1 DEF BatchRow
  <2>3. batches' = [batches EXCEPT ![b] =
          [[batches[b] EXCEPT !.status = "RELEASED"] EXCEPT !.release = reason]]
    BY <1>3 DEF ReleaseBatch, TablesOK
  <2> QED
    BY <1>3, <2>2, <2>3 DEF ReleaseBatch, TablesOK
<1>4. ASSUME NEW i \in Inspections, NEW b \in Batches, NEW m \in Images,
             CreateInspection(i, b, m)
      PROVE  TablesOK'
  <2>1. [batch |-> b, image |-> m, completed |-> None] \in InspectionRow
    BY DEF InspectionRow
  <2> QED
    BY <1>4, <2>1 DEF CreateInspection, TablesOK
<1>5. ASSUME NEW r \in Results, NEW row \in ResultRow, AcceptResult(r, row)
      PROVE  TablesOK'
  <2> DEFINE i == row.inspection
             completed == IF inspections[i].completed = None
                          THEN r ELSE inspections[i].completed
  <2>1. i \in Inspections /\ inspections[i] \in InspectionRow
    BY <1>5 DEF AcceptResult, ResultRow, TablesOK
  <2>2. [batch |-> inspections[i].batch, inspection |-> i] \in IncidentRow
    BY <2>1 DEF InspectionRow, IncidentRow
  <2>3. [inspections[i] EXCEPT !.completed = completed] \in InspectionRow
    BY <2>1 DEF InspectionRow
  <2>4. inspections' = [inspections EXCEPT ![i] =
          [inspections[i] EXCEPT !.completed = completed]]
    BY <1>5 DEF AcceptResult, TablesOK
  <2>5. inspections' \in [Inspections -> InspectionRow \cup {None}]
    BY <2>1, <2>3, <2>4 DEF TablesOK
  <2>6. /\ incidents' \in [Results -> IncidentRow \cup {None}]
        /\ outbox' \in [Results -> IncidentRow \cup {None}]
    BY <1>5, <2>2 DEF AcceptResult, TablesOK
  <2>7. results' \in [Results -> ResultRow \cup {None}] /\ UNCHANGED batches
    BY <1>5 DEF AcceptResult, TablesOK
  <2> QED
    BY <2>5, <2>6, <2>7 DEF TablesOK
<1>6. ASSUME UNCHANGED ledger PROVE TablesOK'
  BY <1>6 DEF ledger, TablesOK
<1> QED
  BY <1>1, <1>2, <1>3, <1>4, <1>5, <1>6 DEF LedgerNext

\* Rows stay: an inspection keeps its batch and image, a completed one its
\* result; results, incidents and events are never rewritten.
RowsKept ==
  /\ \A i \in Inspections : inspections[i] # None =>
       /\ inspections'[i] # None
       /\ inspections'[i].batch = inspections[i].batch
       /\ inspections'[i].image = inspections[i].image
       /\ inspections[i].completed # None =>
            inspections'[i].completed = inspections[i].completed
  /\ \A r \in Results : results[r] # None =>
       /\ results'[r] = results[r]
       /\ incidents'[r] = incidents[r]
       /\ outbox'[r] = outbox[r]

LEMMA LedgerKeepsRows ==
  ASSUME TablesOK, [LedgerNext]_ledger
  PROVE  RowsKept
<1>1. ASSUME UNCHANGED <<inspections, results, incidents, outbox>> PROVE RowsKept
  BY <1>1 DEF RowsKept
<1>2. ASSUME NEW i \in Inspections, NEW b \in Batches, NEW m \in Images,
             CreateInspection(i, b, m)
      PROVE  RowsKept
  BY <1>2 DEF CreateInspection, RowsKept, TablesOK
<1>3. ASSUME NEW r \in Results, NEW row \in ResultRow, AcceptResult(r, row)
      PROVE  RowsKept
  <2> DEFINE i == row.inspection
             completed == IF inspections[i].completed = None
                          THEN r ELSE inspections[i].completed
  <2>1. i \in Inspections /\ inspections[i] \in InspectionRow
    BY <1>3 DEF AcceptResult, ResultRow, TablesOK
  <2>2. inspections' = [inspections EXCEPT ![i] =
          [inspections[i] EXCEPT !.completed = completed]]
    BY <1>3 DEF AcceptResult, TablesOK
  <2>3. [inspections[i] EXCEPT !.completed = completed] \in InspectionRow
    BY <2>1 DEF InspectionRow
  <2>4. [inspections[i] EXCEPT !.completed = completed] # None
    BY <2>3, NoneAssumption
  <2>5. \A j \in Inspections : inspections[j] # None =>
          /\ inspections'[j] # None
          /\ inspections'[j].batch = inspections[j].batch
          /\ inspections'[j].image = inspections[j].image
          /\ inspections[j].completed # None =>
               inspections'[j].completed = inspections[j].completed
    BY <2>1, <2>2, <2>4 DEF TablesOK, InspectionRow
  <2>6. \A q \in Results : results[q] # None =>
          /\ results'[q] = results[q]
          /\ incidents'[q] = incidents[q]
          /\ outbox'[q] = outbox[q]
    BY <1>3 DEF AcceptResult, TablesOK
  <2> QED
    BY <2>5, <2>6 DEF RowsKept
<1> QED
  BY <1>1, <1>2, <1>3
    DEF LedgerNext, CreateBatch, HoldBatch, ReleaseBatch, ledger

\* A hold that was justified stays so: its inspection and result are kept.
LEMMA JustifiedStays ==
  ASSUME TablesOK, RowsKept, NEW b \in Batches, NEW h \in Hold, Justified(b, h)
  PROVE  Justified(b, h)'
<1>1. ASSUME h.reason = "QUALITY_ANOMALY"
      PROVE  h.inspection \in Inspections /\ h.result \in Results
  BY <1>1 DEF Hold
<1> QED
  BY <1>1, NoneAssumption DEF Justified, Evidence, RowsKept, TablesOK

\* The four parts of EvidenceChain.
ResultsOfCompleted ==
  \A r \in Results : results[r] # None =>
    /\ inspections[results[r].inspection] # None
    /\ inspections[results[r].inspection].completed # None
CompletedByOwn ==
  \A i \in Inspections : inspections[i] # None =>
    /\ batches[inspections[i].batch] # None
    /\ inspections[i].completed # None =>
         LET r == inspections[i].completed IN
           results[r] # None /\ results[r].inspection = i
IncidentsOfAnomalies ==
  \A r \in Results :
    /\ outbox[r] = incidents[r]
    /\ incidents[r] # None <=> (results[r] # None /\ results[r].anomaly)
    /\ incidents[r] # None =>
         /\ incidents[r].inspection = results[r].inspection
         /\ incidents[r].batch = inspections[incidents[r].inspection].batch
HoldsJustified ==
  \A b \in Batches : batches[b] # None =>
    /\ batches[b].hold = None <=> batches[b].status = "OPEN"
    /\ batches[b].release # None <=> batches[b].status = "RELEASED"
    /\ batches[b].hold # None => Justified(b, batches[b].hold)

LEMMA EvidenceParts ==
  EvidenceChain <=> ResultsOfCompleted /\ CompletedByOwn
                      /\ IncidentsOfAnomalies /\ HoldsJustified
BY DEF EvidenceChain, ResultsOfCompleted, CompletedByOwn, IncidentsOfAnomalies,
       HoldsJustified

LEMMA LedgerKeepsEvidence ==
  ASSUME TablesOK, EvidenceChain, [LedgerNext]_ledger
  PROVE  EvidenceChain'
<1> USE DEF ResultsOfCompleted, CompletedByOwn, IncidentsOfAnomalies
<1>0. RowsKept /\ TablesOK'
  BY LedgerKeepsRows, LedgerType
<1>1. /\ ResultsOfCompleted /\ CompletedByOwn
      /\ IncidentsOfAnomalies /\ HoldsJustified
  BY EvidenceParts
<1>2. ASSUME NEW b \in Batches, NEW p \in Products, CreateBatch(b, p)
      PROVE  EvidenceChain'
  <2>1. OpenBatch(p) \in BatchRow /\ OpenBatch(p) # None
    BY NoneAssumption DEF OpenBatch, BatchRow
  <2>2. batches' = [batches EXCEPT ![b] = OpenBatch(p)]
    BY <1>2 DEF CreateBatch
  <2>3. HoldsJustified'
    <3> SUFFICES ASSUME NEW a \in Batches, batches'[a] # None
                 PROVE  (/\ batches[a].hold = None <=> batches[a].status = "OPEN"
                         /\ batches[a].release # None <=> batches[a].status = "RELEASED"
                         /\ batches[a].hold # None => Justified(a, batches[a].hold))'
      BY DEF HoldsJustified
    <3>1. CASE a = b
      BY <2>2, <3>1 DEF OpenBatch, TablesOK
    <3>2. CASE a # b
      BY <1>1, <1>2, <2>2, <3>2
        DEF CreateBatch, HoldsJustified, Justified, Evidence, TablesOK
    <3> QED
      BY <3>1, <3>2
  <2>4. ResultsOfCompleted' /\ CompletedByOwn' /\ IncidentsOfAnomalies'
    BY <1>1, <1>2, <2>1 DEF CreateBatch, TablesOK, InspectionRow
  <2> QED
    BY <2>3, <2>4, EvidenceParts, PTL
<1>3. ASSUME NEW b \in Batches, NEW h \in Hold, HoldBatch(b, h)
      PROVE  EvidenceChain'
  <2>1. batches[b] \in BatchRow /\ batches[b].release = None
    BY <1>1, <1>3 DEF HoldBatch, HasBatch, HoldsJustified, TablesOK
  <2>2. batches' = [batches EXCEPT ![b] =
          [[batches[b] EXCEPT !.status = "HELD"] EXCEPT !.hold = h]]
    BY <1>3 DEF HoldBatch, TablesOK
  <2>3. batches'[b].hold = h /\ batches'[b].status = "HELD" /\ batches'[b].release = None
    BY <2>1, <2>2 DEF BatchRow, TablesOK
  <2>4. h # None
    BY NoneAssumption
  <2>5. \A a \in Batches : a # b => batches'[a] = batches[a]
    BY <2>2 DEF TablesOK
  <2>6. HoldsJustified'
    <3> SUFFICES ASSUME NEW a \in Batches, batches'[a] # None
                 PROVE  (/\ batches[a].hold = None <=> batches[a].status = "OPEN"
                         /\ batches[a].release # None <=> batches[a].status = "RELEASED"
                         /\ batches[a].hold # None => Justified(a, batches[a].hold))'
      BY DEF HoldsJustified
    <3>1. CASE a = b
      <4>1. Justified(b, h)'
        BY <1>0, <1>3, JustifiedStays DEF HoldBatch
      <4> QED
        BY <2>3, <2>4, <3>1, <4>1 DEF Justified, Evidence
    <3>2. CASE a # b
      <4>1. UNCHANGED <<inspections, results>>
        BY <1>3 DEF HoldBatch
      <4> QED
        BY <1>1, <2>5, <3>2, <4>1 DEF HoldsJustified, Justified, Evidence
    <3> QED
      BY <3>1, <3>2
  <2>7. \A a \in Batches : batches[a] # None => batches'[a] # None
    <3>1. [[batches[b] EXCEPT !.status = "HELD"] EXCEPT !.hold = h] \in BatchRow
      BY <2>1 DEF BatchRow
    <3> QED
      BY <2>2, <2>5, <3>1, NoneAssumption DEF TablesOK
  <2>8. ResultsOfCompleted' /\ CompletedByOwn' /\ IncidentsOfAnomalies'
    BY <1>1, <1>3, <2>7 DEF HoldBatch, TablesOK, InspectionRow
  <2> QED
    BY <2>6, <2>8, EvidenceParts, PTL
<1>4. ASSUME NEW b \in Batches, NEW reason \in ReleaseReasons, ReleaseBatch(b, reason)
      PROVE  EvidenceChain'
  <2>1. batches[b] \in BatchRow /\ batches[b].status = "HELD"
    BY <1>4 DEF ReleaseBatch, HasBatch, TablesOK
  <2>2. batches' = [batches EXCEPT ![b] =
          [[batches[b] EXCEPT !.status = "RELEASED"] EXCEPT !.release = reason]]
    BY <1>4 DEF ReleaseBatch, TablesOK
  <2>3. batches'[b].hold = batches[b].hold /\ batches'[b].status = "RELEASED"
          /\ batches'[b].release = reason
    BY <2>1, <2>2 DEF BatchRow, TablesOK
  <2>4. reason # None /\ batches[b] # None
    BY <1>4, NoneAssumption DEF ReleaseBatch, HasBatch
  <2>5. \A a \in Batches : a # b => batches'[a] = batches[a]
    BY <2>2 DEF TablesOK
  <2>6. HoldsJustified'
    <3> SUFFICES ASSUME NEW a \in Batches, batches'[a] # None
                 PROVE  (/\ batches[a].hold = None <=> batches[a].status = "OPEN"
                         /\ batches[a].release # None <=> batches[a].status = "RELEASED"
                         /\ batches[a].hold # None => Justified(a, batches[a].hold))'
      BY DEF HoldsJustified
    <3>1. CASE a = b
      BY <1>1, <1>4, <2>1, <2>3, <2>4, <3>1
        DEF HoldsJustified, ReleaseBatch, Justified, Evidence
    <3>2. CASE a # b
      <4>1. UNCHANGED <<inspections, results>>
        BY <1>4 DEF ReleaseBatch
      <4> QED
        BY <1>1, <2>5, <3>2, <4>1 DEF HoldsJustified, Justified, Evidence
    <3> QED
      BY <3>1, <3>2
  <2>7. batches'[b] # None
    BY <2>1, <2>2, NoneAssumption DEF BatchRow, TablesOK
  <2>8. ResultsOfCompleted' /\ CompletedByOwn' /\ IncidentsOfAnomalies'
    BY <1>1, <1>4, <2>5, <2>7 DEF ReleaseBatch, TablesOK, InspectionRow
  <2> QED
    BY <2>6, <2>8, EvidenceParts, PTL
<1>5. ASSUME NEW i \in Inspections, NEW b \in Batches, NEW m \in Images,
             CreateInspection(i, b, m)
      PROVE  EvidenceChain'
  <2>1. batches[b] # None /\ inspections[i] = None
    BY <1>5 DEF CreateInspection, HasBatch
  <2>2. inspections'[i] = [batch |-> b, image |-> m, completed |-> None]
    BY <1>5 DEF CreateInspection, TablesOK
  <2>3. \A j \in Inspections : j # i => inspections'[j] = inspections[j]
    BY <1>5 DEF CreateInspection, TablesOK
  <2>4. UNCHANGED <<batches, results, incidents, outbox>>
    BY <1>5 DEF CreateInspection
  <2>5. HoldsJustified'
    BY <1>1, <2>1, <2>3, <2>4, JustifiedStays, <1>0
      DEF HoldsJustified, TablesOK, BatchRow
  <2>6. ResultsOfCompleted' /\ IncidentsOfAnomalies'
    BY <1>1, <2>1, <2>3, <2>4 DEF TablesOK, ResultRow, IncidentRow
  <2>7. CompletedByOwn'
    BY <1>1, <2>1, <2>2, <2>3, <2>4
  <2> QED
    BY <2>5, <2>6, <2>7, EvidenceParts, PTL
<1>6. ASSUME NEW r \in Results, NEW row \in ResultRow, AcceptResult(r, row)
      PROVE  EvidenceChain'
  <2> DEFINE i == row.inspection
             incident == [batch |-> inspections[i].batch, inspection |-> i]
  <2>1. /\ i \in Inspections /\ inspections[i] \in InspectionRow
        /\ inspections[i] # None /\ results[r] = None
    BY <1>6 DEF AcceptResult, ResultRow, TablesOK
  <2>2. inspections' = [inspections EXCEPT ![i] = [inspections[i] EXCEPT !.completed =
          IF inspections[i].completed = None THEN r ELSE inspections[i].completed]]
    BY <1>6 DEF AcceptResult, TablesOK
  <2>3. /\ inspections'[i].completed # None
        /\ inspections[i].completed = None => inspections'[i].completed = r
    BY <2>1, <2>2, NoneAssumption DEF InspectionRow, TablesOK
  <2>4. \A j \in Inspections : j # i => inspections'[j] = inspections[j]
    BY <2>2 DEF TablesOK
  <2>5. /\ results'[r] = row
        /\ \A q \in Results : q # r => /\ results'[q] = results[q]
                                      /\ incidents'[q] = incidents[q]
                                      /\ outbox'[q] = outbox[q]
        /\ row.anomaly => incidents'[r] = incident /\ outbox'[r] = incident
        /\ ~row.anomaly => incidents'[r] = incidents[r] /\ outbox'[r] = outbox[r]
        /\ UNCHANGED batches
    BY <1>6 DEF AcceptResult, TablesOK
  <2>6. row # None /\ incident # None
    <3>1. incident \in IncidentRow
      BY <2>1 DEF IncidentRow, InspectionRow
    <3> QED
      BY <3>1, NoneAssumption
  <2>7. /\ inspections'[i] # None /\ inspections'[i].batch = inspections[i].batch
    BY <1>0, <2>1 DEF RowsKept
  <2>8. ResultsOfCompleted'
    <3> SUFFICES ASSUME NEW q \in Results, results'[q] # None
                 PROVE  /\ inspections'[results'[q].inspection] # None
                        /\ inspections'[results'[q].inspection].completed # None
      OBVIOUS
    <3>1. CASE q = r
      BY <2>3, <2>5, <2>7, <3>1
    <3>2. CASE q # r
      <4>1. results[q] # None /\ results[q].inspection \in Inspections
        BY <2>5, <3>2 DEF TablesOK, ResultRow
      <4> QED
        BY <1>1, <2>3, <2>4, <2>5, <2>7, <3>2, <4>1
    <3> QED
      BY <3>1, <3>2
  <2>9. CompletedByOwn'
    <3> SUFFICES ASSUME NEW j \in Inspections, inspections'[j] # None
                 PROVE  /\ batches'[inspections'[j].batch] # None
                        /\ inspections'[j].completed # None =>
                             /\ results'[inspections'[j].completed] # None
                             /\ results'[inspections'[j].completed].inspection = j
      OBVIOUS
    <3>1. CASE j # i
      <4>1. /\ inspections[j].completed \in Results \cup {None}
        BY <2>4, <3>1 DEF TablesOK, InspectionRow
      <4> QED
        BY <1>1, <2>1, <2>4, <2>5, <3>1, <4>1
    <3>2. CASE j = i /\ inspections[i].completed = None
      BY <1>1, <2>1, <2>3, <2>5, <2>6, <2>7, <3>2
    <3>3. CASE j = i /\ inspections[i].completed # None
      <4>1. /\ inspections[i].completed \in Results \ {r}
            /\ inspections'[i].completed = inspections[i].completed
        BY <1>0, <1>1, <2>1, <3>3 DEF InspectionRow, RowsKept
      <4> QED
        BY <1>1, <2>1, <2>5, <2>7, <3>3, <4>1
    <3> QED
      BY <3>1, <3>2, <3>3
  <2>10. IncidentsOfAnomalies'
    <3> SUFFICES ASSUME NEW q \in Results
                 PROVE  (/\ outbox[q] = incidents[q]
                         /\ incidents[q] # None <=> (results[q] # None /\ results[q].anomaly)
                         /\ incidents[q] # None =>
                              /\ incidents[q].inspection = results[q].inspection
                              /\ incidents[q].batch = inspections[incidents[q].inspection].batch)'
      BY DEF IncidentsOfAnomalies
    <3>1. CASE q = r
      BY <1>1, <2>1, <2>5, <2>6, <2>7, <3>1
    <3>2. CASE q # r
      <4>1. incidents[q] # None => incidents[q].inspection \in Inspections
        BY <1>1 DEF TablesOK, IncidentRow
      <4>2. incidents[q] # None => inspections[incidents[q].inspection] # None
        BY <1>1
      <4> QED
        BY <1>0, <1>1, <2>5, <3>2, <4>1, <4>2 DEF RowsKept
    <3> QED
      BY <3>1, <3>2
  <2>11. HoldsJustified'
    BY <1>0, <1>1, <2>5, JustifiedStays DEF HoldsJustified, TablesOK, BatchRow
  <2> QED
    BY <2>8, <2>9, <2>10, <2>11, EvidenceParts, PTL
<1>7. ASSUME UNCHANGED ledger PROVE EvidenceChain'
  BY <1>7 DEF ledger, EvidenceChain, Justified, Evidence
<1> QED
  BY <1>2, <1>3, <1>4, <1>5, <1>6, <1>7 DEF LedgerNext

\* Batch, inspection, result, incident and event form one chain of evidence in
\* every state of the ledger.
THEOREM LedgerEvidence == LedgerSpec => [](TablesOK /\ EvidenceChain)
<1>1. EmptyTables => TablesOK /\ EvidenceChain
  BY DEF EmptyTables, TablesOK, EvidenceChain
<1>2. TablesOK /\ EvidenceChain /\ [LedgerNext]_ledger => (TablesOK /\ EvidenceChain)'
  BY LedgerType, LedgerKeepsEvidence
<1> QED
  BY <1>1, <1>2, PTL DEF LedgerSpec

-----------------------------------------------------------------------------
\* The transactions

\* The statements from the INSERT of a request to its commit, and those after
\* the new row is there.
Writing(c) ==
  IsAt(c, "insert") \/ IsAt(c, "duplicate") \/ IsAt(c, "commit")
    \/ IsAt(c, "open incident")
Inserted(c) == IsAt(c, "commit") \/ IsAt(c, "open incident")
Creating(c) == Writing(c) /\ tx[c].req.kind = "inspection"
Storing(c) == Writing(c) /\ tx[c].req.kind = "result"
Holding(c) == IsAt(c, "evidence") \/ IsAt(c, "write hold")
HoldsBatch(c) == Holding(c) \/ Creating(c)

\* A statement belongs to a request of its kind.
KindInv(c) ==
  LET q == tx[c].req IN
  /\ IsAt(c, "lock batch") => q.kind \in {"hold", "release", "inspection"}
  /\ Holding(c) => q.kind = "hold"
  /\ Writing(c) => q.kind \in {"batch", "inspection", "result"}
  /\ IsAt(c, "complete") \/ IsAt(c, "open incident") \/ IsAt(c, "find winner") =>
       q.kind = "result"
  /\ IsAt(c, "open incident") => q.anomaly
  /\ IsAt(c, "commit") /\ q.kind = "result" => ~q.anomaly

\* What the transaction of c has read is still so, or c has the lock on it.
ReadInv(c) ==
  LET q == tx[c].req IN
  /\ Creating(c) => HasBatch(q.batch, "OPEN") \/ HasBatch(q.batch, "HELD")
  /\ Holding(c) => HasBatch(q.batch, "OPEN")
  /\ IsAt(c, "write hold") => Justified(q.batch, q.hold)
  /\ IsAt(c, "complete") \/ Storing(c) =>
       /\ inspections[q.inspection] # None
       /\ tx[c].batch = inspections[q.inspection].batch
  /\ Storing(c) =>
       (Completes(c) <=> inspections[q.inspection].completed = None)
  /\ Inserted(c) => ~Exists(q)

\* A transaction holds the batch it has locked, the inspection it completes,
\* its new row and the inspection this refers to, and the gap it was left with.
LockInv(c) ==
  LET q == tx[c].req IN
  /\ \A l \in locks[c] :
       \/ HoldsBatch(c) /\ l = Exclusive("batch", q.batch)
       \/ Storing(c) /\ l = Exclusive("inspection", q.inspection)
       \/ Inserted(c) /\ l \in NewRow(q)
       \/ Inserted(c) /\ Storing(c) /\ l = Shared("inspection", q.inspection)
       \/ Writing(c) /\ l = [mode |-> "Gap", row |-> Key(q)]
  /\ HoldsBatch(c) => Exclusive("batch", q.batch) \in locks[c]
  /\ Inserted(c) => [mode |-> "X", row |-> Key(q)] \in locks[c]
  /\ Inserted(c) /\ Storing(c) => Shared("inspection", q.inspection) \in locks[c]

CallerInv(c) == KindInv(c) /\ ReadInv(c) /\ LockInv(c)

\* Nobody has a lock that one of another stands in the way of.
Compatible(c, d) ==
  \A k \in locks[c], l \in locks[d] : k.mode # "Insert" => ~Conflict(k, l)

IntakeInv ==
  /\ TypeOK
  /\ EvidenceChain
  /\ \A c \in Callers : CallerInv(c)
  /\ \A c, d \in Callers : c # d => Compatible(c, d)

LEMMA KindOf ==
  ASSUME NEW q \in Request
  PROVE  /\ q.kind = "batch" <=> q \in CreateBatchRequest
         /\ q.kind = "inspection" <=> q \in CreateRequest
         /\ q.kind = "hold" <=> q \in HoldRequest
         /\ q.kind = "release" <=> q \in ReleaseRequest
         /\ q.kind = "result" <=> q \in ResultRequest
BY DEF Request, CreateBatchRequest, CreateRequest, HoldRequest, ReleaseRequest,
       ResultRequest

LEMMA RequestOf ==
  ASSUME TypeOK, NEW c \in Callers, tx[c] # None
  PROVE  tx[c].req \in Request /\ tx[c].batch \in Batches \cup {None}
BY DEF TypeOK, Tx

\* Before its first lock a transaction has none.
LEMMA Unlocked ==
  ASSUME NEW c \in Callers, LockInv(c),
         \/ tx[c] = None
         \/ tx[c].at \in Answers \cup {"lock batch", "complete", "find winner"}
  PROVE  locks[c] = {}
<1>1. ~Writing(c) /\ ~HoldsBatch(c) /\ ~Storing(c) /\ ~Inserted(c)
  BY DEF Writing, HoldsBatch, Holding, Creating, Storing, Inserted, IsAt, Answers
<1> QED
  BY <1>1 DEF LockInv

\* Two transactions neither hold one batch, nor complete one inspection, nor
\* insert one row.
LEMMA Apart ==
  ASSUME NEW c \in Callers, NEW d \in Callers, Compatible(c, d),
         LockInv(c), LockInv(d)
  PROVE  /\ HoldsBatch(c) /\ HoldsBatch(d) => tx[c].req.batch # tx[d].req.batch
         /\ Completes(c) /\ Completes(d) => tx[c].req.inspection # tx[d].req.inspection
         /\ Inserted(c) /\ Inserted(d) => Key(tx[c].req) # Key(tx[d].req)
<1>1. \A row : ~([mode |-> "X", row |-> row] \in locks[c]
                   /\ [mode |-> "X", row |-> row] \in locks[d])
  BY DEF Compatible, Conflict
<1>2. HoldsBatch(c) /\ HoldsBatch(d) => tx[c].req.batch # tx[d].req.batch
  BY <1>1 DEF LockInv, Exclusive
<1>3. Completes(c) /\ Completes(d) => tx[c].req.inspection # tx[d].req.inspection
  BY <1>1 DEF Completes, Exclusive
<1>4. Inserted(c) /\ Inserted(d) => Key(tx[c].req) # Key(tx[d].req)
  BY <1>1 DEF LockInv
<1> QED
  BY <1>2, <1>3, <1>4

\* Every statement commits one fact of the ledger or none.
LEMMA StepImplements ==
  ASSUME IntakeInv, NEW c \in Callers, CallerStep(c)
  PROVE  [LedgerNext]_ledger
<1> DEFINE q == tx[c].req
<1>0. TypeOK /\ CallerInv(c) /\ TablesOK
  BY DEF IntakeInv, TypeOK
<1>1. tx[c] # None => /\ q \in Request
                      /\ q.kind = "batch" => q \in CreateBatchRequest
                      /\ q.kind = "inspection" => q \in CreateRequest
                      /\ q.kind = "hold" => q \in HoldRequest
                      /\ q.kind = "release" => q \in ReleaseRequest
                      /\ q.kind = "result" => q \in ResultRequest
  BY <1>0, RequestOf, KindOf
<1>2. CASE CommitBatch(c)
  <2>1. q \in CreateBatchRequest /\ batches[q.batch] = None
    BY <1>0, <1>1, <1>2 DEF CommitBatch, CallerInv, ReadInv, Inserted, Exists, IsAt
  <2>2. q.batch \in Batches /\ q.product \in Products
    BY <2>1 DEF CreateBatchRequest
  <2>3. CreateBatch(q.batch, q.product)
    BY <1>2, <2>1 DEF CommitBatch, CreateBatch
  <2> QED
    BY <2>2, <2>3 DEF LedgerNext
<1>3. CASE HoldOpen(c)
  <2>1. q \in HoldRequest /\ Justified(q.batch, q.hold)
    BY <1>0, <1>1, <1>3 DEF HoldOpen, At, IsAt, CallerInv, KindInv, ReadInv, Holding
  <2>2. q.batch \in Batches /\ q.hold \in Hold
    BY <2>1 DEF HoldRequest
  <2>3. HoldBatch(q.batch, q.hold) \/ UNCHANGED ledger
    BY <1>3, <2>1 DEF HoldOpen, HoldBatch, ledger
  <2> QED
    BY <2>2, <2>3 DEF LedgerNext
<1>4. CASE Release(c)
  <2>1. q \in ReleaseRequest
    BY <1>1, <1>4 DEF Release, At, IsAt
  <2>2. q.batch \in Batches /\ q.reason \in ReleaseReasons
    BY <2>1 DEF ReleaseRequest
  <2>3. ReleaseBatch(q.batch, q.reason) \/ UNCHANGED ledger
    BY <1>4 DEF Release, ReleaseBatch, ledger
  <2> QED
    BY <2>2, <2>3 DEF LedgerNext
<1>5. CASE CommitInspection(c)
  <2>1. /\ q \in CreateRequest /\ inspections[q.inspection] = None
        /\ HasBatch(q.batch, "OPEN") \/ HasBatch(q.batch, "HELD")
    BY <1>0, <1>1, <1>5
      DEF CommitInspection, CallerInv, ReadInv, Inserted, Creating, Writing, Exists, IsAt
  <2>2. q.inspection \in Inspections /\ q.batch \in Batches /\ q.image \in Images
    BY <2>1 DEF CreateRequest
  <2>3. CreateInspection(q.inspection, q.batch, q.image)
    BY <1>5, <2>1 DEF CommitInspection, CreateInspection
  <2> QED
    BY <2>2, <2>3 DEF LedgerNext
<1>6. ASSUME Inserted(c), q.kind = "result", tx[c] # None, StoreResult(c),
             UNCHANGED batches,
             IF q.anomaly THEN /\ incidents' = [incidents EXCEPT ![q.result] = IncidentOf(c)]
                               /\ outbox' = [outbox EXCEPT ![q.result] = IncidentOf(c)]
                          ELSE UNCHANGED <<incidents, outbox>>
      PROVE  LedgerNext
  <2>1. /\ q \in ResultRequest /\ inspections[q.inspection] # None
        /\ tx[c].batch = inspections[q.inspection].batch
        /\ Completes(c) <=> inspections[q.inspection].completed = None
        /\ results[q.result] = None
    BY <1>0, <1>1, <1>6 DEF CallerInv, ReadInv, Inserted, Storing, Writing, Exists
  <2>2. q.result \in Results /\ q.inspection \in Inspections /\ RowOf(q) \in ResultRow
    BY <2>1 DEF ResultRequest, RowOf, ResultRow
  <2>3. inspections[q.inspection] \in InspectionRow
    BY <1>0, <2>1, <2>2 DEF TablesOK
  <2>4. inspections' = [inspections EXCEPT ![q.inspection].completed =
          IF @ = None THEN q.result ELSE @]
    <3>1. CASE Completes(c)
      BY <1>6, <2>1, <3>1 DEF StoreResult
    <3>2. CASE ~Completes(c)
      <4>1. [inspections[q.inspection] EXCEPT !.completed = inspections[q.inspection].completed]
              = inspections[q.inspection]
        BY <2>3 DEF InspectionRow
      <4>2. inspections' = inspections
        BY <1>6, <3>2 DEF StoreResult
      <4> QED
        BY <1>0, <2>1, <2>2, <3>2, <4>1, <4>2 DEF TablesOK
    <3> QED
      BY <3>1, <3>2
  <2>5. AcceptResult(q.result, RowOf(q))
    BY <1>6, <2>1, <2>4 DEF AcceptResult, StoreResult, RowOf, IncidentOf
  <2> QED
    BY <2>2, <2>5 DEF LedgerNext
<1>7. CASE CommitResult(c)
  <2>1. IsAt(c, "commit") /\ q.kind = "result" /\ StoreResult(c) /\ ~q.anomaly
    BY <1>0, <1>7 DEF CommitResult, CallerInv, KindInv
  <2> QED
    BY <1>6, <1>7, <2>1 DEF CommitResult, Inserted, IsAt
<1>8. CASE OpenIncident(c)
  <2>1. IsAt(c, "open incident") /\ q.kind = "result" /\ q.anomaly /\ q \in ResultRequest
    BY <1>0, <1>1, <1>8 DEF OpenIncident, At, IsAt, CallerInv, KindInv
  <2>2. results[q.result] = None /\ q.result \in Results
    BY <1>0, <2>1 DEF CallerInv, ReadInv, Inserted, Exists, ResultRequest
  <2>3. incidents[q.result] = None
    BY <2>2 DEF IntakeInv, EvidenceChain
  <2>4. /\ incidents' = [incidents EXCEPT ![q.result] = IncidentOf(c)]
        /\ outbox' = [outbox EXCEPT ![q.result] = IncidentOf(c)]
    BY <1>8, <2>3 DEF OpenIncident
  <2> QED
    BY <1>6, <1>8, <2>1, <2>4 DEF OpenIncident, Inserted, IsAt
<1>9. ASSUME UNCHANGED ledger PROVE [LedgerNext]_ledger
  BY <1>9
<1>10. CASE \/ \E r \in CreateBatchRequest : FindBatch(c, r)
            \/ \E r \in HoldRequest \cup ReleaseRequest : Command(c, r)
            \/ LockForHold(c) \/ ValidateEvidence(c)
            \/ \E r \in CreateRequest : FindInspection(c, r)
            \/ LockForInspection(c)
            \/ \E r \in ResultRequest : FindResult(c, r)
            \/ Complete(c) \/ FindWinner(c) \/ InsertStep(c) \/ Return(c) \/ Rollback(c)
  BY <1>9, <1>10
    DEF FindBatch, Command, LockForHold, ValidateEvidence, FindInspection,
        LockForInspection, FindResult, Complete, FindWinner, InsertStep, MeetKey,
        KeyTaken, KeyFreed, InsertRow, Return, Rollback
<1> QED
  BY <1>2, <1>3, <1>4, <1>5, <1>7, <1>8, <1>10
    DEF CallerStep, BatchStep, InspectionStep, ResultStep

-----------------------------------------------------------------------------
\* The steps of one caller

\* What the next statement waits for.
LEMMA WantsOf ==
  ASSUME NEW c \in Callers
  PROVE  /\ IsAt(c, "lock batch") => Wants(c) = {Exclusive("batch", tx[c].req.batch)}
         /\ IsAt(c, "evidence") => Wants(c) = {}
         /\ IsAt(c, "commit") => Wants(c) = {}
         /\ IsAt(c, "find winner") => Wants(c) = {}
         /\ IsAt(c, "complete") => Wants(c) = {Exclusive("inspection", tx[c].req.inspection)}
         /\ IsAt(c, "insert") /\ Met(c) => Wants(c) = {}
         /\ IsAt(c, "insert") /\ ~Met(c) /\ tx[c].req.kind # "result" =>
              Wants(c) = NewRow(tx[c].req)
         /\ IsAt(c, "insert") /\ ~Met(c) /\ tx[c].req.kind = "result" =>
              Wants(c) = NewRow(tx[c].req) \cup {Shared("inspection", tx[c].req.inspection)}
         /\ IsAt(c, "duplicate") => Wants(c) = {[mode |-> "S", row |-> Key(tx[c].req)]}
         /\ IsAt(c, "open incident") =>
              Wants(c) = {Shared("batch", tx[c].batch),
                          Shared("inspection", tx[c].req.inspection)}
BY DEF Wants, ResultWants, LockForUpdate, IsAt

\* A statement that runs conflicts with no lock of another.
LEMMA Unblocked ==
  ASSUME NEW c \in Callers, NEW d \in Callers, c # d, NEW label, At(c, label),
         NEW k \in Wants(c), NEW l \in locks[d]
  PROVE  ~Conflict(k, l)
BY DEF At, WaitsFor, Blocks

LEMMA Began ==
  ASSUME TypeOK, NEW c \in Callers, NEW q \in Request,
         NEW label \in Statements \cup Answers, NEW batch \in Batches \cup {None},
         Begin(c, q, label, batch)
  PROVE  /\ tx' \in [Callers -> Tx \cup {None}] /\ UNCHANGED locks
         /\ tx[c] = None /\ tx'[c] # None
         /\ tx'[c].at = label /\ tx'[c].req = q /\ tx'[c].batch = batch
         /\ \A e \in Callers : e # c => tx'[e] = tx[e]
<1>1. [at |-> label, req |-> q, batch |-> batch] \in Tx
  BY DEF Tx
<1> QED
  BY <1>1, NoRequestAssumption DEF Begin, TypeOK

\* tx' of a transaction that goes on to label or ends in it.
LEMMA Moved ==
  ASSUME TypeOK, NEW c \in Callers, tx[c] # None,
         NEW label \in Statements \cup Answers, tx' = [tx EXCEPT ![c].at = label]
  PROVE  /\ tx' \in [Callers -> Tx \cup {None}]
         /\ tx'[c] # None
         /\ tx'[c].at = label /\ tx'[c].req = tx[c].req /\ tx'[c].batch = tx[c].batch
         /\ \A e \in Callers : e # c => tx'[e] = tx[e]
<1>1. tx[c] \in Tx
  BY DEF TypeOK
<1>2. [tx[c] EXCEPT !.at = label] \in Tx
  BY <1>1 DEF Tx
<1>3. tx' = [tx EXCEPT ![c] = [tx[c] EXCEPT !.at = label]]
  BY DEF TypeOK
<1> QED
  BY <1>1, <1>2, <1>3, NoRequestAssumption DEF TypeOK, Tx

LEMMA Ended ==
  ASSUME TypeOK, NEW c \in Callers, NEW label, End(c, label)
  PROVE  /\ locks' \in [Callers -> SUBSET Locks] /\ locks'[c] = {}
         /\ \A e \in Callers : e # c => locks'[e] = locks[e]
         /\ tx' = [tx EXCEPT ![c].at = label]
BY DEF TypeOK, End

LEMMA WentOn ==
  ASSUME TypeOK, NEW c \in Callers, NEW label, Goto(c, label), Wants(c) \subseteq Locks
  PROVE  /\ locks' \in [Callers -> SUBSET Locks] /\ locks'[c] = locks[c] \cup Wants(c)
         /\ \A e \in Callers : e # c => locks'[e] = locks[e]
         /\ tx' = [tx EXCEPT ![c].at = label]
BY DEF TypeOK, Goto

LEMMA KeyIsRow ==
  ASSUME NEW q \in Request, q.kind \in {"batch", "inspection", "result"}
  PROVE  Key(q) \in Rows
BY KindOf DEF Key, Rows, CreateBatchRequest, CreateRequest, ResultRequest

\* What is shown of a step of c for c itself.
Own(c) ==
  /\ tx' \in [Callers -> Tx \cup {None}]
  /\ locks' \in [Callers -> SUBSET Locks]
  /\ \A e \in Callers : e # c => tx'[e] = tx[e] /\ locks'[e] = locks[e]
  /\ CallerInv(c)'

\* A transaction without locks, before its first or after its last statement.
LEMMA OwnFree ==
  ASSUME NEW c \in Callers, locks'[c] = {}, tx'[c] # None,
         tx'[c].at \in Answers \cup {"lock batch", "find winner"},
         IsAt(c, "lock batch")' => tx'[c].req.kind \in {"hold", "release", "inspection"},
         IsAt(c, "find winner")' => tx'[c].req.kind = "result"
  PROVE  CallerInv(c)'
<1>1. /\ ~Writing(c)' /\ ~Holding(c)' /\ ~IsAt(c, "complete")'
      /\ ~IsAt(c, "open incident")' /\ ~IsAt(c, "commit")' /\ ~IsAt(c, "write hold")'
  BY DEF Writing, Holding, IsAt, Answers
<1>2. ~Creating(c)' /\ ~Storing(c)' /\ ~Inserted(c)' /\ ~HoldsBatch(c)'
  BY <1>1 DEF Creating, Storing, Inserted, HoldsBatch
<1>3. KindInv(c)'
  BY <1>1 DEF KindInv
<1>4. ReadInv(c)'
  BY <1>1, <1>2 DEF ReadInv
<1>5. LockInv(c)'
  BY <1>2 DEF LockInv
<1> QED
  BY <1>3, <1>4, <1>5 DEF CallerInv

LEMMA OwnBegin ==
  ASSUME IntakeInv, NEW c \in Callers, NEW q \in Request,
         NEW label \in Answers \cup {"insert", "lock batch", "complete"},
         NEW batch \in Batches \cup {None}, Begin(c, q, label, batch), UNCHANGED ledger,
         label = "insert" => q.kind = "batch",
         label = "lock batch" => q.kind \in {"hold", "release", "inspection"},
         label = "complete" => /\ q.kind = "result" /\ inspections[q.inspection] # None
                               /\ batch = inspections[q.inspection].batch
  PROVE  Own(c)
<1>0. TypeOK /\ label \in Statements \cup Answers /\ LockInv(c)
  BY DEF IntakeInv, Statements, CallerInv
<1>1. /\ tx' \in [Callers -> Tx \cup {None}] /\ UNCHANGED locks
      /\ tx[c] = None /\ tx'[c] # None
      /\ tx'[c].at = label /\ tx'[c].req = q /\ tx'[c].batch = batch
      /\ \A e \in Callers : e # c => tx'[e] = tx[e]
  BY <1>0, Began
<1>2. locks'[c] = {}
  BY <1>0, <1>1, Unlocked
<1>3. CASE label \in Answers \cup {"lock batch"}
  <2>1. ~IsAt(c, "find winner")'
    BY <1>1, <1>3 DEF IsAt, Answers
  <2> QED
    BY <1>0, <1>1, <1>2, <1>3, <2>1, OwnFree DEF Own, TypeOK, IsAt
<1>4. CASE label \in {"insert", "complete"}
  <2>1. /\ \A other : IsAt(c, other)' <=> other = label
        /\ Holding(c)' = FALSE /\ Inserted(c)' = FALSE
    BY <1>1, <1>4 DEF IsAt, Holding, Inserted
  <2>2. Creating(c)' = FALSE /\ Storing(c)' = FALSE /\ HoldsBatch(c)' = FALSE
    BY <1>1, <1>4, <2>1 DEF Creating, Storing, HoldsBatch, Writing
  <2>3. KindInv(c)'
    BY <1>1, <1>4, <2>1 DEF KindInv, Writing
  <2>4. ReadInv(c)'
    BY <1>1, <1>4, <2>1, <2>2 DEF ReadInv, ledger
  <2>5. LockInv(c)'
    BY <1>2, <2>1, <2>2 DEF LockInv
  <2> QED
    BY <1>0, <1>1, <2>3, <2>4, <2>5 DEF Own, CallerInv, TypeOK
<1> QED
  BY <1>3, <1>4

LEMMA OwnEnd ==
  ASSUME IntakeInv, NEW c \in Callers, tx[c] # None,
         NEW label \in Answers \cup {"find winner"}, End(c, label),
         label = "find winner" => tx[c].req.kind = "result"
  PROVE  Own(c)
<1>0. TypeOK /\ label \in Statements \cup Answers
  BY DEF IntakeInv, Statements
<1>1. /\ locks' \in [Callers -> SUBSET Locks] /\ locks'[c] = {}
      /\ \A e \in Callers : e # c => locks'[e] = locks[e]
      /\ tx' = [tx EXCEPT ![c].at = label]
  BY <1>0, Ended
<1>2. /\ tx' \in [Callers -> Tx \cup {None}]
      /\ tx'[c] # None
      /\ tx'[c].at = label /\ tx'[c].req = tx[c].req /\ tx'[c].batch = tx[c].batch
      /\ \A e \in Callers : e # c => tx'[e] = tx[e]
  BY <1>0, <1>1, Moved
<1>3. ~IsAt(c, "lock batch")' /\ (IsAt(c, "find winner")' <=> label = "find winner")
  BY <1>2 DEF IsAt, Answers
<1> QED
  BY <1>1, <1>2, <1>3, OwnFree DEF Own

\* A transaction goes on with the batch it has locked.
LEMMA OwnGoto ==
  ASSUME IntakeInv, NEW c \in Callers, tx[c] # None, tx[c].req.batch \in Batches,
         IsAt(c, "lock batch") \/ IsAt(c, "evidence"),
         NEW label \in {"insert", "evidence", "write hold"}, Goto(c, label),
         UNCHANGED ledger,
         label = "insert" =>
           LET q == tx[c].req IN
             /\ q.kind = "inspection"
             /\ HasBatch(q.batch, "OPEN") \/ HasBatch(q.batch, "HELD"),
         label # "insert" =>
           tx[c].req.kind = "hold" /\ HasBatch(tx[c].req.batch, "OPEN"),
         label = "write hold" => Justified(tx[c].req.batch, tx[c].req.hold)
  PROVE  Own(c)
<1> DEFINE q == tx[c].req
           lock == Exclusive("batch", q.batch)
<1>0. TypeOK /\ label \in Statements \cup Answers /\ LockInv(c)
  BY DEF IntakeInv, Statements, CallerInv
<1>1. locks[c] \cup Wants(c) = {lock}
  <2>1. CASE IsAt(c, "lock batch")
    <3>1. locks[c] = {}
      BY <1>0, <2>1, Unlocked DEF IsAt
    <3> QED
      BY <2>1, <3>1, WantsOf
  <2>2. CASE IsAt(c, "evidence")
    <3>1. HoldsBatch(c) /\ ~Writing(c) /\ ~Storing(c) /\ ~Inserted(c)
      BY <2>2 DEF HoldsBatch, Holding, Storing, Inserted, Writing, IsAt
    <3>2. locks[c] = {lock}
      BY <1>0, <3>1 DEF LockInv
    <3> QED
      BY <2>2, <3>2, WantsOf
  <2> QED
    BY <2>1, <2>2
<1>2. Wants(c) \subseteq Locks
  <2>1. lock \in Locks
    BY DEF Exclusive, Locks, Rows
  <2> QED
    BY <1>1, <2>1
<1>3. /\ locks' \in [Callers -> SUBSET Locks] /\ locks'[c] = {lock}
      /\ \A e \in Callers : e # c => locks'[e] = locks[e]
      /\ tx' = [tx EXCEPT ![c].at = label]
  BY <1>0, <1>1, <1>2, WentOn
<1>4. /\ tx' \in [Callers -> Tx \cup {None}]
      /\ tx'[c] # None
      /\ tx'[c].at = label /\ tx'[c].req = tx[c].req /\ tx'[c].batch = tx[c].batch
      /\ \A e \in Callers : e # c => tx'[e] = tx[e]
  BY <1>0, <1>3, Moved
<1>5. /\ \A other : IsAt(c, other)' <=> other = label
      /\ Inserted(c)' = FALSE /\ Storing(c)' = FALSE
  BY <1>4 DEF IsAt, Inserted, Storing, Writing
<1>6. KindInv(c)'
  BY <1>4, <1>5 DEF KindInv, Holding, Writing
<1>7. ReadInv(c)'
  <2>1. /\ Creating(c)' => HasBatch(q.batch, "OPEN") \/ HasBatch(q.batch, "HELD")
        /\ Holding(c)' => HasBatch(q.batch, "OPEN")
    BY <1>4, <1>5 DEF Creating, Holding, Writing
  <2> QED
    BY <1>4, <1>5, <2>1 DEF ReadInv, HasBatch, Justified, Evidence, ledger
<1>8. LockInv(c)'
  <2>1. HoldsBatch(c)'
    BY <1>4, <1>5 DEF HoldsBatch, Holding, Creating, Writing
  <2>2. Exclusive("batch", tx[c].req.batch)' = lock
    BY <1>4 DEF Exclusive
  <2> QED
    BY <1>3, <1>5, <2>1, <2>2 DEF LockInv
<1> QED
  BY <1>3, <1>4, <1>6, <1>7, <1>8 DEF Own, CallerInv

\* The inspection row is locked by whoever completes it.
LEMMA OwnComplete ==
  ASSUME IntakeInv, NEW c \in Callers, Complete(c)
  PROVE  Own(c)
<1> DEFINE q == tx[c].req
           lock == Exclusive("inspection", q.inspection)
<1>0. TypeOK /\ "insert" \in Statements \cup Answers /\ CallerInv(c)
  BY DEF IntakeInv, Statements
<1>1. IsAt(c, "complete") /\ UNCHANGED ledger
  BY DEF Complete, At
<1>2. /\ q.kind = "result" /\ inspections[q.inspection] # None
      /\ tx[c].batch = inspections[q.inspection].batch
      /\ Wants(c) = {lock} /\ locks[c] = {} /\ tx[c] # None
  BY <1>0, <1>1, WantsOf, Unlocked DEF CallerInv, KindInv, ReadInv, IsAt
<1>3. Wants(c) \subseteq Locks
  <2>1. q \in ResultRequest
    BY <1>0, <1>2, RequestOf, KindOf
  <2> QED
    BY <1>2, <2>1 DEF Exclusive, Locks, Rows, ResultRequest
<1>4. /\ locks' \in [Callers -> SUBSET Locks]
      /\ \A e \in Callers : e # c => locks'[e] = locks[e]
      /\ tx' = [tx EXCEPT ![c].at = "insert"]
      /\ locks'[c] = IF inspections[q.inspection].completed = None THEN {lock} ELSE {}
  BY <1>0, <1>2, <1>3, WentOn DEF Complete, TypeOK
<1>5. /\ tx' \in [Callers -> Tx \cup {None}]
      /\ tx'[c] # None
      /\ tx'[c].at = "insert" /\ tx'[c].req = q /\ tx'[c].batch = tx[c].batch
      /\ \A e \in Callers : e # c => tx'[e] = tx[e]
  BY <1>0, <1>2, <1>4, Moved
<1>6. /\ \A other : IsAt(c, other)' <=> other = "insert"
      /\ Inserted(c)' = FALSE /\ Holding(c)' = FALSE
  BY <1>5 DEF IsAt, Inserted, Holding
<1>7. Writing(c)' /\ Storing(c)' /\ Creating(c)' = FALSE /\ HoldsBatch(c)' = FALSE
  BY <1>2, <1>5, <1>6 DEF Storing, Writing, Creating, HoldsBatch
<1>8. Completes(c)' <=> inspections[q.inspection].completed = None
  BY <1>4, <1>5 DEF Completes, Exclusive
<1>9. KindInv(c)'
  BY <1>2, <1>5, <1>6 DEF KindInv
<1>10. ReadInv(c)'
  BY <1>1, <1>2, <1>5, <1>6, <1>7, <1>8 DEF ReadInv, ledger
<1>11. LockInv(c)'
  BY <1>4, <1>5, <1>6, <1>7 DEF LockInv, Exclusive
<1> QED
  BY <1>4, <1>5, <1>9, <1>10, <1>11 DEF Own, CallerInv

\* From one of insert, duplicate, commit and open incident to another: the
\* transaction keeps its locks, and has those of its new row once it is there.
LEMMA OwnWrite ==
  ASSUME IntakeInv, NEW c \in Callers, Writing(c),
         NEW label \in {"insert", "duplicate", "commit", "open incident"},
         tx' = [tx EXCEPT ![c].at = label], UNCHANGED ledger,
         locks' \in [Callers -> SUBSET Locks],
         \A e \in Callers : e # c => locks'[e] = locks[e],
         ~Inserted(c),
         \/ /\ label \in {"insert", "duplicate"}
            /\ \/ locks'[c] = locks[c]
               \/ locks'[c] = locks[c] \cup {[mode |-> "Gap", row |-> Key(tx[c].req)]}
         \/ /\ label = (IF tx[c].req.kind = "result" /\ tx[c].req.anomaly
                        THEN "open incident" ELSE "commit")
            /\ ~Exists(tx[c].req)
            /\ locks'[c] = locks[c] \cup NewRow(tx[c].req) \cup
                 (IF tx[c].req.kind = "result"
                  THEN {Shared("inspection", tx[c].req.inspection)} ELSE {})
  PROVE  Own(c)
<1> DEFINE q == tx[c].req
<1>0. TypeOK /\ label \in Statements \cup Answers /\ CallerInv(c) /\ tx[c] # None
  BY DEF IntakeInv, Statements, Writing, IsAt
<1>1. /\ tx' \in [Callers -> Tx \cup {None}]
      /\ tx'[c] # None
      /\ tx'[c].at = label /\ tx'[c].req = q /\ tx'[c].batch = tx[c].batch
      /\ \A e \in Callers : e # c => tx'[e] = tx[e]
  BY <1>0, Moved
<1>2. /\ \A other : IsAt(c, other)' <=> other = label
      /\ Inserted(c)' <=> label \in {"commit", "open incident"}
  BY <1>1 DEF IsAt, Inserted
<1>3. /\ Writing(c)' /\ ~Holding(c)' /\ ~Holding(c)
      /\ Storing(c)' <=> Storing(c)
      /\ Creating(c)' <=> Creating(c)
      /\ HoldsBatch(c)' <=> HoldsBatch(c)
  BY <1>1, <1>2 DEF Storing, Writing, Creating, HoldsBatch, Holding, IsAt
<1>4. Storing(c) <=> q.kind = "result"
  BY DEF Storing
<1>5. Storing(c) => (Completes(c)' <=> Completes(c))
  <2>1. ASSUME q.kind = "result"
        PROVE  Exclusive("inspection", q.inspection) \in locks'[c]
                 <=> Exclusive("inspection", q.inspection) \in locks[c]
    <3>1. Key(q) # <<"inspection", q.inspection>>
      BY <2>1 DEF Key
    <3> QED
      BY <2>1, <3>1 DEF Exclusive, Shared, NewRow
  <2> QED
    BY <1>1, <1>4, <2>1 DEF Completes, Exclusive
<1>6. KindInv(c)'
  <2>1. q.kind \in {"batch", "inspection", "result"}
    BY <1>0 DEF CallerInv, KindInv
  <2>2. Inserted(c)' =>
          label = (IF q.kind = "result" /\ q.anomaly THEN "open incident" ELSE "commit")
    BY <1>2
  <2> QED
    BY <1>1, <1>2, <1>3, <2>1, <2>2 DEF KindInv
<1>7. ReadInv(c)'
  <2>1. Inserted(c)' => ~Exists(q)
    BY <1>2
  <2>2. Exists(tx[c].req)' <=> Exists(q)
    BY <1>1 DEF Exists, ledger
  <2>3. /\ Creating(c) => HasBatch(q.batch, "OPEN") \/ HasBatch(q.batch, "HELD")
        /\ Storing(c) => /\ inspections[q.inspection] # None
                         /\ tx[c].batch = inspections[q.inspection].batch
                         /\ Completes(c) <=> inspections[q.inspection].completed = None
    BY <1>0 DEF CallerInv, ReadInv
  <2>4. /\ ~IsAt(c, "complete")' /\ ~IsAt(c, "write hold")'
    BY <1>2
  <2> QED
    BY <1>1, <1>3, <1>5, <2>1, <2>2, <2>3, <2>4 DEF ReadInv, HasBatch, ledger
<1>8. LockInv(c)'
  <2> DEFINE gap == [mode |-> "Gap", row |-> Key(q)]
             new == [mode |-> "X", row |-> Key(q)]
             batch == Exclusive("batch", q.batch)
             inspection == Exclusive("inspection", q.inspection)
             parent == Shared("inspection", q.inspection)
  <2>1. /\ \A l \in locks[c] : \/ HoldsBatch(c) /\ l = batch
                               \/ Storing(c) /\ l = inspection
                               \/ l = gap
        /\ HoldsBatch(c) => batch \in locks[c]
    BY <1>0 DEF CallerInv, LockInv
  <2>2. /\ Exclusive("batch", tx[c].req.batch)' = batch
        /\ Exclusive("inspection", tx[c].req.inspection)' = inspection
        /\ Shared("inspection", tx[c].req.inspection)' = parent
        /\ NewRow(tx[c].req)' = NewRow(q)
        /\ [mode |-> "Gap", row |-> Key(tx[c].req)]' = gap
        /\ [mode |-> "X", row |-> Key(tx[c].req)]' = new
    BY <1>1 DEF Exclusive, Shared, NewRow, Key
  <2>3. locks[c] \subseteq locks'[c]
    OBVIOUS
  <2>4. Inserted(c)' => new \in locks'[c] /\ (Storing(c) => parent \in locks'[c])
    BY <1>2, <1>4 DEF NewRow
  <2>5. \A l \in locks'[c] :
          \/ l \in locks[c]
          \/ l = gap
          \/ Inserted(c)' /\ l \in NewRow(q)
          \/ Inserted(c)' /\ Storing(c) /\ l = parent
    BY <1>2, <1>4
  <2> HIDE DEF gap, new, batch, inspection, parent
  <2>6. \A l \in locks'[c] :
          \/ HoldsBatch(c) /\ l = batch
          \/ Storing(c) /\ l = inspection
          \/ l = gap
          \/ Inserted(c)' /\ l \in NewRow(q)
          \/ Inserted(c)' /\ Storing(c) /\ l = parent
    BY <2>1, <2>5
  <2>7. HoldsBatch(c) => batch \in locks'[c]
    BY <2>1, <2>3
  <2> QED
    BY <1>3, <2>2, <2>4, <2>6, <2>7 DEF LockInv
<1> QED
  BY <1>1, <1>6, <1>7, <1>8 DEF Own, CallerInv

LEMMA OwnInsert ==
  ASSUME IntakeInv, NEW c \in Callers, InsertStep(c)
  PROVE  Own(c)
<1> DEFINE q == tx[c].req
           gap == [mode |-> "Gap", row |-> Key(q)]
<1>0. TypeOK /\ CallerInv(c)
  BY DEF IntakeInv
<1>1. ASSUME IsAt(c, "insert") \/ IsAt(c, "duplicate")
      PROVE  /\ tx[c] # None /\ Writing(c) /\ ~Inserted(c) /\ q \in Request
             /\ q.kind \in {"batch", "inspection", "result"} /\ Key(q) \in Rows
  <2>1. tx[c] # None /\ Writing(c) /\ ~Inserted(c)
    BY <1>1 DEF Writing, Inserted, IsAt
  <2>2. q \in Request /\ q.kind \in {"batch", "inspection", "result"}
    BY <1>0, <2>1, RequestOf DEF CallerInv, KindInv
  <2> QED
    BY <2>1, <2>2, KeyIsRow
<1>2. CASE MeetKey(c)
  <2>1. IsAt(c, "insert") /\ UNCHANGED ledger /\ Wants(c) = {}
    BY <1>2, WantsOf DEF MeetKey
  <2>2. /\ tx' = [tx EXCEPT ![c].at = "duplicate"]
        /\ locks' \in [Callers -> SUBSET Locks] /\ locks'[c] = locks[c]
        /\ \A e \in Callers : e # c => locks'[e] = locks[e]
    BY <1>0, <1>2, <2>1 DEF MeetKey, Goto, TypeOK
  <2> QED
    BY <1>1, <2>1, <2>2, OwnWrite
<1>3. CASE KeyTaken(c)
  <2>1. IsAt(c, "duplicate")
    BY <1>3 DEF KeyTaken, At
  <2>2. CASE q.kind = "batch"
    <3>1. End(c, BatchVerdict(q)) /\ BatchVerdict(q) \in Answers
      BY <1>3, <2>2 DEF KeyTaken, BatchVerdict, Answers
    <3>2. BatchVerdict(q) # "find winner"
      BY DEF BatchVerdict
    <3> QED
      BY <1>1, <2>1, <3>1, <3>2, OwnEnd
  <2>3. CASE q.kind = "inspection"
    <3>1. End(c, InspectionVerdict(q)) /\ InspectionVerdict(q) \in Answers
      BY <1>3, <2>3 DEF KeyTaken, InspectionVerdict, Answers
    <3>2. InspectionVerdict(q) # "find winner"
      BY DEF InspectionVerdict
    <3> QED
      BY <1>1, <2>1, <3>1, <3>2, OwnEnd
  <2>4. CASE q.kind = "result"
    <3>1. End(c, "find winner")
      BY <1>3, <2>4 DEF KeyTaken
    <3> QED
      BY <1>1, <2>1, <2>4, <3>1, OwnEnd
  <2> QED
    BY <1>1, <2>1, <2>2, <2>3, <2>4
<1>4. CASE KeyFreed(c)
  <2>1. IsAt(c, "duplicate") /\ UNCHANGED ledger
    BY <1>4 DEF KeyFreed, At
  <2>2. gap \in Locks
    BY <1>1, <2>1 DEF Locks
  <2>3. /\ tx' = [tx EXCEPT ![c].at = "insert"]
        /\ locks' \in [Callers -> SUBSET Locks] /\ locks'[c] = locks[c] \cup {gap}
        /\ \A e \in Callers : e # c => locks'[e] = locks[e]
    BY <1>0, <1>4, <2>2 DEF KeyFreed, TypeOK
  <2> QED
    BY <1>1, <2>1, <2>3, OwnWrite
<1>5. CASE InsertRow(c)
  <2> DEFINE label == IF q.kind = "result" /\ q.anomaly THEN "open incident" ELSE "commit"
             parent == IF q.kind = "result" THEN {Shared("inspection", q.inspection)} ELSE {}
  <2>1. IsAt(c, "insert") /\ ~Met(c) /\ UNCHANGED ledger /\ Goto(c, label)
    BY <1>5 DEF InsertRow, At
  <2>2. ~Exists(q) /\ Wants(c) = NewRow(q) \cup parent
    BY <2>1, WantsOf DEF Met
  <2>3. Wants(c) \subseteq Locks
    <3>1. NewRow(q) \subseteq Locks
      <4>1. Key(q) \in Rows
        BY <1>1, <2>1
      <4> HIDE DEF q
      <4>2. /\ [mode |-> "X", row |-> Key(q)] \in Locks
            /\ [mode |-> "Insert", row |-> Key(q)] \in Locks
        BY <4>1 DEF Locks
      <4> QED
        BY <4>2 DEF NewRow
    <3>2. q.kind = "result" => q.inspection \in Inspections
      BY <1>1, <2>1, KindOf DEF ResultRequest
    <3>3. parent \subseteq Locks
      BY <3>2 DEF Shared, Locks, Rows
    <3> QED
      BY <2>2, <3>1, <3>3
  <2>4. /\ locks' \in [Callers -> SUBSET Locks] /\ locks'[c] = locks[c] \cup Wants(c)
        /\ \A e \in Callers : e # c => locks'[e] = locks[e]
        /\ tx' = [tx EXCEPT ![c].at = label]
    BY <1>0, <2>1, <2>3, WentOn
  <2>5. locks'[c] = locks[c] \cup NewRow(q) \cup parent
    BY <2>2, <2>4
  <2>6. label \in {"insert", "duplicate", "commit", "open incident"}
    OBVIOUS
  <2> QED
    BY <1>1, <2>1, <2>2, <2>4, <2>5, <2>6, OwnWrite
<1> QED
  BY <1>2, <1>3, <1>4, <1>5 DEF InsertStep

LEMMA StepOwn ==
  ASSUME IntakeInv, NEW c \in Callers, CallerStep(c)
  PROVE  Own(c)
<1> DEFINE q == tx[c].req
<1>0. TypeOK /\ TablesOK /\ CallerInv(c) /\ None \in Batches \cup {None}
  BY DEF IntakeInv, TypeOK
<1>1. ASSUME NEW r \in CreateBatchRequest, FindBatch(c, r) PROVE Own(c)
  <2>1. r \in Request /\ r.kind = "batch"
    BY DEF Request, CreateBatchRequest
  <2> QED
    BY <1>0, <1>1, <2>1, OwnBegin DEF FindBatch, BatchVerdict, Answers
<1>2. ASSUME NEW r \in HoldRequest \cup ReleaseRequest, Command(c, r) PROVE Own(c)
  <2>1. r \in Request /\ r.kind \in {"hold", "release"}
    BY DEF Request, HoldRequest, ReleaseRequest
  <2> QED
    BY <1>0, <1>2, <2>1, OwnBegin DEF Command
<1>3. ASSUME NEW r \in CreateRequest, FindInspection(c, r) PROVE Own(c)
  <2>1. r \in Request /\ r.kind = "inspection"
    BY DEF Request, CreateRequest
  <2> QED
    BY <1>0, <1>3, <2>1, OwnBegin DEF FindInspection, InspectionVerdict, Answers
<1>4. ASSUME NEW r \in ResultRequest, FindResult(c, r) PROVE Own(c)
  <2> DEFINE row == inspections[r.inspection]
             batch == IF row = None THEN None ELSE row.batch
  <2>1. r \in Request /\ r.kind = "result" /\ batch \in Batches \cup {None}
    BY <1>0 DEF Request, ResultRequest, TablesOK, InspectionRow
  <2>2. FirstVerdict(r) \in Answers \cup {"complete"}
    BY DEF FirstVerdict, ResultVerdict, Answers
  <2>3. FirstVerdict(r) = "complete" => row # None
    BY DEF FirstVerdict, ResultVerdict
  <2>4. Begin(c, r, FirstVerdict(r), batch) /\ UNCHANGED ledger
    BY <1>4 DEF FindResult
  <2>5. FirstVerdict(r) # "insert" /\ FirstVerdict(r) # "lock batch"
    BY <2>2 DEF Answers
  <2> HIDE DEF batch
  <2>6. FirstVerdict(r) = "complete" => batch = row.batch
    BY <2>3 DEF batch
  <2> QED
    BY <2>1, <2>2, <2>3, <2>4, <2>5, <2>6, OwnBegin
<1>5. tx[c] # None => q \in Request
  BY <1>0, RequestOf
<1>6. CASE LockForHold(c)
  <2>1. /\ q.kind = "hold" /\ IsAt(c, "lock batch") /\ tx[c] # None /\ UNCHANGED ledger
    BY <1>6 DEF LockForHold, At, IsAt
  <2>2. q.batch \in Batches /\ HoldVerdict(q) \in Answers
    BY <1>5, <2>1, KindOf DEF HoldRequest, HoldVerdict, Answers
  <2>3. CASE End(c, "refused") \/ End(c, HoldVerdict(q))
    BY <2>1, <2>2, <2>3, OwnEnd DEF Answers
  <2>4. CASE q.hold.reason = "QUALITY_ANOMALY" /\ HasBatch(q.batch, "OPEN")
               /\ Goto(c, "evidence")
    BY <2>1, <2>2, <2>4, OwnGoto
  <2>5. CASE q.hold.reason # "QUALITY_ANOMALY" /\ HasBatch(q.batch, "OPEN")
               /\ Goto(c, "write hold")
    BY <2>1, <2>2, <2>5, OwnGoto DEF Justified
  <2> QED
    BY <1>6, <2>3, <2>4, <2>5 DEF LockForHold
<1>7. CASE ValidateEvidence(c)
  <2>1. /\ IsAt(c, "evidence") /\ tx[c] # None /\ UNCHANGED ledger
        /\ q.kind = "hold" /\ HasBatch(q.batch, "OPEN")
    BY <1>0, <1>7
      DEF ValidateEvidence, At, IsAt, CallerInv, KindInv, ReadInv, Holding
  <2>2. q.batch \in Batches
    BY <1>5, <2>1, KindOf DEF HoldRequest
  <2>3. CASE Evidence(q.batch, q.hold) /\ Goto(c, "write hold")
    BY <2>1, <2>2, <2>3, OwnGoto DEF Justified
  <2>4. CASE End(c, "refused")
    BY <2>1, <2>4, OwnEnd DEF Answers
  <2> QED
    BY <1>7, <2>3, <2>4 DEF ValidateEvidence
<1>8. CASE HoldOpen(c)
  BY <1>8, OwnEnd DEF HoldOpen, At, IsAt, Answers
<1>9. CASE Release(c)
  <2>1. ReleaseVerdict(q) \in Answers /\ tx[c] # None
    BY <1>9 DEF ReleaseVerdict, Answers, Release, At, IsAt
  <2> QED
    BY <1>9, <2>1, OwnEnd DEF Release, Answers
<1>10. CASE LockForInspection(c)
  <2>1. /\ q.kind = "inspection" /\ IsAt(c, "lock batch") /\ tx[c] # None
        /\ UNCHANGED ledger
    BY <1>10 DEF LockForInspection, At, IsAt
  <2>2. q.batch \in Batches
    BY <1>5, <2>1, KindOf DEF CreateRequest
  <2>3. CASE /\ HasBatch(q.batch, "OPEN") \/ HasBatch(q.batch, "HELD")
             /\ Goto(c, "insert")
    BY <2>1, <2>2, <2>3, OwnGoto
  <2>4. CASE End(c, "refused")
    BY <2>1, <2>4, OwnEnd DEF Answers
  <2> QED
    BY <1>10, <2>3, <2>4 DEF LockForInspection
<1>11. CASE Complete(c)
  BY <1>11, OwnComplete
<1>12. CASE InsertStep(c)
  BY <1>12, OwnInsert
<1>13. CASE CommitBatch(c) \/ CommitInspection(c) \/ CommitResult(c) \/ OpenIncident(c)
  BY <1>13, OwnEnd
    DEF CommitBatch, CommitInspection, CommitResult, OpenIncident, StoreResult, At, IsAt,
        Answers
<1>14. CASE FindWinner(c)
  BY <1>14, OwnEnd DEF FindWinner, ResultVerdict, At, IsAt, Answers
<1>15. CASE Return(c) \/ Rollback(c)
  <2>1. tx[c] # None /\ tx[c].at \in Answers => locks[c] = {}
    BY <1>0, Unlocked DEF CallerInv
  <2>2. /\ tx' = [tx EXCEPT ![c] = None] /\ locks' = [locks EXCEPT ![c] = {}]
    BY <1>0, <1>15, <2>1 DEF Return, Rollback, TypeOK
  <2>3. \A label : ~IsAt(c, label)'
    BY <1>0, <2>2 DEF IsAt, TypeOK
  <2>4. ~Writing(c)' /\ ~Holding(c)' /\ ~Inserted(c)'
    BY <2>3 DEF Writing, Holding, Inserted
  <2>5. ~Creating(c)' /\ ~Storing(c)' /\ ~HoldsBatch(c)'
    BY <2>4 DEF Creating, Storing, HoldsBatch
  <2>6. KindInv(c)' /\ ReadInv(c)'
    BY <2>3, <2>4, <2>5 DEF KindInv, ReadInv
  <2>7. LockInv(c)'
    BY <1>0, <2>2, <2>4, <2>5 DEF LockInv, TypeOK
  <2> QED
    BY <1>0, <2>2, <2>6, <2>7 DEF Own, CallerInv, TypeOK
<1> QED
  BY <1>1, <1>2, <1>3, <1>4, <1>6, <1>7, <1>8, <1>9, <1>10, <1>11, <1>12, <1>13,
     <1>14, <1>15
    DEF CallerStep, BatchStep, InspectionStep, ResultStep

\* A step of c inserts the row of its request, completes the inspection it has
\* locked, or changes the batch it has locked or is locking.
LEMMA RowsOfStep ==
  ASSUME IntakeInv, NEW c \in Callers, CallerStep(c)
  PROVE  /\ \A b \in Batches : batches'[b] # batches[b] =>
              \/ Inserted(c) /\ Key(tx[c].req) = <<"batch", b>>
              \/ /\ HoldsBatch(c) \/ At(c, "lock batch")
                 /\ tx[c].req.batch = b /\ batches[b] # None
         /\ \A i \in Inspections : inspections'[i] # inspections[i] =>
              \/ Inserted(c) /\ Key(tx[c].req) = <<"inspection", i>>
              \/ Completes(c) /\ tx[c].req.inspection = i /\ inspections[i] # None
         /\ \A r \in Results : results'[r] # results[r] =>
              Inserted(c) /\ Key(tx[c].req) = <<"result", r>>
<1> DEFINE q == tx[c].req
<1>0. TablesOK /\ KindInv(c) /\ ReadInv(c)
  BY DEF IntakeInv, TypeOK, CallerInv
<1>1. CASE CommitBatch(c)
  <2>1. Inserted(c) /\ Key(q) = <<"batch", q.batch>>
    BY <1>1 DEF CommitBatch, Inserted, Key
  <2> QED
    BY <1>0, <1>1, <2>1 DEF CommitBatch, TablesOK
<1>2. CASE HoldOpen(c)
  <2>1. HoldsBatch(c)
    BY <1>2 DEF HoldOpen, At, HoldsBatch, Holding
  <2> QED
    BY <1>0, <1>2, <2>1 DEF HoldOpen, HasBatch, TablesOK
<1>3. CASE Release(c)
  BY <1>0, <1>3 DEF Release, HasBatch, TablesOK
<1>4. CASE CommitInspection(c)
  <2>1. Inserted(c) /\ Key(q) = <<"inspection", q.inspection>>
    BY <1>4 DEF CommitInspection, Inserted, Key
  <2> QED
    BY <1>0, <1>4, <2>1 DEF CommitInspection, TablesOK
<1>5. CASE CommitResult(c) \/ OpenIncident(c)
  <2>1. Inserted(c) /\ q.kind = "result" /\ StoreResult(c) /\ UNCHANGED batches
    BY <1>0, <1>5 DEF CommitResult, OpenIncident, Inserted, At, KindInv
  <2>2. Key(q) = <<"result", q.result>> /\ inspections[q.inspection] # None
    BY <1>0, <2>1 DEF Key, ReadInv, Storing, Writing, Inserted
  <2> QED
    BY <1>0, <2>1, <2>2 DEF StoreResult, TablesOK
<1>6. CASE UNCHANGED ledger
  BY <1>6 DEF ledger
<1> QED
  BY <1>1, <1>2, <1>3, <1>4, <1>5, <1>6
    DEF CallerStep, BatchStep, InspectionStep, ResultStep, FindBatch, Command,
        LockForHold, ValidateEvidence, FindInspection, LockForInspection, FindResult,
        Complete, FindWinner, InsertStep, MeetKey, KeyTaken, KeyFreed, InsertRow, Return,
        Rollback

\* A transaction that does not move is where it was, with its locks.
LEMMA Unmoved ==
  ASSUME NEW e \in Callers, tx'[e] = tx[e], locks'[e] = locks[e]
  PROVE  /\ \A label : IsAt(e, label)' <=> IsAt(e, label)
         /\ Writing(e)' <=> Writing(e)
         /\ Inserted(e)' <=> Inserted(e)
         /\ Creating(e)' <=> Creating(e)
         /\ Storing(e)' <=> Storing(e)
         /\ Holding(e)' <=> Holding(e)
         /\ HoldsBatch(e)' <=> HoldsBatch(e)
         /\ Completes(e)' <=> Completes(e)
         /\ KindInv(e)' <=> KindInv(e)
         /\ LockInv(e)' <=> LockInv(e)
<1>1. \A label : IsAt(e, label)' <=> IsAt(e, label)
  BY DEF IsAt
<1>2. /\ Writing(e)' <=> Writing(e)
      /\ Inserted(e)' <=> Inserted(e)
      /\ Holding(e)' <=> Holding(e)
  BY <1>1 DEF Writing, Inserted, Holding
<1>3. /\ Creating(e)' <=> Creating(e)
      /\ Storing(e)' <=> Storing(e)
      /\ HoldsBatch(e)' <=> HoldsBatch(e)
  BY <1>2 DEF Creating, Storing, HoldsBatch
<1>4. Completes(e)' <=> Completes(e)
  BY DEF Completes, Exclusive
<1>5. KindInv(e)' <=> KindInv(e)
  BY <1>1, <1>2 DEF KindInv
<1>6. LockInv(e)' <=> LockInv(e)
  BY <1>2, <1>3 DEF LockInv, Exclusive, Shared, NewRow, Key
<1> QED
  BY <1>1, <1>2, <1>3, <1>4, <1>5, <1>6

\* The locks of a transaction keep what the others change away from it.
LEMMA StepOthers ==
  ASSUME IntakeInv, NEW c \in Callers, CallerStep(c), Own(c), RowsKept,
         NEW e \in Callers, e # c
  PROVE  CallerInv(e)'
<1> DEFINE p == tx[e].req
<1>0. /\ TypeOK /\ TablesOK /\ CallerInv(c) /\ CallerInv(e) /\ Compatible(c, e)
      /\ tx'[e] = tx[e] /\ locks'[e] = locks[e]
  BY DEF IntakeInv, TypeOK, Own
<1>1. /\ HoldsBatch(c) /\ HoldsBatch(e) => tx[c].req.batch # p.batch
      /\ Completes(c) /\ Completes(e) => tx[c].req.inspection # p.inspection
      /\ Inserted(c) /\ Inserted(e) => Key(tx[c].req) # Key(p)
  BY <1>0, Apart DEF CallerInv
<1>2. tx[e] # None => p \in Request
  BY <1>0, RequestOf
<1>3. ASSUME HoldsBatch(e)
      PROVE  /\ p.batch \in Batches /\ batches[p.batch] # None
             /\ batches'[p.batch] = batches[p.batch]
  <2>1. /\ tx[e] # None /\ p.kind \in {"inspection", "hold"}
        /\ Exclusive("batch", p.batch) \in locks[e] /\ batches[p.batch] # None
    BY <1>0, <1>3
      DEF CallerInv, KindInv, LockInv, ReadInv, HoldsBatch, Creating, Holding, Writing,
          HasBatch, IsAt
  <2>2. p.batch \in Batches
    BY <1>2, <2>1, KindOf DEF CreateRequest, HoldRequest
  <2>3. ~(Inserted(c) /\ Key(tx[c].req) = <<"batch", p.batch>>)
    <3>1. SUFFICES ASSUME Inserted(c), Key(tx[c].req) = <<"batch", p.batch>>
                   PROVE  FALSE
      OBVIOUS
    <3>2. tx[c].req.kind \in {"batch", "inspection", "result"} /\ ~Exists(tx[c].req)
      BY <1>0, <3>1 DEF CallerInv, KindInv, ReadInv, Inserted, Writing
    <3>3. tx[c].req.kind = "batch" /\ tx[c].req.batch = p.batch
      BY <3>1, <3>2 DEF Key
    <3> QED
      BY <2>1, <3>2, <3>3 DEF Exists
  <2>4. ~(At(c, "lock batch") /\ tx[c].req.batch = p.batch)
    <3>1. SUFFICES ASSUME At(c, "lock batch"), tx[c].req.batch = p.batch
                   PROVE  FALSE
      OBVIOUS
    <3>2. Exclusive("batch", p.batch) \in Wants(c)
      BY <3>1, WantsOf DEF At
    <3>3. ~Conflict(Exclusive("batch", p.batch), Exclusive("batch", p.batch))
      BY <2>1, <3>1, <3>2, Unblocked
    <3> QED
      BY <3>3 DEF Conflict, Exclusive
  <2> QED
    BY <1>1, <1>3, <2>1, <2>2, <2>3, <2>4, RowsOfStep
<1>4. ASSUME IsAt(e, "complete") \/ Storing(e)
      PROVE  /\ p.inspection \in Inspections /\ inspections'[p.inspection] # None
             /\ tx[e].batch = inspections'[p.inspection].batch
  <2>1. /\ tx[e] # None /\ p.kind = "result" /\ inspections[p.inspection] # None
        /\ tx[e].batch = inspections[p.inspection].batch
    BY <1>0, <1>4 DEF CallerInv, KindInv, ReadInv, Storing, Writing, IsAt
  <2>2. p.inspection \in Inspections
    BY <1>2, <2>1, KindOf DEF ResultRequest
  <2> QED
    BY <2>1, <2>2 DEF RowsKept
<1>5. ASSUME Storing(e)
      PROVE  Completes(e) <=> inspections'[p.inspection].completed = None
  <2>1. /\ p.inspection \in Inspections /\ inspections[p.inspection] # None
        /\ Completes(e) <=> inspections[p.inspection].completed = None
    BY <1>0, <1>4, <1>5 DEF CallerInv, ReadInv
  <2>2. CASE ~Completes(e)
    BY <2>1, <2>2 DEF RowsKept
  <2>3. CASE Completes(e)
    <3>1. ~(Inserted(c) /\ Key(tx[c].req) = <<"inspection", p.inspection>>)
      <4>1. SUFFICES ASSUME Inserted(c), Key(tx[c].req) = <<"inspection", p.inspection>>
                     PROVE  FALSE
        OBVIOUS
      <4>2. tx[c].req.kind \in {"batch", "inspection", "result"} /\ ~Exists(tx[c].req)
        BY <1>0, <4>1 DEF CallerInv, KindInv, ReadInv, Inserted, Writing
      <4>3. tx[c].req.kind = "inspection" /\ tx[c].req.inspection = p.inspection
        BY <4>1, <4>2 DEF Key
      <4> QED
        BY <2>1, <4>2, <4>3 DEF Exists
    <3>2. inspections'[p.inspection] = inspections[p.inspection]
      BY <1>1, <2>1, <2>3, <3>1, RowsOfStep
    <3> QED
      BY <2>1, <2>3, <3>2
  <2> QED
    BY <2>2, <2>3
<1>6. ASSUME Inserted(e) PROVE ~Exists(tx[e].req)'
  <2>1. /\ tx[e] # None /\ p.kind \in {"batch", "inspection", "result"} /\ ~Exists(p)
    BY <1>0, <1>6 DEF CallerInv, KindInv, ReadInv, Inserted, Writing, IsAt
  <2>2. ~(Inserted(c) /\ Key(tx[c].req) = Key(p))
    BY <1>1, <1>6
  <2>3. CASE p.kind = "batch"
    <3>1. p.batch \in Batches /\ Key(p) = <<"batch", p.batch>> /\ batches[p.batch] = None
      BY <1>2, <2>1, <2>3, KindOf DEF CreateBatchRequest, Key, Exists
    <3>2. batches'[p.batch] # batches[p.batch] =>
            \/ Inserted(c) /\ Key(tx[c].req) = <<"batch", p.batch>>
            \/ batches[p.batch] # None
      BY <3>1, RowsOfStep
    <3>3. batches'[p.batch] = None
      BY <2>2, <3>1, <3>2
    <3> QED
      BY <1>0, <2>3, <3>3 DEF Exists
  <2>4. CASE p.kind = "inspection"
    <3>1. /\ p.inspection \in Inspections /\ Key(p) = <<"inspection", p.inspection>>
          /\ inspections[p.inspection] = None
      BY <1>2, <2>1, <2>4, KindOf DEF CreateRequest, Key, Exists
    <3>2. inspections'[p.inspection] = None
      BY <2>2, <3>1, RowsOfStep
    <3> QED
      BY <1>0, <2>4, <3>2 DEF Exists
  <2>5. CASE p.kind = "result"
    <3>1. /\ p.result \in Results /\ Key(p) = <<"result", p.result>>
          /\ results[p.result] = None
      BY <1>2, <2>1, <2>5, KindOf DEF ResultRequest, Key, Exists
    <3>2. results'[p.result] = None
      BY <2>2, <3>1, RowsOfStep
    <3> QED
      BY <1>0, <2>5, <3>2 DEF Exists
  <2> QED
    BY <2>1, <2>3, <2>4, <2>5
<1>7. ASSUME IsAt(e, "write hold") PROVE Justified(tx[e].req.batch, tx[e].req.hold)'
  <2>1. /\ tx[e] # None /\ p.kind = "hold" /\ Justified(p.batch, p.hold)
    BY <1>0, <1>7 DEF CallerInv, KindInv, ReadInv, Holding, IsAt
  <2>2. p.batch \in Batches /\ p.hold \in Hold
    BY <1>2, <2>1, KindOf DEF HoldRequest
  <2>3. \A b \in Batches, h \in Hold : Justified(b, h) => Justified(b, h)'
    BY <1>0, JustifiedStays
  <2> QED
    BY <1>0, <2>1, <2>2, <2>3 DEF Justified, Evidence
<1>8. ReadInv(e)'
  <2>1. /\ Creating(e) => HasBatch(p.batch, "OPEN") \/ HasBatch(p.batch, "HELD")
        /\ Holding(e) => HasBatch(p.batch, "OPEN")
        /\ HoldsBatch(e) <=> Holding(e) \/ Creating(e)
    BY <1>0 DEF CallerInv, ReadInv, HoldsBatch
  <2>2. /\ Creating(e)' => (HasBatch(tx[e].req.batch, "OPEN")
                             \/ HasBatch(tx[e].req.batch, "HELD"))'
        /\ Holding(e)' => HasBatch(tx[e].req.batch, "OPEN")'
    BY <1>0, <1>3, <2>1, Unmoved DEF HasBatch
  <2>3. IsAt(e, "write hold")' => Justified(tx[e].req.batch, tx[e].req.hold)'
    BY <1>0, <1>7, Unmoved
  <2>4. Inserted(e)' => ~Exists(tx[e].req)'
    BY <1>0, <1>6, Unmoved
  <2>5. IsAt(e, "complete")' \/ Storing(e)' =>
          /\ inspections'[p.inspection] # None
          /\ tx[e].batch = inspections'[p.inspection].batch
    BY <1>0, <1>4, Unmoved
  <2>6. Storing(e)' => (Completes(e)' <=> inspections'[p.inspection].completed = None)
    BY <1>0, <1>5, Unmoved
  <2> QED
    BY <1>0, <2>2, <2>3, <2>4, <2>5, <2>6 DEF ReadInv
<1> QED
  BY <1>0, <1>8, Unmoved DEF CallerInv

\* A step of c takes what it wants and nobody has, or lets go of everything.
LEMMA LocksOfStep ==
  ASSUME TypeOK, NEW c \in Callers, CallerStep(c)
  PROVE  \/ locks'[c] = {}
         \/ locks'[c] = locks[c]
         \/ locks'[c] = locks[c] \cup {[mode |-> "Gap", row |-> Key(tx[c].req)]}
         \/ /\ locks'[c] = locks[c] \cup Wants(c)
            /\ \A d \in Callers : ~WaitsFor(c, d)
<1>1. ASSUME NEW label, End(c, label) PROVE locks'[c] = {}
  BY <1>1 DEF End, TypeOK
<1>2. ASSUME NEW label, Goto(c, label) PROVE locks'[c] = locks[c] \cup Wants(c)
  BY <1>2 DEF Goto, TypeOK
<1>3. CASE \/ \E r \in CreateBatchRequest : FindBatch(c, r)
           \/ \E r \in HoldRequest \cup ReleaseRequest : Command(c, r)
           \/ \E r \in CreateRequest : FindInspection(c, r)
           \/ \E r \in ResultRequest : FindResult(c, r)
           \/ Return(c)
  BY <1>3 DEF FindBatch, Command, FindInspection, FindResult, Return, Begin
<1>4. CASE Rollback(c) \/ KeyFreed(c)
  BY <1>4 DEF Rollback, KeyFreed, TypeOK
<1>5. CASE MeetKey(c)
  BY <1>2, <1>5, WantsOf DEF MeetKey
<1>6. CASE LockForHold(c) \/ ValidateEvidence(c) \/ LockForInspection(c) \/ Complete(c)
             \/ InsertRow(c)
  BY <1>1, <1>2, <1>6
    DEF LockForHold, ValidateEvidence, LockForInspection, Complete, InsertRow, At
<1>7. CASE CommitBatch(c) \/ HoldOpen(c) \/ Release(c) \/ CommitInspection(c)
             \/ CommitResult(c) \/ OpenIncident(c) \/ FindWinner(c) \/ KeyTaken(c)
  BY <1>1, <1>7
    DEF CommitBatch, HoldOpen, Release, CommitInspection, CommitResult, OpenIncident,
        StoreResult, FindWinner, KeyTaken
<1> QED
  BY <1>3, <1>4, <1>5, <1>6, <1>7
    DEF CallerStep, BatchStep, InspectionStep, ResultStep, InsertStep

\* So locks that conflict are never held at the same time.
LEMMA StepCompatible ==
  ASSUME IntakeInv, NEW c \in Callers, CallerStep(c), Own(c),
         NEW d \in Callers, NEW e \in Callers, d # e
  PROVE  Compatible(d, e)'
<1>0. TypeOK /\ Compatible(d, e) /\ Compatible(e, d)
  BY DEF IntakeInv
<1>1. SUFFICES ASSUME NEW k \in locks'[d], NEW l \in locks'[e], k.mode # "Insert",
                      Conflict(k, l)
               PROVE  FALSE
  BY DEF Compatible, Conflict
<1>2. /\ Conflict(l, k) /\ l.mode # "Insert" /\ l.mode # "Gap" /\ k.mode # "Gap"
  BY <1>1 DEF Conflict
<1>3. \A f \in Callers : f # c => locks'[f] = locks[f]
  BY DEF Own
<1>4. ASSUME NEW x \in locks'[c]
      PROVE  \/ x \in locks[c]
             \/ x.mode = "Gap"
             \/ x \in Wants(c) /\ \A f \in Callers : ~WaitsFor(c, f)
  <2> DEFINE gap == [mode |-> "Gap", row |-> Key(tx[c].req)]
  <2>1. gap.mode = "Gap"
    OBVIOUS
  <2> HIDE DEF gap
  <2>2. \/ locks'[c] = {}
        \/ locks'[c] = locks[c]
        \/ locks'[c] = locks[c] \cup {gap}
        \/ /\ locks'[c] = locks[c] \cup Wants(c)
           /\ \A f \in Callers : ~WaitsFor(c, f)
    BY <1>0, LocksOfStep DEF gap
  <2> QED
    BY <1>4, <2>1, <2>2
<1>5. CASE d = c
  <2>1. l \in locks[e]
    BY <1>3, <1>5
  <2>2. k \notin locks[c]
    BY <1>0, <1>1, <1>5, <2>1 DEF Compatible
  <2>3. k \in Wants(c) /\ ~WaitsFor(c, e)
    BY <1>2, <1>4, <1>5, <2>2
  <2> QED
    BY <1>1, <1>5, <2>1, <2>3 DEF WaitsFor, Blocks
<1>6. CASE e = c
  <2>1. k \in locks[d]
    BY <1>3, <1>6
  <2>2. l \notin locks[c]
    BY <1>0, <1>2, <1>6, <2>1 DEF Compatible
  <2>3. l \in Wants(c) /\ ~WaitsFor(c, d)
    BY <1>2, <1>4, <1>6, <2>2
  <2> QED
    BY <1>2, <1>6, <2>1, <2>3 DEF WaitsFor, Blocks
<1>7. CASE d # c /\ e # c
  <2>1. k \in locks[d] /\ l \in locks[e]
    BY <1>3, <1>7
  <2> QED
    BY <1>0, <1>1, <2>1 DEF Compatible
<1> QED
  BY <1>5, <1>6, <1>7

LEMMA IntakeInvKept ==
  ASSUME IntakeInv, [Next]_vars
  PROVE  IntakeInv' /\ [LedgerNext]_ledger
<1>1. ASSUME NEW c \in Callers, CallerStep(c)
      PROVE  IntakeInv' /\ [LedgerNext]_ledger
  <2>1. [LedgerNext]_ledger /\ Own(c) /\ TablesOK
    BY <1>1, StepImplements, StepOwn DEF IntakeInv, TypeOK
  <2>2. TablesOK' /\ EvidenceChain' /\ RowsKept
    BY <2>1, LedgerType, LedgerKeepsEvidence, LedgerKeepsRows DEF IntakeInv
  <2>3. \A e \in Callers : CallerInv(e)'
    BY <1>1, <2>1, <2>2, StepOthers DEF Own
  <2>4. \A d, e \in Callers : d # e => Compatible(d, e)'
    BY <1>1, <2>1, StepCompatible
  <2> QED
    BY <2>1, <2>2, <2>3, <2>4 DEF IntakeInv, TypeOK, Own
<1>2. CASE UNCHANGED vars
  <2>1. UNCHANGED ledger /\ UNCHANGED tx /\ UNCHANGED locks
    BY <1>2 DEF vars
  <2>2. TypeOK' /\ EvidenceChain'
    BY <2>1 DEF IntakeInv, TypeOK, TablesOK, EvidenceChain, Justified, Evidence, ledger
  <2>3. ASSUME NEW c \in Callers PROVE CallerInv(c)'
    <3>1. CallerInv(c)
      BY DEF IntakeInv
    <3>2. KindInv(c)' /\ LockInv(c)'
      BY <2>1, <3>1, Unmoved DEF CallerInv
    <3>3. ReadInv(c)'
      <4>1. /\ Exists(tx[c].req)' <=> Exists(tx[c].req)
            /\ Justified(tx[c].req.batch, tx[c].req.hold)'
                 <=> Justified(tx[c].req.batch, tx[c].req.hold)
        BY <2>1 DEF Exists, Justified, Evidence, ledger
      <4> QED
        BY <2>1, <3>1, <4>1, Unmoved DEF CallerInv, ReadInv, HasBatch, ledger
    <3> QED
      BY <3>2, <3>3 DEF CallerInv
  <2>4. ASSUME NEW c \in Callers, NEW d \in Callers, c # d PROVE Compatible(c, d)'
    BY <2>1, <2>4 DEF IntakeInv, Compatible, Conflict
  <2> QED
    BY <2>1, <2>2, <2>3, <2>4 DEF IntakeInv
<1> QED
  BY <1>1, <1>2 DEF Next

LEMMA IntakeInvInit == Init => IntakeInv
<1> SUFFICES ASSUME Init PROVE IntakeInv
  OBVIOUS
<1>1. TypeOK /\ EvidenceChain
  BY NoRequestAssumption DEF Init, EmptyTables, TypeOK, TablesOK, EvidenceChain
<1>2. ASSUME NEW c \in Callers PROVE CallerInv(c)
  <2>1. tx[c] = None /\ locks[c] = {}
    BY DEF Init
  <2>2. \A label : ~IsAt(c, label)
    BY <2>1 DEF IsAt
  <2>3. ~Writing(c) /\ ~Inserted(c) /\ ~Creating(c) /\ ~Storing(c) /\ ~Holding(c)
          /\ ~HoldsBatch(c)
    BY <2>2 DEF Writing, Inserted, Creating, Storing, Holding, HoldsBatch
  <2> QED
    BY <2>1, <2>2, <2>3 DEF CallerInv, KindInv, ReadInv, LockInv
<1>3. \A c, d \in Callers : c # d => Compatible(c, d)
  BY DEF Init, Compatible
<1> QED
  BY <1>1, <1>2, <1>3 DEF IntakeInv

\* The invariant of tables, transactions and locks holds in every state.
THEOREM IntakeInvariance == Spec => []IntakeInv
BY IntakeInvInit, IntakeInvKept, PTL DEF Spec

\* The interleaved transactions of the service are an implementation of the
\* ledger: every statement commits one fact of it or changes nothing.
THEOREM IntakeImplementsLedger == Spec => LedgerSpec
<1>1. Init => EmptyTables
  BY DEF Init
<1>2. IntakeInv /\ [Next]_vars => [LedgerNext]_ledger
  BY IntakeInvKept
<1> QED
  BY <1>1, <1>2, IntakeInvariance, PTL DEF Spec, LedgerSpec

\* Tables, transactions and locks keep their types.
THEOREM IntakeTypes == Spec => []TypeOK
BY IntakeInvariance, PTL DEF IntakeInv

\* Batch, inspection, result, incident and event form one chain of evidence
\* however the requests interleave and wherever their transactions fail.
THEOREM IntakeEvidence == Spec => []EvidenceChain
BY IntakeImplementsLedger, LedgerEvidence, PTL

-----------------------------------------------------------------------------
\* The answers

\* The tables have a row, or a command of the batch, for the request.
Settled(q) ==
  CASE q.kind = "batch" -> batches[q.batch] # None
    [] q.kind = "hold" -> batches[q.batch] # None /\ batches[q.batch].hold # None
    [] q.kind = "release" -> batches[q.batch] # None /\ batches[q.batch].release # None
    [] q.kind = "inspection" -> inspections[q.inspection] # None
    [] q.kind = "result" -> results[q.result] # None

AnswerInv(c) ==
  /\ tx[c] # None /\ tx[c].at \in {"done", "replayed"} =>
       Settled(tx[c].req) /\ Stored(tx[c].req)
  /\ IsAt(c, "conflict") => Settled(tx[c].req) /\ ~Stored(tx[c].req)
  /\ ~IsAt(c, "error")
  /\ IsAt(c, "find winner") => results[tx[c].req.result] # None

\* Batches keep their product, and their hold and release once they have them.
LEMMA LedgerKeepsBatches ==
  ASSUME TablesOK, EvidenceChain, [LedgerNext]_ledger, NEW b \in Batches, batches[b] # None
  PROVE  /\ batches'[b] # None /\ batches'[b].product = batches[b].product
         /\ batches[b].hold # None => batches'[b].hold = batches[b].hold
         /\ batches[b].release # None => batches'[b].release = batches[b].release
<1>1. /\ batches[b] \in BatchRow
      /\ batches[b].hold = None <=> batches[b].status = "OPEN"
      /\ batches[b].release # None <=> batches[b].status = "RELEASED"
  BY DEF TablesOK, EvidenceChain
<1>2. ASSUME NEW a \in Batches, NEW h \in Hold, HoldBatch(a, h)
      PROVE  /\ batches'[b] # None /\ batches'[b].product = batches[b].product
             /\ batches[b].hold # None => batches'[b].hold = batches[b].hold
             /\ batches'[b].release = batches[b].release
  <2>1. CASE a = b
    <3>1. batches[b].hold = None
      BY <1>1, <1>2, <2>1 DEF HoldBatch, HasBatch
    <3>2. batches'[b] = [[batches[b] EXCEPT !.status = "HELD"] EXCEPT !.hold = h]
      BY <1>2, <2>1 DEF HoldBatch, TablesOK
    <3>3. [[batches[b] EXCEPT !.status = "HELD"] EXCEPT !.hold = h] \in BatchRow
      BY <1>1 DEF BatchRow
    <3>4. batches'[b].product = batches[b].product /\ batches'[b].release = batches[b].release
      BY <1>1, <3>2 DEF BatchRow
    <3> QED
      BY <3>1, <3>2, <3>3, <3>4, NoneAssumption
  <2>2. CASE a # b
    <3>1. batches'[b] = batches[b]
      BY <1>2, <2>2 DEF HoldBatch, TablesOK
    <3> QED
      BY <3>1
  <2> QED
    BY <2>1, <2>2
<1>3. ASSUME NEW a \in Batches, NEW reason \in ReleaseReasons, ReleaseBatch(a, reason)
      PROVE  /\ batches'[b] # None /\ batches'[b].product = batches[b].product
             /\ batches'[b].hold = batches[b].hold
             /\ batches[b].release # None => batches'[b].release = batches[b].release
  <2>1. CASE a = b
    <3>1. batches[b].release = None
      BY <1>1, <1>3, <2>1 DEF ReleaseBatch, HasBatch
    <3>2. batches'[b] = [[batches[b] EXCEPT !.status = "RELEASED"] EXCEPT !.release = reason]
      BY <1>3, <2>1 DEF ReleaseBatch, TablesOK
    <3>3. [[batches[b] EXCEPT !.status = "RELEASED"] EXCEPT !.release = reason] \in BatchRow
      BY <1>1 DEF BatchRow
    <3>4. batches'[b].product = batches[b].product /\ batches'[b].hold = batches[b].hold
      BY <1>1, <3>2 DEF BatchRow
    <3> QED
      BY <3>1, <3>2, <3>3, <3>4, NoneAssumption
  <2>2. CASE a # b
    <3>1. batches'[b] = batches[b]
      BY <1>3, <2>2 DEF ReleaseBatch, TablesOK
    <3> QED
      BY <3>1
  <2> QED
    BY <2>1, <2>2
<1>4. ASSUME NEW a \in Batches, NEW p \in Products, CreateBatch(a, p)
      PROVE  batches'[b] = batches[b]
  BY <1>4 DEF CreateBatch, TablesOK
<1>5. CASE UNCHANGED batches
  BY <1>5
<1> QED
  BY <1>2, <1>3, <1>4, <1>5 DEF LedgerNext, CreateInspection, AcceptResult, ledger

LEMMA SettledStays ==
  ASSUME TablesOK, EvidenceChain, [LedgerNext]_ledger, NEW q \in Request, Settled(q)
  PROVE  Settled(q)' /\ (Stored(q)' <=> Stored(q))
<1>0. RowsKept
  BY LedgerKeepsRows
<1>1. CASE q \in CreateBatchRequest \cup HoldRequest \cup ReleaseRequest
  <2>1. q.batch \in Batches /\ q.kind \in {"batch", "hold", "release"}
    BY <1>1 DEF CreateBatchRequest, HoldRequest, ReleaseRequest
  <2>2. batches[q.batch] # None
    BY <2>1 DEF Settled
  <2>3. /\ batches'[q.batch] # None
        /\ batches'[q.batch].product = batches[q.batch].product
        /\ batches[q.batch].hold # None =>
             batches'[q.batch].hold = batches[q.batch].hold
        /\ batches[q.batch].release # None =>
             batches'[q.batch].release = batches[q.batch].release
    BY <2>1, <2>2, LedgerKeepsBatches
  <2>4. CASE q.kind = "batch"
    BY <2>3, <2>4 DEF Settled, Stored
  <2>5. CASE q.kind = "hold"
    BY <2>3, <2>5 DEF Settled, Stored
  <2>6. CASE q.kind = "release"
    BY <2>3, <2>6 DEF Settled, Stored
  <2> QED
    BY <2>1, <2>4, <2>5, <2>6
<1>2. CASE q \in CreateRequest
  BY <1>0, <1>2 DEF CreateRequest, Settled, Stored, RowsKept
<1>3. CASE q \in ResultRequest
  BY <1>0, <1>3 DEF ResultRequest, Settled, Stored, RowsKept, RowOf
<1> QED
  BY <1>1, <1>2, <1>3 DEF Request

\* An answer that compares the request with the tables is true of them.
Truthful(q, answer) ==
  /\ answer \in {"replayed", "conflict"} => Settled(q)
  /\ answer = "replayed" => Stored(q)
  /\ answer = "conflict" => ~Stored(q)
  /\ answer # "error"

LEMMA BatchVerdictTrue ==
  ASSUME NEW q \in CreateBatchRequest, batches[q.batch] # None
  PROVE  Truthful(q, BatchVerdict(q))
BY DEF CreateBatchRequest, Settled, Stored, BatchVerdict, Truthful

LEMMA InspectionVerdictTrue ==
  ASSUME NEW q \in CreateRequest, inspections[q.inspection] # None
  PROVE  Truthful(q, InspectionVerdict(q))
BY DEF CreateRequest, Settled, Stored, InspectionVerdict, Truthful

LEMMA HoldVerdictTrue ==
  ASSUME EvidenceChain, NEW q \in HoldRequest,
         batches[q.batch] # None, batches[q.batch].status # "OPEN"
  PROVE  Truthful(q, HoldVerdict(q))
<1>1. q.kind = "hold" /\ batches[q.batch].hold # None
  BY DEF HoldRequest, EvidenceChain
<1> QED
  BY <1>1 DEF Settled, Stored, HoldVerdict, Truthful

LEMMA ReleaseVerdictTrue ==
  ASSUME TablesOK, EvidenceChain, NEW q \in ReleaseRequest,
         batches[q.batch] # None, batches[q.batch].status # "HELD"
  PROVE  Truthful(q, ReleaseVerdict(q))
<1>1. q.kind = "release" /\ q.batch \in Batches
  BY DEF ReleaseRequest
<1>2. CASE batches[q.batch].status = "OPEN"
  BY <1>2 DEF ReleaseVerdict, Truthful
<1>3. CASE batches[q.batch].status = "RELEASED"
  <2>1. batches[q.batch].release # None
    BY <1>1, <1>3 DEF EvidenceChain
  <2> QED
    BY <1>1, <1>3, <2>1 DEF Settled, Stored, ReleaseVerdict, Truthful
<1> QED
  BY <1>1, <1>2, <1>3 DEF TablesOK, BatchRow

LEMMA ResultVerdictTrue ==
  ASSUME EvidenceChain, NEW q \in ResultRequest, results[q.result] # None
  PROVE  Truthful(q, ResultVerdict(q))
<1>1. q.kind = "result" /\ q.result \in Results /\ q.anomaly \in BOOLEAN
  BY DEF ResultRequest
<1>2. /\ outbox[q.result] = incidents[q.result]
      /\ incidents[q.result] # None <=> results[q.result].anomaly
  BY <1>1 DEF EvidenceChain
<1>3. results[q.result] = RowOf(q) => (results[q.result].anomaly <=> q.anomaly)
  BY DEF RowOf
<1> QED
  BY <1>1, <1>2, <1>3 DEF Settled, Stored, ResultVerdict, Truthful

LEMMA Answered ==
  ASSUME NEW c \in Callers, NEW q \in Request, NEW label, Truthful(q, label),
         label \notin {"done", "find winner"}, UNCHANGED ledger,
         tx'[c] # None, tx'[c].at = label, tx'[c].req = q
  PROVE  AnswerInv(c)'
<1>1. (Settled(q)' <=> Settled(q)) /\ (Stored(q)' <=> Stored(q))
  BY DEF Settled, Stored, RowOf, ledger
<1>2. Settled(tx[c].req)' = Settled(q)' /\ Stored(tx[c].req)' = Stored(q)'
  BY DEF Settled, Stored, RowOf
<1> QED
  BY <1>1, <1>2 DEF AnswerInv, Truthful, IsAt

LEMMA AnsweredEnd ==
  ASSUME TypeOK, NEW c \in Callers, tx[c] # None, NEW label \in Answers \cup Statements,
         End(c, label) \/ Goto(c, label), Truthful(tx[c].req, label),
         label \notin {"done", "find winner"}, UNCHANGED ledger
  PROVE  AnswerInv(c)'
<1>1. tx[c].req \in Request
  BY DEF TypeOK, Tx
<1>2. tx'[c] # None /\ tx'[c].at = label /\ tx'[c].req = tx[c].req
  BY Moved DEF End, Goto
<1> QED
  BY <1>1, <1>2, Answered

LEMMA AnsweredBegin ==
  ASSUME TypeOK, NEW c \in Callers, NEW q \in Request,
         NEW label \in Answers \cup Statements, NEW batch \in Batches \cup {None},
         Begin(c, q, label, batch), Truthful(q, label),
         label \notin {"done", "find winner"}, UNCHANGED ledger
  PROVE  AnswerInv(c)'
<1>1. tx'[c] # None /\ tx'[c].at = label /\ tx'[c].req = q
  BY Began
<1> QED
  BY <1>1, Answered

\* A request that commits is stored.
LEMMA AnsweredDone ==
  ASSUME TypeOK, NEW c \in Callers, tx[c] # None, End(c, "done"),
         NEW q, q = tx[c].req, Settled(q)', Stored(q)'
  PROVE  AnswerInv(c)'
<1>1. tx'[c] # None /\ tx'[c].at = "done" /\ tx'[c].req = q
  BY Moved DEF End, Answers
<1> QED
  BY <1>1 DEF AnswerInv, IsAt, Settled, Stored, RowOf

LEMMA StepAnswers ==
  ASSUME IntakeInv, NEW c \in Callers, CallerStep(c), AnswerInv(c), EvidenceChain'
  PROVE  AnswerInv(c)'
<1> PICK q : q = tx[c].req
  OBVIOUS
<1>0. TypeOK /\ TablesOK /\ EvidenceChain /\ CallerInv(c) /\ None \in Batches \cup {None}
  BY DEF IntakeInv, TypeOK
<1>1. \A r \in Request : \A label \in {"lock batch", "evidence", "write hold", "complete",
          "insert", "duplicate", "commit", "open incident", "refused"} :
        Truthful(r, label)
  BY DEF Truthful
<1>2. tx[c] # None => q \in Request
  BY <1>0, RequestOf
<1>3. ASSUME NEW r \in CreateBatchRequest, FindBatch(c, r) PROVE AnswerInv(c)'
  <2> DEFINE label == IF batches[r.batch] = None THEN "insert" ELSE BatchVerdict(r)
  <2>1. r \in Request /\ label \in (Answers \cup Statements) \ {"done", "find winner"}
    BY DEF Request, BatchVerdict, Answers, Statements
  <2>2. Truthful(r, label)
    BY <1>1, <2>1, BatchVerdictTrue
  <2>3. Begin(c, r, label, None) /\ UNCHANGED ledger
    BY <1>3 DEF FindBatch
  <2> HIDE DEF label
  <2> QED
    BY <1>0, <2>1, <2>2, <2>3, AnsweredBegin
<1>4. ASSUME NEW r \in HoldRequest \cup ReleaseRequest, Command(c, r) PROVE AnswerInv(c)'
  BY <1>0, <1>1, <1>4, AnsweredBegin DEF Command, Request, Statements
<1>5. ASSUME NEW r \in CreateRequest, FindInspection(c, r) PROVE AnswerInv(c)'
  <2> DEFINE label == IF inspections[r.inspection] = None THEN "lock batch"
                                                          ELSE InspectionVerdict(r)
  <2>1. r \in Request /\ label \in (Answers \cup Statements) \ {"done", "find winner"}
    BY DEF Request, InspectionVerdict, Answers, Statements
  <2>2. Truthful(r, label)
    BY <1>1, <2>1, InspectionVerdictTrue
  <2>3. Begin(c, r, label, None) /\ UNCHANGED ledger
    BY <1>5 DEF FindInspection
  <2> HIDE DEF label
  <2> QED
    BY <1>0, <2>1, <2>2, <2>3, AnsweredBegin
<1>6. ASSUME NEW r \in ResultRequest, FindResult(c, r) PROVE AnswerInv(c)'
  <2> DEFINE row == inspections[r.inspection]
             batch == IF row = None THEN None ELSE row.batch
  <2>1. r \in Request /\ batch \in Batches \cup {None}
    BY <1>0 DEF Request, ResultRequest, TablesOK, InspectionRow
  <2>2. FirstVerdict(r) \in (Answers \cup Statements) \ {"done", "find winner"}
    BY DEF FirstVerdict, ResultVerdict, Answers, Statements
  <2>3. Truthful(r, FirstVerdict(r))
    BY <1>0, <1>1, <2>1, ResultVerdictTrue DEF FirstVerdict
  <2>4. Begin(c, r, FirstVerdict(r), batch) /\ UNCHANGED ledger
    BY <1>6 DEF FindResult
  <2> HIDE DEF batch
  <2> QED
    BY <1>0, <2>1, <2>2, <2>3, <2>4, AnsweredBegin
<1>7. CASE CommitBatch(c)
  <2>1. q \in CreateBatchRequest /\ tx[c] # None /\ q.kind = "batch" /\ End(c, "done")
    BY <1>2, <1>7, KindOf DEF CommitBatch, IsAt
  <2>2. batches'[q.batch] = OpenBatch(q.product)
    BY <1>0, <1>7, <2>1 DEF CommitBatch, CreateBatchRequest, TablesOK
  <2>3. OpenBatch(q.product) # None
    BY <2>1, NoneAssumption DEF OpenBatch, BatchRow, CreateBatchRequest
  <2>4. Settled(q)' /\ Stored(q)'
    BY <2>1, <2>2, <2>3 DEF Settled, Stored, OpenBatch
  <2> QED
    BY <1>0, <2>1, <2>4, AnsweredDone
<1>8. CASE LockForHold(c)
  <2>1. q \in HoldRequest /\ tx[c] # None /\ q \in Request /\ UNCHANGED ledger
    BY <1>2, <1>8, KindOf DEF LockForHold, At, IsAt
  <2>2. CASE \E label \in {"refused", "evidence", "write hold"} :
               End(c, label) \/ Goto(c, label)
    BY <1>0, <1>1, <2>1, <2>2, AnsweredEnd DEF Statements, Answers
  <2>3. CASE /\ batches[q.batch] # None /\ batches[q.batch].status # "OPEN"
             /\ End(c, HoldVerdict(q))
    <3>1. HoldVerdict(q) \in (Answers \cup Statements) \ {"done", "find winner"}
      BY DEF HoldVerdict, Answers
    <3> QED
      BY <1>0, <2>1, <2>3, <3>1, HoldVerdictTrue, AnsweredEnd
  <2> QED
    BY <1>8, <2>2, <2>3 DEF LockForHold
<1>9. CASE ValidateEvidence(c) \/ LockForInspection(c)
  <2>1. tx[c] # None /\ q \in Request /\ UNCHANGED ledger
    BY <1>2, <1>9 DEF ValidateEvidence, LockForInspection, At, IsAt
  <2>2. \E label \in {"refused", "write hold", "insert"} :
          End(c, label) \/ Goto(c, label)
    BY <1>9 DEF ValidateEvidence, LockForInspection
  <2> QED
    BY <1>0, <1>1, <2>1, <2>2, AnsweredEnd DEF Statements, Answers
<1>10. CASE HoldOpen(c)
  <2>1. /\ q \in HoldRequest /\ tx[c] # None /\ End(c, "done")
        /\ HasBatch(q.batch, "OPEN")
    BY <1>0, <1>2, <1>10, KindOf
      DEF HoldOpen, At, IsAt, CallerInv, KindInv, ReadInv, Holding
  <2>2. /\ batches[q.batch] \in BatchRow /\ q.hold \in Hold
        /\ batches' = [batches EXCEPT ![q.batch] =
             [[batches[q.batch] EXCEPT !.status = "HELD"] EXCEPT !.hold = q.hold]]
    BY <1>0, <1>10, <2>1 DEF HoldOpen, HasBatch, TablesOK, HoldRequest
  <2>3. [[batches[q.batch] EXCEPT !.status = "HELD"] EXCEPT !.hold = q.hold] \in BatchRow
    BY <2>2 DEF BatchRow
  <2>4. batches'[q.batch] # None /\ batches'[q.batch].hold = q.hold /\ q.hold # None
    BY <1>0, <2>1, <2>2, <2>3, NoneAssumption DEF TablesOK, HoldRequest, BatchRow
  <2>5. Settled(q)' /\ Stored(q)'
    BY <2>1, <2>4 DEF Settled, Stored, HoldRequest
  <2> QED
    BY <1>0, <2>1, <2>5, AnsweredDone
<1>11. CASE Release(c)
  <2>1. q \in ReleaseRequest /\ tx[c] # None /\ q \in Request
    BY <1>2, <1>11, KindOf DEF Release, At, IsAt
  <2>2. q.batch \in Batches /\ q.reason \in ReleaseReasons /\ q.kind = "release"
    BY <2>1 DEF ReleaseRequest
  <2>3. CASE /\ HasBatch(q.batch, "HELD") /\ End(c, "done")
             /\ batches' = [batches EXCEPT
                  ![q.batch].status = "RELEASED", ![q.batch].release = q.reason]
    <3>1. batches[q.batch] \in BatchRow
      BY <1>0, <2>2, <2>3 DEF HasBatch, TablesOK
    <3>2. batches'[q.batch] =
            [[batches[q.batch] EXCEPT !.status = "RELEASED"] EXCEPT !.release = q.reason]
      BY <1>0, <2>2, <2>3 DEF TablesOK
    <3>3. [[batches[q.batch] EXCEPT !.status = "RELEASED"] EXCEPT !.release = q.reason]
            \in BatchRow
      BY <2>2, <3>1 DEF BatchRow
    <3>4. /\ batches'[q.batch] # None /\ q.reason # None
          /\ batches'[q.batch].release = q.reason
      <4>1. batches'[q.batch] # None /\ q.reason # None
        BY <2>2, <3>2, <3>3, NoneAssumption
      <4>2. batches'[q.batch].release = q.reason
        BY <3>1, <3>2 DEF BatchRow
      <4> QED
        BY <4>1, <4>2
    <3>5. Settled(q)' /\ Stored(q)'
      BY <2>2, <3>4 DEF Settled, Stored
    <3> QED
      BY <1>0, <2>1, <2>3, <3>5, AnsweredDone
  <2>4. CASE UNCHANGED batches /\ End(c, "refused")
    <3>1. UNCHANGED ledger /\ Truthful(tx[c].req, "refused")
      BY <1>1, <1>11, <2>1, <2>4 DEF Release, ledger
    <3>2. \E label \in {"refused"} :
            (End(c, label) \/ Goto(c, label)) /\ Truthful(tx[c].req, label)
      BY <2>4, <3>1
    <3> QED
      BY <1>0, <2>1, <3>1, <3>2, AnsweredEnd DEF Answers
  <2>5. CASE /\ batches[q.batch] # None /\ batches[q.batch].status # "HELD"
             /\ End(c, ReleaseVerdict(q)) /\ UNCHANGED batches
    <3>1. ReleaseVerdict(q) \in (Answers \cup Statements) \ {"done", "find winner"}
      BY DEF ReleaseVerdict, Answers
    <3>2. UNCHANGED ledger
      BY <1>11, <2>5 DEF Release, ledger
    <3> QED
      BY <1>0, <2>1, <2>5, <3>1, <3>2, ReleaseVerdictTrue, AnsweredEnd
  <2> QED
    BY <1>11, <2>3, <2>4, <2>5 DEF Release
<1>12. CASE CommitInspection(c)
  <2> DEFINE row == [batch |-> q.batch, image |-> q.image, completed |-> None]
  <2>1. /\ q \in CreateRequest /\ tx[c] # None /\ q.kind = "inspection"
        /\ End(c, "done")
    BY <1>2, <1>12, KindOf DEF CommitInspection, IsAt
  <2>2. q.inspection \in Inspections /\ row \in InspectionRow
    BY <2>1 DEF CreateRequest, InspectionRow
  <2>3. inspections'[q.inspection] = row /\ row # None
    BY <1>0, <1>12, <2>2, NoneAssumption DEF CommitInspection, TablesOK
  <2>4. Settled(q)' /\ Stored(q)'
    BY <2>1, <2>3 DEF Settled, Stored
  <2> QED
    BY <1>0, <2>1, <2>4, AnsweredDone
<1>13. CASE Complete(c)
  <2>1. tx[c] # None /\ q \in Request /\ UNCHANGED ledger
    BY <1>2, <1>13 DEF Complete, At, IsAt
  <2>2. tx'[c] # None /\ tx'[c].at = "insert" /\ tx'[c].req = q
    BY <1>0, <1>13, <2>1, Moved DEF Complete, Goto, Statements
  <2> QED
    BY <1>1, <2>1, <2>2, Answered
<1>14. ASSUME StoreResult(c), q \in ResultRequest, tx[c] # None,
              q.anomaly => outbox'[q.result] # None,
              ~q.anomaly => outbox'[q.result] = None
       PROVE  AnswerInv(c)'
  <2>1. q.result \in Results /\ RowOf(q) \in ResultRow /\ q.kind = "result"
    BY <1>14 DEF ResultRequest, ResultRow, RowOf
  <2>2. results'[q.result] = RowOf(q) /\ RowOf(q) # None /\ End(c, "done")
    BY <1>0, <1>14, <2>1, NoneAssumption DEF StoreResult, TablesOK
  <2>3. Settled(q)' /\ Stored(q)'
    BY <1>14, <2>1, <2>2 DEF Settled, Stored, RowOf
  <2> QED
    BY <1>0, <1>14, <2>2, <2>3, AnsweredDone
<1>15. CASE CommitResult(c)
  <2>1. /\ q \in ResultRequest /\ tx[c] # None /\ ~q.anomaly /\ q.result \in Results
        /\ results[q.result] = None /\ StoreResult(c) /\ UNCHANGED outbox
    BY <1>0, <1>2, <1>15, KindOf
      DEF CommitResult, IsAt, CallerInv, KindInv, ReadInv, Inserted, Exists, ResultRequest
  <2>2. outbox'[q.result] = None
    BY <1>0, <2>1 DEF EvidenceChain
  <2> QED
    BY <1>14, <2>1, <2>2
<1>16. CASE OpenIncident(c)
  <2>1. /\ q \in ResultRequest /\ tx[c] # None /\ q.anomaly /\ q.result \in Results
        /\ results[q.result] = None
    BY <1>0, <1>2, <1>16, KindOf
      DEF OpenIncident, At, IsAt, CallerInv, KindInv, ReadInv, Inserted, Exists,
          ResultRequest
  <2>2. StoreResult(c) /\ results'[q.result] = RowOf(q)
    BY <1>0, <1>16, <2>1 DEF OpenIncident, StoreResult, TablesOK
  <2>3. RowOf(q) # None /\ RowOf(q).anomaly
    <3>1. RowOf(q) \in ResultRow
      BY <2>1 DEF RowOf, ResultRow, ResultRequest
    <3> QED
      BY <2>1, <3>1, NoneAssumption DEF RowOf
  <2>4. outbox'[q.result] # None
    BY <2>1, <2>2, <2>3 DEF EvidenceChain
  <2> QED
    BY <1>14, <2>1, <2>2, <2>4
<1>17. CASE FindWinner(c)
  <2>1. /\ q \in ResultRequest /\ tx[c] # None /\ q \in Request
        /\ results[q.result] # None /\ UNCHANGED ledger
    BY <1>0, <1>2, <1>17, KindOf DEF FindWinner, At, IsAt, CallerInv, KindInv, AnswerInv
  <2>2. End(c, ResultVerdict(q))
    BY <1>17, <2>1 DEF FindWinner
  <2>3. ResultVerdict(q) \in (Answers \cup Statements) \ {"done", "find winner"}
    BY DEF ResultVerdict, Answers
  <2> QED
    BY <1>0, <2>1, <2>2, <2>3, ResultVerdictTrue, AnsweredEnd
<1>18. CASE Return(c) \/ Rollback(c)
  <2>1. tx'[c] = None
    BY <1>0, <1>18 DEF Return, Rollback, TypeOK
  <2> QED
    BY <2>1 DEF AnswerInv, IsAt
<1>19. CASE MeetKey(c) \/ KeyFreed(c) \/ InsertRow(c)
  <2>1. tx[c] # None /\ q \in Request /\ UNCHANGED ledger
    BY <1>2, <1>19 DEF MeetKey, KeyFreed, InsertRow, At, IsAt
  <2>2. \E label \in {"insert", "duplicate", "commit", "open incident"} :
          tx' = [tx EXCEPT ![c].at = label]
    BY <1>19 DEF MeetKey, KeyFreed, InsertRow, Goto
  <2>3. PICK label \in {"insert", "duplicate", "commit", "open incident"} :
          tx' = [tx EXCEPT ![c].at = label]
    BY <2>2
  <2>4. tx'[c] # None /\ tx'[c].at = label /\ tx'[c].req = q
    BY <1>0, <2>1, <2>3, Moved DEF Statements
  <2> QED
    BY <1>1, <2>1, <2>4, Answered
<1>20. CASE KeyTaken(c)
  <2>1. /\ tx[c] # None /\ q \in Request /\ UNCHANGED ledger /\ Exists(q)
        /\ q.kind \in {"batch", "inspection", "result"}
    BY <1>0, <1>2, <1>20
      DEF KeyTaken, At, IsAt, CallerInv, KindInv, Writing
  <2>2. CASE q.kind = "batch"
    <3>1. /\ q \in CreateBatchRequest /\ batches[q.batch] # None
          /\ End(c, BatchVerdict(q))
      BY <1>20, <2>1, <2>2, KindOf DEF KeyTaken, Exists
    <3>2. BatchVerdict(q) \in (Answers \cup Statements) \ {"done", "find winner"}
      BY DEF BatchVerdict, Answers
    <3> QED
      BY <1>0, <2>1, <3>1, <3>2, BatchVerdictTrue, AnsweredEnd
  <2>3. CASE q.kind = "inspection"
    <3>1. /\ q \in CreateRequest /\ inspections[q.inspection] # None
          /\ End(c, InspectionVerdict(q))
      BY <1>20, <2>1, <2>3, KindOf DEF KeyTaken, Exists
    <3>2. InspectionVerdict(q) \in (Answers \cup Statements) \ {"done", "find winner"}
      BY DEF InspectionVerdict, Answers
    <3> QED
      BY <1>0, <2>1, <3>1, <3>2, InspectionVerdictTrue, AnsweredEnd
  <2>4. CASE q.kind = "result"
    <3>1. results[q.result] # None /\ End(c, "find winner")
      BY <1>20, <2>1, <2>4 DEF KeyTaken, Exists
    <3>2. tx'[c] # None /\ tx'[c].at = "find winner" /\ tx'[c].req = q
      BY <1>0, <2>1, <3>1, Moved DEF End, Statements
    <3> QED
      BY <2>1, <3>1, <3>2 DEF AnswerInv, IsAt, ledger
  <2> QED
    BY <2>1, <2>2, <2>3, <2>4
<1> QED
  BY <1>3, <1>4, <1>5, <1>6, <1>7, <1>8, <1>9, <1>10, <1>11, <1>12, <1>13, <1>15,
     <1>16, <1>17, <1>18, <1>19, <1>20
    DEF CallerStep, BatchStep, InspectionStep, ResultStep, InsertStep

AnswersInv == \A c \in Callers : AnswerInv(c)

LEMMA AnswersKept ==
  ASSUME IntakeInv, AnswersInv, [Next]_vars
  PROVE  AnswersInv'
<1>1. IntakeInv' /\ [LedgerNext]_ledger /\ TablesOK /\ EvidenceChain /\ EvidenceChain'
  BY IntakeInvKept DEF IntakeInv, TypeOK
<1>2. ASSUME NEW e \in Callers, tx'[e] = tx[e] PROVE AnswerInv(e)'
  <2>1. PICK q : q = tx[e].req
    OBVIOUS
  <2>2. AnswerInv(e) /\ (tx[e] # None => q \in Request)
    BY <2>1 DEF AnswersInv, IntakeInv, TypeOK, Tx
  <2>3. tx[e] # None /\ Settled(q) => Settled(q)' /\ (Stored(q)' <=> Stored(q))
    BY <1>1, <2>2, SettledStays
  <2>4. IsAt(e, "find winner") /\ results[q.result] # None => results'[q.result] # None
    <3>1. RowsKept
      BY <1>1, LedgerKeepsRows
    <3>2. IsAt(e, "find winner") => q.result \in Results
      BY <2>1, <2>2, KindOf DEF IntakeInv, CallerInv, KindInv, ResultRequest, IsAt
    <3> QED
      BY <3>1, <3>2 DEF RowsKept
  <2>5. (Settled(tx[e].req)' <=> Settled(q)') /\ (Stored(tx[e].req)' <=> Stored(q)')
    BY <1>2, <2>1 DEF Settled, Stored, RowOf
  <2>6. (Settled(tx[e].req) <=> Settled(q)) /\ (Stored(tx[e].req) <=> Stored(q))
    BY <2>1 DEF Settled, Stored, RowOf
  <2> QED
    BY <1>2, <2>1, <2>2, <2>3, <2>4, <2>5, <2>6 DEF AnswerInv, IsAt
<1>3. ASSUME NEW c \in Callers, CallerStep(c) PROVE AnswersInv'
  <2>1. AnswerInv(c)'
    BY <1>1, <1>3, StepAnswers DEF AnswersInv
  <2>2. \A e \in Callers : e # c => tx'[e] = tx[e]
    BY <1>3, StepOwn DEF Own
  <2> QED
    BY <1>2, <2>1, <2>2 DEF AnswersInv
<1>4. CASE UNCHANGED vars
  BY <1>2, <1>4 DEF vars, AnswersInv
<1> QED
  BY <1>3, <1>4 DEF Next

\* What a caller is told is what the tables say: an accepted or replayed request
\* is the stored one, a conflicting one is not, and no replay or loser of a race
\* meets a result without its incident and event.
THEOREM TruthfulAnswers == Spec => []AnswersTrue
<1>1. Init => AnswersInv
  BY DEF Init, AnswersInv, AnswerInv, IsAt
<1>2. IntakeInv /\ AnswersInv /\ [Next]_vars => AnswersInv'
  BY AnswersKept
<1>3. AnswersInv => AnswersTrue
  BY DEF AnswersInv, AnswerInv, AnswersTrue, IsAt
<1> QED
  BY <1>1, <1>2, <1>3, IntakeInvariance, PTL DEF Spec

-----------------------------------------------------------------------------
\* Deadlocks

LEMMA LockFields ==
  ASSUME NEW table, NEW id
  PROVE  /\ Shared(table, id).mode = "S" /\ Shared(table, id).row = <<table, id>>
         /\ Exclusive(table, id).mode = "X" /\ Exclusive(table, id).row = <<table, id>>
BY DEF Shared, Exclusive

LEMMA NewRowFields ==
  ASSUME NEW q, NEW l \in NewRow(q)
  PROVE  l.row = Key(q) /\ l.mode \in {"X", "Insert"}
BY DEF NewRow

\* What a lock says of its holder.
LEMMA HolderOf ==
  ASSUME NEW d \in Callers, LockInv(d), KindInv(d), NEW l \in locks[d], NEW x
  PROVE  /\ l.mode = "Gap" => Writing(d) /\ l.row = Key(tx[d].req)
         /\ l.mode \in {"S", "X"} /\ l.row = <<"batch", x>> =>
              HoldsBatch(d) \/ IsAt(d, "commit")
         /\ l.mode \in {"S", "X"} /\ l.row = <<"result", x>> =>
              Inserted(d) /\ Storing(d) /\ tx[d].req.result = x
         /\ l.mode \in {"S", "X"} /\ l.row = <<"inspection", x>> =>
              /\ tx[d].req.inspection = x
              /\ \/ Storing(d) /\ (l.mode = "S" => Inserted(d))
                                /\ (l.mode = "X" => Completes(d))
                 \/ IsAt(d, "commit") /\ Creating(d)
<1> DEFINE q == tx[d].req
<1>1. CASE HoldsBatch(d) /\ l = Exclusive("batch", q.batch)
  BY <1>1 DEF Exclusive
<1>2. CASE Storing(d) /\ l = Exclusive("inspection", q.inspection)
  BY <1>2 DEF Exclusive, Completes
<1>3. CASE Inserted(d) /\ l \in NewRow(q)
  <2>1. /\ Writing(d) /\ q.kind \in {"batch", "inspection", "result"}
        /\ l.mode \in {"X", "Insert"} /\ l.row = Key(q)
        /\ q.kind # "result" => IsAt(d, "commit")
    <3>1. Writing(d) /\ (IsAt(d, "commit") \/ IsAt(d, "open incident"))
      BY <1>3 DEF Writing, Inserted
    <3>2. /\ q.kind \in {"batch", "inspection", "result"}
          /\ q.kind # "result" => IsAt(d, "commit")
      BY <3>1 DEF KindInv
    <3>3. l.mode \in {"X", "Insert"} /\ l.row = Key(q)
      BY <1>3 DEF NewRow
    <3> QED
      BY <3>1, <3>2, <3>3
  <2>2. CASE q.kind = "batch"
    BY <2>1, <2>2 DEF Key
  <2>3. CASE q.kind = "inspection"
    BY <2>1, <2>3 DEF Key, Creating
  <2>4. CASE q.kind = "result"
    BY <1>3, <2>1, <2>4 DEF Key, Storing
  <2> QED
    BY <2>1, <2>2, <2>3, <2>4
<1>4. CASE Inserted(d) /\ Storing(d) /\ l = Shared("inspection", q.inspection)
  BY <1>4 DEF Shared
<1>5. CASE Writing(d) /\ l = [mode |-> "Gap", row |-> Key(q)]
  BY <1>5
<1> QED
  BY <1>1, <1>2, <1>3, <1>4, <1>5 DEF LockInv

\* k, which c wants, cannot be had because of l, or of a request that l stops.
Stops(l, k, c) ==
  /\ k.row = l.row /\ (k.mode # "Insert" => l.mode \in {"S", "X"})
  /\ \/ Conflict(k, l)
     \/ /\ k.mode = "S"
        /\ \A own \in locks[c] : own.row # l.row
        /\ \E e \in Callers : \E m \in Wants(e) : m.mode = "X" /\ m.row = l.row

LEMMA WaitsForLock ==
  ASSUME NEW c \in Callers, NEW d \in Callers, MayWaitFor(c, d)
  PROVE  \E l \in locks[d] : SharesGap(c, l) \/ \E k \in Wants(c) : Stops(l, k, c)
<1>1. PICK l \in locks[d] :
        \/ Blocks(l, c) \/ SharesGap(c, l)
        \/ \E e \in Callers \ {c, d} : Behind(c, e, l)
  BY DEF MayWaitFor
<1>2. CASE SharesGap(c, l)
  BY <1>2
<1>3. CASE Blocks(l, c)
  <2>1. PICK k \in Wants(c) : Conflict(k, l)
    BY <1>3 DEF Blocks
  <2>2. k.row = l.row /\ (k.mode # "Insert" => l.mode \in {"S", "X"})
    BY <2>1 DEF Conflict
  <2> QED
    BY <2>1, <2>2 DEF Stops
<1>4. CASE \E e \in Callers \ {c, d} : Behind(c, e, l)
  <2>1. PICK e \in Callers : Behind(c, e, l)
    BY <1>4
  <2>2. PICK k \in Wants(c) : k.mode = "S" /\ k.row = l.row
    BY <2>1 DEF Behind
  <2>3. PICK m \in Wants(e) : m.mode = "X" /\ Conflict(m, l)
    BY <2>1 DEF Behind
  <2>4. m.row = l.row /\ l.mode \in {"S", "X"} /\ \A own \in locks[c] : own.row # l.row
    BY <2>1, <2>3 DEF Behind, Conflict
  <2>5. Stops(l, k, c)
    BY <2>2, <2>3, <2>4 DEF Stops
  <2> QED
    BY <2>5
<1> QED
  BY <1>1, <1>2, <1>3, <1>4

\* The same for a statement that inserts nothing.
LEMMA WaitsForRow ==
  ASSUME NEW c \in Callers, NEW d \in Callers, MayWaitFor(c, d), ~IsAt(c, "insert")
  PROVE  \E l \in locks[d], k \in Wants(c) : Stops(l, k, c)
BY WaitsForLock DEF SharesGap

\* Some statements wait for nothing.
LEMMA Waiting ==
  ASSUME NEW c \in Callers, NEW d \in Callers, MayWaitFor(c, d)
  PROVE  \/ IsAt(c, "lock batch") \/ IsAt(c, "write hold") \/ IsAt(c, "complete")
         \/ IsAt(c, "duplicate") \/ IsAt(c, "open incident")
         \/ IsAt(c, "insert") /\ ~Met(c)
<1>1. Wants(c) # {} \/ (IsAt(c, "insert") /\ ~Met(c))
  BY WaitsForLock DEF SharesGap
<1>2. Wants(c) # {} => \/ IsAt(c, "lock batch") \/ IsAt(c, "write hold")
                       \/ IsAt(c, "complete") \/ IsAt(c, "duplicate")
                       \/ IsAt(c, "open incident")
                       \/ IsAt(c, "insert") /\ ~Met(c)
  BY DEF Wants, ResultWants
<1> QED
  BY <1>1, <1>2

LEMMA LockBatchWaits ==
  ASSUME IntakeInv, NEW c \in Callers, NEW d \in Callers, MayWaitFor(c, d),
         IsAt(c, "lock batch")
  PROVE  HoldsBatch(d) \/ IsAt(d, "commit")
<1>0. ~IsAt(c, "insert")
  BY DEF IsAt
<1>1. KindInv(d) /\ LockInv(d)
  BY DEF IntakeInv, CallerInv
<1>2. PICK l \in locks[d] :
        /\ l.mode \in {"S", "X"}
        /\ l.row = <<"batch", tx[c].req.batch>>
  <2>1. PICK l \in locks[d], k \in Wants(c) : Stops(l, k, c)
    BY <1>0, WaitsForRow
  <2>2. k = Exclusive("batch", tx[c].req.batch)
    BY <2>1, WantsOf
  <2> QED
    BY <2>1, <2>2, LockFields DEF Stops
<1> QED
  BY <1>1, <1>2, HolderOf

LEMMA CompleteWaits ==
  ASSUME IntakeInv, NEW c \in Callers, NEW d \in Callers, MayWaitFor(c, d),
         IsAt(c, "complete")
  PROVE  Storing(d) \/ IsAt(d, "commit")
<1>0. ~IsAt(c, "insert")
  BY DEF IsAt
<1>1. KindInv(d) /\ LockInv(d)
  BY DEF IntakeInv, CallerInv
<1>2. PICK l \in locks[d] :
        /\ l.mode \in {"S", "X"}
        /\ l.row = <<"inspection", tx[c].req.inspection>>
  <2>1. PICK l \in locks[d], k \in Wants(c) : Stops(l, k, c)
    BY <1>0, WaitsForRow
  <2>2. k = Exclusive("inspection", tx[c].req.inspection)
    BY <2>1, WantsOf
  <2> QED
    BY <2>1, <2>2, LockFields DEF Stops
<1> QED
  BY <1>1, <1>2, HolderOf

LEMMA OpenIncidentWaits ==
  ASSUME IntakeInv, NEW c \in Callers, NEW d \in Callers, MayWaitFor(c, d),
         IsAt(c, "open incident")
  PROVE  HoldsBatch(d) \/ IsAt(d, "commit")
<1> DEFINE i == tx[c].req.inspection
<1>0. c # d /\ CallerInv(c) /\ CallerInv(d) /\ Compatible(d, c)
  BY DEF IntakeInv, MayWaitFor
<1>1. Shared("inspection", i) \in locks[c]
  <2>1. Inserted(c) /\ Storing(c)
    BY <1>0 DEF Inserted, Storing, Writing, CallerInv, KindInv
  <2> QED
    BY <1>0, <2>1 DEF CallerInv, LockInv
<1>2. PICK l \in locks[d] :
        /\ l.mode \in {"S", "X"}
        /\ \/ l.row = <<"batch", tx[c].batch>>
           \/ l.row = <<"inspection", i>> /\ l.mode = "X"
  <2>1. Wants(c) = {Shared("batch", tx[c].batch), Shared("inspection", i)}
    BY WantsOf
  <2>2. Shared("inspection", i).row = <<"inspection", i>>
    BY DEF Shared
  <2> QED
    <3>1. ~IsAt(c, "insert")
      BY DEF IsAt
    <3>2. PICK l \in locks[d], k \in Wants(c) : Stops(l, k, c)
      BY <3>1, WaitsForRow
    <3>3. CASE k = Shared("batch", tx[c].batch)
      BY <3>2, <3>3 DEF Stops, Shared
    <3>4. CASE k = Shared("inspection", i)
      <4>1. Conflict(k, l) /\ l.row = <<"inspection", i>>
        BY <1>1, <2>2, <3>2, <3>4 DEF Stops
      <4> QED
        BY <3>2, <3>4, <4>1 DEF Conflict, Shared
    <3> QED
      BY <2>1, <3>2, <3>3, <3>4
<1>3. CASE l.row = <<"inspection", i>> /\ l.mode = "X"
  BY <1>0, <1>1, <1>3 DEF Compatible, Conflict, Shared
<1>4. CASE l.row = <<"batch", tx[c].batch>>
  BY <1>0, <1>2, <1>4, HolderOf DEF CallerInv
<1> QED
  BY <1>2, <1>3, <1>4

LEMMA DuplicateWaits ==
  ASSUME IntakeInv, NEW c \in Callers, NEW d \in Callers, MayWaitFor(c, d),
         IsAt(c, "duplicate"), ~CreatesExisting(c)
  PROVE  \/ IsAt(d, "commit")
         \/ ~Creating(c) /\ (HoldsBatch(d) \/ Inserted(d))
<1> DEFINE q == tx[c].req
<1>0. CallerInv(c) /\ CallerInv(d)
  BY DEF IntakeInv
<1>1. Writing(c) /\ q.kind \in {"batch", "inspection", "result"}
  BY <1>0 DEF Writing, CallerInv, KindInv
<1>2. PICK l \in locks[d] : l.mode \in {"S", "X"} /\ l.row = Key(q)
  <2>1. ~IsAt(c, "insert") /\ Wants(c) = {[mode |-> "S", row |-> Key(q)]}
    BY WantsOf DEF IsAt
  <2> QED
    BY <2>1, WaitsForRow DEF Stops
<1>3. CASE q.kind = "batch"
  <2>1. l.row = <<"batch", q.batch>> /\ ~Creating(c)
    BY <1>2, <1>3 DEF Key, Creating
  <2> QED
    BY <1>0, <1>2, <2>1, HolderOf DEF CallerInv
<1>4. CASE q.kind = "result"
  <2>1. l.row = <<"result", q.result>> /\ ~Creating(c)
    BY <1>2, <1>4 DEF Key, Creating
  <2> QED
    BY <1>0, <1>2, <2>1, HolderOf DEF CallerInv
<1>5. CASE q.kind = "inspection"
  <2>1. l.row = <<"inspection", q.inspection>> /\ inspections[q.inspection] = None
    BY <1>2, <1>5 DEF Key, CreatesExisting, Exists
  <2>2. \/ Storing(d) /\ tx[d].req.inspection = q.inspection
        \/ IsAt(d, "commit")
    BY <1>0, <1>2, <2>1, HolderOf DEF CallerInv
  <2>3. ~(Storing(d) /\ tx[d].req.inspection = q.inspection)
    BY <1>0, <2>1 DEF CallerInv, ReadInv
  <2> QED
    BY <2>2, <2>3
<1> QED
  BY <1>1, <1>3, <1>4, <1>5

\* An INSERT waits for those who have the gap, or for a result of the same
\* inspection whose row is there.
LEMMA InsertWaits ==
  ASSUME IntakeInv, NEW c \in Callers, NEW d \in Callers, MayWaitFor(c, d),
         IsAt(c, "insert"), ~Met(c)
  PROVE  \/ /\ Writing(d) /\ tx[d].req.kind = tx[c].req.kind
            /\ \E l \in locks[d] : l.mode = "Gap"
         \/ Inserted(d) /\ ~Creating(c)
<1> DEFINE q == tx[c].req
<1>0. CallerInv(c) /\ CallerInv(d) /\ c # d /\ Compatible(c, d) /\ TypeOK
  BY DEF IntakeInv, MayWaitFor
<1>1. Writing(c) /\ q.kind \in {"batch", "inspection", "result"} /\ ~Exists(q)
  BY <1>0 DEF Writing, CallerInv, KindInv, Met
<1>2. /\ \A k \in NewRow(q) : k.row = Key(q) /\ k.mode \in {"X", "Insert"}
      /\ Wants(c) \subseteq NewRow(q) \cup {Shared("inspection", q.inspection)}
      /\ q.kind # "result" => Wants(c) = NewRow(q)
  <2>1. /\ q.kind # "result" => Wants(c) = NewRow(q)
        /\ q.kind = "result" => Wants(c) = NewRow(q) \cup {Shared("inspection", q.inspection)}
    BY WantsOf
  <2>2. \A k \in NewRow(q) : k.row = Key(q) /\ k.mode \in {"X", "Insert"}
    BY DEF NewRow
  <2> QED
    BY <2>1, <2>2
<1>3. ASSUME NEW l \in locks[d], l.mode = "Gap", l.row[1] = Key(q)[1]
      PROVE  /\ Writing(d) /\ tx[d].req.kind = q.kind
             /\ \E m \in locks[d] : m.mode = "Gap"
  <2>1. Writing(d) /\ l.row = Key(tx[d].req)
    BY <1>0, <1>3, HolderOf DEF CallerInv
  <2>2. tx[d].req.kind \in {"batch", "inspection", "result"}
    BY <1>0, <2>1 DEF CallerInv, KindInv
  <2>3. Key(tx[d].req)[1] = tx[d].req.kind /\ Key(q)[1] = q.kind
    BY <1>1, <2>2 DEF Key
  <2> QED
    BY <1>3, <2>1, <2>3
<1>4. ASSUME NEW l \in locks[d], l.mode \in {"S", "X"}, l.row = Key(q)
      PROVE  FALSE
  <2>1. CASE l.mode = "X"
    <3>1. l = [mode |-> "X", row |-> Key(q)]
      BY <1>0, <1>4, <2>1 DEF TypeOK, Locks
    <3> QED
      BY <1>0, <3>1 DEF Met
  <2>2. CASE l.mode = "S"
    <3>1. l = Shared("inspection", tx[d].req.inspection) /\ Storing(d)
      BY <1>0, <1>4, <2>2 DEF CallerInv, LockInv, NewRow, Exclusive
    <3>2. q.kind = "inspection" /\ q.inspection = tx[d].req.inspection
      BY <1>1, <1>4, <3>1 DEF Key, Shared
    <3>3. inspections[q.inspection] # None
      BY <1>0, <3>1, <3>2 DEF CallerInv, ReadInv
    <3> QED
      BY <1>1, <3>2, <3>3 DEF Exists
  <2> QED
    BY <1>4, <2>1, <2>2
<1>5. ASSUME NEW l \in locks[d], q.kind = "result", l.row = <<"inspection", q.inspection>>,
             l.mode = "X" \/ (l.mode = "S" /\ \A own \in locks[c] : own.row # l.row)
      PROVE  Inserted(d)
  <2>1. \/ /\ Storing(d) /\ tx[d].req.inspection = q.inspection
           /\ l.mode = "S" => Inserted(d)
           /\ l.mode = "X" => Completes(d)
        \/ IsAt(d, "commit")
    BY <1>0, <1>5, HolderOf DEF CallerInv
  <2>2. ~(Storing(d) /\ tx[d].req.inspection = q.inspection /\ Completes(d))
    <3>1. Storing(c)
      BY <1>1, <1>5 DEF Storing
    <3>2. Storing(d) /\ tx[d].req.inspection = q.inspection /\ Completes(d) => Completes(c)
      BY <1>0, <3>1 DEF CallerInv, ReadInv
    <3> QED
      BY <1>0, <3>2, Apart DEF CallerInv
  <2> QED
    BY <1>5, <2>1, <2>2 DEF Inserted
<1>6. PICK l \in locks[d] :
        SharesGap(c, l) \/ \E k \in Wants(c) : Stops(l, k, c)
  BY WaitsForLock
<1>7. CASE SharesGap(c, l)
  BY <1>3, <1>7 DEF SharesGap
<1>8. ASSUME NEW k \in NewRow(q), Stops(l, k, c)
      PROVE  /\ Writing(d) /\ tx[d].req.kind = q.kind
             /\ \E m \in locks[d] : m.mode = "Gap"
  <2>1. k.row = Key(q) /\ k.mode \in {"X", "Insert"}
    BY <1>8, NewRowFields
  <2>2. l.row = Key(q) /\ (l.mode = "Gap" \/ l.mode \in {"S", "X"})
    BY <1>8, <2>1 DEF Stops, Conflict
  <2> QED
    BY <1>3, <1>4, <2>2
<1>9. ASSUME q.kind = "result", Stops(l, Shared("inspection", q.inspection), c)
      PROVE  Inserted(d) /\ ~Creating(c)
  <2>1. /\ l.row = <<"inspection", q.inspection>> /\ l.mode \in {"S", "X"}
        /\ l.mode = "X" \/ \A own \in locks[c] : own.row # l.row
    BY <1>9, LockFields DEF Stops, Conflict
  <2> QED
    BY <1>5, <1>9, <2>1 DEF Creating
<1> QED
  BY <1>2, <1>6, <1>7, <1>8, <1>9

\* The evidence of a hold is complete and stored, so no lock stands in its way:
\* it can only come behind a request to complete the inspection once more.
LEMMA HoldWaits ==
  ASSUME IntakeInv, NEW c \in Callers, NEW d \in Callers, MayWaitFor(c, d),
         IsAt(c, "write hold")
  PROVE  IsAt(d, "commit") \/ HoldMeetsResults(c, d)
<1> DEFINE q == tx[c].req
           h == tx[c].req.hold
<1>0. /\ TypeOK /\ TablesOK /\ EvidenceChain /\ CallerInv(c) /\ CallerInv(d)
      /\ tx[c] # None
  BY DEF IntakeInv, TypeOK, IsAt
<1>1. h.reason = "QUALITY_ANOMALY"
  <2>1. Wants(c) # {}
    BY WaitsForLock DEF SharesGap, IsAt
  <2> QED
    BY <2>1 DEF Wants, ResultWants, IsAt
<1>2. Wants(c) = {Shared("inspection", h.inspection), Shared("result", h.result)}
  BY <1>1 DEF Wants, IsAt
<1>3. h.inspection \in Inspections /\ h.result \in Results /\ Evidence(q.batch, h)
  <2>1. q.kind = "hold" /\ Justified(q.batch, h)
    BY <1>0 DEF CallerInv, KindInv, ReadInv, Holding
  <2>2. h \in Hold
    BY <1>0, <2>1, RequestOf, KindOf DEF HoldRequest
  <2> QED
    BY <1>1, <2>1, <2>2, NoneAssumption DEF Hold, Justified
<1>4. /\ inspections[h.inspection] # None /\ inspections[h.inspection].completed # None
      /\ inspections[h.inspection].batch = q.batch /\ results[h.result] # None
  BY <1>0, <1>3 DEF Evidence, EvidenceChain
<1>5. ASSUME NEW l \in locks[d], l.mode \in {"S", "X"}, l.row = <<"result", h.result>>
      PROVE  FALSE
  <2>1. Inserted(d) /\ Storing(d) /\ tx[d].req.result = h.result
    BY <1>0, <1>5, HolderOf DEF CallerInv
  <2> QED
    BY <1>0, <1>4, <2>1 DEF CallerInv, ReadInv, Exists, Storing
<1>6. ASSUME NEW l \in locks[d], l.mode \in {"S", "X"},
             l.row = <<"inspection", h.inspection>>
      PROVE  /\ l.mode = "S" /\ Inserted(d) /\ Storing(d)
             /\ tx[d].req.inspection = h.inspection
  <2>1. /\ tx[d].req.inspection = h.inspection
        /\ \/ Storing(d) /\ (l.mode = "S" => Inserted(d)) /\ (l.mode = "X" => Completes(d))
           \/ IsAt(d, "commit") /\ Creating(d)
    BY <1>0, <1>6, HolderOf DEF CallerInv
  <2>2. ~(IsAt(d, "commit") /\ Creating(d))
    BY <1>0, <1>4, <2>1 DEF CallerInv, ReadInv, Inserted, Creating, Exists
  <2>3. ~(Storing(d) /\ Completes(d))
    BY <1>0, <1>4, <2>1 DEF CallerInv, ReadInv
  <2> QED
    BY <1>6, <2>1, <2>2, <2>3
<1>7. PICK l \in locks[d] :
        /\ l.mode \in {"S", "X"}
        /\ \/ l.row = <<"result", h.result>>
           \/ l.row = <<"inspection", h.inspection>>
        /\ \/ l.mode = "X"
           \/ \E e \in Callers : \E k \in Wants(e) : k.mode = "X" /\ k.row = l.row
  <2>1. ~IsAt(c, "insert")
    BY DEF IsAt
  <2>2. \A k \in Wants(c) :
          /\ k.mode = "S"
          /\ k.row = <<"result", h.result>> \/ k.row = <<"inspection", h.inspection>>
    <3>1. /\ Shared("result", h.result).mode = "S"
          /\ Shared("result", h.result).row = <<"result", h.result>>
          /\ Shared("inspection", h.inspection).mode = "S"
          /\ Shared("inspection", h.inspection).row = <<"inspection", h.inspection>>
      BY LockFields
    <3> QED
      BY <1>2, <3>1
  <2>3. \A k \in Wants(c) : \A x \in locks[d] : Conflict(k, x) => x.mode = "X"
    BY <2>2 DEF Conflict
  <2>4. PICK l \in locks[d], k \in Wants(c) : Stops(l, k, c)
    BY <2>1, WaitsForRow
  <2>5. /\ l.mode \in {"S", "X"}
        /\ l.row = <<"result", h.result>> \/ l.row = <<"inspection", h.inspection>>
    BY <2>2, <2>4 DEF Stops
  <2>6. \/ l.mode = "X"
        \/ \E e \in Callers : \E m \in Wants(e) : m.mode = "X" /\ m.row = l.row
    BY <2>3, <2>4 DEF Stops
  <2> QED
    BY <2>5, <2>6
<1>8. /\ l.mode = "S" /\ Inserted(d) /\ Storing(d)
      /\ tx[d].req.inspection = h.inspection /\ l.row = <<"inspection", h.inspection>>
  BY <1>5, <1>6, <1>7
<1>9. PICK e \in Callers : \E k \in Wants(e) :
        k.mode = "X" /\ k.row = <<"inspection", h.inspection>>
  BY <1>7, <1>8
<1>10. IsAt(e, "complete") /\ tx[e].req.inspection = h.inspection
  <2> DEFINE p == tx[e].req
  <2>1. PICK k \in Wants(e) : k.mode = "X" /\ k.row = <<"inspection", h.inspection>>
    BY <1>9
  <2>2. CASE IsAt(e, "insert")
    <3>1. ~Met(e) /\ k \in NewRow(p) \cup {Shared("inspection", p.inspection)}
      BY <2>1, <2>2, WantsOf
    <3>2. Key(p) = <<"inspection", h.inspection>>
      <4>1. k # Shared("inspection", p.inspection)
        BY <2>1, LockFields
      <4> QED
        BY <2>1, <3>1, <4>1, NewRowFields
    <3>3. p.kind \in {"batch", "inspection", "result"}
      BY <2>2 DEF IntakeInv, CallerInv, KindInv, Writing
    <3>4. p.kind = "inspection" /\ p.inspection = h.inspection
      BY <3>2, <3>3 DEF Key
    <3> QED
      BY <1>4, <3>1, <3>4 DEF Met, Exists
  <2>3. CASE IsAt(e, "complete")
    <3>1. k = Exclusive("inspection", p.inspection)
      BY <2>1, <2>3, WantsOf
    <3> QED
      BY <2>1, <2>3, <3>1 DEF Exclusive
  <2>4. CASE IsAt(e, "lock batch")
    <3>1. k = Exclusive("batch", p.batch)
      BY <2>1, <2>4, WantsOf
    <3> QED
      BY <2>1, <3>1 DEF Exclusive
  <2>5. CASE ~IsAt(e, "insert") /\ ~IsAt(e, "complete") /\ ~IsAt(e, "lock batch")
    <3>1. Wants(e) \subseteq {[mode |-> "S", row |-> Key(p)],
            Shared("inspection", p.hold.inspection), Shared("result", p.hold.result),
            Shared("batch", tx[e].batch), Shared("inspection", p.inspection)}
      BY <2>5 DEF Wants, ResultWants
    <3>2. /\ [mode |-> "S", row |-> Key(p)].mode = "S"
          /\ Shared("inspection", p.hold.inspection).mode = "S"
          /\ Shared("result", p.hold.result).mode = "S"
          /\ Shared("batch", tx[e].batch).mode = "S"
          /\ Shared("inspection", p.inspection).mode = "S"
      BY LockFields
    <3> QED
      BY <2>1, <3>1, <3>2
  <2> QED
    BY <2>2, <2>3, <2>4, <2>5
<1>11. tx[d].batch = q.batch
  BY <1>0, <1>4, <1>8 DEF CallerInv, ReadInv
<1> QED
  BY <1>8, <1>10, <1>11 DEF HoldMeetsResults, Inserted

\* A group of callers, of whatever size, that all wait for each other has one of
\* the three causes.  Otherwise no member holds a batch, so none that opens an
\* incident waits; then none that met its key waits, none that inserts and none
\* that completes an inspection.
THEOREM DeadlocksHaveThreeCauses == Spec => []DeadlocksExplained
<1>1. ASSUME IntakeInv, NEW group \in (SUBSET Callers) \ {{}}, Deadlocked(group),
             \A c \in group : ~CreatesExisting(c),
             \A c \in group : \A d \in group \ {c} :
               ~BothFreed(c, d) /\ ~HoldMeetsResults(c, d)
      PROVE  FALSE
  <2>0. \A c \in group : c \in Callers /\ \E d \in group \ {c} : MayWaitFor(c, d)
    BY <1>1 DEF Deadlocked, MayWaitFor
  <2>1. \A c \in group : \/ IsAt(c, "lock batch") \/ IsAt(c, "write hold")
                         \/ IsAt(c, "complete") \/ IsAt(c, "duplicate")
                         \/ IsAt(c, "open incident")
                         \/ IsAt(c, "insert") /\ ~Met(c)
    BY <2>0, Waiting
  <2>2. \A c \in group : ~IsAt(c, "commit") /\ ~IsAt(c, "evidence")
    BY <2>1 DEF IsAt
  <2>3. \A c \in group : ~IsAt(c, "write hold")
    BY <1>1, <2>0, <2>2, HoldWaits
  <2>4. \A c \in group : ~(IsAt(c, "duplicate") /\ Creating(c))
    BY <1>1, <2>0, <2>2, DuplicateWaits
  <2>5. \A c \in group : IsAt(c, "insert") => \E d \in group \ {c} :
          \/ /\ Writing(d) /\ tx[d].req.kind = tx[c].req.kind
             /\ \E l \in locks[d] : l.mode = "Gap"
          \/ Inserted(d) /\ ~Creating(c)
    BY <1>1, <2>0, <2>1, InsertWaits DEF IsAt
  <2>6. ASSUME NEW c \in group, NEW d \in group \ {c}, IsAt(c, "insert"), IsAt(d, "insert"),
               tx[c].req.kind = tx[d].req.kind,
               \E l \in locks[c] : l.mode = "Gap", \E l \in locks[d] : l.mode = "Gap"
        PROVE  FALSE
    BY <1>1, <2>6 DEF BothFreed
  <2>7. \A c \in group : ~(IsAt(c, "insert") /\ Creating(c))
    <3>1. SUFFICES ASSUME NEW a \in group, IsAt(a, "insert"), Creating(a) PROVE FALSE
      OBVIOUS
    <3>2. ASSUME NEW c \in group, IsAt(c, "insert"), Creating(c)
          PROVE  \E d \in group \ {c} :
                   /\ IsAt(d, "insert") /\ Creating(d)
                   /\ \E l \in locks[d] : l.mode = "Gap"
      <4>1. PICK d \in group \ {c} :
              /\ Writing(d) /\ tx[d].req.kind = tx[c].req.kind
              /\ \E l \in locks[d] : l.mode = "Gap"
        BY <2>5, <3>2
      <4>2. Creating(d) /\ ~IsAt(d, "open incident")
        BY <1>1, <2>0, <3>2, <4>1 DEF Creating, IntakeInv, CallerInv, KindInv
      <4>3. IsAt(d, "insert")
        BY <2>2, <2>4, <4>1, <4>2 DEF Writing
      <4> QED
        BY <4>1, <4>2, <4>3
    <3>3. PICK c \in group :
            IsAt(c, "insert") /\ Creating(c) /\ \E l \in locks[c] : l.mode = "Gap"
      BY <3>1, <3>2
    <3>4. PICK d \in group \ {c} :
            IsAt(d, "insert") /\ Creating(d) /\ \E l \in locks[d] : l.mode = "Gap"
      BY <3>2, <3>3
    <3> QED
      BY <2>6, <3>3, <3>4 DEF Creating
  <2>8. \A c \in group : ~HoldsBatch(c)
    <3>1. ASSUME NEW c \in group PROVE ~(IsAt(c, "open incident") /\ Creating(c))
      BY <1>1, <2>0, <3>1 DEF Creating, IntakeInv, CallerInv, KindInv
    <3> QED
      BY <2>2, <2>3, <2>4, <2>7, <3>1 DEF HoldsBatch, Holding, Creating, Writing
  <2>9. \A c \in group : ~IsAt(c, "open incident")
    BY <1>1, <2>0, <2>2, <2>8, OpenIncidentWaits
  <2>10. \A c \in group : ~Inserted(c)
    BY <2>2, <2>9 DEF Inserted
  <2>11. \A c \in group : ~IsAt(c, "duplicate")
    BY <1>1, <2>0, <2>2, <2>8, <2>10, DuplicateWaits
  <2>12. \A c \in group : ~IsAt(c, "insert")
    <3>1. ASSUME NEW c \in group, IsAt(c, "insert")
          PROVE  \E d \in group \ {c} :
                   /\ IsAt(d, "insert") /\ tx[d].req.kind = tx[c].req.kind
                   /\ \E l \in locks[d] : l.mode = "Gap"
      BY <2>2, <2>5, <2>9, <2>10, <2>11, <3>1 DEF Writing
    <3>2. SUFFICES ASSUME NEW a \in group, IsAt(a, "insert") PROVE FALSE
      OBVIOUS
    <3>3. PICK c \in group : IsAt(c, "insert") /\ \E l \in locks[c] : l.mode = "Gap"
      BY <3>1, <3>2
    <3>4. PICK d \in group \ {c} :
            /\ IsAt(d, "insert") /\ tx[d].req.kind = tx[c].req.kind
            /\ \E l \in locks[d] : l.mode = "Gap"
      BY <3>1, <3>3
    <3> QED
      BY <2>6, <3>3, <3>4
  <2>13. \A c \in group : ~Writing(c) /\ ~Storing(c)
    BY <2>2, <2>9, <2>11, <2>12 DEF Writing, Storing
  <2>14. \A c \in group : ~IsAt(c, "complete")
    BY <1>1, <2>0, <2>2, <2>13, CompleteWaits
  <2>15. \A c \in group : ~IsAt(c, "lock batch")
    BY <1>1, <2>0, <2>2, <2>8, LockBatchWaits
  <2> QED
    BY <1>1, <2>1, <2>3, <2>9, <2>11, <2>12, <2>14, <2>15
<1>2. IntakeInv => DeadlocksExplained
  BY <1>1 DEF DeadlocksExplained
<1> QED
  BY <1>2, IntakeInvariance, PTL
=============================================================================
