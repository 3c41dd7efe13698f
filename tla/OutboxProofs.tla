----------------------------- MODULE OutboxProofs -----------------------------
(***************************************************************************)
(* PublishedIsDelivered and DuplicatesExplained for any number of          *)
(* publishers, events and faults.                                          *)
(***************************************************************************)
EXTENDS OutboxPublisher, FiniteSetTheorems, TLAPS

\* The event a round is at is unique: events are ordered.
LEMMA AtOneEvent ==
  ASSUME NEW p, NEW d \in Events, NEW e \in Events,
         IsAt(p, d), IsAt(p, e)
  PROVE  d = e
BY EventAssumption DEF IsAt

\* Going on with the round leaves no event to mark.
LEMMA ContinueFacts ==
  ASSUME NEW p \in Publishers, NEW e \in Events, TypeOK, Continue(p, e)
  PROVE  /\ pc' \in [Publishers -> {"idle", "send", "wait", "mark", "down"}]
         /\ batch' \in [Publishers -> SUBSET Events]
         /\ pc'[p] # "mark"
         /\ \A q \in Publishers \ {p} : pc'[q] = pc[q] /\ batch'[q] = batch[q]
BY DEF TypeOK, Continue, Goto

\* Initially no row exists.
LEMMA InitInv == Init => PublisherInv
BY BoundAssumption
   DEF Init, PublisherInv, TypeOK, PublishedIsDelivered

\* Every step keeps the invariant: records are never removed from the topic, so
\* only the steps that set a row or enter "mark" have something to show.
LEMMA StepInv == PublisherInv /\ [Next]_vars => PublisherInv'
<1> SUFFICES ASSUME PublisherInv, [Next]_vars PROVE PublisherInv'
  OBVIOUS
<1> USE DEF PublisherInv
<1>1. CASE UNCHANGED vars
  BY <1>1 DEF vars, TypeOK, PublishedIsDelivered, IsAt
<1>2. ASSUME NEW e \in Events, Insert(e) PROVE PublisherInv'
  BY <1>2 DEF Insert, TypeOK, PublishedIsDelivered, IsAt
<1>3. ASSUME NEW e \in Events, LateArrival(e) PROVE PublisherInv'
  <2>1. TypeOK'
    BY <1>3 DEF LateArrival, TypeOK
  <2>2. \A d \in Events : copies[d] > 0 => copies'[d] > 0
    BY <1>3 DEF LateArrival, TypeOK
  <2>3. QED
    BY <1>3, <2>1, <2>2 DEF LateArrival, PublishedIsDelivered, IsAt
<1>4. ASSUME NEW p \in Publishers, Select(p) PROVE PublisherInv'
  BY <1>4 DEF Select, Goto, Selection, Publishable, TypeOK,
              PublishedIsDelivered, IsAt
<1>5. ASSUME NEW p \in Publishers, Send(p) PROVE PublisherInv'
  BY <1>5 DEF Send, Goto, TypeOK, PublishedIsDelivered, IsAt
<1>6. ASSUME NEW p \in Publishers, Acknowledge(p) PROVE PublisherInv'
  <2>1. PICK e \in Events \ Unroutable :
          IsAt(p, e) /\ copies' = [copies EXCEPT ![e] = @ + 1]
    BY <1>6 DEF Acknowledge
  <2>2. TypeOK'
    BY <1>6, <2>1 DEF Acknowledge, Goto, TypeOK
  <2>3. \A d \in Events : copies[d] > 0 => copies'[d] > 0
    BY <2>1 DEF TypeOK
  <2>4. copies'[e] > 0
    BY <2>1 DEF TypeOK
  <2>5. \A d \in Events : IsAt(p, d) => d = e
    BY <2>1, AtOneEvent
  <2>6. \A q \in Publishers, d \in Events :
          (pc[q] = "mark" /\ IsAt(q, d) => copies[d] > 0)
            => (pc'[q] = "mark" /\ IsAt(q, d)' => copies'[d] > 0)
    BY <1>6, <2>3, <2>4, <2>5 DEF Acknowledge, Goto, TypeOK, IsAt
  <2>7. QED
    BY <1>6, <2>2, <2>3, <2>6 DEF Acknowledge, PublishedIsDelivered
<1>7. ASSUME NEW p \in Publishers, SendFails(p) PROVE PublisherInv'
  <2>1. PICK e \in Events : Continue(p, e)
    BY <1>7 DEF SendFails, AfterFailedSend
  <2>2. TypeOK'
    <3>1. late' \in [Events -> Nat] /\ faults' \in 0..MaxFaults
      BY <1>7, BoundAssumption DEF SendFails, Fault, TypeOK
    <3>2. QED
      BY <1>7, <2>1, <3>1, ContinueFacts DEF SendFails, TypeOK
  <2>3. QED
    BY <1>7, <2>1, <2>2, ContinueFacts
       DEF SendFails, PublishedIsDelivered, IsAt
<1>8. ASSUME NEW p \in Publishers, Mark(p) PROVE PublisherInv'
  <2>1. PICK e \in Events :
          /\ IsAt(p, e)
          /\ IF status[e] = "PENDING" THEN MarkPublished(e)
                                      ELSE UNCHANGED status
          /\ Continue(p, e)
    BY <1>8 DEF Mark
  <2>2. copies[e] > 0
    BY <1>8, <2>1 DEF Mark
  <2>3. TypeOK'
    BY <1>8, <2>1, ContinueFacts DEF Mark, MarkPublished, TypeOK
  <2>4. PublishedIsDelivered'
    BY <1>8, <2>1, <2>2 DEF Mark, MarkPublished, PublishedIsDelivered, TypeOK
  <2>5. QED
    BY <1>8, <2>1, <2>3, <2>4, ContinueFacts DEF Mark, IsAt
<1>9. ASSUME NEW p \in Publishers, MarkFails(p) PROVE PublisherInv'
  <2>1. PICK e \in Events :
          /\ IsAt(p, e)
          /\ UNCHANGED status \/ (status[e] = "PENDING" /\ MarkPublished(e))
          /\ Continue(p, e)
    BY <1>9 DEF MarkFails
  <2>2. copies[e] > 0
    BY <1>9, <2>1 DEF MarkFails
  <2>3. TypeOK'
    BY <1>9, <2>1, ContinueFacts, BoundAssumption
       DEF MarkFails, Fault, MarkPublished, TypeOK
  <2>4. PublishedIsDelivered'
    BY <1>9, <2>1, <2>2 DEF MarkFails, MarkPublished, PublishedIsDelivered, TypeOK
  <2>5. QED
    BY <1>9, <2>1, <2>3, <2>4, ContinueFacts DEF MarkFails, IsAt
<1>10. ASSUME NEW p \in Publishers, Crash(p) PROVE PublisherInv'
  <2>1. late' \in [Events -> Nat]
    BY <1>10 DEF Crash, TypeOK
  <2>2. TypeOK'
    BY <1>10, <2>1, BoundAssumption DEF Crash, Goto, Fault, TypeOK
  <2>3. QED
    BY <1>10, <2>2 DEF Crash, Goto, TypeOK, PublishedIsDelivered, IsAt
<1>11. ASSUME NEW p \in Publishers, Restart(p) PROVE PublisherInv'
  BY <1>11 DEF Restart, Goto, TypeOK, PublishedIsDelivered, IsAt
<1>12. QED
  BY <1>1, <1>2, <1>3, <1>4, <1>5, <1>6, <1>7, <1>8, <1>9, <1>10, <1>11
     DEF Next, Round

\* The invariant holds of every behaviour: a publisher that marks a row has had
\* its record acknowledged, with any number of publishers and faults.
THEOREM PublisherInvariance == Spec => []PublisherInv
<1>1. Init => PublisherInv
  BY InitInv
<1>2. PublisherInv /\ [Next]_vars => PublisherInv'
  BY StepInv
<1>3. QED
  BY <1>1, <1>2, PTL DEF Spec

\* At least once: a row is never PUBLISHED without its record in the topic.
THEOREM NothingForgotten == Spec => []PublishedIsDelivered
<1>1. PublisherInv => PublishedIsDelivered
  BY DEF PublisherInv
<1>2. QED
  BY <1>1, PublisherInvariance, PTL

-----------------------------------------------------------------------------
\* Duplicates

\* The publishers whose one record of e is accounted for: they have it
\* acknowledged and are about to mark e, or e is marked and their round has no
\* send of it ahead.
Marking(p, e) == pc[p] = "mark" /\ IsAt(p, e)
Spent(e) ==
  {p \in Publishers :
     Marking(p, e) \/ (status[e] = "PUBLISHED" /\ e \notin batch[p])}

\* Each record of an event is owed to a publisher of Spent or to a fault.
DuplicatesInv ==
  /\ \A p \in Publishers : \A e \in batch[p] : status[e] # "none"
  /\ \A e \in Events : copies[e] + late[e] <= Cardinality(Spent(e)) + faults

\* Counting publishers.
LEMMA Counted ==
  ASSUME NEW S \in SUBSET Publishers, NEW T \in SUBSET Publishers
  PROVE  /\ Cardinality(S) \in Nat /\ Cardinality(T) \in Nat
         /\ Cardinality(S) <= Cardinality(Publishers)
         /\ Cardinality(Publishers) \in Nat
         /\ S \subseteq T => Cardinality(S) <= Cardinality(T)
         /\ \A p \in Publishers : S \ {p} \subseteq T =>
              Cardinality(S) <= Cardinality(T) + 1
         /\ \A p \in T \ S : S \subseteq T => Cardinality(S) + 1 <= Cardinality(T)
<1>1. IsFiniteSet(S) /\ IsFiniteSet(T) /\ Cardinality(S) <= Cardinality(Publishers)
  BY PublisherAssumption, FS_Subset
<1>2. /\ Cardinality(S) \in Nat /\ Cardinality(T) \in Nat
      /\ Cardinality(Publishers) \in Nat
  BY <1>1, PublisherAssumption, FS_CardinalityType
<1>3. \A U \in SUBSET T : Cardinality(U) <= Cardinality(T)
  BY <1>1, FS_Subset
<1>4. ASSUME NEW p \in Publishers, S \ {p} \subseteq T
      PROVE  Cardinality(S) <= Cardinality(T) + 1
  <2>1. Cardinality(S \ {p}) = IF p \in S THEN Cardinality(S) - 1 ELSE Cardinality(S)
    BY <1>1, FS_RemoveElement
  <2>2. Cardinality(S \ {p}) <= Cardinality(T)
    BY <1>3, <1>4
  <2> QED
    BY <1>2, <2>1, <2>2
<1>5. ASSUME NEW p \in T \ S, S \subseteq T
      PROVE  Cardinality(S) + 1 <= Cardinality(T)
  <2>1. Cardinality(S \cup {p}) = Cardinality(S) + 1
    BY <1>1, <1>5, FS_AddElement
  <2>2. Cardinality(S \cup {p}) <= Cardinality(T)
    BY <1>3, <1>5
  <2> QED
    BY <2>1, <2>2
<1> QED
  BY <1>1, <1>2, <1>3, <1>4, <1>5

\* The step of one publisher keeps the others in Spent.
LEMMA OthersSpent ==
  ASSUME NEW p \in Publishers, NEW e \in Events,
         status[e] = "PUBLISHED" => status'[e] = "PUBLISHED",
         \A q \in Publishers \ {p} : pc'[q] = pc[q] /\ batch'[q] = batch[q]
  PROVE  Spent(e) \ {p} \subseteq Spent(e)'
BY DEF Spent, Marking, IsAt

\* A record more needs a publisher or a fault more, a publisher less a fault.
LEMMA Accounted ==
  ASSUME TypeOK, TypeOK', DuplicatesInv, NEW e \in Events, NEW p \in Publishers,
         Spent(e) \ {p} \subseteq Spent(e)',
         LET records == copies[e] + late[e]
             records2 == copies'[e] + late'[e] IN
         \/ records2 <= records /\ faults' = faults + 1
         \/ records2 <= records /\ faults' = faults /\ (p \in Spent(e) => p \in Spent(e)')
         \/ /\ records2 <= records + 1 /\ faults' = faults + 1
            /\ p \in Spent(e) => p \in Spent(e)'
         \/ /\ records2 <= records + 1 /\ faults' = faults
            /\ p \notin Spent(e) /\ p \in Spent(e)'
  PROVE  copies'[e] + late'[e] <= Cardinality(Spent(e)') + faults'
<1> DEFINE S == Spent(e)
           T == Spent(e)'
<1>1. S \in SUBSET Publishers /\ T \in SUBSET Publishers
  BY DEF Spent
<1>2. /\ copies[e] \in Nat /\ late[e] \in Nat /\ faults \in Nat
      /\ copies'[e] \in Nat /\ late'[e] \in Nat /\ faults' \in Nat
  BY BoundAssumption DEF TypeOK
<1>3. copies[e] + late[e] <= Cardinality(S) + faults
  BY DEF DuplicatesInv
<1>4. S \ {p} \subseteq T
  OBVIOUS
<1>5. (p \in S => p \in T) => S \subseteq T
  BY <1>4
<1> HIDE DEF S, T
<1>6. /\ Cardinality(S) \in Nat /\ Cardinality(T) \in Nat
      /\ S \subseteq T => Cardinality(S) <= Cardinality(T)
      /\ Cardinality(S) <= Cardinality(T) + 1
      /\ p \notin S /\ p \in T => Cardinality(S) + 1 <= Cardinality(T)
  BY <1>1, <1>4, <1>5, Counted
<1>7. copies'[e] + late'[e] <= Cardinality(T) + faults'
  BY <1>2, <1>3, <1>5, <1>6 DEF S, T
<1> QED
  BY <1>7 DEF T

\* A round that goes on from e: its publisher is done with e, marks nothing,
\* and has the other events before it as it had.
LEMMA ContinueSpent ==
  ASSUME TypeOK, NEW p \in Publishers, NEW e \in Events, IsAt(p, e), Continue(p, e),
         NEW d \in Events, status[d] = "PUBLISHED" => status'[d] = "PUBLISHED",
         pc[p] # "mark" \/ d # e \/ status'[e] = "PUBLISHED"
  PROVE  p \in Spent(d) => p \in Spent(d)'
<1>1. batch'[p] = batch[p] \ {e}
  BY DEF Continue, TypeOK
<1>2. Marking(p, d) => d = e /\ pc[p] = "mark"
  BY AtOneEvent DEF Marking
<1> QED
  BY <1>1, <1>2 DEF Spent

\* What a step changes of the publishers is the round of one of them.
LEMMA DuplicatesKept ==
  ASSUME PublisherInv, DuplicatesInv, [Next]_vars
  PROVE  DuplicatesInv'
<1>0. TypeOK /\ TypeOK'
  BY StepInv DEF PublisherInv
<1>1. CASE UNCHANGED vars
  BY <1>1 DEF vars, DuplicatesInv, Spent, Marking, IsAt
<1>2. ASSUME NEW e \in Events, Insert(e) PROVE DuplicatesInv'
  <2>1. \A d \in Events : /\ status[d] = "PUBLISHED" <=> status'[d] = "PUBLISHED"
                          /\ status'[d] = "none" => status[d] = "none"
    BY <1>0, <1>2 DEF Insert, TypeOK
  <2>2. UNCHANGED <<copies, late, pc, batch, faults>>
    BY <1>2 DEF Insert
  <2>3. \A d \in Events : Spent(d)' = Spent(d)
    BY <2>1, <2>2 DEF Spent, Marking, IsAt
  <2>4. \A p \in Publishers : batch[p] \subseteq Events
    BY <1>0 DEF TypeOK
  <2> QED
    BY <2>1, <2>2, <2>3, <2>4 DEF DuplicatesInv
<1>3. ASSUME NEW e \in Events, LateArrival(e) PROVE DuplicatesInv'
  <2>1. \A d \in Events : copies'[d] + late'[d] <= copies[d] + late[d]
    BY <1>0, <1>3 DEF LateArrival, TypeOK
  <2>2. \A d \in Events : Spent(d)' = Spent(d)
    BY <1>3 DEF LateArrival, Spent, Marking, IsAt
  <2>3. \A d \in Events : /\ copies[d] + late[d] \in Nat /\ copies'[d] + late'[d] \in Nat
                          /\ Cardinality(Spent(d)) \in Nat /\ faults \in Nat
    BY <1>0, Counted, BoundAssumption DEF TypeOK, Spent
  <2>4. UNCHANGED <<status, pc, batch, faults>>
    BY <1>3 DEF LateArrival
  <2>5. ASSUME NEW d \in Events
        PROVE  copies'[d] + late'[d] <= Cardinality(Spent(d)') + faults'
    <3>1. copies[d] + late[d] <= Cardinality(Spent(d)) + faults
      BY DEF DuplicatesInv
    <3>2. Cardinality(Spent(d)') = Cardinality(Spent(d)) /\ faults' = faults
      BY <2>2, <2>4
    <3> QED
      BY <2>1, <2>3, <3>1, <3>2
  <2> QED
    BY <2>4, <2>5 DEF DuplicatesInv
<1>4. ASSUME NEW p \in Publishers,
             \A q \in Publishers \ {p} : pc'[q] = pc[q] /\ batch'[q] = batch[q],
             \A d \in Events : /\ status[d] = "PUBLISHED" => status'[d] = "PUBLISHED"
                               /\ status'[d] = "none" => status[d] = "none",
             \A d \in batch'[p] : status[d] # "none",
             \A d \in Events :
               LET records == copies[d] + late[d]
                   records2 == copies'[d] + late'[d] IN
               \/ records2 <= records /\ faults' = faults + 1
               \/ /\ records2 <= records /\ faults' = faults
                  /\ p \in Spent(d) => p \in Spent(d)'
               \/ /\ records2 <= records + 1 /\ faults' = faults + 1
                  /\ p \in Spent(d) => p \in Spent(d)'
               \/ /\ records2 <= records + 1 /\ faults' = faults
                  /\ p \notin Spent(d) /\ p \in Spent(d)'
      PROVE  DuplicatesInv'
  <2>1. \A q \in Publishers : \A d \in batch'[q] : status'[d] # "none"
    BY <1>0, <1>4 DEF DuplicatesInv, TypeOK
  <2>2. ASSUME NEW d \in Events
        PROVE  copies'[d] + late'[d] <= Cardinality(Spent(d)') + faults'
    <3>1. Spent(d) \ {p} \subseteq Spent(d)'
      BY <1>4, OthersSpent
    <3> QED
      BY <1>0, <1>4, <3>1, Accounted
  <2> QED
    BY <2>1, <2>2 DEF DuplicatesInv
<1>5. ASSUME NEW p \in Publishers, UNCHANGED <<status, copies, late, faults>>,
             \A q \in Publishers \ {p} : pc'[q] = pc[q] /\ batch'[q] = batch[q],
             \A d \in batch'[p] : status[d] # "none",
             \A d \in Events : p \in Spent(d) => p \in Spent(d)'
      PROVE  DuplicatesInv'
  <2>1. \A d \in Events : copies'[d] + late'[d] <= copies[d] + late[d]
    BY <1>0, <1>5 DEF TypeOK
  <2> QED
    BY <1>4, <1>5, <2>1
<1>6. ASSUME NEW p \in Publishers, Select(p) PROVE DuplicatesInv'
  <2>1. /\ batch'[p] = Selection /\ pc[p] = "idle"
        /\ \A q \in Publishers \ {p} : pc'[q] = pc[q] /\ batch'[q] = batch[q]
        /\ UNCHANGED <<status, copies, late, faults>>
    BY <1>0, <1>6 DEF Select, Goto, TypeOK
  <2>2. \A d \in Selection : status[d] = "PENDING"
    BY DEF Selection, Publishable
  <2>3. \A d \in Events : p \in Spent(d) => p \in Spent(d)'
    BY <2>1, <2>2 DEF Spent, Marking
  <2> QED
    BY <1>5, <2>1, <2>2, <2>3
<1>7. ASSUME NEW p \in Publishers, Send(p) \/ Restart(p) PROVE DuplicatesInv'
  <2>1. /\ UNCHANGED batch /\ pc[p] # "mark"
        /\ \A q \in Publishers \ {p} : pc'[q] = pc[q]
        /\ UNCHANGED <<status, copies, late, faults>>
    BY <1>0, <1>7 DEF Send, Restart, Goto, TypeOK
  <2>2. \A d \in Events : p \in Spent(d) => p \in Spent(d)'
    BY <2>1 DEF Spent, Marking
  <2>3. \A d \in batch'[p] : status[d] # "none"
    BY <2>1 DEF DuplicatesInv
  <2> QED
    BY <1>5, <2>1, <2>2, <2>3
<1>8. ASSUME NEW p \in Publishers, Acknowledge(p) PROVE DuplicatesInv'
  <2>1. PICK e \in Events \ Unroutable :
          IsAt(p, e) /\ copies' = [copies EXCEPT ![e] = @ + 1]
    BY <1>8 DEF Acknowledge
  <2>2. /\ pc[p] = "wait" /\ pc'[p] = "mark"
        /\ \A q \in Publishers \ {p} : pc'[q] = pc[q]
        /\ UNCHANGED <<status, late, batch, faults>>
    BY <1>0, <1>8 DEF Acknowledge, Goto, TypeOK
  <2>3. /\ p \notin Spent(e) /\ p \in Spent(e)'
        /\ copies'[e] + late'[e] <= copies[e] + late[e] + 1
    BY <1>0, <2>1, <2>2 DEF Spent, Marking, IsAt, TypeOK
  <2>4. ASSUME NEW d \in Events, d # e
        PROVE  /\ copies'[d] + late'[d] <= copies[d] + late[d]
               /\ p \in Spent(d) => p \in Spent(d)'
    BY <1>0, <2>1, <2>2, <2>4 DEF Spent, Marking, TypeOK
  <2>5. \A d \in batch'[p] : status[d] # "none"
    BY <2>2 DEF DuplicatesInv
  <2> QED
    BY <1>4, <2>2, <2>3, <2>4, <2>5
<1>9. ASSUME NEW p \in Publishers, NEW e \in Events, IsAt(p, e), Continue(p, e),
             \A d \in Events : /\ status[d] = "PUBLISHED" => status'[d] = "PUBLISHED"
                               /\ status'[d] = "none" => status[d] = "none",
             UNCHANGED copies,
             \/ faults' = faults + 1 /\ late' = late
             \/ /\ faults' = faults /\ late' = late
                /\ pc[p] # "mark" \/ status'[e] = "PUBLISHED"
             \/ /\ faults' = faults + 1 /\ late' = [late EXCEPT ![e] = @ + 1]
                /\ pc[p] # "mark"
      PROVE  DuplicatesInv'
  <2>1. /\ \A q \in Publishers \ {p} : pc'[q] = pc[q] /\ batch'[q] = batch[q]
        /\ batch'[p] \subseteq batch[p]
    BY <1>0, <1>9 DEF Continue, Goto, TypeOK
  <2>2. \A d \in batch'[p] : status[d] # "none"
    BY <2>1 DEF DuplicatesInv
  <2>3. ASSUME NEW d \in Events, pc[p] # "mark" \/ status'[e] = "PUBLISHED"
        PROVE  p \in Spent(d) => p \in Spent(d)'
    BY <1>0, <1>9, <2>3, ContinueSpent
  <2>4. ASSUME NEW d \in Events
        PROVE  /\ late' = late => copies'[d] + late'[d] <= copies[d] + late[d]
               /\ late' = [late EXCEPT ![e] = @ + 1] =>
                    copies'[d] + late'[d] <= copies[d] + late[d] + 1
    BY <1>0, <1>9 DEF TypeOK
  <2> QED
    BY <1>4, <1>9, <2>1, <2>2, <2>3, <2>4
<1>10. ASSUME NEW p \in Publishers, SendFails(p) PROVE DuplicatesInv'
  <2>1. PICK e \in Events :
          /\ IsAt(p, e) /\ Continue(p, e)
          /\ \/ e \in Unroutable /\ UNCHANGED <<late, faults>>
             \/ e \notin Unroutable /\ Fault
                  /\ (UNCHANGED late \/ late' = [late EXCEPT ![e] = @ + 1])
    BY <1>10 DEF SendFails, AfterFailedSend
  <2>2. pc[p] = "wait" /\ UNCHANGED <<status, copies>>
    BY <1>10 DEF SendFails
  <2> QED
    BY <1>9, <2>1, <2>2 DEF Fault
<1>11. ASSUME NEW p \in Publishers, Mark(p) PROVE DuplicatesInv'
  <2>1. PICK e \in Events :
          /\ IsAt(p, e) /\ Continue(p, e)
          /\ IF status[e] = "PENDING" THEN MarkPublished(e) ELSE UNCHANGED status
    BY <1>11 DEF Mark
  <2>2. /\ \A d \in Events : /\ status[d] = "PUBLISHED" => status'[d] = "PUBLISHED"
                             /\ status'[d] = "none" => status[d] = "none"
        /\ UNCHANGED <<copies, late, faults>>
    BY <1>0, <1>11, <2>1 DEF Mark, MarkPublished, TypeOK
  <2>3. status'[e] = "PUBLISHED"
    BY <1>0, <2>1 DEF MarkPublished, DuplicatesInv, IsAt, TypeOK
  <2> QED
    BY <1>9, <2>1, <2>2, <2>3
<1>12. ASSUME NEW p \in Publishers, MarkFails(p) PROVE DuplicatesInv'
  <2>1. PICK e \in Events :
          /\ IsAt(p, e) /\ Continue(p, e)
          /\ UNCHANGED status \/ (status[e] = "PENDING" /\ MarkPublished(e))
    BY <1>12 DEF MarkFails
  <2>2. /\ \A d \in Events : /\ status[d] = "PUBLISHED" => status'[d] = "PUBLISHED"
                             /\ status'[d] = "none" => status[d] = "none"
        /\ UNCHANGED <<copies, late>> /\ faults' = faults + 1
    BY <1>0, <1>12, <2>1 DEF MarkFails, MarkPublished, Fault, TypeOK
  <2> QED
    BY <1>9, <2>1, <2>2
<1>13. ASSUME NEW p \in Publishers, Crash(p) PROVE DuplicatesInv'
  <2>1. /\ batch'[p] = {} /\ faults' = faults + 1 /\ UNCHANGED <<status, copies>>
        /\ \A q \in Publishers \ {p} : pc'[q] = pc[q] /\ batch'[q] = batch[q]
    BY <1>0, <1>13 DEF Crash, Goto, Fault, TypeOK
  <2>2. CASE UNCHANGED late
    <3>1. \A d \in Events : copies'[d] + late'[d] <= copies[d] + late[d]
      BY <1>0, <2>1, <2>2 DEF TypeOK
    <3> QED
      BY <1>4, <2>1, <3>1
  <2>3. CASE pc[p] = "wait" /\ \E e \in Events : late' = [late EXCEPT ![e] = @ + 1]
    <3>1. \A d \in Events : copies'[d] + late'[d] <= copies[d] + late[d] + 1
      BY <1>0, <2>1, <2>3 DEF TypeOK
    <3>2. \A d \in Events : p \in Spent(d) => p \in Spent(d)'
      BY <2>1, <2>3 DEF Spent, Marking
    <3> QED
      BY <1>4, <2>1, <3>1, <3>2
  <2> QED
    BY <1>13, <2>2, <2>3 DEF Crash
<1> QED
  BY <1>1, <1>2, <1>3, <1>6, <1>7, <1>8, <1>10, <1>11, <1>12, <1>13 DEF Next, Round

LEMMA DuplicatesInit == Init => DuplicatesInv
<1> SUFFICES ASSUME Init PROVE DuplicatesInv
  OBVIOUS
<1>1. \A e \in Events : Cardinality(Spent(e)) \in Nat
  BY Counted DEF Spent
<1> QED
  BY <1>1 DEF Init, DuplicatesInv

\* Without faults each publisher sends an event at most once, and each fault
\* accounts for at most one more record, for any number of publishers.
THEOREM DuplicatesHaveCauses == Spec => []DuplicatesExplained
<1>1. Init => DuplicatesInv
  BY DuplicatesInit
<1>2. PublisherInv /\ DuplicatesInv /\ [Next]_vars => DuplicatesInv'
  BY DuplicatesKept
<1>3. PublisherInv /\ DuplicatesInv => DuplicatesExplained
  <2> SUFFICES ASSUME PublisherInv, DuplicatesInv, NEW e \in Events
               PROVE  copies[e] + late[e] <= Cardinality(Publishers) + faults
    BY DEF DuplicatesExplained
  <2>1. copies[e] + late[e] <= Cardinality(Spent(e)) + faults
    BY DEF DuplicatesInv
  <2>2. /\ Cardinality(Spent(e)) \in Nat /\ Cardinality(Publishers) \in Nat
        /\ Cardinality(Spent(e)) <= Cardinality(Publishers)
    BY Counted DEF Spent
  <2>3. copies[e] \in Nat /\ late[e] \in Nat /\ faults \in Nat
    BY BoundAssumption DEF PublisherInv, TypeOK
  <2> QED
    BY <2>1, <2>2, <2>3
<1> QED
  BY <1>1, <1>2, <1>3, PublisherInvariance, PTL DEF Spec
=============================================================================
