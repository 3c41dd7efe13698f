-------------------------- MODULE EventTrustProofs --------------------------
(***************************************************************************)
(* Proofs about EventIngress that relate its tables: the evidence never    *)
(* contradicts itself, whatever the seek does, and the ingress implements  *)
(* EventTrust as long as a seek of an assigned partition succeeds.         *)
(***************************************************************************)
EXTENDS EventIngressProofs

\* What a step of the ingress may do to the tables and to the offset: one
\* append, one transaction, one commit, or nothing.
InboxStep == \E c \in Consumers :
  pc[c] = "accept" /\ InboxTransaction(cur[c]) /\ UNCHANGED <<log, committed, runs>>
RunStep == \E c \in Consumers :
  pc[c] = "insert" /\ RunTransaction(c)
    /\ UNCHANGED <<log, committed, inbox, rejections>>
CommitStep == \E c \in Consumers :
  pc[c] = "commit" /\ committed' = cur[c] + 1 /\ UNCHANGED <<log, tables>>

LEMMA StepKinds ==
  ASSUME [Next]_vars
  PROVE  \/ UNCHANGED <<log, committed, tables>>
         \/ Produce \/ InboxStep \/ RunStep \/ CommitStep
<1>1. CASE UNCHANGED vars
  BY <1>1 DEF vars, tables
<1>2. ASSUME NEW c \in Consumers,
             Assign(c) \/ Poll(c) \/ FindRun(c) \/ Seek(c) \/ Crash(c) \/ Restart(c)
      PROVE  UNCHANGED <<log, committed, tables>>
  BY <1>2, Zenon DEF Assign, Poll, FindRun, Seek, Crash, Restart, kafka
<1>3. ASSUME NEW c \in Consumers, Accept(c)
      PROVE  InboxStep
  BY <1>3 DEF Accept, InboxStep, kafka
<1>4. ASSUME NEW c \in Consumers, InsertRun(c)
      PROVE  RunStep
  BY <1>4 DEF InsertRun, RunStep, kafka
<1>5. ASSUME NEW c \in Consumers, Commit(c)
      PROVE  CommitStep
  BY <1>5 DEF Commit, CommitStep
<1>6. ASSUME NEW c \in Consumers, DatabaseFault(c)
      PROVE  UNCHANGED <<log, committed, tables>> \/ InboxStep \/ RunStep
  BY <1>6 DEF DatabaseFault, InboxStep, RunStep, kafka, tables
<1>7. ASSUME NEW c \in Consumers, CommitFault(c)
      PROVE  UNCHANGED <<log, committed, tables>> \/ CommitStep
  BY <1>7 DEF CommitFault, CommitStep
<1> QED
  BY <1>1, <1>2, <1>3, <1>4, <1>5, <1>6, <1>7 DEF Next, WorkerStep

-----------------------------------------------------------------------------
\* Evidence

\* A refusal of the record at position i would be justified.
Refusable(i) ==
  log[i] # Poison =>
    /\ inbox[log[i].event] # None
    /\ inbox[log[i].event].content # log[i].content

\* EvidenceConsistent is not inductive: that a rejected record is not trusted
\* stays true because another content of its event is, and the source of an
\* Inbox row is not rejected because the row is the record.
EvidenceInv ==
  /\ \A i \in rejections : i \in 1..Len(log) /\ Refusable(i)
  /\ \A e \in Events : inbox[e] # None =>
       /\ inbox[e].source \in 1..Len(log)
       /\ log[inbox[e].source] = [event |-> e, content |-> inbox[e].content]
  /\ \A r \in RunIds : runs[r] # None => inbox[runs[r].trigger] # None

LEMMA RefusableStable ==
  ASSUME TypeOK, Grows, NEW i \in 1..Len(log), Refusable(i)
  PROVE  Refusable(i)'
<1>1. log'[i] = log[i] /\ log[i] \in Message \cup {Poison}
  BY DEF Grows, TypeOK
<1>2. log[i] # Poison => log[i].event \in Events
  BY <1>1 DEF Message
<1> QED
  BY <1>1, <1>2 DEF Refusable, Grows

LEMMA StepEvidence ==
  ASSUME RecordInv, EvidenceInv, [Next]_vars
  PROVE  EvidenceInv'
<1>1. TypeOK /\ TypeOK' /\ Grows
  BY StepTypeGrows DEF RecordInv
<1>2. /\ Len(log) \in Nat /\ Len(log') \in Nat /\ Len(log) <= Len(log')
      /\ \A i \in 1..Len(log) : log'[i] = log[i]
  BY <1>1 DEF TypeOK, Grows
<1>3. ASSUME NEW i \in rejections
      PROVE  i \in 1..Len(log') /\ Refusable(i)'
  BY <1>1, <1>2, <1>3, RefusableStable DEF EvidenceInv
<1>4. ASSUME NEW e \in Events, inbox[e] # None
      PROVE  /\ inbox'[e].source \in 1..Len(log')
             /\ log'[inbox'[e].source] = [event |-> e, content |-> inbox'[e].content]
  BY <1>1, <1>2, <1>4 DEF EvidenceInv, Grows
<1>5. ASSUME NEW r \in RunIds, runs[r] # None
      PROVE  inbox'[runs'[r].trigger] # None
  <2>1. runs'[r] = runs[r] /\ runs[r].trigger \in Events
    BY <1>1, <1>5 DEF Grows, TypeOK, RunRow
  <2> QED
    BY <1>1, <1>5, <2>1 DEF EvidenceInv, Grows
<1>6. CASE UNCHANGED tables
  BY <1>3, <1>4, <1>5, <1>6 DEF EvidenceInv, tables
<1>7. CASE InboxStep
  <2>1. PICK c \in Consumers :
          pc[c] = "accept" /\ InboxTransaction(cur[c]) /\ UNCHANGED <<log, runs>>
    BY <1>7 DEF InboxStep
  <2>2. PICK i \in 1..Len(log) : i = cur[c] /\ log[i] \in Message \cup {Poison}
    <3>1. cur[c] \in 1..Len(log)
      BY <2>1 DEF RecordInv, HoldsRecord, Busy
    <3> QED
      BY <1>1, <3>1 DEF TypeOK
  <2>3. rejections' \subseteq rejections \cup {i}
    BY <1>1, <2>1, <2>2, InboxTransactionEffect
  <2>4. CASE i \in rejections'
    <3>1. Refusable(i) /\ UNCHANGED inbox
      BY <2>1, <2>2, <2>4 DEF InboxTransaction, Refusable, Trusted, EvidenceInv
    <3>2. Refusable(i)'
      BY <1>1, <1>3, <2>2, <3>1, RefusableStable
    <3>3. \A j \in rejections' : j \in 1..Len(log') /\ Refusable(j)'
      BY <1>3, <2>1, <2>2, <2>3, <3>2
    <3>4. \A e \in Events : inbox'[e] # None => inbox[e] # None
      BY <3>1
    <3> QED
      BY <1>4, <1>5, <2>1, <3>3, <3>4 DEF EvidenceInv
  <2>5. CASE i \notin rejections'
    <3>1. \A j \in rejections' : j \in 1..Len(log') /\ Refusable(j)'
      BY <1>3, <2>3, <2>5
    <3>2. ASSUME NEW e \in Events, inbox[e] = None, inbox'[e] # None
          PROVE  /\ log[i] = [event |-> e, content |-> log[i].content]
                 /\ inbox'[e] = [content |-> log[i].content, source |-> i]
      <4>1. /\ log[i] # Poison /\ inbox[log[i].event] = None
            /\ Accepts(log[i].event, i)
        BY <2>1, <2>2, <3>2 DEF InboxTransaction
      <4>2. log[i] = [event |-> log[i].event, content |-> log[i].content]
        BY <2>2, <4>1 DEF Message
      <4>3. e = log[i].event
        BY <1>1, <3>2, <4>1 DEF Accepts, TypeOK
      <4>4. inbox'[e] = [content |-> log[i].content, source |-> i]
        BY <1>1, <4>1, <4>3 DEF Accepts, TypeOK
      <4> QED
        BY <4>2, <4>3, <4>4
    <3>3. ASSUME NEW e \in Events, inbox'[e] # None
          PROVE  /\ inbox'[e].source \in 1..Len(log')
                 /\ log'[inbox'[e].source] = [event |-> e, content |-> inbox'[e].content]
      <4>1. CASE inbox[e] # None
        BY <1>4, <4>1
      <4>2. CASE inbox[e] = None
        <5>1. /\ log[i] = [event |-> e, content |-> log[i].content]
              /\ inbox'[e] = [content |-> log[i].content, source |-> i]
          BY <3>2, <3>3, <4>2
        <5>2. inbox'[e].source = i /\ inbox'[e].content = log[i].content
          BY <5>1
        <5> QED
          BY <1>2, <2>1, <5>1, <5>2
      <4> QED
        BY <4>1, <4>2
    <3> QED
      BY <1>5, <2>1, <3>1, <3>3 DEF EvidenceInv
  <2> QED
    BY <2>4, <2>5
<1>8. CASE RunStep
  <2>1. PICK c \in Consumers :
          pc[c] = "insert" /\ RunTransaction(c) /\ UNCHANGED <<log, inbox, rejections>>
    BY <1>8 DEF RunStep
  <2> DEFINE e == log[cur[c]].event
  <2>2. inbox[e] # None
    BY <2>1 DEF RecordInv, HoldsRecord, Trusted
  <2>3. ASSUME NEW r \in RunIds, runs'[r] # None
        PROVE  inbox'[runs'[r].trigger] # None
    <3>1. runs[r] # None \/ runs'[r].trigger = e
      BY <1>1, <2>1, <2>3 DEF RunTransaction, TypeOK
    <3> QED
      BY <1>5, <2>1, <2>2, <2>3, <3>1
  <2> QED
    BY <1>3, <1>4, <2>1, <2>3 DEF EvidenceInv
<1> QED
  BY <1>6, <1>7, <1>8, StepKinds DEF Produce, CommitStep, tables

LEMMA EvidenceAlways == Spec => [](RecordInv /\ EvidenceInv)
<1>1. Init => RecordInv /\ EvidenceInv
  BY InitRecord DEF Init, EvidenceInv
<1>2. RecordInv /\ EvidenceInv /\ [Next]_vars => (RecordInv /\ EvidenceInv)'
  BY StepRecord, StepEvidence
<1> QED
  BY <1>1, <1>2, PTL DEF Spec

\* MySqlInboxRepository.accept and reject: a position is never both trusted and
\* rejected, whatever redeliveries, lost answers and seeks there are.
THEOREM EvidenceNeverContradicts == Spec => []EvidenceConsistent
<1>1. ASSUME RecordInv, EvidenceInv
      PROVE  EvidenceConsistent
  <2>1. ASSUME NEW i \in rejections
        PROVE  i <= Len(log) /\ ~Trusted(i, inbox)
    BY <1>1 DEF EvidenceInv, Refusable, Trusted
  <2>2. ASSUME NEW e \in Events, inbox[e] # None
        PROVE  inbox[e].source \notin rejections
    <3>1. [event |-> e, content |-> inbox[e].content] \in Message
      BY <1>1, <2>2 DEF RecordInv, TypeOK, InboxRow, Message
    <3>2. Trusted(inbox[e].source, inbox)
      BY <1>1, <2>2, <3>1, NullAssumption DEF EvidenceInv, Trusted
    <3> QED
      BY <2>1, <3>2
  <2> QED
    BY <2>1, <2>2 DEF EvidenceConsistent
<1> QED
  BY <1>1, EvidenceAlways, PTL

\* create_original_run asks for the Inbox row: every Run is of a trusted event.
THEOREM RunsAreTrusted == Spec => []RunsOnlyForTrusted
<1>1. ASSUME RecordInv, EvidenceInv
      PROVE  RunsOnlyForTrusted
  BY <1>1 DEF EvidenceInv, RunsOnlyForTrusted, RecordInv, TypeOK, RunRow
<1> QED
  BY <1>1, EvidenceAlways, PTL

\* create_original_run never misses the Inbox row of the record: no redelivery
\* or race takes run_forever into its integrity exit, whatever the seek does.
THEOREM NeverFatal == Spec => []NoIntegrityExit
<1>1. Init => RecordInv /\ NoIntegrityExit
  BY InitRecord DEF Init, NoIntegrityExit
<1>2. ASSUME RecordInv, NoIntegrityExit, [Next]_vars
      PROVE  NoIntegrityExit'
  <2>1. TypeOK
    BY <1>2 DEF RecordInv
  <2>2. ASSUME NEW c \in Consumers, FindRun(c)
        PROVE  NoIntegrityExit'
    <3>1. inbox[log[cur[c]].event] # None
      BY <1>2, <2>2 DEF FindRun, RecordInv, HoldsRecord, Trusted
    <3>2. PICK x \in {"commit", "insert"} : pc' = [pc EXCEPT ![c] = x]
      BY <2>2, <3>1 DEF FindRun, Goto
    <3> QED
      BY <1>2, <2>1, <3>2 DEF NoIntegrityExit, TypeOK
  <2>3. ASSUME NEW c \in Consumers, Seek(c)
        PROVE  NoIntegrityExit'
    <3>1. pc' = [pc EXCEPT ![c] = "idle"]
      BY <2>3, Zenon DEF Seek, Goto
    <3> QED
      BY <1>2, <2>1, <3>1 DEF NoIntegrityExit, TypeOK
  <2>4. ASSUME NEW c \in Consumers,
               \/ Assign(c) \/ Poll(c) \/ Accept(c) \/ InsertRun(c) \/ Commit(c)
               \/ DatabaseFault(c) \/ CommitFault(c) \/ Crash(c) \/ Restart(c)
        PROVE  NoIntegrityExit'
    <3>1. \/ UNCHANGED pc
          \/ \E x \in Busy \cup {"idle", "down"} : pc' = [pc EXCEPT ![c] = x]
      BY <2>4 DEF Assign, Poll, Accept, InsertRun, Commit, DatabaseFault, CommitFault,
        Crash, Restart, Retry, Goto, Busy
    <3> QED
      BY <1>2, <2>1, <3>1 DEF NoIntegrityExit, TypeOK, Busy
  <2>5. CASE Produce \/ UNCHANGED vars
    BY <1>2, <2>5 DEF Produce, vars, NoIntegrityExit
  <2> QED
    BY <1>2, <2>2, <2>3, <2>4, <2>5 DEF Next, WorkerStep
<1> QED
  BY <1>1, <1>2, StepRecord, PTL DEF Spec

-----------------------------------------------------------------------------
\* Refinement

\* The refinement mapping of Trust.
TrustedContent ==
  [e \in Events |-> IF inbox[e] = None THEN None ELSE inbox[e].content]
RunsOf(e) ==
  {[run |-> r, config |-> runs[r].config] :
     r \in {s \in RunIds : runs[s] # None /\ runs[s].trigger = e}}
Started == [e \in Events |-> RunsOf(e)]

\* The mapping keeps what the proofs about steps need.
LEMMA MappedRecord ==
  ASSUME TypeOK, NEW i \in 1..Len(log), log[i] # Poison
  PROVE  /\ log[i] \in Message /\ log[i].event \in Events
         /\ TrustedContent[log[i].event] =
              IF inbox[log[i].event] = None THEN None ELSE inbox[log[i].event].content
         /\ TrustedContent[log[i].event] = None <=> inbox[log[i].event] = None
         /\ Trust!IsTrusted(i) <=> Trusted(i, inbox)
<1>1. log[i] \in Message /\ log[i].event \in Events /\ log[i].content \in Contents
  BY DEF TypeOK, Message
<1>2. inbox[log[i].event] # None => inbox[log[i].event].content \in Contents
  BY <1>1 DEF TypeOK, InboxRow
<1>3. TrustedContent[log[i].event] =
        IF inbox[log[i].event] = None THEN None ELSE inbox[log[i].event].content
  BY <1>1 DEF TrustedContent
<1> QED
  BY <1>1, <1>2, <1>3, NullAssumption DEF Trust!IsTrusted, Trusted, TrustedContent

LEMMA HandledSettled ==
  ASSUME TypeOK, NEW i \in 1..Len(log), Handled(i)
  PROVE  Trust!Settled(i)
<1>1. CASE i \in rejections
  BY <1>1 DEF Trust!Settled
<1>2. CASE i \notin rejections
  <2> DEFINE e == log[i].event
  <2>1. /\ log[i] # Poison /\ inbox[e] # None /\ inbox[e].content = log[i].content
        /\ HasRun(e)
    BY <1>2 DEF Handled
  <2>2. Trust!IsTrusted(i) /\ e \in Events
    BY <2>1, MappedRecord DEF Trusted
  <2>3. RunsOf(e) # {}
    BY <2>1 DEF HasRun, RunsOf
  <2> QED
    BY <2>2, <2>3 DEF Trust!Settled, RunsOf
<1> QED
  BY <1>1, <1>2

LEMMA InitRefines ==
  ASSUME Init
  PROVE  Trust!Init
<1>1. [e \in Events |-> IF inbox[e] = None THEN None ELSE inbox[e].content]
        = [e \in Events |-> None]
  BY DEF Init
<1>2. \A e \in Events : RunsOf(e) = {}
  BY DEF Init, RunsOf
<1> QED
  BY <1>1, <1>2 DEF Init, Trust!Init, RunsOf

\* The Inbox transaction trusts the record, refuses it or finds it trusted.
LEMMA InboxRefines ==
  ASSUME TypeOK, NEW i \in 1..Len(log), InboxTransaction(i),
         UNCHANGED <<log, committed, runs>>
  PROVE  Trust!Trust(i) \/ Trust!Refuse(i) \/ UNCHANGED Trust!vars
<1>1. Started' = Started
  BY DEF Started, RunsOf
<1>2. CASE UNCHANGED inbox
  <2>1. TrustedContent' = TrustedContent
    BY <1>2 DEF TrustedContent
  <2>2. CASE UNCHANGED rejections
    BY <1>1, <2>1, <2>2 DEF Trust!vars, Started, RunsOf, TrustedContent
  <2>3. CASE rejections' = rejections \cup {i} /\ Refusable(i)
    <3>1. \/ log[i] = Poison
          \/ log[i] # Poison /\ TrustedContent[log[i].event] \notin {None, log[i].content}
      BY <2>3, MappedRecord, NullAssumption DEF Refusable
    <3> QED
      BY <1>1, <2>1, <2>3, <3>1 DEF Trust!Refuse, Started, RunsOf, TrustedContent
  <2> QED
    BY <1>2, <2>2, <2>3 DEF InboxTransaction, Refusable, Accepts
<1>3. CASE /\ log[i] # Poison /\ inbox[log[i].event] = None
           /\ Accepts(log[i].event, i) /\ UNCHANGED rejections
  <2> DEFINE e == log[i].event
  <2>1. e \in Events /\ log[i].content \in Contents
    BY <1>3, MappedRecord DEF Message
  <2>2. [content |-> log[i].content, source |-> i] \in InboxRow
    BY <2>1, BoundsAssumption DEF InboxRow, TypeOK
  <2>3. /\ inbox'[e] # None /\ inbox'[e].content = log[i].content
        /\ \A d \in Events \ {e} : inbox'[d] = inbox[d]
    BY <1>3, <2>1, <2>2, NullAssumption DEF Accepts, TypeOK
  <2>4. TrustedContent' = [TrustedContent EXCEPT ![e] = log[i].content]
    BY <2>1, <2>3 DEF TrustedContent
  <2>5. TrustedContent[e] = None
    BY <1>3, MappedRecord, NullAssumption
  <2> QED
    BY <1>1, <1>3, <2>4, <2>5 DEF Trust!Trust, Started, RunsOf, TrustedContent
<1> QED
  BY <1>2, <1>3 DEF InboxTransaction

\* The Run transaction starts the event or finds it started.
LEMMA RunRefines ==
  ASSUME TypeOK, NEW c \in Consumers, NEW i \in 1..Len(log),
         cur[c] = i, Trusted(i, inbox), RunTransaction(c),
         UNCHANGED <<log, committed, inbox, rejections>>
  PROVE  (\E run \in Trust!Run : Trust!Start(i, run)) \/ UNCHANGED Trust!vars
<1> DEFINE e == log[i].event
<1>1. TrustedContent' = TrustedContent
  BY DEF TrustedContent
<1>2. e \in Events /\ Trust!IsTrusted(i) /\ config[c] \in Configs
  BY MappedRecord DEF Trusted, TypeOK
<1>3. CASE UNCHANGED runs
  <2>1. Started' = Started
    BY <1>3 DEF Started, RunsOf
  <2> QED
    BY <1>1, <2>1 DEF Trust!vars, Started, RunsOf, TrustedContent
<1>4. ASSUME ~HasRun(e), NEW r \in RunIds, runs[r] = None,
             runs' = [runs EXCEPT ![r] = [trigger |-> e, config |-> config[c]]]
      PROVE  \E run \in Trust!Run : Trust!Start(i, run)
  <2>1. PICK run \in Trust!Run : run = [run |-> r, config |-> config[c]]
    BY <1>2 DEF Trust!Run
  <2>2. [trigger |-> e, config |-> config[c]] \in RunRow
    BY <1>2 DEF RunRow
  <2>3. /\ runs'[r] # None /\ runs'[r].trigger = e /\ runs'[r].config = config[c]
        /\ \A s \in RunIds \ {r} : runs'[s] = runs[s]
    BY <1>2, <1>4, <2>2, NullAssumption DEF TypeOK
  <2>4. RunsOf(e) = {}
    BY <1>4 DEF HasRun, RunsOf
  <2>5. RunsOf(e)' = {run}
    <3>1. {s \in RunIds : runs'[s] # None /\ runs'[s].trigger = e} = {r}
      BY <1>4, <2>3 DEF HasRun
    <3> QED
      BY <2>1, <2>3, <3>1 DEF RunsOf
  <2>6. ASSUME NEW d \in Events, d # e
        PROVE  RunsOf(d)' = RunsOf(d)
    <3>1. \A s \in RunIds :
            (runs'[s] # None /\ runs'[s].trigger = d)
              <=> (runs[s] # None /\ runs[s].trigger = d)
      BY <1>4, <2>3, <2>6
    <3>2. \A s \in RunIds : runs'[s] # None /\ runs'[s].trigger = d => runs'[s] = runs[s]
      BY <2>3, <2>6
    <3> QED
      BY <3>1, <3>2 DEF RunsOf
  <2>7. Started' = [Started EXCEPT ![e] = {run}]
    BY <1>2, <2>5, <2>6 DEF Started
  <2>8. \A d \in Events : \A old \in RunsOf(d) : old.run # run.run
    BY <1>4, <2>1 DEF RunsOf
  <2>9. Trust!Start(i, run)
    BY <1>1, <1>2, <2>4, <2>7, <2>8 DEF Trust!Start, Started, RunsOf, TrustedContent
  <2> QED
    BY <2>9
<1>5. \/ UNCHANGED runs
      \/ /\ ~HasRun(e)
         /\ \E r \in RunIds :
              /\ runs[r] = None
              /\ runs' = [runs EXCEPT ![r] = [trigger |-> e, config |-> config[c]]]
  BY DEF RunTransaction, HasRun
<1> QED
  BY <1>3, <1>4, <1>5

\* The ingress implements EventTrust: accept is Trust, reject is Refuse, the Run
\* insert is Start and the commit is Pass.  Needs a seek that succeeds, since a
\* worker that skips a record passes one that is not settled.
THEOREM IngressImplementsTrust ==
  ASSUME ~SeekFaults
  PROVE  Spec => TrustSpec
<1>1. Init => Trust!Init
  BY InitRefines
<1>2. ASSUME IngressInv, [Next]_vars
      PROVE  [Trust!Next]_(Trust!vars)
  <2>1. TypeOK /\ \A c \in Consumers : HoldsInOrder(c)
    BY <1>2 DEF IngressInv
  <2>2. CASE UNCHANGED <<log, committed, tables>>
    <3>1. TrustedContent' = TrustedContent /\ Started' = Started
      BY <2>2 DEF TrustedContent, Started, RunsOf, tables
    <3> QED
      BY <2>2, <3>1 DEF Trust!vars, TrustedContent, Started, RunsOf, tables
  <2>3. CASE Produce
    <3>1. TrustedContent' = TrustedContent /\ Started' = Started
      BY <2>3 DEF TrustedContent, Started, RunsOf, Produce, tables
    <3>2. PICK m \in Message \cup {Poison} : log' = Append(log, m)
      BY <2>3 DEF Produce
    <3>3. Trust!Record(m)
      BY <2>3, <3>1, <3>2
         DEF Trust!Record, TrustedContent, Started, RunsOf, Produce, tables
    <3>4. m \in Trust!Message \cup {Poison}
      BY <3>2 DEF Trust!Message, Message
    <3> QED
      BY <3>3, <3>4 DEF Trust!Next
  <2>4. CASE InboxStep
    <3>1. PICK c \in Consumers :
            /\ pc[c] = "accept" /\ InboxTransaction(cur[c])
            /\ UNCHANGED <<log, committed, runs>>
      BY <2>4 DEF InboxStep
    <3>2. PICK i \in 1..Len(log) : i = cur[c]
      BY <2>1, <3>1 DEF HoldsInOrder, Busy
    <3>3. Trust!Trust(i) \/ Trust!Refuse(i) \/ UNCHANGED Trust!vars
      BY <1>2, <2>1, <3>1, <3>2, InboxRefines
    <3> QED
      BY <3>2, <3>3 DEF Trust!Next
  <2>5. CASE RunStep
    <3>1. PICK c \in Consumers :
            /\ pc[c] = "insert" /\ RunTransaction(c)
            /\ UNCHANGED <<log, committed, inbox, rejections>>
      BY <2>5 DEF RunStep
    <3>2. PICK i \in 1..Len(log) : i = cur[c] /\ Trusted(i, inbox)
      BY <2>1, <3>1 DEF HoldsInOrder, Busy
    <3>3. (\E run \in Trust!Run : Trust!Start(i, run)) \/ UNCHANGED Trust!vars
      BY <2>1, <3>1, <3>2, RunRefines
    <3> QED
      BY <3>2, <3>3 DEF Trust!Next
  <2>6. CASE CommitStep
    <3>1. PICK c \in Consumers :
            pc[c] = "commit" /\ committed' = cur[c] + 1 /\ UNCHANGED <<log, tables>>
      BY <2>6 DEF CommitStep
    <3>2. PICK n \in 1..(Len(log) + 1) :
            n = cur[c] + 1 /\ \A i \in 1..(n - 1) : i \in 1..Len(log) /\ Handled(i)
      <4>1. cur[c] \in 1..Len(log) /\ HandledBefore(cur[c]) /\ Handled(cur[c])
        BY <2>1, <3>1 DEF HoldsInOrder, Busy
      <4>2. Len(log) \in Nat
        BY <2>1 DEF TypeOK
      <4> QED
        BY <4>1, <4>2 DEF HandledBefore
    <3>3. \A i \in 1..(n - 1) : Trust!Settled(i)
      BY <2>1, <3>2, HandledSettled
    <3>4. TrustedContent' = TrustedContent /\ Started' = Started
      BY <3>1 DEF TrustedContent, Started, RunsOf, tables
    <3>5. Trust!Pass(n)
      BY <3>1, <3>2, <3>3, <3>4 DEF Trust!Pass, TrustedContent, Started, RunsOf, tables
    <3> QED
      BY <3>2, <3>5 DEF Trust!Next
  <2> QED
    BY <1>2, <2>2, <2>3, <2>4, <2>5, <2>6, StepKinds
<1> QED
  BY <1>1, <1>2, IngressInvariance, PTL DEF Spec, TrustSpec, Trust!Spec
=============================================================================
