------------------------- MODULE EventIngressProofs -------------------------
(***************************************************************************)
(* Proofs about EventIngress.  CommittedHandled is proved under ~SeekFaults *)
(* (a seek succeeds on an assigned partition); the other theorems hold     *)
(* whatever the seek does.                                                 *)
(***************************************************************************)
EXTENDS EventIngress, TLAPS

\* What an Inbox transaction does to the rows: it only adds the row of an
\* untrusted event, or one rejection.
LEMMA InboxTransactionEffect ==
  ASSUME TypeOK, NEW i \in 1..Len(log), InboxTransaction(i)
  PROVE  /\ inbox' \in [Events -> InboxRow \cup {None}]
         /\ \A e \in Events : inbox[e] # None => inbox'[e] = inbox[e]
         /\ rejections \subseteq rejections'
         /\ rejections' \subseteq rejections \cup {i}
         /\ log[i] \in Message \cup {Poison}
<1>1. log[i] \in Message \cup {Poison} /\ i \in 1..MaxLog
  BY BoundsAssumption DEF TypeOK
<1>2. CASE log[i] = Poison
  BY <1>1, <1>2 DEF InboxTransaction, TypeOK
<1>3. CASE log[i] # Poison
  <2> DEFINE e == log[i].event
  <2>1. e \in Events /\ log[i].content \in Contents
    BY <1>1, <1>3 DEF Message
  <2>2. CASE inbox[e] = None
    <3>1. [content |-> log[i].content, source |-> i] \in InboxRow
      BY <1>1, <2>1 DEF InboxRow
    <3>2. /\ inbox' = [inbox EXCEPT ![e] =
                         [content |-> log[i].content, source |-> i]]
          /\ UNCHANGED rejections
      BY <1>3, <2>2 DEF InboxTransaction, Trusted, Accepts
    <3> QED
      BY <1>1, <2>1, <2>2, <3>1, <3>2 DEF TypeOK
  <2>3. CASE inbox[e] # None
    <3>1. UNCHANGED inbox
      BY <1>3, <2>3 DEF InboxTransaction, Trusted
    <3>2. rejections \subseteq rejections' /\ rejections' \subseteq rejections \cup {i}
      BY <1>3, <2>3 DEF InboxTransaction, Trusted
    <3> QED
      BY <1>1, <3>1, <3>2 DEF TypeOK
  <2> QED
    BY <2>2, <2>3
<1> QED
  BY <1>2, <1>3

\* After its Inbox transaction a record is trusted or it has its rejection.
LEMMA InboxTransactionSettles ==
  ASSUME TypeOK, NEW i \in 1..Len(log), InboxTransaction(i), UNCHANGED log
  PROVE  \/ Trusted(i, inbox')
         \/ /\ i \in rejections'
            /\ log[i] # Poison =>
                 /\ inbox'[log[i].event] # None
                 /\ inbox'[log[i].event].content # log[i].content
<1>1. CASE log[i] = Poison
  BY <1>1 DEF InboxTransaction
<1>2. CASE log[i] # Poison
  <2> DEFINE e == log[i].event
  <2>1. e \in Events /\ log[i].content \in Contents /\ i \in 1..MaxLog
    BY <1>2, BoundsAssumption DEF Message, TypeOK
  <2>2. CASE inbox[e] = None
    <3>1. [content |-> log[i].content, source |-> i] \in InboxRow
      BY <2>1 DEF InboxRow
    <3>2. inbox'[e] = [content |-> log[i].content, source |-> i]
      BY <1>2, <2>1, <2>2 DEF InboxTransaction, Trusted, Accepts, TypeOK
    <3> QED
      BY <1>2, <3>1, <3>2, NullAssumption DEF Trusted
  <2>3. CASE inbox[e] # None /\ inbox[e].content = log[i].content
    BY <1>2, <2>3 DEF InboxTransaction, Trusted
  <2>4. CASE inbox[e] # None /\ inbox[e].content # log[i].content
    BY <1>2, <2>4 DEF InboxTransaction, Trusted
  <2> QED
    BY <2>2, <2>3, <2>4
<1> QED
  BY <1>1, <1>2

\* What a Run transaction does: it adds at most one Run, and its event has one.
LEMMA RunTransactionEffect ==
  ASSUME TypeOK, NEW c \in Consumers, cur[c] \in 1..Len(log),
         log[cur[c]] # Poison, RunTransaction(c)
  PROVE  /\ runs' \in [RunIds -> RunRow \cup {None}]
         /\ \A r \in RunIds : runs[r] # None => runs'[r] = runs[r]
         /\ HasRun(log[cur[c]].event)'
             \/ \E r \in RunIds : runs'[r] # None
                                 /\ runs'[r].trigger = log[cur[c]].event
<1> DEFINE e == log[cur[c]].event
<1>1. e \in Events /\ config[c] \in Configs
  BY DEF TypeOK, Message
<1>2. CASE HasRun(e)
  BY <1>2 DEF RunTransaction, TypeOK, HasRun
<1>3. CASE ~HasRun(e)
  <2>1. PICK r \in RunIds :
          /\ runs[r] = None
          /\ runs' = [runs EXCEPT ![r] = [trigger |-> e, config |-> config[c]]]
    BY <1>3 DEF RunTransaction
  <2>2. [trigger |-> e, config |-> config[c]] \in RunRow
    BY <1>1 DEF RunRow
  <2>3. runs'[r] # None /\ runs'[r].trigger = e
    BY <2>1, <2>2, NullAssumption DEF TypeOK
  <2> QED
    BY <2>1, <2>2, <2>3 DEF TypeOK
<1> QED
  BY <1>2, <1>3

\* What every step guarantees about what is already stored.
Grows ==
  /\ Len(log) <= Len(log')
  /\ \A i \in 1..Len(log) : log'[i] = log[i]
  /\ \A e \in Events : inbox[e] # None => inbox'[e] = inbox[e]
  /\ \A r \in RunIds : runs[r] # None => runs'[r] = runs[r]
  /\ rejections \subseteq rejections'

\* A record that is handled stays handled while the tables only grow.
LEMMA HandledStable ==
  ASSUME TypeOK, Grows, NEW i \in 1..Len(log), Handled(i)
  PROVE  Handled(i)'
<1>1. log'[i] = log[i] /\ log[i] \in Message \cup {Poison}
  BY DEF Grows, TypeOK
<1>2. CASE log[i] = Poison
  BY <1>1, <1>2 DEF Handled, Grows
<1>3. CASE log[i] # Poison
  <2>1. log[i].event \in Events
    BY <1>1, <1>3 DEF Message
  <2>2. inbox[log[i].event] # None /\ inbox'[log[i].event] = inbox[log[i].event]
    BY <1>3, <2>1 DEF Handled, Grows
  <2>3. CASE inbox[log[i].event].content = log[i].content
    <3>1. HasRun(log[i].event)
      BY <1>3, <2>3 DEF Handled
    <3>2. HasRun(log[i].event)'
      BY <1>1, <3>1 DEF HasRun, Grows
    <3> QED
      BY <1>1, <1>3, <2>2, <2>3, <3>2 DEF Handled
  <2>4. CASE inbox[log[i].event].content # log[i].content
    BY <1>1, <1>3, <2>2, <2>4 DEF Handled, Grows
  <2> QED
    BY <2>3, <2>4
<1> QED
  BY <1>2, <1>3

-----------------------------------------------------------------------------
\* Type correctness and growth, action by action.  The database transactions
\* need what a worker knows of the record it holds, whatever the seek does: a
\* record of the log, and a trusted one on the way to the Run.

HoldsRecord(c) ==
  /\ pc[c] \in Busy => cur[c] \in 1..Len(log)
  /\ pc[c] \in {"find", "insert"} => Trusted(cur[c], inbox)

RecordInv == TypeOK /\ \A c \in Consumers : HoldsRecord(c)

LEMMA StepTypeGrows ==
  ASSUME RecordInv, [Next]_vars
  PROVE  TypeOK' /\ Grows
<1> USE BoundsAssumption DEF Busy
<1>1. TypeOK
  BY DEF RecordInv
<1>2. ASSUME NEW c \in Consumers, pc[c] \in Busy
      PROVE  cur[c] \in 1..Len(log) /\ cur[c] \in 1..MaxLog
  BY <1>1, <1>2 DEF RecordInv, HoldsRecord, TypeOK
<1>3. CASE UNCHANGED vars
  BY <1>1, <1>3 DEF TypeOK, Grows, vars
<1>4. CASE Produce
  <2>1. PICK m \in Message \cup {Poison} : log' = Append(log, m)
    BY <1>4 DEF Produce
  <2>2. /\ log' \in Seq(Message \cup {Poison})
        /\ Len(log') = Len(log) + 1
        /\ \A i \in 1..Len(log) : log'[i] = log[i]
    BY <1>1, <2>1 DEF TypeOK
  <2> QED
    BY <1>1, <1>4, <2>2 DEF Produce, TypeOK, Grows, tables
<1>5. ASSUME NEW c \in Consumers, Assign(c)
      PROVE  TypeOK' /\ Grows
  BY <1>1, <1>5 DEF Assign, Fault, TypeOK, Grows, tables
<1>6. ASSUME NEW c \in Consumers, Poll(c)
      PROVE  TypeOK' /\ Grows
  BY <1>1, <1>6 DEF Poll, Goto, TypeOK, Grows, tables, kafka
<1>7. ASSUME NEW c \in Consumers, Accept(c)
      PROVE  TypeOK' /\ Grows
  <2>1. cur[c] \in 1..Len(log) /\ cur[c] \in 1..MaxLog /\ InboxTransaction(cur[c])
    BY <1>2, <1>7 DEF Accept
  <2>2. pc' \in [Consumers -> Busy \cup {"idle", "fatal", "down"}]
    BY <1>1, <1>7 DEF Accept, Goto, TypeOK
  <2>3. /\ inbox' \in [Events -> InboxRow \cup {None}]
        /\ \A e \in Events : inbox[e] # None => inbox'[e] = inbox[e]
        /\ rejections \subseteq rejections' /\ rejections' \subseteq rejections \cup {cur[c]}
    BY <1>1, <2>1, InboxTransactionEffect
  <2>4. rejections' \subseteq 1..MaxLog
    BY <1>1, <2>1, <2>3 DEF TypeOK
  <2>5. UNCHANGED <<log, committed, owner, position, cur, config, runs, faults>>
    BY <1>7 DEF Accept, kafka
  <2> QED
    BY <1>1, <2>2, <2>3, <2>4, <2>5 DEF TypeOK, Grows
<1>8. ASSUME NEW c \in Consumers, FindRun(c)
      PROVE  TypeOK' /\ Grows
  <2>1. PICK x \in {"commit", "fatal", "insert"} : pc' = [pc EXCEPT ![c] = x]
    BY <1>8 DEF FindRun, Goto
  <2> QED
    BY <1>1, <1>8, <2>1 DEF FindRun, TypeOK, Grows, kafka, tables
<1>9. ASSUME NEW c \in Consumers, InsertRun(c)
      PROVE  TypeOK' /\ Grows
  <2>1. cur[c] \in 1..Len(log) /\ log[cur[c]] # Poison /\ RunTransaction(c)
    BY <1>2, <1>9 DEF InsertRun, RecordInv, HoldsRecord, Trusted
  <2> QED
    BY <1>1, <1>9, <2>1, RunTransactionEffect
       DEF InsertRun, Goto, TypeOK, Grows, kafka
<1>10. ASSUME NEW c \in Consumers, Commit(c)
       PROVE  TypeOK' /\ Grows
  BY <1>1, <1>2, <1>10 DEF Commit, Goto, TypeOK, Grows, tables
<1>11. ASSUME NEW c \in Consumers, Seek(c)
       PROVE  TypeOK' /\ Grows
  <2>1. cur[c] \in 1..(MaxLog + 1)
    BY <1>2, <1>11 DEF Seek
  <2>2. position' = [position EXCEPT ![c] = cur[c]] \/ position' = position
    BY <1>11, Zenon DEF Seek
  <2>3. faults' = faults \/ Fault
    BY <1>11, Zenon DEF Seek
  <2>4. /\ cur' = [cur EXCEPT ![c] = 0]
        /\ pc' = [pc EXCEPT ![c] = "idle"]
        /\ log' = log /\ committed' = committed /\ owner' = owner
        /\ config' = config /\ inbox' = inbox /\ rejections' = rejections
        /\ runs' = runs
    BY <1>11, Zenon DEF Seek, Goto, kafka, tables
  <2>5. position' \in [Consumers -> 1..(MaxLog + 1)]
    BY <1>1, <2>1, <2>2 DEF TypeOK
  <2>6. faults' \in 0..MaxFaults
    BY <1>1, <2>3 DEF Fault, TypeOK
  <2>7. cur' \in [Consumers -> 0..MaxLog]
        /\ pc' \in [Consumers -> Busy \cup {"idle", "fatal", "down"}]
    BY <1>1, <2>4 DEF TypeOK
  <2>8. TypeOK'
    BY <1>1, <2>4, <2>5, <2>6, <2>7 DEF TypeOK
  <2>9. Grows
    BY <1>1, <2>4 DEF TypeOK, Grows
  <2> QED
    BY <2>8, <2>9
<1>12. ASSUME NEW c \in Consumers, DatabaseFault(c)
       PROVE  TypeOK' /\ Grows
  <2>1. /\ UNCHANGED <<log, committed, owner, position, cur, config>>
        /\ pc' = [pc EXCEPT ![c] = "seek"]
        /\ faults' \in 0..MaxFaults
        /\ cur[c] \in 1..Len(log)
    BY <1>1, <1>2, <1>12 DEF DatabaseFault, Fault, Retry, Goto, kafka, TypeOK
  <2>2. CASE UNCHANGED tables
    BY <1>1, <2>1, <2>2 DEF TypeOK, Grows, tables
  <2>3. CASE InboxTransaction(cur[c]) /\ UNCHANGED runs
    <3>1. /\ inbox' \in [Events -> InboxRow \cup {None}]
          /\ \A e \in Events : inbox[e] # None => inbox'[e] = inbox[e]
          /\ rejections \subseteq rejections'
          /\ rejections' \subseteq rejections \cup {cur[c]}
      BY <1>1, <2>1, <2>3, InboxTransactionEffect
    <3>2. rejections' \subseteq 1..MaxLog
      BY <1>1, <2>1, <3>1 DEF TypeOK
    <3> QED
      BY <1>1, <2>1, <2>3, <3>1, <3>2 DEF TypeOK, Grows
  <2>4. CASE pc[c] = "insert" /\ RunTransaction(c) /\ UNCHANGED <<inbox, rejections>>
    <3>1. log[cur[c]] # Poison
      BY <2>4 DEF RecordInv, HoldsRecord, Trusted
    <3> QED
      BY <1>1, <2>1, <2>4, <3>1, RunTransactionEffect DEF TypeOK, Grows
  <2> QED
    BY <1>12, <2>2, <2>3, <2>4 DEF DatabaseFault
<1>13. ASSUME NEW c \in Consumers, CommitFault(c)
       PROVE  TypeOK' /\ Grows
  <2>1. /\ UNCHANGED <<log, owner, position, cur, config, inbox, rejections, runs>>
        /\ pc' = [pc EXCEPT ![c] = "seek"]
        /\ faults' \in 0..MaxFaults
    BY <1>1, <1>13 DEF CommitFault, Retry, Goto, Fault, TypeOK, tables
  <2>2. committed' \in 1..(MaxLog + 1)
    BY <1>1, <1>2, <1>13 DEF CommitFault, TypeOK
  <2> QED
    BY <1>1, <2>1, <2>2 DEF TypeOK, Grows
<1>14. ASSUME NEW c \in Consumers, Crash(c)
       PROVE  TypeOK' /\ Grows
  BY <1>1, <1>14 DEF Crash, Goto, Fault, TypeOK, Grows, tables
<1>15. ASSUME NEW c \in Consumers, Restart(c)
       PROVE  TypeOK' /\ Grows
  BY <1>1, <1>15 DEF Restart, Goto, TypeOK, Grows, kafka, tables
<1> QED
  BY <1>3, <1>4, <1>5, <1>6, <1>7, <1>8, <1>9, <1>10, <1>11, <1>12, <1>13,
     <1>14, <1>15 DEF Next, WorkerStep

-----------------------------------------------------------------------------
\* The order invariant, action by action.

\* What another worker is entitled to survives every step that leaves its own
\* control state and the assignment alone.
LEMMA OthersKeepOrder ==
  ASSUME IngressInv, TypeOK', Grows, NEW d \in Consumers,
         pc'[d] = pc[d], cur'[d] = cur[d],
         owner' = d => owner = d /\ position'[d] = position[d]
  PROVE  HoldsInOrder(d)' /\ FetchesInOrder(d)'
<1>1. TypeOK /\ HoldsInOrder(d) /\ FetchesInOrder(d)
  BY DEF IngressInv
<1>2. /\ Len(log) \in Nat /\ Len(log') \in Nat
      /\ cur[d] \in Nat /\ position[d] \in Nat
  <2>1. log \in Seq(Message \cup {Poison}) /\ log' \in Seq(Message \cup {Poison})
    BY <1>1 DEF TypeOK
  <2>2. cur[d] \in 0..MaxLog /\ position[d] \in 1..(MaxLog + 1)
    BY <1>1 DEF TypeOK
  <2> QED
    BY <2>1, <2>2, BoundsAssumption
<1>3. \A i \in 1..Len(log) : Handled(i) => Handled(i)'
  BY <1>1, HandledStable
<1>4. HoldsInOrder(d)'
  <2>1. pc[d] \in Busy => cur[d] \in 1..Len(log') /\ HandledBefore(cur[d])'
    BY <1>1, <1>2, <1>3 DEF HoldsInOrder, HandledBefore, Grows
  <2>2. pc[d] \in {"find", "insert"} => Trusted(cur[d], inbox)'
    BY <1>1 DEF HoldsInOrder, Trusted, Grows, Busy, TypeOK, Message
  <2>3. pc[d] = "commit" => Handled(cur[d])'
    BY <1>1, <1>3 DEF HoldsInOrder, Busy
  <2> QED
    BY <2>1, <2>2, <2>3 DEF HoldsInOrder, HandledBefore, Handled, Trusted, HasRun
<1>5. FetchesInOrder(d)'
  BY <1>1, <1>2, <1>3 DEF FetchesInOrder, Grows
<1> QED
  BY <1>4, <1>5

LEMMA CommittedKept ==
  ASSUME IngressInv, TypeOK', Grows, UNCHANGED committed
  PROVE  committed' <= Len(log') + 1 /\ HandledBefore(committed)'
<1>1. TypeOK /\ committed <= Len(log) + 1 /\ HandledBefore(committed)
  BY DEF IngressInv
<1>2. log \in Seq(Message \cup {Poison}) /\ log' \in Seq(Message \cup {Poison})
      /\ committed \in 1..(MaxLog + 1)
  BY <1>1 DEF TypeOK
<1>3. Len(log) \in Nat /\ Len(log') \in Nat /\ committed \in Nat
  BY <1>2, BoundsAssumption
<1>4. \A i \in 1..(committed - 1) : i \in 1..Len(log) /\ Handled(i)
  BY <1>1, <1>3 DEF HandledBefore
<1>5. \A i \in 1..(committed - 1) : Handled(i)'
  BY <1>1, <1>4, HandledStable
<1> QED
  BY <1>1, <1>3, <1>5 DEF HandledBefore, Grows

\* One step of the worker at c: the other workers keep what they had, so the
\* order invariant is left to be shown for c itself.
LEMMA OnlyWorkerMatters ==
  ASSUME IngressInv, TypeOK', Grows, UNCHANGED committed,
         NEW c \in Consumers,
         \A d \in Consumers \ {c} :
           /\ pc'[d] = pc[d]
           /\ cur'[d] = cur[d]
           /\ owner' = d => owner = d /\ position'[d] = position[d],
         HoldsInOrder(c)', FetchesInOrder(c)', pc'[c] # "fatal"
  PROVE  IngressInv'
<1>1. \A d \in Consumers \ {c} : HoldsInOrder(d)' /\ FetchesInOrder(d)'
  BY OthersKeepOrder
<1>2. NoIntegrityExit'
  BY DEF IngressInv, NoIntegrityExit
<1> QED
  BY <1>1, <1>2, CommittedKept DEF IngressInv

\* A worker that moves on with the record it holds.
LEMMA MovesOn ==
  ASSUME IngressInv, TypeOK', Grows, NEW c \in Consumers,
         UNCHANGED <<log, committed, owner, position, cur>>,
         NEW x \in Busy, pc[c] \in Busy, pc' = [pc EXCEPT ![c] = x],
         x \in {"find", "insert"} => Trusted(cur[c], inbox)',
         x = "commit" => Handled(cur[c])'
  PROVE  IngressInv'
<1> USE DEF Busy
<1>1. /\ TypeOK /\ HoldsInOrder(c) /\ FetchesInOrder(c)
      /\ pc'[c] = x /\ \A d \in Consumers \ {c} : pc'[d] = pc[d]
  BY DEF IngressInv, TypeOK
<1>2. log \in Seq(Message \cup {Poison}) /\ position[c] \in 1..(MaxLog + 1)
  BY <1>1 DEF TypeOK
<1>3. Len(log) \in Nat /\ position[c] \in Nat
  BY <1>2, BoundsAssumption
<1>4. \A i \in 1..Len(log) : Handled(i) => Handled(i)'
  BY <1>1, HandledStable
<1>5. cur[c] \in 1..Len(log) /\ \A i \in 1..(cur[c] - 1) : i \in 1..Len(log) /\ Handled(i)
  BY <1>1, <1>3 DEF HoldsInOrder, HandledBefore
<1>6. HoldsInOrder(c)'
  BY <1>1, <1>4, <1>5 DEF HoldsInOrder, HandledBefore
<1>7. FetchesInOrder(c)'
  BY <1>1, <1>3, <1>4 DEF FetchesInOrder
<1> QED
  BY <1>1, <1>6, <1>7, OnlyWorkerMatters

LEMMA StepOrder ==
  ASSUME ~SeekFaults, IngressInv, [Next]_vars
  PROVE  IngressInv'
<1> USE DEF Busy
<1>1. TypeOK /\ TypeOK' /\ Grows
  BY StepTypeGrows DEF IngressInv, RecordInv, HoldsInOrder, HoldsRecord
<1>2. \A i \in 1..Len(log) : Handled(i) => Handled(i)'
  BY <1>1, HandledStable
<1>3. /\ Len(log) \in Nat /\ Len(log') \in Nat /\ Len(log) <= Len(log')
      /\ committed \in 1..(Len(log) + 1)
      /\ HandledBefore(committed)
  <2>1. log \in Seq(Message \cup {Poison}) /\ log' \in Seq(Message \cup {Poison})
    BY <1>1 DEF TypeOK
  <2>2. committed \in 1..(MaxLog + 1) /\ committed <= Len(log) + 1
    BY <1>1 DEF TypeOK, IngressInv
  <2>3. HandledBefore(committed) /\ Len(log) <= Len(log')
    BY <1>1 DEF IngressInv, Grows
  <2> QED
    BY <2>1, <2>2, <2>3, BoundsAssumption
<1>4. \A c \in Consumers : HoldsInOrder(c) /\ FetchesInOrder(c)
  BY DEF IngressInv
<1>5. \A c \in Consumers : pc[c] # "fatal" /\ cur[c] \in Nat /\ position[c] \in Nat
                          /\ position[c] >= 1
  BY <1>1, BoundsAssumption DEF IngressInv, NoIntegrityExit, TypeOK
<1>6. CASE UNCHANGED vars
  BY <1>6 DEF vars, IngressInv, TypeOK, HandledBefore, HoldsInOrder,
    FetchesInOrder, NoIntegrityExit, Handled, HasRun, Trusted
<1>7. CASE Produce
  <2>1. UNCHANGED <<committed, owner, position, pc, cur>>
    BY <1>7 DEF Produce
  <2>2. \A d \in Consumers : HoldsInOrder(d)' /\ FetchesInOrder(d)'
    BY <1>1, <2>1, OthersKeepOrder
  <2> QED
    BY <1>1, <2>1, <2>2, CommittedKept DEF IngressInv, NoIntegrityExit
<1>8. ASSUME NEW c \in Consumers, Assign(c)
      PROVE  IngressInv'
  <2>1. /\ UNCHANGED <<log, committed, pc, cur, tables>>
        /\ owner' = c /\ position'[c] = committed
        /\ \A d \in Consumers \ {c} : position'[d] = position[d]
        /\ pc[c] \in {"idle", "accept", "find", "insert", "commit", "seek"}
    BY <1>1, <1>8 DEF Assign, TypeOK
  <2>2. HoldsInOrder(c)'
    BY <1>4, <2>1 DEF HoldsInOrder, HandledBefore, Handled, HasRun, Trusted, tables
  <2>3. \A i \in 1..(committed - 1) : Handled(i)'
    BY <1>2, <1>3 DEF HandledBefore
  <2>4. FetchesInOrder(c)'
    BY <1>3, <2>1, <2>3 DEF FetchesInOrder
  <2> QED
    BY <1>1, <1>5, <2>1, <2>2, <2>4, OnlyWorkerMatters
<1>9. ASSUME NEW c \in Consumers, Poll(c)
      PROVE  IngressInv'
  <2>1. /\ owner = c /\ position[c] <= Len(log) /\ pc[c] = "idle"
        /\ UNCHANGED <<log, committed, owner, tables>>
        /\ cur'[c] = position[c] /\ position'[c] = position[c] + 1
        /\ pc'[c] = "accept"
        /\ \A d \in Consumers \ {c} :
             position'[d] = position[d] /\ cur'[d] = cur[d] /\ pc'[d] = pc[d]
    BY <1>1, <1>9 DEF Poll, Goto, kafka, TypeOK
  <2>2. \A i \in 1..(position[c] - 1) : Handled(i)'
    BY <1>2, <1>3, <1>4, <1>5, <2>1 DEF FetchesInOrder
  <2>3. HoldsInOrder(c)'
    BY <1>3, <1>5, <2>1, <2>2 DEF HoldsInOrder, HandledBefore
  <2>4. FetchesInOrder(c)'
    BY <1>3, <1>5, <2>1, <2>2 DEF FetchesInOrder
  <2> QED
    BY <1>1, <2>1, <2>3, <2>4, OnlyWorkerMatters
<1>10. ASSUME NEW c \in Consumers, Accept(c)
       PROVE  IngressInv'
  <2>1. /\ pc[c] = "accept" /\ InboxTransaction(cur[c])
        /\ UNCHANGED <<log, committed, owner, position, cur, runs>>
        /\ cur[c] \in 1..Len(log)
    BY <1>4, <1>10 DEF Accept, kafka, HoldsInOrder
  <2>2. CASE Trusted(cur[c], inbox')
    <3>1. pc' = [pc EXCEPT ![c] = "find"]
      BY <1>10, <2>2 DEF Accept, Goto
    <3>2. Trusted(cur[c], inbox)'
      BY <2>1, <2>2 DEF Trusted
    <3> QED
      BY <1>1, <2>1, <3>1, <3>2, MovesOn
  <2>3. CASE ~Trusted(cur[c], inbox')
    <3>1. pc' = [pc EXCEPT ![c] = "commit"]
      BY <1>10, <2>3 DEF Accept, Goto
    <3>2. Handled(cur[c])'
      BY <1>1, <2>1, <2>3, InboxTransactionSettles DEF Handled
    <3> QED
      BY <1>1, <2>1, <3>1, <3>2, MovesOn
  <2> QED
    BY <2>2, <2>3
<1>11. ASSUME NEW c \in Consumers, FindRun(c)
       PROVE  IngressInv'
  <2> DEFINE e == log[cur[c]].event
  <2>1. /\ pc[c] = "find" /\ Trusted(cur[c], inbox)
        /\ UNCHANGED <<log, committed, owner, position, cur, inbox, rejections, runs>>
    BY <1>4, <1>11 DEF FindRun, kafka, tables, HoldsInOrder
  <2>2. CASE HasRun(e)
    <3>1. pc' = [pc EXCEPT ![c] = "commit"]
      BY <1>11, <2>2, Zenon DEF FindRun, Goto
    <3>2. Handled(cur[c])'
      BY <2>1, <2>2 DEF Handled, Trusted, HasRun
    <3> QED
      BY <1>1, <2>1, <3>1, <3>2, MovesOn
  <2>3. CASE ~HasRun(e)
    <3>1. inbox[e] # None
      BY <2>1 DEF Trusted
    <3>2. pc' = [pc EXCEPT ![c] = "insert"]
      BY <1>11, <2>3, <3>1, Zenon DEF FindRun, Goto
    <3>3. Trusted(cur[c], inbox)'
      BY <2>1 DEF Trusted
    <3> QED
      BY <1>1, <2>1, <3>2, <3>3, MovesOn
  <2> QED
    BY <2>2, <2>3
<1>12. ASSUME NEW c \in Consumers, InsertRun(c)
       PROVE  IngressInv'
  <2>1. /\ pc[c] = "insert" /\ Trusted(cur[c], inbox) /\ RunTransaction(c)
        /\ UNCHANGED <<log, committed, owner, position, cur, inbox, rejections>>
        /\ pc' = [pc EXCEPT ![c] = "commit"]
        /\ cur[c] \in 1..Len(log)
    BY <1>4, <1>12 DEF InsertRun, Goto, kafka, HoldsInOrder
  <2>2. HasRun(log[cur[c]].event)'
    BY <1>1, <2>1, RunTransactionEffect DEF Trusted, HasRun
  <2>3. Handled(cur[c])'
    BY <2>1, <2>2 DEF Handled, Trusted
  <2> QED
    BY <1>1, <2>1, <2>3, MovesOn
<1>13. ASSUME NEW c \in Consumers, DatabaseFault(c)
       PROVE  IngressInv'
  <2>1. /\ pc[c] \in Busy
        /\ UNCHANGED <<log, committed, owner, position, cur>>
        /\ pc' = [pc EXCEPT ![c] = "seek"]
    BY <1>13 DEF DatabaseFault, Retry, Goto, kafka
  <2> QED
    BY <1>1, <2>1, MovesOn
<1>14. ASSUME NEW c \in Consumers, pc[c] = "commit",
              UNCHANGED <<log, owner, position, tables>>,
              committed' = cur[c] + 1,
              \A d \in Consumers \ {c} : pc'[d] = pc[d] /\ cur'[d] = cur[d],
              \/ pc'[c] = "idle"
              \/ pc'[c] = "seek" /\ cur'[c] = cur[c]
       PROVE  IngressInv'
  <2>1. /\ cur[c] \in 1..Len(log) /\ Handled(cur[c])
        /\ \A i \in 1..(cur[c] - 1) : Handled(i)
    BY <1>4, <1>14 DEF HoldsInOrder, HandledBefore
  <2>2. \A i \in 1..cur[c] : Handled(i)'
    BY <1>2, <1>3, <2>1
  <2>3. committed' <= Len(log') + 1 /\ HandledBefore(committed)'
    BY <1>3, <1>14, <2>1, <2>2 DEF HandledBefore
  <2>4. \A d \in Consumers \ {c} : HoldsInOrder(d)' /\ FetchesInOrder(d)'
    BY <1>1, <1>14, OthersKeepOrder
  <2>5. HoldsInOrder(c)'
    BY <1>14, <2>1, <2>2, <1>3 DEF HoldsInOrder, HandledBefore
  <2>6. owner = c => \A i \in 1..(position[c] - 1) : Handled(i)'
    BY <1>2, <1>3, <1>4, <1>5, <2>2, <2>1 DEF FetchesInOrder
  <2>7. FetchesInOrder(c)'
    BY <1>4, <1>14, <2>6 DEF FetchesInOrder
  <2>8. NoIntegrityExit'
    BY <1>5, <1>14 DEF NoIntegrityExit
  <2> QED
    BY <1>1, <2>3, <2>4, <2>5, <2>7, <2>8 DEF IngressInv
<1>15. ASSUME NEW c \in Consumers, Commit(c)
       PROVE  IngressInv'
  <2>1. /\ pc[c] = "commit" /\ committed' = cur[c] + 1 /\ pc'[c] = "idle"
        /\ UNCHANGED <<log, owner, position, tables>>
        /\ \A d \in Consumers \ {c} : pc'[d] = pc[d] /\ cur'[d] = cur[d]
    BY <1>1, <1>15 DEF Commit, Goto, TypeOK
  <2> QED
    BY <1>14, <2>1
<1>16. ASSUME NEW c \in Consumers, CommitFault(c)
       PROVE  IngressInv'
  <2>1. /\ pc[c] = "commit" /\ pc' = [pc EXCEPT ![c] = "seek"]
        /\ UNCHANGED <<log, owner, position, cur, tables>>
        /\ committed' = committed \/ committed' = cur[c] + 1
    BY <1>16 DEF CommitFault, Retry, Goto
  <2>2. CASE committed' = committed
    BY <1>1, <2>1, <2>2, MovesOn
  <2>3. CASE committed' = cur[c] + 1
    <3>1. pc'[c] = "seek" /\ \A d \in Consumers \ {c} : pc'[d] = pc[d]
      BY <1>1, <2>1 DEF TypeOK
    <3> QED
      BY <1>14, <2>1, <2>3, <3>1
  <2> QED
    BY <2>1, <2>2, <2>3
<1>17. ASSUME NEW c \in Consumers, Seek(c)
       PROVE  IngressInv'
  <2>1. /\ pc[c] = "seek" /\ pc' = [pc EXCEPT ![c] = "idle"]
        /\ cur' = [cur EXCEPT ![c] = 0]
        /\ UNCHANGED <<log, committed, owner, tables>>
    BY <1>17, Zenon DEF Seek, Goto, kafka
  <2>2. \/ owner = c /\ position' = [position EXCEPT ![c] = cur[c]]
        \/ owner # c /\ UNCHANGED position
    BY <1>17, Zenon DEF Seek
  <2>3. /\ pc'[c] = "idle"
        /\ \A d \in Consumers \ {c} : pc'[d] = pc[d] /\ cur'[d] = cur[d]
    BY <1>1, <2>1 DEF TypeOK
  <2>4. \A d \in Consumers \ {c} : position'[d] = position[d]
    BY <1>1, <2>2 DEF TypeOK
  <2>5. HoldsInOrder(c)'
    BY <2>3 DEF HoldsInOrder
  <2>6. owner = c => position'[c] = cur[c]
    BY <1>1, <2>2 DEF TypeOK
  <2>7. cur[c] \in 1..Len(log) /\ \A i \in 1..(cur[c] - 1) : Handled(i)
    BY <1>4, <2>1 DEF HoldsInOrder, HandledBefore
  <2>8. \A i \in 1..(cur[c] - 1) : Handled(i)'
    BY <1>2, <1>3, <2>7
  <2>9. FetchesInOrder(c)'
    BY <1>3, <2>1, <2>3, <2>6, <2>7, <2>8 DEF FetchesInOrder
  <2> QED
    BY <1>1, <2>1, <2>3, <2>4, <2>5, <2>9, OnlyWorkerMatters
<1>18. ASSUME NEW c \in Consumers, Crash(c)
       PROVE  IngressInv'
  <2>1. /\ pc'[c] = "down" /\ UNCHANGED <<committed, position>>
        /\ owner' = IF owner = c THEN None ELSE owner
        /\ \A d \in Consumers \ {c} : pc'[d] = pc[d] /\ cur'[d] = cur[d]
    BY <1>1, <1>18 DEF Crash, Goto, TypeOK
  <2>2. HoldsInOrder(c)' /\ FetchesInOrder(c)'
    BY <2>1, NullAssumption DEF HoldsInOrder, FetchesInOrder
  <2>3. \A d \in Consumers \ {c} :
          owner' = d => owner = d /\ position'[d] = position[d]
    BY <2>1, NullAssumption
  <2> QED
    BY <1>1, <2>1, <2>2, <2>3, OnlyWorkerMatters
<1>19. ASSUME NEW c \in Consumers, Restart(c)
       PROVE  IngressInv'
  <2>1. /\ pc[c] = "down" /\ pc'[c] = "idle"
        /\ UNCHANGED <<committed, owner, position, cur>>
        /\ \A d \in Consumers \ {c} : pc'[d] = pc[d]
    BY <1>1, <1>19 DEF Restart, Goto, kafka, TypeOK
  <2>2. owner # c
    BY <1>4, <2>1 DEF FetchesInOrder
  <2>3. HoldsInOrder(c)' /\ FetchesInOrder(c)'
    BY <2>1, <2>2 DEF HoldsInOrder, FetchesInOrder
  <2> QED
    BY <1>1, <2>1, <2>3, OnlyWorkerMatters
<1> QED
  BY <1>6, <1>7, <1>8, <1>9, <1>10, <1>11, <1>12, <1>13, <1>15, <1>16, <1>17,
     <1>18, <1>19 DEF Next, WorkerStep

LEMMA InitOrder ==
  ASSUME Init
  PROVE  IngressInv
<1>1. TypeOK
  BY BoundsAssumption DEF Init, TypeOK, Busy
<1>2. Len(log) = 0 /\ committed = 1 /\ HandledBefore(committed)
  BY DEF Init, HandledBefore
<1>3. \A c \in Consumers : HoldsInOrder(c) /\ FetchesInOrder(c)
  BY NullAssumption DEF Init, HoldsInOrder, FetchesInOrder, Busy
<1>4. NoIntegrityExit
  BY DEF Init, NoIntegrityExit
<1> QED
  BY <1>1, <1>2, <1>3, <1>4 DEF IngressInv

\* The inductive invariant of the ingress holds for any number of workers,
\* events and faults, as long as a seek succeeds on an assigned partition.
THEOREM IngressInvariance ==
  ASSUME ~SeekFaults
  PROVE  Spec => []IngressInv
<1>1. Init => IngressInv
  BY InitOrder
<1>2. IngressInv /\ [Next]_vars => IngressInv'
  BY StepOrder
<1> QED
  BY <1>1, <1>2, PTL DEF Spec

\* run_once commits after process and seeks back after any exception: the
\* committed offset never passes a record without its evidence.
THEOREM NoRecordSkipped ==
  ASSUME ~SeekFaults
  PROVE  Spec => []CommittedHandled
<1>1. IngressInv => CommittedHandled
  BY DEF IngressInv, HandledBefore, CommittedHandled
<1> QED
  BY <1>1, IngressInvariance, PTL

-----------------------------------------------------------------------------
\* What holds whatever the seek does.

LEMMA StepRecord ==
  ASSUME RecordInv, [Next]_vars
  PROVE  RecordInv'
<1> USE DEF Busy
<1>1. TypeOK /\ TypeOK' /\ Grows /\ \A c \in Consumers : HoldsRecord(c)
  BY StepTypeGrows DEF RecordInv
<1>2. /\ Len(log) \in Nat /\ Len(log') \in Nat /\ Len(log) <= Len(log')
      /\ \A c \in Consumers : cur[c] \in Nat
  <2>1. log \in Seq(Message \cup {Poison}) /\ log' \in Seq(Message \cup {Poison})
    BY <1>1 DEF TypeOK
  <2>2. cur \in [Consumers -> 0..MaxLog] /\ Len(log) <= Len(log')
    BY <1>1 DEF TypeOK, Grows
  <2> QED
    BY <2>1, <2>2, BoundsAssumption
<1>3. ASSUME NEW d \in Consumers,
             pc'[d] \in Busy => /\ pc[d] \in Busy
                                /\ cur'[d] = cur[d],
             pc'[d] \in {"find", "insert"} => Trusted(cur[d], inbox)
      PROVE  HoldsRecord(d)'
  <2>1. pc'[d] \in Busy => cur'[d] \in 1..Len(log')
    BY <1>1, <1>2, <1>3 DEF HoldsRecord
  <2>2. ASSUME pc'[d] \in {"find", "insert"}
        PROVE  Trusted(cur[d], inbox)' /\ cur'[d] = cur[d]
    <3>1. cur[d] \in 1..Len(log) /\ cur'[d] = cur[d] /\ Trusted(cur[d], inbox)
      BY <1>1, <1>3, <2>2 DEF HoldsRecord
    <3>2. log'[cur[d]] = log[cur[d]] /\ log[cur[d]].event \in Events
      BY <1>1, <3>1 DEF Grows, TypeOK, Trusted, Message
    <3> QED
      BY <1>1, <3>1, <3>2 DEF Grows, Trusted
  <2> QED
    BY <2>1, <2>2 DEF HoldsRecord
<1>4. ASSUME NEW d \in Consumers, pc'[d] = pc[d], cur'[d] = cur[d]
      PROVE  HoldsRecord(d)'
  BY <1>1, <1>3, <1>4 DEF HoldsRecord
<1>5. ASSUME NEW c \in Consumers, HoldsRecord(c)',
             \A d \in Consumers \ {c} : pc'[d] = pc[d] /\ cur'[d] = cur[d]
      PROVE  RecordInv'
  BY <1>1, <1>4, <1>5 DEF RecordInv
<1>6. CASE UNCHANGED vars \/ Produce
  <2>1. UNCHANGED <<pc, cur>>
    BY <1>6 DEF vars, Produce
  <2> QED
    BY <1>1, <1>4, <2>1 DEF RecordInv
<1>7. ASSUME NEW c \in Consumers, Assign(c)
      PROVE  RecordInv'
  <2>1. UNCHANGED <<pc, cur>>
    BY <1>7 DEF Assign
  <2> QED
    BY <1>1, <1>4, <2>1 DEF RecordInv
<1>8. ASSUME NEW c \in Consumers, Poll(c)
      PROVE  RecordInv'
  <2>1. /\ pc'[c] = "accept" /\ cur'[c] = position[c]
        /\ position[c] \in 1..(MaxLog + 1) /\ position[c] <= Len(log)
        /\ log' = log
        /\ \A d \in Consumers \ {c} : pc'[d] = pc[d] /\ cur'[d] = cur[d]
    BY <1>1, <1>8 DEF Poll, Goto, kafka, TypeOK
  <2>2. HoldsRecord(c)'
    BY <1>2, <2>1, BoundsAssumption DEF HoldsRecord
  <2> QED
    BY <1>5, <2>1, <2>2
<1>9. ASSUME NEW c \in Consumers, Accept(c)
      PROVE  RecordInv'
  <2>1. PICK x \in {"find", "commit"} :
          /\ pc' = [pc EXCEPT ![c] = x]
          /\ x = "find" => Trusted(cur[c], inbox')
    BY <1>9 DEF Accept, Goto
  <2>2. pc[c] = "accept" /\ UNCHANGED <<log, cur>>
    BY <1>9 DEF Accept, kafka
  <2>3. /\ pc'[c] = x
        /\ \A d \in Consumers \ {c} : pc'[d] = pc[d] /\ cur'[d] = cur[d]
    BY <1>1, <2>1, <2>2 DEF TypeOK
  <2>4. HoldsRecord(c)'
    BY <1>1, <2>1, <2>2, <2>3 DEF HoldsRecord, Trusted
  <2> QED
    BY <1>5, <2>3, <2>4
<1>10. ASSUME NEW c \in Consumers, FindRun(c)
       PROVE  RecordInv'
  <2>1. PICK x \in {"commit", "fatal", "insert"} : pc' = [pc EXCEPT ![c] = x]
    BY <1>10 DEF FindRun, Goto
  <2>2. pc[c] = "find" /\ cur' = cur
    BY <1>10 DEF FindRun
  <2>3. /\ pc'[c] = x
        /\ \A d \in Consumers \ {c} : pc'[d] = pc[d] /\ cur'[d] = cur[d]
    BY <1>1, <2>1, <2>2 DEF TypeOK
  <2>4. HoldsRecord(c)'
    BY <1>1, <1>3, <2>2, <2>3 DEF HoldsRecord
  <2> QED
    BY <1>5, <2>3, <2>4
<1>11. ASSUME NEW c \in Consumers, NEW x \in {"commit", "seek", "idle", "down"},
              pc' = [pc EXCEPT ![c] = x],
              \/ cur' = cur /\ pc[c] \in Busy
              \/ cur' = [cur EXCEPT ![c] = 0] /\ x \in {"idle", "down"}
              \/ cur' = cur /\ x = "idle"
       PROVE  RecordInv'
  <2>1. /\ pc'[c] = x
        /\ \A d \in Consumers \ {c} : pc'[d] = pc[d] /\ cur'[d] = cur[d]
    BY <1>1, <1>11 DEF TypeOK
  <2>2. HoldsRecord(c)'
    BY <1>1, <1>3, <1>11, <2>1 DEF HoldsRecord
  <2> QED
    BY <1>5, <2>1, <2>2
<1>12. ASSUME NEW c \in Consumers, InsertRun(c) \/ Commit(c) \/ Seek(c)
       PROVE  RecordInv'
  <2>1. CASE InsertRun(c)
    BY <1>11, <2>1 DEF InsertRun, Goto
  <2>2. CASE Commit(c)
    BY <1>11, <2>2 DEF Commit, Goto
  <2>3. CASE Seek(c)
    <3>1. cur' = [cur EXCEPT ![c] = 0] /\ pc' = [pc EXCEPT ![c] = "idle"]
      BY <2>3, Zenon DEF Seek, Goto
    <3> QED
      BY <1>11, <3>1
  <2> QED
    BY <1>12, <2>1, <2>2, <2>3
<1>13. ASSUME NEW c \in Consumers, DatabaseFault(c) \/ CommitFault(c)
       PROVE  RecordInv'
  <2>1. pc[c] \in Busy /\ cur' = cur /\ pc' = [pc EXCEPT ![c] = "seek"]
    BY <1>13 DEF DatabaseFault, CommitFault, Retry, Goto
  <2> QED
    BY <1>11, <2>1
<1>14. ASSUME NEW c \in Consumers, Crash(c) \/ Restart(c)
       PROVE  RecordInv'
  <2>1. \/ cur' = [cur EXCEPT ![c] = 0] /\ pc' = [pc EXCEPT ![c] = "down"]
        \/ cur' = cur /\ pc' = [pc EXCEPT ![c] = "idle"]
    BY <1>14 DEF Crash, Restart, Goto
  <2> QED
    BY <1>11, <2>1
<1> QED
  BY <1>6, <1>7, <1>8, <1>9, <1>10, <1>12, <1>13, <1>14 DEF Next, WorkerStep

LEMMA InitRecord ==
  ASSUME Init
  PROVE  RecordInv
BY InitOrder DEF RecordInv, IngressInv, HoldsRecord, HoldsInOrder

\* Nothing stored is ever rewritten, by any worker, redelivery or fault.
THEOREM StoredFactsFrozen == Spec => FactsFrozen
<1>1. Init => RecordInv
  BY InitRecord
<1>2. RecordInv /\ [Next]_vars => RecordInv'
  BY StepRecord
<1>3. RecordInv /\ [Next]_vars =>
        [/\ \A e \in Events : inbox[e] # None => inbox'[e] = inbox[e]
         /\ \A r \in RunIds : runs[r] # None => runs'[r] = runs[r]
         /\ rejections \subseteq rejections']_vars
  BY StepTypeGrows DEF Grows
<1> QED
  BY <1>1, <1>2, <1>3, PTL DEF Spec, FactsFrozen

\* The Run transaction respects the unique key on trigger_event_id.
LEMMA RunTransactionUnique ==
  ASSUME TypeOK, OneRunPerEvent, NEW c \in Consumers,
         cur[c] \in 1..Len(log), log[cur[c]] # Poison, RunTransaction(c)
  PROVE  OneRunPerEvent'
<1> DEFINE e == log[cur[c]].event
<1>1. CASE HasRun(e)
  BY <1>1 DEF RunTransaction, OneRunPerEvent
<1>2. CASE ~HasRun(e)
  <2>1. PICK r \in RunIds :
          runs' = [runs EXCEPT ![r] = [trigger |-> e, config |-> config[c]]]
    BY <1>2 DEF RunTransaction
  <2>2. runs'[r].trigger = e /\ \A s \in RunIds \ {r} : runs'[s] = runs[s]
    BY <2>1 DEF TypeOK
  <2>3. \A s \in RunIds \ {r} : runs'[s] # None => runs'[s].trigger # e
    BY <1>2, <2>2 DEF HasRun
  <2>4. ASSUME NEW p \in RunIds, NEW q \in RunIds,
               runs'[p] # None, runs'[q] # None,
               runs'[p].trigger = runs'[q].trigger
        PROVE  p = q
    BY <2>2, <2>3, <2>4 DEF OneRunPerEvent
  <2> QED
    BY <2>4 DEF OneRunPerEvent
<1> QED
  BY <1>1, <1>2

\* At most one original Run per event, for any number of racing workers.
THEOREM RunUniqueness == Spec => []OneRunPerEvent
<1>1. Init => RecordInv /\ OneRunPerEvent
  BY InitRecord DEF Init, OneRunPerEvent
<1>2. RecordInv /\ OneRunPerEvent /\ [Next]_vars
        => RecordInv' /\ OneRunPerEvent'
  <2> SUFFICES ASSUME RecordInv, OneRunPerEvent, [Next]_vars
               PROVE  RecordInv' /\ OneRunPerEvent'
    OBVIOUS
  <2>1. RecordInv'
    BY StepRecord
  <2>2. ASSUME NEW c \in Consumers, pc[c] = "insert", RunTransaction(c)
        PROVE  OneRunPerEvent'
    BY <2>2, RunTransactionUnique DEF RecordInv, HoldsRecord, Trusted, Busy
  <2>3. ASSUME UNCHANGED runs
        PROVE  OneRunPerEvent'
    BY <2>3 DEF OneRunPerEvent
  <2>4. \/ UNCHANGED runs
        \/ \E c \in Consumers : pc[c] = "insert" /\ RunTransaction(c)
    <3>1. ASSUME NEW c \in Consumers, Seek(c)
          PROVE  UNCHANGED runs
      BY <3>1, Zenon DEF Seek, tables
    <3>2. ASSUME NEW c \in Consumers, Assign(c) \/ Poll(c) \/ Accept(c) \/ FindRun(c)
          PROVE  UNCHANGED runs
      BY <3>2, Zenon DEF Assign, Poll, Accept, FindRun, tables
    <3>3. ASSUME NEW c \in Consumers,
                 Commit(c) \/ CommitFault(c) \/ Crash(c) \/ Restart(c)
          PROVE  UNCHANGED runs
      BY <3>3, Zenon DEF Commit, CommitFault, Crash, Restart, tables
    <3>4. ASSUME NEW c \in Consumers, InsertRun(c)
          PROVE  pc[c] = "insert" /\ RunTransaction(c)
      BY <3>4, Zenon DEF InsertRun
    <3>5. ASSUME NEW c \in Consumers, DatabaseFault(c)
          PROVE  \/ UNCHANGED runs
                 \/ pc[c] = "insert" /\ RunTransaction(c)
      BY <3>5 DEF DatabaseFault, tables
    <3>6. Produce \/ UNCHANGED vars => UNCHANGED runs
      BY Zenon DEF Produce, tables, vars
    <3> QED
      BY <3>1, <3>2, <3>3, <3>4, <3>5, <3>6 DEF Next, WorkerStep
  <2>5. OneRunPerEvent'
    BY <2>2, <2>3, <2>4
  <2> QED
    BY <2>1, <2>5
<1> QED
  BY <1>1, <1>2, PTL DEF Spec
=============================================================================
