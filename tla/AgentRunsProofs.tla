--------------------------- MODULE AgentRunsProofs ---------------------------
(***************************************************************************)
(* Proofs about AgentRuns: history, lineage, start facts and answers, for  *)
(* any number of callers, Runs, requests and moves.                        *)
(***************************************************************************)
EXTENDS AgentRuns, TLAPS

-----------------------------------------------------------------------------
\* Shapes of commands and rows

LEMMA CommandFields ==
  ASSUME NEW q \in Command
  PROVE  /\ q.kind \in {"original", "replay", "move", "start"}
         /\ q.kind = "original" => q.key \in Events /\ q.incident \in Incidents
         /\ q.kind = "replay" =>
              /\ q.key \in Replays /\ q.incident \in Incidents
              /\ q.root \in Runs /\ q.source \in Runs
         /\ q.kind = "move" =>
              /\ q.request \in Requests /\ q.run \in Runs /\ q.reason \in Reasons
              /\ q.move \in Moves /\ q.move[1] \in RunStatus
              /\ q.move[2] \in Nat /\ q.move[3] \in RunStatus
         /\ q.kind = "start" =>
              q.request \in Requests /\ q.run \in Runs /\ q.payload \in Payloads
<1>1. CASE q \in OriginalCommand
  BY <1>1 DEF OriginalCommand
<1>2. CASE q \in ReplayCommand
  BY <1>2 DEF ReplayCommand
<1>3. CASE q \in MoveCommand
  BY <1>3, MovesAssumption DEF MoveCommand
<1>4. CASE q \in StartCommand
  BY <1>4 DEF StartCommand
<1> QED
  BY <1>1, <1>2, <1>3, <1>4 DEF Command

LEMMA RowShapes ==
  /\ \A q \in Command : \A r \in Runs :
       q.kind \in {"original", "replay"} => NewRun(r, q) \in RunRow /\ NewRun(r, q) # None
  /\ \A q \in Command : q.kind = "move" =>
       /\ EntryOf(q) \in Transition /\ EntryOf(q).from # None
       /\ EntryOf(q).revision \in Nat \ {0}
  /\ \A q \in Command : q.kind = "start" =>
       /\ StartTransition(q) \in Transition /\ StartTransition(q).from # None
       /\ ReceiptOf(q) \in Receipt /\ ReceiptOf(q) # None
  /\ \A r \in Runs : InitialTransition(r) \in Transition
<1>1. "PENDING" \in RunStatus /\ "RUNNING" \in RunStatus
  BY DEF RunStatus
<1>2. \A s \in RunStatus : s # None
  BY NullAssumption
<1>3. ASSUME NEW q \in Command, NEW r \in Runs, q.kind \in {"original", "replay"}
      PROVE  NewRun(r, q) \in RunRow /\ NewRun(r, q) # None
  <2>1. ASSUME NEW key \in Events \cup Replays, NEW root \in Runs,
               NEW source \in Runs \cup {None}, NEW incident \in Incidents
        PROVE  [key |-> key, root |-> root, source |-> source, incident |-> incident,
                status |-> "PENDING", revision |-> 0, coordinator |-> FALSE] \in RunRow
    BY <1>1 DEF RunRow
  <2>2. CASE q.kind = "original"
    BY <2>1, <2>2, CommandFields, NullAssumption DEF NewRun
  <2>3. CASE q.kind = "replay"
    BY <2>1, <2>3, CommandFields, NullAssumption DEF NewRun
  <2> QED
    BY <1>3, <2>2, <2>3
<1>4. ASSUME NEW q \in Command, q.kind = "move"
      PROVE  /\ EntryOf(q) \in Transition /\ EntryOf(q).from # None
             /\ EntryOf(q).revision \in Nat \ {0}
  BY <1>2, <1>4, CommandFields DEF EntryOf, Transition
<1>5. ASSUME NEW q \in Command, q.kind = "start"
      PROVE  /\ StartTransition(q) \in Transition /\ StartTransition(q).from # None
             /\ ReceiptOf(q) \in Receipt /\ ReceiptOf(q) # None
  BY <1>1, <1>2, <1>5, CommandFields, NullAssumption
     DEF StartTransition, Transition, Reasons, ReceiptOf, Receipt
<1>6. ASSUME NEW r \in Runs
      PROVE  InitialTransition(r) \in Transition
  BY <1>1 DEF InitialTransition, Transition
<1> QED
  BY <1>3, <1>4, <1>5, <1>6

-----------------------------------------------------------------------------
\* What a step may do to the tables

Quiet == UNCHANGED <<runs, history, coordinators, receipts>>

TableStep ==
  \/ Quiet
  \/ \E q \in Command, r \in Runs : CreateRun(q, r)
  \/ \E q \in Command : MoveRun(q) \/ StartRun(q)
  \/ \E r \in Runs, payload \in Payloads : CreateCoordinator(r, payload)

\* What a call may rely on at each of its steps, and what its answer says.
CallOK(k) ==
  LET q == k.cmd IN
  /\ k.at = "event" => q.kind = "original"
  /\ k.at = "lineage" => q.kind = "replay"
  /\ k.at = "insert" => /\ q.kind \in {"original", "replay"}
                        /\ q.kind = "original" => q.key \in inbox
                        /\ q.kind = "replay" => ValidLineage(q)
  /\ k.at = "apply" => q.kind = "move" /\ q.move[3] \in Legal[q.move[1]]
  /\ k.at \in {"start", "competing"} => q.kind = "start"
  /\ k.at \in {"applied", "identical"} => Matches(q)
  /\ k.at = "differs" => Known(q) /\ ~Matches(q)
  /\ q.kind # "start" => k.at # "error" /\ (k.at = "breach" => Known(q))

CallsInv == \A c \in Callers, k \in Call : call[c] = k => CallOK(k)

\* Every step is a command of the ledger, or leaves the tables alone: what a call
\* read and relies on still holds when it writes.
LEMMA LedgerSteps ==
  ASSUME TypeOK, CallsInv, [Next]_vars
  PROVE  [LedgerNext]_tables
<1> DEFINE Ledger == [LedgerNext]_tables
<1>1. ASSUME NEW c \in Callers, NEW label, At(c, label)
      PROVE  \E k \in Call : k = call[c] /\ k.at = label /\ k.cmd \in Command /\ CallOK(k)
  BY <1>1 DEF At, TypeOK, CallsInv, Call
<1>2. CASE UNCHANGED vars
  BY <1>2 DEF vars, tables
<1>3. ASSUME NEW c \in Callers,
             \/ \E q \in Command : Find(c, q)
             \/ Recheck(c) \/ CheckEvent(c) \/ CheckLineage(c) \/ ReadForMove(c)
             \/ ReadForStart(c) \/ FindCompeting(c) \/ Leave(c)
      PROVE  Ledger
  BY <1>3, Zenon DEF Find, Recheck, CheckEvent, CheckLineage, ReadForMove, ReadForStart,
    FindCompeting, Leave
<1>4. ASSUME NEW c \in Callers, Insert(c)
      PROVE  Ledger
  <2>1. PICK k \in Call : k = call[c] /\ k.at = "insert" /\ k.cmd \in Command /\ CallOK(k)
    BY <1>1, <1>4 DEF Insert
  <2>2. PICK q \in Command :
          /\ q = call[c].cmd /\ q.kind \in {"original", "replay"}
          /\ q.kind = "original" => q.key \in inbox
          /\ q.kind = "replay" => ValidLineage(q)
    BY <2>1 DEF CallOK
  <2>3. CASE UNCHANGED <<runs, history>>
    BY <1>4, <2>3 DEF Insert, tables
  <2>4. ASSUME ~\E s \in Runs : HasKey(q.key, s), NEW r \in Runs, runs[r] = None,
               runs' = [runs EXCEPT ![r] = NewRun(r, q)],
               history' = history \cup {InitialTransition(r)}
        PROVE  Ledger
    BY <1>4, <2>2, <2>4 DEF Insert, CreateRun, LedgerNext
  <2> QED
    BY <1>4, <2>2, <2>3, <2>4 DEF Insert
<1>5. ASSUME NEW c \in Callers, Apply(c)
      PROVE  Ledger
  <2>1. PICK k \in Call : k = call[c] /\ k.at = "apply" /\ k.cmd \in Command /\ CallOK(k)
    BY <1>1, <1>5 DEF Apply
  <2>2. PICK q \in Command :
          q = call[c].cmd /\ q.kind = "move" /\ q.move[3] \in Legal[q.move[1]]
    BY <2>1 DEF CallOK
  <2>3. CASE UNCHANGED <<runs, history>>
    BY <1>5, <2>3 DEF Apply, tables
  <2>4. CASE /\ Expected(q) /\ ~Violates(EntryOf(q))
             /\ runs' = [runs EXCEPT ![q.run].status = q.move[3],
                                     ![q.run].revision = q.move[2] + 1]
             /\ history' = history \cup {EntryOf(q)}
    BY <1>5, <2>2, <2>4 DEF Apply, MoveRun, LedgerNext
  <2> QED
    BY <1>5, <2>2, <2>3, <2>4 DEF Apply
<1>6. ASSUME NEW c \in Callers, Start(c)
      PROVE  Ledger
  <2>1. PICK k \in Call : k = call[c] /\ k.at = "start" /\ k.cmd \in Command /\ CallOK(k)
    BY <1>1, <1>6 DEF Start
  <2>2. PICK q \in Command : q = call[c].cmd /\ q.kind = "start"
    BY <2>1 DEF CallOK
  <2>3. CASE UNCHANGED <<runs, history, coordinators, receipts>>
    BY <1>6, <2>3 DEF Start, tables
  <2>4. CASE /\ Startable(q.run) /\ ~Violates(StartTransition(q))
             /\ coordinators[q.run] = None /\ receipts[q.request] = None
             /\ Bind(q)
             /\ coordinators' = [coordinators EXCEPT ![q.run] = q.payload]
             /\ receipts' = [receipts EXCEPT ![q.request] = ReceiptOf(q)]
    BY <1>6, <2>2, <2>4 DEF Start, StartRun, LedgerNext
  <2> QED
    BY <1>6, <2>2, <2>3, <2>4 DEF Start
<1>7. ASSUME NEW e \in Events, Arrive(e)
      PROVE  Ledger
  BY <1>7 DEF LedgerNext
<1>8. ASSUME NEW r \in Runs, NEW payload \in Payloads, CreateCoordinator(r, payload)
      PROVE  Ledger
  BY <1>8 DEF LedgerNext
<1> QED
  BY <1>2, <1>3, <1>4, <1>5, <1>6, <1>7, <1>8 DEF Next, CallerStep
LEMMA TableSteps ==
  ASSUME TypeOK, CallsInv, [Next]_vars
  PROVE  TableStep /\ inbox \subseteq inbox'
<1>1. [LedgerNext]_tables
  BY LedgerSteps
<1>2. CASE UNCHANGED tables
  BY <1>2 DEF tables, TableStep, Quiet
<1>3. ASSUME NEW q \in Command, NEW r \in Runs, CreateRun(q, r)
      PROVE  UNCHANGED inbox
  BY <1>3 DEF CreateRun
<1>4. ASSUME NEW q \in Command, MoveRun(q) \/ StartRun(q)
      PROVE  UNCHANGED inbox
  BY <1>4 DEF MoveRun, StartRun
<1>5. ASSUME NEW r \in Runs, NEW payload \in Payloads, CreateCoordinator(r, payload)
      PROVE  UNCHANGED inbox
  BY <1>5 DEF CreateCoordinator
<1>6. ASSUME NEW e \in Events, Arrive(e)
      PROVE  Quiet /\ inbox \subseteq inbox'
  BY <1>6 DEF Arrive, Quiet
<1> QED
  BY <1>1, <1>2, <1>3, <1>4, <1>5, <1>6 DEF LedgerNext, TableStep
-----------------------------------------------------------------------------
\* The rows are well typed

RowsTyped ==
  /\ runs \in [Runs -> RunRow \cup {None}]
  /\ \A h \in history : h \in Transition /\ (h.from = None <=> h.revision = 0)
  /\ coordinators \in [Runs -> Payloads \cup {None}]
  /\ receipts \in [Requests -> Receipt \cup {None}]

\* A move and a start both replace the row of one Run and append to its history.
Advance(r, entry, bound) ==
  /\ runs[r] # None /\ entry \in Transition /\ entry.run = r
  /\ entry.from = runs[r].status /\ entry.from # None
  /\ entry.revision = runs[r].revision + 1 /\ entry.to \in Legal[entry.from]
  /\ entry.request \in Requests
  /\ ~\E h \in history : h.request = entry.request
  /\ bound \in BOOLEAN /\ (runs[r].coordinator => bound)
  /\ runs' = [runs EXCEPT ![r] = [runs[r] EXCEPT !.status = entry.to,
                                                !.revision = entry.revision,
                                                !.coordinator = bound]]
  /\ history' = history \cup {entry}

LEMMA MoveAdvances ==
  ASSUME RowsTyped, NEW q \in Command, MoveRun(q)
  PROVE  q.run \in Runs /\ Advance(q.run, EntryOf(q), runs[q.run].coordinator)
<1>1. q.run \in Runs /\ q.request \in Requests
  BY CommandFields DEF MoveRun
<1>2. runs[q.run] \in RunRow
  BY <1>1 DEF MoveRun, Expected, RowsTyped
<1>3. EntryOf(q) \in Transition /\ EntryOf(q).from # None
  BY RowShapes DEF MoveRun
<1>4. /\ EntryOf(q).run = q.run /\ EntryOf(q).from = q.move[1]
      /\ EntryOf(q).to = q.move[3] /\ EntryOf(q).revision = q.move[2] + 1
      /\ EntryOf(q).request = q.request
  BY DEF EntryOf
<1>5. runs' = [runs EXCEPT ![q.run] =
                 [runs[q.run] EXCEPT !.status = q.move[3], !.revision = q.move[2] + 1,
                                     !.coordinator = runs[q.run].coordinator]]
  <2>1. runs' = [runs EXCEPT ![q.run] =
                   [runs[q.run] EXCEPT !.status = q.move[3], !.revision = q.move[2] + 1]]
    BY DEF MoveRun
  <2>2. [runs[q.run] EXCEPT !.status = q.move[3], !.revision = q.move[2] + 1]
        = [runs[q.run] EXCEPT !.status = q.move[3], !.revision = q.move[2] + 1,
                              !.coordinator = runs[q.run].coordinator]
    BY <1>2 DEF RunRow
  <2> QED
    BY <2>1, <2>2, Zenon
<1>6. runs[q.run].coordinator \in BOOLEAN
  BY <1>2 DEF RunRow
<1>7. ~\E h \in history : h.request = EntryOf(q).request
  BY DEF MoveRun, Violates
<1> QED
  BY <1>1, <1>3, <1>4, <1>5, <1>6, <1>7 DEF Advance, MoveRun, Expected

LEMMA StartAdvances ==
  ASSUME RowsTyped, NEW q \in Command, StartRun(q)
  PROVE  q.run \in Runs /\ Advance(q.run, StartTransition(q), TRUE)
<1>1. q.run \in Runs /\ q.request \in Requests
  BY CommandFields DEF StartRun
<1>2. runs[q.run] \in RunRow
  BY <1>1 DEF StartRun, Startable, RowsTyped
<1>3. StartTransition(q) \in Transition /\ StartTransition(q).from # None
  BY RowShapes DEF StartRun
<1>4. /\ StartTransition(q).run = q.run /\ StartTransition(q).from = "PENDING"
      /\ StartTransition(q).to = "RUNNING" /\ StartTransition(q).revision = 1
      /\ StartTransition(q).request = q.request
  BY DEF StartTransition
<1>5. runs' = [runs EXCEPT ![q.run] =
                 [runs[q.run] EXCEPT !.status = "RUNNING", !.revision = 1,
                                     !.coordinator = TRUE]]
  BY DEF StartRun, Bind
<1>6. "RUNNING" \in Legal["PENDING"]
  BY DEF Legal
<1>7. ~\E h \in history : h.request = StartTransition(q).request
  BY DEF StartRun, Violates
<1>8. history' = history \cup {StartTransition(q)}
  BY DEF StartRun, Bind
<1>9. runs[q.run] # None /\ runs[q.run].status = "PENDING" /\ runs[q.run].revision = 0
  BY DEF StartRun, Startable
<1> QED
  BY <1>1, <1>3, <1>4, <1>5, <1>6, <1>7, <1>8, <1>9 DEF Advance

\* What an advance does to the table of Runs.
LEMMA AdvancedRow ==
  ASSUME RowsTyped, NEW r \in Runs, NEW entry, NEW bound, Advance(r, entry, bound)
  PROVE  /\ runs[r] \in RunRow
         /\ runs' \in [Runs -> RunRow \cup {None}]
         /\ \A s \in Runs : s # r => runs'[s] = runs[s]
         /\ runs'[r] \in RunRow /\ runs'[r] # None
         /\ runs'[r].status = entry.to /\ runs'[r].revision = entry.revision
         /\ runs'[r].coordinator = bound
         /\ runs'[r].key = runs[r].key /\ runs'[r].root = runs[r].root
         /\ runs'[r].source = runs[r].source /\ runs'[r].incident = runs[r].incident
<1>1. runs[r] \in RunRow
  BY DEF Advance, RowsTyped
<1>2. entry.to \in RunStatus /\ entry.revision \in Nat /\ bound \in BOOLEAN
  BY DEF Advance, Transition
<1>3. runs'[r] = [runs[r] EXCEPT !.status = entry.to, !.revision = entry.revision,
                                 !.coordinator = bound]
  BY DEF Advance, RowsTyped
<1>4. /\ runs'[r] \in RunRow /\ runs'[r] # None
      /\ runs'[r].status = entry.to /\ runs'[r].revision = entry.revision
      /\ runs'[r].coordinator = bound
      /\ runs'[r].key = runs[r].key /\ runs'[r].root = runs[r].root
      /\ runs'[r].source = runs[r].source /\ runs'[r].incident = runs[r].incident
  <2>1. PICK row \in RunRow : row = runs[r]
    BY <1>1
  <2>2. PICK next : next = runs'[r]
    OBVIOUS
  <2>3. next = [row EXCEPT !.status = entry.to, !.revision = entry.revision,
                           !.coordinator = bound]
    BY <1>3, <2>1, <2>2
  <2>4. /\ next \in RunRow /\ next # None
        /\ next.status = entry.to /\ next.revision = entry.revision
        /\ next.coordinator = bound
        /\ next.key = row.key /\ next.root = row.root /\ next.source = row.source
        /\ next.incident = row.incident
    BY <1>2, <2>3, NullAssumption DEF RunRow
  <2> QED
    BY <2>1, <2>2, <2>4
<1>5. \A s \in Runs : s # r => runs'[s] = runs[s]
  BY DEF Advance, RowsTyped
<1>6. runs' \in [Runs -> RunRow \cup {None}]
  <2>1. runs' = [runs EXCEPT ![r] = runs'[r]]
    BY <1>3 DEF Advance
  <2> QED
    BY <2>1, <1>4 DEF RowsTyped
<1> QED
  BY <1>1, <1>4, <1>5, <1>6

\* What an insertion does to it.
LEMMA InsertedRow ==
  ASSUME RowsTyped, NEW q \in Command, NEW r \in Runs, CreateRun(q, r)
  PROVE  /\ runs' \in [Runs -> RunRow \cup {None}]
         /\ \A s \in Runs : s # r => runs'[s] = runs[s]
         /\ runs'[r] = NewRun(r, q) /\ runs'[r] \in RunRow /\ runs'[r] # None
         /\ runs'[r].key = q.key /\ runs'[r].status = "PENDING"
         /\ runs'[r].revision = 0 /\ runs'[r].coordinator = FALSE
         /\ runs'[r].incident = q.incident
<1>1. NewRun(r, q) \in RunRow /\ NewRun(r, q) # None
  BY RowShapes DEF CreateRun
<1>2. runs' = [runs EXCEPT ![r] = NewRun(r, q)]
  BY DEF CreateRun
<1>3. runs'[r] = NewRun(r, q) /\ \A s \in Runs : s # r => runs'[s] = runs[s]
  BY <1>2 DEF RowsTyped
<1>4. runs' \in [Runs -> RunRow \cup {None}]
  BY <1>1, <1>2 DEF RowsTyped
<1>5. /\ NewRun(r, q).key = q.key /\ NewRun(r, q).status = "PENDING"
      /\ NewRun(r, q).revision = 0 /\ NewRun(r, q).coordinator = FALSE
      /\ NewRun(r, q).incident = q.incident
  BY DEF NewRun
<1> QED
  BY <1>1, <1>3, <1>4, <1>5

LEMMA RowsTypedStep ==
  ASSUME RowsTyped, TableStep
  PROVE  RowsTyped'
<1>1. CASE Quiet
  BY <1>1 DEF Quiet, RowsTyped
<1>2. ASSUME NEW q \in Command, NEW r \in Runs, CreateRun(q, r)
      PROVE  RowsTyped'
  <2>1. InitialTransition(r) \in Transition
    BY RowShapes
  <2>2. InitialTransition(r).from = None /\ InitialTransition(r).revision = 0
    BY DEF InitialTransition
  <2> QED
    BY <1>2, <2>1, <2>2, InsertedRow DEF CreateRun, RowsTyped
<1>3. ASSUME NEW r \in Runs, NEW entry, NEW bound, Advance(r, entry, bound)
      PROVE  \A h \in history' : h \in Transition /\ (h.from = None <=> h.revision = 0)
  <2>1. entry.revision # 0
    <3>1. runs[r].revision \in Nat
      BY <1>3, AdvancedRow DEF RunRow
    <3> QED
      BY <1>3, <3>1 DEF Advance
  <2> QED
    BY <1>3, <2>1 DEF Advance, RowsTyped
<1>4. ASSUME NEW q \in Command, MoveRun(q)
      PROVE  RowsTyped'
  BY <1>3, <1>4, MoveAdvances, AdvancedRow DEF MoveRun, RowsTyped
<1>5. ASSUME NEW q \in Command, StartRun(q)
      PROVE  RowsTyped'
  <2>1. q.run \in Runs /\ q.request \in Requests /\ q.payload \in Payloads
    BY <1>5, CommandFields DEF StartRun
  <2>2. coordinators' \in [Runs -> Payloads \cup {None}]
    BY <1>5, <2>1 DEF StartRun, RowsTyped
  <2>3. receipts' \in [Requests -> Receipt \cup {None}]
    <3>1. ReceiptOf(q) \in Receipt
      BY <1>5, RowShapes DEF StartRun
    <3> QED
      BY <1>5, <2>1, <3>1 DEF StartRun, RowsTyped
  <2> QED
    BY <1>3, <1>5, <2>2, <2>3, StartAdvances, AdvancedRow DEF RowsTyped
<1>6. ASSUME NEW r \in Runs, NEW payload \in Payloads, CreateCoordinator(r, payload)
      PROVE  RowsTyped'
  BY <1>6 DEF CreateCoordinator, RowsTyped
<1> QED
  BY <1>1, <1>2, <1>4, <1>5, <1>6 DEF TableStep
-----------------------------------------------------------------------------
\* Keys are unique

UniqueKeys ==
  \A r, s \in Runs :
    runs[r] # None /\ runs[s] # None /\ runs[r].key = runs[s].key => r = s

UniqueRequests ==
  \A g, h \in history : g.request # None /\ g.request = h.request => g = h

LEMMA UniqueKeysStep ==
  ASSUME RowsTyped, UniqueKeys, TableStep
  PROVE  UniqueKeys'
<1>1. CASE Quiet
  BY <1>1 DEF Quiet, UniqueKeys
<1>2. ASSUME NEW q \in Command, NEW r \in Runs, CreateRun(q, r)
      PROVE  UniqueKeys'
  <2>1. \A s \in Runs : s # r /\ runs'[s] # None => runs'[s].key # runs'[r].key
    BY <1>2, InsertedRow DEF CreateRun, HasKey
  <2>2. \A s \in Runs : s # r => runs'[s] = runs[s]
    BY <1>2, InsertedRow
  <2> QED
    BY <2>1, <2>2 DEF UniqueKeys
<1>3. ASSUME NEW r \in Runs, NEW entry, NEW bound, Advance(r, entry, bound)
      PROVE  UniqueKeys'
  <2>1. runs[r] # None
    BY <1>3 DEF Advance
  <2> QED
    BY <1>3, <2>1, AdvancedRow DEF UniqueKeys
<1>4. ASSUME NEW r \in Runs, NEW payload \in Payloads, CreateCoordinator(r, payload)
      PROVE  UniqueKeys'
  BY <1>4 DEF CreateCoordinator, UniqueKeys
<1> QED
  BY <1>1, <1>2, <1>3, <1>4, MoveAdvances, StartAdvances DEF TableStep

LEMMA UniqueRequestsStep ==
  ASSUME RowsTyped, UniqueRequests, TableStep
  PROVE  UniqueRequests'
<1>1. ASSUME UNCHANGED history
      PROVE  UniqueRequests'
  BY <1>1 DEF UniqueRequests
<1>2. ASSUME NEW q \in Command, NEW r \in Runs, CreateRun(q, r)
      PROVE  UniqueRequests'
  BY <1>2 DEF CreateRun, InitialTransition, UniqueRequests
<1>3. ASSUME NEW r \in Runs, NEW entry, NEW bound, Advance(r, entry, bound)
      PROVE  UniqueRequests'
  BY <1>3 DEF Advance, UniqueRequests
<1> QED
  BY <1>1, <1>2, <1>3, MoveAdvances, StartAdvances DEF TableStep, Quiet, CreateCoordinator

-----------------------------------------------------------------------------
\* The history of a Run

\* HistoryChain, entry by entry.
Chain(r) ==
  IF runs[r] = None THEN \A h \in history : h.run # r
  ELSE /\ \A n \in 0..runs[r].revision : \E h \in history : h.run = r /\ h.revision = n
       /\ \A h \in history : h.run = r =>
            /\ h.revision \in 0..runs[r].revision
            /\ h.revision = 0 => h.to = "PENDING"
            /\ h.revision = runs[r].revision => h.to = runs[r].status
       /\ \A g, h \in history : g.run = r /\ h.run = r =>
            /\ g.revision = h.revision => g = h
            /\ h.revision = g.revision + 1 => h.from = g.to /\ h.to \in Legal[g.to]

LEMMA ChainOfHistory ==
  HistoryChain <=> \A r \in Runs : Chain(r)
<1>1. ASSUME NEW r \in Runs
      PROVE  (IF runs[r] = None THEN Entries(r) = {}
              ELSE /\ {h.revision : h \in Entries(r)} = 0..runs[r].revision
                   /\ \A g, h \in Entries(r) :
                        /\ g.revision = h.revision => g = h
                        /\ h.revision = g.revision + 1 =>
                             h.from = g.to /\ h.to \in Legal[g.to]
                   /\ \A h \in Entries(r) :
                        /\ h.revision = 0 => h.to = "PENDING"
                        /\ h.revision = runs[r].revision => h.to = runs[r].status)
             <=> Chain(r)
  <2>1. \A h : h \in Entries(r) <=> h \in history /\ h.run = r
    BY DEF Entries
  <2>2. CASE runs[r] = None
    BY <2>1, <2>2 DEF Chain
  <2>3. CASE runs[r] # None
    <3>1. {h.revision : h \in Entries(r)} = 0..runs[r].revision
          <=> /\ \A n \in 0..runs[r].revision :
                   \E h \in history : h.run = r /\ h.revision = n
              /\ \A h \in history : h.run = r => h.revision \in 0..runs[r].revision
      BY <2>1
    <3> QED
      BY <2>1, <2>3, <3>1, Zenon DEF Chain
  <2> QED
    BY <2>2, <2>3
<1> QED
  BY <1>1 DEF HistoryChain

LEMMA ChainFrame ==
  ASSUME RowsTyped, NEW r \in Runs, Chain(r), runs'[r] = runs[r],
         \A h : h.run = r => (h \in history' <=> h \in history)
  PROVE  Chain(r)'
BY DEF Chain

LEMMA ChainStep ==
  ASSUME RowsTyped, \A r \in Runs : Chain(r), TableStep, NEW r \in Runs
  PROVE  Chain(r)'
<1>1. CASE Quiet
  BY <1>1, ChainFrame DEF Quiet
<1>2. ASSUME NEW q \in Command, NEW s \in Runs, CreateRun(q, s)
      PROVE  Chain(r)'
  <2>1. InitialTransition(s).run = s /\ InitialTransition(s).revision = 0
        /\ InitialTransition(s).to = "PENDING"
    BY DEF InitialTransition
  <2>2. history' = history \cup {InitialTransition(s)}
    BY <1>2 DEF CreateRun
  <2>3. CASE r # s
    BY <1>2, <2>1, <2>2, <2>3, InsertedRow, ChainFrame
  <2>4. CASE r = s
    <3>1. \A h \in history : h.run # r
      BY <1>2, <2>4 DEF Chain, CreateRun
    <3>2. runs'[r] # None /\ runs'[r].revision = 0 /\ runs'[r].status = "PENDING"
      BY <1>2, <2>4, InsertedRow
    <3> QED
      BY <2>1, <2>2, <2>4, <3>1, <3>2 DEF Chain
  <2> QED
    BY <2>3, <2>4
<1>3. ASSUME NEW s \in Runs, NEW entry, NEW bound, Advance(s, entry, bound)
      PROVE  Chain(r)'
  <2>1. /\ history' = history \cup {entry} /\ entry.run = s
        /\ entry.from = runs[s].status /\ entry.revision = runs[s].revision + 1
        /\ entry.to \in Legal[entry.from] /\ runs[s] # None
    BY <1>3 DEF Advance
  <2>2. CASE r # s
    BY <1>3, <2>1, <2>2, AdvancedRow, ChainFrame
  <2>3. CASE r = s
    <3>1. runs[r].revision \in Nat
      BY <1>3, <2>3, AdvancedRow DEF RunRow
    <3>2. runs'[r] # None /\ runs'[r].revision = runs[r].revision + 1
          /\ runs'[r].status = entry.to
      BY <1>3, <2>1, <2>3, AdvancedRow
    <3>3. \A h \in history : h.run = r =>
            /\ h.revision \in 0..runs[r].revision
            /\ h.revision = 0 => h.to = "PENDING"
            /\ h.revision = runs[r].revision => h.to = runs[r].status
      BY <2>1, <2>3 DEF Chain
    <3>4. \A n \in 0..runs'[r].revision :
            \E h \in history' : h.run = r /\ h.revision = n
      <4>1. \A n \in 0..runs'[r].revision :
              n \in 0..runs[r].revision \/ n = runs[r].revision + 1
        BY <3>1, <3>2
      <4>2. \A n \in 0..runs[r].revision :
              \E h \in history : h.run = r /\ h.revision = n
        BY <2>1, <2>3 DEF Chain
      <4> QED
        BY <2>1, <2>3, <4>1, <4>2
    <3>5. \A h \in history' : h.run = r =>
            /\ h.revision \in 0..runs'[r].revision
            /\ h.revision = 0 => h.to = "PENDING"
            /\ h.revision = runs'[r].revision => h.to = runs'[r].status
      BY <2>1, <2>3, <3>1, <3>2, <3>3
    <3>6. \A g, h \in history' : g.run = r /\ h.run = r =>
            /\ g.revision = h.revision => g = h
            /\ h.revision = g.revision + 1 => h.from = g.to /\ h.to \in Legal[g.to]
      <4>1. \A g, h \in history : g.run = r /\ h.run = r =>
              /\ g.revision = h.revision => g = h
              /\ h.revision = g.revision + 1 => h.from = g.to /\ h.to \in Legal[g.to]
        BY <2>1, <2>3 DEF Chain
      <4> QED
        BY <2>1, <2>3, <3>1, <3>3, <4>1
    <3> QED
      BY <3>2, <3>4, <3>5, <3>6 DEF Chain
  <2> QED
    BY <2>2, <2>3
<1>4. ASSUME NEW s \in Runs, NEW payload \in Payloads, CreateCoordinator(s, payload)
      PROVE  Chain(r)'
  BY <1>4, ChainFrame DEF CreateCoordinator
<1> QED
  BY <1>1, <1>2, <1>3, <1>4, MoveAdvances, StartAdvances DEF TableStep
-----------------------------------------------------------------------------
\* Starts and lineage

LEMMA ReceiptsNameRuns ==
  ASSUME RowsTyped, \A r \in Runs : Chain(r), StartFacts,
         NEW p \in Requests, receipts[p] # None
  PROVE  /\ receipts[p] \in Receipt /\ receipts[p].run \in Runs
         /\ receipts[p].payload \in Payloads /\ receipts[p].payload # None
         /\ runs[receipts[p].run] # None
<1>1. receipts[p] \in Receipt
  BY DEF RowsTyped
<1>2. receipts[p].run \in Runs /\ receipts[p].payload \in Payloads
  BY <1>1 DEF Receipt
<1>3. StartTransition([request |-> p, run |-> receipts[p].run]) \in history
  BY DEF StartFacts
<1>4. StartTransition([request |-> p, run |-> receipts[p].run]).run = receipts[p].run
  BY DEF StartTransition
<1>5. runs[receipts[p].run] # None
  BY <1>2, <1>3, <1>4 DEF Chain
<1> QED
  BY <1>1, <1>2, <1>5, NullAssumption

LEMMA StartFactsStep ==
  ASSUME RowsTyped, \A r \in Runs : Chain(r), StartFacts, TableStep
  PROVE  StartFacts'
<1>1. CASE Quiet
  BY <1>1 DEF Quiet, StartFacts, StartTransition
<1>2. ASSUME NEW q \in Command, NEW r \in Runs, CreateRun(q, r)
      PROVE  StartFacts'
  <2>1. UNCHANGED <<coordinators, receipts>> /\ history \subseteq history'
    BY <1>2 DEF CreateRun
  <2>2. \A p \in Requests : receipts[p] # None => receipts[p].run # r
    BY <1>2, ReceiptsNameRuns DEF CreateRun
  <2>3. /\ runs'[r].coordinator = FALSE
        /\ \A s \in Runs : s # r => runs'[s] = runs[s]
    BY <1>2, InsertedRow
  <2>4. ASSUME NEW s \in Runs, runs'[s] # None
        PROVE  runs'[s].coordinator
               <=> \E p \in Requests : receipts[p] # None /\ receipts[p].run = s
    <3>1. CASE s = r
      BY <2>2, <2>3, <3>1
    <3>2. CASE s # r
      BY <2>3, <2>4, <3>2 DEF StartFacts
    <3> QED
      BY <3>1, <3>2
  <2>5. \A p \in Requests : receipts[p] # None =>
          /\ coordinators[receipts[p].run] = receipts[p].payload
          /\ StartTransition([request |-> p, run |-> receipts[p].run]) \in history'
          /\ \A o \in Requests :
               receipts[o] # None /\ receipts[o].run = receipts[p].run => o = p
    BY <2>1 DEF StartFacts
  <2> QED
    BY <2>1, <2>4, <2>5 DEF StartFacts, StartTransition
<1>3. ASSUME NEW q \in Command, MoveRun(q)
      PROVE  StartFacts'
  <2>1. UNCHANGED <<coordinators, receipts>> /\ history \subseteq history'
    BY <1>3 DEF MoveRun
  <2>2. \A r \in Runs : runs'[r] # None =>
          runs[r] # None /\ runs'[r].coordinator = runs[r].coordinator
    <3>0. PICK r \in Runs : r = q.run
      BY <1>3, MoveAdvances
    <3>1. PICK entry, bound : Advance(r, entry, bound) /\ bound = runs[r].coordinator
      BY <1>3, <3>0, MoveAdvances
    <3>2. runs[r] # None
      BY <3>1 DEF Advance
    <3>3. /\ runs'[r].coordinator = bound
          /\ \A s \in Runs : s # r => runs'[s] = runs[s]
      BY <3>1, AdvancedRow
    <3> QED
      BY <3>1, <3>2, <3>3
  <2> QED
    BY <2>1, <2>2 DEF StartFacts, StartTransition
<1>4. ASSUME NEW q \in Command, StartRun(q)
      PROVE  StartFacts'
  <2>1. /\ q.run \in Runs /\ q.request \in Requests
        /\ ReceiptOf(q).run = q.run /\ ReceiptOf(q).payload = q.payload
        /\ ReceiptOf(q) # None
    BY <1>4, CommandFields, RowShapes DEF StartRun, ReceiptOf
  <2>2. /\ receipts' = [receipts EXCEPT ![q.request] = ReceiptOf(q)]
        /\ coordinators' = [coordinators EXCEPT ![q.run] = q.payload]
        /\ history' = history \cup {StartTransition(q)}
        /\ runs[q.run] # None /\ ~runs[q.run].coordinator
    BY <1>4 DEF StartRun, Bind, Startable
  <2>3. StartTransition([request |-> q.request, run |-> q.run]) = StartTransition(q)
    BY DEF StartTransition
  <2>4. \A p \in Requests : receipts[p] # None => receipts[p].run # q.run
    BY <2>1, <2>2 DEF StartFacts
  <2>5. receipts'[q.request] = ReceiptOf(q)
        /\ \A p \in Requests : p # q.request => receipts'[p] = receipts[p]
    BY <2>1, <2>2 DEF RowsTyped
  <2>6. coordinators'[q.run] = q.payload
        /\ \A r \in Runs : r # q.run => coordinators'[r] = coordinators[r]
    BY <2>1, <2>2 DEF RowsTyped
  <2>7. \A r \in Runs : runs'[r] # None =>
          /\ r = q.run => runs'[r].coordinator = TRUE
          /\ r # q.run => runs[r] # None /\ runs'[r].coordinator = runs[r].coordinator
    <3>0. PICK r \in Runs : r = q.run
      BY <1>4, StartAdvances
    <3>1. PICK entry : r = q.run /\ Advance(r, entry, TRUE)
      BY <1>4, <3>0, StartAdvances
    <3>2. PICK bound : bound = TRUE /\ Advance(r, entry, bound)
      BY <3>1
    <3>3. Advance(r, entry, bound)
      BY <3>2
    <3>4. /\ runs'[r].coordinator = bound
          /\ \A s \in Runs : s # r => runs'[s] = runs[s]
      BY <3>3, AdvancedRow
    <3> QED
      BY <3>1, <3>2, <3>4
  <2>8. ASSUME NEW r \in Runs, runs'[r] # None
        PROVE  runs'[r].coordinator
               <=> \E p \in Requests : receipts'[p] # None /\ receipts'[p].run = r
    <3>1. CASE r = q.run
      BY <2>1, <2>5, <2>7, <2>8, <3>1
    <3>2. CASE r # q.run
      <4>1. runs[r] # None /\ runs'[r].coordinator = runs[r].coordinator
        BY <2>7, <2>8, <3>2
      <4>2. \A p \in Requests : (receipts'[p] # None /\ receipts'[p].run = r)
                                <=> (receipts[p] # None /\ receipts[p].run = r)
        BY <1>4, <2>1, <2>5, <3>2 DEF StartRun
      <4> QED
        BY <4>1, <4>2 DEF StartFacts
    <3> QED
      BY <3>1, <3>2
  <2>9. ASSUME NEW p \in Requests, receipts'[p] # None
        PROVE  /\ coordinators'[receipts'[p].run] = receipts'[p].payload
               /\ StartTransition([request |-> p, run |-> receipts'[p].run]) \in history'
               /\ \A o \in Requests :
                    receipts'[o] # None /\ receipts'[o].run = receipts'[p].run => o = p
    <3>1. CASE p = q.request
      BY <2>1, <2>2, <2>3, <2>4, <2>5, <2>6, <3>1
    <3>2. CASE p # q.request
      <4>1. receipts'[p] = receipts[p] /\ receipts[p] # None
        BY <2>5, <2>9, <3>2
      <4>2. receipts[p].run \in Runs /\ receipts[p].run # q.run
        BY <2>4, <4>1, ReceiptsNameRuns
      <4>3. /\ coordinators[receipts[p].run] = receipts[p].payload
            /\ StartTransition([request |-> p, run |-> receipts[p].run]) \in history
            /\ \A o \in Requests :
                 receipts[o] # None /\ receipts[o].run = receipts[p].run => o = p
        BY <4>1 DEF StartFacts
      <4>4. StartTransition([request |-> p, run |-> receipts'[p].run]) \in history'
        BY <2>2, <4>1, <4>3
      <4> QED
        BY <2>1, <2>5, <2>6, <4>1, <4>2, <4>3, <4>4
    <3> QED
      BY <3>1, <3>2
  <2> QED
    BY <2>8, <2>9 DEF StartFacts, StartTransition
<1>5. ASSUME NEW r \in Runs, NEW payload \in Payloads, CreateCoordinator(r, payload)
      PROVE  StartFacts'
  <2>1. \A p \in Requests : receipts[p] # None => receipts[p].run # r
    <3>1. \A p \in Requests : receipts[p] # None =>
            coordinators[receipts[p].run] = receipts[p].payload
      BY DEF StartFacts
    <3> QED
      BY <1>5, <3>1, ReceiptsNameRuns DEF CreateCoordinator
  <2>2. \A s \in Runs : s # r => coordinators'[s] = coordinators[s]
    BY <1>5 DEF CreateCoordinator, RowsTyped
  <2>3. \A p \in Requests : receipts[p] # None => receipts[p].run \in Runs
    BY ReceiptsNameRuns
  <2> QED
    BY <1>5, <2>1, <2>2, <2>3 DEF CreateCoordinator, StartFacts, StartTransition
<1> QED
  BY <1>1, <1>2, <1>3, <1>4, <1>5 DEF TableStep

\* What a Run is for stays.
LEMMA RowsPersist ==
  ASSUME RowsTyped, TableStep, NEW r \in Runs, runs[r] # None
  PROVE  /\ runs'[r] # None /\ runs'[r].key = runs[r].key
         /\ runs'[r].root = runs[r].root /\ runs'[r].source = runs[r].source
         /\ runs'[r].incident = runs[r].incident
<1>1. CASE UNCHANGED runs
  BY <1>1
<1>2. ASSUME NEW q \in Command, NEW s \in Runs, CreateRun(q, s)
      PROVE  runs'[r] = runs[r]
  BY <1>2, InsertedRow DEF CreateRun
<1>3. ASSUME NEW s \in Runs, NEW entry, NEW bound, Advance(s, entry, bound)
      PROVE  /\ runs'[r] # None /\ runs'[r].key = runs[r].key
             /\ runs'[r].root = runs[r].root /\ runs'[r].source = runs[r].source
             /\ runs'[r].incident = runs[r].incident
  BY <1>3, AdvancedRow
<1> QED
  BY <1>1, <1>2, <1>3, MoveAdvances, StartAdvances DEF TableStep, Quiet, CreateCoordinator

Links(r) ==
  IF runs[r].key \in Events
  THEN runs[r].root = r /\ runs[r].source = None
  ELSE LET root == runs[r].root
           source == runs[r].source IN
       /\ root \in Runs /\ runs[root] # None /\ runs[root].key \in Events
       /\ source \in Runs /\ runs[source] # None /\ runs[source].root = root
       /\ runs[r].incident = runs[root].incident

Acyclic ==
  \A group \in (SUBSET Runs) \ {{}} :
    \E r \in group : runs[r] = None \/ runs[r].source \notin group

LEMMA LinksStay ==
  ASSUME RowsTyped, TableStep, NEW r \in Runs, runs[r] # None, Links(r)
  PROVE  Links(r)'
<1>1. /\ runs'[r].key = runs[r].key /\ runs'[r].root = runs[r].root
      /\ runs'[r].source = runs[r].source /\ runs'[r].incident = runs[r].incident
  BY RowsPersist
<1>2. CASE runs[r].key \in Events
  BY <1>1, <1>2 DEF Links
<1>3. CASE runs[r].key \notin Events
  <2>1. PICK root \in Runs, source \in Runs : root = runs[r].root /\ source = runs[r].source
    BY <1>3 DEF Links
  <2>2. /\ runs[root] # None /\ runs[root].key \in Events
        /\ runs[source] # None /\ runs[source].root = root
        /\ runs[r].incident = runs[root].incident
    BY <1>3, <2>1 DEF Links
  <2>3. /\ runs'[root] # None /\ runs'[root].key = runs[root].key
        /\ runs'[root].incident = runs[root].incident
        /\ runs'[source] # None /\ runs'[source].root = runs[source].root
    BY <2>2, RowsPersist
  <2> QED
    BY <1>1, <1>3, <2>1, <2>2, <2>3 DEF Links
<1> QED
  BY <1>2, <1>3

LEMMA LineageStep ==
  ASSUME RowsTyped, LineageSound, TableStep
  PROVE  LineageSound'
<1>1. (\A r \in Runs : runs[r] # None => Links(r)) /\ Acyclic
  BY DEF LineageSound, Links, Acyclic
<1>2. ASSUME NEW q \in Command, NEW r \in Runs, CreateRun(q, r)
      PROVE  Links(r)'
  <2>1. /\ runs'[r] = NewRun(r, q) /\ runs'[r].key = q.key
        /\ runs'[r].incident = q.incident /\ runs[r] = None
    BY <1>2, InsertedRow DEF CreateRun
  <2>2. CASE q.kind = "original"
    BY <2>1, <2>2, CommandFields DEF NewRun, Links
  <2>3. CASE q.kind = "replay"
    <3>1. /\ q.key \notin Events /\ q.root \in Runs /\ q.source \in Runs
          /\ runs'[r].root = q.root /\ runs'[r].source = q.source
      BY <2>1, <2>3, CommandFields, KeysAssumption DEF NewRun
    <3>2. /\ runs[q.root] # None /\ runs[q.source] # None
          /\ runs[q.root].key \in Events /\ runs[q.source].root = q.root
          /\ runs[q.root].incident = q.incident
      BY <1>2, <2>3 DEF CreateRun, ValidLineage
    <3>3. runs'[q.root] = runs[q.root] /\ runs'[q.source] = runs[q.source]
      BY <1>2, <2>1, <3>1, <3>2, InsertedRow
    <3> QED
      BY <2>1, <3>1, <3>2, <3>3 DEF Links
  <2> QED
    BY <1>2, <2>2, <2>3 DEF CreateRun
<1>3. ASSUME NEW r \in Runs, runs'[r] # None
      PROVE  Links(r)'
  <2>1. CASE runs[r] # None
    BY <1>1, <2>1, LinksStay
  <2>2. CASE runs[r] = None
    <3>1. ASSUME NEW s \in Runs, NEW entry, NEW bound, Advance(s, entry, bound)
          PROVE  FALSE
      BY <1>3, <2>2, <3>1, AdvancedRow DEF Advance
    <3>2. CASE UNCHANGED runs
      BY <1>3, <2>2, <3>2
    <3>3. ASSUME NEW q \in Command, NEW s \in Runs, CreateRun(q, s)
          PROVE  Links(r)'
      <4>1. s = r
        BY <1>3, <2>2, <3>3, InsertedRow
      <4> QED
        BY <1>2, <3>3, <4>1
    <3> QED
      BY <3>1, <3>2, <3>3, MoveAdvances, StartAdvances DEF TableStep, Quiet, CreateCoordinator
  <2> QED
    BY <2>1, <2>2
<1>4. Acyclic'
  <2>1. CASE UNCHANGED runs
    BY <1>1, <2>1 DEF Acyclic
  <2>2. ASSUME NEW s \in Runs, NEW entry, NEW bound, Advance(s, entry, bound)
        PROVE  Acyclic'
    <3>1. \A r \in Runs : /\ runs'[r] = None <=> runs[r] = None
                          /\ runs[r] # None => runs'[r].source = runs[r].source
      <4>1. /\ runs[s] # None /\ runs'[s] # None /\ runs'[s].source = runs[s].source
            /\ \A r \in Runs : r # s => runs'[r] = runs[r]
        BY <2>2, AdvancedRow DEF Advance
      <4> QED
        BY <4>1
    <3> QED
      BY <1>1, <3>1 DEF Acyclic
  <2>3. ASSUME NEW q \in Command, NEW r \in Runs, CreateRun(q, r),
               NEW group \in (SUBSET Runs) \ {{}}
        PROVE  \E s \in group : runs'[s] = None \/ runs'[s].source \notin group
    <3>1. runs[r] = None /\ \A s \in Runs : s # r => runs'[s] = runs[s]
      BY <2>3, InsertedRow DEF CreateRun
    <3>2. CASE r \notin group
      BY <1>1, <3>1, <3>2 DEF Acyclic
    <3>3. CASE r \in group /\ group = {r}
      <4>1. runs'[r].source # r
        <5>1. runs'[r] = NewRun(r, q) /\ q.kind \in {"original", "replay"}
          BY <2>3, InsertedRow DEF CreateRun
        <5>2. CASE q.kind = "original"
          BY <5>1, <5>2, NullAssumption DEF NewRun
        <5>3. CASE q.kind = "replay"
          <6>1. runs[q.source] # None
            BY <2>3, <5>3 DEF CreateRun, ValidLineage
          <6>2. runs'[r].source = q.source
            BY <5>1, <5>3 DEF NewRun
          <6> QED
            BY <3>1, <6>1, <6>2
        <5> QED
          BY <5>1, <5>2, <5>3
      <4> QED
        BY <3>3, <4>1
    <3>4. CASE r \in group /\ group # {r}
      <4>1. PICK s \in group \ {r} : runs[s] = None \/ runs[s].source \notin group \ {r}
        <5>1. group \ {r} \in (SUBSET Runs) \ {{}}
          BY <3>4
        <5> QED
          BY <1>1, <5>1 DEF Acyclic
      <4>2. runs[s] # None => runs[s].source # r
        BY <1>1, <3>1, NullAssumption DEF Links
      <4> QED
        BY <3>1, <4>1, <4>2
    <3> QED
      BY <3>2, <3>3, <3>4
  <2> QED
    BY <2>1, <2>2, <2>3, MoveAdvances, StartAdvances
       DEF TableStep, Quiet, CreateCoordinator, Acyclic
<1> QED
  BY <1>3, <1>4 DEF LineageSound, Links, Acyclic
-----------------------------------------------------------------------------
\* Look-ups

LEMMA LookupCases ==
  ASSUME NEW q
  PROVE  /\ q.kind \in {"original", "replay"} =>
              /\ Known(q) <=> \E r \in Runs : HasKey(q.key, r)
              /\ Known(q)' <=> \E r \in Runs : HasKey(q.key, r)'
         /\ q.kind = "original" =>
              /\ Matches(q) <=>
                   \E r \in Runs : HasKey(q.key, r) /\ runs[r].incident = q.incident
              /\ Matches(q)' <=>
                   \E r \in Runs : HasKey(q.key, r)' /\ runs'[r].incident = q.incident
         /\ q.kind = "replay" =>
              /\ Matches(q) <=>
                   \E r \in Runs : /\ HasKey(q.key, r) /\ runs[r].incident = q.incident
                                  /\ runs[r].root = q.root /\ runs[r].source = q.source
              /\ Matches(q)' <=>
                   \E r \in Runs : /\ HasKey(q.key, r)' /\ runs'[r].incident = q.incident
                                  /\ runs'[r].root = q.root /\ runs'[r].source = q.source
         /\ q.kind = "move" =>
              /\ Known(q) <=> \E h \in history : h.request = q.request
              /\ Known(q)' <=> \E h \in history' : h.request = q.request
              /\ Matches(q) <=> EntryOf(q) \in history
              /\ Matches(q)' <=> EntryOf(q) \in history'
         /\ q.kind = "start" =>
              /\ Known(q) <=> receipts[q.request] # None
              /\ Known(q)' <=> receipts'[q.request] # None
              /\ Matches(q) <=> receipts[q.request] = ReceiptOf(q)
              /\ Matches(q)' <=> receipts'[q.request] = ReceiptOf(q)
<1>1. q.kind \in {"original", "replay"} =>
        /\ Known(q) <=> \E r \in Runs : HasKey(q.key, r)
        /\ Known(q)' <=> \E r \in Runs : HasKey(q.key, r)'
  BY DEF Known
<1>2. q.kind = "original" =>
        /\ Matches(q) <=>
             \E r \in Runs : HasKey(q.key, r) /\ runs[r].incident = q.incident
        /\ Matches(q)' <=>
             \E r \in Runs : HasKey(q.key, r)' /\ runs'[r].incident = q.incident
  BY DEF Matches
<1>3. q.kind = "replay" =>
        /\ Matches(q) <=>
             \E r \in Runs : /\ HasKey(q.key, r) /\ runs[r].incident = q.incident
                            /\ runs[r].root = q.root /\ runs[r].source = q.source
        /\ Matches(q)' <=>
             \E r \in Runs : /\ HasKey(q.key, r)' /\ runs'[r].incident = q.incident
                            /\ runs'[r].root = q.root /\ runs'[r].source = q.source
  BY DEF Matches
<1>4. q.kind = "move" =>
        /\ Known(q) <=> \E h \in history : h.request = q.request
        /\ Known(q)' <=> \E h \in history' : h.request = q.request
        /\ Matches(q) <=> EntryOf(q) \in history
        /\ Matches(q)' <=> EntryOf(q) \in history'
  BY DEF Known, Matches, EntryOf
<1>5. q.kind = "start" =>
        /\ Known(q) <=> receipts[q.request] # None
        /\ Known(q)' <=> receipts'[q.request] # None
        /\ Matches(q) <=> receipts[q.request] = ReceiptOf(q)
        /\ Matches(q)' <=> receipts'[q.request] = ReceiptOf(q)
  BY DEF Known, Matches, ReceiptOf
<1> QED
  BY <1>1, <1>2, <1>3, <1>4, <1>5, Zenon

LEMMA MatchKnows ==
  ASSUME NEW q \in Command, Matches(q)
  PROVE  Known(q)
<1>1. CASE q.kind \in {"original", "replay"}
  BY <1>1, LookupCases
<1>2. CASE q.kind = "move"
  <2>1. EntryOf(q).request = q.request
    BY DEF EntryOf
  <2> QED
    BY <1>2, <2>1, LookupCases
<1>3. CASE q.kind = "start"
  BY <1>3, LookupCases, RowShapes
<1> QED
  BY <1>1, <1>2, <1>3, CommandFields

\* Receipts and history rows stay, too.
LEMMA RecordsPersist ==
  ASSUME RowsTyped, TableStep
  PROVE  /\ history \subseteq history'
         /\ \A p \in Requests : receipts[p] # None => receipts'[p] = receipts[p]
<1>1. CASE Quiet
  BY <1>1 DEF Quiet
<1>2. ASSUME NEW q \in Command, NEW r \in Runs, CreateRun(q, r)
      PROVE  history \subseteq history' /\ UNCHANGED receipts
  BY <1>2 DEF CreateRun
<1>3. ASSUME NEW q \in Command, MoveRun(q)
      PROVE  history \subseteq history' /\ UNCHANGED receipts
  BY <1>3 DEF MoveRun
<1>4. ASSUME NEW q \in Command, StartRun(q)
      PROVE  /\ history \subseteq history'
             /\ \A p \in Requests : receipts[p] # None => receipts'[p] = receipts[p]
  BY <1>4 DEF StartRun, Bind, RowsTyped
<1>5. ASSUME NEW r \in Runs, NEW payload \in Payloads, CreateCoordinator(r, payload)
      PROVE  history \subseteq history' /\ UNCHANGED receipts
  BY <1>5 DEF CreateCoordinator
<1> QED
  BY <1>1, <1>2, <1>3, <1>4, <1>5 DEF TableStep

\* Once a key is taken, what its look-up says of a command never changes.
LEMMA LookupStable ==
  ASSUME RowsTyped, UniqueKeys', UniqueRequests', TableStep,
         NEW q \in Command, Known(q)
  PROVE  Known(q)' /\ (Matches(q)' <=> Matches(q))
<1>1. CASE q.kind \in {"original", "replay"}
  <2>1. PICK r \in Runs : HasKey(q.key, r)
    BY <1>1, LookupCases
  <2>2. runs[r] # None /\ runs[r].key = q.key
    BY <2>1 DEF HasKey
  <2>3. /\ runs'[r] # None /\ runs'[r].key = runs[r].key
        /\ runs'[r].root = runs[r].root /\ runs'[r].source = runs[r].source
        /\ runs'[r].incident = runs[r].incident
    BY <2>2, RowsPersist
  <2>4. \A s \in Runs : HasKey(q.key, s)' <=> s = r
    BY <2>2, <2>3 DEF HasKey, UniqueKeys
  <2>5. \A s \in Runs : HasKey(q.key, s) <=> s = r
    <3>1. ASSUME NEW s \in Runs, HasKey(q.key, s)
          PROVE  HasKey(q.key, s)'
      BY <3>1, RowsPersist DEF HasKey
    <3> QED
      BY <2>1, <2>4, <3>1
  <2>6. Known(q)'
    BY <1>1, <2>4, LookupCases
  <2>7. CASE q.kind = "original"
    BY <2>3, <2>4, <2>5, <2>6, <2>7, LookupCases
  <2>8. CASE q.kind = "replay"
    BY <2>3, <2>4, <2>5, <2>6, <2>8, LookupCases
  <2> QED
    BY <1>1, <2>7, <2>8
<1>2. CASE q.kind = "move"
  <2>1. PICK h \in history : h.request = q.request
    BY <1>2, LookupCases
  <2>2. h \in history' /\ history \subseteq history'
    BY RecordsPersist
  <2>3. q.request # None
    BY <1>2, CommandFields, NullAssumption
  <2>4. EntryOf(q) \in history' => EntryOf(q) = h
    <3>1. EntryOf(q).request = q.request
      BY DEF EntryOf
    <3> QED
      BY <2>1, <2>2, <2>3, <3>1 DEF UniqueRequests
  <2> QED
    BY <1>2, <2>1, <2>2, <2>4, LookupCases
<1>3. CASE q.kind = "start"
  BY <1>3, LookupCases, RecordsPersist, CommandFields
<1> QED
  BY <1>1, <1>2, <1>3, CommandFields

LEMMA ValidLineageStable ==
  ASSUME RowsTyped, TableStep, NEW q \in Command, q.kind = "replay", ValidLineage(q)
  PROVE  ValidLineage(q)'
<1>1. PICK root \in Runs, source \in Runs : root = q.root /\ source = q.source
  BY CommandFields
<1>2. /\ runs[root] # None /\ runs[source] # None
  BY <1>1 DEF ValidLineage
<1>3. /\ runs'[root] # None /\ runs'[root].key = runs[root].key
      /\ runs'[root].incident = runs[root].incident
      /\ runs'[source] # None /\ runs'[source].root = runs[source].root
      /\ runs'[source].incident = runs[source].incident
  BY <1>2, RowsPersist
<1> QED
  BY <1>1, <1>3 DEF ValidLineage

\* Other callers' steps do not disturb a call.
LEMMA CallStable ==
  ASSUME RowsTyped, UniqueKeys', UniqueRequests', TableStep, inbox \subseteq inbox',
         NEW k \in Call, CallOK(k)
  PROVE  CallOK(k)'
<1>1. PICK q \in Command : q = k.cmd
  BY DEF Call
<1>2. k.at \in {"applied", "identical"} => Matches(q)'
  BY <1>1, LookupStable, MatchKnows DEF CallOK
<1>3. k.at = "differs" => Known(q)' /\ ~Matches(q)'
  BY <1>1, LookupStable DEF CallOK
<1>4. q.kind # "start" => k.at # "error" /\ (k.at = "breach" => Known(q)')
  BY <1>1, LookupStable DEF CallOK
<1>5. k.at = "insert" => /\ q.kind \in {"original", "replay"}
                         /\ q.kind = "original" => q.key \in inbox'
                         /\ q.kind = "replay" => ValidLineage(q)'
  BY <1>1, ValidLineageStable DEF CallOK
<1>6. /\ k.at = "event" => q.kind = "original"
      /\ k.at = "lineage" => q.kind = "replay"
      /\ k.at = "apply" => q.kind = "move" /\ q.move[3] \in Legal[q.move[1]]
      /\ k.at \in {"start", "competing"} => q.kind = "start"
  BY <1>1 DEF CallOK
<1> QED
  BY <1>1, <1>2, <1>3, <1>4, <1>5, <1>6 DEF CallOK
-----------------------------------------------------------------------------
\* The steps of a call

\* What suffices for a step that gives the caller c the call j.
LEMMA NewCall ==
  ASSUME TypeOK, CallsInv, UniqueKeys', UniqueRequests', TableStep, inbox \subseteq inbox',
         NEW c \in Callers, NEW j \in Call, call' = [call EXCEPT ![c] = j], CallOK(j)'
  PROVE  CallsInv' /\ call' \in [Callers -> Call \cup {None}]
<1>1. call' \in [Callers -> Call \cup {None}]
  BY DEF TypeOK
<1>2. ASSUME NEW d \in Callers, NEW k \in Call, call'[d] = k
      PROVE  CallOK(k)'
  <2>1. CASE d = c
    <3>1. k = j
      BY <1>2, <2>1 DEF TypeOK
    <3> QED
      BY <3>1
  <2>2. CASE d # c
    <3>1. call[d] = k
      BY <1>2, <2>2 DEF TypeOK
    <3>2. CallOK(k)
      BY <1>2, <3>1 DEF CallsInv
    <3>3. RowsTyped
      BY DEF TypeOK, RowsTyped
    <3> QED
      BY <3>2, <3>3, CallStable
  <2> QED
    BY <2>1, <2>2
<1> QED
  BY <1>1, <1>2 DEF CallsInv

LEMMA CallGoes ==
  ASSUME TypeOK, CallsInv, UniqueKeys', UniqueRequests', TableStep, inbox \subseteq inbox',
         NEW c \in Callers, NEW k \in Call, k = call[c],
         NEW label \in Steps \cup Answers, Goto(c, label),
         \A j \in Call : j.at = label /\ j.cmd = k.cmd => CallOK(j)'
  PROVE  CallsInv' /\ call' \in [Callers -> Call \cup {None}]
<1>1. PICK j : j = [k EXCEPT !.at = label]
  OBVIOUS
<1>2. j \in Call /\ j.at = label /\ j.cmd = k.cmd
  BY <1>1 DEF Call
<1>3. call' = [call EXCEPT ![c] = j]
  BY <1>1 DEF Goto
<1> QED
  BY <1>2, <1>3, NewCall

\* A label about which CallOK says nothing but for starts.
LEMMA PlainLabel ==
  ASSUME TypeOK, CallsInv, UniqueKeys', UniqueRequests', TableStep, inbox \subseteq inbox',
         NEW c \in Callers, NEW k \in Call, k = call[c],
         NEW label \in {"read", "refuse", "miss", "refused", "conflict"}, Goto(c, label)
  PROVE  CallsInv' /\ call' \in [Callers -> Call \cup {None}]
<1>1. \A j \in Call : j.at = label /\ j.cmd = k.cmd => CallOK(j)'
  BY DEF CallOK
<1>2. label \in Steps \cup Answers
  BY DEF Steps, Answers
<1> QED
  BY <1>1, <1>2, CallGoes

\* A start may break or end as it likes.
LEMMA StartLabel ==
  ASSUME TypeOK, CallsInv, UniqueKeys', UniqueRequests', TableStep, inbox \subseteq inbox',
         NEW c \in Callers, NEW k \in Call, k = call[c], k.cmd.kind = "start",
         NEW label \in {"start", "breach", "competing", "error"}, Goto(c, label)
  PROVE  CallsInv' /\ call' \in [Callers -> Call \cup {None}]
<1>1. \A j \in Call : j.at = label /\ j.cmd = k.cmd => CallOK(j)'
  BY DEF CallOK
<1>2. label \in Steps \cup Answers
  BY DEF Steps, Answers
<1> QED
  BY <1>1, <1>2, CallGoes

LEMMA VerdictLabel ==
  ASSUME TypeOK, NEW q \in Command, Known(q), UniqueKeys', UniqueRequests', TableStep, inbox \subseteq inbox',
         NEW j \in Call, j.cmd = q, j.at = Verdict(q)
  PROVE  CallOK(j)' /\ Verdict(q) \in Answers
<1>1. RowsTyped
  BY DEF TypeOK, RowsTyped
<1>2. Known(q)' /\ (Matches(q)' <=> Matches(q))
  BY <1>1, LookupStable
<1>3. CASE Matches(q)
  <2>1. j.at = "identical"
    BY <1>3 DEF Verdict
  <2> QED
    BY <1>2, <1>3, <2>1 DEF CallOK, Answers
<1>4. CASE ~Matches(q)
  <2>1. j.at = "differs"
    BY <1>4 DEF Verdict
  <2> QED
    BY <1>2, <1>4, <2>1 DEF CallOK, Answers
<1> QED
  BY <1>3, <1>4
LEMMA CallerSteps ==
  ASSUME TypeOK, CallsInv, \A r \in Runs : Chain(r), UniqueKeys', UniqueRequests',
         TableStep, inbox \subseteq inbox', NEW c \in Callers, CallerStep(c)
  PROVE  CallsInv' /\ call' \in [Callers -> Call \cup {None}]
<1> DEFINE Goal == CallsInv' /\ call' \in [Callers -> Call \cup {None}]
<1>1. ASSUME call[c] # None
      PROVE  \E k \in Call, q \in Command :
               k = call[c] /\ q = k.cmd /\ CallOK(k)
  BY <1>1 DEF TypeOK, CallsInv, Call
<1>2. ASSUME NEW q \in Command, Find(c, q)
      PROVE  Goal
  <2>1. PICK j : j = [at |-> IF Known(q) THEN Verdict(q) ELSE First[q.kind], cmd |-> q]
    OBVIOUS
  <2>2. call' = [call EXCEPT ![c] = j]
    BY <1>2, <2>1 DEF Find
  <2>3. CASE Known(q)
    <3>1. j = [at |-> Verdict(q), cmd |-> q]
      BY <2>1, <2>3
    <3>2. Verdict(q) \in Answers
      BY DEF Verdict, Answers
    <3>3. j \in Call /\ j.at = Verdict(q) /\ j.cmd = q
      BY <3>1, <3>2 DEF Call
    <3> QED
      BY <2>2, <2>3, <3>3, VerdictLabel, NewCall
  <2>4. CASE ~Known(q)
    <3>1. j = [at |-> First[q.kind], cmd |-> q]
      BY <2>1, <2>4
    <3>2. /\ First[q.kind] \in Steps
          /\ First[q.kind] = "event" => q.kind = "original"
          /\ First[q.kind] = "lineage" => q.kind = "replay"
          /\ First[q.kind] \in {"event", "lineage", "read"}
      BY CommandFields DEF First, Steps
    <3>3. j \in Call /\ j.at = First[q.kind] /\ j.cmd = q
      BY <3>1, <3>2 DEF Call
    <3>4. CallOK(j)'
      BY <3>2, <3>3 DEF CallOK
    <3> QED
      BY <2>2, <3>3, <3>4, NewCall
  <2> QED
    BY <2>3, <2>4
<1>3. CASE Recheck(c)
  <2>1. PICK k \in Call, q \in Command : k = call[c] /\ q = k.cmd /\ CallOK(k)
    BY <1>1, <1>3 DEF Recheck, At
  <2>2. CASE Known(q) /\ Goto(c, Verdict(q))
    <3>1. PICK label : label = Verdict(q)
      OBVIOUS
    <3>2. label \in Steps \cup Answers
      BY <3>1 DEF Verdict, Answers
    <3>3. \A j \in Call : j.at = label /\ j.cmd = k.cmd => CallOK(j)'
      BY <2>1, <2>2, <3>1, VerdictLabel
    <3> QED
      BY <2>1, <2>2, <3>1, <3>2, <3>3, CallGoes
  <2>3. CASE Goto(c, "refused") \/ Goto(c, "conflict")
    BY <2>1, <2>3, PlainLabel
  <2>4. CASE /\ At(c, "breach") /\ ~Known(q)
             /\ Goto(c, IF q.kind = "start" THEN "competing"
                        ELSE IF q.kind = "move" THEN "error" ELSE "refused")
    <3>1. q.kind = "start"
      BY <2>1, <2>4 DEF At, CallOK
    <3>2. Goto(c, "competing")
      BY <2>4, <3>1
    <3> QED
      BY <2>1, <3>1, <3>2, StartLabel
  <2> QED
    BY <1>3, <2>1, <2>2, <2>3, <2>4 DEF Recheck
<1>4. CASE CheckEvent(c)
  <2>1. PICK k \in Call, q \in Command : k = call[c] /\ q = k.cmd /\ CallOK(k)
    BY <1>1, <1>4 DEF CheckEvent, At
  <2>2. q.kind = "original"
    BY <1>4, <2>1 DEF CheckEvent, At, CallOK
  <2>3. CASE q.key \in inbox /\ Goto(c, "insert")
    <3>1. \A j \in Call : j.at = "insert" /\ j.cmd = k.cmd => CallOK(j)'
      BY <2>1, <2>2, <2>3 DEF CallOK
    <3>2. "insert" \in Steps \cup Answers
      BY DEF Steps
    <3> QED
      BY <2>1, <2>3, <3>1, <3>2, CallGoes
  <2>4. CASE Goto(c, "refuse")
    BY <2>1, <2>4, PlainLabel
  <2> QED
    BY <1>4, <2>1, <2>3, <2>4 DEF CheckEvent
<1>5. CASE CheckLineage(c)
  <2>1. PICK k \in Call, q \in Command : k = call[c] /\ q = k.cmd /\ CallOK(k)
    BY <1>1, <1>5 DEF CheckLineage, At
  <2>2. q.kind = "replay"
    BY <1>5, <2>1 DEF CheckLineage, At, CallOK
  <2>3. CASE ValidLineage(q) /\ Goto(c, "insert")
    <3>1. ValidLineage(q)'
      BY <2>2, <2>3, ValidLineageStable DEF TypeOK, RowsTyped
    <3>2. \A j \in Call : j.at = "insert" /\ j.cmd = k.cmd => CallOK(j)'
      BY <2>1, <2>2, <3>1 DEF CallOK
    <3>3. "insert" \in Steps \cup Answers
      BY DEF Steps
    <3> QED
      BY <2>1, <2>3, <3>2, <3>3, CallGoes
  <2>4. CASE Goto(c, "refuse")
    BY <2>1, <2>4, PlainLabel
  <2> QED
    BY <1>5, <2>1, <2>3, <2>4 DEF CheckLineage
<1>6. CASE Insert(c)
  <2>1. PICK k \in Call, q \in Command : k = call[c] /\ q = k.cmd /\ CallOK(k)
    BY <1>1, <1>6 DEF Insert, At
  <2>2. q.kind \in {"original", "replay"}
    BY <1>6, <2>1 DEF Insert, At, CallOK
  <2>3. CASE (\E r \in Runs : HasKey(q.key, r)) /\ Goto(c, "breach")
    <3>1. Known(q)'
      BY <2>2, <2>3, LookupCases, LookupStable DEF TypeOK, RowsTyped
    <3>2. \A j \in Call : j.at = "breach" /\ j.cmd = k.cmd => CallOK(j)'
      BY <2>1, <3>1 DEF CallOK
    <3>3. "breach" \in Steps \cup Answers
      BY DEF Steps
    <3> QED
      BY <2>1, <2>3, <3>2, <3>3, CallGoes
  <2>4. ASSUME NEW r \in Runs, runs' = [runs EXCEPT ![r] = NewRun(r, q)],
               Goto(c, "applied")
        PROVE  Goal
    <3>1. runs'[r] = NewRun(r, q) /\ runs'[r] # None
      BY <2>2, <2>4, RowShapes DEF TypeOK
    <3>2. HasKey(q.key, r)' /\ runs'[r].incident = q.incident
      BY <3>1 DEF HasKey, NewRun
    <3>3. q.kind = "replay" => runs'[r].root = q.root /\ runs'[r].source = q.source
      BY <3>1 DEF NewRun
    <3>4. Matches(q)'
      BY <2>2, <3>2, <3>3, LookupCases
    <3>5. \A j \in Call : j.at = "applied" /\ j.cmd = k.cmd => CallOK(j)'
      BY <2>1, <3>4 DEF CallOK
    <3>6. "applied" \in Steps \cup Answers
      BY DEF Answers
    <3> QED
      BY <2>1, <2>4, <3>5, <3>6, CallGoes
  <2> QED
    BY <1>6, <2>1, <2>3, <2>4 DEF Insert
<1>7. CASE ReadForMove(c)
  <2>1. PICK k \in Call, q \in Command : k = call[c] /\ q = k.cmd /\ CallOK(k)
    BY <1>1, <1>7 DEF ReadForMove, At
  <2>2. CASE Goto(c, "refuse") \/ Goto(c, "miss")
    BY <2>1, <2>2, PlainLabel
  <2>3. CASE /\ q.kind = "move" /\ q.move[3] \in Legal[q.move[1]]
             /\ Goto(c, "apply")
    <3>1. \A j \in Call : j.at = "apply" /\ j.cmd = k.cmd => CallOK(j)'
      BY <2>1, <2>3 DEF CallOK
    <3>2. "apply" \in Steps \cup Answers
      BY DEF Steps
    <3> QED
      BY <2>1, <2>3, <3>1, <3>2, CallGoes
  <2> QED
    BY <1>7, <2>1, <2>2, <2>3 DEF ReadForMove
<1>8. CASE Apply(c)
  <2>1. PICK k \in Call, q \in Command : k = call[c] /\ q = k.cmd /\ CallOK(k)
    BY <1>1, <1>8 DEF Apply, At
  <2>2. q.kind = "move" /\ q.run \in Runs
    BY <1>8, <2>1, CommandFields DEF Apply, At, CallOK
  <2>3. CASE Goto(c, "miss")
    BY <2>1, <2>3, PlainLabel
  <2>4. CASE Expected(q) /\ Violates(EntryOf(q)) /\ Goto(c, "breach")
    <3>1. \A h \in history : h.run = q.run => h.revision # q.move[2] + 1
      <4>1. runs[q.run] # None /\ runs[q.run].revision = q.move[2]
        BY <2>4 DEF Expected
      <4>2. runs[q.run].revision \in Nat
        BY <2>2, <4>1 DEF TypeOK, RunRow
      <4>3. \A h \in history : h.run = q.run => h.revision \in 0..runs[q.run].revision
        BY <2>2, <4>1 DEF Chain
      <4> QED
        BY <4>1, <4>2, <4>3
    <3>2. Known(q)
      BY <2>2, <2>4, <3>1, LookupCases DEF Violates, EntryOf
    <3>3. Known(q)'
      BY <3>2, LookupStable DEF TypeOK, RowsTyped
    <3>4. \A j \in Call : j.at = "breach" /\ j.cmd = k.cmd => CallOK(j)'
      BY <2>1, <3>3 DEF CallOK
    <3>5. "breach" \in Steps \cup Answers
      BY DEF Steps
    <3> QED
      BY <2>1, <2>4, <3>4, <3>5, CallGoes
  <2>5. CASE history' = history \cup {EntryOf(q)} /\ Goto(c, "applied")
    <3>1. Matches(q)'
      BY <2>2, <2>5, LookupCases
    <3>2. \A j \in Call : j.at = "applied" /\ j.cmd = k.cmd => CallOK(j)'
      BY <2>1, <3>1 DEF CallOK
    <3>3. "applied" \in Steps \cup Answers
      BY DEF Answers
    <3> QED
      BY <2>1, <2>5, <3>2, <3>3, CallGoes
  <2> QED
    BY <1>8, <2>1, <2>3, <2>4, <2>5 DEF Apply
<1>9. CASE ReadForStart(c)
  <2>1. PICK k \in Call, q \in Command : k = call[c] /\ q = k.cmd /\ CallOK(k)
    BY <1>1, <1>9 DEF ReadForStart, At
  <2>2. k.cmd.kind = "start"
    BY <1>9, <2>1 DEF ReadForStart
  <2>3. CASE Goto(c, "refused")
    BY <2>1, <2>3, PlainLabel
  <2>4. CASE Goto(c, "error") \/ Goto(c, "start")
    BY <2>1, <2>2, <2>4, StartLabel
  <2> QED
    BY <1>9, <2>3, <2>4 DEF ReadForStart
<1>10. CASE Start(c)
  <2>1. PICK k \in Call, q \in Command : k = call[c] /\ q = k.cmd /\ CallOK(k)
    BY <1>1, <1>10 DEF Start, At
  <2>2. k.cmd.kind = "start" /\ q.request \in Requests
    BY <1>10, <2>1, CommandFields DEF Start, At, CallOK
  <2>3. CASE Goto(c, "miss")
    BY <2>1, <2>3, PlainLabel
  <2>4. CASE Goto(c, "breach")
    BY <2>1, <2>2, <2>4, StartLabel
  <2>5. CASE /\ receipts' = [receipts EXCEPT ![q.request] = ReceiptOf(q)]
             /\ Goto(c, "applied")
    <3>1. Matches(q)'
      BY <2>1, <2>2, <2>5, LookupCases DEF TypeOK
    <3>2. \A j \in Call : j.at = "applied" /\ j.cmd = k.cmd => CallOK(j)'
      BY <2>1, <3>1 DEF CallOK
    <3>3. "applied" \in Steps \cup Answers
      BY DEF Answers
    <3> QED
      BY <2>1, <2>5, <3>2, <3>3, CallGoes
  <2> QED
    BY <1>10, <2>1, <2>3, <2>4, <2>5 DEF Start
<1>11. CASE FindCompeting(c)
  <2>1. PICK k \in Call, q \in Command : k = call[c] /\ q = k.cmd /\ CallOK(k)
    BY <1>1, <1>11 DEF FindCompeting, At
  <2>2. k.cmd.kind = "start"
    BY <1>11, <2>1 DEF FindCompeting, At, CallOK
  <2>3. CASE Goto(c, "conflict")
    BY <2>1, <2>3, PlainLabel
  <2>4. CASE Goto(c, "error")
    BY <2>1, <2>2, <2>4, StartLabel
  <2> QED
    BY <1>11, <2>3, <2>4 DEF FindCompeting
<1>12. CASE Leave(c)
  <2>1. call' = [call EXCEPT ![c] = None] /\ None \notin Call
    BY <1>12, NoCallAssumption DEF Leave
  <2>2. \A d \in Callers, k \in Call : call'[d] = k => call[d] = k
    BY <2>1 DEF TypeOK
  <2>3. \A k \in Call : CallOK(k) => CallOK(k)'
    BY CallStable DEF TypeOK, RowsTyped
  <2> QED
    BY <2>1, <2>2, <2>3 DEF TypeOK, CallsInv
<1> QED
  BY <1>2, <1>3, <1>4, <1>5, <1>6, <1>7, <1>8, <1>9, <1>10, <1>11, <1>12 DEF CallerStep
-----------------------------------------------------------------------------
\* The invariant

RunsInv ==
  /\ TypeOK /\ CallsInv
  /\ UniqueKeys /\ UniqueRequests
  /\ HistoryChain /\ StartFacts /\ LineageSound

LEMMA InvInit == Init => RunsInv
<1> SUFFICES ASSUME Init
             PROVE  RunsInv
  OBVIOUS
<1>1. TypeOK
  BY DEF Init, EmptyTables, TypeOK
<1>2. CallsInv
  BY NoCallAssumption DEF Init, EmptyTables, CallsInv
<1>3. UniqueKeys /\ UniqueRequests
  BY DEF Init, EmptyTables, UniqueKeys, UniqueRequests
<1>4. HistoryChain
  BY DEF Init, EmptyTables, HistoryChain, Entries
<1>5. StartFacts
  BY DEF Init, EmptyTables, StartFacts
<1>6. LineageSound
  <2>1. \A r \in Runs : runs[r] = None
    BY DEF Init, EmptyTables
  <2>2. ASSUME NEW group \in (SUBSET Runs) \ {{}}
        PROVE  \E r \in group : runs[r] = None
    <3>1. PICK r : r \in group
      <4>1. group # {}
        OBVIOUS
      <4> QED
        BY <4>1
    <3>2. r \in Runs
      BY <3>1
    <3> QED
      BY <2>1, <3>1, <3>2
  <2> QED
    BY <2>1, <2>2 DEF LineageSound
<1> QED
  BY <1>1, <1>2, <1>3, <1>4, <1>5, <1>6 DEF RunsInv

LEMMA InvStep == RunsInv /\ [Next]_vars => RunsInv'
<1> SUFFICES ASSUME RunsInv, [Next]_vars
             PROVE  RunsInv'
  OBVIOUS
<1>1. TableStep /\ inbox \subseteq inbox'
  BY TableSteps DEF RunsInv
<1>2. RowsTyped
  BY DEF RunsInv, TypeOK, RowsTyped
<1>3. \A r \in Runs : Chain(r)
  BY ChainOfHistory DEF RunsInv
<1>4. RowsTyped'
  BY <1>1, <1>2, RowsTypedStep
<1>5. UniqueKeys' /\ UniqueRequests'
  BY <1>1, <1>2, UniqueKeysStep, UniqueRequestsStep DEF RunsInv
<1>6. HistoryChain'
  <2>1. \A r \in Runs : Chain(r)'
    BY <1>1, <1>2, <1>3, ChainStep
  <2>2. (HistoryChain <=> \A r \in Runs : Chain(r))'
    BY ChainOfHistory, PTL
  <2> QED
    BY <2>1, <2>2
<1>7. StartFacts'
  BY <1>1, <1>2, <1>3, StartFactsStep DEF RunsInv
<1>8. LineageSound'
  BY <1>1, <1>2, LineageStep DEF RunsInv
<1>9. CallsInv' /\ call' \in [Callers -> Call \cup {None}]
  <2>1. ASSUME NEW c \in Callers, CallerStep(c)
        PROVE  CallsInv' /\ call' \in [Callers -> Call \cup {None}]
    BY <1>1, <1>3, <1>5, <2>1, CallerSteps DEF RunsInv
  <2>2. CASE UNCHANGED call
    <3>1. \A k \in Call : CallOK(k) => CallOK(k)'
      BY <1>1, <1>2, <1>5, CallStable
    <3> QED
      BY <2>2, <3>1 DEF RunsInv, TypeOK, CallsInv
  <2> QED
    BY <2>1, <2>2 DEF Next, vars
<1>10. inbox' \subseteq Events
  <2>1. CASE UNCHANGED inbox
    BY <2>1 DEF RunsInv, TypeOK
  <2>2. ASSUME NEW e \in Events, Arrive(e)
        PROVE  inbox' \subseteq Events
    BY <2>2 DEF Arrive, RunsInv, TypeOK
  <2>3. ASSUME NEW c \in Callers, CallerStep(c)
        PROVE  UNCHANGED inbox
    BY <2>3, Zenon DEF CallerStep, Find, Recheck, CheckEvent, CheckLineage, Insert,
      ReadForMove, Apply, ReadForStart, Start, FindCompeting, Leave, tables
  <2>4. ASSUME NEW r \in Runs, NEW payload \in Payloads, CreateCoordinator(r, payload)
        PROVE  UNCHANGED inbox
    BY <2>4 DEF CreateCoordinator
  <2>5. CASE UNCHANGED vars
    BY <2>1, <2>5 DEF vars
  <2> QED
    BY <2>1, <2>2, <2>3, <2>4, <2>5 DEF Next
<1>11. TypeOK'
  BY <1>4, <1>9, <1>10 DEF TypeOK, RowsTyped
<1> QED
  BY <1>5, <1>6, <1>7, <1>8, <1>9, <1>11 DEF RunsInv

LEMMA RunsInvAlways == Spec => []RunsInv
BY InvInit, InvStep, PTL DEF Spec

\* Rows and calls are of their types, whatever was asked for.
THEOREM RunTypes == Spec => []TypeOK
<1>1. RunsInv => TypeOK
  BY DEF RunsInv
<1> QED
  BY <1>1, RunsInvAlways, PTL

\* The history of every Run is one unbroken legal path that ends in the
\* snapshot, for any number of callers of transition_run and start.
THEOREM OneHistory == Spec => []HistoryChain
<1>1. RunsInv => HistoryChain
  BY DEF RunsInv
<1> QED
  BY <1>1, RunsInvAlways, PTL

\* Run, Coordinator, history and receipt of a start agree, and a Run has one
\* start at most.
THEOREM StartsAgree == Spec => []StartFacts
<1>1. RunsInv => StartFacts
  BY DEF RunsInv
<1> QED
  BY <1>1, RunsInvAlways, PTL

\* Replays form trees below originals of their incident: no set of Runs, of any
\* size, is a cycle of sources.
THEOREM LineageTree == Spec => []LineageSound
<1>1. RunsInv => LineageSound
  BY DEF RunsInv
<1> QED
  BY <1>1, RunsInvAlways, PTL

\* No caller is told of its command what the tables do not have.
THEOREM TrueOutcomes == Spec => []OutcomesTrue
<1>1. RunsInv => OutcomesTrue
  <2> SUFFICES ASSUME RunsInv, NEW c \in Callers, call[c] # None
               PROVE  /\ call[c].at \in {"applied", "identical"} => Matches(call[c].cmd)
                      /\ call[c].at = "differs" =>
                           Known(call[c].cmd) /\ ~Matches(call[c].cmd)
    BY DEF OutcomesTrue
  <2>1. PICK k \in Call : k = call[c] /\ CallOK(k)
    BY DEF RunsInv, TypeOK, CallsInv
  <2> QED
    BY <2>1 DEF CallOK
<1> QED
  BY <1>1, RunsInvAlways, PTL

\* A violated constraint has always an owner of the key, so creations and moves
\* never end in PersistenceIntegrityError.
THEOREM RacesLost == Spec => []RacesExplained
<1>1. RunsInv => RacesExplained
  <2> SUFFICES ASSUME RunsInv, NEW c \in Callers, call[c] # None,
                      call[c].cmd.kind # "start"
               PROVE  /\ call[c].at # "error"
                      /\ call[c].at = "breach" => Known(call[c].cmd)
    BY DEF RacesExplained
  <2>1. PICK k \in Call : k = call[c] /\ CallOK(k)
    BY DEF RunsInv, TypeOK, CallsInv
  <2> QED
    BY <2>1 DEF CallOK
<1> QED
  BY <1>1, RunsInvAlways, PTL

\* Runs move along legal edges only, one revision at a time.
THEOREM LegalRuns == Spec => RunsEvolve
<1> DEFINE Evolve(r) ==
      runs[r] # None /\ runs'[r] # runs[r] =>
        /\ runs'[r].status \in Legal[runs[r].status]
        /\ runs'[r].revision = runs[r].revision + 1
        /\ [runs'[r] EXCEPT !.status = runs[r].status, !.revision = runs[r].revision,
                            !.coordinator = runs[r].coordinator] = runs[r]
        /\ runs[r].coordinator => runs'[r].coordinator
<1>1. ASSUME RunsInv, [Next]_vars, NEW r \in Runs
      PROVE  Evolve(r)
  <2>1. TableStep /\ RowsTyped
    BY <1>1, TableSteps DEF RunsInv, TypeOK, RowsTyped
  <2>2. CASE UNCHANGED runs
    BY <2>2
  <2>3. ASSUME NEW q \in Command, NEW s \in Runs, CreateRun(q, s)
        PROVE  Evolve(r)
    BY <2>1, <2>3, InsertedRow DEF CreateRun
  <2>4. ASSUME NEW s \in Runs, NEW entry, NEW bound, Advance(s, entry, bound)
        PROVE  Evolve(r)
    <3>1. CASE s # r
      BY <2>1, <2>4, <3>1, AdvancedRow
    <3>2. CASE s = r
      <4>1. PICK row \in RunRow, next \in RunRow : row = runs[r] /\ next = runs'[r]
        BY <2>1, <2>4, <3>2, AdvancedRow
      <4>2. /\ next.status = entry.to /\ next.revision = entry.revision
            /\ next.coordinator = bound
            /\ next.key = row.key /\ next.root = row.root /\ next.source = row.source
            /\ next.incident = row.incident
        BY <2>1, <2>4, <3>2, <4>1, AdvancedRow
      <4>3. /\ entry.to \in Legal[row.status] /\ entry.revision = row.revision + 1
            /\ row.coordinator => bound
        BY <2>4, <3>2, <4>1 DEF Advance
      <4>4. [next EXCEPT !.status = row.status, !.revision = row.revision,
                         !.coordinator = row.coordinator] = row
        <5>1. row.status \in RunStatus /\ row.revision \in Nat /\ row.coordinator \in BOOLEAN
          BY DEF RunRow
        <5>2. PICK back : back = [next EXCEPT !.status = row.status,
                                              !.revision = row.revision,
                                              !.coordinator = row.coordinator]
          OBVIOUS
        <5>3. /\ back \in RunRow
              /\ back.status = row.status /\ back.revision = row.revision
              /\ back.coordinator = row.coordinator
              /\ back.key = next.key /\ back.root = next.root
              /\ back.source = next.source /\ back.incident = next.incident
          BY <5>1, <5>2 DEF RunRow
        <5>4. back = row
          BY <4>2, <5>3 DEF RunRow
        <5> QED
          BY <5>2, <5>4
      <4> QED
        BY <4>1, <4>2, <4>3, <4>4
    <3> QED
      BY <3>1, <3>2
  <2> QED
    BY <2>1, <2>2, <2>3, <2>4, MoveAdvances, StartAdvances
       DEF TableStep, Quiet, CreateCoordinator
<1>2. RunsInv /\ [Next]_vars => [\A r \in Runs : Evolve(r)]_vars
  BY <1>1
<1>3. RunsEvolve <=> [][\A r \in Runs : Evolve(r)]_vars
  BY DEF RunsEvolve
<1> QED
  BY <1>2, <1>3, RunsInvAlways, PTL DEF Spec

\* Whatever the calls read before they write, and whoever writes in between, the
\* tables change by whole commands that are valid when they are committed: a Run
\* for an event of the Inbox or of a sound lineage, a legal move from the expected
\* revision, a start of a Run nobody has started.
THEOREM RunsImplementLedger == Spec => LedgerSpec
<1>1. Init => EmptyTables
  BY DEF Init
<1>2. RunsInv /\ [Next]_vars => [LedgerNext]_tables
  BY LedgerSteps DEF RunsInv
<1> QED
  BY <1>1, <1>2, RunsInvAlways, PTL DEF Spec, LedgerSpec
=============================================================================
