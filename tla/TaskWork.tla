------------------------------ MODULE TaskWork ------------------------------
(***************************************************************************)
(* What the Task services promise of the Tasks of a Run, without lease     *)
(* rows, clocks, calls, Executions or receipts: a Worker may rely on being *)
(* alone with a Task, begins it when its dependencies have SUCCEEDED, and  *)
(* ends it.  AgentTasks implements this.                                   *)
(***************************************************************************)
EXTENDS TLAPS

CONSTANTS
  Workers, Tasks,
  Lifecycle  \* TRUE: somebody else may move a Task, too

VARIABLES
  stage,     \* "ABSENT" or the status of each Task
  needs,     \* the Tasks it depends on
  users,     \* the Workers that rely on being alone with it
  starters   \* the Workers that began it

vars == <<stage, needs, users, starters>>

Init ==
  /\ stage = [t \in Tasks |-> "ABSENT"]
  /\ needs = [t \in Tasks |-> {}]
  /\ users = [t \in Tasks |-> {}]
  /\ starters = [t \in Tasks |-> {}]

\* Nobody but w relies on the Task or began it.
Alone(w, t) == users[t] \cup starters[t] \subseteq {w}

Offer(t, deps) ==
  /\ stage[t] = "ABSENT"
  /\ \A d \in deps : stage[d] # "ABSENT"
  /\ stage' = [stage EXCEPT ![t] = "PENDING"]
  /\ needs' = [needs EXCEPT ![t] = deps]
  /\ UNCHANGED <<users, starters>>

Take(w, t) ==
  /\ stage[t] \in {"PENDING", "RUNNING"} \/ Lifecycle
  /\ Alone(w, t)
  /\ users' = [users EXCEPT ![t] = {w}]
  /\ UNCHANGED <<stage, needs, starters>>

\* Time passes, or a Worker gives up: any of them stop relying on what they had.
Without(gone) == [t \in Tasks |-> users[t] \ gone]
Drop(gone) ==
  /\ users' = Without(gone)
  /\ UNCHANGED <<stage, needs, starters>>

Begin(w, t) ==
  /\ stage[t] = "PENDING"
  /\ \A d \in needs[t] : stage[d] = "SUCCEEDED"
  /\ Alone(w, t)
  /\ stage' = [stage EXCEPT ![t] = "RUNNING"]
  /\ starters' = [starters EXCEPT ![t] = {w}]
  /\ UNCHANGED <<needs, users>>

\* Whoever ends a Task stops relying on it, if the answer reaches it.
End(w, t, final) ==
  /\ stage[t] = "RUNNING"
  /\ Alone(w, t)
  /\ stage' = [stage EXCEPT ![t] = final]
  /\ \E gone \in SUBSET {w} : users' = Without(gone)
  /\ UNCHANGED <<needs, starters>>

\* A lifecycle service moves the Task, whoever works on it.
Move(t, from, to) ==
  /\ Lifecycle
  /\ stage[t] = from
  /\ stage' = [stage EXCEPT ![t] = to]
  /\ UNCHANGED <<needs, users, starters>>

Moves ==
  ({"PENDING"} \X {"RUNNING", "CANCELLED", "SKIPPED"})
    \cup ({"RUNNING"} \X {"SUCCEEDED", "FAILED", "CANCELLED"})

Next ==
  \/ \E gone \in SUBSET Workers : Drop(gone)
  \/ \E t \in Tasks, deps \in SUBSET Tasks : Offer(t, deps)
  \/ \E w \in Workers, t \in Tasks :
       \/ Take(w, t) \/ Begin(w, t)
       \/ \E final \in {"SUCCEEDED", "FAILED"} : End(w, t, final)
  \/ \E t \in Tasks, m \in Moves : Move(t, m[1], m[2])

Spec == Init /\ [][Next]_vars

-----------------------------------------------------------------------------
\* What follows

\* Whoever relies on a Task is the one who began it, and there is one of them.
OneEach == \A t \in Tasks : \A v, w \in users[t] \cup starters[t] : v = w

Sets ==
  /\ users \in [Tasks -> SUBSET Workers]
  /\ starters \in [Tasks -> SUBSET Workers]

LEMMA WorkStep ==
  ASSUME Sets, OneEach, [Next]_vars
  PROVE  Sets' /\ OneEach'
<1>1. ASSUME NEW gone, users' = Without(gone), UNCHANGED starters
      PROVE  Sets' /\ OneEach'
  BY <1>1 DEF Sets, OneEach, Without
<1>2. ASSUME NEW w \in Workers, NEW t \in Tasks, Take(w, t) \/ Begin(w, t)
      PROVE  Sets' /\ OneEach'
  BY <1>2 DEF Take, Begin, Alone, Sets, OneEach
<1>3. CASE UNCHANGED <<users, starters>>
  BY <1>3 DEF Sets, OneEach
<1> QED
  BY <1>1, <1>2, <1>3 DEF Next, vars, Drop, End, Offer, Move

\* The work of a Task is that of one Worker, from the moment it relies on the
\* Task or begins it.
THEOREM OneWorkerEach == Spec => []OneEach
<1>1. Init => Sets /\ OneEach
  BY DEF Init, Sets, OneEach
<1>2. (Sets /\ OneEach) /\ [Next]_vars => (Sets /\ OneEach)'
  BY WorkStep
<1> QED
  BY <1>1, <1>2, PTL DEF Spec
=============================================================================
