----------------------------- MODULE EventTrust -----------------------------
(***************************************************************************)
(* What the event ingress promises of a log of records, without workers,   *)
(* deliveries or failures: an event is trusted by its first record and     *)
(* started once, a record that its event's trust excludes is refused, and  *)
(* only records that were settled in this way are passed.                  *)
(***************************************************************************)
EXTENDS Integers, Sequences

CONSTANTS
  Events, Contents, Configs, RunIds,
  Poison,  \* any record the decoder refuses
  None     \* not trusted

Message == [event : Events, content : Contents]
Run == [run : RunIds, config : Configs]

VARIABLES
  log,      \* records, appended by the publisher
  trusted,  \* content by which each event is trusted, or None
  started,  \* the original Runs of each event
  refused,  \* positions with rejection evidence
  passed    \* the position the group would start from again

vars == <<log, trusted, started, refused, passed>>

Init ==
  /\ log = <<>>
  /\ trusted = [e \in Events |-> None]
  /\ started = [e \in Events |-> {}]
  /\ refused = {}
  /\ passed = 1

IsTrusted(i) == log[i] # Poison /\ trusted[log[i].event] = log[i].content

Settled(i) ==
  \/ i \in refused
  \/ IsTrusted(i) /\ started[log[i].event] # {}

Record(m) ==
  /\ log' = Append(log, m)
  /\ UNCHANGED <<trusted, started, refused, passed>>

Trust(i) ==
  /\ log[i] # Poison
  /\ trusted[log[i].event] = None
  /\ trusted' = [trusted EXCEPT ![log[i].event] = log[i].content]
  /\ UNCHANGED <<log, started, refused, passed>>

Refuse(i) ==
  /\ \/ log[i] = Poison
     \/ log[i] # Poison /\ trusted[log[i].event] \notin {None, log[i].content}
  /\ refused' = refused \cup {i}
  /\ UNCHANGED <<log, trusted, started, passed>>

Start(i, run) ==
  /\ IsTrusted(i)
  /\ started[log[i].event] = {}
  /\ \A e \in Events : \A r \in started[e] : r.run # run.run
  /\ started' = [started EXCEPT ![log[i].event] = {run}]
  /\ UNCHANGED <<log, trusted, refused, passed>>

Pass(n) ==
  /\ \A i \in 1..(n - 1) : Settled(i)
  /\ passed' = n
  /\ UNCHANGED <<log, trusted, started, refused>>

Next ==
  \/ \E m \in Message \cup {Poison} : Record(m)
  \/ \E i \in 1..Len(log) :
       Trust(i) \/ Refuse(i) \/ \E run \in Run : Start(i, run)
  \/ \E n \in 1..(Len(log) + 1) : Pass(n)

Spec == Init /\ [][Next]_vars
=============================================================================
