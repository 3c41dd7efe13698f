----------------------------- MODULE TaskLease ------------------------------
(***************************************************************************)
(* AgentTaskLeaseService: claim, renew and release.  Each is one           *)
(* transaction; claim locks the Task row and the lease row, renew and      *)
(* release touch the lease row alone, so each is atomic on its Task.       *)
(***************************************************************************)
EXTENDS AgentTables

LeaseCall(op, t, k, ttl) ==
  [op |-> op, task |-> t, token |-> k, request |-> None, exec |-> None,
   final |-> None, ttl |-> ttl, age |-> 0]

\* A Worker without a Lease claims one.  A Worker with a Lease renews it, and
\* relies on no more than it asks for if that is less; or it stops using the
\* Lease and releases it.
CallLease(w) ==
  /\ \/ /\ handle[w] = None
        /\ \E t \in Tasks, ttl \in 1..TTL :
             Calls(w, LeaseCall("claim", t, None, ttl))
        /\ UNCHANGED handle
     \/ /\ handle[w] # None
        /\ \E ttl \in 1..TTL :
             /\ Calls(w, LeaseCall("renew", handle[w].task, handle[w].token, ttl))
             /\ handle' = [handle EXCEPT ![w].left = IF ttl < @ THEN ttl ELSE @]
     \/ /\ handle[w] # None
        /\ Calls(w, LeaseCall("release", handle[w].task, handle[w].token, 0))
        /\ handle' = [handle EXCEPT ![w] = None]
  /\ UNCHANGED <<tableVars, faults>>

\* A lease may be claimed for a PENDING Task that has none, or an expired one.
NotHeld(t, age) ==                          \* mutant: the status is not checked
  leases[t] # None => ~Unexpired(leases[t].left, age)
Claimable(t, age) ==
  /\ HasStatus(t, "PENDING")
  /\ leases[t] # None => ~Unexpired(leases[t].left, age)

\* The lease of a takeover replaces the expired row.
Claim(w) ==
  /\ Calling(w, "claim")
  /\ LET t == call[w].task
         left == Expiry(call[w].ttl, call[w].age) IN
       /\ Claimable(t, call[w].age)
       /\ \E k \in Tokens \ HeldTokens :
            /\ leases' = [leases EXCEPT ![t] =
                 [owner |-> w, token |-> k, left |-> left]]
            /\ Answer(w, [task |-> t, token |-> k, left |-> left])
  /\ UNCHANGED <<rows, since, receipts>>

\* WHERE task, owner and token match
LeaseExists(t, w, k) == leases[t] # None    \* mutant: neither owner nor token
Owns(t, w, k) ==
  leases[t] # None /\ leases[t].owner = w /\ leases[t].token = k

Renew(w) ==
  /\ Calling(w, "renew")
  /\ LET t == call[w].task
         k == call[w].token
         left == Expiry(call[w].ttl, call[w].age) IN
       /\ Owns(t, w, k)
       /\ Unexpired(leases[t].left, call[w].age)
       /\ leases' = [leases EXCEPT ![t].left = left]
       /\ Answer(w, [task |-> t, token |-> k, left |-> left])
  /\ UNCHANGED <<rows, since, receipts>>

\* An expired lease may be released too.
Release(w) ==
  /\ Calling(w, "release")
  /\ LET t == call[w].task IN
       /\ Owns(t, w, call[w].token)
       /\ leases' = [leases EXCEPT ![t] = None]
  /\ Answer(w, None)
  /\ UNCHANGED <<rows, since, receipts>>
=============================================================================
