------------------------------ MODULE KVStore -------------------------------
(***************************************************************************)
(* What the cache server promises its clients: a linearizable key-value   *)
(* store (spec.md sections 4.3 and 8, properties 1-3).                      *)
(*                                                                         *)
(* Each client has at most one request in flight.  A request takes effect  *)
(* on the store in exactly one atomic Apply step between its invocation    *)
(* and its reply; a GET returns the value the store held at that step.     *)
(* FLUSHALL empties the cache only and leaves the store as it was (the     *)
(* backend keeps every persisted value, section 4.3 "Flush-all").           *)
(***************************************************************************)
EXTENDS Naturals, KVRequest

CONSTANTS Clients

VARIABLES store, op

vars == <<store, op>>

TypeOK ==
    /\ store \in [Keys -> Vals \cup {NoVal}]
    /\ op \in [Clients -> [req : Request, res : Vals \cup {NoVal}, done : BOOLEAN]]

\* The backend may hold any persisted contents when the server starts.
Init ==
    /\ store \in [Keys -> Vals \cup {NoVal}]
    /\ op = [c \in Clients |-> [req |-> NoRequest, res |-> NoVal, done |-> TRUE]]

Invoke(c, r) ==
    /\ op[c].done
    /\ op' = [op EXCEPT ![c] = [req |-> r, res |-> NoVal, done |-> FALSE]]
    /\ UNCHANGED store

Apply(c) ==
    LET r == op[c].req IN
    /\ ~op[c].done
    /\ store' = CASE r.kind = "put" -> [store EXCEPT ![r.key] = r.val]
                  [] r.kind = "del" -> [store EXCEPT ![r.key] = NoVal]
                  [] OTHER          -> store
    /\ op' = [op EXCEPT ![c].done = TRUE,
                        ![c].res  = IF r.kind = "get" THEN store[r.key] ELSE NoVal]

Next == \E c \in Clients : Apply(c) \/ \E r \in Request : Invoke(c, r)

Spec == Init /\ [][Next]_vars
=============================================================================
