----------------------------- MODULE KVRequest ------------------------------
(***************************************************************************)
(* The client requests of the cache server that change or read the        *)
(* keyspace: GET, SET, DEL and FLUSHALL (ClientHandler::execute).  DEL     *)
(* with several keys is a sequence of single-key deletes in the code and   *)
(* is one request per key here.  The read-only commands (EXISTS, KEYS,     *)
(* DBSIZE, INFO, PING) change no state and are left out.                   *)
(***************************************************************************)
CONSTANTS Keys, Vals, NoVal

Kinds == {"get", "put", "del", "flushall"}

Request == [kind : Kinds, key : Keys, val : Vals \cup {NoVal}]

\* The request a client holds before its first one.
NoRequest == [kind |-> "flushall", key |-> CHOOSE k \in Keys : TRUE, val |-> NoVal]

GetReq(k)    == [kind |-> "get", key |-> k, val |-> NoVal]
PutReq(k, v) == [kind |-> "put", key |-> k, val |-> v]
DelReq(k)    == [kind |-> "del", key |-> k, val |-> NoVal]
FlushAllReq  == NoRequest

\* Every request on the keys K.
RequestsOn(K) ==
    {GetReq(k) : k \in K} \cup {PutReq(k, v) : k \in K, v \in Vals}
        \cup {DelReq(k) : k \in K} \cup {FlushAllReq}
=============================================================================
