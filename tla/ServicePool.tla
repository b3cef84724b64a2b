----------------------------- MODULE ServicePool -----------------------------
(***************************************************************************)
(* The replica pool of one service in the ingress                          *)
(* (src/ingress/pingora/state.rs, ServicePool and the IngressState methods *)
(* that edit it): a vector of endpoints and a round-robin cursor.  Every   *)
(* operation holds the pools' lock, so each is one step.  Positions are    *)
(* counted from 1, the cursor from 0 as in the code.                       *)
(***************************************************************************)
EXTENDS Integers, Sequences, FiniteSets

CONSTANT Replicas   \* replica ids

VARIABLES
  endpoints,   \* sequence of [id, healthy]
  cursor,
  unserved     \* history: how many dials a healthy endpoint has waited for its
               \* turn, since the pool last changed

poolVars == <<endpoints, cursor, unserved>>

Len0 == Len(endpoints)
Ids == {endpoints[i].id : i \in 1 .. Len0}
healthy == {i \in 1 .. Len0 : endpoints[i].healthy}
FreshPool == unserved' = [r \in Replicas |-> 0]

PoolInit ==
  /\ endpoints = <<>>
  /\ cursor = 0
  /\ unserved = [r \in Replicas |-> 0]

(* Insert, or replace in place, unhealthy. *)
add_replica(r) ==
  /\ endpoints' = IF r \in Ids
                  THEN [i \in 1 .. Len0 |->
                         IF endpoints[i].id = r THEN [id |-> r, healthy |-> FALSE]
                         ELSE endpoints[i]]
                  ELSE Append(endpoints, [id |-> r, healthy |-> FALSE])
  /\ FreshPool /\ UNCHANGED cursor

set_replica_healthy(r, h) ==
  /\ r \in Ids
  /\ endpoints' = [i \in 1 .. Len0 |->
                    IF endpoints[i].id = r THEN [endpoints[i] EXCEPT !.healthy = h]
                    ELSE endpoints[i]]
  /\ FreshPool /\ UNCHANGED cursor

(* retain the others, in their order (one endpoint at most has the id); a   *)
(* cursor past the end starts over.                                         *)
Position(r) == CHOOSE i \in 1 .. Len0 : endpoints[i].id = r
remove_replica(r) ==
  /\ r \in Ids
  /\ endpoints' = [i \in 1 .. Len0 - 1 |-> endpoints[IF i < Position(r) THEN i ELSE i + 1]]
  /\ cursor' = IF cursor >= Len(endpoints') THEN 0 ELSE cursor
  /\ FreshPool

(* The first healthy endpoint at or after the cursor, wrapping around. *)
At(offset) == ((cursor + offset) % Len0) + 1
Offset == CHOOSE o \in 0 .. Len0 - 1 :
            /\ endpoints[At(o)].healthy
            /\ \A p \in 0 .. o - 1 : ~endpoints[At(p)].healthy

Dial(i) ==
  unserved' = [r \in Replicas |->
    IF r # endpoints[i].id /\ \E k \in healthy : endpoints[k].id = r
    THEN unserved[r] + 1 ELSE 0]

next_socket_Stay ==
  /\ healthy # {}
  /\ Dial(At(Offset))
  /\ cursor' = (cursor + Offset) % Len0
  /\ UNCHANGED endpoints
next_socket ==
  /\ healthy # {}
  /\ Dial(At(Offset))
  /\ cursor' = (cursor + Offset + 1) % Len0
  /\ UNCHANGED endpoints

PoolNext ==
  \/ \E r \in Replicas : \/ add_replica(r) \/ remove_replica(r)
                         \/ \E h \in BOOLEAN : set_replica_healthy(r, h)
  \/ next_socket

PoolSpec == PoolInit /\ [][PoolNext]_poolVars

-----------------------------------------------------------------------------
(* The pool holds one endpoint per replica and the cursor is a position of *)
(* it (add_replica, remove_replica).                                       *)
PoolOK ==
  /\ endpoints \in Seq([id : Replicas, healthy : BOOLEAN])
  /\ \A i, j \in 1 .. Len0 : endpoints[i].id = endpoints[j].id => i = j
  /\ cursor \in Nat /\ (cursor < Len0 \/ cursor = 0)
  /\ unserved \in [Replicas -> Nat]

(* Round-robin over the healthy endpoints: while the pool does not change, *)
(* each is dialled once in every |healthy| requests, wherever edits left   *)
(* the cursor (ServicePool::next_socket).                                  *)
RoundRobin ==
  \A i \in healthy : unserved[endpoints[i].id] < Cardinality(healthy)
=============================================================================
