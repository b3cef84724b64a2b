----------------------------- MODULE RateLimit -----------------------------
(***************************************************************************)
(* The limiter in front of the login and admin routes (src/rate_limit.rs)  *)
(* with the ingress that sets the header it keys on                        *)
(* (upstream_request_filter of src/ingress/pingora/proxy.rs).  A client    *)
(* reaches the control plane through the ingress, whose connection comes   *)
(* from loopback, or directly, and claims any forwarding header it likes.  *)
(***************************************************************************)
EXTENDS Integers, FiniteSets, Sequences

CONSTANTS
    Ips,            \* addresses of remote clients; also the values they claim
    NoHeader,
    MaxAttempts,
    Window,
    SweepInterval,
    MaxClock        \* bound on time

ASSUME LimitAssumption ==
    /\ NoHeader \notin Ips
    /\ MaxAttempts \in Nat /\ Window \in Nat /\ SweepInterval \in Nat /\ MaxClock \in Nat

VARIABLES
    buckets,    \* key -> times of the admitted attempts, for the keys present
    ops,        \* ops_since_sweep
    clock,
    admitted    \* history: admitted[ip], when the last MaxAttempts + 1 attempts of
                \* a client that were let through were made

limitVars == <<buckets, ops, clock, admitted>>

(* strip_inbound_forwarding_headers: nothing the client sent is left. *)
strip_inbound_forwarding_headers(header) == NoHeader

(* insert_header replaces whatever value is there. *)
insert_header(header, value) == value

(* upstream_request_filter: X-Forwarded-For is the address of the ingress's *)
(* own peer, which a TCP connection has.                                    *)
upstream_request_filter(ip, claimed) ==
    insert_header(strip_inbound_forwarding_headers(claimed), ip)

(* Slip: a forwarded value is believed whoever sends it. *)
extract_client_ip_Trusting(loopback, ip, header) ==
    IF header # NoHeader THEN header ELSE ip

(* extract_client_ip: the first forwarded value, but only from loopback. *)
extract_client_ip(loopback, ip, header) ==
    IF loopback /\ header # NoHeader THEN header ELSE ip

(* retain by age.  A bucket grows at its end by the present time, under the *)
(* lock, so what has left the window is in front.                           *)
Expired(times) == {i \in DOMAIN times : clock - times[i] >= Window}
Live(times) == SubSeq(times, Cardinality(Expired(times)) + 1, Len(times))

(* The sweep keeps every key with an attempt inside the window. *)
retain_live(map) == {k \in DOMAIN map : Live(map[k]) # << >>}

(* BucketLimiter::check, one critical section. *)
bucket_check(key) ==
    LET due  == ops + 1 >= SweepInterval
        kept == IF due THEN retain_live(buckets) ELSE DOMAIN buckets
        old  == IF key \in kept THEN Live(buckets[key]) ELSE << >>
        ok   == Len(old) < MaxAttempts
    IN [ok |-> ok,
        ops |-> IF due THEN 0 ELSE ops + 1,
        buckets |-> [k \in kept \cup {key} |->
            IF k # key THEN buckets[k] ELSE IF ok THEN Append(old, clock) ELSE old]]

Latest(times) ==
    IF Len(times) > MaxAttempts + 1 THEN SubSeq(times, 2, Len(times)) ELSE times

(* rate_limit_login / rate_limit_admin on an attempt of a remote client. *)
Attempt(ip, claimed, viaIngress) ==
    LET header == IF viaIngress THEN upstream_request_filter(ip, claimed) ELSE claimed
        result == bucket_check(extract_client_ip(viaIngress, ip, header))
    IN /\ buckets' = result.buckets
       /\ ops' = result.ops
       /\ admitted' = IF result.ok THEN [admitted EXCEPT ![ip] = Latest(Append(@, clock))]
                      ELSE admitted
       /\ UNCHANGED clock

Elapse ==
    /\ clock < MaxClock
    /\ clock' = clock + 1
    /\ UNCHANGED <<buckets, ops, admitted>>

LimitInit ==
    /\ buckets = [k \in {} |-> << >>]
    /\ ops = 0
    /\ clock = 0
    /\ admitted = [ip \in Ips |-> << >>]

LimitNext ==
    \/ \E ip \in Ips, claimed \in Ips \cup {NoHeader}, viaIngress \in BOOLEAN :
         Attempt(ip, claimed, viaIngress)
    \/ Elapse

LimitSpec == LimitInit /\ [][LimitNext]_limitVars
-----------------------------------------------------------------------------
(* No remote client gets more than MaxAttempts requests through in any     *)
(* window, whichever way it comes, whatever header it sends, and also      *)
(* across a sweep of the buckets: one more than that take at least the     *)
(* time of a window.                                                       *)
WindowRespected ==
    \A ip \in Ips :
      LET times == admitted[ip] IN
      Len(times) > MaxAttempts => times[Len(times)] - times[1] >= Window
=============================================================================
