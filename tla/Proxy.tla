------------------------------- MODULE Proxy -------------------------------
(***************************************************************************)
(* A request through the ingress: the two listeners of                     *)
(* src/ingress/pingora/proxy.rs, the Unix socket of the chosen replica,    *)
(* the socket-proxy inside the replica that accepts on that socket before  *)
(* its application listens (src/ingress/socket_proxy.rs), and the          *)
(* readiness probe that decides when the replica may receive requests      *)
(* (src/health.rs).  Choosing among replicas and waking a service are in   *)
(* ServicePool and Activation.                                             *)
(***************************************************************************)
EXTENDS Integers, FiniteSets

CONSTANTS
    WebHosts,     \* hosts a request may name
    ControlName,  \* the control domain, one of them
    ControlTls,   \* config.control_tls
    Owner,        \* replica -> the host whose service it belongs to
    ProxyRequests,
    MaxSwaps,     \* bound on route table swaps
    NoRoute

VARIABLES
    routes,   \* host -> "plain", "tls" or NoRoute
    swaps,
    guest,    \* replica -> its socket-proxy and application
    probe,    \* replica -> the readiness gate
    pool,     \* replicas that may receive requests
    req       \* the requests in flight

proxyVars == <<routes, swaps, guest, probe, pool, req>>

ProxyReplicas == DOMAIN Owner
NotStarted == [pc |-> "none", listening |-> FALSE, app |-> "none"]
FreshRequest == [pc |-> "new"]

-----------------------------------------------------------------------------
(* socket_proxy::run inside the replica. *)

Start(r) ==
    /\ guest[r] = NotStarted
    /\ guest' = [guest EXCEPT ![r].pc = "bind"]
    /\ probe' = [probe EXCEPT ![r] = "probing"]
    /\ UNCHANGED <<routes, swaps, pool, req>>

(* The stale socket is removed, the new one bound and opened up. *)
Bind(r) ==
    /\ guest[r].pc = "bind"
    /\ guest' = [guest EXCEPT ![r].listening = TRUE, ![r].pc = "harden"]
    /\ UNCHANGED <<routes, swaps, probe, pool, req>>

(* set_no_new_privs, the seccomp filter, the child; each may fail, which   *)
(* ends the process and closes its listener.                               *)
SpawnApp(r) ==
    /\ guest[r].pc = "harden"
    /\ \/ guest' = [guest EXCEPT ![r].pc = "serve", ![r].app = "starting"]
       \/ guest' = [guest EXCEPT ![r].pc = "exited", ![r].listening = FALSE]
    /\ UNCHANGED <<routes, swaps, probe, pool, req>>

AppListens(r) ==
    /\ guest[r].app = "starting"
    /\ guest' = [guest EXCEPT ![r].app = "listening"]
    /\ UNCHANGED <<routes, swaps, probe, pool, req>>

(* child.wait() returns: the proxy follows its application. *)
AppExits(r) ==
    /\ guest[r].app \in {"starting", "listening"}
    /\ guest' = [guest EXCEPT ![r] = [pc |-> "exited", listening |-> FALSE, app |-> "exited"]]
    /\ UNCHANGED <<routes, swaps, probe, pool, req>>

(* A connection to the socket: an answer comes back only if the proxy      *)
(* could connect on to the application; otherwise it just closes.          *)
Replies(r) == guest[r].listening /\ guest[r].app = "listening"

-----------------------------------------------------------------------------
(* SocketHealthChecker *)

(* Slip: a connection that is accepted counts as an answer. *)
probe_once_Connect(r) == guest[r].listening

(* probe_once: a status line came back before the attempt's timeout. *)
probe_once(r) == Replies(r)

(* check: any attempt that answers is success; after the budget, failure.  *)
(* A replica that is ready is added to the pool of its service.            *)
check(r) ==
    /\ probe[r] = "probing"
    /\ \/ /\ probe_once(r)
          /\ probe' = [probe EXCEPT ![r] = "ready"]
          /\ pool' = pool \cup {r}
       \/ /\ ~probe_once(r)
          /\ probe' = [probe EXCEPT ![r] = "failed"]
          /\ UNCHANGED pool
    /\ UNCHANGED <<routes, swaps, guest, req>>

(* The runtime notices a dead replica, later (Autoscaler). *)
RemoveReplica(r) ==
    /\ r \in pool
    /\ guest[r].pc = "exited"
    /\ pool' = pool \ {r}
    /\ UNCHANGED <<routes, swaps, guest, probe, req>>

-----------------------------------------------------------------------------
(* DeniaProxy *)

is_control_host(host) == host = ControlName

control_tls_for_host(host) ==
    IF is_control_host(host) THEN ControlTls ELSE routes[host] = "tls"

(* classify_port80: a challenge path first, then the redirect. *)
classify_port80(host, challenge) ==
    IF challenge THEN "control"
    ELSE IF control_tls_for_host(host) THEN "redirect" ELSE "pass"

(* request_filter: decides on :80 only. *)
request_filter(q) ==
    /\ req[q] = FreshRequest
    /\ \E host \in WebHosts, port \in {80, 443}, challenge \in BOOLEAN :
         LET decision == IF port = 80 THEN classify_port80(host, challenge) ELSE "pass"
         IN req' = [req EXCEPT ![q] =
                IF decision = "redirect" THEN [pc |-> "done", status |-> 308]
                ELSE [pc |-> "peer", host |-> host, control |-> decision = "control"]]
    /\ UNCHANGED <<routes, swaps, guest, probe, pool>>

(* upstream_peer: reads the routes a second time, then the pool.           *)
(* classify_resolution: no replica, or a failed activation, is a 503.      *)
upstream_peer(q) ==
    /\ req[q].pc = "peer"
    /\ LET host == req[q].host
           replicas == {r \in pool : Owner[r] = host}
       IN CASE req[q].control \/ is_control_host(host) ->
                 req' = [req EXCEPT ![q] = [pc |-> "done", status |-> 200]]
            [] ~req[q].control /\ ~is_control_host(host) /\ routes[host] = NoRoute ->
                 req' = [req EXCEPT ![q] = [pc |-> "done", status |-> 404]]
            [] ~req[q].control /\ ~is_control_host(host) /\ routes[host] # NoRoute ->
                 \/ \E r \in replicas : req' = [req EXCEPT ![q] = [pc |-> "connect", to |-> r]]
                 \/ /\ replicas = {}
                    /\ req' = [req EXCEPT ![q] = [pc |-> "done", status |-> 503]]
    /\ UNCHANGED <<routes, swaps, guest, probe, pool>>

(* The upstream connection: the application's answer, or a 502. *)
Connect(q) ==
    /\ req[q].pc = "connect"
    /\ req' = [req EXCEPT ![q] = IF Replies(req[q].to) THEN [pc |-> "done", status |-> 200]
                                 ELSE [pc |-> "bad", to |-> req[q].to]]
    /\ UNCHANGED <<routes, swaps, guest, probe, pool>>

Again(q) ==
    /\ req[q].pc \in {"done", "bad"}
    /\ req' = [req EXCEPT ![q] = FreshRequest]
    /\ UNCHANGED <<routes, swaps, guest, probe, pool>>

(* swap_routes replaces the whole table under the requests in flight. *)
swap_routes ==
    /\ swaps < MaxSwaps
    /\ swaps' = swaps + 1
    /\ \E table \in [WebHosts -> {"plain", "tls", NoRoute}] : routes' = table
    /\ UNCHANGED <<guest, probe, pool, req>>

ProxyInit ==
    /\ routes = [h \in WebHosts |-> NoRoute]
    /\ swaps = 0
    /\ guest = [r \in ProxyReplicas |-> NotStarted]
    /\ probe = [r \in ProxyReplicas |-> "none"]
    /\ pool = {}
    /\ req = [q \in ProxyRequests |-> FreshRequest]

ProxyNext ==
    \/ \E r \in ProxyReplicas :
         Start(r) \/ Bind(r) \/ SpawnApp(r) \/ AppListens(r) \/ AppExits(r) \/ check(r) \/ RemoveReplica(r)
    \/ \E q \in ProxyRequests : request_filter(q) \/ upstream_peer(q) \/ Connect(q) \/ Again(q)
    \/ swap_routes

ProxySpec == ProxyInit /\ [][ProxyNext]_proxyVars
-----------------------------------------------------------------------------
(* A request is answered 502 only by a replica whose application served    *)
(* and then exited: never by one whose socket-proxy accepts connections    *)
(* while the application is still starting (the cold-start race that       *)
(* src/health.rs describes).                                               *)
NoColdStart502 ==
    \A q \in ProxyRequests : req[q].pc = "bad" => guest[req[q].to].app = "exited"
=============================================================================
