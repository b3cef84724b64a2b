------------------------------ MODULE Domains ------------------------------
(***************************************************************************)
(* Custom hostnames of services (src/api/domains.rs, the verifier of       *)
(* src/verification/ and the rows of src/repo/sqlite/domains.rs).  A       *)
(* hostname is claimed as a Pending row, proved by an HTTP request that    *)
(* must find the row's token at that hostname, and then routed.  Handlers  *)
(* of one row overlap: each reads the row once and writes after an await.  *)
(***************************************************************************)
EXTENDS Integers, FiniteSets

CONSTANTS
    Names,       \* hostnames a client may send
    Malformed,   \* one of them that no syntax check lets through
    Control,     \* one of them, the control plane's own name
    Services,
    Callers,     \* concurrent requests
    MaxRows      \* bound on the rows ever inserted

VARIABLES
    rows,        \* service_domains: id -> row, for the ids present
    inserted,    \* ids handed out so far
    verifying,   \* AppState.verifying_domains
    routed,      \* hostnames of the published route table
    target,      \* where each hostname resolves to, today
    proved,      \* ids whose token a request found at their hostname
    backfilled,  \* ids that the upgrade of the schema made out of older configurations
    calls,       \* the request each caller is in
    refused      \* ids a caller was told are being verified, in the last step

domainVars == <<rows, inserted, verifying, routed, target, proved, backfilled, calls, refused>>

Targets == {"here", "elsewhere", "internal", "nowhere"}
Ready == [pc |-> "ready"]

(* The rest of the name syntax is left out: a name is malformed or not. *)
validate_hostname(name) == name # Malformed

is_reserved_control_hostname(name) == name = Control

Claimable == {n \in Names : validate_hostname(n) /\ ~is_reserved_control_hostname(n)}

(* The verified rows, as the route builder and the ACME task read them. *)
list_verified_hostnames_q(table) ==
    {table[id].hostname : id \in {i \in DOMAIN table : table[i].status = "verified"}}

(* deploy::apply_routes: rebuild the table from the rows (see Deploy). *)
apply_routes(table) == routed' = list_verified_hostnames_q(table)

(* INSERT: both the id and the hostname are unique columns. *)
put_service_domain_q(id, row) ==
    /\ \A i \in DOMAIN rows : rows[i].hostname # row.hostname
    /\ rows' = [i \in DOMAIN rows \cup {id} |-> IF i = id THEN row ELSE rows[i]]

(* create_service_domain *)
create_service_domain(c, svc, name) ==
    /\ calls[c] = Ready
    /\ inserted < MaxRows
    /\ name \in Claimable
    /\ put_service_domain_q(inserted + 1,
           [service |-> svc, hostname |-> name, status |-> "pending"])
    /\ inserted' = inserted + 1
    /\ refused' = {}
    /\ UNCHANGED <<verifying, routed, target, proved, calls, backfilled>>

(* put_service of a service whose form names hosts: those without a row of  *)
(* the service are claimed one by one, in the order they were typed, until  *)
(* one is refused.  Rows are never reset nor removed by it.                 *)
sync_domain_rows(c, svc, names) ==
    /\ calls[c] = Ready
    /\ LET missing == names \ {rows[id].hostname : id \in {i \in DOMAIN rows : rows[i].service = svc}}
       IN /\ missing # {} /\ inserted + Cardinality(missing) <= MaxRows
          /\ calls' = [calls EXCEPT ![c] = [pc |-> "sync", service |-> svc, missing |-> missing]]
    /\ refused' = {}
    /\ UNCHANGED <<rows, inserted, verifying, routed, target, proved, backfilled>>

SyncName(c, name) ==
    /\ calls[c].pc = "sync" /\ name \in calls[c].missing /\ inserted < MaxRows
    /\ IF name \in Claimable /\ \A i \in DOMAIN rows : rows[i].hostname # name
       THEN /\ put_service_domain_q(inserted + 1,
                   [service |-> calls[c].service, hostname |-> name, status |-> "pending"])
            /\ inserted' = inserted + 1
            /\ LET left == calls[c].missing \ {name} IN
               calls' = [calls EXCEPT ![c] = IF left = {} THEN Ready
                                             ELSE [@ EXCEPT !.missing = left]]
       ELSE calls' = [calls EXCEPT ![c] = Ready] /\ UNCHANGED <<rows, inserted>>
    /\ refused' = {}
    /\ UNCHANGED <<verifying, routed, target, proved, backfilled>>

(* Each handler starts by reading the row and checking its service. *)
get_service_domain_q(id, svc) == id \in DOMAIN rows /\ rows[id].service = svc

(* verify_service_domain up to the guard: the row is read here, once. *)
ReadForVerify(c, svc, id) ==
    /\ calls[c] = Ready
    /\ get_service_domain_q(id, svc)
    /\ ~is_reserved_control_hostname(rows[id].hostname)
    /\ rows[id].status # "verified"
    /\ calls' = [calls EXCEPT ![c] =
           [pc |-> "admit", id |-> id, hostname |-> rows[id].hostname]]
    /\ refused' = {}
    /\ UNCHANGED <<rows, inserted, verifying, routed, target, proved, backfilled>>

(* ... the in-flight guard: refused if the id is already in the set. *)
EnterGuard(c) ==
    /\ calls[c].pc = "admit"
    /\ IF calls[c].id \in verifying
       THEN /\ calls' = [calls EXCEPT ![c] = Ready]
            /\ refused' = {calls[c].id}
            /\ UNCHANGED verifying
       ELSE /\ verifying' = verifying \cup {calls[c].id}
            /\ calls' = [calls EXCEPT ![c].pc = "resolve"]
            /\ refused' = {}
    /\ UNCHANGED <<rows, inserted, routed, target, proved, backfilled>>

is_internal_ip(where) == where = "internal"

(* DomainVerifier::verify, name resolution: the address is pinned here. *)
Resolve(c) ==
    /\ calls[c].pc = "resolve"
    /\ LET where == target[calls[c].hostname]
       IN IF where = "nowhere" \/ is_internal_ip(where)
          THEN calls' = [calls EXCEPT ![c] = [@ EXCEPT !.pc = "unmatched"]]
          ELSE calls' = [calls EXCEPT ![c] = [@ EXCEPT !.pc =
                   IF where = "here" THEN "askHere" ELSE "askElsewhere"]]
    /\ refused' = {}
    /\ UNCHANGED <<rows, inserted, verifying, routed, target, proved, backfilled>>

(* get_service_domain_by_token: the handler's answer at this node, which   *)
(* requires the row of the token to exist and to carry the Host asked for. *)
challenge_handler(id, host) == id \in DOMAIN rows /\ rows[id].hostname = host

(* ... the request to the pinned address; any request may also time out.   *)
(* Another server than this node answers what it likes, the token it was   *)
(* asked for included: whoever returns it is believed.                     *)
Fetch(c) ==
    /\ calls[c].pc \in {"askHere", "askElsewhere"}
    /\ \E returned \in BOOLEAN :
         LET match == /\ returned
                      /\ \/ calls[c].pc = "askElsewhere"
                         \/ challenge_handler(calls[c].id, calls[c].hostname)
         IN /\ calls' = [calls EXCEPT ![c].pc = IF match THEN "matched" ELSE "unmatched"]
            /\ proved' = IF match THEN proved \cup {calls[c].id} ELSE proved
    /\ refused' = {}
    /\ UNCHANGED <<rows, inserted, verifying, routed, target, backfilled>>

(* ... the guard is released before the outcome is stored. *)
LeaveGuard(c) ==
    /\ calls[c].pc \in {"matched", "unmatched"}
    /\ verifying' = verifying \ {calls[c].id}
    /\ calls' = [calls EXCEPT ![c].pc = IF @ = "matched" THEN "succeed" ELSE "fail"]
    /\ refused' = {}
    /\ UNCHANGED <<rows, inserted, routed, target, proved, backfilled>>

(* Slip: the row is found by its hostname instead of by its id. *)
update_service_domain_status_q_ByName(id, name, status) ==
    [i \in DOMAIN rows |-> IF rows[i].hostname = name
                           THEN [rows[i] EXCEPT !.status = status] ELSE rows[i]]

(* UPDATE ... WHERE id = ?: no row, no effect. *)
update_service_domain_status_q(id, name, status) ==
    [i \in DOMAIN rows |-> IF i = id
                           THEN [rows[i] EXCEPT !.status = status] ELSE rows[i]]

(* ... success: the status, then the routes. *)
StoreVerified(c) ==
    /\ calls[c].pc = "succeed"
    /\ rows' = update_service_domain_status_q(calls[c].id, calls[c].hostname, "verified")
    /\ calls' = [calls EXCEPT ![c].pc = "publish"]
    /\ refused' = {}
    /\ UNCHANGED <<inserted, verifying, routed, target, proved, backfilled>>

PublishVerified(c) ==
    /\ calls[c].pc = "publish"
    /\ apply_routes(rows)
    /\ calls' = [calls EXCEPT ![c] = Ready]
    /\ refused' = {}
    /\ UNCHANGED <<rows, inserted, verifying, target, proved, backfilled>>

(* ... failure: the status only. *)
StoreFailed(c) ==
    /\ calls[c].pc = "fail"
    /\ rows' = update_service_domain_status_q(calls[c].id, calls[c].hostname, "failed")
    /\ calls' = [calls EXCEPT ![c] = Ready]
    /\ refused' = {}
    /\ UNCHANGED <<inserted, verifying, routed, target, proved, backfilled>>

(* delete_service_domain_handler: read, delete, and rebuild the routes if  *)
(* the row that was read was verified.                                     *)
ReadForDelete(c, svc, id) ==
    /\ calls[c] = Ready
    /\ get_service_domain_q(id, svc)
    /\ calls' = [calls EXCEPT ![c] =
           [pc |-> "delete", id |-> id, was |-> rows[id].status]]
    /\ refused' = {}
    /\ UNCHANGED <<rows, inserted, verifying, routed, target, proved, backfilled>>

delete_service_domain_q(c) ==
    /\ calls[c].pc = "delete"
    /\ rows' = [i \in DOMAIN rows \ {calls[c].id} |-> rows[i]]
    /\ calls' = [calls EXCEPT ![c] = IF @.was = "verified" THEN [pc |-> "unroute"] ELSE Ready]
    /\ refused' = {}
    /\ UNCHANGED <<inserted, verifying, routed, target, proved, backfilled>>

Unroute(c) ==
    /\ calls[c].pc = "unroute"
    /\ apply_routes(rows)
    /\ calls' = [calls EXCEPT ![c] = Ready]
    /\ refused' = {}
    /\ UNCHANGED <<rows, inserted, verifying, target, proved, backfilled>>

(* The client closes its connection while the verifier is awaited: the     *)
(* handler is dropped there, and with it everything after the await.       *)
Disconnect(c) ==
    /\ calls[c].pc \in {"resolve", "askHere", "askElsewhere"}
    /\ calls' = [calls EXCEPT ![c] = Ready]
    /\ refused' = {}
    /\ UNCHANGED <<rows, inserted, verifying, routed, target, proved, backfilled>>

(* The owner of a name repoints it. *)
Repoint(name) ==
    /\ \E where \in Targets : target' = [target EXCEPT ![name] = where]
    /\ refused' = {}
    /\ UNCHANGED <<rows, inserted, verifying, routed, proved, calls, backfilled>>

(* Migration 5 made a verified row of every name in a configuration then    *)
(* stored, whatever the name: nobody proved it, and none is there twice.    *)
DomainsInit ==
    /\ inserted \in 0..MaxRows
    /\ rows \in [1..inserted -> [service : Services, hostname : Names, status : {"verified"}]]
    /\ \A i, j \in 1..inserted : rows[i].hostname = rows[j].hostname => i = j
    /\ backfilled = 1..inserted
    /\ verifying = {}
    /\ routed = list_verified_hostnames_q(rows)
    /\ target \in [Claimable -> {"here", "nowhere"}]
    /\ proved = {}
    /\ calls = [c \in Callers |-> Ready]
    /\ refused = {}

DomainsNext ==
    \/ \E c \in Callers :
         \/ \E svc \in Services, name \in Names : create_service_domain(c, svc, name)
         \/ \E svc \in Services, names \in SUBSET Names : sync_domain_rows(c, svc, names)
         \/ \E name \in Names : SyncName(c, name)
         \/ \E svc \in Services, id \in 1..MaxRows :
              ReadForVerify(c, svc, id) \/ ReadForDelete(c, svc, id)
         \/ EnterGuard(c) \/ Resolve(c) \/ Fetch(c) \/ LeaveGuard(c)
         \/ StoreVerified(c) \/ PublishVerified(c) \/ StoreFailed(c)
         \/ delete_service_domain_q(c) \/ Unroute(c)
         \/ Disconnect(c)
    \/ \E name \in Claimable : Repoint(name)

DomainsSpec == DomainsInit /\ [][DomainsNext]_domainVars
-----------------------------------------------------------------------------
(* A verified row carries its own proof: the token of that very row was    *)
(* returned by whoever answers at its hostname.  A verification that was   *)
(* overtaken by a delete and a new claim of the same name, perhaps by      *)
(* another service, never verifies the new row (verify_service_domain      *)
(* writes after its await).  The rows of the upgrade are taken on trust    *)
(* (docs/adr/013-domain-verification.md:19-21), and only they: once one is *)
(* removed, its name has to be proved like any other.                      *)
VerifiedWasProved ==
    \A id \in DOMAIN rows : rows[id].status = "verified" => id \in proved \cup backfilled

(* "Only `verified` domains appear in the generated dynamic config"        *)
(* (docs/adr/013-domain-verification.md:26), which is the route table now: *)
(* once no request is in progress, every routed name is verified.  A       *)
(* delete that read the row before it was verified, and a late failure     *)
(* stored over a success, both leave the name routed.                      *)
OnlyVerifiedRouted ==
    (\A c \in Callers : calls[c] = Ready)
        => routed \subseteq list_verified_hostnames_q(rows)

(* "domain verification already in progress" is only said of a domain that *)
(* some request is verifying.                                              *)
RefusedMeansVerifying ==
    \A id \in refused : \E c \in Callers :
        /\ calls[c].pc \in {"resolve", "askHere", "askElsewhere", "matched", "unmatched"}
        /\ calls[c].id = id
=============================================================================
