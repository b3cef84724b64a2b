------------------------------- MODULE Dns01 -------------------------------
(***************************************************************************)
(* One certificate order answered by DNS-01                                *)
(* (AcmeDriver::solve_dns01 and src/ingress/pingora/dns01/): follow the    *)
(* CNAME delegation of the challenge name over several resolvers, create   *)
(* the TXT record through a provider, wait until it is visible, let the    *)
(* authority validate, and remove the record on every way out.  Resolvers  *)
(* and provider may fail or lose an answer at any step, and the daemon may *)
(* be stopped or killed while it waits.                                    *)
(***************************************************************************)
EXTENDS Integers, Sequences, SequencesExt

CONSTANTS
    DnsNames,      \* domain names, as sequences of labels
    Challenge,     \* the _acme-challenge name of the order's domain
    Nowhere,       \* the alias of a name without a CNAME
    MaxHops,       \* MAX_CNAME_HOPS
    Resolvers,     \* how many DoH resolvers are configured
    MaxDnsOrders   \* bound on the orders placed

VARIABLES
    alias,      \* CNAME records of the DNS
    zones,      \* zones of the account the provider's token reaches
    provider,   \* DnsProviderKind
    order,      \* number of the current order, which is also its TXT value
    solve,      \* the future driving it
    txt,        \* TXT records in the DNS: [name, zone, value]
    spread,     \* values that reached the public resolvers
    handles,    \* TxtHandles of the current order
    stray,      \* values whose creation was not acknowledged or whose removal failed
    killed      \* orders that the end of the daemon cut short

dnsVars == <<alias, zones, provider, order, solve, txt, spread, handles, stray, killed>>

Idle == [pc |-> "idle"]

(* Where the alias chain of a name really ends (within the names there are) *)
ChainEnd(name) ==
    LET hop[n \in 0..Len(SetToSeq(DnsNames))] ==
            IF n = 0 THEN name
            ELSE IF alias[hop[n - 1]] = Nowhere THEN hop[n - 1] ELSE alias[hop[n - 1]]
    IN hop[Len(SetToSeq(DnsNames))]

(* Dot-aligned suffixes of at least two labels, the longest first. *)
zone_candidates(name) ==
    [i \in 1..(Len(name) - 1) |-> SubSeq(name, i, Len(name))]

OwnedBy(name) == {z \in zones : z \in Range(zone_candidates(name))}

(* The zone a public resolver reads the name from: the longest one. *)
Authoritative(name) ==
    CHOOSE z \in OwnedBy(name) : \A y \in OwnedBy(name) : Len(y) <= Len(z)

Visible(name, value) ==
    \E rec \in txt : /\ rec.name = name
                     /\ rec.value = value
                     /\ rec.zone = Authoritative(name)
                     /\ value \in spread

(* new_order, then present_and_finalize with no handle yet. *)
BeginOrder ==
    /\ solve = Idle
    /\ order < MaxDnsOrders
    /\ order' = order + 1
    /\ handles' = {}
    /\ solve' = [pc |-> "lookup", name |-> Challenge, visited |-> {Challenge},
                 hops |-> 0, asked |-> 0, answered |-> FALSE]
    /\ UNCHANGED <<alias, zones, provider, txt, spread, stray, killed>>

(* present_and_finalize returns: with a certificate, or with an error. *)
Return(issued) == solve' = [pc |-> "cleanup", issued |-> issued]
Fail == Return(FALSE)

(* doh_query: only a well-formed answer with status NOERROR or NXDOMAIN is *)
(* an answer; every other outcome is a transport error.                    *)
doh_query(answers) == answers

(* lookup_cname at one resolver, inside the loops of resolve_cname. *)
lookup_cname(answers) ==
    IF ~answers THEN "none" ELSE IF alias[solve.name] = Nowhere THEN "none" ELSE "cname"

(* A resolver has a CNAME: it may point at itself, which ends the chain,    *)
(* close a loop, or be one hop too many.                                    *)
FollowCname(aim) ==
    IF aim = solve.name THEN solve' = [solve EXCEPT !.pc = "present"]
    ELSE IF aim \in solve.visited \/ solve.hops + 1 = MaxHops THEN Fail
    ELSE solve' = [solve EXCEPT !.name = aim, !.visited = @ \cup {aim}, !.hops = @ + 1,
                                !.asked = 0, !.answered = FALSE]

(* It has none, or did not answer: the next one is asked, and after the     *)
(* last the chain ends here if any of them answered.                        *)
NextResolver(heard) ==
    IF solve.asked + 1 # Resolvers THEN solve' = [solve EXCEPT !.asked = @ + 1, !.answered = heard]
    ELSE IF heard THEN solve' = [solve EXCEPT !.pc = "present"]
    ELSE Fail

resolve_cname ==
    /\ solve.pc = "lookup"
    /\ \E answers \in BOOLEAN :
         IF lookup_cname(answers) = "cname" THEN FollowCname(alias[solve.name])
         ELSE NextResolver(solve.answered \/ doh_query(answers))
    /\ UNCHANGED <<alias, zones, provider, order, txt, spread, handles, stray, killed>>

(* resolve_zone_id: the first candidate that is a zone of the account. *)
resolve_zone_id(name) == Head(SelectSeq(zone_candidates(name), LAMBDA z : z \in zones))

(* create_txt, once the zone is known.  The request fails, succeeds, or    *)
(* succeeds without its answer coming back.                                *)
create_txt(zone) ==
    \E outcome \in {"ok", "failed", "lost"} :
        /\ txt' = IF outcome = "failed" THEN txt
                  ELSE txt \cup {[name |-> solve.name, zone |-> zone, value |-> order]}
        /\ handles' = IF outcome = "ok" THEN {solve.name} ELSE {}
        /\ stray' = IF outcome = "lost" THEN stray \cup {order} ELSE stray
        /\ IF outcome = "ok" THEN solve' = [solve EXCEPT !.pc = "await"] ELSE Fail

(* CloudflareDns01::present *)
CloudflarePresent ==
    /\ solve.pc = "present"
    /\ provider = "cloudflare"
    /\ \/ /\ OwnedBy(solve.name) = {}
          /\ Fail
          /\ UNCHANGED <<txt, handles, stray, killed>>
       \/ /\ OwnedBy(solve.name) # {}
          /\ create_txt(resolve_zone_id(solve.name))
    /\ UNCHANGED <<alias, zones, provider, order, spread, killed>>

(* ExecDns01::present: the operator's hook picks the zone itself; a hook   *)
(* that times out or fails may have written the record or not (run).       *)
ExecPresent ==
    /\ solve.pc = "present"
    /\ provider = "exec"
    /\ OwnedBy(solve.name) # {}
    /\ create_txt(Authoritative(solve.name))
    /\ UNCHANGED <<alias, zones, provider, order, spread, killed>>

(* await_txt: some resolver has the value before the deadline. *)
await_txt(seen) == seen /\ Visible(solve.name, order)

AwaitTxt ==
    /\ solve.pc = "await"
    /\ \E seen \in BOOLEAN :
         IF await_txt(seen) THEN solve' = [solve EXCEPT !.pc = "ready"] ELSE Fail
    /\ UNCHANGED <<alias, zones, provider, order, txt, spread, handles, stray, killed>>

(* DNS propagation, at its own pace. *)
Propagate ==
    /\ \E rec \in txt : spread' = spread \cup {rec.value}
    /\ UNCHANGED <<alias, zones, provider, order, solve, txt, handles, stray, killed>>

(* set_ready and finalize_order; either answer of the authority ends it. *)
Finalize ==
    /\ solve.pc = "ready"
    /\ \E issued \in BOOLEAN : Return(issued)
    /\ UNCHANGED <<alias, zones, provider, order, txt, spread, handles, stray, killed>>

(* Slip: a failed order returns before the records are removed. *)
solve_dns01_Early(issued) == IF issued THEN handles ELSE {}

(* solve_dns01 removes every handle it was given, whatever the outcome. *)
solve_dns01(issued) == handles

(* cleanup / delete_txt: best effort, a failure is only logged. *)
Cleanup ==
    /\ solve.pc = "cleanup"
    /\ \E deleted \in BOOLEAN :
         LET mine == {rec \in txt : rec.value = order /\ rec.name \in solve_dns01(solve.issued)}
         IN /\ txt' = IF deleted THEN txt \ mine ELSE txt
            /\ stray' = IF ~deleted /\ mine # {} THEN stray \cup {order} ELSE stray
    /\ solve' = Idle
    /\ handles' = {}
    /\ UNCHANGED <<alias, zones, provider, order, spread, killed>>

(* The daemon ends: the future and the handles it holds are gone, and the   *)
(* next order knows only its own.  A request that was under way may have    *)
(* reached the provider (create_txt has then lost its answer).              *)
Killed ==
    /\ solve # Idle
    /\ solve' = Idle
    /\ handles' = {}
    /\ killed' = killed \cup {order}
    /\ UNCHANGED <<alias, zones, provider, order, txt, spread, stray>>

DnsInit ==
    /\ alias \in [DnsNames -> DnsNames \cup {Nowhere}]
    /\ zones \in SUBSET UNION {Range(zone_candidates(n)) : n \in DnsNames}
    /\ provider \in {"cloudflare", "exec"}
    /\ order = 0
    /\ solve = Idle
    /\ txt = {}
    /\ spread = {}
    /\ handles = {}
    /\ stray = {}
    /\ killed = {}

DnsNext ==
    \/ BeginOrder
    \/ resolve_cname
    \/ CloudflarePresent
    \/ ExecPresent
    \/ Propagate
    \/ AwaitTxt
    \/ Finalize
    \/ Cleanup
    \/ Killed

DnsSpec == DnsInit /\ [][DnsNext]_dnsVars
-----------------------------------------------------------------------------
(* The authority is asked to validate only when the value it will look for *)
(* is visible at the end of the delegation chain, also when resolvers fail *)
(* while the chain is followed ("the CA is never asked to validate an      *)
(* unpropagated record").                                                  *)
AskedOnlyWhenVisible ==
    solve.pc = "ready" => solve.name = ChainEnd(Challenge) /\ Visible(solve.name, order)

(* Between orders no challenge record is left behind, except those whose   *)
(* creation was never acknowledged, whose removal failed, or whose order   *)
(* the end of the daemon cut short: solve_dns01 keeps the handles in       *)
(* memory alone.                                                           *)
OnlyStrayRecordsStay ==
    solve = Idle => \A rec \in txt : rec.value \in stray \cup killed
=============================================================================
