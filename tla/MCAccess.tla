------------------------------ MODULE MCAccess ------------------------------
(* Five parts that decide who gets in and under which name, share no state *)
(* and are each explored by itself: users and sessions, the credentials of *)
(* registries, the rate limiter, domains, and the DNS-01 challenge.        *)
EXTENDS Access, Secrets, RateLimit, Domains, Dns01, TLC

VARIABLE part   \* the one that runs

(* The name of the challenge, and two names that it may be an alias of. *)
MCChallenge == <<"acme", "ex", "com">>
MCNames == {MCChallenge, <<"x", "sub", "net">>, <<"y", "net">>}

(* Users, requests and callers are interchangeable. *)
MCSymmetry == Permutations(Users) \cup Permutations(Clients) \cup Permutations(Requesters)

allVars == <<part, accessVars, secretVars, limitVars, domainVars, dnsVars>>

(* A part that does not run has one initial state. *)
MCInit ==
  /\ part \in {"accounts", "secrets", "limits", "domains", "dns"}
  /\ IF part = "accounts" THEN TRUE ELSE minted = {}
  /\ IF part = "domains" THEN TRUE ELSE inserted = 0 /\ target = [n \in Claimable |-> "here"]
  /\ IF part = "dns" THEN TRUE
     ELSE alias = [n \in DnsNames |-> Nowhere] /\ zones = {} /\ provider = "exec"
  /\ AccessInit /\ SecretsInit /\ LimitInit /\ DomainsInit /\ DnsInit

MCNext ==
  /\ UNCHANGED part
  /\ \/ /\ part = "accounts" /\ AccessNext
        /\ UNCHANGED <<secretVars, limitVars, domainVars, dnsVars>>
     \/ /\ part = "secrets" /\ SecretsNext
        /\ UNCHANGED <<accessVars, limitVars, domainVars, dnsVars>>
     \/ /\ part = "limits" /\ LimitNext
        /\ UNCHANGED <<accessVars, secretVars, domainVars, dnsVars>>
     \/ /\ part = "domains" /\ DomainsNext
        /\ UNCHANGED <<accessVars, secretVars, limitVars, dnsVars>>
     \/ /\ part = "dns" /\ DnsNext
        /\ UNCHANGED <<accessVars, secretVars, limitVars, domainVars>>

MCSpec == MCInit /\ [][MCNext]_allVars
=============================================================================
