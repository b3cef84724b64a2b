---------------------------- MODULE Certificates ----------------------------
(***************************************************************************)
(* TLS certificates: the ACME task of src/daemon.rs, the driver and the    *)
(* files of src/ingress/pingora/acme.rs, and the store that the handshake  *)
(* of tls.rs reads.  One task places every order; a certificate is two     *)
(* files written one after the other, and after each success the whole     *)
(* directory is loaded again.  Orders fail, writes fail, the daemon dies.  *)
(* How an order is answered by DNS-01 is in Dns01; here it is HTTP-01.     *)
(***************************************************************************)
EXTENDS Integers, Sequences

CONSTANTS
    Hosts,       \* hostnames of TLS-enabled services
    ControlHost, \* the control domain when it has TLS, in Hosts
    MaxOrders,   \* bound on certificates issued
    MaxQueue,    \* bound on the on-demand channel, which is unbounded
    MaxFaults    \* bound on failures: of an order, of a write, of the daemon

VARIABLES
    verified,    \* hostnames verified in the store of Domains
    certQueue,   \* cert_issue channel
    disk,        \* host -> [chain, key]: the issue each file is from, 0 if absent
    live,        \* host -> [chain, key]: IngressState.certs()
    issued,      \* number of certificates the authority has issued
    dueRenewals, \* issues that entered the renewal window
    tokens,      \* ChallengeStore: hosts with a published key authorization
    task,        \* the ACME task
    faults

certVars == <<verified, certQueue, disk, live, issued, dueRenewals, tokens, task, faults>>

Absent == [chain |-> 0, key |-> 0]
Waiting == [pc |-> "idle"]

(* A boot at which AcmeDriver::new fails: the session has no ACME task, and *)
(* the receiver of the channel is dropped.                                  *)
Disabled == [pc |-> "off"]

(* load_cert_dir and parse_parsed_cert: both files, each well-formed. *)
load_cert_dir(pair) == IF pair.chain > 0 /\ pair.key > 0 THEN pair ELSE Absent

load_certs_from_disk(files) == [h \in Hosts |-> load_cert_dir(files[h])]

(* CertStore::get(h).is_some() *)
Held(h) == live[h] # Absent

(* BoringSSL installs a key only under a leaf it belongs to (install_cert  *)
(* ignores the error), so a handshake needs a matching pair.               *)
resolve_sni_cert(h) == Held(h) /\ live[h].chain = live[h].key

(* needs_renewal / select_renewals look at the leaf alone. *)
select_renewals == {h \in Hosts : Held(h) /\ live[h].chain \in dueRenewals}

(* control_domain_to_issue *)
control_domain_to_issue == ControlHost \cap Hosts

(* A domain of a TLS service is verified: the row, then request_issue.     *)
request_issue(h) ==
    /\ h \notin verified
    /\ Len(certQueue) < MaxQueue
    /\ verified' = verified \cup {h}
    /\ certQueue' = IF task = Disabled THEN certQueue ELSE Append(certQueue, h)
    /\ UNCHANGED <<disk, live, issued, dueRenewals, tokens, task, faults>>

Unverify(h) ==
    /\ verified' = verified \ {h}
    /\ h \in verified
    /\ UNCHANGED <<certQueue, disk, live, issued, dueRenewals, tokens, task, faults>>

(* Time passes: a certificate gets within 30 days of its end. *)
Age(n) ==
    /\ n \in (1..issued) \ dueRenewals
    /\ dueRenewals' = dueRenewals \cup {n}
    /\ UNCHANGED <<verified, certQueue, disk, live, issued, tokens, task, faults>>

(* The task starts an order for h and goes on at `back` afterwards. *)
Order(h, back, rest) == task' = [pc |-> "order", host |-> h, back |-> back, rest |-> rest]

(* The select! arm of the on-demand channel. *)
ReceiveHost ==
    /\ task = Waiting
    /\ certQueue # << >>
    /\ certQueue' = Tail(certQueue)
    /\ IF Held(Head(certQueue)) THEN UNCHANGED task ELSE Order(Head(certQueue), "idle", {})
    /\ UNCHANGED <<verified, disk, live, issued, dueRenewals, tokens, faults>>

(* The arm of the 12 hour ticker: first the renewals ... *)
RenewTick ==
    /\ task = Waiting
    /\ task' = [pc |-> "renew", rest |-> select_renewals]
    /\ UNCHANGED <<verified, certQueue, disk, live, issued, dueRenewals, tokens, faults>>

RenewNext ==
    /\ task.pc = "renew"
    /\ IF task.rest = {} THEN task' = [pc |-> "list"]
       ELSE \E h \in task.rest : Order(h, "renew", task.rest \ {h})
    /\ UNCHANGED <<verified, certQueue, disk, live, issued, dueRenewals, tokens, faults>>

(* Slip: the pass over the verified names is left to the boot. *)
issue_missing_certs_BootOnly == IF issued = 0 THEN verified ELSE {}

(* ... then issue_missing_certs, over the verified names read at its start *)
issue_missing_certs == verified

ListVerified ==
    /\ task.pc = "list"
    /\ task' = [pc |-> "fill", rest |-> issue_missing_certs]
    /\ UNCHANGED <<verified, certQueue, disk, live, issued, dueRenewals, tokens, faults>>

FillNext ==
    /\ task.pc = "fill"
    /\ IF task.rest = {} THEN task' = [pc |-> "control"]
       ELSE \E h \in task.rest :
              IF Held(h) THEN task' = [task EXCEPT !.rest = @ \ {h}]
              ELSE Order(h, "fill", task.rest \ {h})
    /\ UNCHANGED <<verified, certQueue, disk, live, issued, dueRenewals, tokens, faults>>

(* ... then the control domain, which has no row. *)
ControlNext ==
    /\ task.pc = "control"
    /\ IF \E h \in control_domain_to_issue : ~Held(h)
       THEN \E h \in control_domain_to_issue : Order(h, "idle", {})
       ELSE task' = Waiting
    /\ UNCHANGED <<verified, certQueue, disk, live, issued, dueRenewals, tokens, faults>>

(* Back to what the task was doing before the order. *)
Resume == task' = IF task.back = "idle" THEN Waiting ELSE [pc |-> task.back, rest |-> task.rest]

(* The order or the write fails; reissue logs it. *)
Abandon ==
    /\ faults < MaxFaults
    /\ faults' = faults + 1
    /\ Resume

(* solve_http01: the key authorization is published, then the authority is *)
(* told to look.                                                           *)
solve_http01 ==
    /\ task.pc = "order"
    /\ \/ /\ tokens' = tokens \cup {task.host}
          /\ task' = [task EXCEPT !.pc = "published"]
          /\ UNCHANGED faults
       \/ /\ Abandon                                 \* new_order or authorizations fail
          /\ UNCHANGED tokens
    /\ UNCHANGED <<verified, certQueue, disk, live, issued, dueRenewals>>

(* PublishedChallenges::drop runs on every way out of solve_http01. *)
PublishedChallenges(ok) == {task.host}

(* finalize_order: the authority validates against the published token and *)
(* issues, or the order does not become valid.                             *)
finalize_order ==
    /\ task.pc = "published"
    /\ \/ /\ issued < MaxOrders
          /\ issued' = issued + 1
          /\ task' = [task EXCEPT !.pc = "chain"]
          /\ tokens' = tokens \ PublishedChallenges(TRUE)
          /\ UNCHANGED faults
       \/ /\ IF issued = MaxOrders THEN Resume /\ UNCHANGED faults ELSE Abandon
          /\ tokens' = tokens \ PublishedChallenges(FALSE)
          /\ UNCHANGED issued
    /\ UNCHANGED <<verified, certQueue, disk, live, dueRenewals>>

(* persist_cert: fullchain.pem, then key.pem; each write replaces its file *)
(* or fails and leaves it (write_secret_file).  A failure abandons the     *)
(* order where it is.                                                      *)
persist_cert(file, following) ==
    /\ task.pc = file
    /\ \/ /\ disk' = [disk EXCEPT ![task.host][file] = issued]
          /\ task' = [task EXCEPT !.pc = following]
          /\ UNCHANGED faults
       \/ /\ Abandon
          /\ UNCHANGED disk
    /\ UNCHANGED <<verified, certQueue, live, issued, dueRenewals, tokens>>

(* reissue ends by loading the whole directory into the live store. *)
reissue ==
    /\ task.pc = "swap"
    /\ live' = load_certs_from_disk(disk)
    /\ Resume
    /\ UNCHANGED <<verified, certQueue, disk, issued, dueRenewals, tokens, faults>>

(* The daemon dies and starts again: channel, challenges and task are      *)
(* gone, the directory is loaded, and the boot pass runs, if the driver    *)
(* can be set up.                                                          *)
Booted == {[pc |-> "list"], Disabled}

RebootTls ==
    /\ faults < MaxFaults
    /\ faults' = faults + 1
    /\ certQueue' = << >>
    /\ tokens' = {}
    /\ live' = load_certs_from_disk(disk)
    /\ task' \in Booted
    /\ UNCHANGED <<verified, disk, issued, dueRenewals>>

CertInit ==
    /\ verified = {}
    /\ certQueue = << >>
    /\ disk = [h \in Hosts |-> Absent]
    /\ live = [h \in Hosts |-> Absent]
    /\ issued = 0
    /\ dueRenewals = {}
    /\ tokens = {}
    /\ task \in Booted
    /\ faults = 0

TaskStep ==
    \/ ReceiveHost \/ RenewTick \/ RenewNext \/ ListVerified \/ FillNext \/ ControlNext
    \/ solve_http01 \/ finalize_order
    \/ persist_cert("chain", "key") \/ persist_cert("key", "swap")
    \/ reissue

CertNext ==
    \/ \E h \in Hosts : request_issue(h) \/ Unverify(h)
    \/ \E n \in 1..MaxOrders : Age(n)
    \/ TaskStep
    \/ RebootTls

CertSpec == CertInit /\ [][CertNext]_certVars

(* Where the task waits for the authority, through a client to which the   *)
(* code gives no time limit.                                               *)
AwaitsAuthority == task.pc \in {"order", "published"}

(* Elsewhere the task runs on: its other awaits are the channel and the    *)
(* ticker, which fires again, and select! takes its ready arms in random   *)
(* order, so that a ticker that stays ready is taken.                      *)
OwnStep == ~AwaitsAuthority /\ TaskStep
CertFairness == WF_certVars(OwnStep) /\ SF_certVars(RenewTick)

CertFairSpec == CertSpec /\ CertFairness

-----------------------------------------------------------------------------
(* A hostname that stays verified gets a certificate in the live store:    *)
(* through the channel, or through the next scan when the request was lost *)
(* with the daemon or the order failed.  Unless the authority issues none, *)
(* leaves a request of the one task unanswered for good, or the session    *)
(* has no task.                                                            *)
VerifiedGetsCertificate ==
    \/ <>[]AwaitsAuthority
    \/ \A h \in Hosts :
         []<>(Held(h) \/ h \notin verified \/ issued = MaxOrders \/ task = Disabled)

(* "Persist an issued certificate atomically" (persist_cert, acme.rs:376): *)
(* what is served for a name is one issue's chain with its own key.        *)
ServedPairsMatch == \A h \in Hosts : Held(h) => resolve_sni_cert(h)
=============================================================================
