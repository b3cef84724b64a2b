------------------------------- MODULE Deploy -------------------------------
(***************************************************************************)
(* The deployment pipeline: src/deploy/{coordinator,routes}.rs, the rows   *)
(* of src/repo/sqlite/deployments.rs, the handlers of src/api/deployments  *)
(* and src/api/domains.rs that drive it, and daemon boot.                  *)
(*                                                                         *)
(* Each accepted deployment runs as a task of its own; the API does not    *)
(* serialise the tasks of a service, nor a stop against them.  A task is   *)
(* split where another task can run: at its awaits and between its locked  *)
(* or database sections.                                                   *)
(***************************************************************************)
EXTENDS Integers, FiniteSets

CONSTANTS
  Services,
  Autoscaled,   \* services whose replicas the autoscaler owns
  Deployments,
  SvcOf,        \* SvcOf[d]: the service of a deployment
  Permits,      \* DEPLOY_CONCURRENCY_LIMIT
  Overlap,      \* may two operations on one service overlap?
  Exits,        \* may a workload exit by itself?
  MaxCrashes,   \* bound on daemon restarts
  NoDep

ASSUME DeployAssumption ==
  /\ Autoscaled \subseteq Services
  /\ SvcOf \in [Deployments -> Services]
  /\ NoDep \notin Deployments
  /\ Permits \in Nat /\ MaxCrashes \in Nat
  /\ Overlap \in BOOLEAN /\ Exits \in BOOLEAN

VARIABLES
  \* SQLite
  status,     \* status[d]: DeploymentStatus, "none" before the row exists
  art,        \* deployments with an artifact linked
  promoted,   \* promoted[s]: row of promoted_deployments
  verified,   \* services with a verified hostname
  \* memory of the daemon
  child,      \* child[s]: deployment of the tracked process (s, replica 0)
  kept,       \* services whose child a failed compensation left running
  endpoint,   \* endpoint[s]: deployment of the DEPLOY_REPLICA_ID endpoint
  snapshot,   \* SharedRoutes: services with a route entry
  live,       \* the ingress route table
  pipe,       \* pipe[d]: where the task of d is
  stop,       \* stop[s]: where a stop request of s is
  seen,       \* seen[s]: promoted deployment the stop request read
  table,      \* table[d]: route table the task of d is about to swap in
  stopTable,  \* stopTable[s]: the same for a stop of s
  apply,      \* services whose domain change has yet to reach apply_routes
  up,         \* the API is serving
  autostart,  \* services boot still has to restart
  crashes

rowVars == <<status, promoted>>
procVars == <<child, kept>>
netVars == <<snapshot, live, table, stopTable, apply>>
stopVars == <<stop, seen>>
bootVars == <<up, autostart, crashes>>
vars == <<rowVars, art, verified, procVars, endpoint, netVars, pipe, stopVars,
          bootVars>>

None == [s \in Services |-> NoDep]

Init ==
  /\ status = [d \in Deployments |-> "none"]
  /\ art = {}
  /\ promoted = None
  /\ verified \in SUBSET Services
  /\ child = None /\ kept = {} /\ endpoint = None
  /\ snapshot = {} /\ live = {}
  /\ table = [d \in Deployments |-> {}]
  /\ stopTable = [s \in Services |-> {}]
  /\ apply = {}
  /\ pipe = [d \in Deployments |-> "idle"]
  /\ stop = [s \in Services |-> "idle"]
  /\ seen = None
  /\ up = TRUE /\ autostart = {} /\ crashes = 0

Active == {d \in Deployments : pipe[d] # "idle"}
Busy(s) == stop[s] # "idle" \/ \E d \in Active : SvcOf[d] = s
Plain(d) == SvcOf[d] \notin Autoscaled

(* An operation on s may begin. *)
Admit(s) == up /\ (Overlap \/ ~Busy(s))

Goto(d, p) == pipe' = [pipe EXCEPT ![d] = p]
SetStatus(d, st) == status' = [status EXCEPT ![d] = st]

-----------------------------------------------------------------------------
(* The task of a deployment d.  At boot the same finalize path restarts    *)
(* the promoted deployment (up is FALSE) and leaves its status alone.      *)

(* run_with_deps on Err *)
FailTask_Silent(d) ==
  /\ Goto(d, "idle")
  /\ UNCHANGED status
FailTask(d) ==
  /\ Goto(d, "idle")
  /\ IF up THEN SetStatus(d, "Failed") ELSE UNCHANGED status

(* create_deployment: a permit, the Pending row, then the task -- unless   *)
(* the deployment log cannot be created, which leaves the row behind.      *)
CreateDeployment(d) ==
  /\ Admit(SvcOf[d])
  /\ status[d] = "none"
  /\ Cardinality(Active) < Permits
  /\ SetStatus(d, "Pending")
  /\ \E p \in {"created", "idle"} : Goto(d, p)
  /\ UNCHANGED <<promoted, art, verified, procVars, endpoint, netVars, stopVars, bootVars>>

Build(d) ==
  /\ pipe[d] = "created"
  /\ SetStatus(d, "Building")
  /\ Goto(d, "building")
  /\ UNCHANGED <<promoted, art, verified, procVars, endpoint, netVars, stopVars, bootVars>>

(* The artifact is acquired (pulled, built, or for a redeploy that of the  *)
(* promoted deployment) and linked to the row; or acquisition fails.       *)
AcquireOk_NoLink(d) ==
  /\ pipe[d] = "building"
  /\ SetStatus(d, "Starting")
  /\ Goto(d, "launch")
  /\ UNCHANGED <<art, promoted, verified, procVars, endpoint, netVars, stopVars, bootVars>>
AcquireOk(d) ==
  /\ pipe[d] = "building"
  /\ art' = art \cup {d}
  /\ SetStatus(d, "Starting")
  /\ Goto(d, "launch")
  /\ UNCHANGED <<promoted, verified, procVars, endpoint, netVars, stopVars, bootVars>>

AcquireFail(d) ==
  /\ pipe[d] = "building"
  /\ FailTask(d)
  /\ UNCHANGED <<promoted, art, verified, procVars, endpoint, netVars, stopVars, bootVars>>

(* Runtime::start of replica 0; a process tracked under that key is        *)
(* replaced and terminated.                                                *)
StartOk(d) ==
  /\ pipe[d] = "launch" /\ Plain(d)
  /\ child' = [child EXCEPT ![SvcOf[d]] = d]
  /\ kept' = kept \ {SvcOf[d]}
  /\ Goto(d, "probing")
  /\ UNCHANGED <<rowVars, art, verified, endpoint, netVars, stopVars, bootVars>>

StartFail(d) ==
  /\ pipe[d] = "launch" /\ Plain(d)
  /\ FailTask(d)
  /\ UNCHANGED <<promoted, art, verified, procVars, endpoint, netVars, stopVars, bootVars>>

(* promote_deployment, once the health check passed; an autoscaled service *)
(* has nothing to start.  The outgoing deployment becomes Inactive.  The   *)
(* connection's lock covers both statements, but no transaction: see       *)
(* Reboot.                                                                 *)
Promoting(d) == pipe[d] = IF Plain(d) THEN "probing" ELSE "launch"
Demoted(d) == {promoted[SvcOf[d]]} \ {NoDep, d}

Promote_KeepOld(d) ==
  /\ Promoting(d)
  /\ promoted' = [promoted EXCEPT ![SvcOf[d]] = d]
  /\ Goto(d, IF Plain(d) THEN "promoted" ELSE "routing")
  /\ UNCHANGED <<status, art, verified, procVars, endpoint, netVars, stopVars, bootVars>>
Promote(d) ==
  /\ Promoting(d)
  /\ status' = [e \in Deployments |-> IF e \in Demoted(d) THEN "Inactive" ELSE status[e]]
  /\ promoted' = [promoted EXCEPT ![SvcOf[d]] = d]
  /\ Goto(d, IF Plain(d) THEN "promoted" ELSE "routing")
  /\ UNCHANGED <<art, verified, procVars, endpoint, netVars, stopVars, bootVars>>

(* The health check or the promotion fails. *)
ProbeFail_NoUndo(d) ==
  /\ pipe[d] = "probing"
  /\ FailTask(d)
  /\ UNCHANGED <<promoted, art, verified, procVars, endpoint, netVars, stopVars, bootVars>>
ProbeFail(d) ==
  /\ pipe[d] = "probing"
  /\ Goto(d, "undo_stop")
  /\ UNCHANGED <<rowVars, art, verified, procVars, endpoint, netVars, stopVars, bootVars>>

AddReplica(d) ==
  /\ pipe[d] = "promoted"
  /\ endpoint' = [endpoint EXCEPT ![SvcOf[d]] = d]
  /\ Goto(d, "routing")
  /\ UNCHANGED <<rowVars, art, verified, procVars, netVars, stopVars, bootVars>>

(* write_route_table: under the lock the entry is inserted and the table   *)
(* built; the lock is released before the swap.                            *)
WriteRoutes(d) ==
  /\ pipe[d] = "routing"
  /\ \/ /\ SvcOf[d] \in verified
        /\ snapshot' = snapshot \cup {SvcOf[d]}
        /\ table' = [table EXCEPT ![d] = snapshot']
        /\ Goto(d, "swap")
     \/ /\ SvcOf[d] \notin verified
        /\ Goto(d, "finish")
        /\ UNCHANGED <<snapshot, table>>
  /\ UNCHANGED <<rowVars, art, verified, procVars, endpoint, live, stopTable, apply,
                 stopVars, bootVars>>

(* The hostnames cannot be listed. *)
RoutesFail(d) ==
  /\ pipe[d] = "routing"
  /\ IF Plain(d) THEN Goto(d, "undo_stop") /\ UNCHANGED status ELSE FailTask(d)
  /\ UNCHANGED <<promoted, art, verified, procVars, endpoint, netVars, stopVars, bootVars>>

SwapRoutes(d) ==
  /\ pipe[d] = "swap"
  /\ live' = table[d]
  /\ table' = [table EXCEPT ![d] = {}]
  /\ Goto(d, "finish")
  /\ UNCHANGED <<rowVars, art, verified, procVars, endpoint, snapshot, stopTable,
                 apply, stopVars, bootVars>>

Finish(d) ==
  /\ pipe[d] = "finish"
  /\ Goto(d, "idle")
  /\ IF up THEN SetStatus(d, "Healthy") ELSE UNCHANGED status
  /\ UNCHANGED <<promoted, art, verified, procVars, endpoint, netVars, stopVars, bootVars>>

(* compensate_started_replica: stop (service, 0), drop its endpoint.  The  *)
(* stop fails without having touched the process when the reaping before   *)
(* it does; the error is logged and swallowed.                             *)
UndoStop(d) ==
  /\ pipe[d] = "undo_stop"
  /\ \/ /\ child' = [child EXCEPT ![SvcOf[d]] = NoDep]
        /\ kept' = kept \ {SvcOf[d]}
     \/ /\ child[SvcOf[d]] # NoDep
        /\ kept' = kept \cup {SvcOf[d]}
        /\ UNCHANGED child
  /\ Goto(d, "undo_pool")
  /\ UNCHANGED <<rowVars, art, verified, endpoint, netVars, stopVars, bootVars>>

UndoPool(d) ==
  /\ pipe[d] = "undo_pool"
  /\ endpoint' = [endpoint EXCEPT ![SvcOf[d]] = NoDep]
  /\ FailTask(d)
  /\ UNCHANGED <<promoted, art, verified, procVars, netVars, stopVars, bootVars>>

Task(d) ==
  \/ Build(d) \/ AcquireOk(d) \/ AcquireFail(d)
  \/ StartOk(d) \/ StartFail(d) \/ Promote(d) \/ ProbeFail(d)
  \/ AddReplica(d) \/ WriteRoutes(d) \/ RoutesFail(d) \/ SwapRoutes(d)
  \/ Finish(d) \/ UndoStop(d) \/ UndoPool(d)

-----------------------------------------------------------------------------
(* A stop request.  stop_service for a plain service; for an autoscaled    *)
(* one stop_service_routes_only, which touches no process and no endpoint. *)

StopBegin(s) ==
  /\ Admit(s) /\ stop[s] = "idle"
  /\ seen' = [seen EXCEPT ![s] = promoted[s]]
  /\ stop' = [stop EXCEPT ![s] = IF s \in Autoscaled THEN "routes" ELSE "runtime"]
  /\ UNCHANGED <<rowVars, art, verified, procVars, endpoint, netVars, pipe, bootVars>>

(* Runtime::stop reaps, forgets the process and terminates it.  A failure, *)
(* before or after the process is forgotten, ends the request.             *)
StopRuntime(s) ==
  /\ stop[s] = "runtime"
  /\ \/ /\ child' = [child EXCEPT ![s] = NoDep]
        /\ kept' = kept \ {s}
        /\ stop' = [stop EXCEPT ![s] = "pool"]
        /\ UNCHANGED seen
     \/ /\ \/ child' = [child EXCEPT ![s] = NoDep] /\ kept' = kept \ {s}
           \/ UNCHANGED procVars
        /\ stop' = [stop EXCEPT ![s] = "idle"]
        /\ seen' = [seen EXCEPT ![s] = NoDep]
  /\ UNCHANGED <<rowVars, art, verified, endpoint, netVars, pipe, bootVars>>

StopPool(s) ==
  /\ stop[s] = "pool"
  /\ endpoint' = [endpoint EXCEPT ![s] = NoDep]
  /\ stop' = [stop EXCEPT ![s] = "routes"]
  /\ UNCHANGED <<rowVars, art, verified, procVars, netVars, pipe, seen, bootVars>>

StopRoutes(s) ==
  /\ stop[s] = "routes"
  /\ snapshot' = snapshot \ {s}
  /\ stopTable' = [stopTable EXCEPT ![s] = snapshot']
  /\ stop' = [stop EXCEPT ![s] = "swap"]
  /\ UNCHANGED <<rowVars, art, verified, procVars, endpoint, live, table, apply,
                 pipe, seen, bootVars>>

StopSwap(s) ==
  /\ stop[s] = "swap"
  /\ live' = stopTable[s]
  /\ stopTable' = [stopTable EXCEPT ![s] = {}]
  /\ stop' = [stop EXCEPT ![s] = "mark"]
  /\ UNCHANGED <<rowVars, art, verified, procVars, endpoint, snapshot, table, apply,
                 pipe, seen, bootVars>>

(* The deployment read at the start is marked Stopped; then the service's  *)
(* promoted row, whatever it holds by now, is deleted.                     *)
StopMark(s) ==
  /\ stop[s] = "mark"
  /\ \/ seen[s] = NoDep /\ stop' = [stop EXCEPT ![s] = "idle"] /\ UNCHANGED status
     \/ /\ seen[s] # NoDep
        /\ stop' = [stop EXCEPT ![s] = "clear"]
        /\ SetStatus(seen[s], "Stopped")
  /\ UNCHANGED <<promoted, art, verified, procVars, endpoint, netVars, pipe, seen, bootVars>>

StopClear(s) ==
  /\ stop[s] = "clear"
  /\ promoted' = [promoted EXCEPT ![s] = NoDep]
  /\ stop' = [stop EXCEPT ![s] = "idle"]
  /\ seen' = [seen EXCEPT ![s] = NoDep]
  /\ UNCHANGED <<status, art, verified, procVars, endpoint, netVars, pipe, bootVars>>

StopRequest(s) ==
  \/ StopBegin(s) \/ StopRuntime(s) \/ StopPool(s) \/ StopRoutes(s)
  \/ StopSwap(s) \/ StopMark(s) \/ StopClear(s)

(* The workload of s exits and is reaped; nobody else is told. *)
ChildExits(s) ==
  /\ Exits /\ child[s] # NoDep
  /\ child' = [child EXCEPT ![s] = NoDep]
  /\ kept' = kept \ {s}
  /\ UNCHANGED <<rowVars, art, verified, endpoint, netVars, pipe, stopVars, bootVars>>

-----------------------------------------------------------------------------
(* A domain of s is verified, or its last verified one deleted; then the   *)
(* handler calls apply_routes, which keeps the snapshot's lock over its    *)
(* swap.                                                                   *)
ChangeDomain(s) ==
  /\ up /\ s \notin apply
  /\ verified' = IF s \in verified THEN verified \ {s} ELSE verified \cup {s}
  /\ apply' = apply \cup {s}
  /\ UNCHANGED <<rowVars, art, procVars, endpoint, snapshot, live, table, stopTable,
                 pipe, stopVars, bootVars>>

ApplyRoutes(s) ==
  /\ s \in apply
  /\ apply' = apply \ {s}
  /\ snapshot' = snapshot \cap verified
  /\ live' = snapshot'
  /\ UNCHANGED <<rowVars, art, verified, procVars, endpoint, table, stopTable, pipe,
                 stopVars, bootVars>>

-----------------------------------------------------------------------------
(* The daemon dies or is stopped, and boots: memory is lost, orphaned      *)
(* workloads are swept, rows of interrupted tasks are marked Failed.  A    *)
(* promotion cut between its statements leaves the outgoing row demoted    *)
(* and promoted.                                                           *)
Reboot ==
  /\ crashes < MaxCrashes
  /\ crashes' = crashes + 1
  /\ \E cut \in {{}} \cup {Demoted(d) : d \in {e \in Deployments : Promoting(e)}} :
       status' = [d \in Deployments |->
         IF d \in cut THEN "Inactive"
         ELSE IF status[d] \in {"Pending", "Building", "Starting"} THEN "Failed"
         ELSE status[d]]
  /\ child' = None /\ kept' = {} /\ endpoint' = None
  /\ snapshot' = {} /\ live' = {} /\ apply' = {}
  /\ table' = [d \in Deployments |-> {}]
  /\ stopTable' = [s \in Services |-> {}]
  /\ pipe' = [d \in Deployments |-> "idle"]
  /\ stop' = [s \in Services |-> "idle"]
  /\ seen' = None
  /\ up' = FALSE
  /\ autostart' = {s \in Services \ Autoscaled : promoted[s] # NoDep}
  /\ UNCHANGED <<promoted, art, verified>>

(* autostart_plain_promoted / restart_promoted, one service at a time; a   *)
(* service whose log cannot be opened, or whose promoted deployment has no *)
(* artifact, is skipped.                                                   *)
RestartPromoted(s) ==
  /\ ~up /\ Active = {} /\ s \in autostart
  /\ autostart' = autostart \ {s}
  /\ \/ promoted[s] \in art /\ Goto(promoted[s], "launch")
     \/ UNCHANGED pipe
  /\ UNCHANGED <<rowVars, art, verified, procVars, endpoint, netVars, stopVars, up,
                 crashes>>

(* rebuild_routes_on_boot, then serve. *)
RebuildRoutes ==
  /\ ~up /\ Active = {} /\ autostart = {}
  /\ snapshot' = snapshot \cup {s \in verified : promoted[s] # NoDep}
  /\ live' = snapshot'
  /\ up' = TRUE
  /\ UNCHANGED <<rowVars, art, verified, procVars, endpoint, table, stopTable, apply,
                 pipe, stopVars, autostart, crashes>>

Next ==
  \/ \E d \in Deployments : CreateDeployment(d) \/ Task(d)
  \/ \E s \in Services : StopRequest(s) \/ ChangeDomain(s) \/ ApplyRoutes(s)
                           \/ RestartPromoted(s) \/ ChildExits(s)
  \/ Reboot \/ RebuildRoutes

Spec == Init /\ [][Next]_vars

(* Tasks and boot run on once an artifact is there; its acquisition -- git, *)
(* buildctl, a registry -- has no time limit.                              *)
Acquiring(d) == pipe[d] = "building"
Fairness ==
  /\ \A d \in Deployments : WF_vars(~Acquiring(d) /\ Task(d))
  /\ \A s \in Services : WF_vars(RestartPromoted(s))
  /\ WF_vars(RebuildRoutes)
FairSpec == Spec /\ Fairness

-----------------------------------------------------------------------------
Statuses == {"none", "Pending", "Building", "Starting", "Healthy", "Failed",
             "Stopped", "Inactive"}
Started == {"Starting", "Healthy", "Failed", "Stopped", "Inactive"}
Pipes == {"idle", "created", "building", "launch", "probing", "promoted",
          "routing", "swap", "finish", "undo_stop", "undo_pool"}
DepOrNone == Deployments \cup {NoDep}

TypeOK ==
  /\ status \in [Deployments -> Statuses]
  /\ art \subseteq Deployments
  /\ promoted \in [Services -> DepOrNone]
  /\ verified \subseteq Services
  /\ child \in [Services -> DepOrNone]
  /\ kept \subseteq Services
  /\ endpoint \in [Services -> DepOrNone]
  /\ snapshot \subseteq Services /\ live \subseteq Services
  /\ pipe \in [Deployments -> Pipes]
  /\ stop \in [Services -> {"idle", "runtime", "pool", "routes", "swap", "mark",
                        "clear"}]
  /\ seen \in [Services -> DepOrNone]
  /\ table \in [Deployments -> SUBSET Services]
  /\ stopTable \in [Services -> SUBSET Services]
  /\ apply \subseteq Services
  /\ up \in BOOLEAN
  /\ autostart \subseteq Services
  /\ crashes \in 0 .. MaxCrashes

(* The promoted row names a deployment of its service that got as far as   *)
(* being started and has an artifact, so that a boot can restart it and a  *)
(* redeploy reuse it: across crashes, and any overlap of deploys and stops *)
(* (promote_deployment, set_deployment_artifact, stop_service).            *)
PromotedIsUsable ==
  \A s \in Services : promoted[s] # NoDep =>
    /\ SvcOf[promoted[s]] = s
    /\ promoted[s] \in art
    /\ status[promoted[s]] \in Started

(* What makes it inductive: a row in progress belongs to a task that has   *)
(* not started anything, a task that has does so with an artifact, and a   *)
(* stop request holds a deployment that was promoted.                      *)
DeployInv ==
  /\ TypeOK
  /\ PromotedIsUsable
  /\ \A d \in Deployments :
       /\ pipe[d] = "created" => status[d] = "Pending"
       /\ pipe[d] = "building" => status[d] = "Building"
       /\ pipe[d] \notin {"idle", "created", "building"} => d \in art /\ status[d] \in Started
  /\ \A s \in Services :
       seen[s] # NoDep => seen[s] \in art /\ status[seen[s]] \in Started

(* When the operations of a service do not overlap, the row that says      *)
(* Healthy is the promoted one (promote_deployment, stop_service).         *)
HealthyIsPromoted ==
  \A d \in Deployments : status[d] = "Healthy" => promoted[SvcOf[d]] = d

(* While nothing happens to a service, its endpoint and its tracked        *)
(* process are those of the promoted deployment, and the ingress dials the *)
(* process.  The one process a failed deploy can leave is the one whose    *)
(* compensating stop failed, and that one is not dialled; a service that   *)
(* should not run has no route entry (finalize,                            *)
(* compensate_started_replica, stop_service).                              *)
QuiescentIsWired ==
  \A s \in Services : ~Busy(s) =>
    /\ endpoint[s] \in {NoDep, promoted[s]}
    /\ IF s \in kept THEN endpoint[s] = NoDep ELSE child[s] \in {NoDep, endpoint[s]}
    /\ s \in snapshot => promoted[s] # NoDep

(* Boot routes exactly the services that should be running.                *)
BootRoutesPromoted ==
  [][~up /\ up' => live' = {s \in verified : promoted[s] # NoDep}]_vars

(* A row leaves its in-progress states, whatever fails or crashes on the   *)
(* way (run_with_deps, fail_orphan_deployments) -- unless its artifact is  *)
(* never acquired, or its task never started because the log could not be  *)
(* created, and no restart comes.                                          *)
InProgress == {"Pending", "Building", "Starting"}
Unstarted(d) == pipe[d] = "idle" /\ status[d] = "Pending"
RowSettles ==
  \A d \in Deployments :
    \/ <>[](Acquiring(d) \/ Unstarted(d))
    \/ status[d] \in InProgress ~> status[d] \notin InProgress

(* The rows are the history that module History describes -- one open      *)
(* deployment of a service, one current one, a replaced row demoted in the *)
(* step that replaces it, no ended row reopened -- through any failure,    *)
(* stop and restart, when the operations of a service do not overlap       *)
(* (promote_deployment, stop_service, fail_orphan_deployments).            *)
Row(d) ==
  IF status[d] \notin InProgress THEN status[d]
  ELSE IF pipe[d] = "idle" THEN "stale" ELSE "open"
H == INSTANCE History WITH row <- [d \in Deployments |-> Row(d)], current <- promoted
KeepsHistory == H!Spec

(* A boot comes to serve, whichever of its restarts fail                   *)
(* (autostart_plain_promoted).                                             *)
BootServes == ~up ~> up

-----------------------------------------------------------------------------
(* What comments and documents of the repository say, for the runs that    *)
(* show otherwise.                                                         *)

(* "history shows exactly one live (Healthy) row per service" *)
OneHealthyRow ==
  \A d, e \in Deployments :
    status[d] = "Healthy" /\ status[e] = "Healthy" /\ SvcOf[d] = SvcOf[e] => d = e

(* The old deployment is retained until the new one is healthy: between    *)
(* operations the promoted deployment of a plain service is running.       *)
OldKeepsRunning ==
  \A s \in Services \ Autoscaled :
    up /\ crashes = 0 /\ ~Busy(s) /\ promoted[s] # NoDep => child[s] = promoted[s]

(* A deployment that boot marked Failed ("deployment aborted") is not the  *)
(* one the service runs.                                                   *)
FailedIsNotRunning ==
  \A d \in Deployments :
    up /\ status[d] = "Failed" /\ ~Busy(SvcOf[d]) => child[SvcOf[d]] # d

(* "Single control-plane writer": with no swap pending the live table is   *)
(* the one of the snapshot.                                                *)
RoutesMatchSnapshot ==
  (\A d \in Deployments : pipe[d] # "swap") /\ (\A s \in Services : stop[s] # "swap")
    => live = snapshot
=============================================================================
