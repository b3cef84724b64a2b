----------------------------- MODULE Autoscaler -----------------------------
(***************************************************************************)
(* The autoscale controller: src/autoscale/{controller,lifecycle,ledger,   *)
(* registry,catalog}.rs, with the ingress pool entries and the runtime     *)
(* processes its operations create and remove, and the API handlers that   *)
(* call it.                                                                *)
(*                                                                         *)
(* Every operation of the controller runs under one tokio mutex, so at     *)
(* most one is in progress (variable op).  It is split at its awaits: the  *)
(* database may change under it (a promotion, an edit of the service, a    *)
(* stop), the ingress reads the pool, and the process may die.  A service  *)
(* whose policy is taken away altogether is left out: it is the deploy     *)
(* coordinator's from then on.                                             *)
(***************************************************************************)
EXTENDS Scaler, FiniteSets

CONSTANTS
  Services, Deployments,
  Ids,         \* names for replica ids (Uuid::now_v7), reused once free
  Resources,   \* {cpu, mem}
  Word,        \* Word[r]: largest value of the integer type that counts r
  Alloc,       \* Alloc[r]: allocatable amount, host capacity less headroom
  Limits,      \* Limits[s]: the ResourceLimits put_service may give s
  Policies,    \* Policies[s]: and the AutoscalePolicy
  CpuSamples, MemSamples,
  MaxCrashes,  \* bound on daemon restarts
  NoDep, NoId, NoSvc

Amounts == [Resources -> Nat]

(* Of a service that is not resolved; max_replicas is never 0. *)
NoPolicy == [min |-> 0, max |-> 0, targetCpu |-> 1, targetMem |-> 0, cooldown |-> 0, idle |-> 0]

ASSUME ConstantsAssumption ==
  /\ IsFiniteSet(Ids)
  /\ NoId \notin Ids /\ NoSvc \notin Services /\ NoDep \notin Deployments
  /\ Word \in Amounts /\ Alloc \in Amounts
  /\ \A r \in Resources : Alloc[r] < Word[r]
  /\ Limits \in [Services -> SUBSET Amounts]
  /\ \A s \in Services :
       Limits[s] # {} /\ Policies[s] # {} /\ \A p \in Policies[s] : ValidPolicy(p)
  /\ CpuSamples \subseteq Nat /\ MemSamples \subseteq Nat
  /\ MaxCrashes \in Nat

VARIABLES
  \* SQLite
  promoted,   \* promoted[s]: promoted deployment, NoDep when there is none
  unborn,     \* unborn[s]: deployments of s that were not promoted yet
  limits,     \* limits[s]: ResourceLimits of the service's configuration
  policy,     \* policy[s]: its AutoscalePolicy
  desired,    \* desired[s]: persisted desired_replicas, -1 when never set
  \* API tasks outside the controller lock
  handoff,    \* deploys of s that still have to call reconcile_service
  stopping,   \* stop requests of s between drain_all and clearing promoted
  \* in memory, behind the controller lock
  registry,   \* ReplicaRegistry: replica or NoReplica per id
  committed,  \* ResourceLedger
  cooling,    \* services whose CooldownState.below_since is set
  \* shared with the ingress and the runtime
  pool,       \* pool[id]: the id's endpoint in the ingress pool
  lag,        \* the replica whose change the ingress is still to be told of
  procs,      \* children the runtime tracks, <<service, index, deployment>>
  \* what went wrong
  stray,      \* services with a process that runs on and that nobody tracks
  loose,      \* tracked ones that were let go: their stop failed
  torn,       \* replicas whose activation was dropped before the ingress was told
  \* the operation that holds the lock
  op,         \* "free" or the operation
  pc,         \* where it is waiting
  job,        \* what the launch or drain in progress is for
  cur,        \* the service it works on
  snap,       \* snap[s]: the ManagedService it resolved for s
  todo,       \* services it still has to process
  target,     \* the replica count it drives cur to
  idx,        \* index of the replica it launches
  vic,        \* id of the replica it launches or drains
  crashes

dbVars   == <<promoted, unborn, limits, policy>>
apiVars  == <<handoff, stopping>>
leftVars == <<stray, loose, torn>>
memVars  == <<registry, committed, pool, lag, procs, leftVars>>
ctlVars  == <<op, pc, job, cur, snap, todo, target, idx, vic>>
vars == <<dbVars, desired, apiVars, memVars, cooling, ctlVars, crashes>>

-----------------------------------------------------------------------------
(* The catalog: a service is managed while it has a promoted deployment.   *)
NoReplica == [st |-> "none"]
NoService == [dep |-> NoDep, lim |-> [r \in Resources |-> 0], pol |-> NoPolicy]
Managed == {s \in Services : promoted[s] # NoDep}
Resolve(s) == IF s \in Managed THEN [dep |-> promoted[s], lim |-> limits[s], pol |-> policy[s]]
              ELSE NoService

(* The registry *)
Live(s) == {id \in Ids : registry[id] # NoReplica /\ registry[id].svc = s}
Count(s) == Cardinality(Live(s))
Healthy(s) == {id \in Live(s) : registry[id].st = "Healthy"}
Registered == {id \in Ids : registry[id] # NoReplica}
FreeIds == {id \in Ids : registry[id] = NoReplica /\ pool[id] = "absent"}

(* The replicas of S with the lowest and with the highest index.  A        *)
(* service's replicas are registered with growing indices, so the lowest   *)
(* is the first in registry order.                                         *)
Lowest(S) == {id \in S : \A j \in S : registry[id].idx <= registry[j].idx}
Highest(S) == {id \in S : \A j \in S : registry[id].idx >= registry[j].idx}

(* The index of the next replica of s, as a set of one element. *)
next_replica_index(s) ==
  IF Live(s) = {} THEN {0} ELSE {registry[h].idx + 1 : h \in Highest(Live(s))}

(* Replicas of s that run another deployment than the promoted one. *)
Old_FleetsOnly(s) ==
  {id \in Live(s) : Cardinality(Live(s)) > 1 /\ registry[id].dep # snap[s].dep}
Old(s) == {id \in Live(s) : registry[id].dep # snap[s].dep}

(* The ledger; additions saturate at the width of the counter. *)
SatAdd(r, a, b) == MinOf(a + b, Word[r])
CanReserve(lim) == \A r \in Resources : SatAdd(r, committed[r], lim[r]) <= Alloc[r]
Reserve(lim) == committed' = [r \in Resources |-> SatAdd(r, committed[r], lim[r])]
Release(lim) == committed' = [r \in Resources |-> MaxOf(committed[r] - lim[r], 0)]

-----------------------------------------------------------------------------
Init ==
  /\ promoted = [s \in Services |-> NoDep]
  /\ unborn = [s \in Services |-> Deployments]
  /\ limits \in [Services -> UNION {Limits[s] : s \in Services}]
  /\ policy \in [Services -> UNION {Policies[s] : s \in Services}]
  /\ \A s \in Services : limits[s] \in Limits[s] /\ policy[s] \in Policies[s]
  /\ desired = [s \in Services |-> -1]
  /\ handoff = {} /\ stopping = {}
  /\ registry = [id \in Ids |-> NoReplica]
  /\ committed = [r \in Resources |-> 0]
  /\ cooling = {}
  /\ pool = [id \in Ids |-> "absent"] /\ lag = NoId
  /\ procs = {} /\ stray = {} /\ loose = {} /\ torn = {}
  /\ op = "free" /\ pc = "pick" /\ job = "none" /\ cur = NoSvc
  /\ snap = [s \in Services |-> NoService]
  /\ todo = {} /\ target = 0 /\ idx = 0 /\ vic = NoId
  /\ crashes = 0

-----------------------------------------------------------------------------
(* Callers outside the controller lock.                                    *)

(* A deploy of an autoscaled service promotes; its task will hand off,     *)
(* unless it fails to write the routes.                                    *)
Promote(s, d) ==
  /\ d \in unborn[s]
  /\ promoted' = [promoted EXCEPT ![s] = d]
  /\ unborn' = [unborn EXCEPT ![s] = @ \ {d}]
  /\ handoff' \in {handoff, handoff \cup {s}}
  /\ UNCHANGED <<limits, policy, desired, stopping, memVars, cooling, ctlVars, crashes>>

(* An update of the service's configuration changes its limits and its     *)
(* policy.                                                                 *)
PutService(s, lim, pol) ==
  /\ <<lim, pol>> # <<limits[s], policy[s]>>
  /\ limits' = [limits EXCEPT ![s] = lim]
  /\ policy' = [policy EXCEPT ![s] = pol]
  /\ UNCHANGED <<promoted, unborn, desired, apiVars, memVars, cooling, ctlVars,
                 crashes>>

(* Second half of an autoscaled stop, after drain_all gave the lock back:  *)
(* the routes go and the promoted row is cleared.                          *)
StopRoutesOnly(s) ==
  /\ s \in stopping
  /\ ~(op = "drain_all" /\ todo = {s})
  /\ promoted' = [promoted EXCEPT ![s] = NoDep]
  /\ stopping' = stopping \ {s}
  /\ UNCHANGED <<unborn, limits, policy, desired, handoff, memVars, cooling, ctlVars,
                 crashes>>

-----------------------------------------------------------------------------
(* Taking and releasing the lock.                                          *)

Begin(o, S) ==
  /\ op = "free"
  /\ op' = o
  /\ todo' = S
  /\ snap' = [s \in Services |-> IF s \in S THEN Resolve(s) ELSE NoService]
  /\ UNCHANGED <<dbVars, desired, memVars, pc, job, cur, target, idx, vic, crashes>>

(* tick_all over catalog.all().  The tick ends by pruning the cooldowns of *)
(* the services outside that list, which it does not read before.          *)
TickAll ==
  /\ Begin("tick", Managed)
  /\ cooling' = cooling \cap Managed
  /\ UNCHANGED apiVars

(* SharedController::activate, for a request that found no healthy endpoint *)
Activate(s) ==
  /\ s \in Managed
  /\ \A id \in Live(s) : pool[id] # "healthy"
  /\ Begin("activate", {s})
  /\ UNCHANGED <<apiVars, cooling>>

(* The deploy task's reconcile_service; nothing for an unmanaged service.  *)
ReconcileService(s) ==
  /\ s \in handoff
  /\ handoff' = handoff \ {s}
  /\ Begin("reconcile", {s} \cap Managed)
  /\ UNCHANGED <<stopping, cooling>>

(* First half of an autoscaled stop: drain_all. *)
DrainAll(s) ==
  /\ stopping' = stopping \cup {s}
  /\ Begin("drain_all", {s} \cap Managed)
  /\ UNCHANGED <<handoff, cooling>>

(* The operation returns and drops the guard. *)
Finish ==
  /\ op # "free" /\ pc = "pick" /\ todo = {} /\ lag = NoId
  /\ op' = "free"
  /\ UNCHANGED <<dbVars, desired, apiVars, memVars, cooling, pc, job, cur, snap,
                 todo, target, idx, vic, crashes>>

(* The daemon dies and boots: memory is gone, sweep_orphans killed what    *)
(* was left of the workloads, so list_running is empty and reconcile_boot  *)
(* has nothing to adopt; it tops every managed service up.                 *)
Reboot ==
  /\ crashes < MaxCrashes
  /\ crashes' = crashes + 1
  /\ registry' = [id \in Ids |-> NoReplica]
  /\ committed' = [r \in Resources |-> 0]
  /\ pool' = [id \in Ids |-> "absent"] /\ lag' = NoId
  /\ procs' = {} /\ stray' = {} /\ loose' = {} /\ torn' = {}
  /\ cooling' = {} /\ handoff' = {} /\ stopping' = {}
  /\ op' = "boot" /\ todo' = Managed
  /\ snap' = [s \in Services |-> Resolve(s)]
  /\ pc' = "pick" /\ job' = "none" /\ cur' = NoSvc
  /\ target' = 0 /\ idx' = 0 /\ vic' = NoId
  /\ UNCHANGED <<dbVars, desired>>

-----------------------------------------------------------------------------
(* Building blocks of the operations, for the service s they work on.      *)

(* s is done; the controller persists n as its desired count, except that  *)
(* activate_one persists nothing.                                          *)
Done(s, n) ==
  /\ desired' = IF op = "activate" THEN desired ELSE [desired EXCEPT ![s] = n]
  /\ todo' = todo \ {s}
  /\ snap' = [snap EXCEPT ![s] = NoService]
  /\ pc' = "pick" /\ job' = "none" /\ cur' = NoSvc
  /\ target' = 0 /\ idx' = 0 /\ vic' = NoId
  /\ UNCHANGED op

Continue(s, p, j) ==
  /\ pc' = p /\ job' = j /\ cur' = s
  /\ UNCHANGED <<op, snap, todo, desired>>

(* launch_replica, step 1: reserve the budget or be denied. *)
LaunchBegin(s, i, j) ==
  /\ UNCHANGED <<registry, pool, lag, procs, leftVars>>
  /\ \/ /\ CanReserve(snap[s].lim)
        /\ Reserve(snap[s].lim)
        /\ idx' = i
        /\ vic' = NoId
        /\ Continue(s, "starting", j)
        /\ UNCHANGED target
     \/ /\ ~CanReserve(snap[s].lim)
        /\ UNCHANGED committed
        /\ Done(s, Count(s))

(* The ingress is told of a change to the registry at the await after it.  *)
(* A replica is added Pending; setting the health of an endpoint that is   *)
(* not there does nothing.                                                 *)
Tell(id) == lag' = id /\ UNCHANGED pool

Endpoint(id) ==
  IF registry[id] = NoReplica THEN "absent"
  ELSE IF registry[id].st = "Pending" THEN "unhealthy"
  ELSE IF pool[id] = "absent" THEN "absent"
  ELSE IF registry[id].st = "Healthy" THEN "healthy" ELSE "unhealthy"

IngressTold ==
  /\ lag # NoId
  /\ pool' = [pool EXCEPT ![lag] = Endpoint(lag)] /\ lag' = NoId
  /\ UNCHANGED <<registry, committed, procs, leftVars, desired, cooling, ctlVars>>

(* drain_replica, step 1: no new connections, then the grace window. *)
DrainBegin(s, id, j) ==
  /\ registry' = [registry EXCEPT ![id].st = "Draining"]
  /\ Tell(id)
  /\ vic' = id
  /\ Continue(s, "draining", j)
  /\ UNCHANGED <<committed, procs, leftVars, target>>

Remove(id) ==
  /\ registry' = [registry EXCEPT ![id] = NoReplica]
  /\ Tell(id)

(* Runtime::start on the tracked children: the key is (service, index).  A *)
(* child tracked under the key of a start is replaced and terminated; if   *)
(* that fails it runs on.                                                  *)
At(s, i) == {p \in procs : p[1] = s /\ p[2] = i}
Names(P) == {p[1] : p \in P}
Start(s, i, d) ==
  /\ procs' = (procs \ At(s, i)) \cup {<<s, i, d>>}
  /\ loose' = loose \ At(s, i)
  /\ stray' \in {stray, stray \cup Names(At(s, i))}

(* Runtime::stop, whose errors the controller ignores: it terminates the   *)
(* child, or fails to when it is no longer tracked; or it fails before it  *)
(* looks for the child (reap_exited_children).                             *)
Untrack(s, i) ==
  /\ procs' = procs \ At(s, i) /\ loose' = loose \ At(s, i)
  /\ stray' \in {stray, stray \cup Names(At(s, i))}
Stop(s, i) ==
  \/ Untrack(s, i)
  \/ loose' = loose \cup At(s, i) /\ UNCHANGED <<procs, stray>>

-----------------------------------------------------------------------------
(* What an operation decides for its next service.                         *)

Pick(o, s) == op = o /\ pc = "pick" /\ s \in todo

(* tick, branch 0: some replica runs another deployment.  A single replica *)
(* is rolled launch-first; a larger fleet drain-first, the new index being *)
(* computed before the drain.                                              *)
RollSurge(s) ==
  /\ Pick("tick", s)
  /\ Old(s) # {} /\ Count(s) <= 1
  /\ \E i \in next_replica_index(s) : LaunchBegin(s, i, "surge")
  /\ UNCHANGED cooling

RollReplace_First(s) ==
  /\ Pick("tick", s)
  /\ Old(s) # {}
  /\ \E id \in Lowest(Old(s)) : DrainBegin(s, id, "replace")
  /\ idx' \in next_replica_index(s)
  /\ UNCHANGED cooling
RollReplace(s) ==
  /\ Pick("tick", s)
  /\ Old(s) # {} /\ Count(s) > 1
  /\ \E id \in Lowest(Old(s)) : DrainBegin(s, id, "replace")
  /\ idx' \in next_replica_index(s)
  /\ UNCHANGED cooling

Loop(s, n, j) ==
  /\ Continue(s, "loop", j)
  /\ target' = n
  /\ UNCHANGED <<memVars, idx, vic>>

(* tick, start = 0: up to the minimum, or rest at zero. *)
FromZero(s) ==
  /\ Pick("tick", s) /\ Live(s) = {}
  /\ \/ snap[s].pol.min >= 1 /\ Loop(s, snap[s].pol.min, "scale")
     \/ snap[s].pol.min = 0 /\ Done(s, 0) /\ UNCHANGED memVars
  /\ UNCHANGED cooling

Settled(s) == Pick("tick", s) /\ Live(s) # {} /\ Old(s) = {}

(* tick, no cgroup could be read (no replica is Healthy, or the reads      *)
(* failed): hold.                                                          *)
MetricsOutage(s) ==
  /\ Settled(s)
  /\ Done(s, Count(s))
  /\ UNCHANGED <<memVars, cooling>>

(* tick, idle scale-to-zero. *)
IdleToZero(s) ==
  /\ Settled(s) /\ Healthy(s) # {}
  /\ snap[s].pol.min = 0
  /\ \E cpu \in CpuSamples : cpu < snap[s].pol.targetCpu
  /\ Loop(s, 0, "empty")
  /\ UNCHANGED cooling

(* tick, sampled load: grow, shrink after the cooldown, or hold. *)
Resize(s, cpu, mem) ==
  LET p == snap[s].pol
      n == Count(s)
      up == desired_up(n, cpu, p.targetCpu, mem, p.targetMem)
      down == desired_down(n, cpu, p.targetCpu)
  IN /\ Settled(s) /\ Healthy(s) # {}
     /\ \/ /\ up > n
           /\ cooling' = cooling \ {s}
           /\ Loop(s, clamp_loop(up, p.min, p.max), "scale")
        \/ /\ up <= n /\ down < n
           /\ cooling' = cooling \cup {s}
           /\ \/ s \in cooling /\ Loop(s, clamp_loop(down, p.min, p.max), "scale")
              \/ Loop(s, n, "scale")
        \/ /\ up <= n /\ down >= n
           /\ UNCHANGED cooling
           /\ Loop(s, n, "scale")

(* top_up_to_desired, for reconcile_service and reconcile_boot: the        *)
(* persisted count within the policy, and launches only.                   *)
TopUp(s) ==
  /\ Pick("reconcile", s) \/ Pick("boot", s)
  /\ LET p == snap[s].pol
         want == IF desired[s] = -1 THEN p.min ELSE desired[s]
     IN Loop(s, MaxOf(Count(s), MinOf(MaxOf(want, p.min), p.max)), "scale")
  /\ UNCHANGED cooling

(* activate_one: exactly one replica, from zero, at index 0. *)
ActivateOne(s) ==
  /\ Pick("activate", s)
  /\ \/ Live(s) # {} /\ Done(s, 0) /\ UNCHANGED memVars
     \/ Live(s) = {} /\ LaunchBegin(s, 0, "wake")
  /\ UNCHANGED cooling

(* drain_all *)
EmptyAll(s) ==
  /\ Pick("drain_all", s)
  /\ Loop(s, 0, "empty")
  /\ UNCHANGED cooling

Decide ==
  \E s \in Services :
    \/ RollSurge(s) \/ RollReplace(s) \/ FromZero(s) \/ MetricsOutage(s)
    \/ IdleToZero(s) \/ TopUp(s) \/ ActivateOne(s) \/ EmptyAll(s)
    \/ \E cpu \in CpuSamples, mem \in MemSamples : Resize(s, cpu, mem)

-----------------------------------------------------------------------------
(* The launch and drain loops.                                             *)

LoopUp ==
  /\ pc = "loop" /\ Count(cur) < target
  /\ \E i \in next_replica_index(cur) : LaunchBegin(cur, i, "scale")

(* Scale-down takes the highest index; emptying goes in registry order.    *)
LoopDown ==
  /\ pc = "loop" /\ Count(cur) > target
  /\ \E id \in IF job = "empty" THEN Lowest(Live(cur)) ELSE Highest(Live(cur)) :
       DrainBegin(cur, id, job)
  /\ UNCHANGED idx

LoopDone ==
  /\ pc = "loop" /\ Count(cur) = target
  /\ Done(cur, target)
  /\ UNCHANGED memVars

(* Rollout, second half: drain the old one after a surge, launch the new   *)
(* one after a drain.                                                      *)
SurgeDrain ==
  /\ pc = "rolled"
  /\ \E id \in Lowest(Old(cur)) : DrainBegin(cur, id, "surge")
  /\ UNCHANGED idx

Relaunch ==
  /\ pc = "drained"
  /\ LaunchBegin(cur, idx, "replace")

(* launch_replica, steps 2-4: the runtime starts the workload, which is    *)
(* registered Pending, with an unhealthy endpoint once the ingress knows;  *)
(* or the start fails.                                                     *)
StartOk ==
  /\ pc = "starting"
  /\ \E id \in FreeIds :
       /\ id = CHOOSE i \in FreeIds : TRUE
       /\ registry' = [registry EXCEPT ![id] =
            [st |-> "Pending", svc |-> cur, dep |-> snap[cur].dep, idx |-> idx,
             held |-> snap[cur].lim]]
       /\ Tell(id) /\ torn' = torn \ {id}
       /\ vic' = id
  /\ Start(cur, idx, snap[cur].dep)
  /\ pc' = "probing"
  /\ UNCHANGED <<committed, desired, op, job, cur, snap, todo, target, idx>>

StartFail ==
  /\ pc = "starting"
  /\ Release(snap[cur].lim)
  /\ Done(cur, Count(cur))
  /\ UNCHANGED <<registry, pool, lag, procs, leftVars>>

(* launch_replica, step 6: the health gate passed. *)
ProbeOk ==
  /\ pc = "probing"
  /\ registry' = [registry EXCEPT ![vic].st = "Healthy"]
  /\ Tell(vic)
  /\ CASE job = "scale" -> Continue(cur, "loop", job) /\ UNCHANGED <<target, idx, vic>>
       [] job = "surge" -> Continue(cur, "rolled", job) /\ UNCHANGED <<target, idx, vic>>
       [] OTHER -> Done(cur, Count(cur))
  /\ UNCHANGED <<committed, procs, leftVars>>

(* launch_replica, step 5: the health gate failed; everything is undone.   *)
ProbeFail_KeepEndpoint ==
  /\ pc = "probing"
  /\ Stop(cur, idx)
  /\ Release(snap[cur].lim)
  /\ registry' = [registry EXCEPT ![vic] = NoReplica]
  /\ UNCHANGED <<pool, lag, torn>>
  /\ Done(cur, Count(cur) - 1)
ProbeFail ==
  /\ pc = "probing"
  /\ Stop(cur, idx)
  /\ Release(snap[cur].lim)
  /\ Remove(vic) /\ UNCHANGED torn
  /\ Done(cur, Count(cur) - 1)

(* drain_replica, steps 3-4: whatever stop returns, the replica is removed *)
(* and its budget released, at the limits the caller resolved.             *)
DrainEnd_KeepBudget ==
  /\ pc = "draining"
  /\ Stop(cur, registry[vic].idx)
  /\ UNCHANGED committed
  /\ Remove(vic) /\ UNCHANGED torn
  /\ CASE job \in {"scale", "empty"} -> Continue(cur, "loop", job) /\ UNCHANGED <<target, idx, vic>>
       [] job = "replace" -> Continue(cur, "drained", job) /\ UNCHANGED <<target, idx, vic>>
       [] OTHER -> Done(cur, Count(cur) - 1)
DrainEnd ==
  /\ pc = "draining"
  /\ Stop(cur, registry[vic].idx)
  /\ Release(snap[cur].lim)
  /\ Remove(vic) /\ UNCHANGED torn
  /\ CASE job \in {"scale", "empty"} -> Continue(cur, "loop", job) /\ UNCHANGED <<target, idx, vic>>
       [] job = "replace" -> Continue(cur, "drained", job) /\ UNCHANGED <<target, idx, vic>>
       [] OTHER -> Done(cur, Count(cur) - 1)

Step ==
  \/ LoopUp \/ LoopDown \/ LoopDone
  \/ SurgeDrain \/ Relaunch
  \/ StartOk \/ StartFail \/ ProbeOk \/ ProbeFail \/ DrainEnd

(* One step of the operation that holds the lock. *)
Work ==
  /\ \/ lag = NoId /\ (Decide \/ (Step /\ UNCHANGED cooling))
     \/ IngressTold
  /\ UNCHANGED <<dbVars, apiVars, crashes>>

(* What a future dropped inside Runtime::start leaves of the workload:     *)
(* nothing yet, a process nobody tracks, or, while it terminates the child *)
(* it replaced, a tracked one; and one dropped in the health gate or in    *)
(* the stop after it.                                                      *)
StartCut(p) ==
  \/ UNCHANGED <<procs, loose, stray>>
  \/ stray' = stray \cup {p[1]} /\ UNCHANGED <<procs, loose>>
  \/ /\ At(p[1], p[2]) # {}
     /\ procs' = (procs \ At(p[1], p[2])) \cup {p} /\ loose' = (loose \ At(p[1], p[2])) \cup {p}
     /\ stray' = stray \cup {p[1]}
StopCut(s, i) == UNCHANGED <<procs, loose, stray>> \/ Untrack(s, i)

(* The ingress gives up on a held request (ACTIVATION_WAIT): the           *)
(* activation's future is dropped at its await, and the lock with it;      *)
(* nothing of launch_replica after that await runs.                        *)
ActivationDropped ==
  /\ op = "activate" /\ (pc \in {"starting", "probing"} \/ lag # NoId)
  /\ IF pc = "starting" THEN StartCut(<<cur, idx, snap[cur].dep>>)
     ELSE IF pc = "probing" /\ lag = NoId THEN StopCut(cur, idx)
     ELSE UNCHANGED <<procs, loose, stray>>
  /\ lag' = NoId /\ torn' = torn \cup ({lag} \ {NoId})
  /\ op' = "free" /\ pc' = "pick" /\ job' = "none" /\ cur' = NoSvc
  /\ snap' = [s \in Services |-> NoService]
  /\ todo' = {} /\ target' = 0 /\ idx' = 0 /\ vic' = NoId
  /\ UNCHANGED <<dbVars, desired, apiVars, registry, committed, pool, cooling, crashes>>

(* A workload exits by itself.  The runtime reaps it at its next call      *)
(* (reap_exited_children); neither the registry nor the ingress is told.   *)
WorkloadExits ==
  /\ \E p \in procs : procs' = procs \ {p} /\ loose' = loose \ {p}
  /\ UNCHANGED <<dbVars, desired, apiVars, registry, committed, pool, lag, stray, torn, cooling,
                 ctlVars, crashes>>

Env ==
  \E s \in Services :
    \/ \E d \in Deployments : Promote(s, d)
    \/ \E lim \in Limits[s], pol \in Policies[s] : PutService(s, lim, pol)
    \/ StopRoutesOnly(s)
    \/ Activate(s) \/ ReconcileService(s) \/ DrainAll(s)

Next == Env \/ TickAll \/ Work \/ Finish \/ Reboot
Spec == Init /\ [][Next]_vars

(* The same with activations that can be dropped and workloads that exit.  *)
(* No guard reads procs, so exits matter only to what is said of procs.    *)
SpecDropped == Init /\ [][Next \/ ActivationDropped \/ WorkloadExits]_vars

(* Fairness: the holder of the lock runs on and gives the lock back; the   *)
(* ticker gets its turn on the FIFO mutex; a launch that is tried again    *)
(* and again succeeds at some point.                                       *)
Frame == UNCHANGED <<dbVars, apiVars, cooling, crashes>>
Fairness ==
  /\ WF_vars(Work) /\ WF_vars(Finish)
  /\ SF_vars(TickAll)
  /\ SF_vars(StartOk /\ Frame) /\ SF_vars(ProbeOk /\ Frame)
FairSpec == Spec /\ Fairness

-----------------------------------------------------------------------------
Replicas ==
  [st : {"Pending", "Healthy", "Draining"}, svc : Services, dep : Deployments,
   idx : Nat, held : Amounts]

(* Types, and what each wait of the lock holder entails. *)
TypeOK ==
  /\ promoted \in [Services -> Deployments \cup {NoDep}]
  /\ unborn \in [Services -> SUBSET Deployments]
  /\ limits \in [Services -> Amounts]
  /\ \A s \in Services : policy[s] \in Policies[s]
  /\ desired \in [Services -> Nat \cup {-1}]
  /\ handoff \subseteq Services /\ stopping \subseteq Services
  /\ registry \in [Ids -> Replicas \cup {NoReplica}]
  /\ committed \in Amounts
  /\ cooling \subseteq Services
  /\ pool \in [Ids -> {"absent", "unhealthy", "healthy"}]
  /\ lag \in Ids \cup {NoId} /\ torn \subseteq Ids
  /\ procs \cup loose \subseteq Services \X Nat \X Deployments /\ stray \subseteq Services
  /\ op \in {"free", "tick", "activate", "reconcile", "drain_all", "boot"}
  /\ pc \in {"pick", "loop", "starting", "probing", "rolled", "draining",
             "drained"}
  /\ job \in {"none", "scale", "surge", "replace", "wake", "empty"}
  /\ cur \in Services \cup {NoSvc}
  /\ \A s \in Services : snap[s].dep \in Deployments \cup {NoDep} /\ snap[s].lim \in Amounts
  /\ todo \subseteq Services
  /\ target \in Nat /\ idx \in Nat
  /\ vic \in Ids \cup {NoId}
  /\ crashes \in 0 .. MaxCrashes

(* ADR-018 "never overcommit": the ledger never commits more than is       *)
(* allocatable, whatever limits a service asks for, whatever fails and     *)
(* however the limits change between launch and drain (ledger.rs).         *)
NeverOvercommit == \A r \in Resources : committed[r] <= Alloc[r]

(* No two replicas of a service share an index, the key of their runtime   *)
(* process: a launch would replace the other's process, a drain stop it    *)
(* (next_replica_index, activate_one).                                     *)
DistinctIndices ==
  \A s \in Services : \A i, j \in Live(s) :
    registry[i].idx = registry[j].idx => i = j

(* Registry, runtime and ingress agree at every await: every tracked       *)
(* process belongs to a registered replica, at that replica's deployment,  *)
(* unless its stop failed or its start was dropped; an endpoint exists     *)
(* exactly for a registered replica and is eligible for traffic exactly    *)
(* while the replica is Healthy, except for the replica the ingress is     *)
(* being told of, or was when its activation was dropped.                  *)
Owned == {<<registry[id].svc, registry[id].idx, registry[id].dep>> : id \in Registered}
ReplicaConsistent ==
  /\ procs \subseteq Owned \cup loose
  /\ \A id \in Ids \ (torn \cup {lag}) :
       /\ pool[id] = "absent" <=> registry[id] = NoReplica
       /\ pool[id] = "healthy" <=> registry[id].st = "Healthy"

(* Units of r that some replica, or the launch in progress, holds. *)
HeldUnits(r) ==
  {u \in Ids \X (1 .. Word[r]) :
     registry[u[1]] # NoReplica /\ u[2] <= registry[u[1]].held[r]}
InFlight(r) == IF pc = "starting" THEN snap[cur].lim[r] ELSE 0

(* The ledger is exact: what is committed is the sum of what the live      *)
(* replicas and the launch in progress reserved; nothing leaks and nothing *)
(* is released twice (lifecycle.rs, launch_replica and drain_replica).     *)
LedgerExact ==
  \A r \in Resources : committed[r] = Cardinality(HeldUnits(r)) + InFlight(r)

(* A fleet grows within the maximum of the policy its operation resolved,  *)
(* which an edit may have lowered below the fleet since: only the          *)
(* launch-first roll of a single replica exceeds it, by one, and a replica *)
(* that replaces another is launched whatever the maximum has become.      *)
FleetGrowsWithin ==
  [][\A s \in Services :
       Count(s)' > Count(s) /\ job # "replace"
         => Count(s)' <= snap[s].pol.max + (IF job = "surge" THEN 1 ELSE 0)]_vars

(* A tick takes a service's last healthy replica away only to scale an     *)
(* idle service without a minimum to zero: neither a rollout, whatever     *)
(* fails in it, nor a scale-down does (controller.rs tick).                *)
TickKeepsServing ==
  [][\A s \in Services :
       op = "tick" /\ op' # "boot" /\ Healthy(s) # {} /\ Healthy(s)' = {} =>
         snap[s].pol.min = 0 /\ job' = "empty"]_vars

(* ADR-028: once a stop has completed, the service has no replica until    *)
(* the next deploy.                                                        *)
StoppedIsEmpty ==
  \A s \in Services :
    promoted[s] = NoDep /\ s \notin stopping /\ op = "free" => Live(s) = {}

(* controller.rs tick: the rollout completes, one replica at a time over   *)
(* several ticks: once a deployment stays promoted, every replica of the   *)
(* service comes to run it.                                                *)
RolloutCompletes ==
  \A s \in Services, d \in Deployments :
    <>[](promoted[s] = d) => <>[](\A id \in Live(s) : registry[id].dep = d)

(* lifecycle.rs launch_replica: whatever becomes of a launch, its partial  *)
(* state is rolled back: with the lock free every replica is Healthy and   *)
(* the ledger holds exactly their budgets.                                 *)
NothingLeaks ==
  op = "free" =>
    /\ \A id \in Registered : registry[id].st = "Healthy"
    /\ LedgerExact
=============================================================================
