-------------------------- MODULE AutoscalerProofs --------------------------
(***************************************************************************)
(* Proofs about the autoscale controller, for any services, policies,      *)
(* limits and samples, with activations that may be dropped at any await   *)
(* and workloads that may exit: the ledger never overcommits, the replicas *)
(* of a service have distinct indices, registry, runtime and ingress       *)
(* agree, a fleet grows within the policy its operation resolved, and a    *)
(* tick does not end the service of a workload that must serve.  When      *)
(* limits are edited only at rest, the ledger is exact and nothing leaks.  *)
(***************************************************************************)
EXTENDS Autoscaler, FiniteSetTheorems, TLAPS

Ops == {"free", "tick", "activate", "reconcile", "drain_all", "boot"}
Pcs == {"pick", "loop", "starting", "probing", "rolled", "draining", "drained"}
Jobs == {"none", "scale", "surge", "replace", "wake", "empty"}

(* What a catalog entry may be. *)
Snaps == [dep : Deployments \cup {NoDep}, lim : Amounts,
          pol : {NoPolicy} \cup UNION {Policies[s] : s \in Services}]

(* What the controller's callers own. *)
EnvInv ==
  /\ promoted \in [Services -> Deployments \cup {NoDep}]
  /\ unborn \in [Services -> SUBSET Deployments]
  /\ limits \in [Services -> Amounts]
  /\ policy \in [Services -> UNION {Policies[s] : s \in Services}]
  /\ \A s \in Services : policy[s] \in Policies[s]
  /\ handoff \subseteq Services /\ stopping \subseteq Services
  /\ cooling \subseteq Services
  /\ crashes \in 0 .. MaxCrashes

(* The lock holder: it works on a service it still has to process, and     *)
(* every such service was resolved to a deployment.                        *)
CtlInv ==
  /\ desired \in [Services -> Nat \cup {-1}]
  /\ op \in Ops /\ pc \in Pcs /\ job \in Jobs
  /\ cur \in Services \cup {NoSvc}
  /\ snap \in [Services -> Snaps]
  /\ todo \subseteq Services
  /\ target \in Nat /\ idx \in Nat
  /\ vic \in Ids \cup {NoId}
  /\ op = "free" => pc = "pick" /\ todo = {}
  /\ \A s \in todo : snap[s].dep \in Deployments /\ snap[s].pol \in Policies[s]
  /\ pc # "pick" => cur \in todo
  /\ pc = "loop" => job \in {"scale", "empty"}

(* An endpoint that is about to be marked is there. *)
Wired ==
  lag \in Ids \ torn /\ registry[lag] # NoReplica /\ registry[lag].st # "Pending"
    => pool[lag] # "absent"

(* Registry, ledger, pool and processes. *)
MemInv ==
  /\ registry \in [Ids -> Replicas \cup {NoReplica}]
  /\ committed \in Amounts
  /\ pool \in [Ids -> {"absent", "unhealthy", "healthy"}]
  /\ lag \in Ids \cup {NoId} /\ torn \subseteq Ids
  /\ procs \subseteq Services \X Nat \X Deployments
  /\ loose \subseteq Services \X Nat \X Deployments
  /\ stray \subseteq Services
  /\ NeverOvercommit
  /\ DistinctIndices
  /\ ReplicaConsistent
  /\ Wired

(* What the lock holder relies on across an await: the replica it probes   *)
(* or drains is still registered, and the index it is about to use is      *)
(* above every index in use.                                               *)
LinkInv ==
  /\ pc \in {"probing", "draining"} => vic \in Live(cur)
  /\ pc = "probing" => registry[vic].idx = idx
  /\ pc \in {"starting", "drained"} \/ (pc = "draining" /\ job = "replace") =>
       \A id \in Live(cur) : registry[id].idx < idx

IndInv == EnvInv /\ CtlInv /\ MemInv /\ LinkInv

USE ConstantsAssumption

-----------------------------------------------------------------------------
(* The inductive invariant implies the invariants that are model-checked.  *)
LEMMA IndImplies ==
  IndInv => TypeOK /\ NeverOvercommit /\ DistinctIndices /\ ReplicaConsistent
BY DEF IndInv, EnvInv, CtlInv, MemInv, TypeOK, Ops, Pcs, Jobs, Snaps

(* Reading the registry. *)
LEMMA LiveFacts ==
  ASSUME MemInv, NEW s \in Services, NEW id \in Live(s)
  PROVE  /\ id \in Ids /\ registry[id] \in Replicas /\ registry[id] # NoReplica
         /\ registry[id].svc = s /\ registry[id].idx \in Nat
BY DEF MemInv, Live, Replicas

LEMMA CountType ==
  ASSUME MemInv, NEW s \in Services
  PROVE  Count(s) \in Nat
<1>1. Live(s) \subseteq Ids BY DEF Live
<1> QED BY <1>1, FS_Subset, FS_CardinalityType DEF Count

(* A fresh index is above every index in use (next_replica_index). *)
LEMMA NextIndex ==
  ASSUME MemInv, NEW s \in Services, NEW i \in next_replica_index(s)
  PROVE  i \in Nat /\ \A id \in Live(s) : registry[id].idx < i
<1>1. \A id \in Live(s) : registry[id].idx \in Nat BY LiveFacts
<1>2. CASE Live(s) = {} BY <1>2 DEF next_replica_index
<1>3. CASE Live(s) # {}
  <2>1. PICK h \in Highest(Live(s)) : i = registry[h].idx + 1
    BY <1>3 DEF next_replica_index
  <2> QED BY <1>1, <2>1 DEF Highest
<1> QED BY <1>2, <1>3

(* Ledger steps keep the commitment natural and within the allocatable     *)
(* amount, whatever amount they are called with.                           *)
LEMMA LedgerSteps ==
  ASSUME committed \in Amounts, NeverOvercommit, NEW lim \in Amounts,
         (CanReserve(lim) /\ Reserve(lim)) \/ Release(lim) \/ UNCHANGED committed
  PROVE  committed' \in Amounts /\ NeverOvercommit'
<1>1. CASE CanReserve(lim) /\ Reserve(lim)
  BY <1>1 DEF CanReserve, Reserve, SatAdd, MinOf, NeverOvercommit, Amounts
<1>2. CASE Release(lim)
  BY <1>2 DEF Release, MaxOf, NeverOvercommit, Amounts
<1>3. CASE UNCHANGED committed
  BY <1>3 DEF NeverOvercommit
<1> QED BY <1>1, <1>2, <1>3

(* The end of a service's turn. *)
LEMMA DoneCtl ==
  ASSUME CtlInv, NEW s \in Services, NEW n \in Nat \cup {-1}, Done(s, n)
  PROVE  CtlInv' /\ LinkInv'
<1>1. NoService \in Snaps
  BY DEF NoService, Amounts, Snaps
<1>2. snap' \in [Services -> Snaps]
  BY <1>1 DEF Done, CtlInv
<1>3. desired' \in [Services -> Nat \cup {-1}]
  BY DEF Done, CtlInv
<1>4. \A t \in todo' : snap'[t].dep \in Deployments /\ snap'[t].pol \in Policies[t]
  BY DEF Done, CtlInv
<1> QED BY <1>2, <1>3, <1>4 DEF Done, CtlInv, LinkInv, Ops, Pcs, Jobs

(* The parts of MemInv that do not read the ledger. *)
LEMMA FleetSame ==
  ASSUME MemInv, committed' \in Amounts, NeverOvercommit',
         UNCHANGED <<registry, pool, lag, procs, stray, loose, torn>>
  PROVE  MemInv'
<1>1. DistinctIndices' BY DEF MemInv, DistinctIndices, Live
<1>2. ReplicaConsistent' BY DEF MemInv, ReplicaConsistent, Owned, Registered
<1>3. Wired' BY DEF MemInv, Wired
<1> QED BY <1>1, <1>2, <1>3 DEF MemInv

(* A registered replica changes its state, and the ingress is to be told.  *)
LEMMA MarkMem ==
  ASSUME MemInv, lag = NoId, NEW s \in Services, NEW id \in Live(s),
         NEW st \in {"Healthy", "Draining"},
         registry' = [registry EXCEPT ![id] = [registry[id] EXCEPT !.st = st]],
         Tell(id), UNCHANGED <<committed, procs, stray, loose, torn>>
  PROVE  /\ MemInv' /\ \A t \in Services : Live(t)' = Live(t)
         /\ \A k \in Registered : registry'[k].idx = registry[k].idx
<1>1. id \in Ids /\ registry[id] \in Replicas /\ registry[id] # NoReplica
  BY LiveFacts
<1>2. /\ registry'[id] \in Replicas /\ registry'[id] # NoReplica
      /\ registry'[id].st = st /\ registry'[id].svc = registry[id].svc
      /\ registry'[id].idx = registry[id].idx /\ registry'[id].dep = registry[id].dep
  BY <1>1 DEF MemInv, Replicas, NoReplica
<1>3. \A k \in Ids : k # id => registry'[k] = registry[k]
  BY DEF MemInv
<1>4. registry' \in [Ids -> Replicas \cup {NoReplica}]
  BY <1>1, <1>2, <1>3 DEF MemInv
<1>5. Registered' = Registered /\ \A t \in Services : Live(t)' = Live(t)
  BY <1>1, <1>2, <1>3 DEF Registered, Live
<1>6. \A k \in Registered : registry'[k].idx = registry[k].idx
         /\ registry'[k].svc = registry[k].svc /\ registry'[k].dep = registry[k].dep
  BY <1>2, <1>3 DEF Registered
<1>7. DistinctIndices'
  <2>1. \A t \in Services : \A k \in Live(t) : registry'[k].idx = registry[k].idx
    BY <1>6 DEF Live, Registered
  <2> QED BY <1>5, <2>1 DEF MemInv, DistinctIndices
<1>8. Owned' = Owned BY <1>5, <1>6 DEF Owned
<1>9. lag' = id /\ pool' = pool BY DEF Tell
<1>10. ReplicaConsistent'
  <2>1. \A k \in Ids \ (torn' \cup {lag'}) : k # id /\ k \in Ids \ (torn \cup {lag})
    BY <1>9
  <2>2. \A k \in Ids \ (torn' \cup {lag'}) :
          /\ pool'[k] = "absent" <=> registry'[k] = NoReplica
          /\ pool'[k] = "healthy" <=> registry'[k].st = "Healthy"
    BY <1>3, <1>9, <2>1 DEF MemInv, ReplicaConsistent
  <2> QED BY <1>8, <2>2 DEF MemInv, ReplicaConsistent
<1>11. Wired'
  <2>1. id \notin torn => pool[id] # "absent"
    BY <1>1 DEF MemInv, ReplicaConsistent
  <2> QED BY <1>9, <2>1 DEF Wired
<1>12. NeverOvercommit' BY DEF MemInv, NeverOvercommit
<1> QED BY <1>1, <1>4, <1>5, <1>6, <1>7, <1>9, <1>10, <1>11, <1>12 DEF MemInv

(* Then the ingress is told, and agrees. *)
LEMMA ToldMem ==
  ASSUME MemInv, IngressTold
  PROVE  MemInv'
<1>1. /\ lag \in Ids /\ lag' = NoId /\ pool' = [pool EXCEPT ![lag] = Endpoint(lag)]
      /\ UNCHANGED <<registry, committed, procs, stray, loose, torn>>
  BY DEF IngressTold, MemInv, leftVars
<1>2. Endpoint(lag) \in {"absent", "unhealthy", "healthy"} BY DEF Endpoint
<1>3. /\ pool'[lag] = Endpoint(lag) /\ \A k \in Ids : k # lag => pool'[k] = pool[k]
      /\ pool' \in [Ids -> {"absent", "unhealthy", "healthy"}]
  BY <1>1, <1>2 DEF MemInv
<1>4. lag \notin torn => /\ pool'[lag] = "absent" <=> registry'[lag] = NoReplica
                         /\ pool'[lag] = "healthy" <=> registry'[lag].st = "Healthy"
  <2> SUFFICES ASSUME lag \notin torn
               PROVE  /\ Endpoint(lag) = "absent" <=> registry[lag] = NoReplica
                      /\ Endpoint(lag) = "healthy" <=> registry[lag].st = "Healthy"
    BY <1>1, <1>3
  <2>1. registry[lag] \in Replicas \cup {NoReplica} BY <1>1 DEF MemInv
  <2>2. CASE registry[lag] = NoReplica BY <2>2 DEF Endpoint, NoReplica
  <2>3. CASE registry[lag] # NoReplica
    <3>1. registry[lag].st # "Pending" => pool[lag] # "absent"
      BY <1>1, <2>3 DEF MemInv, Wired
    <3> QED BY <2>3, <3>1 DEF Endpoint
  <2> QED BY <2>2, <2>3
<1>5. ReplicaConsistent'
  <2>1. ASSUME NEW k \in Ids \ (torn' \cup {lag'})
        PROVE  /\ pool'[k] = "absent" <=> registry'[k] = NoReplica
               /\ pool'[k] = "healthy" <=> registry'[k].st = "Healthy"
    <3>1. CASE k = lag BY <1>1, <1>4, <2>1, <3>1
    <3>2. CASE k # lag BY <1>1, <1>3, <2>1, <3>2 DEF MemInv, ReplicaConsistent
    <3> QED BY <3>1, <3>2
  <2>2. procs' \subseteq Owned' \cup loose'
    BY <1>1 DEF MemInv, ReplicaConsistent, Owned, Registered
  <2> QED BY <2>1, <2>2 DEF ReplicaConsistent
<1>6. Wired' /\ DistinctIndices' /\ NeverOvercommit'
  BY <1>1 DEF MemInv, Wired, DistinctIndices, NeverOvercommit, Live
<1> QED BY <1>1, <1>3, <1>5, <1>6 DEF MemInv

(* A launch reserves budget or is denied; its index is a fresh one.        *)
LEMMA LaunchBeginInv ==
  ASSUME CtlInv, MemInv, op # "free", NEW s \in todo, NEW i \in Nat,
         \A id \in Live(s) : registry[id].idx < i,
         NEW j \in Jobs, LaunchBegin(s, i, j)
  PROVE  CtlInv' /\ MemInv' /\ LinkInv'
<1>1. s \in Services /\ snap[s].lim \in Amounts BY DEF CtlInv, Snaps
<1>2. MemInv'
  <2>1. committed' \in Amounts /\ NeverOvercommit'
    BY <1>1, LedgerSteps DEF LaunchBegin, MemInv
  <2>2. UNCHANGED <<registry, pool, lag, procs, stray, loose, torn>>
    BY DEF LaunchBegin, leftVars
  <2> QED BY <2>1, <2>2, FleetSame
<1>3. CASE ~CanReserve(snap[s].lim)
  <2>1. Done(s, Count(s)) BY <1>3 DEF LaunchBegin
  <2> QED BY <1>1, <1>2, <2>1, DoneCtl, CountType
<1>4. CASE CanReserve(snap[s].lim)
  <2>1. /\ idx' = i /\ vic' = NoId /\ pc' = "starting" /\ job' = j /\ cur' = s
        /\ UNCHANGED <<op, snap, todo, desired, target, registry>>
    BY <1>4 DEF LaunchBegin, Continue
  <2>2. CtlInv' BY <1>1, <2>1 DEF CtlInv, Ops, Pcs, Jobs
  <2>3. LinkInv' BY <2>1 DEF LinkInv, Live
  <2> QED BY <1>2, <2>2, <2>3
<1> QED BY <1>3, <1>4

(* The first half of a drain changes the state of one replica only.        *)
LEMMA DrainBeginInv ==
  ASSUME CtlInv, MemInv, lag = NoId, op # "free", NEW s \in todo, NEW id \in Live(s),
         NEW j \in Jobs, DrainBegin(s, id, j), idx' \in Nat,
         j = "replace" => \A k \in Live(s) : registry[k].idx < idx'
  PROVE  CtlInv' /\ MemInv' /\ LinkInv'
<1>1. s \in Services BY DEF CtlInv
<1>2. id \in Ids BY DEF Live
<1>3. /\ registry' = [registry EXCEPT ![id] = [registry[id] EXCEPT !.st = "Draining"]]
      /\ Tell(id)
      /\ UNCHANGED <<committed, procs, stray, loose, torn, target, op, snap, todo, desired>>
      /\ vic' = id /\ pc' = "draining" /\ job' = j /\ cur' = s
  BY DEF DrainBegin, Continue, leftVars
<1>4. /\ MemInv' /\ Live(s)' = Live(s)
      /\ \A k \in Registered : registry'[k].idx = registry[k].idx
  BY <1>1, <1>3, MarkMem
<1>5. CtlInv' BY <1>1, <1>2, <1>3 DEF CtlInv, Ops, Pcs, Jobs
<1>6. \A k \in Live(s) : registry'[k].idx = registry[k].idx
  BY <1>4 DEF Live, Registered
<1>7. LinkInv' BY <1>3, <1>4, <1>6 DEF LinkInv
<1> QED BY <1>4, <1>5, <1>7

(* Runtime::stop, whatever it returns: a process that stays tracked and    *)
(* loses its replica is loose.                                             *)
LEMMA StopProcs ==
  ASSUME MemInv, NEW s, NEW i, Stop(s, i)
  PROVE  /\ procs' \subseteq procs /\ loose' \subseteq Services \X Nat \X Deployments
         /\ stray' \subseteq Services
         /\ \A p \in procs' : p \in loose \/ (p[1] = s /\ p[2] = i) => p \in loose'
<1>1. \A p \in At(s, i) : p \in procs /\ p[1] = s /\ p[2] = i BY DEF At
<1>2. Names(At(s, i)) \subseteq Services
  <2>1. \A p \in At(s, i) : p[1] \in Services BY <1>1 DEF MemInv
  <2> QED BY <2>1 DEF Names
<1>3. CASE Untrack(s, i)
  <2>1. procs' = procs \ At(s, i) /\ loose' = loose \ At(s, i) BY <1>3 DEF Untrack
  <2>2. stray' \subseteq Services BY <1>2, <1>3 DEF Untrack, MemInv
  <2>3. \A p \in procs' : ~(p[1] = s /\ p[2] = i) BY <2>1 DEF At
  <2> QED BY <2>1, <2>2, <2>3 DEF MemInv
<1>4. CASE loose' = loose \cup At(s, i) /\ UNCHANGED <<procs, stray>>
  <2>1. \A p \in procs' : p[1] = s /\ p[2] = i => p \in At(s, i) BY <1>4 DEF At
  <2> QED BY <1>1, <1>4, <2>1 DEF MemInv
<1> QED BY <1>3, <1>4 DEF Stop

(* Removing a replica with its process and its budget (drain_replica, and  *)
(* the rollback of launch_replica).                                        *)
LEMMA RemoveInv ==
  ASSUME MemInv, lag = NoId, NEW s \in Services, NEW id \in Live(s), NEW lim \in Amounts,
         Stop(s, registry[id].idx), Release(lim), Remove(id), UNCHANGED torn
  PROVE  /\ MemInv'
         /\ \A k \in Ids : registry'[k] # NoReplica => registry'[k] = registry[k]
<1>1. id \in Ids /\ registry[id] \in Replicas /\ registry[id] # NoReplica
      /\ registry[id].svc = s /\ registry[id].idx \in Nat
  BY LiveFacts
<1>2. registry'[id] = NoReplica /\ \A k \in Ids : k # id => registry'[k] = registry[k]
  BY <1>1 DEF Remove, MemInv
<1>3. registry' \in [Ids -> Replicas \cup {NoReplica}] /\ lag' = id /\ pool' = pool
  BY DEF Remove, Tell, MemInv
<1>4. committed' \in Amounts /\ NeverOvercommit'
  BY LedgerSteps DEF MemInv
<1>5. \A t \in Services : Live(t)' = Live(t) \ {id}
  BY <1>2 DEF Live
<1>6. Registered' = Registered \ {id}
  BY <1>2 DEF Registered
<1>7. DistinctIndices'
  <2>1. \A t \in Services : \A k \in Live(t)' : registry'[k] = registry[k] /\ k \in Live(t)
    BY <1>2, <1>5 DEF Live
  <2> QED BY <2>1 DEF MemInv, DistinctIndices
<1>8. /\ procs' \subseteq procs /\ loose' \subseteq Services \X Nat \X Deployments
      /\ stray' \subseteq Services
      /\ \A p \in procs' : p \in loose \/ (p[1] = s /\ p[2] = registry[id].idx) => p \in loose'
  BY StopProcs
<1>9. procs' \subseteq Owned' \cup loose'
  <2> SUFFICES ASSUME NEW p \in procs', p \notin loose'
               PROVE  p \in Owned'
    OBVIOUS
  <2>1. PICK k \in Registered :
          p = <<registry[k].svc, registry[k].idx, registry[k].dep>>
    BY <1>8 DEF MemInv, ReplicaConsistent, Owned
  <2>2. k # id BY <1>1, <1>8, <2>1
  <2> QED BY <1>2, <1>6, <2>1, <2>2 DEF Owned, Registered
<1>10. \A k \in Ids \ (torn' \cup {lag'}) :
         /\ pool'[k] = "absent" <=> registry'[k] = NoReplica
         /\ pool'[k] = "healthy" <=> registry'[k].st = "Healthy"
  <2>1. \A k \in Ids \ (torn' \cup {lag'}) : k # id /\ k \in Ids \ (torn \cup {lag})
    BY <1>3
  <2> QED BY <1>2, <1>3, <2>1 DEF MemInv, ReplicaConsistent
<1>11. Wired' BY <1>2, <1>3 DEF Wired
<1>12. ReplicaConsistent' BY <1>9, <1>10 DEF ReplicaConsistent
<1> QED BY <1>1, <1>2, <1>3, <1>4, <1>7, <1>8, <1>11, <1>12 DEF MemInv

(* The second step of a launch registers a replica under a fresh index; a  *)
(* process tracked under that index can only be a loose one.               *)
LEMMA StartOkInv ==
  ASSUME CtlInv, MemInv, LinkInv, lag = NoId, StartOk
  PROVE  CtlInv' /\ MemInv' /\ LinkInv'
<1>1. pc = "starting" /\ cur \in todo /\ cur \in Services /\ idx \in Nat
      /\ snap[cur].dep \in Deployments /\ snap[cur].lim \in Amounts /\ op # "free"
  BY DEF StartOk, CtlInv, Snaps
<1>2. \A id \in Live(cur) : registry[id].idx < idx /\ registry[id].idx \in Nat
  BY <1>1, LiveFacts DEF LinkInv
<1> DEFINE new == [st |-> "Pending", svc |-> cur, dep |-> snap[cur].dep,
                   idx |-> idx, held |-> snap[cur].lim]
<1>3. PICK id \in FreeIds :
        /\ registry' = [registry EXCEPT ![id] = new]
        /\ pool' = pool /\ lag' = id /\ torn' = torn \ {id}
        /\ vic' = id
  BY DEF StartOk, Tell
<1>4. /\ pc' = "probing"
      /\ UNCHANGED <<committed, desired, op, job, cur, snap, todo, target, idx>>
      /\ procs' = (procs \ At(cur, idx)) \cup {<<cur, idx, snap[cur].dep>>}
      /\ loose' = loose \ At(cur, idx)
      /\ stray' \in {stray, stray \cup Names(At(cur, idx))}
  BY DEF StartOk, Start
<1>5. new \in Replicas /\ new # NoReplica
  BY <1>1 DEF Replicas, NoReplica
<1>6. id \in Ids /\ registry[id] = NoReplica BY <1>3 DEF FreeIds
<1> HIDE DEF new
<1>7. registry'[id] = new /\ \A k \in Ids : k # id => registry'[k] = registry[k]
  BY <1>3, <1>6 DEF MemInv
<1>8. new.st = "Pending" /\ new.svc = cur /\ new.idx = idx /\ new.dep = snap[cur].dep
  BY DEF new
<1>9. \A t \in Services : Live(t)' = IF t = cur THEN Live(t) \cup {id} ELSE Live(t)
  BY <1>5, <1>6, <1>7, <1>8 DEF Live
<1>10. Registered' = Registered \cup {id} /\ id \notin Registered
  BY <1>5, <1>6, <1>7 DEF Registered
<1>11. DistinctIndices'
  <2> SUFFICES ASSUME NEW t \in Services, NEW i \in Live(t)', NEW j \in Live(t)',
                      registry'[i].idx = registry'[j].idx
               PROVE  i = j
    BY DEF DistinctIndices
  <2>1. id \notin Live(t) BY <1>6 DEF Live
  <2>2. CASE t # cur
    <3>1. i \in Live(t) /\ j \in Live(t) BY <1>9, <2>2
    <3>2. registry'[i] = registry[i] /\ registry'[j] = registry[j]
      BY <1>7, <2>1, <3>1 DEF Live
    <3> QED BY <3>1, <3>2 DEF MemInv, DistinctIndices
  <2>3. CASE t = cur
    <3>1. i \in Live(cur) \cup {id} /\ j \in Live(cur) \cup {id}
      BY <1>1, <1>9, <2>3
    <3>2. \A k \in Live(cur) : registry'[k] = registry[k] /\ registry'[k].idx < idx
                              /\ registry'[k].idx \in Nat
      BY <1>2, <1>7, <2>1, <2>3 DEF Live
    <3>3. registry'[id].idx = idx BY <1>7, <1>8
    <3>4. CASE i \in Live(cur) /\ j \in Live(cur)
      BY <1>1, <3>2, <3>4 DEF MemInv, DistinctIndices
    <3>5. CASE i = id \/ j = id
      BY <1>1, <3>1, <3>2, <3>3, <3>5
    <3> QED BY <3>1, <3>4, <3>5
  <2> QED BY <2>2, <2>3
<1>12. stray' \subseteq Services
  <2>1. \A p \in At(cur, idx) : p[1] \in Services BY DEF At, MemInv
  <2>2. Names(At(cur, idx)) \subseteq Services BY <2>1 DEF Names
  <2> QED BY <1>4, <2>2 DEF MemInv
<1>13. procs' \subseteq Owned' \cup loose'
  <2> SUFFICES ASSUME NEW p \in procs', p \notin loose'
               PROVE  p \in Owned'
    OBVIOUS
  <2>1. CASE p = <<cur, idx, snap[cur].dep>>
    BY <1>7, <1>8, <1>10, <2>1 DEF Owned
  <2>2. CASE p # <<cur, idx, snap[cur].dep>>
    <3>1. p \in procs /\ p \notin loose BY <1>4, <2>2
    <3>2. PICK k \in Registered :
            p = <<registry[k].svc, registry[k].idx, registry[k].dep>>
      BY <3>1 DEF MemInv, ReplicaConsistent, Owned
    <3>3. k \in Registered' /\ registry'[k] = registry[k] BY <1>7, <1>10, <3>2 DEF Registered
    <3> QED BY <3>2, <3>3 DEF Owned
  <2> QED BY <2>1, <2>2
<1>14. \A k \in Ids \ (torn' \cup {lag'}) :
         /\ pool'[k] = "absent" <=> registry'[k] = NoReplica
         /\ pool'[k] = "healthy" <=> registry'[k].st = "Healthy"
  <2>1. \A k \in Ids \ (torn' \cup {lag'}) : k # id /\ k \in Ids \ (torn \cup {lag})
    BY <1>3
  <2> QED BY <1>3, <1>7, <2>1 DEF MemInv, ReplicaConsistent
<1>15. /\ procs' \subseteq Services \X Nat \X Deployments
       /\ loose' \subseteq Services \X Nat \X Deployments
  BY <1>1, <1>4 DEF MemInv
<1>16. /\ registry' \in [Ids -> Replicas \cup {NoReplica}]
       /\ lag' \in Ids /\ torn' \subseteq Ids /\ pool' = pool
  BY <1>3, <1>5, <1>6 DEF MemInv
<1>17. committed' \in Amounts /\ NeverOvercommit'
  BY <1>4 DEF MemInv, NeverOvercommit
<1>18. Wired' BY <1>3, <1>7, <1>8 DEF Wired
<1>19. ReplicaConsistent' BY <1>13, <1>14 DEF ReplicaConsistent
<1>20. MemInv'
  BY <1>11, <1>12, <1>15, <1>16, <1>17, <1>18, <1>19 DEF MemInv
<1>21. CtlInv' BY <1>1, <1>3, <1>4, <1>6 DEF CtlInv, Ops, Pcs, Jobs
<1>22. LinkInv' BY <1>1, <1>3, <1>4, <1>7, <1>8, <1>9 DEF LinkInv
<1> QED BY <1>20, <1>21, <1>22

(* The sizes a tick and a top-up drive a service to are naturals. *)
LEMMA SizeTypes ==
  ASSUME NEW p, ValidPolicy(p), NEW n \in Nat, NEW cpu \in CpuSamples, NEW mem \in MemSamples,
         NEW want \in Nat
  PROVE  /\ p.min \in Nat
         /\ clamp_loop(desired_up(n, cpu, p.targetCpu, mem, p.targetMem),
                       p.min, p.max) \in Nat
         /\ clamp_loop(desired_down(n, cpu, p.targetCpu), p.min, p.max) \in Nat
         /\ MaxOf(n, MinOf(MaxOf(want, p.min), p.max)) \in Nat
<1>1. /\ p.min \in Nat /\ p.max \in Nat /\ p.max >= 1
      /\ p.targetCpu \in Nat /\ p.targetMem \in Nat
  BY DEF ValidPolicy
<1>2. n * cpu \in Nat /\ n * mem \in Nat OBVIOUS
<1>3. \A a, b \in Nat : ceil_div(a, b) \in Int
  BY DEF ceil_div, MaxOf
<1>4. ceil_div(n * cpu, p.targetCpu) \in Int /\ ceil_div(n * mem, p.targetMem) \in Int
  BY <1>1, <1>2, <1>3
<1>5. desired_up(n, cpu, p.targetCpu, mem, p.targetMem) \in Int
      /\ desired_down(n, cpu, p.targetCpu) \in Int
  BY <1>4 DEF desired_up, desired_down, MaxOf
<1>6. \A d \in Int : clamp_loop(d, p.min, p.max) \in Nat
  BY <1>1 DEF clamp_loop, MaxOf, MinOf
<1>7. MaxOf(n, MinOf(MaxOf(want, p.min), p.max)) \in Nat
  BY <1>1 DEF MaxOf, MinOf
<1> QED BY <1>1, <1>5, <1>6, <1>7

LEMMA MemSame ==
  ASSUME MemInv, UNCHANGED memVars
  PROVE  MemInv'
BY FleetSame DEF MemInv, memVars, leftVars, NeverOvercommit

LEMMA LoopInv ==
  ASSUME CtlInv, MemInv, op # "free", NEW s \in todo, NEW n \in Nat,
         NEW j \in {"scale", "empty"}, Loop(s, n, j)
  PROVE  CtlInv' /\ MemInv' /\ LinkInv'
<1>1. /\ pc' = "loop" /\ job' = j /\ cur' = s /\ target' = n
      /\ UNCHANGED <<op, snap, todo, desired, memVars, idx, vic>>
  BY DEF Loop, Continue
<1>2. CtlInv' BY <1>1 DEF CtlInv, Ops, Pcs, Jobs
<1>3. MemInv' BY <1>1, MemSame
<1>4. LinkInv' BY <1>1 DEF LinkInv
<1> QED BY <1>2, <1>3, <1>4

(* Every decision of an operation, one per step below. *)
LEMMA DecideInv ==
  ASSUME CtlInv, MemInv, lag = NoId, cooling \subseteq Services, Decide
  PROVE  CtlInv' /\ MemInv' /\ LinkInv' /\ cooling' \subseteq Services
<1>1. PICK s \in Services :
        \/ RollSurge(s) \/ RollReplace(s) \/ FromZero(s) \/ MetricsOutage(s)
        \/ IdleToZero(s) \/ TopUp(s) \/ ActivateOne(s) \/ EmptyAll(s)
        \/ \E cpu \in CpuSamples, mem \in MemSamples : Resize(s, cpu, mem)
  BY DEF Decide
<1>2. s \in todo /\ op # "free"
  BY <1>1 DEF RollSurge, RollReplace, FromZero, MetricsOutage, IdleToZero, TopUp,
              ActivateOne, EmptyAll, Resize, Settled, Pick
<1>3. Count(s) \in Nat /\ ValidPolicy(snap[s].pol) BY <1>2, CountType DEF CtlInv
<1>4. CASE RollSurge(s)
  <2>1. PICK i \in next_replica_index(s) : LaunchBegin(s, i, "surge")
    BY <1>4 DEF RollSurge
  <2>2. i \in Nat /\ \A id \in Live(s) : registry[id].idx < i BY NextIndex
  <2>3. cooling' = cooling BY <1>4 DEF RollSurge
  <2> QED BY <1>2, <2>1, <2>2, <2>3, LaunchBeginInv DEF Jobs
<1>5. CASE RollReplace(s)
  <2>1. PICK id \in Lowest(Old(s)) : DrainBegin(s, id, "replace")
    BY <1>5 DEF RollReplace
  <2>2. id \in Live(s) BY DEF Lowest, Old
  <2>3. idx' \in next_replica_index(s) /\ cooling' = cooling
    BY <1>5 DEF RollReplace
  <2>4. idx' \in Nat /\ \A k \in Live(s) : registry[k].idx < idx'
    BY <2>3, NextIndex
  <2> QED BY <1>2, <2>1, <2>2, <2>3, <2>4, DrainBeginInv DEF Jobs
<1>6. CASE FromZero(s)
  <2>1. snap[s].pol.min \in Nat /\ cooling' = cooling
    BY <1>3, <1>6 DEF FromZero, ValidPolicy
  <2>2. CASE Loop(s, snap[s].pol.min, "scale") BY <1>2, <2>1, <2>2, LoopInv
  <2>3. CASE Done(s, 0) /\ UNCHANGED memVars BY <2>1, <2>3, DoneCtl, MemSame
  <2> QED BY <1>6, <2>2, <2>3 DEF FromZero
<1>7. CASE MetricsOutage(s)
  BY <1>3, <1>7, DoneCtl, MemSame DEF MetricsOutage
<1>8. CASE IdleToZero(s)
  BY <1>2, <1>8, LoopInv DEF IdleToZero
<1>9. CASE TopUp(s)
  <2> DEFINE p == snap[s].pol
             want == IF desired[s] = -1 THEN p.min ELSE desired[s]
  <2>1. want \in Nat
    BY <1>3 DEF CtlInv, ValidPolicy
  <2>2. MaxOf(Count(s), MinOf(MaxOf(want, p.min), p.max)) \in Nat
    BY <1>3, <2>1 DEF MaxOf, MinOf, ValidPolicy
  <2> QED BY <1>2, <1>9, <2>2, LoopInv DEF TopUp
<1>10. CASE ActivateOne(s)
  <2>1. CASE Done(s, 0) /\ UNCHANGED memVars
    BY <1>10, <2>1, DoneCtl, MemSame DEF ActivateOne
  <2>2. CASE Live(s) = {} /\ LaunchBegin(s, 0, "wake")
    BY <1>2, <1>10, <2>2, LaunchBeginInv DEF ActivateOne, Jobs
  <2> QED BY <1>10, <2>1, <2>2 DEF ActivateOne
<1>11. CASE EmptyAll(s)
  BY <1>2, <1>11, LoopInv DEF EmptyAll
<1>12. ASSUME NEW cpu \in CpuSamples, NEW mem \in MemSamples, Resize(s, cpu, mem)
       PROVE  CtlInv' /\ MemInv' /\ LinkInv' /\ cooling' \subseteq Services
  <2> DEFINE p == snap[s].pol
             n == Count(s)
             up == clamp_loop(desired_up(n, cpu, p.targetCpu, mem, p.targetMem),
                              p.min, p.max)
             down == clamp_loop(desired_down(n, cpu, p.targetCpu), p.min, p.max)
  <2>1. up \in Nat /\ down \in Nat BY <1>3, SizeTypes
  <2>2. Loop(s, up, "scale") \/ Loop(s, down, "scale") \/ Loop(s, n, "scale")
    BY <1>12 DEF Resize
  <2>3. cooling' \subseteq Services BY <1>12 DEF Resize
  <2> HIDE DEF up, down
  <2> QED BY <1>2, <1>3, <2>1, <2>2, <2>3, LoopInv
<1> QED BY <1>1, <1>4, <1>5, <1>6, <1>7, <1>8, <1>9, <1>10, <1>11, <1>12

(* Every step of a launch, a drain or their loops. *)
LEMMA StepInv ==
  ASSUME CtlInv, MemInv, LinkInv, lag = NoId, Step
  PROVE  CtlInv' /\ MemInv' /\ LinkInv'
<1>1. pc # "pick"
  BY DEF Step, LoopUp, LoopDown, LoopDone, SurgeDrain, Relaunch, StartOk,
         StartFail, ProbeOk, ProbeFail, DrainEnd
<1>2. /\ op # "free" /\ cur \in todo /\ cur \in Services
      /\ snap[cur].lim \in Amounts
  BY <1>1 DEF CtlInv, Snaps
<1>3. Count(cur) \in Nat BY <1>2, CountType
<1>4. CASE LoopUp
  <2>1. PICK i \in next_replica_index(cur) : LaunchBegin(cur, i, "scale")
    BY <1>4 DEF LoopUp
  <2>2. i \in Nat /\ \A id \in Live(cur) : registry[id].idx < i
    BY <1>2, NextIndex
  <2> QED BY <1>2, <2>1, <2>2, LaunchBeginInv DEF Jobs
<1>5. CASE LoopDown
  <2>1. PICK id \in Live(cur) : DrainBegin(cur, id, job)
    BY <1>5 DEF LoopDown, Lowest, Highest
  <2>2. job \in {"scale", "empty"} /\ idx' = idx /\ idx \in Nat
    BY <1>5 DEF LoopDown, CtlInv
  <2> QED BY <1>2, <2>1, <2>2, DrainBeginInv DEF Jobs
<1>6. CASE LoopDone
  <2>1. target \in Nat BY DEF CtlInv
  <2> QED BY <1>2, <1>6, <2>1, DoneCtl, MemSame DEF LoopDone
<1>7. CASE SurgeDrain
  <2>1. PICK id \in Live(cur) : DrainBegin(cur, id, "surge")
    BY <1>7 DEF SurgeDrain, Lowest, Old
  <2>2. idx' = idx /\ idx \in Nat BY <1>7 DEF SurgeDrain, CtlInv
  <2> QED BY <1>2, <2>1, <2>2, DrainBeginInv DEF Jobs
<1>8. CASE Relaunch
  <2>1. LaunchBegin(cur, idx, "replace") /\ pc = "drained" BY <1>8 DEF Relaunch
  <2>2. idx \in Nat /\ \A id \in Live(cur) : registry[id].idx < idx
    BY <2>1 DEF CtlInv, LinkInv
  <2> QED BY <1>2, <2>1, <2>2, LaunchBeginInv DEF Jobs
<1>9. CASE StartOk BY <1>9, StartOkInv
<1>10. CASE StartFail
  <2>1. committed' \in Amounts /\ NeverOvercommit'
    BY <1>2, <1>10, LedgerSteps DEF StartFail, MemInv
  <2>2. MemInv'
    BY <1>10, <2>1, FleetSame DEF StartFail, leftVars
  <2> QED BY <1>2, <1>3, <1>10, <2>2, DoneCtl DEF StartFail
<1>11. CASE ProbeOk
  <2>1. vic \in Live(cur) BY <1>11 DEF ProbeOk, LinkInv
  <2>2. MemInv'
    <3>1. /\ registry' = [registry EXCEPT ![vic] = [registry[vic] EXCEPT !.st = "Healthy"]]
          /\ Tell(vic)
          /\ UNCHANGED <<committed, procs, stray, loose, torn>>
      BY <1>11 DEF ProbeOk, leftVars
    <3> QED BY <1>2, <2>1, <3>1, MarkMem
  <2>3. CASE job = "scale"
    <3>1. Continue(cur, "loop", job) /\ UNCHANGED <<target, idx, vic>>
      BY <1>11, <2>3 DEF ProbeOk
    <3> QED BY <1>2, <2>2, <2>3, <3>1 DEF Continue, CtlInv, LinkInv, Ops, Pcs, Jobs
  <2>4. CASE job = "surge"
    <3>1. Continue(cur, "rolled", job) /\ UNCHANGED <<target, idx, vic>>
      BY <1>11, <2>4 DEF ProbeOk
    <3> QED BY <1>2, <2>2, <2>4, <3>1 DEF Continue, CtlInv, LinkInv, Ops, Pcs, Jobs
  <2>5. CASE job \notin {"scale", "surge"}
    <3>1. Done(cur, Count(cur)) BY <1>11, <2>5 DEF ProbeOk
    <3> QED BY <1>2, <1>3, <2>2, <3>1, DoneCtl
  <2> QED BY <2>3, <2>4, <2>5
<1>12. CASE ProbeFail
  <2>1. vic \in Live(cur) /\ registry[vic].idx = idx
    BY <1>12 DEF ProbeFail, LinkInv
  <2>2. MemInv' BY <1>2, <1>12, <2>1, RemoveInv DEF ProbeFail
  <2>3. Count(cur) - 1 \in Nat \cup {-1} BY <1>3
  <2> QED BY <1>2, <1>12, <2>2, <2>3, DoneCtl DEF ProbeFail
<1>13. CASE DrainEnd
  <2>1. vic \in Live(cur) BY <1>13 DEF DrainEnd, LinkInv
  <2>2. /\ MemInv'
        /\ \A k \in Ids : registry'[k] # NoReplica => registry'[k] = registry[k]
    BY <1>2, <1>13, <2>1, RemoveInv DEF DrainEnd
  <2>3. CASE job \in {"scale", "empty"}
    <3>1. Continue(cur, "loop", job) /\ UNCHANGED <<target, idx, vic>>
      BY <1>13, <2>3 DEF DrainEnd
    <3> QED BY <1>2, <2>2, <2>3, <3>1 DEF Continue, CtlInv, LinkInv, Ops, Pcs, Jobs
  <2>4. CASE job = "replace"
    <3>1. Continue(cur, "drained", job) /\ UNCHANGED <<target, idx, vic>>
      BY <1>13, <2>4 DEF DrainEnd
    <3>2. CtlInv' BY <1>2, <2>4, <3>1 DEF Continue, CtlInv, Ops, Pcs, Jobs
    <3>3. \A id \in Live(cur) : registry[id].idx < idx
      BY <1>13, <2>4 DEF DrainEnd, LinkInv
    <3>4. cur' = cur /\ idx' = idx /\ pc' = "drained" BY <3>1 DEF Continue
    <3>5. LinkInv' BY <2>2, <3>3, <3>4 DEF LinkInv, Live
    <3> QED BY <2>2, <3>2, <3>5
  <2>5. CASE job \notin {"scale", "empty", "replace"}
    <3>1. Done(cur, Count(cur) - 1) BY <1>13, <2>5 DEF DrainEnd
    <3>2. Count(cur) - 1 \in Nat \cup {-1} BY <1>3
    <3> QED BY <1>2, <2>2, <3>1, <3>2, DoneCtl
  <2> QED BY <2>3, <2>4, <2>5
<1> QED BY <1>4, <1>5, <1>6, <1>7, <1>8, <1>9, <1>10, <1>11, <1>12, <1>13 DEF Step

(* Resolving a managed service yields its promoted deployment. *)
LEMMA ResolveType ==
  ASSUME EnvInv
  PROVE  /\ \A s \in Services : Resolve(s) \in Snaps
         /\ \A s \in Managed : Resolve(s).dep \in Deployments /\ Resolve(s).pol \in Policies[s]
         /\ NoService \in Snaps
<1>1. NoService \in Snaps
  BY DEF NoService, Amounts, Snaps
<1>2. \A s \in Services : Resolve(s) \in Snaps
  BY <1>1 DEF Resolve, EnvInv, Snaps
<1>3. \A s \in Managed : Resolve(s).dep \in Deployments /\ Resolve(s).pol \in Policies[s]
  BY DEF Resolve, Managed, EnvInv
<1> QED BY <1>1, <1>2, <1>3

(* Taking the lock for managed services only. *)
LEMMA BeginInv ==
  ASSUME IndInv, NEW o \in Ops \ {"free"}, NEW S \in SUBSET Managed, Begin(o, S),
         handoff' \subseteq Services, stopping' \subseteq Services,
         cooling' \subseteq Services
  PROVE  IndInv'
<1>1. S \subseteq Services BY DEF Managed
<1>2. /\ op = "free" /\ op' = o /\ todo' = S
      /\ snap' = [s \in Services |-> IF s \in S THEN Resolve(s) ELSE NoService]
      /\ UNCHANGED <<dbVars, desired, memVars, pc, job, cur, target, idx, vic, crashes>>
  BY DEF Begin
<1>3. snap' \in [Services -> Snaps]
      /\ \A s \in todo' : snap'[s].dep \in Deployments /\ snap'[s].pol \in Policies[s]
  BY <1>1, <1>2, ResolveType DEF IndInv
<1>4. pc = "pick" BY <1>2 DEF IndInv, CtlInv
<1>5. CtlInv' BY <1>1, <1>2, <1>3, <1>4 DEF IndInv, CtlInv, Ops, Pcs, Jobs
<1>6. LinkInv' BY <1>2, <1>4 DEF LinkInv
<1>7. MemInv' BY <1>2, MemSame DEF IndInv
<1>8. EnvInv' BY <1>2 DEF IndInv, EnvInv, dbVars
<1> QED BY <1>5, <1>6, <1>7, <1>8 DEF IndInv

(* Steps that touch neither the lock holder nor the fleet. *)
LEMMA Outside ==
  ASSUME IndInv, EnvInv', UNCHANGED <<desired, memVars, ctlVars>>
  PROVE  IndInv'
<1>1. MemInv' BY MemSame DEF IndInv
<1>2. CtlInv' /\ LinkInv'
  BY DEF IndInv, CtlInv, LinkInv, ctlVars, memVars, Live
<1> QED BY <1>1, <1>2 DEF IndInv

LEMMA EnvStep ==
  ASSUME IndInv, Env
  PROVE  IndInv'
<1>1. PICK s \in Services :
        \/ \E d \in Deployments : Promote(s, d)
        \/ \E lim \in Limits[s], pol \in Policies[s] : PutService(s, lim, pol)
        \/ StopRoutesOnly(s)
        \/ Activate(s) \/ ReconcileService(s) \/ DrainAll(s)
  BY DEF Env
<1>2. ASSUME NEW d \in Deployments, Promote(s, d) PROVE IndInv'
  <2>1. EnvInv' BY <1>2 DEF Promote, IndInv, EnvInv
  <2> QED BY <1>2, <2>1, Outside DEF Promote
<1>3. ASSUME NEW lim \in Limits[s], NEW pol \in Policies[s], PutService(s, lim, pol)
      PROVE  IndInv'
  <2>1. lim \in Amounts OBVIOUS
  <2>2. EnvInv' BY <1>3, <2>1 DEF PutService, IndInv, EnvInv, apiVars
  <2> QED BY <1>3, <2>2, Outside DEF PutService
<1>4. CASE StopRoutesOnly(s)
  <2>1. EnvInv' BY <1>4 DEF StopRoutesOnly, IndInv, EnvInv
  <2> QED BY <1>4, <2>1, Outside DEF StopRoutesOnly
<1>5. CASE Activate(s)
  <2>1. {s} \in SUBSET Managed /\ Begin("activate", {s}) /\ UNCHANGED <<apiVars, cooling>>
    BY <1>5 DEF Activate
  <2> QED BY <2>1, BeginInv DEF apiVars, IndInv, EnvInv, Ops
<1>6. CASE ReconcileService(s)
  <2>1. Begin("reconcile", {s} \cap Managed) /\ handoff' = handoff \ {s}
        /\ UNCHANGED <<stopping, cooling>>
    BY <1>6 DEF ReconcileService
  <2>2. {s} \cap Managed \in SUBSET Managed OBVIOUS
  <2> QED BY <2>1, <2>2, BeginInv DEF IndInv, EnvInv, Ops
<1>7. CASE DrainAll(s)
  <2>1. Begin("drain_all", {s} \cap Managed) /\ stopping' = stopping \cup {s}
        /\ UNCHANGED <<handoff, cooling>>
    BY <1>7 DEF DrainAll
  <2>2. {s} \cap Managed \in SUBSET Managed OBVIOUS
  <2> QED BY <2>1, <2>2, BeginInv DEF IndInv, EnvInv, Ops
<1> QED BY <1>1, <1>2, <1>3, <1>4, <1>5, <1>6, <1>7

(* The state after a restart is as good as the initial one. *)
LEMMA EmptyMem ==
  ASSUME registry = [id \in Ids |-> NoReplica],
         committed = [r \in Resources |-> 0],
         pool = [id \in Ids |-> "absent"], procs = {},
         lag = NoId, stray = {}, loose = {}, torn = {}
  PROVE  MemInv
<1>1. \A s \in Services : Live(s) = {} BY DEF Live
<1>2. NeverOvercommit BY DEF NeverOvercommit, Amounts
<1>3. DistinctIndices BY <1>1 DEF DistinctIndices
<1>4. ReplicaConsistent BY DEF ReplicaConsistent, NoReplica
<1>5. Wired BY DEF Wired
<1> QED BY <1>2, <1>3, <1>4, <1>5 DEF MemInv, Amounts

LEMMA RebootInv ==
  ASSUME IndInv, Reboot
  PROVE  IndInv'
<1>1. MemInv' 
  <2>1. /\ registry' = [id \in Ids |-> NoReplica]
        /\ committed' = [r \in Resources |-> 0]
        /\ pool' = [id \in Ids |-> "absent"] /\ procs' = {}
        /\ lag' = NoId /\ stray' = {} /\ loose' = {} /\ torn' = {}
    BY DEF Reboot
  <2>2. \A s \in Services : Live(s)' = {}
    BY <2>1 DEF Live
  <2>3. NeverOvercommit' BY <2>1 DEF NeverOvercommit, Amounts
  <2>4. DistinctIndices' BY <2>2 DEF DistinctIndices
  <2>5. ReplicaConsistent' BY <2>1 DEF ReplicaConsistent, NoReplica
  <2>6. Wired' BY <2>1 DEF Wired
  <2> QED BY <2>1, <2>3, <2>4, <2>5, <2>6 DEF MemInv, Amounts
<1>2. EnvInv' BY DEF Reboot, IndInv, EnvInv, dbVars
<1>3. snap' \in [Services -> Snaps]
      /\ \A s \in todo' : snap'[s].dep \in Deployments /\ snap'[s].pol \in Policies[s]
  BY ResolveType DEF IndInv, Reboot, Managed
<1>4. todo' \subseteq Services BY DEF Reboot, Managed
<1>5. CtlInv' BY <1>3, <1>4 DEF Reboot, IndInv, CtlInv, Ops, Pcs, Jobs
<1>6. LinkInv' BY DEF Reboot, LinkInv
<1> QED BY <1>1, <1>2, <1>5, <1>6 DEF IndInv

(* An activation dropped at an await leaves registry, ledger and pool as   *)
(* they are; what it leaves of the workload is untracked or loose, and a   *)
(* replica the ingress was not told of is torn.                            *)
LEMMA CutProcs ==
  ASSUME IndInv, ActivationDropped
  PROVE  /\ procs' \subseteq Services \X Nat \X Deployments
         /\ loose' \subseteq Services \X Nat \X Deployments
         /\ stray' \subseteq Services
         /\ \A p \in procs' : p \in loose' \/ (p \in procs /\ p \notin loose)
<1>0. MemInv BY DEF IndInv
<1>1. CASE UNCHANGED <<procs, loose, stray>>
  BY <1>0, <1>1 DEF MemInv
<1>2. CASE pc = "starting"
  <2> DEFINE p == <<cur, idx, snap[cur].dep>>
             A == At(p[1], p[2])
  <2>1. p \in Services \X Nat \X Deployments /\ p[1] \in Services
    BY <1>2 DEF IndInv, CtlInv
  <2>2. StartCut(p) BY <1>2 DEF ActivationDropped
  <2> HIDE DEF p
  <2>3. CASE stray' = stray \cup {p[1]} /\ UNCHANGED <<procs, loose>>
    BY <1>0, <2>1, <2>3 DEF MemInv
  <2>4. CASE /\ procs' = (procs \ A) \cup {p} /\ loose' = (loose \ A) \cup {p}
             /\ stray' = stray \cup {p[1]}
    BY <1>0, <2>1, <2>4 DEF MemInv
  <2> QED BY <1>1, <2>2, <2>3, <2>4 DEF StartCut
<1>3. CASE pc # "starting" /\ StopCut(cur, idx)
  <2>1. CASE Untrack(cur, idx)
    <3>1. \A p \in At(cur, idx) : p[1] \in Services BY <1>0 DEF At, MemInv
    <3>2. Names(At(cur, idx)) \subseteq Services BY <3>1 DEF Names
    <3> QED BY <1>0, <2>1, <3>2 DEF Untrack, MemInv
  <2> QED BY <1>1, <1>3, <2>1 DEF StopCut
<1> QED BY <1>1, <1>2, <1>3 DEF ActivationDropped

LEMMA DroppedInv ==
  ASSUME IndInv, ActivationDropped
  PROVE  IndInv'
<1>0. MemInv BY DEF IndInv
<1>1. /\ lag' = NoId /\ torn' = torn \cup ({lag} \ {NoId})
      /\ UNCHANGED <<registry, committed, pool>>
  BY DEF ActivationDropped
<1>2. torn' \subseteq Ids BY <1>0, <1>1 DEF MemInv
<1>3. procs' \subseteq Owned' \cup loose'
  BY <1>0, <1>1, CutProcs DEF MemInv, ReplicaConsistent, Owned, Registered
<1>4. \A k \in Ids \ (torn' \cup {lag'}) :
        /\ pool'[k] = "absent" <=> registry'[k] = NoReplica
        /\ pool'[k] = "healthy" <=> registry'[k].st = "Healthy"
  <2>1. \A k \in Ids \ (torn' \cup {lag'}) : k \in Ids \ (torn \cup {lag}) BY <1>1
  <2> QED BY <1>0, <1>1, <2>1 DEF MemInv, ReplicaConsistent
<1>5. ReplicaConsistent' BY <1>3, <1>4 DEF ReplicaConsistent
<1>6. DistinctIndices' /\ NeverOvercommit' /\ Wired'
  BY <1>0, <1>1 DEF MemInv, DistinctIndices, NeverOvercommit, Live, Wired
<1>7. MemInv' BY <1>0, <1>1, <1>2, <1>5, <1>6, CutProcs DEF MemInv
<1>8. EnvInv' BY DEF ActivationDropped, IndInv, EnvInv, dbVars, apiVars
<1>9. snap' \in [Services -> Snaps]
  BY ResolveType DEF ActivationDropped, IndInv
<1>10. CtlInv' BY <1>9 DEF ActivationDropped, IndInv, CtlInv, Ops, Pcs, Jobs
<1>11. LinkInv' BY DEF ActivationDropped, LinkInv
<1> QED BY <1>7, <1>8, <1>10, <1>11 DEF IndInv

(* A workload that exits leaves everything but the processes alone. *)
LEMMA ExitInv ==
  ASSUME IndInv, WorkloadExits
  PROVE  IndInv'
<1>1. procs' \subseteq procs /\ loose' \subseteq loose /\ (procs' \cap loose) \subseteq loose'
  BY DEF WorkloadExits
<1>2. UNCHANGED <<dbVars, desired, apiVars, registry, committed, pool, lag, stray, torn,
                  cooling, ctlVars, crashes>>
  BY DEF WorkloadExits
<1>3. MemInv'
  <2>1. ReplicaConsistent'
    BY <1>1, <1>2 DEF IndInv, MemInv, ReplicaConsistent, Owned, Registered
  <2> QED BY <1>1, <1>2, <2>1 DEF IndInv, MemInv, NeverOvercommit, DistinctIndices, Live, Wired
<1>4. CtlInv' /\ LinkInv'
  BY <1>2 DEF IndInv, CtlInv, LinkInv, ctlVars, Live
<1>5. EnvInv' BY <1>2 DEF IndInv, EnvInv, dbVars, apiVars
<1> QED BY <1>3, <1>4, <1>5 DEF IndInv

LEMMA InitIndInv == Init => IndInv
<1> SUFFICES ASSUME Init PROVE IndInv OBVIOUS
<1>1. MemInv BY EmptyMem DEF Init
<1>2. limits \in [Services -> Amounts] BY DEF Init
<1>3. EnvInv BY <1>2 DEF Init, EnvInv
<1>4. CtlInv BY DEF Init, CtlInv, Ops, Pcs, Jobs, NoService, Amounts, Snaps
<1>5. LinkInv BY DEF Init, LinkInv
<1> QED BY <1>1, <1>3, <1>4, <1>5 DEF IndInv

LEMMA NextIndInv ==
  IndInv /\ [Next \/ ActivationDropped \/ WorkloadExits]_vars => IndInv'
<1> SUFFICES ASSUME IndInv, [Next \/ ActivationDropped \/ WorkloadExits]_vars PROVE IndInv'
  OBVIOUS
<1>1. CASE Env BY <1>1, EnvStep
<1>2. CASE TickAll
  <2>1. Managed \in SUBSET Managed /\ Begin("tick", Managed) /\ UNCHANGED apiVars
        /\ cooling' = cooling \cap Managed
    BY <1>2 DEF TickAll
  <2> QED BY <2>1, BeginInv DEF apiVars, IndInv, EnvInv, Ops
<1>3. CASE Work
  <2>1. UNCHANGED <<dbVars, apiVars, crashes>> BY <1>3 DEF Work
  <2>2. CASE lag = NoId /\ Decide
    <3>1. CtlInv' /\ MemInv' /\ LinkInv' /\ cooling' \subseteq Services
      BY <2>2, DecideInv DEF IndInv, EnvInv
    <3> QED BY <2>1, <3>1 DEF IndInv, EnvInv, dbVars, apiVars
  <2>3. CASE lag = NoId /\ Step /\ UNCHANGED cooling
    <3>1. CtlInv' /\ MemInv' /\ LinkInv' BY <2>3, StepInv DEF IndInv
    <3> QED BY <2>1, <2>3, <3>1 DEF IndInv, EnvInv, dbVars, apiVars
  <2>4. CASE IngressTold
    <3>1. MemInv' BY <2>4, ToldMem DEF IndInv
    <3>2. UNCHANGED <<registry, desired, cooling, ctlVars>> BY <2>4 DEF IngressTold
    <3>3. CtlInv' /\ LinkInv' BY <3>2 DEF IndInv, CtlInv, LinkInv, ctlVars, Live
    <3> QED BY <2>1, <3>1, <3>2, <3>3 DEF IndInv, EnvInv, dbVars, apiVars
  <2> QED BY <1>3, <2>2, <2>3, <2>4 DEF Work
<1>4. CASE Finish
  <2>1. MemInv' BY <1>4, MemSame DEF Finish, IndInv
  <2>2. EnvInv' BY <1>4 DEF Finish, IndInv, EnvInv, dbVars, apiVars
  <2>3. CtlInv' /\ LinkInv'
    BY <1>4 DEF Finish, IndInv, CtlInv, LinkInv, Ops, Pcs, Jobs
  <2> QED BY <2>1, <2>2, <2>3 DEF IndInv
<1>5. CASE Reboot BY <1>5, RebootInv
<1>6. CASE ActivationDropped BY <1>6, DroppedInv
<1>7. CASE WorkloadExits BY <1>7, ExitInv
<1>8. CASE UNCHANGED vars
  <2>1. EnvInv' BY <1>8 DEF vars, dbVars, apiVars, IndInv, EnvInv
  <2> QED BY <1>8, <2>1, Outside DEF vars
<1> QED BY <1>1, <1>2, <1>3, <1>4, <1>5, <1>6, <1>7, <1>8 DEF Next

-----------------------------------------------------------------------------
(* The invariant on which the theorems rest. *)
LEMMA Inductive == SpecDropped => []IndInv
BY InitIndInv, NextIndInv, PTL DEF SpecDropped

(* Type correctness of the whole controller, dropped activations included. *)
THEOREM TypeCorrect == SpecDropped => []TypeOK
BY Inductive, IndImplies, PTL

(* Never overcommit (ledger.rs): whatever limits services ask for, however *)
(* launches, drains, limit edits, crashes and dropped activations          *)
(* interleave, no more is committed than is allocatable.                   *)
THEOREM LedgerNeverOvercommits == SpecDropped => []NeverOvercommit
BY Inductive, IndImplies, PTL

(* No two replicas of a service ever share a runtime key                   *)
(* (next_replica_index and the index computed before a replacing drain).   *)
THEOREM IndicesDistinct == SpecDropped => []DistinctIndices
BY Inductive, IndImplies, PTL

(* Registry, tracked processes and ingress endpoints agree at every await  *)
(* of every operation (launch_replica and drain_replica), up to processes  *)
(* whose stop failed or whose start was dropped and endpoints the ingress  *)
(* has not been told of.                                                   *)
THEOREM RegistryRuntimeIngressAgree == SpecDropped => []ReplicaConsistent
BY Inductive, IndImplies, PTL

-----------------------------------------------------------------------------
(* The replica that the lock holder is probing or draining: the only one   *)
(* that is registered and not Healthy.                                     *)
Busied == IF pc \in {"probing", "draining"} THEN {vic} ELSE {}
(* The inductive invariant behind TickKeepsServing: between its awaits a   *)
(* tick sees only Healthy replicas, a rolled replica runs the promoted     *)
(* deployment, and a tick drives a service to zero only when it may idle.  *)
KeepInv ==
  /\ \A id \in Ids : registry[id] # NoReplica =>
       (registry[id].st = "Healthy" <=> id \notin Busied)
  /\ pc \in {"probing", "rolled"} => vic \in Live(cur) /\ registry[vic].dep = snap[cur].dep
  /\ op = "tick" /\ pc # "pick" /\ job = "scale" => target >= 1
  /\ op = "tick" /\ pc # "pick" /\ job = "empty" => snap[cur].pol.min = 0

(* The step of TickKeepsServing. *)
Serving ==
  \A s \in Services :
    op = "tick" /\ op' # "boot" /\ Healthy(s) # {} /\ Healthy(s)' = {} =>
      snap[s].pol.min = 0 /\ job' = "empty"

(* A step that leaves the registry alone takes nothing away. *)
LEMMA SameServing ==
  ASSUME UNCHANGED registry
  PROVE  Serving
BY DEF Serving, Healthy, Live

(* The building blocks preserve KeepInv: the end of a turn ... *)
LEMMA DoneKeep ==
  ASSUME KeepInv, Busied = {}, NEW s \in Services, NEW n, Done(s, n), UNCHANGED registry
  PROVE  KeepInv' /\ Serving
BY SameServing DEF Done, KeepInv, Busied

(* ... the start of a launch ... *)
LEMMA LaunchKeep ==
  ASSUME KeepInv, Busied = {}, NEW s \in Services, NEW i, NEW j \in Jobs \ {"empty"},
         LaunchBegin(s, i, j), op = "tick" /\ j = "scale" => target >= 1
  PROVE  KeepInv' /\ Serving
<1>1. UNCHANGED registry BY DEF LaunchBegin
<1>2. CASE CanReserve(snap[s].lim)
  <2>1. pc' = "starting" /\ job' = j /\ UNCHANGED <<op, target>>
    BY <1>2 DEF LaunchBegin, Continue
  <2> QED BY <1>1, <2>1, SameServing DEF KeepInv, Busied
<1>3. CASE ~CanReserve(snap[s].lim)
  BY <1>1, <1>3, DoneKeep DEF LaunchBegin
<1> QED BY <1>2, <1>3

(* ... the choice of a size, which a tick keeps above zero unless the      *)
(* service may idle ...                                                    *)
LEMMA LoopKeep ==
  ASSUME KeepInv, Busied = {}, NEW s \in Services, NEW n \in Nat, NEW j \in {"scale", "empty"},
         Loop(s, n, j), op = "tick" /\ j = "scale" => n >= 1,
         op = "tick" /\ j = "empty" => snap[s].pol.min = 0
  PROVE  KeepInv' /\ Serving
<1>1. /\ pc' = "loop" /\ job' = j /\ cur' = s /\ target' = n
      /\ UNCHANGED <<op, registry, snap>>
  BY DEF Loop, Continue, memVars
<1> QED BY <1>1, SameServing DEF KeepInv, Busied

(* ... and the start of a drain, when another replica stays Healthy.       *)
LEMMA DrainKeep ==
  ASSUME MemInv, KeepInv, Busied = {}, NEW s \in Services, NEW id \in Live(s), NEW j \in Jobs,
         DrainBegin(s, id, j),
         op = "tick" /\ j = "scale" => target >= 1,
         op = "tick" /\ j = "empty" => snap[s].pol.min = 0,
         op = "tick" /\ j # "empty" => Live(s) \ {id} # {}
  PROVE  KeepInv' /\ Serving
<1>1. id \in Ids /\ registry[id] \in Replicas /\ registry[id] # NoReplica
      /\ registry[id].svc = s
  BY LiveFacts
<1>2. registry' = [registry EXCEPT ![id] = [registry[id] EXCEPT !.st = "Draining"]]
  BY DEF DrainBegin
<1>3. /\ registry'[id] # NoReplica
      /\ registry'[id].st = "Draining" /\ registry'[id].svc = s
  BY <1>1, <1>2 DEF MemInv, Replicas, NoReplica
<1>4. \A k \in Ids : k # id => registry'[k] = registry[k]
  BY <1>2 DEF MemInv
<1>5. /\ vic' = id /\ pc' = "draining" /\ job' = j /\ cur' = s
      /\ UNCHANGED <<op, target, snap>>
  BY DEF DrainBegin, Continue
<1>6. KeepInv'
  <2>1. \A k \in Ids : registry'[k] # NoReplica =>
          (registry'[k].st = "Healthy" <=> k \notin Busied')
    BY <1>3, <1>4, <1>5 DEF KeepInv, Busied
  <2> QED BY <1>5, <2>1 DEF KeepInv
<1>7. \A t \in Services : Live(t) = Healthy(t)
  BY DEF Healthy, Live, KeepInv
<1>8. \A t \in Services : Healthy(t)' = Live(t) \ {id}
  <2> SUFFICES ASSUME NEW t \in Services PROVE Healthy(t)' = Live(t) \ {id} OBVIOUS
  <2>1. \A k \in Ids : k \in Healthy(t)' <=> k \in Live(t) \ {id}
    BY <1>3, <1>4, <1>7 DEF Healthy, Live
  <2> QED BY <2>1 DEF Healthy, Live
<1>9. Serving
  <2> SUFFICES ASSUME NEW t \in Services, op = "tick", Live(t) # {}, Live(t) \ {id} = {}
               PROVE  snap[t].pol.min = 0 /\ job' = "empty"
    BY <1>7, <1>8 DEF Serving
  <2>1. t = s BY <1>1 DEF Live
  <2> QED BY <1>5, <2>1
<1> QED BY <1>6, <1>9

(* A fleet of more than one replica is not one replica. *)
LEMMA ManyLive ==
  ASSUME NEW s \in Services, NEW id, NEW n \in Nat, n >= 1, Count(s) > n
  PROVE  Live(s) \ {id} # {}
<1>0. Live(s) \in SUBSET Ids BY DEF Live
<1>1. IsFiniteSet(Live(s))
  BY <1>0, FS_Subset
<1>2. Count(s) \in Nat BY <1>1, FS_CardinalityType DEF Count
<1> SUFFICES ASSUME Live(s) \ {id} = {} PROVE FALSE OBVIOUS
<1>3. Live(s) \subseteq {id} OBVIOUS
<1>4. Cardinality(Live(s)) <= Cardinality({id}) /\ Cardinality({id}) = 1
  BY <1>3, FS_Singleton, FS_Subset
<1> QED BY <1>2, <1>4 DEF Count

(* Decisions preserve it; the drain-first roll has a second replica. *)
LEMMA DecideKeep ==
  ASSUME IndInv, KeepInv, Decide
  PROVE  KeepInv' /\ Serving
<1>0. CtlInv /\ MemInv BY DEF IndInv
<1>1. PICK s \in Services :
        \/ RollSurge(s) \/ RollReplace(s) \/ FromZero(s) \/ MetricsOutage(s)
        \/ IdleToZero(s) \/ TopUp(s) \/ ActivateOne(s) \/ EmptyAll(s)
        \/ \E cpu \in CpuSamples, mem \in MemSamples : Resize(s, cpu, mem)
  BY DEF Decide
<1>2. pc = "pick" /\ Busied = {}
  BY <1>1 DEF RollSurge, RollReplace, FromZero, MetricsOutage, IdleToZero, TopUp,
              ActivateOne, EmptyAll, Resize, Settled, Pick, Busied
<1>3. Count(s) \in Nat /\ ValidPolicy(snap[s].pol)
  <2>1. s \in todo
    BY <1>1 DEF RollSurge, RollReplace, FromZero, MetricsOutage, IdleToZero, TopUp,
                ActivateOne, EmptyAll, Resize, Settled, Pick
  <2> QED BY <1>0, <2>1, CountType DEF CtlInv
<1>4. CASE RollSurge(s)
  BY <1>2, <1>4, LaunchKeep DEF RollSurge, Jobs
<1>5. CASE RollReplace(s)
  <2>1. PICK id \in Lowest(Old(s)) : DrainBegin(s, id, "replace")
    BY <1>5 DEF RollReplace
  <2>2. id \in Live(s) BY DEF Lowest, Old
  <2>3. Live(s) \ {id} # {} BY <1>5, ManyLive DEF RollReplace
  <2> QED BY <1>0, <1>2, <2>1, <2>2, <2>3, DrainKeep DEF Jobs
<1>6. CASE FromZero(s)
  <2>1. CASE snap[s].pol.min >= 1 /\ Loop(s, snap[s].pol.min, "scale")
    <3>1. snap[s].pol.min \in Nat BY <1>3 DEF ValidPolicy
    <3> QED BY <1>2, <2>1, <3>1, LoopKeep
  <2>2. CASE Done(s, 0) /\ UNCHANGED memVars
    BY <1>2, <2>2, DoneKeep DEF memVars
  <2> QED BY <1>6, <2>1, <2>2 DEF FromZero
<1>7. CASE MetricsOutage(s)
  BY <1>2, <1>7, DoneKeep DEF MetricsOutage, memVars
<1>8. CASE IdleToZero(s)
  BY <1>2, <1>8, LoopKeep DEF IdleToZero
<1>9. CASE TopUp(s)
  <2> DEFINE p == snap[s].pol
             want == IF desired[s] = -1 THEN p.min ELSE desired[s]
  <2>1. want \in Nat
    BY <1>0, <1>3 DEF CtlInv, ValidPolicy
  <2>2. MaxOf(Count(s), MinOf(MaxOf(want, p.min), p.max)) \in Nat
    BY <1>3, <2>1 DEF MaxOf, MinOf, ValidPolicy
  <2>3. op # "tick" BY <1>9 DEF TopUp, Pick
  <2> QED BY <1>2, <1>9, <2>2, <2>3, LoopKeep DEF TopUp
<1>10. CASE ActivateOne(s)
  BY <1>2, <1>10, DoneKeep, LaunchKeep DEF ActivateOne, Jobs, memVars
<1>11. CASE EmptyAll(s)
  BY <1>2, <1>11, LoopKeep DEF EmptyAll, Pick
<1>12. ASSUME NEW cpu \in CpuSamples, NEW mem \in MemSamples, Resize(s, cpu, mem)
       PROVE  KeepInv' /\ Serving
  <2> DEFINE p == snap[s].pol
             n == Count(s)
             up == clamp_loop(desired_up(n, cpu, p.targetCpu, mem, p.targetMem),
                              p.min, p.max)
             down == clamp_loop(desired_down(n, cpu, p.targetCpu), p.min, p.max)
  <2>1. up \in Nat /\ down \in Nat /\ up >= 1 /\ down >= 1
    <3>1. up \in Nat /\ down \in Nat BY <1>3, SizeTypes
    <3>2. p.min \in Nat /\ p.max \in Nat /\ p.max >= 1 BY <1>3 DEF ValidPolicy
    <3>3. \A d : clamp_loop(d, p.min, p.max) \in Nat => clamp_loop(d, p.min, p.max) >= 1
      BY <3>2 DEF clamp_loop, MaxOf, MinOf
    <3> QED BY <3>1, <3>3
  <2>2. n >= 1
    <3>1. Live(s) # {} BY <1>12 DEF Resize, Settled
    <3>2. Live(s) \in SUBSET Ids BY DEF Live
    <3>3. IsFiniteSet(Live(s)) BY <3>2, FS_Subset
    <3>4. Cardinality(Live(s)) # 0 BY <3>1, <3>3, FS_EmptySet
    <3> QED BY <1>3, <3>4 DEF Count
  <2>3. Loop(s, up, "scale") \/ Loop(s, down, "scale") \/ Loop(s, n, "scale")
    BY <1>12 DEF Resize
  <2> HIDE DEF up, down, n
  <2>4. n \in Nat BY <1>3 DEF n
  <2> QED BY <1>2, <2>1, <2>2, <2>3, <2>4, LoopKeep
<1> QED BY <1>1, <1>4, <1>5, <1>6, <1>7, <1>8, <1>9, <1>10, <1>11, <1>12

(* Undoing a launch or ending a drain removes a replica that is not        *)
(* Healthy any more.                                                       *)
LEMMA VicRemoved ==
  ASSUME IndInv, KeepInv, pc \in {"probing", "draining"}, Remove(vic)
  PROVE  /\ Serving
         /\ \A id \in Ids : registry'[id] # NoReplica => registry'[id].st = "Healthy"
<1>1. MemInv /\ vic \in Ids /\ vic \in Live(cur) BY DEF IndInv, LinkInv, Live
<1>2. registry'[vic] = NoReplica /\ \A k \in Ids : k # vic => registry'[k] = registry[k]
  BY <1>1 DEF Remove, MemInv
<1>3. registry[vic].st # "Healthy" /\ registry[vic] # NoReplica
  BY <1>1 DEF KeepInv, Busied, Live
<1>4. \A s \in Services : Healthy(s)' = Healthy(s)
  <2> SUFFICES ASSUME NEW s \in Services PROVE Healthy(s)' = Healthy(s) OBVIOUS
  <2>1. \A k \in Ids : k \in Healthy(s)' <=> k \in Healthy(s)
    BY <1>2, <1>3 DEF Healthy, Live
  <2> QED BY <2>1 DEF Healthy, Live
<1>5. Serving BY <1>4 DEF Serving
<1>6. \A id \in Ids : registry'[id] # NoReplica => registry'[id].st = "Healthy"
  BY <1>2 DEF KeepInv, Busied
<1> QED BY <1>5, <1>6

(* Launches, drains and their loops preserve it; the launch-first roll     *)
(* drains the old replica once the new one is Healthy.                     *)
LEMMA StepKeep ==
  ASSUME IndInv, KeepInv, Step
  PROVE  KeepInv' /\ Serving
<1>0. CtlInv /\ MemInv /\ LinkInv BY DEF IndInv
<1>1. pc # "pick"
  BY DEF Step, LoopUp, LoopDown, LoopDone, SurgeDrain, Relaunch, StartOk,
         StartFail, ProbeOk, ProbeFail, DrainEnd
<1>2. cur \in todo /\ cur \in Services
  BY <1>0, <1>1 DEF CtlInv
<1>3. Count(cur) \in Nat /\ target \in Nat BY <1>0, <1>2, CountType DEF CtlInv
<1>4. CASE LoopUp
  <2>1. Busied = {} /\ (job = "scale" \/ job = "empty") BY <1>0, <1>4 DEF LoopUp, Busied, CtlInv
  <2>2. PICK i \in next_replica_index(cur) : LaunchBegin(cur, i, "scale")
    BY <1>4 DEF LoopUp
  <2>3. target >= 1 BY <1>3, <1>4 DEF LoopUp
  <2> QED BY <1>2, <2>1, <2>2, <2>3, LaunchKeep DEF Jobs
<1>5. CASE LoopDown
  <2>1. PICK id \in Live(cur) : DrainBegin(cur, id, job)
    BY <1>5 DEF LoopDown, Lowest, Highest
  <2>2. Busied = {} /\ job \in {"scale", "empty"} /\ job \in Jobs
    BY <1>0, <1>5 DEF LoopDown, CtlInv, Busied
  <2>3. op = "tick" /\ job = "scale" => target >= 1 /\ Live(cur) \ {id} # {}
    BY <1>1, <1>2, <1>3, <1>5, ManyLive DEF LoopDown, KeepInv
  <2>4. op = "tick" /\ job = "empty" => snap[cur].pol.min = 0
    BY <1>1 DEF KeepInv
  <2> QED BY <1>0, <1>2, <2>1, <2>2, <2>3, <2>4, DrainKeep
<1>6. CASE LoopDone
  BY <1>2, <1>6, DoneKeep DEF LoopDone, memVars, Busied
<1>7. CASE SurgeDrain
  <2>1. PICK id \in Old(cur) : DrainBegin(cur, id, "surge")
    BY <1>7 DEF SurgeDrain, Lowest
  <2>2. id \in Live(cur) /\ Busied = {} BY <1>7 DEF SurgeDrain, Busied, Old
  <2>3. vic \in Live(cur) \ {id} BY <1>7 DEF SurgeDrain, KeepInv, Old
  <2> QED BY <1>0, <1>2, <2>1, <2>2, <2>3, DrainKeep DEF Jobs
<1>8. CASE Relaunch
  BY <1>2, <1>8, LaunchKeep DEF Relaunch, Busied, Jobs
<1>9. CASE StartOk
  <2> DEFINE new == [st |-> "Pending", svc |-> cur, dep |-> snap[cur].dep,
                     idx |-> idx, held |-> snap[cur].lim]
  <2>1. PICK id \in FreeIds : registry' = [registry EXCEPT ![id] = new] /\ vic' = id
    BY <1>9 DEF StartOk
  <2>2. /\ pc = "starting" /\ pc' = "probing"
        /\ UNCHANGED <<op, job, cur, snap, target>>
    BY <1>9 DEF StartOk
  <2>3. id \in Ids /\ registry[id] = NoReplica BY <2>1 DEF FreeIds
  <2>4. new # NoReplica /\ new.st = "Pending" /\ new.svc = cur /\ new.dep = snap[cur].dep
    BY DEF NoReplica
  <2> HIDE DEF new
  <2>5. registry'[id] = new /\ \A k \in Ids : k # id => registry'[k] = registry[k]
    BY <1>0, <2>1, <2>3 DEF MemInv
  <2>6. KeepInv'
    BY <1>1, <2>1, <2>2, <2>3, <2>4, <2>5 DEF KeepInv, Busied, Live
  <2>7. \A s \in Services : Healthy(s)' = Healthy(s)
    <3> SUFFICES ASSUME NEW s \in Services PROVE Healthy(s)' = Healthy(s) OBVIOUS
    <3>1. \A k \in Ids : k \in Healthy(s)' <=> k \in Healthy(s)
      BY <2>3, <2>4, <2>5 DEF Healthy, Live
    <3> QED BY <3>1 DEF Healthy, Live
  <2> QED BY <2>6, <2>7 DEF Serving
<1>10. CASE StartFail
  BY <1>2, <1>10, DoneKeep DEF StartFail, Busied
<1>11. CASE ProbeOk
  <2>1. /\ vic \in Ids /\ registry[vic] # NoReplica /\ registry[vic] \in Replicas
        /\ vic \in Live(cur) /\ registry[vic].dep = snap[cur].dep /\ pc = "probing"
    BY <1>0, <1>2, <1>11, LiveFacts DEF ProbeOk, KeepInv
  <2>2. registry' = [registry EXCEPT ![vic] = [registry[vic] EXCEPT !.st = "Healthy"]]
    BY <1>11 DEF ProbeOk
  <2>3. /\ registry'[vic] # NoReplica /\ registry'[vic].st = "Healthy"
        /\ registry'[vic].svc = registry[vic].svc /\ registry'[vic].dep = registry[vic].dep
    BY <1>0, <2>1, <2>2 DEF MemInv, Replicas, NoReplica
  <2>4. \A k \in Ids : k # vic => registry'[k] = registry[k]
    BY <1>0, <2>2 DEF MemInv
  <2>5. \A k \in Ids : registry'[k] # NoReplica => registry'[k].st = "Healthy"
    BY <2>1, <2>3, <2>4 DEF KeepInv, Busied
  <2>6. Serving
    <3>1. \A s \in Services : Healthy(s) \subseteq Healthy(s)'
      BY <2>3, <2>4 DEF Healthy, Live
    <3> QED BY <3>1 DEF Serving
  <2>7. registry[vic].svc = cur BY <2>1 DEF Live
  <2>8. CASE job \in {"scale", "surge"}
    <3>1. /\ pc' \in {"loop", "rolled"} /\ job' = job
          /\ UNCHANGED <<op, snap, cur, target, vic>>
      BY <1>11, <2>8 DEF ProbeOk, Continue
    <3> QED BY <1>1, <2>1, <2>3, <2>5, <2>6, <2>7, <2>8, <3>1 DEF KeepInv, Busied, Live
  <2>9. CASE job \notin {"scale", "surge"}
    <3>1. pc' = "pick" BY <1>11, <2>9 DEF ProbeOk, Done
    <3> QED BY <2>5, <2>6, <3>1 DEF KeepInv, Busied
  <2> QED BY <2>8, <2>9
<1>12. CASE ProbeFail
  <2>1. pc' = "pick" BY <1>12 DEF ProbeFail, Done
  <2> QED BY <1>12, <2>1, VicRemoved DEF ProbeFail, KeepInv, Busied
<1>13. CASE DrainEnd
  <2>1. /\ Serving
        /\ \A id \in Ids : registry'[id] # NoReplica => registry'[id].st = "Healthy"
    BY <1>13, VicRemoved DEF DrainEnd
  <2>2. CASE job \in {"scale", "empty", "replace"}
    <3>1. pc' \in {"loop", "drained"} /\ job' = job /\ UNCHANGED <<op, cur, target, snap>>
      BY <1>13, <2>2 DEF DrainEnd, Continue
    <3> QED BY <1>1, <2>1, <3>1 DEF KeepInv, Busied
  <2>3. CASE job \notin {"scale", "empty", "replace"}
    <3>1. pc' = "pick" BY <1>13, <2>3 DEF DrainEnd, Done
    <3> QED BY <2>1, <3>1 DEF KeepInv, Busied
  <2> QED BY <2>2, <2>3
<1> QED BY <1>4, <1>5, <1>6, <1>7, <1>8, <1>9, <1>10, <1>11, <1>12, <1>13 DEF Step

(* Callers of the controller, the start of an operation and its end        *)
(* preserve it.                                                            *)
LEMMA OutsideKeep ==
  ASSUME KeepInv, IndInv, Env \/ TickAll \/ Finish \/ UNCHANGED vars
  PROVE  KeepInv' /\ Serving
<1>1. UNCHANGED <<registry, pc, job, cur, target, vic>>
  BY DEF Env, TickAll, Finish, Promote, PutService, StopRoutesOnly, Activate, ReconcileService,
         DrainAll, Begin, vars, memVars, ctlVars
<1>2. \/ pc = "pick"
      \/ UNCHANGED <<op, snap>>
  BY DEF Env, TickAll, Finish, Promote, PutService, StopRoutesOnly, Activate, ReconcileService,
         DrainAll, Begin, vars, ctlVars, IndInv, CtlInv
<1>3. KeepInv' BY <1>1, <1>2 DEF KeepInv, Busied, Live
<1> QED BY <1>1, <1>3, SameServing

(* KeepInv is an invariant, and no step breaks TickKeepsServing. *)
LEMMA KeepStep == IndInv /\ KeepInv /\ [Next]_vars => KeepInv' /\ [Serving]_vars
<1> SUFFICES ASSUME IndInv, KeepInv, [Next]_vars PROVE KeepInv' /\ Serving
  OBVIOUS
<1>1. CASE Env \/ TickAll \/ Finish \/ UNCHANGED vars BY <1>1, OutsideKeep
<1>2. CASE Work
  <2>1. CASE IngressTold
    <3>1. UNCHANGED <<registry, ctlVars>> BY <2>1 DEF IngressTold
    <3> QED BY <3>1, SameServing DEF KeepInv, Busied, Live, ctlVars
  <2> QED BY <1>2, <2>1, DecideKeep, StepKeep DEF Work
<1>3. CASE Reboot
  BY <1>3 DEF Reboot, KeepInv, Busied, Serving
<1> QED BY <1>1, <1>2, <1>3 DEF Next

LEMMA KeepAlways == Spec => []IndInv /\ []KeepInv
<1>1. Init => KeepInv
  BY DEF Init, KeepInv, Busied
<1>2. [Next]_vars => [Next \/ ActivationDropped \/ WorkloadExits]_vars OBVIOUS
<1> QED BY <1>1, <1>2, InitIndInv, NextIndInv, KeepStep, PTL DEF Spec

(* For every policy and load, whatever fails: a tick takes the last Healthy *)
(* replica of a service away only to idle one whose minimum is zero (tick   *)
(* in controller.rs).  A dropped activation would break it: its replica is  *)
(* registered, never becomes Healthy, and is counted.                       *)
THEOREM TicksKeepServing == Spec => TickKeepsServing
BY KeepStep, KeepAlways, PTL DEF Spec, TickKeepsServing, Serving

-----------------------------------------------------------------------------
(* The inductive invariant behind FleetGrowsWithin: a launch in flight has *)
(* room, unless it replaces a replica that was drained, and a size to      *)
(* reach is one the fleet has already or one within the policy.            *)
GrowInv ==
  /\ pc = "loop" => target <= MaxOf(Count(cur), snap[cur].pol.max)
  /\ pc = "starting" /\ job # "replace" =>
       Count(cur) < snap[cur].pol.max + (IF job = "surge" THEN 1 ELSE 0)
  /\ pc \in {"starting", "probing"} /\ job = "scale" => target <= snap[cur].pol.max
  /\ pc = "draining" /\ job \in {"scale", "empty"} => target < Count(cur)

(* The step of FleetGrowsWithin. *)
Growing ==
  \A s \in Services :
    Count(s)' > Count(s) /\ job # "replace"
      => Count(s)' <= snap[s].pol.max + (IF job = "surge" THEN 1 ELSE 0)

(* A step that neither registers nor removes keeps the counts. *)
LEMMA SameCount ==
  ASSUME \A id \in Ids : /\ registry'[id] # NoReplica <=> registry[id] # NoReplica
                         /\ registry'[id].svc = registry[id].svc
  PROVE  \A s \in Services : Count(s)' = Count(s)
<1>1. \A s \in Services : Live(s)' = Live(s) BY DEF Live
<1> QED BY <1>1 DEF Count

(* A step that does not register anybody lets no fleet grow. *)
LEMMA ShrinkGrowing ==
  ASSUME MemInv, \A s \in Services : Count(s)' \in {Count(s), Count(s) - 1}
  PROVE  Growing
BY CountType DEF Growing

(* A drain that begins registers and removes nobody. *)
LEMMA DrainCount ==
  ASSUME MemInv, NEW s \in Services, NEW id \in Live(s), NEW j, DrainBegin(s, id, j)
  PROVE  \A t \in Services : Count(t)' = Count(t)
<1>1. id \in Ids /\ registry[id] \in Replicas /\ registry[id] # NoReplica
  BY LiveFacts
<1>2. registry' = [registry EXCEPT ![id] = [registry[id] EXCEPT !.st = "Draining"]]
  BY DEF DrainBegin
<1>3. registry'[id] # NoReplica /\ registry'[id].svc = registry[id].svc
  BY <1>1, <1>2 DEF MemInv, Replicas, NoReplica
<1>4. \A k \in Ids : k # id => registry'[k] = registry[k]
  BY <1>2 DEF MemInv
<1> QED BY <1>1, <1>3, <1>4, SameCount

(* A launch for which there is room. *)
LEMMA LaunchGrow ==
  ASSUME MemInv, NEW s \in Services, NEW i, NEW j \in Jobs, LaunchBegin(s, i, j),
         j # "replace" => Count(s) < snap[s].pol.max + (IF j = "surge" THEN 1 ELSE 0),
         j = "scale" => target <= snap[s].pol.max
  PROVE  GrowInv' /\ Growing
<1>1. UNCHANGED registry BY DEF LaunchBegin
<1>2. \A t \in Services : Count(t)' = Count(t) BY <1>1, SameCount
<1>3. Growing BY <1>2, ShrinkGrowing
<1>4. CASE CanReserve(snap[s].lim)
  <2>1. pc' = "starting" /\ job' = j /\ cur' = s /\ UNCHANGED <<snap, target>>
    BY <1>4 DEF LaunchBegin, Continue
  <2> QED BY <1>2, <1>3, <2>1 DEF GrowInv
<1>5. CASE ~CanReserve(snap[s].lim)
  BY <1>3, <1>5 DEF LaunchBegin, Done, GrowInv
<1> QED BY <1>4, <1>5

(* A size the fleet has or may have. *)
LEMMA LoopGrow ==
  ASSUME MemInv, NEW s \in Services, NEW n \in Nat, NEW j, Loop(s, n, j),
         n <= MaxOf(Count(s), snap[s].pol.max)
  PROVE  GrowInv' /\ Growing
<1>1. pc' = "loop" /\ cur' = s /\ target' = n /\ UNCHANGED <<registry, snap>>
  BY DEF Loop, Continue, memVars
<1>2. \A t \in Services : Count(t)' = Count(t) BY <1>1, SameCount
<1> QED BY <1>1, <1>2, ShrinkGrowing DEF GrowInv

LEMMA DoneGrow ==
  ASSUME MemInv, NEW s, NEW n, Done(s, n), UNCHANGED registry
  PROVE  GrowInv' /\ Growing
<1>1. \A t \in Services : Count(t)' = Count(t) BY SameCount
<1> QED BY <1>1, ShrinkGrowing DEF Done, GrowInv

(* Decisions: every size they choose is clamped or the present one.        *)
LEMMA DecideGrow ==
  ASSUME IndInv, Decide
  PROVE  GrowInv' /\ Growing
<1>0. CtlInv /\ MemInv BY DEF IndInv
<1>1. PICK s \in Services :
        \/ RollSurge(s) \/ RollReplace(s) \/ FromZero(s) \/ MetricsOutage(s)
        \/ IdleToZero(s) \/ TopUp(s) \/ ActivateOne(s) \/ EmptyAll(s)
        \/ \E cpu \in CpuSamples, mem \in MemSamples : Resize(s, cpu, mem)
  BY DEF Decide
<1>2. s \in todo
  BY <1>1 DEF RollSurge, RollReplace, FromZero, MetricsOutage, IdleToZero, TopUp,
              ActivateOne, EmptyAll, Resize, Settled, Pick
<1> DEFINE p == snap[s].pol
<1>3. /\ Count(s) \in Nat /\ ValidPolicy(p)
      /\ p.max \in Nat /\ p.max >= 1 /\ p.min \in Nat /\ p.min <= p.max
  BY <1>0, <1>2, CountType DEF CtlInv, ValidPolicy
<1>4. CASE RollSurge(s)
  <2>1. Count(s) < p.max + 1 BY <1>3, <1>4 DEF RollSurge
  <2> QED BY <1>0, <1>4, <2>1, LaunchGrow DEF RollSurge, Jobs
<1>5. CASE RollReplace(s)
  <2>1. PICK id \in Lowest(Old(s)) : DrainBegin(s, id, "replace")
    BY <1>5 DEF RollReplace
  <2>2. id \in Live(s) BY DEF Lowest, Old
  <2>3. \A t \in Services : Count(t)' = Count(t) BY <1>0, <2>1, <2>2, DrainCount
  <2>4. pc' = "draining" /\ job' = "replace" BY <2>1 DEF DrainBegin, Continue
  <2> QED BY <1>0, <2>3, <2>4, ShrinkGrowing DEF GrowInv
<1>6. CASE FromZero(s)
  <2>1. p.min <= MaxOf(Count(s), p.max) BY <1>3 DEF MaxOf
  <2> QED BY <1>0, <1>3, <1>6, <2>1, LoopGrow, DoneGrow DEF FromZero, memVars
<1>7. CASE MetricsOutage(s)
  BY <1>0, <1>7, DoneGrow DEF MetricsOutage, memVars
<1>8. CASE IdleToZero(s) \/ EmptyAll(s)
  <2>1. 0 <= MaxOf(Count(s), p.max) BY <1>3 DEF MaxOf
  <2> QED BY <1>0, <1>8, <2>1, LoopGrow DEF IdleToZero, EmptyAll
<1>9. CASE TopUp(s)
  <2> DEFINE want == IF desired[s] = -1 THEN p.min ELSE desired[s]
             n == MaxOf(Count(s), MinOf(MaxOf(want, p.min), p.max))
  <2>1. want \in Nat BY <1>0, <1>3 DEF CtlInv
  <2>2. n \in Nat /\ n <= MaxOf(Count(s), p.max)
    BY <1>3, <2>1 DEF MaxOf, MinOf
  <2> QED BY <1>0, <1>9, <2>2, LoopGrow DEF TopUp
<1>10. CASE ActivateOne(s)
  <2>1. CASE Done(s, 0) /\ UNCHANGED memVars BY <1>0, <2>1, DoneGrow DEF memVars
  <2>2. CASE Live(s) = {} /\ LaunchBegin(s, 0, "wake")
    <3>1. Count(s) = 0 BY <2>2, FS_EmptySet DEF Count
    <3> QED BY <1>0, <1>3, <2>2, <3>1, LaunchGrow DEF Jobs
  <2> QED BY <1>10, <2>1, <2>2 DEF ActivateOne
<1>11. ASSUME NEW cpu \in CpuSamples, NEW mem \in MemSamples, Resize(s, cpu, mem)
       PROVE  GrowInv' /\ Growing
  <2> DEFINE n == Count(s)
             up == clamp_loop(desired_up(n, cpu, p.targetCpu, mem, p.targetMem),
                              p.min, p.max)
             down == clamp_loop(desired_down(n, cpu, p.targetCpu), p.min, p.max)
  <2>1. n \in Nat /\ n <= MaxOf(n, p.max) BY <1>3 DEF MaxOf
  <2>2. up \in Nat /\ down \in Nat BY <1>3, SizeTypes
  <2>3. \A d : clamp_loop(d, p.min, p.max) \in Nat => clamp_loop(d, p.min, p.max) <= p.max
    BY <1>3 DEF clamp_loop, MaxOf, MinOf
  <2>4. up <= p.max /\ down <= p.max BY <2>2, <2>3
  <2>5. Loop(s, up, "scale") \/ Loop(s, down, "scale") \/ Loop(s, n, "scale")
    BY <1>11 DEF Resize
  <2> HIDE DEF up, down, n, p
  <2>6. up <= MaxOf(n, p.max) /\ down <= MaxOf(n, p.max)
    BY <1>3, <2>1, <2>2, <2>4 DEF MaxOf
  <2>7. n <= MaxOf(Count(s), snap[s].pol.max) /\ up <= MaxOf(Count(s), snap[s].pol.max)
        /\ down <= MaxOf(Count(s), snap[s].pol.max)
    BY <2>1, <2>6 DEF n, p
  <2> QED BY <1>0, <2>1, <2>2, <2>5, <2>7, LoopGrow
<1> QED BY <1>1, <1>4, <1>5, <1>6, <1>7, <1>8, <1>9, <1>10, <1>11

(* Removing the replica that is probed or drained makes the fleet smaller  *)
(* by one.                                                                 *)
LEMMA RemovedCount ==
  ASSUME IndInv, pc \in {"probing", "draining"}, Remove(vic)
  PROVE  \A s \in Services : Count(s)' = IF s = cur THEN Count(s) - 1 ELSE Count(s)
<1>1. MemInv /\ vic \in Ids /\ vic \in Live(cur) BY DEF IndInv, LinkInv, Live
<1>2. registry'[vic] = NoReplica /\ \A k \in Ids : k # vic => registry'[k] = registry[k]
  BY <1>1 DEF Remove, MemInv
<1> SUFFICES ASSUME NEW s \in Services
             PROVE  Count(s)' = IF s = cur THEN Count(s) - 1 ELSE Count(s)
  OBVIOUS
<1>3. Live(s)' = Live(s) \ {vic} BY <1>2 DEF Live
<1>4. Live(s) \in SUBSET Ids BY DEF Live
<1>5. IsFiniteSet(Live(s)) BY <1>4, FS_Subset
<1>6. vic \in Live(s) <=> s = cur BY <1>1 DEF Live
<1>7. Cardinality(Live(s) \ {vic}) =
        IF s = cur THEN Cardinality(Live(s)) - 1 ELSE Cardinality(Live(s))
  BY <1>5, <1>6, FS_RemoveElement
<1> QED BY <1>3, <1>7 DEF Count

(* Launches, drains and their loops: only the second step of a launch      *)
(* registers a replica.                                                    *)
LEMMA StepGrow ==
  ASSUME IndInv, GrowInv, Step
  PROVE  GrowInv' /\ Growing
<1>0. CtlInv /\ MemInv /\ LinkInv BY DEF IndInv
<1>1. pc # "pick"
  BY DEF Step, LoopUp, LoopDown, LoopDone, SurgeDrain, Relaunch, StartOk,
         StartFail, ProbeOk, ProbeFail, DrainEnd
<1>2. cur \in todo /\ cur \in Services
  BY <1>0, <1>1 DEF CtlInv
<1>3. \A t \in Services : Count(t) \in Nat BY <1>0, CountType
<1> DEFINE max == snap[cur].pol.max
<1>4. target \in Nat /\ job \in Jobs /\ max \in Nat
  BY <1>0, <1>2 DEF CtlInv, ValidPolicy
<1>5. CASE LoopUp
  <2>1. target <= MaxOf(Count(cur), max) /\ Count(cur) < target
    BY <1>5 DEF LoopUp, GrowInv
  <2>2. target <= max /\ Count(cur) < max BY <1>2, <1>3, <1>4, <2>1 DEF MaxOf
  <2> QED BY <1>0, <1>2, <1>4, <1>5, <2>2, LaunchGrow DEF LoopUp, Jobs
<1>6. CASE LoopDown
  <2>1. PICK id \in Live(cur) : DrainBegin(cur, id, job)
    BY <1>6 DEF LoopDown, Lowest, Highest
  <2>2. \A t \in Services : Count(t)' = Count(t) BY <1>0, <1>2, <2>1, DrainCount
  <2>3. pc' = "draining" /\ cur' = cur /\ UNCHANGED <<target, snap>>
    BY <2>1 DEF DrainBegin, Continue
  <2>4. target < Count(cur) BY <1>2, <1>3, <1>4, <1>6 DEF LoopDown
  <2> QED BY <1>0, <1>2, <2>2, <2>3, <2>4, ShrinkGrowing DEF GrowInv
<1>7. CASE LoopDone
  BY <1>0, <1>7, DoneGrow DEF LoopDone, memVars
<1>8. CASE SurgeDrain
  <2>1. PICK id \in Live(cur) : DrainBegin(cur, id, "surge")
    BY <1>8 DEF SurgeDrain, Lowest, Old
  <2>2. \A t \in Services : Count(t)' = Count(t) BY <1>0, <1>2, <2>1, DrainCount
  <2>3. pc' = "draining" /\ job' = "surge" BY <2>1 DEF DrainBegin, Continue
  <2> QED BY <1>0, <2>2, <2>3, ShrinkGrowing DEF GrowInv
<1>9. CASE Relaunch
  BY <1>0, <1>2, <1>9, LaunchGrow DEF Relaunch, Jobs
<1>10. CASE StartOk
  <2> DEFINE new == [st |-> "Pending", svc |-> cur, dep |-> snap[cur].dep,
                     idx |-> idx, held |-> snap[cur].lim]
  <2>1. PICK id \in FreeIds : registry' = [registry EXCEPT ![id] = new]
    BY <1>10 DEF StartOk
  <2>2. pc = "starting" /\ pc' = "probing" /\ UNCHANGED <<job, cur, target, snap>>
    BY <1>10 DEF StartOk
  <2>3. id \in Ids /\ registry[id] = NoReplica BY <2>1 DEF FreeIds
  <2>4. new # NoReplica /\ new.svc = cur BY DEF NoReplica
  <2> HIDE DEF new
  <2>5. registry'[id] = new /\ \A k \in Ids : k # id => registry'[k] = registry[k]
    BY <1>0, <2>1, <2>3 DEF MemInv
  <2>6. ASSUME NEW t \in Services
        PROVE  Count(t)' = IF t = cur THEN Count(t) + 1 ELSE Count(t)
    <3>1. Live(t)' = IF t = cur THEN Live(t) \cup {id} ELSE Live(t)
      BY <2>3, <2>4, <2>5 DEF Live
    <3>2. Live(t) \in SUBSET Ids /\ id \notin Live(t) BY <2>3 DEF Live
    <3>3. IsFiniteSet(Live(t)) BY <3>2, FS_Subset
    <3>4. Cardinality(Live(t) \cup {id}) = Cardinality(Live(t)) + 1
      BY <3>2, <3>3, FS_AddElement
    <3> QED BY <3>1, <3>4 DEF Count
  <2>7. Growing
    BY <1>2, <1>3, <1>4, <2>2, <2>6 DEF Growing, GrowInv
  <2> QED BY <2>2, <2>7 DEF GrowInv
<1>11. CASE StartFail
  BY <1>0, <1>11, DoneGrow DEF StartFail
<1>12. CASE ProbeOk
  <2>1. vic \in Ids /\ registry[vic] # NoReplica /\ registry[vic] \in Replicas
    BY <1>0, <1>2, <1>12, LiveFacts DEF ProbeOk, LinkInv
  <2>2. registry' = [registry EXCEPT ![vic] = [registry[vic] EXCEPT !.st = "Healthy"]]
    BY <1>12 DEF ProbeOk
  <2>3. registry'[vic] # NoReplica /\ registry'[vic].svc = registry[vic].svc
    BY <1>0, <2>1, <2>2 DEF MemInv, Replicas, NoReplica
  <2>4. \A k \in Ids : k # vic => registry'[k] = registry[k]
    BY <1>0, <2>2 DEF MemInv
  <2>5. \A t \in Services : Count(t)' = Count(t) BY <2>1, <2>3, <2>4, SameCount
  <2>6. Growing BY <1>0, <2>5, ShrinkGrowing
  <2>7. CASE job = "scale"
    <3>1. pc' = "loop" /\ UNCHANGED <<cur, target, snap>>
      BY <1>12, <2>7 DEF ProbeOk, Continue
    <3>2. target <= max BY <1>12, <2>7 DEF ProbeOk, GrowInv
    <3>3. target <= MaxOf(Count(cur), max) BY <1>2, <1>3, <1>4, <3>2 DEF MaxOf
    <3> QED BY <1>2, <2>5, <2>6, <3>1, <3>3 DEF GrowInv
  <2>8. CASE job # "scale"
    <3>1. pc' \in {"rolled", "pick"} BY <1>12, <2>8 DEF ProbeOk, Continue, Done
    <3> QED BY <2>6, <3>1 DEF GrowInv
  <2> QED BY <2>7, <2>8
<1>13. CASE ProbeFail
  <2>1. \A t \in Services : Count(t)' \in {Count(t), Count(t) - 1}
    BY <1>13, RemovedCount DEF ProbeFail
  <2>2. pc' = "pick" BY <1>13 DEF ProbeFail, Done
  <2> QED BY <1>0, <2>1, <2>2, ShrinkGrowing DEF GrowInv
<1>14. CASE DrainEnd
  <2>1. \A t \in Services : Count(t)' = IF t = cur THEN Count(t) - 1 ELSE Count(t)
    BY <1>14, RemovedCount DEF DrainEnd
  <2>2. Growing BY <1>0, <2>1, ShrinkGrowing
  <2>3. CASE job \in {"scale", "empty"}
    <3>1. pc' = "loop" /\ UNCHANGED <<cur, target, snap>>
      BY <1>14, <2>3 DEF DrainEnd, Continue
    <3>2. target < Count(cur) BY <1>14, <2>3 DEF DrainEnd, GrowInv
    <3>3. target <= MaxOf(Count(cur) - 1, max) BY <1>2, <1>3, <1>4, <3>2 DEF MaxOf
    <3> QED BY <1>2, <2>1, <2>2, <3>1, <3>3 DEF GrowInv
  <2>4. CASE job \notin {"scale", "empty"}
    <3>1. pc' \in {"drained", "pick"} BY <1>14, <2>4 DEF DrainEnd, Continue, Done
    <3> QED BY <2>2, <3>1 DEF GrowInv
  <2> QED BY <2>3, <2>4
<1> QED BY <1>5, <1>6, <1>7, <1>8, <1>9, <1>10, <1>11, <1>12, <1>13, <1>14 DEF Step

(* Everything outside the lock holder's work, dropped activations and      *)
(* exits included.                                                         *)
LEMMA OutsideGrow ==
  ASSUME GrowInv, IndInv,
         \/ Env \/ TickAll \/ Finish \/ ActivationDropped \/ WorkloadExits \/ IngressTold
         \/ UNCHANGED vars
  PROVE  GrowInv' /\ Growing
<1>0. MemInv BY DEF IndInv
<1>1. UNCHANGED registry
  BY DEF Env, TickAll, Finish, Promote, PutService, StopRoutesOnly, Activate, ReconcileService,
         DrainAll, Begin, vars, memVars, ctlVars, ActivationDropped, WorkloadExits, IngressTold
<1>2. \A t \in Services : Count(t)' = Count(t) BY <1>1, SameCount
<1>3. Growing BY <1>0, <1>2, ShrinkGrowing
<1>4. \/ pc' = "pick"
      \/ UNCHANGED <<pc, job, cur, target, snap>>
  BY DEF Env, TickAll, Finish, Promote, PutService, StopRoutesOnly, Activate, ReconcileService,
         DrainAll, Begin, vars, ctlVars, ActivationDropped, WorkloadExits, IngressTold,
         IndInv, CtlInv
<1>5. pc # "pick" => cur \in Services BY DEF IndInv, CtlInv
<1> QED BY <1>2, <1>3, <1>4, <1>5 DEF GrowInv

(* GrowInv is an invariant, and no step breaks FleetGrowsWithin. *)
LEMMA GrowStep ==
  IndInv /\ GrowInv /\ [Next \/ ActivationDropped \/ WorkloadExits]_vars
    => GrowInv' /\ [Growing]_vars
<1> SUFFICES ASSUME IndInv, GrowInv, [Next \/ ActivationDropped \/ WorkloadExits]_vars
             PROVE  GrowInv' /\ Growing
  OBVIOUS
<1>1. CASE \/ Env \/ TickAll \/ Finish \/ ActivationDropped \/ WorkloadExits \/ IngressTold
           \/ UNCHANGED vars
  BY <1>1, OutsideGrow
<1>2. CASE Work BY <1>1, <1>2, DecideGrow, StepGrow DEF Work
<1>3. CASE Reboot
  <2>1. \A s \in Services : Live(s)' = {} BY <1>3 DEF Reboot, Live
  <2>2. \A s \in Services : Count(s)' = 0 BY <2>1, FS_EmptySet DEF Count
  <2>3. Growing BY <2>2, CountType DEF Growing, IndInv
  <2> QED BY <1>3, <2>3 DEF Reboot, GrowInv
<1> QED BY <1>1, <1>2, <1>3 DEF Next

(* For every load and every sequence of edits of the policy, with dropped  *)
(* activations, exits and crashes: a fleet grows beyond the maximum that   *)
(* its operation resolved only in the launch-first roll of a single        *)
(* replica, by one, or when a drained replica is replaced.                 *)
THEOREM FleetAlwaysGrowsWithin == SpecDropped => FleetGrowsWithin
<1>1. Init => GrowInv BY DEF Init, GrowInv
<1> QED BY <1>1, GrowStep, Inductive, PTL DEF SpecDropped, FleetGrowsWithin, Growing
-----------------------------------------------------------------------------
(* Limits change only while the service has no replica and the lock holder *)
(* has nothing to do for it.  put_service does not wait for that.          *)
AtRest == \A s \in Services : limits'[s] # limits[s] => Live(s) = {} /\ s \notin todo
EditsAtRest == [][AtRest]_vars

(* The inductive invariant behind LedgerExact: what a replica holds, what  *)
(* an operation resolved and what the configuration says are the same, and *)
(* no single reservation exceeds what is allocatable.                      *)
ExactInv ==
  /\ LedgerExact
  /\ \A id \in Ids : registry[id] # NoReplica =>
       /\ registry[id].held = limits[registry[id].svc]
       /\ \A r \in Resources : registry[id].held[r] <= Alloc[r]
  /\ \A s \in todo : snap[s].lim = limits[s]
  /\ pc = "starting" => \A r \in Resources : snap[cur].lim[r] <= Alloc[r]

(* The same replicas, with the same budgets. *)
SameHolders ==
  \A id \in Ids :
    /\ registry'[id] = NoReplica <=> registry[id] = NoReplica
    /\ registry[id] # NoReplica =>
         registry'[id].svc = registry[id].svc /\ registry'[id].held = registry[id].held

(* The units of the budget can be counted. *)
LEMMA UnitsFinite ==
  ASSUME NEW r \in Resources
  PROVE  IsFiniteSet(HeldUnits(r)) /\ Cardinality(HeldUnits(r)) \in Nat
<1>1. IsFiniteSet(1 .. Word[r]) BY FS_Interval DEF Amounts
<1>2. IsFiniteSet(Ids \X (1 .. Word[r])) BY <1>1, FS_Product
<1>3. HeldUnits(r) \in SUBSET (Ids \X (1 .. Word[r])) BY DEF HeldUnits
<1>4. IsFiniteSet(HeldUnits(r)) BY <1>2, <1>3, FS_Subset
<1> QED BY <1>4, FS_CardinalityType

(* One more holder of n units adds n to their number. *)
LEMMA AddUnits ==
  ASSUME NEW S, IsFiniteSet(S), NEW id, NEW n \in Nat, \A u \in S : u[1] # id
  PROVE  Cardinality(S \cup ({id} \X (1 .. n))) = Cardinality(S) + n
<1> DEFINE T == {id} \X (1 .. n)
<1>1. IsFiniteSet(1 .. n) /\ Cardinality(1 .. n) = n BY FS_Interval
<1>2. IsFiniteSet({id}) /\ Cardinality({id}) = 1 BY FS_Singleton
<1>3. IsFiniteSet(T) /\ Cardinality(T) = n
  <2>1. IsFiniteSet(T) /\ Cardinality(T) = Cardinality({id}) * Cardinality(1 .. n)
    BY <1>1, <1>2, FS_Product, Zenon
  <2> HIDE DEF T
  <2> QED BY <1>1, <1>2, <2>1
<1>4. \A u \in T : u[1] = id OBVIOUS
<1>5. S \cap T = {}
  <2> HIDE DEF T
  <2> QED BY <1>4
<1>6. Cardinality(S) \in Nat BY FS_CardinalityType
<1>7. Cardinality(S \cap T) = 0 BY <1>5, FS_EmptySet
<1> HIDE DEF T
<1>8. Cardinality(S \cup T) = Cardinality(S) + Cardinality(T) - Cardinality(S \cap T)
  BY <1>3, FS_Union
<1>9. Cardinality(S \cup T) = Cardinality(S) + n BY <1>3, <1>6, <1>7, <1>8
<1> QED BY <1>9 DEF T

(* Steps that register and remove nobody keep the units. *)
LEMMA SameUnits ==
  ASSUME SameHolders, NEW r \in Resources
  PROVE  HeldUnits(r)' = HeldUnits(r)
BY DEF SameHolders, HeldUnits

(* The units that the replicas of a registry R hold. *)
UnitsOf(R, r) ==
  {u \in Ids \X (1 .. Word[r]) : R[u[1]] # NoReplica /\ u[2] <= R[u[1]].held[r]}

(* R is the registry Q with one holder more, id.  Its units are those of Q *)
(* and the budget of id.                                                   *)
OneMore(R, Q, id, r) ==
  /\ Q[id] = NoReplica /\ R[id] # NoReplica
  /\ \A k \in Ids : k # id => R[k] = Q[k]
  /\ R[id].held[r] \in Nat /\ R[id].held[r] <= Alloc[r]
  /\ IsFiniteSet(UnitsOf(Q, r))
LEMMA HolderUnits ==
  ASSUME NEW R, NEW Q, NEW id \in Ids, NEW r \in Resources, OneMore(R, Q, id, r)
  PROVE  Cardinality(UnitsOf(R, r)) = Cardinality(UnitsOf(Q, r)) + R[id].held[r]
<1> DEFINE n == R[id].held[r]
           S == UnitsOf(Q, r)
           V == UnitsOf(R, r)
<1> USE DEF UnitsOf, OneMore
<1>1. \A u \in S : u[1] # id OBVIOUS
<1>2. n <= Word[r] /\ Word[r] \in Nat BY DEF Amounts
<1>3. ASSUME NEW a \in Ids, NEW m \in 1 .. Word[r]
      PROVE  <<a, m>> \in V <=> <<a, m>> \in S \cup ({id} \X (1 .. n))
  <2>1. CASE a = id BY <1>2, <2>1
  <2>2. CASE a # id BY <2>2
  <2> QED BY <2>1, <2>2
<1>4. \A u \in V : u[1] \in Ids /\ u[2] \in 1 .. Word[r] /\ u = <<u[1], u[2]>> OBVIOUS
<1>5. \A u \in S \cup ({id} \X (1 .. n)) :
        u[1] \in Ids /\ u[2] \in 1 .. Word[r] /\ u = <<u[1], u[2]>>
  <2>1. \A u \in S : u[1] \in Ids /\ u[2] \in 1 .. Word[r] /\ u = <<u[1], u[2]>> OBVIOUS
  <2>2. \A u \in {id} \X (1 .. n) :
          u[1] \in Ids /\ u[2] \in 1 .. Word[r] /\ u = <<u[1], u[2]>>
    <3>1. \A m \in 1 .. n : m \in 1 .. Word[r] BY <1>2
    <3> HIDE DEF n
    <3> QED BY <3>1
  <2> QED BY <2>1, <2>2
<1>6. V = S \cup ({id} \X (1 .. n))
  <2> HIDE DEF V, S, n
  <2> QED BY <1>3, <1>4, <1>5
<1>7. n \in Nat OBVIOUS
<1>8. IsFiniteSet(S) OBVIOUS
<1>9. Cardinality(S \cup ({id} \X (1 .. n))) = Cardinality(S) + n
  <2> HIDE DEF S, n
  <2> QED BY <1>1, <1>7, <1>8, AddUnits
<1> QED BY <1>6, <1>9

(* Registering id with budget held adds its units; removing it takes them  *)
(* away again.                                                             *)
LEMMA UnitsRegistered ==
  ASSUME MemInv, NEW id \in Ids, NEW new \in Replicas, NEW r \in Resources,
         registry[id] = NoReplica, new # NoReplica, new.held[r] <= Alloc[r],
         registry' = [registry EXCEPT ![id] = new]
  PROVE  Cardinality(HeldUnits(r)') = Cardinality(HeldUnits(r)) + new.held[r]
<1>1. registry'[id] = new /\ \A k \in Ids : k # id => registry'[k] = registry[k]
  BY DEF MemInv
<1>2. new.held[r] \in Nat BY DEF Replicas, Amounts
<1>3. IsFiniteSet(UnitsOf(registry, r))
  BY UnitsFinite DEF HeldUnits, UnitsOf
<1>4. Cardinality(UnitsOf(registry', r)) = Cardinality(UnitsOf(registry, r)) + registry'[id].held[r]
  <2>1. /\ registry'[id] # NoReplica
        /\ registry'[id].held[r] \in Nat /\ registry'[id].held[r] <= Alloc[r]
    BY <1>1, <1>2
  <2>2. PICK R, Q : R = registry' /\ Q = registry OBVIOUS
  <2>3. OneMore(R, Q, id, r)
    BY <1>1, <1>3, <2>1, <2>2 DEF OneMore
  <2>4. Cardinality(UnitsOf(R, r)) = Cardinality(UnitsOf(Q, r)) + R[id].held[r]
    BY <2>3, HolderUnits
  <2> QED BY <2>2, <2>4
<1> QED BY <1>1, <1>4, Zenon DEF HeldUnits, UnitsOf

LEMMA UnitsRemoved ==
  ASSUME MemInv, NEW id \in Ids, NEW r \in Resources,
         registry[id] \in Replicas, registry[id] # NoReplica,
         registry[id].held[r] <= Alloc[r], Remove(id)
  PROVE  /\ Cardinality(HeldUnits(r)') \in Nat
         /\ Cardinality(HeldUnits(r)) = Cardinality(HeldUnits(r)') + registry[id].held[r]
<1>1. registry'[id] = NoReplica /\ \A k \in Ids : k # id => registry[k] = registry'[k]
  BY DEF MemInv, Remove
<1>2. registry[id].held[r] \in Nat BY DEF Replicas, Amounts
<1>3. HeldUnits(r)' \subseteq HeldUnits(r)
  <2>1. \A k \in Ids : registry'[k] # NoReplica => registry'[k] = registry[k]
    BY <1>1
  <2> QED BY <2>1 DEF HeldUnits
<1>4. IsFiniteSet(HeldUnits(r)') /\ Cardinality(HeldUnits(r)') \in Nat
  BY <1>3, UnitsFinite, FS_Subset, FS_CardinalityType
<1>5. IsFiniteSet(UnitsOf(registry', r))
  BY <1>4 DEF HeldUnits, UnitsOf
<1>6. Cardinality(UnitsOf(registry, r)) = Cardinality(UnitsOf(registry', r)) + registry[id].held[r]
  <2>1. PICK R, Q : R = registry /\ Q = registry' OBVIOUS
  <2>2. OneMore(R, Q, id, r)
    BY <1>1, <1>2, <1>5, <2>1 DEF OneMore
  <2>3. Cardinality(UnitsOf(R, r)) = Cardinality(UnitsOf(Q, r)) + R[id].held[r]
    BY <2>2, HolderUnits
  <2> QED BY <2>1, <2>3
<1> QED BY <1>4, <1>6, Zenon DEF HeldUnits, UnitsOf

(* After the end of a turn, or a wait other than the one for the runtime,  *)
(* nothing is in flight, and the resolved limits are still the current     *)
(* ones.                                                                   *)
Landed(s) ==
  \/ \E n : Done(s, n)
  \/ \E p \in Pcs \ {"starting"}, j \in Jobs : Continue(s, p, j)
LEMMA LandedExact ==
  ASSUME CtlInv, ExactInv, NEW s \in Services, Landed(s), UNCHANGED limits
  PROVE  /\ pc' # "starting"
         /\ \A t \in todo' : snap'[t].lim = limits'[t]
         /\ \A r \in Resources : InFlight(r)' = 0
<1>1. pc' # "starting" BY DEF Landed, Done, Continue
<1>2. \A t \in todo' : t \in todo /\ snap'[t] = snap[t]
  BY DEF Landed, Done, Continue, CtlInv
<1> QED BY <1>1, <1>2 DEF ExactInv, InFlight

(* Where no launch is in flight, steps that keep replicas and ledger. *)
LEMMA KeptExact ==
  ASSUME CtlInv, ExactInv, pc # "starting", NEW s \in Services, Landed(s),
         SameHolders, UNCHANGED <<limits, committed>>
  PROVE  ExactInv'
<1>1. \A r \in Resources : HeldUnits(r)' = HeldUnits(r) BY SameUnits
<1>2. /\ pc' # "starting"
      /\ \A t \in todo' : snap'[t].lim = limits'[t]
      /\ \A r \in Resources : InFlight(r)' = 0
  BY LandedExact
<1>3. LedgerExact'
  BY <1>1, <1>2 DEF ExactInv, LedgerExact, InFlight
<1>4. \A id \in Ids : registry'[id] # NoReplica =>
        /\ registry'[id].held = limits'[registry'[id].svc]
        /\ \A r \in Resources : registry'[id].held[r] <= Alloc[r]
  BY DEF ExactInv, SameHolders
<1> QED BY <1>2, <1>3, <1>4 DEF ExactInv

(* A launch reserves what it will hold, or nothing. *)
LEMMA LaunchExact ==
  ASSUME IndInv, ExactInv, pc # "starting", NEW s \in todo, NEW i, NEW j \in Jobs,
         LaunchBegin(s, i, j), UNCHANGED limits
  PROVE  ExactInv'
<1>0. CtlInv /\ MemInv /\ s \in Services BY DEF IndInv, CtlInv
<1>1. SameHolders BY DEF LaunchBegin, SameHolders
<1>2. CASE ~CanReserve(snap[s].lim)
  BY <1>0, <1>1, <1>2, KeptExact DEF LaunchBegin, Landed
<1>3. CASE CanReserve(snap[s].lim)
  <2>1. /\ Reserve(snap[s].lim) /\ pc' = "starting" /\ cur' = s
        /\ UNCHANGED <<registry, snap, todo>>
    BY <1>3 DEF LaunchBegin, Continue
  <2>2. snap[s].lim \in Amounts BY <1>0 DEF CtlInv, Snaps
  <2>3. \A r \in Resources : /\ committed'[r] = committed[r] + snap[s].lim[r]
                             /\ snap[s].lim[r] <= Alloc[r]
    BY <1>0, <1>3, <2>1, <2>2
       DEF CanReserve, Reserve, SatAdd, MinOf, MemInv, Amounts
  <2>4. \A r \in Resources : HeldUnits(r)' = HeldUnits(r) BY <1>1, SameUnits
  <2>5. LedgerExact'
    BY <2>1, <2>3, <2>4, UnitsFinite DEF ExactInv, LedgerExact, InFlight
  <2> QED BY <2>1, <2>3, <2>5 DEF ExactInv
<1> QED BY <1>2, <1>3

(* A drain that begins keeps the budget. *)
LEMMA DrainExact ==
  ASSUME IndInv, ExactInv, pc # "starting", NEW s \in Services, NEW id \in Live(s),
         NEW j \in Jobs, DrainBegin(s, id, j), UNCHANGED limits
  PROVE  ExactInv'
<1>0. CtlInv /\ MemInv BY DEF IndInv
<1>1. id \in Ids /\ registry[id] \in Replicas /\ registry[id] # NoReplica
  BY <1>0, LiveFacts
<1>2. registry' = [registry EXCEPT ![id] = [registry[id] EXCEPT !.st = "Draining"]]
  BY DEF DrainBegin
<1>3. /\ registry'[id] # NoReplica
      /\ registry'[id].svc = registry[id].svc /\ registry'[id].held = registry[id].held
  BY <1>0, <1>1, <1>2 DEF MemInv, Replicas, NoReplica
<1>4. \A k \in Ids : k # id => registry'[k] = registry[k]
  BY <1>0, <1>2 DEF MemInv
<1>5. SameHolders BY <1>1, <1>3, <1>4 DEF SameHolders
<1>6. Landed(s) BY DEF DrainBegin, Landed, Pcs
<1> QED BY <1>0, <1>5, <1>6, KeptExact DEF DrainBegin

(* The choice of a size and the end of a turn keep everything. *)
LEMMA RestExact ==
  ASSUME IndInv, ExactInv, pc # "starting", NEW s \in Services,
         Landed(s), UNCHANGED memVars, UNCHANGED limits
  PROVE  ExactInv'
<1>1. CtlInv BY DEF IndInv
<1>2. SameHolders /\ UNCHANGED committed BY DEF memVars, SameHolders
<1> QED BY <1>1, <1>2, KeptExact

(* Removing a replica releases what it held: the limits its service still  *)
(* has.                                                                    *)
LEMMA RemovedExact ==
  ASSUME IndInv, ExactInv, pc \in {"probing", "draining"}, Remove(vic),
         Release(snap[cur].lim), Landed(cur), UNCHANGED limits
  PROVE  ExactInv'
<1>0. CtlInv /\ MemInv /\ LinkInv BY DEF IndInv
<1>1. cur \in todo /\ cur \in Services BY <1>0 DEF CtlInv
<1>2. /\ vic \in Ids /\ registry[vic] \in Replicas /\ registry[vic] # NoReplica
      /\ registry[vic].svc = cur
  BY <1>0, <1>1, LiveFacts DEF LinkInv
<1>3. /\ registry[vic].held = snap[cur].lim
      /\ \A r \in Resources : registry[vic].held[r] <= Alloc[r]
  BY <1>1, <1>2 DEF ExactInv
<1>4. /\ pc' # "starting"
      /\ \A t \in todo' : snap'[t].lim = limits'[t]
      /\ \A r \in Resources : InFlight(r)' = 0
  BY <1>0, <1>1, LandedExact
<1>5. LedgerExact'
  <2> SUFFICES ASSUME NEW r \in Resources
               PROVE  committed'[r] = Cardinality(HeldUnits(r)') + InFlight(r)'
    BY DEF LedgerExact
  <2>1. /\ Cardinality(HeldUnits(r)') \in Nat
        /\ Cardinality(HeldUnits(r)) = Cardinality(HeldUnits(r)') + snap[cur].lim[r]
    BY <1>0, <1>2, <1>3, UnitsRemoved
  <2>2. snap[cur].lim[r] \in Nat BY <1>0, <1>1 DEF CtlInv, Amounts, Snaps
  <2>3. committed[r] = Cardinality(HeldUnits(r))
    <3>1. InFlight(r) = 0 BY DEF InFlight
    <3>2. Cardinality(HeldUnits(r)) \in Nat BY UnitsFinite
    <3> QED BY <3>1, <3>2 DEF ExactInv, LedgerExact
  <2>4. committed'[r] = MaxOf(committed[r] - snap[cur].lim[r], 0) BY DEF Release
  <2>5. InFlight(r)' = 0 BY <1>4
  <2>6. committed'[r] = Cardinality(HeldUnits(r)') BY <2>1, <2>2, <2>3, <2>4 DEF MaxOf
  <2> QED BY <2>1, <2>5, <2>6
<1>6. \A k \in Ids : registry'[k] # NoReplica => registry'[k] = registry[k]
  BY <1>0, <1>2 DEF Remove, MemInv
<1>7. \A id \in Ids : registry'[id] # NoReplica =>
        /\ registry'[id].held = limits'[registry'[id].svc]
        /\ \A r \in Resources : registry'[id].held[r] <= Alloc[r]
  BY <1>6 DEF ExactInv
<1> QED BY <1>4, <1>5, <1>7 DEF ExactInv

(* What is decided for a service. *)
LEMMA DecideExact ==
  ASSUME IndInv, ExactInv, Decide, UNCHANGED limits
  PROVE  ExactInv'
<1>0. CtlInv /\ MemInv BY DEF IndInv
<1>1. PICK s \in Services :
        \/ RollSurge(s) \/ RollReplace(s) \/ FromZero(s) \/ MetricsOutage(s)
        \/ IdleToZero(s) \/ TopUp(s) \/ ActivateOne(s) \/ EmptyAll(s)
        \/ \E cpu \in CpuSamples, mem \in MemSamples : Resize(s, cpu, mem)
  BY DEF Decide
<1>2. pc = "pick" /\ s \in todo
  BY <1>1 DEF RollSurge, RollReplace, FromZero, MetricsOutage, IdleToZero, TopUp,
              ActivateOne, EmptyAll, Resize, Settled, Pick
<1>3. ASSUME NEW n, NEW j \in Jobs, Loop(s, n, j) PROVE ExactInv'
  <2>1. Landed(s) /\ UNCHANGED memVars BY <1>3 DEF Loop, Landed, Pcs
  <2> QED BY <1>2, <2>1, RestExact
<1>4. ASSUME NEW n, Done(s, n), UNCHANGED memVars PROVE ExactInv'
  BY <1>2, <1>4, RestExact DEF Landed
<1>5. ASSUME NEW i, NEW j \in Jobs, LaunchBegin(s, i, j) PROVE ExactInv'
  BY <1>2, <1>5, LaunchExact
<1>6. CASE RollReplace(s)
  <2>1. PICK id \in Lowest(Old(s)) : DrainBegin(s, id, "replace")
    BY <1>6 DEF RollReplace
  <2>2. id \in Live(s) BY DEF Lowest, Old
  <2> QED BY <1>2, <2>1, <2>2, DrainExact DEF Jobs
<1>7. CASE RollSurge(s) BY <1>5, <1>7 DEF RollSurge, Jobs
<1>8. CASE FromZero(s) BY <1>3, <1>4, <1>8 DEF FromZero, Jobs
<1>9. CASE MetricsOutage(s) BY <1>4, <1>9 DEF MetricsOutage
<1>10. CASE IdleToZero(s) BY <1>3, <1>10 DEF IdleToZero, Jobs
<1>11. CASE TopUp(s)
  <2>1. PICK n : Loop(s, n, "scale") BY <1>11 DEF TopUp
  <2> QED BY <1>3, <2>1 DEF Jobs
<1>12. CASE ActivateOne(s) BY <1>4, <1>5, <1>12 DEF ActivateOne, Jobs
<1>13. CASE EmptyAll(s) BY <1>3, <1>13 DEF EmptyAll, Jobs
<1>14. ASSUME NEW cpu \in CpuSamples, NEW mem \in MemSamples, Resize(s, cpu, mem)
       PROVE  ExactInv'
  <2>1. \E n : Loop(s, n, "scale") BY <1>14 DEF Resize
  <2> QED BY <1>3, <2>1 DEF Jobs
<1> QED BY <1>1, <1>6, <1>7, <1>8, <1>9, <1>10, <1>11, <1>12, <1>13, <1>14

(* Launches and drains. *)
LEMMA StepExact ==
  ASSUME IndInv, ExactInv, Step, UNCHANGED limits
  PROVE  ExactInv'
<1>0. CtlInv /\ MemInv /\ LinkInv BY DEF IndInv
<1>1. cur \in todo /\ cur \in Services
  <2>1. pc # "pick"
    BY DEF Step, LoopUp, LoopDown, LoopDone, SurgeDrain, Relaunch, StartOk,
           StartFail, ProbeOk, ProbeFail, DrainEnd
  <2> QED BY <1>0, <2>1 DEF CtlInv
<1>2. CASE LoopUp BY <1>1, <1>2, LaunchExact DEF LoopUp, Jobs
<1>3. CASE LoopDown
  <2>1. PICK id \in Live(cur) : DrainBegin(cur, id, job)
    BY <1>3 DEF LoopDown, Lowest, Highest
  <2> QED BY <1>0, <1>1, <1>3, <2>1, DrainExact DEF LoopDown, CtlInv
<1>4. CASE LoopDone BY <1>1, <1>4, RestExact DEF LoopDone, Landed
<1>5. CASE SurgeDrain
  <2>1. PICK id \in Live(cur) : DrainBegin(cur, id, "surge")
    BY <1>5 DEF SurgeDrain, Lowest, Old
  <2> QED BY <1>1, <1>5, <2>1, DrainExact DEF SurgeDrain, Jobs
<1>6. CASE Relaunch BY <1>1, <1>6, LaunchExact DEF Relaunch, Jobs
<1>7. CASE StartOk
  <2> DEFINE new == [st |-> "Pending", svc |-> cur, dep |-> snap[cur].dep,
                     idx |-> idx, held |-> snap[cur].lim]
  <2>1. PICK id \in FreeIds : registry' = [registry EXCEPT ![id] = new]
    BY <1>7 DEF StartOk
  <2>2. /\ pc = "starting" /\ pc' = "probing"
        /\ UNCHANGED <<committed, cur, snap, todo>>
    BY <1>7 DEF StartOk
  <2>3. id \in Ids /\ registry[id] = NoReplica BY <2>1 DEF FreeIds
  <2>4. new \in Replicas
    BY <1>0, <1>1 DEF CtlInv, Replicas, Snaps
  <2>5. /\ new # NoReplica /\ new.held = snap[cur].lim /\ new.svc = cur
    BY DEF NoReplica
  <2> HIDE DEF new
  <2>6. \A r \in Resources : new.held[r] <= Alloc[r] BY <2>2, <2>5 DEF ExactInv
  <2>7. \A r \in Resources :
          Cardinality(HeldUnits(r)') = Cardinality(HeldUnits(r)) + snap[cur].lim[r]
    BY <1>0, <2>1, <2>3, <2>4, <2>5, <2>6, UnitsRegistered
  <2>8. \A r \in Resources :
          Cardinality(HeldUnits(r)) \in Nat /\ snap[cur].lim[r] \in Nat
    BY <1>0, <1>1, UnitsFinite DEF CtlInv, Amounts, Snaps
  <2>9. LedgerExact' BY <2>2, <2>7, <2>8 DEF ExactInv, LedgerExact, InFlight
  <2>10. registry'[id] = new /\ \A k \in Ids : k # id => registry'[k] = registry[k]
    BY <1>0, <2>1, <2>3 DEF MemInv
  <2>11. snap[cur].lim = limits[cur] BY <1>1 DEF ExactInv
  <2>12. \A k \in Ids : registry'[k] # NoReplica =>
          /\ registry'[k].held = limits'[registry'[k].svc]
          /\ \A r \in Resources : registry'[k].held[r] <= Alloc[r]
    <3> TAKE k \in Ids
    <3>1. CASE k = id BY <2>5, <2>6, <2>10, <2>11, <3>1
    <3>2. CASE k # id BY <2>10, <3>2 DEF ExactInv
    <3> QED BY <3>1, <3>2
  <2> QED BY <2>2, <2>9, <2>12 DEF ExactInv
<1>8. CASE StartFail
  <2>1. SameHolders /\ Landed(cur) /\ pc = "starting" /\ Release(snap[cur].lim)
    BY <1>8 DEF StartFail, SameHolders, Landed
  <2>2. \A r \in Resources : HeldUnits(r)' = HeldUnits(r) BY <2>1, SameUnits
  <2>3. /\ pc' # "starting"
        /\ \A t \in todo' : snap'[t].lim = limits'[t]
        /\ \A r \in Resources : InFlight(r)' = 0
    BY <1>0, <1>1, <2>1, LandedExact
  <2>4. LedgerExact'
    <3> SUFFICES ASSUME NEW r \in Resources
                 PROVE  committed'[r] = Cardinality(HeldUnits(r)') + InFlight(r)'
      BY DEF LedgerExact
    <3>1. committed[r] = Cardinality(HeldUnits(r)) + snap[cur].lim[r]
      BY <2>1 DEF ExactInv, LedgerExact, InFlight
    <3>2. Cardinality(HeldUnits(r)) \in Nat /\ snap[cur].lim[r] \in Nat
      BY <1>0, <1>1, UnitsFinite DEF CtlInv, Amounts, Snaps
    <3>3. committed'[r] = MaxOf(committed[r] - snap[cur].lim[r], 0) BY <2>1 DEF Release
    <3>4. committed'[r] = Cardinality(HeldUnits(r)) BY <3>1, <3>2, <3>3 DEF MaxOf
    <3> QED BY <2>2, <2>3, <3>2, <3>4
  <2>5. UNCHANGED registry BY <1>8 DEF StartFail
  <2> QED BY <2>3, <2>4, <2>5 DEF ExactInv
<1>9. CASE ProbeOk
  <2>1. /\ vic \in Ids /\ registry[vic] # NoReplica /\ registry[vic] \in Replicas
        /\ pc = "probing" /\ UNCHANGED committed
    BY <1>0, <1>1, <1>9, LiveFacts DEF ProbeOk, LinkInv
  <2>2. registry' = [registry EXCEPT ![vic] = [registry[vic] EXCEPT !.st = "Healthy"]]
    BY <1>9 DEF ProbeOk
  <2>3. /\ registry'[vic] # NoReplica
        /\ registry'[vic].svc = registry[vic].svc /\ registry'[vic].held = registry[vic].held
    BY <1>0, <2>1, <2>2 DEF MemInv, Replicas, NoReplica
  <2>4. \A k \in Ids : k # vic => registry'[k] = registry[k]
    BY <1>0, <2>2 DEF MemInv
  <2>5. SameHolders BY <2>1, <2>3, <2>4 DEF SameHolders
  <2>6. Landed(cur) BY <1>0, <1>9 DEF ProbeOk, Landed, CtlInv, Pcs
  <2> QED BY <1>0, <1>1, <2>1, <2>5, <2>6, KeptExact
<1>10. CASE ProbeFail BY <1>10, RemovedExact DEF ProbeFail, Landed
<1>11. CASE DrainEnd
  <2>1. Landed(cur) BY <1>0, <1>11 DEF DrainEnd, Landed, CtlInv, Pcs
  <2> QED BY <1>11, <2>1, RemovedExact DEF DrainEnd
<1> QED BY <1>2, <1>3, <1>4, <1>5, <1>6, <1>7, <1>8, <1>9, <1>10, <1>11 DEF Step

(* Callers of the controller, the start of an operation, which resolves    *)
(* the limits of that moment, and its end.                                 *)
LEMMA OutsideExact ==
  ASSUME IndInv, ExactInv, AtRest, Env \/ TickAll \/ Finish \/ UNCHANGED vars
  PROVE  ExactInv'
<1>0. CtlInv /\ MemInv /\ EnvInv BY DEF IndInv
<1>1. UNCHANGED <<registry, committed, pc, cur>>
  BY DEF Env, TickAll, Finish, Promote, PutService, StopRoutesOnly, Activate, ReconcileService,
         DrainAll, Begin, vars, memVars, ctlVars
<1>2. \A t \in Services : Live(t) # {} \/ t \in todo => limits'[t] = limits[t]
  BY DEF AtRest
<1>3. \A id \in Ids : registry[id] # NoReplica => limits'[registry[id].svc] = limits[registry[id].svc]
  <2> SUFFICES ASSUME NEW id \in Ids, registry[id] # NoReplica
               PROVE  limits'[registry[id].svc] = limits[registry[id].svc]
    OBVIOUS
  <2>1. registry[id].svc \in Services BY <1>0 DEF MemInv, Replicas
  <2>2. id \in Live(registry[id].svc) BY DEF Live
  <2> QED BY <1>2, <2>1, <2>2
<1>4. \/ UNCHANGED <<todo, snap>>
      \/ /\ pc = "pick" /\ todo' \subseteq Managed /\ UNCHANGED limits
         /\ snap' = [s \in Services |-> IF s \in todo' THEN Resolve(s) ELSE NoService]
  <2>1. op = "free" => pc = "pick" BY <1>0 DEF CtlInv
  <2>2. ASSUME NEW o, NEW S \in SUBSET Managed, Begin(o, S)
        PROVE  /\ pc = "pick" /\ todo' \subseteq Managed /\ UNCHANGED limits
               /\ snap' = [s \in Services |-> IF s \in todo' THEN Resolve(s) ELSE NoService]
    BY <2>1, <2>2 DEF Begin, dbVars
  <2>3. CASE TickAll BY <2>2, <2>3 DEF TickAll
  <2>4. CASE Finish \/ UNCHANGED vars BY <2>4 DEF Finish, vars, ctlVars
  <2>5. ASSUME NEW s \in Services,
               \/ \E d \in Deployments : Promote(s, d)
               \/ \E lim \in Limits[s], pol \in Policies[s] : PutService(s, lim, pol)
               \/ StopRoutesOnly(s)
        PROVE  UNCHANGED <<todo, snap>>
    BY <2>5 DEF Promote, PutService, StopRoutesOnly, ctlVars
  <2>6. ASSUME NEW s \in Services, Activate(s) \/ ReconcileService(s) \/ DrainAll(s)
        PROVE  \E o : \E S \in SUBSET Managed : Begin(o, S)
    BY <2>6 DEF Activate, ReconcileService, DrainAll
  <2>7. CASE Env BY <2>2, <2>5, <2>6, <2>7 DEF Env
  <2> QED BY <2>3, <2>4, <2>7
<1>5. \A t \in todo' : snap'[t].lim = limits'[t]
  <2>1. CASE UNCHANGED <<todo, snap>>
    BY <1>0, <1>2, <2>1 DEF ExactInv, CtlInv
  <2>2. CASE ~UNCHANGED <<todo, snap>>
    BY <1>4, <2>2 DEF Resolve, Managed
  <2> QED BY <2>1, <2>2
<1>6. \A r \in Resources : HeldUnits(r)' = HeldUnits(r) /\ InFlight(r)' = InFlight(r)
  BY <1>1, <1>4 DEF HeldUnits, InFlight
<1>7. LedgerExact' BY <1>1, <1>6 DEF ExactInv, LedgerExact
<1> QED BY <1>1, <1>3, <1>4, <1>5, <1>7 DEF ExactInv

(* An empty registry holds nothing. *)
LEMMA EmptyExact ==
  ASSUME registry = [id \in Ids |-> NoReplica], committed = [r \in Resources |-> 0],
         pc = "pick"
  PROVE  LedgerExact
<1>1. \A r \in Resources : HeldUnits(r) = {} BY DEF HeldUnits
<1>2. \A r \in Resources : Cardinality(HeldUnits(r)) = 0 BY <1>1, FS_EmptySet
<1> QED BY <1>2 DEF LedgerExact, InFlight

LEMMA RebootExact ==
  ASSUME Reboot
  PROVE  ExactInv'
<1>1. \A r \in Resources : HeldUnits(r)' = {} BY DEF HeldUnits, Reboot
<1>2. \A r \in Resources : Cardinality(HeldUnits(r)') = 0 BY <1>1, FS_EmptySet
<1>3. LedgerExact' BY <1>2 DEF LedgerExact, InFlight, Reboot
<1> QED BY <1>3 DEF ExactInv, Reboot, Resolve, Managed, dbVars

(* As long as limits are edited only at rest, for every policy, load and    *)
(* failure of a launch, and across restarts: what the ledger has committed  *)
(* is exactly what the live replicas and the launch in flight reserved      *)
(* (launch_replica and drain_replica in lifecycle.rs).                      *)
THEOREM LedgerAlwaysExact == Spec /\ EditsAtRest => []LedgerExact
<1>1. Init => ExactInv
  BY EmptyExact DEF Init, ExactInv
<1>2. IndInv /\ ExactInv /\ [Next]_vars /\ [AtRest]_vars => ExactInv'
  <2> SUFFICES ASSUME IndInv, ExactInv, [Next]_vars, [AtRest]_vars PROVE ExactInv'
    OBVIOUS
  <2>1. AtRest BY DEF AtRest, vars, dbVars
  <2>2. CASE Env \/ TickAll \/ Finish \/ UNCHANGED vars BY <2>1, <2>2, OutsideExact
  <2>3. CASE Work
    <3>1. CASE IngressTold
      <4>1. UNCHANGED <<registry, committed, ctlVars, limits>>
        BY <2>3, <3>1 DEF IngressTold, Work, dbVars
      <4> QED BY <4>1 DEF ExactInv, LedgerExact, HeldUnits, InFlight, ctlVars
    <3> QED BY <2>3, <3>1, DecideExact, StepExact DEF Work, dbVars
  <2>4. CASE Reboot BY <2>4, RebootExact
  <2> QED BY <2>2, <2>3, <2>4 DEF Next
<1>3. Spec => []IndInv BY KeepAlways, PTL
<1>4. ExactInv => LedgerExact BY DEF ExactInv
<1> QED BY <1>1, <1>2, <1>3, <1>4, PTL DEF Spec, EditsAtRest

(* Then nothing leaks: with the lock free every registered replica is      *)
(* Healthy and the ledger holds exactly their budgets (the undo steps of   *)
(* launch_replica).  A dropped activation breaks it: nothing is undone.    *)
THEOREM NothingEverLeaks == Spec /\ EditsAtRest => []NothingLeaks
<1>1. Spec => []IndInv /\ []KeepInv BY KeepAlways
<1>2. IndInv /\ KeepInv /\ LedgerExact => NothingLeaks
  BY DEF IndInv, CtlInv, KeepInv, Busied, NothingLeaks, Registered
<1> QED BY <1>1, <1>2, LedgerAlwaysExact, PTL
=============================================================================
