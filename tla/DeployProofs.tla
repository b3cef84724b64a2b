---------------------------- MODULE DeployProofs ----------------------------
(***************************************************************************)
(* What Deploy guarantees for every set of services and deployments, any   *)
(* number of restarts and any overlap of operations.                       *)
(***************************************************************************)
EXTENDS Deploy, TLAPS

(* The initial states satisfy the inductive invariant. *)
LEMMA InitInv == Init => DeployInv
  BY DeployAssumption DEF Init, DeployInv, TypeOK, PromotedIsUsable, None, Statuses,
     Pipes, DepOrNone, Started

(* A step of a deployment's task preserves the inductive invariant. *)
LEMMA TaskInv ==
  ASSUME DeployInv, NEW d \in Deployments, CreateDeployment(d) \/ Task(d)
  PROVE  DeployInv'
  <1> USE DeployAssumption DEF DeployInv, TypeOK, PromotedIsUsable, Statuses, Pipes,
        DepOrNone, Started, Goto, SetStatus, rowVars, procVars, netVars, stopVars, bootVars
  <1>1. CASE CreateDeployment(d) BY <1>1 DEF CreateDeployment
  <1>2. CASE Build(d) BY <1>2 DEF Build
  <1>3. CASE AcquireOk(d) BY <1>3 DEF AcquireOk
  <1>4. CASE AcquireFail(d)
    <2>1. /\ pipe[d] = "building" /\ pipe' = [pipe EXCEPT ![d] = "idle"]
          /\ status' \in {status, [status EXCEPT ![d] = "Failed"]}
          /\ UNCHANGED <<promoted, art, verified, procVars, endpoint, netVars, stopVars, bootVars>>
      BY <1>4 DEF AcquireFail, FailTask
    <2>2. TypeOK' BY <2>1
    <2> QED BY <2>1, <2>2
  <1>5. CASE StartOk(d) BY <1>5 DEF StartOk
  <1>6. CASE StartFail(d) BY <1>6 DEF StartFail, FailTask
  <1>7. CASE Promote(d) BY <1>7 DEF Promote, Promoting, Demoted, Plain
  <1>8. CASE ProbeFail(d) BY <1>8 DEF ProbeFail
  <1>9. CASE AddReplica(d) BY <1>9 DEF AddReplica
  <1>10. CASE WriteRoutes(d) BY <1>10 DEF WriteRoutes
  <1>11. CASE RoutesFail(d) BY <1>11 DEF RoutesFail, FailTask
  <1>12. CASE SwapRoutes(d) BY <1>12 DEF SwapRoutes
  <1>13. CASE Finish(d) BY <1>13 DEF Finish
  <1>14. CASE UndoStop(d) BY <1>14 DEF UndoStop
  <1>15. CASE UndoPool(d) BY <1>15 DEF UndoPool, FailTask
  <1> QED BY <1>1, <1>2, <1>3, <1>4, <1>5, <1>6, <1>7, <1>8, <1>9, <1>10, <1>11,
             <1>12, <1>13, <1>14, <1>15 DEF Task

(* A step of a stop request, of a domain change, of a restart at boot or   *)
(* of a workload that exits preserves the inductive invariant.             *)
LEMMA ServiceInv ==
  ASSUME DeployInv, NEW s \in Services,
         StopRequest(s) \/ ChangeDomain(s) \/ ApplyRoutes(s) \/ RestartPromoted(s)
           \/ ChildExits(s)
  PROVE  DeployInv'
  <1> USE DeployAssumption DEF DeployInv, TypeOK, PromotedIsUsable, Statuses, Pipes,
        DepOrNone, Started, Goto, SetStatus, rowVars, procVars, netVars, stopVars, bootVars
  <1>1. CASE StopBegin(s) BY <1>1 DEF StopBegin
  <1>2. CASE StopRuntime(s)
    <2>1. /\ child' \in [Services -> DepOrNone] /\ kept' \subseteq Services
          /\ \/ stop' = [stop EXCEPT ![s] = "pool"] /\ seen' = seen
             \/ stop' = [stop EXCEPT ![s] = "idle"] /\ seen' = [seen EXCEPT ![s] = NoDep]
          /\ UNCHANGED <<status, promoted, art, verified, endpoint, netVars, pipe, bootVars>>
      BY <1>2 DEF StopRuntime
    <2> QED BY <2>1
  <1>3. CASE StopPool(s) BY <1>3 DEF StopPool
  <1>4. CASE StopRoutes(s) BY <1>4 DEF StopRoutes
  <1>5. CASE StopSwap(s) BY <1>5 DEF StopSwap
  <1>6. CASE StopMark(s)
    <2>1. /\ UNCHANGED <<promoted, art, pipe, seen, child, kept, endpoint, verified, snapshot, live,
                       table, stopTable, autostart, apply, up, crashes>>
          /\ \/ stop' = [stop EXCEPT ![s] = "idle"]
             \/ stop' = [stop EXCEPT ![s] = "clear"]
      BY <1>6 DEF StopMark
    <2>2. /\ status' \in [Deployments -> Statuses]
          /\ \A d \in Deployments : status[d] \in Started => status'[d] \in Started
          /\ \A d \in Deployments : status'[d] # status[d] => status[d] \in Started
      BY <1>6 DEF StopMark
    <2>3. TypeOK' BY <2>1, <2>2
    <2> QED BY <2>1, <2>2, <2>3
  <1>7. CASE StopClear(s) BY <1>7 DEF StopClear
  <1>8. CASE ChangeDomain(s) BY <1>8 DEF ChangeDomain
  <1>9. CASE ApplyRoutes(s) BY <1>9 DEF ApplyRoutes
  <1>10. CASE RestartPromoted(s) BY <1>10 DEF RestartPromoted
  <1>11. CASE ChildExits(s) BY <1>11 DEF ChildExits
  <1> QED BY <1>1, <1>2, <1>3, <1>4, <1>5, <1>6, <1>7, <1>8, <1>9, <1>10, <1>11
          DEF StopRequest

(* A restart of the daemon preserves the inductive invariant. *)
LEMMA BootInv ==
  ASSUME DeployInv, Reboot \/ RebuildRoutes
  PROVE  DeployInv'
  <1> USE DeployAssumption DEF DeployInv, TypeOK, PromotedIsUsable, Statuses, Pipes,
        DepOrNone, Started, rowVars, procVars, netVars, stopVars, bootVars
  <1>1. CASE Reboot
    <2>1. /\ UNCHANGED <<promoted, art, verified>>
          /\ crashes' = crashes + 1 /\ crashes < MaxCrashes
          /\ seen' = None /\ child' = None /\ kept' = {} /\ endpoint' = None
          /\ pipe' = [d \in Deployments |-> "idle"]
          /\ stop' = [s \in Services |-> "idle"]
          /\ table' = [d \in Deployments |-> {}]
          /\ stopTable' = [s \in Services |-> {}]
          /\ snapshot' = {} /\ live' = {} /\ apply' = {} /\ up' = FALSE
          /\ autostart' \subseteq Services
      BY <1>1 DEF Reboot
    <2>2. PICK cut \in {{}} \cup {Demoted(d) : d \in {e \in Deployments : Promoting(e)}} :
            status' = [d \in Deployments |->
              IF d \in cut THEN "Inactive"
              ELSE IF status[d] \in {"Pending", "Building", "Starting"} THEN "Failed"
              ELSE status[d]]
      BY <1>1 DEF Reboot
    <2>3. /\ status' \in [Deployments -> Statuses]
          /\ \A d \in Deployments : status[d] \in Started => status'[d] \in Started
      BY <2>2
    <2>4. /\ None \in [Services -> DepOrNone]
          /\ [d \in Deployments |-> "idle"] \in [Deployments -> Pipes]
          /\ [d \in Deployments |-> {}] \in [Deployments -> SUBSET Services]
          /\ [s \in Services |-> {}] \in [Services -> SUBSET Services]
          /\ crashes + 1 \in 0 .. MaxCrashes
      BY <2>1 DEF None
    <2>5. TypeOK' BY <2>1, <2>3, <2>4
    <2>6. PromotedIsUsable' BY <2>1, <2>3
    <2> QED BY <2>1, <2>3, <2>5, <2>6 DEF None
  <1>2. CASE RebuildRoutes BY <1>2 DEF RebuildRoutes
  <1> QED BY <1>1, <1>2

(* The inductive invariant holds in every reachable state: the rows, the   *)
(* tasks and the stop requests stay consistent however they interleave and *)
(* wherever a crash falls.                                                 *)
THEOREM DeployInvariant == Spec => []DeployInv
  <1>1. DeployInv /\ [Next]_vars => DeployInv'
    <2> SUFFICES ASSUME DeployInv, [Next]_vars PROVE DeployInv'
      OBVIOUS
    <2>1. CASE UNCHANGED vars
      BY <2>1 DEF vars, rowVars, procVars, netVars, stopVars, bootVars, DeployInv, TypeOK,
         PromotedIsUsable
    <2>2. CASE Next BY <2>2, TaskInv, ServiceInv, BootInv DEF Next
    <2> QED BY <2>1, <2>2
  <1> QED BY InitInv, <1>1, PTL DEF Spec

(* The promoted row always names a deployment of its service that was      *)
(* started and has an artifact.                                            *)
THEOREM PromotedUsable == Spec => []PromotedIsUsable
  BY DeployInvariant, PTL DEF DeployInv

-----------------------------------------------------------------------------
(* The inductive invariant behind HealthyIsPromoted when the operations of *)
(* a service do not overlap: each service has one operation at a time, a   *)
(* stop works on the row it read, and a task past its promotion is that of *)
(* the promoted row.                                                       *)
Wired == {"promoted", "routing", "swap", "finish"}
SerialInv ==
  /\ \A d, e \in Deployments :
       pipe[d] # "idle" /\ pipe[e] # "idle" /\ SvcOf[d] = SvcOf[e] => d = e
  /\ \A d \in Deployments : pipe[d] # "idle" => stop[SvcOf[d]] = "idle"
  /\ \A s \in Services : stop[s] # "idle" => up /\ seen[s] = promoted[s]
  /\ \A s \in Services : stop[s] = "clear" => seen[s] # NoDep /\ status[seen[s]] = "Stopped"
  /\ \A d \in Deployments : pipe[d] \in Wired => promoted[SvcOf[d]] = d
  /\ HealthyIsPromoted

(* Steps of tasks preserve it. *)
LEMMA TaskSerial ==
  ASSUME ~Overlap, DeployInv, SerialInv, NEW d \in Deployments,
         CreateDeployment(d) \/ Task(d)
  PROVE  SerialInv'
  <1> USE DeployAssumption DEF DeployInv, TypeOK, PromotedIsUsable, SerialInv,
        HealthyIsPromoted, Wired, DepOrNone, Goto, SetStatus, rowVars, procVars, netVars, stopVars, bootVars
  <1>1. CASE CreateDeployment(d)
    BY <1>1 DEF CreateDeployment, Admit, Busy, Active
  <1>2. CASE Build(d) BY <1>2 DEF Build
  <1>3. CASE AcquireOk(d) BY <1>3 DEF AcquireOk
  <1>4. CASE AcquireFail(d) BY <1>4 DEF AcquireFail, FailTask
  <1>5. CASE StartOk(d) BY <1>5 DEF StartOk
  <1>6. CASE StartFail(d) BY <1>6 DEF StartFail, FailTask
  <1>7. CASE Promote(d) BY <1>7 DEF Promote, Promoting, Demoted, Plain
  <1>8. CASE ProbeFail(d) BY <1>8 DEF ProbeFail
  <1>9. CASE AddReplica(d) BY <1>9 DEF AddReplica
  <1>10. CASE WriteRoutes(d) BY <1>10 DEF WriteRoutes
  <1>11. CASE RoutesFail(d) BY <1>11 DEF RoutesFail, FailTask
  <1>12. CASE SwapRoutes(d) BY <1>12 DEF SwapRoutes
  <1>13. CASE Finish(d) BY <1>13 DEF Finish
  <1>14. CASE UndoStop(d) BY <1>14 DEF UndoStop
  <1>15. CASE UndoPool(d) BY <1>15 DEF UndoPool, FailTask
  <1> QED BY <1>1, <1>2, <1>3, <1>4, <1>5, <1>6, <1>7, <1>8, <1>9, <1>10, <1>11,
             <1>12, <1>13, <1>14, <1>15 DEF Task

(* Steps of stop requests, domain changes and restarts preserve it. *)
LEMMA ServiceSerial ==
  ASSUME ~Overlap, DeployInv, SerialInv, NEW s \in Services,
         StopRequest(s) \/ ChangeDomain(s) \/ ApplyRoutes(s) \/ RestartPromoted(s)
           \/ ChildExits(s)
  PROVE  SerialInv'
  <1> USE DeployAssumption DEF DeployInv, TypeOK, PromotedIsUsable, SerialInv,
        HealthyIsPromoted, Wired, DepOrNone, Goto, SetStatus, rowVars, procVars, netVars, stopVars, bootVars
  <1>1. CASE StopBegin(s) BY <1>1 DEF StopBegin, Admit, Busy, Active
  <1>2. CASE StopRuntime(s) BY <1>2 DEF StopRuntime
  <1>3. CASE StopPool(s) BY <1>3 DEF StopPool
  <1>4. CASE StopRoutes(s) BY <1>4 DEF StopRoutes
  <1>5. CASE StopSwap(s) BY <1>5 DEF StopSwap
  <1>6. CASE StopMark(s) BY <1>6 DEF StopMark
  <1>7. CASE StopClear(s) BY <1>7 DEF StopClear
  <1>8. CASE ChangeDomain(s) BY <1>8 DEF ChangeDomain
  <1>9. CASE ApplyRoutes(s) BY <1>9 DEF ApplyRoutes
  <1>10. CASE RestartPromoted(s) BY <1>10 DEF RestartPromoted, Active
  <1>11. CASE ChildExits(s) BY <1>11 DEF ChildExits
  <1> QED BY <1>1, <1>2, <1>3, <1>4, <1>5, <1>6, <1>7, <1>8, <1>9, <1>10, <1>11
          DEF StopRequest

(* Restarts of the daemon preserve it, whichever promotion they cut. *)
LEMMA BootSerial ==
  ASSUME DeployInv, SerialInv, Reboot \/ RebuildRoutes
  PROVE  SerialInv'
  <1>1. CASE Reboot
    <2>1. /\ promoted' = promoted
          /\ pipe' = [d \in Deployments |-> "idle"]
          /\ stop' = [s \in Services |-> "idle"]
      BY <1>1 DEF Reboot
    <2>2. PICK cut \in {{}} \cup {Demoted(d) : d \in {e \in Deployments : Promoting(e)}} :
            status' = [d \in Deployments |->
              IF d \in cut THEN "Inactive"
              ELSE IF status[d] \in {"Pending", "Building", "Starting"} THEN "Failed"
              ELSE status[d]]
      BY <1>1 DEF Reboot
    <2>3. \A d \in Deployments : status'[d] = "Healthy" => status[d] = "Healthy"
      BY <2>2
    <2> QED BY <2>1, <2>3, DeployAssumption DEF SerialInv, HealthyIsPromoted, Wired
  <1>2. CASE RebuildRoutes
    BY <1>2, DeployAssumption DEF RebuildRoutes, SerialInv, HealthyIsPromoted, Wired,
       rowVars, stopVars
  <1> QED BY <1>1, <1>2

(* It holds in every reachable state when operations on a service do not   *)
(* overlap.                                                                *)
THEOREM SerialInvariant == ASSUME ~Overlap PROVE Spec => []SerialInv
  <1>1. Init => SerialInv
    BY DeployAssumption DEF Init, SerialInv, HealthyIsPromoted, Wired
  <1>2. DeployInv /\ SerialInv /\ [Next]_vars => SerialInv'
    <2> SUFFICES ASSUME DeployInv, SerialInv, [Next]_vars PROVE SerialInv'
      OBVIOUS
    <2>1. CASE UNCHANGED vars
      BY <2>1 DEF vars, rowVars, procVars, netVars, stopVars, bootVars, SerialInv,
         HealthyIsPromoted
    <2>2. CASE Next BY <2>2, TaskSerial, ServiceSerial, BootSerial DEF Next
    <2> QED BY <2>1, <2>2
  <1> QED BY <1>1, <1>2, DeployInvariant, PTL DEF Spec

(* When no two operations on a service overlap, a row that says Healthy is *)
(* the promoted one, across failures, stops, restarts and crashes.         *)
THEOREM HealthyPromoted == ASSUME ~Overlap PROVE Spec => []HealthyIsPromoted
  BY SerialInvariant, PTL DEF SerialInv

-----------------------------------------------------------------------------
(* The stages of a task that may have a process or an endpoint which is    *)
(* not that of the promoted row, and whether a task of s is in one of ps.  *)
Holding == {"probing", "promoted", "undo_stop", "undo_pool"}
TaskOf(s, ps) == \E d \in Deployments : SvcOf[d] = s /\ pipe[d] \in ps

(* The inductive invariant behind QuiescentIsWired: only a task between    *)
(* its start and its promotion, or undoing itself, or a compensation whose *)
(* stop failed, keeps a process that is not dialled or an endpoint that is *)
(* not promoted; a stop has given up the process, then the endpoint, then  *)
(* the route entry, in that order, before the promoted row goes.           *)
WireInv ==
  /\ \A s \in Services :
       /\ s \in Autoscaled => child[s] = NoDep /\ endpoint[s] = NoDep
       /\ s \in kept => s \notin Autoscaled
       /\ s \in kept /\ ~TaskOf(s, {"undo_pool"}) => endpoint[s] = NoDep
       /\ s \in snapshot => promoted[s] # NoDep
       /\ stop[s] \in {"swap", "mark", "clear"} => s \notin snapshot
       /\ stop[s] \in {"pool", "routes", "swap", "mark", "clear"} => child[s] = NoDep
       /\ stop[s] \in {"routes", "swap", "mark", "clear"} => endpoint[s] = NoDep
       /\ ~TaskOf(s, Holding \ {"probing"}) => endpoint[s] \in {NoDep, promoted[s]}
       /\ s \notin kept /\ ~TaskOf(s, Holding) => child[s] \in {NoDep, endpoint[s]}
  /\ \A d \in Deployments :
       /\ pipe[d] \in Holding => SvcOf[d] \notin Autoscaled
       /\ pipe[d] \in {"probing", "promoted"} => child[SvcOf[d]] \in {NoDep, d}
       /\ pipe[d] = "undo_pool" => child[SvcOf[d]] = NoDep \/ SvcOf[d] \in kept
       /\ pipe[d] \in Wired \cup {"probing", "undo_stop"} => SvcOf[d] \notin kept

(* Steps of tasks preserve it. *)
LEMMA TaskWired ==
  ASSUME ~Overlap, DeployInv, SerialInv, WireInv, NEW d \in Deployments,
         CreateDeployment(d) \/ Task(d)
  PROVE  WireInv'
  <1> USE DeployAssumption DEF WireInv, TaskOf, Holding, SerialInv, Wired, DeployInv, TypeOK,
        PromotedIsUsable, DepOrNone, Pipes, Goto, SetStatus, rowVars, procVars, netVars, stopVars, bootVars
  <1>1. CASE CreateDeployment(d) BY <1>1 DEF CreateDeployment, Admit, Busy, Active
  <1>2. CASE Build(d) BY <1>2 DEF Build
  <1>3. CASE AcquireOk(d) BY <1>3 DEF AcquireOk
  <1>4. CASE AcquireFail(d) BY <1>4 DEF AcquireFail, FailTask
  <1>5. CASE StartOk(d) BY <1>5 DEF StartOk, Plain
  <1>6. CASE StartFail(d) BY <1>6 DEF StartFail, FailTask
  <1>7. CASE Promote(d) BY <1>7 DEF Promote, Promoting, Demoted, Plain
  <1>8. CASE ProbeFail(d) BY <1>8 DEF ProbeFail
  <1>9. CASE AddReplica(d) BY <1>9 DEF AddReplica
  <1>10. CASE WriteRoutes(d)
    <2>1. /\ pipe[d] = "routing" /\ pipe'[d] \in {"swap", "finish"}
          /\ \A e \in Deployments : e # d => pipe'[e] = pipe[e]
          /\ snapshot' \subseteq snapshot \cup {SvcOf[d]}
          /\ UNCHANGED <<promoted, child, kept, endpoint, stop>>
      BY <1>10 DEF WriteRoutes
    <2>2. \A t \in Services, ps \in {Holding, Holding \ {"probing"}, {"undo_pool"}} :
            TaskOf(t, ps) => TaskOf(t, ps)'
      BY <2>1
    <2> QED BY <2>1, <2>2
  <1>11. CASE RoutesFail(d) BY <1>11 DEF RoutesFail, FailTask, Plain
  <1>12. CASE SwapRoutes(d) BY <1>12 DEF SwapRoutes
  <1>13. CASE Finish(d) BY <1>13 DEF Finish
  <1>14. CASE UndoStop(d) BY <1>14 DEF UndoStop
  <1>15. CASE UndoPool(d) BY <1>15 DEF UndoPool, FailTask
  <1> QED BY <1>1, <1>2, <1>3, <1>4, <1>5, <1>6, <1>7, <1>8, <1>9, <1>10, <1>11,
             <1>12, <1>13, <1>14, <1>15 DEF Task

(* Steps of stop requests, domain changes, restarts and exits preserve it. *)
LEMMA ServiceWired ==
  ASSUME ~Overlap, DeployInv, SerialInv, WireInv, NEW s \in Services,
         StopRequest(s) \/ ChangeDomain(s) \/ ApplyRoutes(s) \/ RestartPromoted(s)
           \/ ChildExits(s)
  PROVE  WireInv'
  <1> USE DeployAssumption DEF WireInv, TaskOf, Holding, SerialInv, Wired, DeployInv, TypeOK,
        PromotedIsUsable, DepOrNone, Pipes, Goto, SetStatus, rowVars, procVars, netVars, stopVars, bootVars
  <1>1. CASE StopBegin(s) BY <1>1 DEF StopBegin, Admit, Busy, Active
  <1>2. CASE StopRuntime(s) BY <1>2 DEF StopRuntime
  <1>3. CASE StopPool(s) BY <1>3 DEF StopPool
  <1>4. CASE StopRoutes(s) BY <1>4 DEF StopRoutes
  <1>5. CASE StopSwap(s) BY <1>5 DEF StopSwap
  <1>6. CASE StopMark(s) BY <1>6 DEF StopMark
  <1>7. CASE StopClear(s) BY <1>7 DEF StopClear
  <1>8. CASE ChangeDomain(s) BY <1>8 DEF ChangeDomain
  <1>9. CASE ApplyRoutes(s) BY <1>9 DEF ApplyRoutes
  <1>10. CASE RestartPromoted(s) BY <1>10 DEF RestartPromoted, Active
  <1>11. CASE ChildExits(s) BY <1>11 DEF ChildExits
  <1> QED BY <1>1, <1>2, <1>3, <1>4, <1>5, <1>6, <1>7, <1>8, <1>9, <1>10, <1>11
          DEF StopRequest

(* Restarts of the daemon preserve it: nothing survives one but the rows.  *)
LEMMA BootWired ==
  ASSUME DeployInv, SerialInv, WireInv, Reboot \/ RebuildRoutes
  PROVE  WireInv'
  <1> USE DeployAssumption DEF WireInv, TaskOf, Holding, Wired
  <1>1. CASE Reboot
    <2>1. /\ promoted' = promoted /\ child' = None /\ kept' = {} /\ endpoint' = None
          /\ snapshot' = {}
          /\ pipe' = [d \in Deployments |-> "idle"]
          /\ stop' = [s \in Services |-> "idle"]
      BY <1>1 DEF Reboot
    <2> QED BY <2>1 DEF None
  <1>2. CASE RebuildRoutes
    <2>1. \A s \in Services : stop[s] = "idle"
      BY <1>2 DEF RebuildRoutes, SerialInv
    <2> QED BY <1>2, <2>1 DEF RebuildRoutes, rowVars, procVars, stopVars
  <1> QED BY <1>1, <1>2

(* When no two operations on a service overlap, a service nothing is being *)
(* done to tracks at most the process of its promoted deployment, which    *)
(* the ingress dials, and only a promoted service has a route entry: the   *)
(* one process a failed deploy can leave is the one whose compensating     *)
(* stop failed, and it is not dialled, across crashes and exits.           *)
THEOREM QuiescentWired == ASSUME ~Overlap PROVE Spec => []QuiescentIsWired
  <1>1. Init => WireInv
    BY DeployAssumption DEF Init, WireInv, TaskOf, Holding, None
  <1>2. DeployInv /\ SerialInv /\ WireInv /\ [Next]_vars => WireInv'
    <2> SUFFICES ASSUME DeployInv, SerialInv, WireInv, [Next]_vars PROVE WireInv'
      OBVIOUS
    <2>1. CASE UNCHANGED vars
      BY <2>1 DEF vars, rowVars, procVars, netVars, stopVars, bootVars, WireInv, TaskOf
    <2>2. CASE Next BY <2>2, TaskWired, ServiceWired, BootWired DEF Next
    <2> QED BY <2>1, <2>2
  <1>3. WireInv => QuiescentIsWired
    BY DeployAssumption DEF WireInv, QuiescentIsWired, Busy, Active, TaskOf, Holding
  <1> QED BY <1>1, <1>2, <1>3, DeployInvariant, SerialInvariant, PTL DEF Spec

-----------------------------------------------------------------------------
(* The inductive invariant behind BootRoutesPromoted: while the daemon      *)
(* boots nobody stops a service or changes a domain, and what is routed so *)
(* far is verified and promoted.                                           *)
BootingInv ==
  ~up => /\ \A s \in Services : stop[s] = "idle"
         /\ apply = {}
         /\ \A s \in snapshot : s \in verified /\ promoted[s] # NoDep
         /\ \A d \in Deployments : pipe[d] \in Wired => promoted[SvcOf[d]] # NoDep
(* The step of BootRoutesPromoted. *)
Rebuilt == ~up /\ up' => live' = {s \in verified : promoted[s] # NoDep}

(* Steps of tasks preserve it. *)
LEMMA TaskBooting ==
  ASSUME DeployInv, BootingInv, NEW d \in Deployments, CreateDeployment(d) \/ Task(d)
  PROVE  BootingInv' /\ Rebuilt
  <1> USE DeployAssumption DEF BootingInv, Rebuilt, Wired, DeployInv, TypeOK, Goto, SetStatus,
        rowVars, procVars, netVars, stopVars, bootVars
  <1>1. CASE CreateDeployment(d) BY <1>1 DEF CreateDeployment, Admit
  <1>2. CASE Build(d) BY <1>2 DEF Build
  <1>3. CASE AcquireOk(d) BY <1>3 DEF AcquireOk
  <1>4. CASE AcquireFail(d) BY <1>4 DEF AcquireFail, FailTask
  <1>5. CASE StartOk(d) BY <1>5 DEF StartOk
  <1>6. CASE StartFail(d) BY <1>6 DEF StartFail, FailTask
  <1>7. CASE Promote(d) BY <1>7 DEF Promote
  <1>8. CASE ProbeFail(d) BY <1>8 DEF ProbeFail
  <1>9. CASE AddReplica(d) BY <1>9 DEF AddReplica
  <1>10. CASE WriteRoutes(d) BY <1>10 DEF WriteRoutes
  <1>11. CASE RoutesFail(d) BY <1>11 DEF RoutesFail, FailTask
  <1>12. CASE SwapRoutes(d) BY <1>12 DEF SwapRoutes
  <1>13. CASE Finish(d) BY <1>13 DEF Finish
  <1>14. CASE UndoStop(d) BY <1>14 DEF UndoStop
  <1>15. CASE UndoPool(d) BY <1>15 DEF UndoPool, FailTask
  <1> QED BY <1>1, <1>2, <1>3, <1>4, <1>5, <1>6, <1>7, <1>8, <1>9, <1>10, <1>11,
             <1>12, <1>13, <1>14, <1>15 DEF Task

(* Steps of stop requests, domain changes, restarts and exits preserve it. *)
LEMMA ServiceBooting ==
  ASSUME DeployInv, BootingInv, NEW s \in Services,
         StopRequest(s) \/ ChangeDomain(s) \/ ApplyRoutes(s) \/ RestartPromoted(s)
           \/ ChildExits(s)
  PROVE  BootingInv' /\ Rebuilt
  <1> USE DeployAssumption DEF BootingInv, Rebuilt, Wired, DeployInv, TypeOK, Goto, SetStatus,
        PromotedIsUsable, rowVars, procVars, netVars, stopVars, bootVars
  <1>1. CASE StopRequest(s)
    <2>1. up /\ up' = up
      BY <1>1 DEF StopRequest, StopBegin, StopRuntime, StopPool, StopRoutes, StopSwap, StopMark,
         StopClear, Admit
    <2> QED BY <2>1
  <1>2. CASE ChangeDomain(s) BY <1>2 DEF ChangeDomain
  <1>3. CASE ApplyRoutes(s) BY <1>3 DEF ApplyRoutes
  <1>4. CASE RestartPromoted(s) BY <1>4 DEF RestartPromoted
  <1>5. CASE ChildExits(s) BY <1>5 DEF ChildExits
  <1> QED BY <1>1, <1>2, <1>3, <1>4, <1>5

(* A restart of the daemon establishes it, and the end of boot rebuilds the *)
(* route table.                                                            *)
LEMMA BootBooting ==
  ASSUME DeployInv, BootingInv, Reboot \/ RebuildRoutes
  PROVE  BootingInv' /\ Rebuilt
  <1> USE DEF BootingInv, Rebuilt, Wired
  <1>1. CASE Reboot BY <1>1 DEF Reboot
  <1>2. CASE RebuildRoutes
    BY <1>2 DEF RebuildRoutes, DeployInv, TypeOK
  <1> QED BY <1>1, <1>2

(* Boot ends with exactly the verified services that should run routed,    *)
(* whatever overlapped before the crash and whichever restart fails        *)
(* (rebuild_routes_on_boot).                                               *)
THEOREM BootRoutesAllPromoted == Spec => BootRoutesPromoted
  <1>1. Init => BootingInv BY DEF Init, BootingInv
  <1>2. DeployInv /\ BootingInv /\ [Next]_vars => BootingInv' /\ [Rebuilt]_vars
    <2> SUFFICES ASSUME DeployInv, BootingInv, [Next]_vars PROVE BootingInv' /\ [Rebuilt]_vars
      OBVIOUS
    <2>1. CASE UNCHANGED vars
      BY <2>1 DEF vars, rowVars, procVars, netVars, stopVars, bootVars, BootingInv
    <2>2. CASE Next BY <2>2, TaskBooting, ServiceBooting, BootBooting DEF Next
    <2> QED BY <2>1, <2>2
  <1> QED BY <1>1, <1>2, DeployInvariant, PTL DEF Spec, BootRoutesPromoted, Rebuilt
-----------------------------------------------------------------------------
(* The inductive invariant behind KeepsHistory: while the daemon serves, a *)
(* task at work has a row in progress, and a row in progress without one   *)
(* is still Pending; while it boots no row is in progress, and what is at  *)
(* work is the restart of a promoted deployment.                           *)
OpenInv ==
  \A d \in Deployments :
    /\ up /\ pipe[d] # "idle" => status[d] \in InProgress
    /\ ~up /\ pipe[d] # "idle" => promoted[SvcOf[d]] = d
    /\ ~up => status[d] \notin InProgress
    /\ status[d] \in InProgress /\ pipe[d] = "idle" => status[d] = "Pending"

(* A step of a task, and the acceptance of a deployment, preserve it. *)
LEMMA TaskOpen ==
  ASSUME ~Overlap, DeployInv, SerialInv, OpenInv, NEW d \in Deployments,
         CreateDeployment(d) \/ Task(d)
  PROVE  OpenInv'
  <1> USE DeployAssumption DEF OpenInv, InProgress, DeployInv, TypeOK, SerialInv, DepOrNone,
        Goto, SetStatus, rowVars, procVars, netVars, stopVars, bootVars
  <1>1. CASE CreateDeployment(d) BY <1>1 DEF CreateDeployment, Admit
  <1>2. CASE Build(d) BY <1>2 DEF Build
  <1>3. CASE AcquireOk(d) BY <1>3 DEF AcquireOk
  <1>4. CASE AcquireFail(d) BY <1>4 DEF AcquireFail, FailTask
  <1>5. CASE StartOk(d) BY <1>5 DEF StartOk
  <1>6. CASE StartFail(d) BY <1>6 DEF StartFail, FailTask
  <1>7. CASE Promote(d)
    <2>1. \A e \in Deployments : e \in Demoted(d) => pipe[e] = "idle"
      BY <1>7 DEF Promote, Promoting, Demoted, PromotedIsUsable
    <2> QED BY <1>7, <2>1 DEF Promote, Promoting, Demoted
  <1>8. CASE ProbeFail(d) BY <1>8 DEF ProbeFail
  <1>9. CASE AddReplica(d) BY <1>9 DEF AddReplica
  <1>10. CASE WriteRoutes(d) BY <1>10 DEF WriteRoutes
  <1>11. CASE RoutesFail(d) BY <1>11 DEF RoutesFail, FailTask
  <1>12. CASE SwapRoutes(d) BY <1>12 DEF SwapRoutes
  <1>13. CASE Finish(d) BY <1>13 DEF Finish
  <1>14. CASE UndoStop(d) BY <1>14 DEF UndoStop
  <1>15. CASE UndoPool(d) BY <1>15 DEF UndoPool, FailTask
  <1> QED BY <1>1, <1>2, <1>3, <1>4, <1>5, <1>6, <1>7, <1>8, <1>9, <1>10, <1>11,
             <1>12, <1>13, <1>14, <1>15 DEF Task

(* So do the steps of stop requests, domain changes, restarts and exits. *)
LEMMA ServiceOpen ==
  ASSUME ~Overlap, DeployInv, SerialInv, OpenInv, NEW s \in Services,
         StopRequest(s) \/ ChangeDomain(s) \/ ApplyRoutes(s) \/ RestartPromoted(s)
           \/ ChildExits(s)
  PROVE  OpenInv'
  <1> USE DeployAssumption DEF OpenInv, InProgress, DeployInv, TypeOK, PromotedIsUsable, SerialInv,
        DepOrNone, Goto, SetStatus, rowVars, procVars, netVars, stopVars, bootVars
  <1>1. CASE StopBegin(s) BY <1>1 DEF StopBegin
  <1>2. CASE StopRuntime(s) BY <1>2 DEF StopRuntime
  <1>3. CASE StopPool(s) BY <1>3 DEF StopPool
  <1>4. CASE StopRoutes(s) BY <1>4 DEF StopRoutes
  <1>5. CASE StopSwap(s) BY <1>5 DEF StopSwap
  <1>6. CASE StopMark(s) BY <1>6 DEF StopMark
  <1>7. CASE StopClear(s) BY <1>7 DEF StopClear
  <1>8. CASE ChangeDomain(s) BY <1>8 DEF ChangeDomain
  <1>9. CASE ApplyRoutes(s) BY <1>9 DEF ApplyRoutes
  <1>10. CASE RestartPromoted(s) BY <1>10 DEF RestartPromoted
  <1>11. CASE ChildExits(s) BY <1>11 DEF ChildExits
  <1> QED BY <1>1, <1>2, <1>3, <1>4, <1>5, <1>6, <1>7, <1>8, <1>9, <1>10, <1>11
          DEF StopRequest

(* So does a restart of the daemon. *)
LEMMA BootOpen ==
  ASSUME DeployInv, OpenInv, Reboot \/ RebuildRoutes
  PROVE  OpenInv'
  <1> USE DEF OpenInv, InProgress
  <1>1. CASE Reboot
    <2>1. /\ pipe' = [d \in Deployments |-> "idle"] /\ up' = FALSE
          /\ \A d \in Deployments : status'[d] \notin InProgress
      BY <1>1 DEF Reboot
    <2> QED BY <2>1
  <1>2. CASE RebuildRoutes BY <1>2 DEF RebuildRoutes, Active, rowVars
  <1> QED BY <1>1, <1>2

(* A step that changes neither the promoted rows nor what History sees of  *)
(* any row is a stutter of the history.                                    *)
LEMMA HistoryStutter ==
  ASSUME promoted' = promoted, \A e \in Deployments : Row(e)' = Row(e)
  PROVE  UNCHANGED H!vars
  BY DEF H!vars

(* An open row has its task. *)
LEMMA OpenHasTask ==
  ASSUME DeployInv
  PROVE  \A e \in Deployments : Row(e) = "open" => pipe[e] # "idle"
  BY DEF DeployInv, TypeOK, Statuses, Row

(* A task moves on: it begins with an accepted row, promotes, succeeds,    *)
(* fails or does something the history does not show.                      *)
LEMMA TaskHistory ==
  ASSUME ~Overlap, DeployInv, SerialInv, OpenInv, NEW d \in Deployments,
         CreateDeployment(d) \/ Task(d)
  PROVE  [H!Next]_(H!vars)
  <1> DEFINE row == [e \in Deployments |-> Row(e)]
  <1>a. pipe[d] # "idle" =>
          \/ up /\ Row(d) = "open"
          \/ ~up /\ promoted[SvcOf[d]] = d /\ Row(d) = status[d]
    BY DEF OpenInv, Row
  <1>1. CASE CreateDeployment(d)
    <2>1. PICK p \in {"created", "idle"} : pipe' = [pipe EXCEPT ![d] = p]
      BY <1>1 DEF CreateDeployment, Goto
    <2>2. /\ status[d] = "none" /\ status' = [status EXCEPT ![d] = "Pending"]
          /\ promoted' = promoted /\ ~Busy(SvcOf[d])
      BY <1>1 DEF CreateDeployment, SetStatus, Admit
    <2>3. row[d] = "none" BY <2>2 DEF Row, InProgress
    <2>4. H!Open(SvcOf[d]) = {} BY <2>2, OpenHasTask DEF H!Open, Busy, Active
    <2>5. row' = [row EXCEPT ![d] = IF p = "idle" THEN "stale" ELSE "open"]
      BY <2>1, <2>2 DEF Row, InProgress, DeployInv, TypeOK
    <2>6. H!Accept(d) BY <2>2, <2>3, <2>4, <2>5 DEF H!Accept
    <2> QED BY <2>6 DEF H!Next
  <1>2. ASSUME Goto(d, "idle"), SetStatus(d, "Failed"), up, pipe[d] # "idle", promoted' = promoted
        PROVE  H!Next
    <2>1. row[d] = "open" BY <1>2, <1>a
    <2>2. row' = [row EXCEPT ![d] = "Failed"]
      BY <1>2 DEF Row, InProgress, DeployInv, TypeOK, Goto, SetStatus
    <2>3. H!Fail(d) BY <2>1, <2>2, <1>2 DEF H!Fail
    <2> QED BY <2>3 DEF H!Next
  <1>3. ASSUME FailTask(d), pipe[d] # "idle", promoted' = promoted
        PROVE  [H!Next]_(H!vars)
    <2>1. CASE up BY <1>2, <1>3, <2>1 DEF FailTask
    <2>2. CASE ~up
      <3>1. \A e \in Deployments : Row(e)' = Row(e)
        BY <1>3, <2>2 DEF FailTask, Goto, OpenInv, Row, DeployInv, TypeOK
      <3> QED BY <3>1, <1>3, HistoryStutter
    <2> QED BY <2>1, <2>2
  <1>4. ASSUME NEW p, p # "idle", Goto(d, p), pipe[d] # "idle", promoted' = promoted,
               \A e \in Deployments : e # d => status'[e] = status[e],
               status'[d] = status[d] \/ {status[d], status'[d]} \subseteq InProgress
        PROVE  [H!Next]_(H!vars)
    <2>1. \A e \in Deployments : Row(e)' = Row(e)
      BY <1>4 DEF Goto, Row, DeployInv, TypeOK
    <2> QED BY <2>1, <1>4, HistoryStutter
  <1>5. CASE Build(d) BY <1>4, <1>5 DEF Build, SetStatus, DeployInv, TypeOK, InProgress
  <1>6. CASE AcquireOk(d) BY <1>4, <1>6 DEF AcquireOk, SetStatus, DeployInv, TypeOK, InProgress
  <1>7. CASE AcquireFail(d) BY <1>3, <1>7 DEF AcquireFail
  <1>8. CASE StartOk(d) BY <1>4, <1>8 DEF StartOk, rowVars
  <1>9. CASE StartFail(d) BY <1>3, <1>9 DEF StartFail
  <1>10. CASE Promote(d)
    <2>1. /\ pipe[d] # "idle" /\ SvcOf[d] \in Services
          /\ status' = [e \in Deployments |-> IF e \in Demoted(d) THEN "Inactive" ELSE status[e]]
          /\ promoted' = [promoted EXCEPT ![SvcOf[d]] = d]
          /\ \E p : p # "idle" /\ pipe' = [pipe EXCEPT ![d] = p]
      BY <1>10, DeployAssumption DEF Promote, Promoting, Goto
    <2>2. CASE promoted[SvcOf[d]] = d
      <3>1. promoted' = promoted BY <2>1, <2>2 DEF DeployInv, TypeOK
      <3>2. Demoted(d) = {} BY <2>2 DEF Demoted
      <3>3. \A e \in Deployments : Row(e)' = Row(e)
        BY <2>1, <3>2 DEF Row, DeployInv, TypeOK
      <3> QED BY <3>1, <3>3, HistoryStutter
    <2>3. CASE promoted[SvcOf[d]] # d
      <3>1. row[d] = "open" BY <2>1, <2>3, <1>a
      <3>2. \A e \in Deployments : e \in Demoted(d) <=> e = promoted[SvcOf[d]]
        BY <2>3, DeployAssumption DEF Demoted
      <3>3. row' = [e \in Deployments |-> IF e = promoted[SvcOf[d]] THEN "Inactive" ELSE row[e]]
        BY <2>1, <3>2 DEF Row, InProgress, DeployInv, TypeOK
      <3>4. H!Promote(d) BY <2>1, <2>3, <3>1, <3>3 DEF H!Promote
      <3> QED BY <3>4 DEF H!Next
    <2> QED BY <2>2, <2>3
  <1>11. CASE ProbeFail(d) BY <1>4, <1>11 DEF ProbeFail, rowVars
  <1>12. CASE AddReplica(d) BY <1>4, <1>12 DEF AddReplica, rowVars
  <1>13. CASE WriteRoutes(d) BY <1>4, <1>13 DEF WriteRoutes, rowVars
  <1>14. CASE RoutesFail(d) BY <1>3, <1>4, <1>14 DEF RoutesFail
  <1>15. CASE SwapRoutes(d) BY <1>4, <1>15 DEF SwapRoutes, rowVars
  <1>16. CASE Finish(d)
    <2>1. pipe[d] = "finish" /\ Goto(d, "idle") /\ promoted' = promoted BY <1>16 DEF Finish
    <2>2. CASE up
      <3>1. row[d] = "open" /\ promoted[SvcOf[d]] = d
        BY <2>1, <2>2, <1>a DEF SerialInv, Wired
      <3>2. row' = [row EXCEPT ![d] = "Healthy"]
        BY <1>16, <2>1, <2>2 DEF Finish, SetStatus, Goto, Row, InProgress, DeployInv, TypeOK
      <3>3. H!Succeed(d) BY <2>1, <3>1, <3>2 DEF H!Succeed
      <3> QED BY <3>3 DEF H!Next
    <2>3. CASE ~up
      <3>1. \A e \in Deployments : Row(e)' = Row(e)
        BY <1>16, <2>1, <2>3 DEF Finish, Goto, OpenInv, Row, DeployInv, TypeOK
      <3> QED BY <2>1, <3>1, HistoryStutter
    <2> QED BY <2>2, <2>3
  <1>17. CASE UndoStop(d) BY <1>4, <1>17 DEF UndoStop, rowVars
  <1>18. CASE UndoPool(d) BY <1>3, <1>18 DEF UndoPool
  <1> QED BY <1>1, <1>5, <1>6, <1>7, <1>8, <1>9, <1>10, <1>11, <1>12, <1>13, <1>14, <1>15,
             <1>16, <1>17, <1>18 DEF Task

(* A stop marks the current row and clears it; nothing else done to a      *)
(* service, and no restart of its promoted deployment, shows.              *)
LEMMA ServiceHistory ==
  ASSUME ~Overlap, DeployInv, SerialInv, OpenInv, NEW s \in Services,
         StopRequest(s) \/ ChangeDomain(s) \/ ApplyRoutes(s) \/ RestartPromoted(s)
           \/ ChildExits(s)
  PROVE  [H!Next]_(H!vars)
  <1> DEFINE row == [e \in Deployments |-> Row(e)]
  <1>1. ASSUME UNCHANGED <<status, promoted, pipe>> PROVE [H!Next]_(H!vars)
    BY <1>1, HistoryStutter DEF Row
  <1>2. ASSUME stop[s] # "idle" PROVE H!Open(s) = {} /\ seen[s] = promoted[s]
    BY <1>2, OpenHasTask DEF SerialInv, H!Open
  <1>3. CASE StopMark(s)
    <2>1. stop[s] = "mark" /\ UNCHANGED <<promoted, pipe>> BY <1>3 DEF StopMark
    <2>2. CASE UNCHANGED status BY <1>1, <2>1, <2>2
    <2>3. CASE seen[s] # NoDep /\ SetStatus(seen[s], "Stopped")
      <3>1. promoted[s] = seen[s] /\ promoted[s] \in Deployments
        BY <2>1, <2>3, <1>2 DEF DeployInv, TypeOK, DepOrNone
      <3>2. row' = [row EXCEPT ![promoted[s]] = "Stopped"]
        BY <2>1, <2>3, <3>1 DEF SetStatus, Row, InProgress, DeployInv, TypeOK
      <3>3. H!Mark(s) BY <1>2, <2>1, <2>3, <3>1, <3>2 DEF H!Mark
      <3> QED BY <3>3 DEF H!Next
    <2> QED BY <1>3, <2>2, <2>3 DEF StopMark
  <1>4. CASE StopClear(s)
    <2>1. /\ stop[s] = "clear" /\ UNCHANGED <<status, pipe>>
          /\ promoted' = [promoted EXCEPT ![s] = NoDep]
      BY <1>4 DEF StopClear
    <2>2. /\ promoted[s] = seen[s] /\ promoted[s] \in Deployments /\ promoted[s] # NoDep
          /\ row[promoted[s]] = "Stopped"
      BY <2>1, <1>2, DeployAssumption DEF SerialInv, DeployInv, TypeOK, DepOrNone, Row, InProgress
    <2>3. row' = row BY <2>1 DEF Row
    <2>4. H!Clear(s) BY <1>2, <2>1, <2>2, <2>3 DEF H!Clear
    <2> QED BY <2>4 DEF H!Next
  <1>5. CASE RestartPromoted(s)
    <2>1. \A e \in Deployments : Row(e)' = Row(e)
      BY <1>5 DEF RestartPromoted, OpenInv, Row, rowVars
    <2> QED BY <2>1, <1>5, HistoryStutter DEF RestartPromoted, rowVars
  <1>6. CASE StopBegin(s) BY <1>1, <1>6 DEF StopBegin, rowVars
  <1>7. CASE StopRuntime(s) BY <1>1, <1>7 DEF StopRuntime, rowVars
  <1>8. CASE StopPool(s) BY <1>1, <1>8 DEF StopPool, rowVars
  <1>9. CASE StopRoutes(s) BY <1>1, <1>9 DEF StopRoutes, rowVars
  <1>10. CASE StopSwap(s) BY <1>1, <1>10 DEF StopSwap, rowVars
  <1>11. CASE ChangeDomain(s) BY <1>1, <1>11 DEF ChangeDomain, rowVars
  <1>12. CASE ApplyRoutes(s) BY <1>1, <1>12 DEF ApplyRoutes, rowVars
  <1>13. CASE ChildExits(s) BY <1>1, <1>13 DEF ChildExits, rowVars
  <1> QED BY <1>3, <1>4, <1>5, <1>6, <1>7, <1>8, <1>9, <1>10, <1>11, <1>12, <1>13 DEF StopRequest

(* A restart of the daemon interrupts the deployments under way, in the    *)
(* middle of a promotion too; the end of boot does not show.               *)
LEMMA BootHistory ==
  ASSUME DeployInv, SerialInv, OpenInv, Reboot \/ RebuildRoutes
  PROVE  [H!Next]_(H!vars)
  <1> DEFINE row == [e \in Deployments |-> Row(e)]
             behind == {t \in Services : H!Open(t) \ {promoted[t]} # {}}
  <1>1. CASE Reboot
    <2>1. /\ promoted' = promoted /\ pipe' = [d \in Deployments |-> "idle"]
      BY <1>1 DEF Reboot
    <2>2. PICK cut \in {{}} \cup {Demoted(d) : d \in {e \in Deployments : Promoting(e)}} :
            status' = [d \in Deployments |->
              IF d \in cut THEN "Inactive"
              ELSE IF status[d] \in {"Pending", "Building", "Starting"} THEN "Failed"
              ELSE status[d]]
      BY <1>1 DEF Reboot
    <2>3. row' = [d \in Deployments |->
            IF d \in cut THEN "Inactive"
            ELSE IF row[d] \in {"open", "stale"} THEN "Failed" ELSE row[d]]
      BY <2>2 DEF Row, InProgress, DeployInv, TypeOK, Statuses
    <2>4. cut \in {{}} \cup {{promoted[s]} : s \in behind}
      <3>1. SUFFICES ASSUME NEW d \in Deployments, Promoting(d), cut = Demoted(d), cut # {}
                     PROVE  \E s \in behind : cut = {promoted[s]}
        BY <2>2
      <3>2. pipe[d] # "idle" /\ promoted[SvcOf[d]] # d BY <3>1 DEF Promoting, Demoted
      <3>3. Row(d) = "open" BY <3>2 DEF OpenInv, Row
      <3>4. SvcOf[d] \in behind BY <3>2, <3>3, DeployAssumption DEF H!Open
      <3>5. cut = {promoted[SvcOf[d]]} BY <3>1 DEF Demoted
      <3> QED BY <3>4, <3>5
    <2>5. H!Interrupt BY <2>1, <2>3, <2>4 DEF H!Interrupt
    <2> QED BY <2>5 DEF H!Next
  <1>2. CASE RebuildRoutes
    BY <1>2, HistoryStutter DEF RebuildRoutes, Row, rowVars
  <1> QED BY <1>1, <1>2

(* When no two operations on a service overlap, the rows of Deploy are a   *)
(* history: whatever fails, is stopped, restarted or cut off, each step of *)
(* the daemon is one step of History or shows nothing.                     *)
THEOREM HistoryKept == ASSUME ~Overlap PROVE Spec => KeepsHistory
  <1>1. Init => OpenInv BY DEF Init, OpenInv, InProgress
  <1>2. Init => H!Init BY DEF Init, H!Init, Row, InProgress, None
  <1>3. DeployInv /\ SerialInv /\ OpenInv /\ [Next]_vars => OpenInv' /\ [H!Next]_(H!vars)
    <2> SUFFICES ASSUME DeployInv, SerialInv, OpenInv, [Next]_vars
                 PROVE  OpenInv' /\ [H!Next]_(H!vars)
      OBVIOUS
    <2>1. CASE UNCHANGED vars
      BY <2>1, HistoryStutter DEF vars, rowVars, bootVars, OpenInv, Row
    <2>2. CASE Next
      BY <2>2, TaskOpen, ServiceOpen, BootOpen, TaskHistory, ServiceHistory, BootHistory DEF Next
    <2> QED BY <2>1, <2>2
  <1> QED BY <1>1, <1>2, <1>3, DeployInvariant, SerialInvariant, PTL DEF Spec, KeepsHistory, H!Spec
=============================================================================
