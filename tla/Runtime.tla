------------------------------ MODULE Runtime -------------------------------
(***************************************************************************)
(* The runtime of service replicas in src/runtime/linux.rs and             *)
(* fs_helpers.rs: start, stop and list_running as concurrent calls whose   *)
(* futures may be dropped, the reaper they all begin with, and the sweep   *)
(* that a boot makes before it starts anything.  They share the children   *)
(* map, which has a lock, and the replica directories, cgroups and         *)
(* processes, which have none.  What a launch itself guarantees is module  *)
(* Launch.                                                                 *)
(***************************************************************************)
EXTENDS Naturals, FiniteSets

CONSTANTS
  Slots,       \* a service and a replica index: RuntimeInstanceId
  Deps,        \* deployments
  Calls,       \* calls under way at the same time
  NoPlan,
  MaxLaunch,   \* bound: launches of a behaviour
  MaxCrashes   \* bound: crashes of the daemon

Plans == Slots \X Deps   \* each has a directory and a cgroup of its own
RuntimeLaunches == 1 .. MaxLaunch

ASSUME RuntimeAssumption ==
  /\ NoPlan \notin Plans /\ NoPlan \notin Deps
  /\ MaxLaunch \in Nat /\ MaxCrashes \in Nat

VARIABLES
  proc,      \* proc[i]: the plan of a launch, its supervisor (stage 1) and its
             \* workload, and the life of the daemon it is of
  dir,       \* dir[p]: "none", "fresh", or "used" by a workload of before
  cgroup,    \* plans whose cgroup directory exists
  children,  \* children[s]: the tracked launch, or 0
  call,      \* call[c]: a call and how far it is
  sweep,     \* replicas that the boot has still to sweep
  sweeping,  \* the one whose cgroup it has killed
  crashes,
  excused,   \* launches that were dropped, or lost their supervisor
  raced      \* plans launched while another call was removing them

runtimeVars == <<proc, dir, cgroup, children, call, sweep, sweeping,
          crashes, excused, raced>>
files == <<dir, cgroup>>
history == <<sweep, sweeping, crashes, excused>>

Idle == [op |-> "none", at |-> "idle", plan |-> NoPlan, id |-> 0, todo |-> {},
         cur |-> NoPlan]

RuntimeInit ==
  /\ proc = [i \in RuntimeLaunches |-> [plan |-> NoPlan, sup |-> "none", work |-> "none", life |-> 0]]
  /\ dir = [p \in Plans |-> "none"] /\ cgroup = {}
  /\ children = [s \in Slots |-> 0]
  /\ call = [c \in Calls |-> Idle]
  /\ sweep = {} /\ sweeping = NoPlan /\ crashes = 0 /\ excused = {} /\ raced = {}

(* A cgroup with a live process cannot be removed; zombies do not count. *)
Alive(i) == proc[i].sup = "up" \/ proc[i].work \in {"up", "dying"}
Busy(p) == \E i \in RuntimeLaunches : proc[i].plan = p /\ Alive(i)

(* cgroup.kill: processes die a little later. *)
Killed(p) ==
  [i \in RuntimeLaunches |->
     IF proc[i].plan = p /\ p \in cgroup
     THEN [proc[i] EXCEPT !.sup = IF @ = "up" THEN "exited" ELSE @,
                          !.work = IF @ = "up" THEN "dying" ELSE @]
     ELSE proc[i]]

At(c, where) == sweep = {} /\ call[c].at = where
Goto(c, where) == call' = [call EXCEPT ![c].at = where]
Done(c) == call' = [call EXCEPT ![c] = Idle]   \* the caller has its answer

-----------------------------------------------------------------------------
(* start, stop and list_running begin with reap_exited_children: children   *)
(* whose supervisor has ended leave the map under its lock, and are cleaned *)
(* up after it.  The autoscaler's lock and fresh deployment ids keep two    *)
(* launches of one plan apart; nothing else is kept apart.                  *)
Exited == {s \in Slots : children[s] # 0 /\ proc[children[s]].sup # "up"}

Begin(c, op, p) ==
  /\ At(c, "idle")
  /\ op = "start" => p \in Plans /\ \A d \in Calls : call[d].op = "start" => call[d].plan # p
  /\ op = "stop" => p \in Slots \X {NoPlan}
  /\ op = "list" => p = NoPlan /\ Exited # {}
  /\ children' = [s \in Slots |-> IF s \in Exited THEN 0 ELSE children[s]]
  /\ proc' = [i \in RuntimeLaunches |->
                IF \E s \in Exited : children[s] = i THEN [proc[i] EXCEPT !.sup = "gone"]
                                                     ELSE proc[i]]
  /\ call' = [call EXCEPT ![c] =
       [Idle EXCEPT !.op = op, !.plan = p, !.at = "reap",
                    !.todo = {proc[children[s]].plan : s \in Exited}]]
  /\ UNCHANGED <<files, history>>

(* A slip: a cgroup that cannot be removed does not end the cleanup. *)
ReapCgroup_Ignore(c, p) ==
  /\ At(c, "reap") /\ call[c].cur = NoPlan /\ p \in call[c].todo
  /\ cgroup' = IF Busy(p) THEN cgroup ELSE cgroup \ {p}
  /\ call' = [call EXCEPT ![c].todo = @ \ {p}, ![c].cur = p]
  /\ UNCHANGED <<proc, dir, children, history>>

(* cleanup: the cgroup first, then the directories.  An error ends the call,*)
(* and with it the cleanup of the other children.                           *)
ReapCgroup(c, p) ==
  /\ At(c, "reap") /\ call[c].cur = NoPlan /\ p \in call[c].todo
  /\ IF Busy(p) THEN Done(c) /\ UNCHANGED cgroup
     ELSE /\ cgroup' = cgroup \ {p}
          /\ call' = [call EXCEPT ![c].todo = @ \ {p}, ![c].cur = p]
  /\ UNCHANGED <<proc, dir, children, history>>

ReapDir(c) ==
  /\ At(c, "reap") /\ call[c].cur # NoPlan
  /\ \/ /\ dir' = [dir EXCEPT ![call[c].cur] = "none"]
        /\ call' = [call EXCEPT ![c].cur = NoPlan]
     \/ Done(c) /\ UNCHANGED dir
  /\ UNCHANGED <<proc, cgroup, children, history>>

Reaped(c) == At(c, "reap") /\ call[c].cur = NoPlan /\ call[c].todo = {}

list_running(c) ==
  /\ Reaped(c) /\ call[c].op = "list" /\ Done(c)
  /\ UNCHANGED <<proc, files, children, history>>

-----------------------------------------------------------------------------
(* start. *)
(* The plan that a call cleans up at its end. *)
Target(c) == IF call[c].id = 0 THEN call[c].plan ELSE proc[call[c].id].plan

prepare(c) ==
  /\ Reaped(c) /\ call[c].op = "start"
  /\ dir' = [dir EXCEPT ![call[c].plan] = IF @ = "none" THEN "fresh" ELSE @]
  /\ Goto(c, "cgroup")
  /\ UNCHANGED <<proc, cgroup, children, history>>

prepare_cgroup_directory(c) ==
  /\ At(c, "cgroup")
  /\ cgroup' = cgroup \cup {call[c].plan}
  /\ Goto(c, "spawn")
  /\ UNCHANGED <<proc, dir, children, history>>

(* A step of prepare fails. *)
PrepareFails(c) ==
  /\ At(c, "cgroup")
  /\ Goto(c, "cleanup")
  /\ UNCHANGED <<proc, files, children, history>>

(* spawn_namespaced_process runs in a thread, which goes on when the future *)
(* of the call was dropped.                                                 *)
Spawning(c) == At(c, "spawn") \/ At(c, "detached")
Detached(c) == call[c].at = "detached"

Spawned(c, i, sup) ==
  /\ proc[i].plan = NoPlan /\ \A j \in 1 .. i - 1 : proc[j].plan # NoPlan
  /\ call[c].plan \in cgroup /\ dir[call[c].plan] # "none"
  /\ proc' = [proc EXCEPT ![i] = [plan |-> call[c].plan, sup |-> sup, work |-> "up",
                                 life |-> crashes]]
  /\ dir' = [dir EXCEPT ![call[c].plan] = "used"]
  /\ UNCHANGED <<cgroup, children, sweep, sweeping, crashes>>

SpawnOk(c, i) ==
  /\ Spawning(c) /\ Spawned(c, i, "up")
  /\ IF Detached(c)
     THEN call' = [call EXCEPT ![c] = Idle] /\ excused' = excused \cup {i}
     ELSE /\ call' = [call EXCEPT ![c].at = "socket", ![c].id = i]
          /\ UNCHANGED excused

(* The "late" result of a launch: an error, with the supervisor killed and  *)
(* the workload running.                                                    *)
SpawnLate(c, i) ==
  /\ Spawning(c) /\ Spawned(c, i, "gone")
  /\ excused' = excused \cup {i}
  /\ call' = [call EXCEPT ![c] = IF Detached(c) THEN Idle
                                 ELSE [call[c] EXCEPT !.at = "cleanup"]]

SpawnErr(c) ==
  /\ Spawning(c)
  /\ call' = [call EXCEPT ![c] = IF Detached(c) THEN Idle
                                 ELSE [call[c] EXCEPT !.at = "cleanup"]]
  /\ UNCHANGED <<proc, files, children, history>>

(* wait_for_service_socket: no socket in time, or the supervisor has gone.  *)
SocketFails(c) ==
  /\ At(c, "socket")
  /\ Goto(c, "term")
  /\ UNCHANGED <<proc, files, children, history>>

(* The socket is there: the child is tracked, and the one it replaces is    *)
(* terminated and cleaned up.                                               *)
Insert(c) ==
  /\ At(c, "socket")
  /\ LET s == call[c].plan[1] IN
       /\ children' = [children EXCEPT ![s] = call[c].id]
       /\ IF children[s] = 0 THEN Done(c)
          ELSE call' = [call EXCEPT ![c].id = children[s], ![c].at = "term"]
  /\ UNCHANGED <<proc, files, history>>

-----------------------------------------------------------------------------
(* terminate_tracked_child: SIGTERM reaches the supervisor, which passes    *)
(* nothing on; it is killed after the grace period unless it ended by then. *)
terminate_tracked_process(c) ==
  /\ At(c, "term")
  /\ proc' = [proc EXCEPT ![call[c].id].sup = "gone"]
  /\ Goto(c, "kill")
  /\ UNCHANGED <<files, children, history>>

CgroupKill(c) ==
  /\ At(c, "kill")
  /\ proc' = Killed(proc[call[c].id].plan)
  /\ Goto(c, "cleanup")
  /\ UNCHANGED <<files, children, history>>

(* stop. *)
Remove(c) ==
  /\ Reaped(c) /\ call[c].op = "stop"
  /\ LET s == call[c].plan[1] IN
       /\ children' = [children EXCEPT ![s] = 0]
       /\ IF children[s] = 0 THEN Done(c)
          ELSE call' = [call EXCEPT ![c].id = children[s], ![c].at = "term"]
  /\ UNCHANGED <<proc, files, history>>

(* A slip: a stop takes a cgroup that cannot be removed for removed. *)
cleanup_Ignore(c) ==
  /\ At(c, "cleanup")
  /\ IF Busy(Target(c))
     THEN (IF call[c].op = "stop" THEN Goto(c, "wipe") ELSE Done(c)) /\ UNCHANGED cgroup
     ELSE cgroup' = cgroup \ {Target(c)} /\ Goto(c, "wipe")
  /\ UNCHANGED <<proc, dir, children, history>>

(* A stop has waited for the processes to be gone or for two seconds        *)
(* (wait_cgroup_drained); a start tries at once.                            *)
cleanup(c) ==
  /\ At(c, "cleanup")
  /\ IF Busy(Target(c))
     THEN Done(c) /\ UNCHANGED cgroup
     ELSE cgroup' = cgroup \ {Target(c)} /\ Goto(c, "wipe")
  /\ UNCHANGED <<proc, dir, children, history>>

WipeDir(c) ==
  /\ At(c, "wipe")
  /\ \/ dir' = [dir EXCEPT ![Target(c)] = "none"]
     \/ UNCHANGED dir
  /\ Done(c)
  /\ UNCHANGED <<proc, cgroup, children, history>>

-----------------------------------------------------------------------------
(* The future of a start or stop is dropped at one of its awaits. *)
Drop(c) ==
  /\ call[c].op \in {"start", "stop"}
  /\ \/ At(c, "spawn") \/ At(c, "socket") \/ At(c, "term")
     \/ call[c].op = "stop" /\ At(c, "cleanup")
  /\ call' = [call EXCEPT ![c] = IF call[c].at = "spawn"
                                 THEN [call[c] EXCEPT !.op = "none", !.at = "detached"]
                                 ELSE Idle]
  /\ excused' = excused \cup ({call[c].id} \ {0})
  /\ UNCHANGED <<proc, files, children, sweep, sweeping, crashes>>

WorkloadEnds(i) ==
  /\ proc[i].work \in {"up", "dying"}
  /\ proc' = [proc EXCEPT ![i].work = "dead"]
  /\ UNCHANGED <<files, children, call, history>>

(* The supervisor exits with its child, or is killed for want of memory. *)
SupervisorEnds(i) ==
  /\ proc[i].sup = "up"
  /\ proc' = [proc EXCEPT ![i].sup = "exited"]
  /\ excused' = IF proc[i].work = "dead" THEN excused ELSE excused \cup {i}
  /\ UNCHANGED <<files, children, call, sweep, sweeping, crashes>>

(* The daemon dies; processes and files stay. *)
Crash ==
  /\ crashes < MaxCrashes /\ crashes' = crashes + 1
  /\ call' = [c \in Calls |-> Idle]
  /\ children' = [s \in Slots |-> 0]
  /\ sweep' = {p \in Plans : dir[p] # "none"} /\ sweeping' = NoPlan
  /\ excused' = {i \in RuntimeLaunches : proc[i].plan # NoPlan}
  /\ UNCHANGED <<proc, files>>

(* sweep_one_replica: the cgroup is killed, given two seconds to drain, and *)
(* removed with the directory; errors are ignored.                          *)
SweepKill(p) ==
  /\ p \in sweep /\ sweeping = NoPlan
  /\ proc' = Killed(p)
  /\ sweeping' = p
  /\ UNCHANGED <<files, children, call, sweep, crashes, excused>>

SweepRemove ==
  /\ sweeping # NoPlan /\ sweeping' = NoPlan
  /\ cgroup' = IF Busy(sweeping) THEN cgroup ELSE cgroup \ {sweeping}
  /\ dir' = [dir EXCEPT ![sweeping] = "none"]
  /\ sweep' = sweep \ {sweeping}
  /\ UNCHANGED <<proc, children, call, crashes, excused>>

CallStep(c) ==
  \/ (\E p \in Plans : ReapCgroup(c, p)) \/ ReapDir(c)
  \/ list_running(c) \/ prepare(c) \/ prepare_cgroup_directory(c) \/ PrepareFails(c)
  \/ (\E i \in RuntimeLaunches : SpawnOk(c, i) \/ SpawnLate(c, i)) \/ SpawnErr(c)
  \/ SocketFails(c) \/ Insert(c) \/ terminate_tracked_process(c) \/ CgroupKill(c)
  \/ Remove(c) \/ cleanup(c) \/ WipeDir(c)

(* The directory of p is about to be removed while p is being launched. *)
Overlap(p) ==
  \E c, d \in Calls :
    /\ call[c].plan = p /\ call[c].at \in {"cgroup", "spawn", "detached"}
    /\ call[d].cur = p \/ (call[d].at = "wipe" /\ Target(d) = p)

RuntimeNext ==
  /\ \/ \E c \in Calls :
          \/ \E op \in {"start", "stop", "list"},
                p \in Plans \cup {NoPlan} \cup (Slots \X {NoPlan}) : Begin(c, op, p)
          \/ CallStep(c) \/ Drop(c)
     \/ \E i \in RuntimeLaunches : WorkloadEnds(i) \/ SupervisorEnds(i)
     \/ Crash \/ SweepRemove
     \/ \E p \in Plans : SweepKill(p)
  /\ raced' = raced \cup {p \in Plans : Overlap(p)}

RuntimeSpec == RuntimeInit /\ [][RuntimeNext]_runtimeVars

-----------------------------------------------------------------------------
RuntimeTypeOK ==
  /\ dir \in [Plans -> {"none", "fresh", "used"}] /\ cgroup \subseteq Plans
  /\ children \in [Slots -> 0 .. MaxLaunch]
  /\ \A i \in RuntimeLaunches : proc[i].plan \in Plans \cup {NoPlan}
  /\ sweep \subseteq Plans /\ sweeping \in Plans \cup {NoPlan}
  /\ excused \subseteq RuntimeLaunches /\ raced \subseteq Plans /\ crashes \in 0 .. MaxCrashes

(* A stop that found a child and reports success has ended its workload: it *)
(* is dead, not just told to die, however the launch, other calls and the   *)
(* death of the supervisor interleaved with it.                             *)
StopMeansStopped ==
  [][\A c \in Calls :
       call[c].op = "stop" /\ call[c].at = "wipe" /\ call'[c] = Idle /\ crashes' = crashes
         => proc[call[c].id].work = "dead"]_runtimeVars

(* A workload of this life of the daemon that runs is tracked, or a call    *)
(* has it in hand: concurrent starts, stops and reapers lose none, except   *)
(* those dropped, those of a late launch and those whose supervisor died.   *)
NoneLost ==
  \A i \in RuntimeLaunches \ excused :
    proc[i].work = "up" =>
      (\E s \in Slots : children[s] = i) \/ (\E c \in Calls : call[c].id = i)

(* "Runs BEFORE any launcher so both start from a clean tree" (daemon.rs):  *)
(* after the sweep, no workload of an earlier life of the daemon runs,      *)
(* lost ones included, whatever was under way when it died.  What can       *)
(* escape is a replica started while its directory was being removed.       *)
CleanBoot ==
  sweep = {} =>
    \A i \in RuntimeLaunches :
      proc[i].plan \in Plans \ raced /\ proc[i].life < crashes => proc[i].work # "up"

(* "a relaunch starts from a clean writable layer" (cleanup). *)
CleanRelaunch ==
  [][\A c \in Calls :
       call[c].at = "reap" /\ call'[c].at = "cgroup" => dir[call[c].plan] # "used"]_runtimeVars
=============================================================================
