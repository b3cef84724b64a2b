------------------------------- MODULE Spawn --------------------------------
(***************************************************************************)
(* The launch handshake of src/syscall/ns.rs.  A thread of the daemon      *)
(* (parent_finish_launch) forks stage 1, which waits to be put in its      *)
(* cgroup, builds the root, waits for its id maps, forks stage 2 into the  *)
(* new pid namespace and supervises it; stage 2 finishes the setup and     *)
(* execs the workload.  Three pipes connect them: ready bytes up, release  *)
(* bytes down, and an error pipe whose end of file, reached when the last  *)
(* writer closes it, means success.                                        *)
(*                                                                         *)
(* Launches run in threads of one process (spawn_blocking), and a fork     *)
(* copies every open descriptor, those of other launches included.  So     *)
(* does the fork of a console (spawn_console_process), whose supervisor    *)
(* neither closes nor executes anything.                                   *)
(***************************************************************************)
EXTENDS Naturals

CONSTANTS
  Launches,   \* calls of spawn_namespaced_process
  Others,     \* other children of the daemon: supervisors of consoles
  Daemon

Stage1(l) == <<l, 1>>
Stage2(l) == <<l, 2>>
Procs == {Daemon} \cup Others \cup (Launches \X {1, 2})

ASSUME SpawnAssumption ==
  Daemon \notin Launches \X {1, 2} /\ Others \cap ({Daemon} \cup (Launches \X {1, 2})) = {}

VARIABLES
  par,        \* par[l]: where the daemon's thread is; "ok", "err" and "late"
              \* when it has returned
  st1, st2,   \* where the stages are; stage 2 becomes the workload at "exec"
  ready,      \* a byte is in the ready pipe
  release,    \* the byte in the release pipe, or "none"
  msg,        \* a setup failure was written to the error pipe
  errW,       \* errW[l]: processes that hold a write end of the error pipe
  attached, mapped  \* launches in their cgroup, with their id maps

vars == <<par, st1, st2, ready, release, msg, errW, attached, mapped>>

Init ==
  /\ par = [l \in Launches |-> "idle"]
  /\ st1 = [l \in Launches |-> "none"] /\ st2 = [l \in Launches |-> "none"]
  /\ ready = [l \in Launches |-> FALSE]
  /\ release = [l \in Launches |-> "none"]
  /\ msg = [l \in Launches |-> FALSE]
  /\ errW = [l \in Launches |-> {}]
  /\ attached = {} /\ mapped = {}

(* Every pipe that p holds is also held by its new child, or closed. *)
Inherit(p, c) == [l \in Launches |-> errW[l] \cup (IF p \in errW[l] THEN {c} ELSE {})]
CloseAll(p) == [l \in Launches |-> errW[l] \ {p}]

-----------------------------------------------------------------------------
(* The daemon's thread. *)
Pipes(l) ==
  /\ par[l] = "idle"
  /\ par' = [par EXCEPT ![l] = "piped"]
  /\ errW' = [errW EXCEPT ![l] = {Daemon}]
  /\ UNCHANGED <<st1, st2, ready, release, msg, attached, mapped>>

Fork(l) ==
  /\ par[l] = "piped"
  /\ par' = [par EXCEPT ![l] = "forked"]
  /\ st1' = [st1 EXCEPT ![l] = "boot"]
  /\ errW' = Inherit(Daemon, Stage1(l))
  /\ UNCHANGED <<st2, ready, release, msg, attached, mapped>>

ForkFail(l) ==
  /\ par[l] = "piped"
  /\ par' = [par EXCEPT ![l] = "err"]
  /\ st1' = [st1 EXCEPT ![l] = "dead"]
  /\ errW' = [errW EXCEPT ![l] = @ \ {Daemon}]
  /\ UNCHANGED <<st2, ready, release, msg, attached, mapped>>

close_child_ends(l) ==
  /\ par[l] = "forked"
  /\ par' = [par EXCEPT ![l] = "ready1"]
  /\ errW' = [errW EXCEPT ![l] = @ \ {Daemon}]
  /\ UNCHANGED <<st1, st2, ready, release, msg, attached, mapped>>

(* abort_launch: kill stage 1, wait for it, and return the error. *)
Abort(l, r) ==
  /\ par' = [par EXCEPT ![l] = r]
  /\ st1' = [st1 EXCEPT ![l] = "dead"]
  /\ errW' = CloseAll(Stage1(l))
  /\ UNCHANGED <<st2, ready, release, msg, attached, mapped>>

read_child_ready(l) ==
  /\ par[l] \in {"ready1", "ready2"} /\ ready[l]
  /\ ready' = [ready EXCEPT ![l] = FALSE]
  /\ par' = [par EXCEPT ![l] = IF @ = "ready1" THEN "attach" ELSE "maps"]
  /\ UNCHANGED <<st1, st2, release, msg, errW, attached, mapped>>

(* The pipe was closed, or CHILD_SETUP_TIMEOUT passed. *)
NotReady(l) ==
  /\ par[l] \in {"ready1", "ready2"} /\ ~ready[l]
  /\ Abort(l, "err")

AttachOk(l) ==
  /\ par[l] = "attach"
  /\ attached' = attached \cup {l}
  /\ release' = [release EXCEPT ![l] = "go"]
  /\ par' = [par EXCEPT ![l] = "ready2"]
  /\ UNCHANGED <<st1, st2, ready, msg, errW, mapped>>

(* The cgroup refuses the pid. *)
AttachFail(l) ==
  /\ par[l] = "attach"
  /\ release' = [release EXCEPT ![l] = "stop"]
  /\ par' = [par EXCEPT ![l] = "doomed"]
  /\ UNCHANGED <<st1, st2, ready, msg, errW, attached, mapped>>

MapsOk(l) ==
  /\ par[l] = "maps"
  /\ mapped' = mapped \cup {l}
  /\ release' = [release EXCEPT ![l] = "go"]
  /\ par' = [par EXCEPT ![l] = "status"]
  /\ UNCHANGED <<st1, st2, ready, msg, errW, attached>>

(* A slip: the release byte does not depend on the outcome. *)
MapsFail_Release(l) ==
  /\ par[l] = "maps"
  /\ release' = [release EXCEPT ![l] = "go"]
  /\ par' = [par EXCEPT ![l] = "doomed"]
  /\ UNCHANGED <<st1, st2, ready, msg, errW, attached, mapped>>

MapsFail(l) ==
  /\ par[l] = "maps"
  /\ release' = [release EXCEPT ![l] = "stop"]
  /\ par' = [par EXCEPT ![l] = "doomed"]
  /\ UNCHANGED <<st1, st2, ready, msg, errW, attached, mapped>>

(* Stage 1 is gone and no other process holds the pipe: the byte cannot be *)
(* written.  The cgroup and the maps of a dead process are not recorded.   *)
ReleaseFails(l) ==
  /\ par[l] \in {"attach", "maps"} /\ st1[l] = "dead"
  /\ Abort(l, "err")

StatusOk(l) ==
  /\ par[l] = "status" /\ ~msg[l] /\ errW[l] = {}
  /\ par' = [par EXCEPT ![l] = "ok"]
  /\ UNCHANGED <<st1, st2, ready, release, msg, errW, attached, mapped>>

StatusErr(l) == par[l] = "status" /\ msg[l] /\ Abort(l, "err")

StatusTimeout(l) ==
  /\ par[l] = "status" /\ ~msg[l] /\ errW[l] # {}
  /\ Abort(l, "late")

(* The error of the cgroup or of the maps is returned.  After failed maps   *)
(* the status is read before, and its outcome is not used.                  *)
Doomed(l) == par[l] = "doomed" /\ Abort(l, "err")

Parent(l) ==
  \/ Fork(l) \/ ForkFail(l) \/ close_child_ends(l) \/ read_child_ready(l)
  \/ NotReady(l) \/ AttachOk(l) \/ AttachFail(l) \/ MapsOk(l) \/ MapsFail(l)
  \/ ReleaseFails(l) \/ StatusOk(l) \/ StatusErr(l) \/ StatusTimeout(l)
  \/ Doomed(l)

-----------------------------------------------------------------------------
(* Stage 1. *)
To1(l, p) == st1' = [st1 EXCEPT ![l] = p]

open_child_stdio(l) ==
  /\ st1[l] = "boot" /\ To1(l, "cgwait")
  /\ ready' = [ready EXCEPT ![l] = TRUE]
  /\ UNCHANGED <<par, st2, release, msg, errW, attached, mapped>>

CgroupReleased(l) ==
  /\ st1[l] = "cgwait" /\ release[l] = "go" /\ To1(l, "prepare")
  /\ release' = [release EXCEPT ![l] = "none"]
  /\ UNCHANGED <<par, st2, ready, msg, errW, attached, mapped>>

child_prepare_root(l) ==
  /\ st1[l] = "prepare" /\ To1(l, "mapwait")
  /\ ready' = [ready EXCEPT ![l] = TRUE]
  /\ UNCHANGED <<par, st2, release, msg, errW, attached, mapped>>

IdMapReleased(l) ==
  /\ st1[l] = "mapwait" /\ release[l] = "go" /\ To1(l, "fork")
  /\ release' = [release EXCEPT ![l] = "none"]
  /\ UNCHANGED <<par, st2, ready, msg, errW, attached, mapped>>

ForkStage2(l) ==
  /\ st1[l] = "fork" /\ To1(l, "wait")
  /\ st2' = [st2 EXCEPT ![l] = "setup"]
  /\ errW' = [Inherit(Stage1(l), Stage2(l)) EXCEPT ![l] = @ \ {Stage1(l)}]
  /\ UNCHANGED <<par, ready, release, msg, attached, mapped>>

(* child_setup_fail of stage 1: any step fails, or the byte is not "go". *)
Stage1Fails(l) ==
  /\ \/ st1[l] \in {"boot", "prepare", "fork"}
     \/ /\ st1[l] \in {"cgwait", "mapwait"}
        /\ release[l] = "stop"
  /\ To1(l, "exit")
  /\ msg' = [msg EXCEPT ![l] = TRUE]
  /\ UNCHANGED <<par, st2, ready, release, errW, attached, mapped>>

(* It exits after a failure, or with its child (wait_for_stage2). *)
Stage1Exits(l) ==
  /\ st1[l] = "exit" \/ (st1[l] = "wait" /\ st2[l] = "dead")
  /\ To1(l, "dead")
  /\ errW' = CloseAll(Stage1(l))
  /\ UNCHANGED <<par, st2, ready, release, msg, attached, mapped>>

-----------------------------------------------------------------------------
(* Stage 2, and the workload. *)
child_exec(l) ==
  /\ st2[l] = "setup"
  /\ st2' = [st2 EXCEPT ![l] = "exec"]
  /\ errW' = CloseAll(Stage2(l))
  /\ UNCHANGED <<par, st1, ready, release, msg, attached, mapped>>

Stage2Fails(l) ==
  /\ st2[l] = "setup"
  /\ st2' = [st2 EXCEPT ![l] = "exit"]
  /\ msg' = [msg EXCEPT ![l] = TRUE]
  /\ UNCHANGED <<par, st1, ready, release, errW, attached, mapped>>

Stage2Exits(l) ==
  /\ st2[l] \in {"exit", "exec"}
  /\ st2' = [st2 EXCEPT ![l] = "dead"]
  /\ errW' = CloseAll(Stage2(l))
  /\ UNCHANGED <<par, st1, ready, release, msg, attached, mapped>>

(* The kernel kills a stage, for want of memory say. *)
KillStage1(l) ==
  /\ st1[l] \notin {"none", "dead"} /\ To1(l, "dead")
  /\ errW' = CloseAll(Stage1(l))
  /\ UNCHANGED <<par, st2, ready, release, msg, attached, mapped>>

KillStage2(l) ==
  /\ st2[l] = "setup"
  /\ st2' = [st2 EXCEPT ![l] = "dead"]
  /\ errW' = CloseAll(Stage2(l))
  /\ UNCHANGED <<par, st1, ready, release, msg, attached, mapped>>

Stages(l) ==
  \/ open_child_stdio(l) \/ CgroupReleased(l) \/ child_prepare_root(l)
  \/ IdMapReleased(l) \/ ForkStage2(l) \/ Stage1Fails(l) \/ Stage1Exits(l)
  \/ child_exec(l) \/ Stage2Fails(l) \/ Stage2Exits(l)

-----------------------------------------------------------------------------
(* A console is opened, and its processes end. *)
ConsoleForks(q) ==
  /\ \A l \in Launches : q \notin errW[l]
  /\ errW' = Inherit(Daemon, q)
  /\ UNCHANGED <<par, st1, st2, ready, release, msg, attached, mapped>>

ConsoleEnds(q) ==
  /\ errW' = CloseAll(q)
  /\ UNCHANGED <<par, st1, st2, ready, release, msg, attached, mapped>>

Next ==
  \/ \E l \in Launches :
       Pipes(l) \/ Parent(l) \/ Stages(l) \/ KillStage1(l) \/ KillStage2(l)
  \/ \E q \in Others : ConsoleForks(q) \/ ConsoleEnds(q)

Spec == Init /\ [][Next]_vars

(* The daemon's threads run; nothing is assumed of the stages. *)
Fairness == \A l \in Launches : WF_vars(Parent(l))
FairSpec == Spec /\ Fairness

-----------------------------------------------------------------------------
TypeOK ==
  /\ par \in [Launches -> {"idle", "piped", "forked", "ready1", "attach",
       "ready2", "maps", "status", "doomed", "ok", "err", "late"}]
  /\ st1 \in [Launches -> {"none", "boot", "cgwait", "prepare", "mapwait",
       "fork", "wait", "exit", "dead"}]
  /\ st2 \in [Launches -> {"none", "setup", "exec", "exit", "dead"}]
  /\ ready \in [Launches -> BOOLEAN] /\ msg \in [Launches -> BOOLEAN]
  /\ release \in [Launches -> {"none", "go", "stop"}]
  /\ errW \in [Launches -> SUBSET Procs]
  /\ attached \subseteq Launches /\ mapped \subseteq Launches

Workload(l) ==
  IF msg[l] THEN "failed"
  ELSE IF st2[l] = "exec" THEN "running"
  ELSE IF st2[l] = "dead" \/ (st2[l] = "none" /\ st1[l] = "dead") THEN "gone"
  ELSE "none"

Result(l) == IF par[l] \in {"ok", "err", "late"} THEN par[l] ELSE "none"

(* The handshake keeps the promise of module Launch, however launches,      *)
(* failures, timeouts and kills interleave: the workload of a launch runs   *)
(* only confined, and what parent_finish_launch returns tells whether it    *)
(* did.                                                                     *)
L == INSTANCE Launch WITH
       confined <- attached \cap mapped,
       workload <- [l \in Launches |-> Workload(l)],
       result <- [l \in Launches |-> Result(l)]
Implements == L!Spec

(* spawn_namespaced_process returns whatever the stages and the other       *)
(* launches do: every read of the daemon has a limit.                       *)
EveryCallReturns == \A l \in Launches : par[l] = "piped" ~> Result(l) # "none"

(* The last wait runs into its limit although the workload has started only *)
(* if another child of the daemon, a stage of another launch or a console's *)
(* supervisor, holds a copy of the error pipe: the daemon and the launch's  *)
(* own processes have closed theirs.                                        *)
LateOnlyIfEntangled ==
  [][\A l \in Launches :
       par[l] = "status" /\ par'[l] = "late" /\ st2[l] = "exec"
         => \/ Others \cap errW[l] # {}
            \/ \E m \in Launches \ {l} : {Stage1(m), Stage2(m)} \cap errW[l] # {}]_vars

(* "it is O_CLOEXEC so it closes automatically on a successful execve"      *)
(* (child_exec): once the workload runs, the daemon's wait ends at once.    *)
ExecEndsWait ==
  [][\A l \in Launches : par[l] = "status" /\ par'[l] = "late" => st2[l] # "exec"]_vars
=============================================================================
