------------------------------- MODULE Replica ------------------------------
(***************************************************************************)
(* The files of one replica, or of one run of a job, across its launches:  *)
(* prepare, cleanup and run_to_completion of src/runtime/linux.rs, the     *)
(* helpers of fs_helpers.rs and syscall/chown.rs, and the sweep of a boot. *)
(* What matters is who owns a file: the daemon may change the owner of any *)
(* file and pass every permission bit (CAP_CHOWN, CAP_DAC_OVERRIDE in      *)
(* src/templates/denia.service.in), but lacks CAP_FOWNER, so it changes    *)
(* the mode of its own files only, and takes a file out of a sticky        *)
(* directory only if it owns one of the two.                               *)
(***************************************************************************)
EXTENDS Naturals, FiniteSets

CONSTANT MaxLaunches

ASSUME ReplicaAssumption == MaxLaunches \in Nat

VARIABLES
  kind,      \* "service" or "job"
  fs,        \* fs[n]: the owner and the mode of node n, or NoNode
  stage,     \* where the launch, or the end of it, is
  launches,  \* how many were begun
  meddled,   \* the workload changed its root, or what lies under its /.denia
  refused    \* the steps that failed for want of a permission

replicaVars == <<kind, fs, stage, launches, meddled, refused>>

Parent == [upper |-> "dir", work |-> "dir", merged |-> "dir", tmp |-> "upper", denia |-> "upper",
       helper |-> "denia", file |-> "tmp", scratch |-> "work", sock |-> "socks"]
Nodes == {"dir", "socks"} \cup DOMAIN Parent
UpperNodes == {"upper", "tmp", "denia", "helper", "file"}
Overlay == {"upper", "work", "merged"}

(* n and what lies below it. *)
Below(n) ==
  CASE n = "dir" -> Nodes \ {"socks", "sock"}
    [] n = "upper" -> UpperNodes
    [] n = "socks" -> {"socks", "sock"}
    [] n = "work" -> {"work", "scratch"}
    [] n = "tmp" -> {"tmp", "file"}
    [] n = "denia" -> {"denia", "helper"}
    [] OTHER -> {n}

NoNode == [owner |-> "none", mode |-> "none"]
Node(owner, mode) == [owner |-> owner, mode |-> mode]
Present(n) == fs[n] # NoNode

ReplicaInit ==
  /\ kind \in {"service", "job"}
  /\ fs = [n \in Nodes |-> NoNode] /\ stage = "down" /\ launches = 0
  /\ meddled = FALSE /\ refused = {}

-----------------------------------------------------------------------------
(* What the kernel lets the daemon do. *)
MayChmod(tree, n) == tree[n].owner = "daemon"
MayUnlink(tree, n) ==
  n \in DOMAIN Parent /\ tree[Parent[n]].mode = "1777" =>
    "daemon" \in {tree[n].owner, tree[Parent[n]].owner}

(* lchown, and its recursive form; chowning needs no ownership. *)
lchown(tree, n, owner) == [tree EXCEPT ![n].owner = owner]
recursive_lchown(tree, root, owner) ==
  [n \in Nodes |-> IF n \in Below(root) /\ tree[n] # NoNode THEN Node(owner, tree[n].mode) ELSE tree[n]]

(* Slip: only the directory itself is taken back. *)
restore_current_process_owner_Shallow(tree, n) == lchown(tree, n, "daemon")

restore_current_process_owner(tree, n) == recursive_lchown(tree, n, "daemon")
reclaim_runtime_dir_owner(tree, n) == lchown(tree, n, "daemon")

(* remove_dir_all: everything goes, or the first file that cannot go ends   *)
(* it, after whatever the directory listed before.                          *)
Stuck(tree, root) == {n \in Below(root) : tree[n] # NoNode /\ ~MayUnlink(tree, n)}
remove_dir_all(tree, root) ==
  IF Stuck(tree, root) = {} THEN {[n \in Nodes |-> IF n \in Below(root) THEN NoNode ELSE tree[n]]}
  ELSE {[n \in Nodes |-> IF n \in gone THEN NoNode ELSE tree[n]] :
          gone \in {s \in SUBSET Below(root) :
                      \A n \in s : Below(n) \subseteq s /\ Below(n) \cap Stuck(tree, root) = {}}}

(* create_dir_all and create_runtime_directory: a directory that is there   *)
(* stays as it is.                                                          *)
create_runtime_directory(tree, dirs) ==
  [n \in Nodes |-> IF n \in dirs /\ tree[n] = NoNode THEN Node("daemon", "0755") ELSE tree[n]]

(* set_traverse_mode: nothing to do, or a chmod. *)
Traversable(tree, n) == tree[n].mode = "0755" \/ MayChmod(tree, n)
set_traverse_mode(tree, n) == [tree EXCEPT ![n].mode = "0755"]

(* chown_overlay_dir: the mode first, and then all of it to the base uid of *)
(* the user namespace.                                                      *)
chown_overlay_dir(tree, n) == recursive_lchown(set_traverse_mode(tree, n), n, "base")

(* A file of an earlier launch goes; a copy is made beside its place and    *)
(* renamed over it.                                                         *)
remove_existing_runtime_file(tree, n) == [tree EXCEPT ![n] = NoNode]
copy_runtime_helper_file(tree) == [tree EXCEPT !["helper"] = Node("daemon", "0555")]

-----------------------------------------------------------------------------
Advance(from, to) == stage = from /\ stage' = to /\ UNCHANGED <<kind, launches, meddled>>
Refuse(from) ==
  /\ stage = from /\ stage' = "undo" /\ refused' = refused \cup {from}
  /\ UNCHANGED <<kind, fs, launches, meddled>>
Keep == UNCHANGED refused

(* A start of the replica, or an attempt of the run. *)
Launch ==
  /\ stage = "down" /\ launches < MaxLaunches
  /\ launches' = launches + 1 /\ stage' = "scratch"
  /\ UNCHANGED <<kind, fs, meddled, refused>>

(* The scratch directory of the last overlay mount.  A service takes it     *)
(* back and opens it before it is removed; a job just removes it.           *)
RemoveScratch ==
  /\ Advance("scratch", "create") /\ Keep
  /\ IF Present("scratch")
     THEN LET tree == IF kind = "service" THEN reclaim_runtime_dir_owner(fs, "scratch") ELSE fs IN
          fs' \in remove_dir_all(tree, "scratch")
     ELSE UNCHANGED fs

CreateLayers ==
  /\ Advance("create", "mountpoints") /\ Keep
  /\ fs' = create_runtime_directory(fs, {"dir", "denia"} \cup Overlay)

PrepareMountpoints ==
  /\ Advance("mountpoints", "socket") /\ Keep
  /\ fs' = [reclaim_runtime_dir_owner(create_runtime_directory(fs, {"tmp"}), "tmp")
              EXCEPT !["tmp"].mode = "1777"]

(* The socket's directory is taken back whole, emptied and given away. *)
prepare_socket_directory ==
  /\ Advance("socket", "layers") /\ Keep
  /\ fs' = IF kind = "job" THEN fs
           ELSE LET tree == restore_current_process_owner(create_runtime_directory(fs, {"socks"}), "socks")
                IN chown_overlay_dir(remove_existing_runtime_file(tree, "sock"), "socks")

(* The layers become the workload's.  One whose mode is not 0755 and that   *)
(* is the workload's already is beyond the daemon.                          *)
GiveLayers ==
  \/ /\ \A n \in Overlay : Traversable(fs, n)
     /\ Advance("layers", "stage") /\ Keep
     /\ fs' = chown_overlay_dir(chown_overlay_dir(chown_overlay_dir(fs, "upper"), "work"), "merged")
  \/ (\E n \in Overlay : ~Traversable(fs, n)) /\ Refuse("layers")

(* The helper is staged in a directory that is the daemon's again; any of   *)
(* this, and the cgroup, may fail.                                          *)
stage_runtime_helper ==
  /\ Advance("stage", "spawn") /\ Keep
  /\ fs' = copy_runtime_helper_file(restore_current_process_owner(fs, "denia"))

PreparationFails ==
  /\ stage \in {"scratch", "create", "mountpoints", "socket", "layers", "stage", "spawn"}
  /\ stage' = "undo" /\ UNCHANGED <<kind, fs, launches, meddled, refused>>

(* The overlay is mounted, which makes its scratch directory, and the       *)
(* workload runs.                                                           *)
Spawn ==
  /\ Advance("spawn", "up") /\ Keep /\ fs' = [fs EXCEPT !["scratch"] = Node("daemon", "0000")]

-----------------------------------------------------------------------------
(* The workload writes to its /tmp as any user of its range, serves its     *)
(* socket, or changes the mode of its root.                                 *)
WriteTmp ==
  /\ stage = "up" /\ \E owner \in {"base", "guest"} : fs' = [fs EXCEPT !["file"] = Node(owner, "0644")]
  /\ UNCHANGED <<kind, stage, launches, meddled, refused>>

BindSocket ==
  /\ stage = "up" /\ kind = "service" /\ fs' = [fs EXCEPT !["sock"] = Node("base", "0755")]
  /\ UNCHANGED <<kind, stage, launches, meddled, refused>>

ChmodRoot ==
  /\ stage = "up" /\ ~meddled /\ meddled' = TRUE /\ fs' = [fs EXCEPT !["upper"].mode = "0700"]
  /\ UNCHANGED <<kind, stage, launches, refused>>

Ends == stage = "up" /\ stage' = "undo" /\ UNCHANGED <<kind, fs, launches, meddled, refused>>

-----------------------------------------------------------------------------
(* remove_dir_if_exists, whose failure a service reports. *)
Wipe(tree) ==
  /\ fs' \in remove_dir_all([tree EXCEPT !["socks"] = NoNode, !["sock"] = NoNode], "dir")
  /\ refused' = IF kind = "service" /\ fs'["dir"] # NoNode THEN refused \cup {"wipe"} ELSE refused

(* The cgroup goes first, and while a process is left in it nothing else    *)
(* goes.  Then everything becomes the daemon's, and is removed.             *)
CleanupFiles ==
  /\ kind = "service" /\ Advance("undo", "down")
  /\ \/ Wipe(IF Present("dir") THEN restore_current_process_owner(fs, "dir") ELSE fs)
     \/ UNCHANGED <<fs, refused>>

(* The end of run_to_completion removes what it may, if it got as far as to *)
(* stage the helper.                                                        *)
run_to_completion ==
  /\ kind = "job" /\ Advance("undo", "down")
  /\ Wipe(fs) \/ UNCHANGED <<fs, refused>>

(* The daemon dies, and the next one's sweep removes the replica's          *)
(* directory as it finds it; the runs of jobs are not swept, and not        *)
(* resumed.                                                                 *)
sweep_one_replica ==
  /\ kind = "service" /\ stage # "down" /\ stage' = "down"
  /\ fs' \in remove_dir_all(fs, "dir")
  /\ UNCHANGED <<kind, launches, meddled, refused>>

ReplicaNext ==
  \/ Launch \/ RemoveScratch \/ CreateLayers \/ PrepareMountpoints \/ prepare_socket_directory
  \/ GiveLayers \/ stage_runtime_helper \/ PreparationFails \/ Spawn
  \/ WriteTmp \/ BindSocket \/ ChmodRoot \/ Ends
  \/ CleanupFiles \/ run_to_completion \/ sweep_one_replica

ReplicaSpec == ReplicaInit /\ [][ReplicaNext]_replicaVars

-----------------------------------------------------------------------------
(* Whatever a failed cleanup, a crash or an earlier attempt left, a launch  *)
(* never fails because a file is not the daemon's, unless the workload      *)
(* changed the mode of its own root; and a cleanup that starts on the files *)
(* removes them all.                                                        *)
NeverLockedOutOfFiles == refused # {} => meddled /\ refused = {"layers"}
=============================================================================
