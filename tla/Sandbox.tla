------------------------------ MODULE Sandbox -------------------------------
(***************************************************************************)
(* What a launch does to the process it creates, from the plan to the      *)
(* first instruction of the image (src/syscall/ns.rs, caps.rs, seccomp.rs; *)
(* plan and run_to_completion of src/runtime/linux.rs;                     *)
(* src/ingress/socket_proxy.rs and src/workload_launcher.rs).  Every step  *)
(* is a system call that the kernel grants or refuses by what the process  *)
(* is at that point, so the order of the steps is the contract.  How the   *)
(* two processes of a launch wait for each other is module Spawn.          *)
(***************************************************************************)
EXTENDS Naturals, Sequences, FiniteSets

CONSTANTS Socket, Helper   \* the paths of the binds inside the new root: tuples of names

ASSUME SandboxAssumption == Len(Socket) > 0 /\ Len(Helper) > 0

Names == {"old_root", "proc", "dev"} \cup {Socket[i] : i \in DOMAIN Socket}
           \cup {Helper[i] : i \in DOMAIN Helper}

VARIABLES
  plan,     \* service or job, the user of the image, whether it has a read-only bind
  lower,    \* lower[n]: what the image has at a name: none, dir, link or file
  upper,    \* the same of the writable layer
  at,       \* the next step
  self,     \* what the process is to the kernel
  mounts,   \* the mounts made under the new root: what was on their paths
  blame,    \* why a launch failed: a system call that may fail, or the image; or nobody
  app       \* the process of the image: who it is and what it inherited

sandboxVars == <<plan, lower, upper, at, self, mounts, blame, app>>

NoApp == [user |-> "none", self |-> <<>>, exit |-> "none"]

SandboxInit ==
  /\ plan \in [form : {"service", "job"}, user : {"root", "other"}, ro : BOOLEAN]
  /\ lower \in {f \in [Names -> {"none", "dir", "link", "file"}] :
                 \A n \in Names : f[n] = "file" => n = Helper[Len(Helper)]}
  /\ upper = [n \in Names |-> "none"]
  /\ at = "validate" /\ mounts = {} /\ blame = "none" /\ app = NoApp
  /\ self = [caps |-> "host", mapped |-> FALSE, root |-> "host", locked |-> FALSE, proc |-> "none",
             old |-> TRUE, lo |-> FALSE, nnp |-> FALSE, bounding |-> TRUE, filter |-> FALSE,
             limits |-> FALSE, fds |-> TRUE]

(* What the overlay shows: the writable layer is on top. *)
Merged(n) == IF upper[n] # "none" THEN upper[n] ELSE lower[n]

(* A step: it is granted, or refused because of the steps before it, or it  *)
(* fails for a reason of its own, and with it the launch                    *)
(* (child_setup_fail).                                                      *)
SysCall(from, to, granted, effect) ==
  /\ at = from
  /\ \/ granted /\ at' = to /\ self' = effect /\ UNCHANGED blame
     \/ ~granted /\ at' = "failed" /\ UNCHANGED <<self, blame>>
     \/ at' = "failed" /\ blame' = "fault" /\ UNCHANGED self

(* A step that the code makes without looking at its result. *)
Try(from, to, granted, effect) ==
  /\ at = from /\ at' = to
  /\ \/ granted /\ self' = effect
     \/ UNCHANGED self
  /\ UNCHANGED blame

CanMount == self.caps # "none" /\ ~self.filter
Privileged == self.caps = "host" /\ ~self.filter

-----------------------------------------------------------------------------
(* The plan.  A service defers its hardening to the socket proxy. *)

with_deferred_hardening(form) ==
  [nnp |-> form = "job", bounding |-> form = "job", seccomp |-> form = "job"]

(* validate, setup_plan and native_launch_plan: a path that is not          *)
(* absolute, or text with a null byte, ends it.                             *)
native_launch_plan ==
  /\ at = "validate"
  /\ \/ at' = "prepare" /\ UNCHANGED blame
     \/ at' = "failed" /\ blame' = "fault"
  /\ UNCHANGED <<plan, lower, upper, self, mounts, app>>

(* Every mount point of the launcher is made in the writable layer, in      *)
(* front of whatever the image has there.                                   *)
prepare_overlay_mountpoints ==
  [n \in Names |-> IF n \in {"old_root", "proc", "dev"} THEN "dir" ELSE upper[n]]

(* prepare_socket_directory: of a service only. *)
WithSocketDir(layer) ==
  [n \in Names |-> IF plan.form = "service" /\ \E i \in DOMAIN Socket : Socket[i] = n
                   THEN "dir" ELSE layer[n]]

Prepare ==
  /\ at = "prepare" /\ upper' = WithSocketDir(prepare_overlay_mountpoints)
  /\ at' = "private"
  /\ UNCHANGED <<plan, lower, self, mounts, blame, app>>

-----------------------------------------------------------------------------
(* BuildRoot, in the namespaces and with the capabilities of the            *)
(* daemon.  A mount lands where the path leads; a name that is missing is   *)
(* made, and a name that is there is taken as it is.                        *)
MountOn(n) == mounts' = mounts \cup {{Merged(n)}}

BuildRoot ==
  \/ SysCall("private", "overlay", Privileged, self) /\ UNCHANGED mounts
  \/ SysCall("overlay", "proc", Privileged, [self EXCEPT !.root = "overlay"]) /\ UNCHANGED mounts
  \/ /\ SysCall("proc", "ro", Privileged, [self EXCEPT !.proc = "host"])
     /\ IF at' = "ro" THEN MountOn("proc") ELSE UNCHANGED mounts

(* Each name on the way is made, or must be a directory and not a link. *)
mkdir_mountpoint_component_no_symlink(n) == Merged(n) \in {"none", "dir"}

(* A file to bind a file on is made, or must be a file and not a link. *)
mountpoint_is_regular_file(n) == Merged(n) \in {"none", "file"}

Accepted(n, last) ==
  IF n = last THEN mountpoint_is_regular_file(n) ELSE mkdir_mountpoint_component_no_symlink(n)

(* A bind on a path whose name `last', if any, is that of a file. *)
BindOn(from, to, path, last) ==
  LET on == {path[i] : i \in DOMAIN path}
      sound == \A n \in on : Accepted(n, last) IN
  /\ at = from
  /\ \/ /\ sound /\ Privileged
        /\ upper' = [n \in Names |-> IF n \in on /\ Merged(n) = "none"
                                    THEN (IF n = last THEN "file" ELSE "dir") ELSE upper[n]]
        /\ mounts' = mounts \cup {{Merged(n) : n \in on}}
        /\ at' = to /\ UNCHANGED blame
     \/ /\ at' = "failed" /\ UNCHANGED <<upper, mounts>>
        /\ blame' = IF ~sound THEN "image" ELSE IF Privileged THEN "fault" ELSE blame
  /\ UNCHANGED self

child_apply_ro_bind == plan.ro /\ BindOn("ro", "dev", Helper, Helper[Len(Helper)])
NoRoBind == ~plan.ro /\ at = "ro" /\ at' = "dev" /\ UNCHANGED <<upper, self, mounts, blame>>

(* A tmpfs over /dev, with the nodes of the host bound into it. *)
child_setup_dev ==
  /\ SysCall("dev", IF plan.form = "service" THEN "socket" ELSE "unshare", Privileged, self)
  /\ IF at' = "failed" THEN UNCHANGED mounts ELSE MountOn("dev")

child_bind_dir_rw == BindOn("socket", "unshare", Socket, "none")

PrepareRoot ==
  /\ \/ (BuildRoot \/ child_setup_dev) /\ UNCHANGED upper
     \/ child_apply_ro_bind \/ NoRoBind \/ child_bind_dir_rw
  /\ UNCHANGED <<plan, lower, app>>

-----------------------------------------------------------------------------
(* ExecChild.  In a user namespace of its own the process has every         *)
(* capability over it and none over the host; the mounts it inherits are    *)
(* locked.                                                                  *)
Unshare ==
  SysCall("unshare", "map", self.caps = "host", [self EXCEPT !.caps = "ns", !.locked = TRUE])

(* The parent writes the maps, and releases the child. *)
write_id_maps == SysCall("map", "setres", TRUE, [self EXCEPT !.mapped = TRUE])

EnterMappedRoot(from, to) == SysCall(from, to, self.mapped, self)

SelfBind == SysCall("self bind", "mount proc", CanMount, [self EXCEPT !.locked = FALSE])

(* A procfs of its own needs one in sight that is not covered.  One that    *)
(* the kernel still denies leaves what BuildRoot bound there.               *)
mount_proc ==
  \/ SysCall("mount proc", "pivot", CanMount /\ self.old, [self EXCEPT !.proc = "own"])
  \/ Try("mount proc", "pivot", FALSE, self)

pivot_root ==
  SysCall("pivot", "mask", self.root = "overlay" /\ ~self.locked /\ self.caps # "none",
       [self EXCEPT !.root = "pivoted"])

mask_proc_paths == Try("mask", "detach", CanMount, self)

DetachOldRoot == SysCall("detach", "chdir", CanMount, [self EXCEPT !.old = FALSE])

(* The probe fails the launch on a read-only root only; the work directory  *)
(* was made before the pivot.                                               *)
EnterWorkdir == SysCall("chdir", "loopback", self.root = "pivoted", self)

bring_loopback_up == SysCall("loopback", "nnp", self.caps # "none", [self EXCEPT !.lo = TRUE])

Hardening == with_deferred_hardening(plan.form)

try_set_no_new_privs ==
  SysCall("nnp", "bounding", TRUE, [self EXCEPT !.nnp = Hardening.nnp])

try_drop_bounding_caps ==
  SysCall("bounding", "limits", Hardening.bounding => self.caps # "none",
       [self EXCEPT !.bounding = ~Hardening.bounding])

apply_rlimits == SysCall("limits", "filter", TRUE, [self EXCEPT !.limits = TRUE])

(* seccomp(2) is on its own list: a second filter is refused. *)
install_filter(from, to, wanted) ==
  SysCall(from, to, wanted => ~self.filter, [self EXCEPT !.filter = @ \/ wanted, !.nnp = @ \/ wanted])

close_inherited_fds == Try("fds", "setres again", TRUE, [self EXCEPT !.fds = FALSE])

(* execve of the helper as the root of the namespace: its capabilities are  *)
(* those of the bounding set.  Descriptors that are open are marked to be   *)
(* closed.                                                                  *)
execve ==
  SysCall("exec", plan.form, self.root = "pivoted",
       [self EXCEPT !.fds = FALSE, !.caps = IF self.bounding THEN "ns" ELSE "none"])

ExecChild ==
  /\ \/ Unshare \/ write_id_maps \/ EnterMappedRoot("setres", "self bind") \/ SelfBind \/ mount_proc
     \/ pivot_root \/ mask_proc_paths \/ DetachOldRoot \/ EnterWorkdir \/ bring_loopback_up
     \/ try_set_no_new_privs \/ try_drop_bounding_caps \/ apply_rlimits
     \/ install_filter("filter", "fds", Hardening.seccomp) \/ close_inherited_fds
     \/ EnterMappedRoot("setres again", "exec") \/ execve
  /\ UNCHANGED <<plan, lower, upper, mounts, app>>

-----------------------------------------------------------------------------
(* The helper.  It starts the program of the image as the image's user:     *)
(* another one than root needs the capability to become it.                 *)
SpawnAs(from, to) ==
  /\ SysCall(from, to, plan.user = "root" \/ self.caps # "none", self)
  /\ app' = IF at' = to THEN [user |-> plan.user, self |-> self, exit |-> "none"] ELSE app

drop_bounding_caps(from, to) ==
  /\ SysCall(from, to, self.caps # "none", [self EXCEPT !.bounding = FALSE]) /\ UNCHANGED app

(* Slip: the program is started, and then the proxy hardens itself. *)
socket_proxy_run_Late ==
  \/ SpawnAs("service", "bound")
  \/ install_filter("bound", "drop", TRUE) /\ UNCHANGED app
  \/ drop_bounding_caps("drop", "serving")

(* The socket is bound and the proxy hardened before the program starts. *)
socket_proxy_run ==
  \/ install_filter("service", "bound", TRUE) /\ UNCHANGED app
  \/ SpawnAs("bound", "drop")
  \/ drop_bounding_caps("drop", "serving")

workload_launcher_run ==
  \/ SpawnAs("job", "running")
  \/ drop_bounding_caps("ended", "reported")

(* The program of a job ends; the launcher has waited for it. *)
AppEnds ==
  /\ at = "running" /\ at' = "ended"
  /\ \E code \in {"zero", "other"} : app' = [app EXCEPT !.exit = code]
  /\ UNCHANGED <<self, blame>>

Helping ==
  /\ socket_proxy_run \/ workload_launcher_run \/ AppEnds
  /\ UNCHANGED <<plan, lower, upper, mounts>>

SandboxNext == native_launch_plan \/ Prepare \/ PrepareRoot \/ ExecChild \/ Helping

SandboxSpec == SandboxInit /\ [][SandboxNext]_sandboxVars

-----------------------------------------------------------------------------
(* The program of the image runs only in its own root, with the old one     *)
(* detached, behind the filter and no_new_privs, within its limits and      *)
(* without descriptors of the daemon, whether the launch hardens itself     *)
(* (jobs) or leaves that to the proxy (services).                           *)
WorkloadIsConfined ==
  app.user # "none" =>
    /\ app.self.root = "pivoted" /\ ~app.self.old
    /\ app.self.filter /\ app.self.nnp /\ app.self.limits /\ ~app.self.fds
    /\ app.self.mapped /\ app.self.caps # "host"

(* A mount made with the capabilities of the daemon lands on directories of *)
(* the new root, whatever links the image has at these names.               *)
MountsStayInside == \A found \in mounts : "link" \notin found

(* The launch of a service never fails by its own doing: no step is refused *)
(* because of one before it.                                                *)
ServiceLaunchIsOrdered ==
  plan.form = "service" /\ at = "failed" => blame # "none"

(* "socket-proxy and workload-launcher keep running as userns root for      *)
(* their Denia setup/hardening work, then spawn the actual workload child   *)
(* with the manifest uid/gid" (docs/adr/038): neither helper fails at its   *)
(* part when nothing else does.                                             *)
HelpersDoTheirPart == at = "failed" => blame # "none"
=============================================================================
