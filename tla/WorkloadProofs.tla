--------------------------- MODULE WorkloadProofs ---------------------------
(* What a workload's sandbox, its way to the first request and its files    *)
(* guarantee, whichever steps fail and however often it is launched; what   *)
(* the runtime's stops and boots guarantee; and what the commands that      *)
(* install the daemon, and its upgrades, leave of the host and the data.    *)
EXTENDS Sandbox, Proxy, Replica, Runtime, Install, Migrate, TLAPS

(* The steps of the helper, in the order of the code: those of the guest    *)
(* that serves a service, those of the init that runs a job, and the        *)
(* suffixes of the launch sequence that begin behind a given step.          *)
OfService == {"service", "bound", "drop", "serving"}
OfJob == {"job", "running", "ended", "reported"}
Helpers == OfService \cup OfJob
Closing == {"fds", "setres again", "exec"} \cup Helpers
InLimits == {"filter"} \cup Closing
Outside == {"chdir", "loopback", "nnp", "bounding", "limits"} \cup InLimits
InRoot == {"mask", "detach"} \cup Outside
InMap == {"setres", "self bind", "mount proc", "pivot"} \cup InRoot
Sealed == OfJob \cup {"bound", "drop", "serving"}

(* Types: what the process may be. *)
SelfType ==
  [caps : {"host", "ns", "none"}, mapped : BOOLEAN, root : {"host", "overlay", "pivoted"}, locked : BOOLEAN,
   proc : {"none", "host", "own"}, old : BOOLEAN, lo : BOOLEAN, nnp : BOOLEAN, bounding : BOOLEAN,
   filter : BOOLEAN, limits : BOOLEAN, fds : BOOLEAN]

Apps == [user : {"none", "root", "other"}, self : SelfType \cup {<<>>}, exit : {"none", "zero", "other"}]

(* What WorkloadIsConfined says of the process that becomes the workload. *)
ConfinedSelf(k) ==
    /\ k.root = "pivoted" /\ ~k.old
    /\ k.filter /\ k.nnp /\ k.limits /\ ~k.fds
    /\ k.mapped /\ k.caps # "host"

(* What holds of the process once it is at step a: every step of the        *)
(* sequence leaves a mark that no later one takes away.                     *)
SelfOK(k, a) ==
  /\ a = "map" => k.caps # "host"
  /\ a \in InMap => k.mapped /\ k.caps # "host"
  /\ a \in InRoot => k.root = "pivoted"
  /\ a \in Outside => ~k.old
  /\ a \in InLimits => k.limits
  /\ a \in Closing /\ plan.form = "job" => k.filter /\ k.nnp
  /\ a \in Sealed => k.filter /\ k.nnp
  /\ a \in Helpers => ~k.fds

(* The inductive invariant: the above, and that a workload was started from *)
(* a process that had all the marks.                                        *)
SandboxInv ==
  /\ plan.form \in {"service", "job"} /\ plan.user \in {"root", "other"}
  /\ self \in SelfType
  /\ at \in OfService => plan.form = "service"
  /\ at \in OfJob => plan.form = "job"
  /\ SelfOK(self, at)
  /\ app \in Apps /\ (app.user # "none" => ConfinedSelf(app.self))

(* One step of the sequence succeeds with a process that has the marks it   *)
(* must have, or the whole launch fails.                                    *)
LEMMA SelfStep ==
  ASSUME SandboxInv, NEW from, NEW to, NEW k \in SelfType, at = from, UNCHANGED <<plan, app>>,
         (at' = to /\ self' = k) \/ (at' = "failed" /\ self' = self), SelfOK(k, to),
         to \in OfService => plan.form = "service", to \in OfJob => plan.form = "job"
  PROVE  SandboxInv'
<1>1. SelfOK(self, "failed") BY DEF SelfOK, InMap, InRoot, Outside, InLimits, Closing, Helpers, OfService, OfJob, Sealed
<1> QED BY <1>1 DEF SandboxInv, Helpers, OfService, OfJob, SelfOK

(* The two places where the system-call filter is loaded: before the        *)
(* program of a service's helper is executed, where it is optional for a    *)
(* service, and after the guest has bound its socket.                       *)
Filters(from, to, wanted) ==
  \/ from = "filter" /\ to = "fds" /\ (plan.form = "job" => wanted)
  \/ from = "service" /\ to = "bound" /\ wanted

(* Every step preserves the invariant. *)
LEMMA SandboxStep == ASSUME SandboxInv, [SandboxNext]_sandboxVars PROVE SandboxInv'
<1> USE DEF InMap, InRoot, Outside, InLimits, Closing, Helpers, OfService, OfJob, Sealed
<1>t. self \in SelfType /\ SelfOK(self, at) /\ plan.form \in {"service", "job"} BY DEF SandboxInv
<1>1. CASE UNCHANGED sandboxVars BY <1>1 DEF sandboxVars, SandboxInv, SelfOK
<1>2. ASSUME Unshare, UNCHANGED <<plan, app>> PROVE SandboxInv'
  <2> DEFINE k == [self EXCEPT !.caps = "ns", !.locked = TRUE]
  <2>1. k \in SelfType /\ k.caps = "ns" BY <1>t DEF SelfType
  <2>2. at = "unshare" /\ ((at' = "map" /\ self' = k) \/ (at' = "failed" /\ self' = self)) BY <1>2 DEF Unshare, SysCall
  <2> HIDE DEF k
  <2>3. SelfOK(k, "map") BY <1>t, <2>1, <2>2 DEF SelfOK
  <2> QED BY <1>2, <2>1, <2>2, <2>3, SelfStep
<1>3. ASSUME write_id_maps, UNCHANGED <<plan, app>> PROVE SandboxInv'
  <2> DEFINE k == [self EXCEPT !.mapped = TRUE]
  <2>1. k \in SelfType /\ k.mapped /\ k.caps = self.caps BY <1>t DEF SelfType
  <2>2. at = "map" /\ ((at' = "setres" /\ self' = k) \/ (at' = "failed" /\ self' = self)) BY <1>3 DEF write_id_maps, SysCall
  <2> HIDE DEF k
  <2>3. SelfOK(k, "setres") BY <1>t, <2>1, <2>2 DEF SelfOK
  <2> QED BY <1>3, <2>1, <2>2, <2>3, SelfStep
<1>4. ASSUME SelfBind, UNCHANGED <<plan, app>> PROVE SandboxInv'
  <2> DEFINE k == [self EXCEPT !.locked = FALSE]
  <2>1. k \in SelfType /\ (k.mapped <=> self.mapped) /\ k.caps = self.caps BY <1>t DEF SelfType
  <2>2. at = "self bind" /\ ((at' = "mount proc" /\ self' = k) \/ (at' = "failed" /\ self' = self)) BY <1>4 DEF SelfBind, SysCall
  <2> HIDE DEF k
  <2>3. SelfOK(k, "mount proc") BY <1>t, <2>1, <2>2 DEF SelfOK
  <2> QED BY <1>4, <2>1, <2>2, <2>3, SelfStep
<1>5. ASSUME pivot_root, UNCHANGED <<plan, app>> PROVE SandboxInv'
  <2> DEFINE k == [self EXCEPT !.root = "pivoted"]
  <2>1. k \in SelfType /\ (k.mapped <=> self.mapped) /\ k.caps = self.caps /\ k.root = "pivoted" BY <1>t DEF SelfType
  <2>2. at = "pivot" /\ ((at' = "mask" /\ self' = k) \/ (at' = "failed" /\ self' = self)) BY <1>5 DEF pivot_root, SysCall
  <2> HIDE DEF k
  <2>3. SelfOK(k, "mask") BY <1>t, <2>1, <2>2 DEF SelfOK
  <2> QED BY <1>5, <2>1, <2>2, <2>3, SelfStep
<1>6. ASSUME DetachOldRoot, UNCHANGED <<plan, app>> PROVE SandboxInv'
  <2> DEFINE k == [self EXCEPT !.old = FALSE]
  <2>1. k \in SelfType /\ (k.mapped <=> self.mapped) /\ k.caps = self.caps /\ k.root = self.root /\ ~k.old BY <1>t DEF SelfType
  <2>2. at = "detach" /\ ((at' = "chdir" /\ self' = k) \/ (at' = "failed" /\ self' = self)) BY <1>6 DEF DetachOldRoot, SysCall
  <2> HIDE DEF k
  <2>3. SelfOK(k, "chdir") BY <1>t, <2>1, <2>2 DEF SelfOK
  <2> QED BY <1>6, <2>1, <2>2, <2>3, SelfStep
<1>7. ASSUME bring_loopback_up, UNCHANGED <<plan, app>> PROVE SandboxInv'
  <2> DEFINE k == [self EXCEPT !.lo = TRUE]
  <2>1. k \in SelfType /\ (k.mapped <=> self.mapped) /\ k.caps = self.caps /\ k.root = self.root /\ (k.old <=> self.old) BY <1>t DEF SelfType
  <2>2. at = "loopback" /\ ((at' = "nnp" /\ self' = k) \/ (at' = "failed" /\ self' = self)) BY <1>7 DEF bring_loopback_up, SysCall
  <2> HIDE DEF k
  <2>3. SelfOK(k, "nnp") BY <1>t, <2>1, <2>2 DEF SelfOK
  <2> QED BY <1>7, <2>1, <2>2, <2>3, SelfStep
<1>8. ASSUME apply_rlimits, UNCHANGED <<plan, app>> PROVE SandboxInv'
  <2> DEFINE k == [self EXCEPT !.limits = TRUE]
  <2>1. k \in SelfType /\ (k.mapped <=> self.mapped) /\ k.caps = self.caps /\ k.root = self.root /\ (k.old <=> self.old) /\ k.limits BY <1>t DEF SelfType
  <2>2. at = "limits" /\ ((at' = "filter" /\ self' = k) \/ (at' = "failed" /\ self' = self)) BY <1>8 DEF apply_rlimits, SysCall
  <2> HIDE DEF k
  <2>3. SelfOK(k, "filter") BY <1>t, <2>1, <2>2 DEF SelfOK
  <2> QED BY <1>8, <2>1, <2>2, <2>3, SelfStep
<1>e. ASSUME at' \notin InMap \cup {"map"}, self' \in SelfType, UNCHANGED <<plan, app>> PROVE SandboxInv'
  <2>1. SelfOK(self, at)' BY <1>e DEF SelfOK
  <2> QED BY <1>e, <2>1 DEF SandboxInv
<1>9. ASSUME native_launch_plan \/ Prepare PROVE SandboxInv' BY <1>9, <1>e, <1>t DEF native_launch_plan, Prepare
<1>10. ASSUME PrepareRoot PROVE SandboxInv'
  <2>0. UNCHANGED <<plan, app>> BY <1>10 DEF PrepareRoot
  <2>1. ASSUME BuildRoot PROVE SandboxInv'
    <3>1. [self EXCEPT !.root = "overlay"] \in SelfType /\ [self EXCEPT !.proc = "host"] \in SelfType BY <1>t DEF SelfType
    <3>2. at' \in {"overlay", "proc", "ro", "failed"} /\ self' \in SelfType BY <1>t, <2>1, <3>1 DEF BuildRoot, SysCall
    <3> QED BY <2>0, <3>2, <1>e
  <2>2. ASSUME child_setup_dev PROVE SandboxInv'
    <3>1. at' \in {"socket", "unshare", "failed"} /\ self' = self BY <2>2 DEF child_setup_dev, SysCall
    <3> QED BY <2>0, <3>1, <1>e, <1>t
  <2>3. ASSUME NEW from, NEW to \in {"dev", "unshare"}, NEW path, NEW last, BindOn(from, to, path, last) PROVE SandboxInv'
    <3>1. at' \in {"dev", "unshare", "failed"} /\ self' = self BY <2>3 DEF BindOn
    <3> QED BY <2>0, <3>1, <1>e, <1>t
  <2>4. ASSUME NoRoBind PROVE SandboxInv' BY <2>0, <2>4, <1>e, <1>t DEF NoRoBind
  <2> QED BY <1>10, <2>1, <2>2, <2>3, <2>4 DEF PrepareRoot, child_apply_ro_bind, child_bind_dir_rw
<1>11. ASSUME NEW from, NEW to, at' = to \/ at' = "failed", self' = self, at = from, SelfOK(self, to), to \notin Helpers, UNCHANGED <<plan, app>>
       PROVE SandboxInv'
  BY <1>11, <1>t, SelfStep
<1>12. ASSUME EnterMappedRoot("setres", "self bind") \/ EnterMappedRoot("setres again", "exec") \/ EnterWorkdir \/ mask_proc_paths,
              UNCHANGED <<plan, app>> PROVE SandboxInv'
  <2>1. self' = self BY <1>12 DEF EnterMappedRoot, EnterWorkdir, mask_proc_paths, SysCall, Try
  <2>2. \/ at = "setres" /\ at' \in {"self bind", "failed"}
        \/ at = "setres again" /\ at' \in {"exec", "failed"}
        \/ at = "chdir" /\ at' \in {"loopback", "failed"}
        \/ at = "mask" /\ at' \in {"detach", "failed"}
    BY <1>12 DEF EnterMappedRoot, EnterWorkdir, mask_proc_paths, SysCall, Try
  <2>3. SelfOK(self, at') BY <1>t, <2>2 DEF SelfOK
  <2>4. at' \notin Helpers BY <2>2
  <2> QED BY <1>12, <2>1, <2>3, <2>4 DEF SandboxInv, SelfOK
<1>13. ASSUME mount_proc, UNCHANGED <<plan, app>> PROVE SandboxInv'
  <2> DEFINE k == [self EXCEPT !.proc = "own"]
  <2>1. k \in SelfType /\ (k.mapped <=> self.mapped) /\ k.caps = self.caps BY <1>t DEF SelfType
  <2>2. at = "mount proc" /\ at' \in {"pivot", "failed"} /\ (self' = k \/ self' = self) BY <1>13 DEF mount_proc, SysCall, Try
  <2> HIDE DEF k
  <2>3. SelfOK(k, "pivot") /\ SelfOK(self, "pivot") /\ SelfOK(k, "failed") /\ SelfOK(self, "failed")
    BY <1>t, <2>1, <2>2 DEF SelfOK
  <2> QED BY <1>13, <2>1, <2>2, <2>3 DEF SandboxInv, SelfOK
<1>14. ASSUME try_set_no_new_privs, UNCHANGED <<plan, app>> PROVE SandboxInv'
  <2>0. PICK b \in BOOLEAN : b = (plan.form = "job")
    <3> WITNESS (plan.form = "job") \in BOOLEAN
    <3> QED OBVIOUS
  <2> DEFINE k == [self EXCEPT !.nnp = b]
  <2>1. k \in SelfType /\ (k.mapped <=> self.mapped) /\ k.caps = self.caps /\ k.root = self.root /\ (k.old <=> self.old)
    BY <1>t DEF SelfType
  <2>h. Hardening.nnp = b BY <2>0 DEF Hardening, with_deferred_hardening
  <2>2. at = "nnp" /\ ((at' = "bounding" /\ self' = k) \/ (at' = "failed" /\ self' = self))
    BY <1>14, <2>h DEF try_set_no_new_privs, SysCall
  <2> HIDE DEF k
  <2>3. SelfOK(k, "bounding") BY <1>t, <2>1, <2>2 DEF SelfOK
  <2> QED BY <1>14, <2>1, <2>2, <2>3, SelfStep
<1>15. ASSUME try_drop_bounding_caps, UNCHANGED <<plan, app>> PROVE SandboxInv'
  <2>h. PICK b \in BOOLEAN : b = (~Hardening.bounding)
    <3> WITNESS (~Hardening.bounding) \in BOOLEAN
    <3> QED OBVIOUS
  <2> DEFINE k == [self EXCEPT !.bounding = b]
  <2>1. k \in SelfType /\ (k.mapped <=> self.mapped) /\ k.caps = self.caps /\ k.root = self.root /\ (k.old <=> self.old)
    BY <1>t DEF SelfType
  <2>2. at = "bounding" /\ ((at' = "limits" /\ self' = k) \/ (at' = "failed" /\ self' = self))
    BY <1>15, <2>h, Zenon DEF try_drop_bounding_caps, SysCall
  <2> HIDE DEF k
  <2>3. SelfOK(k, "limits") BY <1>t, <2>1, <2>2 DEF SelfOK
  <2> QED BY <1>15, <2>1, <2>2, <2>3, SelfStep
<1>16. ASSUME NEW from, NEW to, NEW wanted \in BOOLEAN, install_filter(from, to, wanted), UNCHANGED <<plan, app>>,
              Filters(from, to, wanted)
       PROVE SandboxInv'
  <2>f. PICK f \in BOOLEAN : f = (self.filter \/ wanted)
    <3> WITNESS (self.filter \/ wanted) \in BOOLEAN
    <3> QED OBVIOUS
  <2>p. PICK p \in BOOLEAN : p = (self.nnp \/ wanted)
    <3> WITNESS (self.nnp \/ wanted) \in BOOLEAN
    <3> QED OBVIOUS
  <2> DEFINE k == [self EXCEPT !.filter = f, !.nnp = p]
  <2>1. k \in SelfType /\ (k.mapped <=> self.mapped) /\ k.caps = self.caps /\ k.root = self.root /\ (k.old <=> self.old)
        /\ (k.limits <=> self.limits) /\ (k.fds <=> self.fds) /\ k.filter = f /\ k.nnp = p
    BY <1>t DEF SelfType
  <2>2. at = from /\ ((at' = to /\ self' = k) \/ (at' = "failed" /\ self' = self))
    BY <1>16, <2>f, <2>p, Zenon DEF install_filter, SysCall
  <2>w. wanted => k.filter /\ k.nnp BY <2>f, <2>p, <2>1
  <2> HIDE DEF k
  <2>3. SelfOK(k, to) BY <1>16, <1>t, <2>1, <2>2, <2>w DEF SelfOK, Filters
  <2>4. to \in OfService => plan.form = "service" BY <1>16, <2>2 DEF SandboxInv, Filters
  <2>5. to \notin OfJob BY <1>16 DEF Filters
  <2> QED BY <1>16, <2>1, <2>2, <2>3, <2>4, <2>5, SelfStep
<1>17. ASSUME close_inherited_fds, UNCHANGED <<plan, app>> PROVE SandboxInv'
  <2> DEFINE k == [self EXCEPT !.fds = FALSE]
  <2>1. k \in SelfType /\ (k.mapped <=> self.mapped) /\ k.caps = self.caps /\ k.root = self.root /\ (k.old <=> self.old)
        /\ (k.limits <=> self.limits) /\ (k.filter <=> self.filter) /\ (k.nnp <=> self.nnp)
    BY <1>t DEF SelfType
  <2>2. at = "fds" /\ at' = "setres again" /\ (self' = k \/ self' = self) BY <1>17 DEF close_inherited_fds, Try
  <2> HIDE DEF k
  <2>3. SelfOK(k, "setres again") /\ SelfOK(self, "setres again") BY <1>t, <2>1, <2>2 DEF SelfOK
  <2> QED BY <1>17, <2>1, <2>2, <2>3 DEF SandboxInv, SelfOK
<1>18. ASSUME execve, UNCHANGED <<plan, app>> PROVE SandboxInv'
  <2>0. PICK caps \in {"ns", "none"} : caps = (IF self.bounding THEN "ns" ELSE "none") OBVIOUS
  <2> DEFINE k == [self EXCEPT !.fds = FALSE, !.caps = caps]
  <2>1. k \in SelfType /\ (k.mapped <=> self.mapped) /\ k.caps = caps /\ k.root = self.root /\ (k.old <=> self.old)
        /\ (k.limits <=> self.limits) /\ (k.filter <=> self.filter) /\ (k.nnp <=> self.nnp) /\ ~k.fds
    BY <1>t DEF SelfType
  <2>2. at = "exec" /\ ((at' = plan.form /\ self' = k) \/ (at' = "failed" /\ self' = self))
    BY <1>18, <2>0 DEF execve, SysCall
  <2> HIDE DEF k
  <2>3. SelfOK(k, plan.form) BY <1>t, <2>0, <2>1, <2>2 DEF SelfOK
  <2> QED BY <1>18, <1>t, <2>1, <2>2, <2>3, SelfStep
<1>19. ASSUME ExecChild PROVE SandboxInv'
  <2>1. UNCHANGED <<plan, app>> BY <1>19 DEF ExecChild
  <2>2. ASSUME install_filter("filter", "fds", Hardening.seccomp) PROVE SandboxInv'
    <3>1. PICK w \in BOOLEAN : w = (plan.form = "job")
      <4> WITNESS (plan.form = "job") \in BOOLEAN
      <4> QED OBVIOUS
    <3>2. Hardening.seccomp = w BY <3>1 DEF Hardening, with_deferred_hardening
    <3>3. install_filter("filter", "fds", w) BY <2>2, <3>2
    <3>4. Filters("filter", "fds", w) BY <3>1 DEF Filters
    <3> QED BY <2>1, <3>3, <3>4, <1>16, Zenon
  <2> QED BY <1>19, <2>1, <2>2, <1>2, <1>3, <1>4, <1>5, <1>6, <1>7, <1>8, <1>12, <1>13, <1>14, <1>15, <1>17, <1>18 DEF ExecChild
<1>20. ASSUME SpawnAs("bound", "drop") \/ SpawnAs("job", "running"), UNCHANGED plan PROVE SandboxInv'
  <2>1. self' = self /\ ((at = "bound" /\ at' \in {"drop", "failed"}) \/ (at = "job" /\ at' \in {"running", "failed"}))
    <3>1. CASE SpawnAs("bound", "drop")
      <4>1. SysCall("bound", "drop", plan.user = "root" \/ self.caps # "none", self) BY <3>1 DEF SpawnAs
      <4> QED BY <4>1 DEF SysCall
    <3>2. CASE SpawnAs("job", "running")
      <4>1. SysCall("job", "running", plan.user = "root" \/ self.caps # "none", self) BY <3>2 DEF SpawnAs
      <4> QED BY <4>1 DEF SysCall
    <3> QED BY <1>20, <3>1, <3>2
  <2>2. app' = app \/ app' = [user |-> plan.user, self |-> self, exit |-> "none"] BY <1>20 DEF SpawnAs
  <2>3. ConfinedSelf(self) BY <1>t, <2>1 DEF SelfOK, ConfinedSelf
  <2>4. app' \in Apps /\ (app'.user # "none" => ConfinedSelf(app'.self))
    <3>1. CASE app' = app BY <3>1 DEF SandboxInv
    <3>2. CASE app' = [user |-> plan.user, self |-> self, exit |-> "none"]
      BY <3>2, <2>3, <1>t DEF SandboxInv, Apps
    <3> QED BY <2>2, <3>1, <3>2
  <2>5. SelfOK(self, at)' BY <1>20, <1>t, <2>1 DEF SelfOK
  <2> QED BY <1>20, <2>1, <2>4, <2>5 DEF SandboxInv
<1>21. ASSUME drop_bounding_caps("drop", "serving") \/ drop_bounding_caps("ended", "reported"), UNCHANGED plan PROVE SandboxInv'
  <2> DEFINE k == [self EXCEPT !.bounding = FALSE]
  <2>1. k \in SelfType /\ (k.mapped <=> self.mapped) /\ k.caps = self.caps /\ k.root = self.root /\ (k.old <=> self.old)
        /\ (k.limits <=> self.limits) /\ (k.filter <=> self.filter) /\ (k.nnp <=> self.nnp) /\ (k.fds <=> self.fds)
    BY <1>t DEF SelfType
  <2>2. PICK to \in {"serving", "reported"} :
          /\ (at = "drop" /\ to = "serving") \/ (at = "ended" /\ to = "reported")
          /\ (at' = to /\ self' = k) \/ (at' = "failed" /\ self' = self)
    <3>1. CASE drop_bounding_caps("drop", "serving")
      <4>1. at = "drop" /\ ((at' = "serving" /\ self' = k) \/ (at' = "failed" /\ self' = self))
        BY <3>1 DEF drop_bounding_caps, SysCall
      <4> HIDE DEF k
      <4> WITNESS "serving" \in {"serving", "reported"}
      <4> QED BY <4>1
    <3>2. CASE drop_bounding_caps("ended", "reported")
      <4>1. at = "ended" /\ ((at' = "reported" /\ self' = k) \/ (at' = "failed" /\ self' = self))
        BY <3>2 DEF drop_bounding_caps, SysCall
      <4> HIDE DEF k
      <4> WITNESS "reported" \in {"serving", "reported"}
      <4> QED BY <4>1
    <3> QED BY <1>21, <3>1, <3>2
  <2>3. UNCHANGED app BY <1>21 DEF drop_bounding_caps
  <2> HIDE DEF k
  <2>4. SelfOK(k, to) BY <1>t, <2>1, <2>2 DEF SelfOK
  <2>5. (to \in OfService => plan.form = "service") /\ (to \in OfJob => plan.form = "job") BY <2>2 DEF SandboxInv
  <2> QED BY <1>21, <2>1, <2>2, <2>3, <2>4, <2>5, SelfStep
<1>22. ASSUME AppEnds, UNCHANGED plan PROVE SandboxInv'
  <2>1. at = "running" /\ at' = "ended" /\ self' = self BY <1>22 DEF AppEnds
  <2>2. app' \in Apps /\ app'.user = app.user /\ app'.self = app.self BY <1>22 DEF AppEnds, SandboxInv, Apps
  <2>3. SelfOK(self, at)' BY <1>22, <1>t, <2>1 DEF SelfOK
  <2> QED BY <1>22, <2>1, <2>2, <2>3 DEF SandboxInv
<1>23. ASSUME Helping PROVE SandboxInv'
  <2>1. UNCHANGED plan BY <1>23 DEF Helping
  <2>2. ASSUME install_filter("service", "bound", TRUE), UNCHANGED app PROVE SandboxInv'
    <3>1. Filters("service", "bound", TRUE) BY DEF Filters
    <3> QED BY <2>1, <2>2, <3>1, <1>16, Zenon
  <2> QED BY <1>23, <2>1, <2>2, <1>20, <1>21, <1>22 DEF Helping, socket_proxy_run, workload_launcher_run
<1> QED BY <1>1, <1>9, <1>10, <1>19, <1>23 DEF SandboxNext

(* A launch starts with nothing done. *)
LEMMA SandboxStart == SandboxInit => SandboxInv
<1> SUFFICES ASSUME SandboxInit PROVE SandboxInv OBVIOUS
<1>1. self \in SelfType BY DEF SandboxInit, SelfType
<1>2. SelfOK(self, at) BY DEF SandboxInit, SelfOK, InMap, InRoot, Outside, InLimits, Closing, Helpers, OfService, OfJob, Sealed
<1>3. app \in Apps /\ app.user = "none" BY DEF SandboxInit, NoApp, Apps
<1>4. plan.form \in {"service", "job"} /\ plan.user \in {"root", "other"} BY DEF SandboxInit
<1> QED BY <1>1, <1>2, <1>3, <1>4 DEF SandboxInit, SandboxInv, OfService, OfJob

(* No instruction of the workload runs outside the sandbox: when the        *)
(* image's program starts, the process is in its own root without the old   *)
(* one, in its user namespace without a capability over the host, limited,  *)
(* filtered, and holds no inherited descriptor, as a service and as a job,  *)
(* as root and as another user, and whichever steps fail.                   *)
THEOREM WorkloadsAreConfined == SandboxSpec => []WorkloadIsConfined
<1>1. SandboxInit => SandboxInv BY SandboxStart
<1>2. SandboxInv /\ [SandboxNext]_sandboxVars => SandboxInv' BY SandboxStep
<1>3. SandboxInv => WorkloadIsConfined BY DEF SandboxInv, ConfinedSelf, WorkloadIsConfined
<1> QED BY <1>1, <1>2, <1>3, PTL DEF SandboxSpec

(* Before the root's directories are made, or after a failure. *)
Unprepared == {"validate", "prepare", "failed"}

(* What the mounts rest on: the mount points of the upper layer are real    *)
(* directories once they are prepared.                                      *)
MountsInv ==
  /\ at \notin Unprepared => upper["proc"] = "dir" /\ upper["dev"] = "dir"
  /\ MountsStayInside

(* Every step preserves it. *)
LEMMA MountsStep == ASSUME MountsInv, [SandboxNext]_sandboxVars PROVE MountsInv'
<1>n. "proc" \in Names /\ "dev" \in Names BY DEF Names
<1>k. ASSUME UNCHANGED <<upper, mounts>>, at \notin Unprepared \/ at' \in Unprepared PROVE MountsInv'
  BY <1>k DEF MountsInv, MountsStayInside
<1>1. CASE UNCHANGED sandboxVars BY <1>1 DEF sandboxVars, MountsInv, MountsStayInside
<1>2. ASSUME native_launch_plan PROVE MountsInv' BY <1>2, <1>k DEF native_launch_plan, Unprepared
<1>3. ASSUME Prepare PROVE MountsInv'
  <2>1. upper' = WithSocketDir(prepare_overlay_mountpoints) /\ UNCHANGED mounts BY <1>3 DEF Prepare
  <2>2. prepare_overlay_mountpoints["proc"] = "dir" /\ prepare_overlay_mountpoints["dev"] = "dir"
    BY <1>n DEF prepare_overlay_mountpoints
  <2>3. upper'["proc"] = "dir" /\ upper'["dev"] = "dir" BY <1>n, <2>1, <2>2 DEF WithSocketDir
  <2> QED BY <2>1, <2>3 DEF MountsInv, MountsStayInside
<1>m. ASSUME NEW n \in {"proc", "dev"}, at \notin Unprepared PROVE Merged(n) = "dir" BY <1>m DEF MountsInv, Merged
<1>4. ASSUME BuildRoot \/ child_setup_dev, UNCHANGED upper PROVE MountsInv'
  <2>1. at \notin Unprepared BY <1>4 DEF BuildRoot, child_setup_dev, SysCall, Unprepared
  <2>2. mounts' = mounts \/ mounts' = mounts \cup {{Merged("proc")}} \/ mounts' = mounts \cup {{Merged("dev")}}
    BY <1>4 DEF BuildRoot, child_setup_dev, MountOn
  <2>3. \A found \in mounts' : found \in mounts \/ found = {"dir"} BY <2>1, <2>2, <1>m
  <2> QED BY <1>4, <2>1, <2>3 DEF MountsInv, MountsStayInside
<1>5. ASSUME NEW from, from \notin Unprepared, NEW to, NEW path, NEW last, BindOn(from, to, path, last) PROVE MountsInv'
  <2> DEFINE on == {path[i] : i \in DOMAIN path}
  <2>0. at \notin Unprepared BY <1>5 DEF BindOn
  <2>1. CASE UNCHANGED <<upper, mounts>> BY <2>0, <2>1, <1>k
  <2>2. CASE /\ \A n \in on : Accepted(n, last)
             /\ upper' = [n \in Names |-> IF n \in on /\ Merged(n) = "none"
                                    THEN (IF n = last THEN "file" ELSE "dir") ELSE upper[n]]
             /\ mounts' = mounts \cup {{Merged(n) : n \in on}}
    <3>1. \A n \in on : Merged(n) # "link"
      BY <2>2 DEF Accepted, mountpoint_is_regular_file, mkdir_mountpoint_component_no_symlink
    <3>2. "link" \notin {Merged(n) : n \in on} BY <3>1
    <3>3. \A found \in mounts' : "link" \notin found BY <2>2, <3>2 DEF MountsInv, MountsStayInside
    <3>4. Merged("proc") # "none" /\ Merged("dev") # "none" BY <2>0, <1>m
    <3>5. upper'["proc"] = upper["proc"] /\ upper'["dev"] = upper["dev"] BY <1>n, <2>2, <3>4
    <3> QED BY <2>0, <3>3, <3>5 DEF MountsInv, MountsStayInside
  <2> QED BY <1>5, <2>1, <2>2 DEF BindOn
<1>6. ASSUME PrepareRoot PROVE MountsInv'
  <2>1. CASE child_apply_ro_bind \/ child_bind_dir_rw
    <3>1. "ro" \notin Unprepared /\ "socket" \notin Unprepared BY DEF Unprepared
    <3> QED BY <2>1, <3>1, <1>5 DEF child_apply_ro_bind, child_bind_dir_rw
  <2>2. CASE NoRoBind BY <2>2, <1>k DEF NoRoBind, Unprepared
  <2> QED BY <1>6, <2>1, <2>2, <1>4 DEF PrepareRoot
<1>7. ASSUME ExecChild \/ Helping PROVE MountsInv'
  <2>1. UNCHANGED <<upper, mounts>> BY <1>7 DEF ExecChild, Helping
  <2>2. CASE ExecChild
    <3>1. at \notin Unprepared
      BY <2>2 DEF ExecChild, SysCall, Try, Unprepared, Unshare, write_id_maps, EnterMappedRoot, SelfBind, mount_proc, pivot_root,
        mask_proc_paths, DetachOldRoot, EnterWorkdir, bring_loopback_up, try_set_no_new_privs, try_drop_bounding_caps,
        apply_rlimits, install_filter, close_inherited_fds, execve
    <3> QED BY <2>1, <3>1, <1>k
  <2>3. CASE Helping
    <3>1. at \notin Unprepared
      BY <2>3 DEF Helping, SysCall, Unprepared, socket_proxy_run, workload_launcher_run, AppEnds, install_filter, SpawnAs, drop_bounding_caps
    <3> QED BY <2>1, <3>1, <1>k
  <2> QED BY <1>7, <2>2, <2>3
<1> QED BY <1>1, <1>2, <1>3, <1>6, <1>7 DEF SandboxNext

(* No mount of the sandbox lands outside the new root, whatever links the   *)
(* image put where its /proc and /dev should be.                            *)
THEOREM MountsStayInsideRoot == SandboxSpec => []MountsStayInside
<1>1. SandboxInit => MountsInv BY DEF SandboxInit, MountsInv, MountsStayInside, Unprepared
<1>2. MountsInv /\ [SandboxNext]_sandboxVars => MountsInv' BY MountsStep
<1>3. MountsInv => MountsStayInside BY DEF MountsInv
<1> QED BY <1>1, <1>2, <1>3, PTL DEF SandboxSpec

(* The steps in the namespaces of the daemon, those before the process has  *)
(* its own root, and those before the proxy hardens itself.                 *)
InHost == {"validate", "prepare", "private", "overlay", "proc", "ro", "dev", "socket", "unshare"}
InOverlay == {"proc", "ro", "dev", "socket", "unshare", "map", "setres", "self bind", "mount proc", "pivot"}
Hardened == {"bound", "drop", "serving", "failed"}

(* What the steps of a service's launch find, where SelfOK says what they   *)
(* leave: nothing that a later step needs is given up too early.            *)
Supplied(k, a) ==
  /\ a \in InHost => k.caps = "host"
  /\ a \in {"map"} \cup InMap => k.caps = "ns"
  /\ a \notin {"serving", "failed"} => k.bounding
  /\ a \notin Hardened => ~k.filter
  /\ a \in InOverlay => k.root = "overlay"
  /\ a \in {"mount proc", "pivot"} => ~k.locked
  /\ a \in InHost \cup {"map", "setres", "self bind", "mount proc"} => k.old

OrderInv ==
  plan.form = "service" => Supplied(self, at) /\ (at = "failed" => blame # "none")

(* A step that is granted in such a process keeps the order, if what it     *)
(* makes of the process supplies the step after it.                         *)
LEMMA GrantedStep ==
  ASSUME NEW from, NEW to, NEW granted, NEW k, plan.form = "service", plan' = plan, SysCall(from, to, granted, k),
         granted, Supplied(k, to), to # "failed"
  PROVE  OrderInv'
<1>1. (at' = to /\ self' = k) \/ (at' = "failed" /\ blame' = "fault") BY DEF SysCall
<1>2. CASE at' = to /\ self' = k
  <2>1. Supplied(self, at)' BY <1>2 DEF Supplied
  <2> QED BY <1>2, <2>1 DEF OrderInv
<1>3. CASE at' = "failed" /\ blame' = "fault"
  <2>1. Supplied(self, at)'
    BY <1>3 DEF Supplied, InHost, InMap, InOverlay, Hardened, InRoot, Outside, InLimits, Closing, Helpers, OfService, OfJob
  <2> QED BY <1>3, <2>1 DEF OrderInv
<1> QED BY <1>1, <1>2, <1>3

(* Every step preserves it. *)
LEMMA OrderStep == ASSUME SandboxInv, OrderInv, [SandboxNext]_sandboxVars PROVE OrderInv'
<1> USE DEF InHost, InOverlay, Hardened, InMap, InRoot, Outside, InLimits, Closing, Helpers, OfService, OfJob
<1>1. CASE UNCHANGED sandboxVars BY <1>1 DEF sandboxVars, OrderInv, Supplied
<1>2. CASE plan'.form # "service" BY <1>2 DEF OrderInv
<1>3. ASSUME SandboxNext, plan'.form = "service" PROVE OrderInv'
  <2>1. plan' = plan BY <1>3 DEF SandboxNext, native_launch_plan, Prepare, PrepareRoot, ExecChild, Helping
  <2>2. plan.form = "service" /\ Supplied(self, at) /\ self \in SelfType /\ SelfOK(self, at) /\ at \notin OfJob
    BY <1>3, <2>1 DEF OrderInv, SandboxInv
  <2>h. at \in InHost => Privileged BY <2>2 DEF Supplied, Privileged
  <2>c. at \in InMap \ Hardened => CanMount BY <2>2 DEF Supplied, CanMount
  <2>3. CASE native_launch_plan \/ Prepare
    BY <2>1, <2>2, <2>3 DEF native_launch_plan, Prepare, OrderInv, Supplied
  <2>4. ASSUME BuildRoot PROVE OrderInv'
    <3>1. CASE SysCall("private", "overlay", Privileged, self)
      <4>1. at = "private" BY <3>1 DEF SysCall
      <4>2. Supplied(self, "overlay") BY <2>2, <4>1 DEF Supplied
      <4> QED BY <2>1, <2>2, <2>h, <3>1, <4>1, <4>2, GrantedStep
    <3>2. CASE SysCall("overlay", "proc", Privileged, [self EXCEPT !.root = "overlay"])
      <4>1. at = "overlay" BY <3>2 DEF SysCall
      <4>2. Supplied([self EXCEPT !.root = "overlay"], "proc") BY <2>2, <4>1 DEF Supplied, SelfType
      <4> QED BY <2>1, <2>2, <2>h, <3>2, <4>1, <4>2, GrantedStep
    <3>3. CASE SysCall("proc", "ro", Privileged, [self EXCEPT !.proc = "host"])
      <4>1. at = "proc" BY <3>3 DEF SysCall
      <4>2. Supplied([self EXCEPT !.proc = "host"], "ro") BY <2>2, <4>1 DEF Supplied, SelfType
      <4> QED BY <2>1, <2>2, <2>h, <3>3, <4>1, <4>2, GrantedStep
    <3> QED BY <2>4, <3>1, <3>2, <3>3 DEF BuildRoot
  <2>5. ASSUME child_setup_dev PROVE OrderInv'
    <3>1. SysCall("dev", "socket", Privileged, self) BY <2>2, <2>5 DEF child_setup_dev
    <3>2. at = "dev" BY <3>1 DEF SysCall
    <3>3. Supplied(self, "socket") BY <2>2, <3>2 DEF Supplied
    <3> QED BY <2>1, <2>2, <2>h, <3>1, <3>2, <3>3, GrantedStep
  <2>6. ASSUME NEW from \in {"ro", "socket"}, NEW to \in {"dev", "unshare"}, NEW path, NEW last, BindOn(from, to, path, last)
        PROVE  OrderInv'
    <3>1. at = from /\ self' = self /\ Privileged BY <2>6, <2>h DEF BindOn
    <3>2. at' = to \/ (at' = "failed" /\ blame' \in {"image", "fault"}) BY <2>6, <3>1 DEF BindOn
    <3>3. Supplied(self, at)' BY <2>2, <2>6, <3>1, <3>2 DEF Supplied
    <3> QED BY <2>6, <3>2, <3>3 DEF OrderInv
  <2>7. ASSUME NoRoBind PROVE OrderInv'
    <3>1. at = "ro" /\ at' = "dev" /\ self' = self BY <2>7 DEF NoRoBind
    <3>2. Supplied(self, at)' BY <2>2, <3>1 DEF Supplied
    <3> QED BY <3>1, <3>2 DEF OrderInv
  <2>8. CASE PrepareRoot
    BY <2>8, <2>4, <2>5, <2>6, <2>7 DEF PrepareRoot, child_apply_ro_bind, child_bind_dir_rw
  <2>9. CASE ExecChild
    <3>1. ASSUME Unshare PROVE OrderInv'
      <4>1. at = "unshare" BY <3>1 DEF Unshare, SysCall
      <4>2. self.caps = "host" /\ Supplied([self EXCEPT !.caps = "ns", !.locked = TRUE], "map") BY <2>2, <4>1 DEF Supplied, SelfType
      <4> QED BY <2>1, <2>2, <3>1, <4>2, GrantedStep DEF Unshare
    <3>2. ASSUME write_id_maps PROVE OrderInv'
      <4>1. at = "map" BY <3>2 DEF write_id_maps, SysCall
      <4>2. Supplied([self EXCEPT !.mapped = TRUE], "setres") BY <2>2, <4>1 DEF Supplied, SelfType
      <4> QED BY <2>1, <2>2, <3>2, <4>2, GrantedStep DEF write_id_maps
    <3>3. ASSUME EnterMappedRoot("setres", "self bind") \/ EnterMappedRoot("setres again", "exec") PROVE OrderInv'
      <4>1. CASE EnterMappedRoot("setres", "self bind")
        <5>1. at = "setres" BY <4>1 DEF EnterMappedRoot, SysCall
        <5>2. self.mapped /\ Supplied(self, "self bind") BY <2>2, <5>1 DEF Supplied, SelfOK
        <5> QED BY <2>1, <2>2, <4>1, <5>2, GrantedStep DEF EnterMappedRoot
      <4>2. CASE EnterMappedRoot("setres again", "exec")
        <5>1. at = "setres again" BY <4>2 DEF EnterMappedRoot, SysCall
        <5>2. self.mapped /\ Supplied(self, "exec") BY <2>2, <5>1 DEF Supplied, SelfOK
        <5> QED BY <2>1, <2>2, <4>2, <5>2, GrantedStep DEF EnterMappedRoot
      <4> QED BY <3>3, <4>1, <4>2
    <3>4. ASSUME SelfBind PROVE OrderInv'
      <4>1. at = "self bind" BY <3>4 DEF SelfBind, SysCall
      <4>2. Supplied([self EXCEPT !.locked = FALSE], "mount proc") BY <2>2, <4>1 DEF Supplied, SelfType
      <4> QED BY <2>1, <2>2, <2>c, <3>4, <4>1, <4>2, GrantedStep DEF SelfBind
    <3>5. ASSUME mount_proc PROVE OrderInv'
      <4>1. at = "mount proc" BY <3>5 DEF mount_proc, SysCall, Try
      <4>2. self.old /\ Supplied([self EXCEPT !.proc = "own"], "pivot") /\ Supplied(self, "pivot")
        BY <2>2, <4>1 DEF Supplied, SelfType
      <4>3. CASE SysCall("mount proc", "pivot", CanMount /\ self.old, [self EXCEPT !.proc = "own"])
        BY <2>1, <2>2, <2>c, <4>1, <4>2, <4>3, GrantedStep
      <4>4. CASE Try("mount proc", "pivot", FALSE, self)
        <5>1. at' = "pivot" /\ self' = self BY <4>4 DEF Try
        <5>2. Supplied(self, at)' BY <4>2, <5>1 DEF Supplied
        <5> QED BY <5>1, <5>2 DEF OrderInv
      <4> QED BY <3>5, <4>3, <4>4 DEF mount_proc
    <3>6. ASSUME pivot_root PROVE OrderInv'
      <4>1. at = "pivot" BY <3>6 DEF pivot_root, SysCall
      <4>2. self.root = "overlay" /\ ~self.locked /\ self.caps # "none" /\ Supplied([self EXCEPT !.root = "pivoted"], "mask")
        BY <2>2, <4>1 DEF Supplied, SelfType
      <4> QED BY <2>1, <2>2, <3>6, <4>2, GrantedStep DEF pivot_root
    <3>7. ASSUME mask_proc_paths PROVE OrderInv'
      <4>1. at = "mask" /\ at' = "detach" /\ self' = self BY <3>7 DEF mask_proc_paths, Try
      <4>2. Supplied(self, at)' BY <2>2, <4>1 DEF Supplied
      <4> QED BY <4>1, <4>2 DEF OrderInv
    <3>8. ASSUME DetachOldRoot PROVE OrderInv'
      <4>1. at = "detach" BY <3>8 DEF DetachOldRoot, SysCall
      <4>2. Supplied([self EXCEPT !.old = FALSE], "chdir") BY <2>2, <4>1 DEF Supplied, SelfType
      <4> QED BY <2>1, <2>2, <2>c, <3>8, <4>1, <4>2, GrantedStep DEF DetachOldRoot
    <3>9. ASSUME EnterWorkdir PROVE OrderInv'
      <4>1. at = "chdir" BY <3>9 DEF EnterWorkdir, SysCall
      <4>2. self.root = "pivoted" /\ Supplied(self, "loopback") BY <2>2, <4>1 DEF Supplied, SelfOK
      <4> QED BY <2>1, <2>2, <3>9, <4>2, GrantedStep DEF EnterWorkdir
    <3>10. ASSUME bring_loopback_up PROVE OrderInv'
      <4>1. at = "loopback" BY <3>10 DEF bring_loopback_up, SysCall
      <4>2. self.caps # "none" /\ Supplied([self EXCEPT !.lo = TRUE], "nnp") BY <2>2, <4>1 DEF Supplied, SelfType
      <4> QED BY <2>1, <2>2, <3>10, <4>2, GrantedStep DEF bring_loopback_up
    <3>d. Hardening.nnp = FALSE /\ Hardening.bounding = FALSE /\ Hardening.seccomp = FALSE
      BY <2>2 DEF Hardening, with_deferred_hardening
    <3>11. ASSUME try_set_no_new_privs PROVE OrderInv'
      <4>1. at = "nnp" BY <3>11 DEF try_set_no_new_privs, SysCall
      <4>2. Supplied([self EXCEPT !.nnp = Hardening.nnp], "bounding") BY <2>2, <4>1, <3>d DEF Supplied, SelfType
      <4> QED BY <2>1, <2>2, <3>11, <4>2, GrantedStep DEF try_set_no_new_privs
    <3>12. ASSUME try_drop_bounding_caps PROVE OrderInv'
      <4>1. at = "bounding" BY <3>12 DEF try_drop_bounding_caps, SysCall
      <4> DEFINE k == [self EXCEPT !.bounding = TRUE]
      <4>2. SysCall("bounding", "limits", Hardening.bounding => self.caps # "none", k)
        BY <3>12, <3>d DEF try_drop_bounding_caps
      <4>3. Supplied(k, "limits") BY <2>2, <4>1 DEF Supplied, SelfType
      <4>4. Hardening.bounding => self.caps # "none" BY <3>d
      <4> QED BY <2>1, <2>2, <4>2, <4>3, <4>4, GrantedStep
    <3>13. ASSUME apply_rlimits PROVE OrderInv'
      <4>1. at = "limits" BY <3>13 DEF apply_rlimits, SysCall
      <4>2. Supplied([self EXCEPT !.limits = TRUE], "filter") BY <2>2, <4>1 DEF Supplied, SelfType
      <4> QED BY <2>1, <2>2, <3>13, <4>2, GrantedStep DEF apply_rlimits
    <3>14. ASSUME install_filter("filter", "fds", Hardening.seccomp) PROVE OrderInv'
      <4>1. at = "filter" BY <3>14 DEF install_filter, SysCall
      <4>f. self.filter = FALSE BY <2>2, <4>1 DEF Supplied, SelfType
      <4> DEFINE k == [self EXCEPT !.filter = @ \/ FALSE, !.nnp = @ \/ FALSE]
      <4>2. SysCall("filter", "fds", FALSE => ~self.filter, k) BY <3>14, <3>d DEF install_filter
      <4>3. k.caps = self.caps /\ k.bounding = self.bounding /\ ~k.filter BY <2>2, <4>f DEF SelfType
      <4> HIDE DEF k
      <4>4. Supplied(k, "fds") BY <2>2, <4>1, <4>3 DEF Supplied
      <4> QED BY <2>1, <2>2, <4>2, <4>4, GrantedStep
    <3>15. ASSUME close_inherited_fds PROVE OrderInv'
      <4>1. at = "fds" /\ at' = "setres again" /\ (self' = self \/ self' = [self EXCEPT !.fds = FALSE])
        BY <3>15 DEF close_inherited_fds, Try
      <4>2. self'.caps = self.caps /\ self'.bounding = self.bounding /\ self'.filter = self.filter BY <2>2, <4>1 DEF SelfType
      <4>3. Supplied(self, at)' BY <2>2, <4>1, <4>2 DEF Supplied
      <4> QED BY <4>1, <4>3 DEF OrderInv
    <3>16. ASSUME execve PROVE OrderInv'
      <4>1. at = "exec" BY <3>16 DEF execve, SysCall
      <4>2. self.bounding /\ self.root = "pivoted" BY <2>2, <4>1 DEF Supplied, SelfOK
      <4> DEFINE k == [self EXCEPT !.fds = FALSE, !.caps = "ns"]
      <4>3. SysCall("exec", "service", self.root = "pivoted", k) BY <2>2, <3>16, <4>2 DEF execve
      <4>4. Supplied(k, "service") BY <2>2, <4>1 DEF Supplied, SelfType
      <4> QED BY <2>1, <2>2, <4>2, <4>3, <4>4, GrantedStep
    <3> QED BY <2>9, <3>1, <3>2, <3>3, <3>4, <3>5, <3>6, <3>7, <3>8, <3>9, <3>10, <3>11, <3>12, <3>13, <3>14, <3>15, <3>16
        DEF ExecChild
  <2>10. CASE Helping
    <3>1. ASSUME install_filter("service", "bound", TRUE) PROVE OrderInv'
      <4>1. at = "service" BY <3>1 DEF install_filter, SysCall
      <4>f. self.filter = FALSE BY <2>2, <4>1 DEF Supplied, SelfType
      <4> DEFINE k == [self EXCEPT !.filter = @ \/ TRUE, !.nnp = @ \/ TRUE]
      <4>2. SysCall("service", "bound", TRUE => ~self.filter, k) BY <3>1 DEF install_filter
      <4>3. k.caps = self.caps /\ k.bounding = self.bounding BY <2>2 DEF SelfType
      <4> HIDE DEF k
      <4>4. Supplied(k, "bound") BY <2>2, <4>1, <4>3 DEF Supplied
      <4> QED BY <2>1, <2>2, <4>f, <4>2, <4>4, GrantedStep
    <3>2. ASSUME SpawnAs("bound", "drop") PROVE OrderInv'
      <4>1. SysCall("bound", "drop", plan.user = "root" \/ self.caps # "none", self) BY <3>2 DEF SpawnAs
      <4>2. at = "bound" BY <4>1 DEF SysCall
      <4>3. self.caps # "none" /\ Supplied(self, "drop") BY <2>2, <4>2 DEF Supplied
      <4> QED BY <2>1, <2>2, <4>1, <4>3, GrantedStep
    <3>3. ASSUME drop_bounding_caps("drop", "serving") PROVE OrderInv'
      <4>1. SysCall("drop", "serving", self.caps # "none", [self EXCEPT !.bounding = FALSE]) BY <3>3 DEF drop_bounding_caps
      <4>2. at = "drop" BY <4>1 DEF SysCall
      <4>3. self.caps # "none" /\ Supplied([self EXCEPT !.bounding = FALSE], "serving") BY <2>2, <4>2 DEF Supplied, SelfType
      <4> QED BY <2>1, <2>2, <4>1, <4>3, GrantedStep
    <3>4. ~SpawnAs("job", "running") /\ ~drop_bounding_caps("ended", "reported") /\ ~AppEnds
      BY <2>2 DEF SpawnAs, drop_bounding_caps, SysCall, AppEnds
    <3> QED BY <2>10, <3>1, <3>2, <3>3, <3>4 DEF Helping, socket_proxy_run, workload_launcher_run
  <2> QED BY <1>3, <2>3, <2>8, <2>9, <2>10 DEF SandboxNext
<1> QED BY <1>1, <1>2, <1>3

(* The launch of a service never fails by its own doing, for any image,     *)
(* user and binds: each system call finds the capabilities, root, mounts    *)
(* and filter it needs, in the order in which child_prepare_root,           *)
(* child_exec and the socket proxy make them.                               *)
THEOREM ServiceLaunchesAreOrdered == SandboxSpec => []ServiceLaunchIsOrdered
<1>1. SandboxInit => SandboxInv BY SandboxStart
<1>2. SandboxInit => OrderInv
  BY DEF SandboxInit, OrderInv, Supplied, InHost, InMap, InOverlay, Hardened, InRoot, Outside, InLimits, Closing, Helpers, OfService, OfJob
<1>3. SandboxInv /\ [SandboxNext]_sandboxVars => SandboxInv' BY SandboxStep
<1>4. SandboxInv /\ OrderInv /\ [SandboxNext]_sandboxVars => OrderInv' BY OrderStep
<1>5. OrderInv => ServiceLaunchIsOrdered BY DEF OrderInv, ServiceLaunchIsOrdered
<1> QED BY <1>1, <1>2, <1>3, <1>4, <1>5, PTL DEF SandboxSpec

-----------------------------------------------------------------------------
(* Types: a guest and its application. *)
Guests == [pc : {"none", "bind", "harden", "serve", "exited"}, listening : BOOLEAN,
           app : {"none", "starting", "listening", "exited"}]

(* The guest starts the application after it has bound its socket, and      *)
(* listens as long as the application has not exited.                       *)
GuestOK(g) ==
  /\ g.pc \in {"none", "bind", "harden"} => g.app = "none"
  /\ g.pc = "harden" \/ g.app \in {"starting", "listening"} => g.listening

(* The application of replica r has accepted connections once. *)
Served(r) == guest[r].app \in {"listening", "exited"}

(* A request is sent only to a replica that was admitted to the pool, and   *)
(* is refused by one only after its application has exited.                 *)
RequestOK(x) ==
  /\ x.pc \in {"new", "peer", "connect", "bad", "done"}
  /\ x.pc = "peer" => x.host \in WebHosts /\ x.control \in BOOLEAN
  /\ x.pc \in {"connect", "bad"} => x.to \in ProxyReplicas /\ Served(x.to)
  /\ x.pc = "bad" => guest[x.to].app = "exited"

(* The inductive invariant. *)
ProxyInv ==
  /\ guest \in [ProxyReplicas -> Guests]
  /\ \A r \in ProxyReplicas : GuestOK(guest[r])
  /\ pool \subseteq ProxyReplicas /\ \A r \in pool : Served(r)
  /\ req = [q \in ProxyRequests |-> req[q]]
  /\ \A q \in ProxyRequests : RequestOK(req[q])

(* A request moves on. *)
LEMMA RequestStep ==
  ASSUME ProxyInv, NEW q \in ProxyRequests, NEW x, RequestOK(x), req' = [req EXCEPT ![q] = x], UNCHANGED <<guest, pool>>
  PROVE  ProxyInv'
  BY DEF ProxyInv, RequestOK, Served

(* A guest moves on and takes back nothing. *)
LEMMA GuestStep ==
  ASSUME ProxyInv, NEW r \in ProxyReplicas, NEW g \in Guests, guest' = [guest EXCEPT ![r] = g],
         GuestOK(g),
         Served(r) => g.app \in {"listening", "exited"},
         guest[r].app = "exited" => g.app = "exited",
         UNCHANGED <<pool, req>>
  PROVE  ProxyInv'
<1>1. guest' \in [ProxyReplicas -> Guests] BY DEF ProxyInv
<1>2. \A p \in ProxyReplicas : Served(p) => Served(p)' BY DEF ProxyInv, Served
<1>3. \A p \in ProxyReplicas : guest[p].app = "exited" => guest'[p].app = "exited" BY DEF ProxyInv
<1>4. \A p \in ProxyReplicas : GuestOK(guest'[p]) BY DEF ProxyInv
<1>5. \A q \in ProxyRequests : RequestOK(req[q])' BY <1>2, <1>3 DEF ProxyInv, RequestOK
<1> QED BY <1>1, <1>2, <1>4, <1>5 DEF ProxyInv

(* Every step preserves the invariant. *)
LEMMA ProxyStep == ASSUME ProxyInv, [ProxyNext]_proxyVars PROVE ProxyInv'
<1>t. \A r \in ProxyReplicas : guest[r] \in Guests /\ GuestOK(guest[r]) BY DEF ProxyInv
<1>q. \A q \in ProxyRequests : RequestOK(req[q]) BY DEF ProxyInv
<1>1. CASE UNCHANGED proxyVars BY <1>1 DEF proxyVars, ProxyInv, RequestOK, Served
<1>2. ASSUME NEW r \in ProxyReplicas, Start(r) PROVE ProxyInv'
  <2> DEFINE g == [guest[r] EXCEPT !.pc = "bind"]
  <2>1. g \in Guests /\ g.pc = "bind" /\ g.app = guest[r].app /\ guest[r].app = "none" BY <1>2, <1>t DEF Guests, Start, NotStarted
  <2>2. guest' = [guest EXCEPT ![r] = g] /\ UNCHANGED <<pool, req>> BY <1>2 DEF Start, ProxyInv
  <2> HIDE DEF g
  <2> QED BY <2>1, <2>2, GuestStep DEF Served, GuestOK
<1>3. ASSUME NEW r \in ProxyReplicas, Bind(r) PROVE ProxyInv'
  <2> DEFINE g == [guest[r] EXCEPT !.listening = TRUE, !.pc = "harden"]
  <2>1. g \in Guests /\ g.listening /\ g.app = guest[r].app /\ guest[r].app = "none" BY <1>3, <1>t DEF Guests, GuestOK, Bind
  <2>2. guest' = [guest EXCEPT ![r] = g] /\ UNCHANGED <<pool, req>> BY <1>3 DEF Bind, ProxyInv
  <2> HIDE DEF g
  <2> QED BY <2>1, <2>2, GuestStep DEF Served, GuestOK
<1>4. ASSUME NEW r \in ProxyReplicas, SpawnApp(r) PROVE ProxyInv'
  <2> DEFINE g == [guest[r] EXCEPT !.pc = "serve", !.app = "starting"]
             h == [guest[r] EXCEPT !.pc = "exited", !.listening = FALSE]
  <2>0. guest[r].app = "none" /\ UNCHANGED <<pool, req>> BY <1>4, <1>t DEF SpawnApp, GuestOK
  <2>1. g \in Guests /\ g.pc = "serve" /\ g.app = "starting" /\ (g.listening <=> guest[r].listening)
    BY <1>t DEF Guests
  <2>2. h \in Guests /\ h.pc = "exited" /\ h.app = "none" BY <1>t, <2>0 DEF Guests
  <2>3. guest' = [guest EXCEPT ![r] = g] \/ guest' = [guest EXCEPT ![r] = h] BY <1>4 DEF SpawnApp, ProxyInv
  <2>4. guest[r].listening BY <1>4, <1>t DEF SpawnApp, GuestOK
  <2> HIDE DEF g, h
  <2>5. GuestOK(g) /\ GuestOK(h) BY <2>1, <2>2, <2>4 DEF GuestOK
  <2> QED BY <2>0, <2>1, <2>2, <2>3, <2>5, GuestStep DEF Served
<1>5. ASSUME NEW r \in ProxyReplicas, AppListens(r) PROVE ProxyInv'
  <2> DEFINE g == [guest[r] EXCEPT !.app = "listening"]
  <2>1. g \in Guests /\ g.pc = guest[r].pc /\ g.app = "listening" /\ (g.listening <=> guest[r].listening)
    BY <1>t DEF Guests
  <2>2. guest' = [guest EXCEPT ![r] = g] /\ UNCHANGED <<pool, req>> /\ guest[r].app = "starting" BY <1>5 DEF AppListens, ProxyInv
  <2> HIDE DEF g
  <2>3. GuestOK(g) BY <2>1, <2>2, <1>t DEF GuestOK
  <2> QED BY <2>1, <2>2, <2>3, GuestStep DEF Served
<1>6. ASSUME NEW r \in ProxyReplicas, AppExits(r) PROVE ProxyInv'
  <2> DEFINE g == [pc |-> "exited", listening |-> FALSE, app |-> "exited"]
  <2>1. g \in Guests /\ g.pc = "exited" /\ g.app = "exited" BY DEF Guests
  <2>2. guest' = [guest EXCEPT ![r] = g] /\ UNCHANGED <<pool, req>> BY <1>6 DEF AppExits
  <2> HIDE DEF g
  <2> QED BY <2>1, <2>2, GuestStep DEF Served, GuestOK
<1>7. ASSUME NEW r \in ProxyReplicas, check(r) PROVE ProxyInv'
  <2>1. pool' = pool \/ (pool' = pool \cup {r} /\ guest[r].app = "listening")
    BY <1>7 DEF check, probe_once, Replies
  <2>2. UNCHANGED <<guest, req>> BY <1>7 DEF check
  <2> QED BY <2>1, <2>2 DEF ProxyInv, Served, RequestOK
<1>8. ASSUME NEW r \in ProxyReplicas, RemoveReplica(r) PROVE ProxyInv'
  BY <1>8 DEF RemoveReplica, ProxyInv, Served, RequestOK
<1>d. ASSUME NEW q \in ProxyRequests, NEW n, req' = [req EXCEPT ![q] = [pc |-> "done", status |-> n]],
             UNCHANGED <<guest, pool>>
      PROVE  ProxyInv'
  BY <1>d, RequestStep DEF RequestOK
<1>p. ASSUME NEW q \in ProxyRequests, NEW x \in [pc : {"peer"}, host : WebHosts, control : BOOLEAN],
             req' = [req EXCEPT ![q] = x], UNCHANGED <<guest, pool>>
      PROVE  ProxyInv'
  BY <1>p, RequestStep DEF RequestOK
<1>9. ASSUME NEW q \in ProxyRequests, request_filter(q) PROVE ProxyInv'
  <2> DEFINE Peers == [pc : {"peer"}, host : WebHosts, control : BOOLEAN]
  <2>1. \/ req' = [req EXCEPT ![q] = [pc |-> "done", status |-> 308]]
        \/ \E x \in Peers : req' = [req EXCEPT ![q] = x]
    <3>1. PICK host \in WebHosts, port \in {80, 443}, challenge \in BOOLEAN :
           LET decision == IF port = 80 THEN classify_port80(host, challenge) ELSE "pass"
           IN req' = [req EXCEPT ![q] =
                  IF decision = "redirect" THEN [pc |-> "done", status |-> 308]
                  ELSE [pc |-> "peer", host |-> host, control |-> decision = "control"]]
      BY <1>9, Zenon DEF request_filter
    <3> DEFINE decision == IF port = 80 THEN classify_port80(host, challenge) ELSE "pass"
               y == [pc |-> "peer", host |-> host, control |-> decision = "control"]
    <3>2. CASE decision = "redirect" BY <3>1, <3>2, Zenon
    <3>3. CASE decision # "redirect"
      <4>1. req' = [req EXCEPT ![q] = y] BY <3>1, <3>3, Zenon
      <4>2. y \in Peers BY Zenon
      <4> HIDE DEF y, Peers, decision
      <4>3. \E x \in Peers : req' = [req EXCEPT ![q] = x] BY <4>1, <4>2
      <4> QED BY <4>3
    <3> QED BY <3>2, <3>3
  <2>2. UNCHANGED <<guest, pool>> BY <1>9 DEF request_filter
  <2>3. CASE req' = [req EXCEPT ![q] = [pc |-> "done", status |-> 308]] BY <2>2, <2>3, <1>d
  <2>4. ASSUME NEW x \in Peers, req' = [req EXCEPT ![q] = x] PROVE ProxyInv' BY <2>2, <2>4, <1>p
  <2> QED BY <2>1, <2>3, <2>4
<1>10. ASSUME NEW q \in ProxyRequests, upstream_peer(q) PROVE ProxyInv'
  <2> DEFINE host == req[q].host
             C == req[q].control \/ is_control_host(host)
             replicas == {r \in pool : Owner[r] = host}
  <2>1. UNCHANGED <<guest, pool>> /\ req[q].control \in BOOLEAN BY <1>10, <1>q DEF upstream_peer, RequestOK
  <2>2. CASE C
    <3>1. req' = [req EXCEPT ![q] = [pc |-> "done", status |-> 200]] BY <1>10, <2>2 DEF upstream_peer
    <3> QED BY <2>1, <3>1, <1>d
  <2>3. CASE ~C /\ routes[host] = NoRoute
    <3>1. req' = [req EXCEPT ![q] = [pc |-> "done", status |-> 404]] BY <1>10, <2>3 DEF upstream_peer
    <3> QED BY <2>1, <3>1, <1>d
  <2>4. CASE ~C /\ routes[host] # NoRoute
    <3>1. \/ \E r \in replicas : req' = [req EXCEPT ![q] = [pc |-> "connect", to |-> r]]
          \/ req' = [req EXCEPT ![q] = [pc |-> "done", status |-> 503]]
      BY <1>10, <2>4 DEF upstream_peer
    <3>2. ASSUME NEW r \in replicas, req' = [req EXCEPT ![q] = [pc |-> "connect", to |-> r]] PROVE ProxyInv'
      <4>1. r \in ProxyReplicas /\ Served(r) BY <3>2 DEF ProxyInv
      <4> QED BY <2>1, <3>2, <4>1, RequestStep DEF RequestOK
    <3> QED BY <2>1, <3>1, <3>2, <1>d
  <2> QED BY <2>2, <2>3, <2>4
<1>11. ASSUME NEW q \in ProxyRequests, Connect(q) PROVE ProxyInv'
  <2>1. UNCHANGED <<guest, pool>> /\ req[q].to \in ProxyReplicas /\ Served(req[q].to) BY <1>11, <1>q DEF Connect, RequestOK
  <2>2. CASE Replies(req[q].to)
    <3>1. req' = [req EXCEPT ![q] = [pc |-> "done", status |-> 200]] BY <1>11, <2>2 DEF Connect
    <3> QED BY <2>1, <3>1, RequestStep DEF RequestOK
  <2>3. CASE ~Replies(req[q].to)
    <3>0. PICK r \in ProxyReplicas : r = req[q].to BY <2>1
    <3>1. req' = [req EXCEPT ![q] = [pc |-> "bad", to |-> r]] BY <1>11, <2>3, <3>0 DEF Connect
    <3>2. guest[r].app # "listening" BY <1>t, <2>3, <3>0 DEF Replies, GuestOK
    <3>3. Served(r) /\ guest[r].app = "exited" BY <2>1, <3>0, <3>2 DEF Served
    <3> QED BY <2>1, <3>1, <3>3, RequestStep DEF RequestOK
  <2> QED BY <2>2, <2>3
<1>12. ASSUME NEW q \in ProxyRequests, Again(q) PROVE ProxyInv'
  BY <1>12, RequestStep DEF Again, FreshRequest, RequestOK
<1>13. ASSUME swap_routes PROVE ProxyInv' BY <1>13 DEF swap_routes, ProxyInv, RequestOK, Served
<1> QED BY <1>1, <1>2, <1>3, <1>4, <1>5, <1>6, <1>7, <1>8, <1>9, <1>10, <1>11, <1>12, <1>13 DEF ProxyNext

(* No request is answered with 502 because the replica it was sent to had   *)
(* not come up yet: for any number of replicas, hosts and requests, and     *)
(* however requests, probes and starts interleave.                          *)
THEOREM NoColdStarts502 == ProxySpec => []NoColdStart502
<1>1. ASSUME ProxyInit PROVE ProxyInv
  <2>1. NotStarted \in Guests /\ GuestOK(NotStarted) BY DEF NotStarted, Guests, GuestOK
  <2>2. RequestOK(FreshRequest) BY DEF RequestOK, FreshRequest
  <2> QED BY <1>1, <2>1, <2>2 DEF ProxyInit, ProxyInv
<1>2. ProxyInv /\ [ProxyNext]_proxyVars => ProxyInv' BY ProxyStep
<1>3. ProxyInv => NoColdStart502 BY DEF ProxyInv, RequestOK, NoColdStart502
<1> QED BY <1>1, <1>2, <1>3, PTL DEF ProxySpec

-----------------------------------------------------------------------------
(* Types: an owner and a mode. *)
Perms == [owner : {"none", "daemon", "base", "guest"}, mode : {"none", "0755", "1777", "0555", "0700", "0000", "0644"}]

(* The directory is missing or anybody may traverse it. *)
Regular(f, n) == f[n] = NoNode \/ f[n].mode = "0755"

(* The state of the files f that a launch can cope with, if the workload    *)
(* meddled (m) or not: nothing but the workload itself ever gives a layer   *)
(* another mode.                                                            *)
FilesOK(f, m) ==
  /\ f \in [Nodes -> Perms]
  /\ Regular(f, "work") /\ Regular(f, "merged")
  /\ m \/ Regular(f, "upper")

(* The inductive invariant: from their creation until they are given away   *)
(* the layers exist, and a refusal is one of the layers' and the workload's *)
(* own doing.                                                               *)
ReplicaInv ==
  /\ kind \in {"service", "job"} /\ meddled \in BOOLEAN
  /\ FilesOK(fs, meddled)
  /\ stage \in {"mountpoints", "socket", "layers"} => \A n \in Overlay : fs[n] # NoNode
  /\ refused \subseteq {"layers"} /\ (refused # {} => meddled)

(* The nodes, one by one. *)
LEMMA NodesAre ==
  Nodes = {"dir", "socks", "upper", "work", "merged", "tmp", "denia", "helper", "file", "scratch", "sock"}
  BY DEF Nodes, Parent

(* What lies below each of the directories. *)
LEMMA BelowAre ==
  /\ Below("dir") = Nodes \ {"socks", "sock"} /\ Below("upper") = UpperNodes /\ Below("work") = {"work", "scratch"}
  /\ Below("merged") = {"merged"} /\ Below("socks") = {"socks", "sock"} /\ Below("denia") = {"denia", "helper"}
  /\ Below("scratch") = {"scratch"}
  BY DEF Below

(* A missing node is well typed. *)
LEMMA NoNodeIs == NoNode \in Perms BY DEF NoNode, Perms
(* So is one that is there. *)
LEMMA NodeIs == ASSUME NEW o \in {"daemon", "base", "guest"}, NEW m \in {"0755", "1777", "0555", "0700", "0000", "0644"}
  PROVE Node(o, m) \in Perms /\ Node(o, m) # NoNode /\ Node(o, m).mode = m /\ Node(o, m).owner = o
  BY DEF Node, NoNode, Perms

(* remove_dir_all takes some nodes away and changes no other, whether it    *)
(* gets to its end or not.                                                  *)
LEMMA Removed == ASSUME NEW f \in [Nodes -> Perms], NEW root, NEW g \in remove_dir_all(f, root)
  PROVE g \in [Nodes -> Perms] /\ \A n \in Nodes : g[n] = f[n] \/ g[n] = NoNode
<1>1. CASE g = [n \in Nodes |-> IF n \in Below(root) THEN NoNode ELSE f[n]] BY <1>1, NoNodeIs
<1>2. ASSUME NEW gone, g = [n \in Nodes |-> IF n \in gone THEN NoNode ELSE f[n]] PROVE g \in [Nodes -> Perms] /\ \A n \in Nodes : g[n] = f[n] \/ g[n] = NoNode
  BY <1>2, NoNodeIs
<1> QED BY <1>1, <1>2 DEF remove_dir_all

(* Files may go. *)
LEMMA FewerOK == ASSUME NEW f \in [Nodes -> Perms], NEW g \in [Nodes -> Perms], NEW m,
                        FilesOK(f, m), \A n \in Nodes : g[n] = f[n] \/ g[n] = NoNode
  PROVE FilesOK(g, m)
  BY NodesAre DEF FilesOK, Regular

(* recursive_lchown changes the owner of every node below its root, and     *)
(* nothing else.                                                            *)
LEMMA Chowned == ASSUME NEW f \in [Nodes -> Perms], NEW root, NEW o \in {"daemon", "base"}
  PROVE /\ recursive_lchown(f, root, o) \in [Nodes -> Perms]
        /\ \A n \in Nodes : /\ recursive_lchown(f, root, o)[n].mode = f[n].mode
                            /\ recursive_lchown(f, root, o)[n] = NoNode <=> f[n] = NoNode
                            /\ n \notin Below(root) => recursive_lchown(f, root, o)[n] = f[n]
                            /\ n \in Below(root) /\ f[n] # NoNode => recursive_lchown(f, root, o)[n].owner = o
<1>1. ASSUME NEW n \in Nodes PROVE Node(o, f[n].mode) \in Perms /\ Node(o, f[n].mode).mode = f[n].mode
                                   /\ Node(o, f[n].mode).owner = o /\ Node(o, f[n].mode) # NoNode
  BY DEF Node, Perms, NoNode
<1>2. \A n \in Nodes : recursive_lchown(f, root, o)[n] = IF n \in Below(root) /\ f[n] # NoNode THEN Node(o, f[n].mode) ELSE f[n]
  BY DEF recursive_lchown
<1>3. recursive_lchown(f, root, o) \in [Nodes -> Perms] BY <1>1 DEF recursive_lchown
<1> QED BY <1>1, <1>2, <1>3

(* set_traverse_mode changes one mode. *)
LEMMA Traverse == ASSUME NEW f \in [Nodes -> Perms], NEW n \in Nodes
  PROVE /\ set_traverse_mode(f, n) \in [Nodes -> Perms] /\ set_traverse_mode(f, n)[n].mode = "0755"
        /\ \A k \in Nodes \ {n} : set_traverse_mode(f, n)[k] = f[k]
  BY DEF set_traverse_mode, Perms

(* chown_overlay_dir leaves a directory that anybody may traverse. *)
LEMMA ChownOverlay == ASSUME NEW f \in [Nodes -> Perms], NEW n \in Nodes, NEW m, FilesOK(f, m)
  PROVE chown_overlay_dir(f, n) \in [Nodes -> Perms] /\ FilesOK(chown_overlay_dir(f, n), m)
<1> DEFINE g == set_traverse_mode(f, n)
           h == chown_overlay_dir(f, n)
<1>1. g \in [Nodes -> Perms] /\ g[n].mode = "0755" /\ \A k \in Nodes \ {n} : g[k] = f[k] BY Traverse
<1>2. h \in [Nodes -> Perms] /\ \A k \in Nodes : h[k].mode = g[k].mode /\ (h[k] = NoNode <=> g[k] = NoNode)
  BY <1>1, Chowned DEF chown_overlay_dir
<1> HIDE DEF g, h
<1> QED BY <1>1, <1>2, NodesAre DEF FilesOK, Regular, h

(* create_runtime_directory makes the directories that are missing. *)
LEMMA Created == ASSUME NEW f \in [Nodes -> Perms], NEW dirs, NEW m, FilesOK(f, m)
  PROVE LET g == create_runtime_directory(f, dirs) IN
        /\ g \in [Nodes -> Perms] /\ FilesOK(g, m) /\ \A n \in Nodes : n \in dirs \/ f[n] # NoNode => g[n] # NoNode
<1> DEFINE g == create_runtime_directory(f, dirs)
<1>0. Node("daemon", "0755") \in Perms /\ Node("daemon", "0755") # NoNode /\ Node("daemon", "0755").mode = "0755" BY NodeIs
<1>1. g \in [Nodes -> Perms] BY <1>0 DEF create_runtime_directory
<1>2. \A n \in Nodes : g[n] = (IF n \in dirs /\ f[n] = NoNode THEN Node("daemon", "0755") ELSE f[n]) BY DEF create_runtime_directory
<1> HIDE DEF g
<1>3. FilesOK(g, m) BY <1>0, <1>1, <1>2, NodesAre DEF FilesOK, Regular
<1> QED BY <1>0, <1>1, <1>2, <1>3 DEF g
(* A removal of the replica's directory that finds all of it in the hands   *)
(* of the daemon, or finds nothing, leaves nothing.                         *)
LEMMA Wiped == ASSUME NEW f \in [Nodes -> Perms], NEW m, FilesOK(f, m), NEW g \in remove_dir_all([f EXCEPT !["socks"] = NoNode, !["sock"] = NoNode], "dir")
  PROVE /\ FilesOK(g, m)
        /\ (\A n \in Below("dir") : f[n] # NoNode => f[n].owner = "daemon") \/ f["dir"] = NoNode => g["dir"] = NoNode
<1> DEFINE t == [f EXCEPT !["socks"] = NoNode, !["sock"] = NoNode]
<1>1. t \in [Nodes -> Perms] /\ (\A n \in Nodes : t[n] = f[n] \/ t[n] = NoNode) /\ \A n \in Below("dir") : t[n] = f[n]
  BY NodesAre, BelowAre, NoNodeIs
<1> HIDE DEF t
<1>2. g \in [Nodes -> Perms] /\ \A n \in Nodes : g[n] = t[n] \/ g[n] = NoNode BY <1>1, Removed DEF t
<1>3. FilesOK(t, m) BY <1>1, FewerOK
<1>4. FilesOK(g, m) BY <1>1, <1>2, <1>3, FewerOK
<1>5. "dir" \in Below("dir") /\ "dir" \in Nodes BY BelowAre, NodesAre
<1>6. ASSUME \A n \in Below("dir") : f[n] # NoNode => f[n].owner = "daemon" PROVE g["dir"] = NoNode
  <2>1. Stuck(t, "dir") = {} BY <1>6, <1>1 DEF Stuck, MayUnlink
  <2>2. g = [n \in Nodes |-> IF n \in Below("dir") THEN NoNode ELSE t[n]] BY <2>1 DEF remove_dir_all, t
  <2> QED BY <2>2, <1>5
<1>7. CASE f["dir"] = NoNode BY <1>7, <1>1, <1>2, <1>4, <1>5
<1> QED BY <1>4, <1>6, <1>7

(* Every step preserves the invariant. *)
LEMMA ReplicaStep == ReplicaInv /\ [ReplicaNext]_replicaVars => ReplicaInv'
<1> SUFFICES ASSUME ReplicaInv, [ReplicaNext]_replicaVars PROVE ReplicaInv' OBVIOUS
<1>0. fs \in [Nodes -> Perms] /\ FilesOK(fs, meddled) /\ kind \in {"service", "job"} /\ meddled \in BOOLEAN BY DEF ReplicaInv, FilesOK
<1>n. \A n \in {"dir", "socks", "upper", "work", "merged", "tmp", "denia", "helper", "file", "scratch", "sock"} : n \in Nodes BY NodesAre
<1>1. CASE UNCHANGED replicaVars BY <1>1 DEF replicaVars, ReplicaInv
<1>2. CASE Launch BY <1>2 DEF Launch, ReplicaInv
<1>3. CASE RemoveScratch
  <2> DEFINE t == IF kind = "service" THEN reclaim_runtime_dir_owner(fs, "scratch") ELSE fs
  <2>1. CASE ~Present("scratch") BY <2>1, <1>3 DEF RemoveScratch, Advance, Keep, ReplicaInv
  <2>2. t \in [Nodes -> Perms] /\ \A n \in Nodes \ {"scratch"} : t[n] = fs[n]
    BY <1>0, <1>n DEF reclaim_runtime_dir_owner, lchown, Perms
  <2>3. CASE fs' \in remove_dir_all(t, "scratch")
    <3> HIDE DEF t
    <3>1. fs' \in [Nodes -> Perms] /\ \A n \in Nodes : fs'[n] = t[n] \/ fs'[n] = NoNode BY <2>2, <2>3, Removed
    <3>2. FilesOK(t, meddled) BY <1>0, <2>2, NodesAre DEF FilesOK, Regular
    <3>3. FilesOK(fs', meddled) BY <3>1, <3>2, <2>2, FewerOK
    <3> QED BY <1>3, <3>3 DEF RemoveScratch, Advance, Keep, ReplicaInv
  <2> QED BY <1>3, <2>1, <2>3 DEF RemoveScratch
<1>4. CASE CreateLayers
  <2>1. FilesOK(fs', meddled) /\ \A n \in Overlay : fs'[n] # NoNode
    BY <1>0, <1>4, <1>n, Created DEF CreateLayers, Overlay
  <2> QED BY <1>4, <2>1 DEF CreateLayers, Advance, Keep, ReplicaInv
<1>5. CASE PrepareMountpoints
  <2> DEFINE g == create_runtime_directory(fs, {"tmp"})
  <2>1. g \in [Nodes -> Perms] /\ FilesOK(g, meddled) /\ \A n \in Nodes : fs[n] # NoNode => g[n] # NoNode BY <1>0, Created
  <2> HIDE DEF g
  <2>2. fs' \in [Nodes -> Perms] /\ \A n \in Nodes \ {"tmp"} : fs'[n] = g[n]
    BY <2>1, <1>5, <1>n DEF PrepareMountpoints, reclaim_runtime_dir_owner, lchown, Perms, g
  <2>3. FilesOK(fs', meddled) BY <2>1, <2>2, <1>n DEF FilesOK, Regular
  <2>4. \A n \in Overlay : fs'[n] # NoNode BY <1>5, <2>1, <2>2, <1>n DEF Overlay, ReplicaInv, PrepareMountpoints, Advance
  <2> QED BY <1>5, <2>3, <2>4 DEF PrepareMountpoints, Advance, Keep, ReplicaInv
<1>6. CASE prepare_socket_directory
  <2>1. CASE kind = "job" BY <1>6, <2>1 DEF prepare_socket_directory, Advance, Keep, ReplicaInv
  <2>2. CASE kind = "service"
    <3> DEFINE a == create_runtime_directory(fs, {"socks"})
               b == restore_current_process_owner(a, "socks")
               c == remove_existing_runtime_file(b, "sock")
    <3>1. a \in [Nodes -> Perms] /\ FilesOK(a, meddled) /\ \A n \in Nodes : fs[n] # NoNode => a[n] # NoNode BY <1>0, Created
    <3> HIDE DEF a
    <3>2. b \in [Nodes -> Perms] /\ \A n \in Nodes : b[n].mode = a[n].mode /\ (b[n] = NoNode <=> a[n] = NoNode)
      BY <3>1, Chowned DEF restore_current_process_owner
    <3> HIDE DEF b
    <3>3. c \in [Nodes -> Perms] /\ \A n \in Nodes \ {"sock"} : c[n] = b[n]
      BY <3>2, NoNodeIs, <1>n DEF remove_existing_runtime_file
    <3> HIDE DEF c
    <3>4. FilesOK(c, meddled) BY <3>1, <3>2, <3>3, <1>n DEF FilesOK, Regular
    <3>5. fs' = chown_overlay_dir(c, "socks") BY <1>6, <2>2 DEF prepare_socket_directory, a, b, c
    <3>6. FilesOK(fs', meddled) BY <3>3, <3>4, <3>5, <1>n, ChownOverlay
    <3>7. \A n \in Overlay : fs'[n] # NoNode
      <4> DEFINE d == set_traverse_mode(c, "socks")
      <4>1. d \in [Nodes -> Perms] /\ \A n \in Nodes \ {"socks"} : d[n] = c[n] BY <3>3, <1>n, Traverse
      <4>2. fs' = recursive_lchown(d, "socks", "base") BY <3>5 DEF chown_overlay_dir
      <4> HIDE DEF d
      <4>3. \A n \in Nodes : fs'[n] = NoNode <=> d[n] = NoNode BY <4>1, <4>2, Chowned
      <4> QED BY <4>1, <4>3, <3>1, <3>2, <3>3, <1>6, <1>n DEF Overlay, ReplicaInv, prepare_socket_directory, Advance
    <3> QED BY <1>6, <3>6, <3>7 DEF prepare_socket_directory, Advance, Keep, ReplicaInv
  <2> QED BY <1>0, <2>1, <2>2
<1>7. CASE GiveLayers
  <2>1. CASE (\E n \in Overlay : ~Traversable(fs, n)) /\ Refuse("layers")
    <3>1. PICK n \in Overlay : ~Traversable(fs, n) BY <2>1
    <3>2. fs[n] # NoNode BY <2>1, <3>1 DEF Refuse, ReplicaInv
    <3>3. n = "upper" /\ meddled BY <3>1, <3>2, <1>0 DEF Overlay, Traversable, FilesOK, Regular
    <3> QED BY <2>1, <3>3 DEF Refuse, ReplicaInv
  <2>2. CASE Advance("layers", "stage") /\ Keep
             /\ fs' = chown_overlay_dir(chown_overlay_dir(chown_overlay_dir(fs, "upper"), "work"), "merged")
    <3> DEFINE a == chown_overlay_dir(fs, "upper")
               b == chown_overlay_dir(a, "work")
    <3>1. a \in [Nodes -> Perms] /\ FilesOK(a, meddled) BY <1>0, <1>n, ChownOverlay
    <3> HIDE DEF a
    <3>2. b \in [Nodes -> Perms] /\ FilesOK(b, meddled) BY <3>1, <1>n, ChownOverlay
    <3> HIDE DEF b
    <3>3. fs' = chown_overlay_dir(b, "merged") BY <2>2 DEF a, b
    <3>4. FilesOK(fs', meddled) BY <3>2, <3>3, <1>n, ChownOverlay
    <3> QED BY <2>2, <3>4 DEF Advance, Keep, ReplicaInv
  <2> QED BY <1>7, <2>1, <2>2 DEF GiveLayers
<1>8. CASE stage_runtime_helper
  <2> DEFINE a == restore_current_process_owner(fs, "denia")
  <2>1. a \in [Nodes -> Perms] /\ \A n \in Nodes : a[n].mode = fs[n].mode /\ (a[n] = NoNode <=> fs[n] = NoNode)
    BY <1>0, Chowned DEF restore_current_process_owner
  <2> HIDE DEF a
  <2>2. Node("daemon", "0555") \in Perms BY NodeIs
  <2>3. fs' \in [Nodes -> Perms] /\ \A n \in Nodes \ {"helper"} : fs'[n] = a[n]
    BY <2>1, <2>2, <1>8, <1>n DEF stage_runtime_helper, copy_runtime_helper_file, a
  <2>4. FilesOK(fs', meddled) BY <1>0, <2>1, <2>3, <1>n DEF FilesOK, Regular
  <2> QED BY <1>8, <2>4 DEF stage_runtime_helper, Advance, Keep, ReplicaInv
<1>9. CASE PreparationFails BY <1>9 DEF PreparationFails, ReplicaInv
<1>10. CASE Spawn
  <2>1. Node("daemon", "0000") \in Perms BY NodeIs
  <2>2. fs' \in [Nodes -> Perms] /\ \A n \in Nodes \ {"scratch"} : fs'[n] = fs[n] BY <1>0, <1>10, <2>1, <1>n DEF Spawn
  <2>3. FilesOK(fs', meddled) BY <1>0, <2>2, <1>n DEF FilesOK, Regular
  <2> QED BY <1>10, <2>3 DEF Spawn, Advance, Keep, ReplicaInv
<1>11. CASE WriteTmp
  <2>1. PICK owner \in {"base", "guest"} : fs' = [fs EXCEPT !["file"] = Node(owner, "0644")] BY <1>11 DEF WriteTmp
  <2>2. Node(owner, "0644") \in Perms BY NodeIs
  <2>3. fs' \in [Nodes -> Perms] /\ \A n \in Nodes \ {"file"} : fs'[n] = fs[n] BY <1>0, <2>1, <2>2, <1>n
  <2>4. FilesOK(fs', meddled) BY <1>0, <2>3, <1>n DEF FilesOK, Regular
  <2> QED BY <1>11, <2>4 DEF WriteTmp, ReplicaInv
<1>12. CASE BindSocket
  <2>1. Node("base", "0755") \in Perms BY NodeIs
  <2>2. fs' \in [Nodes -> Perms] /\ \A n \in Nodes \ {"sock"} : fs'[n] = fs[n] BY <1>0, <1>12, <2>1, <1>n DEF BindSocket
  <2>3. FilesOK(fs', meddled) BY <1>0, <2>2, <1>n DEF FilesOK, Regular
  <2> QED BY <1>12, <2>3 DEF BindSocket, ReplicaInv
<1>13. CASE ChmodRoot
  <2>1. fs' \in [Nodes -> Perms] /\ \A n \in Nodes \ {"upper"} : fs'[n] = fs[n] BY <1>0, <1>13, <1>n DEF ChmodRoot, Perms
  <2>2. FilesOK(fs', TRUE) BY <1>0, <2>1, <1>n DEF FilesOK, Regular
  <2> QED BY <1>13, <2>2 DEF ChmodRoot, ReplicaInv
<1>14. CASE Ends BY <1>14 DEF Ends, ReplicaInv
<1>15. CASE CleanupFiles
  <2>1. CASE UNCHANGED <<fs, refused>> BY <1>15, <2>1 DEF CleanupFiles, Advance, ReplicaInv
  <2>2. CASE Wipe(IF Present("dir") THEN restore_current_process_owner(fs, "dir") ELSE fs)
    <3> DEFINE t == IF Present("dir") THEN restore_current_process_owner(fs, "dir") ELSE fs
    <3>1. /\ t \in [Nodes -> Perms] /\ \A n \in Nodes : t[n].mode = fs[n].mode /\ (t[n] = NoNode <=> fs[n] = NoNode)
          /\ (\A n \in Below("dir") : t[n] # NoNode => t[n].owner = "daemon") \/ t["dir"] = NoNode
      BY <1>0, <1>n, BelowAre, Chowned DEF restore_current_process_owner, Present
    <3> HIDE DEF t
    <3>2. FilesOK(t, meddled) BY <1>0, <3>1, <1>n DEF FilesOK, Regular
    <3>3. fs' \in remove_dir_all([t EXCEPT !["socks"] = NoNode, !["sock"] = NoNode], "dir") BY <2>2 DEF Wipe, t
    <3>4. FilesOK(fs', meddled) /\ fs'["dir"] = NoNode BY <3>1, <3>2, <3>3, Wiped
    <3>5. refused' = refused BY <2>2, <3>4 DEF Wipe
    <3> QED BY <1>15, <3>4, <3>5 DEF CleanupFiles, Advance, ReplicaInv
  <2> QED BY <1>15, <2>1, <2>2 DEF CleanupFiles
<1>16. CASE run_to_completion
  <2>1. CASE UNCHANGED <<fs, refused>> BY <1>16, <2>1 DEF run_to_completion, Advance, ReplicaInv
  <2>2. CASE Wipe(fs)
    <3>1. FilesOK(fs', meddled) BY <1>0, <2>2, Wiped DEF Wipe
    <3>2. refused' = refused BY <2>2, <1>16 DEF Wipe, run_to_completion
    <3> QED BY <1>16, <3>1, <3>2 DEF run_to_completion, Advance, ReplicaInv
  <2> QED BY <1>16, <2>1, <2>2 DEF run_to_completion
<1>17. CASE sweep_one_replica
  <2>1. fs' \in [Nodes -> Perms] /\ \A n \in Nodes : fs'[n] = fs[n] \/ fs'[n] = NoNode BY <1>0, <1>17, Removed DEF sweep_one_replica
  <2>2. FilesOK(fs', meddled) BY <1>0, <2>1, FewerOK
  <2> QED BY <1>17, <2>2 DEF sweep_one_replica, ReplicaInv
<1> QED BY <1>1, <1>2, <1>3, <1>4, <1>5, <1>6, <1>7, <1>8, <1>9, <1>10, <1>11, <1>12, <1>13, <1>14, <1>15, <1>16, <1>17
     DEF ReplicaNext

(* Whatever a failed cleanup, a crash or an earlier attempt left, the       *)
(* daemon is never refused by its own files unless the workload changed the *)
(* mode of its root: for any number of launches of a service's replica or a *)
(* job's run.                                                               *)
THEOREM FilesNeverLockOut == ReplicaSpec => []NeverLockedOutOfFiles
<1>1. ReplicaInit => ReplicaInv
  <2>1. ASSUME ReplicaInit PROVE fs \in [Nodes -> Perms] /\ \A n \in Nodes : fs[n] = NoNode BY <2>1, NoNodeIs DEF ReplicaInit
  <2> QED BY <2>1, NodesAre DEF ReplicaInit, ReplicaInv, FilesOK, Regular
<1>2. ReplicaInv => NeverLockedOutOfFiles BY DEF ReplicaInv, NeverLockedOutOfFiles
<1> QED BY <1>1, <1>2, ReplicaStep, PTL DEF ReplicaSpec

-----------------------------------------------------------------------------
(* Types: launches and calls. *)
Procs ==
  [RuntimeLaunches -> [plan : Plans \cup {NoPlan}, sup : {"none", "up", "exited", "gone"},
                       work : {"none", "up", "dying", "dead"}, life : Nat]]
CallPlans == Plans \cup {NoPlan} \cup (Slots \X {NoPlan})
CallT ==
  [op : {"none", "start", "stop", "list"},
   at : {"idle", "reap", "cgroup", "spawn", "detached", "socket", "term", "kill", "cleanup", "wipe"},
   plan : CallPlans, id : 0 .. MaxLaunch, todo : SUBSET Plans, cur : Plans \cup {NoPlan}]

(* The types of the runtime's state. *)
RuntimeTypes ==
  /\ proc \in Procs /\ call \in [Calls -> CallT]
  /\ dir \in [Plans -> {"none", "fresh", "used"}] /\ cgroup \subseteq Plans
  /\ children \in [Slots -> 0 .. MaxLaunch]
  /\ sweep \subseteq Plans /\ sweeping \in sweep \cup {NoPlan}
  /\ raced \subseteq Plans /\ crashes \in Nat

(* Launch i has happened. *)
Ran(P, i) == i \in RuntimeLaunches /\ P[i].plan # NoPlan
(* Some workload of plan p is up. *)
Runs(P, p) == \E i \in RuntimeLaunches : P[i].plan = p /\ P[i].work = "up"

(* What a call knows at each of its awaits, P being the processes: which    *)
(* kind of call it is, that it has a launch in hand, and that a stop which  *)
(* removes the files has seen its workload die.                             *)
CallOK(x, P) ==
  /\ x.id # 0 => Ran(P, x.id)
  /\ x.at \in {"socket", "term", "kill"} => x.id # 0
  /\ x.op = "stop" /\ x.at \in {"cleanup", "wipe"} => x.id # 0
  /\ x.at \in {"cgroup", "spawn", "socket"} => x.op = "start"
  /\ x.at = "detached" => x.op = "none" /\ x.plan \in Plans
  /\ x.op = "start" => x.plan \in Plans
  /\ x.op = "stop" => x.plan \in Slots \X {NoPlan}
  /\ x.at \in {"term", "kill", "cleanup", "wipe"} => x.op \in {"start", "stop"}
  /\ x.op = "stop" /\ x.at = "wipe" => P[x.id].work = "dead"

(* The call x is about to remove the directory of p. *)
Removing(x, P, p) ==
  x.cur = p \/ (x.at = "wipe" /\ (IF x.id = 0 THEN x.plan ELSE P[x.id].plan) = p)

(* Only launches are tracked. *)
Tracked == \A s \in Slots : children[s] # 0 => Ran(proc, children[s])
(* Every call is as it should be. *)
CallsOK == \A c \in Calls : CallOK(call[c], proc)
(* A launch that happened has a workload, dead or alive. *)
Ended == \A i \in RuntimeLaunches : proc[i].plan = NoPlan <=> proc[i].work = "none"
(* Unless its launch raced a removal, a workload that is up has its cgroup  *)
(* and its directory, nobody is about to remove them, and a boot has it on  *)
(* its list.                                                                *)
Undisturbed ==
  \A p \in Plans \ raced : Runs(proc, p) =>
    /\ p \in cgroup /\ dir[p] # "none" /\ p # sweeping
    /\ \A c \in Calls : ~Removing(call[c], proc, p)
    /\ sweep # {} => p \in sweep
(* No call begins before the sweep has ended. *)
Sweeping == sweep # {} => \A c \in Calls : call[c] = Idle
(* After it, what is up was launched by this life of the daemon. *)
OfThisLife ==
  sweep = {} =>
    \A i \in RuntimeLaunches :
      proc[i].plan \in Plans \ raced /\ proc[i].work = "up" => proc[i].life = crashes

(* The inductive invariant. *)
RuntimeInv ==
  RuntimeTypes /\ Tracked /\ CallsOK /\ Ended /\ Undisturbed /\ Sweeping /\ OfThisLife

(* From P to Q processes end and none is launched. *)
Quiet(P, Q) ==
  \A i \in RuntimeLaunches :
    /\ Q[i].plan = P[i].plan /\ Q[i].life = P[i].life
    /\ Q[i].work = "up" => P[i].work = "up"
    /\ P[i].work = "dead" => Q[i].work = "dead"
    /\ Q[i].work = "none" <=> P[i].work = "none"

(* Then no plan begins to run. *)
LEMMA QuietRuns ==
  ASSUME NEW P, NEW Q, Quiet(P, Q)
  PROVE  /\ \A p : Runs(Q, p) => Runs(P, p)
         /\ \A i : Ran(P, i) => Ran(Q, i)
  BY DEF Quiet, Runs, Ran

(* And what a call knows stays true. *)
LEMMA QuietCall ==
  ASSUME NEW P, NEW Q, Quiet(P, Q), NEW x, CallOK(x, P)
  PROVE  /\ CallOK(x, Q)
         /\ \A p : Removing(x, Q, p) => Removing(x, P, p)
  <1>1. x.id # 0 => Ran(P, x.id) /\ x.id \in RuntimeLaunches BY DEF CallOK, Ran
  <1>2. x.id # 0 => Ran(Q, x.id) /\ Q[x.id].plan = P[x.id].plan
    BY <1>1, QuietRuns DEF Quiet
  <1>3. P[x.id].work = "dead" /\ x.id # 0 => Q[x.id].work = "dead" BY <1>1 DEF Quiet
  <1>4. CallOK(x, Q) BY <1>2, <1>3 DEF CallOK
  <1> QED BY <1>2, <1>4 DEF Removing

(* A step of a call that launches nothing and takes files only from plans   *)
(* that do not run.                                                         *)
Calm ==
  /\ proc' \in Procs /\ Quiet(proc, proc')
  /\ children' \in [Slots -> 0 .. MaxLaunch]
  /\ \A s \in Slots : children'[s] # 0 => Ran(proc, children'[s])
  /\ cgroup' \subseteq Plans /\ dir' \in [Plans -> {"none", "fresh", "used"}]
  /\ \A p \in Plans \ raced : Runs(proc', p) =>
       (p \in cgroup => p \in cgroup') /\ (dir[p] # "none" => dir'[p] # "none")
  /\ UNCHANGED <<sweep, sweeping, crashes>> /\ sweep = {}
  /\ raced' = raced \cup {p \in Plans : Overlap(p)}

(* Such a step preserves the invariant when the call that takes it knows    *)
(* what it should.                                                          *)
LEMMA OneCall ==
  ASSUME RuntimeInv, Calm, NEW c \in Calls, NEW x \in CallT, call' = [call EXCEPT ![c] = x],
         CallOK(x, proc'), \A p \in Plans \ raced : Runs(proc', p) => ~Removing(x, proc', p)
  PROVE  RuntimeInv'
  <1>1. call' \in [Calls -> CallT] /\ call'[c] = x /\ \A d \in Calls : d # c => call'[d] = call[d]
    BY DEF RuntimeInv, RuntimeTypes
  <1>2. raced \subseteq raced' /\ raced' \subseteq Plans BY DEF RuntimeInv, RuntimeTypes, Calm
  <1>3. RuntimeTypes' BY <1>1, <1>2 DEF RuntimeInv, RuntimeTypes, Calm
  <1>0. Quiet(proc, proc') BY DEF Calm
  <1>4. Tracked' BY <1>0, QuietRuns DEF Tracked, Calm
  <1>5. CallsOK'
    <2>1. ASSUME NEW d \in Calls PROVE CallOK(call'[d], proc')
      <3>1. CASE d = c BY <1>1, <3>1
      <3>2. CASE d # c BY <1>0, <1>1, <3>2, QuietCall DEF RuntimeInv, CallsOK
      <3> QED BY <3>1, <3>2
    <2> QED BY <2>1 DEF CallsOK
  <1>6. Ended' BY <1>0 DEF RuntimeInv, Ended, Quiet
  <1>7. Undisturbed'
    <2>1. SUFFICES ASSUME NEW p \in Plans \ raced', Runs(proc', p)
                   PROVE  /\ p \in cgroup' /\ dir'[p] # "none" /\ p # sweeping'
                          /\ \A d \in Calls : ~Removing(call'[d], proc', p)
                          /\ sweep' # {} => p \in sweep'
      BY DEF Undisturbed
    <2>2. p \in Plans \ raced /\ Runs(proc, p) BY <1>0, <1>2, <2>1, QuietRuns
    <2>3. /\ p \in cgroup /\ dir[p] # "none" /\ p # sweeping
          /\ \A d \in Calls : ~Removing(call[d], proc, p)
      BY <2>2 DEF RuntimeInv, Undisturbed
    <2>4. p \in cgroup' /\ dir'[p] # "none" BY <2>1, <2>2, <2>3 DEF Calm
    <2>5. ASSUME NEW d \in Calls PROVE ~Removing(call'[d], proc', p)
      <3>1. CASE d = c BY <1>1, <2>1, <2>2, <3>1
      <3>2. CASE d # c BY <1>0, <1>1, <2>3, <3>2, QuietCall DEF RuntimeInv, CallsOK
      <3> QED BY <3>1, <3>2
    <2> QED BY <2>3, <2>4, <2>5 DEF Calm
  <1>8. Sweeping' BY DEF Sweeping, Calm
  <1>9. OfThisLife' BY <1>0, <1>2 DEF RuntimeInv, OfThisLife, Quiet, Calm
  <1> QED BY <1>3, <1>4, <1>5, <1>6, <1>7, <1>8, <1>9 DEF RuntimeInv

(* The fields of a call. *)
LEMMA CallFields ==
  ASSUME NEW x \in CallT
  PROVE  /\ x.op \in {"none", "start", "stop", "list"} /\ x.plan \in CallPlans
         /\ x.id \in 0 .. MaxLaunch /\ x.todo \in SUBSET Plans /\ x.cur \in Plans \cup {NoPlan}
  BY DEF CallT

(* A call that has ended. *)
LEMMA IdleIs ==
  /\ Idle \in CallT /\ Idle.op = "none" /\ Idle.at = "idle" /\ Idle.id = 0 /\ Idle.cur = NoPlan
  /\ Idle.todo = {}
  /\ \A P : CallOK(Idle, P)
  /\ \A P : \A p \in Plans : ~Removing(Idle, P, p)
  <1>1. NoPlan \in CallPlans BY DEF CallPlans
  <1>2. 0 \in 0 .. MaxLaunch BY RuntimeAssumption
  <1>3. /\ Idle.op = "none" /\ Idle.at = "idle" /\ Idle.id = 0 /\ Idle.cur = NoPlan
        /\ Idle.todo = {}
    BY DEF Idle
  <1>4. Idle \in CallT BY <1>1, <1>2 DEF Idle, CallT
  <1>5. \A P : CallOK(Idle, P) BY <1>3 DEF CallOK
  <1>6. \A P : \A p \in Plans : ~Removing(Idle, P, p) BY <1>3, RuntimeAssumption DEF Removing
  <1> QED BY <1>3, <1>4, <1>5, <1>6

(* The awaits of a call. *)
Ats == {"idle", "reap", "cgroup", "spawn", "detached", "socket", "term", "kill", "cleanup", "wipe"}

(* A call that goes on changes nothing else. *)
LEMMA GotoIs ==
  ASSUME NEW x \in CallT, NEW w \in Ats
  PROVE  /\ [x EXCEPT !.at = w] \in CallT
         /\ [x EXCEPT !.at = w].at = w /\ [x EXCEPT !.at = w].op = x.op
         /\ [x EXCEPT !.at = w].plan = x.plan /\ [x EXCEPT !.at = w].id = x.id
         /\ [x EXCEPT !.at = w].todo = x.todo /\ [x EXCEPT !.at = w].cur = x.cur
  <1>1. [x EXCEPT !.at = w] \in CallT BY DEF CallT, Ats
  <1>2. /\ [x EXCEPT !.at = w].at = w /\ [x EXCEPT !.at = w].op = x.op
        /\ [x EXCEPT !.at = w].plan = x.plan /\ [x EXCEPT !.at = w].id = x.id
        /\ [x EXCEPT !.at = w].todo = x.todo /\ [x EXCEPT !.at = w].cur = x.cur
    BY DEF CallT
  <1> QED BY <1>1, <1>2

(* A step that changes no process is quiet. *)
LEMMA SameProcs ==
  \A P : Quiet(P, P)
  BY DEF Quiet

(* The invariant, for one call. *)
LEMMA CallNow ==
  ASSUME RuntimeInv, NEW c \in Calls
  PROVE  /\ call[c] \in CallT /\ CallOK(call[c], proc)
         /\ \A p \in Plans \ raced : Runs(proc, p) => ~Removing(call[c], proc, p)
  BY DEF RuntimeInv, RuntimeTypes, CallsOK, Undisturbed

(* A call may end wherever it is. *)
LEMMA DoneKeeps ==
  ASSUME RuntimeInv, Calm, NEW c \in Calls, Done(c)
  PROVE  RuntimeInv'
  <1>1. call' = [call EXCEPT ![c] = Idle] BY DEF Done
  <1> QED BY <1>1, OneCall, IdleIs

(* A call goes on to the next await. *)
LEMMA GotoKeeps ==
  ASSUME RuntimeInv, Calm, NEW c \in Calls, NEW w \in Ats, Goto(c, w),
         \A y : /\ y.at = w /\ y.op = call[c].op /\ y.plan = call[c].plan /\ y.id = call[c].id
                => CallOK(y, proc'),
         w = "wipe" => ~Runs(proc', Target(c))
  PROVE  RuntimeInv'
  <1>1. PICK x : x = [call[c] EXCEPT !.at = w] OBVIOUS
  <1>2. /\ x \in CallT /\ x.at = w /\ x.op = call[c].op /\ x.plan = call[c].plan
        /\ x.id = call[c].id /\ x.cur = call[c].cur
    BY <1>1, GotoIs, CallNow, Zenon
  <1>3. call' = [call EXCEPT ![c] = x] BY <1>1 DEF Goto, RuntimeInv, RuntimeTypes
  <1>4. CallOK(x, proc') BY <1>2
  <1>5. ASSUME NEW p \in Plans \ raced, Runs(proc', p)
        PROVE  ~Removing(x, proc', p)
    <2>1. Quiet(proc, proc') BY DEF Calm
    <2>2. ~Removing(call[c], proc, p) BY <1>5, <2>1, QuietRuns, CallNow
    <2>3. call[c].id # 0 => proc'[call[c].id].plan = proc[call[c].id].plan
      <3>1. call[c].id # 0 => call[c].id \in RuntimeLaunches BY CallNow DEF CallOK, Ran
      <3> QED BY <2>1, <3>1 DEF Quiet
    <2>4. w = "wipe" => Target(c) # p BY <1>5
    <2>5. x.cur # p BY <1>2, <2>2 DEF Removing
    <2>6. w = "wipe" => (IF x.id = 0 THEN x.plan ELSE proc'[x.id].plan) # p
      BY <1>2, <2>3, <2>4 DEF Target
    <2> QED BY <1>2, <2>5, <2>6 DEF Removing
  <1> QED BY <1>2, <1>3, <1>4, <1>5, OneCall

(* The launches that race a removal are noted. *)
Noted == raced' = raced \cup {p \in Plans : Overlap(p)}

(* Steps that change files only. *)
LEMMA CalmFiles ==
  ASSUME RuntimeInv, Noted, sweep = {}, UNCHANGED <<proc, children, sweep, sweeping, crashes>>,
         cgroup' \subseteq Plans, dir' \in [Plans -> {"none", "fresh", "used"}],
         \A p \in Plans \ raced : Runs(proc, p) =>
            (p \in cgroup => p \in cgroup') /\ (dir[p] # "none" => dir'[p] # "none")
  PROVE  Calm
  <1>1. Quiet(proc, proc') BY SameProcs
  <1> QED BY <1>1 DEF Calm, Noted, RuntimeInv, RuntimeTypes, Tracked

(* Steps that change the call only. *)
LEMMA CalmCall ==
  ASSUME RuntimeInv, Noted, sweep = {}, UNCHANGED <<proc, children, dir, cgroup, sweep, sweeping, crashes>>
  PROVE  Calm
  BY CalmFiles DEF RuntimeInv, RuntimeTypes

(* A plan that runs has a busy cgroup. *)
LEMMA BusyRuns ==
  \A p : Runs(proc, p) => Busy(p)
  BY DEF Runs, Busy, Alive

(* A call that begins. *)
Begun(op, q, T) == [Idle EXCEPT !.op = op, !.plan = q, !.at = "reap", !.todo = T]

(* Its fields. *)
LEMMA BegunIs ==
  ASSUME NEW op \in {"start", "stop", "list"}, NEW q \in CallPlans, NEW T \in SUBSET Plans
  PROVE  \E x \in CallT :
           /\ x = Begun(op, q, T)
           /\ x.op = op /\ x.at = "reap" /\ x.plan = q /\ x.id = 0 /\ x.cur = NoPlan
  <1>0. PICK x : x = Begun(op, q, T) OBVIOUS
  <1>1. Idle \in CallT BY IdleIs
  <1>2. PICK y \in CallT : y = Idle BY <1>1
  <1>3. x = [y EXCEPT !.op = op, !.plan = q, !.at = "reap", !.todo = T] BY <1>0, <1>2 DEF Begun
  <1>4. x \in CallT BY <1>3 DEF CallT
  <1>5. x.op = op /\ x.at = "reap" /\ x.plan = q /\ x.id = y.id /\ x.cur = y.cur
    BY <1>3 DEF CallT
  <1>6. y.id = 0 /\ y.cur = NoPlan BY <1>2, IdleIs
  <1> QED BY <1>0, <1>4, <1>5, <1>6

(* start, stop and list_running begin: children whose supervisor ended      *)
(* leave the map.                                                           *)
LEMMA BeginKeeps ==
  ASSUME RuntimeInv, Noted, NEW c \in Calls, NEW op \in {"start", "stop", "list"}, NEW q \in CallPlans,
         Begin(c, op, q)
  PROVE  RuntimeInv'
  <1>1. sweep = {} /\ UNCHANGED <<dir, cgroup, sweep, sweeping, crashes>>
    BY DEF Begin, At, files, history
  <1>2. proc' \in Procs /\ Quiet(proc, proc')
    <2>1. \A i \in RuntimeLaunches : proc'[i] = proc[i] \/ proc'[i] = [proc[i] EXCEPT !.sup = "gone"]
      BY DEF Begin
    <2>2. \A i \in RuntimeLaunches :
            /\ [proc[i] EXCEPT !.sup = "gone"].plan = proc[i].plan
            /\ [proc[i] EXCEPT !.sup = "gone"].life = proc[i].life
            /\ [proc[i] EXCEPT !.sup = "gone"].work = proc[i].work
      BY DEF RuntimeInv, RuntimeTypes, Procs
    <2>3. proc' \in Procs BY DEF Begin, RuntimeInv, RuntimeTypes, Procs
    <2> QED BY <2>1, <2>2, <2>3 DEF Quiet
  <1>3. /\ children' \in [Slots -> 0 .. MaxLaunch]
        /\ \A s \in Slots : children'[s] # 0 => Ran(proc, children'[s])
    <2>1. children' = [s \in Slots |-> IF s \in Exited THEN 0 ELSE children[s]] BY DEF Begin
    <2>2. 0 \in 0 .. MaxLaunch BY RuntimeAssumption
    <2> QED BY <2>1, <2>2 DEF RuntimeInv, RuntimeTypes, Tracked
  <1>4. Calm BY <1>1, <1>2, <1>3 DEF Calm, Noted, RuntimeInv, RuntimeTypes
  <1>5. PICK T : T = {proc[children[s]].plan : s \in Exited} OBVIOUS
  <1>6. T \subseteq Plans
    <2>1. \A s \in Exited : Ran(proc, children[s]) BY DEF Exited, RuntimeInv, Tracked
    <2>2. \A i \in RuntimeLaunches : proc[i].plan \in Plans \cup {NoPlan}
      BY DEF RuntimeInv, RuntimeTypes, Procs
    <2> QED BY <1>5, <2>1, <2>2 DEF Ran
  <1>7. T \in SUBSET Plans BY <1>6
  <1>8. PICK x \in CallT :
          /\ x = Begun(op, q, T)
          /\ x.op = op /\ x.at = "reap" /\ x.plan = q /\ x.id = 0 /\ x.cur = NoPlan
    BY <1>7, BegunIs
  <1>9. call' = [call EXCEPT ![c] = x] BY <1>5, <1>8, Zenon DEF Begin, Begun
  <1>10. CallOK(x, proc') BY <1>8 DEF CallOK, Begin
  <1>11. \A p \in Plans : ~Removing(x, proc', p) BY <1>8, RuntimeAssumption DEF Removing
  <1> QED BY <1>4, <1>8, <1>9, <1>10, <1>11, OneCall

(* The reaper removes a cgroup only when nothing lives in it. *)
LEMMA ReapCgroupKeeps ==
  ASSUME RuntimeInv, Noted, NEW c \in Calls, NEW p \in Plans, ReapCgroup(c, p)
  PROVE  RuntimeInv'
  <1>1. /\ sweep = {} /\ call[c].at = "reap"
        /\ UNCHANGED <<proc, children, dir, sweep, sweeping, crashes>>
    BY DEF ReapCgroup, At, history
  <1>2. CASE Busy(p)
    BY <1>1, <1>2, CalmCall, DoneKeeps DEF ReapCgroup
  <1>3. CASE ~Busy(p)
    <2>1. cgroup' = cgroup \ {p} BY <1>3 DEF ReapCgroup
    <2>2. ~Runs(proc, p) BY <1>3, BusyRuns
    <2>3. Calm BY <1>1, <2>1, <2>2, CalmFiles DEF RuntimeInv, RuntimeTypes
    <2>4. call[c] \in CallT /\ CallOK(call[c], proc) BY CallNow
    <2>5. PICK x : x = [call[c] EXCEPT !.todo = call[c].todo \ {p}, !.cur = p] OBVIOUS
    <2>6. call' = [call EXCEPT ![c] = x] BY <1>3, <2>5 DEF ReapCgroup, RuntimeInv, RuntimeTypes
    <2>7. x \in CallT BY <2>4, <2>5 DEF CallT
    <2>8. /\ x.op = call[c].op /\ x.at = "reap" /\ x.plan = call[c].plan /\ x.id = call[c].id
          /\ x.cur = p
      BY <1>1, <2>4, <2>5 DEF CallT
    <2>9. CallOK(x, proc') BY <1>1, <2>4, <2>8 DEF CallOK
    <2>10. \A r \in Plans : Runs(proc', r) => ~Removing(x, proc', r)
      BY <1>1, <2>2, <2>8 DEF Removing
    <2> QED BY <2>3, <2>6, <2>7, <2>9, <2>10, OneCall
  <1> QED BY <1>2, <1>3

(* And the directory after it: what was launched in between raced it. *)
LEMMA ReapDirKeeps ==
  ASSUME RuntimeInv, Noted, NEW c \in Calls, ReapDir(c)
  PROVE  RuntimeInv'
  <1>1. /\ sweep = {} /\ call[c].at = "reap" /\ call[c].cur # NoPlan
        /\ UNCHANGED <<proc, children, cgroup, sweep, sweeping, crashes>>
    BY DEF ReapDir, At, history
  <1>2. CASE Done(c) /\ UNCHANGED dir
    BY <1>1, <1>2, CalmCall, DoneKeeps
  <1>3. CASE /\ dir' = [dir EXCEPT ![call[c].cur] = "none"]
             /\ call' = [call EXCEPT ![c].cur = NoPlan]
    <2>1. PICK q \in Plans : q = call[c].cur BY <1>1, CallNow, CallFields
    <2>2. q \notin raced => ~Runs(proc, q) BY <2>1, CallNow DEF Removing
    <2>3. /\ dir' \in [Plans -> {"none", "fresh", "used"}]
          /\ \A p \in Plans : p # q => dir'[p] = dir[p]
      BY <1>3, <2>1 DEF RuntimeInv, RuntimeTypes
    <2>4. Calm BY <1>1, <2>2, <2>3, CalmFiles DEF RuntimeInv, RuntimeTypes
    <2>5. call[c] \in CallT /\ CallOK(call[c], proc) BY CallNow
    <2>6. PICK x : x = [call[c] EXCEPT !.cur = NoPlan] OBVIOUS
    <2>7. call' = [call EXCEPT ![c] = x] BY <1>3, <2>6 DEF RuntimeInv, RuntimeTypes
    <2>8. x \in CallT BY <2>5, <2>6 DEF CallT
    <2>9. /\ x.op = call[c].op /\ x.at = "reap" /\ x.plan = call[c].plan /\ x.id = call[c].id
          /\ x.cur = NoPlan
      BY <1>1, <2>5, <2>6 DEF CallT
    <2>10. CallOK(x, proc') BY <1>1, <2>5, <2>9 DEF CallOK
    <2>11. \A r \in Plans : ~Removing(x, proc', r) BY <2>9, RuntimeAssumption DEF Removing
    <2> QED BY <2>4, <2>7, <2>8, <2>10, <2>11, OneCall
  <1> QED BY <1>2, <1>3 DEF ReapDir

(* list_running, and prepare, its cgroup and its failure. *)
LEMMA PrepareKeeps ==
  ASSUME RuntimeInv, Noted, NEW c \in Calls,
         list_running(c) \/ prepare(c) \/ prepare_cgroup_directory(c) \/ PrepareFails(c)
  PROVE  RuntimeInv'
  <1>1. call[c] \in CallT /\ CallOK(call[c], proc) BY CallNow
  <1>2. CASE list_running(c)
    <2>1. sweep = {} /\ UNCHANGED <<proc, children, dir, cgroup, sweep, sweeping, crashes>> /\ Done(c)
      BY <1>2 DEF list_running, Reaped, At, files, history
    <2> QED BY <2>1, CalmCall, DoneKeeps
  <1>3. CASE prepare(c)
    <2>1. /\ sweep = {} /\ UNCHANGED <<proc, children, cgroup, sweep, sweeping, crashes>>
          /\ Goto(c, "cgroup") /\ call[c].op = "start" /\ call[c].at = "reap"
      BY <1>3 DEF prepare, Reaped, At, history
    <2>2. PICK q \in Plans : q = call[c].plan BY <1>1, <2>1 DEF CallOK
    <2>3. dir' = [dir EXCEPT ![q] = IF dir[q] = "none" THEN "fresh" ELSE dir[q]]
      BY <1>3, <2>2 DEF prepare
    <2>4. /\ dir' \in [Plans -> {"none", "fresh", "used"}]
          /\ \A p \in Plans : dir[p] # "none" => dir'[p] # "none"
      BY <2>3 DEF RuntimeInv, RuntimeTypes
    <2>5. Calm BY <2>1, <2>4, CalmFiles DEF RuntimeInv, RuntimeTypes
    <2>6. ASSUME NEW y, y.at = "cgroup", y.op = call[c].op, y.plan = call[c].plan, y.id = call[c].id
          PROVE  CallOK(y, proc')
      BY <1>1, <2>1, <2>6 DEF CallOK
    <2>7. "cgroup" \in Ats BY DEF Ats
    <2> QED BY <2>1, <2>5, <2>6, <2>7, GotoKeeps
  <1>4. CASE prepare_cgroup_directory(c)
    <2>1. /\ sweep = {} /\ UNCHANGED <<proc, children, dir, sweep, sweeping, crashes>>
          /\ Goto(c, "spawn") /\ call[c].at = "cgroup"
      BY <1>4 DEF prepare_cgroup_directory, At, history
    <2>2. call[c].op = "start" /\ call[c].plan \in Plans BY <1>1, <2>1 DEF CallOK
    <2>3. cgroup' = cgroup \cup {call[c].plan} BY <1>4 DEF prepare_cgroup_directory
    <2>4. Calm BY <2>1, <2>2, <2>3, CalmFiles DEF RuntimeInv, RuntimeTypes
    <2>5. ASSUME NEW y, y.at = "spawn", y.op = call[c].op, y.plan = call[c].plan, y.id = call[c].id
          PROVE  CallOK(y, proc')
      BY <1>1, <2>1, <2>2, <2>5 DEF CallOK
    <2>6. "spawn" \in Ats BY DEF Ats
    <2> QED BY <2>1, <2>4, <2>5, <2>6, GotoKeeps
  <1>5. CASE PrepareFails(c)
    <2>1. /\ sweep = {} /\ UNCHANGED <<proc, children, dir, cgroup, sweep, sweeping, crashes>>
          /\ Goto(c, "cleanup") /\ call[c].at = "cgroup"
      BY <1>5 DEF PrepareFails, At, files, history
    <2>2. Calm BY <2>1, CalmCall
    <2>3. ASSUME NEW y, y.at = "cleanup", y.op = call[c].op, y.plan = call[c].plan, y.id = call[c].id
          PROVE  CallOK(y, proc')
      BY <1>1, <2>1, <2>3 DEF CallOK
    <2>4. "cleanup" \in Ats BY DEF Ats
    <2> QED BY <2>1, <2>2, <2>3, <2>4, GotoKeeps
  <1> QED BY <1>2, <1>3, <1>4, <1>5

(* A socket that does not come, and a spawn that fails. *)
LEMMA SocketKeeps ==
  ASSUME RuntimeInv, Noted, NEW c \in Calls, SocketFails(c) \/ SpawnErr(c)
  PROVE  RuntimeInv'
  <1>1. call[c] \in CallT /\ CallOK(call[c], proc) BY CallNow
  <1>2. sweep = {} /\ UNCHANGED <<proc, children, dir, cgroup, sweep, sweeping, crashes>>
    BY DEF SocketFails, SpawnErr, Spawning, At, files, history
  <1>3. Calm BY <1>2, CalmCall
  <1>4. CASE SocketFails(c)
    <2>1. Goto(c, "term") /\ call[c].at = "socket" BY <1>4 DEF SocketFails, At
    <2>2. ASSUME NEW y, y.at = "term", y.op = call[c].op, y.plan = call[c].plan, y.id = call[c].id
          PROVE  CallOK(y, proc')
      BY <1>1, <1>2, <2>1, <2>2 DEF CallOK
    <2>3. "term" \in Ats BY DEF Ats
    <2> QED BY <1>3, <2>1, <2>2, <2>3, GotoKeeps
  <1>5. CASE SpawnErr(c)
    <2>1. CASE Detached(c)
      <3>1. Done(c) BY <1>5, <2>1 DEF SpawnErr, Done
      <3> QED BY <1>3, <3>1, DoneKeeps
    <2>2. CASE ~Detached(c)
      <3>1. Goto(c, "cleanup") /\ call[c].at = "spawn"
        BY <1>5, <2>2 DEF SpawnErr, Goto, Spawning, Detached, At, RuntimeInv, RuntimeTypes
      <3>2. ASSUME NEW y, y.at = "cleanup", y.op = call[c].op, y.plan = call[c].plan, y.id = call[c].id
            PROVE  CallOK(y, proc')
        BY <1>1, <1>2, <3>1, <3>2 DEF CallOK
      <3>3. "cleanup" \in Ats BY DEF Ats
      <3> QED BY <1>3, <3>1, <3>2, <3>3, GotoKeeps
    <2> QED BY <2>1, <2>2
  <1> QED BY <1>4, <1>5

(* The call has a launch in hand. *)
Taken(x, i, w) == [x EXCEPT !.id = i, !.at = w]

(* Its fields. *)
LEMMA TakenIs ==
  ASSUME NEW x \in CallT, NEW i \in 0 .. MaxLaunch, NEW w \in Ats
  PROVE  \E y \in CallT :
           /\ y = Taken(x, i, w)
           /\ y.id = i /\ y.at = w /\ y.op = x.op /\ y.plan = x.plan /\ y.cur = x.cur
  <1>1. PICK y : y = Taken(x, i, w) OBVIOUS
  <1>2. y \in CallT BY <1>1 DEF CallT, Ats, Taken
  <1>3. y.id = i /\ y.at = w /\ y.op = x.op /\ y.plan = x.plan /\ y.cur = x.cur
    BY <1>1 DEF CallT, Taken
  <1> QED BY <1>1, <1>2, <1>3

(* The map gets the new child, or loses the one to be stopped; the old one  *)
(* is in the hands of the call.                                             *)
LEMMA ReplaceKeeps ==
  ASSUME RuntimeInv, Noted, NEW c \in Calls, Insert(c) \/ Remove(c)
  PROVE  RuntimeInv'
  <1>1. call[c] \in CallT /\ CallOK(call[c], proc) BY CallNow
  <1>2. sweep = {} /\ UNCHANGED <<proc, dir, cgroup, sweep, sweeping, crashes>>
    BY DEF Insert, Remove, Reaped, At, files, history
  <1>3. PICK s \in Slots : s = call[c].plan[1]
    <2>1. call[c].plan \in Plans \/ call[c].plan \in Slots \X {NoPlan}
      BY <1>1 DEF Insert, Remove, At, CallOK
    <2>2. call[c].plan[1] \in Slots BY <2>1 DEF Plans
    <2> QED BY <2>2
  <1>4. PICK n \in 0 .. MaxLaunch : /\ children' = [children EXCEPT ![s] = n]
                                    /\ n # 0 => Ran(proc, n)
    <2>1. 0 \in 0 .. MaxLaunch BY RuntimeAssumption
    <2>2. CASE Remove(c) BY <1>3, <2>1, <2>2 DEF Remove
    <2>3. CASE Insert(c)
      <3>1. call[c].id \in 0 .. MaxLaunch BY <1>1, CallFields
      <3>2. call[c].id # 0 => Ran(proc, call[c].id) BY <1>1 DEF CallOK
      <3> QED BY <1>3, <2>3, <3>1, <3>2 DEF Insert
    <2> QED BY <2>2, <2>3
  <1>5. /\ children' \in [Slots -> 0 .. MaxLaunch]
        /\ \A r \in Slots : children'[r] # 0 => Ran(proc, children'[r])
    BY <1>4 DEF RuntimeInv, RuntimeTypes, Tracked
  <1>6. Calm BY <1>2, <1>5, SameProcs DEF Calm, Noted, RuntimeInv, RuntimeTypes
  <1>7. CASE children[s] = 0
    <2>1. Done(c) BY <1>3, <1>7 DEF Insert, Remove
    <2> QED BY <1>6, <2>1, DoneKeeps
  <1>8. CASE children[s] # 0
    <2>1. call' = [call EXCEPT ![c].id = children[s], ![c].at = "term"]
      BY <1>3, <1>8 DEF Insert, Remove
    <2>2. "term" \in Ats BY DEF Ats
    <2>3. children[s] \in 0 .. MaxLaunch /\ Ran(proc, children[s])
      BY <1>3, <1>8 DEF RuntimeInv, RuntimeTypes, Tracked
    <2>4. PICK y \in CallT :
           /\ y = Taken(call[c], children[s], "term")
           /\ y.id = children[s] /\ y.at = "term" /\ y.op = call[c].op /\ y.plan = call[c].plan
           /\ y.cur = call[c].cur
      BY <1>1, <2>2, <2>3, TakenIs
    <2>5. call' = [call EXCEPT ![c] = y] BY <2>1, <2>4 DEF RuntimeInv, RuntimeTypes, Taken
    <2>6. CallOK(y, proc')
      <3>1. call[c].op \in {"start", "stop"} BY <1>1 DEF Insert, Remove, At, CallOK
      <3> QED BY <1>1, <1>2, <1>8, <2>3, <2>4, <3>1 DEF CallOK
    <2>7. \A p \in Plans \ raced : Runs(proc', p) => ~Removing(y, proc', p)
      BY <1>2, <2>4, CallNow DEF Removing
    <2> QED BY <1>6, <2>5, <2>6, <2>7, OneCall
  <1> QED BY <1>7, <1>8

(* cgroup.kill reaches every workload of a cgroup that exists. *)
LEMMA KilledIs ==
  ASSUME proc \in Procs, NEW q, NEW P, P = Killed(q)
  PROVE  /\ P \in Procs /\ Quiet(proc, P)
         /\ q \in cgroup => ~Runs(P, q)
  <1>1. ASSUME NEW i \in RuntimeLaunches
        PROVE  /\ P[i] \in [plan : Plans \cup {NoPlan}, sup : {"none", "up", "exited", "gone"},
                            work : {"none", "up", "dying", "dead"}, life : Nat]
               /\ P[i].plan = proc[i].plan /\ P[i].life = proc[i].life
               /\ P[i].work = "up" => proc[i].work = "up"
               /\ proc[i].work = "dead" => P[i].work = "dead"
               /\ P[i].work = "none" <=> proc[i].work = "none"
               /\ q \in cgroup /\ P[i].plan = q => P[i].work # "up"
    <2>1. PICK x \in [plan : Plans \cup {NoPlan}, sup : {"none", "up", "exited", "gone"},
                      work : {"none", "up", "dying", "dead"}, life : Nat] : x = proc[i]
      BY DEF Procs
    <2>2. CASE x.plan = q /\ q \in cgroup
      <3>1. P[i] = [x EXCEPT !.sup = IF x.sup = "up" THEN "exited" ELSE x.sup,
                             !.work = IF x.work = "up" THEN "dying" ELSE x.work]
        BY <2>1, <2>2 DEF Killed
      <3>2. P[i] \in [plan : Plans \cup {NoPlan}, sup : {"none", "up", "exited", "gone"},
                      work : {"none", "up", "dying", "dead"}, life : Nat]
        BY <3>1
      <3>3. /\ P[i].plan = x.plan /\ P[i].life = x.life
            /\ P[i].work = IF x.work = "up" THEN "dying" ELSE x.work
        BY <3>1
      <3> QED BY <2>1, <3>2, <3>3
    <2>3. CASE ~(x.plan = q /\ q \in cgroup)
      <3>1. P[i] = x BY <2>1, <2>3 DEF Killed
      <3> QED BY <2>1, <2>3, <3>1
    <2> QED BY <2>2, <2>3
  <1>2. P = [i \in RuntimeLaunches |-> P[i]] BY DEF Killed
  <1>3. P \in Procs BY <1>1, <1>2 DEF Procs
  <1> QED BY <1>1, <1>3 DEF Quiet, Runs

(* The supervisor is ended and the cgroup killed. *)
LEMMA TerminateKeeps ==
  ASSUME RuntimeInv, Noted, NEW c \in Calls, terminate_tracked_process(c) \/ CgroupKill(c)
  PROVE  RuntimeInv'
  <1>1. call[c] \in CallT /\ CallOK(call[c], proc) BY CallNow
  <1>2. sweep = {} /\ UNCHANGED <<children, dir, cgroup, sweep, sweeping, crashes>>
    BY DEF terminate_tracked_process, CgroupKill, At, files, history
  <1>3. PICK w \in {"kill", "cleanup"} :
          /\ Goto(c, w)
          /\ w = "kill" => call[c].at = "term"
          /\ w = "cleanup" => call[c].at = "kill"
    BY DEF terminate_tracked_process, CgroupKill, At
  <1>4. Ran(proc, call[c].id) /\ call[c].id # 0 BY <1>1, <1>3 DEF CallOK
  <1>5. proc' \in Procs /\ Quiet(proc, proc')
    <2>1. CASE terminate_tracked_process(c)
      <3>1. PICK i \in RuntimeLaunches : i = call[c].id BY <1>4 DEF Ran
      <3>2. proc' = [proc EXCEPT ![i].sup = "gone"] BY <2>1, <3>1 DEF terminate_tracked_process
      <3>3. proc' \in Procs BY <3>2 DEF RuntimeInv, RuntimeTypes, Procs
      <3>4. \A j \in RuntimeLaunches :
              /\ proc'[j].plan = proc[j].plan /\ proc'[j].life = proc[j].life
              /\ proc'[j].work = proc[j].work
        BY <3>2 DEF RuntimeInv, RuntimeTypes, Procs
      <3> QED BY <3>3, <3>4 DEF Quiet
    <2>2. CASE CgroupKill(c) BY <2>2, KilledIs DEF CgroupKill, RuntimeInv, RuntimeTypes
    <2> QED BY <2>1, <2>2
  <1>6. Calm BY <1>2, <1>5 DEF Calm, Noted, RuntimeInv, RuntimeTypes, Tracked
  <1>7. CallOK(call[c], proc') BY <1>1, <1>5, QuietCall
  <1>8. ASSUME NEW y, y.at = w, y.op = call[c].op, y.plan = call[c].plan, y.id = call[c].id
        PROVE  CallOK(y, proc')
    <2>1. call[c].op \in {"none", "start", "stop", "list"} BY <1>1, CallFields
    <2> QED BY <1>3, <1>4, <1>7, <1>8, <2>1 DEF CallOK
  <1>9. w \in Ats BY DEF Ats
  <1> QED BY <1>3, <1>6, <1>8, <1>9, GotoKeeps

(* A call that cleans up knows its plan. *)
LEMMA TargetIs ==
  ASSUME RuntimeInv, NEW c \in Calls, call[c].at \in {"cleanup", "wipe"}
  PROVE  Target(c) \in Plans
  <1>1. call[c] \in CallT /\ CallOK(call[c], proc) BY CallNow
  <1>2. call[c].id = 0 => call[c].plan \in Plans BY <1>1 DEF CallOK
  <1>3. call[c].id # 0 => proc[call[c].id].plan \in Plans
    <2>1. \A i \in RuntimeLaunches : proc[i].plan \in Plans \cup {NoPlan}
      BY DEF RuntimeInv, RuntimeTypes, Procs
    <2> QED BY <1>1, <2>1 DEF CallOK, Ran
  <1> QED BY <1>2, <1>3 DEF Target

(* cleanup removes a cgroup only when nothing lives in it: a stop has then  *)
(* seen its workload die.                                                   *)
LEMMA CleanupKeeps ==
  ASSUME RuntimeInv, Noted, NEW c \in Calls, cleanup(c)
  PROVE  RuntimeInv'
  <1>1. call[c] \in CallT /\ CallOK(call[c], proc) BY CallNow
  <1>2. /\ sweep = {} /\ UNCHANGED <<proc, children, dir, sweep, sweeping, crashes>>
        /\ call[c].at = "cleanup"
    BY DEF cleanup, At, history
  <1>3. CASE Busy(Target(c))
    BY <1>2, <1>3, CalmCall, DoneKeeps DEF cleanup
  <1>4. CASE ~Busy(Target(c))
    <2>1. cgroup' = cgroup \ {Target(c)} /\ Goto(c, "wipe") BY <1>4 DEF cleanup
    <2>2. ~Runs(proc, Target(c)) BY <1>4, BusyRuns
    <2>3. Calm BY <1>2, <2>1, <2>2, CalmFiles DEF RuntimeInv, RuntimeTypes
    <2>4. call[c].op = "stop" => proc[call[c].id].work = "dead"
      <3>1. SUFFICES ASSUME call[c].op = "stop" PROVE proc[call[c].id].work = "dead"
        OBVIOUS
      <3>2. Ran(proc, call[c].id) /\ call[c].id # 0 BY <1>1, <1>2, <3>1 DEF CallOK
      <3>3. PICK i \in RuntimeLaunches : i = call[c].id /\ proc[i].plan # NoPlan BY <3>2 DEF Ran
      <3>4. Target(c) = proc[i].plan BY <3>2, <3>3 DEF Target
      <3>5. ~Alive(i) BY <1>4, <3>4 DEF Busy
      <3>6. proc[i].work \in {"none", "up", "dying", "dead"}
        BY DEF RuntimeInv, RuntimeTypes, Procs
      <3>7. proc[i].work # "none" BY <3>3 DEF RuntimeInv, Ended
      <3> QED BY <3>3, <3>5, <3>6, <3>7 DEF Alive
    <2>5. ASSUME NEW y, y.at = "wipe", y.op = call[c].op, y.plan = call[c].plan, y.id = call[c].id
          PROVE  CallOK(y, proc')
      BY <1>1, <1>2, <2>4, <2>5 DEF CallOK
    <2>6. "wipe" \in Ats BY DEF Ats
    <2>7. ~Runs(proc', Target(c)) BY <1>2, <2>2
    <2> QED BY <2>1, <2>3, <2>5, <2>6, <2>7, GotoKeeps
  <1> QED BY <1>3, <1>4

(* The directory goes after the cgroup. *)
LEMMA WipeDirKeeps ==
  ASSUME RuntimeInv, Noted, NEW c \in Calls, WipeDir(c)
  PROVE  RuntimeInv'
  <1>1. /\ sweep = {} /\ UNCHANGED <<proc, children, cgroup, sweep, sweeping, crashes>>
        /\ call[c].at = "wipe" /\ Done(c)
    BY DEF WipeDir, At, history
  <1>2. PICK q \in Plans : q = Target(c) BY <1>1, TargetIs
  <1>3. q \notin raced => ~Runs(proc, q) BY <1>1, <1>2, CallNow DEF Removing, Target
  <1>4. /\ dir' \in [Plans -> {"none", "fresh", "used"}]
        /\ \A p \in Plans : p # q => dir'[p] = dir[p]
    BY <1>2 DEF WipeDir, RuntimeInv, RuntimeTypes
  <1>5. Calm BY <1>1, <1>3, <1>4, CalmFiles DEF RuntimeInv, RuntimeTypes
  <1> QED BY <1>1, <1>5, DoneKeeps

(* A future is dropped. *)
LEMMA DropKeeps ==
  ASSUME RuntimeInv, Noted, NEW c \in Calls, Drop(c)
  PROVE  RuntimeInv'
  <1>1. call[c] \in CallT /\ CallOK(call[c], proc) BY CallNow
  <1>2. sweep = {} /\ UNCHANGED <<proc, children, dir, cgroup, sweep, sweeping, crashes>>
    BY DEF Drop, At, files
  <1>3. Calm BY <1>2, CalmCall
  <1>4. CASE call[c].at # "spawn"
    <2>1. Done(c) BY <1>4 DEF Drop, Done
    <2> QED BY <1>3, <2>1, DoneKeeps
  <1>5. CASE call[c].at = "spawn"
    <2>1. PICK x : x = [call[c] EXCEPT !.op = "none", !.at = "detached"] OBVIOUS
    <2>2. call' = [call EXCEPT ![c] = x] BY <1>5, <2>1 DEF Drop
    <2>3. x \in CallT BY <1>1, <2>1 DEF CallT
    <2>4. /\ x.op = "none" /\ x.at = "detached" /\ x.plan = call[c].plan /\ x.id = call[c].id
          /\ x.cur = call[c].cur
      BY <1>1, <2>1 DEF CallT
    <2>5. CallOK(x, proc') BY <1>1, <1>2, <1>5, <2>4 DEF CallOK
    <2>6. \A p \in Plans \ raced : Runs(proc', p) => ~Removing(x, proc', p)
      BY <1>2, <2>4, CallNow DEF Removing
    <2> QED BY <1>3, <2>2, <2>3, <2>5, <2>6, OneCall
  <1> QED BY <1>4, <1>5

(* A launch. *)
LEMMA SpawnedIs ==
  ASSUME RuntimeInv, NEW c \in Calls, Spawning(c), NEW i \in RuntimeLaunches,
         NEW sup \in {"up", "gone"}, Spawned(c, i, sup)
  PROVE  /\ proc' \in Procs /\ proc[i].plan = NoPlan
         /\ call[c].plan \in Plans /\ proc'[i].plan = call[c].plan
         /\ proc'[i].work = "up" /\ proc'[i].life = crashes
         /\ \A j \in RuntimeLaunches : j # i => proc'[j] = proc[j]
  <1>1. CallOK(call[c], proc) BY CallNow
  <1>2. call[c].plan \in Plans BY <1>1 DEF Spawning, At, CallOK
  <1>3. PICK q \in Plans : q = call[c].plan BY <1>2
  <1>4. PICK r : r = [plan |-> q, sup |-> sup, work |-> "up", life |-> crashes] OBVIOUS
  <1>5. crashes \in Nat BY DEF RuntimeInv, RuntimeTypes
  <1>6. /\ r \in [plan : Plans \cup {NoPlan}, sup : {"none", "up", "exited", "gone"},
                  work : {"none", "up", "dying", "dead"}, life : Nat]
        /\ r.plan = q /\ r.work = "up" /\ r.life = crashes
    BY <1>4, <1>5
  <1>7. proc' = [proc EXCEPT ![i] = r] BY <1>3, <1>4 DEF Spawned
  <1>8. proc \in Procs BY DEF RuntimeInv, RuntimeTypes
  <1>9. proc' \in Procs /\ proc'[i] = r /\ \A j \in RuntimeLaunches : j # i => proc'[j] = proc[j]
    BY <1>6, <1>7, <1>8 DEF Procs
  <1> QED BY <1>2, <1>3, <1>6, <1>9 DEF Spawned

(* A launch of a plan that a removal is about to disturb is noted, and any  *)
(* other has its cgroup and directory.                                      *)
LEMMA SpawnKeeps ==
  ASSUME RuntimeInv, Noted, NEW c \in Calls, Spawning(c), NEW i \in RuntimeLaunches,
         NEW sup \in {"up", "gone"}, Spawned(c, i, sup),
         NEW x \in CallT, call' = [call EXCEPT ![c] = x], CallOK(x, proc'),
         x.at # "wipe", x.cur \in {call[c].cur, NoPlan}
  PROVE  RuntimeInv'
  <1>1. /\ proc' \in Procs /\ proc[i].plan = NoPlan
        /\ call[c].plan \in Plans /\ proc'[i].plan = call[c].plan
        /\ proc'[i].work = "up" /\ proc'[i].life = crashes
        /\ \A j \in RuntimeLaunches : j # i => proc'[j] = proc[j]
    BY SpawnedIs
  <1>2. call' \in [Calls -> CallT] /\ call'[c] = x /\ \A d \in Calls : d # c => call'[d] = call[d]
    BY DEF RuntimeInv, RuntimeTypes
  <1>3. /\ sweep = {} /\ UNCHANGED <<cgroup, children, sweep, sweeping, crashes>>
        /\ call[c].at \in {"spawn", "detached"}
        /\ call[c].plan \in cgroup /\ dir[call[c].plan] # "none"
    BY DEF Spawning, At, Spawned
  <1>4. dir' = [dir EXCEPT ![call[c].plan] = "used"] BY DEF Spawned
  <1>5. /\ dir' \in [Plans -> {"none", "fresh", "used"}]
        /\ \A p \in Plans : dir[p] # "none" => dir'[p] # "none"
    BY <1>1, <1>4 DEF RuntimeInv, RuntimeTypes
  <1>6. raced \subseteq raced' /\ raced' \subseteq Plans BY DEF Noted, RuntimeInv, RuntimeTypes
  <1>7. RuntimeTypes' BY <1>1, <1>2, <1>3, <1>5, <1>6 DEF RuntimeInv, RuntimeTypes
  <1>8. \A j : Ran(proc, j) => j # i /\ Ran(proc', j) /\ proc'[j] = proc[j] BY <1>1 DEF Ran
  <1>9. Tracked' BY <1>3, <1>8 DEF RuntimeInv, Tracked
  <1>10. ASSUME NEW d \in Calls, d # c
         PROVE  CallOK(call'[d], proc') /\ \A p : Removing(call'[d], proc', p) => Removing(call[d], proc, p)
    <2>1. CallOK(call[d], proc) /\ call'[d] = call[d] BY <1>2, <1>10, CallNow
    <2>2. call[d].id # 0 => Ran(proc', call[d].id) /\ proc'[call[d].id] = proc[call[d].id]
      BY <1>8, <2>1 DEF CallOK
    <2> QED BY <2>1, <2>2 DEF CallOK, Removing
  <1>11. CallsOK' BY <1>2, <1>10 DEF CallsOK
  <1>12. Ended'
    <2>1. NoPlan \notin Plans BY RuntimeAssumption
    <2> QED BY <1>1, <2>1 DEF RuntimeInv, Ended
  <1>13. Undisturbed'
    <2>1. SUFFICES ASSUME NEW p \in Plans \ raced', Runs(proc', p)
                   PROVE  /\ p \in cgroup' /\ dir'[p] # "none" /\ p # sweeping'
                          /\ \A d \in Calls : ~Removing(call'[d], proc', p)
      BY <1>3 DEF Undisturbed
    <2>2. p \in Plans \ raced BY <1>6
    <2>3. p # sweeping'
      <3>1. sweeping = NoPlan BY <1>3 DEF RuntimeInv, RuntimeTypes
      <3> QED BY <1>3, <3>1, RuntimeAssumption
    <2>4. p \in cgroup /\ dir[p] # "none" /\ \A d \in Calls : ~Removing(call[d], proc, p)
      <3>1. CASE Runs(proc, p) BY <2>2, <3>1 DEF RuntimeInv, Undisturbed
      <3>2. CASE ~Runs(proc, p)
        <4>1. p = call[c].plan BY <1>1, <2>1, <3>2 DEF Runs
        <4>2. ~Overlap(p) BY <2>1 DEF Noted
        <4>3. ASSUME NEW d \in Calls PROVE ~Removing(call[d], proc, p)
          BY <1>3, <4>1, <4>2 DEF Overlap, Removing, Target
        <4> QED BY <1>3, <4>1, <4>3
      <3> QED BY <3>1, <3>2
    <2>5. ASSUME NEW d \in Calls PROVE ~Removing(call'[d], proc', p)
      <3>1. CASE d # c BY <1>10, <2>4, <3>1
      <3>2. CASE d = c
        <4>1. NoPlan # p BY RuntimeAssumption
        <4>2. call[c].cur # p BY <2>4 DEF Removing
        <4> QED BY <1>2, <3>2, <4>1, <4>2 DEF Removing
      <3> QED BY <3>1, <3>2
    <2> QED BY <1>3, <1>5, <2>3, <2>4, <2>5
  <1>14. Sweeping' BY <1>3 DEF Sweeping
  <1>15. OfThisLife'
    <2>1. ASSUME NEW j \in RuntimeLaunches, proc'[j].plan \in Plans \ raced', proc'[j].work = "up"
          PROVE  proc'[j].life = crashes'
      <3>1. CASE j = i BY <1>1, <1>3, <3>1
      <3>2. CASE j # i BY <1>1, <1>3, <1>6, <2>1, <3>2 DEF RuntimeInv, OfThisLife
      <3> QED BY <3>1, <3>2
    <2> QED BY <2>1 DEF OfThisLife
  <1> QED BY <1>7, <1>9, <1>11, <1>12, <1>13, <1>14, <1>15 DEF RuntimeInv

(* spawn_namespaced_process answers, in time or late, to a call or to       *)
(* nobody.                                                                  *)
LEMMA LaunchKeeps ==
  ASSUME RuntimeInv, Noted, NEW c \in Calls, NEW i \in RuntimeLaunches, SpawnOk(c, i) \/ SpawnLate(c, i)
  PROVE  RuntimeInv'
  <1>1. call[c] \in CallT /\ CallOK(call[c], proc) BY CallNow
  <1>2. PICK sup \in {"up", "gone"} : Spawning(c) /\ Spawned(c, i, sup) BY DEF SpawnOk, SpawnLate
  <1>3. /\ proc[i].plan = NoPlan /\ proc'[i].plan = call[c].plan /\ call[c].plan \in Plans
        /\ \A j \in RuntimeLaunches : j # i => proc'[j] = proc[j]
    BY <1>2, SpawnedIs
  <1>4. CASE Detached(c)
    <2>1. call' = [call EXCEPT ![c] = Idle] BY <1>4 DEF SpawnOk, SpawnLate
    <2> QED BY <1>2, <2>1, SpawnKeeps, IdleIs
  <1>5. CASE ~Detached(c) /\ SpawnOk(c, i)
    <2>1. call' = [call EXCEPT ![c].at = "socket", ![c].id = i] /\ call[c].at = "spawn"
      BY <1>5 DEF SpawnOk, Spawning, Detached, At
    <2>2. "socket" \in Ats /\ i \in 0 .. MaxLaunch /\ i # 0 BY DEF Ats, RuntimeLaunches
    <2>3. PICK y \in CallT :
           /\ y = Taken(call[c], i, "socket")
           /\ y.id = i /\ y.at = "socket" /\ y.op = call[c].op /\ y.plan = call[c].plan
           /\ y.cur = call[c].cur
      BY <1>1, <2>2, TakenIs
    <2>4. call' = [call EXCEPT ![c] = y] BY <2>1, <2>3 DEF RuntimeInv, RuntimeTypes, Taken
    <2>5. Ran(proc', i) BY <1>3, RuntimeAssumption DEF Ran
    <2>6. CallOK(y, proc') BY <1>1, <2>1, <2>2, <2>3, <2>5 DEF CallOK
    <2> QED BY <1>2, <2>3, <2>4, <2>6, SpawnKeeps
  <1>6. CASE ~Detached(c) /\ SpawnLate(c, i)
    <2>1. call' = [call EXCEPT ![c] = [call[c] EXCEPT !.at = "cleanup"]] /\ call[c].at = "spawn"
      BY <1>6 DEF SpawnLate, Spawning, Detached, At
    <2>2. "cleanup" \in Ats BY DEF Ats
    <2>3. PICK y : y = [call[c] EXCEPT !.at = "cleanup"] OBVIOUS
    <2>4. /\ y \in CallT /\ y.at = "cleanup" /\ y.op = call[c].op /\ y.plan = call[c].plan
          /\ y.id = call[c].id /\ y.cur = call[c].cur
      BY <1>1, <2>2, <2>3, GotoIs, Zenon
    <2>5. call' = [call EXCEPT ![c] = y] BY <2>1, <2>3, Zenon
    <2>6. call[c].id # 0 => Ran(proc', call[c].id) BY <1>1, <1>3 DEF CallOK, Ran
    <2>7. CallOK(y, proc') BY <1>1, <2>1, <2>4, <2>6 DEF CallOK
    <2> QED BY <1>2, <2>4, <2>5, <2>7, SpawnKeeps
  <1> QED BY <1>4, <1>5, <1>6

(* Processes end and a sweep goes on. *)
LEMMA QuietKeeps ==
  ASSUME RuntimeInv, raced \subseteq raced', raced' \subseteq Plans,
         proc' \in Procs, Quiet(proc, proc'), UNCHANGED <<children, dir, cgroup, call, sweep, crashes>>,
         sweeping' \in sweep \cup {NoPlan},
         \A p \in Plans \ raced : Runs(proc', p) => p # sweeping'
  PROVE  RuntimeInv'
  <1>1. RuntimeTypes' BY DEF RuntimeInv, RuntimeTypes
  <1>2. Tracked' BY QuietRuns DEF RuntimeInv, Tracked
  <1>3. CallsOK' BY QuietCall DEF RuntimeInv, CallsOK
  <1>4. Ended' BY DEF RuntimeInv, Ended, Quiet
  <1>5. Undisturbed'
    <2>1. SUFFICES ASSUME NEW p \in Plans \ raced', Runs(proc', p)
                   PROVE  /\ p \in cgroup' /\ dir'[p] # "none" /\ p # sweeping'
                          /\ \A d \in Calls : ~Removing(call'[d], proc', p)
                          /\ sweep' # {} => p \in sweep'
      BY DEF Undisturbed
    <2>2. p \in Plans \ raced /\ Runs(proc, p) BY <2>1, QuietRuns
    <2>3. /\ p \in cgroup /\ dir[p] # "none"
          /\ \A d \in Calls : ~Removing(call[d], proc, p)
          /\ sweep # {} => p \in sweep
      BY <2>2 DEF RuntimeInv, Undisturbed
    <2>4. ASSUME NEW d \in Calls PROVE ~Removing(call'[d], proc', p)
      BY <2>3, CallNow, QuietCall
    <2> QED BY <2>1, <2>2, <2>3, <2>4
  <1>6. Sweeping' BY DEF RuntimeInv, Sweeping
  <1>7. OfThisLife' BY DEF RuntimeInv, OfThisLife, Quiet
  <1> QED BY <1>1, <1>2, <1>3, <1>4, <1>5, <1>6, <1>7 DEF RuntimeInv

(* A workload or a supervisor ends. *)
LEMMA EndsKeep ==
  ASSUME RuntimeInv, Noted, NEW i \in RuntimeLaunches, WorkloadEnds(i) \/ SupervisorEnds(i)
  PROVE  RuntimeInv'
  <1>1. raced \subseteq raced' /\ raced' \subseteq Plans BY DEF Noted, RuntimeInv, RuntimeTypes
  <1>2. UNCHANGED <<children, dir, cgroup, call, sweep, sweeping, crashes>>
    BY DEF WorkloadEnds, SupervisorEnds, files, history
  <1>3. proc \in Procs BY DEF RuntimeInv, RuntimeTypes
  <1>4. proc' \in Procs /\ Quiet(proc, proc')
    <2>1. CASE WorkloadEnds(i)
      <3>1. proc' = [proc EXCEPT ![i].work = "dead"] /\ proc[i].work \in {"up", "dying"}
        BY <2>1 DEF WorkloadEnds
      <3>2. proc' \in Procs BY <1>3, <3>1 DEF Procs
      <3>3. \A j \in RuntimeLaunches :
              /\ proc'[j].plan = proc[j].plan /\ proc'[j].life = proc[j].life
              /\ proc'[j].work = IF j = i THEN "dead" ELSE proc[j].work
        BY <1>3, <3>1 DEF Procs
      <3> QED BY <3>1, <3>2, <3>3 DEF Quiet
    <2>2. CASE SupervisorEnds(i)
      <3>1. proc' = [proc EXCEPT ![i].sup = "exited"] BY <2>2 DEF SupervisorEnds
      <3>2. proc' \in Procs BY <1>3, <3>1 DEF Procs
      <3>3. \A j \in RuntimeLaunches :
              /\ proc'[j].plan = proc[j].plan /\ proc'[j].life = proc[j].life
              /\ proc'[j].work = proc[j].work
        BY <1>3, <3>1 DEF Procs
      <3> QED BY <3>2, <3>3 DEF Quiet
    <2> QED BY <2>1, <2>2
  <1>5. \A p \in Plans \ raced : Runs(proc', p) => p # sweeping'
    BY <1>2, <1>4, QuietRuns DEF RuntimeInv, Undisturbed
  <1>6. sweeping' \in sweep \cup {NoPlan} BY <1>2 DEF RuntimeInv, RuntimeTypes
  <1> QED BY <1>1, <1>2, <1>4, <1>5, <1>6, QuietKeeps

(* The daemon dies: everything that runs has a directory for the boot to    *)
(* find.                                                                    *)
LEMMA CrashKeeps ==
  ASSUME RuntimeInv, Noted, Crash
  PROVE  RuntimeInv'
  <1>1. raced \subseteq raced' /\ raced' \subseteq Plans BY DEF Noted, RuntimeInv, RuntimeTypes
  <1>2. /\ UNCHANGED <<proc, dir, cgroup>> /\ crashes' = crashes + 1 /\ sweeping' = NoPlan
        /\ sweep' = {p \in Plans : dir[p] # "none"}
        /\ call' = [c \in Calls |-> Idle] /\ children' = [s \in Slots |-> 0]
    BY DEF Crash, files
  <1>3. 0 \in 0 .. MaxLaunch BY RuntimeAssumption
  <1>4. RuntimeTypes' BY <1>1, <1>2, <1>3, IdleIs DEF RuntimeInv, RuntimeTypes
  <1>5. Tracked' BY <1>2 DEF Tracked
  <1>6. CallsOK' BY <1>2, IdleIs DEF CallsOK
  <1>7. Ended' BY <1>2 DEF RuntimeInv, Ended
  <1>8. Undisturbed'
    <2>1. ASSUME NEW p \in Plans \ raced', Runs(proc', p)
          PROVE  /\ p \in cgroup' /\ dir'[p] # "none" /\ p # sweeping'
                 /\ \A d \in Calls : ~Removing(call'[d], proc', p)
                 /\ sweep' # {} => p \in sweep'
      <3>1. p \in cgroup /\ dir[p] # "none" BY <1>1, <1>2, <2>1 DEF RuntimeInv, Undisturbed
      <3>2. p # NoPlan BY RuntimeAssumption
      <3> QED BY <1>2, <3>1, <3>2, IdleIs
    <2> QED BY <2>1 DEF Undisturbed
  <1>9. Sweeping' BY <1>2 DEF Sweeping
  <1>10. OfThisLife'
    <2>1. ASSUME NEW i \in RuntimeLaunches, proc'[i].plan \in Plans \ raced', proc'[i].work = "up",
                 sweep' = {}
          PROVE  FALSE
      <3>1. PICK p \in Plans \ raced : p = proc[i].plan BY <1>1, <1>2, <2>1
      <3>2. Runs(proc, p) BY <1>2, <2>1, <3>1 DEF Runs
      <3>3. dir[p] # "none" BY <3>2 DEF RuntimeInv, Undisturbed
      <3> QED BY <1>2, <2>1, <3>3
    <2> QED BY <2>1 DEF OfThisLife
  <1> QED BY <1>4, <1>5, <1>6, <1>7, <1>8, <1>9, <1>10 DEF RuntimeInv

(* The sweep kills a cgroup. *)
LEMMA SweepKillKeeps ==
  ASSUME RuntimeInv, Noted, NEW q \in Plans, SweepKill(q)
  PROVE  RuntimeInv'
  <1>1. raced \subseteq raced' /\ raced' \subseteq Plans BY DEF Noted, RuntimeInv, RuntimeTypes
  <1>2. /\ UNCHANGED <<children, dir, cgroup, call, sweep, crashes>>
        /\ proc' = Killed(q) /\ sweeping' = q /\ q \in sweep
    BY DEF SweepKill, files
  <1>3. proc' \in Procs /\ Quiet(proc, proc') /\ (q \in cgroup => ~Runs(proc', q))
    BY <1>2, KilledIs DEF RuntimeInv, RuntimeTypes
  <1>4. \A p \in Plans \ raced : Runs(proc', p) => p # sweeping'
    BY <1>2, <1>3, QuietRuns DEF RuntimeInv, Undisturbed
  <1> QED BY <1>1, <1>2, <1>3, <1>4, QuietKeeps

(* And removes it with its directory. *)
LEMMA SweepRemoveKeeps ==
  ASSUME RuntimeInv, Noted, SweepRemove
  PROVE  RuntimeInv'
  <1>1. raced \subseteq raced' /\ raced' \subseteq Plans BY DEF Noted, RuntimeInv, RuntimeTypes
  <1>2. PICK q \in sweep : q = sweeping BY DEF SweepRemove, RuntimeInv, RuntimeTypes
  <1>3. /\ UNCHANGED <<proc, children, call, crashes>> /\ sweeping' = NoPlan /\ sweep' = sweep \ {q}
        /\ dir' = [dir EXCEPT ![q] = "none"]
        /\ cgroup' \subseteq cgroup /\ (cgroup' = cgroup \/ cgroup' = cgroup \ {q})
    BY <1>2 DEF SweepRemove
  <1>4. q \in Plans BY DEF RuntimeInv, RuntimeTypes
  <1>5. /\ dir' \in [Plans -> {"none", "fresh", "used"}]
        /\ \A p \in Plans : p # q => dir'[p] = dir[p]
    BY <1>3, <1>4 DEF RuntimeInv, RuntimeTypes
  <1>6. RuntimeTypes' BY <1>1, <1>3, <1>5 DEF RuntimeInv, RuntimeTypes
  <1>7. Tracked' /\ CallsOK' /\ Ended' BY <1>3 DEF RuntimeInv, Tracked, CallsOK, Ended
  <1>8. ASSUME NEW p \in Plans \ raced', Runs(proc', p)
        PROVE  /\ p \in cgroup' /\ dir'[p] # "none" /\ p # sweeping'
               /\ \A d \in Calls : ~Removing(call'[d], proc', p)
               /\ p \in sweep'
    <2>1. /\ p \in cgroup /\ dir[p] # "none" /\ p # q /\ p \in sweep
          /\ \A d \in Calls : ~Removing(call[d], proc, p)
      BY <1>1, <1>2, <1>3, <1>8 DEF RuntimeInv, Undisturbed
    <2>2. p # NoPlan BY RuntimeAssumption
    <2> QED BY <1>3, <1>5, <2>1, <2>2
  <1>9. Undisturbed' BY <1>8 DEF Undisturbed
  <1>10. Sweeping' BY <1>2, <1>3 DEF RuntimeInv, Sweeping
  <1>11. OfThisLife' BY <1>8 DEF OfThisLife, Runs
  <1> QED BY <1>6, <1>7, <1>9, <1>10, <1>11 DEF RuntimeInv

(* The invariant holds initially. *)
LEMMA RuntimeStarts ==
  ASSUME RuntimeInit
  PROVE  RuntimeInv
  <1>1. 0 \in 0 .. MaxLaunch BY RuntimeAssumption
  <1>2. proc \in Procs BY DEF RuntimeInit, Procs
  <1>3. RuntimeTypes BY <1>1, <1>2, IdleIs DEF RuntimeInit, RuntimeTypes
  <1>4. \A i \in RuntimeLaunches : proc[i].plan = NoPlan /\ proc[i].work = "none"
    BY DEF RuntimeInit
  <1>5. Tracked /\ CallsOK /\ Ended /\ Sweeping
    BY <1>4, IdleIs DEF RuntimeInit, Tracked, CallsOK, Ended, Sweeping
  <1>6. Undisturbed /\ OfThisLife BY <1>4 DEF Undisturbed, OfThisLife, Runs
  <1> QED BY <1>3, <1>5, <1>6 DEF RuntimeInv

(* Every step preserves it. *)
LEMMA RuntimeStep ==
  ASSUME RuntimeInv, [RuntimeNext]_runtimeVars
  PROVE  RuntimeInv'
  <1>1. CASE UNCHANGED runtimeVars
    BY <1>1 DEF runtimeVars, RuntimeInv, RuntimeTypes, Tracked, CallsOK, Ended, Undisturbed,
                Sweeping, OfThisLife
  <1>2. CASE RuntimeNext
    <2>1. Noted BY <1>2 DEF RuntimeNext, Noted
    <2>2. ASSUME NEW c \in Calls, CallStep(c)
          PROVE  RuntimeInv'
      BY <2>1, <2>2, ReapCgroupKeeps, ReapDirKeeps, PrepareKeeps, LaunchKeeps, SocketKeeps,
         ReplaceKeeps, TerminateKeeps, CleanupKeeps, WipeDirKeeps
         DEF CallStep
    <2>3. ASSUME NEW c \in Calls, NEW op \in {"start", "stop", "list"}, NEW p \in CallPlans,
                 Begin(c, op, p)
          PROVE  RuntimeInv'
      BY <2>1, <2>3, BeginKeeps
    <2>4. ASSUME NEW c \in Calls, Drop(c)
          PROVE  RuntimeInv'
      BY <2>1, <2>4, DropKeeps
    <2>5. ASSUME NEW i \in RuntimeLaunches, WorkloadEnds(i) \/ SupervisorEnds(i)
          PROVE  RuntimeInv'
      BY <2>1, <2>5, EndsKeep
    <2>6. CASE Crash \/ SweepRemove BY <2>1, <2>6, CrashKeeps, SweepRemoveKeeps
    <2>7. ASSUME NEW p \in Plans, SweepKill(p)
          PROVE  RuntimeInv'
      BY <2>1, <2>7, SweepKillKeeps
    <2> QED BY <1>2, <2>2, <2>3, <2>4, <2>5, <2>6, <2>7 DEF RuntimeNext, CallPlans
  <1> QED BY <1>1, <1>2

(* The invariant holds always. *)
THEOREM RuntimeInvariant == RuntimeSpec => []RuntimeInv
  <1>1. RuntimeInit => RuntimeInv BY RuntimeStarts
  <1>2. RuntimeInv /\ [RuntimeNext]_runtimeVars => RuntimeInv' BY RuntimeStep
  <1> QED BY <1>1, <1>2, PTL DEF RuntimeSpec

(* After the sweep of a boot no workload of an earlier life of the daemon   *)
(* runs, whatever calls were under way when it died, except replicas        *)
(* launched while their directory was being removed: for any number of      *)
(* services, deployments, concurrent calls and crashes.                     *)
THEOREM BootsClean == RuntimeSpec => []CleanBoot
  <1>1. ASSUME RuntimeInv PROVE CleanBoot
    <2>1. crashes \in Nat BY <1>1 DEF RuntimeInv, RuntimeTypes
    <2> QED BY <1>1, <2>1 DEF RuntimeInv, OfThisLife, CleanBoot
  <1> QED BY <1>1, RuntimeInvariant, PTL

(* A stop that reports success has ended its workload, however it           *)
(* interleaved with other starts, stops and reapers, with dropped futures   *)
(* and with the death of the supervisor.                                    *)
THEOREM StoppedIsStopped == RuntimeSpec => StopMeansStopped
  <1>1. ASSUME RuntimeInv, NEW c \in Calls, call[c].op = "stop", call[c].at = "wipe"
        PROVE  proc[call[c].id].work = "dead"
    BY <1>1 DEF RuntimeInv, CallsOK, CallOK
  <1>2. RuntimeInv /\ [RuntimeNext]_runtimeVars =>
          [\A c \in Calls :
             call[c].op = "stop" /\ call[c].at = "wipe" /\ call'[c] = Idle /\ crashes' = crashes
               => proc[call[c].id].work = "dead"]_runtimeVars
    BY <1>1
  <1> QED BY <1>2, RuntimeInvariant, PTL DEF RuntimeSpec, StopMeansStopped

(* A launch that is being waited for, terminated or killed is in the hands *)
(* of a call.  Until it is killed its supervisor is up, and it is either   *)
(* there or in the map; a call that ended its supervisor will kill it.     *)
InHand == {"socket", "term", "kill"}
Held(i) ==
  \/ \E c \in Calls : call[c].id = i /\ call[c].at = "kill"
  \/ /\ proc[i].sup = "up"
     /\ \/ \E s \in Slots : children[s] = i
        \/ \E c \in Calls : call[c].id = i /\ call[c].at \in {"socket", "term"}

(* The inductive invariant behind NoneLost.  The kill reaches it because a *)
(* cgroup is not removed while something lives in it, raced or not.        *)
HeldInv ==
  \A i \in RuntimeLaunches :
    proc[i].work = "up" => proc[i].plan \in cgroup /\ (i \in excused \/ Held(i))

(* A step of a call that has nothing in hand, and that takes no cgroup in  *)
(* which something lives, preserves it.                                    *)
LEMMA ElsewhereHeld ==
  ASSUME HeldInv, NEW c \in Calls, call[c].at \notin InHand,
         \A d \in Calls : d # c => call'[d] = call[d],
         UNCHANGED <<proc, children>>, excused \subseteq excused',
         \A p \in cgroup : Busy(p) => p \in cgroup'
  PROVE  HeldInv'
  <1> SUFFICES ASSUME NEW i \in RuntimeLaunches, proc'[i].work = "up"
               PROVE  proc'[i].plan \in cgroup' /\ (i \in excused' \/ Held(i)')
    BY DEF HeldInv
  <1>1. proc[i].work = "up" /\ proc[i].plan \in cgroup /\ (i \in excused \/ Held(i))
    BY DEF HeldInv
  <1>2. Busy(proc[i].plan) BY <1>1 DEF Busy, Alive
  <1>3. Held(i) => Held(i)' BY DEF Held, InHand
  <1> QED BY <1>1, <1>2, <1>3

(* The steps of a call that has no launch in hand. *)
LEMMA CallsHeld ==
  ASSUME RuntimeInv, HeldInv, NEW c \in Calls,
         \/ \E p \in Plans : ReapCgroup(c, p)
         \/ ReapDir(c) \/ list_running(c) \/ prepare(c) \/ prepare_cgroup_directory(c)
         \/ PrepareFails(c) \/ SpawnErr(c) \/ cleanup(c) \/ WipeDir(c)
  PROVE  HeldInv'
  <1> USE DEF RuntimeInv, RuntimeTypes, At, Reaped, Spawning, Goto, Done, InHand, files, history
  <1>1. ASSUME NEW p \in Plans, ReapCgroup(c, p) PROVE HeldInv'
    <2>1. /\ call[c].at \notin InHand /\ UNCHANGED <<proc, children, excused>>
          /\ \A d \in Calls : d # c => call'[d] = call[d]
          /\ \A q \in cgroup : Busy(q) => q \in cgroup'
      BY <1>1 DEF ReapCgroup
    <2> QED BY <2>1, ElsewhereHeld
  <1>2. CASE ReapDir(c)
    <2>1. /\ call[c].at \notin InHand /\ UNCHANGED <<proc, children, cgroup, excused>>
          /\ \A d \in Calls : d # c => call'[d] = call[d]
      BY <1>2 DEF ReapDir
    <2> QED BY <2>1, ElsewhereHeld
  <1>3. CASE list_running(c) \/ prepare(c) \/ PrepareFails(c) \/ WipeDir(c)
    <2>1. /\ call[c].at \notin InHand /\ UNCHANGED <<proc, children, cgroup, excused>>
          /\ \A d \in Calls : d # c => call'[d] = call[d]
      BY <1>3 DEF list_running, prepare, PrepareFails, WipeDir
    <2> QED BY <2>1, ElsewhereHeld
  <1>4. CASE prepare_cgroup_directory(c)
    <2>1. /\ call[c].at \notin InHand /\ UNCHANGED <<proc, children, excused>>
          /\ \A d \in Calls : d # c => call'[d] = call[d]
          /\ cgroup \subseteq cgroup'
      BY <1>4 DEF prepare_cgroup_directory
    <2> QED BY <2>1, ElsewhereHeld
  <1>5. CASE SpawnErr(c)
    <2>1. /\ call[c].at \notin InHand /\ UNCHANGED <<proc, children, cgroup, excused>>
          /\ \A d \in Calls : d # c => call'[d] = call[d]
      BY <1>5 DEF SpawnErr
    <2> QED BY <2>1, ElsewhereHeld
  <1>6. CASE cleanup(c)
    <2>1. /\ call[c].at \notin InHand /\ UNCHANGED <<proc, children, excused>>
          /\ \A d \in Calls : d # c => call'[d] = call[d]
          /\ \A q \in cgroup : Busy(q) => q \in cgroup'
      BY <1>6 DEF cleanup
    <2> QED BY <2>1, ElsewhereHeld
  <1> QED BY <1>1, <1>2, <1>3, <1>4, <1>5, <1>6

(* A call begins: the children that leave the map have lost their          *)
(* supervisor, so that none of them is held by it.                         *)
LEMMA BeginHeld ==
  ASSUME RuntimeInv, HeldInv, NEW c \in Calls, NEW op, NEW q, Begin(c, op, q)
  PROVE  HeldInv'
  <1>1. /\ call[c].at = "idle" /\ UNCHANGED <<cgroup, excused>>
        /\ \A d \in Calls : d # c => call'[d] = call[d]
    BY DEF Begin, At, files, history, RuntimeInv, RuntimeTypes
  <1>2. ASSUME NEW i \in RuntimeLaunches
        PROVE  /\ proc'[i].plan = proc[i].plan /\ proc'[i].work = proc[i].work
               /\ proc[i].sup = "up" => proc'[i].sup = "up"
    <2>1. proc[i].sup = "up" => proc'[i] = proc[i] BY DEF Begin, Exited
    <2>2. proc'[i] = proc[i] \/ proc'[i] = [proc[i] EXCEPT !.sup = "gone"] BY DEF Begin
    <2>3. [proc[i] EXCEPT !.sup = "gone"].plan = proc[i].plan
          /\ [proc[i] EXCEPT !.sup = "gone"].work = proc[i].work
      BY DEF RuntimeInv, RuntimeTypes, Procs
    <2> QED BY <2>1, <2>2, <2>3
  <1>3. ASSUME NEW i \in RuntimeLaunches, NEW s \in Slots, proc[i].sup = "up", children[s] = i
        PROVE  children'[s] = i
    BY <1>3 DEF Begin, Exited
  <1>4. \A i \in RuntimeLaunches : Held(i) => Held(i)' BY <1>1, <1>2, <1>3 DEF Held
  <1> QED BY <1>1, <1>2, <1>4 DEF HeldInv

(* A launch that was not dropped and is not late is in the hands of its    *)
(* call.                                                                   *)
LEMMA LaunchHeld ==
  ASSUME RuntimeInv, HeldInv, NEW c \in Calls, NEW i \in RuntimeLaunches,
         SpawnOk(c, i) \/ SpawnLate(c, i)
  PROVE  HeldInv'
  <1>1. PICK sup \in {"up", "gone"} : Spawned(c, i, sup) /\ (sup = "gone" => i \in excused')
    BY DEF SpawnOk, SpawnLate
  <1>2. Spawning(c) BY DEF SpawnOk, SpawnLate
  <1>3. /\ proc' \in Procs /\ proc[i].plan = NoPlan
        /\ call[c].plan \in Plans /\ proc'[i].plan = call[c].plan
        /\ proc'[i].work = "up" /\ proc'[i].life = crashes
        /\ \A j \in RuntimeLaunches : j # i => proc'[j] = proc[j]
    BY <1>1, <1>2, SpawnedIs
  <1>4. /\ call[c].at \notin InHand /\ UNCHANGED <<cgroup, children>> /\ excused \subseteq excused'
        /\ call[c].plan \in cgroup
    BY <1>1, <1>2 DEF Spawned, Spawning, At, InHand, SpawnOk, SpawnLate
  <1>5. \A d \in Calls : d # c => call'[d] = call[d]
    BY DEF SpawnOk, SpawnLate, RuntimeInv, RuntimeTypes
  <1>6. ASSUME NEW j \in RuntimeLaunches, j # i, proc'[j].work = "up"
        PROVE  proc'[j].plan \in cgroup' /\ (j \in excused' \/ Held(j)')
    <2>1. proc[j].work = "up" /\ proc[j].plan \in cgroup /\ (j \in excused \/ Held(j))
      BY <1>3, <1>6 DEF HeldInv
    <2>2. Held(j) => Held(j)' BY <1>3, <1>4, <1>5, <1>6 DEF Held, InHand
    <2> QED BY <1>3, <1>4, <1>6, <2>1, <2>2
  <1>7. i \in excused' \/ Held(i)'
    <2>1. CASE Detached(c) \/ sup = "gone" BY <1>1, <2>1 DEF SpawnOk, SpawnLate
    <2>2. CASE ~Detached(c) /\ sup = "up" /\ i \notin excused'
      <3>1. SpawnOk(c, i) BY <2>2 DEF SpawnLate
      <3>2. call' = [call EXCEPT ![c].at = "socket", ![c].id = i] BY <2>2, <3>1 DEF SpawnOk
      <3>3. call[c] \in CallT /\ call \in [Calls -> CallT] BY DEF RuntimeInv, RuntimeTypes
      <3>4. call'[c].at = "socket" /\ call'[c].id = i BY <3>2, <3>3 DEF CallT
      <3>5. proc'[i].sup = "up" BY <1>1, <2>2 DEF Spawned, RuntimeInv, RuntimeTypes, Procs
      <3> QED BY <3>4, <3>5 DEF Held
    <2> QED BY <2>1, <2>2
  <1> QED BY <1>3, <1>4, <1>6, <1>7 DEF HeldInv

(* What enters the map was in the hands of the call, and what leaves it is *)
(* in them then.                                                           *)
LEMMA ReplaceHeld ==
  ASSUME RuntimeInv, HeldInv, NEW c \in Calls, Insert(c) \/ Remove(c)
  PROVE  HeldInv'
  <1>1. UNCHANGED <<proc, cgroup, excused>> BY DEF Insert, Remove, files, history
  <1>2. call[c] \in CallT /\ call \in [Calls -> CallT] /\ children \in [Slots -> 0 .. MaxLaunch]
    BY DEF RuntimeInv, RuntimeTypes
  <1>3. PICK s \in Slots : s = call[c].plan[1]
    <2>1. CallOK(call[c], proc) BY CallNow
    <2>2. call[c].plan \in Plans \/ call[c].plan \in Slots \X {NoPlan}
      BY <2>1 DEF Insert, Remove, At, CallOK
    <2>3. call[c].plan[1] \in Slots BY <2>2 DEF Plans
    <2> QED BY <2>3
  <1>4. /\ \A d \in Calls : d # c => call'[d] = call[d]
        /\ \A r \in Slots : r # s => children'[r] = children[r]
    BY <1>2, <1>3 DEF Insert, Remove, Done
  <1>5. children[s] # 0 => call'[c].id = children[s] /\ call'[c].at = "term"
    <2>1. ASSUME children[s] # 0 PROVE call' = [call EXCEPT ![c].id = children[s], ![c].at = "term"]
      BY <1>3, <2>1 DEF Insert, Remove
    <2> QED BY <1>2, <2>1 DEF CallT
  <1>6. call[c].at \in InHand => call[c].at = "socket" /\ children'[s] = call[c].id
    BY <1>2, <1>3 DEF Insert, Remove, Reaped, At, InHand
  <1>7. ASSUME NEW i \in RuntimeLaunches, Held(i) PROVE Held(i)'
    <2>1. i # 0 BY DEF RuntimeLaunches
    <2>2. CASE \E d \in Calls : call[d].id = i /\ call[d].at = "kill"
      BY <1>4, <1>6, <2>2 DEF Held, InHand
    <2>3. CASE proc[i].sup = "up" /\ \E r \in Slots : children[r] = i
      BY <1>1, <1>4, <1>5, <2>1, <2>3 DEF Held
    <2>4. CASE proc[i].sup = "up" /\ \E d \in Calls : call[d].id = i /\ call[d].at \in {"socket", "term"}
      BY <1>1, <1>4, <1>6, <2>4 DEF Held, InHand
    <2> QED BY <1>7, <2>2, <2>3, <2>4 DEF Held
  <1> QED BY <1>1, <1>7 DEF HeldInv

(* A call goes on with what it has in hand, until it has killed it. *)
LEMMA TerminateHeld ==
  ASSUME RuntimeInv, HeldInv, NEW c \in Calls,
         SocketFails(c) \/ terminate_tracked_process(c) \/ CgroupKill(c)
  PROVE  HeldInv'
  <1>1. UNCHANGED <<cgroup, children, excused>>
    BY DEF SocketFails, terminate_tracked_process, CgroupKill, files, history
  <1>2. call[c] \in CallT /\ call \in [Calls -> CallT] /\ proc \in Procs
    BY DEF RuntimeInv, RuntimeTypes
  <1>3. PICK w \in Ats : Goto(c, w)
    BY DEF SocketFails, terminate_tracked_process, CgroupKill, Ats
  <1>4. call'[c].at = w /\ call'[c].id = call[c].id /\ \A d \in Calls : d # c => call'[d] = call[d]
    BY <1>2, <1>3 DEF Goto, CallT
  <1>5. CASE SocketFails(c)
    <2>1. call[c].at = "socket" /\ call'[c].at = "term" /\ proc' = proc
      BY <1>2, <1>5 DEF SocketFails, At, Goto, CallT
    <2>2. \A i \in RuntimeLaunches : Held(i) => Held(i)' BY <1>1, <1>4, <2>1 DEF Held
    <2> QED BY <1>1, <2>1, <2>2 DEF HeldInv
  <1>6. CASE terminate_tracked_process(c)
    <2>1. call[c].at = "term" /\ call'[c].at = "kill" /\ proc' = [proc EXCEPT ![call[c].id].sup = "gone"]
      BY <1>2, <1>6 DEF terminate_tracked_process, At, Goto, CallT
    <2>2. \A i \in RuntimeLaunches :
            /\ proc'[i].plan = proc[i].plan /\ proc'[i].work = proc[i].work
            /\ i # call[c].id => proc'[i].sup = proc[i].sup
      BY <1>2, <2>1 DEF Procs
    <2>3. ASSUME NEW i \in RuntimeLaunches, Held(i) PROVE Held(i)'
      <3>1. CASE i = call[c].id BY <1>4, <2>1, <3>1 DEF Held
      <3>2. CASE i # call[c].id BY <1>1, <1>4, <2>1, <2>2, <2>3, <3>2 DEF Held
      <3> QED BY <3>1, <3>2
    <2> QED BY <1>1, <2>2, <2>3 DEF HeldInv
  <1>7. CASE CgroupKill(c)
    <2>1. call[c].at = "kill" /\ proc' = Killed(proc[call[c].id].plan)
      BY <1>7 DEF CgroupKill, At
    <2> DEFINE q == proc[call[c].id].plan
    <2>2. Quiet(proc, proc') /\ (q \in cgroup => ~Runs(proc', q)) BY <1>2, <2>1, KilledIs
    <2>3. call[c].id \in RuntimeLaunches
      BY <2>1, CallNow DEF CallOK, Ran
    <2>4. ASSUME NEW i \in RuntimeLaunches, proc'[i].work = "up"
          PROVE  proc'[i] = proc[i] /\ i # call[c].id
      <3>1. proc[i].work = "up" /\ proc'[i].plan = proc[i].plan BY <2>2, <2>4 DEF Quiet
      <3>2. proc[i].plan \in cgroup BY <3>1 DEF HeldInv
      <3>3. proc[i].plan # q BY <2>2, <2>4, <3>1, <3>2 DEF Runs
      <3> QED BY <2>1, <2>3, <3>3 DEF Killed
    <2>5. ASSUME NEW i \in RuntimeLaunches, proc'[i].work = "up", Held(i) PROVE Held(i)'
      BY <1>1, <1>4, <2>1, <2>4, <2>5 DEF Held
    <2> QED BY <1>1, <2>4, <2>5 DEF HeldInv
  <1> QED BY <1>5, <1>6, <1>7

(* The rest: a dropped call's launch is excused, as is one that loses its  *)
(* supervisor, and all of an earlier life; a sweep kills or takes nothing  *)
(* that lives.                                                             *)
LEMMA OthersHeld ==
  ASSUME RuntimeInv, HeldInv,
         \/ \E c \in Calls : Drop(c)
         \/ \E i \in RuntimeLaunches : WorkloadEnds(i) \/ SupervisorEnds(i)
         \/ Crash \/ SweepRemove
         \/ \E p \in Plans : SweepKill(p)
  PROVE  HeldInv'
  <1>0. call \in [Calls -> CallT] /\ proc \in Procs BY DEF RuntimeInv, RuntimeTypes
  <1>1. ASSUME NEW c \in Calls, Drop(c) PROVE HeldInv'
    <2>1. /\ UNCHANGED <<proc, cgroup, children>> /\ excused' = excused \cup ({call[c].id} \ {0})
          /\ \A d \in Calls : d # c => call'[d] = call[d]
      BY <1>0, <1>1 DEF Drop, files
    <2>2. ASSUME NEW i \in RuntimeLaunches, Held(i) PROVE i \in excused' \/ Held(i)'
      <3>1. i # 0 BY DEF RuntimeLaunches
      <3>2. CASE i = call[c].id BY <2>1, <3>1, <3>2
      <3>3. CASE i # call[c].id BY <2>1, <2>2, <3>3 DEF Held
      <3> QED BY <3>2, <3>3
    <2> QED BY <2>1, <2>2 DEF HeldInv
  <1>2. ASSUME NEW j \in RuntimeLaunches, WorkloadEnds(j) PROVE HeldInv'
    <2>1. UNCHANGED <<cgroup, children, call, excused>> /\ proc' = [proc EXCEPT ![j].work = "dead"]
      BY <1>2 DEF WorkloadEnds, files, history
    <2>2. \A i \in RuntimeLaunches : proc'[i].work = "up" => proc'[i] = proc[i]
      BY <1>0, <2>1 DEF Procs
    <2> QED BY <2>1, <2>2 DEF HeldInv, Held
  <1>3. ASSUME NEW j \in RuntimeLaunches, SupervisorEnds(j) PROVE HeldInv'
    <2>1. /\ UNCHANGED <<cgroup, children, call>> /\ proc' = [proc EXCEPT ![j].sup = "exited"]
          /\ excused \subseteq excused' /\ (proc[j].work = "up" => j \in excused')
      BY <1>3 DEF SupervisorEnds, files
    <2>2. \A i \in RuntimeLaunches :
            /\ proc'[i].work = proc[i].work /\ proc'[i].plan = proc[i].plan
            /\ i # j => proc'[i] = proc[i]
      BY <1>0, <2>1 DEF Procs
    <2> QED BY <2>1, <2>2 DEF HeldInv, Held
  <1>4. CASE Crash
    <2>1. UNCHANGED <<proc, cgroup>> /\ excused' = {i \in RuntimeLaunches : proc[i].plan # NoPlan}
      BY <1>4 DEF Crash, files
    <2>2. \A i \in RuntimeLaunches : proc[i].work = "up" => proc[i].plan # NoPlan
      BY DEF RuntimeInv, Ended
    <2> QED BY <2>1, <2>2 DEF HeldInv
  <1>5. CASE SweepRemove
    <2>1. /\ UNCHANGED <<proc, children, call, excused>>
          /\ \A p \in cgroup : Busy(p) => p \in cgroup'
      BY <1>5 DEF SweepRemove
    <2>2. \A i \in RuntimeLaunches : proc[i].work = "up" => Busy(proc[i].plan) BY DEF Busy, Alive
    <2> QED BY <2>1, <2>2 DEF HeldInv, Held
  <1>6. ASSUME NEW q \in Plans, SweepKill(q) PROVE HeldInv'
    <2>1. UNCHANGED <<cgroup, children, call, excused>> /\ proc' = Killed(q)
      BY <1>6 DEF SweepKill, files
    <2>2. Quiet(proc, proc') /\ (q \in cgroup => ~Runs(proc', q)) BY <1>0, <2>1, KilledIs
    <2>3. ASSUME NEW i \in RuntimeLaunches, proc'[i].work = "up" PROVE proc'[i] = proc[i]
      <3>1. proc'[i].plan = proc[i].plan BY <2>2 DEF Quiet
      <3>2. ~(proc[i].plan = q /\ q \in cgroup) BY <2>2, <2>3, <3>1 DEF Runs
      <3> QED BY <2>1, <3>2 DEF Killed
    <2> QED BY <2>1, <2>3 DEF HeldInv, Held
  <1> QED BY <1>1, <1>2, <1>3, <1>4, <1>5, <1>6

(* A workload of this life of the daemon that runs is tracked or in the    *)
(* hands of a call, however starts, stops and reapers interleave, unless   *)
(* its call was dropped, its launch late or its supervisor lost: for any   *)
(* slots, calls, launches and crashes.                                     *)
THEOREM NoneEverLost == RuntimeSpec => []NoneLost
  <1>1. RuntimeInit => HeldInv BY DEF RuntimeInit, HeldInv
  <1>2. RuntimeInv /\ HeldInv /\ [RuntimeNext]_runtimeVars => HeldInv'
    <2> SUFFICES ASSUME RuntimeInv, HeldInv, [RuntimeNext]_runtimeVars PROVE HeldInv'
      OBVIOUS
    <2>1. CASE UNCHANGED runtimeVars BY <2>1 DEF runtimeVars, HeldInv, Held
    <2>2. CASE RuntimeNext
      <3>1. ASSUME NEW c \in Calls, CallStep(c) PROVE HeldInv'
        BY <3>1, CallsHeld, LaunchHeld, ReplaceHeld, TerminateHeld DEF CallStep
      <3> QED BY <2>2, <3>1, BeginHeld, OthersHeld DEF RuntimeNext
    <2> QED BY <2>1, <2>2
  <1>3. HeldInv => NoneLost BY DEF HeldInv, Held, NoneLost
  <1> QED BY <1>1, <1>2, <1>3, RuntimeInvariant, PTL DEF RuntimeSpec

-----------------------------------------------------------------------------
(* Types: a file of the configuration, the commands in progress and a       *)
(* service that is up.                                                      *)
Secret == [id : Nat, group : Nat, mode : BOOLEAN]
Named == [verb : {"setup", "uninstall", "purge", "rotate", "set up"}, op : Operators, step : Nat]
Updating == [verb : {"update", "rolled back"}, step : Nat, tag : Nat, force : BOOLEAN,
             was : Nat, bin : Nat]
Commands == {NoCommand} \cup Named \cup Updating
Up == [state : {"running", "flapping"}, op : Operators, key : Nat, token : Nat, home : BOOLEAN]

(* The types of the host's state. *)
InstallTypeOK ==
  /\ osAccounts \in [group : Nat, user : Nat] /\ given \in Nat
  /\ config \in [Operators -> [Files -> Secret]]
  /\ data \in [there : BOOLEAN, keys : SUBSET Nat, owner : Nat]
  /\ unit \in [file : Operators \cup {NoOperator}, loaded : Operators \cup {NoOperator}]
  /\ service \in {Stopped} \cup Up
  /\ bins \in [target : Nat, bak : Nat, good : SUBSET Nat]

(* The key k is in the directory of some operator. *)
HasKey(c, k) == k # 0 /\ \E o \in Operators : c[o]["key"].id = k
(* The service s is up and its data directory is still mounted. *)
Homely(s) == s.state # "stopped" /\ s.home

(* What the secrets of the data directory d need: their keys are in c, the  *)
(* account that owns them is the daemon's, and a service that can store     *)
(* another secret has a data directory and a key that are there.            *)
Kept(a, c, d, s) ==
  /\ \A k \in d.keys : HasKey(c, k)
  /\ d.owner # 0 => d.owner = a.user
  /\ Homely(s) => d.there
  /\ Homely(s) /\ s.state = "running" => HasKey(c, s.key)

(* The part of the invariant that every step of a command keeps by itself. *)
Host == InstallTypeOK /\ Kept(osAccounts, config, data, service)
(* A purge is past the data only when there is none. *)
Emptied(c, d) == c.verb = "purge" /\ c.step > 4 => d = NoData
(* The inductive invariant: keys and accounts are given up only behind the  *)
(* data that needs them.                                                    *)
InstallInv == Host /\ command \in Commands /\ Emptied(command, data)

(* What a setup for o has put in place before its step n. *)
Progress(n, o) ==
  /\ n > 1 => osAccounts.group # 0
  /\ n > 2 => osAccounts.user # 0
  /\ n > 3 => data.there
  /\ n > 4 => config[o]["key"].id # 0
  /\ n > 5 => config[o]["token"].id # 0
  /\ n > 6 => config[o]["config"].id # 0
  /\ n > 7 => Readable(o)
  /\ n > 8 => unit.file = o
  /\ n > 9 => unit.loaded = o

(* A setup keeps what its earlier steps put in place: while it runs nothing *)
(* else removes it.                                                         *)
SetupInv ==
  /\ command.verb = "setup" => Progress(command.step, command.op)
  /\ command.verb = "set up" => Progress(12, command.op)

(* An update carries the binary of its release from the verification to the *)
(* rename, and nothing replaces the installed one before.                   *)
UpdateInv ==
  command.verb = "update" =>
    /\ command.step = 1 => bins.target = command.was
    /\ command.step > 1 => command.bin = command.tag /\ (command.tag > command.was \/ command.force)
    /\ command.step = 5 => bins.target = command.tag

(* The fields of a command that names an operator. *)
LEMMA NamedFields ==
  ASSUME NEW c \in Named
  PROVE  /\ c.verb \in {"setup", "uninstall", "purge", "rotate", "set up"}
         /\ c.op \in Operators /\ c.step \in Nat
  BY DEF Named

(* The fields of an update. *)
LEMMA UpdatingFields ==
  ASSUME NEW c \in Updating
  PROVE  /\ c.verb \in {"update", "rolled back"} /\ c.step \in Nat /\ c.tag \in Nat
         /\ c.bin \in Nat /\ c.was \in Nat
  BY DEF Updating

(* Going on to the next step, and ending as set up, change one field. *)
LEMMA NamedSteps ==
  ASSUME NEW c \in Named
  PROVE  /\ [c EXCEPT !.step = c.step + 1] \in Named
         /\ [c EXCEPT !.step = c.step + 1].verb = c.verb
         /\ [c EXCEPT !.step = c.step + 1].op = c.op
         /\ [c EXCEPT !.step = c.step + 1].step = c.step + 1
         /\ [c EXCEPT !.verb = "set up"] \in Named
         /\ [c EXCEPT !.verb = "set up"].verb = "set up"
         /\ [c EXCEPT !.verb = "set up"].op = c.op
  <1>1. [c EXCEPT !.step = c.step + 1] \in Named
    <2>1. \A k \in Nat : [c EXCEPT !.step = k] \in Named BY DEF Named
    <2>0. PICK j \in Nat : j = c.step BY DEF Named
    <2>2. PICK k \in Nat : k = c.step + 1 BY <2>0
    <2>3. [c EXCEPT !.step = k] \in Named BY <2>1
    <2> QED BY <2>2, <2>3, Zenon
  <1>2. /\ [c EXCEPT !.step = c.step + 1].verb = c.verb
        /\ [c EXCEPT !.step = c.step + 1].op = c.op
        /\ [c EXCEPT !.step = c.step + 1].step = c.step + 1
    BY DEF Named
  <1>3. [c EXCEPT !.verb = "set up"] \in Named BY DEF Named
  <1>4. /\ [c EXCEPT !.verb = "set up"].verb = "set up"
        /\ [c EXCEPT !.verb = "set up"].op = c.op
    BY DEF Named
  <1> QED BY <1>1, <1>2, <1>3, <1>4

(* The same for an update, its end and its binary. *)
LEMMA UpdatingSteps ==
  ASSUME NEW c \in Updating
  PROVE  /\ [c EXCEPT !.step = c.step + 1] \in Updating
         /\ [c EXCEPT !.step = c.step + 1].verb = c.verb
         /\ [c EXCEPT !.step = c.step + 1].tag = c.tag
         /\ [c EXCEPT !.step = c.step + 1].was = c.was
         /\ [c EXCEPT !.step = c.step + 1].force = c.force
         /\ [c EXCEPT !.step = c.step + 1].bin = c.bin
         /\ [c EXCEPT !.step = c.step + 1].step = c.step + 1
         /\ [c EXCEPT !.verb = "rolled back"] \in Updating
         /\ [c EXCEPT !.verb = "rolled back"].verb = "rolled back"
         /\ \A b \in Nat : /\ [c EXCEPT !.tag = b, !.bin = b] \in Updating
                           /\ [c EXCEPT !.tag = b, !.bin = b].verb = c.verb
                           /\ [c EXCEPT !.tag = b, !.bin = b].step = c.step
                           /\ [c EXCEPT !.tag = b, !.bin = b].was = c.was
                           /\ [c EXCEPT !.tag = b, !.bin = b].force = c.force
                           /\ [c EXCEPT !.tag = b, !.bin = b].tag = b
                           /\ [c EXCEPT !.tag = b, !.bin = b].bin = b
  <1>1. [c EXCEPT !.step = c.step + 1] \in Updating
    <2>1. \A k \in Nat : [c EXCEPT !.step = k] \in Updating BY DEF Updating
    <2>0. PICK j \in Nat : j = c.step BY DEF Updating
    <2>2. PICK k \in Nat : k = c.step + 1 BY <2>0
    <2>3. [c EXCEPT !.step = k] \in Updating BY <2>1
    <2> QED BY <2>2, <2>3, Zenon
  <1>2. /\ [c EXCEPT !.step = c.step + 1].verb = c.verb
        /\ [c EXCEPT !.step = c.step + 1].tag = c.tag
        /\ [c EXCEPT !.step = c.step + 1].was = c.was
        /\ [c EXCEPT !.step = c.step + 1].force = c.force
        /\ [c EXCEPT !.step = c.step + 1].bin = c.bin
        /\ [c EXCEPT !.step = c.step + 1].step = c.step + 1
    BY DEF Updating
  <1>3. [c EXCEPT !.verb = "rolled back"] \in Updating BY DEF Updating
  <1>4. [c EXCEPT !.verb = "rolled back"].verb = "rolled back" BY DEF Updating
  <1>5. ASSUME NEW b \in Nat
        PROVE  [c EXCEPT !.tag = b, !.bin = b] \in Updating
    BY DEF Updating
  <1>6. ASSUME NEW b \in Nat
        PROVE  /\ [c EXCEPT !.tag = b, !.bin = b].verb = c.verb /\ [c EXCEPT !.tag = b, !.bin = b].step = c.step
               /\ [c EXCEPT !.tag = b, !.bin = b].was = c.was /\ [c EXCEPT !.tag = b, !.bin = b].force = c.force
               /\ [c EXCEPT !.tag = b, !.bin = b].tag = b /\ [c EXCEPT !.tag = b, !.bin = b].bin = b
    BY DEF Updating
  <1> QED BY <1>1, <1>2, <1>3, <1>4, <1>5, <1>6

(* The command in progress goes on. *)
LEMMA Stepped ==
  ASSUME command \in Named
  PROVE  /\ Next1 \in Named /\ Next1.verb = command.verb /\ Next1.op = command.op
         /\ Next1.step = command.step + 1
         /\ [command EXCEPT !.verb = "set up"] \in Named
         /\ [command EXCEPT !.verb = "set up"].verb = "set up"
         /\ [command EXCEPT !.verb = "set up"].op = command.op
  <1>1. PICK c : c = command OBVIOUS
  <1>2. c \in Named BY <1>1
  <1>3. Next1 = [c EXCEPT !.step = c.step + 1] BY <1>1, Zenon DEF Next1
  <1>4. [command EXCEPT !.verb = "set up"] = [c EXCEPT !.verb = "set up"] BY <1>1, Zenon
  <1> QED BY <1>1, <1>2, <1>3, <1>4, NamedSteps, Zenon

(* The update in progress goes on. *)
LEMMA SteppedOn ==
  ASSUME command \in Updating
  PROVE  /\ Next1 \in Updating /\ Next1.verb = command.verb /\ Next1.tag = command.tag
         /\ Next1.bin = command.bin /\ Next1.step = command.step + 1
         /\ Next1.was = command.was /\ Next1.force = command.force
         /\ [command EXCEPT !.verb = "rolled back"] \in Updating
         /\ [command EXCEPT !.verb = "rolled back"].verb = "rolled back"
         /\ \A b \in Nat : /\ [Next1 EXCEPT !.tag = b, !.bin = b] \in Updating
                           /\ [Next1 EXCEPT !.tag = b, !.bin = b].verb = command.verb
                           /\ [Next1 EXCEPT !.tag = b, !.bin = b].step = command.step + 1
                           /\ [Next1 EXCEPT !.tag = b, !.bin = b].was = command.was
                           /\ [Next1 EXCEPT !.tag = b, !.bin = b].force = command.force
                           /\ [Next1 EXCEPT !.tag = b, !.bin = b].tag = b
                           /\ [Next1 EXCEPT !.tag = b, !.bin = b].bin = b
  <1>1. PICK c : c = command OBVIOUS
  <1>2. c \in Updating BY <1>1
  <1>3. Next1 = [c EXCEPT !.step = c.step + 1] BY <1>1, Zenon DEF Next1
  <1>4. [command EXCEPT !.verb = "rolled back"] = [c EXCEPT !.verb = "rolled back"] BY <1>1, Zenon
  <1>5. PICK d : d = Next1 OBVIOUS
  <1>6. /\ d \in Updating /\ d.verb = c.verb /\ d.tag = c.tag /\ d.bin = c.bin
        /\ d.step = c.step + 1 /\ d.was = c.was /\ d.force = c.force
    BY <1>2, <1>3, <1>5, UpdatingSteps, Zenon
  <1>7. \A b \in Nat : /\ [d EXCEPT !.tag = b, !.bin = b] \in Updating
                       /\ [d EXCEPT !.tag = b, !.bin = b].verb = d.verb
                       /\ [d EXCEPT !.tag = b, !.bin = b].step = d.step
                       /\ [d EXCEPT !.tag = b, !.bin = b].was = d.was
                       /\ [d EXCEPT !.tag = b, !.bin = b].force = d.force
                       /\ [d EXCEPT !.tag = b, !.bin = b].tag = b
                       /\ [d EXCEPT !.tag = b, !.bin = b].bin = b
    BY <1>6, UpdatingSteps, Zenon
  <1>8. /\ [command EXCEPT !.verb = "rolled back"] \in Updating
        /\ [command EXCEPT !.verb = "rolled back"].verb = "rolled back"
    BY <1>2, <1>4, UpdatingSteps, Zenon
  <1> QED BY <1>1, <1>5, <1>6, <1>7, <1>8, Zenon

(* The verb tells the kind of command. *)
LEMMA WhoRuns ==
  ASSUME command \in Commands
  PROVE  /\ command.verb \in {"setup", "uninstall", "purge", "rotate", "set up"} => command \in Named
         /\ command.verb \in {"update", "rolled back"} => command \in Updating
  <1>1. command = NoCommand \/ command \in Named \/ command \in Updating BY DEF Commands
  <1>3. CASE command = NoCommand BY <1>3 DEF NoCommand
  <1>4. CASE command \in Named BY <1>4 DEF Named
  <1>5. CASE command \in Updating BY <1>5 DEF Updating
  <1> QED BY <1>1, <1>3, <1>4, <1>5

(* A service that systemd starts has the key of its operator when it runs,  *)
(* and the data directory when there is one.                                *)
LEMMA StartedIs ==
  ASSUME InstallTypeOK, unit.loaded # NoOperator
  PROVE  /\ Started \in Up /\ Started.home = data.there
         /\ Started.state = "running" => HasKey(config, Started.key)
  <1>1. PICK o \in Operators : o = unit.loaded BY DEF InstallTypeOK
  <1>2. data.there \in BOOLEAN BY DEF InstallTypeOK
  <1>3. PICK h \in BOOLEAN : h = data.there BY <1>2
  <1>4. config[o] \in [Files -> Secret] BY <1>1 DEF InstallTypeOK
  <1>5. config[o]["key"].id \in Nat /\ config[o]["token"].id \in Nat
    BY <1>4 DEF Files, Secret
  <1>6. PICK k \in Nat, t \in Nat : k = config[o]["key"].id /\ t = config[o]["token"].id BY <1>5
  <1>7. PICK st \in {"running", "flapping"} :
          st = IF osAccounts.user # 0 /\ Readable(o) /\ bins.target \in bins.good
               THEN "running" ELSE "flapping"
    OBVIOUS
  <1>8. Started = [state |-> st, op |-> o, key |-> k, token |-> t, home |-> h]
    BY <1>1, <1>3, <1>6, <1>7 DEF Started
  <1>9. Started \in Up /\ Started.home = h /\ Started.key = k /\ Started.state = st
    BY <1>8 DEF Up
  <1>10. st = "running" => k # 0 BY <1>6, <1>7 DEF Readable, Files
  <1> QED BY <1>1, <1>3, <1>6, <1>9, <1>10 DEF HasKey

(* Writes that change no key lose none. *)
LEMMA KeysStay ==
  ASSUME NEW c, NEW d,
         \A o \in Operators : c[o]["key"].id # 0 => d[o]["key"].id = c[o]["key"].id
  PROVE  \A k : HasKey(c, k) => HasKey(d, k)
  BY DEF HasKey

(* Accounts and files may change as long as the owner stays and no key      *)
(* goes.                                                                    *)
LEMMA KeptWith ==
  ASSUME NEW a, NEW c, NEW d, NEW s, NEW a2, NEW c2, Kept(a, c, d, s),
         d.owner # 0 => a2.user = a.user,
         \A k : HasKey(c, k) => HasKey(c2, k)
  PROVE  Kept(a2, c2, d, s)
  BY DEF Kept

(* ensure_group and ensure_user make what is missing and change no account  *)
(* that is there.                                                           *)
LEMMA AccountsKeep ==
  ASSUME Host, ensure_group \/ ensure_user
  PROVE  Host'
  <1>1. PICK g \in Nat, u \in Nat : osAccounts = [group |-> g, user |-> u]
    BY DEF Host, InstallTypeOK
  <1>2. Fresh \in Nat BY DEF Host, InstallTypeOK, Fresh
  <1>3. PICK n \in Nat : n = Fresh BY <1>2
  <1>4. \E h \in Nat, v \in Nat : /\ osAccounts' = [group |-> h, user |-> v]
                                  /\ u # 0 => v = u
    <2>1. CASE ensure_group
      <3>1. PICK h \in Nat : h = IF g = 0 THEN n ELSE g BY <1>1
      <3>2. osAccounts' = [group |-> h, user |-> u] BY <1>1, <1>3, <2>1, <3>1 DEF ensure_group
      <3> QED BY <1>1, <3>2
    <2>2. CASE ensure_user
      <3>1. PICK h \in Nat : h = IF u = 0 THEN n ELSE u BY <1>1
      <3>2. osAccounts' = [group |-> g, user |-> h] BY <1>1, <1>3, <2>2, <3>1 DEF ensure_user
      <3> QED BY <1>1, <3>1, <3>2
    <2> QED BY <2>1, <2>2
  <1>5. PICK h \in Nat, v \in Nat : /\ osAccounts' = [group |-> h, user |-> v]
                                    /\ u # 0 => v = u
    BY <1>4
  <1>6. UNCHANGED <<config, data, unit, service, bins>> /\ given' = n
    BY <1>3 DEF ensure_group, ensure_user
  <1>7. InstallTypeOK'
    <2>1. osAccounts' \in [group : Nat, user : Nat] BY <1>5
    <2> QED BY <1>3, <1>6, <2>1 DEF Host, InstallTypeOK
  <1>8. data.owner # 0 => osAccounts'.user = osAccounts.user
    <2>1. data.owner # 0 => data.owner = osAccounts.user BY DEF Host, Kept
    <2>2. osAccounts.user = u BY <1>1
    <2>3. osAccounts'.user = v BY <1>5
    <2>4. u # 0 => v = u BY <1>5
    <2> QED BY <2>1, <2>2, <2>3, <2>4
  <1>9. Kept(osAccounts', config', data', service')
    BY <1>6, <1>8, KeptWith DEF Host
  <1> QED BY <1>7, <1>9 DEF Host

(* ensure_data_dirs makes the directory and leaves what is in it. *)
LEMMA DirsKeep ==
  ASSUME Host, ensure_data_dirs
  PROVE  Host' /\ data'.there
  <1>1. PICK b \in BOOLEAN, k \in SUBSET Nat, w \in Nat :
          data = [there |-> b, keys |-> k, owner |-> w]
    BY DEF Host, InstallTypeOK
  <1>2. data' = [there |-> TRUE, keys |-> k, owner |-> w] BY <1>1 DEF ensure_data_dirs
  <1>3. data' \in [there : BOOLEAN, keys : SUBSET Nat, owner : Nat] BY <1>1, <1>2
  <1>4. InstallTypeOK' BY <1>3 DEF Host, InstallTypeOK, ensure_data_dirs
  <1>5. data'.there /\ data'.keys = data.keys /\ data'.owner = data.owner BY <1>1, <1>2
  <1>6. Kept(osAccounts', config', data', service')
    BY <1>5 DEF Host, Kept, ensure_data_dirs
  <1> QED BY <1>4, <1>5, <1>6 DEF Host

(* write_owned_secret writes one file. *)
LEMMA WrittenIs ==
  ASSUME Host, NEW o \in Operators, NEW f \in Files, write_owned_secret(o, f)
  PROVE  /\ config' \in [Operators -> [Files -> Secret]] /\ given' \in Nat
         /\ \A p \in Operators, e \in Files : p # o \/ e # f => config'[p][e] = config[p][e]
         /\ config'[o][f].id # 0
  <1>1. PICK g \in Nat : g = osAccounts.group BY DEF Host, InstallTypeOK
  <1>2. Fresh \in Nat /\ Fresh # 0 BY DEF Host, InstallTypeOK, Fresh
  <1>3. PICK n \in Nat : n = Fresh /\ n # 0 BY <1>2
  <1>4. PICK r : r = [id |-> n, group |-> g, mode |-> TRUE] OBVIOUS
  <1>5. r \in Secret /\ r.id = n BY <1>1, <1>3, <1>4 DEF Secret
  <1>6. config' = [config EXCEPT ![o] = [config[o] EXCEPT ![f] = r]]
    BY <1>1, <1>3, <1>4 DEF write_owned_secret
  <1>7. config \in [Operators -> [Files -> Secret]] BY DEF Host, InstallTypeOK
  <1>8. given' \in Nat BY <1>2 DEF write_owned_secret
  <1>9. config' \in [Operators -> [Files -> Secret]] BY <1>5, <1>6, <1>7
  <1>10. \A p \in Operators, e \in Files : p # o \/ e # f => config'[p][e] = config[p][e]
    BY <1>6, <1>7
  <1>11. config'[o][f] = r BY <1>6, <1>7
  <1> QED BY <1>3, <1>5, <1>8, <1>9, <1>10, <1>11

(* It loses no key when it does not replace one. *)
LEMMA WriteKeeps ==
  ASSUME Host, NEW o \in Operators, NEW f \in Files, write_owned_secret(o, f),
         f = "key" => config[o][f].id = 0,
         UNCHANGED <<osAccounts, data, unit, service, bins>>
  PROVE  Host'
  <1>1. InstallTypeOK' BY WrittenIs DEF Host, InstallTypeOK
  <1>2. \A p \in Operators : config[p]["key"].id # 0 => config'[p]["key"].id = config[p]["key"].id
    BY WrittenIs DEF Files
  <1>3. \A k : HasKey(config, k) => HasKey(config', k) BY <1>2, KeysStay
  <1>4. Kept(osAccounts', config', data', service') BY <1>3, KeptWith DEF Host
  <1> QED BY <1>1, <1>4 DEF Host

(* A file that is there is not written. *)
LEMMA IfAbsentKeeps ==
  ASSUME Host, NEW o \in Operators, o = command.op, NEW f \in Files, IfAbsent(f)
  PROVE  /\ Host'
         /\ config'[o][f].id # 0
         /\ \A p \in Operators, e \in Files : config[p][e].id # 0 => config'[p][e] = config[p][e]
  <1>1. CASE config[o][f].id # 0
    <2>1. UNCHANGED <<osAccounts, config, data, unit, service, bins, given>> BY <1>1 DEF IfAbsent
    <2> QED BY <1>1, <2>1 DEF Host, InstallTypeOK
  <1>2. CASE config[o][f].id = 0
    <2>1. write_owned_secret(o, f) /\ UNCHANGED <<osAccounts, data, unit, service, bins>>
      BY <1>2 DEF IfAbsent
    <2>2. Host' BY <1>2, <2>1, WriteKeeps
    <2> QED BY <1>2, <2>1, <2>2, WrittenIs
  <1> QED BY <1>1, <1>2

(* repair_user_config_access changes modes and groups of files that are     *)
(* there, and nothing else.                                                 *)
LEMMA RepairKeeps ==
  ASSUME Host, NEW o \in Operators, o = command.op, repair_user_config_access
  PROVE  /\ Host'
         /\ \A e \in Files : config[o][e].id # 0 =>
              /\ config'[o][e].id = config[o][e].id /\ config'[o][e].mode
              /\ config'[o][e].group = osAccounts'.group
  <1>1. PICK g \in Nat : g = osAccounts.group BY DEF Host, InstallTypeOK
  <1>2. config \in [Operators -> [Files -> Secret]] BY DEF Host, InstallTypeOK
  <1>3. PICK h : h = [f \in Files |-> IF config[o][f].id = 0 THEN config[o][f]
                      ELSE [id |-> config[o][f].id, group |-> g, mode |-> TRUE]]
    OBVIOUS
  <1>4. config' = [config EXCEPT ![o] = h] BY <1>1, <1>3 DEF repair_user_config_access
  <1>5. \A f \in Files : config[o][f] \in Secret /\ config[o][f].id \in Nat
    BY <1>2 DEF Secret
  <1>6. \A i \in Nat : [id |-> i, group |-> g, mode |-> TRUE] \in Secret BY <1>1 DEF Secret
  <1>7. h \in [Files -> Secret] BY <1>3, <1>5, <1>6
  <1>8. config' \in [Operators -> [Files -> Secret]] BY <1>2, <1>4, <1>7
  <1>9. config'[o] = h /\ \A p \in Operators : p # o => config'[p] = config[p] BY <1>2, <1>4
  <1>10. ASSUME NEW f \in Files, config[o][f].id # 0
         PROVE  h[f] = [id |-> config[o][f].id, group |-> g, mode |-> TRUE]
    BY <1>3, <1>10
  <1>11. ASSUME NEW f \in Files, config[o][f].id # 0
         PROVE  h[f].id = config[o][f].id /\ h[f].mode /\ h[f].group = g
    <2>1. PICK i \in Nat : i = config[o][f].id BY <1>5
    <2>2. PICK r : r = [id |-> i, group |-> g, mode |-> TRUE] OBVIOUS
    <2>3. r.id = i /\ r.group = g /\ r.mode BY <1>1, <2>1, <2>2
    <2>4. h[f] = r BY <1>10, <1>11, <2>1, <2>2, Zenon
    <2> QED BY <2>1, <2>3, <2>4
  <1>12. InstallTypeOK' BY <1>8 DEF Host, InstallTypeOK, repair_user_config_access
  <1>13. \A p \in Operators : config[p]["key"].id # 0 => config'[p]["key"].id = config[p]["key"].id
    BY <1>9, <1>11 DEF Files
  <1>14. \A k : HasKey(config, k) => HasKey(config', k) BY <1>13, KeysStay
  <1>15. Kept(osAccounts', config', data', service')
    <2>1. UNCHANGED <<osAccounts, data, service>> BY DEF repair_user_config_access
    <2> QED BY <1>14, <2>1, KeptWith DEF Host
  <1> QED BY <1>1, <1>9, <1>11, <1>12, <1>15 DEF Host, repair_user_config_access


(* The unit file and the loaded unit are apart from the data. *)
LEMMA UnitsKeep ==
  ASSUME Host, UNCHANGED <<osAccounts, config, data, service, bins, given>>,
         \/ \E o \in Operators \cup {NoOperator} : unit' = [unit EXCEPT !.file = o]
         \/ unit' = [unit EXCEPT !.loaded = unit.file]
         \/ unit' = unit
  PROVE  Host'
  <1>1. unit' \in [file : Operators \cup {NoOperator}, loaded : Operators \cup {NoOperator}]
    BY DEF Host, InstallTypeOK
  <1> QED BY <1>1 DEF Host, InstallTypeOK

(* So are starting and stopping the service. *)
LEMMA ServiceKeeps ==
  ASSUME Host, UNCHANGED <<osAccounts, config, data, unit, bins, given>>,
         \/ unit.loaded # NoOperator /\ service' = Started
         \/ service' = Stopped
         \/ service' = service
  PROVE  Host'
  <1>1. CASE unit.loaded # NoOperator /\ service' = Started
    <2>1. /\ service' \in Up /\ service'.home = data.there
          /\ service'.state = "running" => HasKey(config, service'.key)
      BY <1>1, StartedIs DEF Host
    <2>2. InstallTypeOK' BY <2>1 DEF Host, InstallTypeOK
    <2>3. Kept(osAccounts', config', data', service') BY <2>1 DEF Host, Kept, Homely
    <2> QED BY <2>2, <2>3 DEF Host
  <1>2. CASE service' = Stopped
    <2>1. InstallTypeOK' BY <1>2 DEF Host, InstallTypeOK
    <2>2. ~Homely(service') BY <1>2 DEF Stopped, Homely
    <2>3. Kept(osAccounts', config', data', service') BY <2>2 DEF Host, Kept
    <2> QED BY <2>1, <2>3 DEF Host
  <1>3. CASE service' = service
    BY <1>3 DEF Host, InstallTypeOK
  <1> QED BY <1>1, <1>2, <1>3

(* The removal of the data directory leaves nothing that needs a key, also  *)
(* while a daemon runs.                                                     *)
LEMMA WipeKeeps ==
  ASSUME Host, RemoveDataDir
  PROVE  Host' /\ data' = NoData
  <1>1. data' = NoData BY DEF RemoveDataDir
  <1>2. /\ NoData \in [there : BOOLEAN, keys : SUBSET Nat, owner : Nat]
        /\ NoData.keys = {} /\ NoData.owner = 0
    BY DEF NoData
  <1>3. service' \in {Stopped} \cup Up /\ ~Homely(service')
    <2>1. CASE service = Stopped
      <3>1. service.state = "stopped" BY <2>1 DEF Stopped
      <3>2. service' = Stopped BY <2>1, <3>1 DEF RemoveDataDir
      <3> QED BY <3>2 DEF Stopped, Homely
    <2>2. CASE service \in Up
      <3>1. service.state # "stopped" BY <2>2 DEF Up
      <3>2. service' = [service EXCEPT !.home = FALSE] BY <3>1 DEF RemoveDataDir
      <3>3. service' \in Up /\ service'.home = FALSE BY <2>2, <3>2 DEF Up
      <3> QED BY <3>3 DEF Homely
    <2> QED BY <2>1, <2>2 DEF Host, InstallTypeOK
  <1>4. InstallTypeOK' BY <1>1, <1>2, <1>3 DEF Host, InstallTypeOK, RemoveDataDir
  <1>5. Kept(osAccounts', config', data', service') BY <1>1, <1>2, <1>3 DEF Kept
  <1> QED BY <1>1, <1>4, <1>5 DEF Host

(* Without data, the configuration and the accounts may go. *)
LEMMA RemovalsKeep ==
  ASSUME Host, data = NoData, command.op \in Operators,
         RemoveUserConfigDir \/ UserDelDenia \/ GroupDelDenia
  PROVE  Host' /\ data' = NoData
  <1>1. data' = NoData /\ service' = service
    BY DEF RemoveUserConfigDir, UserDelDenia, GroupDelDenia
  <1>2. NoData.keys = {} /\ NoData.owner = 0 /\ ~NoData.there
    BY DEF NoData
  <1>3. ~Homely(service) BY <1>2 DEF Host, Kept
  <1>4. Kept(osAccounts', config', data', service') BY <1>1, <1>2, <1>3 DEF Kept
  <1>5. NoFile \in Secret BY DEF NoFile, Secret
  <1>6. config' \in [Operators -> [Files -> Secret]]
    <2>1. CASE RemoveUserConfigDir BY <1>5, <2>1 DEF RemoveUserConfigDir, Host, InstallTypeOK
    <2>2. CASE UserDelDenia \/ GroupDelDenia
      BY <2>2 DEF UserDelDenia, GroupDelDenia, Host, InstallTypeOK
    <2> QED BY <2>1, <2>2
  <1>7. osAccounts' \in [group : Nat, user : Nat]
    BY DEF RemoveUserConfigDir, UserDelDenia, GroupDelDenia, Host, InstallTypeOK
  <1>8. UNCHANGED <<data, unit, service, bins, given>>
    BY DEF RemoveUserConfigDir, UserDelDenia, GroupDelDenia
  <1>9. InstallTypeOK' BY <1>6, <1>7, <1>8 DEF Host, InstallTypeOK
  <1> QED BY <1>1, <1>4, <1>9 DEF Host

(* A secret is stored for a key that is there, under the account the daemon *)
(* runs as.                                                                 *)
LEMMA SecretsKeep ==
  ASSUME Host, StoreSecret
  PROVE  Host' /\ data'.there = data.there /\ data # NoData
  <1>1. PICK b \in BOOLEAN, k \in SUBSET Nat, w \in Nat :
          data = [there |-> b, keys |-> k, owner |-> w]
    BY DEF Host, InstallTypeOK
  <1>2. service \in Up BY DEF StoreSecret, Host, InstallTypeOK, Stopped
  <1>3. service.key \in Nat BY <1>2 DEF Up
  <1>4. osAccounts.user \in Nat BY DEF Host, InstallTypeOK
  <1>5. PICK v \in Nat, j \in Nat : v = (IF w = 0 THEN osAccounts.user ELSE w) /\ j = service.key
    BY <1>1, <1>3, <1>4
  <1>6. data' = [there |-> b, keys |-> k \cup {j}, owner |-> v]
    BY <1>1, <1>5 DEF StoreSecret
  <1>7. data' \in [there : BOOLEAN, keys : SUBSET Nat, owner : Nat] BY <1>1, <1>5, <1>6
  <1>8. UNCHANGED <<osAccounts, config, unit, service, bins, given>> BY DEF StoreSecret
  <1>9. InstallTypeOK' BY <1>7, <1>8 DEF Host, InstallTypeOK
  <1>10. Homely(service) /\ service.state = "running" BY DEF StoreSecret, Homely
  <1>11. data.there /\ HasKey(config, j) BY <1>5, <1>10 DEF Host, Kept
  <1>12. /\ data'.there = data.there /\ data'.keys = data.keys \cup {j}
         /\ data'.owner = IF data.owner = 0 THEN osAccounts.user ELSE data.owner
    BY <1>1, <1>5, <1>6
  <1>13. Kept(osAccounts', config', data', service') BY <1>8, <1>11, <1>12 DEF Host, Kept
  <1>14. data # NoData BY <1>11 DEF NoData
  <1> QED BY <1>9, <1>12, <1>13, <1>14 DEF Host

(* An operator's edit keeps the keys. *)
LEMMA EditKeeps ==
  ASSUME Host, EditByHand
  PROVE  Host'
  <1>1. PICK o \in Operators : config' = [config EXCEPT ![o]["config"].mode = FALSE]
    BY DEF EditByHand
  <1>2. config \in [Operators -> [Files -> Secret]] BY DEF Host, InstallTypeOK
  <1>3. PICK r : r = [config[o]["config"] EXCEPT !.mode = FALSE] OBVIOUS
  <1>4. config[o]["config"] \in Secret BY <1>2 DEF Files
  <1>5. r \in Secret BY <1>3, <1>4 DEF Secret
  <1>6. config' = [config EXCEPT ![o] = [config[o] EXCEPT !["config"] = r]]
    BY <1>1, <1>3, Zenon
  <1>7. config' \in [Operators -> [Files -> Secret]] BY <1>2, <1>5, <1>6 DEF Files
  <1>8. \A p \in Operators : config'[p]["key"] = config[p]["key"] BY <1>2, <1>6 DEF Files
  <1>9. UNCHANGED <<osAccounts, data, unit, service, bins, given>> BY DEF EditByHand
  <1>10. InstallTypeOK' BY <1>7, <1>9 DEF Host, InstallTypeOK
  <1>11. \A k : HasKey(config, k) => HasKey(config', k) BY <1>8, KeysStay
  <1>12. Kept(osAccounts', config', data', service') BY <1>9, <1>11, KeptWith DEF Host
  <1> QED BY <1>10, <1>12 DEF Host

(* The binaries are apart from the data. *)
LEMMA BinsKeep ==
  ASSUME Host, UNCHANGED <<osAccounts, config, data, unit, service, given>>,
         bins' \in [target : Nat, bak : Nat, good : SUBSET Nat]
  PROVE  Host'
  BY DEF Host, InstallTypeOK

(* setup preserves the invariant. *)
LEMMA SetupKeeps ==
  ASSUME InstallInv, setup
  PROVE  /\ InstallInv' /\ command'.op = command.op
         /\ command'.verb = "setup" => command'.step = command.step + 1 /\ command.step < 11
  <1>1. command \in Named /\ command.verb = "setup" /\ command.op \in Operators /\ command.step \in Nat
    BY WhoRuns, NamedFields DEF InstallInv, setup, AtStep
  <1>2. Host'
    <2>1. CASE ensure_group \/ ensure_user BY <2>1, AccountsKeep DEF InstallInv
    <2>2. CASE ensure_data_dirs BY <2>2, DirsKeep DEF InstallInv
    <2>3. ASSUME NEW f \in Files, IfAbsent(f) PROVE Host'
      BY <1>1, <2>3, IfAbsentKeeps DEF InstallInv
    <2>4. CASE repair_user_config_access BY <1>1, <2>4, RepairKeeps DEF InstallInv
    <2>5. CASE write_unit \/ daemon_reload
      <3>1. CASE write_unit BY <1>1, <3>1, UnitsKeep DEF InstallInv, write_unit
      <3>2. CASE daemon_reload BY <3>2, UnitsKeep DEF InstallInv, daemon_reload
      <3> QED BY <2>5, <3>1, <3>2
    <2>6. CASE enable_now \/ Wait
      <3>1. CASE enable_now BY <3>1, ServiceKeeps DEF InstallInv, enable_now
      <3>2. CASE Wait BY <3>2, ServiceKeeps DEF InstallInv, Wait
      <3> QED BY <2>6, <3>1, <3>2
    <2> QED BY <2>1, <2>2, <2>3, <2>4, <2>5, <2>6 DEF setup, Files
  <1>3. command' = IF command.step = 11 THEN [command EXCEPT !.verb = "set up"] ELSE Next1
    BY DEF setup
  <1>4. /\ command' \in Named /\ command'.verb \in {"setup", "set up"} /\ command'.op = command.op
        /\ command'.verb = "setup" => command'.step = command.step + 1 /\ command.step # 11
    <2>1. CASE command.step = 11
      <3>1. command' = [command EXCEPT !.verb = "set up"] BY <1>3, <2>1
      <3> QED BY <1>1, <3>1, Stepped, Zenon
    <2>2. CASE command.step # 11
      <3>1. command' = Next1 BY <1>3, <2>2
      <3> QED BY <1>1, <2>2, <3>1, Stepped, Zenon
    <2> QED BY <2>1, <2>2
  <1>5. command.step \in {1, 2, 3, 4, 5, 6, 7, 8, 9, 10, 11} BY DEF setup, AtStep
  <1>6. Emptied(command', data') BY <1>4 DEF Emptied
  <1>7. command' \in Commands BY <1>4 DEF Commands
  <1>8. command.step # 11 => command.step < 11 BY <1>5
  <1> QED BY <1>2, <1>4, <1>6, <1>7, <1>8 DEF InstallInv

(* uninstall, with and without --purge. *)
LEMMA UninstallKeeps ==
  ASSUME InstallInv, uninstall
  PROVE  /\ InstallInv'
         /\ command'.verb \notin {"setup", "set up", "update"}
  <1>1. /\ command \in Named /\ command.verb \in {"uninstall", "purge"}
        /\ command.op \in Operators /\ command.step \in Nat
    BY WhoRuns, NamedFields DEF InstallInv, uninstall, purge, AtStep
  <1>2. Host' /\ (command.step > 3 => data' = NoData /\ command.verb = "purge")
    <2>1. CASE command.step = 1 /\ disable_now
      BY <2>1, ServiceKeeps DEF InstallInv, disable_now
    <2>2. CASE command.step = 2 /\ RemoveUnitFile
      BY <2>2, UnitsKeep DEF InstallInv, RemoveUnitFile
    <2>3. CASE command.step = 3 /\ daemon_reload
      BY <2>3, UnitsKeep DEF InstallInv, daemon_reload
    <2>4. CASE AtStep("purge", 4) /\ RemoveDataDir
      BY <2>4, WipeKeeps DEF InstallInv, AtStep
    <2>5. CASE command.verb = "purge" /\ command.step > 4
               /\ (RemoveUserConfigDir \/ UserDelDenia \/ GroupDelDenia)
      BY <1>1, <2>5, RemovalsKeep DEF InstallInv, Emptied
    <2> QED BY <2>1, <2>2, <2>3, <2>4, <2>5 DEF uninstall, purge, AtStep
  <1>3. command' = NoCommand \/ command' = Next1 BY DEF uninstall
  <1>4. CASE command' = NoCommand
    <2>1. command'.verb = "none" BY <1>4 DEF NoCommand
    <2> QED BY <1>2, <1>4, <2>1 DEF InstallInv, Emptied, Commands
  <1>5. CASE command' = Next1
    <2>1. command' \in Named /\ command'.verb = command.verb /\ command'.step = command.step + 1
      BY <1>1, <1>5, Stepped, Zenon
    <2>2. Emptied(command', data') BY <1>1, <1>2, <2>1 DEF Emptied
    <2> QED BY <1>1, <1>2, <2>1, <2>2 DEF InstallInv, Commands
  <1> QED BY <1>3, <1>4, <1>5

(* rotate-token replaces a token and never a key. *)
LEMMA RotateKeeps ==
  ASSUME InstallInv, rotate_token
  PROVE  /\ InstallInv'
         /\ command'.verb \notin {"setup", "set up", "update"}
  <1>1. command \in Named /\ command.verb = "rotate" /\ command.op \in Operators
    BY WhoRuns, NamedFields DEF InstallInv, rotate_token, AtStep
  <1>2. Host'
    <2>1. CASE /\ write_owned_secret(command.op, "token")
               /\ UNCHANGED <<osAccounts, data, unit, service, bins>>
      BY <1>1, <2>1, WriteKeeps DEF InstallInv, Files
    <2>2. CASE restart /\ UNCHANGED <<osAccounts, config, data, unit, bins, given>>
      BY <2>2, ServiceKeeps DEF InstallInv, restart
    <2>3. CASE Wait BY <2>3, ServiceKeeps DEF InstallInv, Wait
    <2> QED BY <2>1, <2>2, <2>3 DEF rotate_token
  <1>3. command' = NoCommand \/ command' = Next1 BY DEF rotate_token
  <1>4. CASE command' = NoCommand
    <2>1. command'.verb = "none" BY <1>4 DEF NoCommand
    <2> QED BY <1>2, <1>4, <2>1 DEF InstallInv, Emptied, Commands
  <1>5. CASE command' = Next1
    <2>1. command' \in Named /\ command'.verb = command.verb BY <1>1, <1>5, Stepped, Zenon
    <2> QED BY <1>1, <1>2, <2>1 DEF InstallInv, Emptied, Commands
  <1> QED BY <1>3, <1>4, <1>5

(* update preserves the invariant, and its own: a binary that was not       *)
(* verified against the manifest of the release is not installed.           *)
LEMMA UpdateKeeps ==
  ASSUME InstallInv, UpdateInv, update
  PROVE  InstallInv' /\ UpdateInv' /\ command'.verb \notin {"setup", "set up"}
  <1>1. /\ command \in Updating /\ command.verb = "update" /\ command.step \in Nat
        /\ command.bin \in Nat /\ command.tag \in Nat /\ command.was \in Nat
    <2>1. command.verb = "update"
      BY DEF update, FetchRelease, install_binary, restart_and_wait, RollBack, AtStep
    <2>2. command \in Updating BY <2>1, WhoRuns DEF InstallInv
    <2> QED BY <2>1, <2>2, UpdatingFields, InstallAssumption
  <1>2. bins \in [target : Nat, bak : Nat, good : SUBSET Nat]
    BY DEF InstallInv, Host, InstallTypeOK
  <1>3. /\ Host' /\ (command.step = 4 => bins'.target = command.bin)
    <2>1. CASE FetchRelease
      BY <1>2, <2>1, BinsKeep DEF FetchRelease, InstallInv, AtStep
    <2>2. CASE install_binary
      <3>1. /\ bins' \in [target : Nat, bak : Nat, good : SUBSET Nat]
            /\ command.step = 4 => bins'.target = command.bin
        BY <1>1, <1>2, <2>2 DEF install_binary, AtStep
      <3> QED BY <2>2, <3>1, BinsKeep DEF install_binary, InstallInv
    <2>3. CASE restart_and_wait
      BY <2>3, ServiceKeeps DEF restart_and_wait, restart, InstallInv, AtStep
    <2>4. CASE RollBack
      <3>1. command.step \in {6, 7, 8} BY <2>4 DEF RollBack, AtStep
      <3>2. CASE UNCHANGED bins
        <4>1. \/ unit.loaded # NoOperator /\ service' = Started
              \/ service' = service
          BY <2>4 DEF RollBack, restart
        <4>2. Host' BY <2>4, <3>2, <4>1, ServiceKeeps DEF RollBack, InstallInv
        <4> QED BY <3>1, <4>2
      <3>3. CASE UNCHANGED service /\ \E n \in Nat : bins' = [bins EXCEPT !.target = n]
        <4>1. bins' \in [target : Nat, bak : Nat, good : SUBSET Nat] BY <1>2, <3>3
        <4>2. Host' BY <2>4, <3>3, <4>1, BinsKeep DEF RollBack, InstallInv
        <4> QED BY <3>1, <4>2
      <3>4. bins.target \in Nat /\ bins.bak \in Nat BY <1>2
      <3> QED BY <2>4, <3>2, <3>3, <3>4 DEF RollBack
    <2> QED BY <2>1, <2>2, <2>3, <2>4 DEF update
  <1>4. \/ command' = NoCommand
        \/ command' = Next1 /\ command.step > 1
        \/ command' = [command EXCEPT !.verb = "rolled back"]
        \/ /\ command.step = 1
           /\ \E t \in Nat : /\ t > bins.target \/ command.force
                             /\ command' = [Next1 EXCEPT !.tag = t, !.bin = t]
    <2>1. CASE FetchRelease
      <3>1. PICK a \in Answers : /\ Wanted(a) /\ verify(a)
                                 /\ command' = [Next1 EXCEPT !.tag = a.tag_name, !.bin = a.bin]
        BY <2>1 DEF FetchRelease
      <3>2. a.bin = a.tag_name /\ a.tag_name \in Nat
        BY <3>1, InstallAssumption DEF verify, Answers, Manifests
      <3>3. command.step = 1 BY <2>1 DEF FetchRelease, AtStep
      <3>4. PICK t \in Nat : t = a.tag_name BY <3>2
      <3>5. command' = [Next1 EXCEPT !.tag = t, !.bin = t] BY <3>1, <3>2, <3>4, Zenon
      <3>6. t > bins.target \/ command.force BY <3>1, <3>4 DEF Wanted
      <3> QED BY <3>3, <3>5, <3>6
    <2>2. CASE install_binary
      <3>1. command.step \in {2, 3, 4} BY <2>2 DEF install_binary, AtStep
      <3>2. command.step > 1 BY <3>1
      <3> QED BY <2>2, <3>2, Zenon DEF install_binary
    <2>3. CASE restart_and_wait
      <3>1. command.step = 5 BY <2>3 DEF restart_and_wait, AtStep
      <3>2. command.step > 1 BY <3>1
      <3> QED BY <2>3, <3>2, Zenon DEF restart_and_wait
    <2>4. CASE RollBack
      <3>1. command.step \in {6, 7, 8} BY <2>4 DEF RollBack, AtStep
      <3>2. command.step > 1 BY <3>1
      <3> QED BY <2>4, <3>2, Zenon DEF RollBack
    <2> QED BY <2>1, <2>2, <2>3, <2>4 DEF update
  <1>5. CASE command' = NoCommand
    <2>1. command'.verb = "none" BY <1>5 DEF NoCommand
    <2> QED BY <1>3, <1>5, <2>1 DEF InstallInv, Emptied, Commands, UpdateInv
  <1>6. CASE command' = Next1 /\ command.step > 1
    <2>1. /\ command' \in Updating /\ command'.verb = "update" /\ command'.tag = command.tag
          /\ command'.bin = command.bin /\ command'.step = command.step + 1
          /\ command'.was = command.was /\ command'.force = command.force
      BY <1>1, <1>6, SteppedOn, Zenon
    <2>2. command.bin = command.tag /\ (command.tag > command.was \/ command.force)
      BY <1>1, <1>6 DEF UpdateInv
    <2>3. command'.tag > command'.was \/ command'.force BY <2>1, <2>2, Zenon
    <2>4. command'.bin = command'.tag BY <2>1, <2>2
    <2>5. command'.step # 1 BY <1>1, <1>6, <2>1
    <2>6. command'.step = 5 => bins'.target = command'.tag BY <1>1, <1>3, <2>1, <2>2
    <2>7. UpdateInv' BY <2>3, <2>4, <2>5, <2>6, Zenon DEF UpdateInv
    <2> QED BY <1>3, <2>1, <2>7 DEF InstallInv, Emptied, Commands
  <1>7. CASE command' = [command EXCEPT !.verb = "rolled back"]
    <2>1. command' \in Updating /\ command'.verb = "rolled back" BY <1>1, <1>7, SteppedOn, Zenon
    <2> QED BY <1>3, <2>1 DEF InstallInv, Emptied, Commands, UpdateInv
  <1>8. CASE /\ command.step = 1
             /\ \E t \in Nat : /\ t > bins.target \/ command.force
                               /\ command' = [Next1 EXCEPT !.tag = t, !.bin = t]
    <2>0. PICK t \in Nat : /\ t > bins.target \/ command.force
                           /\ command' = [Next1 EXCEPT !.tag = t, !.bin = t]
      BY <1>8
    <2>1. /\ command' \in Updating /\ command'.verb = "update" /\ command'.tag = t
          /\ command'.bin = t /\ command'.step = command.step + 1
          /\ command'.was = command.was /\ command'.force = command.force
      BY <1>1, <2>0, SteppedOn, Zenon
    <2>2. UpdateInv' BY <1>1, <1>8, <2>0, <2>1 DEF UpdateInv
    <2> QED BY <1>3, <2>1, <2>2 DEF InstallInv, Emptied, Commands
  <1> QED BY <1>4, <1>5, <1>6, <1>7, <1>8

(* A command begins at its first step. *)
LEMMA CallIs ==
  ASSUME Call, bins.target \in Nat
  PROVE  \/ command' \in Named /\ command'.verb # "set up" /\ command'.step = 1
         \/ /\ command' \in Updating /\ command'.verb = "update" /\ command'.step = 1
            /\ command'.was = bins.target
  <1>1. ASSUME NEW v \in {"setup", "uninstall", "purge", "rotate"}, NEW o \in Operators,
               command' = [verb |-> v, op |-> o, step |-> 1]
        PROVE  command' \in Named /\ command'.verb # "set up" /\ command'.step = 1
    BY <1>1 DEF Named
  <1>2. ASSUME NEW w \in Nat, NEW f \in BOOLEAN,
               command' = [verb |-> "update", step |-> 1, tag |-> 0, force |-> f, was |-> w, bin |-> 0]
        PROVE  /\ command' \in Updating /\ command'.verb = "update" /\ command'.step = 1
               /\ command'.was = w
    BY <1>2 DEF Updating
  <1> QED BY <1>1, <1>2 DEF Call

(* A call, an abandoned command, a stored secret, an edit and a restart by  *)
(* systemd.                                                                 *)
LEMMA OthersKeep ==
  ASSUME InstallInv, UpdateInv, Call \/ Abandon \/ StoreSecret \/ EditByHand \/ SystemdRestarts
  PROVE  InstallInv' /\ UpdateInv'
  <1>1. CASE Call
    <2>1. Host' BY <1>1 DEF Call, InstallInv, Host, InstallTypeOK
    <2>0. bins.target \in Nat BY DEF InstallInv, Host, InstallTypeOK
    <2>2. command'.step = 1 /\ command' \in Commands BY <1>1, <2>0, CallIs DEF Commands
    <2>4. command'.verb = "update" => command'.was = bins'.target
      BY <1>1, <2>0, CallIs, NamedFields DEF Call
    <2>3. Emptied(command', data') /\ UpdateInv' BY <2>2, <2>4 DEF Emptied, UpdateInv
    <2> QED BY <2>1, <2>2, <2>3 DEF InstallInv
  <1>2. CASE Abandon
    <2>1. Host' BY <1>2 DEF Abandon, InstallInv, Host, InstallTypeOK
    <2>2. command' = NoCommand /\ NoCommand.verb = "none" BY <1>2 DEF Abandon, NoCommand
    <2> QED BY <2>1, <2>2 DEF InstallInv, Emptied, Commands, UpdateInv
  <1>3. CASE StoreSecret
    <2>1. Host' /\ data # NoData BY <1>3, SecretsKeep DEF InstallInv
    <2>2. command' = command /\ bins' = bins BY <1>3 DEF StoreSecret
    <2>3. Emptied(command', data') BY <2>1, <2>2 DEF InstallInv, Emptied
    <2> QED BY <2>1, <2>2, <2>3 DEF InstallInv, UpdateInv
  <1>4. CASE EditByHand
    <2>1. Host' BY <1>4, EditKeeps DEF InstallInv
    <2>2. command' = NoCommand /\ NoCommand.verb = "none" BY <1>4 DEF EditByHand, NoCommand
    <2> QED BY <2>1, <2>2 DEF InstallInv, Emptied, Commands, UpdateInv
  <1>5. CASE SystemdRestarts
    <2>1. Host' BY <1>5, ServiceKeeps DEF SystemdRestarts, restart, InstallInv
    <2> QED BY <1>5, <2>1 DEF SystemdRestarts, InstallInv, UpdateInv, Emptied
  <1> QED BY <1>1, <1>2, <1>3, <1>4, <1>5

(* Every step preserves the invariant. *)
LEMMA InstallInductive ==
  ASSUME InstallInv, UpdateInv, [InstallNext]_installVars
  PROVE  InstallInv' /\ UpdateInv'
  <1>1. CASE setup
    <2>1. InstallInv' BY <1>1, SetupKeeps
    <2>2. command' \in Named BY <1>1, Stepped, WhoRuns, Zenon DEF InstallInv, setup, AtStep
    <2>3. command'.verb # "update" BY <2>2, NamedFields
    <2> QED BY <2>1, <2>3 DEF UpdateInv
  <1>2. CASE uninstall BY <1>2, UninstallKeeps DEF UpdateInv
  <1>3. CASE rotate_token BY <1>3, RotateKeeps DEF UpdateInv
  <1>4. CASE update BY <1>4, UpdateKeeps
  <1>5. CASE Call \/ Abandon \/ StoreSecret \/ EditByHand \/ SystemdRestarts BY <1>5, OthersKeep
  <1>6. CASE UNCHANGED installVars
    BY <1>6 DEF installVars, InstallInv, UpdateInv, Host, InstallTypeOK
  <1> QED BY <1>1, <1>2, <1>3, <1>4, <1>5, <1>6 DEF InstallNext

(* The invariants hold before the first command. *)
LEMMA InstallStarts ==
  ASSUME InstallInit
  PROVE  InstallInv /\ UpdateInv /\ SetupInv
  <1>1. NoFile \in Secret BY DEF NoFile, Secret
  <1>2. NoData \in [there : BOOLEAN, keys : SUBSET Nat, owner : Nat]
        /\ NoData.keys = {} /\ NoData.owner = 0
    BY DEF NoData
  <1>3. bins \in [target : Nat, bak : Nat, good : SUBSET Nat]
    BY InstallAssumption DEF InstallInit
  <1>4. InstallTypeOK BY <1>1, <1>2, <1>3 DEF InstallInit, InstallTypeOK
  <1>5. ~Homely(Stopped) BY DEF Homely, Stopped
  <1>6. Kept(osAccounts, config, data, service) BY <1>2, <1>5 DEF InstallInit, Kept
  <1>7. command = NoCommand /\ NoCommand.verb = "none" BY DEF InstallInit, NoCommand
  <1> QED BY <1>4, <1>6, <1>7 DEF InstallInv, Host, Emptied, Commands, UpdateInv, SetupInv

(* What a setup has put in place does not depend on the service. *)
LEMMA ProgressStays ==
  ASSUME NEW n \in Nat, NEW o \in Operators, Progress(n, o),
         UNCHANGED <<osAccounts, config, unit>>, data'.there = data.there
  PROVE  Progress(n, o)'
  BY DEF Progress, Readable

(* Each step of setup adds what the next ones rely on. *)
LEMMA SetupSteps ==
  ASSUME InstallInv, SetupInv, setup
  PROVE  SetupInv'
  <1>1. /\ command \in Named /\ command.verb = "setup" /\ command.op \in Operators
        /\ command.step \in Nat
    BY WhoRuns, NamedFields DEF InstallInv, setup, AtStep
  <1>2. PICK o \in Operators : o = command.op BY <1>1
  <1>3. PICK n \in Nat : n = command.step BY <1>1
  <1>4. Progress(n, o) BY <1>1, <1>2, <1>3 DEF SetupInv
  <1>5. Host BY DEF InstallInv
  <1>6. Progress(n + 1, o)'
    <2>1. CASE AtStep("setup", 1) /\ ensure_group
      <3>1. osAccounts'.group # 0 BY <1>5, <2>1 DEF ensure_group, Host, InstallTypeOK, Fresh
      <3>2. n = 1 BY <1>3, <2>1 DEF AtStep
      <3> QED BY <3>1, <3>2 DEF Progress
    <2>2. CASE AtStep("setup", 2) /\ ensure_user
      <3>1. osAccounts'.user # 0 /\ osAccounts'.group # 0
        BY <1>5, <2>2 DEF ensure_user, Host, InstallTypeOK, Fresh
      <3>2. n = 2 BY <1>3, <2>2 DEF AtStep
      <3> QED BY <3>1, <3>2 DEF Progress
    <2>3. CASE AtStep("setup", 3) /\ ensure_data_dirs
      <3>1. data'.there BY <1>5, <2>3, DirsKeep
      <3>2. n = 3 /\ UNCHANGED osAccounts BY <1>3, <2>3 DEF AtStep, ensure_data_dirs
      <3> QED BY <1>4, <3>1, <3>2 DEF Progress
    <2>4. ASSUME NEW f \in Files, IfAbsent(f),
                 \/ n = 4 /\ f = "key"
                 \/ n = 5 /\ f = "token"
                 \/ n = 6 /\ f = "config"
          PROVE  Progress(n + 1, o)'
      <3>1. /\ config'[o][f].id # 0
            /\ \A p \in Operators, e \in Files :
                 config[p][e].id # 0 => config'[p][e] = config[p][e]
        BY <1>2, <1>5, <2>4, IfAbsentKeeps
      <3>2. UNCHANGED <<osAccounts, data>> BY <2>4 DEF IfAbsent
      <3> QED BY <1>4, <2>4, <3>1, <3>2 DEF Progress, Files
    <2>5. CASE AtStep("setup", 7) /\ repair_user_config_access
      <3>1. \A e \in Files : config[o][e].id # 0 =>
              /\ config'[o][e].id = config[o][e].id /\ config'[o][e].mode
              /\ config'[o][e].group = osAccounts'.group
        BY <1>2, <1>5, <2>5, RepairKeeps
      <3>2. n = 7 /\ UNCHANGED <<osAccounts, data>>
        BY <1>3, <2>5 DEF AtStep, repair_user_config_access
      <3>3. \A e \in Files : config[o][e].id # 0 BY <1>4, <3>2 DEF Progress, Files
      <3>4. Readable(o)' BY <3>1, <3>3 DEF Readable
      <3>5. \A e \in Files : config'[o][e].id # 0 BY <3>1, <3>3
      <3>6. /\ config'[o]["key"].id # 0 /\ config'[o]["token"].id # 0
            /\ config'[o]["config"].id # 0
        BY <3>5 DEF Files
      <3> QED BY <1>4, <3>2, <3>4, <3>6 DEF Progress
    <2>6. CASE AtStep("setup", 8) /\ write_unit
      <3>1. n = 8 /\ UNCHANGED <<osAccounts, config, data>> BY <1>3, <2>6 DEF AtStep, write_unit
      <3>2. unit'.file = o BY <1>2, <1>5, <2>6 DEF write_unit, Host, InstallTypeOK
      <3>3. Readable(o)' BY <1>4, <3>1 DEF Progress, Readable
      <3> QED BY <1>4, <3>1, <3>2, <3>3 DEF Progress
    <2>7. CASE AtStep("setup", 9) /\ daemon_reload
      <3>1. n = 9 /\ UNCHANGED <<osAccounts, config, data>> BY <1>3, <2>7 DEF AtStep, daemon_reload
      <3>2. unit'.file = unit.file /\ unit'.loaded = unit.file
        BY <1>5, <2>7 DEF daemon_reload, Host, InstallTypeOK
      <3>3. Readable(o)' BY <1>4, <3>1 DEF Progress, Readable
      <3> QED BY <1>4, <3>1, <3>2, <3>3 DEF Progress
    <2>8. CASE \/ AtStep("setup", 10) /\ enable_now
               \/ AtStep("setup", 11) /\ Wait
      <3>1. n \in {10, 11} /\ UNCHANGED <<osAccounts, config, data, unit>>
        BY <1>3, <2>8 DEF AtStep, enable_now, Wait
      <3>2. Progress(n, o)' BY <1>4, <3>1, ProgressStays
      <3> QED BY <3>1, <3>2 DEF Progress
    <2>9. /\ AtStep("setup", 4) => n = 4
          /\ AtStep("setup", 5) => n = 5
          /\ AtStep("setup", 6) => n = 6
      BY <1>3 DEF AtStep
    <2>10. CASE \/ AtStep("setup", 4) /\ IfAbsent("key")
                \/ AtStep("setup", 5) /\ IfAbsent("token")
                \/ AtStep("setup", 6) /\ IfAbsent("config")
      BY <2>4, <2>9, <2>10 DEF Files
    <2> QED BY <2>1, <2>2, <2>3, <2>5, <2>6, <2>7, <2>8, <2>10, Zenon DEF setup
  <1>7. command' = IF command.step = 11 THEN [command EXCEPT !.verb = "set up"] ELSE Next1
    BY DEF setup
  <1>8. CASE n = 11
    <2>1. command' = [command EXCEPT !.verb = "set up"] BY <1>3, <1>7, <1>8
    <2>2. command'.verb = "set up" /\ command'.op = o BY <1>1, <1>2, <2>1, Stepped, Zenon
    <2>3. 11 + 1 = 12 OBVIOUS
    <2>4. PICK k \in Nat : k = n + 1 BY <1>3
    <2>5. Progress(k, o)' BY <1>6, <2>4, Zenon
    <2>6. k = 12 BY <1>8, <2>3, <2>4
    <2>7. Progress(12, o)' BY <2>5, <2>6, Zenon
    <2> QED BY <2>2, <2>7 DEF SetupInv
  <1>9. CASE n # 11
    <2>1. command' = Next1 BY <1>3, <1>7, <1>9
    <2>2. command'.verb = "setup" /\ command'.op = o /\ command'.step = n + 1
      BY <1>1, <1>2, <1>3, <2>1, Stepped, Zenon
    <2> QED BY <1>6, <2>2 DEF SetupInv
  <1> QED BY <1>8, <1>9

(* Every step preserves what setup has put in place. *)
LEMMA SetupInductive ==
  ASSUME InstallInv, UpdateInv, SetupInv, [InstallNext]_installVars
  PROVE  SetupInv'
  <1>1. CASE setup BY <1>1, SetupSteps
  <1>2. CASE uninstall BY <1>2, UninstallKeeps DEF SetupInv
  <1>3. CASE rotate_token BY <1>3, RotateKeeps DEF SetupInv
  <1>4. CASE update BY <1>4, UpdateKeeps DEF SetupInv
  <1>5. CASE Call
    <2>1. bins.target \in Nat BY DEF InstallInv, Host, InstallTypeOK
    <2>2. command'.verb # "set up" /\ command'.step = 1
      BY <1>5, <2>1, CallIs, UpdatingFields
    <2>3. ASSUME NEW o PROVE Progress(1, o)' BY DEF Progress
    <2> QED BY <2>2, <2>3 DEF SetupInv
  <1>6. CASE Abandon \/ EditByHand
    <2>1. command' = NoCommand /\ NoCommand.verb = "none" BY <1>6 DEF Abandon, EditByHand, NoCommand
    <2> QED BY <2>1 DEF SetupInv
  <1>7. CASE StoreSecret \/ SystemdRestarts \/ UNCHANGED installVars
    <2>1. UNCHANGED <<osAccounts, config, unit, command>>
      BY <1>7 DEF StoreSecret, SystemdRestarts, installVars
    <2>2. data'.there = data.there
      <3>1. CASE StoreSecret BY <3>1, SecretsKeep DEF InstallInv
      <3>2. CASE SystemdRestarts \/ UNCHANGED installVars BY <3>2 DEF SystemdRestarts, installVars
      <3> QED BY <1>7, <3>1, <3>2
    <2>3. ASSUME command.verb \in {"setup", "set up"}
          PROVE  SetupInv'
      <3>1. command.op \in Operators /\ command.step \in Nat
        BY <2>3, WhoRuns, NamedFields DEF InstallInv
      <3>2. PICK o \in Operators, n \in Nat : o = command.op /\ n = command.step BY <3>1
      <3>3. 12 \in Nat OBVIOUS
      <3>4. /\ Progress(n, o) => Progress(n, o)'
            /\ Progress(12, o) => Progress(12, o)'
        BY <2>1, <2>2, <3>3, ProgressStays
      <3> QED BY <2>1, <3>2, <3>4 DEF SetupInv
    <2> QED BY <2>1, <2>3 DEF SetupInv
  <1> QED BY <1>1, <1>2, <1>3, <1>4, <1>5, <1>6, <1>7 DEF InstallNext

(* The three invariants together. *)
THEOREM InstallInvariant == InstallSpec => [](InstallInv /\ UpdateInv /\ SetupInv)
  <1>1. InstallInit => InstallInv /\ UpdateInv /\ SetupInv BY InstallStarts
  <1>2. InstallInv /\ UpdateInv /\ SetupInv /\ [InstallNext]_installVars
          => (InstallInv /\ UpdateInv /\ SetupInv)'
    BY InstallInductive, SetupInductive
  <1> QED BY <1>1, <1>2, PTL DEF InstallSpec

(* What the daemon stored stays usable: whatever setups, uninstalls,        *)
(* purges, rotations and updates are called, by whichever operators, and    *)
(* wherever they are abandoned, the key of every stored secret exists and   *)
(* the owner of the files is the daemon's account.                          *)
THEOREM StoredAlwaysUsable == InstallSpec => []StoredStaysUsable
  <1>1. InstallInv => StoredStaysUsable BY DEF InstallInv, Host, Kept, HasKey, StoredStaysUsable
  <1> QED BY <1>1, InstallInvariant, PTL

(* A setup that completes leaves a host on which the daemon can start: its  *)
(* unit is loaded and every file of the operator is readable to its         *)
(* account, whatever earlier commands and hands left there.                 *)
THEOREM SetupAlwaysRepairs == InstallSpec => []SetupRepairs
  <1>1. ASSUME SetupInv, command.verb = "set up"
        PROVE  /\ unit.loaded = command.op /\ Readable(command.op)
               /\ osAccounts.user # 0 /\ data.there
    <2>1. Progress(12, command.op) BY <1>1 DEF SetupInv
    <2>2. 12 > 2 /\ 12 > 3 /\ 12 > 7 /\ 12 > 9 OBVIOUS
    <2> QED BY <2>1, <2>2, Zenon DEF Progress
  <1>2. SetupInv => SetupRepairs BY <1>1 DEF SetupRepairs
  <1> QED BY <1>2, InstallInvariant, PTL

(* An update installs the binary of the release that the host announced,    *)
(* whatever mixture of binaries and manifests it answers with, and without  *)
(* --force only a newer one than the binary it replaces.                    *)
THEOREM InstalledWasAnnounced == InstallSpec => []InstalledIsAnnounced
  <1>1. UpdateInv => InstalledIsAnnounced
    <2>1. command.step = 5 => command.step > 1 OBVIOUS
    <2> QED BY <2>1 DEF UpdateInv, InstalledIsAnnounced
  <1> QED BY <1>1, InstallInvariant, PTL

-----------------------------------------------------------------------------
ServiceRow == [json : BOOLEAN, project : BOOLEAN, hosts : SUBSET Rows]
Databases ==
  [single : BOOLEAN, versions : SUBSET Nat, tables : SUBSET TablesUpto(Latest),
   columns : SUBSET ColumnsUpto(Latest),
   services : UNION {[S -> ServiceRow] : S \in SUBSET Rows},
   domains : SUBSET Rows, healthy : SUBSET Rows, promoted : SUBSET Rows]

(* A file at version v holds what the steps up to v make of the rows that   *)
(* the first boot found.                                                    *)
Parsed == {r \in DOMAIN origin.services : origin.services[r].json}

AtVersion(d, v) ==
  /\ d \in Databases
  /\ d.tables = TablesUpto(v) /\ d.columns = ColumnsUpto(v)
  /\ v < 2 => d.services = origin.services
  /\ v >= 2 => /\ DOMAIN d.services = Parsed
               /\ \A r \in DOMAIN d.services : d.services[r].project /\ d.services[r].json
  /\ v >= 5 => \A r \in DOMAIN d.services : d.services[r].hosts \subseteq d.domains
  /\ v >= 11 => d.healthy \subseteq d.promoted

(* The version that a boot reads, from one row or from several. *)
Records(d, v) ==
  \/ d.versions = {} /\ v = 0
  \/ v \in d.versions /\ \A y \in d.versions : y <= v

MigrateAt(v) ==
  /\ Records(db, v) /\ AtVersion(db, v)
  /\ boot \in {"step", "write", "up"} => schema = v
  /\ boot = "write" => v < Latest /\ AtVersion(tx, v + 1)
  /\ boot = "up" => v = Latest

(* The inductive invariant of a boot, wherever it is and however often it   *)
(* was cut short.                                                           *)
MigrateInv ==
  /\ boot \in {"down", "open", "step", "write", "up"}
  /\ \E v \in 0 .. Latest : MigrateAt(v)

LEMMA VersionRead ==
  ASSUME NEW d, NEW v \in 0 .. Latest, Records(d, v), d.versions \in SUBSET Nat
  PROVE  (IF d.versions = {} THEN 0 ELSE MaxOf(d.versions)) = v
  <1>1. CASE d.versions = {} BY <1>1 DEF Records
  <1>2. CASE d.versions # {}
    <2>1. v \in d.versions /\ \A y \in d.versions : y <= v BY <1>2 DEF Records
    <2> DEFINE m == MaxOf(d.versions)
    <2>2. m \in d.versions /\ \A y \in d.versions : y <= m BY <2>1 DEF MaxOf
    <2> HIDE DEF m
    <2>3. m <= v /\ v <= m /\ m \in Nat /\ v \in Nat BY <2>1, <2>2
    <2>4. m = v BY <2>3
    <2> QED BY <1>2, <2>4 DEF m
  <1> QED BY <1>1, <1>2

LEMMA NamesGrow ==
  ASSUME NEW n \in 0 .. Latest
  PROVE  TablesUpto(n) \subseteq TablesUpto(Latest) /\ ColumnsUpto(n) \subseteq ColumnsUpto(Latest)
  <1>1. n \in Nat /\ n <= 12 BY DEF Latest
  <1>2. TablesUpto(n) \subseteq TablesUpto(12) BY <1>1 DEF TablesUpto, Since
  <1>3. ColumnsUpto(n) \subseteq ColumnsUpto(12) BY <1>1 DEF ColumnsUpto, Since
  <1> QED BY <1>2, <1>3 DEF Latest

(* Steps that only add tables or columns. *)
LEMMA AddTablesAt ==
  ASSUME NEW v \in 0 .. 11, NEW d, AtVersion(d, v), v + 1 \notin {2, 5, 11},
         NEW e, e \in Databases, e.services = d.services, e.domains = d.domains,
         e.healthy = d.healthy, e.promoted = d.promoted,
         e.tables = TablesUpto(v + 1), e.columns = ColumnsUpto(v + 1)
  PROVE  AtVersion(e, v + 1)
  <1>1. v < 2 /\ v + 1 < 2 => e.services = origin.services BY DEF AtVersion
  <1>2. v + 1 < 2 => v < 2 OBVIOUS
  <1>3. v + 1 >= 2 => v >= 2 OBVIOUS
  <1>4. v + 1 >= 5 => v >= 5 OBVIOUS
  <1>5. v + 1 >= 11 => v >= 11 OBVIOUS
  <1> QED BY <1>1, <1>2, <1>3, <1>4, <1>5 DEF AtVersion

LEMMA AddTablesStep ==
  ASSUME NEW v \in 0 .. 11, NEW d, AtVersion(d, v), v + 1 \notin {2, 5, 11}, NEW ts,
         TablesUpto(v + 1) = TablesUpto(v) \cup ts, ColumnsUpto(v + 1) = ColumnsUpto(v)
  PROVE  AtVersion(AddTables(d, ts), v + 1) /\ AddTables(d, ts).versions = d.versions
  <1> DEFINE e == AddTables(d, ts)
  <1>0. d \in Databases /\ d.tables = TablesUpto(v) /\ d.columns = ColumnsUpto(v) BY DEF AtVersion
  <1>1. TablesUpto(v + 1) \subseteq TablesUpto(Latest) BY NamesGrow DEF Latest
  <1>2. e = [d EXCEPT !.tables = @ \cup ts] BY DEF AddTables
  <1> HIDE DEF e
  <1>3. d.tables \cup ts \in SUBSET TablesUpto(Latest) BY <1>0, <1>1
  <1>4. /\ e \in Databases /\ e.services = d.services /\ e.tables = d.tables \cup ts /\ e.healthy = d.healthy
        /\ e.columns = d.columns /\ e.versions = d.versions /\ e.domains = d.domains
        /\ e.promoted = d.promoted
    BY <1>0, <1>2, <1>3 DEF Databases
  <1>5. AtVersion(e, v + 1) BY <1>0, <1>4, AddTablesAt
  <1> QED BY <1>4, <1>5 DEF e

(* No step finds what it cannot run on, and each leads to the next version. *)
LEMMA StepAt ==
  ASSUME NEW v \in 0 .. 11, NEW d, AtVersion(d, v), Parsed \subseteq Rows,
         origin.services \in UNION {[S -> ServiceRow] : S \in SUBSET Rows}
  PROVE  /\ CanRun(v + 1, d) /\ AtVersion(Step(v + 1, d), v + 1)
         /\ Step(v + 1, d).versions = d.versions
  <1> DEFINE e == Step(v + 1, d)
  <1>0. d \in Databases /\ d.tables = TablesUpto(v) /\ d.columns = ColumnsUpto(v)
    BY DEF AtVersion
  <1>1. CanRun(v + 1, d)
    <2>1. v + 1 = 2 => "services" \in TablesUpto(v) BY DEF TablesUpto, Since
    <2>2. v + 1 = 5 => "services" \in TablesUpto(v) BY DEF TablesUpto, Since
    <2>3. v + 1 = 9 => "deployments" \in TablesUpto(v) BY DEF TablesUpto, Since
    <2>4. v + 1 = 10 => "sessions" \in TablesUpto(v) BY DEF TablesUpto, Since
    <2>5. v + 1 = 11 => "deployments" \in TablesUpto(v) /\ "promoted" \in TablesUpto(v) BY DEF TablesUpto, Since
    <2>6. /\ v + 1 = 9 => "artifact_digest" \notin ColumnsUpto(v)
          /\ v + 1 = 10 => "created_at" \notin ColumnsUpto(v)
      BY DEF ColumnsUpto, Since
    <2> QED BY <1>0, <2>1, <2>2, <2>3, <2>4, <2>5, <2>6 DEF CanRun
  <1>2. CASE v + 1 = 2
    <2>1. v = 1 /\ v + 1 = 2 /\ d.services = origin.services BY <1>2 DEF AtVersion
    <2>2. e = step_2(d) BY <2>1 DEF Step
    <2> DEFINE svcs == [r \in {q \in DOMAIN d.services : d.services[q].json} |->
                          [d.services[r] EXCEPT !.project = TRUE]]
    <2>3. /\ e = [d EXCEPT !.tables = @ \cup {"projects"}, !.services = svcs]
      BY <2>2, <1>0 DEF step_2, AddTables, Databases
    <2>4. PICK S \in SUBSET Rows : d.services \in [S -> ServiceRow] BY <1>0 DEF Databases
    <2>5. /\ DOMAIN svcs = Parsed /\ Parsed \subseteq S
          /\ \A r \in Parsed : svcs[r] \in ServiceRow /\ svcs[r].project /\ svcs[r].json
      <3>1. DOMAIN svcs = Parsed BY <2>1 DEF Parsed
      <3>2. Parsed \subseteq S BY <2>1, <2>4 DEF Parsed
      <3>3. ASSUME NEW r \in Parsed PROVE svcs[r] \in ServiceRow /\ svcs[r].project /\ svcs[r].json
        <4>1. d.services[r] \in ServiceRow /\ d.services[r].json BY <2>1, <2>4, <3>2 DEF Parsed
        <4>2. svcs[r] = [d.services[r] EXCEPT !.project = TRUE] BY <2>1 DEF Parsed
        <4> HIDE DEF svcs
        <4> QED BY <4>1, <4>2 DEF ServiceRow
      <3> QED BY <3>1, <3>2, <3>3
    <2>6. svcs \in [Parsed -> ServiceRow] BY <2>5
    <2> HIDE DEF svcs, e
    <2>7. svcs \in UNION {[T -> ServiceRow] : T \in SUBSET Rows} BY <2>6
    <2>9. TablesUpto(2) = TablesUpto(1) \cup {"projects"} /\ ColumnsUpto(2) = ColumnsUpto(1)
      BY DEF TablesUpto, ColumnsUpto, Since
    <2>11. d.tables \cup {"projects"} \in SUBSET TablesUpto(Latest) BY <2>1, <2>9, <1>0, NamesGrow DEF Latest
    <2>8. /\ e \in Databases /\ e.services = svcs /\ e.tables = d.tables \cup {"projects"}
          /\ e.columns = d.columns /\ e.versions = d.versions
      BY <2>3, <2>7, <2>11, <1>0 DEF Databases
    <2>10. AtVersion(e, 2) BY <2>1, <2>5, <2>6, <2>8, <2>9, <1>0 DEF AtVersion
    <2> QED BY <2>1, <2>8, <2>10, <1>1 DEF e
  <1>3. CASE v + 1 = 5
    <2>1. v = 4 /\ v + 1 = 5 /\ v >= 2 BY <1>3
    <2>2. e = step_5(d) BY <2>1 DEF Step
    <2> DEFINE names == UNION {d.services[r].hosts : r \in {q \in DOMAIN d.services : d.services[q].json}}
    <2>3. e = [d EXCEPT !.tables = @ \cup {"service_domains"}, !.domains = names]
      BY <2>2, <1>0 DEF step_5, AddTables, Databases
    <2>4. PICK S \in SUBSET Rows : d.services \in [S -> ServiceRow] BY <1>0 DEF Databases
    <2>5. \A r \in DOMAIN d.services : d.services[r].project /\ d.services[r].json BY <2>1 DEF AtVersion
    <2>6. \A r \in DOMAIN d.services : d.services[r].hosts \in SUBSET Rows BY <2>4 DEF ServiceRow
    <2>7. names \in SUBSET Rows BY <2>6
    <2>8. \A r \in DOMAIN d.services : d.services[r].hosts \subseteq names BY <2>5
    <2> HIDE DEF names, e
    <2>10. TablesUpto(5) = TablesUpto(4) \cup {"service_domains"} /\ ColumnsUpto(5) = ColumnsUpto(4)
      BY DEF TablesUpto, ColumnsUpto, Since
    <2>12. d.tables \cup {"service_domains"} \in SUBSET TablesUpto(Latest)
      BY <2>1, <2>10, <1>0, NamesGrow DEF Latest
    <2>9. /\ e \in Databases /\ e.services = d.services /\ e.tables = d.tables \cup {"service_domains"}
          /\ e.columns = d.columns /\ e.versions = d.versions /\ e.domains = names
      BY <2>3, <2>7, <2>12, <1>0 DEF Databases
    <2>11. AtVersion(e, 5) BY <2>1, <2>5, <2>8, <2>9, <2>10, <1>0 DEF AtVersion
    <2> QED BY <2>1, <2>9, <2>11, <1>1 DEF e
  <1>4. CASE v + 1 = 11
    <2>1. v = 10 /\ v + 1 = 11 /\ v >= 2 /\ v >= 5 BY <1>4
    <2>2. e = [d EXCEPT !.healthy = @ \cap d.promoted] BY <2>1 DEF Step, step_11
    <2> HIDE DEF e
    <2>3. /\ e \in Databases /\ e.services = d.services /\ e.tables = d.tables
          /\ e.columns = d.columns /\ e.versions = d.versions /\ e.domains = d.domains
          /\ e.promoted = d.promoted /\ e.healthy = d.healthy \cap d.promoted
      BY <2>2, <1>0 DEF Databases
    <2>4. TablesUpto(11) = TablesUpto(10) /\ ColumnsUpto(11) = ColumnsUpto(10)
      BY DEF TablesUpto, ColumnsUpto, Since
    <2>5. AtVersion(e, 11) BY <2>1, <2>3, <2>4, <1>0 DEF AtVersion
    <2> QED BY <2>1, <2>3, <2>5, <1>1 DEF e
  <1>5. CASE v + 1 = 1
    <2> DEFINE ts == {"credentials", "services", "deployments", "artifacts", "promoted"}
    <2>1. e = AddTables(d, ts) BY <1>5 DEF Step, step_1
    <2>2. v = 0 /\ v + 1 = 1 /\ v + 1 \notin {2, 5, 11} BY <1>5
    <2>3. TablesUpto(1) = TablesUpto(0) \cup ts BY DEF TablesUpto, Since
    <2>4. ColumnsUpto(1) = ColumnsUpto(0) BY DEF ColumnsUpto, Since
    <2> HIDE DEF e, ts
    <2>5. TablesUpto(v + 1) = TablesUpto(v) \cup ts /\ ColumnsUpto(v + 1) = ColumnsUpto(v)
      BY <2>2, <2>3, <2>4
    <2>6. AtVersion(e, v + 1) /\ e.versions = d.versions BY <2>1, <2>2, <2>5, AddTablesStep
    <2> QED BY <2>6, <1>1 DEF e
  <1>6. CASE v + 1 = 3
    <2> DEFINE ts == {"users", "sessions", "api_tokens", "project_members"}
    <2>1. e = AddTables(d, ts) BY <1>6 DEF Step, step_3
    <2>2. v = 2 /\ v + 1 = 3 /\ v + 1 \notin {2, 5, 11} BY <1>6
    <2>3. TablesUpto(3) = TablesUpto(2) \cup ts BY DEF TablesUpto, Since
    <2>4. ColumnsUpto(3) = ColumnsUpto(2) BY DEF ColumnsUpto, Since
    <2> HIDE DEF e, ts
    <2>5. TablesUpto(v + 1) = TablesUpto(v) \cup ts /\ ColumnsUpto(v + 1) = ColumnsUpto(v)
      BY <2>2, <2>3, <2>4
    <2>6. AtVersion(e, v + 1) /\ e.versions = d.versions BY <2>1, <2>2, <2>5, AddTablesStep
    <2> QED BY <2>6, <1>1 DEF e
  <1>7. CASE v + 1 = 4
    <2> DEFINE ts == {"jobs", "job_runs"}
    <2>1. e = AddTables(d, ts) BY <1>7 DEF Step, step_4
    <2>2. v = 3 /\ v + 1 = 4 /\ v + 1 \notin {2, 5, 11} BY <1>7
    <2>3. TablesUpto(4) = TablesUpto(3) \cup ts BY DEF TablesUpto, Since
    <2>4. ColumnsUpto(4) = ColumnsUpto(3) BY DEF ColumnsUpto, Since
    <2> HIDE DEF e, ts
    <2>5. TablesUpto(v + 1) = TablesUpto(v) \cup ts /\ ColumnsUpto(v + 1) = ColumnsUpto(v)
      BY <2>2, <2>3, <2>4
    <2>6. AtVersion(e, v + 1) /\ e.versions = d.versions BY <2>1, <2>2, <2>5, AddTablesStep
    <2> QED BY <2>6, <1>1 DEF e
  <1>8. CASE v + 1 = 6
    <2> DEFINE ts == {"registries"}
    <2>1. e = AddTables(d, ts) BY <1>8 DEF Step, step_6
    <2>2. v = 5 /\ v + 1 = 6 /\ v + 1 \notin {2, 5, 11} BY <1>8
    <2>3. TablesUpto(6) = TablesUpto(5) \cup ts BY DEF TablesUpto, Since
    <2>4. ColumnsUpto(6) = ColumnsUpto(5) BY DEF ColumnsUpto, Since
    <2> HIDE DEF e, ts
    <2>5. TablesUpto(v + 1) = TablesUpto(v) \cup ts /\ ColumnsUpto(v + 1) = ColumnsUpto(v)
      BY <2>2, <2>3, <2>4
    <2>6. AtVersion(e, v + 1) /\ e.versions = d.versions BY <2>1, <2>2, <2>5, AddTablesStep
    <2> QED BY <2>6, <1>1 DEF e
  <1>9. CASE v + 1 = 7
    <2> DEFINE ts == {"system_settings"}
    <2>1. e = AddTables(d, ts) BY <1>9 DEF Step, step_7
    <2>2. v = 6 /\ v + 1 = 7 /\ v + 1 \notin {2, 5, 11} BY <1>9
    <2>3. TablesUpto(7) = TablesUpto(6) \cup ts BY DEF TablesUpto, Since
    <2>4. ColumnsUpto(7) = ColumnsUpto(6) BY DEF ColumnsUpto, Since
    <2> HIDE DEF e, ts
    <2>5. TablesUpto(v + 1) = TablesUpto(v) \cup ts /\ ColumnsUpto(v + 1) = ColumnsUpto(v)
      BY <2>2, <2>3, <2>4
    <2>6. AtVersion(e, v + 1) /\ e.versions = d.versions BY <2>1, <2>2, <2>5, AddTablesStep
    <2> QED BY <2>6, <1>1 DEF e
  <1>10. CASE v + 1 = 8
    <2> DEFINE ts == {"autoscale_desired"}
    <2>1. e = AddTables(d, ts) BY <1>10 DEF Step, step_8
    <2>2. v = 7 /\ v + 1 = 8 /\ v + 1 \notin {2, 5, 11} BY <1>10
    <2>3. TablesUpto(8) = TablesUpto(7) \cup ts BY DEF TablesUpto, Since
    <2>4. ColumnsUpto(8) = ColumnsUpto(7) BY DEF ColumnsUpto, Since
    <2> HIDE DEF e, ts
    <2>5. TablesUpto(v + 1) = TablesUpto(v) \cup ts /\ ColumnsUpto(v + 1) = ColumnsUpto(v)
      BY <2>2, <2>3, <2>4
    <2>6. AtVersion(e, v + 1) /\ e.versions = d.versions BY <2>1, <2>2, <2>5, AddTablesStep
    <2> QED BY <2>6, <1>1 DEF e
  <1>11. CASE v + 1 = 12
    <2> DEFINE ts == {"hosted"}
    <2>1. e = AddTables(d, ts) BY <1>11 DEF Step, step_12
    <2>2. v = 11 /\ v + 1 = 12 /\ v + 1 \notin {2, 5, 11} BY <1>11
    <2>3. TablesUpto(12) = TablesUpto(11) \cup ts BY DEF TablesUpto, Since
    <2>4. ColumnsUpto(12) = ColumnsUpto(11) BY DEF ColumnsUpto, Since
    <2> HIDE DEF e, ts
    <2>5. TablesUpto(v + 1) = TablesUpto(v) \cup ts /\ ColumnsUpto(v + 1) = ColumnsUpto(v)
      BY <2>2, <2>3, <2>4
    <2>6. AtVersion(e, v + 1) /\ e.versions = d.versions BY <2>1, <2>2, <2>5, AddTablesStep
    <2> QED BY <2>6, <1>1 DEF e
  <1>12. CASE v + 1 = 9
    <2> DEFINE c == {"artifact_digest"}
    <2>1. e = [d EXCEPT !.columns = @ \cup c] BY <1>12 DEF Step, step_9
    <2>2. v = 8 /\ v + 1 = 9 /\ v + 1 \notin {2, 5, 11} BY <1>12
    <2>3. TablesUpto(9) = TablesUpto(8) BY DEF TablesUpto, Since
    <2>4. ColumnsUpto(9) = ColumnsUpto(8) \cup c BY DEF ColumnsUpto, Since
    <2> HIDE DEF e, c
    <2>5. d.columns \cup c \in SUBSET ColumnsUpto(Latest) BY <2>2, <2>4, <1>0, NamesGrow DEF Latest
    <2>6. /\ e \in Databases /\ e.services = d.services /\ e.tables = d.tables /\ e.healthy = d.healthy
          /\ e.columns = d.columns \cup c /\ e.versions = d.versions /\ e.domains = d.domains
          /\ e.promoted = d.promoted
      BY <2>1, <2>5, <1>0 DEF Databases
    <2>7. e.tables = TablesUpto(v + 1) /\ e.columns = ColumnsUpto(v + 1) BY <2>2, <2>3, <2>4, <2>6, <1>0
    <2>8. AtVersion(e, v + 1) BY <2>2, <2>6, <2>7, AddTablesAt
    <2> QED BY <2>6, <2>8, <1>1 DEF e
  <1>13. CASE v + 1 = 10
    <2> DEFINE c == {"created_at"}
    <2>1. e = [d EXCEPT !.columns = @ \cup c] BY <1>13 DEF Step, step_10
    <2>2. v = 9 /\ v + 1 = 10 /\ v + 1 \notin {2, 5, 11} BY <1>13
    <2>3. TablesUpto(10) = TablesUpto(9) BY DEF TablesUpto, Since
    <2>4. ColumnsUpto(10) = ColumnsUpto(9) \cup c BY DEF ColumnsUpto, Since
    <2> HIDE DEF e, c
    <2>5. d.columns \cup c \in SUBSET ColumnsUpto(Latest) BY <2>2, <2>4, <1>0, NamesGrow DEF Latest
    <2>6. /\ e \in Databases /\ e.services = d.services /\ e.tables = d.tables /\ e.healthy = d.healthy
          /\ e.columns = d.columns \cup c /\ e.versions = d.versions /\ e.domains = d.domains
          /\ e.promoted = d.promoted
      BY <2>1, <2>5, <1>0 DEF Databases
    <2>7. e.tables = TablesUpto(v + 1) /\ e.columns = ColumnsUpto(v + 1) BY <2>2, <2>3, <2>4, <2>6, <1>0
    <2>8. AtVersion(e, v + 1) BY <2>2, <2>6, <2>7, AddTablesAt
    <2> QED BY <2>6, <2>8, <1>1 DEF e
  <1> QED BY <1>2, <1>3, <1>4, <1>5, <1>6, <1>7, <1>8, <1>9, <1>10, <1>11, <1>12, <1>13

OriginOK ==
  /\ Parsed \subseteq Rows
  /\ origin.services \in UNION {[S -> ServiceRow] : S \in SUBSET Rows}

(* Every database that an earlier release left is one at its version.       *)
LEMMA MigrateStart ==
  ASSUME MigrateInit
  PROVE  MigrateInv /\ OriginOK
  <1>1. PICK n \in 0 .. Latest, known \in SUBSET Rows, bad \in SUBSET Rows, one \in BOOLEAN :
       LET svcs == [r \in known |-> [json |-> r \notin bad, project |-> FALSE, hosts |-> {r}]]
           old == IF n = 0 \/ known = {} THEN Upto(n) ELSE Legacy(n, svcs, known) IN
       /\ n >= 2 => bad = {}
       /\ db = [old EXCEPT !.single = one, !.versions =
                  IF n = 0 THEN {} ELSE IF one THEN {n} ELSE {n, n - 1}]
    BY DEF MigrateInit
  <1>2. origin = db /\ boot = "down" BY DEF MigrateInit
  <1> DEFINE svcs == [r \in known |-> [json |-> r \notin bad, project |-> FALSE, hosts |-> {r}]]
             old == IF n = 0 \/ known = {} THEN Upto(n) ELSE Legacy(n, svcs, known)
             vs == IF n = 0 THEN {} ELSE IF one THEN {n} ELSE {n, n - 1}
  <1>3. n >= 2 => bad = {} BY <1>1
  <1>4. db = [old EXCEPT !.single = one, !.versions = vs] BY <1>1
  <1>5. n \in Nat /\ n <= 12 BY DEF Latest
  <1>6. vs \in SUBSET Nat /\ ((vs = {} /\ n = 0) \/ (n \in vs /\ \A y \in vs : y <= n)) BY <1>5
  <1>7. TablesUpto(n) \in SUBSET TablesUpto(Latest) /\ ColumnsUpto(n) \in SUBSET ColumnsUpto(Latest)
    BY NamesGrow
  <1> HIDE DEF vs
  <1>8. CASE n = 0 \/ known = {}
    <2>1. old = [single |-> TRUE, versions |-> {}, tables |-> TablesUpto(n), columns |-> ColumnsUpto(n),
                 services |-> <<>>, domains |-> {}, healthy |-> {}, promoted |-> {}]
      BY <1>8 DEF Upto, Blank
    <2>2. db = [single |-> one, versions |-> vs, tables |-> TablesUpto(n), columns |-> ColumnsUpto(n),
                services |-> <<>>, domains |-> {}, healthy |-> {}, promoted |-> {}]
      <3> HIDE DEF old
      <3> QED BY <2>1, <1>4
    <2>3. <<>> \in [{} -> ServiceRow] /\ DOMAIN <<>> = {} OBVIOUS
    <2>4. <<>> \in UNION {[S -> ServiceRow] : S \in SUBSET Rows} BY <2>3
    <2>5. db \in Databases BY <2>2, <2>4, <1>6, <1>7 DEF Databases
    <2>6. origin.services = <<>> /\ db.services = <<>> /\ db.versions = vs /\ db.healthy = {}
          /\ db.tables = TablesUpto(n) /\ db.columns = ColumnsUpto(n)
      BY <2>2, <1>2
    <2>7. DOMAIN db.services = {} /\ Parsed = {} BY <2>3, <2>6 DEF Parsed
    <2>8. AtVersion(db, n) BY <2>5, <2>6, <2>7 DEF AtVersion
    <2>9. Records(db, n) BY <2>6, <1>6 DEF Records
    <2> QED BY <2>4, <2>6, <2>7, <2>8, <2>9, <1>2 DEF MigrateInv, MigrateAt, OriginOK
  <1>9. CASE ~(n = 0 \/ known = {})
    <2> DEFINE sv == [r \in DOMAIN svcs |-> [svcs[r] EXCEPT !.project = n >= 2]]
               one1 == CHOOSE r \in known : TRUE
               ds == IF n >= 5 THEN UNION {svcs[r].hosts : r \in DOMAIN svcs} ELSE {}
               hs == IF n >= 11 THEN {one1} ELSE known
    <2>1. old = [single |-> TRUE, versions |-> {}, tables |-> TablesUpto(n), columns |-> ColumnsUpto(n),
                 services |-> sv, domains |-> ds, healthy |-> hs, promoted |-> {one1}]
      <3> HIDE DEF svcs, sv, ds, hs, one1
      <3>1. old = Legacy(n, svcs, known) BY <1>9
      <3> QED BY <3>1 DEF Legacy, Upto, Blank, sv, ds, hs, one1
    <2>2. /\ DOMAIN svcs = known
          /\ \A r \in known : svcs[r] = [json |-> r \notin bad, project |-> FALSE, hosts |-> {r}]
      OBVIOUS
    <2>3. /\ DOMAIN sv = known
          /\ \A r \in known : sv[r] = [json |-> r \notin bad, project |-> n >= 2, hosts |-> {r}]
      <3> HIDE DEF svcs
      <3>1. DOMAIN sv = known BY <2>2
      <3>2. ASSUME NEW r \in known PROVE sv[r] = [json |-> r \notin bad, project |-> n >= 2, hosts |-> {r}]
        <4>1. sv[r] = [svcs[r] EXCEPT !.project = n >= 2] BY <2>2
        <4> QED BY <4>1, <2>2
      <3> QED BY <3>1, <3>2
    <2>4. one1 \in known BY <1>9
    <2>5. ds \in SUBSET Rows /\ (n >= 5 => \A r \in known : {r} \subseteq ds)
      <3> HIDE DEF svcs
      <3>1. \A r \in known : svcs[r].hosts = {r} BY <2>2
      <3> QED BY <2>2, <3>1
    <2>6. hs \in SUBSET Rows /\ (n >= 11 => hs \subseteq {one1}) BY <2>4
    <2>7. \A r \in known : /\ sv[r].json = (r \notin bad) /\ sv[r].project = (n >= 2) /\ sv[r].hosts = {r}
                           /\ sv[r] \in ServiceRow
      <3> SUFFICES ASSUME NEW r \in known
                   PROVE  /\ sv[r].json = (r \notin bad) /\ sv[r].project = (n >= 2) /\ sv[r].hosts = {r}
                          /\ sv[r] \in ServiceRow
        OBVIOUS
      <3> DEFINE x == sv[r]
      <3>1. x = [json |-> r \notin bad, project |-> n >= 2, hosts |-> {r}] BY <2>3
      <3>2. (n >= 2) \in BOOLEAN /\ (r \notin bad) \in BOOLEAN /\ {r} \in SUBSET Rows BY <1>5
      <3> HIDE DEF x
      <3>3. /\ x.json = (r \notin bad) /\ x.project = (n >= 2) /\ x.hosts = {r}
            /\ x \in ServiceRow
        BY <3>1, <3>2 DEF ServiceRow
      <3> QED BY <3>3 DEF x
    <2>8. sv = [r \in known |-> sv[r]] BY <2>2
    <2> HIDE DEF sv, ds, hs, one1, svcs
    <2>9. sv \in [known -> ServiceRow] BY <2>7, <2>8
    <2>10. sv \in UNION {[S -> ServiceRow] : S \in SUBSET Rows} BY <2>9
    <2>11. db = [single |-> one, versions |-> vs, tables |-> TablesUpto(n), columns |-> ColumnsUpto(n),
                 services |-> sv, domains |-> ds, healthy |-> hs, promoted |-> {one1}]
      <3> HIDE DEF old
      <3> QED BY <2>1, <1>4
    <2>12. db \in Databases BY <2>4, <2>5, <2>6, <2>10, <2>11, <1>6, <1>7 DEF Databases
    <2>13. /\ origin.services = sv /\ db.services = sv /\ db.versions = vs /\ db.healthy = hs
           /\ db.tables = TablesUpto(n) /\ db.columns = ColumnsUpto(n) /\ db.promoted = {one1}
           /\ db.domains = ds
      BY <2>11, <1>2
    <2>14. Parsed \subseteq known /\ (n >= 2 => Parsed = known)
      BY <2>3, <2>7, <2>13, <1>3 DEF Parsed
    <2>15. AtVersion(db, n)
      <3>1. n >= 2 => /\ DOMAIN db.services = Parsed
                      /\ \A r \in DOMAIN db.services : db.services[r].project /\ db.services[r].json
        BY <2>3, <2>7, <2>13, <2>14, <1>3
      <3>2. n >= 5 => \A r \in DOMAIN db.services : db.services[r].hosts \subseteq db.domains
        BY <2>3, <2>5, <2>7, <2>13
      <3> QED BY <3>1, <3>2, <2>6, <2>12, <2>13 DEF AtVersion
    <2>16. Records(db, n) BY <2>13, <1>6 DEF Records
    <2> QED BY <2>10, <2>13, <2>14, <2>15, <2>16, <1>2 DEF MigrateInv, MigrateAt, OriginOK
  <1> QED BY <1>8, <1>9

LEMMA MigrateStep ==
  ASSUME MigrateInv, OriginOK, [MigrateNext]_migrateVars
  PROVE  MigrateInv' /\ OriginOK'
  <1>1. PICK v \in 0 .. Latest : MigrateAt(v) BY DEF MigrateInv
  <1>2. v \in Nat /\ v <= 12 /\ Latest = 12 BY DEF Latest
  <1>3. Records(db, v) /\ AtVersion(db, v) /\ db \in Databases BY <1>1 DEF MigrateAt, AtVersion
  <1>4. db.versions \in SUBSET Nat BY <1>3 DEF Databases
  <1>5. origin' = origin
    BY DEF MigrateNext, migrate_schema_version_table, run_migrations, BeginStep, Commit, EndMigrations, Kill, migrateVars
  <1>6. OriginOK' BY <1>5 DEF OriginOK, Parsed
  <1>7. \A d, w : AtVersion(d, w)' <=> AtVersion(d, w)
    BY <1>5 DEF AtVersion, Parsed
  <1>8. MigrateInv'
    <2>1. CASE migrate_schema_version_table
      <3>1. /\ boot' = "open"
            /\ db' = IF db.single THEN db
                 ELSE [db EXCEPT !.single = TRUE, !.versions = {IF @ = {} THEN 0 ELSE MaxOf(@)}]
        BY <2>1 DEF migrate_schema_version_table
      <3>2. (IF db.versions = {} THEN 0 ELSE MaxOf(db.versions)) = v BY <1>3, <1>4, VersionRead
      <3>3. CASE db.single
        <4>1. db' = db BY <3>1, <3>3
        <4> QED BY <3>1, <4>1, <1>3, <1>5 DEF MigrateInv, MigrateAt, AtVersion, Parsed, Records
      <3>4. CASE ~db.single
        <4>1. db' = [db EXCEPT !.single = TRUE, !.versions = {v}] BY <3>1, <3>2, <3>4, <1>3 DEF Databases
        <4>2. /\ db' \in Databases /\ db'.versions = {v} /\ db'.tables = db.tables /\ db'.columns = db.columns
              /\ db'.services = db.services /\ db'.domains = db.domains /\ db'.healthy = db.healthy
              /\ db'.promoted = db.promoted
          BY <4>1, <1>2, <1>3 DEF Databases
        <4>3. AtVersion(db', v) BY <4>2, <1>3 DEF AtVersion
        <4>4. AtVersion(db, v)' BY <4>3, <1>5 DEF AtVersion, Parsed
        <4>5. Records(db, v)' BY <4>2, <1>2 DEF Records
        <4> QED BY <3>1, <4>4, <4>5 DEF MigrateInv, MigrateAt
      <3> QED BY <3>3, <3>4
    <2>2. CASE run_migrations
      <3>1. boot' = "step" /\ db' = db /\ schema' = IF db.versions = {} THEN 0 ELSE MaxOf(db.versions)
        BY <2>2 DEF run_migrations
      <3>2. schema' = v BY <3>1, <1>3, <1>4, VersionRead
      <3> QED BY <3>1, <3>2, <1>3, <1>5 DEF MigrateInv, MigrateAt, AtVersion, Parsed, Records
    <2>3. CASE BeginStep
      <3>1. schema = v /\ v < 12 BY <2>3, <1>1, <1>2 DEF BeginStep, MigrateAt
      <3>2. CanRun(v + 1, db) /\ AtVersion(Step(v + 1, db), v + 1) BY <3>1, <1>2, <1>3, StepAt DEF OriginOK
      <3>3. boot' = "write" /\ tx' = Step(v + 1, db) /\ db' = db /\ schema' = schema
        BY <3>1, <3>2, <2>3 DEF BeginStep
      <3>4. AtVersion(tx', v + 1) BY <3>2, <3>3
      <3>5. AtVersion(tx, v + 1)' BY <3>4, <1>5 DEF AtVersion, Parsed
      <3>6. Records(db, v)' /\ AtVersion(db, v)' BY <3>3, <1>3, <1>5 DEF AtVersion, Parsed, Records
      <3> QED BY <3>1, <3>3, <3>5, <3>6, <1>2 DEF MigrateInv, MigrateAt
    <2>4. CASE Commit
      <3>1. schema = v /\ v < 12 /\ AtVersion(tx, v + 1) /\ tx \in Databases
        BY <2>4, <1>1, <1>2 DEF Commit, MigrateAt, AtVersion
      <3>2. boot' = "step" /\ schema' = v + 1 /\ db' = [tx EXCEPT !.versions = {v + 1}]
        BY <2>4, <3>1 DEF Commit
      <3>3. /\ db' \in Databases /\ db'.versions = {v + 1} /\ db'.tables = tx.tables /\ db'.columns = tx.columns
            /\ db'.services = tx.services /\ db'.domains = tx.domains /\ db'.healthy = tx.healthy
            /\ db'.promoted = tx.promoted
        BY <3>1, <3>2, <1>2 DEF Databases
      <3>4. AtVersion(db', v + 1) BY <3>3, <3>1 DEF AtVersion
      <3>5. AtVersion(db, v + 1)' BY <3>4, <1>5 DEF AtVersion, Parsed
      <3>6. Records(db, v + 1)' BY <3>3, <1>2 DEF Records
      <3>7. v + 1 \in 0 .. Latest BY <3>1, <1>2
      <3> QED BY <3>2, <3>5, <3>6, <3>7 DEF MigrateInv, MigrateAt
    <2>5. CASE EndMigrations
      <3>1. boot' = "up" /\ db' = db /\ schema' = schema /\ schema = v /\ schema = Latest
        BY <2>5, <1>1 DEF EndMigrations, MigrateAt
      <3> QED BY <3>1, <1>3, <1>5 DEF MigrateInv, MigrateAt, AtVersion, Parsed, Records
    <2>6. CASE Kill
      <3>1. boot' = "down" /\ db' = db BY <2>6 DEF Kill
      <3> QED BY <3>1, <1>3, <1>5 DEF MigrateInv, MigrateAt, AtVersion, Parsed, Records
    <2>7. CASE UNCHANGED migrateVars
      <3>1. boot' = boot /\ db' = db /\ tx' = tx /\ schema' = schema BY <2>7 DEF migrateVars
      <3> QED BY <3>1, <1>1, <1>5 DEF MigrateInv, MigrateAt, AtVersion, Parsed, Records
    <2> QED BY <2>1, <2>2, <2>3, <2>4, <2>5, <2>6, <2>7 DEF MigrateNext
  <1> QED BY <1>6, <1>8

(* An upgrade from any earlier version, cut short any number of times and   *)
(* anywhere, never meets a step it cannot run and loses nothing, whatever   *)
(* services the database holds.                                             *)
THEOREM UpgradeAlwaysKeepsData == MigrateSpec => []UpgradeKeepsData
  <1>1. MigrateInit => MigrateInv /\ OriginOK BY MigrateStart
  <1>2. MigrateInv /\ OriginOK /\ [MigrateNext]_migrateVars => MigrateInv' /\ OriginOK' BY MigrateStep
  <1>3. MigrateInv => UpgradeKeepsData
    <2> SUFFICES ASSUME MigrateInv PROVE UpgradeKeepsData OBVIOUS
    <2>1. PICK v \in 0 .. Latest : MigrateAt(v) BY DEF MigrateInv
    <2>2. boot # "failed" BY DEF MigrateInv
    <2>3. ASSUME boot = "up" PROVE AtVersion(db, 12) BY <2>1, <2>3 DEF MigrateAt, Latest
    <2> QED BY <2>2, <2>3 DEF UpgradeKeepsData, AtVersion, Latest, Parsed
  <1> QED BY <1>1, <1>2, <1>3, PTL DEF MigrateSpec

=============================================================================
