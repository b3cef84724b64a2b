------------------------------- MODULE Launch -------------------------------
(***************************************************************************)
(* What spawn_namespaced_process (src/syscall/ns.rs) promises its callers  *)
(* in src/runtime/linux.rs, which clean a launch up after an error and     *)
(* track it after a success: the workload starts only once it is confined, *)
(* success is reported only of a workload that got to run or was killed,   *)
(* and after a failure nothing of the launch starts any more, except after *)
(* a "late" one, the timeout of the last wait, which promises nothing.     *)
(***************************************************************************)
CONSTANT Launches

VARIABLES
  confined,   \* launches whose cgroup and id maps are in place
  workload,   \* "none", "running", "failed" (reported its setup) or "gone"
  result      \* "none", "ok", "err" or "late"

vars == <<confined, workload, result>>

Init ==
  /\ confined = {}
  /\ workload = [l \in Launches |-> "none"]
  /\ result = [l \in Launches |-> "none"]

Confine(l) ==
  /\ result[l] = "none" /\ workload[l] # "running"
  /\ confined' = confined \cup {l}
  /\ UNCHANGED <<workload, result>>

Start(l) ==
  /\ l \in confined /\ workload[l] = "none"
  /\ result[l] \in {"none", "late"}
  /\ workload' = [workload EXCEPT ![l] = "running"]
  /\ UNCHANGED <<confined, result>>

Fail(l) ==
  /\ workload[l] = "none"
  /\ workload' = [workload EXCEPT ![l] = "failed"]
  /\ UNCHANGED <<confined, result>>

(* The workload exits, or is killed before or after it started. *)
End(l) ==
  /\ workload[l] \in {"none", "running"}
  /\ workload' = [workload EXCEPT ![l] = "gone"]
  /\ UNCHANGED <<confined, result>>

ReturnOk(l) ==
  /\ result[l] = "none" /\ workload[l] \in {"running", "gone"}
  /\ result' = [result EXCEPT ![l] = "ok"]
  /\ UNCHANGED <<confined, workload>>

ReturnErr(l) ==
  /\ result[l] = "none" /\ workload[l] # "running"
  /\ result' = [result EXCEPT ![l] = "err"]
  /\ workload' = [workload EXCEPT ![l] = IF @ = "none" THEN "gone" ELSE @]
  /\ UNCHANGED confined

ReturnLate(l) ==
  /\ result[l] = "none"
  /\ result' = [result EXCEPT ![l] = "late"]
  /\ \E w \in {workload[l], "gone"} :
       /\ workload[l] = "none" \/ w = workload[l]
       /\ workload' = [workload EXCEPT ![l] = w]
  /\ UNCHANGED confined

Next ==
  \E l \in Launches :
    \/ Confine(l) \/ Start(l) \/ Fail(l) \/ End(l)
    \/ ReturnOk(l) \/ ReturnErr(l) \/ ReturnLate(l)

Spec == Init /\ [][Next]_vars
=============================================================================
