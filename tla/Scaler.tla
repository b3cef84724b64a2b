------------------------------- MODULE Scaler -------------------------------
(***************************************************************************)
(* The pure decision functions of src/autoscale/scaler.rs: how many        *)
(* replicas a sample of the fleet's load asks for.  The same operators     *)
(* drive ScalerLoop (the cooldown over time) and Autoscaler (the whole     *)
(* controller).  A target of 0 stands for a target that is not set:        *)
(* AutoscalePolicy::validate only admits targets in 1..100.                *)
(***************************************************************************)
EXTENDS Integers

MaxOf(a, b) == IF a >= b THEN a ELSE b
MinOf(a, b) == IF a <= b THEN a ELSE b

(* a.div_ceil(b.max(1)) *)
ceil_div(a, b) == LET d == MaxOf(b, 1) IN (a + d - 1) \div d

(* Largest of the CPU-driven and the memory-driven demand, never below the *)
(* current count; memory counts only when a memory target is set.          *)
desired_up(current, cpu, targetCpu, mem, targetMem) ==
  MaxOf(current,
        MaxOf(ceil_div(current * cpu, targetCpu),
              IF targetMem = 0 THEN 0 ELSE ceil_div(current * mem, targetMem)))

(* Scale-down looks at CPU only. *)
desired_down(current, cpu, targetCpu) == ceil_div(current * cpu, targetCpu)

(* desired.clamp(min.max(1), max): the loop never goes below one replica. *)
clamp_loop_NoFloor(desired, min, max) == MinOf(MaxOf(desired, min), max)
clamp_loop(desired, min, max) == MinOf(MaxOf(desired, MaxOf(min, 1)), max)

(* AutoscalePolicy::validate *)
ValidPolicy(p) ==
  /\ p.max \in Nat \ {0}
  /\ p.min \in 0 .. p.max
  /\ p.targetCpu \in 1 .. 100
  /\ p.targetMem \in 0 .. 100
  /\ p.cooldown \in Nat /\ p.idle \in Nat /\ p.idle >= p.cooldown
=============================================================================
