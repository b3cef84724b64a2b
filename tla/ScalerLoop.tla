----------------------------- MODULE ScalerLoop -----------------------------
(***************************************************************************)
(* One service of the autoscaler's control loop over time, while it has    *)
(* live replicas: each tick samples the fleet, sizes it, and may shrink it *)
(* only when CooldownState::scale_down_allowed says so.  Launches and      *)
(* drains succeed here (Autoscaler models their failures); what is kept is *)
(* the clock, the count and the cooldown timer.                            *)
(***************************************************************************)
EXTENDS Scaler

CONSTANTS
  Policy,      \* [min, max, targetCpu, targetMem, cooldown, idle]
  CpuSamples,  \* average CPU percentages a tick can read
  MemSamples,  \* average memory percentages a tick can read
  Gaps,        \* seconds that can pass between two ticks
  MaxTime      \* bound on the clock

ASSUME PolicyAssumption == ValidPolicy(Policy)
ASSUME SamplesAssumption ==
  /\ CpuSamples \subseteq Nat
  /\ MemSamples \subseteq Nat
  /\ Gaps \subseteq Nat
  /\ MaxTime \in Nat

Never == -1

VARIABLES
  now,          \* the tick's now_s
  count,        \* registry.replica_count
  below_since,  \* CooldownState.below_since, Never for None
  sample,       \* the last tick: what it read and what it decided
  lastUp,       \* history: last tick whose sample asked for more replicas
  coldSince     \* history: start of the current unbroken run of samples below
                \* the CPU target
vars == <<now, count, below_since, sample, lastUp, coldSince>>

Init ==
  /\ now = 0
  /\ count \in MaxOf(Policy.min, 1) .. Policy.max
  /\ below_since = Never
  /\ sample = [cpu |-> 0, mem |-> 0, from |-> count, to |-> count]
  /\ lastUp = Never
  /\ coldSince = Never

Up(cpu, mem) ==
  desired_up(count, cpu, Policy.targetCpu, mem, Policy.targetMem)
Down(cpu) == desired_down(count, cpu, Policy.targetCpu)

(* CooldownState::scale_down_allowed: the first call only starts the timer. *)
scale_down_allowed(t) ==
  below_since # Never /\ t - below_since >= Policy.cooldown

Resize(target) == clamp_loop(target, Policy.min, Policy.max)

(* The history variables of a tick at time t. *)
Observe(t, cpu, mem, to) ==
  /\ now' = t
  /\ count' = to
  /\ sample' = [cpu |-> cpu, mem |-> mem, from |-> count, to |-> to]
  /\ coldSince' = IF cpu >= Policy.targetCpu THEN Never
                  ELSE IF coldSince = Never THEN t ELSE coldSince

(* up > start: the timer is cancelled and the fleet grows. *)
ScaleUp_KeepTimer(t, cpu, mem) ==
  /\ Up(cpu, mem) > count
  /\ UNCHANGED below_since
  /\ lastUp' = t
  /\ Observe(t, cpu, mem, Resize(Up(cpu, mem)))
ScaleUp(t, cpu, mem) ==
  /\ Up(cpu, mem) > count
  /\ below_since' = Never
  /\ lastUp' = t
  /\ Observe(t, cpu, mem, Resize(Up(cpu, mem)))

(* down < start: shrink when the timer has run out, else start it. *)
ScaleDown(t, cpu, mem) ==
  /\ Up(cpu, mem) <= count
  /\ Down(cpu) < count
  /\ below_since' = IF below_since = Never THEN t ELSE below_since
  /\ Observe(t, cpu, mem,
             IF scale_down_allowed(t) THEN Resize(Down(cpu)) ELSE count)
  /\ UNCHANGED lastUp

(* Neither: the count holds and the timer is left as it is. *)
Hold(t, cpu, mem) ==
  /\ Up(cpu, mem) <= count
  /\ Down(cpu) >= count
  /\ Observe(t, cpu, mem, count)
  /\ UNCHANGED <<below_since, lastUp>>

Next ==
  \E gap \in Gaps, cpu \in CpuSamples, mem \in MemSamples :
    /\ now + gap <= MaxTime
    /\ \/ ScaleUp(now + gap, cpu, mem)
       \/ ScaleDown(now + gap, cpu, mem)
       \/ Hold(now + gap, cpu, mem)

Spec == Init /\ [][Next]_vars

-----------------------------------------------------------------------------
(* The fleet the loop leaves stays inside the policy's band, and never at  *)
(* zero: the 1 -> 0 transition is not the loop's (scaler.rs clamp_loop).   *)
CountInBand ==
  /\ now \in 0 .. MaxTime
  /\ below_since \in {Never} \cup 0 .. now
  /\ count \in MaxOf(Policy.min, 1) .. Policy.max

Serves(n, load, target) == target = 0 \/ n * target >= load

(* The size a tick chooses carries the load it sampled, or is the maximum; *)
(* and when the tick changed the size, one replica fewer would not do (or  *)
(* is below the floor): desired_up / desired_down are exact ceilings.      *)
SizeFitsLoad ==
  LET cpuLoad == sample.from * sample.cpu
      memLoad == sample.from * sample.mem
      fits(n) == Serves(n, cpuLoad, Policy.targetCpu)
      all(n)  == fits(n) /\ Serves(n, memLoad, Policy.targetMem)
  IN /\ sample.to >= sample.from => all(sample.to) \/ sample.to = Policy.max
     /\ sample.to > sample.from => ~all(sample.to - 1)
     /\ sample.to < sample.from =>
          /\ fits(sample.to)
          /\ ~fits(sample.to - 1) \/ sample.to = MaxOf(Policy.min, 1)

(* Anti-flap (ADR-018): the fleet shrinks only once the whole cooldown has *)
(* passed since the last sample that asked for more replicas.              *)
NoFlap ==
  [][count' < count => lastUp = Never \/ now' - lastUp >= Policy.cooldown]_vars

(* What the comment of scale_down_allowed says: a scale-down needs the     *)
(* metric to have been continuously below target for the cooldown.         *)
ContinuouslyBelow ==
  [][count' < count =>
       coldSince # Never /\ now' - coldSince >= Policy.cooldown]_vars
=============================================================================
