---------------------------- MODULE TrafficProofs ---------------------------
(* What the size of a fleet, the turns of its replicas, the cold start of a *)
(* service and the pushes to it guarantee, for every policy, load and       *)
(* clock, and any number of replicas, requests, retries and people.         *)
EXTENDS ScalerLoop, Activation, ServicePool, Push, FiniteSetTheorems, WellFoundedInduction, TLAPS

(* The loop-side clamp always lands in the policy's band, whatever the load *)
(* asks for, and never at zero (clamp_loop in scaler.rs).                   *)
LEMMA ClampInBand ==
  ASSUME NEW d \in Int, NEW min \in Nat, NEW max \in Nat, max >= 1, min <= max
  PROVE  clamp_loop(d, min, max) \in MaxOf(min, 1) .. max
BY DEF clamp_loop, MaxOf, MinOf

(* Every size the controller picks for a valid policy is an integer. *)
LEMMA CeilDivInt ==
  ASSUME NEW a \in Nat, NEW b \in Nat
  PROVE  ceil_div(a, b) \in Int
BY DEF ceil_div, MaxOf

(* The fields of a valid policy have the types the arithmetic needs. *)
LEMMA PolicyTypes ==
  /\ Policy.min \in Nat /\ Policy.max \in Nat
  /\ Policy.max >= 1 /\ Policy.min <= Policy.max
  /\ Policy.targetCpu \in Nat /\ Policy.targetMem \in Nat
BY PolicyAssumption DEF ValidPolicy

(* The fleet size the control loop leaves is always within the policy's    *)
(* band and at least one, and the cooldown timer never lies in the future. *)
THEOREM CountAlwaysInBand == Spec => []CountInBand
<1>1. Init => CountInBand
  BY PolicyTypes, SamplesAssumption DEF Init, CountInBand, MaxOf, Never
<1>2. CountInBand /\ [Next]_vars => CountInBand'
  <2> SUFFICES ASSUME CountInBand, [Next]_vars PROVE CountInBand'
    OBVIOUS
  <2>1. CASE UNCHANGED vars
    BY <2>1 DEF vars, CountInBand
  <2>2. CASE Next
    <3>1. PICK gap \in Gaps, cpu \in CpuSamples, mem \in MemSamples :
             /\ now + gap <= MaxTime
             /\ \/ ScaleUp(now + gap, cpu, mem)
                \/ ScaleDown(now + gap, cpu, mem)
                \/ Hold(now + gap, cpu, mem)
      BY <2>2 DEF Next
    <3> DEFINE t == now + gap
    <3>2. /\ t \in 0 .. MaxTime /\ now <= t /\ cpu \in Nat /\ mem \in Nat
          /\ count \in Nat
      BY <3>1, SamplesAssumption, PolicyTypes DEF CountInBand, MaxOf
    <3>3. count * cpu \in Nat /\ count * mem \in Nat
      BY <3>2
    <3>4. Up(cpu, mem) \in Int /\ Down(cpu) \in Int
      BY <3>2, <3>3, PolicyTypes, CeilDivInt
         DEF Up, Down, desired_up, desired_down, MaxOf
    <3>5. /\ Resize(Up(cpu, mem)) \in MaxOf(Policy.min, 1) .. Policy.max
          /\ Resize(Down(cpu)) \in MaxOf(Policy.min, 1) .. Policy.max
      BY <3>4, PolicyTypes, ClampInBand DEF Resize
    <3>6. CASE ScaleUp(t, cpu, mem)
      BY <3>2, <3>5, <3>6 DEF ScaleUp, Observe, CountInBand, Never
    <3>7. CASE ScaleDown(t, cpu, mem)
      BY <3>2, <3>5, <3>7 DEF ScaleDown, Observe, CountInBand, Never
    <3>8. CASE Hold(t, cpu, mem)
      BY <3>2, <3>8 DEF Hold, Observe, CountInBand, Never
    <3> QED
      BY <3>1, <3>6, <3>7, <3>8
  <2> QED
    BY <2>1, <2>2
<1> QED
  BY <1>1, <1>2, PTL DEF Spec

(* Integer division, as two bounds on the product. *)
LEMMA DivBounds ==
  ASSUME NEW a \in Int, NEW b \in Int, b > 0
  PROVE  b * (a \div b) <= a /\ a < b * (a \div b) + b
  BY SMT

(* Multiplying by a count keeps the order. *)
LEMMA MulMono ==
  ASSUME NEW m \in Int, NEW n \in Int, NEW b \in Nat, m <= n
  PROVE  m * b <= n * b
  <1>1. (n - m) * b >= 0 OBVIOUS
  <1>2. (n - m) * b = n * b - m * b OBVIOUS
  <1> QED BY <1>1, <1>2

(* ceil_div is the exact ceiling: the sizes at or above it are those whose *)
(* capacity covers the load (a.div_ceil(b) in scaler.rs).                  *)
LEMMA CeilExact ==
  ASSUME NEW a \in Nat, NEW b \in Nat \ {0}, NEW n \in Int
  PROVE  /\ ceil_div(a, b) \in Int
         /\ n >= ceil_div(a, b) <=> n * b >= a
  <1> DEFINE q == (a + b - 1) \div b
  <1>0. ceil_div(a, b) = q BY DEF ceil_div, MaxOf
  <1>1. a + b - 1 \in Int /\ b \in Int /\ b > 0 OBVIOUS
  <1>2. q \in Int /\ b * q <= a + b - 1 /\ a + b - 1 < b * q + b BY <1>1, DivBounds
  <1> HIDE DEF q
  <1>3. b * q = q * b BY <1>2
  <1>4. n >= q => n * b >= a
    <2> SUFFICES ASSUME n >= q PROVE n * b >= a OBVIOUS
    <2>1. q * b <= n * b BY <1>2, MulMono
    <2> QED BY <1>2, <1>3, <2>1
  <1>5. n < q => n * b < a
    <2> SUFFICES ASSUME n < q PROVE n * b < a OBVIOUS
    <2>1. (n + 1) * b <= q * b BY <1>2, MulMono
    <2>2. (n + 1) * b = n * b + b OBVIOUS
    <2> QED BY <1>2, <1>3, <2>1, <2>2
  <1>6. n * b \in Int OBVIOUS
  <1> QED BY <1>0, <1>2, <1>4, <1>5, <1>6

(* The inductive invariant behind NoFlap: a running cooldown timer was     *)
(* started no earlier than the last sample that asked for more replicas.   *)
TickInv ==
  /\ CountInBand
  /\ lastUp \in {Never} \cup 0 .. now
  /\ below_since # Never /\ lastUp # Never => lastUp <= below_since

(* What a tick computes from a fleet inside its band: the clamp binds a     *)
(* growing fleet only at the maximum, a shrinking one only at the floor.    *)
LEMMA TickFacts ==
  ASSUME CountInBand, NEW gap \in Gaps, NEW cpu \in CpuSamples, NEW mem \in MemSamples
  PROVE  /\ now + gap \in Nat /\ now <= now + gap /\ now \in Nat
         /\ count \in Nat /\ MaxOf(Policy.min, 1) <= count /\ count <= Policy.max
         /\ count * cpu \in Nat /\ count * mem \in Nat
         /\ Up(cpu, mem) \in Int /\ Down(cpu) \in Int
         /\ Up(cpu, mem) >= count => Resize(Up(cpu, mem)) = MinOf(Up(cpu, mem), Policy.max)
         /\ Down(cpu) < count => Resize(Down(cpu)) = MaxOf(Down(cpu), MaxOf(Policy.min, 1))
  <1>1. /\ now + gap \in Nat /\ now <= now + gap /\ now \in Nat /\ cpu \in Nat /\ mem \in Nat
        /\ count \in Nat /\ MaxOf(Policy.min, 1) <= count /\ count <= Policy.max
    BY SamplesAssumption, PolicyTypes DEF CountInBand, MaxOf
  <1>2. count * cpu \in Nat /\ count * mem \in Nat BY <1>1
  <1>3. Up(cpu, mem) \in Int /\ Down(cpu) \in Int
    BY <1>1, <1>2, PolicyTypes, CeilDivInt DEF Up, Down, desired_up, desired_down, MaxOf
  <1>4. Up(cpu, mem) >= count => Resize(Up(cpu, mem)) = MinOf(Up(cpu, mem), Policy.max)
    BY <1>1, <1>3, PolicyTypes DEF Resize, clamp_loop, MaxOf, MinOf
  <1>5. Down(cpu) < count => Resize(Down(cpu)) = MaxOf(Down(cpu), MaxOf(Policy.min, 1))
    BY <1>1, <1>3, PolicyTypes DEF Resize, clamp_loop, MaxOf, MinOf
  <1> QED BY <1>1, <1>2, <1>3, <1>4, <1>5

(* A tick preserves it, and shrinks the fleet only after the cooldown. *)
LEMMA TickStep ==
  ASSUME TickInv, CountInBand', NEW gap \in Gaps, NEW cpu \in CpuSamples, NEW mem \in MemSamples,
         \/ ScaleUp(now + gap, cpu, mem)
         \/ ScaleDown(now + gap, cpu, mem)
         \/ Hold(now + gap, cpu, mem)
  PROVE  /\ TickInv'
         /\ count' < count => lastUp = Never \/ now' - lastUp >= Policy.cooldown
  <1>0. CountInBand /\ Policy.cooldown \in Nat BY PolicyAssumption DEF TickInv, ValidPolicy
  <1>1. CASE ScaleUp(now + gap, cpu, mem)
    <2>1. count' >= count
      BY <1>1, <1>0, TickFacts, PolicyTypes DEF ScaleUp, Observe, MinOf
    <2> QED BY <1>0, <1>1, <2>1, TickFacts DEF ScaleUp, Observe, TickInv, CountInBand, Never
  <1>2. CASE ScaleDown(now + gap, cpu, mem)
    BY <1>0, <1>2, TickFacts DEF ScaleDown, Observe, TickInv, CountInBand, Never,
       scale_down_allowed
  <1>3. CASE Hold(now + gap, cpu, mem)
    BY <1>0, <1>3, TickFacts DEF Hold, Observe, TickInv, CountInBand, Never
  <1> QED BY <1>1, <1>2, <1>3

(* Anti-flap, for every policy, load and spacing of ticks: the fleet       *)
(* shrinks only once the cooldown has passed since it last had to grow.    *)
THEOREM NeverFlaps == Spec => NoFlap
  <1>1. Init => TickInv
    BY PolicyTypes, SamplesAssumption DEF Init, TickInv, CountInBand, MaxOf, Never
  <1>2. CountInBand' /\ TickInv /\ [Next]_vars =>
          /\ TickInv'
          /\ [count' < count => lastUp = Never \/ now' - lastUp >= Policy.cooldown]_vars
    <2> SUFFICES ASSUME CountInBand', TickInv, [Next]_vars
                 PROVE  /\ TickInv'
                        /\ \/ UNCHANGED vars
                           \/ count' < count =>
                                lastUp = Never \/ now' - lastUp >= Policy.cooldown
      OBVIOUS
    <2>1. CASE UNCHANGED vars BY <2>1 DEF vars, TickInv, CountInBand
    <2>2. CASE Next BY <2>2, TickStep DEF Next
    <2> QED BY <2>1, <2>2
  <1> QED BY <1>1, <1>2, CountAlwaysInBand, PTL DEF Spec, NoFlap

(* The ceiling decides which sizes serve a load. *)
LEMMA ServesExact ==
  ASSUME NEW load \in Nat, NEW target \in Nat \ {0}
  PROVE  /\ ceil_div(load, target) \in Int
         /\ \A n \in Int : n >= ceil_div(load, target) <=> Serves(n, load, target)
  <1>1. ceil_div(load, target) \in Int BY CeilDivInt
  <1>2. ASSUME NEW n \in Int
        PROVE  n >= ceil_div(load, target) <=> Serves(n, load, target)
    <2>1. n >= ceil_div(load, target) <=> n * target >= load BY CeilExact
    <2> QED BY <2>1 DEF Serves
  <1> QED BY <1>1, <1>2

(* The size a tick leaves fits the load it sampled. *)
LEMMA SizeStep ==
  ASSUME CountInBand, NEW gap \in Gaps, NEW cpu \in CpuSamples, NEW mem \in MemSamples,
         \/ ScaleUp(now + gap, cpu, mem)
         \/ ScaleDown(now + gap, cpu, mem)
         \/ Hold(now + gap, cpu, mem)
  PROVE  SizeFitsLoad'
  <1> DEFINE cc == ceil_div(count * cpu, Policy.targetCpu)
             mm == ceil_div(count * mem, Policy.targetMem)
             to == count'
  <1>1. /\ count \in Nat /\ MaxOf(Policy.min, 1) <= count /\ count <= Policy.max
        /\ count * cpu \in Nat /\ count * mem \in Nat
        /\ Up(cpu, mem) >= count => Resize(Up(cpu, mem)) = MinOf(Up(cpu, mem), Policy.max)
        /\ Down(cpu) < count => Resize(Down(cpu)) = MaxOf(Down(cpu), MaxOf(Policy.min, 1))
    BY TickFacts
  <1>2. /\ Policy.targetCpu \in Nat \ {0} /\ Policy.targetMem \in Nat
        /\ Policy.max \in Nat /\ Policy.min \in Nat
    BY PolicyAssumption DEF ValidPolicy
  <1>3. /\ cc \in Int
        /\ \A n \in Int : n >= cc <=> Serves(n, count * cpu, Policy.targetCpu)
    BY <1>1, <1>2, ServesExact
  <1>4. Policy.targetMem # 0 =>
          /\ mm \in Int
          /\ \A n \in Int : n >= mm <=> Serves(n, count * mem, Policy.targetMem)
    BY <1>1, <1>2, ServesExact
  <1>5. Policy.targetMem = 0 => \A n \in Int : Serves(n, count * mem, Policy.targetMem)
    BY DEF Serves
  <1>6. Down(cpu) = cc BY DEF Down, desired_down
  <1>7. Up(cpu, mem) = MaxOf(count, MaxOf(cc, IF Policy.targetMem = 0 THEN 0 ELSE mm))
    BY DEF Up, desired_up
  <1>8. sample' = [cpu |-> cpu, mem |-> mem, from |-> count, to |-> to]
    BY DEF ScaleUp, ScaleDown, Hold, Observe
  <1>9. \/ Up(cpu, mem) > count /\ to = MinOf(Up(cpu, mem), Policy.max)
        \/ Up(cpu, mem) <= count /\ to = count
        \/ Up(cpu, mem) <= count /\ cc < count /\ to = MaxOf(cc, MaxOf(Policy.min, 1))
    BY <1>1, <1>3, <1>4, <1>6, <1>7 DEF ScaleUp, ScaleDown, Hold, Observe, MaxOf
  <1> DEFINE fits(n) == Serves(n, count * cpu, Policy.targetCpu)
             all(n) == fits(n) /\ Serves(n, count * mem, Policy.targetMem)
  <1>10. /\ to >= count => all(to) \/ to = Policy.max
         /\ to > count => ~all(to - 1)
         /\ to < count => fits(to) /\ (~fits(to - 1) \/ to = MaxOf(Policy.min, 1))
    <2> HIDE DEF cc, mm, to
    <2>1. to \in Int /\ to - 1 \in Int
      BY <1>1, <1>2, <1>3, <1>4, <1>7, <1>9 DEF MaxOf, MinOf
    <2>2. CASE Policy.targetMem = 0
      BY <1>1, <1>2, <1>3, <1>5, <1>7, <1>9, <2>1, <2>2 DEF MaxOf, MinOf
    <2>3. CASE Policy.targetMem # 0
      BY <1>1, <1>2, <1>3, <1>4, <1>7, <1>9, <2>1, <2>3 DEF MaxOf, MinOf
    <2> QED BY <2>2, <2>3
  <1> QED BY <1>8, <1>10 DEF SizeFitsLoad, Serves

(* For every policy and load, the size the loop chooses carries the load   *)
(* it sampled or is the maximum, and is the least that does when it moved  *)
(* (desired_up, desired_down, clamp_loop).                                 *)
THEOREM SizeAlwaysFits == Spec => []SizeFitsLoad
  <1>1. Init => SizeFitsLoad
    <2> SUFFICES ASSUME Init PROVE SizeFitsLoad OBVIOUS
    <2>1. /\ count \in Nat
          /\ sample = [cpu |-> 0, mem |-> 0, from |-> count, to |-> count]
      BY PolicyTypes DEF Init, MaxOf
    <2>2. count * 0 = 0 /\ count * Policy.targetCpu >= 0 /\ count * Policy.targetMem >= 0
      BY <2>1, PolicyTypes
    <2> QED BY <2>1, <2>2 DEF SizeFitsLoad, Serves
  <1>2. CountInBand /\ SizeFitsLoad /\ [Next]_vars => SizeFitsLoad'
    <2> SUFFICES ASSUME CountInBand, SizeFitsLoad, [Next]_vars PROVE SizeFitsLoad'
      OBVIOUS
    <2>1. CASE UNCHANGED vars BY <2>1 DEF vars, SizeFitsLoad
    <2>2. CASE Next BY <2>2, SizeStep DEF Next
    <2> QED BY <2>1, <2>2
  <1> QED BY <1>1, <1>2, CountAlwaysInBand, PTL DEF Spec

-----------------------------------------------------------------------------
(* SingleFlight with the types is inductive. *)
FlightInv == TypeOK /\ SingleFlight

(* The variables of the requests and the gate keep their types when one    *)
(* returns, holding the gate or not ...                                    *)
RequestTypes ==
  /\ gate \in Seq(Requests)
  /\ phase \in [Requests -> Phases]
  /\ tries \in [Requests -> 0 .. Retries - 1]
  /\ answer \in [Requests -> Answers]
LEMMA AnswerTypes ==
  ASSUME RequestTypes, NEW r \in Requests, NEW a \in Answers, Answer(r, a),
         phase[r] \in InGate \cup {"gate"} => gate # <<>>
  PROVE  RequestTypes'
  <1> USE DEF RequestTypes, Answer
  <1>1. gate' \in Seq(Requests) OBVIOUS
  <1>2. phase' \in [Requests -> Phases] BY DEF Phases
  <1>3. tries' \in [Requests -> 0 .. Retries - 1] BY ActivationAssumption
  <1>4. answer' \in [Requests -> Answers] OBVIOUS
  <1> QED BY <1>1, <1>2, <1>3, <1>4

(* ... and when one moves on. *)
LEMMA MoveTypes ==
  ASSUME RequestTypes, NEW r \in Requests, NEW p \in Phases, Goto(r, p), Stay
  PROVE  RequestTypes'
  BY DEF RequestTypes, Goto, Stay

(* A request's own steps preserve the invariant. *)
LEMMA RequestInv ==
  ASSUME FlightInv, NEW r \in Requests,
         Arrive(r) \/ Resolve(r) \/ Activate(r) \/ Launched(r) \/ Timeout(r)
  PROVE  FlightInv'
  <1>0. TypeOK /\ SingleFlight /\ RequestTypes
    BY DEF FlightInv, TypeOK, RequestTypes
  <1>10. /\ {"socket", "unavailable", "backoff", "failed"} \subseteq Answers
        /\ {"fast", "backoff", "gate", "recheck", "hook", "launch", "poll"} \subseteq Phases
    BY DEF Answers, Phases, InGate
  <1> SUFFICES TypeOK' /\ SingleFlight' BY DEF FlightInv
  <1> USE <1>0, <1>10
  <1>1. CASE Arrive(r)
    <2>1. RequestTypes'
      BY <1>1, ActivationAssumption DEF Arrive, SingleFlight, InGate, RequestTypes, Goto, Phases,
         Answers
    <2>2. TypeOK' BY <1>1, <2>1, ActivationAssumption DEF Arrive, TypeOK, RequestTypes
    <2>3. SingleFlight'
      BY <1>1, <2>1, ActivationAssumption DEF Arrive, TypeOK, RequestTypes, SingleFlight, InGate,
         Answer, Goto, Stay, RequestTypes, Goto, Phases, Answers
    <2> QED BY <2>2, <2>3
  <1>2. CASE FastPath(r)
    <2>1. RequestTypes' BY <1>2, AnswerTypes, MoveTypes DEF FastPath, SingleFlight, InGate
    <2>2. TypeOK' BY <1>2, <2>1, ActivationAssumption DEF FastPath, TypeOK, RequestTypes
    <2>3. SingleFlight'
      BY <1>2, <2>1, ActivationAssumption DEF FastPath, TypeOK, RequestTypes, SingleFlight, InGate,
         Answer, Goto, Stay
    <2> QED BY <2>2, <2>3
  <1>3. CASE JoinGate(r)
    <2>1. UNCHANGED <<hook, replica, backoff, lock>> /\ phase[r] = "backoff"
      BY <1>3 DEF JoinGate
    <2>2. CASE Answer(r, "backoff")
      <3>1. RequestTypes' BY <2>1, <2>2, AnswerTypes DEF InGate
      <3>2. TypeOK' BY <2>1, <3>1 DEF TypeOK, RequestTypes
      <3>3. SingleFlight'
        BY <2>1, <2>2, ActivationAssumption DEF TypeOK, SingleFlight, InGate, Answer
      <3> QED BY <3>2, <3>3
    <2>3. CASE gate' = Append(gate, r) /\ Goto(r, "gate") /\ UNCHANGED <<tries, answer>>
      <3>1. /\ gate' \in Seq(Requests) /\ gate' # <<>>
            /\ gate # <<>> => Head(gate') = Head(gate)
        BY <2>3 DEF RequestTypes
      <3>2. phase' \in [Requests -> Phases]
        BY <2>3 DEF RequestTypes, Goto
      <3>3. TypeOK' BY <2>1, <2>3, <3>1, <3>2 DEF TypeOK
      <3>4. SingleFlight'
        BY <2>1, <2>3, <3>1, ActivationAssumption DEF TypeOK, SingleFlight, InGate, Goto
      <3> QED BY <3>3, <3>4
    <2> QED BY <1>3, <2>2, <2>3 DEF JoinGate
  <1>4. CASE EnterGate(r)
    <2>1. RequestTypes' BY <1>4, AnswerTypes, MoveTypes DEF EnterGate, SingleFlight, InGate
    <2>2. TypeOK' BY <1>4, <2>1, ActivationAssumption DEF EnterGate, TypeOK, RequestTypes
    <2>3. SingleFlight'
      BY <1>4, <2>1, ActivationAssumption DEF EnterGate, TypeOK, RequestTypes, SingleFlight, InGate,
         Answer, Goto, Stay
    <2> QED BY <2>2, <2>3
  <1>5. CASE Recheck(r)
    <2>1. RequestTypes' BY <1>5, AnswerTypes, MoveTypes DEF Recheck, SingleFlight, InGate
    <2>2. TypeOK' BY <1>5, <2>1, ActivationAssumption DEF Recheck, TypeOK, RequestTypes
    <2>3. SingleFlight'
      BY <1>5, <2>1, ActivationAssumption DEF Recheck, TypeOK, RequestTypes, SingleFlight, InGate,
         Answer, Goto, Stay
    <2> QED BY <2>2, <2>3
  <1>6. CASE Poll(r)
    <2>1. RequestTypes'
      BY <1>6, AnswerTypes, ActivationAssumption DEF Poll, SingleFlight, InGate, RequestTypes,
         Fail, Succeed
    <2>2. TypeOK' BY <1>6, <2>1, ActivationAssumption DEF Poll, TypeOK, RequestTypes, Fail, Succeed
    <2>3. SingleFlight'
      BY <1>6, <2>1, ActivationAssumption DEF Poll, TypeOK, RequestTypes, SingleFlight, InGate,
         Answer, Goto, Stay, RequestTypes, Fail, Succeed
    <2> QED BY <2>2, <2>3
  <1>7. CASE Activate(r)
    <2>1. RequestTypes' BY <1>7, AnswerTypes, MoveTypes DEF Activate, SingleFlight, InGate, Fail
    <2>2. TypeOK' BY <1>7, <2>1, ActivationAssumption DEF Activate, TypeOK, RequestTypes, Fail
    <2>3. CASE Goto(r, "poll") /\ UNCHANGED <<gate, replica, lock>>
      BY <1>7, <2>2, <2>3, ActivationAssumption DEF Activate, TypeOK, SingleFlight, InGate, Goto
    <2>4. CASE Goto(r, "launch") /\ lock' = r /\ UNCHANGED gate
      BY <1>7, <2>2, <2>4, ActivationAssumption DEF Activate, TypeOK, SingleFlight, InGate, Goto
    <2>5. CASE Answer(r, "failed") /\ UNCHANGED <<replica, lock>>
      BY <1>7, <2>2, <2>5, ActivationAssumption DEF Activate, TypeOK, SingleFlight, InGate, Answer
    <2> QED BY <1>7, <2>3, <2>4, <2>5 DEF Activate, Stay, Fail
  <1>8. CASE Launched(r)
    <2>1. RequestTypes' BY <1>8, AnswerTypes, MoveTypes DEF Launched, SingleFlight, InGate, Fail
    <2>2. TypeOK' BY <1>8, <2>1, ActivationAssumption DEF Launched, TypeOK, RequestTypes, Fail
    <2>3. SingleFlight'
      BY <1>8, <2>1, ActivationAssumption DEF Launched, TypeOK, RequestTypes, SingleFlight, InGate,
         Answer, Goto, Stay, Fail
    <2> QED BY <2>2, <2>3
  <1>9. CASE Timeout(r)
    <2>1. RequestTypes' BY <1>9, AnswerTypes DEF Timeout, SingleFlight, InGate, Fail
    <2>2. TypeOK' BY <1>9, <2>1, ActivationAssumption DEF Timeout, TypeOK, RequestTypes, Fail
    <2>3. SingleFlight'
      BY <1>9, <2>1, ActivationAssumption DEF Timeout, TypeOK, RequestTypes, SingleFlight, InGate,
         Answer, Goto, Stay, Fail
    <2> QED BY <2>2, <2>3
  <1> QED BY <1>1, <1>2, <1>3, <1>4, <1>5, <1>6, <1>7, <1>8, <1>9 DEF Resolve

(* The invariant holds in every reachable state: however requests, ticks   *)
(* and timeouts interleave, one request at a time is past the gate and a   *)
(* launch is that of the holder of the controller's lock.                  *)
THEOREM FlightInvariant == ActSpec => []FlightInv
  <1>1. ActInit => FlightInv
    <2> SUFFICES ASSUME ActInit PROVE TypeOK /\ SingleFlight
      BY DEF FlightInv
    <2>1. gate \in Seq(Requests)
      BY DEF ActInit
    <2>2. tries \in [Requests -> 0 .. Retries - 1]
      BY ActivationAssumption DEF ActInit
    <2>3. phase \in [Requests -> Phases]
      BY DEF ActInit, Phases
    <2>4. answer \in [Requests -> Answers]
      BY DEF ActInit, Answers
    <2>5. TypeOK BY <2>1, <2>2, <2>3, <2>4 DEF ActInit, TypeOK
    <2>6. SingleFlight BY ActivationAssumption DEF ActInit, SingleFlight, InGate
    <2> QED BY <2>5, <2>6
  <1>2. FlightInv /\ [ActNext]_actVars => FlightInv'
    <2> SUFFICES ASSUME FlightInv, [ActNext]_actVars PROVE FlightInv'
      OBVIOUS
    <2> USE DEF FlightInv, TypeOK, SingleFlight, InGate
    <2>1. CASE UNCHANGED actVars BY <2>1 DEF actVars
    <2>2. CASE SetActivator BY <2>2 DEF SetActivator
    <2>3. CASE BackoffExpires BY <2>3 DEF BackoffExpires
    <2>4. CASE CtlStep BY <2>4, ActivationAssumption DEF CtlStep
    <2>5. CASE \E r \in Requests :
                 Arrive(r) \/ Resolve(r) \/ Activate(r) \/ Launched(r) \/ Timeout(r)
      BY <2>5, RequestInv
    <2> QED BY <2>1, <2>2, <2>3, <2>4, <2>5 DEF ActNext
  <1> QED BY <1>1, <1>2, PTL DEF ActSpec

(* One activation at a time. *)
THEOREM AlwaysSingleFlight == ActSpec => []SingleFlight
  BY FlightInvariant, PTL DEF FlightInv

-----------------------------------------------------------------------------
(* A request in the hook passed the backoff check, and no other request    *)
(* can have failed since, for that takes the gate.                         *)
HookOpen == \A r \in Requests : phase[r] = "hook" => ~backoff

(* HookOpen is preserved by every step. *)
LEMMA HookOpenStep ==
  ASSUME FlightInv, HookOpen, [ActNext]_actVars
  PROVE  HookOpen'
  <1> USE DEF FlightInv, TypeOK, SingleFlight, HookOpen, InGate, Goto, Stay, Answer, Fail, Succeed
  <1>1. CASE UNCHANGED actVars BY <1>1 DEF actVars
  <1>2. CASE SetActivator BY <1>2 DEF SetActivator
  <1>3. CASE BackoffExpires BY <1>3 DEF BackoffExpires
  <1>4. CASE CtlStep BY <1>4 DEF CtlStep
  <1>5. ASSUME NEW r \in Requests,
               Arrive(r) \/ Resolve(r) \/ Activate(r) \/ Launched(r) \/ Timeout(r)
        PROVE  HookOpen'
    <2>1. CASE Arrive(r) BY <2>1 DEF Arrive
    <2>2. CASE FastPath(r) BY <2>2 DEF FastPath
    <2>3. CASE JoinGate(r) BY <2>3 DEF JoinGate
    <2>4. CASE EnterGate(r) BY <2>4 DEF EnterGate
    <2>5. CASE Recheck(r) BY <2>5 DEF Recheck
    <2>6. CASE Poll(r) BY <2>6 DEF Poll
    <2>7. CASE Activate(r) BY <2>7 DEF Activate
    <2>8. CASE Launched(r) BY <2>8 DEF Launched
    <2>9. CASE Timeout(r) BY <2>9 DEF Timeout
    <2> QED BY <1>5, <2>1, <2>2, <2>3, <2>4, <2>5, <2>6, <2>7, <2>8, <2>9 DEF Resolve
  <1> QED BY <1>1, <1>2, <1>3, <1>4, <1>5 DEF ActNext

(* No request launches a replica while the backoff of a failed activation  *)
(* runs, however many requests wait and however long.                      *)
THEOREM LaunchesSpaced == ActSpec => NoLaunchInBackoff
  <1> DEFINE Spaced == \A r \in Requests : phase[r] # "launch" /\ phase'[r] = "launch" => ~backoff
  <1>1. ActInit => HookOpen
    BY DEF ActInit, HookOpen
  <1>2. FlightInv /\ HookOpen /\ [ActNext]_actVars => HookOpen'
    BY HookOpenStep
  <1>3. FlightInv /\ HookOpen /\ [ActNext]_actVars => [Spaced]_actVars
    <2> SUFFICES ASSUME FlightInv, HookOpen, ActNext, NEW q \in Requests,
                        phase[q] # "launch", phase'[q] = "launch"
                 PROVE  ~backoff
      OBVIOUS
    <2> USE DEF FlightInv, TypeOK, HookOpen, Goto, Stay, Answer, Fail, Succeed
    <2>1. ASSUME NEW r \in Requests,
                 Arrive(r) \/ Resolve(r) \/ Activate(r) \/ Launched(r) \/ Timeout(r)
          PROVE  ~backoff
      BY <2>1 DEF Arrive, Resolve, FastPath, JoinGate, EnterGate, Recheck, Poll, Activate,
         Launched, Timeout
    <2>2. ~(SetActivator \/ BackoffExpires \/ CtlStep)
      BY DEF SetActivator, BackoffExpires, CtlStep
    <2> QED BY <2>1, <2>2 DEF ActNext
  <1> QED BY <1>1, <1>2, <1>3, FlightInvariant, PTL DEF ActSpec, NoLaunchInBackoff

-----------------------------------------------------------------------------
(* A set of natural numbers has a least one.                                *)
LEMMA LeastNat ==
  ASSUME NEW S \in SUBSET Nat, S # {}
  PROVE  \E m \in S : \A k \in S : m <= k
  <1> DEFINE R == OpToRel(<, Nat)
  <1>1. IsWellFoundedOn(R, Nat) BY NatLessThanWellFounded
  <1>2. \A x, y \in Nat : x < y => <<x, y>> \in R
    BY DEF OpToRel
  <1> HIDE DEF R
  <1>3. PICK x \in S : \A y \in S : ~(<<y, x>> \in R)
    BY <1>1, WFMin
  <1>4. ASSUME NEW y \in S PROVE x <= y
    <2>1. ~(y < x) BY <1>2, <1>3
    <2> QED BY <2>1
  <1> QED BY <1>4

Endpoint == [id : Replicas, healthy : BOOLEAN]

(* How many endpoints next_socket passes before it comes to position i, and *)
(* the healthy ones whose turn comes no later.                              *)
Distance(i) == IF cursor <= i - 1 THEN i - 1 - cursor ELSE i - 1 - cursor + Len0
Ahead(i) == {k \in healthy : Distance(k) <= Distance(i)}

(* The inductive invariant: whoever has waited for some requests has so     *)
(* many fewer endpoints ahead of it.                                        *)
TurnComes == \A i \in healthy : unserved[endpoints[i].id] + Cardinality(Ahead(i)) <= Cardinality(healthy)
PoolInv == PoolOK /\ TurnComes

LEMMA HealthyFinite ==
  ASSUME PoolOK
  PROVE  /\ Len0 \in Nat /\ cursor \in Nat /\ healthy \subseteq 1 .. Len0
         /\ IsFiniteSet(healthy) /\ Cardinality(healthy) \in Nat
         /\ \A S \in SUBSET healthy : IsFiniteSet(S) /\ Cardinality(S) \in Nat
                                      /\ Cardinality(S) <= Cardinality(healthy)
         /\ \A i \in 1 .. Len0 : endpoints[i].id \in Replicas
  <1>0. endpoints \in Seq(Endpoint) BY DEF PoolOK, Endpoint
  <1>5. ASSUME NEW i \in 1 .. Len0 PROVE endpoints[i].id \in Replicas
    <2>1. endpoints[i] \in Endpoint BY <1>0 DEF Len0
    <2> QED BY <2>1 DEF Endpoint
  <1>1. Len0 \in Nat /\ cursor \in Nat BY DEF PoolOK, Len0
  <1>2. healthy \subseteq 1 .. Len0 BY DEF healthy
  <1>3. IsFiniteSet(1 .. Len0) BY <1>1, FS_Interval
  <1>4. IsFiniteSet(healthy) BY <1>2, <1>3, FS_Subset
  <1> QED BY <1>1, <1>2, <1>4, <1>5, FS_Subset, FS_CardinalityType

Unwaited == unserved = [r \in Replicas |-> 0]

(* A pool that has just changed waits for nobody.                           *)
LEMMA FreshTurns ==
  PoolOK /\ Unwaited => TurnComes
  <1> SUFFICES ASSUME PoolOK, Unwaited, NEW i \in healthy
               PROVE  unserved[endpoints[i].id] + Cardinality(Ahead(i)) <= Cardinality(healthy)
    BY DEF TurnComes
  <1>1. unserved[endpoints[i].id] = 0 BY HealthyFinite DEF Unwaited
  <1>2. Ahead(i) \in SUBSET healthy BY DEF Ahead
  <1> QED BY <1>1, <1>2, HealthyFinite

(* Distance and At are inverse to each other.                               *)
LEMMA DistanceAt ==
  ASSUME PoolOK, healthy # {}
  PROVE  /\ Len0 \in Nat /\ Len0 > 0 /\ cursor \in Nat /\ cursor < Len0
         /\ \A i \in 1 .. Len0 : Distance(i) \in 0 .. Len0 - 1 /\ At(Distance(i)) = i
         /\ \A o \in 0 .. Len0 - 1 : At(o) \in 1 .. Len0 /\ Distance(At(o)) = o
  <1> DEFINE n == Len0
  <1>1. n \in Nat /\ cursor \in Nat /\ n > 0 BY HealthyFinite
  <1>2. cursor < n BY <1>1 DEF PoolOK
  <1>3. /\ \A x \in 0 .. n - 1 : x % n = x
        /\ \A x \in n .. 2 * n - 1 : x % n = x - n
    <2> HIDE DEF n
    <2> QED BY <1>1
  <1>4. \A o \in 0 .. n - 1 : At(o) = IF cursor + o < n THEN cursor + o + 1 ELSE cursor + o - n + 1
    <2> SUFFICES ASSUME NEW o \in 0 .. n - 1
                 PROVE  At(o) = IF cursor + o < n THEN cursor + o + 1 ELSE cursor + o - n + 1
      OBVIOUS
    <2>1. At(o) = ((cursor + o) % n) + 1 BY DEF At
    <2> HIDE DEF n
    <2>2. CASE cursor + o < n
      <3>1. (cursor + o) % n = cursor + o BY <2>2, <1>1, <1>3
      <3> QED BY <2>1, <2>2, <3>1, <1>1
    <2>3. CASE ~(cursor + o < n)
      <3>1. cursor + o \in n .. 2 * n - 1 BY <2>3, <1>1, <1>2
      <3> DEFINE x == cursor + o
      <3>2. x % n = x - n
        <4> HIDE DEF x
        <4> QED BY <3>1, <1>3 DEF x
      <3> QED BY <2>1, <2>3, <3>2, <1>1
    <2> QED BY <2>2, <2>3
  <1>5. \A i : Distance(i) = IF cursor <= i - 1 THEN i - 1 - cursor ELSE i - 1 - cursor + n
    BY DEF Distance
  <1> HIDE DEF n
  <1>6. \A i \in 1 .. n : Distance(i) \in 0 .. n - 1 BY <1>1, <1>2, <1>5
  <1>7. \A i \in 1 .. n : At(Distance(i)) = i BY <1>1, <1>2, <1>4, <1>5, <1>6
  <1>8. \A o \in 0 .. n - 1 : At(o) \in 1 .. n BY <1>1, <1>2, <1>4
  <1>9. \A o \in 0 .. n - 1 : Distance(At(o)) = o BY <1>1, <1>2, <1>4, <1>5, <1>8
  <1> QED BY <1>1, <1>2, <1>6, <1>7, <1>8, <1>9 DEF n

(* next_socket finds the healthy endpoint with the least distance.          *)
LEMMA OffsetIsNearest ==
  ASSUME PoolOK, healthy # {}
  PROVE  /\ Offset \in 0 .. Len0 - 1 /\ At(Offset) \in healthy
         /\ \A k \in healthy : Offset <= Distance(k)
  <1> DEFINE S == {o \in 0 .. Len0 - 1 : endpoints[At(o)].healthy}
  <1>1. \A k \in healthy : Distance(k) \in S
    <2> SUFFICES ASSUME NEW k \in healthy PROVE Distance(k) \in S OBVIOUS
    <2>1. k \in 1 .. Len0 /\ endpoints[k].healthy BY DEF healthy
    <2> QED BY <2>1, DistanceAt
  <1>2. S \in SUBSET Nat /\ S # {} BY <1>1, DistanceAt
  <1>3. PICK m \in S : \A k \in S : m <= k
    <2> HIDE DEF S
    <2> QED BY <1>2, LeastNat
  <1>4. /\ m \in 0 .. Len0 - 1 /\ endpoints[At(m)].healthy
        /\ \A p \in 0 .. m - 1 : ~endpoints[At(p)].healthy
    <2>1. m \in 0 .. Len0 - 1 /\ endpoints[At(m)].healthy OBVIOUS
    <2>2. ASSUME NEW p \in 0 .. m - 1, endpoints[At(p)].healthy PROVE FALSE
      <3>1. p \in 0 .. Len0 - 1 /\ ~(m <= p) BY <2>1, DistanceAt
      <3>2. p \in S BY <3>1, <2>2
      <3> QED BY <3>1, <3>2, <1>3
    <2> QED BY <2>1, <2>2
  <1>5. /\ Offset \in 0 .. Len0 - 1 /\ endpoints[At(Offset)].healthy
        /\ \A p \in 0 .. Offset - 1 : ~endpoints[At(p)].healthy
    BY <1>4 DEF Offset
  <1>6. At(Offset) \in healthy BY <1>5, DistanceAt DEF healthy
  <1>7. ASSUME NEW k \in healthy PROVE Offset <= Distance(k)
    <2>1. Distance(k) \in 0 .. Len0 - 1 /\ endpoints[At(Distance(k))].healthy BY <1>1
    <2>2. ~(Distance(k) \in 0 .. Offset - 1) BY <2>1, <1>5
    <2> QED BY <2>1, <2>2, <1>5
  <1> QED BY <1>5, <1>6, <1>7

(* A request moves everybody who is not served one place forward.           *)
LEMMA NextSocketTurns ==
  ASSUME PoolInv, next_socket
  PROVE  PoolInv'
  <1>p. PICK n, o, a : n = Len0 /\ o = Offset /\ a = At(Offset) OBVIOUS
  <1>0. PoolOK /\ healthy # {} BY DEF PoolInv, next_socket
  <1>1. /\ n \in Nat /\ n > 0 /\ cursor \in Nat /\ cursor < n
        /\ o \in 0 .. n - 1 /\ a \in healthy /\ a \in 1 .. n /\ Distance(a) = o
        /\ \A k \in healthy : k \in 1 .. n /\ Distance(k) \in o .. n - 1 /\ At(Distance(k)) = k
    <2>1. /\ o \in 0 .. n - 1 /\ a \in healthy /\ \A k \in healthy : o <= Distance(k)
      BY <1>p, <1>0, OffsetIsNearest
    <2>2. \A k \in healthy : k \in 1 .. n BY <1>p DEF healthy
    <2> QED BY <1>p, <1>0, <2>1, <2>2, DistanceAt
  <1>2. endpoints' = endpoints /\ cursor' = (cursor + o + 1) % n
        /\ unserved' = [r \in Replicas |->
             IF r # endpoints[a].id /\ \E k \in healthy : endpoints[k].id = r
             THEN unserved[r] + 1 ELSE 0]
    BY <1>p DEF next_socket, Dial
  <1>3. Len0' = n /\ healthy' = healthy BY <1>p, <1>2 DEF Len0, healthy
  <1>4. /\ \A i : Distance(i) = IF cursor <= i - 1 THEN i - 1 - cursor ELSE i - 1 - cursor + n
        /\ \A i : Distance(i)' = IF cursor' <= i - 1 THEN i - 1 - cursor' ELSE i - 1 - cursor' + n
    BY <1>p, <1>3 DEF Distance
  <1>5. cursor' = IF cursor + o + 1 < n THEN cursor + o + 1 ELSE cursor + o + 1 - n
    <2>1. /\ \A x \in 0 .. n - 1 : x % n = x
          /\ \A x \in n .. 2 * n - 1 : x % n = x - n
      BY <1>1
    <2>2. CASE cursor + o + 1 < n BY <2>1, <2>2, <1>1, <1>2
    <2>3. CASE ~(cursor + o + 1 < n)
      <3> DEFINE x == cursor + o + 1
      <3>1. x \in n .. 2 * n - 1 BY <2>3, <1>1
      <3>2. x % n = x - n
        <4> HIDE DEF x
        <4> QED BY <3>1, <2>1
      <3> QED BY <3>2, <2>3, <1>1, <1>2
    <2> QED BY <2>2, <2>3
  <1>6. cursor' \in Nat /\ cursor' < n BY <1>1, <1>5
  <1>7. ASSUME NEW i \in healthy, i # a
        PROVE  Distance(i) > o /\ Distance(i)' = Distance(i) - o - 1
    <2>1. Distance(i) # o BY <1>1, <1>7, <1>p
    <2>2. Distance(i) \in o .. n - 1 /\ i \in 1 .. n BY <1>1
    <2>3. Distance(i) > o BY <2>1, <2>2, <1>1
    <2>4. Distance(i) = IF cursor <= i - 1 THEN i - 1 - cursor ELSE i - 1 - cursor + n BY <1>4
    <2>5. Distance(i)' = IF cursor' <= i - 1 THEN i - 1 - cursor' ELSE i - 1 - cursor' + n BY <1>4
    <2> DEFINE d == Distance(i)
               e == Distance(i)'
    <2> HIDE DEF d, e
    <2>6. d > o /\ e = d - o - 1 BY <1>1, <1>5, <1>6, <2>2, <2>3, <2>4, <2>5 DEF d, e
    <2> QED BY <2>6 DEF d, e
  <1>8. Distance(a)' = n - 1
    <2>1. a \in 1 .. n /\ o = IF cursor <= a - 1 THEN a - 1 - cursor ELSE a - 1 - cursor + n BY <1>1, <1>4
    <2>2. Distance(a)' = IF cursor' <= a - 1 THEN a - 1 - cursor' ELSE a - 1 - cursor' + n BY <1>4
    <2> DEFINE e == Distance(a)'
    <2> HIDE DEF e
    <2>3. e = n - 1 BY <1>1, <1>5, <1>6, <2>1, <2>2 DEF e
    <2> QED BY <2>3 DEF e
  <1>9. PoolOK'
    <2>1. endpoints \in Seq(Endpoint) /\ unserved \in [Replicas -> Nat]
      BY <1>0 DEF PoolOK, Endpoint
    <2>2. unserved' \in [Replicas -> Nat] BY <2>1, <1>2
    <2>3. \A i, j \in 1 .. Len0' : endpoints'[i].id = endpoints'[j].id => i = j
      BY <1>p, <1>0, <1>2, <1>3 DEF PoolOK
    <2> QED BY <1>2, <1>3, <1>6, <2>1, <2>2, <2>3 DEF PoolOK, Endpoint
  <1>10. ASSUME NEW i \in healthy
         PROVE  unserved'[endpoints[i].id] + Cardinality(Ahead(i)') <= Cardinality(healthy)
    <2>1. endpoints[i].id \in Replicas /\ unserved \in [Replicas -> Nat]
      BY <1>0, HealthyFinite DEF PoolOK
    <2>2. Ahead(i)' \in SUBSET healthy BY <1>3 DEF Ahead
    <2>3. CASE i = a
      <3>1. unserved'[endpoints[i].id] = 0 BY <2>1, <2>3, <1>2
      <3> QED BY <3>1, <2>2, <1>0, HealthyFinite
    <2>4. CASE i # a
      <3>1. endpoints[i].id # endpoints[a].id
        BY <2>4, <1>p, <1>0, <1>1 DEF PoolOK
      <3>2. unserved'[endpoints[i].id] = unserved[endpoints[i].id] + 1 BY <2>1, <3>1, <1>2
      <3>3. Distance(i) > o /\ Distance(i)' = Distance(i) - o - 1 /\ Distance(i) \in o .. n - 1
        BY <2>4, <1>1, <1>7
      <3>4. a \in Ahead(i) BY <1>1, <3>3 DEF Ahead
      <3>5. a \notin Ahead(i)'
        <4>1. ~(Distance(a)' <= Distance(i)') BY <3>3, <1>1, <1>8
        <4> QED BY <4>1 DEF Ahead
      <3>6. ASSUME NEW k \in healthy, k # a PROVE k \in Ahead(i)' <=> k \in Ahead(i)
        <4>1. Distance(k) > o /\ Distance(k)' = Distance(k) - o - 1 /\ Distance(k) \in o .. n - 1
          BY <3>6, <1>1, <1>7
        <4>2. Distance(k)' <= Distance(i)' <=> Distance(k) <= Distance(i) BY <3>3, <4>1, <1>1
        <4> QED BY <4>2, <1>3 DEF Ahead
      <3>7. Ahead(i)' = Ahead(i) \ {a} BY <3>4, <3>5, <3>6, <1>3 DEF Ahead
      <3>8. Ahead(i) \in SUBSET healthy BY DEF Ahead
      <3>9. IsFiniteSet(Ahead(i)) /\ Cardinality(Ahead(i)) \in Nat BY <3>8, <1>0, HealthyFinite
      <3>10. Cardinality(Ahead(i) \ {a}) = Cardinality(Ahead(i)) - 1 BY <3>4, <3>9, FS_RemoveElement
      <3>11. unserved[endpoints[i].id] + Cardinality(Ahead(i)) <= Cardinality(healthy)
        BY DEF PoolInv, TurnComes
      <3>12. unserved[endpoints[i].id] \in Nat /\ Cardinality(healthy) \in Nat BY <2>1, <1>0, HealthyFinite
      <3> QED BY <3>2, <3>7, <3>9, <3>10, <3>11, <3>12
    <2> QED BY <2>3, <2>4
  <1>11. TurnComes' BY <1>2, <1>3, <1>10 DEF TurnComes
  <1> QED BY <1>9, <1>11 DEF PoolInv

LEMMA PoolEdits ==
  ASSUME PoolInv, NEW r \in Replicas,
         add_replica(r) \/ remove_replica(r) \/ \E h \in BOOLEAN : set_replica_healthy(r, h)
  PROVE  PoolInv'
  <1>0. /\ endpoints \in Seq(Endpoint) /\ Len0 \in Nat /\ Len(endpoints) = Len0 /\ DOMAIN endpoints = 1 .. Len0
        /\ \A i \in 1 .. Len0 : endpoints[i] \in Endpoint
        /\ \A i, j \in 1 .. Len0 : endpoints[i].id = endpoints[j].id => i = j
        /\ cursor \in Nat /\ (cursor < Len0 \/ cursor = 0)
    <2>1. /\ endpoints \in Seq(Endpoint) /\ \A i, j \in 1 .. Len0 : endpoints[i].id = endpoints[j].id => i = j
          /\ cursor \in Nat /\ (cursor < Len0 \/ cursor = 0)
      BY DEF PoolInv, PoolOK, Endpoint
    <2> QED BY <2>1 DEF Len0
  <1>1. unserved' = [q \in Replicas |-> 0] /\ Unwaited'
    BY DEF Unwaited, add_replica, remove_replica, set_replica_healthy, FreshPool
  <1>2. PoolOK'
    <2> DEFINE es == endpoints'
    <2>1. SUFFICES /\ es \in Seq(Endpoint)
                   /\ \A i, j \in 1 .. Len(es) : es[i].id = es[j].id => i = j
                   /\ cursor' \in Nat /\ (cursor' < Len(es) \/ cursor' = 0)
      BY <1>1 DEF PoolOK, Len0, Endpoint
    <2>2. CASE add_replica(r)
      <3>1. CASE r \in Ids
        <4>1. es = [i \in 1 .. Len0 |-> IF endpoints[i].id = r THEN [id |-> r, healthy |-> FALSE]
                                        ELSE endpoints[i]] /\ cursor' = cursor
          BY <2>2, <3>1 DEF add_replica
        <4> HIDE DEF es
        <4>2. /\ \A i \in 1 .. Len0 : es[i] \in Endpoint /\ es[i].id = endpoints[i].id
              /\ es \in [1 .. Len0 -> Endpoint]
          BY <4>1, <1>0 DEF Endpoint
        <4>3. es \in Seq(Endpoint) /\ Len(es) = Len0 BY <4>2, <1>0
        <4>4. \A i, j \in 1 .. Len(es) : es[i].id = es[j].id => i = j BY <4>2, <4>3, <1>0
        <4> QED BY <4>1, <4>3, <4>4, <1>0
      <3>2. CASE r \notin Ids
        <4> DEFINE e == [id |-> r, healthy |-> FALSE]
        <4>1. es = Append(endpoints, e) /\ cursor' = cursor
          BY <2>2, <3>2 DEF add_replica
        <4>2. e \in Endpoint /\ e.id = r BY DEF Endpoint
        <4> HIDE DEF es, e
        <4>3. /\ es \in Seq(Endpoint) /\ Len(es) = Len0 + 1 /\ es[Len0 + 1] = e
              /\ \A i \in 1 .. Len0 : es[i] = endpoints[i]
          BY <4>1, <4>2, <1>0
        <4>4. \A i \in 1 .. Len0 : endpoints[i].id # r BY <3>2 DEF Ids
        <4>5. ASSUME NEW i \in 1 .. Len(es), NEW j \in 1 .. Len(es), es[i].id = es[j].id PROVE i = j
          <5>1. i \in 1 .. Len0 \/ i = Len0 + 1 BY <4>3, <1>0
          <5>2. j \in 1 .. Len0 \/ j = Len0 + 1 BY <4>3, <1>0
          <5> QED BY <5>1, <5>2, <4>2, <4>3, <4>4, <4>5, <1>0
        <4> QED BY <4>1, <4>3, <4>5, <1>0
      <3> QED BY <3>1, <3>2
    <2>3. CASE remove_replica(r)
      <3> DEFINE p == Position(r)
      <3>1. p \in 1 .. Len0 /\ endpoints[p].id = r BY <2>3 DEF remove_replica, Position, Ids
      <3>2. /\ es = [i \in 1 .. Len0 - 1 |-> endpoints[IF i < p THEN i ELSE i + 1]]
            /\ cursor' = IF cursor >= Len(es) THEN 0 ELSE cursor
        BY <2>3 DEF remove_replica
      <3> HIDE DEF es, p
      <3>3. /\ es \in [1 .. Len0 - 1 -> Endpoint] /\ Len0 - 1 \in Nat
            /\ \A i \in 1 .. Len0 - 1 : es[i] = endpoints[IF i < p THEN i ELSE i + 1]
        BY <3>1, <3>2, <1>0
      <3>4. es \in Seq(Endpoint) /\ Len(es) = Len0 - 1 BY <3>3
      <3>5. ASSUME NEW i \in 1 .. Len0 - 1, NEW j \in 1 .. Len0 - 1, es[i].id = es[j].id PROVE i = j
        <4>1. (IF i < p THEN i ELSE i + 1) = (IF j < p THEN j ELSE j + 1) BY <3>1, <3>3, <3>5, <1>0
        <4> QED BY <4>1, <3>1
      <3> QED BY <3>2, <3>3, <3>4, <3>5, <1>0
    <2>4. ASSUME NEW h \in BOOLEAN, set_replica_healthy(r, h)
          PROVE  /\ es \in Seq(Endpoint)
                 /\ \A i, j \in 1 .. Len(es) : es[i].id = es[j].id => i = j
                 /\ cursor' \in Nat /\ (cursor' < Len(es) \/ cursor' = 0)
      <3>1. es = [i \in 1 .. Len0 |-> IF endpoints[i].id = r THEN [endpoints[i] EXCEPT !.healthy = h]
                                        ELSE endpoints[i]] /\ cursor' = cursor
          BY <2>4 DEF set_replica_healthy
      <3> HIDE DEF es
      <3>2. /\ \A i \in 1 .. Len0 : es[i] \in Endpoint /\ es[i].id = endpoints[i].id
            /\ es \in [1 .. Len0 -> Endpoint]
        BY <3>1, <1>0 DEF Endpoint
      <3>3. es \in Seq(Endpoint) /\ Len(es) = Len0 BY <3>2, <1>0
      <3> QED BY <3>1, <3>2, <3>3, <1>0
    <2> QED BY <2>2, <2>3, <2>4
  <1>3. PoolOK' /\ Unwaited' => TurnComes' BY FreshTurns, PTL
  <1> QED BY <1>1, <1>2, <1>3 DEF PoolInv

(* While the pool does not change every healthy endpoint is dialled once in *)
(* every |healthy| requests, for any replicas and any history of edits.     *)
THEOREM RoundRobinAlways == PoolSpec => []RoundRobin
  <1>1. PoolInit => PoolInv
    <2> SUFFICES ASSUME PoolInit PROVE PoolInv OBVIOUS
    <2>1. PoolOK BY DEF PoolInit, PoolOK, Len0
    <2> QED BY <2>1, FreshTurns DEF PoolInit, PoolInv, Unwaited
  <1>2. PoolInv /\ [PoolNext]_poolVars => PoolInv'
    <2> SUFFICES ASSUME PoolInv, [PoolNext]_poolVars PROVE PoolInv' OBVIOUS
    <2>1. CASE UNCHANGED poolVars
      BY <2>1 DEF poolVars, PoolInv, PoolOK, TurnComes, Ahead, Distance, healthy, Len0
    <2>2. CASE next_socket BY <2>2, NextSocketTurns
    <2>3. ASSUME NEW r \in Replicas,
                 add_replica(r) \/ remove_replica(r) \/ \E h \in BOOLEAN : set_replica_healthy(r, h)
          PROVE  PoolInv'
      BY <2>3, PoolEdits
    <2> QED BY <2>1, <2>2, <2>3 DEF PoolNext
  <1>3. PoolInv => RoundRobin
    <2> SUFFICES ASSUME PoolInv, NEW i \in healthy
                 PROVE  unserved[endpoints[i].id] < Cardinality(healthy)
      BY DEF RoundRobin
    <2>0. PoolOK BY DEF PoolInv
    <2>1. Ahead(i) \in SUBSET healthy BY DEF Ahead
    <2>2. IsFiniteSet(Ahead(i)) /\ Cardinality(Ahead(i)) \in Nat /\ Cardinality(healthy) \in Nat
      BY <2>0, <2>1, HealthyFinite
    <2>3. i \in Ahead(i)
      <3>1. Distance(i) \in 0 .. Len0 - 1 BY <2>0, HealthyFinite, DistanceAt
      <3>2. Distance(i) <= Distance(i) BY <3>1, <2>0, HealthyFinite
      <3> QED BY <3>2 DEF Ahead
    <2>4. Cardinality(Ahead(i)) > 0 BY <2>2, <2>3, FS_EmptySet
    <2>5. unserved[endpoints[i].id] \in Nat BY <2>0, HealthyFinite DEF PoolOK
    <2>6. unserved[endpoints[i].id] + Cardinality(Ahead(i)) <= Cardinality(healthy) BY DEF PoolInv, TurnComes
    <2> QED BY <2>2, <2>4, <2>5, <2>6
  <1> QED BY <1>1, <1>2, <1>3, PTL DEF PoolSpec

-----------------------------------------------------------------------------
(* Types: a command that pushes, and a row of a name. *)
PushIds == Pushers \cup {Nothing}
Places == {"start", "projects", "new project", "services", "put", "save", "pack", "upload", "body",
           "unpack", "extract", "deploy", "poll", "ok", "error"}
Commands == [at : Places, pid : PushIds, sid : PushIds, polls : Nat]
Builds == [status : {"none", "Building", "Healthy", "Failed", "Inactive"},
           saw : {"none", "empty", "archive", "part", "whole", "torn"}]
Rows == [row : Pushers, json : Pushers]

PushTypeOK ==
  /\ client \in [Pushers -> Commands] /\ service \in [Pushers -> Rows \cup {Nothing}]
  /\ project \in Rows \cup {Nothing}
  /\ dir \in [Pushers -> {"none", "empty", "archive", "part", "whole", "torn"}]
  /\ dep \in [Pushers -> Builds]
  /\ aged \subseteq late /\ late \subseteq Pushers

(* A command that is looking for its service in a project, or about to      *)
(* write it, has the ids it needs.                                          *)
HasIds(u) ==
  /\ client[u].at \in {"services", "put", "save"} => client[u].pid \in Pushers
  /\ client[u].at = "save" => client[u].sid \in Pushers

(* What an upload that has not expired is, as the command and the           *)
(* deployment go on: nobody but they changes its directory, and a build     *)
(* that has read it has read all of it.                                     *)
Fresh(u) ==
  /\ client[u].at \notin {"poll", "ok", "error"} => dep[u] = [status |-> "none", saw |-> "none"]
  /\ client[u].at = "extract" => dir[u] = "part"
  /\ client[u].at = "deploy" \/ dep[u].status = "Building" => dir[u] = "whole"
  /\ dep[u].saw \in {"none", "whole"}
  /\ dep[u].status \in {"Healthy", "Inactive"} \/ client[u].at = "ok" => dep[u].saw = "whole"

PushInv ==
  /\ PushTypeOK /\ ServiceRowsParse
  /\ \A u \in Pushers : HasIds(u)
  /\ \A u \in Pushers \ late : Fresh(u)

(* A step of one command is about its own ids, directory and deployment. *)
LEMMA OnePush ==
  ASSUME PushInv, PushTypeOK', ServiceRowsParse', NEW u \in Pushers, late \subseteq late',
         \A v \in Pushers \ {u} : client'[v] = client[v] /\ dir'[v] = dir[v] /\ dep'[v] = dep[v],
         HasIds(u)', u \notin late' => Fresh(u)'
  PROVE  PushInv'
  <1>1. ASSUME NEW v \in Pushers PROVE HasIds(v)'
    <2>1. CASE v = u BY <2>1
    <2>2. CASE v # u BY <1>1, <2>2 DEF PushInv, HasIds
    <2> QED BY <2>1, <2>2
  <1>2. ASSUME NEW v \in Pushers \ late' PROVE Fresh(v)'
    <2>1. CASE v = u BY <1>2, <2>1
    <2>2. CASE v # u BY <1>2, <2>2 DEF PushInv, Fresh
    <2> QED BY <2>1, <2>2
  <1> QED BY <1>1, <1>2 DEF PushInv

(* Only the command moves. *)
LEMMA CommandStep ==
  ASSUME PushInv, NEW u \in Pushers, NEW c \in Commands, client' = [client EXCEPT ![u] = c],
         UNCHANGED <<pushTables, pushDisk, dep>>,
         c.at \in {"services", "put", "save"} => c.pid \in Pushers,
         c.at = "save" => c.sid \in Pushers,
         u \notin late => /\ c.at \notin {"poll", "ok", "error"} => dep[u] = [status |-> "none", saw |-> "none"]
                          /\ c.at \notin {"extract", "deploy"}
                          /\ c.at = "ok" => dep[u].saw = "whole"
  PROVE  PushInv'
  <1>1. PushTypeOK' BY DEF PushInv, PushTypeOK, pushTables, pushDisk
  <1>2. ServiceRowsParse' BY DEF PushInv, ServiceRowsParse, list_services, parse_service_row, pushTables
  <1>3. client'[u] = c /\ \A v \in Pushers \ {u} : client'[v] = client[v] BY DEF PushInv, PushTypeOK
  <1>4. HasIds(u)' BY <1>3 DEF HasIds
  <1>5. u \notin late' => Fresh(u)' BY <1>3 DEF PushInv, Fresh, pushDisk
  <1> QED BY <1>1, <1>2, <1>3, <1>4, <1>5, OnePush DEF pushDisk

(* A step that moves the command to a place where nothing more is known. *)
LEMMA MoveStep ==
  ASSUME PushInv, NEW u \in Pushers, NEW to \in Places, Move(u, to), UNCHANGED <<pushTables, pushDisk, dep>>,
         \/ to = "error"
         \/ /\ client[u].at \notin {"poll", "ok", "error"}
            /\ to \in {"projects", "put", "upload", "pack"}
            /\ to = "put" => client[u].at = "services"
  PROVE  PushInv'
  <1> DEFINE c == [client[u] EXCEPT !.at = to]
  <1>1. client[u] \in Commands BY DEF PushInv, PushTypeOK
  <1>2. c \in Commands /\ c.at = to /\ c.pid = client[u].pid /\ c.sid = client[u].sid BY <1>1 DEF Commands
  <1>3. client' = [client EXCEPT ![u] = c] BY DEF Move, PushInv, PushTypeOK
  <1>4. HasIds(u) /\ (u \notin late => Fresh(u)) BY DEF PushInv
  <1> HIDE DEF c
  <1> QED BY <1>2, <1>3, <1>4, CommandStep DEF HasIds, Fresh

(* The steps before the upload preserve the invariant. *)
LEMMA CreateStep ==
  ASSUME PushInv, NEW u \in Pushers,
         \/ resolve(u) \/ create_service_from_manifest(u) \/ create_project(u)
         \/ put_upload_service(u) \/ put_service_q(u) \/ pack_context(u)
  PROVE  PushInv'
  <1>0. /\ client[u] \in Commands /\ HasIds(u) /\ (u \notin late => Fresh(u)) /\ Nothing \notin Pushers
        /\ \A p \in Pushers : service[p] # Nothing => service[p] \in Rows
        /\ project # Nothing => project \in Rows
    BY PushAssumption DEF PushInv, PushTypeOK
  <1>e. ASSUME NEW c \in Commands, client' = [client EXCEPT ![u] = c], UNCHANGED <<pushTables, pushDisk, dep>>,
               client[u].at \notin {"poll", "ok", "error"}, c.at \in {"new project", "services", "pack", "save"},
               c.at \in {"services", "save"} => c.pid \in Pushers, c.at = "save" => c.sid \in Pushers
        PROVE  PushInv'
    BY <1>e, <1>0, CommandStep DEF Fresh
  <1>1. CASE resolve(u)
    <2>1. client[u].at = "start" /\ UNCHANGED <<pushTables, pushDisk, dep>> BY <1>1 DEF resolve, ClientAt
    <2>2. CASE Move(u, "projects") \/ Move(u, "error") BY <2>1, <2>2, MoveStep DEF Places
    <2>3. CASE /\ project # Nothing /\ service[project.json] # Nothing
               /\ client' = [client EXCEPT ![u].at = "pack", ![u].sid = service[project.json].row]
      <3> DEFINE c == [client[u] EXCEPT !.at = "pack", !.sid = service[project.json].row]
      <3>1. project.json \in Pushers BY <1>0, <2>3 DEF Rows
      <3>2. service[project.json].row \in Pushers BY <1>0, <2>3, <3>1 DEF Rows
      <3>3. c \in Commands /\ c.at = "pack" BY <1>0, <3>2 DEF Commands, PushIds, Places
      <3>4. client' = [client EXCEPT ![u] = c] BY <2>3 DEF PushInv, PushTypeOK
      <3> HIDE DEF c
      <3> QED BY <2>1, <3>3, <3>4, <1>e
    <2> QED BY <1>1, <2>2, <2>3 DEF resolve
  <1>2. CASE create_service_from_manifest(u)
    <2>1. UNCHANGED <<pushTables, pushDisk, dep>> BY <1>2 DEF create_service_from_manifest
    <2>2. CASE /\ ClientAt(u, "projects")
               /\ client' = [client EXCEPT ![u] =
                    IF project = Nothing THEN [@ EXCEPT !.at = "new project"]
                    ELSE [@ EXCEPT !.at = "services", !.pid = project.json]]
      <3> DEFINE c == IF project = Nothing THEN [client[u] EXCEPT !.at = "new project"]
                      ELSE [client[u] EXCEPT !.at = "services", !.pid = project.json]
      <3>1. CASE project = Nothing
        <4>1. c \in Commands /\ c.at = "new project" BY <1>0, <3>1 DEF Commands, Places
        <4>2. client' = [client EXCEPT ![u] = c] BY <2>2 DEF PushInv, PushTypeOK
        <4> HIDE DEF c
        <4> QED BY <2>1, <2>2, <4>1, <4>2, <1>e DEF ClientAt
      <3>2. CASE project # Nothing
        <4>0. project.json \in Pushers BY <1>0, <3>2 DEF Rows
        <4>1. c \in Commands /\ c.at = "services" /\ c.pid \in Pushers BY <1>0, <3>2, <4>0 DEF Commands, Places, PushIds
        <4>2. client' = [client EXCEPT ![u] = c] BY <2>2 DEF PushInv, PushTypeOK
        <4> HIDE DEF c
        <4> QED BY <2>1, <2>2, <4>1, <4>2, <1>e DEF ClientAt
      <3> QED BY <3>1, <3>2
    <2>3. CASE ClientAt(u, "services") /\ (Move(u, "put") \/ Move(u, "error"))
      BY <2>1, <2>3, MoveStep DEF Places, ClientAt
    <2> QED BY <1>2, <2>2, <2>3 DEF create_service_from_manifest
  <1>3. CASE create_project(u)
    <2> DEFINE c == [client[u] EXCEPT !.at = "services", !.pid = u]
    <2>1. c \in Commands /\ c.at = "services" /\ c.pid = u BY <1>0 DEF Commands, Places, PushIds
    <2>2. client[u].at = "new project" /\ UNCHANGED <<service, pushDisk, dep>> BY <1>3 DEF create_project, ClientAt
    <2>3. client' = [client EXCEPT ![u] = c] BY <1>3 DEF create_project, PushInv, PushTypeOK
    <2> HIDE DEF c
    <2>4. project' \in Rows
      <3>1. CASE project = Nothing BY <1>3, <3>1 DEF create_project, put_project_q, Rows
      <3>2. CASE project # Nothing BY <1>0, <1>3, <3>2 DEF create_project, put_project_q, Rows
      <3> QED BY <3>1, <3>2
    <2>5. PushTypeOK' BY <2>1, <2>2, <2>3, <2>4 DEF PushInv, PushTypeOK, pushDisk
    <2>6. ServiceRowsParse' BY <2>2 DEF PushInv, ServiceRowsParse, list_services, parse_service_row
    <2>7. client'[u] = c /\ \A v \in Pushers \ {u} : client'[v] = client[v] BY <2>3 DEF PushInv, PushTypeOK
    <2>8. HasIds(u)' BY <2>1, <2>7 DEF HasIds
    <2>9. u \notin late' => Fresh(u)' BY <1>0, <2>1, <2>2, <2>7 DEF Fresh, pushDisk
    <2> QED BY <2>2, <2>5, <2>6, <2>7, <2>8, <2>9, OnePush DEF pushDisk
  <1>4. CASE put_upload_service(u)
    <2>1. client[u].at = "put" /\ client[u].pid \in Pushers BY <1>0, <1>4 DEF put_upload_service, ClientAt, HasIds
    <2>2. PICK id \in Pushers : id = (IF service[client[u].pid] = Nothing THEN u ELSE service[client[u].pid].row)
      BY <1>0, <2>1 DEF Rows
    <2> DEFINE c == [client[u] EXCEPT !.at = "save", !.sid = id]
    <2>3. c \in Commands /\ c.at = "save" /\ c.sid = id /\ c.pid = client[u].pid BY <1>0 DEF Commands, Places, PushIds
    <2>4. client' = [client EXCEPT ![u] = c] /\ UNCHANGED <<pushTables, pushDisk, dep>>
      BY <1>4, <2>2 DEF put_upload_service, PushInv, PushTypeOK
    <2> HIDE DEF c
    <2> QED BY <2>1, <2>3, <2>4, <1>e
  <1>5. CASE put_service_q(u)
    <2>1. client[u].at = "save" /\ client[u].pid \in Pushers /\ client[u].sid \in Pushers
      BY <1>0, <1>5 DEF put_service_q, ClientAt, HasIds
    <2> DEFINE p == client[u].pid
               id == client[u].sid
    <2>2. UNCHANGED <<project, pushDisk, dep>> BY <1>5 DEF put_service_q
    <2>3. CASE service[p] # Nothing /\ service[p].row # id
      <3>1. Move(u, "error") /\ UNCHANGED service BY <1>5, <2>3 DEF put_service_q
      <3> QED BY <2>2, <3>1, MoveStep DEF Places, pushTables
    <2>4. CASE ~(service[p] # Nothing /\ service[p].row # id)
      <3>1. Move(u, "pack") BY <1>5, <2>4 DEF put_service_q
      <3>2. service' = [service EXCEPT ![p] = [row |-> id, json |-> id]] BY <1>5, <2>4 DEF put_service_q
      <3>3. [row |-> id, json |-> id] \in Rows BY <2>1 DEF Rows
      <3>4. service' \in [Pushers -> Rows \cup {Nothing}] /\ service'[p] = [row |-> id, json |-> id]
            /\ \A q \in Pushers \ {p} : service'[q] = service[q]
        BY <2>1, <3>2, <3>3 DEF PushInv, PushTypeOK
      <3>5. ServiceRowsParse' BY <3>4 DEF PushInv, ServiceRowsParse, list_services, parse_service_row
      <3> DEFINE c == [client[u] EXCEPT !.at = "pack"]
      <3>6. c \in Commands /\ c.at = "pack" BY <1>0 DEF Commands, Places
      <3>7. client' = [client EXCEPT ![u] = c] BY <3>1 DEF Move, PushInv, PushTypeOK
      <3> HIDE DEF c
      <3>8. client' \in [Pushers -> Commands] /\ client'[u] = c /\ \A v \in Pushers \ {u} : client'[v] = client[v]
        BY <3>6, <3>7 DEF PushInv, PushTypeOK
      <3>9. PushTypeOK' BY <2>2, <3>4, <3>8 DEF PushInv, PushTypeOK, pushDisk
      <3>10. HasIds(u)' BY <3>6, <3>8 DEF HasIds
      <3>11. u \notin late' => Fresh(u)' BY <1>0, <2>1, <2>2, <3>6, <3>8 DEF Fresh, pushDisk
      <3> QED BY <2>2, <3>5, <3>8, <3>9, <3>10, <3>11, OnePush DEF pushDisk
    <2> QED BY <2>3, <2>4
  <1>6. CASE pack_context(u)
    <2>1. client[u].at = "pack" /\ UNCHANGED <<pushTables, pushDisk, dep>> /\ (Move(u, "upload") \/ Move(u, "error"))
      BY <1>6 DEF pack_context, ClientAt
    <2> QED BY <2>1, MoveStep DEF Places
  <1> QED BY <1>1, <1>2, <1>3, <1>4, <1>5, <1>6

(* A step that changes the directory of an upload, and its deployment. *)
LEMMA DirectoryStep ==
  ASSUME PushInv, NEW u \in Pushers, NEW to \in Places, NEW content \in {"none", "empty", "archive", "part", "whole", "torn"},
         client' = [client EXCEPT ![u].at = to], dir' = [dir EXCEPT ![u] = content], aged' = aged \ {u},
         UNCHANGED <<late, pushTables>>,
         dep' \in [Pushers -> Builds], \A v \in Pushers \ {u} : dep'[v] = dep[v],
         to \notin {"services", "put", "save"},
         u \notin late =>
           /\ to \notin {"poll", "ok", "error"} => dep'[u] = [status |-> "none", saw |-> "none"]
           /\ to = "extract" => content = "part"
           /\ to = "deploy" \/ dep'[u].status = "Building" => content = "whole"
           /\ dep'[u].saw \in {"none", "whole"}
           /\ dep'[u].status \in {"Healthy", "Inactive"} \/ to = "ok" => dep'[u].saw = "whole"
  PROVE  PushInv'
  <1>1. client' \in [Pushers -> Commands] /\ client'[u].at = to /\ \A v \in Pushers \ {u} : client'[v] = client[v]
    <2> DEFINE c == [client[u] EXCEPT !.at = to]
    <2>1. client \in [Pushers -> Commands] BY DEF PushInv, PushTypeOK
    <2>2. client[u] \in Commands BY <2>1
    <2>3. c \in Commands /\ c.at = to BY <2>2 DEF Commands
    <2>4. client' = [client EXCEPT ![u] = c] BY <2>1
    <2> HIDE DEF c
    <2> QED BY <2>1, <2>3, <2>4
  <1>2. dir'[u] = content /\ \A v \in Pushers \ {u} : dir'[v] = dir[v] BY DEF PushInv, PushTypeOK
  <1>3. PushTypeOK' BY <1>1 DEF PushInv, PushTypeOK, pushTables
  <1>4. ServiceRowsParse' BY DEF PushInv, ServiceRowsParse, list_services, parse_service_row, pushTables
  <1>5. HasIds(u)' BY <1>1 DEF HasIds
  <1>6. u \notin late' => Fresh(u)' BY <1>1, <1>2 DEF Fresh
  <1> QED BY <1>1, <1>2, <1>3, <1>4, <1>5, <1>6, OnePush

(* The upload and the deployment preserve it. *)
LEMMA UploadStep ==
  ASSUME PushInv, NEW u \in Pushers,
         \/ upload_handler(u) \/ extract_tar_zst(u) \/ RejectUpload(u) \/ BreakUpload(u)
         \/ PushDeployment(u) \/ PollDeployment(u)
  PROVE  PushInv'
  <1> USE DEF Places
  <1>0. /\ client[u] \in Commands /\ dep \in [Pushers -> Builds] /\ dep[u] \in Builds
        /\ (u \notin late => Fresh(u))
    BY DEF PushInv, PushTypeOK
  <1>s. ASSUME NEW from \in {"upload", "body", "unpack", "extract"},
               NEW to \in {"body", "unpack", "extract", "deploy", "error"},
               NEW content \in {"empty", "archive", "part", "whole", "torn"}, Stage(u, from, to, content),
               to = "extract" => content = "part", u \notin late /\ to = "deploy" => content = "whole"
        PROVE  PushInv'
    <2>1. client[u].at = from /\ client' = [client EXCEPT ![u].at = to] /\ dir' = [dir EXCEPT ![u] = content]
          /\ aged' = aged \ {u} /\ UNCHANGED <<late, pushTables>> /\ dep' = dep
      BY <1>s DEF Stage, Move, ClientAt
    <2>2. u \notin late => dep[u] = [status |-> "none", saw |-> "none"] BY <1>0, <1>s, <2>1 DEF Fresh
    <2>3. u \notin late =>
            /\ to \notin {"poll", "ok", "error"} => dep'[u] = [status |-> "none", saw |-> "none"]
            /\ to = "extract" => content = "part"
            /\ to = "deploy" \/ dep'[u].status = "Building" => content = "whole"
            /\ dep'[u].saw \in {"none", "whole"}
            /\ dep'[u].status \in {"Healthy", "Inactive"} \/ to = "ok" => dep'[u].saw = "whole"
      BY <1>s, <2>1, <2>2
    <2>4. dep' \in [Pushers -> Builds] /\ \A v \in Pushers \ {u} : dep'[v] = dep[v] BY <1>0, <2>1
    <2>5. to \in Places /\ to \notin {"services", "put", "save"}
          /\ content \in {"none", "empty", "archive", "part", "whole", "torn"}
      BY <1>s
    <2> QED BY <2>1, <2>3, <2>4, <2>5, DirectoryStep, Zenon
  <1>1. CASE upload_handler(u)
    <2>1. ASSUME Stage(u, "upload", "body", "empty") PROVE PushInv' BY <2>1, <1>s
    <2>2. ASSUME Stage(u, "body", "unpack", "archive") PROVE PushInv' BY <2>2, <1>s
    <2>3. ASSUME Stage(u, "unpack", "extract", "part") PROVE PushInv' BY <2>3, <1>s
    <2> QED BY <1>1, <2>1, <2>2, <2>3 DEF upload_handler
  <1>2. CASE extract_tar_zst(u)
    <2>1. PICK to \in {"deploy", "error"} : Stage(u, "extract", to, IF dir[u] = "part" THEN "whole" ELSE "torn")
      BY <1>2 DEF extract_tar_zst
    <2>2. PICK content \in {"whole", "torn"} : content = (IF dir[u] = "part" THEN "whole" ELSE "torn") OBVIOUS
    <2>3. Stage(u, "extract", to, content) BY <2>1, <2>2
    <2>4. u \notin late => content = "whole" BY <1>0, <2>2, <2>3 DEF Fresh, Stage, ClientAt
    <2> QED BY <2>3, <2>4, <1>s
  <1>3. CASE RejectUpload(u)
    <2>1. client[u].at \in {"upload", "body", "unpack", "extract"} BY <1>3 DEF RejectUpload, Uploading
    <2>2. client' = [client EXCEPT ![u].at = "error"] /\ dir' = [dir EXCEPT ![u] = "none"] /\ aged' = aged \ {u}
          /\ UNCHANGED <<late, pushTables>> /\ dep' = dep
      BY <1>3 DEF RejectUpload, Move
    <2>3. u \notin late => dep'[u] = [status |-> "none", saw |-> "none"] BY <1>0, <2>1, <2>2 DEF Fresh
    <2>4. u \notin late =>
            /\ dep'[u].status # "Building" /\ dep'[u].saw \in {"none", "whole"}
            /\ dep'[u].status \notin {"Healthy", "Inactive"}
      BY <2>3
    <2>5. dep' \in [Pushers -> Builds] /\ \A v \in Pushers \ {u} : dep'[v] = dep[v] BY <1>0, <2>2
    <2> QED BY <2>2, <2>4, <2>5, DirectoryStep
  <1>4. CASE BreakUpload(u) BY <1>4, MoveStep DEF BreakUpload
  <1>5. CASE PushDeployment(u)
    <2>1. client[u].at = "deploy" /\ UNCHANGED <<pushTables, pushDisk>> BY <1>5 DEF PushDeployment, ClientAt
    <2>2. CASE Move(u, "error") /\ UNCHANGED dep BY <2>1, <2>2, MoveStep
    <2>3. CASE dep' = [dep EXCEPT ![u].status = "Building"] /\ (Move(u, "poll") \/ Move(u, "error"))
      <3>1. PICK to \in {"poll", "error"} : client' = [client EXCEPT ![u].at = to] BY <2>3 DEF Move
      <3> DEFINE b == [dep[u] EXCEPT !.status = "Building"]
      <3>2. b \in Builds /\ b.status = "Building" /\ b.saw = dep[u].saw BY <1>0 DEF Builds
      <3>3. dep' = [dep EXCEPT ![u] = b] BY <2>3, <1>0
      <3> HIDE DEF b
      <3>4. dep' \in [Pushers -> Builds] /\ dep'[u] = b /\ \A v \in Pushers \ {u} : dep'[v] = dep[v] BY <1>0, <3>2, <3>3
      <3> DEFINE c == [client[u] EXCEPT !.at = to]
      <3>5. c \in Commands /\ c.at = to BY <1>0 DEF Commands
      <3>6. client' = [client EXCEPT ![u] = c] BY <3>1 DEF PushInv, PushTypeOK
      <3> HIDE DEF c
      <3>7. client' \in [Pushers -> Commands] /\ client'[u] = c /\ \A v \in Pushers \ {u} : client'[v] = client[v]
        BY <3>5, <3>6 DEF PushInv, PushTypeOK
      <3>8. PushTypeOK' BY <2>1, <3>4, <3>7 DEF PushInv, PushTypeOK, pushTables, pushDisk
      <3>9. ServiceRowsParse' BY <2>1 DEF PushInv, ServiceRowsParse, list_services, parse_service_row, pushTables
      <3>10. HasIds(u)' BY <3>5, <3>7 DEF HasIds
      <3>11. u \notin late' => Fresh(u)' BY <1>0, <2>1, <3>2, <3>4, <3>5, <3>7 DEF Fresh, pushDisk
      <3> QED BY <2>1, <3>4, <3>7, <3>8, <3>9, <3>10, <3>11, OnePush DEF pushDisk
    <2> QED BY <1>5, <2>2, <2>3 DEF PushDeployment
  <1>6. CASE PollDeployment(u)
    <2>1. client[u].at = "poll" /\ UNCHANGED <<pushTables, pushDisk, dep>> BY <1>6 DEF PollDeployment, ClientAt
    <2>2. PICK to \in {"ok", "error", "poll"} :
            /\ to = (CASE client[u].polls = MaxPolls -> "error"
                       [] dep[u].status = "Healthy" -> "ok"
                       [] dep[u].status = "Failed" -> "error"
                       [] OTHER -> "poll")
            /\ to = "ok" => dep[u].status = "Healthy"
      <3> DEFINE at == CASE client[u].polls = MaxPolls -> "error"
                         [] dep[u].status = "Healthy" -> "ok"
                         [] dep[u].status = "Failed" -> "error"
                         [] OTHER -> "poll"
      <3>1. at \in {"ok", "error", "poll"} /\ (at = "ok" => dep[u].status = "Healthy") OBVIOUS
      <3> WITNESS at \in {"ok", "error", "poll"}
      <3> QED BY <3>1
    <2>3. PICK n \in Nat : n = (IF client[u].polls = MaxPolls THEN 0 ELSE client[u].polls + 1)
      <3>1. client[u].polls \in Nat BY <1>0 DEF Commands
      <3>2. (IF client[u].polls = MaxPolls THEN 0 ELSE client[u].polls + 1) \in Nat BY <3>1
      <3> QED BY <3>2
    <2> DEFINE c == [client[u] EXCEPT !.at = to, !.polls = n]
    <2>4. c \in Commands /\ c.at = to BY <1>0 DEF Commands
    <2>5. client' = [client EXCEPT ![u] = c] BY <1>6, <2>2, <2>3 DEF PollDeployment, PushInv, PushTypeOK
    <2> HIDE DEF c
    <2> QED BY <1>0, <2>1, <2>2, <2>4, <2>5, CommandStep DEF Fresh
  <1> QED BY <1>1, <1>2, <1>3, <1>4, <1>5, <1>6

(* So do the build, its end, the sweep and the passing of time. *)
LEMMA ServerStep ==
  ASSUME PushInv, NEW u \in Pushers,
         BuildContext(u) \/ EndDeployment(u) \/ Supersede(u) \/ sweep_expired_uploads(u) \/ Expire(u)
  PROVE  PushInv'
  <1>0. /\ PushTypeOK /\ HasIds(u) /\ dep[u] \in Builds /\ (u \notin late => Fresh(u)) /\ ServiceRowsParse
    BY DEF PushInv, PushTypeOK
  <1>1. UNCHANGED <<client, pushTables>> BY DEF BuildContext, EndDeployment, Supersede, sweep_expired_uploads, Expire
  <1>2. ServiceRowsParse' BY <1>0, <1>1 DEF ServiceRowsParse, list_services, parse_service_row, pushTables
  <1>3. HasIds(u)' BY <1>0, <1>1 DEF HasIds
  <1>b. ASSUME NEW b \in Builds, dep' = [dep EXCEPT ![u] = b]
        PROVE  dep' \in [Pushers -> Builds] /\ dep'[u] = b /\ \A v \in Pushers \ {u} : dep'[v] = dep[v]
    BY <1>0, <1>b DEF PushTypeOK
  <1>4. CASE BuildContext(u)
    <2> DEFINE b == [dep[u] EXCEPT !.saw = dir[u]]
    <2>1. b \in Builds /\ b.saw = dir[u] /\ b.status = "Building" /\ dep[u].status = "Building" /\ UNCHANGED pushDisk
      BY <1>0, <1>4 DEF BuildContext, Builds, PushTypeOK
    <2>2. dep' = [dep EXCEPT ![u] = b] BY <1>0, <1>4 DEF BuildContext, PushTypeOK
    <2> HIDE DEF b
    <2>3. dep' \in [Pushers -> Builds] /\ dep'[u] = b /\ \A v \in Pushers \ {u} : dep'[v] = dep[v] BY <2>1, <2>2, <1>b
    <2>4. PushTypeOK' BY <1>0, <1>1, <2>1, <2>3 DEF PushTypeOK, pushDisk, pushTables
    <2>5. u \notin late' => Fresh(u)' BY <1>0, <1>1, <2>1, <2>3 DEF Fresh, pushDisk
    <2> QED BY <1>1, <1>2, <1>3, <2>1, <2>3, <2>4, <2>5, OnePush DEF pushDisk
  <1>5. CASE EndDeployment(u)
    <2>1. PICK s \in {"Healthy", "Failed"} :
            dep' = [dep EXCEPT ![u].status = s] /\ (s = "Healthy" => dep[u].saw # "none")
      BY <1>5 DEF EndDeployment
    <2> DEFINE b == [dep[u] EXCEPT !.status = s]
    <2>2. b \in Builds /\ b.saw = dep[u].saw /\ b.status = s BY <1>0 DEF Builds
    <2>3. dep' = [dep EXCEPT ![u] = b] BY <1>0, <2>1 DEF PushTypeOK
    <2> HIDE DEF b
    <2>4. dep' \in [Pushers -> Builds] /\ dep'[u] = b /\ \A v \in Pushers \ {u} : dep'[v] = dep[v] BY <2>2, <2>3, <1>b
    <2>5. dep[u].status = "Building" /\ dir' = [dir EXCEPT ![u] = "none"] /\ aged' = aged \ {u} /\ UNCHANGED late
      BY <1>5 DEF EndDeployment
    <2>6. dir' \in [Pushers -> {"none", "empty", "archive", "part", "whole", "torn"}]
          /\ \A v \in Pushers \ {u} : dir'[v] = dir[v]
      BY <1>0, <2>5 DEF PushTypeOK
    <2>7. PushTypeOK' BY <1>0, <1>1, <2>4, <2>5, <2>6 DEF PushTypeOK, pushTables
    <2>8. u \notin late' => Fresh(u)'
      <3> SUFFICES ASSUME u \notin late PROVE Fresh(u)' BY <2>5
      <3>1. Fresh(u) BY <1>0
      <3>2. client[u].at \in {"poll", "ok", "error"} BY <3>1, <2>5 DEF Fresh
      <3> QED BY <1>1, <2>1, <2>2, <2>4, <2>5, <3>1, <3>2 DEF Fresh
    <2> QED BY <1>1, <1>2, <1>3, <2>4, <2>5, <2>6, <2>7, <2>8, OnePush
  <1>6. CASE Supersede(u)
    <2> DEFINE b == [dep[u] EXCEPT !.status = "Inactive"]
    <2>1. b \in Builds /\ b.saw = dep[u].saw /\ b.status = "Inactive" /\ dep[u].status = "Healthy" /\ UNCHANGED pushDisk
      BY <1>0, <1>6 DEF Supersede, Builds
    <2>2. dep' = [dep EXCEPT ![u] = b] BY <1>0, <1>6 DEF Supersede, PushTypeOK
    <2> HIDE DEF b
    <2>3. dep' \in [Pushers -> Builds] /\ dep'[u] = b /\ \A v \in Pushers \ {u} : dep'[v] = dep[v] BY <2>1, <2>2, <1>b
    <2>4. PushTypeOK' BY <1>0, <1>1, <2>1, <2>3 DEF PushTypeOK, pushDisk, pushTables
    <2>5. u \notin late' => Fresh(u)' BY <1>0, <1>1, <2>1, <2>3 DEF Fresh, pushDisk
    <2> QED BY <1>1, <1>2, <1>3, <2>1, <2>3, <2>4, <2>5, OnePush DEF pushDisk
  <1>7. CASE sweep_expired_uploads(u)
    <2>1. u \in late /\ UNCHANGED <<late, dep>> /\ aged' \subseteq aged BY <1>0, <1>7 DEF sweep_expired_uploads, PushTypeOK
    <2>2. PICK content \in {"none", "torn"} : dir' = [dir EXCEPT ![u] = content] BY <1>7 DEF sweep_expired_uploads
    <2>3. dir' \in [Pushers -> {"none", "empty", "archive", "part", "whole", "torn"}]
          /\ \A v \in Pushers \ {u} : dir'[v] = dir[v]
      BY <1>0, <2>2 DEF PushTypeOK
    <2>4. PushTypeOK' BY <1>0, <1>1, <2>1, <2>3 DEF PushTypeOK, pushTables
    <2> QED BY <1>1, <1>2, <1>3, <2>1, <2>3, <2>4, OnePush
  <1>8. CASE Expire(u)
    <2>1. UNCHANGED <<dir, dep>> /\ late' = late \cup {u} /\ aged' = aged \cup {u} BY <1>8 DEF Expire
    <2>2. PushTypeOK' BY <1>0, <1>1, <2>1 DEF PushTypeOK, pushTables
    <2> QED BY <1>1, <1>2, <1>3, <2>1, <2>2, OnePush
  <1> QED BY <1>4, <1>5, <1>6, <1>7, <1>8

(* The inductive invariant of any number of pushes at once. *)
THEOREM PushInvariant == PushSpec => []PushInv
  <1>1. PushInit => PushInv
    <2> SUFFICES ASSUME PushInit PROVE PushInv OBVIOUS
    <2>1. PushTypeOK BY DEF PushInit, PushTypeOK, Commands, Builds, Places, PushIds
    <2>2. ServiceRowsParse BY DEF PushInit, ServiceRowsParse, list_services
    <2>3. \A u \in Pushers : HasIds(u) /\ Fresh(u) BY DEF PushInit, HasIds, Fresh
    <2> QED BY <2>1, <2>2, <2>3 DEF PushInv
  <1>2. PushInv /\ [PushNext]_pushVars => PushInv'
    <2> SUFFICES ASSUME PushInv, [PushNext]_pushVars PROVE PushInv' OBVIOUS
    <2>1. CASE UNCHANGED pushVars
      BY <2>1 DEF pushVars, pushTables, pushDisk, PushInv, PushTypeOK, ServiceRowsParse, list_services, parse_service_row,
        HasIds, Fresh
    <2>2. CASE PushNext
      <3>1. PICK u \in Pushers : PushStep(u) BY <2>2 DEF PushNext
      <3> QED BY <3>1, CreateStep, UploadStep, ServerStep DEF PushStep
    <2> QED BY <2>1, <2>2
  <1> QED BY <1>1, <1>2, PTL DEF PushSpec

(* A push that reports success has deployed all of the context it packed,   *)
(* unless its upload expired on the way, for any number of people who push  *)
(* the same service, whichever requests and answers are lost.               *)
THEOREM PushedAlwaysWhole == PushSpec => []PushedIsWhole
  <1>1. PushInv => PushedIsWhole BY DEF PushInv, Fresh, PushedIsWhole, ClientAt
  <1> QED BY <1>1, PushInvariant, PTL

(* The row of a service that several people create at once stays readable,  *)
(* and with it the list of services that everyone and every boot reads.     *)
THEOREM ServiceRowsAlwaysParse == PushSpec => []ServiceRowsParse
  <1>1. PushInv => ServiceRowsParse BY DEF PushInv
  <1> QED BY <1>1, PushInvariant, PTL
=============================================================================
