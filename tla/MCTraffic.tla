----------------------------- MODULE MCTraffic ------------------------------
(* Five parts that face the users of the daemon and share no state, each   *)
(* explored by itself: the scaling loop (a band of 0..3 replicas, CPU      *)
(* target 50%, memory target 80%, cooldown of 3 seconds and ticks 1 or 2   *)
(* seconds apart), the pool of a service, the cold start of one, the       *)
(* certificates, and two pushes.                                           *)
EXTENDS ScalerLoop, ServicePool, Activation, Certificates, Push

VARIABLE part   \* the one that runs

MCPolicy ==
  [min |-> 0, max |-> 3, targetCpu |-> 50, targetMem |-> 80,
   cooldown |-> 3, idle |-> 5]

allVars == <<part, vars, poolVars, actVars, certVars, pushVars>>

TrafficInit ==
  /\ part \in {"scaler", "pool", "activation", "certificates", "push"}
  /\ Init /\ PoolInit /\ ActInit /\ CertInit /\ PushInit
  /\ part # "scaler" => count = 1

TrafficNext ==
  /\ UNCHANGED part
  /\ \/ part = "scaler" /\ Next /\ UNCHANGED <<poolVars, actVars, certVars, pushVars>>
     \/ part = "pool" /\ PoolNext /\ UNCHANGED <<vars, actVars, certVars, pushVars>>
     \/ part = "activation" /\ ActNext /\ UNCHANGED <<vars, poolVars, certVars, pushVars>>
     \/ part = "certificates" /\ CertNext /\ UNCHANGED <<vars, poolVars, actVars, pushVars>>
     \/ part = "push" /\ PushNext /\ UNCHANGED <<vars, poolVars, actVars, certVars>>

(* The fairness of Activation, Certificates and Push, of the part that     *)
(* runs.                                                                   *)
TrafficFairness ==
  /\ \A r \in Requests :
       /\ WF_actVars(part = "activation" /\ Resolve(r))
       /\ WF_actVars(part = "activation" /\ Timeout(r))
  /\ WF_certVars(part = "certificates" /\ OwnStep)
  /\ SF_certVars(part = "certificates" /\ RenewTick)
  /\ \A u \in Pushers :
       /\ WF_pushVars(part = "push" /\ Expire(u))
       /\ WF_pushVars(part = "push" /\ sweep_expired_uploads(u))

TrafficSpec == TrafficInit /\ [][TrafficNext]_allVars /\ TrafficFairness
=============================================================================
