---------------------------- MODULE MCAutoscaler ----------------------------
(* Instances of Autoscaler.  "web" is a service whose policy is edited      *)
(* between always-on and scale-to-zero, "fn" a scale-to-zero one; the       *)
(* budget is used up by two replicas.                                       *)
EXTENDS Autoscaler

Pol(min, max) == [min |-> min, max |-> max, targetCpu |-> 50, targetMem |-> 0,
                  cooldown |-> 1, idle |-> 1]
MCPolicies == [s \in Services |-> {Pol(1, 2), Pol(0, 1)}]
MCIdle == [s \in Services |-> {Pol(0, 2)}]

Lim(c, m) == [r \in Resources |-> IF r = "cpu" THEN c ELSE m]
MCWord == Lim(7, 7)
MCRoomy == Lim(2, 2)
MCTight == Lim(1, 1)
MCEdited == [s \in Services |-> {Lim(1, 1), Lim(1, 7)}]
MCOneUnit == [s \in Services |-> {Lim(1, 1)}]
=============================================================================
