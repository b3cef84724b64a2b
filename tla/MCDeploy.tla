------------------------------ MODULE MCDeploy ------------------------------
(* Instances of Deploy: a1 and a2 are deployments of service a, b1 of b.    *)
EXTENDS Deploy, TLC

CONSTANTS a1, a2, b1

MCSvcOf == [d \in Deployments |-> IF d = b1 THEN "b" ELSE "a"]

(* The two deployments of a are alike. *)
MCSymmetry == Permutations({a1, a2})
=============================================================================
