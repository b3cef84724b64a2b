----------------------------- MODULE MCRuntime ------------------------------
(* Runtime with interchangeable calls and deployments. *)
EXTENDS Runtime, TLC

Symmetric == Permutations(Calls) \cup Permutations(Deps)
=============================================================================
