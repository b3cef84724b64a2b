----------------------------- MODULE MCWorkload -----------------------------
(* Four parts of what it takes to run a workload that share no state, each *)
(* explored by itself: the artifacts and their layer cache (an image that  *)
(* lists a layer twice), the sandbox, the files of a replica, and the      *)
(* proxy in front of it; and two of the daemon's own upkeep, the commands  *)
(* of an operator and the upgrade of the database.                         *)
EXTENDS Artifacts, Sandbox, Replica, Proxy, Install, Migrate, TLC

CONSTANTS i1, i2, l1, l2

VARIABLE part   \* the one that runs

MCLayering == (i1 :> <<l1, l2, l1>>) @@ (i2 :> <<l2>>)
MCStated == (i1 :> <<"right", "right", "right">>) @@ (i2 :> <<"other">>)
MCSocket == <<"var", "sock">>
MCHelper == <<"denia">>
MCOwner == ("r" :> "a") @@ ("s" :> "a")

allVars == <<part, artifactVars, sandboxVars, replicaVars, proxyVars, installVars, migrateVars>>

(* A part that does not run has one initial state. *)
WorkloadInit ==
  /\ part \in {"artifacts", "sandbox", "replica", "proxy", "install", "migrate"}
  /\ IF part = "sandbox" THEN TRUE
     ELSE /\ plan = [form |-> "service", user |-> "root", ro |-> FALSE]
          /\ lower = [n \in Names |-> "dir"]
  /\ IF part = "replica" THEN TRUE ELSE kind = "service"
  /\ IF part = "install" THEN TRUE ELSE bins = [target |-> 1, bak |-> 0, good |-> Versions]
  /\ IF part = "migrate" THEN TRUE ELSE db = [Blank EXCEPT !.single = TRUE, !.versions = {}]
  /\ ArtifactsInit /\ SandboxInit /\ ReplicaInit /\ ProxyInit /\ InstallInit /\ MigrateInit

WorkloadNext ==
  /\ UNCHANGED part
  /\ \/ /\ part = "artifacts" /\ ArtifactsNext
        /\ UNCHANGED <<sandboxVars, replicaVars, proxyVars, installVars, migrateVars>>
     \/ /\ part = "sandbox" /\ SandboxNext
        /\ UNCHANGED <<artifactVars, replicaVars, proxyVars, installVars, migrateVars>>
     \/ /\ part = "replica" /\ ReplicaNext
        /\ UNCHANGED <<artifactVars, sandboxVars, proxyVars, installVars, migrateVars>>
     \/ /\ part = "proxy" /\ ProxyNext
        /\ UNCHANGED <<artifactVars, sandboxVars, replicaVars, installVars, migrateVars>>
     \/ /\ part = "install" /\ InstallNext
        /\ UNCHANGED <<artifactVars, sandboxVars, replicaVars, proxyVars, migrateVars>>
     \/ /\ part = "migrate" /\ MigrateNext
        /\ UNCHANGED <<artifactVars, sandboxVars, replicaVars, proxyVars, installVars>>

WorkloadSpec == WorkloadInit /\ [][WorkloadNext]_allVars
=============================================================================
