------------------------------- MODULE Daemon -------------------------------
(***************************************************************************)
(* The life of the daemon process: the order in which run() of             *)
(* src/daemon.rs boots, what its tasks do next to each other, and how it   *)
(* stops (with the configuration of src/config.rs and the shared state of  *)
(* src/app.rs).  A session is one process; the files and the database      *)
(* outlive it, and so may workloads.  What a deployment, a job or the      *)
(* autoscaler does is in modules of their own: here they are holders of    *)
(* shared state, and launchers.                                            *)
(***************************************************************************)
EXTENDS Naturals, Sequences, FiniteSets

CONSTANTS Consoles, Deploys, MaxRuns, MaxSessions, Unset,
          Settings   \* the ways an operator may have configured the daemon

(* A setting is the sequence of what its sources say, the first of them     *)
(* first: the environment, the configuration file, a file of its own.       *)
Keys == {"email", "control", "challenge", "token", "cf"}

ASSUME DaemonAssumption ==
  /\ MaxRuns \in Nat /\ MaxSessions \in Nat
  /\ \A s \in Settings : DOMAIN s = Keys /\ \A k \in Keys : Len(s[k]) \in Nat

VARIABLES
  settings,      \* what the sources of each setting say
  tls,           \* whether a stored service has TLS
  stage,         \* where run() is
  session,       \* how many processes were started
  senders,       \* who holds a sender of the channel of job runs
  runs,          \* runs in that channel
  executor,      \* the executor: none, idle, busy or done
  streams,       \* open connections of the API
  consoles,      \* consoles whose connection was upgraded
  deploys,       \* deploys[d]: idle, running or launched
  workloads,     \* running workloads: who launched them, in which session
  stopping       \* the workloads that stop_all_workloads listed

daemonVars == <<settings, tls, stage, session, senders, runs, executor, streams, consoles,
                deploys, workloads, stopping>>

DaemonInit ==
  /\ settings \in Settings
  /\ tls = FALSE /\ stage = "down" /\ session = 0 /\ senders = {} /\ runs = 0
  /\ executor = "none" /\ streams = {} /\ consoles = {} /\ deploys = [d \in Deploys |-> "idle"]
  /\ workloads = {} /\ stopping = {}

Volatile == <<senders, runs, executor, streams, consoles, deploys>>
Kept == <<settings, tls, session, workloads, stopping>>

-----------------------------------------------------------------------------
(* The sources that say something of a setting.  An empty value says        *)
(* nothing, nor does a file that is missing or cannot be read.              *)
Said(k) == {i \in DOMAIN settings[k] : settings[k][i] # Unset}

(* The first source that says something, and a default after all of them. *)
Setting(k, default) ==
  IF Said(k) = {} THEN default
  ELSE settings[k][CHOOSE i \in Said(k) : \A j \in Said(k) : i <= j]

(* from_env refuses a token that is missing or short, and a value it cannot *)
(* parse; it does not look on for a source that says better.                *)
from_env ==
  /\ Setting("token", Unset) = "long"
  /\ Setting("challenge", "http-01") \in {"http-01", "dns-01"}

(* Some name wants a certificate: a service's, or the daemon's own. *)
acme_tls_in_use(serviceTls) == serviceTls \/ Setting("control", "plain") = "tls"

(* The authority needs an address to write to. *)
require_acme_email(inUse) == inUse => Setting("email", Unset) # Unset

(* DNS-01 needs its provider's credential as soon as it is chosen. *)
require_dns01_provider == Setting("challenge", "http-01") = "dns-01" => Setting("cf", Unset) # Unset

At(from, to) == stage = from /\ stage' = to

(* The process ends, by itself or not; what it held is gone. *)
Gone ==
  /\ stage' = "down" /\ senders' = {} /\ runs' = 0 /\ executor' = "none" /\ streams' = {}
  /\ consoles' = {} /\ deploys' = [d \in Deploys |-> "idle"]

Start ==
  /\ stage = "down" /\ session < MaxSessions /\ session' = session + 1
  /\ stage' = "config" /\ UNCHANGED <<settings, tls, workloads, stopping>> /\ UNCHANGED Volatile

(* The configuration file is read, or written from a template when there is *)
(* none: either may fail, and so may what from_env asks of the settings.    *)
Configure ==
  /\ stage = "config" /\ UNCHANGED Kept
  /\ \/ from_env /\ stage' = "store" /\ UNCHANGED Volatile
     \/ Gone

(* The store is opened and brought up to date, and what the last session    *)
(* left unfinished is failed.  Any of it may end the boot.                  *)
OpenStore ==
  /\ stage = "store" /\ UNCHANGED Kept
  /\ \/ stage' = "relocate" /\ UNCHANGED Volatile
     \/ Gone

(* The process moves into a cgroup next to those of the workloads.  That it *)
(* cannot ends the boot under /sys/fs/cgroup, and is logged elsewhere.      *)
relocate_daemon_cgroup ==
  /\ stage = "relocate" /\ UNCHANGED Kept
  /\ \/ stage' = "checks" /\ UNCHANGED Volatile
     \/ Gone

CheckTls ==
  /\ stage = "checks" /\ UNCHANGED Kept
  /\ IF require_acme_email(acme_tls_in_use(tls)) /\ require_dns01_provider
     THEN stage' = "sweep" /\ UNCHANGED Volatile
     ELSE Gone

(* sweep_orphans, before anything is launched; that it failed is logged. *)
Sweep ==
  /\ At("sweep", "spawn") /\ workloads' \in {{}, workloads}
  /\ UNCHANGED <<settings, tls, session, stopping>> /\ UNCHANGED Volatile

(* The scheduler, its loop, the API and whoever clones the API's state hold *)
(* senders of the channel; the executor holds its receiver.                 *)
SpawnTasks ==
  /\ At("spawn", "launch") /\ senders' = {"scheduler", "loop", "api"} /\ executor' = "idle"
  /\ UNCHANGED Kept /\ UNCHANGED <<runs, streams, consoles, deploys>>

(* reconcile_boot_all, then autostart_plain_promoted, then the routes. *)
Launch ==
  /\ At("launch", "bind") /\ workloads' = workloads \cup {<<"promoted", session>>}
  /\ UNCHANGED <<settings, tls, session, stopping>> /\ UNCHANGED Volatile

(* An address that is taken ends the daemon, with workloads already up. *)
Bind ==
  /\ stage = "bind" /\ UNCHANGED Kept
  /\ \/ stage' = "serving" /\ UNCHANGED Volatile
     \/ Gone

-----------------------------------------------------------------------------

(* A service with TLS is stored only if the next boot would accept it. *)
put_service == stage = "serving" /\ require_acme_email(TRUE) /\ tls' = TRUE

PutService ==
  put_service /\ UNCHANGED <<settings, stage, session, workloads, stopping>> /\ UNCHANGED Volatile

(* The loop of the scheduler, and the API, send runs. *)
SendRun ==
  /\ senders \cap {"loop", "api"} # {} /\ runs < MaxRuns /\ runs' = runs + 1
  /\ UNCHANGED Kept /\ UNCHANGED <<stage, senders, executor, streams, consoles, deploys>>

(* A tick of the autoscaler launches a replica, until the task is joined. *)
AutoscalerLaunches ==
  /\ stage \in {"bind", "serving", "draining", "stop loop", "drop", "executor", "autoscaler"}
  /\ workloads' = workloads \cup {<<"autoscaled", session>>}
  /\ UNCHANGED <<settings, tls, session, stopping, stage>> /\ UNCHANGED Volatile

(* run_executor: one run after the other, to its end, while anyone may send. *)
run_executor ==
  /\ \/ /\ executor = "idle" /\ runs > 0 /\ executor' = "busy" /\ runs' = runs - 1
        /\ workloads' = workloads \cup {<<"job", session>>}
     \/ /\ executor = "busy" /\ executor' = "idle" /\ workloads' = workloads \ {<<"job", session>>}
        /\ UNCHANGED runs
     \/ /\ executor = "idle" /\ runs = 0 /\ senders = {} /\ executor' = "done"
        /\ UNCHANGED <<runs, workloads>>
  /\ UNCHANGED <<settings, tls, session, stopping, stage, senders, streams, consoles, deploys>>

(* A request that is answered as it goes: a log that is followed, a push. *)
OpenStream ==
  /\ stage = "serving" /\ streams' = {"stream"}
  /\ UNCHANGED Kept /\ UNCHANGED <<stage, senders, runs, executor, consoles, deploys>>

CloseStream ==
  /\ streams # {} /\ streams' = {}
  /\ UNCHANGED Kept /\ UNCHANGED <<stage, senders, runs, executor, consoles, deploys>>

(* An upgraded connection has a task of its own, with a clone of the state  *)
(* and the sender in it.                                                    *)
OpenConsole(c) ==
  /\ stage = "serving" /\ c \notin consoles
  /\ consoles' = consoles \cup {c} /\ senders' = senders \cup {c}
  /\ UNCHANGED Kept /\ UNCHANGED <<stage, runs, executor, streams, deploys>>

CloseConsole(c) ==
  /\ c \in consoles /\ consoles' = consoles \ {c} /\ senders' = senders \ {c}
  /\ UNCHANGED Kept /\ UNCHANGED <<stage, runs, executor, streams, deploys>>

(* A deployment runs in a task that nobody waits for. *)
StartDeploy(d) ==
  /\ stage = "serving" /\ deploys[d] = "idle" /\ deploys' = [deploys EXCEPT ![d] = "running"]
  /\ UNCHANGED Kept /\ UNCHANGED <<stage, senders, runs, executor, streams, consoles>>

DeployLaunches(d) ==
  /\ deploys[d] = "running" /\ deploys' = [deploys EXCEPT ![d] = "launched"]
  /\ workloads' = workloads \cup {<<d, session>>}
  /\ UNCHANGED <<settings, tls, session, stopping, stage, senders, runs, executor, streams, consoles>>

-----------------------------------------------------------------------------
(* The signal, and what run() waits for, one after the other.  The API      *)
(* drains its connections, and its state goes with the router.              *)
shutdown_signal ==
  At("serving", "draining") /\ UNCHANGED Kept /\ UNCHANGED Volatile

Drained ==
  /\ At("draining", "stop loop") /\ streams = {} /\ senders' = senders \ {"api"}
  /\ UNCHANGED Kept /\ UNCHANGED <<runs, executor, streams, consoles, deploys>>

JoinLoop ==
  /\ At("stop loop", "drop") /\ senders' = senders \ {"loop"}
  /\ UNCHANGED Kept /\ UNCHANGED <<runs, executor, streams, consoles, deploys>>

(* Slip: the scheduler lives until run() returns. *)
drop_scheduler_Forgotten == senders

drop_scheduler == senders \ {"scheduler"}

DropScheduler ==
  /\ At("drop", "executor") /\ senders' = drop_scheduler
  /\ UNCHANGED Kept /\ UNCHANGED <<runs, executor, streams, consoles, deploys>>

JoinExecutor ==
  At("executor", "autoscaler") /\ executor = "done" /\ UNCHANGED Kept /\ UNCHANGED Volatile

(* The ingress, the certificates, the autoscaler and the collectors are     *)
(* told to stop and joined, in this order; the certificate task may be in   *)
(* an order that the authority does not answer.                             *)
JoinTasks == At("autoscaler", "list") /\ UNCHANGED Kept /\ UNCHANGED Volatile

(* stop_all_workloads: those that run now, each stopped or given up on. *)
ListRunning ==
  /\ At("list", "stop") /\ stopping' = workloads
  /\ UNCHANGED <<settings, tls, session, workloads>> /\ UNCHANGED Volatile

stop_all_workloads ==
  /\ At("stop", "return") /\ stopping' = {}
  /\ \E failed \in SUBSET stopping : workloads' = (workloads \ stopping) \cup failed
  /\ UNCHANGED <<settings, tls, session>> /\ UNCHANGED Volatile

Return == stage = "return" /\ Gone /\ UNCHANGED Kept

(* The process is killed: by the operator, by systemd when a stop takes too *)
(* long, by the kernel.  Workloads may survive it.                          *)
Kill ==
  /\ stage # "down" /\ Gone /\ \E left \in SUBSET workloads : workloads' = left
  /\ stopping' = {} /\ UNCHANGED <<settings, tls, session>>

Stop ==
  \/ Drained \/ JoinLoop \/ DropScheduler \/ JoinExecutor \/ JoinTasks
  \/ ListRunning \/ stop_all_workloads \/ Return

DaemonNext ==
  \/ Start \/ Configure \/ OpenStore \/ relocate_daemon_cgroup \/ CheckTls \/ Sweep
  \/ SpawnTasks \/ Launch \/ Bind
  \/ PutService \/ SendRun \/ AutoscalerLaunches \/ run_executor \/ OpenStream \/ CloseStream
  \/ \E c \in Consoles : OpenConsole(c) \/ CloseConsole(c)
  \/ \E d \in Deploys : StartDeploy(d) \/ DeployLaunches(d)
  \/ shutdown_signal \/ Stop \/ Kill

(* run() goes on when it can, and so does the executor between two runs.    *)
(* Nothing limits a run, nor a task that is joined.  The signal may never   *)
(* come, nor the kill; a client may never leave.                            *)
GoesOn ==
  \/ Drained \/ JoinLoop \/ DropScheduler \/ JoinExecutor
  \/ ListRunning \/ stop_all_workloads \/ Return
DaemonFairness == WF_daemonVars(GoesOn) /\ WF_daemonVars(executor = "idle" /\ run_executor)

DaemonSpec == DaemonInit /\ [][DaemonNext]_daemonVars /\ DaemonFairness

-----------------------------------------------------------------------------
(* A stop that was asked for ends once no client holds a connection:        *)
(* whoever holds a sender lets go of it, the executor works off its runs    *)
(* and sees that the channel is closed, and run() returns.  Unless a job's  *)
(* program, or a task that run() joins, never ends.                         *)
StopEnds ==
  \/ <>[](executor = "busy")
  \/ <>[](stage = "autoscaler")
  \/ stage = "draining" /\ streams = {} /\ consoles = {} ~> stage = "down"

(* What the API stored does not keep the daemon from booting: when a boot   *)
(* of any later session comes to its checks of the stored services, with    *)
(* the same settings, it passes the one on certificates.                    *)
StoredBootsAgain == stage = "checks" /\ tls => require_acme_email(acme_tls_in_use(tls))

(* What the comment at the end of run() says: the router dropped its sender *)
(* when the server returned, and with the scheduler's every sender is gone. *)
SendersGone == stage = "executor" => senders = {}
=============================================================================
