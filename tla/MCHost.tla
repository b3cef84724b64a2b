------------------------------- MODULE MCHost -------------------------------
(* Four parts of the daemon that share no state, each explored by itself:  *)
(* jobs, boot and shutdown, consoles, and the launch handshake.            *)
EXTENDS Jobs, Daemon, Console, Spawn

VARIABLE part   \* the one that runs

(* A daemon with nothing wrong in its settings, and the ways to get one    *)
(* wrong, in the environment or in a weaker source.                        *)
Good == [email |-> <<Unset, "set">>, control |-> <<Unset, "tls">>,
         challenge |-> <<Unset, "dns-01">>, token |-> <<Unset, Unset, "long">>,
         cf |-> <<Unset, "set">>]
MCSettings ==
  {Good,
   [Good EXCEPT !.email = <<Unset, Unset>>, !.control = <<"plain", "tls">>],
   [Good EXCEPT !.email = <<Unset, Unset>>],
   [Good EXCEPT !.token = <<"short", "long", "long">>],
   [Good EXCEPT !.challenge = <<"bad", "http-01">>],
   [Good EXCEPT !.cf = <<Unset, Unset>>]}

allVars == <<part, jobsVars, daemonVars, consoleVars, vars>>

HostInit ==
  /\ part \in {"jobs", "daemon", "console", "spawn"}
  /\ JobsInit /\ DaemonInit /\ ConsoleInit /\ Init
  /\ part # "daemon" => settings = Good

HostNext ==
  /\ UNCHANGED part
  /\ \/ part = "jobs" /\ JobsNext /\ UNCHANGED <<daemonVars, consoleVars, vars>>
     \/ part = "daemon" /\ DaemonNext /\ UNCHANGED <<jobsVars, consoleVars, vars>>
     \/ part = "console" /\ ConsoleNext /\ UNCHANGED <<jobsVars, daemonVars, vars>>
     \/ part = "spawn" /\ Next /\ UNCHANGED <<jobsVars, daemonVars, consoleVars>>

(* The fairness of the part that runs. *)
HostFairness ==
  /\ WF_jobsVars(part = "jobs" /\ Tick) /\ WF_jobsVars(part = "jobs" /\ Receive)
  /\ WF_daemonVars(part = "daemon" /\ GoesOn)
  /\ WF_daemonVars(part = "daemon" /\ executor = "idle" /\ run_executor)
  /\ \A c \in Conns : /\ SF_consoleVars(part = "console" /\ bridge_console_socket(c))
                       /\ WF_consoleVars(part = "console" /\ ~Stuck(c) /\ Teardown(c))
  /\ \A l \in Launches : WF_vars(part = "spawn" /\ Parent(l))

HostSpec == HostInit /\ [][HostNext]_allVars /\ HostFairness
=============================================================================
