----------------------------- MODULE Activation -----------------------------
(***************************************************************************)
(* Cold start of a scaled-to-zero service from the proxy's hot path:       *)
(* IngressState::resolve_or_activate (src/ingress/pingora/state.rs) as run *)
(* by concurrent requests for one service, against                         *)
(* SharedController::activate and the controller's own operations          *)
(* (src/autoscale/controller.rs), which share one lock.  A request is      *)
(* split at its awaits.                                                    *)
(***************************************************************************)
EXTENDS Integers, Sequences, FiniteSets

CONSTANTS
  Requests,
  Retries,   \* POST_ACTIVATION_RETRIES
  Free, Ctl  \* the controller's lock is free, or held by a tick or a deploy

ASSUME ActivationAssumption ==
  /\ Retries \in Nat \ {0}
  /\ Free \notin Requests /\ Ctl \notin Requests /\ Free # Ctl

VARIABLES
  hook,      \* the activator has been set
  replica,   \* the service's replica: "none", "launching", "healthy",
             \* "draining", or "leaked" -- registered by a launch that was
             \* dropped half-way
  backoff,   \* the failure backoff is running
  gate,      \* queue of the single-flight gate; its head holds it
  lock,      \* holder of the controller's lock
  phase,     \* phase[r]: where request r is
  tries,     \* tries[r]: polls made after the activation
  answer     \* answer[r]: what resolve_or_activate returned

actVars == <<hook, replica, backoff, gate, lock, phase, tries, answer>>

ActInit ==
  /\ hook = FALSE
  /\ replica = "none"
  /\ backoff = FALSE
  /\ gate = <<>>
  /\ lock = Free
  /\ phase = [r \in Requests |-> "idle"]
  /\ tries = [r \in Requests |-> 0]
  /\ answer = [r \in Requests |-> "none"]

Goto(r, p) == phase' = [phase EXCEPT ![r] = p]

InGate == {"recheck", "hook", "launch", "poll"}

(* resolve_or_activate returns; the gate's guard, if held, is dropped. *)
Answer(r, a) ==
  /\ phase' = [phase EXCEPT ![r] = "idle"]
  /\ tries' = [tries EXCEPT ![r] = 0]
  /\ answer' = [answer EXCEPT ![r] = a]
  /\ gate' = IF phase[r] \in InGate \cup {"gate"} THEN Tail(gate) ELSE gate

Stay == UNCHANGED <<tries, answer, gate>>

-----------------------------------------------------------------------------
SetActivator ==
  /\ ~hook
  /\ hook' = TRUE
  /\ UNCHANGED <<replica, backoff, gate, lock, phase, tries, answer>>

Arrive(r) ==
  /\ phase[r] = "idle"
  /\ Goto(r, "fast")
  /\ answer' = [answer EXCEPT ![r] = "none"]
  /\ UNCHANGED <<hook, replica, backoff, gate, lock, tries>>

(* next_socket, then the activator. *)
FastPath(r) ==
  /\ phase[r] = "fast"
  /\ \/ replica = "healthy" /\ Answer(r, "socket")
     \/ replica # "healthy" /\ ~hook /\ Answer(r, "unavailable")
     \/ replica # "healthy" /\ hook /\ Goto(r, "backoff") /\ Stay
  /\ UNCHANGED <<hook, replica, backoff, lock>>

(* activation_backoff_active, then the wait for the gate. *)
JoinGate(r) ==
  /\ phase[r] = "backoff"
  /\ \/ backoff /\ Answer(r, "backoff")
     \/ /\ ~backoff
        /\ gate' = Append(gate, r)
        /\ Goto(r, "gate")
        /\ UNCHANGED <<tries, answer>>
  /\ UNCHANGED <<hook, replica, backoff, lock>>

(* With the gate: another request may have activated, or failed to. *)
EnterGate_NoWait(r) ==
  /\ phase[r] = "gate"
  /\ IF replica = "healthy" THEN Answer(r, "socket") ELSE Goto(r, "recheck") /\ Stay
  /\ UNCHANGED <<hook, replica, backoff, lock>>
EnterGate(r) ==
  /\ phase[r] = "gate" /\ gate # <<>> /\ Head(gate) = r
  /\ IF replica = "healthy" THEN Answer(r, "socket") ELSE Goto(r, "recheck") /\ Stay
  /\ UNCHANGED <<hook, replica, backoff, lock>>

Recheck_NoBackoff(r) ==
  /\ phase[r] = "recheck"
  /\ Goto(r, "hook") /\ Stay
  /\ UNCHANGED <<hook, replica, backoff, lock>>
Recheck(r) ==
  /\ phase[r] = "recheck"
  /\ IF backoff THEN Answer(r, "backoff") ELSE Goto(r, "hook") /\ Stay
  /\ UNCHANGED <<hook, replica, backoff, lock>>

(* record_activation_failure / clear_activation_failure *)
Fail(r) == Answer(r, "failed") /\ backoff' = TRUE
Succeed(r) == Answer(r, "socket") /\ backoff' = FALSE

-----------------------------------------------------------------------------
(* The hook: the controller's lock, then activate_one. *)
Activate(r) ==
  /\ phase[r] = "hook" /\ lock = Free
  /\ \/ /\ replica # "none"           \* replica_count >= 1
        /\ Goto(r, "poll") /\ Stay
        /\ UNCHANGED <<replica, lock, backoff>>
     \/ /\ replica = "none"
        /\ lock' = r
        /\ replica' = "launching"
        /\ Goto(r, "launch") /\ Stay
        /\ UNCHANGED backoff
     \/ /\ replica = "none"           \* unknown service, or no capacity
        /\ Fail(r)
        /\ UNCHANGED <<replica, lock>>
  /\ UNCHANGED hook

Launched(r) ==
  /\ phase[r] = "launch"
  /\ lock' = Free
  /\ \/ replica' = "healthy" /\ Goto(r, "poll") /\ Stay /\ UNCHANGED backoff
     \/ replica' = "none" /\ Fail(r)
  /\ UNCHANGED hook

(* activate_and_wait polls for the socket. *)
Poll(r) ==
  /\ phase[r] = "poll"
  /\ \/ replica = "healthy" /\ Succeed(r)
     \/ /\ replica # "healthy" /\ tries[r] + 1 < Retries
        /\ tries' = [tries EXCEPT ![r] = @ + 1]
        /\ UNCHANGED <<phase, answer, gate, backoff>>
     \/ replica # "healthy" /\ tries[r] + 1 = Retries /\ Fail(r)
  /\ UNCHANGED <<hook, replica, lock>>

(* ACTIVATION_WAIT elapses: the hook's future is dropped where it stands. *)
Timeout_PollOnly(r) ==
  /\ phase[r] = "poll"
  /\ Fail(r)
  /\ UNCHANGED <<hook, replica, lock>>
Timeout(r) ==
  /\ phase[r] \in {"hook", "launch", "poll"}
  /\ Fail(r)
  /\ replica' = IF phase[r] = "launch" THEN "leaked" ELSE replica
  /\ lock' = IF lock = r THEN Free ELSE lock
  /\ UNCHANGED hook

BackoffExpires ==
  /\ backoff
  /\ backoff' = FALSE
  /\ UNCHANGED <<hook, replica, gate, lock, phase, tries, answer>>

-----------------------------------------------------------------------------
(* The controller at work on its own: a tick that drains an idle replica   *)
(* (a leaked one too), a deploy's reconcile that launches one.             *)
CtlStep ==
  /\ \/ lock = Free /\ lock' = Ctl /\ UNCHANGED replica
     \/ lock = Ctl /\ replica \notin {"launching", "draining"} /\ lock' = Free /\ UNCHANGED replica
     \/ /\ lock = Ctl /\ UNCHANGED lock
        /\ \/ replica = "none" /\ replica' = "launching"
           \/ replica = "launching" /\ replica' \in {"healthy", "none"}
           \/ replica \in {"healthy", "leaked"} /\ replica' = "draining"
           \/ replica = "draining" /\ replica' = "none"
  /\ UNCHANGED <<hook, backoff, gate, phase, tries, answer>>

Resolve(r) == FastPath(r) \/ JoinGate(r) \/ EnterGate(r) \/ Recheck(r) \/ Poll(r)

ActNext ==
  \/ \E r \in Requests : Arrive(r) \/ Resolve(r) \/ Activate(r) \/ Launched(r) \/ Timeout(r)
  \/ SetActivator \/ BackoffExpires \/ CtlStep

ActSpec == ActInit /\ [][ActNext]_actVars

(* A request's own steps are taken and its timer fires.  Nothing is        *)
(* assumed of the hook: a launch or the controller's lock may hang.        *)
ActFairness ==
  \A r \in Requests : WF_actVars(Resolve(r)) /\ WF_actVars(Timeout(r))
ActFairSpec == ActSpec /\ ActFairness

-----------------------------------------------------------------------------
Phases == {"idle", "fast", "backoff", "gate"} \cup InGate
Answers == {"none", "socket", "unavailable", "backoff", "failed"}

(* Types; a request polls at most Retries times (activate_and_wait). *)
TypeOK ==
  /\ hook \in BOOLEAN /\ backoff \in BOOLEAN
  /\ replica \in {"none", "launching", "healthy", "draining", "leaked"}
  /\ gate \in Seq(Requests)
  /\ lock \in Requests \cup {Free, Ctl}
  /\ phase \in [Requests -> Phases]
  /\ tries \in [Requests -> 0 .. Retries - 1]
  /\ answer \in [Requests -> Answers]

(* One activation at a time, whatever times out: the gate's holder is the  *)
(* only request past it, and a launch under way is that of the holder of   *)
(* the controller's lock (resolve_or_activate, activation_gate).           *)
SingleFlight ==
  /\ \A r \in Requests : phase[r] \in InGate => gate # <<>> /\ Head(gate) = r
  /\ \A r \in Requests : phase[r] = "launch" <=> lock = r
  /\ replica = "launching" => lock # Free

(* Requests queued behind a failed activation do not repeat it: no request *)
(* launches a replica while the backoff runs, however long it waited for   *)
(* the gate and for the controller (activation_backoff_active).            *)
NoLaunchInBackoff ==
  [][\A r \in Requests : phase[r] # "launch" /\ phase'[r] = "launch" => ~backoff]_actVars

(* Every request is answered, even if the hook hangs (the ACTIVATION_WAIT  *)
(* timeout of resolve_or_activate).                                        *)
EveryRequestAnswered ==
  \A r \in Requests : phase[r] # "idle" ~> phase[r] = "idle"

(* What ActivationHook's documentation promises: activate "only returns Ok *)
(* once at least one replica is Healthy".                                  *)
HookMeansHealthy ==
  [][\A r \in Requests : phase[r] # "poll" /\ phase'[r] = "poll" => replica' = "healthy"]_actVars
=============================================================================
