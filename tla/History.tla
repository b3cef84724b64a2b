------------------------------ MODULE History -------------------------------
(***************************************************************************)
(* The deployment history of each service, as src/domain/deployment.rs and *)
(* the API present it: a service has one deployment under way at a time    *)
(* and at most one current one; a row is written when its deployment is    *)
(* accepted, ends once, and is touched again only when its deployment is   *)
(* replaced or stopped as the current one.  What builds, launches, probes  *)
(* and routes a deployment, and what boot restarts, does not show.         *)
(***************************************************************************)
CONSTANTS Services, Deployments, SvcOf, NoDep

VARIABLES
  row,       \* "none", "open" (its deployment is under way), "stale" (written, but
             \* nothing works on it), "Healthy", "Failed", "Stopped" or "Inactive"
  current    \* current[s]: the deployment that should run, or NoDep

vars == <<row, current>>

Init ==
  /\ row = [d \in Deployments |-> "none"]
  /\ current = [s \in Services |-> NoDep]

Open(s) == {d \in Deployments : SvcOf[d] = s /\ row[d] = "open"}

Accept(d) ==
  /\ row[d] = "none" /\ Open(SvcOf[d]) = {}
  /\ \E r \in {"open", "stale"} : row' = [row EXCEPT ![d] = r]
  /\ UNCHANGED current

(* The deployment under way becomes the current one and the row of the one *)
(* it replaces Inactive, in one step.                                      *)
Promote(d) ==
  /\ row[d] = "open" /\ current[SvcOf[d]] # d
  /\ current' = [current EXCEPT ![SvcOf[d]] = d]
  /\ row' = [e \in Deployments |-> IF e = current[SvcOf[d]] THEN "Inactive" ELSE row[e]]

Succeed(d) ==
  /\ row[d] = "open" /\ current[SvcOf[d]] = d
  /\ row' = [row EXCEPT ![d] = "Healthy"]
  /\ UNCHANGED current

(* A deployment may fail before it is current or after. *)
Fail(d) ==
  /\ row[d] = "open"
  /\ row' = [row EXCEPT ![d] = "Failed"]
  /\ UNCHANGED current

(* A stop, while nothing is under way, first marks the current row and then *)
(* clears it.                                                              *)
Mark(s) ==
  /\ current[s] # NoDep /\ Open(s) = {}
  /\ row' = [row EXCEPT ![current[s]] = "Stopped"]
  /\ UNCHANGED current

Clear(s) ==
  /\ current[s] # NoDep /\ Open(s) = {} /\ row[current[s]] = "Stopped"
  /\ current' = [current EXCEPT ![s] = NoDep]
  /\ UNCHANGED row

(* A restart ends what was under way or never began.  It may take the place *)
(* of the promotion of one deployment, whose predecessor then says Inactive *)
(* and stays current.                                                      *)
Interrupt ==
  /\ \E cut \in {{}} \cup {{current[s]} : s \in {t \in Services : Open(t) \ {current[t]} # {}}} :
       row' = [d \in Deployments |->
         IF d \in cut THEN "Inactive"
         ELSE IF row[d] \in {"open", "stale"} THEN "Failed" ELSE row[d]]
  /\ UNCHANGED current

Next ==
  \/ \E d \in Deployments : Accept(d) \/ Promote(d) \/ Succeed(d) \/ Fail(d)
  \/ \E s \in Services : Mark(s) \/ Clear(s)
  \/ Interrupt

Spec == Init /\ [][Next]_vars
=============================================================================
