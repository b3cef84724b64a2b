------------------------------ MODULE Projects ------------------------------
(***************************************************************************)
(* Projects and their members: src/api/projects.rs, members.rs, the guards *)
(* of src/auth/guards.rs, and the tables of src/repo/sqlite/users.rs and   *)
(* projects.rs.  A call of the store is one step, under its lock; a        *)
(* handler checks a role in one call, looks at the members in a second and *)
(* writes in a third.  No table refers to another.                         *)
(***************************************************************************)
EXTENDS Naturals, FiniteSets

CONSTANTS People,   \* user ids
          Handlers  \* requests under way at once

VARIABLES
  people,   \* the rows of users; Root, the super admin, is not among them
  project,  \* whether the project exists
  member,   \* member[p]: the role of p in the project
  tasks,    \* tasks[h]: the request of handler h
  managed   \* the project has got an admin, and no admin's account was deleted since

projectVars == <<people, project, member, tasks, managed>>

(* Roles in their order. *)
NoRole == 0
Viewer == 1
Operator == 2
Admin == 3
Root == "root"
NoTask == [pc |-> "none"]

ProjectsInit ==
  /\ people = People /\ project = TRUE /\ member = [p \in People |-> NoRole]
  /\ tasks = [h \in Handlers |-> NoTask] /\ managed = FALSE

-----------------------------------------------------------------------------
role_for_q(p) == member[p]

(* A super admin needs no role. *)
require_project_role(who, role, min) == who = Root \/ role >= min
ensure_role(who, min) ==
  require_project_role(who, IF who = Root THEN NoRole ELSE role_for_q(who), min)

Reply(h) == tasks' = [tasks EXCEPT ![h] = NoTask]
TaskAt(h, verb, pc) == tasks[h].pc = pc /\ tasks[h].verb = verb

(* A request whose caller is Admin of the project, and on whom it is about. *)
Admit(h, verb) ==
  /\ tasks[h] = NoTask
  /\ \E who \in people \cup {Root}, p \in People, role \in {Viewer, Operator, Admin} :
       /\ ensure_role(who, Admin)
       /\ tasks' = [tasks EXCEPT ![h] = [verb |-> verb, pc |-> "look", user |-> p, role |-> role]]
  /\ UNCHANGED <<people, project, member, managed>>

set_membership_q(p, role) ==
  /\ member' = [member EXCEPT ![p] = role]
  /\ managed' = (managed \/ role = Admin)

(* A user that exists when looked for gets the role, whatever role it had. *)
add_project_member(h) ==
  \/ /\ TaskAt(h, "add", "look")
     /\ IF tasks[h].user \in people THEN tasks' = [tasks EXCEPT ![h].pc = "write"] ELSE Reply(h)
     /\ UNCHANGED <<people, project, member, managed>>
  \/ /\ TaskAt(h, "add", "write") /\ set_membership_q(tasks[h].user, tasks[h].role) /\ Reply(h)
     /\ UNCHANGED <<people, project>>

list_members_q == {p \in People : member[p] # NoRole}

(* The guard against the lockout looks at the members as they are now. *)
remove_project_member(h) ==
  \/ /\ TaskAt(h, "remove", "look")
     /\ LET admins == {p \in list_members_q : member[p] >= Admin} IN
        IF tasks[h].user \in admins /\ Cardinality(admins) <= 1 THEN Reply(h)
        ELSE tasks' = [tasks EXCEPT ![h].pc = "write"]
     /\ UNCHANGED <<people, project, member, managed>>
  \/ /\ TaskAt(h, "remove", "write") /\ member' = [member EXCEPT ![tasks[h].user] = NoRole] /\ Reply(h)
     /\ UNCHANGED <<people, project, managed>>

(* By the super admin, who answers for the project if it loses an admin     *)
(* this way; memberships go with the user.                                  *)
delete_user_q(p) ==
  /\ p \in people /\ people' = people \ {p} /\ member' = [member EXCEPT ![p] = NoRole]
  /\ managed' = (managed /\ member[p] < Admin)
  /\ UNCHANGED <<project, tasks>>

(* Registries, jobs and memberships go with the project, if it has no       *)
(* service.                                                                 *)
delete_project(h) ==
  /\ TaskAt(h, "drop", "look") /\ Reply(h)
  /\ \/ project' = FALSE /\ member' = [p \in People |-> NoRole] /\ managed' = FALSE
     \/ UNCHANGED <<project, member, managed>>
  /\ UNCHANGED people

ProjectsNext ==
  \/ \E h \in Handlers :
       \/ \E verb \in {"add", "remove", "drop"} : project /\ Admit(h, verb)
       \/ add_project_member(h) \/ remove_project_member(h) \/ delete_project(h)
  \/ \E p \in People : delete_user_q(p)

ProjectsSpec == ProjectsInit /\ [][ProjectsNext]_projectVars

-----------------------------------------------------------------------------
(* What remove_project_member says of its guard: a project that had an      *)
(* admin "can never end up with no one able to manage its membership".      *)
NeverLockedOut == project /\ managed => \E p \in People : member[p] >= Admin
=============================================================================
