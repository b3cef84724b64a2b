------------------------------- MODULE Push --------------------------------
(***************************************************************************)
(* `denia push --create` against the control plane: the client             *)
(* (src/cli/client/push.rs, create.rs, pack.rs, http.rs), the handlers it  *)
(* calls (src/api/projects.rs, services.rs, uploads.rs, deployments.rs)    *)
(* and the rows and directories they leave.  Several people push the same  *)
(* service at once; every request is a step of its own, connections break  *)
(* before or after the daemon has served them, and uploads expire.         *)
(***************************************************************************)
EXTENDS Naturals, FiniteSets

CONSTANTS
  Pushers,     \* runs of the command; also the ids that the daemon mints for them
  MaxPolls,    \* bound: polls for the outcome (120 in the code)
  Nothing

ASSUME PushAssumption == Nothing \notin Pushers /\ MaxPolls \in Nat

VARIABLES
  client,      \* client[u]: where the command is, the ids it holds, its polls
  project,     \* the row of the project's name: its id, and the id inside its JSON
  service,     \* service[p]: the row of the service's name in project p, alike
  dir,         \* dir[u]: the upload directory of u
  aged,        \* directories older than their time to live
  late,        \* directories that ever got that old
  dep          \* dep[u]: the deployment of u: its status and the context it saw

pushTables == <<project, service>>
pushDisk == <<dir, aged, late>>
pushVars == <<client, pushTables, pushDisk, dep>>

PushInit ==
  /\ client = [u \in Pushers |-> [at |-> "start", pid |-> Nothing, sid |-> Nothing, polls |-> 0]]
  /\ project = Nothing /\ service = [p \in Pushers |-> Nothing]
  /\ dir = [u \in Pushers |-> "none"] /\ aged = {} /\ late = {}
  /\ dep = [u \in Pushers |-> [status |-> "none", saw |-> "none"]]

ClientAt(u, where) == client[u].at = where
Move(u, to) == client' = [client EXCEPT ![u].at = to]

(* A row whose JSON names another id cannot be read, and a list with one    *)
(* such row cannot be read at all.                                          *)
parse_service_row(p) == service[p].json = service[p].row
list_services == \A p \in Pushers : service[p] # Nothing => parse_service_row(p)

(* The service is looked for by the names of both; without one, the command *)
(* ends or goes on to create it.                                            *)
resolve(u) ==
  /\ ClientAt(u, "start")
  /\ LET found == project # Nothing /\ service[project.json] # Nothing IN
     \/ /\ found /\ list_services
        /\ client' = [client EXCEPT ![u].at = "pack", ![u].sid = service[project.json].row]
     \/ ~found /\ list_services /\ Move(u, "projects")
     \/ ~(found /\ list_services) /\ Move(u, "error")
  /\ UNCHANGED <<pushTables, pushDisk, dep>>

(* create_service_from_manifest lists the projects, then the services; each *)
(* list may be out of date by the next request.                             *)
create_service_from_manifest(u) ==
  /\ \/ /\ ClientAt(u, "projects")
        /\ client' = [client EXCEPT ![u] =
             IF project = Nothing THEN [@ EXCEPT !.at = "new project"]
             ELSE [@ EXCEPT !.at = "services", !.pid = project.json]]
     \/ /\ ClientAt(u, "services")
        /\ Move(u, IF list_services /\ service[client[u].pid] = Nothing THEN "put" ELSE "error")
  /\ UNCHANGED <<pushTables, pushDisk, dep>>

(* POST /v1/projects: the row of a name keeps its id, its JSON is replaced. *)
put_project_q(id) ==
  project' = IF project = Nothing THEN [row |-> id, json |-> id] ELSE [project EXCEPT !.json = id]

create_project(u) ==
  /\ ClientAt(u, "new project")
  /\ put_project_q(u)
  /\ client' = [client EXCEPT ![u].at = "services", ![u].pid = u]
  /\ UNCHANGED <<service, pushDisk, dep>>

(* POST /v1/services without an id: the id of the row found, or a new one.  *)
(* The lookup and the write are separate.                                   *)
put_upload_service(u) ==
  /\ ClientAt(u, "put")
  /\ LET row == service[client[u].pid] IN
     client' = [client EXCEPT ![u].at = "save",
                              ![u].sid = IF row = Nothing THEN u ELSE row.row]
  /\ UNCHANGED <<pushTables, pushDisk, dep>>

put_service_q(u) ==
  /\ ClientAt(u, "save")
  /\ LET p == client[u].pid
         id == client[u].sid IN
     IF service[p] # Nothing /\ service[p].row # id
     THEN Move(u, "error") /\ UNCHANGED service
     ELSE /\ service' = [service EXCEPT ![p] =
                [row |-> IF @ = Nothing THEN id ELSE @.row, json |-> id]]
          /\ Move(u, "pack")
  /\ UNCHANGED <<project, pushDisk, dep>>

(* Too many files, or too many bytes, and there is nothing to upload. *)
pack_context(u) ==
  /\ ClientAt(u, "pack")
  /\ Move(u, "upload") \/ Move(u, "error")
  /\ UNCHANGED <<pushTables, pushDisk, dep>>

-----------------------------------------------------------------------------
(* POST /v1/services/{id}/uploads *)
Uploading(u) == client[u].at \in {"upload", "body", "unpack", "extract"}

Stage(u, from, to, content) ==
  /\ ClientAt(u, from) /\ Move(u, to)
  /\ dir' = [dir EXCEPT ![u] = content]
  /\ aged' = aged \ {u} /\ UNCHANGED <<late, pushTables, dep>>

(* The directory is made before the body is read; the archive is written    *)
(* when all of it has arrived, and the context is unpacked beside it, in a  *)
(* directory that is made again if a sweep took it away.                    *)
upload_handler(u) ==
  \/ Stage(u, "upload", "body", "empty")
  \/ dir[u] # "none" /\ Stage(u, "body", "unpack", "archive")
  \/ Stage(u, "unpack", "extract", "part")

(* The id is the answer to an archive that unpacked to its end.  The answer *)
(* may be lost.                                                             *)
extract_tar_zst(u) ==
  \E to \in {"deploy", "error"} :
    Stage(u, "extract", to, IF dir[u] = "part" THEN "whole" ELSE "torn")

(* A body that breaks off or is too large; an archive with too many or the  *)
(* wrong entries.  The directory is removed before the answer.              *)
RejectUpload(u) ==
  /\ Uploading(u) /\ ~ClientAt(u, "upload")
  /\ dir' = [dir EXCEPT ![u] = "none"] /\ aged' = aged \ {u}
  /\ Move(u, "error")
  /\ UNCHANGED <<late, pushTables, dep>>

(* The client goes away, or the daemon restarts, in the middle of an upload. *)
BreakUpload(u) ==
  /\ Uploading(u) /\ Move(u, "error")
  /\ UNCHANGED <<pushTables, pushDisk, dep>>

-----------------------------------------------------------------------------
(* POST /v1/deployments; the answer may be lost, and is not asked for again. *)
PushDeployment(u) ==
  /\ ClientAt(u, "deploy")
  /\ \/ /\ dep' = [dep EXCEPT ![u].status = "Building"]
        /\ Move(u, "poll") \/ Move(u, "error")
     \/ Move(u, "error") /\ UNCHANGED dep
  /\ UNCHANGED <<pushTables, pushDisk>>

(* The build reads what is in the directory at that time. *)
BuildContext(u) ==
  /\ dep[u].status = "Building" /\ dep[u].saw = "none" /\ dir[u] # "none"
  /\ dep' = [dep EXCEPT ![u].saw = dir[u]]
  /\ UNCHANGED <<client, pushTables, pushDisk>>

(* The pipeline's end: the outcome, then the upload directory is removed. *)
EndDeployment(u) ==
  /\ dep[u].status = "Building"
  /\ \/ dep[u].saw # "none" /\ dep' = [dep EXCEPT ![u].status = "Healthy"]
     \/ dep' = [dep EXCEPT ![u].status = "Failed"]
  /\ dir' = [dir EXCEPT ![u] = "none"] /\ aged' = aged \ {u}
  /\ UNCHANGED <<client, pushTables, late>>

(* Another deployment of the service is promoted. *)
Supersede(u) ==
  /\ dep[u].status = "Healthy" /\ dep' = [dep EXCEPT ![u].status = "Inactive"]
  /\ UNCHANGED <<client, pushTables, pushDisk>>

(* Only two statuses end the polling; an error of the request does not. *)
PollDeployment(u) ==
  /\ ClientAt(u, "poll")
  /\ client' = [client EXCEPT
       ![u].at = CASE client[u].polls = MaxPolls -> "error"
                   [] dep[u].status = "Healthy" -> "ok"
                   [] dep[u].status = "Failed" -> "error"
                   [] OTHER -> "poll",
       ![u].polls = IF @ = MaxPolls THEN 0 ELSE @ + 1]
  /\ UNCHANGED <<pushTables, pushDisk, dep>>

(* Slip: only directories with a whole context are swept. *)
sweep_expired_uploads_Whole(u) ==
  /\ u \in aged /\ dir[u] = "whole"
  /\ dir' = [dir EXCEPT ![u] = "none"] /\ aged' = aged \ {u}
  /\ UNCHANGED <<client, pushTables, late, dep>>

-----------------------------------------------------------------------------
(* The sweep removes a directory file by file; a build may still be there. *)
sweep_expired_uploads(u) ==
  /\ u \in aged /\ dir[u] # "none"
  /\ \/ dir[u] = "whole" /\ dir' = [dir EXCEPT ![u] = "torn"] /\ UNCHANGED aged
     \/ dir' = [dir EXCEPT ![u] = "none"] /\ aged' = aged \ {u}
  /\ UNCHANGED <<client, pushTables, late, dep>>

Expire(u) ==
  /\ dir[u] # "none" /\ u \notin aged
  /\ aged' = aged \cup {u} /\ late' = late \cup {u}
  /\ UNCHANGED <<client, pushTables, dir, dep>>

PushStep(u) ==
  \/ resolve(u) \/ create_service_from_manifest(u) \/ create_project(u)
  \/ put_upload_service(u) \/ put_service_q(u) \/ pack_context(u)
  \/ upload_handler(u) \/ extract_tar_zst(u) \/ RejectUpload(u) \/ BreakUpload(u)
  \/ PushDeployment(u) \/ BuildContext(u) \/ EndDeployment(u) \/ Supersede(u) \/ PollDeployment(u)
  \/ sweep_expired_uploads(u) \/ Expire(u)

PushNext == \E u \in Pushers : PushStep(u)

(* Time passes and the sweep's timer keeps firing. *)
PushFairness ==
  \A u \in Pushers :
    WF_pushVars(Expire(u)) /\ WF_pushVars(sweep_expired_uploads(u))

PushSpec == PushInit /\ [][PushNext]_pushVars /\ PushFairness

-----------------------------------------------------------------------------
(* However the creations of one service interleave, its row stays readable: *)
(* one that is not would make every list of services fail, for every user   *)
(* and at every boot.                                                       *)
ServiceRowsParse == list_services

(* A push that reports success has deployed the whole context it packed,    *)
(* unless the upload passed its time to live on the way: the id is given    *)
(* out, and the directory taken away, at the right moment.                  *)
PushedIsWhole ==
  \A u \in Pushers \ late : ClientAt(u, "ok") => dep[u].saw = "whole"

(* No upload stays on disk for ever: the deployment that consumes it, the   *)
(* handler that rejects it, or the sweep removes it, whatever becomes of    *)
(* the client.                                                              *)
UploadsReclaimed == \A u \in Pushers : dir[u] # "none" ~> dir[u] = "none"
=============================================================================
