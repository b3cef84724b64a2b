-------------------------------- MODULE Jobs --------------------------------
(***************************************************************************)
(* Cron and manual jobs: the scheduler's tick and the executor of          *)
(* src/scheduler.rs, the rows of src/repo/sqlite/jobs.rs, the handlers of  *)
(* src/api/jobs.rs and the recovery at boot.  Each store call takes the    *)
(* connection's lock on its own, so the tick, the API and the executor     *)
(* interleave between calls.                                               *)
(*                                                                         *)
(* Time is counted in fire times of the cron schedules; a schedule fires   *)
(* at every one.                                                           *)
(***************************************************************************)
EXTENDS Integers, Sequences, FiniteSets

CONSTANTS
  Jobs,
  Runs,         \* identities of run rows
  MaxRetries,   \* Job::max_retries
  Deletes,      \* may jobs be deleted?
  MaxTime,      \* bound on time
  MaxCrashes,   \* bound on restarts
  NoJob, NoRun, Never

ASSUME JobsAssumption ==
  /\ MaxRetries \in Nat /\ MaxTime \in Nat /\ MaxCrashes \in Nat
  /\ Deletes \in BOOLEAN
  /\ NoJob \notin Jobs /\ NoRun \notin Runs /\ Never \notin Nat

VARIABLES
  \* SQLite
  jobs,      \* jobs with a row
  next,      \* next[j]: next_run_at, or Never
  status,    \* status[r]: status of the run row; "none" before and "gone" after
  jobOf,     \* jobOf[r]: the job of the run
  \* memory
  now,
  tick,      \* where Scheduler::tick is
  due,       \* jobs it claimed and has not handled
  cur,       \* the job it is handling
  curRun,    \* the run it created for cur, or NoRun
  enqueued,  \* runs it will hand over when it returns
  tnow,      \* the time it started at
  api,       \* api[j]: a manual run request has checked for an active run
  queue,     \* the executor's channel
  exec,      \* the run being executed
  attempt,
  \* history and bounds
  fire,      \* fire[r]: the fire time a run stands for, Never for a manual one
  ran,       \* runs the executor started
  born, crashes

rows == <<jobs, next, status, jobOf, fire>>
tickVars == <<tick, due, cur, curRun, enqueued, tnow>>
execVars == <<queue, exec, attempt, ran>>
jobsVars == <<rows, now, tickVars, api, execVars, born, crashes>>

JobsInit ==
  /\ jobs = {} /\ born = {}
  /\ next = [j \in Jobs |-> Never]
  /\ status = [r \in Runs |-> "none"]
  /\ jobOf = [r \in Runs |-> NoJob]
  /\ fire = [r \in Runs |-> Never]
  /\ now = 0
  /\ tick = "idle" /\ due = {} /\ cur = NoJob /\ curRun = NoRun
  /\ enqueued = <<>> /\ tnow = 0
  /\ api = [j \in Jobs |-> FALSE]
  /\ queue = <<>> /\ exec = NoRun /\ attempt = 0 /\ ran = {}
  /\ crashes = 0

(* active_run *)
Active(j) == {r \in Runs : jobOf[r] = j /\ status[r] \in {"Pending", "Running"}}
Unused == {r \in Runs : status[r] = "none"}
(* Bound: an operation begins only if there are row identities left for    *)
(* it, so that none is cut short by the bound.                             *)
Reserved == Cardinality(due) + Cardinality({j \in Jobs : api[j]})
            + (IF tick \in {"skip", "create"} THEN 1 ELSE 0)
Room(n) == Cardinality(Unused) >= Reserved + n

Due(j) == j \in jobs /\ next[j] # Never /\ next[j] <= now

(* cron's next fire strictly after t *)
compute_next_run(t) == t + 1

(* create_job_run / create_skipped_run; no foreign key ties a run to a     *)
(* job.  Which unused identity a row gets, a run's or a job's, makes no    *)
(* difference.                                                             *)
CreateRun(r, j, st, f) ==
  /\ r = CHOOSE q \in Unused : TRUE
  /\ status' = [status EXCEPT ![r] = st]
  /\ jobOf' = [jobOf EXCEPT ![r] = j]
  /\ fire' = [fire EXCEPT ![r] = f]
  /\ UNCHANGED <<jobs, next>>

-----------------------------------------------------------------------------
(* The API *)
CreateJob(j) ==
  /\ born # Jobs /\ j = CHOOSE k \in Jobs \ born : TRUE
  /\ born' = born \cup {j}
  /\ jobs' = jobs \cup {j}
  /\ \E scheduled \in BOOLEAN :
       next' = [next EXCEPT ![j] = IF scheduled THEN compute_next_run(now) ELSE Never]
  /\ UNCHANGED <<status, jobOf, fire, now, tickVars, api, execVars, crashes>>

DeleteJob(j) ==
  /\ Deletes /\ j \in jobs
  /\ jobs' = jobs \ {j}
  /\ status' = [r \in Runs |-> IF jobOf[r] = j THEN "gone" ELSE status[r]]
  /\ UNCHANGED <<next, jobOf, fire, now, tickVars, api, execVars, born, crashes>>

(* run_job: 409 if a run is active; otherwise a Pending run, handed over. *)
RunCheck(j) ==
  /\ ~api[j] /\ j \in jobs /\ Active(j) = {} /\ Room(1)
  /\ api' = [api EXCEPT ![j] = TRUE]
  /\ UNCHANGED <<rows, now, tickVars, execVars, born, crashes>>

RunCreate(j) ==
  /\ api[j]
  /\ api' = [api EXCEPT ![j] = FALSE]
  /\ \E r \in Unused : CreateRun(r, j, "Pending", Never) /\ queue' = Append(queue, r)
  /\ UNCHANGED <<now, tickVars, exec, attempt, ran, born, crashes>>

-----------------------------------------------------------------------------
(* Scheduler::tick *)
TickClaim ==
  /\ tick = "idle" /\ \E j \in Jobs : Due(j)
  /\ Room(Cardinality({j \in Jobs : Due(j)}))
  /\ tick' = "loop" /\ due' = {j \in Jobs : Due(j)} /\ tnow' = now
  /\ UNCHANGED <<rows, now, cur, curRun, enqueued, api, execVars, born, crashes>>

TickCheck(j) ==
  /\ tick = "loop" /\ j \in due
  /\ cur' = j /\ due' = due \ {j}
  /\ tick' = IF Active(j) # {} THEN "skip" ELSE "create"
  /\ UNCHANGED <<rows, now, curRun, enqueued, tnow, api, execVars, born, crashes>>

TickSkip ==
  /\ tick = "skip"
  /\ \E r \in Unused : CreateRun(r, cur, "Skipped", next[cur])
  /\ tick' = "advance"
  /\ UNCHANGED <<now, due, cur, curRun, enqueued, tnow, api, execVars, born, crashes>>

TickCreate_SendEarly ==
  /\ tick = "create"
  /\ \E r \in Unused : CreateRun(r, cur, "Pending", next[cur]) /\ queue' = Append(queue, r)
  /\ tick' = "advance"
  /\ UNCHANGED <<now, due, cur, curRun, enqueued, tnow, api, exec, attempt, ran, born, crashes>>
TickCreate ==
  /\ tick = "create"
  /\ \E r \in Unused : CreateRun(r, cur, "Pending", next[cur]) /\ curRun' = r
  /\ tick' = "advance"
  /\ UNCHANGED <<now, due, cur, enqueued, tnow, api, execVars, born, crashes>>

(* set_job_next_run moves the cursor past the time of the tick.  If the    *)
(* job is gone it fails, and with it the tick: what it had to hand over is *)
(* dropped.                                                                *)
TickAdvance ==
  /\ tick = "advance"
  /\ cur' = NoJob /\ curRun' = NoRun
  /\ \/ /\ cur \in jobs
        /\ next' = [next EXCEPT ![cur] = compute_next_run(tnow)]
        /\ enqueued' = IF curRun = NoRun THEN enqueued ELSE Append(enqueued, curRun)
        /\ tick' = "loop"
        /\ UNCHANGED due
     \/ /\ cur \notin jobs
        /\ tick' = "idle" /\ enqueued' = <<>> /\ due' = {}
        /\ UNCHANGED next
  /\ UNCHANGED <<jobs, status, jobOf, fire, now, tnow, api, execVars, born, crashes>>

(* run_until_shutdown forwards the runs. *)
TickSend ==
  /\ tick = "loop" /\ due = {}
  /\ queue' = queue \o enqueued
  /\ tick' = "idle" /\ enqueued' = <<>>
  /\ UNCHANGED <<rows, now, due, cur, curRun, tnow, api, exec, attempt, ran, born, crashes>>

Tick == TickClaim \/ (\E j \in Jobs : TickCheck(j)) \/ TickSkip \/ TickCreate
        \/ TickAdvance \/ TickSend

-----------------------------------------------------------------------------
(* JobExecutor::execute, one run at a time, for as long as its program     *)
(* takes.  An update of a deleted row changes nothing.                     *)
Mark(r, st) == status' = [status EXCEPT ![r] = IF @ = "gone" THEN @ ELSE st]

Receive ==
  /\ exec = NoRun /\ queue # <<>>
  /\ queue' = Tail(queue)
  /\ LET r == Head(queue)
     IN \/ /\ jobOf[r] \in jobs
           /\ exec' = r /\ attempt' = 1 /\ ran' = ran \cup {r}
           /\ Mark(r, "Running")
        \/ /\ jobOf[r] \notin jobs
           /\ Mark(r, "Failed")
           /\ UNCHANGED <<exec, attempt, ran>>
  /\ UNCHANGED <<jobs, next, jobOf, fire, now, tickVars, api, born, crashes>>

AttemptOk ==
  /\ exec # NoRun
  /\ Mark(exec, "Succeeded")
  /\ exec' = NoRun /\ attempt' = 0
  /\ UNCHANGED <<jobs, next, jobOf, fire, now, tickVars, api, queue, ran, born, crashes>>

AttemptFail ==
  /\ exec # NoRun
  /\ \/ /\ attempt < MaxRetries + 1
        /\ attempt' = attempt + 1 /\ Mark(exec, "Running")
        /\ UNCHANGED exec
     \/ /\ attempt = MaxRetries + 1
        /\ Mark(exec, "Failed")
        /\ exec' = NoRun /\ attempt' = 0
  /\ UNCHANGED <<jobs, next, jobOf, fire, now, tickVars, api, queue, ran, born, crashes>>

Execute == Receive \/ AttemptOk \/ AttemptFail

-----------------------------------------------------------------------------
TimePasses ==
  /\ now < MaxTime
  /\ now' = now + 1
  /\ UNCHANGED <<rows, tickVars, api, execVars, born, crashes>>

(* The daemon dies and boots; fail_orphan_runs. *)
Orphaned_Running == {r \in Runs : status[r] = "Running"}
Orphaned == {r \in Runs : status[r] \in {"Pending", "Running"}}
Reboot ==
  /\ crashes < MaxCrashes
  /\ crashes' = crashes + 1
  /\ status' = [r \in Runs |-> IF r \in Orphaned THEN "Failed" ELSE status[r]]
  /\ tick' = "idle" /\ due' = {} /\ cur' = NoJob /\ curRun' = NoRun /\ enqueued' = <<>>
  /\ api' = [j \in Jobs |-> FALSE]
  /\ queue' = <<>> /\ exec' = NoRun /\ attempt' = 0
  /\ UNCHANGED <<jobs, next, jobOf, fire, now, tnow, ran, born>>

JobsNext ==
  \/ \E j \in Jobs : CreateJob(j) \/ DeleteJob(j) \/ RunCheck(j) \/ RunCreate(j)
  \/ Tick \/ Execute \/ TimePasses \/ Reboot

JobsSpec == JobsInit /\ [][JobsNext]_jobsVars

(* The scheduler's loop and the executor's keep running.  Nothing ends an  *)
(* attempt but its program: run_to_completion waits without a limit.       *)
JobsFairness == WF_jobsVars(Tick) /\ WF_jobsVars(Receive)
JobsFairSpec == JobsSpec /\ JobsFairness

-----------------------------------------------------------------------------
(* Types; a run has at most MaxRetries + 1 attempts (execute). *)
JobsTypeOK ==
  /\ jobs \subseteq Jobs /\ born \subseteq Jobs
  /\ next \in [Jobs -> Nat \cup {Never}]
  /\ status \in [Runs -> {"none", "Pending", "Running", "Succeeded", "Failed", "Skipped", "gone"}]
  /\ jobOf \in [Runs -> Jobs \cup {NoJob}]
  /\ fire \in [Runs -> Nat \cup {Never}]
  /\ now \in Nat /\ tnow \in Nat /\ crashes \in Nat
  /\ tick \in {"idle", "loop", "skip", "create", "advance"}
  /\ due \subseteq Jobs /\ cur \in Jobs \cup {NoJob} /\ curRun \in Runs \cup {NoRun}
  /\ enqueued \in Seq(Runs) /\ queue \in Seq(Runs)
  /\ api \in [Jobs -> BOOLEAN]
  /\ exec \in Runs \cup {NoRun} /\ attempt \in 0 .. MaxRetries + 1
  /\ ran \subseteq Runs

Terminal == {"Succeeded", "Failed", "Skipped"}

(* A fire time of a job is executed at most once, wherever a crash falls   *)
(* between the run's row, the cursor and the channel (Scheduler::tick).    *)
FireAtMostOnce ==
  \A r, q \in ran :
    fire[r] # Never /\ fire[r] = fire[q] /\ jobOf[r] = jobOf[q] => r = q

(* A run that ended stays as it ended: it is not executed again, and a     *)
(* skipped one never is (create_skipped_run, execute).                     *)
TerminalIsFinal ==
  [][\A r \in Runs : status[r] \in Terminal => status'[r] \in {status[r], "gone"}]_jobsVars

(* A Pending run of a job that exists comes to be executed or failed: it   *)
(* does not block the job for good (run_until_shutdown, run_executor,      *)
(* fail_orphan_runs).                                                      *)
Blocked(r) == status[r] = "Pending" /\ jobOf[r] \in jobs
RunSettles == \A r \in Runs : Blocked(r) ~> ~Blocked(r)

(* The same as long as no job is deleted and no program runs for ever: a   *)
(* tick that meets a deleted job drops the runs it had to hand over (tick, *)
(* set_job_next_run), and the executor takes one run at a time             *)
(* (run_executor).                                                         *)
RunSettlesUnlessDeleted ==
  \/ <>[](exec # NoRun)
  \/ \A r \in Runs : Blocked(r) ~> ~Blocked(r) \/ jobs # born

(* The Forbid policy of ADR-010: at most one active run of a job. *)
AtMostOneActive == \A j \in Jobs : Cardinality(Active(j)) <= 1
=============================================================================
