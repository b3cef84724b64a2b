----------------------------- MODULE HostProofs -----------------------------
(* What the daemon's job scheduler, its consoles and its boot guarantee for *)
(* any number of jobs, runs, connections, processes and sessions.           *)
EXTENDS Jobs, Console, Daemon, FiniteSetTheorems, TLAPS

(* The runs in a queue, and a queue that holds none twice. *)
Listed(s) == {s[i] : i \in 1 .. Len(s)}
Distinct(s) == \A i, k \in 1 .. Len(s) : s[i] = s[k] => i = k

(* A run that joins a queue (the channel's send) ... *)
LEMMA ListedAppend == ASSUME NEW S, NEW s \in Seq(S), NEW x \in S
  PROVE Append(s, x) \in Seq(S) /\ Listed(Append(s, x)) = Listed(s) \cup {x} /\ (Distinct(s) /\ x \notin Listed(s) => Distinct(Append(s, x)))
<1> DEFINE t == Append(s, x)
<1>1. t \in Seq(S) /\ Len(t) = Len(s) + 1 /\ t[Len(t)] = x /\ \A i \in 1 .. Len(s) : t[i] = s[i] /\ Len(s) \in Nat OBVIOUS
<1> HIDE DEF t
<1>2. 1 .. Len(t) = 1 .. Len(s) \cup {Len(t)} BY <1>1
<1>3. Listed(t) = Listed(s) \cup {x} BY <1>1, <1>2 DEF Listed
<1>4. ASSUME Distinct(s), x \notin Listed(s) PROVE Distinct(t) BY <1>1, <1>2, <1>4 DEF Listed, Distinct
<1> QED BY <1>1, <1>3, <1>4 DEF t

(* ... leaves it at the front (its recv) ... *)
LEMMA ListedTail == ASSUME NEW S, NEW s \in Seq(S), s # <<>>
  PROVE /\ Tail(s) \in Seq(S) /\ Head(s) \in S /\ Head(s) \in Listed(s) /\ Listed(s) = Listed(Tail(s)) \cup {Head(s)}
        /\ Distinct(s) => Distinct(Tail(s)) /\ Head(s) \notin Listed(Tail(s))
<1> DEFINE t == Tail(s)
<1>1. t \in Seq(S) /\ Len(s) \in Nat \ {0} /\ Len(t) = Len(s) - 1 /\ Head(s) = s[1] /\ \A i \in 1 .. Len(t) : t[i] = s[i + 1] OBVIOUS
<1>h. Head(s) \in S BY <1>1
<1> HIDE DEF t
<1>2. \A i \in 1 .. Len(t) : i + 1 \in 1 .. Len(s) /\ i + 1 # 1 BY <1>1
<1>3. \A i \in 1 .. Len(s) : i = 1 \/ (i - 1 \in 1 .. Len(t) /\ s[i] = t[i - 1]) BY <1>1
<1>4. 1 \in 1 .. Len(s) BY <1>1
<1>5. Listed(s) = Listed(t) \cup {s[1]}
  <2>1. ASSUME NEW x \in Listed(s) PROVE x \in Listed(t) \cup {s[1]} BY <1>3 DEF Listed
  <2>2. ASSUME NEW x \in Listed(t) PROVE x \in Listed(s) BY <1>1, <1>2 DEF Listed
  <2>3. s[1] \in Listed(s) BY <1>4 DEF Listed
  <2> QED BY <2>1, <2>2, <2>3
<1>6. ASSUME Distinct(s) PROVE Distinct(t) /\ s[1] \notin Listed(t) BY <1>1, <1>2, <1>4, <1>6 DEF Listed, Distinct
<1> QED BY <1>1, <1>5, <1>6, <1>h DEF t

(* ... or comes with others when the scheduler's tick hands over its list. *)
LEMMA ListedConcat == ASSUME NEW S, NEW s \in Seq(S), NEW u \in Seq(S)
  PROVE /\ s \o u \in Seq(S) /\ Listed(s \o u) = Listed(s) \cup Listed(u)
        /\ Distinct(s) /\ Distinct(u) /\ Listed(s) \cap Listed(u) = {} => Distinct(s \o u)
<1> DEFINE t == s \o u
<1>1. /\ t \in Seq(S) /\ Len(s) \in Nat /\ Len(u) \in Nat /\ Len(t) = Len(s) + Len(u)
      /\ \A i \in 1 .. Len(s) : t[i] = s[i]
      /\ \A i \in 1 .. Len(u) : t[Len(s) + i] = u[i] OBVIOUS
<1> HIDE DEF t
<1>2. \A i \in 1 .. Len(t) : i \in 1 .. Len(s) \/ (i - Len(s) \in 1 .. Len(u) /\ i = Len(s) + (i - Len(s))) BY <1>1
<1>3. \A i \in 1 .. Len(s) : i \in 1 .. Len(t) BY <1>1
<1>4. \A i \in 1 .. Len(u) : Len(s) + i \in 1 .. Len(t) BY <1>1
<1>6. \A i \in 1 .. Len(t) : (i \in 1 .. Len(s) /\ t[i] = s[i]) \/ (i - Len(s) \in 1 .. Len(u) /\ t[i] = u[i - Len(s)])
  BY <1>1, <1>2
<1>5. Listed(t) = Listed(s) \cup Listed(u)
  <2>1. ASSUME NEW x \in Listed(t) PROVE x \in Listed(s) \cup Listed(u) BY <1>6 DEF Listed
  <2>2. ASSUME NEW x \in Listed(s) PROVE x \in Listed(t) BY <1>1, <1>3 DEF Listed
  <2>3. ASSUME NEW x \in Listed(u) PROVE x \in Listed(t) BY <1>1, <1>4 DEF Listed
  <2> QED BY <2>1, <2>2, <2>3
<1>7. ASSUME Distinct(s), Distinct(u), Listed(s) \cap Listed(u) = {}, NEW i \in 1 .. Len(t), NEW k \in 1 .. Len(t), t[i] = t[k] PROVE i = k
  <2>1. CASE i \in 1 .. Len(s) /\ k \in 1 .. Len(s) BY <2>1, <1>7, <1>1 DEF Distinct
  <2>2. CASE i \notin 1 .. Len(s) /\ k \notin 1 .. Len(s)
    <3>1. i - Len(s) = k - Len(s) BY <2>2, <1>7, <1>6 DEF Distinct
    <3> QED BY <3>1, <1>1
  <2>3. CASE i \in 1 .. Len(s) /\ k \notin 1 .. Len(s)
    <3>1. t[i] \in Listed(s) /\ t[k] \in Listed(u) BY <2>3, <1>6, <1>1 DEF Listed
    <3> QED BY <3>1, <1>7
  <2>4. CASE i \notin 1 .. Len(s) /\ k \in 1 .. Len(s)
    <3>1. t[k] \in Listed(s) /\ t[i] \in Listed(u) BY <2>4, <1>6, <1>1 DEF Listed
    <3> QED BY <3>1, <1>7
  <2> QED BY <2>1, <2>2, <2>3, <2>4
<1> QED BY <1>1, <1>5, <1>7 DEF t, Distinct

(* An empty queue lists nothing. *)
LEMMA ListedEmpty == Listed(<<>>) = {} /\ Distinct(<<>>)
  BY DEF Listed, Distinct

(* What a queue lists is of the type of its members. *)
LEMMA ListedIn == ASSUME NEW S, NEW s \in Seq(S) PROVE Listed(s) \subseteq S
  BY DEF Listed


(* create_job_run writes a row that was not there and touches no other. *)
LEMMA NewRun == ASSUME JobsTypeOK, NEW r, NEW j \in Jobs, NEW st \in {"Pending", "Skipped"}, NEW f \in Nat \cup {Never},
                       r \in Unused, CreateRun(r, j, st, f)
  PROVE /\ r \in Runs /\ status[r] = "none"
        /\ status' \in [Runs -> {"none", "Pending", "Running", "Succeeded", "Failed", "Skipped", "gone"}]
        /\ jobOf' \in [Runs -> Jobs \cup {NoJob}] /\ fire' \in [Runs -> Nat \cup {Never}]
        /\ status'[r] = st /\ jobOf'[r] = j /\ fire'[r] = f
        /\ \A q \in Runs \ {r} : status'[q] = status[q] /\ jobOf'[q] = jobOf[q] /\ fire'[q] = fire[q]
        /\ UNCHANGED <<jobs, next>>
  BY DEF JobsTypeOK, Unused, CreateRun

(* A status update finds its row, or finds that its job was deleted with    *)
(* it.                                                                      *)
LEMMA MarkType == ASSUME JobsTypeOK, NEW r \in Runs, NEW st \in {"Running", "Succeeded", "Failed"}, Mark(r, st)
  PROVE /\ status' \in [Runs -> {"none", "Pending", "Running", "Succeeded", "Failed", "Skipped", "gone"}]
        /\ \A q \in Runs \ {r} : status'[q] = status[q]
        /\ status'[r] = IF status[r] = "gone" THEN "gone" ELSE st
  BY DEF JobsTypeOK, Mark

(* The tick of the scheduler holds at most one job in its hands, and that   *)
(* one is no longer due.                                                    *)
CursorInv ==
  /\ jobs \subseteq born
  /\ tick = "idle" => due = {}
  /\ tick \in {"idle", "loop"} => cur = NoJob
  /\ tick \in {"skip", "create", "advance"} => cur \in Jobs
  /\ cur \notin due
  /\ \A j \in due \cup {cur} : j # NoJob => j \in born /\ next[j] \in Nat /\ next[j] <= tnow

(* Every step preserves the types. *)
LEMMA JobsTypes == ASSUME JobsTypeOK, CursorInv, [JobsNext]_jobsVars, JobsAssumption PROVE JobsTypeOK'
<1> USE DEF JobsTypeOK, rows, tickVars, execVars
<1>1. CASE UNCHANGED jobsVars BY <1>1 DEF jobsVars
<1>2. ASSUME NEW j \in Jobs, CreateJob(j) PROVE JobsTypeOK'
  <2>1. next' \in [Jobs -> Nat \cup {Never}] BY <1>2 DEF CreateJob, compute_next_run
  <2> QED BY <1>2, <2>1 DEF CreateJob
<1>3. ASSUME NEW j \in Jobs, DeleteJob(j) PROVE JobsTypeOK' BY <1>3 DEF DeleteJob
<1>4. ASSUME NEW j \in Jobs, RunCheck(j) PROVE JobsTypeOK' BY <1>4 DEF RunCheck
<1>5. ASSUME NEW j \in Jobs, RunCreate(j) PROVE JobsTypeOK'
  <2>1. PICK r \in Unused : CreateRun(r, j, "Pending", Never) /\ queue' = Append(queue, r) BY <1>5 DEF RunCreate
  <2> HIDE DEF JobsTypeOK
  <2>2. r \in Runs /\ status' \in [Runs -> {"none", "Pending", "Running", "Succeeded", "Failed", "Skipped", "gone"}]
        /\ jobOf' \in [Runs -> Jobs \cup {NoJob}] /\ fire' \in [Runs -> Nat \cup {Never}] /\ UNCHANGED <<jobs, next>>
    BY <2>1, NewRun
  <2>3. queue' \in Seq(Runs) BY <2>1, <2>2 DEF JobsTypeOK
  <2> QED BY <1>5, <2>2, <2>3 DEF RunCreate, JobsTypeOK
<1>6. ASSUME TickClaim PROVE JobsTypeOK' BY <1>6 DEF TickClaim
<1>7. ASSUME NEW j \in Jobs, TickCheck(j) PROVE JobsTypeOK' BY <1>7 DEF TickCheck
<1>8. ASSUME TickSkip \/ TickCreate PROVE JobsTypeOK'
  <2>1. PICK r \in Unused, st \in {"Pending", "Skipped"} : CreateRun(r, cur, st, next[cur]) /\ curRun' \in {curRun, r}
    BY <1>8 DEF TickSkip, TickCreate
  <2>2. cur \in Jobs /\ next[cur] \in Nat \cup {Never} BY <1>8 DEF CursorInv, TickSkip, TickCreate
  <2> HIDE DEF JobsTypeOK
  <2>3. r \in Runs /\ status' \in [Runs -> {"none", "Pending", "Running", "Succeeded", "Failed", "Skipped", "gone"}]
        /\ jobOf' \in [Runs -> Jobs \cup {NoJob}] /\ fire' \in [Runs -> Nat \cup {Never}] /\ UNCHANGED <<jobs, next>>
    <3>1. PICK j \in Jobs, f \in Nat \cup {Never} : CreateRun(r, j, st, f) BY <2>1, <2>2
    <3> QED BY <3>1, NewRun
  <2> QED BY <1>8, <2>1, <2>3 DEF TickSkip, TickCreate, JobsTypeOK
<1>9. ASSUME TickAdvance PROVE JobsTypeOK'
  <2>1. next' \in [Jobs -> Nat \cup {Never}] BY <1>9 DEF TickAdvance, compute_next_run
  <2>2. enqueued' \in Seq(Runs)
    <3>1. enqueued' = enqueued \/ enqueued' = <<>> \/ (curRun \in Runs /\ enqueued' = Append(enqueued, curRun))
      BY <1>9 DEF TickAdvance
    <3>2. CASE enqueued' = enqueued BY <3>2
    <3>3. CASE enqueued' = <<>> BY <3>3
    <3>4. CASE curRun \in Runs /\ enqueued' = Append(enqueued, curRun) BY <3>4, ListedAppend
    <3> QED BY <3>1, <3>2, <3>3, <3>4
  <2> QED BY <1>9, <2>1, <2>2 DEF TickAdvance
<1>10. ASSUME TickSend PROVE JobsTypeOK' BY <1>10 DEF TickSend
<1>11. ASSUME Receive PROVE JobsTypeOK'
  <2>1. Head(queue) \in Runs /\ queue' \in Seq(Runs) BY <1>11, ListedTail DEF Receive
  <2>2. Mark(Head(queue), "Running") \/ Mark(Head(queue), "Failed") BY <1>11 DEF Receive
  <2>3. status' \in [Runs -> {"none", "Pending", "Running", "Succeeded", "Failed", "Skipped", "gone"}] BY <2>1, <2>2, MarkType
  <2>4. exec' \in Runs \cup {NoRun} /\ attempt' \in 0 .. MaxRetries + 1 /\ ran' \subseteq Runs
    BY <1>11, <2>1, JobsAssumption DEF Receive, JobsAssumption
  <2> QED BY <1>11, <2>1, <2>3, <2>4 DEF Receive
<1>12. ASSUME AttemptOk \/ AttemptFail PROVE JobsTypeOK'
  <2>1. exec \in Runs /\ \E st \in {"Running", "Succeeded", "Failed"} : Mark(exec, st) BY <1>12 DEF AttemptOk, AttemptFail
  <2>3. status' \in [Runs -> {"none", "Pending", "Running", "Succeeded", "Failed", "Skipped", "gone"}] BY <2>1, MarkType
  <2>4. exec' \in Runs \cup {NoRun} /\ attempt' \in 0 .. MaxRetries + 1
    BY <1>12, <2>1, JobsAssumption DEF AttemptOk, AttemptFail, JobsAssumption
  <2> QED BY <1>12, <2>3, <2>4 DEF AttemptOk, AttemptFail
<1>13. ASSUME TimePasses PROVE JobsTypeOK' BY <1>13 DEF TimePasses
<1>14. ASSUME Reboot PROVE JobsTypeOK' BY <1>14, JobsAssumption DEF Reboot, JobsAssumption
<1> QED BY <1>1, <1>2, <1>3, <1>4, <1>5, <1>6, <1>7, <1>8, <1>9, <1>10, <1>11, <1>12, <1>13, <1>14 DEF JobsNext, Tick, Execute

(* Every step preserves the cursor. *)
LEMMA CursorStep == ASSUME JobsTypeOK, CursorInv, [JobsNext]_jobsVars, JobsAssumption PROVE CursorInv'
<1> USE DEF rows, tickVars, execVars
<1>k. ASSUME UNCHANGED <<next, tick, due, cur, tnow>>, jobs' \subseteq jobs, born' = born PROVE CursorInv' BY <1>k DEF CursorInv
<1>1. CASE UNCHANGED jobsVars BY <1>1, <1>k DEF jobsVars
<1>2. ASSUME NEW j \in Jobs, CreateJob(j) PROVE CursorInv'
  <2>1. j \notin born BY <1>2 DEF CreateJob, JobsTypeOK
  <2>2. \A k \in Jobs \ {j} : next'[k] = next[k] BY <1>2 DEF CreateJob, JobsTypeOK
  <2>3. \A k \in due \cup {cur} : k # NoJob => k \in born /\ k # j /\ next'[k] = next[k] BY <2>1, <2>2 DEF CursorInv, JobsTypeOK
  <2> QED BY <1>2, <2>3 DEF CreateJob, CursorInv
<1>3. ASSUME NEW j \in Jobs, DeleteJob(j) \/ RunCheck(j) PROVE CursorInv' BY <1>3, <1>k DEF DeleteJob, RunCheck
<1>4. ASSUME NEW j \in Jobs, RunCreate(j) PROVE CursorInv' BY <1>4, <1>k DEF RunCreate, CreateRun
<1>5. ASSUME TickClaim PROVE CursorInv'
  <2>1. \A j \in due' : j \in born /\ next[j] \in Nat /\ next[j] <= tnow' BY <1>5 DEF TickClaim, Due, JobsTypeOK, CursorInv
  <2> QED BY <1>5, <2>1 DEF TickClaim, CursorInv
<1>6. ASSUME NEW j \in Jobs, TickCheck(j) PROVE CursorInv' BY <1>6, JobsAssumption DEF TickCheck, CursorInv, JobsAssumption
<1>7. ASSUME TickSkip \/ TickCreate PROVE CursorInv' BY <1>7 DEF TickSkip, TickCreate, CreateRun, CursorInv
<1>8. ASSUME TickAdvance, cur \in jobs PROVE CursorInv'
  <2>1. tnow \in Nat /\ cur \in Jobs BY <1>8 DEF TickAdvance, JobsTypeOK
  <2>2. tick' = "loop" /\ cur' = NoJob /\ due' = due /\ tnow' = tnow /\ jobs' = jobs /\ born' = born
    BY <1>8 DEF TickAdvance
  <2>3. next' = [next EXCEPT ![cur] = tnow + 1] BY <1>8 DEF TickAdvance, compute_next_run
  <2> QED BY <2>1, <2>2, <2>3 DEF CursorInv, JobsTypeOK
<1>9. ASSUME TickAdvance, cur \notin jobs PROVE CursorInv' BY <1>9 DEF TickAdvance, CursorInv
<1>10. ASSUME TickSend PROVE CursorInv' BY <1>10 DEF TickSend, CursorInv
<1>11. ASSUME Receive \/ AttemptOk \/ AttemptFail \/ TimePasses PROVE CursorInv'
  BY <1>11, <1>k DEF Receive, AttemptOk, AttemptFail, TimePasses
<1>12. ASSUME Reboot PROVE CursorInv' BY <1>12 DEF Reboot, CursorInv
<1> QED BY <1>1, <1>2, <1>3, <1>4, <1>5, <1>6, <1>7, <1>8, <1>9, <1>10, <1>11, <1>12 DEF JobsNext, Tick, Execute

(* The runs that were handed to the executor, now or earlier. *)
Handed == ran \cup Listed(queue) \cup Listed(enqueued)
(* The fire time of run r lies behind the next one of its job. *)
Past(r) == jobOf[r] \in born /\ next[jobOf[r]] \in Nat /\ fire[r] < next[jobOf[r]]

(* What makes FireAtMostOnce inductive. Two runs of one job and one fire    *)
(* time can only be made by two ticks that read the same next_fire_at, so:  *)
(* every run that was handed over is behind the cursor of its job, and the  *)
(* one that is not handed over yet sits exactly on it.                      *)
FireInv ==
  /\ curRun # NoRun => /\ tick = "advance" /\ curRun \notin Handed /\ status[curRun] # "none"
                       /\ jobOf[curRun] = cur /\ fire[curRun] = next[cur]
  /\ \A r \in Handed : status[r] # "none" /\ (fire[r] # Never => Past(r))
  /\ \A r, q \in Handed : fire[r] # Never /\ fire[r] = fire[q] /\ jobOf[r] = jobOf[q] => r = q

(* A step changes neither the job nor the fire time of a run that exists,   *)
(* and moves no cursor back.                                                *)
Keeps == \A r \in Runs : status[r] # "none" => status'[r] # "none" /\ jobOf'[r] = jobOf[r] /\ fire'[r] = fire[r]
CursorKept == \A j \in born : j \in born' /\ (next[j] \in Nat => next'[j] \in Nat /\ next[j] <= next'[j])

(* Only runs are handed over. *)
LEMMA HandedRuns == ASSUME JobsTypeOK PROVE Handed \subseteq Runs
  BY ListedIn DEF Handed, JobsTypeOK

(* Such a step preserves the invariant when it hands over nothing. *)
LEMMA FireKept ==
  ASSUME JobsTypeOK, JobsTypeOK', FireInv, Keeps, CursorKept, JobsAssumption, Handed' \subseteq Handed,
         curRun' = NoRun \/ (curRun' = curRun /\ UNCHANGED <<tick, cur>> /\ next'[cur] = next[cur])
  PROVE  FireInv'
<1>h. Handed \subseteq Runs /\ Handed' \subseteq Runs BY HandedRuns
<1>1. ASSUME NEW r \in Handed' PROVE status'[r] # "none" /\ jobOf'[r] = jobOf[r] /\ fire'[r] = fire[r]
  BY <1>h DEF Keeps, FireInv
<1>2. ASSUME NEW r \in Handed', fire'[r] # Never PROVE Past(r)'
  <2>1. Past(r) /\ fire[r] = fire'[r] /\ jobOf'[r] = jobOf[r] BY <1>1, <1>2 DEF FireInv
  <2>2. fire[r] \in Nat BY <1>2, <1>h, <2>1 DEF JobsTypeOK
  <2> QED BY <2>1, <2>2 DEF Past, CursorKept
<1>3. curRun' # NoRun => /\ tick' = "advance" /\ curRun' \notin Handed' /\ status'[curRun'] # "none"
                       /\ jobOf'[curRun'] = cur' /\ fire'[curRun'] = next'[cur']
  BY <1>h DEF FireInv, Keeps, JobsTypeOK
<1>4. \A r, q \in Handed' : fire'[r] # Never /\ fire'[r] = fire'[q] /\ jobOf'[r] = jobOf'[q] => r = q
  BY <1>1 DEF FireInv
<1> QED BY <1>1, <1>2, <1>3, <1>4 DEF FireInv

(* Every step preserves it; the advance of the cursor is the step that      *)
(* hands the run over.                                                      *)
LEMMA FireStep == ASSUME JobsTypeOK, JobsTypeOK', CursorInv, FireInv, [JobsNext]_jobsVars, JobsAssumption PROVE FireInv'
<1> USE DEF rows, tickVars, execVars
<1>c. ASSUME UNCHANGED <<next, born>> PROVE CursorKept BY <1>c DEF CursorKept, JobsTypeOK
<1>k. ASSUME UNCHANGED <<status, jobOf, fire>> PROVE Keeps BY <1>k DEF Keeps
<1>1. CASE UNCHANGED jobsVars BY <1>1 DEF jobsVars, FireInv, Handed, Past
<1>2. ASSUME NEW j \in Jobs, CreateJob(j) PROVE FireInv'
  <2>1. j \notin born BY <1>2 DEF CreateJob, JobsTypeOK
  <2>2. \A k \in Jobs \ {j} : next'[k] = next[k] BY <1>2 DEF CreateJob, JobsTypeOK
  <2>3. CursorKept BY <1>2, <2>1, <2>2 DEF CursorKept, CreateJob, JobsTypeOK
  <2>4. curRun = NoRun \/ next'[cur] = next[cur] BY <2>1, <2>2, JobsAssumption DEF FireInv, CursorInv, JobsAssumption
  <2> QED BY <1>2, <1>k, <2>3, <2>4, FireKept DEF CreateJob, Handed
<1>3. ASSUME NEW j \in Jobs, DeleteJob(j) PROVE FireInv'
  <2>1. Keeps BY <1>3 DEF Keeps, DeleteJob
  <2> QED BY <1>3, <1>c, <2>1, FireKept DEF DeleteJob, Handed
<1>4. ASSUME NEW j \in Jobs, RunCheck(j) PROVE FireInv' BY <1>4, <1>c, <1>k, FireKept DEF RunCheck, Handed
<1>n. ASSUME NEW r, NEW j \in Jobs, NEW st \in {"Pending", "Skipped"}, NEW f \in Nat \cup {Never}, r \in Unused, CreateRun(r, j, st, f)
      PROVE Keeps /\ r \in Runs /\ r \notin Handed /\ r # curRun /\ status'[r] # "none" /\ jobOf'[r] = j /\ fire'[r] = f /\ UNCHANGED <<jobs, next>>
  <2>1. /\ r \in Runs /\ status[r] = "none" /\ status'[r] = st /\ jobOf'[r] = j /\ fire'[r] = f
        /\ \A q \in Runs \ {r} : status'[q] = status[q] /\ jobOf'[q] = jobOf[q] /\ fire'[q] = fire[q]
        /\ UNCHANGED <<jobs, next>>
    BY <1>n, NewRun
  <2> QED BY <2>1, JobsAssumption DEF Keeps, FireInv, JobsAssumption
<1>5. ASSUME NEW j \in Jobs, RunCreate(j) PROVE FireInv'
  <2>1. PICK r \in Unused : CreateRun(r, j, "Pending", Never) /\ queue' = Append(queue, r) BY <1>5 DEF RunCreate
  <2>2. Keeps /\ r \in Runs /\ r \notin Handed /\ r # curRun /\ status'[r] # "none" /\ fire'[r] = Never /\ UNCHANGED <<jobs, next>>
    BY <2>1, <1>n
  <2>3. UNCHANGED <<born, curRun, tick, cur, enqueued, ran>> BY <1>5 DEF RunCreate
  <2>4. Listed(queue') = Listed(queue) \cup {r} BY <2>1, <2>2, ListedAppend DEF JobsTypeOK
  <2>5. Handed' = Handed \cup {r} BY <2>3, <2>4 DEF Handed
  <2>h. Handed \subseteq Runs BY HandedRuns
  <2>6. \A q \in Handed : status'[q] # "none" /\ fire'[q] = fire[q] /\ jobOf'[q] = jobOf[q] BY <2>h, <2>2 DEF Keeps, FireInv
  <2>7. \A q \in Handed' : status'[q] # "none" /\ (fire'[q] # Never => Past(q)')
    BY <2>2, <2>3, <2>5, <2>6 DEF FireInv, Past
  <2>8. \A q, p \in Handed' : fire'[q] # Never /\ fire'[q] = fire'[p] /\ jobOf'[q] = jobOf'[p] => q = p
    BY <2>2, <2>5, <2>6 DEF FireInv
  <2>9. curRun' # NoRun => /\ tick' = "advance" /\ curRun' \notin Handed' /\ status'[curRun'] # "none"
                       /\ jobOf'[curRun'] = cur' /\ fire'[curRun'] = next'[cur']
    BY <2>2, <2>3, <2>5 DEF FireInv, Keeps, JobsTypeOK
  <2> QED BY <2>7, <2>8, <2>9 DEF FireInv
<1>6. ASSUME TickClaim \/ (\E j \in Jobs : TickCheck(j)) PROVE FireInv'
  <2>1. curRun = NoRun BY <1>6 DEF FireInv, TickClaim, TickCheck
  <2> QED BY <1>6, <2>1, <1>c, <1>k, FireKept DEF TickClaim, TickCheck, Handed
<1>7. ASSUME TickSkip PROVE FireInv'
  <2>1. PICK r \in Unused : CreateRun(r, cur, "Skipped", next[cur]) BY <1>7 DEF TickSkip
  <2>2. cur \in Jobs /\ next[cur] \in Nat /\ curRun = NoRun BY <1>7, JobsAssumption DEF TickSkip, CursorInv, FireInv, JobsAssumption
  <2>3. Keeps /\ UNCHANGED <<jobs, next>> BY <2>1, <2>2, <1>n
  <2> QED BY <1>7, <2>2, <2>3, <1>c, FireKept DEF TickSkip, Handed
<1>8. ASSUME TickCreate PROVE FireInv'
  <2>1. PICK r \in Unused : CreateRun(r, cur, "Pending", next[cur]) /\ curRun' = r BY <1>8 DEF TickCreate
  <2>2. cur \in Jobs /\ next[cur] \in Nat BY <1>8, JobsAssumption DEF TickCreate, CursorInv, JobsAssumption
  <2>3. Keeps /\ r \in Runs /\ r \notin Handed /\ status'[r] # "none" /\ jobOf'[r] = cur /\ fire'[r] = next[cur] /\ UNCHANGED <<jobs, next>>
    BY <2>1, <2>2, <1>n
  <2>4. UNCHANGED <<cur, born>> /\ tick' = "advance" /\ Handed' = Handed BY <1>8 DEF TickCreate, Handed
  <2>h. Handed \subseteq Runs BY HandedRuns
  <2>6. \A q \in Handed : status'[q] # "none" /\ fire'[q] = fire[q] /\ jobOf'[q] = jobOf[q] BY <2>h, <2>3 DEF Keeps, FireInv
  <2>7. \A q \in Handed' : status'[q] # "none" /\ (fire'[q] # Never => Past(q)') BY <2>3, <2>4, <2>6 DEF FireInv, Past
  <2>8. \A q, p \in Handed' : fire'[q] # Never /\ fire'[q] = fire'[p] /\ jobOf'[q] = jobOf'[p] => q = p
    BY <2>4, <2>6 DEF FireInv
  <2>9. tick' = "advance" /\ curRun' \notin Handed' /\ status'[curRun'] # "none" /\ jobOf'[curRun'] = cur' /\ fire'[curRun'] = next'[cur']
    BY <2>1, <2>3, <2>4
  <2> QED BY <2>7, <2>8, <2>9 DEF FireInv
<1>9. ASSUME TickAdvance PROVE FireInv'
  <2>1. Keeps /\ curRun' = NoRun /\ UNCHANGED <<born, jobOf, fire, status, ran, queue>> BY <1>9, <1>k DEF TickAdvance
  <2>2. cur \in Jobs /\ cur \in born /\ next[cur] \in Nat /\ next[cur] <= tnow /\ tnow \in Nat
    BY <1>9, JobsAssumption DEF TickAdvance, CursorInv, JobsAssumption, JobsTypeOK
  <2>3. CASE cur \notin jobs
    <3>1. UNCHANGED next /\ enqueued' = <<>> BY <1>9, <2>3 DEF TickAdvance
    <3>2. Handed' \subseteq Handed BY <2>1, <3>1, ListedEmpty DEF Handed
    <3> QED BY <2>1, <3>1, <3>2, <1>c, FireKept
  <2>4. CASE cur \in jobs
    <3>1. next' = [next EXCEPT ![cur] = tnow + 1] BY <1>9, <2>4 DEF TickAdvance, compute_next_run
    <3>2. CursorKept /\ next'[cur] = tnow + 1 BY <2>1, <2>2, <3>1 DEF CursorKept, JobsTypeOK
    <3>3. CASE curRun = NoRun
      <4>1. enqueued' = enqueued BY <1>9, <2>4, <3>3 DEF TickAdvance
      <4> QED BY <2>1, <3>2, <4>1, FireKept DEF Handed
    <3>4. CASE curRun # NoRun
      <4>0. PICK c \in Runs : c = curRun BY <3>4 DEF JobsTypeOK
      <4>1. enqueued' = Append(enqueued, curRun) BY <1>9, <2>4, <3>4 DEF TickAdvance
      <4>2. Handed' = Handed \cup {c} BY <2>1, <4>0, <4>1, ListedAppend DEF Handed, JobsTypeOK
      <4>3. jobOf[c] = cur /\ fire[c] = next[cur] /\ status[c] # "none" BY <3>4, <4>0 DEF FireInv
      <4>h. Handed \subseteq Runs BY HandedRuns
      <4>4. ASSUME NEW q \in Handed, fire[q] # Never PROVE Past(q) /\ Past(q)' /\ (jobOf[q] = cur => fire[q] # next[cur])
        <5>1. Past(q) /\ fire[q] \in Nat BY <4>4, <4>h DEF FireInv, JobsTypeOK
        <5> QED BY <5>1, <2>1, <2>2, <3>2 DEF Past, CursorKept
      <4>5. Past(c)' BY <2>1, <2>2, <3>2, <4>3 DEF Past
      <4>6. \A q \in Handed' : status'[q] # "none" /\ (fire'[q] # Never => Past(q)') BY <2>1, <4>2, <4>3, <4>4, <4>5 DEF FireInv
      <4>7. \A q, p \in Handed' : fire'[q] # Never /\ fire'[q] = fire'[p] /\ jobOf'[q] = jobOf'[p] => q = p
        BY <2>1, <4>2, <4>3, <4>4 DEF FireInv
      <4> QED BY <2>1, <4>6, <4>7 DEF FireInv
    <3> QED BY <3>3, <3>4
  <2> QED BY <2>3, <2>4
<1>10. ASSUME TickSend PROVE FireInv'
  <2>1. curRun = NoRun BY <1>10 DEF TickSend, FireInv
  <2>2. Handed' = Handed BY <1>10, ListedConcat, ListedEmpty DEF TickSend, Handed, JobsTypeOK
  <2> QED BY <1>10, <2>1, <2>2, <1>c, <1>k, FireKept DEF TickSend
<1>11. ASSUME Receive PROVE FireInv'
  <2> DEFINE r == Head(queue)
  <2>1. r \in Runs /\ r \in Listed(queue) /\ Listed(queue') \subseteq Listed(queue)
    BY <1>11, ListedTail DEF Receive, JobsTypeOK
  <2>2. Mark(r, "Running") \/ Mark(r, "Failed") BY <1>11 DEF Receive
  <2>3. ran' \subseteq ran \cup {r} BY <1>11 DEF Receive
  <2>4. UNCHANGED <<next, jobOf, fire, tick, cur, curRun, enqueued, born>> BY <1>11 DEF Receive
  <2> HIDE DEF r
  <2>5. Handed' \subseteq Handed BY <2>1, <2>3, <2>4 DEF Handed
  <2>6. Keeps BY <2>1, <2>2, <2>4, MarkType DEF Keeps
  <2> QED BY <2>4, <2>5, <2>6, <1>c, FireKept
<1>12. ASSUME AttemptOk \/ AttemptFail PROVE FireInv'
  <2>1. exec \in Runs /\ \E st \in {"Running", "Succeeded", "Failed"} : Mark(exec, st) BY <1>12 DEF AttemptOk, AttemptFail, JobsTypeOK
  <2>2. UNCHANGED <<next, jobOf, fire, tick, cur, curRun, enqueued, born, queue, ran>> BY <1>12 DEF AttemptOk, AttemptFail
  <2>3. Keeps BY <2>1, <2>2, MarkType DEF Keeps
  <2> QED BY <2>2, <2>3, <1>c, FireKept DEF Handed
<1>13. ASSUME TimePasses PROVE FireInv' BY <1>13, <1>c, <1>k, FireKept DEF TimePasses, Handed
<1>14. ASSUME Reboot PROVE FireInv'
  <2>1. Handed' \subseteq Handed BY <1>14, ListedEmpty DEF Reboot, Handed
  <2>2. Keeps BY <1>14 DEF Reboot, Keeps
  <2> QED BY <1>14, <2>1, <2>2, <1>c, FireKept DEF Reboot
<1> QED BY <1>1, <1>2, <1>3, <1>4, <1>5, <1>6, <1>7, <1>8, <1>9, <1>10, <1>11, <1>12, <1>13, <1>14 DEF JobsNext, Tick, Execute

(* The inductive invariant of the scheduler and the executor. *)
JobsInv == JobsTypeOK /\ CursorInv /\ FireInv

(* It holds in every reachable state. *)
THEOREM JobsInvariant == JobsSpec => []JobsInv
<1>1. ASSUME JobsInit PROVE JobsInv
  <2>1. JobsTypeOK BY <1>1, JobsAssumption DEF JobsInit, JobsTypeOK, JobsAssumption
  <2>2. CursorInv BY <1>1 DEF JobsInit, CursorInv
  <2>3. Handed = {} BY <1>1, ListedEmpty DEF JobsInit, Handed
  <2>4. FireInv BY <1>1, <2>3 DEF JobsInit, FireInv
  <2> QED BY <2>1, <2>2, <2>4 DEF JobsInv
<1>2. JobsInv /\ [JobsNext]_jobsVars => JobsInv'
  BY JobsTypes, CursorStep, FireStep, JobsAssumption DEF JobsInv
<1> QED BY <1>1, <1>2, PTL DEF JobsSpec

(* A fire time of a job's schedule is run at most once, whatever crashes    *)
(* between the row, the cursor and the hand-over, deletions, edits of the   *)
(* schedule and manual runs come between: for any number of jobs and runs.  *)
THEOREM FiresAtMostOnce == JobsSpec => []FireAtMostOnce
<1>1. JobsInv => FireAtMostOnce BY DEF JobsInv, FireInv, Handed, FireAtMostOnce
<1> QED BY <1>1, JobsInvariant, PTL

(* The runs that wait: queued, listed by the tick, or in its hands. *)
Line == Listed(queue) \cup Listed(enqueued) \cup ({curRun} \ {NoRun})

(* A run waits in one place only, and is pending as long as it waits; the   *)
(* run that the executor works on is marked as running.                     *)
LineInv ==
  /\ Distinct(queue) /\ Distinct(enqueued) /\ Listed(queue) \cap Listed(enqueued) = {}
  /\ \A r \in Line : status[r] \in {"Pending", "gone"}
  /\ exec # NoRun => status[exec] \in {"Running", "gone"}

(* Only runs wait. *)
LEMMA LineRuns == ASSUME JobsTypeOK PROVE Line \subseteq Runs
  BY ListedIn DEF Line, JobsTypeOK

(* A step that leaves the queues alone and makes no waiting run anything    *)
(* but gone preserves this.                                                 *)
LEMMA LineKept ==
  ASSUME JobsTypeOK, LineInv, UNCHANGED <<queue, enqueued, exec>>,
         \A r \in Runs : status[r] # "none" => status'[r] \in {status[r], "gone"},
         curRun' \in {curRun, NoRun} \/ (curRun' \in Runs /\ status'[curRun'] = "Pending")
  PROVE  LineInv'
<1>h. Line \subseteq Runs BY LineRuns
<1>1. ASSUME NEW r \in Line' PROVE status'[r] \in {"Pending", "gone"}
  <2>1. CASE r \in Line BY <2>1, <1>h DEF LineInv
  <2>2. CASE r \notin Line BY <2>2 DEF Line
  <2> QED BY <2>1, <2>2
<1>2. exec' # NoRun => status'[exec'] \in {"Running", "gone"} BY DEF LineInv, JobsTypeOK
<1> QED BY <1>1, <1>2 DEF LineInv

(* No row leaves a terminal status, except by the deletion of its job. *)
Final == \A r \in Runs : status[r] \in Terminal => status'[r] \in {status[r], "gone"}

(* Every step preserves the lines, and from them follows that the executor  *)
(* never takes up a run that ended.                                         *)
LEMMA LineStep ==
  ASSUME JobsTypeOK, CursorInv, FireInv, LineInv, [JobsNext]_jobsVars, JobsAssumption PROVE LineInv' /\ Final
<1> USE DEF rows, tickVars, execVars
<1>h. Line \subseteq Runs BY LineRuns
<1>k. ASSUME UNCHANGED <<status, queue, enqueued, exec>>, curRun' \in {curRun, NoRun} PROVE LineInv' /\ Final
  BY <1>k, LineKept DEF Final
<1>1. CASE UNCHANGED jobsVars BY <1>1, <1>k DEF jobsVars
<1>2. ASSUME NEW j \in Jobs, CreateJob(j) \/ RunCheck(j) PROVE LineInv' /\ Final BY <1>2, <1>k DEF CreateJob, RunCheck
<1>3. ASSUME NEW j \in Jobs, DeleteJob(j) PROVE LineInv' /\ Final
  <2>1. \A r \in Runs : status'[r] \in {status[r], "gone"} BY <1>3 DEF DeleteJob
  <2> QED BY <1>3, <2>1, LineKept DEF DeleteJob, Final
<1>n. ASSUME NEW r, NEW j \in Jobs, NEW st \in {"Pending", "Skipped"}, NEW f \in Nat \cup {Never}, r \in Unused, CreateRun(r, j, st, f)
      PROVE Final /\ r \in Runs \ Line /\ status'[r] = st /\ \A q \in Runs : status[q] # "none" => status'[q] = status[q]
  <2>1. r \in Runs /\ status[r] = "none" /\ status'[r] = st /\ \A q \in Runs \ {r} : status'[q] = status[q] BY <1>n, NewRun
  <2> QED BY <2>1 DEF LineInv, Final, Terminal
<1>4. ASSUME NEW j \in Jobs, RunCreate(j) PROVE LineInv' /\ Final
  <2>1. PICK r \in Unused : CreateRun(r, j, "Pending", Never) /\ queue' = Append(queue, r) BY <1>4 DEF RunCreate
  <2>2. Final /\ r \in Runs \ Line /\ status'[r] = "Pending" /\ \A q \in Runs : status[q] # "none" => status'[q] = status[q]
    BY <2>1, <1>n
  <2>3. UNCHANGED <<curRun, enqueued, exec>> BY <1>4 DEF RunCreate
  <2>4. Listed(queue') = Listed(queue) \cup {r} /\ Distinct(queue') BY <2>1, <2>2, ListedAppend DEF JobsTypeOK, Line, LineInv
  <2>5. Line' = Line \cup {r} /\ Listed(queue') \cap Listed(enqueued') = {} BY <2>2, <2>3, <2>4 DEF Line, LineInv
  <2>6. \A q \in Line' : status'[q] \in {"Pending", "gone"} BY <1>h, <2>2, <2>5 DEF LineInv
  <2>7. exec' # NoRun => status'[exec'] \in {"Running", "gone"} BY <2>2, <2>3 DEF LineInv, JobsTypeOK
  <2> QED BY <2>2, <2>3, <2>4, <2>5, <2>6, <2>7 DEF LineInv
<1>5. ASSUME TickClaim \/ (\E j \in Jobs : TickCheck(j)) PROVE LineInv' /\ Final BY <1>5, <1>k DEF TickClaim, TickCheck
<1>6. ASSUME TickSkip \/ TickCreate PROVE LineInv' /\ Final
  <2>1. cur \in Jobs /\ next[cur] \in Nat BY <1>6, JobsAssumption DEF TickSkip, TickCreate, CursorInv, JobsAssumption
  <2>2. CASE TickSkip
    <3>1. PICK r \in Unused : CreateRun(r, cur, "Skipped", next[cur]) BY <2>2 DEF TickSkip
    <3>2. Final /\ \A q \in Runs : status[q] # "none" => status'[q] = status[q] BY <2>1, <3>1, <1>n
    <3> QED BY <2>2, <3>2, LineKept DEF TickSkip
  <2>3. CASE TickCreate
    <3>1. PICK r \in Unused : CreateRun(r, cur, "Pending", next[cur]) /\ curRun' = r BY <2>3 DEF TickCreate
    <3>2. Final /\ r \in Runs /\ status'[r] = "Pending" /\ \A q \in Runs : status[q] # "none" => status'[q] = status[q] BY <2>1, <3>1, <1>n
    <3> QED BY <2>3, <3>1, <3>2, LineKept DEF TickCreate
  <2> QED BY <1>6, <2>2, <2>3
<1>7. ASSUME TickAdvance PROVE LineInv' /\ Final
  <2>1. UNCHANGED <<status, queue, exec>> /\ curRun' = NoRun BY <1>7 DEF TickAdvance
  <2>2. Final BY <2>1 DEF Final
  <2>3. CASE enqueued' = <<>> BY <2>1, <2>2, <2>3, ListedEmpty DEF LineInv, Line
  <2>4. CASE enqueued' = enqueued BY <2>1, <2>4, <1>k
  <2>5. CASE curRun # NoRun /\ enqueued' = Append(enqueued, curRun)
    <3>1. curRun \in Runs /\ curRun \notin Listed(queue) \cup Listed(enqueued) BY <2>5 DEF JobsTypeOK, FireInv, Handed
    <3>2. Listed(enqueued') = Listed(enqueued) \cup {curRun} /\ Distinct(enqueued')
      BY <2>5, <3>1, ListedAppend DEF JobsTypeOK, LineInv
    <3>3. Line' = Line /\ Listed(queue') \cap Listed(enqueued') = {} BY <2>1, <2>5, <3>1, <3>2 DEF Line, LineInv
    <3> QED BY <2>1, <2>2, <3>2, <3>3 DEF LineInv
  <2> QED BY <1>7, <2>3, <2>4, <2>5 DEF TickAdvance
<1>8. ASSUME TickSend PROVE LineInv' /\ Final
  <2>1. UNCHANGED <<status, exec, curRun>> /\ queue' = queue \o enqueued /\ enqueued' = <<>> BY <1>8 DEF TickSend
  <2>2. Listed(queue') = Listed(queue) \cup Listed(enqueued) /\ Distinct(queue') BY <2>1, ListedConcat DEF JobsTypeOK, LineInv
  <2>3. Listed(enqueued') = {} /\ Distinct(enqueued') BY <2>1, ListedEmpty
  <2>4. Line' = Line BY <2>1, <2>2, <2>3 DEF Line
  <2> QED BY <2>1, <2>2, <2>3, <2>4 DEF LineInv, Final
<1>9. ASSUME Receive PROVE LineInv' /\ Final
  <2>0. PICK r : r = Head(queue) OBVIOUS
  <2>1. r \in Runs /\ Listed(queue) = Listed(queue') \cup {r} /\ Distinct(queue') /\ r \notin Listed(queue')
    BY <1>9, <2>0, ListedTail DEF Receive, JobsTypeOK, LineInv
  <2>2. (Mark(r, "Running") /\ exec' = r) \/ (Mark(r, "Failed") /\ exec' = exec) BY <1>9, <2>0 DEF Receive
  <2>3. exec = NoRun /\ UNCHANGED <<curRun, enqueued>> BY <1>9 DEF Receive
  <2>4. r \in Line /\ status[r] \in {"Pending", "gone"} BY <2>1 DEF Line, LineInv
  <2>5. r \notin Listed(enqueued) /\ r # curRun BY <2>1 DEF LineInv, FireInv, Handed, JobsTypeOK
  <2>6. r \notin Line' /\ Line' \subseteq Line BY <2>1, <2>3, <2>5 DEF Line
  <2>7. /\ \A q \in Runs \ {r} : status'[q] = status[q]
        /\ status'[r] \in {"Running", "Failed", "gone"}
        /\ exec' = r => status'[r] \in {"Running", "gone"}
        /\ status[r] = "gone" => status'[r] = "gone"
    <3>1. CASE Mark(r, "Running") BY <3>1, <2>1, MarkType
    <3>2. CASE Mark(r, "Failed") /\ exec' = exec BY <3>2, <2>1, <2>3, MarkType, JobsAssumption DEF JobsAssumption
    <3> QED BY <2>2, <3>1, <3>2
  <2>8. Final BY <2>4, <2>7 DEF Final, Terminal
  <2>9. \A q \in Line' : status'[q] \in {"Pending", "gone"} BY <1>h, <2>6, <2>7 DEF LineInv
  <2>10. exec' # NoRun => status'[exec'] \in {"Running", "gone"} BY <2>2, <2>3, <2>7
  <2>11. Distinct(enqueued') /\ Listed(queue') \cap Listed(enqueued') = {} BY <2>1, <2>3 DEF LineInv
  <2> QED BY <2>1, <2>8, <2>9, <2>10, <2>11 DEF LineInv
<1>10. ASSUME AttemptOk \/ AttemptFail PROVE LineInv' /\ Final
  <2>1. exec \in Runs /\ status[exec] \in {"Running", "gone"} BY <1>10 DEF AttemptOk, AttemptFail, JobsTypeOK, LineInv
  <2>2. (exec' = exec /\ Mark(exec, "Running")) \/ (exec' = NoRun /\ (Mark(exec, "Succeeded") \/ Mark(exec, "Failed")))
    BY <1>10 DEF AttemptOk, AttemptFail
  <2>3. UNCHANGED <<curRun, enqueued, queue>> BY <1>10 DEF AttemptOk, AttemptFail
  <2>4. /\ \A q \in Runs \ {exec} : status'[q] = status[q]
        /\ status[exec] = "gone" => status'[exec] = "gone"
        /\ exec' = exec => status'[exec] \in {"Running", "gone"}
    <3>1. CASE exec' = exec /\ Mark(exec, "Running") BY <3>1, <2>1, MarkType
    <3>2. CASE exec' = NoRun /\ (Mark(exec, "Succeeded") \/ Mark(exec, "Failed"))
      BY <3>2, <2>1, MarkType, JobsAssumption DEF JobsAssumption
    <3> QED BY <2>2, <3>1, <3>2
  <2>5. Final BY <2>1, <2>4 DEF Final, Terminal
  <2>6. Line' = Line BY <2>3 DEF Line
  <2>7. \A q \in Line' : status'[q] \in {"Pending", "gone"} BY <1>h, <2>1, <2>4, <2>6 DEF LineInv
  <2>8. exec' # NoRun => status'[exec'] \in {"Running", "gone"} BY <2>2, <2>4
  <2> QED BY <2>3, <2>5, <2>7, <2>8 DEF LineInv
<1>11. ASSUME TimePasses PROVE LineInv' /\ Final BY <1>11, <1>k DEF TimePasses
<1>12. ASSUME Reboot PROVE LineInv' /\ Final
  <2>1. Line' = {} /\ Distinct(queue') /\ Distinct(enqueued') /\ Listed(queue') = {} /\ exec' = NoRun
    BY <1>12, ListedEmpty DEF Reboot, Line
  <2>2. Final BY <1>12 DEF Reboot, Final, Terminal, Orphaned
  <2> QED BY <2>1, <2>2 DEF LineInv
<1> QED BY <1>1, <1>2, <1>3, <1>4, <1>5, <1>6, <1>7, <1>8, <1>9, <1>10, <1>11, <1>12 DEF JobsNext, Tick, Execute

(* A run that succeeded, failed or was skipped stays so                     *)
(* (update_job_run_status writes unconditionally, so this rests on who may  *)
(* hold the run): the restart that fails interrupted runs, late completions *)
(* and manual runs included.                                                *)
THEOREM TerminalStaysFinal == JobsSpec => TerminalIsFinal
<1>1. ASSUME JobsInit PROVE LineInv
  BY <1>1, ListedEmpty DEF JobsInit, LineInv, Line
<1>2. JobsInv /\ LineInv /\ [JobsNext]_jobsVars => LineInv' BY LineStep, JobsAssumption DEF JobsInv
<1>3. JobsInv /\ LineInv /\ [JobsNext]_jobsVars => [Final]_jobsVars BY LineStep, JobsAssumption DEF JobsInv
<1>4. [Final]_jobsVars => [\A r \in Runs : status[r] \in Terminal => status'[r] \in {status[r], "gone"}]_jobsVars BY DEF Final
<1> QED BY <1>1, <1>2, <1>3, <1>4, JobsInvariant, PTL DEF JobsSpec, TerminalIsFinal

-----------------------------------------------------------------------------
(* The stages of a console connection before its shell is launched, and     *)
(* those of the launch.                                                     *)
Knocking == {"idle", "ticket", "service", "open", "cloned"}
Launching == {"pty", "fds", "root", "fork"}
Stages == Knocking \cup Launching \cup {"shell", "bridge", "write", "grace", "wait", "ended", "done"}

(* Types. *)
Connections ==
  [at : Stages, ticket : Tickets \cup {NoTicket}, svc : Services \cup {NoTicket}, cloned : Nat, start : Nat,
   stale : BOOLEAN, fds : SUBSET Nat, shell : {"none", "runs", "gone"},
   sup : {"none", "runs", "exited", "reaped"}, open : BOOLEAN,
   held : BOOLEAN, orphan : BOOLEAN]

ConsoleTypeOK ==
  /\ procs \in Nat \ {0} /\ holder \in {0, procs} /\ tracked \in Nat
  /\ conn \in [Conns -> Connections]

(* The start time that was read is that of the process the console was      *)
(* cloned from, or the process was gone by then.                            *)
NotStale(k) == k.stale \/ k.start = k.cloned

(* What a connection k knows at its stage when p processes were started so  *)
(* far: from the moment it has read the start time, every descriptor it     *)
(* opened under the pid is of that process or of a later one that got the   *)
(* same pid; and the shell starts only behind the check that they are all   *)
(* of that very process.                                                    *)
Fits(k, p) ==
  /\ k.at \in Knocking \cup Launching => k.shell = "none"
  /\ k.at \in Knocking \cup {"pty"} => k.fds = {}
  /\ k.at \in Launching => k.start \in 1 .. p /\ NotStale(k) /\ k.fds \subseteq k.start .. p
  /\ k.at \in {"root", "fork"} => k.fds # {}
  /\ k.shell = "runs" => k.fds = {k.start} /\ NotStale(k)

(* The inductive invariant of the launch. *)
LaunchInv == ConsoleTypeOK /\ \A c \in Conns : Fits(conn[c], procs)


(* One connection moves on while the processes stay. *)
LEMMA FitsStep ==
  ASSUME NEW c \in Conns, NEW k \in Connections, LaunchInv,
         conn' = [conn EXCEPT ![c] = k], UNCHANGED processes, Fits(k, procs)
  PROVE  LaunchInv'
  BY DEF LaunchInv, ConsoleTypeOK, processes

(* A connection that changes its stage only. *)
LEMMA GoStep ==
  ASSUME NEW c \in Conns, NEW w \in Stages, LaunchInv, Go(c, w), UNCHANGED processes,
         conn[c].at \in Knocking => w \in Knocking \cup {"done"},
         conn[c].at = "fork" => w = "done", conn[c].at = "root" => w = "done",
         conn[c].at = "pty" => w \in {"fds", "done"},
         conn[c].at = "fds" => w = "done" \/ (w = "root" /\ conn[c].fds # {}),
         conn[c].at \notin Knocking \cup Launching => w \notin Knocking \cup Launching
  PROVE  LaunchInv'
<1> DEFINE k == [conn[c] EXCEPT !.at = w]
<1>1. conn[c] \in Connections BY DEF LaunchInv, ConsoleTypeOK
<1>2. k \in Connections BY <1>1 DEF Connections
<1>3. conn' = [conn EXCEPT ![c] = k] BY <1>1 DEF Go, LaunchInv, ConsoleTypeOK
<1>4. k.at = w /\ k.fds = conn[c].fds /\ k.shell = conn[c].shell /\ k.start = conn[c].start
      /\ k.stale = conn[c].stale /\ k.cloned = conn[c].cloned
  BY <1>1 DEF Connections
<1>5. NotStale(conn[c]) => NotStale(k) BY <1>4 DEF NotStale
<1>6. Fits(conn[c], procs) BY DEF LaunchInv
<1> HIDE DEF k
<1>7. Fits(k, procs) BY <1>4, <1>5, <1>6, <1>1 DEF Fits, Knocking, Launching, Connections, Stages
<1> QED BY <1>2, <1>3, <1>7, FitsStep

(* A connection whose descriptors stay. *)
Same(k, c) ==
  /\ k.fds = conn[c].fds /\ k.start = conn[c].start /\ k.stale = conn[c].stale /\ k.cloned = conn[c].cloned

(* ... and that ends, or whose shell ends. *)
LEMMA KeptStep ==
  ASSUME NEW c \in Conns, NEW k \in Connections, LaunchInv, Same(k, c),
         k.shell \in {conn[c].shell, "gone"},
         k.at \notin Knocking \cup Launching \/ (k.at = conn[c].at /\ k.shell = conn[c].shell)
  PROVE  Fits(k, procs)
<1>1. Fits(conn[c], procs) BY DEF LaunchInv
<1>2. NotStale(conn[c]) => NotStale(k) BY DEF NotStale, Same
<1> QED BY <1>1, <1>2 DEF Fits, Same, Knocking, Launching, Connections, Stages

(* A descriptor is opened under the pid: of whoever holds it now. *)
LEMMA FileStep ==
  ASSUME LaunchInv, NEW c \in Conns, NEW k \in Connections, holder # 0, UNCHANGED processes,
         conn[c].at \in Launching \ {"pty"}, k.at = conn[c].at \/ (conn[c].at = "root" /\ k.at = "fork"),
         k.start = conn[c].start, k.stale = conn[c].stale, k.cloned = conn[c].cloned,
         k.fds = conn[c].fds \cup {holder}, k.shell = conn[c].shell,
         conn' = [conn EXCEPT ![c] = k]
  PROVE  LaunchInv'
<1>1. holder = procs /\ procs \in Nat \ {0} BY DEF LaunchInv, ConsoleTypeOK
<1>2. conn[c] \in Connections /\ Fits(conn[c], procs) BY DEF LaunchInv, ConsoleTypeOK
<1>3. conn[c].start \in Nat /\ conn[c].fds \subseteq conn[c].start .. procs /\ NotStale(conn[c])
      /\ conn[c].shell = "none" /\ conn[c].start \in 1 .. procs
  BY <1>2 DEF Fits, Knocking, Launching, Connections
<1>4. NotStale(k) BY <1>3 DEF NotStale
<1>5. Fits(k, procs) BY <1>1, <1>3, <1>4 DEF Fits, Knocking, Launching
<1> QED BY <1>5, FitsStep

(* The invariant holds at the start. *)
LEMMA LaunchInit == ASSUME ConsoleInit PROVE LaunchInv
<1>1. NoConn \in Connections BY DEF NoConn, Connections, Stages, Knocking
<1>2. Fits(NoConn, 1) BY DEF NoConn, Fits, Knocking, Launching
<1> QED BY <1>1, <1>2 DEF ConsoleInit, LaunchInv, ConsoleTypeOK

(* Every step preserves it. *)
LEMMA LaunchStep == ASSUME LaunchInv, [ConsoleNext]_consoleVars, ConsoleAssumption PROVE LaunchInv'
<1> USE DEF processes, limits
<1>t. \A c \in Conns : conn[c] \in Connections BY DEF LaunchInv, ConsoleTypeOK
<1>f. \A c \in Conns : Fits(conn[c], procs) BY DEF LaunchInv
<1>h. holder \in Nat BY DEF LaunchInv, ConsoleTypeOK
<1>1. CASE UNCHANGED consoleVars BY <1>1 DEF consoleVars, LaunchInv, ConsoleTypeOK, Fits, NotStale
<1>2. ASSUME NEW t \in Tickets, (\E s \in Services : create_console_ticket(t, s)) \/ TicketExpires(t) PROVE LaunchInv'
  BY <1>2 DEF create_console_ticket, TicketExpires, LaunchInv, ConsoleTypeOK
<1>3. ASSUME NEW c \in Conns, NEW t \in Tickets, NEW s \in Services, consume_ticket(c, t, s) PROVE LaunchInv'
  <2> DEFINE w == IF tickets[t].svc = s /\ ~tickets[t].expired THEN "ticket" ELSE "done"
             k == [conn[c] EXCEPT !.at = w, !.ticket = t, !.svc = s]
  <2>0. w \in {"ticket", "done"} OBVIOUS
  <2> HIDE DEF w
  <2>1. k \in Connections BY <1>t, <2>0 DEF Connections, Stages, Knocking
  <2>2. conn' = [conn EXCEPT ![c] = k] BY <1>3 DEF consume_ticket, LaunchInv, ConsoleTypeOK, w
  <2>3. k.at = w /\ Same(k, c) /\ k.shell = conn[c].shell BY <1>t DEF Connections, Same
  <2>4. conn[c].at = "idle" /\ UNCHANGED processes BY <1>3 DEF consume_ticket, ConnAt
  <2> HIDE DEF k
  <2>5. Fits(k, procs) BY <2>0, <2>1, <2>3, <2>4, <1>f DEF Fits, Same, Knocking, Launching
  <2> QED BY <2>1, <2>2, <2>4, <2>5, FitsStep
<1>4. ASSUME NEW c \in Conns, console_ws(c) PROVE LaunchInv'
  <2>1. conn[c].at \in {"ticket", "service"} /\ UNCHANGED processes /\ \E w \in {"done", "service", "open"} : Go(c, w)
    BY <1>4 DEF console_ws, ConnAt
  <2> QED BY <2>1, GoStep DEF Knocking, Launching, Stages
<1>e. ASSUME NEW c \in Conns, EndConn(c), UNCHANGED processes PROVE LaunchInv'
  BY <1>e, <1>t, GoStep DEF EndConn, Stages, Knocking, Launching
<1>5. ASSUME NEW c \in Conns, open_console(c) PROVE LaunchInv'
  <2>1. CASE tracked = 0 BY <1>5, <2>1, <1>e DEF open_console
  <2>2. CASE tracked # 0
    <3> DEFINE k == [conn[c] EXCEPT !.at = "cloned", !.cloned = tracked]
    <3>1. k \in Connections /\ k.at = "cloned" /\ k.fds = conn[c].fds /\ k.shell = conn[c].shell
      BY <1>t DEF Connections, Stages, Knocking, LaunchInv, ConsoleTypeOK
    <3>2. conn' = [conn EXCEPT ![c] = k] /\ conn[c].at = "open" /\ UNCHANGED processes
      BY <1>5, <2>2 DEF open_console, ConnAt, LaunchInv, ConsoleTypeOK
    <3> HIDE DEF k
    <3>3. Fits(k, procs) BY <3>1, <3>2, <1>f DEF Fits, Knocking, Launching
    <3> QED BY <3>1, <3>2, <3>3, FitsStep
  <2> QED BY <2>1, <2>2
<1>6. ASSUME NEW c \in Conns, read_process_start_time(c) PROVE LaunchInv'
  <2>1. CASE holder = 0 BY <1>6, <2>1, <1>e DEF read_process_start_time
  <2>2. CASE holder # 0
    <3>1. PICK b \in BOOLEAN : b = (holder # conn[c].cloned)
      <4> WITNESS (holder # conn[c].cloned) \in BOOLEAN
      <4> QED OBVIOUS
    <3> DEFINE k == [conn[c] EXCEPT !.at = "pty", !.start = holder, !.stale = b]
    <3>2. conn' = [conn EXCEPT ![c].at = "pty", ![c].start = holder, ![c].stale = b]
      BY <1>6, <2>2, <3>1, Zenon DEF read_process_start_time
    <3>3. conn' = [conn EXCEPT ![c] = k] BY <3>2 DEF LaunchInv, ConsoleTypeOK
    <3>4. holder = procs /\ procs \in Nat \ {0} BY <2>2 DEF LaunchInv, ConsoleTypeOK
    <3>5. k \in Connections /\ k.at = "pty" /\ k.start = holder /\ k.stale = b /\ k.cloned = conn[c].cloned
          /\ k.fds = conn[c].fds /\ k.shell = conn[c].shell
      BY <1>t, <3>4 DEF Connections, Stages, Launching
    <3>6. conn[c].at = "cloned" /\ UNCHANGED processes BY <1>6 DEF read_process_start_time, ConnAt
    <3> HIDE DEF k
    <3>7. NotStale(k) BY <3>1, <3>5 DEF NotStale
    <3>8. Fits(k, procs) BY <3>4, <3>5, <3>6, <3>7, <1>f DEF Fits, Knocking, Launching
    <3> QED BY <3>3, <3>5, <3>6, <3>8, FitsStep
  <2> QED BY <2>1, <2>2
<1>7. ASSUME NEW c \in Conns, open_pty(c) PROVE LaunchInv'
  <2>1. CASE EndConn(c) BY <1>7, <2>1, <1>e DEF open_pty
  <2>2. CASE Go(c, "fds") BY <1>7, <2>2, GoStep DEF open_pty, ConnAt, Stages, Knocking, Launching
  <2> QED BY <1>7, <2>1, <2>2 DEF open_pty
<1>9. ASSUME NEW c \in Conns, open_namespace_fds(c) PROVE LaunchInv'
  <2>1. CASE holder # 0 /\ ~exited /\ conn' = [conn EXCEPT ![c].fds = @ \cup {holder}]
    <3> DEFINE k == [conn[c] EXCEPT !.fds = @ \cup {holder}]
    <3>1. conn[c].at = "fds" /\ UNCHANGED processes BY <1>9 DEF open_namespace_fds, ConnAt
    <3>2. k \in Connections /\ k.fds = conn[c].fds \cup {holder}
          /\ k.at = conn[c].at /\ k.shell = conn[c].shell
      BY <1>t, <1>h DEF Connections, Same
    <3>3. k.start = conn[c].start /\ k.stale = conn[c].stale /\ k.cloned = conn[c].cloned BY <1>t DEF Connections
    <3>4. conn' = [conn EXCEPT ![c] = k] BY <2>1 DEF LaunchInv, ConsoleTypeOK
    <3>5. conn[c].at \in Launching \ {"pty"} /\ UNCHANGED processes BY <3>1 DEF Launching
    <3>6. holder # 0 BY <2>1
    <3> HIDE DEF k
    <3> QED BY <3>2, <3>3, <3>4, <3>5, <3>6, FileStep
  <2>2. CASE conn[c].fds # {} /\ Go(c, "root")
    BY <1>9, <2>2, GoStep DEF open_namespace_fds, ConnAt, Stages, Knocking, Launching
  <2>3. CASE EndConn(c) BY <1>9, <2>3, <1>e DEF open_namespace_fds
  <2> QED BY <1>9, <2>1, <2>2, <2>3 DEF open_namespace_fds
<1>10. ASSUME NEW c \in Conns, open_target_root(c) PROVE LaunchInv'
  <2>1. CASE holder = 0 \/ exited BY <1>10, <2>1, <1>e DEF open_target_root
  <2>2. CASE ~(holder = 0 \/ exited)
    <3> DEFINE k == [conn[c] EXCEPT !.at = "fork", !.fds = @ \cup {holder}]
    <3>1. conn[c].at = "root" /\ UNCHANGED processes BY <1>10 DEF open_target_root, ConnAt
    <3>2. k \in Connections /\ k.fds = conn[c].fds \cup {holder} /\ k.at = "fork" /\ k.shell = conn[c].shell
      BY <1>t, <1>h DEF Connections, Stages, Launching
    <3>3. k.start = conn[c].start /\ k.stale = conn[c].stale /\ k.cloned = conn[c].cloned BY <1>t DEF Connections
    <3>4. conn' = [conn EXCEPT ![c] = k] BY <1>10, <2>2 DEF open_target_root, LaunchInv, ConsoleTypeOK
    <3> HIDE DEF k
    <3>5. conn[c].at \in Launching \ {"pty"} BY <3>1 DEF Launching
    <3> QED BY <2>2, <3>1, <3>2, <3>3, <3>4, <3>5, FileStep
  <2> QED BY <2>1, <2>2
<1>11. ASSUME NEW c \in Conns, child_exec_console(c) PROVE LaunchInv'
  <2>1. CASE EndConn(c) BY <1>11, <2>1, <1>e DEF child_exec_console
  <2>2. CASE /\ SameProcess(c)
             /\ conn' = [conn EXCEPT ![c].at = "shell", ![c].shell = "runs", ![c].sup = "runs"]
    <3> DEFINE k == [conn[c] EXCEPT !.at = "shell", !.shell = "runs", !.sup = "runs"]
    <3>1. k \in Connections /\ k.at = "shell" /\ Same(k, c) BY <1>t DEF Connections, Stages, Same
    <3>2. conn' = [conn EXCEPT ![c] = k] BY <2>2 DEF LaunchInv, ConsoleTypeOK
    <3>3. conn[c].at = "fork" /\ UNCHANGED processes BY <1>11 DEF child_exec_console, ConnAt
    <3> HIDE DEF k
    <3>4. conn[c].start \in 1 .. procs /\ conn[c].fds \subseteq conn[c].start .. procs /\ conn[c].fds # {} /\ NotStale(conn[c])
      BY <3>3, <1>f DEF Fits, Launching
    <3>5. conn[c].start = procs
      BY <2>2, <3>4 DEF SameProcess, LaunchInv, ConsoleTypeOK
    <3>6. conn[c].fds = {conn[c].start} BY <3>4, <3>5
    <3>7. k.fds = {k.start} /\ NotStale(k) BY <3>1, <3>4, <3>6 DEF Same, NotStale
    <3>8. Fits(k, procs) BY <3>1, <3>7 DEF Fits, Knocking, Launching
    <3> QED BY <3>1, <3>2, <3>3, <3>8, FitsStep
  <2> QED BY <1>11, <2>1, <2>2 DEF child_exec_console
<1>12. ASSUME NEW c \in Conns, spawn_console_process(c) \/ ConsoleWrite(c) \/ bridge_console_socket(c) PROVE LaunchInv'
  <2>1. /\ conn[c].at \in {"shell", "bridge", "write"} /\ UNCHANGED processes
        /\ \E w \in {"bridge", "write", "grace"} : Go(c, w)
    BY <1>12 DEF spawn_console_process, ConsoleWrite, bridge_console_socket, ConnAt
  <2> QED BY <2>1, GoStep DEF Knocking, Launching, Stages
<1>13. ASSUME NEW c \in Conns, SocketCloses(c) PROVE LaunchInv'
  <2> DEFINE k == [conn[c] EXCEPT !.open = FALSE]
  <2>1. k \in Connections /\ k.at = conn[c].at /\ k.shell = conn[c].shell /\ Same(k, c) BY <1>t DEF Connections, Same
  <2>2. conn' = [conn EXCEPT ![c] = k] /\ UNCHANGED processes BY <1>13 DEF SocketCloses, LaunchInv, ConsoleTypeOK
  <2> HIDE DEF k
  <2> QED BY <2>1, <2>2, KeptStep, FitsStep
<1>14. ASSUME NEW c \in Conns, ShellExits(c) PROVE LaunchInv'
  <2>1. PICK held \in BOOLEAN :
          conn' = [conn EXCEPT ![c].shell = "gone", ![c].held = held,
                               ![c].sup = IF conn[c].sup = "runs" THEN "exited" ELSE @]
    BY <1>14 DEF ShellExits
  <2> DEFINE u == IF conn[c].sup = "runs" THEN "exited" ELSE conn[c].sup
             k == [conn[c] EXCEPT !.shell = "gone", !.held = held, !.sup = u]
  <2>2. k \in Connections /\ k.at = conn[c].at /\ k.shell = "gone" /\ Same(k, c) BY <1>t DEF Connections, Same
  <2>3. conn' = [conn EXCEPT ![c] = k] /\ UNCHANGED processes /\ conn[c].shell = "runs"
    BY <1>14, <2>1, <1>t DEF ShellExits, LaunchInv, ConsoleTypeOK, Connections
  <2>4. conn[c].at \notin Knocking \cup Launching BY <2>3, <1>f DEF Fits
  <2> HIDE DEF k
  <2> QED BY <2>2, <2>3, <2>4, KeptStep, FitsStep
<1>23. ASSUME NEW c \in Conns, TerminalReleased(c) PROVE LaunchInv'
  <2> DEFINE k == [conn[c] EXCEPT !.held = FALSE]
  <2>1. k \in Connections /\ k.at = conn[c].at /\ k.shell = conn[c].shell /\ Same(k, c) BY <1>t DEF Connections, Same
  <2>2. conn' = [conn EXCEPT ![c] = k] /\ UNCHANGED processes BY <1>23 DEF TerminalReleased, LaunchInv, ConsoleTypeOK
  <2> HIDE DEF k
  <2> QED BY <2>1, <2>2, KeptStep, FitsStep
<1>24. ASSUME NEW c \in Conns, SupervisorDies(c) PROVE LaunchInv'
  <2> DEFINE k == [conn[c] EXCEPT !.sup = "exited", !.orphan = TRUE]
  <2>1. k \in Connections /\ k.at = conn[c].at /\ k.shell = conn[c].shell /\ Same(k, c) BY <1>t DEF Connections, Same
  <2>2. conn' = [conn EXCEPT ![c] = k] /\ UNCHANGED processes BY <1>24 DEF SupervisorDies, LaunchInv, ConsoleTypeOK
  <2> HIDE DEF k
  <2> QED BY <2>1, <2>2, KeptStep, FitsStep
<1>15. ASSUME NEW c \in Conns, try_wait(c) \/ reap(c) \/ wait(c) PROVE LaunchInv'
  <2>1. PICK w \in {"ended", "wait"}, sh \in {conn[c].shell, "gone"}, u \in {"exited", "reaped"} :
          conn' = [conn EXCEPT ![c].at = w, ![c].shell = sh, ![c].sup = u]
    <3>1. CASE try_wait(c) \/ wait(c)
      <4>1. conn' = [conn EXCEPT ![c].at = "ended", ![c].shell = conn[c].shell, ![c].sup = "reaped"]
        BY <3>1, <1>t DEF try_wait, wait, LaunchInv, ConsoleTypeOK, Connections
      <4> QED BY <4>1
    <3>2. CASE reap(c) BY <3>2 DEF reap
    <3> QED BY <1>15, <3>1, <3>2
  <2> DEFINE k == [conn[c] EXCEPT !.at = w, !.shell = sh, !.sup = u]
  <2>2. k \in Connections /\ k.at = w /\ k.shell = sh /\ Same(k, c) BY <1>t DEF Connections, Same, Stages
  <2>3. conn' = [conn EXCEPT ![c] = k] /\ UNCHANGED processes
    BY <1>15, <2>1 DEF try_wait, wait, reap, LaunchInv, ConsoleTypeOK
  <2> HIDE DEF k
  <2> QED BY <2>2, <2>3, KeptStep, FitsStep DEF Knocking, Launching
<1>16. ASSUME NEW c \in Conns, handle_console_socket(c) PROVE LaunchInv'
  BY <1>16, <1>e DEF handle_console_socket
<1>17. ASSUME NEW D \in SUBSET Conns, NEW f, UNCHANGED <<procs, tracked>>, holder' \in {0, procs'},
              \A c \in D : f[c] \in Connections /\ Same(f[c], c) /\ f[c].at = conn[c].at
                           /\ (f[c].shell = conn[c].shell \/ (conn[c].shell = "runs" /\ f[c].shell = "gone")),
              conn' = [c \in Conns |-> IF c \in D THEN f[c] ELSE conn[c]]
       PROVE LaunchInv'
  <2>1. ASSUME NEW c \in Conns PROVE conn'[c] \in Connections /\ Fits(conn'[c], procs)
    <3>1. CASE c \notin D BY <1>17, <3>1, <1>t, <1>f
    <3>2. CASE c \in D
      <4>1. conn'[c] = f[c] BY <1>17, <3>2
      <4>2. conn[c].shell = "runs" => conn[c].at \notin Knocking \cup Launching BY <1>f DEF Fits
      <4>3. Fits(f[c], procs) BY <1>17, <3>2, <4>2, KeptStep
      <4> QED BY <4>1, <4>3, <1>17, <3>2
    <3> QED BY <3>1, <3>2
  <2> QED BY <2>1, <1>17 DEF LaunchInv, ConsoleTypeOK
<1>18. ASSUME reap_console_children PROVE LaunchInv'
  <2> DEFINE D == {c \in Conns : c \in supervisors /\ conn[c].sup = "exited"}
             f == [c \in Conns |-> [conn[c] EXCEPT !.sup = "reaped"]]
  <2>1. \A c \in D : f[c] \in Connections /\ Same(f[c], c) /\ f[c].at = conn[c].at /\ f[c].shell = conn[c].shell
    BY <1>t DEF Connections, Same
  <2>2. conn' = [c \in Conns |-> IF c \in D THEN f[c] ELSE conn[c]] BY <1>18 DEF reap_console_children
  <2>3. UNCHANGED processes BY <1>18 DEF reap_console_children
  <2> HIDE DEF D, f
  <2>4. D \in SUBSET Conns BY DEF D
  <2>5. holder' \in {0, procs'} /\ UNCHANGED <<procs, tracked>> BY <2>3 DEF LaunchInv, ConsoleTypeOK
  <2> QED BY <2>1, <2>2, <2>4, <2>5, <1>17
<1>19. ASSUME ReplicaExits PROVE LaunchInv'
  <2> DEFINE D == {c \in Conns : conn[c].shell = "runs" /\ holder \in conn[c].fds}
             f == [c \in Conns |-> [conn[c] EXCEPT !.shell = "gone", !.sup = IF conn[c].sup = "runs" THEN "exited" ELSE conn[c].sup]]
  <2>1. \A c \in D : f[c] \in Connections /\ Same(f[c], c) /\ f[c].at = conn[c].at
                       /\ (f[c].shell = conn[c].shell \/ (conn[c].shell = "runs" /\ f[c].shell = "gone"))
    <3>1. SUFFICES ASSUME NEW c \in D PROVE f[c] \in Connections /\ Same(f[c], c) /\ f[c].at = conn[c].at
                                           /\ conn[c].shell = "runs" /\ f[c].shell = "gone"
      OBVIOUS
    <3>2. c \in Conns /\ conn[c].shell = "runs" /\ conn[c] \in Connections BY <1>t
    <3>3. PICK u \in {"none", "runs", "exited", "reaped"} : f[c] = [conn[c] EXCEPT !.shell = "gone", !.sup = u]
      BY <3>2 DEF Connections
    <3> HIDE DEF D, f
    <3> QED BY <3>2, <3>3 DEF Connections, Same
  <2>2. conn' = [c \in Conns |-> IF c \in D THEN f[c] ELSE conn[c]] BY <1>19, <1>t DEF ReplicaExits, Connections
  <2>3. UNCHANGED <<holder, procs, tracked>> BY <1>19 DEF ReplicaExits
  <2> HIDE DEF D, f
  <2>4. D \in SUBSET Conns BY DEF D
  <2>5. holder' \in {0, procs'} /\ UNCHANGED <<procs, tracked>> BY <2>3 DEF LaunchInv, ConsoleTypeOK
  <2> QED BY <2>1, <2>2, <2>4, <2>5, <1>17
<1>20. ASSUME reap_exited_children \/ StrangerEnds PROVE LaunchInv'
  BY <1>20 DEF reap_exited_children, StrangerEnds, LaunchInv, ConsoleTypeOK
<1>21. ASSUME NEW following \in BOOLEAN, PidTaken(following) PROVE LaunchInv'
  <2>1. procs' = procs + 1 /\ holder' = procs' /\ tracked' \in Nat /\ conn' = conn /\ procs \in Nat \ {0}
    BY <1>21 DEF PidTaken, LaunchInv, ConsoleTypeOK
  <2>2. \A c \in Conns : Fits(conn[c], procs + 1)
    BY <2>1, <1>f, <1>t DEF Fits, Connections
  <2> QED BY <2>1, <2>2 DEF LaunchInv, ConsoleTypeOK
<1>22. CASE ConsoleNext
  <2>1. ASSUME NEW c \in Conns, Serve(c) PROVE LaunchInv'
    BY <2>1, <1>4, <1>5, <1>6, <1>7, <1>9, <1>10, <1>11, <1>12 DEF Serve
  <2>2. ASSUME NEW c \in Conns, Teardown(c) PROVE LaunchInv'
    BY <2>2, <1>12, <1>15, <1>16 DEF Teardown
  <2> QED
    BY <1>22, <2>1, <2>2, <1>2, <1>3, <1>12, <1>13, <1>14, <1>23, <1>24, <1>18, <1>19, <1>20, <1>21 DEF ConsoleNext
<1> QED BY <1>1, <1>22

(* It holds in every reachable state. *)
LEMMA LaunchHolds == ConsoleSpec => []LaunchInv
<1>1. ConsoleInit => LaunchInv BY LaunchInit
<1>2. LaunchInv /\ [ConsoleNext]_consoleVars => LaunchInv' BY LaunchStep, ConsoleAssumption
<1> QED BY <1>1, <1>2, PTL DEF ConsoleSpec

(* A console's shell runs in the namespaces and the root of one process,    *)
(* the one its console was opened for: however replicas die, restart and    *)
(* take over a pid between any two of the opens (spawn_console_process      *)
(* reads the start time again after the last one).                          *)
THEOREM ShellsAreInTheirReplica == ConsoleSpec => []ShellInItsReplica
<1>1. LaunchInv => ShellInItsReplica BY DEF LaunchInv, Fits, NotStale, ShellInItsReplica
<1> QED BY <1>1, LaunchHolds, PTL
------------------
(* The connections that hold a seat of service s. *)
Inside(s) == {c \in Conns : Entered(c) /\ conn[c].svc = s}

(* A connection that is past the door holds a ticket that was minted and    *)
(* consumed, and holds it alone.                                            *)
TicketInv ==
  /\ ConsoleTypeOK
  /\ DOMAIN tickets \subseteq minted /\ minted \subseteq Tickets
  /\ \A c \in Conns : IF conn[c].at = "idle" THEN conn[c].ticket = NoTicket
                      ELSE conn[c].ticket \in minted \ DOMAIN tickets /\ conn[c].svc \in Services
  /\ \A c, d \in Conns : conn[c].at # "idle" /\ conn[c].ticket = conn[d].ticket => c = d

(* The seats that are free and those that are taken add up. *)
SeatsInv ==
  /\ svcPermits \in [Services -> Nat]
  /\ \A s \in Services : IsFiniteSet(Inside(s)) /\ svcPermits[s] + Cardinality(Inside(s)) = ServiceLimit

(* How a step treats the seats: not at all ... *)
Bystanding == \A c \in Conns : conn'[c].at = conn[c].at /\ conn'[c].svc = conn[c].svc /\ conn'[c].ticket = conn[c].ticket

(* ... or one connection moves on ... *)
Moves(c) ==
  /\ conn[c].at \notin {"idle"}
  /\ conn'[c].at # "idle" /\ conn'[c].svc = conn[c].svc /\ conn'[c].ticket = conn[c].ticket
  /\ \A d \in Conns \ {c} : conn'[d].at = conn[d].at /\ conn'[d].svc = conn[d].svc /\ conn'[d].ticket = conn[d].ticket

(* ... and takes a seat (try_acquire_owned) ... *)
Enters(c) ==
  /\ conn[c].at = "service" /\ conn'[c].at = "open"
  /\ svcPermits[conn[c].svc] # 0
  /\ svcPermits' = [svcPermits EXCEPT ![conn[c].svc] = @ - 1]

(* ... gives it back (the permit is dropped) ... *)
Leaves(c) ==
  /\ Entered(c) /\ conn'[c].at = "done"
  /\ svcPermits' = [svcPermits EXCEPT ![conn[c].svc] = @ + 1]

(* ... or keeps what it has. *)
StaysPut(c) == (Entered(c))' = Entered(c) /\ UNCHANGED svcPermits

(* The steps other than the consumption of a ticket are one of these. *)
Tame ==
  \/ Bystanding /\ UNCHANGED svcPermits
  \/ \E c \in Conns : Moves(c) /\ (Enters(c) \/ Leaves(c) \/ StaysPut(c))

(* Indeed they are. *)
LEMMA TameSteps ==
  ASSUME ConsoleTypeOK, ConsoleNext,
         ~ \E c \in Conns, t \in Tickets, s \in Services : consume_ticket(c, t, s)
  PROVE  Tame
<1> USE DEF limits
<1>t. conn \in [Conns -> Connections] BY DEF ConsoleTypeOK
<1>0. ASSUME conn' = conn, UNCHANGED svcPermits PROVE Tame BY <1>0 DEF Tame, Bystanding
<1>1. ASSUME NEW t \in Tickets, (\E s \in Services : create_console_ticket(t, s)) \/ TicketExpires(t) PROVE Tame
  BY <1>0, <1>1 DEF create_console_ticket, TicketExpires
<1>g. ASSUME NEW c \in Conns, NEW w \in Stages \ {"idle"}, Go(c, w), conn[c].at # "idle" PROVE Moves(c) /\ conn'[c].at = w
  BY <1>t, <1>g DEF Moves, Go, Connections
<1>e. ASSUME NEW c \in Conns, EndConn(c), Entered(c) PROVE Tame
  <2>1. Moves(c) /\ conn'[c].at = "done" BY <1>e, <1>g DEF EndConn, Entered, Stages
  <2>2. Leaves(c) BY <2>1, <1>e DEF Leaves, EndConn
  <2> QED BY <2>1, <2>2 DEF Tame
<1>2. ASSUME NEW c \in Conns, console_ws(c) PROVE Tame
  <2>1. CASE conn[c].at = "ticket"
    <3>1. \E w \in {"done", "service"} : Go(c, w) BY <1>2, <2>1 DEF console_ws, ConnAt
    <3>2. Moves(c) /\ conn'[c].at \in {"done", "service"} BY <3>1, <2>1, <1>g DEF Stages, Knocking
    <3>3. StaysPut(c) BY <1>2, <2>1, <3>2 DEF StaysPut, Entered, console_ws, ConnAt
    <3> QED BY <3>2, <3>3 DEF Tame
  <2>2. CASE conn[c].at = "service" /\ svcPermits[conn[c].svc] = 0
    <3>1. Go(c, "done") /\ UNCHANGED svcPermits BY <1>2, <2>2 DEF console_ws, ConnAt
    <3>2. Moves(c) /\ conn'[c].at = "done" BY <3>1, <2>2, <1>g DEF Stages
    <3>3. StaysPut(c) BY <2>2, <3>1, <3>2 DEF StaysPut, Entered
    <3> QED BY <3>2, <3>3 DEF Tame
  <2>3. CASE conn[c].at = "service" /\ svcPermits[conn[c].svc] # 0
    <3>1. Go(c, "open") /\ svcPermits' = [svcPermits EXCEPT ![conn[c].svc] = @ - 1] BY <1>2, <2>3 DEF console_ws, ConnAt
    <3>2. Moves(c) /\ conn'[c].at = "open" BY <3>1, <2>3, <1>g DEF Stages, Knocking
    <3>3. Enters(c) BY <2>3, <3>1, <3>2 DEF Enters
    <3> QED BY <3>2, <3>3 DEF Tame
  <2> QED BY <1>2, <2>1, <2>2, <2>3 DEF console_ws, ConnAt
<1>3. ASSUME NEW c \in Conns, Serve(c), ~console_ws(c) PROVE Tame
  <2>1. Entered(c) BY <1>3 DEF Serve, Entered, ConnAt, open_console, read_process_start_time, open_pty,
          open_namespace_fds, open_target_root, child_exec_console, spawn_console_process
  <2>2. CASE EndConn(c) BY <2>1, <2>2, <1>e
  <2>3. CASE ~EndConn(c)
    <3>1. UNCHANGED svcPermits
      BY <1>3, <2>3 DEF Serve, open_console, read_process_start_time, open_pty,
          open_namespace_fds, open_target_root, child_exec_console, spawn_console_process
    <3>2. Moves(c) /\ conn'[c].at \in {"cloned", "pty", "fds", "root", "fork", "shell", "bridge"}
      <4>1. CASE open_console(c) BY <4>1, <2>1, <2>3, <1>t DEF open_console, Moves, Entered, Connections
      <4>2. CASE read_process_start_time(c)
        <5>1. \E b : conn' = [conn EXCEPT ![c].at = "pty", ![c].start = holder, ![c].stale = b]
          BY <4>2, <2>3 DEF read_process_start_time
        <5> QED BY <5>1, <2>1, <1>t DEF Moves, Entered, Connections
      <4>3. CASE open_pty(c) BY <4>3, <2>3, <2>1, <1>t DEF open_pty, Go, Moves, Entered, Connections
      <4>4. CASE open_namespace_fds(c) BY <4>4, <2>3, <2>1, <1>t DEF open_namespace_fds, ConnAt, Go, Moves, Entered, Connections
      <4>5. CASE open_target_root(c) BY <4>5, <2>3, <2>1, <1>t DEF open_target_root, Moves, Entered, Connections
      <4>6. CASE child_exec_console(c) BY <4>6, <2>3, <2>1, <1>t DEF child_exec_console, Moves, Entered, Connections
      <4>7. CASE spawn_console_process(c) BY <4>7, <2>1, <1>t DEF spawn_console_process, Go, Moves, Entered, Connections
      <4> QED BY <1>3, <4>1, <4>2, <4>3, <4>4, <4>5, <4>6, <4>7 DEF Serve
    <3>3. StaysPut(c) BY <2>1, <3>1, <3>2 DEF StaysPut, Entered
    <3> QED BY <3>2, <3>3 DEF Tame
  <2> QED BY <2>2, <2>3
<1>4. ASSUME NEW c \in Conns, SocketCloses(c) \/ ShellExits(c) \/ TerminalReleased(c) \/ SupervisorDies(c) PROVE Tame
  <2>1. UNCHANGED svcPermits BY <1>4 DEF SocketCloses, ShellExits, TerminalReleased, SupervisorDies
  <2>2. CASE SocketCloses(c) BY <2>1, <2>2, <1>t DEF SocketCloses, Bystanding, Connections, Tame
  <2>3. CASE ShellExits(c)
    <3>1. PICK held \in BOOLEAN :
            conn' = [conn EXCEPT ![c].shell = "gone", ![c].held = held,
                                 ![c].sup = IF conn[c].sup = "runs" THEN "exited" ELSE @]
      BY <2>3 DEF ShellExits
    <3>2. Bystanding BY <3>1, <1>t DEF Bystanding, Connections
    <3> QED BY <2>1, <3>2 DEF Tame
  <2>4. CASE TerminalReleased(c) BY <2>1, <2>4, <1>t DEF TerminalReleased, Bystanding, Connections, Tame
  <2>5. CASE SupervisorDies(c) BY <2>1, <2>5, <1>t DEF SupervisorDies, Bystanding, Connections, Tame
  <2> QED BY <1>4, <2>2, <2>3, <2>4, <2>5
<1>8. ASSUME NEW c \in Conns, ConsoleWrite(c) PROVE Tame
  <2>1. /\ conn[c].at \in {"bridge", "write"} /\ UNCHANGED svcPermits
        /\ \E w \in {"bridge", "write", "grace"} : Go(c, w)
    BY <1>8 DEF ConsoleWrite, ConnAt
  <2>2. Moves(c) /\ conn'[c].at \in {"bridge", "write", "grace"} BY <2>1, <1>g DEF Stages
  <2>3. StaysPut(c) BY <2>1, <2>2 DEF StaysPut, Entered
  <2> QED BY <2>2, <2>3 DEF Tame
<1>5. ASSUME NEW c \in Conns, Teardown(c) PROVE Tame
  <2>1. CASE handle_console_socket(c) BY <2>1, <1>e DEF handle_console_socket, ConnAt, Entered
  <2>2. CASE ~handle_console_socket(c)
    <3>1. Moves(c) /\ conn'[c].at \in {"grace", "ended", "wait"} /\ Entered(c) /\ UNCHANGED svcPermits
      BY <1>5, <2>2, <1>t DEF Teardown, bridge_console_socket, try_wait, reap, wait, Go, ConnAt, Entered, Moves, Connections
    <3>3. StaysPut(c) BY <3>1 DEF StaysPut, Entered
    <3> QED BY <3>1, <3>3 DEF Tame
  <2> QED BY <2>1, <2>2
<1>6. ASSUME reap_console_children \/ ReplicaExits PROVE Tame
  <2>1. UNCHANGED svcPermits BY <1>6 DEF reap_console_children, ReplicaExits
  <2>2. ASSUME NEW c \in Conns PROVE conn'[c].at = conn[c].at /\ conn'[c].svc = conn[c].svc /\ conn'[c].ticket = conn[c].ticket
    <3>1. CASE reap_console_children BY <3>1, <1>t DEF reap_console_children, Connections
    <3>2. CASE ReplicaExits BY <3>2, <1>t DEF ReplicaExits, Connections
    <3> QED BY <1>6, <3>1, <3>2
  <2>3. Bystanding BY <2>2 DEF Bystanding
  <2> QED BY <2>1, <2>3 DEF Tame
<1>7. ASSUME reap_exited_children \/ (\E following \in BOOLEAN : PidTaken(following)) \/ StrangerEnds PROVE Tame
  BY <1>0, <1>7 DEF reap_exited_children, PidTaken, StrangerEnds
<1> QED BY <1>1, <1>2, <1>3, <1>4, <1>5, <1>6, <1>7, <1>8 DEF ConsoleNext

(* A connection that was admitted touches no ticket. *)
LEMMA TicketsKept ==
  ASSUME NEW c \in Conns,
         \/ Serve(c) \/ Teardown(c) \/ ConsoleWrite(c) \/ SocketCloses(c) \/ ShellExits(c)
         \/ TerminalReleased(c) \/ SupervisorDies(c)
  PROVE  UNCHANGED <<tickets, minted>>
  BY DEF Serve, console_ws, open_console, read_process_start_time, open_pty,
          open_namespace_fds, open_target_root, child_exec_console, spawn_console_process,
          Teardown, bridge_console_socket, try_wait, reap, wait, handle_console_socket, SocketCloses, ShellExits,
          ConsoleWrite, TerminalReleased, SupervisorDies

(* Every step preserves the tickets. *)
LEMMA TicketStep == ASSUME TicketInv, ConsoleTypeOK', [ConsoleNext]_consoleVars, ConsoleAssumption PROVE TicketInv'
<1>1. CASE UNCHANGED consoleVars BY <1>1 DEF consoleVars, TicketInv
<1>2. ASSUME NEW c \in Conns, NEW t \in Tickets, NEW s \in Services, consume_ticket(c, t, s) PROVE TicketInv'
  <2>1. DOMAIN tickets' = DOMAIN tickets \ {t} /\ minted' = minted /\ t \in DOMAIN tickets
    BY <1>2 DEF consume_ticket, Without
  <2>c. conn' = [conn EXCEPT ![c].at = IF tickets[t].svc = s /\ ~tickets[t].expired THEN "ticket" ELSE "done",
                             ![c].ticket = t, ![c].svc = s]
    BY <1>2, Zenon DEF consume_ticket
  <2>2. conn'[c].at # "idle" /\ conn'[c].ticket = t /\ conn'[c].svc = s
        /\ \A d \in Conns \ {c} : conn'[d] = conn[d]
    BY <2>c DEF TicketInv, ConsoleTypeOK, Connections
  <2> QED BY <2>1, <2>2, ConsoleAssumption DEF TicketInv
<1>3. ASSUME ConsoleNext, ~ \E c \in Conns, t \in Tickets, s \in Services : consume_ticket(c, t, s) PROVE TicketInv'
  <2>1. Tame BY <1>3, TameSteps DEF TicketInv
  <2>2. \A c \in Conns : conn'[c].svc = conn[c].svc /\ conn'[c].ticket = conn[c].ticket /\ (conn'[c].at = "idle" <=> conn[c].at = "idle")
    BY <2>1 DEF Tame, Bystanding, Moves
  <2>3. /\ minted \subseteq minted' /\ minted' \subseteq Tickets
        /\ DOMAIN tickets' \subseteq minted' /\ DOMAIN tickets' \cap minted \subseteq DOMAIN tickets
    <3>1. ASSUME NEW t \in Tickets, NEW s \in Services, create_console_ticket(t, s) PROVE <2>3
      <4>1. DOMAIN tickets' \subseteq DOMAIN tickets \cup {t} BY <3>1 DEF create_console_ticket, prune_expired
      <4> QED BY <3>1, <4>1 DEF create_console_ticket, TicketInv
    <3>2. ASSUME NEW t \in Tickets, TicketExpires(t) PROVE <2>3
      <4>1. DOMAIN tickets' = DOMAIN tickets /\ minted' = minted BY <3>2 DEF TicketExpires
      <4> QED BY <4>1 DEF TicketInv
    <3>3. CASE UNCHANGED <<tickets, minted>> BY <3>3 DEF TicketInv
    <3>4. CASE reap_console_children \/ ReplicaExits \/ reap_exited_children \/ (\E following \in BOOLEAN : PidTaken(following)) \/ StrangerEnds
      BY <3>3, <3>4 DEF reap_console_children, ReplicaExits, reap_exited_children, PidTaken, StrangerEnds
    <3> QED BY <1>3, <3>1, <3>2, <3>3, <3>4, TicketsKept DEF ConsoleNext
  <2> QED BY <2>2, <2>3 DEF TicketInv
<1> QED BY <1>1, <1>2, <1>3

(* Every step preserves the sum of the seats. *)
LEMMA SeatsStep == ASSUME TicketInv, SeatsInv, [ConsoleNext]_consoleVars, ConsoleAssumption PROVE SeatsInv'
<1>1. CASE UNCHANGED consoleVars BY <1>1 DEF consoleVars, limits, SeatsInv, Inside, Entered
<1>s. ASSUME svcPermits' = svcPermits, \A d \in Conns : (Entered(d)' <=> Entered(d)) /\ (Entered(d) => conn'[d].svc = conn[d].svc)
      PROVE SeatsInv'
  <2>1. \A s \in Services : Inside(s)' = Inside(s) BY <1>s DEF Inside
  <2> QED BY <1>s, <2>1 DEF SeatsInv
<1>2. ASSUME NEW c \in Conns, NEW t \in Tickets, NEW s \in Services, consume_ticket(c, t, s) PROVE SeatsInv'
  <2>1. UNCHANGED svcPermits BY <1>2 DEF consume_ticket, limits
  <2>c. conn' = [conn EXCEPT ![c].at = IF tickets[t].svc = s /\ ~tickets[t].expired THEN "ticket" ELSE "done",
                             ![c].ticket = t, ![c].svc = s]
    BY <1>2, Zenon DEF consume_ticket
  <2>i. conn[c].at = "idle" BY <1>2, Zenon DEF consume_ticket, ConnAt
  <2>2. conn[c].at = "idle" /\ conn'[c].at \in {"ticket", "done"} /\ \A d \in Conns \ {c} : conn'[d] = conn[d]
    BY <2>c, <2>i DEF TicketInv, ConsoleTypeOK, Connections
  <2> QED BY <1>s, <2>1, <2>2 DEF Entered
<1>3. ASSUME ConsoleNext, ~ \E c \in Conns, t \in Tickets, s \in Services : consume_ticket(c, t, s) PROVE SeatsInv'
  <2>1. CASE Bystanding /\ UNCHANGED svcPermits BY <1>s, <2>1 DEF Bystanding, Entered
  <2>2. ASSUME NEW c \in Conns, Moves(c), StaysPut(c) PROVE SeatsInv'
    BY <1>s, <2>2 DEF Moves, StaysPut, Entered
  <2>m. ASSUME NEW c \in Conns, Moves(c), Entered(c) \/ (Entered(c))', conn[c].svc \in Services
        PROVE \A s \in Services \ {conn[c].svc} : Inside(s)' = Inside(s)
    BY <2>m DEF Moves, Inside, Entered
  <2>3. ASSUME NEW c \in Conns, Moves(c), Enters(c) PROVE SeatsInv'
    <3>1. PICK s \in Services : s = conn[c].svc BY <2>3 DEF TicketInv, Enters
    <3>2. Inside(s)' = Inside(s) \cup {c} /\ c \notin Inside(s) BY <2>3, <3>1 DEF Moves, Enters, Inside, Entered
    <3>3. \A u \in Services \ {s} : Inside(u)' = Inside(u) BY <2>3, <2>m, <3>1 DEF Enters, Entered
    <3>4. svcPermits' = [svcPermits EXCEPT ![s] = @ - 1] /\ svcPermits[s] # 0 BY <2>3, <3>1 DEF Enters
    <3>5. IsFiniteSet(Inside(s)') /\ Cardinality(Inside(s)') = Cardinality(Inside(s)) + 1 /\ Cardinality(Inside(s)) \in Nat
      BY <3>1, <3>2, FS_AddElement, FS_CardinalityType DEF SeatsInv
    <3>6. \A u \in Services : IsFiniteSet(Inside(u)) /\ Cardinality(Inside(u)) \in Nat /\ svcPermits[u] \in Nat
      BY FS_CardinalityType DEF SeatsInv
    <3>7. svcPermits' \in [Services -> Nat] BY <3>1, <3>4, <3>6 DEF SeatsInv
    <3>8. ASSUME NEW u \in Services PROVE IsFiniteSet(Inside(u)') /\ svcPermits'[u] + Cardinality(Inside(u)') = ServiceLimit
      <4>1. CASE u = s BY <3>1, <3>4, <3>5, <3>6, <4>1, ConsoleAssumption DEF SeatsInv, ConsoleAssumption
      <4>2. CASE u # s
        <5>1. Inside(u)' = Inside(u) /\ svcPermits'[u] = svcPermits[u] BY <3>1, <3>3, <3>4, <4>2 DEF SeatsInv
        <5> QED BY <5>1 DEF SeatsInv
      <4> QED BY <4>1, <4>2
    <3> QED BY <3>7, <3>8 DEF SeatsInv
  <2>4. ASSUME NEW c \in Conns, Moves(c), Leaves(c) PROVE SeatsInv'
    <3>1. PICK s \in Services : s = conn[c].svc BY <2>4 DEF TicketInv, Leaves, Entered
    <3>2. Inside(s)' = Inside(s) \ {c} /\ c \in Inside(s) BY <2>4, <3>1 DEF Moves, Leaves, Inside, Entered
    <3>3. \A u \in Services \ {s} : Inside(u)' = Inside(u) BY <2>4, <2>m, <3>1 DEF Leaves
    <3>4. svcPermits' = [svcPermits EXCEPT ![s] = @ + 1] BY <2>4, <3>1 DEF Leaves
    <3>5. IsFiniteSet(Inside(s)') /\ Cardinality(Inside(s)') = Cardinality(Inside(s)) - 1 /\ Cardinality(Inside(s)) \in Nat
      BY <3>1, <3>2, FS_RemoveElement, FS_CardinalityType DEF SeatsInv
    <3>6. \A u \in Services : IsFiniteSet(Inside(u)) /\ Cardinality(Inside(u)) \in Nat /\ svcPermits[u] \in Nat
      BY FS_CardinalityType DEF SeatsInv
    <3>7. svcPermits' \in [Services -> Nat] BY <3>1, <3>4, <3>6 DEF SeatsInv
    <3>8. ASSUME NEW u \in Services PROVE IsFiniteSet(Inside(u)') /\ svcPermits'[u] + Cardinality(Inside(u)') = ServiceLimit
      <4>1. CASE u = s BY <3>1, <3>4, <3>5, <3>6, <4>1, ConsoleAssumption DEF SeatsInv, ConsoleAssumption
      <4>2. CASE u # s
        <5>1. Inside(u)' = Inside(u) /\ svcPermits'[u] = svcPermits[u] BY <3>1, <3>3, <3>4, <4>2 DEF SeatsInv
        <5> QED BY <5>1 DEF SeatsInv
      <4> QED BY <4>1, <4>2
    <3> QED BY <3>7, <3>8 DEF SeatsInv
  <2> QED BY <1>3, <2>1, <2>2, <2>3, <2>4, TameSteps DEF Tame, TicketInv
<1> QED BY <1>1, <1>2, <1>3

(* A ticket opens one connection at most, and no service has more shells    *)
(* than its limit: for any number of connections, tickets and services, and *)
(* however the ends of a console race.                                      *)
THEOREM TicketsOpenOnce == ConsoleSpec => []TicketOpensOnce
<1> DEFINE Inv == LaunchInv /\ TicketInv /\ SeatsInv
<1>1. ASSUME ConsoleInit PROVE Inv
  <2>1. LaunchInv BY <1>1, LaunchInit
  <2>2. \A c \in Conns : conn[c].at = "idle" /\ conn[c].ticket = NoTicket BY <1>1 DEF ConsoleInit, NoConn
  <2>3. TicketInv BY <1>1, <2>1, <2>2 DEF LaunchInv, TicketInv, ConsoleInit
  <2>4. \A s \in Services : Inside(s) = {} BY <2>2 DEF Inside, Entered
  <2>5. SeatsInv BY <1>1, <2>4, FS_EmptySet, ConsoleAssumption DEF SeatsInv, ConsoleInit, ConsoleAssumption
  <2> QED BY <2>1, <2>3, <2>5
<1>2. ASSUME Inv, [ConsoleNext]_consoleVars PROVE Inv'
  <2>1. LaunchInv' BY <1>2, LaunchStep, ConsoleAssumption
  <2>2. TicketInv' BY <1>2, <2>1, TicketStep, ConsoleAssumption DEF LaunchInv
  <2> QED BY <1>2, <2>1, <2>2, SeatsStep, ConsoleAssumption
<1>3. ASSUME Inv PROVE TicketOpensOnce
  <2>1. \A s \in Services : Cardinality(Inside(s)) <= ServiceLimit
    BY <1>3, FS_CardinalityType, ConsoleAssumption DEF SeatsInv, ConsoleAssumption
  <2> QED BY <1>3, <2>1 DEF TicketOpensOnce, TicketInv, Inside
<1> HIDE DEF Inv
<1> QED BY <1>1, <1>2, <1>3, PTL DEF ConsoleSpec

-----------------------------------------------------------------------------
(* A stored service with TLS was stored under settings that name an         *)
(* address, and the settings outlive every session.                         *)
StoredInv == tls => Setting("email", Unset) # Unset

(* What the API stored never keeps a later boot of the daemon from passing  *)
(* its check on certificates, for any settings, sessions and kills.         *)
THEOREM StoredAlwaysBootsAgain == DaemonSpec => []StoredBootsAgain
  <1>1. DaemonInit => StoredInv BY DEF DaemonInit, StoredInv
  <1>2. StoredInv /\ [DaemonNext]_daemonVars => StoredInv'
    <2> SUFFICES ASSUME StoredInv, [DaemonNext]_daemonVars PROVE StoredInv' OBVIOUS
    <2>1. settings' = settings
      BY DEF DaemonNext, daemonVars, Kept, Start, Configure, OpenStore, relocate_daemon_cgroup, CheckTls, Sweep, SpawnTasks,
        Launch, Bind, PutService, SendRun, AutoscalerLaunches, run_executor, OpenStream, CloseStream, OpenConsole,
        CloseConsole, StartDeploy, DeployLaunches, shutdown_signal, Stop, Drained, JoinLoop, DropScheduler,
        JoinExecutor, JoinTasks, ListRunning, stop_all_workloads, Return, Kill
    <2>2. tls' = tls \/ (require_acme_email(TRUE) /\ tls' = TRUE)
      BY DEF DaemonNext, daemonVars, Kept, Start, Configure, OpenStore, relocate_daemon_cgroup, CheckTls, Sweep, SpawnTasks,
        Launch, Bind, PutService, put_service, SendRun, AutoscalerLaunches, run_executor, OpenStream, CloseStream,
        OpenConsole, CloseConsole, StartDeploy, DeployLaunches, shutdown_signal, Stop, Drained, JoinLoop, DropScheduler,
        JoinExecutor, JoinTasks, ListRunning, stop_all_workloads, Return, Kill
    <2>3. (Setting("email", Unset))' = Setting("email", Unset) BY <2>1 DEF Setting, Said
    <2> QED BY <2>2, <2>3 DEF StoredInv, require_acme_email
  <1>3. StoredInv => StoredBootsAgain BY DEF StoredInv, StoredBootsAgain, require_acme_email
  <1> QED BY <1>1, <1>2, <1>3, PTL DEF DaemonSpec
=============================================================================
