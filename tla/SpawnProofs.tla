---------------------------- MODULE SpawnProofs -----------------------------
(***************************************************************************)
(* The launch handshake implements what its callers rely on (Launch), for  *)
(* any number of launches under way at the same time.                      *)
(***************************************************************************)
EXTENDS Spawn, TLAPS

(* Where stage 1 can be, and what the pipes hold, at each point of the      *)
(* daemon's thread.                                                         *)
Handshake(l) ==
  /\ par[l] \in {"idle", "piped"} =>
       st1[l] = "none" /\ ~ready[l] /\ release[l] = "none"
  /\ par[l] \in {"forked", "ready1"} =>
       /\ release[l] = "none"
       /\ \/ st1[l] = "boot" /\ ~ready[l]
          \/ st1[l] = "cgwait"
          \/ st1[l] \in {"exit", "dead"}
  /\ par[l] = "attach" =>
       st1[l] \in {"cgwait", "exit", "dead"} /\ ~ready[l] /\ release[l] = "none"
  /\ par[l] = "ready2" =>
       /\ l \in attached
       /\ \/ st1[l] = "cgwait" /\ ~ready[l]
          \/ st1[l] = "prepare" /\ ~ready[l] /\ release[l] = "none"
          \/ st1[l] = "mapwait" /\ release[l] = "none"
          \/ st1[l] \in {"exit", "dead"}
  /\ par[l] = "maps" =>
       /\ l \in attached
       /\ \/ st1[l] = "mapwait" /\ release[l] = "none"
          \/ st1[l] \in {"exit", "dead"}
  /\ par[l] = "status" =>
       /\ l \in attached /\ l \in mapped
       /\ st1[l] \in {"mapwait", "fork", "wait", "exit", "dead"}
  /\ par[l] = "doomed" =>
       \/ st1[l] \in {"cgwait", "mapwait"} /\ release[l] = "stop"
       \/ st1[l] \in {"exit", "dead"}
  /\ par[l] = "ok" =>
       st1[l] \in {"wait", "dead"} /\ st2[l] # "setup" /\ ~msg[l]
  /\ par[l] \in {"err", "late"} => st1[l] = "dead"
  /\ par[l] = "err" => st2[l] \notin {"setup", "exec"}

(* What the stages have done, and the pipe ends that processes hold. *)
Family(l) ==
  /\ par[l] \in {"piped", "forked"} => Daemon \in errW[l]
  /\ st2[l] # "none" =>
       /\ st1[l] \in {"wait", "dead"}
       /\ par[l] \in {"status", "ok", "err", "late"}
       /\ l \in attached /\ l \in mapped
  /\ st1[l] = "wait" => st2[l] # "none"
  /\ st1[l] \in {"none", "boot", "cgwait", "prepare", "mapwait", "fork"} => ~msg[l]
  /\ st1[l] = "exit" => msg[l]
  /\ st2[l] = "exit" => msg[l]
  /\ msg[l] => st2[l] \notin {"setup", "exec"}
  /\ st1[l] \in {"boot", "cgwait", "prepare", "mapwait", "fork"} =>
       Stage1(l) \in errW[l]
  /\ st2[l] = "setup" => Stage2(l) \in errW[l]

Inv == TypeOK /\ \A l \in Launches : Handshake(l) /\ Family(l)

-----------------------------------------------------------------------------
(* The processes of two launches, and the daemon, are different holders.    *)
LEMMA HoldersDiffer ==
  ASSUME NEW l \in Launches, NEW m \in Launches
  PROVE  /\ Others \cap {Daemon, Stage1(l), Stage2(l)} = {} /\ Others \subseteq Procs
         /\ Stage1(l) \in Procs /\ Stage2(l) \in Procs /\ Daemon \in Procs
         /\ Stage1(l) # Daemon /\ Stage2(l) # Daemon /\ Stage1(l) # Stage2(m)
         /\ l # m => Stage1(l) # Stage1(m) /\ Stage2(l) # Stage2(m)
BY SpawnAssumption DEF Stage1, Stage2, Procs

(* Every step of the handshake keeps its variables in their types. *)
LEMMA TypeStep ==
  ASSUME TypeOK, [Next]_vars
  PROVE  TypeOK'
<1>1. CASE UNCHANGED vars
  BY <1>1 DEF TypeOK, vars
<1>2. ASSUME NEW l \in Launches,
             Pipes(l) \/ Parent(l) \/ Stages(l) \/ KillStage1(l) \/ KillStage2(l)
      PROVE  TypeOK'
  <2> USE HoldersDiffer DEF TypeOK
  <2>1. CASE Pipes(l)
    BY <2>1 DEF Pipes
  <2>2. CASE Fork(l)
    BY <2>2 DEF Fork, Inherit
  <2>3. CASE ForkFail(l)
    BY <2>3 DEF ForkFail
  <2>4. CASE close_child_ends(l)
    BY <2>4 DEF close_child_ends
  <2>5. CASE read_child_ready(l)
    BY <2>5 DEF read_child_ready
  <2>6. CASE NotReady(l)
    BY <2>6 DEF NotReady, Abort, CloseAll
  <2>7. CASE AttachOk(l)
    BY <2>7 DEF AttachOk
  <2>8. CASE AttachFail(l)
    BY <2>8 DEF AttachFail
  <2>9. CASE MapsOk(l)
    BY <2>9 DEF MapsOk
  <2>10. CASE MapsFail(l)
    BY <2>10 DEF MapsFail
  <2>11. CASE ReleaseFails(l)
    BY <2>11 DEF ReleaseFails, Abort, CloseAll
  <2>12. CASE StatusOk(l)
    BY <2>12 DEF StatusOk
  <2>13. CASE StatusErr(l)
    BY <2>13 DEF StatusErr, Abort, CloseAll
  <2>14. CASE StatusTimeout(l)
    BY <2>14 DEF StatusTimeout, Abort, CloseAll
  <2>15. CASE Doomed(l)
    BY <2>15 DEF Doomed, Abort, CloseAll
  <2>16. CASE open_child_stdio(l)
    BY <2>16 DEF open_child_stdio, To1
  <2>17. CASE CgroupReleased(l)
    BY <2>17 DEF CgroupReleased, To1
  <2>18. CASE child_prepare_root(l)
    BY <2>18 DEF child_prepare_root, To1
  <2>19. CASE IdMapReleased(l)
    BY <2>19 DEF IdMapReleased, To1
  <2>20. CASE ForkStage2(l)
    BY <2>20 DEF ForkStage2, To1, Inherit
  <2>21. CASE Stage1Fails(l)
    BY <2>21 DEF Stage1Fails, To1
  <2>22. CASE Stage1Exits(l)
    BY <2>22 DEF Stage1Exits, To1, CloseAll
  <2>23. CASE child_exec(l)
    BY <2>23 DEF child_exec, CloseAll
  <2>24. CASE Stage2Fails(l)
    BY <2>24 DEF Stage2Fails
  <2>25. CASE Stage2Exits(l)
    BY <2>25 DEF Stage2Exits, CloseAll
  <2>26. CASE KillStage1(l)
    BY <2>26 DEF KillStage1, To1, CloseAll
  <2>27. CASE KillStage2(l)
    BY <2>27 DEF KillStage2, CloseAll
  <2>28. QED
    BY <1>2, <2>1, <2>2, <2>3, <2>4, <2>5, <2>6, <2>7, <2>8, <2>9, <2>10, <2>11, <2>12, <2>13, <2>14, <2>15, <2>16, <2>17, <2>18, <2>19, <2>20, <2>21, <2>22, <2>23, <2>24, <2>25, <2>26, <2>27 DEF Parent, Stages
<1>3. ASSUME NEW q \in Others, ConsoleForks(q) \/ ConsoleEnds(q)
      PROVE  TypeOK'
  BY <1>3 DEF TypeOK, ConsoleForks, ConsoleEnds, Inherit, CloseAll, Procs
<1>4. QED
  BY <1>1, <1>2, <1>3 DEF Next

(* Every step keeps the protocol's state consistent for every launch. *)
LEMMA InvStep ==
  ASSUME Inv, [Next]_vars
  PROVE  Inv'
<1>1. TypeOK'
  BY TypeStep DEF Inv
<1>2. CASE UNCHANGED vars
  BY <1>1, <1>2 DEF Inv, vars, Handshake, Family
<1>3. ASSUME NEW l \in Launches, NEW m \in Launches,
             Pipes(l) \/ Parent(l) \/ Stages(l) \/ KillStage1(l) \/ KillStage2(l)
      PROVE  Handshake(m)' /\ Family(m)'
  <2> TypeOK /\ Handshake(m) /\ Family(m) /\ Handshake(l) /\ Family(l)
    BY DEF Inv
  <2> HIDE DEF Stage1, Stage2
  <2> USE HoldersDiffer DEF TypeOK, Handshake, Family
  <2>1. CASE Pipes(l)
    BY <2>1 DEF Pipes
  <2>2. CASE Fork(l)
    BY <2>2 DEF Fork, Inherit
  <2>3. CASE ForkFail(l)
    BY <2>3 DEF ForkFail
  <2>4. CASE close_child_ends(l)
    BY <2>4 DEF close_child_ends
  <2>5. CASE read_child_ready(l)
    BY <2>5 DEF read_child_ready
  <2>6. CASE NotReady(l)
    BY <2>6 DEF NotReady, Abort, CloseAll
  <2>7. CASE AttachOk(l)
    BY <2>7 DEF AttachOk
  <2>8. CASE AttachFail(l)
    BY <2>8 DEF AttachFail
  <2>9. CASE MapsOk(l)
    BY <2>9 DEF MapsOk
  <2>10. CASE MapsFail(l)
    BY <2>10 DEF MapsFail
  <2>11. CASE ReleaseFails(l)
    BY <2>11 DEF ReleaseFails, Abort, CloseAll
  <2>12. CASE StatusOk(l)
    BY <2>12 DEF StatusOk
  <2>13. CASE StatusErr(l)
    BY <2>13 DEF StatusErr, Abort, CloseAll
  <2>14. CASE StatusTimeout(l)
    BY <2>14 DEF StatusTimeout, Abort, CloseAll
  <2>15. CASE Doomed(l)
    BY <2>15 DEF Doomed, Abort, CloseAll
  <2>16. CASE open_child_stdio(l)
    BY <2>16 DEF open_child_stdio, To1
  <2>17. CASE CgroupReleased(l)
    BY <2>17 DEF CgroupReleased, To1
  <2>18. CASE child_prepare_root(l)
    BY <2>18 DEF child_prepare_root, To1
  <2>19. CASE IdMapReleased(l)
    BY <2>19 DEF IdMapReleased, To1
  <2>20. CASE ForkStage2(l)
    BY <2>20 DEF ForkStage2, To1, Inherit
  <2>21. CASE Stage1Fails(l)
    BY <2>21 DEF Stage1Fails, To1
  <2>22. CASE Stage1Exits(l)
    BY <2>22 DEF Stage1Exits, To1, CloseAll
  <2>23. CASE child_exec(l)
    BY <2>23 DEF child_exec, CloseAll
  <2>24. CASE Stage2Fails(l)
    BY <2>24 DEF Stage2Fails
  <2>25. CASE Stage2Exits(l)
    BY <2>25 DEF Stage2Exits, CloseAll
  <2>26. CASE KillStage1(l)
    BY <2>26 DEF KillStage1, To1, CloseAll
  <2>27. CASE KillStage2(l)
    BY <2>27 DEF KillStage2, CloseAll
  <2>28. QED
    BY <1>3, <2>1, <2>2, <2>3, <2>4, <2>5, <2>6, <2>7, <2>8, <2>9, <2>10, <2>11, <2>12, <2>13, <2>14, <2>15, <2>16, <2>17, <2>18, <2>19, <2>20, <2>21, <2>22, <2>23, <2>24, <2>25, <2>26, <2>27 DEF Parent, Stages
<1>4. ASSUME NEW q \in Others, NEW m \in Launches, ConsoleForks(q) \/ ConsoleEnds(q)
      PROVE  Handshake(m)' /\ Family(m)'
  <2>1. TypeOK /\ Handshake(m) /\ Family(m)
    BY DEF Inv
  <2>2. q \notin {Daemon, Stage1(m), Stage2(m)}
    BY HoldersDiffer
  <2>3. \A p \in {Daemon, Stage1(m), Stage2(m)} : p \in errW[m] => p \in errW'[m]
    BY <1>4, <2>1, <2>2 DEF ConsoleForks, ConsoleEnds, Inherit, CloseAll, TypeOK
  <2>4. UNCHANGED <<par, st1, st2, ready, release, msg, attached, mapped>>
    BY <1>4 DEF ConsoleForks, ConsoleEnds
  <2>5. QED
    BY <2>1, <2>3, <2>4 DEF Handshake, Family
<1>5. QED
  BY <1>1, <1>2, <1>3, <1>4 DEF Inv, Next

(* The initial states and the steps of the invariant, put together. *)
THEOREM SpawnInv == Spec => []Inv
<1>1. Init => Inv
  BY DEF Init, Inv, TypeOK, Handshake, Family
<1>2. Inv /\ [Next]_vars => Inv'
  BY InvStep
<1>3. QED
  BY <1>1, <1>2, PTL DEF Spec

-----------------------------------------------------------------------------
(* What a step of launch l makes of the state its callers see. *)
Outcomes == [k \in Launches |-> Workload(k)]
Results == [k \in Launches |-> Result(k)]

(* A step of one launch changes what is seen of that launch only. *)
LEMMA OneLaunch ==
  ASSUME NEW l \in Launches, Inv,
         Pipes(l) \/ Parent(l) \/ Stages(l) \/ KillStage1(l) \/ KillStage2(l)
  PROVE  \A k \in Launches \ {l} :
           /\ par'[k] = par[k] /\ msg'[k] = msg[k]
           /\ st1'[k] = st1[k] /\ st2'[k] = st2[k]
<1> USE DEF Inv, TypeOK
<1>1. CASE Pipes(l)
  BY <1>1 DEF Pipes
<1>2. CASE Fork(l)
  BY <1>2 DEF Fork
<1>3. CASE ForkFail(l)
  BY <1>3 DEF ForkFail
<1>4. CASE close_child_ends(l)
  BY <1>4 DEF close_child_ends
<1>5. CASE read_child_ready(l)
  BY <1>5 DEF read_child_ready
<1>6. CASE NotReady(l)
  BY <1>6 DEF NotReady, Abort
<1>7. CASE AttachOk(l)
  BY <1>7 DEF AttachOk
<1>8. CASE AttachFail(l)
  BY <1>8 DEF AttachFail
<1>9. CASE MapsOk(l)
  BY <1>9 DEF MapsOk
<1>10. CASE MapsFail(l)
  BY <1>10 DEF MapsFail
<1>11. CASE ReleaseFails(l)
  BY <1>11 DEF ReleaseFails, Abort
<1>12. CASE StatusOk(l)
  BY <1>12 DEF StatusOk
<1>13. CASE StatusErr(l)
  BY <1>13 DEF StatusErr, Abort
<1>14. CASE StatusTimeout(l)
  BY <1>14 DEF StatusTimeout, Abort
<1>15. CASE Doomed(l)
  BY <1>15 DEF Doomed, Abort
<1>16. CASE open_child_stdio(l)
  BY <1>16 DEF open_child_stdio, To1
<1>17. CASE CgroupReleased(l)
  BY <1>17 DEF CgroupReleased, To1
<1>18. CASE child_prepare_root(l)
  BY <1>18 DEF child_prepare_root, To1
<1>19. CASE IdMapReleased(l)
  BY <1>19 DEF IdMapReleased, To1
<1>20. CASE ForkStage2(l)
  BY <1>20 DEF ForkStage2, To1
<1>21. CASE Stage1Fails(l)
  BY <1>21 DEF Stage1Fails, To1
<1>22. CASE Stage1Exits(l)
  BY <1>22 DEF Stage1Exits, To1
<1>23. CASE child_exec(l)
  BY <1>23 DEF child_exec
<1>24. CASE Stage2Fails(l)
  BY <1>24 DEF Stage2Fails
<1>25. CASE Stage2Exits(l)
  BY <1>25 DEF Stage2Exits
<1>26. CASE KillStage1(l)
  BY <1>26 DEF KillStage1, To1
<1>27. CASE KillStage2(l)
  BY <1>27 DEF KillStage2
<1>28. QED
  BY <1>1, <1>2, <1>3, <1>4, <1>5, <1>6, <1>7, <1>8, <1>9, <1>10, <1>11, <1>12, <1>13, <1>14, <1>15, <1>16, <1>17, <1>18, <1>19, <1>20, <1>21, <1>22, <1>23, <1>24, <1>25, <1>26, <1>27 DEF Parent, Stages

(* The two functions the callers see change at l alone. *)
LEMMA SeenStep ==
  ASSUME NEW l \in Launches, Inv,
         Pipes(l) \/ Parent(l) \/ Stages(l) \/ KillStage1(l) \/ KillStage2(l)
  PROVE  /\ Outcomes' = [Outcomes EXCEPT ![l] = Workload(l)']
         /\ Results' = [Results EXCEPT ![l] = Result(l)']
BY OneLaunch DEF Outcomes, Results, Workload, Result

(* A step that changes nothing the callers see of l is a stutter. *)
LEMMA Stutter ==
  ASSUME NEW l \in Launches,
         Outcomes' = [Outcomes EXCEPT ![l] = Workload(l)],
         Results' = [Results EXCEPT ![l] = Result(l)],
         UNCHANGED (attached \cap mapped)
  PROVE  UNCHANGED L!vars
BY DEF L!vars, Outcomes, Results

(* Every step of the handshake is a step of the promise, or a stutter. *)
LEMMA RefinementStep ==
  ASSUME Inv, [Next]_vars
  PROVE  [L!Next]_(L!vars)
<1>1. CASE UNCHANGED vars
  BY <1>1 DEF vars, L!vars, Workload, Result
<1>2. ASSUME NEW l \in Launches,
             Pipes(l) \/ Parent(l) \/ Stages(l) \/ KillStage1(l) \/ KillStage2(l)
      PROVE  [L!Next]_(L!vars)
  <2> TypeOK /\ Handshake(l) /\ Family(l)
    BY DEF Inv
  <2> /\ Outcomes' = [Outcomes EXCEPT ![l] = Workload(l)']
      /\ Results' = [Results EXCEPT ![l] = Result(l)']
    BY <1>2, SeenStep
  <2> USE DEF TypeOK, Handshake, Family, Workload, Result
  <2>1. CASE Pipes(l)
    BY <2>1, Stutter DEF Pipes
  <2>2. CASE Fork(l)
    BY <2>2, Stutter DEF Fork
  <2>3. CASE ForkFail(l)
    BY <2>3 DEF ForkFail, Outcomes, Results, L!Next, L!ReturnErr, L!vars
  <2>4. CASE close_child_ends(l)
    BY <2>4, Stutter DEF close_child_ends
  <2>5. CASE read_child_ready(l)
    BY <2>5, Stutter DEF read_child_ready
  <2>6. CASE NotReady(l)
    BY <2>6 DEF NotReady, Abort, Outcomes, Results, L!Next, L!ReturnErr, L!vars
  <2>7. CASE AttachOk(l)
    BY <2>7 DEF AttachOk, Outcomes, Results, L!Next, L!Confine, L!vars
  <2>8. CASE AttachFail(l)
    BY <2>8, Stutter DEF AttachFail
  <2>9. CASE MapsOk(l)
    BY <2>9 DEF MapsOk, Outcomes, Results, L!Next, L!Confine, L!vars
  <2>10. CASE MapsFail(l)
    BY <2>10, Stutter DEF MapsFail
  <2>11. CASE ReleaseFails(l)
    BY <2>11 DEF ReleaseFails, Abort, Outcomes, Results, L!Next, L!ReturnErr, L!vars
  <2>12. CASE StatusOk(l)
    <3>1. Result(l) = "none" /\ Workload(l) \in {"running", "gone"}
      BY <2>12 DEF StatusOk
    <3>2. Result(l)' = "ok" /\ Workload(l)' = Workload(l)
      BY <2>12 DEF StatusOk
    <3>3. L!ReturnOk(l)
      <4> HIDE DEF Workload, Result, TypeOK, Handshake, Family
      <4>1. Results' = [Results EXCEPT ![l] = "ok"] /\ Outcomes' = Outcomes
        BY <3>2 DEF Outcomes, Results
      <4>2. UNCHANGED (attached \cap mapped)
        BY <2>12 DEF StatusOk
      <4>3. QED
        BY <3>1, <4>1, <4>2 DEF L!ReturnOk, Outcomes, Results
    <3>4. QED
      BY <3>3 DEF L!Next
  <2>13. CASE StatusErr(l)
    BY <2>13 DEF StatusErr, Abort, Outcomes, Results, L!Next, L!ReturnErr, L!vars
  <2>14. CASE StatusTimeout(l)
    BY <2>14 DEF StatusTimeout, Abort, Outcomes, Results, L!Next, L!ReturnLate, L!vars
  <2>15. CASE Doomed(l)
    BY <2>15 DEF Doomed, Abort, Outcomes, Results, L!Next, L!ReturnErr, L!vars
  <2>16. CASE open_child_stdio(l)
    BY <2>16, Stutter DEF open_child_stdio, To1
  <2>17. CASE CgroupReleased(l)
    BY <2>17, Stutter DEF CgroupReleased, To1
  <2>18. CASE child_prepare_root(l)
    BY <2>18, Stutter DEF child_prepare_root, To1
  <2>19. CASE IdMapReleased(l)
    BY <2>19, Stutter DEF IdMapReleased, To1
  <2>20. CASE ForkStage2(l)
    BY <2>20, Stutter DEF ForkStage2, To1
  <2>21. CASE Stage1Fails(l)
    BY <2>21 DEF Stage1Fails, To1, Outcomes, Results, L!Next, L!Fail, L!vars
  <2>22. CASE Stage1Exits(l)
    BY <2>22, Stutter DEF Stage1Exits, To1
  <2>23. CASE child_exec(l)
    BY <2>23 DEF child_exec, Outcomes, Results, L!Next, L!Start, L!vars
  <2>24. CASE Stage2Fails(l)
    BY <2>24 DEF Stage2Fails, Outcomes, Results, L!Next, L!Fail, L!vars
  <2>25. CASE Stage2Exits(l)
    <3>1. CASE msg[l] 
      BY <2>25, <3>1, Stutter DEF Stage2Exits
    <3>2. CASE ~(msg[l] )
      <4>1. /\ Workload(l) \in {"none", "running"} /\ Workload(l)' = "gone"
            /\ Result(l)' = Result(l) /\ UNCHANGED (attached \cap mapped)
        BY <2>25, <3>2 DEF Stage2Exits
      <4> HIDE DEF Workload, Result, TypeOK, Handshake, Family
      <4>2. L!End(l)
        BY <4>1 DEF L!End, Outcomes, Results
      <4>3. QED
        BY <4>2 DEF L!Next
    <3>3. QED
      BY <3>1, <3>2
  <2>26. CASE KillStage1(l)
    <3>1. CASE msg[l] \/ st2[l] # "none"
      BY <2>26, <3>1, Stutter DEF KillStage1, To1
    <3>2. CASE ~(msg[l] \/ st2[l] # "none")
      <4>1. /\ Workload(l) \in {"none", "running"} /\ Workload(l)' = "gone"
            /\ Result(l)' = Result(l) /\ UNCHANGED (attached \cap mapped)
        BY <2>26, <3>2 DEF KillStage1, To1
      <4> HIDE DEF Workload, Result, TypeOK, Handshake, Family
      <4>2. L!End(l)
        BY <4>1 DEF L!End, Outcomes, Results
      <4>3. QED
        BY <4>2 DEF L!Next
    <3>3. QED
      BY <3>1, <3>2
  <2>27. CASE KillStage2(l)
    BY <2>27 DEF KillStage2, Outcomes, Results, L!Next, L!End, L!vars
  <2>28. QED
    BY <1>2, <2>1, <2>2, <2>3, <2>4, <2>5, <2>6, <2>7, <2>8, <2>9, <2>10, <2>11, <2>12, <2>13, <2>14, <2>15, <2>16, <2>17, <2>18, <2>19, <2>20, <2>21, <2>22, <2>23, <2>24, <2>25, <2>26, <2>27 DEF Parent, Stages
<1>3. ASSUME NEW q \in Others, ConsoleForks(q) \/ ConsoleEnds(q)
      PROVE  [L!Next]_(L!vars)
  BY <1>3 DEF ConsoleForks, ConsoleEnds, L!vars, Workload, Result
<1>4. QED
  BY <1>1, <1>2, <1>3 DEF Next

(* The handshake keeps the promise of Launch, for any set of launches. *)
THEOREM SpawnImplementsLaunch == Spec => Implements
<1>1. Init => L!Init
  BY DEF Init, L!Init, Workload, Result
<1>2. Inv /\ [Next]_vars => [L!Next]_(L!vars)
  BY RefinementStep
<1>3. QED
  BY <1>1, <1>2, SpawnInv, PTL DEF Spec, Implements, L!Spec
-----------------------------------------------------------------------------
(* Which processes of a launch still hold the write end of its own error   *)
(* pipe: the daemon until it has closed the child's ends, stage 1 until it *)
(* has forked stage 2, stage 2 until it becomes the workload.              *)
OwnEnds(l) ==
  /\ Daemon \in errW[l] => par[l] \in {"piped", "forked"}
  /\ Stage1(l) \in errW[l] => st1[l] \notin {"none", "wait", "dead"}
  /\ Stage2(l) \in errW[l] => st2[l] \in {"setup", "exit"}

(* A step of a launch keeps that of every launch. *)
LEMMA OwnEndsStep ==
  ASSUME Inv, \A k \in Launches : OwnEnds(k), NEW l \in Launches,
         Pipes(l) \/ Parent(l) \/ Stages(l) \/ KillStage1(l) \/ KillStage2(l)
  PROVE  \A k \in Launches : OwnEnds(k)'
<1> SUFFICES ASSUME NEW k \in Launches PROVE OwnEnds(k)'
  OBVIOUS
<1>a. /\ Stage1(l) # Daemon /\ Stage2(l) # Daemon /\ Stage1(l) # Stage2(l)
      /\ Stage1(k) # Daemon /\ Stage2(k) # Daemon /\ Stage1(k) # Stage2(l) /\ Stage2(k) # Stage1(l)
      /\ l # k => Stage1(l) # Stage1(k) /\ Stage2(l) # Stage2(k)
  BY HoldersDiffer
<1> USE <1>a DEF Inv, TypeOK, OwnEnds
<1>1. CASE Pipes(l)
  BY <1>1 DEF Pipes
<1>2. CASE Fork(l)
  BY <1>2 DEF Fork, Inherit, Handshake
<1>3. CASE ForkFail(l)
  BY <1>3 DEF ForkFail, Handshake
<1>4. CASE close_child_ends(l)
  BY <1>4 DEF close_child_ends
<1>5. CASE read_child_ready(l)
  BY <1>5 DEF read_child_ready
<1>6. CASE NotReady(l)
  BY <1>6 DEF NotReady, Abort, CloseAll
<1>7. CASE AttachOk(l)
  BY <1>7 DEF AttachOk
<1>8. CASE AttachFail(l)
  BY <1>8 DEF AttachFail
<1>9. CASE MapsOk(l)
  BY <1>9 DEF MapsOk
<1>10. CASE MapsFail(l)
  BY <1>10 DEF MapsFail
<1>11. CASE ReleaseFails(l)
  BY <1>11 DEF ReleaseFails, Abort, CloseAll
<1>12. CASE StatusOk(l)
  BY <1>12 DEF StatusOk
<1>13. CASE StatusErr(l)
  BY <1>13 DEF StatusErr, Abort, CloseAll
<1>14. CASE StatusTimeout(l)
  BY <1>14 DEF StatusTimeout, Abort, CloseAll
<1>15. CASE Doomed(l)
  BY <1>15 DEF Doomed, Abort, CloseAll
<1>16. CASE open_child_stdio(l)
  BY <1>16 DEF open_child_stdio, To1
<1>17. CASE CgroupReleased(l)
  BY <1>17 DEF CgroupReleased, To1
<1>18. CASE child_prepare_root(l)
  BY <1>18 DEF child_prepare_root, To1
<1>19. CASE IdMapReleased(l)
  BY <1>19 DEF IdMapReleased, To1
<1>20. CASE ForkStage2(l)
  BY <1>20 DEF ForkStage2, To1, Inherit
<1>21. CASE Stage1Fails(l)
  BY <1>21 DEF Stage1Fails, To1
<1>22. CASE Stage1Exits(l)
  BY <1>22 DEF Stage1Exits, To1, CloseAll
<1>23. CASE child_exec(l)
  BY <1>23 DEF child_exec, CloseAll
<1>24. CASE Stage2Fails(l)
  BY <1>24 DEF Stage2Fails
<1>25. CASE Stage2Exits(l)
  BY <1>25 DEF Stage2Exits, CloseAll
<1>26. CASE KillStage1(l)
  BY <1>26 DEF KillStage1, To1, CloseAll
<1>27. CASE KillStage2(l)
  BY <1>27 DEF KillStage2, CloseAll
<1>28. QED
  BY <1>1, <1>2, <1>3, <1>4, <1>5, <1>6, <1>7, <1>8, <1>9, <1>10, <1>11, <1>12, <1>13, <1>14, <1>15, <1>16, <1>17, <1>18, <1>19, <1>20, <1>21, <1>22, <1>23, <1>24, <1>25, <1>26, <1>27 DEF Parent, Stages

(* Only the timeout of its last wait ends a launch late, and a launch that *)
(* waits for a running workload has closed its own ends: someone else has  *)
(* one.                                                                    *)
LEMMA LateStep ==
  ASSUME Inv, \A k \in Launches : OwnEnds(k), Next, NEW l \in Launches,
         par[l] = "status", par'[l] = "late", st2[l] = "exec"
  PROVE  \/ Others \cap errW[l] # {}
         \/ \E m \in Launches \ {l} : {Stage1(m), Stage2(m)} \cap errW[l] # {}
<1>1. PICK k \in Launches :
        Pipes(k) \/ Parent(k) \/ Stages(k) \/ KillStage1(k) \/ KillStage2(k)
  BY DEF Next, ConsoleForks, ConsoleEnds
<1>2. k = l BY <1>1, OneLaunch
<1>3. StatusTimeout(l)
  <2>1. Parent(l)
    BY <1>1, <1>2 DEF Pipes, Stages, KillStage1, KillStage2, open_child_stdio, CgroupReleased,
       child_prepare_root, IdMapReleased, ForkStage2, Stage1Fails, Stage1Exits, child_exec,
       Stage2Fails, Stage2Exits
  <2>2. QED
    BY <2>1 DEF Parent, Fork, ForkFail, close_child_ends, read_child_ready, NotReady, AttachOk,
       AttachFail, MapsOk, MapsFail, ReleaseFails, StatusOk, StatusErr, Doomed, Abort, Inv, TypeOK
<1>4. PICK p \in Procs : p \in errW[l] BY <1>3 DEF StatusTimeout, Inv, TypeOK
<1>5. st1[l] \in {"wait", "dead"} BY DEF Inv, Family
<1>6. p \notin {Daemon, Stage1(l), Stage2(l)} BY <1>4, <1>5 DEF OwnEnds
<1>7. CASE p \in Others
  BY <1>4, <1>7
<1>8. CASE p \notin Others
  <2>1. PICK m \in Launches : p = Stage1(m) \/ p = Stage2(m)
    BY <1>4, <1>6, <1>8 DEF Procs, Stage1, Stage2
  <2>2. m # l BY <1>6, <2>1
  <2>3. QED BY <1>4, <2>1, <2>2
<1>9. QED BY <1>7, <1>8

(* For any number of launches, a launch whose workload runs is reported    *)
(* late only if a process of another launch, or the supervisor of a        *)
(* console, holds a copy of its error pipe: alone, a launch is told of its *)
(* workload's start.                                                       *)
THEOREM LateMeansEntangled == Spec => LateOnlyIfEntangled
<1>1. Init => \A k \in Launches : OwnEnds(k)
  BY DEF Init, OwnEnds
<1>2. Inv /\ (\A k \in Launches : OwnEnds(k)) /\ [Next]_vars => (\A k \in Launches : OwnEnds(k))'
  <2> SUFFICES ASSUME Inv, \A k \in Launches : OwnEnds(k), [Next]_vars
               PROVE  (\A k \in Launches : OwnEnds(k))'
    OBVIOUS
  <2>1. CASE UNCHANGED vars
    BY <2>1 DEF vars, OwnEnds
  <2>2. CASE \E l \in Launches :
               Pipes(l) \/ Parent(l) \/ Stages(l) \/ KillStage1(l) \/ KillStage2(l)
    BY <2>2, OwnEndsStep
  <2>3. CASE \E q \in Others : ConsoleForks(q) \/ ConsoleEnds(q)
    <3>1. PICK q \in Others : ConsoleForks(q) \/ ConsoleEnds(q) BY <2>3
    <3>2. SUFFICES ASSUME NEW k \in Launches PROVE OwnEnds(k)' OBVIOUS
    <3>3. q \notin {Daemon, Stage1(k), Stage2(k)} BY HoldersDiffer
    <3>4. \A p \in {Daemon, Stage1(k), Stage2(k)} : p \in errW'[k] => p \in errW[k]
      BY <3>1, <3>3 DEF ConsoleForks, ConsoleEnds, Inherit, CloseAll, Inv, TypeOK
    <3>5. UNCHANGED <<par, st1, st2>> BY <3>1 DEF ConsoleForks, ConsoleEnds
    <3>6. QED BY <3>4, <3>5 DEF OwnEnds
  <2>4. QED
    BY <2>1, <2>2, <2>3 DEF Next
<1>3. Inv /\ (\A k \in Launches : OwnEnds(k)) /\ [Next]_vars =>
        [\A l \in Launches :
           par[l] = "status" /\ par'[l] = "late" /\ st2[l] = "exec"
             => \/ Others \cap errW[l] # {}
                \/ \E m \in Launches \ {l} : {Stage1(m), Stage2(m)} \cap errW[l] # {}]_vars
  BY LateStep
<1>4. QED
  BY <1>1, <1>2, <1>3, SpawnInv, PTL DEF Spec, LateOnlyIfEntangled
=============================================================================
