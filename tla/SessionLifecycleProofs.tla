---------------------- MODULE SessionLifecycleProofs ----------------------
(* Theorems about SessionLifecycle, for any launches, workspaces and bounds. *)
EXTENDS SessionRefinement, TLAPS

Kinds   == {"none", "rollback", "retire", "stop", "stopAgain"}
Origins == {"none", "lookup", "claim"}

\* The type of the control variables, on its own.
ControlType == pc \in [Procs -> Pcs] /\ job \in [Procs -> Job]

\* What the label of a process says about its job: a reusing or following worker
\* has a session in hand and is tearing nothing down, only a rollback reads the
\* row again, and only starting and ready sessions are retired.  This is what
\* makes TypeOK and OneActiveSession inductive.
JobInv ==
    \A p \in Procs :
        /\ pc[p] \in {"reuse", "follow"} => job[p].kind = "none" /\ job[p].target \in Sessions
        /\ pc[p] = "settle" => job[p].kind = "rollback"
        /\ job[p].kind = "retire" => job[p].seen \in {"starting", "ready"}

-----------------------------------------------------------------------------
(* Lemmas on the operators that set pc and job *)

\* A job record built from well-typed parts is a job.
LEMMA MakeJobType ==
    ASSUME NEW s \in Sessions \cup {None}, NEW seen \in SessStates,
           NEW kind \in Kinds, NEW origin \in Origins,
           NEW stopIf \in BOOLEAN, NEW plan \in BOOLEAN
    PROVE  MakeJob(s, seen, kind, origin, stopIf, plan) \in Job
BY DEF MakeJob, Job, Kinds, Origins

\* The empty job is a job.
LEMMA NoJobType == NoJob \in Job
BY MakeJobType DEF NoJob, SessStates, Kinds, Origins

\* The fields of a process's job are well typed.
LEMMA JobFields ==
    ASSUME ControlType, NEW p \in Procs
    PROVE  /\ job[p].target \in Sessions \cup {None}
           /\ job[p].seen \in SessStates
           /\ job[p].kind \in Kinds
           /\ job[p].origin \in Origins
           /\ job[p].stopIf \in BOOLEAN
           /\ job[p].plan \in BOOLEAN
           /\ job[p].failed \in BOOLEAN
BY DEF ControlType, Job, Kinds, Origins

\* Setting pc to a label keeps its type.
LEMMA GotoType ==
    ASSUME ControlType, NEW p \in Procs, NEW label \in Pcs, Goto(p, label)
    PROVE  pc' \in [Procs -> Pcs]
BY DEF ControlType, Goto

\* Setting a process's job to a job keeps the type of job.
LEMMA SetJobType ==
    ASSUME ControlType, NEW p \in Procs, NEW j \in Job, job' = [job EXCEPT ![p] = j]
    PROVE  job' \in [Procs -> Job]
BY DEF ControlType

\* Entering the teardown keeps the types.
LEMMA TeardownType ==
    ASSUME ControlType, NEW p \in Procs,
           NEW s \in Sessions \cup {None}, NEW kind \in Kinds, NEW seen \in SessStates,
           NEW stopIf \in BOOLEAN, NEW plan \in BOOLEAN, NEW origin \in Origins,
           Teardown(p, s, kind, seen, stopIf, plan, origin)
    PROVE  ControlType'
<1>1. pc' \in [Procs -> Pcs]
  BY GotoType DEF Teardown, Pcs, TeardownPcs
<1>2. job' \in [Procs -> Job]
  BY SetJobType, MakeJobType DEF Teardown
<1> QED BY <1>1, <1>2 DEF ControlType

\* Entering the rollback keeps the types.
LEMMA RollbackType ==
    ASSUME ControlType, NEW l \in Launches, NEW plan \in BOOLEAN, Rollback(l, plan)
    PROVE  ControlType'
BY TeardownType DEF Rollback, Procs, Sessions, Kinds, Origins, SessStates

\* Giving the launch up keeps the types.
LEMMA AbandonType ==
    ASSUME ControlType, NEW l \in Launches, Abandon(l)
    PROVE  ControlType'
BY SetJobType, NoJobType, GotoType DEF Abandon, Procs, Pcs, RunPcs, ControlType

\* Leaving through an exception keeps the types.
LEMMA RaiseType ==
    ASSUME ControlType, NEW p \in Procs, Raise(p)
    PROVE  ControlType'
BY SetJobType, NoJobType, GotoType DEF Raise, Pcs, RunPcs, ControlType

\* Remembering a failed cleanup step keeps the types.
LEMMA NoteFailureType ==
    ASSUME ControlType, NEW p \in Procs, NoteFailure(p)
    PROVE  job' \in [Procs -> Job]
BY DEF ControlType, NoteFailure, Job


-----------------------------------------------------------------------------
(* Type correctness *)

\* The type of the tables and of the host's resources.
DataType ==
    /\ sessState \in [Sessions -> SessStates]
    /\ launchState \in [Launches -> LaunchStates]
    /\ launchSess \in [Launches -> Sessions \cup {None}]
    /\ verified \subseteq Sessions
    /\ leases \subseteq Sessions /\ running \subseteq Sessions /\ late \subseteq Sessions
    /\ net \subseteq Sessions /\ rules \subseteq Sessions /\ secrets \subseteq Sessions
    /\ owners \subseteq Sessions /\ todo \subseteq Sessions
    /\ rows \subseteq Launches \X LaunchStates
    /\ faults \in 0..MaxFaults /\ stops \in 0..MaxStops /\ crashes \in 0..MaxCrashes

\* The two halves make up TypeOK.
LEMMA TypeHalves == TypeOK <=> ControlType /\ DataType
BY DEF TypeOK, ControlType, DataType

\* Every step keeps the control variables well typed.
LEMMA ControlStep ==
    ASSUME ControlType, DataType, JobInv, [Next]_vars
    PROVE  ControlType'
<1> USE JobFields, ProcsAssumption
<1> USE DEF Procs
<1>1. ASSUME NEW l \in Launches, Submit(l) PROVE ControlType'
  BY <1>1 DEF Submit, ControlType
<1>2. ASSUME NEW l \in Launches, Schedule(l) PROVE ControlType'
  BY <1>2, GotoType DEF Schedule, ControlType, Pcs, RunPcs, TeardownPcs
<1>3. ASSUME NEW l \in Launches, Begin(l) PROVE ControlType'
  BY <1>3, GotoType DEF Begin, ControlType, Pcs, RunPcs, TeardownPcs
<1>4. ASSUME NEW l \in Launches, Prepare(l) PROVE ControlType'
  BY <1>4, AbandonType, GotoType DEF Prepare, ControlType, Pcs, RunPcs, TeardownPcs
<1>5. ASSUME NEW l \in Launches, Lookup(l) PROVE ControlType'
  <2>1. ASSUME NEW s \in ActiveSessions(Ws[l]), Goto(l, "reuse"),
               job' = [job EXCEPT ![l] = MakeJob(s, sessState[s], "none", "lookup", TRUE, FALSE)]
        PROVE  ControlType'
    <3>1. s \in Sessions /\ sessState[s] \in SessStates
      BY <2>1 DEF ActiveSessions, DataType
    <3>2. MakeJob(s, sessState[s], "none", "lookup", TRUE, FALSE) \in Job
      BY <3>1, MakeJobType DEF Kinds, Origins
    <3> QED BY <2>1, <3>2, GotoType, SetJobType DEF ControlType, Pcs, RunPcs
  <2>2. ASSUME Goto(l, "build"), UNCHANGED job \/ job' = [job EXCEPT ![l] = NoJob]
        PROVE  ControlType'
    BY <2>2, GotoType, SetJobType, NoJobType DEF ControlType, Pcs, RunPcs
  <2> QED BY <1>5, <2>1, <2>2 DEF Lookup
<1>6. ASSUME NEW l \in Launches, ReuseRefused(l) PROVE ControlType'
  BY <1>6, AbandonType DEF ReuseRefused, ControlType
<1>7. ASSUME NEW l \in Launches, ReuseReady(l) PROVE ControlType'
  <2> job[l].origin \in Origins /\ job[l].target \in Sessions \cup {None}
    BY JobFields
  <2>1. ASSUME Teardown(l, job[l].target, "retire", "ready", FALSE, TRUE, job[l].origin)
        PROVE  ControlType'
    BY <2>1, TeardownType DEF Kinds, SessStates, ActiveStates
  <2>2. ASSUME NEW label \in Pcs, Goto(l, label), UNCHANGED job
        PROVE  ControlType'
    BY <2>2, GotoType DEF ControlType
  <2> QED BY <1>7, <2>1, <2>2, AbandonType DEF ReuseReady, Pcs, RunPcs
<1>8. ASSUME NEW l \in Launches, Attest(l) PROVE ControlType'
  <2> job[l].origin \in Origins /\ job[l].target \in Sessions \cup {None}
    BY JobFields
  <2>1. ASSUME Teardown(l, job[l].target, "retire", "ready", TRUE, TRUE, job[l].origin)
        PROVE  ControlType'
    BY <2>1, TeardownType DEF Kinds, SessStates, ActiveStates
  <2>2. ASSUME NEW label \in Pcs, Goto(l, label), UNCHANGED job
        PROVE  ControlType'
    BY <2>2, GotoType DEF ControlType
  <2> QED BY <1>8, <2>1, <2>2 DEF Attest, Pcs, RunPcs
<1>9. ASSUME NEW l \in Launches, PublishReuse(l) PROVE ControlType'
  BY <1>9, AbandonType, GotoType, SetJobType, NoJobType, MakeJobType DEF PublishReuse, ControlType, Pcs, RunPcs, TeardownPcs
<1>10. ASSUME NEW l \in Launches, ReuseStarting(l) PROVE ControlType'
  <2> job[l].origin \in Origins /\ job[l].target \in Sessions \cup {None}
    BY JobFields
  <2>1. ASSUME Teardown(l, job[l].target, "retire", "starting", TRUE, TRUE, job[l].origin)
        PROVE  ControlType'
    BY <2>1, TeardownType DEF Kinds, SessStates, ActiveStates
  <2>2. ASSUME NEW label \in Pcs, Goto(l, label), UNCHANGED job
        PROVE  ControlType'
    BY <2>2, GotoType DEF ControlType
  <2>3. ASSUME NEW st \in SessStates, job' = [job EXCEPT ![l].seen = st]
        PROVE  job' \in [Procs -> Job]
    BY <2>3 DEF ControlType, Job
  <2>4. ASSUME NEW s \in Sessions PROVE sessState[s] \in SessStates
    BY <2>4 DEF DataType
  <2>5. ASSUME job[l].target \notin owners, sessState[job[l].target] # "starting",
               job' = [job EXCEPT ![l].seen = sessState[job[l].target]], UNCHANGED pc
        PROVE  ControlType'
    BY <2>5, <2>3, <2>4, <1>10 DEF ControlType, ReuseStarting, JobInv
  <2> QED BY <1>10, <2>1, <2>2, <2>5, AbandonType DEF ReuseStarting, Pcs, RunPcs
<1>11. ASSUME NEW l \in Launches, FollowDone(l) PROVE ControlType'
  <2>1. ASSUME NEW st \in SessStates, job' = [job EXCEPT ![l].seen = st]
        PROVE  job' \in [Procs -> Job]
    BY <2>1 DEF ControlType, Job
  <2>2. ASSUME Goto(l, "reuse"), job' = [job EXCEPT ![l].seen = "ready"]
        PROVE  ControlType'
    BY <2>1, <2>2, GotoType DEF ControlType, Pcs, RunPcs, SessStates, ActiveStates
  <2> QED BY <1>11, <2>2, AbandonType DEF FollowDone
<1>12. ASSUME NEW l \in Launches, FollowTimeout(l) PROVE ControlType'
  BY <1>12, AbandonType DEF FollowTimeout, ControlType
<1>13. ASSUME NEW l \in Launches, Build(l) PROVE ControlType'
  BY <1>13, AbandonType, GotoType DEF Build, ControlType, Pcs, RunPcs, TeardownPcs
<1>14. ASSUME NEW l \in Launches, Claim(l) PROVE ControlType'
  <2>1. ASSUME NEW s \in ActiveSessions(Ws[l]), Goto(l, "reuse"),
               job' = [job EXCEPT ![l] = MakeJob(s, sessState[s], "none", "claim", TRUE, FALSE)]
        PROVE  ControlType'
    <3>1. s \in Sessions /\ sessState[s] \in SessStates
      BY <2>1 DEF ActiveSessions, DataType
    <3>2. MakeJob(s, sessState[s], "none", "claim", TRUE, FALSE) \in Job
      BY <3>1, MakeJobType DEF Kinds, Origins
    <3> QED BY <2>1, <3>2, GotoType, SetJobType DEF ControlType, Pcs, RunPcs
  <2>2. ASSUME Goto(l, "bind"), UNCHANGED job \/ job' = [job EXCEPT ![l] = NoJob]
        PROVE  ControlType'
    BY <2>2, GotoType, SetJobType, NoJobType DEF ControlType, Pcs, RunPcs
  <2> QED BY <1>14, <2>1, <2>2 DEF Claim
<1>15. ASSUME NEW l \in Launches, Bind(l) PROVE ControlType'
  BY <1>15, RollbackType, GotoType DEF Bind, ControlType, Pcs, RunPcs, TeardownPcs
<1>16. ASSUME NEW l \in Launches, WriteSecrets(l) PROVE ControlType'
  BY <1>16, RollbackType, GotoType DEF WriteSecrets, ControlType, Pcs, RunPcs, TeardownPcs
<1>17. ASSUME NEW l \in Launches, CreateNetwork(l) PROVE ControlType'
  BY <1>17, RollbackType, GotoType DEF CreateNetwork, ControlType, Pcs, RunPcs, TeardownPcs
<1>18. ASSUME NEW l \in Launches, InstallRules(l) PROVE ControlType'
  BY <1>18, RollbackType, GotoType DEF InstallRules, ControlType, Pcs, RunPcs, TeardownPcs
<1>19. ASSUME NEW l \in Launches, VerifyPolicy(l) PROVE ControlType'
  BY <1>19, RollbackType, GotoType DEF VerifyPolicy, ControlType, Pcs, RunPcs, TeardownPcs
<1>20. ASSUME NEW l \in Launches, RunContainer(l) PROVE ControlType'
  BY <1>20, RollbackType, GotoType DEF RunContainer, ControlType, Pcs, RunPcs, TeardownPcs
<1>21. ASSUME NEW l \in Launches, Probe(l) \/ Gates(l) PROVE ControlType'
  BY <1>21, RollbackType, GotoType DEF Probe, Gates, ControlType, Pcs, RunPcs, TeardownPcs
<1>22. ASSUME NEW l \in Launches, CommitReady(l) PROVE ControlType'
  BY <1>22, RollbackType, GotoType DEF CommitReady, ControlType, Pcs, RunPcs, TeardownPcs
<1>23. ASSUME NEW l \in Launches, PublishReady(l) PROVE ControlType'
  BY <1>23, RollbackType, GotoType DEF PublishReady, ControlType, Pcs, RunPcs, TeardownPcs
<1>24. ASSUME NEW l \in Launches, RollbackRead(l) PROVE ControlType'
  <2>1. ASSUME NEW st \in SessStates, job' = [job EXCEPT ![l].seen = st]
        PROVE  job' \in [Procs -> Job]
    BY <2>1 DEF ControlType, Job
  <2>2. sessState[l] \in SessStates
    BY DEF DataType, Sessions
  <2> QED BY <1>24, <2>1, <2>2, GotoType DEF RollbackRead, ControlType, Pcs, TeardownPcs
<1>25. ASSUME NEW l \in Launches, RollbackSettle(l) PROVE ControlType'
  BY <1>25, AbandonType DEF RollbackSettle, ControlType
<1>26. ASSUME NEW l \in Launches, FailLaunch(l) PROVE ControlType'
  BY <1>26, GotoType DEF FailLaunch, ControlType, Pcs, RunPcs, TeardownPcs
<1>27. ASSUME NEW l \in Launches, Finally(l) PROVE ControlType'
  BY <1>27, GotoType DEF Finally, ControlType, Pcs, RunPcs, TeardownPcs
<1>28. ASSUME NEW l \in Launches, Stop(l) PROVE ControlType'
  <2>1. MakeJob(l, sessState[l], "stopAgain", "none", TRUE, FALSE) \in Job
    BY MakeJobType DEF DataType, Sessions, Kinds, Origins
  <2>2. ASSUME Goto(Stopper, "private"),
               job' = [job EXCEPT ![Stopper] = MakeJob(l, sessState[l], "stopAgain", "none", TRUE, FALSE)]
        PROVE  ControlType'
    BY <2>1, <2>2, GotoType, SetJobType DEF ControlType, Pcs, TeardownPcs
  <2>3. ASSUME Teardown(Stopper, l, "stop", "stopping", TRUE, TRUE, "none")
        PROVE  ControlType'
    BY <2>3, TeardownType DEF Kinds, Origins, Sessions, SessStates, ActiveStates
  <2> QED BY <1>28, <2>2, <2>3 DEF Stop
<1>29. ASSUME NEW l \in Launches, LateRun(l) PROVE ControlType'
  BY <1>29 DEF LateRun, ControlType
<1>30. ASSUME NEW l \in Launches, ContainerExits(l) PROVE ControlType'
  BY <1>30 DEF ContainerExits, ControlType
<1>31. ASSUME NEW l \in Launches, AcquireLease(l) PROVE ControlType'
  BY <1>31 DEF AcquireLease, ControlType
<1>32. ASSUME NEW l \in Launches, ReleaseLease(l) PROVE ControlType'
  BY <1>32 DEF ReleaseLease, ControlType
<1>33. ASSUME NEW p \in Procs, CheckAlive(p) PROVE ControlType'
  BY <1>33, NoteFailureType, GotoType DEF CheckAlive, ControlType, Pcs, RunPcs, TeardownPcs
<1>34. ASSUME NEW p \in Procs, Kill(p) PROVE ControlType'
  BY <1>34, NoteFailureType, GotoType DEF Kill, ControlType, Pcs, RunPcs, TeardownPcs
<1>35. ASSUME NEW p \in Procs, Recheck(p) PROVE ControlType'
  BY <1>35, NoteFailureType, GotoType DEF Recheck, ControlType, Pcs, RunPcs, TeardownPcs
<1>36. ASSUME NEW p \in Procs, RemoveNetwork(p) PROVE ControlType'
  BY <1>36, NoteFailureType, GotoType DEF RemoveNetwork, ControlType, Pcs, RunPcs, TeardownPcs
<1>37. ASSUME NEW p \in Procs, RemoveRules(p) PROVE ControlType'
  BY <1>37, NoteFailureType, GotoType DEF RemoveRules, ControlType, Pcs, RunPcs, TeardownPcs
<1>38. ASSUME NEW p \in Procs, InvalidatePrivate(p) PROVE ControlType'
  BY <1>38, RaiseType, GotoType DEF InvalidatePrivate, ControlType, Pcs, RunPcs, TeardownPcs
<1>39. ASSUME NEW p \in Procs, ReleaseLeases(p) PROVE ControlType'
  BY <1>39, GotoType DEF ReleaseLeases, ControlType, Pcs, RunPcs, TeardownPcs
<1>40. ASSUME NEW p \in Procs, RetireSettle(p) PROVE ControlType'
  BY <1>40, RaiseType, GotoType DEF RetireSettle, ControlType, Pcs, RunPcs, TeardownPcs
<1>41. ASSUME NEW p \in Procs, FailSessionLaunches(p) PROVE ControlType'
  BY <1>41, GotoType, SetJobType, NoJobType, MakeJobType DEF FailSessionLaunches, ControlType, Pcs, RunPcs, TeardownPcs
<1>42. ASSUME StopSettle PROVE ControlType'
  BY <1>42, RaiseType, GotoType DEF StopSettle, ControlType, Pcs, RunPcs, TeardownPcs
<1>43. ASSUME ReadRows PROVE ControlType'
  BY <1>43, GotoType DEF ReadRows, ControlType, Pcs, RunPcs, TeardownPcs
<1>44. ASSUME WriteRows PROVE ControlType'
  BY <1>44, GotoType, SetJobType, NoJobType, MakeJobType DEF WriteRows, ControlType, Pcs, RunPcs, TeardownPcs
<1>45. ASSUME Crash PROVE ControlType'
  BY <1>45, NoJobType DEF Crash, ControlType, Pcs
<1>46. ASSUME Restart PROVE ControlType'
  BY <1>46, GotoType DEF Restart, ControlType, Pcs, RunPcs, TeardownPcs
<1>47. ASSUME Reconcile PROVE ControlType'
  BY <1>47, TeardownType, GotoType DEF Reconcile, ControlType, Pcs, RunPcs, TeardownPcs, Kinds, Origins, Sessions, DataType, SessStates, ActiveStates, ActiveSessions
<1>48. CASE UNCHANGED vars
  BY <1>48 DEF vars, ControlType
<1> QED
  BY <1>1, <1>2, <1>3, <1>4, <1>5, <1>6, <1>7, <1>8, <1>9, <1>10, <1>11, <1>12, <1>13, <1>14, <1>15, <1>16, <1>17, <1>18, <1>19, <1>20, <1>21, <1>22, <1>23, <1>24, <1>25, <1>26, <1>27, <1>28, <1>29, <1>30, <1>31, <1>32, <1>33, <1>34, <1>35, <1>36, <1>37, <1>38, <1>39, <1>40, <1>41, <1>42, <1>43, <1>44, <1>45, <1>46, <1>47, <1>48
  DEF Next, WorkerStep, StopperStep, BootStep, TeardownStep

\* Every step keeps the tables and the host's resources well typed.
LEMMA DataStep ==
    ASSUME ControlType, DataType, JobInv, [Next]_vars
    PROVE  DataType'
<1> USE JobFields, ProcsAssumption, BoundsAssumption
<1> USE DEF Procs, Sessions, db, host, budget
<1>1. ASSUME NEW l \in Launches, Submit(l) PROVE DataType'
  BY <1>1 DEF Submit, DataType, LaunchStates
<1>2. ASSUME NEW l \in Launches, Schedule(l) PROVE DataType'
  BY <1>2 DEF Schedule, DataType, LaunchStates
<1>3. ASSUME NEW l \in Launches, Begin(l) PROVE DataType'
  BY <1>3 DEF Begin, DataType, UpdateLaunch, LaunchStates
<1>4. ASSUME NEW l \in Launches, Prepare(l) PROVE DataType'
  BY <1>4 DEF Prepare, DataType, LaunchStates, Fails
<1>5. ASSUME NEW l \in Launches, Lookup(l) PROVE DataType'
  BY <1>5 DEF Lookup, DataType, LaunchStates, Teardown, MakeJob
<1>6. ASSUME NEW l \in Launches, ReuseRefused(l) PROVE DataType'
  BY <1>6 DEF ReuseRefused, DataType, LaunchStates
<1>7. ASSUME NEW l \in Launches, ReuseReady(l) PROVE DataType'
  BY <1>7 DEF ReuseReady, DataType, LaunchStates, Fails, Teardown, MakeJob
<1>8. ASSUME NEW l \in Launches, Attest(l) PROVE DataType'
  BY <1>8 DEF Attest, DataType, LaunchStates, Fails, Teardown, MakeJob
<1>9. ASSUME NEW l \in Launches, PublishReuse(l) PROVE DataType'
  BY <1>9 DEF PublishReuse, DataType, UpdateLaunch, LaunchStates
<1>10. ASSUME NEW l \in Launches, ReuseStarting(l) PROVE DataType'
  BY <1>10 DEF ReuseStarting, DataType, UpdateLaunch, LaunchStates, Teardown, MakeJob
<1>11. ASSUME NEW l \in Launches, FollowDone(l) PROVE DataType'
  BY <1>11 DEF FollowDone, DataType, LaunchStates
<1>12. ASSUME NEW l \in Launches, FollowTimeout(l) PROVE DataType'
  BY <1>12 DEF FollowTimeout, DataType, LaunchStates
<1>13. ASSUME NEW l \in Launches, Build(l) PROVE DataType'
  BY <1>13 DEF Build, DataType, LaunchStates, Fails
<1>14. ASSUME NEW l \in Launches, Claim(l) PROVE DataType'
  BY <1>14 DEF Claim, DataType, SessStates, ActiveStates, TerminalStates, LaunchStates, Teardown, MakeJob
<1>15. ASSUME NEW l \in Launches, Bind(l) PROVE DataType'
  BY <1>15 DEF Bind, DataType, UpdateLaunch, LaunchStates, Rollback, Teardown, MakeJob
<1>16. ASSUME NEW l \in Launches, WriteSecrets(l) PROVE DataType'
  BY <1>16 DEF WriteSecrets, DataType, LaunchStates, Fails, Rollback, Teardown, MakeJob
<1>17. ASSUME NEW l \in Launches, CreateNetwork(l) PROVE DataType'
  BY <1>17 DEF CreateNetwork, DataType, LaunchStates, Fails, Rollback, Teardown, MakeJob
<1>18. ASSUME NEW l \in Launches, InstallRules(l) PROVE DataType'
  BY <1>18 DEF InstallRules, DataType, LaunchStates, Fails, Rollback, Teardown, MakeJob
<1>19. ASSUME NEW l \in Launches, VerifyPolicy(l) PROVE DataType'
  BY <1>19 DEF VerifyPolicy, DataType, LaunchStates, Fails, Rollback, Teardown, MakeJob
<1>20. ASSUME NEW l \in Launches, RunContainer(l) PROVE DataType'
  BY <1>20 DEF RunContainer, DataType, LaunchStates, Fails, Rollback, Teardown, MakeJob
<1>21. ASSUME NEW l \in Launches, Probe(l) \/ Gates(l) PROVE DataType'
  BY <1>21 DEF Probe, Gates, DataType, LaunchStates, Fails, Rollback, Teardown, MakeJob
<1>22. ASSUME NEW l \in Launches, CommitReady(l) PROVE DataType'
  BY <1>22 DEF CommitReady, DataType, TransitionSession, SessStates, ActiveStates, TerminalStates, LaunchStates, Rollback, Teardown, MakeJob
<1>23. ASSUME NEW l \in Launches, PublishReady(l) PROVE DataType'
  BY <1>23 DEF PublishReady, DataType, UpdateLaunch, LaunchStates, Rollback, Teardown, MakeJob
<1>24. ASSUME NEW l \in Launches, RollbackRead(l) PROVE DataType'
  BY <1>24 DEF RollbackRead, DataType, LaunchStates
<1>25. ASSUME NEW l \in Launches, RollbackSettle(l) PROVE DataType'
  BY <1>25 DEF RollbackSettle, DataType, TransitionSession, SessStates, ActiveStates, TerminalStates, LaunchStates
<1>26. ASSUME NEW l \in Launches, FailLaunch(l) PROVE DataType'
  BY <1>26 DEF FailLaunch, DataType, LaunchStates
<1>27. ASSUME NEW l \in Launches, Finally(l) PROVE DataType'
  BY <1>27 DEF Finally, DataType, LaunchStates
<1>28. ASSUME NEW l \in Launches, Stop(l) PROVE DataType'
  BY <1>28 DEF Stop, DataType, TransitionSession, SessStates, ActiveStates, TerminalStates, LaunchStates, Teardown, MakeJob
<1>29. ASSUME NEW l \in Launches, LateRun(l) PROVE DataType'
  BY <1>29 DEF LateRun, DataType, LaunchStates
<1>30. ASSUME NEW l \in Launches, ContainerExits(l) PROVE DataType'
  BY <1>30 DEF ContainerExits, DataType, LaunchStates, Fails
<1>31. ASSUME NEW l \in Launches, AcquireLease(l) PROVE DataType'
  BY <1>31 DEF AcquireLease, DataType, LaunchStates
<1>32. ASSUME NEW l \in Launches, ReleaseLease(l) PROVE DataType'
  BY <1>32 DEF ReleaseLease, DataType, LaunchStates
<1>33. ASSUME NEW p \in Procs, CheckAlive(p) PROVE DataType'
  BY <1>33 DEF CheckAlive, DataType, LaunchStates, Fails
<1>34. ASSUME NEW p \in Procs, Kill(p) PROVE DataType'
  BY <1>34 DEF Kill, DataType, LaunchStates, Fails
<1>35. ASSUME NEW p \in Procs, Recheck(p) PROVE DataType'
  BY <1>35 DEF Recheck, DataType, LaunchStates, Fails
<1>36. ASSUME NEW p \in Procs, RemoveNetwork(p) PROVE DataType'
  BY <1>36 DEF RemoveNetwork, DataType, LaunchStates, Fails
<1>37. ASSUME NEW p \in Procs, RemoveRules(p) PROVE DataType'
  BY <1>37 DEF RemoveRules, DataType, LaunchStates, Fails
<1>38. ASSUME NEW p \in Procs, InvalidatePrivate(p) PROVE DataType'
  BY <1>38 DEF InvalidatePrivate, DataType, LaunchStates, Fails
<1>39. ASSUME NEW p \in Procs, ReleaseLeases(p) PROVE DataType'
  BY <1>39 DEF ReleaseLeases, DataType, LaunchStates
<1>40. ASSUME NEW p \in Procs, RetireSettle(p) PROVE DataType'
  BY <1>40 DEF RetireSettle, DataType, TransitionSession, SessStates, ActiveStates, TerminalStates, LaunchStates
<1>41. ASSUME NEW p \in Procs, FailSessionLaunches(p) PROVE DataType'
  BY <1>41 DEF FailSessionLaunches, DataType, LaunchStates
<1>42. ASSUME StopSettle PROVE DataType'
  BY <1>42 DEF StopSettle, DataType, TransitionSession, SessStates, ActiveStates, TerminalStates, LaunchStates
<1>43. ASSUME ReadRows PROVE DataType'
  BY <1>43 DEF ReadRows, DataType, LaunchStates
<1>44. ASSUME WriteRows PROVE DataType'
  BY <1>44 DEF WriteRows, DataType, LaunchStates
<1>45. ASSUME Crash PROVE DataType'
  BY <1>45 DEF Crash, DataType, LaunchStates
<1>46. ASSUME Restart PROVE DataType'
  BY <1>46 DEF Restart, DataType, LaunchStates
<1>47. ASSUME Reconcile PROVE DataType'
  BY <1>47 DEF Reconcile, DataType, LaunchStates, Teardown, MakeJob
<1>48. CASE UNCHANGED vars
  BY <1>48 DEF vars, DataType
<1> QED
  BY <1>1, <1>2, <1>3, <1>4, <1>5, <1>6, <1>7, <1>8, <1>9, <1>10, <1>11, <1>12, <1>13, <1>14, <1>15, <1>16, <1>17, <1>18, <1>19, <1>20, <1>21, <1>22, <1>23, <1>24, <1>25, <1>26, <1>27, <1>28, <1>29, <1>30, <1>31, <1>32, <1>33, <1>34, <1>35, <1>36, <1>37, <1>38, <1>39, <1>40, <1>41, <1>42, <1>43, <1>44, <1>45, <1>46, <1>47, <1>48
  DEF Next, WorkerStep, StopperStep, BootStep, TeardownStep

-----------------------------------------------------------------------------
(* JobInv is inductive *)

\* A step of one process keeps JobInv if its own new label and job fit.
LEMMA JobInvStep ==
    ASSUME ControlType, JobInv, NEW p \in Procs, NEW label, NEW j,
           pc' = [pc EXCEPT ![p] = label], job' = [job EXCEPT ![p] = j],
           label \in {"reuse", "follow"} => j.kind = "none" /\ j.target \in Sessions,
           label = "settle" => j.kind = "rollback",
           j.kind = "retire" => j.seen \in {"starting", "ready"}
    PROVE  JobInv'
BY DEF ControlType, JobInv

\* A step that keeps the job and avoids the constrained labels keeps JobInv.
LEMMA JobInvGoto ==
    ASSUME ControlType, JobInv, NEW p \in Procs, NEW label,
           label \notin {"reuse", "follow", "settle"}, Goto(p, label), UNCHANGED job
    PROVE  JobInv'
BY DEF ControlType, JobInv, Goto

\* So does one that also remembers a failure.
LEMMA JobInvNote ==
    ASSUME ControlType, JobInv, NEW p \in Procs, NEW label,
           label \notin {"reuse", "follow", "settle"}, Goto(p, label), NoteFailure(p)
    PROVE  JobInv'
BY DEF ControlType, JobInv, Goto, NoteFailure, Job

\* Steps that drop the job keep JobInv.
LEMMA JobInvDrop ==
    ASSUME ControlType, JobInv, NEW p \in Procs, NEW label,
           label \notin {"reuse", "follow", "settle"}, Goto(p, label),
           job' = [job EXCEPT ![p] = NoJob]
    PROVE  JobInv'
<1>1. NoJob.kind = "none"
  BY DEF NoJob, MakeJob
<1> QED BY <1>1, JobInvStep DEF Goto

\* Giving up drops the job.
LEMMA JobInvAbandon ==
    ASSUME ControlType, JobInv, NEW l \in Launches, Abandon(l)
    PROVE  JobInv'
BY JobInvDrop DEF Abandon, Procs

\* An exception that leaves a teardown drops the job.
LEMMA JobInvRaise ==
    ASSUME ControlType, JobInv, NEW p \in Procs, Raise(p)
    PROVE  JobInv'
BY JobInvDrop DEF Raise

\* Entering a teardown keeps JobInv when only live sessions are retired.
LEMMA JobInvTeardown ==
    ASSUME ControlType, JobInv, NEW p \in Procs, NEW s, NEW kind, NEW seen,
           NEW stopIf \in BOOLEAN, NEW plan \in BOOLEAN, NEW origin,
           Teardown(p, s, kind, seen, stopIf, plan, origin),
           kind = "retire" => seen \in {"starting", "ready"}
    PROVE  JobInv'
<1> DEFINE j == MakeJob(s, seen, kind, origin, stopIf, plan)
<1>1. j.kind = kind /\ j.seen = seen
  BY DEF MakeJob
<1> HIDE DEF j
<1>2. job' = [job EXCEPT ![p] = j] /\ pc' = [pc EXCEPT ![p] = "alive"]
  BY DEF Teardown, Goto, j
<1> QED BY <1>1, <1>2, JobInvStep

\* A rollback is a teardown that is no retirement.
LEMMA JobInvRollback ==
    ASSUME ControlType, JobInv, NEW l \in Launches, NEW plan \in BOOLEAN, Rollback(l, plan)
    PROVE  JobInv'
BY JobInvTeardown DEF Rollback, Procs

\* Every step keeps JobInv.
LEMMA JobStep ==
    ASSUME ControlType, JobInv, [Next]_vars
    PROVE  JobInv'
<1> USE ProcsAssumption DEF Procs
<1>1. ASSUME NEW l \in Launches, Submit(l) PROVE JobInv'
  BY <1>1 DEF Submit, JobInv
<1>2. ASSUME NEW l \in Launches, Schedule(l) PROVE JobInv'
  BY <1>2, JobInvGoto DEF Schedule
<1>3. ASSUME NEW l \in Launches, Begin(l) PROVE JobInv'
  BY <1>3, JobInvGoto DEF Begin
<1>4. ASSUME NEW l \in Launches, Prepare(l) PROVE JobInv'
  BY <1>4, JobInvAbandon, JobInvGoto DEF Prepare
<1>5. ASSUME NEW l \in Launches, Lookup(l) PROVE JobInv'
  <2>1. ASSUME NEW s \in ActiveSessions(Ws[l]), Goto(l, "reuse"),
               job' = [job EXCEPT ![l] = MakeJob(s, sessState[s], "none", "lookup", TRUE, FALSE)]
        PROVE  JobInv'
    <3> DEFINE j == MakeJob(s, sessState[s], "none", "lookup", TRUE, FALSE)
    <3>1. j.target = s /\ j.kind = "none" /\ s \in Sessions
      BY DEF ActiveSessions, MakeJob
    <3> HIDE DEF j
    <3>2. job' = [job EXCEPT ![l] = j]
      BY <2>1 DEF j
    <3> QED BY <2>1, <3>1, <3>2, JobInvStep DEF Goto
  <2>2. ASSUME Goto(l, "build"), UNCHANGED job \/ job' = [job EXCEPT ![l] = NoJob]
        PROVE  JobInv'
    BY <2>2, JobInvGoto, JobInvDrop
  <2> QED BY <1>5, <2>1, <2>2 DEF Lookup
<1>6. ASSUME NEW l \in Launches, ReuseRefused(l) PROVE JobInv'
  BY <1>6, JobInvAbandon DEF ReuseRefused, JobInv
<1>7. ASSUME NEW l \in Launches, ReuseReady(l) PROVE JobInv'
  <2>1. ASSUME Teardown(l, job[l].target, "retire", "ready", FALSE, TRUE, job[l].origin)
        PROVE  JobInv'
    BY <2>1, JobInvTeardown
  <2> QED BY <1>7, <2>1, JobInvGoto, JobInvAbandon DEF ReuseReady
<1>8. ASSUME NEW l \in Launches, Attest(l) PROVE JobInv'
  <2>1. ASSUME Teardown(l, job[l].target, "retire", "ready", TRUE, TRUE, job[l].origin)
        PROVE  JobInv'
    BY <2>1, JobInvTeardown
  <2> QED BY <1>8, <2>1, JobInvGoto DEF Attest
<1>9. ASSUME NEW l \in Launches, PublishReuse(l) PROVE JobInv'
  BY <1>9, JobInvAbandon, JobInvGoto, JobInvDrop DEF PublishReuse
<1>10. ASSUME NEW l \in Launches, ReuseStarting(l) PROVE JobInv'
  <2>1. ASSUME Teardown(l, job[l].target, "retire", "starting", TRUE, TRUE, job[l].origin)
        PROVE  JobInv'
    BY <2>1, JobInvTeardown
  <2>2. ASSUME Goto(l, "follow"), UNCHANGED job
        PROVE  JobInv'
    BY <1>10, <2>2 DEF ReuseStarting, JobInv, ControlType, Goto
  <2>3. ASSUME NEW st, job' = [job EXCEPT ![l].seen = st], UNCHANGED pc
        PROVE  JobInv'
    BY <1>10, <2>3 DEF ReuseStarting, JobInv, ControlType, Job
  <2> QED BY <1>10, <2>1, <2>2, <2>3, JobInvAbandon DEF ReuseStarting
<1>11. ASSUME NEW l \in Launches, FollowDone(l) PROVE JobInv'
  <2>1. ASSUME Goto(l, "reuse"), job' = [job EXCEPT ![l].seen = "ready"]
        PROVE  JobInv'
    BY <1>11, <2>1 DEF FollowDone, JobInv, ControlType, Goto, Job
  <2> QED BY <1>11, <2>1, JobInvAbandon DEF FollowDone
<1>12. ASSUME NEW l \in Launches, FollowTimeout(l) PROVE JobInv'
  BY <1>12, JobInvAbandon DEF FollowTimeout, JobInv
<1>13. ASSUME NEW l \in Launches, Build(l) PROVE JobInv'
  BY <1>13, JobInvAbandon, JobInvGoto DEF Build
<1>14. ASSUME NEW l \in Launches, Claim(l) PROVE JobInv'
  <2>1. ASSUME NEW s \in ActiveSessions(Ws[l]), Goto(l, "reuse"),
               job' = [job EXCEPT ![l] = MakeJob(s, sessState[s], "none", "claim", TRUE, FALSE)]
        PROVE  JobInv'
    <3> DEFINE j == MakeJob(s, sessState[s], "none", "claim", TRUE, FALSE)
    <3>1. j.target = s /\ j.kind = "none" /\ s \in Sessions
      BY DEF ActiveSessions, MakeJob
    <3> HIDE DEF j
    <3>2. job' = [job EXCEPT ![l] = j]
      BY <2>1 DEF j
    <3> QED BY <2>1, <3>1, <3>2, JobInvStep DEF Goto
  <2>2. ASSUME Goto(l, "bind"), UNCHANGED job \/ job' = [job EXCEPT ![l] = NoJob]
        PROVE  JobInv'
    BY <2>2, JobInvGoto, JobInvDrop
  <2> QED BY <1>14, <2>1, <2>2 DEF Claim
<1>15. ASSUME NEW l \in Launches, Bind(l) PROVE JobInv'
  BY <1>15, JobInvRollback, JobInvGoto DEF Bind
<1>16. ASSUME NEW l \in Launches, WriteSecrets(l) PROVE JobInv'
  BY <1>16, JobInvRollback, JobInvGoto DEF WriteSecrets
<1>17. ASSUME NEW l \in Launches, CreateNetwork(l) PROVE JobInv'
  BY <1>17, JobInvRollback, JobInvGoto DEF CreateNetwork
<1>18. ASSUME NEW l \in Launches, InstallRules(l) PROVE JobInv'
  BY <1>18, JobInvRollback, JobInvGoto DEF InstallRules
<1>19. ASSUME NEW l \in Launches, VerifyPolicy(l) PROVE JobInv'
  BY <1>19, JobInvRollback, JobInvGoto DEF VerifyPolicy
<1>20. ASSUME NEW l \in Launches, RunContainer(l) PROVE JobInv'
  BY <1>20, JobInvRollback, JobInvGoto DEF RunContainer
<1>21. ASSUME NEW l \in Launches, Probe(l) \/ Gates(l) PROVE JobInv'
  BY <1>21, JobInvRollback, JobInvGoto DEF Probe, Gates
<1>22. ASSUME NEW l \in Launches, CommitReady(l) PROVE JobInv'
  BY <1>22, JobInvRollback, JobInvGoto DEF CommitReady
<1>23. ASSUME NEW l \in Launches, PublishReady(l) PROVE JobInv'
  BY <1>23, JobInvRollback, JobInvGoto DEF PublishReady
<1>24. ASSUME NEW l \in Launches, RollbackRead(l) PROVE JobInv'
  BY <1>24 DEF RollbackRead, JobInv, ControlType, Goto, Job
<1>25. ASSUME NEW l \in Launches, RollbackSettle(l) PROVE JobInv'
  BY <1>25, JobInvAbandon DEF RollbackSettle, JobInv
<1>26. ASSUME NEW l \in Launches, FailLaunch(l) PROVE JobInv'
  BY <1>26, JobInvGoto DEF FailLaunch
<1>27. ASSUME NEW l \in Launches, Finally(l) PROVE JobInv'
  BY <1>27, JobInvGoto DEF Finally
<1>28. ASSUME NEW l \in Launches, Stop(l) PROVE JobInv'
  <2>1. ASSUME Teardown(Stopper, l, "stop", "stopping", TRUE, TRUE, "none")
        PROVE  JobInv'
    BY <2>1, JobInvTeardown
  <2>2. ASSUME Goto(Stopper, "private"),
               job' = [job EXCEPT ![Stopper] = MakeJob(l, sessState[l], "stopAgain", "none", TRUE, FALSE)]
        PROVE  JobInv'
    <3> DEFINE j == MakeJob(l, sessState[l], "stopAgain", "none", TRUE, FALSE)
    <3>1. j.kind = "stopAgain"
      BY DEF MakeJob
    <3> HIDE DEF j
    <3>2. job' = [job EXCEPT ![Stopper] = j]
      BY <2>2 DEF j
    <3> QED BY <2>2, <3>1, <3>2, JobInvStep DEF Goto
  <2> QED BY <1>28, <2>1, <2>2 DEF Stop
<1>29. ASSUME NEW l \in Launches, LateRun(l) PROVE JobInv'
  BY <1>29 DEF LateRun, JobInv
<1>30. ASSUME NEW l \in Launches, ContainerExits(l) PROVE JobInv'
  BY <1>30 DEF ContainerExits, JobInv
<1>31. ASSUME NEW l \in Launches, AcquireLease(l) PROVE JobInv'
  BY <1>31 DEF AcquireLease, JobInv
<1>32. ASSUME NEW l \in Launches, ReleaseLease(l) PROVE JobInv'
  BY <1>32 DEF ReleaseLease, JobInv
<1>33. ASSUME NEW p \in Procs, CheckAlive(p) PROVE JobInv'
  BY <1>33, JobInvNote, JobInvGoto DEF CheckAlive
<1>34. ASSUME NEW p \in Procs, Kill(p) PROVE JobInv'
  BY <1>34, JobInvNote, JobInvGoto DEF Kill
<1>35. ASSUME NEW p \in Procs, Recheck(p) PROVE JobInv'
  BY <1>35, JobInvNote, JobInvGoto DEF Recheck
<1>36. ASSUME NEW p \in Procs, RemoveNetwork(p) PROVE JobInv'
  BY <1>36, JobInvNote, JobInvGoto DEF RemoveNetwork
<1>37. ASSUME NEW p \in Procs, RemoveRules(p) PROVE JobInv'
  BY <1>37, JobInvNote, JobInvGoto DEF RemoveRules
<1>38. ASSUME NEW p \in Procs, InvalidatePrivate(p) PROVE JobInv'
  BY <1>38, JobInvRaise, JobInvGoto DEF InvalidatePrivate
<1>39. ASSUME NEW p \in Procs, ReleaseLeases(p) PROVE JobInv'
  BY <1>39 DEF ReleaseLeases, JobInv, ControlType, Goto
<1>40. ASSUME NEW p \in Procs, RetireSettle(p) PROVE JobInv'
  BY <1>40, JobInvRaise, JobInvGoto DEF RetireSettle
<1>41. ASSUME NEW p \in Procs, FailSessionLaunches(p) PROVE JobInv'
  BY <1>41, JobInvGoto, JobInvDrop DEF FailSessionLaunches
<1>42. ASSUME StopSettle PROVE JobInv'
  BY <1>42, JobInvRaise, JobInvGoto DEF StopSettle
<1>43. ASSUME ReadRows PROVE JobInv'
  BY <1>43, JobInvGoto DEF ReadRows
<1>44. ASSUME WriteRows PROVE JobInv'
  <2>1. CASE UNCHANGED <<pc, job>>
    BY <2>1 DEF JobInv
  <2> QED BY <1>44, <2>1, JobInvDrop DEF WriteRows
<1>45. ASSUME Crash PROVE JobInv'
  <2>1. NoJob.kind = "none"
    BY DEF NoJob, MakeJob
  <2> QED BY <1>45, <2>1 DEF Crash, JobInv
<1>46. ASSUME Restart PROVE JobInv'
  BY <1>46, JobInvGoto DEF Restart
<1>47. ASSUME Reconcile PROVE JobInv'
  <2>1. ASSUME NEW s, Teardown(Boot, s, "retire", "starting", TRUE, TRUE, "none")
        PROVE  JobInv'
    BY <2>1, JobInvTeardown
  <2> QED BY <1>47, <2>1, JobInvGoto DEF Reconcile
<1>48. CASE UNCHANGED vars
  BY <1>48 DEF vars, JobInv
<1> QED
  BY <1>1, <1>2, <1>3, <1>4, <1>5, <1>6, <1>7, <1>8, <1>9, <1>10, <1>11, <1>12, <1>13, <1>14, <1>15, <1>16, <1>17, <1>18, <1>19, <1>20, <1>21, <1>22, <1>23, <1>24, <1>25, <1>26, <1>27, <1>28, <1>29, <1>30, <1>31, <1>32, <1>33, <1>34, <1>35, <1>36, <1>37, <1>38, <1>39, <1>40, <1>41, <1>42, <1>43, <1>44, <1>45, <1>46, <1>47, <1>48
  DEF Next, WorkerStep, StopperStep, BootStep, TeardownStep

-----------------------------------------------------------------------------
(* Theorems *)

\* The initial state satisfies the inductive invariant.
LEMMA InitInv == Init => ControlType /\ DataType /\ JobInv /\ OneActiveSession
<1> SUFFICES ASSUME Init PROVE ControlType /\ DataType /\ JobInv /\ OneActiveSession
  OBVIOUS
<1>1. ControlType
  BY NoJobType DEF Init, ControlType, Pcs
<1>2. DataType
  BY BoundsAssumption DEF Init, DataType, SessStates, LaunchStates
<1>3. NoJob.kind = "none"
  BY DEF NoJob, MakeJob
<1>4. JobInv
  BY <1>3 DEF Init, JobInv
<1>5. OneActiveSession
  BY DEF Init, OneActiveSession, ActiveStates
<1> QED BY <1>1, <1>2, <1>4, <1>5

\* Type correctness: every reachable state of the pipeline, its tables and the
\* host's resources is well typed, for any number of launches and any bounds.
THEOREM TypeCorrect == Spec => []TypeOK
<1>1. Init => ControlType /\ DataType /\ JobInv
  BY InitInv
<1>2. ControlType /\ DataType /\ JobInv /\ [Next]_vars
        => (ControlType /\ DataType /\ JobInv)'
  BY ControlStep, DataStep, JobStep
<1>3. ControlType /\ DataType => TypeOK
  BY TypeHalves
<1> QED BY <1>1, <1>2, <1>3, PTL DEF Spec

\* No session becomes active except through a claim on a free workspace: the
\* only steps that write a session row move an active session on, or insert a
\* row where the workspace has none (claim_session, transition_session).
LEMMA SessionRowStep ==
    ASSUME ControlType, DataType, JobInv, [Next]_vars
    PROVE  \/ UNCHANGED sessState
           \/ \E s \in Sessions : \E new \in SessStates :
                 sessState[s] \in ActiveStates /\ sessState' = [sessState EXCEPT ![s] = new]
           \/ \E s \in Sessions :
                 ActiveSessions(Ws[s]) = {} /\ sessState' = [sessState EXCEPT ![s] = "starting"]
<1> DEFINE Unchanged == UNCHANGED sessState
           Moved == \E s \in Sessions : \E new \in SessStates :
                 sessState[s] \in ActiveStates /\ sessState' = [sessState EXCEPT ![s] = new]
           Inserted == \E s \in Sessions :
                 ActiveSessions(Ws[s]) = {} /\ sessState' = [sessState EXCEPT ![s] = "starting"]
<1> USE ProcsAssumption
<1>1. ASSUME NEW l \in Launches, Claim(l) PROVE Unchanged \/ Inserted
  BY <1>1 DEF Claim, Sessions
<1>2. ASSUME NEW l \in Launches, CommitReady(l) PROVE Unchanged \/ Moved
  BY <1>2 DEF CommitReady, TransitionSession, Sessions, SessStates, ActiveStates
<1>3. ASSUME NEW l \in Launches, RollbackSettle(l) PROVE Unchanged \/ Moved
  BY <1>3 DEF RollbackSettle, TransitionSession, Sessions, SessStates, ActiveStates, TerminalStates
<1>4. ASSUME NEW p \in Procs, RetireSettle(p) PROVE Unchanged \/ Moved
  <2>1. job[p].seen \in ActiveStates
    BY <1>4 DEF RetireSettle, JobInv, ActiveStates
  <2>2. sessState \in [Sessions -> SessStates]
    BY DEF DataType
  <2>3. job[p].target \in Sessions \cup {None}
    BY JobFields
  <2>4. ASSUME NEW new \in SessStates, TransitionSession(job[p].target, {job[p].seen}, new)
        PROVE  Unchanged \/ Moved
    <3>1. CASE job[p].target \in Sessions
      BY <3>1, <2>1, <2>4 DEF TransitionSession
    <3>2. CASE job[p].target \notin Sessions
      BY <3>2, <2>2, <2>4 DEF TransitionSession
    <3> QED BY <3>1, <3>2
  <2> HIDE DEF Unchanged, Moved
  <2>5. UNCHANGED sessState => Unchanged
    BY DEF Unchanged
  <2> QED BY <1>4, <2>4, <2>5 DEF RetireSettle, SessStates, ActiveStates, TerminalStates
<1>5. ASSUME NEW l \in Launches, Stop(l) PROVE Unchanged \/ Moved
  BY <1>5 DEF Stop, TransitionSession, Sessions, SessStates, ActiveStates
<1>6. ASSUME StopSettle PROVE Unchanged \/ Moved
  <2>1. sessState \in [Sessions -> SessStates]
    BY DEF DataType
  <2>2. ASSUME TransitionSession(job[Stopper].target, {"stopping"}, "stopped")
        PROVE  Unchanged \/ Moved
    BY <2>1, <2>2 DEF TransitionSession, SessStates, ActiveStates, TerminalStates
  <2> QED BY <1>6, <2>2 DEF StopSettle
<1>7. CASE UNCHANGED vars
  BY <1>7 DEF vars, db
<1>8. ASSUME NEW l \in Launches,
             \/ Submit(l) \/ Schedule(l) \/ Begin(l) \/ Prepare(l) \/ Lookup(l)
             \/ ReuseRefused(l) \/ ReuseReady(l) \/ Attest(l) \/ PublishReuse(l)
             \/ ReuseStarting(l) \/ FollowDone(l) \/ FollowTimeout(l) \/ Build(l)
      PROVE  Unchanged
  BY <1>8 DEF Submit, Schedule, Begin, Prepare, Lookup, ReuseRefused, ReuseReady, Attest,
              PublishReuse, ReuseStarting, FollowDone, FollowTimeout, Build, db
<1>9. ASSUME NEW l \in Launches,
             \/ Bind(l) \/ WriteSecrets(l) \/ CreateNetwork(l) \/ InstallRules(l)
             \/ VerifyPolicy(l) \/ RunContainer(l) \/ Probe(l) \/ Gates(l) \/ PublishReady(l)
             \/ RollbackRead(l) \/ FailLaunch(l) \/ Finally(l)
      PROVE  Unchanged
  BY <1>9 DEF Bind, WriteSecrets, CreateNetwork, InstallRules, VerifyPolicy, RunContainer,
              Probe, Gates, PublishReady, RollbackRead, FailLaunch, Finally, db
<1>10. ASSUME NEW p \in Procs,
              \/ CheckAlive(p) \/ Kill(p) \/ Recheck(p) \/ RemoveNetwork(p) \/ RemoveRules(p)
              \/ InvalidatePrivate(p) \/ ReleaseLeases(p) \/ FailSessionLaunches(p)
       PROVE  Unchanged
  BY <1>10 DEF CheckAlive, Kill, Recheck, RemoveNetwork, RemoveRules, InvalidatePrivate,
               ReleaseLeases, FailSessionLaunches, db
<1>11. ASSUME NEW s \in Launches,
              LateRun(s) \/ ContainerExits(s) \/ AcquireLease(s) \/ ReleaseLease(s)
       PROVE  Unchanged
  BY <1>11 DEF LateRun, ContainerExits, AcquireLease, ReleaseLease, db
<1>12. ASSUME ReadRows \/ WriteRows \/ Restart \/ Reconcile \/ Crash
       PROVE  Unchanged
  BY <1>12 DEF ReadRows, WriteRows, Restart, Reconcile, Crash, db
<1> HIDE DEF Unchanged, Moved, Inserted
<1>13. Unchanged \/ Moved \/ Inserted
  <2>1. CASE UNCHANGED vars
    BY <2>1 DEF vars, db, Unchanged
  <2>2. CASE Next
    BY <2>2, <1>1, <1>2, <1>3, <1>4, <1>5, <1>6, <1>8, <1>9, <1>10, <1>11, <1>12
    DEF Next, WorkerStep, StopperStep, BootStep, TeardownStep, Procs
  <2> QED BY <2>1, <2>2
<1> QED BY <1>13 DEF Unchanged, Moved, Inserted

\* A workspace has at most one active session, for any number of launches,
\* workspaces, stops, faults and crashes.
THEOREM ActiveSessionUnique == Spec => []OneActiveSession
<1>1. Init => ControlType /\ DataType /\ JobInv /\ OneActiveSession
  BY InitInv
<1>2. ASSUME ControlType, DataType, JobInv, OneActiveSession, [Next]_vars
      PROVE  OneActiveSession'
  <2> USE DEF OneActiveSession
  <2>1. CASE UNCHANGED sessState
    BY <2>1, <1>2
  <2>2. ASSUME NEW s \in Sessions, NEW new \in SessStates, sessState[s] \in ActiveStates,
               sessState' = [sessState EXCEPT ![s] = new]
        PROVE  OneActiveSession'
    BY <2>2, <1>2 DEF DataType
  <2>3. ASSUME NEW s \in Sessions, ActiveSessions(Ws[s]) = {},
               sessState' = [sessState EXCEPT ![s] = "starting"]
        PROVE  OneActiveSession'
    BY <2>3, <1>2 DEF DataType, ActiveSessions
  <2> QED BY <1>2, <2>1, <2>2, <2>3, SessionRowStep
<1>3. ControlType /\ DataType /\ JobInv /\ [Next]_vars
        => (ControlType /\ DataType /\ JobInv)'
  BY ControlStep, DataStep, JobStep
<1> QED BY <1>1, <1>2, <1>3, PTL DEF Spec

-----------------------------------------------------------------------------
(***************************************************************************)
(* The invariant behind the other properties.  It is stated per process    *)
(* and per session, and its proof is by rely and guarantee: StepOf(p) says *)
(* what a step of process p may do to what the processes share, every      *)
(* action of p satisfies it, and it keeps what the others rely on.         *)
(***************************************************************************)

\* Where a worker has not yet claimed a session, and where it is starting one.
FreshPcs == {"idle", "queued", "prepare", "lookup", "reuse", "attest", "publishReuse",
             "follow", "build", "claim"}
StartPcs == {"bind", "secrets", "create", "rules", "verify", "run", "probe", "gates", "commit"}
Ended    == {"stopping", "stopped", "failed"}

\* A row once read as `seen' can be in this state now: rows only move forward.
Reached(seen, state) ==
    /\ state # "absent"
    /\ seen \notin {"absent", "starting"} => state # "starting"
    /\ seen \in Ended => state # "ready"

\* The exception that StartingHasOwner names.
Excused(s) == faults > 0 /\ (s \in secrets \/ Retiring(s))

\* What a worker's label says about its own session and its owner table entry.
WorkerInv(l) ==
    /\ launchState[l] = "absent" => pc[l] = "idle"
    /\ pc[l] \in FreshPcs \/ job[l].kind = "retire" => sessState[l] = "absent"
    /\ pc[l] \in StartPcs =>
          l \in owners /\ l \notin verified /\ sessState[l] \in {"starting", "stopping", "stopped"}
    /\ pc[l] = "publish" => l \in owners /\ sessState[l] \in {"ready"} \cup Ended
    /\ job[l].kind = "rollback" => l \in owners
    /\ pc[l] = "fail" => sessState[l] # "starting"
    /\ pc[l] \in {"finally", "done"} => sessState[l] # "starting" \/ Excused(l) \/ ~Up

\* What a process's job says about the process and about the row of its target.
TargetInv(p) ==
    /\ \/ job[p].kind = "none"
       \/ pc[p] \in TeardownPcs
       \/ p = Stopper /\ pc[p] \in {"readRows", "writeRows"}
    /\ pc[p] \in TeardownPcs => job[p].kind # "none"
    /\ pc[p] \in {"readRows", "writeRows"} => p = Stopper
    /\ pc[p] = "next" => p = Boot
    /\ job[p].kind = "rollback" => p \in Launches /\ job[p].target = p
    /\ job[p].kind \in {"stop", "stopAgain"} => p = Stopper /\ job[p].seen \in Ended
    /\ job[p].kind = "retire" => p # Stopper /\ job[p].plan
    /\ job[p].kind = "retire" /\ job[p].seen = "starting" => job[p].target \notin owners
    /\ pc[p] \in {"attest", "publishReuse"} => job[p].kind = "none" /\ job[p].seen = "ready"
    /\ job[p].kind # "none" \/ pc[p] \in {"reuse", "follow", "attest", "publishReuse"}
          => job[p].target \in Sessions
    /\ job[p].target \in Sessions =>
          /\ Reached(job[p].seen, sessState[job[p].target])
          /\ job[p].seen = "ready" => job[p].target \in verified
    /\ pc[p] = "failLaunches" => job[p].kind = "retire" /\ sessState[job[p].target] # "starting"
    /\ pc[p] = "settleCas" => job[p].seen # "absent"

\* What a teardown has achieved by now: the rules go only after the network, and
\* a rollback or a retirement without failures has removed what it has passed.
CleanInv(p) ==
    LET s == job[p].target IN
    /\ pc[p] = "rulesrm" => s \notin net \/ sessState[s] \notin {"starting", "ready"}
    /\ job[p].kind = "rollback" /\ ~job[p].plan => s \notin net /\ s \notin rules
    /\ job[p].kind \in {"rollback", "retire"} /\ ~job[p].failed =>
          /\ pc[p] \in {"rulesrm", "private", "release", "settle", "settleCas"} => s \notin net
          /\ pc[p] \in {"private", "release", "settle", "settleCas"} => s \notin rules
          /\ pc[p] \in {"release", "settle", "settleCas"} => s \notin secrets

\* What a session's row and its worker's label say about its resources.
HostInv(s) ==
    /\ s \in running => s \in net
    /\ sessState[s] = "absent" =>
          s \notin verified /\ s \notin late /\ s \notin net /\ s \notin rules
          /\ s \notin secrets /\ s \notin owners
    /\ sessState[s] = "ready" => s \in verified
    /\ sessState[s] = "failed" => s \notin net /\ s \notin rules /\ s \notin secrets
    /\ pc[s] \in {"bind", "secrets"} => s \notin net /\ s \notin rules
    /\ pc[s] \in {"bind", "secrets", "create", "rules", "verify", "run"}
          => s \notin running /\ s \notin late
    /\ (s \in running \/ s \in late \/ pc[s] = "run")
          /\ sessState[s] \in {"starting", "ready"} /\ s \in net => s \in rules

\* While the server is down or starting up no worker and no stop is at work, and
\* the startup handler knows every session that is still to be retired.
BootInv ==
    ~Up =>
      /\ owners = {} /\ pc[Stopper] = "idle"
      /\ \A l \in Launches : pc[l] \in {"idle", "done"}
      /\ \A s \in todo : sessState[s] # "absent"
      /\ pc[Boot] # "done" =>
            \A s \in Sessions : sessState[s] = "starting" => s \in todo \/ Retiring(s)

ProcInv(p) ==
    /\ TargetInv(p) /\ CleanInv(p)
    /\ p \in Launches => WorkerInv(p) /\ HostInv(p)

SessionInv ==
    /\ ControlType /\ DataType /\ JobInv
    /\ \A p \in Procs : ProcInv(p)
    /\ BootInv

-----------------------------------------------------------------------------
(* The guarantee *)

\* No other process's control state is touched.
Others(p) == \A q \in Procs : q # p => pc'[q] = pc[q] /\ job'[q] = job[q]

\* Rows move forward: a worker inserts its own and makes it ready, anyone may
\* move an active one to stopping or stopped, and only a clean teardown fails it.
RowStep(p) ==
    /\ \A s \in Sessions :
          \/ sessState'[s] = sessState[s]
          \/ s = p /\ sessState[s] = "absent" /\ sessState'[s] = "starting"
          \/ s = p /\ sessState[s] = "starting" /\ sessState'[s] = "ready"
          \/ sessState[s] \in ActiveStates /\ sessState'[s] \in {"stopping", "stopped"}
          \/ /\ sessState[s] \in ActiveStates /\ sessState'[s] = "failed"
             /\ pc[s] \notin StartPcs
             /\ s \notin net' /\ s \notin rules' /\ s \notin secrets'
    /\ \A s \in Sessions :
          /\ s \in verified => s \in verified'
          /\ s \in owners' => s \in owners \/ sessState[s] = "absent"
          /\ s # p => (s \in verified' <=> s \in verified) /\ (s \in owners' <=> s \in owners)
          /\ launchState'[s] = "absent" => launchState[s] = "absent"

\* Resources appear only where a worker starts its own session; the network of a
\* running container stays, and rules go only where no active session needs them.
HostStep(p) ==
    \A s \in Sessions :
        /\ s # p \/ pc[p] \notin StartPcs =>
              /\ s \in net' => s \in net
              /\ s \in rules' => s \in rules
              /\ s \in secrets' => s \in secrets
              /\ s \in running' => s \in running
              /\ s \in late' => s \in late
        /\ s # p => (s \in running' => s \in net')
        /\ s # p => (s \in rules /\ s \notin rules' =>
                        s \notin net' \/ sessState'[s] \notin {"starting", "ready"})

\* A starting session that was excused still is, and when the server begins to
\* serve there is no starting session.
ExcuseStep(p) ==
    /\ \A s \in Sessions : sessState'[s] = "starting" /\ s # p /\ Excused(s) => Excused(s)'
    /\ Up => Up'
    /\ Up' /\ ~Up => \A s \in Sessions : sessState'[s] # "starting"

StepOf(p) == Others(p) /\ RowStep(p) /\ HostStep(p) /\ ExcuseStep(p)

\* A session that another process rolls back or retires is not being started.
LEMMA NotStarting ==
    ASSUME SessionInv, NEW p \in Procs, job[p].kind \in {"rollback", "retire"}
    PROVE  job[p].target \in Sessions /\ pc[job[p].target] \notin StartPcs
<1> DEFINE s == job[p].target
<1>1. TargetInv(p) /\ JobInv
  BY DEF SessionInv, ProcInv
<1>2. s \in Sessions /\ s \in Procs
  BY <1>1 DEF TargetInv, Sessions, Procs
<1>3. WorkerInv(s)
  BY <1>2 DEF SessionInv, ProcInv, Sessions
<1>4. CASE job[p].kind = "rollback"
  BY <1>1, <1>4 DEF TargetInv, StartPcs, TeardownPcs
<1>5. CASE job[p].kind = "retire"
  BY <1>1, <1>2, <1>3, <1>5 DEF TargetInv, JobInv, WorkerInv
<1> QED BY <1>2, <1>4, <1>5

\* What the other workers rely on survives a step of p.
LEMMA WorkerKept ==
    ASSUME SessionInv, NEW p \in Procs, StepOf(p), NEW l \in Launches, l # p
    PROVE  WorkerInv(l)'
<1>1. WorkerInv(l) /\ HostInv(l)
  BY DEF SessionInv, ProcInv, Procs
<1>2. pc'[l] = pc[l] /\ job'[l] = job[l]
  BY DEF StepOf, Others, Procs
<1>3. /\ l \in verified' <=> l \in verified
      /\ l \in owners' <=> l \in owners
      /\ launchState'[l] = "absent" => launchState[l] = "absent"
  BY DEF StepOf, RowStep, Sessions
<1>4. \/ sessState'[l] = sessState[l]
      \/ sessState[l] \in ActiveStates /\ sessState'[l] \in {"stopping", "stopped"}
      \/ sessState[l] \in ActiveStates /\ sessState'[l] = "failed" /\ pc[l] \notin StartPcs
  BY DEF StepOf, RowStep, Sessions
<1>5. pc[l] \in {"finally", "done"} =>
         sessState'[l] # "starting" \/ Excused(l)' \/ ~Up'
  BY <1>1, <1>4 DEF StepOf, ExcuseStep, Sessions, WorkerInv, ActiveStates
<1> QED BY <1>1, <1>2, <1>3, <1>4, <1>5 DEF WorkerInv, ActiveStates, Ended

\* What the other processes rely on about their targets survives a step of p.
LEMMA TargetKept ==
    ASSUME SessionInv, NEW p \in Procs, StepOf(p), NEW q \in Procs, q # p
    PROVE  TargetInv(q)'
<1> DEFINE s == job[q].target
<1>1. TargetInv(q) /\ JobInv
  BY DEF SessionInv, ProcInv
<1>2. pc'[q] = pc[q] /\ job'[q] = job[q]
  BY DEF StepOf, Others
<1>3. ASSUME s \in Sessions
      PROVE  /\ Reached(job[q].seen, sessState'[s])
             /\ sessState[s] # "starting" => sessState'[s] # "starting"
             /\ s \in verified => s \in verified'
             /\ s \notin owners => s \notin owners'
  <2>1. Reached(job[q].seen, sessState[s])
    BY <1>1, <1>3 DEF TargetInv
  <2>2. s \in verified => s \in verified'
    BY <1>3 DEF StepOf, RowStep
  <2>3. \/ sessState'[s] = sessState[s]
        \/ sessState[s] = "starting" /\ sessState'[s] = "ready"
        \/ sessState'[s] \in Ended
    BY <1>3, <2>1 DEF StepOf, RowStep, Reached, Ended
  <2>4. s \notin owners => s \notin owners'
    BY <1>3, <2>1 DEF StepOf, RowStep, Reached
  <2> QED BY <2>1, <2>2, <2>3, <2>4 DEF Reached, Ended
<1> QED BY <1>1, <1>2, <1>3 DEF TargetInv

\* What a teardown has removed is not put back by a step of another process.
LEMMA CleanKept ==
    ASSUME SessionInv, NEW p \in Procs, StepOf(p), NEW q \in Procs, q # p
    PROVE  CleanInv(q)'
<1> DEFINE s == job[q].target
<1>1. TargetInv(q) /\ CleanInv(q)
  BY DEF SessionInv, ProcInv
<1>2. pc'[q] = pc[q] /\ job'[q] = job[q]
  BY DEF StepOf, Others
<1>3. CASE job[q].kind \in {"rollback", "retire"}
  <2>1. s \in Sessions /\ pc[s] \notin StartPcs
    BY <1>3, NotStarting
  <2>2. /\ s \in net' => s \in net
        /\ s \in rules' => s \in rules
        /\ s \in secrets' => s \in secrets
    BY <2>1 DEF StepOf, HostStep
  <2>3. sessState[s] \notin {"starting", "ready"} => sessState'[s] \notin {"starting", "ready"}
    <3>1. sessState[s] # "absent"
      BY <1>1, <2>1 DEF TargetInv, Reached
    <3> QED BY <2>1, <3>1 DEF StepOf, RowStep
  <2> QED BY <1>1, <1>2, <2>2, <2>3 DEF CleanInv
<1>4. CASE job[q].kind \notin {"rollback", "retire"}
  <2>1. pc[q] = "rulesrm" => s \in Sessions /\ job[q].seen \in Ended
    <3>1. ControlType
      BY DEF SessionInv
    <3> QED BY <1>1, <1>4, <3>1, JobFields DEF TargetInv, TeardownPcs, Kinds
  <2>2. pc[q] = "rulesrm" => sessState'[s] \notin {"starting", "ready"}
    <3>1. TargetInv(q)'
      BY TargetKept
    <3> QED BY <3>1, <2>1, <1>2 DEF TargetInv, Reached, Ended
  <2> QED BY <1>2, <1>4, <2>2 DEF CleanInv
<1> QED BY <1>3, <1>4

\* What is known of the other sessions' resources survives a step of p.
LEMMA HostKept ==
    ASSUME SessionInv, NEW p \in Procs, StepOf(p), NEW l \in Launches, l # p
    PROVE  HostInv(l)'
<1>1. HostInv(l)
  BY DEF SessionInv, ProcInv, Procs
<1>2. pc'[l] = pc[l]
  BY DEF StepOf, Others, Procs
<1>3. /\ l \in net' => l \in net
      /\ l \in rules' => l \in rules
      /\ l \in secrets' => l \in secrets
      /\ l \in running' => l \in running
      /\ l \in late' => l \in late
  BY DEF StepOf, HostStep, Sessions
<1>4. /\ l \in running' => l \in net'
      /\ l \in rules /\ l \notin rules' =>
            l \notin net' \/ sessState'[l] \notin {"starting", "ready"}
  BY DEF StepOf, HostStep, Sessions
<1>5. /\ l \in verified' <=> l \in verified
      /\ l \in owners' <=> l \in owners
  BY DEF StepOf, RowStep, Sessions
<1>6. \/ sessState'[l] = sessState[l]
      \/ sessState[l] \in ActiveStates /\ sessState'[l] \in {"stopping", "stopped"}
      \/ /\ sessState[l] \in ActiveStates /\ sessState'[l] = "failed"
         /\ l \notin net' /\ l \notin rules' /\ l \notin secrets'
  BY DEF StepOf, RowStep, Sessions
<1> QED BY <1>1, <1>2, <1>3, <1>4, <1>5, <1>6 DEF HostInv, ActiveStates

-----------------------------------------------------------------------------
(* The steps of a worker *)

\* What the invariant says of one worker.
LEMMA OfWorker ==
    ASSUME SessionInv, NEW l \in Launches
    PROVE  /\ l \in Procs /\ l \in Sessions /\ l # Stopper /\ l # Boot
           /\ ControlType /\ DataType /\ JobInv
           /\ TargetInv(l) /\ CleanInv(l) /\ WorkerInv(l) /\ HostInv(l)
           /\ pc[l] \in Pcs /\ job[l] \in Job /\ job[l].kind \in Kinds
           /\ pc[l] \notin TeardownPcs => job[l].kind = "none"
<1>1. l \in Procs /\ l \in Sessions /\ l # Stopper /\ l # Boot
  BY ProcsAssumption DEF Procs, Sessions
<1>2. ControlType /\ DataType /\ JobInv /\ ProcInv(l)
  BY <1>1 DEF SessionInv
<1>3. pc[l] \in Pcs /\ job[l] \in Job /\ job[l].kind \in Kinds
  BY <1>1, <1>2, JobFields DEF ControlType
<1> QED BY <1>1, <1>2, <1>3 DEF ProcInv, TargetInv

\* A worker that leaves rows, owners and host alone, and retires nothing.
LEMMA Quiet ==
    ASSUME SessionInv, NEW l \in Launches, NEW label, NEW j,
           pc' = [pc EXCEPT ![l] = label], job' = [job EXCEPT ![l] = j],
           job[l].kind # "retire",
           UNCHANGED <<sessState, verified, owners, host>>,
           faults' \in {faults, faults + 1},
           \A k \in Launches : launchState'[k] = "absent" => launchState[k] = "absent"
    PROVE  /\ StepOf(l)
           /\ pc'[l] = label /\ job'[l] = j /\ Up' = Up
<1> USE OfWorker
<1>1. /\ Others(l)
      /\ pc'[l] = label /\ job'[l] = j /\ pc'[Boot] = pc[Boot]
  BY DEF Others, ControlType, Procs
<1>2. RowStep(l)
  BY DEF RowStep, Sessions
<1>3. HostStep(l)
  <2>1. \A s \in Sessions : s # l => HostInv(s)
    BY DEF Sessions
  <2> QED BY <2>1 DEF HostStep, HostInv, host
<1>4. ASSUME NEW s \in Sessions, Excused(s) PROVE Excused(s)'
  <2>1. faults > 0 /\ faults' > 0
    BY <1>4 DEF Excused, DataType
  <2>2. Retiring(s) => Retiring(s)'
    BY <1>1 DEF Retiring, Others
  <2> QED BY <1>4, <2>1, <2>2 DEF Excused, host
<1>5. ExcuseStep(l)
  BY <1>1, <1>4 DEF ExcuseStep, Up
<1> QED BY <1>1, <1>2, <1>3, <1>5 DEF StepOf, Up

\* A worker without a session moves on or gives up.
LEMMA FreshStep ==
    ASSUME SessionInv, NEW l \in Launches, NEW label, NEW j,
           pc[l] \in FreshPcs, label \in FreshPcs \cup {"fail", "done"},
           pc' = [pc EXCEPT ![l] = label], job' = [job EXCEPT ![l] = j],
           UNCHANGED <<sessState, verified, owners, host>>,
           faults' \in {faults, faults + 1},
           label # "idle" => launchState'[l] # "absent",
           \A k \in Launches : launchState'[k] = "absent" => launchState[k] = "absent",
           j.kind = "none",
           label \in {"attest", "publishReuse"} => j.seen = "ready",
           label \in {"reuse", "follow", "attest", "publishReuse"} => j.target \in Sessions,
           j.target \in Sessions =>
              /\ Reached(j.seen, sessState[j.target])
              /\ j.seen = "ready" => j.target \in verified
    PROVE  StepOf(l) /\ ProcInv(l)'
<1> USE OfWorker
<1>1. job[l].kind = "none"
  BY DEF FreshPcs, TeardownPcs
<1>2. StepOf(l) /\ pc'[l] = label /\ job'[l] = j
  BY <1>1, Quiet
<1>3. sessState[l] = "absent"
  BY DEF WorkerInv
<1>4. WorkerInv(l)'
  BY <1>2, <1>3 DEF WorkerInv, FreshPcs, StartPcs
<1>5. TargetInv(l)'
  BY <1>2 DEF TargetInv, FreshPcs, TeardownPcs
<1>6. CleanInv(l)'
  BY <1>2 DEF CleanInv, FreshPcs
<1>7. HostInv(l)'
  BY <1>2, <1>3 DEF HostInv, FreshPcs, host
<1> QED BY <1>2, <1>4, <1>5, <1>6, <1>7 DEF ProcInv

\* A worker without a session gives up.
LEMMA FreshAbandon ==
    ASSUME SessionInv, NEW l \in Launches, pc[l] \in FreshPcs, pc[l] # "idle", Abandon(l),
           UNCHANGED <<db, host, owners>>, faults' \in {faults, faults + 1}
    PROVE  StepOf(l) /\ ProcInv(l)'
<1> USE OfWorker
<1>1. NoJob.kind = "none" /\ NoJob.target \notin Sessions
  BY ProcsAssumption DEF NoJob, MakeJob, Sessions
<1>2. launchState[l] # "absent"
  BY DEF WorkerInv
<1> QED BY <1>1, <1>2, FreshStep DEF Abandon, Goto, db

\* The failure of an operation is counted.
LEMMA FaultCount ==
    ASSUME UNCHANGED budget \/ \E site : Fails(site)
    PROVE  faults' \in {faults, faults + 1}
BY DEF Fails, budget

\* A worker reads the row of an active session.
LEMMA FreshRead ==
    ASSUME SessionInv, NEW l \in Launches, pc[l] \in FreshPcs, pc[l] # "idle",
           NEW s \in ActiveSessions(Ws[l]), NEW origin, Goto(l, "reuse"),
           job' = [job EXCEPT ![l] = MakeJob(s, sessState[s], "none", origin, TRUE, FALSE)],
           UNCHANGED <<db, host, owners, budget>>
    PROVE  StepOf(l) /\ ProcInv(l)'
<1> USE OfWorker
<1> DEFINE j == MakeJob(s, sessState[s], "none", origin, TRUE, FALSE)
<1>1. s \in Sessions /\ sessState[s] \in ActiveStates
  BY DEF ActiveSessions
<1>2. HostInv(s)
  BY <1>1 DEF Sessions
<1>3. j.kind = "none" /\ j.target = s /\ j.seen = sessState[s]
  BY DEF MakeJob
<1>4. Reached(sessState[s], sessState[s]) /\ (sessState[s] = "ready" => s \in verified)
  BY <1>1, <1>2 DEF Reached, ActiveStates, Ended, HostInv
<1>5. launchState[l] # "absent"
  BY DEF WorkerInv
<1> HIDE DEF j
<1>6. job' = [job EXCEPT ![l] = j] /\ pc' = [pc EXCEPT ![l] = "reuse"]
  BY DEF j, Goto
<1>7. /\ "reuse" \in FreshPcs /\ faults' \in {faults, faults + 1}
      /\ UNCHANGED <<sessState, verified, owners, host, launchState>>
  BY DEF FreshPcs, budget, db
<1> QED BY <1>1, <1>3, <1>4, <1>5, <1>6, <1>7, FreshStep

\* A worker retires the session it has found.
LEMMA FreshRetire ==
    ASSUME SessionInv, NEW l \in Launches, pc[l] \in {"reuse", "attest"},
           NEW seen \in {"starting", "ready"}, job[l].seen = seen,
           seen = "starting" => job[l].target \notin owners,
           NEW stopIf \in BOOLEAN,
           Teardown(l, job[l].target, "retire", seen, stopIf, TRUE, job[l].origin),
           UNCHANGED <<db, host, owners>>, faults' \in {faults, faults + 1}
    PROVE  StepOf(l) /\ ProcInv(l)'
<1> USE OfWorker
<1> DEFINE j == MakeJob(job[l].target, seen, "retire", job[l].origin, stopIf, TRUE)
<1>1. /\ j.kind = "retire" /\ j.target = job[l].target /\ j.seen = seen /\ j.plan
      /\ j.failed = FALSE
  BY DEF MakeJob
<1> HIDE DEF j
<1>2. pc' = [pc EXCEPT ![l] = "alive"] /\ job' = [job EXCEPT ![l] = j]
  BY DEF Teardown, Goto, j
<1>3. job[l].kind = "none" /\ job[l].target \in Sessions /\ sessState[l] = "absent"
  BY DEF TeardownPcs, TargetInv, WorkerInv, FreshPcs
<1>4. StepOf(l) /\ pc'[l] = "alive" /\ job'[l] = j
  BY <1>2, <1>3, Quiet DEF db
<1>5. WorkerInv(l)'
  BY <1>1, <1>3, <1>4 DEF WorkerInv, FreshPcs, StartPcs, db
<1>6. TargetInv(l)'
  BY <1>1, <1>3, <1>4 DEF TargetInv, TeardownPcs, db
<1>7. CleanInv(l)'
  BY <1>1, <1>4 DEF CleanInv
<1>8. HostInv(l)'
  BY <1>3, <1>4 DEF HostInv, db, host
<1> QED BY <1>4, <1>5, <1>6, <1>7, <1>8 DEF ProcInv

\* Every step of a worker that has no session yet, and of its request handler.
LEMMA FreshSteps ==
    ASSUME SessionInv, NEW l \in Launches,
           \/ Submit(l) \/ Schedule(l) \/ Begin(l) \/ Prepare(l) \/ Lookup(l) \/ Build(l)
           \/ ReuseRefused(l) \/ ReuseReady(l) \/ Attest(l) \/ PublishReuse(l)
           \/ ReuseStarting(l) \/ FollowDone(l) \/ FollowTimeout(l)
    PROVE  StepOf(l) /\ ProcInv(l)' /\ Up
<1> USE OfWorker
<1>a. job = [job EXCEPT ![l] = job[l]] /\ pc = [pc EXCEPT ![l] = pc[l]]
  BY DEF ControlType
<1>b. job[l].target \in Sessions =>
         /\ Reached(job[l].seen, sessState[job[l].target])
         /\ job[l].seen = "ready" => job[l].target \in verified
  BY DEF TargetInv
<1>c. pc[l] \in FreshPcs /\ pc[l] # "idle" => launchState[l] # "absent"
  BY DEF WorkerInv
<1>d. pc[l] \in FreshPcs => job[l].kind = "none"
  BY DEF FreshPcs, TeardownPcs
<1>up. Up
  BY DEF SessionInv, BootInv, Submit, Schedule, Begin, Prepare, Lookup, Build, ReuseRefused,
         ReuseReady, Attest, PublishReuse, ReuseStarting, FollowDone, FollowTimeout
<1> SUFFICES StepOf(l) /\ ProcInv(l)'
  BY <1>up
\* a step that keeps the job
<1>e. ASSUME NEW label \in {"queued", "prepare", "lookup", "build", "claim"}, Goto(l, label),
             UNCHANGED <<sessState, verified, owners, host, job>>, pc[l] \in FreshPcs,
             faults' \in {faults, faults + 1}, launchState'[l] # "absent",
             \A k \in Launches : launchState'[k] = "absent" => launchState[k] = "absent"
      PROVE  StepOf(l) /\ ProcInv(l)'
  <2>1. label \in FreshPcs /\ job' = [job EXCEPT ![l] = job[l]] /\ pc' = [pc EXCEPT ![l] = label]
    BY <1>e, <1>a DEF FreshPcs, Goto
  <2> QED BY <1>e, <2>1, <1>b, <1>d, FreshStep
<1>1. CASE Submit(l)
  <2>1. /\ pc[l] = "idle" /\ "idle" \in FreshPcs
        /\ pc' = [pc EXCEPT ![l] = "idle"] /\ job' = [job EXCEPT ![l] = job[l]]
        /\ UNCHANGED <<sessState, verified, owners, host>> /\ faults' \in {faults, faults + 1}
        /\ \A k \in Launches : launchState'[k] = "absent" => launchState[k] = "absent"
    BY <1>1, <1>a DEF Submit, FreshPcs, budget, DataType
  <2> QED BY <2>1, <1>b, <1>d, FreshStep
<1>2. CASE Schedule(l)
  BY <1>2, <1>e DEF Schedule, FreshPcs, db, budget
<1>3. CASE Begin(l)
  <2>1. /\ launchState'[l] # "absent"
        /\ \A k \in Launches : launchState'[k] = "absent" => launchState[k] = "absent"
    BY <1>3 DEF Begin, UpdateLaunch, DataType
  <2> QED BY <1>3, <2>1, <1>e DEF Begin, FreshPcs, budget
<1>4. CASE Prepare(l)
  <2>1. faults' \in {faults, faults + 1}
    BY <1>4, FaultCount DEF Prepare
  <2> QED BY <1>4, <2>1, <1>c, <1>e, FreshAbandon DEF Prepare, FreshPcs, db
<1>5. CASE Lookup(l)
  <2>1. ASSUME Goto(l, "build"), UNCHANGED job
        PROVE  StepOf(l) /\ ProcInv(l)'
    BY <1>5, <2>1, <1>c, <1>e DEF Lookup, FreshPcs, db, budget
  <2>2. ASSUME NEW s \in ActiveSessions(Ws[l]), Goto(l, "reuse"),
               job' = [job EXCEPT ![l] = MakeJob(s, sessState[s], "none", "lookup", TRUE, FALSE)]
        PROVE  StepOf(l) /\ ProcInv(l)'
    BY <1>5, <2>2, FreshRead DEF Lookup, FreshPcs
  <2> QED BY <1>5, <2>1, <2>2 DEF Lookup
<1>6. CASE Build(l)
  <2>1. faults' \in {faults, faults + 1}
    BY <1>6, FaultCount DEF Build
  <2> QED BY <1>6, <2>1, <1>c, <1>e, FreshAbandon DEF Build, FreshPcs, db
<1>7. CASE ReuseRefused(l) \/ FollowTimeout(l)
  BY <1>7, FreshAbandon DEF ReuseRefused, FollowTimeout, FreshPcs, budget
<1>8. CASE ReuseReady(l)
  <2>1. faults' \in {faults, faults + 1}
    BY <1>8, FaultCount DEF ReuseReady
  <2>2. ASSUME Goto(l, "attest"), UNCHANGED job
        PROVE  StepOf(l) /\ ProcInv(l)'
    <3>1. /\ pc[l] \in FreshPcs /\ pc[l] = "reuse" /\ job[l].seen = "ready" /\ "attest" \in FreshPcs
          /\ pc' = [pc EXCEPT ![l] = "attest"] /\ job' = [job EXCEPT ![l] = job[l]]
          /\ UNCHANGED <<sessState, verified, owners, host, launchState>>
      BY <1>8, <2>2, <1>a DEF ReuseReady, Goto, FreshPcs, db
    <3>2. job[l].target \in Sessions
      BY <3>1 DEF TargetInv
    <3> QED BY <2>1, <3>1, <3>2, <1>b, <1>c, <1>d, FreshStep
  <2>3. ASSUME Teardown(l, job[l].target, "retire", "ready", FALSE, TRUE, job[l].origin)
        PROVE  StepOf(l) /\ ProcInv(l)'
    BY <1>8, <2>1, <2>3, FreshRetire DEF ReuseReady
  <2>4. ASSUME Abandon(l) PROVE StepOf(l) /\ ProcInv(l)'
    BY <1>8, <2>1, <2>4, FreshAbandon DEF ReuseReady, FreshPcs
  <2> QED BY <1>8, <2>2, <2>3, <2>4 DEF ReuseReady
<1>9. CASE Attest(l)
  <2>1. faults' \in {faults, faults + 1}
    BY <1>9, FaultCount DEF Attest
  <2>2. pc[l] = "attest" /\ job[l].seen = "ready" /\ job[l].target \in Sessions
    BY <1>9 DEF Attest, TargetInv
  <2>3. ASSUME Goto(l, "publishReuse"), UNCHANGED job
        PROVE  StepOf(l) /\ ProcInv(l)'
    <3>1. /\ pc[l] \in FreshPcs /\ "publishReuse" \in FreshPcs
          /\ pc' = [pc EXCEPT ![l] = "publishReuse"] /\ job' = [job EXCEPT ![l] = job[l]]
          /\ UNCHANGED <<sessState, verified, owners, host, launchState>>
      BY <1>9, <2>2, <2>3, <1>a DEF Attest, Goto, FreshPcs, db
    <3> QED BY <2>1, <2>2, <3>1, <1>b, <1>c, <1>d, FreshStep
  <2>4. ASSUME Teardown(l, job[l].target, "retire", "ready", TRUE, TRUE, job[l].origin)
        PROVE  StepOf(l) /\ ProcInv(l)'
    BY <1>9, <2>1, <2>2, <2>4, FreshRetire DEF Attest
  <2> QED BY <1>9, <2>3, <2>4 DEF Attest
<1>10. CASE PublishReuse(l)
  <2>1. ASSUME UpdateLaunch(l, {"starting"}, "ready", job[l].target),
               job' = [job EXCEPT ![l] = NoJob], Goto(l, "done")
        PROVE  StepOf(l) /\ ProcInv(l)'
    <3>1. /\ pc[l] \in FreshPcs /\ pc' = [pc EXCEPT ![l] = "done"]
          /\ UNCHANGED <<sessState, verified, owners, host>> /\ faults' \in {faults, faults + 1}
      BY <1>10, <2>1 DEF PublishReuse, Goto, FreshPcs, budget
    <3>2. /\ launchState'[l] # "absent"
          /\ \A k \in Launches : launchState'[k] = "absent" => launchState[k] = "absent"
      BY <2>1 DEF UpdateLaunch, DataType
    <3>3. NoJob.kind = "none" /\ NoJob.target \notin Sessions
      BY ProcsAssumption DEF NoJob, MakeJob, Sessions
    <3> QED BY <2>1, <3>1, <3>2, <3>3, FreshStep
  <2>2. ASSUME Abandon(l), UNCHANGED <<launchState, launchSess>>
        PROVE  StepOf(l) /\ ProcInv(l)'
    BY <1>10, <2>2, FreshAbandon DEF PublishReuse, FreshPcs, budget, db
  <2> QED BY <1>10, <2>1, <2>2 DEF PublishReuse
<1>11. CASE ReuseStarting(l)
  <2>0. pc[l] = "reuse" /\ pc[l] \in FreshPcs /\ job[l].seen = "starting" /\ job[l].target \in Sessions
    BY <1>11 DEF ReuseStarting, FreshPcs, TargetInv
  <2>1. /\ UNCHANGED <<sessState, verified, leases, owners, host>>
        /\ faults' \in {faults, faults + 1}
    BY <1>11 DEF ReuseStarting, budget
  <2>2. ASSUME UpdateLaunch(l, {"starting"}, "starting", job[l].target), Goto(l, "follow"), UNCHANGED job
        PROVE  StepOf(l) /\ ProcInv(l)'
    <3>1. /\ "follow" \in FreshPcs /\ pc' = [pc EXCEPT ![l] = "follow"]
          /\ job' = [job EXCEPT ![l] = job[l]]
      BY <2>2, <1>a DEF Goto, FreshPcs
    <3>2. /\ launchState'[l] # "absent"
          /\ \A k \in Launches : launchState'[k] = "absent" => launchState[k] = "absent"
      BY <2>2 DEF UpdateLaunch, DataType
    <3> QED BY <2>0, <2>1, <3>1, <3>2, <1>b, <1>d, FreshStep
  <2>3. ASSUME Abandon(l), UNCHANGED <<launchState, launchSess>>
        PROVE  StepOf(l) /\ ProcInv(l)'
    BY <2>0, <2>1, <2>3, FreshAbandon DEF db
  <2>4. ASSUME job' = [job EXCEPT ![l].seen = sessState[job[l].target]],
               UNCHANGED <<pc, launchState, launchSess>>
        PROVE  StepOf(l) /\ ProcInv(l)'
    <3> DEFINE s == job[l].target
               j == [job[l] EXCEPT !.seen = sessState[s]]
    <3>1. j.kind = job[l].kind /\ j.target = s /\ j.seen = sessState[s]
      BY DEF Job
    <3>2. job' = [job EXCEPT ![l] = j]
      BY <2>4
    <3> HIDE DEF j
    <3>3. HostInv(s)
      BY <2>0 DEF Sessions
    <3>4. Reached(sessState[s], sessState[s]) /\ (sessState[s] = "ready" => s \in verified)
      BY <2>0, <1>b, <3>3 DEF Reached, Ended, HostInv
    <3>5. pc' = [pc EXCEPT ![l] = "reuse"]
      BY <2>0, <2>4, <1>a
    <3>6. /\ j.kind = "none" /\ j.target \in Sessions
          /\ Reached(j.seen, sessState[j.target]) /\ (j.seen = "ready" => j.target \in verified)
          /\ "reuse" \in FreshPcs /\ launchState'[l] # "absent"
      BY <2>0, <2>4, <3>1, <3>4, <1>c, <1>d
    <3> QED BY <2>0, <2>1, <2>4, <3>2, <3>5, <3>6, FreshStep
  <2>5. ASSUME job[l].target \notin owners, UNCHANGED <<launchState, launchSess>>,
               Teardown(l, job[l].target, "retire", "starting", TRUE, TRUE, job[l].origin)
        PROVE  StepOf(l) /\ ProcInv(l)'
    BY <2>0, <2>1, <2>5, FreshRetire DEF db
  <2> QED BY <1>11, <2>2, <2>3, <2>4, <2>5 DEF ReuseStarting
<1>12. CASE FollowDone(l)
  <2>0. pc[l] = "follow" /\ pc[l] \in FreshPcs /\ job[l].target \in Sessions
    BY <1>12 DEF FollowDone, FreshPcs, TargetInv
  <2>1. ASSUME Abandon(l) PROVE StepOf(l) /\ ProcInv(l)'
    BY <1>12, <2>0, <2>1, FreshAbandon DEF FollowDone, budget
  <2>2. ASSUME sessState[job[l].target] = "ready", job' = [job EXCEPT ![l].seen = "ready"], Goto(l, "reuse")
        PROVE  StepOf(l) /\ ProcInv(l)'
    <3> DEFINE s == job[l].target
               j == [job[l] EXCEPT !.seen = "ready"]
    <3>1. j.kind = job[l].kind /\ j.target = s /\ j.seen = "ready"
      BY DEF Job
    <3>2. job' = [job EXCEPT ![l] = j] /\ pc' = [pc EXCEPT ![l] = "reuse"] /\ "reuse" \in FreshPcs
      BY <2>2 DEF Goto, FreshPcs
    <3> HIDE DEF j
    <3>3. HostInv(s)
      BY <2>0 DEF Sessions
    <3>4. Reached("ready", sessState[s]) /\ s \in verified
      BY <2>2, <3>3 DEF Reached, Ended, HostInv
    <3>5. /\ UNCHANGED <<sessState, verified, owners, host, launchState>>
          /\ faults' \in {faults, faults + 1}
      BY <1>12 DEF FollowDone, budget, db
    <3> QED BY <2>0, <3>1, <3>2, <3>4, <3>5, <1>c, <1>d, FreshStep
  <2> QED BY <1>12, <2>1, <2>2 DEF FollowDone
<1> QED BY <1>1, <1>2, <1>3, <1>4, <1>5, <1>6, <1>7, <1>8, <1>9, <1>10, <1>11, <1>12

\* Only launch l's own session is concerned.
SameElse(l) ==
    \A s \in Sessions : s # l =>
        /\ sessState'[s] = sessState[s]
        /\ s \in verified' <=> s \in verified
        /\ s \in owners' <=> s \in owners
        /\ s \in net' <=> s \in net
        /\ s \in rules' <=> s \in rules
        /\ s \in secrets' <=> s \in secrets
        /\ s \in running' <=> s \in running
        /\ s \in late' <=> s \in late

\* What l's step may do to its own session, as others see it.
OwnRow(l) ==
    /\ \/ sessState'[l] = sessState[l]
       \/ sessState[l] = "absent" /\ sessState'[l] = "starting"
       \/ sessState[l] = "starting" /\ sessState'[l] = "ready"
       \/ sessState[l] \in ActiveStates /\ sessState'[l] \in {"stopping", "stopped"}
       \/ /\ sessState[l] \in ActiveStates /\ sessState'[l] = "failed"
          /\ pc[l] \notin StartPcs
          /\ l \notin net' /\ l \notin rules' /\ l \notin secrets'
    /\ l \in verified => l \in verified'
    /\ l \in owners' => l \in owners \/ sessState[l] = "absent"
    /\ UNCHANGED host \/ pc[l] \in StartPcs

\* A worker that starts, publishes or ends its own session.
LEMMA OwnStep ==
    ASSUME SessionInv, NEW l \in Launches, NEW label, NEW j,
           pc' = [pc EXCEPT ![l] = label], job' = [job EXCEPT ![l] = j],
           job[l].kind # "retire", SameElse(l), OwnRow(l),
           faults' \in {faults, faults + 1},
           \A k \in Launches : launchState'[k] = "absent" => launchState[k] = "absent"
    PROVE  /\ StepOf(l)
           /\ pc'[l] = label /\ job'[l] = j /\ Up' = Up
<1> USE OfWorker
<1>1. /\ Others(l)
      /\ pc'[l] = label /\ job'[l] = j /\ pc'[Boot] = pc[Boot]
  BY DEF Others, ControlType, Procs
<1>2. RowStep(l)
  BY DEF RowStep, Sessions, SameElse, OwnRow
<1>3. HostStep(l)
  <2>1. \A s \in Sessions : s # l => (s \in running => s \in net)
    BY DEF Sessions, HostInv
  <2> QED BY <2>1 DEF HostStep, host, SameElse, OwnRow
<1>4. ASSUME NEW s \in Sessions, s # l, Excused(s) PROVE Excused(s)'
  <2>1. faults > 0 /\ faults' > 0
    BY <1>4 DEF Excused, DataType
  <2>2. Retiring(s) => Retiring(s)'
    BY <1>1 DEF Retiring, Others
  <2> QED BY <1>4, <2>1, <2>2 DEF Excused, SameElse
<1>5. ExcuseStep(l)
  BY <1>1, <1>4 DEF ExcuseStep, Up
<1> QED BY <1>1, <1>2, <1>3, <1>5 DEF StepOf, Up

\* A worker moves on in the start of its session: row, owner and gates stay.
LEMMA StartStep ==
    ASSUME SessionInv, NEW l \in Launches, NEW label \in StartPcs, Goto(l, label),
           pc[l] \in StartPcs, UNCHANGED <<sessState, verified, owners, job, budget>>,
           launchState' = launchState \/ launchState' = [launchState EXCEPT ![l] = "starting"],
           SameElse(l),
           l \in running' => l \in net',
           label = "secrets" => l \notin net' /\ l \notin rules',
           label # "bind",
           label \in {"secrets", "create", "rules", "verify", "run"}
              => l \notin running' /\ l \notin late',
           (l \in running' \/ l \in late' \/ label = "run")
              /\ sessState[l] \in {"starting", "ready"} /\ l \in net' => l \in rules'
    PROVE  StepOf(l) /\ ProcInv(l)'
<1> USE OfWorker
<1>1. job[l].kind = "none"
  BY DEF StartPcs, TeardownPcs
<1>2. /\ pc' = [pc EXCEPT ![l] = label] /\ job' = [job EXCEPT ![l] = job[l]]
      /\ faults' \in {faults, faults + 1} /\ OwnRow(l)
      /\ \A k \in Launches : launchState'[k] = "absent" => launchState[k] = "absent"
  BY DEF Goto, ControlType, budget, OwnRow, DataType
<1>3. StepOf(l) /\ pc'[l] = label /\ job'[l] = job[l]
  BY <1>1, <1>2, OwnStep
<1>4. launchState'[l] # "absent"
  BY <1>2 DEF WorkerInv, StartPcs
<1>5. WorkerInv(l)'
  BY <1>1, <1>3, <1>4 DEF WorkerInv, FreshPcs, StartPcs
<1>6. TargetInv(l)'
  BY <1>1, <1>3 DEF TargetInv, StartPcs, TeardownPcs
<1>7. CleanInv(l)'
  BY <1>1, <1>3 DEF CleanInv, StartPcs
<1>8. HostInv(l)'
  BY <1>3 DEF HostInv, WorkerInv, StartPcs
<1> QED BY <1>3, <1>5, <1>6, <1>7, <1>8 DEF ProcInv

\* A worker turns to rolling its session back.
LEMMA RollbackStep ==
    ASSUME SessionInv, NEW l \in Launches, NEW plan \in BOOLEAN, Rollback(l, plan),
           pc[l] \in StartPcs \/ (pc[l] = "publish" /\ UNCHANGED host),
           UNCHANGED <<sessState, verified, owners, launchState>>,
           faults' \in {faults, faults + 1}, SameElse(l),
           l \in running' => l \in net',
           ~plan => l \notin net' /\ l \notin rules',
           (l \in running' \/ l \in late')
              /\ sessState[l] \in {"starting", "ready"} /\ l \in net' => l \in rules'
    PROVE  StepOf(l) /\ ProcInv(l)'
<1> USE OfWorker
<1> DEFINE j == MakeJob(l, "absent", "rollback", "none", TRUE, plan)
<1>1. /\ j.kind = "rollback" /\ j.target = l /\ j.seen = "absent" /\ j.plan = plan
      /\ j.failed = FALSE
  BY DEF MakeJob
<1> HIDE DEF j
<1>2. pc' = [pc EXCEPT ![l] = "alive"] /\ job' = [job EXCEPT ![l] = j] /\ OwnRow(l)
  BY DEF Rollback, Teardown, Goto, j, OwnRow
<1>3. job[l].kind = "none"
  BY DEF StartPcs, TeardownPcs
<1>4. StepOf(l) /\ pc'[l] = "alive" /\ job'[l] = j
  BY <1>2, <1>3, OwnStep
<1>5. WorkerInv(l)'
  BY <1>1, <1>4 DEF WorkerInv, FreshPcs, StartPcs
<1>6. TargetInv(l)'
  BY <1>1, <1>4 DEF TargetInv, TeardownPcs, Reached, Ended, WorkerInv
<1>7. CleanInv(l)'
  BY <1>1, <1>4 DEF CleanInv
<1>8. HostInv(l)'
  BY <1>4 DEF HostInv, WorkerInv, StartPcs, host, Ended
<1> QED BY <1>4, <1>5, <1>6, <1>7, <1>8 DEF ProcInv

\* A worker claims a session, or finds that another has.
LEMMA ClaimStep ==
    ASSUME SessionInv, NEW l \in Launches, Claim(l)
    PROVE  StepOf(l) /\ ProcInv(l)'
<1> USE OfWorker
<1>1. pc[l] = "claim" /\ sessState[l] = "absent" /\ launchState[l] # "absent" /\ job[l].kind = "none"
  BY DEF Claim, WorkerInv, FreshPcs, TeardownPcs
<1>2. ASSUME NEW s \in ActiveSessions(Ws[l]), UNCHANGED <<sessState, owners>>, Goto(l, "reuse"),
             job' = [job EXCEPT ![l] = MakeJob(s, sessState[s], "none", "claim", TRUE, FALSE)]
      PROVE  StepOf(l) /\ ProcInv(l)'
  BY <1>1, <1>2, FreshRead DEF Claim, FreshPcs, db
<1>3. ASSUME sessState' = [sessState EXCEPT ![l] = "starting"], owners' = owners \cup {l},
             job' = [job EXCEPT ![l] = NoJob], Goto(l, "bind")
      PROVE  StepOf(l) /\ ProcInv(l)'
  <2>1. /\ UNCHANGED <<verified, launchState, net, rules, secrets, running, late>>
        /\ UNCHANGED host /\ faults' = faults
    BY DEF Claim, host, budget
  <2>2. sessState'[l] = "starting" /\ l \in owners'
    BY <1>3 DEF DataType
  <2>3. SameElse(l) /\ OwnRow(l)
    BY <1>1, <1>3, <2>1, <2>2 DEF SameElse, OwnRow, DataType
  <2>4. StepOf(l) /\ pc'[l] = "bind" /\ job'[l] = NoJob
    <3>1. pc' = [pc EXCEPT ![l] = "bind"]
      BY <1>3 DEF Goto
    <3> QED BY <1>1, <1>3, <2>1, <2>3, <3>1, OwnStep
  <2>5. NoJob.kind = "none" /\ NoJob.target \notin Sessions
    BY ProcsAssumption DEF NoJob, MakeJob, Sessions
  <2>6. WorkerInv(l)'
    BY <1>1, <2>1, <2>2, <2>4, <2>5 DEF WorkerInv, HostInv, FreshPcs, StartPcs
  <2>7. TargetInv(l)'
    BY <2>4, <2>5 DEF TargetInv, TeardownPcs
  <2>8. CleanInv(l)'
    BY <2>4, <2>5 DEF CleanInv
  <2>9. HostInv(l)'
    BY <1>1, <2>1, <2>2, <2>4 DEF HostInv
  <2> QED BY <2>4, <2>6, <2>7, <2>8, <2>9 DEF ProcInv
<1> QED BY <1>2, <1>3 DEF Claim

\* Every step of a worker from its claim to the recorded gates.
LEMMA StartSteps ==
    ASSUME SessionInv, NEW l \in Launches,
           \/ Bind(l) \/ WriteSecrets(l) \/ CreateNetwork(l) \/ InstallRules(l) \/ VerifyPolicy(l)
           \/ RunContainer(l) \/ Probe(l) \/ Gates(l) \/ CommitReady(l) \/ PublishReady(l)
    PROVE  StepOf(l) /\ ProcInv(l)'
<1> USE OfWorker
<1>1. CASE Bind(l)
  <2>0. /\ pc[l] \in StartPcs /\ "secrets" \in StartPcs /\ SameElse(l)
        /\ UNCHANGED <<sessState, verified, owners, net, rules, secrets, running, late, budget>>
        /\ faults' \in {faults, faults + 1}
        /\ l \notin net /\ l \notin rules /\ l \notin running /\ l \notin late
    BY <1>1 DEF Bind, StartPcs, SameElse, host, budget, HostInv
  <2>1. ASSUME UpdateLaunch(l, {"starting"}, "starting", l), Goto(l, "secrets"), UNCHANGED job
        PROVE  StepOf(l) /\ ProcInv(l)'
    BY <2>0, <2>1, StartStep DEF UpdateLaunch
  <2>2. ASSUME Rollback(l, FALSE), UNCHANGED <<launchState, launchSess>>
        PROVE  StepOf(l) /\ ProcInv(l)'
    BY <2>0, <2>2, RollbackStep
  <2> QED BY <1>1, <2>1, <2>2 DEF Bind
<1>2. CASE WriteSecrets(l)
  <2>0. /\ pc[l] \in StartPcs /\ "create" \in StartPcs /\ SameElse(l)
        /\ UNCHANGED <<sessState, verified, launchState, owners, net, rules, running, late>>
        /\ l \notin net /\ l \notin rules /\ l \notin running /\ l \notin late
    BY <1>2 DEF WriteSecrets, StartPcs, SameElse, db, HostInv
  <2>1. faults' \in {faults, faults + 1}
    BY <1>2, FaultCount DEF WriteSecrets
  <2>2. ASSUME Goto(l, "create"), UNCHANGED <<job, budget>>
        PROVE  StepOf(l) /\ ProcInv(l)'
    BY <2>0, <2>2, StartStep
  <2>3. ASSUME Rollback(l, FALSE)
        PROVE  StepOf(l) /\ ProcInv(l)'
    BY <2>0, <2>1, <2>3, RollbackStep
  <2> QED BY <1>2, <2>2, <2>3 DEF WriteSecrets
<1>3. CASE CreateNetwork(l)
  <2>0. /\ pc[l] \in StartPcs /\ "rules" \in StartPcs /\ SameElse(l)
        /\ UNCHANGED <<sessState, verified, launchState, owners, rules, running, late>>
        /\ l \notin running /\ l \notin late
    BY <1>3 DEF CreateNetwork, StartPcs, SameElse, db, HostInv
  <2>1. faults' \in {faults, faults + 1}
    BY <1>3, FaultCount DEF CreateNetwork
  <2>2. ASSUME Goto(l, "rules"), UNCHANGED <<job, budget>>
        PROVE  StepOf(l) /\ ProcInv(l)'
    BY <2>0, <2>2, StartStep
  <2>3. ASSUME Rollback(l, TRUE)
        PROVE  StepOf(l) /\ ProcInv(l)'
    BY <2>0, <2>1, <2>3, RollbackStep
  <2> QED BY <1>3, <2>2, <2>3 DEF CreateNetwork
<1>4. CASE InstallRules(l)
  <2>0. /\ pc[l] \in StartPcs /\ "verify" \in StartPcs /\ SameElse(l)
        /\ UNCHANGED <<sessState, verified, launchState, owners, secrets, running, late>>
        /\ l \notin running /\ l \notin late
    BY <1>4 DEF InstallRules, StartPcs, SameElse, db, HostInv
  <2>1. faults' \in {faults, faults + 1}
    BY <1>4, FaultCount DEF InstallRules
  <2>2. ASSUME Goto(l, "verify"), UNCHANGED <<job, budget>>
        PROVE  StepOf(l) /\ ProcInv(l)'
    BY <2>0, <2>2, StartStep
  <2>3. ASSUME Rollback(l, TRUE)
        PROVE  StepOf(l) /\ ProcInv(l)'
    BY <2>0, <2>1, <2>3, RollbackStep
  <2> QED BY <1>4, <2>2, <2>3 DEF InstallRules
<1>5. CASE VerifyPolicy(l)
  <2>0. /\ pc[l] \in StartPcs /\ "run" \in StartPcs /\ SameElse(l)
        /\ UNCHANGED <<sessState, verified, launchState, owners, net, rules, secrets, running, late>>
        /\ l \notin running /\ l \notin late
    BY <1>5 DEF VerifyPolicy, StartPcs, SameElse, db, host, HostInv
  <2>1. faults' \in {faults, faults + 1}
    BY <1>5, FaultCount DEF VerifyPolicy
  <2>2. ASSUME l \in net \cap rules, Goto(l, "run"), UNCHANGED <<job, budget>>
        PROVE  StepOf(l) /\ ProcInv(l)'
    BY <2>0, <2>2, StartStep
  <2>3. ASSUME Rollback(l, TRUE)
        PROVE  StepOf(l) /\ ProcInv(l)'
    BY <2>0, <2>1, <2>3, RollbackStep
  <2> QED BY <1>5, <2>2, <2>3 DEF VerifyPolicy
<1>6. CASE RunContainer(l)
  <2>0. /\ pc[l] \in StartPcs /\ "probe" \in StartPcs /\ SameElse(l)
        /\ UNCHANGED <<sessState, verified, launchState, owners, net, rules, secrets>>
        /\ l \in running' => l \in net'
        /\ sessState[l] \in {"starting", "ready"} /\ l \in net' => l \in rules'
    BY <1>6 DEF RunContainer, StartPcs, SameElse, db, HostInv
  <2>1. faults' \in {faults, faults + 1}
    BY <1>6, FaultCount DEF RunContainer
  <2>2. ASSUME Goto(l, "probe"), UNCHANGED <<job, budget>>
        PROVE  StepOf(l) /\ ProcInv(l)'
    BY <2>0, <2>2, StartStep
  <2>3. ASSUME Rollback(l, TRUE)
        PROVE  StepOf(l) /\ ProcInv(l)'
    BY <2>0, <2>1, <2>3, RollbackStep
  <2> QED BY <1>6, <2>2, <2>3 DEF RunContainer
<1>7. CASE Probe(l) \/ Gates(l)
  <2>0. /\ pc[l] \in StartPcs /\ SameElse(l)
        /\ UNCHANGED <<sessState, verified, launchState, owners, net, rules, secrets, running, late>>
        /\ l \in running => l \in net
        /\ (l \in running \/ l \in late)
              /\ sessState[l] \in {"starting", "ready"} /\ l \in net => l \in rules
    BY <1>7 DEF Probe, Gates, StartPcs, SameElse, db, host, HostInv
  <2>1. faults' \in {faults, faults + 1}
    BY <1>7, FaultCount DEF Probe, Gates
  <2>2. ASSUME NEW label \in {"gates", "commit"}, Goto(l, label), UNCHANGED <<job, budget>>
        PROVE  StepOf(l) /\ ProcInv(l)'
    <3>1. label \in StartPcs
      BY DEF StartPcs
    <3> QED BY <2>0, <2>2, <3>1, StartStep
  <2>3. ASSUME Rollback(l, TRUE)
        PROVE  StepOf(l) /\ ProcInv(l)'
    BY <2>0, <2>1, <2>3, RollbackStep
  <2> QED BY <1>7, <2>2, <2>3 DEF Probe, Gates
<1>8. CASE CommitReady(l)
  <2>0. /\ pc[l] \in StartPcs /\ pc[l] = "commit" /\ job[l].kind = "none"
        /\ UNCHANGED <<launchState, owners, net, rules, secrets, running, late>> /\ UNCHANGED host
        /\ faults' \in {faults, faults + 1}
    BY <1>8 DEF CommitReady, StartPcs, TeardownPcs, host, budget
  <2>1. ASSUME Rollback(l, TRUE), UNCHANGED <<sessState, verified>>
        PROVE  StepOf(l) /\ ProcInv(l)'
    <3>1. SameElse(l)
      BY <2>0, <2>1 DEF SameElse
    <3> QED BY <2>0, <2>1, <3>1, RollbackStep DEF HostInv
  <2>2. ASSUME TransitionSession(l, {"starting"}, "ready"), verified' = verified \cup {l},
               Goto(l, "publish"), UNCHANGED job
        PROVE  StepOf(l) /\ ProcInv(l)'
    <3>1. /\ sessState[l] = "starting" /\ sessState'[l] = "ready"
          /\ \A s \in Sessions : s # l => sessState'[s] = sessState[s]
      BY <2>2 DEF TransitionSession, DataType
    <3>2. /\ SameElse(l) /\ OwnRow(l) /\ pc' = [pc EXCEPT ![l] = "publish"]
          /\ job' = [job EXCEPT ![l] = job[l]]
      BY <2>0, <2>2, <3>1 DEF SameElse, OwnRow, Goto, ControlType
    <3>3. StepOf(l) /\ pc'[l] = "publish" /\ job'[l] = job[l]
      BY <2>0, <3>2, OwnStep
    <3>4. WorkerInv(l)'
      BY <2>0, <3>1, <3>3 DEF WorkerInv, FreshPcs, StartPcs
    <3>5. TargetInv(l)'
      <4>1. job[l].target \in Sessions => /\ Reached(job[l].seen, sessState'[job[l].target])
                                          /\ job[l].target \in verified => job[l].target \in verified'
        BY <2>2, <3>1 DEF TargetInv, Reached, Ended
      <4> QED BY <2>0, <3>3, <4>1 DEF TargetInv, TeardownPcs
    <3>6. CleanInv(l)'
      BY <2>0, <3>3 DEF CleanInv
    <3>7. HostInv(l)'
      BY <2>0, <2>2, <3>1, <3>3 DEF HostInv
    <3> QED BY <3>3, <3>4, <3>5, <3>6, <3>7 DEF ProcInv
  <2> QED BY <1>8, <2>1, <2>2 DEF CommitReady
<1>9. CASE PublishReady(l)
  <2>0. /\ pc[l] = "publish" /\ job[l].kind = "none" /\ SameElse(l) /\ OwnRow(l)
        /\ UNCHANGED <<sessState, verified, owners, net, rules, secrets, running, late>> /\ UNCHANGED host
        /\ faults' \in {faults, faults + 1}
    BY <1>9 DEF PublishReady, TeardownPcs, host, budget, SameElse, OwnRow
  <2>1. ASSUME Rollback(l, TRUE), UNCHANGED <<launchState, launchSess>>
        PROVE  StepOf(l) /\ ProcInv(l)'
    BY <2>0, <2>1, RollbackStep DEF HostInv
  <2>2. ASSUME UpdateLaunch(l, {"starting"}, "ready", l), Goto(l, "finally"), UNCHANGED job
        PROVE  StepOf(l) /\ ProcInv(l)'
    <3>1. /\ launchState'[l] # "absent"
          /\ \A k \in Launches : launchState'[k] = "absent" => launchState[k] = "absent"
      BY <2>2 DEF UpdateLaunch, DataType
    <3>2. pc' = [pc EXCEPT ![l] = "finally"] /\ job' = [job EXCEPT ![l] = job[l]]
      BY <2>2 DEF Goto, ControlType
    <3>3. StepOf(l) /\ pc'[l] = "finally" /\ job'[l] = job[l]
      BY <2>0, <3>1, <3>2, OwnStep
    <3>4. WorkerInv(l)'
      BY <2>0, <3>1, <3>3 DEF WorkerInv, FreshPcs, StartPcs, Ended
    <3>5. TargetInv(l)'
      BY <2>0, <3>3 DEF TargetInv, TeardownPcs
    <3>6. CleanInv(l)'
      BY <2>0, <3>3 DEF CleanInv
    <3>7. HostInv(l)'
      BY <2>0, <3>3 DEF HostInv
    <3> QED BY <3>3, <3>4, <3>5, <3>6, <3>7 DEF ProcInv
  <2> QED BY <1>9, <2>1, <2>2 DEF PublishReady
<1> QED BY <1>1, <1>2, <1>3, <1>4, <1>5, <1>6, <1>7, <1>8, <1>9

\* Every step of a worker that ends: the rollback's settlement, the failed launch
\* and the finally clause.
LEMMA EndSteps ==
    ASSUME SessionInv, NEW l \in Launches,
           RollbackRead(l) \/ RollbackSettle(l) \/ FailLaunch(l) \/ Finally(l)
    PROVE  StepOf(l) /\ ProcInv(l)'
<1> USE OfWorker
<1>0. NoJob.kind = "none" /\ NoJob.target \notin Sessions
  BY ProcsAssumption DEF NoJob, MakeJob, Sessions
<1>1. CASE RollbackRead(l)
  <2> DEFINE j == [job[l] EXCEPT !.seen = sessState[l]]
  <2>1. /\ pc[l] = "settle" /\ job[l].kind = "rollback" /\ job[l].target = l
        /\ UNCHANGED <<sessState, verified, owners, launchState, host>>
        /\ faults' \in {faults, faults + 1}
    BY <1>1 DEF RollbackRead, JobInv, TargetInv, db, budget
  <2>2. /\ j.kind = "rollback" /\ j.target = l /\ j.seen = sessState[l]
        /\ j.plan = job[l].plan /\ j.failed = job[l].failed
    BY <2>1 DEF Job
  <2>3. pc' = [pc EXCEPT ![l] = "settleCas"] /\ job' = [job EXCEPT ![l] = j]
    BY <1>1 DEF RollbackRead, Goto
  <2> HIDE DEF j
  <2>4. StepOf(l) /\ pc'[l] = "settleCas" /\ job'[l] = j
    BY <2>1, <2>3, Quiet
  <2>5. WorkerInv(l)'
    BY <2>1, <2>2, <2>4 DEF WorkerInv, FreshPcs, StartPcs
  <2>6. TargetInv(l)'
    BY <2>1, <2>2, <2>4 DEF TargetInv, TeardownPcs, Reached, Ended, HostInv
  <2>7. CleanInv(l)'
    BY <2>1, <2>2, <2>4 DEF CleanInv, host
  <2>8. HostInv(l)'
    BY <2>1, <2>4 DEF HostInv, host
  <2> QED BY <2>4, <2>5, <2>6, <2>7, <2>8 DEF ProcInv
<1>2. CASE RollbackSettle(l)
  <2>1. /\ pc[l] = "settleCas" /\ job[l].kind = "rollback" /\ job[l].target = l
        /\ job[l].seen # "absent" /\ Reached(job[l].seen, sessState[l])
        /\ UNCHANGED <<verified, owners, launchState, net, rules, secrets, running, late>>
        /\ UNCHANGED host /\ faults' \in {faults, faults + 1}
    BY <1>2 DEF RollbackSettle, TargetInv, host, budget
  <2>2. /\ \A s \in Sessions : s # l => sessState'[s] = sessState[s]
        /\ \/ sessState'[l] = sessState[l]
           \/ sessState[l] \in {"starting", "stopping"} /\ sessState'[l] = "failed" /\ ~job[l].failed
           \/ sessState[l] = "starting" /\ sessState'[l] = "stopping"
    BY <1>2 DEF RollbackSettle, TransitionSession, DataType
  <2>3. sessState'[l] # "starting"
    BY <1>2, <2>1 DEF RollbackSettle, TransitionSession, DataType, Reached
  <2>4. sessState'[l] = "failed" => l \notin net /\ l \notin rules /\ l \notin secrets
    BY <2>1, <2>2 DEF CleanInv, HostInv
  <2>5. pc' = [pc EXCEPT ![l] = "fail"] /\ job' = [job EXCEPT ![l] = NoJob]
    BY <1>2 DEF RollbackSettle, Abandon, Goto
  <2>6. SameElse(l)
    BY <2>1, <2>2 DEF SameElse
  <2>7. OwnRow(l)
    BY <2>1, <2>2, <2>4 DEF OwnRow, ActiveStates, StartPcs
  <2>8. StepOf(l) /\ pc'[l] = "fail" /\ job'[l] = NoJob
    BY <2>1, <2>5, <2>6, <2>7, OwnStep
  <2>9. WorkerInv(l)'
    BY <1>0, <2>1, <2>3, <2>8 DEF WorkerInv, FreshPcs, StartPcs
  <2>10. TargetInv(l)'
    BY <1>0, <2>8 DEF TargetInv, TeardownPcs
  <2>11. CleanInv(l)'
    BY <1>0, <2>8 DEF CleanInv
  <2>12. HostInv(l)'
    BY <2>1, <2>2, <2>4, <2>8 DEF HostInv
  <2> QED BY <2>8, <2>9, <2>10, <2>11, <2>12 DEF ProcInv
<1>3. CASE FailLaunch(l)
  <2>1. /\ pc[l] = "fail" /\ job[l].kind = "none" /\ launchState[l] # "absent"
        /\ UNCHANGED <<sessState, verified, owners, host>> /\ faults' \in {faults, faults + 1}
        /\ \A k \in Launches : launchState'[k] = "absent" => launchState[k] = "absent"
    BY <1>3 DEF FailLaunch, WorkerInv, TeardownPcs, budget, DataType
  <2>2. pc' = [pc EXCEPT ![l] = "finally"] /\ job' = [job EXCEPT ![l] = job[l]]
    BY <1>3 DEF FailLaunch, Goto, ControlType
  <2>3. StepOf(l) /\ pc'[l] = "finally" /\ job'[l] = job[l]
    BY <2>1, <2>2, Quiet
  <2>4. WorkerInv(l)'
    BY <2>1, <2>3 DEF WorkerInv, FreshPcs, StartPcs
  <2>5. TargetInv(l)'
    BY <2>1, <2>3 DEF TargetInv, TeardownPcs
  <2>6. CleanInv(l)'
    BY <2>1, <2>3 DEF CleanInv
  <2>7. HostInv(l)'
    BY <2>1, <2>3 DEF HostInv, host
  <2> QED BY <2>3, <2>4, <2>5, <2>6, <2>7 DEF ProcInv
<1>4. CASE Finally(l)
  <2>1. /\ pc[l] = "finally" /\ job[l].kind = "none" /\ launchState[l] # "absent"
        /\ UNCHANGED <<sessState, verified, launchState, job, faults>>
        /\ UNCHANGED <<net, rules, secrets, running, late>> /\ UNCHANGED host
        /\ owners' = owners \ {l}
    BY <1>4 DEF Finally, WorkerInv, TeardownPcs, db, host, budget
  <2>2. /\ pc' = [pc EXCEPT ![l] = "done"] /\ job' = [job EXCEPT ![l] = job[l]]
        /\ SameElse(l) /\ OwnRow(l)
    BY <1>4, <2>1 DEF Finally, Goto, ControlType, SameElse, OwnRow
  <2>3. StepOf(l) /\ pc'[l] = "done" /\ job'[l] = job[l] /\ Up' = Up
    BY <2>1, <2>2, OwnStep
  <2>4. Excused(l) => Excused(l)'
    BY <2>1 DEF Excused, Retiring
  <2>5. WorkerInv(l)'
    BY <2>1, <2>3, <2>4 DEF WorkerInv, FreshPcs, StartPcs
  <2>6. TargetInv(l)'
    BY <2>1, <2>3 DEF TargetInv, TeardownPcs
  <2>7. CleanInv(l)'
    BY <2>1, <2>3 DEF CleanInv
  <2>8. HostInv(l)'
    BY <2>1, <2>3 DEF HostInv
  <2> QED BY <2>3, <2>5, <2>6, <2>7, <2>8 DEF ProcInv
<1> QED BY <1>1, <1>2, <1>3, <1>4

-----------------------------------------------------------------------------
(* The steps of a teardown, whoever runs it *)

\* What the invariant says of one process.
LEMMA OfProc ==
    ASSUME SessionInv, NEW p \in Procs
    PROVE  /\ ControlType /\ DataType /\ JobInv
           /\ TargetInv(p) /\ CleanInv(p)
           /\ p \in Launches => WorkerInv(p) /\ HostInv(p)
           /\ pc[p] \in Pcs /\ job[p] \in Job /\ job[p].kind \in Kinds
           /\ job[p].seen \in SessStates /\ job[p].plan \in BOOLEAN /\ job[p].failed \in BOOLEAN
<1>1. ControlType /\ DataType /\ JobInv /\ ProcInv(p)
  BY DEF SessionInv
<1> QED BY <1>1, JobFields DEF ControlType, ProcInv

\* Resources only go away, and in the right order.
Shrink ==
    \A s \in Sessions :
        /\ s \in net' => s \in net
        /\ s \in rules' => s \in rules
        /\ s \in secrets' => s \in secrets
        /\ s \in running' => s \in running
        /\ s \in late' => s \in late
        /\ s \in running' => s \in net'
        /\ s \in rules /\ s \notin rules' =>
              s \notin net' \/ sessState'[s] \notin {"starting", "ready"}

\* The step leaves no excused starting session without its excuse.
KeepsExcuse(p, j) ==
    \A s \in Sessions : sessState'[s] = "starting" /\ s # p =>
        /\ sessState[s] = "starting"
        /\ s \in secrets /\ s \notin secrets' => j.kind = "retire" /\ j.target = s
        /\ job[p].kind = "retire" /\ job[p].target = s =>
              \/ j.kind = "retire" /\ j.target = s
              \/ s \in secrets' /\ faults' > 0

\* A step of one process, given what it does to rows and excuses.
LEMMA ProcStep ==
    ASSUME SessionInv, NEW p \in Procs, NEW label, NEW j,
           pc' = [pc EXCEPT ![p] = label], job' = [job EXCEPT ![p] = j],
           p = Boot => (pc[p] # "idle" /\ label # "idle"),
           RowStep(p), Shrink, KeepsExcuse(p, j),
           faults' \in {faults, faults + 1}
    PROVE  /\ StepOf(p)
           /\ pc'[p] = label /\ job'[p] = j /\ Up' = Up
<1> USE OfProc
<1>1. /\ Others(p)
      /\ pc'[p] = label /\ job'[p] = j
  BY DEF Others, ControlType
<1>2. Up' = Up
  BY <1>1 DEF Up, Others, Procs
<1>3. HostStep(p)
  BY DEF HostStep, Shrink
<1>4. ASSUME NEW s \in Sessions, sessState'[s] = "starting", s # p, Excused(s) PROVE Excused(s)'
  <2>1. faults > 0 /\ faults' > 0
    BY <1>4 DEF Excused, DataType
  <2>2. CASE s \in secrets
    <3>1. s \in secrets' \/ (job'[p].kind = "retire" /\ job'[p].target = s)
      BY <1>1, <1>4, <2>2 DEF KeepsExcuse
    <3> QED BY <2>1, <3>1 DEF Excused, Retiring
  <2>3. ASSUME NEW q \in Procs, job[q].kind = "retire", job[q].target = s
        PROVE  Excused(s)'
    <3>1. CASE q # p
      BY <1>1, <2>1, <2>3, <3>1 DEF Others, Excused, Retiring
    <3>2. CASE q = p
      <4>1. (job'[p].kind = "retire" /\ job'[p].target = s) \/ s \in secrets'
        BY <1>1, <1>4, <2>3, <3>2 DEF KeepsExcuse
      <4> QED BY <2>1, <4>1 DEF Excused, Retiring
    <3> QED BY <3>1, <3>2
  <2> QED BY <1>4, <2>2, <2>3 DEF Excused, Retiring
<1>5. ExcuseStep(p)
  BY <1>2, <1>4 DEF ExcuseStep
<1> QED BY <1>1, <1>2, <1>3, <1>5 DEF StepOf

\* Rows that stay.
LEMMA RowsStay ==
    ASSUME NEW p, UNCHANGED <<sessState, verified, owners>>,
           \A k \in Launches : launchState'[k] = "absent" => launchState[k] = "absent"
    PROVE  RowStep(p)
BY DEF RowStep, Sessions

\* A teardown goes on with the same job, perhaps with a failure noted.
LEMMA TeardownGoesOn ==
    ASSUME SessionInv, NEW p \in Procs, pc[p] \in TeardownPcs, pc[p] # "failLaunches",
           NEW label \in TeardownPcs \cup {"readRows"}, NEW j,
           pc' = [pc EXCEPT ![p] = label], job' = [job EXCEPT ![p] = j],
           j.kind = job[p].kind, j.target = job[p].target, j.seen = job[p].seen,
           j.plan = job[p].plan, job[p].failed => j.failed,
           label # "failLaunches", label = "readRows" => p = Stopper,
           label = "settleCas" => j.seen # "absent",
           UNCHANGED <<sessState, verified, owners, launchState>>,
           Shrink, faults' \in {faults, faults + 1},
           \A s \in Sessions : s \in secrets /\ s \notin secrets' => job[p].target = s,
           label = "rulesrm" =>
              (job[p].target \notin net' \/ sessState[job[p].target] \notin {"starting", "ready"}),
           job[p].kind \in {"rollback", "retire"} /\ ~j.failed =>
              /\ label \in {"rulesrm", "private", "release", "settle", "settleCas"}
                    => job[p].target \notin net'
              /\ label \in {"private", "release", "settle", "settleCas"}
                    => job[p].target \notin rules'
              /\ label \in {"release", "settle", "settleCas"}
                    => job[p].target \notin secrets'
    PROVE  StepOf(p) /\ ProcInv(p)' /\ Up' = Up
<1> USE OfProc
<1>1. job[p].kind # "none" /\ job[p].target \in Sessions
  BY DEF TargetInv
<1>2. KeepsExcuse(p, j)
  <2>1. ASSUME NEW s \in Sessions, s # p, sessState[s] = "starting", s \in secrets, s \notin secrets'
        PROVE  job[p].kind = "retire" /\ job[p].target = s
    BY <1>1, <2>1 DEF TargetInv, Reached, Kinds, Ended
  <2> QED BY <2>1 DEF KeepsExcuse
<1>3. StepOf(p) /\ pc'[p] = label /\ job'[p] = j /\ Up' = Up
  <2>1. RowStep(p)
    BY RowsStay
  <2>2. pc[p] # "idle" /\ label # "idle"
    BY DEF TeardownPcs
  <2> HIDE OfProc
  <2> QED BY <1>2, <2>1, <2>2, ProcStep
<1>4. TargetInv(p)'
  <2>1. /\ job'[p].kind = job[p].kind /\ job'[p].target = job[p].target
        /\ job'[p].seen = job[p].seen /\ job'[p].plan = job[p].plan
    BY <1>3
  <2>2. /\ pc'[p] \notin {"writeRows", "next", "attest", "publishReuse", "failLaunches"}
        /\ pc'[p] \in TeardownPcs \/ (p = Stopper /\ pc'[p] = "readRows")
        /\ pc'[p] = "readRows" => p = Stopper
        /\ pc'[p] = "settleCas" => job[p].seen # "absent"
    BY <1>3 DEF TeardownPcs
  <2>3. /\ sessState' = sessState /\ owners' = owners /\ verified' = verified
    OBVIOUS
  <2> QED BY <1>1, <2>1, <2>2, <2>3 DEF TargetInv
<1>5. CleanInv(p)'
  <2>1. job[p].target \in net' => job[p].target \in net
    BY <1>1 DEF Shrink
  <2>2. job[p].target \in rules' => job[p].target \in rules
    BY <1>1 DEF Shrink
  <2> QED BY <1>3, <2>1, <2>2 DEF CleanInv
<1>6. ASSUME p \in Launches PROVE WorkerInv(p)' /\ HostInv(p)'
  <2>1. WorkerInv(p) /\ HostInv(p) /\ p # Stopper
    BY <1>6, ProcsAssumption
  <2>2. launchState[p] # "absent"
    BY <2>1 DEF WorkerInv, TeardownPcs
  <2>3. WorkerInv(p)'
    BY <1>3, <2>1, <2>2 DEF WorkerInv, TeardownPcs, FreshPcs, StartPcs
  <2>4. HostInv(p)'
    BY <1>3, <1>6, <2>1 DEF HostInv, Shrink, TeardownPcs, Sessions
  <2> QED BY <2>3, <2>4
<1> QED BY <1>3, <1>4, <1>5, <1>6 DEF ProcInv

\* An exception ends a teardown: the job is dropped.  The session is not starting
\* any more, or its private files are still there and a failure has been counted.
LEMMA TeardownRaises ==
    ASSUME SessionInv, NEW p \in Procs, pc[p] \in TeardownPcs, Raise(p),
           RowStep(p), Shrink, faults' \in {faults, faults + 1},
           UNCHANGED <<verified, owners, secrets, launchState>>,
           p \in Launches => sessState'[p] = sessState[p],
           \A s \in Sessions : sessState'[s] = "starting" => sessState[s] = "starting",
           \/ sessState'[job[p].target] # "starting"
           \/ job[p].target \in secrets /\ faults' = faults + 1
    PROVE  StepOf(p) /\ ProcInv(p)' /\ Up' = Up
<1> USE OfProc
<1> DEFINE label == IF p = Boot THEN "done" ELSE IF p = Stopper THEN "idle"
                    ELSE IF job[p].kind = "rollback" THEN "finally" ELSE "fail"
<1>0. NoJob.kind = "none" /\ NoJob.target \notin Sessions
  BY ProcsAssumption DEF NoJob, MakeJob, Sessions
<1>1. pc' = [pc EXCEPT ![p] = label] /\ job' = [job EXCEPT ![p] = NoJob]
  BY DEF Raise, Goto
<1>2. job[p].target \in secrets /\ faults' = faults + 1 =>
         job[p].target \in secrets' /\ faults' > 0
  BY DEF DataType
<1>3. KeepsExcuse(p, NoJob)
  BY <1>2 DEF KeepsExcuse
<1>4. /\ label \in {"done", "idle", "finally", "fail"}
      /\ p = Boot => (pc[p] # "idle" /\ label # "idle")
      /\ p \in Launches => label = IF job[p].kind = "rollback" THEN "finally" ELSE "fail"
  BY ProcsAssumption DEF TeardownPcs
<1> HIDE DEF label
<1>5. StepOf(p) /\ pc'[p] = label /\ job'[p] = NoJob /\ Up' = Up
  BY <1>1, <1>3, <1>4, ProcStep
<1>6. TargetInv(p)'
  BY <1>0, <1>4, <1>5 DEF TargetInv, TeardownPcs
<1>7. CleanInv(p)'
  BY <1>0, <1>4, <1>5 DEF CleanInv
<1>8. ASSUME p \in Launches PROVE WorkerInv(p)' /\ HostInv(p)'
  <2>1. /\ WorkerInv(p) /\ HostInv(p) /\ p # Stopper /\ p \in Sessions
        /\ label = IF job[p].kind = "rollback" THEN "finally" ELSE "fail"
    BY <1>4, <1>8, ProcsAssumption DEF Sessions
  <2>2. launchState'[p] # "absent"
    BY <2>1 DEF WorkerInv, TeardownPcs
  <2>3. job[p].kind = "rollback" => sessState'[p] # "starting" \/ Excused(p)'
    BY <1>2 DEF TargetInv, Excused
  <2>4. job[p].kind # "rollback" => sessState'[p] = "absent"
    BY <1>8, <2>1 DEF TargetInv, WorkerInv, Kinds
  <2>5. WorkerInv(p)'
    BY <1>0, <1>5, <2>1, <2>2, <2>3, <2>4 DEF WorkerInv, FreshPcs, StartPcs
  <2>6. HostInv(p)'
    BY <1>5, <1>8, <2>1 DEF HostInv, Shrink
  <2> QED BY <2>5, <2>6
<1> QED BY <1>5, <1>6, <1>7, <1>8 DEF ProcInv

\* Every step of a teardown up to the leases.
LEMMA TeardownSteps ==
    ASSUME SessionInv, NEW p \in Procs,
           \/ CheckAlive(p) \/ Kill(p) \/ Recheck(p) \/ RemoveNetwork(p) \/ RemoveRules(p)
           \/ InvalidatePrivate(p) \/ ReleaseLeases(p)
    PROVE  StepOf(p) /\ ProcInv(p)' /\ Up' = Up
<1> USE OfProc
<1> DEFINE s == job[p].target
           noted == [job[p] EXCEPT !.failed = TRUE]
<1>1. pc[p] \in TeardownPcs /\ pc[p] # "failLaunches" /\ job[p].kind # "none" /\ s \in Sessions
  BY DEF CheckAlive, Kill, Recheck, RemoveNetwork, RemoveRules, InvalidatePrivate,
         ReleaseLeases, TeardownPcs, TargetInv
<1>2. /\ noted.kind = job[p].kind /\ noted.target = s /\ noted.seen = job[p].seen
      /\ noted.plan = job[p].plan /\ noted.failed = TRUE
      /\ NoteFailure(p) => job' = [job EXCEPT ![p] = noted]
  BY DEF Job, NoteFailure
<1>3. job = [job EXCEPT ![p] = job[p]]
  BY DEF ControlType
<1>4. \A r \in Sessions : r \in running => r \in net
  <2>1. ASSUME NEW r \in Sessions PROVE HostInv(r)
    BY DEF SessionInv, ProcInv, Sessions, Procs
  <2> QED BY <2>1 DEF HostInv
<1>5. faults' \in {faults, faults + 1}
  BY FaultCount DEF CheckAlive, Kill, Recheck, RemoveNetwork, RemoveRules, InvalidatePrivate,
                    ReleaseLeases
<1>6. UNCHANGED <<sessState, verified, owners, launchState>>
  BY DEF CheckAlive, Kill, Recheck, RemoveNetwork, RemoveRules, InvalidatePrivate,
         ReleaseLeases, db
<1> HIDE DEF noted
\* the shape of every step that does not raise
<1>7. ASSUME NEW label \in TeardownPcs \cup {"readRows"}, Goto(p, label),
             NEW j \in {job[p], noted}, job' = [job EXCEPT ![p] = j],
             label # "failLaunches", label = "readRows" => p = Stopper,
             label = "settleCas" => job[p].seen # "absent",
             Shrink,
             \A r \in Sessions : r \in secrets /\ r \notin secrets' => s = r,
             label = "rulesrm" => (s \notin net' \/ sessState[s] \notin {"starting", "ready"}),
             job[p].kind \in {"rollback", "retire"} /\ ~j.failed =>
                /\ label \in {"rulesrm", "private", "release", "settle", "settleCas"} => s \notin net'
                /\ label \in {"private", "release", "settle", "settleCas"} => s \notin rules'
                /\ label \in {"release", "settle", "settleCas"} => s \notin secrets'
      PROVE  StepOf(p) /\ ProcInv(p)' /\ Up' = Up
  <2>1. pc' = [pc EXCEPT ![p] = label]
    BY <1>7 DEF Goto
  <2>2. /\ j.kind = job[p].kind /\ j.target = job[p].target /\ j.seen = job[p].seen
        /\ j.plan = job[p].plan /\ (job[p].failed => j.failed)
    BY <1>2, <1>7
  <2> QED BY <1>1, <1>5, <1>6, <1>7, <2>1, <2>2, TeardownGoesOn
<1>8. CASE CheckAlive(p)
  <2>1. Shrink /\ UNCHANGED <<net, rules, secrets>>
    BY <1>4, <1>8 DEF CheckAlive, Shrink, host
  <2>2. ASSUME NEW label \in {"kill", "recheck"}, Goto(p, label), UNCHANGED job
        PROVE  StepOf(p) /\ ProcInv(p)' /\ Up' = Up
    BY <1>3, <1>7, <2>1, <2>2 DEF TeardownPcs
  <2>3. ASSUME Goto(p, "private"), NoteFailure(p)
        PROVE  StepOf(p) /\ ProcInv(p)' /\ Up' = Up
    BY <1>2, <1>7, <2>1, <2>3 DEF TeardownPcs
  <2> QED BY <1>8, <2>2, <2>3 DEF CheckAlive
<1>9. CASE Kill(p)
  <2>1. Shrink /\ UNCHANGED <<net, rules, secrets>>
    BY <1>4, <1>9 DEF Kill, Shrink
  <2>2. ASSUME UNCHANGED job \/ NoteFailure(p)
        PROVE  StepOf(p) /\ ProcInv(p)' /\ Up' = Up
    <3>1. "recheck" \in TeardownPcs /\ Goto(p, "recheck")
      BY <1>9 DEF Kill, TeardownPcs
    <3>2. CASE UNCHANGED job
      BY <1>3, <1>7, <2>1, <3>1, <3>2
    <3>3. CASE NoteFailure(p)
      BY <1>2, <1>7, <2>1, <3>1, <3>3
    <3> QED BY <2>2, <3>2, <3>3
  <2> QED BY <1>9, <2>2 DEF Kill
<1>10. CASE Recheck(p)
  <2>1. Shrink /\ UNCHANGED <<net, rules, secrets>>
    BY <1>4, <1>10 DEF Recheck, Shrink, host
  <2>2. ASSUME NEW label, label = IF job[p].plan THEN "netrm" ELSE "private",
               Goto(p, label), UNCHANGED job
        PROVE  StepOf(p) /\ ProcInv(p)' /\ Up' = Up
    <3>1. label \in TeardownPcs /\ label \in {"netrm", "private"}
      BY <2>2 DEF TeardownPcs
    <3>2. job[p].kind \in {"rollback", "retire"} /\ label = "private" => s \notin net /\ s \notin rules
      BY <2>2 DEF TargetInv, CleanInv
    <3> QED BY <1>3, <1>7, <2>1, <2>2, <3>1, <3>2
  <2>3. ASSUME Goto(p, "private"), NoteFailure(p)
        PROVE  StepOf(p) /\ ProcInv(p)' /\ Up' = Up
    BY <1>2, <1>7, <2>1, <2>3 DEF TeardownPcs
  <2> QED BY <1>10, <2>2, <2>3 DEF Recheck
<1>11. CASE RemoveNetwork(p)
  <2>1. Shrink /\ UNCHANGED <<rules, secrets>>
    BY <1>4, <1>11 DEF RemoveNetwork, Shrink
  <2>2. ASSUME net' = net \ {s}, Goto(p, "rulesrm"), UNCHANGED job
        PROVE  StepOf(p) /\ ProcInv(p)' /\ Up' = Up
    BY <1>3, <1>7, <2>1, <2>2 DEF TeardownPcs
  <2>3. ASSUME Goto(p, "private"), NoteFailure(p)
        PROVE  StepOf(p) /\ ProcInv(p)' /\ Up' = Up
    BY <1>2, <1>7, <2>1, <2>3 DEF TeardownPcs
  <2> QED BY <1>11, <2>2, <2>3 DEF RemoveNetwork
<1>12. CASE RemoveRules(p)
  <2>1. Shrink /\ UNCHANGED <<net, secrets>>
    BY <1>4, <1>6, <1>12 DEF RemoveRules, Shrink, CleanInv
  <2>2. ASSUME rules' = rules \ {s}, UNCHANGED job
        PROVE  StepOf(p) /\ ProcInv(p)' /\ Up' = Up
    <3>1. job[p].kind \in {"rollback", "retire"} /\ ~job[p].failed => s \notin net
      BY <1>12 DEF RemoveRules, CleanInv
    <3> QED BY <1>3, <1>7, <1>12, <2>1, <2>2, <3>1 DEF TeardownPcs, RemoveRules
  <2>3. ASSUME NoteFailure(p)
        PROVE  StepOf(p) /\ ProcInv(p)' /\ Up' = Up
    BY <1>2, <1>7, <1>12, <2>1, <2>3 DEF TeardownPcs, RemoveRules
  <2> QED BY <1>12, <2>2, <2>3 DEF RemoveRules
<1>13. CASE InvalidatePrivate(p)
  <2>1. Shrink /\ UNCHANGED <<net, rules>>
    BY <1>4, <1>13 DEF InvalidatePrivate, Shrink
  <2>2. ASSUME secrets' = secrets \ {s}, Goto(p, "release"), UNCHANGED job
        PROVE  StepOf(p) /\ ProcInv(p)' /\ Up' = Up
    <3>1. job[p].kind \in {"rollback", "retire"} /\ ~job[p].failed => s \notin net /\ s \notin rules
      BY <1>13 DEF InvalidatePrivate, CleanInv
    <3> QED BY <1>3, <1>7, <2>1, <2>2, <3>1 DEF TeardownPcs
  <2>3. ASSUME s \in secrets, Fails("files"), Raise(p), UNCHANGED secrets
        PROVE  StepOf(p) /\ ProcInv(p)' /\ Up' = Up
    <3>1. faults' = faults + 1
      BY <2>3 DEF Fails
    <3>2. RowStep(p)
      BY <1>6, RowsStay
    <3> QED BY <1>1, <1>5, <1>6, <2>1, <2>3, <3>1, <3>2, TeardownRaises
  <2> QED BY <1>13, <2>2, <2>3 DEF InvalidatePrivate
<1>14. CASE ReleaseLeases(p)
  <2>1. Shrink /\ UNCHANGED <<net, rules, secrets, job>>
    BY <1>4, <1>14 DEF ReleaseLeases, Shrink, host
  <2>2. job[p].kind \in {"rollback", "retire"} /\ ~job[p].failed
           => s \notin net /\ s \notin rules /\ s \notin secrets
    BY <1>14 DEF ReleaseLeases, CleanInv
  <2>3. PICK label \in {"settle", "readRows", "settleCas"} :
           /\ Goto(p, label)
           /\ label = "readRows" => p = Stopper
           /\ label = "settleCas" => job[p].seen # "absent"
    BY <1>1, <1>14 DEF ReleaseLeases, TargetInv, JobInv, Kinds, Ended
  <2>4. label \in TeardownPcs \cup {"readRows"}
    BY DEF TeardownPcs
  <2> QED BY <1>3, <1>7, <2>1, <2>2, <2>3, <2>4
<1> QED BY <1>8, <1>9, <1>10, <1>11, <1>12, <1>13, <1>14

\* A retirement settles the row and fails the launches that wait for the session.
LEMMA RetireSteps ==
    ASSUME SessionInv, NEW p \in Procs, RetireSettle(p) \/ FailSessionLaunches(p)
    PROVE  StepOf(p) /\ ProcInv(p)' /\ Up' = Up
<1> USE OfProc
<1> DEFINE s == job[p].target
<1>1. /\ pc[p] \in {"settleCas", "failLaunches"} /\ pc[p] \in TeardownPcs /\ job[p].kind = "retire"
      /\ s \in Sessions /\ job[p].seen \in {"starting", "ready"} /\ p # Stopper
      /\ Reached(job[p].seen, sessState[s])
  BY DEF RetireSettle, FailSessionLaunches, TeardownPcs, TargetInv, JobInv
<1>2. pc[s] \notin StartPcs
  BY <1>1, NotStarting
<1>3. p \in Launches => s # p /\ sessState[p] = "absent" /\ launchState[p] # "absent"
  BY <1>1 DEF WorkerInv, Reached, TeardownPcs
<1>4. \A r \in Sessions : r \in running => r \in net
  <2>1. ASSUME NEW r \in Sessions PROVE HostInv(r)
    BY DEF SessionInv, ProcInv, Sessions, Procs
  <2> QED BY <2>1 DEF HostInv
<1>5. /\ UNCHANGED <<verified, owners, net, rules, secrets, running, late>>
      /\ faults' \in {faults, faults + 1}
  BY DEF RetireSettle, FailSessionLaunches, host, budget
<1>6. Shrink
  BY <1>4, <1>5 DEF Shrink
<1>7. CASE RetireSettle(p)
  <2>1. UNCHANGED launchState
    BY <1>7 DEF RetireSettle
  <2>2. ASSUME NEW new, TransitionSession(s, {job[p].seen}, new)
        PROVE  /\ sessState[s] = job[p].seen /\ sessState'[s] = new
               /\ \A r \in Sessions : r # s => sessState'[r] = sessState[r]
    BY <1>1, <2>2 DEF TransitionSession, DataType
  <2>3. ASSUME ~job[p].failed, TransitionSession(s, {job[p].seen}, "failed"),
               Goto(p, "failLaunches"), UNCHANGED job
        PROVE  StepOf(p) /\ ProcInv(p)' /\ Up' = Up
    <3>1. /\ sessState[s] \in {"starting", "ready"} /\ sessState'[s] = "failed"
          /\ \A r \in Sessions : r # s => sessState'[r] = sessState[r]
      BY <1>1, <2>2, <2>3
    <3>2. s \notin net /\ s \notin rules /\ s \notin secrets
      BY <1>1, <1>7, <2>3 DEF CleanInv, RetireSettle
    <3>3. RowStep(p)
      BY <1>2, <1>5, <2>1, <3>1, <3>2 DEF RowStep, ActiveStates, Sessions
    <3>4. KeepsExcuse(p, job[p])
      BY <1>5, <3>1 DEF KeepsExcuse
    <3>5. /\ pc' = [pc EXCEPT ![p] = "failLaunches"] /\ job' = [job EXCEPT ![p] = job[p]]
          /\ pc[p] # "idle"
      BY <1>1, <2>3 DEF Goto, ControlType
    <3>6. StepOf(p) /\ pc'[p] = "failLaunches" /\ job'[p] = job[p] /\ Up' = Up
      BY <1>5, <1>6, <3>3, <3>4, <3>5, ProcStep
    <3>7. TargetInv(p)'
      BY <1>1, <1>5, <3>1, <3>6 DEF TargetInv, TeardownPcs, Reached, Ended
    <3>8. CleanInv(p)'
      BY <1>1, <3>6 DEF CleanInv
    <3>9. ASSUME p \in Launches PROVE WorkerInv(p)' /\ HostInv(p)'
      <4>1. sessState'[p] = "absent" /\ launchState'[p] # "absent" /\ HostInv(p)
        BY <1>3, <2>1, <3>1, <3>9 DEF Sessions
      <4> QED BY <1>1, <1>5, <3>6, <4>1, <1>3, <3>9 DEF WorkerInv, HostInv, FreshPcs, StartPcs
    <3> QED BY <3>6, <3>7, <3>8, <3>9 DEF ProcInv
  <2>4. ASSUME TransitionSession(s, {job[p].seen}, "stopping"), Raise(p)
        PROVE  StepOf(p) /\ ProcInv(p)' /\ Up' = Up
    <3>1. /\ sessState[s] \in {"starting", "ready"} /\ sessState'[s] = "stopping"
          /\ \A r \in Sessions : r # s => sessState'[r] = sessState[r]
      BY <1>1, <2>2, <2>4
    <3>2. RowStep(p)
      BY <1>5, <2>1, <3>1 DEF RowStep, ActiveStates, Sessions
    <3>3. /\ p \in Launches => sessState'[p] = sessState[p]
          /\ \A r \in Sessions : sessState'[r] = "starting" => sessState[r] = "starting"
      BY <1>3, <3>1 DEF Sessions
    <3> HIDE OfProc
    <3> QED BY <1>1, <1>5, <1>6, <2>1, <2>4, <3>1, <3>2, <3>3, TeardownRaises
  <2>5. ASSUME sessState[s] # job[p].seen, Raise(p), UNCHANGED sessState
        PROVE  StepOf(p) /\ ProcInv(p)' /\ Up' = Up
    <3>1. sessState'[s] # "starting"
      BY <1>1, <2>5 DEF Reached
    <3>2. RowStep(p)
      BY <1>5, <2>1, <2>5, RowsStay
    <3> HIDE OfProc
    <3> QED BY <1>1, <1>5, <1>6, <2>1, <2>5, <3>1, <3>2, TeardownRaises
  <2> QED BY <1>7, <2>3, <2>4, <2>5 DEF RetireSettle
<1>8. CASE FailSessionLaunches(p)
  <2> DEFINE label == IF p = Boot THEN "next"
                      ELSE IF job[p].origin = "lookup" THEN "build" ELSE "fail"
  <2>0. NoJob.kind = "none" /\ NoJob.target \notin Sessions
    BY ProcsAssumption DEF NoJob, MakeJob, Sessions
  <2>1. /\ UNCHANGED sessState /\ sessState[s] # "starting"
        /\ \A k \in Launches : launchState'[k] = "absent" => launchState[k] = "absent"
    BY <1>8 DEF FailSessionLaunches, TargetInv
  <2>2. /\ pc' = [pc EXCEPT ![p] = label] /\ job' = [job EXCEPT ![p] = NoJob] /\ pc[p] # "idle"
    BY <1>1, <1>8 DEF FailSessionLaunches, Goto
  <2>3. /\ label \in {"next", "build", "fail"} /\ (label = "next" <=> p = Boot)
        /\ p \in Launches => label \in {"build", "fail"}
    BY ProcsAssumption
  <2> HIDE DEF label
  <2>4. RowStep(p)
    BY <1>5, <2>1, RowsStay
  <2>5. KeepsExcuse(p, NoJob)
    BY <1>5, <2>1 DEF KeepsExcuse
  <2>6. StepOf(p) /\ pc'[p] = label /\ job'[p] = NoJob /\ Up' = Up
    BY <1>5, <1>6, <2>2, <2>3, <2>4, <2>5, ProcStep
  <2>7. TargetInv(p)'
    BY <2>0, <2>3, <2>6 DEF TargetInv, TeardownPcs
  <2>8. CleanInv(p)'
    BY <2>0, <2>3, <2>6 DEF CleanInv
  <2>9. ASSUME p \in Launches PROVE WorkerInv(p)' /\ HostInv(p)'
    <3>1. /\ sessState'[p] = "absent" /\ launchState'[p] # "absent" /\ HostInv(p)
          /\ pc'[p] \in {"build", "fail"}
      BY <1>3, <2>1, <2>3, <2>6, <2>9
    <3>2. WorkerInv(p)'
      BY <2>0, <2>6, <3>1 DEF WorkerInv, FreshPcs, StartPcs
    <3>3. HostInv(p)'
      BY <1>5, <2>1, <3>1 DEF HostInv
    <3> QED BY <3>2, <3>3
  <2> QED BY <2>6, <2>7, <2>8, <2>9 DEF ProcInv
<1> QED BY <1>7, <1>8

-----------------------------------------------------------------------------
(* The steps of the stop handler and of the startup handler *)

\* Every step that only the stop handler takes.  It is taken while the server is up.
LEMMA StopSteps ==
    ASSUME SessionInv,
           \/ \E l \in Launches : Stop(l)
           \/ StopSettle \/ ReadRows \/ WriteRows
    PROVE  StepOf(Stopper) /\ ProcInv(Stopper)' /\ Up /\ Up'
<1> USE OfProc
<1>0. /\ Stopper \in Procs /\ Stopper # Boot /\ Stopper \notin Launches
      /\ NoJob.kind = "none" /\ NoJob.target \notin Sessions
  BY ProcsAssumption DEF NoJob, MakeJob, Sessions, Procs
<1>1. Up
  BY DEF SessionInv, BootInv, Stop, StopSettle, ReadRows, WriteRows
<1>2. \A r \in Sessions : r \in running => r \in net
  <2>1. ASSUME NEW r \in Sessions PROVE HostInv(r)
    BY DEF SessionInv, ProcInv, Sessions, Procs
  <2> QED BY <2>1 DEF HostInv
<1>3. /\ UNCHANGED <<verified, owners, net, rules, secrets, running, late>>
      /\ faults' \in {faults, faults + 1}
      /\ \A k \in Launches : launchState'[k] = "absent" => launchState[k] = "absent"
  <2>1. CASE WriteRows
    <3>1. UNCHANGED launchState \/ \E r \in rows : launchState' = [launchState EXCEPT ![r[1]] = "stopped"]
      BY <2>1 DEF WriteRows
    <3>2. launchState \in [Launches -> LaunchStates]
      BY <1>0 DEF DataType
    <3>3. \A k \in Launches : launchState'[k] = "absent" => launchState[k] = "absent"
      BY <3>1, <3>2
    <3> QED BY <2>1, <3>3 DEF WriteRows, host, budget
  <2> QED BY <2>1 DEF Stop, StopSettle, ReadRows, host, budget, db
<1>4. Shrink
  BY <1>2, <1>3 DEF Shrink
<1> SUFFICES StepOf(Stopper) /\ ProcInv(Stopper)' /\ Up' = Up
  BY <1>1
\* a step with rows that stay or move to stopping or stopped
<1>5. ASSUME NEW label, NEW j, pc' = [pc EXCEPT ![Stopper] = label],
             job' = [job EXCEPT ![Stopper] = j],
             job[Stopper].kind # "retire",
             \A s \in Sessions :
                \/ sessState'[s] = sessState[s]
                \/ sessState[s] \in ActiveStates /\ sessState'[s] \in {"stopping", "stopped"}
      PROVE  /\ StepOf(Stopper) /\ Up' = Up
             /\ pc'[Stopper] = label /\ job'[Stopper] = j
  <2>1. RowStep(Stopper)
    BY <1>3, <1>5 DEF RowStep, Sessions
  <2>2. KeepsExcuse(Stopper, j)
    BY <1>3, <1>5 DEF KeepsExcuse
  <2> HIDE OfProc
  <2> QED BY <1>0, <1>3, <1>4, <1>5, <2>1, <2>2, ProcStep
<1>6. job[Stopper].kind # "retire" /\ (pc[Stopper] = "idle" => job[Stopper].kind = "none")
  BY <1>0 DEF TargetInv, TeardownPcs
<1>7. ASSUME NEW l \in Launches, Stop(l)
      PROVE  StepOf(Stopper) /\ ProcInv(Stopper)' /\ Up' = Up
  <2>1. ASSUME NEW label \in {"alive", "private"}, NEW kind \in {"stop", "stopAgain"},
               NEW seen \in Ended, NEW plan \in BOOLEAN, Goto(Stopper, label),
               job' = [job EXCEPT ![Stopper] = MakeJob(l, seen, kind, "none", TRUE, plan)],
               sessState'[l] \in Ended,
               \A s \in Sessions :
                  \/ sessState'[s] = sessState[s]
                  \/ sessState[s] \in ActiveStates /\ sessState'[s] \in {"stopping", "stopped"}
        PROVE  StepOf(Stopper) /\ ProcInv(Stopper)' /\ Up' = Up
    <3> DEFINE j == MakeJob(l, seen, kind, "none", TRUE, plan)
    <3>1. j.kind = kind /\ j.target = l /\ j.seen = seen
      BY DEF MakeJob
    <3> HIDE DEF j
    <3>2. pc' = [pc EXCEPT ![Stopper] = label] /\ job' = [job EXCEPT ![Stopper] = j]
      BY <2>1 DEF Goto, j
    <3>3. StepOf(Stopper) /\ Up' = Up /\ pc'[Stopper] = label /\ job'[Stopper] = j
      BY <1>5, <1>6, <2>1, <3>2
    <3>4. TargetInv(Stopper)'
      BY <2>1, <3>1, <3>3 DEF TargetInv, TeardownPcs, Reached, Ended, Sessions
    <3>5. CleanInv(Stopper)'
      BY <2>1, <3>1, <3>3 DEF CleanInv
    <3> QED BY <1>0, <3>3, <3>4, <3>5 DEF ProcInv
  <2>2. ASSUME sessState[l] \in TerminalStates, Goto(Stopper, "private"), UNCHANGED sessState,
               job' = [job EXCEPT ![Stopper] = MakeJob(l, sessState[l], "stopAgain", "none", TRUE, FALSE)]
        PROVE  StepOf(Stopper) /\ ProcInv(Stopper)' /\ Up' = Up
    BY <2>1, <2>2 DEF TerminalStates, Ended
  <2>3. ASSUME TransitionSession(l, {"starting", "ready"}, "stopping"),
               Teardown(Stopper, l, "stop", "stopping", TRUE, TRUE, "none")
        PROVE  StepOf(Stopper) /\ ProcInv(Stopper)' /\ Up' = Up
    <3>1. /\ sessState'[l] = "stopping" /\ sessState[l] \in ActiveStates
          /\ \A s \in Sessions : s # l => sessState'[s] = sessState[s]
      BY <2>3, <1>0 DEF TransitionSession, DataType, ActiveStates, Sessions
    <3> QED BY <2>1, <2>3, <3>1 DEF Teardown, Ended
  <2>4. ASSUME sessState[l] = "stopping", UNCHANGED sessState,
               Teardown(Stopper, l, "stop", "stopping", TRUE, TRUE, "none")
        PROVE  StepOf(Stopper) /\ ProcInv(Stopper)' /\ Up' = Up
    BY <2>1, <2>4 DEF Teardown, Ended
  <2> QED BY <1>7, <2>2, <2>3, <2>4 DEF Stop
<1>8. CASE StopSettle
  <2>1. /\ pc[Stopper] = "settleCas" /\ pc[Stopper] \in TeardownPcs
        /\ job[Stopper].kind \in {"stop", "stopAgain"}
        /\ job[Stopper].target \in Sessions /\ job[Stopper].seen \in Ended
        /\ UNCHANGED launchState
    BY <1>0, <1>8 DEF StopSettle, TargetInv, TeardownPcs, Kinds
  <2>2. sessState[job[Stopper].target] \in Ended
    BY <1>0, <2>1 DEF TargetInv, Reached, Ended, DataType, SessStates, ActiveStates, TerminalStates
  <2>3. ASSUME TransitionSession(job[Stopper].target, {"stopping"}, "stopped"),
               Goto(Stopper, "readRows"), UNCHANGED job
        PROVE  StepOf(Stopper) /\ ProcInv(Stopper)' /\ Up' = Up
    <3>1. /\ sessState'[job[Stopper].target] = "stopped" /\ sessState[job[Stopper].target] = "stopping"
          /\ \A s \in Sessions : s # job[Stopper].target => sessState'[s] = sessState[s]
      BY <1>0, <2>1, <2>3 DEF TransitionSession, DataType
    <3>2. /\ pc' = [pc EXCEPT ![Stopper] = "readRows"]
          /\ job' = [job EXCEPT ![Stopper] = job[Stopper]]
          /\ \A s \in Sessions :
                \/ sessState'[s] = sessState[s]
                \/ sessState[s] \in ActiveStates /\ sessState'[s] \in {"stopping", "stopped"}
      BY <1>0, <2>3, <3>1 DEF Goto, ControlType, ActiveStates
    <3>3. StepOf(Stopper) /\ Up' = Up /\ pc'[Stopper] = "readRows" /\ job'[Stopper] = job[Stopper]
      BY <1>5, <1>6, <3>2
    <3>4. TargetInv(Stopper)'
      BY <1>0, <1>3, <2>1, <3>1, <3>3 DEF TargetInv, TeardownPcs, Reached, Ended
    <3>5. CleanInv(Stopper)'
      BY <2>1, <3>3 DEF CleanInv
    <3> QED BY <1>0, <3>3, <3>4, <3>5 DEF ProcInv
  <2>4. ASSUME Raise(Stopper), UNCHANGED sessState
        PROVE  StepOf(Stopper) /\ ProcInv(Stopper)' /\ Up' = Up
    <3>1. RowStep(Stopper)
      BY <1>3, <2>4, RowsStay
    <3>2. sessState'[job[Stopper].target] # "starting"
      BY <2>2, <2>4 DEF Ended
    <3> HIDE OfProc
    <3> QED BY <1>0, <1>3, <1>4, <2>1, <2>4, <3>1, <3>2, TeardownRaises
  <2> QED BY <1>8, <2>3, <2>4 DEF StopSettle
<1>9. CASE ReadRows
  <2>1. /\ pc[Stopper] = "readRows" /\ UNCHANGED sessState
        /\ pc' = [pc EXCEPT ![Stopper] = "writeRows"] /\ job' = [job EXCEPT ![Stopper] = job[Stopper]]
    BY <1>0, <1>9 DEF ReadRows, Goto, ControlType, db
  <2>2. StepOf(Stopper) /\ Up' = Up /\ pc'[Stopper] = "writeRows" /\ job'[Stopper] = job[Stopper]
    BY <1>5, <1>6, <2>1
  <2>3. TargetInv(Stopper)'
    BY <1>0, <1>3, <2>1, <2>2 DEF TargetInv, TeardownPcs
  <2>4. CleanInv(Stopper)'
    BY <1>0, <1>3, <2>2, <1>6 DEF CleanInv, TargetInv
  <2> QED BY <1>0, <2>2, <2>3, <2>4 DEF ProcInv
<1>10. CASE WriteRows
  <2>1. ASSUME Goto(Stopper, "idle"), job' = [job EXCEPT ![Stopper] = NoJob]
        PROVE  StepOf(Stopper) /\ ProcInv(Stopper)' /\ Up' = Up
    <3>1. /\ UNCHANGED sessState
          /\ pc' = [pc EXCEPT ![Stopper] = "idle"] /\ job' = [job EXCEPT ![Stopper] = NoJob]
      BY <1>10, <2>1 DEF WriteRows, Goto
    <3>2. StepOf(Stopper) /\ Up' = Up /\ pc'[Stopper] = "idle" /\ job'[Stopper] = NoJob
      BY <1>5, <1>6, <3>1
    <3>3. TargetInv(Stopper)'
      BY <1>0, <3>2 DEF TargetInv, TeardownPcs
    <3>4. CleanInv(Stopper)'
      BY <1>0, <3>2 DEF CleanInv
    <3> QED BY <1>0, <3>2, <3>3, <3>4 DEF ProcInv
  <2>2. ASSUME UNCHANGED <<pc, job>>
        PROVE  StepOf(Stopper) /\ ProcInv(Stopper)' /\ Up' = Up
    <3>1. /\ pc[Stopper] = "writeRows" /\ UNCHANGED sessState
          /\ pc' = [pc EXCEPT ![Stopper] = "writeRows"] /\ job' = [job EXCEPT ![Stopper] = job[Stopper]]
      BY <1>0, <1>10, <2>2 DEF WriteRows, ControlType
    <3>2. StepOf(Stopper) /\ Up' = Up /\ pc'[Stopper] = "writeRows" /\ job'[Stopper] = job[Stopper]
      BY <1>5, <1>6, <3>1
    <3>3. TargetInv(Stopper)'
      BY <1>0, <1>3, <3>1, <3>2 DEF TargetInv, TeardownPcs
    <3>4. CleanInv(Stopper)'
      BY <1>0, <1>3, <3>2, <1>6 DEF CleanInv, TargetInv
    <3> QED BY <1>0, <3>2, <3>3, <3>4 DEF ProcInv
  <2> QED BY <1>10, <2>1, <2>2 DEF WriteRows
<1> QED BY <1>7, <1>8, <1>9, <1>10

\* What is known of the startup handler while the server is not up.
LEMMA OfBoot ==
    ASSUME SessionInv, ~Up
    PROVE  /\ Boot \in Procs /\ Boot # Stopper /\ Boot \notin Launches
           /\ owners = {} /\ pc[Stopper] = "idle"
           /\ \A l \in Launches : pc[l] \in {"idle", "done"}
           /\ \A s \in todo : sessState[s] # "absent"
           /\ pc[Boot] # "done" =>
                 \A s \in Sessions : sessState[s] = "starting" => s \in todo \/ Retiring(s)
           /\ \A p \in Procs : job[p].kind = "retire" => p = Boot
<1>1. Boot \in Procs /\ Boot # Stopper /\ Boot \notin Launches
  BY ProcsAssumption DEF Procs
<1>2. /\ pc[Stopper] = "idle"
      /\ \A l \in Launches : pc[l] \in {"idle", "done"}
  BY DEF SessionInv, BootInv
<1>3. ASSUME NEW p \in Procs, job[p].kind = "retire" PROVE p = Boot
  <2>1. TargetInv(p)
    BY OfProc
  <2>2. pc[p] \in TeardownPcs
    BY <1>3, <2>1 DEF TargetInv
  <2> QED BY <1>2, <2>2 DEF TeardownPcs, Procs
<1> QED BY <1>1, <1>2, <1>3 DEF SessionInv, BootInv

\* The startup handler lists and takes the sessions to retire.
LEMMA BootSteps ==
    ASSUME SessionInv, Restart \/ Reconcile
    PROVE  StepOf(Boot) /\ ProcInv(Boot)' /\ BootInv'
<1>1. ~Up /\ pc[Boot] \in {"done", "next"}
  BY DEF Restart, Reconcile, Up
<1> USE OfBoot, <1>1
<1>2. /\ ControlType /\ DataType /\ TargetInv(Boot) /\ CleanInv(Boot)
      /\ job[Boot].kind = "none"
  BY OfProc DEF TargetInv, TeardownPcs
<1>3. \A r \in Sessions : r \in running => r \in net
  <2>1. ASSUME NEW r \in Sessions PROVE HostInv(r)
    BY DEF SessionInv, ProcInv, Sessions, Procs
  <2> QED BY <2>1 DEF HostInv
<1>4. /\ UNCHANGED <<sessState, verified, owners, launchState, net, rules, secrets, running, late>>
      /\ faults' \in {faults, faults + 1}
  BY DEF Restart, Reconcile, host, budget, db
<1>5. Shrink
  BY <1>3, <1>4 DEF Shrink
<1>6. RowStep(Boot)
  BY <1>4, RowsStay
<1>7. ASSUME NEW label, NEW j, pc' = [pc EXCEPT ![Boot] = label], job' = [job EXCEPT ![Boot] = j],
             label # "idle"
      PROVE  /\ StepOf(Boot) /\ ~Up' /\ pc'[Boot] = label /\ job'[Boot] = j
             /\ pc'[Stopper] = "idle" /\ (\A l \in Launches : pc'[l] \in {"idle", "done"})
             /\ \A s \in Sessions : Retiring(s) => Retiring(s)'
  <2>1. KeepsExcuse(Boot, j)
    BY <1>2, <1>4 DEF KeepsExcuse
  <2>2. pc[Boot] # "idle"
    OBVIOUS
  <2>3. StepOf(Boot) /\ pc'[Boot] = label /\ job'[Boot] = j /\ Up' = Up
    <3>1. Boot \in Procs
      OBVIOUS
    <3> HIDE OfBoot
    <3> QED BY <1>4, <1>5, <1>6, <1>7, <2>1, <2>2, <3>1, ProcStep
  <2>4. Others(Boot)
    BY <2>3 DEF StepOf
  <2>5. ASSUME NEW s \in Sessions, Retiring(s) PROVE Retiring(s)'
    BY <1>2, <2>4, <2>5 DEF Retiring, Others
  <2>6. pc'[Stopper] = "idle" /\ \A l \in Launches : pc'[l] \in {"idle", "done"}
    BY <2>4 DEF Others, Procs
  <2> QED BY <2>3, <2>5, <2>6
<1>8. CASE Restart
  <2>1. /\ pc' = [pc EXCEPT ![Boot] = "next"] /\ job' = [job EXCEPT ![Boot] = job[Boot]]
        /\ todo' = {s \in Sessions : sessState[s] = "starting"}
    BY <1>2, <1>8 DEF Restart, Goto, ControlType
  <2>2. /\ StepOf(Boot) /\ ~Up' /\ pc'[Boot] = "next" /\ job'[Boot] = job[Boot]
        /\ pc'[Stopper] = "idle" /\ (\A l \in Launches : pc'[l] \in {"idle", "done"})
    BY <1>7, <2>1
  <2>3. TargetInv(Boot)'
    BY <1>2, <1>4, <2>2 DEF TargetInv, TeardownPcs
  <2>4. CleanInv(Boot)'
    BY <1>2, <2>2 DEF CleanInv
  <2>5. BootInv'
    BY <1>4, <2>1, <2>2 DEF BootInv
  <2> QED BY <2>2, <2>3, <2>4, <2>5 DEF ProcInv
<1>9. ASSUME NEW s \in todo, pc[Boot] = "next",
             Teardown(Boot, s, "retire", "starting", TRUE, TRUE, "none"), todo' = todo \ {s}
      PROVE  StepOf(Boot) /\ ProcInv(Boot)' /\ BootInv'
  <2> DEFINE j == MakeJob(s, "starting", "retire", "none", TRUE, TRUE)
  <2>1. j.kind = "retire" /\ j.target = s /\ j.seen = "starting" /\ j.plan
    BY DEF MakeJob
  <2>2. pc' = [pc EXCEPT ![Boot] = "alive"] /\ job' = [job EXCEPT ![Boot] = j]
    BY <1>9 DEF Teardown, Goto
  <2>3. s \in Sessions
    BY <1>2 DEF DataType
  <2> HIDE DEF j
  <2>4. /\ StepOf(Boot) /\ ~Up' /\ pc'[Boot] = "alive" /\ job'[Boot] = j
        /\ pc'[Stopper] = "idle" /\ (\A l \in Launches : pc'[l] \in {"idle", "done"})
        /\ \A r \in Sessions : Retiring(r) => Retiring(r)'
    BY <1>7, <2>2
  <2>5. TargetInv(Boot)'
    <3>1. Reached("starting", sessState[s])
      <4>1. sessState[s] # "absent"
        BY <1>9
      <4> QED BY <4>1 DEF Reached, Ended
    <3> QED BY <1>4, <2>1, <2>3, <2>4, <3>1 DEF TargetInv, TeardownPcs
  <2>6. CleanInv(Boot)'
    BY <2>1, <2>4 DEF CleanInv
  <2>7. Retiring(s)'
    BY <2>1, <2>4 DEF Retiring
  <2>8. \A r \in Sessions : sessState'[r] = "starting" => r \in todo' \/ Retiring(r)'
    BY <1>4, <1>9, <2>4, <2>7
  <2>9. BootInv'
    BY <1>4, <1>9, <2>4, <2>8 DEF BootInv
  <2> QED BY <2>4, <2>5, <2>6, <2>9 DEF ProcInv
<1>10. ASSUME todo = {}, pc[Boot] = "next", Goto(Boot, "idle"), UNCHANGED <<todo, job>>
       PROVE  StepOf(Boot) /\ ProcInv(Boot)' /\ BootInv'
  <2>1. Others(Boot) /\ pc'[Boot] = "idle" /\ Up'
    BY <1>2, <1>10 DEF Goto, Others, ControlType, Up
  <2>2. HostStep(Boot)
    BY <1>5 DEF HostStep, Shrink
  <2>3. \A s \in Sessions : ~Retiring(s)
    BY <1>2 DEF Retiring
  <2>4. \A s \in Sessions : sessState'[s] # "starting"
    BY <1>4, <1>10, <2>3
  <2>5. ExcuseStep(Boot)
    BY <2>1, <2>4 DEF ExcuseStep
  <2>6. TargetInv(Boot)'
    BY <1>2, <1>4, <1>10, <2>1 DEF TargetInv, TeardownPcs
  <2>7. CleanInv(Boot)'
    BY <1>2, <1>10, <2>1 DEF CleanInv
  <2>8. BootInv'
    BY <2>1 DEF BootInv
  <2> QED BY <1>6, <2>1, <2>2, <2>5, <2>6, <2>7, <2>8 DEF ProcInv, StepOf
<1> QED BY <1>8, <1>9, <1>10 DEF Reconcile

\* A retirement at startup keeps the list of what is still to be done.
LEMMA BootTeardown ==
    ASSUME SessionInv, ~Up, TeardownStep(Boot), StepOf(Boot), Up' = Up
    PROVE  BootInv'
<1> USE OfBoot
<1>1. ControlType /\ DataType /\ TargetInv(Boot) /\ Others(Boot) /\ RowStep(Boot)
  BY OfProc DEF StepOf
<1>2. /\ UNCHANGED <<owners, todo>>
      /\ pc[Boot] \in TeardownPcs /\ pc[Boot] # "done"
  BY DEF TeardownStep, CheckAlive, Kill, Recheck, RemoveNetwork, RemoveRules, InvalidatePrivate,
         ReleaseLeases, RetireSettle, FailSessionLaunches, TeardownPcs
<1>3. pc'[Stopper] = "idle" /\ \A l \in Launches : pc'[l] \in {"idle", "done"}
  BY <1>1 DEF Others, Procs
<1>4. \A s \in todo' : sessState'[s] # "absent"
  BY <1>1, <1>2 DEF RowStep, DataType, ActiveStates
<1>5. ASSUME NEW s \in Sessions, sessState'[s] = "starting" PROVE sessState[s] = "starting"
  BY <1>1, <1>5 DEF RowStep, Sessions
<1>6. ASSUME NEW s \in Sessions, sessState'[s] = "starting", pc'[Boot] # "done", Retiring(s)
      PROVE  Retiring(s)'
  <2>1. job[Boot].kind = "retire" /\ job[Boot].target = s
    BY <1>6 DEF Retiring
  <2>2. Boot \in DOMAIN pc /\ Boot \in DOMAIN job /\ job[Boot] \in Job
    BY <1>1 DEF ControlType
  <2>3. (NoteFailure(Boot) \/ UNCHANGED job) => job'[Boot].kind = "retire" /\ job'[Boot].target = s
    BY <2>1, <2>2 DEF NoteFailure, Job
  <2>4. ~Raise(Boot)
    BY <1>6, <2>2 DEF Raise, Goto
  <2>5. ~FailSessionLaunches(Boot)
    BY <1>1, <1>5, <1>6, <2>1 DEF FailSessionLaunches, TargetInv
  <2>6. NoteFailure(Boot) \/ UNCHANGED job
    BY <2>4, <2>5 DEF TeardownStep, CheckAlive, Kill, Recheck, RemoveNetwork, RemoveRules,
                      InvalidatePrivate, ReleaseLeases, RetireSettle
  <2> QED BY <2>3, <2>6 DEF Retiring
<1>7. pc'[Boot] # "done" =>
         \A s \in Sessions : sessState'[s] = "starting" => s \in todo' \/ Retiring(s)'
  BY <1>2, <1>5, <1>6
<1> QED BY <1>2, <1>3, <1>4, <1>7 DEF BootInv

-----------------------------------------------------------------------------
(* The environment, the crash, and the invariant *)

\* What the environment does to containers and leases, or no step at all.
LEMMA EnvSteps ==
    ASSUME SessionInv,
           \/ \E s \in Launches : LateRun(s) \/ ContainerExits(s) \/ AcquireLease(s) \/ ReleaseLease(s)
           \/ UNCHANGED vars
    PROVE  (\A p \in Procs : ProcInv(p)') /\ BootInv'
<1>1. /\ UNCHANGED <<sessState, verified, launchState, owners, pc, job, todo, net, rules, secrets>>
      /\ faults' \in {faults, faults + 1}
  BY FaultCount DEF LateRun, ContainerExits, AcquireLease, ReleaseLease, vars, db, host, budget
<1>2. \A s \in Sessions :
         /\ s \in running' => s \in running \/ (s \in late /\ s \in net)
         /\ s \in late' => s \in late
  BY DEF LateRun, ContainerExits, AcquireLease, ReleaseLease, vars, host
<1>3. UNCHANGED Up /\ \A s \in Sessions : Retiring(s)' <=> Retiring(s)
  BY <1>1 DEF Up, Retiring
<1>4. BootInv'
  <2>1. BootInv
    BY DEF SessionInv
  <2> QED BY <1>1, <1>3, <2>1 DEF BootInv
<1>5. ASSUME NEW p \in Procs PROVE ProcInv(p)'
  <2>1. TargetInv(p) /\ CleanInv(p) /\ DataType
    BY OfProc
  <2>2. TargetInv(p)'
    BY <1>1, <2>1 DEF TargetInv
  <2>3. CleanInv(p)'
    BY <1>1, <2>1 DEF CleanInv
  <2>4. ASSUME p \in Launches PROVE WorkerInv(p)' /\ HostInv(p)'
    <3>1. WorkerInv(p) /\ HostInv(p) /\ p \in Sessions
      BY <2>4, OfProc DEF Sessions
    <3>2. Excused(p) => Excused(p)'
      BY <1>1, <1>3, <2>1, <3>1 DEF Excused, DataType
    <3>3. WorkerInv(p)'
      BY <1>1, <1>3, <3>1, <3>2 DEF WorkerInv
    <3>4. HostInv(p)'
      BY <1>1, <1>2, <3>1 DEF HostInv
    <3> QED BY <3>3, <3>4
  <2> QED BY <2>2, <2>3, <2>4 DEF ProcInv
<1> QED BY <1>4, <1>5

\* A crash loses every job and owner; rows and resources stay as they are.
LEMMA CrashStep ==
    ASSUME SessionInv, Crash
    PROVE  (\A p \in Procs : ProcInv(p)') /\ BootInv'
<1>1. /\ UNCHANGED <<sessState, verified, launchState, running, late, net, rules, secrets>>
      /\ owners' = {} /\ todo' = {}
  BY DEF Crash, db, host
<1>2. NoJob.kind = "none" /\ NoJob.target \notin Sessions
  BY ProcsAssumption DEF NoJob, MakeJob, Sessions
<1>3. \A p \in Procs : job'[p].kind = "none" /\ job'[p].target \notin Sessions
  BY <1>2 DEF Crash
<1>4. /\ pc'[Boot] = "done" /\ pc'[Stopper] = "idle"
      /\ \A l \in Launches : pc'[l] = IF launchState[l] = "absent" THEN "idle" ELSE "done"
  BY ProcsAssumption DEF Crash, Procs
<1>5. \A p \in Procs : pc'[p] \in {"idle", "done"}
  BY <1>4 DEF Procs
<1>6. ~Up'
  BY <1>4 DEF Up
<1>7. BootInv'
  BY <1>1, <1>4, <1>5 DEF BootInv
<1>8. ASSUME NEW p \in Procs PROVE ProcInv(p)'
  <2>1. TargetInv(p)'
    BY <1>3, <1>5 DEF TargetInv, TeardownPcs
  <2>2. CleanInv(p)'
    BY <1>3, <1>5 DEF CleanInv
  <2>3. ASSUME p \in Launches PROVE WorkerInv(p)' /\ HostInv(p)'
    <3>1. WorkerInv(p) /\ HostInv(p)
      BY <2>3, OfProc
    <3>2. launchState[p] = "absent" => sessState[p] = "absent"
      BY <3>1 DEF WorkerInv, FreshPcs
    <3>3. WorkerInv(p)'
      BY <1>1, <1>3, <1>4, <1>6, <2>3, <3>2 DEF WorkerInv, FreshPcs, StartPcs
    <3>4. HostInv(p)'
      BY <1>1, <1>5, <3>1 DEF HostInv
    <3> QED BY <3>3, <3>4
  <2> QED BY <2>1, <2>2, <2>3 DEF ProcInv
<1> QED BY <1>7, <1>8

\* The invariant holds initially.
LEMMA SessionInit == Init => SessionInv
<1> SUFFICES ASSUME Init PROVE SessionInv
  OBVIOUS
<1>1. ControlType /\ DataType /\ JobInv
  BY InitInv
<1>2. NoJob.kind = "none" /\ NoJob.target \notin Sessions
  BY ProcsAssumption DEF NoJob, MakeJob, Sessions
<1>3. \A p \in Procs : pc[p] = "idle" /\ job[p] = NoJob
  BY DEF Init
<1>4. Up
  BY <1>3, ProcsAssumption DEF Up, Procs
<1>5. ASSUME NEW p \in Procs PROVE ProcInv(p)
  <2>1. TargetInv(p)
    BY <1>2, <1>3 DEF TargetInv, TeardownPcs
  <2>2. CleanInv(p)
    BY <1>2, <1>3 DEF CleanInv
  <2>3. ASSUME p \in Launches PROVE WorkerInv(p) /\ HostInv(p)
    <3>1. WorkerInv(p)
      BY <1>2, <1>3, <2>3 DEF WorkerInv, FreshPcs, StartPcs, Init, Sessions
    <3>2. HostInv(p)
      BY <1>3, <2>3 DEF HostInv, Init, Sessions
    <3> QED BY <3>1, <3>2
  <2> QED BY <2>1, <2>2, <2>3 DEF ProcInv
<1>6. BootInv
  BY <1>4 DEF BootInv
<1> QED BY <1>1, <1>5, <1>6 DEF SessionInv

\* Every step keeps the invariant: each process keeps its own part, and the
\* guarantee keeps everybody else's.
LEMMA SessionStep ==
    ASSUME SessionInv, [Next]_vars
    PROVE  SessionInv'
<1>1. ControlType' /\ DataType' /\ JobInv'
  <2>1. ControlType /\ DataType /\ JobInv
    BY DEF SessionInv
  <2> QED BY <2>1, ControlStep, DataStep, JobStep
<1>2. ASSUME NEW p \in Procs, StepOf(p), ProcInv(p)', BootInv' PROVE SessionInv'
  <2>1. ASSUME NEW q \in Procs, q # p PROVE ProcInv(q)'
    <3>1. TargetInv(q)' /\ CleanInv(q)'
      BY <1>2, <2>1, TargetKept, CleanKept
    <3>2. q \in Launches => WorkerInv(q)' /\ HostInv(q)'
      BY <1>2, <2>1, WorkerKept, HostKept
    <3> QED BY <3>1, <3>2 DEF ProcInv
  <2> QED BY <1>1, <1>2, <2>1 DEF SessionInv
<1>3. ASSUME NEW p \in Procs, StepOf(p), ProcInv(p)', Up PROVE SessionInv'
  <2>1. BootInv'
    BY <1>3 DEF StepOf, ExcuseStep, BootInv
  <2> QED BY <1>2, <1>3, <2>1
<1>4. ASSUME NEW l \in Launches,
             Submit(l) \/ Schedule(l) \/ WorkerStep(l) \/ FollowTimeout(l)
      PROVE  SessionInv'
  <2>0. l \in Procs
    BY DEF Procs
  <2>1. CASE \/ Submit(l) \/ Schedule(l) \/ Begin(l) \/ Prepare(l) \/ Lookup(l) \/ Build(l)
             \/ ReuseRefused(l) \/ ReuseReady(l) \/ Attest(l) \/ PublishReuse(l)
             \/ ReuseStarting(l) \/ FollowDone(l) \/ FollowTimeout(l)
    BY <1>3, <2>0, <2>1, FreshSteps
  <2>2. CASE Claim(l)
    <3>1. Up
      BY <2>2 DEF SessionInv, BootInv, Claim
    <3> QED BY <1>3, <2>0, <2>2, <3>1, ClaimStep
  <2>3. CASE \/ Bind(l) \/ WriteSecrets(l) \/ CreateNetwork(l) \/ InstallRules(l) \/ VerifyPolicy(l)
             \/ RunContainer(l) \/ Probe(l) \/ Gates(l) \/ CommitReady(l) \/ PublishReady(l)
    <3>1. Up
      BY <2>3 DEF SessionInv, BootInv, Bind, WriteSecrets, CreateNetwork, InstallRules,
                  VerifyPolicy, RunContainer, Probe, Gates, CommitReady, PublishReady
    <3> QED BY <1>3, <2>0, <2>3, <3>1, StartSteps
  <2>4. CASE RollbackRead(l) \/ RollbackSettle(l) \/ FailLaunch(l) \/ Finally(l)
    <3>1. Up
      BY <2>4 DEF SessionInv, BootInv, RollbackRead, RollbackSettle, FailLaunch, Finally
    <3> QED BY <1>3, <2>0, <2>4, <3>1, EndSteps
  <2>5. CASE TeardownStep(l)
    <3>1. Up
      BY <2>5 DEF SessionInv, BootInv, TeardownStep, CheckAlive, Kill, Recheck, RemoveNetwork,
                  RemoveRules, InvalidatePrivate, ReleaseLeases, RetireSettle, FailSessionLaunches
    <3>2. StepOf(l) /\ ProcInv(l)'
      BY <2>0, <2>5, TeardownSteps, RetireSteps DEF TeardownStep
    <3> QED BY <1>3, <2>0, <3>1, <3>2
  <2> QED BY <1>4, <2>1, <2>2, <2>3, <2>4, <2>5 DEF WorkerStep
<1>5. CASE (\E l \in Launches : Stop(l)) \/ StopperStep
  <2>0. Stopper \in Procs
    BY DEF Procs
  <2>1. CASE \/ \E l \in Launches : Stop(l)
             \/ StopSettle \/ ReadRows \/ WriteRows
    BY <1>3, <2>0, <2>1, StopSteps
  <2>2. CASE TeardownStep(Stopper)
    <3>1. Up
      BY <2>2 DEF SessionInv, BootInv, TeardownStep, CheckAlive, Kill, Recheck, RemoveNetwork,
                  RemoveRules, InvalidatePrivate, ReleaseLeases, RetireSettle, FailSessionLaunches
    <3>2. StepOf(Stopper) /\ ProcInv(Stopper)'
      BY <2>0, <2>2, TeardownSteps, RetireSteps DEF TeardownStep
    <3> QED BY <1>3, <2>0, <3>1, <3>2
  <2> QED BY <1>5, <2>1, <2>2 DEF StopperStep
<1>6. CASE BootStep
  <2>0. Boot \in Procs
    BY DEF Procs
  <2>1. CASE Restart \/ Reconcile
    BY <1>2, <2>0, <2>1, BootSteps
  <2>2. CASE TeardownStep(Boot)
    <3>1. ~Up
      BY <2>2 DEF Up, TeardownStep, CheckAlive, Kill, Recheck, RemoveNetwork,
                  RemoveRules, InvalidatePrivate, ReleaseLeases, RetireSettle, FailSessionLaunches
    <3>2. StepOf(Boot) /\ ProcInv(Boot)' /\ Up' = Up
      BY <2>0, <2>2, TeardownSteps, RetireSteps DEF TeardownStep
    <3>3. BootInv'
      BY <2>2, <3>1, <3>2, BootTeardown
    <3> QED BY <1>2, <2>0, <3>2, <3>3
  <2> QED BY <1>6, <2>1, <2>2 DEF BootStep
<1>7. CASE Crash
  BY <1>1, <1>7, CrashStep DEF SessionInv
<1>8. CASE \/ \E s \in Launches : LateRun(s) \/ ContainerExits(s) \/ AcquireLease(s) \/ ReleaseLease(s)
           \/ UNCHANGED vars
  BY <1>1, <1>8, EnvSteps DEF SessionInv
<1> QED BY <1>4, <1>5, <1>6, <1>7, <1>8 DEF Next

-----------------------------------------------------------------------------
(* Theorems *)

\* The invariant holds in every reachable state, for any number of launches and
\* workspaces, any pool size and any number of faults, stops and crashes.
THEOREM SessionInvariant == Spec => []SessionInv
BY SessionInit, SessionStep, PTL DEF Spec

\* A session that the database calls failed has left nothing on the host, however
\* many operations failed on the way and whoever tore it down (rollback,
\* _retire_session): only a teardown without failures records it as failed, and
\* nobody who could put a resource back is at work on it any more.
THEOREM FailedSessionsAreClean == Spec => []FailedMeansClean
<1>1. ASSUME SessionInv PROVE FailedMeansClean
  <2>1. ASSUME NEW s \in Sessions PROVE HostInv(s)
    BY <1>1, <2>1 DEF SessionInv, ProcInv, Sessions, Procs
  <2> QED BY <2>1 DEF HostInv, FailedMeansClean
<1> QED BY <1>1, SessionInvariant, PTL

\* The container of a starting or ready session never runs without its network
\* and its firewall rules (apply, DockerRuntime.start, remove), also when a timed-out
\* docker run comes through during a teardown.
THEOREM RunningIsFiltered == Spec => []EgressWhileActive
<1>1. ASSUME SessionInv PROVE EgressWhileActive
  <2>1. ASSUME NEW s \in Sessions PROVE HostInv(s)
    BY <1>1, <2>1 DEF SessionInv, ProcInv, Sessions, Procs
  <2>2. running \subseteq Sessions
    BY <1>1 DEF SessionInv, DataType
  <2> QED BY <2>1, <2>2 DEF HostInv, EgressWhileActive
<1> QED BY <1>1, SessionInvariant, PTL

\* No retirement runs against a starting session whose owner is still at work
\* (_session_owners): an owner enters the table together with its row, so a session
\* once seen starting without an owner never gets one.
THEOREM RetireSparesOwners == Spec => []NoRetireUnderOwner
<1>1. SessionInv => NoRetireUnderOwner
  BY DEF SessionInv, ProcInv, TargetInv, NoRetireUnderOwner
<1> QED BY <1>1, SessionInvariant, PTL

\* While requests are served a starting session has an owner in this process, up to
\* the one exception of a rollback cut short by a file error (reconcile_starting_sessions,
\* run's finally clause), for any number of crashes and restarts.
THEOREM StartingSessionsAreOwned == Spec => []StartingHasOwner
<1>1. ASSUME SessionInv, Up, NEW s \in Sessions, sessState[s] = "starting"
      PROVE  s \in owners \/ Excused(s)
  <2>1. /\ TargetInv(s) /\ WorkerInv(s) /\ pc[s] \in Pcs /\ job[s].kind \in Kinds
        /\ s # Stopper /\ s # Boot
    BY <1>1, OfWorker DEF Sessions
  <2>2. CASE pc[s] \in TeardownPcs
    BY <1>1, <2>1, <2>2 DEF TargetInv, WorkerInv, Kinds
  <2>3. CASE pc[s] \in FreshPcs \cup StartPcs
    BY <1>1, <2>1, <2>3 DEF WorkerInv
  <2>4. CASE pc[s] \in {"publish", "fail", "finally", "done"}
    BY <1>1, <2>1, <2>4 DEF WorkerInv, Ended
  <2>5. pc[s] \notin {"readRows", "writeRows", "next"}
    BY <2>1 DEF TargetInv
  <2> QED BY <2>1, <2>2, <2>3, <2>4, <2>5 DEF Pcs, RunPcs, FreshPcs, StartPcs
<1>2. SessionInv => StartingHasOwner
  BY <1>1 DEF StartingHasOwner, Excused
<1> QED BY <1>2, SessionInvariant, PTL

-----------------------------------------------------------------------------
(***************************************************************************)
(* SessionLifecycle implements NotebookService.  What the refinement needs *)
(* beyond SessionInv: a worker only ever has sessions of its own workspace *)
(* in hand, one that publishes its session has recorded the gates, and a   *)
(* ready launch names a session that passed them.                          *)
(***************************************************************************)

WorkspaceInv ==
    \A l \in Launches :
        /\ pc[l] = "publish" => l \in verified
        /\ job[l].target \in Sessions => Ws[job[l].target] = Ws[l]

GivenInv == \A l \in Launches : launchState[l] = "ready" => launchSess[l] \in verified

RowsInv == rows \subseteq Launches \X {"starting", "ready"}

ServiceInv == SessionInv /\ WorkspaceInv /\ GivenInv /\ RowsInv

\* A step of one process keeps WorkspaceInv if its own label and target fit.
LEMMA WsStep ==
    ASSUME ControlType, WorkspaceInv, NEW p \in Procs, NEW label, NEW j,
           pc' = [pc EXCEPT ![p] = label], job' = [job EXCEPT ![p] = j],
           verified \subseteq verified', label = "publish" => p \in verified',
           p \in Launches /\ j.target \in Sessions => Ws[j.target] = Ws[p]
    PROVE  WorkspaceInv'
BY DEF ControlType, WorkspaceInv, Procs

\* A step that keeps the job, or notes a failure in it.
LEMMA WsGoto ==
    ASSUME ControlType, WorkspaceInv, NEW p \in Procs, NEW label, Goto(p, label),
           UNCHANGED job \/ NoteFailure(p),
           verified \subseteq verified', label = "publish" => p \in verified'
    PROVE  WorkspaceInv'
<1> DEFINE j == IF job' = job THEN job[p] ELSE [job[p] EXCEPT !.failed = TRUE]
<1>1. job[p] \in Job
  BY DEF ControlType
<1>2. job' = [job EXCEPT ![p] = j] /\ j.target = job[p].target
  BY <1>1 DEF ControlType, NoteFailure, Job
<1>3. p \in Launches /\ job[p].target \in Sessions => Ws[job[p].target] = Ws[p]
  BY DEF WorkspaceInv
<1> HIDE DEF j
<1> QED BY <1>2, <1>3, WsStep DEF Goto

\* A step that drops the job.
LEMMA WsDrop ==
    ASSUME ControlType, WorkspaceInv, NEW p \in Procs, NEW label, Goto(p, label),
           job' = [job EXCEPT ![p] = NoJob],
           verified \subseteq verified', label # "publish"
    PROVE  WorkspaceInv'
<1>1. NoJob.target \notin Sessions
  BY ProcsAssumption DEF NoJob, MakeJob, Sessions
<1> QED BY <1>1, WsStep DEF Goto

\* A teardown that begins, on a session of the same workspace if a worker begins it.
LEMMA WsTeardown ==
    ASSUME ControlType, WorkspaceInv, NEW p \in Procs, NEW s, NEW kind, NEW seen,
           NEW stopIf \in BOOLEAN, NEW plan \in BOOLEAN, NEW origin,
           Teardown(p, s, kind, seen, stopIf, plan, origin),
           p \in Launches /\ s \in Sessions => Ws[s] = Ws[p], verified \subseteq verified'
    PROVE  WorkspaceInv'
<1> DEFINE j == MakeJob(s, seen, kind, origin, stopIf, plan)
<1>1. j.target = s
  BY DEF MakeJob
<1> HIDE DEF j
<1>2. job' = [job EXCEPT ![p] = j] /\ pc' = [pc EXCEPT ![p] = "alive"]
  BY DEF Teardown, Goto, j
<1> QED BY <1>1, <1>2, WsStep

\* A worker that rolls its own session back.
LEMMA WsRollback ==
    ASSUME ControlType, WorkspaceInv, NEW l \in Launches, NEW plan \in BOOLEAN, Rollback(l, plan),
           verified \subseteq verified'
    PROVE  WorkspaceInv'
BY WsTeardown DEF Rollback, Procs

\* A worker that reads the row of its session again.
LEMMA WsSeen ==
    ASSUME ControlType, WorkspaceInv, NEW l \in Launches, NEW label, NEW st,
           Goto(l, label), job' = [job EXCEPT ![l].seen = st],
           verified \subseteq verified', label # "publish"
    PROVE  WorkspaceInv'
<1> DEFINE j == [job[l] EXCEPT !.seen = st]
<1>1. l \in Procs /\ job[l] \in Job
  BY DEF ControlType, Procs
<1>2. job' = [job EXCEPT ![l] = j] /\ j.target = job[l].target
  BY <1>1 DEF Job
<1>3. job[l].target \in Sessions => Ws[job[l].target] = Ws[l]
  BY DEF WorkspaceInv
<1> HIDE DEF j
<1> QED BY <1>1, <1>2, <1>3, WsStep DEF Goto

\* Every step keeps WorkspaceInv.
LEMMA WorkspaceStep ==
    ASSUME ControlType, WorkspaceInv, [Next]_vars
    PROVE  WorkspaceInv'
<1>0. Stopper \in Procs /\ Boot \in Procs /\ Launches \subseteq Procs
      /\ Stopper \notin Launches /\ Boot \notin Launches
  BY ProcsAssumption DEF Procs
<1>a. verified \subseteq verified'
  <2>1. ASSUME NEW l \in Launches,
               \/ Submit(l) \/ Schedule(l) \/ Begin(l) \/ Prepare(l) \/ Lookup(l)
               \/ ReuseRefused(l) \/ ReuseReady(l) \/ Attest(l) \/ PublishReuse(l)
               \/ ReuseStarting(l) \/ FollowDone(l) \/ FollowTimeout(l) \/ Build(l) \/ Claim(l)
        PROVE  UNCHANGED verified
    BY <2>1 DEF Submit, Schedule, Begin, Prepare, Lookup, ReuseRefused, ReuseReady, Attest,
                PublishReuse, ReuseStarting, FollowDone, FollowTimeout, Build, Claim, db
  <2>2. ASSUME NEW l \in Launches,
               \/ Bind(l) \/ WriteSecrets(l) \/ CreateNetwork(l) \/ InstallRules(l)
               \/ VerifyPolicy(l) \/ RunContainer(l) \/ Probe(l) \/ Gates(l) \/ PublishReady(l)
               \/ RollbackRead(l) \/ RollbackSettle(l) \/ FailLaunch(l) \/ Finally(l)
        PROVE  UNCHANGED verified
    BY <2>2 DEF Bind, WriteSecrets, CreateNetwork, InstallRules, VerifyPolicy, RunContainer,
                Probe, Gates, PublishReady, RollbackRead, RollbackSettle, FailLaunch, Finally, db
  <2>3. ASSUME NEW l \in Launches, CommitReady(l) PROVE verified \subseteq verified'
    BY <2>3 DEF CommitReady
  <2>4. ASSUME NEW p \in Procs, TeardownStep(p) PROVE UNCHANGED verified
    BY <2>4 DEF TeardownStep, CheckAlive, Kill, Recheck, RemoveNetwork, RemoveRules,
                InvalidatePrivate, ReleaseLeases, RetireSettle, FailSessionLaunches, db
  <2>5. ASSUME NEW s \in Launches,
               Stop(s) \/ LateRun(s) \/ ContainerExits(s) \/ AcquireLease(s) \/ ReleaseLease(s)
        PROVE  UNCHANGED verified
    BY <2>5 DEF Stop, LateRun, ContainerExits, AcquireLease, ReleaseLease, db
  <2>6. ASSUME StopSettle \/ ReadRows \/ WriteRows \/ Restart \/ Reconcile \/ Crash \/ UNCHANGED vars
        PROVE  UNCHANGED verified
    BY <2>6 DEF StopSettle, ReadRows, WriteRows, Restart, Reconcile, Crash, vars, db
  <2> QED BY <1>0, <2>1, <2>2, <2>3, <2>4, <2>5, <2>6 DEF Next, WorkerStep, StopperStep, BootStep
<1>b. ASSUME NEW l \in Launches, Abandon(l) PROVE WorkspaceInv'
  BY <1>0, <1>a, <1>b, WsDrop DEF Abandon
<1>c. ASSUME NEW l \in Launches, NEW seen, NEW stopIf \in BOOLEAN, NEW origin,
             Teardown(l, job[l].target, "retire", seen, stopIf, TRUE, origin)
      PROVE  WorkspaceInv'
  <2>1. job[l].target \in Sessions => Ws[job[l].target] = Ws[l]
    BY DEF WorkspaceInv
  <2> QED BY <1>0, <1>a, <1>c, <2>1, WsTeardown
<1>d. ASSUME NEW l \in Launches, NEW s \in ActiveSessions(Ws[l]), NEW origin,
             job' = [job EXCEPT ![l] = MakeJob(s, sessState[s], "none", origin, TRUE, FALSE)],
             Goto(l, "reuse")
      PROVE  WorkspaceInv'
  <2> DEFINE j == MakeJob(s, sessState[s], "none", origin, TRUE, FALSE)
  <2>1. j.target = s /\ Ws[s] = Ws[l]
    BY DEF ActiveSessions, MakeJob
  <2> HIDE DEF j
  <2>2. job' = [job EXCEPT ![l] = j] /\ pc' = [pc EXCEPT ![l] = "reuse"]
    BY <1>d DEF j, Goto
  <2> QED BY <1>0, <1>a, <2>1, <2>2, WsStep
<1>e. ASSUME NEW p \in Procs, Raise(p) PROVE WorkspaceInv'
  BY <1>0, <1>a, <1>e, WsDrop DEF Raise
<1>f. ASSUME UNCHANGED <<pc, job>> PROVE WorkspaceInv'
  BY <1>a, <1>f DEF WorkspaceInv
<1>1. ASSUME NEW l \in Launches,
             \/ Submit(l) \/ LateRun(l) \/ ContainerExits(l) \/ AcquireLease(l) \/ ReleaseLease(l)
      PROVE  WorkspaceInv'
  BY <1>1, <1>f DEF Submit, LateRun, ContainerExits, AcquireLease, ReleaseLease
<1>2. ASSUME NEW l \in Launches,
             \/ Schedule(l) \/ Begin(l) \/ Prepare(l) \/ ReuseRefused(l) \/ FollowTimeout(l)
             \/ Build(l) \/ FailLaunch(l) \/ Finally(l)
      PROVE  WorkspaceInv'
  BY <1>0, <1>2, <1>a, <1>b, WsGoto
  DEF Schedule, Begin, Prepare, ReuseRefused, FollowTimeout, Build, FailLaunch, Finally
<1>3. ASSUME NEW l \in Launches, Lookup(l) PROVE WorkspaceInv'
  BY <1>0, <1>3, <1>a, <1>d, WsGoto DEF Lookup
<1>4. ASSUME NEW l \in Launches, ReuseReady(l) \/ Attest(l) PROVE WorkspaceInv'
  BY <1>0, <1>4, <1>a, <1>b, <1>c, WsGoto DEF ReuseReady, Attest
<1>5. ASSUME NEW l \in Launches, PublishReuse(l) PROVE WorkspaceInv'
  BY <1>0, <1>5, <1>a, <1>b, WsDrop DEF PublishReuse
<1>6. ASSUME NEW l \in Launches, ReuseStarting(l) PROVE WorkspaceInv'
  <2>1. ASSUME UNCHANGED pc, job' = [job EXCEPT ![l].seen = sessState[job[l].target]]
        PROVE  WorkspaceInv'
    <3>1. Goto(l, pc[l]) /\ pc[l] = "reuse"
      BY <1>0, <1>6, <2>1 DEF Goto, ControlType, ReuseStarting
    <3> QED BY <1>a, <2>1, <3>1, WsSeen
  <2> QED BY <1>0, <1>6, <1>a, <1>b, <1>c, <2>1, WsGoto DEF ReuseStarting
<1>7. ASSUME NEW l \in Launches, FollowDone(l) PROVE WorkspaceInv'
  BY <1>7, <1>a, <1>b, WsSeen DEF FollowDone
<1>8. ASSUME NEW l \in Launches, Claim(l) PROVE WorkspaceInv'
  BY <1>0, <1>8, <1>a, <1>d, WsDrop DEF Claim
<1>9. ASSUME NEW l \in Launches,
             \/ Bind(l) \/ WriteSecrets(l) \/ CreateNetwork(l) \/ InstallRules(l)
             \/ VerifyPolicy(l) \/ RunContainer(l) \/ Probe(l) \/ Gates(l) \/ PublishReady(l)
      PROVE  WorkspaceInv'
  <2>1. \/ \E plan \in BOOLEAN : Rollback(l, plan)
        \/ \E label \in {"secrets", "create", "rules", "verify", "run", "probe", "gates",
                         "commit", "finally"} : Goto(l, label) /\ UNCHANGED job
    BY <1>9 DEF Bind, WriteSecrets, CreateNetwork, InstallRules, VerifyPolicy, RunContainer,
                Probe, Gates, PublishReady
  <2> QED BY <1>0, <1>a, <2>1, WsGoto, WsRollback
<1>10. ASSUME NEW l \in Launches, CommitReady(l) PROVE WorkspaceInv'
  BY <1>0, <1>10, <1>a, WsGoto, WsRollback DEF CommitReady
<1>11. ASSUME NEW l \in Launches, RollbackRead(l) PROVE WorkspaceInv'
  BY <1>11, <1>a, WsSeen DEF RollbackRead
<1>12. ASSUME NEW l \in Launches, RollbackSettle(l) PROVE WorkspaceInv'
  BY <1>12, <1>b DEF RollbackSettle
<1>13. ASSUME NEW p \in Procs, TeardownStep(p) PROVE WorkspaceInv'
  <2>1. CASE \/ CheckAlive(p) \/ Kill(p) \/ Recheck(p) \/ RemoveNetwork(p) \/ RemoveRules(p)
    BY <1>a, <2>1, WsGoto DEF CheckAlive, Kill, Recheck, RemoveNetwork, RemoveRules
  <2>2. CASE InvalidatePrivate(p) \/ RetireSettle(p)
    BY <1>a, <1>e, <2>2, WsGoto DEF InvalidatePrivate, RetireSettle
  <2>3. CASE ReleaseLeases(p)
    <3>1. \E label \in {"settle", "readRows", "settleCas"} : Goto(p, label)
      BY <2>3 DEF ReleaseLeases
    <3> QED BY <1>a, <2>3, <3>1, WsGoto DEF ReleaseLeases
  <2>4. CASE FailSessionLaunches(p)
    BY <1>a, <2>4, WsDrop DEF FailSessionLaunches
  <2> QED BY <1>13, <2>1, <2>2, <2>3, <2>4 DEF TeardownStep
<1>14. ASSUME NEW l \in Launches, Stop(l) PROVE WorkspaceInv'
  <2>1. ASSUME Teardown(Stopper, l, "stop", "stopping", TRUE, TRUE, "none") PROVE WorkspaceInv'
    BY <1>0, <1>a, <2>1, WsTeardown
  <2>2. ASSUME Goto(Stopper, "private"), NEW j, job' = [job EXCEPT ![Stopper] = j] PROVE WorkspaceInv'
    BY <1>0, <1>a, <2>2, WsStep DEF Goto
  <2> QED BY <1>14, <2>1, <2>2 DEF Stop
<1>15. CASE StopSettle \/ ReadRows \/ WriteRows
  BY <1>0, <1>15, <1>a, <1>e, <1>f, WsGoto, WsDrop DEF StopSettle, ReadRows, WriteRows
<1>16. CASE Restart \/ Reconcile
  <2>1. ASSUME NEW s, Teardown(Boot, s, "retire", "starting", TRUE, TRUE, "none") PROVE WorkspaceInv'
    BY <1>0, <1>a, <2>1, WsTeardown
  <2> QED BY <1>0, <1>16, <1>a, <2>1, WsGoto DEF Restart, Reconcile
<1>17. CASE Crash
  <2>1. NoJob.target \notin Sessions
    BY ProcsAssumption DEF NoJob, MakeJob, Sessions
  <2>2. \A l \in Launches : job'[l] = NoJob /\ pc'[l] # "publish"
    BY <1>0, <1>17 DEF Crash
  <2> QED BY <2>1, <2>2 DEF WorkspaceInv
<1>18. CASE UNCHANGED vars
  BY <1>18, <1>f DEF vars
<1> QED BY <1>0, <1>1, <1>2, <1>3, <1>4, <1>5, <1>6, <1>7, <1>8, <1>9, <1>10, <1>11, <1>12, <1>13,
           <1>14, <1>15, <1>16, <1>17, <1>18
  DEF Next, WorkerStep, StopperStep, BootStep

\* What a step may do to the two tables, by the service's lights: accept a launch,
\* take it up or bind it, give it a session, answer launches, or move one session on.
Accepted(l) ==
    /\ launchState[l] = "absent" /\ launchState' = [launchState EXCEPT ![l] = "authorized"]
    /\ UNCHANGED <<sessState, verified, launchSess>>
Taken(l) ==
    /\ launchState[l] \in {"authorized", "starting"}
    /\ launchState' = [launchState EXCEPT ![l] = "starting"]
    /\ launchSess' = launchSess \/ \E s \in Sessions : launchSess' = [launchSess EXCEPT ![l] = s]
    /\ UNCHANGED <<sessState, verified>>
Granted(l, s) ==
    /\ launchState[l] = "starting" /\ launchState' = [launchState EXCEPT ![l] = "ready"]
    /\ Ws[s] = Ws[l] /\ launchSess' = [launchSess EXCEPT ![l] = s]
    /\ UNCHANGED <<sessState, verified>>
Answered ==
    /\ launchState' \in [Launches -> LaunchStates]
    /\ \A l \in Launches :
          \/ launchState'[l] = launchState[l]
          \/ launchState[l] \in {"authorized", "starting"} /\ launchState'[l] \in {"failed", "stopped"}
          \/ launchState[l] = "ready" /\ launchState'[l] = "stopped"
    /\ UNCHANGED <<sessState, verified, launchSess>>
Claimed(s) ==
    /\ sessState[s] = "absent" /\ launchState[s] # "absent" /\ ActiveSessions(Ws[s]) = {}
    /\ sessState' = [sessState EXCEPT ![s] = "starting"]
    /\ UNCHANGED <<verified, launchState, launchSess>>
Served(s) ==
    /\ sessState[s] = "starting" /\ sessState' = [sessState EXCEPT ![s] = "ready"]
    /\ verified' = verified \cup {s}
    /\ UNCHANGED <<launchState, launchSess>>
Drained(s) ==
    /\ sessState[s] \in {"starting", "ready"} /\ sessState' = [sessState EXCEPT ![s] = "stopping"]
    /\ UNCHANGED <<verified, launchState, launchSess>>
Ends(s, end) ==
    /\ sessState[s] \in ActiveStates /\ sessState' = [sessState EXCEPT ![s] = end]
    /\ UNCHANGED <<verified, launchState, launchSess>>

TableStep ==
    \/ UNCHANGED <<sessState, verified, launchState, launchSess>>
    \/ Answered
    \/ \E l \in Launches : Accepted(l) \/ Taken(l) \/ \E s \in verified : Granted(l, s)
    \/ \E s \in Sessions :
          Claimed(s) \/ Served(s) \/ Drained(s) \/ \E end \in TerminalStates : Ends(s, end)

\* Every step changes the tables in one of these ways.
LEMMA TableSteps ==
    ASSUME ServiceInv, [Next]_vars
    PROVE  TableStep
<1>0. /\ SessionInv /\ ControlType /\ DataType /\ JobInv /\ WorkspaceInv
      /\ Stopper \in Procs /\ Boot \in Procs /\ Launches \subseteq Procs /\ Sessions = Launches
  BY DEF ServiceInv, SessionInv, Procs, Sessions
<1>1. ASSUME NEW l \in Launches,
             \/ Schedule(l) \/ Prepare(l) \/ Lookup(l) \/ ReuseRefused(l) \/ ReuseReady(l) \/ Attest(l)
             \/ FollowDone(l) \/ FollowTimeout(l) \/ Build(l)
             \/ WriteSecrets(l) \/ CreateNetwork(l) \/ InstallRules(l) \/ VerifyPolicy(l)
             \/ RunContainer(l) \/ Probe(l) \/ Gates(l) \/ RollbackRead(l) \/ Finally(l)
      PROVE  TableStep
  BY <1>1 DEF Schedule, Prepare, Lookup, ReuseRefused, ReuseReady, Attest, FollowDone, FollowTimeout,
              Build, WriteSecrets, CreateNetwork, InstallRules, VerifyPolicy, RunContainer, Probe,
              Gates, RollbackRead, Finally, db, TableStep
<1>2. ASSUME NEW p \in Procs,
             \/ CheckAlive(p) \/ Kill(p) \/ Recheck(p) \/ RemoveNetwork(p) \/ RemoveRules(p)
             \/ InvalidatePrivate(p) \/ ReleaseLeases(p)
      PROVE  TableStep
  BY <1>2 DEF CheckAlive, Kill, Recheck, RemoveNetwork, RemoveRules, InvalidatePrivate,
              ReleaseLeases, db, TableStep
<1>3. ASSUME NEW s \in Launches,
             LateRun(s) \/ ContainerExits(s) \/ AcquireLease(s) \/ ReleaseLease(s)
      PROVE  TableStep
  BY <1>3 DEF LateRun, ContainerExits, AcquireLease, ReleaseLease, db, TableStep
<1>4. CASE ReadRows \/ Restart \/ Reconcile \/ Crash \/ UNCHANGED vars
  BY <1>4 DEF ReadRows, Restart, Reconcile, Crash, vars, db, TableStep
<1>5. ASSUME NEW l \in Launches, Submit(l) PROVE TableStep
  <2>1. Accepted(l)
    BY <1>5 DEF Submit, Accepted
  <2> QED BY <2>1 DEF TableStep
<1>6. ASSUME NEW l \in Launches, Begin(l) PROVE TableStep
  <2>1. Taken(l)
    BY <1>6 DEF Begin, UpdateLaunch, Taken
  <2> QED BY <2>1 DEF TableStep
<1>7. ASSUME NEW l \in Launches, PublishReuse(l) PROVE TableStep
  <2>1. CASE UNCHANGED <<launchState, launchSess>>
    BY <1>7, <2>1 DEF PublishReuse, TableStep
  <2>2. ASSUME UpdateLaunch(l, {"starting"}, "ready", job[l].target) PROVE TableStep
    <3>1. TargetInv(l)
      BY <1>0, OfWorker
    <3>2. job[l].target \in Sessions /\ job[l].target \in verified /\ job[l].target # None
      BY <1>0, <1>7, <3>1, ProcsAssumption DEF PublishReuse, TargetInv
    <3>3. Granted(l, job[l].target)
      BY <1>0, <1>7, <2>2, <3>2 DEF PublishReuse, Granted, UpdateLaunch, WorkspaceInv
    <3> QED BY <3>2, <3>3 DEF TableStep
  <2> QED BY <1>7, <2>1, <2>2 DEF PublishReuse
<1>8. ASSUME NEW l \in Launches, ReuseStarting(l) \/ Bind(l) PROVE TableStep
  <2>1. CASE UNCHANGED <<launchState, launchSess>>
    BY <1>8, <2>1 DEF ReuseStarting, Bind, TableStep
  <2>2. ASSUME NEW s \in Sessions, UpdateLaunch(l, {"starting"}, "starting", s) PROVE TableStep
    <3>1. s # None
      BY <1>0, ProcsAssumption
    <3>2. Taken(l)
      BY <1>8, <2>2, <3>1 DEF ReuseStarting, Bind, Taken, UpdateLaunch
    <3> QED BY <3>2 DEF TableStep
  <2>3. ReuseStarting(l) => job[l].target \in Sessions
    BY <1>0 DEF ReuseStarting, JobInv
  <2> QED BY <1>0, <1>8, <2>1, <2>2, <2>3 DEF ReuseStarting, Bind
<1>9. ASSUME NEW l \in Launches, PublishReady(l) PROVE TableStep
  <2>1. CASE UNCHANGED <<launchState, launchSess>>
    BY <1>9, <2>1 DEF PublishReady, TableStep
  <2>2. ASSUME UpdateLaunch(l, {"starting"}, "ready", l) PROVE TableStep
    <3>1. l \in verified /\ l # None
      BY <1>0, <1>9, ProcsAssumption DEF PublishReady, WorkspaceInv
    <3>2. Granted(l, l)
      BY <1>9, <2>2, <3>1 DEF PublishReady, Granted, UpdateLaunch
    <3> QED BY <3>1, <3>2 DEF TableStep
  <2> QED BY <1>9, <2>1, <2>2 DEF PublishReady
<1>10. ASSUME NEW l \in Launches, FailLaunch(l) PROVE TableStep
  <2>1. Answered
    BY <1>0, <1>10 DEF FailLaunch, Answered, DataType, LaunchStates
  <2> QED BY <2>1 DEF TableStep
<1>11. ASSUME NEW p \in Procs, FailSessionLaunches(p) PROVE TableStep
  <2>1. Answered
    BY <1>0, <1>11 DEF FailSessionLaunches, Answered, DataType, LaunchStates
  <2> QED BY <2>1 DEF TableStep
<1>12. CASE WriteRows
  <2>1. \A l \in Launches : <<l, launchState[l]>> \in rows => launchState[l] \in {"starting", "ready"}
    BY DEF ServiceInv, RowsInv
  <2>2. Answered
    BY <1>0, <1>12, <2>1 DEF WriteRows, Answered, DataType, LaunchStates
  <2> QED BY <2>2 DEF TableStep
<1>13. ASSUME NEW l \in Launches, Claim(l) PROVE TableStep
  <2>1. CASE UNCHANGED sessState
    BY <1>13, <2>1 DEF Claim, TableStep
  <2>2. ASSUME ActiveSessions(Ws[l]) = {}, sessState' = [sessState EXCEPT ![l] = "starting"]
        PROVE  TableStep
    <3>1. sessState[l] = "absent" /\ launchState[l] # "absent"
      BY <1>0, <1>13, OfWorker DEF Claim, WorkerInv, FreshPcs
    <3>2. Claimed(l)
      BY <1>13, <2>2, <3>1 DEF Claim, Claimed
    <3> QED BY <1>0, <3>2 DEF TableStep
  <2> QED BY <1>13, <2>1, <2>2 DEF Claim
<1>14. ASSUME NEW l \in Launches, CommitReady(l) PROVE TableStep
  <2>1. CASE UNCHANGED <<sessState, verified>>
    BY <1>14, <2>1 DEF CommitReady, TableStep
  <2>2. ASSUME TransitionSession(l, {"starting"}, "ready"), verified' = verified \cup {l}
        PROVE  TableStep
    <3>1. Served(l)
      BY <1>14, <2>2 DEF CommitReady, Served, TransitionSession
    <3> QED BY <1>0, <3>1 DEF TableStep
  <2> QED BY <1>14, <2>1, <2>2 DEF CommitReady
\* a session row that moves to stopping or to its end
<1>15. ASSUME NEW s \in Sessions, NEW from, NEW new \in {"stopping"} \cup TerminalStates,
              TransitionSession(s, from, new), from \subseteq ActiveStates,
              new = "stopping" => from \subseteq {"starting", "ready"},
              UNCHANGED <<verified, launchState, launchSess>>
       PROVE  TableStep
  <2>1. CASE new = "stopping"
    <3>1. Drained(s)
      BY <1>15, <2>1 DEF Drained, TransitionSession
    <3> QED BY <3>1 DEF TableStep
  <2>2. CASE new \in TerminalStates
    <3>1. Ends(s, new)
      BY <1>15, <2>2 DEF Ends, TransitionSession
    <3> QED BY <2>2, <3>1 DEF TableStep
  <2> QED BY <1>15, <2>1, <2>2
<1>16. ASSUME NEW l \in Launches, RollbackSettle(l) PROVE TableStep
  <2>1. CASE UNCHANGED sessState
    BY <1>16, <2>1 DEF RollbackSettle, TableStep
  <2>2. ASSUME TransitionSession(l, {"starting", "stopping"} \cap {job[l].seen}, "failed")
        PROVE  TableStep
    <3>1. {"starting", "stopping"} \cap {job[l].seen} \subseteq ActiveStates
      BY DEF ActiveStates
    <3> QED BY <1>0, <1>15, <1>16, <2>2, <3>1 DEF RollbackSettle, TerminalStates
  <2>3. ASSUME TransitionSession(l, {"starting"} \cap {job[l].seen}, "stopping")
        PROVE  TableStep
    <3>1. /\ {"starting"} \cap {job[l].seen} \subseteq ActiveStates
          /\ {"starting"} \cap {job[l].seen} \subseteq {"starting", "ready"}
      BY DEF ActiveStates
    <3> QED BY <1>0, <1>15, <1>16, <2>3, <3>1 DEF RollbackSettle
  <2> QED BY <1>16, <2>1, <2>2, <2>3 DEF RollbackSettle
<1>17. ASSUME NEW p \in Procs, RetireSettle(p) PROVE TableStep
  <2>0. job[p].target \in Sessions /\ job[p].seen \in {"starting", "ready"}
        /\ UNCHANGED <<verified, launchState, launchSess>>
    BY <1>0, <1>17, OfProc DEF RetireSettle, TargetInv, JobInv
  <2>1. CASE UNCHANGED sessState
    BY <2>0, <2>1 DEF TableStep
  <2>2. ASSUME NEW new \in {"stopping", "failed"}, TransitionSession(job[p].target, {job[p].seen}, new)
        PROVE  TableStep
    <3>1. {job[p].seen} \subseteq ActiveStates /\ {job[p].seen} \subseteq {"starting", "ready"}
      BY <2>0 DEF ActiveStates
    <3> QED BY <1>15, <2>0, <2>2, <3>1 DEF TerminalStates
  <2> QED BY <1>17, <2>1, <2>2 DEF RetireSettle
<1>18. ASSUME NEW l \in Launches, Stop(l) PROVE TableStep
  <2>1. CASE UNCHANGED sessState
    BY <1>18, <2>1 DEF Stop, TableStep
  <2>2. ASSUME TransitionSession(l, {"starting", "ready"}, "stopping") PROVE TableStep
    <3>1. {"starting", "ready"} \subseteq ActiveStates
      BY DEF ActiveStates
    <3> QED BY <1>0, <1>15, <1>18, <2>2, <3>1 DEF Stop
  <2> QED BY <1>18, <2>1, <2>2 DEF Stop
<1>19. CASE StopSettle
  <2>1. CASE UNCHANGED sessState
    BY <1>19, <2>1 DEF StopSettle, TableStep
  <2>2. ASSUME TransitionSession(job[Stopper].target, {"stopping"}, "stopped") PROVE TableStep
    <3>1. {"stopping"} \subseteq ActiveStates /\ job[Stopper].target \in Sessions
      BY <1>0, <1>19, OfProc DEF ActiveStates, StopSettle, TargetInv, TeardownPcs
    <3> QED BY <1>15, <1>19, <2>2, <3>1 DEF StopSettle, TerminalStates
  <2> QED BY <1>19, <2>1, <2>2 DEF StopSettle
<1> QED BY <1>0, <1>1, <1>2, <1>3, <1>4, <1>5, <1>6, <1>7, <1>8, <1>9, <1>10, <1>11, <1>12, <1>13,
           <1>14, <1>16, <1>17, <1>18, <1>19
  DEF Next, WorkerStep, StopperStep, BootStep, TeardownStep

\* What the stop handler has read of the launches is starting or ready.
LEMMA RowsStep ==
    ASSUME RowsInv, [Next]_vars
    PROVE  RowsInv'
<1>1. ASSUME NEW l \in Launches,
             \/ Submit(l) \/ Schedule(l) \/ Begin(l) \/ Prepare(l) \/ Lookup(l)
             \/ ReuseRefused(l) \/ ReuseReady(l) \/ Attest(l) \/ PublishReuse(l)
             \/ ReuseStarting(l) \/ FollowDone(l) \/ FollowTimeout(l) \/ Build(l) \/ Claim(l)
      PROVE  UNCHANGED rows
  BY <1>1 DEF Submit, Schedule, Begin, Prepare, Lookup, ReuseRefused, ReuseReady, Attest,
              PublishReuse, ReuseStarting, FollowDone, FollowTimeout, Build, Claim
<1>2. ASSUME NEW l \in Launches,
             \/ Bind(l) \/ WriteSecrets(l) \/ CreateNetwork(l) \/ InstallRules(l)
             \/ VerifyPolicy(l) \/ RunContainer(l) \/ Probe(l) \/ Gates(l) \/ CommitReady(l)
             \/ PublishReady(l) \/ RollbackRead(l) \/ RollbackSettle(l) \/ FailLaunch(l) \/ Finally(l)
      PROVE  UNCHANGED rows
  BY <1>2 DEF Bind, WriteSecrets, CreateNetwork, InstallRules, VerifyPolicy, RunContainer, Probe,
              Gates, CommitReady, PublishReady, RollbackRead, RollbackSettle, FailLaunch, Finally
<1>3. ASSUME NEW p \in Procs, TeardownStep(p) PROVE UNCHANGED rows
  BY <1>3 DEF TeardownStep, CheckAlive, Kill, Recheck, RemoveNetwork, RemoveRules,
              InvalidatePrivate, ReleaseLeases, RetireSettle, FailSessionLaunches
<1>4. ASSUME NEW s \in Launches,
             Stop(s) \/ LateRun(s) \/ ContainerExits(s) \/ AcquireLease(s) \/ ReleaseLease(s)
      PROVE  UNCHANGED rows
  BY <1>4 DEF Stop, LateRun, ContainerExits, AcquireLease, ReleaseLease
<1>5. ASSUME StopSettle \/ Restart \/ Reconcile \/ UNCHANGED vars PROVE UNCHANGED rows
  BY <1>5 DEF StopSettle, Restart, Reconcile, vars
<1>6. ASSUME WriteRows \/ Crash PROVE rows' \subseteq rows
  BY <1>6 DEF WriteRows, Crash
<1>7. ASSUME ReadRows PROVE RowsInv'
  BY <1>7 DEF ReadRows, RowsInv
<1>8. rows' \subseteq rows => RowsInv'
  BY DEF RowsInv
<1> QED BY <1>1, <1>2, <1>3, <1>4, <1>5, <1>6, <1>7, <1>8
  DEF Next, WorkerStep, StopperStep, BootStep, Procs

\* A ready launch keeps naming a session that passed its gates.
LEMMA GivenStep ==
    ASSUME DataType, GivenInv, TableStep
    PROVE  GivenInv'
<1> USE DEF GivenInv
<1>1. CASE UNCHANGED <<sessState, verified, launchState, launchSess>>
  BY <1>1
<1>2. CASE Answered
  BY <1>2 DEF Answered
<1>3. ASSUME NEW l \in Launches, Accepted(l) PROVE GivenInv'
  BY <1>3 DEF Accepted, DataType
<1>4. ASSUME NEW l \in Launches, Taken(l) PROVE GivenInv'
  BY <1>4 DEF Taken, DataType
<1>5. ASSUME NEW l \in Launches, NEW s \in verified, Granted(l, s) PROVE GivenInv'
  BY <1>5 DEF Granted, DataType
<1>6. ASSUME NEW s \in Sessions,
             Claimed(s) \/ Served(s) \/ Drained(s) \/ \E end \in TerminalStates : Ends(s, end)
      PROVE  GivenInv'
  BY <1>6 DEF Claimed, Served, Drained, Ends
<1> QED BY <1>1, <1>2, <1>3, <1>4, <1>5, <1>6 DEF TableStep

\* The invariant of the refinement is inductive.
LEMMA ServiceStep ==
    ASSUME ServiceInv, [Next]_vars
    PROVE  ServiceInv'
<1>1. SessionInv /\ WorkspaceInv /\ GivenInv /\ RowsInv /\ ControlType /\ DataType
  BY DEF ServiceInv, SessionInv
<1>2. TableStep
  BY TableSteps
<1> QED BY <1>1, <1>2, SessionStep, WorkspaceStep, GivenStep, RowsStep DEF ServiceInv

\* It holds initially.
LEMMA ServiceInit == Init => ServiceInv
<1> SUFFICES ASSUME Init PROVE ServiceInv
  OBVIOUS
<1>1. NoJob.target \notin Sessions
  BY ProcsAssumption DEF NoJob, MakeJob, Sessions
<1>2. WorkspaceInv /\ GivenInv /\ RowsInv
  BY <1>1 DEF Init, WorkspaceInv, GivenInv, RowsInv, Procs
<1> QED BY <1>2, SessionInit DEF ServiceInv

-----------------------------------------------------------------------------
(* The refinement mapping *)

\* The phases, state by state.
LEMMA PhaseValues ==
    /\ PhaseOf("absent") = "fresh" /\ PhaseOf("starting") = "starting"
    /\ PhaseOf("ready") = "serving" /\ PhaseOf("stopping") = "draining"
    /\ PhaseOf("stopped") = "over" /\ PhaseOf("failed") = "over"
BY DEF PhaseOf, TerminalStates

\* The answers, state by state.
LEMMA AnswerValues ==
    /\ AnswerOf("absent") = "none"
    /\ AnswerOf("authorized") = "waiting" /\ AnswerOf("starting") = "waiting"
    /\ AnswerOf("ready") = "ready" /\ AnswerOf("failed") = "failed"
    /\ AnswerOf("stopped") = "stopped"
BY DEF AnswerOf

\* The service's view of the state.
Slots   == [w \in {Ws[l] : l \in Launches} |-> ActiveSessions(w)]
Phases  == [s \in Sessions |-> PhaseOf(sessState[s])]
Answers == [l \in Launches |-> AnswerOf(launchState[l])]
Givens  == [l \in Launches |-> IF launchState[l] = "ready" THEN launchSess[l] ELSE None]

\* A session that begins to serve or to drain does so in the service.
LEMMA MapServe ==
    ASSUME DataType, NEW s \in Sessions, Served(s) \/ Drained(s)
    PROVE  Service!Serve(s) \/ Service!Drain(s)
<1> USE PhaseValues DEF DataType
<1>1. /\ sessState'[s] \in {"ready", "stopping"}
      /\ sessState[s] \in {"starting", "ready"}
      /\ \A r \in Sessions : r # s => sessState'[r] = sessState[r]
      /\ UNCHANGED <<launchState, launchSess>>
  BY DEF Served, Drained
<1>2. \A w : ActiveSessions(w)' = ActiveSessions(w)
  BY <1>1 DEF ActiveSessions, ActiveStates
<1>3. UNCHANGED Slots /\ UNCHANGED Answers /\ UNCHANGED Givens
  BY <1>1, <1>2 DEF Slots, Answers, Givens
<1>4. CASE Served(s)
  <2>1. Phases[s] = "starting" /\ Phases' = [Phases EXCEPT ![s] = "serving"]
    BY <1>1, <1>4 DEF Phases, Served
  <2> QED BY <1>3, <1>4, <2>1 DEF Service!Serve, Served, Slots, Phases, Answers, Givens
<1>5. CASE Drained(s)
  <2>1. Phases[s] \in {"starting", "serving"} /\ Phases' = [Phases EXCEPT ![s] = "draining"]
    BY <1>1, <1>5 DEF Phases, Drained
  <2> QED BY <1>3, <1>5, <2>1 DEF Service!Drain, Drained, Slots, Phases, Answers, Givens
<1> QED BY <1>4, <1>5

\* A claim takes a free slot, and an end frees it.
LEMMA MapSlot ==
    ASSUME DataType, NEW s \in Sessions,
           Claimed(s) \/ \E end \in TerminalStates : Ends(s, end)
    PROVE  Service!Claim(s) \/ Service!Release(s)
<1> USE PhaseValues DEF DataType
<1>0. UNCHANGED Answers /\ UNCHANGED Givens /\ UNCHANGED verified
  BY DEF Claimed, Ends, Answers, Givens
<1>s. Ws[s] \in {Ws[l] : l \in Launches}
  BY DEF Sessions
<1>1. CASE Claimed(s)
  <2>1. \A w : ActiveSessions(w)' = IF w = Ws[s] THEN {s} ELSE ActiveSessions(w)
    BY <1>1 DEF Claimed, ActiveSessions, ActiveStates
  <2>2. Slots[Ws[s]] = {} /\ Slots' = [Slots EXCEPT ![Ws[s]] = {s}]
    BY <1>1, <1>s, <2>1 DEF Slots, Claimed
  <2>3. Phases[s] = "fresh" /\ Phases' = [Phases EXCEPT ![s] = "starting"]
    BY <1>1 DEF Phases, Claimed
  <2>4. Answers[s] # "none"
    BY <1>1, AnswerValues DEF Answers, Claimed, Sessions, LaunchStates
  <2> QED BY <1>0, <2>2, <2>3, <2>4 DEF Service!Claim, Slots, Phases, Answers, Givens
<1>2. ASSUME NEW end \in TerminalStates, Ends(s, end) PROVE Service!Release(s)
  <2>1. \A w : ActiveSessions(w)' = IF w = Ws[s] THEN ActiveSessions(w) \ {s} ELSE ActiveSessions(w)
    BY <1>2 DEF Ends, ActiveSessions, ActiveStates, TerminalStates
  <2>2. Slots' = [Slots EXCEPT ![Ws[s]] = Slots[Ws[s]] \ {s}]
    BY <1>s, <2>1 DEF Slots
  <2>3. /\ Phases[s] \in {"starting", "serving", "draining"}
        /\ Phases' = [Phases EXCEPT ![s] = "over"]
    BY <1>2 DEF Phases, Ends, ActiveStates, TerminalStates
  <2> QED BY <1>0, <2>2, <2>3 DEF Service!Release, Slots, Phases, Answers, Givens
<1> QED BY <1>1, <1>2

\* Steps on the launches alone leave the slots and the phases as they are.
LEMMA MapStill ==
    ASSUME UNCHANGED <<sessState, verified>>
    PROVE  UNCHANGED Slots /\ UNCHANGED Phases
<1>1. \A w : ActiveSessions(w)' = ActiveSessions(w)
  BY DEF ActiveSessions
<1> QED BY <1>1 DEF Slots, Phases

\* An accepted launch is accepted; one taken up or bound still waits.
LEMMA MapAccept ==
    ASSUME DataType, NEW l \in Launches, Accepted(l) \/ Taken(l)
    PROVE  Service!Accept(l) \/ UNCHANGED Service!svars
<1> USE AnswerValues DEF DataType
<1>1. UNCHANGED Slots /\ UNCHANGED Phases /\ UNCHANGED verified
  BY MapStill DEF Accepted, Taken
<1>2. CASE Accepted(l)
  <2>1. /\ Answers[l] = "none" /\ Answers' = [Answers EXCEPT ![l] = "waiting"]
        /\ UNCHANGED Givens
    BY <1>2 DEF Accepted, Answers, Givens
  <2> QED BY <1>1, <2>1 DEF Service!Accept, Slots, Phases, Answers, Givens
<1>3. CASE Taken(l)
  <2>1. /\ launchState' = [launchState EXCEPT ![l] = "starting"]
        /\ launchState[l] \in {"authorized", "starting"}
        /\ \A k \in Launches : k # l => launchSess'[k] = launchSess[k]
    BY <1>3 DEF Taken
  <2>2. UNCHANGED Answers /\ UNCHANGED Givens
    BY <2>1 DEF Answers, Givens
  <2> QED BY <1>1, <2>2 DEF Service!svars, Slots, Phases, Answers, Givens
<1> QED BY <1>2, <1>3

\* A launch that gets a session, and launches that fail or are stopped, are answered.
LEMMA MapAnswer ==
    ASSUME DataType, GivenInv, GivenInv',
           Answered \/ \E l \in Launches : \E s \in verified : Granted(l, s)
    PROVE  Service!Answer \/ UNCHANGED Service!svars
<1> USE AnswerValues DEF DataType
<1>1. UNCHANGED Slots /\ UNCHANGED Phases /\ UNCHANGED verified
  BY MapStill DEF Answered, Granted
<1>2. Givens' \in [Launches -> verified \cup {None}]
  BY <1>1 DEF Givens, GivenInv
<1>3. CASE Answered
  <2>1. \A l \in Launches : launchState[l] \in LaunchStates /\ launchState'[l] \in LaunchStates
    BY <1>3 DEF Answered
  <2>2. Answers' \in [Launches -> {"none", "waiting", "ready", "failed", "stopped"}]
    BY <2>1 DEF Answers, LaunchStates
  <2>3. ASSUME NEW l \in Launches, launchState'[l] # launchState[l]
        PROVE  /\ Answers'[l] # Answers[l] /\ Answers'[l] # "ready" /\ Givens'[l] = None
               /\ \/ Answers[l] = "waiting" /\ Answers'[l] \in {"ready", "failed", "stopped"}
                  \/ Answers[l] = "ready" /\ Answers'[l] = "stopped"
    BY <1>3, <2>3 DEF Answered, Answers, Givens
  <2>4. ASSUME NEW l \in Launches, launchState'[l] = launchState[l]
        PROVE  Answers'[l] = Answers[l] /\ Givens'[l] = Givens[l]
    BY <1>3, <2>4 DEF Answered, Answers, Givens
  <2>5. CASE Answers' = Answers
    <3>1. launchState' = launchState
      BY <1>3, <2>3, <2>5 DEF Answered
    <3>2. UNCHANGED Givens
      BY <1>3, <3>1 DEF Givens, Answered
    <3> QED BY <1>1, <2>5, <3>2 DEF Service!svars, Slots, Phases, Answers, Givens
  <2>6. CASE Answers' # Answers
    <3>1. \A l \in Launches : Answers'[l] # Answers[l] =>
             \/ Answers[l] = "waiting" /\ Answers'[l] \in {"ready", "failed", "stopped"}
             \/ Answers[l] = "ready" /\ Answers'[l] = "stopped"
      BY <2>3, <2>4
    <3>2. \A l \in Launches :
             IF Answers'[l] = Answers[l] THEN Givens'[l] = Givens[l]
             ELSE IF Answers'[l] = "ready" THEN Givens'[l] # None /\ Ws[Givens'[l]] = Ws[l]
             ELSE Givens'[l] = None
      BY <2>3, <2>4
    <3> QED BY <1>1, <1>2, <2>2, <2>6, <3>1, <3>2
      DEF Service!Answer, Slots, Phases, Answers, Givens
  <2> QED BY <2>5, <2>6
<1>4. ASSUME NEW l \in Launches, NEW s \in verified, Granted(l, s) PROVE Service!Answer
  <2>0. s # None
    BY ProcsAssumption DEF Sessions
  <2>1. /\ Answers[l] = "waiting" /\ Answers'[l] = "ready" /\ Givens'[l] = s /\ Ws[s] = Ws[l]
        /\ \A k \in Launches : k # l => Answers'[k] = Answers[k] /\ Givens'[k] = Givens[k]
    BY <1>4 DEF Granted, Answers, Givens
  <2>2. Answers' \in [Launches -> {"none", "waiting", "ready", "failed", "stopped"}]
    <3>1. launchState' \in [Launches -> LaunchStates]
      BY <1>4 DEF Granted, LaunchStates
    <3> QED BY <3>1 DEF Answers, LaunchStates
  <2>3. Answers' # Answers
    BY <2>1
  <2>4. \A k \in Launches : Answers'[k] # Answers[k] =>
             \/ Answers[k] = "waiting" /\ Answers'[k] \in {"ready", "failed", "stopped"}
             \/ Answers[k] = "ready" /\ Answers'[k] = "stopped"
    BY <2>1
  <2>5. \A k \in Launches :
             IF Answers'[k] = Answers[k] THEN Givens'[k] = Givens[k]
             ELSE IF Answers'[k] = "ready" THEN Givens'[k] # None /\ Ws[Givens'[k]] = Ws[k]
             ELSE Givens'[k] = None
    BY <2>0, <2>1
  <2> QED BY <1>1, <1>2, <2>2, <2>3, <2>4, <2>5
    DEF Service!Answer, Slots, Phases, Answers, Givens
<1> QED BY <1>3, <1>4

\* Every step is a step of the service, or invisible in it.
LEMMA MapStep ==
    ASSUME DataType, GivenInv, GivenInv', TableStep
    PROVE  [Service!SNext]_(Service!svars)
<1>0. Sessions = Launches
  BY DEF Sessions
<1>1. CASE UNCHANGED <<sessState, verified, launchState, launchSess>>
  <2>1. UNCHANGED Slots /\ UNCHANGED Phases /\ UNCHANGED Answers /\ UNCHANGED Givens
    BY <1>1, MapStill DEF Answers, Givens
  <2> QED BY <1>1, <2>1 DEF Service!svars, Slots, Phases, Answers, Givens
<1>2. CASE Answered \/ \E l \in Launches : \E s \in verified : Granted(l, s)
  <2>1. Service!Answer \/ UNCHANGED Service!svars
    BY <1>2, MapAnswer
  <2> QED BY <2>1 DEF Service!SNext
<1>3. ASSUME NEW l \in Launches, Accepted(l) \/ Taken(l) PROVE [Service!SNext]_(Service!svars)
  <2>1. Service!Accept(l) \/ UNCHANGED Service!svars
    BY <1>3, MapAccept
  <2> QED BY <2>1 DEF Service!SNext
<1>4. ASSUME NEW s \in Sessions,
             Claimed(s) \/ Served(s) \/ Drained(s) \/ \E end \in TerminalStates : Ends(s, end)
      PROVE  [Service!SNext]_(Service!svars)
  <2>1. Service!Claim(s) \/ Service!Release(s) \/ Service!Serve(s) \/ Service!Drain(s)
    BY <1>4, MapSlot, MapServe
  <2> QED BY <1>0, <2>1 DEF Service!SNext
<1> QED BY <1>1, <1>2, <1>3, <1>4 DEF TableStep

\* The initial states are initial states of the service.
LEMMA MapInit == Init => Service!SInit
<1> SUFFICES ASSUME Init PROVE Service!SInit
  OBVIOUS
<1>1. \A w : ActiveSessions(w) = {}
  BY DEF Init, ActiveSessions, ActiveStates
<1> QED BY <1>1, PhaseValues, AnswerValues
  DEF Init, Service!SInit, Service!Workspaces, Sessions

\* SessionLifecycle implements NotebookService, for any number of launches and
\* workspaces and any number of failures, stops and crashes: a slot is claimed only
\* when free and freed only by its holder's end (claim_session, transition_session),
\* rows only move forward, and a launch becomes ready only with a session of its
\* workspace that passed its readiness gates (_mark_launch_ready).
THEOREM PipelineImplementsService == Spec => ImplementsService
<1>1. Init => ServiceInv /\ Service!SInit
  BY ServiceInit, MapInit
<1>2. ASSUME ServiceInv, [Next]_vars PROVE ServiceInv'
  BY <1>2, ServiceStep
<1>3. ASSUME ServiceInv, ServiceInv', [Next]_vars PROVE [Service!SNext]_(Service!svars)
  <2>1. DataType /\ GivenInv /\ GivenInv'
    BY <1>3 DEF ServiceInv, SessionInv
  <2> QED BY <1>3, <2>1, TableSteps, MapStep
<1> QED BY <1>1, <1>2, <1>3, PTL DEF Spec, ImplementsService, Service!SSpec
====
