------------------------- MODULE SessionLifecycle -------------------------
(***************************************************************************)
(* The life of a notebook session: LaunchPipeline (pipeline.py) driving    *)
(* the launches and notebook_sessions tables (state.py), the container,    *)
(* its docker network and firewall rules, and the private runtime files.   *)
(*                                                                         *)
(* Three kinds of process interleave: one worker thread per launch (run),  *)
(* the stop handler on the event loop (stop), and, after a crash, the      *)
(* startup handler (reconcile_starting_sessions).  A step is one SQLite    *)
(* transaction, one docker/iptables command or one file operation; that    *)
(* is the grain at which the processes can interleave.                     *)
(*                                                                         *)
(* run() executes at most once per launch and claims at most one session,  *)
(* under a fresh uuid4: the session that launch l claims is named l.       *)
(***************************************************************************)
EXTENDS Naturals, FiniteSets

CONSTANTS
    Launches,         \* launches, and so also the sessions they may claim
    Ws,               \* Ws[l]: the workspace launch l targets
    CompatiblePairs,  \* <<l, s>>: l's mode and GPU policy accept session s
    None,             \* no session
    Stopper, Boot,    \* the stop handler and the startup handler
    PoolSize,         \* worker threads of the executor
    StopStates,       \* session states in which a user asks for a stop
    FaultSites,       \* where an operation may fail
    MaxFaults, MaxStops, MaxCrashes   \* bounds on environment events

ASSUME ProcsAssumption ==
    /\ None \notin Launches
    /\ Stopper \notin Launches /\ Boot \notin Launches
    /\ Stopper # Boot

ASSUME BoundsAssumption ==
    /\ PoolSize \in Nat \ {0}
    /\ MaxFaults \in Nat /\ MaxStops \in Nat /\ MaxCrashes \in Nat

VARIABLES
    sessState,   \* notebook_sessions.state ("absent": no row)
    verified,    \* sessions with the three readiness gates recorded
    launchState, \* launches.state
    launchSess,  \* launches.session_id
    leases,      \* sessions with an unreleased writable lease
    running,     \* sessions whose container runs
    late,        \* sessions whose timed-out `docker run` is still in flight
    net,         \* sessions whose docker network exists
    rules,       \* sessions whose firewall rules are in force
    secrets,     \* sessions whose private runtime files exist
    owners,      \* _session_owners: sessions whose starter is still at work
    pc, job,     \* control state and local variables of every process
    todo,        \* startup handler: sessions still to be reconciled
    rows,        \* stop handler: launch rows read before updating them
    faults, stops, crashes   \* environment events so far

db     == <<sessState, verified, launchState, launchSess, leases>>
host   == <<running, late, net, rules, secrets>>
budget == <<faults, stops, crashes>>
vars   == <<db, host, owners, pc, job, todo, rows, budget>>

Sessions == Launches
Procs    == Launches \cup {Stopper, Boot}

ActiveStates   == {"starting", "ready", "stopping"}
TerminalStates == {"stopped", "failed"}
SessStates     == ActiveStates \cup TerminalStates \cup {"absent"}
LaunchStates   == {"absent", "authorized", "starting", "ready", "failed", "stopped"}

RunPcs      == {"prepare", "lookup", "reuse", "attest", "publishReuse", "follow",
                "build", "claim", "bind", "secrets", "create", "rules",
                "verify", "run", "probe", "gates", "commit", "publish", "fail",
                "finally"}
TeardownPcs == {"alive", "kill", "recheck", "netrm", "rulesrm", "private",
                "release", "settle", "settleCas", "failLaunches"}
Pcs == RunPcs \cup TeardownPcs
       \cup {"idle", "queued", "done", "readRows", "writeRows", "next"}

Job == [target : Sessions \cup {None}, seen : SessStates,
        kind : {"none", "rollback", "retire", "stop", "stopAgain"},
        origin : {"none", "lookup", "claim"},
        stopIf : BOOLEAN, plan : BOOLEAN, failed : BOOLEAN]

MakeJob(s, seen, kind, origin, stopIf, plan) ==
    [target |-> s, seen |-> seen, kind |-> kind, origin |-> origin,
     stopIf |-> stopIf, plan |-> plan, failed |-> FALSE]

NoJob == MakeJob(None, "absent", "none", "none", TRUE, FALSE)

Init ==
    /\ sessState = [s \in Sessions |-> "absent"]
    /\ launchState = [l \in Launches |-> "absent"]
    /\ launchSess = [l \in Launches |-> None]
    /\ verified = {}
    /\ leases = {} /\ running = {} /\ late = {} /\ net = {} /\ rules = {} /\ secrets = {}
    /\ owners = {}
    /\ pc = [p \in Procs |-> "idle"]
    /\ job = [p \in Procs |-> NoJob]
    /\ todo = {} /\ rows = {}
    /\ faults = 0 /\ stops = 0 /\ crashes = 0

-----------------------------------------------------------------------------
(* Helpers *)

Goto(p, label) == pc' = [pc EXCEPT ![p] = label]

\* The process is serving requests: the startup handler has returned.
Up == pc[Boot] = "idle"

\* An operation at this site fails.
Fails(site) == /\ site \in FaultSites /\ faults < MaxFaults
               /\ faults' = faults + 1
               /\ UNCHANGED <<stops, crashes>>

\* Mutant: a stopping session no longer holds the workspace's slot.
ActiveSessionsNotStopping(w) ==
    {s \in Sessions : Ws[s] = w /\ sessState[s] \in {"starting", "ready"}}

\* The rows the partial unique index covers.
ActiveSessions(w) == {s \in Sessions : Ws[s] = w /\ sessState[s] \in ActiveStates}

\* transition_session: compare-and-set on the session row.
TransitionSession(s, expected, new) ==
    /\ sessState[s] \in expected
    /\ sessState' = [sessState EXCEPT ![s] = new]

\* update_launch_state: compare-and-set on the launch row; session_id is
\* overwritten only by a given id (COALESCE).
UpdateLaunch(l, expected, new, s) ==
    /\ launchState[l] \in expected
    /\ launchState' = [launchState EXCEPT ![l] = new]
    /\ launchSess' = IF s = None THEN launchSess ELSE [launchSess EXCEPT ![l] = s]

Compatible(l, s) == <<l, s>> \in CompatiblePairs

\* Enter the shared teardown of session s.
Teardown(p, s, kind, seen, stopIf, plan, origin) ==
    /\ job' = [job EXCEPT ![p] = MakeJob(s, seen, kind, origin, stopIf, plan)]
    /\ Goto(p, "alive")

\* run()'s except handler once the worker's own session exists.
Rollback(l, plan) == Teardown(l, l, "rollback", "absent", TRUE, plan, "none")

\* run()'s except handler when the worker owns no session.  A worker whose
\* claim found another session also has a session_id, but of a session and a
\* runtime that never existed: its cleanup touches nothing.
Abandon(l) == /\ job' = [job EXCEPT ![l] = NoJob]
              /\ Goto(l, "fail")

-----------------------------------------------------------------------------
(* Requests and the executor *)

\* The POST handler persists an authorized launch ...
Submit(l) ==
    /\ Up /\ pc[l] = "idle" /\ launchState[l] = "absent"
    /\ launchState' = [launchState EXCEPT ![l] = "authorized"]
    /\ UNCHANGED <<sessState, verified, launchSess, leases, host, owners, pc, job, todo, rows, budget>>

\* ... and then submits its run to the executor.
Schedule(l) ==
    /\ Up /\ pc[l] = "idle" /\ launchState[l] = "authorized"
    /\ Goto(l, "queued")
    /\ UNCHANGED <<db, host, owners, job, todo, rows, budget>>

Busy == {l \in Launches : pc[l] \notin {"idle", "queued", "done"}}

\* A free thread takes the launch: authorized -> starting.
Begin(l) ==
    /\ pc[l] = "queued" /\ Cardinality(Busy) < PoolSize
    /\ UpdateLaunch(l, {"authorized"}, "starting", None)
    /\ Goto(l, "prepare")
    /\ UNCHANGED <<sessState, verified, leases, host, owners, job, todo, rows, budget>>

\* _prepare_workspace: reopen or create, then touch the launch row, which
\* conflicts if a stop of the workspace has already marked it.
Prepare(l) ==
    /\ pc[l] = "prepare"
    /\ \/ /\ launchState[l] = "starting"
          /\ Goto(l, "lookup")
          /\ UNCHANGED <<job, budget>>
       \/ /\ launchState[l] # "starting"
          /\ Abandon(l) /\ UNCHANGED budget
       \/ Fails("build") /\ Abandon(l)
    /\ UNCHANGED <<db, host, owners, todo, rows>>

\* active_session: is some session already on this workspace?
Lookup(l) ==
    /\ pc[l] = "lookup"
    /\ \/ /\ ActiveSessions(Ws[l]) = {}
          /\ Goto(l, "build") /\ UNCHANGED job
       \/ \E s \in ActiveSessions(Ws[l]) :
             /\ job' = [job EXCEPT ![l] =
                           MakeJob(s, sessState[s], "none", "lookup", TRUE, FALSE)]
             /\ Goto(l, "reuse")
    /\ UNCHANGED <<db, host, owners, todo, rows, budget>>

-----------------------------------------------------------------------------
(* _reuse_existing_session, on the session state the worker has read *)

\* A session that is stopping, or has ended, cannot be reused.
ReuseRefused(l) ==
    /\ pc[l] = "reuse" /\ job[l].seen \in {"stopping"} \cup TerminalStates
    /\ Abandon(l)
    /\ UNCHANGED <<db, host, owners, todo, rows, budget>>

\* A ready session: is its runtime alive and compatible?  docker inspect can
\* fail outright, or exit non-zero and so report a live runtime as dead.
ReuseReady(l) ==
    LET s == job[l].target IN
    /\ pc[l] = "reuse" /\ job[l].seen = "ready"
    /\ \/ /\ s \in running /\ Compatible(l, s)
          /\ Goto(l, "attest") /\ UNCHANGED <<job, budget>>
       \/ /\ s \in running /\ ~Compatible(l, s)
          /\ Abandon(l) /\ UNCHANGED budget
       \/ /\ s \notin running /\ UNCHANGED budget
          /\ Teardown(l, s, "retire", "ready", FALSE, TRUE, job[l].origin)
       \/ /\ s \in running /\ Fails("docker")
          /\ Teardown(l, s, "retire", "ready", FALSE, TRUE, job[l].origin)
       \/ Fails("docker") /\ Abandon(l)
    /\ UNCHANGED <<db, host, owners, todo, rows>>

\* _reattest_ready_session: policy, credentials and collaboration still hold;
\* otherwise the session is retired.
Attest(l) ==
    LET s == job[l].target
        attested == s \in verified \cap running \cap net \cap rules \cap secrets
    IN
    /\ pc[l] = "attest"
    /\ \/ /\ attested
          /\ Goto(l, "publishReuse") /\ UNCHANGED <<job, budget>>
       \/ /\ ~attested /\ UNCHANGED budget
          /\ Teardown(l, s, "retire", "ready", TRUE, TRUE, job[l].origin)
       \/ /\ Fails("network")
          /\ Teardown(l, s, "retire", "ready", TRUE, TRUE, job[l].origin)
    /\ UNCHANGED <<db, host, owners, todo, rows>>

\* _mark_launch_ready: the session itself is not looked at again.
PublishReuse(l) ==
    /\ pc[l] = "publishReuse"
    /\ \/ /\ UpdateLaunch(l, {"starting"}, "ready", job[l].target)
          /\ job' = [job EXCEPT ![l] = NoJob]
          /\ Goto(l, "done")
       \/ /\ launchState[l] # "starting"
          /\ Abandon(l) /\ UNCHANGED <<launchState, launchSess>>
    /\ UNCHANGED <<sessState, verified, leases, host, owners, todo, rows, budget>>

\* Mutant: the owner table is not consulted.
ReuseStartingOwnerless(l) ==
    LET s == job[l].target IN
    /\ pc[l] = "reuse" /\ job[l].seen = "starting"
    /\ \/ /\ sessState[s] # "starting"
          /\ job' = [job EXCEPT ![l].seen = sessState[s]]
          /\ UNCHANGED pc
       \/ /\ sessState[s] = "starting"
          /\ Teardown(l, s, "retire", "starting", TRUE, TRUE, job[l].origin)
    /\ UNCHANGED <<db, host, owners, todo, rows, budget>>

\* A starting session: follow its owner, or retire it if it has none.
ReuseStarting(l) ==
    LET s == job[l].target IN
    /\ pc[l] = "reuse" /\ job[l].seen = "starting"
    /\ \/ /\ s \in owners /\ Compatible(l, s)
          /\ UpdateLaunch(l, {"starting"}, "starting", s)
          /\ Goto(l, "follow") /\ UNCHANGED job
       \/ /\ s \in owners /\ (~Compatible(l, s) \/ launchState[l] # "starting")
          /\ Abandon(l) /\ UNCHANGED <<launchState, launchSess>>
       \/ /\ s \notin owners /\ sessState[s] # "starting"
          /\ job' = [job EXCEPT ![l].seen = sessState[s]]
          /\ UNCHANGED <<pc, launchState, launchSess>>
       \/ /\ s \notin owners /\ sessState[s] = "starting"
          /\ Teardown(l, s, "retire", "starting", TRUE, TRUE, job[l].origin)
          /\ UNCHANGED <<launchState, launchSess>>
    /\ UNCHANGED <<sessState, verified, leases, host, owners, todo, rows, budget>>

\* Mutant: the follower takes the end of the wait for success.
FollowDoneUnchecked(l) ==
    /\ pc[l] = "follow" /\ job[l].target \notin owners
    /\ Goto(l, "publishReuse")
    /\ UNCHANGED <<db, host, owners, job, todo, rows, budget>>

\* owner.wait() returned: the owner has finished, well or badly.
FollowDone(l) ==
    LET s == job[l].target IN
    /\ pc[l] = "follow" /\ s \notin owners
    /\ \/ /\ sessState[s] = "ready"
          /\ job' = [job EXCEPT ![l].seen = "ready"]
          /\ Goto(l, "reuse")
       \/ /\ sessState[s] # "ready"
          /\ Abandon(l)
    /\ UNCHANGED <<db, host, owners, todo, rows, budget>>

\* owner.wait() timed out.
FollowTimeout(l) ==
    /\ pc[l] = "follow" /\ job[l].target \in owners
    /\ Abandon(l)
    /\ UNCHANGED <<db, host, owners, todo, rows, budget>>

-----------------------------------------------------------------------------
(* run: the start of a new session *)

\* Source acquisition, image build, GPU allocation.
Build(l) ==
    /\ pc[l] = "build"
    /\ \/ Goto(l, "claim") /\ UNCHANGED <<job, budget>>
       \/ Fails("build") /\ Abandon(l)
    /\ UNCHANGED <<db, host, owners, todo, rows>>

\* claim_session and the registration of the owner, under _schedule_lock.
Claim(l) ==
    /\ pc[l] = "claim"
    /\ \/ /\ ActiveSessions(Ws[l]) = {}
          /\ sessState' = [sessState EXCEPT ![l] = "starting"]
          /\ owners' = owners \cup {l}
          /\ job' = [job EXCEPT ![l] = NoJob]
          /\ Goto(l, "bind")
       \/ \E s \in ActiveSessions(Ws[l]) :
             /\ job' = [job EXCEPT ![l] =
                           MakeJob(s, sessState[s], "none", "claim", TRUE, FALSE)]
             /\ Goto(l, "reuse")
             /\ UNCHANGED <<sessState, owners>>
    /\ UNCHANGED <<verified, launchState, launchSess, leases, host, todo, rows, budget>>

\* The launch row now names the session.
Bind(l) ==
    /\ pc[l] = "bind"
    /\ \/ /\ UpdateLaunch(l, {"starting"}, "starting", l)
          /\ Goto(l, "secrets") /\ UNCHANGED job
       \/ /\ launchState[l] # "starting"
          /\ Rollback(l, FALSE) /\ UNCHANGED <<launchState, launchSess>>
    /\ UNCHANGED <<sessState, verified, leases, host, owners, todo, rows, budget>>

\* _write_runtime_secrets; a failed write can leave the token file behind.
WriteSecrets(l) ==
    /\ pc[l] = "secrets"
    /\ \/ /\ secrets' = secrets \cup {l}
          /\ Goto(l, "create") /\ UNCHANGED <<job, budget>>
       \/ /\ Fails("files") /\ Rollback(l, FALSE)
          /\ secrets' \in {secrets, secrets \cup {l}}
    /\ UNCHANGED <<db, running, late, net, rules, owners, todo, rows>>

\* NetworkPolicyApplier.apply, first half: docker network create.  An error
\* leaves it unknown whether the network exists; reconciliation may fail too.
CreateNetwork(l) ==
    /\ pc[l] = "create"
    /\ \/ /\ net' = net \cup {l}
          /\ Goto(l, "rules") /\ UNCHANGED <<job, budget>>
       \/ /\ Fails("network") /\ Rollback(l, TRUE)
          /\ net' \in {net, net \cup {l}}
    /\ UNCHANGED <<db, running, late, rules, secrets, owners, todo, rows>>

\* apply, second half: install every rule and verify the policy.  On failure
\* apply removes what it made, network first, and only then the rules.
InstallRules(l) ==
    /\ pc[l] = "rules"
    /\ \/ /\ l \in net
          /\ rules' = rules \cup {l}
          /\ Goto(l, "verify") /\ UNCHANGED <<net, job, budget>>
       \/ /\ \/ l \notin net /\ rules' = rules \ {l} /\ UNCHANGED <<net, budget>>
             \/ /\ Fails("network")
                /\ \/ net' = net \ {l} /\ rules' = rules \ {l}
                   \/ rules' \in {rules, rules \cup {l}} /\ UNCHANGED net
          /\ Rollback(l, TRUE)
    /\ UNCHANGED <<db, running, late, secrets, owners, todo, rows>>

\* _sandbox_policy and DockerRuntime.start up to the repeated verification.
VerifyPolicy(l) ==
    /\ pc[l] = "verify"
    /\ \/ /\ l \in net \cap rules
          /\ Goto(l, "run") /\ UNCHANGED <<job, budget>>
       \/ /\ l \notin net \cap rules
          /\ Rollback(l, TRUE) /\ UNCHANGED budget
       \/ Fails("network") /\ Rollback(l, TRUE)
    /\ UNCHANGED <<db, host, owners, todo, rows>>

\* docker run --network N: it needs the network.  A timeout of the docker
\* client leaves the request with the daemon.
RunContainer(l) ==
    /\ pc[l] = "run"
    /\ \/ /\ l \in net
          /\ running' = running \cup {l}
          /\ Goto(l, "probe") /\ UNCHANGED <<late, job, budget>>
       \/ /\ l \notin net
          /\ Rollback(l, TRUE) /\ UNCHANGED <<running, late, budget>>
       \/ /\ Fails("docker") /\ Rollback(l, TRUE)
          /\ late' = late \cup {l} /\ UNCHANGED running
    /\ UNCHANGED <<db, net, rules, secrets, owners, todo, rows>>

\* HttpJupyterReadinessProbe.wait: poll Jupyter until it answers or time is up.
Probe(l) ==
    /\ pc[l] = "probe"
    /\ \/ l \in running /\ Goto(l, "gates") /\ UNCHANGED <<job, budget>>
       \/ l \notin running /\ Rollback(l, TRUE) /\ UNCHANGED budget
       \/ Fails("docker") /\ Rollback(l, TRUE)
    /\ UNCHANGED <<db, host, owners, todo, rows>>

\* DockerRuntime.readiness, then the check of the private file.
Gates(l) ==
    /\ pc[l] = "gates"
    /\ \/ /\ l \in running \cap secrets
          /\ Goto(l, "commit") /\ UNCHANGED <<job, budget>>
       \/ /\ l \notin running \cap secrets
          /\ Rollback(l, TRUE) /\ UNCHANGED budget
       \/ Fails("docker") /\ Rollback(l, TRUE)
    /\ UNCHANGED <<db, host, owners, todo, rows>>

\* The session becomes ready, with its gates recorded.
CommitReady(l) ==
    /\ pc[l] = "commit"
    /\ \/ /\ TransitionSession(l, {"starting"}, "ready")
          /\ verified' = verified \cup {l}
          /\ Goto(l, "publish") /\ UNCHANGED job
       \/ /\ sessState[l] # "starting"
          /\ Rollback(l, TRUE) /\ UNCHANGED <<sessState, verified>>
    /\ UNCHANGED <<launchState, launchSess, leases, host, owners, todo, rows, budget>>

\* The launch becomes ready.
PublishReady(l) ==
    /\ pc[l] = "publish"
    /\ \/ /\ UpdateLaunch(l, {"starting"}, "ready", l)
          /\ Goto(l, "finally") /\ UNCHANGED job
       \/ /\ launchState[l] # "starting"
          /\ Rollback(l, TRUE) /\ UNCHANGED <<launchState, launchSess>>
    /\ UNCHANGED <<sessState, verified, leases, host, owners, todo, rows, budget>>

\* Mutant: the failed launch is not recorded.
FailLaunchUnrecorded(l) ==
    /\ pc[l] = "fail"
    /\ Goto(l, "finally")
    /\ UNCHANGED <<db, host, owners, job, todo, rows, budget>>

\* _fail_launch.
FailLaunch(l) ==
    /\ pc[l] = "fail"
    /\ launchState' = [launchState EXCEPT ![l] =
                           IF @ \in {"authorized", "starting"} THEN "failed" ELSE @]
    /\ Goto(l, "finally")
    /\ UNCHANGED <<sessState, verified, launchSess, leases, host, owners, job, todo, rows, budget>>

\* Mutant: the owner's entry is never removed.
FinallyForgets(l) ==
    /\ pc[l] = "finally"
    /\ Goto(l, "done")
    /\ UNCHANGED <<db, host, owners, job, todo, rows, budget>>

\* run()'s finally clause: the owner leaves and wakes its followers.
Finally(l) ==
    /\ pc[l] = "finally"
    /\ owners' = owners \ {l}
    /\ Goto(l, "done")
    /\ UNCHANGED <<db, host, job, todo, rows, budget>>

-----------------------------------------------------------------------------
(* Teardown of a session's runtime: the steps shared by run's rollback,    *)
(* _retire_session and stop.                                               *)

\* A cleanup step failed; the teardown goes on and remembers it.
NoteFailure(p) == job' = [job EXCEPT ![p].failed = TRUE]

\* The exception leaves the caller: rollback falls into run's finally clause,
\* a retiring worker into its except handler, stop fails its request, and a
\* failed startup handler ends the process.
Raise(p) ==
    /\ job' = [job EXCEPT ![p] = NoJob]
    /\ Goto(p, IF p = Boot THEN "done"
               ELSE IF p = Stopper THEN "idle"
               ELSE IF job[p].kind = "rollback" THEN "finally" ELSE "fail")

\* _stop_and_confirm_runtime, first inspection: a live runtime is killed (or
\* only looked at again, when stop_if_alive is false); an inspection that
\* raises keeps the network; one that exits non-zero counts as "not alive".
CheckAlive(p) ==
    LET s == job[p].target
        onAlive == IF job[p].stopIf THEN "kill" ELSE "recheck"
    IN
    /\ pc[p] = "alive"
    /\ \/ /\ Goto(p, IF s \in running THEN onAlive ELSE "recheck")
          /\ UNCHANGED <<job, budget>>
       \/ Fails("docker") /\ Goto(p, "recheck") /\ UNCHANGED job
       \/ Fails("docker") /\ Goto(p, "private") /\ NoteFailure(p)
    /\ UNCHANGED <<db, host, owners, todo, rows>>

\* docker rm --force; it may fail, with or without having removed the runtime.
Kill(p) ==
    LET s == job[p].target IN
    /\ pc[p] = "kill"
    /\ \/ running' = running \ {s} /\ UNCHANGED <<job, budget>>
       \/ /\ Fails("docker")
          /\ running' \in {running, running \ {s}}
          /\ UNCHANGED job \/ NoteFailure(p)
    /\ Goto(p, "recheck")
    /\ UNCHANGED <<db, late, net, rules, secrets, owners, todo, rows>>

\* Second inspection: the network may go only when the runtime is seen dead.
Recheck(p) ==
    LET s == job[p].target
        onDead == IF job[p].plan THEN "netrm" ELSE "private"
    IN
    /\ pc[p] = "recheck"
    /\ \/ s \notin running /\ UNCHANGED job /\ Goto(p, onDead) /\ UNCHANGED budget
       \/ s \in running /\ NoteFailure(p) /\ Goto(p, "private") /\ UNCHANGED budget
       \/ Fails("docker") /\ UNCHANGED job /\ Goto(p, onDead)
       \/ Fails("docker") /\ NoteFailure(p) /\ Goto(p, "private")
    /\ UNCHANGED <<db, host, owners, todo, rows>>

\* Mutant: a network that could not be removed is not reported.
RemoveNetworkUnreported(p) ==
    LET s == job[p].target IN
    /\ pc[p] = "netrm"
    /\ net' = IF s \in running THEN net ELSE net \ {s}
    /\ Goto(p, IF net' = net THEN "private" ELSE "rulesrm")
    /\ UNCHANGED <<db, running, late, rules, secrets, owners, job, todo, rows, budget>>

\* Mutant: the rules go even when the network could not be removed.
RemoveNetworkGoesOn(p) ==
    LET s == job[p].target IN
    /\ pc[p] = "netrm"
    /\ net' = IF s \in running THEN net ELSE net \ {s}
    /\ Goto(p, "rulesrm")
    /\ UNCHANGED <<db, running, late, rules, secrets, owners, job, todo, rows, budget>>

\* NetworkPolicyApplier.remove, first half: the docker network.  The daemon
\* refuses while a container is attached; a failure ends the removal, and a
\* timeout leaves it unknown whether the network is gone.
RemoveNetwork(p) ==
    LET s == job[p].target IN
    /\ pc[p] = "netrm"
    /\ \/ /\ s \notin net \/ s \notin running
          /\ net' = net \ {s}
          /\ Goto(p, "rulesrm") /\ UNCHANGED <<job, budget>>
       \/ /\ s \in net /\ s \in running
          /\ NoteFailure(p) /\ Goto(p, "private") /\ UNCHANGED <<net, budget>>
       \/ /\ Fails("network")
          /\ net' \in {net, IF s \in running THEN net ELSE net \ {s}}
          /\ NoteFailure(p) /\ Goto(p, "private")
    /\ UNCHANGED <<db, running, late, rules, secrets, owners, todo, rows>>

\* remove, second half: the firewall rules, every command tried.
RemoveRules(p) ==
    LET s == job[p].target IN
    /\ pc[p] = "rulesrm"
    /\ \/ rules' = rules \ {s} /\ UNCHANGED <<job, budget>>
       \/ /\ Fails("network")
          /\ rules' \in {rules, rules \ {s}}
          /\ NoteFailure(p)
    /\ Goto(p, "private")
    /\ UNCHANGED <<db, running, late, net, secrets, owners, todo, rows>>

\* _invalidate_session_private_state: an unlink may fail, if there is a file.
InvalidatePrivate(p) ==
    LET s == job[p].target IN
    /\ pc[p] = "private"
    /\ \/ secrets' = secrets \ {s} /\ Goto(p, "release") /\ UNCHANGED <<job, budget>>
       \/ s \in secrets /\ Fails("files") /\ Raise(p) /\ UNCHANGED secrets
    /\ UNCHANGED <<db, running, late, net, rules, owners, todo, rows>>

\* release_session_leases.
ReleaseLeases(p) ==
    /\ pc[p] = "release"
    /\ leases' = leases \ {job[p].target}
    /\ Goto(p, CASE job[p].kind = "rollback"  -> "settle"
                 [] job[p].kind = "stopAgain" -> "readRows"
                 [] OTHER                     -> "settleCas")
    /\ UNCHANGED <<sessState, verified, launchState, launchSess, host, owners, job, todo, rows, budget>>

\* Rollback reads the session row ...
RollbackRead(l) ==
    /\ pc[l] = "settle"
    /\ job' = [job EXCEPT ![l].seen = sessState[l]]
    /\ Goto(l, "settleCas")
    /\ UNCHANGED <<db, host, owners, todo, rows, budget>>

\* ... and moves it on if nobody else has; a conflict is only logged.
RollbackSettle(l) ==
    LET seen == job[l].seen IN
    /\ pc[l] = "settleCas" /\ job[l].kind = "rollback"
    /\ \/ ~job[l].failed /\ TransitionSession(l, {"starting", "stopping"} \cap {seen}, "failed")
       \/ job[l].failed /\ TransitionSession(l, {"starting"} \cap {seen}, "stopping")
       \/ /\ \/ sessState[l] # seen
             \/ seen \notin {"starting", "stopping"}
             \/ job[l].failed /\ seen # "starting"
          /\ UNCHANGED sessState
    /\ Abandon(l)
    /\ UNCHANGED <<verified, launchState, launchSess, leases, host, owners, todo, rows, budget>>

\* _retire_session: with failures the session stays, as stopping, and the
\* caller fails; without, it is failed.
RetireSettle(p) ==
    LET s == job[p].target IN
    /\ pc[p] = "settleCas" /\ job[p].kind = "retire"
    /\ \/ /\ ~job[p].failed
          /\ TransitionSession(s, {job[p].seen}, "failed")
          /\ Goto(p, "failLaunches") /\ UNCHANGED job
       \/ /\ job[p].failed
          /\ TransitionSession(s, {job[p].seen}, "stopping")
          /\ Raise(p)
       \/ /\ sessState[s] # job[p].seen
          /\ Raise(p) /\ UNCHANGED sessState
    /\ UNCHANGED <<verified, launchState, launchSess, leases, host, owners, todo, rows, budget>>

\* fail_launches_for_session, then back to the caller: a first lookup goes on
\* to build, a lost claim asks for a retry, startup takes the next session.
FailSessionLaunches(p) ==
    LET s == job[p].target IN
    /\ pc[p] = "failLaunches"
    /\ launchState' = [l \in Launches |->
                         IF launchSess[l] = s /\ launchState[l] = "starting"
                         THEN "failed" ELSE launchState[l]]
    /\ Goto(p, IF p = Boot THEN "next"
               ELSE IF job[p].origin = "lookup" THEN "build" ELSE "fail")
    /\ job' = [job EXCEPT ![p] = NoJob]
    /\ UNCHANGED <<sessState, verified, launchSess, leases, host, owners, todo, rows, budget>>

-----------------------------------------------------------------------------
(* stop: DELETE /api/sessions/{id}, one request at a time *)

\* Stopping a session that has ended only repeats the invalidation; otherwise
\* the row is moved to stopping before the teardown.
Stop(s) ==
    /\ Up /\ pc[Stopper] = "idle"
    /\ sessState[s] \in StopStates \ {"absent"} /\ stops < MaxStops
    /\ stops' = stops + 1
    /\ \/ /\ sessState[s] \in TerminalStates
          /\ job' = [job EXCEPT ![Stopper] =
                        MakeJob(s, sessState[s], "stopAgain", "none", TRUE, FALSE)]
          /\ Goto(Stopper, "private") /\ UNCHANGED sessState
       \/ /\ TransitionSession(s, {"starting", "ready"}, "stopping")
          /\ Teardown(Stopper, s, "stop", "stopping", TRUE, TRUE, "none")
       \/ /\ sessState[s] = "stopping" /\ UNCHANGED sessState
          /\ Teardown(Stopper, s, "stop", "stopping", TRUE, TRUE, "none")
    /\ UNCHANGED <<verified, launchState, launchSess, leases, host, owners, todo, rows, faults, crashes>>

StopSettle ==
    /\ pc[Stopper] = "settleCas"
    /\ \/ /\ ~job[Stopper].failed
          /\ TransitionSession(job[Stopper].target, {"stopping"}, "stopped")
          /\ Goto(Stopper, "readRows") /\ UNCHANGED job
       \/ /\ job[Stopper].failed \/ sessState[job[Stopper].target] # "stopping"
          /\ Raise(Stopper) /\ UNCHANGED sessState
    /\ UNCHANGED <<verified, launchState, launchSess, leases, host, owners, todo, rows, budget>>

\* _set_workspace_launch_state reads the workspace's live launches ...
ReadRows ==
    /\ pc[Stopper] = "readRows"
    /\ rows' = {<<l, launchState[l]>> : l \in
                  {k \in Launches : /\ Ws[k] = Ws[job[Stopper].target]
                                    /\ launchState[k] \in {"starting", "ready"}}}
    /\ Goto(Stopper, "writeRows")
    /\ UNCHANGED <<db, host, owners, job, todo, budget>>

\* Mutant: the launches take the session's word for "on its way down".
WriteRowsStopping ==
    /\ pc[Stopper] = "writeRows"
    /\ \/ rows = {} /\ UNCHANGED <<rows, launchState>>
       \/ \E r \in rows :
             /\ rows' = rows \ {r}
             /\ launchState' = IF launchState[r[1]] = r[2]
                               THEN [launchState EXCEPT ![r[1]] = "stopping"] ELSE launchState
    /\ IF rows' # {} THEN UNCHANGED <<pc, job>>
       ELSE Goto(Stopper, "idle") /\ job' = [job EXCEPT ![Stopper] = NoJob]
    /\ UNCHANGED <<sessState, verified, launchSess, leases, host, owners, todo, budget>>

\* ... and marks them stopped one by one, each only if it is as it was read.
WriteRows ==
    /\ pc[Stopper] = "writeRows"
    /\ \/ rows = {} /\ UNCHANGED <<rows, launchState>>
       \/ \E r \in rows :
             /\ rows' = rows \ {r}
             /\ launchState' = IF launchState[r[1]] = r[2]
                               THEN [launchState EXCEPT ![r[1]] = "stopped"] ELSE launchState
    /\ IF rows' # {} THEN UNCHANGED <<pc, job>>
       ELSE Goto(Stopper, "idle") /\ job' = [job EXCEPT ![Stopper] = NoJob]
    /\ UNCHANGED <<sessState, verified, launchSess, leases, host, owners, todo, budget>>

-----------------------------------------------------------------------------
(* Crash, restart and reconcile_starting_sessions *)

\* The launcher process dies: threads, owners and pending requests are lost.
Crash ==
    /\ crashes < MaxCrashes /\ pc[Boot] # "done"
    /\ crashes' = crashes + 1
    /\ pc' = [p \in Procs |-> IF p = Boot THEN "done"
                              ELSE IF p = Stopper THEN "idle"
                              ELSE IF launchState[p] = "absent" THEN "idle" ELSE "done"]
    /\ job' = [p \in Procs |-> NoJob]
    /\ owners' = {} /\ todo' = {} /\ rows' = {}
    /\ UNCHANGED <<db, host, faults, stops>>

\* Mutant: only ready sessions are looked at after a restart.
RestartReadyOnly ==
    /\ pc[Boot] = "done"
    /\ todo' = {}
    /\ Goto(Boot, "next")
    /\ UNCHANGED <<db, host, owners, job, rows, budget>>

\* A new process starts and lists the sessions persisted as starting.
Restart ==
    /\ pc[Boot] = "done"
    /\ todo' = {s \in Sessions : sessState[s] = "starting"}
    /\ Goto(Boot, "next")
    /\ UNCHANGED <<db, host, owners, job, rows, budget>>

\* The startup handler retires each of them, then the server starts serving.
Reconcile ==
    /\ pc[Boot] = "next"
    /\ \/ \E s \in todo :
             /\ Teardown(Boot, s, "retire", "starting", TRUE, TRUE, "none")
             /\ todo' = todo \ {s}
       \/ /\ todo = {}
          /\ Goto(Boot, "idle") /\ UNCHANGED <<todo, job>>
    /\ UNCHANGED <<db, host, owners, rows, budget>>

-----------------------------------------------------------------------------
(* Environment *)

\* A timed-out docker run still reaches its end in the daemon.
LateRun(s) ==
    /\ s \in late
    /\ late' = late \ {s}
    /\ running' = IF s \in net THEN running \cup {s} ELSE running
    /\ UNCHANGED <<db, net, rules, secrets, owners, pc, job, todo, rows, budget>>

\* The container ends on its own.
ContainerExits(s) ==
    /\ s \in running /\ Fails("container")
    /\ running' = running \ {s}
    /\ UNCHANGED <<db, late, net, rules, secrets, owners, pc, job, todo, rows>>

\* An agent's bridge takes the writable lease of a ready session (leases.py).
AcquireLease(s) ==
    /\ sessState[s] = "ready" /\ s \notin leases
    /\ leases' = leases \cup {s}
    /\ UNCHANGED <<sessState, verified, launchState, launchSess, host, owners, pc, job, todo, rows, budget>>

\* ... and gives it back when it detaches.
ReleaseLease(s) ==
    /\ s \in leases
    /\ leases' = leases \ {s}
    /\ UNCHANGED <<sessState, verified, launchState, launchSess, host, owners, pc, job, todo, rows, budget>>

-----------------------------------------------------------------------------

TeardownStep(p) ==
    \/ CheckAlive(p) \/ Kill(p) \/ Recheck(p) \/ RemoveNetwork(p) \/ RemoveRules(p)
    \/ InvalidatePrivate(p) \/ ReleaseLeases(p) \/ RetireSettle(p) \/ FailSessionLaunches(p)

WorkerStep(l) ==
    \/ Begin(l) \/ Prepare(l) \/ Lookup(l)
    \/ ReuseRefused(l) \/ ReuseReady(l) \/ Attest(l) \/ PublishReuse(l)
    \/ ReuseStarting(l) \/ FollowDone(l)
    \/ Build(l) \/ Claim(l) \/ Bind(l) \/ WriteSecrets(l)
    \/ CreateNetwork(l) \/ InstallRules(l) \/ VerifyPolicy(l) \/ RunContainer(l)
    \/ Probe(l) \/ Gates(l) \/ CommitReady(l) \/ PublishReady(l)
    \/ RollbackRead(l) \/ RollbackSettle(l) \/ FailLaunch(l) \/ Finally(l)
    \/ TeardownStep(l)

StopperStep == StopSettle \/ ReadRows \/ WriteRows \/ TeardownStep(Stopper)

BootStep == Restart \/ Reconcile \/ TeardownStep(Boot)

Next ==
    \/ \E l \in Launches :
          \/ Submit(l) \/ Schedule(l) \/ WorkerStep(l) \/ FollowTimeout(l)
          \/ Stop(l) \/ LateRun(l) \/ ContainerExits(l)
          \/ AcquireLease(l) \/ ReleaseLease(l)
    \/ StopperStep
    \/ BootStep
    \/ Crash

Spec == Init /\ [][Next]_vars

\* Threads are scheduled, a running handler finishes, the daemon answers; a
\* follower is not helped by its timeout.  Nothing is promised about requests,
\* crashes, faults or agents.
Fairness ==
    /\ \A l \in Launches : WF_vars(Schedule(l)) /\ WF_vars(WorkerStep(l)) /\ WF_vars(LateRun(l))
    /\ WF_vars(StopperStep)
    /\ WF_vars(BootStep)

FairSpec == Spec /\ Fairness

-----------------------------------------------------------------------------
(* Properties *)

\* Every variable keeps to the values its table column, thread or host
\* resource can take (state.py's CHECK constraints, run()'s locals).
TypeOK ==
    /\ sessState \in [Sessions -> SessStates]
    /\ launchState \in [Launches -> LaunchStates]
    /\ launchSess \in [Launches -> Sessions \cup {None}]
    /\ verified \subseteq Sessions
    /\ leases \subseteq Sessions /\ running \subseteq Sessions /\ late \subseteq Sessions
    /\ net \subseteq Sessions /\ rules \subseteq Sessions /\ secrets \subseteq Sessions
    /\ owners \subseteq Sessions /\ todo \subseteq Sessions
    /\ pc \in [Procs -> Pcs]
    /\ job \in [Procs -> Job]
    /\ rows \subseteq Launches \X LaunchStates
    /\ faults \in 0..MaxFaults /\ stops \in 0..MaxStops /\ crashes \in 0..MaxCrashes

\* A workspace never has two sessions in starting, ready or stopping, however
\* claims, retirements, stops and restarts interleave (claim_session).
OneActiveSession ==
    \A s, t \in Sessions :
        /\ Ws[s] = Ws[t]
        /\ sessState[s] \in ActiveStates
        /\ sessState[t] \in ActiveStates
        => s = t

\* A session recorded as failed has left nothing behind: no container, docker
\* network, firewall rule or private file, even when docker misreported its
\* runtime as dead or a docker run came through late (_retire_session, rollback).
FailedMeansClean ==
    \A s \in Sessions : sessState[s] = "failed" =>
        s \notin running \cup net \cup rules \cup secrets

\* The container of a starting or ready session never runs without its network
\* and its firewall rules, whatever teardown is going on (apply, start, remove).
EgressWhileActive ==
    \A s \in running : sessState[s] \in {"starting", "ready"} => s \in net \cap rules

\* No retirement runs against a starting session whose owner is still at work
\* (_session_owners, registered under the same lock as the claim).
NoRetireUnderOwner ==
    \A p \in Procs : job[p].kind = "retire" /\ job[p].seen = "starting" =>
        job[p].target \notin owners

\* Session s is being retired.
Retiring(s) == \E p \in Procs : job[p].kind = "retire" /\ job[p].target = s

\* While requests are served, a starting session has an owner in this process:
\* a restart leaves none behind (reconcile_starting_sessions).  The one exception
\* is a rollback that a file error cut short: it leaves the private files, and the
\* session stays as it is until a later launch has retired it.
StartingHasOwner ==
    Up => \A s \in Sessions : sessState[s] = "starting" =>
             s \in owners \/ (faults > 0 /\ (s \in secrets \/ Retiring(s)))

\* A worker always leaves its session's owner table entry, so a follower is
\* released even without its timeout (run's finally clause).
OwnersLeave == \A s \in Sessions : s \in owners ~> s \notin owners

\* A private file could not be unlinked in l's rollback: the exception leaves
\* the except handler before the launch is recorded as failed (pipeline.py:466).
CutShort(l) == pc[l] = "finally" /\ launchState[l] = "starting" /\ l \in secrets

\* Every launch a launcher that does not crash has accepted ends as ready, failed
\* or stopped, or by the error of a rollback cut short: also when it waits for a
\* worker thread while followers of another launch hold one (schedule, run).
LaunchesSettle ==
    \A l \in Launches :
        launchState[l] = "authorized" ~>
            launchState[l] \in {"ready", "failed", "stopped"} \/ CutShort(l)
=============================================================================
