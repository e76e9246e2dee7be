# A TLA+ verification of notebook-launcher

notebook-launcher opens a notebook of a public GitHub repository in a sandboxed
local JupyterLab and lets one MCP agent work on it beside the user. Its hard
part is not any single function: it is a worker thread per launch, a stop
handler, a startup handler, agent bridges in processes of their own, a kernel
and a work directory shared with a browser, a docker daemon that times out, and
a SQLite database as the only thing they all agree on. This project models
those parts in TLA+, checks them with TLC on small instances, and proves with
TLAPS, for every size of the instance, all the safety properties it checks and that
the pipeline implements its abstract specification.

Paths below are relative to `src/src/notebook_launcher/`; documents are under
`src/specs/001-local-notebook-launcher/`.

## Inventory

| Component | Code | State | Operations | What makes it correct |
|---|---|---|---|---|
| Launch pipeline | `pipeline.py`, `launches.py` | launches and sessions tables, owner table, executor; container, network, rules, private files | schedule, run, reuse, roll back, retire, stop, reconcile | one active session per workspace; rows only move forward; nothing is left behind by a failed session; a container has its firewall; launches settle |
| State store | `state.py` | SQLite tables with partial unique indexes | compare-and-set updates, claim, guarded transactions | every decision is made inside the transaction that acts on it |
| Leases and bridges | `leases.py`, `cli.py` | writable_agent_leases; per bridge a lease and a heartbeat thread | acquire, heartbeat, release, reclaim, attach, close | one lease; a live writer keeps it; a dead one loses it; a stopped session has none |
| MCP adapter | `mcp.py` | mode, lease, active path | gates and backend calls, which in both modes are reads | served only while the session is ready |
| Execution broker | `execution.py`, `jupyter.py` | records, queue, active operation, busy parent | enqueue, dispatch, observe, cancel, time out, invalidate | one operation at a time, in order; interrupts hit only the agent's own request |
| Launch authorization | `app.py`, `launch_auth.py`, `trust.py`, `trust_flow.py` | replay table, launches, trust records, challenges | preview, post, trust, deny, revoke | what runs was previewed, once, and was trusted |
| Workspace documents | `workspace.py`, `safe_paths.py` | files, version rows, active path | write, copy, rename, each in a guarded transaction with compensation | rows describe files; no lost update; the active notebook is spared and present |
| Network policy | `network.py` | docker networks, iptables chains | apply, verify, remove, reconcile a failed create | an attested network enforces the policy; rules outlive their container; what remove reports removed is gone; nobody else's network is touched |
| Docker runtime | `runtime.py`, `sandbox.py` | container | verify the attestation, start, readiness | see the pipeline and the network policy |
| Source cache | `repository.py`, `source.py`, `github.py` | a tree per commit, staging and quarantine directories | acquire, verify, copy into a workspace | a workspace holds the commit's tree; launches do not disturb each other; nothing is left over |
| Environment builds | `environment.py` | images | ensure | content matches its identity |
| User-data grants | `grants.py`, `safe_paths.py` | grant rows, the granted directory | grant, revalidate, revoke, Save a Copy | a copy lands whole, inside the grant, over nothing it may not replace |
| Command runner | `orchestration.py` | a process group, its pipes, reader threads | run with deadline, cancellation and bounded capture | a stopped group is gone, nobody else is signalled, the call ends |
| Models, configuration, errors, versions, audit | `models.py`, `config.py`, `errors.py`, `versions.py`, `audit.py` | none | pure | - |

How they interact: the HTTP handlers run one at a time on the event loop and
hand launches to the pipeline's executor; workers share with them the database,
the owner table (under a lock) and the docker daemon; bridges and the command
line share only the database and the private files; the container shares the
work directory. The behaviours that are hard to test are listed one by one,
with their lines, under `hazards` in `PROJECT.json`.

## Modules

### SessionLifecycle (core)

The whole life of a session. Three kinds of process interleave: a worker per
launch (`run`), the stop handler (`stop`) and, after a crash, the startup
handler (`reconcile_starting_sessions`). A step is one transaction, one docker
or iptables command, or one file operation.

* State: `sessState`, `verified` (notebook_sessions), `launchState`,
  `launchSess` (launches), `leases`; the host's `running`, `late`, `net`,
  `rules`, `secrets`; `owners` (`_session_owners`); per process `pc` and `job`
  (local variables); `todo` and `rows` (the startup and the stop handler's
  result sets).
* Actions follow the code in order: `Submit`, `Schedule`, `Begin`, `Prepare`,
  `Lookup`; `ReuseRefused`, `ReuseReady`, `Attest`, `PublishReuse`,
  `ReuseStarting`, `FollowDone`, `FollowTimeout` (`_reuse_existing_session`);
  `Build` ... `PublishReady` (a fresh start); `FailLaunch`, `Finally`; the
  teardown `CheckAlive` ... `ReleaseLeases`, entered by rollback, retire and
  stop alike; `Stop`, `StopSettle`, `ReadRows`, `WriteRows`; `Crash`,
  `Restart`, `Reconcile`.
* `run` executes at most once per launch and claims at most one session, under
  a fresh id: the session of launch `l` is called `l`.
* Failures: any operation of a site in `FaultSites` may fail; a `docker run`
  may time out and come through later (`late`); a container may exit; an
  inspection may wrongly report a runtime as dead.
* Grain: the stop handler writes the launch rows one by one, in any order. Coarser
  than the code are `Attest`, which is the whole attestation of a session to be
  reused (pipeline.py:590-651: it reads only, and may fail or be deceived);
  `ReuseStarting`, which joins the look at the owner table (549-551) with the update
  of the launch (564); and `Stop`, which joins the read of the row (743) with its
  transition (753, a compare-and-set that raises, with nothing changed, if the session
  ended in between). `ReuseReady` leaves out the branch for a ready row without
  gates (519-529): `CommitReady` writes both, so there is no such row.

### NotebookService and SessionRefinement

`NotebookService` is the abstract specification of the pipeline: a workspace is
a slot that at most one session holds, a session goes fresh, starting, serving,
draining, over and never back, only its end frees the slot, and a launch is
answered, as ready only with a session of its workspace that passed its gates.
It knows no threads, containers, files, failures or crashes. `SessionRefinement`
maps the tables of `SessionLifecycle` to it (the slot is the set of rows the
partial unique index covers; `stopping` is draining, both terminal states are
over, a launch that is authorized or starting is waiting) and states
`ImplementsService`. One surprise is written into the abstract specification: a
stop of the workspace may answer a launch that has not claimed its session yet,
and that launch still claims and starts one before it rolls back, so `Claim`
asks only that the launch was accepted.

### McpBridge

The lease of one session and the bridge processes that attach to it: reading
the row, the credentials, acquiring, starting and opening the backend, serving
calls behind the attachment check, closing, and the heartbeat
thread. Each bridge is a writer or a reader (`writers`, chosen when it is run).
The calls of both are reads: `mcp.py` defines methods that write, but
`EXPOSED_WRITE_METHODS` is `READONLY_METHODS` (mcp.py:39-43, 123-126) and every other
call is denied (476; `tests/unit/test_mcp_contract.py:260` pins it). So today the
lease decides who may be attached in write mode, and nothing is claimed about single
writes. The launcher's stop or retirement of the session runs beside the bridges,
one at a time and perhaps several times.
Time is kept as ages. `StartMax` and `Lag` bound how slow a backend start and
how late a heartbeat may be: `LiveOwnerKept` is stated
under `StartMax + Period + Lag <= Stale`, which the code does not enforce; the
settings only demand `Period < Stale`. `StoppedHasNoLease` needs no such bound: the
stop moves the row first, and `acquire` looks at the row again inside its own
transaction, however long ago the bridge read it as ready.

### ExecutionBroker

Broker and coordinator against a kernel that also takes the browser's requests.
A broker method is one step (it holds the lock); a coordinator method is
several. Kernel, browser and the listener that hears status messages are
external: the source fixes only the methods the listener calls. The broker is a
library so far: the tests drive it from threads, the application constructs none.
A coordinator is modelled with `wait_for_idle` (its default is None,
execution.py:321); without it a cancellation interrupts and returns, and
`CancelTakesEffect` is not claimed.

### LaunchAuthorization

The handlers from the preview page to an authorised launch. They run one at a
time but consist of steps between which the repository moves, time passes,
trust is revoked by the command line and the server crashes. A crash renews the
token secret. A digest stands for the request and the source it resolved to.
`RunBegin` leaves out `_verify_launch_binding` (pipeline.py:302, 900-926): the request
and the source it compares both come from the launch's row, which is written once,
so in the application it cannot raise. `NothingRunsUntrusted` asks for a trust
decision at some time before the launch; it does not see a revocation between the
look and the creation (see the disagreements below).

### WorkspaceDocuments

`write_file`, `save_copy` within the workspace and `rename_active_notebook`. The
guarded transaction is `Guard`, `ReadPrevious`, `Replace` or `Move`, `Commit`,
and on an exception `Undo` (the compensation, then the rollback). Callers are
concurrent clients of the manager: `state.py` says the guards "serialize an
active rename with every versioned workspace write", and the tests use threads;
the shipped application calls `save_copy` from its event loop only. Jupyter in
the container saves into the same directory without a transaction
(`RuntimeSave`). Contents are identities, with a mark for stripped outputs.
Two limits of the properties: the active notebook never has a version row (writes to
it are refused), so `RowsDescribeFiles` speaks about writes and copies and a rename
only changes what it is not about; and `GenericWritesSpareActive` is about
`Replace`, not about the bytes a compensation restores.

### NetworkPolicy

`NetworkPolicyApplier` with one step per external command, over a model of what
docker and iptables do with these commands (marked external in the map). A plan
is what one session derives from its id; each has a worker (apply, verify,
verify again in `DockerRuntime.start`, run, commit, roll back) and a cleaner
(stop, or retirement after a restart). A rule is a set of sources,
destinations and ports with a target, and a packet's fate is computed from the
chains: `AttestedEnforced` asks what the installed rules do to a packet, in their
order, with jumps and the other sessions' rules, instead of comparing texts.
Ranges of addresses are three representatives: a denied address, an approved
resolver that is denied otherwise, and a global address. Which addresses are global
is a parameter that the rules (`IPV4_DENY_CIDRS`) and `Classify`
(`classify_destination`) share: that the list of ranges agrees with the library's
`is_global` is assumed, not checked, and the branch for approved endpoints
(network.py:144-145) is left out. A command that times
out may or may not have taken effect; a `create` or a `run` that timed out may be
carried out later (`LateCreate`, `LateRun`). `-D` deletes the first rule that is
equal, as iptables does. `-s <subnet>` of a colliding subnet
matches the other session too, `-i <bridge>` does not. `SessionLifecycle` has the
same resources as one network and one rule set per session.
Limits: `Confirm` is is_alive, stop, is_alive (pipeline.py:794-812) in one step, and
leaves out a stop that raised although the container is gone; a removal asks for the
plan's own network (`Own`), so `ForeignKept` shows that removing by id spares a network
that took over the name, and would not notice a missing look at the label;
`RemovedIsGone` speaks about removals by a live launcher, not about a stop after a
crash, and makes no claim about the network once a create has timed out.

### SourceCache

`SourceCache.acquire` and `WorkspaceManager.create` for one commit. A directory
is a tree (the commit's, another, or a mixture) and the digest in its manifest;
digests are injective, so a digest is its tree. `kind` chooses whether the commit
itself has a file with the manifest's name, which cannot be sealed at the root
and is dropped by `copytree` below it. Renames, looks and copies are steps of
their own; a copy is two, and may yield a mixture if the tree was touched in between,
also when it was changed back. Others may change the tree or remove its manifest
(`Tamper`). Git, the disk and the database may fail at every step that uses them, and
so may the two removals that clean up (`Cleanup`, repository.py:242; `Undo`,
workspace.py:94-98): what they could not remove stays, and the launch ends with that
error. A forged manifest is not modelled, and the rename that publishes fails only
because the target exists.

### UserDataGrants

`grant`, `revoke`, and Save a Copy into the granted directory: `revalidate`,
`_validated_root`, the dirfd walk `_open_parent_fd` and `_atomic_write_at`, one
step per system call that decides something. Others may replace the directory
or the component below it by another directory or a link, and make or delete the
destination, between any two steps. A destination is directly in the grant or
one component below it, which may have to be made.

### CommandRunner

`run_argv` on POSIX: the leader and descendants that fork, leave the process
group, close or keep the pipe, write and exit at will; a reader that drains the
pipe; the polling loop; `_stop_process` with SIGTERM, the grace period and
SIGKILL. A leader that has exited stays a zombie, and keeps its group alive for
`killpg(pid, 0)`, until it is waited for: this is why a number is never reused
under the runner (`SignalsOwnGroup`), and also why a stop always takes the whole
grace period.

Each `MC*` module instantiates its component for TLC. A definition marked
"Mutant" changes one definition the way a slip in the code would; it stands
before the definition it changes and is used by nothing in the specifications.

## Runs

All runs pass.

| Run | Instance | Checks | Distinct states |
|---|---|---|---|
| `session_safety` | 2 launches of one workspace, one of which may not reuse the other's session, 2 threads, 1 stop, 2 failures, 1 crash | `TypeOK`, `OneActiveSession`, `FailedMeansClean`, `EgressWhileActive`, `NoRetireUnderOwner`, `StartingHasOwner` | 2.5 M |
| `session_refinement` | the same with 1 failure | `ImplementsService` | 836 k |
| `session_liveness` | 2 launches and a stop while starting, or 3 launches on 2 threads; 1 failure of docker or of a private file, fair | `OwnersLeave`, `LaunchesSettle` | 139 k |
| `bridge_lease` | 2 bridges, each a writer or a reader; stale time 2, period 1, lag 0, start 1, fair | `TypeOK`, `SoleLease`, `LiveOwnerKept`, `StoppedHasNoLease`, `CrashedLeaseReclaimed` | 383 k |
| `broker_safety` | 2 callers, 2 operations, 1 browser request, invalidation | `TypeOK`, `OneOutstanding`, `DispatchInOrder` | 3.8 M |
| `broker_liveness` | 1 operation, up to 2 sends, fair | `CancelTakesEffect` | 468 k |
| `authorization` | 2 tokens, 2 posts, 2 commits, 1 crash; one tick is longer than either lifetime; fair | `TypeOK`, `OneLaunchPerToken`, `PreviewedSource`, `NothingRunsUntrusted`, `AuthorizedStarts` | 538 k |
| `documents_safety` | 2 callers, 3 paths, 3 operations, 1 error or crash, 1 save | `TypeOK`, `RowsDescribeFiles`, `OneSuccessor`, `GenericWritesSpareActive` | 1.7 M |
| `source_cache` | 3 launches of one commit, the cache empty, sealed or manifestless, 2 changes from outside, 1 crash, failures of git, disk, database and removal | `WorkspaceIsCommit`, `FailureHasCause`, `NothingLeftBehind` | 3.2 M |
| `command_runner` | a leader, 2 descendants, pipe of 2, limit of 1, 3 bytes, fair | `StoppedGroupGone`, `SignalsOwnGroup`, `StopEndsRun` | 30 k |
| `network_policy` | one session with 1 timeout, 2 stops, 1 crash and 1 taken name, or two sessions on one subnet with one timeout, stop or crash | `AttestedEnforced`, `RulesOutliveContainer`, `RemovedIsGone`, `ForeignKept` | 1.2 M |
| `user_data` | 2 copies, 1 grant, 2 changes by others, 1 error or crash | `CopyInGrant`, `CopyAllOrNothing`, `NothingReplaced` | 2.0 M |

Why these bounds: every conflict in this code is between two parties over one
workspace, session, kernel or path, so two launches, bridges, callers or tokens
meet in every order; one failure reaches each error path, and two in
`session_safety` a rollback that is cut short and the retirement of what it left;
a third bridge would only repeat a pair. A third launch matters for one thing, a
launch that waits for a thread of the pool (`max_workers=2`) while a follower holds
one: `session_liveness` has it (`MCScenario`; as the launches are interchangeable
there, a stop is of the first one's session). The bridges' times are the smallest
for which `LiveOwnerKept` is tight: a slow start and one period reach the stale time.
The source cache has three launches, because the quarantine race takes one that publishes, one that moves away and one that looks.
The two sessions of `network_policy` share a subnet, the worst case; its scenarios
(`MCScenarios`) give one session every kind of event and two sessions one event,
since each command list is some thirty commands long. Two changes from outside
let a file or a directory change and change back. A pipe larger than the capture
limit and an output larger than both reach every case of the reader. Deadlock
checking is off throughout: the instances end when their launches, bridges or operations are used up.
Symmetry is used only in runs of safety properties.

### Disagreements

The modules reach the following states, in which the code differs from what a
document says of it (documents under `specs/001-local-notebook-launcher/`). No
property excludes them, and where a property comes close it names the exception.

* A stop that finds no network yet removes the rules of a session whose worker is
  between its policy check and `docker run`; the container then runs without rules
  until the worker rolls back (network.py:434; spec.md:188, "Default egress MUST
  deny loopback, host gateway, private/LAN, link-local, metadata, multicast,
  reserved/non-global local ranges"). `RulesOutliveContainer` shows that this is
  the only way, and `EgressWhileActive` that no session still starting or ready
  is affected.
* The lease is acquired before the backend is started and the heartbeat begins
  only afterwards, so a start slower than the stale time loses the lease to
  another bridge and both are attached in write mode (cli.py:205; spec.md:19,
  "another writable agent must wait until the current writable agent disconnects").
  `LiveOwnerKept` assumes a faster start.
* `active_parent_msg_id` is never cleared, so an operation that ran and whose reply
  is still unprocessed counts as owner, and its cancellation interrupts the
  browser's request (execution.py:37; contracts/mcp-capabilities.md:112, "A
  kernel-wide interrupt MUST NOT be sent while the active busy-parent request
  belongs to browser/other work.").
* `moved` is set after `rename_under_root` returns: when its fsync raises, the file
  has moved, nothing is undone and `active_notebook_path` names a file that is gone
  (workspace.py:265; spec.md:203, "Supported active-notebook rename/move MUST
  update `active_notebook_path`").
* Two launches find the same manifestless tree; the second moves away the valid
  tree the first has just published, under the first launch's copy, which then
  fails (repository.py:90; quickstart.md:115, "source snapshot @ repo-id+SHA
  immutable").
* A `docker network create` that outlives its timeout and the cleanup leaves a
  network after a remove that reported success (network.py:435, "fail if any
  resource was not removed"). `RemovedIsGone` names the exception.
* A session recorded as stopped whose worker's rollback then fails, or dies, keeps
  its network and rules, and nobody tries again (pipeline.py:469 acts only on rows
  in starting or stopping). `RemovedIsGone` asks for a rollback that succeeded.
* The rules a session leaves behind on a colliding subnet can deny the other
  session what the policy allows; `AttestedEnforced` shows they never allow more.
* A descendant that left the process group and keeps the pipe open blocks
  `reader.join()` past every deadline (orchestration.py:413). `StopEndsRun` names
  the exception.
* A copy in flight goes on under a grant that is revoked meanwhile. The mount of a
  grant into a container checks the path and leaves its resolution to docker
  (spec.md:128, "Missing/replaced grant roots fail clearly rather than
  substituting another path"); docker's side of it is not modelled.
* Two copies that make the same directory: the second fails with
  `FileExistsError` (safe_paths.py:912).
* A rollback whose unlink of a private file fails goes straight to run's finally
  clause: the session stays starting without an owner, and its launch starting
  too, until a later launch of the workspace or a restart retires it
  (pipeline.py:466, ahead of the settlement of the row).
  `StartingHasOwner` and `LaunchesSettle` (`CutShort`) name the exception.
* A stop that overtakes the start it names frees the workspace's slot before the
  old container runs; a second launch then runs beside it until the first
  worker rolls back (spec.md:137, "at most one active runtime").
* `_retire_session` releases leases while the row is still ready; a lease taken
  before the row moves to failed stays unreleased (data-model.md:174).
* Repeating the stop of an ended session marks the launch of the workspace's
  next session as stopped (`stop` calls itself idempotent, pipeline.py:742).
* `dispatch_next` sends before it records: an operation cancelled in between is
  still sent, and one whose busy status arrives in between is sent twice
  (mcp-capabilities.md:108, :27).
* `finish` replaces a terminal result (mcp-capabilities.md:114).
* Trust revoked between `trust.find` and `create_launch` still authorises the
  launch (workspace-lifecycle.md:51).
* The compensation of a failed write restores bytes over what Jupyter saved in
  between (spec.md:247).

## Fairness

* Session: weak fairness of each worker's steps, of the running stop or startup
  handler, of scheduling and of a late `docker run`. Threads of the executor and
  the event loop are scheduled by the operating system and every docker command
  has a timeout, so a step that can be taken is taken. A follower's own timeout
  gets no fairness: `LaunchesSettle` does not lean on it. Requests, crashes,
  failures and agents get none.
* Bridge: processes and threads run on, time passes, a refused user retries.
* Broker: threads inside a method, the listener and the kernel go on and the
  browser's requests end; the agent's own code may run for ever.
* Command runner: the polling thread and the reader run, and the grace period
  passes; the command and its descendants get no fairness, they may hang for ever.
* Authorization: a handler that has begun goes on, and the executor takes what
  it was given.

## Proofs

Each component's theorems are in a module of their own, `<component>Proofs`; the two
components that act on the host, `NetworkPolicy` and `CommandRunner`, share
`HostProofs`, which extends both (the specification of `CommandRunner` is therefore
called `ArgvSpec`, after `run_argv`). The theorems hold for every value of the
constants: any number of launches, bridges, callers, operations, copies, paths,
tokens, firewall plans or addresses, and any bound on failures, stops, crashes and
changes from outside. The assumptions on constants are those of the component's
module, each evaluated by TLC in its run: the names of processes and of "nothing"
differ from each other (`ProcsAssumption`, `NamesAssumption`, `LeaderAssumption`,
`NoneAssumption`, `CopiersAssumption`), bounds are naturals (`BoundsAssumption`),
the lease settings are as `Settings` validates them (`TimesAssumption`), and the
cache begins empty, sealed or with a leftover (`SeedsAssumption`). The theorems
about `NetworkPolicy` use none: subnets may collide in any way.

| Module | Theorems (what run they generalise) |
|---|---|
| `SessionLifecycleProofs` | `TypeCorrect`, `ActiveSessionUnique` (`OneActiveSession`), `FailedSessionsAreClean` (`FailedMeansClean`), `RunningIsFiltered` (`EgressWhileActive`), `RetireSparesOwners` (`NoRetireUnderOwner`), `StartingSessionsAreOwned` (`StartingHasOwner`), `PipelineImplementsService` (`ImplementsService`) |
| `McpBridgeProofs` | `TypeCorrect`, `LeaseUnique` (`SoleLease`), `LiveOwnersKeepLease` (`LiveOwnerKept`), `StopsEndLeases` (`StoppedHasNoLease`) |
| `ExecutionBrokerProofs` | `TypeCorrect`, `AgentIsSerialised` (`OneOutstanding`), `DispatchedInOrder` (`DispatchInOrder`) |
| `LaunchAuthorizationProofs` | `TypeCorrect`, `TokensLaunchOnce` (`OneLaunchPerToken`), `LaunchesArePreviewed` (`PreviewedSource`), `LaunchesAreTrusted` (`NothingRunsUntrusted`) |
| `WorkspaceDocumentsProofs` | `TypeCorrect`, `NoLostUpdate` (`OneSuccessor`), `RowsAreTrue` (`RowsDescribeFiles`), `WritesSpareActive` (`GenericWritesSpareActive`) |
| `SourceCacheProofs` | `WorkspacesAreTheCommit` (`WorkspaceIsCommit`), `LaunchesCleanUp` (`NothingLeftBehind`), `FailuresHaveCauses` (`FailureHasCause`) |
| `UserDataGrantsProofs` | `CopiesStayInGrant` (`CopyInGrant`), `CopiesAreWhole` (`CopyAllOrNothing`), `CopiesReplaceNothing` (`NothingReplaced`) |
| `HostProofs` (`NetworkPolicy`) | `NetworkInvariant`, `AttestedNetworksEnforce` (`AttestedEnforced`), `RulesOutlive` (`RulesOutliveContainer`), `RemovedNetworksAreGone` (`RemovedIsGone`), `ForeignNetworksKept` (`ForeignKept`) |
| `HostProofs` (`CommandRunner`) | `StoppedGroupsAreGone` (`StoppedGroupGone`), `SignalsStayInGroup` (`SignalsOwnGroup`) |

### The session lifecycle

*Types and the slot.* `OneActiveSession` alone is not inductive: a settling
teardown writes the state it remembers, so one has to know that it never revives
a session. The invariant is `ControlType /\ DataType /\ JobInv /\ OneActiveSession`:
the two halves of `TypeOK`, and `JobInv`, which ties a label to its job (a
retirement remembers its session as starting or ready). `ControlStep`, `DataStep`
and `JobStep` have one case per action; `SessionRowStep` shows that a step only
moves an active session or claims a row where the workspace has none.

*Resources and owners.* The other four properties share one invariant,
`SessionInv`, stated per process and per session: `WorkerInv` (what a worker's
label says about its row and its owner entry), `TargetInv` (what a job says about
the row of its target: a state once read only moves forward, `Reached`),
`CleanInv` (what a teardown has removed so far), `HostInv` (what a row says about
network, rules, files and container) and `BootInv` (while the server is down
nobody works, and the startup handler knows every starting session). With fifty
actions and five conjuncts per process, the proof is by rely and guarantee:
`StepOf(p)` says what a step of process `p` may do to what all share. The lemmas
`WorkerKept`, `TargetKept`, `CleanKept` and `HostKept` show that such a step
leaves the parts of all others intact, whatever they are doing; `FreshSteps`,
`ClaimStep`, `StartSteps`, `EndSteps`, `TeardownSteps`, `RetireSteps`,
`StopSteps`, `BootSteps` show that every action is such a step and keeps its own
part; `CrashStep` and `EnvSteps` treat the steps that are no process's.
The reasons, in a sentence each: an owner enters its table together with its row,
so a session seen starting without owner never gets one; the network of a running
container cannot be removed, and rules are removed only after the network, so a
filtered container stays filtered; only a teardown that noted no failure writes
failed, and a session that is torn down by rollback or retirement has no worker
left that could put a resource back (`NotStarting`).

The proof corrected a property. `StartingHasOwner` was first stated with the
private files as the only excuse, which one failure cannot refute; with two, a
retirement of the leftover session removes those files before it settles the row.
The property now names the retirement, and the run has two failures.

*Refinement.* `PipelineImplementsService` maps every step through `TableStep`,
which lists the eight ways in which a step may change the two tables.
`TableSteps` shows that every action is one of them, the `Map` lemmas that each is
a step of `NotebookService` or a stutter. Beyond `SessionInv` this needs
`WorkspaceInv` (a worker only has sessions of its own workspace in hand, and one
that publishes has recorded its gates), `GivenInv` (a ready launch names a session
that passed its gates) and `RowsInv`.

### The network policy

The three invariants follow from one, `NetworkInv`, stated per plan over a common
`FwInv`: the hooks hold jumps only, each to a chain that exists, and a chain holds
rules of its kind only.

*How far the rules are.* `Installed(p, k)` says that the first `k` of the twelve
commands of `firewall_rule_argv` have taken effect and nothing has been undone.
`RuleInv` states it for as long as it can be true, while the plan is `Guarded`: its
network is there and no cleaner has looked for it in vain. A worker in the middle of
`apply` has installed as many rules as its counter says; from its verification on, and
for as long as its container runs or a timed-out `docker run` may still start one, all
twelve. None of it is inductive without `NetInv`: rules are stripped only by a process
that has seen the network go, and a network once gone comes back through a late create
only (`Lost`), when its worker has long turned back and no container can be on it.
`RowInv` ties this to the row: until a stop takes it, no cleaner has begun.

*What a removal has removed.* `CleanInv` follows a removal through its six commands: a
chain whose `-X` did not fail is gone, and nobody makes it again, because the plan's
only installer is the process that removes, has died, or is up. The exception is the
one the property names: a stop beside a worker that is still installing.

*Frame.* A command of a plan touches its own chains and its own jumps (`PlanCommand`,
`OutcomeStep`, also when it times out), so all other plans are as before (`Same`,
`Still`, `StillKeeps`); `OnePlan` then leaves one plan to look at in each action's
lemma. This is where colliding subnets could have hurt: plans share the hooks, and
deleting the first equal rule must not delete another plan's jump
(`RemoveFirstKeepsOthers`).

*What the rules decide.* `InstalledSeals` goes from the twelve rules to packets. The
first match is the least index, which exists by well-foundedness (`MinIsLeast`,
`FirstMatch`, `HookVerdict`). A complete chain decides as the policy says or returns
what it accepts (`FullEgress`, `FullInput`); any part of another plan's chain on the
same subnet accepts nothing but DNS to an approved resolver (`PartialEgress`). So
whatever jump comes first, what the policy rejects is rejected.

### The other components

* `McpBridge`: a living writer's lease is open and its age bounded by what its
  label says: at most `StartMax` while the backend starts, then at most `StartMax`
  plus the heartbeat timer (`KeptInv`); with `TimingHolds` that is never stale.
  `EndInv` orders the end of the session: credentials go before leases, so a writer
  whose credentials are there has lost nothing yet; and a stop releases the leases
  when the row no longer lets anybody acquire one, which carries over to `stopped`.
* `ExecutionBroker`: `OneOutstanding` needs to know that a thread on its way to
  finish an operation carries an outcome (`ThreadInv`). The order of dispatch needs
  that everything queued is in the queue, by number, also between `next_queued` and
  the dispatch (`QueueInv`), and that records appear in order (`RecordInv`,
  `EnqueueInv`).
* `LaunchAuthorization`: `HandlerInv` says what the handler has established at each
  of its steps, `LaunchInv` what holds of every launch; the link is that the token of
  a launch is in the replay table, where the handler about to create one has put its
  token itself.
* `WorkspaceDocuments`: `TxInv` (what the guard has checked still holds while the
  transaction is open), `VersionInv` (a version is in one place: a call, a row, or
  replaced) and `DescribeInv` (a row describes its file unless its writer is at work,
  who then holds what to restore).
* `SourceCache`: a manifest is only ever written over the commit's own tree, so every
  digest a launch is given is the commit's (`CacheInv`). `FailureHasCause` needs that
  a good cache nobody tampers with never makes a launch quarantine anything
  (`CleanInv`). `NothingLeftBehind` follows each directory from the step that makes it
  to the one that removes it; what stays behind is always paired with the error of
  the removal that failed.
* `UserDataGrants`: the descriptor of the parent lies beneath the directory the
  caller's row names from the moment the root is opened, whatever happens to the
  paths (`CopierInv`, over `DiskInv`: where directories can be).
* `CommandRunner`: the leader is not waited for before the group has been signalled
  for the last time, and from then on the group stays empty (`StopInv`, over
  `ProcessInv`: every descendant is unborn, in the group or outside it).

### Only model-checked

* Liveness: `OwnersLeave`, `LaunchesSettle`, `CrashedLeaseReclaimed`,
  `CancelTakesEffect`, `AuthorizedStarts`, `StopEndsRun`. Temporal reasoning under
  fairness and `ENABLED` are outside the prover's reach.

## Not modelled

Git and HTTP I/O (a series of git commands is one step that may fail), the
construction of docker arguments, GPU probing, URL and path syntax, the Windows
variants of path handling and process control (job objects, handles), the
redaction of command output, JSON-RPC framing and output bounding, schema creation
and migration, HTML. `LifecycleOrchestrator` (orchestration.py) and
`JupyterSessionAdapter.rename_active` are not wired to the application; no caller
passes `cancel_requested`, which `CommandRunner` models nevertheless.
A `docker network rm` that outlives its
timeout is left out: it can only remove what is to be removed.
`update_active_notebook`, `set_document_version`,
`ExecutionBroker.expire` and `WritableLeaseStore.invalidate_session` have no
caller in the source; neither has `WritableLeaseStore.reconcile`, which `McpBridge`
models nevertheless (it only ever releases more). The MCP methods that write,
`_require_write` and the lease validator behind it cannot be reached while
`EXPOSED_WRITE_METHODS` is what it is. After a
crash between a file change and its commit the code has no recovery:
`WorkspaceDocuments` marks such states (`broken`) and its file properties
exclude them.

## Plan

What is modelled now covers the components above. Left to do:

1. Further abstract specifications: a lease as a mutex with expiry implemented by
   `McpBridge`, an atomic document store implemented by `WorkspaceDocuments`.
2. A `BoundedOutput` module for the binary search of
   `_largest_string_capped_value` in `mcp.py`, against a reference definition.
