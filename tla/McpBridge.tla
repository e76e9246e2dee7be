---------------------------- MODULE McpBridge -----------------------------
(***************************************************************************)
(* The writable-agent lease of one notebook session (leases.py) and the    *)
(* stdio bridges that hold it (resolve_mcp_bridge and McpBridgeContext in  *)
(* cli.py), serving tool calls through SemanticMcpAdapter and              *)
(* DatalayerBackend (mcp.py).  In both modes these are reads: the methods  *)
(* that write are defined but EXPOSED_WRITE_METHODS keeps them closed, so  *)
(* the lease decides who may be attached for writing, not a single call.   *)
(*                                                                         *)
(* Every bridge is an operating-system process of its own; it runs one     *)
(* call at a time, beside a heartbeat thread.  A step is one SQLite        *)
(* transaction, one call to the Jupyter backend or one thread event.  A    *)
(* bridge acquires at most one lease, so its lease goes by its name.       *)
(*                                                                         *)
(* Time is kept as ages: the clock ticks, and the timestamps heartbeat_at  *)
(* and acquired_at are the ticks since they were written.                  *)
(***************************************************************************)
EXTENDS Naturals

CONSTANTS
    Bridges,   \* bridge processes attached to the session
    Stale,     \* writable_lease_stale_seconds
    Period,    \* writable_lease_heartbeat_seconds
    Lag,       \* how late the heartbeat thread may run
    StartMax   \* how long the backend may take to start

ASSUME TimesAssumption ==
    /\ Stale \in Nat /\ Period \in Nat /\ Lag \in Nat /\ StartMax \in Nat
    /\ 0 < Period /\ Period < Stale   \* Settings._validate_lease_timing

VARIABLES
    session,     \* notebook_sessions.state
    cleaner,     \* control state of the launcher's stop or retire
    stopFailed,  \* that cleanup could not confirm that the runtime is gone
    runtime,     \* the container runs
    creds,       \* mcp-private.json exists
    writers,     \* the bridges that the user runs with --mode write
    lease,       \* lease[b]: the row of b's lease
    age,         \* ticks since the row's heartbeat_at
    pc,          \* control state of a bridge
    beat, timer  \* its heartbeat thread, and the ticks since its last beat

leaseVars   == <<lease, age>>
sessionVars == <<session, cleaner, stopFailed, runtime, creds, writers>>
threadVars  == <<beat, timer>>
vars == <<sessionVars, leaseVars, pc, threadVars>>

Serving  == {"attached", "gate", "inspect"}
Starting == {"leased", "started"}
Pcs == Serving \cup Starting
       \cup {"off", "row", "resolved", "refused", "joining", "releasing", "exited", "dead"}

Init ==
    /\ session = "ready" /\ cleaner = "none" /\ stopFailed = FALSE
    /\ runtime = TRUE /\ creds = TRUE /\ writers \in SUBSET Bridges
    /\ lease = [b \in Bridges |-> "none"] /\ age = [b \in Bridges |-> 0]
    /\ pc = [b \in Bridges |-> "off"]
    /\ beat = [b \in Bridges |-> "off"] /\ timer = [b \in Bridges |-> 0]

Goto(b, label) == pc' = [pc EXCEPT ![b] = label]

\* The rows the partial unique index on unreleased leases covers.
OpenLeases == {b \in Bridges : lease[b] = "open"}

\* Mutant: a lease is stale one tick early.
StaleLeasesEarly == {b \in OpenLeases : age[b] >= Stale}

\* Mutant: an abandoned lease never becomes stale.
StaleLeasesNever == {}

\* Unreleased leases with heartbeat_at < now - stale_after_seconds.
StaleLeases == {b \in OpenLeases : age[b] > Stale}

Released(L) == [b \in Bridges |-> IF b \in L THEN "released" ELSE lease[b]]

-----------------------------------------------------------------------------
(* Attaching: resolve_mcp_bridge *)

\* The session row is read outside any transaction that follows.
ReadRow(b) ==
    /\ pc[b] = "off"
    /\ Goto(b, IF session = "ready" THEN "row" ELSE "exited")
    /\ UNCHANGED <<sessionVars, leaseVars, threadVars>>

\* A reader takes no lease and goes on to start its backend.
ReadCredentials(b) ==
    /\ pc[b] = "row"
    /\ Goto(b, IF ~creds THEN "exited" ELSE IF b \in writers THEN "resolved" ELSE "leased")
    /\ UNCHANGED <<sessionVars, leaseVars, threadVars>>

\* Mutant: the partial unique index on unreleased leases is missing.
AcquireUnchecked(b) ==
    /\ pc[b] = "resolved"
    /\ session = "ready"
    /\ lease' = [Released(StaleLeases) EXCEPT ![b] = "open"]
    /\ age' = [age EXCEPT ![b] = 0]
    /\ Goto(b, "leased")
    /\ UNCHANGED <<sessionVars, threadVars>>

\* Mutant: the transaction trusts the session row that was read before it.
AcquireAnySession(b) ==
    /\ pc[b] = "resolved"
    /\ OpenLeases \subseteq StaleLeases
    /\ lease' = [Released(StaleLeases) EXCEPT ![b] = "open"]
    /\ age' = [age EXCEPT ![b] = 0]
    /\ Goto(b, "leased")
    /\ UNCHANGED <<sessionVars, threadVars>>

\* One transaction: the session must be ready, stale leases are released and
\* the insert succeeds if no other unreleased lease is left.
Acquire(b) ==
    /\ pc[b] = "resolved"
    /\ session = "ready"
    /\ OpenLeases \subseteq StaleLeases
    /\ lease' = [Released(StaleLeases) EXCEPT ![b] = "open"]
    /\ age' = [age EXCEPT ![b] = 0]
    /\ Goto(b, "leased")
    /\ UNCHANGED <<sessionVars, threadVars>>

\* WritableAgentBusy: the transaction is rolled back, the process ends.
AcquireBusy(b) ==
    /\ pc[b] = "resolved"
    /\ session # "ready" \/ ~(OpenLeases \subseteq StaleLeases)
    /\ Goto(b, "refused")
    /\ UNCHANGED <<sessionVars, leaseVars, threadVars>>

\* The user runs the refused bridge again.
Retry(b) ==
    /\ pc[b] = "refused"
    /\ Goto(b, "off")
    /\ UNCHANGED <<sessionVars, leaseVars, threadVars>>

\* The backend process is started; failing that, the lease is given back.
StartBackend(b) ==
    /\ pc[b] = "leased"
    /\ Goto(b, "started") \/ Goto(b, "releasing")
    /\ UNCHANGED <<sessionVars, leaseVars, threadVars>>

\* Mutant: the heartbeat thread is started without a lease too.
ActivateAlwaysBeating(b) ==
    /\ pc[b] = "started"
    /\ Goto(b, "attached")
    /\ beat' = [beat EXCEPT ![b] = "wait"] /\ timer' = [timer EXCEPT ![b] = 0]
    /\ UNCHANGED <<sessionVars, leaseVars>>

\* The backend opens the notebook; only then is McpBridgeContext built, which
\* starts the heartbeat thread of a bridge that holds a lease.
Activate(b) ==
    /\ pc[b] = "started"
    /\ \/ /\ runtime
          /\ Goto(b, "attached")
          /\ beat' = IF b \in writers THEN [beat EXCEPT ![b] = "wait"] ELSE beat
          /\ timer' = [timer EXCEPT ![b] = 0]
       \/ Goto(b, "releasing") /\ UNCHANGED threadVars
    /\ UNCHANGED <<sessionVars, leaseVars>>

-----------------------------------------------------------------------------
(* Serving calls: SemanticMcpAdapter.call, one at a time *)

\* A tool call arrives.  Both modes offer READONLY_METHODS; a call of any other
\* method is denied at once and changes nothing.
Request(b) ==
    /\ pc[b] = "attached"
    /\ Goto(b, "gate")
    /\ UNCHANGED <<sessionVars, leaseVars, threadVars>>

\* _validate_attachment: the session is still ready, or the client is told no.
CheckAttachment(b) ==
    /\ pc[b] = "gate"
    /\ Goto(b, IF session = "ready" THEN "inspect" ELSE "attached")
    /\ UNCHANGED <<sessionVars, leaseVars, threadVars>>

\* The backend reads the notebook, or fails; either way the client is answered.
Inspect(b) ==
    /\ pc[b] = "inspect"
    /\ Goto(b, "attached")
    /\ UNCHANGED <<sessionVars, leaseVars, threadVars>>

-----------------------------------------------------------------------------
(* Detaching: McpBridgeContext.close *)

\* The client closes the stream: the stop event ends a waiting thread.
Close(b) ==
    /\ pc[b] = "attached"
    /\ Goto(b, "joining")
    /\ beat' = IF beat[b] = "wait" THEN [beat EXCEPT ![b] = "done"] ELSE beat
    /\ UNCHANGED <<sessionVars, leaseVars, timer>>

\* join() returns because the thread ended or because it timed out.
Join(b) ==
    /\ pc[b] = "joining"
    /\ Goto(b, "releasing")
    /\ UNCHANGED <<sessionVars, leaseVars, threadVars>>

\* WritableLeaseStore.release; the process ends.
ReleaseLease(b) ==
    /\ pc[b] = "releasing"
    /\ lease' = Released({b} \cap OpenLeases)
    /\ Goto(b, "exited")
    /\ beat' = [beat EXCEPT ![b] = "off"]
    /\ UNCHANGED <<sessionVars, age, timer>>

\* The bridge is killed: nothing is released.
Crash(b) ==
    /\ pc[b] \notin {"off", "refused", "exited", "dead"}
    /\ Goto(b, "dead")
    /\ beat' = [beat EXCEPT ![b] = "off"]
    /\ UNCHANGED <<sessionVars, leaseVars, timer>>

-----------------------------------------------------------------------------
(* The heartbeat thread and the clock *)

\* wait(interval) times out.
BeatDue(b) ==
    /\ beat[b] = "wait" /\ timer[b] >= Period
    /\ beat' = [beat EXCEPT ![b] = "beating"]
    /\ UNCHANGED <<sessionVars, leaseVars, pc, timer>>

\* heartbeat(): a released lease ends the thread, and so does a stop event.
BeatWrite(b) ==
    /\ beat[b] = "beating"
    /\ age' = IF lease[b] = "open" THEN [age EXCEPT ![b] = 0] ELSE age
    /\ timer' = [timer EXCEPT ![b] = 0]
    /\ beat' = [beat EXCEPT ![b] =
                   IF lease[b] = "open" /\ pc[b] \in Serving THEN "wait" ELSE "done"]
    /\ UNCHANGED <<sessionVars, lease, pc>>

\* Time passes, but never so much that a bridge overruns its bounds.
Tick ==
    /\ \A b \in writers :
          /\ pc[b] \in Starting => age[b] < StartMax
          /\ beat[b] \in {"wait", "beating"} => timer[b] < Period + Lag
    /\ age' = [b \in Bridges |-> IF lease[b] = "open" /\ age[b] <= Stale THEN age[b] + 1
                                 ELSE age[b]]
    /\ timer' = [b \in Bridges |-> IF beat[b] \in {"wait", "beating"} THEN timer[b] + 1
                                   ELSE timer[b]]
    /\ UNCHANGED <<sessionVars, lease, pc, beat>>

\* WritableLeaseStore.reconcile.
Reconcile ==
    /\ lease' = Released(IF session \in {"ready", "stopping"} THEN StaleLeases ELSE OpenLeases)
    /\ lease' # lease
    /\ UNCHANGED <<sessionVars, age, pc, threadVars>>

-----------------------------------------------------------------------------
(* The launcher ends the session: stop, or retire after a failed attestation. *)
(* One of them at a time; SessionLifecycle has them side by side.             *)

Idle == cleaner \in {"none", "done"}

\* stop; a session that a failed cleanup left stopping is stopped again.
BeginStop ==
    /\ Idle /\ session \in {"ready", "stopping"}
    /\ session' = "stopping" /\ cleaner' = "kill" /\ stopFailed' = FALSE
    /\ UNCHANGED <<runtime, creds, writers, leaseVars, pc, threadVars>>

\* stop of a session that has ended repeats the invalidation and the release.
StopEnded ==
    /\ Idle /\ session \in {"stopped", "failed"}
    /\ cleaner' = "private"
    /\ UNCHANGED <<session, stopFailed, runtime, creds, writers, leaseVars, pc, threadVars>>

\* A retire leaves the session ready until its compare-and-set at the end.
BeginRetire ==
    /\ Idle /\ session = "ready"
    /\ cleaner' = "kill" /\ stopFailed' = FALSE
    /\ UNCHANGED <<session, runtime, creds, writers, leaseVars, pc, threadVars>>

RuntimeExits ==
    /\ runtime /\ runtime' = FALSE
    /\ UNCHANGED <<session, cleaner, stopFailed, creds, writers, leaseVars, pc, threadVars>>

\* _stop_and_confirm_runtime and the removal of the network: a failure is
\* kept, whether or not the runtime is gone.
KillRuntime ==
    /\ cleaner = "kill" /\ cleaner' = "private"
    /\ \/ runtime' = FALSE /\ UNCHANGED stopFailed
       \/ runtime' \in {runtime, FALSE} /\ stopFailed' = TRUE
    /\ UNCHANGED <<session, creds, writers, leaseVars, pc, threadVars>>

\* _invalidate_session_private_state; an error leaves the handler here.
DropCredentials ==
    /\ cleaner = "private"
    /\ \/ cleaner' = "leases" /\ creds' = FALSE
       \/ creds /\ cleaner' = "done" /\ UNCHANGED creds
    /\ UNCHANGED <<session, stopFailed, runtime, writers, leaseVars, pc, threadVars>>

\* release_session_leases.
DropLeases ==
    /\ cleaner = "leases" /\ cleaner' = "settle"
    /\ lease' = Released(OpenLeases)
    /\ UNCHANGED <<session, stopFailed, runtime, creds, writers, age, pc, threadVars>>

\* The last compare-and-set: a failed cleanup leaves the session stopping.
Settle ==
    /\ cleaner = "settle" /\ cleaner' = "done"
    /\ session' = IF session \in {"stopped", "failed"} THEN session
                  ELSE IF stopFailed THEN "stopping"
                  ELSE IF session = "stopping" THEN "stopped" ELSE "failed"
    /\ UNCHANGED <<stopFailed, runtime, creds, writers, leaseVars, pc, threadVars>>

-----------------------------------------------------------------------------
Attach(b) == ReadRow(b) \/ ReadCredentials(b) \/ Acquire(b) \/ AcquireBusy(b)
             \/ Retry(b) \/ StartBackend(b) \/ Activate(b)
Serve(b)  == CheckAttachment(b) \/ Inspect(b)
Detach(b) == Join(b) \/ ReleaseLease(b)
Thread(b) == BeatDue(b) \/ BeatWrite(b)
Cleaner   == KillRuntime \/ DropCredentials \/ DropLeases \/ Settle

Next ==
    \/ \E b \in Bridges : Attach(b) \/ Request(b) \/ Serve(b) \/ Close(b) \/ Detach(b)
                          \/ Crash(b) \/ Thread(b)
    \/ Tick \/ Reconcile \/ BeginStop \/ StopEnded \/ BeginRetire \/ RuntimeExits \/ Cleaner

Spec == Init /\ [][Next]_vars

\* Processes and threads keep running, time passes, and a refused user retries.
FairSpec ==
    /\ Spec
    /\ \A b \in Bridges : /\ WF_vars(Attach(b)) /\ WF_vars(Serve(b))
                          /\ WF_vars(Detach(b)) /\ WF_vars(Thread(b))
    /\ WF_vars(Tick) /\ WF_vars(Cleaner)

-----------------------------------------------------------------------------
(* Properties *)

\* Types.  Only a writer ever has a lease row or a heartbeat thread (cli.py
\* passes lease_id None for a reader).
TypeOK ==
    /\ session \in {"ready", "stopping", "stopped", "failed"}
    /\ cleaner \in {"none", "kill", "private", "leases", "settle", "done"}
    /\ stopFailed \in BOOLEAN /\ runtime \in BOOLEAN /\ creds \in BOOLEAN
    /\ writers \subseteq Bridges
    /\ lease \in [Bridges -> {"none", "open", "released"}]
    /\ age \in [Bridges -> 0..(Stale + 1)]
    /\ pc \in [Bridges -> Pcs]
    /\ beat \in [Bridges -> {"off", "wait", "beating", "done"}]
    /\ timer \in [Bridges -> 0..(Period + Lag)]
    /\ \A b \in Bridges \ writers : lease[b] = "none" /\ beat[b] = "off"

\* A session has at most one unreleased writable lease, whatever the order of
\* acquisitions, reclamations, heartbeats and cleanups.
SoleLease == \A b, c \in OpenLeases : b = c

\* With these bounds a lease is renewed before it is stale: the backend starts,
\* the first heartbeat falls due and runs, all within the stale time.
TimingHolds == StartMax + Period + Lag <= Stale

\* A living writer that is starting or serving keeps its lease until the
\* session's own cleanup has removed its credentials, which it does before it
\* releases the leases: no other bridge's acquire and no reconcile takes it away.
LiveOwnerKept ==
    TimingHolds /\ creds =>
        \A b \in writers : pc[b] \in Serving \cup Starting =>
            lease[b] = "open" /\ age[b] <= Stale

\* A stop takes the session away from its agents for good: once the row says
\* stopped there is no unreleased lease, also for a bridge that had read the
\* row as ready before the stop began.  (A retirement leaves the row ready until
\* the end and so gives no such promise for a failed session.)
StoppedHasNoLease == session = "stopped" => OpenLeases = {}

\* A lease whose owner crashed is reclaimed: a writer that keeps trying gets
\* in, or somebody else does, unless the session ends.
CrashedLeaseReclaimed ==
    \A b \in Bridges :
        (b \in writers /\ pc[b] = "refused" /\ \A o \in OpenLeases : pc[o] = "dead")
        ~> (\/ \E o \in OpenLeases : pc[o] # "dead"
            \/ session # "ready" \/ ~creds \/ pc[b] \in {"dead", "exited"})
=============================================================================
