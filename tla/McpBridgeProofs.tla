-------------------------- MODULE McpBridgeProofs --------------------------
(***************************************************************************)
(* Proofs about McpBridge, for any set of bridges and any stale time,      *)
(* heartbeat period, lag and start time.                                   *)
(*                                                                         *)
(* SoleLease is inductive with the types.  That a living writer keeps its  *)
(* lease is an argument about time: KeptInv bounds the age of its lease by *)
(* the start time while the backend starts, and by the start time plus the *)
(* heartbeat thread's own timer while it serves, so that a lease is always *)
(* renewed before anybody may call it stale.  EndInv orders the cleanup:   *)
(* credentials go before leases, and a stop releases its leases when none  *)
(* can be acquired any more.                                               *)
(***************************************************************************)
EXTENDS McpBridge, TLAPS

\* Types, and only a writer gets as far as the lease transaction.
BridgeType == TypeOK /\ \A b \in Bridges : pc[b] = "resolved" => b \in writers

\* The order of the cleanup.
EndInv ==
    /\ session \in {"stopped", "failed"} => ~creds
    /\ cleaner \in {"leases", "settle"} => ~creds
    /\ session = "stopped" \/ (session = "stopping" /\ cleaner = "settle") => OpenLeases = {}

\* What a living writer has, until leases are dropped with the session.
Keeps(b) ==
    /\ pc[b] \in Starting => lease[b] = "open" /\ age[b] <= StartMax
    /\ pc[b] \in Serving => /\ lease[b] = "open" /\ beat[b] \in {"wait", "beating"}
                            /\ age[b] <= StartMax + timer[b]

KeptInv == TimingHolds /\ creds => \A b \in writers : Keeps(b)

BridgeInv == BridgeType /\ SoleLease /\ EndInv /\ KeptInv

\* A session without bridges satisfies the invariant.
LEMMA InitBridge == Init => BridgeInv
<1> SUFFICES ASSUME Init PROVE BridgeInv
  OBVIOUS
<1>1. BridgeType
  <2>1. 0 \in 0..(Stale + 1) /\ 0 \in 0..(Period + Lag)
    BY TimesAssumption
  <2>2. QED BY <2>1 DEF Init, BridgeType, TypeOK, Pcs
<1>2. SoleLease /\ EndInv
  BY DEF Init, SoleLease, EndInv, OpenLeases
<1>3. KeptInv
  BY DEF Init, KeptInv, Keeps, Starting, Serving
<1> QED BY <1>1, <1>2, <1>3 DEF BridgeInv

\* Releasing a set of leases changes the open ones in it.
LEMMA ReleasedLeases ==
    ASSUME BridgeType, NEW L \in SUBSET OpenLeases
    PROVE  /\ Released(L) \in [Bridges -> {"none", "open", "released"}]
           /\ \A b \in Bridges : Released(L)[b] = IF b \in L THEN "released" ELSE lease[b]
           /\ \A b \in Bridges \ writers : Released(L)[b] = "none"
BY DEF BridgeType, TypeOK, Released, OpenLeases

\* Only an open lease is reclaimed as stale.
LEMMA StaleIsOpen == StaleLeases \in SUBSET OpenLeases
BY DEF StaleLeases

\* Types are kept, one action at a time.
LEMMA TypeStep == BridgeType /\ [Next]_vars => BridgeType'
<1> SUFFICES ASSUME BridgeType, [Next]_vars PROVE BridgeType'
  OBVIOUS
<1> USE TimesAssumption DEF BridgeType, TypeOK, Goto, leaseVars, sessionVars,
        threadVars, Pcs, Starting, Serving
<1>1. ASSUME NEW b \in Bridges, ReadRow(b) PROVE BridgeType'
  BY <1>1 DEF ReadRow
<1>2. ASSUME NEW b \in Bridges, ReadCredentials(b) PROVE BridgeType'
  BY <1>2 DEF ReadCredentials
<1>3. ASSUME NEW b \in Bridges, Acquire(b) PROVE BridgeType'
  BY <1>3, ReleasedLeases, StaleIsOpen DEF Acquire
<1>4. ASSUME NEW b \in Bridges, AcquireBusy(b) PROVE BridgeType'
  BY <1>4 DEF AcquireBusy
<1>5. ASSUME NEW b \in Bridges, Retry(b) PROVE BridgeType'
  BY <1>5 DEF Retry
<1>6. ASSUME NEW b \in Bridges, StartBackend(b) PROVE BridgeType'
  BY <1>6 DEF StartBackend
<1>7. ASSUME NEW b \in Bridges, Activate(b) PROVE BridgeType'
  BY <1>7 DEF Activate
<1>8. ASSUME NEW b \in Bridges, Request(b) PROVE BridgeType'
  BY <1>8 DEF Request
<1>9. ASSUME NEW b \in Bridges, CheckAttachment(b) PROVE BridgeType'
  BY <1>9 DEF CheckAttachment
<1>11. ASSUME NEW b \in Bridges, Inspect(b) PROVE BridgeType'
  BY <1>11 DEF Inspect
<1>14. ASSUME NEW b \in Bridges, Close(b) PROVE BridgeType'
  BY <1>14 DEF Close
<1>15. ASSUME NEW b \in Bridges, Join(b) PROVE BridgeType'
  BY <1>15 DEF Join
<1>16. ASSUME NEW b \in Bridges, ReleaseLease(b) PROVE BridgeType'
  BY <1>16, ReleasedLeases, StaleIsOpen DEF ReleaseLease
<1>17. ASSUME NEW b \in Bridges, Crash(b) PROVE BridgeType'
  BY <1>17 DEF Crash
<1>18. ASSUME NEW b \in Bridges, BeatDue(b) PROVE BridgeType'
  BY <1>18 DEF BeatDue
<1>19. ASSUME NEW b \in Bridges, BeatWrite(b) PROVE BridgeType'
  BY <1>19 DEF BeatWrite
<1>21. CASE Tick
  BY <1>21 DEF Tick
<1>22. CASE Reconcile
  BY <1>22, ReleasedLeases, StaleIsOpen DEF Reconcile
<1>23. CASE BeginStop
  BY <1>23 DEF BeginStop
<1>24. CASE BeginRetire \/ StopEnded
  BY <1>24 DEF BeginRetire, StopEnded
<1>25. CASE RuntimeExits
  BY <1>25 DEF RuntimeExits
<1>26. CASE KillRuntime
  BY <1>26 DEF KillRuntime
<1>27. CASE DropCredentials
  BY <1>27 DEF DropCredentials
<1>28. CASE DropLeases
  BY <1>28, ReleasedLeases, StaleIsOpen DEF DropLeases
<1>29. CASE Settle
  BY <1>29 DEF Settle
<1>30. CASE UNCHANGED vars
  BY <1>30 DEF vars
<1> QED
  BY <1>1, <1>2, <1>3, <1>4, <1>5, <1>6, <1>7, <1>8, <1>9, <1>11, <1>14, <1>15, <1>16, <1>17, <1>18, <1>19, <1>21, <1>22, <1>23, <1>24, <1>25, <1>26, <1>27, <1>28, <1>29, <1>30
     DEF Next, Attach, Serve, Detach, Thread, Cleaner

\* Leases change only by these actions; all but the first only release some.
LeaseSteps ==
    \/ \E b \in Bridges : Acquire(b) \/ ReleaseLease(b)
    \/ Reconcile \/ DropLeases

\* The steps that write the lease table.
LEMMA LeaseFrame == [Next]_vars => LeaseSteps \/ UNCHANGED lease
BY DEF Next, vars, LeaseSteps, Attach, Serve, Detach, Thread, Cleaner, leaseVars,
   ReadRow, ReadCredentials, AcquireBusy, Retry, StartBackend, Activate, Request,
   CheckAttachment, Inspect, Close, Join, Crash, BeatDue, BeatWrite,
   Tick, BeginStop, StopEnded, BeginRetire, RuntimeExits, KillRuntime, DropCredentials, Settle

\* A lease is inserted only when no other is open.
LEMMA SoleStep == BridgeType /\ SoleLease /\ [Next]_vars => SoleLease'
<1> SUFFICES ASSUME BridgeType, SoleLease, [Next]_vars PROVE SoleLease'
  OBVIOUS
<1>1. CASE UNCHANGED lease
  BY <1>1 DEF SoleLease, OpenLeases
<1>2. ASSUME NEW b \in Bridges, Acquire(b) PROVE SoleLease'
  <2>1. \A c \in Bridges \ {b} : lease'[c] # "open"
    BY <1>2, ReleasedLeases, StaleIsOpen DEF Acquire, OpenLeases
  <2>2. QED BY <2>1 DEF SoleLease, OpenLeases
<1>3. ASSUME NEW L \in SUBSET OpenLeases, lease' = Released(L) PROVE SoleLease'
  BY <1>3, ReleasedLeases DEF SoleLease, OpenLeases
<1>4. ASSUME NEW b \in Bridges, ReleaseLease(b) PROVE SoleLease'
  BY <1>3, <1>4 DEF ReleaseLease
<1>5. CASE Reconcile \/ DropLeases
  BY <1>3, <1>5, StaleIsOpen DEF Reconcile, DropLeases
<1> QED BY <1>1, <1>2, <1>4, <1>5, LeaseFrame DEF LeaseSteps

\* Releases never open a lease.
LEMMA ReleasesClose ==
    ASSUME BridgeType, OpenLeases = {}, NEW L \in SUBSET OpenLeases, lease' = Released(L)
    PROVE  OpenLeases' = {}
BY ReleasedLeases DEF OpenLeases

\* Credentials go before leases; and once a stop has released the leases, the
\* session is no longer ready and no transaction opens another.
LEMMA EndStep == BridgeType /\ EndInv /\ [Next]_vars => EndInv'
<1> SUFFICES ASSUME BridgeType, EndInv, [Next]_vars PROVE EndInv'
  OBVIOUS
<1>1. CASE UNCHANGED <<session, cleaner, creds>>
  <2>1. CASE UNCHANGED lease
    BY <1>1, <2>1 DEF EndInv, OpenLeases
  <2>2. CASE \E b \in Bridges : Acquire(b)
    BY <1>1, <2>2 DEF EndInv, Acquire
  <2>3. CASE (\E b \in Bridges : ReleaseLease(b)) \/ Reconcile
    <3>1. PICK L \in SUBSET OpenLeases : lease' = Released(L)
      BY <2>3, StaleIsOpen DEF ReleaseLease, Reconcile
    <3>2. QED BY <1>1, <3>1, ReleasesClose DEF EndInv
  <2>4. CASE DropLeases
    BY <1>1, <2>4 DEF DropLeases
  <2>5. QED BY <2>1, <2>2, <2>3, <2>4, LeaseFrame DEF LeaseSteps
<1>2. CASE DropLeases
  <2>1. OpenLeases' = {}
    BY <1>2, ReleasedLeases DEF DropLeases, OpenLeases
  <2>2. QED BY <1>2, <2>1 DEF EndInv, DropLeases
<1>3. CASE BeginStop \/ StopEnded \/ BeginRetire \/ KillRuntime \/ DropCredentials \/ Settle
  <2>1. UNCHANGED lease
    BY <1>3 DEF BeginStop, StopEnded, BeginRetire, KillRuntime, DropCredentials, Settle, leaseVars
  <2>2. OpenLeases' = OpenLeases
    BY <2>1 DEF OpenLeases
  <2>3. CASE BeginStop \/ StopEnded \/ BeginRetire
    BY <2>2, <2>3 DEF EndInv, Idle, BeginStop, StopEnded, BeginRetire
  <2>4. CASE KillRuntime \/ DropCredentials
    <3>1. cleaner' # "settle" /\ session' = session
      BY <2>4 DEF KillRuntime, DropCredentials
    <3>2. (creds' => creds) /\ (cleaner' = "leases" => ~creds')
      <4>1. CASE KillRuntime
        BY <4>1 DEF KillRuntime
      <4>2. CASE DropCredentials
        BY <4>2, Zenon DEF DropCredentials
      <4>3. QED BY <2>4, <4>1, <4>2
    <3>3. QED BY <2>2, <3>1, <3>2 DEF EndInv
  <2>5. CASE Settle
    <3>1. ~creds'
      BY <2>5 DEF EndInv, Settle
    <3>2. cleaner' = "done" /\ (session' = "stopped" => OpenLeases' = {})
      BY <2>2, <2>5 DEF EndInv, Settle
    <3>3. QED BY <3>1, <3>2 DEF EndInv
  <2>6. QED BY <1>3, <2>3, <2>4, <2>5
<1> QED
  BY <1>1, <1>2, <1>3 DEF Next, vars, sessionVars, Attach, Serve, Detach, Thread, Cleaner,
     ReadRow, ReadCredentials, Acquire, AcquireBusy, Retry, StartBackend, Activate, Request,
     CheckAttachment, Inspect, Close, Join, ReleaseLease, Crash,
     BeatDue, BeatWrite, Tick, Reconcile, RuntimeExits

-----------------------------------------------------------------------------
(* A living writer keeps its lease *)

\* As long as the timing holds no living writer's lease is stale.
LEMMA NotStale ==
    ASSUME BridgeType, TimingHolds, NEW b \in writers, Keeps(b), pc[b] \in Serving \cup Starting
    PROVE  lease[b] = "open" /\ age[b] <= Stale /\ b \notin StaleLeases
<1>1. /\ StartMax \in Nat /\ Stale \in Nat /\ Period \in Nat /\ Lag \in Nat
      /\ age[b] \in Nat /\ timer[b] \in 0..(Period + Lag)
  BY TimesAssumption DEF BridgeType, TypeOK
<1>2. age[b] <= StartMax \/ age[b] <= StartMax + timer[b]
  BY DEF Keeps
<1>3. age[b] <= Stale
  BY <1>1, <1>2 DEF TimingHolds
<1> QED BY <1>1, <1>3 DEF Keeps, StaleLeases

\* A lease that is not stale survives every step of the others.
LEMMA LeaseKept ==
    ASSUME BridgeType, EndInv, TimingHolds, creds', [Next]_vars, NEW b \in writers,
           Keeps(b), pc[b] \in Serving \cup Starting
    PROVE  lease'[b] = "open"
<1>1. lease[b] = "open" /\ b \in OpenLeases /\ b \notin StaleLeases /\ b \in Bridges
  BY NotStale DEF OpenLeases, BridgeType, TypeOK
<1>2. CASE UNCHANGED lease
  BY <1>1, <1>2
<1>3. CASE \E c \in Bridges : Acquire(c)
  BY <1>1, <1>3 DEF Acquire
<1>4. CASE \E c \in Bridges : ReleaseLease(c)
  <2>1. PICK c \in Bridges : ReleaseLease(c)
    BY <1>4
  <2>2. c # b
    BY <2>1 DEF ReleaseLease, Serving, Starting
  <2>3. QED BY <1>1, <2>1, <2>2, ReleasedLeases DEF ReleaseLease
<1>5. CASE Reconcile
  <2>1. session \in {"ready", "stopping"}
    BY <1>5 DEF Reconcile, EndInv, BridgeType, TypeOK, sessionVars
  <2>2. QED BY <1>1, <1>5, <2>1, ReleasedLeases, StaleIsOpen DEF Reconcile
<1>6. CASE DropLeases
  BY <1>6 DEF DropLeases, EndInv
<1> QED BY <1>2, <1>3, <1>4, <1>5, <1>6, LeaseFrame DEF LeaseSteps

\* Every step keeps what a living writer has: time passes only as far as a
\* heartbeat that is due allows.
LEMMA KeptStep == BridgeType /\ EndInv /\ KeptInv /\ [Next]_vars => KeptInv'
<1> SUFFICES ASSUME BridgeType, EndInv, KeptInv, [Next]_vars, TimingHolds, creds',
                    NEW b \in writers'
             PROVE  Keeps(b)'
  BY DEF KeptInv, TimingHolds
<1>0. b \in writers /\ b \in Bridges /\ creds
  BY DEF Next, vars, sessionVars, Attach, Serve, Detach, Thread, Cleaner, BridgeType, TypeOK,
     ReadRow, ReadCredentials, Acquire, AcquireBusy, Retry, StartBackend, Activate, Request,
     CheckAttachment, Inspect, Close, Join, ReleaseLease, Crash,
     BeatDue, BeatWrite, Tick, Reconcile, BeginStop, StopEnded, BeginRetire, RuntimeExits,
     KillRuntime, DropCredentials, DropLeases, Settle
<1>1. Keeps(b) /\ (pc[b] \in Serving \cup Starting => lease'[b] = "open")
  BY <1>0, LeaseKept DEF KeptInv
<1>2. /\ age \in [Bridges -> Nat] /\ timer \in [Bridges -> Nat] /\ StartMax \in Nat
      /\ pc \in [Bridges -> Pcs] /\ beat \in [Bridges -> {"off", "wait", "beating", "done"}]
      /\ lease \in [Bridges -> {"none", "open", "released"}]
  BY TimesAssumption DEF BridgeType, TypeOK
<1> USE <1>0, <1>1, <1>2 DEF Keeps, Goto, leaseVars, threadVars, Serving, Starting
<1>3. ASSUME NEW m \in Bridges, ReadRow(m) PROVE Keeps(b)'
  BY <1>3 DEF ReadRow
<1>4. ASSUME NEW m \in Bridges, ReadCredentials(m) PROVE Keeps(b)'
  BY <1>4 DEF ReadCredentials
<1>5. ASSUME NEW m \in Bridges, Acquire(m) PROVE Keeps(b)'
  BY <1>5, ReleasedLeases, StaleIsOpen DEF Acquire
<1>6. ASSUME NEW m \in Bridges, AcquireBusy(m) PROVE Keeps(b)'
  BY <1>6 DEF AcquireBusy
<1>7. ASSUME NEW m \in Bridges, Retry(m) PROVE Keeps(b)'
  BY <1>7 DEF Retry
<1>8. ASSUME NEW m \in Bridges, StartBackend(m) PROVE Keeps(b)'
  BY <1>8 DEF StartBackend
<1>9. ASSUME NEW m \in Bridges, Activate(m) PROVE Keeps(b)'
  BY <1>9 DEF Activate
<1>10. ASSUME NEW m \in Bridges, Request(m) PROVE Keeps(b)'
  BY <1>10 DEF Request
<1>11. ASSUME NEW m \in Bridges, CheckAttachment(m) PROVE Keeps(b)'
  BY <1>11 DEF CheckAttachment
<1>13. ASSUME NEW m \in Bridges, Inspect(m) PROVE Keeps(b)'
  BY <1>13 DEF Inspect
<1>16. ASSUME NEW m \in Bridges, Close(m) PROVE Keeps(b)'
  BY <1>16 DEF Close
<1>17. ASSUME NEW m \in Bridges, Join(m) PROVE Keeps(b)'
  BY <1>17 DEF Join
<1>18. ASSUME NEW m \in Bridges, ReleaseLease(m) PROVE Keeps(b)'
  BY <1>18, ReleasedLeases, StaleIsOpen DEF ReleaseLease
<1>19. ASSUME NEW m \in Bridges, Crash(m) PROVE Keeps(b)'
  BY <1>19 DEF Crash
<1>20. ASSUME NEW m \in Bridges, BeatDue(m) PROVE Keeps(b)'
  BY <1>20 DEF BeatDue
<1>21. ASSUME NEW m \in Bridges, BeatWrite(m) PROVE Keeps(b)'
  BY <1>21 DEF BeatWrite
<1>22. CASE Tick
  BY <1>22 DEF Tick
<1>23. CASE UNCHANGED <<pc, age, timer, beat>>
  BY <1>23
<1> QED
  BY <1>3, <1>4, <1>5, <1>6, <1>7, <1>8, <1>9, <1>10, <1>11, <1>13, <1>16, <1>17, <1>18, <1>19, <1>20, <1>21, <1>22, <1>23
     DEF Next, vars, Attach, Serve, Detach, Thread, Cleaner, Reconcile, BeginStop, StopEnded,
         BeginRetire, RuntimeExits, KillRuntime, DropCredentials, DropLeases, Settle

\* The invariant holds in every reachable state.
LEMMA BridgeInvariant == Spec => []BridgeInv
<1>1. BridgeInv /\ [Next]_vars => BridgeInv'
  BY TypeStep, SoleStep, EndStep, KeptStep DEF BridgeInv
<1> QED BY <1>1, InitBridge, PTL DEF Spec

-----------------------------------------------------------------------------
(* Theorems *)

\* The state of a session's bridges has its type; in particular a bridge that
\* runs without --mode write never has a lease row or a heartbeat thread.
THEOREM TypeCorrect == Spec => []TypeOK
<1>1. BridgeInv => TypeOK
  BY DEF BridgeInv, BridgeType
<1> QED BY <1>1, BridgeInvariant, PTL

\* At most one unreleased writable lease, in every order of acquisitions,
\* reclamations, heartbeats and cleanups (WritableLeaseStore).
THEOREM LeaseUnique == Spec => []SoleLease
<1>1. BridgeInv => SoleLease
  BY DEF BridgeInv
<1> QED BY <1>1, BridgeInvariant, PTL

\* With StartMax + Period + Lag <= Stale, no acquire or reconcile of another
\* process takes the lease of a writer that is starting or serving.
THEOREM LiveOwnersKeepLease == Spec => []LiveOwnerKept
<1>1. BridgeInv => LiveOwnerKept
  <2> SUFFICES ASSUME BridgeInv, TimingHolds, creds, NEW b \in writers,
                      pc[b] \in Serving \cup Starting
               PROVE  lease[b] = "open" /\ age[b] <= Stale
    BY DEF LiveOwnerKept
  <2> QED BY NotStale DEF BridgeInv, KeptInv
<1> QED BY <1>1, BridgeInvariant, PTL

\* Once a stop is recorded nobody holds a lease on the session: the leases are
\* released while the row says stopping, and acquire reads the row in its own
\* transaction (LaunchPipeline.stop, WritableLeaseStore.acquire).
THEOREM StopsEndLeases == Spec => []StoppedHasNoLease
<1>1. BridgeInv => StoppedHasNoLease
  BY DEF BridgeInv, EndInv, StoppedHasNoLease
<1> QED BY <1>1, BridgeInvariant, PTL
============================================================================
