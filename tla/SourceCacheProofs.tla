------------------------- MODULE SourceCacheProofs --------------------------
(***************************************************************************)
(* Proofs about SourceCache, for any number of launches, changes from      *)
(* outside and crashes.                                                    *)
(*                                                                         *)
(* TypeInv and the clauses of LaunchInv are one inductive invariant.  Its  *)
(* heart is that a manifest is only ever written over the commit's own     *)
(* tree, so that every digest a launch is given is the commit's; the rest  *)
(* says what a launch has at each of its control states.  CleanInv is what *)
(* holds in addition as long as nobody tampers with a good cache.          *)
(***************************************************************************)
EXTENDS SourceCache, TLAPS

Trees == {"commit", "other", "partial"}

\* A manifest, wherever it is, names the commit's tree.
Directories == [tree : Trees, manifest : {"commit", None}]

Labels == Active \cup {"idle", "created", "failed", "dead"}

\* Before a launch has a staging directory and after it has none any more.
Unstaged == {"idle", "lookup", "quarantine", "cached", "stage", "verify", "copy",
             "copying", "reverify", "insert", "undo", "created"}

\* Where a launch has been given a snapshot.
Given == {"verify", "copy", "copying", "reverify", "insert", "undo", "created"}

TypeInv ==
    /\ target \in Directories \cup {None}
    /\ staging \in [Launches -> Directories \cup {None}]
    /\ snap \in [Launches -> {"commit", None}]
    /\ work \in [Launches -> Trees \cup {"empty", None}]
    /\ pc \in [Launches -> Labels]
    /\ out \in [Launches -> {"none", "ok", "git", "notebook", "identity", "setup", "disk",
                            "database", "cleanup"}]
    /\ rows \subseteq Launches /\ having \subseteq Launches
    /\ kind \in Kinds /\ tampers \in Nat

\* What a launch has on disk and in hand at each of its control states.
LaunchInv(l) ==
    /\ pc[l] = "fetch" => staging[l] # None
    /\ pc[l] = "seal" => staging[l] # None /\ staging[l].tree = "commit"
    /\ pc[l] = "publish" => staging[l] = Directory("commit", "commit")
    /\ pc[l] \in Unstaged => staging[l] = None
    /\ pc[l] \in Given => snap[l] = "commit"
    /\ pc[l] = "cleanup" /\ out[l] = "ok" => snap[l] = "commit"
    /\ pc[l] \in {"reverify", "insert", "created"} => work[l] = "commit"
    /\ pc[l] \in Labels \ {"copy", "copying", "reverify", "insert", "undo", "created",
                           "failed", "dead"} => work[l] = None
    /\ pc[l] = "failed" /\ out[l] # "cleanup" => staging[l] = None /\ work[l] = None
    /\ l \in rows <=> pc[l] = "created"

CacheInv == TypeInv /\ \A l \in Launches : LaunchInv(l)

\* A sealed tree is the commit's.
LEMMA SealedIsCommit ==
    ASSUME TypeInv, Sealed
    PROVE  target.tree = "commit" /\ target.manifest = "commit"
BY NoneAssumption DEF TypeInv, Sealed, Directories, Trees

\* The cache before the first launch satisfies the invariant.
LEMMA InitCache == Init => CacheInv
<1> SUFFICES ASSUME Init PROVE CacheInv
  OBVIOUS
<1>1. target \in Directories \cup {None}
  BY SeedsAssumption DEF Init, SeedDirectory, Directory, Directories, Trees
<1>2. TypeInv
  BY <1>1 DEF Init, TypeInv, Labels, Kinds
<1>3. \A l \in Launches : LaunchInv(l)
  BY DEF Init, LaunchInv, Labels, Unstaged, Given, Active
<1> QED BY <1>2, <1>3 DEF CacheInv

\* A step of one launch leaves what the others have alone.
LEMMA OthersKept ==
    ASSUME NEW l \in Launches, LaunchInv(l),
           pc'[l] = pc[l], out'[l] = out[l], staging'[l] = staging[l], snap'[l] = snap[l],
           work'[l] = work[l], l \in rows' <=> l \in rows
    PROVE  LaunchInv(l)'
BY DEF LaunchInv

\* One launch at work preserves the invariant, one action at a time.
LEMMA CacheLaunchStep ==
    ASSUME CacheInv, NEW m \in Launches, Start(m) \/ Acquire(m) \/ Create(m)
    PROVE  CacheInv'
<1> USE DEF Goto, Raise, Abandon, Fail, commitVars, cacheVars, spaceVars
<1> SUFFICES TypeInv' /\ LaunchInv(m)' /\ \A l \in Launches \ {m} :
        /\ pc'[l] = pc[l] /\ out'[l] = out[l] /\ staging'[l] = staging[l]
        /\ snap'[l] = snap[l] /\ work'[l] = work[l] /\ (l \in rows' <=> l \in rows)
  BY OthersKept DEF CacheInv
<1>0. TypeInv /\ LaunchInv(m)
  BY DEF CacheInv
<1>1. CASE Start(m)
  BY <1>0, <1>1, NoneAssumption DEF Start, TypeInv, LaunchInv, Labels, Unstaged, Given, Active, Directories, Trees
<1>2. CASE Lookup(m)
  BY <1>0, <1>2, NoneAssumption DEF Lookup, TypeInv, LaunchInv, Labels, Unstaged, Given, Active, Directories, Trees
<1>3. CASE Quarantine(m)
  BY <1>0, <1>3, NoneAssumption DEF Quarantine, TypeInv, LaunchInv, Labels, Unstaged, Given, Active, Directories, Trees
<1>4. CASE UseCached(m)
  BY <1>0, <1>4, SealedIsCommit, NoneAssumption DEF UseCached, TypeInv, LaunchInv, Labels, Unstaged, Given, Active, Directories, Trees
<1>5. CASE Stage(m)
  BY <1>0, <1>5, NoneAssumption DEF Stage, TypeInv, LaunchInv, Labels, Unstaged, Given, Active, Directories, Trees, Directory
<1>6. CASE Fetch(m)
  BY <1>0, <1>6, NoneAssumption DEF Fetch, Directory, TypeInv, LaunchInv, Labels, Unstaged, Given, Active, Directories, Trees
<1>7. CASE Seal(m)
  BY <1>0, <1>7, NoneAssumption DEF Seal, Directory, TypeInv, LaunchInv, Labels, Unstaged, Given, Active, Directories, Trees
<1>8. CASE Publish(m)
  BY <1>0, <1>8, NoneAssumption DEF Publish, TypeInv, LaunchInv, Labels, Unstaged, Given, Active, Directories, Trees, Directory
<1>9. CASE Occupied(m)
  BY <1>0, <1>9, NoneAssumption DEF Occupied, TypeInv, LaunchInv, Labels, Unstaged, Given, Active, Directories, Trees
<1>10. CASE UsePublished(m)
  BY <1>0, <1>10, SealedIsCommit, NoneAssumption DEF UsePublished, TypeInv, LaunchInv, Labels, Unstaged, Given, Active, Directories, Trees
<1>11. CASE Cleanup(m)
  BY <1>0, <1>11, NoneAssumption DEF Cleanup, TypeInv, LaunchInv, Labels, Unstaged, Given, Active, Directories, Trees, Directory
<1>12. CASE Verify(m)
  BY <1>0, <1>12, NoneAssumption DEF Verify, TypeInv, LaunchInv, Labels, Unstaged, Given, Active, Directories, Trees
<1>13. CASE CopyBegin(m)
  BY <1>0, <1>13, NoneAssumption DEF CopyBegin, TypeInv, LaunchInv, Labels, Unstaged, Given, Active, Directories, Trees, Copied
<1>14. CASE CopyEnd(m)
  BY <1>0, <1>14, NoneAssumption DEF CopyEnd, Copies, TypeInv, LaunchInv, Labels, Unstaged, Given, Active, Directories, Trees
<1>15. CASE Reverify(m)
  BY <1>0, <1>15, NoneAssumption DEF Reverify, TypeInv, LaunchInv, Labels, Unstaged, Given, Active, Directories, Trees
<1>16. CASE Insert(m)
  BY <1>0, <1>16, NoneAssumption DEF Insert, TypeInv, LaunchInv, Labels, Unstaged, Given, Active, Directories, Trees
<1>17. CASE Undo(m)
  BY <1>0, <1>17, NoneAssumption DEF Undo, TypeInv, LaunchInv, Labels, Unstaged, Given, Active, Directories, Trees
<1> QED BY <1>1, <1>2, <1>3, <1>4, <1>5, <1>6, <1>7, <1>8, <1>9, <1>10, <1>11, <1>12, <1>13, <1>14, <1>15, <1>16, <1>17 DEF Acquire, Create

\* Every step keeps the invariant.
LEMMA CacheStep == CacheInv /\ [Next]_vars => CacheInv'
<1> SUFFICES ASSUME CacheInv, [Next]_vars PROVE CacheInv'
  OBVIOUS
<1> USE DEF commitVars, cacheVars, spaceVars
<1>1. CASE \E m \in Launches : Start(m) \/ Acquire(m) \/ Create(m)
  BY <1>1, CacheLaunchStep
<1>2. CASE Tamper
  <2>1. TypeInv'
    BY <1>2, NoneAssumption DEF Tamper, CacheInv, TypeInv, Directory, Directories, Trees
  <2>2. QED BY <1>2, <2>1, OthersKept DEF Tamper, CacheInv
<1>3. CASE Crash
  BY <1>3 DEF Crash, CacheInv, TypeInv, LaunchInv, Labels, Active, Unstaged, Given
<1>4. CASE UNCHANGED vars
  BY <1>4 DEF vars, CacheInv, TypeInv, LaunchInv, Directory
<1> QED BY <1>1, <1>2, <1>3, <1>4 DEF Next

\* The invariant holds in every reachable state.
LEMMA CacheInvariant == Spec => []CacheInv
BY InitCache, CacheStep, PTL DEF Spec

\* Whatever happens to the cache while it is read, verified and copied, a
\* workspace that is recorded was made from the commit's own tree: acquire only
\* hands out digests that agree with a manifest, and create compares its copy.
THEOREM WorkspacesAreTheCommit == Spec => []WorkspaceIsCommit
<1>1. CacheInv => WorkspaceIsCommit
  BY DEF CacheInv, TypeInv, LaunchInv, WorkspaceIsCommit
<1> QED BY <1>1, CacheInvariant, PTL

\* A launch that has ended leaves neither a staging directory (the finally block
\* of acquire) nor a workspace's directory without a row (the handler of create),
\* or it has failed with the error of the removal that left it.
THEOREM LaunchesCleanUp == Spec => []NothingLeftBehind
<1>1. CacheInv => NothingLeftBehind
  BY DEF CacheInv, TypeInv, LaunchInv, NothingLeftBehind, Labels, Active, Unstaged, Given
<1> QED BY <1>1, CacheInvariant, PTL

-----------------------------------------------------------------------------
(* Launches do not disturb each other *)

\* Nothing is wrong with the commit, the cache or its contents.
Clean == seed # "legacy" /\ kind = "plain" /\ tampers = 0

\* What a launch may rely on then.  The target, once there, stays, because no
\* launch finds a directory without a manifest that it would move aside.
CleanLaunch(l) ==
    /\ pc[l] # "quarantine"
    /\ pc[l] \in {"cached", "occupied", "published"} \cup (Given \ {"created"}) => target # None
    /\ pc[l] = "cleanup" /\ out[l] = "ok" => target # None
    /\ pc[l] = "copying" => work[l] = "commit"
    /\ pc[l] = "undo" => out[l] \in {"disk", "database"}
    /\ l \in having /\ pc[l] = "cleanup" => out[l] \in {"git", "disk", "ok"}
    /\ l \in having /\ pc[l] = "failed" => out[l] \in {"git", "disk", "database", "cleanup"}

CleanInv == Clean => /\ target \in {None, Directory("commit", "commit")}
                     /\ \A l \in Launches : CleanLaunch(l)

\* So does the additional one.
LEMMA InitClean == Init => CleanInv
BY SeedsAssumption, NoneAssumption
   DEF Init, CleanInv, Clean, CleanLaunch, SeedDirectory, Directory, Given

\* A launch at work preserves what every other launch may rely on.
LEMMA CleanOthers ==
    ASSUME NEW l \in Launches, CleanLaunch(l), target # None => target' # None,
           pc'[l] = pc[l], out'[l] = out[l], work'[l] = work[l], having' = having
    PROVE  CleanLaunch(l)'
BY DEF CleanLaunch

\* A step of a launch keeps a clean cache clean.
LEMMA CleanLaunchStep ==
    ASSUME CacheInv, CleanInv, Clean, NEW m \in Launches, Start(m) \/ Acquire(m) \/ Create(m)
    PROVE  CleanInv'
<1> USE DEF Goto, Raise, Abandon, Fail, commitVars, cacheVars, spaceVars
<1>0. /\ TypeInv /\ LaunchInv(m) /\ CleanLaunch(m) /\ kind = "plain" /\ tampers = 0
      /\ target \in {None, Directory("commit", "commit")}
      /\ Directory("commit", "commit") # None
  BY NoneAssumption DEF CacheInv, CleanInv, Clean, Directory
<1> SUFFICES /\ target' \in {None, Directory("commit", "commit")} /\ CleanLaunch(m)'
             /\ target # None => target' # None
             /\ having' = having
             /\ \A l \in Launches \ {m} : pc'[l] = pc[l] /\ out'[l] = out[l] /\ work'[l] = work[l]
  BY CleanOthers DEF CleanInv
<1>1. CASE Start(m)
  BY <1>0, <1>1, NoneAssumption DEF Start, TypeInv, LaunchInv, CleanLaunch, Given
<1>2. CASE Lookup(m)
  BY <1>0, <1>2, NoneAssumption DEF Lookup, TypeInv, LaunchInv, CleanLaunch, Given, Directory
<1>3. CASE Quarantine(m)
  BY <1>0, <1>3, NoneAssumption DEF Quarantine, TypeInv, LaunchInv, CleanLaunch, Given
<1>4. CASE UseCached(m)
  BY <1>0, <1>4, NoneAssumption DEF UseCached, TypeInv, LaunchInv, CleanLaunch, Given, Sealed, Directory
<1>5. CASE Stage(m)
  BY <1>0, <1>5, NoneAssumption DEF Stage, TypeInv, LaunchInv, CleanLaunch, Given
<1>6. CASE Fetch(m)
  BY <1>0, <1>6, NoneAssumption DEF Fetch, TypeInv, LaunchInv, CleanLaunch, Given
<1>7. CASE Seal(m)
  BY <1>0, <1>7, NoneAssumption DEF Seal, TypeInv, LaunchInv, CleanLaunch, Given
<1>8. CASE Publish(m)
  BY <1>0, <1>8, NoneAssumption DEF Publish, TypeInv, LaunchInv, CleanLaunch, Given
<1>9. CASE Occupied(m)
  BY <1>0, <1>9, NoneAssumption DEF Occupied, TypeInv, LaunchInv, CleanLaunch, Given
<1>10. CASE UsePublished(m)
  BY <1>0, <1>10, NoneAssumption DEF UsePublished, TypeInv, LaunchInv, CleanLaunch, Given, Sealed, Directory
<1>11. CASE Cleanup(m)
  BY <1>0, <1>11, NoneAssumption DEF Cleanup, TypeInv, LaunchInv, CleanLaunch, Given
<1>12. CASE Verify(m)
  BY <1>0, <1>12, NoneAssumption DEF Verify, TypeInv, LaunchInv, CleanLaunch, Given, Unchanged, Sealed, Directory
<1>13. CASE CopyBegin(m)
  BY <1>0, <1>13, NoneAssumption DEF CopyBegin, TypeInv, LaunchInv, CleanLaunch, Given, Copied, Directory
<1>14. CASE CopyEnd(m)
  BY <1>0, <1>14, NoneAssumption DEF CopyEnd, Copies, TypeInv, LaunchInv, CleanLaunch, Given, Copied, Directory
<1>15. CASE Reverify(m)
  BY <1>0, <1>15, NoneAssumption DEF Reverify, TypeInv, LaunchInv, CleanLaunch, Given, Unchanged, Sealed, Directory
<1>16. CASE Insert(m)
  BY <1>0, <1>16, NoneAssumption DEF Insert, TypeInv, LaunchInv, CleanLaunch, Given
<1>17. CASE Undo(m)
  BY <1>0, <1>17, NoneAssumption DEF Undo, TypeInv, LaunchInv, CleanLaunch, Given
<1> QED BY <1>1, <1>2, <1>3, <1>4, <1>5, <1>6, <1>7, <1>8, <1>9, <1>10, <1>11, <1>12, <1>13, <1>14, <1>15, <1>16, <1>17 DEF Acquire, Create

\* Every step keeps CleanInv: a change from outside ends the clean state.
LEMMA CleanStep == CacheInv /\ CleanInv /\ [Next]_vars => CleanInv'
<1> SUFFICES ASSUME CacheInv, CleanInv, [Next]_vars, Clean' PROVE CleanInv'
  BY DEF CleanInv
<1> USE DEF commitVars, cacheVars, spaceVars
<1>0. tampers \in Nat
  BY DEF CacheInv, TypeInv
<1>1. CASE \E m \in Launches : Start(m) \/ Acquire(m) \/ Create(m)
  <2>1. Clean
    BY <1>1 DEF Clean, Acquire, Create, Start, Lookup, Quarantine, UseCached, Stage, Fetch,
       Seal, Publish, Occupied, UsePublished, Cleanup, Verify, CopyBegin, CopyEnd, Reverify,
       Insert, Undo
  <2>2. QED BY <1>1, <2>1, CleanLaunchStep
<1>2. CASE Tamper
  BY <1>0, <1>2 DEF Tamper, Clean
<1>3. CASE Crash
  BY <1>3 DEF Crash, CacheInv, TypeInv, CleanInv, Clean, CleanLaunch, Active, Given, Directory
<1>4. CASE UNCHANGED vars
  BY <1>4 DEF vars, CleanInv, Clean, CleanLaunch, Directory
<1> QED BY <1>1, <1>2, <1>3, <1>4 DEF Next

\* With nothing wrong with the commit or the cache, a launch fails only by an
\* error of git, of the disk or of the database, whoever wins the race to publish.
THEOREM FailuresHaveCauses == Spec => []FailureHasCause
<1>1. CacheInv /\ CleanInv => FailureHasCause
  <2> SUFFICES ASSUME CacheInv, CleanInv, Clean, NEW l \in having, pc[l] = "failed"
               PROVE  out[l] \in {"git", "disk", "database", "cleanup"}
    BY DEF FailureHasCause, Clean
  <2> QED BY DEF CleanInv, CleanLaunch, CacheInv, TypeInv
<1> QED BY <1>1, CacheInvariant, InitClean, CleanStep, PTL DEF Spec
=============================================================================
