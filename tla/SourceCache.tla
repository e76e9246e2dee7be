---------------------------- MODULE SourceCache -----------------------------
(***************************************************************************)
(* The cache of source trees (SourceCache in repository.py) and the making *)
(* of a workspace from a cached tree (WorkspaceManager.create and          *)
(* materialize_workspace in workspace.py), for one commit of one           *)
(* repository.                                                             *)
(*                                                                         *)
(* Every launch of the commit runs acquire and then create in a worker     *)
(* thread of its own; nothing but the file system orders them.  A tree is  *)
(* fetched into a staging directory, sealed with a manifest that holds its *)
(* digest, and renamed to the commit's path.  A step is one look at, one   *)
(* copy of or one rename of a directory, or one series of git commands.    *)
(* A digest is injective, so a tree's digest is the tree.                  *)
(***************************************************************************)
EXTENDS Naturals

CONSTANTS
    Launches,    \* launches of the commit
    None,        \* no directory, no manifest, no digest
    Seeds,       \* what the cache may hold before: "empty", "sealed", "legacy"
    MaxTampers,  \* bound: changes made to the cached tree from outside
    MaxCrashes   \* bound: deaths of the launcher

ASSUME SeedsAssumption  == Seeds \subseteq {"empty", "sealed", "legacy"}
ASSUME BoundsAssumption == MaxTampers \in Nat /\ MaxCrashes \in Nat
\* None is neither a tree nor a directory.
ASSUME NoneAssumption ==
    /\ None \notin {"commit", "other", "partial", "empty"}
    /\ \A t, m \in {"commit", "other", "partial", None} : None # [tree |-> t, manifest |-> m]

VARIABLES
    seed,        \* what the cache held before the first launch
    kind,        \* whether the commit has a file with the manifest's name
    having,      \* the launches whose notebook is in the commit
    target,      \* the directory at <root>/<repository_id>/<commit_sha>
    aside,       \* the directories moved to .quarantine-*
    staging,     \* each launch's .source-* directory
    snap,        \* tree_digest of the SourceSnapshot a launch was given
    work,        \* what the directory of the workspace a launch makes holds
    rows,        \* the launches whose workspace is in the workspaces table
    pc, out,     \* control state of a launch, and the error that ends it
    tampers, crashes

commitVars == <<seed, kind, having>>
cacheVars  == <<target, aside>>
spaceVars  == <<work, rows>>
vars == <<commitVars, cacheVars, staging, snap, spaceVars, pc, out, tampers, crashes>>

\* "commit" is the commit's own tree, "other" any tree but that, "partial" a
\* copy that saw two trees or that left a file out, or what is left of a tree
\* whose removal failed; "empty" is a workspace's directory before the copy.
Directory(tree, manifest) == [tree |-> tree, manifest |-> manifest]

\* Whether the commit has a file with the manifest's name, and where.
Kinds == {"plain", "atRoot", "nested"}

\* The control states of a launch at work; the others are idle, created, failed
\* and dead.
Active == {"lookup", "quarantine", "cached", "stage", "fetch", "seal", "publish",
           "occupied", "published", "cleanup", "verify", "copy", "copying",
           "reverify", "insert", "undo"}

SeedDirectory(s) ==
    CASE s = "empty"  -> None
      [] s = "sealed" -> Directory("commit", "commit")
      [] s = "legacy" -> Directory("other", None)

Init ==
    /\ seed \in Seeds /\ kind \in Kinds /\ having \in SUBSET Launches
    /\ seed = "sealed" => kind # "atRoot"
    /\ target = SeedDirectory(seed) /\ aside = {}
    /\ staging = [l \in Launches |-> None] /\ snap = [l \in Launches |-> None]
    /\ work = [l \in Launches |-> None] /\ rows = {}
    /\ pc = [l \in Launches |-> "idle"] /\ out = [l \in Launches |-> "none"]
    /\ tampers = 0 /\ crashes = 0

Goto(l, label) == pc' = [pc EXCEPT ![l] = label]

\* _validated_cached_digest: the manifest is there and agrees with the tree.
Sealed == target # None /\ target.manifest = target.tree

\* An exception in the body of acquire's try: the finally block follows.
Raise(l, error) == Goto(l, "cleanup") /\ out' = [out EXCEPT ![l] = error]

\* An exception in the body of create's try: its handler follows.
Abandon(l, error) == Goto(l, "undo") /\ out' = [out EXCEPT ![l] = error]

\* An exception that nothing is left to clean up after.
Fail(l, error) == Goto(l, "failed") /\ out' = [out EXCEPT ![l] = error]

-----------------------------------------------------------------------------
(* SourceCache.acquire *)

Start(l) ==
    /\ pc[l] = "idle"
    /\ Goto(l, "lookup")
    /\ UNCHANGED <<commitVars, cacheVars, staging, snap, spaceVars, out, tampers, crashes>>

\* target.exists(), and whether the manifest is a file.
Lookup(l) ==
    /\ pc[l] = "lookup"
    /\ Goto(l, IF target = None THEN "stage"
               ELSE IF target.manifest = None THEN "quarantine" ELSE "cached")
    /\ UNCHANGED <<commitVars, cacheVars, staging, snap, spaceVars, out, tampers, crashes>>

\* _quarantine_manifestless_snapshot: whatever stands at the path by now goes.
Quarantine(l) ==
    /\ pc[l] = "quarantine"
    /\ Goto(l, "stage")
    /\ target' = None
    /\ aside' = IF target = None THEN aside ELSE aside \cup {target}
    /\ UNCHANGED <<commitVars, staging, snap, spaceVars, out, tampers, crashes>>

\* A sealed tree that has the notebook is the answer; no staging is involved.
UseCached(l) ==
    /\ pc[l] = "cached"
    /\ IF Sealed /\ l \in having
       THEN Goto(l, "verify") /\ snap' = [snap EXCEPT ![l] = target.tree]
            /\ out' = [out EXCEPT ![l] = "ok"]
       ELSE Fail(l, IF Sealed THEN "notebook" ELSE "identity") /\ UNCHANGED snap
    /\ UNCHANGED <<commitVars, cacheVars, staging, spaceVars, tampers, crashes>>

\* mkdtemp beside the target, which the disk may refuse.
Stage(l) ==
    /\ pc[l] = "stage"
    /\ \/ /\ staging' = [staging EXCEPT ![l] = Directory("partial", None)]
          /\ Goto(l, "fetch") /\ UNCHANGED out
       \/ Fail(l, "disk") /\ UNCHANGED staging
    /\ UNCHANGED <<commitVars, cacheVars, snap, spaceVars, tampers, crashes>>

\* git init, remote, fetch, checkout and rev-parse; any of them may fail, and
\* what was checked out must be the commit.  The notebook must be in it.
Fetch(l) ==
    /\ pc[l] = "fetch"
    /\ \/ Raise(l, "git") /\ UNCHANGED staging
       \/ /\ staging' = [staging EXCEPT ![l] = Directory("commit", staging[l].manifest)]
          /\ IF l \in having THEN Goto(l, "seal") /\ UNCHANGED out ELSE Raise(l, "notebook")
    /\ UNCHANGED <<commitVars, cacheVars, snap, spaceVars, tampers, crashes>>

\* .git is removed, the digest computed and the manifest created exclusively: a
\* commit that has a file of that name at its root cannot be sealed.  Each of
\* the three may meet an error of the disk; a manifest half written is removed.
Seal(l) ==
    /\ pc[l] = "seal"
    /\ \/ Raise(l, "disk") /\ UNCHANGED staging
       \/ kind = "atRoot" /\ Raise(l, "identity") /\ UNCHANGED staging
       \/ /\ kind # "atRoot"
          /\ staging' = [staging EXCEPT ![l] = Directory(staging[l].tree, staging[l].tree)]
          /\ Goto(l, "publish") /\ UNCHANGED out
    /\ UNCHANGED <<commitVars, cacheVars, snap, spaceVars, tampers, crashes>>

\* Mutant: a target that somebody else published is an error.
PublishIntolerant(l) ==
    /\ pc[l] = "publish"
    /\ IF target = None
       THEN /\ target' = staging[l] /\ staging' = [staging EXCEPT ![l] = None]
            /\ Goto(l, "published") /\ UNCHANGED out
       ELSE Raise(l, "setup") /\ UNCHANGED <<target, staging>>
    /\ UNCHANGED <<commitVars, aside, snap, spaceVars, tampers, crashes>>

\* staging.replace(target): a rename onto a directory that is not empty fails.
Publish(l) ==
    /\ pc[l] = "publish"
    /\ IF target = None
       THEN /\ target' = staging[l] /\ staging' = [staging EXCEPT ![l] = None]
            /\ Goto(l, "published")
       ELSE Goto(l, "occupied") /\ UNCHANGED <<target, staging>>
    /\ UNCHANGED <<commitVars, aside, snap, spaceVars, out, tampers, crashes>>

\* The error is ignored if a directory is there when one looks again.
Occupied(l) ==
    /\ pc[l] = "occupied"
    /\ IF target = None THEN Raise(l, "setup") ELSE Goto(l, "published") /\ UNCHANGED out
    /\ UNCHANGED <<commitVars, cacheVars, staging, snap, spaceVars, tampers, crashes>>

\* What stands at the target, whoever published it, is validated: first the
\* notebook, then the digest.
UsePublished(l) ==
    /\ pc[l] = "published"
    /\ IF target = None \/ l \notin having THEN Raise(l, "setup") /\ UNCHANGED snap
       ELSE IF ~Sealed THEN Raise(l, "identity") /\ UNCHANGED snap
       ELSE Raise(l, "ok") /\ snap' = [snap EXCEPT ![l] = target.tree]
    /\ UNCHANGED <<commitVars, cacheVars, staging, spaceVars, tampers, crashes>>

\* Mutant: the staging directory is removed only when acquire succeeds.
CleanupOnSuccess(l) ==
    /\ pc[l] = "cleanup"
    /\ staging' = IF out[l] = "ok" THEN [staging EXCEPT ![l] = None] ELSE staging
    /\ Goto(l, IF out[l] = "ok" THEN "verify" ELSE "failed")
    /\ UNCHANGED <<commitVars, cacheVars, snap, spaceVars, out, tampers, crashes>>

\* The finally block: the staging directory, if it is still there, is removed.
\* A removal that fails (_remove_tree retries once) leaves some of it, and its
\* error replaces acquire's answer, a snapshot or another error.
Cleanup(l) ==
    /\ pc[l] = "cleanup"
    /\ \/ /\ staging' = [staging EXCEPT ![l] = None]
          /\ Goto(l, IF out[l] = "ok" THEN "verify" ELSE "failed") /\ UNCHANGED out
       \/ /\ staging[l] # None
          /\ staging' = [staging EXCEPT ![l] = Directory("partial", None)]
          /\ Fail(l, "cleanup")
    /\ UNCHANGED <<commitVars, cacheVars, snap, spaceVars, tampers, crashes>>

-----------------------------------------------------------------------------
(* WorkspaceManager.create *)

\* verify_unchanged: with a manifest the tree must agree with it, and either
\* way the tree must be the one the snapshot names.
Unchanged(l) ==
    /\ target # None
    /\ target.manifest # None => Sealed
    /\ target.tree = snap[l]

\* The workspace's directory is made, and the cache compared with the snapshot.
Verify(l) ==
    /\ pc[l] = "verify"
    /\ \/ Fail(l, "disk") /\ UNCHANGED work
       \/ /\ work' = [work EXCEPT ![l] = "empty"]
          /\ IF Unchanged(l) THEN Goto(l, "copy") /\ UNCHANGED out ELSE Abandon(l, "identity")
    /\ UNCHANGED <<commitVars, cacheVars, staging, snap, rows, tampers, crashes>>

\* copytree leaves files with the manifest's name out, at any depth.
Copied(tree) == IF kind = "nested" THEN "partial" ELSE tree

\* materialize_workspace begins; without a source tree it fails.
CopyBegin(l) ==
    /\ pc[l] = "copy"
    /\ IF target = None THEN Abandon(l, "setup") /\ UNCHANGED work
       ELSE /\ work' = [work EXCEPT ![l] = Copied(target.tree)]
            /\ Goto(l, "copying") /\ UNCHANGED out
    /\ UNCHANGED <<commitVars, cacheVars, staging, snap, rows, tampers, crashes>>

\* What copytree has made in the end: a mixture if the tree was replaced, or if
\* somebody changed it and perhaps changed it back, while it was read.
Copies(l) ==
    {work[l]} \cup (IF tampers = 0 /\ target # None /\ Copied(target.tree) = work[l]
                    THEN {} ELSE {"partial"})

\* Mutant: the copy is not compared with the snapshot.
CopyEndUncompared(l) ==
    /\ pc[l] = "copying"
    /\ \E copy \in Copies(l) : work' = [work EXCEPT ![l] = copy]
    /\ Goto(l, "reverify")
    /\ UNCHANGED <<commitVars, cacheVars, staging, snap, rows, out, tampers, crashes>>

\* The copy is complete and its digest must be the snapshot's, or the disk failed
\* (under copytree or under the making of the outputs directory).
CopyEnd(l) ==
    /\ pc[l] = "copying"
    /\ \/ Abandon(l, "disk") /\ work' = [work EXCEPT ![l] = "partial"]
       \/ \E copy \in Copies(l) :
             /\ work' = [work EXCEPT ![l] = copy]
             /\ IF copy = snap[l] THEN Goto(l, "reverify") /\ UNCHANGED out
                ELSE Abandon(l, "identity")
    /\ UNCHANGED <<commitVars, cacheVars, staging, snap, rows, tampers, crashes>>

Reverify(l) ==
    /\ pc[l] = "reverify"
    /\ IF Unchanged(l) THEN Goto(l, "insert") /\ UNCHANGED out ELSE Abandon(l, "identity")
    /\ UNCHANGED <<commitVars, cacheVars, staging, snap, spaceVars, tampers, crashes>>

\* StateStore.create_workspace; a database error undoes the directory.
Insert(l) ==
    /\ pc[l] = "insert"
    /\ \/ Goto(l, "created") /\ rows' = rows \cup {l} /\ UNCHANGED out
       \/ Abandon(l, "database") /\ UNCHANGED rows
    /\ UNCHANGED <<commitVars, cacheVars, staging, snap, work, tampers, crashes>>

\* The exception handler of create.  If _remove_workspace_tree fails as well,
\* some of the tree stays and an ExceptionGroup carries both errors.
Undo(l) ==
    /\ pc[l] = "undo"
    /\ \/ Goto(l, "failed") /\ work' = [work EXCEPT ![l] = None] /\ UNCHANGED out
       \/ Fail(l, "cleanup") /\ work' = [work EXCEPT ![l] = "partial"]
    /\ UNCHANGED <<commitVars, cacheVars, staging, snap, rows, tampers, crashes>>

-----------------------------------------------------------------------------
(* The world *)

\* Something changes a file of the cached tree or changes it back, or removes
\* the manifest.
Tamper ==
    /\ target # None /\ tampers < MaxTampers
    /\ tampers' = tampers + 1
    /\ \/ \E tree \in {"commit", "other"} \ {target.tree} : target' = Directory(tree, target.manifest)
       \/ target.manifest # None /\ target' = Directory(target.tree, None)
    /\ UNCHANGED <<commitVars, aside, staging, snap, spaceVars, pc, out, crashes>>

\* The launcher dies with all its workers; what they left stays.
Crash ==
    /\ crashes < MaxCrashes /\ \E l \in Launches : pc[l] \in Active
    /\ crashes' = crashes + 1
    /\ pc' = [l \in Launches |-> IF pc[l] \in Active THEN "dead" ELSE pc[l]]
    /\ UNCHANGED <<commitVars, cacheVars, staging, snap, spaceVars, out, tampers>>

Acquire(l) ==
    \/ Lookup(l) \/ Quarantine(l) \/ UseCached(l) \/ Stage(l) \/ Fetch(l) \/ Seal(l)
    \/ Publish(l) \/ Occupied(l) \/ UsePublished(l) \/ Cleanup(l)
Create(l) ==
    Verify(l) \/ CopyBegin(l) \/ CopyEnd(l) \/ Reverify(l) \/ Insert(l) \/ Undo(l)

Next == (\E l \in Launches : Start(l) \/ Acquire(l) \/ Create(l)) \/ Tamper \/ Crash

Spec == Init /\ [][Next]_vars

-----------------------------------------------------------------------------
(* Properties *)

\* Whatever happens to the cache while it is read, verified and copied
\* (another launch publishing, a quarantine, changes made and undone), a
\* workspace that is recorded was made from the commit's own tree.
WorkspaceIsCommit == \A l \in rows : work[l] = "commit"

\* Launches of the same commit never make each other fail: with nothing wrong
\* with the commit or the cache, a launch that gets no workspace from acquire
\* and create met an error of git, of the disk or of the database, whoever wins
\* the race to publish.
FailureHasCause ==
    seed # "legacy" /\ kind = "plain" /\ tampers = 0 =>
        \A l \in having : pc[l] = "failed" => out[l] \in {"git", "disk", "database", "cleanup"}

\* A launch that has ended leaves nothing behind but its workspace: neither a
\* staging directory nor a workspace's directory without a row.  What a failed
\* removal leaves is never left silently: the launch then fails with the
\* removal's error, also if acquire had its snapshot.  The death of the process
\* is the one exception.
NothingLeftBehind ==
    \A l \in Launches :
        /\ pc[l] \in {"idle", "created"} => staging[l] = None
        /\ pc[l] = "failed" /\ out[l] # "cleanup" => staging[l] = None /\ work[l] = None
        /\ pc[l] = "created" <=> l \in rows
=============================================================================
