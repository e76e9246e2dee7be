------------------------- MODULE WorkspaceDocuments -------------------------
(***************************************************************************)
(* The files of one workspace and the rows that version them: write_file,  *)
(* save_copy and rename_active_notebook of WorkspaceManager (workspace.py) *)
(* over the guarded transactions of StateStore (state.py).                 *)
(*                                                                         *)
(* A guarded transaction changes a file and the database together.  BEGIN  *)
(* IMMEDIATE admits one at a time, whatever process it runs in; the file   *)
(* changes while the transaction is open, the rows when it commits, and an *)
(* exception runs a compensation on the file before the rollback.  The     *)
(* work directory is mounted in the container as well: Jupyter saves into  *)
(* it at any moment, without a transaction and without a row.              *)
(*                                                                         *)
(* Paths stand for normalised paths (document_path_key).  The user_data    *)
(* branch of save_copy leaves the workspace alone (see UserDataGrants);    *)
(* allow_active_notebook, which no caller sets, is left out.               *)
(***************************************************************************)
EXTENDS Naturals

CONSTANTS
    Callers,      \* threads and processes that use the workspace manager
    Paths,        \* normalised relative paths
    First,        \* source_notebook_path: the notebook the workspace opens on
    None,         \* no file, no row, no version, no caller
    FaultSites,   \* where an OS or database error may strike
    MaxOps,       \* bound: operations, each with a version of its own
    MaxFaults,    \* bound: errors, crashes included
    MaxSaves      \* bound: saves by the runtime

ASSUME NamesAssumption == First \in Paths /\ None \notin Callers \cup Paths
ASSUME FaultsAssumption ==
    FaultSites \subseteq {"replace", "replace_sync", "move", "move_sync",
                          "commit", "undo", "crash"}
ASSUME BoundsAssumption == MaxOps \in Nat /\ MaxFaults \in Nat /\ MaxSaves \in Nat

VARIABLES
    files,        \* the work directory: the content at each path
    rows,         \* document_versions: version and content_hash of a path
    active,       \* workspaces.active_notebook_path
    holder,       \* whose transaction is open
    job,          \* the call each caller is in, with its local variables
    issued,       \* versions handed out by new_version
    faults, saves,
    broken,       \* history: a crash or a failed compensation left files behind
    replaced      \* history: how many commits replaced a version

db   == <<rows, active, replaced>>
vars == <<files, db, holder, job, issued, faults, saves, broken>>

\* A content is known by who wrote it (the source tree, a version, the runtime)
\* and by whether it still has outputs; 0 is kept for a file that is absent.
Contents == [id: 0..(MaxOps + MaxSaves + 1), outputs: BOOLEAN]
Versions == 1..MaxOps

\* Absent files and absent rows are values of the same shape as present ones.
NoFile == [id |-> 0, outputs |-> FALSE]
NoRow  == [version |-> 0, hash |-> NoFile]
RuntimeContents == [id: (MaxOps + 1)..(MaxOps + MaxSaves), outputs: BOOLEAN]
Source == [id |-> MaxOps + MaxSaves + 1, outputs |-> TRUE]

Idle == [op |-> "none", pc |-> "idle", path |-> First, from |-> First,
         data |-> NoFile, version |-> 0, expected |-> 0, overwrite |-> FALSE,
         outputs |-> TRUE, previous |-> NoFile, done |-> FALSE]

\* What WorkspaceManager.create leaves: the source tree, no versioned document.
Init ==
    /\ files = [p \in Paths |-> IF p = First THEN Source ELSE NoFile]
    /\ rows = [p \in Paths |-> NoRow]
    /\ active = First
    /\ holder = None /\ job = [c \in Callers |-> Idle] /\ issued = 0
    /\ faults = 0 /\ saves = 0 /\ broken = FALSE
    /\ replaced = [v \in Versions |-> 0]

Update(c, fields) == job' = [job EXCEPT ![c] = fields]
At(c, pc)         == job[c].pc = pc
Goto(c, pc)       == Update(c, [job[c] EXCEPT !.pc = pc])
Return(c)         == Update(c, Idle)

\* An error at a site the configuration lets fail.
Fails(site) ==
    /\ site \in FaultSites /\ faults < MaxFaults
    /\ faults' = faults + 1

-----------------------------------------------------------------------------
(* The part of each operation that runs before its transaction.            *)

\* write_file: the caller brings the version it has seen; the active path is
\* checked on a record read outside the transaction.
StartWrite(c, p, expected, overwrite) ==
    /\ At(c, "idle") /\ issued < MaxOps
    /\ p # active
    /\ issued' = issued + 1
    /\ Update(c, [Idle EXCEPT !.op = "write", !.pc = "guard", !.path = p,
                  !.data = [id |-> issued + 1, outputs |-> FALSE],
                  !.version = issued + 1, !.expected = expected,
                  !.overwrite = overwrite])
    /\ UNCHANGED <<files, db, holder, faults, saves, broken>>

\* save_copy within the workspace: source and destination are distinct.
StartCopy(c, from, p, outputs, overwrite) ==
    /\ At(c, "idle") /\ issued < MaxOps
    /\ from # p /\ p # active
    /\ issued' = issued + 1
    /\ Update(c, [Idle EXCEPT !.op = "copy", !.pc = "read", !.path = p,
                  !.from = from, !.version = issued + 1,
                  !.overwrite = overwrite, !.outputs = outputs])
    /\ UNCHANGED <<files, db, holder, faults, saves, broken>>

\* read_bytes_under_root, then _without_notebook_outputs unless include_outputs.
CopyRead(c) ==
    /\ At(c, "read")
    /\ IF files[job[c].from] = NoFile
       THEN Return(c)
       ELSE Update(c, [job[c] EXCEPT !.pc = "version",
                !.data = [files[job[c].from] EXCEPT
                             !.outputs = @ /\ job[c].outputs]])
    /\ UNCHANGED <<files, db, holder, issued, faults, saves, broken>>

\* get_document_version: what save_copy will expect to replace.
CopyVersion(c) ==
    /\ At(c, "version")
    /\ LET existing == rows[job[c].path]
       IN  IF existing # NoRow /\ ~job[c].overwrite
           THEN Return(c)
           ELSE Update(c, [job[c] EXCEPT !.pc = "guard",
                                         !.expected = existing.version])
    /\ UNCHANGED <<files, db, holder, issued, faults, saves, broken>>

\* rename_active_notebook: the path to rename is read outside the transaction.
StartRename(c, p) ==
    /\ At(c, "idle") /\ issued < MaxOps
    /\ issued' = issued + 1
    /\ Update(c, [Idle EXCEPT !.op = "rename", !.pc = "guard", !.path = p,
                              !.from = active])
    /\ UNCHANGED <<files, db, holder, faults, saves, broken>>

-----------------------------------------------------------------------------
(* The guarded transactions.                                               *)

\* Mutants of document_write_guard's checks: the version not compared again, and
\* the active path trusted as it was before the transaction.
WriteAdmittedUnversioned(j) == j.path # active
WriteAdmittedAnyPath(j)     == rows[j.path].version = j.expected

\* document_write_guard: the path is still not the active notebook, and its
\* row is still the one the caller expects.
WriteAdmitted(j) ==
    /\ j.path # active
    /\ rows[j.path].version = j.expected

\* active_notebook_rename_guard.
RenameAdmitted(j) ==
    /\ active = j.from
    /\ active # j.path
    /\ rows[j.path] = NoRow

Admitted(j) == IF j.op = "rename" THEN RenameAdmitted(j) ELSE WriteAdmitted(j)

\* Mutant of StateStore.transaction: a conflict leaves the transaction open.
GuardLeaksTransaction(c) ==
    /\ At(c, "guard") /\ holder = None
    /\ holder' = c
    /\ IF Admitted(job[c])
       THEN Goto(c, IF job[c].op = "rename" THEN "move" ELSE "previous")
       ELSE Return(c)
    /\ UNCHANGED <<files, db, issued, faults, saves, broken>>

\* BEGIN IMMEDIATE, then the checks: a conflict rolls back, nothing to undo.
Guard(c) ==
    /\ At(c, "guard") /\ holder = None
    /\ IF Admitted(job[c])
       THEN /\ holder' = c
            /\ Goto(c, IF job[c].op = "rename" THEN "move" ELSE "previous")
       ELSE Return(c) /\ UNCHANGED holder
    /\ UNCHANGED <<files, db, issued, faults, saves, broken>>

\* BEGIN IMMEDIATE gives up when another transaction keeps the database busy.
GuardBusy(c) ==
    /\ At(c, "guard") /\ holder # None
    /\ Return(c)
    /\ UNCHANGED <<files, db, holder, issued, faults, saves, broken>>

\* Mutant: write_attempted set only once the write has returned.
ReadPreviousUnattempted(c) ==
    /\ At(c, "previous")
    /\ Update(c, [job[c] EXCEPT !.pc = "replace", !.previous = files[job[c].path]])
    /\ UNCHANGED <<files, db, holder, issued, faults, saves, broken>>

\* The bytes a compensation restores; write_attempted is set right after.
ReadPrevious(c) ==
    /\ At(c, "previous")
    /\ Update(c, [job[c] EXCEPT !.pc = "replace", !.done = TRUE,
                                !.previous = files[job[c].path]])
    /\ UNCHANGED <<files, db, holder, issued, faults, saves, broken>>

\* atomic_write_under_root: a temporary file replaces the destination, or is
\* linked to it when it must not exist; an error strikes before (no space) or
\* after (the directory's fsync) the file changed.
Replace(c) ==
    LET j == job[c]
        Put == files' = [files EXCEPT ![j.path] = j.data]
        Free == j.overwrite \/ files[j.path] = NoFile
    IN  /\ At(c, "replace")
        /\ \/ Free /\ Put /\ Goto(c, "commit") /\ UNCHANGED faults
           \/ ~Free /\ Goto(c, "undo") /\ UNCHANGED <<files, faults>>
           \/ Fails("replace") /\ Goto(c, "undo") /\ UNCHANGED files
           \/ Free /\ Put /\ Fails("replace_sync") /\ Goto(c, "undo")
        /\ UNCHANGED <<db, holder, issued, saves, broken>>

\* A path takes the content of another.
Moved(from, to) == [files EXCEPT ![to] = files[from], ![from] = NoFile]

\* rename_under_root, which replaces nothing; "moved" is set once it returned.
Move(c) ==
    LET j == job[c]
        Free == files[j.from] # NoFile /\ files[j.path] = NoFile
        Put == files' = Moved(j.from, j.path)
    IN  /\ At(c, "move")
        /\ \/ /\ Free /\ Put /\ UNCHANGED faults
              /\ Update(c, [j EXCEPT !.pc = "commit", !.done = TRUE])
           \/ ~Free /\ Goto(c, "undo") /\ UNCHANGED <<files, faults>>
           \/ Fails("move") /\ Goto(c, "undo") /\ UNCHANGED files
           \/ Free /\ Put /\ Fails("move_sync") /\ Goto(c, "undo")
        /\ UNCHANGED <<db, holder, issued, saves, broken>>

\* The rows a write commits: inserted or updated, the version it expected gone.
CommitWrite(j) ==
    /\ rows' = [rows EXCEPT ![j.path] = [version |-> j.version, hash |-> j.data]]
    /\ replaced' = [v \in Versions |->
                       replaced[v] + IF v = j.expected THEN 1 ELSE 0]
    /\ UNCHANGED active

\* The rows a rename commits: the active path, and its document's row if any.
CommitRename(j) ==
    /\ active' = j.path
    /\ rows' = [rows EXCEPT ![j.path] = rows[j.from], ![j.from] = NoRow]
    /\ UNCHANGED replaced

Commit(c) ==
    LET j == job[c]
    IN  /\ At(c, "commit")
        /\ \/ /\ IF j.op = "rename" THEN CommitRename(j) ELSE CommitWrite(j)
              /\ holder' = None /\ Return(c) /\ UNCHANGED faults
           \/ /\ Fails("commit") /\ Goto(c, "undo")
              /\ UNCHANGED <<db, holder>>
        /\ UNCHANGED <<files, issued, saves, broken>>

\* compensate_write: put the previous content back wherever it differs.
UndoWrite(j) ==
    /\ files' = IF j.done THEN [files EXCEPT ![j.path] = j.previous] ELSE files
    /\ UNCHANGED broken

\* compensate_rename: move the file back, unless something took its place.
UndoRename(j) ==
    IF j.done /\ files[j.path] # NoFile /\ files[j.from] = NoFile
    THEN /\ files' = Moved(j.path, j.from)
         /\ UNCHANGED broken
    ELSE broken' = (broken \/ j.done) /\ UNCHANGED files

\* _compensate_before_rollback, then the rollback, which frees the database.
Undo(c) ==
    LET j == job[c]
    IN  /\ At(c, "undo")
        /\ \/ /\ IF j.op = "rename" THEN UndoRename(j) ELSE UndoWrite(j)
              /\ UNCHANGED faults
           \/ Fails("undo") /\ broken' = TRUE /\ UNCHANGED files
        /\ holder' = None /\ Return(c)
        /\ UNCHANGED <<db, issued, saves>>

-----------------------------------------------------------------------------
(* The environment.                                                        *)

\* The caller's process dies: sqlite rolls back, the file stays as it is.
Crash(c) ==
    /\ ~At(c, "idle") /\ Fails("crash")
    /\ Return(c)
    /\ holder' = IF holder = c THEN None ELSE holder
    /\ broken' = (broken \/ job[c].pc \in {"commit", "undo"})
    /\ UNCHANGED <<files, db, issued, saves>>

\* Jupyter saves a notebook or a cell's code writes a file.
RuntimeSave(p) ==
    /\ saves < MaxSaves
    /\ saves' = saves + 1
    /\ files' = [files EXCEPT ![p] = [id |-> MaxOps + saves + 1, outputs |-> TRUE]]
    /\ UNCHANGED <<db, holder, job, issued, faults, broken>>

Next ==
    \/ \E c \in Callers :
        \/ \E p \in Paths, v \in 0..issued, ow \in BOOLEAN : StartWrite(c, p, v, ow)
        \/ \E from, p \in Paths, out, ow \in BOOLEAN : StartCopy(c, from, p, out, ow)
        \/ \E p \in Paths : StartRename(c, p)
        \/ CopyRead(c) \/ CopyVersion(c) \/ Guard(c) \/ GuardBusy(c)
        \/ ReadPrevious(c) \/ Replace(c) \/ Move(c) \/ Commit(c) \/ Undo(c)
        \/ Crash(c)
    \/ \E p \in Paths : RuntimeSave(p)

Spec == Init /\ [][Next]_vars

-----------------------------------------------------------------------------
(* Properties.                                                             *)

Jobs ==
    [op: {"none", "write", "copy", "rename"},
     pc: {"idle", "read", "version", "guard", "previous", "replace", "move",
          "commit", "undo"},
     path: Paths, from: Paths, data: Contents, version: 0..MaxOps,
     expected: 0..MaxOps, overwrite: BOOLEAN, outputs: BOOLEAN,
     previous: Contents, done: BOOLEAN]

\* The shape of the state; a transaction is open exactly when its caller is
\* between the guard and the commit or the rollback (StateStore.transaction).
TypeOK ==
    /\ files \in [Paths -> Contents]
    /\ rows \in [Paths -> [version: 0..MaxOps, hash: Contents]]
    /\ active \in Paths
    /\ holder \in Callers \cup {None}
    /\ job \in [Callers -> Jobs]
    /\ issued \in 0..MaxOps /\ faults \in 0..MaxFaults /\ saves \in 0..MaxSaves
    /\ broken \in BOOLEAN
    /\ replaced \in [Versions -> Nat]
    /\ \A c \in Callers :
        holder = c <=> job[c].pc \in {"previous", "replace", "move", "commit", "undo"}

\* The paths an open transaction may have changed and not yet recorded.
InFlight == IF holder = None THEN {} ELSE {job[holder].path, job[holder].from}

\* The row of a document describes the file: unless the runtime saved over it,
\* content_hash is the hash of what is there, after every success, conflict,
\* error and compensation of _write_workspace_document and of a rename.
RowsDescribeFiles ==
    ~broken => \A p \in Paths \ InFlight :
        rows[p] # NoRow => files[p] = rows[p].hash \/ files[p] \in RuntimeContents

\* No lost update: a version is replaced by at most one committed write, so two
\* callers that saw the same version never both succeed (document_write_guard).
OneSuccessor == \A v \in Versions : replaced[v] <= 1

\* Generic writes and copies never change the active notebook, even when a
\* rename made their destination the active one after they had checked it.
GenericWritesSpareActive ==
    [][\A c \in Callers :
          (At(c, "replace") /\ job'[c].pc # "replace")
              => files'[active] = files[active]]_vars
=============================================================================
