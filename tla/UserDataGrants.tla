-------------------------- MODULE UserDataGrants --------------------------
(***************************************************************************)
(* The local data directory a user may grant to a workspace (grants.py),   *)
(* and Save a Copy into it: the user_data branch of save_copy              *)
(* (workspace.py) over the dirfd walk and the atomic write of safe_paths.  *)
(*                                                                         *)
(* A step is one transaction or one system call that decides something.    *)
(* Between any two of them the user, or any other program, may replace the *)
(* directory behind the granted path, or a component below it, by a link   *)
(* or another directory, create or delete files, revoke or grant again.    *)
(***************************************************************************)
EXTENDS Naturals

CONSTANTS
    Copiers,    \* threads and processes in save_copy
    Granted,    \* the directory at the path the user grants
    Other,      \* another directory that may be moved to that path
    Home,       \* a directory outside, where links lead; it is never granted
    MaxMoves,   \* bound: changes of the file system by others
    MaxGrants,  \* bound: grants
    MaxFaults   \* bound: errors of system calls, and crashes

ASSUME BoundsAssumption == MaxMoves \in Nat /\ MaxGrants \in Nat /\ MaxFaults \in Nat
\* What a file holds when it is nobody's copy.
ASSUME CopiersAssumption == Copiers \cap {"none", "user", "link"} = {}

VARIABLES
    place,   \* what the granted path names
    sub,     \* what the destination's directory component names, per directory
    file,    \* what the destination's final name holds, per directory
    temp,    \* the directory of each copier's temporary file
    grant,   \* the unrevoked row of user_data_grants
    cli,     \* the `workspace mount` command
    loc,     \* the save_copy call of each copier, with its local variables
    moves, granted, faults

vars == <<place, sub, file, temp, grant, cli, loc, moves, granted, faults>>

Tops == {Granted, Other, Home}
Top(t) == <<t, "top">>     \* a directory, the component in it that was there
Sub(t) == <<t, "sub">>     \* before, and one that mkdir makes
New(t) == <<t, "new">>
Beneath(t) == {Top(t), Sub(t), New(t)}
Dirs == UNION {Beneath(t) : t \in Tops}
NoDir == <<Home, "none">>

Entry(kind, dir) == [kind |-> kind, dir |-> dir]
Absent == Entry("none", NoDir)
Entries(dirs) == {Absent} \cup {Entry("dir", d) : d \in dirs} \cup {Entry("link", Top(Home))}

\* A row keeps the identity (device, inode) that stat saw; a link has its own.
NoGrant == [top |-> Home, mode |-> "ro", live |-> FALSE]

Idle == [pc |-> "idle", grant |-> NoGrant, deep |-> FALSE, overwrite |-> FALSE,
         fd |-> NoDir, whole |-> FALSE, stuck |-> FALSE]

Init ==
    /\ place = Entry("dir", Top(Granted))
    /\ sub \in [Tops -> {Absent}] \cup {[t \in Tops |-> Entry("dir", Sub(t))]}
    /\ file = [d \in Dirs |-> "none"]
    /\ temp = [c \in Copiers |-> NoDir]
    /\ grant = NoGrant /\ cli = "idle"
    /\ loc = [c \in Copiers |-> Idle]
    /\ moves = 0 /\ granted = 0 /\ faults = 0

At(c, pc)  == loc[c].pc = pc
Set(c, l)  == loc' = [loc EXCEPT ![c] = l]
Goto(c, pc) == Set(c, [loc[c] EXCEPT !.pc = pc])
Faulted    == faults < MaxFaults /\ faults' = faults + 1
Quiet      == UNCHANGED faults

disk   == <<place, sub, moves>>
rows   == <<grant, cli, granted>>

-----------------------------------------------------------------------------
(* UserDataGrantStore *)

\* grant: canonical_grant_root follows links and refuses the home directory.
GrantResolve ==
    /\ cli = "idle" /\ granted < MaxGrants
    /\ place.kind = "dir"
    /\ cli' = "stat" /\ granted' = granted + 1
    /\ UNCHANGED <<disk, file, temp, grant, loc, faults>>

\* grant: the identity of what is at the canonical path by now, then the row,
\* which the unique index refuses while another grant is active.
GrantInsert(mode) ==
    /\ cli = "stat" /\ cli' = "idle"
    /\ grant' = IF place.kind = "none" \/ grant.live THEN grant
                ELSE [top |-> IF place.kind = "link" THEN "link" ELSE place.dir[1],
                      mode |-> mode, live |-> TRUE]
    /\ UNCHANGED <<disk, file, temp, loc, granted, faults>>

Revoke ==
    /\ grant.live /\ grant' = NoGrant
    /\ UNCHANGED <<disk, file, temp, cli, granted, loc, faults>>

\* The path leads where it led, to a directory of the recorded identity.
SameRoot(g) == place.kind = "dir" /\ place.dir[1] = g.top

-----------------------------------------------------------------------------
(* save_copy *)

\* active: the row is read once and never looked at again.
Begin(c, deep, overwrite) ==
    /\ At(c, "idle")
    /\ Set(c, [Idle EXCEPT !.pc = IF grant.live THEN "revalidate" ELSE "error",
                           !.grant = grant, !.deep = deep, !.overwrite = overwrite])
    /\ UNCHANGED <<disk, file, temp, rows, faults>>

\* revalidate, then the mode.
Revalidate(c) ==
    /\ At(c, "revalidate")
    /\ Goto(c, IF SameRoot(loc[c].grant) /\ loc[c].grant.mode = "rw" THEN "root" ELSE "error")
    /\ UNCHANGED <<disk, file, temp, rows, faults>>

\* Mutant: the identity is checked on the path only, before it is opened.
OpenRootUnchecked(c) ==
    /\ At(c, "open")
    /\ Set(c, IF place.kind = "dir"
              THEN [loc[c] EXCEPT !.pc = IF loc[c].deep THEN "sub" ELSE "temp", !.fd = place.dir]
              ELSE [loc[c] EXCEPT !.pc = "error"])
    /\ UNCHANGED <<disk, file, temp, rows, faults>>

\* _validated_root
ValidateRoot(c) ==
    /\ At(c, "root")
    /\ Goto(c, IF SameRoot(loc[c].grant) THEN "open" ELSE "error")
    /\ UNCHANGED <<disk, file, temp, rows, faults>>

\* _open_parent_fd: the root is opened without following a link, and it is the
\* descriptor whose identity is compared.
OpenRoot(c) ==
    /\ At(c, "open")
    /\ Set(c, IF SameRoot(loc[c].grant)
              THEN [loc[c] EXCEPT !.pc = IF loc[c].deep THEN "sub" ELSE "temp", !.fd = place.dir]
              ELSE [loc[c] EXCEPT !.pc = "error"])
    /\ UNCHANGED <<disk, file, temp, rows, faults>>

\* _open_parent_fd: a component, relative to the descriptor and without following
\* a link; a missing one is made once.
OpenSub(c) ==
    LET e == sub[loc[c].fd[1]] IN
    /\ At(c, "sub") \/ At(c, "again")
    /\ Set(c, IF e.kind = "dir" THEN [loc[c] EXCEPT !.pc = "temp", !.fd = e.dir]
              ELSE [loc[c] EXCEPT !.pc = IF e.kind = "none" /\ At(c, "sub")
                                         THEN "mkdir" ELSE "error"])
    /\ UNCHANGED <<disk, file, temp, rows, faults>>

\* mkdir fails when somebody else made the component first.
MakeSub(c) ==
    LET t == loc[c].fd[1] IN
    /\ At(c, "mkdir")
    /\ IF sub[t] = Absent THEN sub' = [sub EXCEPT ![t] = Entry("dir", New(t))] /\ Goto(c, "again")
       ELSE UNCHANGED sub /\ Goto(c, "error")
    /\ UNCHANGED <<place, moves, file, temp, rows, faults>>

\* _atomic_write_at: a temporary file of a fresh name, O_EXCL.
OpenTemp(c) ==
    /\ At(c, "temp")
    /\ \/ temp' = [temp EXCEPT ![c] = loc[c].fd] /\ Goto(c, "write") /\ Quiet
       \/ Faulted /\ Goto(c, "cleanup") /\ UNCHANGED temp
    /\ UNCHANGED <<disk, file, rows>>

\* _write_descriptor: data and fsync, or an error (a full disk, too).
WriteTemp(c) ==
    /\ At(c, "write")
    /\ \/ Set(c, [loc[c] EXCEPT !.pc = "publish", !.whole = TRUE]) /\ Quiet
       \/ Faulted /\ Goto(c, "cleanup")
    /\ UNCHANGED <<disk, file, temp, rows>>

\* Mutant: without overwrite, the name is checked and then replaced.
PublishChecked(c) ==
    LET d == loc[c].fd IN
    /\ \/ /\ At(c, "publish") /\ Quiet /\ UNCHANGED <<file, temp>>
          /\ Goto(c, IF loc[c].overwrite \/ file[d] = "none" THEN "replace" ELSE "cleanup")
       \/ /\ At(c, "replace") /\ Quiet
          /\ file' = [file EXCEPT ![d] = c]
          /\ temp' = [temp EXCEPT ![c] = NoDir]
          /\ Goto(c, "sync")
    /\ UNCHANGED <<disk, rows>>

\* os.replace, or os.link, which refuses a name that is taken.
Publish(c) ==
    LET d == loc[c].fd IN
    /\ At(c, "publish")
    /\ \/ /\ loc[c].overwrite /\ Quiet
          /\ file' = [file EXCEPT ![d] = c]
          /\ temp' = [temp EXCEPT ![c] = NoDir]
          /\ Goto(c, "sync")
       \/ /\ ~loc[c].overwrite /\ file[d] = "none" /\ Quiet
          /\ file' = [file EXCEPT ![d] = c]
          /\ Goto(c, "unlink") /\ UNCHANGED temp
       \/ /\ ~loc[c].overwrite /\ file[d] # "none" /\ Quiet
          /\ Goto(c, "cleanup") /\ UNCHANGED <<file, temp>>
       \/ /\ Faulted /\ Goto(c, "cleanup") /\ UNCHANGED <<file, temp>>
    /\ UNCHANGED <<disk, rows>>

\* After os.link the temporary name goes.
Unlink(c) ==
    /\ At(c, "unlink")
    /\ \/ temp' = [temp EXCEPT ![c] = NoDir] /\ Goto(c, "sync") /\ Quiet
       \/ Faulted /\ Goto(c, "cleanup") /\ UNCHANGED temp
    /\ UNCHANGED <<disk, file, rows>>

\* os.fsync of the directory: its failure reports an error for a copy that is there.
Sync(c) ==
    /\ At(c, "sync")
    /\ \/ Goto(c, "ok") /\ Quiet
       \/ Faulted /\ Goto(c, "cleanup")
    /\ UNCHANGED <<disk, file, temp, rows>>

\* Mutant: only a failed write removes the temporary file.
CleanupPartly(c) ==
    /\ At(c, "cleanup") /\ Quiet
    /\ temp' = IF loc[c].whole THEN temp ELSE [temp EXCEPT ![c] = NoDir]
    /\ Goto(c, "error")
    /\ UNCHANGED <<disk, file, rows>>

\* The except clause of _atomic_write_at; its unlink may fail as well.
Cleanup(c) ==
    /\ At(c, "cleanup")
    /\ \/ temp' = [temp EXCEPT ![c] = NoDir] /\ Goto(c, "error") /\ Quiet
       \/ Faulted /\ Set(c, [loc[c] EXCEPT !.pc = "error", !.stuck = TRUE]) /\ UNCHANGED temp
    /\ UNCHANGED <<disk, file, rows>>

\* The process of a copier dies; nothing it had on disk is undone.
Die(c) ==
    /\ loc[c].pc \notin {"idle", "ok", "error", "dead"} /\ Faulted
    /\ Goto(c, "dead")
    /\ UNCHANGED <<disk, file, temp, rows>>

-----------------------------------------------------------------------------
(* The user and other programs *)

Moved == moves < MaxMoves /\ moves' = moves + 1

\* The granted path is moved away and back, removed, or replaced.
SwapRoot ==
    /\ Moved
    /\ place' \in Entries({Top(Granted), Top(Other)}) \ {place}
    /\ UNCHANGED <<sub, file, temp, rows, loc, faults>>

\* So is a component below it.
SwapSub(t) ==
    /\ Moved
    /\ \E e \in Entries({Sub(t)}) \ {sub[t]} : sub' = [sub EXCEPT ![t] = e]
    /\ UNCHANGED <<place, file, temp, rows, loc, faults>>

\* A file, or a link, appears under the destination's name, or goes.
TouchFile(d) ==
    /\ Moved
    /\ \E x \in {"none", "user", "link"} \ {file[d]} : file' = [file EXCEPT ![d] = x]
    /\ UNCHANGED <<place, sub, temp, rows, loc, faults>>

CopyStep(c) ==
    \/ \E deep, overwrite \in BOOLEAN : Begin(c, deep, overwrite)
    \/ Revalidate(c) \/ ValidateRoot(c) \/ OpenRoot(c) \/ OpenSub(c) \/ MakeSub(c)
    \/ OpenTemp(c) \/ WriteTemp(c) \/ Publish(c) \/ Unlink(c) \/ Sync(c) \/ Cleanup(c) \/ Die(c)

Next ==
    \/ GrantResolve \/ Revoke \/ \E mode \in {"ro", "rw"} : GrantInsert(mode)
    \/ \E c \in Copiers : CopyStep(c)
    \/ SwapRoot \/ \E t \in {Granted, Other} : SwapSub(t)
    \/ \E d \in Beneath(Granted) : TouchFile(d)

Spec == Init /\ [][Next]_vars

-----------------------------------------------------------------------------
(* Properties *)

\* A copy and its temporary file are only ever created in the directory the user
\* granted for writing, or below it, whatever is swapped between the checks and
\* the system calls (_open_parent_fd, _atomic_write_at).
CopyInGrant ==
    \A c \in Copiers, d \in Dirs :
        file[d] = c \/ temp[c] = d =>
            loc[c].grant.mode = "rw" /\ d \in Beneath(loc[c].grant.top)

\* A copy appears whole or not at all, and a call that returned has removed its
\* temporary file, unless that very removal failed (_atomic_write_at).
CopyAllOrNothing ==
    \A c \in Copiers :
        /\ \A d \in Dirs : file[d] = c => loc[c].whole
        /\ loc[c].pc \in {"ok", "error"} /\ ~loc[c].stuck => temp[c] = NoDir

\* Without overwrite a copy never takes the place of anything, also not of a
\* file, a link or another copy that appeared a moment ago (os.link).
NothingReplaced ==
    [][\A d \in Dirs, c \in Copiers :
          file'[d] = c /\ file[d] \notin {c, "none"} => loc[c].overwrite]_vars
=============================================================================
