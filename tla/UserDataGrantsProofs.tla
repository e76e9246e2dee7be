----------------------- MODULE UserDataGrantsProofs ------------------------
(***************************************************************************)
(* Proofs about UserDataGrants, for any set of copiers and any number of   *)
(* grants, moves by others and faults.                                     *)
(*                                                                         *)
(* DiskInv says where directories can be: a component below a directory is *)
(* one of that directory, or a link.  CopierInv says what a save_copy call *)
(* holds at each of its control states; its heart is that the descriptor   *)
(* of the parent lies beneath the directory the caller's row names, from   *)
(* the moment the root is opened, whatever happens to the paths.           *)
(***************************************************************************)
EXTENDS UserDataGrants, TLAPS

Labels == {"idle", "revalidate", "root", "open", "sub", "again", "mkdir", "temp", "write",
           "publish", "unlink", "sync", "cleanup", "ok", "error", "dead"}

GrantRows == [top : Tops \cup {"link"}, mode : {"ro", "rw"}, live : BOOLEAN]

Calls == [pc : Labels, grant : GrantRows, deep : BOOLEAN, overwrite : BOOLEAN,
          fd : Dirs \cup {NoDir}, whole : BOOLEAN, stuck : BOOLEAN]

TypeInv ==
    /\ temp \in [Copiers -> Dirs \cup {NoDir}]
    /\ file \in [Dirs -> Copiers \cup {"none", "user", "link"}]
    /\ grant \in GrantRows
    /\ loc \in [Copiers -> Calls]

DiskInv ==
    /\ place \in Entries({Top(Granted), Top(Other)})
    /\ sub \in [Tops -> Entries(Dirs)]
    /\ \A t \in Tops : sub[t].kind = "dir" => sub[t].dir \in Beneath(t)

\* The call has looked at the root and found the grant's mode right, it has the
\* root open, it has the parent open, the temporary file may be there.
Approved == {"root", "open", "sub", "again", "mkdir", "temp", "write", "publish", "unlink",
             "sync", "cleanup", "ok"}
RootOpen == {"sub", "again", "mkdir"}
ParentOpen == {"temp", "write", "publish", "unlink", "sync", "cleanup", "ok"}
MayHaveTemp == {"write", "publish", "unlink", "cleanup", "error", "dead"}

\* The copier's row is for writing and d is beneath what it names.
InGrant(c, d) == loc[c].grant.mode = "rw" /\ d \in Beneath(loc[c].grant.top)

CopierInv(c) ==
    /\ loc[c].pc = "idle" => ~loc[c].whole
    /\ loc[c].pc \in Approved => loc[c].grant.mode = "rw"
    /\ loc[c].pc \in RootOpen => loc[c].grant.top \in Tops /\ loc[c].fd = Top(loc[c].grant.top)
    /\ loc[c].pc \in ParentOpen => loc[c].fd \in Dirs /\ loc[c].fd \in Beneath(loc[c].grant.top)
    /\ loc[c].whole => loc[c].pc \in ParentOpen \cup {"error", "dead"}
    /\ loc[c].pc \in {"publish", "unlink", "sync"} => loc[c].whole
    /\ temp[c] # NoDir => loc[c].pc \in MayHaveTemp /\ InGrant(c, temp[c])
    /\ loc[c].pc = "error" /\ ~loc[c].stuck => temp[c] = NoDir
    /\ \A d \in Dirs : file[d] = c => loc[c].whole /\ InGrant(c, d)

GrantsInv == TypeInv /\ DiskInv /\ \A c \in Copiers : CopierInv(c)

\* What the directories are, as far as the proofs need it.
LEMMA Directories ==
    /\ \A t \in Tops : Top(t) \in Dirs /\ Sub(t) \in Dirs /\ New(t) \in Dirs
    /\ \A t \in Tops : Top(t) \in Beneath(t) /\ Top(t)[1] = t
    /\ \A t \in Tops : \A d \in Beneath(t) : d \in Dirs
    /\ NoDir \notin Dirs
    /\ Granted \in Tops /\ Other \in Tops /\ Home \in Tops
BY DEF Dirs, Beneath, Top, Sub, New, NoDir, Tops

\* A disk without copies satisfies the invariant.
LEMMA InitGrants == Init => GrantsInv
<1> SUFFICES ASSUME Init PROVE GrantsInv
  OBVIOUS
<1>1. TypeInv
  BY DEF Init, TypeInv, Idle, NoGrant, Calls, GrantRows, Labels, Tops
<1>2. DiskInv
  BY Directories DEF Init, DiskInv, Entries, Absent, Entry, Beneath
<1>3. \A c \in Copiers : CopierInv(c)
  BY CopiersAssumption DEF Init, CopierInv, Idle, Approved, RootOpen, ParentOpen, MayHaveTemp
<1> QED BY <1>1, <1>2, <1>3 DEF GrantsInv

\* A step that leaves a copier and its files alone keeps what it relies on.
LEMMA OthersKept ==
    ASSUME NEW c, CopierInv(c), loc'[c] = loc[c], temp'[c] = temp[c],
           \A d \in Dirs : file'[d] = c => file[d] = c
    PROVE  CopierInv(c)'
BY DEF CopierInv, InGrant

\* A copier goes on to l, or ends there with a flag set; the others stay.
LEMMA GotoEffect ==
    ASSUME TypeInv, NEW m \in Copiers, NEW l \in Labels, Goto(m, l)
    PROVE  /\ loc' \in [Copiers -> Calls]
           /\ \A c \in Copiers \ {m} : loc'[c] = loc[c]
           /\ loc'[m].pc = l /\ loc'[m].grant = loc[m].grant /\ loc'[m].fd = loc[m].fd
           /\ loc'[m].whole = loc[m].whole /\ loc'[m].stuck = loc[m].stuck
BY DEF TypeInv, Goto, Set, Calls

\* The call of a copier becomes c; the others stay.
LEMMA SetEffect ==
    ASSUME TypeInv, NEW m \in Copiers, NEW call \in Calls, Set(m, call)
    PROVE  /\ loc' \in [Copiers -> Calls] /\ loc'[m] = call
           /\ \A c \in Copiers \ {m} : loc'[c] = loc[c]
BY DEF TypeInv, Set

\* A copier goes on to l with the directory d open.
Opened(c, l, d) == Set(c, [loc[c] EXCEPT !.pc = l, !.fd = d])

\* A call that opens a directory keeps everything else it has.
LEMMA OpenedEffect ==
    ASSUME TypeInv, NEW m \in Copiers, NEW l \in Labels, NEW d \in Dirs, Opened(m, l, d)
    PROVE  /\ loc' \in [Copiers -> Calls]
           /\ \A c \in Copiers \ {m} : loc'[c] = loc[c]
           /\ loc'[m].pc = l /\ loc'[m].grant = loc[m].grant /\ loc'[m].fd = d
           /\ loc'[m].whole = loc[m].whole
BY DEF TypeInv, Opened, Set, Calls

\* What becomes of a call that has written its temporary file, and of one that
\* could not remove it.
LEMMA WrittenCall ==
    ASSUME NEW r \in Calls
    PROVE  LET u == [r EXCEPT !.pc = "publish", !.whole = TRUE] IN
           u \in Calls /\ u.pc = "publish" /\ u.fd = r.fd /\ u.grant = r.grant /\ u.whole
BY DEF Calls, Labels

\* So does a call whose clean-up fails.
LEMMA StuckCall ==
    ASSUME NEW r \in Calls
    PROVE  LET u == [r EXCEPT !.pc = "error", !.stuck = TRUE] IN
           u \in Calls /\ u.pc = "error" /\ u.grant = r.grant /\ u.whole = r.whole /\ u.stuck
BY DEF Calls, Labels

\* One system call of one copier preserves the invariant.
LEMMA CopierStep ==
    ASSUME GrantsInv, NEW m \in Copiers, CopyStep(m)
    PROVE  GrantsInv'
<1> USE DEF disk, rows, At, Quiet, Faulted
<1>0. TypeInv /\ DiskInv /\ CopierInv(m) /\ loc[m] \in Calls
  BY DEF GrantsInv, TypeInv
<1> SUFFICES /\ TypeInv' /\ DiskInv' /\ CopierInv(m)'
             /\ \A c \in Copiers \ {m} :
                   /\ loc'[c] = loc[c] /\ temp'[c] = temp[c]
                   /\ \A d \in Dirs : file'[d] = c => file[d] = c
  BY OthersKept DEF GrantsInv
<1> USE DEF CopierInv, InGrant, Labels, Approved, RootOpen, ParentOpen, MayHaveTemp
<1>1. CASE \E deep, overwrite \in BOOLEAN : Begin(m, deep, overwrite)
  <2>1. PICK deep \in BOOLEAN, overwrite \in BOOLEAN : Begin(m, deep, overwrite)
    BY <1>1
  <2>2. /\ loc' \in [Copiers -> Calls] /\ \A c \in Copiers \ {m} : loc'[c] = loc[c]
        /\ loc'[m].pc \in {"revalidate", "error"} /\ ~loc'[m].whole
    BY <1>0, <2>1 DEF Begin, Set, Idle, TypeInv, Calls
  <2>3. QED BY <1>0, <2>1, <2>2 DEF Begin, TypeInv, DiskInv
<1>2. CASE Revalidate(m)
  BY <1>0, <1>2, GotoEffect, Directories DEF Revalidate, TypeInv, DiskInv
<1>3. CASE ValidateRoot(m)
  BY <1>0, <1>3, GotoEffect, Directories DEF ValidateRoot, TypeInv, DiskInv
<1>4. CASE OpenRoot(m)
  <2>1. CASE ~SameRoot(loc[m].grant)
    BY <1>0, <1>4, <2>1, GotoEffect DEF OpenRoot, Goto, TypeInv, DiskInv
  <2>2. CASE SameRoot(loc[m].grant)
    <3>1. loc[m].grant.top \in Tops /\ place.dir = Top(loc[m].grant.top)
      BY <1>0, <2>2, Directories DEF SameRoot, DiskInv, Entries, Entry, Absent
    <3>2. PICK l \in {"sub", "temp"} : Opened(m, l, place.dir)
      BY <1>4, <2>2 DEF OpenRoot, Opened
    <3>3. place.dir \in Dirs /\ place.dir \in Beneath(loc[m].grant.top)
      BY <3>1, Directories
    <3>4. loc[m].pc = "open" /\ UNCHANGED <<place, sub, file, temp, grant>>
      BY <1>4 DEF OpenRoot
    <3>5. QED BY <1>0, <3>1, <3>2, <3>3, <3>4, OpenedEffect DEF TypeInv, DiskInv
  <2>3. QED BY <2>1, <2>2
<1>5. CASE OpenSub(m)
  <2> DEFINE t == loc[m].grant.top
             e == sub[t]
  <2>1. t \in Tops /\ loc[m].fd[1] = t
    BY <1>0, <1>5, Directories DEF OpenSub
  <2>2. CASE e.kind # "dir"
    <3>1. Goto(m, IF e.kind = "none" /\ At(m, "sub") THEN "mkdir" ELSE "error")
      BY <1>5, <2>1, <2>2 DEF OpenSub, Goto
    <3>2. QED BY <1>0, <1>5, <2>1, <3>1, GotoEffect DEF OpenSub, TypeInv, DiskInv
  <2>3. CASE e.kind = "dir"
    <3>1. e.dir \in Dirs /\ e.dir \in Beneath(t)
      BY <1>0, <2>1, <2>3, Directories DEF DiskInv
    <3>2. Opened(m, "temp", e.dir)
      BY <1>5, <2>1, <2>3 DEF OpenSub, Opened
    <3>3. loc[m].pc \in {"sub", "again"} /\ UNCHANGED <<place, sub, file, temp, grant>>
      BY <1>5 DEF OpenSub
    <3>4. QED BY <1>0, <3>1, <3>2, <3>3, OpenedEffect DEF TypeInv, DiskInv
  <2>4. QED BY <2>2, <2>3
<1>6. CASE MakeSub(m)
  <2>1. loc[m].fd[1] = loc[m].grant.top /\ loc[m].grant.top \in Tops
    BY <1>0, <1>6, Directories DEF MakeSub
  <2>2. DiskInv'
    BY <1>0, <1>6, <2>1, Directories DEF MakeSub, DiskInv, Entries, Entry, Beneath
  <2>3. QED BY <1>0, <1>6, <2>2, GotoEffect DEF MakeSub, TypeInv
<1>7. CASE OpenTemp(m)
  BY <1>0, <1>7, GotoEffect, Directories DEF OpenTemp, TypeInv, DiskInv
<1>8. CASE WriteTemp(m)
  <2> DEFINE u == [loc[m] EXCEPT !.pc = "publish", !.whole = TRUE]
  <2>1. /\ u \in Calls /\ u.pc = "publish" /\ u.fd = loc[m].fd
        /\ u.grant = loc[m].grant /\ u.whole
    BY <1>0, WrittenCall DEF TypeInv
  <2>2. Set(m, u) \/ Goto(m, "cleanup")
    BY <1>8 DEF WriteTemp
  <2> HIDE DEF u
  <2>3. loc[m].pc = "write" /\ UNCHANGED <<place, sub, file, temp, grant>>
    BY <1>8 DEF WriteTemp
  <2>4. QED BY <1>0, <2>1, <2>2, <2>3, SetEffect, GotoEffect DEF TypeInv, DiskInv
<1>9. CASE Publish(m)
  BY <1>0, <1>9, GotoEffect, Directories DEF Publish, TypeInv, DiskInv
<1>10. CASE Unlink(m)
  BY <1>0, <1>10, GotoEffect, Directories DEF Unlink, TypeInv, DiskInv
<1>11. CASE Sync(m)
  BY <1>0, <1>11, GotoEffect, Directories DEF Sync, TypeInv, DiskInv
<1>12. CASE Cleanup(m)
  <2> DEFINE u == [loc[m] EXCEPT !.pc = "error", !.stuck = TRUE]
  <2>1. /\ u \in Calls /\ u.pc = "error" /\ u.grant = loc[m].grant
        /\ u.whole = loc[m].whole /\ u.stuck
    BY <1>0, StuckCall DEF TypeInv
  <2>2. \/ Set(m, u) /\ temp' = temp
        \/ Goto(m, "error") /\ temp' = [temp EXCEPT ![m] = NoDir]
    BY <1>12 DEF Cleanup
  <2>3. loc[m].pc = "cleanup" /\ UNCHANGED <<place, sub, file, grant>>
    BY <1>12 DEF Cleanup
  <2> HIDE DEF u
  <2>4. QED BY <1>0, <2>1, <2>2, <2>3, SetEffect, GotoEffect DEF TypeInv, DiskInv
<1>13. CASE Die(m)
  BY <1>0, <1>13, GotoEffect, Directories DEF Die, TypeInv, DiskInv
<1> QED BY <1>1, <1>2, <1>3, <1>4, <1>5, <1>6, <1>7, <1>8, <1>9, <1>10, <1>11, <1>12, <1>13 DEF CopyStep

\* Every step keeps the invariant.
LEMMA GrantsStep == GrantsInv /\ [Next]_vars => GrantsInv'
<1> SUFFICES ASSUME GrantsInv, [Next]_vars PROVE GrantsInv'
  OBVIOUS
<1> USE DEF disk, rows, Moved
<1>0. TypeInv /\ DiskInv
  BY DEF GrantsInv
<1>1. CASE \E c \in Copiers : CopyStep(c)
  BY <1>1, CopierStep
<1> SUFFICES ASSUME ~\E c \in Copiers : CopyStep(c)
             PROVE  /\ TypeInv' /\ DiskInv' /\ UNCHANGED <<loc, temp>>
                    /\ \A c \in Copiers, d \in Dirs : file'[d] = c => file[d] = c
  BY <1>1, OthersKept DEF GrantsInv
<1>2. CASE GrantResolve
  BY <1>0, <1>2 DEF GrantResolve, TypeInv, DiskInv
<1>3. CASE Revoke
  BY <1>0, <1>3 DEF Revoke, NoGrant, TypeInv, DiskInv, GrantRows, Tops
<1>4. CASE \E mode \in {"ro", "rw"} : GrantInsert(mode)
  <2>1. place.kind = "dir" => place.dir[1] \in Tops
    BY <1>0, Directories DEF DiskInv, Entries, Entry, Absent
  <2>2. place.kind \in {"none", "dir", "link"}
    BY <1>0 DEF DiskInv, Entries, Entry, Absent
  <2>3. QED BY <1>0, <1>4, <2>1, <2>2 DEF GrantInsert, TypeInv, DiskInv, GrantRows
<1>5. CASE SwapRoot
  BY <1>0, <1>5 DEF SwapRoot, TypeInv, DiskInv
<1>6. CASE \E t \in {Granted, Other} : SwapSub(t)
  <2>1. PICK t \in {Granted, Other} : SwapSub(t)
    BY <1>6
  <2>2. PICK e \in Entries({Sub(t)}) : sub' = [sub EXCEPT ![t] = e]
    BY <2>1 DEF SwapSub
  <2>3. t \in Tops /\ e \in Entries(Dirs) /\ (e.kind = "dir" => e.dir \in Beneath(t))
    BY <2>2, Directories DEF Entries, Entry, Absent, Beneath
  <2>4. QED BY <1>0, <2>1, <2>2, <2>3 DEF SwapSub, TypeInv, DiskInv
<1>7. CASE \E d \in Beneath(Granted) : TouchFile(d)
  BY <1>0, <1>7, CopiersAssumption, Directories DEF TouchFile, TypeInv, DiskInv
<1>8. CASE UNCHANGED vars
  BY <1>0, <1>8 DEF vars, TypeInv, DiskInv
<1> QED BY <1>2, <1>3, <1>4, <1>5, <1>6, <1>7, <1>8 DEF Next

\* The invariant holds in every reachable state.
LEMMA GrantsInvariant == Spec => []GrantsInv
BY InitGrants, GrantsStep, PTL DEF Spec

\* A copy and its temporary file are only ever created beneath the directory the
\* user granted for writing, whatever is swapped between the checks and the
\* system calls: _open_parent_fd compares the descriptor, not the path.
THEOREM CopiesStayInGrant == Spec => []CopyInGrant
<1>1. GrantsInv => CopyInGrant
  <2> SUFFICES ASSUME GrantsInv, NEW c \in Copiers, NEW d \in Dirs, file[d] = c \/ temp[c] = d
               PROVE  InGrant(c, d)
    BY DEF CopyInGrant, InGrant
  <2>1. d # NoDir /\ CopierInv(c)
    BY Directories DEF GrantsInv
  <2> QED BY <2>1 DEF CopierInv
<1> QED BY <1>1, GrantsInvariant, PTL

\* A copy appears whole or not at all, and a call that returned has removed its
\* temporary file unless that removal failed (_atomic_write_at).
THEOREM CopiesAreWhole == Spec => []CopyAllOrNothing
<1>1. GrantsInv => CopyAllOrNothing
  <2> SUFFICES ASSUME GrantsInv, NEW c \in Copiers
               PROVE  /\ \A d \in Dirs : file[d] = c => loc[c].whole
                      /\ loc[c].pc \in {"ok", "error"} /\ ~loc[c].stuck => temp[c] = NoDir
    BY DEF CopyAllOrNothing
  <2> QED BY DEF GrantsInv, CopierInv, MayHaveTemp
<1> QED BY <1>1, GrantsInvariant, PTL

\* Without overwrite no step of any process puts a copy in the place of
\* anything: os.link refuses a name that is taken.
THEOREM CopiesReplaceNothing == Spec => NothingReplaced
<1>1. GrantsInv /\ [Next]_vars =>
          [\A d \in Dirs, c \in Copiers :
              file'[d] = c /\ file[d] \notin {c, "none"} => loc[c].overwrite]_vars
  <2> SUFFICES ASSUME TypeInv, Next, NEW d \in Dirs, NEW c \in Copiers,
                      file'[d] = c, file[d] \notin {c, "none"}
               PROVE  loc[c].overwrite
    BY DEF GrantsInv
  <2>1. CASE \E m \in Copiers : Publish(m)
    BY <2>1 DEF Publish, TypeInv
  <2>2. CASE \E x \in Beneath(Granted) : TouchFile(x)
    BY <2>2, CopiersAssumption DEF TouchFile, TypeInv
  <2>3. CASE UNCHANGED file
    BY <2>3
  <2> QED
    BY <2>1, <2>2, <2>3 DEF Next, CopyStep, GrantResolve, Revoke, GrantInsert, SwapRoot, SwapSub,
       Begin, Revalidate, ValidateRoot, OpenRoot, OpenSub, MakeSub, OpenTemp, WriteTemp,
       Unlink, Sync, Cleanup, Die
<1> QED BY <1>1, GrantsInvariant, PTL DEF Spec, NothingReplaced
============================================================================
