---------------------- MODULE WorkspaceDocumentsProofs ----------------------
(***************************************************************************)
(* Proofs about WorkspaceDocuments, for any set of callers and paths, any  *)
(* faults and any number of operations and saves.                          *)
(*                                                                         *)
(* The inductive invariant has three parts beside the types.  TxInv: what  *)
(* a guard has checked holds until its transaction ends, because nobody    *)
(* else's rows or active path change while it is open.  VersionInv: a      *)
(* version is in one place at a time (a call that may commit it, one row,  *)
(* or replaced for good).  DescribeInv: the row of every path describes    *)
(* its file, but for the path of an open write, where the bytes that the   *)
(* compensation would restore do.                                          *)
(***************************************************************************)
EXTENDS WorkspaceDocuments, TLAPS

OpenPcs == {"previous", "replace", "move", "commit", "undo"}
Rows == [version : 0..MaxOps, hash : Contents]

-----------------------------------------------------------------------------
(* What the operators of a call return *)

\* The constants of the model are well typed.
LEMMA Constants ==
    /\ NoFile \in Contents /\ Source \in Contents /\ NoRow \in Rows /\ Idle \in Jobs
    /\ \A n \in 0..MaxOps : \A o \in BOOLEAN : [id |-> n, outputs |-> o] \in Contents
    /\ \A n \in Nat : n < MaxSaves =>
          [id |-> MaxOps + n + 1, outputs |-> TRUE] \in Contents \cap RuntimeContents
<1>1. NoFile \in Contents /\ Source \in Contents
  BY BoundsAssumption DEF NoFile, Source, Contents
<1>2. Idle \in Jobs
  BY <1>1, NamesAssumption, BoundsAssumption DEF Idle, Jobs
<1> QED BY <1>1, <1>2, BoundsAssumption DEF NoRow, Rows, Contents, RuntimeContents

\* The call of one caller becomes j.
LEMMA UpdateEffect ==
    ASSUME job \in [Callers -> Jobs], NEW c \in Callers, NEW j \in Jobs, Update(c, j)
    PROVE  /\ job' \in [Callers -> Jobs] /\ job'[c] = j
           /\ \A d \in Callers \ {c} : job'[d] = job[d]
BY DEF Update

Labels == {"idle", "read", "version", "guard"} \cup OpenPcs

\* A caller that moves on leaves the other callers alone.
LEMMA GotoEffect ==
    ASSUME job \in [Callers -> Jobs], NEW c \in Callers, NEW l \in Labels, Goto(c, l)
    PROVE  /\ job' \in [Callers -> Jobs] /\ job'[c].pc = l
           /\ job'[c].op = job[c].op /\ job'[c].path = job[c].path /\ job'[c].from = job[c].from
           /\ job'[c].data = job[c].data /\ job'[c].version = job[c].version
           /\ job'[c].expected = job[c].expected /\ job'[c].previous = job[c].previous
           /\ job'[c].done = job[c].done
           /\ \A d \in Callers \ {c} : job'[d] = job[d]
BY DEF Goto, Update, Jobs, Labels, OpenPcs

\* So does one that returns.
LEMMA ReturnEffect ==
    ASSUME job \in [Callers -> Jobs], NEW c \in Callers, Return(c)
    PROVE  /\ job' \in [Callers -> Jobs] /\ job'[c] = Idle
           /\ \A d \in Callers \ {c} : job'[d] = job[d]
BY UpdateEffect, Constants DEF Return

\* The calls that the operations start with and continue with, as functions of
\* what they read.
WriteCall(p, d, n, v, ow) ==
    [Idle EXCEPT !.op = "write", !.pc = "guard", !.path = p, !.data = d,
                 !.version = n, !.expected = v, !.overwrite = ow]
CopyCall(q, p, n, o, ow) ==
    [Idle EXCEPT !.op = "copy", !.pc = "read", !.path = p, !.from = q,
                 !.version = n, !.overwrite = ow, !.outputs = o]
RenameCall(q, p) ==
    [Idle EXCEPT !.op = "rename", !.pc = "guard", !.path = p, !.from = q]
WithData(j, d)     == [j EXCEPT !.pc = "version", !.data = d]
WithExpected(j, v) == [j EXCEPT !.pc = "guard", !.expected = v]
WithPrevious(j, d) == [j EXCEPT !.pc = "replace", !.done = TRUE, !.previous = d]
MovedCall(j)       == [j EXCEPT !.pc = "commit", !.done = TRUE]

\* A write and a copy begin well typed, with a version of their own.
LEMMA StartedCall ==
    ASSUME NEW p \in Paths, NEW q \in Paths, NEW n \in 0..MaxOps, NEW v \in 0..MaxOps,
           NEW d \in Contents, NEW ow \in BOOLEAN, NEW o \in BOOLEAN
    PROVE  /\ /\ WriteCall(p, d, n, v, ow) \in Jobs
              /\ WriteCall(p, d, n, v, ow).pc = "guard" /\ WriteCall(p, d, n, v, ow).version = n
           /\ /\ CopyCall(q, p, n, o, ow) \in Jobs
              /\ CopyCall(q, p, n, o, ow).pc = "read" /\ CopyCall(q, p, n, o, ow).version = n
<1>1. Idle \in Jobs
  BY Constants
<1> QED BY <1>1 DEF Idle, Jobs, WriteCall, CopyCall

\* A rename begins well typed and has no version.
LEMMA StartedRename ==
    ASSUME NEW p \in Paths, NEW q \in Paths
    PROVE  /\ RenameCall(q, p) \in Jobs
           /\ RenameCall(q, p).pc = "guard" /\ RenameCall(q, p).version = 0
<1>1. Idle \in Jobs
  BY Constants
<1> QED BY <1>1 DEF Idle, Jobs, RenameCall

\* A copy that has read its source goes on well typed.
LEMMA ContinuedCall ==
    ASSUME NEW j \in Jobs, NEW d \in Contents, NEW v \in 0..MaxOps
    PROVE  /\ /\ WithData(j, d) \in Jobs
              /\ WithData(j, d).pc = "version" /\ WithData(j, d).version = j.version
           /\ /\ WithExpected(j, v) \in Jobs
              /\ WithExpected(j, v).pc = "guard" /\ WithExpected(j, v).version = j.version
BY DEF Jobs, WithData, WithExpected

\* A guarded write has the bytes to restore.
LEMMA PreviousCall ==
    ASSUME NEW j \in Jobs, NEW d \in Contents, NEW u, u = WithPrevious(j, d)
    PROVE  /\ u \in Jobs /\ u.pc = "replace" /\ u.op = j.op /\ u.version = j.version
           /\ u.path = j.path /\ u.from = j.from /\ u.data = j.data
           /\ u.expected = j.expected /\ u.previous = d /\ u.done
BY DEF Jobs, WithPrevious

\* A rename has moved its file.
LEMMA MovedCallKeeps ==
    ASSUME NEW j \in Jobs, NEW u, u = MovedCall(j)
    PROVE  /\ u \in Jobs /\ u.pc = "commit" /\ u.op = j.op /\ u.version = j.version
           /\ u.path = j.path /\ u.from = j.from /\ u.expected = j.expected /\ u.done
BY DEF Jobs, MovedCall

\* What is read is a content, with or without its outputs.
LEMMA StrippedContent ==
    ASSUME NEW f \in Contents, NEW o \in BOOLEAN
    PROVE  [f EXCEPT !.outputs = @ /\ o] \in Contents
BY DEF Contents

-----------------------------------------------------------------------------
(* The inductive invariant *)

\* What the guard has checked still holds.
TxInv(c) ==
    /\ job[c].pc \in {"previous", "replace"} => job[c].op # "rename"
    /\ job[c].pc = "move" => job[c].op = "rename"
    /\ job[c].pc \in OpenPcs => Admitted(job[c])

\* A version is in one place: a call, a row, or replaced by a successor.
VersionInv ==
    /\ \A p \in Paths : rows[p].version <= issued
    /\ \A p, q \in Paths : rows[p].version = rows[q].version /\ rows[p].version # 0 => p = q
    /\ \A p \in Paths : rows[p].version # 0 => replaced[rows[p].version] = 0
    /\ \A c \in Callers : job[c].version <= issued
    /\ \A c \in Callers : job[c].version # 0 =>
          /\ \A d \in Callers : job[d].version = job[c].version => d = c
          /\ \A p \in Paths : rows[p].version # job[c].version
          /\ replaced[job[c].version] = 0
    /\ \A v \in Versions : v > issued => replaced[v] = 0
    /\ OneSuccessor

\* A content is what the row of a path says, or was saved by the runtime.
Describes(content, p) ==
    rows[p] # NoRow => content = rows[p].hash \/ content \in RuntimeContents

\* A write or copy whose transaction may have changed its file already.
Writing(c) == job[c].pc \in {"commit", "undo"} /\ job[c].op # "rename"

DescribeInv ==
    /\ rows[active] = NoRow
    /\ ~broken =>
          /\ \A p \in Paths : (\A c \in Callers : Writing(c) => job[c].path # p)
                                 => Describes(files[p], p)
          /\ \A c \in Callers :
                Writing(c) \/ job[c].pc = "replace" =>
                    job[c].done /\ Describes(job[c].previous, job[c].path)
          /\ \A c \in Callers :
                Writing(c) /\ job[c].pc = "commit" =>
                    files[job[c].path] \in {job[c].data} \cup RuntimeContents

DocInv == TypeOK /\ (\A c \in Callers : TxInv(c)) /\ VersionInv /\ DescribeInv

\* A fresh workspace satisfies the invariant.
LEMMA InitDocs == Init => DocInv
<1> SUFFICES ASSUME Init PROVE DocInv
  OBVIOUS
<1>1. TypeOK
  <2>1. 0 \in 0..MaxOps /\ 0 \in 0..MaxFaults /\ 0 \in 0..MaxSaves
    BY BoundsAssumption
  <2>2. /\ files \in [Paths -> Contents]
        /\ rows \in [Paths -> [version : 0..MaxOps, hash : Contents]]
        /\ job \in [Callers -> Jobs] /\ replaced \in [Versions -> Nat]
    BY Constants DEF Init, Rows
  <2>3. \A c \in Callers : holder # c /\ job[c].pc = "idle"
    BY NamesAssumption DEF Init, Idle
  <2>4. QED BY <2>1, <2>2, <2>3, NamesAssumption DEF Init, TypeOK
<1>2. \A c \in Callers : job[c].pc = "idle" /\ job[c].version = 0
  BY DEF Init, Idle
<1>3. (\A c \in Callers : TxInv(c))
  BY <1>2 DEF TxInv, OpenPcs
<1>4. VersionInv
  <2>1. /\ \A p \in Paths : rows[p].version = 0
        /\ issued = 0 /\ \A v \in Versions : replaced[v] = 0
    BY DEF Init, NoRow
  <2>2. QED BY <1>2, <2>1 DEF VersionInv, OneSuccessor
<1>5. DescribeInv
  BY <1>2, NamesAssumption DEF Init, DescribeInv, Writing, Describes
<1> QED BY <1>1, <1>3, <1>4, <1>5 DEF DocInv

\* Only one transaction is open.
LEMMA OneOpen ==
    ASSUME TypeOK, NEW c \in Callers, NEW d \in Callers,
           job[c].pc \in OpenPcs, job[d].pc \in OpenPcs
    PROVE  c = d /\ holder = c
BY DEF TypeOK, OpenPcs

\* A step that commits nothing, and may issue one version to one caller.
LEMMA VersionsKept ==
    ASSUME TypeOK, TypeOK', VersionInv, NEW c \in Callers,
           \A d \in Callers \ {c} : job'[d] = job[d], UNCHANGED <<rows, replaced>>,
           \/ issued' = issued /\ job'[c].version \in {0, job[c].version}
           \/ issued' = issued + 1 /\ job'[c].version \in {0, issued + 1}
    PROVE  VersionInv'
<1>1. /\ issued \in Nat /\ issued' \in 0..MaxOps /\ MaxOps \in Nat
      /\ \A p \in Paths : rows[p].version \in Nat
      /\ \A d \in Callers : job[d].version \in Nat /\ job'[d].version \in 0..MaxOps
      /\ \A v \in Versions : replaced[v] \in Nat
  BY BoundsAssumption DEF TypeOK, Jobs
<1>2. /\ \A p \in Paths : rows'[p] = rows[p]
      /\ \A v : replaced'[v] = replaced[v]
  OBVIOUS
<1>3. \A d \in Callers : job'[d].version \in {0, job[d].version} \/ (d = c /\ issued' = issued + 1 /\ job'[d].version = issued + 1)
  OBVIOUS
<1>4. \A v \in Versions : v > issued => replaced[v] = 0
  BY DEF VersionInv
<1>5. CASE issued' = issued /\ job'[c].version \in {0, job[c].version}
  BY <1>1, <1>2, <1>3, <1>5 DEF VersionInv, OneSuccessor
<1>6. CASE issued' = issued + 1 /\ job'[c].version \in {0, issued + 1}
  <2>1. issued + 1 \in Versions
    BY <1>1, <1>6 DEF Versions
  <2>2. replaced[issued + 1] = 0
    BY <1>1, <1>4, <2>1
  <2>3. \A d \in Callers : /\ job[d].version <= issued /\ job[d].version # issued + 1
                           /\ d # c => job'[d].version = job[d].version
    BY <1>1 DEF VersionInv
  <2>4. \A p \in Paths : rows'[p] = rows[p] /\ rows[p].version <= issued
                         /\ rows[p].version # issued + 1
    BY <1>1, <1>2 DEF VersionInv
  <2>5. \A d \in Callers : job'[d].version <= issued' /\ (job'[d].version # 0 =>
          /\ \A e \in Callers : job'[e].version = job'[d].version => e = d
          /\ \A p \in Paths : rows'[p].version # job'[d].version
          /\ replaced'[job'[d].version] = 0)
    <3> SUFFICES ASSUME NEW d \in Callers
                 PROVE  job'[d].version <= issued' /\ (job'[d].version # 0 =>
                          /\ \A e \in Callers : job'[e].version = job'[d].version => e = d
                          /\ \A p \in Paths : rows'[p].version # job'[d].version
                          /\ replaced'[job'[d].version] = 0)
      OBVIOUS
    <3>1. CASE d = c
      BY <1>1, <1>2, <1>6, <2>2, <2>3, <2>4, <3>1
    <3>2. CASE d # c
      BY <1>1, <1>2, <1>6, <2>3, <2>4, <3>2 DEF VersionInv
    <3>3. QED BY <3>1, <3>2
  <2>6. /\ \A p \in Paths : rows'[p].version <= issued'
        /\ \A p, q \in Paths : rows'[p].version = rows'[q].version /\ rows'[p].version # 0 => p = q
        /\ \A p \in Paths : rows'[p].version # 0 => replaced'[rows'[p].version] = 0
        /\ \A v \in Versions : v > issued' => replaced'[v] = 0
        /\ OneSuccessor'
    BY <1>1, <1>2, <1>6, <2>4 DEF VersionInv, OneSuccessor, Versions
  <2>7. QED BY <2>5, <2>6 DEF VersionInv
<1> QED BY <1>5, <1>6

-----------------------------------------------------------------------------
(* Steps outside the transactions *)

\* A step of a call that has no transaction open, before or after it.
LEMMA LocalStep ==
    ASSUME DocInv, NEW c \in Callers, job' \in [Callers -> Jobs],
           \A d \in Callers \ {c} : job'[d] = job[d],
           job[c].pc \notin OpenPcs, job'[c].pc \notin OpenPcs,
           UNCHANGED <<files, db, holder, faults, saves, broken>>,
           \/ issued' = issued /\ job'[c].version \in {0, job[c].version}
           \/ issued < MaxOps /\ issued' = issued + 1 /\ job'[c].version \in {0, issued + 1}
    PROVE  DocInv'
<1> USE DEF db
<1>1. TypeOK'
  <2>1. issued' \in 0..MaxOps
    BY BoundsAssumption DEF DocInv, TypeOK
  <2>2. \A d \in Callers : holder' = d <=> job'[d].pc \in OpenPcs
    BY DEF DocInv, TypeOK, OpenPcs
  <2>3. QED BY <2>1, <2>2 DEF DocInv, TypeOK, OpenPcs, Versions, Contents
<1>2. VersionInv'
  BY <1>1, VersionsKept DEF DocInv
<1>3. \A d \in Callers : TxInv(d)'
  <2> SUFFICES ASSUME NEW d \in Callers PROVE TxInv(d)'
    OBVIOUS
  <2>1. CASE d = c
    BY <2>1 DEF TxInv, OpenPcs
  <2>2. CASE d # c
    BY <2>2 DEF DocInv, TxInv, Admitted, RenameAdmitted, WriteAdmitted, NoRow, NoFile
  <2>3. QED BY <2>1, <2>2
<1>4. DescribeInv'
  <2>1. \A d \in Callers : Writing(d)' => Writing(d) /\ job'[d] = job[d]
    BY DEF Writing, OpenPcs
  <2>2. \A d \in Callers : job'[d].pc = "replace" => job'[d] = job[d]
    BY DEF OpenPcs
  <2>3. \A d \in Callers : Writing(d) => Writing(d)'
    BY DEF Writing, OpenPcs
  <2>4. QED BY <2>1, <2>2, <2>3 DEF DocInv, DescribeInv, Describes, NoRow, NoFile, RuntimeContents, Writing
<1> QED BY <1>1, <1>2, <1>3, <1>4 DEF DocInv

\* The operations before their transactions, and transactions that are refused.
LEMMA OutsideSteps ==
    ASSUME DocInv, NEW c \in Callers,
           \/ \E p \in Paths, v \in 0..issued, ow \in BOOLEAN : StartWrite(c, p, v, ow)
           \/ \E from, p \in Paths, o, ow \in BOOLEAN : StartCopy(c, from, p, o, ow)
           \/ \E p \in Paths : StartRename(c, p)
           \/ CopyRead(c) \/ CopyVersion(c) \/ GuardBusy(c)
    PROVE  DocInv'
<1> USE DEF At
<1>0. /\ job \in [Callers -> Jobs] /\ job[c] \in Jobs /\ active \in Paths
      /\ issued \in 0..MaxOps /\ MaxOps \in Nat
      /\ \A p \in Paths : files[p] \in Contents /\ rows[p].version \in 0..MaxOps
  BY BoundsAssumption DEF DocInv, TypeOK
<1>01. issued < MaxOps => issued + 1 \in 0..MaxOps /\ 0..issued \subseteq 0..MaxOps
  BY <1>0
<1>1. ASSUME NEW p \in Paths, NEW v \in 0..issued, NEW ow \in BOOLEAN, StartWrite(c, p, v, ow)
      PROVE  DocInv'
  <2> DEFINE d == [id |-> issued + 1, outputs |-> FALSE]
             u == WriteCall(p, d, issued + 1, v, ow)
  <2>1. /\ job[c].pc = "idle" /\ issued < MaxOps /\ issued' = issued + 1
        /\ UNCHANGED <<files, db, holder, faults, saves, broken>>
    BY <1>1 DEF StartWrite
  <2>2. issued + 1 \in 0..MaxOps /\ v \in 0..MaxOps
    BY <1>01, <2>1
  <2>3. d \in Contents
    BY <2>2, Constants
  <2>4. Update(c, u)
    BY <1>1 DEF StartWrite, WriteCall
  <2> HIDE DEF d
  <2>5. u \in Jobs /\ u.pc = "guard" /\ u.version = issued + 1
    BY <2>2, <2>3, StartedCall, NamesAssumption
  <2> HIDE DEF u
  <2>6. QED BY <1>0, <2>1, <2>4, <2>5, UpdateEffect, LocalStep DEF OpenPcs
<1>2. ASSUME NEW from \in Paths, NEW p \in Paths, NEW o \in BOOLEAN, NEW ow \in BOOLEAN,
             StartCopy(c, from, p, o, ow)
      PROVE  DocInv'
  <2> DEFINE u == CopyCall(from, p, issued + 1, o, ow)
  <2>1. /\ job[c].pc = "idle" /\ issued < MaxOps /\ issued' = issued + 1
        /\ UNCHANGED <<files, db, holder, faults, saves, broken>>
    BY <1>2 DEF StartCopy
  <2>2. issued + 1 \in 0..MaxOps
    BY <1>01, <2>1
  <2>3. u \in Jobs /\ u.pc = "read" /\ u.version = issued + 1
    BY <2>2, StartedCall, Constants
  <2>4. Update(c, u)
    BY <1>2 DEF StartCopy, CopyCall
  <2> HIDE DEF u
  <2>5. QED BY <1>0, <2>1, <2>3, <2>4, UpdateEffect, LocalStep DEF OpenPcs
<1>3. ASSUME NEW p \in Paths, StartRename(c, p) PROVE DocInv'
  <2> DEFINE u == RenameCall(active, p)
  <2>1. u \in Jobs /\ u.pc = "guard" /\ u.version = 0
    BY <1>0, StartedRename
  <2>2. Update(c, u)
    BY <1>3 DEF StartRename, RenameCall
  <2> HIDE DEF u
  <2>3. /\ job[c].pc = "idle" /\ issued < MaxOps /\ issued' = issued + 1
        /\ UNCHANGED <<files, db, holder, faults, saves, broken>>
    BY <1>3 DEF StartRename
  <2>4. QED BY <1>0, <2>1, <2>2, <2>3, UpdateEffect, LocalStep DEF OpenPcs
<1>4. ASSUME Return(c), job[c].pc \notin OpenPcs,
             UNCHANGED <<files, db, holder, issued, faults, saves, broken>>
      PROVE  DocInv'
  <2>1. Idle.pc \notin OpenPcs /\ Idle.version = 0
    BY DEF Idle, OpenPcs
  <2>2. QED BY <1>0, <1>4, <2>1, ReturnEffect, LocalStep
<1>5. CASE CopyRead(c)
  <2>1. CASE files[job[c].from] = NoFile
    BY <1>4, <1>5, <2>1 DEF CopyRead, OpenPcs
  <2>2. CASE files[job[c].from] # NoFile
    <3> DEFINE f == files[job[c].from]
               d == [f EXCEPT !.outputs = @ /\ job[c].outputs]
               u == WithData(job[c], d)
    <3>1. f \in Contents /\ job[c].outputs \in BOOLEAN
      BY <1>0 DEF Jobs
    <3>2. d \in Contents
      BY <3>1, StrippedContent
    <3>3. Update(c, u)
      BY <1>5, <2>2 DEF CopyRead, WithData
    <3> HIDE DEF d
    <3>4. u \in Jobs /\ u.pc = "version" /\ u.version = job[c].version
      BY <1>0, <3>2, ContinuedCall, BoundsAssumption
    <3> HIDE DEF u
    <3>5. job[c].pc = "read" /\ UNCHANGED <<files, db, holder, issued, faults, saves, broken>>
      BY <1>5 DEF CopyRead
    <3>6. QED BY <1>0, <3>3, <3>4, <3>5, UpdateEffect, LocalStep DEF OpenPcs
  <2>3. QED BY <2>1, <2>2
<1>6. CASE CopyVersion(c)
  <2> DEFINE v == rows[job[c].path].version
             u == WithExpected(job[c], v)
  <2>1. CASE Return(c)
    BY <1>4, <1>6, <2>1 DEF CopyVersion, OpenPcs
  <2>2. CASE Update(c, u)
    <3>1. v \in 0..MaxOps
      BY <1>0 DEF Jobs
    <3> HIDE DEF v
    <3>2. u \in Jobs /\ u.pc = "guard" /\ u.version = job[c].version
      BY <1>0, <3>1, ContinuedCall, Constants
    <3> HIDE DEF u
    <3>3. job[c].pc = "version" /\ UNCHANGED <<files, db, holder, issued, faults, saves, broken>>
      BY <1>6 DEF CopyVersion
    <3>4. QED BY <1>0, <2>2, <3>2, <3>3, UpdateEffect, LocalStep DEF OpenPcs
  <2>3. QED BY <1>6, <2>1, <2>2 DEF CopyVersion, WithExpected
<1>7. CASE GuardBusy(c)
  BY <1>4, <1>7 DEF GuardBusy, OpenPcs
<1> QED BY <1>1, <1>2, <1>3, <1>5, <1>6, <1>7

-----------------------------------------------------------------------------
(* Steps inside a transaction *)

\* DescribeInv, as far as it is about one caller.
DescribeOf(c) ==
    ~broken =>
        /\ \A p \in Paths : (Writing(c) => job[c].path # p) => Describes(files[p], p)
        /\ Writing(c) \/ job[c].pc = "replace" =>
              job[c].done /\ Describes(job[c].previous, job[c].path)
        /\ Writing(c) /\ job[c].pc = "commit" =>
              files[job[c].path] \in {job[c].data} \cup RuntimeContents

\* The caller whose transaction is open is the only one that can be writing.
LEMMA SoleDescribes ==
    ASSUME TypeOK, DescribeInv, NEW c \in Callers,
           \A d \in Callers \ {c} : job[d].pc \notin OpenPcs
    PROVE  DescribeOf(c) /\ rows[active] = NoRow
<1>1. \A d \in Callers \ {c} : ~Writing(d)
  BY DEF Writing, OpenPcs
<1> QED BY <1>1 DEF DescribeInv, DescribeOf

\* With one open transaction, DescribeInv is about its holder alone.
LEMMA SoleDescribed ==
    ASSUME NEW c \in Callers, DescribeOf(c)', (rows[active] = NoRow)',
           \A d \in Callers \ {c} : job'[d].pc \notin OpenPcs
    PROVE  DescribeInv'
<1>1. \A d \in Callers \ {c} : ~Writing(d)' /\ job'[d].pc # "replace"
  BY DEF Writing, OpenPcs
<1>2. CASE broken'
  BY <1>2 DEF DescribeInv
<1>3. CASE ~broken'
  <2>1. \A p \in Paths : (\A d \in Callers : Writing(d)' => job'[d].path # p)
                           => Describes(files[p], p)'
    BY <1>3 DEF DescribeOf
  <2>2. \A d \in Callers : (Writing(d)' \/ job'[d].pc = "replace") => d = c
    BY <1>1
  <2>3. /\ Writing(c)' \/ job'[c].pc = "replace" =>
              job'[c].done /\ Describes(job[c].previous, job[c].path)'
        /\ Writing(c)' /\ job'[c].pc = "commit" =>
              files'[job'[c].path] \in {job'[c].data} \cup RuntimeContents'
    BY <1>3 DEF DescribeOf
  <2>4. \A d \in Callers : Writing(d)' \/ job'[d].pc = "replace" =>
              job'[d].done /\ Describes(job[d].previous, job[d].path)'
    BY <2>2, <2>3
  <2>5. \A d \in Callers : Writing(d)' /\ job'[d].pc = "commit" =>
              files'[job'[d].path] \in {job'[d].data} \cup RuntimeContents'
    BY <2>2, <2>3
  <2>6. QED BY <2>1, <2>4, <2>5 DEF DescribeInv
<1> QED BY <1>2, <1>3

\* Transactions are serial.
LEMMA OthersClosed ==
    ASSUME TypeOK, NEW c \in Callers, job[c].pc \in OpenPcs \/ holder = None
    PROVE  \A d \in Callers \ {c} : job[d].pc \notin OpenPcs
BY NamesAssumption DEF TypeOK, OpenPcs

\* The shape of the state after a step of one caller.
LEMMA TypeKept ==
    ASSUME TypeOK, NEW c \in Callers, job' \in [Callers -> Jobs],
           \A d \in Callers \ {c} : job'[d] = job[d] /\ job[d].pc \notin OpenPcs,
           files' \in [Paths -> Contents], rows' \in [Paths -> Rows], active' \in Paths,
           replaced' \in [Versions -> Nat], faults' \in 0..MaxFaults, broken' \in BOOLEAN,
           holder' = IF job'[c].pc \in OpenPcs THEN c ELSE None,
           UNCHANGED <<issued, saves>>
    PROVE  TypeOK'
<1>1. \A d \in Callers : holder' = d <=> job'[d].pc \in OpenPcs
  BY NamesAssumption
<1>2. issued' \in 0..MaxOps /\ saves' \in 0..MaxSaves
  BY DEF TypeOK
<1>3. holder' \in Callers \cup {None}
  OBVIOUS
<1> QED BY <1>1, <1>2, <1>3 DEF TypeOK, OpenPcs, Rows, Versions, Contents

\* A step that changes neither the rows nor the active path keeps the invariant if
\* it does so for its own call.
LEMMA OpenStep ==
    ASSUME DocInv, NEW c \in Callers, job[c].pc \in OpenPcs \/ holder = None,
           job' \in [Callers -> Jobs], \A d \in Callers \ {c} : job'[d] = job[d],
           holder' = IF job'[c].pc \in OpenPcs THEN c ELSE None,
           files' \in [Paths -> Contents], faults' \in 0..MaxFaults, broken' \in BOOLEAN,
           job'[c].version \in {0, job[c].version},
           UNCHANGED <<db, issued, saves>>, TxInv(c)', DescribeOf(c)'
    PROVE  DocInv'
<1>1. \A d \in Callers \ {c} : job[d].pc \notin OpenPcs
  BY OthersClosed DEF DocInv
<1>2. TypeOK'
  <2>1. UNCHANGED <<rows, active, replaced, issued, saves>>
    BY DEF db
  <2>2. rows \in [Paths -> Rows] /\ active \in Paths /\ replaced \in [Versions -> Nat]
    BY DEF DocInv, TypeOK, Rows
  <2>3. TypeOK
    BY DEF DocInv
  <2>4. QED BY <1>1, <2>1, <2>2, <2>3, TypeKept
<1>3. VersionInv'
  BY <1>2, VersionsKept DEF DocInv, db
<1>4. \A d \in Callers : TxInv(d)'
  <2> SUFFICES ASSUME NEW d \in Callers, d # c PROVE TxInv(d)'
    OBVIOUS
  <2>1. job'[d].pc \notin OpenPcs
    BY <1>1
  <2>2. QED BY <2>1 DEF TxInv, OpenPcs
<1>5. DescribeInv'
  <2>1. (rows[active] = NoRow)'
    BY DEF DocInv, DescribeInv, db, NoRow, NoFile
  <2>2. \A d \in Callers \ {c} : job'[d].pc \notin OpenPcs
    BY <1>1
  <2>3. QED BY <2>1, <2>2, SoleDescribed
<1> QED BY <1>2, <1>3, <1>4, <1>5 DEF DocInv

\* Errors stay within their bound.
LEMMA FaultCounted ==
    ASSUME TypeOK, NEW s, Fails(s)
    PROVE  faults' \in 0..MaxFaults
<1>1. faults \in 0..MaxFaults /\ MaxFaults \in Nat /\ faults < MaxFaults /\ faults' = faults + 1
  BY BoundsAssumption DEF TypeOK, Fails
<1> QED BY <1>1

\* BEGIN IMMEDIATE and the checks.
LEMMA GuardStep ==
    ASSUME DocInv, NEW c \in Callers, Guard(c)
    PROVE  DocInv'
<1>0. /\ TypeOK /\ job \in [Callers -> Jobs] /\ job[c].pc = "guard" /\ holder = None
      /\ job[c].pc \notin OpenPcs
      /\ UNCHANGED <<files, db, issued, faults, saves, broken>>
  BY DEF DocInv, TypeOK, Guard, At, OpenPcs
<1>1. CASE ~Admitted(job[c])
  <2>1. Return(c) /\ UNCHANGED holder
    BY <1>1 DEF Guard
  <2>2. Idle.pc \notin OpenPcs /\ Idle.version = 0
    BY DEF Idle, OpenPcs
  <2>3. QED BY <1>0, <2>1, <2>2, ReturnEffect, LocalStep
<1>2. CASE Admitted(job[c])
  <2> DEFINE l == IF job[c].op = "rename" THEN "move" ELSE "previous"
  <2>1. holder' = c /\ Goto(c, l)
    BY <1>2 DEF Guard
  <2>2. l \in Labels /\ l \in {"move", "previous"}
    BY DEF Labels, OpenPcs
  <2>3. /\ job' \in [Callers -> Jobs] /\ job'[c].pc = l
        /\ job'[c].op = job[c].op /\ job'[c].path = job[c].path /\ job'[c].from = job[c].from
        /\ job'[c].expected = job[c].expected /\ job'[c].version = job[c].version
        /\ \A d \in Callers \ {c} : job'[d] = job[d]
    BY <1>0, <2>1, <2>2, GotoEffect
  <2>4. TxInv(c)'
    BY <1>0, <1>2, <2>3 DEF TxInv, Admitted, RenameAdmitted, WriteAdmitted, db, OpenPcs, NoRow, NoFile
  <2>5. DescribeOf(c)'
    <3>1. DescribeOf(c) /\ ~Writing(c)
      BY <1>0, OthersClosed, SoleDescribes DEF DocInv, Writing
    <3>2. ~Writing(c)' /\ job'[c].pc # "replace"
      BY <2>2, <2>3 DEF Writing
    <3>3. QED BY <1>0, <3>1, <3>2 DEF DescribeOf, Describes, db, NoRow, NoFile, RuntimeContents
  <2>6. /\ job'[c].pc \in OpenPcs /\ files' \in [Paths -> Contents] /\ faults' \in 0..MaxFaults
        /\ broken' \in BOOLEAN
    BY <1>0, <2>2, <2>3 DEF OpenPcs, TypeOK
  <2>7. QED BY <1>0, <2>1, <2>3, <2>4, <2>5, <2>6, OpenStep
<1> QED BY <1>1, <1>2

\* The bytes to restore describe the path as its row does.
LEMMA ReadPreviousStep ==
    ASSUME DocInv, NEW c \in Callers, ReadPrevious(c)
    PROVE  DocInv'
<1>0. /\ TypeOK /\ job \in [Callers -> Jobs] /\ job[c].pc = "previous" /\ job[c].pc \in OpenPcs
      /\ job[c] \in Jobs /\ job[c].path \in Paths /\ holder = c /\ TxInv(c)
      /\ UNCHANGED <<files, db, holder, issued, faults, saves, broken>>
      /\ files \in [Paths -> Contents] /\ faults \in 0..MaxFaults /\ broken \in BOOLEAN
  BY DEF DocInv, TypeOK, ReadPrevious, At, OpenPcs, Jobs
<1> DEFINE u == WithPrevious(job[c], files[job[c].path])
<1>1. Update(c, u)
  BY DEF ReadPrevious, WithPrevious
<1>2. /\ u \in Jobs /\ u.pc = "replace" /\ u.op = job[c].op /\ u.version = job[c].version
      /\ u.path = job[c].path /\ u.from = job[c].from
      /\ u.expected = job[c].expected /\ u.previous = files[job[c].path] /\ u.done
  BY <1>0, PreviousCall
<1> HIDE DEF u
<1>3. job' \in [Callers -> Jobs] /\ job'[c] = u /\ \A d \in Callers \ {c} : job'[d] = job[d]
  BY <1>0, <1>1, <1>2, UpdateEffect
<1>4. TxInv(c)'
  BY <1>0, <1>2, <1>3 DEF TxInv, Admitted, RenameAdmitted, WriteAdmitted, db, OpenPcs, NoRow, NoFile
<1>5. DescribeOf(c)'
  <2>1. DescribeOf(c) /\ ~Writing(c)
    BY <1>0, OthersClosed, SoleDescribes DEF DocInv, Writing
  <2>2. ~Writing(c)'
    BY <1>2, <1>3 DEF Writing
  <2>3. QED BY <1>0, <1>2, <1>3, <2>1, <2>2
           DEF DescribeOf, Describes, db, NoRow, NoFile, RuntimeContents
<1>6. job'[c].pc \in OpenPcs
  BY <1>2, <1>3 DEF OpenPcs
<1> QED BY <1>0, <1>2, <1>3, <1>4, <1>5, <1>6, OpenStep

\* The write: the row of every other path still describes its file.
LEMMA ReplaceStep ==
    ASSUME DocInv, NEW c \in Callers, Replace(c)
    PROVE  DocInv'
<1>0. /\ TypeOK /\ job \in [Callers -> Jobs] /\ job[c].pc = "replace" /\ job[c].pc \in OpenPcs
      /\ job[c].path \in Paths /\ job[c].data \in Contents /\ holder = c /\ TxInv(c)
      /\ UNCHANGED <<db, holder, issued, saves, broken>>
      /\ files \in [Paths -> Contents] /\ broken \in BOOLEAN
  BY DEF DocInv, TypeOK, Replace, At, OpenPcs, Jobs
<1>1. faults' \in 0..MaxFaults
  BY <1>0, FaultCounted DEF Replace, TypeOK
<1>2. PICK l \in {"commit", "undo"} :
        /\ Goto(c, l)
        /\ \/ files' = [files EXCEPT ![job[c].path] = job[c].data]
           \/ l = "undo" /\ files' = files
  BY DEF Replace
<1>3. files' \in [Paths -> Contents]
  BY <1>0, <1>2
<1>4. /\ job' \in [Callers -> Jobs] /\ job'[c].pc = l
      /\ job'[c].op = job[c].op /\ job'[c].path = job[c].path /\ job'[c].from = job[c].from
      /\ job'[c].data = job[c].data /\ job'[c].version = job[c].version
      /\ job'[c].expected = job[c].expected /\ job'[c].previous = job[c].previous
      /\ job'[c].done = job[c].done
      /\ \A d \in Callers \ {c} : job'[d] = job[d]
  <2>1. l \in Labels
    BY DEF Labels, OpenPcs
  <2>2. QED BY <1>0, <1>2, <2>1, GotoEffect
<1>5. TxInv(c)'
  BY <1>0, <1>4 DEF TxInv, Admitted, RenameAdmitted, WriteAdmitted, db, OpenPcs, NoRow, NoFile
<1>6. DescribeOf(c)'
  <2>1. DescribeOf(c) /\ ~Writing(c)
    BY <1>0, OthersClosed, SoleDescribes DEF DocInv, Writing
  <2>2. Writing(c)'
    BY <1>0, <1>4 DEF Writing, TxInv
  <2>3. /\ \A p \in Paths : p # job[c].path => files'[p] = files[p]
        /\ l = "commit" => files'[job[c].path] = job[c].data
    BY <1>0, <1>2
  <2>4. QED BY <1>0, <1>4, <2>1, <2>2, <2>3
           DEF DescribeOf, Describes, db, NoRow, NoFile, RuntimeContents
<1>7. job'[c].pc \in OpenPcs
  BY <1>4 DEF OpenPcs
<1> QED BY <1>0, <1>1, <1>3, <1>4, <1>5, <1>6, <1>7, OpenStep

\* The move of a rename: neither of its paths has a row.
LEMMA MoveStep ==
    ASSUME DocInv, NEW c \in Callers, Move(c)
    PROVE  DocInv'
<1>0. /\ TypeOK /\ job \in [Callers -> Jobs] /\ job[c].pc = "move" /\ job[c].pc \in OpenPcs
      /\ job[c] \in Jobs /\ job[c].path \in Paths /\ job[c].from \in Paths
      /\ holder = c /\ TxInv(c)
      /\ UNCHANGED <<db, holder, issued, saves, broken>>
      /\ files \in [Paths -> Contents] /\ broken \in BOOLEAN
  BY DEF DocInv, TypeOK, Move, At, OpenPcs, Jobs
<1>1. faults' \in 0..MaxFaults
  BY <1>0, FaultCounted DEF Move, TypeOK
<1>2. /\ job[c].op = "rename" /\ rows[job[c].path] = NoRow /\ active = job[c].from
      /\ rows[active] = NoRow
  BY <1>0 DEF TxInv, Admitted, RenameAdmitted, DocInv, DescribeInv, OpenPcs
<1>3. files' \in [Paths -> Contents] /\ \A p \in Paths : rows[p] # NoRow => files'[p] = files[p]
  BY <1>0, <1>2, Constants DEF Move, Moved
<1>4. /\ job' \in [Callers -> Jobs] /\ job'[c].pc \in {"commit", "undo"}
      /\ job'[c].op = job[c].op /\ job'[c].path = job[c].path /\ job'[c].from = job[c].from
      /\ job'[c].version = job[c].version /\ job'[c].expected = job[c].expected
      /\ \A d \in Callers \ {c} : job'[d] = job[d]
  <2>1. CASE Goto(c, "undo")
    <3>1. "undo" \in Labels
      BY DEF Labels, OpenPcs
    <3>2. QED BY <1>0, <2>1, <3>1, GotoEffect
  <2>2. CASE Update(c, MovedCall(job[c]))
    <3> DEFINE u == MovedCall(job[c])
    <3>1. /\ u \in Jobs /\ u.pc = "commit" /\ u.op = job[c].op /\ u.version = job[c].version
          /\ u.path = job[c].path /\ u.from = job[c].from /\ u.expected = job[c].expected
      BY <1>0, MovedCallKeeps
    <3> HIDE DEF u
    <3>2. Update(c, u)
      BY <2>2 DEF u
    <3>3. QED BY <1>0, <3>1, <3>2, UpdateEffect
  <2>3. QED BY <2>1, <2>2 DEF Move, MovedCall
<1>5. TxInv(c)'
  BY <1>0, <1>4 DEF TxInv, Admitted, RenameAdmitted, WriteAdmitted, db, OpenPcs, NoRow, NoFile
<1>6. DescribeOf(c)'
  <2>1. DescribeOf(c) /\ ~Writing(c)
    BY <1>0, OthersClosed, SoleDescribes DEF DocInv, Writing
  <2>2. ~Writing(c)' /\ job'[c].pc # "replace"
    BY <1>2, <1>4 DEF Writing
  <2>3. QED BY <1>0, <1>3, <2>1, <2>2
           DEF DescribeOf, Describes, db, NoRow, NoFile, RuntimeContents
<1>7. job'[c].pc \in OpenPcs
  BY <1>4 DEF OpenPcs
<1> QED BY <1>0, <1>1, <1>3, <1>4, <1>5, <1>6, <1>7, OpenStep

\* The compensation: what it restores is described, or the history is broken.
LEMMA UndoStep ==
    ASSUME DocInv, NEW c \in Callers, Undo(c)
    PROVE  DocInv'
<1>0. /\ TypeOK /\ job \in [Callers -> Jobs] /\ job[c].pc = "undo" /\ job[c].pc \in OpenPcs
      /\ job[c].path \in Paths /\ job[c].from \in Paths /\ job[c].previous \in Contents
      /\ job[c].done \in BOOLEAN /\ TxInv(c) /\ DescribeOf(c) /\ rows[active] = NoRow
      /\ UNCHANGED <<db, issued, saves>> /\ holder' = None /\ Return(c)
      /\ files \in [Paths -> Contents] /\ broken \in BOOLEAN
  <2>1. TypeOK /\ job[c].pc = "undo" /\ job[c].pc \in OpenPcs
    BY DEF DocInv, Undo, At, OpenPcs
  <2>2. DescribeOf(c) /\ rows[active] = NoRow
    BY <2>1, OthersClosed, SoleDescribes DEF DocInv
  <2>3. QED BY <2>1, <2>2 DEF DocInv, TypeOK, Undo, Jobs
<1>1. faults' \in 0..MaxFaults
  BY <1>0, FaultCounted DEF Undo, TypeOK
<1>2. Idle.pc = "idle" /\ Idle.version = 0
  BY DEF Idle
<1>3. job' \in [Callers -> Jobs] /\ job'[c] = Idle /\ \A d \in Callers \ {c} : job'[d] = job[d]
  BY <1>0, ReturnEffect
<1>4. TxInv(c)'
  BY <1>2, <1>3 DEF TxInv, OpenPcs
<1>5. /\ files' \in [Paths -> Contents] /\ broken' \in BOOLEAN
      /\ ~broken' => ~broken /\ \A p \in Paths : Describes(files'[p], p)
  <2>1. CASE job[c].op = "rename" /\ UndoRename(job[c])
    <3>1. rows[job[c].path] = NoRow /\ rows[job[c].from] = NoRow
      BY <1>0, <2>1 DEF TxInv, Admitted, RenameAdmitted
    <3>2. ~broken => \A p \in Paths : Describes(files[p], p)
      BY <1>0, <2>1 DEF DescribeOf, Writing
    <3>3. /\ files' \in [Paths -> Contents] /\ broken' \in BOOLEAN /\ (broken => broken')
          /\ \A p \in Paths : rows[p] # NoRow => files'[p] = files[p]
      BY <1>0, <2>1, <3>1, Constants DEF UndoRename, Moved
    <3>4. QED BY <3>2, <3>3 DEF Describes
  <2>2. CASE job[c].op # "rename" /\ UndoWrite(job[c])
    <3>1. ~broken => /\ job[c].done /\ Describes(job[c].previous, job[c].path)
                     /\ \A p \in Paths : p # job[c].path => Describes(files[p], p)
      BY <1>0, <2>2 DEF DescribeOf, Writing
    <3>2. /\ files' \in [Paths -> Contents] /\ broken' = broken
          /\ \A p \in Paths : p # job[c].path => files'[p] = files[p]
          /\ job[c].done => files'[job[c].path] = job[c].previous
      BY <1>0, <2>2 DEF UndoWrite
    <3>3. QED BY <1>0, <3>1, <3>2
  <2>3. CASE broken' = TRUE /\ UNCHANGED files
    BY <1>0, <2>3
  <2>4. QED BY <2>1, <2>2, <2>3 DEF Undo
<1>6. DescribeOf(c)'
  <2>1. ~Writing(c)' /\ job'[c].pc # "replace"
    BY <1>2, <1>3 DEF Writing
  <2>2. QED BY <1>0, <1>5, <2>1 DEF DescribeOf, Describes, db, NoRow, NoFile, RuntimeContents
<1>7. job'[c].pc \notin OpenPcs /\ job'[c].version = 0
  BY <1>2, <1>3 DEF OpenPcs
<1> QED BY <1>0, <1>1, <1>3, <1>4, <1>5, <1>6, <1>7, OpenStep

\* The rows and the count of successors after a committed write: its version moves
\* from the call to the row, the expected one from the row to replaced.
LEMMA CommittedVersions ==
    ASSUME DocInv, TypeOK', NEW c \in Callers, job[c].pc \in OpenPcs, job[c].op # "rename",
           TxInv(c), CommitWrite(job[c]), issued' = issued, job'[c].version = 0,
           \A d \in Callers \ {c} : job'[d] = job[d]
    PROVE  VersionInv'
<1> DEFINE p0 == job[c].path
           e == job[c].expected
           n == job[c].version
<1>1. /\ issued \in Nat /\ MaxOps \in Nat /\ p0 \in Paths /\ n \in 0..MaxOps /\ e \in 0..MaxOps
      /\ \A p \in Paths : rows[p].version \in 0..MaxOps
      /\ \A d \in Callers : job[d].version \in 0..MaxOps
      /\ \A v \in Versions : replaced[v] \in Nat
      /\ \A v \in 0..MaxOps : v # 0 => v \in Versions
      /\ \A v \in Versions : v # 0
  <2>1. /\ issued \in Nat /\ MaxOps \in Nat /\ \A v \in Versions : replaced[v] \in Nat
        /\ p0 \in Paths /\ n \in 0..MaxOps /\ e \in 0..MaxOps
    BY BoundsAssumption DEF DocInv, TypeOK, Jobs
  <2>2. /\ \A p \in Paths : rows[p].version \in 0..MaxOps
        /\ \A d \in Callers : job[d].version \in 0..MaxOps
    BY DEF DocInv, TypeOK, Jobs
  <2>3. /\ \A v \in 0..MaxOps : v # 0 => v \in Versions
        /\ \A v \in Versions : v # 0
    BY <2>1 DEF Versions
  <2>4. QED BY <2>1, <2>2, <2>3
<1>2. rows[p0].version = e
  BY DEF TxInv, Admitted, WriteAdmitted
<1>3. /\ rows'[p0].version = n
      /\ \A p \in Paths : p # p0 => rows'[p] = rows[p]
      /\ \A v \in Versions : /\ v # e => replaced'[v] = replaced[v]
                             /\ v = e => replaced'[v] = replaced[v] + 1
  BY <1>1 DEF CommitWrite, DocInv, TypeOK
<1>4. \A d \in Callers : d # c => job'[d].version = job[d].version
  OBVIOUS
<1>5. VersionInv
  BY DEF DocInv
<1> HIDE DEF p0, e, n
<1>50. n = job[c].version
  BY DEF n
<1>6. \A p \in Paths : rows'[p].version <= issued'
  BY <1>1, <1>3, <1>5, <1>50 DEF VersionInv
<1>7. \A p, q \in Paths : rows'[p].version = rows'[q].version /\ rows'[p].version # 0 => p = q
  BY <1>1, <1>3, <1>5, <1>50 DEF VersionInv
<1>8. \A p \in Paths : rows'[p].version # 0 => replaced'[rows'[p].version] = 0
  <2> SUFFICES ASSUME NEW p \in Paths, rows'[p].version # 0
               PROVE  replaced'[rows'[p].version] = 0
    OBVIOUS
  <2>1. CASE p = p0
    <3>1. n # 0 /\ n # e /\ replaced[n] = 0
      BY <1>1, <1>2, <1>3, <1>5, <1>50, <2>1 DEF VersionInv
    <3>2. QED BY <1>1, <1>3, <2>1, <3>1
  <2>2. CASE p # p0
    <3>1. rows[p].version # 0 /\ rows[p].version # e /\ replaced[rows[p].version] = 0
      BY <1>1, <1>2, <1>3, <1>5, <2>2 DEF VersionInv
    <3>2. QED BY <1>1, <1>3, <2>2, <3>1
  <2>3. QED BY <2>1, <2>2
<1>9. \A d \in Callers : job'[d].version <= issued'
  BY <1>1, <1>4, <1>5 DEF VersionInv
<1>10. \A d \in Callers : job'[d].version # 0 =>
          /\ \A x \in Callers : job'[x].version = job'[d].version => x = d
          /\ \A p \in Paths : rows'[p].version # job'[d].version
          /\ replaced'[job'[d].version] = 0
  <2> SUFFICES ASSUME NEW d \in Callers, job'[d].version # 0
               PROVE  /\ \A x \in Callers : job'[x].version = job'[d].version => x = d
                      /\ \A p \in Paths : rows'[p].version # job'[d].version
                      /\ replaced'[job'[d].version] = 0
    OBVIOUS
  <2>1. d # c /\ job'[d].version = job[d].version /\ job[d].version # 0
    BY <1>4
  <2>2. /\ \A x \in Callers : job[x].version = job[d].version => x = d
        /\ \A p \in Paths : rows[p].version # job[d].version
        /\ replaced[job[d].version] = 0
    BY <1>5, <2>1 DEF VersionInv
  <2>3. \A x \in Callers : job'[x].version = job'[d].version => x = d
    BY <1>4, <2>1, <2>2
  <2>4. \A p \in Paths : rows'[p].version # job'[d].version
    BY <1>3, <1>50, <2>1, <2>2
  <2>5. job[d].version # e /\ job[d].version \in Versions
    BY <1>1, <1>2, <2>1, <2>2
  <2>6. QED BY <1>3, <2>1, <2>2, <2>3, <2>4, <2>5
<1>11. \A v \in Versions : (v > issued' => replaced'[v] = 0) /\ replaced'[v] <= 1
  <2> SUFFICES ASSUME NEW v \in Versions
               PROVE  (v > issued' => replaced'[v] = 0) /\ replaced'[v] <= 1
    OBVIOUS
  <2>1. v \in Nat
    BY DEF Versions
  <2>2. CASE v = e
    <3>1. replaced[v] = 0 /\ v <= issued
      BY <1>1, <1>2, <1>5, <2>2 DEF VersionInv
    <3>2. QED BY <1>1, <1>3, <2>1, <2>2, <3>1
  <2>3. CASE v # e
    BY <1>1, <1>3, <1>5, <2>1, <2>3 DEF VersionInv, OneSuccessor
  <2>4. QED BY <2>2, <2>3
<1> QED BY <1>6, <1>7, <1>8, <1>9, <1>10, <1>11 DEF VersionInv, OneSuccessor, Versions

\* The commit, or its failure.
LEMMA CommitStep ==
    ASSUME DocInv, NEW c \in Callers, Commit(c)
    PROVE  DocInv'
<1>0. /\ TypeOK /\ job \in [Callers -> Jobs] /\ job[c].pc = "commit" /\ job[c].pc \in OpenPcs
      /\ job[c].path \in Paths /\ job[c].from \in Paths /\ job[c].data \in Contents
      /\ job[c].version \in 0..MaxOps
      /\ holder = c /\ TxInv(c) /\ DescribeOf(c) /\ rows[active] = NoRow
      /\ UNCHANGED <<files, issued, saves, broken>>
      /\ rows \in [Paths -> Rows] /\ active \in Paths /\ replaced \in [Versions -> Nat]
      /\ files \in [Paths -> Contents] /\ broken \in BOOLEAN
      /\ \A d \in Callers \ {c} : job[d].pc \notin OpenPcs
  <2>1. TypeOK /\ job[c].pc = "commit" /\ job[c].pc \in OpenPcs
    BY DEF DocInv, Commit, At, OpenPcs
  <2>2. \A d \in Callers \ {c} : job[d].pc \notin OpenPcs
    BY <2>1, OthersClosed DEF DocInv
  <2>3. DescribeOf(c) /\ rows[active] = NoRow
    BY <2>1, <2>2, SoleDescribes DEF DocInv
  <2>4. QED BY <2>1, <2>2, <2>3 DEF DocInv, TypeOK, Commit, Jobs, Rows, OpenPcs
<1>1. faults' \in 0..MaxFaults
  BY <1>0, FaultCounted DEF Commit, TypeOK
<1>2. CASE Goto(c, "undo") /\ UNCHANGED <<db, holder>>
  <2>1. /\ job' \in [Callers -> Jobs] /\ job'[c].pc = "undo"
        /\ job'[c].op = job[c].op /\ job'[c].path = job[c].path /\ job'[c].from = job[c].from
        /\ job'[c].version = job[c].version /\ job'[c].expected = job[c].expected
        /\ job'[c].previous = job[c].previous /\ job'[c].done = job[c].done
        /\ \A d \in Callers \ {c} : job'[d] = job[d]
    <3>1. "undo" \in Labels
      BY DEF Labels, OpenPcs
    <3>2. QED BY <1>0, <1>2, <3>1, GotoEffect
  <2>2. TxInv(c)'
    BY <1>0, <1>2, <2>1
       DEF TxInv, Admitted, RenameAdmitted, WriteAdmitted, db, OpenPcs, NoRow, NoFile
  <2>3. DescribeOf(c)'
    BY <1>0, <1>2, <2>1
       DEF DescribeOf, Describes, Writing, db, NoRow, NoFile, RuntimeContents
  <2>4. job'[c].pc \in OpenPcs
    BY <2>1 DEF OpenPcs
  <2>5. UNCHANGED <<db, issued, saves>> /\ holder' = c /\ files' \in [Paths -> Contents] /\ broken' \in BOOLEAN
    BY <1>0, <1>2
  <2>6. QED BY <1>0, <1>1, <2>1, <2>2, <2>3, <2>4, <2>5, OpenStep
<1>3. ASSUME holder' = None, Return(c),
             rows' \in [Paths -> Rows], active' \in Paths, replaced' \in [Versions -> Nat],
             TypeOK' => VersionInv', rows'[active'] = NoRow,
             ~broken => \A p \in Paths : Describes(files[p], p)'
      PROVE  DocInv'
  <2>1. Idle.pc = "idle"
    BY DEF Idle
  <2>2. job' \in [Callers -> Jobs] /\ job'[c] = Idle /\ \A d \in Callers \ {c} : job'[d] = job[d]
    BY <1>0, <1>3, ReturnEffect
  <2>3. \A d \in Callers : job'[d].pc \notin OpenPcs
    BY <1>0, <2>1, <2>2 DEF OpenPcs
  <2>4. UNCHANGED <<issued, saves>> /\ files' \in [Paths -> Contents] /\ broken' \in BOOLEAN
    BY <1>0
  <2>5. TypeOK'
    BY <1>0, <1>1, <1>3, <2>2, <2>3, <2>4, TypeKept
  <2>6. \A d \in Callers : TxInv(d)'
    BY <2>3 DEF TxInv, OpenPcs
  <2>7. DescribeInv'
    <3>1. ~Writing(c)' /\ job'[c].pc # "replace"
      BY <2>1, <2>2 DEF Writing
    <3>2. DescribeOf(c)'
      BY <1>0, <1>3, <3>1 DEF DescribeOf
    <3>3. (rows[active] = NoRow)'
      BY <1>3 DEF NoRow, NoFile
    <3>4. QED BY <2>3, <3>2, <3>3, SoleDescribed
  <2>8. QED BY <1>3, <2>5, <2>6, <2>7 DEF DocInv
<1>4. CASE job[c].op = "rename" /\ CommitRename(job[c]) /\ holder' = None /\ Return(c)
  <2>1. rows[job[c].path] = NoRow /\ rows[job[c].from] = NoRow
    BY <1>0, <1>4 DEF TxInv, Admitted, RenameAdmitted
  <2>2. /\ rows' \in [Paths -> Rows] /\ active' \in Paths /\ replaced' \in [Versions -> Nat]
        /\ \A p \in Paths : rows'[p] = rows[p]
        /\ rows'[active'] = NoRow /\ replaced' = replaced
    BY <1>0, <1>4, <2>1, Constants DEF CommitRename
  <2>3. rows' = rows
    BY <1>0, <2>2
  <2>4. TypeOK' => VersionInv'
    <3>1. Idle.version = 0
      BY DEF Idle
    <3>2. QED BY <1>0, <1>4, <2>2, <2>3, <3>1, ReturnEffect, VersionsKept DEF DocInv
  <2>5. ~broken => \A p \in Paths : Describes(files[p], p)'
    BY <1>0, <1>4, <2>3 DEF DescribeOf, Writing, Describes, NoRow, NoFile, RuntimeContents
  <2>6. QED BY <1>3, <1>4, <2>2, <2>4, <2>5
<1>5. CASE job[c].op # "rename" /\ CommitWrite(job[c]) /\ holder' = None /\ Return(c)
  <2> DEFINE r == [version |-> job[c].version, hash |-> job[c].data]
  <2>1. r \in Rows /\ r.hash = job[c].data
    BY <1>0 DEF Rows
  <2>2. job[c].path # active
    BY <1>0, <1>5 DEF TxInv, Admitted, WriteAdmitted
  <2>3. rows' = [rows EXCEPT ![job[c].path] = r] /\ active' = active
    BY <1>5 DEF CommitWrite
  <2>4. replaced' \in [Versions -> Nat]
    BY <1>0, <1>5 DEF CommitWrite
  <2> HIDE DEF r
  <2>5. /\ rows' \in [Paths -> Rows] /\ rows'[job[c].path] = r
        /\ \A p \in Paths : p # job[c].path => rows'[p] = rows[p]
        /\ rows'[active'] = NoRow
    BY <1>0, <2>1, <2>2, <2>3
  <2>6. TypeOK' => VersionInv'
    <3>1. Idle.version = 0
      BY DEF Idle
    <3>2. QED BY <1>0, <1>5, <3>1, ReturnEffect, CommittedVersions
  <2>7. ~broken => \A p \in Paths : Describes(files[p], p)'
    <3>1. ~broken => /\ files[job[c].path] \in {job[c].data} \cup RuntimeContents
                     /\ \A p \in Paths : p # job[c].path => Describes(files[p], p)
      BY <1>0, <1>5 DEF DescribeOf, Writing
    <3>2. QED BY <1>0, <2>1, <2>5, <3>1 DEF Describes, NoRow, NoFile, RuntimeContents
  <2>8. QED BY <1>0, <1>3, <1>5, <2>3, <2>4, <2>5, <2>6, <2>7
<1> QED BY <1>2, <1>4, <1>5 DEF Commit

-----------------------------------------------------------------------------
(* The environment *)

\* A crash after the file may have changed breaks the history; before that, its
\* path is described.
LEMMA CrashStep ==
    ASSUME DocInv, NEW c \in Callers, Crash(c)
    PROVE  DocInv'
<1>0. /\ TypeOK /\ job \in [Callers -> Jobs] /\ broken \in BOOLEAN
      /\ UNCHANGED <<files, rows, active, replaced, issued, saves>>
      /\ holder' = IF holder = c THEN None ELSE holder
      /\ broken' = (broken \/ job[c].pc \in {"commit", "undo"})
      /\ Return(c) /\ Fails("crash")
  BY DEF DocInv, TypeOK, Crash, db
<1>1. Idle.pc = "idle" /\ Idle.version = 0
  BY DEF Idle
<1>2. /\ job' \in [Callers -> Jobs] /\ job'[c].pc = "idle" /\ job'[c].version = 0
      /\ \A d \in Callers \ {c} : job'[d] = job[d]
  BY <1>0, <1>1, ReturnEffect
<1>3. TypeOK'
  <2>1. faults' \in 0..MaxFaults
    BY <1>0, FaultCounted
  <2>2. broken' \in BOOLEAN
    BY <1>0
  <2>3. holder' \in Callers \cup {None} /\ \A d \in Callers : holder' = d <=> job'[d].pc \in OpenPcs
    BY <1>0, <1>2, NamesAssumption DEF TypeOK, OpenPcs
  <2>4. QED BY <1>0, <1>2, <2>1, <2>2, <2>3 DEF TypeOK, OpenPcs, Versions, Contents
<1>4. VersionInv'
  BY <1>0, <1>2, <1>3, VersionsKept DEF DocInv
<1>5. \A d \in Callers : TxInv(d)'
  <2> SUFFICES ASSUME NEW d \in Callers PROVE TxInv(d)'
    OBVIOUS
  <2>1. CASE d = c
    BY <1>2, <2>1 DEF TxInv, OpenPcs
  <2>2. CASE d # c
    BY <1>0, <1>2, <2>2 DEF DocInv, TxInv, Admitted, RenameAdmitted, WriteAdmitted, NoRow, NoFile
  <2>3. QED BY <2>1, <2>2
<1>6. DescribeInv'
  <2>1. (rows[active] = NoRow)'
    BY <1>0 DEF DocInv, DescribeInv, NoRow, NoFile
  <2>2. CASE broken'
    BY <2>1, <2>2 DEF DescribeInv
  <2>3. CASE ~broken'
    <3>1. ~broken /\ ~Writing(c)
      BY <1>0, <2>3 DEF Writing
    <3>2. \A d \in Callers : /\ Writing(d)' <=> Writing(d)
                             /\ Writing(d)' \/ job'[d].pc = "replace" => job'[d] = job[d]
                             /\ Writing(d) => job'[d] = job[d]
      BY <1>2, <3>1 DEF Writing
    <3>3. QED BY <1>0, <2>1, <3>1, <3>2
             DEF DocInv, DescribeInv, Describes, NoRow, NoFile, RuntimeContents
  <2>4. QED BY <2>2, <2>3
<1> QED BY <1>3, <1>4, <1>5, <1>6 DEF DocInv

\* A save by the runtime is what every row allows.
LEMMA RuntimeSaveStep ==
    ASSUME DocInv, NEW q \in Paths, RuntimeSave(q)
    PROVE  DocInv'
<1> DEFINE x == [id |-> MaxOps + saves + 1, outputs |-> TRUE]
<1>0. /\ TypeOK /\ files \in [Paths -> Contents] /\ saves \in Nat /\ saves < MaxSaves
      /\ UNCHANGED <<rows, active, replaced, holder, job, issued, faults, broken>>
      /\ files' = [files EXCEPT ![q] = x] /\ saves' = saves + 1
  BY DEF DocInv, TypeOK, RuntimeSave, db
<1>1. x \in Contents /\ x \in RuntimeContents
  BY <1>0, Constants
<1> HIDE DEF x
<1>2. /\ files' \in [Paths -> Contents] /\ files'[q] = x
      /\ \A p \in Paths : p # q => files'[p] = files[p]
  BY <1>0, <1>1
<1>3. TypeOK'
  <2>1. saves' \in 0..MaxSaves
    BY <1>0, BoundsAssumption
  <2>2. QED BY <1>0, <1>2, <2>1 DEF TypeOK, Versions, Contents
<1>4. VersionInv' /\ \A d \in Callers : TxInv(d)'
  BY <1>0 DEF DocInv, VersionInv, OneSuccessor, TxInv, Admitted, RenameAdmitted, WriteAdmitted,
              NoRow, NoFile, Versions
<1>5. DescribeInv'
  <2>1. /\ rows[active] = NoRow /\ \A d \in Callers : Writing(d)' <=> Writing(d)
    BY <1>0 DEF DocInv, DescribeInv, Writing
  <2>2. \A d \in Callers : job[d].path \in Paths
    BY <1>0 DEF TypeOK, Jobs
  <2>3. \A p \in Paths : files'[p] = files[p] \/ files'[p] \in RuntimeContents
    BY <1>1, <1>2
  <2>4. \A p \in Paths : Describes(files[p], p) => Describes(files[p], p)'
    BY <1>0, <2>3 DEF Describes, NoRow, NoFile, RuntimeContents
  <2>5. QED BY <1>0, <2>1, <2>2, <2>3, <2>4
           DEF DocInv, DescribeInv, Describes, NoRow, NoFile, RuntimeContents
<1> QED BY <1>3, <1>4, <1>5 DEF DocInv

\* Every step keeps the invariant.
LEMMA DocInvStep == DocInv /\ [Next]_vars => DocInv'
<1> SUFFICES ASSUME DocInv, [Next]_vars PROVE DocInv'
  OBVIOUS
<1>1. CASE UNCHANGED vars
  BY <1>1 DEF vars, db, DocInv, TypeOK, VersionInv, OneSuccessor, TxInv, Admitted,
              RenameAdmitted, WriteAdmitted, DescribeInv, Describes, Writing, Versions, Contents,
              RuntimeContents, NoRow, NoFile
<1>2. CASE \E p \in Paths : RuntimeSave(p)
  BY <1>2, RuntimeSaveStep
<1>3. ASSUME NEW c \in Callers,
             \/ \E p \in Paths, v \in 0..issued, ow \in BOOLEAN : StartWrite(c, p, v, ow)
             \/ \E from, p \in Paths, o, ow \in BOOLEAN : StartCopy(c, from, p, o, ow)
             \/ \E p \in Paths : StartRename(c, p)
             \/ CopyRead(c) \/ CopyVersion(c) \/ GuardBusy(c)
      PROVE  DocInv'
  BY <1>3, OutsideSteps
<1>4. ASSUME NEW c \in Callers,
             Guard(c) \/ ReadPrevious(c) \/ Replace(c) \/ Move(c) \/ Commit(c) \/ Undo(c) \/ Crash(c)
      PROVE  DocInv'
  BY <1>4, GuardStep, ReadPreviousStep, ReplaceStep, MoveStep, CommitStep, UndoStep, CrashStep
<1> QED BY <1>1, <1>2, <1>3, <1>4 DEF Next

-----------------------------------------------------------------------------
(* The theorems *)

\* The invariant holds in every reachable state.
LEMMA DocInvariant == Spec => []DocInv
BY InitDocs, DocInvStep, PTL DEF Spec

\* The state has its shape, and a transaction is open exactly while its caller is
\* between the guard and the commit or the rollback: no path of document_write_guard
\* or active_notebook_rename_guard leaves the database locked.
THEOREM TypeCorrect == Spec => []TypeOK
BY DocInvariant, PTL DEF DocInv

\* A version is replaced by at most one committed write (document_write_guard).
THEOREM NoLostUpdate == Spec => []OneSuccessor
<1>1. DocInv => OneSuccessor
  BY DEF DocInv, VersionInv
<1> QED BY <1>1, DocInvariant, PTL

\* The row of every document outside an open transaction describes its file
\* (_write_workspace_document, rename_active_notebook and their compensations).
THEOREM RowsAreTrue == Spec => []RowsDescribeFiles
<1>1. DocInv => RowsDescribeFiles
  <2> SUFFICES ASSUME DocInv, ~broken, NEW p \in Paths \ InFlight PROVE Describes(files[p], p)
    BY DEF RowsDescribeFiles, Describes
  <2>1. \A c \in Callers : Writing(c) => job[c].path # p
    <3> SUFFICES ASSUME NEW c \in Callers, Writing(c) PROVE job[c].path # p
      OBVIOUS
    <3>1. holder = c
      BY OneOpen DEF Writing, OpenPcs, DocInv
    <3>2. QED BY <3>1, NamesAssumption DEF InFlight
  <2>2. QED BY <2>1 DEF DocInv, DescribeInv
<1> QED BY <1>1, DocInvariant, PTL

\* A generic write or copy that ends its write leaves the active notebook alone,
\* whatever was renamed since it checked its destination (document_write_guard).
THEOREM WritesSpareActive == Spec => GenericWritesSpareActive
<1>1. DocInv /\ [Next]_vars =>
        [\A c \in Callers : (At(c, "replace") /\ job'[c].pc # "replace")
                               => files'[active] = files[active]]_vars
  <2> SUFFICES ASSUME DocInv, Next, NEW c \in Callers, job[c].pc = "replace", job'[c].pc # "replace"
               PROVE  files'[active] = files[active]
    BY DEF At
  <2>1. job[c].path # active /\ files \in [Paths -> Contents] /\ job[c].path \in Paths /\ active \in Paths
    BY DEF DocInv, TypeOK, TxInv, Admitted, WriteAdmitted, OpenPcs, Jobs
  <2>2. CASE \E p \in Paths : RuntimeSave(p)
    BY <2>2 DEF RuntimeSave
  <2>3. CASE Replace(c)
    BY <2>1, <2>3 DEF Replace
  <2>4. ASSUME NEW d \in Callers, d # c
        PROVE  /\ ~Replace(d) /\ ~Move(d) /\ ~Undo(d)
    BY <2>4, OneOpen DEF DocInv, Replace, Move, Undo, At, OpenPcs
  <2>5. ~Move(c) /\ ~Undo(c)
    BY DEF Move, Undo, At
  <2>6. ASSUME NEW d \in Callers,
               \/ \E p \in Paths, v \in 0..issued, ow \in BOOLEAN : StartWrite(d, p, v, ow)
               \/ \E from, p \in Paths, o, ow \in BOOLEAN : StartCopy(d, from, p, o, ow)
               \/ \E p \in Paths : StartRename(d, p)
               \/ CopyRead(d) \/ CopyVersion(d) \/ Guard(d) \/ GuardBusy(d)
               \/ ReadPrevious(d) \/ Commit(d) \/ Crash(d)
        PROVE  files' = files
    BY <2>6 DEF StartWrite, StartCopy, StartRename, CopyRead, CopyVersion, Guard, GuardBusy,
                ReadPrevious, Commit, Crash
  <2>7. QED BY <2>2, <2>3, <2>4, <2>5, <2>6 DEF Next
<1> QED BY <1>1, DocInvariant, PTL DEF Spec, GenericWritesSpareActive

=============================================================================
