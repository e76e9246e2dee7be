----------------------- MODULE ExecutionBrokerProofs ------------------------
(***************************************************************************)
(* Proofs about ExecutionBroker, for any number of operations and callers. *)
(*                                                                         *)
(* OneOutstanding is almost inductive: it needs to know that a thread on   *)
(* its way to finish an operation carries an outcome (ThreadInv).  The     *)
(* order of dispatch needs the queue: every operation that is queued is in *)
(* it, in the order of its number, also between next_queued, which drops   *)
(* from the head, and the dispatch (QueueInv); and an operation that was   *)
(* not enqueued yet has no record (RecordInv, EnqueueInv).                 *)
(***************************************************************************)
EXTENDS ExecutionBroker, SequenceTheorems, WellFoundedInduction, TLAPS

-----------------------------------------------------------------------------
(* Messages and least elements *)

\* The least element that next_queued and invalidate_session pick exists.
LEMMA MinIsLeast ==
    ASSUME NEW S \in SUBSET Nat, S # {}
    PROVE  Min(S) \in S /\ \A y \in S : Min(S) <= y
<1> DEFINE R == {ss \in Nat \X Nat : ss[1] < ss[2]}
<1>1. IsWellFoundedOn(R, Nat)
  BY NatLessThanWellFounded DEF OpToRel
<1>2. \A x, y \in Nat : ~(<<y, x>> \in R) => x <= y
  OBVIOUS
<1> HIDE DEF R
<1>3. \E x \in S : \A y \in S : ~(<<y, x>> \in R)
  BY <1>1, WFMin
<1>4. \E x \in S : \A y \in S : x <= y
  BY <1>2, <1>3
<1> QED BY <1>4 DEF Min

Requests == Ops \X (1..MaxSends)   \* the messages sent for operations
Args     == Msgs \cup (Ops \X {0})

\* The messages of operations and of the browser, and no message, are told apart.
LEMMA Messages ==
    /\ NoMsg \in Msgs /\ NoMsg \in Args
    /\ \A m \in Requests : m \in Msgs /\ m \in Args /\ m[1] \in Ops /\ m # NoMsg
    /\ \A o \in Ops : <<o, 0>> \in Args /\ <<o, 0>>[1] = o
    /\ \A o \in Ops : \A k \in 1..MaxSends : <<o, k>> \in Requests /\ <<o, k>>[1] = o
    /\ \A k \in 0..MaxBrowser : <<0, k>> \in Msgs
<1>1. NoMsg \in Msgs
  BY BoundsAssumption DEF NoMsg, Msgs
<1>2. \A m \in Requests : m \in Msgs /\ m \in Args /\ m[1] \in Ops /\ m # NoMsg
  BY BoundsAssumption DEF Requests, Msgs, Args, NoMsg, Ops
<1>3. \A o \in Ops : <<o, 0>> \in Args /\ <<o, 0>>[1] = o
  BY DEF Args
<1>4. \A o \in Ops : \A k \in 1..MaxSends : <<o, k>> \in Requests /\ <<o, k>>[1] = o
  BY DEF Requests
<1>5. \A k \in 0..MaxBrowser : <<0, k>> \in Msgs
  BY DEF Msgs
<1> QED BY <1>1, <1>2, <1>3, <1>4, <1>5 DEF Args

-----------------------------------------------------------------------------
(* The inductive invariant *)

Labels  == {"idle", "send", "record", "mark", "interrupt", "wait", "finish", "invalidate"}
Wishes  == {"none", "cancelled", "timeout"}
Reports == [kind : {"busy", "idle"}, of : Msgs]

\* The four groups of variables.
RecordType ==
    /\ state \in [Ops -> States]
    /\ msg \in [Ops -> Msgs] /\ parent \in [Ops -> Msgs]
    /\ wanted \in [Ops -> Wishes]
QueueType ==
    queue \in Seq(Ops) /\ active \in Ops \cup {NoOp} /\ busyParent \in Msgs
KernelType ==
    /\ sent \in [Ops -> 0..MaxSends] /\ browser \in 0..MaxBrowser
    /\ kq \in Seq(Msgs) /\ kernel \in Msgs
    /\ status \in Seq(Reports) /\ replies \subseteq Msgs
ThreadType ==
    /\ pc \in [Threads -> Labels] /\ arg \in [Threads -> Args]
    /\ left \in SUBSET Ops /\ out \in [Threads -> Wishes]
Typed == RecordType /\ QueueType /\ KernelType /\ ThreadType

\* The four groups of types are TypeOK.
LEMMA TypesAgree == Typed <=> TypeOK
BY DEF Typed, TypeOK, RecordType, QueueType, KernelType, ThreadType, Labels, Wishes, Reports, Args

\* A record that is not there was never dispatched; a pending cancellation knows
\* what was asked for.
RecordInv ==
    \A o \in Ops : /\ state[o] = "absent" => msg[o] = NoMsg
                   /\ state[o] = "cancel_pending" => wanted[o] # "none"

\* Operations are enqueued in the order of their numbers.
EnqueueInv == \A o, p \in Ops : o < p /\ state[p] # "absent" => state[o] # "absent"

\* The queue is in order, and what is queued is in it.
QueueInv ==
    /\ \A i, j \in 1..Len(queue) : i < j => queue[i] < queue[j]
    /\ \A i \in 1..Len(queue) : state[queue[i]] # "absent"
    /\ \A o \in Ops : state[o] = "queued" => \E i \in 1..Len(queue) : queue[i] = o

\* What a thread knows of the operation it is about.
ThreadInv(t) ==
    /\ pc[t] = "send" => OpOf(t) \in Ops
    /\ pc[t] = "record" => arg[t] \in Requests
    /\ pc[t] = "mark" => OpOf(t) \in Ops /\ wanted[OpOf(t)] # "none" /\ state[OpOf(t)] # "absent"
    /\ pc[t] \in {"interrupt", "wait", "finish"} =>
          OpOf(t) \in Ops /\ out[t] # "none" /\ state[OpOf(t)] # "absent"
    /\ pc[t] = "invalidate" => left # {}

\* One thread invalidates at a time, and only operations that were enqueued.
LeftInv ==
    /\ \A t, u \in Threads : pc[t] = "invalidate" /\ pc[u] = "invalidate" => t = u
    /\ \A o \in left : state[o] # "absent"

BrokerInv ==
    /\ Typed /\ RecordInv /\ EnqueueInv /\ QueueInv /\ LeftInv
    /\ \A t \in Threads : ThreadInv(t)
    /\ OneOutstanding /\ DispatchInOrder

\* An empty broker satisfies the invariant.
LEMMA InitBroker == Init => BrokerInv
<1> SUFFICES ASSUME Init PROVE BrokerInv
  OBVIOUS
<1>1. Typed
  <2>1. 0 \in 0..MaxSends /\ 0 \in 0..MaxBrowser
    BY BoundsAssumption
  <2>2. RecordType
    BY Messages DEF Init, RecordType, States, Wishes
  <2>3. queue \in Seq(Ops) /\ kq \in Seq(Msgs) /\ status \in Seq(Reports)
    BY EmptySeq DEF Init
  <2>4. KernelType
    BY <2>1, <2>3, Messages DEF Init, KernelType
  <2>5. ThreadType
    BY Messages DEF Init, ThreadType, Labels, Wishes
  <2>6. QED BY <2>2, <2>3, <2>4, <2>5, Messages DEF Init, Typed, QueueType
<1>2. RecordInv /\ EnqueueInv
  BY DEF Init, RecordInv, EnqueueInv
<1>3. QueueInv
  <2>1. Len(queue) = 0 /\ \A o \in Ops : state[o] = "absent"
    BY DEF Init
  <2>2. QED BY <2>1 DEF QueueInv
<1>4. LeftInv /\ \A t \in Threads : ThreadInv(t)
  BY DEF Init, LeftInv, ThreadInv
<1>5. OneOutstanding /\ DispatchInOrder
  BY DEF Init, OneOutstanding, DispatchInOrder, Outstanding
<1> QED BY <1>1, <1>2, <1>3, <1>4, <1>5 DEF BrokerInv

-----------------------------------------------------------------------------
(* What a step of a broker method keeps *)

\* No record appears or goes back to the queue, and no wish is forgotten.
Progress ==
    \A o \in Ops : /\ state'[o] = "absent" <=> state[o] = "absent"
                   /\ state'[o] = "queued" => state[o] = "queued"
                   /\ wanted[o] # "none" => wanted'[o] # "none"

\* Records that stay as they are have progressed.
LEMMA SameRecords == UNCHANGED <<state, wanted>> => Progress
BY DEF Progress

\* A thread that moves on leaves the other threads alone.
LEMMA GotoEffect ==
    ASSUME ThreadType, NEW t \in Threads, NEW l \in Labels, NEW m \in Args, Goto(t, l, m)
    PROVE  /\ pc' \in [Threads -> Labels] /\ arg' \in [Threads -> Args]
           /\ pc'[t] = l /\ arg'[t] = m
           /\ \A u \in Threads \ {t} : pc'[u] = pc[u] /\ arg'[u] = arg[u]
BY DEF ThreadType, Goto

\* So does one that returns.
LEMMA ReturnEffect ==
    ASSUME ThreadType, NEW t \in Threads, Return(t)
    PROVE  /\ pc' \in [Threads -> Labels] /\ arg' \in [Threads -> Args] /\ pc'[t] = "idle"
           /\ \A u \in Threads \ {t} : pc'[u] = pc[u] /\ arg'[u] = arg[u]
<1>1. "idle" \in Labels /\ NoMsg \in Args
  BY Messages DEF Labels
<1> QED BY <1>1, GotoEffect DEF Return

\* A thread that does not move knows what it knew.
LEMMA ThreadKept ==
    ASSUME NEW u \in Threads, ThreadInv(u), Progress,
           pc'[u] = pc[u], arg'[u] = arg[u], out'[u] = out[u],
           pc[u] = "invalidate" => left' # {}
    PROVE  ThreadInv(u)'
BY DEF ThreadInv, Progress, OpOf

\* A thread outside every method claims nothing.
LEMMA IdleThread == ASSUME NEW u \in Threads, pc'[u] = "idle" PROVE ThreadInv(u)'
BY DEF ThreadInv

\* The queue and what was dispatched stay in order while records only progress.
LEMMA OrderKept ==
    ASSUME BrokerInv, Progress, UNCHANGED <<msg, queue>>
    PROVE  EnqueueInv' /\ QueueInv' /\ DispatchInOrder'
<1>1. EnqueueInv'
  BY DEF BrokerInv, EnqueueInv, Progress
<1>2. DispatchInOrder'
  BY DEF BrokerInv, DispatchInOrder, Progress, NoMsg
<1>3. \A i \in 1..Len(queue) : queue[i] \in Ops
  BY DEF BrokerInv, Typed, QueueType
<1>4. QueueInv'
  BY <1>3 DEF BrokerInv, QueueInv, Progress
<1> QED BY <1>1, <1>2, <1>4

\* A step of thread t that neither queues, dispatches nor invalidates.
LEMMA MethodStep ==
    ASSUME BrokerInv, Typed', NEW t \in Threads, Progress, UNCHANGED <<msg, queue, left>>,
           \A u \in Threads \ {t} : pc'[u] = pc[u] /\ arg'[u] = arg[u] /\ out'[u] = out[u],
           pc'[t] # "invalidate" \/ pc[t] = "invalidate",
           \A o \in Ops : state'[o] = "cancel_pending" => wanted'[o] # "none",
           ThreadInv(t)', OneOutstanding'
    PROVE  BrokerInv'
<1>1. EnqueueInv' /\ QueueInv' /\ DispatchInOrder'
  BY OrderKept
<1>2. RecordInv'
  BY DEF BrokerInv, RecordInv, Progress, NoMsg
<1>3. \A u \in Threads : ThreadInv(u)'
  <2> SUFFICES ASSUME NEW u \in Threads, u # t PROVE ThreadInv(u)'
    OBVIOUS
  <2>1. ThreadInv(u) /\ (pc[u] = "invalidate" => left # {})
    BY DEF BrokerInv, ThreadInv
  <2>2. QED BY <2>1, ThreadKept
<1>4. LeftInv'
  <2>1. left \subseteq Ops
    BY DEF BrokerInv, Typed, ThreadType
  <2>2. \A u \in Threads : pc'[u] = "invalidate" => pc[u] = "invalidate"
    OBVIOUS
  <2>3. QED BY <2>1, <2>2 DEF BrokerInv, LeftInv, Progress
<1> QED BY <1>1, <1>2, <1>3, <1>4 DEF BrokerInv

\* A step that changes no record and no thread: the kernel, the browser, and the
\* broker's view of the kernel.
LEMMA KernelStep ==
    ASSUME BrokerInv, KernelType', busyParent' \in Msgs,
           UNCHANGED <<recordVars, queue, active, threadVars>>
    PROVE  BrokerInv'
<1>1. UNCHANGED <<state, msg, parent, wanted, queue, active, pc, arg, out, left>>
  BY DEF recordVars, threadVars, locals
<1>2. Typed'
  BY <1>1 DEF BrokerInv, Typed, RecordType, QueueType, ThreadType, Msgs, Args, Ops, Requests
<1>3. Progress
  BY <1>1, SameRecords
<1>4. Listener \in Threads
  BY DEF Threads
<1>5. \A u \in Threads : ThreadInv(u)'
  <2> SUFFICES ASSUME NEW u \in Threads PROVE ThreadInv(u)'
    OBVIOUS
  <2>1. ThreadInv(u) /\ (pc[u] = "invalidate" => left # {})
    BY DEF BrokerInv, ThreadInv
  <2>2. QED BY <1>1, <1>3, <2>1, ThreadKept
<1>6. OneOutstanding' /\ \A o \in Ops : state'[o] = "cancel_pending" => wanted'[o] # "none"
  BY <1>1 DEF BrokerInv, OneOutstanding, RecordInv, Outstanding
<1> QED BY <1>1, <1>2, <1>3, <1>4, <1>5, <1>6, MethodStep

\* finish: whatever the state was, the operation is outstanding no longer.
LEMMA FinishEffect ==
    ASSUME BrokerInv, NEW o \in Ops, NEW outcome \in Terminal, state[o] # "absent",
           Finish(o, outcome), wanted' = wanted
    PROVE  /\ state' \in [Ops -> States] /\ active' \in Ops \cup {NoOp}
           /\ Progress /\ OneOutstanding'
           /\ \A p \in Ops : state'[p] = "cancel_pending" => wanted'[p] # "none"
<1>1. /\ state' \in [Ops -> States] /\ active' \in Ops \cup {NoOp}
      /\ state'[o] = outcome /\ \A p \in Ops : p # o => state'[p] = state[p]
  BY DEF BrokerInv, Typed, RecordType, QueueType, Finish, States
<1>2. outcome \notin Outstanding /\ outcome \notin {"absent", "queued", "cancel_pending"}
  BY DEF Terminal, Outstanding
<1>3. Progress
  BY <1>1, <1>2 DEF Progress
<1>4. \A p \in Ops : state[p] \in Outstanding <=> (p = active /\ p # NoOp)
  BY DEF BrokerInv, OneOutstanding
<1>5. \A p \in Ops : p # NoOp
  BY BoundsAssumption DEF Ops, NoOp
<1>6. active' = IF active = o THEN NoOp ELSE active
  BY DEF Finish
<1>7. OneOutstanding'
  <2>1. \A p \in Ops : state'[p] \in Outstanding <=> (p = active' /\ p # NoOp)
    BY <1>1, <1>2, <1>4, <1>5, <1>6
  <2>2. QED BY <1>1, <2>1 DEF OneOutstanding, Outstanding
<1>8. \A p \in Ops : state'[p] = "cancel_pending" => wanted'[p] # "none"
  BY <1>1, <1>2 DEF BrokerInv, RecordInv
<1> QED BY <1>1, <1>3, <1>7, <1>8

\* Records that stay outstanding or stay not.
LEMMA StillOutstanding ==
    ASSUME BrokerInv, active' = active,
           \A p \in Ops : state'[p] \in Outstanding <=> state[p] \in Outstanding
    PROVE  OneOutstanding'
<1>1. {o \in Ops : state'[o] \in Outstanding} = {o \in Ops : state[o] \in Outstanding}
  OBVIOUS
<1> QED BY <1>1 DEF BrokerInv, OneOutstanding, Outstanding, NoOp

-----------------------------------------------------------------------------
(* The kernel, the browser and what the listener hears *)

\* The request in execution ends, and each request in dropped with it.
LEMMA KernelDoneTypes ==
    ASSUME KernelType, NEW dropped \in SUBSET Msgs, KernelDone(dropped)
    PROVE  kernel' \in Msgs /\ status' \in Seq(Reports) /\ replies' \subseteq Msgs
<1> DEFINE r == [kind |-> "idle", of |-> kernel]
<1>1. r \in Reports
  BY DEF KernelType, Reports
<1>2. Append(status, r) \in Seq(Reports)
  BY <1>1, AppendProperties DEF KernelType
<1> QED BY <1>2, Messages DEF KernelDone, KernelType

\* The browser and the kernel touch no record.
LEMMA KernelSteps ==
    ASSUME BrokerInv, BrowserSubmit \/ KernelStart \/ (\E m \in Msgs : KernelFinish(m))
    PROVE  BrokerInv'
<1>0. KernelType /\ busyParent \in Msgs
  BY DEF BrokerInv, Typed, QueueType
<1>1. CASE BrowserSubmit
  <2>1. browser + 1 \in 0..MaxBrowser
    BY <1>0, <1>1, BoundsAssumption DEF KernelType, BrowserSubmit
  <2>2. Append(kq, <<0, browser + 1>>) \in Seq(Msgs)
    BY <1>0, <2>1, Messages, AppendProperties DEF KernelType
  <2>3. KernelType'
    BY <1>0, <1>1, <2>1, <2>2 DEF BrowserSubmit, KernelType, Msgs, Ops, Reports
  <2>4. QED BY <1>0, <1>1, <2>3, KernelStep DEF BrowserSubmit, brokerVars
<1>2. CASE KernelStart
  <2> DEFINE r == [kind |-> "busy", of |-> Head(kq)]
  <2>1. Head(kq) \in Msgs /\ Tail(kq) \in Seq(Msgs)
    BY <1>0, <1>2, HeadTailProperties DEF KernelType, KernelStart
  <2>2. r \in Reports
    BY <2>1 DEF Reports
  <2>3. Append(status, r) \in Seq(Reports)
    BY <1>0, <2>2, AppendProperties DEF KernelType
  <2>4. KernelType'
    BY <1>0, <1>2, <2>1, <2>3 DEF KernelStart, KernelType, Msgs, Ops, Reports
  <2>5. QED BY <1>0, <1>2, <2>4, KernelStep DEF KernelStart, brokerVars
<1>3. CASE \E m \in Msgs : KernelFinish(m)
  <2>1. KernelDone({}) /\ UNCHANGED <<brokerVars, sent, browser, kq, threadVars>>
    BY <1>3 DEF KernelFinish
  <2>2. kernel' \in Msgs /\ status' \in Seq(Reports) /\ replies' \subseteq Msgs
    BY <1>0, <2>1, KernelDoneTypes
  <2>3. KernelType'
    BY <1>0, <2>1, <2>2 DEF KernelType, Msgs, Ops, Reports
  <2>4. QED BY <1>0, <2>1, <2>3, KernelStep DEF brokerVars
<1> QED BY <1>1, <1>2, <1>3

\* What the listener hears is a message of the kernel.
LEMMA HeardTypes ==
    ASSUME KernelType, NEW k, Hears(k)
    PROVE  KernelType' /\ Head(status).of \in Msgs
<1>1. Head(status) \in Reports /\ Tail(status) \in Seq(Reports)
  BY HeadTailProperties DEF KernelType, Hears
<1> QED BY <1>1 DEF KernelType, Hears, Msgs, Ops, Reports

\* observe_kernel_busy and observe_kernel_idle touch no record either.
LEMMA KernelObserved ==
    ASSUME BrokerInv, ObserveKernelBusy \/ ObserveKernelIdle
    PROVE  BrokerInv'
<1>0. KernelType
  BY DEF BrokerInv, Typed
<1>1. KernelType' /\ Head(status).of \in Msgs
  BY <1>0, HeardTypes DEF ObserveKernelBusy, ObserveKernelIdle
<1>2. /\ busyParent' \in Msgs /\ UNCHANGED <<recordVars, queue, active, threadVars>>
  BY <1>1, Messages DEF ObserveKernelBusy, ObserveKernelIdle
<1> QED BY <1>1, <1>2, KernelStep

\* A busy status makes a dispatched operation run; a pending cancellation that now
\* owns the kernel goes on in the listener's thread.
LEMMA BusyParentObserved ==
    ASSUME BrokerInv, NEW o \in Ops, ObserveBusyParent(o)
    PROVE  BrokerInv'
<1> DEFINE m  == Head(status).of
           st == IF msg[o] = m /\ state[o] = "dispatched" THEN "running" ELSE state[o]
<1>0. RecordType /\ QueueType /\ KernelType /\ ThreadType /\ Listener \in Threads
  BY DEF BrokerInv, Typed, Threads
<1>1. KernelType' /\ m \in Msgs
  BY <1>0, HeardTypes DEF ObserveBusyParent
<1>2. /\ Hears("busy") /\ busyParent' = m /\ state' = [state EXCEPT ![o] = st]
      /\ parent' = [parent EXCEPT ![o] = m]
      /\ \/ st = "cancel_pending" /\ Goto(Listener, "mark", <<o, 0>>)
         \/ UNCHANGED <<pc, arg>>
      /\ UNCHANGED <<msg, wanted, queue, active, out, left>>
  BY DEF ObserveBusyParent, locals
<1>3. st \in States /\ ((st = "running" /\ state[o] = "dispatched") \/ st = state[o])
  BY <1>0 DEF RecordType, States, Outstanding
<1> HIDE DEF m, st
<1>4. /\ state' \in [Ops -> States] /\ parent' \in [Ops -> Msgs]
      /\ \A p \in Ops : \/ state'[p] = state[p]
                        \/ state[p] = "dispatched" /\ state'[p] = "running"
      /\ state'[o] = st
  BY <1>0, <1>1, <1>2, <1>3 DEF RecordType
<1>5. Progress
  BY <1>2, <1>4 DEF Progress
<1>6. \A p \in Ops : state'[p] = "cancel_pending" => wanted'[p] # "none"
  BY <1>2, <1>4 DEF BrokerInv, RecordInv
<1>7. OneOutstanding'
  <2>1. \A p \in Ops : state'[p] \in Outstanding <=> state[p] \in Outstanding
    BY <1>4 DEF Outstanding
  <2>2. QED BY <1>2, <2>1, StillOutstanding
<1>8. "mark" \in Labels /\ <<o, 0>> \in Args /\ <<o, 0>>[1] = o
  BY Messages DEF Labels
<1>9. CASE UNCHANGED <<pc, arg>>
  <2>1. Typed'
    BY <1>0, <1>1, <1>2, <1>4, <1>9
       DEF Typed, RecordType, QueueType, ThreadType, Msgs, Args, Ops, States
  <2>2. ThreadInv(Listener)'
    <3>1. ThreadInv(Listener) /\ (pc[Listener] = "invalidate" => left # {})
      BY <1>0 DEF BrokerInv, ThreadInv
    <3>2. QED BY <1>0, <1>2, <1>5, <1>9, <3>1, ThreadKept
  <2>3. QED BY <1>0, <1>2, <1>5, <1>6, <1>7, <1>9, <2>1, <2>2, MethodStep
<1>10. CASE st = "cancel_pending" /\ Goto(Listener, "mark", <<o, 0>>)
  <2> DEFINE a == <<o, 0>>
  <2>1. a \in Args /\ a[1] = o /\ Goto(Listener, "mark", a)
    BY <1>8, <1>10
  <2> HIDE DEF a
  <2>2. /\ pc' \in [Threads -> Labels] /\ arg' \in [Threads -> Args]
        /\ pc'[Listener] = "mark" /\ arg'[Listener] = a
        /\ \A u \in Threads \ {Listener} : pc'[u] = pc[u] /\ arg'[u] = arg[u]
    BY <1>0, <1>8, <2>1, GotoEffect
  <2>3. Typed'
    BY <1>0, <1>1, <1>2, <1>4, <2>2
       DEF Typed, RecordType, QueueType, ThreadType, Msgs, Args, Ops, States
  <2>4. ThreadInv(Listener)'
    BY <1>4, <1>6, <1>10, <2>1, <2>2 DEF ThreadInv, OpOf
  <2>5. QED BY <1>0, <1>2, <1>5, <1>6, <1>7, <2>2, <2>3, <2>4, MethodStep
<1> QED BY <1>2, <1>9, <1>10

\* The reply ends the operation that owns the message.
LEMMA ReplyObserved ==
    ASSUME BrokerInv, NEW m \in Msgs, ObserveReply(m)
    PROVE  BrokerInv'
<1>0. /\ RecordType /\ QueueType /\ KernelType /\ ThreadType /\ Listener \in Threads
      /\ UNCHANGED <<msg, parent, wanted, queue, busyParent, sent, browser, kq, kernel, status,
                     pc, arg, out, left>>
      /\ replies' = replies \ {m}
  BY DEF BrokerInv, Typed, Threads, ObserveReply, threadVars, locals
<1>1. KernelType'
  BY <1>0 DEF KernelType, Msgs, Ops, Reports
<1>2. CASE UNCHANGED <<state, active>>
  BY <1>0, <1>1, <1>2, KernelStep DEF recordVars, threadVars, locals, QueueType
<1>3. CASE ~UNCHANGED <<state, active>>
  <2>1. PICK o \in Ops : /\ m # NoMsg /\ msg[o] = m
                         /\ Finish(o, IF wanted[o] = "none" THEN "completed" ELSE wanted[o])
    BY <1>3 DEF ObserveReply, OwnerOf
  <2> DEFINE outcome == IF wanted[o] = "none" THEN "completed" ELSE wanted[o]
  <2>2. outcome \in Terminal
    BY <1>0 DEF RecordType, Terminal, Wishes
  <2>3. state[o] # "absent"
    BY <2>1 DEF BrokerInv, RecordInv
  <2>4. Finish(o, outcome)
    BY <2>1
  <2> HIDE DEF outcome
  <2>5. /\ state' \in [Ops -> States] /\ active' \in Ops \cup {NoOp}
        /\ Progress /\ OneOutstanding'
        /\ \A p \in Ops : state'[p] = "cancel_pending" => wanted'[p] # "none"
    BY <1>0, <2>2, <2>3, <2>4, FinishEffect
  <2>6. Typed'
    BY <1>0, <1>1, <2>5
       DEF Typed, RecordType, QueueType, ThreadType, Msgs, Args, Ops, States
  <2>7. ThreadInv(Listener)'
    <3>1. ThreadInv(Listener) /\ (pc[Listener] = "invalidate" => left # {})
      BY <1>0 DEF BrokerInv, ThreadInv
    <3>2. QED BY <1>0, <2>5, <3>1, ThreadKept
  <2>8. QED BY <1>0, <2>5, <2>6, <2>7, MethodStep
<1> QED BY <1>2, <1>3

-----------------------------------------------------------------------------
(* cancel, timeout and the interrupt *)

\* A thread moves and the records stay.
LEMMA ThreadStep ==
    ASSUME BrokerInv, KernelType', NEW t \in Threads, UNCHANGED brokerVars, UNCHANGED locals,
           pc' \in [Threads -> Labels], arg' \in [Threads -> Args],
           \A u \in Threads \ {t} : pc'[u] = pc[u] /\ arg'[u] = arg[u],
           pc'[t] # "invalidate", ThreadInv(t)'
    PROVE  BrokerInv'
<1>1. UNCHANGED <<state, msg, parent, wanted, queue, active, busyParent, out, left>>
  BY DEF brokerVars, recordVars, locals
<1>2. Typed'
  BY <1>1 DEF BrokerInv, Typed, RecordType, QueueType, ThreadType, Msgs, Args, Ops
<1>3. Progress
  BY <1>1, SameRecords
<1>4. OneOutstanding' /\ \A o \in Ops : state'[o] = "cancel_pending" => wanted'[o] # "none"
  BY <1>1 DEF BrokerInv, OneOutstanding, RecordInv, Outstanding
<1> QED BY <1>1, <1>2, <1>3, <1>4, MethodStep

\* kernel.dispatch sends a request of its operation.
LEMMA SendStep ==
    ASSUME BrokerInv, NEW t \in Callers, Send(t)
    PROVE  BrokerInv'
<1> DEFINE m == <<OpOf(t), sent[OpOf(t)] + 1>>
<1>0. KernelType /\ ThreadType /\ t \in Threads /\ ThreadInv(t)
  BY DEF BrokerInv, Typed, Threads
<1>1. OpOf(t) \in Ops
  BY <1>0 DEF ThreadInv, Send
<1>2. sent[OpOf(t)] + 1 \in 1..MaxSends
  BY <1>0, <1>1, BoundsAssumption DEF KernelType, Send
<1>3. m \in Requests /\ m \in Args /\ m \in Msgs
  BY <1>1, <1>2, Messages
<1>4. /\ Goto(t, "record", m) /\ kq' = Append(kq, m)
      /\ sent' = [sent EXCEPT ![OpOf(t)] = sent[OpOf(t)] + 1]
      /\ UNCHANGED brokerVars /\ UNCHANGED locals /\ UNCHANGED <<browser, kernel, status, replies>>
  BY DEF Send
<1> HIDE DEF m
<1>5. KernelType'
  <2>1. Append(kq, m) \in Seq(Msgs)
    BY <1>0, <1>3, AppendProperties DEF KernelType
  <2>2. sent' \in [Ops -> 0..MaxSends]
    BY <1>0, <1>1, <1>2, <1>4 DEF KernelType
  <2>3. QED BY <1>0, <1>4, <2>1, <2>2 DEF KernelType, Msgs, Ops, Reports
<1>6. "record" \in Labels
  BY DEF Labels
<1>7. /\ pc' \in [Threads -> Labels] /\ arg' \in [Threads -> Args]
      /\ pc'[t] = "record" /\ arg'[t] = m
      /\ \A u \in Threads \ {t} : pc'[u] = pc[u] /\ arg'[u] = arg[u]
  BY <1>0, <1>3, <1>4, <1>6, GotoEffect
<1>8. ThreadInv(t)'
  BY <1>3, <1>7 DEF ThreadInv, Requests, Ops
<1> QED BY <1>0, <1>4, <1>5, <1>7, <1>8, ThreadStep

\* kernel.interrupt and the wait for the kernel to be idle.
LEMMA InterruptSteps ==
    ASSUME BrokerInv, NEW t \in Threads, Interrupt(t) \/ WaitIdle(t)
    PROVE  BrokerInv'
<1>0. /\ KernelType /\ ThreadType /\ ThreadInv(t) /\ pc[t] \in {"interrupt", "wait"}
      /\ UNCHANGED brokerVars /\ UNCHANGED locals /\ UNCHANGED <<sent, browser>>
      /\ UNCHANGED <<state, wanted>>
  BY DEF BrokerInv, Typed, Interrupt, WaitIdle, brokerVars, recordVars
<1>1. KernelType'
  <2>1. {kq[i] : i \in DOMAIN kq} \in SUBSET Msgs /\ {} \in SUBSET Msgs
    BY <1>0 DEF KernelType
  <2>2. CASE UNCHANGED <<kernel, status, replies>> /\ UNCHANGED kq
    BY <1>0, <2>2 DEF KernelType, Msgs, Ops, Reports
  <2>3. ASSUME NEW D \in SUBSET Msgs, KernelDone(D), kq' = kq \/ kq' = <<>>
        PROVE  KernelType'
    <3>1. kernel' \in Msgs /\ status' \in Seq(Reports) /\ replies' \subseteq Msgs
      BY <1>0, <2>3, KernelDoneTypes
    <3>2. kq' \in Seq(Msgs)
      BY <1>0, <2>3, EmptySeq DEF KernelType
    <3>3. QED BY <1>0, <3>1, <3>2 DEF KernelType, Msgs, Ops, Reports
  <2>4. QED BY <2>1, <2>2, <2>3 DEF Interrupt, WaitIdle
<1>2. arg[t] \in Args /\ OpOf(t) \in Ops /\ out[t] # "none" /\ state[OpOf(t)] # "absent"
  BY <1>0 DEF ThreadType, ThreadInv
<1>3. CASE Return(t)
  <2>1. ThreadInv(t)' /\ pc'[t] # "invalidate"
    BY <1>0, <1>3, ReturnEffect, IdleThread
  <2>2. QED BY <1>0, <1>1, <1>3, <2>1, ReturnEffect, ThreadStep
<1>4. ASSUME NEW l \in {"wait", "finish"}, Goto(t, l, arg[t])
      PROVE  BrokerInv'
  <2>1. l \in Labels
    BY DEF Labels
  <2>2. /\ pc' \in [Threads -> Labels] /\ arg' \in [Threads -> Args]
        /\ pc'[t] = l /\ arg'[t] = arg[t]
        /\ \A u \in Threads \ {t} : pc'[u] = pc[u] /\ arg'[u] = arg[u]
    BY <1>0, <1>2, <1>4, <2>1, GotoEffect
  <2>3. ThreadInv(t)'
    BY <1>0, <1>2, <2>2 DEF ThreadInv, OpOf, locals
  <2>4. QED BY <1>0, <1>1, <2>2, <2>3, ThreadStep
<1> QED BY <1>3, <1>4 DEF Interrupt, WaitIdle

\* request_cancel and request_timeout.
LEMMA RequestStep ==
    ASSUME BrokerInv, NEW t \in Callers, NEW o \in Ops, NEW outcome \in {"cancelled", "timeout"},
           Request(t, o, outcome)
    PROVE  BrokerInv'
<1> DEFINE st == IF state[o] = "queued" THEN outcome ELSE "cancel_pending"
<1>0. RecordType /\ QueueType /\ KernelType /\ ThreadType /\ t \in Threads
  BY DEF BrokerInv, Typed, Threads
<1>1. /\ pc[t] = "idle" /\ state[o] \in States \ (Terminal \cup {"absent"})
      /\ wanted' = [wanted EXCEPT ![o] = outcome]
      /\ state' = [state EXCEPT ![o] = st]
      /\ Goto(t, "mark", <<o, 0>>) \/ UNCHANGED <<pc, arg>>
      /\ UNCHANGED <<msg, parent, queue, active, busyParent, out, left>>
      /\ UNCHANGED <<sent, browser, kq, kernel, status, replies>>
  BY <1>0 DEF Request, locals, kernelVars, RecordType
<1>2. /\ st \in States /\ outcome \in Wishes /\ st \notin {"queued", "absent"}
      /\ st \in Outstanding <=> state[o] \in Outstanding
  BY <1>1 DEF States, Terminal, Outstanding, Wishes
<1> HIDE DEF st
<1>3. /\ state' \in [Ops -> States] /\ wanted' \in [Ops -> Wishes]
      /\ state'[o] = st /\ wanted'[o] = outcome
      /\ \A p \in Ops : p # o => state'[p] = state[p] /\ wanted'[p] = wanted[p]
  BY <1>0, <1>1, <1>2 DEF RecordType
<1>4. Progress
  BY <1>1, <1>2, <1>3 DEF Progress
<1>5. \A p \in Ops : state'[p] = "cancel_pending" => wanted'[p] # "none"
  BY <1>3 DEF BrokerInv, RecordInv
<1>6. OneOutstanding'
  <2>1. \A p \in Ops : state'[p] \in Outstanding <=> state[p] \in Outstanding
    BY <1>2, <1>3
  <2>2. QED BY <1>1, <2>1, StillOutstanding
<1>7. KernelType'
  BY <1>0, <1>1 DEF KernelType, Msgs, Ops, Reports
<1>8. "mark" \in Labels /\ <<o, 0>> \in Args /\ <<o, 0>>[1] = o
  BY Messages DEF Labels
<1>9. CASE UNCHANGED <<pc, arg>>
  <2>1. Typed'
    BY <1>0, <1>1, <1>3, <1>7, <1>9
       DEF Typed, RecordType, QueueType, ThreadType, Msgs, Args, Ops, States
  <2>2. ThreadInv(t)'
    BY <1>0, <1>1, <1>9, IdleThread
  <2>3. QED BY <1>0, <1>1, <1>4, <1>5, <1>6, <1>9, <2>1, <2>2, MethodStep
<1>10. CASE Goto(t, "mark", <<o, 0>>)
  <2> DEFINE a == <<o, 0>>
  <2>1. a \in Args /\ a[1] = o /\ Goto(t, "mark", a)
    BY <1>8, <1>10
  <2> HIDE DEF a
  <2>2. /\ pc' \in [Threads -> Labels] /\ arg' \in [Threads -> Args]
        /\ pc'[t] = "mark" /\ arg'[t] = a
        /\ \A u \in Threads \ {t} : pc'[u] = pc[u] /\ arg'[u] = arg[u]
    BY <1>0, <1>8, <2>1, GotoEffect
  <2>3. Typed'
    BY <1>0, <1>1, <1>3, <1>7, <2>2
       DEF Typed, RecordType, QueueType, ThreadType, Msgs, Args, Ops, States
  <2>4. ThreadInv(t)'
    BY <1>2, <1>3, <2>1, <2>2 DEF ThreadInv, OpOf
  <2>5. QED BY <1>0, <1>1, <1>4, <1>5, <1>6, <2>2, <2>3, <2>4, MethodStep
<1> QED BY <1>1, <1>9, <1>10

\* mark_cancelling takes the outcome along, or raises.
LEMMA MarkStep ==
    ASSUME BrokerInv, NEW t \in Threads, MarkCancelling(t)
    PROVE  BrokerInv'
<1> DEFINE o == OpOf(t)
<1>0. /\ RecordType /\ QueueType /\ KernelType /\ ThreadType /\ ThreadInv(t) /\ pc[t] = "mark"
      /\ UNCHANGED <<msg, parent, wanted, queue, active, busyParent, left>>
      /\ UNCHANGED <<sent, browser, kq, kernel, status, replies>>
  BY DEF BrokerInv, Typed, MarkCancelling, kernelVars
<1>1. o \in Ops /\ wanted[o] # "none" /\ state[o] # "absent" /\ arg[t] \in Args
  BY <1>0 DEF ThreadInv, ThreadType
<1>2. KernelType'
  BY <1>0 DEF KernelType, Msgs, Ops, Reports
<1>3. CASE Return(t) /\ UNCHANGED <<state, out>>
  <2>1. ThreadInv(t)' /\ pc'[t] # "invalidate"
    BY <1>0, <1>3, ReturnEffect, IdleThread
  <2>2. UNCHANGED brokerVars /\ UNCHANGED locals
    BY <1>0, <1>3 DEF brokerVars, recordVars, locals
  <2>3. QED BY <1>0, <1>2, <1>3, <2>1, <2>2, ReturnEffect, ThreadStep
<1>4. CASE /\ state[o] \in {"running", "cancel_pending"}
           /\ state' = [state EXCEPT ![o] = "cancelling"]
           /\ out' = [out EXCEPT ![t] = wanted[o]]
           /\ Goto(t, "interrupt", arg[t])
  <2>1. /\ pc' \in [Threads -> Labels] /\ arg' \in [Threads -> Args]
        /\ pc'[t] = "interrupt" /\ arg'[t] = arg[t]
        /\ \A u \in Threads \ {t} : pc'[u] = pc[u] /\ arg'[u] = arg[u]
    <3>1. "interrupt" \in Labels
      BY DEF Labels
    <3>2. QED BY <1>0, <1>1, <1>4, <3>1, GotoEffect
  <2>2. /\ state' \in [Ops -> States] /\ state'[o] = "cancelling"
        /\ \A p \in Ops : p # o => state'[p] = state[p]
    BY <1>0, <1>1, <1>4 DEF RecordType, States, Outstanding
  <2>3. /\ out' \in [Threads -> Wishes] /\ out'[t] = wanted[o]
        /\ \A u \in Threads \ {t} : out'[u] = out[u]
    BY <1>0, <1>1, <1>4 DEF RecordType, ThreadType
  <2>4. Progress
    BY <1>0, <1>1, <1>4, <2>2 DEF Progress
  <2>5. OneOutstanding'
    <3>1. \A p \in Ops : state'[p] \in Outstanding <=> state[p] \in Outstanding
      BY <1>1, <1>4, <2>2 DEF Outstanding
    <3>2. QED BY <1>0, <3>1, StillOutstanding
  <2>6. \A p \in Ops : state'[p] = "cancel_pending" => wanted'[p] # "none"
    BY <1>0, <2>2 DEF BrokerInv, RecordInv
  <2>7. Typed'
    BY <1>0, <1>2, <2>1, <2>2, <2>3
       DEF Typed, RecordType, QueueType, ThreadType, Msgs, Args, Ops, States
  <2>8. ThreadInv(t)'
    BY <1>1, <2>1, <2>2, <2>3 DEF ThreadInv, OpOf
  <2>9. QED BY <1>0, <2>1, <2>3, <2>4, <2>5, <2>6, <2>7, <2>8, MethodStep
<1> QED BY <1>3, <1>4 DEF MarkCancelling, Owns

\* The end of _interrupt_owned.
LEMMA FinishCancelledStep ==
    ASSUME BrokerInv, NEW t \in Threads, FinishCancelled(t)
    PROVE  BrokerInv'
<1> DEFINE o == OpOf(t)
           outcome == out[t]
<1>0. /\ RecordType /\ QueueType /\ KernelType /\ ThreadType /\ ThreadInv(t) /\ pc[t] = "finish"
      /\ Finish(o, outcome) /\ Return(t)
      /\ UNCHANGED <<msg, parent, wanted, queue, busyParent, out, left>>
      /\ UNCHANGED <<sent, browser, kq, kernel, status, replies>>
  BY DEF BrokerInv, Typed, FinishCancelled, kernelVars, locals
<1>1. o \in Ops /\ outcome \in Terminal /\ state[o] # "absent"
  BY <1>0 DEF ThreadInv, ThreadType, Terminal, Wishes
<1> HIDE DEF o, outcome
<1>2. /\ state' \in [Ops -> States] /\ active' \in Ops \cup {NoOp}
      /\ Progress /\ OneOutstanding'
      /\ \A p \in Ops : state'[p] = "cancel_pending" => wanted'[p] # "none"
  BY <1>0, <1>1, FinishEffect
<1>3. /\ pc' \in [Threads -> Labels] /\ arg' \in [Threads -> Args] /\ pc'[t] = "idle"
      /\ \A u \in Threads \ {t} : pc'[u] = pc[u] /\ arg'[u] = arg[u]
  BY <1>0, ReturnEffect
<1>4. Typed'
  BY <1>0, <1>2, <1>3
     DEF Typed, RecordType, QueueType, KernelType, ThreadType, Msgs, Args, Ops, States, Reports
<1>5. ThreadInv(t)'
  BY <1>3, IdleThread
<1> QED BY <1>0, <1>2, <1>3, <1>4, <1>5, MethodStep

-----------------------------------------------------------------------------
(* invalidate_session *)

\* invalidate_session collects operations that were enqueued.
LEMMA InvalidateStep ==
    ASSUME BrokerInv, NEW t \in Callers, Invalidate(t)
    PROVE  BrokerInv'
<1>0. /\ ThreadType /\ KernelType /\ t \in Threads /\ left' # {}
      /\ left' = {o \in Ops : state[o] \notin Terminal \cup {"absent"}}
      /\ Goto(t, "invalidate", NoMsg) /\ \A u \in Threads : pc[u] # "invalidate"
      /\ UNCHANGED <<state, msg, parent, wanted, queue, active, busyParent, out>>
      /\ UNCHANGED <<sent, browser, kq, kernel, status, replies>>
  BY DEF BrokerInv, Typed, Threads, Invalidate, brokerVars, recordVars, kernelVars
<1>1. /\ pc' \in [Threads -> Labels] /\ arg' \in [Threads -> Args]
      /\ pc'[t] = "invalidate"
      /\ \A u \in Threads \ {t} : pc'[u] = pc[u] /\ arg'[u] = arg[u]
  <2>1. "invalidate" \in Labels /\ NoMsg \in Args
    BY Messages DEF Labels
  <2>2. QED BY <1>0, <2>1, GotoEffect
<1>2. Typed'
  BY <1>0, <1>1 DEF BrokerInv, Typed, RecordType, QueueType, KernelType, ThreadType, Msgs, Args,
                    Ops, Reports
<1>3. Progress
  BY <1>0, SameRecords
<1>4. EnqueueInv' /\ QueueInv' /\ DispatchInOrder'
  BY <1>0, <1>3, OrderKept
<1>5. RecordInv' /\ OneOutstanding'
  BY <1>0 DEF BrokerInv, RecordInv, OneOutstanding, NoMsg, Outstanding
<1>6. LeftInv'
  BY <1>0, <1>1 DEF LeftInv
<1>7. \A u \in Threads : ThreadInv(u)'
  <2> SUFFICES ASSUME NEW u \in Threads PROVE ThreadInv(u)'
    OBVIOUS
  <2>1. CASE u = t
    BY <1>0, <1>1, <2>1 DEF ThreadInv
  <2>2. CASE u # t
    BY <1>0, <1>1, <1>3, <2>2, ThreadKept DEF BrokerInv
  <2>3. QED BY <2>1, <2>2
<1> QED BY <1>2, <1>4, <1>5, <1>6, <1>7 DEF BrokerInv

\* invalidate_session finishes them one at a time.
LEMMA InvalidateOneStep ==
    ASSUME BrokerInv, NEW t \in Threads, InvalidateOne(t)
    PROVE  BrokerInv'
<1> DEFINE o == Min(left)
<1>0. /\ RecordType /\ QueueType /\ KernelType /\ ThreadType /\ ThreadInv(t)
      /\ pc[t] = "invalidate" /\ Finish(o, "cancelled") /\ left' = left \ {o}
      /\ \/ left = {o} /\ Return(t)
         \/ left # {o} /\ UNCHANGED <<pc, arg>>
      /\ UNCHANGED <<msg, parent, wanted, queue, busyParent, out>>
      /\ UNCHANGED <<sent, browser, kq, kernel, status, replies>>
  BY DEF BrokerInv, Typed, InvalidateOne, kernelVars
<1>1. o \in left /\ left \subseteq Ops
  <2>1. left \in SUBSET Nat /\ left # {} /\ left \subseteq Ops
    BY <1>0 DEF ThreadType, ThreadInv, Ops
  <2>2. QED BY <2>1, MinIsLeast
<1> HIDE DEF o
<1>2. o \in Ops /\ state[o] # "absent" /\ "cancelled" \in Terminal
  BY <1>1 DEF BrokerInv, LeftInv, Terminal
<1>3. /\ state' \in [Ops -> States] /\ active' \in Ops \cup {NoOp}
      /\ Progress /\ OneOutstanding'
      /\ \A p \in Ops : state'[p] = "cancel_pending" => wanted'[p] # "none"
  BY <1>0, <1>2, FinishEffect
<1>4. /\ pc' \in [Threads -> Labels] /\ arg' \in [Threads -> Args]
      /\ \A u \in Threads \ {t} : pc'[u] = pc[u] /\ arg'[u] = arg[u]
      /\ left = {o} => pc'[t] = "idle"
      /\ left # {o} => pc'[t] = pc[t] /\ arg'[t] = arg[t]
  BY <1>0, ReturnEffect DEF ThreadType
<1>5. Typed'
  BY <1>0, <1>3, <1>4
     DEF Typed, RecordType, QueueType, KernelType, ThreadType, Msgs, Args, Ops, States, Reports
<1>6. EnqueueInv' /\ QueueInv' /\ DispatchInOrder'
  BY <1>0, <1>3, OrderKept
<1>7. RecordInv'
  BY <1>0, <1>3 DEF BrokerInv, RecordInv, Progress, NoMsg
<1>8. \A u \in Threads : pc'[u] = "invalidate" => pc[u] = "invalidate"
  BY <1>0, <1>4
<1>9. LeftInv'
  BY <1>0, <1>1, <1>3, <1>8 DEF BrokerInv, LeftInv, Progress
<1>10. \A u \in Threads : ThreadInv(u)'
  <2> SUFFICES ASSUME NEW u \in Threads PROVE ThreadInv(u)'
    OBVIOUS
  <2>1. CASE u = t /\ left = {o}
    BY <1>4, <2>1, IdleThread
  <2>2. CASE u = t /\ left # {o}
    <3>1. left' # {}
      BY <1>0, <1>1, <2>2
    <3>2. QED BY <1>0, <1>3, <1>4, <2>2, <3>1, ThreadKept
  <2>3. CASE u # t
    <3>1. pc[u] # "invalidate"
      BY <1>0, <2>3 DEF BrokerInv, LeftInv
    <3>2. QED BY <1>0, <1>3, <1>4, <2>3, <3>1, ThreadKept DEF BrokerInv
  <2>4. QED BY <2>1, <2>2, <2>3
<1> QED BY <1>3, <1>5, <1>6, <1>7, <1>9, <1>10 DEF BrokerInv

-----------------------------------------------------------------------------
(* enqueue and dispatch_next *)

\* enqueue appends the next operation.
LEMMA EnqueueStep ==
    ASSUME BrokerInv, NEW o \in Ops, Enqueue(o)
    PROVE  BrokerInv'
<1>0. /\ RecordType /\ QueueType /\ KernelType /\ ThreadType
      /\ state[o] = "absent" /\ \A p \in Ops : p < o => state[p] # "absent"
      /\ state' = [state EXCEPT ![o] = "queued"] /\ queue' = Append(queue, o)
      /\ UNCHANGED <<msg, parent, wanted, active, busyParent, pc, arg, out, left>>
      /\ UNCHANGED <<sent, browser, kq, kernel, status, replies>>
  BY DEF BrokerInv, Typed, Enqueue, kernelVars, threadVars, locals
<1>1. /\ queue' \in Seq(Ops) /\ Len(queue') = Len(queue) + 1 /\ Len(queue) \in Nat
      /\ \A i \in 1..Len(queue) : queue'[i] = queue[i] /\ queue[i] \in Ops
      /\ queue'[Len(queue) + 1] = o
  BY <1>0, AppendProperties, LenProperties, ElementOfSeq DEF QueueType
<1>2. /\ state' \in [Ops -> States] /\ state'[o] = "queued"
      /\ \A p \in Ops : p # o => state'[p] = state[p]
  BY <1>0 DEF RecordType, States
<1>3. Typed'
  BY <1>0, <1>1, <1>2
     DEF Typed, RecordType, QueueType, KernelType, ThreadType, Msgs, Args, Ops, States, Reports
<1>4. \A p \in Ops : o < p => state[p] = "absent"
  BY <1>0 DEF BrokerInv, EnqueueInv
<1>5. \A p \in Ops : p \in Nat
  BY DEF Ops
<1>6. RecordInv' /\ EnqueueInv'
  BY <1>0, <1>2, <1>4, <1>5 DEF BrokerInv, RecordInv, EnqueueInv, NoMsg
<1>7. QueueInv'
  <2>1. \A i \in 1..Len(queue) : state[queue[i]] # "absent" /\ queue[i] < o
    <3> SUFFICES ASSUME NEW i \in 1..Len(queue)
                 PROVE  state[queue[i]] # "absent" /\ queue[i] < o
      OBVIOUS
    <3>1. queue[i] \in Ops /\ state[queue[i]] # "absent"
      BY <1>1 DEF BrokerInv, QueueInv
    <3>2. queue[i] # o /\ ~(o < queue[i])
      BY <1>0, <1>4, <3>1
    <3>3. QED BY <1>5, <3>1, <3>2
  <2>2. \A i, j \in 1..Len(queue') : i < j => queue'[i] < queue'[j]
    BY <1>1, <2>1 DEF BrokerInv, QueueInv
  <2>3. \A i \in 1..Len(queue') : state'[queue'[i]] # "absent"
    BY <1>1, <1>2, <2>1
  <2>4. \A p \in Ops : state'[p] = "queued" => \E i \in 1..Len(queue') : queue'[i] = p
    <3> SUFFICES ASSUME NEW p \in Ops, state'[p] = "queued"
                 PROVE  \E i \in 1..Len(queue') : queue'[i] = p
      OBVIOUS
    <3>1. CASE p = o
      BY <1>1, <3>1
    <3>2. CASE p # o
      <4>1. PICK i \in 1..Len(queue) : queue[i] = p
        BY <1>2, <3>2 DEF BrokerInv, QueueInv
      <4>2. QED BY <1>1, <4>1
    <3>3. QED BY <3>1, <3>2
  <2>5. QED BY <2>2, <2>3, <2>4 DEF QueueInv
<1>8. OneOutstanding'
  <2>1. \A p \in Ops : state'[p] \in Outstanding <=> state[p] \in Outstanding
    BY <1>0, <1>2 DEF Outstanding
  <2>2. QED BY <1>0, <2>1, StillOutstanding
<1>9. DispatchInOrder'
  BY <1>0, <1>2, <1>4 DEF BrokerInv, RecordInv, DispatchInOrder, NoMsg
<1>10. LeftInv'
  BY <1>0, <1>2 DEF BrokerInv, LeftInv, ThreadType
<1>11. \A u \in Threads : ThreadInv(u)'
  BY <1>0, <1>2 DEF BrokerInv, ThreadInv, OpOf, Requests, Ops
<1> QED BY <1>3, <1>6, <1>7, <1>8, <1>9, <1>10, <1>11 DEF BrokerInv

\* next_queued drops from the head only what is queued no longer.
LEMMA NextQueuedStep ==
    ASSUME BrokerInv, NEW t \in Callers, NextQueued(t)
    PROVE  BrokerInv'
<1> DEFINE W == {i \in DOMAIN queue : state[queue[i]] = "queued"}
           k == Min(W)
<1>0. /\ RecordType /\ QueueType /\ KernelType /\ ThreadType /\ t \in Threads
      /\ UNCHANGED <<state, msg, parent, wanted, active, busyParent, out, left>>
      /\ UNCHANGED <<sent, browser, kq, kernel, status, replies>>
      /\ pc[t] = "idle"
      /\ \/ W = {} /\ queue' = <<>> /\ UNCHANGED <<pc, arg>>
         \/ /\ W # {} /\ queue' = SubSeq(queue, k, Len(queue))
            /\ Goto(t, "send", <<queue[k], 0>>)
  BY DEF BrokerInv, Typed, Threads, NextQueued, recordVars, kernelVars, locals
<1>1. /\ DOMAIN queue = 1..Len(queue) /\ Len(queue) \in Nat
      /\ \A i \in 1..Len(queue) : queue[i] \in Ops
  BY <1>0 DEF QueueType
<1>2. RecordInv' /\ EnqueueInv' /\ DispatchInOrder' /\ OneOutstanding'
  BY <1>0 DEF BrokerInv, RecordInv, EnqueueInv, DispatchInOrder, OneOutstanding, NoMsg, Outstanding
<1>3. Progress
  BY <1>0, SameRecords
<1>4. \A u \in Threads : u # t => ThreadInv(u) /\ (pc[u] = "invalidate" => left # {})
  BY DEF BrokerInv, ThreadInv
<1>5. CASE W = {}
  <2>1. queue' = <<>> /\ UNCHANGED <<pc, arg>> /\ queue' \in Seq(Ops) /\ Len(queue') = 0
    BY <1>0, <1>5, EmptySeq
  <2>2. Typed'
    BY <1>0, <2>1
       DEF Typed, RecordType, QueueType, KernelType, ThreadType, Msgs, Args, Ops, Reports
  <2>3. \A o \in Ops : state[o] # "queued"
    BY <1>1, <1>5 DEF BrokerInv, QueueInv
  <2>4. QueueInv'
    BY <1>0, <2>1, <2>3 DEF QueueInv
  <2>5. LeftInv' /\ \A u \in Threads : ThreadInv(u)'
    BY <1>0, <2>1 DEF BrokerInv, LeftInv, ThreadInv, OpOf, Requests, Ops
  <2>6. QED BY <1>2, <2>2, <2>4, <2>5 DEF BrokerInv
<1>6. CASE W # {}
  <2>1. k \in W /\ \A i \in W : k <= i
    <3>1. W \in SUBSET Nat
      BY <1>1
    <3> HIDE DEF W
    <3>2. QED BY <1>6, <3>1, MinIsLeast
  <2>2. queue' = SubSeq(queue, k, Len(queue)) /\ Goto(t, "send", <<queue[k], 0>>)
    BY <1>0, <1>6
  <2> HIDE DEF k
  <2>3. k \in 1..Len(queue) /\ state[queue[k]] = "queued" /\ queue[k] \in Ops
    BY <1>1, <2>1
  <2>4. \A i \in 1..Len(queue) : i < k => state[queue[i]] # "queued"
    <3> SUFFICES ASSUME NEW i \in 1..Len(queue), i < k, state[queue[i]] = "queued" PROVE FALSE
      OBVIOUS
    <3>1. i \in W
      BY <1>1
    <3>2. QED BY <2>1, <2>3, <3>1
  <2>5. /\ queue' \in Seq(Ops) /\ Len(queue') = Len(queue) - k + 1
        /\ \A i \in 1..Len(queue') : queue'[i] = queue[k + i - 1] /\ k + i - 1 \in 1..Len(queue)
    <3>1. k \in Int /\ Len(queue) \in Int /\ k <= Len(queue) /\ \A i \in k..Len(queue) : queue[i] \in Ops
      BY <1>1, <2>3
    <3>2. /\ SubSeq(queue, k, Len(queue)) \in Seq(Ops)
          /\ Len(SubSeq(queue, k, Len(queue))) = Len(queue) - k + 1
          /\ \A i \in 1..(Len(queue) - k + 1) : SubSeq(queue, k, Len(queue))[i] = queue[k + i - 1]
      BY <3>1, SubSeqProperties
    <3>3. QED BY <1>1, <2>2, <2>3, <3>2
  <2>6. QueueInv'
    <3>1. \A i, j \in 1..Len(queue') : i < j => queue'[i] < queue'[j]
      <4> SUFFICES ASSUME NEW i \in 1..Len(queue'), NEW j \in 1..Len(queue'), i < j
                   PROVE  queue'[i] < queue'[j]
        OBVIOUS
      <4>1. k + i - 1 < k + j - 1
        BY <1>1, <2>3, <2>5
      <4>2. QED BY <2>5, <4>1 DEF BrokerInv, QueueInv
    <3>2. \A i \in 1..Len(queue') : state'[queue'[i]] # "absent"
      BY <1>0, <2>5 DEF BrokerInv, QueueInv
    <3>3. \A o \in Ops : state'[o] = "queued" => \E i \in 1..Len(queue') : queue'[i] = o
      <4> SUFFICES ASSUME NEW o \in Ops, state[o] = "queued"
                   PROVE  \E i \in 1..Len(queue') : queue'[i] = o
        BY <1>0
      <4>1. PICK i \in 1..Len(queue) : queue[i] = o
        BY DEF BrokerInv, QueueInv
      <4>2. i >= k
        BY <1>1, <2>3, <2>4, <4>1
      <4>3. i - k + 1 \in 1..Len(queue') /\ k + (i - k + 1) - 1 = i
        BY <1>1, <2>3, <2>5, <4>2
      <4>4. QED BY <2>5, <4>1, <4>3
    <3>4. QED BY <3>1, <3>2, <3>3 DEF QueueInv
  <2> DEFINE a == <<queue[k], 0>>
  <2>7. a \in Args /\ a[1] = queue[k] /\ "send" \in Labels /\ Goto(t, "send", a)
    BY <2>2, <2>3, Messages DEF Labels
  <2> HIDE DEF a
  <2>8. /\ pc' \in [Threads -> Labels] /\ arg' \in [Threads -> Args]
        /\ pc'[t] = "send" /\ arg'[t] = a
        /\ \A u \in Threads \ {t} : pc'[u] = pc[u] /\ arg'[u] = arg[u]
    BY <1>0, <2>7, GotoEffect
  <2>9. Typed'
    BY <1>0, <2>5, <2>8
       DEF Typed, RecordType, QueueType, KernelType, ThreadType, Msgs, Args, Ops, Reports
  <2>10. LeftInv'
    BY <1>0, <2>8 DEF BrokerInv, LeftInv
  <2>11. \A u \in Threads : ThreadInv(u)'
    <3> SUFFICES ASSUME NEW u \in Threads PROVE ThreadInv(u)'
      OBVIOUS
    <3>1. CASE u = t
      BY <2>3, <2>7, <2>8, <3>1 DEF ThreadInv, OpOf, Ops
    <3>2. CASE u # t
      BY <1>0, <1>3, <1>4, <2>8, <3>2, ThreadKept
    <3>3. QED BY <3>1, <3>2
  <2>12. QED BY <1>2, <2>6, <2>9, <2>10, <2>11 DEF BrokerInv
<1> HIDE DEF W
<1> QED BY <1>5, <1>6

\* broker.dispatch takes the head of the queue, and nothing before it is queued.
LEMMA DispatchStep ==
    ASSUME BrokerInv, NEW t \in Callers, Dispatch(t)
    PROVE  BrokerInv'
<1> DEFINE o == OpOf(t)
<1>0. /\ RecordType /\ QueueType /\ KernelType /\ ThreadType /\ t \in Threads /\ ThreadInv(t)
      /\ UNCHANGED <<parent, wanted, busyParent, out, left>> /\ Return(t)
      /\ UNCHANGED <<sent, browser, kq, kernel, status, replies>> /\ pc[t] = "record"
  BY DEF BrokerInv, Typed, Threads, Dispatch, kernelVars, locals
<1>1. arg[t] \in Msgs /\ o \in Ops /\ arg[t] # NoMsg
  BY <1>0, Messages DEF ThreadInv, OpOf
<1>2. /\ pc' \in [Threads -> Labels] /\ arg' \in [Threads -> Args] /\ pc'[t] = "idle"
      /\ \A u \in Threads \ {t} : pc'[u] = pc[u] /\ arg'[u] = arg[u]
  BY <1>0, ReturnEffect
<1>3. KernelType'
  BY <1>0 DEF KernelType, Msgs, Ops, Reports
<1>4. CASE ~Dispatchable(o)
  <2>1. UNCHANGED brokerVars /\ UNCHANGED locals
    BY <1>0, <1>4 DEF Dispatch, brokerVars, recordVars, locals
  <2>2. ThreadInv(t)' /\ pc'[t] # "invalidate"
    BY <1>0, <1>2, IdleThread
  <2>3. QED BY <1>0, <1>2, <1>3, <2>1, <2>2, ThreadStep
<1>5. CASE Dispatchable(o)
  <2>1. /\ active = NoOp /\ state[o] = "queued" /\ (queue = <<>> \/ Head(queue) = o)
        /\ queue' = IF queue = <<>> THEN queue ELSE Tail(queue)
        /\ state' = [state EXCEPT ![o] = "dispatched"]
        /\ msg' = [msg EXCEPT ![o] = arg[t]] /\ active' = o
    BY <1>5 DEF Dispatch, Dispatchable
  <2> HIDE DEF o
  <2>2. /\ queue # <<>> /\ Head(queue) = o /\ queue' = Tail(queue)
        /\ Len(queue) \in Nat /\ queue[1] = o /\ 1 \in 1..Len(queue)
        /\ \A i \in 1..Len(queue) : queue[i] \in Ops
    <3>1. PICK i \in 1..Len(queue) : queue[i] = o
      BY <1>1, <2>1 DEF BrokerInv, QueueInv
    <3>2. Len(queue) \in Nat /\ queue # <<>>
      BY <1>0, <3>1 DEF QueueType
    <3>3. Head(queue) = o /\ queue' = Tail(queue)
      BY <2>1, <3>2
    <3>4. QED BY <1>0, <3>2, <3>3 DEF QueueType
  <2>3. /\ queue' \in Seq(Ops) /\ Len(queue') = Len(queue) - 1
        /\ \A i \in 1..Len(queue') : queue'[i] = queue[i + 1]
    BY <1>0, <2>2, HeadTailProperties DEF QueueType
  <2>4. /\ state' \in [Ops -> States] /\ state'[o] = "dispatched"
        /\ \A p \in Ops : p # o => state'[p] = state[p]
    BY <1>0, <1>1, <2>1 DEF RecordType, States, Outstanding
  <2>5. /\ msg' \in [Ops -> Msgs] /\ msg'[o] = arg[t]
        /\ \A p \in Ops : p # o => msg'[p] = msg[p]
    BY <1>0, <1>1, <2>1 DEF RecordType
  <2>6. Progress
    BY <1>0, <2>1, <2>4 DEF Progress
  <2>7. Typed'
    BY <1>0, <1>1, <1>2, <1>3, <2>1, <2>3, <2>4, <2>5
       DEF Typed, RecordType, QueueType, ThreadType, Msgs, Args, Ops, States
  <2>8. RecordInv' /\ EnqueueInv'
    BY <1>0, <2>1, <2>4, <2>5, <2>6 DEF BrokerInv, RecordInv, EnqueueInv, Progress, NoMsg
  <2>9. \A p \in Ops : p < o => state[p] # "queued"
    <3> SUFFICES ASSUME NEW p \in Ops, p < o, state[p] = "queued" PROVE FALSE
      OBVIOUS
    <3>1. PICK i \in 1..Len(queue) : queue[i] = p
      BY DEF BrokerInv, QueueInv
    <3>2. i # 1 => queue[1] < queue[i]
      BY <2>2 DEF BrokerInv, QueueInv
    <3>3. p \in Nat /\ o \in Nat
      BY <1>1 DEF Ops
    <3>4. QED BY <2>2, <3>1, <3>2, <3>3
  <2>10. QueueInv'
    <3>1. \A i, j \in 1..Len(queue') : i < j => queue'[i] < queue'[j]
      BY <2>2, <2>3 DEF BrokerInv, QueueInv
    <3>2. \A i \in 1..Len(queue') : state'[queue'[i]] # "absent"
      BY <1>1, <2>2, <2>3, <2>4 DEF BrokerInv, QueueInv
    <3>3. \A p \in Ops : state'[p] = "queued" => \E i \in 1..Len(queue') : queue'[i] = p
      <4> SUFFICES ASSUME NEW p \in Ops, state'[p] = "queued"
                   PROVE  \E i \in 1..Len(queue') : queue'[i] = p
        OBVIOUS
      <4>1. p # o /\ state[p] = "queued"
        BY <2>4
      <4>2. PICK i \in 1..Len(queue) : queue[i] = p
        BY <4>1 DEF BrokerInv, QueueInv
      <4>3. i - 1 \in 1..Len(queue') /\ (i - 1) + 1 = i
        BY <2>2, <2>3, <4>1, <4>2
      <4>4. QED BY <2>3, <4>2, <4>3
    <3>4. QED BY <3>1, <3>2, <3>3 DEF QueueInv
  <2>11. OneOutstanding'
    <3>1. \A p \in Ops : state'[p] \in Outstanding <=> p = o
      BY <1>1, <2>1, <2>4 DEF BrokerInv, OneOutstanding, Outstanding
    <3>2. o # NoOp
      BY <1>1 DEF Ops, NoOp
    <3>3. QED BY <1>1, <2>1, <3>1, <3>2 DEF OneOutstanding, Outstanding, NoOp
  <2>12. DispatchInOrder'
    BY <2>4, <2>5, <2>9 DEF BrokerInv, DispatchInOrder, NoMsg
  <2>13. LeftInv'
    <3>1. \A u \in Threads : pc'[u] = "invalidate" => pc[u] = "invalidate"
      BY <1>0, <1>2
    <3>2. QED BY <1>0, <2>6, <3>1 DEF BrokerInv, LeftInv, Progress, ThreadType
  <2>14. \A u \in Threads : ThreadInv(u)'
    <3> SUFFICES ASSUME NEW u \in Threads PROVE ThreadInv(u)'
      OBVIOUS
    <3>1. CASE u = t
      BY <1>2, <3>1, IdleThread
    <3>2. CASE u # t
      <4>1. ThreadInv(u) /\ (pc[u] = "invalidate" => left # {})
        BY DEF BrokerInv, ThreadInv
      <4>2. QED BY <1>0, <1>2, <2>6, <3>2, <4>1, ThreadKept
    <3>3. QED BY <3>1, <3>2
  <2>15. QED BY <2>7, <2>8, <2>10, <2>11, <2>12, <2>13, <2>14 DEF BrokerInv
<1> QED BY <1>4, <1>5

-----------------------------------------------------------------------------
(* The theorems *)

\* Every step keeps the invariant.
LEMMA BrokerInvStep == BrokerInv /\ [Next]_vars => BrokerInv'
<1> SUFFICES ASSUME BrokerInv, [Next]_vars PROVE BrokerInv'
  OBVIOUS
<1>1. CASE UNCHANGED vars
  <2>1. KernelType' /\ busyParent' \in Msgs
    BY <1>1 DEF vars, brokerVars, kernelVars, BrokerInv, Typed, KernelType, QueueType, Msgs, Ops,
                Reports
  <2>2. QED BY <1>1, <2>1, KernelStep DEF vars, brokerVars
<1>2. CASE \E o \in Ops : Enqueue(o)
  BY <1>2, EnqueueStep
<1>3. ASSUME NEW t \in Callers, DispatchNext(t) \/ Invalidate(t)
      PROVE  BrokerInv'
  BY <1>3, NextQueuedStep, SendStep, DispatchStep, InvalidateStep DEF DispatchNext
<1>4. ASSUME NEW t \in Callers, NEW o \in Ops, Cancel(t, o) \/ Timeout(t, o)
      PROVE  BrokerInv'
  BY <1>4, RequestStep DEF Cancel, Timeout
<1>5. ASSUME NEW t \in Threads, Continue(t)
      PROVE  BrokerInv'
  BY <1>5, MarkStep, InterruptSteps, FinishCancelledStep, InvalidateOneStep DEF Continue
<1>6. CASE Listen
  BY <1>6, BusyParentObserved, KernelObserved DEF Listen
<1>7. CASE \E m \in Msgs : ObserveReply(m)
  BY <1>7, ReplyObserved
<1>8. CASE BrowserSubmit \/ KernelStart \/ \E m \in Msgs : KernelFinish(m)
  BY <1>8, KernelSteps
<1> QED BY <1>1, <1>2, <1>3, <1>4, <1>5, <1>6, <1>7, <1>8 DEF Next

\* The invariant holds in every reachable state.
LEMMA BrokerInvariant == Spec => []BrokerInv
BY InitBroker, BrokerInvStep, PTL DEF Spec

\* Types of the records, the queue, the kernel and the threads: in particular every
\* operation that finish ends is given an outcome.
THEOREM TypeCorrect == Spec => []TypeOK
BY BrokerInvariant, TypesAgree, PTL DEF BrokerInv

\* The operations dispatched and not finished are exactly the one in _active, for any
\* number of threads that dispatch, cancel, time out and invalidate.
THEOREM AgentIsSerialised == Spec => []OneOutstanding
BY BrokerInvariant, PTL DEF BrokerInv

\* Operations are dispatched in the order in which they were enqueued, although
\* next_queued and dispatch are separate steps of any number of threads.
THEOREM DispatchedInOrder == Spec => []DispatchInOrder
BY BrokerInvariant, PTL DEF BrokerInv

=============================================================================
