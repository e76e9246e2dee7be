-------------------------- MODULE ExecutionBroker --------------------------
(***************************************************************************)
(* Agent execution on a shared kernel: ExecutionBroker, which serialises   *)
(* the agent's operations and decides when a kernel-wide interrupt is      *)
(* safe, and ExecutionCoordinator, which acts on the kernel (execution.py).*)
(*                                                                         *)
(* A broker method holds the broker's lock and is one step.  A coordinator *)
(* method is several: between them other threads, the kernel and the       *)
(* browser move.  The kernel, the browser and the listener that feeds      *)
(* kernel status messages to the broker are external: src/ fixes only the  *)
(* methods the listener calls.                                             *)
(*                                                                         *)
(* A Jupyter message is <<o, k>>: the k-th request sent for operation o,   *)
(* or the k-th request of the browser when o = 0.                          *)
(***************************************************************************)
EXTENDS Naturals, Sequences, FiniteSets, FiniteSetsExt

CONSTANTS
    NumOps,       \* operations enqueued, in the order 1, 2, ...
    Callers,      \* threads that call the coordinator
    Listener,     \* the thread that observes the kernel
    Invalidates,  \* whether the session may be invalidated
    WaitsForIdle, \* the coordinator was given a wait_for_idle callback
    MaxSends,     \* bound on requests sent for one operation
    MaxBrowser    \* bound on requests of the browser

ASSUME BoundsAssumption ==
    /\ NumOps \in Nat /\ MaxSends \in Nat /\ MaxBrowser \in Nat
    /\ Listener \notin Callers
    /\ WaitsForIdle \in BOOLEAN /\ Invalidates \in BOOLEAN

VARIABLES
    state,      \* _records[o].state ("absent": not enqueued yet)
    msg,        \* _records[o].jupyter_msg_id
    parent,     \* _records[o].active_parent_msg_id
    wanted,     \* _records[o].requested_outcome
    queue, active, busyParent,   \* _queue, _active, _kernel_busy_parent
    sent,       \* how many requests the kernel was sent for o
    browser,    \* how many requests the browser sent
    kq,         \* requests waiting in the kernel
    kernel,     \* the request the kernel executes
    status,     \* status messages (iopub) the listener has not heard yet
    replies,    \* requests whose reply (shell) it has not heard yet
    pc, arg, out, left   \* control state of the threads, and local variables

recordVars == <<state, msg, parent, wanted>>
brokerVars == <<recordVars, queue, active, busyParent>>
kernelVars == <<sent, browser, kq, kernel, status, replies>>
locals     == <<out, left>>
threadVars == <<pc, arg, locals>>
vars == <<brokerVars, kernelVars, threadVars>>

Ops     == 1..NumOps
Threads == Callers \cup {Listener}
NoMsg   == <<0, 0>>
NoOp    == 0
Msgs    == (Ops \X (1..MaxSends)) \cup ({0} \X (0..MaxBrowser))

Terminal    == {"completed", "timeout", "cancelled"}
Outstanding == {"dispatched", "running", "cancel_pending", "cancelling"}

Init ==
    /\ state = [o \in Ops |-> "absent"]
    /\ msg = [o \in Ops |-> NoMsg] /\ parent = [o \in Ops |-> NoMsg]
    /\ wanted = [o \in Ops |-> "none"]
    /\ queue = <<>> /\ active = NoOp /\ busyParent = NoMsg
    /\ sent = [o \in Ops |-> 0] /\ browser = 0
    /\ kq = <<>> /\ kernel = NoMsg /\ status = <<>> /\ replies = {}
    /\ pc = [t \in Threads |-> "idle"] /\ arg = [t \in Threads |-> NoMsg]
    /\ out = [t \in Threads |-> "none"] /\ left = {}

-----------------------------------------------------------------------------
(* Broker methods *)

\* arg[t] is the operation a thread is about, with the message it has sent.
Goto(t, label, m) == pc' = [pc EXCEPT ![t] = label] /\ arg' = [arg EXCEPT ![t] = m]
Return(t)         == Goto(t, "idle", NoMsg)
OpOf(t)           == arg[t][1]

\* owns_active_kernel_request, of a record about to be written.
Owns(o, st, par) == /\ msg[o] # NoMsg /\ par = msg[o]
                    /\ st \in {"running", "cancel_pending"}

\* enqueue.
Enqueue(o) ==
    /\ state[o] = "absent"
    /\ \A p \in Ops : p < o => state[p] # "absent"
    /\ state' = [state EXCEPT ![o] = "queued"]
    /\ queue' = Append(queue, o)
    /\ UNCHANGED <<msg, parent, wanted, active, busyParent, kernelVars, threadVars>>

\* Mutant: finish forgets to free the broker.
FinishKeepsActive(o, outcome) ==
    /\ state' = [state EXCEPT ![o] = outcome]
    /\ active' = active

\* finish: no state is excluded.
Finish(o, outcome) ==
    /\ state' = [state EXCEPT ![o] = outcome]
    /\ active' = IF active = o THEN NoOp ELSE active

-----------------------------------------------------------------------------
(* dispatch_next: next_queued, kernel.dispatch, broker.dispatch *)

\* Mutant: next_queued drops everything before the newest queued operation.
NextQueuedNewest(t) ==
    /\ pc[t] = "idle" /\ t \in Callers
    /\ active = NoOp /\ busyParent = NoMsg
    /\ queue # <<>>
    /\ LET waiting == {i \in DOMAIN queue : state[queue[i]] = "queued"}
       IN  IF waiting = {} THEN queue' = <<>> /\ UNCHANGED <<pc, arg>>
           ELSE /\ queue' = SubSeq(queue, Max(waiting), Len(queue))
                /\ Goto(t, "send", <<queue[Max(waiting)], 0>>)
    /\ UNCHANGED <<recordVars, active, busyParent, kernelVars, locals>>

\* next_queued drops operations that are queued no longer from the head.
NextQueued(t) ==
    /\ pc[t] = "idle" /\ t \in Callers
    /\ active = NoOp /\ busyParent = NoMsg
    /\ queue # <<>>
    /\ LET waiting == {i \in DOMAIN queue : state[queue[i]] = "queued"}
       IN  IF waiting = {} THEN queue' = <<>> /\ UNCHANGED <<pc, arg>>
           ELSE /\ queue' = SubSeq(queue, Min(waiting), Len(queue))
                /\ Goto(t, "send", <<queue[Min(waiting)], 0>>)
    /\ UNCHANGED <<recordVars, active, busyParent, kernelVars, locals>>

\* kernel.dispatch: the request is on its way.
Send(t) ==
    LET o == OpOf(t)
        m == <<o, sent[o] + 1>>
    IN
    /\ pc[t] = "send" /\ sent[o] < MaxSends
    /\ sent' = [sent EXCEPT ![o] = @ + 1]
    /\ kq' = Append(kq, m)
    /\ Goto(t, "record", m)
    /\ UNCHANGED <<brokerVars, browser, kernel, status, replies, locals>>

\* What broker.dispatch demands.
Dispatchable(o) == /\ active = NoOp /\ busyParent = NoMsg
                   /\ state[o] = "queued"
                   /\ queue = <<>> \/ Head(queue) = o

\* Mutant: the operation is recorded without the message's id.
DispatchNoMessage(t) ==
    LET o == OpOf(t) IN
    /\ pc[t] = "record"
    /\ IF Dispatchable(o)
       THEN /\ queue' = IF queue = <<>> THEN queue ELSE Tail(queue)
            /\ state' = [state EXCEPT ![o] = "dispatched"]
            /\ msg' = [msg EXCEPT ![o] = <<o, 0>>]
            /\ active' = o
       ELSE UNCHANGED <<queue, state, msg, active>>
    /\ Return(t)
    /\ UNCHANGED <<parent, wanted, busyParent, kernelVars, locals>>

\* broker.dispatch; where a check fails it raises, and dispatch_next with it:
\* the message that was sent is then known to nobody.
Dispatch(t) ==
    LET o == OpOf(t) IN
    /\ pc[t] = "record"
    /\ IF Dispatchable(o)
       THEN /\ queue' = IF queue = <<>> THEN queue ELSE Tail(queue)
            /\ state' = [state EXCEPT ![o] = "dispatched"]
            /\ msg' = [msg EXCEPT ![o] = arg[t]]
            /\ active' = o
       ELSE UNCHANGED <<queue, state, msg, active>>
    /\ Return(t)
    /\ UNCHANGED <<parent, wanted, busyParent, kernelVars, locals>>

-----------------------------------------------------------------------------
(* cancel and timeout *)

\* request_cancel and request_timeout: a queued operation ends at once, and an
\* operation that has ended stays as it is.
Request(t, o, outcome) ==
    /\ pc[t] = "idle" /\ t \in Callers
    /\ state[o] \notin Terminal \cup {"absent"}
    /\ wanted' = [wanted EXCEPT ![o] = outcome]
    /\ state' = [state EXCEPT ![o] = IF @ = "queued" THEN outcome ELSE "cancel_pending"]
    /\ IF state[o] # "queued" /\ Owns(o, "cancel_pending", parent[o])
       THEN Goto(t, "mark", <<o, 0>>) ELSE UNCHANGED <<pc, arg>>
    /\ UNCHANGED <<msg, parent, queue, active, busyParent, kernelVars, locals>>

Cancel(t, o)  == Request(t, o, "cancelled")
Timeout(t, o) == Request(t, o, "timeout")

\* Mutant: a cancellation that became owned is never carried out.
MarkCancellingDropped(t) ==
    /\ pc[t] = "mark"
    /\ Return(t)
    /\ UNCHANGED <<brokerVars, kernelVars, locals>>

\* mark_cancelling: raises if the operation no longer owns the kernel; the
\* record it returns holds the outcome that was asked for.
MarkCancelling(t) ==
    LET o == OpOf(t) IN
    /\ pc[t] = "mark"
    /\ IF Owns(o, state[o], parent[o])
       THEN /\ state' = [state EXCEPT ![o] = "cancelling"]
            /\ out' = [out EXCEPT ![t] = wanted[o]]
            /\ Goto(t, "interrupt", arg[t])
       ELSE Return(t) /\ UNCHANGED <<state, out>>
    /\ UNCHANGED <<msg, parent, wanted, queue, active, busyParent, kernelVars, left>>

\* The request in execution ends, and those in dropped with it: the kernel is
\* idle, and each of them is answered.
KernelDone(dropped) ==
    /\ kernel' = NoMsg
    /\ status' = IF kernel = NoMsg THEN status
                 ELSE Append(status, [kind |-> "idle", of |-> kernel])
    /\ replies' = replies \cup ({kernel} \ {NoMsg}) \cup dropped

\* kernel.interrupt, whatever the kernel executes by now; the request may
\* ignore it.
Interrupt(t) ==
    /\ pc[t] = "interrupt"
    /\ KernelDone({}) \/ (kernel # NoMsg /\ UNCHANGED <<kernel, status, replies>>)
    /\ IF WaitsForIdle THEN Goto(t, "wait", arg[t]) ELSE Return(t)
    /\ UNCHANGED <<brokerVars, sent, browser, kq, locals>>

\* wait_for_idle; when the grace period is over the kernel is restarted, which
\* ends what it executes and drops what waits.
WaitIdle(t) ==
    /\ pc[t] = "wait"
    /\ \/ kernel = NoMsg /\ UNCHANGED <<kernel, kq, status, replies>>
       \/ kernel # NoMsg /\ KernelDone({kq[i] : i \in DOMAIN kq}) /\ kq' = <<>>
    /\ Goto(t, "finish", arg[t])
    /\ UNCHANGED <<brokerVars, sent, browser, locals>>

\* The end of _interrupt_owned.
FinishCancelled(t) ==
    /\ pc[t] = "finish"
    /\ Finish(OpOf(t), out[t])
    /\ Return(t)
    /\ UNCHANGED <<msg, parent, wanted, queue, busyParent, kernelVars, locals>>

-----------------------------------------------------------------------------
(* invalidate_session: a snapshot, then one finish after the other *)

Invalidate(t) ==
    /\ pc[t] = "idle" /\ t \in Callers /\ Invalidates
    /\ \A u \in Threads : pc[u] # "invalidate"
    /\ left' = {o \in Ops : state[o] \notin Terminal \cup {"absent"}}
    /\ left' # {}
    /\ Goto(t, "invalidate", NoMsg)
    /\ UNCHANGED <<brokerVars, kernelVars, out>>

InvalidateOne(t) ==
    /\ pc[t] = "invalidate"
    /\ LET o == Min(left) IN
          /\ Finish(o, "cancelled")
          /\ left' = left \ {o}
          /\ IF left = {o} THEN Return(t) ELSE UNCHANGED <<pc, arg>>
    /\ UNCHANGED <<msg, parent, wanted, queue, busyParent, kernelVars, out>>

-----------------------------------------------------------------------------
(* The listener (external) and the observe methods it calls *)

Hears(kind) == /\ pc[Listener] = "idle" /\ status # <<>> /\ Head(status).kind = kind
               /\ status' = Tail(status)
               /\ UNCHANGED <<sent, browser, kq, kernel, replies>>

\* The operation whose record names the message, if any.
OwnerOf(m) == {o \in Ops : m # NoMsg /\ msg[o] = m}

\* observe_busy_parent, for the operation that owns the message, or for the
\* active one when the message is not an operation's; the coordinator goes on
\* to interrupt a cancel-pending operation now seen to own the kernel.
ObserveBusyParent(o) ==
    LET m  == Head(status).of
        st == IF msg[o] = m /\ state[o] = "dispatched" THEN "running" ELSE state[o]
    IN
    /\ Hears("busy")
    /\ o \in OwnerOf(m) \/ (OwnerOf(m) = {} /\ o = active)
    /\ busyParent' = m
    /\ state' = [state EXCEPT ![o] = st]
    /\ parent' = [parent EXCEPT ![o] = m]
    /\ IF st = "cancel_pending" /\ Owns(o, st, m)
       THEN Goto(Listener, "mark", <<o, 0>>) ELSE UNCHANGED <<pc, arg>>
    /\ UNCHANGED <<msg, wanted, queue, active, locals>>

\* observe_kernel_busy, for a message that is no operation's.
ObserveKernelBusy ==
    /\ Hears("busy") /\ OwnerOf(Head(status).of) = {}
    /\ busyParent' = Head(status).of
    /\ UNCHANGED <<recordVars, queue, active, threadVars>>

\* observe_kernel_idle.
ObserveKernelIdle ==
    /\ Hears("idle")
    /\ busyParent' = NoMsg
    /\ UNCHANGED <<recordVars, queue, active, threadVars>>

\* The reply, on a channel of its own, ends the operation that owns the
\* message; it is held back while dispatch_next has yet to record the message.
ObserveReply(m) ==
    /\ m \in replies /\ replies' = replies \ {m}
    /\ \A t \in Callers : pc[t] = "record" => arg[t] # m
    /\ LET mine == {o \in OwnerOf(m) : state[o] \notin Terminal} IN
          IF mine = {} THEN UNCHANGED <<state, active>>
          ELSE \E o \in mine : Finish(o, IF wanted[o] = "none" THEN "completed" ELSE wanted[o])
    /\ UNCHANGED <<msg, parent, wanted, queue, busyParent, sent, browser, kq, kernel, status,
                   threadVars>>

-----------------------------------------------------------------------------
(* The kernel and the browser (external) *)

BrowserSubmit ==
    /\ browser < MaxBrowser
    /\ browser' = browser + 1
    /\ kq' = Append(kq, <<0, browser + 1>>)
    /\ UNCHANGED <<brokerVars, sent, kernel, status, replies, threadVars>>

KernelStart ==
    /\ kernel = NoMsg /\ kq # <<>>
    /\ kernel' = Head(kq) /\ kq' = Tail(kq)
    /\ status' = Append(status, [kind |-> "busy", of |-> Head(kq)])
    /\ UNCHANGED <<brokerVars, sent, browser, replies, threadVars>>

KernelFinish(m) ==
    /\ kernel = m /\ m # NoMsg
    /\ KernelDone({})
    /\ UNCHANGED <<brokerVars, sent, browser, kq, threadVars>>

-----------------------------------------------------------------------------
DispatchNext(t) == NextQueued(t) \/ Send(t) \/ Dispatch(t)
Continue(t)     == MarkCancelling(t) \/ Interrupt(t) \/ WaitIdle(t) \/ FinishCancelled(t)
                   \/ InvalidateOne(t)
Listen          == (\E o \in Ops : ObserveBusyParent(o)) \/ ObserveKernelBusy
                   \/ ObserveKernelIdle

Next ==
    \/ \E o \in Ops : Enqueue(o)
    \/ \E t \in Callers : DispatchNext(t) \/ Invalidate(t)
                          \/ \E o \in Ops : Cancel(t, o) \/ Timeout(t, o)
    \/ \E t \in Threads : Continue(t)
    \/ Listen \/ \E m \in Msgs : ObserveReply(m)
    \/ BrowserSubmit \/ KernelStart \/ \E m \in Msgs : KernelFinish(m)

Spec == Init /\ [][Next]_vars

\* Threads that are inside a method, the listener and the kernel go on; the
\* browser's requests end.  Nothing is assumed of the agent's: they may run on.
FairSpec ==
    /\ Spec
    /\ \A t \in Threads : WF_vars(Continue(t))
    /\ \A t \in Callers : WF_vars(Send(t)) /\ WF_vars(Dispatch(t))
    /\ WF_vars(Listen) /\ WF_vars(\E m \in Msgs : ObserveReply(m)) /\ WF_vars(KernelStart)
    /\ WF_vars(\E m \in Msgs : m[1] = 0 /\ KernelFinish(m))

-----------------------------------------------------------------------------
(* Properties *)

States == Terminal \cup Outstanding \cup {"absent", "queued"}

\* Types of the records, the queue, the kernel and the threads' local variables.
TypeOK ==
    /\ state \in [Ops -> States]
    /\ msg \in [Ops -> Msgs] /\ parent \in [Ops -> Msgs]
    /\ wanted \in [Ops -> {"none", "cancelled", "timeout"}]
    /\ queue \in Seq(Ops) /\ active \in Ops \cup {NoOp} /\ busyParent \in Msgs
    /\ sent \in [Ops -> 0..MaxSends] /\ browser \in 0..MaxBrowser
    /\ kq \in Seq(Msgs) /\ kernel \in Msgs
    /\ status \in Seq([kind : {"busy", "idle"}, of : Msgs])
    /\ replies \subseteq Msgs
    /\ pc \in [Threads -> {"idle", "send", "record", "mark", "interrupt", "wait",
                           "finish", "invalidate"}]
    /\ arg \in [Threads -> Msgs \cup (Ops \X {0})] /\ left \in SUBSET Ops
    /\ out \in [Threads -> {"none", "cancelled", "timeout"}]

\* The broker serialises the agent: the operations that are dispatched and not
\* finished are exactly the one in _active, however cancellations, timeouts,
\* late observations and invalidations interleave.
OneOutstanding == {o \in Ops : state[o] \in Outstanding} = {active} \ {NoOp}

\* Operations are dispatched in the order in which they were enqueued: once a
\* later one was dispatched, no earlier one is still queued.
DispatchInOrder == \A o, p \in Ops : o < p /\ msg[p] # NoMsg => state[o] # "queued"

\* A request in the kernel that belongs to no record, and never will.
Orphaned ==
    \E m \in {kernel} \cup {kq[i] : i \in DOMAIN kq} :
        /\ m[1] # 0 /\ OwnerOf(m) = {}
        /\ \A t \in Callers : pc[t] = "record" => arg[t] # m

\* A cancel or timeout of a dispatched operation takes effect even if its code
\* never ends by itself and even if a browser request runs before it; only a
\* request that dispatch_next sent and failed to record can stand in its way.
\* This takes a coordinator with a wait_for_idle: without one, its default,
\* _interrupt_owned leaves the end of the operation to the kernel's reply.
CancelTakesEffect ==
    \A o \in Ops : (state[o] = "cancel_pending") ~> (state[o] \in Terminal \/ Orphaned)
=============================================================================
