--------------------------- MODULE CommandRunner ----------------------------
(***************************************************************************)
(* run_argv of orchestration.py on POSIX: one command, run in a session of *)
(* its own, polled until it exits, is cancelled or is past its deadline,   *)
(* while a reader thread drains its output.                                *)
(*                                                                         *)
(* The command's leader may start descendants.  They are born into its     *)
(* process group, may leave it (setsid), and keep the output pipes open as *)
(* long as they do not close them.  A leader that has exited stays a       *)
(* zombie, and with it the process group, until run_argv waits for it.     *)
(* The two pipes and their readers behave alike and are modelled as one.   *)
(***************************************************************************)
EXTENDS Naturals

CONSTANTS
    Kids,          \* descendants the command may start
    Leader,        \* the process Popen starts
    PipeSize,      \* bytes the pipe holds before a writer blocks
    CaptureLimit,  \* capture_limit: max_output_bytes and the longest redaction
    MaxBytes       \* bound: bytes the command writes

ASSUME LeaderAssumption == Leader \notin Kids
ASSUME SizesAssumption  == PipeSize \in Nat \ {0} /\ CaptureLimit \in Nat \ {0} /\ MaxBytes \in Nat

VARIABLES
    leader,          \* "running", "zombie" or "reaped"
    group,           \* living descendants in the leader's process group
    escaped,         \* living descendants that left it
    unborn,          \* descendants not started yet
    holders,         \* processes with the pipe's write end open
    pipe, written,   \* bytes in the pipe; bytes written altogether
    total, kept,     \* _BoundedCapture: bytes seen and bytes kept
    reader,          \* the reader thread
    pc, failure,     \* control state of run_argv, and the error it will raise
    cancelled, due,  \* cancel_requested() is true or raises; the deadline passed
    graceOver        \* terminate_grace_seconds have passed since SIGTERM

procVars   == <<leader, group, escaped, unborn, holders>>
outputVars == <<pipe, written, total, kept, reader>>
clockVars  == <<cancelled, due, graceOver>>
argvVars == <<procVars, outputVars, pc, failure, clockVars>>

ArgvInit ==
    /\ leader = "running" /\ group = {} /\ escaped = {} /\ unborn = Kids
    /\ holders = {Leader}
    /\ pipe = 0 /\ written = 0 /\ total = 0 /\ kept = 0 /\ reader = "reading"
    /\ pc = "poll" /\ failure = "none"
    /\ cancelled = FALSE /\ due = FALSE /\ graceOver = FALSE

Alive == group \cup escaped \cup (IF leader = "running" THEN {Leader} ELSE {})

\* killpg finds somebody: a zombie counts until it is waited for.
GroupExists == group # {} \/ leader # "reaped"

-----------------------------------------------------------------------------
(* The command and its descendants *)

\* A child is born in the group of its parent, with the parent's open pipe.
Fork(parent, kid) ==
    /\ parent \in Alive /\ kid \in unborn
    /\ unborn' = unborn \ {kid}
    /\ IF parent \in escaped THEN escaped' = escaped \cup {kid} /\ UNCHANGED group
       ELSE group' = group \cup {kid} /\ UNCHANGED escaped
    /\ holders' = IF parent \in holders THEN holders \cup {kid} ELSE holders
    /\ UNCHANGED <<leader, outputVars, pc, failure, clockVars>>

Escape(kid) ==
    /\ kid \in group
    /\ group' = group \ {kid} /\ escaped' = escaped \cup {kid}
    /\ UNCHANGED <<leader, unborn, holders, outputVars, pc, failure, clockVars>>

ClosePipe(p) ==
    /\ p \in holders
    /\ holders' = holders \ {p}
    /\ UNCHANGED <<leader, group, escaped, unborn, outputVars, pc, failure, clockVars>>

Write(p) ==
    /\ p \in holders /\ pipe < PipeSize /\ written < MaxBytes
    /\ pipe' = pipe + 1 /\ written' = written + 1
    /\ UNCHANGED <<procVars, total, kept, reader, pc, failure, clockVars>>

\* What is left of the processes when those in dead have ended.
Died(dead) ==
    /\ leader' = IF Leader \in dead THEN "zombie" ELSE leader
    /\ group' = group \ dead /\ escaped' = escaped \ dead
    /\ holders' = holders \ dead
    /\ UNCHANGED unborn

Exit(p) ==
    /\ p \in Alive
    /\ Died({p})
    /\ UNCHANGED <<outputVars, pc, failure, clockVars>>

-----------------------------------------------------------------------------
(* The reader thread: _BoundedCapture.read *)

\* Mutant: the reader stops draining the pipe at the limit.
ReadToLimit ==
    /\ reader = "reading" /\ pipe > 0 /\ kept < CaptureLimit
    /\ pipe' = pipe - 1 /\ total' = total + 1 /\ kept' = kept + 1
    /\ UNCHANGED <<procVars, written, reader, pc, failure, clockVars>>

\* Bytes beyond the limit are counted and dropped.
Read ==
    /\ reader = "reading" /\ pipe > 0
    /\ pipe' = pipe - 1 /\ total' = total + 1
    /\ kept' = IF kept < CaptureLimit THEN kept + 1 ELSE kept
    /\ UNCHANGED <<procVars, written, reader, pc, failure, clockVars>>

\* End of file: the pipe is empty and nobody can write to it any more.
EndOfFile ==
    /\ reader = "reading" /\ pipe = 0 /\ holders = {}
    /\ reader' = "done"
    /\ UNCHANGED <<procVars, pipe, written, total, kept, pc, failure, clockVars>>

-----------------------------------------------------------------------------
(* run_argv and _stop_process *)

\* One round of the loop: process.poll() reaps a leader that has exited; else
\* a cancellation, an error of cancel_requested or the deadline stops it.
Poll ==
    /\ pc = "poll"
    /\ \/ /\ leader = "zombie"
          /\ leader' = "reaped" /\ pc' = "join" /\ UNCHANGED failure
       \/ /\ leader = "running"
          /\ \/ failure' \in {"cancelled", "error"} /\ cancelled
             \/ failure' = "timeout" /\ due /\ ~cancelled
          /\ pc' = "terminate" /\ UNCHANGED leader
    /\ UNCHANGED <<group, escaped, unborn, holders, outputVars, clockVars>>

\* killpg(SIGTERM): each member may end now or go on.
Terminate ==
    /\ pc = "terminate"
    /\ \E dead \in SUBSET (Alive \ escaped) : Died(dead)
    /\ pc' = "grace"
    /\ UNCHANGED <<outputVars, failure, clockVars>>

\* Mutant: the wait ends with the leader, not with its group.
GraceForLeader ==
    /\ pc = "grace"
    /\ graceOver \/ leader # "running"
    /\ pc' = IF leader = "running" THEN "kill" ELSE "wait"
    /\ UNCHANGED <<procVars, outputVars, failure, clockVars>>

\* Mutant: the wait polls the process, which reaps it.
GracePolls ==
    /\ pc = "grace" /\ graceOver
    /\ leader' = IF leader = "zombie" THEN "reaped" ELSE leader
    /\ pc' = "kill"
    /\ UNCHANGED <<group, escaped, unborn, holders, outputVars, failure, clockVars>>

\* The group is probed with signal 0 until it is gone or the grace is over.
Grace ==
    /\ pc = "grace"
    /\ graceOver \/ ~GroupExists
    /\ pc' = IF GroupExists THEN "kill" ELSE "wait"
    /\ UNCHANGED <<procVars, outputVars, failure, clockVars>>

\* killpg(SIGKILL): the whole group ends.
Kill ==
    /\ pc = "kill"
    /\ Died(Alive \ escaped)
    /\ pc' = "wait"
    /\ UNCHANGED <<outputVars, failure, clockVars>>

\* process.wait()
Wait ==
    /\ pc = "wait" /\ leader = "zombie"
    /\ leader' = "reaped" /\ pc' = "join"
    /\ UNCHANGED <<group, escaped, unborn, holders, outputVars, failure, clockVars>>

\* reader.join(), without a timeout; then the result is built or the failure
\* is raised.
Join ==
    /\ pc = "join" /\ reader = "done"
    /\ pc' = "done"
    /\ UNCHANGED <<procVars, outputVars, failure, clockVars>>

-----------------------------------------------------------------------------
(* The caller and the clock *)

RequestCancel ==
    /\ ~cancelled /\ pc = "poll" /\ cancelled' = TRUE
    /\ UNCHANGED <<procVars, outputVars, pc, failure, due, graceOver>>

DeadlinePasses ==
    /\ ~due /\ pc # "done" /\ due' = TRUE
    /\ UNCHANGED <<procVars, outputVars, pc, failure, cancelled, graceOver>>

GraceEnds ==
    /\ pc = "grace" /\ ~graceOver /\ graceOver' = TRUE
    /\ UNCHANGED <<procVars, outputVars, pc, failure, cancelled, due>>

Processes == \/ \E p \in Alive, k \in Kids : Fork(p, k)
             \/ \E k \in Kids : Escape(k)
             \/ \E p \in Kids \cup {Leader} : ClosePipe(p) \/ Write(p) \/ Exit(p)
Reader    == Read \/ EndOfFile
Runner    == Poll \/ Terminate \/ Grace \/ Kill \/ Wait \/ Join

ArgvNext == Processes \/ Reader \/ Runner \/ RequestCancel \/ DeadlinePasses \/ GraceEnds

ArgvSpec == ArgvInit /\ [][ArgvNext]_argvVars

\* The launcher's two threads run and time passes; the command need do nothing.
FairArgvSpec == ArgvSpec /\ WF_argvVars(Runner) /\ WF_argvVars(Reader) /\ WF_argvVars(GraceEnds)

-----------------------------------------------------------------------------
(* Properties *)

\* A command that was stopped (cancelled, timed out, or its cancel_requested
\* raised) is gone with all its process group by the time run_argv raises: no
\* descendant of it works on in the background, whatever it does with SIGTERM
\* and whenever the leader exits.
StoppedGroupGone ==
    pc \in {"join", "done"} /\ failure # "none" => group = {} /\ leader = "reaped"

\* A signal is sent only while the group still exists, so that its number
\* cannot have been given to somebody else's process.
SignalsOwnGroup == pc \in {"terminate", "kill"} => GroupExists

\* A command that is cancelled, or past its deadline, ends run_argv, unless a
\* process with the command's output pipe open lives on for ever.
StopEndsRun ==
    ~ <>[](pc = "join" /\ holders # {}) => ((cancelled \/ due) ~> pc = "done")
=============================================================================
