-------------------------- MODULE NotebookService --------------------------
(***************************************************************************)
(* What the launch pipeline promises its users, with nothing about         *)
(* threads, docker, files or crashes: a workspace is a slot held by at     *)
(* most one session, sessions are used once, and every accepted launch is  *)
(* answered, as ready only with a session that served its workspace.       *)
(***************************************************************************)
CONSTANTS Launches,   \* launches, and the sessions they may claim
          Ws,         \* Ws[l]: the workspace of a launch or a session
          None        \* no session

VARIABLES
    slot,     \* workspace -> the sessions that hold it
    phase,    \* session -> fresh, starting, serving, draining or over
    served,   \* sessions that passed their readiness gates
    answer,   \* launch -> none, waiting, ready, failed or stopped
    given     \* launch -> the session a ready launch was given

svars == <<slot, phase, served, answer, given>>

Workspaces == {Ws[l] : l \in Launches}

SInit ==
    /\ slot = [w \in Workspaces |-> {}]
    /\ phase = [s \in Launches |-> "fresh"]
    /\ served = {}
    /\ answer = [l \in Launches |-> "none"]
    /\ given = [l \in Launches |-> None]

\* A launch is accepted.
Accept(l) ==
    /\ answer[l] = "none"
    /\ answer' = [answer EXCEPT ![l] = "waiting"]
    /\ UNCHANGED <<slot, phase, served, given>>

\* An accepted launch takes the free slot of its workspace with a new session,
\* even when a stop of the workspace has already answered it.
Claim(s) ==
    /\ phase[s] = "fresh" /\ answer[s] # "none"
    /\ slot[Ws[s]] = {}
    /\ slot' = [slot EXCEPT ![Ws[s]] = {s}]
    /\ phase' = [phase EXCEPT ![s] = "starting"]
    /\ UNCHANGED <<served, answer, given>>

Serve(s) ==
    /\ phase[s] = "starting"
    /\ phase' = [phase EXCEPT ![s] = "serving"]
    /\ served' = served \cup {s}
    /\ UNCHANGED <<slot, answer, given>>

\* A session on its way down keeps the slot until its resources are gone.
Drain(s) ==
    /\ phase[s] \in {"starting", "serving"}
    /\ phase' = [phase EXCEPT ![s] = "draining"]
    /\ UNCHANGED <<slot, served, answer, given>>

\* Only the end of the session that holds the slot frees it.
Release(s) ==
    /\ phase[s] \in {"starting", "serving", "draining"}
    /\ phase' = [phase EXCEPT ![s] = "over"]
    /\ slot' = [slot EXCEPT ![Ws[s]] = @ \ {s}]
    /\ UNCHANGED <<served, answer, given>>

\* Launches get their answers: final, but for a ready one that is stopped.
Answer ==
    /\ answer' \in [Launches -> {"none", "waiting", "ready", "failed", "stopped"}]
    /\ answer' # answer
    /\ \A l \in Launches : answer'[l] # answer[l] =>
          \/ answer[l] = "waiting" /\ answer'[l] \in {"ready", "failed", "stopped"}
          \/ answer[l] = "ready" /\ answer'[l] = "stopped"
    /\ given' \in [Launches -> served \cup {None}]
    /\ \A l \in Launches :
          IF answer'[l] = answer[l] THEN given'[l] = given[l]
          ELSE IF answer'[l] = "ready" THEN given'[l] # None /\ Ws[given'[l]] = Ws[l]
          ELSE given'[l] = None
    /\ UNCHANGED <<slot, phase, served>>

SNext ==
    \/ \E l \in Launches : Accept(l) \/ Claim(l) \/ Serve(l) \/ Drain(l) \/ Release(l)
    \/ Answer

SSpec == SInit /\ [][SNext]_svars
=============================================================================
