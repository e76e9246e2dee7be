------------------------- MODULE SessionRefinement -------------------------
(***************************************************************************)
(* SessionLifecycle implements NotebookService.  The slot of a workspace is *)
(* the set of rows the partial unique index covers; container, network,    *)
(* files, threads and the owner table are hidden.                          *)
(***************************************************************************)
EXTENDS SessionLifecycle

\* notebook_sessions.state as the phase of the service
PhaseOf(state) ==
    CASE state = "absent"   -> "fresh"
      [] state = "starting" -> "starting"
      [] state = "ready"    -> "serving"
      [] state = "stopping" -> "draining"
      [] state \in TerminalStates -> "over"

\* launches.state as the answer of the service
AnswerOf(state) ==
    CASE state = "absent" -> "none"
      [] state \in {"authorized", "starting"} -> "waiting"
      [] state \in {"ready", "failed", "stopped"} -> state

Service == INSTANCE NotebookService WITH
    slot   <- [w \in {Ws[l] : l \in Launches} |-> ActiveSessions(w)],
    phase  <- [s \in Sessions |-> PhaseOf(sessState[s])],
    served <- verified,
    answer <- [l \in Launches |-> AnswerOf(launchState[l])],
    given  <- [l \in Launches |-> IF launchState[l] = "ready" THEN launchSess[l] ELSE None]

\* Every step of the workers, the stop handler and the startup handler, crashes
\* included, is a step of the service or invisible in it: a slot is claimed only
\* when free and freed only by its holder's end (claim_session,
\* transition_session), rows of launches and sessions only move forward
\* (update_launch_state, fail_launches_for_session), and a launch becomes ready
\* only with a session of its workspace that passed its readiness gates, also
\* when it merely followed another launch's start (_reuse_existing_session).
ImplementsService == Service!SSpec
=============================================================================
