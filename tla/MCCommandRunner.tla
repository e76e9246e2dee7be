-------------------------- MODULE MCCommandRunner ---------------------------
(* A small instance of CommandRunner: a leader and two descendants. *)
EXTENDS CommandRunner

CONSTANTS k1, k2

MCKids == {k1, k2}
=============================================================================
