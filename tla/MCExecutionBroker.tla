------------------------ MODULE MCExecutionBroker -------------------------
(* Small instances of ExecutionBroker: two calling threads and the listener. *)
EXTENDS ExecutionBroker, TLC

CONSTANTS t1, t2

MCCallers == {t1, t2}
MCSymmetry == Permutations(MCCallers)
=============================================================================
