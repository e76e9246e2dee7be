--------------------------- MODULE MCSourceCache ----------------------------
(* A small instance of SourceCache: three launches of the commit. *)
EXTENDS SourceCache, TLC

CONSTANTS l1, l2, l3

MCThree == {l1, l2, l3}
MCSymmetry == Permutations(MCThree)
=============================================================================
