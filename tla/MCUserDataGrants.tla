------------------------- MODULE MCUserDataGrants -------------------------
(* A small instance of UserDataGrants. *)
EXTENDS UserDataGrants, TLC

CONSTANTS g, o, h, c1, c2

MCCopiers  == {c1, c2}
MCSymmetry == Permutations(MCCopiers)
===========================================================================
