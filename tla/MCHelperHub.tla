---------------------------- MODULE MCHelperHub ----------------------------
(* A model of HelperHub for TLC: two commands at once, two helper numbers. *)
EXTENDS HelperHub, TLC

CONSTANTS c1, c2

MCCmds == {c1, c2}
Symmetry == Permutations(MCCmds)
=============================================================================
