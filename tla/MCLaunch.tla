------------------------------- MODULE MCLaunch -------------------------------
(* Launch for TLC: two processes, each of any number of commands. *)
EXTENDS Launch, TLC

CONSTANTS p1, p2

TwoProcs == {p1, p2}
Sym == Permutations(TwoProcs)
=============================================================================
