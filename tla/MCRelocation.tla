---------------------------- MODULE MCRelocation ----------------------------
(* Relocation for TLC: two commands, a box and another one. *)
EXTENDS Relocation, TLC

CONSTANTS b1, b2, n1, n2, n3, w1, w2, w3, m1, m2

MCBoxes == {b1, b2}
MCNames == {n1, n2, n3}
MCPlaces == {w1, w2, w3}
MCMovers == {m1, m2}
Sym == Permutations(MCBoxes) \cup Permutations(MCNames)
       \cup Permutations(MCPlaces) \cup Permutations(MCMovers)
=============================================================================
