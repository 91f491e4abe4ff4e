----------------------------- MODULE MCWorksets -----------------------------
(* Worksets for TLC: two worksets, a name of a member, and a standalone box *)
(* that becomes a plain directory once it was absorbed and disconnected.    *)
EXTENDS Worksets, TLC

CONSTANTS r1, r2, n1, d1, p1, p2

MCRoots == {r1, r2}
MCNames == {n1}
MCDirs == {d1}
MCProcs == {p1, p2}
Sym == Permutations(MCRoots) \cup Permutations(MCProcs)
=============================================================================
