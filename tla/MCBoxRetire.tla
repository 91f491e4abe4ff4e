----------------------------- MODULE MCBoxRetire -----------------------------
(* BoxRetire for TLC: one create beside rm, purge and register commands. *)
EXTENDS BoxRetire, TLC

CONSTANTS w1, w2, p1, r1, r2

TwoWorkspaces == {w1, w2}
OneCreate == {p1}
TwoRetirers == {r1, r2}
Sym == Permutations(TwoWorkspaces) \cup Permutations(TwoRetirers)
=============================================================================
