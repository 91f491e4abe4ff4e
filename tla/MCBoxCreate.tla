----------------------------- MODULE MCBoxCreate -----------------------------
(* BoxCreate for TLC: at most one name starts with a leftover on it. *)
EXTENDS BoxCreate, FiniteSets, TLC

CONSTANTS w1, w2, p1, p2, MaxLeftovers

MCWorkspaces == {w1, w2}
MCProcs == {p1, p2}
Sym == Permutations(MCWorkspaces) \cup Permutations(MCProcs)

Leftovers == {n \in Names : registry[n] = NoWs /\ (Present(n) \/ parked[n] # NoWs)}

MCInit == Init /\ Cardinality(Leftovers) <= MaxLeftovers
MCSpec == MCInit /\ [][Next]_vars
=============================================================================
