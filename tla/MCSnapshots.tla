----------------------------- MODULE MCSnapshots -----------------------------
(* Snapshots for TLC: one vault of two entries. *)
EXTENDS Snapshots, TLC

CONSTANTS e1, e2, p1

TwoEntries == {e1, e2}
OneRestorer == {p1}
Sym == Permutations(TwoEntries)
=============================================================================
