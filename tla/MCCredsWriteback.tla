-------------------------- MODULE MCCredsWriteback --------------------------
(* CredsWriteback for TLC: one box, its watchers (an old one may still leave
   when a new one starts), a host command and the host's own agent, all on one
   store. *)
EXTENDS CredsWriteback

CONSTANTS b1, w1, w2, c1

OneBox == {b1}
TwoWatchers == {w1, w2}
OneCommand == {c1}
=============================================================================
