----------------------------- MODULE MCHelperClient -----------------------------
(* HelperClient for TLC: the owner and another thread. *)
EXTENDS HelperClient

CONSTANTS o, a

TwoThreads == {o, a}
=============================================================================
