---------------------------- MODULE MCHubDaemon ----------------------------
(* HubDaemon for TLC: two starts and a stop of one box. *)
EXTENDS HubDaemon

CONSTANT s1

TwoLaunches == 1..2
OneStop == {s1}
=============================================================================
