-------------------------- MODULE MCBoxSupervisor --------------------------
(* BoxSupervisor for TLC: the command lines that differ, one panel agent. *)
EXTENDS BoxSupervisor

CONSTANT q1

OnePanel == {q1}
\* A foreground launch, a detached one with the takeover, and a warm-up.
Launches == {[teardown |-> TRUE, takeover |-> FALSE, panelWatch |-> FALSE],
             [teardown |-> FALSE, takeover |-> TRUE, panelWatch |-> FALSE],
             [teardown |-> FALSE, takeover |-> FALSE, panelWatch |-> TRUE]}
=============================================================================
