------------------------------- MODULE HubSlot -------------------------------
(***************************************************************************)
(* What the lock of hub_daemon.py promises a box: of all the hub processes *)
(* its launches ever started one at most is in office, only that one       *)
(* answers at the box's socket, it takes office when nobody holds it, and  *)
(* once out of office it does not come back.                               *)
(***************************************************************************)
CONSTANT Hubs

VARIABLES
  office,   \* the hub in office, if any
  answers,  \* the hub that answers at the socket path, if any
  past      \* the hubs that are, or were, in office

vars == <<office, answers, past>>

Init == office = {} /\ answers = {} /\ past = {}

Enter(h) ==
  /\ office = {} /\ h \notin past
  /\ office' = {h} /\ past' = past \cup {h}
  /\ answers' = {}

Answer == answers' \in SUBSET office /\ UNCHANGED <<office, past>>

Leave == office' = {} /\ answers' = {} /\ UNCHANGED past

Next == Answer \/ Leave \/ \E h \in Hubs : Enter(h)

Spec == Init /\ [][Next]_vars
=============================================================================
