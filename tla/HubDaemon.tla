------------------------------ MODULE HubDaemon ------------------------------
(***************************************************************************)
(* The life of a box's helper hub process (channels/hub_daemon.py).  Each  *)
(* start of the box spawns one (commands/start.py); the newest takes the   *)
(* box's lock over from an earlier one, binds the socket, serves while     *)
(* probes find the box live and goes away with it.  A start that brings no *)
(* box up, and every `kanibako stop', stops the hub that holds the lock.   *)
(* What the hub does for helpers is HelperHub's subject.                   *)
(*                                                                         *)
(* The lock is a flock of an open file: whoever opens the file competes    *)
(* for it, a stop among them, which holds it for an instant to know that   *)
(* it is free.                                                             *)
(*                                                                         *)
(* Left out: ephemeral boxes, a pid that is reused, a box under an older   *)
(* name.  The 600 seconds a hub waits for its box are taken to outlast the *)
(* start, and its probes, 2 seconds apart, to find a box that is up.       *)
(***************************************************************************)
EXTENDS Naturals

CONSTANTS
  Launches,   \* starts of the box, in the order they begin, each with its hub
  Stops,      \* `kanibako stop' commands
  MissLimit   \* MISS_LIMIT

ASSUME LaunchesAssumption == Launches \subseteq Nat
ASSUME MissAssumption == MissLimit \in Nat \ {0}

\* Who calls stop_hub: a new hub, a start and a stop.
Callers == ({"hub", "start"} \X Launches) \cup ({"stop"} \X Stops)
Hub(l) == <<"hub", l>>
Starter(l) == <<"start", l>>
Stopper(s) == <<"stop", s>>
\* The second descriptor, with which a hub holds the lock in office.
Office(l) == <<"office", l>>
Holders == Callers \cup ({"office"} \X Launches)

VARIABLES
  box,      \* whether the box runs
  start,    \* the starts, and whether their hub answered ready
  call,     \* the calls of stop_hub
  hub,      \* the hub processes
  lock,     \* the lock's holder, if any
  pid,      \* the pid in the lock file, if any
  sock,     \* the hub whose socket the path names, if any
  odd       \* history: a process was killed, a start or a stop began beside another
            \* or a young hub, or probes of the running box failed MissLimit times

vars == <<box, start, call, hub, lock, pid, sock, odd>>

CallPCs == {"idle", "try", "read", "poll", "got"}
InOffice == {"locked", "bind", "serve", "sweep", "close"}
Gone == {"none", "failed", "gone", "killed"}
HubPCs == {"take", "open"} \cup InOffice \cup Gone
StartPCs == {"idle", "wait", "settle", "stop", "done", "released"}
HubState == [pc : HubPCs, term : BOOLEAN, due : BOOLEAN, misses : 0..MissLimit]
NoHub == [pc |-> "none", term |-> FALSE, due |-> FALSE, misses |-> 0]

TypeOK ==
  /\ box \in BOOLEAN
  /\ start \in [Launches -> [pc : StartPCs, ready : BOOLEAN]]
  /\ call \in [Callers -> CallPCs]
  /\ hub \in [Launches -> HubState]
  /\ lock \in SUBSET Holders /\ pid \in SUBSET Launches /\ sock \in SUBSET Launches
  /\ odd \in BOOLEAN

Init ==
  /\ box = FALSE /\ lock = {} /\ pid = {} /\ sock = {}
  /\ start = [l \in Launches |-> [pc |-> "idle", ready |-> FALSE]]
  /\ call = [c \in Callers |-> "idle"]
  /\ hub = [l \in Launches |-> NoHub]
  /\ odd = FALSE

Ended(l) == start[l].pc \in {"idle", "done", "released"}
Busy == \/ \E l \in Launches : ~Ended(l) \/ hub[l].pc \in {"take", "open", "locked", "bind"}
        \/ \E s \in Stops : call[Stopper(s)] # "idle"

StartTo(l, pc) == start' = [start EXCEPT ![l].pc = pc]
HubTo(l, pc) == hub' = [hub EXCEPT ![l].pc = pc]
CallTo(c, pc) == call' = [call EXCEPT ![c] = pc]
StartEnds(l) == start' = [start EXCEPT ![l] = [pc |-> "done", ready |-> FALSE]]
HubEnds(l, pc) == hub' = [hub EXCEPT ![l] = [NoHub EXCEPT !.pc = pc]]

\* stop_hub returns, or its caller is killed: the lock it may hold is free again.
Return(c) == CallTo(c, "idle") /\ lock' = lock \ {c}

-----------------------------------------------------------------------------
(* stop_hub *)

\* A free lock is taken for an instant, to be given back at once.
Try(c) ==
  /\ call[c] = "try"
  /\ IF lock = {} THEN lock' = {c} /\ CallTo(c, "got")
     ELSE UNCHANGED lock /\ CallTo(c, "read")
  /\ UNCHANGED <<box, start, hub, pid, sock, odd>>

\* The hub process whose pid is in the file by now gets a SIGTERM, which one that
\* ends already ignores.
Read(c) ==
  /\ call[c] = "read"
  /\ hub' = [l \in Launches |-> IF l \in pid /\ hub[l].pc \in {"bind", "serve"}
                                THEN [hub[l] EXCEPT !.term = TRUE] ELSE hub[l]]
  /\ CallTo(c, "poll")
  /\ UNCHANGED <<box, start, lock, pid, sock, odd>>

Poll(c) ==
  /\ call[c] = "poll" /\ lock = {}
  /\ lock' = {c} /\ CallTo(c, "got")
  /\ UNCHANGED <<box, start, hub, pid, sock, odd>>

\* A call that got the lock is over, and one that polls may be: STOP_TIMEOUT.
Over(c) == call[c] \in {"got", "poll"}

-----------------------------------------------------------------------------
(* A start *)

\* A running box is attached to, and nothing here happens; a start of one that is
\* not running spawns a hub and waits for its answer.  The spawn may fail.
Begin(l) ==
  /\ start[l].pc = "idle" /\ \A k \in Launches : k < l => start[k].pc # "idle"
  /\ ~box
  /\ odd' = (odd \/ Busy)
  /\ StartTo(l, "wait")
  /\ \/ HubTo(l, "take") /\ CallTo(Hub(l), "try")
     \/ UNCHANGED <<hub, call>>
  /\ UNCHANGED <<box, lock, pid, sock>>

\* A start that brings no box up stops the hub, in `finally' or in the exit hook.
Quit(l) ==
  /\ StartTo(l, "stop") /\ CallTo(Starter(l), "try")
  /\ UNCHANGED <<box, hub, lock, pid, sock, odd>>

\* It waits no longer: the hub is ready, or ended, or READY_TIMEOUT is over.
\* One of the refusals that follow ends it (the exit hook is there if the hub was
\* spawned),
Refuse(l) == start[l].pc = "wait" /\ hub[l].pc # "none" /\ Quit(l)
RefuseUnspawned(l) ==
  /\ start[l].pc = "wait" /\ hub[l].pc = "none"
  /\ StartEnds(l)
  /\ UNCHANGED <<box, call, hub, lock, pid, sock, odd>>

\* or it runs the container, which fails when another start has taken the name.
Run(l) ==
  /\ start[l].pc = "wait"
  /\ box' \in {box, TRUE}
  /\ StartTo(l, "settle")
  /\ UNCHANGED <<call, hub, lock, pid, sock, odd>>

Release(l) ==
  /\ start[l].pc = "settle" /\ box
  /\ StartTo(l, "released")
  /\ UNCHANGED <<box, call, hub, lock, pid, sock, odd>>

NotUp(l) == start[l].pc = "settle" /\ ~box /\ Quit(l)

Stopped(l) ==
  /\ start[l].pc = "stop" /\ Over(Starter(l))
  /\ StartEnds(l) /\ Return(Starter(l))
  /\ UNCHANGED <<box, hub, pid, sock, odd>>

\* A killed start runs no exit hook.
StartKilled(l) ==
  /\ ~Ended(l) /\ odd' = TRUE
  /\ StartEnds(l) /\ Return(Starter(l))
  /\ UNCHANGED <<box, hub, pid, sock>>

-----------------------------------------------------------------------------
(* The hub process *)

Taken(l) ==
  /\ hub[l].pc = "take" /\ Over(Hub(l))
  /\ IF call[Hub(l)] = "got" THEN HubTo(l, "open") ELSE HubEnds(l, "failed")
  /\ Return(Hub(l))
  /\ UNCHANGED <<box, start, pid, sock, odd>>

\* Mutated form of Open: that stop_hub had the lock is taken for having it.
OpenBlind(l) ==
  /\ hub[l].pc = "open"
  /\ lock' = lock \cup {Office(l)} /\ HubTo(l, "locked")
  /\ UNCHANGED <<box, start, call, pid, sock, odd>>

\* The lock is taken in a second open; another may have taken it meanwhile.
Open(l) ==
  /\ hub[l].pc = "open"
  /\ IF lock = {} THEN lock' = {Office(l)} /\ HubTo(l, "locked")
     ELSE UNCHANGED lock /\ HubEnds(l, "failed")
  /\ UNCHANGED <<box, start, call, pid, sock, odd>>

WritePid(l) ==
  /\ hub[l].pc = "locked"
  /\ pid' = {l} /\ HubTo(l, "bind")
  /\ UNCHANGED <<box, start, call, lock, sock, odd>>

\* The socket is bound and the start told, if it still waits: its end of the pipe
\* is closed when it goes on, and a hub that cannot write there ends, like one that
\* cannot bind.
Bind(l) ==
  /\ hub[l].pc = "bind"
  /\ \/ /\ sock' = {l} /\ start[l].pc = "wait"
        /\ HubTo(l, "serve") /\ start' = [start EXCEPT ![l].ready = TRUE]
     \/ /\ sock' = {l} /\ start[l].pc # "wait"
        /\ HubEnds(l, "sweep") /\ UNCHANGED start
     \/ HubEnds(l, "sweep") /\ UNCHANGED <<sock, start>>
  /\ UNCHANGED <<box, call, lock, pid, odd>>

Terminated(l) ==
  /\ hub[l].pc = "serve" /\ hub[l].term
  /\ HubEnds(l, "sweep")
  /\ UNCHANGED <<box, start, call, lock, pid, sock, odd>>

Least(a, b) == IF a < b THEN a ELSE b

\* A hub that read `live'.  Seeing its box and waiting out its grace come to the
\* same: enough misses are then the end.
Probed(h, live) ==
  [h EXCEPT !.due = @ \/ live, !.misses = IF live THEN 0 ELSE Least(@ + 1, MissLimit)]

\* Mutated form of Gives: the first miss ends the hub.
GivesAtOnce(h) == h.misses > 0 /\ h.due

\* decide_hub
Gives(h) == h.misses >= MissLimit /\ h.due

\* hub.rebind, if the path does not name the hub's socket; either of its steps may
\* fail, for the next tick to try again.
Rebind(l) == sock' \in IF l \in sock THEN {sock} ELSE {{l}, {}, sock}

\* A tick of serve: the probe, which may fail, and what is decided on it.
Tick(l) ==
  /\ hub[l].pc = "serve" /\ ~hub[l].term
  /\ \E live \in BOOLEAN :
       /\ live => box
       /\ LET h == Probed(hub[l], live) IN
          /\ odd' = (odd \/ (box /\ h.misses = MissLimit))
          /\ \/ /\ Gives(h) /\ UNCHANGED sock
                /\ HubEnds(l, "sweep")
             \/ /\ ~Gives(h) /\ Rebind(l)
                /\ hub' = [hub EXCEPT ![l] = h]
  /\ UNCHANGED <<box, start, call, lock, pid>>

\* Mutated form of GraceEnds: a box that was never seen is waited for without end.
GraceNever(l) ==
  /\ hub[l].pc = "serve" /\ ~hub[l].due /\ Ended(l) /\ ~box
  /\ UNCHANGED vars

GraceEnds(l) ==
  /\ hub[l].pc = "serve" /\ ~hub[l].due /\ Ended(l) /\ ~box
  /\ hub' = [hub EXCEPT ![l].due = TRUE]
  /\ UNCHANGED <<box, start, call, lock, pid, sock, odd>>

\* hub.stop: the helpers are stopped, then the hub's own socket is removed.
Sweep(l) ==
  /\ hub[l].pc = "sweep" /\ HubTo(l, "close")
  /\ sock' = sock \ {l}
  /\ UNCHANGED <<box, start, call, lock, pid, odd>>

\* The file is emptied and closed, which gives the lock up.
Close(l) ==
  /\ hub[l].pc = "close" /\ HubEnds(l, "gone")
  /\ pid' = {} /\ lock' = lock \ {Office(l)}
  /\ UNCHANGED <<box, start, call, sock, odd>>

HubKilled(l) ==
  /\ hub[l].pc \notin Gone /\ odd' = TRUE
  /\ HubEnds(l, IF hub[l].pc \in InOffice THEN "killed" ELSE "failed")
  /\ CallTo(Hub(l), "idle")
  /\ lock' = lock \ {Hub(l), Office(l)}
  /\ UNCHANGED <<box, start, pid, sock>>

-----------------------------------------------------------------------------
(* The stop command, and the box *)

\* The box is stopped, then its hub.
BeginStop(s) ==
  /\ call[Stopper(s)] = "idle"
  /\ odd' = (odd \/ Busy)
  /\ box' = FALSE /\ CallTo(Stopper(s), "try")
  /\ UNCHANGED <<start, hub, lock, pid, sock>>

EndStop(s) ==
  /\ Over(Stopper(s))
  /\ Return(Stopper(s))
  /\ UNCHANGED <<box, start, hub, pid, sock, odd>>

BoxEnds ==
  /\ box /\ box' = FALSE
  /\ UNCHANGED <<start, call, hub, lock, pid, sock, odd>>

\* The socket's directory is the box's to write.
BoxUnlinks ==
  /\ box /\ sock # {} /\ sock' = {}
  /\ UNCHANGED <<box, start, call, hub, lock, pid, odd>>

-----------------------------------------------------------------------------
StopHub(c) == Try(c) \/ Read(c) \/ Poll(c)

Start(l) ==
  \/ Refuse(l) \/ RefuseUnspawned(l) \/ Run(l) \/ Release(l) \/ NotUp(l)
  \/ StopHub(Starter(l)) \/ Stopped(l)

Serve(l) ==
  \/ StopHub(Hub(l)) \/ Taken(l) \/ Open(l) \/ WritePid(l) \/ Bind(l)
  \/ Terminated(l) \/ Tick(l) \/ Sweep(l) \/ Close(l)

Stop(s) == StopHub(Stopper(s)) \/ EndStop(s)

Next ==
  \/ \E l \in Launches : \/ Begin(l) \/ Start(l) \/ Serve(l) \/ GraceEnds(l)
                         \/ StartKilled(l) \/ HubKilled(l)
  \/ \E s \in Stops : BeginStop(s) \/ Stop(s)
  \/ BoxEnds \/ BoxUnlinks

\* Every process runs on, and time passes; nobody has to start, stop or end a box.
Fairness ==
  /\ \A l \in Launches : WF_vars(Start(l)) /\ WF_vars(Serve(l)) /\ WF_vars(GraceEnds(l))
  /\ \A s \in Stops : WF_vars(Stop(s))

Spec == Init /\ [][Next]_vars
LiveSpec == Spec /\ Fairness

-----------------------------------------------------------------------------
(* Properties *)

\* The hubs of a box follow each other in its one office, as HubSlot has it.
Slot == INSTANCE HubSlot WITH
  Hubs <- Launches,
  office <- {l \in Launches : hub[l].pc \in InOffice},
  answers <- {l \in sock : hub[l].pc \in InOffice},
  past <- {l \in Launches : hub[l].pc \in InOffice \cup {"gone", "killed"}}

\* Starts, stops, kills and time-outs in any order: never two hubs of a box at
\* once, and the socket reaches the one there is.
OneHub == Slot!Spec

\* A start that comes up with a hub that answered leaves the box with that hub for
\* as long as the box runs: a few failed probes do not take it, nor does an earlier
\* hub or the end of one.  Starts and stops of the box beside each other, and kills,
\* may take it.
KeepsHub == \A l \in Launches :
  /\ ~odd /\ box /\ start[l].pc = "released" /\ start[l].ready
  /\ \A k \in Launches : k > l => start[k].pc \in {"idle", "done"}
  => hub[l].pc = "serve"

\* Nothing of a box that ended stays behind: its starts return, no call of stop_hub
\* hangs on a hub that does not end, and its hubs go away, one that every stop has
\* missed included.
AtRest ==
  /\ \A l \in Launches : Ended(l) /\ hub[l].pc \in Gone
  /\ \A c \in Callers : call[c] = "idle"
ComesToRest == ~box ~> (box \/ AtRest)
=============================================================================
