------------------------------ MODULE HelperHub ------------------------------
(***************************************************************************)
(* Helper boxes: an agent in a box runs `kanibako box helper spawn',       *)
(* respawn, stop or cleanup (commands/helper_cmd.py), and the box's hub on *)
(* the host (channels/helper_listener.py, run by channels/hub_daemon.py)   *)
(* hands out numbers and starts and stops the containers.                  *)
(*                                                                         *)
(* Box 0 is the director; helper n of box b has its home in b's home, at   *)
(* place <<b, n>>, with a state document the commands write.  A command    *)
(* talks to a thread of the hub and may stop waiting for it (30 s).  The   *)
(* hub ends with its box, by a sweep that holds its lock; what podman was  *)
(* asked to start by then may start later.                                 *)
(*                                                                         *)
(* One command at a time works on a helper: a helper's own spawns beside a *)
(* stop or cleanup of it are in the model, two launches of it are not, nor *)
(* a retry while the hub still works on the first try.                     *)
(*                                                                         *)
(* Not modelled: messages between helpers, fork, spawn budgets, a podman   *)
(* stop that fails, a label query that fails in the sweep, a killed hub,   *)
(* the daemon's lock and its liveness probe (three failed ones end the hub *)
(* of a running box), and the bare directory a launch leaves whose home    *)
(* was removed under it.                                                   *)
(***************************************************************************)
EXTENDS Naturals, FiniteSets

CONSTANTS
  MaxNum,   \* bound: the highest helper number handed out
  Cmds      \* helper commands that may run at the same time

ASSUME MaxNumAssumption == MaxNum \in Nat \ {0}

Nums == 1..MaxNum
Boxes == 0..MaxNum
Places == {p \in Boxes \X Nums : p[1] # p[2]}
None == MaxNum + 1  \* no box

VARIABLES
  hub,   \* the hub: its phase, counter, reserved homes and held containers
  live,  \* whether the director's box runs
  disk,  \* the state document of every helper home
  ctr,   \* the helper containers: not there, running or exited, and whose helper
         \* each is; None once its home was removed under it
  proc,  \* the commands, in their boxes
  req    \* the hub's threads, one for each command's request

vars == <<hub, live, disk, ctr, proc, req>>

NoHelper == [st |-> "none", named |-> FALSE]
NoCtr == [st |-> "none", of |-> None]
NoProc == [pc |-> "idle", op |-> "none", box |-> None, n |-> None, named |-> FALSE,
           todo |-> {}, all |-> {}, kept |-> FALSE, blind |-> FALSE]
NoReq == [pc |-> "none", n |-> None, of |-> None, held |-> FALSE]
NoHub == [pc |-> "down", next |-> 1, homes |-> [n \in Nums |-> None],
          held |-> {}, sweep |-> {}, seen |-> FALSE]

Answers == {"ok", "error", "off", "refused"}
Works == {"reserve", "clear", "run", "record", "release", "lookup", "query",
          "stop", "unhold"}

HubStates ==
  [pc : {"down", "up", "sweep", "closing"}, next : 1..MaxNum + 1,
   homes : [Nums -> Boxes \cup {None}], held : SUBSET Nums, sweep : SUBSET Nums,
   seen : BOOLEAN]
Documents == [st : {"none", "spawned", "failed", "running", "stopped"}, named : BOOLEAN]
Containers == [st : {"none", "running", "exited"}, of : Boxes \cup {None}]
Commands ==
  [pc : {"idle", "make", "ask", "wait", "each", "asked", "remove"},
   op : {"none", "spawn", "respawn", "stop", "cleanup"},
   box : Boxes \cup {None}, n : Nums \cup {None}, named : BOOLEAN,
   todo : SUBSET Places, all : SUBSET Places, kept : BOOLEAN, blind : BOOLEAN]
Requests ==
  [pc : {"none", "orphan"} \cup Works \cup Answers, n : Nums \cup {None},
   of : Boxes \cup {None}, held : BOOLEAN]

TypeOK ==
  /\ hub \in HubStates
  /\ live \in BOOLEAN
  /\ disk \in [Places -> Documents]
  /\ ctr \in [Nums -> Containers]
  /\ proc \in [Cmds -> Commands]
  /\ req \in [Cmds -> Requests]

Init ==
  /\ hub = NoHub
  /\ live = FALSE
  /\ disk = [p \in Places |-> NoHelper]
  /\ ctr = [n \in Nums |-> NoCtr]
  /\ proc = [c \in Cmds |-> NoProc]
  /\ req = [c \in Cmds |-> NoReq]

-----------------------------------------------------------------------------
Up == hub.pc = "up"
Exists(p) == disk[p].st # "none"
HasHome(b) == IF b = 0 THEN TRUE ELSE ctr[b].of # None
Running(n) == ctr[n].st = "running"
Alive(b) == IF b = 0 THEN live ELSE Running(b)
Free(c) == proc[c] = NoProc /\ req[c] = NoReq

\* The helpers a command and its thread work on.
Holds(c) == ({proc[c].n, req[c].n} \cup {p[2] : p \in proc[c].all}) \ {None}
Untouched(nums) == \A c \in Cmds : Holds(c) \cap nums = {}

Waits(c) == proc[c].pc \in {"wait", "asked"}
End(c) == proc' = [proc EXCEPT ![c] = NoProc]

\* A command writes below its box's home, which must still be there.  A helper it
\* works on goes with that home only, since no other command works on it.
Write(c, p, st, named) ==
  /\ HasHome(proc[c].box) /\ Exists(p)
  /\ disk' = [disk EXCEPT ![p] = [st |-> st, named |-> named]]

\* The commands in a box that ends end with it, wherever they are; an answer on
\* its way to them is lost and a thread that works for them goes on.
Without(dead) == [c \in Cmds |-> IF proc[c].box \in dead THEN NoProc ELSE proc[c]]
Unread(dead) == [c \in Cmds |->
  IF proc[c].box \in dead /\ req[c].pc \in Answers THEN NoReq ELSE req[c]]
BoxesEnd(dead) == proc' = Without(dead) /\ req' = Unread(dead)

\* A helper and the helpers below it, at any depth, to be taken deepest first: the
\* least set of homes with p that has with a home every home made in its box.
Closed(S) == \A p \in S, q \in Places : Exists(q) /\ q[1] = p[2] => q \in S
Subtree(p) ==
  LET around == {S \in SUBSET Places : p \in S /\ Closed(S)}
  IN {q \in Places : \A S \in around : q \in S}
Deepest(set) == {p \in set : \A q \in set : q[1] # p[2]}

-----------------------------------------------------------------------------
(* spawn and respawn, in the box *)

\* The hub is there and gives the next number; it gives no number twice.
Spawn(c, b) ==
  /\ Free(c) /\ Alive(b) /\ Up /\ hub.next \in Nums \ {b}
  /\ proc' = [proc EXCEPT ![c] =
       [NoProc EXCEPT !.pc = "make", !.op = "spawn", !.box = b, !.n = hub.next]]
  /\ hub' = [hub EXCEPT !.next = @ + 1]
  /\ UNCHANGED <<live, disk, ctr, req>>

\* The home and its first state document.
Make(c) ==
  /\ proc[c].pc = "make"
  /\ HasHome(proc[c].box)
  /\ disk' = [disk EXCEPT ![<<proc[c].box, proc[c].n>>] = [st |-> "spawned", named |-> FALSE]]
  /\ proc' = [proc EXCEPT ![c].pc = "ask"]
  /\ UNCHANGED <<hub, live, ctr, req>>

\* Only a stopped helper is respawned.
Respawn(c, b, n) ==
  /\ Free(c) /\ Alive(b) /\ HasHome(b) /\ Up /\ <<b, n>> \in Places
  /\ disk[<<b, n>>].st = "stopped" /\ Untouched({n})
  /\ proc' = [proc EXCEPT ![c] =
       [NoProc EXCEPT !.pc = "ask", !.op = "respawn", !.box = b, !.n = n,
                      !.named = disk[<<b, n>>].named]]
  /\ UNCHANGED <<hub, live, disk, ctr, req>>

AskLaunch(c) ==
  /\ proc[c].pc = "ask" /\ Up
  /\ proc' = [proc EXCEPT ![c].pc = "wait"]
  /\ req' = [req EXCEPT ![c] =
       [pc |-> "reserve", n |-> proc[c].n, of |-> proc[c].box, held |-> FALSE]]
  /\ UNCHANGED <<hub, live, disk, ctr>>

Launched(c) ==
  /\ proc[c].pc = "wait" /\ req[c].pc = "ok"
  /\ Write(c, <<proc[c].box, proc[c].n>>, "running", TRUE)
  /\ End(c)
  /\ req' = [req EXCEPT ![c] = NoReq]
  /\ UNCHANGED <<hub, live, ctr>>

\* The connection ended without an answer, or it takes more than 30 seconds:
\* the thread then goes on for nobody.
NoAnswer(c) == req[c].pc \notin Answers

Drop(c) == req' = [req EXCEPT ![c] = IF @.pc \in Answers THEN NoReq ELSE @]

\* A failed spawn is marked failed; a failed respawn stays stopped.
NotLaunched(c) ==
  /\ \/ proc[c].pc = "ask" /\ ~Up
     \/ proc[c].pc = "wait" /\ (req[c].pc = "error" \/ NoAnswer(c))
  /\ Write(c, <<proc[c].box, proc[c].n>>,
           IF proc[c].op = "spawn" THEN "failed" ELSE "stopped", proc[c].named)
  /\ End(c)
  /\ Drop(c)
  /\ UNCHANGED <<hub, live, ctr>>

-----------------------------------------------------------------------------
(* stop and cleanup, in the box *)

StopOrCleanup(c, b, n, op) ==
  /\ Free(c) /\ Alive(b) /\ HasHome(b) /\ <<b, n>> \in Places /\ Exists(<<b, n>>)
  /\ LET targets == Subtree(<<b, n>>) IN
       /\ Untouched({p[2] : p \in targets})
       /\ proc' = [proc EXCEPT ![c] =
            [NoProc EXCEPT !.pc = "each", !.op = op, !.box = b, !.n = n,
                           !.todo = targets, !.all = targets]]
  /\ UNCHANGED <<hub, live, disk, ctr, req>>

Next1(c, p) ==
  proc[c].pc \in {"each", "asked"} /\ HasHome(proc[c].box) /\ p \in Deepest(proc[c].todo)
Done(c, p, kept, blind) ==
  proc' = [proc EXCEPT ![c].pc = "each", ![c].todo = @ \ {p},
                       ![c].kept = @ \/ kept, ![c].blind = @ \/ blind]

\* stop passes over a helper that is marked stopped.
Skip(c, p) ==
  /\ Next1(c, p) /\ proc[c].pc = "each"
  /\ proc[c].op = "stop" /\ disk[p].st = "stopped"
  /\ Done(c, p, FALSE, FALSE)
  /\ UNCHANGED <<hub, live, disk, ctr, req>>

Asks(c, p) == proc[c].op = "cleanup" \/ disk[p].st # "stopped"

\* No container in the document, or no hub to ask: the helper counts as stopped.
NoneToAsk(c, p) ==
  /\ Next1(c, p) /\ proc[c].pc = "each" /\ Asks(c, p)
  /\ ~disk[p].named \/ ~Up
  /\ Write(c, p, "stopped", disk[p].named)
  /\ Done(c, p, FALSE, disk[p].named)
  /\ UNCHANGED <<hub, live, ctr, req>>

AskStop(c, p) ==
  /\ Next1(c, p) /\ proc[c].pc = "each" /\ Asks(c, p)
  /\ disk[p].named /\ Up /\ req[c] = NoReq
  /\ proc' = [proc EXCEPT ![c] = [@ EXCEPT !.pc = "asked", !.n = p[2], !.named = TRUE]]
  /\ req' = [req EXCEPT ![c] = [NoReq EXCEPT !.pc = "lookup", !.n = p[2]]]
  /\ UNCHANGED <<hub, live, disk, ctr>>

\* The hub stopped it or knows that it does not run; an answer that never came
\* is taken for one.
Stopped(c, p) ==
  /\ Next1(c, p) /\ proc[c].pc = "asked" /\ proc[c].n = p[2]
  /\ req[c].pc \in {"ok", "off"} \/ NoAnswer(c)
  /\ Write(c, p, "stopped", proc[c].named)
  /\ Done(c, p, FALSE, req[c].pc \notin {"ok", "off"})
  /\ Drop(c)
  /\ UNCHANGED <<hub, live, ctr>>

Refused(c, p) ==
  /\ Next1(c, p) /\ proc[c].pc = "asked" /\ proc[c].n = p[2] /\ req[c].pc = "refused"
  /\ Done(c, p, TRUE, FALSE)
  /\ Drop(c)
  /\ UNCHANGED <<hub, live, disk, ctr>>

\* All were asked: stop is done, and so is a cleanup that met a refusal.
AllAsked(c) ==
  /\ proc[c].pc = "each" /\ proc[c].todo = {}
  /\ IF proc[c].op = "stop" \/ proc[c].kept THEN End(c)
     ELSE proc' = [proc EXCEPT ![c].pc = "remove", ![c].todo = @ \cup proc[c].all]
  /\ UNCHANGED <<hub, live, disk, ctr, req>>

\* A home goes with all that is below it; a container that runs on one of them
\* keeps none.
Remove(c, p) ==
  /\ proc[c].pc = "remove" /\ HasHome(proc[c].box) /\ p \in Deepest(proc[c].todo)
  /\ disk' = [q \in Places |-> IF q \in Subtree(p) THEN NoHelper ELSE disk[q]]
  /\ ctr' = [n \in Nums |->
       IF <<ctr[n].of, n>> \in Subtree(p) THEN [ctr[n] EXCEPT !.of = None] ELSE ctr[n]]
  /\ IF proc[c].todo = {p} THEN End(c)
     ELSE proc' = [proc EXCEPT ![c].todo = @ \ {p}]
  /\ UNCHANGED <<hub, live, req>>

\* The command is interrupted, or a write of it fails, as all do once its box's
\* home is gone.
Die(c) ==
  /\ proc[c] # NoProc
  /\ End(c)
  /\ Drop(c)
  /\ UNCHANGED <<hub, live, disk, ctr>>

-----------------------------------------------------------------------------
(* the hub's threads; Lock is _containers_lock, which only the sweep keeps *)

Lock == hub.pc \in {"up", "closing"}

At(c, pc) == hub.pc # "down" /\ req[c].pc = pc
Goto(c, pc) == req' = [req EXCEPT ![c].pc = pc]

\* An answer nobody waits for is lost.
Answer(c, a) == req' = [req EXCEPT ![c] = IF Waits(c) THEN [@ EXCEPT !.pc = a] ELSE NoReq]

\* The number becomes the home's unless another home holds it; the requester
\* must itself be a helper of this hub or the director.
Reserve(c) ==
  /\ At(c, "reserve") /\ Lock
  /\ LET n == req[c].n
         b == req[c].of
         known == b = 0 \/ hub.homes[b] # None
     IN IF known /\ hub.homes[n] \in {None, b}
        THEN /\ req' = [req EXCEPT ![c].pc = "clear", ![c].held = hub.homes[n] = b]
             /\ hub' = [hub EXCEPT !.homes[n] = b, !.next = IF n < @ THEN @ ELSE n + 1]
        ELSE Answer(c, "error") /\ UNCHANGED hub
  /\ UNCHANGED <<live, disk, ctr, proc>>

\* A container of this number that exited is removed, a running one is not.
ClearExited(c) ==
  /\ At(c, "clear")
  /\ ctr' = [ctr EXCEPT ![req[c].n] = IF @.st = "exited" THEN NoCtr ELSE @]
  /\ Goto(c, "run")
  /\ UNCHANGED <<hub, live, disk, proc>>

Start(n, b) ==
  /\ ctr[n].st = "none" /\ Exists(<<b, n>>)
  /\ ctr' = [ctr EXCEPT ![n] = [st |-> "running", of |-> b]]

\* podman refuses a name in use, or fails for a reason of its own.
Run(c) ==
  /\ At(c, "run")
  /\ \/ Start(req[c].n, req[c].of) /\ Goto(c, "record")
     \/ Goto(c, "release") /\ UNCHANGED ctr
  /\ UNCHANGED <<hub, live, disk, proc>>

Record(c) ==
  /\ At(c, "record") /\ Lock
  /\ hub' = [hub EXCEPT !.held = @ \cup {req[c].n}]
  /\ Answer(c, "ok")
  /\ UNCHANGED <<live, disk, ctr, proc>>

\* Mutant: a failed launch takes the number out whoever reserved it.
ReleaseAlways(c) ==
  /\ At(c, "release") /\ Lock
  /\ hub' = [hub EXCEPT !.homes[req[c].n] = None]
  /\ Answer(c, "error")
  /\ UNCHANGED <<live, disk, ctr, proc>>

\* A reservation this launch made goes, an earlier one stays.
Release(c) ==
  /\ At(c, "release") /\ (Lock \/ req[c].held)
  /\ hub' = IF ~req[c].held /\ hub.homes[req[c].n] = req[c].of
            THEN [hub EXCEPT !.homes[req[c].n] = None] ELSE hub
  /\ Answer(c, "error")
  /\ UNCHANGED <<live, disk, ctr, proc>>

Lookup(c) ==
  /\ At(c, "lookup") /\ Lock
  /\ Goto(c, IF req[c].n \in hub.held THEN "stop" ELSE "query")
  /\ UNCHANGED <<hub, live, disk, ctr, proc>>

\* Mutant: what the hub does not hold does not run.
QueryTrusting(c) ==
  /\ At(c, "query")
  /\ Answer(c, "off")
  /\ UNCHANGED <<hub, live, disk, ctr, proc>>

\* A helper the hub does not hold is never stopped: the hub says whether it runs
\* and refuses when it does, or when podman cannot say.
Query(c) ==
  /\ At(c, "query")
  /\ \/ Answer(c, "refused")
     \/ ~Running(req[c].n) /\ Answer(c, "off")
  /\ UNCHANGED <<hub, live, disk, ctr, proc>>

StopIt(c) ==
  /\ At(c, "stop")
  /\ ctr' = [ctr EXCEPT ![req[c].n] = NoCtr]
  /\ proc' = Without({req[c].n})
  /\ req' = [Unread({req[c].n}) EXCEPT ![c].pc = "unhold"]
  /\ UNCHANGED <<hub, live, disk>>

Unhold(c) ==
  /\ At(c, "unhold") /\ Lock
  /\ hub' = [hub EXCEPT !.held = @ \ {req[c].n}]
  /\ Answer(c, "ok")
  /\ UNCHANGED <<live, disk, ctr, proc>>

-----------------------------------------------------------------------------
(* the hub, its box, and the containers *)

\* Mutant: only the director's own helpers are counted.
StartHubOwn ==
  /\ hub.pc = "down" /\ ~live
  /\ \E m \in 0..MaxNum :
       /\ m # 0 => Exists(<<0, m>>)
       /\ \A k \in Nums : Exists(<<0, k>>) => k <= m
       /\ hub' = [NoHub EXCEPT !.pc = "up", !.next = m + 1]
  /\ UNCHANGED <<live, disk, ctr, proc, req>>

\* A start makes the hub before the box.  The counter goes past every number on
\* disk, at any depth.
StartHub ==
  /\ hub.pc = "down" /\ ~live
  /\ \E m \in 0..MaxNum :
       /\ m # 0 => \E p \in Places : Exists(p) /\ p[2] = m
       /\ \A p \in Places : Exists(p) => p[2] <= m
       /\ hub' = [NoHub EXCEPT !.pc = "up", !.next = m + 1]
  /\ UNCHANGED <<live, disk, ctr, proc, req>>

BoxUp ==
  /\ Up /\ ~live /\ ~hub.seen
  /\ live' = TRUE
  /\ hub' = [hub EXCEPT !.seen = TRUE]
  /\ UNCHANGED <<disk, ctr, proc, req>>

BoxGone ==
  /\ live
  /\ live' = FALSE
  /\ BoxesEnd({0})
  /\ UNCHANGED <<hub, disk, ctr>>

Exit(n) ==
  /\ Running(n)
  /\ ctr' = [ctr EXCEPT ![n].st = "exited"]
  /\ BoxesEnd({n})
  /\ UNCHANGED <<hub, live, disk>>

\* Mutant: the sweep takes the held helpers only.
BeginSweepHeld ==
  /\ Up /\ ~live
  /\ \A c \in Cmds : req[c].pc # "orphan"
  /\ hub' = [hub EXCEPT !.pc = "sweep", !.sweep = hub.held]
  /\ UNCHANGED <<live, disk, ctr, proc, req>>

\* The box is gone or never came: the sweep takes the lock and lists the helpers
\* the hub holds and those podman knows by the director's labels.  A podman an
\* earlier hub left has ended by then.
BeginSweep ==
  /\ Up /\ ~live
  /\ \A c \in Cmds : req[c].pc # "orphan"
  /\ hub' = [hub EXCEPT !.pc = "sweep",
                        !.sweep = hub.held \cup {n \in Nums : ctr[n].st # "none"}]
  /\ UNCHANGED <<live, disk, ctr, proc, req>>

\* A helper whose container this stopped or removed is marked stopped, where the
\* hub knows its home.
SweepOne(n) ==
  /\ hub.pc = "sweep" /\ n \in hub.sweep
  /\ ctr' = [ctr EXCEPT ![n] = NoCtr]
  /\ BoxesEnd({n})
  /\ disk' = [p \in Places |->
       IF /\ ctr[n].st # "none" /\ p = <<hub.homes[n], n>> /\ Exists(p)
       THEN [disk[p] EXCEPT !.st = "stopped"] ELSE disk[p]]
  /\ hub' = [hub EXCEPT !.sweep = @ \ {n}]
  /\ UNCHANGED live

SweepEnd ==
  /\ hub.pc = "sweep" /\ hub.sweep = {}
  /\ hub' = [hub EXCEPT !.pc = "closing", !.held = {}]
  /\ UNCHANGED <<live, disk, ctr, proc, req>>

\* The process ends with its threads.  A podman one of them was running goes on.
HubExit ==
  /\ hub.pc = "closing"
  /\ hub' = NoHub
  /\ req' = [c \in Cmds |->
       CASE req[c].pc \in Answers -> req[c]
         [] req[c].pc \in {"run", "orphan"} -> [req[c] EXCEPT !.pc = "orphan"]
         [] OTHER -> NoReq]
  /\ UNCHANGED <<live, disk, ctr, proc>>

Orphan(c) ==
  /\ req[c].pc = "orphan"
  /\ Start(req[c].n, req[c].of) \/ UNCHANGED ctr
  /\ req' = [req EXCEPT ![c] = NoReq]
  /\ UNCHANGED <<hub, live, disk, proc>>

Thread(c) ==
  \/ Reserve(c) \/ ClearExited(c) \/ Run(c) \/ Record(c) \/ Release(c)
  \/ Lookup(c) \/ Query(c) \/ StopIt(c) \/ Unhold(c) \/ Orphan(c)

Command(c) ==
  \/ \E b \in Boxes : Spawn(c, b)
  \/ \E b \in Boxes, n \in Nums :
       \/ Respawn(c, b, n)
       \/ StopOrCleanup(c, b, n, "stop")
       \/ StopOrCleanup(c, b, n, "cleanup")
  \/ Make(c) \/ AskLaunch(c) \/ Launched(c) \/ NotLaunched(c)
  \/ \E p \in Places : \/ Skip(c, p) \/ NoneToAsk(c, p) \/ AskStop(c, p)
                       \/ Stopped(c, p) \/ Refused(c, p) \/ Remove(c, p)
  \/ AllAsked(c) \/ Die(c)

Lifetime ==
  \/ StartHub \/ BoxUp \/ BoxGone \/ BeginSweep \/ SweepEnd \/ HubExit
  \/ \E n \in Nums : Exit(n) \/ SweepOne(n)

Next == Lifetime \/ \E c \in Cmds : Thread(c) \/ Command(c)

Spec == Init /\ [][Next]_vars

-----------------------------------------------------------------------------
(* What the hub and the commands promise *)

\* A number has one home in the director's whole tree, across sessions too: no
\* two homes share one, and a spawn that has a number and no home yet is the only
\* one to have it.
OneHomePerNumber ==
  /\ \A p, q \in Places : Exists(p) /\ Exists(q) /\ p[2] = q[2] => p = q
  /\ \A c \in Cmds : proc[c].pc = "make" =>
       /\ \A p \in Places : p[2] = proc[c].n => ~Exists(p)
       /\ \A d \in Cmds \ {c} : proc[d].n # proc[c].n \/ proc[d].pc # "make"

\* A helper the hub holds keeps its place in the hub's tree: a later launch of it
\* that fails does not take it out, so its children stay launchable and the sweep
\* can mark it stopped.
HeldKeepsHome == \A n \in hub.held :
  hub.homes[n] # None /\ (Running(n) => ctr[n].of \in {hub.homes[n], None})

\* When the sweep is over no helper runs but one whose launch was in flight and is
\* still to be recorded: not one that an earlier hub launched and lost either.
SweepLeavesNone ==
  [][hub.pc = "sweep" /\ hub'.pc = "closing" =>
       \A n \in Nums : Running(n) =>
         \E c \in Cmds : req[c].n = n /\ req[c].pc = "record"]_vars

\* A cleanup that had the hub's word for every helper it listed takes no home from
\* under a running one: only a helper without a container in its document, one the
\* hub could not be asked about, or one that came after the list, or again after its
\* removal, can lose its home.
CleanupHasTheWord ==
  [][\A p \in Places :
       Exists(p) /\ disk'[p].st = "none" /\ Running(p[2]) /\ ctr[p[2]].of = p[1] =>
         \E c \in Cmds :
           /\ proc[c].pc = "remove"
           /\ ~disk[p].named \/ proc[c].blind \/ p \notin proc[c].todo]_vars

=============================================================================
