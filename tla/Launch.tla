-------------------------------- MODULE Launch --------------------------------
(***************************************************************************)
(* The commands that bring one box up and down beside each other: start    *)
(* (which attaches to a running box), start --detach, start --ephemeral,   *)
(* start --restart (_run_container in commands/start.py) and stop          *)
(* (_stop_one in commands/stop.py).                                        *)
(*                                                                         *)
(* They share the container's name and nothing else, but for a lock among  *)
(* the ephemeral starts.  Every question to podman and every order to it   *)
(* is a step, so what a command was told may be over when it acts on it    *)
(* (an `rm' and the look whether it left anything are one).                *)
(* What podman and the box do is modelled from how the commands use it:    *)
(* `rm' takes no live container, a name is taken once.                     *)
(*                                                                         *)
(* Boxes here run a supervised agent. Left out: the box shell and other    *)
(* commands run in a live box, a box under an older name, containers stuck *)
(* in removal, surfaces other than a terminal, a pause under an attach;    *)
(* the hub (HubDaemon) and the credentials (CredsWriteback). A box whose   *)
(* agent ended for good is taken to stop within the bound a client waits   *)
(* for it. A restart is followed by an attached start.                     *)
(***************************************************************************)
EXTENDS Naturals

CONSTANTS
  Procs,        \* processes that run one command after the other
  NoProc,       \* none of them
  MaxAttempts,  \* attempts of a start to attach
  MaxBoxes      \* bound: containers created

ASSUME NoProcAssumption == NoProc \notin Procs
ASSUME AttemptsAssumption == MaxAttempts \in Nat \ {0}
ASSUME BoxesAssumption == MaxBoxes \in Nat \ {0}

VARIABLES
  box,    \* the container that has the name
  used,   \* containers created so far
  lock,   \* the holder of .kanibako.lock
  proc,   \* the commands
  exit,   \* the exit code of each container that ended, as `podman run' returns it
  by      \* history: the command that removed it

vars == <<box, used, lock, proc, exit, by>>

Ids == 1..MaxBoxes
\* How an agent ends: well, or not; 1 is what the commands and tmux fail with.
Ends == {0, 2}
Failed == 1
Codes == Ends \cup {Failed}
NoCode == 3

Kinds == {"start", "detach", "ephemeral", "restart", "stop"}
Launching == {"look", "clear", "create", "boot", "wait"}
Attaching == {"ready", "seen", "attach", "attached", "judge", "session", "await", "code",
              "logs", "lost", "after", "over", "remove"}
Ephemeral == {"exists", "lock", "inside", "unlock"}
Stopping == {"live", "ask", "unpause", "again", "sweep", "check"}
PCs == Launching \cup Attaching \cup Ephemeral \cup Stopping \cup {"idle"}

\* rm: created with --rm.  heal: --on-agent-exit self-heal.
Box == [st : {"none", "created", "up", "paused", "exited"}, id : 0..MaxBoxes,
        rm : BOOLEAN, heal : BOOLEAN, sess : {"none", "live", "ended"}, code : Codes]
NoBox == [st |-> "none", id |-> 0, rm |-> FALSE, heal |-> FALSE, sess |-> "none", code |-> 0]

\* rc: what it returned, or would; NoCode when it was killed.  own: the container it
\* created.  re: it attaches to a box it found running.  down: the box was seen down.
\* met (history): it was attached.
\* due (history): the container whose end ended its attachment.
\* found (history): the live container a stop set out to stop.
Command == [pc : PCs, kind : Kinds, rc : Codes \cup {NoCode}, own : 0..MaxBoxes, re : BOOLEAN,
            seen : BOOLEAN, down : BOOLEAN, n : 1..MaxAttempts,
            met : BOOLEAN, due : 0..MaxBoxes, found : 0..MaxBoxes]
Idle == [pc |-> "idle", kind |-> "start", rc |-> 0, own |-> 0, re |-> FALSE,
         seen |-> FALSE, down |-> FALSE, n |-> 1, met |-> FALSE,
         due |-> 0, found |-> 0]

TypeOK ==
  /\ box \in Box /\ used \in 0..MaxBoxes /\ lock \in Procs \cup {NoProc}
  /\ proc \in [Procs -> Command]
  /\ exit \in [Ids -> Codes \cup {NoCode}] /\ by \in [Ids -> Procs \cup {NoProc}]

Init ==
  /\ box = NoBox /\ used = 0 /\ lock = NoProc
  /\ proc = [p \in Procs |-> Idle]
  /\ exit = [i \in Ids |-> NoCode] /\ by = [i \in Ids |-> NoProc]

-----------------------------------------------------------------------------
(* What podman answers *)

Running == box.st = "up"                     \* is_running
Exists == box.st # "none"                    \* container_exists
Live == box.st \in {"up", "paused"}          \* _is_live
HasSession == Running /\ ~box.rm /\ box.sess = "live"

\* _container_exit_code: unreadable without a container, 0 while it has not ended.
ExitCode == IF ~Exists THEN NoCode ELSE IF box.st = "exited" THEN box.code ELSE 0

At(p, pc) == proc[p].pc = pc
To(p, pc) == proc' = [proc EXCEPT ![p].pc = pc]
Return(p, rc) == proc' = [proc EXCEPT ![p] = [Idle EXCEPT !.rc = rc]]
\* On to the teardown, with the code to return after it.
Leave(p, rc) == proc' = [proc EXCEPT ![p] =
  [@ EXCEPT !.pc = "over", !.rc = rc, !.seen = FALSE, !.down = FALSE, !.n = 1]]
Podman == <<box, used, exit, by>>

\* Mutated form of Removable: `rm -f'.
RemovableForced == Exists

Removable == box.st \in {"created", "exited"}

\* rm, of which nothing is left if it was there at all.
Remove(p) ==
  IF Removable THEN box' = NoBox /\ by' = [by EXCEPT ![box.id] = p]
  ELSE UNCHANGED <<box, by>>

\* The container ends with a code; one created with --rm goes at once.
Ended(c) ==
  /\ exit' = [exit EXCEPT ![box.id] = c]
  /\ box' = IF box.rm THEN NoBox
            ELSE [box EXCEPT !.st = "exited", !.sess = "ended", !.code = c]

\* The attachments to the session end, with r.
Kicked(r, due) ==
  [p \in Procs |-> IF At(p, "attached")
                   THEN [proc[p] EXCEPT !.pc = "judge", !.rc = r, !.due = due]
                   ELSE proc[p]]

-----------------------------------------------------------------------------
(* The box *)

SessionStarts ==
  /\ Running /\ ~box.rm /\ box.sess = "none"
  /\ box' = [box EXCEPT !.sess = "live"]
  /\ UNCHANGED <<used, lock, proc, exit, by>>

\* The agent never comes up, or not again: the supervisor gives up.
NeverStarts ==
  /\ Running /\ ~box.rm /\ box.sess = "none"
  /\ Ended(IF box.heal THEN 0 ELSE Failed)
  /\ UNCHANGED <<used, lock, proc, by>>

\* The agent ends.  A box that a detached start launched starts it again, unless it
\* ended well with a terminal attached.
AgentEnds(c) ==
  /\ Running /\ box.sess = "live"
  /\ \/ /\ box.heal => c = 0 /\ \E p \in Procs : At(p, "attached")
        /\ box' = [box EXCEPT !.sess = "ended", !.code = c]
        /\ proc' = Kicked(0, box.id)
     \/ /\ box.heal /\ (c # 0 \/ \A p \in Procs : ~At(p, "attached"))
        /\ box' = [box EXCEPT !.sess = "none"]
        /\ proc' = Kicked(0, 0)
  /\ UNCHANGED <<used, lock, exit, by>>

BoxExits ==
  /\ Running /\ box.sess = "ended"
  /\ Ended(box.code)
  /\ UNCHANGED <<used, lock, proc, by>>

\* A user pauses a box that no command attaches to.
Pause ==
  /\ Running /\ box.sess = "live" /\ \A p \in Procs : proc[p].pc \notin Attaching
  /\ box' = [box EXCEPT !.st = "paused"]
  /\ UNCHANGED <<used, lock, proc, exit, by>>

Unpause ==
  /\ box.st = "paused"
  /\ box' = [box EXCEPT !.st = "up"]
  /\ UNCHANGED <<used, lock, proc, exit, by>>

Detach(p) ==
  /\ At(p, "attached") /\ Running
  /\ proc' = [proc EXCEPT ![p].pc = "judge", ![p].rc = 0]
  /\ UNCHANGED <<Podman, lock>>

-----------------------------------------------------------------------------
(* Launch *)

Begin(p, kind) ==
  /\ At(p, "idle")
  /\ proc' = [proc EXCEPT ![p] = [Idle EXCEPT
       !.pc = IF kind = "stop" THEN "live" ELSE "look", !.kind = kind]]
  /\ UNCHANGED <<Podman, lock>>

\* Is the box up?  --restart stops whatever container there is; a start attaches to
\* a running box, a detached one leaves it be, an ephemeral one is refused.
Look(p) ==
  /\ At(p, "look")
  /\ LET kind == proc[p].kind IN
       \/ kind = "restart" /\ Exists /\ To(p, "live")
       \/ /\ kind = "restart" /\ ~Exists
          /\ proc' = [proc EXCEPT ![p].kind = "start"]
       \/ kind = "start" /\ Running
          /\ proc' = [proc EXCEPT ![p].pc = "seen", ![p].re = TRUE]
       \/ kind = "detach" /\ Running /\ Return(p, 0)
       \/ kind = "ephemeral" /\ Running /\ Return(p, Failed)
       \/ kind \in {"start", "detach"} /\ ~Running /\ To(p, "clear")
       \/ kind = "ephemeral" /\ ~Running /\ To(p, "exists")
  /\ UNCHANGED <<Podman, lock>>

\* A stopped container is cleared away; one that stays blocks the launch.
Clear(p) ==
  /\ At(p, "clear")
  /\ IF Live THEN Return(p, Failed) ELSE To(p, "create")
  /\ Remove(p)
  /\ UNCHANGED <<used, lock, exit>>

\* An ephemeral start is refused by any container and by another one's lock.
Blocked(p) ==
  /\ At(p, "exists")
  /\ IF Exists THEN Return(p, Failed) ELSE To(p, "lock")
  /\ UNCHANGED <<Podman, lock>>

Lock(p) ==
  /\ At(p, "lock")
  /\ IF lock = NoProc THEN lock' = p /\ To(p, "create")
     ELSE UNCHANGED lock /\ Return(p, Failed)
  /\ UNCHANGED Podman

IsEphemeral(p) == proc[p].kind = "ephemeral"

\* `podman run' creates the container, unless the name is taken,
Create(p) ==
  /\ At(p, "create") /\ used < MaxBoxes
  /\ \/ /\ ~Exists /\ used' = used + 1
        /\ box' = [NoBox EXCEPT !.st = "created", !.id = used + 1,
                     !.rm = IsEphemeral(p), !.heal = proc[p].kind = "detach"]
        /\ proc' = [proc EXCEPT ![p].pc = "boot", ![p].own = used + 1]
     \/ /\ Exists /\ UNCHANGED <<used, box>>
        /\ proc' = [proc EXCEPT ![p].pc = IF IsEphemeral(p) THEN "unlock" ELSE "wait",
                                ![p].rc = Failed]
  /\ UNCHANGED <<lock, exit, by>>

\* and starts it, which may fail; or it was removed meanwhile.
Boot(p) ==
  /\ At(p, "boot")
  /\ \/ /\ box.id = proc[p].own
        /\ box' = [box EXCEPT !.st = "up", !.sess = IF box.rm THEN "live" ELSE "none"]
        /\ To(p, IF IsEphemeral(p) THEN "inside" ELSE "wait")
     \/ /\ box' = IF box.id = proc[p].own /\ box.rm THEN NoBox ELSE box
        /\ proc' = [proc EXCEPT ![p].pc = IF IsEphemeral(p) THEN "unlock" ELSE "wait",
                                ![p].rc = Failed]
  /\ UNCHANGED <<used, lock, exit, by>>

\* Polled for a while: whoever launched it, the box is up or it is not.
Wait(p) ==
  /\ At(p, "wait")
  /\ \/ /\ Running
        /\ IF proc[p].kind = "detach" THEN Return(p, 0) ELSE To(p, "ready")
     \/ /\ ~Running
        /\ IF proc[p].kind = "detach" THEN Return(p, Failed) ELSE Leave(p, Failed)
  /\ UNCHANGED <<Podman, lock>>

\* An ephemeral start is in its box until that ends.
Inside(p) ==
  /\ At(p, "inside") /\ exit[proc[p].own] # NoCode
  /\ proc' = [proc EXCEPT ![p].pc = "unlock", ![p].rc = exit[proc[p].own]]
  /\ UNCHANGED <<Podman, lock>>

Unlock(p) ==
  /\ At(p, "unlock")
  /\ lock' = NoProc /\ Return(p, proc[p].rc)
  /\ UNCHANGED Podman

-----------------------------------------------------------------------------
(* Attaching *)

\* The next attempt, if any is left; the box is left running.
Retry(c) ==
  IF c.n < MaxAttempts THEN [c EXCEPT !.pc = "ready", !.n = @ + 1]
  ELSE [Idle EXCEPT !.rc = IF c.rc = 0 THEN Failed ELSE c.rc]

\* exec_ready fails on a box that is down, and now and then on one that comes up.
Ready(p) ==
  /\ At(p, "ready")
  /\ \/ Running /\ To(p, "seen")
     \/ ~Running /\ proc' = [proc EXCEPT ![p].pc = "code", ![p].rc = Failed]
     \/ Running /\ proc' = [proc EXCEPT ![p] = Retry(proc[p])]
  /\ UNCHANGED <<Podman, lock>>

\* Was there a session before the attach?
Seen(p) ==
  /\ At(p, "seen")
  /\ proc' = [proc EXCEPT ![p].pc = "attach", ![p].seen = HasSession]
  /\ UNCHANGED <<Podman, lock>>

\* `tmux attach' stays until it is detached or its session ends, and fails without one.
Attach(p) ==
  /\ At(p, "attach")
  /\ proc' = IF HasSession THEN [proc EXCEPT ![p].pc = "attached", ![p].met = TRUE]
             ELSE [proc EXCEPT ![p].pc = "judge", ![p].rc = Failed]
  /\ UNCHANGED <<Podman, lock>>

\* _agent_exit_rc: the container's state lags behind the agent's end, and the exit
\* code of an attach is tmux's.  A session there never was may not be there yet,
Judge(p) ==
  /\ At(p, "judge")
  /\ LET known == proc[p].rc = 0 \/ proc[p].seen IN
       IF ~known /\ Running THEN To(p, "lost")
       ELSE proc' = [proc EXCEPT ![p].pc = "session", ![p].down = ~known]
  /\ UNCHANGED <<Podman, lock>>

\* one that is there was detached from,
Session(p) ==
  /\ At(p, "session")
  /\ To(p, IF HasSession THEN "lost" ELSE IF proc[p].down THEN "code" ELSE "await")
  /\ UNCHANGED <<Podman, lock>>

\* Mutated form of Await: the box is not waited for.
AwaitNot(p) ==
  /\ At(p, "await")
  /\ To(p, "code")
  /\ UNCHANGED <<Podman, lock>>

\* and one that is gone takes the box with it, or not if it is started again.
Await(p) ==
  /\ At(p, "await")
  /\ \/ ~Running /\ To(p, "code")
     \/ Running /\ box.sess # "ended" /\ To(p, "lost")
  /\ UNCHANGED <<Podman, lock>>

\* The exit code of the box that stopped is the command's, if it can be read.  A start
\* of its own goes on to the logs of the box.
Code(p) ==
  /\ At(p, "code")
  /\ LET rc == IF ExitCode = NoCode THEN proc[p].rc ELSE ExitCode IN
       IF proc[p].re THEN Leave(p, rc)
       ELSE proc' = [proc EXCEPT ![p].pc = "logs", ![p].rc = rc]
  /\ UNCHANGED <<Podman, lock>>

\* Some agents' logs tell that the setup in the box did not take (should_run_setup):
\* that is an error, returned at once, without a teardown.
Logs(p) ==
  /\ At(p, "logs")
  /\ \/ Leave(p, proc[p].rc)
     \/ Exists /\ Return(p, Failed)
  /\ UNCHANGED <<Podman, lock>>

\* Nothing was learned of an end.  A start tries again what failed in a box that is up.
Lost(p) ==
  /\ At(p, "lost")
  /\ \/ proc[p].re /\ Leave(p, proc[p].rc)
     \/ ~proc[p].re /\ proc[p].rc = 0 /\ To(p, "after")
     \/ /\ ~proc[p].re /\ proc[p].rc # 0
        /\ IF Running THEN proc' = [proc EXCEPT ![p] = Retry(proc[p])] ELSE To(p, "code")
  /\ UNCHANGED <<Podman, lock>>

\* A box that stopped since the detach has a code all the same.
After(p) ==
  /\ At(p, "after")
  /\ IF Running THEN Leave(p, proc[p].rc) ELSE To(p, "code")
  /\ UNCHANGED <<Podman, lock>>

\* Mutated form of Over: an exited box is left for the next start.
OverKept(p) ==
  /\ At(p, "over")
  /\ Return(p, proc[p].rc)
  /\ UNCHANGED <<Podman, lock>>

\* _teardown_persistent_box: a running box is kept, another one is removed.
Over(p) ==
  /\ At(p, "over")
  /\ IF Running THEN Return(p, proc[p].rc) ELSE To(p, "remove")
  /\ UNCHANGED <<Podman, lock>>

Teardown(p) ==
  /\ At(p, "remove")
  /\ Remove(p) /\ Return(p, proc[p].rc)
  /\ UNCHANGED <<used, lock, exit>>

-----------------------------------------------------------------------------
(* Stop *)

Found(p) ==
  /\ At(p, "live")
  /\ proc' = [proc EXCEPT ![p].pc = "ask", ![p].found = IF Live THEN box.id ELSE 0]
  /\ UNCHANGED <<Podman, lock>>

\* `podman stop' ends a running container and is content with one that has ended;
\* it refuses a paused one.
Asked(p, refused, fails) ==
  \/ /\ Running
     /\ \E c \in IF box.sess = "ended" THEN {box.code} ELSE Ends : Ended(c)
     /\ \E r \in {0, Failed} : proc' = [Kicked(r, box.id) EXCEPT ![p].pc = "sweep"]
  \/ /\ ~Running
     /\ To(p, IF box.st = "paused" THEN refused ELSE IF Exists THEN "sweep" ELSE fails)
     /\ UNCHANGED <<box, exit>>

Ask(p) ==
  /\ At(p, "ask")
  /\ Asked(p, "unpause", "sweep")
  /\ UNCHANGED <<used, lock, by>>

\* A paused one is unpaused and asked again.
UnpauseIt(p) ==
  /\ At(p, "unpause")
  /\ IF box.st = "paused" THEN box' = [box EXCEPT !.st = "up"] /\ To(p, "again")
     ELSE UNCHANGED box /\ To(p, "sweep")
  /\ UNCHANGED <<used, lock, exit, by>>

AskAgain(p) ==
  /\ At(p, "again")
  /\ Asked(p, "sweep", "sweep")
  /\ UNCHANGED <<used, lock, by>>

\* However the stop went, the container is removed, and one that stays is an error.
\* A restart does not read that.
Sweep(p) ==
  /\ At(p, "sweep")
  /\ Remove(p)
  /\ IF proc[p].kind = "restart" THEN To(p, "check")
     ELSE Return(p, IF Live THEN Failed ELSE 0)
  /\ UNCHANGED <<used, lock, exit>>

\* --restart looks itself whether the box is down, and launches it again.
Check(p) ==
  /\ At(p, "check")
  /\ IF Running THEN Return(p, Failed) ELSE To(p, "clear")
  /\ UNCHANGED <<Podman, lock>>

-----------------------------------------------------------------------------
\* A command is killed; a `podman run' it had begun goes on or not.
Killed(p) ==
  /\ ~At(p, "idle")
  /\ Return(p, NoCode)
  /\ lock' = IF lock = p THEN NoProc ELSE lock
  /\ \/ UNCHANGED box
     \/ /\ At(p, "boot") /\ box.id = proc[p].own
        /\ box' = [box EXCEPT !.st = "up", !.sess = IF box.rm THEN "live" ELSE "none"]
  /\ UNCHANGED <<used, exit, by>>

Launches(p) ==
  \/ Look(p) \/ Clear(p) \/ Blocked(p) \/ Lock(p) \/ Create(p) \/ Boot(p) \/ Wait(p)
  \/ Inside(p) \/ Unlock(p)
Attaches(p) ==
  \/ Ready(p) \/ Seen(p) \/ Attach(p) \/ Judge(p) \/ Session(p) \/ Await(p) \/ Code(p)
  \/ Logs(p) \/ Lost(p) \/ After(p) \/ Over(p) \/ Teardown(p)
Stops(p) == Found(p) \/ Ask(p) \/ UnpauseIt(p) \/ AskAgain(p) \/ Sweep(p) \/ Check(p)
Step(p) == Launches(p) \/ Attaches(p) \/ Stops(p)

BoxSteps ==
  \/ SessionStarts \/ NeverStarts \/ BoxExits \/ Pause \/ Unpause
  \/ \E c \in Ends : AgentEnds(c)

Next ==
  \/ BoxSteps
  \/ \E p \in Procs : \/ \E kind \in Kinds : Begin(p, kind)
                      \/ Step(p) \/ Detach(p) \/ Killed(p)

Spec == Init /\ [][Next]_vars

-----------------------------------------------------------------------------
(* Properties *)

\* A live session ends by itself or by a stop that was asked for: no start, no
\* teardown and no ephemeral start takes a box down that another command brought up
\* since it looked, and a paused box is nobody's to clear away.
LiveBoxKept == [][
  Live /\ box.sess = "live" /\ ~(Live' /\ box'.id = box.id)
  => \E p \in Procs : proc[p].pc \in {"ask", "again"} /\ proc[p].pc # proc'[p].pc]_vars

TakenAway(i, p) == by[i] \notin {NoProc, p}

Returns(p) == ~At(p, "idle") /\ At(p, "idle")' /\ proc'[p].rc # NoCode

\* It returns right after the logs: the setup did not take.
SetupFailed(p) == At(p, "logs")

\* A command whose box came to its end under it returns the code of that end, for all
\* that tmux or a later box says, unless another command removed the container before
\* it could be read, or the logs say that the setup did not take: that is a failure,
\* and never returned as anything else.  One that returns 0 and never attached to the
\* box it launched hides no failure of it.
ExitCodeSurfaces == [][\A p \in Procs : Returns(p) =>
  LET c == proc[p]  rc == proc'[p].rc IN
  /\ c.due # 0 => \/ rc = exit[c.due] \/ TakenAway(c.due, p)
                  \/ SetupFailed(p) /\ rc = Failed
  /\ c.kind \in {"start", "restart"} /\ c.own # 0 /\ ~c.met /\ rc = 0
     => exit[c.own] \in {0, NoCode} \/ TakenAway(c.own, p)]_vars

\* No command leaves the container of a box that ended under it, so that the next
\* start is fresh, but one that returns because the setup did not take; a stop that
\* succeeds has taken down the box it found.
NothingLeftBehind == [][\A p \in Procs : Returns(p) =>
  LET c == proc[p] IN
  /\ c.due # 0 /\ ~SetupFailed(p) => box'.id # c.due
  /\ c.kind = "stop" /\ c.found # 0 /\ proc'[p].rc = 0 => box'.id # c.found]_vars
=============================================================================
