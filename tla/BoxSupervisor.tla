---------------------------- MODULE BoxSupervisor ----------------------------
(***************************************************************************)
(* The supervisor that is PID 1 of a box (box_supervisor.py): its two      *)
(* watch loops, the self-heal with bounded retries, the surface-aware      *)
(* closing of the box, the session takeover and the SIGTERM handler.       *)
(*                                                                         *)
(* The supervisor is one thread and every probe is a step of its own, so   *)
(* surfaces attach and detach and agents start and die between any two of  *)
(* them.  An agent in the tmux session is `cli'; agents that the VS Code   *)
(* panel starts leave a marker file each, which a crash does not remove.   *)
(*                                                                         *)
(* Left out: the directive watch, markers of the session's own agent       *)
(* (always told apart by its pane), pids that are reused or unreadable.    *)
(* An evicted process group is taken to be gone at once.                   *)
(***************************************************************************)
EXTENDS Naturals

CONSTANTS
  Panels,     \* agents that the VS Code panel may start
  Confs,      \* the command lines a launch gives the supervisor
  MaxRetries, \* attempts of one self-heal
  MaxRaises   \* bound: ticks that raise

ASSUME MaxRetriesAssumption == MaxRetries \in Nat \ {0}
ASSUME MaxRaisesAssumption == MaxRaises \in Nat

\* --on-agent-exit teardown, --session-takeover, --panel-watch
Options == [teardown : BOOLEAN, takeover : BOOLEAN, panelWatch : BOOLEAN]
ASSUME ConfsAssumption == Confs \subseteq Options

VARIABLES
  conf,    \* the options of this box
  att,     \* the attached surfaces: the panel (VS Code server), a terminal
  cli,     \* the pane of the tmux session: gone, a live agent, or how it ended
  record,  \* the exit record the pane-died hook writes
  agent,   \* the panel's agents
  marker,  \* the markers on disk
  flag,    \* the credentials-dirty flag
  last,    \* history: how the session's agent ended by itself, if it did
  raised,  \* ticks that raised so far
  sup      \* the supervisor

supVars == <<conf, att, cli, record, agent, marker, flag, last, raised, sup>>
world == <<conf, att, cli, record, agent, marker, flag, last, raised>>

Surfaces == [panel : BOOLEAN, term : BOOLEAN]
Nowhere == [panel |-> FALSE, term |-> FALSE]
Codes == {"none", "ok", "failed", "unknown"}
AgentPCs == {"scan", "pause", "grace", "act"}
PanelPCs == {"state", "rescan", "decide"}
PCs == {"boot", "look", "panelboot", "top", "close", "record", "heal", "healed", "exited"}
       \cup AgentPCs \cup PanelPCs

Supervisor == [pc : PCs, mode : {"agent", "panel"}, prev : Surfaces, cur : Surfaces,
               alive : BOOLEAN, panel : {"none", "alive", "dead"},
               newcomers : SUBSET Panels, attempt : 1..MaxRetries, started : BOOLEAN,
               ended : BOOLEAN, seen : BOOLEAN, stop : BOOLEAN,
               why : {"none", "stop", "closed", "gave up", "empty"}, rc : Codes]

SupTypeOK ==
  /\ conf \in Confs /\ att \in Surfaces
  /\ cli \in {"none", "live", "ok", "failed"}
  /\ record \in {"none", "ok", "failed"} /\ last \in {"none", "ok", "failed"}
  /\ agent \in [Panels -> {"none", "live", "stopped"}] /\ marker \subseteq Panels
  /\ flag \in BOOLEAN /\ raised \in 0..MaxRaises
  /\ sup \in Supervisor

SupInit ==
  /\ conf \in Confs
  /\ att \in {Nowhere, [Nowhere EXCEPT !.panel = TRUE]}
  /\ cli = "none" /\ record = "none" /\ last = "none"
  /\ agent = [q \in Panels |-> "none"] /\ marker \in SUBSET Panels
  /\ flag \in BOOLEAN /\ raised = 0
  /\ sup = [pc |-> "boot", mode |-> "agent", prev |-> Nowhere, cur |-> Nowhere,
            alive |-> FALSE, panel |-> "none", newcomers |-> {},
            attempt |-> 1, started |-> TRUE, ended |-> FALSE, seen |-> FALSE,
            stop |-> FALSE, why |-> "none", rc |-> "none"]

At(pc) == sup.pc = pc
Exited == At("exited")
Set(pc) == sup' = [sup EXCEPT !.pc = pc]
Exit(why, rc) == sup' = [sup EXCEPT !.pc = "exited", !.why = why, !.rc = rc]
\* Back to the head of the loop: what the tick read is forgotten.
Top(prev, ended) ==
  sup' = [sup EXCEPT !.pc = "top", !.prev = prev, !.ended = ended, !.cur = Nowhere,
                     !.alive = FALSE, !.panel = "none",
                     !.newcomers = {}, !.attempt = 1]
\* The end of a tick that did not raise.
Rest == Top(sup.cur, sup.ended)
Dead(pane) == pane \in {"ok", "failed"}

-----------------------------------------------------------------------------
(* What happens around the supervisor *)

Attach == \E s \in {"panel", "term"} :
  /\ ~att[s] /\ (s = "term" => cli # "none")
  /\ att' = [att EXCEPT ![s] = TRUE]
  /\ UNCHANGED <<conf, cli, record, agent, marker, flag, last, raised, sup>>

Detach == \E s \in {"panel", "term"} :
  /\ att[s]
  /\ att' = [att EXCEPT ![s] = FALSE]
  /\ UNCHANGED <<conf, cli, record, agent, marker, flag, last, raised, sup>>

\* The session's agent exits or crashes; its pane stays (remain-on-exit).
CliDies == \E code \in {"ok", "failed"} :
  /\ cli = "live" /\ cli' = code /\ last' = code
  /\ UNCHANGED <<conf, att, record, agent, marker, flag, raised, sup>>

\* Mutated form of HookRecords: the pane is closed with the record unwritten.
HookForgets ==
  /\ conf.teardown /\ Dead(cli) /\ record = "none"
  /\ cli' = "none" /\ att' = [att EXCEPT !.term = FALSE]
  /\ UNCHANGED <<conf, record, agent, marker, flag, last, raised, sup>>

\* The pane-died hook of a foreground launch writes the record first ...
HookRecords ==
  /\ conf.teardown /\ Dead(cli) /\ record = "none"
  /\ record' = cli
  /\ UNCHANGED <<conf, att, cli, agent, marker, flag, last, raised, sup>>

\* ... and closes the pane, and so the session, then.
HookCloses ==
  /\ conf.teardown /\ Dead(cli) /\ record # "none"
  /\ cli' = "none" /\ att' = [att EXCEPT !.term = FALSE]
  /\ UNCHANGED <<conf, record, agent, marker, flag, last, raised, sup>>

PanelStarts == \E q \in Panels :
  /\ att.panel /\ agent[q] = "none"
  /\ agent' = [agent EXCEPT ![q] = "live"]
  /\ marker' = marker \cup {q}
  /\ UNCHANGED <<conf, att, cli, record, flag, last, raised, sup>>

\* A clean end removes the marker, a crash leaves it.
PanelDies == \E q \in Panels :
  /\ agent[q] # "none"
  /\ agent' = [agent EXCEPT ![q] = "none"]
  /\ \/ UNCHANGED marker
     \/ agent[q] = "live" /\ marker' = marker \ {q}
  /\ UNCHANGED <<conf, att, cli, record, flag, last, raised, sup>>

\* The host's watcher has written the credentials back.
FlagServed ==
  /\ flag /\ flag' = FALSE
  /\ UNCHANGED <<conf, att, cli, record, agent, marker, last, raised, sup>>

\* SIGTERM: the handler runs between any two steps of the loop.
Sigterm ==
  /\ ~sup.stop
  /\ sup' = [sup EXCEPT !.stop = TRUE]
  /\ cli' = "none" /\ att' = [att EXCEPT !.term = FALSE]
  /\ UNCHANGED <<conf, record, agent, marker, flag, last, raised>>

-----------------------------------------------------------------------------
(* The start, and the loop that runs an agent *)

\* A panel-watch box starts no agent; the others start one, which may fail.
Boot ==
  /\ At("boot")
  /\ \/ conf.panelWatch /\ Set("panelboot") /\ UNCHANGED cli
     \/ ~conf.panelWatch /\ cli' = "live" /\ Set("look")
     \/ /\ ~conf.panelWatch /\ cli' = "none"
        /\ sup' = [sup EXCEPT !.pc = "look", !.started = FALSE]
  /\ UNCHANGED <<conf, att, record, agent, marker, flag, last, raised>>

Look ==
  /\ At("look")
  /\ sup' = [sup EXCEPT !.pc = "top", !.prev = att]
  /\ UNCHANGED world

\* The events of the attach state: a surface that is gone wins over a new one.
Lost(prev, cur) == \E s \in {"panel", "term"} : prev[s] /\ ~cur[s]

AgentTick ==
  /\ At("top") /\ ~sup.stop /\ sup.mode = "agent"
  /\ sup' = [sup EXCEPT !.pc = "scan", !.cur = att]
  /\ UNCHANGED world

StopSeen ==
  /\ At("top") /\ sup.stop
  /\ Exit("stop", "ok")
  /\ UNCHANGED world

LiveMarkers == {q \in marker : agent[q] # "none"}

\* Is the session's agent alive?  Stale markers are removed; a live one beside a
\* pane of the supervisor's own is a newcomer, which only a takeover acts upon.
Scan ==
  /\ At("scan")
  /\ marker' = LiveMarkers
  /\ sup' = IF conf.takeover /\ LiveMarkers # {} /\ cli # "none"
            THEN [sup EXCEPT !.pc = "pause", !.alive = cli = "live", !.newcomers = LiveMarkers]
            ELSE [sup EXCEPT !.pc = "act", !.alive = cli = "live"]
  /\ UNCHANGED <<conf, att, cli, record, agent, flag, last, raised>>

\* Mutated form of Ends: any end of an agent under a terminal ends the box.
EndsAnyhow == ~sup.alive /\ ~conf.teardown /\ sup.cur.term /\ Dead(cli)

\* The user exited the agent: it is ended, and no other is started.  The dead
\* pane's code is read where a terminal may still show it.
Ends == ~sup.alive /\ ~conf.teardown /\ sup.cur.term /\ cli = "ok"

\* decide, and what the loop does about it: nothing while the agent lives; a
\* foreground box, or an ended one, waits for the panel and then closes; the
\* others self-heal.
Act ==
  /\ At("act")
  /\ flag' = (flag \/ Lost(sup.prev, sup.cur))
  /\ LET ended == sup.ended \/ Ends
         closing == conf.teardown \/ ended IN
       IF sup.alive \/ (closing /\ sup.cur.panel)
       THEN Top(sup.cur, ended)
       ELSE sup' = [sup EXCEPT !.pc = IF closing THEN "close" ELSE "heal",
                               !.ended = ended]
  /\ UNCHANGED <<conf, att, cli, record, agent, marker, last, raised>>

\* The pane is asked first, the hook's record second.
CloseBox ==
  /\ At("close")
  /\ IF sup.ended THEN Exit("closed", "ok")
     ELSE IF Dead(cli) THEN Exit("closed", cli) ELSE Set("record")
  /\ UNCHANGED world

ReadRecord ==
  /\ At("record")
  /\ Exit("closed", IF record # "none" THEN record
                    ELSE IF sup.started THEN "unknown" ELSE "failed")
  /\ UNCHANGED world

\* One attempt: the session is killed and a new one started, which may fail.
Heal ==
  /\ At("heal")
  /\ cli' \in {"live", "none"}
  /\ att' = [att EXCEPT !.term = FALSE]
  /\ last' = "none"
  /\ Set("healed")
  /\ UNCHANGED <<conf, record, agent, marker, flag, raised>>

\* Mutated form of Healed: attempts not counted.
HealedUncounted ==
  /\ At("healed")
  /\ IF cli = "live" THEN Rest ELSE Set("heal")
  /\ UNCHANGED world

Healed ==
  /\ At("healed")
  /\ IF cli = "live" THEN Rest
     ELSE IF sup.attempt < MaxRetries
     THEN sup' = [sup EXCEPT !.pc = "heal", !.attempt = @ + 1]
     ELSE Exit("gave up", "ok")
  /\ UNCHANGED world

-----------------------------------------------------------------------------
(* The takeover *)

Pause ==
  /\ At("pause")
  /\ LET paused == {q \in sup.newcomers : agent[q] # "none"} IN
       /\ agent' = [q \in Panels |-> IF q \in paused THEN "stopped" ELSE agent[q]]
       /\ sup' = [sup EXCEPT !.pc = IF paused = {} THEN "act" ELSE "grace",
                             !.newcomers = paused]
  /\ UNCHANGED <<conf, att, cli, record, marker, flag, last, raised>>

Resumed == [q \in Panels |-> IF q \in sup.newcomers /\ agent[q] = "stopped"
                             THEN "live" ELSE agent[q]]

\* Anything that raises before the eviction resumes the newcomers.
GraceRaises ==
  /\ At("grace") /\ raised < MaxRaises
  /\ raised' = raised + 1
  /\ agent' = Resumed
  /\ Set("act")
  /\ UNCHANGED <<conf, att, cli, record, marker, flag, last>>

\* Mutated form of Evict: the newcomers are left paused.
EvictFrozen ==
  /\ At("grace")
  /\ cli' = "none" /\ last' = "none" /\ att' = [att EXCEPT !.term = FALSE]
  /\ Set("panelboot")
  /\ UNCHANGED <<conf, record, agent, marker, flag, raised>>

\* The incumbent is warned, the grace waited out and the incumbent killed; the
\* newcomers go on, and the supervisor watches the panel from now on.
Evict ==
  /\ At("grace")
  /\ cli' = "none" /\ last' = "none" /\ att' = [att EXCEPT !.term = FALSE]
  /\ agent' = Resumed
  /\ Set("panelboot")
  /\ UNCHANGED <<conf, record, marker, flag, raised>>

-----------------------------------------------------------------------------
(* The loop that watches the panel *)

PanelBoot ==
  /\ At("panelboot")
  /\ sup' = [sup EXCEPT !.pc = "top", !.mode = "panel", !.prev = att, !.seen = att # Nowhere,
                        !.cur = Nowhere, !.alive = FALSE, !.newcomers = {},
                        !.started = TRUE, !.ended = FALSE]
  /\ UNCHANGED world

\* Mutated form of PanelTick: `seen_surface' is not latched.
PanelTickForgets ==
  /\ At("top") /\ ~sup.stop /\ sup.mode = "panel"
  /\ sup' = [sup EXCEPT !.pc = "state", !.cur = att, !.seen = att # Nowhere]
  /\ flag' = (flag \/ Lost(sup.prev, att))
  /\ UNCHANGED <<conf, att, cli, record, agent, marker, last, raised>>

PanelTick ==
  /\ At("top") /\ ~sup.stop /\ sup.mode = "panel"
  /\ sup' = [sup EXCEPT !.pc = "state", !.cur = att, !.seen = @ \/ att # Nowhere]
  /\ flag' = (flag \/ Lost(sup.prev, att))
  /\ UNCHANGED <<conf, att, cli, record, agent, marker, last, raised>>

\* Is the session's agent alive, and the panel's?  The stale markers are
\* removed, so that a death is seen once.
State ==
  /\ At("state")
  /\ sup' = [sup EXCEPT !.pc = "rescan", !.alive = cli = "live", !.panel =
       IF LiveMarkers # {} THEN "alive" ELSE IF marker # {} THEN "dead" ELSE "none"]
  /\ marker' = LiveMarkers
  /\ UNCHANGED <<conf, att, cli, record, agent, flag, last, raised>>

\* The markers are scanned again, for newcomers to log.
Rescan ==
  /\ At("rescan")
  /\ marker' = LiveMarkers
  /\ Set("decide")
  /\ UNCHANGED <<conf, att, cli, record, agent, flag, last, raised>>

\* Nothing runs and nobody is attached, but somebody was.
Deserted == ~sup.alive /\ sup.panel # "alive" /\ sup.cur = Nowhere /\ sup.seen

\* decide_panel: an agent in the session replaces a panel agent that died under
\* a connected panel; a deserted box ends.
Decide ==
  /\ At("decide")
  /\ IF ~sup.alive /\ sup.panel = "dead" /\ sup.cur.panel
     THEN sup' = [sup EXCEPT !.pc = "heal", !.panel = "none"]
     ELSE IF Deserted THEN Exit("empty", "ok") ELSE Rest
  /\ UNCHANGED world

\* Mutated form of Raise: the state of the failed tick is taken over.
RaiseForgets ==
  /\ sup.pc \in {"scan", "act", "close", "record", "heal"} \cup PanelPCs
  /\ raised < MaxRaises
  /\ raised' = raised + 1
  /\ Rest
  /\ UNCHANGED <<conf, att, cli, record, agent, marker, flag, last>>

\* A tick that raises is given up: `prev' stays as it was.
Raise ==
  /\ sup.pc \in {"scan", "act", "close", "record", "heal"} \cup PanelPCs
  /\ raised < MaxRaises
  /\ raised' = raised + 1
  /\ Top(sup.prev, sup.ended)
  /\ UNCHANGED <<conf, att, cli, record, agent, marker, flag, last>>

-----------------------------------------------------------------------------
Step ==
  \/ Boot \/ Look \/ AgentTick \/ StopSeen \/ Scan \/ Act
  \/ CloseBox \/ ReadRecord \/ Heal \/ Healed
  \/ Pause \/ GraceRaises \/ Evict
  \/ PanelBoot \/ PanelTick \/ State \/ Rescan \/ Decide \/ Raise

Hook == HookRecords \/ HookCloses

SupNext == ~Exited /\
  \/ Attach \/ Detach \/ CliDies \/ Hook \/ PanelStarts \/ PanelDies
  \/ FlagServed \/ Sigterm \/ Step

\* PID 1 runs and tmux runs its hook; nobody else has to do anything.
SupSpec == SupInit /\ [][SupNext]_supVars /\ WF_supVars(~Exited /\ Step) /\ WF_supVars(~Exited /\ Hook)

-----------------------------------------------------------------------------
(* Properties *)

\* A box that closes reports how its agent ended, whichever of the pane and the
\* hook's record the supervisor came upon while the hook was at work.
ExitCodeTrue == Exited /\ sup.why = "closed" /\ ~sup.stop =>
  sup.rc = IF last = "none" THEN "failed" ELSE last

\* A surface that the last tick saw and the next finds gone raises the flag, through
\* self-heals, raising ticks and the end of the agent; a missed detach would leave
\* a refreshed token in the box.  (Handing over to the panel loop starts afresh.)
DetachSignalled == \A s \in {"panel", "term"} :
  (At("top") /\ sup.prev[s] /\ ~att[s]) ~> (flag \/ att[s] \/ At("panelboot") \/ Exited)

\* A newcomer that a takeover paused is never left frozen.
PausedResumed == \A q \in Panels :
  agent[q] = "stopped" ~> (agent[q] # "stopped" \/ Exited)

\* A detached box's agent that crashed is running again in the end, or every
\* attempt to start it failed, or the panel has taken the box over.
AgentHealed ==
  (cli = "failed" /\ ~conf.teardown /\ sup.mode = "agent")
    ~> (cli = "live" \/ sup.stop \/ sup.why = "gave up" \/ sup.mode = "panel")

\* A stop ends the box, whatever the supervisor was in the middle of.
StopEnds == sup.stop ~> Exited

\* A warmed box that everybody has left, with no agent running, comes down.
DesertedEnds ==
  (sup.mode = "panel" /\ sup.seen /\ att = Nowhere /\ cli # "live" /\ LiveMarkers = {})
    ~> (Exited \/ att # Nowhere \/ cli = "live" \/ LiveMarkers # {})
=============================================================================
