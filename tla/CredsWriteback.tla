---------------------------- MODULE CredsWriteback ----------------------------
(***************************************************************************)
(* One shared credential store and the boxes that rotate copies of it      *)
(* (targets/credsync.py, launch/creds_watcher.py, and                      *)
(* writeback_session_credentials in commands/start.py).                    *)
(*                                                                         *)
(* The agent in a box rotates its credential at any time.  The box cannot  *)
(* write the store: its supervisor raises a flag when a client detaches,   *)
(* and the box's watcher on the host, or the next command that lets go of  *)
(* the box, writes the credential back under the store's lock and lowers   *)
(* the flag.  Launch and reattach copy the other way.                      *)
(*                                                                         *)
(* A credential is its modification time, the one thing the code compares: *)
(* a copy keeps it (copy2, utime), so equal numbers are equal credentials. *)
(* One SYNC file of the global tier; the workset tier's second hop and the *)
(* plugins' own writeback are not modelled.                                *)
(***************************************************************************)
EXTENDS Naturals

CONSTANTS
  Boxes,
  Watchers,      \* bound: watcher processes alive at once, over all boxes
  Commands,      \* host commands (start, reattach, stop) running at once
  MaxCred,       \* bound: credentials ever issued
  MaxFails,      \* bound: writebacks that fail
  RefreshRaces,  \* TRUE when an agent may rotate while a reattach copies
  BadReads,      \* TRUE when a writeback may find a box file it refuses
  NoJob, NoBox

Jobs == Watchers \cup Commands

ASSUME MaxCredAssumption == MaxCred \in Nat \ {0}
ASSUME MaxFailsAssumption == MaxFails \in Nat
ASSUME RefreshRacesAssumption == RefreshRaces \in BOOLEAN
ASSUME BadReadsAssumption == BadReads \in BOOLEAN
ASSUME JobsAssumption == NoJob \notin Jobs /\ Watchers \cap Commands = {}
ASSUME NoBoxAssumption == NoBox \notin Boxes

VARIABLES
  newest,  \* the last credential issued, in a box or on the host
  cred,    \* each box's credential file; 0: none
  up,      \* which boxes run
  flag,    \* the box's .kanibako/creds-dirty
  due,     \* history: what the box held when its flag was last raised; 0: flag down
  store,   \* the store's credential file; 0: none
  lock,    \* who holds the store directory's flock
  fails,   \* writebacks that failed so far
  job      \* the watchers and commands

vars == <<newest, cred, up, flag, due, store, lock, fails, job>>

Creds == 0..MaxCred
Inside == {"read", "gate", "replace", "clear"}
PCs == Inside \cup {"none", "spawned", "poll", "probe", "lock", "boot", "copy",
                    "attached", "stop"}

Job == [pc : PCs, box : Boxes \cup {NoBox}, got : Creds, owed : Creds,
        dirty : BOOLEAN, after : {"none", "poll", "stop"}]

\* A process at pc for box b, that goes on to what `after' says.
For(b, pc, after) == [pc |-> pc, box |-> b, got |-> 0, owed |-> 0,
                      dirty |-> FALSE, after |-> after]
NoneYet == For(NoBox, "none", "none")

TypeOK ==
  /\ newest \in Creds /\ store \in Creds /\ fails \in 0..MaxFails
  /\ cred \in [Boxes -> Creds] /\ due \in [Boxes -> Creds]
  /\ up \in [Boxes -> BOOLEAN] /\ flag \in [Boxes -> BOOLEAN]
  /\ lock \in Jobs \cup {NoJob}
  /\ job \in [Jobs -> Job]

\* Boxes at rest, some logged in, some with a flag an earlier session left.
Init ==
  /\ newest = 1 /\ fails = 0 /\ lock = NoJob
  /\ store \in 0..1 /\ cred \in [Boxes -> 0..1]
  /\ up = [b \in Boxes |-> FALSE]
  /\ flag \in [Boxes -> BOOLEAN]
  /\ due = [b \in Boxes |-> IF flag[b] THEN cred[b] ELSE 0]
  /\ job = [j \in Jobs |-> NoneYet]

-----------------------------------------------------------------------------
At(j, pc) == job[j].pc = pc
Goto(j, pc) == job' = [job EXCEPT ![j].pc = pc]
Exit(j) == job' = [job EXCEPT ![j] = NoneYet]

\* Back to the watch, on to stopping the box, or gone.
Return(j) == job' = [job EXCEPT ![j] =
  IF @.after = "none" THEN NoneYet
  ELSE For(job[j].box, job[j].after, "none")]

-----------------------------------------------------------------------------
(* The box, and the user's own agent on the host *)

\* The agent logs in or refreshes its token: the box has the newest credential.
Rotate(b) ==
  /\ up[b] /\ newest < MaxCred
  /\ RefreshRaces \/ \A c \in Commands : ~(At(c, "copy") /\ job[c].box = b)
  /\ newest' = newest + 1
  /\ cred' = [cred EXCEPT ![b] = newest + 1]
  /\ UNCHANGED <<up, flag, due, store, lock, fails, job>>

\* A login on the host.  It takes no lock; the model keeps it out of the
\* guarded sections.
HostLogin ==
  /\ newest < MaxCred /\ lock = NoJob
  /\ newest' = newest + 1 /\ store' = newest + 1
  /\ UNCHANGED <<cred, up, flag, due, lock, fails, job>>

\* The supervisor sees a client go (_on_detach).
Detach(b) ==
  /\ up[b]
  /\ flag' = [flag EXCEPT ![b] = TRUE]
  /\ due' = [due EXCEPT ![b] = cred[b]]
  /\ UNCHANGED <<newest, cred, up, store, lock, fails, job>>

\* The box stops by itself: its agent ended, its last client left, it crashed.
BoxEnds(b) ==
  /\ up[b]
  /\ up' = [up EXCEPT ![b] = FALSE]
  /\ UNCHANGED <<newest, cred, flag, due, store, lock, fails, job>>

-----------------------------------------------------------------------------
(* Launch, reattach, and the commands that let go of a box *)

\* Mutated form: the copy into the box ignores which file is newer.
RefreshAlways(b) == store # 0

\* The refresh's mtime gate.
Refreshes(b) == store > cred[b]

\* The launch refreshes the box that does not run yet, under the store's lock.
Start(c, b) ==
  /\ At(c, "none") /\ ~up[b] /\ lock = NoJob
  /\ \A d \in Commands : ~(At(d, "boot") /\ job[d].box = b)
  /\ cred' = [cred EXCEPT ![b] = IF Refreshes(b) THEN store ELSE @]
  /\ job' = [job EXCEPT ![c] = For(b, "boot", "none")]
  /\ UNCHANGED <<newest, up, flag, due, store, lock, fails>>

\* The container runs; the command attaches to it.
BootAttached(c) ==
  /\ At(c, "boot")
  /\ up' = [up EXCEPT ![job[c].box] = TRUE]
  /\ Goto(c, "attached")
  /\ UNCHANGED <<newest, cred, flag, due, store, lock, fails>>

\* A detached launch leaves, and a watcher is spawned for the box.
BootDetached(c, w) ==
  /\ At(c, "boot") /\ At(w, "none")
  /\ up' = [up EXCEPT ![job[c].box] = TRUE]
  /\ job' = [job EXCEPT ![c] = NoneYet,
               ![w] = For(job[c].box, "spawned", "none")]
  /\ UNCHANGED <<newest, cred, flag, due, store, lock, fails>>

\* A reattach refreshes a box whose agent runs: first the gate, ...
Reattach(c, b) ==
  /\ At(c, "none") /\ up[b] /\ lock = NoJob
  /\ job' = [job EXCEPT ![c] =
       For(b, IF Refreshes(b) THEN "copy" ELSE "attached", "none")]
  /\ lock' = IF Refreshes(b) THEN c ELSE NoJob
  /\ UNCHANGED <<newest, cred, up, flag, due, store, fails>>

\* ... then the copy, with the store's modification time.
Copy(c) ==
  /\ At(c, "copy")
  /\ cred' = [cred EXCEPT ![job[c].box] = store]
  /\ lock' = NoJob
  /\ Goto(c, "attached")
  /\ UNCHANGED <<newest, up, flag, due, store, fails>>

\* The attach returned: a detach, or the session ended.
Leave(c) ==
  /\ At(c, "attached")
  /\ Goto(c, "lock")
  /\ UNCHANGED <<newest, cred, up, flag, due, store, lock, fails>>

\* `kanibako stop` of a live box writes back first.
Stop(c, b) ==
  /\ At(c, "none") /\ up[b]
  /\ job' = [job EXCEPT ![c] = For(b, "lock", "stop")]
  /\ UNCHANGED <<newest, cred, up, flag, due, store, lock, fails>>

StopBox(c) ==
  /\ At(c, "stop")
  /\ up' = [up EXCEPT ![job[c].box] = FALSE]
  /\ job' = [job EXCEPT ![c] = NoneYet]
  /\ UNCHANGED <<newest, cred, flag, due, store, lock, fails>>

-----------------------------------------------------------------------------
(* The watcher *)

Watching(w, b) ==
  job[w].box = b /\ job[w].pc \in {"poll", "probe", "lock"} \cup Inside

\* _single_instance_lock: a watcher that finds another one's lock goes away.
Watch(w) ==
  /\ At(w, "spawned")
  /\ IF \E v \in Watchers : Watching(v, job[w].box) THEN Exit(w) ELSE Goto(w, "poll")
  /\ UNCHANGED <<newest, cred, up, flag, due, store, lock, fails>>

\* A tick reads the flag first ...
ReadFlag(w) ==
  /\ At(w, "poll")
  /\ job' = [job EXCEPT ![w] = [@ EXCEPT !.dirty = flag[job[w].box], !.pc = "probe"]]
  /\ UNCHANGED <<newest, cred, up, flag, due, store, lock, fails>>

\* Mutated form of Probe: a tick of a running box writes nothing back.
ProbeIdles(w) ==
  /\ At(w, "probe")
  /\ LET b == job[w].box IN
     \/ /\ job[w].dirty /\ ~up[b]
        /\ job' = [job EXCEPT ![w] = For(b, "lock", "none")]
     \/ up[b] /\ job' = [job EXCEPT ![w] = For(b, "poll", "none")]
     \/ ~job[w].dirty /\ ~up[b] /\ Exit(w)
  /\ UNCHANGED <<newest, cred, up, flag, due, store, lock, fails>>

\* ... and then asks whether the box runs (decide_watch).  With the box
\* gone it leaves, after one last writeback if it read the flag up.
Probe(w) ==
  /\ At(w, "probe")
  /\ LET b == job[w].box IN
     \/ /\ job[w].dirty
        /\ job' = [job EXCEPT ![w] = For(b, "lock", IF up[b] THEN "poll" ELSE "none")]
     \/ ~job[w].dirty /\ up[b] /\ Goto(w, "poll")
     \/ ~job[w].dirty /\ ~up[b] /\ Exit(w)
  /\ UNCHANGED <<newest, cred, up, flag, due, store, lock, fails>>

-----------------------------------------------------------------------------
(* The writeback, whoever runs it *)

TakeLock(j) ==
  /\ At(j, "lock") /\ lock = NoJob
  /\ lock' = j
  /\ job' = [job EXCEPT ![j] = [@ EXCEPT !.pc = "read", !.owed = due[job[j].box]]]
  /\ UNCHANGED <<newest, cred, up, flag, due, store, fails>>

\* _read_box_file: the bytes checked are the bytes written.  A file that is
\* refused (a link, too big, half written) counts as none, and its signal as
\* served: a refusal is not a failure.
ReadBox(j) ==
  /\ At(j, "read")
  /\ \/ job' = [job EXCEPT ![j] = [@ EXCEPT !.pc = "gate", !.got = cred[job[j].box]]]
     \/ BadReads /\ job' = [job EXCEPT ![j] = [@ EXCEPT !.pc = "gate", !.owed = 0]]
  /\ UNCHANGED <<newest, cred, up, flag, due, store, lock, fails>>

\* Mutated form of Gate: whatever the box has is written.
GateOpen(j) ==
  /\ At(j, "gate")
  /\ Goto(j, IF job[j].got # 0 THEN "replace" ELSE "clear")
  /\ UNCHANGED <<newest, cred, up, flag, due, store, lock, fails>>

\* The mtime gate: only a strictly newer credential is written.
Gate(j) ==
  /\ At(j, "gate")
  /\ Goto(j, IF job[j].got > store THEN "replace" ELSE "clear")
  /\ UNCHANGED <<newest, cred, up, flag, due, store, lock, fails>>

Replace(j) ==
  /\ At(j, "replace")
  /\ store' = job[j].got
  /\ Goto(j, "clear")
  /\ UNCHANGED <<newest, cred, up, flag, due, lock, fails>>

\* Mutated form of Fail: the flag is lowered all the same.
FailClears(j) ==
  /\ job[j].pc \in {"gate", "replace"} /\ fails < MaxFails
  /\ fails' = fails + 1 /\ lock' = NoJob
  /\ flag' = [flag EXCEPT ![job[j].box] = FALSE]
  /\ Return(j)
  /\ UNCHANGED <<newest, cred, up, due, store>>

\* A failed spec (a full disk, a failed backup) leaves the flag for a retry.
Fail(j) ==
  /\ job[j].pc \in {"gate", "replace"} /\ fails < MaxFails
  /\ fails' = fails + 1 /\ lock' = NoJob
  /\ Return(j)
  /\ UNCHANGED <<newest, cred, up, flag, due, store>>

\* A writeback that went through lowers the flag and lets the lock go.
Clear(j) ==
  /\ At(j, "clear")
  /\ flag' = [flag EXCEPT ![job[j].box] = FALSE]
  /\ due' = [due EXCEPT ![job[j].box] = 0]
  /\ lock' = NoJob
  /\ Return(j)
  /\ UNCHANGED <<newest, cred, up, store, fails>>

\* A killed process: the kernel lets its flock go.
Die(j) ==
  /\ ~At(j, "none")
  /\ job' = [job EXCEPT ![j] = NoneYet]
  /\ lock' = IF lock = j THEN NoJob ELSE lock
  /\ UNCHANGED <<newest, cred, up, flag, due, store, fails>>

-----------------------------------------------------------------------------
Writeback(j) == TakeLock(j) \/ ReadBox(j) \/ Gate(j) \/ Replace(j) \/ Clear(j)
Tick(w) == Watch(w) \/ ReadFlag(w) \/ Probe(w)

Next ==
  \/ HostLogin
  \/ \E b \in Boxes : Rotate(b) \/ Detach(b) \/ BoxEnds(b)
  \/ \E c \in Commands :
       \/ \E b \in Boxes : Start(c, b) \/ Reattach(c, b) \/ Stop(c, b)
       \/ \E w \in Watchers : BootDetached(c, w)
       \/ BootAttached(c) \/ Copy(c) \/ Leave(c) \/ StopBox(c)
  \/ \E w \in Watchers : Tick(w)
  \/ \E j \in Jobs : Writeback(j) \/ Fail(j) \/ Die(j)

Spec == Init /\ [][Next]_vars

\* A watcher keeps ticking and whoever is inside the lock goes on; flock serves
\* a waiter sooner or later.  Nothing is assumed of boxes, users and new commands.
Fairness ==
  /\ \A w \in Watchers : WF_vars(Tick(w))
  /\ \A c \in Commands : WF_vars(Copy(c))
  /\ \A j \in Jobs :
       WF_vars(ReadBox(j) \/ Gate(j) \/ Replace(j) \/ Clear(j)) /\ SF_vars(TakeLock(j))

LiveSpec == Spec /\ Fairness

-----------------------------------------------------------------------------
(* Properties *)

\* No writeback ever puts an older credential over a newer one, whichever boxes
\* and commands write and in whatever order they read (the store's lock and gate).
StoreMovesForward == [][store' >= store]_store

\* A refresh never takes a credential away from a box that has a newer one: a
\* rotated token that is in no other place would be gone.
BoxMovesForward == [][\A b \in Boxes : cred'[b] >= cred[b]]_cred

\* The flag is lowered only by a writeback that brought to the store all that
\* was signalled before it took the lock; a failed one leaves it for the retry.
SignalServed == [][\A b \in Boxes : flag[b] /\ ~flag'[b] =>
  \E j \in Jobs : /\ job[j].box = b /\ lock = j /\ lock' = NoJob
                  /\ At(j, "clear") /\ store >= job[j].owed]_vars

\* A raised flag on a running box that has a watcher is lowered in the end,
\* unless the box or its watcher goes first.
WatchedSignalIsServed == \A b \in Boxes :
  (flag[b] /\ \E w \in Watchers : Watching(w, b))
    ~> (~flag[b] \/ ~up[b] \/ \A w \in Watchers : ~Watching(w, b))
=============================================================================
