------------------------------ MODULE Snapshots ------------------------------
(***************************************************************************)
(* The snapshots of one box's vault (snapshots.py) and the commands that   *)
(* take, restore and prune them (commands/vault_cmd.py and the launch's    *)
(* automatic snapshot in commands/start.py).                               *)
(*                                                                         *)
(* A vault is a set of top-level entries, each with the version it holds.  *)
(* A restore is a process: it copies the live vault into the store, stages *)
(* the snapshot, moves the live entries aside one at a time, moves the     *)
(* staged ones in one at a time, and rolls back when that fails.  Every    *)
(* step may raise, be interrupted (Ctrl-C, which the roll-back does not    *)
(* catch) or be killed.  No lock keeps other commands out.                 *)
(*                                                                         *)
(* A copy of a whole tree is one step that may leave a part of it behind.  *)
(* Not modelled: symlink refusals other than as a failing move, the        *)
(* migration of pre-split stores, foreign snapshots.                       *)
(***************************************************************************)
EXTENDS Naturals, FiniteSets, FiniteSetsExt

CONSTANTS
  Entries,     \* the top-level names a vault may hold
  Restorers,   \* restores that may run at the same time
  MaxVersion,  \* bound: how often entries are written
  MaxSnaps,    \* bound: how many snapshots are ever taken
  MaxKeep,     \* how many snapshots a prune keeps
  BoxRuns      \* TRUE when the box may write while its vault is restored

ASSUME MaxVersionAssumption == MaxVersion \in Nat
ASSUME MaxSnapsAssumption == MaxSnaps \in Nat
ASSUME MaxKeepAssumption == MaxKeep \in Nat
ASSUME BoxRunsAssumption == BoxRuns \in BOOLEAN

Snaps == 1..MaxSnaps
Contents == [Entries -> 0..MaxVersion]   \* version 0: no such entry
Empty == [e \in Entries |-> 0]
Part(c, E) == [e \in Entries |-> IF e \in E THEN c[e] ELSE 0]
Held(c) == {e \in Entries : c[e] # 0}

VARIABLES
  mounted,   \* the vault is a mount point: no rename into or out of it works
  written,   \* versions written so far
  live,      \* the vault
  staging,   \* .<vault>.restore.tmp
  backup,    \* .<vault>.restore.bak: whether it is there, and what it holds
  snap,      \* the box's store: "none", "kept" or "cut" by a prune, and contents
  taken,     \* snapshots taken so far: names are times, so they only grow
  doomed,    \* what the running prune has listed for removal
  proc       \* the restores

snapVars == <<mounted, written, live, staging, backup, snap, taken, doomed, proc>>

NoDir == [there |-> FALSE, has |-> Empty]
NoSnap == [state |-> "none", has |-> Empty]

\* `was' is history: what the vault held when the restore began.
Idle == [pc |-> "idle", of |-> 0, safety |-> 0, todo |-> {}, moved |-> {},
         swapping |-> FALSE, end |-> "none", was |-> Empty]

Undoing == {"clear", "trim", "back"}
Trying  == {"stage", "aside", "move", "strip", "swap"} \cup Undoing

Restore == [pc : {"idle", "safety", "cleanup"} \cup Trying,
            of : Snaps \cup {0}, safety : Snaps \cup {0},
            todo : SUBSET Entries, moved : SUBSET Entries, swapping : BOOLEAN,
            end : {"none", "restored", "put back", "kept", "interrupted"},
            was : Contents]

SnapTypeOK ==
  /\ mounted \in BOOLEAN /\ written \in 0..MaxVersion /\ taken \in 0..MaxSnaps
  /\ live \in Contents /\ staging \in Contents
  /\ backup \in [there : BOOLEAN, has : Contents]
  /\ snap \in [Snaps -> [state : {"none", "kept", "cut"}, has : Contents]]
  /\ doomed \subseteq Snaps
  /\ proc \in [Restorers -> Restore]

SnapInit ==
  /\ mounted \in BOOLEAN /\ written = 0 /\ live = Empty
  /\ staging = Empty /\ backup = NoDir
  /\ snap = [s \in Snaps |-> NoSnap] /\ taken = 0 /\ doomed = {}
  /\ proc = [p \in Restorers |-> Idle]

There(s) == snap[s].state # "none"
Doing(p, pc) == proc[p].pc = pc
Goes(p, pc) == proc' = [proc EXCEPT ![p].pc = pc]
Finally(p, end) == proc' = [proc EXCEPT ![p] = [@ EXCEPT !.pc = "cleanup", !.end = end]]
stored == <<snap, taken, doomed>>
rest == <<mounted, written>>

\* A new snapshot of what the vault holds, whole or (a copy that raised) in part.
Add(has) ==
  /\ taken < MaxSnaps
  /\ taken' = taken + 1
  /\ snap' = [snap EXCEPT ![taken + 1] = [state |-> "kept", has |-> has]]

-----------------------------------------------------------------------------
(* The box and the commands beside a restore *)

Write ==
  /\ BoxRuns \/ \A p \in Restorers : Doing(p, "idle")
  /\ \E e \in Entries :
       \/ /\ written < MaxVersion
          /\ written' = written + 1
          /\ live' = [live EXCEPT ![e] = written + 1]
       \/ /\ live[e] # 0
          /\ live' = [live EXCEPT ![e] = 0]
          /\ UNCHANGED written
  /\ UNCHANGED <<mounted, staging, backup, stored, proc>>

\* `vault snapshot', and the snapshot a launch takes; an empty vault is skipped.
Take ==
  /\ live # Empty
  /\ \E E \in SUBSET Held(live) : Add(Part(live, E))
  /\ UNCHANGED <<rest, live, staging, backup, doomed, proc>>

\* snapshots_to_prune: all but the newest `keep'.
Prunable(keep) == {s \in Snaps : There(s) /\ Cardinality({t \in Snaps : There(t) /\ t > s}) >= keep}

\* The prune of a launch, or of `vault prune', lists first and removes then.
List ==
  /\ doomed = {} /\ Prunable(MaxKeep) # {}
  /\ doomed' = Prunable(MaxKeep)
  /\ UNCHANGED <<rest, live, staging, backup, snap, taken, proc>>

\* Oldest first; a removal that fails half-way is warned of and skipped.
Prune ==
  /\ doomed # {}
  /\ LET s == Min(doomed) IN
       /\ doomed' = doomed \ {s}
       /\ \/ snap' = [snap EXCEPT ![s] = NoSnap]
          \/ \E E \in SUBSET Held(snap[s].has) :
               /\ There(s)
               /\ snap' = [snap EXCEPT ![s] = [state |-> "cut", has |-> Part(@.has, E)]]
  /\ UNCHANGED <<rest, live, staging, backup, taken, proc>>

\* The user does what the refusal says: moves the backup's entries back.
PutBack ==
  /\ backup.there /\ \A p \in Restorers : Doing(p, "idle")
  /\ live' = [e \in Entries |-> IF backup.has[e] # 0 THEN backup.has[e] ELSE live[e]]
  /\ backup' = NoDir
  /\ UNCHANGED <<rest, staging, stored, proc>>

-----------------------------------------------------------------------------
(* A restore *)

\* Mutated form of Check: a backup that is there is not looked for.
CheckNoBackup(p, s) ==
  /\ Doing(p, "idle") /\ There(s)
  /\ proc' = [proc EXCEPT ![p] = [Idle EXCEPT !.pc = "safety", !.of = s, !.was = live]]
  /\ UNCHANGED <<rest, live, staging, backup, stored>>

\* The snapshot must be there, and no earlier restore's backup.
Check(p, s) ==
  /\ Doing(p, "idle") /\ There(s) /\ ~backup.there
  /\ proc' = [proc EXCEPT ![p] = [Idle EXCEPT !.pc = "safety", !.of = s, !.was = live]]
  /\ UNCHANGED <<rest, live, staging, backup, stored>>

\* No safety copy, no restore; nothing to copy in an empty vault.  What an
\* earlier restore left staged is removed.
Safety(p) ==
  /\ Doing(p, "safety")
  /\ \/ /\ live = Empty
        /\ Goes(p, "stage")
        /\ UNCHANGED <<snap, taken>>
     \/ /\ live # Empty /\ Add(live)
        /\ proc' = [proc EXCEPT ![p] = [@ EXCEPT !.pc = "stage", !.safety = taken']]
  /\ staging' = Empty
  /\ UNCHANGED <<rest, live, backup, doomed>>

\* SnapshotSafetyError: the copy raised, and what it wrote stays in the store.
SafetyFails(p) ==
  /\ Doing(p, "safety") /\ live # Empty
  /\ \E E \in SUBSET Held(live) : Add(Part(live, E))
  /\ proc' = [proc EXCEPT ![p] = Idle]
  /\ UNCHANGED <<rest, live, staging, backup, doomed>>

\* The snapshot is copied to the staging directory.
Stage(p) ==
  /\ Doing(p, "stage") /\ There(proc[p].of)
  /\ staging' = snap[proc[p].of].has
  /\ Goes(p, "aside")
  /\ UNCHANGED <<rest, live, backup, stored>>

\* The copy raises (the snapshot is pruned, the disk full): nothing was moved.
StageFails(p) ==
  /\ Doing(p, "stage")
  /\ Finally(p, "put back")
  /\ UNCHANGED <<rest, live, staging, backup, stored>>

\* The backup directory is made, and the live names are listed.
Aside(p) ==
  /\ Doing(p, "aside")
  /\ IF backup.there
     THEN /\ Goes(p, "clear") /\ UNCHANGED backup
     ELSE /\ backup' = [there |-> TRUE, has |-> Empty]
          /\ proc' = [proc EXCEPT ![p] = [@ EXCEPT !.pc = "move", !.todo = Held(live)]]
  /\ UNCHANGED <<rest, live, staging, stored>>

\* One live entry is renamed into the backup.
Move(p) ==
  /\ Doing(p, "move") /\ ~mounted
  /\ \E e \in proc[p].todo \cap Held(live) :
       /\ live' = [live EXCEPT ![e] = 0]
       /\ backup' = [backup EXCEPT !.has[e] = live[e]]
       /\ proc' = [proc EXCEPT ![p].todo = @ \ {e}, ![p].moved = @ \cup {e}]
  /\ UNCHANGED <<rest, staging, stored>>

\* A mount point: the entries are copied, all of them, and then removed.
CopyAside(p) ==
  /\ Doing(p, "move") /\ mounted /\ proc[p].todo # {}
  /\ backup' = [backup EXCEPT !.has = Part(live, proc[p].todo)]
  /\ proc' = [proc EXCEPT ![p].pc = "strip", ![p].moved = @ \cup proc[p].todo]
  /\ UNCHANGED <<rest, live, staging, stored>>

\* A copy that left entries out: what it copied stays in the backup.
CopyAsidePart(p) ==
  /\ Doing(p, "move") /\ mounted
  /\ \E E \in SUBSET proc[p].todo :
       /\ E # proc[p].todo
       /\ backup' = [backup EXCEPT !.has = Part(live, E)]
  /\ Goes(p, "clear")
  /\ UNCHANGED <<rest, live, staging, stored>>

Strip(p) ==
  /\ Doing(p, "strip")
  /\ \E e \in proc[p].todo :
       /\ live' = [live EXCEPT ![e] = 0]
       /\ proc' = [proc EXCEPT ![p].todo = @ \ {e}]
  /\ UNCHANGED <<rest, staging, backup, stored>>

\* The vault is empty: the staged names are listed.
Swapped(p) ==
  /\ proc[p].pc \in {"move", "strip"} /\ proc[p].todo = {}
  /\ proc' = [proc EXCEPT ![p] =
       [@ EXCEPT !.pc = "swap", !.swapping = TRUE, !.todo = Held(staging)]]
  /\ UNCHANGED <<rest, live, staging, backup, stored>>

\* One staged entry reaches the vault (renamed; or copied, and removed later).
Swap(p) ==
  /\ Doing(p, "swap")
  /\ \E e \in proc[p].todo :
       /\ live' = [live EXCEPT ![e] = staging[e]]
       /\ staging' = IF mounted THEN staging ELSE [staging EXCEPT ![e] = 0]
       /\ proc' = [proc EXCEPT ![p].todo = @ \ {e}]
  /\ UNCHANGED <<rest, backup, stored>>

Restored(p) ==
  /\ Doing(p, "swap") /\ proc[p].todo = {}
  /\ Finally(p, "restored")
  /\ UNCHANGED <<rest, live, staging, backup, stored>>

\* A move raises: an entry is a mount point or behind a link, is gone, or the
\* file system fails.
Fails(p) ==
  /\ proc[p].pc \in {"aside", "move", "strip", "swap"}
  /\ Goes(p, "clear")
  /\ UNCHANGED <<rest, live, staging, backup, stored>>

-----------------------------------------------------------------------------
(* The roll-back *)

\* Mutated form of Misplaced: entries that were never moved aside are cleared.
MisplacedAll(p) == Held(live)

\* What the roll-back clears from the vault: all of it once the swap began,
\* before it only what the backup has.
Misplaced(p) == {e \in Held(live) : proc[p].swapping \/ e \in proc[p].moved}

ClearVault(p) ==
  /\ Doing(p, "clear")
  /\ IF Misplaced(p) = {}
     THEN Goes(p, "trim") /\ UNCHANGED live
     ELSE /\ \E e \in Misplaced(p) : live' = [live EXCEPT ![e] = 0]
          /\ UNCHANGED proc
  /\ UNCHANGED <<rest, staging, backup, stored>>

\* The backup keeps only what is whole in it.
Trim(p) ==
  /\ Doing(p, "trim")
  /\ backup' = [backup EXCEPT !.has = Part(@, proc[p].moved)]
  /\ proc' = [proc EXCEPT ![p] = [@ EXCEPT !.pc = "back", !.todo = proc[p].moved]]
  /\ UNCHANGED <<rest, live, staging, stored>>

Back(p) ==
  /\ Doing(p, "back")
  /\ IF proc[p].todo = {}
     THEN Finally(p, "put back") /\ UNCHANGED <<live, backup>>
     ELSE \E e \in proc[p].todo :
            /\ live' = [live EXCEPT ![e] = backup.has[e]]
            /\ backup' = IF mounted THEN backup ELSE [backup EXCEPT !.has[e] = 0]
            /\ proc' = [proc EXCEPT ![p].todo = @ \ {e}]
  /\ UNCHANGED <<rest, staging, stored>>

\* RestoreUndoFailedError: the backup is kept.
UndoFails(p) ==
  /\ proc[p].pc \in Undoing
  /\ Finally(p, "kept")
  /\ UNCHANGED <<rest, live, staging, backup, stored>>

\* KeyboardInterrupt is no Exception: no roll-back, or the end of one.
Interrupt(p) ==
  /\ proc[p].pc \in Trying
  /\ Finally(p, "interrupted")
  /\ UNCHANGED <<rest, live, staging, backup, stored>>

\* The `finally': staging goes, and the backup unless the undo failed; what
\* cannot be removed stays.
Cleanup(p) ==
  /\ Doing(p, "cleanup")
  /\ staging' \in {Empty, staging}
  /\ backup' \in {backup} \cup (IF proc[p].end = "kept" THEN {} ELSE {NoDir})
  /\ proc' = [proc EXCEPT ![p] = Idle]
  /\ UNCHANGED <<rest, live, stored>>

Kill(p) ==
  /\ ~Doing(p, "idle")
  /\ proc' = [proc EXCEPT ![p] = Idle]
  /\ UNCHANGED <<rest, live, staging, backup, stored>>

RestoreStep(p) ==
  \/ \E s \in Snaps : Check(p, s)
  \/ Safety(p) \/ SafetyFails(p) \/ Stage(p) \/ StageFails(p)
  \/ Aside(p) \/ Move(p) \/ CopyAside(p) \/ CopyAsidePart(p) \/ Strip(p)
  \/ Swapped(p) \/ Swap(p) \/ Restored(p) \/ Fails(p)
  \/ ClearVault(p) \/ Trim(p) \/ Back(p) \/ UndoFails(p)
  \/ Interrupt(p) \/ Cleanup(p) \/ Kill(p)

SnapNext ==
  \/ Write \/ Take \/ List \/ Prune \/ PutBack
  \/ \E p \in Restorers : RestoreStep(p)

SnapSpec == SnapInit /\ [][SnapNext]_snapVars

-----------------------------------------------------------------------------
(* Properties *)

\* The snapshots a restore stands on: the one it restores and its safety copy.
Unpruned(p) == \A s \in {proc[p].of, proc[p].safety} \ {0} : snap[s].state = "kept"

Copies(e) == {live[e], backup.has[e]} \cup {snap[s].has[e] : s \in Snaps}

\* No step of a restore, nor its interruption or death, removes the last copy of
\* anything from vault, backup and store: whatever fails when, what the vault
\* held is still somewhere (unless a prune took the restore's snapshots).
NoLastCopyLost == [][\A p \in Restorers :
  RestoreStep(p) /\ Unpruned(p) => \A e \in Entries : Copies(e) \ {0} \subseteq Copies(e)']_snapVars

\* A restore that returns is all or nothing: a success leaves exactly the
\* snapshot in the vault, a failure that does not name a kept backup exactly
\* what was there, through any roll-back and either way of moving.
AllOrNothing == [][\A p \in Restorers :
  Doing(p, "cleanup") /\ ~Doing(p, "cleanup")' =>
    /\ proc[p].end = "restored" /\ Unpruned(p) => live = snap[proc[p].of].has
    /\ proc[p].end = "put back" => live = proc[p].was]_snapVars
=============================================================================
