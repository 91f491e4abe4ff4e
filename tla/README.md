# Kanibako in TLA+

Kanibako runs AI coding agents in podman boxes. Its command line makes, moves and
retires boxes, launches them, keeps their credentials in step with the host, lets an
agent ask for helper boxes, and supervises the agent inside the box. This directory
holds TLA+ specifications of the parts where commands, daemons and boxes meet, the TLC
configurations that check them, and TLAPS proofs. `PROJECT.json` maps every definition
to the lines it models. Source paths are under `src/src/kanibako/` unless they start
with `src/`.

## The system

| part | code | state | operations | talks to |
|---|---|---|---|---|
| create and the lifecycle journal | `commands/box/_parser.py`, `launch/journal.py`, `settings/paths.py`, `project/workset_registry.py` | membership, journal, boxes directory, deregistered entries | create, `--recover`, undo of a failing create | registry files, launch |
| rm, purge, register | `commands/box/_parser.py`, `project/registry_store.py` | the same | rm, `rm --purge`, register | create, launch |
| relocation | `commands/box/_lifecycle.py`, `_duplicate.py` | the same, the box's trees, an undo stack | move, convert, remap, duplicate | create, rm, session lock |
| worksets | `project/workset.py`, `commands/workset_cmd.py`, `project/import_reconcile.py` | workset registry, member lists, marks, standalone rows | create, connect, disconnect, rm, import | create, relocation |
| launch and stop | `commands/start.py`, `commands/stop.py` | session lock, container, dirty flag | start, reattach, detach, stop | credentials, supervisor, hub |
| credentials | `targets/credsync.py`, `launch/creds_watcher.py` | credential store, box copies, dirty flags, locks | seed, refresh, writeback, watcher loop | launch, the running box |
| box supervisor | `box_supervisor.py`, `box_lifecycle.py` | agent session, attached surfaces, directives stamp | self-heal, takeover, detach, teardown | the agent, the credentials flag |
| helper hub and commands | `channels/helper_listener.py`, `channels/helpers.py`, `commands/helper_cmd.py` | counter, reserved homes, held containers, state documents | spawn, respawn, stop, cleanup, sweep, fork, messages | podman, hub daemon |
| hub daemon | `channels/hub_daemon.py` | lock, socket, miss counter | serve, rebind, stop, exit | hub, launch |
| helper client | `channels/helper_client.py` | connection, queues, one outstanding request | request, receive, close | hub |
| snapshots and restore | `snapshots.py`, `commands/vault_cmd.py` | snapshot store, staging, backup | take, prune, restore | vault |
| proxy | `proxy/server.py`, `proxy/sse.py` | a stream per request | relay, rewrite | the agent |
| directives import | `scripts/import-directives.py` | generated files | expand | supervisor |
| settings, names, templates, images, VS Code, diagnostics, agent packages | `settings/`, `launch/`, `runtime/`, `vscode/`, `src/packages/` | files, podman | resolve, format, report | everything |

**What makes it hard.** Nothing is a server. Every command is a process of its own, and
they meet in small files, each read and rewritten under its own lock, so a decision that
spans two files is taken on values another command may have changed since. Any of them
may be killed anywhere, and prompts of any length sit between a check and what it
protects. Agents rotate credentials inside boxes while the host copies them both ways.
Daemons decide on polled observations; a hub's answer may come after its client gave up.

**What makes each part correct.**

- *create*: a registered box is complete; a half-made one can always be recovered; no
  create takes, reuses or undoes another one's home.
- *rm, purge, register*: no live box's home goes; what is taken off one list is on
  another; a workspace has one box.
- *credentials*: no copy is overwritten by an older one; a signal is served, in the end
  and truthfully.
- *helpers*: a number means one home; the hub knows what it runs; a sweep leaves nothing
  behind; a home outlives its helper.
- *relocation*: a box is on exactly one list and its trees are whole after every
  failure, undo and kill; nothing moves under a running box.
- *worksets*: what was a box stays one; a directory is in one registry; a connect happens
  or does not.
- *supervisor*: at most one writing agent; every paused process is resumed; the box stays
  up while a surface is attached and ends when none is.
- *hub daemon*: one hub per socket; it ends soon after its box and not before.
- *helper client*: an answer goes to the request that asked for it; nobody waits on a
  closed connection.
- *snapshots*: at every moment the vault, the backup or a snapshot holds each file.

## The plan

Done, in this order: **BoxCreate** (the core: everything else assumes its store),
**CredsWriteback**, **BoxRetire** (composed with BoxCreate), **HelperHub**,
**Snapshots**, **BoxSupervisor**, **HubDaemon** (which implements **HubSlot**),
**Relocation**, **Worksets**, **Launch**, **HelperClient**. Left, most important first:

1. The running-box refusal of relocations and rms, beside Launch's commands.
2. Relocation between owners (NAMED, STANDALONE), with the carrying of snapshots.
3. NAMED and STANDALONE creates, directives expansion as bounded operators, proxy.

Two components share a proof module where neither has state of the other: `StoreProofs`
has CredsWriteback and Snapshots, `DaemonProofs` HubDaemon and BoxSupervisor. Each extends
both of its components, so Snapshots and BoxSupervisor give `Init`, `Next`, `Spec` and what
else the other has a prefix (`SnapSpec`, `SupSpec`) or a name of its own. `BoxProofs` has
BoxCreate and BoxRetire, which extends it.

Proofs to add: Relocation's `AllOrNothing` for two commands; what of the supervisor's
liveness is safety (a detach raises the flag no later than the next tick that does not raise).

## BoxCreate

`kanibako create` of PRIMARY boxes. `proc` holds the commands; a command's `pc` names
the next file operation, and one action is one such operation: a read pass, or a
read-modify-write under the file's lock (`rmw_lock` in `_atomic.py`). The program order
is *check* (`_assert_primary_home_free_for_create`), *probe* (`_create_recovery_refusal`
and the workspace probe), *pick* (`pick_primary_box_name`), *orphan*, *claim*
(`_claim_create_entry`, write-ahead), *drop*, *arm* (`_new_box_undo`), *make*
(`resolve_project`), *persist*, *seed*, *register* (the committing step), *clear*.
`registry`, `journal`, `tree` and `parked` are the files. `Fail`, `Undo`, `UndoFails` and
`Unclaim` are the failure paths and `Kill` stops a command anywhere. All workspaces
share a basename, the picker's worst case.

Constant `RecoverLive` is a discipline of users: FALSE says that `--recover` is given to
dead attempts only. The code cannot tell (nothing reads the host and pid an entry
records), so the properties hold under the discipline; what goes wrong without it is
described below.

Properties: `RegisteredSeeded` (deferred registration), `HalfMadeIsJournaled`
(write-ahead), `CreatesAreExclusive` (two live creates share nothing, and each works in
the home its entry names), `NoSecondHome`, `OneBoxPerWorkspace`, `CompleteHomeKept` (no undo takes a complete home). The initial states
are every store a user can come with: registered, parked, orphaned and pending boxes.

`box_create` checks them with two commands, two workspaces, three names and at most one
leftover: a picked name can be lost twice.

Seen with TLC, and not stated as a property: a create that probed before another one of
its workspace ended is granted a second claim, lands in the first's box, and clears the
first's key instead of its own, so it succeeds and leaves its entry pending. With
`RecoverLive` TRUE, `RegisteredSeeded` fails: a live create fails and undoes the home
that a `--recover` of its entry has seeded meanwhile; `OneBoxPerWorkspace` holds even
then, and is proved so.

**Proved** (`BoxProofs`), for any workspaces, names and number of commands:
`TypeCorrect` and `OneBoxAlways` with no discipline; `SeededWhenRegistered`,
`JournaledWhenHalfMade`, `OneHomePerWorkspace`, `ExclusiveCreates` and
`SeededHomesKept` under `~RecoverLive`. The properties speak of the store and are not
inductive: nothing in them says why a command that is about to write may do so. `IInv`
adds it. `BeforeInv` and `BehindInv` say what a command's locals promise at each
program counter, above all that a command behind its claim still finds its own entry
under its name and that its undo is armed only for a tree that is not complete;
`EntriesOwnHomes` says that an entry lies on no one else's home; `WorkspacesApart` that
no two claimed commands share a workspace. `Apart` derives from these that their names
and homes differ too, so a step of one leaves the other's part alone (`Bystander`,
`StillApart`); then there is one lemma per action and `Compose` puts them together.
`NoSecondHome` is proved beside `IInv` (`NoSecondHomeStep`) and is no part of it: a
register next to the half-made home of a killed create breaks it in BoxRetire, where the
rest of `IInv` is used again.

## BoxRetire

`box rm`, `rm --purge` and `box register`, composed with BoxCreate, which it extends: a
step (`RetireNext`) is one of a create or one of a retiring command (`cmd`), on the same
files. `Rm`, `Unregister`, `RmDelete` and `Park` are `run_rm`; `Lookup` to
`Drop` are the purge of a parked entry (`_purge_deregistered`), in which the prompt lies
between `Owner` and `Delete`; `Readopt` to `RegDrop` are `register`. `Decline` is a
command that refuses or is told no, `Die` one that is killed. Nothing fair is assumed, and the system may stop, hence `CHECK_DEADLOCK FALSE`.

`Overlap` FALSE is the discipline that one command at a time *works on* a box; a purge
may still have looked its entry up before another command was done, which is the race
that the stale-entry guard is for. `LiveHomeKept`, `OneBoxPerWorkspace`; and
`HomeHasHandle`: a home that a list reaches stays reachable until it is gone, except
when a command is killed between its two writes (`rm` keeps no journal; the code
promises nothing there, and the exemption is that kill exactly).

`box_retire` checks them with one create, two retiring commands, two workspaces and two
names; three commands are what the longest known overlap needs (a purge, a register and
a create of one name). With `Overlap` TRUE `LiveHomeKept` fails: a `register` beside a purge
that waits at its prompt makes the box live, and the yes deletes its home.

**Proved** (`BoxProofs`), for any workspaces, names and numbers of creates and
retiring commands: `RetireTypeCorrect` and `OneBoxInAnyOverlap` with no discipline;
`LiveHomesKept` and `HomesKeepHandle` under `~RecoverLive` and `~Overlap`. BoxCreate's
`IInv` stays inductive beside the new commands, because a command at work on a name has
it to itself (`Alone`). `RetireInv` adds what such a command needs: what it read is still
true where it acts on it (`ReadsHold`), a parked entry leads to its complete home
(`ParkedWhole`), and a create that makes a directory anew has dropped the entry of the
one that is gone (`MakesUnparked`). For the handles, `Reached` says that the home a
it did not make has its name registered, and `DropsRightly` that an entry is dropped
only when its home is gone or its box is registered.

## CredsWriteback

One credential store, boxes that rotate copies of it, watchers and host commands. A
credential is its modification time, the one thing the code compares. `Rotate`,
`Detach` and `BoxEnds` are the box; `Start`, `Reattach`, `Copy`, `Leave` and `Stop` the
commands; `Watch`, `ReadFlag` and `Probe` the watcher's tick; `TakeLock`, `ReadBox`,
`Gate`, `Replace` and `Clear` the writeback all of them share
(`writeback_session_credentials`). `due` is a history variable: what the box held when
its flag was raised.

Disciplines: `RefreshRaces` FALSE keeps an agent from rotating while a reattach compares
and copies. The code does not prevent it (`_refresh_one` compares and then copies over
the file of a running box), and `BoxMovesForward` fails with TRUE; the window is a few
instructions. `BadReads` lets a writeback find a box file it refuses.

| run | question | bounds |
|---|---|---|
| `creds` | `StoreMovesForward`, `BoxMovesForward`, `SignalServed`, and `WatchedSignalIsServed` under fairness | 1 box with its old and new watcher, 1 command, the host's own agent, 3 credentials, 1 failure: four writers race for the store, and a third credential makes a stale one |

A window is left open: `writeback_session_credentials` unlinks the flag after the store
write, so a token rotated and signalled after the read of the box file waits for the next
signal. `SignalServed` therefore speaks of what was signalled before the lock was taken.

One box is enough for the store's races: boxes meet only in the store, where a command
and two watchers already race, and the proofs below cover any number of them.

Fairness: a watcher's loop ticks (`while` with a timed wait), a process inside the
lock's section goes on, and `flock` serves a waiter in the end (strong, since others may
take it meanwhile). Nothing is assumed of boxes, users or new commands.

**Proved** (`StoreProofs`), for any boxes, processes and bounds: `TypeCorrect`
and `StoreNeverGoesBack` with any agents; `BoxesNeverGoBack` and `SignalsAreServed`
without refresh races. `IInv` adds to the types that the lock's holder and the processes
in its section are the same (`LockHeld`) and that what passed the gate is still newer
than the store (`StoreInv`): that is the gate holding at the replace. `SignalInv` follows
what a signal is owed from the box file into the writeback's hands and into the store.
Liveness stays with TLC.

## HelperHub

An agent in a box (the director, or a helper) runs `helper spawn`, `respawn`, `stop` or
`cleanup`; a thread of the director's hub serves each request. `proc` are the commands
(`helper_cmd.py`), `req` the threads (`_handle_spawn`, `_handle_stop`), `hub` the hub's
memory, `disk` the state documents, `ctr` podman's containers. A thread's steps are the
sections between its takings of `_containers_lock` and its calls of podman; `Lock` is
false while the sweep keeps the lock. A command may stop waiting at any time (30 seconds
in `send_request`, or an interrupt); its thread then goes on for nobody. A box that ends
ends its commands. The hub starts before its box and sweeps after it (`BeginSweep`,
`SweepOne`, `SweepEnd`); at its exit a podman that a thread was running goes on
(`Orphan`), and is assumed to end before the next hub sweeps. A home that is removed
under its running helper leaves the container without one (`ctr.of` becomes `None`): the
commands in such a helper write nothing more (`Write`, `HasHome`), even if its number is
given to a new home meanwhile. What a stop or cleanup lists (`Subtree`) is the least set of
homes around the helper that has every helper of its boxes; the command remembers the list,
what it has left to do of it (`todo`) and the helper it asks about (`n`).

Kept apart: two commands that launch, stop or clean one helper, and a retry while the
hub still works on the first try. Kept in: a helper that spawns children while it is
stopped or cleaned up, or while the hub sweeps.

- `OneHomePerNumber`: no two homes in the tree share a number, over hubs that restart.
- `HeldKeepsHome`: a helper the hub holds keeps its place in the tree it serves, and runs
  on the home of that place, unless that was removed under it.
- `SweepLeavesNone`: after a sweep nothing runs but what a launch in flight started.
- `CleanupHasTheWord`: a home is removed under its running helper only when its document
  named no container, the hub could not be asked, or it appeared after the list (or again
  after it was removed).

`helper_hub`: two commands and two numbers, enough for a helper, its child and a
command in each box, and for numbers that are reused after a cleanup and a restart.

Seen with TLC, not a run: the docstring of `run_cleanup` promises more, that every helper
stops "before any directory goes". A spawn that is interrupted, or gives up, while its
container starts leaves a document without a container name, and the `cleanup` that the
spawn's own message recommends removes the running helper's home without asking.

**Proved** (`HelperHubProofs`), for any number of numbers and commands:
`OneHomePerNumber`, `HeldKeepsHome`, `SweepLeavesNone`, `CleanupHasTheWord` and the types.
A home is not the only thing that has a number: a command that launches has one before it has a home, and
its thread still has it when the command has given up. `Claims` are the homes both launch,
and `TreeInv` speaks of the homes, the claims and what the hub noted together: all are
below the hub's counter (`Counted`), no two commands claim one number (`Exclusive`), and
where there is a home, claims and notes are of it (`Asked`, `Noted`). A hub that starts
counts the homes on disk only; that is enough because no claim outlives its hub
(`InSession`): a command that launches is in a box that runs, and the sweep takes every
such box, with the commands in it. For the sweep itself `SweepInv` says that what runs is
still listed or will be recorded. `HeldKeepsHome` needs to know whose note a failed launch
may take back: `Reserved` says that it is its own, and that nobody holds it.

`CleanupHasTheWord` is about a list that is read once and used over many steps, while other
commands launch, stop and remove helpers and boxes end. `CInv` adds to the above that a
container's home is there (`Housed`), and for each command with a list what it may rely on
(`Word`). `Listing`: every listed helper but the first is in a listed helper's box, none left
to remove is in a removed one's, and the hub's thread is about the helper that was asked
about. While the command's own box has its home, `Apart`: the listed homes are there and
nobody else works on them; and `Told`: what the hub stopped does not run, and what a cleanup
asked about does not either, unless its document named no container or the hub was not to be
asked. The step that matters is another command's `Remove`, which takes whole subtrees: a
home it removes is above a listed helper only if the home of the command's own box is among
those that go (`TakesListed`), and then the command removes nothing more. No depth of the
tree enters, since a subtree is a least closed set (`SubtreeLeast`). Steps that leave the
list alone keep its word (`Spared`, `QuietWord`), by whomever they are (`OthersWord`,
`WorldWord`, `ActorWord`). TLC agrees with `CInv` for the run's constants, and for three
numbers and one command.

## Snapshots

The snapshots of one box's vault. A content is a version per top-level entry, and `live`,
`staging`, `backup` and `snap` are the vault, a restore's two directories and the store.
`Take`, `List` and `Prune` are the snapshot and prune commands (a prune lists first and
removes then), `Write` is the box, `PutBack` the user who does what the refusal of a
second restore says. A restore (`restore_snapshot`) is `Check`, `Safety` (the copy of the
live vault), `Stage`, `Aside`, then `Move` entry by entry, or `CopyAside` and `Strip` when
the vault is a mount point, `Swap`, and the roll-back `ClearVault`, `Trim`, `Back`. Each step
may raise (`Fails`, `StageFails`, `SafetyFails`, `UndoFails`), be interrupted (`Interrupt`:
no roll-back, since Ctrl-C is not an `Exception`, but the `finally` runs) or be killed.

- `NoLastCopyLost`: no step of a restore removes the last copy of any version from
  vault, backup and store, unless a prune took the restore's own snapshots.
- `AllOrNothing`: a restore that returns leaves exactly the snapshot, or exactly what was
  there, unless it says that it kept a backup.

`snapshots`: two entries (one moved, one not yet), two writes, three snapshots (the one
restored, the safety copy, one more for the prune), mounted or not. Constant `BoxRuns` is
a discipline: FALSE keeps the box from writing during a restore. The code warns of a
running box and goes on; with TRUE, TLC finds that what the box writes between the safety
copy and the swap is in the displaced contents only and goes with them, although
`snapshots.py:884` says "so the copy the swap displaces is never the only copy". One
restore at a time: two that both found no backup race for its directory, and the loser's
roll-back empties the winner's; the hazard list has it.

**Proved** (`StoreProofs`), for any entries, snapshots and bounds: the types
(`SnapshotTypes`), for any number of restores at once and a box that may run; and under one
restore at a time and a box that does not write (`Alone`), `NoCopyLost` (`NoLastCopyLost`)
and `RestoreIsAllOrNothing` (`AllOrNothing`). Why a step may remove something depends on all
that a restore did before. The invariant says where the contents are: the safety copy is what
the vault held (`CopiesInv`); an entry of the backup is nothing or what the vault held, one
of the vault is nothing, that, or the snapshot's (`HoldsInv`), so every version is in a
snapshot that is whole as long as no prune takes it. How far the restore is, is `PhaseInv`:
what was moved aside is whole in the backup and the rest is untouched until the swap
(`AsideInv`, `ForthInv`); on the way back an entry is in the backup or is in its place
again (`BackInv`). Prunes are not kept apart: they only make a snapshot not whole, and every
clause that names one asks that first (`Intact`).

## BoxSupervisor

PID 1 of a box, one thread (`sup`), and the world it polls: attached surfaces (`att`), the
tmux session's agent (`cli`), the panel's agents with a marker file each, the exit record
of tmux's pane-died hook, the credentials flag. `conf` is the command line. The agent loop
is `AgentTick` (reads the attach state), `Scan` (liveness and stale markers), `Act`, `CloseBox` and
`ReadRecord` or `Heal` and `Healed`; the takeover is `Pause`, `GraceRaises` and `Evict`; the
panel loop `PanelTick`, `State`, `Rescan`, `Decide`. The world moves between any two of
them. `Raise` is a tick that raised: `prev` stays, as the code's `continue` leaves it.

`ExitCodeTrue`: a box that closes reports how its agent ended, whichever of pane and
record was there when it looked. `DetachSignalled`: a detach between two ticks raises the
flag through self-heals and raising ticks. `PausedResumed`: a takeover leaves no agent
frozen. `AgentHealed`, `StopEnds`, `DesertedEnds`: a crashed agent comes back or every
attempt failed; SIGTERM ends the box whatever it interrupts; a warmed box that everybody
left comes down. Fairness: PID 1 takes steps and tmux runs its hook; nobody else must act.

`box_supervisor`: the three command lines launches use (foreground, detached with the
takeover, warm-up), one panel agent, two heal attempts, one raising tick: every branch of
both loops is taken, and a second panel agent would only repeat the marker's life.

Seen while modelling, and kept as the code has it: the hand-over from the agent loop to
the panel loop starts from a fresh attach state, so a detach in that tick raises no flag;
self-heal that runs while SIGTERM arrives may start an agent once more before the box
ends; a detach and an attach within one poll are invisible. A tick of the panel loop scans
the markers twice and acts on the first scan: an agent that dies between them is reaped by
the second and never replaced (TLC finds it as a liveness counterexample). Taken as given: an evicted
process group is gone at once, and no pid is reused.

**Proved** (`DaemonProofs`), for any panel agents, numbers of attempts and raising ticks and
any set of the command lines in `Options`: the types (`SupervisorTypes`) and
`ExitCodeIsTrue` (`ExitCodeTrue`). What the supervisor finds when it closes depends on the
hook, whose two steps fall anywhere: the record is written before the pane is gone
(`HookRecords`, `HookCloses`). So pane and record each tell how the agent ended, when they
are there (`PaneInv`), and a foreground box without a pane has a record, unless it was
stopped or never started an agent (`EndInv`). `LoopInv` says where each loop may be, and that
no agent is started between the probe that found it dead and the step that acts on it.

## Relocation

`box move`, `move --name`, `convert --default --name` (a rename in place) and `box remap`
of PRIMARY boxes. `registry`, `home` and `work` are the membership, the data under each
name and what lies at each place; a tree is whole, part or absent, so that a copy or a
removal is two steps with a half tree between them. `mv[m]` is one command: its plan, its
undo stack and the membership it is to restore. The order is `execute_lifecycle`'s:
refusals and prompt (`Move`, `Rename`, `Remap`, then `Arm`), the copy of the workspace
(`Copy`, `Copied`), the rows (`ArmRows`, `Free`, `Claim`), the data under a new name
(`ArmHome`, `CopyHome`, `HomeCopied`), the source row (`Drop`), the point of no return
(`Seal`), and the tail, which removes what was replaced (`DropHome`, `Retire`). Each undo
is pushed before its step (`Push`); `Fail` is any exception or interrupt, and
the `Undo...` actions run the stack, each of them succeeding, failing part-way, leaving
everything, or cut short by a second Ctrl-C, which `_Unwind.run` holds until the stack is
empty. `amiss` is history: an undo failed or was cut short. `Kill` ends a command anywhere; it
is also the interrupt that falls between two undos and leaves the rest of the stack. Creates, rms and registers of other boxes are one
step each here; BoxCreate and BoxRetire have their steps.

- `NothingLost`: no step, undo or tail takes the last whole copy of a box's data or files.
- `RowLeadsToBox`: a row leads to a whole home and a whole workspace of one box. Excused
  are the new name of a relocation under way or killed, and the names of one that began
  with a broken box or an undo of which failed or was cut short.
- `UsableThroughout`: at every moment of a relocation and of its undo, so also at a kill, some
  row leads to the whole box. Four windows are excused. `Between`: the row that is replaced
  is gone and the new row (with all its data, for a rename in place) is not there yet, since
  one row cannot be there twice and the code has no journal. `Back`: an undo has not restored
  the rows yet, as in a `move --name` that failed after `Drop` and is killed between
  `UndoHome` and `UndoRows`; or an undo went amiss and the row is not what it was. And a
  remap, whose user moved the files before.
- `AllOrNothing`: a relocation none of whose undos failed or was interrupted happened or did
  not.

What an undo leaves that failed is named in a note; what one leaves that was cut short is
not, though `_unwind_created_root` has it that whatever remains is named. A move fails while
it copies, a second Ctrl-C falls into the removal of the copy, and half a copy stays of which
the command says nothing: `_Unwind.run` holds the interrupt, counts no failure
(`workset.py:1155`) and raises it past the note of `execute_lifecycle` (`_lifecycle.py:2226`).
TLC shows it in seven states if `AllOrNothing` is to hold of such a relocation.

Three disciplines say what the properties rest on; each is FALSE in `relocation`, and TLC
shows what fails without it:

- `Merges`: a new name may have a directory. `_validate` looks at the membership only, so
  a rename onto a deregistered box's name merges over its home. This is
  `relocation_parked` (violation).
- `RowsRace`: other boxes' rows change while a relocation is to restore the membership.
  `_restore_primary_rows` puts back all of it, not its own rows: a box registered
  meanwhile loses its row, and the new row of a rename that another relocation saw
  and its owner undid comes back (`RowLeadsToBox`, `UsableThroughout` and `AllOrNothing`
  fail). The undo for worksets (`settings/paths.py:2265`) is careful here.
- `Overlap`: two commands work on one name or place. No lock spans a relocation: of two to
  one destination, the undo of the first removes what came of the second (all four fail).
  A relocation has its box's name and place from the command on, a remap the place its
  user took the files to as well, and every relocation the new name and place from the
  prompt's yes on.

`relocation`: two boxes, three names, three places, two commands, symmetric in all of them:
a relocation, one that ran before or runs beside it, and a free name and place for each.

**Proved** (`RelocationProofs`), for any boxes, names, places and number of commands:

- `TypeCorrect` and `OneRowAlways`, in any overlap. `ShapeInv` says what may be armed when:
  a stack holds every undo at most once, `source` under `dest` under `rows` under `home`
  (`Ordered`), each of them only at the steps after its own (`StackShape`).
- With the three disciplines FALSE, `NoBoxIsLost` (`NothingLost`), `AlwaysUsable`
  (`UsableThroughout`) and `RowsLeadToBoxes` (`RowLeadsToBox`). They are not inductive:
  whether an undo or the tail may remove a tree depends on what the command knows of the
  other one. `KeepInv` adds that no two commands hold one name or place (`Exclusive`) and
  what every command may rely on by itself (`Mine`): the copy is the source or half of it as
  long as its undo is armed (`CopyInv`, `HomeInv`); which rows it has when, and which the
  restore puts back (`RowInv`, `UndoInv`); that nobody else has a row to its place (`FromInv`);
  and that a box that was whole is until the tail takes the source (`SoundInv`).
  `StepWithin` says once that a step writes only what its command holds, and `MineStays` that
  a command apart from it notices nothing; then there is one lemma per action (`MineCopy`, ...).
- `RowsLeadToBoxes` takes `LeadInv` beside it: a row is right, or hurt for good (`HurtBy`), or
  left open by a command for now (`OpenBy`), and no row that is right leads to the place an
  armed undo removes (`DestInv`). The claim that a row is open ends with the row, with the
  data, or with an undo that goes amiss (`ClaimHolds`, `OpenRowCloses`).

`AllOrNothing` is checked for two commands only: for three it does not hold as it is stated,
once a killed rename has left a box with data under two names.

## Worksets

`workset create`, `connect`, `disconnect` and `rm`, for members outside the workset's root;
the import that lists a workset found on disk again, `box register` of a standalone
directory, and the repair that every command on a member does first. `listed` and `alone`
are the global registry's worksets and standalone rows, `rows` the membership file of each
workset, `root` its skeleton, `store` and `link` the members' box directories and links,
`marked` the directories with the standalone mark, `entry` the journal's pending connects.
A connect runs `Connect` (the refusals of `run_connect`), `Open` (`_journal_connect`),
`Enter`, `MakeStore`, `Link`, `Absorb`, `WriteRow`, `DropMark` (`add_project`), `Close`. The
effect of a step comes before its undo is armed (`Does`), except where the code arms first;
`Fail` and `Interrupt` run the undos last made first, each of which may fail
(`UndoFails`); an `Interrupt` in the undo is held to its end. `Undone` says which ways of
failing clear the entry. `rm --purge` is
`RemoveTree`, `Unlist`, `RemoveRoot`, and any part of the root may stay. `Kill` ends a command
anywhere. A workset that was taken off the list keeps its files, and `Import` brings its rows
back.

- `MarksAccounted`: what was a box has its mark or is a member, through every failure, undo
  and kill (`MarkOrMember`), and a member that still has its mark has the entry that will
  drop it (`MarkIsPending`).
- `AllOrNothing`: a connect that failed and undid all left the records, the link and the box
  directory as it found them.
- `OneRecordKept`: no step but an import gives a directory a second record.
- `ListedIsWhole`: what is on the list has its whole skeleton.

`lapse` collects what the first ones do not speak of, because the command said so (unless a
second Ctrl-C cut its undo short: then it says nothing) or was asked to: a mark that could not be removed, a mark or row that could not be put back, a
plain directory that was disconnected, a workset whose row could not be taken back.

`worksets`: two worksets, one member name each, one directory that begins as a standalone
box and is a plain one after an absorb and a disconnect, and two commands: both worksets
contend for one directory, and one of them is made, listed or removed while the other is
connected to. `Overlap` FALSE keeps two commands off one member, one directory and one
workset; a workset's import waits likewise. The code takes no lock across a command, and
with `Overlap` TRUE TLC breaks the first two: two connects of one name both pass
the checks, the later membership write replaces the earlier row, and the undo of one takes
the box directory of the other. `rm --purge` beside a command in the root is listed anew
between `Unlist` and `RemoveRoot`.

As the code has it, and excepted above: a member of a workset that was taken off the list
may be connected elsewhere or registered as a standalone box; the import has both records
after that (`import_reconcile.py:421`), though one box is to live in one registry.

**Proved** (`WorksetsProofs`), for any worksets, names, directories and commands, in any
overlap: `TypeCorrect`, and `OneNameInAnyOverlap`: no workset lists one directory under two
names, whatever overlaps and whatever an undo puts back. It rests on the registry's own
check under its lock (`Registrable`): rows are written by `WriteRow` and `UndoRow` alone
(`OtherStepsKeepRows`), and both ask it.

**Proved** there, for the same and with `Overlap` FALSE: `BoxesStayBoxes`
(`MarksAccounted`), `ListedIsAlwaysWhole` (`ListedIsWhole`), `FailureLeavesNothing`
(`AllOrNothing`) and `OneRecordForEach` (`OneRecordKept`). None is inductive: whether an undo
may drop a row depends on what the command knows. `MarkInv` says it of each command by itself (`Keeps`): which row it has when
(`RowOfStep`), that its entry is written (`EntryOfStep`), that the mark it did not see is not
there (`MarkOfStep`), and that the row may go, or the mark come back, when its undo says so
(`Undoable`). It keeps two commands `Apart` as long as both work. Then one lemma per action
says what a step does to rows, entries and marks (`Effects`), and `StepsKeep` says once for
all that a command apart from it notices nothing. `RootInv` does the same for the roots.

The last two need to know what a connect found. `FoundInv` says that as long as it may still
fail by itself it can tell that from what it made (`Before`): the box directory was not there
if its undo is armed, and is now as it was if not, and so for the link and the standalone
row; when nothing is left to undo, that is what is there. `RecordInv` says that no listed
workset holds the directory but by the connect's own row, and no longer than the undo of that
row is armed, so that the standalone row comes back to a directory without a member. What the
other commands leave alone is `Leaves` and `HoldsNoMore`, one lemma per group of actions.

## HubDaemon and HubSlot

The hub process of a box over several starts and stops. `start` are the starts (wait for
ready, run the container, then `Release` or `Quit`), `hub` the processes they spawn, `call`
the calls of `stop_hub` that a new hub (to take over), a start and `kanibako stop` make,
`lock` the flock's holder, `pid` what is written in the lock file, `sock` whose socket the
path names. A call tries the lock, reads the pid and signals it, then polls; `Over` is its
end, by the lock or by the time-out. A hub that got through `Taken` opens the file again
(`Open`), which another may have locked by then, writes its pid, binds and answers ready;
if its start no longer waits the write fails and it ends (`Bind`). `Tick` is the probe, the
count of misses, the decision (`Gives`) and the re-bind. Killed processes drop their locks.

- `OneHub` == `Slot!Spec`: HubDaemon implements **HubSlot**, an office that one hub at a
  time holds, in which alone it answers and to which it does not come back. The mapping
  reads the office off the hubs' program counters; the lock does not appear in it.
- `KeepsHub`: the newest start that came up with a hub that answered leaves the box with
  that hub while it runs, if starts and stops do not overlap and nothing is killed.
- `ComesToRest`: of a box that ended, and is not started again, no start hangs and no hub
  remains, though every call of `stop_hub` may time out.

`hub_daemon`: two starts, so that a hub takes over from an earlier one and competes with
the stop of its own start, one stop command that repeats, and `MissLimit` 2 (the code's is
3; two tell a first miss from the last). Fairness: starts, hubs and stops run on, and the
grace of 600 seconds ends; nobody has to start, stop or end a box. The grace is taken to
outlast the start, and a box that was up to be seen by a probe or to be waited for.

Outside `KeepsHub`'s condition the code promises nothing, and the model shows why: a
start that loses the race for the name stops whichever hub holds the lock, the winner's
included; a stop that holds the lock for its instant makes a new hub's second open fail; a
hub between its lock and its pid is signalled by nobody.

**Proved** (`DaemonProofs`), for any number of starts and stops and any `MISS_LIMIT`:
`Typed`, and `OneHubAtATime`, the refinement. HubSlot's variables do not say why a second
hub cannot enter. `IInv` adds that the lock has one holder and that a hub's descriptor
holds it exactly while the hub is in office (`LockInv`), that the path names the socket of
a hub that was in office (`SockInv`), and that a start that has not begun has no hub
(`FreshInv`). Each action is then one of three kinds: a hub enters, one leaves, or office
and past stay (`StepKinds`); these are HubSlot's three actions (`SlotStep`).

Also `HubIsKept` (`KeepsHub`). That a hub serves now depends on all that could have ended it
before: `KeepInv` says that, while nothing overlapped, one start or hub at most is on its way
and none below a newer start (`SoloInv`, `OrderInv`), that the box of a waiting start is down
(`DownInv`), and that the hub of the newest start that is ready is not told to end, has no
probe of a box that was down counted against it, and is below its limit (`Serving`).

## Launch

The commands that bring one box up and down: `start`, which attaches to a running box,
`start --detach`, `--ephemeral`, `--restart` and `stop`. They meet in the name of the
container, and in `.kanibako.lock` only if both are ephemeral. `box` is the container that
has the name (its state, who may remove it, its agent's session and exit code), `proc` the
commands, `lock` the holder of the lock; `exit` and `by` remember how each container ended
and who removed it. A command is a chain of questions to podman and orders to it, each a
step: `Look`; `Clear`, or `Blocked` and `Lock`; `Create` and `Boot` (`podman run`);
`Wait`; the attempts `Ready`, `Seen`, `Attach`; what an attach that ended means (`Judge`,
`Session`, `Await`, `Code`, `Logs`, `Lost`, `After`: `_agent_exit_rc` and what is around it);
the teardown (`Over`, `Teardown`); and `stop` (`Found`, `Ask`, `UnpauseIt`, `AskAgain`,
`Sweep`, and `Check` for a restart). `SessionStarts`, `NeverStarts`, `AgentEnds` and
`BoxExits` are the box, seen from the host; BoxSupervisor has the inside of it.

- `LiveBoxKept`: a live session is ended by a stop or by itself. Nothing but `podman rm`'s
  refusal guards it: a start removes "the stopped container" long after it looked.
- `ExitCodeSurfaces`: the command attached to a box that ended returns that box's code,
  unless another command removed the container first, or the logs say that the setup in the
  box did not take: then it returns 1, and nothing else. And a start that returns 0 without
  having attached hides no failure of the box it launched.
- `NothingLeftBehind`: whoever saw the box end removes it, unless it returns because the setup
  did not take; and a stop that reports success has taken down the box it found.

The exception is the code's, not its comments' ("an exited box is torn down so the next
start/shell is fresh"): after its own launch, a start whose `should_run_setup(logs)` is true
returns 1 before the teardown (`start.py:6309`; Goose and Codex have such a check), and
without the exception TLC breaks `NothingLeftBehind`. The path of a box that never started
tears it down, and a reattach does not look at the logs.

`launch`: two processes that run any number of commands, two containers, so that a command
may meet a successor of the container it looked at, and two attach attempts (the code's
are 5; one tells a retry from the last). Commands are killed anywhere.

**Proved** (`LaunchProofs`), for any number of commands, containers and attempts: the types
(`TypeCorrect`), `LiveBoxKept`, `ExitCodeSurfaces` and `NothingLeftBehind`. The three are
about a step of one command; what makes them true is what the others cannot do meanwhile,
and that is the inductive invariant. `BoxInv`: containers are numbered as they come, a
removed one does not come back, and `exit` is what an exited one shows. `OwnInv` and
`Apart`: a created container belongs to the one start that is about to boot it. `AttInv`:
an attached command is in a live session. `DueInv`: from the end of a box to the return of
its code the container is there as it ended, unless another command took it away, and the
command is at one of the steps that lead to the code. `MineInv` says the same of the box a
start created and did not attach to. `NextStep` has one lemma per action.

Taken as given: a box whose agent ended stops within the bound `_await_box_stop` waits.
Left out: a pause during an attach. `is_running` reads a paused box as not running, so a
start that meets one while it attaches takes it for stopped and returns 0 for it. Left out
too: what a launch writes into the box's home, where two starts that both read "not
running" may write at once; the box shell; legacy, renamed and stuck containers.

## HelperClient

The box's end of the hub's socket, `HelperConnection`: threads that share one object. `conn`
are the connections it has had, each with its reader thread and the hub's end; `queue` the
pairs of queues (`_responses`, `_inbox`), of which `close` makes new ones; `client` the
attributes; `thr` the threads. A request is `Request` (reads `_sock`), `TakeQueue` (reads
`_responses`), `Send` (takes `_lock`), `Answer` and, for one that met the sentinel,
`Repost`; a recv is `Recv`, `TakeInbox`, `Take` or `TimeOut`, and `Repost`. `close` is
`Close`, `Shut` and `Replace`, and its wait of five seconds for the reader may end before
the reader does. The reader is `Check`, `Read` and `Eof`. The hub (`HubTakes`,
`HubAnswers`, `HubPushes`) serves a connection's requests in order; two of its threads may
write to one socket at once (`HubGarbles`), and it may be gone at any time (`HubGoes`).

- `OwnAnswer`: frames name no request, so an answer is right only if one request is under
  way, and nothing is left of those before, on this connection or an earlier one.
  "Connection closed" is said of the connection the request was made on.
- `WaitersWake`: nobody waits for a frame that cannot come.
- `ClosedIsLast`: no frame follows the sentinel in a queue. Proved, and not in the run: it
  is what lets a waiter trust the sentinel.

`helper_client`: the owner and another thread, two connections with one close between
them, three calls, one push. Fairness: threads run on, a close that has begun goes on, and
the hub answers or goes; nobody has to call anything, and the hub need not send messages.
The bound on calls takes the place of fairness between threads at one queue.

Seen with TLC, not a run: a recv that has looked at `_sock` before a close and reads
`_inbox` after it waits on the new queue, which has no reader, though its docstring says
that it returns None on disconnect. `WaitersWake` leaves such a recv out.

**Proved** (`HelperClientProofs`), for any number of threads, connections, calls and
pushes: `OwnAnswer`, `ClosedIsLast` and the types. None of them is inductive;
the invariant says where things are. A pair of queues belongs to one connection: one that
is used and has the client's present queues is the client's connection or is being closed
(`ConnInv`, `Apart`), and queues without a connection are empty (`FreeInv`), which is why
`close` must replace them. While a reader lives, at most one answer is anywhere between the
hub and the queue, and it is that of the thread with the lock (`Pipe`). Once it has
retired, each queue has one sentinel, at its end or in the hands of the one thread that
puts it back (`EndedResp`, `EndedInbox`). Each action then is one lemma, that of the one
connection it is about; `PairStep` shows that the others stay.

Kept apart: `connect` and `close` are called by one thread. A connect beside a close may
start a reader on queues that the close then replaces.

## What is only model-checked, and what is out

Liveness (`WatchedSignalIsServed`, `ComesToRest`, `WaitersWake`, and the supervisor's
`DetachSignalled`, `PausedResumed`, `AgentHealed`, `StopEnds` and `DesertedEnds`), Relocation's
`AllOrNothing` and the finding are checked by TLC only; every other property of the runs is
proved as well. The bounds are
above. The runs leave out the type invariants. Symmetry is used for sets of workspaces,
places, names, commands, boxes and entries, in runs without liveness.
`PROJECT.json` lists every component with the reason where it is not modelled: the parts
planned above; wrappers of podman, whose state is not the program's; path walks that rest
on the kernel; and pure formatting. Its hazards are those of the modelled parts. Four more
of these parts no property covers: a box that writes its vault while a restore runs
(`snapshots.py:945`), two launches of one helper number (`helper_listener.py:537`), two
connects of one name or directory (`workset_cmd.py:713`, `Overlap` above), and two starts
that prepare one home (`start.py:3593`).
