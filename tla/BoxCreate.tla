------------------------------ MODULE BoxCreate ------------------------------
(***************************************************************************)
(* `kanibako create` of PRIMARY boxes: any number of commands running at   *)
(* once against one registry, one lifecycle journal and one boxes          *)
(* directory (run_create in commands/box/_parser.py with the journal of    *)
(* launch/journal.py and the membership of project/workset_registry.py).   *)
(*                                                                         *)
(* A command is a process with a program counter.  One action is one file  *)
(* operation (a read pass, or a read-modify-write under its lock), so that *)
(* commands interleave between any two of them.  A command may be killed   *)
(* at every point: what it wrote stays and its locals are gone.            *)
(*                                                                         *)
(* All workspaces share one basename, the worst case for the name picker:  *)
(* name 1 is the basename, name k > 1 the basename with the suffix k.      *)
(* Not modelled here: NAMED and STANDALONE creates, settings, templates.   *)
(***************************************************************************)
EXTENDS Naturals

CONSTANTS
  Workspaces,   \* the directories boxes are created for
  MaxName,      \* bound: the highest suffix the name picker reaches
  Typed,        \* the names users pass with --name
  Procs,        \* create commands that may run at the same time
  NoWs,         \* no workspace
  RecoverLive   \* TRUE when --recover may adopt the entry of a running create

Names == 1..MaxName

ASSUME MaxNameAssumption == MaxName \in Nat \ {0}
ASSUME NoWsAssumption == NoWs \notin Workspaces
ASSUME TypedAssumption == Typed \subseteq Names
ASSUME RecoverLiveAssumption == RecoverLive \in BOOLEAN

VARIABLES
  registry,  \* the primary membership: name -> workspace
  journal,   \* pending create entries: boxes/<name> -> the workspace it names
  tree,      \* boxes/<name> on disk: whose box it is, and whether it is seeded
  parked,    \* deregistered entries (`rm` without --purge): name -> workspace
  proc       \* the running create commands

vars == <<registry, journal, tree, parked, proc>>

NoTree == [of |-> NoWs, seeded |-> FALSE]
Present(n) == tree[n] # NoTree

\* Where a command may stand, in program order.  From "drop" to "clear" the
\* command works behind its journal entry.
Before == {"check", "probe", "pick", "orphan", "claim", "repick"}
Behind == {"drop", "arm", "make", "persist", "undo", "unclaim",
           "seed", "register", "clear"}
Ended  == {"idle", "done"}

Idle == [pc |-> "idle", ws |-> NoWs, typed |-> 0, recover |-> FALSE,
         name |-> 0, box |-> 0, fresh |-> FALSE]

Command == [pc : Before \cup Behind \cup Ended, ws : Workspaces \cup {NoWs},
            typed : Names \cup {0}, recover : BOOLEAN,
            name : Names \cup {0}, box : Names \cup {0}, fresh : BOOLEAN]

TypeOK ==
  /\ registry \in [Names -> Workspaces \cup {NoWs}]
  /\ journal \in [Names -> Workspaces \cup {NoWs}]
  /\ parked \in [Names -> Workspaces \cup {NoWs}]
  /\ tree \in [Names -> [of : Workspaces \cup {NoWs}, seeded : BOOLEAN]]
  /\ proc \in [Procs -> Command]

-----------------------------------------------------------------------------
(* The store a command finds: complete boxes, orphaned directories, parked  *)
(* boxes whose directory is there or gone; no command running.              *)

Init ==
  /\ registry \in [Names -> Workspaces \cup {NoWs}]
  /\ \A m, n \in Names : registry[m] = registry[n] /\ registry[m] # NoWs => m = n
  /\ journal = [n \in Names |-> NoWs]
  /\ tree \in [Names -> [of : Workspaces, seeded : {TRUE}] \cup {NoTree}]
  /\ \A n \in Names : registry[n] # NoWs => tree[n].of = registry[n]
  /\ parked \in [Names -> Workspaces \cup {NoWs}]
  /\ \A n \in Names : parked[n] # NoWs =>
       registry[n] = NoWs /\ tree[n].of \in {parked[n], NoWs}
  /\ proc = [p \in Procs |-> Idle]

-----------------------------------------------------------------------------
Goto(p, pc) == proc' = [proc EXCEPT ![p].pc = pc]
Refuse(p)   == proc' = [proc EXCEPT ![p] = Idle]
Named(p, n, pc) == proc' = [proc EXCEPT ![p] = [@ EXCEPT !.name = n, !.pc = pc]]
Enter(p, n) == proc' = [proc EXCEPT ![p] = [@ EXCEPT !.box = n, !.pc = "persist"]]
Armed(p, f) ==
  proc' = [proc EXCEPT ![p] = [@ EXCEPT !.fresh = f, !.pc = "make"]]

\* The name a non-materializing resolve gives workspace w: the registered one,
\* else the one its pending create entry records.
Finds(w, n) == IF \E m \in Names : registry[m] = w THEN registry[n] = w
                                                   ELSE journal[n] = w
Unnamed(w) == \A n \in Names : registry[n] # w /\ journal[n] # w

Runs(w) == \E p \in Procs : proc[p].pc \in Behind /\ proc[p].ws = w

\* `kanibako create [--name N | --recover] <workspace>`.  --recover with a
\* shaping flag such as --name is refused outright.
Begin(p, w, typed, recover) ==
  /\ proc[p].pc \in Ended
  /\ recover => typed = 0
  /\ proc' = [proc EXCEPT ![p] = [Idle EXCEPT
                !.pc = IF typed = 0 THEN "probe" ELSE "check",
                !.ws = w, !.typed = typed, !.name = typed,
                !.recover = recover]]
  /\ UNCHANGED <<registry, journal, tree, parked>>

\* A typed name must be free, and so must its home: not parked, and no
\* directory unless a pending create explains it.
CheckName(p) ==
  /\ proc[p].pc = "check"
  /\ LET n == proc[p].typed IN
       IF registry[n] = NoWs /\ parked[n] = NoWs
          /\ (journal[n] # NoWs \/ ~Present(n))
       THEN Goto(p, "probe") ELSE Refuse(p)
  /\ UNCHANGED <<registry, journal, tree, parked>>

\* The probe of a workspace that has a name already: a pending entry at it is
\* resumed by --recover alone, and a finished box is refused.
ProbeNamed(p) ==
  /\ proc[p].pc = "probe"
  /\ \E n \in Names :
       /\ Finds(proc[p].ws, n)
       /\ LET pending == journal[n] # NoWs IN
            \/ /\ pending /\ proc[p].recover
               /\ RecoverLive \/ ~Runs(proc[p].ws)
               /\ Named(p, n, "drop")
            \/ /\ pending # proc[p].recover \/ (~pending /\ Present(n))
               /\ Refuse(p)
            \/ /\ ~pending /\ ~proc[p].recover /\ ~Present(n)
               /\ Named(p, IF proc[p].typed = 0 THEN n ELSE proc[p].typed, "claim")
  /\ UNCHANGED <<registry, journal, tree, parked>>

\* The probe of a new workspace: a name is picked, unless one was typed.
ProbeNew(p) ==
  /\ proc[p].pc = "probe"
  /\ Unnamed(proc[p].ws)
  /\ IF proc[p].recover THEN Refuse(p)
     ELSE Goto(p, IF proc[p].typed = 0 THEN "pick" ELSE "claim")
  /\ UNCHANGED <<registry, journal, tree, parked>>

\* pick_primary_box_name: the first name no box, directory or pending entry has.
Taken(n) == registry[n] # NoWs \/ Present(n) \/ journal[n] # NoWs

Pick(p) ==
  /\ proc[p].pc \in {"pick", "repick"}
  /\ \E n \in Names :
       /\ ~Taken(n)
       /\ \A m \in Names : m < n => Taken(m)
       /\ Named(p, n, IF proc[p].pc = "pick" THEN "orphan" ELSE "claim")
  /\ UNCHANGED <<registry, journal, tree, parked>>

\* A bare create that stepped over its own basename refuses when that directory
\* is claimed by nothing: it may be a complete box whose registration was lost.
CheckOrphan(p) ==
  /\ proc[p].pc = "orphan"
  /\ IF /\ proc[p].name # 1 /\ Present(1)
        /\ registry[1] = NoWs /\ parked[1] = NoWs /\ journal[1] = NoWs
     THEN Refuse(p) ELSE Goto(p, "claim")
  /\ UNCHANGED <<registry, journal, tree, parked>>

\* What stands in the way of claiming name n for workspace w, read under the
\* journal's lock: a box made meanwhile, or another create's entry.
\* Mutated form: the claim trusts the pick and reads the journal only.
NeverMadeMeanwhile(w, n) == FALSE

MadeMeanwhile(w, n) == IF registry[n] = NoWs THEN Present(n) ELSE registry[n] # w

\* Mutated form: the claim compares keys, never workspaces.
KeyOnlyInProgress(w) == FALSE

InProgress(w) == \E m \in Names : journal[m] = w

\* _claim_create_entry and the loop around it: the entry is written only when
\* nothing holds the name; a picked name another create holds is picked again.
Claim(p) ==
  /\ proc[p].pc = "claim"
  /\ LET w == proc[p].ws
         n == proc[p].name IN
       \/ /\ ~MadeMeanwhile(w, n) /\ journal[n] = NoWs /\ ~InProgress(w)
          /\ journal' = [journal EXCEPT ![n] = w]
          /\ Goto(p, "drop")
       \/ /\ MadeMeanwhile(w, n) \/ journal[n] \notin {NoWs, w}
          /\ IF proc[p].typed = 0 THEN Goto(p, "repick") ELSE Refuse(p)
          /\ UNCHANGED journal
       \/ /\ ~MadeMeanwhile(w, n) /\ journal[n] \in {NoWs, w} /\ InProgress(w)
          /\ Refuse(p)
          /\ UNCHANGED journal
  /\ UNCHANGED <<registry, tree, parked>>

\* A parked entry whose directory is gone is dropped: the new box's home would
\* otherwise be reached, and purged, by its name.
DropGoneParked(p) ==
  /\ proc[p].pc = "drop"
  /\ LET n == proc[p].name IN
       parked' = IF Present(n) THEN parked ELSE [parked EXCEPT ![n] = NoWs]
  /\ Goto(p, "arm")
  /\ UNCHANGED <<registry, journal, tree>>

\* Mutated form of ArmUndo: the undo of a fresh create takes whatever is there.
ArmUndoBlindly(p) ==
  /\ proc[p].pc = "arm"
  /\ Armed(p, ~proc[p].recover)
  /\ UNCHANGED <<registry, journal, tree, parked>>

\* The undo of a fresh create is armed with what does not exist yet.
ArmUndo(p) ==
  /\ proc[p].pc = "arm"
  /\ Armed(p, ~proc[p].recover /\ ~Present(proc[p].name))
  /\ UNCHANGED <<registry, journal, tree, parked>>

\* Where the materializing resolve lands: the directory the workspace's name
\* leads to, and without one (or without a name: the entry of a create that was
\* recovered under it is cleared) the claimed name's.
Lands(w, claimed) ==
  IF Unnamed(w) THEN {claimed}
  ELSE {IF Present(n) THEN n ELSE claimed : n \in {m \in Names : Finds(w, m)}}

\* Mutated form of Make: always the claimed name's directory.
MakeClaimed(p) ==
  /\ proc[p].pc = "make"
  /\ LET box == proc[p].name IN
       /\ tree' = IF Present(box) THEN tree
                  ELSE [tree EXCEPT ![box].of = proc[p].ws]
       /\ Enter(p, box)
  /\ UNCHANGED <<registry, journal, parked>>

Make(p) ==
  /\ proc[p].pc = "make"
  /\ \E box \in Lands(proc[p].ws, proc[p].name) :
       /\ tree' = IF Present(box) THEN tree
                  ELSE [tree EXCEPT ![box].of = proc[p].ws]
       /\ Enter(p, box)
  /\ UNCHANGED <<registry, journal, parked>>

\* Mutated form of Persist: registration is not deferred past the seed.
PersistThenRegister(p) ==
  /\ proc[p].pc = "persist"
  /\ Goto(p, "register")
  /\ UNCHANGED <<registry, journal, tree, parked>>

\* The settings the create was told are written: the create is committed.
Persist(p) ==
  /\ proc[p].pc = "persist"
  /\ Goto(p, "seed")
  /\ UNCHANGED <<registry, journal, tree, parked>>

\* A materialize or a settings write that raises: a fresh create undoes itself,
\* a recovery leaves the entry pending.
Fail(p) ==
  /\ proc[p].pc \in {"make", "persist"}
  /\ IF proc[p].recover THEN Refuse(p) ELSE Goto(p, "undo")
  /\ UNCHANGED <<registry, journal, tree, parked>>

Undo(p) ==
  /\ proc[p].pc = "undo"
  /\ tree' = IF proc[p].fresh THEN [tree EXCEPT ![proc[p].name] = NoTree] ELSE tree
  /\ Goto(p, "unclaim")
  /\ UNCHANGED <<registry, journal, parked>>

\* Mutated form of UndoFails: the entry is cleared all the same.
UndoFailsUnclaims(p) ==
  /\ proc[p].pc = "undo" /\ proc[p].fresh /\ Present(proc[p].name)
  /\ Goto(p, "unclaim")
  /\ UNCHANGED <<registry, journal, tree, parked>>

\* An undo that could not remove everything keeps the entry: still recoverable.
UndoFails(p) ==
  /\ proc[p].pc = "undo" /\ proc[p].fresh /\ Present(proc[p].name)
  /\ Refuse(p)
  /\ UNCHANGED <<registry, journal, tree, parked>>

Unclaim(p) ==
  /\ proc[p].pc = "unclaim"
  /\ journal' = [journal EXCEPT ![proc[p].name] = NoWs]
  /\ Refuse(p)
  /\ UNCHANGED <<registry, tree, parked>>

\* seed_new_box, the inbox and the canon skeleton.  It may raise instead
\* (Raise); a directory removed under it is one reason.
Seed(p) ==
  /\ proc[p].pc = "seed"
  /\ Present(proc[p].box)
  /\ tree' = [tree EXCEPT ![proc[p].box].seeded = TRUE]
  /\ Goto(p, "register")
  /\ UNCHANGED <<registry, journal, parked>>

\* The committing step: a no-op for a box registered already, refused for a
\* name or a workspace another box holds (Raise).
Refused(w, n) == \/ registry[n] \notin {NoWs, w}
                 \/ \E m \in Names \ {n} : registry[m] = w

Register(p) ==
  /\ proc[p].pc = "register"
  /\ LET w == proc[p].ws
         n == proc[p].box IN
       /\ registry[n] = w \/ ~Refused(w, n)
       /\ registry' = [registry EXCEPT ![n] = w]
  /\ Goto(p, "clear")
  /\ UNCHANGED <<journal, tree, parked>>

\* After the commit nothing is undone: an error leaves the entry pending.
Raise(p) ==
  /\ \/ proc[p].pc = "seed"
     \/ proc[p].pc = "register" /\ registry[proc[p].box] # proc[p].ws
        /\ Refused(proc[p].ws, proc[p].box)
  /\ Refuse(p)
  /\ UNCHANGED <<registry, journal, tree, parked>>

Clear(p) ==
  /\ proc[p].pc = "clear"
  /\ journal' = [journal EXCEPT ![proc[p].box] = NoWs]
  /\ proc' = [proc EXCEPT ![p] = [Idle EXCEPT !.pc = "done", !.ws = proc[p].ws]]
  /\ UNCHANGED <<registry, tree, parked>>

\* SIGKILL, a power cut: nothing runs any more, what was written stays.
Kill(p) ==
  /\ proc[p].pc \notin Ended
  /\ Refuse(p)
  /\ UNCHANGED <<registry, journal, tree, parked>>

-----------------------------------------------------------------------------
Step(p) ==
  \/ CheckName(p) \/ ProbeNamed(p) \/ ProbeNew(p) \/ Pick(p) \/ CheckOrphan(p)
  \/ Claim(p) \/ DropGoneParked(p) \/ ArmUndo(p)
  \/ Make(p) \/ Persist(p) \/ Fail(p)
  \/ Undo(p) \/ UndoFails(p) \/ Unclaim(p)
  \/ Seed(p) \/ Register(p) \/ Raise(p) \/ Clear(p)

Next == \E p \in Procs :
  \/ \E w \in Workspaces, typed \in Typed \cup {0}, recover \in BOOLEAN :
       Begin(p, w, typed, recover)
  \/ Step(p)
  \/ Kill(p)

Spec == Init /\ [][Next]_vars

-----------------------------------------------------------------------------
(* Properties *)

\* A box is registered only after its home is seeded, and stays seeded: no
\* launch ever finds a half-made box by name (the deferred registration).
RegisteredSeeded == \A n \in Names : registry[n] # NoWs =>
  tree[n] = [of |-> registry[n], seeded |-> TRUE]

\* Write-ahead: a directory that a create left half made always has the pending
\* entry that --recover resumes, whatever was killed, failed or undone when.
HalfMadeIsJournaled == \A n \in Names : Present(n) /\ ~tree[n].seeded =>
  journal[n] = tree[n].of

\* Two commands never work behind the journal on one workspace, on one name or
\* in one directory at the same time.
ShareNothing == \A p, q \in Procs :
  p # q /\ proc[p].pc \in Behind /\ proc[q].pc \in Behind =>
    /\ proc[p].ws # proc[q].ws
    /\ proc[p].name # proc[q].name
    /\ proc[p].box = proc[q].box => proc[p].box = 0

\* A workspace with a registered box never gets a second directory half made
\* for it under another name, by a create that probed before the first ended.
NoSecondHome == \A m, n \in Names :
  registry[n] # NoWs /\ tree[m].of = registry[n] /\ m # n => tree[m].seeded

\* One workspace has exactly one box name, even when a --recover ran beside the
\* create it recovers.
OneBoxPerWorkspace == \A m, n \in Names :
  registry[m] = registry[n] /\ registry[m] # NoWs => m = n

\* A create never writes into a directory that belongs to another workspace's
\* box, however the names were picked and taken meanwhile.
WorksInOwnHome == \A p \in Procs :
  proc[p].pc \in {"persist", "seed", "register", "clear"} =>
    tree[proc[p].box].of = proc[p].ws

\* Both: whoever works behind the journal has its workspace, name and directory alone.
CreatesAreExclusive == ShareNothing /\ WorksInOwnHome

\* A complete box's directory (registered, parked or orphaned) is never removed
\* or re-owned by any create, failing or not: the data-loss guard.
CompleteHomeKept == [][\A n \in Names : tree[n].seeded => tree'[n] = tree[n]]_vars
=============================================================================
