------------------------------- MODULE Worksets -------------------------------
(***************************************************************************)
(* Worksets: `workset create', `connect', `disconnect' and `rm'            *)
(* (commands/workset_cmd.py, project/workset.py), the import that lists a  *)
(* workset found on disk again, the register of a standalone box           *)
(* (project/import_reconcile.py), and the repair of an interrupted connect *)
(* that every command on a member does first (resolve_workset_project).    *)
(*                                                                         *)
(* A connect makes a directory a member of a workset.  With --force it     *)
(* absorbs a standalone box: the box's row leaves the global registry, a   *)
(* row comes into the workset's, and the mark in the directory goes last.  *)
(* Every step arms an undo, may fail or be interrupted, and the process    *)
(* may be killed anywhere; a `connect' entry of the journal brackets it.   *)
(*                                                                         *)
(* The directories lie outside every workset root.  Not modelled: members  *)
(* inside the root, repointed or null workset keys, shared vaults and      *)
(* logs, the refusals about nested paths and running members, and the box  *)
(* data of a standalone box, which connect and disconnect leave alone.     *)
(***************************************************************************)
CONSTANTS
  Roots,     \* the workset roots there may be; a workset is named after its root
  Names,     \* names of members
  Dirs,      \* directories that may become members
  Boxed,     \* those that are standalone boxes at first
  None,      \* no directory, no name
  Procs,     \* commands, each one process
  Overlap    \* TRUE when two commands may work on one member, directory or workset

ASSUME NoneAssumption == None \notin Dirs \cup Names \cup Roots
ASSUME BoxedAssumption == Boxed \subseteq Dirs
ASSUME OverlapAssumption == Overlap \in BOOLEAN

VARIABLES
  listed,    \* the worksets of the global registry
  root,      \* what is at each root
  rows,      \* the membership file of each root
  store,     \* the members whose box directory is there
  link,      \* the discoverability link of each member
  marked,    \* the directories that carry the standalone mark
  alone,     \* those with a row among the standalone boxes
  entry,     \* the pending `connect' entries of the journal
  proc,      \* the commands at work
  lapse      \* history: what the claims below except, see there

disk == <<root, rows, store, link, marked>>
registries == <<listed, alone, entry>>
vars == <<disk, registries, proc, lapse>>

Members == Roots \X Names

Connecting == {"checked", "opened", "entered", "stored", "linked", "absorbed",
               "rowed", "dropped", "undoing"}
Leaving == {"asked", "cleaned", "unlinked"}
Removing == {"agreed", "unlisted"}
Creating == {"making", "laid", "named"}
Undos == {"store", "link", "alone", "row", "mark"}

Idle == [pc |-> "idle", at |-> None, name |-> None, dir |-> None, flag |-> FALSE,
         mark |-> FALSE, absorbs |-> FALSE, prior |-> None, made |-> {},
         how |-> "error", failed |-> FALSE, was |-> {}]

\* What a connect found (see `was'): the row, the link, the box directory, the mark
\* and the standalone row.
Fact == [row : Dirs \cup {None}, link : Dirs \cup {None}, store : BOOLEAN,
         mark : BOOLEAN, alone : BOOLEAN]
Command == [pc : {"idle"} \cup Connecting \cup Leaving \cup Removing \cup Creating,
            at : Roots \cup {None}, name : Names \cup {None}, dir : Dirs \cup {None},
            flag : BOOLEAN, mark : BOOLEAN, absorbs : BOOLEAN, prior : Dirs \cup {None},
            made : SUBSET Undos, how : {"error", "refused", "interrupt"},
            failed : BOOLEAN, was : SUBSET Fact]

TypeOK ==
  /\ listed \subseteq Roots
  /\ root \in [Roots -> {"none", "part", "whole"}]
  /\ rows \in [Members -> Dirs \cup {None}]
  /\ store \subseteq Members
  /\ link \in [Members -> Dirs \cup {None}]
  /\ marked \subseteq Dirs /\ alone \subseteq Dirs
  /\ entry \subseteq Members
  /\ proc \in [Procs -> Command]
  /\ \A p \in Procs :
       /\ proc[p].pc # "idle" => proc[p].at \in Roots
       /\ proc[p].pc \in Connecting \cup Leaving =>
            proc[p].name \in Names /\ proc[p].dir \in Dirs
  /\ lapse \subseteq Dirs \cup Roots

Init ==
  /\ listed = {} /\ root = [r \in Roots |-> "none"]
  /\ rows = [m \in Members |-> None] /\ link = [m \in Members |-> None]
  /\ store = {} /\ entry = {}
  /\ marked = Boxed /\ alone = Boxed
  /\ proc = [p \in Procs |-> Idle]
  /\ lapse = {}

-----------------------------------------------------------------------------
At(p, pc) == proc[p].pc = pc
Goto(p, pc) == proc' = [proc EXCEPT ![p].pc = pc]
Ends(p) == proc' = [proc EXCEPT ![p] = Idle]
Member(p) == <<proc[p].at, proc[p].name>>

\* A member of a listed workset holds d.
Holders(d) == {m \in Members : m[1] \in listed /\ rows[m] = d}

\* The discipline of ~Overlap: no two commands work on one member, one directory or
\* one workset.  The code takes no lock across a command and promises nothing then.
Apart(me, r, n, d) == Overlap \/ \A q \in Procs \ me : LET c == proc[q] IN
  c.pc # "idle" =>
    /\ c.at = r => None \notin {n, c.name} /\ c.name # n
    /\ d # None => /\ c.dir # d
                   /\ c.name = None => \A k \in Names : rows[<<c.at, k>>] # d
    /\ n = None /\ r # None /\ c.dir # None => \A k \in Names : rows[<<r, k>>] # c.dir

\* History: what the claims below are not about, see there.
Notes(what) == lapse' = lapse \cup what

\* A command starts; `was' keeps what it found, for AllOrNothing.
Facts(m, d) == [row |-> rows[m], link |-> link[m], store |-> m \in store,
                mark |-> d \in marked, alone |-> d \in alone]
Starts(p, c) ==
  /\ At(p, "idle")
  /\ proc' = [proc EXCEPT ![p] = c]
  /\ Apart({p}, c.at, c.name, c.dir)
  /\ UNCHANGED lapse

-----------------------------------------------------------------------------
(* workset create *)

\* The name is free and nothing is at the root, which is made first.
Create(p, r) ==
  /\ r \notin listed /\ root[r] = "none"
  /\ Starts(p, [Idle EXCEPT !.pc = "making", !.at = r])
  /\ root' = [root EXCEPT ![r] = "part"]
  /\ UNCHANGED <<rows, store, link, marked, registries>>

Lay(p) ==
  /\ At(p, "making")
  /\ root' = [root EXCEPT ![proc[p].at] = "whole"]
  /\ Goto(p, "laid")
  /\ UNCHANGED <<rows, store, link, marked, registries, lapse>>

\* register_name: the registration is the creation.
List(p) ==
  /\ At(p, "laid") /\ proc[p].at \notin listed
  /\ listed' = listed \cup {proc[p].at}
  /\ Goto(p, "named")
  /\ UNCHANGED <<disk, alone, entry, lapse>>

Created(p) ==
  /\ At(p, "named")
  /\ Ends(p)
  /\ UNCHANGED <<disk, registries, lapse>>

\* A failure, a refused registration or an interrupt: the row goes, then the root;
\* each undo may fail, which the command says, or be cut short by an interrupt, which
\* it does not.
Unmake(p) ==
  LET r == proc[p].at IN
  /\ proc[p].pc \in Creating
  /\ \E keepsRow \in BOOLEAN, left \in {"none", "part", root[r]} :
       /\ listed' = IF keepsRow THEN listed ELSE listed \ {r}
       /\ root' = [root EXCEPT ![r] = left]
       /\ IF left = "none"
          THEN /\ rows' = [m \in Members |-> IF m[1] = r THEN None ELSE rows[m]]
               /\ link' = [m \in Members |-> IF m[1] = r THEN None ELSE link[m]]
               /\ store' = {m \in store : m[1] # r}
          ELSE UNCHANGED <<rows, link, store>>
       /\ Notes(IF keepsRow /\ r \in listed THEN {r} ELSE {})
  /\ Ends(p)
  /\ UNCHANGED <<marked, alone, entry>>

-----------------------------------------------------------------------------
(* workset connect, up to the membership write *)

\* run_connect's refusals, in one look: the name is no member's, no listed workset
\* holds the directory, a marked one needs --force (`flag'), and the registered root
\* of a standalone box that lost its mark is refused whatever the flag.
Connect(p, r, n, d, force) ==
  LET m == <<r, n>> IN
  /\ r \in listed /\ root[r] # "none"
  /\ rows[m] = None /\ Holders(d) = {}
  /\ d \in marked => force
  /\ d \in alone => d \in marked
  /\ Starts(p, [Idle EXCEPT !.pc = "checked", !.at = r, !.name = n, !.dir = d,
                            !.flag = force, !.was = {Facts(m, d)}])
  /\ UNCHANGED <<disk, registries>>

\* The write-ahead entry of _journal_connect, keyed by the member's box directory.
Open(p) ==
  /\ At(p, "checked")
  /\ entry' = entry \cup {Member(p)}
  /\ Goto(p, "opened")
  /\ UNCHANGED <<disk, listed, alone, lapse>>

\* add_project looks again, then notes whether it is to absorb a standalone box.
Enter(p) ==
  LET c == proc[p] IN
  /\ At(p, "opened")
  /\ IF Holders(c.dir) = {} /\ (c.dir \in marked => c.flag)
     THEN proc' = [proc EXCEPT ![p].pc = "entered",
                               ![p].mark = c.dir \in marked,
                               ![p].absorbs = c.dir \in marked \cap alone]
     ELSE proc' = [proc EXCEPT ![p].pc = "undoing", ![p].how = "refused"]
  /\ UNCHANGED <<disk, registries, lapse>>

\* The effect of a step comes before its undo is armed: an interrupt may fall between.
Does(p, undo, pc) == \E cut \in BOOLEAN :
  proc' = [proc EXCEPT ![p] = IF cut
    THEN [proc[p] EXCEPT !.pc = "undoing", !.how = "interrupt"]
    ELSE [proc[p] EXCEPT !.pc = pc, !.made = @ \cup undo]]

\* The box directory, made with its parents, is taken over when it is there.
MakeStore(p) ==
  LET c == proc[p] IN
  /\ At(p, "entered")
  /\ store' = store \cup {Member(p)}
  /\ root' = [root EXCEPT ![c.at] = IF @ = "none" THEN "part" ELSE @]
  /\ Does(p, IF Member(p) \in store THEN {} ELSE {"store"}, "stored")
  /\ UNCHANGED <<rows, link, marked, registries, lapse>>

\* ensure_discoverability_link: a leaf that is there is left alone.
Link(p) ==
  /\ At(p, "stored")
  /\ link' = [link EXCEPT ![Member(p)] = IF @ = None THEN proc[p].dir ELSE @]
  /\ Does(p, IF link[Member(p)] = None THEN {"link"} ELSE {}, "linked")
  /\ UNCHANGED <<root, rows, store, marked, registries, lapse>>

\* Mutated form of Absorb: the undo of the dropped registration is not armed.
AbsorbUnarmed(p) ==
  LET c == proc[p] IN
  /\ At(p, "linked")
  /\ alone' = IF c.absorbs THEN alone \ {c.dir} ELSE alone
  /\ Does(p, {}, "absorbed")
  /\ UNCHANGED <<disk, listed, entry, lapse>>

\* The registration moves: the standalone row goes before the membership comes.
Absorb(p) ==
  LET c == proc[p] IN
  /\ At(p, "linked")
  /\ alone' = IF c.absorbs THEN alone \ {c.dir} ELSE alone
  /\ Does(p, IF c.absorbs THEN {"alone"} ELSE {}, "absorbed")
  /\ UNCHANGED <<disk, listed, entry, lapse>>

\* register_workset_box: one workspace, one name, in the registry of one workset.
Registrable(m, d) == \A n \in Names : <<m[1], n>> # m => rows[<<m[1], n>>] # d

\* The row is the membership.  Its undo is armed before the write, with the row that
\* was there; a refusal by the registry counts as one whatever was done before it.
WriteRow(p) ==
  LET c == proc[p] m == Member(p) IN
  /\ At(p, "absorbed")
  /\ IF Registrable(m, c.dir)
     THEN /\ rows' = [rows EXCEPT ![m] = c.dir]
          /\ root' = [root EXCEPT ![c.at] = IF @ = "none" THEN "part" ELSE @]
          /\ proc' = [proc EXCEPT ![p].pc = "rowed", ![p].prior = rows[m],
                                  ![p].made = @ \cup {"row"}]
     ELSE /\ proc' = [proc EXCEPT ![p].pc = "undoing", ![p].how = "refused"]
          /\ UNCHANGED <<rows, root>>
  /\ UNCHANGED <<store, link, marked, registries, lapse>>

\* drop_standalone_marker, last; a mark that cannot be removed is kept, with a warning.
DropMark(p) ==
  LET d == proc[p].dir IN
  /\ At(p, "rowed")
  /\ \/ /\ proc[p].mark /\ d \in marked
        /\ marked' = marked \ {d}
        /\ proc' = [proc EXCEPT ![p].pc = "dropped", ![p].made = @ \cup {"mark"}]
        /\ UNCHANGED lapse
     \/ /\ proc[p].mark /\ d \in marked
        /\ Goto(p, "dropped") /\ Notes({d})
        /\ UNCHANGED marked
     \/ /\ ~proc[p].mark \/ d \notin marked
        /\ Goto(p, "dropped")
        /\ UNCHANGED <<marked, lapse>>
  /\ UNCHANGED <<root, rows, store, link, registries>>

Close(p) ==
  /\ At(p, "dropped")
  /\ entry' = entry \ {Member(p)}
  /\ Ends(p)
  /\ UNCHANGED <<disk, listed, alone, lapse>>

-----------------------------------------------------------------------------
(* A connect that fails, and one that is killed *)

\* An OSError of the next step.
Fail(p) ==
  /\ proc[p].pc \in {"entered", "stored", "linked", "absorbed"}
  /\ Goto(p, "undoing")
  /\ UNCHANGED <<disk, registries, lapse>>

\* Ctrl-C; one in the undo is held until the undo is over, and then leaves the entry.
Interrupt(p) ==
  /\ proc[p].pc \in Connecting \ {"checked"}
  /\ proc' = [proc EXCEPT ![p].pc = "undoing", ![p].how = "interrupt"]
  /\ UNCHANGED <<disk, registries, lapse>>

\* Last made, first undone.
Newer(a, b) == <<a, b>> \in {<<"mark", x>> : x \in Undos \ {"mark"}}
                       \cup {<<"row", x>> : x \in {"alone", "link", "store"}}
                       \cup {<<"alone", x>> : x \in {"link", "store"}}
                       \cup {<<"link", "store">>}
Undoes(p, undo) ==
  /\ At(p, "undoing") /\ undo \in proc[p].made
  /\ \A x \in proc[p].made \ {undo} : Newer(undo, x)
Undid(p, undo) ==
  /\ proc' = [proc EXCEPT ![p].made = @ \ {undo}]
  /\ UNCHANGED lapse

\* Mutated form of UndoMark: the undo that drop_standalone_marker hands over does nothing.
UndoMarkIdly(p) ==
  /\ Undoes(p, "mark")
  /\ Undid(p, "mark")
  /\ UNCHANGED <<disk, registries>>

\* The mark is written back unless there is a file.
UndoMark(p) ==
  /\ Undoes(p, "mark")
  /\ marked' = marked \cup {proc[p].dir}
  /\ Undid(p, "mark")
  /\ UNCHANGED <<root, rows, store, link, registries>>

\* _workset_box_membership_undo: the prior row comes back; a row of this connect goes.
UndoRow(p) ==
  LET c == proc[p] m == Member(p) IN
  /\ Undoes(p, "row")
  /\ c.prior # None /\ c.prior # rows[m] => Registrable(m, c.prior)
  /\ rows' = IF c.prior # None \/ rows[m] = c.dir
             THEN [rows EXCEPT ![m] = c.prior] ELSE rows
  /\ Undid(p, "row")
  /\ UNCHANGED <<root, store, link, marked, registries>>

UndoAbsorb(p) ==
  /\ Undoes(p, "alone")
  /\ alone' = alone \cup {proc[p].dir}
  /\ Undid(p, "alone")
  /\ UNCHANGED <<disk, listed, entry>>

UndoLink(p) ==
  /\ Undoes(p, "link")
  /\ link' = [link EXCEPT ![Member(p)] = None]
  /\ Undid(p, "link")
  /\ UNCHANGED <<root, rows, store, marked, registries>>

UndoStore(p) ==
  /\ Undoes(p, "store")
  /\ store' = store \ {Member(p)}
  /\ Undid(p, "store")
  /\ UNCHANGED <<root, rows, link, marked, registries>>

\* A step of the undo fails, which the command says in the end, or is interrupted, which
\* it does not say (_Unwind.run holds the interrupt and counts no failure); the next one
\* follows.
UndoFails(p) == \E undo \in Undos :
  /\ Undoes(p, undo)
  /\ proc' = [proc EXCEPT ![p].made = @ \ {undo}, ![p].failed = TRUE]
  /\ Notes(IF undo \in {"mark", "row"} THEN {proc[p].dir} ELSE {})
  /\ UNCHANGED <<disk, registries>>

\* _journal_connect: a refusal clears the entry, so does a failure undone in full.
Undone(p) ==
  LET c == proc[p] IN
  /\ At(p, "undoing") /\ c.made = {}
  /\ entry' = IF c.how = "refused" \/ (c.how = "error" /\ ~c.failed)
              THEN entry \ {Member(p)} ELSE entry
  /\ Ends(p)
  /\ UNCHANGED <<disk, listed, alone, lapse>>

\* Any command, anywhere.
Kill(p) ==
  /\ ~At(p, "idle")
  /\ Ends(p)
  /\ UNCHANGED <<disk, registries, lapse>>

-----------------------------------------------------------------------------
(* The repair of an interrupted connect, by the next command on the member *)

\* Mutated form of Repairs: the entry goes and the mark stays.
RepairsEntryOnly(S) ==
  /\ entry' = entry \ S
  /\ UNCHANGED <<marked, lapse>>

\* resolve_workset_project: the mark of a member with a pending connect goes, then the
\* entry.  A mark that cannot be removed stays, with a warning, and the entry goes.
Repairs(S) ==
  LET pending == S \cap entry IN
  \E kept \in SUBSET ({rows[m] : m \in pending} \cap marked) :
    /\ marked' = marked \ ({rows[m] : m \in pending} \ kept)
    /\ entry' = entry \ pending
    /\ Notes(kept)

\* Any command that resolves the member, a launch say.
Resolve(r, n) ==
  LET m == <<r, n>> IN
  /\ r \in listed /\ rows[m] # None /\ m \in entry
  /\ Apart({}, r, n, rows[m]) /\ Repairs({m})
  /\ UNCHANGED <<root, rows, store, link, listed, alone, proc>>

\* It is killed between the two.
ResolveKilled(r, n) ==
  LET m == <<r, n>> IN
  /\ r \in listed /\ rows[m] \in marked /\ m \in entry
  /\ marked' = marked \ {rows[m]}
  /\ Apart({}, r, n, rows[m])
  /\ UNCHANGED <<root, rows, store, link, registries, proc, lapse>>

-----------------------------------------------------------------------------
(* workset disconnect *)

\* The running-member check resolves the member; then comes the question.
Disconnect(p, r, n, files) ==
  LET m == <<r, n>> IN
  /\ At(p, "idle") /\ r \in listed /\ rows[m] # None
  /\ proc' = [proc EXCEPT ![p] = [Idle EXCEPT
       !.pc = "asked", !.at = r, !.name = n, !.dir = rows[m], !.flag = files]]
  /\ Apart({p}, r, n, rows[m]) /\ Repairs({m})
  /\ UNCHANGED <<root, rows, store, link, listed, alone>>

\* --remove-files: what fails to go ends the command, with the record intact.
RemoveStore(p) ==
  /\ At(p, "asked") /\ proc[p].flag
  /\ store' = store \ {Member(p)}
  /\ Goto(p, "cleaned")
  /\ UNCHANGED <<root, rows, link, marked, registries, lapse>>

\* release_project: the link, which --remove-files has removed already as the
\* member's workspace leaf.
Unlink(p) ==
  /\ At(p, IF proc[p].flag THEN "cleaned" ELSE "asked")
  /\ link' = [link EXCEPT ![Member(p)] = None]
  /\ Goto(p, "unlinked")
  /\ UNCHANGED <<root, rows, store, marked, registries, lapse>>

\* The row is the last to go: whatever row the name has by now.
DropRow(p) ==
  /\ At(p, "unlinked")
  /\ rows' = [rows EXCEPT ![Member(p)] = None]
  /\ Notes({rows[Member(p)]} \ ({None} \cup marked))
  /\ Ends(p)
  /\ UNCHANGED <<root, store, link, marked, registries>>

-----------------------------------------------------------------------------
(* workset rm *)

\* Every member is asked whether it runs, which resolves it; `flag' is --purge.
Remove(p, r, purge) ==
  /\ At(p, "idle") /\ r \in listed
  /\ proc' = [proc EXCEPT ![p] = [Idle EXCEPT !.pc = "agreed", !.at = r, !.flag = purge]]
  /\ Apart({p}, r, None, None)
  /\ Repairs({m \in Members : m[1] = r /\ rows[m] # None})
  /\ UNCHANGED <<root, rows, store, link, listed, alone>>

\* delete_workset: box trees first; what fails to go ends the command.
RemoveTree(p) ==
  /\ At(p, "agreed") /\ proc[p].flag
  /\ \E m \in store : m[1] = proc[p].at /\ store' = store \ {m}
  /\ UNCHANGED <<root, rows, link, marked, registries, proc, lapse>>

\* Mutated form of Unlist: the root goes first, as it may fail, and the list last.
UnlistLast(p) ==
  LET c == proc[p] IN
  /\ At(p, "agreed")
  /\ IF c.flag
     THEN root' = [root EXCEPT ![c.at] = "part"] /\ Goto(p, "unlisted") /\ UNCHANGED listed
     ELSE listed' = listed \ {c.at} /\ Ends(p) /\ UNCHANGED root
  /\ UNCHANGED <<rows, store, link, marked, alone, entry, lapse>>

Unlist(p) ==
  LET c == proc[p] IN
  /\ At(p, "agreed")
  /\ c.flag => \A m \in store : m[1] # c.at
  /\ listed' = listed \ {c.at}
  /\ IF c.flag THEN Goto(p, "unlisted") ELSE Ends(p)
  /\ UNCHANGED <<disk, alone, entry, lapse>>

\* The root goes last.  A deletion that fails leaves any part of it.
RemoveRoot(p) ==
  LET r == proc[p].at
      mine == {m \in Members : m[1] = r} IN
  /\ At(p, "unlisted")
  /\ \E left \in {"none", "part", root[r]}, lost \in SUBSET mine, unlinked \in SUBSET mine :
       /\ lost \in {{}, mine}
       /\ left = "none" => lost = mine /\ unlinked = mine
       /\ root' = [root EXCEPT ![r] = left]
       /\ rows' = [m \in Members |-> IF m \in lost THEN None ELSE rows[m]]
       /\ link' = [m \in Members |-> IF m \in unlinked THEN None ELSE link[m]]
       /\ store' = IF left = "none" THEN store \ mine ELSE store
       /\ Notes({rows[m] : m \in lost} \ ({None} \cup marked))
  /\ Ends(p)
  /\ UNCHANGED <<marked, registries>>

-----------------------------------------------------------------------------
(* What is on disk is listed again *)

\* import_named_workset: any command in a root with the whole skeleton lists it.
Import(r) ==
  /\ r \notin listed /\ root[r] = "whole"
  /\ listed' = listed \cup {r}
  /\ Apart({}, r, None, None)
  /\ UNCHANGED <<disk, alone, entry, proc, lapse>>

\* Mutated form of Register: a member is registered as a standalone box as well.
RegisterMember(d) ==
  /\ d \in marked \ alone
  /\ alone' = alone \cup {d}
  /\ Apart({}, None, None, d)
  /\ UNCHANGED <<disk, listed, entry, proc, lapse>>

\* `box register' of a directory with the mark: a member is not registered again.
Register(d) ==
  /\ d \in marked \ alone /\ Holders(d) = {}
  /\ alone' = alone \cup {d}
  /\ Apart({}, None, None, d)
  /\ UNCHANGED <<disk, listed, entry, proc, lapse>>

-----------------------------------------------------------------------------
Next ==
  \/ \E p \in Procs :
       \/ \E r \in Roots :
            \/ Create(p, r)
            \/ \E purge \in BOOLEAN : Remove(p, r, purge)
            \/ \E n \in Names :
                 \/ \E d \in Dirs, force \in BOOLEAN : Connect(p, r, n, d, force)
                 \/ \E files \in BOOLEAN : Disconnect(p, r, n, files)
       \/ Lay(p) \/ List(p) \/ Created(p) \/ Unmake(p)
       \/ Open(p) \/ Enter(p) \/ MakeStore(p) \/ Link(p) \/ Absorb(p) \/ WriteRow(p)
       \/ DropMark(p) \/ Close(p) \/ Fail(p) \/ Interrupt(p) \/ Kill(p)
       \/ UndoMark(p) \/ UndoRow(p) \/ UndoAbsorb(p) \/ UndoLink(p) \/ UndoStore(p)
       \/ UndoFails(p) \/ Undone(p)
       \/ RemoveStore(p) \/ Unlink(p) \/ DropRow(p)
       \/ RemoveTree(p) \/ Unlist(p) \/ RemoveRoot(p)
  \/ \E r \in Roots : Import(r) \/ \E n \in Names : Resolve(r, n) \/ ResolveKilled(r, n)
  \/ \E d \in Dirs : Register(d)

Spec == Init /\ [][Next]_vars

-----------------------------------------------------------------------------
(* Properties.  `lapse' names the directories and worksets they do not speak  *)
(* of: a directory whose mark could not be removed, or whose mark or row could *)
(* not be put back, each of which the command says unless a second Ctrl-C cut  *)
(* the undo short; a plain directory that was disconnected; a workset whose    *)
(* registration could not be taken back.                                       *)

\* No two members of a workset hold one directory, whatever runs at once and
\* whatever an undo puts back (register_workset_box: one box per workspace path).
OneNamePerDir ==
  \A m, k \in Members : m[1] = k[1] /\ rows[m] = rows[k] /\ rows[m] # None => m = k

\* add_project: a connect that is interrupted, fails or is killed leaves the mark
\* or the membership, never neither: what was a box stays one.
MarkOrMember ==
  \A d \in Boxed \ lapse : d \in marked \/ \E m \in Members : rows[m] = d

\* A member that still has its mark is one whose pending entry will make the next
\* command drop it.
MarkIsPending ==
  \A m \in Members : rows[m] \in marked \ lapse => m \in entry

\* So the mark and the records tell together what a directory is.
MarksAccounted == MarkOrMember /\ MarkIsPending

\* A connect that failed and undid every step left the records, the link and the
\* box directory as it found them.
AllOrNothing ==
  \A p \in Procs : LET c == proc[p] IN
    c.pc = "undoing" /\ c.made = {} /\ c.how # "interrupt" /\ ~c.failed /\ c.dir \notin lapse
      => c.was = {Facts(Member(p), c.dir)}

\* A directory is in one registry at most: the standalone boxes' or one workset's.
\* Only a workset that was taken off the list and is imported again, with the rows it
\* had, can bring a second record.
OneRecord(d) ==
  /\ \A m, k \in Holders(d) : m = k
  /\ d \in alone => Holders(d) = {}
OneRecordKept ==
  [][\A d \in Dirs \ lapse' : OneRecord(d) /\ listed' \subseteq listed => OneRecord(d)']_vars

\* What is listed has its whole skeleton: a workset is registered when it is made and
\* removed when it is off the list, whatever fails or is killed on the way.
ListedIsWhole == \A r \in listed \ lapse : root[r] = "whole"
==============================================================================
