------------------------------ MODULE Relocation ------------------------------
(***************************************************************************)
(* `box move', `box move --name', `box convert --default --name' (a rename *)
(* in place) and `box remap' of PRIMARY boxes: the steps of                *)
(* execute_lifecycle in commands/box/_lifecycle.py, the undo stack behind  *)
(* them (_Unwind in project/workset.py) and the tail that runs when the    *)
(* point of no return is passed.                                           *)
(*                                                                         *)
(* A relocation writes no journal.  It arms an undo before each step, may  *)
(* fail or be interrupted at every step, each undo of it may fail or be    *)
(* interrupted and the others still run, and it may be killed anywhere (an *)
(* interrupt between two undos is a kill here).  A tree is whole, part     *)
(* (half copied, half removed) or absent; `home' stands for all a box      *)
(* keeps under its name (store, home, vault, logs).                        *)
(*                                                                         *)
(* Creates, rms and registers of other boxes are one step each; BoxCreate  *)
(* and BoxRetire have theirs.  Not modelled: the conversions between       *)
(* owners, snapshots, channels, links, --force, the running-box refusal.   *)
(***************************************************************************)
EXTENDS Naturals, Sequences

CONSTANTS
  Boxes,     \* the boxes there may be
  Names,     \* what boxes are registered under
  Places,    \* directories that may be workspaces
  None,      \* no place, no box
  Movers,    \* relocations, each one command
  Merges,    \* TRUE when a new name may have a directory already
  RowsRace,  \* TRUE when rows of other boxes may change during a relocation that fails
  Overlap    \* TRUE when two commands may work on one name or place at once

ASSUME NoneAssumption == None \notin Boxes \cup Places
ASSUME DisciplineAssumption == {Merges, RowsRace, Overlap} \subseteq BOOLEAN

VARIABLES
  registry,  \* the PRIMARY membership: name -> workspace
  home,      \* the box data under each name
  work,      \* what is at each place
  mv         \* the relocations

store == <<registry, home, work>>
vars == <<registry, home, work, mv>>

Absent == [of |-> None, whole |-> FALSE]
Tree == {Absent} \cup [of : Boxes, whole : BOOLEAN]
Whole(b) == [of |-> b, whole |-> TRUE]
Part(t) == [t EXCEPT !.whole = FALSE]
Injections(S, T) == {f \in [S -> T] : \A x, y \in S : f[x] = f[y] => x = y}

\* Before the point of no return, while a failure is undone, and after it.
Trying == {"arm", "copy", "copying", "rows", "free", "claim",
           "home", "homecopy", "homecopying", "drop", "seal"}
Sealed == {"tail", "retire"}
Working == Trying \cup Sealed \cup {"undo"}
Ended == {"idle", "done", "undone", "killed"}
Undos == {"dest", "rows", "home", "source"}

Idle == [pc |-> "idle", box |-> None, name |-> None, to |-> None, from |-> None,
         dest |-> None, copies |-> FALSE, sound |-> FALSE,
         rows |-> [n \in Names |-> None], stack |-> <<>>,
         amiss |-> FALSE]

\* amiss (history): an undo failed or was interrupted before it was done, or its own row
\* could not be dropped.
Command ==
  [pc : Working \cup Ended, box : Boxes \cup {None},
   name : Names \cup {None}, to : Names \cup {None},
   from : Places \cup {None}, dest : Places \cup {None},
   copies : BOOLEAN, sound : BOOLEAN, rows : [Names -> Places \cup {None}],
   stack : Seq(Undos), amiss : BOOLEAN]

TypeOK ==
  /\ registry \in [Names -> Places \cup {None}]
  /\ home \in [Names -> Tree]
  /\ work \in [Places -> Tree]
  /\ mv \in [Movers -> Command]

\* Boxes with a name and a workspace each: registered, or parked by an rm.
Init ==
  /\ \E there \in SUBSET Boxes, listed \in SUBSET Boxes :
     \E name \in Injections(there, Names), place \in Injections(there, Places) :
       /\ registry = [n \in Names |->
            IF \E b \in there \cap listed : name[b] = n
            THEN place[CHOOSE b \in there : name[b] = n] ELSE None]
       /\ home = [n \in Names |-> IF \E b \in there : name[b] = n
            THEN Whole(CHOOSE b \in there : name[b] = n) ELSE Absent]
       /\ work = [w \in Places |-> IF \E b \in there : place[b] = w
            THEN Whole(CHOOSE b \in there : place[b] = w) ELSE Absent]
  /\ mv = [m \in Movers |-> Idle]

-----------------------------------------------------------------------------
At(m, pc) == mv[m].pc = pc
Goto(m, pc) == mv' = [mv EXCEPT ![m].pc = pc]
Push(m, undo, pc) == mv' = [mv EXCEPT ![m].stack = Append(@, undo), ![m].pc = pc]

Renames(m) == mv[m].to # mv[m].name
Remaps(m) == ~mv[m].copies /\ mv[m].dest # mv[m].from
\* The source's own row goes before the new one comes, or the name or the place
\* would collide with itself; a move under a new name keeps it until the end.
Frees(m) == ~Renames(m) \/ mv[m].dest = mv[m].from

\* A command is over.  What is kept of it is history: the names that it may have
\* left in disorder, because it was killed or an undo of it was not done.
Ends(m, pc) ==
  LET hurt == \/ mv[m].amiss \/ ~mv[m].sound
              \/ pc # "done" /\ Remaps(m)
              \/ pc = "killed" /\ Renames(m) IN
  mv' = [mv EXCEPT ![m] = IF hurt
    THEN [Idle EXCEPT !.pc = pc, !.name = mv[m].name, !.to = mv[m].to,
                      !.amiss = @ \/ mv[m].amiss \/ ~mv[m].sound \/ Remaps(m)]
    ELSE [Idle EXCEPT !.pc = pc]]

HeldByOther(n, w) == \E k \in Names \ {n} : registry[k] = w

\* What a relocation works on: from the command on its box's name and place, and
\* the place its user took the files to before; from the prompt's yes on the name
\* and place they are to have, too.
NamesOf(c) == IF c.pc \notin Working THEN {}
              ELSE IF c.pc = "arm" THEN {c.name} ELSE {c.name, c.to}
PlacesOf(c) == IF c.pc \notin Working THEN {}
               ELSE IF c.pc = "arm" /\ c.copies THEN {c.from} ELSE {c.from, c.dest}

\* The discipline of ~Overlap: no other relocation works on them.
Unbusy(names, places, movers) == Overlap \/ \A m \in movers :
  names \cap NamesOf(mv[m]) = {} /\ places \cap PlacesOf(mv[m]) = {}

-----------------------------------------------------------------------------
(* The command, from its refusals (_validate) to the point of no return *)

\* `sound' is a history variable: the box was whole when the command began.
Begins(m, n, to, files, dest, copies) ==
  mv' = [mv EXCEPT ![m] = [Idle EXCEPT
    !.pc = "arm", !.box = home[n].of, !.name = n, !.to = to,
    !.from = registry[n], !.dest = dest, !.copies = copies,
    !.sound = home[n].whole /\ work[files] = home[n]]]

\* A name no box is registered under; under ~Merges nothing is parked, orphaned
\* or left behind under it either.
NameFree(n, to) == to # n => registry[to] = None /\ (Merges \/ home[to] = Absent)

\* `box move n dest [--name to]': the destination must not exist, no other box
\* may be registered there, and a new name must be no box's.
Move(m, n, to, dest) ==
  /\ At(m, "idle")
  /\ registry[n] # None /\ home[n] # Absent
  /\ NameFree(n, to) /\ ~HeldByOther(n, dest)
  /\ dest # registry[n] /\ work[dest] = Absent
  /\ Unbusy({n}, {registry[n]}, Movers)
  /\ Begins(m, n, to, registry[n], dest, TRUE)
  /\ UNCHANGED store

\* `box convert n --default --name to': the box stays where it is.
Rename(m, n, to) ==
  /\ At(m, "idle")
  /\ registry[n] # None /\ home[n] # Absent
  /\ to # n /\ NameFree(n, to)
  /\ Unbusy({n}, {registry[n]}, Movers)
  /\ Begins(m, n, to, registry[n], registry[n], FALSE)
  /\ UNCHANGED store

\* The user has moved the workspace by hand (that is this step too, unless it was
\* done for an earlier remap) and says so with `box remap n dest'.
Remap(m, n, dest) ==
  /\ At(m, "idle")
  /\ registry[n] # None /\ home[n] # Absent
  /\ dest # registry[n] /\ ~HeldByOther(n, dest)
  /\ Unbusy({n}, {registry[n], dest}, Movers)
  /\ \/ /\ work[dest] = Absent
        /\ work' = [work EXCEPT ![dest] = work[registry[n]], ![registry[n]] = Absent]
        /\ Begins(m, n, n, registry[n], dest, FALSE)
     \/ /\ work[registry[n]] = Absent /\ work[dest].of = home[n].of
        /\ Begins(m, n, n, dest, dest, FALSE) /\ UNCHANGED work
  /\ UNCHANGED <<registry, home>>

\* ~Merges holds until the user says yes.
Fresh(m) == Merges \/ ~Renames(m) \/ home[mv[m].to] = Absent \/ registry[mv[m].to] # None

Yes(m) ==
  /\ At(m, "arm") /\ Fresh(m)
  /\ Unbusy({mv[m].name, mv[m].to}, {mv[m].from, mv[m].dest}, Movers \ {m})

\* Mutated form of Arm: the undo is armed for a place that is there.
ArmBlindly(m) ==
  /\ Yes(m)
  /\ IF mv[m].copies THEN Push(m, "dest", "copy") ELSE Goto(m, "rows")
  /\ UNCHANGED store

\* The user said yes.  The undo of the copy is armed before it, and only for a
\* place that is not there now.
Arm(m) ==
  /\ Yes(m)
  /\ IF ~mv[m].copies THEN Goto(m, "rows")
     ELSE IF work[mv[m].dest] = Absent THEN Push(m, "dest", "copy") ELSE Goto(m, "copy")
  /\ UNCHANGED store

\* The copy of the workspace begins; it fails on a destination that came up.
Copy(m) ==
  /\ At(m, "copy")
  /\ work[mv[m].from] # Absent /\ work[mv[m].dest] = Absent
  /\ work' = [work EXCEPT ![mv[m].dest] = Part(work[mv[m].from])]
  /\ Goto(m, "copying")
  /\ UNCHANGED <<registry, home>>

Copied(m) ==
  /\ At(m, "copying")
  /\ work' = [work EXCEPT ![mv[m].dest] = work[mv[m].from]]
  /\ Goto(m, "rows")
  /\ UNCHANGED <<registry, home>>

\* Mutated form of ArmRows: the undo is armed after the first write.
ArmRowsLate(m) ==
  /\ At(m, "rows")
  /\ mv' = [mv EXCEPT ![m].rows = [registry EXCEPT ![mv[m].name] = None],
                      ![m].stack = Append(@, "rows"), ![m].pc = "free"]
  /\ UNCHANGED store

\* The undo of both row writes: the whole membership as it is now.
ArmRows(m) ==
  /\ At(m, "rows")
  /\ mv' = [mv EXCEPT ![m].rows = registry, ![m].stack = Append(@, "rows"),
                      ![m].pc = "free"]
  /\ UNCHANGED store

\* Mutated form of Free: a move under a new name gives its old row up too.
FreeAlways(m) ==
  /\ At(m, "free")
  /\ registry' = [registry EXCEPT ![mv[m].name] = None]
  /\ Goto(m, "claim")
  /\ UNCHANGED <<home, work>>

Free(m) ==
  /\ At(m, "free")
  /\ registry' = IF Frees(m) THEN [registry EXCEPT ![mv[m].name] = None] ELSE registry
  /\ Goto(m, "claim")
  /\ UNCHANGED <<home, work>>

\* register_primary_box_name: refused (Fail) for a name or a place that is held.  The
\* name is looked up before the write's lock, which matters under Overlap only.  The
\* data is where it belongs already when the name stays.
Claim(m) ==
  /\ At(m, "claim")
  /\ registry[mv[m].to] = None /\ ~HeldByOther(mv[m].to, mv[m].dest)
  /\ registry' = [registry EXCEPT ![mv[m].to] = mv[m].dest]
  /\ Goto(m, IF Renames(m) THEN "home" ELSE "drop")
  /\ UNCHANGED <<home, work>>

\* _copy_metadata arms the removal of a directory it is to create, no other.
ArmHome(m) ==
  /\ At(m, "home")
  /\ IF home[mv[m].to] = Absent THEN Push(m, "home", "homecopy") ELSE Goto(m, "homecopy")
  /\ UNCHANGED store

\* What has the new name already is merged into and overwritten.
CopyHome(m) ==
  /\ At(m, "homecopy")
  /\ home[mv[m].name] # Absent
  /\ home' = [home EXCEPT ![mv[m].to] = Part(home[mv[m].name])]
  /\ Goto(m, "homecopying")
  /\ UNCHANGED <<registry, work>>

HomeCopied(m) ==
  /\ At(m, "homecopying")
  /\ home' = [home EXCEPT ![mv[m].to] = home[mv[m].name]]
  /\ Goto(m, "drop")
  /\ UNCHANGED <<registry, work>>

\* _drop_source_row: the restore goes under every other undo.  A row that cannot
\* be dropped is only named.
Drop(m) ==
  /\ At(m, "drop")
  /\ \E dropped \in BOOLEAN :
       LET left == Renames(m) /\ ~dropped /\ registry[mv[m].name] # None
           c == [mv[m] EXCEPT !.pc = "seal", !.amiss = left] IN
       /\ registry' = IF Renames(m) /\ dropped
                      THEN [registry EXCEPT ![mv[m].name] = None] ELSE registry
       /\ mv' = [mv EXCEPT ![m] =
                   IF Renames(m) THEN [c EXCEPT !.stack = <<"source">> \o @] ELSE c]
  /\ UNCHANGED <<home, work>>

\* The point of no return: nothing is undone any more.
Seal(m) ==
  /\ At(m, "seal")
  /\ mv' = [mv EXCEPT ![m].pc = "tail", ![m].stack = <<>>]
  /\ UNCHANGED store

-----------------------------------------------------------------------------
(* The tail: what a removal cannot remove is named, an interrupt stops it   *)

Removals(t) == {t, Part(t), Absent}

\* Mutated form of DropHome: the data of a box that kept its name goes too.
DropHomeAlways(m) ==
  /\ At(m, "tail")
  /\ \E left \in Removals(home[mv[m].name]) : home' = [home EXCEPT ![mv[m].name] = left]
  /\ Goto(m, "retire")
  /\ UNCHANGED <<registry, work>>

DropHome(m) ==
  /\ At(m, "tail")
  /\ \E left \in IF Renames(m) THEN Removals(home[mv[m].name]) ELSE {home[mv[m].name]} :
       home' = [home EXCEPT ![mv[m].name] = left]
  /\ Goto(m, "retire")
  /\ UNCHANGED <<registry, work>>

Retire(m) ==
  /\ At(m, "retire")
  /\ \E left \in IF mv[m].copies THEN Removals(work[mv[m].from]) ELSE {work[mv[m].from]} :
       work' = [work EXCEPT ![mv[m].from] = left]
  /\ Ends(m, "done")
  /\ UNCHANGED <<registry, home>>

Stop(m) ==
  /\ mv[m].pc \in Sealed
  /\ Ends(m, "done")
  /\ UNCHANGED store

-----------------------------------------------------------------------------
(* Failures: any step raises or is interrupted; the undos run, last first   *)

Fail(m) ==
  /\ mv[m].pc \in Trying
  /\ Goto(m, "undo")
  /\ UNCHANGED store

Top(m) == mv[m].stack[Len(mv[m].stack)]
Undoes(m, undo) == At(m, "undo") /\ mv[m].stack # <<>> /\ Top(m) = undo

\* The next undo, after one that was done or went amiss: it failed, or an interrupt of
\* it is held until all the others have run.
Popped(m, amiss) ==
  mv' = [mv EXCEPT ![m].stack = SubSeq(@, 1, Len(@) - 1), ![m].amiss = @ \/ amiss]

UndoCopy(m) ==
  /\ Undoes(m, "dest")
  /\ \E left \in Removals(work[mv[m].dest]) :
       /\ work' = [work EXCEPT ![mv[m].dest] = left]
       /\ Popped(m, left # Absent)
  /\ UNCHANGED <<registry, home>>

\* _restore_primary_rows: every row that is not as it was, row by row; a row whose
\* place another row still has is refused.  (An interrupted row is named by itself.)
UndoRows(m) ==
  /\ Undoes(m, "rows")
  /\ LET differ == {n \in Names : registry[n] # mv[m].rows[n]}
         After(back) == [n \in Names |-> IF n \in back THEN mv[m].rows[n] ELSE registry[n]] IN
       \E back \in SUBSET differ :
         /\ \A n \in back, k \in Names :
              k # n /\ After(back)[k] = After(back)[n] => After(back)[n] = None
         /\ registry' = After(back)
         /\ Popped(m, back # differ)
  /\ UNCHANGED <<home, work>>

UndoHome(m) ==
  /\ Undoes(m, "home")
  /\ \E left \in Removals(home[mv[m].to]) :
       /\ home' = [home EXCEPT ![mv[m].to] = left]
       /\ Popped(m, left # Absent)
  /\ UNCHANGED <<registry, work>>

UndoDrop(m) ==
  /\ Undoes(m, "source")
  /\ \/ /\ ~HeldByOther(mv[m].name, mv[m].from)
        /\ registry' = [registry EXCEPT ![mv[m].name] = mv[m].from]
        /\ Popped(m, FALSE)
     \/ Popped(m, TRUE) /\ UNCHANGED registry
  /\ UNCHANGED <<home, work>>

\* The undos that failed are named in a note.  One that was interrupted is not: the held
\* interrupt is raised past the note, and nothing says what it left.
Undone(m) ==
  /\ At(m, "undo") /\ mv[m].stack = <<>>
  /\ Ends(m, "undone")
  /\ UNCHANGED store

Kill(m) ==
  /\ mv[m].pc \in Working
  /\ Ends(m, "killed")
  /\ UNCHANGED store

-----------------------------------------------------------------------------
(* Other commands, on boxes that no relocation works on *)

Create(b, n, w) ==
  /\ \A k \in Names : home[k].of # b
  /\ \A k \in Places : work[k].of # b
  /\ registry[n] = None /\ home[n] = Absent /\ work[w] = Absent /\ ~HeldByOther(n, w)
  /\ Unbusy({n}, {w}, Movers)
  /\ registry' = [registry EXCEPT ![n] = w]
  /\ home' = [home EXCEPT ![n] = Whole(b)]
  /\ work' = [work EXCEPT ![w] = Whole(b)]
  /\ UNCHANGED mv

Rm(n) ==
  /\ registry[n] # None /\ Unbusy({n}, {registry[n]}, Movers)
  /\ registry' = [registry EXCEPT ![n] = None]
  /\ UNCHANGED <<home, work, mv>>

Register(n, w) ==
  /\ registry[n] = None /\ ~HeldByOther(n, w) /\ Unbusy({n}, {w}, Movers)
  /\ home[n] # Absent /\ home[n].whole /\ work[w] = home[n]
  /\ registry' = [registry EXCEPT ![n] = w]
  /\ UNCHANGED <<home, work, mv>>

Step(m) ==
  \/ Arm(m) \/ Copy(m) \/ Copied(m) \/ ArmRows(m) \/ Free(m) \/ Claim(m)
  \/ ArmHome(m) \/ CopyHome(m) \/ HomeCopied(m) \/ Drop(m) \/ Seal(m)
  \/ DropHome(m) \/ Retire(m) \/ Stop(m) \/ Fail(m)
  \/ UndoCopy(m) \/ UndoRows(m) \/ UndoHome(m) \/ UndoDrop(m) \/ Undone(m) \/ Kill(m)

\* The discipline of ~RowsRace: when a relocation restores the membership, the
\* rows of other boxes are still the ones it saw.
Calm == \A m \in Movers :
  At(m, "undo") /\ (\E i \in 1..Len(mv[m].stack) : mv[m].stack[i] = "rows") =>
    \A n \in Names \ {mv[m].name, mv[m].to} : registry[n] = mv[m].rows[n]

Next ==
  /\ \/ \E m \in Movers :
          \/ \E n, to \in Names, dest \in Places : Move(m, n, to, dest)
          \/ \E n, to \in Names : Rename(m, n, to)
          \/ \E n \in Names, dest \in Places : Remap(m, n, dest)
          \/ Step(m)
     \/ \E n \in Names :
          \/ \E b \in Boxes, w \in Places : Create(b, n, w)
          \/ Rm(n)
          \/ \E w \in Places : Register(n, w)
  /\ RowsRace \/ Calm'

Spec == Init /\ [][Next]_vars

-----------------------------------------------------------------------------
(* Properties *)

HasHome(b) == \E n \in Names : home[n] = Whole(b)
HasWork(b) == \E w \in Places : work[w] = Whole(b)

\* No step of a relocation, its undo or its tail removes or overwrites the last
\* whole copy of any box's data or workspace, and no kill leaves none.
NothingLost == [][\A b \in Boxes :
  (HasHome(b) => HasHome(b)') /\ (HasWork(b) => HasWork(b)')]_vars

Usable(b) == \E n \in Names :
  registry[n] # None /\ home[n] = Whole(b) /\ work[registry[n]] = Whole(b)

\* Between giving its row up and having all its data under the new one.
Between(m) == Frees(m) /\
  (At(m, "claim") \/ (Renames(m) /\ mv[m].pc \in {"home", "homecopy", "homecopying"}))

\* On the way back: its own row is gone until the undo of the rows has run, or is not
\* what it was since an undo went amiss.
Back(m) == At(m, "undo") /\ LET c == mv[m] IN
  \/ registry[c.name] = None /\ \E i \in 1..Len(c.stack) : c.stack[i] = "rows"
  \/ registry[c.name] # c.from /\ c.amiss

\* At every moment of a relocation, its undo included, some row leads to the whole
\* box, so that a kill takes no box from its user: except where the row that is
\* replaced is gone first, where an undo has still to put it back or could not, and
\* where the user moved the files away before.
UsableThroughout == \A m \in Movers :
  mv[m].sound /\ mv[m].pc \in Working =>
    Usable(mv[m].box) \/ Remaps(m) \/ Between(m) \/ Back(m)

\* A name whose row may lead to half a box: the new name of a relocation that is
\* under way or was killed, and what an undo that failed or was interrupted, an
\* unfinished remap or an earlier broken command left.
Excused(n) == \E m \in Movers : LET c == mv[m] IN
  \/ n = c.to /\ Renames(m) /\ c.pc \in Working \cup {"killed"}
  \/ /\ n \in {c.name, c.to}
     /\ c.amiss \/ (c.pc \in Working /\ (~c.sound \/ Remaps(m)))

\* Any other row leads to a whole home and a whole workspace of one box, also
\* during a move that keeps its name and after one that was killed.
RowLeadsToBox == \A n \in Names : registry[n] # None /\ ~Excused(n) =>
  home[n].whole /\ work[registry[n]] = home[n]

\* It did not happen: names, data and places are as when the command c began.
Reverted(c) ==
  /\ registry'[c.name] = c.from /\ home'[c.name] = Whole(c.box)
  /\ c.to # c.name => home'[c.to].of # c.box
  /\ c.to # c.name /\ registry'[c.to] # None => work'[registry'[c.to]].of # c.box
  /\ c.copies => work'[c.from] = Whole(c.box) /\ work'[c.dest].of # c.box

\* It happened: the box is under its new name at its new place, and the old name is
\* no box's.
Happened(c) ==
  /\ registry'[c.to] = c.dest
  /\ home'[c.to] = Whole(c.box) /\ work'[c.dest] = Whole(c.box)
  /\ c.to # c.name => registry'[c.name] = None

\* A relocation none of whose undos failed or was interrupted half-way either happened
\* or did not.
AllOrNothing == [][\A m \in Movers : LET c == mv[m] IN
  c.pc \in Working /\ c.sound /\ ~c.amiss =>
    /\ mv'[m].pc = "undone" => Reverted(c)
    /\ mv'[m].pc = "done" => Happened(c)]_vars
=============================================================================
