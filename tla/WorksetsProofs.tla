---------------------------- MODULE WorksetsProofs ----------------------------
(***************************************************************************)
(* For any numbers of worksets, members, directories and commands, and     *)
(* whether or not commands overlap: Worksets keeps its types, and no       *)
(* workset ever lists one directory under two names.  When they do not     *)
(* overlap: what was a box stays one (MarkOrMember), a mark that a member  *)
(* still has is one the next command drops (MarkIsPending), a listed       *)
(* workset has its whole skeleton (ListedIsWhole), a connect that fails    *)
(* leaves nothing (AllOrNothing), and a directory that is in one registry  *)
(* stays in one (OneRecordKept).                                           *)
(***************************************************************************)
EXTENDS Worksets, TLAPS

\* What is at rest, and the commands at work: the two halves of TypeOK.
StoresOK ==
  /\ listed \subseteq Roots
  /\ root \in [Roots -> {"none", "part", "whole"}]
  /\ rows \in [Members -> Dirs \cup {None}]
  /\ store \subseteq Members
  /\ link \in [Members -> Dirs \cup {None}]
  /\ marked \subseteq Dirs /\ alone \subseteq Dirs
  /\ entry \subseteq Members
  /\ lapse \subseteq Dirs \cup Roots

Sound(c) ==
  /\ c \in Command
  /\ c.pc # "idle" => c.at \in Roots
  /\ c.pc \in Connecting \cup Leaving => c.name \in Names /\ c.dir \in Dirs

CommandsOK == proc \in [Procs -> Command] /\ \A p \in Procs : Sound(proc[p])

LEMMA Halves == TypeOK <=> StoresOK /\ CommandsOK
  BY DEF TypeOK, StoresOK, CommandsOK, Sound

PCs == {"idle"} \cup Connecting \cup Leaving \cup Removing \cup Creating

-----------------------------------------------------------------------------
(* The steps of a command keep it sound. *)

LEMMA IdleSound == Sound(Idle) /\ Idle.pc = "idle"
  BY DEF Sound, Idle, Command, Connecting, Leaving

LEMMA OneCommandMoves ==
  ASSUME CommandsOK, NEW p \in Procs, NEW c, Sound(c), proc' = [proc EXCEPT ![p] = c]
  PROVE  CommandsOK'
  BY DEF CommandsOK, Sound

LEMMA CommandEnds ==
  ASSUME CommandsOK, NEW p \in Procs, Ends(p)
  PROVE  CommandsOK'
  BY IdleSound, OneCommandMoves DEF Ends

\* A command at work that goes on among its own steps.
LEMMA CommandGoes ==
  ASSUME CommandsOK, NEW p \in Procs, proc[p].pc # "idle", NEW pc \in PCs,
         pc \in Connecting \cup Leaving => proc[p].pc \in Connecting \cup Leaving,
         Goto(p, pc)
  PROVE  CommandsOK'
  <1> DEFINE c == [proc[p] EXCEPT !.pc = pc]
  <1>1. Sound(c)
    BY DEF CommandsOK, Sound, Command, PCs
  <1>2. proc' = [proc EXCEPT ![p] = c]
    BY DEF Goto
  <1> HIDE DEF c
  <1>3. QED
    BY <1>1, <1>2, OneCommandMoves

LEMMA FactsAreFact ==
  ASSUME StoresOK, NEW m \in Members, NEW d \in Dirs
  PROVE  Facts(m, d) \in Fact
  BY DEF StoresOK, Facts, Fact

LEMMA MemberIsMember ==
  ASSUME CommandsOK, NEW p \in Procs, proc[p].pc \in Connecting \cup Leaving
  PROVE  Member(p) \in Members /\ proc[p].at \in Roots /\ proc[p].dir \in Dirs
  BY DEF CommandsOK, Sound, Member, Members, Connecting, Leaving

LEMMA CreateSound ==
  ASSUME CommandsOK, NEW p \in Procs, NEW r \in Roots, Create(p, r)
  PROVE  CommandsOK'
  <1> DEFINE c == [Idle EXCEPT !.pc = "making", !.at = r]
  <1>1. Sound(c)
    BY DEF Sound, Command, Idle, Creating, Connecting, Leaving
  <1>2. proc' = [proc EXCEPT ![p] = c]
    BY DEF Create, Starts
  <1> HIDE DEF c
  <1>3. QED
    BY <1>1, <1>2, OneCommandMoves

LEMMA ConnectSound ==
  ASSUME StoresOK, CommandsOK, NEW p \in Procs, NEW r \in Roots, NEW n \in Names,
         NEW d \in Dirs, NEW force \in BOOLEAN, Connect(p, r, n, d, force)
  PROVE  CommandsOK'
  <1> DEFINE f == Facts(<<r, n>>, d)
             c == [Idle EXCEPT !.pc = "checked", !.at = r, !.name = n, !.dir = d,
                               !.flag = force, !.was = {f}]
  <1>1. f \in Fact
    BY FactsAreFact DEF Members
  <1>2. proc' = [proc EXCEPT ![p] = c]
    BY DEF Connect, Starts
  <1> HIDE DEF f
  <1>3. Sound(c)
    BY <1>1 DEF Sound, Command, Idle, Connecting
  <1> HIDE DEF c
  <1>4. QED
    BY <1>2, <1>3, OneCommandMoves

LEMMA DisconnectSound ==
  ASSUME StoresOK, CommandsOK, NEW p \in Procs, NEW r \in Roots, NEW n \in Names,
         NEW files \in BOOLEAN, Disconnect(p, r, n, files)
  PROVE  CommandsOK'
  <1> DEFINE d == rows[<<r, n>>]
             c == [Idle EXCEPT !.pc = "asked", !.at = r, !.name = n, !.dir = d,
                               !.flag = files]
  <1>1. d \in Dirs
    BY DEF Disconnect, StoresOK, Members
  <1>2. proc' = [proc EXCEPT ![p] = c]
    BY DEF Disconnect
  <1> HIDE DEF d
  <1>3. Sound(c)
    BY <1>1 DEF Sound, Command, Idle, Leaving
  <1> HIDE DEF c
  <1>4. QED
    BY <1>2, <1>3, OneCommandMoves

LEMMA RemoveSound ==
  ASSUME CommandsOK, NEW p \in Procs, NEW r \in Roots, NEW purge \in BOOLEAN,
         Remove(p, r, purge)
  PROVE  CommandsOK'
  <1> DEFINE c == [Idle EXCEPT !.pc = "agreed", !.at = r, !.flag = purge]
  <1>1. Sound(c)
    BY DEF Sound, Command, Idle, Removing, Connecting, Leaving
  <1>2. proc' = [proc EXCEPT ![p] = c]
    BY DEF Remove
  <1> HIDE DEF c
  <1>3. QED
    BY <1>1, <1>2, OneCommandMoves

LEMMA EnterSound ==
  ASSUME CommandsOK, NEW p \in Procs, Enter(p)
  PROVE  CommandsOK'
  <1> DEFINE c == proc[p]
  <1>1. Sound(c) /\ c.pc = "opened"
    BY DEF CommandsOK, Enter, At
  <1>2. CASE proc' = [proc EXCEPT ![p].pc = "entered", ![p].mark = c.dir \in marked,
                                  ![p].absorbs = c.dir \in marked \cap alone]
    <2> DEFINE has == c.dir \in marked
               takes == c.dir \in marked \cap alone
               e == [c EXCEPT !.pc = "entered", !.mark = has, !.absorbs = takes]
    <2>1. has \in BOOLEAN /\ takes \in BOOLEAN
      OBVIOUS
    <2>2. proc' = [proc EXCEPT ![p].pc = "entered", ![p].mark = has, ![p].absorbs = takes]
      BY <1>2
    <2> HIDE DEF has, takes
    <2>3. proc' = [proc EXCEPT ![p] = e]
      BY <2>2
    <2>4. Sound(e)
      BY <1>1, <2>1 DEF Sound, Command, Connecting
    <2> HIDE DEF e
    <2>5. QED
      BY <2>3, <2>4, OneCommandMoves
  <1>3. CASE proc' = [proc EXCEPT ![p].pc = "undoing", ![p].how = "refused"]
    <2> DEFINE e == [c EXCEPT !.pc = "undoing", !.how = "refused"]
    <2>1. Sound(e)
      BY <1>1 DEF Sound, Command, Connecting
    <2>2. proc' = [proc EXCEPT ![p] = e]
      BY <1>3
    <2> HIDE DEF e
    <2>3. QED
      BY <2>1, <2>2, OneCommandMoves
  <1>4. QED
    BY <1>2, <1>3 DEF Enter

LEMMA DoesSound ==
  ASSUME CommandsOK, NEW p \in Procs, proc[p].pc \in Connecting, NEW pc \in Connecting,
         NEW undo \in SUBSET Undos, Does(p, undo, pc)
  PROVE  CommandsOK'
  <1> DEFINE c == proc[p]
             cut == [c EXCEPT !.pc = "undoing", !.how = "interrupt"]
             made == c.made \cup undo
             done == [c EXCEPT !.pc = pc, !.made = made]
  <1>1. Sound(c)
    BY DEF CommandsOK
  <1>2. Sound(cut)
    BY <1>1 DEF Sound, Command, Connecting
  <1>3. made \in SUBSET Undos
    BY <1>1 DEF Sound, Command
  <1>4. \/ proc' = [proc EXCEPT ![p] = cut]
        \/ proc' = [proc EXCEPT ![p] = done]
    BY DEF Does
  <1> HIDE DEF made
  <1>5. Sound(done)
    BY <1>1, <1>3 DEF Sound, Command, Connecting
  <1> HIDE DEF cut, done
  <1>6. QED
    BY <1>2, <1>4, <1>5, OneCommandMoves

LEMMA WriteRowSound ==
  ASSUME StoresOK, CommandsOK, NEW p \in Procs, WriteRow(p)
  PROVE  CommandsOK'
  <1> DEFINE c == proc[p]
             prior == rows[Member(p)]
             made == c.made \cup {"row"}
             done == [c EXCEPT !.pc = "rowed", !.prior = prior, !.made = made]
             not == [c EXCEPT !.pc = "undoing", !.how = "refused"]
  <1>1. Sound(c) /\ c.pc = "absorbed" /\ prior \in Dirs \cup {None}
    BY MemberIsMember DEF CommandsOK, WriteRow, At, StoresOK, Connecting
  <1>2. made \in SUBSET Undos
    BY <1>1 DEF Sound, Command, Undos
  <1>3. Sound(not)
    BY <1>1 DEF Sound, Command, Connecting
  <1>4. \/ proc' = [proc EXCEPT ![p] = done]
        \/ proc' = [proc EXCEPT ![p] = not]
    BY DEF WriteRow
  <1> HIDE DEF made, prior
  <1>5. Sound(done)
    BY <1>1, <1>2 DEF Sound, Command, Connecting
  <1> HIDE DEF done, not
  <1>6. QED
    BY <1>3, <1>4, <1>5, OneCommandMoves

LEMMA DropMarkSound ==
  ASSUME CommandsOK, NEW p \in Procs, DropMark(p)
  PROVE  CommandsOK'
  <1> DEFINE c == proc[p]
             made == c.made \cup {"mark"}
             done == [c EXCEPT !.pc = "dropped", !.made = made]
  <1>1. Sound(c) /\ c.pc = "rowed"
    BY DEF CommandsOK, DropMark, At
  <1>2. made \in SUBSET Undos
    BY <1>1 DEF Sound, Command, Undos
  <1>3. CASE proc' = [proc EXCEPT ![p] = done]
    <2> HIDE DEF made
    <2>1. Sound(done)
      BY <1>1, <1>2 DEF Sound, Command, Connecting
    <2> HIDE DEF done
    <2>2. QED
      BY <1>3, <2>1, OneCommandMoves
  <1>4. CASE Goto(p, "dropped")
    BY <1>1, <1>4, CommandGoes DEF PCs, Connecting
  <1>5. QED
    BY <1>3, <1>4 DEF DropMark

LEMMA InterruptSound ==
  ASSUME CommandsOK, NEW p \in Procs, Interrupt(p)
  PROVE  CommandsOK'
  <1> DEFINE c == [proc[p] EXCEPT !.pc = "undoing", !.how = "interrupt"]
  <1>0. Sound(proc[p]) /\ proc[p].pc \in Connecting
    BY DEF CommandsOK, Interrupt
  <1>1. Sound(c)
    BY <1>0 DEF Sound, Command, Connecting
  <1>2. proc' = [proc EXCEPT ![p] = c]
    BY DEF Interrupt
  <1> HIDE DEF c
  <1>3. QED
    BY <1>1, <1>2, OneCommandMoves

LEMMA UndidSound ==
  ASSUME CommandsOK, NEW p \in Procs, NEW undo, Undid(p, undo)
  PROVE  CommandsOK'
  <1> DEFINE made == proc[p].made \ {undo}
             c == [proc[p] EXCEPT !.made = made]
  <1>1. Sound(proc[p]) /\ made \in SUBSET Undos
    BY DEF CommandsOK, Sound, Command
  <1>2. proc' = [proc EXCEPT ![p] = c]
    BY DEF Undid
  <1> HIDE DEF made
  <1>3. Sound(c)
    BY <1>1 DEF Sound, Command
  <1> HIDE DEF c
  <1>4. QED
    BY <1>2, <1>3, OneCommandMoves

LEMMA UndoFailsSound ==
  ASSUME CommandsOK, NEW p \in Procs, UndoFails(p)
  PROVE  CommandsOK'
  <1>1. PICK undo \in Undos :
          proc' = [proc EXCEPT ![p].made = @ \ {undo}, ![p].failed = TRUE]
    BY DEF UndoFails
  <1> DEFINE made == proc[p].made \ {undo}
             c == [proc[p] EXCEPT !.made = made, !.failed = TRUE]
  <1>2. Sound(proc[p]) /\ made \in SUBSET Undos
    BY DEF CommandsOK, Sound, Command
  <1>3. proc' = [proc EXCEPT ![p] = c]
    BY <1>1
  <1> HIDE DEF made
  <1>4. Sound(c)
    BY <1>2 DEF Sound, Command
  <1> HIDE DEF c
  <1>5. QED
    BY <1>3, <1>4, OneCommandMoves

-----------------------------------------------------------------------------
(* What a command leaves on disk and in the registries. *)

LEMMA CreatesKeepStores ==
  ASSUME StoresOK, CommandsOK, NEW p \in Procs,
         \/ \E r \in Roots : Create(p, r)
         \/ Lay(p) \/ List(p) \/ Created(p) \/ Unmake(p)
  PROVE  StoresOK'
  <1>1. CASE \E r \in Roots : Create(p, r)
    BY <1>1 DEF StoresOK, Create, Starts, registries
  <1>2. CASE Lay(p)
    BY <1>2 DEF StoresOK, Lay, registries
  <1>3. CASE List(p)
    <2>1. proc[p].at \in Roots
      BY <1>3 DEF List, At, CommandsOK, Sound
    <2>2. QED
      BY <1>3, <2>1 DEF StoresOK, List, disk
  <1>4. CASE Created(p)
    BY <1>4 DEF StoresOK, Created, disk, registries
  <1>5. CASE Unmake(p)
    <2> DEFINE r == proc[p].at
    <2>1. r \in Roots
      BY <1>5 DEF Unmake, Creating, CommandsOK, Sound
    <2>2. PICK keepsRow \in BOOLEAN, left \in {"none", "part", root[r]} :
            /\ listed' = IF keepsRow THEN listed ELSE listed \ {r}
            /\ root' = [root EXCEPT ![r] = left]
            /\ IF left = "none"
               THEN /\ rows' = [m \in Members |-> IF m[1] = r THEN None ELSE rows[m]]
                    /\ link' = [m \in Members |-> IF m[1] = r THEN None ELSE link[m]]
                    /\ store' = {m \in store : m[1] # r}
               ELSE UNCHANGED <<rows, link, store>>
            /\ Notes(IF keepsRow /\ r \in listed THEN {r} ELSE {})
      BY <1>5 DEF Unmake
    <2>3. /\ rows' \in [Members -> Dirs \cup {None}]
          /\ link' \in [Members -> Dirs \cup {None}]
          /\ store' \subseteq Members
      BY <2>2 DEF StoresOK
    <2>4. /\ root' \in [Roots -> {"none", "part", "whole"}] /\ listed' \subseteq Roots
          /\ lapse' \subseteq Dirs \cup Roots
      BY <2>1, <2>2 DEF StoresOK, Notes
    <2>5. UNCHANGED <<marked, alone, entry>>
      BY <1>5 DEF Unmake
    <2>6. QED
      BY <2>3, <2>4, <2>5 DEF StoresOK
  <1>6. QED
    BY <1>1, <1>2, <1>3, <1>4, <1>5

LEMMA ConnectsKeepStores ==
  ASSUME StoresOK, CommandsOK, NEW p \in Procs,
         \/ \E r \in Roots, n \in Names, d \in Dirs, force \in BOOLEAN :
              Connect(p, r, n, d, force)
         \/ Open(p) \/ Enter(p) \/ MakeStore(p) \/ Link(p) \/ Absorb(p) \/ WriteRow(p)
         \/ DropMark(p) \/ Close(p)
  PROVE  StoresOK'
  <1> DEFINE m == Member(p)
  <1>1. CASE \E r \in Roots, n \in Names, d \in Dirs, force \in BOOLEAN :
               Connect(p, r, n, d, force)
    <2>1. UNCHANGED <<disk, registries>> /\ \E c : Starts(p, c)
      BY <1>1, Zenon DEF Connect
    <2>2. UNCHANGED lapse
      BY <2>1 DEF Starts
    <2>3. QED
      BY <2>1, <2>2 DEF StoresOK, disk, registries
  <1>2. CASE Enter(p)
    BY <1>2 DEF StoresOK, Enter, disk, registries
  <1>3. CASE proc[p].pc \in Connecting
    <2>1. m \in Members /\ proc[p].at \in Roots /\ proc[p].dir \in Dirs
      BY <1>3, MemberIsMember
    <2> HIDE DEF m
    <2>2. CASE Open(p)
      BY <2>1, <2>2 DEF m, StoresOK, Open, disk
    <2>3. CASE MakeStore(p)
      BY <2>1, <2>3 DEF m, StoresOK, MakeStore, registries
    <2>4. CASE Link(p)
      BY <2>1, <2>4 DEF m, StoresOK, Link, registries
    <2>5. CASE Absorb(p)
      BY <2>1, <2>5 DEF StoresOK, Absorb, disk
    <2>6. CASE WriteRow(p)
      BY <2>1, <2>6 DEF m, StoresOK, WriteRow, registries
    <2>7. CASE DropMark(p)
      BY <2>1, <2>7 DEF StoresOK, DropMark, Notes, registries
    <2>8. CASE Close(p)
      BY <2>1, <2>8 DEF m, StoresOK, Close, disk
    <2>9. QED
      BY <1>1, <1>2, <2>2, <2>3, <2>4, <2>5, <2>6, <2>7, <2>8
  <1>4. QED
    BY <1>1, <1>2, <1>3 DEF Open, MakeStore, Link, Absorb, WriteRow, DropMark, Close, At,
                            Connecting

LEMMA UndosKeepStores ==
  ASSUME StoresOK, CommandsOK, NEW p \in Procs,
         \/ Fail(p) \/ Interrupt(p) \/ Kill(p) \/ UndoMark(p) \/ UndoRow(p)
         \/ UndoAbsorb(p) \/ UndoLink(p) \/ UndoStore(p) \/ UndoFails(p) \/ Undone(p)
  PROVE  StoresOK'
  <1> DEFINE m == Member(p)
  <1>1. CASE Fail(p) \/ Interrupt(p) \/ Kill(p)
    BY <1>1 DEF StoresOK, Fail, Interrupt, Kill, disk, registries
  <1>2. CASE proc[p].pc = "undoing"
    <2>1. /\ m \in Members /\ proc[p].dir \in Dirs
          /\ proc[p].prior \in Dirs \cup {None}
      BY <1>2, MemberIsMember DEF Connecting, CommandsOK, Sound, Command
    <2> HIDE DEF m
    <2>2. CASE UndoMark(p)
      BY <2>1, <2>2 DEF StoresOK, UndoMark, Undid, registries
    <2>3. CASE UndoRow(p)
      BY <2>1, <2>3 DEF m, StoresOK, UndoRow, Undid, registries
    <2>4. CASE UndoAbsorb(p)
      BY <2>1, <2>4 DEF StoresOK, UndoAbsorb, Undid, disk
    <2>5. CASE UndoLink(p)
      BY <2>1, <2>5 DEF m, StoresOK, UndoLink, Undid, registries
    <2>6. CASE UndoStore(p)
      BY <2>1, <2>6 DEF StoresOK, UndoStore, Undid, registries
    <2>7. CASE UndoFails(p)
      BY <2>1, <2>7 DEF StoresOK, UndoFails, Notes, disk, registries
    <2>8. CASE Undone(p)
      BY <2>1, <2>8 DEF StoresOK, Undone, disk
    <2>9. QED
      BY <1>1, <2>2, <2>3, <2>4, <2>5, <2>6, <2>7, <2>8
  <1>3. QED
    BY <1>1, <1>2 DEF UndoMark, UndoRow, UndoAbsorb, UndoLink, UndoStore, UndoFails,
                      Undone, Undoes, At

LEMMA RepairsKeepStores ==
  ASSUME StoresOK, NEW S, Repairs(S), UNCHANGED <<root, rows, store, link, listed, alone>>
  PROVE  StoresOK'
  <1>1. PICK kept \in SUBSET ({rows[m] : m \in S \cap entry} \cap marked) :
          /\ marked' = marked \ ({rows[m] : m \in S \cap entry} \ kept)
          /\ entry' = entry \ (S \cap entry)
          /\ lapse' = lapse \cup kept
    BY DEF Repairs, Notes
  <1>2. QED
    BY <1>1 DEF StoresOK

LEMMA LeavesKeepStores ==
  ASSUME StoresOK, CommandsOK, NEW p \in Procs,
         \/ \E r \in Roots, n \in Names, files \in BOOLEAN : Disconnect(p, r, n, files)
         \/ \E r \in Roots, purge \in BOOLEAN : Remove(p, r, purge)
         \/ RemoveStore(p) \/ Unlink(p) \/ DropRow(p)
         \/ RemoveTree(p) \/ Unlist(p) \/ RemoveRoot(p)
  PROVE  StoresOK'
  <1>1. CASE \/ \E r \in Roots, n \in Names, files \in BOOLEAN : Disconnect(p, r, n, files)
             \/ \E r \in Roots, purge \in BOOLEAN : Remove(p, r, purge)
    BY <1>1, RepairsKeepStores DEF Disconnect, Remove
  <1>2. CASE RemoveStore(p)
    BY <1>2 DEF StoresOK, RemoveStore, registries
  <1>3. CASE Unlink(p)
    BY <1>3 DEF StoresOK, Unlink, registries
  <1>4. CASE DropRow(p)
    <2>1. rows[Member(p)] \in Dirs \cup {None}
      BY <1>4, MemberIsMember DEF DropRow, At, Leaving, StoresOK
    <2>2. QED
      BY <1>4, <2>1 DEF StoresOK, DropRow, Notes, registries
  <1>5. CASE RemoveTree(p)
    BY <1>5 DEF StoresOK, RemoveTree, registries
  <1>6. CASE Unlist(p)
    BY <1>6 DEF StoresOK, Unlist, disk
  <1>7. CASE RemoveRoot(p)
    <2> DEFINE r == proc[p].at
               mine == {m \in Members : m[1] = r}
    <2>1. r \in Roots
      BY <1>7 DEF RemoveRoot, At, CommandsOK, Sound
    <2>2. PICK left \in {"none", "part", root[r]}, lost \in SUBSET mine,
               unlinked \in SUBSET mine :
            /\ root' = [root EXCEPT ![r] = left]
            /\ rows' = [m \in Members |-> IF m \in lost THEN None ELSE rows[m]]
            /\ link' = [m \in Members |-> IF m \in unlinked THEN None ELSE link[m]]
            /\ store' = IF left = "none" THEN store \ mine ELSE store
            /\ Notes({rows[m] : m \in lost} \ ({None} \cup marked))
      <3> HIDE DEF mine
      <3>1. \E left \in {"none", "part", root[r]}, lost \in SUBSET mine,
               unlinked \in SUBSET mine :
            /\ lost \in {{}, mine}
            /\ left = "none" => lost = mine /\ unlinked = mine
            /\ root' = [root EXCEPT ![r] = left]
            /\ rows' = [m \in Members |-> IF m \in lost THEN None ELSE rows[m]]
            /\ link' = [m \in Members |-> IF m \in unlinked THEN None ELSE link[m]]
            /\ store' = IF left = "none" THEN store \ mine ELSE store
            /\ Notes({rows[m] : m \in lost} \ ({None} \cup marked))
        BY <1>7, ZenonT(30) DEF RemoveRoot, mine
      <3>2. QED
        BY <3>1, ZenonT(30)
    <2>3. {rows[m] : m \in lost} \ ({None} \cup marked) \subseteq Dirs
      BY DEF StoresOK
    <2>4. rows' \in [Members -> Dirs \cup {None}] /\ link' \in [Members -> Dirs \cup {None}]
      BY <2>2 DEF StoresOK
    <2>5. root' \in [Roots -> {"none", "part", "whole"}] /\ store' \subseteq Members
      BY <2>1, <2>2 DEF StoresOK
    <2>6. QED
      BY <1>7, <2>2, <2>3, <2>4, <2>5 DEF StoresOK, RemoveRoot, Notes, registries
  <1>8. QED
    BY <1>1, <1>2, <1>3, <1>4, <1>5, <1>6, <1>7

LEMMA OthersKeepStores ==
  ASSUME StoresOK,
         \/ \E r \in Roots : Import(r) \/ \E n \in Names : Resolve(r, n) \/ ResolveKilled(r, n)
         \/ \E d \in Dirs : Register(d)
  PROVE  StoresOK' /\ UNCHANGED proc
  <1>1. CASE \E r \in Roots : Import(r)
    BY <1>1 DEF StoresOK, Import, disk
  <1>2. CASE \E r \in Roots, n \in Names : Resolve(r, n)
    BY <1>2, RepairsKeepStores DEF Resolve
  <1>3. CASE \E r \in Roots, n \in Names : ResolveKilled(r, n)
    BY <1>3 DEF StoresOK, ResolveKilled, registries
  <1>4. CASE \E d \in Dirs : Register(d)
    BY <1>4 DEF StoresOK, Register, disk
  <1>5. QED
    BY <1>1, <1>2, <1>3, <1>4

-----------------------------------------------------------------------------
(* Types. *)

LEMMA CommandsStaySound ==
  ASSUME StoresOK, CommandsOK, NEW p \in Procs,
         \/ \E r \in Roots :
              \/ Create(p, r)
              \/ \E purge \in BOOLEAN : Remove(p, r, purge)
              \/ \E n \in Names :
                   \/ \E d \in Dirs, force \in BOOLEAN : Connect(p, r, n, d, force)
                   \/ \E files \in BOOLEAN : Disconnect(p, r, n, files)
         \/ Lay(p) \/ List(p) \/ Created(p) \/ Unmake(p)
         \/ Open(p) \/ Enter(p) \/ MakeStore(p) \/ Link(p) \/ Absorb(p) \/ WriteRow(p)
         \/ DropMark(p) \/ Close(p) \/ Fail(p) \/ Interrupt(p) \/ Kill(p)
         \/ UndoMark(p) \/ UndoRow(p) \/ UndoAbsorb(p) \/ UndoLink(p) \/ UndoStore(p)
         \/ UndoFails(p) \/ Undone(p)
         \/ RemoveStore(p) \/ Unlink(p) \/ DropRow(p)
         \/ RemoveTree(p) \/ Unlist(p) \/ RemoveRoot(p)
  PROVE  CommandsOK'
  <1>1. CASE \E r \in Roots :
              \/ Create(p, r)
              \/ \E purge \in BOOLEAN : Remove(p, r, purge)
              \/ \E n \in Names :
                   \/ \E d \in Dirs, force \in BOOLEAN : Connect(p, r, n, d, force)
                   \/ \E files \in BOOLEAN : Disconnect(p, r, n, files)
    BY <1>1, CreateSound, RemoveSound, ConnectSound, DisconnectSound
  <1>2. CASE Lay(p) \/ List(p)
    BY <1>2, CommandGoes DEF Lay, List, At, PCs, Creating, Connecting, Leaving
  <1>3. CASE \/ Created(p) \/ Unmake(p) \/ Close(p) \/ Undone(p) \/ Kill(p) \/ DropRow(p)
             \/ RemoveRoot(p)
    BY <1>3, CommandEnds DEF Created, Unmake, Close, Undone, Kill, DropRow, RemoveRoot
  <1>4. CASE Open(p) \/ Fail(p)
    BY <1>4, CommandGoes DEF Open, Fail, At, PCs, Connecting
  <1>5. CASE Enter(p) \/ WriteRow(p) \/ DropMark(p) \/ Interrupt(p) \/ UndoFails(p)
    BY <1>5, EnterSound, WriteRowSound, DropMarkSound, InterruptSound, UndoFailsSound
  <1>6. CASE MakeStore(p)
    BY <1>6, DoesSound DEF MakeStore, At, Connecting, Undos
  <1>7. CASE Link(p)
    BY <1>7, DoesSound DEF Link, At, Connecting, Undos
  <1>8. CASE Absorb(p)
    BY <1>8, DoesSound DEF Absorb, At, Connecting, Undos
  <1>9. CASE \/ UndoMark(p) \/ UndoRow(p) \/ UndoAbsorb(p) \/ UndoLink(p) \/ UndoStore(p)
    BY <1>9, UndidSound DEF UndoMark, UndoRow, UndoAbsorb, UndoLink, UndoStore
  <1>10. CASE RemoveStore(p)
    BY <1>10, CommandGoes DEF RemoveStore, At, PCs, Leaving, Connecting
  <1>11. CASE Unlink(p)
    <2>1. proc[p].pc \in Leaving /\ Goto(p, "unlinked")
      BY <1>11 DEF Unlink, At, Leaving
    <2>2. QED
      BY <2>1, CommandGoes DEF PCs, Leaving
  <1>12. CASE RemoveTree(p)
    BY <1>12 DEF RemoveTree, CommandsOK, Sound
  <1>13. CASE Unlist(p)
    <2>1. CASE Goto(p, "unlisted")
      BY <1>13, <2>1, CommandGoes DEF Unlist, At, PCs, Removing, Connecting, Leaving
    <2>2. CASE Ends(p)
      BY <2>2, CommandEnds
    <2>3. QED
      BY <1>13, <2>1, <2>2 DEF Unlist
  <1>14. QED
    BY <1>1, <1>2, <1>3, <1>4, <1>5, <1>6, <1>7, <1>8, <1>9, <1>10, <1>11, <1>12, <1>13

LEMMA InitTyped == Init => TypeOK
  <1> SUFFICES ASSUME Init PROVE TypeOK
    OBVIOUS
  <1>1. StoresOK
    BY BoxedAssumption DEF Init, StoresOK
  <1>2. CommandsOK
    BY IdleSound DEF Init, CommandsOK, Sound
  <1>3. QED
    BY <1>1, <1>2, Halves

LEMMA StepTyped == TypeOK /\ [Next]_vars => TypeOK'
  <1> SUFFICES ASSUME TypeOK, [Next]_vars PROVE TypeOK'
    OBVIOUS
  <1>1. StoresOK /\ CommandsOK
    BY Halves
  <1>2. StoresOK' /\ CommandsOK' => TypeOK'
    BY DEF TypeOK, StoresOK, CommandsOK, Sound
  <1>3. CASE Next
    <2>1. CASE \/ \E r \in Roots : Import(r) \/ \E n \in Names : Resolve(r, n) \/ ResolveKilled(r, n)
               \/ \E d \in Dirs : Register(d)
      <3>1. StoresOK' /\ UNCHANGED proc
        BY <1>1, <2>1, OthersKeepStores
      <3>2. CommandsOK'
        BY <1>1, <3>1 DEF CommandsOK, Sound
      <3>3. QED
        BY <1>2, <3>1, <3>2
    <2>2. ASSUME NEW p \in Procs,
                 \/ \E r \in Roots :
                      \/ Create(p, r)
                      \/ \E purge \in BOOLEAN : Remove(p, r, purge)
                      \/ \E n \in Names :
                           \/ \E d \in Dirs, force \in BOOLEAN : Connect(p, r, n, d, force)
                           \/ \E files \in BOOLEAN : Disconnect(p, r, n, files)
                 \/ Lay(p) \/ List(p) \/ Created(p) \/ Unmake(p)
                 \/ Open(p) \/ Enter(p) \/ MakeStore(p) \/ Link(p) \/ Absorb(p) \/ WriteRow(p)
                 \/ DropMark(p) \/ Close(p) \/ Fail(p) \/ Interrupt(p) \/ Kill(p)
                 \/ UndoMark(p) \/ UndoRow(p) \/ UndoAbsorb(p) \/ UndoLink(p) \/ UndoStore(p)
                 \/ UndoFails(p) \/ Undone(p)
                 \/ RemoveStore(p) \/ Unlink(p) \/ DropRow(p)
                 \/ RemoveTree(p) \/ Unlist(p) \/ RemoveRoot(p)
          PROVE  TypeOK'
      <3>1. CommandsOK'
        BY <1>1, <2>2, CommandsStaySound
      <3>2. StoresOK'
        BY <1>1, <2>2, CreatesKeepStores, ConnectsKeepStores, UndosKeepStores, LeavesKeepStores
      <3>3. QED
        BY <1>2, <3>1, <3>2
    <2>3. QED
      BY <1>3, <2>1, <2>2 DEF Next
  <1>4. CASE UNCHANGED vars
    BY <1>2, <1>1, <1>4 DEF vars, disk, registries, StoresOK, CommandsOK, Sound
  <1>5. QED
    BY <1>3, <1>4

\* Types, for any numbers of worksets, members, directories and commands, and any
\* overlap of the commands: every definition of the code's state is what its name says.
THEOREM TypeCorrect == Spec => []TypeOK
  BY InitTyped, StepTyped, PTL DEF Spec

-----------------------------------------------------------------------------
(* One name per directory in a workset. *)

\* A step that only drops rows.
LEMMA DroppedRowsStayOne ==
  ASSUME OneNamePerDir, rows' \in [Members -> Dirs \cup {None}],
         \A m \in Members : rows'[m] \in {rows[m], None}
  PROVE  OneNamePerDir'
  BY DEF OneNamePerDir

\* The registry's refusal is what keeps a written row apart from the others.
LEMMA RegistrableRowStaysOne ==
  ASSUME TypeOK, OneNamePerDir, NEW m \in Members, NEW d \in Dirs, Registrable(m, d),
         rows' = [rows EXCEPT ![m] = d]
  PROVE  OneNamePerDir'
  <1> SUFFICES ASSUME NEW a \in Members, NEW b \in Members, a[1] = b[1],
                      rows'[a] = rows'[b], rows'[a] # None
               PROVE  a = b
    BY DEF OneNamePerDir
  <1>1. \A k \in Members : k[1] = m[1] /\ k # m => rows[k] # d
    <2> SUFFICES ASSUME NEW k \in Members, k[1] = m[1], k # m PROVE rows[k] # d
      OBVIOUS
    <2>1. k[2] \in Names /\ k = <<m[1], k[2]>>
      BY DEF Members
    <2>2. QED
      BY <2>1 DEF Registrable
  <1>2. rows'[m] = d /\ \A k \in Members \ {m} : rows'[k] = rows[k]
    BY DEF TypeOK
  <1>3. CASE a = m \/ b = m
    BY <1>1, <1>2, <1>3
  <1>4. CASE a # m /\ b # m
    BY <1>2, <1>4 DEF OneNamePerDir
  <1>5. QED
    BY <1>3, <1>4

\* A command that writes or puts back a row asks the registry first.
LEMMA WrittenRowStaysOne ==
  ASSUME TypeOK, OneNamePerDir, NEW p \in Procs, WriteRow(p) \/ UndoRow(p)
  PROVE  OneNamePerDir'
  <1> DEFINE c == proc[p]
             m == Member(p)
  <1>1. m \in Members /\ c.dir \in Dirs /\ c.prior \in Dirs \cup {None}
    BY Halves, MemberIsMember
       DEF WriteRow, UndoRow, Undoes, At, Connecting, CommandsOK, Sound, Command
  <1>2. CASE WriteRow(p)
    <2>1. CASE Registrable(m, c.dir)
      BY <1>1, <1>2, <2>1, RegistrableRowStaysOne DEF WriteRow
    <2>2. CASE ~Registrable(m, c.dir)
      BY <1>2, <2>2 DEF WriteRow, OneNamePerDir
    <2>3. QED
      BY <2>1, <2>2
  <1>3. CASE UndoRow(p)
    <2>1. /\ c.prior # None /\ c.prior # rows[m] => Registrable(m, c.prior)
          /\ rows' = IF c.prior # None \/ rows[m] = c.dir
                     THEN [rows EXCEPT ![m] = c.prior] ELSE rows
      BY <1>3 DEF UndoRow
    <2> HIDE DEF m, c
    <2>2. CASE c.prior # None /\ c.prior # rows[m]
      BY <1>1, <2>1, <2>2, RegistrableRowStaysOne
    <2>3. CASE c.prior = rows[m] \/ c.prior = None
      <3>1. /\ rows' \in [Members -> Dirs \cup {None}]
            /\ \A k \in Members : rows'[k] \in {rows[k], None}
        BY <1>1, <2>1, <2>3 DEF TypeOK
      <3>2. QED
        BY <3>1, DroppedRowsStayOne
    <2>4. QED
      BY <2>2, <2>3
  <1>4. QED
    BY <1>2, <1>3

LEMMA DroppingStepStaysOne ==
  ASSUME TypeOK, TypeOK', OneNamePerDir, NEW p \in Procs,
         Unmake(p) \/ DropRow(p) \/ RemoveRoot(p)
  PROVE  OneNamePerDir'
  <1>1. rows \in [Members -> Dirs \cup {None}] /\ rows' \in [Members -> Dirs \cup {None}]
    BY DEF TypeOK
  <1>2. CASE Unmake(p)
    <2>1. \/ rows' = [m \in Members |-> IF m[1] = proc[p].at THEN None ELSE rows[m]]
          \/ rows' = rows
      BY <1>2 DEF Unmake
    <2>2. QED
      BY <1>1, <2>1, DroppedRowsStayOne
  <1>3. CASE DropRow(p)
    BY <1>1, <1>3, DroppedRowsStayOne DEF DropRow
  <1>4. CASE RemoveRoot(p)
    <2>1. \E lost : rows' = [m \in Members |-> IF m \in lost THEN None ELSE rows[m]]
      BY <1>4 DEF RemoveRoot
    <2>2. QED
      BY <1>1, <2>1, DroppedRowsStayOne
  <1>5. QED
    BY <1>2, <1>3, <1>4

\* Every other step leaves the rows alone.
LEMMA OtherStepsKeepRows ==
  ASSUME Next
  PROVE  \/ UNCHANGED rows
         \/ \E p \in Procs : WriteRow(p) \/ UndoRow(p)
         \/ \E p \in Procs : Unmake(p) \/ DropRow(p) \/ RemoveRoot(p)
  <1> DEFINE Calm == UNCHANGED rows
  <1>1. ASSUME NEW p \in Procs, NEW r \in Roots, Create(p, r) PROVE Calm
    BY <1>1 DEF Create
  <1>2. ASSUME NEW p \in Procs, NEW r \in Roots, NEW purge \in BOOLEAN, Remove(p, r, purge)
        PROVE  Calm
    BY <1>2 DEF Remove
  <1>3. ASSUME NEW p \in Procs, NEW r \in Roots, NEW n \in Names, NEW d \in Dirs,
               NEW force \in BOOLEAN, Connect(p, r, n, d, force)
        PROVE  Calm
    BY <1>3, Zenon DEF Connect, disk
  <1>4. ASSUME NEW p \in Procs, NEW r \in Roots, NEW n \in Names, NEW files \in BOOLEAN,
               Disconnect(p, r, n, files)
        PROVE  Calm
    BY <1>4 DEF Disconnect
  <1>5. ASSUME NEW p \in Procs, \/ Lay(p) \/ List(p) \/ Created(p) \/ Open(p) \/ Enter(p)
                                \/ MakeStore(p) \/ Link(p) \/ Absorb(p) \/ DropMark(p)
                                \/ Close(p)
        PROVE  Calm
    BY <1>5, Zenon DEF Lay, List, Created, Open, Enter, MakeStore, Link, Absorb, DropMark, Close,
                disk
  <1>6. ASSUME NEW p \in Procs, \/ Fail(p) \/ Interrupt(p) \/ Kill(p) \/ UndoMark(p)
                                \/ UndoAbsorb(p) \/ UndoLink(p) \/ UndoStore(p)
                                \/ UndoFails(p) \/ Undone(p)
        PROVE  Calm
    BY <1>6, Zenon DEF Fail, Interrupt, Kill, UndoMark, UndoAbsorb, UndoLink, UndoStore,
                UndoFails, Undone, disk
  <1>7. ASSUME NEW p \in Procs, RemoveStore(p) \/ Unlink(p) \/ RemoveTree(p) \/ Unlist(p)
        PROVE  Calm
    BY <1>7, Zenon DEF RemoveStore, Unlink, RemoveTree, Unlist, disk
  <1>8. ASSUME NEW r \in Roots, \/ Import(r) \/ \E n \in Names : Resolve(r, n) \/ ResolveKilled(r, n)
        PROVE  Calm
    BY <1>8, Zenon DEF Import, Resolve, ResolveKilled, disk
  <1>9. ASSUME NEW d \in Dirs, Register(d) PROVE Calm
    BY <1>9 DEF Register, disk
  <1> HIDE DEF Calm
  <1>10. Calm \/ \E p \in Procs : \/ WriteRow(p) \/ UndoRow(p)
                                  \/ Unmake(p) \/ DropRow(p) \/ RemoveRoot(p)
    BY <1>1, <1>2, <1>3, <1>4, <1>5, <1>6, <1>7, <1>8, <1>9, Zenon DEF Next
  <1>11. QED
    BY <1>10 DEF Calm

\* Whatever overlaps, fails, is undone or is killed, no workset ever lists one
\* directory under two names (register_workset_box: one box per workspace path).
THEOREM OneNameInAnyOverlap == Spec => []OneNamePerDir
  <1>1. Init => OneNamePerDir
    BY DEF Init, OneNamePerDir
  <1>2. TypeOK /\ TypeOK' /\ OneNamePerDir /\ [Next]_vars => OneNamePerDir'
    <2> SUFFICES ASSUME TypeOK, TypeOK', OneNamePerDir, [Next]_vars PROVE OneNamePerDir'
      OBVIOUS
    <2>1. CASE UNCHANGED rows
      BY <2>1 DEF OneNamePerDir
    <2>2. CASE \E p \in Procs : WriteRow(p) \/ UndoRow(p)
      BY <2>2, WrittenRowStaysOne
    <2>3. CASE \E p \in Procs : Unmake(p) \/ DropRow(p) \/ RemoveRoot(p)
      BY <2>3, DroppingStepStaysOne
    <2>4. UNCHANGED vars => UNCHANGED rows
      BY DEF vars, disk
    <2>5. QED
      BY <2>1, <2>2, <2>3, <2>4, OtherStepsKeepRows
  <1>3. QED
    BY <1>1, <1>2, TypeCorrect, PTL DEF Spec

-----------------------------------------------------------------------------
(* Marks: the invariant. *)

Early == {"checked", "opened", "entered", "stored", "linked", "absorbed"}
Begun == {"entered", "stored", "linked", "absorbed", "rowed"}
Busy(p) == proc[p].pc # "idle"

\* What was a box and is d still is one, without the rows of M.
Safe(d, M) == d \in marked \cup lapse \/ \E m \in Members \ M : rows[m] = d

\* A create and a rm work on a workset, on none of its members.
WholeWorkset(c) == c.pc \in Creating \cup Removing => c.name = None /\ c.dir = None

\* No workset is made over rows.
FreshRows(c) == c.pc \in Creating => \A k \in Names : rows[<<c.at, k>>] = None

\* The row of a connect: none before the write, its directory's after it, none again
\* when the connect failed by itself.
RowOfStep(c) ==
  /\ c.prior = None
  /\ c.pc \in Early \/ (c.pc = "undoing" /\ c.how # "interrupt") => rows[<<c.at, c.name>>] = None
  /\ c.pc \in {"rowed", "dropped"} => rows[<<c.at, c.name>>] = c.dir

EntryOfStep(c) == c.pc \in Connecting \ {"checked"} => <<c.at, c.name>> \in entry

\* The mark of a connect: none that it did not see, none it did not report in the end.
MarkOfStep(c) ==
  /\ c.pc \in Begun /\ ~c.mark => c.dir \notin marked
  /\ c.pc = "dropped" => c.dir \notin marked \ lapse

\* What the undo of the row may rely on, and what the undo of the mark may.
Undoable(c) == c.pc \in Connecting =>
  /\ "mark" \notin c.made /\ c.dir \in Boxed => Safe(c.dir, {<<c.at, c.name>>})
  /\ "mark" \in c.made => \A k \in Members \ {<<c.at, c.name>>} :
                            rows[k] = c.dir => k \in entry \/ c.dir \in lapse

Keeps(p) ==
  /\ WholeWorkset(proc[p]) /\ FreshRows(proc[p]) /\ RowOfStep(proc[p])
  /\ EntryOfStep(proc[p]) /\ MarkOfStep(proc[p]) /\ Undoable(proc[p])

AllApart == \A p \in Procs : Busy(p) => Apart({p}, proc[p].at, proc[p].name, proc[p].dir)
AllKeep == \A p \in Procs : Keeps(p)
NoRowsWithoutRoot == \A r \in Roots : root[r] = "none" => \A k \in Names : rows[<<r, k>>] = None
BoxesSafe == \A d \in Boxed : Safe(d, {})

MarkInv == AllApart /\ AllKeep /\ NoRowsWithoutRoot /\ BoxesSafe /\ MarkIsPending
Typed == StoresOK /\ CommandsOK

-----------------------------------------------------------------------------
(* What a step may do to the disk, when it works on member n of workset r and *)
(* on directory d; n is None when it works on every member of r.              *)

OnRows(r, n, d) == \A m \in Members :
  /\ m[1] # r \/ n \notin {m[2], None} => rows'[m] = rows[m]
  /\ rows'[m] \in {rows[m], None} \/ (m = <<r, n>> /\ rows'[m] = d /\ m \in entry')
  /\ rows[m] \notin {rows'[m], None} =>
       \/ rows[m] \in marked' \cup lapse'
       \/ rows[m] = d /\ (d \in Boxed => \E k \in Members : rows'[k] = d)

OnEntries(r, n, d) == \A m \in Members : m \in entry \ entry' =>
  /\ m[1] = r /\ n \in {m[2], None}
  /\ rows'[m] \notin marked' \ lapse'
  /\ n = None \/ rows[m] \in {None, d}

OnMarks(r, n, d) ==
  /\ \A x \in marked' \ marked :
       x = d /\ \A m \in Members : rows'[m] = d => m \in entry' \/ d \in lapse'
  /\ \A x \in marked \ marked' :
       /\ x = d \/ (n = None /\ r \in Roots /\ \E k \in Names : rows[<<r, k>>] = x)
       /\ \E m \in Members : rows'[m] = x

Effects(r, n, d) ==
  /\ lapse \subseteq lapse'
  /\ OnRows(r, n, d) /\ OnEntries(r, n, d) /\ OnMarks(r, n, d)
  /\ NoRowsWithoutRoot'

LEMMA OthersKeep ==
  ASSUME ~Overlap, Typed, NEW me \in SUBSET Procs, NEW r, NEW n, NEW d,
         Apart(me, r, n, d), Effects(r, n, d),
         NEW q \in Procs \ me, proc'[q] = proc[q], Keeps(q)
  PROVE  Keeps(q)'
  <1> DEFINE c == proc[q]
             m == <<c.at, c.name>>
  <1>1. CASE c.pc = "idle"
    BY <1>1 DEF Keeps, WholeWorkset, FreshRows, RowOfStep, EntryOfStep, MarkOfStep, Undoable,
       Early, Begun, Connecting, Creating, Removing
  <1>2. CASE c.pc # "idle"
    <2>1. /\ c.at = r => None \notin {n, c.name} /\ c.name # n
          /\ d # None => c.dir # d
          /\ n = None /\ r # None /\ c.dir # None => \A k \in Names : rows[<<r, k>>] # c.dir
      BY <1>2 DEF Apart
    <2>2. Sound(c) /\ c.at \in Roots /\ (c.pc \in Connecting => c.name \in Names /\ c.dir \in Dirs)
      BY <1>2 DEF Typed, CommandsOK, Sound
    <2>3. WholeWorkset(c)' /\ FreshRows(c)'
      BY <2>1, <2>2 DEF Keeps, WholeWorkset, FreshRows, Effects, OnRows, Members
    <2>4. RowOfStep(c)' /\ EntryOfStep(c)'
      BY <2>1, <2>2 DEF Keeps, RowOfStep, EntryOfStep, Effects, OnRows, OnEntries, Members,
         Early, Connecting
    <2>5. MarkOfStep(c)'
      BY <2>1, <2>2, NoneAssumption DEF Keeps, MarkOfStep, Effects, OnMarks, Begun, Connecting
    <2>6. Undoable(c)'
      <3> SUFFICES ASSUME c.pc \in Connecting
                   PROVE  Undoable(c)'
        BY DEF Undoable
      <3>1. m \in Members /\ c.dir \in Dirs /\ c.dir # None /\ c.dir # d
        BY <2>1, <2>2, NoneAssumption DEF Members
      <3>2. ASSUME "mark" \notin c.made, c.dir \in Boxed
            PROVE  Safe(c.dir, {m})'
        <4>1. Safe(c.dir, {m})
          BY <3>2 DEF Keeps, Undoable
        <4>2. c.dir \in marked => c.dir \in marked'
          BY <2>1, <3>1, NoneAssumption DEF Effects, OnMarks
        <4>3. ASSUME NEW k \in Members \ {m}, rows[k] = c.dir
              PROVE  rows'[k] = c.dir \/ c.dir \in marked' \cup lapse'
          BY <3>1, <4>3 DEF Effects, OnRows
        <4>4. QED
          BY <4>1, <4>2, <4>3 DEF Safe, Effects
      <3>3. ASSUME "mark" \in c.made, NEW k \in Members \ {m}, rows'[k] = c.dir
            PROVE  k \in entry' \/ c.dir \in lapse'
        <4>1. rows[k] = c.dir
          BY <3>1, <3>3 DEF Effects, OnRows
        <4>2. k \in entry \/ c.dir \in lapse
          BY <3>3, <4>1 DEF Keeps, Undoable
        <4>3. k = <<k[1], k[2]>> /\ k[1] \in Roots /\ k[2] \in Names
          BY DEF Members
        <4>4. k \in entry => k \in entry'
          BY <2>1, <3>1, <4>1, <4>3, NoneAssumption DEF Effects, OnEntries
        <4>5. QED
          BY <4>2, <4>4 DEF Effects
      <3>4. QED
        BY <3>2, <3>3 DEF Undoable
    <2>7. QED
      BY <2>3, <2>4, <2>5, <2>6 DEF Keeps
  <1>3. QED
    BY <1>1, <1>2
LEMMA StayApart ==
  ASSUME ~Overlap, Typed, AllApart, NEW me \in SUBSET Procs, NEW r, NEW n, NEW d,
         \A x, y \in me : x = y, Apart(me, r, n, d), OnRows(r, n, d),
         \A q \in Procs \ me : proc'[q] = proc[q],
         \A p \in me : Busy(p)' =>
           proc'[p].at = r /\ proc'[p].name = n /\ proc'[p].dir = d,
         CommandsOK'
  PROVE  AllApart'
  <1> SUFFICES ASSUME NEW p \in Procs, NEW q \in Procs, p # q, Busy(p)', Busy(q)'
               PROVE  LET b == proc'[p] c == proc'[q] IN
                      /\ c.at = b.at => None \notin {b.name, c.name} /\ c.name # b.name
                      /\ b.dir # None =>
                           /\ c.dir # b.dir
                           /\ c.name = None => \A k \in Names : rows'[<<c.at, k>>] # b.dir
                      /\ b.name = None /\ b.at # None /\ c.dir # None =>
                           \A k \in Names : rows'[<<b.at, k>>] # c.dir
    BY DEF AllApart, Apart, Busy
  <1> DEFINE b == proc'[p]
             c == proc'[q]
  <1>1. b.at \in Roots /\ c.at \in Roots /\ b.at # None /\ c.at # None
    BY NoneAssumption DEF CommandsOK, Sound, Busy
  <1>2. /\ c.at = b.at => None \notin {b.name, c.name} /\ c.name # b.name
        /\ b.dir # None =>
             /\ c.dir # b.dir
             /\ c.name = None => \A k \in Names : rows[<<c.at, k>>] # b.dir
        /\ b.name = None /\ c.dir # None => \A k \in Names : rows[<<b.at, k>>] # c.dir
    <2>1. CASE p \in me
      <3>1. q \notin me /\ proc[q] = c /\ b.at = r /\ b.name = n /\ b.dir = d
        BY <2>1
      <3>2. QED
        BY <1>1, <3>1 DEF Apart, Busy
    <2>2. CASE q \in me
      <3>1. p \notin me /\ proc[p] = b /\ c.at = r /\ c.name = n /\ c.dir = d
        BY <2>2
      <3>2. QED
        BY <1>1, <3>1 DEF Apart, Busy
    <2>3. CASE p \notin me /\ q \notin me
      BY <1>1, <2>3 DEF AllApart, Apart, Busy
    <2>4. QED
      BY <2>1, <2>2, <2>3
  <1>3. ASSUME NEW z \in Roots, NEW k \in Names, NEW x, x # None, rows'[<<z, k>>] = x
        PROVE  rows[<<z, k>>] = x \/ (z = r /\ k = n /\ x = d)
    BY <1>3 DEF OnRows, Members
  <1>4. ASSUME b.dir # None, c.name = None, NEW k \in Names, rows'[<<c.at, k>>] = b.dir
        PROVE  FALSE
    <2>1. c.at = r /\ k = n /\ b.dir = d
      BY <1>1, <1>2, <1>3, <1>4
    <2>2. n # None /\ q \notin me
      BY <1>4, <2>1, NoneAssumption
    <2>3. QED
      BY <1>4, <2>1, <2>2 DEF Apart, Busy
  <1>5. ASSUME b.name = None, c.dir # None, NEW k \in Names, rows'[<<b.at, k>>] = c.dir
        PROVE  FALSE
    <2>1. b.at = r /\ k = n /\ c.dir = d
      BY <1>1, <1>2, <1>3, <1>5
    <2>2. n # None /\ p \notin me
      BY <1>5, <2>1, NoneAssumption
    <2>3. QED
      BY <1>5, <2>1, <2>2 DEF Apart, Busy
  <1>6. QED
    BY <1>1, <1>2, <1>4, <1>5

LEMMA BoxesStaySafe ==
  ASSUME BoxesSafe, NEW r, NEW n, NEW d, Effects(r, n, d)
  PROVE  BoxesSafe'
  <1> SUFFICES ASSUME NEW x \in Boxed
               PROVE  x \in marked' \cup lapse' \/ \E m \in Members : rows'[m] = x
    BY DEF BoxesSafe, Safe
  <1>1. CASE x \in lapse
    BY <1>1 DEF Effects
  <1>2. CASE x \in marked
    BY <1>2 DEF Effects, OnMarks
  <1>3. CASE \E m \in Members : rows[m] = x
    BY <1>3, BoxedAssumption, NoneAssumption DEF Effects, OnRows
  <1>4. QED
    BY <1>1, <1>2, <1>3 DEF BoxesSafe, Safe

LEMMA MarksStayPending ==
  ASSUME StoresOK', MarkIsPending, NEW r, NEW n, NEW d, Effects(r, n, d)
  PROVE  MarkIsPending'
  <1> SUFFICES ASSUME NEW m \in Members, rows'[m] \in marked' \ lapse'
               PROVE  m \in entry'
    BY DEF MarkIsPending
  <1>1. rows'[m] # None
    BY NoneAssumption DEF StoresOK
  <1>2. CASE rows'[m] \notin marked
    BY <1>2 DEF Effects, OnMarks
  <1>3. CASE rows'[m] \in marked /\ rows'[m] = rows[m]
    <2>1. m \in entry
      BY <1>3 DEF MarkIsPending, Effects
    <2>2. QED
      BY <2>1 DEF Effects, OnEntries
  <1>4. CASE rows'[m] # rows[m]
    BY <1>1, <1>4 DEF Effects, OnRows
  <1>5. QED
    BY <1>2, <1>3, <1>4

\* Every step has such effects: what it keeps.
LEMMA StepsKeep ==
  ASSUME ~Overlap, Typed, Typed', MarkInv, NEW me \in SUBSET Procs, NEW r, NEW n, NEW d,
         \A x, y \in me : x = y, Apart(me, r, n, d), Effects(r, n, d),
         \A q \in Procs \ me : proc'[q] = proc[q],
         \A p \in me : Busy(p)' =>
           proc'[p].at = r /\ proc'[p].name = n /\ proc'[p].dir = d,
         \A p \in me : Keeps(p)'
  PROVE  MarkInv'
  <1>1. AllApart'
    BY StayApart DEF MarkInv, Effects, Typed
  <1>2. AllKeep'
    <2> SUFFICES ASSUME NEW q \in Procs \ me PROVE Keeps(q)'
      BY DEF AllKeep
    <2>1. Keeps(q)
      BY DEF MarkInv, AllKeep
    <2>2. QED
      BY <2>1, OthersKeep
  <1>3. BoxesSafe' /\ MarkIsPending' /\ NoRowsWithoutRoot'
    BY BoxesStaySafe, MarksStayPending DEF MarkInv, Effects, Typed
  <1>4. QED
    BY <1>1, <1>2, <1>3 DEF MarkInv

\* A command at work, of which it is left to say what it does and what it keeps.
LEMMA WorksKeep ==
  ASSUME ~Overlap, Typed, Typed', MarkInv, NEW p \in Procs, Busy(p),
         \A q \in Procs \ {p} : proc'[q] = proc[q],
         Busy(p)' => /\ proc'[p].at = proc[p].at
                     /\ proc'[p].name = proc[p].name
                     /\ proc'[p].dir = proc[p].dir,
         Effects(proc[p].at, proc[p].name, proc[p].dir), Keeps(p)'
  PROVE  MarkInv'
  <1> DEFINE me == {p}
  <1>1. Apart(me, proc[p].at, proc[p].name, proc[p].dir)
    BY DEF MarkInv, AllApart
  <1>2. me \in SUBSET Procs /\ \A x, y \in me : x = y
    OBVIOUS
  <1>3. \A q \in me : Keeps(q)'
    OBVIOUS
  <1>4. \A q \in me : Busy(q)' => /\ proc'[q].at = proc[p].at
                                 /\ proc'[q].name = proc[p].name
                                 /\ proc'[q].dir = proc[p].dir
    OBVIOUS
  <1>5. \A q \in Procs \ me : proc'[q] = proc[q]
    OBVIOUS
  <1> HIDE DEF me
  <1>6. QED
    BY <1>1, <1>2, <1>3, <1>4, <1>5, StepsKeep
-----------------------------------------------------------------------------
(* The steps that leave the rows and the marks alone.                         *)

Calm ==
  /\ rows' = rows /\ marked' = marked
  /\ entry \subseteq entry' /\ lapse \subseteq lapse'
  /\ \A z \in Roots : root'[z] = "none" => root[z] = "none"

LEMMA CalmEffects ==
  ASSUME Typed, MarkInv, Calm, NEW r, NEW n, NEW d
  PROVE  Effects(r, n, d)
  BY DEF Calm, Typed, MarkInv, NoRowsWithoutRoot, Effects, OnRows, OnEntries, OnMarks, StoresOK

\* A command goes from step to step without learning of a row or a mark.
Goes(c, e) ==
  /\ e.at = c.at /\ e.name = c.name /\ e.dir = c.dir /\ e.prior = c.prior
  /\ e.mark = c.mark /\ ("mark" \in e.made <=> "mark" \in c.made)
  /\ e.pc \in Creating => c.pc \in Creating
  /\ e.pc \in Creating \cup Removing => c.pc \in Creating \cup Removing
  /\ e.pc \in {"rowed", "dropped"} => c.pc \in {"rowed", "dropped"}
  /\ e.pc \in Connecting => c.pc \in Connecting
  /\ e.pc \in Connecting \ {"checked"} => c.pc \in Connecting \ {"checked"}
  /\ e.pc \in Begun => c.pc \in Begun
  /\ e.pc = "dropped" => c.pc = "dropped"
  /\ e.pc \in Early \/ (e.pc = "undoing" /\ e.how # "interrupt") =>
       c.pc \in Early \/ (c.pc = "undoing" /\ c.how # "interrupt")

LEMMA CalmKeeps ==
  ASSUME Calm, NEW p \in Procs, Keeps(p), Goes(proc[p], proc'[p])
  PROVE  Keeps(p)'
  <1> DEFINE c == proc[p]
  <1>1. WholeWorkset(c)' /\ FreshRows(c)'
    BY DEF Goes, Calm, Keeps, WholeWorkset, FreshRows
  <1>2. RowOfStep(c)' /\ EntryOfStep(c)' /\ MarkOfStep(c)'
    BY DEF Goes, Calm, Keeps, RowOfStep, EntryOfStep, MarkOfStep
  <1>3. Undoable(c)'
    <2>1. \A d, M : Safe(d, M) => Safe(d, M)'
      BY DEF Calm, Safe
    <2>2. QED
      BY <2>1 DEF Goes, Calm, Keeps, Undoable
  <1>4. QED
    BY <1>1, <1>2, <1>3 DEF Keeps

LEMMA IdleKeeps ==
  ASSUME NEW p \in Procs, proc'[p] = Idle
  PROVE  Keeps(p)'
  <1>1. Idle.pc = "idle" /\ Idle.prior = None
    BY DEF Idle
  <1>2. QED
    BY <1>1 DEF Keeps, WholeWorkset, FreshRows, RowOfStep, EntryOfStep, MarkOfStep, Undoable,
       Early, Begun, Connecting, Creating, Removing

\* A calm step of a command at work.
LEMMA CalmStep ==
  ASSUME ~Overlap, Typed, Typed', MarkInv, Calm, NEW p \in Procs, Busy(p),
         NEW e, proc' = [proc EXCEPT ![p] = e], Goes(proc[p], e)
  PROVE  MarkInv'
  <1>1. proc'[p] = e /\ \A q \in Procs \ {p} : proc'[q] = proc[q]
    BY DEF Typed, CommandsOK
  <1>2. Keeps(p)'
    BY <1>1, CalmKeeps DEF MarkInv, AllKeep
  <1>3. QED
    BY <1>1, <1>2, CalmEffects, WorksKeep DEF Goes

LEMMA CalmEnd ==
  ASSUME ~Overlap, Typed, Typed', MarkInv, Calm, NEW p \in Procs, Busy(p), Ends(p)
  PROVE  MarkInv'
  <1>1. proc'[p] = Idle /\ \A q \in Procs \ {p} : proc'[q] = proc[q]
    BY DEF Ends, Typed, CommandsOK
  <1>2. ~Busy(p)'
    BY <1>1 DEF Busy, Idle
  <1>3. QED
    BY <1>1, <1>2, IdleKeeps, CalmEffects, WorksKeep

\* A calm step that moves on among the steps of its command.
LEMMA CalmGoto ==
  ASSUME ~Overlap, Typed, Typed', MarkInv, Calm, NEW p \in Procs, NEW pc, Goto(p, pc),
         \/ proc[p].pc \in Creating /\ pc \in Creating
         \/ proc[p].pc \in Leaving /\ pc \in Leaving
         \/ proc[p].pc \in Removing /\ pc \in Removing
         \/ proc[p].pc \in {"entered", "stored", "linked", "absorbed"} /\ pc = "undoing"
  PROVE  MarkInv'
  <1> DEFINE c == proc[p]
             e == [c EXCEPT !.pc = pc]
  <1>1. proc' = [proc EXCEPT ![p] = e] /\ Busy(p)
    BY DEF Goto, Busy, Creating, Leaving, Removing
  <1>2. c \in Command
    BY DEF Typed, CommandsOK, Sound
  <1>3. Goes(c, e)
    BY <1>2 DEF Goes, Command, Creating, Leaving, Removing, Connecting, Early, Begun
  <1> HIDE DEF e
  <1>4. QED
    BY <1>1, <1>3, CalmStep

LEMMA CalmDoes ==
  ASSUME ~Overlap, Typed, Typed', MarkInv, Calm, NEW p \in Procs,
         NEW pc \in {"stored", "linked", "absorbed"}, NEW undo, "mark" \notin undo,
         proc[p].pc \in {"entered", "stored", "linked"}, Does(p, undo, pc)
  PROVE  MarkInv'
  <1> DEFINE c == proc[p]
             made == c.made \cup undo
             cut == [c EXCEPT !.pc = "undoing", !.how = "interrupt"]
             done == [c EXCEPT !.pc = pc, !.made = made]
  <1>1. proc' = [proc EXCEPT ![p] = cut] \/ proc' = [proc EXCEPT ![p] = done]
    BY DEF Does
  <1>2. c \in Command /\ ("mark" \in made <=> "mark" \in c.made)
    BY DEF Typed, CommandsOK, Sound
  <1>3. Goes(c, cut) /\ Busy(p)
    BY <1>2 DEF Goes, Busy, Command, Creating, Removing, Connecting, Early, Begun
  <1> HIDE DEF made
  <1>4. Goes(c, done)
    BY <1>2 DEF Goes, Command, Creating, Removing, Connecting, Early, Begun
  <1> HIDE DEF cut, done
  <1>5. QED
    BY <1>1, <1>3, <1>4, CalmStep

LEMMA CalmUndid ==
  ASSUME ~Overlap, Typed, Typed', MarkInv, Calm, NEW p \in Procs, At(p, "undoing"),
         NEW undo, undo # "mark", Undid(p, undo)
  PROVE  MarkInv'
  <1> DEFINE c == proc[p]
             made == c.made \ {undo}
             e == [c EXCEPT !.made = made]
  <1>1. proc' = [proc EXCEPT ![p] = e] /\ Busy(p)
    BY DEF Undid, At, Busy
  <1>2. c \in Command /\ ("mark" \in made <=> "mark" \in c.made)
    BY DEF Typed, CommandsOK, Sound
  <1> HIDE DEF made
  <1>3. Goes(c, e)
    BY <1>2 DEF Goes, Command
  <1> HIDE DEF e
  <1>4. QED
    BY <1>1, <1>3, CalmStep

LEMMA InterruptKeeps ==
  ASSUME ~Overlap, Typed, Typed', MarkInv, NEW p \in Procs, Interrupt(p)
  PROVE  MarkInv'
  <1> DEFINE c == proc[p]
             e == [c EXCEPT !.pc = "undoing", !.how = "interrupt"]
  <1>1. proc' = [proc EXCEPT ![p] = e] /\ Busy(p)
    BY DEF Interrupt, Busy, Connecting
  <1>2. c \in Command /\ c.pc \in Connecting \ {"checked"}
    BY DEF Typed, CommandsOK, Sound, Interrupt
  <1>3. Goes(c, e)
    BY <1>2 DEF Goes, Command, Creating, Removing, Connecting, Early, Begun
  <1>4. Calm
    BY DEF Calm, Interrupt, disk, registries
  <1> HIDE DEF e
  <1>5. QED
    BY <1>1, <1>3, <1>4, CalmStep

\* Everything that is calm, leaves its command among the same steps, or ends it.
LEMMA CalmStepsKeep ==
  ASSUME ~Overlap, Typed, Typed', MarkInv, NEW p \in Procs,
         \/ Lay(p) \/ List(p) \/ Created(p) \/ MakeStore(p) \/ Link(p) \/ Absorb(p)
         \/ Fail(p) \/ Interrupt(p) \/ Kill(p) \/ UndoAbsorb(p) \/ UndoLink(p) \/ UndoStore(p)
         \/ RemoveStore(p) \/ Unlink(p) \/ RemoveTree(p) \/ Unlist(p)
  PROVE  MarkInv'
  <1> USE DEF disk, registries
  <1>1. CASE Lay(p) \/ List(p)
    <2>1. Calm
      BY <1>1 DEF Calm, Lay, List, Typed, StoresOK
    <2>2. QED
      BY <1>1, <2>1, CalmGoto DEF Lay, List, At, Creating
  <1>2. CASE Created(p) \/ Kill(p)
    <2>1. Calm
      BY <1>2 DEF Calm, Created, Kill
    <2>2. QED
      BY <1>2, <2>1, CalmEnd DEF Created, Kill, At, Busy
  <1>3. CASE MakeStore(p)
    <2>1. Calm
      BY <1>3 DEF Calm, MakeStore, Typed, StoresOK
    <2>2. QED
      BY <1>3, <2>1, CalmDoes DEF MakeStore, At
  <1>4. CASE Link(p)
    <2>1. Calm
      BY <1>4 DEF Calm, Link
    <2>2. QED
      BY <1>4, <2>1, CalmDoes DEF Link, At
  <1>5. CASE Absorb(p)
    <2>1. Calm
      BY <1>5 DEF Calm, Absorb
    <2>2. QED
      BY <1>5, <2>1, CalmDoes DEF Absorb, At
  <1>6. CASE Fail(p)
    <2>1. Calm
      BY <1>6 DEF Calm, Fail
    <2>2. QED
      BY <1>6, <2>1, CalmGoto DEF Fail
  <1>7. CASE Interrupt(p)
    BY <1>7, InterruptKeeps
  <1>8. CASE UndoAbsorb(p)
    <2>1. Calm
      BY <1>8 DEF Calm, UndoAbsorb, Undid
    <2>2. QED
      BY <1>8, <2>1, CalmUndid DEF UndoAbsorb, Undoes
  <1>9. CASE UndoLink(p)
    <2>1. Calm
      BY <1>9 DEF Calm, UndoLink, Undid
    <2>2. QED
      BY <1>9, <2>1, CalmUndid DEF UndoLink, Undoes
  <1>10. CASE UndoStore(p)
    <2>1. Calm
      BY <1>10 DEF Calm, UndoStore, Undid
    <2>2. QED
      BY <1>10, <2>1, CalmUndid DEF UndoStore, Undoes
  <1>11. CASE RemoveStore(p) \/ Unlink(p)
    <2>1. Calm
      BY <1>11 DEF Calm, RemoveStore, Unlink
    <2>2. QED
      BY <1>11, <2>1, CalmGoto DEF RemoveStore, Unlink, At, Leaving
  <1>12. CASE RemoveTree(p)
    <2>1. Calm
      BY <1>12 DEF Calm, RemoveTree
    <2>2. proc' = [proc EXCEPT ![p] = proc[p]] /\ Busy(p) /\ Goes(proc[p], proc[p])
      BY <1>12 DEF RemoveTree, At, Busy, Goes, Typed, CommandsOK
    <2>3. QED
      BY <2>1, <2>2, CalmStep
  <1>13. CASE Unlist(p)
    <2>1. Calm
      BY <1>13 DEF Calm, Unlist
    <2>2. Goto(p, "unlisted") \/ Ends(p)
      BY <1>13 DEF Unlist
    <2>3. QED
      BY <1>13, <2>1, <2>2, CalmGoto, CalmEnd DEF Unlist, At, Busy, Removing
  <1>14. QED
    BY <1>1, <1>2, <1>3, <1>4, <1>5, <1>6, <1>7, <1>8, <1>9, <1>10, <1>11, <1>12, <1>13
-----------------------------------------------------------------------------
(* The repair, and the commands that begin or that nobody waits for.          *)

LEMMA RepairsEffects ==
  ASSUME Typed, MarkInv, NEW r \in Roots, NEW n, NEW d, NEW S \in SUBSET Members,
         \A m \in S : m[1] = r /\ n \in {m[2], None} /\ (n = None \/ rows[m] = d),
         Repairs(S), UNCHANGED <<root, rows>>
  PROVE  Effects(r, n, d)
  <1> DEFINE pending == S \cap entry
             holding == {rows[m] : m \in pending}
  <1>1. PICK kept \in SUBSET (holding \cap marked) :
          /\ marked' = marked \ (holding \ kept)
          /\ entry' = entry \ pending
          /\ lapse' = lapse \cup kept
    BY DEF Repairs, Notes
  <1>2. \A x \in holding : \E m \in S : m \in Members /\ m \in pending /\ rows[m] = x
    OBVIOUS
  <1>3. \A m \in Members : m[1] \in Roots /\ m[2] \in Names /\ m = <<m[1], m[2]>>
    BY DEF Members
  <1>4. OnRows(r, n, d)
    BY DEF OnRows
  <1>5. OnEntries(r, n, d)
    BY <1>1 DEF OnEntries
  <1>6. OnMarks(r, n, d)
    <2>1. marked' \subseteq marked
      BY <1>1
    <2>2. ASSUME NEW x \in marked \ marked'
          PROVE  /\ x = d \/ (n = None /\ r \in Roots /\ \E k \in Names : rows[<<r, k>>] = x)
                 /\ \E m \in Members : rows'[m] = x
      <3>1. PICK m \in S : m \in Members /\ rows[m] = x
        BY <1>1, <1>2
      <3>2. QED
        BY <1>3, <3>1
    <2>3. QED
      BY <2>1, <2>2 DEF OnMarks
  <1>7. NoRowsWithoutRoot'
    BY DEF MarkInv, NoRowsWithoutRoot
  <1>8. QED
    BY <1>1, <1>4, <1>5, <1>6, <1>7 DEF Effects

\* A command that begins.
LEMMA BeginsKeep ==
  ASSUME ~Overlap, Typed, Typed', MarkInv, NEW p \in Procs, NEW e,
         proc' = [proc EXCEPT ![p] = e],
         Apart({p}, e.at, e.name, e.dir), Effects(e.at, e.name, e.dir), Keeps(p)'
  PROVE  MarkInv'
  <1> DEFINE me == {p}
  <1>1. proc'[p] = e /\ \A q \in Procs \ me : proc'[q] = proc[q]
    BY DEF Typed, CommandsOK
  <1>2. me \in SUBSET Procs /\ \A x, y \in me : x = y
    OBVIOUS
  <1>3. \A q \in me : Keeps(q)'
    OBVIOUS
  <1>4. \A q \in me : proc'[q].at = e.at /\ proc'[q].name = e.name /\ proc'[q].dir = e.dir
    BY <1>1
  <1> HIDE DEF me
  <1>5. QED
    BY <1>1, <1>2, <1>3, <1>4, StepsKeep DEF me

LEMMA CreateKeeps ==
  ASSUME ~Overlap, Typed, Typed', MarkInv, NEW p \in Procs, NEW r \in Roots, Create(p, r)
  PROVE  MarkInv'
  <1> DEFINE e == [Idle EXCEPT !.pc = "making", !.at = r]
  <1>1. /\ e.pc = "making" /\ e.at = r /\ e.name = None /\ e.dir = None
        /\ e.prior = None
    BY DEF Idle
  <1>2. proc' = [proc EXCEPT ![p] = e] /\ Apart({p}, e.at, e.name, e.dir)
    BY DEF Create, Starts
  <1>3. rows' = rows /\ \A k \in Names : rows[<<r, k>>] = None
    BY DEF Create, MarkInv, NoRowsWithoutRoot
  <1>4. Calm
    BY DEF Calm, Create, Starts, registries, Typed, StoresOK
  <1>5. Effects(e.at, e.name, e.dir)
    BY <1>4, CalmEffects
  <1> HIDE DEF e
  <1>6. Keeps(p)'
    <2>1. proc'[p] = e
      BY <1>2 DEF Typed, CommandsOK
    <2>2. QED
      BY <1>1, <1>3, <2>1 DEF Keeps, WholeWorkset, FreshRows, RowOfStep, EntryOfStep, MarkOfStep,
         Undoable, Early, Begun, Connecting
  <1>7. QED
    BY <1>2, <1>5, <1>6, BeginsKeep

LEMMA ConnectKeeps ==
  ASSUME ~Overlap, Typed, Typed', MarkInv, NEW p \in Procs, NEW r \in Roots, NEW n \in Names,
         NEW d \in Dirs, NEW force \in BOOLEAN, Connect(p, r, n, d, force)
  PROVE  MarkInv'
  <1> DEFINE f == Facts(<<r, n>>, d)
             e == [Idle EXCEPT !.pc = "checked", !.at = r, !.name = n, !.dir = d,
                               !.flag = force, !.was = {f}]
  <1>1. proc' = [proc EXCEPT ![p] = e] /\ Apart({p}, e.at, e.name, e.dir)
    BY DEF Connect, Starts
  <1> HIDE DEF f
  <1>2. /\ e.pc = "checked" /\ e.at = r /\ e.name = n /\ e.dir = d
        /\ e.prior = None /\ e.made = {}
    BY DEF Idle
  <1>3. Calm /\ rows[<<r, n>>] = None
    BY DEF Calm, Connect, Starts, disk, registries
  <1>4. Effects(e.at, e.name, e.dir)
    BY <1>3, CalmEffects
  <1> HIDE DEF e
  <1>5. Keeps(p)'
    <2>1. proc'[p] = e
      BY <1>1 DEF Typed, CommandsOK
    <2>2. d \in Boxed => Safe(d, {<<r, n>>})'
      BY <1>3, NoneAssumption DEF MarkInv, BoxesSafe, Safe, Calm
    <2>3. Undoable(proc[p])'
      BY <1>2, <2>1, <2>2 DEF Undoable
    <2>4. QED
      BY <1>2, <1>3, <2>1, <2>3 DEF Keeps, WholeWorkset, FreshRows, RowOfStep, EntryOfStep,
         MarkOfStep, Calm, Early, Begun, Creating, Removing
  <1>6. QED
    BY <1>1, <1>4, <1>5, BeginsKeep

LEMMA DisconnectKeeps ==
  ASSUME ~Overlap, Typed, Typed', MarkInv, NEW p \in Procs, NEW r \in Roots, NEW n \in Names,
         NEW files \in BOOLEAN, Disconnect(p, r, n, files)
  PROVE  MarkInv'
  <1> DEFINE d == rows[<<r, n>>]
             e == [Idle EXCEPT !.pc = "asked", !.at = r, !.name = n, !.dir = d,
                               !.flag = files]
             S == {<<r, n>>}
  <1>1. proc' = [proc EXCEPT ![p] = e] /\ Apart({p}, e.at, e.name, e.dir)
    BY DEF Disconnect
  <1>2. Repairs(S) /\ UNCHANGED <<root, rows>>
    BY DEF Disconnect
  <1>3. S \in SUBSET Members
    BY DEF Members
  <1>4. \A m \in S : m[1] = r /\ n \in {m[2], None} /\ (n = None \/ rows[m] = d)
    OBVIOUS
  <1> HIDE DEF d, S
  <1>5. Effects(r, n, d)
    BY <1>2, <1>3, <1>4, RepairsEffects
  <1>6. /\ e.pc = "asked" /\ e.at = r /\ e.name = n /\ e.dir = d
        /\ e.prior = None
    BY DEF Idle
  <1> HIDE DEF e
  <1>7. Keeps(p)'
    <2>1. proc'[p] = e
      BY <1>1 DEF Typed, CommandsOK
    <2>2. QED
      BY <1>6, <2>1 DEF Keeps, WholeWorkset, FreshRows, RowOfStep, EntryOfStep, MarkOfStep,
         Undoable, Early, Begun, Connecting, Creating, Removing
  <1>8. QED
    BY <1>1, <1>5, <1>6, <1>7, BeginsKeep

LEMMA RemoveKeeps ==
  ASSUME ~Overlap, Typed, Typed', MarkInv, NEW p \in Procs, NEW r \in Roots,
         NEW purge \in BOOLEAN, Remove(p, r, purge)
  PROVE  MarkInv'
  <1> DEFINE e == [Idle EXCEPT !.pc = "agreed", !.at = r, !.flag = purge]
             S == {m \in Members : m[1] = r /\ rows[m] # None}
  <1>1. /\ e.pc = "agreed" /\ e.at = r /\ e.name = None /\ e.dir = None
        /\ e.prior = None
    BY DEF Idle
  <1>2. proc' = [proc EXCEPT ![p] = e] /\ Apart({p}, e.at, e.name, e.dir)
    BY <1>1 DEF Remove
  <1>3. Repairs(S) /\ UNCHANGED <<root, rows>>
    BY DEF Remove
  <1>4. S \in SUBSET Members /\ \A m \in S : m[1] = r
    OBVIOUS
  <1> HIDE DEF S
  <1>5. Effects(r, None, None)
    BY <1>3, <1>4, RepairsEffects
  <1> HIDE DEF e
  <1>6. Keeps(p)'
    <2>1. proc'[p] = e
      BY <1>2 DEF Typed, CommandsOK
    <2>2. QED
      BY <1>1, <2>1 DEF Keeps, WholeWorkset, FreshRows, RowOfStep, EntryOfStep, MarkOfStep,
         Undoable, Early, Begun, Connecting, Creating, Removing
  <1>7. QED
    BY <1>1, <1>2, <1>5, <1>6, BeginsKeep

\* What no command of the model does: a repair, an import, a registration.
LEMMA OthersKeepAll ==
  ASSUME ~Overlap, Typed, Typed', MarkInv, proc' = proc, NEW r, NEW n, NEW d,
         Apart({}, r, n, d), Effects(r, n, d)
  PROVE  MarkInv'
  <1> DEFINE me == {}
  <1>1. me \in SUBSET Procs /\ Apart(me, r, n, d)
    OBVIOUS
  <1>2. \A p \in me : FALSE
    OBVIOUS
  <1> HIDE DEF me
  <1>3. QED
    BY <1>1, <1>2, StepsKeep

LEMMA OutsideKeeps ==
  ASSUME ~Overlap, Typed, Typed', MarkInv,
         \/ \E r \in Roots : Import(r) \/ \E n \in Names : Resolve(r, n) \/ ResolveKilled(r, n)
         \/ \E d \in Dirs : Register(d)
  PROVE  MarkInv'
  <1>1. ASSUME NEW r \in Roots, Import(r) PROVE MarkInv'
    <2>1. Calm /\ Apart({}, r, None, None) /\ proc' = proc
      BY <1>1 DEF Calm, Import, disk
    <2>2. QED
      BY <2>1, CalmEffects, OthersKeepAll
  <1>2. ASSUME NEW d \in Dirs, Register(d) PROVE MarkInv'
    <2>1. Calm /\ Apart({}, None, None, d) /\ proc' = proc
      BY <1>2 DEF Calm, Register, disk
    <2>2. QED
      BY <2>1, CalmEffects, OthersKeepAll
  <1>3. ASSUME NEW r \in Roots, NEW n \in Names, Resolve(r, n) PROVE MarkInv'
    <2> DEFINE d == rows[<<r, n>>]
               S == {<<r, n>>}
    <2>1. Apart({}, r, n, d) /\ proc' = proc /\ Repairs(S) /\ UNCHANGED <<root, rows>>
      BY <1>3 DEF Resolve
    <2>2. S \in SUBSET Members
      BY DEF Members
    <2>3. \A m \in S : m[1] = r /\ n \in {m[2], None} /\ (n = None \/ rows[m] = d)
      OBVIOUS
    <2> HIDE DEF d, S
    <2>4. QED
      BY <2>1, <2>2, <2>3, RepairsEffects, OthersKeepAll
  <1>4. ASSUME NEW r \in Roots, NEW n \in Names, ResolveKilled(r, n) PROVE MarkInv'
    <2> DEFINE d == rows[<<r, n>>]
    <2>1. /\ Apart({}, r, n, d) /\ proc' = proc /\ UNCHANGED <<root, rows, entry, lapse>>
          /\ marked' = marked \ {d} /\ <<r, n>> \in Members
      BY <1>4 DEF ResolveKilled, registries, Members
    <2>2. Effects(r, n, d)
      BY <2>1 DEF Effects, OnRows, OnEntries, OnMarks, MarkInv, NoRowsWithoutRoot
    <2>3. QED
      BY <2>1, <2>2, OthersKeepAll
  <1>5. QED
    BY <1>1, <1>2, <1>3, <1>4
-----------------------------------------------------------------------------
(* The steps that learn of, write or take away an entry, a row or a mark.     *)

\* What a command on one member may rely on.
LEMMA AtWork ==
  ASSUME Typed, MarkInv, NEW p \in Procs, proc[p].pc \in Connecting \cup Leaving
  PROVE  /\ proc[p] \in Command /\ Busy(p) /\ Keeps(p)
         /\ proc[p].at \in Roots /\ proc[p].name \in Names /\ proc[p].dir \in Dirs
         /\ Member(p) \in Members /\ Member(p) = <<proc[p].at, proc[p].name>>
         /\ proc[p].dir # None /\ proc[p].name # None
  BY NoneAssumption DEF Typed, CommandsOK, Sound, Busy, MarkInv, AllKeep, Member, Members,
     Connecting, Leaving

LEMMA OpenKeeps ==
  ASSUME ~Overlap, Typed, Typed', MarkInv, NEW p \in Procs, Open(p)
  PROVE  MarkInv'
  <1> DEFINE c == proc[p]
             e == [c EXCEPT !.pc = "opened"]
  <1>1. /\ c \in Command /\ c.pc = "checked" /\ Busy(p) /\ Keeps(p)
        /\ Member(p) = <<c.at, c.name>>
    BY AtWork DEF Open, At, Connecting
  <1>2. proc'[p] = e /\ \A q \in Procs \ {p} : proc'[q] = proc[q]
    BY DEF Open, Goto, Typed, CommandsOK
  <1>3. /\ e.pc = "opened" /\ e.at = c.at /\ e.name = c.name /\ e.dir = c.dir
        /\ e.prior = c.prior /\ e.made = c.made
    BY <1>1 DEF Command
  <1>4. Calm /\ entry' = entry \cup {<<c.at, c.name>>}
    BY <1>1 DEF Calm, Open, disk
  <1> HIDE DEF e
  <1>5. Keeps(p)'
    <2>1. \A d, M : Safe(d, M) => Safe(d, M)'
      BY <1>4 DEF Calm, Safe
    <2>2. Undoable(c)'
      BY <1>1, <1>2, <1>3, <1>4, <2>1 DEF Keeps, Undoable, Calm, Connecting
    <2>3. QED
      BY <1>1, <1>2, <1>3, <1>4, <2>2 DEF Keeps, WholeWorkset, FreshRows, RowOfStep, EntryOfStep,
         MarkOfStep, Calm, Early, Begun, Creating, Removing
  <1>6. QED
    BY <1>1, <1>2, <1>3, <1>4, <1>5, CalmEffects, WorksKeep

LEMMA EnterKeeps ==
  ASSUME ~Overlap, Typed, Typed', MarkInv, NEW p \in Procs, Enter(p)
  PROVE  MarkInv'
  <1> DEFINE c == proc[p]
  <1>1. /\ c \in Command /\ c.pc = "opened" /\ Busy(p) /\ Keeps(p)
    BY AtWork DEF Enter, At, Connecting
  <1>2. Calm
    BY DEF Calm, Enter, disk, registries
  <1>3. CASE proc' = [proc EXCEPT ![p].pc = "undoing", ![p].how = "refused"]
    <2> DEFINE e == [c EXCEPT !.pc = "undoing", !.how = "refused"]
    <2>1. proc' = [proc EXCEPT ![p] = e]
      BY <1>3
    <2>2. Goes(c, e)
      BY <1>1 DEF Goes, Command, Creating, Removing, Connecting, Early, Begun
    <2> HIDE DEF e
    <2>3. QED
      BY <1>1, <1>2, <2>1, <2>2, CalmStep
  <1>4. CASE proc' = [proc EXCEPT ![p].pc = "entered", ![p].mark = c.dir \in marked,
                                  ![p].absorbs = c.dir \in marked \cap alone]
    <2> DEFINE has == c.dir \in marked
               takes == c.dir \in marked \cap alone
               e == [c EXCEPT !.pc = "entered", !.mark = has, !.absorbs = takes]
    <2>1. has \in BOOLEAN /\ takes \in BOOLEAN /\ (has => c.dir \in marked) /\ (~has => c.dir \notin marked)
      OBVIOUS
    <2>2. proc' = [proc EXCEPT ![p].pc = "entered", ![p].mark = has, ![p].absorbs = takes]
      BY <1>4
    <2> HIDE DEF has, takes
    <2>3. proc' = [proc EXCEPT ![p] = e]
      BY <2>2
    <2>4. /\ e.pc = "entered" /\ e.at = c.at /\ e.name = c.name /\ e.dir = c.dir
          /\ e.prior = c.prior /\ e.made = c.made /\ e.mark = has
      BY <1>1 DEF Command
    <2> HIDE DEF e
    <2>5. proc'[p] = e /\ \A q \in Procs \ {p} : proc'[q] = proc[q]
      BY <2>3 DEF Typed, CommandsOK
    <2>6. Keeps(p)'
      <3>1. \A d, M : Safe(d, M) => Safe(d, M)'
        BY <1>2 DEF Calm, Safe
      <3>2. Undoable(c)'
        BY <1>1, <1>2, <2>4, <2>5, <3>1 DEF Keeps, Undoable, Calm, Connecting
      <3>3. MarkOfStep(c)'
        BY <1>2, <2>1, <2>4, <2>5 DEF MarkOfStep, Calm
      <3>4. EntryOfStep(c)' /\ RowOfStep(c)'
        BY <1>1, <1>2, <2>4, <2>5 DEF Keeps, RowOfStep, EntryOfStep, Calm, Early, Connecting
      <3>5. QED
        BY <2>4, <2>5, <3>2, <3>3, <3>4 DEF Keeps, WholeWorkset, FreshRows, Creating, Removing
    <2>7. QED
      BY <1>1, <1>2, <2>4, <2>5, <2>6, CalmEffects, WorksKeep
  <1>5. QED
    BY <1>3, <1>4 DEF Enter

LEMMA WriteRowKeeps ==
  ASSUME ~Overlap, Typed, Typed', MarkInv, NEW p \in Procs, WriteRow(p)
  PROVE  MarkInv'
  <1> DEFINE c == proc[p]
             m == <<c.at, c.name>>
  <1>1. /\ c \in Command /\ c.pc = "absorbed" /\ Busy(p) /\ Keeps(p)
        /\ m \in Members /\ Member(p) = m /\ c.dir # None
        /\ c.name \in Names /\ c.at \in Roots
    BY AtWork DEF WriteRow, At, Connecting
  <1>2. rows[m] = None /\ m \in entry
    BY <1>1 DEF Keeps, RowOfStep, EntryOfStep, Early, Connecting
  <1>3. CASE Registrable(m, c.dir)
    <2> DEFINE made == c.made \cup {"row"}
               e == [c EXCEPT !.pc = "rowed", !.prior = None, !.made = made]
    <2>1. /\ rows' = [rows EXCEPT ![m] = c.dir] /\ UNCHANGED <<marked, entry, lapse>>
          /\ root' = [root EXCEPT ![c.at] = IF @ = "none" THEN "part" ELSE @]
          /\ proc' = [proc EXCEPT ![p] = e]
      BY <1>1, <1>2, <1>3 DEF WriteRow, registries
    <2>2. "mark" \in made <=> "mark" \in c.made
      OBVIOUS
    <2> HIDE DEF made
    <2>3. /\ e.pc = "rowed" /\ e.at = c.at /\ e.name = c.name /\ e.dir = c.dir
          /\ e.prior = None /\ e.made = made /\ e.mark = c.mark
      BY <1>1 DEF Command
    <2> HIDE DEF e
    <2>4. proc'[p] = e /\ \A q \in Procs \ {p} : proc'[q] = proc[q]
      BY <2>1 DEF Typed, CommandsOK
    <2>5. rows'[m] = c.dir /\ \A k \in Members \ {m} : rows'[k] = rows[k]
      BY <1>1, <2>1 DEF Typed, StoresOK
    <2>6. Effects(c.at, c.name, c.dir)
      <3>1. OnRows(c.at, c.name, c.dir)
        BY <1>1, <1>2, <2>1, <2>5 DEF OnRows
      <3>2. NoRowsWithoutRoot'
        BY <1>1, <2>1, <2>5 DEF MarkInv, NoRowsWithoutRoot, Members, Typed, StoresOK
      <3>3. QED
        BY <2>1, <3>1, <3>2 DEF Effects, OnEntries, OnMarks
    <2>7. Keeps(p)'
      <3>1. \A d : Safe(d, {m}) => \/ d \in marked' \cup lapse'
                                  \/ \E k \in Members \ {m} : rows'[k] = d
        BY <2>1, <2>5 DEF Safe
      <3>2. Undoable(c)'
        BY <1>1, <2>1, <2>2, <2>3, <2>4, <2>5, <3>1 DEF Keeps, Undoable, Safe, Connecting
      <3>3. MarkOfStep(c)' /\ EntryOfStep(c)' /\ RowOfStep(c)'
        BY <1>1, <1>2, <2>1, <2>3, <2>4, <2>5 DEF Keeps, MarkOfStep, EntryOfStep, RowOfStep, Begun, Early
      <3>4. QED
        BY <2>3, <2>4, <3>2, <3>3 DEF Keeps, WholeWorkset, FreshRows, Creating, Removing
    <2>8. QED
      BY <1>1, <2>3, <2>4, <2>6, <2>7, WorksKeep
  <1>4. CASE ~Registrable(m, c.dir)
    <2> DEFINE e == [c EXCEPT !.pc = "undoing", !.how = "refused"]
    <2>1. proc' = [proc EXCEPT ![p] = e] /\ Calm
      BY <1>1, <1>4 DEF WriteRow, Calm, registries
    <2>2. Goes(c, e)
      BY <1>1 DEF Goes, Command, Creating, Removing, Connecting, Early, Begun
    <2> HIDE DEF e
    <2>3. QED
      BY <1>1, <2>1, <2>2, CalmStep
  <1>5. QED
    BY <1>3, <1>4
LEMMA DropMarkKeeps ==
  ASSUME ~Overlap, Typed, Typed', MarkInv, NEW p \in Procs, DropMark(p)
  PROVE  MarkInv'
  <1> DEFINE c == proc[p]
             m == <<c.at, c.name>>
             d == c.dir
  <1>1. /\ c \in Command /\ c.pc = "rowed" /\ Busy(p) /\ Keeps(p) /\ m \in Members
    BY AtWork DEF DropMark, At, Connecting
  <1>2. rows[m] = d /\ m \in entry /\ (~c.mark => d \notin marked)
    BY <1>1 DEF Keeps, RowOfStep, EntryOfStep, MarkOfStep, Connecting, Begun
  <1>3. CASE d \in marked /\ marked' = marked \ {d} /\ UNCHANGED lapse
             /\ proc' = [proc EXCEPT ![p].pc = "dropped", ![p].made = @ \cup {"mark"}]
    <2> DEFINE made == c.made \cup {"mark"}
               e == [c EXCEPT !.pc = "dropped", !.made = made]
    <2>1. "mark" \in made
      OBVIOUS
    <2>2. proc' = [proc EXCEPT ![p] = e]
      BY <1>3
    <2> HIDE DEF made
    <2>3. /\ e.pc = "dropped" /\ e.at = c.at /\ e.name = c.name /\ e.dir = c.dir
          /\ e.prior = c.prior /\ e.made = made
      BY <1>1 DEF Command
    <2> HIDE DEF e
    <2>4. proc'[p] = e /\ \A q \in Procs \ {p} : proc'[q] = proc[q]
      BY <2>2 DEF Typed, CommandsOK
    <2>5. /\ UNCHANGED <<root, rows, entry, lapse>>
          /\ d \in marked /\ marked' = marked \ {d}
      BY <1>3 DEF DropMark, registries
    <2>6. Effects(c.at, c.name, d)
      BY <1>1, <1>2, <2>5 DEF Effects, OnRows, OnEntries, OnMarks, MarkInv, NoRowsWithoutRoot
    <2>7. Keeps(p)'
      <3>1. \A k \in Members : rows[k] = d => k \in entry \/ d \in lapse
        BY <2>5 DEF MarkInv, MarkIsPending
      <3>2. Undoable(c)'
        BY <2>1, <2>3, <2>4, <2>5, <3>1 DEF Undoable
      <3>3. MarkOfStep(c)' /\ EntryOfStep(c)' /\ RowOfStep(c)'
        BY <1>1, <1>2, <2>3, <2>4, <2>5 DEF Keeps, MarkOfStep, EntryOfStep, RowOfStep, Begun,
           Early, Connecting
      <3>4. QED
        BY <2>3, <2>4, <3>2, <3>3 DEF Keeps, WholeWorkset, FreshRows, Creating, Removing
    <2>8. QED
      BY <1>1, <2>3, <2>4, <2>6, <2>7, WorksKeep
  <1>4. CASE Goto(p, "dropped") /\ marked' = marked /\ d \notin marked' \ lapse'
             /\ lapse \subseteq lapse'
    <2> DEFINE e == [c EXCEPT !.pc = "dropped"]
    <2>1. proc'[p] = e /\ \A q \in Procs \ {p} : proc'[q] = proc[q]
      BY <1>4 DEF Goto, Typed, CommandsOK
    <2>2. /\ e.pc = "dropped" /\ e.at = c.at /\ e.name = c.name /\ e.dir = c.dir
          /\ e.prior = c.prior /\ e.made = c.made
      BY <1>1 DEF Command
    <2> HIDE DEF e
    <2>3. Calm
      BY <1>4 DEF DropMark, Calm, registries
    <2>4. Keeps(p)'
      <3>1. \A x, M : Safe(x, M) => Safe(x, M)'
        BY <2>3 DEF Calm, Safe
      <3>2. Undoable(c)'
        BY <1>1, <2>1, <2>2, <2>3, <3>1 DEF Keeps, Undoable, Calm, Connecting
      <3>3. MarkOfStep(c)' /\ EntryOfStep(c)' /\ RowOfStep(c)'
        BY <1>1, <1>2, <1>4, <2>1, <2>2, <2>3 DEF Keeps, MarkOfStep, EntryOfStep, RowOfStep,
           Calm, Begun, Early
      <3>4. QED
        BY <2>1, <2>2, <3>2, <3>3 DEF Keeps, WholeWorkset, FreshRows, Creating, Removing
    <2>5. QED
      BY <1>1, <2>1, <2>2, <2>3, <2>4, CalmEffects, WorksKeep
  <1>5. QED
    BY <1>2, <1>3, <1>4 DEF DropMark, Notes

\* A command that ends with this step.
LEMMA EndsKeep ==
  ASSUME ~Overlap, Typed, Typed', MarkInv, NEW p \in Procs, Busy(p), Ends(p),
         Effects(proc[p].at, proc[p].name, proc[p].dir)
  PROVE  MarkInv'
  <1>1. proc'[p] = Idle /\ \A q \in Procs \ {p} : proc'[q] = proc[q]
    BY DEF Ends, Typed, CommandsOK
  <1>2. ~Busy(p)'
    BY <1>1 DEF Busy, Idle
  <1>3. QED
    BY <1>1, <1>2, IdleKeeps, WorksKeep

LEMMA CloseKeeps ==
  ASSUME ~Overlap, Typed, Typed', MarkInv, NEW p \in Procs, Close(p)
  PROVE  MarkInv'
  <1> DEFINE c == proc[p]
             m == <<c.at, c.name>>
  <1>1. /\ c.pc = "dropped" /\ Busy(p) /\ Keeps(p) /\ m \in Members /\ Member(p) = m
    BY AtWork DEF Close, At, Connecting
  <1>2. rows[m] = c.dir /\ c.dir \notin marked \ lapse
    BY <1>1 DEF Keeps, RowOfStep, MarkOfStep
  <1>3. entry' = entry \ {m} /\ UNCHANGED <<root, rows, marked, lapse>> /\ Ends(p)
    BY <1>1 DEF Close, disk
  <1>4. Effects(c.at, c.name, c.dir)
    BY <1>1, <1>2, <1>3 DEF Effects, OnRows, OnEntries, OnMarks, MarkInv, NoRowsWithoutRoot
  <1>5. QED
    BY <1>1, <1>3, <1>4, EndsKeep

LEMMA UndoneKeeps ==
  ASSUME ~Overlap, Typed, Typed', MarkInv, NEW p \in Procs, Undone(p)
  PROVE  MarkInv'
  <1> DEFINE c == proc[p]
             m == <<c.at, c.name>>
  <1>1. /\ c.pc = "undoing" /\ Busy(p) /\ Keeps(p) /\ m \in Members /\ Member(p) = m
    BY AtWork DEF Undone, At, Connecting
  <1>2. UNCHANGED <<root, rows, marked, lapse>> /\ Ends(p)
    BY DEF Undone, disk
  <1>3. entry' = entry \/ (entry' = entry \ {m} /\ c.how # "interrupt")
    BY <1>1 DEF Undone
  <1>4. c.how # "interrupt" => rows[m] = None
    BY <1>1 DEF Keeps, RowOfStep
  <1>5. None \notin marked
    BY NoneAssumption DEF Typed, StoresOK
  <1>6. OnEntries(c.at, c.name, c.dir)
    BY <1>1, <1>2, <1>3, <1>4, <1>5 DEF OnEntries
  <1>7. Effects(c.at, c.name, c.dir)
    BY <1>2, <1>6 DEF Effects, OnRows, OnMarks, MarkInv, NoRowsWithoutRoot, Typed, StoresOK
  <1>8. QED
    BY <1>1, <1>2, <1>7, EndsKeep

LEMMA UndoMarkKeeps ==
  ASSUME ~Overlap, Typed, Typed', MarkInv, NEW p \in Procs, UndoMark(p)
  PROVE  MarkInv'
  <1> DEFINE c == proc[p]
             m == <<c.at, c.name>>
             d == c.dir
             made == c.made \ {"mark"}
             e == [c EXCEPT !.made = made]
  <1>1. /\ c \in Command /\ c.pc = "undoing" /\ Busy(p) /\ Keeps(p) /\ m \in Members
        /\ "mark" \in c.made
    BY AtWork DEF UndoMark, Undoes, At, Connecting
  <1>2. m \in entry /\ \A k \in Members \ {m} : rows[k] = d => k \in entry \/ d \in lapse
    BY <1>1 DEF Keeps, EntryOfStep, Undoable, Connecting
  <1>3. /\ marked' = marked \cup {d} /\ UNCHANGED <<root, rows, entry, lapse>>
        /\ proc' = [proc EXCEPT ![p] = e]
    BY DEF UndoMark, Undid, registries
  <1>4. "mark" \notin made
    OBVIOUS
  <1> HIDE DEF made
  <1>5. /\ e.pc = "undoing" /\ e.at = c.at /\ e.name = c.name /\ e.dir = c.dir
        /\ e.prior = c.prior /\ e.made = made /\ e.how = c.how
    BY <1>1 DEF Command
  <1> HIDE DEF e
  <1>6. proc'[p] = e /\ \A q \in Procs \ {p} : proc'[q] = proc[q]
    BY <1>3 DEF Typed, CommandsOK
  <1>7. Effects(c.at, c.name, d)
    BY <1>2, <1>3 DEF Effects, OnRows, OnEntries, OnMarks, MarkInv, NoRowsWithoutRoot
  <1>8. Keeps(p)'
    <2>1. Undoable(c)'
      BY <1>3, <1>4, <1>5, <1>6 DEF Undoable, Safe
    <2>2. MarkOfStep(c)' /\ EntryOfStep(c)' /\ RowOfStep(c)'
      BY <1>1, <1>2, <1>3, <1>5, <1>6 DEF Keeps, MarkOfStep, EntryOfStep, RowOfStep, Begun, Early
    <2>3. QED
      BY <1>5, <1>6, <2>1, <2>2 DEF Keeps, WholeWorkset, FreshRows, Creating, Removing
  <1>9. QED
    BY <1>1, <1>5, <1>6, <1>7, <1>8, WorksKeep

LEMMA UndoRowKeeps ==
  ASSUME ~Overlap, Typed, Typed', MarkInv, NEW p \in Procs, UndoRow(p)
  PROVE  MarkInv'
  <1> DEFINE c == proc[p]
             m == <<c.at, c.name>>
             d == c.dir
             made == c.made \ {"row"}
             e == [c EXCEPT !.made = made]
  <1>1. /\ c \in Command /\ c.pc = "undoing" /\ Busy(p) /\ Keeps(p) /\ m \in Members
        /\ Member(p) = m /\ c.prior = None /\ d # None
    BY AtWork DEF UndoRow, Undoes, At, Connecting, Keeps, RowOfStep
  <1>2. "mark" \notin c.made
    BY DEF UndoRow, Undoes, Newer, Undos
  <1>3. d \in Boxed => Safe(d, {m})
    BY <1>1, <1>2 DEF Keeps, Undoable, Connecting
  <1>4. /\ UNCHANGED <<root, marked, entry, lapse>> /\ proc' = [proc EXCEPT ![p] = e]
        /\ rows' = IF rows[m] = d THEN [rows EXCEPT ![m] = None] ELSE rows
    BY <1>1 DEF UndoRow, Undid, registries
  <1>5. \A k \in Members \ {m} : rows'[k] = rows[k]
    BY <1>1, <1>4 DEF Typed, StoresOK
  <1>6. rows'[m] = rows[m] \/ (rows[m] = d /\ rows'[m] = None)
    BY <1>1, <1>4 DEF Typed, StoresOK
  <1>7. "mark" \notin made
    BY <1>2
  <1> HIDE DEF made
  <1>8. /\ e.pc = "undoing" /\ e.at = c.at /\ e.name = c.name /\ e.dir = c.dir
        /\ e.prior = c.prior /\ e.made = made /\ e.how = c.how
    BY <1>1 DEF Command
  <1> HIDE DEF e
  <1>9. proc'[p] = e /\ \A q \in Procs \ {p} : proc'[q] = proc[q]
    BY <1>4 DEF Typed, CommandsOK
  <1>10. d \in Boxed => d \in marked' \cup lapse' \/ \E k \in Members \ {m} : rows'[k] = d
    BY <1>3, <1>4, <1>5 DEF Safe
  <1>11. Effects(c.at, c.name, d)
    <2>1. OnRows(c.at, c.name, d)
      BY <1>1, <1>4, <1>5, <1>6, <1>10 DEF OnRows
    <2>2. NoRowsWithoutRoot'
      BY <1>4, <1>5, <1>6 DEF MarkInv, NoRowsWithoutRoot, Members
    <2>3. QED
      BY <1>4, <2>1, <2>2 DEF Effects, OnEntries, OnMarks
  <1>12. Keeps(p)'
    <2>1. Undoable(c)'
      BY <1>7, <1>8, <1>9, <1>10 DEF Undoable, Safe
    <2>2. MarkOfStep(c)' /\ EntryOfStep(c)' /\ RowOfStep(c)'
      BY <1>1, <1>4, <1>6, <1>8, <1>9 DEF Keeps, MarkOfStep, EntryOfStep, RowOfStep, Begun, Early,
         Connecting
    <2>3. QED
      BY <1>8, <1>9, <2>1, <2>2 DEF Keeps, WholeWorkset, FreshRows, Creating, Removing
  <1>13. QED
    BY <1>1, <1>8, <1>9, <1>11, <1>12, WorksKeep

LEMMA UndoFailsKeeps ==
  ASSUME ~Overlap, Typed, Typed', MarkInv, NEW p \in Procs, UndoFails(p)
  PROVE  MarkInv'
  <1> DEFINE c == proc[p]
  <1>1. PICK undo \in Undos :
          /\ Undoes(p, undo)
          /\ proc' = [proc EXCEPT ![p].made = @ \ {undo}, ![p].failed = TRUE]
          /\ Notes(IF undo \in {"mark", "row"} THEN {c.dir} ELSE {})
          /\ UNCHANGED <<disk, registries>>
    BY DEF UndoFails
  <1> DEFINE made == c.made \ {undo}
             e == [c EXCEPT !.made = made, !.failed = TRUE]
  <1>2. c \in Command /\ c.pc = "undoing" /\ Busy(p) /\ Keeps(p)
    BY <1>1, AtWork DEF Undoes, At, Connecting
  <1>3. Calm
    BY <1>1 DEF Calm, Notes, disk, registries
  <1>4. "mark" \in made => "mark" \in c.made
    OBVIOUS
  <1>5. "mark" \notin made => "mark" \notin c.made \/ c.dir \in lapse'
    BY <1>1 DEF Notes
  <1>6. proc' = [proc EXCEPT ![p] = e]
    BY <1>1
  <1> HIDE DEF made
  <1>7. /\ e.pc = "undoing" /\ e.at = c.at /\ e.name = c.name /\ e.dir = c.dir
        /\ e.prior = c.prior /\ e.made = made /\ e.how = c.how
    BY <1>2 DEF Command
  <1> HIDE DEF e
  <1>8. proc'[p] = e /\ \A q \in Procs \ {p} : proc'[q] = proc[q]
    BY <1>6 DEF Typed, CommandsOK
  <1>9. Keeps(p)'
    <2>1. \A x, M : Safe(x, M) \/ x \in lapse' => Safe(x, M)'
      BY <1>3 DEF Calm, Safe
    <2>2. Undoable(c)'
      BY <1>2, <1>3, <1>4, <1>5, <1>7, <1>8, <2>1 DEF Keeps, Undoable, Calm, Connecting
    <2>3. MarkOfStep(c)' /\ EntryOfStep(c)' /\ RowOfStep(c)'
      BY <1>2, <1>3, <1>7, <1>8 DEF Keeps, MarkOfStep, EntryOfStep, RowOfStep, Calm, Begun, Early,
         Connecting
    <2>4. QED
      BY <1>7, <1>8, <2>2, <2>3 DEF Keeps, WholeWorkset, FreshRows, Creating, Removing
  <1>10. QED
    BY <1>2, <1>3, <1>7, <1>8, <1>9, CalmEffects, WorksKeep

LEMMA DropRowKeeps ==
  ASSUME ~Overlap, Typed, Typed', MarkInv, NEW p \in Procs, DropRow(p)
  PROVE  MarkInv'
  <1> DEFINE c == proc[p]
             m == <<c.at, c.name>>
  <1>1. Busy(p) /\ m \in Members /\ Member(p) = m
    BY AtWork DEF DropRow, At, Leaving
  <1>2. /\ rows' = [rows EXCEPT ![m] = None] /\ UNCHANGED <<root, marked, entry>> /\ Ends(p)
        /\ lapse' = lapse \cup ({rows[m]} \ ({None} \cup marked))
    BY <1>1 DEF DropRow, Notes, registries
  <1>3. rows'[m] = None /\ \A k \in Members \ {m} : rows'[k] = rows[k]
    BY <1>1, <1>2 DEF Typed, StoresOK
  <1>4. OnRows(c.at, c.name, c.dir)
    BY <1>2, <1>3 DEF OnRows
  <1>5. NoRowsWithoutRoot'
    BY <1>2, <1>3 DEF MarkInv, NoRowsWithoutRoot, Members
  <1>6. Effects(c.at, c.name, c.dir)
    BY <1>2, <1>4, <1>5 DEF Effects, OnEntries, OnMarks
  <1>7. QED
    BY <1>1, <1>2, <1>6, EndsKeep

\* What a command on a whole workset may rely on.
LEMMA AtRoot ==
  ASSUME Typed, MarkInv, NEW p \in Procs, proc[p].pc \in Creating \cup Removing
  PROVE  Busy(p) /\ Keeps(p) /\ proc[p].at \in Roots /\ proc[p].name = None
  BY DEF Typed, CommandsOK, Sound, Busy, MarkInv, AllKeep, Keeps, WholeWorkset, Creating, Removing

LEMMA UnmakeKeeps ==
  ASSUME ~Overlap, Typed, Typed', MarkInv, NEW p \in Procs, Unmake(p)
  PROVE  MarkInv'
  <1> DEFINE c == proc[p]
             r == c.at
  <1>1. /\ Busy(p) /\ r \in Roots /\ c.name = None
        /\ \A k \in Names : rows[<<r, k>>] = None
    BY AtRoot DEF Unmake, Keeps, FreshRows
  <1>2. PICK left \in {"none", "part", root[r]} :
          /\ root' = [root EXCEPT ![r] = left]
          /\ \/ left = "none" /\ rows' = [m \in Members |-> IF m[1] = r THEN None ELSE rows[m]]
             \/ left # "none" /\ rows' = rows
    BY DEF Unmake
  <1>3. lapse \subseteq lapse' /\ marked' = marked /\ entry' = entry /\ Ends(p)
    BY DEF Unmake, Notes
  <1>4. \A m \in Members : rows'[m] = rows[m]
    BY <1>1, <1>2 DEF Members
  <1>5. OnRows(r, c.name, c.dir)
    BY <1>4 DEF OnRows
  <1>6. NoRowsWithoutRoot'
    BY <1>1, <1>2, <1>4 DEF MarkInv, NoRowsWithoutRoot, Members, Typed, StoresOK
  <1>7. Effects(r, c.name, c.dir)
    BY <1>3, <1>5, <1>6 DEF Effects, OnEntries, OnMarks
  <1>8. QED
    BY <1>1, <1>3, <1>7, EndsKeep

LEMMA RemoveRootKeeps ==
  ASSUME ~Overlap, Typed, Typed', MarkInv, NEW p \in Procs, RemoveRoot(p)
  PROVE  MarkInv'
  <1> DEFINE c == proc[p]
             r == c.at
             mine == {m \in Members : m[1] = r}
  <1>1. Busy(p) /\ r \in Roots /\ c.name = None
    BY AtRoot DEF RemoveRoot, At, Removing
  <1>2. PICK left \in {"none", "part", root[r]}, lost \in SUBSET mine :
          /\ left = "none" => lost = mine
          /\ root' = [root EXCEPT ![r] = left]
          /\ rows' = [m \in Members |-> IF m \in lost THEN None ELSE rows[m]]
          /\ lapse' = lapse \cup ({rows[m] : m \in lost} \ ({None} \cup marked))
    BY DEF RemoveRoot, Notes
  <1>3. marked' = marked /\ entry' = entry /\ Ends(p)
    BY DEF RemoveRoot, registries
  <1>4. OnRows(r, c.name, c.dir)
    <2> SUFFICES ASSUME NEW m \in Members
                 PROVE  /\ m[1] # r => rows'[m] = rows[m]
                        /\ rows'[m] \in {rows[m], None}
                        /\ rows[m] \notin {rows'[m], None} => rows[m] \in marked' \cup lapse'
      BY <1>1 DEF OnRows
    <2>1. QED
      BY <1>2, <1>3
  <1>5. NoRowsWithoutRoot'
    BY <1>1, <1>2 DEF MarkInv, NoRowsWithoutRoot, Members, Typed, StoresOK
  <1>6. Effects(r, c.name, c.dir)
    <2>1. lapse \subseteq lapse'
      BY <1>2
    <2>2. QED
      BY <1>3, <1>4, <1>5, <2>1 DEF Effects, OnEntries, OnMarks
  <1>7. QED
    BY <1>1, <1>3, <1>6, EndsKeep

-----------------------------------------------------------------------------
LEMMA InitMarked == Init => MarkInv
  <1> SUFFICES ASSUME Init PROVE MarkInv
    OBVIOUS
  <1>1. \A p \in Procs : proc[p].pc = "idle" /\ proc[p].prior = None
    BY DEF Init, Idle
  <1>2. AllApart
    BY <1>1 DEF AllApart, Busy
  <1>3. AllKeep
    BY <1>1 DEF AllKeep, Keeps, WholeWorkset, FreshRows, RowOfStep, EntryOfStep, MarkOfStep,
       Undoable, Early, Begun, Connecting, Creating, Removing
  <1>4. NoRowsWithoutRoot /\ BoxesSafe
    BY DEF Init, NoRowsWithoutRoot, BoxesSafe, Safe, Members
  <1>5. MarkIsPending
    BY BoxedAssumption, NoneAssumption DEF Init, MarkIsPending
  <1>6. QED
    BY <1>2, <1>3, <1>4, <1>5 DEF MarkInv

LEMMA NextMarked ==
  ASSUME ~Overlap, Typed, Typed', MarkInv, Next
  PROVE  MarkInv'
  <1>1. ASSUME NEW p \in Procs, NEW r \in Roots, Create(p, r) PROVE MarkInv'
    BY <1>1, CreateKeeps
  <1>2. ASSUME NEW p \in Procs, NEW r \in Roots, NEW purge \in BOOLEAN, Remove(p, r, purge)
        PROVE  MarkInv'
    BY <1>2, RemoveKeeps
  <1>3. ASSUME NEW p \in Procs, NEW r \in Roots, NEW n \in Names, NEW d \in Dirs,
               NEW force \in BOOLEAN, Connect(p, r, n, d, force)
        PROVE  MarkInv'
    BY <1>3, ConnectKeeps
  <1>4. ASSUME NEW p \in Procs, NEW r \in Roots, NEW n \in Names, NEW files \in BOOLEAN,
               Disconnect(p, r, n, files)
        PROVE  MarkInv'
    BY <1>4, DisconnectKeeps
  <1>5. ASSUME NEW p \in Procs,
               \/ Lay(p) \/ List(p) \/ Created(p) \/ MakeStore(p) \/ Link(p) \/ Absorb(p)
               \/ Fail(p) \/ Interrupt(p) \/ Kill(p) \/ UndoAbsorb(p) \/ UndoLink(p)
               \/ UndoStore(p) \/ RemoveStore(p) \/ Unlink(p) \/ RemoveTree(p) \/ Unlist(p)
        PROVE  MarkInv'
    BY <1>5, CalmStepsKeep
  <1>6. ASSUME NEW p \in Procs, Open(p) \/ Enter(p) \/ WriteRow(p) \/ DropMark(p) \/ Close(p)
        PROVE  MarkInv'
    BY <1>6, OpenKeeps, EnterKeeps, WriteRowKeeps, DropMarkKeeps, CloseKeeps
  <1>7. ASSUME NEW p \in Procs, UndoMark(p) \/ UndoRow(p) \/ UndoFails(p) \/ Undone(p)
        PROVE  MarkInv'
    BY <1>7, UndoMarkKeeps, UndoRowKeeps, UndoFailsKeeps, UndoneKeeps
  <1>8. ASSUME NEW p \in Procs, DropRow(p) \/ Unmake(p) \/ RemoveRoot(p) PROVE MarkInv'
    BY <1>8, DropRowKeeps, UnmakeKeeps, RemoveRootKeeps
  <1>9. QED
    BY <1>1, <1>2, <1>3, <1>4, <1>5, <1>6, <1>7, <1>8, OutsideKeeps DEF Next

LEMMA StillMarked == MarkInv /\ UNCHANGED vars => MarkInv'
  BY DEF vars, disk, registries, MarkInv, AllApart, Apart, AllKeep, Keeps, Busy, WholeWorkset,
     FreshRows, RowOfStep, EntryOfStep, MarkOfStep, Undoable, Safe, NoRowsWithoutRoot,
     BoxesSafe, MarkIsPending

LEMMA MarksKept == ASSUME ~Overlap PROVE Spec => []MarkInv
  <1>1. Typed /\ Typed' /\ MarkInv /\ [Next]_vars => MarkInv'
    BY NextMarked, StillMarked
  <1>2. TypeOK => Typed
    BY Halves DEF Typed
  <1>3. QED
    BY <1>1, <1>2, InitMarked, TypeCorrect, PTL DEF Spec

\* No directory that was a box is left without the mark and without a member, whatever
\* fails, is interrupted, undone or killed: a connect takes the mark away last
\* (add_project), and its undo puts it back before it drops the row.  And the journal
\* always has the entry of a member that still has its mark, so that the next command
\* that resolves it drops the mark (resolve_workset_project).
THEOREM BoxesStayBoxes == ASSUME ~Overlap PROVE Spec => []MarksAccounted
  <1>1. MarkInv => MarksAccounted
    BY DEF MarkInv, BoxesSafe, Safe, MarkOrMember, MarksAccounted
  <1>2. QED
    BY <1>1, MarksKept, PTL

-----------------------------------------------------------------------------
(* A workset is whole for as long as it is listed.                            *)

RootOfStep(c) ==
  /\ c.pc \in {"making", "unlisted"} => c.at \notin listed
  /\ c.pc = "laid" => root[c.at] = "whole"

RootInv == ListedIsWhole /\ \A p \in Procs : RootOfStep(proc[p])

OnRoot == {"making", "laid", "unlisted"}

\* Most steps touch no root and no list.
LEMMA RootUntouched ==
  ASSUME RootInv, UNCHANGED <<listed, root>>, lapse \subseteq lapse',
         \A q \in Procs : proc'[q] = proc[q] \/ proc'[q].pc \notin OnRoot
  PROVE  RootInv'
  BY DEF RootInv, ListedIsWhole, RootOfStep, OnRoot

LEMMA RootUntouchedBy ==
  ASSUME Typed, RootInv, UNCHANGED <<listed, root>>, lapse \subseteq lapse',
         NEW p \in Procs, NEW e, proc' = [proc EXCEPT ![p] = e], e.pc \notin OnRoot
  PROVE  RootInv'
  BY RootUntouched DEF Typed, CommandsOK

LEMMA RootUntouchedGoto ==
  ASSUME Typed, RootInv, UNCHANGED <<listed, root>>, lapse \subseteq lapse',
         NEW p \in Procs, NEW pc, pc \notin OnRoot, Goto(p, pc)
  PROVE  RootInv'
  <1> DEFINE e == [proc[p] EXCEPT !.pc = pc]
  <1>1. proc' = [proc EXCEPT ![p] = e] /\ e.pc = pc
    BY DEF Goto, Typed, CommandsOK, Sound, Command
  <1> HIDE DEF e
  <1>2. QED
    BY <1>1, RootUntouchedBy

LEMMA RootUntouchedEnd ==
  ASSUME Typed, RootInv, UNCHANGED <<listed, root>>, lapse \subseteq lapse',
         NEW p \in Procs, Ends(p)
  PROVE  RootInv'
  <1>1. Idle.pc \notin OnRoot
    BY DEF Idle, OnRoot
  <1>2. QED
    BY <1>1, RootUntouchedBy DEF Ends

\* No two commands work on the whole of one workset, and none beside a command on a member.
LEMMA AloneAtRoot ==
  ASSUME ~Overlap, Typed, MarkInv, NEW p \in Procs, proc[p].pc \in Creating \cup Removing,
         NEW q \in Procs, q # p, proc[q].pc \in OnRoot
  PROVE  proc[q].at # proc[p].at
  <1>1. Busy(p) /\ Apart({p}, proc[p].at, proc[p].name, proc[p].dir)
    BY AtRoot DEF MarkInv, AllApart
  <1>2. proc[q].pc # "idle" /\ proc[p].name = None
    BY AtRoot DEF OnRoot
  <1>3. QED
    BY <1>1, <1>2 DEF Apart

LEMMA BeginsKeepRoots ==
  ASSUME Typed, RootInv, NEW p \in Procs, NEW r \in Roots,
         \/ Create(p, r)
         \/ \E purge \in BOOLEAN : Remove(p, r, purge)
         \/ \E n \in Names :
              \/ \E d \in Dirs, force \in BOOLEAN : Connect(p, r, n, d, force)
              \/ \E files \in BOOLEAN : Disconnect(p, r, n, files)
  PROVE  RootInv'
  <1>1. CASE Create(p, r)
    <2> DEFINE e == [Idle EXCEPT !.pc = "making", !.at = r]
    <2>1. e.pc = "making" /\ e.at = r
      BY DEF Idle
    <2>2. /\ proc' = [proc EXCEPT ![p] = e] /\ UNCHANGED <<listed, lapse>>
          /\ r \notin listed /\ root[r] = "none" /\ root' = [root EXCEPT ![r] = "part"]
      BY <1>1 DEF Create, Starts, registries
    <2> HIDE DEF e
    <2>3. proc'[p] = e /\ \A q \in Procs \ {p} : proc'[q] = proc[q]
      BY <2>2 DEF Typed, CommandsOK
    <2>4. \A z \in Roots \ {r} : root'[z] = root[z]
      BY <2>2 DEF Typed, StoresOK
    <2>5. ListedIsWhole'
      BY <2>2, <2>4 DEF RootInv, ListedIsWhole, Typed, StoresOK
    <2>6. ASSUME NEW q \in Procs PROVE RootOfStep(proc[q])'
      <3>1. CASE q = p
        BY <2>1, <2>2, <2>3, <3>1 DEF RootOfStep
      <3>2. CASE q # p
        BY <2>2, <2>3, <2>4, <3>2 DEF RootInv, RootOfStep, Typed, CommandsOK, Sound
      <3>3. QED
        BY <3>1, <3>2
    <2>7. QED
      BY <2>5, <2>6 DEF RootInv
  <1>2. ASSUME NEW purge \in BOOLEAN, Remove(p, r, purge) PROVE RootInv'
    <2> DEFINE e == [Idle EXCEPT !.pc = "agreed", !.at = r, !.flag = purge]
    <2>1. e.pc \notin OnRoot
      BY DEF Idle, OnRoot
    <2>2. /\ proc' = [proc EXCEPT ![p] = e] /\ UNCHANGED <<listed, root>>
          /\ lapse \subseteq lapse'
      BY <1>2 DEF Remove, Repairs, Notes
    <2> HIDE DEF e
    <2>3. QED
      BY <2>1, <2>2, RootUntouchedBy
  <1>3. ASSUME NEW n \in Names, NEW d \in Dirs, NEW force \in BOOLEAN, Connect(p, r, n, d, force)
        PROVE  RootInv'
    <2> DEFINE f == Facts(<<r, n>>, d)
               e == [Idle EXCEPT !.pc = "checked", !.at = r, !.name = n, !.dir = d,
                                 !.flag = force, !.was = {f}]
    <2>1. e.pc \notin OnRoot
      BY DEF Idle, OnRoot
    <2>2. proc' = [proc EXCEPT ![p] = e] /\ UNCHANGED <<listed, root, lapse>>
      BY <1>3 DEF Connect, Starts, disk, registries
    <2> HIDE DEF e
    <2>3. QED
      BY <2>1, <2>2, RootUntouchedBy
  <1>4. ASSUME NEW n \in Names, NEW files \in BOOLEAN, Disconnect(p, r, n, files)
        PROVE  RootInv'
    <2> DEFINE e == [Idle EXCEPT !.pc = "asked", !.at = r, !.name = n,
                                 !.dir = rows[<<r, n>>], !.flag = files]
    <2>1. e.pc \notin OnRoot
      BY DEF Idle, OnRoot
    <2>2. /\ proc' = [proc EXCEPT ![p] = e] /\ UNCHANGED <<listed, root>>
          /\ lapse \subseteq lapse'
      BY <1>4 DEF Disconnect, Repairs, Notes
    <2> HIDE DEF e
    <2>3. QED
      BY <2>1, <2>2, RootUntouchedBy
  <1>5. QED
    BY <1>1, <1>2, <1>3, <1>4

\* A connect makes a root that was not there, of a workset that is not listed whole.
LEMMA RootUnderStore ==
  ASSUME Typed, RootInv, UNCHANGED <<listed, lapse>>, NEW r \in Roots,
         root' = [root EXCEPT ![r] = IF @ = "none" THEN "part" ELSE @],
         \A q \in Procs : proc'[q] = proc[q] \/ proc'[q].pc \notin OnRoot
  PROVE  RootInv'
  <1>1. \A z \in Roots : root'[z] = root[z] \/ root[z] = "none"
    BY DEF Typed, StoresOK
  <1>2. QED
    BY <1>1 DEF RootInv, ListedIsWhole, RootOfStep, OnRoot, Typed, StoresOK, CommandsOK, Sound

LEMMA ConnectsKeepRoots ==
  ASSUME Typed, RootInv, NEW p \in Procs,
         \/ Open(p) \/ Enter(p) \/ MakeStore(p) \/ Link(p) \/ Absorb(p) \/ WriteRow(p)
         \/ DropMark(p) \/ Close(p) \/ Fail(p) \/ Interrupt(p)
  PROVE  RootInv'
  <1> DEFINE c == proc[p]
  <1>1. c \in Command /\ (c.pc \in Connecting => c.at \in Roots)
    BY DEF Typed, CommandsOK, Sound, Connecting
  <1>2. CASE Open(p) \/ Fail(p)
    BY <1>2, RootUntouchedGoto DEF Open, Fail, disk, registries, OnRoot
  <1>3. CASE Close(p)
    BY <1>3, RootUntouchedEnd DEF Close, disk
  <1>4. CASE Interrupt(p)
    <2> DEFINE e == [c EXCEPT !.pc = "undoing", !.how = "interrupt"]
    <2>1. proc' = [proc EXCEPT ![p] = e] /\ e.pc \notin OnRoot /\ UNCHANGED <<listed, root, lapse>>
      BY <1>1, <1>4 DEF Interrupt, disk, registries, Command, OnRoot
    <2> HIDE DEF e
    <2>2. QED
      BY <2>1, RootUntouchedBy
  <1>5. ASSUME NEW undo, NEW pc \in {"stored", "linked", "absorbed"}, Does(p, undo, pc)
        PROVE  \A q \in Procs : proc'[q] = proc[q] \/ proc'[q].pc \notin OnRoot
    <2> DEFINE made == c.made \cup undo
               cut == [c EXCEPT !.pc = "undoing", !.how = "interrupt"]
               done == [c EXCEPT !.pc = pc, !.made = made]
    <2>1. proc' = [proc EXCEPT ![p] = cut] \/ proc' = [proc EXCEPT ![p] = done]
      BY <1>5 DEF Does
    <2> HIDE DEF made
    <2>2. cut.pc \notin OnRoot /\ done.pc \notin OnRoot
      BY <1>1 DEF Command, OnRoot
    <2> HIDE DEF cut, done
    <2>3. QED
      BY <2>1, <2>2 DEF Typed, CommandsOK
  <1>6. CASE Link(p)
    <2>1. UNCHANGED <<listed, root, lapse>>
      BY <1>6 DEF Link, registries
    <2>2. QED
      BY <1>5, <1>6, <2>1, RootUntouched DEF Link
  <1>7. CASE Absorb(p)
    <2>1. UNCHANGED <<listed, root, lapse>>
      BY <1>7 DEF Absorb, disk
    <2>2. QED
      BY <1>5, <1>7, <2>1, RootUntouched DEF Absorb
  <1>8. CASE MakeStore(p)
    <2>1. /\ UNCHANGED <<listed, lapse>> /\ c.at \in Roots
          /\ root' = [root EXCEPT ![c.at] = IF @ = "none" THEN "part" ELSE @]
      BY <1>1, <1>8 DEF MakeStore, registries, At, Connecting
    <2>2. \A q \in Procs : proc'[q] = proc[q] \/ proc'[q].pc \notin OnRoot
      BY <1>5, <1>8 DEF MakeStore
    <2>3. QED
      BY <2>1, <2>2, RootUnderStore
  <1>9. CASE Enter(p)
    <2>1. UNCHANGED <<listed, root, lapse>>
      BY <1>9 DEF Enter, disk, registries
    <2>2. proc'[p].pc \notin OnRoot /\ \A q \in Procs \ {p} : proc'[q] = proc[q]
      BY <1>1, <1>9 DEF Enter, Typed, CommandsOK, Command, OnRoot
    <2>3. QED
      BY <2>1, <2>2, RootUntouched
  <1>10. CASE DropMark(p)
    <2>1. UNCHANGED <<listed, root>> /\ lapse \subseteq lapse'
      BY <1>10 DEF DropMark, registries, Notes
    <2>2. proc'[p].pc \notin OnRoot /\ \A q \in Procs \ {p} : proc'[q] = proc[q]
      BY <1>1, <1>10 DEF DropMark, Goto, Typed, CommandsOK, Command, OnRoot
    <2>3. QED
      BY <2>1, <2>2, RootUntouched
  <1>11. CASE WriteRow(p)
    <2>1. UNCHANGED <<listed, lapse>> /\ c.at \in Roots
      BY <1>1, <1>11 DEF WriteRow, registries, At, Connecting
    <2>2. proc'[p].pc \notin OnRoot /\ \A q \in Procs \ {p} : proc'[q] = proc[q]
      BY <1>1, <1>11 DEF WriteRow, Typed, CommandsOK, Command, OnRoot
    <2>3. \/ root' = root
          \/ root' = [root EXCEPT ![c.at] = IF @ = "none" THEN "part" ELSE @]
      BY <1>11 DEF WriteRow
    <2>4. QED
      BY <2>1, <2>2, <2>3, RootUnderStore, RootUntouched
  <1>12. QED
    BY <1>2, <1>3, <1>4, <1>6, <1>7, <1>8, <1>9, <1>10, <1>11

LEMMA UndosKeepRoots ==
  ASSUME Typed, RootInv, NEW p \in Procs,
         \/ UndoMark(p) \/ UndoRow(p) \/ UndoAbsorb(p) \/ UndoLink(p) \/ UndoStore(p)
         \/ UndoFails(p) \/ Undone(p) \/ Kill(p) \/ Created(p)
         \/ RemoveStore(p) \/ Unlink(p) \/ DropRow(p) \/ RemoveTree(p)
  PROVE  RootInv'
  <1>1. UNCHANGED <<listed, root>> /\ lapse \subseteq lapse'
    BY DEF UndoMark, UndoRow, UndoAbsorb, UndoLink, UndoStore, UndoFails, Undone, Kill, Created,
       RemoveStore, Unlink, DropRow, RemoveTree, Undid, Notes, disk, registries
  <1>2. CASE Undone(p) \/ Kill(p) \/ Created(p) \/ DropRow(p)
    BY <1>1, <1>2, RootUntouchedEnd DEF Undone, Kill, Created, DropRow
  <1>3. CASE RemoveStore(p) \/ Unlink(p)
    BY <1>1, <1>3, RootUntouchedGoto DEF RemoveStore, Unlink, OnRoot
  <1>4. CASE RemoveTree(p)
    BY <1>1, <1>4, RootUntouched DEF RemoveTree
  <1>5. ASSUME NEW undo, At(p, "undoing"), Undid(p, undo) PROVE RootInv'
    <2>1. proc'[p].pc \notin OnRoot /\ \A q \in Procs \ {p} : proc'[q] = proc[q]
      BY <1>5 DEF At, Undid, Typed, CommandsOK, Sound, Command, OnRoot
    <2>2. QED
      BY <1>1, <2>1, RootUntouched
  <1>6. CASE UndoMark(p) \/ UndoRow(p) \/ UndoAbsorb(p) \/ UndoLink(p) \/ UndoStore(p)
    BY <1>5, <1>6 DEF UndoMark, UndoRow, UndoAbsorb, UndoLink, UndoStore, Undoes
  <1>7. CASE UndoFails(p)
    <2>1. proc'[p].pc \notin OnRoot /\ \A q \in Procs \ {p} : proc'[q] = proc[q]
      <3>1. proc[p] \in Command /\ proc \in [Procs -> Command] /\ proc[p].pc = "undoing"
        BY <1>7 DEF UndoFails, Undoes, At, Typed, CommandsOK, Sound
      <3>2. PICK undo : proc' = [proc EXCEPT ![p].made = @ \ {undo}, ![p].failed = TRUE]
        BY <1>7 DEF UndoFails
      <3>3. QED
        BY <3>1, <3>2 DEF Command, OnRoot
    <2>2. QED
      BY <1>1, <2>1, RootUntouched
  <1>8. QED
    BY <1>2, <1>3, <1>4, <1>6, <1>7

LEMMA LayKeepsRoots ==
  ASSUME Typed, RootInv, NEW p \in Procs, Lay(p)
  PROVE  RootInv'
  <1> DEFINE c == proc[p]
             e == [c EXCEPT !.pc = "laid"]
  <1>1. c \in Command /\ c.at \in Roots
    BY DEF Lay, At, Typed, CommandsOK, Sound
  <1>2. /\ proc' = [proc EXCEPT ![p] = e] /\ root' = [root EXCEPT ![c.at] = "whole"]
        /\ UNCHANGED <<listed, lapse>>
    BY DEF Lay, Goto, registries
  <1>3. e.pc = "laid" /\ e.at = c.at
    BY <1>1 DEF Command
  <1> HIDE DEF e
  <1>4. proc'[p] = e /\ \A q \in Procs \ {p} : proc'[q] = proc[q]
    BY <1>2 DEF Typed, CommandsOK
  <1>5. \A z \in Roots : root'[z] = root[z] \/ root'[z] = "whole"
    BY <1>1, <1>2 DEF Typed, StoresOK
  <1>6. root'[c.at] = "whole"
    BY <1>1, <1>2 DEF Typed, StoresOK
  <1>7. ListedIsWhole'
    BY <1>2, <1>5 DEF RootInv, ListedIsWhole, Typed, StoresOK
  <1>8. ASSUME NEW q \in Procs PROVE RootOfStep(proc[q])'
    <2>1. CASE q = p
      BY <1>3, <1>4, <1>6, <2>1 DEF RootOfStep
    <2>2. CASE q # p
      BY <1>2, <1>4, <1>5, <2>2 DEF RootInv, RootOfStep, Typed, CommandsOK, Sound
    <2>3. QED
      BY <2>1, <2>2
  <1>9. QED
    BY <1>7, <1>8 DEF RootInv

LEMMA ListKeepsRoots ==
  ASSUME ~Overlap, Typed, MarkInv, RootInv, NEW p \in Procs, List(p)
  PROVE  RootInv'
  <1> DEFINE c == proc[p]
             e == [c EXCEPT !.pc = "named"]
  <1>1. c \in Command /\ c.at \in Roots /\ c.pc = "laid" /\ root[c.at] = "whole"
    BY DEF List, At, Typed, CommandsOK, Sound, RootInv, RootOfStep
  <1>2. /\ proc' = [proc EXCEPT ![p] = e] /\ listed' = listed \cup {c.at}
        /\ UNCHANGED <<root, lapse>>
    BY DEF List, Goto, disk
  <1>3. e.pc = "named"
    BY <1>1 DEF Command
  <1> HIDE DEF e
  <1>4. proc'[p] = e /\ \A q \in Procs \ {p} : proc'[q] = proc[q]
    BY <1>2 DEF Typed, CommandsOK
  <1>5. ListedIsWhole'
    BY <1>1, <1>2 DEF RootInv, ListedIsWhole
  <1>6. ASSUME NEW q \in Procs PROVE RootOfStep(proc[q])'
    <2>1. CASE q = p
      BY <1>3, <1>4, <2>1 DEF RootOfStep
    <2>2. CASE q # p
      <3>1. proc[q].pc \in OnRoot => proc[q].at # c.at
        BY <1>1, <2>2, AloneAtRoot DEF Creating
      <3>2. QED
        BY <1>2, <1>4, <2>2, <3>1 DEF RootInv, RootOfStep, OnRoot
    <2>3. QED
      BY <2>1, <2>2
  <1>7. QED
    BY <1>5, <1>6 DEF RootInv

\* A step that ends what a create or a rm did to its root.
LEMMA EndsKeepRoots ==
  ASSUME ~Overlap, Typed, MarkInv, RootInv, NEW p \in Procs,
         proc[p].pc \in Creating \cup Removing, Ends(p), lapse \subseteq lapse',
         \A z \in Roots \ {proc[p].at} :
           root'[z] = root[z] /\ (z \in listed' => z \in listed),
         proc[p].at \in listed' => \/ proc[p].at \in lapse'
                                   \/ root'[proc[p].at] = "whole",
         listed' \subseteq Roots
  PROVE  RootInv'
  <1>1. proc'[p] = Idle /\ (\A q \in Procs \ {p} : proc'[q] = proc[q]) /\ Idle.pc \notin OnRoot
    BY DEF Ends, Typed, CommandsOK, Idle, OnRoot
  <1>2. ListedIsWhole'
    BY DEF RootInv, ListedIsWhole
  <1>3. ASSUME NEW q \in Procs, q # p, proc[q].pc \in OnRoot PROVE RootOfStep(proc[q])'
    <2>1. proc[q].at # proc[p].at /\ proc[q].at \in Roots
      BY <1>3, AloneAtRoot DEF Typed, CommandsOK, Sound, OnRoot
    <2>2. QED
      BY <1>1, <1>3, <2>1 DEF RootInv, RootOfStep
  <1>4. ASSUME NEW q \in Procs PROVE RootOfStep(proc[q])'
    BY <1>1, <1>3 DEF RootOfStep, OnRoot
  <1>5. QED
    BY <1>2, <1>4 DEF RootInv

LEMMA RemovalsKeepRoots ==
  ASSUME ~Overlap, Typed, MarkInv, RootInv, NEW p \in Procs, Unmake(p) \/ Unlist(p) \/ RemoveRoot(p)
  PROVE  RootInv'
  <1> DEFINE c == proc[p]
             r == c.at
  <1>1. c \in Command /\ r \in Roots /\ c.pc \in Creating \cup Removing
    BY DEF Unmake, Unlist, RemoveRoot, At, Typed, CommandsOK, Sound, Creating, Removing
  <1>2. CASE Unmake(p)
    <2>1. PICK keepsRow \in BOOLEAN, left \in {"none", "part", root[r]} :
            /\ listed' = IF keepsRow THEN listed ELSE listed \ {r}
            /\ root' = [root EXCEPT ![r] = left]
            /\ lapse' = lapse \cup (IF keepsRow /\ r \in listed THEN {r} ELSE {})
      BY <1>2 DEF Unmake, Notes
    <2>2. \A z \in Roots \ {r} : root'[z] = root[z]
      BY <2>1 DEF Typed, StoresOK
    <2>3. /\ lapse \subseteq lapse' /\ listed' \subseteq Roots /\ (r \in listed' => r \in lapse')
          /\ \A z \in Roots : z \in listed' => z \in listed
      BY <2>1 DEF Typed, StoresOK
    <2>4. Ends(p)
      BY <1>2 DEF Unmake
    <2>5. QED
      BY <1>1, <2>2, <2>3, <2>4, EndsKeepRoots
  <1>3. CASE RemoveRoot(p)
    <2>1. PICK left \in {"none", "part", root[r]} : root' = [root EXCEPT ![r] = left]
      BY <1>3 DEF RemoveRoot
    <2>2. \A z \in Roots \ {r} : root'[z] = root[z]
      BY <2>1 DEF Typed, StoresOK
    <2>3. r \notin listed /\ listed' = listed /\ lapse \subseteq lapse' /\ Ends(p)
      BY <1>3 DEF RemoveRoot, At, RootInv, RootOfStep, Notes, registries
    <2>4. listed' \subseteq Roots
      BY <2>3 DEF Typed, StoresOK
    <2>5. QED
      BY <1>1, <2>2, <2>3, <2>4, EndsKeepRoots
  <1>4. CASE Unlist(p)
    <2>1. listed' = listed \ {r} /\ UNCHANGED <<root, lapse>>
      BY <1>4 DEF Unlist, disk
    <2>2. CASE Ends(p)
      <3>1. listed' \subseteq Roots
        BY <2>1 DEF Typed, StoresOK
      <3>2. QED
        BY <1>1, <2>1, <2>2, <3>1, EndsKeepRoots
    <2>3. CASE Goto(p, "unlisted")
      <3> DEFINE e == [c EXCEPT !.pc = "unlisted"]
      <3>1. e.pc = "unlisted" /\ e.at = r
        BY <1>1 DEF Command
      <3>2. proc'[p] = e /\ \A q \in Procs \ {p} : proc'[q] = proc[q]
        BY <2>3 DEF Goto, Typed, CommandsOK
      <3> HIDE DEF e
      <3>3. RootOfStep(proc[p])'
        BY <2>1, <3>1, <3>2 DEF RootOfStep
      <3>4. ASSUME NEW q \in Procs \ {p} PROVE RootOfStep(proc[q])'
        BY <2>1, <3>2 DEF RootInv, RootOfStep
      <3>5. ListedIsWhole'
        BY <2>1 DEF RootInv, ListedIsWhole
      <3>6. QED
        BY <3>3, <3>4, <3>5 DEF RootInv
    <2>4. QED
      BY <1>4, <2>2, <2>3 DEF Unlist
  <1>5. QED
    BY <1>2, <1>3, <1>4

LEMMA OutsideKeepsRoots ==
  ASSUME ~Overlap, Typed, MarkInv, RootInv,
         \/ \E r \in Roots : Import(r) \/ \E n \in Names : Resolve(r, n) \/ ResolveKilled(r, n)
         \/ \E d \in Dirs : Register(d)
  PROVE  RootInv'
  <1>1. ASSUME NEW r \in Roots, Import(r) PROVE RootInv'
    <2>1. /\ root[r] = "whole" /\ listed' = listed \cup {r} /\ UNCHANGED <<root, proc, lapse>>
          /\ Apart({}, r, None, None)
      BY <1>1 DEF Import, disk
    <2>2. ListedIsWhole'
      BY <2>1 DEF RootInv, ListedIsWhole
    <2>3. ASSUME NEW q \in Procs PROVE RootOfStep(proc[q])'
      BY <2>1 DEF RootInv, RootOfStep, Apart
    <2>4. QED
      BY <2>2, <2>3 DEF RootInv
  <1>2. ASSUME \/ \E r \in Roots, n \in Names : Resolve(r, n) \/ ResolveKilled(r, n)
               \/ \E d \in Dirs : Register(d)
        PROVE  RootInv'
    <2>1. UNCHANGED <<listed, root, proc>> /\ lapse \subseteq lapse'
      BY <1>2 DEF Resolve, ResolveKilled, Repairs, Register, Notes, disk, registries
    <2>2. QED
      BY <2>1, RootUntouched
  <1>3. QED
    BY <1>1, <1>2

LEMMA NextKeepsRoots ==
  ASSUME ~Overlap, Typed, MarkInv, RootInv, [Next]_vars
  PROVE  RootInv'
  <1>1. CASE UNCHANGED vars
    BY <1>1 DEF vars, disk, registries, RootInv, ListedIsWhole, RootOfStep
  <1>2. ASSUME NEW p \in Procs, NEW r \in Roots,
               \/ Create(p, r)
               \/ \E purge \in BOOLEAN : Remove(p, r, purge)
               \/ \E n \in Names :
                    \/ \E d \in Dirs, force \in BOOLEAN : Connect(p, r, n, d, force)
                    \/ \E files \in BOOLEAN : Disconnect(p, r, n, files)
        PROVE  RootInv'
    BY <1>2, BeginsKeepRoots
  <1>3. ASSUME NEW p \in Procs, Lay(p) \/ List(p) \/ Unmake(p) \/ Unlist(p) \/ RemoveRoot(p)
        PROVE  RootInv'
    BY <1>3, LayKeepsRoots, ListKeepsRoots, RemovalsKeepRoots
  <1>4. ASSUME NEW p \in Procs,
               \/ Open(p) \/ Enter(p) \/ MakeStore(p) \/ Link(p) \/ Absorb(p) \/ WriteRow(p)
               \/ DropMark(p) \/ Close(p) \/ Fail(p) \/ Interrupt(p)
        PROVE  RootInv'
    BY <1>4, ConnectsKeepRoots
  <1>5. ASSUME NEW p \in Procs,
               \/ UndoMark(p) \/ UndoRow(p) \/ UndoAbsorb(p) \/ UndoLink(p) \/ UndoStore(p)
               \/ UndoFails(p) \/ Undone(p) \/ Kill(p) \/ Created(p)
               \/ RemoveStore(p) \/ Unlink(p) \/ DropRow(p) \/ RemoveTree(p)
        PROVE  RootInv'
    BY <1>5, UndosKeepRoots
  <1>6. QED
    BY <1>1, <1>2, <1>3, <1>4, <1>5, OutsideKeepsRoots DEF Next

\* What the global registry lists has its whole skeleton on disk: a workset is registered
\* after it is laid out (create_workset) and its root goes after its row (delete_workset),
\* whatever fails or is killed on the way.
THEOREM ListedIsAlwaysWhole == ASSUME ~Overlap PROVE Spec => []ListedIsWhole
  <1>1. Init => RootInv
    BY DEF Init, Idle, RootInv, ListedIsWhole, RootOfStep
  <1>2. TypeOK => Typed
    BY Halves DEF Typed
  <1>3. Typed /\ MarkInv /\ RootInv /\ [Next]_vars => RootInv'
    BY NextKeepsRoots
  <1>4. RootInv => ListedIsWhole
    BY DEF RootInv
  <1>5. QED
    BY <1>1, <1>2, <1>3, <1>4, MarksKept, TypeCorrect, PTL DEF Spec
-----------------------------------------------------------------------------
(* What a failed connect puts back.  A connect that is still before its row,  *)
(* or that undoes its steps, can tell from what it made how it found things.  *)

Reports(c) == c.pc \in Early \/ (c.pc = "undoing" /\ c.how # "interrupt" /\ ~c.failed)

LinkBefore(c) == IF "link" \in c.made THEN None ELSE link[<<c.at, c.name>>]
StoreBefore(c) == "store" \notin c.made /\ <<c.at, c.name>> \in store
AloneBefore(c) == "alone" \in c.made \/ c.dir \in alone
Before(c) == [row |-> None, link |-> LinkBefore(c), store |-> StoreBefore(c),
              mark |-> c.dir \in marked, alone |-> AloneBefore(c)]

\* The standalone row of a connect: it goes before the membership comes.
AloneOfStep(c) ==
  /\ c.pc \in {"checked", "opened"} => c.dir \notin alone \ marked
  /\ c.pc \in {"entered", "stored", "linked"} /\ ~c.absorbs => c.dir \notin alone
  /\ c.pc = "absorbed" => c.dir \notin alone

\* The undo of the mark is armed after the row, and what is to be absorbed was alone.
AsFound(c) == Reports(c) =>
  /\ c.was = {Before(c)}
  /\ "mark" \notin c.made
  /\ c.pc \in Begun /\ c.absorbs => AloneBefore(c)
  /\ AloneOfStep(c)

FoundInv == \A p \in Procs : AsFound(proc[p])

\* What a step leaves alone, when it works on member n of workset r and on directory
\* d; n is None when it works on every member of r.
Leaves(r, n, d) ==
  /\ \A m \in Members : m[1] # r \/ n \notin {m[2], None} =>
       link'[m] = link[m] /\ (m \in store' <=> m \in store)
  /\ \A x \in Dirs \ {d} :
       /\ x \in alone' <=> x \in alone
       /\ (n = None /\ r \in Roots => \A k \in Names : rows[<<r, k>>] # x) =>
            (x \in marked' <=> x \in marked)

LEMMA OthersFind ==
  ASSUME ~Overlap, Typed, NEW me \in SUBSET Procs, NEW r, NEW n, NEW d,
         Apart(me, r, n, d), Leaves(r, n, d), NEW q \in Procs \ me, AsFound(proc[q])
  PROVE  AsFound(proc[q])' \/ proc'[q] # proc[q]
  <1> DEFINE c == proc[q]
             m == <<c.at, c.name>>
  <1> SUFFICES ASSUME proc'[q] = c, Reports(c) PROVE AsFound(proc[q])'
    BY DEF AsFound, Reports
  <1>1. c.pc # "idle" /\ c.pc \in Connecting
    BY DEF Reports, Early, Connecting
  <1>2. /\ c.at = r => None \notin {n, c.name} /\ c.name # n
        /\ d # None => c.dir # d
        /\ n = None /\ r # None /\ c.dir # None => \A k \in Names : rows[<<r, k>>] # c.dir
    BY <1>1 DEF Apart
  <1>3. m \in Members /\ c.dir \in Dirs /\ c.dir # None /\ c.at \in Roots /\ c.name \in Names
    BY <1>1, NoneAssumption DEF Typed, CommandsOK, Sound, Members
  <1>4. link'[m] = link[m] /\ (m \in store' <=> m \in store)
    BY <1>2, <1>3 DEF Leaves
  <1>5. (c.dir \in alone' <=> c.dir \in alone) /\ (c.dir \in marked' <=> c.dir \in marked)
    BY <1>2, <1>3, NoneAssumption DEF Leaves
  <1>6. /\ LinkBefore(c)' = LinkBefore(c) /\ (StoreBefore(c)' <=> StoreBefore(c))
        /\ (AloneBefore(c)' <=> AloneBefore(c))
    BY <1>4, <1>5 DEF LinkBefore, StoreBefore, AloneBefore
  <1>7. Before(c)' = Before(c)
    BY <1>4, <1>5 DEF Before, LinkBefore, StoreBefore, AloneBefore
  <1>8. AloneOfStep(c)' <=> AloneOfStep(c)
    BY <1>5 DEF AloneOfStep
  <1>9. QED
    BY <1>6, <1>7, <1>8 DEF AsFound, Reports

\* One command moves, apart from the others in what it works on.
LEMMA OneFinds ==
  ASSUME ~Overlap, Typed, FoundInv, NEW p \in Procs, NEW r, NEW n, NEW d,
         Apart({p}, r, n, d), Leaves(r, n, d),
         \A q \in Procs \ {p} : proc'[q] = proc[q], AsFound(proc[p])'
  PROVE  FoundInv'
  <1> DEFINE me == {p}
  <1>1. me \in SUBSET Procs /\ Apart(me, r, n, d)
    OBVIOUS
  <1>2. \A q \in Procs : q \in me => q = p
    OBVIOUS
  <1>3. \A q \in Procs \ me : proc'[q] = proc[q]
    OBVIOUS
  <1> HIDE DEF me
  <1>4. QED
    BY <1>1, <1>2, <1>3, OthersFind DEF FoundInv

LEMMA WorksFind ==
  ASSUME ~Overlap, Typed, MarkInv, FoundInv, NEW p \in Procs, Busy(p),
         Leaves(proc[p].at, proc[p].name, proc[p].dir),
         \A q \in Procs \ {p} : proc'[q] = proc[q], AsFound(proc[p])'
  PROVE  FoundInv'
  BY OneFinds DEF MarkInv, AllApart

\* A step of a connect that still can tell: what it learns to undo, and what is there
\* by then, tell the same.
LEMMA StillFinds ==
  ASSUME ~Overlap, Typed, MarkInv, FoundInv, NEW p \in Procs, Reports(proc[p]),
         Leaves(proc[p].at, proc[p].name, proc[p].dir),
         \A q \in Procs \ {p} : proc'[q] = proc[q],
         proc'[p].was = proc[p].was, proc'[p].dir = proc[p].dir,
         LinkBefore(proc[p])' = LinkBefore(proc[p]),
         StoreBefore(proc[p])' <=> StoreBefore(proc[p]),
         AloneBefore(proc[p])' <=> AloneBefore(proc[p]),
         proc[p].dir \in marked' <=> proc[p].dir \in marked, "mark" \notin proc'[p].made,
         proc'[p].pc \in Begun /\ proc'[p].absorbs => AloneBefore(proc[p]),
         AloneOfStep(proc[p])'
  PROVE  FoundInv'
  <1>1. Before(proc[p])' = Before(proc[p])
    BY DEF Before, LinkBefore, StoreBefore, AloneBefore
  <1>2. AsFound(proc[p])'
    BY <1>1 DEF AsFound, FoundInv
  <1>3. Busy(p)
    BY DEF Reports, Busy, Early
  <1>4. QED
    BY <1>2, <1>3, WorksFind

\* A command that ends, or that is none of these, has nothing to tell.
LEMMA SilentFinds ==
  ASSUME NEW p \in Procs, ~Reports(proc'[p])
  PROVE  AsFound(proc[p])'
  BY DEF AsFound, Reports

-----------------------------------------------------------------------------
(* The steps that only touch what is theirs.                                  *)

LEMMA EndsFind ==
  ASSUME ~Overlap, Typed, MarkInv, FoundInv, NEW p \in Procs, Busy(p), Ends(p),
         Leaves(proc[p].at, proc[p].name, proc[p].dir)
  PROVE  FoundInv'
  <1>1. proc'[p] = Idle /\ \A q \in Procs \ {p} : proc'[q] = proc[q]
    BY DEF Ends, Typed, CommandsOK
  <1>2. ~Reports(proc'[p])
    BY <1>1 DEF Reports, Idle, Early
  <1>3. QED
    BY <1>1, <1>2, SilentFinds, WorksFind

LEMMA GoesSilently ==
  ASSUME ~Overlap, Typed, MarkInv, FoundInv, NEW p \in Procs, Busy(p),
         Leaves(proc[p].at, proc[p].name, proc[p].dir),
         NEW e, proc' = [proc EXCEPT ![p] = e], ~Reports(e)
  PROVE  FoundInv'
  <1>1. proc'[p] = e /\ \A q \in Procs \ {p} : proc'[q] = proc[q]
    BY DEF Typed, CommandsOK
  <1>2. QED
    BY <1>1, SilentFinds, WorksFind

\* A step that leaves the links, the box directories, the marks and the standalone rows.
LEMMA NothingMoves ==
  ASSUME UNCHANGED <<link, store, marked, alone>>, NEW r, NEW n, NEW d
  PROVE  Leaves(r, n, d)
  BY DEF Leaves

LEMMA RepairsLeave ==
  ASSUME NEW r \in Roots, NEW n, NEW d, NEW S \in SUBSET Members,
         \A m \in S : m[1] = r /\ (n = None \/ rows[m] = d),
         Repairs(S), UNCHANGED <<link, store, alone>>
  PROVE  Leaves(r, n, d)
  <1>1. PICK kept : marked' = marked \ ({rows[m] : m \in S \cap entry} \ kept)
    BY DEF Repairs
  <1>2. ASSUME NEW x \in Dirs \ {d}, n = None => \A k \in Names : rows[<<r, k>>] # x
        PROVE  x \in marked' <=> x \in marked
    <2>1. ASSUME NEW m \in S, rows[m] = x PROVE FALSE
      <3>1. m[1] = r /\ m[2] \in Names /\ m = <<m[1], m[2]>> /\ n = None
        BY <2>1 DEF Members
      <3>2. QED
        BY <1>2, <2>1, <3>1
    <2>2. QED
      BY <1>1, <2>1
  <1>3. QED
    BY <1>2 DEF Leaves

LEMMA BeginsFind ==
  ASSUME ~Overlap, Typed, FoundInv, NEW p \in Procs, NEW r \in Roots,
         \/ Create(p, r)
         \/ \E purge \in BOOLEAN : Remove(p, r, purge)
         \/ \E n \in Names :
              \/ \E d \in Dirs, force \in BOOLEAN : Connect(p, r, n, d, force)
              \/ \E files \in BOOLEAN : Disconnect(p, r, n, files)
  PROVE  FoundInv'
  <1>1. ASSUME Create(p, r) PROVE FoundInv'
    <2> DEFINE e == [Idle EXCEPT !.pc = "making", !.at = r]
    <2>1. proc' = [proc EXCEPT ![p] = e] /\ Apart({p}, e.at, e.name, e.dir)
      BY <1>1 DEF Create, Starts
    <2>2. ~Reports(e)
      BY DEF Reports, Idle, Early
    <2>3. Leaves(e.at, e.name, e.dir)
      BY <1>1, NothingMoves DEF Create, registries
    <2> HIDE DEF e
    <2>4. proc'[p] = e /\ \A q \in Procs \ {p} : proc'[q] = proc[q]
      BY <2>1 DEF Typed, CommandsOK
    <2>5. QED
      BY <2>1, <2>2, <2>3, <2>4, SilentFinds, OneFinds
  <1>2. ASSUME NEW purge \in BOOLEAN, Remove(p, r, purge) PROVE FoundInv'
    <2> DEFINE e == [Idle EXCEPT !.pc = "agreed", !.at = r, !.flag = purge]
               S == {m \in Members : m[1] = r /\ rows[m] # None}
    <2>1. /\ proc' = [proc EXCEPT ![p] = e] /\ Apart({p}, r, None, None)
          /\ Repairs(S) /\ UNCHANGED <<link, store, alone>>
      BY <1>2 DEF Remove
    <2>2. ~Reports(e)
      BY DEF Reports, Idle, Early
    <2>3. S \in SUBSET Members /\ \A m \in S : m[1] = r
      OBVIOUS
    <2> HIDE DEF e, S
    <2>4. Leaves(r, None, None)
      BY <2>1, <2>3, RepairsLeave
    <2>5. proc'[p] = e /\ \A q \in Procs \ {p} : proc'[q] = proc[q]
      BY <2>1 DEF Typed, CommandsOK
    <2>6. QED
      BY <2>1, <2>2, <2>4, <2>5, SilentFinds, OneFinds
  <1>3. ASSUME NEW n \in Names, NEW files \in BOOLEAN, Disconnect(p, r, n, files)
        PROVE  FoundInv'
    <2> DEFINE m == <<r, n>>
               d == rows[m]
               e == [Idle EXCEPT !.pc = "asked", !.at = r, !.name = n, !.dir = d, !.flag = files]
               S == {m}
    <2>1. /\ proc' = [proc EXCEPT ![p] = e] /\ Apart({p}, r, n, d)
          /\ Repairs(S) /\ UNCHANGED <<link, store, alone>>
      BY <1>3 DEF Disconnect
    <2>2. ~Reports(e)
      BY DEF Reports, Idle, Early
    <2>3. S \in SUBSET Members /\ \A k \in S : k[1] = r /\ rows[k] = d
      BY DEF Members
    <2> HIDE DEF e, S, d
    <2>4. Leaves(r, n, d)
      BY <2>1, <2>3, RepairsLeave
    <2>5. proc'[p] = e /\ \A q \in Procs \ {p} : proc'[q] = proc[q]
      BY <2>1 DEF Typed, CommandsOK
    <2>6. QED
      BY <2>1, <2>2, <2>4, <2>5, SilentFinds, OneFinds
  <1>4. ASSUME NEW n \in Names, NEW d \in Dirs, NEW force \in BOOLEAN, Connect(p, r, n, d, force)
        PROVE  FoundInv'
    <2> DEFINE f == Facts(<<r, n>>, d)
               e == [Idle EXCEPT !.pc = "checked", !.at = r, !.name = n, !.dir = d,
                                 !.flag = force, !.was = {f}]
    <2>1. proc' = [proc EXCEPT ![p] = e] /\ Apart({p}, e.at, e.name, e.dir)
      BY <1>4 DEF Connect, Starts
    <2>2. UNCHANGED <<link, store, marked, alone>> /\ rows[<<r, n>>] = None
      BY <1>4 DEF Connect, disk, registries
    <2> HIDE DEF f
    <2>3. /\ e.pc = "checked" /\ e.at = r /\ e.name = n /\ e.dir = d /\ e.made = {}
          /\ e.was = {f}
      BY DEF Idle
    <2> HIDE DEF e
    <2>4. proc'[p] = e /\ \A q \in Procs \ {p} : proc'[q] = proc[q]
      BY <2>1 DEF Typed, CommandsOK
    <2>5. Before(proc[p])' = f
      BY <2>2, <2>3, <2>4 DEF f, Facts, Before, LinkBefore, StoreBefore, AloneBefore
    <2>6. d \in alone => d \in marked
      BY <1>4 DEF Connect
    <2>7. AsFound(proc[p])'
      BY <2>2, <2>3, <2>4, <2>5, <2>6 DEF AsFound, AloneOfStep, Begun
    <2>8. QED
      BY <2>1, <2>2, <2>3, <2>4, <2>7, NothingMoves, OneFinds
  <1>5. QED
    BY <1>1, <1>2, <1>3, <1>4

LEMMA OutsideFind ==
  ASSUME ~Overlap, Typed, FoundInv,
         \/ \E r \in Roots : Import(r) \/ \E n \in Names : Resolve(r, n) \/ ResolveKilled(r, n)
         \/ \E d \in Dirs : Register(d)
  PROVE  FoundInv'
  <1> DEFINE me == {}
  <1>1. ASSUME NEW r, NEW n, NEW d, Apart({}, r, n, d), Leaves(r, n, d), proc' = proc
        PROVE  FoundInv'
    <2>1. me \in SUBSET Procs /\ Apart(me, r, n, d) /\ \A q \in Procs : q \notin me
      BY <1>1
    <2> HIDE DEF me
    <2>2. \A q \in Procs \ me : AsFound(proc[q])'
      BY <1>1, <2>1, OthersFind DEF FoundInv
    <2>3. QED
      BY <2>1, <2>2 DEF FoundInv
  <1>2. ASSUME NEW r \in Roots, Import(r) PROVE FoundInv'
    BY <1>1, <1>2, NothingMoves DEF Import, disk
  <1>3. ASSUME NEW d \in Dirs, Register(d) PROVE FoundInv'
    <2>1. Apart({}, None, None, d) /\ proc' = proc
      BY <1>3 DEF Register
    <2>2. Leaves(None, None, d)
      BY <1>3 DEF Register, Leaves, disk
    <2>3. QED
      BY <1>1, <2>1, <2>2
  <1>4. ASSUME NEW r \in Roots, NEW n \in Names, Resolve(r, n) PROVE FoundInv'
    <2> DEFINE d == rows[<<r, n>>]
               S == {<<r, n>>}
    <2>1. /\ Apart({}, r, n, d) /\ proc' = proc /\ Repairs(S)
          /\ UNCHANGED <<link, store, alone>>
      BY <1>4 DEF Resolve
    <2>2. S \in SUBSET Members /\ \A k \in S : k[1] = r /\ rows[k] = d
      BY DEF Members
    <2> HIDE DEF d, S
    <2>3. QED
      BY <1>1, <2>1, <2>2, RepairsLeave
  <1>5. ASSUME NEW r \in Roots, NEW n \in Names, ResolveKilled(r, n) PROVE FoundInv'
    <2>1. Apart({}, r, n, rows[<<r, n>>]) /\ proc' = proc
      BY <1>5 DEF ResolveKilled
    <2>2. Leaves(r, n, rows[<<r, n>>])
      BY <1>5 DEF ResolveKilled, Leaves, registries
    <2>3. QED
      BY <1>1, <2>1, <2>2
  <1>6. QED
    BY <1>2, <1>3, <1>4, <1>5

-----------------------------------------------------------------------------
(* The steps of a connect, and of its undo.                                   *)

\* A step of a connect that neither makes nor undoes anything.
LEMMA QuietFinds ==
  ASSUME ~Overlap, Typed, MarkInv, FoundInv, NEW p \in Procs, Busy(p),
         UNCHANGED <<link, store, marked, alone>>,
         NEW e, proc' = [proc EXCEPT ![p] = e],
         Reports(e) =>
           /\ Reports(proc[p]) /\ e.was = proc[p].was /\ e.at = proc[p].at
           /\ e.name = proc[p].name /\ e.dir = proc[p].dir /\ e.made = proc[p].made
           /\ e.pc \in Begun /\ e.absorbs =>
                \/ proc[p].pc \in Begun /\ proc[p].absorbs
                \/ e.dir \in alone
           /\ AloneOfStep(e)
  PROVE  FoundInv'
  <1>1. Leaves(proc[p].at, proc[p].name, proc[p].dir)
    BY NothingMoves
  <1>2. CASE ~Reports(e)
    BY <1>1, <1>2, GoesSilently
  <1>3. CASE Reports(e)
    <2>1. proc'[p] = e /\ \A q \in Procs \ {p} : proc'[q] = proc[q]
      BY DEF Typed, CommandsOK
    <2>2. /\ LinkBefore(proc[p])' = LinkBefore(proc[p])
          /\ (StoreBefore(proc[p])' <=> StoreBefore(proc[p]))
          /\ (AloneBefore(proc[p])' <=> AloneBefore(proc[p]))
      BY <1>3, <2>1 DEF LinkBefore, StoreBefore, AloneBefore
    <2>3. e.pc \in Begun /\ e.absorbs => AloneBefore(proc[p])
      BY <1>3 DEF FoundInv, AsFound, AloneBefore
    <2>4. "mark" \notin e.made
      BY <1>3 DEF FoundInv, AsFound
    <2>5. AloneOfStep(proc[p])'
      BY <1>3, <2>1 DEF AloneOfStep
    <2>6. QED
      BY <1>1, <1>3, <2>1, <2>2, <2>3, <2>4, <2>5, StillFinds
  <1>4. QED
    BY <1>2, <1>3

\* What a connect at work has.
LEMMA Finding ==
  ASSUME Typed, MarkInv, NEW p \in Procs, proc[p].pc \in Connecting
  PROVE  /\ proc[p] \in Command /\ Busy(p) /\ Member(p) = <<proc[p].at, proc[p].name>>
         /\ Member(p) \in Members /\ proc[p].dir \in Dirs
  BY AtWork

LEMMA QuietStepsFind ==
  ASSUME ~Overlap, Typed, MarkInv, FoundInv, NEW p \in Procs,
         Open(p) \/ Enter(p) \/ WriteRow(p) \/ Fail(p) \/ Interrupt(p) \/ UndoRow(p) \/ UndoFails(p)
  PROVE  FoundInv'
  <1> DEFINE c == proc[p]
  <1>1. c \in Command /\ Busy(p)
    BY Finding DEF Open, Enter, WriteRow, Fail, Interrupt, UndoRow, UndoFails, Undoes, At, Connecting
  <1>2. UNCHANGED <<link, store, marked, alone>>
    BY DEF Open, Enter, WriteRow, Fail, Interrupt, UndoRow, UndoFails, disk, registries
  <1>3. CASE Open(p)
    <2> DEFINE e == [c EXCEPT !.pc = "opened"]
    <2>1. proc' = [proc EXCEPT ![p] = e] /\ c.pc = "checked"
      BY <1>3 DEF Open, Goto, At
    <2>2. /\ e.was = c.was /\ e.at = c.at /\ e.name = c.name /\ e.dir = c.dir
          /\ e.made = c.made /\ e.pc = "opened"
      BY <1>1 DEF Command
    <2> HIDE DEF e
    <2>3. AloneOfStep(e)
      BY <2>1, <2>2 DEF FoundInv, AsFound, AloneOfStep, Reports, Early
    <2>4. QED
      BY <1>1, <1>2, <2>1, <2>2, <2>3, QuietFinds DEF Reports, Early, Begun
  <1>4. CASE Enter(p)
    <2>1. c.pc = "opened"
      BY <1>4 DEF Enter, At
    <2>2. CASE proc' = [proc EXCEPT ![p].pc = "undoing", ![p].how = "refused"]
      <3> DEFINE e == [c EXCEPT !.pc = "undoing", !.how = "refused"]
      <3>1. proc' = [proc EXCEPT ![p] = e]
        BY <2>2
      <3>2. /\ e.was = c.was /\ e.at = c.at /\ e.name = c.name /\ e.dir = c.dir
            /\ e.made = c.made /\ e.pc = "undoing"
        BY <1>1 DEF Command
      <3> HIDE DEF e
      <3>3. QED
        BY <1>1, <1>2, <2>1, <3>1, <3>2, QuietFinds DEF Reports, Early, Begun, AloneOfStep
    <2>3. CASE proc' = [proc EXCEPT ![p].pc = "entered", ![p].mark = c.dir \in marked,
                                    ![p].absorbs = c.dir \in marked \cap alone]
      <3> DEFINE has == c.dir \in marked
                 takes == c.dir \in marked \cap alone
                 e == [c EXCEPT !.pc = "entered", !.mark = has, !.absorbs = takes]
      <3>1. (takes => c.dir \in alone) /\ (~takes /\ c.dir \in alone => c.dir \notin marked)
        OBVIOUS
      <3>2. proc' = [proc EXCEPT ![p].pc = "entered", ![p].mark = has, ![p].absorbs = takes]
        BY <2>3
      <3> HIDE DEF has, takes
      <3>3. proc' = [proc EXCEPT ![p] = e]
        BY <3>2
      <3>4. /\ e.was = c.was /\ e.at = c.at /\ e.name = c.name /\ e.dir = c.dir
            /\ e.made = c.made /\ e.pc = "entered" /\ e.absorbs = takes
        BY <1>1 DEF Command
      <3> HIDE DEF e
      <3>5. Reports(c)
        BY <2>1 DEF Reports, Early
      <3>6. AloneOfStep(e)
        BY <2>1, <3>1, <3>4, <3>5 DEF FoundInv, AsFound, AloneOfStep
      <3>7. QED
        BY <1>1, <1>2, <3>1, <3>3, <3>4, <3>5, <3>6, QuietFinds
    <2>4. QED
      BY <1>4, <2>2, <2>3 DEF Enter
  <1>5. CASE WriteRow(p)
    <2>1. c.pc = "absorbed"
      BY <1>5 DEF WriteRow, At
    <2>2. CASE proc' = [proc EXCEPT ![p].pc = "undoing", ![p].how = "refused"]
      <3> DEFINE e == [c EXCEPT !.pc = "undoing", !.how = "refused"]
      <3>1. proc' = [proc EXCEPT ![p] = e]
        BY <2>2
      <3>2. /\ e.was = c.was /\ e.at = c.at /\ e.name = c.name /\ e.dir = c.dir
            /\ e.made = c.made /\ e.pc = "undoing"
        BY <1>1 DEF Command
      <3> HIDE DEF e
      <3>3. QED
        BY <1>1, <1>2, <2>1, <3>1, <3>2, QuietFinds DEF Reports, Early, Begun, AloneOfStep
    <2>3. CASE proc' = [proc EXCEPT ![p].pc = "rowed", ![p].prior = rows[Member(p)],
                                    ![p].made = @ \cup {"row"}]
      <3> DEFINE prior == rows[Member(p)]
                 made == c.made \cup {"row"}
                 e == [c EXCEPT !.pc = "rowed", !.prior = prior, !.made = made]
      <3>1. proc' = [proc EXCEPT ![p] = e]
        BY <2>3
      <3> HIDE DEF prior, made
      <3>2. e.pc = "rowed"
        BY <1>1 DEF Command
      <3> HIDE DEF e
      <3>3. QED
        BY <1>1, <1>2, <3>1, <3>2, QuietFinds DEF Reports, Early
    <2>4. QED
      BY <1>5, <2>2, <2>3 DEF WriteRow
  <1>6. CASE Fail(p)
    <2> DEFINE e == [c EXCEPT !.pc = "undoing"]
    <2>1. proc' = [proc EXCEPT ![p] = e] /\ c.pc \in {"entered", "stored", "linked", "absorbed"}
      BY <1>6 DEF Fail, Goto
    <2>2. /\ e.was = c.was /\ e.at = c.at /\ e.name = c.name /\ e.dir = c.dir
          /\ e.made = c.made /\ e.pc = "undoing"
      BY <1>1 DEF Command
    <2> HIDE DEF e
    <2>3. QED
      BY <1>1, <1>2, <2>1, <2>2, QuietFinds DEF Reports, Early, Begun, AloneOfStep
  <1>7. CASE Interrupt(p)
    <2> DEFINE e == [c EXCEPT !.pc = "undoing", !.how = "interrupt"]
    <2>1. proc' = [proc EXCEPT ![p] = e]
      BY <1>7 DEF Interrupt
    <2>2. e.pc = "undoing" /\ e.how = "interrupt"
      BY <1>1 DEF Command
    <2> HIDE DEF e
    <2>3. QED
      BY <1>1, <1>2, <2>1, <2>2, QuietFinds DEF Reports, Early
  <1>8. CASE UndoRow(p)
    <2> DEFINE made == c.made \ {"row"}
               e == [c EXCEPT !.made = made]
    <2>1. proc' = [proc EXCEPT ![p] = e] /\ c.pc = "undoing"
      BY <1>8 DEF UndoRow, Undid, Undoes, At
    <2>2. \A x \in {"mark", "alone", "link", "store"} : x \in made <=> x \in c.made
      OBVIOUS
    <2> HIDE DEF made
    <2>3. /\ e.was = c.was /\ e.at = c.at /\ e.name = c.name /\ e.dir = c.dir
          /\ e.made = made /\ e.pc = c.pc /\ e.how = c.how /\ e.failed = c.failed
      BY <1>1 DEF Command
    <2> HIDE DEF e
    <2>4. Leaves(c.at, c.name, c.dir)
      BY <1>2, NothingMoves
    <2>5. CASE ~Reports(c)
      BY <1>1, <2>1, <2>3, <2>4, <2>5, GoesSilently DEF Reports
    <2>6. CASE Reports(c)
      <3>1. proc'[p] = e /\ \A q \in Procs \ {p} : proc'[q] = proc[q]
        BY <2>1 DEF Typed, CommandsOK
      <3>2. /\ LinkBefore(proc[p])' = LinkBefore(proc[p])
            /\ (StoreBefore(proc[p])' <=> StoreBefore(proc[p]))
            /\ (AloneBefore(proc[p])' <=> AloneBefore(proc[p]))
        BY <1>2, <2>2, <2>3, <3>1 DEF LinkBefore, StoreBefore, AloneBefore
      <3>3. "mark" \notin e.made
        BY <2>2, <2>3, <2>6 DEF FoundInv, AsFound
      <3>4. e.pc \notin Begun
        BY <2>1, <2>3 DEF Begun
      <3>5. AloneOfStep(proc[p])'
        BY <2>1, <2>3, <3>1 DEF AloneOfStep
      <3>6. QED
        BY <1>2, <2>3, <2>4, <2>6, <3>1, <3>2, <3>3, <3>4, <3>5, StillFinds
    <2>7. QED
      BY <2>5, <2>6
  <1>9. CASE UndoFails(p)
    <2>1. PICK undo \in Undos : proc' = [proc EXCEPT ![p].made = @ \ {undo}, ![p].failed = TRUE]
      BY <1>9 DEF UndoFails
    <2> DEFINE made == c.made \ {undo}
               e == [c EXCEPT !.made = made, !.failed = TRUE]
    <2>2. proc' = [proc EXCEPT ![p] = e] /\ c.pc = "undoing"
      BY <1>9, <2>1 DEF UndoFails, Undoes, At
    <2> HIDE DEF made
    <2>3. e.pc = c.pc /\ e.failed = TRUE
      BY <1>1 DEF Command
    <2> HIDE DEF e
    <2>4. QED
      BY <1>1, <1>2, <2>2, <2>3, QuietFinds DEF Reports, Early
  <1>10. QED
    BY <1>3, <1>4, <1>5, <1>6, <1>7, <1>8, <1>9

\* A step that makes something, cut short or not; its undo is told apart from its effect.
LEMMA DoesFind ==
  ASSUME ~Overlap, Typed, MarkInv, FoundInv, NEW p \in Procs,
         NEW undo \in SUBSET {"store", "link", "alone"},
         NEW pc \in {"stored", "linked", "absorbed"}, Does(p, undo, pc),
         proc[p].pc \in {"entered", "stored", "linked"}, marked' = marked,
         Leaves(proc[p].at, proc[p].name, proc[p].dir),
         pc # "absorbed" => alone' = alone,
         pc = "absorbed" => alone' = IF proc[p].absorbs THEN alone \ {proc[p].dir} ELSE alone,
         LET c == proc[p] m == <<c.at, c.name>> made == c.made \cup undo IN
         /\ (IF "link" \in made THEN None ELSE link'[m]) = LinkBefore(c)
         /\ ("store" \notin made /\ m \in store') <=> StoreBefore(c)
         /\ ("alone" \in made \/ c.dir \in alone') <=> AloneBefore(c)
  PROVE  FoundInv'
  <1> DEFINE c == proc[p]
             made == c.made \cup undo
             cut == [c EXCEPT !.pc = "undoing", !.how = "interrupt"]
             done == [c EXCEPT !.pc = pc, !.made = made]
  <1>1. proc' = [proc EXCEPT ![p] = cut] \/ proc' = [proc EXCEPT ![p] = done]
    BY DEF Does
  <1>2. c \in Command /\ Busy(p)
    BY Finding DEF Connecting
  <1>3. "mark" \in made <=> "mark" \in c.made
    OBVIOUS
  <1>4. /\ (IF "link" \in made THEN None ELSE link'[<<c.at, c.name>>]) = LinkBefore(c)
        /\ ("store" \notin made /\ <<c.at, c.name>> \in store') <=> StoreBefore(c)
        /\ ("alone" \in made \/ c.dir \in alone') <=> AloneBefore(c)
    OBVIOUS
  <1> HIDE DEF made
  <1>5. cut.pc = "undoing" /\ cut.how = "interrupt"
    BY <1>2 DEF Command
  <1>6. /\ done.pc = pc /\ done.made = made /\ done.was = c.was /\ done.at = c.at
        /\ done.name = c.name /\ done.dir = c.dir /\ done.absorbs = c.absorbs
    BY <1>2 DEF Command
  <1> HIDE DEF cut, done
  <1>7. CASE proc' = [proc EXCEPT ![p] = cut]
    BY <1>2, <1>5, <1>7, GoesSilently DEF Reports, Early
  <1>8. CASE proc' = [proc EXCEPT ![p] = done]
    <2>1. proc'[p] = done /\ \A q \in Procs \ {p} : proc'[q] = proc[q]
      BY <1>8 DEF Typed, CommandsOK
    <2>2. /\ LinkBefore(proc[p])' = LinkBefore(proc[p])
          /\ (StoreBefore(proc[p])' <=> StoreBefore(proc[p]))
          /\ (AloneBefore(proc[p])' <=> AloneBefore(proc[p]))
      BY <1>4, <1>6, <2>1 DEF LinkBefore, StoreBefore, AloneBefore
    <2>3. Reports(c) /\ c.pc \in Begun
      BY DEF Reports, Early, Begun
    <2>4. "mark" \notin made /\ (c.absorbs => AloneBefore(c))
      BY <1>3, <2>3 DEF FoundInv, AsFound
    <2>5. ~c.absorbs => c.dir \notin alone
      BY <2>3 DEF FoundInv, AsFound, AloneOfStep
    <2>6. AloneOfStep(proc[p])'
      BY <1>6, <2>1, <2>5 DEF AloneOfStep
    <2>7. QED
      BY <1>6, <2>1, <2>2, <2>3, <2>4, <2>6, StillFinds
  <1>9. QED
    BY <1>1, <1>7, <1>8

LEMMA MakesFind ==
  ASSUME ~Overlap, Typed, MarkInv, FoundInv, NEW p \in Procs,
         MakeStore(p) \/ Link(p) \/ Absorb(p)
  PROVE  FoundInv'
  <1> DEFINE c == proc[p]
             m == <<c.at, c.name>>
  <1>1. /\ c \in Command /\ Member(p) = m /\ m \in Members /\ c.dir \in Dirs
        /\ m[1] = c.at /\ m[2] = c.name
    BY Finding DEF MakeStore, Link, Absorb, At, Connecting
  <1>2. \A k \in Members : k[1] # c.at \/ c.name \notin {k[2], None} => k # m
    BY <1>1
  <1>3. CASE MakeStore(p)
    <2>1. /\ c.pc = "entered" /\ store' = store \cup {m}
          /\ UNCHANGED <<link, marked, alone>>
      BY <1>1, <1>3 DEF MakeStore, At, registries
    <2>2. Leaves(c.at, c.name, c.dir)
      BY <1>2, <2>1 DEF Leaves
    <2> DEFINE undo == IF m \in store THEN {} ELSE {"store"}
    <2>3. Does(p, undo, "stored") /\ undo \in SUBSET {"store", "link", "alone"}
      BY <1>1, <1>3 DEF MakeStore
    <2>4. /\ "link" \notin undo /\ "alone" \notin undo
          /\ "store" \in undo <=> m \notin store
      OBVIOUS
    <2> HIDE DEF undo
    <2>5. LET made == c.made \cup undo IN
          /\ (IF "link" \in made THEN None ELSE link'[m]) = LinkBefore(c)
          /\ ("store" \notin made /\ m \in store') <=> StoreBefore(c)
          /\ ("alone" \in made \/ c.dir \in alone') <=> AloneBefore(c)
      BY <2>1, <2>4 DEF LinkBefore, StoreBefore, AloneBefore
    <2>6. QED
      BY <2>1, <2>2, <2>3, <2>5, DoesFind
  <1>4. CASE Link(p)
    <2>1. /\ c.pc = "stored" /\ UNCHANGED <<store, marked, alone>>
          /\ link' = [link EXCEPT ![m] = IF @ = None THEN c.dir ELSE @]
      BY <1>1, <1>4 DEF Link, At, registries
    <2>2. /\ \A k \in Members \ {m} : link'[k] = link[k]
          /\ link[m] # None => link'[m] = link[m]
      BY <1>1, <2>1 DEF Typed, StoresOK
    <2>3. Leaves(c.at, c.name, c.dir)
      BY <1>2, <2>1, <2>2 DEF Leaves
    <2> DEFINE undo == IF link[m] = None THEN {"link"} ELSE {}
    <2>4. Does(p, undo, "linked") /\ undo \in SUBSET {"store", "link", "alone"}
      BY <1>1, <1>4 DEF Link
    <2>5. /\ "store" \notin undo /\ "alone" \notin undo
          /\ "link" \in undo <=> link[m] = None
      OBVIOUS
    <2> HIDE DEF undo
    <2>6. LET made == c.made \cup undo IN
          /\ (IF "link" \in made THEN None ELSE link'[m]) = LinkBefore(c)
          /\ ("store" \notin made /\ m \in store') <=> StoreBefore(c)
          /\ ("alone" \in made \/ c.dir \in alone') <=> AloneBefore(c)
      BY <2>1, <2>2, <2>5 DEF LinkBefore, StoreBefore, AloneBefore
    <2>7. QED
      BY <2>1, <2>3, <2>4, <2>6, DoesFind
  <1>5. CASE Absorb(p)
    <2>1. /\ c.pc = "linked" /\ UNCHANGED <<store, link, marked>>
          /\ alone' = IF c.absorbs THEN alone \ {c.dir} ELSE alone
      BY <1>5 DEF Absorb, At, disk
    <2>2. Leaves(c.at, c.name, c.dir)
      BY <2>1 DEF Leaves
    <2>3. c.absorbs => AloneBefore(c)
      BY <2>1 DEF FoundInv, AsFound, Reports, Early, Begun
    <2> DEFINE undo == IF c.absorbs THEN {"alone"} ELSE {}
    <2>4. Does(p, undo, "absorbed") /\ undo \in SUBSET {"store", "link", "alone"}
      BY <1>5 DEF Absorb
    <2>5. "store" \notin undo /\ "link" \notin undo /\ ("alone" \in undo <=> c.absorbs)
      OBVIOUS
    <2> HIDE DEF undo
    <2>6. LET made == c.made \cup undo IN
          /\ (IF "link" \in made THEN None ELSE link'[m]) = LinkBefore(c)
          /\ ("store" \notin made /\ m \in store') <=> StoreBefore(c)
          /\ ("alone" \in made \/ c.dir \in alone') <=> AloneBefore(c)
      BY <2>1, <2>3, <2>5 DEF LinkBefore, StoreBefore, AloneBefore
    <2>7. QED
      BY <2>1, <2>2, <2>4, <2>6, DoesFind
  <1>6. QED
    BY <1>3, <1>4, <1>5

LEMMA UndosFind ==
  ASSUME ~Overlap, Typed, MarkInv, FoundInv, NEW p \in Procs,
         NEW undo \in {"mark", "alone", "link", "store"}, Undoes(p, undo), Undid(p, undo),
         \/ /\ undo = "mark" /\ marked' = marked \cup {proc[p].dir}
            /\ UNCHANGED <<link, store, alone>>
         \/ /\ undo = "alone" /\ alone' = alone \cup {proc[p].dir}
            /\ UNCHANGED <<link, store, marked>>
         \/ /\ undo = "link" /\ link' = [link EXCEPT ![Member(p)] = None]
            /\ UNCHANGED <<store, marked, alone>>
         \/ /\ undo = "store" /\ store' = store \ {Member(p)}
            /\ UNCHANGED <<link, marked, alone>>
  PROVE  FoundInv'
  <1> DEFINE c == proc[p]
             m == <<c.at, c.name>>
             made == c.made \ {undo}
             e == [c EXCEPT !.made = made]
  <1>1. c.pc = "undoing" /\ undo \in c.made /\ proc' = [proc EXCEPT ![p] = e]
    BY DEF Undoes, Undid, At
  <1>2. /\ c \in Command /\ Busy(p) /\ Member(p) = m /\ m \in Members /\ c.dir \in Dirs
        /\ m[1] = c.at /\ m[2] = c.name
    BY <1>1, Finding DEF Connecting
  <1>3. Leaves(c.at, c.name, c.dir)
    <2>1. \A k \in Members : k[1] # c.at \/ c.name \notin {k[2], None} => k # m
      BY <1>2
    <2>2. \A k \in Members \ {m} : link'[k] = link[k] /\ (k \in store' <=> k \in store)
      BY <1>2 DEF Typed, StoresOK
    <2>3. \A x \in Dirs \ {c.dir} : (x \in alone' <=> x \in alone) /\ (x \in marked' <=> x \in marked)
      OBVIOUS
    <2>4. QED
      BY <2>1, <2>2, <2>3 DEF Leaves
  <1>4. undo \notin made /\ \A x \in Undos \ {undo} : x \in made <=> x \in c.made
    OBVIOUS
  <1> HIDE DEF made
  <1>5. /\ e.was = c.was /\ e.at = c.at /\ e.name = c.name /\ e.dir = c.dir
        /\ e.made = made /\ e.pc = c.pc /\ e.how = c.how /\ e.failed = c.failed
    BY <1>2 DEF Command
  <1> HIDE DEF e
  <1>6. CASE ~Reports(c)
    BY <1>1, <1>2, <1>3, <1>5, <1>6, GoesSilently DEF Reports
  <1>7. CASE Reports(c)
    <2>1. proc'[p] = e /\ \A q \in Procs \ {p} : proc'[q] = proc[q]
      BY <1>1 DEF Typed, CommandsOK
    <2>2. "mark" \notin c.made /\ undo # "mark"
      BY <1>1, <1>7 DEF FoundInv, AsFound
    <2>3. marked' = marked /\ "mark" \notin made
      BY <1>4, <2>2 DEF Undos
    <2>4. LinkBefore(proc[p])' = LinkBefore(proc[p])
      BY <1>1, <1>2, <1>4, <1>5, <2>1 DEF LinkBefore, Undos, Typed, StoresOK
    <2>5. StoreBefore(proc[p])' <=> StoreBefore(proc[p])
      BY <1>1, <1>2, <1>4, <1>5, <2>1 DEF StoreBefore, Undos
    <2>6. AloneBefore(proc[p])' <=> AloneBefore(proc[p])
      BY <1>1, <1>2, <1>4, <1>5, <2>1 DEF AloneBefore, Undos
    <2>7. e.pc \notin Begun
      BY <1>1, <1>5 DEF Begun
    <2>8. AloneOfStep(proc[p])'
      BY <1>1, <1>5, <2>1 DEF AloneOfStep
    <2>9. QED
      BY <1>3, <1>5, <1>7, <2>1, <2>3, <2>4, <2>5, <2>6, <2>7, <2>8, StillFinds
  <1>8. QED
    BY <1>6, <1>7

-----------------------------------------------------------------------------
(* The steps of the other commands, and the last steps of a connect.          *)

LEMMA EndingsFind ==
  ASSUME ~Overlap, Typed, MarkInv, FoundInv, NEW p \in Procs,
         Created(p) \/ Unmake(p) \/ Close(p) \/ Undone(p) \/ Kill(p) \/ DropRow(p) \/ RemoveRoot(p)
  PROVE  FoundInv'
  <1> DEFINE c == proc[p]
  <1>1. Busy(p) /\ Ends(p)
    BY DEF Created, Unmake, Close, Undone, Kill, DropRow, RemoveRoot, At, Busy, Creating
  <1>2. CASE Created(p) \/ Close(p) \/ Undone(p) \/ Kill(p) \/ DropRow(p)
    <2>1. UNCHANGED <<link, store, marked, alone>>
      BY <1>2 DEF Created, Close, Undone, Kill, DropRow, disk, registries
    <2>2. QED
      BY <1>1, <2>1, NothingMoves, EndsFind
  <1>3. CASE Unmake(p) \/ RemoveRoot(p)
    <2>1. c.name = None /\ c.pc \in Creating \cup Removing
      BY <1>3, AtRoot DEF Unmake, RemoveRoot, At, Removing
    <2>2. \A m \in Members : m[1] # c.at => link'[m] = link[m] /\ (m \in store' <=> m \in store)
      <3>1. CASE Unmake(p)
        BY <3>1 DEF Unmake
      <3>2. CASE RemoveRoot(p)
        BY <3>2 DEF RemoveRoot
      <3>3. QED
        BY <1>3, <3>1, <3>2
    <2>3. UNCHANGED <<marked, alone>>
      BY <1>3 DEF Unmake, RemoveRoot, registries
    <2>4. Leaves(c.at, c.name, c.dir)
      BY <2>1, <2>2, <2>3 DEF Leaves
    <2>5. QED
      BY <1>1, <2>4, EndsFind
  <1>4. QED
    BY <1>2, <1>3

LEMMA OthersFindOn ==
  ASSUME ~Overlap, Typed, MarkInv, FoundInv, NEW p \in Procs,
         \/ Lay(p) \/ List(p) \/ DropMark(p) \/ RemoveStore(p) \/ Unlink(p)
         \/ RemoveTree(p) \/ Unlist(p)
  PROVE  FoundInv'
  <1> DEFINE c == proc[p]
  <1>1. ASSUME Leaves(c.at, c.name, c.dir), Busy(p), c \in Command,
               NEW pc \in {"laid", "named", "dropped", "cleaned", "unlinked", "unlisted"}, Goto(p, pc)
        PROVE  FoundInv'
    <2> DEFINE e == [c EXCEPT !.pc = pc]
    <2>1. proc' = [proc EXCEPT ![p] = e]
      BY <1>1 DEF Goto
    <2>2. ~Reports(e)
      BY <1>1 DEF Reports, Early, Command
    <2> HIDE DEF e
    <2>3. QED
      BY <1>1, <2>1, <2>2, GoesSilently
  <1>2. Busy(p) /\ c \in Command
    BY DEF Lay, List, DropMark, RemoveStore, Unlink, RemoveTree, Unlist, At, Busy, Typed,
       CommandsOK, Sound
  <1>3. CASE Lay(p) \/ List(p)
    BY <1>1, <1>2, <1>3, NothingMoves DEF Lay, List, registries, disk
  <1>4. CASE DropMark(p)
    <2>1. Leaves(c.at, c.name, c.dir)
      BY <1>4 DEF DropMark, Leaves, registries
    <2>2. CASE Goto(p, "dropped")
      BY <1>1, <1>2, <2>1, <2>2
    <2>3. CASE proc' = [proc EXCEPT ![p].pc = "dropped", ![p].made = @ \cup {"mark"}]
      <3> DEFINE made == c.made \cup {"mark"}
                 e == [c EXCEPT !.pc = "dropped", !.made = made]
      <3>1. proc' = [proc EXCEPT ![p] = e]
        BY <2>3
      <3> HIDE DEF made
      <3>2. ~Reports(e)
        BY <1>2 DEF Reports, Early, Command
      <3> HIDE DEF e
      <3>3. QED
        BY <1>2, <2>1, <3>1, <3>2, GoesSilently
    <2>4. QED
      BY <1>4, <2>2, <2>3 DEF DropMark
  <1>5. CASE RemoveStore(p) \/ Unlink(p)
    <2>1. /\ Member(p) = <<c.at, c.name>> /\ Member(p) \in Members
          /\ \A m \in Members : m[1] # c.at \/ c.name \notin {m[2], None} => m # Member(p)
      BY <1>5, AtWork DEF RemoveStore, Unlink, At, Leaving
    <2>2. Leaves(c.at, c.name, c.dir)
      <3>1. CASE RemoveStore(p)
        BY <2>1, <3>1 DEF RemoveStore, Leaves, registries
      <3>2. CASE Unlink(p)
        <4>1. \A m \in Members \ {Member(p)} : link'[m] = link[m]
          BY <3>2 DEF Unlink, Typed, StoresOK
        <4>2. QED
          BY <2>1, <3>2, <4>1 DEF Unlink, Leaves, registries
      <3>3. QED
        BY <1>5, <3>1, <3>2
    <2>3. QED
      BY <1>1, <1>2, <1>5, <2>2 DEF RemoveStore, Unlink
  <1>6. CASE RemoveTree(p)
    <2>1. c.name = None /\ c.pc = "agreed"
      BY <1>6, AtRoot DEF RemoveTree, At, Removing
    <2>2. Leaves(c.at, c.name, c.dir)
      BY <1>6, <2>1 DEF RemoveTree, Leaves, registries
    <2>3. proc' = [proc EXCEPT ![p] = c] /\ ~Reports(c)
      BY <1>6, <2>1 DEF RemoveTree, Reports, Early, Typed, CommandsOK
    <2>4. QED
      BY <1>2, <2>2, <2>3, GoesSilently
  <1>7. CASE Unlist(p)
    <2>1. Leaves(c.at, c.name, c.dir)
      BY <1>7, NothingMoves DEF Unlist, disk
    <2>2. Goto(p, "unlisted") \/ Ends(p)
      BY <1>7 DEF Unlist
    <2>3. QED
      BY <1>1, <1>2, <2>1, <2>2, EndsFind
  <1>8. QED
    BY <1>3, <1>4, <1>5, <1>6, <1>7

LEMMA NextFinds ==
  ASSUME ~Overlap, Typed, MarkInv, FoundInv, [Next]_vars
  PROVE  FoundInv'
  <1>1. CASE UNCHANGED vars
    BY <1>1 DEF vars, disk, registries, FoundInv, AsFound, Reports, AloneOfStep, Before,
       LinkBefore, StoreBefore, AloneBefore
  <1>2. ASSUME NEW p \in Procs, NEW r \in Roots,
               \/ Create(p, r)
               \/ \E purge \in BOOLEAN : Remove(p, r, purge)
               \/ \E n \in Names :
                    \/ \E d \in Dirs, force \in BOOLEAN : Connect(p, r, n, d, force)
                    \/ \E files \in BOOLEAN : Disconnect(p, r, n, files)
        PROVE  FoundInv'
    BY <1>2, BeginsFind
  <1>3. ASSUME NEW p \in Procs,
               \/ Open(p) \/ Enter(p) \/ WriteRow(p) \/ Fail(p) \/ Interrupt(p) \/ UndoRow(p)
               \/ UndoFails(p)
        PROVE  FoundInv'
    BY <1>3, QuietStepsFind
  <1>4. ASSUME NEW p \in Procs, MakeStore(p) \/ Link(p) \/ Absorb(p) PROVE FoundInv'
    BY <1>4, MakesFind
  <1>5. ASSUME NEW p \in Procs, UndoMark(p) \/ UndoAbsorb(p) \/ UndoLink(p) \/ UndoStore(p)
        PROVE  FoundInv'
    BY <1>5, UndosFind DEF UndoMark, UndoAbsorb, UndoLink, UndoStore, registries, disk
  <1>6. ASSUME NEW p \in Procs,
               \/ Created(p) \/ Unmake(p) \/ Close(p) \/ Undone(p) \/ Kill(p) \/ DropRow(p)
               \/ RemoveRoot(p)
        PROVE  FoundInv'
    BY <1>6, EndingsFind
  <1>7. ASSUME NEW p \in Procs,
               \/ Lay(p) \/ List(p) \/ DropMark(p) \/ RemoveStore(p) \/ Unlink(p)
               \/ RemoveTree(p) \/ Unlist(p)
        PROVE  FoundInv'
    BY <1>7, OthersFindOn
  <1>8. QED
    BY <1>1, <1>2, <1>3, <1>4, <1>5, <1>6, <1>7, OutsideFind DEF Next

\* A connect that fails and undoes every step leaves the records, the link and the box
\* directory as it found them (add_project and its rollback): what it takes over is not
\* removed, what it made is.
THEOREM FailureLeavesNothing == ASSUME ~Overlap PROVE Spec => []AllOrNothing
  <1>1. Init => FoundInv
    BY DEF Init, Idle, FoundInv, AsFound, Reports, Early
  <1>2. TypeOK => Typed
    BY Halves DEF Typed
  <1>3. Typed /\ MarkInv /\ FoundInv /\ [Next]_vars => FoundInv'
    BY NextFinds
  <1>4. Typed /\ MarkInv /\ FoundInv => AllOrNothing
    <2> SUFFICES ASSUME Typed, MarkInv, FoundInv, NEW p \in Procs, proc[p].pc = "undoing",
                        proc[p].made = {}, proc[p].how # "interrupt", ~proc[p].failed
                 PROVE  proc[p].was = {Facts(Member(p), proc[p].dir)}
      BY DEF AllOrNothing
    <2>1. proc[p].was = {Before(proc[p])}
      BY DEF FoundInv, AsFound, Reports
    <2>2. Member(p) = <<proc[p].at, proc[p].name>> /\ Keeps(p)
      BY AtWork DEF Connecting
    <2>3. rows[Member(p)] = None
      BY <2>2 DEF Keeps, RowOfStep
    <2>4. Before(proc[p]) = Facts(Member(p), proc[p].dir)
      BY <2>2, <2>3 DEF Before, Facts, LinkBefore, StoreBefore, AloneBefore
    <2>5. QED
      BY <2>1, <2>4
  <1>5. QED
    BY <1>1, <1>2, <1>3, <1>4, MarksKept, TypeCorrect, PTL DEF Spec

-----------------------------------------------------------------------------
(* One record: whose workset holds a directory, while a connect works on it.  *)

\* No listed workset holds the directory of a connect but by the row that it wrote,
\* unless that row could not be taken back.
RecordOfStep(c) == c.pc \in Connecting /\ c.dir \notin lapse =>
  /\ Holders(c.dir) \subseteq {<<c.at, c.name>>}
  /\ "row" \notin c.made => Holders(c.dir) = {}

RecordInv == \A p \in Procs : RecordOfStep(proc[p])

\* A step that works on member n of workset r and on directory d gives no other
\* directory a holder; n is None when it works on every member of r.
HoldsNoMore(r, n, d) ==
  /\ lapse \subseteq lapse'
  /\ \A x \in Dirs \ {d} :
       (n = None /\ r \in Roots => \A k \in Names : rows[<<r, k>>] # x) =>
         Holders(x)' \subseteq Holders(x)

LEMMA OthersRecorded ==
  ASSUME ~Overlap, Typed, NEW me \in SUBSET Procs, NEW r, NEW n, NEW d,
         Apart(me, r, n, d), HoldsNoMore(r, n, d), NEW q \in Procs \ me, RecordOfStep(proc[q])
  PROVE  RecordOfStep(proc[q])' \/ proc'[q] # proc[q]
  <1> DEFINE c == proc[q]
  <1> SUFFICES ASSUME proc'[q] = c, c.pc \in Connecting, c.dir \notin lapse'
               PROVE  RecordOfStep(proc[q])'
    BY DEF RecordOfStep
  <1>1. /\ d # None => c.dir # d
        /\ n = None /\ r # None /\ c.dir # None => \A k \in Names : rows[<<r, k>>] # c.dir
    BY DEF Apart, Connecting
  <1>2. c.dir \in Dirs /\ c.dir # None
    BY NoneAssumption DEF Typed, CommandsOK, Sound
  <1>3. Holders(c.dir)' \subseteq Holders(c.dir) /\ c.dir \notin lapse
    BY <1>1, <1>2, NoneAssumption DEF HoldsNoMore
  <1>4. QED
    BY <1>3 DEF RecordOfStep, Holders

LEMMA OneRecorded ==
  ASSUME ~Overlap, Typed, RecordInv, NEW p \in Procs, NEW r, NEW n, NEW d,
         Apart({p}, r, n, d), HoldsNoMore(r, n, d),
         \A q \in Procs \ {p} : proc'[q] = proc[q], RecordOfStep(proc[p])'
  PROVE  RecordInv'
  <1> DEFINE me == {p}
  <1>1. me \in SUBSET Procs /\ Apart(me, r, n, d)
    OBVIOUS
  <1>2. \A q \in Procs : q \in me => q = p
    OBVIOUS
  <1>3. \A q \in Procs \ me : proc'[q] = proc[q]
    OBVIOUS
  <1> HIDE DEF me
  <1>4. QED
    BY <1>1, <1>2, <1>3, OthersRecorded DEF RecordInv

\* No directory gets a holder that did not have it.
NoNewHolder == \A x \in Dirs : Holders(x)' \subseteq Holders(x)

\* A command at work, of which it is left to say what it holds.
LEMMA WorksRecorded ==
  ASSUME ~Overlap, Typed, MarkInv, RecordInv, NEW p \in Procs, Busy(p),
         HoldsNoMore(proc[p].at, proc[p].name, proc[p].dir),
         NEW e, proc' = [proc EXCEPT ![p] = e], RecordOfStep(proc[p])'
  PROVE  RecordInv'
  <1>1. Apart({p}, proc[p].at, proc[p].name, proc[p].dir)
    BY DEF MarkInv, AllApart
  <1>2. \A q \in Procs \ {p} : proc'[q] = proc[q]
    BY DEF Typed, CommandsOK
  <1>3. QED
    BY <1>1, <1>2, OneRecorded

\* Nothing is learnt: the command goes on with what it made, or is no connect.
LEMMA CalmRecorded ==
  ASSUME ~Overlap, Typed, MarkInv, RecordInv, NEW p \in Procs, Busy(p),
         NoNewHolder, lapse \subseteq lapse',
         NEW e, proc' = [proc EXCEPT ![p] = e],
         e.pc \in Connecting =>
           /\ proc[p].pc \in Connecting
           /\ e.at = proc[p].at /\ e.name = proc[p].name /\ e.dir = proc[p].dir
           /\ "row" \in proc[p].made => "row" \in e.made \/ e.dir \in lapse'
  PROVE  RecordInv'
  <1>1. proc'[p] = e
    BY DEF Typed, CommandsOK
  <1>2. HoldsNoMore(proc[p].at, proc[p].name, proc[p].dir)
    BY DEF NoNewHolder, HoldsNoMore
  <1>3. RecordOfStep(proc[p])'
    <2> SUFFICES ASSUME e.pc \in Connecting, e.dir \notin lapse'
                 PROVE  RecordOfStep(proc[p])'
      BY <1>1 DEF RecordOfStep
    <2>1. proc[p].pc \in Connecting /\ e.dir \in Dirs /\ e.dir \notin lapse
      BY DEF Typed, CommandsOK, Sound
    <2>2. Holders(e.dir)' \subseteq Holders(e.dir)
      BY <2>1 DEF NoNewHolder
    <2>3. /\ Holders(e.dir) \subseteq {<<e.at, e.name>>}
          /\ "row" \notin proc[p].made => Holders(e.dir) = {}
      BY <2>1 DEF RecordInv, RecordOfStep
    <2>4. QED
      BY <1>1, <2>2, <2>3 DEF RecordOfStep, Holders
  <1>4. QED
    BY <1>2, <1>3, WorksRecorded

\* What the property says of a step.
RecordsStayOne ==
  \A d \in Dirs \ lapse' : OneRecord(d) /\ listed' \subseteq listed => OneRecord(d)'

LEMMA NoHolderNoRecord ==
  ASSUME NoNewHolder, alone' \subseteq alone
  PROVE  RecordsStayOne
  <1> SUFFICES ASSUME NEW d \in Dirs, OneRecord(d) PROVE OneRecord(d)'
    BY DEF RecordsStayOne
  <1>1. Holders(d)' \subseteq Holders(d)
    BY DEF NoNewHolder
  <1>2. QED
    BY <1>1 DEF OneRecord

LEMMA RowsStay ==
  ASSUME Typed, \A m \in Members : rows'[m] \in {rows[m], None}, listed' \subseteq listed
  PROVE  NoNewHolder
  BY NoneAssumption DEF NoNewHolder, Holders

LEMMA EndsRecorded ==
  ASSUME ~Overlap, Typed, MarkInv, RecordInv, NEW p \in Procs, Busy(p), Ends(p), NoNewHolder,
         lapse \subseteq lapse'
  PROVE  RecordInv'
  <1>1. Idle.pc \notin Connecting
    BY DEF Idle, Connecting
  <1>2. QED
    BY <1>1, CalmRecorded DEF Ends

LEMMA GoesRecorded ==
  ASSUME ~Overlap, Typed, MarkInv, RecordInv, NEW p \in Procs, Busy(p), NoNewHolder,
         lapse \subseteq lapse', NEW pc, Goto(p, pc), pc \in Connecting => proc[p].pc \in Connecting
  PROVE  RecordInv'
  <1> DEFINE c == proc[p]
             e == [c EXCEPT !.pc = pc]
  <1>1. c \in Command
    BY DEF Typed, CommandsOK, Sound
  <1>2. proc' = [proc EXCEPT ![p] = e]
    BY DEF Goto
  <1>3. e.pc = pc /\ e.at = c.at /\ e.name = c.name /\ e.dir = c.dir /\ e.made = c.made
    BY <1>1 DEF Command
  <1> HIDE DEF e
  <1>4. QED
    BY <1>2, <1>3, CalmRecorded

LEMMA RestRecorded ==
  ASSUME ~Overlap, Typed, MarkInv, RecordInv, NEW p \in Procs,
         \/ Lay(p) \/ List(p) \/ Created(p) \/ Unmake(p)
         \/ RemoveStore(p) \/ Unlink(p) \/ DropRow(p) \/ RemoveTree(p) \/ Unlist(p) \/ RemoveRoot(p)
         \/ Kill(p) \/ Close(p) \/ Undone(p)
  PROVE  RecordInv' /\ RecordsStayOne
  <1> DEFINE c == proc[p]
  <1>1. Busy(p) /\ lapse \subseteq lapse'
    BY DEF Lay, List, Created, Unmake, RemoveStore, Unlink, DropRow, RemoveTree, Unlist, RemoveRoot,
       Kill, Close, Undone, Notes, At, Busy, Creating
  <1>2. alone' \subseteq alone
    BY DEF Lay, List, Created, Unmake, RemoveStore, Unlink, DropRow, RemoveTree, Unlist, RemoveRoot,
       Kill, Close, Undone, registries
  <1>3. NoNewHolder
    <2>1. CASE List(p)
      <3>1. c.at \in Roots /\ \A k \in Names : rows[<<c.at, k>>] = None
        BY <2>1, AtRoot DEF List, At, Creating, Keeps, FreshRows
      <3>2. \A m \in Members : m[1] = c.at => rows[m] = None
        BY <3>1 DEF Members
      <3>3. QED
        BY <2>1, <3>2, NoneAssumption DEF List, disk, NoNewHolder, Holders
    <2>2. CASE ~List(p)
      <3>1. listed' \subseteq listed
        BY <2>2 DEF Lay, Created, Unmake, RemoveStore, Unlink, DropRow, RemoveTree, Unlist, RemoveRoot,
           Kill, Close, Undone, registries
      <3>2. ASSUME NEW m \in Members PROVE rows'[m] \in {rows[m], None}
        <4>1. CASE DropRow(p)
          BY <4>1 DEF DropRow, Typed, StoresOK
        <4>2. CASE Unmake(p)
          BY <4>2 DEF Unmake
        <4>3. CASE RemoveRoot(p)
          BY <4>3 DEF RemoveRoot
        <4>4. CASE ~(DropRow(p) \/ Unmake(p) \/ RemoveRoot(p))
          BY <2>2, <4>4 DEF Lay, Created, RemoveStore, Unlink, RemoveTree, Unlist, Kill, Close,
             Undone, disk
        <4>5. QED
          BY <4>1, <4>2, <4>3, <4>4
      <3>3. QED
        BY <3>1, <3>2, RowsStay
    <2>3. QED
      BY <2>1, <2>2
  <1>4. RecordInv'
    <2>1. CASE Ends(p)
      BY <1>1, <1>3, <2>1, EndsRecorded
    <2>2. CASE \E pc \in {"laid", "named", "cleaned", "unlinked", "unlisted"} : Goto(p, pc)
      BY <1>1, <1>3, <2>2, GoesRecorded DEF Connecting
    <2>3. CASE RemoveTree(p)
      <3>1. proc' = [proc EXCEPT ![p] = c] /\ c.pc \notin Connecting
        BY <2>3 DEF RemoveTree, At, Connecting, Typed, CommandsOK
      <3>2. QED
        BY <1>1, <1>3, <3>1, CalmRecorded
    <2>4. QED
      BY <2>1, <2>2, <2>3 DEF Lay, List, Created, Unmake, RemoveStore, Unlink, DropRow, Unlist,
         RemoveRoot, Kill, Close, Undone
  <1>5. QED
    BY <1>2, <1>3, <1>4, NoHolderNoRecord

\* The steps of a connect other than the write of the row.
LEMMA ConnectsRecorded ==
  ASSUME ~Overlap, Typed, MarkInv, RecordInv, NEW p \in Procs,
         \/ Open(p) \/ Enter(p) \/ MakeStore(p) \/ Link(p) \/ Absorb(p) \/ DropMark(p)
         \/ Fail(p) \/ Interrupt(p)
  PROVE  RecordInv' /\ RecordsStayOne
  <1> DEFINE c == proc[p]
  <1>1. c \in Command /\ Busy(p) /\ c.pc \in Connecting /\ lapse \subseteq lapse'
    BY Finding DEF Open, Enter, MakeStore, Link, Absorb, DropMark, Fail, Interrupt, Notes, At, Connecting
  <1>2. alone' \subseteq alone /\ UNCHANGED <<rows, listed>>
    BY DEF Open, Enter, MakeStore, Link, Absorb, DropMark, Fail, Interrupt, disk, registries
  <1>3. NoNewHolder
    BY <1>2, RowsStay
  <1> SUFFICES RecordInv'
    BY <1>2, <1>3, NoHolderNoRecord
  <1>4. ASSUME NEW pc, Goto(p, pc)
        PROVE  RecordInv'
    BY <1>1, <1>3, <1>4, GoesRecorded
  <1>5. ASSUME NEW e, proc' = [proc EXCEPT ![p] = e], e.at = c.at, e.name = c.name,
               e.dir = c.dir, c.made \subseteq e.made
        PROVE  RecordInv'
    BY <1>1, <1>3, <1>5, CalmRecorded
  <1>6. CASE Open(p) \/ Fail(p)
    BY <1>4, <1>6 DEF Open, Fail
  <1>7. CASE Interrupt(p)
    <2> DEFINE e == [c EXCEPT !.pc = "undoing", !.how = "interrupt"]
    <2>1. proc' = [proc EXCEPT ![p] = e]
      BY <1>7 DEF Interrupt
    <2>2. e.at = c.at /\ e.name = c.name /\ e.dir = c.dir /\ e.made = c.made
      BY <1>1 DEF Command
    <2> HIDE DEF e
    <2>3. QED
      BY <1>5, <2>1, <2>2
  <1>8. CASE Enter(p)
    <2>1. CASE proc' = [proc EXCEPT ![p].pc = "undoing", ![p].how = "refused"]
      <3> DEFINE e == [c EXCEPT !.pc = "undoing", !.how = "refused"]
      <3>1. proc' = [proc EXCEPT ![p] = e]
        BY <2>1
      <3>2. e.at = c.at /\ e.name = c.name /\ e.dir = c.dir /\ e.made = c.made
        BY <1>1 DEF Command
      <3> HIDE DEF e
      <3>3. QED
        BY <1>5, <3>1, <3>2
    <2>2. CASE proc' = [proc EXCEPT ![p].pc = "entered", ![p].mark = c.dir \in marked,
                                    ![p].absorbs = c.dir \in marked \cap alone]
      <3> DEFINE e == [c EXCEPT !.pc = "entered", !.mark = c.dir \in marked,
                                !.absorbs = c.dir \in marked \cap alone]
      <3>1. proc' = [proc EXCEPT ![p] = e]
        BY <2>2
      <3>2. e.at = c.at /\ e.name = c.name /\ e.dir = c.dir /\ e.made = c.made
        BY <1>1 DEF Command
      <3> HIDE DEF e
      <3>3. QED
        BY <1>5, <3>1, <3>2
    <2>3. QED
      BY <1>8, <2>1, <2>2 DEF Enter
  <1>9. CASE MakeStore(p) \/ Link(p) \/ Absorb(p)
    <2>1. PICK undo, pc : Does(p, undo, pc)
      BY <1>9 DEF MakeStore, Link, Absorb
    <2> DEFINE made == c.made \cup undo
               cut == [c EXCEPT !.pc = "undoing", !.how = "interrupt"]
               done == [c EXCEPT !.pc = pc, !.made = made]
    <2>2. proc' = [proc EXCEPT ![p] = cut] \/ proc' = [proc EXCEPT ![p] = done]
      BY <2>1 DEF Does
    <2>3. c.made \subseteq made
      OBVIOUS
    <2> HIDE DEF made
    <2>4. cut.at = c.at /\ cut.name = c.name /\ cut.dir = c.dir /\ cut.made = c.made
      BY <1>1 DEF Command
    <2>5. done.at = c.at /\ done.name = c.name /\ done.dir = c.dir /\ done.made = made
      BY <1>1 DEF Command
    <2> HIDE DEF cut, done
    <2>6. QED
      BY <1>5, <2>2, <2>3, <2>4, <2>5
  <1>10. CASE DropMark(p)
    <2>1. CASE Goto(p, "dropped")
      BY <1>4, <2>1
    <2>2. CASE proc' = [proc EXCEPT ![p].pc = "dropped", ![p].made = @ \cup {"mark"}]
      <3> DEFINE made == c.made \cup {"mark"}
                 e == [c EXCEPT !.pc = "dropped", !.made = made]
      <3>1. proc' = [proc EXCEPT ![p] = e] /\ c.made \subseteq made
        BY <2>2
      <3> HIDE DEF made
      <3>2. e.at = c.at /\ e.name = c.name /\ e.dir = c.dir /\ e.made = made
        BY <1>1 DEF Command
      <3> HIDE DEF e
      <3>3. QED
        BY <1>5, <3>1, <3>2
    <2>3. QED
      BY <1>10, <2>1, <2>2 DEF DropMark
  <1>11. QED
    BY <1>6, <1>7, <1>8, <1>9, <1>10

\* The steps of an undo other than that of the row and that of the registration.
LEMMA UndosRecorded ==
  ASSUME ~Overlap, Typed, MarkInv, RecordInv, NEW p \in Procs,
         UndoMark(p) \/ UndoLink(p) \/ UndoStore(p) \/ UndoFails(p)
  PROVE  RecordInv' /\ RecordsStayOne
  <1> DEFINE c == proc[p]
  <1>1. c \in Command /\ Busy(p) /\ c.pc \in Connecting
    BY Finding DEF UndoMark, UndoLink, UndoStore, UndoFails, Undoes, At, Connecting
  <1>2. alone' \subseteq alone /\ UNCHANGED <<rows, listed>>
    BY DEF UndoMark, UndoLink, UndoStore, UndoFails, disk, registries
  <1>3. NoNewHolder
    BY <1>2, RowsStay
  <1>4. CASE UndoMark(p) \/ UndoLink(p) \/ UndoStore(p)
    <2>1. PICK undo \in {"mark", "link", "store"} : Undid(p, undo)
      BY <1>4 DEF UndoMark, UndoLink, UndoStore
    <2> DEFINE made == c.made \ {undo}
               e == [c EXCEPT !.made = made]
    <2>2. proc' = [proc EXCEPT ![p] = e] /\ lapse' = lapse
      BY <2>1 DEF Undid
    <2>3. "row" \in c.made => "row" \in made
      OBVIOUS
    <2> HIDE DEF made
    <2>4. e.at = c.at /\ e.name = c.name /\ e.dir = c.dir /\ e.made = made
      BY <1>1 DEF Command
    <2> HIDE DEF e
    <2>5. QED
      BY <1>1, <1>2, <1>3, <2>2, <2>3, <2>4, CalmRecorded, NoHolderNoRecord
  <1>5. CASE UndoFails(p)
    <2>1. PICK undo \in Undos :
            /\ proc' = [proc EXCEPT ![p].made = @ \ {undo}, ![p].failed = TRUE]
            /\ lapse' = lapse \cup (IF undo \in {"mark", "row"} THEN {c.dir} ELSE {})
      BY <1>5 DEF UndoFails, Notes
    <2> DEFINE made == c.made \ {undo}
               e == [c EXCEPT !.made = made, !.failed = TRUE]
    <2>2. proc' = [proc EXCEPT ![p] = e]
      BY <2>1
    <2>3. "row" \in c.made => "row" \in made \/ c.dir \in lapse'
      BY <2>1
    <2> HIDE DEF made
    <2>4. e.at = c.at /\ e.name = c.name /\ e.dir = c.dir /\ e.made = made
      BY <1>1 DEF Command
    <2> HIDE DEF e
    <2>5. QED
      BY <1>1, <1>2, <1>3, <2>1, <2>2, <2>3, <2>4, CalmRecorded, NoHolderNoRecord
  <1>6. QED
    BY <1>4, <1>5

\* The row: nobody else holds the directory, and it is no standalone box any more.
LEMMA WriteRowRecorded ==
  ASSUME ~Overlap, Typed, MarkInv, FoundInv, RecordInv, NEW p \in Procs, WriteRow(p)
  PROVE  RecordInv' /\ RecordsStayOne
  <1> DEFINE c == proc[p]
             m == <<c.at, c.name>>
  <1>1. /\ c \in Command /\ Busy(p) /\ c.pc = "absorbed" /\ c.dir \in Dirs /\ c.dir # None
        /\ Member(p) = m /\ m \in Members /\ rows[m] = None
    BY AtWork DEF WriteRow, At, Connecting, Keeps, RowOfStep, Early
  <1>2. c.dir \notin alone
    BY <1>1 DEF FoundInv, AsFound, AloneOfStep, Reports, Early
  <1>3. UNCHANGED <<listed, alone, lapse>>
    BY DEF WriteRow, registries
  <1>4. CASE rows' = rows /\ proc' = [proc EXCEPT ![p].pc = "undoing", ![p].how = "refused"]
    <2> DEFINE e == [c EXCEPT !.pc = "undoing", !.how = "refused"]
    <2>1. proc' = [proc EXCEPT ![p] = e]
      BY <1>4
    <2>2. e.at = c.at /\ e.name = c.name /\ e.dir = c.dir /\ e.made = c.made
      BY <1>1 DEF Command
    <2>3. NoNewHolder
      BY <1>3, <1>4, RowsStay
    <2> HIDE DEF e
    <2>4. QED
      BY <1>1, <1>3, <2>1, <2>2, <2>3, CalmRecorded, NoHolderNoRecord DEF Connecting
  <1>5. CASE /\ rows' = [rows EXCEPT ![m] = c.dir]
             /\ proc' = [proc EXCEPT ![p].pc = "rowed", ![p].prior = rows[m],
                                     ![p].made = @ \cup {"row"}]
    <2> DEFINE prior == rows[m]
               made == c.made \cup {"row"}
               e == [c EXCEPT !.pc = "rowed", !.prior = prior, !.made = made]
    <2>1. proc' = [proc EXCEPT ![p] = e] /\ "row" \in made
      BY <1>5
    <2> HIDE DEF prior, made
    <2>2. e.at = c.at /\ e.name = c.name /\ e.dir = c.dir /\ e.made = made
      BY <1>1 DEF Command
    <2> HIDE DEF e
    <2>3. /\ proc'[p].at = c.at /\ proc'[p].name = c.name /\ proc'[p].dir = c.dir
          /\ "row" \in proc'[p].made
      BY <2>1, <2>2 DEF Typed, CommandsOK
    <2>4. rows'[m] = c.dir /\ \A k \in Members \ {m} : rows'[k] = rows[k]
      BY <1>1, <1>5 DEF Typed, StoresOK
    <2>5. ASSUME NEW x \in Dirs
          PROVE  Holders(x)' \subseteq Holders(x) \cup (IF x = c.dir THEN {m} ELSE {})
      BY <1>3, <2>4 DEF Holders
    <2>6. c.dir \notin lapse => Holders(c.dir) \subseteq {m}
      BY <1>1 DEF RecordInv, RecordOfStep, Connecting
    <2>7. ASSUME NEW x \in Dirs \ lapse', x = c.dir PROVE Holders(x)' \subseteq {m}
      BY <1>3, <2>5, <2>6, <2>7
    <2>8. RecordInv'
      <3>1. HoldsNoMore(c.at, c.name, c.dir)
        BY <1>3, <2>5 DEF HoldsNoMore
      <3>2. PICK d \in Dirs : d = c.dir
        BY <1>1
      <3>3. d \notin lapse' => Holders(d)' \subseteq {m}
        BY <2>7, <3>2
      <3>4. RecordOfStep(proc[p])'
        BY <2>3, <3>2, <3>3 DEF RecordOfStep, Holders
      <3>5. QED
        BY <1>1, <2>1, <3>1, <3>4, WorksRecorded
    <2>9. RecordsStayOne
      <3> SUFFICES ASSUME NEW d \in Dirs \ lapse', OneRecord(d) PROVE OneRecord(d)'
        BY DEF RecordsStayOne
      <3>1. CASE d = c.dir
        BY <1>2, <1>3, <2>7, <3>1 DEF OneRecord
      <3>2. CASE d # c.dir
        <4>1. Holders(d)' \subseteq Holders(d)
          BY <2>5, <3>2
        <4>2. QED
          BY <1>3, <4>1 DEF OneRecord
      <3>3. QED
        BY <3>1, <3>2
    <2>10. QED
      BY <2>8, <2>9
  <1>6. QED
    BY <1>1, <1>4, <1>5 DEF WriteRow

\* The undo of the row drops it: no row was there before (prior).
LEMMA UndoRowRecorded ==
  ASSUME ~Overlap, Typed, MarkInv, RecordInv, NEW p \in Procs, UndoRow(p)
  PROVE  RecordInv' /\ RecordsStayOne
  <1> DEFINE c == proc[p]
             m == <<c.at, c.name>>
             made == c.made \ {"row"}
             e == [c EXCEPT !.made = made]
  <1>1. /\ c \in Command /\ Busy(p) /\ c.pc = "undoing" /\ c.dir \in Dirs /\ c.dir # None
        /\ Member(p) = m /\ m \in Members /\ c.prior = None
    BY AtWork DEF UndoRow, Undoes, At, Connecting, Keeps, RowOfStep
  <1>2. proc' = [proc EXCEPT ![p] = e] /\ UNCHANGED <<listed, alone, lapse>>
    BY DEF UndoRow, Undid, registries
  <1>3. rows' = IF rows[m] = c.dir THEN [rows EXCEPT ![m] = None] ELSE rows
    BY <1>1 DEF UndoRow
  <1> HIDE DEF made
  <1>4. e.at = c.at /\ e.name = c.name /\ e.dir = c.dir
    BY <1>1 DEF Command
  <1> HIDE DEF e
  <1>5. proc'[p] = e
    BY <1>2 DEF Typed, CommandsOK
  <1>6. rows'[m] # c.dir /\ \A k \in Members : rows'[k] \in {rows[k], None}
    BY <1>1, <1>3 DEF Typed, StoresOK
  <1>7. NoNewHolder
    BY <1>2, <1>6, RowsStay
  <1>8. RecordOfStep(proc[p])'
    <2>1. c.dir \notin lapse => Holders(c.dir) \subseteq {m}
      BY <1>1 DEF RecordInv, RecordOfStep, Connecting
    <2>2. PICK d \in Dirs : d = c.dir
      BY <1>1
    <2>3. m \notin Holders(d)' /\ Holders(d)' \subseteq Holders(d)
      BY <1>1, <1>6, <1>7, <2>2 DEF Holders, NoNewHolder
    <2>4. d \notin lapse' => Holders(d)' = {}
      BY <1>2, <2>1, <2>2, <2>3
    <2>5. QED
      BY <1>4, <1>5, <2>2, <2>4 DEF RecordOfStep, Holders
  <1>9. HoldsNoMore(c.at, c.name, c.dir)
    BY <1>2, <1>7 DEF HoldsNoMore, NoNewHolder
  <1>10. QED
    BY <1>1, <1>2, <1>7, <1>8, <1>9, WorksRecorded, NoHolderNoRecord

\* The registration comes back when the row has gone.
LEMMA UndoAbsorbRecorded ==
  ASSUME ~Overlap, Typed, MarkInv, RecordInv, NEW p \in Procs, UndoAbsorb(p)
  PROVE  RecordInv' /\ RecordsStayOne
  <1> DEFINE c == proc[p]
             made == c.made \ {"alone"}
             e == [c EXCEPT !.made = made]
  <1>1. c \in Command /\ Busy(p) /\ c.pc = "undoing" /\ c.dir \in Dirs
    BY Finding DEF UndoAbsorb, Undoes, At, Connecting
  <1>2. /\ proc' = [proc EXCEPT ![p] = e] /\ UNCHANGED <<rows, listed, lapse>>
        /\ alone' = alone \cup {c.dir}
    BY DEF UndoAbsorb, Undid, disk
  <1>3. "row" \notin c.made
    BY DEF UndoAbsorb, Undoes, Newer, Undos
  <1>4. NoNewHolder
    BY <1>2, RowsStay
  <1>5. RecordInv'
    <2>1. e.at = c.at /\ e.name = c.name /\ e.dir = c.dir
      BY <1>1 DEF Command
    <2> HIDE DEF e
    <2>2. QED
      BY <1>1, <1>2, <1>3, <1>4, <2>1, CalmRecorded DEF Connecting
  <1>6. RecordsStayOne
    <2> SUFFICES ASSUME NEW d \in Dirs \ lapse', OneRecord(d) PROVE OneRecord(d)'
      BY DEF RecordsStayOne
    <2>1. Holders(d)' = Holders(d)
      BY <1>2 DEF Holders
    <2>2. d = c.dir => Holders(d) = {}
      BY <1>1, <1>2, <1>3 DEF RecordInv, RecordOfStep, Connecting
    <2>3. QED
      BY <1>2, <2>1, <2>2 DEF OneRecord
  <1>7. QED
    BY <1>5, <1>6

\* A step that changes no row and lists no workset.
LEMMA QuietHolders ==
  ASSUME UNCHANGED <<rows, listed, alone>>
  PROVE  /\ NoNewHolder /\ RecordsStayOne
         /\ lapse \subseteq lapse' => \A r, n, d : HoldsNoMore(r, n, d)
  <1>1. NoNewHolder
    BY DEF NoNewHolder, Holders
  <1>2. QED
    BY <1>1, NoHolderNoRecord DEF NoNewHolder, HoldsNoMore

LEMMA BeginsRecorded ==
  ASSUME ~Overlap, Typed, RecordInv, NEW p \in Procs, NEW r \in Roots,
         \/ Create(p, r)
         \/ \E purge \in BOOLEAN : Remove(p, r, purge)
         \/ \E n \in Names :
              \/ \E d \in Dirs, force \in BOOLEAN : Connect(p, r, n, d, force)
              \/ \E files \in BOOLEAN : Disconnect(p, r, n, files)
  PROVE  RecordInv' /\ RecordsStayOne
  <1>1. UNCHANGED <<rows, listed, alone>> /\ lapse \subseteq lapse'
    BY DEF Create, Remove, Connect, Disconnect, Starts, Repairs, Notes, disk, registries
  <1>2. RecordsStayOne /\ \A x, y, z : HoldsNoMore(x, y, z)
    BY <1>1, QuietHolders
  <1>3. ASSUME NEW x, NEW y, NEW z, Apart({p}, x, y, z), NEW e, proc' = [proc EXCEPT ![p] = e],
               e.pc \in Connecting => Holders(e.dir) = {}
        PROVE  RecordInv'
    <2>1. proc'[p] = e /\ \A q \in Procs \ {p} : proc'[q] = proc[q]
      BY <1>3 DEF Typed, CommandsOK
    <2>2. RecordOfStep(proc[p])'
      BY <1>1, <1>3, <2>1 DEF RecordOfStep, Holders
    <2>3. QED
      BY <1>2, <1>3, <2>1, <2>2, OneRecorded
  <1>4. ASSUME Create(p, r) PROVE RecordInv'
    <2> DEFINE e == [Idle EXCEPT !.pc = "making", !.at = r]
    <2>1. proc' = [proc EXCEPT ![p] = e] /\ Apart({p}, e.at, e.name, e.dir)
      BY <1>4 DEF Create, Starts
    <2>2. e.pc \notin Connecting
      BY DEF Idle, Connecting
    <2> HIDE DEF e
    <2>3. QED
      BY <1>3, <2>1, <2>2
  <1>5. ASSUME NEW purge \in BOOLEAN, Remove(p, r, purge) PROVE RecordInv'
    <2> DEFINE e == [Idle EXCEPT !.pc = "agreed", !.at = r, !.flag = purge]
    <2>1. proc' = [proc EXCEPT ![p] = e] /\ Apart({p}, r, None, None)
      BY <1>5 DEF Remove
    <2>2. e.pc \notin Connecting
      BY DEF Idle, Connecting
    <2> HIDE DEF e
    <2>3. QED
      BY <1>3, <2>1, <2>2
  <1>6. ASSUME NEW n \in Names, NEW files \in BOOLEAN, Disconnect(p, r, n, files)
        PROVE  RecordInv'
    <2> DEFINE e == [Idle EXCEPT !.pc = "asked", !.at = r, !.name = n, !.dir = rows[<<r, n>>],
                                 !.flag = files]
    <2>1. proc' = [proc EXCEPT ![p] = e] /\ Apart({p}, r, n, rows[<<r, n>>])
      BY <1>6 DEF Disconnect
    <2>2. e.pc \notin Connecting
      BY DEF Idle, Connecting
    <2> HIDE DEF e
    <2>3. QED
      BY <1>3, <2>1, <2>2
  <1>7. ASSUME NEW n \in Names, NEW d \in Dirs, NEW force \in BOOLEAN, Connect(p, r, n, d, force)
        PROVE  RecordInv'
    <2> DEFINE f == Facts(<<r, n>>, d)
               e == [Idle EXCEPT !.pc = "checked", !.at = r, !.name = n, !.dir = d,
                                 !.flag = force, !.was = {f}]
    <2>1. proc' = [proc EXCEPT ![p] = e] /\ Apart({p}, e.at, e.name, e.dir)
      BY <1>7 DEF Connect, Starts
    <2> HIDE DEF f
    <2>2. e.dir = d
      BY DEF Idle
    <2>3. Holders(d) = {}
      BY <1>7 DEF Connect
    <2> HIDE DEF e
    <2>4. QED
      BY <1>3, <2>1, <2>2, <2>3
  <1>8. QED
    BY <1>2, <1>4, <1>5, <1>6, <1>7

LEMMA OutsideRecorded ==
  ASSUME ~Overlap, Typed, RecordInv,
         \/ \E r \in Roots : Import(r) \/ \E n \in Names : Resolve(r, n) \/ ResolveKilled(r, n)
         \/ \E d \in Dirs : Register(d)
  PROVE  RecordInv' /\ RecordsStayOne
  <1> DEFINE me == {}
  <1>1. ASSUME NEW r, NEW n, NEW d, Apart({}, r, n, d), HoldsNoMore(r, n, d), proc' = proc
        PROVE  RecordInv'
    <2>1. me \in SUBSET Procs /\ Apart(me, r, n, d) /\ \A q \in Procs : q \notin me
      BY <1>1
    <2> HIDE DEF me
    <2>2. \A q \in Procs \ me : RecordOfStep(proc[q])'
      BY <1>1, <2>1, OthersRecorded DEF RecordInv
    <2>3. QED
      BY <2>1, <2>2 DEF RecordInv
  <1>2. ASSUME NEW r \in Roots, Import(r) PROVE RecordInv' /\ RecordsStayOne
    <2>1. /\ Apart({}, r, None, None) /\ proc' = proc /\ UNCHANGED <<rows, lapse>>
          /\ listed' = listed \cup {r} /\ r \notin listed
      BY <1>2 DEF Import, disk
    <2>2. \A m \in Members : m[1] = r => m = <<r, m[2]>> /\ m[2] \in Names
      BY DEF Members
    <2>3. HoldsNoMore(r, None, None)
      BY <2>1, <2>2 DEF HoldsNoMore, Holders
    <2>4. QED
      BY <1>1, <2>1, <2>3 DEF RecordsStayOne
  <1>3. ASSUME NEW d \in Dirs, Register(d) PROVE RecordInv' /\ RecordsStayOne
    <2>1. /\ Apart({}, None, None, d) /\ proc' = proc /\ UNCHANGED <<rows, listed, lapse>>
          /\ alone' = alone \cup {d} /\ Holders(d) = {}
      BY <1>3 DEF Register, disk
    <2>2. \A x \in Dirs : Holders(x)' = Holders(x)
      BY <2>1 DEF Holders
    <2>3. HoldsNoMore(None, None, d)
      BY <2>1, <2>2 DEF HoldsNoMore
    <2>4. RecordsStayOne
      BY <2>1, <2>2 DEF RecordsStayOne, OneRecord
    <2>5. QED
      BY <1>1, <2>1, <2>3, <2>4
  <1>4. ASSUME NEW r \in Roots, NEW n \in Names, Resolve(r, n) \/ ResolveKilled(r, n)
        PROVE  RecordInv' /\ RecordsStayOne
    <2>1. /\ Apart({}, r, n, rows[<<r, n>>]) /\ proc' = proc /\ UNCHANGED <<rows, listed, alone>>
          /\ lapse \subseteq lapse'
      BY <1>4 DEF Resolve, ResolveKilled, Repairs, Notes, registries
    <2>2. QED
      BY <1>1, <2>1, QuietHolders
  <1>5. QED
    BY <1>2, <1>3, <1>4

LEMMA NextRecorded ==
  ASSUME ~Overlap, Typed, MarkInv, FoundInv, RecordInv, [Next]_vars
  PROVE  RecordInv' /\ RecordsStayOne
  <1>1. CASE UNCHANGED vars
    BY <1>1, QuietHolders DEF vars, disk, registries, RecordInv, RecordOfStep, Holders
  <1>2. ASSUME NEW p \in Procs, NEW r \in Roots,
               \/ Create(p, r)
               \/ \E purge \in BOOLEAN : Remove(p, r, purge)
               \/ \E n \in Names :
                    \/ \E d \in Dirs, force \in BOOLEAN : Connect(p, r, n, d, force)
                    \/ \E files \in BOOLEAN : Disconnect(p, r, n, files)
        PROVE  RecordInv' /\ RecordsStayOne
    BY <1>2, BeginsRecorded
  <1>3. ASSUME NEW p \in Procs,
               \/ Open(p) \/ Enter(p) \/ MakeStore(p) \/ Link(p) \/ Absorb(p) \/ DropMark(p)
               \/ Fail(p) \/ Interrupt(p)
        PROVE  RecordInv' /\ RecordsStayOne
    BY <1>3, ConnectsRecorded
  <1>4. ASSUME NEW p \in Procs,
               \/ UndoMark(p) \/ UndoLink(p) \/ UndoStore(p) \/ UndoFails(p)
               \/ WriteRow(p) \/ UndoRow(p) \/ UndoAbsorb(p)
        PROVE  RecordInv' /\ RecordsStayOne
    BY <1>4, UndosRecorded, WriteRowRecorded, UndoRowRecorded, UndoAbsorbRecorded
  <1>5. ASSUME NEW p \in Procs,
               \/ Lay(p) \/ List(p) \/ Created(p) \/ Unmake(p)
               \/ RemoveStore(p) \/ Unlink(p) \/ DropRow(p) \/ RemoveTree(p) \/ Unlist(p)
               \/ RemoveRoot(p) \/ Kill(p) \/ Close(p) \/ Undone(p)
        PROVE  RecordInv' /\ RecordsStayOne
    BY <1>5, RestRecorded
  <1>6. QED
    BY <1>1, <1>2, <1>3, <1>4, <1>5, OutsideRecorded DEF Next

\* A directory that is in one registry at most stays so, the standalone boxes' or one
\* workset's: a connect drops the standalone row before it writes the membership
\* (add_project) and its undo puts it back after it dropped that, and `box register'
\* refuses a member.  Only an import brings rows of its own.
THEOREM OneRecordForEach == ASSUME ~Overlap PROVE Spec => OneRecordKept
  <1>1. Init => FoundInv /\ RecordInv
    BY DEF Init, Idle, FoundInv, AsFound, Reports, Early, RecordInv, RecordOfStep, Connecting
  <1>2. TypeOK => Typed
    BY Halves DEF Typed
  <1>3. Typed /\ MarkInv /\ FoundInv /\ RecordInv /\ [Next]_vars =>
          FoundInv' /\ RecordInv' /\ RecordsStayOne
    BY NextFinds, NextRecorded
  <1>4. RecordsStayOne =>
          [\A d \in Dirs \ lapse' : OneRecord(d) /\ listed' \subseteq listed => OneRecord(d)']_vars
    BY DEF RecordsStayOne
  <1>5. QED
    BY <1>1, <1>2, <1>3, <1>4, MarksKept, TypeCorrect, PTL DEF Spec, OneRecordKept
===============================================================================
