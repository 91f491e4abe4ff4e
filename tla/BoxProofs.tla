------------------------------ MODULE BoxProofs ------------------------------
(***************************************************************************)
(* What BoxCreate promises for any number of workspaces, names and create  *)
(* commands, proved under the discipline that --recover is given to dead   *)
(* attempts only (~RecoverLive); then what BoxRetire promises with rm,     *)
(* purge and register beside them.  Types and one box per workspace hold   *)
(* in any overlap; that a live box keeps its home is proved for one        *)
(* command at a time at work on a box and recoveries of dead attempts.     *)
(* The first part's lemmas and invariant are used in the second as they    *)
(* are.                                                                    *)
(***************************************************************************)
EXTENDS BoxRetire, TLAPS

PCs == Before \cup Behind \cup Ended

-----------------------------------------------------------------------------
(* How the steps move one command, field by field. *)

\* A step that replaces the record of one command, whatever records are.
LEMMA OneMoves ==
  ASSUME NEW C, NEW P, NEW f \in [P -> C], NEW p \in P, NEW c \in C,
         NEW g, g = [f EXCEPT ![p] = c]
  PROVE  g \in [P -> C] /\ g[p] = c /\ \A q \in P \ {p} : g[q] = f[q]
  OBVIOUS

LEMMA ProcIsCommand ==
  ASSUME TypeOK
  PROVE  proc \in [Procs -> Command]
  BY DEF TypeOK

LEMMA AtPC ==
  ASSUME NEW c \in Command, NEW pc \in PCs
  PROVE  LET d == [c EXCEPT !.pc = pc] IN
         /\ d \in Command /\ d.pc = pc /\ d.ws = c.ws /\ d.typed = c.typed
         /\ d.recover = c.recover /\ d.name = c.name /\ d.box = c.box
         /\ d.fresh = c.fresh
  BY DEF Command, PCs

LEMMA WithName ==
  ASSUME NEW c \in Command, NEW n \in Names
  PROVE  LET d == [c EXCEPT !.name = n] IN
         /\ d \in Command /\ d.name = n /\ d.ws = c.ws /\ d.typed = c.typed
         /\ d.recover = c.recover /\ d.box = c.box /\ d.fresh = c.fresh
  BY DEF Command

LEMMA WithBox ==
  ASSUME NEW c \in Command, NEW n \in Names \cup {0}
  PROVE  LET d == [c EXCEPT !.box = n] IN
         /\ d \in Command /\ d.box = n /\ d.ws = c.ws /\ d.typed = c.typed
         /\ d.recover = c.recover /\ d.name = c.name /\ d.fresh = c.fresh
  BY DEF Command

LEMMA WithFresh ==
  ASSUME NEW c \in Command, NEW f \in BOOLEAN
  PROVE  LET d == [c EXCEPT !.fresh = f] IN
         /\ d \in Command /\ d.fresh = f /\ d.ws = c.ws /\ d.typed = c.typed
         /\ d.recover = c.recover /\ d.name = c.name /\ d.box = c.box
  BY DEF Command

LEMMA GotoMoves ==
  ASSUME TypeOK, NEW p \in Procs, NEW pc \in PCs, Goto(p, pc)
  PROVE  /\ proc' \in [Procs -> Command]
         /\ \A q \in Procs \ {p} : proc'[q] = proc[q]
         /\ proc'[p].pc = pc
         /\ proc'[p].ws = proc[p].ws /\ proc'[p].typed = proc[p].typed
         /\ proc'[p].recover = proc[p].recover
         /\ proc'[p].name = proc[p].name /\ proc'[p].box = proc[p].box
         /\ proc'[p].fresh = proc[p].fresh
  <1> DEFINE d == [proc[p] EXCEPT !.pc = pc]
  <1>1. proc \in [Procs -> Command] /\ proc[p] \in Command
    BY ProcIsCommand
  <1>2. /\ d \in Command /\ d.pc = pc /\ d.ws = proc[p].ws
        /\ d.typed = proc[p].typed /\ d.recover = proc[p].recover
        /\ d.name = proc[p].name /\ d.box = proc[p].box
        /\ d.fresh = proc[p].fresh
    BY <1>1, AtPC
  <1>3. proc' = [proc EXCEPT ![p] = d]
    BY DEF Goto
  <1> HIDE DEF d
  <1>4. /\ proc' \in [Procs -> Command] /\ proc'[p] = d
        /\ \A q \in Procs \ {p} : proc'[q] = proc[q]
    BY <1>1, <1>2, <1>3, OneMoves
  <1>5. QED
    BY <1>2, <1>4

LEMMA RefuseMoves ==
  ASSUME TypeOK, NEW p \in Procs, Refuse(p)
  PROVE  /\ proc' \in [Procs -> Command]
         /\ \A q \in Procs \ {p} : proc'[q] = proc[q]
         /\ proc'[p].pc = "idle"
  BY DEF TypeOK, Refuse, Command, Idle, Before, Behind, Ended

LEMMA NamedMoves ==
  ASSUME TypeOK, NEW p \in Procs, NEW n \in Names, NEW pc \in PCs, Named(p, n, pc)
  PROVE  /\ proc' \in [Procs -> Command]
         /\ \A q \in Procs \ {p} : proc'[q] = proc[q]
         /\ proc'[p].pc = pc /\ proc'[p].name = n
         /\ proc'[p].ws = proc[p].ws /\ proc'[p].typed = proc[p].typed
         /\ proc'[p].recover = proc[p].recover
         /\ proc'[p].box = proc[p].box /\ proc'[p].fresh = proc[p].fresh
  <1> DEFINE c == [proc[p] EXCEPT !.name = n]
             d == [c EXCEPT !.pc = pc]
  <1>1. proc \in [Procs -> Command] /\ proc[p] \in Command
    BY ProcIsCommand
  <1>2. /\ c \in Command /\ c.name = n /\ c.ws = proc[p].ws
        /\ c.typed = proc[p].typed /\ c.recover = proc[p].recover
        /\ c.box = proc[p].box /\ c.fresh = proc[p].fresh
    BY <1>1, WithName
  <1>3. proc' = [proc EXCEPT ![p] = d]
    BY DEF Named
  <1> HIDE DEF c
  <1>4. /\ d \in Command /\ d.pc = pc /\ d.ws = c.ws /\ d.typed = c.typed
        /\ d.recover = c.recover /\ d.name = c.name /\ d.box = c.box
        /\ d.fresh = c.fresh
    BY <1>2, AtPC
  <1> HIDE DEF d
  <1>5. /\ proc' \in [Procs -> Command] /\ proc'[p] = d
        /\ \A q \in Procs \ {p} : proc'[q] = proc[q]
    BY <1>1, <1>3, <1>4, OneMoves
  <1>6. QED
    BY <1>2, <1>4, <1>5

LEMMA EnterMoves ==
  ASSUME TypeOK, NEW p \in Procs, NEW n \in Names \cup {0}, Enter(p, n)
  PROVE  /\ proc' \in [Procs -> Command]
         /\ \A q \in Procs \ {p} : proc'[q] = proc[q]
         /\ proc'[p].pc = "persist" /\ proc'[p].box = n
         /\ proc'[p].ws = proc[p].ws /\ proc'[p].typed = proc[p].typed
         /\ proc'[p].recover = proc[p].recover
         /\ proc'[p].name = proc[p].name /\ proc'[p].fresh = proc[p].fresh
  <1> DEFINE c == [proc[p] EXCEPT !.box = n]
             d == [c EXCEPT !.pc = "persist"]
  <1>1. proc \in [Procs -> Command] /\ proc[p] \in Command
    BY ProcIsCommand
  <1>2. /\ c \in Command /\ c.box = n /\ c.ws = proc[p].ws
        /\ c.typed = proc[p].typed /\ c.recover = proc[p].recover
        /\ c.name = proc[p].name /\ c.fresh = proc[p].fresh
    BY <1>1, WithBox
  <1>3. proc' = [proc EXCEPT ![p] = d] /\ "persist" \in PCs
    BY DEF Enter, PCs, Behind
  <1> HIDE DEF c
  <1>4. /\ d \in Command /\ d.pc = "persist" /\ d.ws = c.ws /\ d.typed = c.typed
        /\ d.recover = c.recover /\ d.name = c.name /\ d.box = c.box
        /\ d.fresh = c.fresh
    BY <1>2, <1>3, AtPC
  <1> HIDE DEF d
  <1>5. /\ proc' \in [Procs -> Command] /\ proc'[p] = d
        /\ \A q \in Procs \ {p} : proc'[q] = proc[q]
    BY <1>1, <1>3, <1>4, OneMoves
  <1>6. QED
    BY <1>2, <1>4, <1>5

LEMMA ArmMoves ==
  ASSUME TypeOK, NEW p \in Procs, ArmUndo(p)
  PROVE  /\ proc' \in [Procs -> Command]
         /\ \A q \in Procs \ {p} : proc'[q] = proc[q]
         /\ proc'[p].pc = "make"
         /\ proc'[p].fresh = (~proc[p].recover /\ ~Present(proc[p].name))
         /\ proc'[p].ws = proc[p].ws /\ proc'[p].typed = proc[p].typed
         /\ proc'[p].recover = proc[p].recover
         /\ proc'[p].name = proc[p].name /\ proc'[p].box = proc[p].box
  <1> DEFINE f == ~proc[p].recover /\ ~Present(proc[p].name)
             c == [proc[p] EXCEPT !.fresh = f]
             d == [c EXCEPT !.pc = "make"]
  <1>0. f \in BOOLEAN /\ Armed(p, f)
    BY DEF ArmUndo
  <1> HIDE DEF f
  <1>1. proc \in [Procs -> Command] /\ proc[p] \in Command
    BY ProcIsCommand
  <1>2. /\ c \in Command /\ c.fresh = f /\ c.ws = proc[p].ws
        /\ c.typed = proc[p].typed /\ c.recover = proc[p].recover
        /\ c.name = proc[p].name /\ c.box = proc[p].box
    BY <1>0, <1>1, WithFresh
  <1>3. proc' = [proc EXCEPT ![p] = d] /\ "make" \in PCs
    BY <1>0 DEF Armed, PCs, Behind
  <1> HIDE DEF c
  <1>4. /\ d \in Command /\ d.pc = "make" /\ d.ws = c.ws /\ d.typed = c.typed
        /\ d.recover = c.recover /\ d.name = c.name /\ d.box = c.box
        /\ d.fresh = c.fresh
    BY <1>2, <1>3, AtPC
  <1> HIDE DEF d
  <1>5. /\ proc' \in [Procs -> Command] /\ proc'[p] = d
        /\ \A q \in Procs \ {p} : proc'[q] = proc[q]
    BY <1>1, <1>3, <1>4, OneMoves
  <1>6. QED
    BY <1>2, <1>4, <1>5 DEF f

LEMMA BeginMoves ==
  ASSUME TypeOK, NEW p \in Procs, NEW w \in Workspaces,
         NEW typed \in Typed \cup {0}, NEW recover \in BOOLEAN,
         Begin(p, w, typed, recover)
  PROVE  /\ proc' \in [Procs -> Command]
         /\ \A q \in Procs \ {p} : proc'[q] = proc[q]
         /\ proc'[p].pc = (IF typed = 0 THEN "probe" ELSE "check")
         /\ proc'[p].ws = w /\ proc'[p].typed = typed /\ proc'[p].name = typed
         /\ proc'[p].box = 0
  BY TypedAssumption
  DEF TypeOK, Begin, Command, Idle, Before, Behind, Ended

LEMMA ClearMoves ==
  ASSUME TypeOK, NEW p \in Procs, Clear(p)
  PROVE  /\ proc' \in [Procs -> Command]
         /\ \A q \in Procs \ {p} : proc'[q] = proc[q]
         /\ proc'[p].pc = "done"
  BY DEF TypeOK, Clear, Command, Idle, Before, Behind, Ended

LEMMA Fields ==
  ASSUME TypeOK, NEW p \in Procs
  PROVE  /\ proc[p] \in Command
         /\ proc[p].pc \in PCs
         /\ proc[p].ws \in Workspaces \cup {NoWs}
         /\ proc[p].typed \in Names \cup {0}
         /\ proc[p].name \in Names \cup {0}
         /\ proc[p].box \in Names \cup {0}
         /\ proc[p].recover \in BOOLEAN /\ proc[p].fresh \in BOOLEAN
  BY DEF TypeOK, Command, PCs

-----------------------------------------------------------------------------
(* Types *)

\* A materialize lands on one of the names, or on the one claimed.
LEMMA LandsOnNames ==
  ASSUME TypeOK, NEW p \in Procs
  PROVE  Lands(proc[p].ws, proc[p].name) \subseteq Names \cup {0}
  BY Fields DEF Lands

\* A step leaves the store well typed, whichever command takes it.
LEMMA StoreTyped ==
  ASSUME TypeOK, NEW p \in Procs, Step(p)
  PROVE  /\ registry' \in [Names -> Workspaces \cup {NoWs}]
         /\ journal' \in [Names -> Workspaces \cup {NoWs}]
         /\ parked' \in [Names -> Workspaces \cup {NoWs}]
         /\ tree' \in [Names -> [of : Workspaces \cup {NoWs}, seeded : BOOLEAN]]
  <1> USE Fields DEF TypeOK
  <1>1. CASE CheckName(p) BY <1>1 DEF CheckName
  <1>2. CASE ProbeNamed(p) BY <1>2 DEF ProbeNamed
  <1>3. CASE ProbeNew(p) BY <1>3 DEF ProbeNew
  <1>4. CASE Pick(p) BY <1>4 DEF Pick
  <1>5. CASE CheckOrphan(p) BY <1>5 DEF CheckOrphan
  <1>6. CASE Claim(p) BY <1>6 DEF Claim
  <1>7. CASE DropGoneParked(p) BY <1>7 DEF DropGoneParked
  <1>8. CASE ArmUndo(p) BY <1>8 DEF ArmUndo
  <1>9. CASE Make(p)
    <2>1. PICK b \in Names \cup {0} :
            tree' = IF Present(b) THEN tree ELSE [tree EXCEPT ![b].of = proc[p].ws]
      BY <1>9, LandsOnNames DEF Make
    <2>2. QED
      BY <2>1, <1>9 DEF Make
  <1>10. CASE Persist(p) BY <1>10 DEF Persist
  <1>11. CASE Fail(p) BY <1>11 DEF Fail
  <1>12. CASE Undo(p) BY <1>12 DEF Undo, NoTree
  <1>13. CASE UndoFails(p) BY <1>13 DEF UndoFails
  <1>14. CASE Unclaim(p) BY <1>14 DEF Unclaim
  <1>15. CASE Seed(p) BY <1>15 DEF Seed
  <1>16. CASE Register(p) BY <1>16 DEF Register
  <1>17. CASE Raise(p) BY <1>17 DEF Raise
  <1>18. CASE Clear(p) BY <1>18 DEF Clear
  <1>19. QED
    BY <1>1, <1>2, <1>3, <1>4, <1>5, <1>6, <1>7, <1>8, <1>9, <1>10, <1>11,
       <1>12, <1>13, <1>14, <1>15, <1>16, <1>17, <1>18 DEF Step

\* A step leaves the commands well typed.
LEMMA ProcTyped ==
  ASSUME TypeOK, NEW p \in Procs, Step(p)
  PROVE  proc' \in [Procs -> Command]
  <1> USE Fields
  <1> USE DEF PCs, Before, Behind, Ended
  <1>1. CASE CheckName(p) BY <1>1, GotoMoves, RefuseMoves DEF CheckName
  <1>2. CASE ProbeNamed(p)
    BY <1>2, NamedMoves, RefuseMoves DEF ProbeNamed
  <1>3. CASE ProbeNew(p) BY <1>3, GotoMoves, RefuseMoves DEF ProbeNew
  <1>4. CASE Pick(p) BY <1>4, NamedMoves DEF Pick
  <1>5. CASE CheckOrphan(p) BY <1>5, GotoMoves, RefuseMoves DEF CheckOrphan
  <1>6. CASE Claim(p) BY <1>6, GotoMoves, RefuseMoves DEF Claim
  <1>7. CASE DropGoneParked(p) BY <1>7, GotoMoves DEF DropGoneParked
  <1>8. CASE ArmUndo(p) BY <1>8, ArmMoves
  <1>9. CASE Make(p)
    <2>1. \E b \in Names \cup {0} : Enter(p, b)
      BY <1>9, LandsOnNames DEF Make
    <2>2. QED
      BY <2>1, EnterMoves
  <1>10. CASE Persist(p) BY <1>10, GotoMoves DEF Persist
  <1>11. CASE Fail(p) BY <1>11, GotoMoves, RefuseMoves DEF Fail
  <1>12. CASE Undo(p) BY <1>12, GotoMoves DEF Undo
  <1>13. CASE UndoFails(p) BY <1>13, RefuseMoves DEF UndoFails
  <1>14. CASE Unclaim(p) BY <1>14, RefuseMoves DEF Unclaim
  <1>15. CASE Seed(p) BY <1>15, GotoMoves DEF Seed
  <1>16. CASE Register(p) BY <1>16, GotoMoves DEF Register
  <1>17. CASE Raise(p) BY <1>17, RefuseMoves DEF Raise
  <1>18. CASE Clear(p) BY <1>18, ClearMoves
  <1>19. QED
    BY <1>1, <1>2, <1>3, <1>4, <1>5, <1>6, <1>7, <1>8, <1>9, <1>10, <1>11,
       <1>12, <1>13, <1>14, <1>15, <1>16, <1>17, <1>18 DEF Step

LEMMA TypeInit == Init => TypeOK
  <1> SUFFICES ASSUME Init PROVE TypeOK
    OBVIOUS
  <1>1. Idle \in Command
    BY DEF Idle, Command, Ended
  <1> DEFINE T == [of : Workspaces \cup {NoWs}, seeded : BOOLEAN]
  <1>2. /\ [of : Workspaces, seeded : {TRUE}] \subseteq T
        /\ NoTree \in T
    <2>1. ASSUME NEW t \in [of : Workspaces, seeded : {TRUE}] PROVE t \in T
      <3>1. t = [of |-> t.of, seeded |-> t.seeded] /\ t.of \in Workspaces
            /\ t.seeded \in BOOLEAN
        OBVIOUS
      <3>2. QED
        BY <3>1
    <2>2. NoTree \in T
      BY DEF NoTree
    <2>3. QED
      BY <2>1, <2>2
  <1> HIDE DEF T
  <1>3. tree \in [Names -> T]
    BY <1>2 DEF Init
  <1>4. QED
    BY <1>1, <1>3 DEF Init, TypeOK, T

LEMMA TypeStep ==
  ASSUME TypeOK, [Next]_vars
  PROVE  TypeOK'
  <1>1. ASSUME NEW p \in Procs, NEW w \in Workspaces,
               NEW typed \in Typed \cup {0}, NEW recover \in BOOLEAN,
               Begin(p, w, typed, recover)
        PROVE  TypeOK'
    BY <1>1, BeginMoves DEF Begin, TypeOK
  <1>2. ASSUME NEW p \in Procs, Step(p) PROVE TypeOK'
    BY <1>2, StoreTyped, ProcTyped DEF TypeOK
  <1>3. ASSUME NEW p \in Procs, Kill(p) PROVE TypeOK'
    BY <1>3, RefuseMoves DEF Kill, TypeOK
  <1>4. CASE UNCHANGED vars
    BY <1>4 DEF vars, TypeOK
  <1>5. QED
    BY <1>1, <1>2, <1>3, <1>4 DEF Next

\* Every reachable state is well typed, for any workspaces, names and commands.
THEOREM TypeCorrect == Spec => []TypeOK
  BY TypeInit, TypeStep, PTL DEF Spec

-----------------------------------------------------------------------------
(* One box per workspace is inductive by itself: only the committing step adds
   a member, and it looks at the whole membership under the lock it writes with. *)

LEMMA OneBoxStep ==
  ASSUME TypeOK, OneBoxPerWorkspace, [Next]_vars
  PROVE  OneBoxPerWorkspace'
  <1>1. ASSUME NEW p \in Procs, Register(p)
        PROVE  OneBoxPerWorkspace'
    <2> DEFINE w == proc[p].ws
               b == proc[p].box
    <2>1. registry' = [registry EXCEPT ![b] = w] /\ registry \in [Names -> Workspaces \cup {NoWs}]
      BY <1>1 DEF Register, TypeOK
    <2>2. CASE registry[b] = w
      BY <1>1, <2>1, <2>2 DEF OneBoxPerWorkspace
    <2>3. CASE ~Refused(w, b)
      <3>1. \A m \in Names \ {b} : registry[m] # w
        BY <2>3 DEF Refused
      <3>2. QED
        BY <1>1, <2>1, <3>1 DEF OneBoxPerWorkspace
    <2>4. QED
      BY <1>1, <2>2, <2>3 DEF Register
  <1>2. ASSUME NEW p \in Procs, Step(p), ~Register(p) PROVE UNCHANGED registry
    BY <1>2 DEF Step, CheckName, ProbeNamed, ProbeNew, Pick, CheckOrphan, Claim,
       DropGoneParked, ArmUndo, Make, Persist, Fail, Undo, UndoFails, Unclaim,
       Seed, Raise, Clear
  <1>3. (\E p \in Procs : Register(p)) \/ UNCHANGED registry
    BY <1>2 DEF Next, Begin, Kill, vars
  <1>4. QED
    BY <1>1, <1>3 DEF OneBoxPerWorkspace

\* A workspace never gets two registered boxes, not even when --recover runs
\* beside the create it recovers.
THEOREM OneBoxAlways == Spec => []OneBoxPerWorkspace
  <1>1. Init => OneBoxPerWorkspace
    BY DEF Init, OneBoxPerWorkspace
  <1>2. TypeOK /\ OneBoxPerWorkspace /\ [Next]_vars => OneBoxPerWorkspace'
    BY OneBoxStep
  <1>3. QED
    BY <1>1, <1>2, TypeCorrect, PTL DEF Spec

-----------------------------------------------------------------------------
(* The inductive invariant.  The properties of BoxCreate speak of the store;
   they are kept because a command behind its journal entry owns that entry
   and the homes it leads to, and no other command can touch them. *)

\* One pending entry per workspace, and it lies on nobody else's home.
EntriesOwnHomes ==
  /\ \A m, n \in Names : journal[m] = journal[n] /\ journal[m] # NoWs => m = n
  /\ \A n \in Names : journal[n] # NoWs => tree[n].of \in {NoWs, journal[n]}

TreesWhole == \A n \in Names : tree[n].of = NoWs => ~tree[n].seeded

StoreInv ==
  /\ RegisteredSeeded /\ HalfMadeIsJournaled /\ OneBoxPerWorkspace
  /\ EntriesOwnHomes /\ TreesWhole

\* A command that has not claimed yet.
BeforeInv(p) == proc[p].pc \in Before =>
  /\ proc[p].ws \in Workspaces /\ proc[p].box = 0
  /\ proc[p].pc \in {"check", "probe"} => proc[p].name = proc[p].typed
  /\ proc[p].pc = "check" => proc[p].typed \in Names
  /\ proc[p].pc \in {"orphan", "claim"} => proc[p].name \in Names

AtHome(p) == proc[p].pc \in {"persist", "seed", "register", "clear"}
Undoable(p) == proc[p].pc \in {"make", "persist", "undo"}
SeededIfThere(n) == Present(n) => tree[n].seeded

\* A command behind its entry: what its undo may remove, and where it works.
BehindInv(p) == proc[p].pc \in Behind =>
  /\ proc[p].ws \in Workspaces /\ proc[p].name \in Names
  /\ journal[proc[p].name] = proc[p].ws
  /\ proc[p].pc \in {"drop", "arm", "make"} => proc[p].box = 0
  /\ proc[p].pc \in {"drop", "arm"} /\ ~proc[p].recover => SeededIfThere(proc[p].name)
  /\ Undoable(p) /\ proc[p].fresh => ~proc[p].recover /\ ~tree[proc[p].name].seeded
  /\ Undoable(p) /\ ~proc[p].fresh /\ ~proc[p].recover => tree[proc[p].name].seeded
  /\ proc[p].pc \in {"undo", "unclaim"} =>
       ~proc[p].recover /\ (proc[p].box \in {0, proc[p].name}
                             \/ tree[proc[p].box].of = proc[p].ws)
  /\ proc[p].pc = "unclaim" => SeededIfThere(proc[p].name)
  /\ AtHome(p) =>
       /\ proc[p].box \in Names /\ tree[proc[p].box].of = proc[p].ws
       /\ proc[p].box = proc[p].name \/ registry[proc[p].box] = proc[p].ws
  /\ proc[p].pc \in {"register", "clear"} => tree[proc[p].box].seeded

WorkspacesApart == \A p, q \in Procs :
  p # q /\ proc[p].pc \in Behind /\ proc[q].pc \in Behind => proc[p].ws # proc[q].ws

IInv == /\ TypeOK /\ StoreInv /\ WorkspacesApart
        /\ \A p \in Procs : BeforeInv(p) /\ BehindInv(p)

-----------------------------------------------------------------------------
(* Why commands do not disturb each other *)

\* What command q relies on is as it was.
Untouched(q) ==
  /\ journal'[proc[q].name] = journal[proc[q].name]
  /\ tree'[proc[q].name] = tree[proc[q].name]
  /\ proc[q].box \in Names => tree'[proc[q].box] = tree[proc[q].box]
  /\ proc[q].box \in Names /\ registry[proc[q].box] = proc[q].ws =>
       registry'[proc[q].box] = proc[q].ws

LEMMA Bystander ==
  ASSUME TypeOK, NEW q \in Procs, proc'[q] = proc[q], BeforeInv(q), BehindInv(q),
         proc[q].pc \in Behind => Untouched(q)
  PROVE  BeforeInv(q)' /\ BehindInv(q)'
  <1>1. BeforeInv(q)'
    BY DEF BeforeInv
  <1>2. BehindInv(q)'
    <2> SUFFICES ASSUME proc[q].pc \in Behind PROVE BehindInv(q)'
      BY DEF BehindInv
    <2>1. proc[q].box \in Names \cup {0}
      BY Fields
    <2>2. QED
      BY <2>1 DEF BehindInv, Untouched, AtHome, Undoable, SeededIfThere, Present
  <1>3. QED
    BY <1>1, <1>2

\* Two commands behind their entries share no name and no home.
LEMMA Apart ==
  ASSUME IInv, NEW p \in Procs, NEW q \in Procs, p # q,
         proc[p].pc \in Behind, proc[q].pc \in Behind
  PROVE  /\ proc[p].ws # proc[q].ws /\ proc[p].name # proc[q].name
         /\ proc[q].box # proc[p].name
         /\ AtHome(p) => proc[q].name # proc[p].box /\ proc[q].box # proc[p].box
  <1>1. /\ proc[p].ws # proc[q].ws
        /\ proc[p].ws \in Workspaces /\ proc[q].ws \in Workspaces
        /\ proc[p].name \in Names /\ proc[q].name \in Names
        /\ journal[proc[p].name] = proc[p].ws /\ journal[proc[q].name] = proc[q].ws
    BY DEF IInv, WorkspacesApart, BehindInv
  <1>2. /\ tree[proc[p].name].of # proc[q].ws
        /\ tree[proc[q].name].of # proc[p].ws
    BY <1>1, NoWsAssumption DEF IInv, StoreInv, EntriesOwnHomes
  <1>3. proc[q].box \in {0, proc[q].name} \/ tree[proc[q].box].of = proc[q].ws
    BY DEF IInv, BehindInv, AtHome, Behind
  <1>4. 0 \notin Names
    BY MaxNameAssumption DEF Names
  <1>5. AtHome(p) => tree[proc[p].box].of = proc[p].ws /\ proc[p].box \in Names
    BY DEF IInv, BehindInv
  <1>6. QED
    BY <1>1, <1>2, <1>3, <1>4, <1>5

\* Command p steps: what must be shown of it for the invariant to survive.
LEMMA Compose ==
  ASSUME IInv, TypeOK', NEW p \in Procs,
         \A q \in Procs \ {p} : proc'[q] = proc[q],
         StoreInv', BeforeInv(p)', BehindInv(p)',
         proc'[p].pc \in Behind => \A q \in Procs \ {p} :
           proc[q].pc \in Behind => proc[q].ws # proc'[p].ws,
         \A q \in Procs \ {p} : proc[q].pc \in Behind => Untouched(q)
  PROVE  IInv'
  <1>1. \A q \in Procs : BeforeInv(q)' /\ BehindInv(q)'
    <2> TAKE q \in Procs
    <2>1. CASE q = p
      BY <2>1
    <2>2. CASE q # p
      <3>1. TypeOK /\ BeforeInv(q) /\ BehindInv(q)
        BY DEF IInv
      <3>2. proc'[q] = proc[q] /\ (proc[q].pc \in Behind => Untouched(q))
        BY <2>2
      <3>3. QED
        BY <3>1, <3>2, Bystander
    <2>3. QED
      BY <2>1, <2>2
  <1>2. WorkspacesApart'
    BY DEF IInv, WorkspacesApart
  <1>3. QED
    BY <1>1, <1>2 DEF IInv

\* A command that was behind its entry stays apart from the others.
LEMMA StillApart ==
  ASSUME IInv, NEW p \in Procs, proc'[p].pc \in Behind =>
           proc[p].pc \in Behind /\ proc'[p].ws = proc[p].ws
  PROVE  proc'[p].pc \in Behind => \A q \in Procs \ {p} :
           proc[q].pc \in Behind => proc[q].ws # proc'[p].ws
  BY DEF IInv, WorkspacesApart

\* A step of p that leaves the registry, the journal and the homes alone.
LEMMA Quiet ==
  ASSUME IInv, TypeOK', NEW p \in Procs,
         \A q \in Procs \ {p} : proc'[q] = proc[q],
         UNCHANGED <<registry, journal, tree>>,
         BeforeInv(p)', BehindInv(p)',
         proc'[p].pc \in Behind => \A q \in Procs \ {p} :
           proc[q].pc \in Behind => proc[q].ws # proc'[p].ws
  PROVE  IInv'
  <1>1. StoreInv'
    BY DEF IInv, StoreInv, RegisteredSeeded, HalfMadeIsJournaled, Present,
           OneBoxPerWorkspace, EntriesOwnHomes, TreesWhole
  <1>2. \A q \in Procs : Untouched(q)
    BY DEF Untouched
  <1>3. QED
    BY <1>1, <1>2, Compose

\* A command that ends, with the store as it is.
LEMMA Ends ==
  ASSUME IInv, TypeOK', NEW p \in Procs,
         \A q \in Procs \ {p} : proc'[q] = proc[q],
         UNCHANGED <<registry, journal, tree>>, proc'[p].pc \in Ended
  PROVE  IInv'
  <1>1. proc'[p].pc \notin Before /\ proc'[p].pc \notin Behind
    BY DEF Ended, Before, Behind
  <1>2. BeforeInv(p)' /\ BehindInv(p)'
    BY <1>1 DEF BeforeInv, BehindInv
  <1>3. QED
    BY <1>1, <1>2, Quiet

-----------------------------------------------------------------------------
(* Every action keeps the invariant.  First the commands that have not
   claimed, and the steps that touch no store. *)

LEMMA BeginKeeps ==
  ASSUME IInv, TypeOK', NEW p \in Procs, NEW w \in Workspaces,
         NEW typed \in Typed \cup {0}, NEW recover \in BOOLEAN,
         Begin(p, w, typed, recover)
  PROVE  IInv'
  <1>1. TypeOK /\ UNCHANGED <<registry, journal, tree>>
    BY DEF IInv, Begin
  <1>2. /\ \A q \in Procs \ {p} : proc'[q] = proc[q]
        /\ proc'[p].pc = (IF typed = 0 THEN "probe" ELSE "check")
        /\ proc'[p].ws = w /\ proc'[p].typed = typed /\ proc'[p].name = typed
        /\ proc'[p].box = 0
    BY <1>1, BeginMoves
  <1>3. BeforeInv(p)'
    BY <1>2, TypedAssumption DEF BeforeInv
  <1>4. proc'[p].pc \notin Behind
    BY <1>2 DEF Behind
  <1>5. QED
    BY <1>1, <1>2, <1>3, <1>4, Quiet DEF BehindInv

LEMMA CheckNameKeeps ==
  ASSUME IInv, TypeOK', NEW p \in Procs, CheckName(p)
  PROVE  IInv'
  <1>1. TypeOK /\ UNCHANGED <<registry, journal, tree>> /\ BeforeInv(p)
    BY DEF IInv, CheckName
  <1>2. CASE Refuse(p)
    BY <1>1, <1>2, RefuseMoves, Ends DEF Ended
  <1>3. CASE Goto(p, "probe")
    <2>1. /\ \A q \in Procs \ {p} : proc'[q] = proc[q]
          /\ proc'[p].pc = "probe" /\ proc'[p].ws = proc[p].ws
          /\ proc'[p].typed = proc[p].typed
          /\ proc'[p].name = proc[p].name /\ proc'[p].box = proc[p].box
      BY <1>1, <1>3, GotoMoves DEF PCs, Before
    <2>2. BeforeInv(p)' /\ proc'[p].pc \notin Behind
      BY <1>1, <2>1 DEF BeforeInv, Before, Behind, CheckName
    <2>3. QED
      BY <1>1, <2>1, <2>2, Quiet DEF BehindInv
  <1>4. QED
    BY <1>2, <1>3 DEF CheckName

LEMMA ProbeNewKeeps ==
  ASSUME IInv, TypeOK', NEW p \in Procs, ProbeNew(p)
  PROVE  IInv'
  <1>1. TypeOK /\ UNCHANGED <<registry, journal, tree>> /\ BeforeInv(p)
        /\ proc[p].pc = "probe"
    BY DEF IInv, ProbeNew
  <1>2. CASE Refuse(p)
    BY <1>1, <1>2, RefuseMoves, Ends DEF Ended
  <1>3. CASE Goto(p, IF proc[p].typed = 0 THEN "pick" ELSE "claim")
    <2>1. /\ \A q \in Procs \ {p} : proc'[q] = proc[q]
          /\ proc'[p].pc = (IF proc[p].typed = 0 THEN "pick" ELSE "claim")
          /\ proc'[p].ws = proc[p].ws /\ proc'[p].typed = proc[p].typed
          /\ proc'[p].name = proc[p].name /\ proc'[p].box = proc[p].box
      BY <1>1, <1>3, GotoMoves DEF PCs, Before
    <2>2. BeforeInv(p)' /\ proc'[p].pc \notin Behind
      BY <1>1, <2>1, Fields DEF BeforeInv, Before, Behind
    <2>3. QED
      BY <1>1, <2>1, <2>2, Quiet DEF BehindInv
  <1>4. QED
    BY <1>2, <1>3 DEF ProbeNew

LEMMA PickKeeps ==
  ASSUME IInv, TypeOK', NEW p \in Procs, Pick(p)
  PROVE  IInv'
  <1>1. TypeOK /\ UNCHANGED <<registry, journal, tree>> /\ BeforeInv(p)
    BY DEF IInv, Pick
  <1>2. PICK n \in Names :
          Named(p, n, IF proc[p].pc = "pick" THEN "orphan" ELSE "claim")
    BY DEF Pick
  <1>3. /\ \A q \in Procs \ {p} : proc'[q] = proc[q]
        /\ proc'[p].pc \in {"orphan", "claim"} /\ proc'[p].name = n
        /\ proc'[p].ws = proc[p].ws /\ proc'[p].box = proc[p].box
    BY <1>1, <1>2, NamedMoves DEF PCs, Before
  <1>4. BeforeInv(p)' /\ proc'[p].pc \notin Behind
    BY <1>1, <1>3 DEF BeforeInv, Before, Behind, Pick
  <1>5. QED
    BY <1>1, <1>3, <1>4, Quiet DEF BehindInv

LEMMA CheckOrphanKeeps ==
  ASSUME IInv, TypeOK', NEW p \in Procs, CheckOrphan(p)
  PROVE  IInv'
  <1>1. TypeOK /\ UNCHANGED <<registry, journal, tree>> /\ BeforeInv(p)
    BY DEF IInv, CheckOrphan
  <1>2. CASE Refuse(p)
    BY <1>1, <1>2, RefuseMoves, Ends DEF Ended
  <1>3. CASE Goto(p, "claim")
    <2>1. /\ \A q \in Procs \ {p} : proc'[q] = proc[q]
          /\ proc'[p].pc = "claim" /\ proc'[p].ws = proc[p].ws
          /\ proc'[p].name = proc[p].name /\ proc'[p].box = proc[p].box
      BY <1>1, <1>3, GotoMoves DEF PCs, Before
    <2>2. BeforeInv(p)' /\ proc'[p].pc \notin Behind
      BY <1>1, <2>1 DEF BeforeInv, Before, Behind, CheckOrphan
    <2>3. QED
      BY <1>1, <2>1, <2>2, Quiet DEF BehindInv
  <1>4. QED
    BY <1>2, <1>3 DEF CheckOrphan

\* A recovery adopts an entry no running create is behind.
LEMMA ProbeNamedKeeps ==
  ASSUME IInv, TypeOK', NEW p \in Procs, ProbeNamed(p), ~RecoverLive
  PROVE  IInv'
  <1>1. TypeOK /\ UNCHANGED <<registry, journal, tree>> /\ BeforeInv(p)
        /\ proc[p].pc = "probe"
    BY DEF IInv, ProbeNamed
  <1>2. proc[p].ws \in Workspaces /\ proc[p].box = 0
    BY <1>1 DEF BeforeInv, Before
  <1>3. CASE Refuse(p)
    BY <1>1, <1>3, RefuseMoves, Ends DEF Ended
  <1>4. ASSUME NEW n \in Names, Finds(proc[p].ws, n), journal[n] # NoWs,
               proc[p].recover, ~Runs(proc[p].ws), Named(p, n, "drop")
        PROVE  IInv'
    <2>1. /\ \A q \in Procs \ {p} : proc'[q] = proc[q]
          /\ proc'[p].pc = "drop" /\ proc'[p].name = n
          /\ proc'[p].ws = proc[p].ws /\ proc'[p].box = 0
          /\ proc'[p].recover = proc[p].recover
      BY <1>1, <1>2, <1>4, NamedMoves DEF PCs, Behind
    <2>2. journal[n] = proc[p].ws
      <3>1. CASE registry[n] = proc[p].ws
        <4>1. tree[n] = [of |-> proc[p].ws, seeded |-> TRUE]
          BY <1>2, <3>1, NoWsAssumption DEF IInv, StoreInv, RegisteredSeeded
        <4>2. tree[n].of = proc[p].ws
          BY <4>1
        <4>3. QED
          BY <1>2, <1>4, <4>2, NoWsAssumption DEF IInv, StoreInv, EntriesOwnHomes
      <3>2. QED
        BY <1>4, <3>1 DEF Finds
    <2>3. BehindInv(p)'
      BY <1>1, <1>2, <1>4, <2>1, <2>2 DEF BehindInv, AtHome, Undoable
    <2>4. BeforeInv(p)'
      BY <2>1 DEF BeforeInv, Before
    <2>5. \A q \in Procs : proc[q].pc \in Behind => proc[q].ws # proc[p].ws
      BY <1>4 DEF Runs
    <2>6. QED
      BY <1>1, <2>1, <2>3, <2>4, <2>5, Quiet
  <1>5. ASSUME NEW n \in Names,
               Named(p, IF proc[p].typed = 0 THEN n ELSE proc[p].typed, "claim")
        PROVE  IInv'
    <2>1. PICK m \in Names : Named(p, m, "claim")
      BY <1>1, <1>5, Fields
    <2>2. /\ \A q \in Procs \ {p} : proc'[q] = proc[q]
          /\ proc'[p].pc = "claim" /\ proc'[p].name = m
          /\ proc'[p].ws = proc[p].ws /\ proc'[p].box = proc[p].box
      BY <1>1, <2>1, NamedMoves DEF PCs, Before
    <2>3. BeforeInv(p)' /\ proc'[p].pc \notin Behind
      BY <1>2, <2>2 DEF BeforeInv, Behind
    <2>4. QED
      BY <1>1, <2>2, <2>3, Quiet DEF BehindInv
  <1>6. QED
    BY <1>3, <1>4, <1>5 DEF ProbeNamed

-----------------------------------------------------------------------------
(* The steps of a command behind its entry *)

LEMMA Homes ==
  ASSUME IInv, NEW n \in Names
  PROVE  /\ Present(n) <=> tree[n].of # NoWs
         /\ tree[n].seeded => tree[n].of # NoWs
         /\ registry[n] # NoWs => tree[n].of = registry[n] /\ tree[n].seeded
         /\ tree[n].of # NoWs /\ ~tree[n].seeded => journal[n] = tree[n].of
  <1>1. tree[n] \in [of : Workspaces \cup {NoWs}, seeded : BOOLEAN]
    BY DEF IInv, TypeOK
  <1>2. tree[n].seeded => tree[n].of # NoWs
    BY DEF IInv, StoreInv, TreesWhole
  <1>3. tree[n] = [of |-> tree[n].of, seeded |-> tree[n].seeded]
        /\ tree[n].seeded \in BOOLEAN
    BY <1>1
  <1>4. Present(n) <=> tree[n].of # NoWs
    <2>1. ~Present(n) => tree[n].of = NoWs
      BY DEF Present, NoTree
    <2>2. tree[n].of = NoWs => ~Present(n)
      <3>1. tree[n].of = NoWs => tree[n].seeded = FALSE
        BY <1>2, <1>3
      <3>2. QED
        BY <1>3, <3>1 DEF Present, NoTree
    <2>3. QED
      BY <2>1, <2>2
  <1>5. registry[n] # NoWs => tree[n].of = registry[n] /\ tree[n].seeded
    <2>1. registry[n] # NoWs => tree[n] = [of |-> registry[n], seeded |-> TRUE]
      BY DEF IInv, StoreInv, RegisteredSeeded
    <2>2. QED
      BY <2>1
  <1>6. QED
    BY <1>2, <1>4, <1>5 DEF IInv, StoreInv, HalfMadeIsJournaled

\* The claim: no half-made tree is under the name, no entry is at the workspace.
LEMMA ClaimKeeps ==
  ASSUME IInv, TypeOK', NEW p \in Procs, Claim(p)
  PROVE  IInv'
  <1> DEFINE w == proc[p].ws
             n == proc[p].name
  <1>1. TypeOK /\ UNCHANGED <<registry, tree>> /\ BeforeInv(p)
    BY DEF IInv, Claim
  <1>2. w \in Workspaces /\ n \in Names /\ proc[p].box = 0
    BY <1>1 DEF BeforeInv, Before, Claim
  <1>3. CASE Refuse(p) /\ UNCHANGED journal
    BY <1>1, <1>3, RefuseMoves, Ends DEF Ended
  <1>4. CASE Goto(p, "repick") /\ UNCHANGED journal
    <2>1. /\ \A q \in Procs \ {p} : proc'[q] = proc[q]
          /\ proc'[p].pc = "repick" /\ proc'[p].ws = w /\ proc'[p].box = 0
      BY <1>1, <1>2, <1>4, GotoMoves DEF PCs, Before
    <2>2. BeforeInv(p)' /\ proc'[p].pc \notin Behind
      BY <1>2, <2>1 DEF BeforeInv, Behind
    <2>3. QED
      BY <1>1, <1>4, <2>1, <2>2, Quiet DEF BehindInv
  <1>5. CASE /\ ~MadeMeanwhile(w, n) /\ journal[n] = NoWs /\ ~InProgress(w)
             /\ journal' = [journal EXCEPT ![n] = w]
             /\ Goto(p, "drop")
    <2>1. /\ \A q \in Procs \ {p} : proc'[q] = proc[q]
          /\ proc'[p].pc = "drop" /\ proc'[p].ws = w /\ proc'[p].box = 0
          /\ proc'[p].name = n /\ proc'[p].recover = proc[p].recover
      BY <1>1, <1>2, <1>5, GotoMoves DEF PCs, Behind
    <2>2. journal'[n] = w /\ \A m \in Names \ {n} : journal'[m] = journal[m]
      BY <1>1, <1>2, <1>5 DEF TypeOK
    <2>3. tree[n].of \in {NoWs, w} /\ (Present(n) => tree[n].seeded)
      BY <1>2, <1>5, Homes, NoWsAssumption DEF MadeMeanwhile
    <2>4. StoreInv'
      <3>1. RegisteredSeeded' /\ OneBoxPerWorkspace' /\ TreesWhole'
        BY <1>1 DEF IInv, StoreInv, RegisteredSeeded, OneBoxPerWorkspace,
                    TreesWhole
      <3>2. HalfMadeIsJournaled'
        BY <1>1, <2>2, <2>3 DEF IInv, StoreInv, HalfMadeIsJournaled, Present
      <3>3. EntriesOwnHomes'
        BY <1>1, <1>2, <1>5, <2>2, <2>3
        DEF IInv, StoreInv, EntriesOwnHomes, InProgress
      <3>4. QED
        BY <3>1, <3>2, <3>3 DEF StoreInv
    <2>5. BehindInv(p)' /\ BeforeInv(p)'
      BY <1>1, <1>2, <2>1, <2>2, <2>3
      DEF BehindInv, BeforeInv, Before, AtHome, Undoable, SeededIfThere, Present
    <2>6. ASSUME NEW q \in Procs \ {p}, proc[q].pc \in Behind
          PROVE  proc[q].ws # w /\ Untouched(q)
      <3>1. proc[q].name \in Names /\ proc[q].ws \in Workspaces
            /\ journal[proc[q].name] = proc[q].ws
        BY <2>6 DEF IInv, BehindInv
      <3>2. proc[q].ws # w /\ proc[q].name # n
        BY <1>5, <3>1, NoWsAssumption DEF InProgress
      <3>3. QED
        BY <1>1, <2>2, <3>1, <3>2 DEF Untouched
    <2>7. QED
      BY <2>1, <2>4, <2>5, <2>6, Compose
  <1>6. QED
    BY <1>3, <1>4, <1>5 DEF Claim

LEMMA DropGoneParkedKeeps ==
  ASSUME IInv, TypeOK', NEW p \in Procs, DropGoneParked(p)
  PROVE  IInv'
  <1>1. TypeOK /\ UNCHANGED <<registry, journal, tree>> /\ BehindInv(p)
        /\ proc[p].pc = "drop" /\ proc[p].pc \in Behind
    BY DEF IInv, DropGoneParked, Behind
  <1>2. /\ \A q \in Procs \ {p} : proc'[q] = proc[q]
        /\ proc'[p].pc = "arm" /\ proc'[p].ws = proc[p].ws
        /\ proc'[p].name = proc[p].name /\ proc'[p].box = proc[p].box
        /\ proc'[p].recover = proc[p].recover
    BY <1>1, GotoMoves DEF PCs, Behind, DropGoneParked
  <1>3. BehindInv(p)' /\ BeforeInv(p)'
    BY <1>1, <1>2
    DEF BehindInv, BeforeInv, Before, AtHome, Undoable, SeededIfThere, Present
  <1>4. QED
    BY <1>1, <1>2, <1>3, StillApart, Quiet

LEMMA ArmUndoKeeps ==
  ASSUME IInv, TypeOK', NEW p \in Procs, ArmUndo(p)
  PROVE  IInv'
  <1>1. TypeOK /\ UNCHANGED <<registry, journal, tree>> /\ BehindInv(p)
        /\ proc[p].pc = "arm" /\ proc[p].pc \in Behind
    BY DEF IInv, ArmUndo, Behind
  <1>2. /\ \A q \in Procs \ {p} : proc'[q] = proc[q]
        /\ proc'[p].pc = "make" /\ proc'[p].ws = proc[p].ws
        /\ proc'[p].name = proc[p].name /\ proc'[p].box = proc[p].box
        /\ proc'[p].recover = proc[p].recover
        /\ proc'[p].fresh = (~proc[p].recover /\ ~Present(proc[p].name))
    BY <1>1, ArmMoves
  <1>3. /\ proc[p].name \in Names
        /\ ~Present(proc[p].name) => ~tree[proc[p].name].seeded
    BY <1>1, Homes DEF BehindInv
  <1>4. BehindInv(p)' /\ BeforeInv(p)'
    BY <1>1, <1>2, <1>3
    DEF BehindInv, BeforeInv, Before, AtHome, Undoable, SeededIfThere
  <1>5. QED
    BY <1>1, <1>2, <1>4, StillApart, Quiet

\* The home a materialize lands on is its workspace's, and one it makes lies
\* behind the command's own entry.
LEMMA MakeLands ==
  ASSUME IInv, NEW p \in Procs, Make(p)
  PROVE  \E box \in Names :
           /\ box = proc[p].name \/ registry[box] = proc[p].ws
           /\ Present(box) => tree[box].of = proc[p].ws
           /\ ~Present(box) => /\ box = proc[p].name
                               /\ \A m \in Names : registry[m] # proc[p].ws
           /\ Enter(p, box)
           /\ tree' = IF Present(box) THEN tree
                      ELSE [tree EXCEPT ![box].of = proc[p].ws]
  <1> DEFINE w == proc[p].ws
             k == proc[p].name
  <1>1. /\ TypeOK /\ UNCHANGED <<registry, journal>> /\ BehindInv(p)
        /\ proc[p].pc = "make" /\ proc[p].pc \in Behind
    BY DEF IInv, Make, Behind
  <1>2. w \in Workspaces /\ k \in Names /\ journal[k] = w
    BY <1>1 DEF BehindInv
  <1>3. PICK n \in Names :
          /\ Finds(w, n)
          /\ LET box == IF Present(n) THEN n ELSE k IN
               /\ tree' = IF Present(box) THEN tree ELSE [tree EXCEPT ![box].of = w]
               /\ Enter(p, box)
    <2>1. ~Unnamed(w)
      BY <1>2 DEF Unnamed
    <2>2. PICK b \in Lands(w, k) :
            /\ tree' = IF Present(b) THEN tree ELSE [tree EXCEPT ![b].of = w]
            /\ Enter(p, b)
      BY DEF Make
    <2>3. PICK m \in Names : Finds(w, m) /\ b = IF Present(m) THEN m ELSE k
      BY <2>1, <2>2 DEF Lands
    <2>4. QED
      BY <2>2, <2>3
  <1> DEFINE box == IF Present(n) THEN n ELSE k
  <1>4. box \in Names
    BY <1>2
  <1>5. registry[n] = w \/ n = k
    BY <1>2, <1>3, NoWsAssumption DEF Finds, IInv, StoreInv, EntriesOwnHomes
  <1>6. registry[n] = w => Present(n)
    BY <1>2, Homes, NoWsAssumption
  <1>7. box = k \/ registry[box] = w
    BY <1>5
  <1>8. Present(box) => tree[box].of = w
    <2>1. registry[box] = w => tree[box].of = w
      BY <1>2, <1>4, Homes, NoWsAssumption
    <2>2. box = k /\ Present(box) => tree[box].of = w
      <3>1. tree[k].of \in {NoWs, w}
        BY <1>2, NoWsAssumption DEF IInv, StoreInv, EntriesOwnHomes
      <3>2. QED
        BY <1>2, <3>1, Homes
    <2>3. QED
      BY <1>7, <2>1, <2>2
  <1>9. ~Present(box) => box = k /\ \A m \in Names : registry[m] # w
    BY <1>3, <1>5, <1>6, <1>2, Homes, NoWsAssumption DEF Finds
  <1>10. Enter(p, box) /\ tree' = IF Present(box) THEN tree
                                  ELSE [tree EXCEPT ![box].of = w]
    BY <1>3
  <1>11. QED
    BY <1>4, <1>7, <1>8, <1>9, <1>10

LEMMA MakeKeeps ==
  ASSUME IInv, TypeOK', NEW p \in Procs, Make(p)
  PROVE  IInv'
  <1> DEFINE w == proc[p].ws
             k == proc[p].name
  <1>1. /\ TypeOK /\ UNCHANGED <<registry, journal>> /\ BehindInv(p)
        /\ proc[p].pc = "make" /\ proc[p].pc \in Behind
    BY DEF IInv, Make, Behind
  <1>2. w \in Workspaces /\ k \in Names /\ journal[k] = w
    BY <1>1 DEF BehindInv
  <1>3. PICK box \in Names :
          /\ box = k \/ registry[box] = w
          /\ Present(box) => tree[box].of = w
          /\ ~Present(box) => box = k /\ \A m \in Names : registry[m] # w
          /\ Enter(p, box)
          /\ tree' = IF Present(box) THEN tree ELSE [tree EXCEPT ![box].of = w]
    BY MakeLands
  <1>4. /\ \A q \in Procs \ {p} : proc'[q] = proc[q]
        /\ proc'[p].pc = "persist" /\ proc'[p].ws = w /\ proc'[p].name = k
        /\ proc'[p].box = box /\ proc'[p].recover = proc[p].recover
        /\ proc'[p].fresh = proc[p].fresh
    BY <1>1, <1>3, EnterMoves
  <1>5. /\ \A m \in Names \ {box} : tree'[m] = tree[m]
        /\ tree'[box].of = w /\ tree'[box].seeded = tree[box].seeded
        /\ Present(box) => tree'[box] = tree[box]
    BY <1>1, <1>3 DEF TypeOK
  <1>6. ~Present(box) => ~tree[box].seeded /\ registry[box] = NoWs
    BY <1>3, Homes
  <1>7. StoreInv'
    <2>1. RegisteredSeeded'
      BY <1>1, <1>5, <1>6 DEF IInv, StoreInv, RegisteredSeeded
    <2>2. HalfMadeIsJournaled'
      BY <1>1, <1>2, <1>3, <1>5 DEF IInv, StoreInv, HalfMadeIsJournaled, Present
    <2>3. OneBoxPerWorkspace'
      BY <1>1 DEF IInv, StoreInv, OneBoxPerWorkspace
    <2>4. EntriesOwnHomes'
      BY <1>1, <1>2, <1>3, <1>5 DEF IInv, StoreInv, EntriesOwnHomes
    <2>5. TreesWhole'
      BY <1>5, <1>6, <1>2, NoWsAssumption DEF IInv, StoreInv, TreesWhole
    <2>6. QED
      BY <2>1, <2>2, <2>3, <2>4, <2>5 DEF StoreInv
  <1>8. tree'[k].seeded = tree[k].seeded
    BY <1>2, <1>5
  <1>9. BehindInv(p)' /\ BeforeInv(p)'
    BY <1>1, <1>2, <1>3, <1>4, <1>5, <1>8
    DEF BehindInv, BeforeInv, Before, AtHome, Undoable
  <1>10. ASSUME NEW q \in Procs \ {p}, proc[q].pc \in Behind
         PROVE  Untouched(q)
    <2>1. CASE Present(box)
      BY <1>1, <1>3, <1>5, <2>1 DEF Untouched
    <2>2. CASE ~Present(box)
      <3>1. proc[q].name # box /\ proc[q].box # box /\ proc[q].name \in Names
        BY <1>1, <1>3, <1>10, <2>2, Apart DEF IInv, BehindInv
      <3>2. QED
        BY <1>1, <1>5, <3>1 DEF Untouched
    <2>3. QED
      BY <2>1, <2>2
  <1>11. QED
    BY <1>1, <1>4, <1>7, <1>9, <1>10, StillApart, Compose

LEMMA PersistKeeps ==
  ASSUME IInv, TypeOK', NEW p \in Procs, Persist(p)
  PROVE  IInv'
  <1>1. TypeOK /\ UNCHANGED <<registry, journal, tree>> /\ BehindInv(p)
        /\ proc[p].pc = "persist" /\ proc[p].pc \in Behind
    BY DEF IInv, Persist, Behind
  <1>2. /\ \A q \in Procs \ {p} : proc'[q] = proc[q]
        /\ proc'[p].pc = "seed" /\ proc'[p].ws = proc[p].ws
        /\ proc'[p].name = proc[p].name /\ proc'[p].box = proc[p].box
    BY <1>1, GotoMoves DEF PCs, Behind, Persist
  <1>3. BehindInv(p)' /\ BeforeInv(p)'
    BY <1>1, <1>2 DEF BehindInv, BeforeInv, Before, AtHome, Undoable
  <1>4. QED
    BY <1>1, <1>2, <1>3, StillApart, Quiet

LEMMA FailKeeps ==
  ASSUME IInv, TypeOK', NEW p \in Procs, Fail(p)
  PROVE  IInv'
  <1>1. TypeOK /\ UNCHANGED <<registry, journal, tree>> /\ BehindInv(p)
        /\ proc[p].pc \in {"make", "persist"} /\ proc[p].pc \in Behind
    BY DEF IInv, Fail, Behind
  <1>2. CASE Refuse(p)
    BY <1>1, <1>2, RefuseMoves, Ends DEF Ended
  <1>3. CASE ~proc[p].recover /\ Goto(p, "undo")
    <2>1. /\ \A q \in Procs \ {p} : proc'[q] = proc[q]
          /\ proc'[p].pc = "undo" /\ proc'[p].ws = proc[p].ws
          /\ proc'[p].name = proc[p].name /\ proc'[p].box = proc[p].box
          /\ proc'[p].recover = proc[p].recover /\ proc'[p].fresh = proc[p].fresh
      BY <1>1, <1>3, GotoMoves DEF PCs, Behind
    <2>2. BehindInv(p)' /\ BeforeInv(p)'
      BY <1>1, <1>3, <2>1 DEF BehindInv, BeforeInv, Before, AtHome, Undoable
    <2>3. QED
      BY <1>1, <2>1, <2>2, StillApart, Quiet
  <1>4. QED
    BY <1>2, <1>3 DEF Fail

\* The undo removes a tree only when nothing was seeded there.
LEMMA UndoKeeps ==
  ASSUME IInv, TypeOK', NEW p \in Procs, Undo(p)
  PROVE  IInv'
  <1> DEFINE w == proc[p].ws
             k == proc[p].name
  <1>1. /\ TypeOK /\ UNCHANGED <<registry, journal>> /\ BehindInv(p)
        /\ proc[p].pc = "undo" /\ proc[p].pc \in Behind
    BY DEF IInv, Undo, Behind
  <1>2. /\ w \in Workspaces /\ k \in Names /\ journal[k] = w /\ ~proc[p].recover
        /\ proc[p].fresh => ~tree[k].seeded
        /\ ~proc[p].fresh => tree[k].seeded
        /\ proc[p].box \in {0, k} \/ tree[proc[p].box].of = w
    BY <1>1 DEF BehindInv, Undoable
  <1>3. /\ \A q \in Procs \ {p} : proc'[q] = proc[q]
        /\ proc'[p].pc = "unclaim" /\ proc'[p].ws = w /\ proc'[p].name = k
        /\ proc'[p].box = proc[p].box /\ proc'[p].recover = proc[p].recover
    BY <1>1, GotoMoves DEF PCs, Behind, Undo
  <1>4. /\ \A m \in Names \ {k} : tree'[m] = tree[m]
        /\ proc[p].fresh => tree'[k] = NoTree
        /\ ~proc[p].fresh => tree'[k] = tree[k]
    BY <1>1, <1>2 DEF TypeOK, Undo
  <1>5. proc[p].fresh => registry[k] = NoWs
    BY <1>2, Homes
  <1>6. StoreInv'
    <2>1. CASE proc[p].fresh
      <3>1. /\ tree'[k] = NoTree /\ tree'[k].of = NoWs /\ tree'[k].seeded = FALSE
            /\ registry[k] = NoWs
        BY <1>4, <1>5, <2>1 DEF NoTree
      <3>2. RegisteredSeeded' /\ OneBoxPerWorkspace'
        BY <1>1, <1>4, <3>1
        DEF IInv, StoreInv, RegisteredSeeded, OneBoxPerWorkspace
      <3>3. HalfMadeIsJournaled'
        BY <1>1, <1>4, <3>1 DEF IInv, StoreInv, HalfMadeIsJournaled, Present
      <3>4. EntriesOwnHomes' /\ TreesWhole'
        BY <1>1, <1>4, <3>1 DEF IInv, StoreInv, EntriesOwnHomes, TreesWhole
      <3>5. QED
        BY <3>2, <3>3, <3>4 DEF StoreInv
    <2>2. CASE ~proc[p].fresh
      <3>1. UNCHANGED tree
        BY <2>2 DEF Undo
      <3>2. QED
        BY <1>1, <3>1
        DEF IInv, StoreInv, RegisteredSeeded, HalfMadeIsJournaled, Present,
            OneBoxPerWorkspace, EntriesOwnHomes, TreesWhole
    <2>3. QED
      BY <2>1, <2>2
  <1>7. SeededIfThere(k)'
    BY <1>2, <1>3, <1>4 DEF SeededIfThere, Present
  <1>8. proc[p].box \in {0, k} \/ tree'[proc[p].box].of = w
    BY <1>1, <1>2, <1>4, Fields
  <1>9. BehindInv(p)' /\ BeforeInv(p)'
    BY <1>1, <1>2, <1>3, <1>7, <1>8
    DEF BehindInv, BeforeInv, Before, AtHome, Undoable, SeededIfThere
  <1>10. ASSUME NEW q \in Procs \ {p}, proc[q].pc \in Behind
         PROVE  Untouched(q)
    <2>1. proc[q].name # k /\ proc[q].box # k /\ proc[q].name \in Names
      BY <1>1, <1>10, Apart DEF IInv, BehindInv
    <2>2. QED
      BY <1>1, <1>4, <2>1 DEF Untouched
  <1>11. QED
    BY <1>1, <1>3, <1>6, <1>9, <1>10, StillApart, Compose

\* An entry is withdrawn only when no half-made tree needs it.
LEMMA UnclaimKeeps ==
  ASSUME IInv, TypeOK', NEW p \in Procs, Unclaim(p)
  PROVE  IInv'
  <1> DEFINE k == proc[p].name
  <1>1. /\ TypeOK /\ UNCHANGED <<registry, tree>> /\ BehindInv(p)
        /\ proc[p].pc = "unclaim" /\ proc[p].pc \in Behind
    BY DEF IInv, Unclaim, Behind
  <1>2. k \in Names /\ SeededIfThere(k)
    BY <1>1 DEF BehindInv
  <1>3. /\ \A q \in Procs \ {p} : proc'[q] = proc[q]
        /\ proc'[p].pc = "idle"
    BY <1>1, RefuseMoves DEF Unclaim
  <1>4. journal'[k] = NoWs /\ \A m \in Names \ {k} : journal'[m] = journal[m]
    BY <1>1, <1>2 DEF TypeOK, Unclaim
  <1>5. StoreInv'
    BY <1>1, <1>2, <1>4
    DEF IInv, StoreInv, RegisteredSeeded, HalfMadeIsJournaled, Present,
        OneBoxPerWorkspace, EntriesOwnHomes, TreesWhole, SeededIfThere
  <1>6. BehindInv(p)' /\ BeforeInv(p)' /\ proc'[p].pc \notin Behind
    BY <1>3 DEF BehindInv, BeforeInv, Before, Behind
  <1>7. ASSUME NEW q \in Procs \ {p}, proc[q].pc \in Behind
        PROVE  Untouched(q)
    <2>1. proc[q].name # k /\ proc[q].name \in Names
      BY <1>1, <1>7, Apart DEF IInv, BehindInv
    <2>2. QED
      BY <1>1, <1>4, <2>1 DEF Untouched
  <1>8. QED
    BY <1>3, <1>5, <1>6, <1>7, Compose

LEMMA SeedKeeps ==
  ASSUME IInv, TypeOK', NEW p \in Procs, Seed(p)
  PROVE  IInv'
  <1> DEFINE b == proc[p].box
  <1>1. /\ TypeOK /\ UNCHANGED <<registry, journal>> /\ BehindInv(p)
        /\ proc[p].pc = "seed" /\ proc[p].pc \in Behind /\ AtHome(p)
    BY DEF IInv, Seed, Behind, AtHome
  <1>2. b \in Names /\ tree[b].of = proc[p].ws /\ proc[p].ws \in Workspaces
    BY <1>1 DEF BehindInv
  <1>3. /\ \A q \in Procs \ {p} : proc'[q] = proc[q]
        /\ proc'[p].pc = "register" /\ proc'[p].ws = proc[p].ws
        /\ proc'[p].name = proc[p].name /\ proc'[p].box = b
    BY <1>1, GotoMoves DEF PCs, Behind, Seed
  <1>4. /\ \A m \in Names \ {b} : tree'[m] = tree[m]
        /\ tree'[b].of = tree[b].of /\ tree'[b].seeded = TRUE
        /\ tree'[b] = [of |-> tree[b].of, seeded |-> TRUE]
    <2>1. tree[b] \in [of : Workspaces \cup {NoWs}, seeded : BOOLEAN]
      BY <1>1, <1>2 DEF TypeOK
    <2>2. /\ \A m \in Names \ {b} : tree'[m] = tree[m]
          /\ tree'[b] = [tree[b] EXCEPT !.seeded = TRUE]
      BY <1>1, <1>2 DEF TypeOK, Seed
    <2>3. [tree[b] EXCEPT !.seeded = TRUE] = [of |-> tree[b].of, seeded |-> TRUE]
      <3> DEFINE t == [tree[b] EXCEPT !.seeded = TRUE]
      <3>1. /\ t \in [of : Workspaces \cup {NoWs}, seeded : BOOLEAN]
            /\ t.of = tree[b].of /\ t.seeded = TRUE
        BY <2>1
      <3> HIDE DEF t
      <3>2. t = [of |-> t.of, seeded |-> t.seeded]
        BY <3>1
      <3>3. QED
        BY <3>1, <3>2 DEF t
    <2>4. QED
      BY <2>2, <2>3
  <1>5. StoreInv'
    <2>1. RegisteredSeeded'
      BY <1>1, <1>2, <1>4, Homes DEF IInv, StoreInv, RegisteredSeeded
    <2>2. HalfMadeIsJournaled' /\ OneBoxPerWorkspace'
      BY <1>1, <1>4
      DEF IInv, StoreInv, HalfMadeIsJournaled, Present, OneBoxPerWorkspace
    <2>3. EntriesOwnHomes'
      BY <1>1, <1>4 DEF IInv, StoreInv, EntriesOwnHomes
    <2>4. TreesWhole'
      BY <1>2, <1>4, NoWsAssumption DEF IInv, StoreInv, TreesWhole
    <2>5. QED
      BY <2>1, <2>2, <2>3, <2>4 DEF StoreInv
  <1>6. BehindInv(p)' /\ BeforeInv(p)'
    BY <1>1, <1>2, <1>3, <1>4
    DEF BehindInv, BeforeInv, Before, AtHome, Undoable, Behind
  <1>7. ASSUME NEW q \in Procs \ {p}, proc[q].pc \in Behind
        PROVE  Untouched(q)
    <2>1. proc[q].name # b /\ proc[q].box # b /\ proc[q].name \in Names
      BY <1>1, <1>7, Apart DEF IInv, BehindInv
    <2>2. QED
      BY <1>1, <1>4, <2>1 DEF Untouched
  <1>8. QED
    BY <1>1, <1>3, <1>5, <1>6, <1>7, StillApart, Compose

\* The committing step registers a seeded home, at a free name and workspace.
LEMMA RegisterKeeps ==
  ASSUME IInv, TypeOK', NEW p \in Procs, Register(p)
  PROVE  IInv'
  <1> DEFINE b == proc[p].box
             w == proc[p].ws
  <1>1. /\ TypeOK /\ UNCHANGED <<journal, tree>> /\ BehindInv(p)
        /\ proc[p].pc = "register" /\ proc[p].pc \in Behind /\ AtHome(p)
        /\ registry[b] = w \/ ~Refused(w, b)
    BY DEF IInv, Register, Behind, AtHome
  <1>2. /\ b \in Names /\ tree[b].of = w /\ w \in Workspaces /\ tree[b].seeded
        /\ b = proc[p].name \/ registry[b] = w
        /\ journal[proc[p].name] = w /\ proc[p].name \in Names
    BY <1>1 DEF BehindInv
  <1>3. /\ \A q \in Procs \ {p} : proc'[q] = proc[q]
        /\ proc'[p].pc = "clear" /\ proc'[p].ws = w
        /\ proc'[p].name = proc[p].name /\ proc'[p].box = b
    BY <1>1, GotoMoves DEF PCs, Behind, Register
  <1>4. registry'[b] = w /\ \A m \in Names \ {b} : registry'[m] = registry[m]
    BY <1>1, <1>2 DEF TypeOK, Register
  <1>5. StoreInv'
    <2>1. RegisteredSeeded'
      <3>1. tree[b] \in [of : Workspaces \cup {NoWs}, seeded : BOOLEAN]
        BY <1>1, <1>2 DEF TypeOK
      <3>2. tree[b] = [of |-> tree[b].of, seeded |-> tree[b].seeded]
            /\ tree[b].seeded = TRUE
        BY <1>2, <3>1
      <3>3. tree[b] = [of |-> w, seeded |-> TRUE]
        BY <1>2, <3>2
      <3>4. QED
        BY <1>1, <1>4, <3>3 DEF IInv, StoreInv, RegisteredSeeded
    <2>2. HalfMadeIsJournaled' /\ EntriesOwnHomes' /\ TreesWhole'
      BY <1>1
      DEF IInv, StoreInv, HalfMadeIsJournaled, Present, EntriesOwnHomes, TreesWhole
    <2>3. OneBoxPerWorkspace'
      <3>1. \A m \in Names \ {b} : registry[m] # w
        BY <1>1, <1>2, NoWsAssumption DEF IInv, StoreInv, OneBoxPerWorkspace, Refused
      <3>2. QED
        BY <1>4, <3>1 DEF IInv, StoreInv, OneBoxPerWorkspace
    <2>4. QED
      BY <2>1, <2>2, <2>3 DEF StoreInv
  <1>6. BehindInv(p)' /\ BeforeInv(p)'
    BY <1>1, <1>2, <1>3, <1>4
    DEF BehindInv, BeforeInv, Before, AtHome, Undoable, Behind
  <1>7. ASSUME NEW q \in Procs \ {p}, proc[q].pc \in Behind
        PROVE  Untouched(q)
    <2>1. proc[q].box # b
      BY <1>1, <1>7, Apart
    <2>2. QED
      BY <1>1, <1>4, <2>1 DEF Untouched
  <1>8. QED
    BY <1>1, <1>3, <1>5, <1>6, <1>7, StillApart, Compose

LEMMA ClearKeeps ==
  ASSUME IInv, TypeOK', NEW p \in Procs, Clear(p)
  PROVE  IInv'
  <1> DEFINE b == proc[p].box
  <1>1. /\ TypeOK /\ UNCHANGED <<registry, tree>> /\ BehindInv(p)
        /\ proc[p].pc = "clear" /\ proc[p].pc \in Behind /\ AtHome(p)
    BY DEF IInv, Clear, Behind, AtHome
  <1>2. b \in Names /\ tree[b].seeded
    BY <1>1 DEF BehindInv
  <1>3. (\A q \in Procs \ {p} : proc'[q] = proc[q]) /\ proc'[p].pc = "done"
    BY <1>1, ClearMoves
  <1>4. journal'[b] = NoWs /\ \A m \in Names \ {b} : journal'[m] = journal[m]
    BY <1>1, <1>2 DEF TypeOK, Clear
  <1>5. StoreInv'
    BY <1>1, <1>2, <1>4
    DEF IInv, StoreInv, RegisteredSeeded, HalfMadeIsJournaled, Present,
        OneBoxPerWorkspace, EntriesOwnHomes, TreesWhole
  <1>6. BehindInv(p)' /\ BeforeInv(p)' /\ proc'[p].pc \notin Behind
    BY <1>3 DEF BehindInv, BeforeInv, Before, Behind
  <1>7. ASSUME NEW q \in Procs \ {p}, proc[q].pc \in Behind
        PROVE  Untouched(q)
    <2>1. proc[q].name # b /\ proc[q].name \in Names
      BY <1>1, <1>7, Apart DEF IInv, BehindInv
    <2>2. QED
      BY <1>1, <1>4, <2>1 DEF Untouched
  <1>8. QED
    BY <1>3, <1>5, <1>6, <1>7, Compose

\* The steps that end a command and change nothing else.
LEMMA RefusalKeeps ==
  ASSUME IInv, TypeOK', NEW p \in Procs, UndoFails(p) \/ Raise(p) \/ Kill(p)
  PROVE  IInv'
  <1>1. TypeOK /\ UNCHANGED <<registry, journal, tree>> /\ Refuse(p)
    BY DEF IInv, UndoFails, Raise, Kill
  <1>2. QED
    BY <1>1, RefuseMoves, Ends DEF Ended

-----------------------------------------------------------------------------
LEMMA InvInit == Init => IInv
  <1> SUFFICES ASSUME Init PROVE IInv
    OBVIOUS
  <1>1. TypeOK
    BY TypeInit
  <1>2. ASSUME NEW n \in Names
        PROVE  /\ tree[n] = NoTree \/ (tree[n].of \in Workspaces /\ tree[n].seeded = TRUE
                    /\ tree[n] = [of |-> tree[n].of, seeded |-> TRUE])
               /\ journal[n] = NoWs
               /\ registry[n] # NoWs => tree[n].of = registry[n]
               /\ registry[n] \in Workspaces \cup {NoWs}
    <2>1. tree[n] \in [of : Workspaces, seeded : {TRUE}] \cup {NoTree}
      BY DEF Init
    <2>2. tree[n] = NoTree \/ tree[n] \in [of : Workspaces, seeded : {TRUE}]
      BY <2>1
    <2>3. tree[n] \in [of : Workspaces, seeded : {TRUE}] =>
            /\ tree[n] = [of |-> tree[n].of, seeded |-> tree[n].seeded]
            /\ tree[n].of \in Workspaces /\ tree[n].seeded = TRUE
      OBVIOUS
    <2>4. QED
      BY <2>2, <2>3 DEF Init
  <1>3. NoTree.of = NoWs /\ NoTree.seeded = FALSE
    BY DEF NoTree
  <1>4. StoreInv
    <2>1. RegisteredSeeded
      BY <1>2, <1>3, NoWsAssumption DEF RegisteredSeeded
    <2>2. HalfMadeIsJournaled
      BY <1>2, <1>3, NoWsAssumption DEF HalfMadeIsJournaled, Present
    <2>3. OneBoxPerWorkspace /\ EntriesOwnHomes /\ TreesWhole
      BY <1>2, <1>3, NoWsAssumption
      DEF Init, OneBoxPerWorkspace, EntriesOwnHomes, TreesWhole
    <2>4. QED
      BY <2>1, <2>2, <2>3 DEF StoreInv
  <1>5. \A p \in Procs : proc[p].pc = "idle"
    BY DEF Init, Idle
  <1>6. QED
    BY <1>1, <1>4, <1>5
    DEF IInv, WorkspacesApart, BeforeInv, BehindInv, Before, Behind

LEMMA InvStep ==
  ASSUME ~RecoverLive, IInv, [Next]_vars
  PROVE  IInv'
  <1>1. TypeOK'
    BY TypeStep DEF IInv
  <1>2. ASSUME NEW p \in Procs, NEW w \in Workspaces,
               NEW typed \in Typed \cup {0}, NEW recover \in BOOLEAN,
               Begin(p, w, typed, recover)
        PROVE  IInv'
    BY <1>1, <1>2, BeginKeeps
  <1>3. ASSUME NEW p \in Procs, Step(p) PROVE IInv'
    BY <1>1, <1>3, CheckNameKeeps, ProbeNamedKeeps, ProbeNewKeeps, PickKeeps,
       CheckOrphanKeeps, ClaimKeeps, DropGoneParkedKeeps, ArmUndoKeeps, MakeKeeps,
       PersistKeeps, FailKeeps, UndoKeeps, UnclaimKeeps, SeedKeeps,
       RegisterKeeps, ClearKeeps, RefusalKeeps
    DEF Step
  <1>4. ASSUME NEW p \in Procs, Kill(p) PROVE IInv'
    BY <1>1, <1>4, RefusalKeeps
  <1>5. CASE UNCHANGED vars
    BY <1>5
    DEF vars, IInv, TypeOK, StoreInv, RegisteredSeeded, HalfMadeIsJournaled, Present,
        OneBoxPerWorkspace, EntriesOwnHomes, TreesWhole,
        WorkspacesApart, BeforeInv, BehindInv, AtHome, Undoable, SeededIfThere
  <1>6. QED
    BY <1>2, <1>3, <1>4, <1>5 DEF Next

-----------------------------------------------------------------------------
(* The theorems *)

LEMMA InvAlways ==
  ASSUME ~RecoverLive
  PROVE  Spec => []IInv
  <1>1. IInv /\ [Next]_vars => IInv'
    BY InvStep
  <1>2. QED
    BY InvInit, <1>1, PTL DEF Spec

\* A registered box is a seeded box: no launch finds a half-made home by name,
\* whatever creates, failures and kills came before.
THEOREM SeededWhenRegistered ==
  ASSUME ~RecoverLive
  PROVE  Spec => []RegisteredSeeded
  <1>1. IInv => RegisteredSeeded
    BY DEF IInv, StoreInv
  <1>2. QED
    BY InvAlways, <1>1, PTL

\* A half-made home always has the entry that --recover resumes.
THEOREM JournaledWhenHalfMade ==
  ASSUME ~RecoverLive
  PROVE  Spec => []HalfMadeIsJournaled
  <1>1. IInv => HalfMadeIsJournaled
    BY DEF IInv, StoreInv
  <1>2. QED
    BY InvAlways, <1>1, PTL

\* A home is made only for a workspace without a box, and the box of a create is
\* the one its workspace's entry names.
LEMMA NoSecondHomeStep ==
  ASSUME IInv, NoSecondHome, [Next]_vars
  PROVE  NoSecondHome'
  <1>1. ASSUME NEW p \in Procs, Step(p) PROVE NoSecondHome'
    <2>1. TypeOK /\ BehindInv(p)
      BY DEF IInv
    <2>2. CASE Make(p)
      <3>1. UNCHANGED registry /\ proc[p].ws \in Workspaces
        BY <2>1, <2>2 DEF Make, BehindInv, Behind
      <3>2. PICK box \in Names :
              /\ ~Present(box) => \A m \in Names : registry[m] # proc[p].ws
              /\ tree' = IF Present(box) THEN tree
                         ELSE [tree EXCEPT ![box].of = proc[p].ws]
        BY <2>2, MakeLands
      <3>3. CASE Present(box)
        BY <3>1, <3>2, <3>3 DEF NoSecondHome
      <3>4. CASE ~Present(box)
        <4>1. /\ \A m \in Names \ {box} : tree'[m] = tree[m]
              /\ tree'[box].of = proc[p].ws
          BY <2>1, <3>2, <3>4 DEF TypeOK
        <4>2. QED
          BY <3>1, <3>2, <3>4, <4>1 DEF NoSecondHome
      <3>5. QED
        BY <3>3, <3>4
    <2>3. CASE Undo(p)
      <3>1. proc[p].name \in Names /\ UNCHANGED registry
        BY <2>1, <2>3 DEF BehindInv, Undo, Behind
      <3>2. /\ \A m \in Names \ {proc[p].name} : tree'[m] = tree[m]
            /\ tree'[proc[p].name] \in {NoTree, tree[proc[p].name]}
        BY <2>1, <2>3, <3>1 DEF Undo, TypeOK
      <3>3. NoTree.of = NoWs
        BY DEF NoTree
      <3>4. QED
        BY <3>1, <3>2, <3>3 DEF NoSecondHome
    <2>4. CASE Seed(p)
      <3>1. proc[p].box \in Names /\ UNCHANGED registry
        BY <2>1, <2>4 DEF BehindInv, Seed, Behind, AtHome
      <3>2. /\ \A m \in Names \ {proc[p].box} : tree'[m] = tree[m]
            /\ tree'[proc[p].box].seeded
        BY <2>1, <2>4, <3>1 DEF Seed, TypeOK
      <3>3. QED
        BY <3>1, <3>2 DEF NoSecondHome
    <2>5. CASE Register(p)
      <3> DEFINE b == proc[p].box
                 w == proc[p].ws
      <3>1. /\ b \in Names /\ w \in Workspaces /\ UNCHANGED tree
            /\ b = proc[p].name \/ registry[b] = w
            /\ journal[proc[p].name] = w /\ proc[p].name \in Names
        BY <2>1, <2>5 DEF BehindInv, Register, Behind, AtHome
      <3>2. registry'[b] = w /\ \A m \in Names \ {b} : registry'[m] = registry[m]
        BY <2>1, <2>5, <3>1 DEF TypeOK, Register
      <3>3. ASSUME NEW m \in Names \ {b}, tree[m].of = w PROVE tree[m].seeded
        <4>1. CASE registry[b] = w
          BY <3>1, <3>3, <4>1, NoWsAssumption DEF NoSecondHome
        <4>2. CASE b = proc[p].name
          <5>1. tree[m].of # NoWs /\ ~tree[m].seeded => journal[m] = w
            BY <3>3, Homes
          <5>2. journal[m] # w
            BY <3>1, <3>3, <4>2, NoWsAssumption DEF IInv, StoreInv, EntriesOwnHomes
          <5>3. QED
            BY <3>1, <3>3, <5>1, <5>2, NoWsAssumption
        <4>3. QED
          BY <3>1, <4>1, <4>2
      <3>4. QED
        BY <3>1, <3>2, <3>3 DEF NoSecondHome
    <2>6. QED
      BY <1>1, <2>2, <2>3, <2>4, <2>5
      DEF NoSecondHome, Step, CheckName, ProbeNamed, ProbeNew, Pick, CheckOrphan,
          Claim, DropGoneParked, ArmUndo, Persist, Fail, UndoFails, Unclaim, Raise,
          Clear
  <1>2. (\E p \in Procs : Step(p)) \/ UNCHANGED <<registry, tree>>
    BY DEF Next, Begin, Kill, vars
  <1>3. QED
    BY <1>1, <1>2 DEF NoSecondHome

\* A workspace with a registered box has no half-made home under another name.
THEOREM OneHomePerWorkspace ==
  ASSUME ~RecoverLive
  PROVE  Spec => []NoSecondHome
  <1>1. Init => NoSecondHome
    <2> SUFFICES ASSUME Init PROVE NoSecondHome
      OBVIOUS
    <2>1. ASSUME NEW m \in Names PROVE tree[m].of # NoWs => tree[m].seeded
      <3>1. tree[m] = NoTree \/ tree[m] \in [of : Workspaces, seeded : {TRUE}]
        BY DEF Init
      <3>2. NoTree.of = NoWs
        BY DEF NoTree
      <3>3. QED
        BY <3>1, <3>2
    <2>2. QED
      BY <2>1 DEF NoSecondHome
  <1>2. IInv /\ NoSecondHome /\ [Next]_vars => NoSecondHome'
    BY NoSecondHomeStep
  <1>3. QED
    BY InvAlways, <1>1, <1>2, PTL DEF Spec

\* Commands behind their entries share no workspace, no name and no home, and each writes
\* into its own workspace's home only.
THEOREM ExclusiveCreates ==
  ASSUME ~RecoverLive
  PROVE  Spec => []CreatesAreExclusive
  <1>1. ASSUME IInv PROVE ShareNothing
    <2> SUFFICES ASSUME NEW p \in Procs, NEW q \in Procs, p # q,
                        proc[p].pc \in Behind, proc[q].pc \in Behind
                 PROVE  /\ proc[p].ws # proc[q].ws /\ proc[p].name # proc[q].name
                        /\ proc[p].box = proc[q].box => proc[p].box = 0
      BY DEF ShareNothing
    <2>1. /\ proc[p].ws # proc[q].ws /\ proc[p].name # proc[q].name
          /\ AtHome(p) => proc[q].box # proc[p].box
          /\ AtHome(q) => proc[q].box # proc[p].box
          /\ proc[q].box # proc[p].name /\ proc[p].box # proc[q].name
      BY <1>1, Apart
    <2>2. ASSUME NEW r \in {p, q}
          PROVE  proc[r].box \in {0, proc[r].name} \/ tree[proc[r].box].of = proc[r].ws
      BY <1>1, <2>2 DEF IInv, BehindInv, AtHome, Behind
    <2>3. QED
      BY <2>1, <2>2
  <1>2. IInv => WorksInOwnHome
    BY DEF IInv, BehindInv, AtHome, Behind, WorksInOwnHome
  <1>3. IInv => CreatesAreExclusive
    BY <1>1, <1>2 DEF CreatesAreExclusive
  <1>4. QED
    BY InvAlways, <1>3, PTL

\* No create, failing or not, removes or re-owns a seeded home.
THEOREM SeededHomesKept ==
  ASSUME ~RecoverLive
  PROVE  Spec => CompleteHomeKept
  <1> DEFINE Kept == \A n \in Names : tree[n].seeded => tree'[n] = tree[n]
  <1>1. ASSUME IInv, NEW p \in Procs, Step(p) PROVE Kept
    <2>1. TypeOK /\ BehindInv(p) /\ StoreInv
      BY <1>1 DEF IInv
    <2>2. CASE Make(p)
      <3>1. PICK b \in Names \cup {0} :
              tree' = IF Present(b) THEN tree ELSE [tree EXCEPT ![b].of = proc[p].ws]
        BY <2>2, <2>1, Fields, LandsOnNames DEF Make
      <3>2. ASSUME NEW n \in Names, tree[n].seeded PROVE Present(n)
        BY <1>1, <3>2, Homes
      <3>3. QED
        BY <2>1, <3>1, <3>2 DEF TypeOK
    <2>3. CASE Undo(p)
      <3>1. proc[p].fresh => ~tree[proc[p].name].seeded
        BY <2>1, <2>3 DEF BehindInv, Undoable, Undo, Behind
      <3>2. QED
        BY <2>1, <2>3, <3>1 DEF TypeOK, Undo
    <2>4. CASE Seed(p)
      <3>1. SUFFICES ASSUME NEW n \in Names, tree[n].seeded, n = proc[p].box
                     PROVE  tree'[n] = tree[n]
        BY <2>1, <2>4 DEF TypeOK, Seed
      <3>2. tree[n] \in [of : Workspaces \cup {NoWs}, seeded : BOOLEAN]
            /\ tree'[n] = [tree[n] EXCEPT !.seeded = TRUE]
        BY <2>1, <2>4, <3>1 DEF TypeOK, Seed
      <3>3. [tree[n] EXCEPT !.seeded = TRUE] = tree[n]
        BY <3>1, <3>2
      <3>4. QED
        BY <3>2, <3>3
    <2>5. QED
      BY <1>1, <2>2, <2>3, <2>4
      DEF Step, CheckName, ProbeNamed, ProbeNew, Pick, CheckOrphan, Claim,
          DropGoneParked, ArmUndo, Persist, Fail, UndoFails, Unclaim, Register,
          Raise, Clear
  <1>2. ASSUME IInv, [Next]_vars PROVE [Kept]_vars
    BY <1>1, <1>2 DEF Next, Begin, Kill, vars
  <1>3. QED
    BY InvAlways, <1>2, PTL DEF Spec, CompleteHomeKept

-----------------------------------------------------------------------------
(* BoxRetire: rm, purge and register beside the creates *)

-----------------------------------------------------------------------------
(* How the steps move one command, field by field *)

LEMMA CmdFields ==
  ASSUME RetireTypeOK, NEW r \in Retirers
  PROVE  /\ cmd \in [Retirers -> RetireCommand] /\ cmd[r] \in RetireCommand
         /\ cmd[r].pc \in CmdPCs /\ cmd[r].name \in Names \cup {0}
         /\ cmd[r].ws \in Workspaces \cup {NoWs} /\ cmd[r].purge \in BOOLEAN
         /\ ~Free(r) => cmd[r].name \in Names
         /\ cmd[r].pc \in Keeps => cmd[r].ws \in Workspaces
  BY DEF RetireTypeOK, RetireCommand

LEMMA CmdAtPC ==
  ASSUME NEW c \in RetireCommand, NEW pc \in CmdPCs
  PROVE  LET d == [c EXCEPT !.pc = pc] IN
         /\ d \in RetireCommand /\ d.pc = pc /\ d.name = c.name /\ d.ws = c.ws
         /\ d.purge = c.purge
  BY DEF RetireCommand

LEMMA MoveMoves ==
  ASSUME RetireTypeOK, NEW r \in Retirers, NEW pc \in CmdPCs, Move(r, pc)
  PROVE  /\ cmd' \in [Retirers -> RetireCommand]
         /\ \A s \in Retirers \ {r} : cmd'[s] = cmd[s]
         /\ cmd'[r].pc = pc /\ cmd'[r].name = cmd[r].name
         /\ cmd'[r].ws = cmd[r].ws /\ cmd'[r].purge = cmd[r].purge
  <1> DEFINE d == [cmd[r] EXCEPT !.pc = pc]
  <1>1. cmd \in [Retirers -> RetireCommand] /\ cmd[r] \in RetireCommand
    BY CmdFields
  <1>2. /\ d \in RetireCommand /\ d.pc = pc /\ d.name = cmd[r].name
        /\ d.ws = cmd[r].ws /\ d.purge = cmd[r].purge
    BY <1>1, CmdAtPC
  <1>3. cmd' = [cmd EXCEPT ![r] = d]
    BY DEF Move
  <1> HIDE DEF d
  <1>4. /\ cmd' \in [Retirers -> RetireCommand] /\ cmd'[r] = d
        /\ \A s \in Retirers \ {r} : cmd'[s] = cmd[s]
    BY <1>1, <1>2, <1>3, OneMoves
  <1>5. QED
    BY <1>2, <1>4

\* A step that replaces the record of one command by a literal one.
LEMMA SetMoves ==
  ASSUME RetireTypeOK, NEW r \in Retirers, NEW c \in RetireCommand,
         cmd' = [cmd EXCEPT ![r] = c]
  PROVE  /\ cmd' \in [Retirers -> RetireCommand] /\ cmd'[r] = c
         /\ \A s \in Retirers \ {r} : cmd'[s] = cmd[s]
  <1>1. cmd \in [Retirers -> RetireCommand]
    BY CmdFields
  <1>2. QED
    BY <1>1, OneMoves

LEMMA EndMoves ==
  ASSUME RetireTypeOK, NEW r \in Retirers, End(r)
  PROVE  /\ cmd' \in [Retirers -> RetireCommand]
         /\ \A s \in Retirers \ {r} : cmd'[s] = cmd[s]
         /\ cmd'[r].pc = "idle" /\ cmd'[r].name = 0
  <1>1. Rest \in RetireCommand /\ Rest.pc = "idle" /\ Rest.name = 0
    BY DEF Rest, RetireCommand, CmdPCs
  <1>2. QED
    BY <1>1, SetMoves DEF End

LEMMA DieMoves ==
  ASSUME RetireTypeOK, NEW r \in Retirers, Die(r)
  PROVE  /\ cmd' \in [Retirers -> RetireCommand]
         /\ \A s \in Retirers \ {r} : cmd'[s] = cmd[s]
         /\ cmd'[r].pc = "killed" /\ cmd'[r].name = 0
  <1> DEFINE d == [Rest EXCEPT !.pc = "killed"]
  <1>1. d \in RetireCommand /\ d.pc = "killed" /\ d.name = 0
    BY DEF Rest, RetireCommand, CmdPCs
  <1> HIDE DEF d
  <1>2. QED
    BY <1>1, SetMoves DEF Die, d

LEMMA RmMoves ==
  ASSUME RetireTypeOK, NEW r \in Retirers, NEW n \in Names, NEW purge \in BOOLEAN,
         Rm(r, n, purge)
  PROVE  /\ cmd' \in [Retirers -> RetireCommand]
         /\ \A s \in Retirers \ {r} : cmd'[s] = cmd[s]
         /\ cmd'[r].pc = (IF registry[n] # NoWs THEN "unregister" ELSE "lookup")
         /\ cmd'[r].name = n /\ cmd'[r].ws = registry[n]
  <1> DEFINE d == [pc |-> IF registry[n] # NoWs THEN "unregister" ELSE "lookup",
                   name |-> n, ws |-> registry[n], purge |-> purge]
  <1>1. registry[n] \in Workspaces \cup {NoWs}
    BY DEF RetireTypeOK, TypeOK
  <1>2. d \in RetireCommand
    BY <1>1 DEF RetireCommand, CmdPCs, Working
  <1>3. cmd' \in [Retirers -> RetireCommand] /\ cmd'[r] = d
        /\ \A s \in Retirers \ {r} : cmd'[s] = cmd[s]
    BY <1>2, SetMoves DEF Rm
  <1>4. QED
    BY <1>3

LEMMA ReadoptMoves ==
  ASSUME RetireTypeOK, NEW r \in Retirers, NEW n \in Names, Readopt(r, n)
  PROVE  /\ cmd' \in [Retirers -> RetireCommand]
         /\ \A s \in Retirers \ {r} : cmd'[s] = cmd[s]
         /\ cmd'[r].pc = "regdir" /\ cmd'[r].name = n /\ cmd'[r].ws = parked[n]
  <1> DEFINE d == [pc |-> "regdir", name |-> n, ws |-> parked[n], purge |-> FALSE]
  <1>1. parked[n] \in Workspaces \cup {NoWs}
    BY DEF RetireTypeOK, TypeOK
  <1>2. d \in RetireCommand
    BY <1>1 DEF RetireCommand, CmdPCs, Working
  <1>3. cmd' \in [Retirers -> RetireCommand] /\ cmd'[r] = d
        /\ \A s \in Retirers \ {r} : cmd'[s] = cmd[s]
    BY <1>2, SetMoves DEF Readopt
  <1>4. QED
    BY <1>3

-----------------------------------------------------------------------------
(* Types *)

\* A step of one command: what must be shown for the types to survive.
LEMMA CmdTyped ==
  ASSUME RetireTypeOK, TypeOK', NEW r \in Retirers,
         cmd' \in [Retirers -> RetireCommand],
         \A s \in Retirers \ {r} : cmd'[s] = cmd[s],
         cmd'[r].pc \in {"idle", "killed"} <=> cmd'[r].name = 0,
         cmd'[r].pc \in Keeps => cmd'[r].ws # NoWs
  PROVE  RetireTypeOK'
  BY DEF RetireTypeOK, Free

\* A command that goes on from one place to another keeps its box.
LEMMA MoveTyped ==
  ASSUME RetireTypeOK, TypeOK', NEW r \in Retirers, ~Free(r),
         NEW pc \in CmdPCs \ {"idle", "killed"}, Move(r, pc),
         pc \in Keeps => cmd[r].pc \in Keeps
  PROVE  RetireTypeOK'
  <1>1. cmd[r].name # 0
    BY DEF RetireTypeOK
  <1>2. cmd[r].pc \in Keeps => cmd[r].ws # NoWs
    BY DEF RetireTypeOK
  <1>3. QED
    BY <1>1, <1>2, MoveMoves, CmdTyped

LEMMA EndTyped ==
  ASSUME RetireTypeOK, TypeOK', NEW r \in Retirers, End(r)
  PROVE  RetireTypeOK'
  BY EndMoves, CmdTyped DEF Keeps

LEMMA TreeGone ==
  ASSUME TypeOK, NEW n, UNCHANGED <<registry, journal, parked, proc>>,
         tree' = tree \/ tree' = [tree EXCEPT ![n] = NoTree]
  PROVE  TypeOK'
  <1> DEFINE T == [of : Workspaces \cup {NoWs}, seeded : BOOLEAN]
  <1>1. NoTree \in T
    BY DEF NoTree
  <1>2. tree \in [Names -> T]
    BY DEF TypeOK
  <1> HIDE DEF T
  <1>3. tree' \in [Names -> T]
    BY <1>1, <1>2
  <1>4. QED
    BY <1>3 DEF TypeOK, T

LEMMA RetireStoreTyped ==
  ASSUME RetireTypeOK, Retire
  PROVE  TypeOK'
  <1>1. TypeOK
    BY DEF RetireTypeOK
  <1>2. ASSUME NEW r \in Retirers, NEW n \in Names, NEW purge \in BOOLEAN,
               Readopt(r, n) \/ Rm(r, n, purge)
        PROVE  TypeOK'
    BY <1>1, <1>2 DEF Readopt, Rm, vars, TypeOK
  <1>3. ASSUME NEW r \in Retirers, Decline(r) \/ Die(r)
        PROVE  TypeOK'
    BY <1>1, <1>3 DEF Decline, Die, vars, TypeOK
  <1>4. ASSUME NEW r \in Retirers, Work(r)
        PROVE  TypeOK'
    <2>1. /\ cmd[r].name \in Names \cup {0}
          /\ cmd[r].ws \in Workspaces \cup {NoWs}
      BY CmdFields
    <2>2. CASE Unregister(r) BY <1>1, <2>1, <2>2 DEF Unregister, TypeOK
    <2>3. CASE RmDelete(r)
      <3>1. /\ UNCHANGED <<registry, journal, parked, proc>>
            /\ tree' = tree \/ tree' = [tree EXCEPT ![cmd[r].name] = NoTree]
        BY <2>3 DEF RmDelete
      <3>2. QED
        BY <1>1, <3>1, TreeGone
    <2>4. CASE Park(r) BY <1>1, <2>1, <2>4 DEF Park, TypeOK
    <2>5. CASE Lookup(r) \/ Gone(r) \/ RegDir(r) \/ RegCheck(r)
      BY <1>1, <2>5 DEF Lookup, Gone, RegDir, RegCheck, vars, TypeOK
    <2>6. CASE Owner(r) BY <1>1, <2>1, <2>6 DEF Owner, Unpark, TypeOK
    <2>7. CASE Delete(r)
      <3>1. /\ UNCHANGED <<registry, journal, parked, proc>>
            /\ tree' = tree \/ tree' = [tree EXCEPT ![cmd[r].name] = NoTree]
        BY <2>7 DEF Delete
      <3>2. QED
        BY <1>1, <3>1, TreeGone
    <2>8. CASE Drop(r) \/ RegDrop(r)
      BY <1>1, <2>1, <2>8 DEF Drop, RegDrop, Unpark, TypeOK
    <2>9. CASE RegWrite(r) BY <1>1, <2>1, <2>9 DEF RegWrite, TypeOK
    <2>10. QED
      BY <1>4, <2>2, <2>3, <2>4, <2>5, <2>6, <2>7, <2>8, <2>9 DEF Work
  <1>5. QED
    BY <1>2, <1>3, <1>4 DEF Retire

LEMMA RetireTypeStep ==
  ASSUME RetireTypeOK, [RetireNext]_allVars
  PROVE  RetireTypeOK'
  <1>1. CASE Next /\ UNCHANGED cmd
    <2>1. TypeOK'
      BY <1>1, TypeStep DEF RetireTypeOK
    <2>2. QED
      BY <1>1, <2>1 DEF RetireTypeOK, Free
  <1>2. CASE Retire
    <2>1. TypeOK'
      BY <1>2, RetireStoreTyped
    <2>2. ASSUME NEW r \in Retirers, NEW n \in Names, Readopt(r, n)
          PROVE  RetireTypeOK'
      <3>1. n # 0 /\ parked[n] # NoWs
        BY <2>2, MaxNameAssumption DEF Names, Readopt
      <3>2. QED
        BY <2>1, <2>2, <3>1, ReadoptMoves, CmdTyped
    <2>3. ASSUME NEW r \in Retirers, NEW n \in Names, NEW purge \in BOOLEAN,
                 Rm(r, n, purge)
          PROVE  RetireTypeOK'
      <3>1. n # 0
        BY MaxNameAssumption DEF Names
      <3>2. QED
        BY <2>1, <2>3, <3>1, RmMoves, CmdTyped DEF Keeps
    <2>4. ASSUME NEW r \in Retirers, Decline(r) PROVE RetireTypeOK'
      BY <2>1, <2>4, EndTyped DEF Decline
    <2>5. ASSUME NEW r \in Retirers, Die(r) PROVE RetireTypeOK'
      BY <2>1, <2>5, DieMoves, CmdTyped DEF Keeps
    <2>6. ASSUME NEW r \in Retirers, Work(r) PROVE RetireTypeOK'
      <3> USE DEF At, Free, Keeps, CmdPCs, Working
      <3>1. CASE Unregister(r) BY <2>1, <3>1, MoveTyped DEF Unregister
      <3>2. CASE RmDelete(r) BY <2>1, <3>2, MoveTyped, EndTyped DEF RmDelete
      <3>3. CASE Park(r) BY <2>1, <3>3, EndTyped DEF Park
      <3>4. CASE Lookup(r) BY <2>1, <3>4, MoveTyped, EndTyped DEF Lookup
      <3>5. CASE Owner(r) BY <2>1, <3>5, MoveTyped, EndTyped DEF Owner
      <3>6. CASE Gone(r) BY <2>1, <3>6, MoveTyped DEF Gone
      <3>7. CASE Delete(r) BY <2>1, <3>7, MoveTyped, EndTyped DEF Delete
      <3>8. CASE Drop(r) \/ RegDrop(r) BY <2>1, <3>8, EndTyped DEF Drop, RegDrop
      <3>9. CASE RegDir(r) BY <2>1, <3>9, MoveTyped DEF RegDir
      <3>10. CASE RegCheck(r) BY <2>1, <3>10, MoveTyped, EndTyped DEF RegCheck
      <3>11. CASE RegWrite(r) BY <2>1, <3>11, MoveTyped, EndTyped DEF RegWrite
      <3>12. QED
        BY <2>6, <3>1, <3>2, <3>3, <3>4, <3>5, <3>6, <3>7, <3>8, <3>9, <3>10,
           <3>11 DEF Work
    <2>7. QED
      BY <1>2, <2>2, <2>3, <2>4, <2>5, <2>6 DEF Retire
  <1>3. CASE UNCHANGED allVars
    BY <1>3 DEF allVars, RetireTypeOK, TypeOK, Free
  <1>4. QED
    BY <1>1, <1>2, <1>3 DEF RetireNext

LEMMA RetireTypeInit == RetireInit => RetireTypeOK
  <1> SUFFICES ASSUME RetireInit PROVE RetireTypeOK
    OBVIOUS
  <1>1. TypeOK /\ cmd = [r \in Retirers |-> Rest]
    BY TypeInit DEF RetireInit
  <1>2. Rest \in RetireCommand /\ Rest.pc = "idle" /\ Rest.name = 0
    BY DEF Rest, RetireCommand, CmdPCs
  <1>3. QED
    BY <1>1, <1>2 DEF RetireTypeOK, Free, Keeps

\* Every reachable state is well typed, whatever runs beside whatever.
THEOREM RetireTypeCorrect == RetireSpec => []RetireTypeOK
  BY RetireTypeInit, RetireTypeStep, PTL DEF RetireSpec

-----------------------------------------------------------------------------
\* A workspace has one registered box, whether a create, a recovery or a register
\* of a parked box put it there, in any overlap of commands.
THEOREM OneBoxInAnyOverlap == RetireSpec => []OneBoxPerWorkspace
  <1>1. RetireInit => OneBoxPerWorkspace
    BY DEF RetireInit, Init, OneBoxPerWorkspace
  <1>2. ASSUME RetireTypeOK, OneBoxPerWorkspace, [RetireNext]_allVars
        PROVE  OneBoxPerWorkspace'
    <2>1. TypeOK
      BY <1>2 DEF RetireTypeOK
    <2>2. CASE Next
      BY <1>2, <2>1, <2>2, OneBoxStep
    <2>3. ASSUME NEW r \in Retirers, Unregister(r) PROVE OneBoxPerWorkspace'
      BY <1>2, <2>1, <2>3 DEF Unregister, OneBoxPerWorkspace, TypeOK
    <2>4. ASSUME NEW r \in Retirers, RegWrite(r) PROVE OneBoxPerWorkspace'
      BY <1>2, <2>1, <2>4 DEF RegWrite, HeldByOther, OneBoxPerWorkspace, TypeOK
    <2>5. ASSUME NEW r \in Retirers, Work(r), ~Unregister(r), ~RegWrite(r)
          PROVE  UNCHANGED registry
      BY <2>5 DEF Work, RmDelete, Park, Lookup, Owner, Gone, Delete, Drop, RegDir,
                  RegCheck, RegDrop, vars
    <2>6. CASE UNCHANGED registry
      BY <1>2, <2>6 DEF OneBoxPerWorkspace
    <2>7. QED
      BY <1>2, <2>2, <2>3, <2>4, <2>5, <2>6
      DEF RetireNext, Retire, Rm, Readopt, Decline, Die, vars, allVars
  <1>3. QED
    BY <1>1, <1>2, RetireTypeCorrect, PTL DEF RetireSpec

-----------------------------------------------------------------------------
(* A live box keeps its home.  The invariant of the creates (IInv) is kept by
   every rm, purge and register too, because a command at work on a box has the
   name to itself; what it read of the box therefore stays true until it is done,
   and an entry that is parked keeps leading to the home it was parked for. *)

Whole(n, w) == tree[n] = [of |-> w, seeded |-> TRUE]

\* A parked entry's directory, if it is there, is the parked box's complete home.
ParkedWhole == \A n \in Names : parked[n] # NoWs /\ Present(n) => Whole(n, parked[n])

\* A create that will make its directory has dropped the entry of one that is gone.
MakesUnparked(p) ==
  proc[p].pc \in {"arm", "make"} /\ ~Present(proc[p].name) =>
    parked[proc[p].name] = NoWs

\* What a command at work on a box has read of it still holds.
ReadsHold(r) ==
  LET n == cmd[r].name IN
  /\ cmd[r].pc = "unregister" => registry[n] = cmd[r].ws
  /\ cmd[r].pc \in {"rmdelete", "park", "gone", "delete"} => registry[n] = NoWs
  /\ cmd[r].pc \in {"rmdelete", "park", "regdir", "regcheck", "regwrite"} =>
       (Present(n) => Whole(n, cmd[r].ws))
  /\ cmd[r].pc \in {"regcheck", "regwrite"} => Present(n)

RetireInv ==
  /\ RetireTypeOK /\ IInv /\ OneAtATime /\ ParkedWhole
  /\ \A p \in Procs : MakesUnparked(p)
  /\ \A r \in Retirers : ReadsHold(r)

\* Nobody else works on the box a command works on, and no create on it either.
LEMMA Alone ==
  ASSUME RetireInv, NEW r \in Retirers, cmd[r].pc \in Working
  PROVE  /\ cmd[r].name \in Names
         /\ \A s \in Retirers \ {r} : cmd[s].pc \in Working => cmd[s].name # cmd[r].name
         /\ \A q \in Procs : proc[q].pc \in Behind =>
              proc[q].name # cmd[r].name /\ proc[q].box # cmd[r].name
  <1> DEFINE n == cmd[r].name
  <1>1. n \in Names
    BY CmdFields DEF RetireInv, Free, Working
  <1>2. r \in WorkingOn(n)
    BY DEF WorkingOn
  <1>3. Creating(n) = {} /\ \A s \in WorkingOn(n) : s = r
    BY <1>1, <1>2 DEF RetireInv, OneAtATime
  <1>4. QED
    BY <1>1, <1>3 DEF WorkingOn, Creating

-----------------------------------------------------------------------------
(* What a create does to the boxes *)

\* A step of a create changes the registry and the home of a name it works on only.
LEMMA CreateTouches ==
  ASSUME IInv, NEW p \in Procs, Step(p), NEW n \in Names,
         tree'[n] # tree[n] \/ registry'[n] # registry[n]
  PROVE  /\ proc[p].pc \in Behind
         /\ n = proc[p].name \/ (n = proc[p].box /\ AtHome(p))
  <1>1. TypeOK /\ BehindInv(p)
    BY DEF IInv
  <1>2. CASE Make(p)
    <2>1. proc[p].pc \in Behind /\ UNCHANGED registry
      BY <1>2 DEF Make, Behind
    <2>2. PICK box \in Names :
            /\ ~Present(box) => box = proc[p].name
            /\ tree' = IF Present(box) THEN tree
                       ELSE [tree EXCEPT ![box].of = proc[p].ws]
      BY <1>2, MakeLands
    <2>3. QED
      BY <1>1, <2>1, <2>2 DEF TypeOK
  <1>3. CASE Undo(p)
    BY <1>1, <1>3 DEF Undo, Behind, TypeOK
  <1>4. CASE Seed(p)
    BY <1>1, <1>4 DEF Seed, Behind, AtHome, TypeOK
  <1>5. CASE Register(p)
    BY <1>1, <1>5 DEF Register, Behind, AtHome, TypeOK
  <1>6. QED
    BY <1>2, <1>3, <1>4, <1>5
    DEF Step, CheckName, ProbeNamed, ProbeNew, Pick, CheckOrphan, Claim,
        DropGoneParked, ArmUndo, Persist, Fail, UndoFails, Unclaim, Raise, Clear

\* A create drops parked entries and adds none.
LEMMA CreateUnparks ==
  ASSUME IInv, NEW p \in Procs, Step(p), NEW n \in Names
  PROVE  parked'[n] \in {parked[n], NoWs}
  <1>1. CASE DropGoneParked(p)
    BY <1>1 DEF DropGoneParked, IInv, TypeOK
  <1>2. QED
    BY <1>1
    DEF Step, CheckName, ProbeNamed, ProbeNew, Pick, CheckOrphan, Claim,
        ArmUndo, Make, Persist, Fail, Undo, UndoFails, Unclaim, Seed, Register,
        Raise, Clear

\* A home a create takes away is the one behind its own entry; one it makes has no
\* parked entry; one it finds there keeps its owner, and stays seeded.
LEMMA CreateHomes ==
  ASSUME RetireInv, NEW p \in Procs, Step(p), NEW n \in Names, tree'[n] # tree[n]
  PROVE  \/ tree'[n] = NoTree /\ proc[p].name = n /\ proc[p].pc = "undo"
         \/ ~Present(n) /\ parked[n] = NoWs /\ Present(n)'
         \/ Present(n) /\ Present(n)' /\ ~Whole(n, parked[n])
  <1>1. IInv /\ TypeOK /\ BehindInv(p) /\ MakesUnparked(p)
    BY DEF IInv, RetireInv
  <1>2. CASE Make(p)
    <2>1. PICK box \in Names :
            /\ ~Present(box) => box = proc[p].name
            /\ tree' = IF Present(box) THEN tree
                       ELSE [tree EXCEPT ![box].of = proc[p].ws]
      BY <1>1, <1>2, MakeLands
    <2>2. n = box /\ ~Present(n) /\ n = proc[p].name
      BY <1>1, <2>1 DEF TypeOK
    <2>3. proc[p].pc = "make" /\ proc[p].ws \in Workspaces
      BY <1>1, <1>2 DEF Make, BehindInv, Behind
    <2>4. tree'[n].of = proc[p].ws
      BY <1>1, <2>1, <2>2 DEF TypeOK
    <2>5. NoTree.of = NoWs
      BY DEF NoTree
    <2>6. Present(n)'
      BY <2>3, <2>4, <2>5, NoWsAssumption DEF Present, NoTree
    <2>7. QED
      BY <1>1, <2>2, <2>3, <2>6 DEF MakesUnparked
  <1>3. CASE Undo(p)
    BY <1>1, <1>3 DEF Undo, TypeOK
  <1>4. CASE Seed(p)
    <2>1. /\ n = proc[p].box /\ Present(n)
          /\ tree'[n] = [tree[n] EXCEPT !.seeded = TRUE]
      BY <1>1, <1>4 DEF Seed, TypeOK
    <2>2. tree[n] \in [of : Workspaces \cup {NoWs}, seeded : BOOLEAN]
      BY <1>1 DEF TypeOK
    <2>3. tree'[n].seeded = TRUE
      BY <2>1, <2>2
    <2>4. NoTree.seeded = FALSE
      BY DEF NoTree
    <2>5. Present(n)'
      BY <2>3, <2>4 DEF Present, NoTree
    <2>6. ~Whole(n, parked[n])
      <3>1. SUFFICES ASSUME Whole(n, parked[n]) PROVE tree'[n] = tree[n]
        OBVIOUS
      <3>2. tree[n].seeded = TRUE
        BY <3>1 DEF Whole
      <3>3. [tree[n] EXCEPT !.seeded = TRUE] = tree[n]
        BY <2>2, <3>2
      <3>4. QED
        BY <2>1, <3>3
    <2>7. QED
      BY <2>1, <2>5, <2>6
  <1>5. QED
    BY <1>2, <1>3, <1>4
    DEF Step, CheckName, ProbeNamed, ProbeNew, Pick, CheckOrphan, Claim,
        DropGoneParked, ArmUndo, Persist, Fail, UndoFails, Unclaim, Register,
        Raise, Clear

\* The place of the command that steps: it drops, then arms, then makes.
LEMMA StillUnparked ==
  ASSUME RetireInv, NEW p \in Procs, Step(p)
  PROVE  MakesUnparked(p)'
  <1>1. IInv /\ TypeOK /\ BehindInv(p) /\ MakesUnparked(p)
    BY DEF IInv, RetireInv
  <1> USE Fields
  <1>2. CASE DropGoneParked(p)
    <2>1. proc[p].name \in Names
      BY <1>1, <1>2 DEF BehindInv, DropGoneParked, Behind
    <2>2. proc'[p].name = proc[p].name
      BY <1>1, <1>2, GotoMoves DEF DropGoneParked, PCs, Behind
    <2>3. QED
      BY <1>1, <1>2, <2>1, <2>2 DEF DropGoneParked, MakesUnparked, Present, TypeOK
  <1>3. CASE ArmUndo(p)
    BY <1>1, <1>3, ArmMoves DEF ArmUndo, MakesUnparked, Present
  <1>4. ASSUME ~DropGoneParked(p), ~ArmUndo(p)
        PROVE  proc'[p].pc \notin {"arm", "make"}
    <2> USE <1>1, <1>4 DEF PCs, Before, Behind, Ended
    <2>1. CASE CheckName(p) BY <2>1, GotoMoves, RefuseMoves DEF CheckName
    <2>2. CASE ProbeNamed(p) BY <2>2, NamedMoves, RefuseMoves DEF ProbeNamed
    <2>3. CASE ProbeNew(p) BY <2>3, GotoMoves, RefuseMoves DEF ProbeNew
    <2>4. CASE Pick(p) BY <2>4, NamedMoves DEF Pick
    <2>5. CASE CheckOrphan(p) BY <2>5, GotoMoves, RefuseMoves DEF CheckOrphan
    <2>6. CASE Claim(p) BY <2>6, GotoMoves, RefuseMoves DEF Claim
    <2>7. CASE Make(p) BY <2>7, MakeLands, EnterMoves
    <2>8. CASE Persist(p) BY <2>8, GotoMoves DEF Persist
    <2>9. CASE Fail(p) BY <2>9, GotoMoves, RefuseMoves DEF Fail
    <2>10. CASE Undo(p) BY <2>10, GotoMoves DEF Undo
    <2>11. CASE UndoFails(p) BY <2>11, RefuseMoves DEF UndoFails
    <2>12. CASE Unclaim(p) BY <2>12, RefuseMoves DEF Unclaim
    <2>13. CASE Seed(p) BY <2>13, GotoMoves DEF Seed
    <2>14. CASE Register(p) BY <2>14, GotoMoves DEF Register
    <2>15. CASE Raise(p) BY <2>15, RefuseMoves DEF Raise
    <2>16. CASE Clear(p) BY <2>16, ClearMoves
    <2>17. QED
      BY <2>1, <2>2, <2>3, <2>4, <2>5, <2>6, <2>7, <2>8, <2>9, <2>10, <2>11,
         <2>12, <2>13, <2>14, <2>15, <2>16 DEF Step
  <1>5. QED
    BY <1>2, <1>3, <1>4 DEF MakesUnparked

LEMMA OthersStand ==
  ASSUME IInv, NEW p \in Procs, Step(p), NEW q \in Procs \ {p}
  PROVE  proc'[q] = proc[q]
  <1>1. TypeOK
    BY DEF IInv
  <1> USE Fields
  <1> USE <1>1 DEF PCs, Before, Behind, Ended
  <1>2. CASE CheckName(p) BY <1>2, GotoMoves, RefuseMoves DEF CheckName
  <1>3. CASE ProbeNamed(p) BY <1>3, NamedMoves, RefuseMoves DEF ProbeNamed
  <1>4. CASE ProbeNew(p) BY <1>4, GotoMoves, RefuseMoves DEF ProbeNew
  <1>5. CASE Pick(p) BY <1>5, NamedMoves DEF Pick
  <1>6. CASE CheckOrphan(p) BY <1>6, GotoMoves, RefuseMoves DEF CheckOrphan
  <1>7. CASE Claim(p) BY <1>7, GotoMoves, RefuseMoves DEF Claim
  <1>8. CASE DropGoneParked(p) BY <1>8, GotoMoves DEF DropGoneParked
  <1>9. CASE ArmUndo(p) BY <1>9, ArmMoves
  <1>10. CASE Make(p) BY <1>10, MakeLands, EnterMoves
  <1>11. CASE Persist(p) BY <1>11, GotoMoves DEF Persist
  <1>12. CASE Fail(p) BY <1>12, GotoMoves, RefuseMoves DEF Fail
  <1>13. CASE Undo(p) BY <1>13, GotoMoves DEF Undo
  <1>14. CASE UndoFails(p) BY <1>14, RefuseMoves DEF UndoFails
  <1>15. CASE Unclaim(p) BY <1>15, RefuseMoves DEF Unclaim
  <1>16. CASE Seed(p) BY <1>16, GotoMoves DEF Seed
  <1>17. CASE Register(p) BY <1>17, GotoMoves DEF Register
  <1>18. CASE Raise(p) BY <1>18, RefuseMoves DEF Raise
  <1>19. CASE Clear(p) BY <1>19, ClearMoves
  <1>20. QED
    BY <1>2, <1>3, <1>4, <1>5, <1>6, <1>7, <1>8, <1>9, <1>10, <1>11, <1>12,
       <1>13, <1>14, <1>15, <1>16, <1>17, <1>18, <1>19 DEF Step

-----------------------------------------------------------------------------
(* Every step keeps the invariant *)

\* A command whose box is left alone by a step of another still reads the truth.
LEMMA ReadsStand ==
  ASSUME NEW r \in Retirers, ReadsHold(r), cmd'[r] = cmd[r],
         cmd[r].pc \in Working =>
           /\ registry'[cmd[r].name] = registry[cmd[r].name]
           /\ tree'[cmd[r].name] = tree[cmd[r].name]
  PROVE  ReadsHold(r)'
  <1>1. CASE cmd[r].pc \in Working
    BY <1>1 DEF ReadsHold, Whole, Present
  <1>2. CASE cmd[r].pc \notin Working
    BY <1>2 DEF ReadsHold, Working
  <1>3. QED
    BY <1>1, <1>2

LEMMA CreateKeepsAll ==
  ASSUME ~RecoverLive, RetireInv, Next, UNCHANGED cmd, OneAtATime'
  PROVE  RetireInv'
  <1>1. IInv /\ TypeOK /\ RetireTypeOK
    BY DEF RetireInv, IInv
  <1>2. IInv'
    BY <1>1, InvStep
  <1>3. RetireTypeOK'
    BY <1>1, RetireTypeStep DEF RetireNext
  <1>4. ASSUME NEW p \in Procs, Step(p)
        PROVE  RetireInv'
    <2>1. ASSUME NEW r \in Retirers PROVE ReadsHold(r)'
      <3>1. ReadsHold(r) /\ cmd'[r] = cmd[r]
        BY DEF RetireInv
      <3>2. ASSUME cmd[r].pc \in Working
            PROVE  /\ registry'[cmd[r].name] = registry[cmd[r].name]
                   /\ tree'[cmd[r].name] = tree[cmd[r].name]
        BY <1>1, <1>4, <3>2, Alone, CreateTouches
      <3>3. QED
        BY <3>1, <3>2, ReadsStand
    <2>2. ASSUME NEW q \in Procs PROVE MakesUnparked(q)'
      <3>1. CASE q = p
        BY <1>4, <3>1, StillUnparked
      <3>2. CASE q # p
        <4> DEFINE n == proc[q].name
        <4>1. proc'[q] = proc[q] /\ MakesUnparked(q) /\ BehindInv(q)
          BY <1>1, <1>4, <3>2, OthersStand DEF RetireInv, IInv
        <4>2. SUFFICES ASSUME proc[q].pc \in {"arm", "make"}, tree'[n] = NoTree
                       PROVE  parked'[n] = NoWs
          BY <4>1 DEF MakesUnparked, Present
        <4>3. n \in Names /\ proc[q].pc \in Behind
          BY <4>1, <4>2 DEF BehindInv, Behind
        <4>4. ~Present(n)
          <5>1. CASE tree'[n] = tree[n]
            BY <4>2, <5>1 DEF Present
          <5>2. CASE tree'[n] # tree[n]
            <6>1. proc[p].name # n \/ proc[p].pc # "undo"
              BY <1>1, <3>2, <4>3, Apart DEF Behind
            <6>2. CASE Present(n)
              <7>1. \A k \in Names : k = n => tree'[k] = NoTree
                BY <4>2
              <7>2. \A k \in Names : k = n => ~Present(k)'
                BY <7>1 DEF Present, NoTree
              <7>3. QED
                BY <1>4, <4>3, <5>2, <6>1, <6>2, <7>2, CreateHomes
            <6>3. QED
              BY <6>2
          <5>3. QED
            BY <5>1, <5>2
        <4>5. parked[n] = NoWs
          BY <4>1, <4>2, <4>4 DEF MakesUnparked
        <4>6. QED
          BY <1>1, <1>4, <4>3, <4>5, CreateUnparks
      <3>3. QED
        BY <3>1, <3>2
    <2>3. ParkedWhole'
      <3> SUFFICES ASSUME NEW n \in Names, parked'[n] # NoWs, Present(n)'
                   PROVE  Whole(n, parked[n])' 
        BY DEF ParkedWhole
      <3>1. parked'[n] = parked[n] /\ parked[n] # NoWs
        BY <1>1, <1>4, CreateUnparks
      <3>2. CASE tree'[n] = tree[n]
        BY <3>1, <3>2 DEF RetireInv, ParkedWhole, Present, Whole
      <3>3. CASE tree'[n] # tree[n]
        BY <1>4, <3>1, <3>3, CreateHomes DEF RetireInv, ParkedWhole, Present, NoTree
      <3>4. QED
        BY <3>2, <3>3
    <2>4. QED
      BY <1>2, <1>3, <2>1, <2>2, <2>3 DEF RetireInv
  <1>5. ASSUME NEW p \in Procs, UNCHANGED <<registry, journal, tree, parked>>,
               \A q \in Procs \ {p} : proc'[q] = proc[q],
               proc'[p].pc \notin {"arm", "make"}
        PROVE  RetireInv'
    <2>1. ParkedWhole'
      BY <1>5 DEF RetireInv, ParkedWhole, Present, Whole
    <2>2. \A q \in Procs : MakesUnparked(q)'
      BY <1>5 DEF RetireInv, MakesUnparked, Present
    <2>3. \A r \in Retirers : ReadsHold(r)'
      BY <1>5 DEF RetireInv, ReadsHold, Present, Whole
    <2>4. QED
      BY <1>2, <1>3, <2>1, <2>2, <2>3 DEF RetireInv
  <1>6. ASSUME NEW p \in Procs, NEW w \in Workspaces, NEW typed \in Typed \cup {0},
               NEW recover \in BOOLEAN, Begin(p, w, typed, recover)
        PROVE  RetireInv'
    <2>1. /\ \A q \in Procs \ {p} : proc'[q] = proc[q]
          /\ proc'[p].pc \in {"probe", "check"}
      BY <1>1, <1>6, BeginMoves
    <2>2. UNCHANGED <<registry, journal, tree, parked>>
      BY <1>6 DEF Begin
    <2>3. QED
      BY <1>5, <2>1, <2>2
  <1>7. ASSUME NEW p \in Procs, Kill(p) PROVE RetireInv'
    BY <1>1, <1>5, <1>7, RefuseMoves DEF Kill
  <1>8. QED
    BY <1>4, <1>6, <1>7 DEF Next

\* What a step of an rm, a purge or a register must leave of the creates' invariant.
LEMMA Beside ==
  ASSUME IInv, TypeOK', UNCHANGED proc, StoreInv',
         \A q \in Procs : proc[q].pc \in Behind => Untouched(q)
  PROVE  IInv'
  <1>1. \A q \in Procs : BeforeInv(q)' /\ BehindInv(q)'
    <2> TAKE q \in Procs
    <2>1. TypeOK /\ BeforeInv(q) /\ BehindInv(q) /\ proc'[q] = proc[q]
      BY DEF IInv
    <2>2. QED
      BY <2>1, Bystander
  <1>2. WorkspacesApart'
    BY DEF IInv, WorkspacesApart
  <1>3. QED
    BY <1>1, <1>2 DEF IInv

\* A step that changes neither the registry nor a home.
LEMMA BesideQuiet ==
  ASSUME IInv, TypeOK', UNCHANGED <<registry, journal, tree, proc>>
  PROVE  IInv'
  <1>1. StoreInv'
    BY DEF IInv, StoreInv, RegisteredSeeded, HalfMadeIsJournaled, Present,
           OneBoxPerWorkspace, EntriesOwnHomes, TreesWhole
  <1>2. \A q \in Procs : Untouched(q)
    BY DEF Untouched
  <1>3. QED
    BY <1>1, <1>2, Beside

\* The home of an unregistered name goes, where no create works.
LEMMA BesideGone ==
  ASSUME IInv, TypeOK', NEW n \in Names, registry[n] = NoWs,
         UNCHANGED <<registry, journal, proc>>, tree' = [tree EXCEPT ![n] = NoTree],
         \A q \in Procs : proc[q].pc \in Behind => proc[q].name # n /\ proc[q].box # n
  PROVE  IInv'
  <1>1. /\ tree'[n] = NoTree /\ \A m \in Names \ {n} : tree'[m] = tree[m]
        /\ NoTree.of = NoWs /\ NoTree.seeded = FALSE
    BY DEF IInv, TypeOK, NoTree
  <1>2. StoreInv'
    <2>1. RegisteredSeeded' /\ OneBoxPerWorkspace'
      BY <1>1 DEF IInv, StoreInv, RegisteredSeeded, OneBoxPerWorkspace
    <2>2. HalfMadeIsJournaled'
      BY <1>1 DEF IInv, StoreInv, HalfMadeIsJournaled, Present
    <2>3. EntriesOwnHomes' /\ TreesWhole'
      BY <1>1 DEF IInv, StoreInv, EntriesOwnHomes, TreesWhole
    <2>4. QED
      BY <2>1, <2>2, <2>3 DEF StoreInv
  <1>3. ASSUME NEW q \in Procs, proc[q].pc \in Behind PROVE Untouched(q)
    <2>1. proc[q].name \in Names \ {n} /\ proc[q].box # n
      BY <1>3 DEF IInv, BehindInv
    <2>2. QED
      BY <1>1, <2>1 DEF Untouched
  <1>4. QED
    BY <1>2, <1>3, Beside

\* A name leaves the registry, or enters it with the complete home of a workspace
\* no other name has; no create works there.
LEMMA BesideRegistry ==
  ASSUME IInv, TypeOK', NEW n \in Names, NEW w \in Workspaces \cup {NoWs},
         w # NoWs => Whole(n, w) /\ ~HeldByOther(w, n),
         UNCHANGED <<journal, tree, proc>>, registry' = [registry EXCEPT ![n] = w],
         \A q \in Procs : proc[q].pc \in Behind => proc[q].box # n
  PROVE  IInv'
  <1>1. registry'[n] = w /\ \A m \in Names \ {n} : registry'[m] = registry[m]
    BY DEF IInv, TypeOK
  <1>2. StoreInv'
    <2>1. RegisteredSeeded'
      BY <1>1 DEF IInv, StoreInv, RegisteredSeeded, Whole
    <2>2. OneBoxPerWorkspace'
      BY <1>1 DEF IInv, StoreInv, OneBoxPerWorkspace, HeldByOther
    <2>3. HalfMadeIsJournaled' /\ EntriesOwnHomes' /\ TreesWhole'
      BY DEF IInv, StoreInv, HalfMadeIsJournaled, Present, EntriesOwnHomes, TreesWhole
    <2>4. QED
      BY <2>1, <2>2, <2>3 DEF StoreInv
  <1>3. \A q \in Procs : proc[q].pc \in Behind => Untouched(q)
    BY <1>1 DEF Untouched
  <1>4. QED
    BY <1>2, <1>3, Beside

\* A step of one command: what must be shown for the whole invariant to survive.
LEMMA RetireCompose ==
  ASSUME RetireInv, RetireTypeOK', OneAtATime', IInv', ParkedWhole',
         NEW r \in Retirers, UNCHANGED proc,
         \A s \in Retirers \ {r} : cmd'[s] = cmd[s],
         \A m \in Names : tree'[m] # tree[m] \/ registry'[m] # registry[m] =>
           cmd[r].pc \in Working /\ m = cmd[r].name,
         \A m \in Names : parked'[m] \notin {parked[m], NoWs} =>
           cmd[r].pc \in Working /\ m = cmd[r].name,
         ReadsHold(r)'
  PROVE  RetireInv'
  <1>1. ASSUME NEW s \in Retirers PROVE ReadsHold(s)'
    <2>1. CASE s # r
      <3>1. ReadsHold(s) /\ cmd'[s] = cmd[s]
        BY <2>1 DEF RetireInv
      <3>2. ASSUME cmd[s].pc \in Working
            PROVE  /\ registry'[cmd[s].name] = registry[cmd[s].name]
                   /\ tree'[cmd[s].name] = tree[cmd[s].name]
        BY <2>1, <3>2, Alone
      <3>3. QED
        BY <3>1, <3>2, ReadsStand
    <2>2. QED
      BY <2>1
  <1>2. ASSUME NEW q \in Procs PROVE MakesUnparked(q)'
    <2>1. MakesUnparked(q) /\ BehindInv(q) /\ proc'[q] = proc[q]
      BY DEF RetireInv, IInv
    <2>2. CASE proc[q].pc \in {"arm", "make"}
      <3>1. proc[q].name \in Names /\ proc[q].pc \in Behind
        BY <2>1, <2>2 DEF BehindInv, Behind
      <3>2. cmd[r].pc \in Working => proc[q].name # cmd[r].name
        BY <3>1, Alone
      <3>3. /\ tree'[proc[q].name] = tree[proc[q].name]
            /\ parked'[proc[q].name] \in {parked[proc[q].name], NoWs}
        BY <3>1, <3>2
      <3>4. QED
        BY <2>1, <3>3 DEF MakesUnparked, Present
    <2>3. QED
      BY <2>1, <2>2 DEF MakesUnparked
  <1>3. QED
    BY <1>1, <1>2 DEF RetireInv

\* A parked entry that goes, and one that stays where the home stays or goes.
LEMMA ParkedStays ==
  ASSUME ParkedWhole,
         \A m \in Names : /\ parked'[m] \in {parked[m], NoWs}
                          /\ tree'[m] \in {tree[m], NoTree}
  PROVE  ParkedWhole'
  BY DEF ParkedWhole, Present, Whole, NoTree

\* A step that leaves the registry and the homes alone and parks nothing.
LEMMA QuietKeeps ==
  ASSUME RetireInv, RetireTypeOK', OneAtATime', NEW r \in Retirers,
         \A s \in Retirers \ {r} : cmd'[s] = cmd[s],
         UNCHANGED <<registry, journal, tree, proc>>,
         \A m \in Names : parked'[m] \in {parked[m], NoWs},
         ReadsHold(r)'
  PROVE  RetireInv'
  <1>1. IInv'
    BY BesideQuiet DEF RetireInv, RetireTypeOK
  <1>2. ParkedWhole'
    BY ParkedStays DEF RetireInv
  <1>3. QED
    BY <1>1, <1>2, RetireCompose

LEMMA EndKeeps ==
  ASSUME RetireInv, RetireTypeOK', OneAtATime', NEW r \in Retirers,
         End(r) \/ Die(r), UNCHANGED <<registry, journal, tree, proc>>,
         \A m \in Names : parked'[m] \in {parked[m], NoWs}
  PROVE  RetireInv'
  <1>1. /\ \A s \in Retirers \ {r} : cmd'[s] = cmd[s]
        /\ cmd'[r].pc \in {"idle", "killed"}
    BY EndMoves, DieMoves DEF RetireInv
  <1>2. ReadsHold(r)'
    BY <1>1 DEF ReadsHold
  <1>3. QED
    BY <1>1, <1>2, QuietKeeps

LEMMA UnparkOnly ==
  ASSUME RetireInv, NEW n, Unpark(n)
  PROVE  \A m \in Names : parked'[m] \in {parked[m], NoWs}
  BY DEF RetireInv, IInv, TypeOK, Unpark

LEMMA BeginsKeep ==
  ASSUME RetireInv, RetireTypeOK', OneAtATime', NEW r \in Retirers, NEW n \in Names,
         Readopt(r, n) \/ \E purge \in BOOLEAN : Rm(r, n, purge)
  PROVE  RetireInv'
  <1>1. RetireTypeOK /\ UNCHANGED <<registry, journal, tree, parked, proc>>
    BY DEF RetireInv, Readopt, Rm, vars
  <1>2. CASE Readopt(r, n)
    <2>1. /\ \A s \in Retirers \ {r} : cmd'[s] = cmd[s]
          /\ cmd'[r].pc = "regdir" /\ cmd'[r].name = n /\ cmd'[r].ws = parked[n]
      BY <1>1, <1>2, ReadoptMoves
    <2>2. Present(n) => Whole(n, parked[n])
      BY <1>2 DEF Readopt, RetireInv, ParkedWhole
    <2>3. ReadsHold(r)'
      BY <1>1, <2>1, <2>2 DEF ReadsHold, Present, Whole
    <2>4. QED
      BY <1>1, <2>1, <2>3, QuietKeeps
  <1>3. ASSUME NEW purge \in BOOLEAN, Rm(r, n, purge) PROVE RetireInv'
    <2>1. /\ \A s \in Retirers \ {r} : cmd'[s] = cmd[s]
          /\ cmd'[r].pc \in {"unregister", "lookup"}
          /\ cmd'[r].name = n /\ cmd'[r].ws = registry[n]
      BY <1>1, <1>3, RmMoves
    <2>2. ReadsHold(r)'
      BY <1>1, <2>1 DEF ReadsHold
    <2>3. QED
      BY <1>1, <2>1, <2>2, QuietKeeps
  <1>4. QED
    BY <1>2, <1>3

LEMMA WorkKeeps ==
  ASSUME RetireInv, RetireTypeOK', OneAtATime', NEW r \in Retirers, Work(r)
  PROVE  RetireInv'
  <1> DEFINE n == cmd[r].name
  <1>1. /\ RetireTypeOK /\ IInv /\ TypeOK /\ TypeOK' /\ ReadsHold(r)
        /\ OneBoxPerWorkspace /\ ParkedWhole
    BY DEF RetireInv, RetireTypeOK, IInv, StoreInv
  <1>2. ASSUME NEW pc \in CmdPCs, Move(r, pc)
        PROVE  /\ \A s \in Retirers \ {r} : cmd'[s] = cmd[s]
               /\ cmd'[r].pc = pc /\ cmd'[r].name = n /\ cmd'[r].ws = cmd[r].ws
    BY <1>1, <1>2, MoveMoves
  <1>3. ASSUME cmd[r].pc \in Working
        PROVE  /\ n \in Names
               /\ \A q \in Procs : proc[q].pc \in Behind =>
                    proc[q].name # n /\ proc[q].box # n
    BY <1>3, Alone
  <1> USE DEF At
  <1>4. CASE Unregister(r)
    <2>1. /\ cmd[r].pc = "unregister" /\ n \in Names
          /\ UNCHANGED <<journal, tree, parked, proc>>
          /\ registry' = [registry EXCEPT ![n] = NoWs]
      BY <1>3, <1>4 DEF Unregister, Working
    <2>2. /\ registry'[n] = NoWs
          /\ \A m \in Names \ {n} : registry'[m] = registry[m]
      BY <1>1, <2>1 DEF TypeOK
    <2>3. /\ \A s \in Retirers \ {r} : cmd'[s] = cmd[s]
          /\ cmd'[r].pc \in {"rmdelete", "park"}
          /\ cmd'[r].name = n /\ cmd'[r].ws = cmd[r].ws
      BY <1>2, <1>4 DEF Unregister, CmdPCs, Working
    <2>4. registry[n] = cmd[r].ws /\ cmd[r].ws # NoWs
      BY <1>1, <2>1 DEF ReadsHold, RetireTypeOK, Keeps
    <2>5. Whole(n, cmd[r].ws)
      BY <1>1, <2>1, <2>4 DEF IInv, StoreInv, RegisteredSeeded, Whole
    <2>6. ReadsHold(r)'
      BY <2>1, <2>2, <2>3, <2>5 DEF ReadsHold, Whole
    <2>7. IInv'
      BY <1>1, <1>3, <2>1, BesideRegistry DEF Working
    <2>8. ParkedWhole'
      BY <1>1, <2>1, ParkedStays
    <2>9. QED
      BY <2>1, <2>2, <2>3, <2>6, <2>7, <2>8, RetireCompose DEF Working
  <1>5. ASSUME tree' = [tree EXCEPT ![n] = NoTree], cmd[r].pc \in {"rmdelete", "delete"},
               UNCHANGED <<registry, journal, parked, proc>>,
               End(r) \/ Move(r, "drop")
        PROVE  RetireInv'
    <2>1. n \in Names /\ registry[n] = NoWs
      BY <1>1, <1>3, <1>5 DEF Working, ReadsHold
    <2>2. tree'[n] = NoTree /\ \A m \in Names \ {n} : tree'[m] = tree[m]
      BY <1>1, <1>5, <2>1 DEF TypeOK
    <2>3. /\ \A s \in Retirers \ {r} : cmd'[s] = cmd[s]
          /\ cmd'[r].pc \in {"idle", "drop"}
      BY <1>1, <1>2, <1>5, EndMoves DEF CmdPCs, Working
    <2>4. ReadsHold(r)'
      BY <2>3 DEF ReadsHold
    <2>5. IInv'
      BY <1>1, <1>3, <1>5, <2>1, BesideGone DEF Working
    <2>6. ParkedWhole'
      BY <1>1, <1>5, <2>2, ParkedStays
    <2>7. QED
      BY <1>5, <2>2, <2>3, <2>4, <2>5, <2>6, RetireCompose DEF Working
  <1>6. CASE RmDelete(r)
    <2>1. CASE Present(n) /\ Move(r, "park") /\ UNCHANGED tree
      <3>1. /\ \A s \in Retirers \ {r} : cmd'[s] = cmd[s]
            /\ cmd'[r].pc = "park" /\ cmd'[r].name = n /\ cmd'[r].ws = cmd[r].ws
        BY <1>2, <2>1 DEF CmdPCs, Working
      <3>2. UNCHANGED <<registry, journal, tree, parked, proc>> /\ cmd[r].pc = "rmdelete"
        BY <1>6, <2>1 DEF RmDelete
      <3>3. ReadsHold(r)'
        BY <1>1, <3>1, <3>2 DEF ReadsHold, Present, Whole
      <3>4. QED
        BY <3>1, <3>2, <3>3, QuietKeeps
    <2>2. QED
      BY <1>5, <1>6, <2>1 DEF RmDelete
  <1>7. CASE Park(r)
    <2>1. /\ cmd[r].pc = "park" /\ n \in Names /\ End(r)
          /\ UNCHANGED <<registry, journal, tree, proc>>
          /\ parked' = IF Present(n) THEN [parked EXCEPT ![n] = cmd[r].ws] ELSE parked
      BY <1>3, <1>7 DEF Park, Working
    <2>2. (\A s \in Retirers \ {r} : cmd'[s] = cmd[s]) /\ cmd'[r].pc = "idle"
      BY <1>1, <2>1, EndMoves
    <2>3. /\ \A m \in Names \ {n} : parked'[m] = parked[m]
          /\ Present(n) => parked'[n] = cmd[r].ws
          /\ ~Present(n) => parked'[n] = parked[n]
      BY <1>1, <2>1 DEF TypeOK
    <2>4. Present(n) => Whole(n, cmd[r].ws)
      BY <1>1, <2>1 DEF ReadsHold
    <2>5. ParkedWhole'
      BY <1>1, <2>1, <2>3, <2>4 DEF ParkedWhole, Present, Whole
    <2>6. ReadsHold(r)'
      BY <2>2 DEF ReadsHold
    <2>7. IInv'
      BY <1>1, <2>1, BesideQuiet
    <2>8. QED
      BY <2>1, <2>2, <2>3, <2>5, <2>6, <2>7, RetireCompose DEF Working
  <1>8. CASE Delete(r)
    BY <1>5, <1>8, EndKeeps DEF Delete
  <1>9. CASE Drop(r) \/ RegDrop(r)
    BY <1>9, EndKeeps, UnparkOnly DEF Drop, RegDrop
  <1>10. ASSUME NEW pc \in CmdPCs, Move(r, pc),
                UNCHANGED <<registry, journal, tree, parked, proc>>,
                \/ pc \in {"owner", "drop"}
                \/ pc = "gone" /\ registry[n] = NoWs
                \/ pc = "delete" /\ cmd[r].pc = "gone"
                \/ pc = "regcheck" /\ cmd[r].pc = "regdir" /\ Present(n)
                \/ pc = "regwrite" /\ cmd[r].pc = "regcheck"
         PROVE  RetireInv'
    <2>1. /\ \A s \in Retirers \ {r} : cmd'[s] = cmd[s]
          /\ cmd'[r].pc = pc /\ cmd'[r].name = n /\ cmd'[r].ws = cmd[r].ws
      BY <1>2, <1>10
    <2>2. ReadsHold(r)'
      BY <1>1, <1>10, <2>1 DEF ReadsHold, Present, Whole
    <2>3. QED
      BY <1>10, <2>1, <2>2, QuietKeeps
  <1>11. CASE Lookup(r)
    BY <1>10, <1>11, EndKeeps DEF Lookup, vars, CmdPCs
  <1>12. CASE Owner(r)
    BY <1>10, <1>12, EndKeeps, UnparkOnly DEF Owner, CmdPCs, Working
  <1>13. CASE Gone(r)
    BY <1>10, <1>13 DEF Gone, vars, CmdPCs, Working
  <1>14. CASE RegDir(r)
    BY <1>10, <1>14 DEF RegDir, vars, CmdPCs, Working
  <1>15. CASE RegCheck(r)
    BY <1>10, <1>15, EndKeeps DEF RegCheck, vars, CmdPCs, Working
  <1>16. CASE RegWrite(r)
    <2>1. CASE HeldByOther(cmd[r].ws, n)
      BY <1>16, <2>1, EndKeeps DEF RegWrite
    <2>2. CASE ~HeldByOther(cmd[r].ws, n)
      <3>1. /\ cmd[r].pc = "regwrite" /\ n \in Names /\ Move(r, "regdrop")
            /\ UNCHANGED <<journal, tree, parked, proc>>
            /\ registry' = [registry EXCEPT ![n] = cmd[r].ws]
        BY <1>3, <1>16, <2>2 DEF RegWrite, Working
      <3>2. cmd[r].ws \in Workspaces /\ Whole(n, cmd[r].ws)
        BY <1>1, <3>1, CmdFields DEF ReadsHold, Keeps
      <3>3. \A m \in Names \ {n} : registry'[m] = registry[m]
        BY <1>1, <3>1 DEF TypeOK
      <3>4. /\ \A s \in Retirers \ {r} : cmd'[s] = cmd[s]
            /\ cmd'[r].pc = "regdrop"
        BY <1>2, <3>1 DEF CmdPCs, Working
      <3>5. ReadsHold(r)'
        BY <3>4 DEF ReadsHold
      <3>6. IInv'
        BY <1>1, <1>3, <2>2, <3>1, <3>2, BesideRegistry DEF Working
      <3>7. ParkedWhole'
        BY <1>1, <3>1, ParkedStays
      <3>8. QED
        BY <3>1, <3>3, <3>4, <3>5, <3>6, <3>7, RetireCompose DEF Working
    <2>3. QED
      BY <2>1, <2>2
  <1>17. QED
    BY <1>4, <1>6, <1>7, <1>8, <1>9, <1>11, <1>12, <1>13, <1>14, <1>15, <1>16
    DEF Work

LEMMA RetireInvStep ==
  ASSUME ~RecoverLive, ~Overlap, RetireInv, [RetireNext]_allVars
  PROVE  RetireInv'
  <1>1. RetireTypeOK'
    BY RetireTypeStep DEF RetireInv
  <1>2. CASE RetireNext
    <2>1. OneAtATime'
      BY <1>2 DEF RetireNext
    <2>2. CASE Next /\ UNCHANGED cmd
      BY <2>1, <2>2, CreateKeepsAll
    <2>3. ASSUME NEW r \in Retirers, Decline(r) \/ Die(r) PROVE RetireInv'
      BY <1>1, <2>1, <2>3, EndKeeps DEF Decline, Die, vars
    <2>4. QED
      BY <1>1, <1>2, <2>1, <2>2, <2>3, BeginsKeep, WorkKeeps DEF RetireNext, Retire
  <1>3. CASE UNCHANGED allVars
    <2>1. IInv'
      BY <1>1, <1>3, BesideQuiet DEF allVars, RetireInv, RetireTypeOK
    <2>2. OneAtATime' /\ ParkedWhole' /\ (\A p \in Procs : MakesUnparked(p)')
          /\ \A r \in Retirers : ReadsHold(r)'
      BY <1>3 DEF allVars, RetireInv, OneAtATime, WorkingOn, Creating, ParkedWhole,
                  Whole, Present, MakesUnparked, ReadsHold
    <2>3. QED
      BY <1>1, <2>1, <2>2 DEF RetireInv
  <1>4. QED
    BY <1>2, <1>3

LEMMA RetireInvInit == RetireInit => RetireInv
  <1> SUFFICES ASSUME RetireInit PROVE RetireInv
    OBVIOUS
  <1>1. RetireTypeOK /\ IInv /\ Init
    BY RetireTypeInit, InvInit DEF RetireInit
  <1>2. /\ \A r \in Retirers : cmd[r].pc = "idle"
        /\ \A p \in Procs : proc[p].pc = "idle"
    BY <1>1 DEF RetireInit, Rest, Init, Idle
  <1>3. OneAtATime
    BY <1>2 DEF OneAtATime, WorkingOn, Creating, Working, Behind
  <1>4. ParkedWhole
    <2> SUFFICES ASSUME NEW n \in Names, parked[n] # NoWs, Present(n)
                 PROVE  Whole(n, parked[n])
      BY DEF ParkedWhole
    <2>1. tree[n] \in [of : Workspaces, seeded : {TRUE}]
      BY <1>1 DEF Init, Present
    <2>2. /\ tree[n] = [of |-> tree[n].of, seeded |-> tree[n].seeded]
          /\ tree[n].seeded = TRUE /\ tree[n].of \in Workspaces
      BY <2>1
    <2>3. tree[n].of = parked[n]
      BY <1>1, <2>2, NoWsAssumption DEF Init
    <2>4. QED
      BY <2>2, <2>3 DEF Whole
  <1>5. QED
    BY <1>1, <1>2, <1>3, <1>4 DEF RetireInv, MakesUnparked, ReadsHold

\* A registered box keeps its own complete home through every rm, purge, register
\* and create, whatever fails or is killed, as long as one command at a time works
\* on a box and recoveries are of dead attempts.
THEOREM LiveHomesKept ==
  ASSUME ~RecoverLive, ~Overlap
  PROVE  RetireSpec => []LiveHomeKept
  <1>1. RetireInv /\ [RetireNext]_allVars => RetireInv'
    BY RetireInvStep
  <1>2. RetireInv => LiveHomeKept
    BY DEF RetireInv, IInv, StoreInv, LiveHomeKept
  <1>3. QED
    BY RetireInvInit, <1>1, <1>2, PTL DEF RetireSpec

-----------------------------------------------------------------------------
(* No command strands a home.  When an entry goes (a journal entry is cleared or
   withdrawn, a parked one dropped) another list has the home, or it is gone. *)

\* A create that finds its home complete finds it registered, and will leave it so.
Reached(p) ==
  /\ proc[p].pc \in {"drop", "arm"} /\ ~proc[p].recover /\ Present(proc[p].name) =>
       registry[proc[p].name] = proc[p].ws
  /\ Undoable(p) /\ ~proc[p].fresh /\ ~proc[p].recover =>
       registry[proc[p].name] = proc[p].ws
  /\ proc[p].pc = "unclaim" /\ Present(proc[p].name) =>
       registry[proc[p].name] = proc[p].ws
  /\ proc[p].pc = "clear" => registry[proc[p].box] = proc[p].ws

\* An entry is dropped for a home that is gone, or registered.
DropsRightly(r) ==
  /\ cmd[r].pc = "drop" => ~Present(cmd[r].name)
  /\ cmd[r].pc = "regdrop" => registry[cmd[r].name] # NoWs

HandleInv ==
  /\ RetireInv
  /\ \A p \in Procs : Reached(p)
  /\ \A r \in Retirers : DropsRightly(r)

\* A create whose homes another step leaves alone is still in place.
LEMMA StillReached ==
  ASSUME RetireInv, NEW q \in Procs, Reached(q), proc'[q] = proc[q],
         proc[q].pc \in Behind =>
           \A m \in Names : m \in {proc[q].name, proc[q].box} =>
             tree'[m] = tree[m] /\ registry'[m] = registry[m]
  PROVE  Reached(q)'
  <1>1. BehindInv(q)
    BY DEF RetireInv, IInv
  <1>2. CASE proc[q].pc \in Behind
    <2>1. proc[q].name \in Names /\ (proc[q].pc = "clear" => proc[q].box \in Names)
      BY <1>1, <1>2 DEF BehindInv, AtHome
    <2>2. QED
      BY <1>2, <2>1 DEF Reached, Undoable, Present
  <1>3. CASE proc[q].pc \notin Behind
    BY <1>3 DEF Reached, Undoable, Behind
  <1>4. QED
    BY <1>2, <1>3

\* The command that steps: what it found at its claim stays until it needs it.
LEMMA StepReached ==
  ASSUME RetireInv, NEW p \in Procs, Reached(p), Step(p)
  PROVE  Reached(p)'
  <1>1. IInv /\ TypeOK /\ BehindInv(p) /\ BeforeInv(p)
    BY DEF IInv, RetireInv
  <1> USE Fields
  <1>2. CASE Claim(p)
    <2>1. proc[p].name \in Names /\ proc[p].ws \in Workspaces
      BY <1>1, <1>2 DEF BeforeInv, Before, Claim
    <2>2. CASE ~MadeMeanwhile(proc[p].ws, proc[p].name) /\ Goto(p, "drop")
      <3>1. /\ proc'[p].pc = "drop" /\ proc'[p].ws = proc[p].ws
            /\ proc'[p].name = proc[p].name
        BY <1>1, <2>2, GotoMoves DEF PCs, Behind
      <3>2. Present(proc[p].name) => registry[proc[p].name] = proc[p].ws
        BY <2>2 DEF MadeMeanwhile
      <3>3. QED
        BY <1>2, <3>1, <3>2 DEF Claim, Reached, Undoable, Present
    <2>3. CASE Goto(p, "repick") \/ Refuse(p)
      <3>1. proc'[p].pc \in {"repick", "idle"}
        BY <1>1, <2>3, GotoMoves, RefuseMoves DEF PCs, Before
      <3>2. QED
        BY <3>1 DEF Reached, Undoable
    <2>4. QED
      BY <1>2, <2>2, <2>3 DEF Claim
  <1>3. CASE DropGoneParked(p)
    <2>1. /\ proc'[p].pc = "arm" /\ proc'[p].ws = proc[p].ws
          /\ proc'[p].name = proc[p].name /\ proc'[p].recover = proc[p].recover
      BY <1>1, <1>3, GotoMoves DEF DropGoneParked, PCs, Behind
    <2>2. QED
      BY <1>3, <2>1 DEF DropGoneParked, Reached, Undoable, Present
  <1>4. CASE ArmUndo(p)
    <2>1. /\ proc'[p].pc = "make" /\ proc'[p].ws = proc[p].ws
          /\ proc'[p].name = proc[p].name /\ proc'[p].recover = proc[p].recover
          /\ proc'[p].fresh = (~proc[p].recover /\ ~Present(proc[p].name))
      BY <1>1, <1>4, ArmMoves
    <2>2. QED
      BY <1>4, <2>1 DEF ArmUndo, Reached, Undoable
  <1>5. CASE Make(p)
    <2>1. /\ proc'[p].pc = "persist" /\ proc'[p].ws = proc[p].ws
          /\ proc'[p].name = proc[p].name /\ proc'[p].recover = proc[p].recover
          /\ proc'[p].fresh = proc[p].fresh
      BY <1>1, <1>5, MakeLands, EnterMoves
    <2>2. QED
      BY <1>5, <2>1 DEF Make, Reached, Undoable
  <1>6. CASE Fail(p)
    <2>1. CASE ~proc[p].recover
      <3>1. /\ proc'[p].pc = "undo" /\ proc'[p].ws = proc[p].ws
            /\ proc'[p].name = proc[p].name /\ proc'[p].recover = proc[p].recover
            /\ proc'[p].fresh = proc[p].fresh
        BY <1>1, <1>6, <2>1, GotoMoves DEF Fail, PCs, Behind
      <3>2. QED
        BY <1>6, <2>1, <3>1 DEF Fail, Reached, Undoable
    <2>2. CASE proc[p].recover
      BY <1>1, <1>6, <2>2, RefuseMoves DEF Fail, Reached, Undoable
    <2>3. QED
      BY <2>1, <2>2
  <1>7. CASE Undo(p)
    <2>1. /\ proc'[p].pc = "unclaim" /\ proc'[p].ws = proc[p].ws
          /\ proc'[p].name = proc[p].name
      BY <1>1, <1>7, GotoMoves DEF Undo, PCs, Behind
    <2>2. proc[p].name \in Names /\ ~proc[p].recover
      BY <1>1, <1>7 DEF BehindInv, Behind, Undo
    <2>3. proc[p].fresh => tree'[proc[p].name] = NoTree
      BY <1>1, <1>7, <2>2 DEF Undo, TypeOK
    <2>4. ~proc[p].fresh => registry[proc[p].name] = proc[p].ws
      BY <1>7, <2>2 DEF Undo, Reached, Undoable
    <2>5. QED
      BY <1>7, <2>1, <2>3, <2>4 DEF Undo, Reached, Undoable, Present, NoTree
  <1>8. CASE Register(p)
    <2>1. /\ proc'[p].pc = "clear" /\ proc'[p].ws = proc[p].ws
          /\ proc'[p].box = proc[p].box
      BY <1>1, <1>8, GotoMoves DEF Register, PCs, Behind
    <2>2. proc[p].box \in Names
      BY <1>1, <1>8 DEF BehindInv, Behind, AtHome, Register
    <2>3. registry'[proc[p].box] = proc[p].ws
      BY <1>1, <1>8, <2>2 DEF Register, TypeOK
    <2>4. QED
      BY <2>1, <2>3 DEF Reached, Undoable
  <1>9. CASE Persist(p)
    <2>1. proc'[p].pc = "seed"
      BY <1>1, <1>9, GotoMoves DEF Persist, PCs, Behind
    <2>2. QED
      BY <2>1 DEF Reached, Undoable
  <1>10. CASE Seed(p)
    <2>1. proc'[p].pc = "register"
      BY <1>1, <1>10, GotoMoves DEF Seed, PCs, Behind
    <2>2. QED
      BY <2>1 DEF Reached, Undoable
  <1>11. CASE CheckName(p) \/ ProbeNew(p) \/ Pick(p) \/ CheckOrphan(p)
    <2>1. proc'[p].pc \in Before \cup Ended
      <3> USE <1>1 DEF PCs, Before, Ended
      <3>1. CASE CheckName(p) BY <3>1, GotoMoves, RefuseMoves DEF CheckName
      <3>2. CASE ProbeNew(p) BY <3>2, GotoMoves, RefuseMoves DEF ProbeNew
      <3>3. CASE Pick(p) BY <3>3, NamedMoves DEF Pick
      <3>4. CASE CheckOrphan(p) BY <3>4, GotoMoves, RefuseMoves DEF CheckOrphan
      <3>5. QED
        BY <1>11, <3>1, <3>2, <3>3, <3>4
    <2>2. QED
      BY <2>1 DEF Reached, Undoable, Before, Ended
  <1>12. CASE ProbeNamed(p)
    <2>1. \/ proc'[p].pc \in {"idle", "claim"}
          \/ proc'[p].pc = "drop" /\ proc'[p].recover
      BY <1>1, <1>12, NamedMoves, RefuseMoves DEF ProbeNamed, PCs, Before, Behind
    <2>2. QED
      BY <2>1 DEF Reached, Undoable
  <1>13. CASE UndoFails(p) \/ Unclaim(p) \/ Raise(p) \/ Clear(p)
    <2>1. proc'[p].pc \in {"idle", "done"}
      BY <1>1, <1>13, RefuseMoves, ClearMoves DEF UndoFails, Unclaim, Raise
    <2>2. QED
      BY <2>1 DEF Reached, Undoable
  <1>14. QED
    BY <1>2, <1>3, <1>4, <1>5, <1>6, <1>7, <1>8, <1>9, <1>10, <1>11, <1>12, <1>13
    DEF Step

LEMMA CreateKeepsReach ==
  ASSUME HandleInv, Next, UNCHANGED cmd
  PROVE  (\A q \in Procs : Reached(q)') /\ \A r \in Retirers : DropsRightly(r)'
  <1>1. RetireInv /\ IInv /\ TypeOK
    BY DEF HandleInv, RetireInv, IInv
  <1>2. ASSUME NEW p \in Procs, Step(p)
        PROVE  (\A q \in Procs : Reached(q)') /\ \A r \in Retirers : DropsRightly(r)'
    <2>1. ASSUME NEW q \in Procs \ {p} PROVE Reached(q)'
      <3>1. Reached(q) /\ proc'[q] = proc[q]
        BY <1>1, <1>2, OthersStand DEF HandleInv
      <3>2. ASSUME proc[q].pc \in Behind, NEW m \in Names,
                   m \in {proc[q].name, proc[q].box},
                   tree'[m] # tree[m] \/ registry'[m] # registry[m]
            PROVE  FALSE
        <4>1. /\ proc[p].pc \in Behind
              /\ m = proc[p].name \/ (m = proc[p].box /\ AtHome(p))
          BY <1>1, <1>2, <3>2, CreateTouches
        <4>2. QED
          BY <1>1, <3>2, <4>1, Apart
      <3>3. QED
        BY <1>1, <3>1, <3>2, StillReached
    <2>2. Reached(p)'
      BY <1>1, <1>2, StepReached DEF HandleInv
    <2>3. ASSUME NEW r \in Retirers PROVE DropsRightly(r)'
      <3>1. CASE cmd[r].pc \in Working
        <4>1. cmd[r].name \in Names
              /\ registry'[cmd[r].name] = registry[cmd[r].name]
              /\ tree'[cmd[r].name] = tree[cmd[r].name]
          BY <1>1, <1>2, <3>1, Alone, CreateTouches
        <4>2. QED
          BY <4>1 DEF HandleInv, DropsRightly, Present
      <3>2. CASE cmd[r].pc \notin Working
        BY <3>2 DEF DropsRightly, Working
      <3>3. QED
        BY <3>1, <3>2
    <2>4. QED
      BY <2>1, <2>2, <2>3
  <1>3. ASSUME NEW p \in Procs, UNCHANGED <<registry, tree>>,
               \A q \in Procs \ {p} : proc'[q] = proc[q],
               proc'[p].pc \in {"probe", "check", "idle"}
        PROVE  (\A q \in Procs : Reached(q)') /\ \A r \in Retirers : DropsRightly(r)'
    <2>1. Reached(p)'
      BY <1>3 DEF Reached, Undoable
    <2>2. \A q \in Procs \ {p} : Reached(q)'
      BY <1>1, <1>3, StillReached DEF HandleInv
    <2>3. \A r \in Retirers : DropsRightly(r)'
      BY <1>3 DEF HandleInv, DropsRightly, Present
    <2>4. QED
      BY <2>1, <2>2, <2>3
  <1>4. ASSUME NEW p \in Procs, NEW w \in Workspaces, NEW typed \in Typed \cup {0},
               NEW recover \in BOOLEAN, Begin(p, w, typed, recover)
        PROVE  /\ UNCHANGED <<registry, tree>>
               /\ \A q \in Procs \ {p} : proc'[q] = proc[q]
               /\ proc'[p].pc \in {"probe", "check", "idle"}
    BY <1>1, <1>4, BeginMoves DEF Begin
  <1>5. ASSUME NEW p \in Procs, Kill(p)
        PROVE  /\ UNCHANGED <<registry, tree>>
               /\ \A q \in Procs \ {p} : proc'[q] = proc[q]
               /\ proc'[p].pc \in {"probe", "check", "idle"}
    BY <1>1, <1>5, RefuseMoves DEF Kill
  <1>6. QED
    BY <1>2, <1>3, <1>4, <1>5 DEF Next

\* A step of an rm, a purge or a register changes the box it works on only.
LEMMA RetireTouches ==
  ASSUME RetireInv, NEW r \in Retirers, Work(r), NEW m \in Names,
         tree'[m] # tree[m] \/ registry'[m] # registry[m]
  PROVE  cmd[r].pc \in Working /\ m = cmd[r].name
  <1>1. TypeOK
    BY DEF RetireInv, IInv
  <1>2. CASE Unregister(r)
    BY <1>1, <1>2 DEF Unregister, At, Working, TypeOK
  <1>3. CASE RmDelete(r)
    BY <1>1, <1>3 DEF RmDelete, At, Working, TypeOK
  <1>4. CASE Delete(r)
    BY <1>1, <1>4 DEF Delete, At, Working, TypeOK
  <1>5. CASE RegWrite(r)
    BY <1>1, <1>5 DEF RegWrite, At, Working, TypeOK
  <1>6. QED
    BY <1>2, <1>3, <1>4, <1>5
    DEF Work, Park, Lookup, Owner, Gone, Drop, RegDir, RegCheck, RegDrop, vars

LEMMA WorkMoves ==
  ASSUME RetireInv, NEW r \in Retirers, Work(r)
  PROVE  UNCHANGED proc /\ \A s \in Retirers \ {r} : cmd'[s] = cmd[s]
  <1>1. RetireTypeOK
    BY DEF RetireInv
  <1>2. \A pc \in CmdPCs : Move(r, pc) => \A s \in Retirers \ {r} : cmd'[s] = cmd[s]
    BY <1>1, MoveMoves
  <1>3. End(r) => \A s \in Retirers \ {r} : cmd'[s] = cmd[s]
    BY <1>1, EndMoves
  <1> USE <1>2, <1>3 DEF CmdPCs, Working, vars
  <1>4. CASE Unregister(r) BY <1>4 DEF Unregister
  <1>5. CASE RmDelete(r) BY <1>5 DEF RmDelete
  <1>6. CASE Park(r) BY <1>6 DEF Park
  <1>7. CASE Lookup(r) BY <1>7 DEF Lookup
  <1>8. CASE Owner(r) BY <1>8 DEF Owner
  <1>9. CASE Gone(r) BY <1>9 DEF Gone
  <1>10. CASE Delete(r) BY <1>10 DEF Delete
  <1>11. CASE Drop(r) BY <1>11 DEF Drop
  <1>12. CASE RegDir(r) BY <1>12 DEF RegDir
  <1>13. CASE RegCheck(r) BY <1>13 DEF RegCheck
  <1>14. CASE RegWrite(r) BY <1>14 DEF RegWrite
  <1>15. CASE RegDrop(r) BY <1>15 DEF RegDrop
  <1>16. QED
    BY <1>4, <1>5, <1>6, <1>7, <1>8, <1>9, <1>10, <1>11, <1>12, <1>13, <1>14,
       <1>15 DEF Work

LEMMA WorkDropsRightly ==
  ASSUME RetireInv, NEW r \in Retirers, DropsRightly(r), Work(r)
  PROVE  DropsRightly(r)'
  <1> DEFINE n == cmd[r].name
  <1>1. RetireTypeOK /\ TypeOK
    BY DEF RetireInv, RetireTypeOK
  <1>2. \A pc \in CmdPCs : Move(r, pc) => cmd'[r].pc = pc /\ cmd'[r].name = n
    BY <1>1, MoveMoves
  <1>3. End(r) => cmd'[r].pc = "idle"
    BY <1>1, EndMoves
  <1>4. ASSUME cmd[r].pc \in Working PROVE n \in Names
    BY <1>4, Alone
  <1>5. CASE Delete(r)
    <2>1. n \in Names
      BY <1>4, <1>5 DEF Delete, At, Working
    <2>2. CASE End(r)
      BY <1>3, <2>2 DEF DropsRightly
    <2>3. CASE tree' = [tree EXCEPT ![n] = NoTree] /\ Move(r, "drop")
      <3>1. tree'[n] = NoTree
        BY <1>1, <2>1, <2>3 DEF TypeOK
      <3>2. cmd'[r].pc = "drop" /\ cmd'[r].name = n
        BY <1>2, <2>3 DEF CmdPCs, Working
      <3>3. QED
        BY <3>1, <3>2 DEF DropsRightly, Present, NoTree
    <2>4. QED
      BY <1>5, <2>2, <2>3 DEF Delete
  <1>6. CASE Gone(r)
    BY <1>2, <1>6 DEF Gone, vars, CmdPCs, Working, DropsRightly, Present
  <1>7. CASE RegDir(r)
    BY <1>2, <1>7 DEF RegDir, vars, CmdPCs, Working, DropsRightly, Present
  <1>8. CASE RegWrite(r)
    <2>1. CASE End(r)
      BY <1>3, <2>1 DEF DropsRightly
    <2>2. CASE registry' = [registry EXCEPT ![n] = cmd[r].ws] /\ Move(r, "regdrop")
      <3>1. n \in Names
        BY <1>4, <1>8 DEF RegWrite, At, Working
      <3>2. cmd[r].ws # NoWs
        BY <1>1, <1>8 DEF RetireTypeOK, Keeps, RegWrite, At
      <3>3. registry'[n] # NoWs
        BY <1>1, <2>2, <3>1, <3>2 DEF TypeOK
      <3>4. cmd'[r].pc = "regdrop" /\ cmd'[r].name = n
        BY <1>2, <2>2 DEF CmdPCs, Working
      <3>5. QED
        BY <3>3, <3>4 DEF DropsRightly
    <2>3. QED
      BY <1>8, <2>1, <2>2 DEF RegWrite
  <1>9. ASSUME ~Delete(r), ~Gone(r), ~RegDir(r), ~RegWrite(r)
        PROVE  cmd'[r].pc \notin {"drop", "regdrop"}
    <2> USE <1>2, <1>3 DEF CmdPCs, Working
    <2>1. CASE Unregister(r) BY <2>1 DEF Unregister
    <2>2. CASE RmDelete(r) BY <2>2 DEF RmDelete
    <2>3. CASE Park(r) BY <2>3 DEF Park
    <2>4. CASE Lookup(r) BY <2>4 DEF Lookup
    <2>5. CASE Owner(r) BY <2>5 DEF Owner
    <2>6. CASE Drop(r) BY <2>6 DEF Drop
    <2>7. CASE RegCheck(r) BY <2>7 DEF RegCheck
    <2>8. CASE RegDrop(r) BY <2>8 DEF RegDrop
    <2>9. QED
      BY <1>9, <2>1, <2>2, <2>3, <2>4, <2>5, <2>6, <2>7, <2>8 DEF Work
  <1>10. QED
    BY <1>5, <1>6, <1>7, <1>8, <1>9 DEF DropsRightly

LEMMA RetireKeepsReach ==
  ASSUME HandleInv, Retire
  PROVE  (\A q \in Procs : Reached(q)') /\ \A r \in Retirers : DropsRightly(r)'
  <1>1. RetireInv /\ RetireTypeOK
    BY DEF HandleInv, RetireInv
  <1>2. ASSUME NEW r \in Retirers, UNCHANGED proc,
               \A s \in Retirers \ {r} : cmd'[s] = cmd[s],
               \A m \in Names : tree'[m] # tree[m] \/ registry'[m] # registry[m] =>
                 cmd[r].pc \in Working /\ m = cmd[r].name,
               DropsRightly(r)'
        PROVE  (\A q \in Procs : Reached(q)') /\ \A s \in Retirers : DropsRightly(s)'
    <2>1. ASSUME NEW q \in Procs PROVE Reached(q)'
      <3>1. ASSUME proc[q].pc \in Behind, NEW m \in Names,
                   m \in {proc[q].name, proc[q].box}
            PROVE  tree'[m] = tree[m] /\ registry'[m] = registry[m]
        BY <1>1, <1>2, <3>1, Alone
      <3>2. QED
        BY <1>1, <1>2, <3>1, StillReached DEF HandleInv
    <2>2. ASSUME NEW s \in Retirers \ {r} PROVE DropsRightly(s)'
      <3>1. CASE cmd[s].pc \in Working
        <4>1. /\ registry'[cmd[s].name] = registry[cmd[s].name]
              /\ tree'[cmd[s].name] = tree[cmd[s].name]
          BY <1>1, <1>2, <3>1, Alone
        <4>2. QED
          BY <1>2, <4>1 DEF HandleInv, DropsRightly, Present
      <3>2. CASE cmd[s].pc \notin Working
        BY <1>2, <3>2 DEF DropsRightly, Working
      <3>3. QED
        BY <3>1, <3>2
    <2>3. QED
      BY <1>2, <2>1, <2>2
  <1>3. ASSUME NEW r \in Retirers, NEW n \in Names, NEW purge \in BOOLEAN,
               Readopt(r, n) \/ Rm(r, n, purge)
        PROVE  (\A q \in Procs : Reached(q)') /\ \A s \in Retirers : DropsRightly(s)'
    <2>1. /\ UNCHANGED <<registry, tree, proc>>
          /\ \A s \in Retirers \ {r} : cmd'[s] = cmd[s]
          /\ cmd'[r].pc \in {"regdir", "unregister", "lookup"}
      BY <1>1, <1>3, ReadoptMoves, RmMoves DEF Readopt, Rm, vars
    <2>2. DropsRightly(r)'
      BY <2>1 DEF DropsRightly
    <2>3. QED
      BY <1>2, <2>1, <2>2
  <1>4. ASSUME NEW r \in Retirers, Decline(r) \/ Die(r)
        PROVE  (\A q \in Procs : Reached(q)') /\ \A s \in Retirers : DropsRightly(s)'
    <2>1. /\ UNCHANGED <<registry, tree, proc>>
          /\ \A s \in Retirers \ {r} : cmd'[s] = cmd[s]
          /\ cmd'[r].pc \in {"idle", "killed"}
      BY <1>1, <1>4, EndMoves, DieMoves DEF Decline, Die, vars
    <2>2. DropsRightly(r)'
      BY <2>1 DEF DropsRightly
    <2>3. QED
      BY <1>2, <2>1, <2>2
  <1>5. ASSUME NEW r \in Retirers, Work(r)
        PROVE  (\A q \in Procs : Reached(q)') /\ \A s \in Retirers : DropsRightly(s)'
    BY <1>1, <1>2, <1>5, WorkMoves, RetireTouches, WorkDropsRightly DEF HandleInv
  <1>6. QED
    BY <1>3, <1>4, <1>5 DEF Retire

LEMMA CreateKeepsHandles ==
  ASSUME HandleInv, NEW p \in Procs, Step(p), UNCHANGED cmd,
         NEW n \in Names, Handled(n), Present(n)'
  PROVE  Handled(n)'
  <1>1. TypeOK /\ BehindInv(p) /\ BeforeInv(p) /\ Reached(p)
    BY DEF HandleInv, RetireInv, IInv
  <1>2. CASE Claim(p)
    <2>1. journal[n] # NoWs => journal'[n] # NoWs
      <3>1. proc[p].ws # NoWs
        BY <1>1, <1>2, NoWsAssumption DEF BeforeInv, Before, Claim
      <3>2. QED
        BY <1>1, <1>2, <3>1 DEF Claim, TypeOK
    <2>2. QED
      BY <1>2, <2>1 DEF Claim, Handled
  <1>3. CASE DropGoneParked(p)
    <2>1. UNCHANGED <<registry, journal, tree>>
      BY <1>3 DEF DropGoneParked
    <2>2. Present(n)
      BY <2>1 DEF Present
    <2>3. parked'[n] = parked[n]
      BY <1>1, <1>3, <2>2 DEF DropGoneParked, TypeOK
    <2>4. QED
      BY <2>1, <2>3 DEF Handled
  <1>4. CASE Unclaim(p)
    <2> DEFINE k == proc[p].name
    <2>1. /\ UNCHANGED <<registry, tree, parked>> /\ k \in Names
          /\ proc[p].ws \in Workspaces
          /\ \A m \in Names \ {k} : journal'[m] = journal[m]
      BY <1>1, <1>4 DEF Unclaim, BehindInv, Behind, TypeOK
    <2>2. n = k => registry[n] # NoWs
      BY <1>1, <1>4, <2>1, NoWsAssumption DEF Reached, Unclaim, Present
    <2>3. QED
      BY <2>1, <2>2 DEF Handled
  <1>5. CASE Clear(p)
    <2> DEFINE b == proc[p].box
    <2>1. /\ UNCHANGED <<registry, tree, parked>> /\ b \in Names
          /\ proc[p].ws \in Workspaces
          /\ \A m \in Names \ {b} : journal'[m] = journal[m]
      BY <1>1, <1>5 DEF Clear, BehindInv, Behind, AtHome, TypeOK
    <2>2. registry[b] # NoWs
      BY <1>1, <1>5, <2>1, NoWsAssumption DEF Reached, Clear
    <2>3. QED
      BY <2>1, <2>2 DEF Handled
  <1>6. CASE Register(p)
    <2>1. registry[n] # NoWs => registry'[n] # NoWs
      <3>1. proc[p].ws # NoWs
        BY <1>1, <1>6, NoWsAssumption DEF BehindInv, Behind, Register
      <3>2. QED
        BY <1>1, <1>6, <3>1 DEF Register, TypeOK
    <2>2. QED
      BY <1>6, <2>1 DEF Register, Handled
  <1>7. CASE UNCHANGED <<registry, journal, parked>>
    BY <1>7 DEF Handled
  <1>8. QED
    BY <1>2, <1>3, <1>4, <1>5, <1>6, <1>7
    DEF Step, CheckName, ProbeNamed, ProbeNew, Pick, CheckOrphan, ArmUndo, Make,
        Persist, Fail, Undo, UndoFails, Seed, Raise

\* Another command that was about to park or delete a home still is.
LEMMA OthersHandle ==
  ASSUME NEW r \in Retirers, NEW n \in Names, Handled(n),
         \A s \in Retirers \ {r} : cmd'[s] = cmd[s],
         registry[n] # NoWs => Handled(n)',
         journal[n] # NoWs => Handled(n)',
         parked[n] # NoWs => Handled(n)',
         cmd[r].name = n /\ cmd[r].pc \in {"park", "rmdelete"} => Handled(n)'
  PROVE  Handled(n)'
  BY DEF Handled

LEMMA WorkKeepsHandles ==
  ASSUME HandleInv, NEW r \in Retirers, Work(r),
         NEW n \in Names, Handled(n), Present(n)'
  PROVE  Handled(n)'
  <1> DEFINE k == cmd[r].name
  <1>1. RetireInv /\ RetireTypeOK /\ TypeOK /\ ReadsHold(r) /\ DropsRightly(r)
    BY DEF HandleInv, RetireInv, RetireTypeOK
  <1>2. \A pc \in CmdPCs : Move(r, pc) => cmd'[r].pc = pc /\ cmd'[r].name = k
    BY <1>1, MoveMoves
  <1>3. ASSUME cmd[r].pc \in Working PROVE k \in Names
    BY <1>1, <1>3, Alone
  <1>4. \A s \in Retirers \ {r} : cmd'[s] = cmd[s]
    BY <1>1, WorkMoves
  <1>5. CASE Unregister(r)
    <2>1. /\ UNCHANGED <<journal, tree, parked>>
          /\ \A m \in Names \ {k} : registry'[m] = registry[m]
      BY <1>1, <1>5 DEF Unregister, TypeOK
    <2>2. cmd'[r].pc \in {"park", "rmdelete"} /\ cmd'[r].name = k
      BY <1>2, <1>5 DEF Unregister, CmdPCs, Working
    <2>3. QED
      BY <1>4, <2>1, <2>2, OthersHandle DEF Handled
  <1>6. CASE RmDelete(r)
    <2>1. UNCHANGED <<registry, journal, parked>> /\ k \in Names
      BY <1>3, <1>6 DEF RmDelete, At, Working
    <2>2. CASE tree' = [tree EXCEPT ![k] = NoTree]
      <3>1. tree'[k] = NoTree
        BY <1>1, <2>1, <2>2 DEF TypeOK
      <3>2. n # k
        BY <3>1 DEF Present, NoTree
      <3>3. QED
        BY <1>4, <2>1, <3>2, OthersHandle DEF Handled
    <2>3. CASE Move(r, "park")
      <3>1. cmd'[r].pc = "park" /\ cmd'[r].name = k
        BY <1>2, <2>3 DEF CmdPCs, Working
      <3>2. QED
        BY <1>4, <2>1, <3>1, OthersHandle DEF Handled
    <2>4. QED
      BY <1>6, <2>2, <2>3 DEF RmDelete
  <1>7. CASE Park(r)
    <2>1. UNCHANGED <<registry, journal, tree>> /\ k \in Names /\ cmd[r].ws # NoWs
      BY <1>1, <1>3, <1>7 DEF Park, At, Working, RetireTypeOK, Keeps
    <2>2. Present(n)
      BY <2>1 DEF Present
    <2>3. /\ \A m \in Names \ {k} : parked'[m] = parked[m]
          /\ n = k => parked'[n] = cmd[r].ws
      BY <1>1, <1>7, <2>1, <2>2 DEF Park, TypeOK
    <2>4. QED
      BY <1>4, <2>1, <2>3, OthersHandle DEF Handled
  <1>8. ASSUME UNCHANGED <<registry, journal>>, Unpark(k),
               registry[k] # NoWs,
               cmd[r].pc \notin {"park", "rmdelete"}
        PROVE  Handled(n)'
    <2>1. \A m \in Names \ {k} : parked'[m] = parked[m]
      BY <1>1, <1>8 DEF Unpark, TypeOK
    <2>2. n = k => registry'[n] # NoWs
      BY <1>8
    <2>3. QED
      BY <1>4, <1>8, <2>1, <2>2, OthersHandle DEF Handled
  <1>9. CASE Owner(r) /\ registry[k] # NoWs
    <2>1. /\ cmd[r].pc = "owner" /\ Unpark(k) /\ UNCHANGED <<registry, journal>>
          /\ registry[k] # NoWs
      BY <1>9 DEF Owner, At
    <2>2. QED
      BY <1>8, <2>1
  <1>10. CASE Drop(r)
    <2>1. /\ cmd[r].pc = "drop" /\ Unpark(k) /\ UNCHANGED <<registry, journal, tree>>
          /\ ~Present(k)
      BY <1>1, <1>10 DEF Drop, At, DropsRightly
    <2>2. tree'[k] = NoTree
      BY <2>1 DEF Present
    <2>3. n # k
      BY <2>2 DEF Present, NoTree
    <2>4. \A m \in Names \ {k} : parked'[m] = parked[m]
      BY <1>1, <2>1 DEF Unpark, TypeOK
    <2>5. QED
      BY <1>4, <2>1, <2>3, <2>4, OthersHandle DEF Handled
  <1>11. CASE RegDrop(r)
    <2>1. /\ cmd[r].pc = "regdrop" /\ Unpark(k) /\ UNCHANGED <<registry, journal>>
          /\ registry[k] # NoWs
      BY <1>1, <1>11 DEF RegDrop, At, DropsRightly
    <2>2. QED
      BY <1>8, <2>1
  <1>12. CASE RegWrite(r)
    <2>1. /\ cmd[r].pc = "regwrite" /\ cmd[r].ws # NoWs /\ k \in Names
          /\ UNCHANGED <<journal, parked>>
      BY <1>1, <1>3, <1>12 DEF RegWrite, At, RetireTypeOK, Keeps, Working
    <2>2. registry[n] # NoWs => registry'[n] # NoWs
      BY <1>1, <1>12, <2>1 DEF RegWrite, TypeOK
    <2>3. QED
      BY <1>4, <2>1, <2>2, OthersHandle DEF Handled
  <1>13. CASE UNCHANGED <<registry, journal, parked>>
              /\ cmd[r].pc \notin {"park", "rmdelete"}
    BY <1>4, <1>13, OthersHandle DEF Handled
  <1>14. CASE Owner(r) /\ registry[k] = NoWs
    <2>1. UNCHANGED <<registry, journal, parked>> /\ cmd[r].pc = "owner"
      BY <1>14 DEF Owner, At
    <2>2. QED
      BY <1>13, <2>1
  <1>15. CASE Lookup(r) \/ Gone(r) \/ Delete(r) \/ RegDir(r) \/ RegCheck(r)
    <2>1. UNCHANGED <<registry, journal, parked>>
      BY <1>15 DEF Lookup, Gone, Delete, RegDir, RegCheck, vars
    <2>2. cmd[r].pc \in {"lookup", "gone", "delete", "regdir", "regcheck"}
      BY <1>15 DEF Lookup, Gone, Delete, RegDir, RegCheck, At
    <2>3. QED
      BY <1>13, <2>1, <2>2
  <1>16. QED
    BY <1>5, <1>6, <1>7, <1>9, <1>10, <1>11, <1>12, <1>14, <1>15 DEF Work

\* No rm, purge, register or create strands a home that some list reaches, except
\* an rm that is killed between its two writes.
THEOREM HomesKeepHandle ==
  ASSUME ~RecoverLive, ~Overlap
  PROVE  RetireSpec => HomeHasHandle
  <1> DEFINE Dies == \E r \in Retirers : cmd'[r].pc = "killed" /\ cmd[r].pc # "killed"
             Kept == \A n \in Names : Handled(n) /\ Present(n)' => Handled(n)'
  <1>1. RetireInit => HandleInv
    <2> SUFFICES ASSUME RetireInit PROVE HandleInv
      OBVIOUS
    <2>1. RetireInv
      BY RetireInvInit
    <2>2. /\ \A r \in Retirers : cmd[r].pc = "idle"
          /\ \A p \in Procs : proc[p].pc = "idle"
      BY DEF RetireInit, Rest, Init, Idle
    <2>3. QED
      BY <2>1, <2>2 DEF HandleInv, Reached, Undoable, DropsRightly
  <1>2. ASSUME HandleInv, [RetireNext]_allVars PROVE HandleInv'
    <2>1. RetireInv'
      BY <1>2, RetireInvStep DEF HandleInv
    <2>2. CASE UNCHANGED allVars
      <3>1. /\ \A p \in Procs : Reached(p)'
            /\ \A r \in Retirers : DropsRightly(r)'
        BY <1>2, <2>2 DEF HandleInv, allVars, Reached, Undoable, DropsRightly, Present
      <3>2. QED
        BY <2>1, <3>1 DEF HandleInv
    <2>3. CASE RetireNext
      BY <1>2, <2>1, <2>3, CreateKeepsReach, RetireKeepsReach
      DEF RetireNext, HandleInv
    <2>4. QED
      BY <1>2, <2>2, <2>3
  <1>3. ASSUME HandleInv, [RetireNext]_allVars PROVE [Dies \/ Kept]_allVars
    <2>1. ASSUME NEW r \in Retirers, Die(r) PROVE Dies
      <3>1. cmd[r].pc # "killed"
        BY <2>1 DEF Die, Free
      <3>2. cmd'[r].pc = "killed"
        BY <1>3, <2>1, DieMoves DEF HandleInv, RetireInv
      <3>3. QED
        BY <3>1, <3>2
    <2>2. ASSUME NEW p \in Procs, Step(p), UNCHANGED cmd PROVE Kept
      BY <1>3, <2>2, CreateKeepsHandles
    <2>3. ASSUME NEW r \in Retirers, Work(r) PROVE Kept
      BY <1>3, <2>3, WorkKeepsHandles
    <2>4. ASSUME UNCHANGED <<registry, journal, parked, cmd>> PROVE Kept
      BY <2>4 DEF Handled
    <2>5. ASSUME NEW r \in Retirers, UNCHANGED vars,
                 \A s \in Retirers \ {r} : cmd'[s] = cmd[s],
                 cmd[r].pc \notin {"park", "rmdelete"}
          PROVE  Kept
      BY <2>5 DEF Handled, vars
    <2>6. ASSUME NEW r \in Retirers, NEW n \in Names, NEW purge \in BOOLEAN,
                 Readopt(r, n) \/ Rm(r, n, purge) \/ Decline(r)
          PROVE  Kept
      <3>1. UNCHANGED vars /\ cmd[r].pc \notin {"park", "rmdelete"}
        BY <2>6 DEF Readopt, Rm, Decline, Free
      <3>2. \A s \in Retirers \ {r} : cmd'[s] = cmd[s]
        BY <1>3, <2>6, ReadoptMoves, RmMoves, EndMoves
        DEF HandleInv, RetireInv, Decline
      <3>3. QED
        BY <2>5, <3>1, <3>2
    <2>7. CASE Next /\ UNCHANGED cmd
      BY <2>2, <2>4, <2>7 DEF Next, Begin, Kill
    <2>8. CASE Retire
      BY <2>1, <2>3, <2>6, <2>8 DEF Retire
    <2>9. QED
      BY <1>3, <2>7, <2>8 DEF RetireNext
  <1>4. QED
    BY <1>1, <1>2, <1>3, PTL DEF RetireSpec, HomeHasHandle
=============================================================================
