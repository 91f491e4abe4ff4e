---------------------------- MODULE LaunchProofs ----------------------------
(***************************************************************************)
(* For any number of commands and containers: Launch keeps its types, no   *)
(* live box is taken down but by a stop, the exit code of a box surfaces   *)
(* and no command leaves the container of a box that ended under it, but   *)
(* one that returns because the setup did not take.                        *)
(*                                                                         *)
(* The argument is about who may touch a container.  The one a start       *)
(* created stays as it was created until that start boots it (OwnInv); one *)
(* that ended under an attached command stays as it ended, with the code   *)
(* it ended with, until a command removes it (DueInv); the one a start     *)
(* created and never attached to runs or shows its code (MineInv).         *)
(***************************************************************************)
EXTENDS Launch, TLAPS

Rcs == Codes \cup {NoCode}

\* Before a start has a container of its own.
Unlaunched == {"idle", "look", "clear", "exists", "lock", "create"} \cup Stopping
\* While a box is not paused.
Tied == Attaching \ {"over", "remove"}
ForIt == {"start", "restart"}
\* Once the code of the box is read.
Coded == {"logs", "over", "remove"}

-----------------------------------------------------------------------------
(* The inductive invariant *)

\* The containers: numbered as they are created, each with the code it ended with;
\* the ones that were removed do not come back.
BoxInv ==
  /\ (box.st = "none") <=> (box.id = 0)
  /\ box.id <= used
  /\ box.st = "exited" => box.code = exit[box.id]
  /\ box.st \in {"created", "up", "paused"} => exit[box.id] = NoCode
  /\ \A i \in Ids : i > used => exit[i] = NoCode
  /\ \A i \in Ids : by[i] # NoProc => i # box.id /\ i <= used

\* The container a start created is its own to boot.
OwnInv(p) ==
  /\ proc[p].own <= used
  /\ proc[p].pc \in Unlaunched => proc[p].own = 0
  /\ proc[p].pc \in {"boot", "inside"} => proc[p].own # 0
  /\ proc[p].pc = "boot" /\ box.id = proc[p].own => box.st = "created"

\* An attached command is in a live session, and a box is not paused under it.
AttInv(p) ==
  /\ proc[p].pc = "attached" =>
       box.st = "up" /\ box.sess = "live" /\ ~box.rm /\ proc[p].met = TRUE
  /\ proc[p].pc \in Tied => box.st # "paused"

\* A stop does nothing else.
KindInv(p) == proc[p].kind = "stop" => proc[p].pc \in {"idle"} \cup (Stopping \ {"check"})

\* From the end of a box to the return of its code.
DueAt(p) ==
  /\ proc[p].pc \in {"judge", "session", "await", "code"} \cup Coded
  /\ proc[p].pc = "judge" => proc[p].rc = 0 \/ proc[p].seen = TRUE \/ box.st = "exited"
  /\ proc[p].pc = "session" /\ proc[p].down = TRUE => box.st = "exited"
  /\ proc[p].pc = "code" => box.st = "exited"
  /\ proc[p].pc \in Coded => box.st = "exited" /\ proc[p].rc = exit[proc[p].due]

DueInv(p) ==
  proc[p].due # 0 =>
    \/ TakenAway(proc[p].due, p)
    \/ /\ box.id = proc[p].due /\ ~box.rm /\ box.sess = "ended" /\ box.st \in {"up", "exited"}
       /\ DueAt(p)

\* A start that is not attached, and the box it created.
MineAt(p) ==
  /\ proc[p].pc \in {"boot", "wait"} \cup (Attaching \ {"attached", "after"})
  /\ proc[p].pc \in Tied => box.st \in {"up", "exited"}
  /\ proc[p].pc \in {"judge", "session", "await", "lost"} => proc[p].rc = Failed
  /\ proc[p].pc = "session" /\ proc[p].down = TRUE => box.st = "exited"
  /\ proc[p].pc = "code" => box.st = "exited"
  /\ proc[p].pc \in Coded /\ proc[p].rc = 0 => box.st = "exited" /\ box.code = 0

MineInv(p) ==
  proc[p].kind \in ForIt /\ proc[p].own # 0 /\ proc[p].met = FALSE =>
    \/ TakenAway(proc[p].own, p)
    \/ box.id = proc[p].own /\ ~box.rm /\ MineAt(p)

ProcInv(p) == OwnInv(p) /\ AttInv(p) /\ KindInv(p) /\ DueInv(p) /\ MineInv(p)

Apart == \A p, q \in Procs : p # q /\ proc[p].own = proc[q].own => proc[p].own = 0

IInv == TypeOK /\ BoxInv /\ Apart /\ \A p \in Procs : ProcInv(p)

\* What the properties ask of a step.
Kept ==
  Live /\ box.sess = "live" /\ ~(Live' /\ box'.id = box.id)
  => \E p \in Procs : proc[p].pc \in {"ask", "again"} /\ proc[p].pc # proc'[p].pc

Surfaces(p) == Returns(p) =>
  /\ proc[p].due # 0 =>
       \/ proc'[p].rc = exit[proc[p].due] \/ TakenAway(proc[p].due, p)
       \/ SetupFailed(p) /\ proc'[p].rc = Failed
  /\ proc[p].kind \in ForIt /\ proc[p].own # 0 /\ ~proc[p].met /\ proc'[p].rc = 0
     => exit[proc[p].own] \in {0, NoCode} \/ TakenAway(proc[p].own, p)

Leaves(p) == Returns(p) =>
  /\ proc[p].due # 0 /\ ~SetupFailed(p) => box'.id # proc[p].due
  /\ proc[p].kind = "stop" /\ proc[p].found # 0 /\ proc'[p].rc = 0
     => box'.id # proc[p].found

-----------------------------------------------------------------------------
(* How a step changes the commands. *)

LEMMA PcsAre ==
  /\ Launching \subseteq PCs /\ Attaching \subseteq PCs /\ Ephemeral \subseteq PCs
  /\ Stopping \subseteq PCs /\ "idle" \in PCs
  BY DEF PCs

LEMMA Numbers ==
  /\ 0 \in 0..MaxBoxes /\ 1 \in 1..MaxAttempts /\ Ids \subseteq 0..MaxBoxes
  /\ 0 \in Codes /\ Failed \in Codes /\ Codes \subseteq Rcs /\ NoCode \in Rcs
  /\ NoCode \notin Codes /\ Failed # 0
  BY BoxesAssumption, AttemptsAssumption DEF Ids, Codes, Ends, Failed, Rcs, NoCode

LEMMA FieldsTyped ==
  ASSUME TypeOK, NEW p \in Procs
  PROVE  /\ proc[p] \in Command /\ proc[p].pc \in PCs /\ proc[p].rc \in Rcs
         /\ proc[p].seen \in BOOLEAN /\ proc[p].down \in BOOLEAN
         /\ proc[p].n \in 1..MaxAttempts /\ proc[p].own \in 0..MaxBoxes
         /\ proc[p].due \in 0..MaxBoxes /\ proc[p].met \in BOOLEAN
         /\ proc[p].re \in BOOLEAN /\ proc[p].kind \in Kinds /\ proc[p].found \in 0..MaxBoxes
  BY DEF TypeOK, Command, Rcs

LEMMA BoxTyped ==
  ASSUME TypeOK
  PROVE  /\ box \in Box /\ box.st \in {"none", "created", "up", "paused", "exited"}
         /\ box.id \in 0..MaxBoxes /\ box.rm \in BOOLEAN /\ box.heal \in BOOLEAN
         /\ box.sess \in {"none", "live", "ended"} /\ box.code \in Codes
  BY DEF TypeOK, Box

\* One command moves, the others do not.
Moves(p) ==
  /\ proc' \in [Procs -> Command]
  /\ \A q \in Procs \ {p} : proc'[q] = proc[q]

\* What a command is about does not change while it goes on.
Same(p) ==
  /\ proc'[p].own = proc[p].own /\ proc'[p].due = proc[p].due
  /\ proc'[p].met = proc[p].met /\ proc'[p].kind = proc[p].kind

Goes(p, pc, rc, seen, down) ==
  /\ Moves(p) /\ Same(p)
  /\ proc'[p].pc = pc /\ proc'[p].rc = rc /\ proc'[p].seen = seen /\ proc'[p].down = down

\* It is over, and forgotten but for what it returned.
Idles(p, rc) ==
  /\ Moves(p)
  /\ proc'[p].pc = "idle" /\ proc'[p].own = 0 /\ proc'[p].due = 0 /\ proc'[p].rc = rc
  /\ proc'[p].kind = "start"

LEMMA OneChanges ==
  ASSUME TypeOK, NEW p \in Procs, NEW c \in Command, proc' = [proc EXCEPT ![p] = c]
  PROVE  Moves(p) /\ proc'[p] = c
  BY DEF TypeOK, Moves

\* A record that takes some fields of a command.
LEMMA Goes5 ==
  ASSUME TypeOK, NEW p \in Procs, NEW c \in Command, proc' = [proc EXCEPT ![p] = c],
         c.own = proc[p].own, c.due = proc[p].due, c.met = proc[p].met, c.kind = proc[p].kind
  PROVE  Goes(p, c.pc, c.rc, c.seen, c.down)
  BY OneChanges DEF Goes, Same

Forgotten(rc) == [Idle EXCEPT !.rc = rc]

LEMMA IdleFields ==
  ASSUME NEW rc \in Rcs
  PROVE  /\ Forgotten(rc) \in Command /\ Forgotten(rc).pc = "idle"
         /\ Forgotten(rc).own = 0 /\ Forgotten(rc).due = 0 /\ Forgotten(rc).rc = rc
         /\ Forgotten(rc).kind = "start"
  <1>1. "idle" \in PCs /\ "start" \in Kinds /\ rc \in Codes \cup {NoCode}
    BY PcsAre DEF Kinds, Rcs
  <1>2. Idle \in Command
    BY <1>1, Numbers DEF Idle, Command
  <1>3. Idle.pc = "idle" /\ Idle.own = 0 /\ Idle.due = 0 /\ Idle.kind = "start"
    BY DEF Idle
  <1>4. Forgotten(rc) \in Command
    BY <1>1, <1>2 DEF Command, Forgotten
  <1>5. Forgotten(rc).rc = rc
    BY <1>2 DEF Command, Forgotten
  <1>6. /\ Forgotten(rc).pc = Idle.pc /\ Forgotten(rc).own = Idle.own
        /\ Forgotten(rc).due = Idle.due /\ Forgotten(rc).kind = Idle.kind
    BY <1>2 DEF Command, Forgotten
  <1>7. QED
    BY <1>3, <1>4, <1>5, <1>6

LEMMA ReturnIdles ==
  ASSUME TypeOK, NEW p \in Procs, NEW rc \in Rcs, Return(p, rc)
  PROVE  Idles(p, rc)
  <1> DEFINE c == Forgotten(rc)
  <1>1. proc' = [proc EXCEPT ![p] = c]
    BY DEF Return, Forgotten
  <1>2. /\ c \in Command /\ c.pc = "idle" /\ c.own = 0 /\ c.due = 0 /\ c.rc = rc
        /\ c.kind = "start"
    BY IdleFields
  <1> HIDE DEF c
  <1>3. Moves(p) /\ proc'[p] = c
    BY <1>1, <1>2, OneChanges
  <1>4. QED
    BY <1>2, <1>3 DEF Idles

LEMMA ToGoes ==
  ASSUME TypeOK, NEW p \in Procs, NEW pc \in PCs, To(p, pc)
  PROVE  Goes(p, pc, proc[p].rc, proc[p].seen, proc[p].down)
  <1> DEFINE c == [proc[p] EXCEPT !.pc = pc]
  <1>1. /\ c \in Command /\ c.pc = pc /\ c.rc = proc[p].rc /\ c.seen = proc[p].seen
        /\ c.down = proc[p].down /\ c.own = proc[p].own /\ c.due = proc[p].due
        /\ c.met = proc[p].met /\ c.kind = proc[p].kind
    BY DEF TypeOK, Command
  <1>2. proc' = [proc EXCEPT ![p] = c]
    BY DEF To
  <1> HIDE DEF c
  <1>3. Goes(p, c.pc, c.rc, c.seen, c.down)
    BY <1>1, <1>2, Goes5
  <1>4. QED
    BY <1>1, <1>3

LEMMA CodeGoes ==
  ASSUME TypeOK, NEW p \in Procs, NEW pc \in PCs, NEW rc \in Rcs,
         proc' = [proc EXCEPT ![p].pc = pc, ![p].rc = rc]
  PROVE  Goes(p, pc, rc, proc[p].seen, proc[p].down)
  <1> DEFINE c == [proc[p] EXCEPT !.pc = pc, !.rc = rc]
  <1>1. /\ c \in Command /\ c.pc = pc /\ c.rc = rc /\ c.seen = proc[p].seen
        /\ c.down = proc[p].down /\ c.own = proc[p].own /\ c.due = proc[p].due
        /\ c.met = proc[p].met /\ c.kind = proc[p].kind
    BY DEF TypeOK, Command, Rcs
  <1>2. proc' = [proc EXCEPT ![p] = c]
    BY DEF TypeOK
  <1> HIDE DEF c
  <1>3. Goes(p, c.pc, c.rc, c.seen, c.down)
    BY <1>1, <1>2, Goes5
  <1>4. QED
    BY <1>1, <1>3

LEMMA LeaveGoes ==
  ASSUME TypeOK, NEW p \in Procs, NEW rc \in Rcs, Leave(p, rc)
  PROVE  Goes(p, "over", rc, FALSE, FALSE)
  <1> DEFINE c == [proc[p] EXCEPT !.pc = "over", !.rc = rc, !.seen = FALSE,
                                  !.down = FALSE, !.n = 1]
  <1>0. proc[p] \in Command /\ "over" \in PCs /\ rc \in Codes \cup {NoCode}
    BY FieldsTyped, PcsAre DEF Rcs, Attaching
  <1>1. /\ c \in Command /\ c.pc = "over" /\ c.rc = rc /\ c.seen = FALSE
        /\ c.down = FALSE /\ c.own = proc[p].own /\ c.due = proc[p].due
        /\ c.met = proc[p].met /\ c.kind = proc[p].kind
    <2>1. c \in Command
      BY <1>0, Numbers DEF Command
    <2>2. c.pc = "over" /\ c.rc = rc /\ c.seen = FALSE /\ c.down = FALSE
      BY <1>0 DEF Command
    <2>3. /\ c.own = proc[p].own /\ c.due = proc[p].due /\ c.met = proc[p].met
          /\ c.kind = proc[p].kind
      BY <1>0 DEF Command
    <2>4. QED
      BY <2>1, <2>2, <2>3
  <1>2. proc' = [proc EXCEPT ![p] = c]
    BY DEF Leave
  <1> HIDE DEF c
  <1>3. Goes(p, c.pc, c.rc, c.seen, c.down)
    BY <1>1, <1>2, Goes5
  <1>4. QED
    BY <1>1, <1>3

LEMMA RetryGoes ==
  ASSUME TypeOK, NEW p \in Procs, proc' = [proc EXCEPT ![p] = Retry(proc[p])]
  PROVE  \/ Goes(p, "ready", proc[p].rc, proc[p].seen, proc[p].down)
         \/ \E rc \in Rcs \ {0} : Idles(p, rc) /\ (proc[p].rc # 0 => rc = proc[p].rc)
  <1>1. CASE proc[p].n < MaxAttempts
    <2>0. proc[p].n + 1 \in 1..MaxAttempts
      BY <1>1, FieldsTyped, AttemptsAssumption
    <2> DEFINE n == proc[p].n + 1
               c == [proc[p] EXCEPT !.pc = "ready", !.n = n]
    <2>2. proc' = [proc EXCEPT ![p] = c]
      BY <1>1 DEF Retry
    <2> HIDE DEF n
    <2>1. /\ c \in Command /\ c.pc = "ready" /\ c.rc = proc[p].rc /\ c.seen = proc[p].seen
          /\ c.down = proc[p].down /\ c.own = proc[p].own /\ c.due = proc[p].due
          /\ c.met = proc[p].met /\ c.kind = proc[p].kind
      <3>1. n \in 1..MaxAttempts
        BY <2>0 DEF n
      <3>2. QED
        BY <3>1, PcsAre DEF TypeOK, Command, Attaching
    <2> HIDE DEF c
    <2>3. Goes(p, c.pc, c.rc, c.seen, c.down)
      BY <2>1, <2>2, Goes5
    <2>4. QED
      BY <2>1, <2>3
  <1>2. CASE ~(proc[p].n < MaxAttempts)
    <2> DEFINE rc == IF proc[p].rc = 0 THEN Failed ELSE proc[p].rc
    <2>1. rc \in Rcs \ {0} /\ (proc[p].rc # 0 => rc = proc[p].rc)
      BY FieldsTyped, Numbers
    <2>2. proc' = [proc EXCEPT ![p] = [Idle EXCEPT !.rc = rc]]
      BY <1>2 DEF Retry
    <2> HIDE DEF rc
    <2>3. Idles(p, rc)
      BY <2>1, <2>2, ReturnIdles DEF Return
    <2>4. QED
      BY <2>1, <2>3
  <1>3. QED
    BY <1>1, <1>2

-----------------------------------------------------------------------------
(* Steps that leave the containers alone *)

\* What is to be shown of a step.
Good == IInv' /\ Kept /\ \A p \in Procs : Surfaces(p) /\ Leaves(p)

LEMMA OwnIsNumber ==
  ASSUME TypeOK
  PROVE  /\ used \in Nat /\ used <= MaxBoxes /\ box.id \in Nat
         /\ \A p \in Procs : proc[p].own \in Nat /\ proc[p].due \in Nat
  BY FieldsTyped, BoxTyped, BoxesAssumption DEF TypeOK

LEMMA SameKeeps ==
  ASSUME NEW q \in Procs, ProcInv(q), proc'[q] = proc[q], UNCHANGED Podman
  PROVE  ProcInv(q)'
  <1> USE DEF Podman
  <1>1. OwnInv(q)'
    BY DEF ProcInv, OwnInv
  <1>2. AttInv(q)'
    BY DEF ProcInv, AttInv
  <1>3. KindInv(q)'
    BY DEF ProcInv, KindInv
  <1>4. DueInv(q)'
    BY DEF Coded, ProcInv, DueInv, DueAt, TakenAway
  <1>5. MineInv(q)'
    BY DEF Coded, ProcInv, MineInv, MineAt, TakenAway
  <1>6. QED
    BY <1>1, <1>2, <1>3, <1>4, <1>5 DEF ProcInv

LEMMA IdleInv ==
  ASSUME NEW p \in Procs, NEW rc, Idles(p, rc), used' \in Nat
  PROVE  ProcInv(p)'
  <1> USE DEF Idles
  <1>1. OwnInv(p)'
    BY DEF OwnInv, Unlaunched
  <1>2. AttInv(p)'
    BY DEF AttInv, Tied, Attaching
  <1>3. KindInv(p)'
    BY DEF KindInv
  <1>4. DueInv(p)' /\ MineInv(p)'
    BY DEF DueInv, MineInv
  <1>5. QED
    BY <1>1, <1>2, <1>3, <1>4 DEF ProcInv

LEMMA ApartKeeps ==
  ASSUME Apart, NEW p \in Procs, Moves(p),
         proc'[p].own \in {0, proc[p].own}
  PROVE  Apart'
  BY DEF Apart, Moves

LEMMA OthersReturnNot ==
  ASSUME NEW p \in Procs, Moves(p), NEW q \in Procs \ {p}
  PROVE  Surfaces(q) /\ Leaves(q)
  BY DEF Moves, Surfaces, Leaves, Returns, At

LEMMA QuietStep ==
  ASSUME IInv, NEW p \in Procs, UNCHANGED Podman, lock' \in Procs \cup {NoProc},
         Moves(p), proc'[p].own \in {0, proc[p].own}, ProcInv(p)',
         Surfaces(p), Leaves(p)
  PROVE  Good
  <1>1. TypeOK'
    BY DEF IInv, TypeOK, Moves, Podman
  <1>2. BoxInv'
    BY DEF IInv, BoxInv, Podman
  <1>3. Apart'
    BY ApartKeeps DEF IInv
  <1>4. \A q \in Procs : ProcInv(q)'
    <2>1. ASSUME NEW q \in Procs \ {p} PROVE ProcInv(q)'
      BY <2>1, SameKeeps DEF IInv, Moves
    <2>2. QED
      BY <2>1
  <1>5. Kept
    BY DEF Kept, Podman, Live
  <1>6. \A q \in Procs : Surfaces(q) /\ Leaves(q)
    BY OthersReturnNot
  <1>7. IInv'
    BY <1>1, <1>2, <1>3, <1>4 DEF IInv
  <1>8. QED
    BY <1>5, <1>6, <1>7 DEF Good

\* A command goes on.
LEMMA QuietGoes ==
  ASSUME IInv, NEW p \in Procs, UNCHANGED Podman, lock' \in Procs \cup {NoProc},
         NEW pc \in PCs \ {"idle"}, NEW rc, NEW seen, NEW down,
         Goes(p, pc, rc, seen, down), ProcInv(p)'
  PROVE  Good
  <1>1. Surfaces(p) /\ Leaves(p)
    BY DEF Goes, Surfaces, Leaves, Returns, At
  <1>2. QED
    BY <1>1, QuietStep DEF Goes, Same

\* A command ends.
LEMMA QuietEnds ==
  ASSUME IInv, NEW p \in Procs, UNCHANGED Podman, lock' \in Procs \cup {NoProc},
         NEW rc, Idles(p, rc), Surfaces(p), Leaves(p)
  PROVE  Good
  <1>1. used' \in Nat
    BY OwnIsNumber DEF IInv, Podman
  <1>2. ProcInv(p)'
    BY <1>1, IdleInv
  <1>3. QED
    BY <1>2, QuietStep DEF Idles

\* Nothing is owed before an attach.
LEMMA Owed ==
  ASSUME NEW p \in Procs, ProcInv(p)
  PROVE  /\ proc[p].pc \in Unlaunched => proc[p].own = 0
         /\ proc[p].pc \notin {"judge", "session", "await", "code", "logs", "over", "remove"}
            /\ proc[p].due # 0 => TakenAway(proc[p].due, p)
         /\ proc[p].pc \notin ({"idle"} \cup (Stopping \ {"check"})) => proc[p].kind # "stop"
  BY DEF ProcInv, OwnInv, DueInv, DueAt, KindInv, Coded

-----------------------------------------------------------------------------
(* Attaching *)

LEMMA DetachStep ==
  ASSUME IInv, NEW p \in Procs, Detach(p)
  PROVE  Good
  <1>1. TypeOK /\ ProcInv(p)
    BY DEF IInv
  <1>2. /\ proc[p].pc = "attached" /\ box.st = "up" /\ UNCHANGED Podman
        /\ lock' \in Procs \cup {NoProc} /\ "judge" \in PCs
    BY <1>1, PcsAre DEF Detach, At, Running, TypeOK, Attaching
  <1>3. Goes(p, "judge", 0, proc[p].seen, proc[p].down)
    BY <1>1, <1>2, CodeGoes, Numbers DEF Detach
  <1>4. ProcInv(p)'
    BY <1>1, <1>2, <1>3
       DEF ProcInv, OwnInv, AttInv, KindInv, DueInv, MineInv, Podman, Goes, Same, TakenAway,
           Unlaunched, Stopping
  <1>5. QED
    BY <1>2, <1>3, <1>4, QuietGoes


\* A command returns that owes nothing for a box: what ended under it was taken away,
\* and it is no start that hides how the box it created ended.
LEMMA MayReturn ==
  ASSUME IInv, NEW p \in Procs, UNCHANGED Podman, NEW rc, Idles(p, rc),
         proc[p].pc \notin {"judge", "session", "await", "code", "logs", "over", "remove"},
         proc[p].kind # "stop",
         \/ proc[p].kind \notin ForIt \/ proc[p].own = 0 \/ proc[p].met = TRUE \/ rc # 0
         \/ TakenAway(proc[p].own, p)
  PROVE  Surfaces(p) /\ Leaves(p)
  <1>1. ProcInv(p) /\ BoxInv /\ TypeOK
    BY DEF IInv
  <1>2. proc[p].due # 0 => TakenAway(proc[p].due, p) /\ proc[p].due # box.id
    <2>1. proc[p].due # 0 => TakenAway(proc[p].due, p)
      BY <1>1, Owed
    <2>2. proc[p].due # 0 => proc[p].due \in Ids
      BY <1>1, FieldsTyped, BoxesAssumption DEF Ids
    <2>3. QED
      BY <2>1, <2>2, <1>1 DEF TakenAway, BoxInv
  <1>3. QED
    BY <1>1, <1>2, FieldsTyped DEF Surfaces, Leaves, Idles, Podman

LEMMA SessionStep ==
  ASSUME IInv, NEW p \in Procs, Session(p)
  PROVE  Good
  <1>1. TypeOK /\ ProcInv(p) /\ BoxInv
    BY DEF IInv
  <1>2. /\ proc[p].pc = "session" /\ UNCHANGED Podman /\ lock' \in Procs \cup {NoProc}
    BY <1>1 DEF Session, At, TypeOK
  <1>3. CASE HasSession
    <2>1. "lost" \in PCs \ {"idle"}
      BY PcsAre DEF Attaching, Launching, Ephemeral, Stopping
    <2>2. Goes(p, "lost", proc[p].rc, proc[p].seen, proc[p].down)
      BY <1>3, <1>1, <1>2, <2>1, ToGoes, FieldsTyped, Numbers DEF Session
    <2>3. ProcInv(p)'
      BY <1>3, <1>1, <1>2, <2>2
         DEF Coded, ProcInv, OwnInv, AttInv, KindInv, DueInv, MineInv, MineAt, Podman, Goes,
             Same, TakenAway, Unlaunched, Stopping, Tied, Attaching, HasSession
    <2>4. QED
      BY <1>2, <2>1, <2>2, <2>3, QuietGoes
  <1>4. CASE ~HasSession /\ proc[p].down
    <2>1. "code" \in PCs \ {"idle"}
      BY PcsAre DEF Attaching, Launching, Ephemeral, Stopping
    <2>2. Goes(p, "code", proc[p].rc, proc[p].seen, proc[p].down)
      BY <1>4, <1>1, <1>2, <2>1, ToGoes, FieldsTyped, Numbers DEF Session
    <2>3. ProcInv(p)'
      BY <1>4, <1>1, <1>2, <2>2
         DEF Coded, ProcInv, OwnInv, AttInv, KindInv, DueInv, DueAt, MineInv, MineAt, Podman,
             Goes, Same, TakenAway, Unlaunched, Stopping, Tied, Attaching
    <2>4. QED
      BY <1>2, <2>1, <2>2, <2>3, QuietGoes
  <1>5. CASE ~HasSession /\ ~proc[p].down
    <2>1. "await" \in PCs \ {"idle"}
      BY PcsAre DEF Attaching, Launching, Ephemeral, Stopping
    <2>2. Goes(p, "await", proc[p].rc, proc[p].seen, proc[p].down)
      BY <1>5, <1>1, <1>2, <2>1, ToGoes, FieldsTyped, Numbers DEF Session
    <2>3. ProcInv(p)'
      BY <1>5, <1>1, <1>2, <2>2
         DEF Coded, ProcInv, OwnInv, AttInv, KindInv, DueInv, DueAt, MineInv, MineAt, Podman,
             Goes, Same, TakenAway, Unlaunched, Stopping, Tied, Attaching
    <2>4. QED
      BY <1>2, <2>1, <2>2, <2>3, QuietGoes
  <1>6. QED
    BY <1>3, <1>4, <1>5 DEF Session

LEMMA AwaitStep ==
  ASSUME IInv, NEW p \in Procs, Await(p)
  PROVE  Good
  <1>1. TypeOK /\ ProcInv(p) /\ BoxInv
    BY DEF IInv
  <1>2. /\ proc[p].pc = "await" /\ UNCHANGED Podman /\ lock' \in Procs \cup {NoProc}
    BY <1>1 DEF Await, At, TypeOK
  <1>3. CASE ~Running /\ To(p, "code")
    <2>1. "code" \in PCs \ {"idle"}
      BY PcsAre DEF Attaching, Launching, Ephemeral, Stopping
    <2>2. Goes(p, "code", proc[p].rc, proc[p].seen, proc[p].down)
      BY <1>3, <1>1, <1>2, <2>1, ToGoes, FieldsTyped, Numbers
    <2>3. ProcInv(p)'
      BY <1>3, <1>1, <1>2, <2>2
         DEF Coded, ProcInv, OwnInv, AttInv, KindInv, DueInv, DueAt, MineInv, MineAt, Podman,
             Goes, Same, TakenAway, Unlaunched, Stopping, Tied, Attaching, Running
    <2>4. QED
      BY <1>2, <2>1, <2>2, <2>3, QuietGoes
  <1>4. CASE Running /\ box.sess # "ended" /\ To(p, "lost")
    <2>1. "lost" \in PCs \ {"idle"}
      BY PcsAre DEF Attaching, Launching, Ephemeral, Stopping
    <2>2. Goes(p, "lost", proc[p].rc, proc[p].seen, proc[p].down)
      BY <1>4, <1>1, <1>2, <2>1, ToGoes, FieldsTyped, Numbers
    <2>3. ProcInv(p)'
      BY <1>4, <1>1, <1>2, <2>2
         DEF Coded, ProcInv, OwnInv, AttInv, KindInv, DueInv, MineInv, MineAt, Podman, Goes,
             Same, TakenAway, Unlaunched, Stopping, Tied, Attaching
    <2>4. QED
      BY <1>2, <2>1, <2>2, <2>3, QuietGoes
  <1>5. QED
    BY <1>3, <1>4 DEF Await

LEMMA SeenStep ==
  ASSUME IInv, NEW p \in Procs, Seen(p)
  PROVE  Good
  <1>1. TypeOK /\ ProcInv(p) /\ BoxInv
    BY DEF IInv
  <1>2. /\ proc[p].pc = "seen" /\ UNCHANGED Podman /\ lock' \in Procs \cup {NoProc}
    BY <1>1 DEF Seen, At, TypeOK
  <1>3. HasSession \in BOOLEAN /\ "attach" \in PCs \ {"idle"}
    BY PcsAre DEF HasSession, Running, Attaching
  <1> DEFINE seen == HasSession
             c == [proc[p] EXCEPT !.pc = "attach", !.seen = seen]
  <1>4. proc' = [proc EXCEPT ![p] = c]
    BY <1>1 DEF Seen, TypeOK
  <1>5. seen \in BOOLEAN
    BY <1>3
  <1> HIDE DEF seen
  <1>6. /\ c \in Command /\ c.pc = "attach" /\ c.rc = proc[p].rc /\ c.seen = seen
        /\ c.down = proc[p].down /\ c.own = proc[p].own /\ c.due = proc[p].due
        /\ c.met = proc[p].met /\ c.kind = proc[p].kind
    BY <1>1, <1>3, <1>5 DEF TypeOK, Command
  <1> HIDE DEF c
  <1>7. Goes(p, "attach", proc[p].rc, seen, proc[p].down)
    <2>1. Goes(p, c.pc, c.rc, c.seen, c.down)
      BY <1>1, <1>4, <1>6, Goes5
    <2>2. QED
      BY <2>1, <1>6
  <1>8. ProcInv(p)'
    BY <1>1, <1>2, <1>7
       DEF Coded, ProcInv, OwnInv, AttInv, KindInv, DueInv, DueAt, MineInv, MineAt, Podman,
           Goes, Same, TakenAway, Unlaunched, Stopping, Tied, Attaching
  <1>9. QED
    BY <1>2, <1>3, <1>7, <1>8, QuietGoes

LEMMA JudgeStep ==
  ASSUME IInv, NEW p \in Procs, Judge(p)
  PROVE  Good
  <1>1. TypeOK /\ ProcInv(p) /\ BoxInv
    BY DEF IInv
  <1>2. /\ proc[p].pc = "judge" /\ UNCHANGED Podman /\ lock' \in Procs \cup {NoProc}
    BY <1>1 DEF Judge, At, TypeOK
  <1> DEFINE known == proc[p].rc = 0 \/ proc[p].seen
  <1>3. CASE ~known /\ Running
    <2>1. "lost" \in PCs \ {"idle"}
      BY PcsAre DEF Attaching, Launching, Ephemeral, Stopping
    <2>2. Goes(p, "lost", proc[p].rc, proc[p].seen, proc[p].down)
      BY <1>3, <1>1, <1>2, <2>1, ToGoes, FieldsTyped, Numbers DEF Judge
    <2>3. ProcInv(p)'
      BY <1>3, <1>1, <1>2, <2>2
         DEF Coded, ProcInv, OwnInv, AttInv, KindInv, DueInv, DueAt, MineInv, MineAt, Podman,
             Goes, Same, TakenAway, Unlaunched, Stopping, Attaching, Running
    <2>4. QED
      BY <1>2, <2>1, <2>2, <2>3, QuietGoes
  <1>4. CASE known \/ ~Running
    <2> DEFINE down == ~known
               c == [proc[p] EXCEPT !.pc = "session", !.down = down]
    <2>1. proc' = [proc EXCEPT ![p] = c]
      BY <1>1, <1>4 DEF Judge, TypeOK
    <2>2. down \in BOOLEAN /\ (down = TRUE => ~Running /\ proc[p].rc # 0 /\ proc[p].seen = FALSE)
      BY <1>1, <1>4, FieldsTyped
    <2> HIDE DEF down, known
    <2>3. "session" \in PCs \ {"idle"}
      BY PcsAre DEF Attaching
    <2>4. /\ c \in Command /\ c.pc = "session" /\ c.rc = proc[p].rc /\ c.seen = proc[p].seen
          /\ c.down = down /\ c.own = proc[p].own /\ c.due = proc[p].due
          /\ c.met = proc[p].met /\ c.kind = proc[p].kind
      BY <1>1, <2>2, <2>3 DEF TypeOK, Command
    <2> HIDE DEF c
    <2>5. Goes(p, "session", proc[p].rc, proc[p].seen, down)
      <3>1. Goes(p, c.pc, c.rc, c.seen, c.down)
        BY <1>1, <2>1, <2>4, Goes5
      <3>2. QED
        BY <3>1, <2>4
    <2>6. ProcInv(p)'
      BY <1>1, <1>2, <2>2, <2>5
         DEF Coded, ProcInv, OwnInv, AttInv, KindInv, DueInv, DueAt, MineInv, MineAt, Podman,
             Goes, Same, TakenAway, Unlaunched, Stopping, Tied, Attaching, Running
    <2>7. QED
      BY <1>2, <2>3, <2>5, <2>6, QuietGoes
  <1>5. QED
    BY <1>3, <1>4 DEF Judge

LEMMA CodeStep ==
  ASSUME IInv, NEW p \in Procs, Code(p)
  PROVE  Good
  <1>1. TypeOK /\ ProcInv(p) /\ BoxInv
    BY DEF IInv
  <1>2. /\ proc[p].pc = "code" /\ UNCHANGED Podman /\ lock' \in Procs \cup {NoProc}
    BY <1>1 DEF Code, At, TypeOK
  <1> DEFINE rc == IF ExitCode = NoCode THEN proc[p].rc ELSE ExitCode
  <1>3. rc \in Rcs
    BY <1>1, FieldsTyped, BoxTyped, Numbers DEF ExitCode, Rcs
  <1>4. box.st = "exited" => rc = box.code
    BY <1>1, BoxTyped, Numbers DEF ExitCode, Exists
  <1>5. Leave(p, rc) \/ proc' = [proc EXCEPT ![p].pc = "logs", ![p].rc = rc]
    BY DEF Code
  <1>8. {"over", "logs"} \subseteq PCs \ {"idle"}
    BY PcsAre DEF Attaching
  <1> HIDE DEF rc
  <1>6. PICK pc \in {"over", "logs"} : \E seen, down : Goes(p, pc, rc, seen, down)
    BY <1>1, <1>3, <1>5, <1>8, LeaveGoes, CodeGoes
  <1>7. ProcInv(p)'
    BY <1>1, <1>2, <1>4, <1>6
       DEF ProcInv, OwnInv, AttInv, KindInv, DueInv, DueAt, MineInv, MineAt, Coded, Podman,
           Goes, Same, TakenAway, Unlaunched, Stopping, Tied, Attaching, BoxInv
  <1>9. QED
    BY <1>2, <1>6, <1>7, <1>8, QuietGoes

LEMMA LogsStep ==
  ASSUME IInv, NEW p \in Procs, Logs(p)
  PROVE  Good
  <1>1. TypeOK /\ ProcInv(p)
    BY DEF IInv
  <1>2. /\ proc[p].pc = "logs" /\ UNCHANGED Podman /\ lock' \in Procs \cup {NoProc}
        /\ proc[p].kind # "stop"
    BY <1>1, Owed DEF Logs, At, TypeOK, Stopping
  <1>3. CASE Leave(p, proc[p].rc)
    <2>1. "over" \in PCs \ {"idle"}
      BY PcsAre DEF Attaching
    <2>2. Goes(p, "over", proc[p].rc, FALSE, FALSE)
      BY <1>3, <1>1, LeaveGoes, FieldsTyped
    <2>3. ProcInv(p)'
      BY <1>1, <1>2, <2>2
         DEF ProcInv, OwnInv, AttInv, KindInv, DueInv, DueAt, MineInv, MineAt, Coded, Podman,
             Goes, Same, TakenAway, Unlaunched, Stopping, Tied, Attaching
    <2>4. QED
      BY <1>2, <2>1, <2>2, <2>3, QuietGoes
  <1>4. CASE Return(p, Failed)
    <2>1. Idles(p, Failed)
      BY <1>4, <1>1, ReturnIdles, Numbers
    <2>2. Surfaces(p) /\ Leaves(p)
      BY <1>2, <2>1, Numbers DEF Surfaces, Leaves, SetupFailed, At, Idles
    <2>3. QED
      BY <1>2, <2>1, <2>2, QuietEnds
  <1>5. QED
    BY <1>3, <1>4 DEF Logs

LEMMA AfterStep ==
  ASSUME IInv, NEW p \in Procs, After(p)
  PROVE  Good
  <1>1. TypeOK /\ ProcInv(p) /\ BoxInv
    BY DEF IInv
  <1>2. /\ proc[p].pc = "after" /\ UNCHANGED Podman /\ lock' \in Procs \cup {NoProc}
    BY <1>1 DEF After, At, TypeOK
  <1>3. CASE Running
    <2>1. "over" \in PCs \ {"idle"}
      BY PcsAre DEF Attaching, Launching, Ephemeral, Stopping
    <2>2. Goes(p, "over", proc[p].rc, FALSE, FALSE)
      BY <1>3, <1>1, <1>2, <2>1, LeaveGoes, FieldsTyped, Numbers DEF After
    <2>3. ProcInv(p)'
      BY <1>3, <1>1, <1>2, <2>2
         DEF Coded, ProcInv, OwnInv, AttInv, KindInv, DueInv, DueAt, MineInv, MineAt, Podman,
             Goes, Same, TakenAway, Unlaunched, Stopping, Tied
    <2>4. QED
      BY <1>2, <2>1, <2>2, <2>3, QuietGoes
  <1>4. CASE ~Running
    <2>1. "code" \in PCs \ {"idle"}
      BY PcsAre DEF Attaching, Launching, Ephemeral, Stopping
    <2>2. Goes(p, "code", proc[p].rc, proc[p].seen, proc[p].down)
      BY <1>4, <1>1, <1>2, <2>1, ToGoes, FieldsTyped, Numbers DEF After
    <2>3. ProcInv(p)'
      BY <1>4, <1>1, <1>2, <2>2
         DEF Coded, ProcInv, OwnInv, AttInv, KindInv, DueInv, DueAt, MineInv, MineAt, Podman,
             Goes, Same, TakenAway, Unlaunched, Stopping, Tied, Attaching
    <2>4. QED
      BY <1>2, <2>1, <2>2, <2>3, QuietGoes
  <1>5. QED
    BY <1>3, <1>4 DEF After

LEMMA OverStep ==
  ASSUME IInv, NEW p \in Procs, Over(p)
  PROVE  Good
  <1>1. TypeOK /\ ProcInv(p) /\ BoxInv
    BY DEF IInv
  <1>2. /\ proc[p].pc = "over" /\ UNCHANGED Podman /\ lock' \in Procs \cup {NoProc}
    BY <1>1 DEF Over, At, TypeOK
  <1>3. CASE Running
    <2>1. Idles(p, proc[p].rc)
      BY <1>3, <1>1, ReturnIdles, FieldsTyped DEF Over
    <2>2. proc[p].due # 0 => TakenAway(proc[p].due, p) /\ proc[p].due # box.id
      <3>1. proc[p].due # 0 => TakenAway(proc[p].due, p)
        BY <1>1, <1>2, <1>3 DEF Coded, ProcInv, DueInv, DueAt, Running
      <3>2. proc[p].due # 0 => proc[p].due \in Ids
        BY <1>1, FieldsTyped, BoxesAssumption DEF Ids
      <3>3. QED
        BY <3>1, <3>2, <1>1 DEF TakenAway, BoxInv
    <2>3. Surfaces(p) /\ Leaves(p)
      BY <1>1, <1>2, <1>3, <2>1, <2>2
         DEF Coded, Surfaces, Leaves, Idles, ProcInv, MineInv, MineAt, KindInv, Stopping,
             Running, Podman
    <2>4. QED
      BY <1>2, <2>1, <2>3, QuietEnds
  <1>4. CASE ~Running
    <2>1. "remove" \in PCs \ {"idle"}
      BY PcsAre DEF Attaching, Launching, Ephemeral, Stopping
    <2>2. Goes(p, "remove", proc[p].rc, proc[p].seen, proc[p].down)
      BY <1>4, <1>1, <1>2, <2>1, ToGoes, FieldsTyped, Numbers DEF Over
    <2>3. ProcInv(p)'
      BY <1>4, <1>1, <1>2, <2>2
         DEF Coded, ProcInv, OwnInv, AttInv, KindInv, DueInv, DueAt, MineInv, MineAt, Podman,
             Goes, Same, TakenAway, Unlaunched, Stopping, Tied, Attaching
    <2>4. QED
      BY <1>2, <2>1, <2>2, <2>3, QuietGoes
  <1>5. QED
    BY <1>3, <1>4 DEF Over

LEMMA ReadyStep ==
  ASSUME IInv, NEW p \in Procs, Ready(p)
  PROVE  Good
  <1>1. TypeOK /\ ProcInv(p) /\ BoxInv
    BY DEF IInv
  <1>2. /\ proc[p].pc = "ready" /\ UNCHANGED Podman /\ lock' \in Procs \cup {NoProc}
    BY <1>1 DEF Ready, At, TypeOK
  <1>3. CASE Running /\ To(p, "seen")
    <2>1. "seen" \in PCs \ {"idle"}
      BY PcsAre DEF Attaching, Launching, Ephemeral, Stopping
    <2>2. Goes(p, "seen", proc[p].rc, proc[p].seen, proc[p].down)
      BY <1>3, <1>1, <1>2, <2>1, ToGoes, FieldsTyped, Numbers
    <2>3. ProcInv(p)'
      BY <1>3, <1>1, <1>2, <2>2
         DEF Coded, ProcInv, OwnInv, AttInv, KindInv, DueInv, DueAt, MineInv, MineAt, Podman,
             Goes, Same, TakenAway, Unlaunched, Stopping, Tied, Attaching
    <2>4. QED
      BY <1>2, <2>1, <2>2, <2>3, QuietGoes
  <1>4. CASE ~Running /\ proc' = [proc EXCEPT ![p].pc = "code", ![p].rc = Failed]
    <2>1. "code" \in PCs \ {"idle"}
      BY PcsAre DEF Attaching, Launching, Ephemeral, Stopping
    <2>2. Goes(p, "code", Failed, proc[p].seen, proc[p].down)
      BY <1>4, <1>1, <1>2, <2>1, CodeGoes, FieldsTyped, Numbers
    <2>3. ProcInv(p)'
      BY <1>4, <1>1, <1>2, <2>2
         DEF Coded, ProcInv, OwnInv, AttInv, KindInv, DueInv, DueAt, MineInv, MineAt, Podman,
             Goes, Same, TakenAway, Unlaunched, Stopping, Tied, Attaching, Running
    <2>4. QED
      BY <1>2, <2>1, <2>2, <2>3, QuietGoes
  <1>5. CASE Running /\ proc' = [proc EXCEPT ![p] = Retry(proc[p])]
    <2>1. CASE Goes(p, "ready", proc[p].rc, proc[p].seen, proc[p].down)
      <3>1. ProcInv(p)'
        BY <1>5, <1>1, <1>2, <2>1
           DEF Coded, ProcInv, OwnInv, AttInv, KindInv, DueInv, DueAt, MineInv, MineAt,
               Podman, Goes, Same, TakenAway
      <3>2. "ready" \in PCs \ {"idle"}
        BY PcsAre DEF Attaching
      <3>3. QED
        BY <1>2, <2>1, <3>1, <3>2, QuietGoes
    <2>2. ASSUME NEW rc \in Rcs \ {0}, Idles(p, rc) PROVE Good
      <3>1. Surfaces(p) /\ Leaves(p)
        BY <1>1, <1>2, <2>2, MayReturn DEF ProcInv, KindInv, Stopping
      <3>2. QED
        BY <1>2, <2>2, <3>1, QuietEnds
    <2>3. QED
      BY <1>5, <1>1, <2>1, <2>2, RetryGoes
  <1>6. QED
    BY <1>3, <1>4, <1>5 DEF Ready

LEMMA LostStep ==
  ASSUME IInv, NEW p \in Procs, Lost(p)
  PROVE  Good
  <1>1. TypeOK /\ ProcInv(p) /\ BoxInv
    BY DEF IInv
  <1>2. /\ proc[p].pc = "lost" /\ UNCHANGED Podman /\ lock' \in Procs \cup {NoProc}
    BY <1>1 DEF Lost, At, TypeOK
  <1>3. CASE Leave(p, proc[p].rc)
    <2>1. "over" \in PCs \ {"idle"}
      BY PcsAre DEF Attaching, Launching, Ephemeral, Stopping
    <2>2. Goes(p, "over", proc[p].rc, FALSE, FALSE)
      BY <1>3, <1>1, <1>2, <2>1, LeaveGoes, FieldsTyped, Numbers
    <2>3. ProcInv(p)'
      BY <1>3, <1>1, <1>2, <2>2, Numbers
         DEF Coded, ProcInv, OwnInv, AttInv, KindInv, DueInv, DueAt, MineInv, MineAt, Podman,
             Goes, Same, TakenAway, Unlaunched, Stopping, Tied, Attaching
    <2>4. QED
      BY <1>2, <2>1, <2>2, <2>3, QuietGoes
  <1>4. CASE proc[p].rc = 0 /\ To(p, "after")
    <2>1. "after" \in PCs \ {"idle"}
      BY PcsAre DEF Attaching, Launching, Ephemeral, Stopping
    <2>2. Goes(p, "after", proc[p].rc, proc[p].seen, proc[p].down)
      BY <1>4, <1>1, <1>2, <2>1, ToGoes, FieldsTyped, Numbers
    <2>3. ProcInv(p)'
      BY <1>4, <1>1, <1>2, <2>2, Numbers
         DEF Coded, ProcInv, OwnInv, AttInv, KindInv, DueInv, DueAt, MineInv, MineAt, Podman,
             Goes, Same, TakenAway, Unlaunched, Stopping, Tied, Attaching
    <2>4. QED
      BY <1>2, <2>1, <2>2, <2>3, QuietGoes
  <1>5. CASE ~Running /\ To(p, "code")
    <2>1. "code" \in PCs \ {"idle"}
      BY PcsAre DEF Attaching, Launching, Ephemeral, Stopping
    <2>2. Goes(p, "code", proc[p].rc, proc[p].seen, proc[p].down)
      BY <1>5, <1>1, <1>2, <2>1, ToGoes, FieldsTyped, Numbers
    <2>3. ProcInv(p)'
      BY <1>5, <1>1, <1>2, <2>2
         DEF Coded, ProcInv, OwnInv, AttInv, KindInv, DueInv, DueAt, MineInv, MineAt, Podman,
             Goes, Same, TakenAway, Unlaunched, Stopping, Tied, Attaching, Running
    <2>4. QED
      BY <1>2, <2>1, <2>2, <2>3, QuietGoes
  <1>6. CASE Running /\ proc' = [proc EXCEPT ![p] = Retry(proc[p])]
    <2>1. CASE Goes(p, "ready", proc[p].rc, proc[p].seen, proc[p].down)
      <3>1. ProcInv(p)'
        BY <1>6, <1>1, <1>2, <2>1
           DEF Coded, ProcInv, OwnInv, AttInv, KindInv, DueInv, DueAt, MineInv, MineAt,
               Podman, Goes, Same, TakenAway, Unlaunched, Stopping, Tied, Attaching
      <3>2. "ready" \in PCs \ {"idle"}
        BY PcsAre DEF Attaching
      <3>3. QED
        BY <1>2, <2>1, <3>1, <3>2, QuietGoes
    <2>2. ASSUME NEW rc \in Rcs \ {0}, Idles(p, rc) PROVE Good
      <3>1. Surfaces(p) /\ Leaves(p)
        BY <1>1, <1>2, <2>2, MayReturn DEF ProcInv, KindInv, Stopping
      <3>2. QED
        BY <1>2, <2>2, <3>1, QuietEnds
    <2>3. QED
      BY <1>6, <1>1, <2>1, <2>2, RetryGoes
  <1>7. QED
    BY <1>3, <1>4, <1>5, <1>6 DEF Lost

LEMMA AttachStep ==
  ASSUME IInv, NEW p \in Procs, Attach(p)
  PROVE  Good
  <1>1. TypeOK /\ ProcInv(p) /\ BoxInv
    BY DEF IInv
  <1>2. /\ proc[p].pc = "attach" /\ UNCHANGED Podman /\ lock' \in Procs \cup {NoProc}
    BY <1>1 DEF Attach, At, TypeOK
  <1>3. CASE ~HasSession
    <2>1. "judge" \in PCs \ {"idle"}
      BY PcsAre DEF Attaching, Launching, Ephemeral, Stopping
    <2>2. Goes(p, "judge", Failed, proc[p].seen, proc[p].down)
      BY <1>3, <1>1, <1>2, <2>1, CodeGoes, FieldsTyped, Numbers DEF Attach
    <2>3. ProcInv(p)'
      BY <1>3, <1>1, <1>2, <2>2
         DEF Coded, ProcInv, OwnInv, AttInv, KindInv, DueInv, DueAt, MineInv, MineAt, Podman,
             Goes, Same, TakenAway, Unlaunched, Stopping, Tied, Attaching
    <2>4. QED
      BY <1>2, <2>1, <2>2, <2>3, QuietGoes
  <1>4. CASE HasSession
    <2> DEFINE c == [proc[p] EXCEPT !.pc = "attached", !.met = TRUE]
    <2>1. proc' = [proc EXCEPT ![p] = c]
      BY <1>1, <1>4 DEF Attach, TypeOK
    <2>2. /\ c \in Command /\ c.pc = "attached" /\ c.own = proc[p].own /\ c.due = proc[p].due
          /\ c.met = TRUE /\ c.kind = proc[p].kind
      BY <1>1, PcsAre DEF TypeOK, Command, Attaching
    <2> HIDE DEF c
    <2>3. /\ Moves(p) /\ proc'[p].pc = "attached" /\ proc'[p].own = proc[p].own
          /\ proc'[p].due = proc[p].due /\ proc'[p].met = TRUE /\ proc'[p].kind = proc[p].kind
      BY <1>1, <2>1, <2>2, OneChanges
    <2>4. ProcInv(p)'
      BY <1>1, <1>2, <1>4, <2>3
         DEF ProcInv, OwnInv, AttInv, KindInv, DueInv, MineInv, Podman, Goes, Same, TakenAway,
             Unlaunched, Stopping, HasSession, Running
    <2>5. Surfaces(p) /\ Leaves(p)
      BY <2>3 DEF Surfaces, Leaves, Returns, At
    <2>6. QED
      BY <1>2, <2>3, <2>4, <2>5, QuietStep
  <1>5. QED
    BY <1>3, <1>4 DEF Attach

-----------------------------------------------------------------------------
(* Launching and stopping, where the containers are left alone *)

LEMMA BeginStep ==
  ASSUME IInv, NEW p \in Procs, NEW kind \in Kinds, Begin(p, kind)
  PROVE  Good
  <1>1. TypeOK /\ ProcInv(p) /\ BoxInv
    BY DEF IInv
  <1>2. /\ proc[p].pc = "idle" /\ UNCHANGED Podman /\ lock' \in Procs \cup {NoProc}
    BY <1>1 DEF Begin, At, TypeOK
  <1> DEFINE pc == IF kind = "stop" THEN "live" ELSE "look"
             c == [Idle EXCEPT !.pc = pc, !.kind = kind]
  <1>3. proc' = [proc EXCEPT ![p] = c]
    BY DEF Begin
  <1>4. pc \in PCs
    BY PcsAre DEF Launching, Stopping
  <1>5. pc \in {"live", "look"} /\ (kind = "stop" => pc = "live")
    OBVIOUS
  <1> HIDE DEF pc
  <1>6. /\ c \in Command /\ c.pc = pc /\ c.own = 0 /\ c.due = 0 /\ c.kind = kind
    BY <1>4, Numbers DEF Command, Idle
  <1> HIDE DEF c
  <1>7. Moves(p) /\ proc'[p].pc = pc /\ proc'[p].own = 0 /\ proc'[p].due = 0 /\ proc'[p].kind = kind
    BY <1>1, <1>3, <1>6, OneChanges
  <1>8. ProcInv(p)'
    BY <1>1, <1>2, <1>5, <1>7, OwnIsNumber
       DEF ProcInv, OwnInv, AttInv, KindInv, DueInv, MineInv, Podman, Stopping, Tied, Attaching
  <1>9. Surfaces(p) /\ Leaves(p)
    BY <1>5, <1>7 DEF Surfaces, Leaves, Returns, At
  <1>10. QED
    BY <1>2, <1>7, <1>8, <1>9, QuietStep

LEMMA LookStep ==
  ASSUME IInv, NEW p \in Procs, Look(p)
  PROVE  Good
  <1>1. TypeOK /\ ProcInv(p) /\ BoxInv
    BY DEF IInv
  <1>2. /\ proc[p].pc = "look" /\ UNCHANGED Podman /\ lock' \in Procs \cup {NoProc}
    BY <1>1 DEF Look, At, TypeOK
  <1>3. CASE proc[p].kind = "restart" /\ To(p, "live")
    <2>1. "live" \in PCs \ {"idle"}
      BY PcsAre DEF Attaching, Launching, Ephemeral, Stopping
    <2>2. Goes(p, "live", proc[p].rc, proc[p].seen, proc[p].down)
      BY <1>3, <1>1, <1>2, <2>1, ToGoes, FieldsTyped, Numbers
    <2>3. ProcInv(p)'
      BY <1>3, <1>1, <1>2, <2>2
         DEF Coded, ProcInv, OwnInv, AttInv, KindInv, DueInv, DueAt, MineInv, Podman, Goes,
             Same, TakenAway, Unlaunched, Tied, Attaching
    <2>4. QED
      BY <1>2, <2>1, <2>2, <2>3, QuietGoes
  <1>4. CASE proc[p].kind = "restart" /\ proc' = [proc EXCEPT ![p].kind = "start"]
    <2> DEFINE c == [proc[p] EXCEPT !.kind = "start"]
    <2>1. proc' = [proc EXCEPT ![p] = c]
      BY <1>4, <1>1 DEF TypeOK
    <2>2. /\ c \in Command /\ c.pc = "look" /\ c.own = proc[p].own /\ c.due = proc[p].due
          /\ c.kind = "start"
      BY <1>1, <1>2 DEF TypeOK, Command, Kinds
    <2> HIDE DEF c
    <2>3. /\ Moves(p) /\ proc'[p].pc = "look" /\ proc'[p].own = proc[p].own
          /\ proc'[p].due = proc[p].due /\ proc'[p].kind = "start"
      BY <1>1, <2>1, <2>2, OneChanges
    <2>4. ProcInv(p)'
      BY <1>1, <1>2, <2>3
         DEF Coded, ProcInv, OwnInv, AttInv, KindInv, DueInv, DueAt, MineInv, Podman,
             Unlaunched, TakenAway
    <2>5. Surfaces(p) /\ Leaves(p)
      BY <2>3 DEF Surfaces, Leaves, Returns, At
    <2>6. QED
      BY <1>2, <2>3, <2>4, <2>5, QuietStep
  <1>5. CASE Running /\ proc' = [proc EXCEPT ![p].pc = "seen", ![p].re = TRUE]
    <2> DEFINE c == [proc[p] EXCEPT !.pc = "seen", !.re = TRUE]
    <2>1. proc' = [proc EXCEPT ![p] = c]
      BY <1>5, <1>1 DEF TypeOK
    <2>2. /\ c \in Command /\ c.pc = "seen" /\ c.rc = proc[p].rc /\ c.seen = proc[p].seen
          /\ c.down = proc[p].down /\ c.own = proc[p].own /\ c.due = proc[p].due
          /\ c.met = proc[p].met /\ c.kind = proc[p].kind
      BY <1>1, PcsAre DEF TypeOK, Command, Attaching
    <2> HIDE DEF c
    <2>3. Goes(p, "seen", proc[p].rc, proc[p].seen, proc[p].down)
      <3>1. Goes(p, c.pc, c.rc, c.seen, c.down)
        BY <1>1, <2>1, <2>2, Goes5
      <3>2. QED
        BY <3>1, <2>2
    <2>4. ProcInv(p)'
      BY <1>1, <1>2, <1>5, <2>3
         DEF Coded, ProcInv, OwnInv, AttInv, KindInv, DueInv, DueAt, MineInv, Podman, Goes,
             Same, TakenAway, Unlaunched, Stopping, Running
    <2>5. "seen" \in PCs \ {"idle"}
      BY PcsAre DEF Attaching
    <2>6. QED
      BY <1>2, <2>3, <2>4, <2>5, QuietGoes
  <1>6. CASE proc[p].kind = "detach" /\ Return(p, 0)
    <2>1. Idles(p, 0)
      BY <1>6, <1>1, ReturnIdles, FieldsTyped, Numbers
    <2>2. Surfaces(p) /\ Leaves(p)
      BY <1>6, <1>1, <1>2, <2>1, MayReturn DEF ProcInv, OwnInv, KindInv, MineInv, Unlaunched
    <2>3. QED
      BY <1>2, <2>1, <2>2, QuietEnds
  <1>7. CASE Return(p, Failed)
    <2>1. Idles(p, Failed)
      BY <1>7, <1>1, ReturnIdles, FieldsTyped, Numbers
    <2>2. Surfaces(p) /\ Leaves(p)
      BY <1>7, <1>1, <1>2, <2>1, MayReturn
         DEF ProcInv, OwnInv, KindInv, MineInv, Unlaunched, Stopping
    <2>3. QED
      BY <1>2, <2>1, <2>2, QuietEnds
  <1>8. CASE proc[p].kind \in {"start", "detach"} /\ To(p, "clear")
    <2>1. "clear" \in PCs \ {"idle"}
      BY PcsAre DEF Attaching, Launching, Ephemeral, Stopping
    <2>2. Goes(p, "clear", proc[p].rc, proc[p].seen, proc[p].down)
      BY <1>8, <1>1, <1>2, <2>1, ToGoes, FieldsTyped, Numbers
    <2>3. ProcInv(p)'
      BY <1>8, <1>1, <1>2, <2>2
         DEF Coded, ProcInv, OwnInv, AttInv, KindInv, DueInv, DueAt, MineInv, Podman, Goes,
             Same, TakenAway, Unlaunched, Tied, Attaching
    <2>4. QED
      BY <1>2, <2>1, <2>2, <2>3, QuietGoes
  <1>9. CASE proc[p].kind = "ephemeral" /\ To(p, "exists")
    <2>1. "exists" \in PCs \ {"idle"}
      BY PcsAre DEF Attaching, Launching, Ephemeral, Stopping
    <2>2. Goes(p, "exists", proc[p].rc, proc[p].seen, proc[p].down)
      BY <1>9, <1>1, <1>2, <2>1, ToGoes, FieldsTyped, Numbers
    <2>3. ProcInv(p)'
      BY <1>9, <1>1, <1>2, <2>2
         DEF Coded, ProcInv, OwnInv, AttInv, KindInv, DueInv, DueAt, MineInv, Podman, Goes,
             Same, TakenAway, Unlaunched, Tied, Attaching
    <2>4. QED
      BY <1>2, <2>1, <2>2, <2>3, QuietGoes
  <1>10. QED
    BY <1>3, <1>4, <1>5, <1>6, <1>7, <1>8, <1>9 DEF Look

LEMMA BlockedStep ==
  ASSUME IInv, NEW p \in Procs, Blocked(p)
  PROVE  Good
  <1>1. TypeOK /\ ProcInv(p) /\ BoxInv
    BY DEF IInv
  <1>2. /\ proc[p].pc = "exists" /\ UNCHANGED Podman /\ lock' \in Procs \cup {NoProc}
    BY <1>1 DEF Blocked, At, TypeOK
  <1>3. CASE Return(p, Failed)
    <2>1. Idles(p, Failed)
      BY <1>3, <1>1, ReturnIdles, FieldsTyped, Numbers
    <2>2. Surfaces(p) /\ Leaves(p)
      BY <1>3, <1>1, <1>2, <2>1, MayReturn
         DEF ProcInv, OwnInv, KindInv, MineInv, Unlaunched, Stopping
    <2>3. QED
      BY <1>2, <2>1, <2>2, QuietEnds
  <1>4. CASE To(p, "lock")
    <2>1. "lock" \in PCs \ {"idle"}
      BY PcsAre DEF Attaching, Launching, Ephemeral, Stopping
    <2>2. Goes(p, "lock", proc[p].rc, proc[p].seen, proc[p].down)
      BY <1>4, <1>1, <1>2, <2>1, ToGoes, FieldsTyped, Numbers
    <2>3. ProcInv(p)'
      BY <1>4, <1>1, <1>2, <2>2
         DEF Coded, ProcInv, OwnInv, AttInv, KindInv, DueInv, DueAt, MineInv, Podman, Goes,
             Same, TakenAway, Unlaunched, Stopping, Tied, Attaching
    <2>4. QED
      BY <1>2, <2>1, <2>2, <2>3, QuietGoes
  <1>5. QED
    BY <1>3, <1>4 DEF Blocked

LEMMA LockStep ==
  ASSUME IInv, NEW p \in Procs, Lock(p)
  PROVE  Good
  <1>1. TypeOK /\ ProcInv(p) /\ BoxInv
    BY DEF IInv
  <1>2. /\ proc[p].pc = "lock" /\ UNCHANGED Podman /\ lock' \in Procs \cup {NoProc}
    BY <1>1 DEF Lock, At, TypeOK
  <1>3. CASE Return(p, Failed)
    <2>1. Idles(p, Failed)
      BY <1>3, <1>1, ReturnIdles, FieldsTyped, Numbers
    <2>2. Surfaces(p) /\ Leaves(p)
      BY <1>3, <1>1, <1>2, <2>1, MayReturn
         DEF ProcInv, OwnInv, KindInv, MineInv, Unlaunched, Stopping
    <2>3. QED
      BY <1>2, <2>1, <2>2, QuietEnds
  <1>4. CASE To(p, "create")
    <2>1. "create" \in PCs \ {"idle"}
      BY PcsAre DEF Attaching, Launching, Ephemeral, Stopping
    <2>2. Goes(p, "create", proc[p].rc, proc[p].seen, proc[p].down)
      BY <1>4, <1>1, <1>2, <2>1, ToGoes, FieldsTyped, Numbers
    <2>3. ProcInv(p)'
      BY <1>4, <1>1, <1>2, <2>2
         DEF Coded, ProcInv, OwnInv, AttInv, KindInv, DueInv, DueAt, MineInv, Podman, Goes,
             Same, TakenAway, Unlaunched, Stopping, Tied, Attaching
    <2>4. QED
      BY <1>2, <2>1, <2>2, <2>3, QuietGoes
  <1>5. QED
    BY <1>3, <1>4 DEF Lock

LEMMA WaitStep ==
  ASSUME IInv, NEW p \in Procs, Wait(p)
  PROVE  Good
  <1>1. TypeOK /\ ProcInv(p) /\ BoxInv
    BY DEF IInv
  <1>2. /\ proc[p].pc = "wait" /\ UNCHANGED Podman /\ lock' \in Procs \cup {NoProc}
    BY <1>1 DEF Wait, At, TypeOK
  <1>3. CASE proc[p].kind = "detach" /\ Return(p, 0)
    <2>1. Idles(p, 0)
      BY <1>3, <1>1, ReturnIdles, FieldsTyped, Numbers
    <2>2. Surfaces(p) /\ Leaves(p)
      BY <1>3, <1>1, <1>2, <2>1, MayReturn DEF ProcInv, OwnInv, KindInv, MineInv, ForIt
    <2>3. QED
      BY <1>2, <2>1, <2>2, QuietEnds
  <1>4. CASE Running /\ To(p, "ready")
    <2>1. "ready" \in PCs \ {"idle"}
      BY PcsAre DEF Attaching, Launching, Ephemeral, Stopping
    <2>2. Goes(p, "ready", proc[p].rc, proc[p].seen, proc[p].down)
      BY <1>4, <1>1, <1>2, <2>1, ToGoes, FieldsTyped, Numbers
    <2>3. ProcInv(p)'
      BY <1>4, <1>1, <1>2, <2>2
         DEF Coded, ProcInv, OwnInv, AttInv, KindInv, DueInv, DueAt, MineInv, MineAt, Podman,
             Goes, Same, TakenAway, Unlaunched, Stopping, Attaching, Running
    <2>4. QED
      BY <1>2, <2>1, <2>2, <2>3, QuietGoes
  <1>5. CASE Return(p, Failed)
    <2>1. Idles(p, Failed)
      BY <1>5, <1>1, ReturnIdles, FieldsTyped, Numbers
    <2>2. Surfaces(p) /\ Leaves(p)
      BY <1>5, <1>1, <1>2, <2>1, MayReturn, Numbers
         DEF ProcInv, OwnInv, KindInv, MineInv, Stopping
    <2>3. QED
      BY <1>2, <2>1, <2>2, QuietEnds
  <1>6. CASE Leave(p, Failed)
    <2>1. "over" \in PCs \ {"idle"}
      BY PcsAre DEF Attaching, Launching, Ephemeral, Stopping
    <2>2. Goes(p, "over", Failed, FALSE, FALSE)
      BY <1>6, <1>1, <1>2, <2>1, LeaveGoes, FieldsTyped, Numbers
    <2>3. ProcInv(p)'
      BY <1>6, <1>1, <1>2, <2>2, Numbers
         DEF Coded, ProcInv, OwnInv, AttInv, KindInv, DueInv, DueAt, MineInv, MineAt, Podman,
             Goes, Same, TakenAway, Unlaunched, Stopping, Tied, Attaching
    <2>4. QED
      BY <1>2, <2>1, <2>2, <2>3, QuietGoes
  <1>7. QED
    BY <1>3, <1>4, <1>5, <1>6 DEF Wait

LEMMA InsideStep ==
  ASSUME IInv, NEW p \in Procs, Inside(p)
  PROVE  Good
  <1>1. TypeOK /\ ProcInv(p) /\ BoxInv
    BY DEF IInv
  <1>2. /\ proc[p].pc = "inside" /\ UNCHANGED Podman /\ lock' \in Procs \cup {NoProc}
    BY <1>1 DEF Inside, At, TypeOK
  <1>3. exit[proc[p].own] \in Rcs
    <2>1. proc[p].own \in Ids
      BY <1>1, <1>2, FieldsTyped, BoxesAssumption DEF ProcInv, OwnInv, Ids
    <2>2. QED
      BY <1>1, <2>1 DEF TypeOK, Rcs
  <1> DEFINE rc == exit[proc[p].own]
  <1>4. proc' = [proc EXCEPT ![p].pc = "unlock", ![p].rc = rc]
    BY DEF Inside
  <1> HIDE DEF rc
  <1>5. "unlock" \in PCs \ {"idle"}
    BY PcsAre DEF Ephemeral
  <1>6. Goes(p, "unlock", rc, proc[p].seen, proc[p].down)
    BY <1>1, <1>3, <1>4, <1>5, CodeGoes DEF rc
  <1>7. ProcInv(p)'
    BY <1>1, <1>2, <1>6
       DEF Coded, ProcInv, OwnInv, AttInv, KindInv, DueInv, DueAt, MineInv, MineAt, Podman,
           Goes, Same, TakenAway, Unlaunched, Stopping, Tied, Attaching
  <1>8. QED
    BY <1>2, <1>5, <1>6, <1>7, QuietGoes

LEMMA UnlockStep ==
  ASSUME IInv, NEW p \in Procs, Unlock(p)
  PROVE  Good
  <1>1. TypeOK /\ ProcInv(p) /\ BoxInv
    BY DEF IInv
  <1>2. /\ proc[p].pc = "unlock" /\ UNCHANGED Podman /\ lock' \in Procs \cup {NoProc}
    BY <1>1 DEF Unlock, At, TypeOK
  <1>3. Idles(p, proc[p].rc)
    BY <1>1, ReturnIdles, FieldsTyped DEF Unlock
  <1>4. Surfaces(p) /\ Leaves(p)
    BY <1>1, <1>2, <1>3, MayReturn, FieldsTyped
       DEF Coded, ProcInv, KindInv, MineInv, MineAt, Stopping, Attaching
  <1>5. QED
    BY <1>2, <1>3, <1>4, QuietEnds

LEMMA FoundStep ==
  ASSUME IInv, NEW p \in Procs, Found(p)
  PROVE  Good
  <1>1. TypeOK /\ ProcInv(p) /\ BoxInv
    BY DEF IInv
  <1>2. /\ proc[p].pc = "live" /\ UNCHANGED Podman /\ lock' \in Procs \cup {NoProc}
    BY <1>1 DEF Found, At, TypeOK
  <1> DEFINE i == IF Live THEN box.id ELSE 0
             c == [proc[p] EXCEPT !.pc = "ask", !.found = i]
  <1>3. proc' = [proc EXCEPT ![p] = c]
    BY <1>1 DEF Found, TypeOK
  <1>4. i \in 0..MaxBoxes
    BY <1>1, BoxTyped, Numbers
  <1> HIDE DEF i
  <1>5. "ask" \in PCs \ {"idle"}
    BY PcsAre DEF Stopping
  <1>6. /\ c \in Command /\ c.pc = "ask" /\ c.rc = proc[p].rc /\ c.seen = proc[p].seen
        /\ c.down = proc[p].down /\ c.own = proc[p].own /\ c.due = proc[p].due
        /\ c.met = proc[p].met /\ c.kind = proc[p].kind
    BY <1>1, <1>4, <1>5 DEF TypeOK, Command
  <1> HIDE DEF c
  <1>7. Goes(p, "ask", proc[p].rc, proc[p].seen, proc[p].down)
    <2>1. Goes(p, c.pc, c.rc, c.seen, c.down)
      BY <1>1, <1>3, <1>6, Goes5
    <2>2. QED
      BY <2>1, <1>6
  <1>8. ProcInv(p)'
    BY <1>1, <1>2, <1>7
       DEF Coded, ProcInv, OwnInv, AttInv, KindInv, DueInv, DueAt, MineInv, Podman, Goes, Same,
           TakenAway, Unlaunched, Stopping, Tied, Attaching
  <1>9. QED
    BY <1>2, <1>5, <1>7, <1>8, QuietGoes

LEMMA CheckStep ==
  ASSUME IInv, NEW p \in Procs, Check(p)
  PROVE  Good
  <1>1. TypeOK /\ ProcInv(p) /\ BoxInv
    BY DEF IInv
  <1>2. /\ proc[p].pc = "check" /\ UNCHANGED Podman /\ lock' \in Procs \cup {NoProc}
    BY <1>1 DEF Check, At, TypeOK
  <1>3. CASE Return(p, Failed)
    <2>1. Idles(p, Failed)
      BY <1>3, <1>1, ReturnIdles, FieldsTyped, Numbers
    <2>2. Surfaces(p) /\ Leaves(p)
      BY <1>3, <1>1, <1>2, <2>1, MayReturn
         DEF ProcInv, OwnInv, KindInv, MineInv, Unlaunched, Stopping
    <2>3. QED
      BY <1>2, <2>1, <2>2, QuietEnds
  <1>4. CASE To(p, "clear")
    <2>1. "clear" \in PCs \ {"idle"}
      BY PcsAre DEF Attaching, Launching, Ephemeral, Stopping
    <2>2. Goes(p, "clear", proc[p].rc, proc[p].seen, proc[p].down)
      BY <1>4, <1>1, <1>2, <2>1, ToGoes, FieldsTyped, Numbers
    <2>3. ProcInv(p)'
      BY <1>4, <1>1, <1>2, <2>2
         DEF Coded, ProcInv, OwnInv, AttInv, KindInv, DueInv, DueAt, MineInv, Podman, Goes,
             Same, TakenAway, Unlaunched, Stopping, Tied, Attaching
    <2>4. QED
      BY <1>2, <2>1, <2>2, <2>3, QuietGoes
  <1>5. QED
    BY <1>3, <1>4 DEF Check

-----------------------------------------------------------------------------
(* Removing a container *)

LEMMA TakenStays ==
  ASSUME IInv, NEW q \in Procs, NEW i \in Ids, TakenAway(i, q),
         \/ UNCHANGED by
         \/ \E p \in Procs : by' = [by EXCEPT ![box.id] = p]
  PROVE  TakenAway(i, q)' /\ i # box.id
  BY DEF IInv, BoxInv, TakenAway, TypeOK

LEMMA OwnIsId ==
  ASSUME TypeOK, NEW p \in Procs
  PROVE  (proc[p].own # 0 => proc[p].own \in Ids) /\ (proc[p].due # 0 => proc[p].due \in Ids)
  BY FieldsTyped, BoxesAssumption DEF Ids

LEMMA BoxIsId ==
  ASSUME IInv, Exists
  PROVE  box.id \in Ids
  BY BoxTyped, BoxesAssumption DEF IInv, BoxInv, Ids, Exists

LEMMA NoBoxIs ==
  /\ NoBox \in Box /\ NoBox.st = "none" /\ NoBox.id = 0 /\ NoBox.rm = FALSE
  /\ NoBox.sess = "none"
  BY Numbers DEF NoBox, Box

LEMMA RemoveIs ==
  ASSUME IInv, NEW p \in Procs, Remove(p)
  PROVE  \/ /\ box.st \in {"created", "exited"} /\ box' = NoBox
            /\ box.id \in Ids /\ by' = [by EXCEPT ![box.id] = p]
         \/ box.st \notin {"created", "exited"} /\ UNCHANGED <<box, by>>
  <1>1. CASE Removable
    BY <1>1, BoxIsId DEF Remove, Removable, Exists
  <1>2. CASE ~Removable
    BY <1>2 DEF Remove, Removable
  <1>3. QED
    BY <1>1, <1>2

LEMMA RemoveKeepsOthers ==
  ASSUME IInv, NEW p \in Procs, Remove(p), UNCHANGED <<used, exit>>,
         NEW q \in Procs \ {p}, proc'[q] = proc[q]
  PROVE  ProcInv(q)'
  <1>1. TypeOK /\ BoxInv /\ ProcInv(q)
    BY DEF IInv
  <1>2. CASE UNCHANGED <<box, by>>
    BY <1>1, <1>2, SameKeeps DEF Podman
  <1>3. CASE /\ box.st \in {"created", "exited"} /\ box' = NoBox
             /\ box.id \in Ids /\ by' = [by EXCEPT ![box.id] = p]
    <2>1. by'[box.id] = p /\ p # NoProc
      BY <1>1, <1>3, NoProcAssumption DEF TypeOK
    <2>2. \A i \in Ids : TakenAway(i, q) \/ box.id = i => TakenAway(i, q)'
      BY <1>3, <2>1, TakenStays DEF TakenAway
    <2>3. OwnInv(q)' /\ AttInv(q)' /\ KindInv(q)'
      BY <1>1, <1>3, NoBoxIs DEF ProcInv, OwnInv, AttInv, KindInv
    <2>4. DueInv(q)' /\ MineInv(q)'
      BY <1>1, <2>2, OwnIsId DEF ProcInv, DueInv, MineInv
    <2>5. QED
      BY <2>3, <2>4 DEF ProcInv
  <1>4. QED
    BY <1>2, <1>3, RemoveIs

LEMMA RemoveStep ==
  ASSUME IInv, NEW p \in Procs, Remove(p), UNCHANGED <<used, lock, exit>>,
         Moves(p), proc'[p].own \in {0, proc[p].own}, ProcInv(p)',
         Surfaces(p), Leaves(p)
  PROVE  Good
  <1>0. TypeOK /\ BoxInv
    BY DEF IInv
  <1>1. TypeOK'
    BY <1>0, RemoveIs, NoBoxIs DEF TypeOK, Moves
  <1>2. BoxInv'
    <2>1. CASE UNCHANGED <<box, by>>
      BY <1>0, <2>1 DEF BoxInv
    <2>2. CASE /\ box.st \in {"created", "exited"} /\ box' = NoBox
               /\ box.id \in Ids /\ by' = [by EXCEPT ![box.id] = p]
      BY <1>0, <2>2, NoBoxIs, OwnIsNumber DEF BoxInv, TypeOK, Ids
    <2>3. QED
      BY <2>1, <2>2, RemoveIs
  <1>3. Apart'
    BY ApartKeeps DEF IInv
  <1>4. \A q \in Procs : ProcInv(q)'
    <2>1. ASSUME NEW q \in Procs \ {p} PROVE ProcInv(q)'
      BY <2>1, RemoveKeepsOthers DEF Moves
    <2>2. QED
      BY <2>1
  <1>5. Kept
    BY RemoveIs DEF Kept, Live
  <1>6. \A q \in Procs : Surfaces(q) /\ Leaves(q)
    BY OthersReturnNot
  <1>7. IInv'
    BY <1>1, <1>2, <1>3, <1>4 DEF IInv
  <1>8. QED
    BY <1>5, <1>6, <1>7 DEF Good

\* A command that has no container and goes on to remove one.
LEMMA RemoveGoes ==
  ASSUME IInv, NEW p \in Procs, Remove(p), UNCHANGED <<used, lock, exit>>,
         NEW pc \in {"create", "check"}, Goes(p, pc, proc[p].rc, proc[p].seen, proc[p].down),
         proc[p].pc \in Unlaunched \cap PCs, proc[p].kind # "stop"
  PROVE  Good
  <1>1. TypeOK /\ BoxInv /\ ProcInv(p)
    BY DEF IInv
  <1>2. /\ proc'[p].own = 0 /\ proc'[p].due = proc[p].due
        /\ (proc[p].due # 0 => TakenAway(proc[p].due, p) /\ proc[p].due \in Ids)
    BY <1>1, Owed, OwnIsId DEF Goes, Same, Unlaunched, Stopping
  <1>3. \A i \in Ids : TakenAway(i, p) => by'[i] \notin {NoProc, p}
    BY TakenStays, RemoveIs DEF TakenAway
  <1>4. ProcInv(p)'
    BY <1>1, <1>2, <1>3
       DEF TakenAway, ProcInv, OwnInv, AttInv, KindInv, DueInv, MineInv, Goes, Same, Tied,
           Attaching
  <1>5. Surfaces(p) /\ Leaves(p)
    BY DEF Goes, Surfaces, Leaves, Returns, At
  <1>6. QED
    BY <1>4, <1>5, RemoveStep DEF Goes, Same

\* A command that removes a container and ends.
LEMMA RemoveEnds ==
  ASSUME IInv, NEW p \in Procs, Remove(p), UNCHANGED <<used, lock, exit>>,
         NEW rc, Idles(p, rc), Surfaces(p), Leaves(p)
  PROVE  Good
  <1>1. used' \in Nat
    BY OwnIsNumber DEF IInv
  <1>2. ProcInv(p)'
    BY <1>1, IdleInv
  <1>3. QED
    BY <1>2, RemoveStep DEF Idles

\* What a command is owed by a box that was taken away is no later box's.
LEMMA RemoveLeaves ==
  ASSUME IInv, NEW p \in Procs, Remove(p), proc[p].due # 0, TakenAway(proc[p].due, p)
  PROVE  box'.id # proc[p].due
  <1>1. proc[p].due \in Ids /\ proc[p].due # box.id
    BY TakenStays, OwnIsId, RemoveIs DEF IInv, BoxInv, TakenAway
  <1>2. QED
    BY <1>1, RemoveIs, NoBoxIs DEF Ids

LEMMA ClearStep ==
  ASSUME IInv, NEW p \in Procs, Clear(p)
  PROVE  Good
  <1>1. TypeOK /\ BoxInv /\ ProcInv(p)
    BY DEF IInv
  <1>2. /\ proc[p].pc = "clear" /\ UNCHANGED <<used, lock, exit>> /\ Remove(p)
        /\ proc[p].kind # "stop" /\ proc[p].own = 0
        /\ (proc[p].due # 0 => TakenAway(proc[p].due, p))
    BY <1>1, Owed DEF Clear, At, Unlaunched, Stopping
  <1>3. CASE Return(p, Failed)
    <2>1. Idles(p, Failed)
      BY <1>1, <1>3, ReturnIdles, Numbers
    <2>2. Surfaces(p) /\ Leaves(p)
      BY <1>2, RemoveLeaves DEF Surfaces, Leaves
    <2>3. QED
      BY <1>2, <2>1, <2>2, RemoveEnds
  <1>4. CASE To(p, "create")
    <2>1. "create" \in PCs /\ "clear" \in Unlaunched \cap PCs
      BY PcsAre DEF Launching, Unlaunched
    <2>2. Goes(p, "create", proc[p].rc, proc[p].seen, proc[p].down)
      BY <1>1, <1>4, <2>1, ToGoes
    <2>3. QED
      BY <1>2, <2>1, <2>2, RemoveGoes
  <1>5. QED
    BY <1>3, <1>4 DEF Clear

LEMMA SweepStep ==
  ASSUME IInv, NEW p \in Procs, Sweep(p)
  PROVE  Good
  <1>1. TypeOK /\ BoxInv /\ ProcInv(p)
    BY DEF IInv
  <1>2. /\ proc[p].pc = "sweep" /\ UNCHANGED <<used, lock, exit>> /\ Remove(p)
        /\ proc[p].own = 0 /\ (proc[p].due # 0 => TakenAway(proc[p].due, p))
    BY <1>1, Owed DEF Sweep, At, Unlaunched, Stopping
  <1>3. CASE proc[p].kind # "restart"
    <2> DEFINE rc == IF Live THEN Failed ELSE 0
    <2>1. Idles(p, rc)
      <3>1. rc \in Rcs /\ Return(p, rc)
        BY <1>3, Numbers DEF Sweep
      <3> HIDE DEF rc
      <3>2. QED
        BY <1>1, <3>1, ReturnIdles
    <2>2. rc = 0 => box'.id = 0
      BY <1>1, <1>2, RemoveIs, NoBoxIs, Numbers, BoxTyped DEF Live, BoxInv
    <2> HIDE DEF rc
    <2>3. Surfaces(p) /\ Leaves(p)
      BY <1>2, <2>1, <2>2, RemoveLeaves DEF Surfaces, Leaves, Idles
    <2>4. QED
      BY <1>2, <2>1, <2>3, RemoveEnds
  <1>4. CASE proc[p].kind = "restart"
    <2>1. "check" \in PCs /\ "sweep" \in Unlaunched \cap PCs
      BY PcsAre DEF Stopping, Unlaunched
    <2>2. Goes(p, "check", proc[p].rc, proc[p].seen, proc[p].down)
      BY <1>1, <1>4, <2>1, ToGoes DEF Sweep
    <2>3. QED
      BY <1>2, <1>4, <2>1, <2>2, RemoveGoes
  <1>5. QED
    BY <1>3, <1>4

LEMMA TeardownStep ==
  ASSUME IInv, NEW p \in Procs, Teardown(p)
  PROVE  Good
  <1>1. TypeOK /\ BoxInv /\ ProcInv(p)
    BY DEF IInv
  <1>2. /\ proc[p].pc = "remove" /\ UNCHANGED <<used, lock, exit>> /\ Remove(p)
        /\ proc[p].kind # "stop"
    BY <1>1, Owed DEF Teardown, At, Stopping
  <1>3. Idles(p, proc[p].rc)
    BY <1>1, ReturnIdles, FieldsTyped DEF Teardown
  <1>4. proc[p].due # 0 => \/ TakenAway(proc[p].due, p)
                           \/ /\ box.id = proc[p].due /\ box.st = "exited"
                              /\ proc[p].rc = exit[proc[p].due]
    BY <1>1, <1>2 DEF Coded, ProcInv, DueInv, DueAt
  <1>5. Leaves(p)
    <2>1. box.st = "exited" => box'.id = 0
      BY <1>2, RemoveIs, NoBoxIs
    <2>2. QED
      BY <1>2, <1>4, <2>1, RemoveLeaves DEF Leaves
  <1>6. Surfaces(p)
    <2>1. proc[p].kind \in ForIt /\ proc[p].own # 0 /\ ~proc[p].met /\ proc[p].rc = 0
          => exit[proc[p].own] = 0 \/ TakenAway(proc[p].own, p)
      BY <1>1, <1>2, FieldsTyped DEF Coded, ProcInv, MineInv, MineAt, BoxInv
    <2>2. QED
      BY <1>3, <1>4, <2>1 DEF Surfaces, Idles
  <1>7. QED
    BY <1>2, <1>3, <1>5, <1>6, RemoveEnds

-----------------------------------------------------------------------------
(* What happens to the box *)

\* Of a step after which nobody has returned that had not.
LEMMA Gathered ==
  ASSUME IInv, TypeOK', BoxInv', Kept,
         \A q \in Procs : /\ proc'[q].own = proc[q].own /\ ProcInv(q)'
                          /\ proc[q].pc # "idle" => proc'[q].pc # "idle"
  PROVE  Good
  <1>1. Apart'
    BY DEF IInv, Apart
  <1>2. IInv'
    BY <1>1 DEF IInv
  <1>3. \A q \in Procs : ~Returns(q)
    BY DEF Returns, At
  <1>4. QED
    BY <1>2, <1>3 DEF Good, Surfaces, Leaves

LEMMA EndedIs ==
  ASSUME IInv, Running, NEW c \in Codes, Ended(c)
  PROVE  /\ box.id \in Ids /\ exit' = [exit EXCEPT ![box.id] = c]
         /\ \/ box.rm = TRUE /\ box' = NoBox
            \/ /\ box.rm = FALSE /\ box' \in Box /\ box'.st = "exited" /\ box'.id = box.id
               /\ box'.rm = FALSE /\ box'.sess = "ended" /\ box'.code = c
  <1>1. box.id \in Ids /\ box \in Box
    BY BoxIsId DEF Running, Exists, IInv, TypeOK
  <1>2. exit' = [exit EXCEPT ![box.id] = c]
    BY DEF Ended
  <1>3. CASE box.rm
    BY <1>1, <1>2, <1>3 DEF Ended, Box
  <1>4. CASE ~box.rm
    <2>1. box' = [box EXCEPT !.st = "exited", !.sess = "ended", !.code = c]
      BY <1>4 DEF Ended
    <2>2. QED
      BY <1>1, <1>2, <1>4, <2>1 DEF Box
  <1>5. QED
    BY <1>1, <1>3, <1>4

LEMMA EndedBox ==
  ASSUME IInv, Running, NEW c \in Codes, Ended(c), UNCHANGED <<used, by>>
  PROVE  BoxInv' /\ box' \in Box /\ exit' \in [Ids -> Codes \cup {NoCode}]
  <1>1. TypeOK /\ BoxInv
    BY DEF IInv
  <1>2. exit' \in [Ids -> Codes \cup {NoCode}] /\ box' \in Box
    BY <1>1, EndedIs, NoBoxIs DEF TypeOK
  <1>3. exit'[box.id] = c
    BY <1>1, EndedIs DEF TypeOK
  <1>4. \A i \in Ids : i > used' => exit'[i] = NoCode
    <2>1. box.id <= used
      BY <1>1 DEF BoxInv
    <2>2. ASSUME NEW i \in Ids, i > used PROVE exit'[i] = exit[i]
      <3>1. i # box.id
        BY <2>1, <2>2, <1>1, OwnIsNumber DEF Ids
      <3>2. QED
        BY <1>1, <3>1, EndedIs DEF TypeOK
    <2>3. QED
      BY <1>1, <2>2 DEF BoxInv
  <1>5. used \in Nat /\ box.id <= used /\ box.id # 0
    BY <1>1, OwnIsNumber DEF BoxInv, Running
  <1>6. \A i \in Ids : by'[i] # NoProc => i # box.id /\ i # 0 /\ i <= used'
    BY <1>1 DEF BoxInv, Ids
  <1>7. CASE box' = NoBox
    BY <1>2, <1>4, <1>5, <1>6, <1>7, NoBoxIs DEF BoxInv
  <1>8. CASE /\ box'.st = "exited" /\ box'.id = box.id /\ box'.code = c
    BY <1>2, <1>3, <1>4, <1>5, <1>6, <1>8 DEF BoxInv
  <1>9. QED
    BY <1>7, <1>8, EndedIs

\* The end of the box is no matter to a command that is not attached.
LEMMA EndedSame ==
  ASSUME IInv, Running, NEW c \in Codes, Ended(c), UNCHANGED <<used, by>>,
         NEW q \in Procs, proc'[q] = proc[q], proc[q].pc # "attached"
  PROVE  ProcInv(q)'
  <1>1. TypeOK /\ BoxInv /\ ProcInv(q) /\ box.st = "up"
    BY DEF IInv, Running
  <1>2. OwnInv(q)' /\ AttInv(q)' /\ KindInv(q)'
    BY <1>1, EndedIs, NoBoxIs DEF ProcInv, OwnInv, AttInv, KindInv
  <1>3. DueInv(q)'
    BY <1>1, EndedIs DEF Coded, ProcInv, DueInv, DueAt, TakenAway
  <1>4. MineInv(q)'
    BY <1>1, EndedIs DEF Coded, ProcInv, OwnInv, MineInv, MineAt, TakenAway
  <1>5. QED
    BY <1>2, <1>3, <1>4 DEF ProcInv

LEMMA KickedIs ==
  ASSUME TypeOK, NEW r \in {0, Failed}, NEW d \in 0..MaxBoxes
  PROVE  /\ Kicked(r, d) \in [Procs -> Command]
         /\ \A q \in Procs : proc[q].pc # "attached" => Kicked(r, d)[q] = proc[q]
         /\ \A q \in Procs : proc[q].pc = "attached" =>
              /\ Kicked(r, d)[q].pc = "judge" /\ Kicked(r, d)[q].rc = r
              /\ Kicked(r, d)[q].due = d /\ Kicked(r, d)[q].own = proc[q].own
              /\ Kicked(r, d)[q].met = proc[q].met /\ Kicked(r, d)[q].kind = proc[q].kind
  <1>1. r \in Rcs /\ "judge" \in PCs
    BY Numbers, PcsAre DEF Attaching
  <1>2. ASSUME NEW q \in Procs
        PROVE  LET c == [proc[q] EXCEPT !.pc = "judge", !.rc = r, !.due = d] IN
               /\ c \in Command /\ c.pc = "judge" /\ c.rc = r /\ c.due = d
               /\ c.own = proc[q].own /\ c.met = proc[q].met /\ c.kind = proc[q].kind
    BY <1>1 DEF TypeOK, Command, Rcs
  <1>3. QED
    BY <1>2 DEF Kicked, At, TypeOK

\* A command whose attachment ends.
LEMMA KickedKeeps ==
  ASSUME IInv, NEW q \in Procs, proc[q].pc = "attached", NEW r \in {0, Failed}, NEW d,
         proc'[q].pc = "judge", proc'[q].rc = r, proc'[q].due = d,
         proc'[q].own = proc[q].own, proc'[q].met = proc[q].met,
         proc'[q].kind = proc[q].kind, used' = used, box'.st \in {"up", "exited"},
         d # 0 => /\ box'.id = d /\ ~box'.rm /\ box'.sess = "ended"
                  /\ r = 0 \/ box'.st = "exited"
  PROVE  ProcInv(q)'
  <1>1. ProcInv(q)
    BY DEF IInv
  <1>2. OwnInv(q)' /\ AttInv(q)' /\ KindInv(q)'
    BY <1>1 DEF ProcInv, OwnInv, AttInv, KindInv, Unlaunched, Stopping
  <1>3. DueInv(q)' /\ MineInv(q)'
    BY <1>1 DEF Coded, ProcInv, AttInv, DueInv, DueAt, MineInv
  <1>4. QED
    BY <1>2, <1>3 DEF ProcInv

LEMMA BoxStarts ==
  ASSUME IInv, SessionStarts
  PROVE  Good
  <1>1. TypeOK /\ BoxInv /\ box.st = "up" /\ box.sess = "none"
    BY DEF IInv, SessionStarts, Running
  <1>2. /\ box' \in Box /\ box'.st = "up" /\ box'.id = box.id /\ box'.rm = box.rm
        /\ UNCHANGED <<used, lock, proc, exit, by>>
    BY <1>1 DEF SessionStarts, TypeOK, Box
  <1>3. TypeOK' /\ BoxInv' /\ Kept
    BY <1>1, <1>2 DEF TypeOK, BoxInv, Kept
  <1>4. ASSUME NEW q \in Procs PROVE ProcInv(q)'
    BY <1>1, <1>2
       DEF Coded, IInv, ProcInv, OwnInv, AttInv, KindInv, DueInv, MineInv, MineAt, TakenAway
  <1>5. QED
    BY <1>2, <1>3, <1>4, Gathered

LEMMA BoxGivesUp ==
  ASSUME IInv, NeverStarts
  PROVE  Good
  <1> DEFINE c == IF box.heal THEN 0 ELSE Failed
  <1>1. TypeOK /\ c \in Codes /\ box.sess = "none" /\ Running /\ Ended(c)
        /\ UNCHANGED <<used, lock, proc, by>>
    BY Numbers DEF IInv, NeverStarts
  <1> HIDE DEF c
  <1>2. TypeOK' /\ BoxInv' /\ Kept
    BY <1>1, EndedBox DEF TypeOK, Kept
  <1>3. ASSUME NEW q \in Procs PROVE ProcInv(q)'
    <2>1. proc[q].pc # "attached"
      BY <1>1 DEF IInv, ProcInv, AttInv
    <2>2. QED
      BY <1>1, <2>1, EndedSame
  <1>4. QED
    BY <1>1, <1>2, <1>3, Gathered

LEMMA BoxGoes ==
  ASSUME IInv, BoxExits
  PROVE  Good
  <1>1. TypeOK /\ box.code \in Codes /\ box.sess = "ended" /\ Running /\ Ended(box.code)
        /\ UNCHANGED <<used, lock, proc, by>>
    BY BoxTyped DEF IInv, BoxExits
  <1>2. TypeOK' /\ BoxInv' /\ Kept
    BY <1>1, EndedBox DEF TypeOK, Kept
  <1>3. ASSUME NEW q \in Procs PROVE ProcInv(q)'
    <2>1. proc[q].pc # "attached"
      BY <1>1 DEF IInv, ProcInv, AttInv
    <2>2. QED
      BY <1>1, <2>1, EndedSame
  <1>4. QED
    BY <1>1, <1>2, <1>3, Gathered

LEMMA BoxPauses ==
  ASSUME IInv, Pause
  PROVE  Good
  <1>1. /\ TypeOK /\ BoxInv /\ box.st = "up" /\ box.sess = "live"
        /\ \A q \in Procs : proc[q].pc \notin Attaching
    BY DEF IInv, Pause, Running
  <1>2. /\ box' \in Box /\ box'.st = "paused" /\ box'.id = box.id
        /\ UNCHANGED <<used, lock, proc, exit, by>> /\ box'.rm = box.rm
    BY <1>1 DEF Pause, TypeOK, Box
  <1>3. TypeOK' /\ BoxInv' /\ Kept
    BY <1>1, <1>2 DEF TypeOK, BoxInv, Kept, Live
  <1>4. ASSUME NEW q \in Procs PROVE ProcInv(q)'
    <2>1. ProcInv(q) /\ proc[q].pc \notin Attaching
      BY <1>1 DEF IInv
    <2>2. OwnInv(q)' /\ AttInv(q)' /\ KindInv(q)'
      BY <1>1, <1>2, <2>1 DEF ProcInv, OwnInv, AttInv, KindInv, Tied, Attaching
    <2>3. DueInv(q)' /\ MineInv(q)'
      BY <1>1, <1>2, <2>1 DEF Coded, ProcInv, DueInv, MineInv, MineAt, TakenAway, Tied, Attaching
    <2>4. QED
      BY <2>2, <2>3 DEF ProcInv
  <1>5. QED
    BY <1>2, <1>3, <1>4, Gathered

\* What an unpaused box leaves true of a command that stays where it is.
LEMMA Unpaused ==
  ASSUME IInv, box.st = "paused", box' = [box EXCEPT !.st = "up"],
         UNCHANGED <<used, exit, by>>
  PROVE  /\ box' \in Box /\ BoxInv' /\ Kept
         /\ \A q \in Procs : proc'[q] = proc[q] => ProcInv(q)'
  <1>1. TypeOK /\ BoxInv
    BY DEF IInv
  <1>2. box' \in Box /\ box'.st = "up" /\ box'.id = box.id /\ box'.rm = box.rm
    BY <1>1 DEF TypeOK, Box
  <1>3. BoxInv' /\ Kept
    BY <1>1, <1>2 DEF BoxInv, Kept, Live
  <1>4. ASSUME NEW q \in Procs, proc'[q] = proc[q] PROVE ProcInv(q)'
    <2>1. ProcInv(q)
      BY DEF IInv
    <2>2. OwnInv(q)' /\ AttInv(q)' /\ KindInv(q)'
      BY <1>2, <1>4, <2>1 DEF ProcInv, OwnInv, AttInv, KindInv
    <2>3. DueInv(q)' /\ MineInv(q)'
      BY <1>2, <1>4, <2>1 DEF Coded, ProcInv, DueInv, MineInv, MineAt, TakenAway
    <2>4. QED
      BY <2>2, <2>3 DEF ProcInv
  <1>5. QED
    BY <1>2, <1>3, <1>4

LEMMA BoxUnpauses ==
  ASSUME IInv, Unpause
  PROVE  Good
  <1>1. /\ box.st = "paused" /\ box' = [box EXCEPT !.st = "up"]
        /\ UNCHANGED <<used, lock, proc, exit, by>>
    BY DEF Unpause
  <1>2. TypeOK'
    BY <1>1, Unpaused DEF IInv, TypeOK
  <1>3. QED
    BY <1>1, <1>2, Unpaused, Gathered

LEMMA AgentStep ==
  ASSUME IInv, NEW c \in Ends, AgentEnds(c)
  PROVE  Good
  <1>1. /\ TypeOK /\ BoxInv /\ box.st = "up" /\ box.sess = "live" /\ c \in Codes
        /\ box.id \in 0..MaxBoxes /\ 0 \in 0..MaxBoxes /\ 0 \in {0, Failed}
        /\ UNCHANGED <<used, lock, exit, by>>
    BY BoxTyped, Numbers DEF IInv, AgentEnds, Running, Codes
  <1>2. CASE box' = [box EXCEPT !.sess = "ended", !.code = c] /\ proc' = Kicked(0, box.id)
    <2>1. /\ box' \in Box /\ box'.st = "up" /\ box'.id = box.id /\ box'.rm = box.rm
          /\ box'.sess = "ended"
      BY <1>1, <1>2 DEF TypeOK, Box
    <2>2. TypeOK' /\ BoxInv' /\ Kept
      BY <1>1, <1>2, <2>1, KickedIs DEF TypeOK, BoxInv, Kept, Live
    <2>3. ASSUME NEW q \in Procs, proc[q].pc = "attached"
          PROVE  proc'[q].own = proc[q].own /\ proc'[q].pc # "idle" /\ ProcInv(q)'
      <3>1. ~box.rm
        BY <2>3 DEF IInv, ProcInv, AttInv
      <3>2. QED
        BY <1>1, <1>2, <2>1, <2>3, <3>1, KickedIs, KickedKeeps
    <2>4. ASSUME NEW q \in Procs, proc[q].pc # "attached"
          PROVE  proc'[q] = proc[q] /\ ProcInv(q)'
      <3>1. proc'[q] = proc[q] /\ ProcInv(q)
        BY <1>1, <1>2, <2>4, KickedIs DEF IInv
      <3>2. QED
        BY <1>1, <2>1, <2>4, <3>1
           DEF Coded, ProcInv, OwnInv, AttInv, KindInv, DueInv, MineInv, MineAt, TakenAway
    <2>5. QED
      BY <2>2, <2>3, <2>4, Gathered
  <1>3. CASE box' = [box EXCEPT !.sess = "none"] /\ proc' = Kicked(0, 0)
    <2>1. box' \in Box /\ box'.st = "up" /\ box'.id = box.id /\ box'.rm = box.rm
      BY <1>1, <1>3 DEF TypeOK, Box
    <2>2. TypeOK' /\ BoxInv' /\ Kept
      BY <1>1, <1>3, <2>1, KickedIs DEF TypeOK, BoxInv, Kept, Live
    <2>3. ASSUME NEW q \in Procs, proc[q].pc = "attached"
          PROVE  proc'[q].own = proc[q].own /\ proc'[q].pc # "idle" /\ ProcInv(q)'
      BY <1>1, <1>3, <2>1, <2>3, KickedIs, KickedKeeps
    <2>4. ASSUME NEW q \in Procs, proc[q].pc # "attached"
          PROVE  proc'[q] = proc[q] /\ ProcInv(q)'
      <3>1. proc'[q] = proc[q] /\ ProcInv(q)
        BY <1>1, <1>3, <2>4, KickedIs DEF IInv
      <3>2. QED
        BY <1>1, <2>1, <2>4, <3>1
           DEF Coded, ProcInv, OwnInv, AttInv, KindInv, DueInv, MineInv, MineAt, TakenAway
    <2>5. QED
      BY <2>2, <2>3, <2>4, Gathered
  <1>4. QED
    BY <1>2, <1>3 DEF AgentEnds

-----------------------------------------------------------------------------
(* Creating and booting a container *)

BootBox == [box EXCEPT !.st = "up", !.sess = IF box.rm THEN "live" ELSE "none"]

\* A container is booted by the command that created it, or by a `podman run' that
\* outlived it, which no other command notices.
LEMMA Booted ==
  ASSUME IInv, NEW p \in Procs, proc[p].pc = "boot", box.id = proc[p].own,
         box' = BootBox, UNCHANGED <<used, exit, by>>
  PROVE  /\ box' \in Box /\ box'.st = "up" /\ box'.id = box.id /\ box'.rm = box.rm
         /\ BoxInv' /\ Kept
         /\ \A q \in Procs \ {p} : proc'[q] = proc[q] => ProcInv(q)'
  <1>1. TypeOK /\ BoxInv /\ ProcInv(p) /\ Apart
    BY DEF IInv
  <1>2. box.st = "created" /\ proc[p].own # 0
    BY <1>1 DEF ProcInv, OwnInv
  <1>3. box' \in Box /\ box'.st = "up" /\ box'.id = box.id /\ box'.rm = box.rm
    BY <1>1 DEF BootBox, TypeOK, Box
  <1>4. BoxInv' /\ Kept
    BY <1>1, <1>2, <1>3 DEF BoxInv, Kept, Live
  <1>5. ASSUME NEW q \in Procs \ {p}, proc'[q] = proc[q] PROVE ProcInv(q)'
    <2>1. ProcInv(q) /\ proc[q].own # box.id
      BY <1>1, <1>2, <1>5 DEF IInv, Apart
    <2>2. OwnInv(q)' /\ AttInv(q)' /\ KindInv(q)'
      BY <1>2, <1>3, <1>5, <2>1 DEF ProcInv, OwnInv, AttInv, KindInv
    <2>3. DueInv(q)' /\ MineInv(q)'
      BY <1>2, <1>3, <1>5, <2>1 DEF ProcInv, DueInv, MineInv, TakenAway
    <2>4. QED
      BY <2>2, <2>3 DEF ProcInv
  <1>6. QED
    BY <1>3, <1>4, <1>5

LEMMA BootStep ==
  ASSUME IInv, NEW p \in Procs, Boot(p)
  PROVE  Good
  <1>1. TypeOK /\ BoxInv /\ ProcInv(p)
    BY DEF IInv
  <1>2. /\ proc[p].pc = "boot" /\ UNCHANGED <<used, lock, exit, by>>
        /\ proc[p].own # 0 /\ (proc[p].due # 0 => TakenAway(proc[p].due, p))
        /\ proc[p].kind # "stop"
        /\ (box.id = proc[p].own => box.st = "created")
    BY <1>1, Owed DEF Boot, At, ProcInv, OwnInv, Stopping
  <1>3. "inside" \in PCs /\ "wait" \in PCs /\ "unlock" \in PCs /\ Failed \in Rcs
    BY PcsAre, Numbers DEF Launching, Ephemeral
  <1>4. CASE /\ box.id = proc[p].own /\ box' = BootBox
             /\ To(p, IF IsEphemeral(p) THEN "inside" ELSE "wait")
    <2> DEFINE pc == IF IsEphemeral(p) THEN "inside" ELSE "wait"
    <2>1. Goes(p, pc, proc[p].rc, proc[p].seen, proc[p].down)
      <3>1. pc \in PCs /\ To(p, pc)
        BY <1>3, <1>4
      <3> HIDE DEF pc
      <3>2. QED
        BY <1>1, <3>1, ToGoes
    <2>2. pc \in {"inside", "wait"} /\ (pc = "inside" => proc[p].kind = "ephemeral")
      BY DEF IsEphemeral
    <2> HIDE DEF pc
    <2>3. /\ box' \in Box /\ box'.st = "up" /\ box'.id = box.id /\ box'.rm = box.rm
          /\ BoxInv' /\ Kept
          /\ \A q \in Procs \ {p} : proc'[q] = proc[q] => ProcInv(q)'
      BY <1>2, <1>4, Booted
    <2>4. TypeOK'
      BY <1>1, <1>2, <2>1, <2>3 DEF TypeOK, Goes, Moves
    <2>5. OwnInv(p)' /\ AttInv(p)' /\ KindInv(p)'
      BY <1>1, <1>2, <2>1, <2>2, <2>3
         DEF ProcInv, OwnInv, AttInv, KindInv, Goes, Same, Unlaunched, Stopping
    <2>6. DueInv(p)'
      BY <1>2, <2>1 DEF DueInv, Goes, Same, TakenAway
    <2>7. MineInv(p)'
      BY <1>1, <1>2, <2>1, <2>2, <2>3
         DEF Coded, ProcInv, MineInv, MineAt, Goes, Same, TakenAway, ForIt
    <2>8. \A q \in Procs : /\ proc'[q].own = proc[q].own /\ ProcInv(q)'
                           /\ proc[q].pc # "idle" => proc'[q].pc # "idle"
      BY <2>1, <2>2, <2>3, <2>5, <2>6, <2>7 DEF ProcInv, Goes, Same, Moves
    <2>9. QED
      BY <2>3, <2>4, <2>8, Gathered
  <1>5. CASE /\ box' = IF box.id = proc[p].own /\ box.rm THEN NoBox ELSE box
             /\ proc' = [proc EXCEPT ![p].pc = IF IsEphemeral(p) THEN "unlock" ELSE "wait",
                                     ![p].rc = Failed]
    <2> DEFINE pc == IF IsEphemeral(p) THEN "unlock" ELSE "wait"
    <2>1. Goes(p, pc, Failed, proc[p].seen, proc[p].down)
      <3>1. pc \in PCs /\ proc' = [proc EXCEPT ![p].pc = pc, ![p].rc = Failed]
        BY <1>3, <1>5
      <3> HIDE DEF pc
      <3>2. QED
        BY <1>1, <1>3, <3>1, CodeGoes
    <2>2. pc \in {"unlock", "wait"} /\ (pc = "unlock" => proc[p].kind = "ephemeral")
      BY DEF IsEphemeral
    <2> HIDE DEF pc
    <2>3. \/ box' = box
          \/ /\ box' = NoBox /\ box.rm /\ box.st = "created" /\ box.id = proc[p].own
      BY <1>2, <1>5
    <2>4. TypeOK' /\ Kept
      BY <1>1, <1>2, <2>1, <2>3, NoBoxIs DEF TypeOK, Goes, Moves, Kept, Live
    <2>5. BoxInv'
      <3>1. used \in Nat /\ \A i \in Ids : i # 0
        BY <1>1, OwnIsNumber DEF Ids
      <3>2. CASE box' = NoBox
        BY <1>1, <1>2, <3>1, <3>2, NoBoxIs DEF BoxInv
      <3>3. CASE box' = box
        BY <1>1, <1>2, <3>3 DEF BoxInv
      <3>4. QED
        BY <2>3, <3>2, <3>3
    <2>6. ASSUME NEW q \in Procs \ {p} PROVE proc'[q] = proc[q] /\ ProcInv(q)'
      <3>1. proc'[q] = proc[q] /\ ProcInv(q)
        BY <2>1, <2>6 DEF Goes, Moves, IInv
      <3>2. CASE box' = box
        BY <1>2, <3>1, <3>2, SameKeeps DEF Podman
      <3>3. CASE box' = NoBox /\ box.rm /\ box.st = "created"
        BY <1>2, <3>1, <3>3, NoBoxIs
           DEF ProcInv, OwnInv, AttInv, KindInv, DueInv, MineInv, TakenAway
      <3>4. QED
        BY <2>3, <3>2, <3>3
    <2>7. OwnInv(p)' /\ AttInv(p)' /\ KindInv(p)'
      BY <1>1, <1>2, <2>1, <2>2
         DEF ProcInv, OwnInv, AttInv, KindInv, Goes, Same, Unlaunched, Stopping, Tied, Attaching
    <2>8. DueInv(p)'
      BY <1>2, <2>1 DEF DueInv, Goes, Same, TakenAway
    <2>9. MineInv(p)'
      BY <1>1, <1>2, <2>1, <2>2, <2>3
         DEF Coded, ProcInv, MineInv, MineAt, Goes, Same, TakenAway, ForIt, Tied, Attaching
    <2>10. \A q \in Procs : /\ proc'[q].own = proc[q].own /\ ProcInv(q)'
                            /\ proc[q].pc # "idle" => proc'[q].pc # "idle"
      BY <2>1, <2>2, <2>6, <2>7, <2>8, <2>9 DEF ProcInv, Goes, Same
    <2>11. QED
      BY <2>4, <2>5, <2>10, Gathered
  <1>6. QED
    BY <1>4, <1>5 DEF Boot, BootBox

\* The next container there is.
NextBox(p) == [NoBox EXCEPT !.st = "created", !.id = used + 1,
                 !.rm = IsEphemeral(p), !.heal = proc[p].kind = "detach"]

LEMMA NextIs ==
  ASSUME TypeOK, NEW p \in Procs, used < MaxBoxes
  PROVE  /\ NextBox(p) \in Box /\ NextBox(p).st = "created" /\ NextBox(p).id = used + 1
         /\ NextBox(p).sess = "none" /\ NextBox(p).rm = IsEphemeral(p) /\ used + 1 \in Ids
  <1>1. used + 1 \in 0..MaxBoxes /\ used + 1 \in Ids
    BY OwnIsNumber, BoxesAssumption DEF TypeOK, Ids
  <1> DEFINE n == used + 1  rm == IsEphemeral(p)  heal == proc[p].kind = "detach"
  <1>2. n \in 0..MaxBoxes /\ rm \in BOOLEAN /\ heal \in BOOLEAN
    BY <1>1 DEF IsEphemeral
  <1>3. NextBox(p) = [NoBox EXCEPT !.st = "created", !.id = n, !.rm = rm, !.heal = heal]
    BY DEF NextBox
  <1> HIDE DEF n, rm, heal
  <1>4. /\ NextBox(p) \in Box /\ NextBox(p).st = "created" /\ NextBox(p).id = n
        /\ NextBox(p).sess = "none" /\ NextBox(p).rm = rm
    BY <1>2, <1>3, Numbers DEF NoBox, Box
  <1>5. QED
    BY <1>1, <1>4 DEF n, rm

LEMMA CreateStep ==
  ASSUME IInv, NEW p \in Procs, Create(p)
  PROVE  Good
  <1>1. TypeOK /\ BoxInv /\ ProcInv(p) /\ Apart
    BY DEF IInv
  <1>2. /\ proc[p].pc = "create" /\ UNCHANGED <<lock, exit, by>> /\ used < MaxBoxes
        /\ proc[p].own = 0 /\ (proc[p].due # 0 => TakenAway(proc[p].due, p))
        /\ proc[p].kind # "stop"
    BY <1>1, Owed DEF Create, At, Unlaunched, Stopping
  <1>3. CASE /\ ~Exists /\ used' = used + 1 /\ box' = NextBox(p)
             /\ proc' = [proc EXCEPT ![p].pc = "boot", ![p].own = used + 1]
    <2> DEFINE n == used + 1
               c == [proc[p] EXCEPT !.pc = "boot", !.own = n]
    <2>0. /\ box' \in Box /\ box'.st = "created" /\ box'.id = n /\ box'.sess = "none"
          /\ box'.rm = IsEphemeral(p) /\ n \in Ids /\ box.st = "none" /\ box.id = 0
          /\ used \in Nat /\ n \in 0..MaxBoxes
      BY <1>1, <1>2, <1>3, NextIs, OwnIsNumber, Numbers DEF Exists, BoxInv
    <2>1. proc' = [proc EXCEPT ![p] = c]
      BY <1>1, <1>3 DEF TypeOK
    <2>2. used' = n /\ \A k \in Nat : k <= used => k <= n /\ k # n
      BY <1>3, <2>0
    <2>3. n > used /\ n # 0 /\ n <= n /\ \A i \in Ids : i > n => i > used
      BY <2>0 DEF Ids
    <2> HIDE DEF n
    <2>4. /\ c \in Command /\ c.pc = "boot" /\ c.own = n /\ c.due = proc[p].due
          /\ c.met = proc[p].met /\ c.kind = proc[p].kind
      <3>1. proc[p] \in Command /\ "boot" \in PCs /\ n \in 0..MaxBoxes
        BY <1>1, <2>0, FieldsTyped, PcsAre DEF Launching
      <3>2. c \in Command
        BY <3>1 DEF Command
      <3>3. c.pc = "boot" /\ c.own = n
        BY <3>1 DEF Command
      <3>4. c.due = proc[p].due /\ c.met = proc[p].met /\ c.kind = proc[p].kind
        BY <3>1 DEF Command
      <3>5. QED
        BY <3>2, <3>3, <3>4
    <2> HIDE DEF c
    <2>5. Moves(p) /\ proc'[p] = c
      BY <1>1, <2>1, <2>4, OneChanges
    <2>6. TypeOK'
      BY <1>1, <1>2, <2>0, <2>2, <2>5 DEF TypeOK, Moves
    <2>7. BoxInv'
      <3>1. exit'[n] = NoCode
        BY <1>1, <1>2, <2>0, <2>3 DEF BoxInv
      <3>2. \A i \in Ids : by'[i] # NoProc => i # n /\ i <= n
        BY <1>1, <1>2, <2>2 DEF BoxInv, Ids
      <3>3. QED
        BY <1>1, <1>2, <2>0, <2>2, <2>3, <3>1, <3>2 DEF BoxInv
    <2>8. \A q \in Procs : proc[q].own <= n /\ proc[q].own # n
      BY <1>1, <2>2, OwnIsNumber DEF IInv, ProcInv, OwnInv
    <2>9. Apart'
      BY <1>1, <2>4, <2>5, <2>8 DEF Apart, Moves
    <2>10. ASSUME NEW q \in Procs \ {p} PROVE proc'[q] = proc[q] /\ ProcInv(q)'
      <3>1. proc'[q] = proc[q] /\ ProcInv(q)
        BY <2>5, <2>10 DEF Moves, IInv
      <3>2. OwnInv(q)' /\ AttInv(q)' /\ KindInv(q)'
        BY <2>0, <2>2, <2>8, <3>1 DEF ProcInv, OwnInv, AttInv, KindInv
      <3>3. DueInv(q)' /\ MineInv(q)'
        BY <1>2, <2>0, <3>1 DEF ProcInv, DueInv, MineInv, TakenAway
      <3>4. QED
        BY <3>1, <3>2, <3>3 DEF ProcInv
    <2>11. OwnInv(p)' /\ AttInv(p)' /\ KindInv(p)'
      BY <1>2, <2>0, <2>2, <2>3, <2>4, <2>5 DEF OwnInv, AttInv, KindInv, Unlaunched, Stopping
    <2>12. DueInv(p)'
      BY <1>2, <2>4, <2>5 DEF DueInv, TakenAway
    <2>13. MineInv(p)'
      BY <2>0, <2>4, <2>5 DEF Coded, MineInv, MineAt, ForIt, Tied, Attaching, IsEphemeral
    <2>14. Kept
      BY <2>0 DEF Kept, Live
    <2>15. \A q \in Procs : Surfaces(q) /\ Leaves(q)
      BY <2>4, <2>5, <2>10 DEF Surfaces, Leaves, Returns, At
    <2>16. QED
      BY <2>6, <2>7, <2>9, <2>10, <2>11, <2>12, <2>13, <2>14, <2>15 DEF Good, IInv, ProcInv
  <1>4. CASE /\ UNCHANGED <<used, box>>
             /\ proc' = [proc EXCEPT ![p].pc = IF IsEphemeral(p) THEN "unlock" ELSE "wait",
                                     ![p].rc = Failed]
    <2> DEFINE pc == IF IsEphemeral(p) THEN "unlock" ELSE "wait"
    <2>1. pc \in PCs \ {"idle"} /\ Failed \in Rcs
          /\ proc' = [proc EXCEPT ![p].pc = pc, ![p].rc = Failed]
      BY <1>4, PcsAre, Numbers DEF Launching, Ephemeral
    <2>2. pc \in {"unlock", "wait"}
      OBVIOUS
    <2> HIDE DEF pc
    <2>3. Goes(p, pc, Failed, proc[p].seen, proc[p].down)
      BY <1>1, <2>1, CodeGoes
    <2>4. UNCHANGED Podman /\ lock' \in Procs \cup {NoProc}
      BY <1>1, <1>2, <1>4 DEF Podman, TypeOK
    <2>5. OwnInv(p)' /\ AttInv(p)' /\ KindInv(p)'
      BY <1>1, <1>2, <2>2, <2>3, <2>4
         DEF ProcInv, OwnInv, AttInv, KindInv, Goes, Same, Tied, Attaching, Podman
    <2>6. DueInv(p)' /\ MineInv(p)'
      BY <1>2, <2>3 DEF DueInv, MineInv, Goes, Same, TakenAway
    <2>7. QED
      BY <2>1, <2>3, <2>4, <2>5, <2>6, QuietGoes DEF ProcInv
  <1>5. QED
    BY <1>3, <1>4 DEF Create, NextBox

-----------------------------------------------------------------------------
(* Stopping the box *)

LEMMA AskedStep ==
  ASSUME IInv, NEW p \in Procs, proc[p].pc \in {"ask", "again"},
         NEW refused \in {"unpause", "sweep"}, Asked(p, refused, "sweep"),
         UNCHANGED <<used, lock, by>>
  PROVE  Good
  <1>1. TypeOK /\ BoxInv /\ ProcInv(p)
    BY DEF IInv
  <1>2. /\ proc[p].own = 0 /\ (proc[p].due # 0 => TakenAway(proc[p].due, p))
    BY <1>1, Owed DEF Unlaunched, Stopping
  <1>3. "sweep" \in PCs /\ "unpause" \in PCs
    BY PcsAre DEF Stopping
  <1>4. CASE /\ Running
             /\ \E c \in IF box.sess = "ended" THEN {box.code} ELSE Ends : Ended(c)
             /\ \E r \in {0, Failed} : proc' = [Kicked(r, box.id) EXCEPT ![p].pc = "sweep"]
    <2>1. PICK c \in Codes : Ended(c)
      BY <1>1, <1>4, BoxTyped DEF Codes
    <2>2. PICK r \in {0, Failed} : proc' = [Kicked(r, box.id) EXCEPT ![p].pc = "sweep"]
      BY <1>4
    <2>3. Running /\ box.id \in 0..MaxBoxes
      BY <1>1, <1>4, BoxTyped
    <2> DEFINE k == Kicked(r, box.id)
               d == [proc[p] EXCEPT !.pc = "sweep"]
    <2>4. /\ k \in [Procs -> Command]
          /\ \A q \in Procs : proc[q].pc # "attached" => k[q] = proc[q]
          /\ \A q \in Procs : proc[q].pc = "attached" =>
               /\ k[q].pc = "judge" /\ k[q].rc = r /\ k[q].due = box.id
               /\ k[q].own = proc[q].own /\ k[q].met = proc[q].met /\ k[q].kind = proc[q].kind
      BY <1>1, <2>3, KickedIs
    <2> HIDE DEF k
    <2>5. proc' = [k EXCEPT ![p] = d]
      BY <2>2, <2>4 DEF k
    <2>6. /\ d \in Command /\ d.pc = "sweep" /\ d.own = proc[p].own /\ d.due = proc[p].due
          /\ d.met = proc[p].met /\ d.kind = proc[p].kind
      BY <1>1, <1>3 DEF TypeOK, Command
    <2> HIDE DEF d
    <2>7. /\ proc' \in [Procs -> Command] /\ proc'[p] = d
          /\ \A q \in Procs \ {p} : proc'[q] = k[q]
      BY <2>4, <2>5, <2>6
    <2>8. BoxInv' /\ box' \in Box /\ exit' \in [Ids -> Codes \cup {NoCode}]
      BY <2>1, <2>3, EndedBox
    <2>9. TypeOK'
      BY <1>1, <2>7, <2>8 DEF TypeOK
    <2>10. ASSUME NEW q \in Procs \ {p}, proc[q].pc = "attached"
           PROVE  proc'[q].own = proc[q].own /\ proc'[q].pc # "idle" /\ ProcInv(q)'
      <3>1. ~box.rm
        BY <2>10 DEF IInv, ProcInv, AttInv
      <3>2. box'.st = "exited" /\ box'.id = box.id /\ ~box'.rm /\ box'.sess = "ended"
        BY <2>1, <2>3, <3>1, EndedIs
      <3>3. /\ proc'[q].pc = "judge" /\ proc'[q].rc = r /\ proc'[q].due = box.id
            /\ proc'[q].own = proc[q].own /\ proc'[q].met = proc[q].met
            /\ proc'[q].kind = proc[q].kind
        BY <2>4, <2>7, <2>10
      <3>4. QED
        BY <2>10, <3>2, <3>3, KickedKeeps
    <2>11. ASSUME NEW q \in Procs \ {p}, proc[q].pc # "attached"
           PROVE  proc'[q] = proc[q] /\ ProcInv(q)'
      <3>1. proc'[q] = proc[q]
        BY <2>4, <2>7, <2>11
      <3>2. QED
        BY <2>1, <2>3, <2>11, <3>1, EndedSame
    <2>12. OwnInv(p)' /\ AttInv(p)' /\ KindInv(p)'
      BY <1>1, <1>2, <2>6, <2>7, OwnIsNumber
         DEF OwnInv, AttInv, KindInv, Stopping, Tied, Attaching
    <2>13. DueInv(p)' /\ MineInv(p)'
      BY <1>2, <2>6, <2>7 DEF DueInv, MineInv, TakenAway
    <2>14. Kept
      BY <2>6, <2>7 DEF Kept
    <2>15. \A q \in Procs : /\ proc'[q].own = proc[q].own /\ ProcInv(q)'
                            /\ proc[q].pc # "idle" => proc'[q].pc # "idle"
      <3>1. proc'[p].own = proc[p].own /\ proc'[p].pc # "idle" /\ ProcInv(p)'
        BY <2>6, <2>7, <2>12, <2>13 DEF ProcInv
      <3>2. QED
        BY <2>10, <2>11, <3>1
    <2>16. QED
      BY <2>8, <2>9, <2>14, <2>15, Gathered
  <1>5. CASE /\ ~Running
             /\ To(p, IF box.st = "paused" THEN refused ELSE IF Exists THEN "sweep" ELSE "sweep")
             /\ UNCHANGED <<box, exit>>
    <2> DEFINE pc == IF box.st = "paused" THEN refused ELSE "sweep"
    <2>1. pc \in PCs \ {"idle"} /\ To(p, pc) /\ pc \in {"unpause", "sweep"}
      BY <1>3, <1>5
    <2> HIDE DEF pc
    <2>2. Goes(p, pc, proc[p].rc, proc[p].seen, proc[p].down)
      BY <1>1, <2>1, ToGoes
    <2>3. UNCHANGED Podman /\ lock' \in Procs \cup {NoProc}
      BY <1>1, <1>5 DEF Podman, TypeOK
    <2>4. OwnInv(p)' /\ AttInv(p)' /\ KindInv(p)'
      BY <1>1, <1>2, <2>1, <2>2, OwnIsNumber
         DEF OwnInv, AttInv, KindInv, Goes, Same, Stopping, Tied, Attaching
    <2>5. DueInv(p)' /\ MineInv(p)'
      BY <1>2, <2>2, <2>3 DEF DueInv, MineInv, Goes, Same, TakenAway, Podman
    <2>6. QED
      BY <2>1, <2>2, <2>3, <2>4, <2>5, QuietGoes DEF ProcInv
  <1>6. QED
    BY <1>4, <1>5 DEF Asked

LEMMA AskStep ==
  ASSUME IInv, NEW p \in Procs, Ask(p) \/ AskAgain(p)
  PROVE  Good
  BY AskedStep DEF Ask, AskAgain, At

LEMMA UnpauseStep ==
  ASSUME IInv, NEW p \in Procs, UnpauseIt(p)
  PROVE  Good
  <1>1. TypeOK /\ BoxInv /\ ProcInv(p)
    BY DEF IInv
  <1>2. /\ proc[p].pc = "unpause" /\ UNCHANGED <<used, lock, exit, by>>
        /\ proc[p].own = 0 /\ (proc[p].due # 0 => TakenAway(proc[p].due, p))
    BY <1>1, Owed DEF UnpauseIt, At, Unlaunched, Stopping
  <1>3. "sweep" \in PCs /\ "again" \in PCs
    BY PcsAre DEF Stopping
  <1>4. PICK pc \in {"again", "sweep"} : To(p, pc)
    BY DEF UnpauseIt
  <1>5. Goes(p, pc, proc[p].rc, proc[p].seen, proc[p].down)
    BY <1>1, <1>3, <1>4, ToGoes
  <1>6. OwnInv(p)' /\ AttInv(p)' /\ KindInv(p)'
    BY <1>1, <1>2, <1>5, OwnIsNumber
       DEF OwnInv, AttInv, KindInv, Goes, Same, Stopping, Tied, Attaching
  <1>7. DueInv(p)' /\ MineInv(p)'
    BY <1>2, <1>5 DEF DueInv, MineInv, Goes, Same, TakenAway
  <1>8. CASE box.st = "paused" /\ box' = [box EXCEPT !.st = "up"]
    <2>1. /\ box' \in Box /\ BoxInv' /\ Kept
          /\ \A q \in Procs : proc'[q] = proc[q] => ProcInv(q)'
      BY <1>2, <1>8, Unpaused
    <2>2. TypeOK'
      BY <1>1, <1>2, <1>5, <2>1 DEF TypeOK, Goes, Moves
    <2>3. \A q \in Procs : /\ proc'[q].own = proc[q].own /\ ProcInv(q)'
                           /\ proc[q].pc # "idle" => proc'[q].pc # "idle"
      BY <1>5, <1>6, <1>7, <2>1 DEF ProcInv, Goes, Same, Moves
    <2>4. QED
      BY <2>1, <2>2, <2>3, Gathered
  <1>9. CASE UNCHANGED box
    <2>1. UNCHANGED Podman /\ lock' \in Procs \cup {NoProc}
      BY <1>1, <1>2, <1>9 DEF Podman, TypeOK
    <2>2. pc \in PCs \ {"idle"}
      BY <1>3, <1>4
    <2>3. QED
      BY <1>5, <1>6, <1>7, <2>1, <2>2, QuietGoes DEF ProcInv
  <1>10. QED
    BY <1>8, <1>9 DEF UnpauseIt

-----------------------------------------------------------------------------
(* A kill *)

LEMMA KilledStep ==
  ASSUME IInv, NEW p \in Procs, Killed(p)
  PROVE  Good
  <1>1. TypeOK /\ BoxInv
    BY DEF IInv
  <1>2. Idles(p, NoCode) /\ UNCHANGED <<used, exit, by>> /\ lock' \in Procs \cup {NoProc}
    BY <1>1, ReturnIdles, Numbers DEF Killed, TypeOK
  <1>3. ProcInv(p)'
    BY <1>1, <1>2, IdleInv, OwnIsNumber
  <1>4. \A q \in Procs : Surfaces(q) /\ Leaves(q)
    <2>1. Surfaces(p) /\ Leaves(p)
      BY <1>2 DEF Idles, Surfaces, Leaves, Returns
    <2>2. QED
      BY <1>2, <2>1, OthersReturnNot DEF Idles
  <1>5. Apart'
    BY <1>2, ApartKeeps DEF IInv, Idles
  <1>6. CASE UNCHANGED box
    BY <1>2, <1>3, <1>4, <1>6, QuietStep DEF Idles, Podman
  <1>7. CASE proc[p].pc = "boot" /\ box.id = proc[p].own /\ box' = BootBox
    <2>1. /\ box' \in Box /\ BoxInv' /\ Kept
          /\ \A q \in Procs \ {p} : proc'[q] = proc[q] => ProcInv(q)'
      BY <1>2, <1>7, Booted
    <2>2. TypeOK'
      BY <1>1, <1>2, <2>1 DEF TypeOK, Idles, Moves
    <2>3. \A q \in Procs : ProcInv(q)'
      BY <1>2, <1>3, <2>1 DEF Idles, Moves
    <2>4. QED
      BY <1>4, <1>5, <2>1, <2>2, <2>3 DEF Good, IInv
  <1>8. QED
    BY <1>6, <1>7 DEF Killed, At, BootBox

-----------------------------------------------------------------------------
(* Every step *)

LEMMA IInvInit ==
  ASSUME Init
  PROVE  IInv
  <1>1. TypeOK
    BY BoxesAssumption, AttemptsAssumption, NoBoxIs, PcsAre
       DEF Init, TypeOK, Idle, Command, Codes, Ends, Kinds
  <1>2. BoxInv
    BY BoxesAssumption, NoBoxIs DEF Init, BoxInv
  <1>3. Apart /\ \A p \in Procs : ProcInv(p)
    BY DEF Init, Idle, Apart, ProcInv, OwnInv, AttInv, KindInv, DueInv, MineInv, Tied, Attaching
  <1>4. QED
    BY <1>1, <1>2, <1>3 DEF IInv

LEMMA StutterStep ==
  ASSUME IInv, UNCHANGED vars
  PROVE  Good
  <1>1. TypeOK' /\ BoxInv' /\ Kept /\ UNCHANGED Podman /\ proc' = proc
    BY DEF IInv, TypeOK, BoxInv, Kept, Live, vars, Podman
  <1>2. \A q \in Procs : ProcInv(q)'
    BY <1>1, SameKeeps DEF IInv
  <1>3. QED
    BY <1>1, <1>2, Gathered

LEMMA NextStep ==
  ASSUME IInv, [Next]_vars
  PROVE  Good
  <1>1. CASE BoxSteps
    BY <1>1, BoxStarts, BoxGivesUp, BoxGoes, BoxPauses, BoxUnpauses, AgentStep DEF BoxSteps
  <1>2. ASSUME NEW p \in Procs, Launches(p) PROVE Good
    BY <1>2, LookStep, ClearStep, BlockedStep, LockStep, CreateStep, BootStep, WaitStep,
       InsideStep, UnlockStep DEF Launches
  <1>3. ASSUME NEW p \in Procs, Attaches(p) PROVE Good
    BY <1>3, ReadyStep, SeenStep, AttachStep, JudgeStep, SessionStep, AwaitStep, CodeStep,
       LogsStep, LostStep, AfterStep, OverStep, TeardownStep DEF Attaches
  <1>4. ASSUME NEW p \in Procs, Stops(p) PROVE Good
    BY <1>4, FoundStep, AskStep, UnpauseStep, SweepStep, CheckStep DEF Stops
  <1>5. ASSUME NEW p \in Procs, Detach(p) \/ Killed(p) \/ \E kind \in Kinds : Begin(p, kind)
        PROVE  Good
    BY <1>5, DetachStep, KilledStep, BeginStep
  <1>6. QED
    BY <1>1, <1>2, <1>3, <1>4, <1>5, StutterStep DEF Next, Step

\* Launch keeps its types, whatever the commands do to the box: a container's number
\* and code and what a command remembers of them stay in range.
THEOREM TypeCorrect == Spec => []TypeOK
  <1>1. Init => IInv
    BY IInvInit
  <1>2. IInv /\ [Next]_vars => IInv'
    BY NextStep DEF Good
  <1>3. IInv => TypeOK
    BY DEF IInv
  <1>4. QED
    BY <1>1, <1>2, <1>3, PTL DEF Spec

\* A live session ends by itself or by a stop that was asked for: what _run_container
\* clears away before a launch and tears down after it is never a live box, however
\* many commands there are.
THEOREM LiveBoxIsKept == Spec => LiveBoxKept
  <1>1. Init => IInv
    BY IInvInit
  <1>2. IInv /\ [Next]_vars => IInv'
    BY NextStep DEF Good
  <1>3. IInv /\ [Next]_vars => [Kept]_vars
    BY NextStep DEF Good
  <1>4. Spec => [][Kept]_vars
    BY <1>1, <1>2, <1>3, PTL DEF Spec
  <1>5. QED
    BY <1>4 DEF LiveBoxKept, Kept

\* The code a command returns is that of the box that ended under it, whatever tmux
\* said of the attach and whoever launched the next box meanwhile, unless another
\* command removed the container before _container_exit_code read it, or should_run_setup
\* says that the setup did not take: then it is 1.
THEOREM ExitCodeIsSurfaced == Spec => ExitCodeSurfaces
  <1>1. Init => IInv
    BY IInvInit
  <1>2. IInv /\ [Next]_vars => IInv'
    BY NextStep DEF Good
  <1>3. IInv /\ [Next]_vars => [\A p \in Procs : Surfaces(p)]_vars
    BY NextStep DEF Good
  <1>4. Spec => [][\A p \in Procs : Surfaces(p)]_vars
    BY <1>1, <1>2, <1>3, PTL DEF Spec
  <1>5. QED
    BY <1>4 DEF ExitCodeSurfaces, Surfaces, ForIt

\* _teardown_persistent_box and the sweep of _stop_one leave no container of a box
\* that ended under the command, or that a stop found and reported stopped; the one
\* return without them is that of a setup that did not take.
THEOREM NothingIsLeft == Spec => NothingLeftBehind
  <1>1. Init => IInv
    BY IInvInit
  <1>2. IInv /\ [Next]_vars => IInv'
    BY NextStep DEF Good
  <1>3. IInv /\ [Next]_vars => [\A p \in Procs : Leaves(p)]_vars
    BY NextStep DEF Good
  <1>4. Spec => [][\A p \in Procs : Leaves(p)]_vars
    BY <1>1, <1>2, <1>3, PTL DEF Spec
  <1>5. QED
    BY <1>4 DEF NothingLeftBehind, Leaves

=============================================================================
