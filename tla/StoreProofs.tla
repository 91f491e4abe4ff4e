---------------------------- MODULE StoreProofs ----------------------------
(***************************************************************************)
(* The two stores a box's data is kept in.                                 *)
(*                                                                         *)
(* The credential store, for any boxes, watchers, commands and             *)
(* credentials: nothing newer is overwritten, in the store or in a box,    *)
(* and a signal is lowered only when it was served.                        *)
(*                                                                         *)
(* The snapshots of a vault, for any entries and any number of snapshots:  *)
(* no step of a restore loses the last copy of anything, and a restore     *)
(* that returns is all or nothing.                                         *)
(*                                                                         *)
(* The two share no state: each theorem is about one of the specifications.*)
(***************************************************************************)
EXTENDS CredsWriteback, Snapshots, TLAPS

Guarded == Inside \cup {"copy"}

\* Whoever works at something works for a box.
BoxNamed == \A j \in Jobs : job[j].pc # "none" => job[j].box \in Boxes

\* The processes inside the lock's sections and its holder are the same.
LockHeld == \A j \in Jobs : job[j].pc \in Guarded <=> lock = j

\* No credential is newer than the last one issued, and what passed the gate is
\* still newer than the store.
StoreInv ==
  /\ store <= newest /\ \A b \in Boxes : cred[b] <= newest
  /\ \A j \in Jobs : /\ job[j].got <= newest
                     /\ job[j].pc = "replace" => job[j].got > store

\* What a signal is owed is in the box, then in the writeback's hands, then in
\* the store; and a copy into a box still brings it a newer credential.
SignalInv ==
  /\ \A b \in Boxes : due[b] <= cred[b]
  /\ \A c \in Commands : job[c].pc = "copy" => store > cred[job[c].box]
  /\ \A j \in Jobs :
       /\ job[j].pc = "read" => job[j].owed <= cred[job[j].box]
       /\ job[j].pc \in {"gate", "replace"} => job[j].owed <= job[j].got
       /\ job[j].pc = "clear" => job[j].owed <= store

IInv == TypeOK /\ BoxNamed /\ LockHeld /\ StoreInv

USE MaxCredAssumption, MaxFailsAssumption, JobsAssumption, NoBoxAssumption DEF Creds, Jobs

-----------------------------------------------------------------------------
\* The helpers' types.
LEMMA ForTyped ==
  ASSUME NEW b \in Boxes \cup {NoBox}, NEW pc \in PCs, NEW after \in {"none", "poll", "stop"}
  PROVE  /\ For(b, pc, after) \in Job
         /\ For(b, pc, after).pc = pc /\ For(b, pc, after).box = b
         /\ For(b, pc, after).got = 0
BY DEF For, Job

LEMMA NoneTyped == NoneYet \in Job /\ NoneYet.pc = "none" /\ NoneYet.got = 0
BY ForTyped DEF NoneYet, PCs

LEMMA JobTyped ==
  ASSUME TypeOK, NEW j \in Jobs
  PROVE  /\ job[j] \in Job /\ job[j].pc \in PCs /\ job[j].box \in Boxes \cup {NoBox}
         /\ job[j].got \in Creds /\ job[j].owed \in Creds
         /\ job[j].after \in {"none", "poll", "stop"}
BY DEF TypeOK, Job

LEMMA Numbers ==
  ASSUME TypeOK
  PROVE  /\ store \in Nat /\ newest \in Nat
         /\ \A b \in Boxes : cred[b] \in Nat /\ due[b] \in Nat
         /\ \A j \in Jobs : job[j].got \in Nat /\ job[j].owed \in Nat
<1>1. \A j \in Jobs : job[j].got \in Creds /\ job[j].owed \in Creds
  BY JobTyped
<1>2. QED
  BY <1>1 DEF TypeOK

\* Init: nobody works, and what a flag owes is what its box has.
LEMMA InvInit == Init => IInv /\ SignalInv
<1> SUFFICES ASSUME Init PROVE IInv /\ SignalInv
  OBVIOUS
<1>1. TypeOK
  BY NoneTyped DEF Init, TypeOK
<1>2. \A j \in Jobs : job[j].pc = "none" /\ job[j].got = 0
  BY NoneTyped DEF Init
<1>3. BoxNamed /\ LockHeld
  BY <1>2 DEF Init, BoxNamed, LockHeld, Guarded, Inside
<1>4. StoreInv
  BY <1>2 DEF Init, StoreInv
<1>5. SignalInv
  BY <1>2 DEF Init, SignalInv
<1>6. QED
  BY <1>1, <1>3, <1>4, <1>5 DEF IInv

-----------------------------------------------------------------------------
(* How a step moves one process. *)

LEMMA GotoMoves ==
  ASSUME TypeOK, NEW j \in Jobs, NEW pc \in PCs, Goto(j, pc)
  PROVE  /\ job' \in [Jobs -> Job]
         /\ \A k \in Jobs \ {j} : job'[k] = job[k]
         /\ job'[j].pc = pc /\ job'[j].box = job[j].box /\ job'[j].got = job[j].got
         /\ job'[j].owed = job[j].owed
<1>1. job'[j] = [job[j] EXCEPT !.pc = pc] /\ \A k \in Jobs \ {j} : job'[k] = job[k]
  BY DEF TypeOK, Goto, Job
<1>2. job' \in [Jobs -> Job]
  BY DEF TypeOK, Goto, Job
<1>3. QED
  BY <1>1, <1>2 DEF TypeOK, Job

LEMMA BecomesMoves ==
  ASSUME TypeOK, NEW j \in Jobs, NEW r \in Job, job' = [job EXCEPT ![j] = r]
  PROVE  /\ job' \in [Jobs -> Job]
         /\ \A k \in Jobs \ {j} : job'[k] = job[k]
         /\ job'[j] = r
BY DEF TypeOK

LEMMA ForMoves ==
  ASSUME TypeOK, NEW j \in Jobs, NEW b \in Boxes, NEW pc \in PCs,
         NEW after \in {"none", "poll", "stop"},
         job' = [job EXCEPT ![j] = For(b, pc, after)]
  PROVE  /\ job' \in [Jobs -> Job]
         /\ \A k \in Jobs \ {j} : job'[k] = job[k]
         /\ job'[j].pc = pc /\ job'[j].box = b /\ job'[j].got = 0
<1> DEFINE r == For(b, pc, after)
<1>1. r \in Job /\ r.pc = pc /\ r.box = b /\ r.got = 0
  BY ForTyped
<1> HIDE DEF r
<1>2. job' = [job EXCEPT ![j] = r]
  BY DEF r
<1>3. QED
  BY <1>1, <1>2, BecomesMoves

LEMMA ExitMoves ==
  ASSUME TypeOK, NEW j \in Jobs, job' = [job EXCEPT ![j] = NoneYet]
  PROVE  /\ job' \in [Jobs -> Job]
         /\ \A k \in Jobs \ {j} : job'[k] = job[k]
         /\ job'[j].pc = "none" /\ job'[j].got = 0
BY NoneTyped, BecomesMoves

LEMMA ReturnMoves ==
  ASSUME TypeOK, NEW j \in Jobs, job[j].box \in Boxes, Return(j)
  PROVE  /\ job' \in [Jobs -> Job]
         /\ \A k \in Jobs \ {j} : job'[k] = job[k]
         /\ job'[j].pc \in {"none", "poll", "stop"} /\ job'[j].got = 0
         /\ job'[j].pc # "none" => job'[j].box = job[j].box
<1>1. CASE job[j].after = "none"
  BY <1>1, ExitMoves DEF Return
<1>2. CASE job[j].after # "none"
  <2> DEFINE a == job[j].after
             b == job[j].box
  <2>1. a \in {"poll", "stop"} /\ a \in PCs /\ b \in Boxes
    BY <1>2, JobTyped DEF PCs
  <2>2. job' = [job EXCEPT ![j] = For(b, a, "none")]
    BY <1>2 DEF Return
  <2> HIDE DEF a, b
  <2>3. /\ job' \in [Jobs -> Job] /\ \A k \in Jobs \ {j} : job'[k] = job[k]
        /\ job'[j].pc = a /\ job'[j].box = b /\ job'[j].got = 0
    <3> DEFINE r == For(b, a, "none")
    <3>1. r \in Job /\ r.pc = a /\ r.box = b /\ r.got = 0
      BY <2>1, ForTyped
    <3>2. job' = [job EXCEPT ![j] = r]
      BY <2>2
    <3> HIDE DEF r
    <3>3. QED
      BY <3>1, <3>2, BecomesMoves
  <2>4. QED
    BY <2>1, <2>3 DEF b
<1>3. QED
  BY <1>1, <1>2

-----------------------------------------------------------------------------
(* Every action keeps the invariants. *)

\* The environment moves no process; a host login stays out of the sections.
LEMMA HostLoginKeeps ==
  ASSUME IInv, HostLogin
  PROVE  IInv' /\ (SignalInv /\ ~RefreshRaces => SignalInv')
<1>0. TypeOK
  BY DEF IInv
<1>1. job' = job
  BY DEF HostLogin
<1>2. TypeOK'
  BY <1>0, <1>1 DEF TypeOK, At, HostLogin
<1>3. BoxNamed' /\ LockHeld'
  BY <1>0, <1>1 DEF IInv, TypeOK, BoxNamed, LockHeld, Guarded, Inside, At, HostLogin
<1>4. StoreInv'
  BY <1>0, <1>1, Numbers DEF IInv, TypeOK, LockHeld, StoreInv, Guarded, Inside, At, HostLogin
<1>5. SignalInv /\ ~RefreshRaces => SignalInv'
  BY <1>0, <1>1, Numbers DEF IInv, TypeOK, BoxNamed, LockHeld, StoreInv, SignalInv, Guarded,
     Inside, At, HostLogin
<1>6. QED
  BY <1>2, <1>3, <1>4, <1>5 DEF IInv

\* A rotation stays out of a copy into its box.
LEMMA RotateKeeps ==
  ASSUME IInv, NEW b \in Boxes, Rotate(b)
  PROVE  IInv' /\ (SignalInv /\ ~RefreshRaces => SignalInv')
<1>0. TypeOK
  BY DEF IInv
<1>1. job' = job
  BY DEF Rotate
<1>a. /\ newest' = newest + 1 /\ cred'[b] = newest + 1 /\ store' = store /\ due' = due
      /\ \A x \in Boxes \ {b} : cred'[x] = cred[x]
  BY <1>0 DEF TypeOK, Rotate
<1>b. ~RefreshRaces => \A c \in Commands : ~(job[c].pc = "copy" /\ job[c].box = b)
  BY DEF Rotate, At
<1>2. TypeOK'
  BY <1>0, <1>1, <1>a, <1>b DEF TypeOK, At, Rotate
<1>3. BoxNamed' /\ LockHeld'
  BY <1>0, <1>1, <1>a, <1>b DEF IInv, TypeOK, BoxNamed, LockHeld, Guarded, Inside, At, Rotate
<1>4. StoreInv'
  BY <1>0, <1>1, <1>a, <1>b, Numbers DEF IInv, TypeOK, LockHeld, StoreInv, Guarded, Inside, At, Rotate
<1>5. SignalInv /\ ~RefreshRaces => SignalInv'
  BY <1>0, <1>1, <1>a, <1>b, Numbers DEF IInv, TypeOK, BoxNamed, LockHeld, StoreInv, SignalInv, Guarded,
     Inside, At, Rotate
<1>6. QED
  BY <1>2, <1>3, <1>4, <1>5 DEF IInv

LEMMA DetachKeeps ==
  ASSUME IInv, NEW b \in Boxes, Detach(b)
  PROVE  IInv' /\ (SignalInv /\ ~RefreshRaces => SignalInv')
<1>0. TypeOK
  BY DEF IInv
<1>1. job' = job
  BY DEF Detach
<1>2. TypeOK'
  BY <1>0, <1>1 DEF TypeOK, At, Detach
<1>3. BoxNamed' /\ LockHeld'
  BY <1>0, <1>1 DEF IInv, TypeOK, BoxNamed, LockHeld, Guarded, Inside, At, Detach
<1>4. StoreInv'
  BY <1>0, <1>1, Numbers DEF IInv, TypeOK, LockHeld, StoreInv, Guarded, Inside, At, Detach
<1>5. SignalInv /\ ~RefreshRaces => SignalInv'
  BY <1>0, <1>1, Numbers DEF IInv, TypeOK, BoxNamed, LockHeld, StoreInv, SignalInv, Guarded,
     Inside, At, Detach
<1>6. QED
  BY <1>2, <1>3, <1>4, <1>5 DEF IInv

LEMMA BoxEndsKeeps ==
  ASSUME IInv, NEW b \in Boxes, BoxEnds(b)
  PROVE  IInv' /\ (SignalInv /\ ~RefreshRaces => SignalInv')
<1>0. TypeOK
  BY DEF IInv
<1>1. job' = job
  BY DEF BoxEnds
<1>2. TypeOK'
  BY <1>0, <1>1 DEF TypeOK, At, BoxEnds
<1>3. BoxNamed' /\ LockHeld'
  BY <1>0, <1>1 DEF IInv, TypeOK, BoxNamed, LockHeld, Guarded, Inside, At, BoxEnds
<1>4. StoreInv'
  BY <1>0, <1>1, Numbers DEF IInv, TypeOK, LockHeld, StoreInv, Guarded, Inside, At, BoxEnds
<1>5. SignalInv /\ ~RefreshRaces => SignalInv'
  BY <1>0, <1>1, Numbers DEF IInv, TypeOK, BoxNamed, LockHeld, StoreInv, SignalInv, Guarded,
     Inside, At, BoxEnds
<1>6. QED
  BY <1>2, <1>3, <1>4, <1>5 DEF IInv

\* A launch refreshes a box that does not run, with the lock free.
LEMMA StartKeeps ==
  ASSUME IInv, NEW c \in Commands, NEW b \in Boxes, Start(c, b)
  PROVE  IInv' /\ (SignalInv /\ ~RefreshRaces => SignalInv')
<1>0. TypeOK
  BY DEF IInv
<1>1. /\ job' \in [Jobs -> Job] /\ \A k \in Jobs \ {c} : job'[k] = job[k]
      /\ job'[c].pc = "boot" /\ job'[c].box = b /\ job'[c].got = 0
  <2>1. c \in Jobs /\ job' = [job EXCEPT ![c] = For(b, "boot", "none")] /\ "boot" \in PCs
    BY DEF Start, PCs, Jobs
  <2>2. QED
    BY <1>0, <2>1, ForMoves
<1>a. /\ store' = store /\ newest' = newest /\ due' = due
      /\ cred'[b] = (IF store > cred[b] THEN store ELSE cred[b])
      /\ \A x \in Boxes \ {b} : cred'[x] = cred[x]
  BY <1>0 DEF TypeOK, Start, Refreshes
<1>2. TypeOK'
  BY <1>0, <1>1, <1>a DEF TypeOK, At, Start
<1>3. BoxNamed' /\ LockHeld'
  BY <1>0, <1>1, <1>a DEF IInv, TypeOK, BoxNamed, LockHeld, Guarded, Inside, At, Start
<1>4. StoreInv'
  BY <1>0, <1>1, <1>a, Numbers DEF IInv, TypeOK, LockHeld, StoreInv, Guarded, Inside, At, Start
<1>5. SignalInv /\ ~RefreshRaces => SignalInv'
  BY <1>0, <1>1, <1>a, Numbers DEF IInv, TypeOK, BoxNamed, LockHeld, StoreInv, SignalInv, Guarded,
     Inside, At, Start
<1>6. QED
  BY <1>2, <1>3, <1>4, <1>5 DEF IInv

LEMMA BootAttachedKeeps ==
  ASSUME IInv, NEW c \in Commands, BootAttached(c)
  PROVE  IInv' /\ (SignalInv /\ ~RefreshRaces => SignalInv')
<1>0. TypeOK
  BY DEF IInv
<1>1. /\ job' \in [Jobs -> Job] /\ \A k \in Jobs \ {c} : job'[k] = job[k]
      /\ job'[c].pc = "attached" /\ job'[c].box = job[c].box /\ job'[c].got = job[c].got
      /\ job'[c].owed = job[c].owed
  BY <1>0, GotoMoves DEF BootAttached, PCs, Inside
<1>2. TypeOK'
  BY <1>0, <1>1 DEF TypeOK, At, BootAttached
<1>3. BoxNamed' /\ LockHeld'
  BY <1>0, <1>1 DEF IInv, TypeOK, BoxNamed, LockHeld, Guarded, Inside, At, BootAttached
<1>4. StoreInv'
  BY <1>0, <1>1, Numbers DEF IInv, TypeOK, LockHeld, StoreInv, Guarded, Inside, At, BootAttached
<1>5. SignalInv /\ ~RefreshRaces => SignalInv'
  BY <1>0, <1>1, Numbers DEF IInv, TypeOK, BoxNamed, LockHeld, StoreInv, SignalInv, Guarded,
     Inside, At, BootAttached
<1>6. QED
  BY <1>2, <1>3, <1>4, <1>5 DEF IInv

LEMMA BootDetachedKeeps ==
  ASSUME IInv, NEW c \in Commands, NEW w \in Watchers, BootDetached(c, w)
  PROVE  IInv' /\ (SignalInv /\ ~RefreshRaces => SignalInv')
<1>0. TypeOK
  BY DEF IInv
<1>a. c # w /\ job[c].box \in Boxes
  BY JobsAssumption DEF IInv, BoxNamed, BootDetached, At
<1>b. For(job[c].box, "spawned", "none") \in Job
      /\ For(job[c].box, "spawned", "none").pc = "spawned"
      /\ For(job[c].box, "spawned", "none").box = job[c].box
      /\ For(job[c].box, "spawned", "none").got = 0
  BY <1>a, ForTyped DEF PCs
<1>1. /\ job' \in [Jobs -> Job] /\ \A k \in Jobs \ {c, w} : job'[k] = job[k]
      /\ job'[c].pc = "none" /\ job'[c].got = 0
      /\ job'[w].pc = "spawned" /\ job'[w].box = job[c].box /\ job'[w].got = 0
  <2>1. /\ job' \in [Jobs -> Job] /\ \A k \in Jobs \ {c, w} : job'[k] = job[k]
        /\ job'[c] = NoneYet /\ job'[w] = For(job[c].box, "spawned", "none")
    BY <1>0, <1>a, <1>b, NoneTyped DEF TypeOK, BootDetached
  <2>2. QED
    BY <2>1, <1>b, NoneTyped
<1>2. TypeOK'
  BY <1>0, <1>a, <1>1 DEF TypeOK, At, BootDetached
<1>3. BoxNamed' /\ LockHeld'
  BY <1>0, <1>a, <1>1 DEF IInv, TypeOK, BoxNamed, LockHeld, Guarded, Inside, At, BootDetached
<1>4. StoreInv'
  BY <1>0, <1>a, <1>1, Numbers DEF IInv, TypeOK, LockHeld, StoreInv, Guarded, Inside, At, BootDetached
<1>5. SignalInv /\ ~RefreshRaces => SignalInv'
  BY <1>0, <1>a, <1>1, Numbers DEF IInv, TypeOK, BoxNamed, LockHeld, StoreInv, SignalInv, Guarded,
     Inside, At, BootDetached
<1>6. QED
  BY <1>2, <1>3, <1>4, <1>5 DEF IInv

\* A reattach that found the store newer holds the lock over its copy.
LEMMA ReattachKeeps ==
  ASSUME IInv, NEW c \in Commands, NEW b \in Boxes, Reattach(c, b)
  PROVE  IInv' /\ (SignalInv /\ ~RefreshRaces => SignalInv')
<1>0. TypeOK
  BY DEF IInv
<1>1. /\ job' \in [Jobs -> Job] /\ \A k \in Jobs \ {c} : job'[k] = job[k]
      /\ job'[c].pc = (IF Refreshes(b) THEN "copy" ELSE "attached")
      /\ job'[c].box = b /\ job'[c].got = 0
  <2> DEFINE q == IF Refreshes(b) THEN "copy" ELSE "attached"
  <2>1. q \in PCs /\ c \in Jobs
    BY DEF PCs, Jobs
  <2>2. job' = [job EXCEPT ![c] = For(b, q, "none")]
    BY DEF Reattach
  <2> HIDE DEF q
  <2>3. /\ job' \in [Jobs -> Job] /\ \A k \in Jobs \ {c} : job'[k] = job[k]
        /\ job'[c].pc = q /\ job'[c].box = b /\ job'[c].got = 0
    <3> DEFINE r == For(b, q, "none")
    <3>1. r \in Job /\ r.pc = q /\ r.box = b /\ r.got = 0
      BY <2>1, ForTyped
    <3>2. job' = [job EXCEPT ![c] = r]
      BY <2>2
    <3> HIDE DEF r
    <3>3. QED
      BY <1>0, <2>1, <3>1, <3>2, BecomesMoves
  <2>4. QED
    BY <2>3 DEF q
<1>2. TypeOK'
  BY <1>0, <1>1 DEF TypeOK, At, Reattach, Refreshes
<1>3. BoxNamed' /\ LockHeld'
  BY <1>0, <1>1 DEF IInv, TypeOK, BoxNamed, LockHeld, Guarded, Inside, At, Reattach, Refreshes
<1>4. StoreInv'
  BY <1>0, <1>1, Numbers DEF IInv, TypeOK, LockHeld, StoreInv, Guarded, Inside, At, Reattach, Refreshes
<1>5. SignalInv /\ ~RefreshRaces => SignalInv'
  BY <1>0, <1>1, Numbers DEF IInv, TypeOK, BoxNamed, LockHeld, StoreInv, SignalInv, Guarded,
     Inside, At, Reattach, Refreshes
<1>6. QED
  BY <1>2, <1>3, <1>4, <1>5 DEF IInv

\* The store is still newer than the box when it is copied.
LEMMA CopyKeeps ==
  ASSUME IInv, NEW c \in Commands, Copy(c)
  PROVE  IInv' /\ (SignalInv /\ ~RefreshRaces => SignalInv')
<1>0. TypeOK
  BY DEF IInv
<1>1. /\ job' \in [Jobs -> Job] /\ \A k \in Jobs \ {c} : job'[k] = job[k]
      /\ job'[c].pc = "attached" /\ job'[c].box = job[c].box /\ job'[c].got = job[c].got
      /\ job'[c].owed = job[c].owed
  BY <1>0, GotoMoves DEF Copy, PCs, Inside
<1>a. /\ store' = store /\ newest' = newest /\ due' = due
      /\ job[c].box \in Boxes /\ cred'[job[c].box] = store
      /\ \A x \in Boxes \ {job[c].box} : cred'[x] = cred[x]
  BY <1>0 DEF IInv, BoxNamed, At, TypeOK, Copy
<1>2. TypeOK'
  BY <1>0, <1>1, <1>a DEF TypeOK, At, Copy
<1>3. BoxNamed' /\ LockHeld'
  BY <1>0, <1>1, <1>a DEF IInv, TypeOK, BoxNamed, LockHeld, Guarded, Inside, At, Copy
<1>4. StoreInv'
  BY <1>0, <1>1, <1>a, Numbers DEF IInv, TypeOK, LockHeld, StoreInv, Guarded, Inside, At, Copy
<1>5. SignalInv /\ ~RefreshRaces => SignalInv'
  BY <1>0, <1>1, <1>a, Numbers DEF IInv, TypeOK, BoxNamed, LockHeld, StoreInv, SignalInv, Guarded,
     Inside, At, Copy
<1>6. QED
  BY <1>2, <1>3, <1>4, <1>5 DEF IInv

LEMMA LeaveKeeps ==
  ASSUME IInv, NEW c \in Commands, Leave(c)
  PROVE  IInv' /\ (SignalInv /\ ~RefreshRaces => SignalInv')
<1>0. TypeOK
  BY DEF IInv
<1>1. /\ job' \in [Jobs -> Job] /\ \A k \in Jobs \ {c} : job'[k] = job[k]
      /\ job'[c].pc = "lock" /\ job'[c].box = job[c].box /\ job'[c].got = job[c].got
      /\ job'[c].owed = job[c].owed
  BY <1>0, GotoMoves DEF Leave, PCs, Inside
<1>2. TypeOK'
  BY <1>0, <1>1 DEF TypeOK, At, Leave
<1>3. BoxNamed' /\ LockHeld'
  BY <1>0, <1>1 DEF IInv, TypeOK, BoxNamed, LockHeld, Guarded, Inside, At, Leave
<1>4. StoreInv'
  BY <1>0, <1>1, Numbers DEF IInv, TypeOK, LockHeld, StoreInv, Guarded, Inside, At, Leave
<1>5. SignalInv /\ ~RefreshRaces => SignalInv'
  BY <1>0, <1>1, Numbers DEF IInv, TypeOK, BoxNamed, LockHeld, StoreInv, SignalInv, Guarded,
     Inside, At, Leave
<1>6. QED
  BY <1>2, <1>3, <1>4, <1>5 DEF IInv

LEMMA StopKeeps ==
  ASSUME IInv, NEW c \in Commands, NEW b \in Boxes, Stop(c, b)
  PROVE  IInv' /\ (SignalInv /\ ~RefreshRaces => SignalInv')
<1>0. TypeOK
  BY DEF IInv
<1>1. /\ job' \in [Jobs -> Job] /\ \A k \in Jobs \ {c} : job'[k] = job[k]
      /\ job'[c].pc = "lock" /\ job'[c].box = b /\ job'[c].got = 0
  <2>1. job' = [job EXCEPT ![c] = For(b, "lock", "stop")] /\ "lock" \in PCs
    BY DEF Stop, PCs
  <2>2. QED
    BY <1>0, <2>1, ForMoves
<1>2. TypeOK'
  BY <1>0, <1>1 DEF TypeOK, At, Stop
<1>3. BoxNamed' /\ LockHeld'
  BY <1>0, <1>1 DEF IInv, TypeOK, BoxNamed, LockHeld, Guarded, Inside, At, Stop
<1>4. StoreInv'
  BY <1>0, <1>1, Numbers DEF IInv, TypeOK, LockHeld, StoreInv, Guarded, Inside, At, Stop
<1>5. SignalInv /\ ~RefreshRaces => SignalInv'
  BY <1>0, <1>1, Numbers DEF IInv, TypeOK, BoxNamed, LockHeld, StoreInv, SignalInv, Guarded,
     Inside, At, Stop
<1>6. QED
  BY <1>2, <1>3, <1>4, <1>5 DEF IInv

LEMMA StopBoxKeeps ==
  ASSUME IInv, NEW c \in Commands, StopBox(c)
  PROVE  IInv' /\ (SignalInv /\ ~RefreshRaces => SignalInv')
<1>0. TypeOK
  BY DEF IInv
<1>1. /\ job' \in [Jobs -> Job] /\ \A k \in Jobs \ {c} : job'[k] = job[k]
      /\ job'[c].pc = "none" /\ job'[c].got = 0
  BY <1>0, ExitMoves DEF StopBox
<1>2. TypeOK'
  BY <1>0, <1>1 DEF TypeOK, At, StopBox
<1>3. BoxNamed' /\ LockHeld'
  BY <1>0, <1>1 DEF IInv, TypeOK, BoxNamed, LockHeld, Guarded, Inside, At, StopBox
<1>4. StoreInv'
  BY <1>0, <1>1, Numbers DEF IInv, TypeOK, LockHeld, StoreInv, Guarded, Inside, At, StopBox
<1>5. SignalInv /\ ~RefreshRaces => SignalInv'
  BY <1>0, <1>1, Numbers DEF IInv, TypeOK, BoxNamed, LockHeld, StoreInv, SignalInv, Guarded,
     Inside, At, StopBox
<1>6. QED
  BY <1>2, <1>3, <1>4, <1>5 DEF IInv

LEMMA WatchKeeps ==
  ASSUME IInv, NEW w \in Watchers, Watch(w)
  PROVE  IInv' /\ (SignalInv /\ ~RefreshRaces => SignalInv')
<1>0. TypeOK
  BY DEF IInv
<1>1. /\ job' \in [Jobs -> Job] /\ \A k \in Jobs \ {w} : job'[k] = job[k]
      /\ job'[w].pc \in {"none", "poll", "probe", "lock"}
      /\ job'[w].pc # "none" => job'[w].box = job[w].box
      /\ job'[w].got \in {0, job[w].got}
  BY <1>0, GotoMoves, ExitMoves DEF Watch, Exit, PCs
<1>2. TypeOK'
  BY <1>0, <1>1 DEF TypeOK, At, Watch
<1>3. BoxNamed' /\ LockHeld'
  BY <1>0, <1>1 DEF IInv, TypeOK, BoxNamed, LockHeld, Guarded, Inside, At, Watch
<1>4. StoreInv'
  BY <1>0, <1>1, Numbers DEF IInv, TypeOK, LockHeld, StoreInv, Guarded, Inside, At, Watch
<1>5. SignalInv /\ ~RefreshRaces => SignalInv'
  BY <1>0, <1>1, Numbers DEF IInv, TypeOK, BoxNamed, LockHeld, StoreInv, SignalInv, Guarded,
     Inside, At, Watch
<1>6. QED
  BY <1>2, <1>3, <1>4, <1>5 DEF IInv

LEMMA ReadFlagKeeps ==
  ASSUME IInv, NEW w \in Watchers, ReadFlag(w)
  PROVE  IInv' /\ (SignalInv /\ ~RefreshRaces => SignalInv')
<1>0. TypeOK
  BY DEF IInv
<1>a. [job[w] EXCEPT !.dirty = flag[job[w].box], !.pc = "probe"] \in Job
  <2>1. flag[job[w].box] \in BOOLEAN
    BY <1>0 DEF IInv, BoxNamed, TypeOK, ReadFlag, At
  <2>2. QED
    BY <1>0, <2>1, JobTyped DEF Job, PCs
<1>1. /\ job' \in [Jobs -> Job] /\ \A k \in Jobs \ {w} : job'[k] = job[k]
      /\ job'[w].pc \in {"none", "poll", "probe", "lock"}
      /\ job'[w].pc # "none" => job'[w].box = job[w].box
      /\ job'[w].got \in {0, job[w].got}
  BY <1>0, <1>a, BecomesMoves, JobTyped DEF ReadFlag, Job
<1>2. TypeOK'
  BY <1>0, <1>1 DEF TypeOK, At, ReadFlag
<1>3. BoxNamed' /\ LockHeld'
  BY <1>0, <1>1 DEF IInv, TypeOK, BoxNamed, LockHeld, Guarded, Inside, At, ReadFlag
<1>4. StoreInv'
  BY <1>0, <1>1, Numbers DEF IInv, TypeOK, LockHeld, StoreInv, Guarded, Inside, At, ReadFlag
<1>5. SignalInv /\ ~RefreshRaces => SignalInv'
  BY <1>0, <1>1, Numbers DEF IInv, TypeOK, BoxNamed, LockHeld, StoreInv, SignalInv, Guarded,
     Inside, At, ReadFlag
<1>6. QED
  BY <1>2, <1>3, <1>4, <1>5 DEF IInv

LEMMA ProbeKeeps ==
  ASSUME IInv, NEW w \in Watchers, Probe(w)
  PROVE  IInv' /\ (SignalInv /\ ~RefreshRaces => SignalInv')
<1>0. TypeOK
  BY DEF IInv
<1>a. job[w].box \in Boxes
  BY DEF IInv, BoxNamed, Probe, At
<1>b. (IF up[job[w].box] THEN "poll" ELSE "none") \in {"none", "poll", "stop"}
  OBVIOUS
<1>1. /\ job' \in [Jobs -> Job] /\ \A k \in Jobs \ {w} : job'[k] = job[k]
      /\ job'[w].pc \in {"none", "poll", "probe", "lock"}
      /\ job'[w].pc # "none" => job'[w].box = job[w].box
      /\ job'[w].got \in {0, job[w].got}
  <2>1. CASE job' = [job EXCEPT ![w] = For(job[w].box, "lock", IF up[job[w].box] THEN "poll" ELSE "none")]
    <3> DEFINE a == IF up[job[w].box] THEN "poll" ELSE "none"
               b == job[w].box
    <3>1. /\ a \in {"none", "poll", "stop"} /\ b \in Boxes /\ w \in Jobs
          /\ "lock" \in PCs /\ job' = [job EXCEPT ![w] = For(b, "lock", a)]
      BY <1>a, <1>b, <2>1 DEF PCs, Jobs
    <3> HIDE DEF a, b
    <3>2. /\ job' \in [Jobs -> Job] /\ \A k \in Jobs \ {w} : job'[k] = job[k]
          /\ job'[w].pc = "lock" /\ job'[w].box = b /\ job'[w].got = 0
      BY <1>0, <3>1, ForMoves
    <3>3. QED
      BY <3>2 DEF b
  <2>2. CASE Goto(w, "poll")
    BY <1>0, <2>2, GotoMoves DEF PCs
  <2>3. CASE Exit(w)
    BY <1>0, <2>3, ExitMoves DEF Exit
  <2>4. QED
    BY <2>1, <2>2, <2>3 DEF Probe
<1>2. TypeOK'
  BY <1>0, <1>1 DEF TypeOK, At, Probe
<1>3. BoxNamed' /\ LockHeld'
  BY <1>0, <1>1 DEF IInv, TypeOK, BoxNamed, LockHeld, Guarded, Inside, At, Probe
<1>4. StoreInv'
  BY <1>0, <1>1, Numbers DEF IInv, TypeOK, LockHeld, StoreInv, Guarded, Inside, At, Probe
<1>5. SignalInv /\ ~RefreshRaces => SignalInv'
  BY <1>0, <1>1, Numbers DEF IInv, TypeOK, BoxNamed, LockHeld, StoreInv, SignalInv, Guarded,
     Inside, At, Probe
<1>6. QED
  BY <1>2, <1>3, <1>4, <1>5 DEF IInv

\* What is owed at the lock is in the box.
LEMMA TakeLockKeeps ==
  ASSUME IInv, NEW j \in Jobs, TakeLock(j)
  PROVE  IInv' /\ (SignalInv /\ ~RefreshRaces => SignalInv')
<1>0. TypeOK
  BY DEF IInv
<1>a. job[j].box \in Boxes /\ due[job[j].box] \in Creds
  BY <1>0 DEF IInv, BoxNamed, TypeOK, TakeLock, At
<1>b. [job[j] EXCEPT !.pc = "read", !.owed = due[job[j].box]] \in Job
  BY <1>0, <1>a, JobTyped DEF Job, PCs, Inside
<1>c. /\ job' \in [Jobs -> Job] /\ \A k \in Jobs \ {j} : job'[k] = job[k]
      /\ job'[j] = [job[j] EXCEPT !.pc = "read", !.owed = due[job[j].box]]
  <2>1. job' = [job EXCEPT ![j] = [job[j] EXCEPT !.pc = "read", !.owed = due[job[j].box]]]
    BY <1>0 DEF TakeLock, TypeOK
  <2>2. QED
    BY <1>0, <1>b, <2>1, BecomesMoves
<1>1. /\ job' \in [Jobs -> Job] /\ \A k \in Jobs \ {j} : job'[k] = job[k]
      /\ job'[j].pc = "read" /\ job'[j].box = job[j].box /\ job'[j].got = job[j].got
      /\ job'[j].owed = due[job[j].box]
  BY <1>0, <1>c, JobTyped DEF Job
<1>2. TypeOK'
  BY <1>0, <1>a, <1>1 DEF TypeOK, At, TakeLock
<1>3. BoxNamed' /\ LockHeld'
  BY <1>0, <1>a, <1>1 DEF IInv, TypeOK, BoxNamed, LockHeld, Guarded, Inside, At, TakeLock
<1>4. StoreInv'
  BY <1>0, <1>a, <1>1, Numbers DEF IInv, TypeOK, LockHeld, StoreInv, Guarded, Inside, At, TakeLock
<1>5. SignalInv /\ ~RefreshRaces => SignalInv'
  BY <1>0, <1>a, <1>1, Numbers DEF IInv, TypeOK, BoxNamed, LockHeld, StoreInv, SignalInv, Guarded,
     Inside, At, TakeLock
<1>6. QED
  BY <1>2, <1>3, <1>4, <1>5 DEF IInv

\* What is owed at the read is in the box that is read; a refused file owes nothing.
LEMMA ReadBoxKeeps ==
  ASSUME IInv, NEW j \in Jobs, ReadBox(j)
  PROVE  IInv' /\ (SignalInv /\ ~RefreshRaces => SignalInv')
<1>0. TypeOK
  BY DEF IInv
<1>a. job[j].box \in Boxes /\ cred[job[j].box] \in Creds
  BY <1>0 DEF IInv, BoxNamed, TypeOK, ReadBox, At
<1>1. /\ job' \in [Jobs -> Job] /\ \A k \in Jobs \ {j} : job'[k] = job[k]
      /\ job'[j].pc = "gate" /\ job'[j].box = job[j].box
      /\ \/ job'[j].got = cred[job[j].box] /\ job'[j].owed = job[j].owed
         \/ job'[j].got = job[j].got /\ job'[j].owed = 0
  <2>a. "gate" \in PCs /\ 0 \in Creds
    BY DEF PCs, Inside
  <2>b. [job[j] EXCEPT !.pc = "gate", !.got = cred[job[j].box]] \in Job
    BY <1>0, <1>a, <2>a, JobTyped DEF Job
  <2>c. [job[j] EXCEPT !.pc = "gate", !.owed = 0] \in Job
    BY <1>0, <2>a, JobTyped DEF Job
  <2>1. [job[j] EXCEPT !.pc = "gate", !.got = cred[job[j].box]] \in Job
        /\ [job[j] EXCEPT !.pc = "gate", !.owed = 0] \in Job
    BY <2>b, <2>c
  <2>2. CASE job' = [job EXCEPT ![j] = [@ EXCEPT !.pc = "gate", !.got = cred[job[j].box]]]
    BY <1>0, <2>1, <2>2, BecomesMoves, JobTyped DEF Job, TypeOK
  <2>3. CASE job' = [job EXCEPT ![j] = [@ EXCEPT !.pc = "gate", !.owed = 0]]
    BY <1>0, <2>1, <2>3, BecomesMoves, JobTyped DEF Job, TypeOK
  <2>4. QED
    BY <2>2, <2>3 DEF ReadBox
<1>2. TypeOK'
  BY <1>0, <1>a, <1>1 DEF TypeOK, At, ReadBox
<1>3. BoxNamed' /\ LockHeld'
  BY <1>0, <1>a, <1>1 DEF IInv, TypeOK, BoxNamed, LockHeld, Guarded, Inside, At, ReadBox
<1>4. StoreInv'
  BY <1>0, <1>a, <1>1, Numbers DEF IInv, TypeOK, LockHeld, StoreInv, Guarded, Inside, At, ReadBox
<1>5. SignalInv /\ ~RefreshRaces => SignalInv'
  BY <1>0, <1>a, <1>1, Numbers DEF IInv, TypeOK, BoxNamed, LockHeld, StoreInv, SignalInv, Guarded,
     Inside, At, ReadBox
<1>6. QED
  BY <1>2, <1>3, <1>4, <1>5 DEF IInv

\* The gate: what goes on is newer than the store, the rest is in it already.
LEMMA GateKeeps ==
  ASSUME IInv, NEW j \in Jobs, Gate(j)
  PROVE  IInv' /\ (SignalInv /\ ~RefreshRaces => SignalInv')
<1>0. TypeOK
  BY DEF IInv
<1>a. (IF job[j].got > store THEN "replace" ELSE "clear") \in PCs
  BY DEF PCs, Inside
<1>1. /\ job' \in [Jobs -> Job] /\ \A k \in Jobs \ {j} : job'[k] = job[k]
      /\ job'[j].pc = (IF job[j].got > store THEN "replace" ELSE "clear")
      /\ job'[j].box = job[j].box /\ job'[j].got = job[j].got
      /\ job'[j].owed = job[j].owed
  BY <1>0, <1>a, GotoMoves DEF Gate
<1>2. TypeOK'
  BY <1>0, <1>1 DEF TypeOK, At, Gate
<1>3. BoxNamed' /\ LockHeld'
  BY <1>0, <1>1 DEF IInv, TypeOK, BoxNamed, LockHeld, Guarded, Inside, At, Gate
<1>4. StoreInv'
  BY <1>0, <1>1, Numbers DEF IInv, TypeOK, LockHeld, StoreInv, Guarded, Inside, At, Gate
<1>5. SignalInv /\ ~RefreshRaces => SignalInv'
  BY <1>0, <1>1, Numbers DEF IInv, TypeOK, BoxNamed, LockHeld, StoreInv, SignalInv, Guarded,
     Inside, At, Gate
<1>6. QED
  BY <1>2, <1>3, <1>4, <1>5 DEF IInv

\* What passed the gate is still newer than the store.
LEMMA ReplaceKeeps ==
  ASSUME IInv, NEW j \in Jobs, Replace(j)
  PROVE  IInv' /\ (SignalInv /\ ~RefreshRaces => SignalInv')
<1>0. TypeOK
  BY DEF IInv
<1>a. job[j].got \in Creds
  BY <1>0, JobTyped
<1>1. /\ job' \in [Jobs -> Job] /\ \A k \in Jobs \ {j} : job'[k] = job[k]
      /\ job'[j].pc = "clear" /\ job'[j].box = job[j].box /\ job'[j].got = job[j].got
      /\ job'[j].owed = job[j].owed
  BY <1>0, GotoMoves DEF Replace, PCs, Inside
<1>2. TypeOK'
  BY <1>0, <1>a, <1>1 DEF TypeOK, At, Replace
<1>3. BoxNamed' /\ LockHeld'
  BY <1>0, <1>a, <1>1 DEF IInv, TypeOK, BoxNamed, LockHeld, Guarded, Inside, At, Replace
<1>4. StoreInv'
  BY <1>0, <1>a, <1>1, Numbers DEF IInv, TypeOK, LockHeld, StoreInv, Guarded, Inside, At, Replace
<1>5. SignalInv /\ ~RefreshRaces => SignalInv'
  BY <1>0, <1>a, <1>1, Numbers DEF IInv, TypeOK, BoxNamed, LockHeld, StoreInv, SignalInv, Guarded,
     Inside, At, Replace
<1>6. QED
  BY <1>2, <1>3, <1>4, <1>5 DEF IInv

LEMMA FailKeeps ==
  ASSUME IInv, NEW j \in Jobs, Fail(j)
  PROVE  IInv' /\ (SignalInv /\ ~RefreshRaces => SignalInv')
<1>0. TypeOK
  BY DEF IInv
<1>a. job[j].box \in Boxes
  BY DEF IInv, BoxNamed, Fail, At
<1>1. /\ job' \in [Jobs -> Job] /\ \A k \in Jobs \ {j} : job'[k] = job[k]
      /\ job'[j].pc \in {"none", "poll", "stop"} /\ job'[j].got = 0
      /\ job'[j].pc # "none" => job'[j].box = job[j].box
  BY <1>0, <1>a, ReturnMoves DEF Fail
<1>2. TypeOK'
  BY <1>0, <1>a, <1>1 DEF TypeOK, At, Fail
<1>3. BoxNamed' /\ LockHeld'
  BY <1>0, <1>a, <1>1 DEF IInv, TypeOK, BoxNamed, LockHeld, Guarded, Inside, At, Fail
<1>4. StoreInv'
  BY <1>0, <1>a, <1>1, Numbers DEF IInv, TypeOK, LockHeld, StoreInv, Guarded, Inside, At, Fail
<1>5. SignalInv /\ ~RefreshRaces => SignalInv'
  BY <1>0, <1>a, <1>1, Numbers DEF IInv, TypeOK, BoxNamed, LockHeld, StoreInv, SignalInv, Guarded,
     Inside, At, Fail
<1>6. QED
  BY <1>2, <1>3, <1>4, <1>5 DEF IInv

LEMMA ClearKeeps ==
  ASSUME IInv, NEW j \in Jobs, Clear(j)
  PROVE  IInv' /\ (SignalInv /\ ~RefreshRaces => SignalInv')
<1>0. TypeOK
  BY DEF IInv
<1>a. job[j].box \in Boxes
  BY DEF IInv, BoxNamed, Clear, At
<1>1. /\ job' \in [Jobs -> Job] /\ \A k \in Jobs \ {j} : job'[k] = job[k]
      /\ job'[j].pc \in {"none", "poll", "stop"} /\ job'[j].got = 0
      /\ job'[j].pc # "none" => job'[j].box = job[j].box
  BY <1>0, <1>a, ReturnMoves DEF Clear
<1>2. TypeOK'
  BY <1>0, <1>a, <1>1 DEF TypeOK, At, Clear
<1>3. BoxNamed' /\ LockHeld'
  BY <1>0, <1>a, <1>1 DEF IInv, TypeOK, BoxNamed, LockHeld, Guarded, Inside, At, Clear
<1>4. StoreInv'
  BY <1>0, <1>a, <1>1, Numbers DEF IInv, TypeOK, LockHeld, StoreInv, Guarded, Inside, At, Clear
<1>5. SignalInv /\ ~RefreshRaces => SignalInv'
  BY <1>0, <1>a, <1>1, Numbers DEF IInv, TypeOK, BoxNamed, LockHeld, StoreInv, SignalInv, Guarded,
     Inside, At, Clear
<1>6. QED
  BY <1>2, <1>3, <1>4, <1>5 DEF IInv

\* The lock goes with the process that is killed.
LEMMA DieKeeps ==
  ASSUME IInv, NEW j \in Jobs, Die(j)
  PROVE  IInv' /\ (SignalInv /\ ~RefreshRaces => SignalInv')
<1>0. TypeOK
  BY DEF IInv
<1>1. /\ job' \in [Jobs -> Job] /\ \A k \in Jobs \ {j} : job'[k] = job[k]
      /\ job'[j].pc = "none" /\ job'[j].got = 0
  BY <1>0, ExitMoves DEF Die
<1>2. TypeOK'
  BY <1>0, <1>1 DEF TypeOK, At, Die
<1>3. BoxNamed' /\ LockHeld'
  BY <1>0, <1>1 DEF IInv, TypeOK, BoxNamed, LockHeld, Guarded, Inside, At, Die
<1>4. StoreInv'
  BY <1>0, <1>1, Numbers DEF IInv, TypeOK, LockHeld, StoreInv, Guarded, Inside, At, Die
<1>5. SignalInv /\ ~RefreshRaces => SignalInv'
  BY <1>0, <1>1, Numbers DEF IInv, TypeOK, BoxNamed, LockHeld, StoreInv, SignalInv, Guarded,
     Inside, At, Die
<1>6. QED
  BY <1>2, <1>3, <1>4, <1>5 DEF IInv

-----------------------------------------------------------------------------
(* The theorems *)

LEMMA InvStep ==
  ASSUME IInv, [Next]_vars
  PROVE  IInv' /\ (SignalInv /\ ~RefreshRaces => SignalInv')
<1>1. CASE UNCHANGED vars
  BY <1>1 DEF vars, IInv, TypeOK, BoxNamed, LockHeld, StoreInv, SignalInv
<1>2. CASE HostLogin
  BY <1>2, HostLoginKeeps
<1>3. CASE \E b \in Boxes : Rotate(b) \/ Detach(b) \/ BoxEnds(b)
  BY <1>3, RotateKeeps, DetachKeeps, BoxEndsKeeps
<1>4. CASE \E c \in Commands, b \in Boxes : Start(c, b) \/ Reattach(c, b) \/ Stop(c, b)
  BY <1>4, StartKeeps, ReattachKeeps, StopKeeps
<1>5. CASE \E c \in Commands, w \in Watchers : BootDetached(c, w)
  BY <1>5, BootDetachedKeeps
<1>6. CASE \E c \in Commands : BootAttached(c) \/ Copy(c) \/ Leave(c) \/ StopBox(c)
  BY <1>6, BootAttachedKeeps, CopyKeeps, LeaveKeeps, StopBoxKeeps
<1>7. CASE \E w \in Watchers : Tick(w)
  BY <1>7, WatchKeeps, ReadFlagKeeps, ProbeKeeps DEF Tick
<1>8. CASE \E j \in Jobs : Writeback(j)
  BY <1>8, TakeLockKeeps, ReadBoxKeeps, GateKeeps, ReplaceKeeps, ClearKeeps DEF Writeback
<1>9. CASE \E j \in Jobs : Fail(j) \/ Die(j)
  BY <1>9, FailKeeps, DieKeeps
<1>10. QED
  BY <1>1, <1>2, <1>3, <1>4, <1>5, <1>6, <1>7, <1>8, <1>9 DEF Next

LEMMA InvAlways == Spec => []IInv
<1>1. Init => IInv
  BY InvInit
<1>2. IInv /\ [Next]_vars => IInv'
  BY InvStep
<1>3. QED
  BY <1>1, <1>2, PTL DEF Spec

\* Under the discipline, the signal's invariant holds too.
LEMMA SignalAlways == ASSUME ~RefreshRaces PROVE Spec => [](IInv /\ SignalInv)
<1>1. Init => IInv /\ SignalInv
  BY InvInit
<1>2. (IInv /\ SignalInv) /\ [Next]_vars => (IInv /\ SignalInv)'
  BY InvStep
<1>3. QED
  BY <1>1, <1>2, PTL DEF Spec

\* Type correctness of the copies, the flags, the lock and the processes.
THEOREM TypeCorrect == Spec => []TypeOK
<1>1. IInv => TypeOK
  BY DEF IInv
<1>2. QED
  BY <1>1, InvAlways, PTL

\* The gate under the lock: no writeback puts an older credential over a newer
\* one, even when agents rotate while a reattach copies.
THEOREM StoreNeverGoesBack == Spec => StoreMovesForward
<1>1. IInv /\ [Next]_vars => [store' >= store]_store
  <2> SUFFICES ASSUME IInv, [Next]_vars, store' # store PROVE store' >= store
    BY DEF IInv
  <2>1. TypeOK /\ store \in Nat /\ newest \in Nat
    BY Numbers DEF IInv
  <2>2. HostLogin \/ \E j \in Jobs : Replace(j)
    BY DEF Next, vars, Rotate, Detach, BoxEnds, Start, Reattach, Stop, BootDetached,
       BootAttached, Copy, Leave, StopBox, Tick, Watch, ReadFlag, Probe, Writeback,
       TakeLock, ReadBox, Gate, Clear, Fail, Die
  <2>3. CASE HostLogin
    BY <2>1, <2>3 DEF HostLogin, IInv, StoreInv
  <2>4. ASSUME NEW j \in Jobs, Replace(j) PROVE store' >= store
    BY <2>1, <2>4, Numbers DEF Replace, At, IInv, StoreInv
  <2>5. QED
    BY <2>2, <2>3, <2>4
<1>2. QED
  BY <1>1, InvAlways, PTL DEF Spec, StoreMovesForward

\* A box never loses a newer credential to a launch or, when its agent does not
\* rotate during the copy, to a reattach.
THEOREM BoxesNeverGoBack == ASSUME ~RefreshRaces PROVE Spec => BoxMovesForward
<1>1. IInv /\ SignalInv /\ [Next]_vars => [\A b \in Boxes : cred'[b] >= cred[b]]_cred
  <2> SUFFICES ASSUME IInv, SignalInv, [Next]_vars, cred' # cred, NEW b \in Boxes
               PROVE  cred'[b] >= cred[b]
    OBVIOUS
  <2>1. TypeOK /\ store \in Nat /\ newest \in Nat /\ cred \in [Boxes -> Creds]
        /\ \A x \in Boxes : cred[x] \in Nat
    BY Numbers DEF IInv, TypeOK
  <2>2. \/ \E x \in Boxes : Rotate(x)
        \/ \E c \in Commands, x \in Boxes : Start(c, x)
        \/ \E c \in Commands : Copy(c)
    BY DEF Next, vars, HostLogin, Detach, BoxEnds, Reattach, Stop, BootDetached,
       BootAttached, Leave, StopBox, Tick, Watch, ReadFlag, Probe, Writeback,
       TakeLock, ReadBox, Gate, Replace, Clear, Fail, Die
  <2>3. ASSUME NEW x \in Boxes, Rotate(x) PROVE cred'[b] >= cred[b]
    BY <2>1, <2>3 DEF Rotate, IInv, StoreInv
  <2>4. ASSUME NEW c \in Commands, NEW x \in Boxes, Start(c, x) PROVE cred'[b] >= cred[b]
    BY <2>1, <2>4 DEF Start, Refreshes
  <2>5. ASSUME NEW c \in Commands, Copy(c) PROVE cred'[b] >= cred[b]
    BY <2>1, <2>5 DEF Copy, At, SignalInv
  <2>6. QED
    BY <2>2, <2>3, <2>4, <2>5
<1>2. QED
  BY <1>1, SignalAlways, PTL DEF Spec, BoxMovesForward

\* A flag is lowered only by the writeback that brought to the store all that
\* was signalled before it took the lock, or refused the file.
THEOREM SignalsAreServed == ASSUME ~RefreshRaces PROVE Spec => SignalServed
<1>1. IInv /\ SignalInv /\ [Next]_vars =>
        [\A b \in Boxes : flag[b] /\ ~flag'[b] =>
           \E j \in Jobs : /\ job[j].box = b /\ lock = j /\ lock' = NoJob
                           /\ At(j, "clear") /\ store >= job[j].owed]_vars
  <2> SUFFICES ASSUME IInv, SignalInv, [Next]_vars, NEW b \in Boxes, flag[b], ~flag'[b]
               PROVE  \E j \in Jobs : /\ job[j].box = b /\ lock = j /\ lock' = NoJob
                                      /\ At(j, "clear") /\ store >= job[j].owed
    OBVIOUS
  <2>1. TypeOK
    BY DEF IInv
  <2>2. \E j \in Jobs : Clear(j)
    <3>1. ASSUME NEW x \in Boxes, Detach(x) PROVE flag'[b]
      BY <2>1, <3>1 DEF Detach, TypeOK
    <3>2. QED
      BY <3>1 DEF Next, vars, HostLogin, Rotate, BoxEnds, Start, Reattach, Stop,
         BootDetached, BootAttached, Copy, Leave, StopBox, Tick, Watch, ReadFlag, Probe,
         Writeback, TakeLock, ReadBox, Gate, Replace, Fail, Die
  <2>3. PICK j \in Jobs : Clear(j)
    BY <2>2
  <2>4. job[j].box = b /\ lock' = NoJob /\ At(j, "clear")
    BY <2>1, <2>3 DEF Clear, TypeOK
  <2>5. lock = j
    BY <2>4 DEF IInv, LockHeld, At, Guarded, Inside
  <2>6. store >= job[j].owed
    BY <2>1, <2>4, Numbers DEF SignalInv, At
  <2>7. QED
    BY <2>4, <2>5, <2>6
<1>2. QED
  BY <1>1, SignalAlways, PTL DEF Spec, SignalServed

HIDE NoBoxAssumption
HIDE JobsAssumption
HIDE MaxFailsAssumption
HIDE MaxCredAssumption
HIDE DEF Creds, Jobs

-----------------------------------------------------------------------------
(* The snapshots of a vault *)

LEMMA SnapParameters == MaxVersion \in Nat /\ MaxSnaps \in Nat /\ MaxKeep \in Nat
  BY MaxVersionAssumption, MaxSnapsAssumption, MaxKeepAssumption

Places == {"idle", "safety", "cleanup"} \cup Trying
Ends   == {"none", "restored", "put back", "kept", "interrupted"}

\* What a step made of a restore that is under way: it keeps the snapshot it
\* restores, its safety copy and what the vault held.
Turned(p, pc, todo, moved, swapping, end) ==
  /\ proc' \in [Restorers -> Restore]
  /\ \A q \in Restorers : q # p => proc'[q] = proc[q]
  /\ proc'[p].pc = pc /\ proc'[p].todo = todo /\ proc'[p].moved = moved
  /\ proc'[p].swapping = swapping /\ proc'[p].end = end
  /\ proc'[p].of = proc[p].of /\ proc'[p].safety = proc[p].safety
  /\ proc'[p].was = proc[p].was

\* The store has one more snapshot.
Grown(has) ==
  /\ taken' = taken + 1 /\ taken' \in Snaps
  /\ snap' \in [Snaps -> [state : {"none", "kept", "cut"}, has : Contents]]
  /\ snap'[taken'].state = "kept" /\ snap'[taken'].has = has
  /\ \A s \in Snaps : s # taken' => snap'[s] = snap[s]

\* A restore works on a snapshot, and is over when it is idle again.
OfInv == \A p \in Restorers : ~Doing(p, "idle") => proc[p].of \in Snaps

TypeInv == SnapTypeOK /\ OfInv

Ended(p) ==
  /\ proc' \in [Restorers -> Restore] /\ proc'[p].pc = "idle"
  /\ \A q \in Restorers : q # p => proc'[q] = proc[q]

\* One entry of the contents c holds v afterwards.
Puts(c, d, e, v) ==
  d \in Contents /\ d[e] = v /\ \A f \in Entries : f # e => d[f] = c[f]

-----------------------------------------------------------------------------
\* Contents, and how they are put together.
LEMMA EmptyTyped ==
  Empty \in Contents /\ \A e \in Entries : Empty[e] = 0
  BY SnapParameters DEF Empty, Contents

LEMMA PartTyped ==
  ASSUME NEW c \in Contents, NEW E
  PROVE  /\ Part(c, E) \in Contents
         /\ \A e \in Entries : Part(c, E)[e] = IF e \in E THEN c[e] ELSE 0
  BY SnapParameters DEF Part, Contents

LEMMA PutTyped ==
  ASSUME NEW c \in Contents, NEW e \in Entries, NEW v \in 0..MaxVersion
  PROVE  Puts(c, [c EXCEPT ![e] = v], e, v)
  BY DEF Puts, Contents

LEMMA ContentsTyped ==
  ASSUME NEW c \in Contents, NEW e \in Entries
  PROVE  c[e] \in 0..MaxVersion /\ 0 \in 0..MaxVersion
  BY SnapParameters DEF Contents

LEMMA BackupTyped ==
  ASSUME NEW b \in [there : BOOLEAN, has : Contents], NEW c \in Contents
  PROVE  /\ [b EXCEPT !.has = c] \in [there : BOOLEAN, has : Contents]
         /\ [b EXCEPT !.has = c].there = b.there /\ [b EXCEPT !.has = c].has = c
  OBVIOUS

\* Only the entry e is put elsewhere in the backup.
LEMMA BackupPuts ==
  ASSUME NEW b \in [there : BOOLEAN, has : Contents], NEW e \in Entries,
         NEW v \in 0..MaxVersion
  PROVE  /\ [b EXCEPT !.has[e] = v] \in [there : BOOLEAN, has : Contents]
         /\ [b EXCEPT !.has[e] = v].there = b.there
         /\ Puts(b.has, [b EXCEPT !.has[e] = v].has, e, v)
  <1>1. [b EXCEPT !.has[e] = v] = [b EXCEPT !.has = [b.has EXCEPT ![e] = v]]
    OBVIOUS
  <1>2. Puts(b.has, [b.has EXCEPT ![e] = v], e, v)
    BY PutTyped
  <1>3. [b.has EXCEPT ![e] = v] \in Contents
    BY <1>2 DEF Puts
  <1>4. QED
    BY <1>1, <1>2, <1>3, BackupTyped

LEMMA BlankTyped ==
  /\ NoDir \in [there : BOOLEAN, has : Contents]
         /\ ~NoDir.there /\ NoDir.has = Empty
         /\ NoSnap \in [state : {"none", "kept", "cut"}, has : Contents]
         /\ NoSnap.state = "none" /\ NoSnap.has = Empty
         /\ Idle \in Restore /\ Idle.pc = "idle"
  BY EmptyTyped DEF NoDir, NoSnap, Idle, Restore

LEMMA SnapPcs ==
  /\ "stage" \in Trying /\ "aside" \in Trying /\ "move" \in Trying
  /\ "strip" \in Trying /\ "swap" \in Trying /\ "clear" \in Trying
  /\ "trim" \in Trying /\ "back" \in Trying
  /\ "idle" \notin Trying /\ "safety" \notin Trying /\ "cleanup" \notin Trying
  BY DEF Trying, Undoing

LEMMA ProcTyped ==
  ASSUME SnapTypeOK, NEW p \in Restorers
  PROVE  /\ proc[p] \in Restore /\ proc[p].pc \in Places /\ proc[p].end \in Ends
         /\ proc[p].of \in Snaps \cup {0} /\ proc[p].safety \in Snaps \cup {0}
         /\ proc[p].todo \in SUBSET Entries /\ proc[p].moved \in SUBSET Entries
         /\ proc[p].swapping \in BOOLEAN /\ proc[p].was \in Contents
  BY DEF SnapTypeOK, Restore, Places, Ends

\* The restore p becomes r.
LEMMA Becomes ==
  ASSUME SnapTypeOK, NEW p \in Restorers, NEW r \in Restore,
         proc' = [proc EXCEPT ![p] = r]
  PROVE  /\ proc' \in [Restorers -> Restore] /\ proc'[p] = r
         /\ \A q \in Restorers : q # p => proc'[q] = proc[q]
  BY DEF SnapTypeOK

LEMMA Gotos ==
  ASSUME SnapTypeOK, NEW p \in Restorers, NEW pc \in Places, Goes(p, pc)
  PROVE  Turned(p, pc, proc[p].todo, proc[p].moved, proc[p].swapping, proc[p].end)
  <1>1. proc' = [proc EXCEPT ![p] = [proc[p] EXCEPT !.pc = pc]]
    BY DEF Goes
  <1>2. [proc[p] EXCEPT !.pc = pc] \in Restore
    BY ProcTyped DEF Restore, Places
  <1>3. QED
    BY <1>1, <1>2, Becomes, ProcTyped DEF Turned, Restore

LEMMA Leaves ==
  ASSUME SnapTypeOK, NEW p \in Restorers, NEW end \in Ends, Finally(p, end)
  PROVE  Turned(p, "cleanup", proc[p].todo, proc[p].moved, proc[p].swapping, end)
  <1>1. proc' = [proc EXCEPT ![p] = [proc[p] EXCEPT !.pc = "cleanup", !.end = end]]
    BY DEF Finally
  <1>2. [proc[p] EXCEPT !.pc = "cleanup", !.end = end] \in Restore
    BY ProcTyped DEF Restore, Ends
  <1>3. QED
    BY <1>1, <1>2, Becomes, ProcTyped DEF Turned, Restore

-----------------------------------------------------------------------------
\* What the steps do.
LEMMA AddIs ==
  ASSUME SnapTypeOK, NEW has \in Contents, Add(has)
  PROVE  Grown(has)
  BY SnapParameters DEF SnapTypeOK, Add, Snaps, Grown

LEMMA IdleIs ==
  ASSUME SnapTypeOK, NEW p \in Restorers,
         proc' = [proc EXCEPT ![p] = Idle]
  PROVE  Ended(p)
  BY Becomes, BlankTyped DEF Ended

LEMMA CheckIs ==
  ASSUME SnapTypeOK, NEW p \in Restorers, NEW s \in Snaps,
         Check(p, s)
  PROVE  /\ proc' \in [Restorers -> Restore]
         /\ \A q \in Restorers : q # p => proc'[q] = proc[q]
         /\ proc'[p].pc = "safety" /\ proc'[p].of = s /\ proc'[p].safety = 0
         /\ proc'[p].moved = {} /\ proc'[p].swapping = FALSE /\ proc'[p].was = live
  <1> DEFINE r == [Idle EXCEPT !.pc = "safety", !.of = s, !.was = live]
  <1>1. /\ r \in Restore
        /\ r.pc = "safety" /\ r.of = s /\ r.safety = 0 /\ r.moved = {}
        /\ r.swapping = FALSE /\ r.was = live
    BY EmptyTyped DEF SnapTypeOK, Idle, Restore
  <1>2. QED
    BY <1>1, Becomes DEF Check

LEMMA SafetyIs ==
  ASSUME SnapTypeOK, NEW p \in Restorers, Safety(p)
  PROVE  /\ staging' \in Contents
         /\ \/ /\ live = Empty /\ UNCHANGED <<snap, taken>>
               /\ Turned(p, "stage", proc[p].todo, proc[p].moved, proc[p].swapping, proc[p].end)
            \/ /\ live # Empty /\ Grown(live)
               /\ proc' \in [Restorers -> Restore]
               /\ \A q \in Restorers : q # p => proc'[q] = proc[q]
               /\ proc'[p].pc = "stage" /\ proc'[p].safety = taken'
               /\ proc'[p].of = proc[p].of /\ proc'[p].was = proc[p].was
               /\ proc'[p].moved = proc[p].moved /\ proc'[p].swapping = proc[p].swapping
  <1>1. staging' \in Contents
    BY EmptyTyped DEF Safety
  <1>2. CASE live = Empty /\ Goes(p, "stage") /\ UNCHANGED <<snap, taken>>
    BY <1>1, <1>2, Gotos, SnapPcs DEF Places
  <1>3. CASE /\ live # Empty /\ Add(live)
             /\ proc' = [proc EXCEPT ![p] = [@ EXCEPT !.pc = "stage", !.safety = taken']]
    <2>1. Grown(live)
      BY <1>3, AddIs DEF SnapTypeOK
    <2>2. proc' = [proc EXCEPT ![p] = [proc[p] EXCEPT !.pc = "stage", !.safety = taken']]
      BY <1>3
    <2>3. [proc[p] EXCEPT !.pc = "stage", !.safety = taken'] \in Restore
      <3>1. /\ proc[p] \in Restore /\ taken' \in Snaps \cup {0}
            /\ "stage" \in {"idle", "safety", "cleanup"} \cup Trying
        BY <2>1, ProcTyped, SnapPcs DEF Grown
      <3>2. QED
        BY <3>1 DEF Restore
    <2>4. /\ proc' \in [Restorers -> Restore]
          /\ proc'[p] = [proc[p] EXCEPT !.pc = "stage", !.safety = taken']
          /\ \A q \in Restorers : q # p => proc'[q] = proc[q]
      BY <2>2, <2>3, Becomes
    <2>5. QED
      BY <1>1, <1>3, <2>1, <2>4, ProcTyped DEF Restore
  <1>4. QED
    BY <1>2, <1>3 DEF Safety

LEMMA SafetyFailsIs ==
  ASSUME SnapTypeOK, NEW p \in Restorers, SafetyFails(p)
  PROVE  staging' \in Contents /\ Ended(p) /\ \E has \in Contents : Grown(has)
  <1>1. PICK E : Add(Part(live, E))
    BY DEF SafetyFails
  <1>2. Part(live, E) \in Contents
    BY PartTyped DEF SnapTypeOK
  <1>3. Grown(Part(live, E))
    BY <1>1, <1>2, AddIs
  <1>4. QED
    BY <1>2, <1>3, IdleIs DEF SafetyFails, SnapTypeOK

LEMMA StageIs ==
  ASSUME TypeInv, NEW p \in Restorers, Stage(p)
  PROVE  /\ staging' \in Contents /\ staging' = snap[proc[p].of].has
         /\ Turned(p, "aside", proc[p].todo, proc[p].moved, proc[p].swapping, proc[p].end)
  <1>1. proc[p].of \in Snaps
    BY DEF TypeInv, OfInv, Stage, Doing
  <1>2. staging' = snap[proc[p].of].has /\ staging' \in Contents
    BY <1>1 DEF Stage, TypeInv, SnapTypeOK
  <1>3. QED
    BY <1>2, Gotos, SnapPcs DEF Places, Stage, TypeInv

LEMMA AsideIs ==
  ASSUME SnapTypeOK, NEW p \in Restorers, Aside(p)
  PROVE  \/ /\ backup.there /\ UNCHANGED backup
            /\ Turned(p, "clear", proc[p].todo, proc[p].moved, proc[p].swapping, proc[p].end)
         \/ /\ ~backup.there /\ backup' \in [there : BOOLEAN, has : Contents]
            /\ backup'.there /\ backup'.has = Empty
            /\ Turned(p, "move", Held(live), proc[p].moved, proc[p].swapping, proc[p].end)
  <1>1. CASE backup.there
    BY <1>1, Gotos, SnapPcs DEF Places, Aside
  <1>2. CASE ~backup.there
    <2>1. /\ backup' = [there |-> TRUE, has |-> Empty]
          /\ proc' = [proc EXCEPT ![p] = [proc[p] EXCEPT !.pc = "move", !.todo = Held(live)]]
      BY <1>2 DEF Aside
    <2>2. [proc[p] EXCEPT !.pc = "move", !.todo = Held(live)] \in Restore
      BY ProcTyped, SnapPcs DEF Restore, Held
    <2>3. Turned(p, "move", Held(live), proc[p].moved, proc[p].swapping, proc[p].end)
      BY <2>1, <2>2, Becomes, ProcTyped DEF Turned, Restore
    <2>4. QED
      BY <1>2, <2>1, <2>3, EmptyTyped
  <1>3. QED
    BY <1>1, <1>2

LEMMA MoveIs ==
  ASSUME SnapTypeOK, NEW p \in Restorers, Move(p)
  PROVE  \E e \in proc[p].todo \cap Held(live) :
           /\ Puts(live, live', e, 0)
           /\ backup' \in [there : BOOLEAN, has : Contents]
           /\ backup'.there = backup.there /\ Puts(backup.has, backup'.has, e, live[e])
           /\ Turned(p, "move", proc[p].todo \ {e}, proc[p].moved \cup {e},
                     proc[p].swapping, proc[p].end)
  <1> DEFINE r(e) == [proc[p] EXCEPT !.todo = @ \ {e}, !.moved = @ \cup {e}]
  <1>1. PICK e \in proc[p].todo \cap Held(live) :
          /\ live' = [live EXCEPT ![e] = 0]
          /\ backup' = [backup EXCEPT !.has[e] = live[e]]
          /\ proc' = [proc EXCEPT ![p] = r(e)]
    <2>1. PICK e \in proc[p].todo \cap Held(live) :
            /\ live' = [live EXCEPT ![e] = 0]
            /\ backup' = [backup EXCEPT !.has[e] = live[e]]
            /\ proc' = [proc EXCEPT ![p].todo = @ \ {e}, ![p].moved = @ \cup {e}]
      BY DEF Move
    <2>2. proc' = [proc EXCEPT ![p] = r(e)]
      BY <2>1, ProcTyped DEF SnapTypeOK, Restore
    <2>3. QED
      BY <2>1, <2>2
  <1>2. e \in Entries /\ live \in Contents
        /\ backup \in [there : BOOLEAN, has : Contents]
    BY DEF Held, SnapTypeOK
  <1>3. live[e] \in 0..MaxVersion /\ 0 \in 0..MaxVersion
    BY <1>2, ContentsTyped
  <1>4. r(e) \in Restore
    BY <1>2, ProcTyped DEF Restore
  <1>5. Turned(p, "move", proc[p].todo \ {e}, proc[p].moved \cup {e},
               proc[p].swapping, proc[p].end)
    BY <1>1, <1>4, Becomes, ProcTyped DEF Turned, Restore, Move, Doing
  <1>6. QED
    BY <1>1, <1>2, <1>3, <1>5, PutTyped, BackupPuts

LEMMA CopyAsideIs ==
  ASSUME SnapTypeOK, NEW p \in Restorers, CopyAside(p)
  PROVE  /\ backup' \in [there : BOOLEAN, has : Contents]
         /\ backup'.there = backup.there /\ backup'.has = Part(live, proc[p].todo)
         /\ Turned(p, "strip", proc[p].todo, proc[p].moved \cup proc[p].todo,
                   proc[p].swapping, proc[p].end)
  <1>1. Part(live, proc[p].todo) \in Contents
    BY PartTyped DEF SnapTypeOK
  <1> DEFINE r == [proc[p] EXCEPT !.pc = "strip", !.moved = @ \cup proc[p].todo]
  <1>2. r \in Restore
    BY ProcTyped, SnapPcs DEF Restore
  <1>3. proc' = [proc EXCEPT ![p] = r]
    BY DEF CopyAside
  <1>4. Turned(p, "strip", proc[p].todo, proc[p].moved \cup proc[p].todo,
               proc[p].swapping, proc[p].end)
    BY <1>2, <1>3, Becomes, ProcTyped DEF Turned, Restore
  <1>5. backup' = [backup EXCEPT !.has = Part(live, proc[p].todo)]
    BY DEF CopyAside
  <1>6. QED
    BY <1>1, <1>4, <1>5, BackupTyped DEF SnapTypeOK

LEMMA CopyAsidePartIs ==
  ASSUME SnapTypeOK, NEW p \in Restorers, CopyAsidePart(p)
  PROVE  /\ backup' \in [there : BOOLEAN, has : Contents]
         /\ backup'.there = backup.there
         /\ \A e \in Entries : backup'.has[e] \in {0, live[e]}
         /\ Turned(p, "clear", proc[p].todo, proc[p].moved, proc[p].swapping, proc[p].end)
  <1>1. PICK E : backup' = [backup EXCEPT !.has = Part(live, E)]
    BY DEF CopyAsidePart
  <1>2. /\ Part(live, E) \in Contents
        /\ \A e \in Entries : Part(live, E)[e] \in {0, live[e]}
    BY PartTyped DEF SnapTypeOK
  <1>3. Turned(p, "clear", proc[p].todo, proc[p].moved, proc[p].swapping, proc[p].end)
    BY Gotos, SnapPcs DEF Places, CopyAsidePart
  <1>4. QED
    BY <1>1, <1>2, <1>3, BackupTyped DEF SnapTypeOK

LEMMA StripIs ==
  ASSUME SnapTypeOK, NEW p \in Restorers, Strip(p)
  PROVE  \E e \in proc[p].todo :
           /\ Puts(live, live', e, 0)
           /\ Turned(p, "strip", proc[p].todo \ {e}, proc[p].moved, proc[p].swapping, proc[p].end)
  <1> DEFINE r(e) == [proc[p] EXCEPT !.todo = @ \ {e}]
  <1>1. PICK e \in proc[p].todo : live' = [live EXCEPT ![e] = 0] /\ proc' = [proc EXCEPT ![p] = r(e)]
    BY DEF Strip
  <1>2. e \in Entries /\ live \in Contents
    BY ProcTyped DEF SnapTypeOK
  <1>3. Puts(live, live', e, 0)
    BY <1>1, <1>2, ContentsTyped, PutTyped
  <1>4. r(e) \in Restore
    BY ProcTyped DEF Restore
  <1>5. Turned(p, "strip", proc[p].todo \ {e}, proc[p].moved, proc[p].swapping, proc[p].end)
    BY <1>1, <1>4, Becomes, ProcTyped DEF Turned, Restore, Strip, Doing
  <1>6. QED
    BY <1>3, <1>5

LEMMA SwappedIs ==
  ASSUME SnapTypeOK, NEW p \in Restorers, Swapped(p)
  PROVE  Turned(p, "swap", Held(staging), proc[p].moved, TRUE, proc[p].end)
  <1> DEFINE r == [proc[p] EXCEPT !.pc = "swap", !.swapping = TRUE, !.todo = Held(staging)]
  <1>1. proc' = [proc EXCEPT ![p] = r]
    BY DEF Swapped
  <1>2. r \in Restore
    BY ProcTyped, SnapPcs DEF Restore, Held
  <1>3. QED
    BY <1>1, <1>2, Becomes, ProcTyped DEF Turned, Restore

LEMMA SwapIs ==
  ASSUME SnapTypeOK, NEW p \in Restorers, Swap(p)
  PROVE  \E e \in proc[p].todo :
           /\ Puts(live, live', e, staging[e])
           /\ staging' \in Contents
           /\ \A f \in Entries : f # e => staging'[f] = staging[f]
           /\ Turned(p, "swap", proc[p].todo \ {e}, proc[p].moved, proc[p].swapping, proc[p].end)
  <1> DEFINE r(e) == [proc[p] EXCEPT !.todo = @ \ {e}]
  <1>1. PICK e \in proc[p].todo :
          /\ live' = [live EXCEPT ![e] = staging[e]] /\ proc' = [proc EXCEPT ![p] = r(e)]
          /\ staging' = IF mounted THEN staging ELSE [staging EXCEPT ![e] = 0]
    BY DEF Swap
  <1>2. e \in Entries /\ live \in Contents /\ staging \in Contents
    BY ProcTyped DEF SnapTypeOK
  <1>3. Puts(live, live', e, staging[e]) /\ Puts(staging, [staging EXCEPT ![e] = 0], e, 0)
    BY <1>1, <1>2, ContentsTyped, PutTyped
  <1>4. r(e) \in Restore
    BY ProcTyped DEF Restore
  <1>5. Turned(p, "swap", proc[p].todo \ {e}, proc[p].moved, proc[p].swapping, proc[p].end)
    BY <1>1, <1>4, Becomes, ProcTyped DEF Turned, Restore, Swap, Doing
  <1>6. QED
    BY <1>1, <1>2, <1>3, <1>5 DEF Puts

LEMMA ClearIs ==
  ASSUME SnapTypeOK, NEW p \in Restorers, ClearVault(p)
  PROVE  \/ /\ Misplaced(p) = {} /\ UNCHANGED live
            /\ Turned(p, "trim", proc[p].todo, proc[p].moved, proc[p].swapping, proc[p].end)
         \/ UNCHANGED proc /\ \E e \in Misplaced(p) : Puts(live, live', e, 0)
  <1>1. CASE Misplaced(p) = {}
    BY <1>1, Gotos, SnapPcs DEF ClearVault, Places
  <1>2. CASE Misplaced(p) # {}
    <2>1. PICK e \in Misplaced(p) : live' = [live EXCEPT ![e] = 0]
      BY <1>2 DEF ClearVault
    <2>2. e \in Entries /\ live \in Contents
      BY DEF Misplaced, Held, SnapTypeOK
    <2>3. QED
      BY <1>2, <2>1, <2>2, ContentsTyped, PutTyped DEF ClearVault
  <1>3. QED
    BY <1>1, <1>2

LEMMA TrimIs ==
  ASSUME SnapTypeOK, NEW p \in Restorers, Trim(p)
  PROVE  /\ backup' \in [there : BOOLEAN, has : Contents]
         /\ backup'.there = backup.there
         /\ \A e \in Entries :
              backup'.has[e] = IF e \in proc[p].moved THEN backup.has[e] ELSE 0
         /\ Turned(p, "back", proc[p].moved, proc[p].moved, proc[p].swapping, proc[p].end)
  <1> DEFINE h == Part(backup.has, proc[p].moved)
             r == [proc[p] EXCEPT !.pc = "back", !.todo = proc[p].moved]
  <1>1. backup' = [backup EXCEPT !.has = h] /\ proc' = [proc EXCEPT ![p] = r]
    BY DEF Trim
  <1>2. backup.has \in Contents
    BY DEF SnapTypeOK
  <1>3. /\ h \in Contents
        /\ \A e \in Entries : h[e] = IF e \in proc[p].moved THEN backup.has[e] ELSE 0
    BY <1>2, PartTyped
  <1>4. /\ backup' \in [there : BOOLEAN, has : Contents]
        /\ backup'.there = backup.there /\ backup'.has = h
    BY <1>1, <1>3, BackupTyped DEF SnapTypeOK
  <1>5. r \in Restore
    BY ProcTyped, SnapPcs DEF Restore
  <1>6. Turned(p, "back", proc[p].moved, proc[p].moved, proc[p].swapping, proc[p].end)
    BY <1>1, <1>5, Becomes, ProcTyped DEF Turned, Restore
  <1>7. QED
    BY <1>3, <1>4, <1>6

LEMMA BackIs ==
  ASSUME SnapTypeOK, NEW p \in Restorers, Back(p)
  PROVE  \/ /\ proc[p].todo = {} /\ UNCHANGED <<live, backup>>
            /\ Turned(p, "cleanup", {}, proc[p].moved, proc[p].swapping, "put back")
         \/ \E e \in proc[p].todo :
              /\ Puts(live, live', e, backup.has[e])
              /\ backup' \in [there : BOOLEAN, has : Contents]
              /\ backup'.there = backup.there
              /\ backup' = backup \/ Puts(backup.has, backup'.has, e, 0)
              /\ Turned(p, "back", proc[p].todo \ {e}, proc[p].moved,
                        proc[p].swapping, proc[p].end)
  <1>1. CASE proc[p].todo = {}
    BY <1>1, Leaves DEF Back, Ends
  <1>2. CASE proc[p].todo # {}
    <2> DEFINE r(e) == [proc[p] EXCEPT !.todo = @ \ {e}]
    <2>1. PICK e \in proc[p].todo :
            /\ live' = [live EXCEPT ![e] = backup.has[e]]
            /\ backup' = IF mounted THEN backup ELSE [backup EXCEPT !.has[e] = 0]
            /\ proc' = [proc EXCEPT ![p] = r(e)]
      BY <1>2 DEF Back
    <2>2. /\ e \in Entries /\ live \in Contents
          /\ backup \in [there : BOOLEAN, has : Contents] /\ backup.has \in Contents
      BY ProcTyped DEF SnapTypeOK
    <2>3. backup.has[e] \in 0..MaxVersion /\ 0 \in 0..MaxVersion
      BY <2>2, ContentsTyped
    <2>4. Puts(live, live', e, backup.has[e])
      BY <2>1, <2>2, <2>3, PutTyped
    <2>5. /\ backup' \in [there : BOOLEAN, has : Contents]
          /\ backup'.there = backup.there
          /\ backup' = backup \/ Puts(backup.has, backup'.has, e, 0)
      BY <2>1, <2>2, <2>3, BackupPuts
    <2>6. r(e) \in Restore
      BY ProcTyped DEF Restore
    <2>7. Turned(p, "back", proc[p].todo \ {e}, proc[p].moved, proc[p].swapping, proc[p].end)
      BY <2>1, <2>6, Becomes, ProcTyped DEF Turned, Restore, Back, Doing
    <2>8. QED
      BY <2>4, <2>5, <2>7
  <1>3. QED
    BY <1>1, <1>2

LEMMA CleanupIs ==
  ASSUME SnapTypeOK, NEW p \in Restorers, Cleanup(p)
  PROVE  /\ staging' \in Contents /\ Ended(p)
         /\ backup' = backup \/ backup' = NoDir
  BY IdleIs, EmptyTyped DEF Cleanup, SnapTypeOK

-----------------------------------------------------------------------------
\* The types, and that a restore works on a snapshot.
RestStep(p) ==
  \/ StageFails(p) \/ Restored(p) \/ Fails(p) \/ UndoFails(p)
  \/ Interrupt(p)

\* A step that only moves a restore on, or ends it.
LEMMA RestIs ==
  ASSUME SnapTypeOK, NEW p \in Restorers, RestStep(p)
  PROVE  /\ UNCHANGED <<live, staging, backup, snap, taken>>
         /\ \/ /\ Fails(p)
               /\ Turned(p, "clear", proc[p].todo, proc[p].moved, proc[p].swapping, proc[p].end)
            \/ \E end \in Ends :
                 /\ end = "put back" => StageFails(p)
                 /\ end = "restored" => Restored(p)
                 /\ Turned(p, "cleanup", proc[p].todo, proc[p].moved, proc[p].swapping, end)
  <1>1. CASE StageFails(p)
    BY <1>1, Leaves DEF StageFails, stored, Ends
  <1>2. CASE Restored(p)
    BY <1>2, Leaves DEF Restored, stored, Ends
  <1>3. CASE Fails(p)
    BY <1>3, Gotos, SnapPcs DEF Fails, stored, Places
  <1>4. CASE UndoFails(p)
    BY <1>4, Leaves DEF UndoFails, stored, Ends
  <1>5. CASE Interrupt(p)
    BY <1>5, Leaves DEF Interrupt, stored, Ends
  <1>6. QED
    BY <1>1, <1>2, <1>3, <1>4, <1>5 DEF RestStep

LEMMA WriteIs ==
  ASSUME SnapTypeOK, Write
  PROVE  /\ live' \in Contents /\ written' \in 0..MaxVersion
         /\ UNCHANGED <<mounted, staging, backup, snap, taken, doomed, proc>>
  <1>1. PICK e \in Entries :
          \/ /\ written < MaxVersion /\ written' = written + 1
             /\ live' = [live EXCEPT ![e] = written + 1]
          \/ live' = [live EXCEPT ![e] = 0] /\ UNCHANGED written
    BY DEF Write
  <1>2. written \in 0..MaxVersion /\ live \in Contents /\ 0 \in 0..MaxVersion
    BY SnapParameters DEF SnapTypeOK
  <1>3. QED
    BY <1>1, <1>2, PutTyped, SnapParameters DEF Write, stored, Puts

LEMMA TakeIs ==
  ASSUME SnapTypeOK, Take
  PROVE  /\ \E has \in Contents : Grown(has)
         /\ UNCHANGED <<mounted, written, live, staging, backup, doomed, proc>>
  <1>1. PICK E : Add(Part(live, E))
    BY DEF Take
  <1>2. Part(live, E) \in Contents
    BY PartTyped DEF SnapTypeOK
  <1>3. Grown(Part(live, E))
    BY <1>1, <1>2, AddIs
  <1>4. QED
    BY <1>2, <1>3 DEF Take, rest

\* A prune takes a snapshot out of the store, or leaves a part of it there.
LEMMA PruneIs ==
  ASSUME SnapTypeOK, Prune
  PROVE  /\ snap' \in [Snaps -> [state : {"none", "kept", "cut"}, has : Contents]]
         /\ \A s \in Snaps :
              \/ snap'[s] = snap[s] \/ snap'[s] = NoSnap
              \/ snap'[s].state = "cut" /\ snap[s].state # "none"
         /\ doomed' \subseteq Snaps
         /\ UNCHANGED <<mounted, written, live, staging, backup, taken, proc>>
  <1> DEFINE s == Min(doomed)
             cut(E) == [state |-> "cut", has |-> Part(snap[s].has, E)]
  <1>1. /\ snap \in [Snaps -> [state : {"none", "kept", "cut"}, has : Contents]]
        /\ doomed \subseteq Snaps
    BY DEF SnapTypeOK
  <1>2. /\ \/ snap' = [snap EXCEPT ![s] = NoSnap]
           \/ \E E : There(s) /\ snap' = [snap EXCEPT ![s] = cut(E)]
        /\ doomed' = doomed \ {s}
        /\ UNCHANGED <<mounted, written, live, staging, backup, taken, proc>>
    BY DEF Prune, rest
  <1>3. CASE s \notin Snaps
    BY <1>1, <1>2, <1>3
  <1>4. ASSUME s \in Snaps, NEW E
        PROVE  cut(E) \in [state : {"none", "kept", "cut"}, has : Contents]
    BY <1>1, <1>4, PartTyped
  <1>5. CASE s \in Snaps
    BY <1>1, <1>2, <1>4, <1>5, BlankTyped DEF There
  <1>6. QED
    BY <1>3, <1>5

LEMMA PutBackIs ==
  ASSUME SnapTypeOK, PutBack
  PROVE  /\ live' \in Contents /\ backup' = NoDir
         /\ UNCHANGED <<mounted, written, staging, snap, taken, doomed, proc>>
         /\ \A p \in Restorers : Doing(p, "idle")
  <1>1. live' = [e \in Entries |-> IF backup.has[e] # 0 THEN backup.has[e] ELSE live[e]]
    BY DEF PutBack
  <1>2. live \in Contents /\ backup.has \in Contents
    BY DEF SnapTypeOK
  <1>3. live' \in Contents
    BY <1>1, <1>2 DEF Contents
  <1>4. QED
    BY <1>3 DEF PutBack, rest, stored

\* What every step of a restore leaves alone.
LEMMA RestoreLeaves ==
  ASSUME NEW p, RestoreStep(p)
  PROVE  UNCHANGED <<mounted, written, doomed>>
  BY DEF RestoreStep, rest, stored, Check, Safety, SafetyFails,
         Stage, StageFails, Aside, Move, CopyAside,
         CopyAsidePart, Strip, Swapped, Swap, Restored, Fails,
         ClearVault, Trim, Back, UndoFails, Interrupt, Cleanup,
         Kill

\* The part of the state that the steps of a restore change.
Typed ==
  /\ live \in Contents /\ staging \in Contents
  /\ backup \in [there : BOOLEAN, has : Contents]
  /\ snap \in [Snaps -> [state : {"none", "kept", "cut"}, has : Contents]]
  /\ taken \in 0..MaxSnaps /\ proc \in [Restorers -> Restore] /\ OfInv

LEMMA TurnedTyped ==
  ASSUME OfInv, NEW p \in Restorers, ~Doing(p, "idle"), NEW pc, NEW todo, NEW moved,
         NEW swapping, NEW end, Turned(p, pc, todo, moved, swapping, end)
  PROVE  proc' \in [Restorers -> Restore] /\ OfInv'
  BY DEF Turned, OfInv, Doing

LEMMA RestoreTyped ==
  ASSUME TypeInv, NEW p \in Restorers, RestoreStep(p)
  PROVE  Typed'
  <1>1. /\ SnapTypeOK /\ OfInv /\ Typed
        /\ \A q \in Restorers : proc'[q] = proc[q] => Doing(q, "idle")' = Doing(q, "idle")
    BY DEF TypeInv, Typed, SnapTypeOK, Doing
  <1>2. ASSUME NEW has \in Contents, Grown(has)
        PROVE  /\ taken' \in 0..MaxSnaps
               /\ snap' \in [Snaps -> [state : {"none", "kept", "cut"}, has : Contents]]
    BY <1>2, SnapParameters DEF Grown, Snaps
  <1>3. ASSUME Ended(p) PROVE proc' \in [Restorers -> Restore] /\ OfInv'
    BY <1>1, <1>3 DEF Ended, OfInv, Doing
  <1>4. ASSUME NEW s \in Snaps, Check(p, s) PROVE Typed'
    <2>1. proc' \in [Restorers -> Restore] /\ OfInv'
      BY <1>1, <1>4, CheckIs DEF OfInv, Doing
    <2>2. QED
      BY <1>1, <1>4, <2>1 DEF Check, stored, Typed
  <1>5. CASE Safety(p)
    <2>1. OfInv' /\ proc' \in [Restorers -> Restore]
      BY <1>1, <1>5, SafetyIs DEF OfInv, Doing, Turned, Safety
    <2>2. /\ taken' \in 0..MaxSnaps
          /\ snap' \in [Snaps -> [state : {"none", "kept", "cut"}, has : Contents]]
      BY <1>1, <1>2, <1>5, SafetyIs DEF Typed
    <2>3. QED
      BY <1>1, <1>5, <2>1, <2>2, SafetyIs DEF Safety, Typed
  <1>6. CASE SafetyFails(p)
    BY <1>1, <1>2, <1>3, <1>6, SafetyFailsIs DEF SafetyFails, Typed
  <1>7. CASE Stage(p)
    <2>1. OfInv' /\ proc' \in [Restorers -> Restore]
      BY <1>1, <1>7, StageIs, TurnedTyped DEF Stage, Doing
    <2>2. QED
      BY <1>1, <1>7, <2>1, StageIs DEF Stage, stored, Typed
  <1>8. CASE Aside(p)
    <2>1. OfInv' /\ proc' \in [Restorers -> Restore]
      BY <1>1, <1>8, AsideIs, TurnedTyped DEF Aside, Doing
    <2>2. QED
      BY <1>1, <1>8, <2>1, AsideIs DEF Aside, stored, Typed
  <1>9. CASE Move(p)
    <2>1. OfInv' /\ proc' \in [Restorers -> Restore]
      BY <1>1, <1>9, MoveIs, TurnedTyped DEF Move, Doing
    <2>2. QED
      BY <1>1, <1>9, <2>1, MoveIs DEF Move, stored, Typed, Puts
  <1>10. CASE CopyAside(p)
    <2>1. OfInv' /\ proc' \in [Restorers -> Restore]
      BY <1>1, <1>10, CopyAsideIs, TurnedTyped DEF CopyAside, Doing
    <2>2. QED
      BY <1>1, <1>10, <2>1, CopyAsideIs DEF CopyAside, stored, Typed
  <1>11. CASE CopyAsidePart(p)
    <2>1. OfInv' /\ proc' \in [Restorers -> Restore]
      BY <1>1, <1>11, CopyAsidePartIs, TurnedTyped DEF CopyAsidePart, Doing
    <2>2. QED
      BY <1>1, <1>11, <2>1, CopyAsidePartIs DEF CopyAsidePart, stored, Typed
  <1>12. CASE Strip(p)
    <2>1. OfInv' /\ proc' \in [Restorers -> Restore]
      BY <1>1, <1>12, StripIs, TurnedTyped DEF Strip, Doing
    <2>2. QED
      BY <1>1, <1>12, <2>1, StripIs DEF Strip, stored, Typed, Puts
  <1>13. CASE Swapped(p)
    <2>1. OfInv' /\ proc' \in [Restorers -> Restore]
      BY <1>1, <1>13, SwappedIs, TurnedTyped DEF Swapped, Doing
    <2>2. QED
      BY <1>1, <1>13, <2>1 DEF Swapped, stored, Typed
  <1>14. CASE Swap(p)
    <2>1. OfInv' /\ proc' \in [Restorers -> Restore]
      BY <1>1, <1>14, SwapIs, TurnedTyped DEF Swap, Doing
    <2>2. QED
      BY <1>1, <1>14, <2>1, SwapIs DEF Swap, stored, Typed, Puts
  <1>15. CASE RestStep(p)
    <2>1. ~Doing(p, "idle")
      BY <1>15, SnapPcs DEF RestStep, StageFails, Restored, Fails,
         UndoFails, Interrupt, Doing, Trying
    <2>2. OfInv' /\ proc' \in [Restorers -> Restore]
      BY <1>1, <1>15, <2>1, RestIs, TurnedTyped
    <2>3. QED
      BY <1>1, <1>15, <2>2, RestIs DEF Typed
  <1>16. CASE ClearVault(p)
    <2>1. OfInv' /\ proc' \in [Restorers -> Restore]
      BY <1>1, <1>16, ClearIs, TurnedTyped DEF ClearVault, Doing, OfInv, Typed
    <2>2. QED
      BY <1>1, <1>16, <2>1, ClearIs DEF ClearVault, stored, Typed, Puts
  <1>17. CASE Trim(p)
    <2>1. OfInv' /\ proc' \in [Restorers -> Restore]
      BY <1>1, <1>17, TrimIs, TurnedTyped DEF Trim, Doing
    <2>2. QED
      BY <1>1, <1>17, <2>1, TrimIs DEF Trim, stored, Typed
  <1>18. CASE Back(p)
    <2>1. OfInv' /\ proc' \in [Restorers -> Restore]
      BY <1>1, <1>18, BackIs, TurnedTyped DEF Back, Doing
    <2>2. QED
      BY <1>1, <1>18, <2>1, BackIs DEF Back, stored, Typed, Puts
  <1>19. CASE Cleanup(p)
    BY <1>1, <1>3, <1>19, CleanupIs, BlankTyped DEF Cleanup, stored, Typed
  <1>20. CASE Kill(p)
    BY <1>1, <1>3, <1>20, IdleIs DEF Kill, stored, Typed
  <1>21. QED
    BY <1>4, <1>5, <1>6, <1>7, <1>8, <1>9, <1>10, <1>11, <1>12, <1>13, <1>14, <1>15,
       <1>16, <1>17, <1>18, <1>19, <1>20 DEF RestoreStep, RestStep

LEMMA NextTyped ==
  ASSUME TypeInv, [SnapNext]_snapVars
  PROVE  TypeInv'
  <1>1. SnapTypeOK /\ OfInv
    BY DEF TypeInv
  <1>2. ASSUME NEW p \in Restorers, RestoreStep(p) PROVE TypeInv'
    BY <1>1, <1>2, RestoreTyped, RestoreLeaves DEF TypeInv, Typed, SnapTypeOK
  <1>3. CASE Write
    BY <1>1, <1>3, WriteIs DEF TypeInv, SnapTypeOK, OfInv, Doing
  <1>4. CASE Take
    <2>1. PICK has \in Contents : Grown(has)
      BY <1>1, <1>4, TakeIs
    <2>2. UNCHANGED <<mounted, written, live, staging, backup, doomed, proc>>
      BY <1>1, <1>4, TakeIs
    <2>3. taken' \in 0..MaxSnaps
      BY <2>1, SnapParameters DEF Grown, Snaps
    <2>4. QED
      BY <1>1, <2>1, <2>2, <2>3 DEF TypeInv, SnapTypeOK, OfInv, Doing, Grown
  <1>5. CASE List
    <2>1. doomed' \subseteq Snaps
      BY <1>5 DEF List, Prunable
    <2>2. QED
      BY <1>1, <1>5, <2>1 DEF List, rest, TypeInv, SnapTypeOK, OfInv, Doing
  <1>6. CASE Prune
    BY <1>1, <1>6, PruneIs DEF TypeInv, SnapTypeOK, OfInv, Doing
  <1>7. CASE PutBack
    BY <1>1, <1>7, PutBackIs, BlankTyped DEF TypeInv, SnapTypeOK, OfInv, Doing
  <1>8. CASE UNCHANGED snapVars
    BY <1>1, <1>8 DEF snapVars, TypeInv, SnapTypeOK, OfInv, Doing
  <1>9. QED
    BY <1>2, <1>3, <1>4, <1>5, <1>6, <1>7, <1>8 DEF SnapNext

LEMMA SnapInitTyped == ASSUME SnapInit PROVE TypeInv
  <1>1. \A p \in Restorers : proc[p] = Idle /\ proc[p].pc = "idle"
    BY BlankTyped DEF SnapInit
  <1>2. SnapTypeOK
    BY BlankTyped, EmptyTyped, SnapParameters DEF SnapInit, SnapTypeOK
  <1>3. QED
    BY <1>1, <1>2 DEF TypeInv, OfInv, Doing

LEMMA TypedAlways == SnapSpec => []TypeInv
  BY SnapInitTyped, NextTyped, PTL DEF SnapSpec

\* Types: vault, staging, backup, store and restores (snapshots.py) stay what they
\* are declared as, for any number of restores at once and a box that may run.
THEOREM SnapshotTypes == SnapSpec => []SnapTypeOK
  <1>1. TypeInv => SnapTypeOK
    BY DEF TypeInv
  <1>2. QED
    BY TypedAlways, <1>1, PTL

-----------------------------------------------------------------------------
\* The invariant, for one restore at a time of a vault whose box does not run.

\* A snapshot that a restore still finds whole.
Intact(s) == snap[s].state = "kept"

\* A name that is not given yet holds nothing.
NamesInv == \A s \in Snaps : s > taken => snap[s] = NoSnap

BackupInv == ~backup.there => backup.has = Empty

\* A restore's two snapshots: they are in the store, and the safety copy is what
\* the vault held.
CopiesInv(p) ==
  /\ proc[p].of \in 1..taken /\ proc[p].safety \in 0..taken
  /\ proc[p].pc = "safety" => proc[p].safety = 0
  /\ proc[p].pc # "safety" /\ proc[p].safety = 0 => proc[p].was = Empty
  /\ proc[p].safety # 0 /\ Intact(proc[p].safety) =>
       snap[proc[p].safety].has = proc[p].was

\* What backup, vault and staging may hold while a restore is under way.
HoldsInv(p) ==
  /\ \A e \in Entries : backup.has[e] = 0 \/ backup.has[e] = proc[p].was[e]
  /\ Intact(proc[p].of) => \A e \in Entries :
       /\ live[e] = 0 \/ live[e] = proc[p].was[e] \/ live[e] = snap[proc[p].of].has[e]
       /\ \/ proc[p].pc \in {"aside", "move", "strip"}
          \/ proc[p].pc = "swap" /\ e \in proc[p].todo
          => staging[e] = snap[proc[p].of].has[e]

\* What was moved aside is whole in the backup, and nothing else was touched.
AsideInv(p) ==
  /\ proc[p].moved \subseteq Held(proc[p].was)
  /\ \A e \in proc[p].moved : backup.has[e] = proc[p].was[e]
  /\ proc[p].swapping => proc[p].moved = Held(proc[p].was)
  /\ ~proc[p].swapping => \A e \in Entries \ proc[p].moved : live[e] = proc[p].was[e]

\* How far a restore is, on its way and on its way back.
ForthInv(p) ==
  /\ proc[p].pc \in {"safety", "stage", "aside"} =>
       live = proc[p].was /\ proc[p].moved = {} /\ ~proc[p].swapping /\ ~backup.there
  /\ proc[p].pc \in {"move", "strip", "swap"} => backup.there
  /\ proc[p].pc \in {"move", "strip", "swap", "clear", "trim"} => AsideInv(p)
  /\ proc[p].pc = "move" =>
       /\ ~proc[p].swapping /\ proc[p].todo = Held(proc[p].was) \ proc[p].moved
       /\ \A e \in proc[p].moved : live[e] = 0
       /\ mounted => proc[p].moved = {}
  /\ proc[p].pc = "strip" =>
       /\ ~proc[p].swapping /\ proc[p].moved = Held(proc[p].was)
       /\ \A e \in proc[p].moved \ proc[p].todo : live[e] = 0
  /\ proc[p].pc = "swap" =>
       /\ proc[p].swapping
       /\ Intact(proc[p].of) =>
            \A e \in Entries \ proc[p].todo : live[e] = snap[proc[p].of].has[e]

BackInv(p) ==
  /\ proc[p].pc = "trim" => \A e \in Entries :
       live[e] = IF e \in proc[p].moved THEN 0 ELSE proc[p].was[e]
  /\ proc[p].pc = "back" => \A e \in Entries :
       IF e \in proc[p].todo THEN backup.has[e] = proc[p].was[e] ELSE live[e] = proc[p].was[e]
  /\ proc[p].pc = "cleanup" /\ proc[p].end = "put back" => live = proc[p].was
  /\ proc[p].pc = "cleanup" /\ proc[p].end = "restored" /\ Intact(proc[p].of) =>
       live = snap[proc[p].of].has

PhaseInv(p) == ForthInv(p) /\ BackInv(p)

RestoreInv == \A p \in Restorers :
  ~Doing(p, "idle") => CopiesInv(p) /\ HoldsInv(p) /\ PhaseInv(p)

SnapInv == TypeInv /\ NamesInv /\ BackupInv /\ RestoreInv

Alone == ~BoxRuns /\ \A p, q \in Restorers : p = q

\* A step on a restore that is under way, and what it has to keep.
During(p) ==
  /\ SnapTypeOK /\ BackupInv /\ CopiesInv(p) /\ HoldsInv(p) /\ PhaseInv(p)
  /\ proc[p].of \in Snaps

Kept(p) == BackupInv' /\ CopiesInv(p)' /\ HoldsInv(p)' /\ PhaseInv(p)'

-----------------------------------------------------------------------------
\* What a step does to the store: names are given once, and a snapshot that is
\* still whole is what it was.
OnlyGrows ==
  /\ taken' \in Nat /\ taken' >= taken
  /\ \A s \in 1..taken : Intact(s)' => Intact(s) /\ snap'[s].has = snap[s].has

LEMMA TakenTyped ==
  ASSUME SnapTypeOK
  PROVE  taken \in Nat /\ taken <= MaxSnaps /\ 1..taken \subseteq Snaps
  BY SnapParameters DEF SnapTypeOK, Snaps

LEMMA StoreGrows ==
  ASSUME SnapTypeOK, NamesInv, NEW has, Grown(has)
  PROVE  /\ OnlyGrows /\ NamesInv'
         /\ \A s \in 1..taken : snap'[s] = snap[s]
         /\ \A s \in Snaps : snap'[s] = snap[s] \/ snap[s] = NoSnap
  <1>1. /\ taken \in Nat /\ taken' = taken + 1 /\ 1..taken \subseteq Snaps
        /\ \A s \in Snaps : s # taken' => snap'[s] = snap[s]
    BY TakenTyped DEF Grown
  <1>2. \A s \in 1..taken : snap'[s] = snap[s]
    BY <1>1
  <1>3. NamesInv'
    BY <1>1 DEF NamesInv, Snaps
  <1>4. snap[taken'] = NoSnap
    BY <1>1 DEF NamesInv, Grown, Snaps
  <1>5. QED
    BY <1>1, <1>2, <1>3, <1>4 DEF OnlyGrows, Intact

LEMMA StorePruned ==
  ASSUME SnapTypeOK, NamesInv, Prune
  PROVE  OnlyGrows /\ NamesInv'
  <1>1. /\ taken' = taken /\ taken \in Nat /\ 1..taken \subseteq Snaps
        /\ \A s \in Snaps :
              \/ snap'[s] = snap[s] \/ snap'[s] = NoSnap
              \/ snap'[s].state = "cut" /\ snap[s].state # "none"
    BY PruneIs, TakenTyped
  <1>2. NoSnap.state = "none"
    BY BlankTyped
  <1>3. QED
    BY <1>1, <1>2 DEF OnlyGrows, NamesInv, Intact

LEMMA StoreSame ==
  ASSUME SnapTypeOK, NamesInv, UNCHANGED <<snap, taken>>
  PROVE  OnlyGrows /\ NamesInv'
  BY TakenTyped DEF OnlyGrows, NamesInv, Intact

\* A restore and the commands beside it.
LEMMA BesideKeeps ==
  ASSUME NEW p \in Restorers, During(p), OnlyGrows,
         UNCHANGED <<mounted, live, staging, backup, proc>>
  PROVE  Kept(p)
  <1>1. /\ taken \in Nat /\ taken' >= taken /\ proc' = proc
        /\ \A s \in 1..taken : Intact(s)' => Intact(s) /\ snap'[s].has = snap[s].has
    BY TakenTyped DEF During, OnlyGrows
  <1>2. proc[p].of \in 1..taken /\ proc[p].safety \in 0..taken /\ taken' \in Nat
    BY DEF During, CopiesInv, OnlyGrows
  <1>3. CopiesInv(p)'
    BY <1>1, <1>2 DEF During, CopiesInv
  <1>4. Intact(proc[p].of)' => Intact(proc[p].of) /\ snap'[proc[p].of].has = snap[proc[p].of].has
    BY <1>1, <1>2
  <1>5. HoldsInv(p)' /\ BackupInv'
    BY <1>1, <1>4 DEF During, HoldsInv, BackupInv, Intact
  <1>6. PhaseInv(p)'
    <2>1. AsideInv(p) => AsideInv(p)'
      BY <1>1 DEF AsideInv
    <2>2. ForthInv(p)'
      BY <1>1, <1>4, <2>1 DEF During, PhaseInv, ForthInv
    <2>3. BackInv(p)'
      BY <1>1, <1>4 DEF During, PhaseInv, BackInv
    <2>4. QED
      BY <2>2, <2>3 DEF PhaseInv
  <1>7. QED
    BY <1>3, <1>5, <1>6 DEF Kept

\* A step that keeps what its restore works on, and the store.
LEMMA CopiesKept ==
  ASSUME NEW p \in Restorers, During(p), UNCHANGED <<snap, taken>>,
         proc[p].pc # "safety", proc'[p].pc # "safety", proc'[p].of = proc[p].of,
         proc'[p].safety = proc[p].safety, proc'[p].was = proc[p].was
  PROVE  CopiesInv(p)'
  BY DEF During, CopiesInv, Intact

LEMMA CheckKeeps ==
  ASSUME TypeInv, NamesInv, BackupInv, NEW p \in Restorers,
         NEW s \in Snaps, Check(p, s)
  PROVE  Kept(p)
  <1>1. /\ proc'[p].pc = "safety" /\ proc'[p].of = s /\ proc'[p].safety = 0
        /\ proc'[p].moved = {} /\ proc'[p].swapping = FALSE /\ proc'[p].was = live
        /\ UNCHANGED <<live, backup, snap, taken>> /\ ~backup.there
        /\ snap[s].state # "none" /\ taken \in Nat
    BY CheckIs, TakenTyped DEF TypeInv, Check, There, stored
  <1>2. s \in 1..taken
    BY <1>1, BlankTyped DEF NamesInv, Snaps
  <1>3. \A e \in Entries : backup.has[e] = 0
    BY <1>1, EmptyTyped DEF BackupInv
  <1>4. CopiesInv(p)'
    BY <1>1, <1>2 DEF CopiesInv
  <1>5. HoldsInv(p)' /\ BackupInv'
    BY <1>1, <1>3 DEF HoldsInv, BackupInv
  <1>6. ForthInv(p)' /\ BackInv(p)'
    BY <1>1 DEF ForthInv, BackInv
  <1>7. QED
    BY <1>4, <1>5, <1>6 DEF Kept, PhaseInv

LEMMA SafetyKeeps ==
  ASSUME NamesInv, NEW p \in Restorers, During(p), Safety(p)
  PROVE  Kept(p)
  <1>1. /\ proc[p].pc = "safety" /\ UNCHANGED <<live, backup>> /\ taken \in Nat
        /\ proc'[p].pc = "stage" /\ proc'[p].of = proc[p].of /\ proc'[p].was = proc[p].was
        /\ proc'[p].moved = proc[p].moved /\ proc'[p].swapping = proc[p].swapping
    BY SafetyIs, TakenTyped DEF During, Safety, Doing, Turned
  <1>2. proc[p].safety = 0 /\ proc[p].of \in 1..taken /\ live = proc[p].was
    BY <1>1 DEF During, CopiesInv, PhaseInv, ForthInv
  <1>3. CASE /\ live = Empty /\ UNCHANGED <<snap, taken>>
             /\ proc'[p].safety = proc[p].safety
    <2>1. CopiesInv(p)'
      BY <1>1, <1>2, <1>3 DEF CopiesInv
    <2>2. HoldsInv(p)' /\ BackupInv'
      BY <1>1, <1>2, <1>3 DEF HoldsInv, BackupInv, During
    <2>3. QED
      BY <1>1, <1>2, <2>1, <2>2 DEF Kept, During, PhaseInv, ForthInv, BackInv
  <1>4. CASE Grown(live) /\ proc'[p].safety = taken'
    <2>1. /\ snap'[proc[p].of] = snap[proc[p].of] /\ taken' = taken + 1
          /\ snap'[taken'].has = live
      BY <1>2, <1>4, StoreGrows DEF During, Grown
    <2>2. CopiesInv(p)'
      BY <1>1, <1>2, <1>4, <2>1 DEF CopiesInv
    <2>3. HoldsInv(p)' /\ BackupInv'
      BY <1>1, <1>2, <2>1 DEF HoldsInv, BackupInv, During
    <2>4. QED
      BY <1>1, <1>2, <2>2, <2>3 DEF Kept, During, PhaseInv, ForthInv, BackInv
  <1>5. QED
    BY <1>1, <1>3, <1>4, SafetyIs DEF During, Turned

LEMMA StageKeeps ==
  ASSUME TypeInv, NEW p \in Restorers, During(p), Stage(p)
  PROVE  Kept(p)
  <1>1. /\ proc[p].pc = "stage" /\ UNCHANGED <<live, backup, snap, taken>>
        /\ staging' = snap[proc[p].of].has
        /\ Turned(p, "aside", proc[p].todo, proc[p].moved, proc[p].swapping, proc[p].end)
    BY StageIs DEF Stage, Doing, stored
  <1>2. CopiesInv(p)'
    BY <1>1, CopiesKept DEF Turned
  <1>3. HoldsInv(p)' /\ BackupInv'
    BY <1>1 DEF HoldsInv, BackupInv, During, Turned, Intact
  <1>4. QED
    BY <1>1, <1>2, <1>3 DEF Kept, During, PhaseInv, ForthInv, BackInv, Turned

LEMMA AsideKeeps ==
  ASSUME NEW p \in Restorers, During(p), Aside(p)
  PROVE  Kept(p)
  <1>1. /\ proc[p].pc = "aside" /\ UNCHANGED <<live, staging, snap, taken, mounted>>
        /\ live = proc[p].was /\ proc[p].moved = {} /\ ~proc[p].swapping /\ ~backup.there
    BY DEF Aside, Doing, stored, rest, During, PhaseInv, ForthInv
  <1>2. /\ backup'.there /\ backup'.has = Empty
        /\ Turned(p, "move", Held(live), proc[p].moved, proc[p].swapping, proc[p].end)
    BY <1>1, AsideIs DEF During
  <1>3. CopiesInv(p)'
    BY <1>1, <1>2, CopiesKept DEF Turned
  <1>4. HoldsInv(p)' /\ BackupInv'
    BY <1>1, <1>2, EmptyTyped DEF HoldsInv, BackupInv, During, Turned, Intact
  <1>5. AsideInv(p)'
    BY <1>1, <1>2 DEF AsideInv, Turned
  <1>6. QED
    BY <1>1, <1>2, <1>3, <1>4, <1>5 DEF Kept, PhaseInv, ForthInv, BackInv, Turned

LEMMA MoveKeeps ==
  ASSUME NEW p \in Restorers, During(p), Move(p)
  PROVE  Kept(p)
  <1>1. /\ proc[p].pc = "move" /\ UNCHANGED <<staging, snap, taken, mounted>> /\ ~mounted
        /\ backup.there /\ AsideInv(p) /\ ~proc[p].swapping
        /\ proc[p].todo = Held(proc[p].was) \ proc[p].moved
        /\ \A e \in proc[p].moved : live[e] = 0
    BY DEF Move, Doing, stored, rest, During, PhaseInv, ForthInv
  <1>2. PICK e \in proc[p].todo \cap Held(live) :
          /\ Puts(live, live', e, 0)
          /\ backup'.there = backup.there /\ Puts(backup.has, backup'.has, e, live[e])
          /\ Turned(p, "move", proc[p].todo \ {e}, proc[p].moved \cup {e},
                    proc[p].swapping, proc[p].end)
    BY MoveIs DEF During
  <1>3. /\ e \in Entries /\ e \in Held(proc[p].was) /\ e \notin proc[p].moved
        /\ live[e] = proc[p].was[e] /\ proc[p].moved \subseteq Entries
    BY <1>1, <1>2, ProcTyped DEF AsideInv, Held, During
  <1>4. CopiesInv(p)'
    BY <1>1, <1>2, CopiesKept DEF Turned
  <1>5. HoldsInv(p)' /\ BackupInv'
    BY <1>1, <1>2, <1>3 DEF HoldsInv, BackupInv, During, Turned, Intact, Puts
  <1>6. AsideInv(p)'
    BY <1>1, <1>2, <1>3 DEF AsideInv, Turned, Puts
  <1>7. /\ proc'[p].todo = Held(proc'[p].was) \ proc'[p].moved
        /\ \A f \in proc'[p].moved : live'[f] = 0
    BY <1>1, <1>2, <1>3 DEF Turned, Puts
  <1>8. ForthInv(p)' /\ BackInv(p)'
    BY <1>1, <1>2, <1>6, <1>7 DEF ForthInv, BackInv, Turned
  <1>9. QED
    BY <1>4, <1>5, <1>8 DEF Kept, PhaseInv

LEMMA CopyAsideKeeps ==
  ASSUME NEW p \in Restorers, During(p), CopyAside(p)
  PROVE  Kept(p)
  <1>1. /\ proc[p].pc = "move" /\ UNCHANGED <<live, staging, snap, taken, mounted>> /\ mounted
        /\ backup.there /\ AsideInv(p) /\ ~proc[p].swapping /\ proc[p].moved = {}
        /\ proc[p].todo = Held(proc[p].was)
    BY DEF CopyAside, Doing, stored, rest, During, PhaseInv, ForthInv
  <1>2. /\ backup'.there = backup.there
        /\ \A e \in Entries : backup'.has[e] = IF e \in proc[p].todo THEN live[e] ELSE 0
        /\ Turned(p, "strip", proc[p].todo, proc[p].todo, proc[p].swapping, proc[p].end)
    <2>1. /\ backup'.there = backup.there /\ backup'.has = Part(live, proc[p].todo)
          /\ Turned(p, "strip", proc[p].todo, proc[p].moved \cup proc[p].todo,
                    proc[p].swapping, proc[p].end)
      BY CopyAsideIs DEF During
    <2>2. \A e \in Entries :
            Part(live, proc[p].todo)[e] = IF e \in proc[p].todo THEN live[e] ELSE 0
      BY PartTyped DEF During, SnapTypeOK
    <2>3. proc[p].moved \cup proc[p].todo = proc[p].todo
      BY <1>1
    <2>4. QED
      BY <2>1, <2>2, <2>3
  <1>3. \A e \in Entries : live[e] = proc[p].was[e]
    BY <1>1 DEF AsideInv
  <1>4. CopiesInv(p)'
    BY <1>1, <1>2, CopiesKept DEF Turned
  <1>5. HoldsInv(p)' /\ BackupInv'
    BY <1>1, <1>2, <1>3 DEF HoldsInv, BackupInv, During, Turned, Intact
  <1>6. AsideInv(p)'
    BY <1>1, <1>2, <1>3 DEF AsideInv, Turned, Held
  <1>7. ForthInv(p)' /\ BackInv(p)'
    BY <1>1, <1>2, <1>6 DEF ForthInv, BackInv, Turned
  <1>8. QED
    BY <1>4, <1>5, <1>7 DEF Kept, PhaseInv

LEMMA CopyAsidePartKeeps ==
  ASSUME NEW p \in Restorers, During(p), CopyAsidePart(p)
  PROVE  Kept(p)
  <1>1. /\ proc[p].pc = "move" /\ UNCHANGED <<live, staging, snap, taken, mounted>> /\ mounted
        /\ backup.there /\ AsideInv(p) /\ ~proc[p].swapping /\ proc[p].moved = {}
    BY DEF CopyAsidePart, Doing, stored, rest, During, PhaseInv, ForthInv
  <1>2. /\ backup'.there = backup.there
        /\ \A e \in Entries : backup'.has[e] \in {0, live[e]}
        /\ Turned(p, "clear", proc[p].todo, proc[p].moved, proc[p].swapping, proc[p].end)
    BY CopyAsidePartIs DEF During
  <1>3. \A e \in Entries : live[e] = proc[p].was[e]
    BY <1>1 DEF AsideInv
  <1>4. CopiesInv(p)'
    BY <1>1, <1>2, CopiesKept DEF Turned
  <1>5. HoldsInv(p)' /\ BackupInv'
    BY <1>1, <1>2, <1>3 DEF HoldsInv, BackupInv, During, Turned, Intact
  <1>6. AsideInv(p)'
    BY <1>1, <1>2, <1>3 DEF AsideInv, Turned
  <1>7. QED
    BY <1>1, <1>2, <1>4, <1>5, <1>6 DEF Kept, PhaseInv, ForthInv, BackInv, Turned

LEMMA StripKeeps ==
  ASSUME NEW p \in Restorers, During(p), Strip(p)
  PROVE  Kept(p)
  <1>1. /\ proc[p].pc = "strip" /\ UNCHANGED <<staging, backup, snap, taken, mounted>>
        /\ backup.there /\ AsideInv(p) /\ ~proc[p].swapping
        /\ proc[p].moved = Held(proc[p].was)
        /\ \A e \in proc[p].moved \ proc[p].todo : live[e] = 0
    BY DEF Strip, Doing, stored, rest, During, PhaseInv, ForthInv
  <1>2. PICK e \in proc[p].todo :
          /\ Puts(live, live', e, 0)
          /\ Turned(p, "strip", proc[p].todo \ {e}, proc[p].moved, proc[p].swapping, proc[p].end)
    BY StripIs DEF During
  <1>3. e \in Entries /\ (e \notin proc[p].moved => proc[p].was[e] = 0)
    BY <1>1, <1>2, ProcTyped DEF During, Held
  <1>4. CopiesInv(p)'
    BY <1>1, <1>2, CopiesKept DEF Turned
  <1>5. HoldsInv(p)' /\ BackupInv'
    BY <1>1, <1>2, <1>3 DEF HoldsInv, BackupInv, During, Turned, Intact, Puts
  <1>6. AsideInv(p)'
    BY <1>1, <1>2, <1>3 DEF AsideInv, Turned, Puts
  <1>7. \A f \in proc'[p].moved \ proc'[p].todo : live'[f] = 0
    BY <1>1, <1>2, <1>3 DEF Turned, Puts, Held
  <1>8. ForthInv(p)' /\ BackInv(p)'
    BY <1>1, <1>2, <1>6, <1>7 DEF ForthInv, BackInv, Turned
  <1>9. QED
    BY <1>4, <1>5, <1>8 DEF Kept, PhaseInv

LEMMA SwappedKeeps ==
  ASSUME NEW p \in Restorers, During(p), Swapped(p)
  PROVE  Kept(p)
  <1>1. /\ proc[p].pc \in {"move", "strip"} /\ proc[p].todo = {}
        /\ UNCHANGED <<live, staging, backup, snap, taken, mounted>>
        /\ backup.there /\ AsideInv(p) /\ ~proc[p].swapping
        /\ proc[p].pc = "move" => Held(proc[p].was) \ proc[p].moved = {}
        /\ proc[p].pc = "strip" => proc[p].moved = Held(proc[p].was)
        /\ \A e \in proc[p].moved : live[e] = 0
    BY DEF Swapped, stored, rest, During, PhaseInv, ForthInv
  <1>2. Turned(p, "swap", Held(staging), proc[p].moved, TRUE, proc[p].end)
    BY SwappedIs DEF During
  <1>3. proc[p].moved = Held(proc[p].was)
    BY <1>1 DEF AsideInv
  <1>4. \A e \in Entries : live[e] = 0
    BY <1>1, <1>3 DEF AsideInv, Held
  <1>5. CopiesInv(p)'
    BY <1>1, <1>2, CopiesKept DEF Turned
  <1>6. Intact(proc[p].of) => \A e \in Entries : staging[e] = snap[proc[p].of].has[e]
    BY <1>1 DEF During, HoldsInv
  <1>7. HoldsInv(p)' /\ BackupInv'
    BY <1>1, <1>2, <1>6 DEF HoldsInv, BackupInv, During, Turned, Intact
  <1>8. AsideInv(p)'
    BY <1>1, <1>2, <1>3 DEF AsideInv, Turned
  <1>9. Intact(proc[p].of)' =>
          \A e \in Entries \ proc'[p].todo : live'[e] = snap'[proc'[p].of].has[e]
    BY <1>1, <1>2, <1>4, <1>6 DEF Turned, Intact, Held
  <1>10. ForthInv(p)' /\ BackInv(p)'
    BY <1>1, <1>2, <1>8, <1>9 DEF ForthInv, BackInv, Turned
  <1>11. QED
    BY <1>5, <1>7, <1>10 DEF Kept, PhaseInv

LEMMA SwapKeeps ==
  ASSUME NEW p \in Restorers, During(p), Swap(p)
  PROVE  Kept(p)
  <1>1. /\ proc[p].pc = "swap" /\ UNCHANGED <<backup, snap, taken, mounted>>
        /\ backup.there /\ AsideInv(p) /\ proc[p].swapping
        /\ Intact(proc[p].of) =>
             \A e \in Entries \ proc[p].todo : live[e] = snap[proc[p].of].has[e]
    BY DEF Swap, Doing, stored, rest, During, PhaseInv, ForthInv
  <1>2. PICK e \in proc[p].todo :
          /\ Puts(live, live', e, staging[e])
          /\ \A f \in Entries : f # e => staging'[f] = staging[f]
          /\ Turned(p, "swap", proc[p].todo \ {e}, proc[p].moved, proc[p].swapping, proc[p].end)
    BY SwapIs DEF During
  <1>3. e \in Entries /\ (Intact(proc[p].of) => staging[e] = snap[proc[p].of].has[e])
    BY <1>1, <1>2, ProcTyped DEF During, HoldsInv
  <1>4. CopiesInv(p)'
    BY <1>1, <1>2, CopiesKept DEF Turned
  <1>5. HoldsInv(p)' /\ BackupInv'
    BY <1>1, <1>2, <1>3 DEF HoldsInv, BackupInv, During, Turned, Intact, Puts
  <1>6. AsideInv(p)'
    BY <1>1, <1>2 DEF AsideInv, Turned
  <1>7. Intact(proc[p].of)' =>
          \A f \in Entries \ proc'[p].todo : live'[f] = snap'[proc'[p].of].has[f]
    BY <1>1, <1>2, <1>3 DEF Turned, Puts, Intact
  <1>8. ForthInv(p)' /\ BackInv(p)'
    BY <1>1, <1>2, <1>6, <1>7 DEF ForthInv, BackInv, Turned
  <1>9. QED
    BY <1>4, <1>5, <1>8 DEF Kept, PhaseInv

\* Failures of the copy and of the moves, the end of a restore, an undo that fails,
\* an interruption.
LEMMA RestKeeps ==
  ASSUME NEW p \in Restorers, During(p), ~Doing(p, "safety"), RestStep(p)
  PROVE  Kept(p)
  <1>1. UNCHANGED <<live, staging, backup, snap, taken>> /\ proc[p].pc # "safety"
    BY RestIs DEF During, Doing
  <1>2. CASE /\ Fails(p)
             /\ Turned(p, "clear", proc[p].todo, proc[p].moved, proc[p].swapping, proc[p].end)
    <2>1. CopiesInv(p)'
      BY <1>1, <1>2, CopiesKept DEF Turned
    <2>2. HoldsInv(p)' /\ BackupInv'
      BY <1>1, <1>2 DEF HoldsInv, BackupInv, During, Turned, Intact
    <2>3. AsideInv(p)
      <3>1. CASE proc[p].pc = "aside"
        BY <3>1 DEF During, PhaseInv, ForthInv, AsideInv
      <3>2. CASE proc[p].pc \in {"move", "strip", "swap"}
        BY <3>2 DEF During, PhaseInv, ForthInv
      <3>3. QED
        BY <1>2, <3>1, <3>2 DEF Fails
    <2>4. AsideInv(p)'
      BY <1>1, <1>2, <2>3 DEF AsideInv, Turned
    <2>5. ForthInv(p)' /\ BackInv(p)'
      BY <1>2, <2>4 DEF ForthInv, BackInv, Turned
    <2>6. QED
      BY <2>1, <2>2, <2>5 DEF Kept, PhaseInv
  <1>3. ASSUME NEW end \in Ends,
               end = "put back" => StageFails(p), end = "restored" => Restored(p),
               Turned(p, "cleanup", proc[p].todo, proc[p].moved, proc[p].swapping, end)
        PROVE  Kept(p)
    <2>1. CopiesInv(p)'
      BY <1>1, <1>3, CopiesKept DEF Turned
    <2>2. HoldsInv(p)' /\ BackupInv'
      BY <1>1, <1>3 DEF HoldsInv, BackupInv, During, Turned, Intact
    <2>3. end = "put back" => live = proc[p].was
      BY <1>3 DEF StageFails, Doing, During, PhaseInv, ForthInv
    <2>4. end = "restored" /\ Intact(proc[p].of) => live = snap[proc[p].of].has
      <3>1. ASSUME end = "restored", Intact(proc[p].of)
            PROVE  \A e \in Entries : live[e] = snap[proc[p].of].has[e]
        BY <1>3, <3>1 DEF Restored, Doing, During, PhaseInv, ForthInv
      <3>2. live \in Contents /\ snap[proc[p].of].has \in Contents
        BY DEF During, SnapTypeOK
      <3>3. QED
        BY <3>1, <3>2 DEF Contents
    <2>5. ForthInv(p)' /\ BackInv(p)'
      BY <1>1, <1>3, <2>3, <2>4 DEF ForthInv, BackInv, Turned, Intact
    <2>6. QED
      BY <2>1, <2>2, <2>5 DEF Kept, PhaseInv
  <1>4. QED
    BY <1>2, <1>3, RestIs DEF During

LEMMA ClearKeepsVault ==
  ASSUME NEW p \in Restorers, During(p), ClearVault(p)
  PROVE  Kept(p)
  <1>1. /\ proc[p].pc = "clear" /\ UNCHANGED <<staging, backup, snap, taken, mounted>>
        /\ AsideInv(p)
    BY DEF ClearVault, Doing, stored, rest, During, PhaseInv, ForthInv
  <1>2. CASE /\ Misplaced(p) = {} /\ UNCHANGED live
             /\ Turned(p, "trim", proc[p].todo, proc[p].moved, proc[p].swapping, proc[p].end)
    <2>1. \A e \in Entries : live[e] = IF e \in proc[p].moved THEN 0 ELSE proc[p].was[e]
      BY <1>1, <1>2, ProcTyped DEF Misplaced, Held, AsideInv, During
    <2>2. CopiesInv(p)'
      BY <1>1, <1>2, CopiesKept DEF Turned
    <2>3. HoldsInv(p)' /\ BackupInv'
      BY <1>1, <1>2 DEF HoldsInv, BackupInv, During, Turned, Intact
    <2>4. AsideInv(p)'
      BY <1>1, <1>2 DEF AsideInv, Turned
    <2>5. ForthInv(p)' /\ BackInv(p)'
      BY <1>2, <2>1, <2>4 DEF ForthInv, BackInv, Turned
    <2>6. QED
      BY <2>2, <2>3, <2>5 DEF Kept, PhaseInv
  <1>3. ASSUME UNCHANGED proc, NEW e \in Misplaced(p), Puts(live, live', e, 0)
        PROVE  Kept(p)
    <2>1. e \in Entries /\ (proc[p].swapping \/ e \in proc[p].moved)
      BY <1>3 DEF Misplaced, Held
    <2>2. CopiesInv(p)'
      BY <1>1, <1>3, CopiesKept
    <2>3. HoldsInv(p)' /\ BackupInv'
      BY <1>1, <1>3, <2>1 DEF HoldsInv, BackupInv, During, Intact, Puts
    <2>4. AsideInv(p)'
      BY <1>1, <1>3, <2>1 DEF AsideInv, Puts
    <2>5. ForthInv(p)' /\ BackInv(p)'
      BY <1>1, <1>3, <2>4 DEF ForthInv, BackInv
    <2>6. QED
      BY <2>2, <2>3, <2>5 DEF Kept, PhaseInv
  <1>4. QED
    BY <1>2, <1>3, ClearIs DEF During

LEMMA TrimKeeps ==
  ASSUME NEW p \in Restorers, During(p), Trim(p)
  PROVE  Kept(p)
  <1>1. /\ proc[p].pc = "trim" /\ UNCHANGED <<live, staging, snap, taken, mounted>>
        /\ AsideInv(p)
        /\ \A e \in Entries : live[e] = IF e \in proc[p].moved THEN 0 ELSE proc[p].was[e]
    BY DEF Trim, Doing, stored, rest, During, PhaseInv, ForthInv, BackInv
  <1>2. /\ backup'.has \in Contents /\ backup'.there = backup.there
        /\ \A e \in Entries :
             backup'.has[e] = IF e \in proc[p].moved THEN backup.has[e] ELSE 0
        /\ Turned(p, "back", proc[p].moved, proc[p].moved, proc[p].swapping, proc[p].end)
    BY TrimIs DEF During
  <1>3. CopiesInv(p)'
    BY <1>1, <1>2, CopiesKept DEF Turned
  <1>4. HoldsInv(p)'
    BY <1>1, <1>2 DEF HoldsInv, During, Turned, Intact
  <1>5. BackupInv'
    BY <1>2, EmptyTyped DEF During, BackupInv, Contents
  <1>6. ForthInv(p)' /\ BackInv(p)'
    BY <1>1, <1>2 DEF ForthInv, BackInv, Turned, AsideInv
  <1>7. QED
    BY <1>3, <1>4, <1>5, <1>6 DEF Kept, PhaseInv

LEMMA BackKeeps ==
  ASSUME NEW p \in Restorers, During(p), Back(p)
  PROVE  Kept(p)
  <1>1. /\ proc[p].pc = "back" /\ UNCHANGED <<staging, snap, taken, mounted>>
        /\ \A e \in Entries : IF e \in proc[p].todo THEN backup.has[e] = proc[p].was[e]
                              ELSE live[e] = proc[p].was[e]
    BY DEF Back, Doing, stored, rest, During, PhaseInv, BackInv
  <1>2. CASE /\ proc[p].todo = {} /\ UNCHANGED <<live, backup>>
             /\ Turned(p, "cleanup", {}, proc[p].moved, proc[p].swapping, "put back")
    <2>1. live = proc[p].was
      <3>1. \A e \in Entries : live[e] = proc[p].was[e]
        BY <1>1, <1>2
      <3>2. live \in Contents /\ proc[p].was \in Contents
        BY ProcTyped DEF During, SnapTypeOK
      <3>3. QED
        BY <3>1, <3>2 DEF Contents
    <2>2. CopiesInv(p)'
      BY <1>1, <1>2, CopiesKept DEF Turned
    <2>3. HoldsInv(p)' /\ BackupInv'
      BY <1>1, <1>2 DEF HoldsInv, BackupInv, During, Turned, Intact
    <2>4. QED
      BY <1>2, <2>1, <2>2, <2>3 DEF Kept, PhaseInv, ForthInv, BackInv, Turned
  <1>3. ASSUME NEW e \in proc[p].todo, Puts(live, live', e, backup.has[e]),
               backup' \in [there : BOOLEAN, has : Contents],
               backup'.there = backup.there,
               backup' = backup \/ Puts(backup.has, backup'.has, e, 0),
               Turned(p, "back", proc[p].todo \ {e}, proc[p].moved,
                      proc[p].swapping, proc[p].end)
        PROVE  Kept(p)
    <2>1. /\ e \in Entries
          /\ \A f \in Entries : backup'.has[f] = backup.has[f] \/ f = e
          /\ backup'.has[e] = backup.has[e] \/ backup'.has[e] = 0
      BY <1>3, ProcTyped DEF During, Puts
    <2>2. CopiesInv(p)'
      BY <1>1, <1>3, CopiesKept DEF Turned
    <2>3. HoldsInv(p)'
      BY <1>1, <1>3, <2>1 DEF HoldsInv, During, Turned, Intact, Puts
    <2>4. BackupInv'
      <3>1. backup'.has \in Contents
        BY <1>3
      <3>2. ~backup.there => \A f \in Entries : backup'.has[f] = 0
        BY <2>1, EmptyTyped DEF During, BackupInv
      <3>3. QED
        BY <1>3, <3>1, <3>2, EmptyTyped DEF BackupInv, Contents
    <2>5. ForthInv(p)' /\ BackInv(p)'
      BY <1>1, <1>3, <2>1 DEF ForthInv, BackInv, Turned, Puts
    <2>6. QED
      BY <2>2, <2>3, <2>4, <2>5 DEF Kept, PhaseInv
  <1>4. QED
    BY <1>2, <1>3, BackIs DEF During

\* The end of a restore, however it ends.
LEMMA EndKeeps ==
  ASSUME SnapTypeOK, BackupInv, NEW p \in Restorers,
         Ended(p), backup' = backup \/ backup' = NoDir
  PROVE  BackupInv' /\ proc'[p].pc = "idle"
  BY BlankTyped DEF BackupInv, Ended

LEMMA RestoreKeeps ==
  ASSUME Alone, SnapInv, NEW p \in Restorers, RestoreStep(p)
  PROVE  NamesInv' /\ BackupInv' /\ RestoreInv'
  <1>1. /\ SnapTypeOK /\ NamesInv /\ BackupInv /\ TypeInv
        /\ ~Doing(p, "idle") => During(p)
    BY DEF SnapInv, TypeInv, OfInv, RestoreInv, During
  <1>2. ASSUME Kept(p) PROVE BackupInv' /\ RestoreInv'
    BY <1>2 DEF Alone, Kept, RestoreInv
  <1>3. ASSUME Ended(p), backup' = backup \/ backup' = NoDir
        PROVE  BackupInv' /\ RestoreInv'
    BY <1>1, <1>3, EndKeeps DEF Alone, RestoreInv, Doing
  <1>4. CASE Safety(p)
    <2>1. NamesInv'
      BY <1>1, <1>4, SafetyIs, StoreGrows, StoreSame
    <2>2. QED
      BY <1>1, <1>2, <1>4, <2>1, SafetyKeeps DEF Safety, Doing
  <1>5. CASE SafetyFails(p)
    BY <1>1, <1>3, <1>5, SafetyFailsIs, StoreGrows DEF SafetyFails
  <1>6. ASSUME ~Safety(p), ~SafetyFails(p) PROVE UNCHANGED <<snap, taken>>
    BY <1>6 DEF RestoreStep, stored, Check,
         Stage, StageFails, Aside, Move, CopyAside,
         CopyAsidePart, Strip, Swapped, Swap, Restored, Fails,
         ClearVault, Trim, Back, UndoFails, Interrupt, Cleanup,
         Kill
  <1>7. ASSUME UNCHANGED <<snap, taken>> PROVE NamesInv'
    BY <1>1, <1>7, StoreSame
  <1>8. ASSUME NEW s \in Snaps, Check(p, s) PROVE BackupInv' /\ RestoreInv'
    BY <1>1, <1>2, <1>8, CheckKeeps
  <1>9. ASSUME \/ Stage(p) \/ Aside(p) \/ Move(p) \/ CopyAside(p)
               \/ CopyAsidePart(p) \/ Strip(p) \/ Swap(p)
        PROVE  BackupInv' /\ RestoreInv'
    <2>1. During(p)
      BY <1>1, <1>9 DEF Doing, Stage, Aside, Move, CopyAside,
         CopyAsidePart, Strip, Swap
    <2>2. QED
      BY <1>1, <1>2, <1>9, <2>1, StageKeeps, AsideKeeps, MoveKeeps, CopyAsideKeeps,
         CopyAsidePartKeeps, StripKeeps, SwapKeeps
  <1>10. ASSUME Swapped(p) \/ ClearVault(p) \/ Trim(p) \/ Back(p)
        PROVE  BackupInv' /\ RestoreInv'
    <2>1. During(p)
      BY <1>1, <1>10 DEF Doing, Swapped, ClearVault, Trim, Back
    <2>2. QED
      BY <1>1, <1>2, <1>10, <2>1, SwappedKeeps, ClearKeepsVault, TrimKeeps, BackKeeps
  <1>11. ASSUME RestStep(p) PROVE BackupInv' /\ RestoreInv'
    <2>1. ~Doing(p, "idle") /\ ~Doing(p, "safety")
      BY <1>11 DEF RestStep, StageFails, Restored, Fails,
         UndoFails, Interrupt, Doing, Trying, Undoing
    <2>2. QED
      BY <1>1, <1>2, <1>11, <2>1, RestKeeps
  <1>12. ASSUME Cleanup(p) PROVE BackupInv' /\ RestoreInv'
    BY <1>1, <1>3, <1>12, CleanupIs
  <1>13. ASSUME Kill(p) PROVE BackupInv' /\ RestoreInv'
    BY <1>1, <1>3, <1>13, IdleIs DEF Kill
  <1>14. BackupInv' /\ RestoreInv'
    BY <1>4, <1>5, <1>8, <1>9, <1>10, <1>11, <1>12, <1>13 DEF RestoreStep, RestStep
  <1>15. QED
    BY <1>4, <1>5, <1>6, <1>7, <1>14

LEMMA SnapKeeps ==
  ASSUME Alone, SnapInv, [SnapNext]_snapVars
  PROVE  SnapInv'
  <1>1. SnapTypeOK /\ NamesInv /\ BackupInv /\ TypeInv /\ RestoreInv
    BY DEF SnapInv, TypeInv
  <1>2. TypeInv'
    BY <1>1, NextTyped
  <1>3. ASSUME OnlyGrows, UNCHANGED <<mounted, live, staging, backup, proc>>
        PROVE  BackupInv' /\ RestoreInv'
    <2>1. BackupInv'
      BY <1>1, <1>3 DEF BackupInv
    <2>2. ASSUME NEW p \in Restorers, ~Doing(p, "idle")' PROVE Kept(p)
      BY <1>1, <1>3, <2>2, BesideKeeps DEF During, RestoreInv, TypeInv, OfInv, Doing
    <2>3. QED
      BY <2>1, <2>2 DEF RestoreInv, Kept
  <1>4. ASSUME \A p \in Restorers : Doing(p, "idle"), UNCHANGED proc
        PROVE  RestoreInv'
    BY <1>4 DEF RestoreInv, Doing
  <1>5. CASE \E p \in Restorers : RestoreStep(p)
    BY <1>2, <1>5, RestoreKeeps DEF SnapInv
  <1>6. CASE Write
    <2>1. BackupInv' /\ NamesInv'
      BY <1>1, <1>6, WriteIs, StoreSame DEF BackupInv
    <2>2. QED
      BY <1>1, <1>2, <1>4, <1>6, <2>1, WriteIs DEF Write, SnapInv, Alone
  <1>7. CASE Take
    BY <1>1, <1>2, <1>3, <1>7, TakeIs, StoreGrows DEF SnapInv
  <1>8. CASE List
    BY <1>1, <1>2, <1>3, <1>8, StoreSame DEF SnapInv, List, rest
  <1>9. CASE Prune
    BY <1>1, <1>2, <1>3, <1>9, PruneIs, StorePruned DEF SnapInv
  <1>10. CASE PutBack
    <2>1. BackupInv' /\ NamesInv'
      BY <1>1, <1>10, PutBackIs, StoreSame, BlankTyped DEF BackupInv
    <2>2. QED
      BY <1>1, <1>2, <1>4, <1>10, <2>1, PutBackIs DEF SnapInv
  <1>11. CASE UNCHANGED snapVars
    BY <1>1, <1>2, <1>3, <1>11, StoreSame DEF SnapInv, snapVars
  <1>12. QED
    BY <1>5, <1>6, <1>7, <1>8, <1>9, <1>10, <1>11 DEF SnapNext

LEMMA SnapAlways == ASSUME Alone PROVE SnapSpec => []SnapInv
  <1>1. ASSUME SnapInit PROVE SnapInv
    <2>1. \A p \in Restorers : proc[p].pc = "idle"
      BY <1>1, BlankTyped DEF SnapInit
    <2>2. QED
      BY <1>1, <2>1, SnapInitTyped, BlankTyped
         DEF SnapInit, SnapInv, NamesInv, BackupInv, RestoreInv, Doing
  <1>2. QED
    BY <1>1, SnapKeeps, PTL DEF SnapSpec

-----------------------------------------------------------------------------
\* The steps of a restore only add to the store.
LEMMA StoreStays ==
  ASSUME SnapTypeOK, NamesInv, NEW p \in Restorers, RestoreStep(p)
  PROVE  /\ snap' \in [Snaps -> [state : {"none", "kept", "cut"}, has : Contents]]
         /\ \A s \in Snaps : snap'[s] = snap[s] \/ snap[s] = NoSnap
  <1>1. ASSUME NEW has, Grown(has)
        PROVE  /\ snap' \in [Snaps -> [state : {"none", "kept", "cut"}, has : Contents]]
               /\ \A s \in Snaps : snap'[s] = snap[s] \/ snap[s] = NoSnap
    BY <1>1, StoreGrows DEF Grown
  <1>2. CASE Safety(p) \/ SafetyFails(p)
    BY <1>1, <1>2, SafetyIs, SafetyFailsIs DEF SnapTypeOK
  <1>3. CASE ~Safety(p) /\ ~SafetyFails(p)
    <2>1. UNCHANGED snap
      BY <1>3 DEF RestoreStep, stored, Check,
         Stage, StageFails, Aside, Move, CopyAside,
         CopyAsidePart, Strip, Swapped, Swap, Restored, Fails,
         ClearVault, Trim, Back, UndoFails, Interrupt, Cleanup,
         Kill
    <2>2. QED
      BY <2>1 DEF SnapTypeOK
  <1>4. QED
    BY <1>2, <1>3

\* Before the safety copy is made a restore touches neither vault nor backup.
LEMMA FirstSteps ==
  ASSUME NEW p \in Restorers, RestoreStep(p),
         Doing(p, "idle") \/ Doing(p, "safety")
  PROVE  UNCHANGED <<live, backup>>
  BY DEF RestoreStep, Doing, Check, Safety, SafetyFails,
         Stage, StageFails, Aside, Move, CopyAside,
         CopyAsidePart, Strip, Swapped, Swap, Restored, Fails,
         ClearVault, Trim, Back, UndoFails, Interrupt, Cleanup,
         Kill, Trying, Undoing

\* A restore's step never removes the last copy of what vault, backup and store
\* hold (snapshots.restore_snapshot and its roll-back), whatever fails, is
\* interrupted or is killed: all of it is in the safety copy or in the snapshot that
\* is restored.  For any entries and any number of snapshots, one restore at a time,
\* and a box that does not write meanwhile.
THEOREM NoCopyLost == ASSUME Alone PROVE SnapSpec => NoLastCopyLost
  <1>1. ASSUME SnapInv, NEW p \in Restorers, RestoreStep(p), Unpruned(p),
               NEW e \in Entries, NEW v \in Copies(e) \ {0}
        PROVE  v \in Copies(e)'
    <2>1. /\ SnapTypeOK /\ NamesInv /\ taken \in Nat /\ 1..taken \subseteq Snaps
          /\ NoSnap.has[e] = 0 /\ Empty[e] = 0
      BY <1>1, TakenTyped, BlankTyped, EmptyTyped DEF SnapInv, TypeInv
    <2>2. ASSUME NEW s \in Snaps, v = snap[s].has[e] PROVE v \in Copies(e)'
      <3>1. snap'[s] = snap[s]
        BY <1>1, <2>1, <2>2, StoreStays
      <3>2. QED
        BY <2>2, <3>1 DEF Copies
    <2>3. CASE v \in {live[e], backup.has[e]}
      <3>1. CASE Doing(p, "idle") \/ Doing(p, "safety")
        BY <1>1, <2>3, <3>1, FirstSteps DEF Copies
      <3>2. CASE ~Doing(p, "idle") /\ ~Doing(p, "safety")
        <4>1. CopiesInv(p) /\ HoldsInv(p) /\ proc[p].pc # "safety"
          BY <1>1, <3>2 DEF SnapInv, RestoreInv, Doing
        <4>2. proc[p].of \in Snaps /\ (proc[p].safety # 0 => proc[p].safety \in Snaps)
          BY <2>1, <4>1 DEF CopiesInv
        <4>3. Intact(proc[p].of) /\ (proc[p].safety # 0 => Intact(proc[p].safety))
          BY <1>1, <2>1, <4>1, <4>2 DEF Unpruned, Intact, Snaps
        <4>4. v = proc[p].was[e] \/ v = snap[proc[p].of].has[e]
          BY <1>1, <2>3, <4>1, <4>3 DEF HoldsInv
        <4>5. v = proc[p].was[e] => v = snap[proc[p].safety].has[e] /\ proc[p].safety # 0
          BY <1>1, <2>1, <4>1, <4>3 DEF CopiesInv
        <4>6. QED
          BY <2>2, <4>2, <4>4, <4>5
      <3>3. QED
        BY <3>1, <3>2
    <2>4. QED
      BY <1>1, <2>2, <2>3 DEF Copies
  <1>2. SnapInv /\ [SnapNext]_snapVars =>
          [\A p \in Restorers : RestoreStep(p) /\ Unpruned(p) =>
             \A e \in Entries : Copies(e) \ {0} \subseteq Copies(e)']_snapVars
    BY <1>1
  <1>3. QED
    BY <1>2, SnapAlways, PTL DEF SnapSpec, NoLastCopyLost

\* A restore that returns is all or nothing (snapshots.restore_snapshot): a success
\* leaves exactly the snapshot in the vault, a failure that names no backup exactly
\* what was there.  Under the same conditions.
THEOREM RestoreIsAllOrNothing ==
  ASSUME Alone PROVE SnapSpec => AllOrNothing
  <1>1. ASSUME SnapInv, NEW p \in Restorers, Doing(p, "cleanup")
        PROVE  /\ proc[p].end = "restored" /\ Unpruned(p) =>
                    live = snap[proc[p].of].has
               /\ proc[p].end = "put back" => live = proc[p].was
    <2>1. proc[p].of \in Snaps /\ PhaseInv(p)
      BY <1>1 DEF SnapInv, TypeInv, OfInv, RestoreInv, Doing
    <2>2. Unpruned(p) => Intact(proc[p].of)
      BY <1>1, <2>1 DEF Unpruned, Intact, Snaps
    <2>3. QED
      BY <1>1, <2>1, <2>2 DEF PhaseInv, BackInv, Doing
  <1>2. SnapInv /\ [SnapNext]_snapVars =>
          [\A p \in Restorers : Doing(p, "cleanup") /\ ~Doing(p, "cleanup")' =>
             /\ proc[p].end = "restored" /\ Unpruned(p) => live = snap[proc[p].of].has
             /\ proc[p].end = "put back" => live = proc[p].was]_snapVars
    BY <1>1
  <1>3. QED
    BY <1>2, SnapAlways, PTL DEF SnapSpec, AllOrNothing
=============================================================================
