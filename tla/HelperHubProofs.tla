--------------------------- MODULE HelperHubProofs ---------------------------
(***************************************************************************)
(* What HelperHub promises for any number of helper numbers and commands:  *)
(* types, one home for every number, that what the hub holds keeps its     *)
(* place, that a sweep leaves only a launch in flight, and that a cleanup  *)
(* takes no home from under a running helper but as it says.               *)
(***************************************************************************)
EXTENDS HelperHub, TLAPS

-----------------------------------------------------------------------------
(* The invariant *)

LaunchPcs == {"make", "ask", "wait"}
LaunchWorks == {"reserve", "clear", "run", "record", "release"}

\* A command that launches a helper, and a thread that does for it.
Launching(c) == proc[c].pc \in LaunchPcs
Serving(c) == req[c].pc \in LaunchWorks

\* The homes a command and its thread launch a helper in.
Claims(c) ==
  {p \in Places : \/ Launching(c) /\ p = <<proc[c].box, proc[c].n>>
                  \/ Serving(c) /\ p = <<req[c].of, req[c].n>>}

Shapes == \A c \in Cmds :
  /\ Launching(c) => <<proc[c].box, proc[c].n>> \in Places
  /\ Serving(c) \/ req[c].pc = "orphan" => <<req[c].of, req[c].n>> \in Places
  /\ proc[c].pc \in {"make", "ask"} => req[c] = NoReq

HubInv ==
  /\ hub.pc = "down" => hub = NoHub /\ \A c \in Cmds : ~Serving(c)
  /\ hub.pc # "up" => ~live
  /\ hub.pc = "sweep" => \A c \in Cmds : req[c].pc # "orphan"

\* Every number in the tree has one home and is below the hub's counter, and so
\* is every number that is being launched; only one command launches it.
OneHome == \A p, q \in Places : Exists(p) /\ Exists(q) /\ p[2] = q[2] => p = q

Counted == hub.pc # "down" =>
  /\ \A p \in Places : Exists(p) => p[2] < hub.next
  /\ \A n \in Nums : hub.homes[n] # None => n < hub.next
  /\ \A c \in Cmds : \A p \in Claims(c) : p[2] < hub.next

Exclusive ==
  \A c, d \in Cmds : \A p \in Claims(c), q \in Claims(d) : c # d => p[2] # q[2]

\* What is claimed, and what the hub noted, is the home there is.
Asked == \A c \in Cmds : \A p \in Claims(c), q \in Places :
  Exists(q) /\ p[2] = q[2] => p = q

Noted == \A p \in Places :
  Exists(p) /\ hub.homes[p[2]] # None => hub.homes[p[2]] = p[1]

\* A spawn that makes its home is the first to use its number.
Fresh == \A c \in Cmds : proc[c].pc = "make" =>
  /\ hub.homes[proc[c].n] = None
  /\ \A p \in Places : p[2] = proc[c].n => ~Exists(p)

TreeInv == OneHome /\ Counted /\ Exclusive /\ Asked /\ Noted /\ Fresh

\* A command that launches does so in a running box, which the sweep will take:
\* none outlives the hub that gave it its number.
InSession == \A c \in Cmds : Launching(c) =>
  /\ hub.pc \in {"up", "sweep"} /\ Alive(proc[c].box)
  /\ hub.pc = "sweep" => proc[c].box \in hub.sweep

\* What a thread reserved stays reserved, and what it may release nobody holds.
Reserved == \A c \in Cmds : Serving(c) /\ req[c].pc # "reserve" =>
  /\ hub.homes[req[c].n] = req[c].of
  /\ req[c].pc # "record" /\ ~req[c].held => req[c].n \notin hub.held

Homed(n) ==
  hub.homes[n] # None /\ (Running(n) => ctr[n].of \in {hub.homes[n], None})

HeldInv ==
  /\ \A n \in hub.held : Homed(n)
  /\ \A c \in Cmds : req[c].pc = "record" => Homed(req[c].n)

SweepInv == hub.pc = "sweep" => \A n \in Nums : Running(n) =>
  n \in hub.sweep \/ \E c \in Cmds : req[c].pc = "record" /\ req[c].n = n

IInv ==
  /\ TypeOK /\ Shapes /\ HubInv /\ TreeInv /\ InSession /\ Reserved /\ HeldInv
  /\ SweepInv

-----------------------------------------------------------------------------
(* Numbers, records and single moves *)

LEMMA Numbers ==
  /\ Nums \subseteq Boxes /\ 0 \in Boxes /\ 0 \notin Nums /\ None \notin Boxes
  /\ None \notin Nums
  /\ \A b \in Boxes : b \in Nums \/ b = 0
  /\ \A n \in Nums : n \in Nat /\ n + 1 \in 1..MaxNum + 1
  /\ \A n \in 1..MaxNum + 1 : n \in Nat
  BY MaxNumAssumption DEF Nums, Boxes, None

LEMMA PlaceParts ==
  /\ \A p \in Places : p[1] \in Boxes /\ p[2] \in Nums /\ p = <<p[1], p[2]>> /\ p[1] # p[2]
  /\ \A b \in Boxes, n \in Nums : b # n => <<b, n>> \in Places
  BY DEF Places

LEMMA Records ==
  /\ NoHelper \in Documents /\ NoCtr \in Containers /\ NoProc \in Commands
  /\ NoReq \in Requests /\ NoHub \in HubStates
  /\ NoProc.pc = "idle" /\ NoReq.pc = "none" /\ NoHelper.st = "none" /\ NoCtr.st = "none"
  /\ NoHub.pc = "down" /\ NoHub.held = {} /\ NoHub.homes = [n \in Nums |-> None]
  BY MaxNumAssumption
     DEF NoHelper, NoCtr, NoProc, NoReq, NoHub, Documents, Containers, Commands,
         Requests, HubStates, Nums, Boxes, None, Works, Answers

LEMMA OneMoves ==
  ASSUME NEW P, NEW C, NEW f \in [P -> C], NEW p \in P, NEW e \in C,
         NEW g, g = [f EXCEPT ![p] = e]
  PROVE  g \in [P -> C] /\ g[p] = e /\ \A q \in P : q # p => g[q] = f[q]
  OBVIOUS

LEMMA Types ==
  ASSUME TypeOK
  PROVE  /\ hub \in HubStates /\ live \in BOOLEAN
         /\ disk \in [Places -> Documents] /\ ctr \in [Nums -> Containers]
         /\ proc \in [Cmds -> Commands] /\ req \in [Cmds -> Requests]
         /\ \A c \in Cmds : proc[c] \in Commands /\ req[c] \in Requests
         /\ \A p \in Places : disk[p] \in Documents
         /\ \A n \in Nums : ctr[n] \in Containers
  BY DEF TypeOK

-----------------------------------------------------------------------------
(* What most steps keep *)

\* No command starts to launch, and none goes back.
CmdsKept == \A c \in Cmds : proc'[c].pc \in LaunchPcs =>
  /\ proc[c].pc \in LaunchPcs /\ proc'[c].box = proc[c].box /\ proc'[c].n = proc[c].n
  /\ proc'[c].pc = "make" => proc[c].pc = "make"

\* No thread starts to serve a launch.
ReqsKept == \A c \in Cmds : req'[c].pc \in LaunchWorks =>
  req[c].pc \in LaunchWorks /\ req'[c].n = req[c].n /\ req'[c].of = req[c].of

DiskKept == \A p \in Places : disk'[p].st # "none" => disk[p].st # "none"

\* The hub notes no home, and its counter stays.
HomesKept ==
  /\ \A n \in Nums : hub'.homes[n] \in {hub.homes[n], None}
  /\ hub'.pc # "down" => hub.pc # "down" /\ hub'.next = hub.next

LEMMA ClaimsKept ==
  ASSUME CmdsKept, ReqsKept, NEW c \in Cmds, NEW p \in Claims(c)'
  PROVE  p \in Claims(c)
  BY DEF CmdsKept, ReqsKept, Claims, Launching, Serving

LEMMA TreeKept ==
  ASSUME TypeOK, Shapes, TreeInv, CmdsKept, ReqsKept, DiskKept, HomesKept
  PROVE  TreeInv'
  <1>1. \A c \in Cmds, p \in Places : p \in Claims(c)' => p \in Claims(c)
    BY ClaimsKept
  <1>2. \A c \in Cmds : Claims(c) \subseteq Places /\ Claims(c)' \subseteq Places
    BY DEF Claims
  <1>3. \A p \in Places : Exists(p)' => Exists(p)
    BY DEF DiskKept, Exists
  <1>4. \A p \in Places : p[2] \in Nums
    BY PlaceParts
  <1>5. OneHome'
    BY <1>3 DEF TreeInv, OneHome
  <1>6. Counted'
    BY <1>1, <1>2, <1>3 DEF TreeInv, Counted, HomesKept
  <1>7. Exclusive'
    BY <1>1, <1>2 DEF TreeInv, Exclusive
  <1>8. Asked'
    BY <1>1, <1>2, <1>3 DEF TreeInv, Asked
  <1>9. Noted'
    BY <1>3, <1>4 DEF TreeInv, Noted, HomesKept
  <1>10. Fresh'
    <2> SUFFICES ASSUME NEW c \in Cmds, proc'[c].pc = "make"
                 PROVE  /\ hub'.homes[proc'[c].n] = None
                        /\ \A p \in Places : p[2] = proc'[c].n => ~Exists(p)'
      BY DEF Fresh
    <2>1. proc[c].pc = "make" /\ proc'[c].n = proc[c].n
      BY DEF CmdsKept, LaunchPcs
    <2>2. <<proc[c].box, proc[c].n>> \in Places
      BY <2>1 DEF Shapes, Launching, LaunchPcs
    <2>3. proc[c].n \in Nums
      BY <2>2, PlaceParts
    <2>4. QED
      BY <1>3, <2>1, <2>3 DEF TreeInv, Fresh, HomesKept
  <1>11. QED
    BY <1>5, <1>6, <1>7, <1>8, <1>9, <1>10 DEF TreeInv

LEMMA SameClaims ==
  ASSUME NEW c \in Cmds, proc'[c] = proc[c], req'[c] = req[c]
  PROVE  Claims(c)' = Claims(c)
  BY DEF Claims, Launching, Serving

-----------------------------------------------------------------------------
(* The steps that claim, make or note a home *)

LEMMA SpawnMoves ==
  ASSUME TypeOK, NEW c \in Cmds, NEW b \in Boxes, Spawn(c, b)
  PROVE  /\ proc' \in [Cmds -> Commands] /\ hub' \in HubStates
         /\ \A d \in Cmds : d # c => proc'[d] = proc[d]
         /\ proc'[c].pc = "make" /\ proc'[c].box = b /\ proc'[c].n = hub.next
         /\ <<b, hub.next>> \in Places /\ hub.pc = "up" /\ Alive(b)
         /\ hub'.pc = hub.pc /\ hub'.next = hub.next + 1 /\ hub'.homes = hub.homes
         /\ hub'.held = hub.held /\ hub'.sweep = hub.sweep
         /\ proc[c] = NoProc /\ req[c] = NoReq
         /\ UNCHANGED <<live, disk, ctr, req>>
  <1> DEFINE e == [NoProc EXCEPT !.pc = "make", !.op = "spawn", !.box = b, !.n = hub.next]
  <1>1. hub.next \in Nums /\ b # hub.next
    BY DEF Spawn
  <1>2. e \in Commands /\ e.pc = "make" /\ e.box = b /\ e.n = hub.next
    BY <1>1, Records DEF Commands
  <1>3. proc' = [proc EXCEPT ![c] = e]
    BY DEF Spawn
  <1>4. hub' \in HubStates /\ hub'.pc = hub.pc /\ hub'.next = hub.next + 1
        /\ hub'.homes = hub.homes /\ hub'.held = hub.held /\ hub'.sweep = hub.sweep
    BY <1>1, Types, Numbers DEF Spawn, HubStates
  <1> HIDE DEF e
  <1>5. /\ proc' \in [Cmds -> Commands] /\ proc'[c] = e
        /\ \A d \in Cmds : d # c => proc'[d] = proc[d]
    BY <1>2, <1>3, Types, OneMoves
  <1>6. QED
    BY <1>1, <1>2, <1>4, <1>5, PlaceParts DEF Spawn, Free, Up

LEMMA SpawnTree ==
  ASSUME TypeOK, Shapes, TreeInv, NEW c \in Cmds, NEW b \in Boxes, Spawn(c, b)
  PROVE  TreeInv'
  <1> DEFINE q == <<b, hub.next>>
  <1>1. q \in Places /\ q[2] = hub.next /\ hub.pc # "down" /\ hub.next \in Nums
        /\ hub'.pc = hub.pc /\ hub'.next = hub.next + 1 /\ hub'.homes = hub.homes
        /\ UNCHANGED <<disk, req>>
    BY SpawnMoves, PlaceParts
  <1>2. \A d \in Cmds : d # c => Claims(d)' = Claims(d)
    BY SpawnMoves, SameClaims
  <1>3. Claims(c)' = {q}
    BY SpawnMoves, Records DEF Claims, Launching, Serving, LaunchPcs, LaunchWorks
  <1>4. \A d \in Cmds : Claims(d) \subseteq Places
    BY DEF Claims
  <1>5. \A p \in Places : p[2] \in Nums /\ (Exists(p)' <=> Exists(p))
    BY <1>1, PlaceParts DEF Exists
  <1>6. /\ \A p \in Places : Exists(p) => p[2] < hub.next
        /\ \A n \in Nums : hub.homes[n] # None => n < hub.next
        /\ \A d \in Cmds : \A p \in Claims(d) : p[2] < hub.next
    BY <1>1 DEF TreeInv, Counted
  <1>7. \A n \in Nums : n \in Nat
    BY Numbers
  <1> HIDE DEF q
  <1>8. OneHome'
    BY <1>5 DEF TreeInv, OneHome
  <1>9. Counted'
    <2>1. \A n \in Nums : n < hub.next => n < hub.next + 1
      BY <1>1, <1>7
    <2>2. hub.next < hub.next + 1
      BY <1>1, <1>7
    <2>3. \A p \in Places : Exists(p)' => p[2] < hub'.next
      BY <1>1, <1>5, <1>6, <2>1
    <2>4. \A n \in Nums : hub'.homes[n] # None => n < hub'.next
      BY <1>1, <1>6, <2>1
    <2>5. \A d \in Cmds : \A p \in Claims(d)' : p[2] < hub'.next
      BY <1>1, <1>2, <1>3, <1>4, <1>5, <1>6, <2>1, <2>2
    <2>6. QED
      BY <2>3, <2>4, <2>5 DEF Counted
  <1>10. Exclusive'
    <2>1. \A d \in Cmds : \A p \in Claims(d) : p[2] # hub.next
      BY <1>1, <1>4, <1>5, <1>6, <1>7
    <2>2. QED
      BY <1>1, <1>2, <1>3, <2>1 DEF TreeInv, Exclusive
  <1>11. \A p \in Places : Exists(p) => p[2] # hub.next
    BY <1>1, <1>5, <1>6, <1>7
  <1>12. Asked'
    BY <1>1, <1>2, <1>3, <1>4, <1>5, <1>11 DEF TreeInv, Asked
  <1>13. Noted'
    BY <1>1, <1>5 DEF TreeInv, Noted
  <1>14. Fresh'
    <2> SUFFICES ASSUME NEW d \in Cmds, proc'[d].pc = "make"
                 PROVE  /\ hub'.homes[proc'[d].n] = None
                        /\ \A p \in Places : p[2] = proc'[d].n => ~Exists(p)'
      BY DEF Fresh
    <2>1. CASE d = c
      <3>1. proc'[d].n = hub.next
        BY <2>1, SpawnMoves
      <3>2. hub.homes[hub.next] = None
        BY <1>1, <1>6, <1>7
      <3>3. QED
        BY <1>1, <1>5, <1>11, <3>1, <3>2
    <2>2. CASE d # c
      <3>1. proc'[d] = proc[d]
        BY <2>2, SpawnMoves
      <3>2. QED
        BY <1>1, <1>5, <3>1 DEF TreeInv, Fresh
    <2>3. QED
      BY <2>1, <2>2
  <1>15. QED
    BY <1>8, <1>9, <1>10, <1>12, <1>13, <1>14 DEF TreeInv

LEMMA RespawnMoves ==
  ASSUME TypeOK, NEW c \in Cmds, NEW b \in Boxes, NEW n \in Nums, Respawn(c, b, n)
  PROVE  /\ proc' \in [Cmds -> Commands]
         /\ \A d \in Cmds : d # c => proc'[d] = proc[d]
         /\ proc'[c].pc = "ask" /\ proc'[c].box = b /\ proc'[c].n = n
         /\ <<b, n>> \in Places /\ hub.pc = "up" /\ Alive(b) /\ Exists(<<b, n>>)
         /\ Untouched({n}) /\ proc[c] = NoProc /\ req[c] = NoReq
         /\ UNCHANGED <<hub, live, disk, ctr, req>>
  <1> DEFINE e == [NoProc EXCEPT !.pc = "ask", !.op = "respawn", !.box = b, !.n = n,
                                 !.named = disk[<<b, n>>].named]
  <1>1. <<b, n>> \in Places /\ disk[<<b, n>>] \in Documents
    BY Types DEF Respawn
  <1>2. e \in Commands /\ e.pc = "ask" /\ e.box = b /\ e.n = n
    BY <1>1, Records DEF Commands, Documents
  <1>3. proc' = [proc EXCEPT ![c] = e]
    BY DEF Respawn
  <1> HIDE DEF e
  <1>4. /\ proc' \in [Cmds -> Commands] /\ proc'[c] = e
        /\ \A d \in Cmds : d # c => proc'[d] = proc[d]
    BY <1>2, <1>3, Types, OneMoves
  <1>5. QED
    BY <1>1, <1>2, <1>4 DEF Respawn, Free, Up, Exists

LEMMA ClaimsAreHeld ==
  ASSUME TypeOK, NEW c \in Cmds, NEW p \in Claims(c)
  PROVE  p \in Places /\ p[2] \in Holds(c)
  <1>1. p \in Places /\ p[2] \in Nums /\ p[2] # None
    BY PlaceParts, Numbers DEF Claims
  <1>2. p[2] \in {proc[c].n, req[c].n}
    BY <1>1 DEF Claims
  <1>3. QED
    BY <1>1, <1>2 DEF Holds

LEMMA RespawnTree ==
  ASSUME TypeOK, Shapes, TreeInv, NEW c \in Cmds, NEW b \in Boxes, NEW n \in Nums,
         Respawn(c, b, n)
  PROVE  TreeInv'
  <1> DEFINE q == <<b, n>>
  <1>1. q \in Places /\ q[2] = n /\ hub.pc # "down" /\ Exists(q)
        /\ UNCHANGED <<hub, disk, req>>
    BY RespawnMoves, PlaceParts
  <1>2. \A d \in Cmds : d # c => Claims(d)' = Claims(d)
    BY RespawnMoves, SameClaims
  <1>3. Claims(c)' = {q}
    BY RespawnMoves, Records DEF Claims, Launching, Serving, LaunchPcs, LaunchWorks
  <1>4. \A d \in Cmds : Claims(d) \subseteq Places
    BY DEF Claims
  <1>5. \A p \in Places : p[2] \in Nums /\ (Exists(p)' <=> Exists(p))
    BY <1>1, PlaceParts DEF Exists
  <1>6. \A d \in Cmds : \A p \in Claims(d) : p[2] # n
    <2> SUFFICES ASSUME NEW d \in Cmds, NEW p \in Claims(d), p[2] = n
                 PROVE  FALSE
      OBVIOUS
    <2>1. Holds(d) \cap {n} = {}
      BY RespawnMoves DEF Untouched
    <2>2. n \in Holds(d)
      BY ClaimsAreHeld
    <2>3. QED
      BY <2>1, <2>2
  <1>7. \A p \in Places : Exists(p) /\ p[2] = n => p = q
    BY <1>1 DEF TreeInv, OneHome
  <1> HIDE DEF q
  <1>8. OneHome'
    BY <1>5 DEF TreeInv, OneHome
  <1>9. Counted'
    BY <1>1, <1>2, <1>3, <1>5 DEF TreeInv, Counted
  <1>10. Exclusive'
    BY <1>1, <1>2, <1>3, <1>6 DEF TreeInv, Exclusive
  <1>11. Asked'
    BY <1>1, <1>2, <1>3, <1>4, <1>5, <1>7 DEF TreeInv, Asked
  <1>12. Noted'
    BY <1>1, <1>5 DEF TreeInv, Noted
  <1>13. Fresh'
    <2>1. \A d \in Cmds : proc'[d].pc = "make" => proc'[d] = proc[d]
      BY RespawnMoves
    <2>2. QED
      BY <1>1, <1>5, <2>1 DEF TreeInv, Fresh
  <1>14. QED
    BY <1>8, <1>9, <1>10, <1>11, <1>12, <1>13 DEF TreeInv

LEMMA MakeMoves ==
  ASSUME TypeOK, Shapes, NEW c \in Cmds, Make(c)
  PROVE  /\ proc' \in [Cmds -> Commands] /\ disk' \in [Places -> Documents]
         /\ \A d \in Cmds : d # c => proc'[d] = proc[d]
         /\ proc'[c].pc = "ask" /\ proc'[c].box = proc[c].box /\ proc'[c].n = proc[c].n
         /\ proc[c].pc = "make" /\ <<proc[c].box, proc[c].n>> \in Places
         /\ disk'[<<proc[c].box, proc[c].n>>].st = "spawned"
         /\ \A p \in Places : p # <<proc[c].box, proc[c].n>> => disk'[p] = disk[p]
         /\ UNCHANGED <<hub, live, ctr, req>>
  <1> DEFINE e == [proc[c] EXCEPT !.pc = "ask"]
             f == [st |-> "spawned", named |-> FALSE]
  <1>1. <<proc[c].box, proc[c].n>> \in Places /\ proc[c].pc = "make"
    BY DEF Make, Shapes, Launching, LaunchPcs
  <1>2. proc[c] \in Commands
    BY Types
  <1>3. e \in Commands /\ e.pc = "ask" /\ e.box = proc[c].box /\ e.n = proc[c].n
    BY <1>2 DEF Commands
  <1>4. f \in Documents /\ f.st = "spawned"
    BY DEF Documents
  <1>5. proc' = [proc EXCEPT ![c] = e]
        /\ disk' = [disk EXCEPT ![<<proc[c].box, proc[c].n>>] = f]
    BY DEF Make
  <1> HIDE DEF e, f
  <1>6. /\ proc' \in [Cmds -> Commands] /\ proc'[c] = e
        /\ \A d \in Cmds : d # c => proc'[d] = proc[d]
    BY <1>3, <1>5, Types, OneMoves
  <1>7. /\ disk' \in [Places -> Documents] /\ disk'[<<proc[c].box, proc[c].n>>] = f
        /\ \A p \in Places : p # <<proc[c].box, proc[c].n>> => disk'[p] = disk[p]
    BY <1>1, <1>4, <1>5, Types, OneMoves
  <1>8. QED
    BY <1>1, <1>3, <1>4, <1>6, <1>7 DEF Make

LEMMA MakeTree ==
  ASSUME TypeOK, Shapes, TreeInv, NEW c \in Cmds, Make(c)
  PROVE  TreeInv'
  <1> DEFINE q == <<proc[c].box, proc[c].n>>
  <1>1. q \in Places /\ q[2] = proc[c].n /\ UNCHANGED <<hub, req>>
    BY MakeMoves, PlaceParts
  <1>2. \A d \in Cmds : Claims(d) \subseteq Places
    BY DEF Claims
  <1>3. \A d \in Cmds : Claims(d)' = Claims(d)
    BY MakeMoves DEF Claims, Launching, Serving, LaunchPcs
  <1>4. q \in Claims(c)
    BY <1>1, MakeMoves DEF Claims, Launching, LaunchPcs
  <1>5. \A p \in Places : Exists(p)' => p = q \/ Exists(p)
    BY MakeMoves DEF Exists
  <1>6. /\ hub.homes[q[2]] = None
        /\ \A p \in Places : p[2] = q[2] => ~Exists(p)
    BY <1>1, MakeMoves DEF TreeInv, Fresh
  <1>7. \A p \in Places : p[2] \in Nums
    BY PlaceParts
  <1>8. \A d \in Cmds : d # c => proc'[d] = proc[d]
    BY MakeMoves
  <1>9. proc'[c].pc = "ask"
    BY MakeMoves
  <1> HIDE DEF q
  <1>10. OneHome'
    BY <1>1, <1>5, <1>6 DEF TreeInv, OneHome
  <1>11. Counted'
    BY <1>1, <1>3, <1>4, <1>5 DEF TreeInv, Counted
  <1>12. Exclusive'
    BY <1>3 DEF TreeInv, Exclusive
  <1>13. Asked'
    <2> SUFFICES ASSUME NEW d \in Cmds, NEW p \in Claims(d), NEW r \in Places,
                        Exists(r)', p[2] = r[2]
                 PROVE  p = r
      BY <1>3 DEF Asked
    <2>1. CASE Exists(r)
      BY <2>1 DEF TreeInv, Asked
    <2>2. CASE r = q
      <3>1. CASE d = c
        BY <1>3, <1>4, <2>2, <3>1, MakeMoves, Types
           DEF Claims, Launching, LaunchPcs, Shapes, Serving, q, LaunchWorks, NoReq
      <3>2. CASE d # c
        BY <1>4, <2>2, <3>2 DEF TreeInv, Exclusive
      <3>3. QED
        BY <3>1, <3>2
    <2>3. QED
      BY <1>5, <2>1, <2>2
  <1>14. Noted'
    BY <1>1, <1>5, <1>6 DEF TreeInv, Noted
  <1>15. Fresh'
    <2> SUFFICES ASSUME NEW d \in Cmds, proc'[d].pc = "make"
                 PROVE  /\ hub'.homes[proc'[d].n] = None
                        /\ \A p \in Places : p[2] = proc'[d].n => ~Exists(p)'
      BY DEF Fresh
    <2>1. d # c /\ proc'[d] = proc[d]
      BY <1>8, <1>9
    <2>2. <<proc[d].box, proc[d].n>> \in Claims(d)
      BY <2>1 DEF Shapes, Launching, LaunchPcs, Claims
    <2>3. proc[d].n # q[2]
      BY <1>4, <2>1, <2>2 DEF TreeInv, Exclusive
    <2>4. QED
      BY <1>1, <1>5, <2>1, <2>3 DEF TreeInv, Fresh
  <1>16. QED
    BY <1>10, <1>11, <1>12, <1>13, <1>14, <1>15 DEF TreeInv

LEMMA AskLaunchMoves ==
  ASSUME TypeOK, Shapes, NEW c \in Cmds, AskLaunch(c)
  PROVE  /\ proc' \in [Cmds -> Commands] /\ req' \in [Cmds -> Requests]
         /\ \A d \in Cmds : d # c => proc'[d] = proc[d] /\ req'[d] = req[d]
         /\ proc'[c].pc = "wait" /\ proc'[c].box = proc[c].box /\ proc'[c].n = proc[c].n
         /\ proc[c].pc = "ask" /\ <<proc[c].box, proc[c].n>> \in Places
         /\ req[c] = NoReq /\ req'[c].pc = "reserve"
         /\ req'[c].of = proc[c].box /\ req'[c].n = proc[c].n
         /\ hub.pc = "up" /\ UNCHANGED <<hub, live, disk, ctr>>
  <1> DEFINE e == [proc[c] EXCEPT !.pc = "wait"]
             f == [pc |-> "reserve", n |-> proc[c].n, of |-> proc[c].box, held |-> FALSE]
  <1>1. <<proc[c].box, proc[c].n>> \in Places /\ proc[c].pc = "ask" /\ req[c] = NoReq
    BY DEF AskLaunch, Shapes, Launching, LaunchPcs
  <1>2. proc[c] \in Commands
    BY Types
  <1>3. e \in Commands /\ e.pc = "wait" /\ e.box = proc[c].box /\ e.n = proc[c].n
    BY <1>2 DEF Commands
  <1>4. f \in Requests /\ f.pc = "reserve" /\ f.of = proc[c].box /\ f.n = proc[c].n
    BY <1>2 DEF Requests, Commands, Works
  <1>5. proc' = [proc EXCEPT ![c] = e] /\ req' = [req EXCEPT ![c] = f]
    BY DEF AskLaunch
  <1> HIDE DEF e, f
  <1>6. /\ proc' \in [Cmds -> Commands] /\ proc'[c] = e
        /\ \A d \in Cmds : d # c => proc'[d] = proc[d]
    BY <1>3, <1>5, Types, OneMoves
  <1>7. /\ req' \in [Cmds -> Requests] /\ req'[c] = f
        /\ \A d \in Cmds : d # c => req'[d] = req[d]
    BY <1>4, <1>5, Types, OneMoves
  <1>8. QED
    BY <1>1, <1>3, <1>4, <1>6, <1>7 DEF AskLaunch, Up

LEMMA AskLaunchTree ==
  ASSUME TypeOK, Shapes, TreeInv, NEW c \in Cmds, AskLaunch(c)
  PROVE  TreeInv'
  <1>1. \A d \in Cmds : d # c => Claims(d)' = Claims(d)
    BY AskLaunchMoves, SameClaims
  <1>2. Claims(c)' = Claims(c)
    BY AskLaunchMoves, Records DEF Claims, Launching, Serving, LaunchPcs, LaunchWorks
  <1>3. \A d \in Cmds : Claims(d)' = Claims(d)
    BY <1>1, <1>2
  <1>4. \A p \in Places : Exists(p)' <=> Exists(p)
    BY AskLaunchMoves DEF Exists
  <1>5. \A d \in Cmds : proc'[d].pc = "make" => proc'[d] = proc[d]
    BY AskLaunchMoves
  <1>6. hub' = hub /\ \A d \in Cmds : Claims(d) \subseteq Places
    BY AskLaunchMoves DEF Claims
  <1>7. OneHome' /\ Noted'
    BY <1>4, <1>6 DEF TreeInv, OneHome, Noted
  <1>8. Counted'
    BY <1>3, <1>4, <1>6 DEF TreeInv, Counted
  <1>9. Exclusive' /\ Asked'
    BY <1>3, <1>4, <1>6 DEF TreeInv, Exclusive, Asked
  <1>10. Fresh'
    BY <1>4, <1>5, <1>6 DEF TreeInv, Fresh
  <1>11. QED
    BY <1>7, <1>8, <1>9, <1>10 DEF TreeInv

\* A number reserved: who asked is known, and nobody else's home holds it.
LEMMA ReserveMoves ==
  ASSUME TypeOK, Shapes, NEW c \in Cmds, Reserve(c), req'[c].pc = "clear"
  PROVE  LET n == req[c].n
             b == req[c].of
         IN /\ <<b, n>> \in Places /\ req[c].pc = "reserve"
            /\ req' \in [Cmds -> Requests] /\ hub' \in HubStates
            /\ \A d \in Cmds : d # c => req'[d] = req[d]
            /\ req'[c].n = n /\ req'[c].of = b
            /\ req'[c].held <=> hub.homes[n] = b
            /\ hub.homes[n] \in {None, b}
            /\ hub'.homes[n] = b
            /\ \A m \in Nums : m # n => hub'.homes[m] = hub.homes[m]
            /\ n < hub'.next /\ hub.next <= hub'.next
            /\ hub.pc \in {"up", "closing"}
            /\ hub'.pc = hub.pc /\ hub'.held = hub.held /\ hub'.sweep = hub.sweep
            /\ UNCHANGED <<live, disk, ctr, proc>>
  <1> DEFINE n == req[c].n
             b == req[c].of
             f == [req[c] EXCEPT !.pc = "clear", !.held = hub.homes[n] = b]
  <1>1. req[c] \in Requests /\ req \in [Cmds -> Requests] /\ hub \in HubStates
    BY Types
  <1>2. req[c].pc = "reserve" /\ hub.pc \in {"up", "closing"}
    BY DEF Reserve, At, Lock
  <1>3. <<b, n>> \in Places /\ b \in Boxes /\ n \in Nums
    BY <1>2, PlaceParts DEF Shapes, Serving, LaunchWorks
  <1>4. ~Answer(c, "error")
    <2>1. Answer(c, "error") => req'[c].pc \in {"error", "none"}
      BY <1>1, Records DEF Answer
    <2>2. QED
      BY <2>1
  <1>5. /\ hub.homes[n] \in {None, b}
        /\ req' = [req EXCEPT ![c] = f]
        /\ hub' = [hub EXCEPT !.homes[n] = b, !.next = IF n < @ THEN @ ELSE n + 1]
    BY <1>4 DEF Reserve
  <1>6. /\ f \in Requests /\ f.n = n /\ f.of = b /\ (f.held <=> hub.homes[n] = b)
    BY <1>1 DEF Requests, Works
  <1>7. /\ hub'.homes = [hub.homes EXCEPT ![n] = b]
        /\ hub'.next = IF n < hub.next THEN hub.next ELSE n + 1
        /\ hub'.pc = hub.pc /\ hub'.held = hub.held /\ hub'.sweep = hub.sweep
        /\ hub'.seen = hub.seen
        /\ hub' = [pc |-> hub'.pc, next |-> hub'.next, homes |-> hub'.homes,
                   held |-> hub'.held, sweep |-> hub'.sweep, seen |-> hub'.seen]
    BY <1>1, <1>5 DEF HubStates
  <1> HIDE DEF f
  <1>8. /\ req' \in [Cmds -> Requests] /\ req'[c] = f
        /\ \A d \in Cmds : d # c => req'[d] = req[d]
    BY <1>1, <1>5, <1>6, OneMoves
  <1>9. hub.homes \in [Nums -> Boxes \cup {None}] /\ hub.next \in 1..MaxNum + 1
    BY <1>1 DEF HubStates
  <1>10. /\ hub'.next \in 1..MaxNum + 1 /\ n < hub'.next /\ hub.next <= hub'.next
    BY <1>3, <1>7, <1>9, Numbers
  <1>11. /\ hub'.homes \in [Nums -> Boxes \cup {None}] /\ hub'.homes[n] = b
         /\ \A m \in Nums : m # n => hub'.homes[m] = hub.homes[m]
    BY <1>3, <1>7, <1>9
  <1>12. hub' \in HubStates
    BY <1>1, <1>7, <1>10, <1>11 DEF HubStates
  <1>13. UNCHANGED <<live, disk, ctr, proc>>
    BY DEF Reserve
  <1>14. QED
    BY <1>2, <1>3, <1>5, <1>6, <1>7, <1>8, <1>10, <1>11, <1>12, <1>13

LEMMA ReserveTree ==
  ASSUME TypeOK, Shapes, TreeInv, NEW c \in Cmds, Reserve(c), req'[c].pc = "clear"
  PROVE  TreeInv'
  <1> DEFINE n == req[c].n
             b == req[c].of
             q == <<b, n>>
  <1>1. /\ q \in Places /\ q[1] = b /\ q[2] = n /\ req[c].pc = "reserve"
        /\ hub'.homes[n] = b
        /\ \A m \in Nums : m # n => hub'.homes[m] = hub.homes[m]
        /\ n < hub'.next /\ hub.next <= hub'.next /\ hub.pc # "down"
        /\ UNCHANGED <<live, disk, ctr, proc>>
    BY ReserveMoves, PlaceParts
  <1>2. \A d \in Cmds : Claims(d)' = Claims(d)
    <2>1. /\ \A d \in Cmds : d # c => req'[d] = req[d]
          /\ req'[c].n = req[c].n /\ req'[c].of = req[c].of
      BY ReserveMoves
    <2>2. \A d \in Cmds : /\ Serving(d)' <=> Serving(d)
                         /\ req'[d].n = req[d].n /\ req'[d].of = req[d].of
      BY <1>1, <2>1 DEF Serving, LaunchWorks
    <2>3. \A d \in Cmds : Launching(d)' <=> Launching(d)
      BY <1>1 DEF Launching
    <2>4. QED
      BY <1>1, <2>2, <2>3 DEF Claims
  <1>3. q \in Claims(c)
    BY <1>1 DEF Claims, Serving, LaunchWorks
  <1>4. \A p \in Places : p[2] \in Nums /\ (Exists(p)' <=> Exists(p))
    BY <1>1, PlaceParts DEF Exists
  <1>5. /\ \A d \in Cmds : Claims(d) \subseteq Places
        /\ \A m \in Nums : m \in Nat
        /\ hub.next \in Nat /\ hub'.next \in Nat
    BY ReserveMoves, Types, Numbers DEF Claims, HubStates
  <1> HIDE DEF q
  <1>6. OneHome'
    BY <1>4 DEF TreeInv, OneHome
  <1>7. Counted'
    <2>1. \A m \in Nums : m < hub.next => m < hub'.next
      BY <1>1, <1>5
    <2>2. \A p \in Places : Exists(p)' => p[2] < hub'.next
      BY <1>1, <1>4, <2>1 DEF TreeInv, Counted
    <2>3. \A m \in Nums : hub'.homes[m] # None => m < hub'.next
      BY <1>1, <2>1 DEF TreeInv, Counted
    <2>4. \A d \in Cmds : \A p \in Claims(d)' : p[2] < hub'.next
      BY <1>1, <1>2, <1>4, <1>5, <2>1 DEF TreeInv, Counted
    <2>5. QED
      BY <2>2, <2>3, <2>4 DEF Counted
  <1>8. Exclusive' /\ Asked'
    BY <1>2, <1>4, <1>5 DEF TreeInv, Exclusive, Asked
  <1>9. Noted'
    <2>1. \A p \in Places : Exists(p) /\ p[2] = n => p[1] = b
      BY <1>1, <1>3 DEF TreeInv, Asked
    <2>2. QED
      BY <1>1, <1>4, <2>1 DEF TreeInv, Noted
  <1>10. Fresh'
    <2> SUFFICES ASSUME NEW d \in Cmds, proc[d].pc = "make"
                 PROVE  hub'.homes[proc[d].n] = None
      BY <1>1, <1>4 DEF TreeInv, Fresh
    <2>1. <<proc[d].box, proc[d].n>> \in Claims(d)
      BY DEF Shapes, Launching, LaunchPcs, Claims
    <2>2. d # c
      BY <1>1, Records DEF Shapes
    <2>3. proc[d].n # n /\ proc[d].n \in Nums
      BY <1>1, <1>3, <1>4, <1>5, <2>1, <2>2 DEF TreeInv, Exclusive
    <2>4. QED
      BY <1>1, <2>3 DEF TreeInv, Fresh
  <1>11. QED
    BY <1>6, <1>7, <1>8, <1>9, <1>10 DEF TreeInv

LEMMA StartHubMoves ==
  ASSUME TypeOK, StartHub
  PROVE  /\ hub' \in HubStates /\ hub.pc = "down" /\ hub'.pc = "up"
         /\ hub'.homes = [n \in Nums |-> None] /\ hub'.held = {}
         /\ \A p \in Places : Exists(p) => p[2] < hub'.next
         /\ UNCHANGED <<live, disk, ctr, proc, req>>
  <1> PICK m \in 0..MaxNum :
        /\ \A p \in Places : Exists(p) => p[2] <= m
        /\ hub' = [NoHub EXCEPT !.pc = "up", !.next = m + 1]
    BY DEF StartHub
  <1>1. m + 1 \in 1..MaxNum + 1 /\ m \in Nat
    BY MaxNumAssumption
  <1>2. /\ hub' \in HubStates /\ hub'.pc = "up" /\ hub'.next = m + 1
        /\ hub'.homes = [n \in Nums |-> None] /\ hub'.held = {}
    BY <1>1, Records DEF HubStates
  <1>3. \A p \in Places : Exists(p) => p[2] < m + 1
    <2> SUFFICES ASSUME NEW p \in Places, Exists(p)
                 PROVE  p[2] < m + 1
      OBVIOUS
    <2>1. p[2] \in Nat /\ p[2] <= m
      BY PlaceParts, Numbers
    <2>2. QED
      BY <1>1, <2>1
  <1>4. QED
    BY <1>2, <1>3 DEF StartHub

LEMMA StartHubTree ==
  ASSUME TypeOK, Shapes, HubInv, TreeInv, InSession, StartHub
  PROVE  TreeInv'
  <1>1. /\ UNCHANGED <<live, disk, ctr, proc, req>>
        /\ \A n \in Nums : hub'.homes[n] = None
        /\ \A p \in Places : Exists(p) => p[2] < hub'.next
    BY StartHubMoves
  <1>2. \A c \in Cmds : ~Launching(c) /\ ~Serving(c)
    BY StartHubMoves DEF HubInv, InSession
  <1>3. \A c \in Cmds : Claims(c)' = {}
    BY <1>1, <1>2 DEF Claims, Launching, Serving
  <1>4. \A p \in Places : p[2] \in Nums /\ (Exists(p)' <=> Exists(p))
    BY <1>1, PlaceParts DEF Exists
  <1>5. OneHome'
    BY <1>4 DEF TreeInv, OneHome
  <1>6. Counted' /\ Exclusive' /\ Asked' /\ Noted'
    BY <1>1, <1>3, <1>4 DEF Counted, Exclusive, Asked, Noted
  <1>7. Fresh'
    BY <1>1, <1>2 DEF Fresh, Launching, LaunchPcs
  <1>8. QED
    BY <1>5, <1>6, <1>7 DEF TreeInv

-----------------------------------------------------------------------------
(* What a command's other steps do *)

\* A step of a command that launches nothing new and that the hub does not see:
\* the threads on their way stay as they are, and no container starts or ends.
Calm ==
  /\ CmdsKept /\ DiskKept /\ UNCHANGED <<hub, live>>
  /\ \A c \in Cmds :
       /\ proc'[c].pc \in {"make", "ask"} => req'[c] = NoReq
       /\ req'[c] = req[c] \/ (req[c].pc \notin LaunchWorks \cup {"orphan"} /\
                               req'[c].pc \notin LaunchWorks \cup {"orphan"})
  /\ \A n \in Nums : ctr'[n].st = ctr[n].st /\ ctr'[n].of \in {ctr[n].of, None}

LEMMA CalmKeeps ==
  ASSUME IInv, TypeOK', Calm
  PROVE  IInv'
  <1>1. /\ TypeOK /\ Shapes /\ HubInv /\ TreeInv /\ InSession /\ Reserved /\ HeldInv
        /\ SweepInv
    BY DEF IInv
  <1>2. \A c \in Cmds : req'[c].pc \in LaunchWorks \cup {"orphan"} => req'[c] = req[c]
    BY DEF Calm
  <1>3. \A c \in Cmds : req[c].pc \in LaunchWorks \cup {"orphan"} => req'[c] = req[c]
    BY DEF Calm
  <1>4. \A n \in Nums : (Running(n)' <=> Running(n)) /\ ctr'[n].of \in {ctr[n].of, None}
    BY DEF Calm, Running
  <1>5. hub' = hub /\ live' = live
    BY DEF Calm
  <1>6. Shapes'
    <2> SUFFICES ASSUME NEW c \in Cmds
                 PROVE  /\ Launching(c)' => <<proc'[c].box, proc'[c].n>> \in Places
                        /\ Serving(c)' \/ req'[c].pc = "orphan" =>
                             <<req'[c].of, req'[c].n>> \in Places
                        /\ proc'[c].pc \in {"make", "ask"} => req'[c] = NoReq
      BY DEF Shapes
    <2>1. Launching(c)' => <<proc'[c].box, proc'[c].n>> \in Places
      BY <1>1 DEF Calm, CmdsKept, Shapes, Launching
    <2>2. Serving(c)' \/ req'[c].pc = "orphan" => <<req'[c].of, req'[c].n>> \in Places
      BY <1>1, <1>2 DEF Shapes, Serving
    <2>3. QED
      BY <2>1, <2>2 DEF Calm
  <1>7. HubInv'
    BY <1>1, <1>2, <1>5 DEF HubInv, Serving
  <1>8. TreeInv'
    <2>1. ReqsKept
      BY <1>2 DEF ReqsKept
    <2>2. HomesKept
      BY <1>5 DEF HomesKept
    <2>3. QED
      BY <1>1, <2>1, <2>2, TreeKept DEF Calm
  <1>9. InSession'
    <2> SUFFICES ASSUME NEW c \in Cmds, Launching(c)'
                 PROVE  /\ hub'.pc \in {"up", "sweep"} /\ Alive(proc[c].box)'
                        /\ hub'.pc = "sweep" => proc[c].box \in hub'.sweep
                        /\ proc'[c].box = proc[c].box
      BY DEF InSession
    <2>1. Launching(c) /\ proc'[c].box = proc[c].box
      BY DEF Calm, CmdsKept, Launching
    <2>2. proc[c].box \in Boxes
      BY <1>1, <2>1, PlaceParts DEF Shapes
    <2>3. Alive(proc[c].box)'
      BY <1>1, <1>4, <1>5, <2>1, <2>2, Numbers DEF InSession, Alive
    <2>4. QED
      BY <1>1, <1>5, <2>1, <2>3 DEF InSession
  <1>10. Reserved'
    BY <1>1, <1>2, <1>5 DEF Reserved, Serving
  <1>11. HeldInv'
    <2>1. \A n \in Nums : Homed(n) => Homed(n)'
      BY <1>4, <1>5 DEF Homed
    <2>2. hub.held \subseteq Nums
      BY <1>1, Types DEF HubStates
    <2>3. \A c \in Cmds : req[c].pc = "record" => req[c].n \in Nums
      BY <1>1, PlaceParts DEF Shapes, Serving, LaunchWorks
    <2>4. \A c \in Cmds : req'[c].pc = "record" => req'[c] = req[c]
      BY <1>2 DEF LaunchWorks
    <2>5. QED
      BY <1>1, <1>5, <2>1, <2>2, <2>3, <2>4 DEF HeldInv
  <1>12. SweepInv'
    <2>1. \A c \in Cmds : req[c].pc = "record" => req'[c] = req[c]
      BY <1>3 DEF LaunchWorks
    <2>2. QED
      BY <1>1, <1>4, <1>5, <2>1 DEF SweepInv
  <1>13. QED
    BY <1>6, <1>7, <1>8, <1>9, <1>10, <1>11, <1>12 DEF IInv

\* One command moves on, or ends, and drops or asks for an answer that is not
\* about a launch.
LEMMA CalmStep ==
  ASSUME TypeOK, Shapes, NEW c \in Cmds, NEW e \in Commands, NEW f \in Requests,
         proc' = [proc EXCEPT ![c] = e], e.pc \notin LaunchPcs,
         req' = [req EXCEPT ![c] = f],
         \/ f = req[c]
         \/ req[c].pc \notin LaunchWorks \cup {"orphan"} /\ f.pc \notin LaunchWorks \cup {"orphan"},
         disk' \in [Places -> Documents], DiskKept, ctr' \in [Nums -> Containers],
         \A n \in Nums : ctr'[n].st = ctr[n].st /\ ctr'[n].of \in {ctr[n].of, None},
         UNCHANGED <<hub, live>>
  PROVE  TypeOK' /\ Calm
  <1>1. /\ proc' \in [Cmds -> Commands] /\ proc'[c] = e
        /\ \A d \in Cmds : d # c => proc'[d] = proc[d]
    BY Types, OneMoves
  <1>2. /\ req' \in [Cmds -> Requests] /\ req'[c] = f
        /\ \A d \in Cmds : d # c => req'[d] = req[d]
    BY Types, OneMoves
  <1>3. TypeOK'
    BY <1>1, <1>2, Types DEF TypeOK
  <1>4. CmdsKept
    BY <1>1 DEF CmdsKept
  <1>5. \A d \in Cmds : proc'[d].pc \in {"make", "ask"} => req'[d] = NoReq
    BY <1>1, <1>2 DEF Shapes, LaunchPcs
  <1>6. \A d \in Cmds :
          req'[d] = req[d] \/ (req[d].pc \notin LaunchWorks \cup {"orphan"} /\
                               req'[d].pc \notin LaunchWorks \cup {"orphan"})
    BY <1>2
  <1>7. QED
    BY <1>3, <1>4, <1>5, <1>6 DEF Calm

LEMMA NoCtrMoves ==
  ASSUME TypeOK, UNCHANGED ctr
  PROVE  /\ ctr' \in [Nums -> Containers]
         /\ \A n \in Nums : ctr'[n].st = ctr[n].st /\ ctr'[n].of \in {ctr[n].of, None}
  BY Types

LEMMA NoDiskMoves ==
  ASSUME TypeOK, UNCHANGED disk
  PROVE  disk' \in [Places -> Documents] /\ DiskKept
  BY Types DEF DiskKept

LEMMA NoReqMoves ==
  ASSUME TypeOK, NEW c \in Cmds, UNCHANGED req
  PROVE  req[c] \in Requests /\ req' = [req EXCEPT ![c] = req[c]]
  BY Types

LEMMA Writes ==
  ASSUME TypeOK, NEW c \in Cmds, NEW p \in Places, NEW named \in BOOLEAN,
         NEW st \in {"spawned", "failed", "running", "stopped"}, Write(c, p, st, named)
  PROVE  disk' \in [Places -> Documents] /\ DiskKept
  <1> DEFINE d == [st |-> st, named |-> named]
  <1>1. d \in Documents
    BY DEF Documents
  <1>2. disk' = [disk EXCEPT ![p] = d] /\ disk[p].st # "none"
    BY DEF Write, Exists
  <1> HIDE DEF d
  <1>3. QED
    BY <1>1, <1>2, Types, OneMoves DEF DiskKept

\* The answer, if it came, is dropped; a thread on its way is left to go on.
LEMMA Drops ==
  ASSUME TypeOK, NEW c \in Cmds, Drop(c)
  PROVE  \E f \in Requests :
           /\ req' = [req EXCEPT ![c] = f]
           /\ \/ f = req[c]
              \/ /\ req[c].pc \notin LaunchWorks \cup {"orphan"}
                 /\ f.pc \notin LaunchWorks \cup {"orphan"}
  <1> DEFINE f == IF req[c].pc \in Answers THEN NoReq ELSE req[c]
  <1>1. f \in Requests
    BY Types, Records
  <1>2. req' = [req EXCEPT ![c] = f]
    BY DEF Drop
  <1>3. f = req[c] \/ (req[c].pc \in Answers /\ f.pc = "none")
    BY Records
  <1>4. QED
    BY <1>1, <1>2, <1>3 DEF Answers, LaunchWorks

LEMMA DoneMoves ==
  ASSUME TypeOK, NEW c \in Cmds, NEW p, NEW kept \in BOOLEAN, NEW blind \in BOOLEAN,
         Done(c, p, kept, blind)
  PROVE  \E e \in Commands : proc' = [proc EXCEPT ![c] = e] /\ e.pc = "each"
  <1> DEFINE e == [proc[c] EXCEPT !.pc = "each", !.todo = @ \ {p}, !.kept = @ \/ kept,
                                  !.blind = @ \/ blind]
  <1>1. proc[c] \in Commands /\ proc \in [Cmds -> Commands]
    BY Types
  <1>2. proc' = [proc EXCEPT ![c] = e]
    BY <1>1 DEF Done, Commands
  <1>3. (proc[c].kept \/ kept) \in BOOLEAN /\ (proc[c].blind \/ blind) \in BOOLEAN
    OBVIOUS
  <1>4. e \in Commands /\ e.pc = "each"
    BY <1>1, <1>3 DEF Commands
  <1>5. QED
    BY <1>2, <1>4

LEMMA LaunchedCalm ==
  ASSUME TypeOK, Shapes, NEW c \in Cmds, Launched(c)
  PROVE  TypeOK' /\ Calm
  <1>1. <<proc[c].box, proc[c].n>> \in Places
    BY DEF Launched, Shapes, Launching, LaunchPcs
  <1>2. disk' \in [Places -> Documents] /\ DiskKept
    BY <1>1, Writes DEF Launched
  <1>3. proc' = [proc EXCEPT ![c] = NoProc] /\ NoProc.pc \notin LaunchPcs
    BY Records DEF Launched, End, LaunchPcs
  <1>4. req' = [req EXCEPT ![c] = NoReq] /\ req[c].pc \notin LaunchWorks \cup {"orphan"}
        /\ NoReq.pc \notin LaunchWorks \cup {"orphan"}
    BY Records DEF Launched, LaunchWorks
  <1>5. UNCHANGED <<hub, live, ctr>>
    BY DEF Launched
  <1>6. QED
    BY <1>2, <1>3, <1>4, <1>5, Records, NoCtrMoves, CalmStep

LEMMA NotLaunchedCalm ==
  ASSUME TypeOK, Shapes, NEW c \in Cmds, NotLaunched(c)
  PROVE  TypeOK' /\ Calm
  <1>1. <<proc[c].box, proc[c].n>> \in Places /\ proc[c].named \in BOOLEAN
    BY Types DEF NotLaunched, Shapes, Launching, LaunchPcs, Commands
  <1>2. disk' \in [Places -> Documents] /\ DiskKept
    BY <1>1, Writes DEF NotLaunched
  <1>3. proc' = [proc EXCEPT ![c] = NoProc] /\ NoProc.pc \notin LaunchPcs
    BY Records DEF NotLaunched, End, LaunchPcs
  <1>4. PICK f \in Requests :
          /\ req' = [req EXCEPT ![c] = f]
          /\ \/ f = req[c]
             \/ /\ req[c].pc \notin LaunchWorks \cup {"orphan"}
                /\ f.pc \notin LaunchWorks \cup {"orphan"}
    BY Drops DEF NotLaunched
  <1>5. UNCHANGED <<hub, live, ctr>>
    BY DEF NotLaunched
  <1>6. QED
    BY <1>2, <1>3, <1>4, <1>5, Records, NoCtrMoves, CalmStep

LEMMA DieCalm ==
  ASSUME TypeOK, Shapes, NEW c \in Cmds, Die(c)
  PROVE  TypeOK' /\ Calm
  <1>1. proc' = [proc EXCEPT ![c] = NoProc] /\ NoProc.pc \notin LaunchPcs
    BY Records DEF Die, End, LaunchPcs
  <1>2. PICK f \in Requests :
          /\ req' = [req EXCEPT ![c] = f]
          /\ \/ f = req[c]
             \/ /\ req[c].pc \notin LaunchWorks \cup {"orphan"}
                /\ f.pc \notin LaunchWorks \cup {"orphan"}
    BY Drops DEF Die
  <1>3. UNCHANGED <<hub, live, disk, ctr>>
    BY DEF Die
  <1>4. QED
    BY <1>1, <1>2, <1>3, Records, NoCtrMoves, NoDiskMoves, CalmStep

LEMMA SubtreeIsPlaces ==
  ASSUME NEW p \in Places
  PROVE  Subtree(p) \subseteq Places
  BY DEF Subtree

LEMMA StopOrCleanupCalm ==
  ASSUME TypeOK, Shapes, NEW c \in Cmds, NEW b \in Boxes, NEW n \in Nums,
         NEW op \in {"stop", "cleanup"}, StopOrCleanup(c, b, n, op)
  PROVE  TypeOK' /\ Calm
  <1> DEFINE t == Subtree(<<b, n>>)
             e == [NoProc EXCEPT !.pc = "each", !.op = op, !.box = b, !.n = n,
                                 !.todo = t, !.all = t]
  <1>1. t \subseteq Places
    BY SubtreeIsPlaces DEF StopOrCleanup
  <1>2. proc' = [proc EXCEPT ![c] = e]
    BY DEF StopOrCleanup
  <1> HIDE DEF t
  <1>3. e \in Commands /\ e.pc = "each"
    BY <1>1, Records DEF Commands
  <1> HIDE DEF e
  <1>4. UNCHANGED <<hub, live, disk, ctr, req>>
    BY DEF StopOrCleanup
  <1>5. e.pc \notin LaunchPcs
    BY <1>3 DEF LaunchPcs
  <1>6. req[c] \in Requests /\ req' = [req EXCEPT ![c] = req[c]]
    BY <1>4, NoReqMoves
  <1>7. QED
    BY <1>2, <1>3, <1>4, <1>5, <1>6, NoCtrMoves, NoDiskMoves, CalmStep

LEMMA SkipCalm ==
  ASSUME TypeOK, Shapes, NEW c \in Cmds, NEW p \in Places, Skip(c, p)
  PROVE  TypeOK' /\ Calm
  <1>1. PICK e \in Commands : proc' = [proc EXCEPT ![c] = e] /\ e.pc = "each"
    BY DoneMoves DEF Skip
  <1>2. UNCHANGED <<hub, live, disk, ctr, req>> /\ e.pc \notin LaunchPcs
    BY <1>1 DEF Skip, LaunchPcs
  <1>3. req[c] \in Requests /\ req' = [req EXCEPT ![c] = req[c]]
    BY <1>2, NoReqMoves
  <1>4. QED
    BY <1>1, <1>2, <1>3, NoCtrMoves, NoDiskMoves, CalmStep

LEMMA NoneToAskCalm ==
  ASSUME TypeOK, Shapes, NEW c \in Cmds, NEW p \in Places, NoneToAsk(c, p)
  PROVE  TypeOK' /\ Calm
  <1>1. disk[p].named \in BOOLEAN
    BY Types DEF Documents
  <1>2. PICK e \in Commands : proc' = [proc EXCEPT ![c] = e] /\ e.pc = "each"
    BY <1>1, DoneMoves DEF NoneToAsk
  <1>3. disk' \in [Places -> Documents] /\ DiskKept
    BY <1>1, Writes DEF NoneToAsk
  <1>4. UNCHANGED <<hub, live, ctr, req>> /\ e.pc \notin LaunchPcs
    BY <1>2 DEF NoneToAsk, LaunchPcs
  <1>5. req[c] \in Requests /\ req' = [req EXCEPT ![c] = req[c]]
    BY <1>4, NoReqMoves
  <1>6. QED
    BY <1>2, <1>3, <1>4, <1>5, NoCtrMoves, CalmStep

LEMMA AskStopCalm ==
  ASSUME TypeOK, Shapes, NEW c \in Cmds, NEW p \in Places, AskStop(c, p)
  PROVE  TypeOK' /\ Calm
  <1> DEFINE e == [proc[c] EXCEPT !.pc = "asked", !.n = p[2], !.named = TRUE]
             f == [NoReq EXCEPT !.pc = "lookup", !.n = p[2]]
  <1>1. e \in Commands /\ e.pc = "asked"
    BY Types, PlaceParts DEF Commands
  <1>2. f \in Requests /\ f.pc = "lookup"
    BY Records, PlaceParts DEF Requests, Works
  <1>3. proc' = [proc EXCEPT ![c] = e] /\ req' = [req EXCEPT ![c] = f]
        /\ req[c].pc = "none"
    BY Records DEF AskStop
  <1> HIDE DEF e, f
  <1>4. UNCHANGED <<hub, live, disk, ctr>>
    BY DEF AskStop
  <1>5. e.pc \notin LaunchPcs /\ f.pc \notin LaunchWorks \cup {"orphan"}
        /\ req[c].pc \notin LaunchWorks \cup {"orphan"}
    BY <1>1, <1>2, <1>3 DEF LaunchPcs, LaunchWorks
  <1>6. QED
    BY <1>1, <1>2, <1>3, <1>4, <1>5, NoCtrMoves, NoDiskMoves, CalmStep

LEMMA StoppedCalm ==
  ASSUME TypeOK, Shapes, NEW c \in Cmds, NEW p \in Places, Stopped(c, p)
  PROVE  TypeOK' /\ Calm
  <1>1. proc[c].named \in BOOLEAN /\ (req[c].pc \notin {"ok", "off"}) \in BOOLEAN
    BY Types DEF Commands
  <1>2. PICK e \in Commands : proc' = [proc EXCEPT ![c] = e] /\ e.pc = "each"
    BY <1>1, DoneMoves DEF Stopped
  <1>3. disk' \in [Places -> Documents] /\ DiskKept
    BY <1>1, Writes DEF Stopped
  <1>4. PICK f \in Requests :
          /\ req' = [req EXCEPT ![c] = f]
          /\ \/ f = req[c]
             \/ /\ req[c].pc \notin LaunchWorks \cup {"orphan"}
                /\ f.pc \notin LaunchWorks \cup {"orphan"}
    BY Drops DEF Stopped
  <1>5. UNCHANGED <<hub, live, ctr>> /\ e.pc \notin LaunchPcs
    BY <1>2 DEF Stopped, LaunchPcs
  <1>6. QED
    BY <1>2, <1>3, <1>4, <1>5, NoCtrMoves, CalmStep

LEMMA RefusedCalm ==
  ASSUME TypeOK, Shapes, NEW c \in Cmds, NEW p \in Places, Refused(c, p)
  PROVE  TypeOK' /\ Calm
  <1>1. PICK e \in Commands : proc' = [proc EXCEPT ![c] = e] /\ e.pc = "each"
    BY DoneMoves DEF Refused
  <1>2. PICK f \in Requests :
          /\ req' = [req EXCEPT ![c] = f]
          /\ \/ f = req[c]
             \/ /\ req[c].pc \notin LaunchWorks \cup {"orphan"}
                /\ f.pc \notin LaunchWorks \cup {"orphan"}
    BY Drops DEF Refused
  <1>3. UNCHANGED <<hub, live, disk, ctr>> /\ e.pc \notin LaunchPcs
    BY <1>1 DEF Refused, LaunchPcs
  <1>4. QED
    BY <1>1, <1>2, <1>3, NoCtrMoves, NoDiskMoves, CalmStep

LEMMA AllAskedCalm ==
  ASSUME TypeOK, Shapes, NEW c \in Cmds, AllAsked(c)
  PROVE  TypeOK' /\ Calm
  <1> DEFINE d == [proc[c] EXCEPT !.pc = "remove", !.todo = @ \cup proc[c].all]
             e == IF proc[c].op = "stop" \/ proc[c].kept THEN NoProc ELSE d
  <1>1. d \in Commands /\ d.pc = "remove"
    BY Types DEF Commands
  <1>2. proc' = [proc EXCEPT ![c] = e]
    <2>1. proc[c] \in Commands /\ proc \in [Cmds -> Commands]
      BY Types
    <2>2. CASE proc[c].op = "stop" \/ proc[c].kept
      BY <2>2 DEF AllAsked, End
    <2>3. CASE ~(proc[c].op = "stop" \/ proc[c].kept)
      BY <2>1, <2>3 DEF AllAsked, Commands
    <2>4. QED
      BY <2>2, <2>3
  <1> HIDE DEF d
  <1>3. e \in Commands /\ e.pc \in {"idle", "remove"}
    BY <1>1, Records
  <1> HIDE DEF e
  <1>4. UNCHANGED <<hub, live, disk, ctr, req>> /\ e.pc \notin LaunchPcs
    BY <1>3 DEF AllAsked, LaunchPcs
  <1>5. req[c] \in Requests /\ req' = [req EXCEPT ![c] = req[c]]
    BY <1>4, NoReqMoves
  <1>6. QED
    BY <1>2, <1>3, <1>4, <1>5, NoCtrMoves, NoDiskMoves, CalmStep

LEMMA RemoveCalm ==
  ASSUME TypeOK, Shapes, NEW c \in Cmds, NEW p \in Places, Remove(c, p)
  PROVE  TypeOK' /\ Calm
  <1> DEFINE d == [proc[c] EXCEPT !.todo = @ \ {p}]
             e == IF proc[c].todo = {p} THEN NoProc ELSE d
  <1>1. proc[c] \in Commands /\ proc[c].pc = "remove"
    BY Types DEF Remove
  <1>2. d \in Commands /\ d.pc = "remove"
    BY <1>1 DEF Commands
  <1>3. proc' = [proc EXCEPT ![c] = e]
    BY <1>1 DEF Remove, End, Commands
  <1> HIDE DEF d
  <1>4. e \in Commands /\ e.pc \in {"idle", "remove"}
    BY <1>2, Records
  <1> HIDE DEF e
  <1>5. disk' \in [Places -> Documents] /\ DiskKept
    BY Types, Records DEF Remove, DiskKept
  <1>6. /\ ctr' \in [Nums -> Containers]
        /\ \A n \in Nums : ctr'[n].st = ctr[n].st /\ ctr'[n].of \in {ctr[n].of, None}
    <2>1. \A n \in Nums : LET k == [ctr[n] EXCEPT !.of = None] IN
            k \in Containers /\ k.st = ctr[n].st /\ k.of = None
      BY Types DEF Containers
    <2>2. QED
      BY <2>1, Types DEF Remove
  <1>7. UNCHANGED <<hub, live, req>> /\ e.pc \notin LaunchPcs
    BY <1>4 DEF Remove, LaunchPcs
  <1>8. req[c] \in Requests /\ req' = [req EXCEPT ![c] = req[c]]
    BY <1>7, NoReqMoves
  <1>9. QED
    BY <1>3, <1>4, <1>5, <1>6, <1>7, <1>8, CalmStep

-----------------------------------------------------------------------------
(* The steps of a launch, and the whole invariant *)

\* Steps under a running hub that leave its memory of homes, and the containers,
\* as they are; a thread may take up a launch.
LEMMA HubUntouched ==
  ASSUME Shapes, Reserved, HeldInv, hub.pc = "up", hub'.pc = hub.pc,
         hub'.homes = hub.homes, hub'.held = hub.held, UNCHANGED ctr,
         \A c \in Cmds : req'[c] = req[c] \/ req'[c].pc = "reserve"
  PROVE  HubInv' /\ Reserved' /\ HeldInv' /\ SweepInv'
  <1>1. HubInv' /\ SweepInv'
    BY DEF HubInv, SweepInv
  <1>2. Reserved'
    <2> SUFFICES ASSUME NEW c \in Cmds, Serving(c)', req'[c].pc # "reserve"
                 PROVE  /\ hub'.homes[req'[c].n] = req'[c].of
                        /\ req'[c].pc # "record" /\ ~req'[c].held =>
                             req'[c].n \notin hub'.held
      BY DEF Reserved
    <2>1. req'[c] = req[c]
      OBVIOUS
    <2>2. QED
      BY <2>1 DEF Reserved, Serving
  <1>3. HeldInv'
    <2>1. \A c \in Cmds : req'[c].pc = "record" => req'[c] = req[c]
      OBVIOUS
    <2>2. \A n : Homed(n)' <=> Homed(n)
      BY DEF Homed, Running
    <2>3. QED
      BY <2>1, <2>2 DEF HeldInv
  <1>4. QED
    BY <1>1, <1>2, <1>3

LEMMA SpawnKeeps ==
  ASSUME IInv, NEW c \in Cmds, NEW b \in Boxes, Spawn(c, b)
  PROVE  IInv'
  <1>0. TypeOK
    BY DEF IInv
  <1>1. /\ TypeOK /\ Shapes /\ HubInv /\ TreeInv /\ InSession /\ Reserved /\ HeldInv
        /\ SweepInv
    BY DEF IInv
  <1>2. TypeOK'
    BY <1>1, SpawnMoves, Types DEF TypeOK
  <1>3. Shapes'
    <2>1. \A d \in Cmds : d # c => proc'[d] = proc[d]
      BY <1>0, SpawnMoves
    <2>2. req' = req /\ req[c] = NoReq
      BY <1>0, SpawnMoves
    <2>3. proc'[c].box = b /\ proc'[c].n = hub.next /\ <<b, hub.next>> \in Places
      BY <1>0, SpawnMoves
    <2>4. QED
      BY <1>1, <2>1, <2>2, <2>3, Records DEF Shapes, Launching, Serving, LaunchWorks
  <1>4. TreeInv'
    BY <1>1, SpawnTree
  <1>5. InSession'
    <2>1. UNCHANGED <<live, ctr>>
      BY <1>1, SpawnMoves
    <2>2. \A x : Alive(x)' <=> Alive(x)
      BY <2>1 DEF Alive, Running
    <2>3. QED
      BY <1>1, <2>2, SpawnMoves DEF InSession, Launching
  <1>6. HubInv' /\ Reserved' /\ HeldInv' /\ SweepInv'
    BY <1>1, SpawnMoves, HubUntouched
  <1>7. QED
    BY <1>2, <1>3, <1>4, <1>5, <1>6 DEF IInv

LEMMA RespawnKeeps ==
  ASSUME IInv, NEW c \in Cmds, NEW b \in Boxes, NEW n \in Nums, Respawn(c, b, n)
  PROVE  IInv'
  <1>0. TypeOK
    BY DEF IInv
  <1>1. /\ TypeOK /\ Shapes /\ HubInv /\ TreeInv /\ InSession /\ Reserved /\ HeldInv
        /\ SweepInv
    BY DEF IInv
  <1>2. TypeOK'
    BY <1>1, RespawnMoves, Types DEF TypeOK
  <1>3. Shapes'
    <2>1. \A d \in Cmds : d # c => proc'[d] = proc[d]
      BY <1>0, RespawnMoves
    <2>2. req' = req /\ req[c] = NoReq
      BY <1>0, RespawnMoves
    <2>3. proc'[c].box = b /\ proc'[c].n = n
      BY <1>0, Types, Records DEF Respawn, Commands
    <2>4. <<b, n>> \in Places
      BY DEF Respawn
    <2>5. QED
      BY <1>1, <2>1, <2>2, <2>3, <2>4, Records DEF Shapes, Launching, Serving, LaunchWorks
  <1>4. TreeInv'
    BY <1>1, RespawnTree
  <1>5. InSession'
    <2>1. UNCHANGED <<live, ctr>>
      BY <1>1, RespawnMoves
    <2>2. \A x : Alive(x)' <=> Alive(x)
      BY <2>1 DEF Alive, Running
    <2>3. QED
      BY <1>1, <2>2, RespawnMoves DEF InSession, Launching
  <1>6. HubInv' /\ Reserved' /\ HeldInv' /\ SweepInv'
    BY <1>1, RespawnMoves, HubUntouched
  <1>7. QED
    BY <1>2, <1>3, <1>4, <1>5, <1>6 DEF IInv

LEMMA MakeKeeps ==
  ASSUME IInv, NEW c \in Cmds, Make(c)
  PROVE  IInv'
  <1>1. /\ TypeOK /\ Shapes /\ HubInv /\ TreeInv /\ InSession /\ Reserved /\ HeldInv
        /\ SweepInv
    BY DEF IInv
  <1>2. TypeOK'
    BY <1>1, MakeMoves, Types DEF TypeOK
  <1>3. Shapes'
    BY <1>1, MakeMoves, Records DEF Shapes, Launching, Serving, LaunchWorks
  <1>4. TreeInv'
    BY <1>1, MakeTree
  <1>5. UNCHANGED <<hub, live, ctr, req>>
    BY <1>1, MakeMoves
  <1>6. InSession'
    <2>1. \A x : Alive(x)' <=> Alive(x)
      BY <1>5 DEF Alive, Running
    <2>2. \A d \in Cmds : Launching(d)' => Launching(d) /\ proc'[d].box = proc[d].box
      BY <1>1, MakeMoves DEF Launching, LaunchPcs
    <2>3. QED
      BY <1>1, <1>5, <2>1, <2>2 DEF InSession
  <1>7. HubInv' /\ Reserved' /\ HeldInv' /\ SweepInv'
    <2>1. \A n : (Homed(n)' <=> Homed(n)) /\ (Running(n)' <=> Running(n))
      BY <1>5 DEF Homed, Running
    <2>2. \A d \in Cmds : Serving(d)' <=> Serving(d)
      BY <1>5 DEF Serving
    <2>3. HubInv' /\ Reserved'
      BY <1>1, <1>5, <2>2 DEF HubInv, Reserved
    <2>4. HeldInv' /\ SweepInv'
      BY <1>1, <1>5, <2>1 DEF HeldInv, SweepInv
    <2>5. QED
      BY <2>3, <2>4
  <1>8. QED
    BY <1>2, <1>3, <1>4, <1>6, <1>7 DEF IInv

LEMMA AskLaunchKeeps ==
  ASSUME IInv, NEW c \in Cmds, AskLaunch(c)
  PROVE  IInv'
  <1>1. /\ TypeOK /\ Shapes /\ HubInv /\ TreeInv /\ InSession /\ Reserved /\ HeldInv
        /\ SweepInv
    BY DEF IInv
  <1>2. TypeOK'
    BY <1>1, AskLaunchMoves, Types DEF TypeOK
  <1>3. Shapes'
    BY <1>1, AskLaunchMoves DEF Shapes, Launching, Serving, LaunchWorks, LaunchPcs
  <1>4. TreeInv'
    BY <1>1, AskLaunchTree
  <1>5. UNCHANGED <<hub, live, ctr>> /\ hub.pc = "up"
    BY <1>1, AskLaunchMoves
  <1>6. InSession'
    <2>1. \A x : Alive(x)' <=> Alive(x)
      BY <1>5 DEF Alive, Running
    <2>2. \A d \in Cmds : Launching(d)' => Launching(d) /\ proc'[d].box = proc[d].box
      BY <1>1, AskLaunchMoves DEF Launching, LaunchPcs
    <2>3. QED
      BY <1>1, <1>5, <2>1, <2>2 DEF InSession
  <1>7. HubInv' /\ Reserved' /\ HeldInv' /\ SweepInv'
    BY <1>1, <1>5, AskLaunchMoves, HubUntouched
  <1>8. QED
    BY <1>2, <1>3, <1>4, <1>6, <1>7 DEF IInv

LEMMA CommandCalmKeeps ==
  ASSUME IInv, NEW c \in Cmds,
         \/ Launched(c) \/ NotLaunched(c) \/ AllAsked(c) \/ Die(c)
         \/ \E b \in Boxes, n \in Nums : \/ StopOrCleanup(c, b, n, "stop")
                                         \/ StopOrCleanup(c, b, n, "cleanup")
         \/ \E p \in Places : \/ Skip(c, p) \/ NoneToAsk(c, p) \/ AskStop(c, p)
                              \/ Stopped(c, p) \/ Refused(c, p) \/ Remove(c, p)
  PROVE  IInv'
  <1>1. TypeOK /\ Shapes
    BY DEF IInv
  <1>2. TypeOK' /\ Calm
    <2>1. CASE Launched(c)
      BY <1>1, <2>1, LaunchedCalm
    <2>2. CASE NotLaunched(c)
      BY <1>1, <2>2, NotLaunchedCalm
    <2>3. CASE AllAsked(c)
      BY <1>1, <2>3, AllAskedCalm
    <2>4. CASE Die(c)
      BY <1>1, <2>4, DieCalm
    <2>5. CASE \E b \in Boxes, n \in Nums : \/ StopOrCleanup(c, b, n, "stop")
                                            \/ StopOrCleanup(c, b, n, "cleanup")
      BY <1>1, <2>5, StopOrCleanupCalm
    <2>6. CASE \E p \in Places : \/ Skip(c, p) \/ NoneToAsk(c, p) \/ AskStop(c, p)
                                 \/ Stopped(c, p) \/ Refused(c, p) \/ Remove(c, p)
      BY <1>1, <2>6, SkipCalm, NoneToAskCalm, AskStopCalm, StoppedCalm, RefusedCalm,
         RemoveCalm
    <2>7. QED
      BY <2>1, <2>2, <2>3, <2>4, <2>5, <2>6
  <1>3. QED
    BY <1>2, CalmKeeps

LEMMA CommandKeeps ==
  ASSUME IInv, NEW c \in Cmds, Command(c)
  PROVE  IInv'
  <1>1. CASE \E b \in Boxes : Spawn(c, b)
    BY <1>1, SpawnKeeps
  <1>2. CASE \E b \in Boxes, n \in Nums : Respawn(c, b, n)
    BY <1>2, RespawnKeeps
  <1>3. CASE Make(c)
    BY <1>3, MakeKeeps
  <1>4. CASE AskLaunch(c)
    BY <1>4, AskLaunchKeeps
  <1>5. QED
    BY <1>1, <1>2, <1>3, <1>4, CommandCalmKeeps DEF Command

-----------------------------------------------------------------------------
(* The hub's threads *)

LEMMA Answers1 ==
  ASSUME TypeOK, NEW c \in Cmds, NEW a \in Answers, Answer(c, a)
  PROVE  \E f \in Requests :
           req' = [req EXCEPT ![c] = f] /\ f.pc \in Answers \cup {"none"}
  <1> DEFINE f == IF Waits(c) THEN [req[c] EXCEPT !.pc = a] ELSE NoReq
  <1>1. f \in Requests /\ f.pc \in Answers \cup {"none"}
    BY Types, Records DEF Requests
  <1>2. req' = [req EXCEPT ![c] = f]
    BY DEF Answer
  <1>3. QED
    BY <1>1, <1>2

LEMMA GotoMoves ==
  ASSUME TypeOK, NEW c \in Cmds, NEW pc \in Works, Goto(c, pc)
  PROVE  \E f \in Requests :
           /\ req' = [req EXCEPT ![c] = f] /\ f.pc = pc /\ f.n = req[c].n
           /\ f.of = req[c].of /\ f.held = req[c].held
  <1> DEFINE f == [req[c] EXCEPT !.pc = pc]
  <1>1. f \in Requests /\ f.pc = pc /\ f.n = req[c].n /\ f.of = req[c].of
        /\ f.held = req[c].held
    BY Types DEF Requests
  <1>2. req' = [req EXCEPT ![c] = f]
    BY DEF Goto
  <1>3. QED
    BY <1>1, <1>2

LEMMA ThreadStep ==
  ASSUME IInv, NEW c \in Cmds, NEW f \in Requests, req' = [req EXCEPT ![c] = f],
         req[c].pc # "none", f.pc # "orphan", UNCHANGED <<proc, live, disk>>,
         f.pc \in LaunchWorks =>
           req[c].pc \in LaunchWorks /\ f.n = req[c].n /\ f.of = req[c].of,
         hub' \in HubStates, hub'.pc = hub.pc, hub'.next = hub.next,
         hub'.sweep = hub.sweep, hub.pc = "down" => hub' = hub,
         \A n \in Nums : hub'.homes[n] \in {hub.homes[n], None},
         ctr' \in [Nums -> Containers], \A n \in Nums : Running(n) => Running(n)'
  PROVE  /\ TypeOK' /\ Shapes' /\ HubInv' /\ TreeInv' /\ InSession'
         /\ req'[c] = f /\ \A d \in Cmds : d # c => req'[d] = req[d]
  <1>1. TypeOK /\ Shapes /\ HubInv /\ TreeInv /\ InSession
    BY DEF IInv
  <1>2. /\ req' \in [Cmds -> Requests] /\ req'[c] = f
        /\ \A d \in Cmds : d # c => req'[d] = req[d]
    BY <1>1, Types, OneMoves
  <1>3. TypeOK'
    BY <1>1, <1>2, Types DEF TypeOK
  <1>4. \A d \in Cmds : Serving(d)' =>
          Serving(d) /\ req'[d].n = req[d].n /\ req'[d].of = req[d].of
    BY <1>2 DEF Serving
  <1>5. Shapes'
    <2>1. \A d \in Cmds : req'[d].pc = "orphan" => req'[d] = req[d]
      BY <1>2
    <2>2. \A d \in Cmds : Launching(d)' => Launching(d)
      BY DEF Launching
    <2>3. req[c] # NoReq
      BY Records
    <2>4. \A d \in Cmds : proc'[d].pc \in {"make", "ask"} => req'[d] = NoReq
      BY <1>1, <1>2, <2>3 DEF Shapes
    <2>5. QED
      BY <1>1, <1>4, <2>1, <2>2, <2>4 DEF Shapes
  <1>6. HubInv'
    <2>1. \A d \in Cmds : req'[d].pc = "orphan" => req[d].pc = "orphan"
      BY <1>2
    <2>2. QED
      BY <1>1, <1>4, <2>1 DEF HubInv
  <1>7. TreeInv'
    <2>1. CmdsKept /\ DiskKept /\ HomesKept
      BY DEF CmdsKept, DiskKept, HomesKept
    <2>2. ReqsKept
      BY <1>4 DEF ReqsKept, Serving
    <2>3. QED
      BY <1>1, <2>1, <2>2, TreeKept
  <1>8. InSession'
    <2> SUFFICES ASSUME NEW d \in Cmds, Launching(d)
                 PROVE  /\ hub'.pc \in {"up", "sweep"} /\ Alive(proc[d].box)'
                        /\ hub'.pc = "sweep" => proc[d].box \in hub'.sweep
      BY DEF InSession, Launching
    <2>1. proc[d].box \in Boxes
      BY <1>1, PlaceParts DEF Shapes
    <2>2. Alive(proc[d].box)'
      BY <1>1, <2>1, Numbers DEF InSession, Alive
    <2>3. QED
      BY <1>1, <2>2 DEF InSession
  <1>9. QED
    BY <1>2, <1>3, <1>5, <1>6, <1>7, <1>8

\* A thread that leaves the homes alone, and starts no container, keeps the rest
\* of the invariant too, unless it moves on to be recorded or to be done with it.
LEMMA QuietThread ==
  ASSUME IInv, NEW c \in Cmds, req[c].pc # "record",
         req'[c].pc # "record", req'[c].pc # "reserve",
         \A d \in Cmds : d # c => req'[d] = req[d],
         Serving(c)' => /\ Serving(c) /\ req[c].pc # "reserve" /\ req'[c].n = req[c].n
                        /\ req'[c].of = req[c].of /\ req'[c].held = req[c].held,
         hub'.pc = hub.pc, hub'.homes = hub.homes, hub'.sweep = hub.sweep,
         hub'.held \subseteq hub.held,
         \A n \in Nums : Running(n)' => Running(n) /\ ctr'[n].of = ctr[n].of
  PROVE  Reserved' /\ HeldInv' /\ SweepInv'
  <1>1. /\ TypeOK /\ Shapes /\ Reserved /\ HeldInv /\ SweepInv
    BY DEF IInv
  <1>2. \A d \in Cmds : req'[d].pc = "record" <=> req[d].pc = "record"
    OBVIOUS
  <1>3. \A d \in Cmds : req[d].pc = "record" => req'[d] = req[d]
    OBVIOUS
  <1>4. Reserved'
    <2> SUFFICES ASSUME NEW d \in Cmds, Serving(d)', req'[d].pc # "reserve"
                 PROVE  /\ hub'.homes[req'[d].n] = req'[d].of
                        /\ req'[d].pc # "record" /\ ~req'[d].held =>
                             req'[d].n \notin hub'.held
      BY DEF Reserved
    <2>1. /\ Serving(d) /\ req[d].pc # "reserve" /\ req'[d].n = req[d].n
          /\ req'[d].of = req[d].of /\ req'[d].held = req[d].held
      BY DEF Serving
    <2>2. QED
      BY <1>1, <1>2, <2>1 DEF Reserved
  <1>5. HeldInv'
    <2>1. \A n \in Nums : Homed(n) => Homed(n)'
      BY DEF Homed
    <2>2. hub.held \subseteq Nums
      BY <1>1, Types DEF HubStates
    <2>3. \A d \in Cmds : req[d].pc = "record" => req[d].n \in Nums
      BY <1>1, PlaceParts DEF Shapes, Serving, LaunchWorks
    <2>4. QED
      BY <1>1, <1>2, <1>3, <2>1, <2>2, <2>3 DEF HeldInv
  <1>6. SweepInv'
    BY <1>1, <1>2, <1>3 DEF SweepInv
  <1>7. QED
    BY <1>4, <1>5, <1>6

LEMMA ReserveKeeps ==
  ASSUME IInv, NEW c \in Cmds, Reserve(c)
  PROVE  IInv'
  <1>1. /\ TypeOK /\ Shapes /\ HubInv /\ TreeInv /\ InSession /\ Reserved /\ HeldInv
        /\ SweepInv
    BY DEF IInv
  <1>2. req[c].pc = "reserve" /\ UNCHANGED <<live, disk, ctr, proc>>
    BY DEF Reserve, At
  <1>3. CASE Answer(c, "error") /\ UNCHANGED hub
    <2>1. PICK f \in Requests :
            req' = [req EXCEPT ![c] = f] /\ f.pc \in Answers \cup {"none"}
      BY <1>1, <1>3, Answers1 DEF Answers
    <2>2. f.pc # "orphan" /\ f.pc \notin LaunchWorks
      BY <2>1 DEF Answers, LaunchWorks
    <2>3. \A n \in Nums : Running(n)' <=> Running(n)
      BY <1>2 DEF Running
    <2>4. /\ TypeOK' /\ Shapes' /\ HubInv' /\ TreeInv' /\ InSession'
          /\ req'[c] = f /\ \A d \in Cmds : d # c => req'[d] = req[d]
      BY <1>1, <1>2, <1>3, <2>1, <2>2, <2>3, Types, ThreadStep
    <2>5. Reserved' /\ HeldInv' /\ SweepInv'
      <3>1. req'[c].pc # "record" /\ req'[c].pc # "reserve" /\ ~Serving(c)'
        BY <2>2, <2>4 DEF LaunchWorks, Serving
      <3>2. QED
        BY <1>2, <1>3, <2>3, <2>4, <3>1, QuietThread
    <2>6. QED
      BY <2>4, <2>5 DEF IInv
  <1>4. CASE req'[c].pc = "clear"
    <2> DEFINE n == req[c].n
               b == req[c].of
    <2>1. /\ <<b, n>> \in Places
          /\ req' \in [Cmds -> Requests] /\ hub' \in HubStates
          /\ \A d \in Cmds : d # c => req'[d] = req[d]
          /\ req'[c].n = n /\ req'[c].of = b
          /\ req'[c].held <=> hub.homes[n] = b
          /\ hub.homes[n] \in {None, b}
          /\ hub'.homes[n] = b
          /\ \A m \in Nums : m # n => hub'.homes[m] = hub.homes[m]
          /\ hub.pc \in {"up", "closing"}
          /\ hub'.pc = hub.pc /\ hub'.held = hub.held /\ hub'.sweep = hub.sweep
      BY <1>1, <1>4, ReserveMoves
    <2>2. b \in Boxes /\ n \in Nums /\ b # None
      BY <2>1, PlaceParts, Numbers
    <2>3. TypeOK'
      BY <1>1, <1>2, <2>1, Types DEF TypeOK
    <2>4. Shapes'
      <3>1. req[c] # NoReq
        BY <1>2, Records
      <3>2. \A d \in Cmds : Launching(d)' <=> Launching(d)
        BY <1>2 DEF Launching
      <3>3. QED
        BY <1>1, <1>2, <1>4, <2>1, <3>1, <3>2 DEF Shapes, Serving
    <2>5. HubInv' /\ SweepInv'
      BY <1>1, <1>2, <2>1 DEF HubInv, SweepInv
    <2>6. TreeInv'
      BY <1>1, <1>4, ReserveTree
    <2>7. InSession'
      BY <1>1, <1>2, <2>1 DEF InSession, Launching, Alive, Running
    <2>8. \A m \in Nums : Homed(m) => Homed(m)'
      BY <1>2, <2>1, <2>2 DEF Homed, Running
    <2>9. hub.homes[n] = None => n \notin hub.held
      BY <1>1 DEF HeldInv, Homed
    <2>10. <<b, n>> \in Claims(c)
      BY <1>2, <2>1 DEF Claims, Serving, LaunchWorks
    <2>11. \A d \in Cmds : d # c /\ Serving(d) => req[d].n \in Nums /\ req[d].n # n
      <3> SUFFICES ASSUME NEW d \in Cmds, d # c, Serving(d)
                   PROVE  req[d].n \in Nums /\ req[d].n # n
        OBVIOUS
      <3>1. <<req[d].of, req[d].n>> \in Places /\ <<req[d].of, req[d].n>> \in Claims(d)
        BY <1>1 DEF Shapes, Claims
      <3>2. QED
        BY <1>1, <2>10, <3>1, PlaceParts DEF TreeInv, Exclusive
    <2>12. Reserved'
      <3> SUFFICES ASSUME NEW d \in Cmds, Serving(d)', req'[d].pc # "reserve"
                   PROVE  /\ hub'.homes[req'[d].n] = req'[d].of
                          /\ req'[d].pc # "record" /\ ~req'[d].held =>
                               req'[d].n \notin hub'.held
        BY DEF Reserved
      <3>1. CASE d = c
        BY <2>1, <2>9, <3>1
      <3>2. CASE d # c
        BY <1>1, <2>1, <2>11, <3>2 DEF Reserved, Serving
      <3>3. QED
        BY <3>1, <3>2
    <2>13. HeldInv'
      <3>1. hub.held \subseteq Nums
        BY <1>1, Types DEF HubStates
      <3>2. \A d \in Cmds : req'[d].pc = "record" => req'[d] = req[d] /\ req[d].n \in Nums
        BY <1>1, <1>4, <2>1, PlaceParts DEF Shapes, Serving, LaunchWorks
      <3>3. QED
        BY <1>1, <2>1, <2>8, <3>1, <3>2 DEF HeldInv
    <2>14. QED
      BY <2>3, <2>4, <2>5, <2>6, <2>7, <2>12, <2>13 DEF IInv
  <1>5. QED
    <2>1. CASE req' = [req EXCEPT ![c].pc = "clear", ![c].held = hub.homes[req[c].n] = req[c].of]
      <3>1. req[c] \in Requests /\ req \in [Cmds -> Requests]
        BY <1>1, Types
      <3>2. req'[c].pc = "clear"
        BY <2>1, <3>1 DEF Requests
      <3>3. QED
        BY <1>4, <3>2
    <2>2. QED
      BY <1>3, <2>1 DEF Reserve

LEMMA ClearExitedKeeps ==
  ASSUME IInv, NEW c \in Cmds, ClearExited(c)
  PROVE  IInv'
  <1>1. TypeOK
    BY DEF IInv
  <1>2. req[c].pc = "clear" /\ UNCHANGED <<hub, live, disk, proc>>
    BY DEF ClearExited, At
  <1>3. PICK f \in Requests :
          /\ req' = [req EXCEPT ![c] = f] /\ f.pc = "run" /\ f.n = req[c].n
          /\ f.of = req[c].of /\ f.held = req[c].held
    BY <1>1, GotoMoves DEF ClearExited, Works
  <1>4. /\ ctr' \in [Nums -> Containers]
        /\ \A n \in Nums : ctr'[n] = ctr[n] \/ (ctr[n].st = "exited" /\ ctr'[n] = NoCtr)
    BY <1>1, Types, Records DEF ClearExited
  <1>5. \A n \in Nums : /\ Running(n) => Running(n)'
                        /\ Running(n)' => Running(n) /\ ctr'[n].of = ctr[n].of
    BY <1>4, Records DEF Running
  <1>6. /\ TypeOK' /\ Shapes' /\ HubInv' /\ TreeInv' /\ InSession'
        /\ req'[c] = f /\ \A d \in Cmds : d # c => req'[d] = req[d]
    BY <1>1, <1>2, <1>3, <1>4, <1>5, Types, ThreadStep DEF LaunchWorks
  <1>7. Reserved' /\ HeldInv' /\ SweepInv'
    BY <1>2, <1>3, <1>5, <1>6, QuietThread DEF Serving, LaunchWorks
  <1>8. QED
    BY <1>6, <1>7 DEF IInv

\* A container starts in the home its thread was asked for, and the hub's note of
\* the number, if there is one, is that home.
LEMMA Starts ==
  ASSUME IInv, NEW n \in Nums, NEW b \in Boxes, <<b, n>> \in Places, Start(n, b),
         hub' = hub
  PROVE  /\ ctr' \in [Nums -> Containers] /\ ctr[n].st = "none"
         /\ ctr'[n].st = "running" /\ ctr'[n].of = b
         /\ \A m \in Nums : m # n => ctr'[m] = ctr[m]
         /\ \A m \in Nums : Running(m) => Running(m)'
         /\ \A m \in Nums : Homed(m) => Homed(m)'
  <1> DEFINE k == [st |-> "running", of |-> b]
  <1>1. k \in Containers /\ k.st = "running" /\ k.of = b
    BY DEF Containers
  <1>2. ctr' = [ctr EXCEPT ![n] = k] /\ ctr[n].st = "none" /\ Exists(<<b, n>>)
    BY DEF Start
  <1>3. ctr \in [Nums -> Containers]
    BY Types DEF IInv
  <1> HIDE DEF k
  <1>4. /\ ctr' \in [Nums -> Containers] /\ ctr'[n] = k
        /\ \A m \in Nums : m # n => ctr'[m] = ctr[m]
    BY <1>1, <1>2, <1>3, OneMoves
  <1>5. hub.homes[n] # None => hub.homes[n] = b
    <2>1. <<b, n>>[1] = b /\ <<b, n>>[2] = n
      OBVIOUS
    <2>2. QED
      BY <1>2, <2>1 DEF IInv, TreeInv, Noted
  <1>6. \A m \in Nums : Running(m) => Running(m)'
    BY <1>1, <1>2, <1>4 DEF Running
  <1>7. \A m \in Nums : Homed(m) => Homed(m)'
    BY <1>1, <1>4, <1>5 DEF Homed, Running
  <1>8. QED
    BY <1>1, <1>2, <1>4, <1>6, <1>7

LEMMA RunKeeps ==
  ASSUME IInv, NEW c \in Cmds, Run(c)
  PROVE  IInv'
  <1>1. /\ TypeOK /\ Shapes /\ HubInv /\ TreeInv /\ InSession /\ Reserved /\ HeldInv
        /\ SweepInv
    BY DEF IInv
  <1>2. req[c].pc = "run" /\ UNCHANGED <<hub, live, disk, proc>>
    BY DEF Run, At
  <1>3. /\ <<req[c].of, req[c].n>> \in Places /\ req[c].of \in Boxes /\ req[c].n \in Nums
        /\ req[c].of # None
    BY <1>1, <1>2, PlaceParts, Numbers DEF Shapes, Serving, LaunchWorks
  <1>4. CASE Start(req[c].n, req[c].of) /\ Goto(c, "record")
    <2>1. PICK f \in Requests :
            /\ req' = [req EXCEPT ![c] = f] /\ f.pc = "record" /\ f.n = req[c].n
            /\ f.of = req[c].of /\ f.held = req[c].held
      BY <1>1, <1>4, GotoMoves DEF Works
    <2>2. /\ ctr' \in [Nums -> Containers]
          /\ ctr'[req[c].n].st = "running" /\ ctr'[req[c].n].of = req[c].of
          /\ \A m \in Nums : m # req[c].n => ctr'[m] = ctr[m]
          /\ \A m \in Nums : Running(m) => Running(m)'
          /\ \A m \in Nums : Homed(m) => Homed(m)'
      BY <1>2, <1>3, <1>4, Starts
    <2>3. /\ TypeOK' /\ Shapes' /\ HubInv' /\ TreeInv' /\ InSession'
          /\ req'[c] = f /\ \A d \in Cmds : d # c => req'[d] = req[d]
      BY <1>1, <1>2, <2>1, <2>2, Types, ThreadStep DEF LaunchWorks
    <2>4. hub.homes[req[c].n] = req[c].of
      BY <1>1, <1>2 DEF Reserved, Serving, LaunchWorks
    <2>5. Reserved'
      <3> SUFFICES ASSUME NEW d \in Cmds, Serving(d)', req'[d].pc # "reserve"
                   PROVE  /\ hub'.homes[req'[d].n] = req'[d].of
                          /\ req'[d].pc # "record" /\ ~req'[d].held =>
                               req'[d].n \notin hub'.held
        BY DEF Reserved
      <3>1. CASE d = c
        BY <1>2, <2>1, <2>3, <2>4, <3>1
      <3>2. CASE d # c
        BY <1>1, <1>2, <2>3, <3>2 DEF Reserved, Serving
      <3>3. QED
        BY <3>1, <3>2
    <2>6. HeldInv'
      <3>1. hub.held \subseteq Nums
        BY <1>1, Types DEF HubStates
      <3>2. \A d \in Cmds : d # c /\ req'[d].pc = "record" =>
              req'[d] = req[d] /\ req[d].n \in Nums
        BY <1>1, <2>3, PlaceParts DEF Shapes, Serving, LaunchWorks
      <3>3. PICK n \in Nums : n = req[c].n
        BY <1>3
      <3>4. Homed(n)'
        BY <1>2, <1>3, <2>2, <2>4, <3>3 DEF Homed
      <3>5. req'[c].n = n
        BY <2>1, <2>3, <3>3
      <3>6. \A m \in hub'.held : Homed(m)'
        BY <1>1, <1>2, <2>2, <3>1 DEF HeldInv
      <3>7. \A d \in Cmds : req'[d].pc = "record" => Homed(req[d].n)'
        <4> SUFFICES ASSUME NEW d \in Cmds, req'[d].pc = "record"
                     PROVE  Homed(req[d].n)'
          OBVIOUS
        <4>1. CASE d = c
          BY <3>4, <3>5, <4>1 DEF Homed, Running
        <4>2. CASE d # c
          <5>1. req'[d] = req[d] /\ req[d].n \in Nums /\ Homed(req[d].n)
            BY <1>1, <3>2, <4>2 DEF HeldInv
          <5>2. PICK m \in Nums : m = req[d].n
            BY <5>1
          <5>3. Homed(m)'
            BY <2>2, <5>1, <5>2
          <5>4. QED
            BY <5>1, <5>2, <5>3 DEF Homed, Running
        <4>3. QED
          BY <4>1, <4>2
      <3>8. QED
        BY <3>6, <3>7 DEF HeldInv
    <2>7. SweepInv'
      <3> SUFFICES ASSUME hub.pc = "sweep", NEW n \in Nums, Running(n)'
                   PROVE  n \in hub.sweep \/ \E d \in Cmds : req'[d].pc = "record" /\ req'[d].n = n
        BY <1>2 DEF SweepInv
      <3>1. CASE n = req[c].n
        BY <2>1, <2>3, <3>1
      <3>2. CASE n # req[c].n
        <4>1. Running(n)
          BY <2>2, <3>2 DEF Running
        <4>2. \A d \in Cmds : req[d].pc = "record" => req'[d] = req[d]
          BY <1>2, <2>3
        <4>3. QED
          BY <1>1, <4>1, <4>2 DEF SweepInv
      <3>3. QED
        BY <3>1, <3>2
    <2>8. QED
      BY <2>3, <2>5, <2>6, <2>7 DEF IInv
  <1>5. CASE Goto(c, "release") /\ UNCHANGED ctr
    <2>1. PICK f \in Requests :
            /\ req' = [req EXCEPT ![c] = f] /\ f.pc = "release" /\ f.n = req[c].n
            /\ f.of = req[c].of /\ f.held = req[c].held
      BY <1>1, <1>5, GotoMoves DEF Works
    <2>2. \A n \in Nums : Running(n)' <=> Running(n)
      BY <1>5 DEF Running
    <2>3. /\ TypeOK' /\ Shapes' /\ HubInv' /\ TreeInv' /\ InSession'
          /\ req'[c] = f /\ \A d \in Cmds : d # c => req'[d] = req[d]
      BY <1>1, <1>2, <1>5, <2>1, <2>2, Types, ThreadStep DEF LaunchWorks
    <2>4. Reserved' /\ HeldInv' /\ SweepInv'
      BY <1>2, <1>5, <2>1, <2>2, <2>3, QuietThread DEF Serving, LaunchWorks
    <2>5. QED
      BY <2>3, <2>4 DEF IInv
  <1>6. QED
    BY <1>4, <1>5 DEF Run

\* No other thread serves the number of a thread that serves one.
LEMMA OneServes ==
  ASSUME Shapes, TreeInv, NEW c \in Cmds, Serving(c), NEW d \in Cmds, d # c, Serving(d)
  PROVE  req[d].n \in Nums /\ req[d].n # req[c].n
  <1>1. /\ <<req[c].of, req[c].n>> \in Claims(c) /\ <<req[d].of, req[d].n>> \in Claims(d)
        /\ req[d].n \in Nums
    BY PlaceParts DEF Shapes, Claims
  <1>2. QED
    BY <1>1 DEF TreeInv, Exclusive

LEMMA RecordKeeps ==
  ASSUME IInv, NEW c \in Cmds, Record(c)
  PROVE  IInv'
  <1>1. /\ TypeOK /\ Shapes /\ HubInv /\ TreeInv /\ InSession /\ Reserved /\ HeldInv
        /\ SweepInv
    BY DEF IInv
  <1>2. req[c].pc = "record" /\ UNCHANGED <<live, disk, ctr, proc>>
        /\ hub.pc \in {"up", "closing"}
    BY DEF Record, At, Lock
  <1>3. PICK f \in Requests : req' = [req EXCEPT ![c] = f] /\ f.pc \in Answers \cup {"none"}
    BY <1>1, Answers1 DEF Answers, Record
  <1>4. f.pc # "orphan" /\ f.pc # "record" /\ f.pc \notin LaunchWorks
    BY <1>3 DEF Answers, LaunchWorks
  <1>5. Serving(c) /\ req[c].n \in Nums
    BY <1>1, <1>2, PlaceParts DEF Shapes, Serving, LaunchWorks
  <1>6. /\ hub' \in HubStates /\ hub'.pc = hub.pc /\ hub'.next = hub.next
        /\ hub'.sweep = hub.sweep /\ hub'.homes = hub.homes
        /\ hub'.held = hub.held \cup {req[c].n}
    BY <1>1, <1>5, Types DEF Record, HubStates
  <1>7. \A n : (Running(n)' <=> Running(n)) /\ (Homed(n)' <=> Homed(n))
    BY <1>2, <1>6 DEF Running, Homed
  <1>8. /\ TypeOK' /\ Shapes' /\ HubInv' /\ TreeInv' /\ InSession'
        /\ req'[c] = f /\ \A d \in Cmds : d # c => req'[d] = req[d]
    BY <1>1, <1>2, <1>3, <1>4, <1>6, <1>7, Types, ThreadStep
  <1>9. Reserved'
    <2> SUFFICES ASSUME NEW d \in Cmds, Serving(d)', req'[d].pc # "reserve"
                 PROVE  /\ hub'.homes[req'[d].n] = req'[d].of
                        /\ req'[d].pc # "record" /\ ~req'[d].held =>
                             req'[d].n \notin hub'.held
      BY DEF Reserved
    <2>1. d # c /\ req'[d] = req[d] /\ Serving(d)
      BY <1>4, <1>8 DEF Serving
    <2>2. req[d].n # req[c].n
      BY <1>1, <1>5, <2>1, OneServes
    <2>3. QED
      BY <1>1, <1>6, <2>1, <2>2 DEF Reserved
  <1>10. HeldInv'
    <2>1. \A d \in Cmds : req'[d].pc = "record" => req'[d] = req[d]
      BY <1>4, <1>8
    <2>2. QED
      BY <1>1, <1>2, <1>6, <1>7, <2>1 DEF HeldInv
  <1>11. SweepInv'
    BY <1>2, <1>6 DEF SweepInv
  <1>12. QED
    BY <1>8, <1>9, <1>10, <1>11 DEF IInv

LEMMA ReleaseKeeps ==
  ASSUME IInv, NEW c \in Cmds, Release(c)
  PROVE  IInv'
  <1>1. /\ TypeOK /\ Shapes /\ HubInv /\ TreeInv /\ InSession /\ Reserved /\ HeldInv
        /\ SweepInv
    BY DEF IInv
  <1>2. req[c].pc = "release" /\ UNCHANGED <<live, disk, ctr, proc>> /\ hub.pc # "down"
    BY DEF Release, At
  <1>3. PICK f \in Requests : req' = [req EXCEPT ![c] = f] /\ f.pc \in Answers \cup {"none"}
    BY <1>1, Answers1 DEF Answers, Release
  <1>4. f.pc # "orphan" /\ f.pc # "record" /\ f.pc # "reserve" /\ f.pc \notin LaunchWorks
    BY <1>3 DEF Answers, LaunchWorks
  <1>5. Serving(c) /\ req[c].n \in Nums
    BY <1>1, <1>2, PlaceParts DEF Shapes, Serving, LaunchWorks
  <1>6. /\ hub' \in HubStates /\ hub'.pc = hub.pc /\ hub'.next = hub.next
        /\ hub'.sweep = hub.sweep /\ hub'.held = hub.held
        /\ \A n \in Nums : n # req[c].n => hub'.homes[n] = hub.homes[n]
        /\ \/ hub'.homes = hub.homes
           \/ ~req[c].held /\ hub'.homes[req[c].n] = None
    <2>1. hub \in HubStates
      BY <1>1, Types
    <2>2. CASE hub' = hub
      BY <2>1, <2>2
    <2>3. CASE ~req[c].held /\ hub' = [hub EXCEPT !.homes[req[c].n] = None]
      BY <1>5, <2>1, <2>3 DEF HubStates
    <2>4. QED
      BY <2>2, <2>3 DEF Release
  <1>7. \A n \in Nums : hub'.homes[n] \in {hub.homes[n], None}
    BY <1>5, <1>6
  <1>8. \A n : Running(n)' <=> Running(n)
    BY <1>2 DEF Running
  <1>9. /\ TypeOK' /\ Shapes' /\ HubInv' /\ TreeInv' /\ InSession'
        /\ req'[c] = f /\ \A d \in Cmds : d # c => req'[d] = req[d]
    BY <1>1, <1>2, <1>3, <1>4, <1>6, <1>7, <1>8, Types, ThreadStep
  <1>10. CASE hub'.homes = hub.homes
    <2>1. req'[c].pc # "record" /\ req'[c].pc # "reserve" /\ ~Serving(c)'
      BY <1>4, <1>9 DEF Serving
    <2>2. Reserved' /\ HeldInv' /\ SweepInv'
      BY <1>2, <1>6, <1>8, <1>9, <1>10, <2>1, QuietThread
    <2>3. QED
      BY <1>9, <2>2 DEF IInv
  <1>11. CASE ~req[c].held /\ hub'.homes[req[c].n] = None
    <2>1. req[c].n \notin hub.held
      BY <1>1, <1>2, <1>5, <1>11 DEF Reserved
    <2>2. \A n \in Nums : n # req[c].n => (Homed(n)' <=> Homed(n))
      BY <1>2, <1>6, <1>8 DEF Homed
    <2>3. \A d \in Cmds : Serving(d)' =>
            d # c /\ req'[d] = req[d] /\ Serving(d) /\ req[d].n \in Nums /\ req[d].n # req[c].n
      <3> SUFFICES ASSUME NEW d \in Cmds, Serving(d)'
                   PROVE  d # c /\ req'[d] = req[d] /\ Serving(d) /\ req[d].n \in Nums
                          /\ req[d].n # req[c].n
        OBVIOUS
      <3>1. d # c /\ req'[d] = req[d] /\ Serving(d)
        BY <1>4, <1>9 DEF Serving
      <3>2. QED
        BY <1>1, <1>5, <3>1, OneServes
    <2>4. Reserved'
      BY <1>1, <1>6, <2>3 DEF Reserved
    <2>5. HeldInv'
      <3>1. hub.held \subseteq Nums
        BY <1>1, Types DEF HubStates
      <3>2. \A d \in Cmds : req'[d].pc = "record" =>
              req'[d] = req[d] /\ req[d].n \in Nums /\ req[d].n # req[c].n
        BY <2>3 DEF Serving, LaunchWorks
      <3>3. QED
        BY <1>1, <1>6, <2>1, <2>2, <3>1, <3>2 DEF HeldInv
    <2>6. SweepInv'
      <3>1. \A d \in Cmds : req[d].pc = "record" => req'[d] = req[d]
        BY <1>2, <1>9
      <3>2. QED
        BY <1>1, <1>6, <1>8, <3>1 DEF SweepInv
    <2>7. QED
      BY <1>9, <2>4, <2>5, <2>6 DEF IInv
  <1>12. QED
    BY <1>6, <1>10, <1>11

LEMMA LookupQueryKeeps ==
  ASSUME IInv, NEW c \in Cmds, Lookup(c) \/ Query(c)
  PROVE  IInv'
  <1>1. TypeOK
    BY DEF IInv
  <1>2. req[c].pc \in {"lookup", "query"} /\ UNCHANGED <<hub, live, disk, ctr, proc>>
    BY DEF Lookup, Query, At
  <1>3. PICK f \in Requests :
          req' = [req EXCEPT ![c] = f] /\ f.pc \in Answers \cup {"none", "stop", "query"}
    <2>1. CASE Lookup(c)
      BY <1>1, <2>1, GotoMoves DEF Lookup, Works
    <2>2. CASE Query(c)
      BY <1>1, <2>2, Answers1 DEF Query, Answers
    <2>3. QED
      BY <2>1, <2>2
  <1>4. f.pc \notin LaunchWorks /\ f.pc # "orphan" /\ f.pc # "record" /\ f.pc # "reserve"
    BY <1>3 DEF Answers, LaunchWorks
  <1>5. \A n \in Nums : Running(n)' <=> Running(n)
    BY <1>2 DEF Running
  <1>6. /\ TypeOK' /\ Shapes' /\ HubInv' /\ TreeInv' /\ InSession'
        /\ req'[c] = f /\ \A d \in Cmds : d # c => req'[d] = req[d]
    BY <1>1, <1>2, <1>3, <1>4, <1>5, Types, ThreadStep
  <1>7. Reserved' /\ HeldInv' /\ SweepInv'
    <2>1. req'[c].pc # "record" /\ req'[c].pc # "reserve" /\ ~Serving(c)'
      BY <1>4, <1>6 DEF Serving
    <2>2. QED
      BY <1>2, <1>5, <1>6, <2>1, QuietThread
  <1>8. QED
    BY <1>6, <1>7 DEF IInv

LEMMA UnholdKeeps ==
  ASSUME IInv, NEW c \in Cmds, Unhold(c)
  PROVE  IInv'
  <1>1. TypeOK
    BY DEF IInv
  <1>2. req[c].pc = "unhold" /\ UNCHANGED <<live, disk, ctr, proc>> /\ hub.pc # "down"
    BY DEF Unhold, At
  <1>3. PICK f \in Requests : req' = [req EXCEPT ![c] = f] /\ f.pc \in Answers \cup {"none"}
    BY <1>1, Answers1 DEF Answers, Unhold
  <1>4. f.pc \notin LaunchWorks /\ f.pc # "orphan" /\ f.pc # "record" /\ f.pc # "reserve"
    BY <1>3 DEF Answers, LaunchWorks
  <1>5. /\ hub' \in HubStates /\ hub'.pc = hub.pc /\ hub'.next = hub.next
        /\ hub'.sweep = hub.sweep /\ hub'.homes = hub.homes /\ hub'.held \subseteq hub.held
    BY <1>1, Types DEF Unhold, HubStates
  <1>6. \A n \in Nums : Running(n)' <=> Running(n)
    BY <1>2 DEF Running
  <1>7. /\ TypeOK' /\ Shapes' /\ HubInv' /\ TreeInv' /\ InSession'
        /\ req'[c] = f /\ \A d \in Cmds : d # c => req'[d] = req[d]
    BY <1>1, <1>2, <1>3, <1>4, <1>5, <1>6, Types, ThreadStep
  <1>8. Reserved' /\ HeldInv' /\ SweepInv'
    <2>1. req'[c].pc # "record" /\ req'[c].pc # "reserve" /\ ~Serving(c)'
      BY <1>4, <1>7 DEF Serving
    <2>2. QED
      BY <1>2, <1>5, <1>6, <1>7, <2>1, QuietThread
  <1>9. QED
    BY <1>7, <1>8 DEF IInv

LEMMA OrphanKeeps ==
  ASSUME IInv, NEW c \in Cmds, Orphan(c)
  PROVE  IInv'
  <1>1. /\ TypeOK /\ Shapes /\ HubInv /\ TreeInv /\ InSession /\ Reserved /\ HeldInv
        /\ SweepInv
    BY DEF IInv
  <1>2. req[c].pc = "orphan" /\ req' = [req EXCEPT ![c] = NoReq]
        /\ UNCHANGED <<hub, live, disk, proc>>
    BY DEF Orphan
  <1>3. hub.pc # "sweep"
    BY <1>1, <1>2 DEF HubInv
  <1>4. <<req[c].of, req[c].n>> \in Places /\ req[c].of \in Boxes /\ req[c].n \in Nums
    BY <1>1, <1>2, PlaceParts DEF Shapes
  <1>5. /\ ctr' \in [Nums -> Containers]
        /\ \A m \in Nums : Running(m) => Running(m)'
        /\ \A m \in Nums : Homed(m) => Homed(m)'
    <2>1. CASE Start(req[c].n, req[c].of)
      BY <1>2, <1>4, <2>1, Starts
    <2>2. CASE UNCHANGED ctr
      BY <1>1, <1>2, <2>2, Types DEF Running, Homed
    <2>3. QED
      BY <2>1, <2>2 DEF Orphan
  <1>6. NoReq.pc \notin LaunchWorks /\ NoReq.pc = "none"
    BY Records DEF LaunchWorks
  <1>7. /\ TypeOK' /\ Shapes' /\ HubInv' /\ TreeInv' /\ InSession'
        /\ req'[c] = NoReq /\ \A d \in Cmds : d # c => req'[d] = req[d]
    BY <1>1, <1>2, <1>5, <1>6, Records, Types, ThreadStep
  <1>8. \A d \in Cmds : req'[d].pc \in LaunchWorks => req'[d] = req[d]
    BY <1>6, <1>7
  <1>9. Reserved'
    BY <1>1, <1>2, <1>8 DEF Reserved, Serving
  <1>10. HeldInv'
    <2>1. hub.held \subseteq Nums
      BY <1>1, Types DEF HubStates
    <2>2. \A d \in Cmds : req'[d].pc = "record" => req'[d] = req[d] /\ req[d].n \in Nums
      BY <1>1, <1>8, PlaceParts DEF Shapes, Serving, LaunchWorks
    <2>3. QED
      BY <1>1, <1>2, <1>5, <2>1, <2>2 DEF HeldInv
  <1>11. SweepInv'
    BY <1>2, <1>3 DEF SweepInv
  <1>12. QED
    BY <1>7, <1>9, <1>10, <1>11 DEF IInv

-----------------------------------------------------------------------------
(* Boxes that end *)

\* Some boxes end, by themselves or because the hub stops them: their commands end
\* with them and lose the answers on their way.
LEMMA EndStep ==
  ASSUME IInv, TypeOK', NEW dead \in SUBSET Boxes,
         \A d \in Cmds : \/ proc'[d] = NoProc
                         \/ proc'[d] = proc[d] /\ proc[d].box \notin dead,
         \A d \in Cmds :
           \/ req'[d] = req[d]
           \/ /\ req[d].pc \notin LaunchWorks \cup {"orphan", "none"}
              /\ req'[d].pc \notin LaunchWorks \cup {"orphan"},
         DiskKept, live' = (live /\ 0 \notin dead),
         hub'.pc = hub.pc, hub'.next = hub.next, hub'.homes = hub.homes,
         hub'.held = hub.held, hub.sweep \ dead \subseteq hub'.sweep,
         hub.pc = "down" => hub' = hub,
         \A n \in Nums : Running(n)' => Running(n) /\ n \notin dead /\ ctr'[n].of = ctr[n].of,
         \A n \in Nums : Running(n) /\ n \notin dead => Running(n)'
  PROVE  IInv'
  <1>1. /\ TypeOK /\ Shapes /\ HubInv /\ TreeInv /\ InSession /\ Reserved /\ HeldInv
        /\ SweepInv
    BY DEF IInv
  <1>2. \A d \in Cmds : proc'[d].pc \in LaunchPcs =>
          proc'[d] = proc[d] /\ proc[d].box \notin dead
    BY Records DEF LaunchPcs
  <1>3. \A d \in Cmds : req'[d].pc \in LaunchWorks \cup {"orphan"} => req'[d] = req[d]
    OBVIOUS
  <1>4. \A d \in Cmds : req[d].pc \in LaunchWorks \cup {"orphan"} => req'[d] = req[d]
    OBVIOUS
  <1>5. Shapes'
    <2>1. \A d \in Cmds : req[d] = NoReq => req'[d] = NoReq
      BY Records
    <2>2. \A d \in Cmds : proc'[d].pc \in {"make", "ask"} => req'[d] = NoReq
      BY <1>1, <1>2, <2>1 DEF Shapes, LaunchPcs
    <2>3. QED
      BY <1>1, <1>2, <1>3, <2>2 DEF Shapes, Launching, Serving
  <1>6. HubInv'
    BY <1>1, <1>3 DEF HubInv, Serving
  <1>7. TreeInv'
    <2>1. CmdsKept
      BY <1>2 DEF CmdsKept
    <2>2. ReqsKept
      BY <1>3 DEF ReqsKept
    <2>3. HomesKept
      BY DEF HomesKept
    <2>4. QED
      BY <1>1, <2>1, <2>2, <2>3, TreeKept
  <1>8. InSession'
    <2> SUFFICES ASSUME NEW d \in Cmds, Launching(d)'
                 PROVE  /\ hub'.pc \in {"up", "sweep"} /\ Alive(proc[d].box)'
                        /\ hub'.pc = "sweep" => proc[d].box \in hub'.sweep
                        /\ proc'[d].box = proc[d].box
      BY DEF InSession
    <2>1. proc'[d] = proc[d] /\ proc[d].box \notin dead /\ Launching(d)
      BY <1>2 DEF Launching
    <2>2. proc[d].box \in Boxes
      BY <1>1, <2>1, PlaceParts DEF Shapes
    <2>3. Alive(proc[d].box)'
      BY <1>1, <2>1, <2>2, Numbers DEF InSession, Alive
    <2>4. QED
      BY <1>1, <2>1, <2>3 DEF InSession
  <1>9. Reserved'
    BY <1>1, <1>3 DEF Reserved, Serving
  <1>10. HeldInv'
    <2>1. \A n \in Nums : Homed(n) => Homed(n)'
      BY DEF Homed
    <2>2. hub.held \subseteq Nums
      BY <1>1, Types DEF HubStates
    <2>3. \A d \in Cmds : req'[d].pc = "record" => req'[d] = req[d] /\ req[d].n \in Nums
      BY <1>1, <1>3, PlaceParts DEF Shapes, Serving, LaunchWorks
    <2>4. QED
      BY <1>1, <2>1, <2>2, <2>3 DEF HeldInv
  <1>11. SweepInv'
    <2>1. \A d \in Cmds : req[d].pc = "record" => req'[d] = req[d]
      BY <1>4 DEF LaunchWorks
    <2>2. QED
      BY <1>1, <2>1 DEF SweepInv
  <1>12. QED
    BY <1>5, <1>6, <1>7, <1>8, <1>9, <1>10, <1>11 DEF IInv

\* Who ends, and what is left unread.
LEMMA Ends ==
  ASSUME TypeOK, NEW dead
  PROVE  /\ Without(dead) \in [Cmds -> Commands] /\ Unread(dead) \in [Cmds -> Requests]
         /\ \A d \in Cmds : \/ Without(dead)[d] = NoProc
                            \/ Without(dead)[d] = proc[d] /\ proc[d].box \notin dead
         /\ \A d \in Cmds : \/ Unread(dead)[d] = req[d]
                            \/ req[d].pc \in Answers /\ Unread(dead)[d] = NoReq
  BY Types, Records DEF Without, Unread

LEMMA NotServing ==
  /\ \A a \in Answers : a \notin LaunchWorks \cup {"orphan", "none"}
  /\ NoReq.pc \notin LaunchWorks \cup {"orphan"}
  BY Records DEF Answers, LaunchWorks

LEMMA StopItKeeps ==
  ASSUME IInv, NEW c \in Cmds, StopIt(c)
  PROVE  IInv'
  <1>1. TypeOK
    BY DEF IInv
  <1> DEFINE m == req[c].n
             dead == {m} \cap Boxes
             u == Unread({m})
             f == [u[c] EXCEPT !.pc = "unhold"]
  <1>2. req[c].pc = "stop" /\ proc' = Without({m}) /\ UNCHANGED <<hub, live, disk>>
    BY DEF StopIt, At
  <1>3. u[c] = req[c] /\ f \in Requests /\ f.pc = "unhold"
    <2>1. req[c].pc \notin Answers
      BY <1>2 DEF Answers
    <2>2. u[c] = req[c] /\ req[c] \in Requests
      BY <1>1, <2>1, Ends, Types
    <2>3. QED
      BY <2>2 DEF Requests, Works
  <1>4. req' = [u EXCEPT ![c] = f]
    BY DEF StopIt
  <1>5. /\ u \in [Cmds -> Requests]
        /\ \A d \in Cmds : u[d] = req[d] \/ (req[d].pc \in Answers /\ u[d] = NoReq)
    BY <1>1, Ends
  <1> HIDE DEF f, u
  <1>6. req' \in [Cmds -> Requests] /\ req'[c] = f /\ \A d \in Cmds : d # c => req'[d] = u[d]
    BY <1>3, <1>4, <1>5, OneMoves
  <1>7. \A d \in Cmds :
          \/ req'[d] = req[d]
          \/ /\ req[d].pc \notin LaunchWorks \cup {"orphan", "none"}
             /\ req'[d].pc \notin LaunchWorks \cup {"orphan"}
    <2>1. f.pc \notin LaunchWorks \cup {"orphan"}
          /\ req[c].pc \notin LaunchWorks \cup {"orphan", "none"}
      BY <1>2, <1>3 DEF LaunchWorks
    <2>2. QED
      BY <1>5, <1>6, <2>1, NotServing
  <1>8. /\ proc' \in [Cmds -> Commands]
        /\ \A d \in Cmds : proc'[d] = NoProc \/ (proc'[d] = proc[d] /\ proc[d].box \notin {m})
    BY <1>1, <1>2, Ends
  <1>9. ctr' = [ctr EXCEPT ![m] = NoCtr]
    BY DEF StopIt
  <1>10. ctr' \in [Nums -> Containers] /\ \A n \in Nums : ctr'[n] = IF n = m THEN NoCtr ELSE ctr[n]
    BY <1>1, <1>9, Types, Records
  <1>11. TypeOK'
    BY <1>1, <1>2, <1>6, <1>8, <1>10, Types DEF TypeOK
  <1>12. /\ \A n \in Nums : Running(n)' => Running(n) /\ n \notin dead /\ ctr'[n].of = ctr[n].of
         /\ \A n \in Nums : Running(n) /\ n \notin dead => Running(n)'
    <2>1. \A n \in Nums : n \in dead <=> n = m
      BY Numbers
    <2>2. QED
      BY <1>10, <2>1, Records DEF Running
  <1>13. 0 \notin dead
    <2>1. m \in Nums \cup {None}
      BY <1>1, Types DEF Requests
    <2>2. QED
      BY <2>1, Numbers
  <1>14. \A d \in Cmds : proc'[d] = NoProc \/ (proc'[d] = proc[d] /\ proc[d].box \notin dead)
    BY <1>8
  <1>15. DiskKept /\ dead \in SUBSET Boxes
    BY <1>1, <1>2, NoDiskMoves
  <1>16. live' = (live /\ 0 \notin dead) /\ hub' = hub
    BY <1>1, <1>2, <1>13, Types
  <1> HIDE DEF dead
  <1>17. QED
    BY <1>7, <1>11, <1>12, <1>14, <1>15, <1>16, EndStep

LEMMA BoxGoneKeeps ==
  ASSUME IInv, BoxGone
  PROVE  IInv'
  <1> DEFINE dead == {0}
  <1>1. TypeOK
    BY DEF IInv
  <1>2. /\ proc' = Without(dead) /\ req' = Unread(dead) /\ live' = FALSE
        /\ UNCHANGED <<hub, disk, ctr>>
    BY DEF BoxGone, BoxesEnd
  <1>3. /\ proc' \in [Cmds -> Commands] /\ req' \in [Cmds -> Requests]
        /\ \A d \in Cmds : proc'[d] = NoProc \/ (proc'[d] = proc[d] /\ proc[d].box \notin dead)
        /\ \A d \in Cmds : req'[d] = req[d] \/ (req[d].pc \in Answers /\ req'[d] = NoReq)
    BY <1>1, <1>2, Ends
  <1>4. TypeOK'
    BY <1>1, <1>2, <1>3, Types DEF TypeOK
  <1>5. \A d \in Cmds :
          \/ req'[d] = req[d]
          \/ /\ req[d].pc \notin LaunchWorks \cup {"orphan", "none"}
             /\ req'[d].pc \notin LaunchWorks \cup {"orphan"}
    BY <1>3, NotServing
  <1>6. /\ dead \in SUBSET Boxes /\ 0 \in dead /\ \A n \in Nums : n \notin dead
    BY Numbers
  <1>7. DiskKept /\ \A n \in Nums : Running(n)' <=> Running(n)
    BY <1>2 DEF DiskKept, Running
  <1> HIDE DEF dead
  <1>8. live' = (live /\ 0 \notin dead)
    BY <1>2, <1>6
  <1>9. QED
    BY <1>2, <1>3, <1>4, <1>5, <1>6, <1>7, <1>8, EndStep

LEMMA ExitKeeps ==
  ASSUME IInv, NEW m \in Nums, Exit(m)
  PROVE  IInv'
  <1> DEFINE dead == {m}
             k == [ctr[m] EXCEPT !.st = "exited"]
  <1>1. TypeOK
    BY DEF IInv
  <1>2. /\ proc' = Without(dead) /\ req' = Unread(dead) /\ ctr' = [ctr EXCEPT ![m] = k]
        /\ UNCHANGED <<hub, live, disk>>
    BY DEF Exit, BoxesEnd
  <1>3. /\ proc' \in [Cmds -> Commands] /\ req' \in [Cmds -> Requests]
        /\ \A d \in Cmds : proc'[d] = NoProc \/ (proc'[d] = proc[d] /\ proc[d].box \notin dead)
        /\ \A d \in Cmds : req'[d] = req[d] \/ (req[d].pc \in Answers /\ req'[d] = NoReq)
    BY <1>1, <1>2, Ends
  <1>4. k \in Containers /\ k.st = "exited"
    BY <1>1, Types DEF Containers
  <1> HIDE DEF k
  <1>5. /\ ctr' \in [Nums -> Containers] /\ ctr'[m].st = "exited"
        /\ \A n \in Nums : n # m => ctr'[n] = ctr[n]
    BY <1>1, <1>2, <1>4, Types, OneMoves
  <1>6. TypeOK'
    BY <1>1, <1>2, <1>3, <1>5, Types DEF TypeOK
  <1>7. \A d \in Cmds :
          \/ req'[d] = req[d]
          \/ /\ req[d].pc \notin LaunchWorks \cup {"orphan", "none"}
             /\ req'[d].pc \notin LaunchWorks \cup {"orphan"}
    BY <1>3, NotServing
  <1>8. dead \in SUBSET Boxes /\ 0 \notin dead
    BY Numbers
  <1>9. DiskKept /\ live' = (live /\ 0 \notin dead)
    BY <1>1, <1>2, <1>8, Types DEF DiskKept
  <1>10. /\ \A n \in Nums : Running(n)' => Running(n) /\ n \notin dead /\ ctr'[n].of = ctr[n].of
         /\ \A n \in Nums : Running(n) /\ n \notin dead => Running(n)'
    BY <1>5 DEF Running
  <1> HIDE DEF dead
  <1>11. QED
    BY <1>2, <1>3, <1>6, <1>7, <1>8, <1>9, <1>10, EndStep

LEMMA SweepOneKeeps ==
  ASSUME IInv, NEW m \in Nums, SweepOne(m)
  PROVE  IInv'
  <1> DEFINE dead == {m}
  <1>1. TypeOK
    BY DEF IInv
  <1>2. /\ proc' = Without(dead) /\ req' = Unread(dead) /\ ctr' = [ctr EXCEPT ![m] = NoCtr]
        /\ live' = live /\ hub.pc = "sweep" /\ hub' = [hub EXCEPT !.sweep = @ \ {m}]
    BY DEF SweepOne, BoxesEnd
  <1>3. /\ proc' \in [Cmds -> Commands] /\ req' \in [Cmds -> Requests]
        /\ \A d \in Cmds : proc'[d] = NoProc \/ (proc'[d] = proc[d] /\ proc[d].box \notin dead)
        /\ \A d \in Cmds : req'[d] = req[d] \/ (req[d].pc \in Answers /\ req'[d] = NoReq)
    BY <1>1, <1>2, Ends
  <1>4. /\ ctr' \in [Nums -> Containers] /\ ctr'[m].st = "none"
        /\ \A n \in Nums : n # m => ctr'[n] = ctr[n]
    BY <1>1, <1>2, Types, Records, OneMoves
  <1>5. /\ hub' \in HubStates /\ hub'.pc = hub.pc /\ hub'.next = hub.next
        /\ hub'.homes = hub.homes /\ hub'.held = hub.held /\ hub'.sweep = hub.sweep \ {m}
    BY <1>1, <1>2, Types DEF HubStates
  <1>6. disk' \in [Places -> Documents] /\ DiskKept
    <2>1. \A p \in Places : LET d == [disk[p] EXCEPT !.st = "stopped"] IN d \in Documents
      BY <1>1, Types DEF Documents
    <2>2. disk' \in [Places -> Documents]
      BY <1>1, <2>1, Types DEF SweepOne
    <2>3. \A p \in Places : disk'[p] # disk[p] => Exists(p)
      BY DEF SweepOne
    <2>4. DiskKept
      BY <2>3 DEF DiskKept, Exists
    <2>5. QED
      BY <2>2, <2>4
  <1>7. TypeOK'
    BY <1>1, <1>2, <1>3, <1>4, <1>5, <1>6, Types DEF TypeOK
  <1>8. \A d \in Cmds :
          \/ req'[d] = req[d]
          \/ /\ req[d].pc \notin LaunchWorks \cup {"orphan", "none"}
             /\ req'[d].pc \notin LaunchWorks \cup {"orphan"}
    BY <1>3, NotServing
  <1>9. dead \in SUBSET Boxes /\ 0 \notin dead
    BY Numbers
  <1>10. live' = (live /\ 0 \notin dead)
    BY <1>1, <1>2, <1>9, Types
  <1>11. /\ \A n \in Nums : Running(n)' => Running(n) /\ n \notin dead /\ ctr'[n].of = ctr[n].of
         /\ \A n \in Nums : Running(n) /\ n \notin dead => Running(n)'
    BY <1>4 DEF Running
  <1>12. hub.sweep \ dead \subseteq hub'.sweep /\ hub.pc # "down"
    BY <1>2, <1>5
  <1> HIDE DEF dead
  <1>13. QED
    BY <1>3, <1>5, <1>6, <1>7, <1>8, <1>9, <1>10, <1>11, <1>12, EndStep

-----------------------------------------------------------------------------
(* The hub comes and goes *)

\* Steps of the hub's life that only it takes part in.
LEMMA HubStep ==
  ASSUME IInv, UNCHANGED <<disk, ctr, proc, req>>, hub' \in HubStates, live' \in BOOLEAN,
         HomesKept
  PROVE  TypeOK' /\ Shapes' /\ TreeInv'
  <1>1. TypeOK /\ Shapes /\ TreeInv
    BY DEF IInv
  <1>2. TypeOK'
    BY <1>1, Types DEF TypeOK
  <1>3. Shapes'
    BY <1>1 DEF Shapes, Launching, Serving
  <1>4. CmdsKept /\ ReqsKept /\ DiskKept
    BY DEF CmdsKept, ReqsKept, DiskKept
  <1>5. QED
    BY <1>1, <1>2, <1>3, <1>4, TreeKept

LEMMA StartHubKeeps ==
  ASSUME IInv, StartHub
  PROVE  IInv'
  <1>1. TypeOK /\ Shapes /\ HubInv /\ TreeInv /\ InSession
    BY DEF IInv
  <1>2. /\ hub' \in HubStates /\ hub.pc = "down" /\ hub'.pc = "up" /\ hub'.held = {}
        /\ UNCHANGED <<live, disk, ctr, proc, req>>
    BY <1>1, StartHubMoves
  <1>3. TypeOK'
    BY <1>1, <1>2, Types DEF TypeOK
  <1>4. TreeInv'
    BY <1>1, StartHubTree
  <1>5. \A c \in Cmds : ~Launching(c) /\ ~Serving(c) /\ req[c].pc # "record"
    BY <1>1, <1>2 DEF HubInv, InSession, Serving, LaunchWorks
  <1>6. Shapes'
    BY <1>1, <1>2 DEF Shapes, Launching, Serving
  <1>7. HubInv' /\ SweepInv'
    BY <1>2 DEF HubInv, SweepInv
  <1>8. InSession' /\ Reserved' /\ HeldInv'
    BY <1>2, <1>5 DEF InSession, Reserved, HeldInv, Launching, Serving
  <1>9. QED
    BY <1>3, <1>4, <1>6, <1>7, <1>8 DEF IInv

LEMMA BoxUpKeeps ==
  ASSUME IInv, BoxUp
  PROVE  IInv'
  <1>1. /\ TypeOK /\ Shapes /\ HubInv /\ TreeInv /\ InSession /\ Reserved /\ HeldInv
        /\ SweepInv
    BY DEF IInv
  <1>2. /\ hub' \in HubStates /\ hub.pc = "up" /\ hub'.pc = "up" /\ live' = TRUE
        /\ hub'.next = hub.next /\ hub'.homes = hub.homes /\ hub'.held = hub.held
        /\ UNCHANGED <<disk, ctr, proc, req>>
    BY <1>1, Types DEF BoxUp, Up, HubStates
  <1>3. HomesKept
    BY <1>2 DEF HomesKept
  <1>4. TypeOK' /\ Shapes' /\ TreeInv'
    BY <1>2, <1>3, HubStep
  <1>5. InSession'
    <2>1. \A b : Alive(b) => Alive(b)'
      BY <1>2 DEF Alive, Running
    <2>2. QED
      BY <1>1, <1>2, <2>1 DEF InSession, Launching
  <1>6. HubInv' /\ Reserved' /\ HeldInv' /\ SweepInv'
    BY <1>1, <1>2, HubUntouched
  <1>7. QED
    BY <1>4, <1>5, <1>6 DEF IInv

LEMMA BeginSweepKeeps ==
  ASSUME IInv, BeginSweep
  PROVE  IInv'
  <1>1. /\ TypeOK /\ Shapes /\ HubInv /\ TreeInv /\ InSession /\ Reserved /\ HeldInv
    BY DEF IInv
  <1>2. /\ hub' \in HubStates /\ hub.pc = "up" /\ hub'.pc = "sweep" /\ ~live
        /\ hub'.next = hub.next /\ hub'.homes = hub.homes /\ hub'.held = hub.held
        /\ {n \in Nums : ctr[n].st # "none"} \subseteq hub'.sweep
        /\ \A c \in Cmds : req[c].pc # "orphan"
        /\ UNCHANGED <<live, disk, ctr, proc, req>>
    BY <1>1, Types DEF BeginSweep, Up, HubStates
  <1>3. HomesKept
    BY <1>2 DEF HomesKept
  <1>4. TypeOK' /\ Shapes' /\ TreeInv'
    BY <1>1, <1>2, <1>3, Types, HubStep
  <1>5. \A n \in Nums : (Running(n)' <=> Running(n)) /\ (Running(n) => n \in hub'.sweep)
    BY <1>2 DEF Running
  <1>6. InSession'
    <2> SUFFICES ASSUME NEW c \in Cmds, Launching(c)
                 PROVE  Alive(proc[c].box)' /\ proc[c].box \in hub'.sweep
      BY <1>2 DEF InSession, Launching
    <2>1. proc[c].box \in Nums /\ Running(proc[c].box)
      BY <1>1, <1>2, PlaceParts, Numbers DEF InSession, Alive, Shapes
    <2>2. proc[c].box # 0
      BY <2>1, Numbers
    <2>3. QED
      BY <1>2, <1>5, <2>1, <2>2 DEF Alive, Running
  <1>7. HubInv' /\ Reserved'
    BY <1>1, <1>2 DEF HubInv, Reserved, Serving
  <1>8. HeldInv'
    <2>1. \A n : Homed(n)' <=> Homed(n)
      BY <1>2 DEF Homed, Running
    <2>2. QED
      BY <1>1, <1>2, <2>1 DEF HeldInv
  <1>9. SweepInv'
    BY <1>5 DEF SweepInv
  <1>10. QED
    BY <1>4, <1>6, <1>7, <1>8, <1>9 DEF IInv

LEMMA SweepEndKeeps ==
  ASSUME IInv, SweepEnd
  PROVE  IInv'
  <1>1. /\ TypeOK /\ Shapes /\ HubInv /\ TreeInv /\ InSession /\ Reserved /\ HeldInv
    BY DEF IInv
  <1>2. /\ hub' \in HubStates /\ hub.pc = "sweep" /\ hub.sweep = {} /\ hub'.pc = "closing"
        /\ hub'.next = hub.next /\ hub'.homes = hub.homes /\ hub'.held = {}
        /\ UNCHANGED <<live, disk, ctr, proc, req>>
    BY <1>1, Types DEF SweepEnd, HubStates
  <1>3. HomesKept
    BY <1>2 DEF HomesKept
  <1>4. TypeOK' /\ Shapes' /\ TreeInv'
    BY <1>1, <1>2, <1>3, Types, HubStep
  <1>5. InSession'
    BY <1>1, <1>2 DEF InSession, Launching
  <1>6. HubInv' /\ Reserved'
    BY <1>1, <1>2 DEF HubInv, Reserved, Serving
  <1>7. HeldInv'
    <2>1. \A n : Homed(n)' <=> Homed(n)
      BY <1>2 DEF Homed, Running
    <2>2. QED
      BY <1>1, <1>2, <2>1 DEF HeldInv
  <1>8. SweepInv'
    BY <1>2 DEF SweepInv
  <1>9. QED
    BY <1>4, <1>5, <1>6, <1>7, <1>8 DEF IInv

LEMMA HubExitKeeps ==
  ASSUME IInv, HubExit
  PROVE  IInv'
  <1>1. /\ TypeOK /\ Shapes /\ HubInv /\ TreeInv /\ InSession
    BY DEF IInv
  <1>2. hub.pc = "closing" /\ hub' = NoHub /\ UNCHANGED <<live, disk, ctr, proc>>
    BY DEF HubExit
  <1>3. /\ hub' \in HubStates /\ hub'.pc = "down" /\ hub'.held = {}
        /\ \A n \in Nums : hub'.homes[n] = None
    BY <1>2, Records
  <1>4. \A c \in Cmds :
          req'[c] = CASE req[c].pc \in Answers -> req[c]
                      [] req[c].pc \in {"run", "orphan"} -> [req[c] EXCEPT !.pc = "orphan"]
                      [] OTHER -> NoReq
    BY DEF HubExit
  <1>5. \A c \in Cmds :
          \/ req'[c] = req[c] /\ req[c].pc \in Answers
          \/ /\ req[c].pc \in {"run", "orphan"} /\ req'[c].pc = "orphan"
             /\ req'[c].n = req[c].n /\ req'[c].of = req[c].of /\ req'[c] \in Requests
          \/ req'[c] = NoReq
    <2> SUFFICES ASSUME NEW c \in Cmds
                 PROVE  \/ req'[c] = req[c] /\ req[c].pc \in Answers
                        \/ /\ req[c].pc \in {"run", "orphan"} /\ req'[c].pc = "orphan"
                           /\ req'[c].n = req[c].n /\ req'[c].of = req[c].of
                           /\ req'[c] \in Requests
                        \/ req'[c] = NoReq
      OBVIOUS
    <2>1. req[c] \in Requests
      BY <1>1, Types
    <2>2. CASE req[c].pc \in Answers
      <3>1. req[c].pc \notin {"run", "orphan"}
        BY <2>2 DEF Answers
      <3>2. QED
        BY <1>4, <2>2, <3>1
    <2>3. CASE req[c].pc \in {"run", "orphan"}
      <3>1. req[c].pc \notin Answers
        BY <2>3 DEF Answers
      <3>2. req'[c] = [req[c] EXCEPT !.pc = "orphan"]
        BY <1>4, <2>3, <3>1
      <3>3. QED
        BY <2>1, <2>3, <3>2 DEF Requests
    <2>4. CASE req[c].pc \notin Answers \cup {"run", "orphan"}
      BY <1>4, <2>4
    <2>5. QED
      BY <2>2, <2>3, <2>4
  <1>6. req' \in [Cmds -> Requests]
    <2>1. \A c \in Cmds : req'[c] \in Requests
      BY <1>1, <1>5, Types, Records
    <2>2. DOMAIN req' = Cmds /\ req' = [c \in Cmds |-> req'[c]]
      BY DEF HubExit
    <2>3. QED
      BY <2>1, <2>2
  <1>7. \A c \in Cmds : req'[c].pc \notin LaunchWorks
    BY <1>5, Records DEF Answers, LaunchWorks
  <1>8. \A c \in Cmds : ~Launching(c) /\ ~Launching(c)'
    BY <1>1, <1>2 DEF InSession, Launching
  <1>9. TypeOK'
    BY <1>1, <1>2, <1>3, <1>6, Types DEF TypeOK
  <1>10. Shapes'
    <2>1. \A c \in Cmds : req'[c].pc = "orphan" =>
            /\ req[c].pc \in {"run", "orphan"}
            /\ req'[c].n = req[c].n /\ req'[c].of = req[c].of
      BY <1>5, Records DEF Answers
    <2>2. \A c \in Cmds : req'[c].pc = "orphan" => <<req'[c].of, req'[c].n>> \in Places
      BY <1>1, <2>1 DEF Shapes, Serving, LaunchWorks
    <2>3. \A c \in Cmds : proc'[c].pc \notin {"make", "ask"}
      BY <1>8 DEF Launching, LaunchPcs
    <2>4. QED
      BY <1>7, <1>8, <2>2, <2>3 DEF Shapes, Serving
  <1>11. HubInv'
    BY <1>1, <1>2, <1>3, <1>7 DEF HubInv, Serving
  <1>12. TreeInv'
    <2>1. CmdsKept /\ ReqsKept /\ DiskKept /\ HomesKept
      BY <1>2, <1>3, <1>7 DEF CmdsKept, ReqsKept, DiskKept, HomesKept
    <2>2. QED
      BY <1>1, <2>1, TreeKept
  <1>13. InSession' /\ Reserved'
    BY <1>7, <1>8 DEF InSession, Reserved, Serving
  <1>14. HeldInv' /\ SweepInv'
    BY <1>3, <1>7 DEF HeldInv, SweepInv, LaunchWorks
  <1>15. QED
    BY <1>9, <1>10, <1>11, <1>12, <1>13, <1>14 DEF IInv

-----------------------------------------------------------------------------
(* The invariant holds always *)

LEMMA InitInv ==
  ASSUME Init
  PROVE  IInv
  <1>1. TypeOK
    BY Records DEF Init, TypeOK
  <1>2. \A c \in Cmds : /\ ~Launching(c) /\ ~Serving(c) /\ proc[c].pc = "idle"
                        /\ req[c].pc = "none"
    BY Records DEF Init, Launching, Serving, LaunchPcs, LaunchWorks
  <1>3. \A p \in Places : ~Exists(p)
    BY Records DEF Init, Exists
  <1>4. \A c \in Cmds : Claims(c) = {}
    BY <1>2 DEF Claims
  <1>5. /\ hub = NoHub /\ hub.pc = "down" /\ hub.held = {} /\ live = FALSE
        /\ \A n \in Nums : hub.homes[n] = None
    BY Records DEF Init
  <1>6. Shapes /\ HubInv
    BY <1>2, <1>5 DEF Shapes, HubInv
  <1>7. TreeInv
    BY <1>2, <1>3, <1>4, <1>5
       DEF TreeInv, OneHome, Counted, Exclusive, Asked, Noted, Fresh
  <1>8. InSession /\ Reserved /\ HeldInv /\ SweepInv
    BY <1>2, <1>5 DEF InSession, Reserved, HeldInv, SweepInv
  <1>9. QED
    BY <1>1, <1>6, <1>7, <1>8 DEF IInv

LEMMA NextInv ==
  ASSUME IInv, [Next]_vars
  PROVE  IInv'
  <1>1. ASSUME NEW c \in Cmds, Command(c)
        PROVE  IInv'
    BY <1>1, CommandKeeps
  <1>2. ASSUME NEW c \in Cmds, Thread(c)
        PROVE  IInv'
    <2>1. CASE Lookup(c) \/ Query(c)
      BY <2>1, LookupQueryKeeps
    <2>2. QED
      BY <1>2, <2>1, ReserveKeeps, ClearExitedKeeps, RunKeeps, RecordKeeps, ReleaseKeeps,
         StopItKeeps, UnholdKeeps, OrphanKeeps DEF Thread
  <1>3. CASE Lifetime
    BY <1>3, StartHubKeeps, BoxUpKeeps, BoxGoneKeeps, BeginSweepKeeps, SweepEndKeeps,
       HubExitKeeps, ExitKeeps, SweepOneKeeps DEF Lifetime
  <1>4. CASE UNCHANGED vars
    <2>1. UNCHANGED <<hub, live, disk, ctr, proc, req>>
      BY <1>4 DEF vars
    <2>2. TypeOK'
      BY <2>1 DEF IInv, TypeOK
    <2>3. Calm
      BY <2>1 DEF Calm, CmdsKept, DiskKept, IInv, Shapes
    <2>4. QED
      BY <2>2, <2>3, CalmKeeps
  <1>5. QED
    BY <1>1, <1>2, <1>3, <1>4 DEF Next

LEMMA InvAlways == Spec => []IInv
  <1>1. Init => IInv
    BY InitInv
  <1>2. IInv /\ [Next]_vars => IInv'
    BY NextInv
  <1>3. QED
    BY <1>1, <1>2, PTL DEF Spec

\* Types: the hub's state, the helper homes, podman's containers, the commands
\* and the hub's threads stay what they are declared as.
THEOREM TypeCorrect == Spec => []TypeOK
  <1>1. IInv => TypeOK
    BY DEF IInv
  <1>2. QED
    BY InvAlways, <1>1, PTL

\* A number has one home in the director's tree (HelperHub._next_num and
\* run_spawn), across hubs that restart, containers an earlier hub left, and
\* homes that are removed under them.
THEOREM NumberHasOneHome == Spec => []OneHomePerNumber
  <1>1. IInv => OneHomePerNumber
    <2> SUFFICES ASSUME IInv
                 PROVE  OneHomePerNumber
      OBVIOUS
    <2>1. \A p, q \in Places : Exists(p) /\ Exists(q) /\ p[2] = q[2] => p = q
      BY DEF IInv, TreeInv, OneHome
    <2>2. \A c \in Cmds : proc[c].pc = "make" =>
            \A p \in Places : p[2] = proc[c].n => ~Exists(p)
      BY DEF IInv, TreeInv, Fresh
    <2>3. \A c \in Cmds : \A d \in Cmds \ {c} :
            proc[c].pc = "make" => proc[d].n # proc[c].n \/ proc[d].pc # "make"
      <3> SUFFICES ASSUME NEW c \in Cmds, NEW d \in Cmds, d # c,
                          proc[c].pc = "make", proc[d].pc = "make"
                   PROVE  proc[d].n # proc[c].n
        OBVIOUS
      <3>1. /\ <<proc[c].box, proc[c].n>> \in Claims(c)
            /\ <<proc[d].box, proc[d].n>> \in Claims(d)
        BY DEF IInv, Shapes, Claims, Launching, LaunchPcs
      <3>2. QED
        BY <3>1 DEF IInv, TreeInv, Exclusive
    <2>4. QED
      BY <2>1, <2>2, <2>3 DEF OneHomePerNumber
  <1>2. QED
    BY InvAlways, <1>1, PTL

\* What the hub holds keeps its place (_handle_spawn, _release): a failed launch
\* never takes out the note of a helper that is held, and a held helper runs on
\* the home the hub noted, or on one that was removed under it.
THEOREM HeldStaysNoted == Spec => []HeldKeepsHome
  <1>1. IInv => HeldKeepsHome
    BY DEF IInv, HeldInv, Homed, HeldKeepsHome
  <1>2. QED
    BY InvAlways, <1>1, PTL

\* When the sweep ends (HelperHub.stop), a helper still runs only if its launch is
\* in flight and will be recorded.
THEOREM NothingRunsOn == Spec => SweepLeavesNone
  <1> DEFINE Left ==
        hub.pc = "sweep" /\ hub'.pc = "closing" =>
          \A n \in Nums : Running(n) =>
            \E c \in Cmds : req[c].n = n /\ req[c].pc = "record"
  <1>1. ASSUME IInv, Next PROVE Left
    <2> SUFFICES ASSUME hub.pc = "sweep", hub'.pc = "closing"
                 PROVE  hub.sweep = {}
      BY <1>1 DEF IInv, SweepInv
    <2>1. CASE SweepEnd
      BY <2>1 DEF SweepEnd
    <2>2. CASE Lifetime /\ ~SweepEnd
      <3>1. hub'.pc # "closing"
        <4>1. TypeOK
          BY <1>1 DEF IInv
        <4>2. CASE BoxGone \/ \E n \in Nums : Exit(n)
          BY <4>2 DEF BoxGone, Exit
        <4>3. CASE \E n \in Nums : SweepOne(n)
          BY <4>1, <4>3, Types DEF SweepOne, HubStates
        <4>4. QED
          BY <2>2, <4>2, <4>3 DEF Lifetime, StartHub, BoxUp, BeginSweep, HubExit, Up
      <3>2. QED
        BY <3>1
    <2>3. CASE \E c \in Cmds : Thread(c) \/ Command(c)
      <3>1. PICK c \in Cmds : Thread(c) \/ Command(c)
        BY <2>3
      <3>2. hub \in HubStates
        BY <1>1, Types DEF IInv
      <3>3. ~Reserve(c) /\ ~Record(c) /\ ~Lookup(c) /\ ~Unhold(c)
        BY DEF Reserve, Record, Lookup, Unhold, Lock
      <3>4. CASE Thread(c)
        <4>1. CASE Release(c)
          BY <3>2, <4>1 DEF Release, HubStates
        <4>2. QED
          BY <3>3, <3>4, <4>1
             DEF Thread, ClearExited, Run, Query, StopIt, Orphan
      <3>5. CASE Command(c)
        <4>1. \A b \in Boxes : ~Spawn(c, b)
          BY DEF Spawn, Up
        <4>2. \A p \in Places :
                Skip(c, p) \/ NoneToAsk(c, p) \/ AskStop(c, p) \/ Stopped(c, p)
                  \/ Refused(c, p) \/ Remove(c, p) => hub' = hub
          BY DEF Skip, NoneToAsk, AskStop, Stopped, Refused, Remove
        <4>3. \A b \in Boxes, n \in Nums :
                Respawn(c, b, n) \/ StopOrCleanup(c, b, n, "stop")
                  \/ StopOrCleanup(c, b, n, "cleanup") => hub' = hub
          BY DEF Respawn, StopOrCleanup
        <4>4. QED
          BY <3>5, <4>1, <4>2, <4>3
             DEF Command, Make, AskLaunch, Launched, NotLaunched, AllAsked, Die
      <3>6. QED
        BY <3>1, <3>4, <3>5
    <2>4. QED
      BY <1>1, <2>1, <2>2, <2>3 DEF Next
  <1>2. ASSUME IInv, [Next]_vars PROVE [Left]_vars
    BY <1>1, <1>2
  <1>3. QED
    BY InvAlways, <1>2, PTL DEF Spec, SweepLeavesNone

-----------------------------------------------------------------------------
(* What a stop or cleanup knows of the helpers it listed *)

\* A command lists helpers to stop, or to remove: those it still has in its list,
\* and those it asked about, or removes on the word it had.
ListPcs == {"each", "asked", "remove"}
StopPcs == {"none", "lookup", "query", "stop", "unhold", "ok", "off", "refused"}
DonePcs == {"unhold", "ok", "off"}

Lists(c) == proc[c].pc \in ListPcs
Listed(c) == IF proc[c].pc = "remove" THEN proc[c].todo ELSE proc[c].all
Cleared(c) ==
  IF proc[c].pc = "remove" THEN proc[c].todo ELSE proc[c].all \ proc[c].todo

\* The list: every helper in it but the first is of a box in it, no helper left to
\* be removed is of a removed one, and the thread stops the helper it was asked to.
Listing(c) ==
  /\ proc[c].box \in Boxes /\ Alive(proc[c].box) /\ req[c].pc \in StopPcs
  /\ proc[c].todo \subseteq proc[c].all
  /\ \A z \in proc[c].all : z[1] = proc[c].box \/ \E w \in proc[c].all : w[2] = z[1]
  /\ proc[c].pc = "remove" =>
       /\ proc[c].op # "stop" /\ ~proc[c].kept
       /\ \A w \in proc[c].all \ proc[c].todo, z \in proc[c].todo : z[1] # w[2]
  /\ proc[c].pc = "asked" =>
       /\ \E x \in proc[c].todo : x[2] = proc[c].n
       /\ req[c].pc # "none" => req[c].n = proc[c].n

\* No other command works on a listed helper, and its home is there.
Apart(c) == \A x \in Listed(c) : Exists(x) /\ \A d \in Cmds \ {c} : x[2] \notin Holds(d)

\* What the hub stopped does not run, and what a cleanup asked about does not
\* either, unless it could not ask.
Runs(x) == Running(x[2]) /\ ctr[x[2]].of = x[1]
Told(c) ==
  /\ proc[c].pc = "asked" /\ req[c].pc \in DonePcs => ~Running(proc[c].n)
  /\ proc[c].op # "stop" /\ ~proc[c].kept /\ ~proc[c].blind =>
       \A x \in Cleared(c) : Runs(x) => ~disk[x].named

Word(c) == Lists(c) => Listing(c) /\ (HasHome(proc[c].box) => Apart(c) /\ Told(c))
WordInv == \A c \in Cmds : Word(c)

\* A container that has a home has one that is there.
Housed == \A n \in Nums : ctr[n].of # None =>
  <<ctr[n].of, n>> \in Places /\ Exists(<<ctr[n].of, n>>)

CInv == IInv /\ Housed /\ WordInv

-----------------------------------------------------------------------------
(* Subtrees *)

LEMMA SubtreeLeast ==
  ASSUME NEW p \in Places
  PROVE  /\ p \in Subtree(p) /\ Subtree(p) \subseteq Places /\ Closed(Subtree(p))
         /\ \A S \in SUBSET Places : p \in S /\ Closed(S) => Subtree(p) \subseteq S
  <1>1. Subtree(p) \subseteq Places /\ p \in Subtree(p)
    BY DEF Subtree
  <1>2. \A S \in SUBSET Places : p \in S /\ Closed(S) => Subtree(p) \subseteq S
    BY DEF Subtree
  <1>3. Closed(Subtree(p))
    <2> SUFFICES ASSUME NEW a \in Subtree(p), NEW q \in Places, Exists(q), q[1] = a[2],
                        NEW S \in SUBSET Places, p \in S, Closed(S)
                 PROVE  q \in S
      BY DEF Closed, Subtree
    <2>1. a \in S
      BY <1>2
    <2>2. QED
      BY <2>1 DEF Closed
  <1>4. QED
    BY <1>1, <1>2, <1>3

\* Below the first helper of a subtree there are homes only, each in a box of the
\* subtree.
LEMMA SubtreeLinked ==
  ASSUME NEW p \in Places, NEW z \in Subtree(p)
  PROVE  z = p \/ (Exists(z) /\ \E w \in Subtree(p) : w[2] = z[1])
  <1> DEFINE S == {y \in Subtree(p) : y = p \/ (Exists(y) /\ \E w \in Subtree(p) : w[2] = y[1])}
  <1>1. S \in SUBSET Places /\ p \in S
    BY SubtreeLeast
  <1>2. Closed(S)
    <2> SUFFICES ASSUME NEW a \in S, NEW q \in Places, Exists(q), q[1] = a[2]
                 PROVE  q \in S
      BY DEF Closed
    <2>1. q \in Subtree(p)
      BY SubtreeLeast DEF Closed
    <2>2. QED
      BY <2>1
  <1>3. Subtree(p) \subseteq S
    BY <1>1, <1>2, SubtreeLeast
  <1>4. QED
    BY <1>3

\* A removed helper takes one of a command's list with it only by the home of the
\* command's own box.
LEMMA TakesListed ==
  ASSUME TypeOK, OneHome, Housed, NEW c \in Cmds, Lists(c), Word(c),
         NEW b \in Boxes, b = proc[c].box, HasHome(b),
         NEW r \in Places, Exists(r),
         \A z \in Listed(c) : z[1] = r[2] => z[1] = b,
         NEW x \in Listed(c), x # r, x \in Subtree(r)
  PROVE  b \in Nums /\ <<ctr[b].of, b>> \in Subtree(r)
  <1>1. Listing(c) /\ Apart(c)
    BY DEF Word
  <1> DEFINE S == {y \in Subtree(r) : y = r \/ y \notin Listed(c)}
  <1>2. PICK y \in S, q \in Places : Exists(q) /\ q[1] = y[2] /\ q \notin S
    <2>1. S \in SUBSET Places /\ r \in S /\ x \notin S
      BY SubtreeLeast
    <2>2. ~Closed(S)
      BY <2>1, SubtreeLeast
    <2>3. QED
      BY <2>2 DEF Closed
  <1>3. q \in Listed(c) /\ q \in Subtree(r)
    BY <1>2, SubtreeLeast DEF Closed
  <1>4. Listed(c) \subseteq proc[c].all
    BY <1>1 DEF Listing, Listed
  <1>5. y \in Places /\ Exists(y)
    BY SubtreeLeast, SubtreeLinked
  <1>6. ASSUME y # r, NEW w \in proc[c].all, w[2] = q[1]
        PROVE  FALSE
    <2>1. y \notin Listed(c)
      BY <1>6
    <2>2. w \in Places
      BY Types DEF Commands
    <2>3. w \notin Listed(c)
      <3>1. SUFFICES ASSUME w \in Listed(c)
                     PROVE  FALSE
        OBVIOUS
      <3>2. Exists(w) /\ w[2] = y[2]
        BY <1>1, <1>2, <1>6, <3>1 DEF Apart
      <3>3. QED
        BY <1>5, <2>1, <2>2, <3>1, <3>2 DEF OneHome
    <2>4. proc[c].pc = "remove" /\ w \in proc[c].all \ proc[c].todo /\ q \in proc[c].todo
      BY <1>3, <1>6, <2>3 DEF Listed
    <2>5. QED
      BY <1>1, <1>6, <2>4 DEF Listing
  <1>7. q[1] = b
    <2>1. CASE y = r
      BY <1>2, <1>3, <2>1
    <2>2. CASE y # r
      BY <1>1, <1>3, <1>4, <1>6, <2>2 DEF Listing
    <2>3. QED
      BY <2>1, <2>2
  <1>8. y[2] = b /\ b \in Nums
    BY <1>2, <1>5, <1>7, PlaceParts
  <1>9. ctr[b].of # None
    BY <1>8, Numbers DEF HasHome
  <1>10. <<ctr[b].of, b>> \in Places /\ Exists(<<ctr[b].of, b>>)
    BY <1>8, <1>9 DEF Housed
  <1>11. y = <<ctr[b].of, b>>
    <2>1. <<ctr[b].of, b>>[2] = b
      OBVIOUS
    <2>2. QED
      BY <1>5, <1>8, <1>10, <2>1 DEF OneHome
  <1>12. QED
    BY <1>8, <1>11

-----------------------------------------------------------------------------
(* Steps that leave a command's list as it is *)

LEMMA InHolds ==
  ASSUME NEW d \in Cmds, NEW n \in Nums
  PROVE  /\ n \in Holds(d) <=>
              n = proc[d].n \/ n = req[d].n \/ \E p \in proc[d].all : p[2] = n
         /\ n \in Holds(d)' <=>
              n = proc'[d].n \/ n = req'[d].n \/ \E p \in proc'[d].all : p[2] = n
  <1>1. n # None
    BY Numbers
  <1>2. QED
    BY <1>1 DEF Holds

LEMMA ListedPlaces ==
  ASSUME TypeOK, NEW c \in Cmds
  PROVE  /\ proc[c].all \subseteq Places /\ proc[c].todo \subseteq Places
         /\ Listed(c) \subseteq Places /\ Cleared(c) \subseteq Places
         /\ \A x \in Listed(c) : x[2] \in Nums
         /\ Listing(c) => Listed(c) \subseteq proc[c].all /\ Cleared(c) \subseteq Listed(c)
         /\ \A x \in Listed(c) : x \in proc[c].todo \cup proc[c].all
  BY Types, PlaceParts DEF Commands, Listed, Cleared, Listing

\* What a step leaves of the helpers a command listed.
Spared(c) == \A x \in Listed(c) :
  /\ disk'[x].st # "none" /\ (disk'[x].named => disk[x].named)
  /\ Running(x[2])' => Running(x[2]) /\ ctr'[x[2]].of \in {ctr[x[2]].of, None}
  /\ \A d \in Cmds \ {c} : x[2] \notin Holds(d)'

LEMMA QuietWord ==
  ASSUME TypeOK, NEW c \in Cmds, Lists(c), Word(c), NEW b \in Boxes, b = proc[c].box,
         proc'[c] = proc[c], Alive(b)', req'[c].pc \in StopPcs,
         req'[c].pc # "none" => req[c].pc # "none" /\ req'[c].n = req[c].n,
         HasHome(b)' =>
           /\ HasHome(b) /\ Spared(c)
           /\ proc[c].pc = "asked" /\ req'[c].pc \in DonePcs /\ req[c].pc \notin DonePcs =>
                (req[c].n \in Nums => ctr'[req[c].n].st # "running")
  PROVE  Word(c)'
  <1>1. Listing(c)
    BY DEF Word
  <1>2. Listing(c)'
    BY <1>1 DEF Listing, Alive, Running
  <1>3. ASSUME HasHome(b)'
        PROVE  Apart(c)' /\ Told(c)'
    <2>1. Apart(c) /\ Told(c) /\ Spared(c)
      BY <1>3 DEF Word
    <2>2. Listed(c)' = Listed(c) /\ Cleared(c)' = Cleared(c)
      BY DEF Listed, Cleared
    <2>3. Apart(c)'
      BY <2>1, <2>2 DEF Apart, Spared, Exists
    <2>4. ASSUME proc[c].pc = "asked", req'[c].pc \in DonePcs
          PROVE  ~Running(proc[c].n)'
      <3>1. req'[c].pc # "none"
        BY <2>4 DEF DonePcs
      <3>2. PICK x \in proc[c].todo : x[2] = proc[c].n
        BY <1>1, <2>4 DEF Listing
      <3>3. req[c].n = proc[c].n /\ x \in Listed(c) /\ req[c].n \in Nums
        BY <1>1, <2>4, <3>1, <3>2, ListedPlaces DEF Listing, Listed
      <3>4. CASE req[c].pc \in DonePcs
        BY <2>1, <2>4, <3>2, <3>3, <3>4 DEF Told, Spared, Running
      <3>5. CASE req[c].pc \notin DonePcs
        BY <1>3, <2>4, <3>3, <3>5 DEF Running
      <3>6. QED
        BY <3>4, <3>5
    <2>5. ASSUME proc[c].op # "stop" /\ ~proc[c].kept /\ ~proc[c].blind,
                 NEW x \in Cleared(c), Runs(x)'
          PROVE  ~disk'[x].named
      <3>1. x \in Listed(c) /\ x \in Places
        BY <1>1, ListedPlaces
      <3>2. Running(x[2])' /\ ctr'[x[2]].of = x[1] /\ x[1] # None
        BY <2>5, <3>1, PlaceParts, Numbers DEF Runs
      <3>3. Runs(x) /\ (disk'[x].named => disk[x].named)
        BY <2>1, <3>1, <3>2 DEF Spared, Runs
      <3>4. QED
        BY <2>1, <2>5, <3>3 DEF Told
    <2>6. QED
      BY <2>2, <2>3, <2>4, <2>5 DEF Told, Running
  <1>4. QED
    BY <1>2, <1>3 DEF Word, HasHome

\* Homes stay where they are.
Stays == \A p \in Places : Exists(p) => disk'[p].st # "none"

LEMMA HousedKept ==
  ASSUME TypeOK, Housed, Stays,
         \A n \in Nums : \/ ctr'[n].of \in {ctr[n].of, None}
                         \/ <<ctr'[n].of, n>> \in Places /\ Exists(<<ctr'[n].of, n>>)
  PROVE  Housed'
  BY DEF Housed, Stays, Exists

\* A step of another command, that touches only helpers it works on and takes on
\* only helpers nobody has listed.
LEMMA OthersWord ==
  ASSUME TypeOK, NEW d \in Cmds, NEW N, UNCHANGED <<live, ctr>>, Stays,
         \A c \in Cmds : c # d => proc'[c] = proc[c] /\ req'[c] = req[c],
         \A n \in Nums : n \in Holds(d)' => n \in Holds(d) \cup N,
         \A x \in Places : disk'[x] = disk[x] \/ x[2] \in Holds(d),
         NEW c \in Cmds, c # d, Word(c),
         Lists(c) /\ HasHome(proc[c].box) => \A x \in Listed(c) : x[2] \notin N
  PROVE  Word(c)'
  <1> SUFFICES ASSUME Lists(c)
               PROVE  Word(c)'
    BY DEF Word, Lists
  <1>1. Listing(c)
    BY DEF Word
  <1>2. PICK b \in Boxes : b = proc[c].box
    BY <1>1 DEF Listing
  <1>3. Alive(b)' /\ (HasHome(b)' => HasHome(b)) /\ req'[c].pc \in StopPcs
    BY <1>1, <1>2 DEF Listing, Alive, Running, HasHome
  <1>4. ASSUME HasHome(b)'
        PROVE  Spared(c)
    <2>1. Apart(c)
      BY <1>2, <1>3, <1>4 DEF Word
    <2> SUFFICES ASSUME NEW x \in Listed(c)
                 PROVE  /\ disk'[x].st # "none" /\ (disk'[x].named => disk[x].named)
                        /\ Running(x[2])' => Running(x[2]) /\ ctr'[x[2]].of = ctr[x[2]].of
                        /\ \A e \in Cmds \ {c} : x[2] \notin Holds(e)'
      BY DEF Spared
    <2>2. x \in Places /\ x[2] \in Nums /\ Exists(x)
      BY <2>1, ListedPlaces DEF Apart
    <2>3. x[2] \notin Holds(d) /\ x[2] \notin Holds(d)'
      BY <1>2, <1>3, <1>4, <2>1, <2>2 DEF Apart
    <2>4. \A e \in Cmds \ {c} : x[2] \notin Holds(e)'
      <3>1. SUFFICES ASSUME NEW e \in Cmds \ {c}, e # d
                     PROVE  x[2] \notin Holds(e)'
        BY <2>3
      <3>2. x[2] \notin Holds(e) /\ proc'[e] = proc[e] /\ req'[e] = req[e]
        BY <2>1, <3>1 DEF Apart
      <3>3. QED
        BY <2>2, <3>2, InHolds
    <2>5. QED
      BY <2>2, <2>3, <2>4 DEF Stays, Running
  <1>5. QED
    BY <1>2, <1>3, <1>4, QuietWord

\* A step of podman, of the hub and its threads, or of a box that ends: it takes
\* commands and answers away, and starts only what somebody launches.
LEMMA WorldWord ==
  ASSUME TypeOK, Shapes, NEW c \in Cmds, Word(c),
         \A d \in Cmds : proc'[d] = proc[d] \/ proc'[d] = NoProc,
         \A d \in Cmds : req'[d].n \in {req[d].n, None},
         Lists(c) /\ proc'[c] = proc[c] => Alive(proc[c].box)',
         \A x \in Places : Exists(x) => disk'[x].st # "none" /\ disk'[x].named = disk[x].named,
         \A n \in Nums : Running(n)' =>
           \/ Running(n) /\ ctr'[n].of = ctr[n].of
           \/ ~Running(n) /\ \E d \in Cmds :
                req[d].pc \in LaunchWorks \cup {"orphan"} /\ req[d].n = n,
         Lists(c) /\ req[c].pc \in StopPcs =>
           /\ req'[c].pc \in StopPcs
           /\ req'[c].pc # "none" => req[c].pc # "none" /\ req'[c].n = req[c].n
           /\ req'[c].pc \in DonePcs /\ req[c].pc \notin DonePcs =>
                (req[c].n \in Nums => ctr'[req[c].n].st # "running")
  PROVE  Word(c)'
  <1> SUFFICES ASSUME Lists(c), proc'[c] = proc[c]
               PROVE  Word(c)'
    BY Records DEF Word, Lists, ListPcs
  <1>1. Listing(c)
    BY DEF Word
  <1>2. PICK b \in Boxes : b = proc[c].box
    BY <1>1 DEF Listing
  <1>3. Alive(b)' /\ Alive(b) /\ req[c].pc \in StopPcs
    BY <1>1, <1>2 DEF Listing, Alive, Running
  <1>4. HasHome(b)' => HasHome(b)
    BY <1>3, Numbers DEF HasHome, Alive
  <1>5. ASSUME HasHome(b)'
        PROVE  Spared(c)
    <2>1. Apart(c)
      BY <1>2, <1>4, <1>5 DEF Word
    <2> SUFFICES ASSUME NEW x \in Listed(c)
                 PROVE  /\ disk'[x].st # "none" /\ (disk'[x].named => disk[x].named)
                        /\ Running(x[2])' => Running(x[2]) /\ ctr'[x[2]].of = ctr[x[2]].of
                        /\ \A e \in Cmds \ {c} : x[2] \notin Holds(e)'
      BY DEF Spared
    <2>2. x \in Places /\ x[2] \in Nums /\ Exists(x)
      BY <2>1, ListedPlaces DEF Apart
    <2>3. ASSUME NEW e \in Cmds, req[e].pc \in LaunchWorks \cup {"orphan"}
          PROVE  req[e].n # x[2]
      <3>1. e # c
        BY <1>3, <2>3 DEF StopPcs, LaunchWorks
      <3>2. x[2] \notin Holds(e)
        BY <2>1, <3>1 DEF Apart
      <3>3. QED
        BY <2>2, <3>2, InHolds
    <2>4. Running(x[2])' => Running(x[2]) /\ ctr'[x[2]].of = ctr[x[2]].of
      BY <2>2, <2>3
    <2>5. \A e \in Cmds \ {c} : x[2] \notin Holds(e)'
      <3>1. SUFFICES ASSUME NEW e \in Cmds \ {c}
                     PROVE  x[2] \notin Holds(e)'
        OBVIOUS
      <3>2. x[2] \notin Holds(e)
        BY <2>1, <3>1 DEF Apart
      <3>3. NoProc.n = None /\ NoProc.all = {} /\ x[2] # None
        BY <2>2, Numbers DEF NoProc
      <3>4. QED
        BY <2>2, <3>2, <3>3, InHolds
    <2>6. QED
      BY <2>2, <2>4, <2>5
  <1>6. QED
    BY <1>2, <1>3, <1>4, <1>5, QuietWord

-----------------------------------------------------------------------------
(* The hub's threads and the boxes keep every list *)

Keeps == Stays /\ Housed' /\ WordInv'

LEMMA ThreadWord ==
  ASSUME CInv, NEW d \in Cmds, NEW f \in Requests, req' = [req EXCEPT ![d] = f],
         f = NoReq \/ f.n = req[d].n, req[d].pc # "none", UNCHANGED <<live, disk, proc>>,
         req[d].pc \in StopPcs =>
           /\ f.pc \in StopPcs
           /\ f.pc \in DonePcs /\ req[d].pc \notin DonePcs =>
                ctr'[req[d].n].st # "running",
         \A n \in Nums : Running(n) => Running(n)' /\ ctr'[n].of = ctr[n].of,
         \A n \in Nums : ~Running(n) /\ Running(n)' =>
           req[d].pc \in LaunchWorks \cup {"orphan"} /\ req[d].n = n,
         \A n \in Nums : \/ ctr'[n].of \in {ctr[n].of, None}
                         \/ <<ctr'[n].of, n>> \in Places /\ Exists(<<ctr'[n].of, n>>)
  PROVE  Keeps
  <1>1. TypeOK /\ Shapes /\ Housed /\ WordInv
    BY DEF CInv, IInv
  <1>2. Stays
    BY DEF Stays, Exists
  <1>3. Housed'
    BY <1>1, <1>2, HousedKept
  <1>4. /\ req'[d] = f /\ \A c \in Cmds : c # d => req'[c] = req[c]
        /\ NoReq.n = None /\ NoReq.pc = "none"
    BY <1>1, Types, OneMoves DEF NoReq
  <1>5. ASSUME NEW c \in Cmds
        PROVE  Word(c)'
    <2>1. Lists(c) => Alive(proc[c].box)'
      BY <1>1 DEF WordInv, Word, Listing, Alive, Boxes, Nums
    <2>2. \A e \in Cmds : req'[e].n \in {req[e].n, None}
      BY <1>4
    <2>3. req[c].pc \in StopPcs =>
            /\ req'[c].pc \in StopPcs
            /\ req'[c].pc # "none" => req[c].pc # "none" /\ req'[c].n = req[c].n
            /\ req'[c].pc \in DonePcs /\ req[c].pc \notin DonePcs =>
                 (req[c].n \in Nums => ctr'[req[c].n].st # "running")
      BY <1>4
    <2>4. QED
      BY <1>1, <2>1, <2>2, <2>3, WorldWord DEF WordInv, Exists, Running
  <1>6. QED
    BY <1>2, <1>3, <1>5 DEF Keeps, WordInv

\* A thread that starts and stops no container.
LEMMA IdleThreadWord ==
  ASSUME CInv, NEW d \in Cmds, NEW f \in Requests, req' = [req EXCEPT ![d] = f],
         f = NoReq \/ f.n = req[d].n, req[d].pc # "none", UNCHANGED <<live, disk, proc, ctr>>,
         req[d].pc \in StopPcs =>
           /\ f.pc \in StopPcs
           /\ f.pc \in DonePcs /\ req[d].pc \notin DonePcs => ~Running(req[d].n)
  PROVE  Keeps
  BY ThreadWord DEF Running

LEMMA AnswerMoves ==
  ASSUME TypeOK, NEW d \in Cmds, NEW a \in Answers, Answer(d, a)
  PROVE  \E f \in Requests :
           req' = [req EXCEPT ![d] = f] /\ (f = NoReq \/ (f.n = req[d].n /\ f.pc = a))
  <1> DEFINE f == IF Waits(d) THEN [req[d] EXCEPT !.pc = a] ELSE NoReq
  <1>1. f \in Requests /\ (f = NoReq \/ (f.n = req[d].n /\ f.pc = a))
    BY Types, Records DEF Requests
  <1>2. req' = [req EXCEPT ![d] = f]
    BY DEF Answer
  <1>3. QED
    BY <1>1, <1>2

LEMMA ReserveWord ==
  ASSUME CInv, NEW d \in Cmds, Reserve(d)
  PROVE  Keeps
  <1>1. TypeOK /\ req[d].pc = "reserve" /\ UNCHANGED <<live, disk, ctr, proc>>
    BY DEF CInv, IInv, Reserve, At
  <1>2. PICK f \in Requests :
          req' = [req EXCEPT ![d] = f] /\ (f = NoReq \/ f.n = req[d].n)
    <2>1. CASE Answer(d, "error")
      BY <1>1, <2>1, AnswerMoves DEF Answers
    <2>2. CASE ~Answer(d, "error")
      <3> DEFINE f == [req[d] EXCEPT !.pc = "clear", !.held = hub.homes[req[d].n] = req[d].of]
      <3>1. f \in Requests /\ f.n = req[d].n
        BY <1>1, Types DEF Requests, Works
      <3>2. req' = [req EXCEPT ![d] = f]
        BY <1>1, <2>2, Types DEF Reserve, Requests
      <3>3. QED
        BY <3>1, <3>2
    <2>3. QED
      BY <2>1, <2>2
  <1>3. req[d].pc \notin StopPcs /\ req[d].pc # "none"
    BY <1>1 DEF StopPcs
  <1>4. QED
    BY <1>1, <1>2, <1>3, IdleThreadWord

LEMMA ClearExitedWord ==
  ASSUME CInv, NEW d \in Cmds, ClearExited(d)
  PROVE  Keeps
  <1>1. TypeOK /\ req[d].pc = "clear" /\ UNCHANGED <<live, disk, proc>>
    BY DEF CInv, IInv, ClearExited, At
  <1>2. PICK f \in Requests : req' = [req EXCEPT ![d] = f] /\ f.n = req[d].n
    BY <1>1, GotoMoves DEF ClearExited, Works
  <1>3. req[d].pc \notin StopPcs /\ req[d].pc # "none"
    BY <1>1 DEF StopPcs
  <1>4. \A n \in Nums : ctr'[n] = ctr[n] \/ (ctr[n].st = "exited" /\ ctr'[n] = NoCtr)
    BY <1>1, Types DEF ClearExited
  <1>5. NoCtr.of = None /\ NoCtr.st = "none"
    BY DEF NoCtr
  <1>6. QED
    BY <1>1, <1>2, <1>3, <1>4, <1>5, ThreadWord DEF Running

\* A thread that asked podman for a container, or a podman left behind.
LEMMA StartWord ==
  ASSUME CInv, NEW d \in Cmds, NEW f \in Requests, req' = [req EXCEPT ![d] = f],
         f = NoReq \/ f.n = req[d].n, req[d].pc \in {"run", "orphan"},
         UNCHANGED <<hub, live, disk, proc>>, Start(req[d].n, req[d].of)
  PROVE  Keeps
  <1>1. TypeOK /\ Shapes /\ IInv
    BY DEF CInv, IInv
  <1>2. req[d].pc \notin StopPcs /\ req[d].pc \in LaunchWorks \cup {"orphan"}
        /\ req[d].pc # "none"
    BY DEF StopPcs, LaunchWorks
  <1>3. <<req[d].of, req[d].n>> \in Places /\ req[d].n \in Nums /\ req[d].of \in Boxes
    BY <1>1, <1>2, PlaceParts DEF Shapes, Serving
  <1>4. PICK n \in Nums, b \in Boxes : n = req[d].n /\ b = req[d].of
    BY <1>3
  <1>5. /\ ctr[n].st = "none" /\ ctr'[n].of = b
        /\ \A m \in Nums : m # n => ctr'[m] = ctr[m]
        /\ \A m \in Nums : Running(m) => Running(m)'
    BY <1>1, <1>3, <1>4, Starts
  <1>6. Exists(<<b, n>>) /\ <<b, n>> \in Places
    BY <1>3, <1>4 DEF Start
  <1>7. \A m \in Nums : Running(m) => Running(m)' /\ ctr'[m].of = ctr[m].of
    BY <1>5 DEF Running
  <1>8. \A m \in Nums : ~Running(m) /\ Running(m)' => req[d].n = m
    BY <1>4, <1>5 DEF Running
  <1>9. \A m \in Nums : \/ ctr'[m].of \in {ctr[m].of, None}
                        \/ <<ctr'[m].of, m>> \in Places /\ Exists(<<ctr'[m].of, m>>)
    BY <1>5, <1>6
  <1>10. QED
    BY <1>2, <1>7, <1>8, <1>9, ThreadWord

LEMMA RunWord ==
  ASSUME CInv, NEW d \in Cmds, Run(d) \/ Orphan(d)
  PROVE  Keeps
  <1>1. TypeOK /\ req[d].pc \in {"run", "orphan"} /\ UNCHANGED <<hub, live, disk, proc>>
    BY DEF CInv, IInv, Run, Orphan, At
  <1>2. PICK f \in Requests : req' = [req EXCEPT ![d] = f] /\ (f = NoReq \/ f.n = req[d].n)
    BY <1>1, GotoMoves, Records DEF Run, Orphan, Works
  <1>3. CASE Start(req[d].n, req[d].of)
    BY <1>1, <1>2, <1>3, StartWord
  <1>4. CASE UNCHANGED ctr
    BY <1>1, <1>2, <1>4, IdleThreadWord DEF StopPcs
  <1>5. QED
    BY <1>3, <1>4 DEF Run, Orphan

LEMMA AnsweringWord ==
  ASSUME CInv, NEW d \in Cmds,
         Record(d) \/ Release(d) \/ Lookup(d) \/ Query(d) \/ Unhold(d)
  PROVE  Keeps
  <1>1. TypeOK /\ UNCHANGED <<live, disk, ctr, proc>> /\ req[d].pc # "none"
    BY DEF CInv, IInv, Record, Release, Lookup, Query, Unhold, At
  <1>2. CASE Record(d) \/ Release(d)
    <2>1. PICK f \in Requests : req' = [req EXCEPT ![d] = f] /\ (f = NoReq \/ f.n = req[d].n)
      BY <1>1, <1>2, AnswerMoves DEF Record, Release, Answers
    <2>2. req[d].pc \notin StopPcs
      BY <1>2 DEF Record, Release, At, StopPcs
    <2>3. QED
      BY <1>1, <2>1, <2>2, IdleThreadWord
  <1>3. CASE Lookup(d)
    <2>1. PICK f \in Requests :
            /\ req' = [req EXCEPT ![d] = f] /\ f.n = req[d].n /\ f.pc \in {"stop", "query"}
      BY <1>1, <1>3, GotoMoves DEF Lookup, Works
    <2>2. f.pc \in StopPcs /\ f.pc \notin DonePcs
      BY <2>1 DEF StopPcs, DonePcs
    <2>3. QED
      BY <1>1, <2>1, <2>2, IdleThreadWord
  <1>4. CASE Query(d)
    <2>1. PICK a \in {"refused", "off"} : Answer(d, a) /\ (a = "off" => ~Running(req[d].n))
      BY <1>4 DEF Query
    <2>2. PICK f \in Requests :
            req' = [req EXCEPT ![d] = f] /\ (f = NoReq \/ (f.n = req[d].n /\ f.pc = a))
      BY <1>1, <2>1, AnswerMoves DEF Answers
    <2>3. f.pc \in StopPcs /\ (f.pc \in DonePcs => ~Running(req[d].n))
      BY <2>1, <2>2, Records DEF StopPcs, DonePcs
    <2>4. QED
      BY <1>1, <2>2, <2>3, IdleThreadWord
  <1>5. CASE Unhold(d)
    <2>1. PICK f \in Requests :
            req' = [req EXCEPT ![d] = f] /\ (f = NoReq \/ (f.n = req[d].n /\ f.pc = "ok"))
      BY <1>1, <1>5, AnswerMoves DEF Unhold, Answers
    <2>2. f.pc \in StopPcs /\ req[d].pc \in DonePcs
      BY <1>5, <2>1, Records DEF StopPcs, DonePcs, Unhold, At
    <2>3. QED
      BY <1>1, <2>1, <2>2, IdleThreadWord
  <1>6. QED
    BY <1>2, <1>3, <1>4, <1>5

LEMMA EndsWord ==
  ASSUME CInv, NEW dead,
         \A d \in Cmds : proc'[d] = NoProc \/ (proc'[d] = proc[d] /\ proc[d].box \notin dead),
         \A d \in Cmds :
           \/ req'[d] = req[d] \/ req'[d] = NoReq
           \/ req'[d].n = req[d].n /\ req[d].pc \notin StopPcs
           \/ /\ req[d].pc = "stop" /\ req'[d].pc = "unhold" /\ req'[d].n = req[d].n
              /\ req[d].n \in Nums => ctr'[req[d].n].st # "running",
         live /\ 0 \notin dead => live',
         \A n \in Nums : Running(n) /\ n \notin dead => Running(n)',
         \A n \in Nums : Running(n)' => Running(n) /\ ctr'[n].of = ctr[n].of,
         \A n \in Nums : ctr'[n].of \in {ctr[n].of, None},
         \A x \in Places : Exists(x) => disk'[x].st # "none" /\ disk'[x].named = disk[x].named
  PROVE  Keeps
  <1>1. TypeOK /\ Shapes /\ Housed /\ WordInv
    BY DEF CInv, IInv
  <1>2. Stays
    BY DEF Stays
  <1>3. Housed'
    BY <1>1, <1>2, HousedKept
  <1>4. NoReq.n = None /\ NoReq.pc = "none"
    BY DEF NoReq
  <1>5. ASSUME NEW c \in Cmds
        PROVE  Word(c)'
    <2>1. ASSUME Lists(c), proc'[c] = proc[c]
          PROVE  Alive(proc[c].box)'
      <3>1. proc[c] # NoProc
        BY <2>1, Records DEF Lists, ListPcs
      <3>2. PICK b \in Boxes : b = proc[c].box /\ Alive(b) /\ b \notin dead
        BY <1>1, <2>1, <3>1 DEF WordInv, Word, Listing
      <3>3. Alive(b)'
        BY <3>2, Numbers DEF Alive
      <3>4. QED
        BY <2>1, <3>2, <3>3 DEF Alive, Running
    <2>2. \A e \in Cmds : req'[e].n \in {req[e].n, None}
      BY <1>4
    <2>3. req[c].pc \in StopPcs =>
            /\ req'[c].pc \in StopPcs
            /\ req'[c].pc # "none" => req[c].pc # "none" /\ req'[c].n = req[c].n
            /\ req'[c].pc \in DonePcs /\ req[c].pc \notin DonePcs =>
                 (req[c].n \in Nums => ctr'[req[c].n].st # "running")
      BY <1>4 DEF StopPcs, DonePcs
    <2>4. QED
      BY <1>1, <2>1, <2>2, <2>3, WorldWord DEF WordInv
  <1>6. QED
    BY <1>2, <1>3, <1>5 DEF Keeps, WordInv

LEMMA StopItWord ==
  ASSUME CInv, NEW d \in Cmds, StopIt(d)
  PROVE  Keeps
  <1>1. TypeOK
    BY DEF CInv, IInv
  <1> DEFINE m == req[d].n
             u == Unread({m})
             f == [u[d] EXCEPT !.pc = "unhold"]
  <1>2. req[d].pc = "stop" /\ proc' = Without({m}) /\ UNCHANGED <<hub, live, disk>>
    BY DEF StopIt, At
  <1>3. u \in [Cmds -> Requests] /\ u[d] = req[d]
        /\ \A e \in Cmds : u[e] = req[e] \/ u[e] = NoReq
    BY <1>1, <1>2, Ends DEF Answers
  <1>4. req' = [u EXCEPT ![d] = f] /\ f.pc = "unhold" /\ f.n = m
    BY <1>3 DEF StopIt, Requests
  <1> HIDE DEF u, f
  <1>5. req'[d] = f /\ \A e \in Cmds : e # d => req'[e] = u[e]
    BY <1>3, <1>4
  <1>6. ctr' = [ctr EXCEPT ![m] = NoCtr] /\ NoCtr.st = "none" /\ NoCtr.of = None
    BY DEF StopIt, NoCtr
  <1>7. \A n \in Nums : ctr'[n] = IF n = m THEN NoCtr ELSE ctr[n]
    BY <1>1, <1>6, Types
  <1>8. /\ \A e \in Cmds : proc'[e] = NoProc \/ (proc'[e] = proc[e] /\ proc[e].box \notin {m})
        /\ \A n \in Nums : Running(n) /\ n \notin {m} => Running(n)'
        /\ \A n \in Nums : Running(n)' => Running(n) /\ ctr'[n].of = ctr[n].of
        /\ \A n \in Nums : ctr'[n].of \in {ctr[n].of, None}
        /\ m \in Nums => ctr'[m].st # "running"
    BY <1>1, <1>2, <1>6, <1>7, Ends DEF Running
  <1>9. \A e \in Cmds :
          \/ req'[e] = req[e] \/ req'[e] = NoReq
          \/ req'[e].n = req[e].n /\ req[e].pc \notin StopPcs
          \/ /\ req[e].pc = "stop" /\ req'[e].pc = "unhold" /\ req'[e].n = req[e].n
             /\ req[e].n \in Nums => ctr'[req[e].n].st # "running"
    BY <1>2, <1>3, <1>4, <1>5, <1>8
  <1>10. \A x \in Places : Exists(x) => disk'[x].st # "none" /\ disk'[x].named = disk[x].named
    BY <1>2 DEF Exists
  <1>11. live /\ 0 \notin {m} => live'
    BY <1>2
  <1> HIDE DEF m
  <1>12. QED
    BY <1>8, <1>9, <1>10, <1>11, EndsWord

LEMMA BoxEndsWord ==
  ASSUME CInv, BoxGone \/ \E n \in Nums : Exit(n) \/ SweepOne(n)
  PROVE  Keeps
  <1>1. TypeOK
    BY DEF CInv, IInv
  <1>2. PICK m \in Boxes : \/ m = 0 /\ BoxGone
                           \/ m \in Nums /\ (Exit(m) \/ SweepOne(m))
    BY Numbers
  <1>3. proc' = Without({m}) /\ req' = Unread({m})
    BY <1>2 DEF BoxGone, Exit, SweepOne, BoxesEnd
  <1>4. /\ \A d \in Cmds : proc'[d] = NoProc \/ (proc'[d] = proc[d] /\ proc[d].box \notin {m})
        /\ \A d \in Cmds :
             \/ req'[d] = req[d] \/ req'[d] = NoReq
             \/ req'[d].n = req[d].n /\ req[d].pc \notin StopPcs
             \/ /\ req[d].pc = "stop" /\ req'[d].pc = "unhold" /\ req'[d].n = req[d].n
                /\ req[d].n \in Nums => ctr'[req[d].n].st # "running"
    BY <1>1, <1>3, Ends
  <1>5. live /\ 0 \notin {m} => live'
    BY <1>2 DEF BoxGone, Exit, SweepOne
  <1>6. \A n \in Nums : \/ ctr'[n] = ctr[n]
                        \/ /\ n = m /\ ctr'[n].st \in {"exited", "none"}
                           /\ ctr'[n].of \in {ctr[n].of, None}
    <2>1. CASE BoxGone
      BY <2>1 DEF BoxGone
    <2>2. CASE m \in Nums /\ Exit(m)
      BY <1>1, <2>2, Types DEF Exit, Containers
    <2>3. CASE m \in Nums /\ SweepOne(m)
      BY <1>1, <2>3, Types DEF SweepOne, NoCtr
    <2>4. QED
      BY <1>2, <2>1, <2>2, <2>3
  <1>7. \A x \in Places : Exists(x) => disk'[x].st # "none" /\ disk'[x].named = disk[x].named
    <2>1. CASE SweepOne(m)
      BY <1>1, <2>1, Types DEF SweepOne, Exists, Documents
    <2>2. CASE BoxGone \/ Exit(m)
      BY <2>2 DEF BoxGone, Exit, Exists
    <2>3. QED
      BY <1>2, <2>1, <2>2
  <1>8. /\ \A n \in Nums : Running(n) /\ n \notin {m} => Running(n)'
        /\ \A n \in Nums : Running(n)' => Running(n) /\ ctr'[n].of = ctr[n].of
        /\ \A n \in Nums : ctr'[n].of \in {ctr[n].of, None}
    BY <1>6 DEF Running
  <1>9. QED
    BY <1>4, <1>5, <1>7, <1>8, EndsWord

LEMMA HubWord ==
  ASSUME CInv, StartHub \/ BoxUp \/ BeginSweep \/ SweepEnd \/ HubExit
  PROVE  Keeps
  <1> DEFINE nobody == {}
  <1>1. TypeOK
    BY DEF CInv, IInv
  <1>2. UNCHANGED <<disk, ctr, proc>>
    BY DEF StartHub, BoxUp, BeginSweep, SweepEnd, HubExit
  <1>3. \A d \in Cmds : \/ req'[d] = req[d] \/ req'[d] = NoReq
                        \/ req'[d].n = req[d].n /\ req[d].pc \notin StopPcs
    <2>1. CASE HubExit
      <3>1. SUFFICES ASSUME NEW d \in Cmds
                     PROVE  \/ req'[d] = req[d] \/ req'[d] = NoReq
                            \/ req'[d].n = req[d].n /\ req[d].pc \notin StopPcs
        OBVIOUS
      <3>2. CASE req[d].pc \in {"run", "orphan"}
        <4> DEFINE f == [req[d] EXCEPT !.pc = "orphan"]
        <4>1. f.n = req[d].n
          BY <1>1, Types DEF Requests
        <4>2. req'[d] = f
          BY <2>1, <3>2 DEF HubExit, Answers
        <4>3. QED
          BY <3>2, <4>1, <4>2 DEF StopPcs
      <3>3. CASE req[d].pc \notin {"run", "orphan"}
        BY <2>1, <3>3 DEF HubExit
      <3>4. QED
        BY <3>2, <3>3
    <2>2. CASE ~HubExit
      BY <2>2 DEF StartHub, BoxUp, BeginSweep, SweepEnd
    <2>3. QED
      BY <2>1, <2>2
  <1>4. \A d \in Cmds : \/ req'[d] = req[d] \/ req'[d] = NoReq
                        \/ req'[d].n = req[d].n /\ req[d].pc \notin StopPcs
                        \/ /\ req[d].pc = "stop" /\ req'[d].pc = "unhold" /\ req'[d].n = req[d].n
                           /\ req[d].n \in Nums => ctr'[req[d].n].st # "running"
    BY <1>3
  <1>5. \A d \in Cmds : proc'[d] = NoProc \/ (proc'[d] = proc[d] /\ proc[d].box \notin nobody)
    BY <1>2
  <1>6. live /\ 0 \notin nobody => live'
    <2>1. CASE BoxUp
      BY <2>1 DEF BoxUp
    <2>2. CASE ~BoxUp
      BY <2>2 DEF StartHub, BeginSweep, SweepEnd, HubExit
    <2>3. QED
      BY <2>1, <2>2
  <1>7. /\ \A n \in Nums : Running(n) /\ n \notin nobody => Running(n)'
        /\ \A n \in Nums : Running(n)' => Running(n) /\ ctr'[n].of = ctr[n].of
        /\ \A n \in Nums : ctr'[n].of \in {ctr[n].of, None}
    BY <1>2 DEF Running
  <1>8. \A x \in Places : Exists(x) => disk'[x].st # "none" /\ disk'[x].named = disk[x].named
    BY <1>2 DEF Exists
  <1> HIDE DEF nobody
  <1>9. QED
    BY <1>4, <1>5, <1>6, <1>7, <1>8, EndsWord

-----------------------------------------------------------------------------
(* The commands keep the lists of others *)

LEMMA ActorWord ==
  ASSUME CInv, NEW d \in Cmds, NEW e \in Commands, NEW f \in Requests, NEW N,
         proc' = [proc EXCEPT ![d] = e], req' = [req EXCEPT ![d] = f],
         UNCHANGED <<live, ctr>>, Stays,
         \A n \in Nums : n = e.n \/ n = f.n \/ (\E p \in e.all : p[2] = n) => n \in Holds(d) \cup N,
         \A x \in Places : disk'[x] = disk[x] \/ x[2] \in Holds(d),
         \A c \in Cmds : c # d /\ Lists(c) /\ HasHome(proc[c].box) =>
           \A x \in Listed(c) : x[2] \notin N,
         e.pc \notin ListPcs \/ Word(d)'
  PROVE  Keeps
  <1>1. TypeOK /\ Housed /\ WordInv
    BY DEF CInv, IInv
  <1>2. /\ proc'[d] = e /\ req'[d] = f
        /\ \A c \in Cmds : c # d => proc'[c] = proc[c] /\ req'[c] = req[c]
    BY <1>1, Types, OneMoves
  <1>3. \A n \in Nums : n \in Holds(d)' => n \in Holds(d) \cup N
    BY <1>2, InHolds
  <1>4. ASSUME NEW c \in Cmds, c # d
        PROVE  Word(c)'
    BY <1>1, <1>2, <1>3, <1>4, OthersWord DEF WordInv
  <1>5. Word(d)'
    BY <1>2 DEF Word, Lists
  <1>6. Housed'
    BY <1>1, HousedKept
  <1>7. QED
    BY <1>4, <1>5, <1>6 DEF Keeps, WordInv

LEMMA WriteMoves ==
  ASSUME TypeOK, NEW d \in Cmds, NEW p \in Places, NEW named,
         NEW st \in {"spawned", "failed", "running", "stopped"}, Write(d, p, st, named)
  PROVE  /\ Stays /\ disk'[p].st = st /\ disk'[p].named = named
         /\ \A x \in Places : x # p => disk'[x] = disk[x]
  BY Types DEF Write, Stays, Exists

\* The commands that start to launch, or that end.
LEMMA SpawnWord ==
  ASSUME CInv, NEW d \in Cmds, NEW b \in Boxes, Spawn(d, b)
  PROVE  Keeps
  <1>1. TypeOK /\ TreeInv /\ WordInv
    BY DEF CInv, IInv
  <1> DEFINE e == [NoProc EXCEPT !.pc = "make", !.op = "spawn", !.box = b, !.n = hub.next]
  <1>2. /\ proc' = [proc EXCEPT ![d] = e] /\ UNCHANGED <<live, disk, ctr, req>>
        /\ hub.next \in Nums /\ hub.pc # "down" /\ req[d] = NoReq
    BY DEF Spawn, Up, Free
  <1>3. e \in Commands /\ e.pc = "make" /\ e.n = hub.next /\ e.all = {}
    BY <1>2, Records DEF Commands, NoProc
  <1> HIDE DEF e
  <1>4. req[d] \in Requests /\ req' = [req EXCEPT ![d] = req[d]]
    BY <1>1, <1>2, NoReqMoves
  <1> DEFINE N == {hub.next}
  <1>5. \A c \in Cmds : c # d /\ Lists(c) /\ HasHome(proc[c].box) =>
          \A x \in Listed(c) : x[2] \notin N
    <2>1. \A p \in Places : Exists(p) => p[2] # hub.next
      BY <1>1, <1>2, PlaceParts DEF TreeInv, Counted, Nums
    <2>2. QED
      BY <1>1, <2>1, ListedPlaces DEF WordInv, Word, Apart
  <1>6. Stays
    BY <1>2 DEF Stays, Exists
  <1>7. \A n \in Nums : n = e.n \/ n = req[d].n \/ (\E p \in e.all : p[2] = n) =>
          n \in Holds(d) \cup N
    BY <1>3, InHolds
  <1>8. e.pc \notin ListPcs
    BY <1>3 DEF ListPcs
  <1>9. \A x \in Places : disk'[x] = disk[x] \/ x[2] \in Holds(d)
    BY <1>2
  <1>10. UNCHANGED <<live, ctr>>
    BY <1>2
  <1> HIDE DEF N
  <1>11. QED
    BY <1>2, <1>3, <1>4, <1>5, <1>6, <1>7, <1>8, <1>9, <1>10, ActorWord

LEMMA RespawnWord ==
  ASSUME CInv, NEW d \in Cmds, NEW b \in Boxes, NEW m \in Nums, Respawn(d, b, m)
  PROVE  Keeps
  <1>1. TypeOK /\ TreeInv /\ WordInv
    BY DEF CInv, IInv
  <1> DEFINE e == [NoProc EXCEPT !.pc = "ask", !.op = "respawn", !.box = b, !.n = m,
                                 !.named = disk[<<b, m>>].named]
  <1>2. /\ proc' = [proc EXCEPT ![d] = e] /\ UNCHANGED <<live, disk, ctr, req>>
        /\ <<b, m>> \in Places /\ Untouched({m})
    BY DEF Respawn
  <1>3. e \in Commands /\ e.pc = "ask" /\ e.n = m /\ e.all = {}
    BY <1>1, <1>2, Records, Types DEF Commands, Documents, NoProc
  <1> HIDE DEF e
  <1>4. req[d] \in Requests /\ req' = [req EXCEPT ![d] = req[d]]
    BY <1>1, <1>2, NoReqMoves
  <1> DEFINE N == {m}
  <1>5. \A c \in Cmds : c # d /\ Lists(c) /\ HasHome(proc[c].box) =>
          \A x \in Listed(c) : x[2] \notin N
    <2>1. \A c \in Cmds : m \notin Holds(c)
      BY <1>2 DEF Untouched
    <2>2. \A c \in Cmds : \A x \in Listed(c) : Listing(c) => x[2] \in Holds(c)
      BY <1>1, ListedPlaces, InHolds
    <2>3. QED
      BY <1>1, <2>1, <2>2 DEF WordInv, Word
  <1>6. Stays
    BY <1>2 DEF Stays, Exists
  <1>7. \A n \in Nums : n = e.n \/ n = req[d].n \/ (\E p \in e.all : p[2] = n) =>
          n \in Holds(d) \cup N
    BY <1>3, InHolds
  <1>8. e.pc \notin ListPcs
    BY <1>3 DEF ListPcs
  <1>9. \A x \in Places : disk'[x] = disk[x] \/ x[2] \in Holds(d)
    BY <1>2
  <1>10. UNCHANGED <<live, ctr>>
    BY <1>2
  <1> HIDE DEF N
  <1>11. QED
    BY <1>2, <1>3, <1>4, <1>5, <1>6, <1>7, <1>8, <1>9, <1>10, ActorWord

\* A command that works on what it held before.
LEMMA SameHoldsWord ==
  ASSUME CInv, NEW d \in Cmds, NEW e \in Commands, NEW f \in Requests,
         proc' = [proc EXCEPT ![d] = e], req' = [req EXCEPT ![d] = f],
         UNCHANGED <<live, ctr>>, Stays,
         \A n \in Nums : n \in {e.n, f.n} => n \in Holds(d),
         e.all \subseteq proc[d].all,
         \A x \in Places : disk'[x] = disk[x] \/ x[2] \in Holds(d),
         e.pc \notin ListPcs \/ Word(d)'
  PROVE  Keeps
  <1> DEFINE nobody == {}
  <1>1. \A n \in Nums : n = e.n \/ n = f.n \/ (\E p \in e.all : p[2] = n) =>
          n \in Holds(d) \cup nobody
    BY InHolds
  <1>2. \A c \in Cmds : c # d /\ Lists(c) /\ HasHome(proc[c].box) =>
          \A x \in Listed(c) : x[2] \notin nobody
    OBVIOUS
  <1> HIDE DEF nobody
  <1>3. QED
    BY <1>1, <1>2, ActorWord

LEMMA DropMoves ==
  ASSUME TypeOK, NEW d \in Cmds, Drop(d)
  PROVE  \E f \in Requests :
           /\ req' = [req EXCEPT ![d] = f]
           /\ f = NoReq \/ (f = req[d] /\ req[d].pc \notin Answers)
           /\ \A n \in Nums : n = f.n => n = req[d].n
  <1> DEFINE f == IF req[d].pc \in Answers THEN NoReq ELSE req[d]
  <1>1. f \in Requests /\ (f = NoReq \/ (f = req[d] /\ req[d].pc \notin Answers))
    BY Types, Records
  <1>2. req' = [req EXCEPT ![d] = f]
    BY DEF Drop
  <1>3. NoReq.n \notin Nums
    BY Numbers DEF NoReq
  <1>4. QED
    BY <1>1, <1>2, <1>3

LEMMA LaunchWord ==
  ASSUME CInv, NEW d \in Cmds, Make(d) \/ AskLaunch(d) \/ Launched(d) \/ NotLaunched(d)
  PROVE  Keeps
  <1>1. TypeOK /\ Shapes /\ Launching(d) /\ UNCHANGED <<live, ctr>>
    BY DEF CInv, IInv, Make, AskLaunch, Launched, NotLaunched, Launching, LaunchPcs
  <1>2. PICK h \in Places : h = <<proc[d].box, proc[d].n>>
    BY <1>1 DEF Shapes
  <1>3. h[2] = proc[d].n /\ h[2] \in Nums /\ h[2] \in Holds(d) /\ proc[d].n \in Holds(d)
    BY <1>2, PlaceParts, InHolds
  <1>4. Stays /\ \A x \in Places : disk'[x] = disk[x] \/ x[2] \in Holds(d)
    <2>1. CASE Make(d)
      BY <1>1, <1>2, <1>3, <2>1, Types DEF Make, Stays, Exists
    <2>2. CASE AskLaunch(d)
      BY <2>2 DEF AskLaunch, Stays, Exists
    <2>3. CASE Launched(d) \/ NotLaunched(d)
      <3>1. PICK st \in {"failed", "running", "stopped"} : \E named : Write(d, h, st, named)
        BY <1>2, <2>3 DEF Launched, NotLaunched
      <3>2. PICK named : Write(d, h, st, named)
        BY <3>1
      <3>3. QED
        BY <1>1, <1>3, <3>2, WriteMoves
    <2>4. QED
      BY <2>1, <2>2, <2>3
  <1>5. PICK e \in Commands :
          /\ proc' = [proc EXCEPT ![d] = e] /\ e.pc \notin ListPcs /\ e.all \subseteq proc[d].all
          /\ \A n \in Nums : n = e.n => n \in Holds(d)
    <2>1. NoProc.pc \notin ListPcs /\ NoProc.all = {} /\ NoProc.n \notin Nums
      BY Numbers DEF NoProc, ListPcs
    <2>2. CASE Make(d)
      <3> DEFINE e == [proc[d] EXCEPT !.pc = "ask"]
      <3>1. e \in Commands /\ e.pc = "ask" /\ e.n = proc[d].n /\ e.all = proc[d].all
        BY <1>1, Types DEF Commands
      <3>2. proc' = [proc EXCEPT ![d] = e]
        BY <2>2 DEF Make
      <3>3. QED
        BY <1>3, <3>1, <3>2 DEF ListPcs
    <2>3. CASE AskLaunch(d)
      <3> DEFINE e == [proc[d] EXCEPT !.pc = "wait"]
      <3>1. e \in Commands /\ e.pc = "wait" /\ e.n = proc[d].n /\ e.all = proc[d].all
        BY <1>1, Types DEF Commands
      <3>2. proc' = [proc EXCEPT ![d] = e]
        BY <2>3 DEF AskLaunch
      <3>3. QED
        BY <1>3, <3>1, <3>2 DEF ListPcs
    <2>4. CASE Launched(d) \/ NotLaunched(d)
      BY <2>1, <2>4, Records DEF Launched, NotLaunched, End
    <2>5. QED
      BY <2>2, <2>3, <2>4
  <1>6. PICK f \in Requests :
          req' = [req EXCEPT ![d] = f] /\ \A n \in Nums : n = f.n => n \in Holds(d)
    <2>1. NoReq.n \notin Nums
      BY Numbers DEF NoReq
    <2>2. CASE Make(d)
      BY <1>1, <2>2, NoReqMoves, InHolds DEF Make
    <2>3. CASE AskLaunch(d)
      <3> DEFINE f == [pc |-> "reserve", n |-> proc[d].n, of |-> proc[d].box, held |-> FALSE]
      <3>1. f \in Requests /\ f.n = proc[d].n
        BY <1>2, <1>3, PlaceParts DEF Requests, Works
      <3>2. req' = [req EXCEPT ![d] = f]
        BY <2>3 DEF AskLaunch
      <3>3. QED
        BY <1>3, <3>1, <3>2
    <2>4. CASE Launched(d)
      BY <2>1, <2>4, Records DEF Launched
    <2>5. CASE NotLaunched(d)
      BY <1>1, <2>5, DropMoves, InHolds DEF NotLaunched
    <2>6. QED
      BY <2>2, <2>3, <2>4, <2>5
  <1>7. \A n \in Nums : n \in {e.n, f.n} => n \in Holds(d)
    BY <1>5, <1>6
  <1>8. QED
    BY <1>1, <1>4, <1>5, <1>6, <1>7, SameHoldsWord

LEMMA DieWord ==
  ASSUME CInv, NEW d \in Cmds, Die(d)
  PROVE  Keeps
  <1>1. TypeOK /\ UNCHANGED <<live, disk, ctr>> /\ proc' = [proc EXCEPT ![d] = NoProc]
    BY DEF CInv, IInv, Die, End
  <1>2. PICK f \in Requests :
          req' = [req EXCEPT ![d] = f] /\ \A n \in Nums : n = f.n => n = req[d].n
    BY <1>1, DropMoves DEF Die
  <1>3. NoProc.pc \notin ListPcs /\ NoProc.all = {} /\ NoProc.n \notin Nums
    BY Numbers DEF NoProc, ListPcs
  <1>4. \A n \in Nums : n \in {NoProc.n, f.n} => n \in Holds(d)
    BY <1>2, <1>3, InHolds
  <1>5. Stays /\ \A x \in Places : disk'[x] = disk[x] \/ x[2] \in Holds(d)
    BY <1>1 DEF Stays, Exists
  <1>6. QED
    BY <1>1, <1>2, <1>3, <1>4, <1>5, Records, SameHoldsWord

-----------------------------------------------------------------------------
(* A command keeps its own list *)

\* One helper less to ask about; what was kept or blind stays so.
DoneTo(d, p, e) ==
  /\ proc' = [proc EXCEPT ![d] = e]
  /\ e.pc = "each" /\ e.op = proc[d].op /\ e.box = proc[d].box /\ e.n = proc[d].n
  /\ e.all = proc[d].all /\ e.todo = proc[d].todo \ {p}
  /\ proc[d].kept => e.kept
  /\ proc[d].blind => e.blind

LEMMA DoneIs ==
  ASSUME TypeOK, NEW d \in Cmds, NEW p, NEW kept \in BOOLEAN, NEW blind \in BOOLEAN,
         Done(d, p, kept, blind)
  PROVE  \E e \in Commands : DoneTo(d, p, e) /\ (kept => e.kept) /\ (blind => e.blind)
  <1> DEFINE e == [proc[d] EXCEPT !.pc = "each", !.todo = @ \ {p}, !.kept = @ \/ kept,
                                  !.blind = @ \/ blind]
  <1>1. proc[d] \in Commands /\ proc \in [Cmds -> Commands]
    BY Types
  <1>2. proc' = [proc EXCEPT ![d] = e]
    BY <1>1 DEF Done, Commands
  <1>3. (proc[d].kept \/ kept) \in BOOLEAN /\ (proc[d].blind \/ blind) \in BOOLEAN
    OBVIOUS
  <1>4. /\ e \in Commands /\ e.pc = "each" /\ e.op = proc[d].op
        /\ e.box = proc[d].box /\ e.n = proc[d].n /\ e.all = proc[d].all
        /\ e.todo = proc[d].todo \ {p}
        /\ (proc[d].kept \/ kept => e.kept) /\ (proc[d].blind \/ blind => e.blind)
    BY <1>1, <1>3 DEF Commands
  <1> HIDE DEF e
  <1>5. QED
    BY <1>2, <1>4 DEF DoneTo

\* One more helper of the list is done with: it was asked about, or nobody could.
LEMMA AskedWord ==
  ASSUME CInv, NEW d \in Cmds, NEW p \in Places, NEW e \in Commands,
         Next1(d, p), DoneTo(d, p, e),
         UNCHANGED <<live, ctr>>, Stays, \A x \in Places : x # p => disk'[x] = disk[x],
         NEW f \in Requests, req' = [req EXCEPT ![d] = f], f = NoReq \/ f = req[d],
         e.op # "stop" /\ ~e.kept /\ ~e.blind /\ Runs(p) => ~disk'[p].named
  PROVE  Keeps
  <1>1. TypeOK /\ Housed /\ Word(d) /\ Lists(d) /\ HasHome(proc[d].box)
    BY DEF CInv, IInv, WordInv, Next1, Lists, ListPcs
  <1>2. Listing(d) /\ Apart(d) /\ Told(d)
    BY <1>1 DEF Word
  <1>3. /\ proc' = [proc EXCEPT ![d] = e]
        /\ e.pc = "each" /\ e.op = proc[d].op /\ e.box = proc[d].box /\ e.n = proc[d].n
        /\ e.all = proc[d].all /\ e.todo = proc[d].todo \ {p}
        /\ (proc[d].kept => e.kept) /\ (proc[d].blind => e.blind)
    BY DEF DoneTo
  <1>4. /\ proc'[d] = e /\ req'[d] = f
        /\ \A c \in Cmds : c # d => proc'[c] = proc[c] /\ req'[c] = req[c]
    BY <1>1, <1>3, Types, OneMoves
  <1>5. NoReq.n \notin Nums /\ NoReq.pc = "none" /\ NoReq.pc \in StopPcs
    BY Numbers DEF NoReq, StopPcs
  <1>6. /\ proc[d].pc \in {"each", "asked"} /\ p \in proc[d].todo
        /\ \A q \in proc[d].todo : q[1] # p[2]
    BY DEF Next1, Deepest
  <1>7. p \in proc[d].all /\ p[2] \in Nums /\ p[2] \in Holds(d)
    <2>1. p \in proc[d].all /\ p[2] \in Nums
      BY <1>2, <1>6, PlaceParts DEF Listing
    <2>2. QED
      BY <2>1, InHolds
  <1>8. Listing(d)'
    <2>1. proc'[d].pc # "remove" /\ proc'[d].pc # "asked"
      BY <1>3, <1>4
    <2>2. proc'[d].box \in Boxes /\ Alive(proc[d].box)'
      BY <1>2, <1>3, <1>4 DEF Listing, Alive, Running
    <2>3. proc'[d].todo \subseteq proc'[d].all
      BY <1>2, <1>3, <1>4 DEF Listing
    <2>4. req'[d].pc \in StopPcs
      BY <1>2, <1>4, <1>5 DEF Listing
    <2>5. \A z \in proc'[d].all : z[1] = proc'[d].box \/ \E w \in proc'[d].all : w[2] = z[1]
      BY <1>2, <1>3, <1>4 DEF Listing
    <2>6. QED
      BY <2>1, <2>2, <2>3, <2>4, <2>5 DEF Listing
  <1>9. Apart(d)'
    <2>1. Listed(d)' = proc[d].all /\ Listed(d) = proc[d].all
      <3>1. proc[d].pc # "remove" /\ proc'[d].pc # "remove"
        BY <1>3, <1>4, <1>6
      <3>2. QED
        BY <1>3, <1>4, <3>1 DEF Listed
    <2>2. ASSUME NEW x \in proc[d].all
          PROVE  disk'[x].st # "none" /\ \A c \in Cmds \ {d} : x[2] \notin Holds(c)'
      <3>1. x \in Places /\ x[2] \in Nums
        BY <1>1, <2>1, ListedPlaces
      <3>2. Exists(x) /\ \A c \in Cmds \ {d} : x[2] \notin Holds(c)
        BY <1>2, <2>1 DEF Apart
      <3>3. QED
        BY <1>4, <3>1, <3>2, InHolds DEF Stays
    <2>3. QED
      BY <2>1, <2>2 DEF Apart, Exists
  <1>10. Told(d)'
    <2>1. Cleared(d)' = Cleared(d) \cup {p} /\ Cleared(d) \subseteq Places
      <3>1. p \in proc[d].all
        BY <1>2, <1>6 DEF Listing
      <3>2. Cleared(d)' = proc[d].all \ (proc[d].todo \ {p})
        BY <1>3, <1>4 DEF Cleared
      <3>3. Cleared(d) = proc[d].all \ proc[d].todo
        BY <1>6 DEF Cleared
      <3>4. QED
        BY <1>1, <3>1, <3>2, <3>3, ListedPlaces
    <2>2. ASSUME proc'[d].op # "stop", ~proc'[d].kept, ~proc'[d].blind,
                 NEW x \in Cleared(d)', Runs(x)'
          PROVE  ~disk'[x].named
      <3>1. /\ proc[d].op # "stop" /\ ~proc[d].kept /\ ~proc[d].blind
            /\ e.op # "stop" /\ ~e.kept /\ ~e.blind
        BY <1>3, <1>4, <2>2
      <3>2. Runs(x)
        BY <2>2 DEF Runs, Running
      <3>3. CASE x = p
        BY <3>1, <3>2, <3>3
      <3>4. CASE x # p
        BY <1>2, <2>1, <2>2, <3>1, <3>2, <3>4 DEF Told
      <3>5. QED
        BY <3>3, <3>4
    <2>3. proc'[d].pc # "asked"
      BY <1>3, <1>4
    <2>4. QED
      BY <2>2, <2>3 DEF Told
  <1>11. Word(d)'
    BY <1>8, <1>9, <1>10 DEF Word
  <1>12. \A n \in Nums : n \in {e.n, f.n} => n \in Holds(d)
    BY <1>3, <1>5, InHolds
  <1>13. \A x \in Places : disk'[x] = disk[x] \/ x[2] \in Holds(d)
    BY <1>7
  <1>14. QED
    BY <1>3, <1>11, <1>12, <1>13, SameHoldsWord

LEMMA AskWord ==
  ASSUME CInv, NEW d \in Cmds, NEW p \in Places,
         Skip(d, p) \/ NoneToAsk(d, p) \/ Stopped(d, p) \/ Refused(d, p)
  PROVE  Keeps
  <1>1. TypeOK /\ Next1(d, p) /\ UNCHANGED <<live, ctr>>
    BY DEF CInv, IInv, Skip, NoneToAsk, Stopped, Refused
  <1>2. disk[p].named \in BOOLEAN /\ (req[d].pc \notin {"ok", "off"}) \in BOOLEAN
    BY <1>1, Types DEF Documents
  <1>3. Stays /\ \A x \in Places : x # p => disk'[x] = disk[x]
    <2>1. CASE Skip(d, p) \/ Refused(d, p)
      BY <2>1 DEF Skip, Refused, Stays, Exists
    <2>2. CASE NoneToAsk(d, p) \/ Stopped(d, p)
      BY <1>1, <2>2, WriteMoves DEF NoneToAsk, Stopped
    <2>3. QED
      BY <2>1, <2>2
  <1>4. PICK f \in Requests : req' = [req EXCEPT ![d] = f] /\ (f = NoReq \/ f = req[d])
    <2>1. CASE Skip(d, p) \/ NoneToAsk(d, p)
      BY <1>1, <2>1, NoReqMoves DEF Skip, NoneToAsk
    <2>2. CASE Stopped(d, p) \/ Refused(d, p)
      BY <1>1, <2>2, DropMoves DEF Stopped, Refused
    <2>3. QED
      BY <2>1, <2>2
  <1>5. CASE Skip(d, p)
    <2>1. Done(d, p, FALSE, FALSE) /\ proc[d].op = "stop"
      BY <1>5 DEF Skip
    <2>2. PICK e \in Commands : DoneTo(d, p, e)
      BY <1>1, <2>1, DoneIs
    <2>3. QED
      BY <1>1, <1>3, <1>4, <2>1, <2>2, AskedWord DEF DoneTo
  <1>6. CASE NoneToAsk(d, p)
    <2>1. disk'[p].named = disk[p].named
      BY <1>1, <1>6, WriteMoves DEF NoneToAsk
    <2>2. Done(d, p, FALSE, disk[p].named)
      BY <1>6 DEF NoneToAsk
    <2>3. PICK e \in Commands : DoneTo(d, p, e) /\ (disk[p].named => e.blind)
      BY <1>1, <1>2, <2>2, DoneIs
    <2>4. QED
      BY <1>1, <1>3, <1>4, <2>1, <2>3, AskedWord
  <1>7. CASE Stopped(d, p)
    <2>1. /\ Done(d, p, FALSE, req[d].pc \notin {"ok", "off"}) /\ proc[d].pc = "asked"
          /\ proc[d].n = p[2]
      BY <1>7 DEF Stopped
    <2>2. PICK e \in Commands : DoneTo(d, p, e) /\ (req[d].pc \notin {"ok", "off"} => e.blind)
      BY <1>1, <1>2, <2>1, DoneIs
    <2>3. req[d].pc \in {"ok", "off"} => ~Runs(p)
      <3>1. Told(d)
        BY <1>1 DEF CInv, WordInv, Word, Lists, ListPcs, Next1
      <3>2. QED
        BY <2>1, <3>1 DEF Told, DonePcs, Runs
    <2>4. QED
      BY <1>1, <1>3, <1>4, <2>2, <2>3, AskedWord
  <1>8. CASE Refused(d, p)
    <2>1. Done(d, p, TRUE, FALSE)
      BY <1>8 DEF Refused
    <2>2. PICK e \in Commands : DoneTo(d, p, e) /\ e.kept
      BY <1>1, <2>1, DoneIs
    <2>3. QED
      BY <1>1, <1>3, <1>4, <2>2, AskedWord
  <1>9. QED
    BY <1>5, <1>6, <1>7, <1>8

LEMMA AskStopWord ==
  ASSUME CInv, NEW d \in Cmds, NEW p \in Places, AskStop(d, p)
  PROVE  Keeps
  <1>1. /\ TypeOK /\ Word(d) /\ Lists(d) /\ HasHome(proc[d].box)
        /\ proc[d].pc = "each" /\ p \in proc[d].todo /\ UNCHANGED <<live, disk, ctr>>
    BY DEF CInv, IInv, WordInv, AskStop, Next1, Deepest, Lists, ListPcs
  <1>2. Listing(d) /\ Apart(d) /\ Told(d)
    BY <1>1 DEF Word
  <1> DEFINE e == [proc[d] EXCEPT !.pc = "asked", !.n = p[2], !.named = TRUE]
             f == [NoReq EXCEPT !.pc = "lookup", !.n = p[2]]
  <1>3. /\ e \in Commands /\ e.pc = "asked" /\ e.n = p[2] /\ e.op = proc[d].op
        /\ e.box = proc[d].box /\ e.all = proc[d].all /\ e.todo = proc[d].todo
        /\ e.kept = proc[d].kept /\ e.blind = proc[d].blind
    BY <1>1, Types, PlaceParts DEF Commands
  <1>4. f \in Requests /\ f.pc = "lookup" /\ f.n = p[2]
    BY Records, PlaceParts DEF Requests, Works
  <1>5. proc' = [proc EXCEPT ![d] = e] /\ req' = [req EXCEPT ![d] = f]
    BY DEF AskStop
  <1> HIDE DEF e, f
  <1>6. /\ proc'[d] = e /\ req'[d] = f
        /\ \A c \in Cmds : c # d => proc'[c] = proc[c] /\ req'[c] = req[c]
    BY <1>1, <1>3, <1>4, <1>5, Types, OneMoves
  <1>7. Listing(d)'
    <2>1. proc'[d].box \in Boxes /\ Alive(proc[d].box)' /\ req'[d].pc \in StopPcs
      BY <1>1, <1>2, <1>3, <1>4, <1>6 DEF Listing, Alive, Running, StopPcs
    <2>2. /\ proc'[d].todo \subseteq proc'[d].all
          /\ \A z \in proc'[d].all : z[1] = proc'[d].box \/ \E w \in proc'[d].all : w[2] = z[1]
      BY <1>2, <1>3, <1>6 DEF Listing
    <2>3. /\ \E x \in proc'[d].todo : x[2] = proc'[d].n
          /\ req'[d].n = proc'[d].n
      BY <1>1, <1>3, <1>4, <1>6
    <2>4. proc'[d].pc # "remove" /\ proc'[d].box = proc[d].box
      BY <1>3, <1>6
    <2>5. QED
      BY <2>1, <2>2, <2>3, <2>4 DEF Listing, Alive, Running
  <1>8. Listed(d)' = Listed(d) /\ Cleared(d)' = Cleared(d)
    <2>1. proc[d].pc # "remove" /\ proc'[d].pc # "remove"
      BY <1>1, <1>3, <1>6
    <2>2. QED
      BY <1>3, <1>6, <2>1 DEF Listed, Cleared
  <1>9. Apart(d)'
    <2>1. ASSUME NEW x \in Listed(d)
          PROVE  Exists(x)' /\ \A c \in Cmds \ {d} : x[2] \notin Holds(c)'
      <3>1. x[2] \in Nums /\ Exists(x) /\ \A c \in Cmds \ {d} : x[2] \notin Holds(c)
        BY <1>1, <1>2, ListedPlaces DEF Apart
      <3>2. QED
        BY <1>1, <1>6, <3>1, InHolds DEF Exists
    <2>2. QED
      BY <1>8, <2>1 DEF Apart, Exists
  <1>10. Told(d)'
    <2>1. req'[d].pc \notin DonePcs
      BY <1>4, <1>6 DEF DonePcs
    <2>2. QED
      BY <1>1, <1>2, <1>3, <1>6, <1>8, <2>1 DEF Told, Runs, Running
  <1>11. Word(d)'
    BY <1>7, <1>9, <1>10 DEF Word
  <1>12. p[2] \in Nums /\ p[2] \in Holds(d)
    <2>1. p \in proc[d].all /\ p[2] \in Nums
      BY <1>1, <1>2, PlaceParts DEF Listing
    <2>2. QED
      BY <2>1, InHolds
  <1>13. \A n \in Nums : n \in {e.n, f.n} => n \in Holds(d)
    BY <1>3, <1>4, <1>12
  <1>14. Stays /\ \A x \in Places : disk'[x] = disk[x] \/ x[2] \in Holds(d)
    BY <1>1 DEF Stays, Exists
  <1>15. UNCHANGED <<live, ctr>> /\ e.all \subseteq proc[d].all
    BY <1>1, <1>3
  <1>16. QED
    BY <1>3, <1>4, <1>5, <1>11, <1>13, <1>14, <1>15, SameHoldsWord

LEMMA AllAskedWord ==
  ASSUME CInv, NEW d \in Cmds, AllAsked(d)
  PROVE  Keeps
  <1>1. /\ TypeOK /\ Word(d) /\ Lists(d) /\ proc[d].pc = "each" /\ proc[d].todo = {}
        /\ UNCHANGED <<live, disk, ctr, req>>
    BY DEF CInv, IInv, WordInv, AllAsked, Lists, ListPcs
  <1>2. Listing(d) /\ (HasHome(proc[d].box) => Apart(d) /\ Told(d))
    BY <1>1 DEF Word
  <1>3. Stays /\ \A x \in Places : disk'[x] = disk[x] \/ x[2] \in Holds(d)
    BY <1>1 DEF Stays, Exists
  <1>4. req[d] \in Requests /\ req' = [req EXCEPT ![d] = req[d]]
    BY <1>1, NoReqMoves
  <1>5. CASE proc[d].op = "stop" \/ proc[d].kept
    <2>1. proc' = [proc EXCEPT ![d] = NoProc]
      BY <1>5 DEF AllAsked, End
    <2>2. NoProc.pc \notin ListPcs /\ NoProc.all = {} /\ NoProc.n \notin Nums
      BY Numbers DEF NoProc, ListPcs
    <2>3. \A n \in Nums : n \in {NoProc.n, req[d].n} => n \in Holds(d)
      BY <2>2, InHolds
    <2>4. QED
      BY <1>1, <1>3, <1>4, <2>1, <2>2, <2>3, Records, SameHoldsWord
  <1>6. CASE ~(proc[d].op = "stop" \/ proc[d].kept)
    <2> DEFINE e == [proc[d] EXCEPT !.pc = "remove", !.todo = @ \cup proc[d].all]
    <2>1. /\ e \in Commands /\ e.pc = "remove" /\ e.n = proc[d].n /\ e.op = proc[d].op
          /\ e.box = proc[d].box /\ e.all = proc[d].all /\ e.todo = proc[d].all
          /\ e.kept = proc[d].kept /\ e.blind = proc[d].blind
      BY <1>1, Types DEF Commands
    <2>2. proc' = [proc EXCEPT ![d] = e]
      <3>1. proc[d] \in Commands /\ proc \in [Cmds -> Commands]
        BY <1>1, Types
      <3>2. QED
        BY <1>6, <3>1 DEF AllAsked, Commands
    <2> HIDE DEF e
    <2>3. /\ proc'[d] = e /\ \A c \in Cmds : c # d => proc'[c] = proc[c]
      BY <1>1, <2>1, <2>2, Types, OneMoves
    <2>4. Listing(d)'
      <3>1. proc'[d].box \in Boxes /\ Alive(proc[d].box)' /\ req'[d].pc \in StopPcs
        BY <1>1, <1>2, <2>1, <2>3 DEF Listing, Alive, Running
      <3>2. /\ proc'[d].todo = proc'[d].all
            /\ \A z \in proc'[d].all : z[1] = proc'[d].box \/ \E w \in proc'[d].all : w[2] = z[1]
        BY <1>2, <2>1, <2>3 DEF Listing
      <3>3. /\ proc'[d].pc # "asked" /\ proc'[d].box = proc[d].box
            /\ proc'[d].op # "stop" /\ ~proc'[d].kept
        BY <1>6, <2>1, <2>3
      <3>4. QED
        BY <3>1, <3>2, <3>3 DEF Listing, Alive, Running
    <2>5. Listed(d)' = Listed(d) /\ Cleared(d)' = Cleared(d)
      <3>1. proc[d].pc # "remove" /\ proc'[d].pc = "remove"
        BY <1>1, <2>1, <2>3
      <3>2. QED
        BY <1>1, <2>1, <2>3, <3>1 DEF Listed, Cleared
    <2>6. ASSUME HasHome(proc[d].box)
          PROVE  Apart(d)' /\ Told(d)'
      <3>1. ASSUME NEW x \in Listed(d)
            PROVE  Exists(x)' /\ \A c \in Cmds \ {d} : x[2] \notin Holds(c)'
        <4>1. x[2] \in Nums /\ Exists(x) /\ \A c \in Cmds \ {d} : x[2] \notin Holds(c)
          BY <1>1, <1>2, <2>6, ListedPlaces DEF Apart
        <4>2. QED
          BY <1>1, <2>3, <4>1, InHolds DEF Exists
      <3>2. Apart(d)'
        BY <2>5, <3>1 DEF Apart, Exists
      <3>3. Told(d)'
        BY <1>1, <1>2, <2>1, <2>3, <2>5, <2>6 DEF Told, Runs, Running
      <3>4. QED
        BY <3>2, <3>3
    <2>7. HasHome(proc[d].box)' => HasHome(proc[d].box)
      BY <1>1, <2>1, <2>3 DEF HasHome
    <2>8. Word(d)'
      BY <2>4, <2>6, <2>7 DEF Word
    <2>9. \A n \in Nums : n \in {e.n, req[d].n} => n \in Holds(d)
      BY <2>1, InHolds
    <2>10. QED
      BY <1>1, <1>3, <1>4, <2>1, <2>2, <2>8, <2>9, SameHoldsWord
  <1>7. QED
    BY <1>5, <1>6

LEMMA StopOrCleanupWord ==
  ASSUME CInv, NEW d \in Cmds, NEW b \in Boxes, NEW m \in Nums,
         NEW op \in {"stop", "cleanup"}, StopOrCleanup(d, b, m, op)
  PROVE  Keeps
  <1> DEFINE t == Subtree(<<b, m>>)
             e == [NoProc EXCEPT !.pc = "each", !.op = op, !.box = b, !.n = m,
                                 !.todo = t, !.all = t]
             N == {p[2] : p \in t}
  <1>1. /\ TypeOK /\ WordInv /\ req[d] = NoReq /\ Alive(b) /\ HasHome(b)
        /\ <<b, m>> \in Places /\ Exists(<<b, m>>) /\ UNCHANGED <<live, disk, ctr, req>>
        /\ proc' = [proc EXCEPT ![d] = e] /\ Untouched(N)
    BY DEF CInv, IInv, StopOrCleanup, Free
  <1>2. /\ t \subseteq Places /\ <<b, m>> \in t
        /\ \A z \in t : z = <<b, m>> \/ (Exists(z) /\ \E w \in t : w[2] = z[1])
    BY <1>1, SubtreeLeast, SubtreeLinked
  <1>3. \A z \in t : Exists(z)
    BY <1>1, <1>2
  <1>4. \A z \in t : z[1] = b \/ \E w \in t : w[2] = z[1]
    BY <1>2
  <1> HIDE DEF t
  <1>5. /\ e \in Commands /\ e.pc = "each" /\ e.box = b /\ e.n = m /\ e.todo = t /\ e.all = t
    BY <1>2, Records DEF Commands, NoProc
  <1> HIDE DEF e
  <1>6. /\ proc'[d] = e /\ req' = req /\ \A c \in Cmds : c # d => proc'[c] = proc[c]
    BY <1>1, <1>5, Types, OneMoves
  <1>7. NoReq.n \notin Nums /\ NoReq.pc = "none" /\ NoReq.pc \in StopPcs
        /\ NoReq.pc \notin DonePcs
    BY Numbers DEF NoReq, StopPcs, DonePcs
  <1>8. \A c \in Cmds : \A n \in N : n \notin Holds(c)
    BY <1>1 DEF Untouched
  <1>9. \A x \in t : x[2] \in N /\ x[2] \in Nums /\ x \in Places
    BY <1>2, PlaceParts
  <1>10. Listing(d)'
    <2>1. Alive(b)' /\ proc'[d].box = b /\ req'[d].pc \in StopPcs
      BY <1>1, <1>5, <1>6, <1>7 DEF Alive, Running
    <2>2. proc'[d].pc # "remove" /\ proc'[d].pc # "asked" /\ proc'[d].todo \subseteq proc'[d].all
      BY <1>5, <1>6
    <2>3. \A z \in proc'[d].all : z[1] = proc'[d].box \/ \E w \in proc'[d].all : w[2] = z[1]
      BY <1>4, <1>5, <1>6
    <2>4. QED
      BY <2>1, <2>2, <2>3 DEF Listing, Alive, Running
  <1>11. Apart(d)'
    <2>1. Listed(d)' = t
      BY <1>5, <1>6 DEF Listed
    <2>2. ASSUME NEW x \in t
          PROVE  Exists(x)' /\ \A c \in Cmds \ {d} : x[2] \notin Holds(c)'
      <3>1. x[2] \in Nums /\ Exists(x) /\ \A c \in Cmds \ {d} : x[2] \notin Holds(c)
        BY <1>3, <1>8, <1>9
      <3>2. QED
        BY <1>1, <1>6, <3>1, InHolds DEF Exists
    <2>3. QED
      BY <2>1, <2>2 DEF Apart, Exists
  <1>12. Told(d)'
    <2>1. Cleared(d)' = {} /\ proc'[d].pc # "asked"
      BY <1>5, <1>6 DEF Cleared
    <2>2. QED
      BY <2>1 DEF Told
  <1>13. Word(d)'
    BY <1>10, <1>11, <1>12 DEF Word
  <1>14. Stays /\ \A x \in Places : disk'[x] = disk[x] \/ x[2] \in Holds(d)
    BY <1>1 DEF Stays, Exists
  <1>15. req[d] \in Requests /\ req' = [req EXCEPT ![d] = req[d]] /\ UNCHANGED <<live, ctr>>
    BY <1>1, NoReqMoves
  <1>16. \A c \in Cmds : c # d /\ Lists(c) /\ HasHome(proc[c].box) =>
           \A x \in Listed(c) : x[2] \notin N
    <2>1. \A c \in Cmds : \A x \in Listed(c) : Listing(c) => x[2] \in Holds(c)
      BY <1>1, ListedPlaces, InHolds
    <2>2. QED
      BY <1>1, <1>8, <2>1 DEF WordInv, Word
  <1>17. \A n \in Nums : n = e.n \/ n = req[d].n \/ (\E p \in e.all : p[2] = n) =>
           n \in Holds(d) \cup N
    <2>1. m \in N
      BY <1>2
    <2>2. QED
      BY <1>1, <1>5, <1>7, <2>1
  <1> HIDE DEF N
  <1>18. QED
    BY <1>1, <1>5, <1>13, <1>14, <1>15, <1>16, <1>17, ActorWord

\* A home goes, with those below it: the lists that are left know nothing of it,
\* and a command whose own box loses its home removes nothing any more.
RemoveTo(d, p) ==
  /\ TypeOK /\ OneHome /\ Housed /\ WordInv
  /\ Listing(d) /\ Apart(d) /\ Told(d) /\ p \in proc[d].todo
  /\ \A q \in proc[d].todo : q[1] # p[2]
  /\ proc[d].pc = "remove" /\ HasHome(proc[d].box) /\ Exists(p)
  /\ UNCHANGED <<live, req>>
  /\ \A x \in Places : disk'[x] = IF x \in Subtree(p) THEN NoHelper ELSE disk[x]
  /\ \A n \in Nums : /\ ctr'[n].st = ctr[n].st
                     /\ ctr'[n].of = IF <<ctr[n].of, n>> \in Subtree(p) THEN None ELSE ctr[n].of
  /\ \A c \in Cmds : c # d => proc'[c] = proc[c]
  /\ proc'[d] = NoProc \/
       /\ proc'[d].pc = "remove" /\ proc'[d].todo = proc[d].todo \ {p}
       /\ proc'[d].all = proc[d].all /\ proc'[d].box = proc[d].box /\ proc'[d].n = proc[d].n
       /\ proc'[d].op = proc[d].op /\ proc'[d].kept = proc[d].kept
       /\ proc'[d].blind = proc[d].blind

LEMMA RemoveIs ==
  ASSUME CInv, NEW d \in Cmds, NEW p \in Places, Remove(d, p)
  PROVE  RemoveTo(d, p)
  <1>1. /\ TypeOK /\ OneHome /\ Housed /\ WordInv /\ Word(d) /\ Lists(d)
        /\ proc[d].pc = "remove" /\ HasHome(proc[d].box) /\ p \in proc[d].todo
        /\ \A q \in proc[d].todo : q[1] # p[2]
        /\ UNCHANGED <<live, req>>
    BY DEF CInv, IInv, TreeInv, WordInv, Remove, Deepest, Lists, ListPcs
  <1>2. Listing(d) /\ Apart(d) /\ Told(d) /\ Exists(p)
    BY <1>1 DEF Word, Apart, Listed
  <1>3. \A x \in Places : disk'[x] = IF x \in Subtree(p) THEN NoHelper ELSE disk[x]
    BY DEF Remove
  <1>4. \A n \in Nums :
          /\ ctr'[n].st = ctr[n].st
          /\ ctr'[n].of = IF <<ctr[n].of, n>> \in Subtree(p) THEN None ELSE ctr[n].of
    BY <1>1, Types DEF Remove, Containers
  <1>5. CASE proc[d].todo = {p}
    BY <1>1, <1>2, <1>3, <1>4, <1>5, Types DEF Remove, End, RemoveTo
  <1>6. CASE proc[d].todo # {p}
    <2> DEFINE e == [proc[d] EXCEPT !.todo = @ \ {p}]
    <2>1. /\ e \in Commands /\ e.pc = "remove" /\ e.todo = proc[d].todo \ {p}
          /\ e.all = proc[d].all /\ e.box = proc[d].box /\ e.n = proc[d].n
          /\ e.op = proc[d].op /\ e.kept = proc[d].kept /\ e.blind = proc[d].blind
      BY <1>1, Types DEF Commands
    <2>2. proc' = [proc EXCEPT ![d] = e]
      <3>1. proc[d] \in Commands /\ proc \in [Cmds -> Commands]
        BY <1>1, Types
      <3>2. QED
        BY <1>6, <3>1 DEF Remove, Commands
    <2> HIDE DEF e
    <2>3. /\ proc'[d] = e /\ \A c \in Cmds : c # d => proc'[c] = proc[c]
      BY <1>1, <2>1, <2>2, Types, OneMoves
    <2>4. QED
      BY <1>1, <1>2, <1>3, <1>4, <2>1, <2>3 DEF RemoveTo
  <1>7. QED
    BY <1>5, <1>6

\* A box that keeps its home had it all along, and it is not below the removed one.
LEMMA HomeStays ==
  ASSUME NEW d \in Cmds, NEW p \in Places, RemoveTo(d, p), NEW b \in Boxes, HasHome(b)'
  PROVE  HasHome(b) /\ ~(b \in Nums /\ <<ctr[b].of, b>> \in Subtree(p))
  BY Numbers DEF RemoveTo, HasHome

LEMMA RemoveRuns ==
  ASSUME NEW d \in Cmds, NEW p \in Places, RemoveTo(d, p)
  PROVE  /\ \A n \in Nums : Running(n)' <=> Running(n)
         /\ \A b \in Boxes : Alive(b)' <=> Alive(b)
  <1>1. \A n \in Nums : Running(n)' <=> Running(n)
    BY DEF RemoveTo, Running
  <1>2. live' = live
    BY DEF RemoveTo
  <1>3. QED
    BY <1>1, <1>2, Numbers DEF Alive

LEMMA RemoveOther ==
  ASSUME NEW d \in Cmds, NEW p \in Places, RemoveTo(d, p),
         NEW c \in Cmds, c # d, Lists(c)
  PROVE  Word(c)'
  <1>1. /\ TypeOK /\ OneHome /\ Housed /\ Word(c) /\ Apart(d) /\ p \in Listed(d)
        /\ p[2] \in Nums /\ Exists(p) /\ UNCHANGED <<live, req>>
        /\ \A e \in Cmds : e # d => proc'[e] = proc[e]
    BY PlaceParts DEF RemoveTo, WordInv, Listed
  <1>2. Listing(c)
    BY <1>1 DEF Word
  <1>3. PICK b \in Boxes : b = proc[c].box
    BY <1>2 DEF Listing
  <1>4. p[2] \notin Holds(c)
    BY <1>1 DEF Apart
  <1>5. \A z \in Listed(c) : z[1] = p[2] => z[1] = b
    <2> SUFFICES ASSUME NEW z \in Listed(c), z[1] = p[2], z[1] # b
                 PROVE  FALSE
      OBVIOUS
    <2>1. PICK w \in proc[c].all : w[2] = p[2]
      BY <1>1, <1>2, <1>3, ListedPlaces DEF Listing
    <2>2. QED
      BY <1>1, <1>4, <2>1, InHolds
  <1>6. Alive(b)' /\ req'[c].pc \in StopPcs
    BY <1>1, <1>2, <1>3, RemoveRuns DEF Listing
  <1>7. ASSUME HasHome(b)'
        PROVE  HasHome(b) /\ Spared(c)
    <2>1. HasHome(b) /\ ~(b \in Nums /\ <<ctr[b].of, b>> \in Subtree(p))
      BY <1>7, HomeStays
    <2>2. Apart(c)
      BY <1>1, <1>3, <2>1 DEF Word
    <2> SUFFICES ASSUME NEW x \in Listed(c)
                 PROVE  /\ disk'[x].st # "none" /\ (disk'[x].named => disk[x].named)
                        /\ Running(x[2])' => Running(x[2]) /\ ctr'[x[2]].of \in {ctr[x[2]].of, None}
                        /\ \A e \in Cmds \ {c} : x[2] \notin Holds(e)'
      BY <2>1 DEF Spared
    <2>3. x \in Places /\ x[2] \in Nums /\ Exists(x) /\ \A e \in Cmds \ {c} : x[2] \notin Holds(e)
      BY <1>1, <2>2, ListedPlaces DEF Apart
    <2>4. x \notin Subtree(p)
      <3>1. p[2] \in Holds(d)
        <4>1. p \in proc[d].todo /\ Listing(d)
          BY DEF RemoveTo
        <4>2. QED
          BY <1>1, <4>1, InHolds DEF Listing
      <3>2. x # p
        BY <2>3, <3>1
      <3>3. QED
        BY <1>1, <1>3, <1>5, <2>1, <3>2, TakesListed
    <2>5. disk'[x] = disk[x]
      BY <2>3, <2>4 DEF RemoveTo
    <2>6. Running(x[2])' => Running(x[2]) /\ ctr'[x[2]].of \in {ctr[x[2]].of, None}
      BY <2>3 DEF RemoveTo, Running
    <2>7. ASSUME NEW e \in Cmds \ {c}
          PROVE  x[2] \notin Holds(e)'
      <3>1. x[2] \notin Holds(e)
        BY <2>3
      <3>2. CASE e # d
        BY <1>1, <2>3, <3>1, <3>2, InHolds
      <3>3. CASE e = d
        <4>1. NoProc.all = {} /\ NoProc.n \notin Nums
          BY Numbers DEF NoProc
        <4>2. proc'[d] = NoProc \/ (proc'[d].all = proc[d].all /\ proc'[d].n = proc[d].n)
          BY DEF RemoveTo
        <4>3. QED
          BY <1>1, <2>3, <3>1, <3>3, <4>1, <4>2, InHolds
      <3>4. QED
        BY <3>2, <3>3
    <2>8. QED
      BY <2>3, <2>5, <2>6, <2>7 DEF Exists
  <1>8. QED
    BY <1>1, <1>2, <1>3, <1>6, <1>7, QuietWord

LEMMA RemoveOwn ==
  ASSUME NEW d \in Cmds, NEW p \in Places, RemoveTo(d, p), Lists(d)'
  PROVE  Word(d)'
  <1>1. /\ TypeOK /\ OneHome /\ Housed /\ Word(d) /\ Lists(d) /\ Listing(d) /\ Apart(d)
        /\ Told(d) /\ Exists(p) /\ proc[d].pc = "remove" /\ UNCHANGED <<live, req>>
        /\ \A c \in Cmds : c # d => proc'[c] = proc[c]
        /\ \A q \in proc[d].todo : q[1] # p[2]
    BY DEF RemoveTo, WordInv, Lists, ListPcs
  <1>2. /\ proc'[d].pc = "remove" /\ proc'[d].todo = proc[d].todo \ {p}
        /\ proc'[d].all = proc[d].all /\ proc'[d].box = proc[d].box /\ proc'[d].n = proc[d].n
        /\ proc'[d].op = proc[d].op /\ proc'[d].kept = proc[d].kept
        /\ proc'[d].blind = proc[d].blind
    BY Records DEF RemoveTo, Lists, ListPcs
  <1>3. PICK b \in Boxes : b = proc[d].box
    BY <1>1 DEF Listing
  <1>4. Listing(d)'
    <2>1. Alive(b)' /\ req'[d].pc \in StopPcs /\ proc'[d].box = b
      BY <1>1, <1>2, <1>3, RemoveRuns DEF Listing
    <2>2. /\ proc'[d].todo \subseteq proc'[d].all
          /\ \A z \in proc'[d].all : z[1] = proc'[d].box \/ \E w \in proc'[d].all : w[2] = z[1]
      BY <1>1, <1>2 DEF Listing
    <2>3. proc'[d].op # "stop" /\ ~proc'[d].kept
      BY <1>1, <1>2 DEF Listing
    <2>4. \A w \in proc'[d].all \ proc'[d].todo, z \in proc'[d].todo : z[1] # w[2]
      BY <1>1, <1>2 DEF Listing
    <2>5. QED
      BY <1>2, <2>1, <2>2, <2>3, <2>4 DEF Listing, Alive, Running
  <1>5. /\ Listed(d) = proc[d].todo /\ Cleared(d) = proc[d].todo
        /\ Listed(d)' = proc[d].todo \ {p} /\ Cleared(d)' = proc[d].todo \ {p}
    BY <1>1, <1>2 DEF Listed, Cleared
  <1>6. ASSUME HasHome(b)', NEW x \in proc[d].todo \ {p}
        PROVE  /\ disk'[x] = disk[x] /\ Exists(x) /\ x[2] \in Nums /\ x \in Places
               /\ \A c \in Cmds \ {d} : x[2] \notin Holds(c)'
    <2>1. HasHome(b) /\ ~(b \in Nums /\ <<ctr[b].of, b>> \in Subtree(p))
      BY <1>6, HomeStays
    <2>2. /\ Exists(x) /\ x[2] \in Nums /\ x \in Places
          /\ \A c \in Cmds \ {d} : x[2] \notin Holds(c)
      BY <1>1, <1>5, ListedPlaces DEF Apart
    <2>3. x \notin Subtree(p)
      BY <1>1, <1>3, <1>5, <2>1, TakesListed
    <2>4. QED
      BY <1>1, <2>2, <2>3, InHolds DEF RemoveTo
  <1>7. ASSUME HasHome(b)'
        PROVE  Apart(d)' /\ Told(d)'
    <2>1. Apart(d)'
      BY <1>5, <1>6, <1>7 DEF Apart, Exists
    <2>2. ASSUME proc'[d].op # "stop", ~proc'[d].kept, ~proc'[d].blind,
                 NEW x \in Cleared(d)', Runs(x)'
          PROVE  ~disk'[x].named
      <3>1. x \in proc[d].todo \ {p}
        BY <1>5, <2>2
      <3>2. disk'[x] = disk[x] /\ x[2] \in Nums /\ x \in Places /\ x[1] # None
        BY <1>6, <1>7, <3>1, PlaceParts, Numbers
      <3>3. Runs(x)
        BY <2>2, <3>2 DEF Runs, Running, RemoveTo
      <3>4. QED
        BY <1>1, <1>2, <1>5, <2>2, <3>1, <3>2, <3>3 DEF Told
    <2>3. proc'[d].pc # "asked"
      BY <1>2
    <2>4. QED
      BY <2>1, <2>2, <2>3 DEF Told
  <1>8. QED
    BY <1>2, <1>3, <1>4, <1>7 DEF Word, HasHome

\* What CleanupHasTheWord says of a step.
HasTheWord ==
  \A p \in Places :
    Exists(p) /\ disk'[p].st = "none" /\ Running(p[2]) /\ ctr[p[2]].of = p[1] =>
      \E c \in Cmds :
        /\ proc[c].pc = "remove"
        /\ ~disk[p].named \/ proc[c].blind \/ p \notin proc[c].todo

LEMMA RemoveWord ==
  ASSUME CInv, NEW d \in Cmds, NEW p \in Places, Remove(d, p)
  PROVE  Housed' /\ WordInv' /\ HasTheWord
  <1>1. RemoveTo(d, p)
    BY RemoveIs
  <1>2. WordInv'
    <2>1. \A c \in Cmds : c # d /\ Lists(c) => Word(c)'
      BY <1>1, RemoveOther
    <2>2. Lists(d)' => Word(d)'
      BY <1>1, RemoveOwn
    <2>3. \A c \in Cmds : c # d /\ ~Lists(c) => Word(c)'
      BY <1>1 DEF RemoveTo, Word, Lists
    <2>4. ~Lists(d)' => Word(d)'
      BY DEF Word
    <2>5. QED
      BY <2>1, <2>2, <2>3, <2>4 DEF WordInv
  <1>3. Housed'
    <2> SUFFICES ASSUME NEW n \in Nums, ctr'[n].of # None
                 PROVE  <<ctr'[n].of, n>> \in Places /\ disk'[<<ctr'[n].of, n>>].st # "none"
      BY DEF Housed, Exists
    <2>1. ctr'[n].of = ctr[n].of /\ <<ctr[n].of, n>> \notin Subtree(p)
      BY <1>1 DEF RemoveTo
    <2>2. PICK x \in Places : x = <<ctr[n].of, n>> /\ Exists(x)
      BY <1>1, <2>1 DEF RemoveTo, Housed
    <2>3. disk'[x] = disk[x]
      BY <1>1, <2>1, <2>2 DEF RemoveTo
    <2>4. QED
      BY <2>1, <2>2, <2>3 DEF Exists
  <1>4. HasTheWord
    <2> SUFFICES ASSUME NEW x \in Places, Running(x[2]), ctr[x[2]].of = x[1],
                        disk[x].named, ~proc[d].blind, x \in proc[d].todo
                 PROVE  FALSE
      BY <1>1 DEF HasTheWord, RemoveTo
    <2>1. Listing(d) /\ Told(d) /\ proc[d].pc = "remove"
      BY <1>1 DEF RemoveTo
    <2>2. proc[d].op # "stop" /\ ~proc[d].kept /\ Cleared(d) = proc[d].todo
      BY <2>1 DEF Listing, Cleared
    <2>3. QED
      BY <2>1, <2>2 DEF Told, Runs
  <1>5. QED
    BY <1>2, <1>3, <1>4

LEMMA CInvStep ==
  ASSUME CInv, Next
  PROVE  CInv' /\ HasTheWord
  <1>1. Keeps => Housed' /\ WordInv' /\ HasTheWord
    BY DEF Keeps, Stays, HasTheWord
  <1>2. IInv'
    BY NextInv DEF CInv
  <1>3. ASSUME Lifetime
        PROVE  Keeps
    BY <1>3, BoxEndsWord, HubWord DEF Lifetime
  <1>4. ASSUME NEW c \in Cmds, Thread(c)
        PROVE  Keeps
    BY <1>4, ReserveWord, ClearExitedWord, RunWord, AnsweringWord, StopItWord DEF Thread
  <1>5. ASSUME NEW c \in Cmds, Command(c)
        PROVE  Housed' /\ WordInv' /\ HasTheWord
    <2>1. CASE \E p \in Places : Remove(c, p)
      BY <2>1, RemoveWord
    <2>2. CASE \E b \in Boxes : Spawn(c, b)
      BY <1>1, <2>2, SpawnWord
    <2>3. CASE \E b \in Boxes, n \in Nums : Respawn(c, b, n)
      BY <1>1, <2>3, RespawnWord
    <2>4. CASE \E b \in Boxes, n \in Nums :
                 StopOrCleanup(c, b, n, "stop") \/ StopOrCleanup(c, b, n, "cleanup")
      <3>1. PICK b \in Boxes, n \in Nums, op \in {"stop", "cleanup"} : StopOrCleanup(c, b, n, op)
        BY <2>4
      <3>2. QED
        BY <1>1, <3>1, StopOrCleanupWord
    <2>5. CASE \E p \in Places : AskStop(c, p)
      BY <1>1, <2>5, AskStopWord
    <2>6. CASE \E p \in Places : Skip(c, p) \/ NoneToAsk(c, p) \/ Stopped(c, p) \/ Refused(c, p)
      BY <1>1, <2>6, AskWord
    <2>7. CASE Make(c) \/ AskLaunch(c) \/ Launched(c) \/ NotLaunched(c)
      BY <1>1, <2>7, LaunchWord
    <2>8. CASE AllAsked(c) \/ Die(c)
      BY <1>1, <2>8, AllAskedWord, DieWord
    <2>9. QED
      BY <1>5, <2>1, <2>2, <2>3, <2>4, <2>5, <2>6, <2>7, <2>8 DEF Command
  <1>6. QED
    BY <1>1, <1>2, <1>3, <1>4, <1>5 DEF Next, CInv

LEMMA CInvAlways == Spec => []CInv
  <1>1. Init => CInv
    <2> SUFFICES ASSUME Init
                 PROVE  CInv
      OBVIOUS
    <2>1. Housed
      BY DEF Init, Housed, NoCtr
    <2>2. WordInv
      BY Records DEF Init, WordInv, Word, Lists, ListPcs
    <2>3. QED
      BY <2>1, <2>2, InitInv DEF CInv
  <1>2. CInv /\ UNCHANGED vars => CInv'
    <2> SUFFICES ASSUME CInv, UNCHANGED vars
                 PROVE  CInv'
      OBVIOUS
    <2>1. IInv'
      BY NextInv DEF CInv
    <2>2. UNCHANGED <<hub, live, disk, ctr, proc, req>>
      BY DEF vars
    <2>3. Housed' /\ WordInv'
      BY <2>2 DEF CInv, Housed, Exists, WordInv, Word, Lists, Listing, Alive, Running, HasHome,
                  Apart, Listed, Holds, Told, Cleared, Runs
    <2>4. QED
      BY <2>1, <2>3 DEF CInv
  <1>3. CInv /\ [Next]_vars => CInv'
    BY <1>2, CInvStep
  <1>4. QED
    BY <1>1, <1>3, PTL DEF Spec

\* A cleanup (run_cleanup) that had the hub's word for every helper it listed takes
\* no home from under a running one, however many helpers, commands and hubs there
\* are: the list was read from the disk and is used long after, while other
\* commands launch, stop and remove helpers and boxes end.
THEOREM CleanupsHaveTheWord == Spec => CleanupHasTheWord
  <1>1. CInv /\ [Next]_vars => [HasTheWord]_vars
    BY CInvStep
  <1>2. QED
    BY CInvAlways, <1>1, PTL DEF Spec, CleanupHasTheWord, HasTheWord
=============================================================================
