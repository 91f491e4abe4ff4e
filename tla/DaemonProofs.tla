---------------------------- MODULE DaemonProofs ----------------------------
(***************************************************************************)
(* The two processes that live with a box.                                 *)
(*                                                                         *)
(* The hub daemon, for any number of starts and stops of the box: it keeps *)
(* its types and implements HubSlot, so a box never has two hubs at once.  *)
(* The argument is that the lock is held by one descriptor, and by that of *)
(* a hub exactly while the hub is in office.                               *)
(*                                                                         *)
(* The supervisor, for every command line and number of panels: the code a *)
(* closed box reports is how its agent ended.                              *)
(*                                                                         *)
(* The two share no state: each theorem is about one of the specifications.*)
(***************************************************************************)
EXTENDS HubDaemon, BoxSupervisor, TLAPS

Past == InOffice \cup {"gone", "killed"}

-----------------------------------------------------------------------------
(* What the steps do to a hub, a start and a call. *)

LEMMA StatePcs ==
  ASSUME NEW h \in HubState, NEW pc \in HubPCs
  PROVE  [h EXCEPT !.pc = pc] \in HubState /\ [h EXCEPT !.pc = pc].pc = pc
  BY DEF HubState

LEMMA NoHubIsState ==
  ASSUME NEW pc \in HubPCs
  PROVE  [NoHub EXCEPT !.pc = pc] \in HubState /\ [NoHub EXCEPT !.pc = pc].pc = pc
  <1>1. NoHub \in HubState
    BY MissAssumption DEF HubState, NoHub, HubPCs, Gone
  <1>2. QED
    BY <1>1, StatePcs

LEMMA ProbedIsState ==
  ASSUME NEW h \in HubState, NEW live \in BOOLEAN
  PROVE  Probed(h, live) \in HubState /\ Probed(h, live).pc = h.pc
  <1> DEFINE m == IF live THEN 0 ELSE Least(h.misses + 1, MissLimit)
  <1>1. m \in 0..MissLimit
    BY MissAssumption DEF HubState, Least
  <1>2. (h.due \/ live) \in BOOLEAN
    OBVIOUS
  <1>3. Probed(h, live) = [h EXCEPT !.due = h.due \/ live, !.misses = m]
    BY DEF Probed
  <1> HIDE DEF m
  <1>4. QED
    BY <1>1, <1>2, <1>3 DEF HubState

\* The hub of one start moves, the others do not.
HubMoves(l, pcs) ==
  /\ hub' \in [Launches -> HubState] /\ hub'[l].pc \in pcs
  /\ \A k \in Launches \ {l} : hub'[k] = hub[k]

LEMMA OneHubMoves ==
  ASSUME TypeOK, NEW l \in Launches, NEW h \in HubState,
         hub' = [hub EXCEPT ![l] = h]
  PROVE  HubMoves(l, {h.pc})
  BY DEF TypeOK, HubMoves

LEMMA HubToMoves ==
  ASSUME TypeOK, NEW l \in Launches, NEW pc \in HubPCs, HubTo(l, pc)
  PROVE  HubMoves(l, {pc})
  <1> DEFINE h == [hub[l] EXCEPT !.pc = pc]
  <1>1. h \in HubState /\ h.pc = pc
    BY StatePcs DEF TypeOK
  <1>2. hub' = [hub EXCEPT ![l] = h]
    BY DEF HubTo
  <1> HIDE DEF h
  <1>3. QED
    BY <1>1, <1>2, OneHubMoves

LEMMA HubEndsMoves ==
  ASSUME TypeOK, NEW l \in Launches, NEW pc \in HubPCs, HubEnds(l, pc)
  PROVE  HubMoves(l, {pc})
  <1> DEFINE h == [NoHub EXCEPT !.pc = pc]
  <1>1. h \in HubState /\ h.pc = pc
    BY NoHubIsState
  <1>2. hub' = [hub EXCEPT ![l] = h]
    BY DEF HubEnds
  <1> HIDE DEF h
  <1>3. QED
    BY <1>1, <1>2, OneHubMoves

LEMMA ReadMoves ==
  ASSUME TypeOK, NEW c, Read(c)
  PROVE  /\ hub' \in [Launches -> HubState]
         /\ \A l \in Launches : hub'[l].pc = hub[l].pc
  <1>1. \A h \in HubState : [h EXCEPT !.term = TRUE] \in HubState
                            /\ [h EXCEPT !.term = TRUE].pc = h.pc
    BY DEF HubState
  <1>2. QED
    BY <1>1 DEF TypeOK, Read

\* What a probe writes: an answer makes the end due and forgets the misses.
LEMMA ProbedFields ==
  ASSUME NEW h \in HubState, NEW live \in BOOLEAN
  PROVE  LET r == Probed(h, live) IN
           /\ r.pc = h.pc /\ r.term = h.term /\ r.misses \in 0..MissLimit
           /\ r.due = (h.due \/ live) /\ (live => r.misses = 0)
  <1> DEFINE m == IF live THEN 0 ELSE Least(h.misses + 1, MissLimit)
             d == h.due \/ live
  <1>1. m \in 0..MissLimit /\ (live => m = 0)
    BY MissAssumption DEF HubState, Least
  <1>2. Probed(h, live) = [h EXCEPT !.due = d, !.misses = m]
    BY DEF Probed
  <1>3. h = [pc |-> h.pc, term |-> h.term, due |-> h.due, misses |-> h.misses]
    BY DEF HubState
  <1> HIDE DEF m, d
  <1>4. LET r == [h EXCEPT !.due = d, !.misses = m] IN
          r.pc = h.pc /\ r.term = h.term /\ r.misses = m /\ r.due = d
    BY <1>3
  <1>5. QED
    BY <1>1, <1>2, <1>4 DEF d

LEMMA TickMoves ==
  ASSUME TypeOK, NEW l \in Launches, Tick(l)
  PROVE  /\ HubMoves(l, {"serve", "sweep"})
         /\ sock' \in SUBSET Launches /\ (sock' \subseteq sock \cup {l})
         /\ hub'[l].pc \in InOffice /\ odd' \in BOOLEAN
  <1>1. PICK live \in BOOLEAN :
          LET h == Probed(hub[l], live) IN
          /\ odd' = (odd \/ (box /\ h.misses = MissLimit))
          /\ \/ /\ Gives(h) /\ UNCHANGED sock
                /\ HubEnds(l, "sweep")
             \/ /\ ~Gives(h) /\ Rebind(l)
                /\ hub' = [hub EXCEPT ![l] = h]
    BY DEF Tick
  <1> DEFINE h == Probed(hub[l], live)
  <1>2. h \in HubState /\ h.pc = "serve"
    BY ProbedIsState DEF TypeOK, Tick
  <1>3. odd' = (odd \/ (box /\ h.misses = MissLimit))
    BY <1>1
  <1>4. \/ HubEnds(l, "sweep") /\ UNCHANGED sock
        \/ hub' = [hub EXCEPT ![l] = h] /\ Rebind(l)
    BY <1>1
  <1> HIDE DEF h
  <1>5. odd' \in BOOLEAN
    BY <1>3 DEF TypeOK
  <1>6. sock' \in SUBSET Launches /\ (sock' \subseteq sock \cup {l})
    BY <1>4 DEF TypeOK, Rebind
  <1>7. HubMoves(l, {"serve", "sweep"})
    <2>1. CASE HubEnds(l, "sweep")
      BY <2>1, HubEndsMoves DEF HubMoves, HubPCs, InOffice
    <2>2. CASE hub' = [hub EXCEPT ![l] = h]
      BY <2>2, <1>2, OneHubMoves DEF HubMoves
    <2>3. QED
      BY <1>4, <2>1, <2>2
  <1>8. QED
    BY <1>5, <1>6, <1>7 DEF HubMoves, InOffice

LEMMA GraceMoves ==
  ASSUME TypeOK, NEW l \in Launches, GraceEnds(l)
  PROVE  HubMoves(l, {hub[l].pc})
  <1> DEFINE h == [hub[l] EXCEPT !.due = TRUE]
  <1>1. h \in HubState /\ h.pc = hub[l].pc
    BY DEF TypeOK, HubState
  <1>2. hub' = [hub EXCEPT ![l] = h]
    BY DEF GraceEnds
  <1> HIDE DEF h
  <1>3. QED
    BY <1>1, <1>2, OneHubMoves

StartTypes == [Launches -> [pc : StartPCs, ready : BOOLEAN]]

LEMMA StartMoves ==
  ASSUME TypeOK, NEW l \in Launches,
         \/ StartEnds(l)
         \/ \E pc \in StartPCs : StartTo(l, pc)
         \/ start' = [start EXCEPT ![l].ready = TRUE]
  PROVE  start' \in StartTypes
  <1> DEFINE Moved == \E r \in [pc : StartPCs, ready : BOOLEAN] :
                        start' = [start EXCEPT ![l] = r]
  <1>1. \A r \in [pc : StartPCs, ready : BOOLEAN] :
          /\ \A pc \in StartPCs : [r EXCEPT !.pc = pc] \in [pc : StartPCs, ready : BOOLEAN]
          /\ [r EXCEPT !.ready = TRUE] \in [pc : StartPCs, ready : BOOLEAN]
    OBVIOUS
  <1>2. [pc |-> "done", ready |-> FALSE] \in [pc : StartPCs, ready : BOOLEAN]
    BY DEF StartPCs
  <1>3. Moved
    <2>1. CASE StartEnds(l)
      BY <2>1, <1>2 DEF StartEnds
    <2>2. ASSUME NEW pc \in StartPCs, StartTo(l, pc) PROVE Moved
      BY <2>2, <1>1 DEF StartTo, TypeOK
    <2>3. CASE start' = [start EXCEPT ![l].ready = TRUE]
      BY <2>3, <1>1 DEF TypeOK
    <2>4. QED
      BY <2>1, <2>2, <2>3
  <1>4. QED
    BY <1>3 DEF TypeOK, StartTypes

LEMMA CallMoves ==
  ASSUME TypeOK, NEW c \in Callers, NEW pc \in CallPCs, CallTo(c, pc)
  PROVE  call' \in [Callers -> CallPCs]
  BY DEF TypeOK, CallTo

LEMMA WhoCalls ==
  /\ \A l \in Launches : Hub(l) \in Callers /\ Starter(l) \in Callers
                         /\ Office(l) \in Holders /\ Office(l) \notin Callers
  /\ \A s \in Stops : Stopper(s) \in Callers
  /\ Callers \subseteq Holders
  /\ \A k, l \in Launches : Office(k) = Office(l) => k = l
  BY DEF Hub, Starter, Stopper, Office, Callers, Holders

-----------------------------------------------------------------------------
(* The three kinds of step: a hub comes into office, it leaves it, or neither. *)

Quiet ==
  /\ \A l \in Launches : /\ hub'[l].pc \in InOffice <=> hub[l].pc \in InOffice
                         /\ hub'[l].pc \in Past <=> hub[l].pc \in Past
  /\ \/ lock' = lock
     \/ \E c \in Callers : lock' = lock \ {c} \/ (lock = {} /\ lock' = {c})
  /\ \A l \in sock' : l \in sock \/ (l \in Launches /\ hub'[l].pc \in InOffice)

Enters(l) ==
  /\ hub[l].pc \notin Past /\ HubMoves(l, {"locked"})
  /\ lock = {} /\ lock' = {Office(l)}
  /\ sock' = sock

Leaves(l) ==
  /\ hub[l].pc \in InOffice /\ HubMoves(l, {"gone", "killed"})
  /\ \E L \in SUBSET Callers : lock' = lock \ (L \cup {Office(l)})
  /\ sock' = sock

LEMMA SameHubs ==
  ASSUME TypeOK, hub' = hub, sock' \subseteq sock,
         \/ lock' = lock
         \/ \E c \in Callers : lock' = lock \ {c} \/ (lock = {} /\ lock' = {c})
  PROVE  Quiet
  BY DEF Quiet

LEMMA SamePlace ==
  ASSUME TypeOK, NEW l \in Launches, NEW pcs, HubMoves(l, pcs),
         \A pc \in pcs : /\ pc \in InOffice <=> hub[l].pc \in InOffice
                         /\ pc \in Past <=> hub[l].pc \in Past,
         \/ lock' = lock
         \/ \E c \in Callers : lock' = lock \ {c} \/ (lock = {} /\ lock' = {c}),
         \A k \in sock' : k \in sock \/ (k = l /\ hub'[l].pc \in InOffice)
  PROVE  Quiet
  BY DEF Quiet, HubMoves

\* A call of stop_hub, whoever makes it.
LEMMA CallStep ==
  ASSUME TypeOK, NEW c \in Callers, StopHub(c)
  PROVE  TypeOK' /\ Quiet
  <1>1. CASE Try(c)
    <2>1. call' \in [Callers -> CallPCs]
      BY <1>1, CallMoves DEF Try, CallPCs
    <2>2. lock' = lock \/ (lock = {} /\ lock' = {c})
      BY <1>1 DEF Try
    <2>3. TypeOK'
      BY <1>1, <2>1, <2>2, WhoCalls DEF Try, TypeOK
    <2>4. QED
      BY <1>1, <2>2, <2>3, SameHubs DEF Try
  <1>2. CASE Read(c)
    <2>1. call' \in [Callers -> CallPCs]
      BY <1>2, CallMoves DEF Read, CallPCs
    <2>2. QED
      BY <1>2, <2>1, ReadMoves DEF Read, TypeOK, Quiet
  <1>3. CASE Poll(c)
    <2>1. call' \in [Callers -> CallPCs]
      BY <1>3, CallMoves DEF Poll, CallPCs
    <2>2. lock = {} /\ lock' = {c}
      BY <1>3 DEF Poll
    <2>3. TypeOK'
      BY <1>3, <2>1, <2>2, WhoCalls DEF Poll, TypeOK
    <2>4. QED
      BY <1>3, <2>2, <2>3, SameHubs DEF Poll
  <1>4. QED
    BY <1>1, <1>2, <1>3 DEF StopHub

LEMMA ReturnMoves ==
  ASSUME TypeOK, NEW c \in Callers, Return(c)
  PROVE  /\ call' \in [Callers -> CallPCs] /\ lock' \in SUBSET Holders
         /\ \E b \in Callers : lock' = lock \ {b}
  BY CallMoves DEF Return, TypeOK, CallPCs

LEMMA QuitStep ==
  ASSUME TypeOK, NEW l \in Launches, Quit(l)
  PROVE  TypeOK' /\ Quiet
  <1>1. start' \in StartTypes
    BY StartMoves DEF Quit, StartPCs
  <1>2. call' \in [Callers -> CallPCs]
    BY CallMoves, WhoCalls DEF Quit, CallPCs
  <1>3. TypeOK'
    BY <1>1, <1>2 DEF Quit, TypeOK, StartTypes
  <1>4. QED
    BY <1>3, SameHubs DEF Quit

LEMMA StartStep ==
  ASSUME TypeOK, NEW l \in Launches, Start(l) \/ StartKilled(l)
  PROVE  TypeOK' /\ Quiet
  <1>1. CASE Refuse(l) \/ NotUp(l)
    BY <1>1, QuitStep DEF Refuse, NotUp
  <1>2. CASE RefuseUnspawned(l)
    <2>1. start' \in StartTypes
      BY <1>2, StartMoves DEF RefuseUnspawned
    <2>2. TypeOK'
      BY <1>2, <2>1 DEF RefuseUnspawned, TypeOK, StartTypes
    <2>3. QED
      BY <1>2, <2>2, SameHubs DEF RefuseUnspawned
  <1>3. CASE Run(l)
    <2>1. start' \in StartTypes
      BY <1>3, StartMoves DEF Run, StartPCs
    <2>2. TypeOK'
      BY <1>3, <2>1 DEF Run, TypeOK, StartTypes
    <2>3. QED
      BY <1>3, <2>2, SameHubs DEF Run
  <1>4. CASE Release(l)
    <2>1. start' \in StartTypes
      BY <1>4, StartMoves DEF Release, StartPCs
    <2>2. TypeOK'
      BY <1>4, <2>1 DEF Release, TypeOK, StartTypes
    <2>3. QED
      BY <1>4, <2>2, SameHubs DEF Release
  <1>5. CASE StopHub(Starter(l))
    BY <1>5, CallStep, WhoCalls
  <1>6. CASE Stopped(l) \/ StartKilled(l)
    <2>1. StartEnds(l) /\ Return(Starter(l)) /\ Starter(l) \in Callers
      BY <1>6, WhoCalls DEF Stopped, StartKilled
    <2>2. start' \in StartTypes
      BY <2>1, StartMoves
    <2>3. /\ call' \in [Callers -> CallPCs] /\ lock' \in SUBSET Holders
          /\ \E b \in Callers : lock' = lock \ {b}
      BY <2>1, ReturnMoves
    <2>4. TypeOK'
      BY <1>6, <2>2, <2>3 DEF Stopped, StartKilled, TypeOK, StartTypes
    <2>5. QED
      BY <1>6, <2>3, <2>4, SameHubs DEF Stopped, StartKilled
  <1>7. QED
    BY <1>1, <1>2, <1>3, <1>4, <1>5, <1>6 DEF Start

LEMMA BeginStep ==
  ASSUME TypeOK, NEW l \in Launches, Begin(l), start[l].pc = "idle" => hub[l].pc = "none"
  PROVE  TypeOK' /\ Quiet
  <1>1. start' \in StartTypes
    BY StartMoves DEF Begin, StartPCs
  <1>2. CASE HubTo(l, "take") /\ CallTo(Hub(l), "try")
    <2>1. HubMoves(l, {"take"})
      BY <1>2, HubToMoves DEF HubPCs
    <2>2. call' \in [Callers -> CallPCs]
      BY <1>2, CallMoves, WhoCalls DEF CallPCs
    <2>3. TypeOK'
      BY <1>1, <2>1, <2>2 DEF Begin, TypeOK, StartTypes, HubMoves
    <2>4. Quiet
      BY <2>1, SamePlace DEF Begin, InOffice, Past
    <2>5. QED
      BY <2>3, <2>4
  <1>3. CASE UNCHANGED <<hub, call>>
    <2>1. TypeOK'
      BY <1>1, <1>3 DEF Begin, TypeOK, StartTypes
    <2>2. QED
      BY <1>3, <2>1, SameHubs DEF Begin
  <1>4. QED
    BY <1>2, <1>3 DEF Begin

LEMMA TakenStep ==
  ASSUME TypeOK, NEW l \in Launches, Taken(l)
  PROVE  TypeOK' /\ Quiet
  <1>1. Return(Hub(l)) /\ Hub(l) \in Callers
    BY WhoCalls DEF Taken
  <1>2. /\ call' \in [Callers -> CallPCs] /\ lock' \in SUBSET Holders
        /\ \E b \in Callers : lock' = lock \ {b}
    BY <1>1, ReturnMoves
  <1>3. HubMoves(l, {"open"}) \/ HubMoves(l, {"failed"})
    BY HubToMoves, HubEndsMoves DEF Taken, HubPCs, Gone
  <1>4. HubMoves(l, {"open", "failed"})
    BY <1>3 DEF HubMoves
  <1>5. TypeOK'
    BY <1>2, <1>4 DEF Taken, TypeOK, HubMoves
  <1>6. \A pc \in {"open", "failed"} : /\ pc \in InOffice <=> hub[l].pc \in InOffice
                                       /\ pc \in Past <=> hub[l].pc \in Past
    BY DEF Taken, InOffice, Past
  <1>7. Quiet
    BY <1>2, <1>4, <1>6, SamePlace DEF Taken
  <1>8. QED
    BY <1>5, <1>7

LEMMA OpenStep ==
  ASSUME TypeOK, NEW l \in Launches, Open(l)
  PROVE  TypeOK' /\ (Quiet \/ Enters(l))
  <1>1. CASE lock = {}
    <2>1. HubMoves(l, {"locked"})
      BY <1>1, HubToMoves DEF Open, HubPCs, InOffice
    <2>2. TypeOK'
      BY <1>1, <2>1, WhoCalls DEF Open, TypeOK, HubMoves
    <2>3. Enters(l)
      BY <1>1, <2>1 DEF Open, Enters, InOffice, Past
    <2>4. QED
      BY <2>2, <2>3
  <1>2. CASE lock # {}
    <2>1. HubMoves(l, {"failed"})
      BY <1>2, HubEndsMoves DEF Open, HubPCs, Gone
    <2>2. TypeOK'
      BY <1>2, <2>1 DEF Open, TypeOK, HubMoves
    <2>3. Quiet
      BY <1>2, <2>1, SamePlace DEF Open, InOffice, Past
    <2>4. QED
      BY <2>2, <2>3
  <1>3. QED
    BY <1>1, <1>2

LEMMA BindStep ==
  ASSUME TypeOK, NEW l \in Launches, Bind(l)
  PROVE  TypeOK' /\ Quiet
  <1>1. HubMoves(l, {"serve"}) \/ HubMoves(l, {"sweep"})
    BY HubToMoves, HubEndsMoves DEF Bind, HubPCs, InOffice
  <1>2. HubMoves(l, {"serve", "sweep"})
    BY <1>1 DEF HubMoves
  <1>3. start' \in StartTypes
    BY StartMoves DEF Bind, TypeOK, StartTypes
  <1>4. TypeOK'
    BY <1>2, <1>3 DEF Bind, TypeOK, HubMoves, StartTypes
  <1>5. hub'[l].pc \in InOffice
    BY <1>2 DEF HubMoves, InOffice
  <1>6. \A k \in sock' : k \in sock \/ (k = l /\ hub'[l].pc \in InOffice)
    BY <1>5 DEF Bind
  <1>7. \A pc \in {"serve", "sweep"} : /\ pc \in InOffice <=> hub[l].pc \in InOffice
                                       /\ pc \in Past <=> hub[l].pc \in Past
    BY DEF Bind, InOffice, Past
  <1>8. lock' = lock
    BY DEF Bind
  <1>9. Quiet
    BY <1>2, <1>6, <1>7, <1>8, SamePlace
  <1>10. QED
    BY <1>4, <1>9

LEMMA TickStep ==
  ASSUME TypeOK, NEW l \in Launches, Tick(l)
  PROVE  TypeOK' /\ Quiet
  <1>1. /\ HubMoves(l, {"serve", "sweep"})
        /\ sock' \in SUBSET Launches /\ (sock' \subseteq sock \cup {l})
        /\ hub'[l].pc \in InOffice /\ odd' \in BOOLEAN
    BY TickMoves
  <1>2. lock' = lock /\ UNCHANGED <<box, start, call, pid>>
    BY DEF Tick
  <1>3. TypeOK'
    BY <1>1, <1>2 DEF TypeOK, HubMoves
  <1>4. \A k \in sock' : k \in sock \/ (k = l /\ hub'[l].pc \in InOffice)
    BY <1>1
  <1>5. \A pc \in {"serve", "sweep"} : /\ pc \in InOffice <=> hub[l].pc \in InOffice
                                       /\ pc \in Past <=> hub[l].pc \in Past
    BY DEF Tick, InOffice, Past
  <1>6. Quiet
    BY <1>1, <1>2, <1>4, <1>5, SamePlace
  <1>7. QED
    BY <1>3, <1>6

\* The steps of a hub that stays in office, but for its ticks.
LEMMA WorkStep ==
  ASSUME TypeOK, NEW l \in Launches,
         WritePid(l) \/ Terminated(l) \/ Sweep(l) \/ GraceEnds(l)
  PROVE  TypeOK' /\ Quiet
  <1>1. hub[l].pc \in {"locked", "serve", "sweep"} /\ lock' = lock
    BY DEF WritePid, Terminated, Sweep, GraceEnds
  <1>2. HubMoves(l, {"bind", "sweep", "close", "serve"})
    <2>1. CASE WritePid(l)
      BY <2>1, HubToMoves DEF WritePid, HubMoves, HubPCs, InOffice
    <2>2. CASE Terminated(l)
      BY <2>2, HubEndsMoves DEF Terminated, HubMoves, HubPCs, InOffice
    <2>3. CASE Sweep(l)
      BY <2>3, HubToMoves DEF Sweep, HubMoves, HubPCs, InOffice
    <2>4. CASE GraceEnds(l)
      BY <2>4, GraceMoves DEF GraceEnds, HubMoves
    <2>5. QED
      BY <2>1, <2>2, <2>3, <2>4
  <1>3. TypeOK'
    BY <1>2 DEF WritePid, Terminated, Sweep, GraceEnds, TypeOK, HubMoves
  <1>4. \A pc \in {"bind", "sweep", "close", "serve"} :
          /\ pc \in InOffice <=> hub[l].pc \in InOffice
          /\ pc \in Past <=> hub[l].pc \in Past
    BY <1>1 DEF InOffice, Past
  <1>5. \A k \in sock' : k \in sock
    BY DEF WritePid, Terminated, Sweep, GraceEnds
  <1>6. Quiet
    BY <1>1, <1>2, <1>4, <1>5, SamePlace
  <1>7. QED
    BY <1>3, <1>6

LEMMA CloseStep ==
  ASSUME TypeOK, NEW l \in Launches, Close(l)
  PROVE  TypeOK' /\ Leaves(l)
  <1>1. HubMoves(l, {"gone"})
    BY HubEndsMoves DEF Close, HubPCs, Gone
  <1>2. HubMoves(l, {"gone", "killed"})
    BY <1>1 DEF HubMoves
  <1>3. TypeOK'
    BY <1>2 DEF Close, TypeOK, HubMoves
  <1>4. {} \in SUBSET Callers /\ lock' = lock \ ({} \cup {Office(l)})
    BY DEF Close
  <1>5. QED
    BY <1>2, <1>3, <1>4 DEF Close, Leaves, InOffice

LEMMA KilledStep ==
  ASSUME TypeOK, NEW l \in Launches, HubKilled(l), Office(l) \in lock <=> hub[l].pc \in InOffice
  PROVE  TypeOK' /\ (Quiet \/ Leaves(l))
  <1>1. Hub(l) \in Callers /\ call' \in [Callers -> CallPCs]
    BY WhoCalls, CallMoves DEF HubKilled, CallPCs
  <1>2. CASE hub[l].pc \in InOffice
    <2>1. HubMoves(l, {"killed"})
      BY <1>2, HubEndsMoves DEF HubKilled, HubPCs, Gone
    <2>2. HubMoves(l, {"gone", "killed"})
      BY <2>1 DEF HubMoves
    <2>3. TypeOK'
      BY <1>1, <2>2 DEF HubKilled, TypeOK, HubMoves
    <2>4. {Hub(l)} \in SUBSET Callers /\ lock' = lock \ ({Hub(l)} \cup {Office(l)})
      BY <1>1 DEF HubKilled
    <2>5. QED
      BY <1>2, <2>2, <2>3, <2>4 DEF HubKilled, Leaves
  <1>3. CASE hub[l].pc \notin InOffice
    <2>1. HubMoves(l, {"failed"})
      BY <1>3, HubEndsMoves DEF HubKilled, HubPCs, Gone
    <2>2. TypeOK'
      BY <1>1, <2>1 DEF HubKilled, TypeOK, HubMoves
    <2>3. lock' = lock \ {Hub(l)}
      BY <1>3 DEF HubKilled
    <2>4. "failed" \notin InOffice /\ "failed" \notin Past /\ hub[l].pc \notin Past
      BY <1>3 DEF HubKilled, InOffice, Past, Gone
    <2>5. Quiet
      BY <1>1, <1>3, <2>1, <2>3, <2>4, SamePlace DEF HubKilled
    <2>6. QED
      BY <2>2, <2>5
  <1>4. QED
    BY <1>2, <1>3

LEMMA StopStep ==
  ASSUME TypeOK, NEW s \in Stops, BeginStop(s) \/ Stop(s)
  PROVE  TypeOK' /\ Quiet
  <1>1. Stopper(s) \in Callers
    BY WhoCalls
  <1>2. CASE BeginStop(s)
    <2>1. call' \in [Callers -> CallPCs]
      BY <1>1, <1>2, CallMoves DEF BeginStop, CallPCs
    <2>2. TypeOK'
      BY <1>2, <2>1 DEF BeginStop, TypeOK
    <2>3. QED
      BY <1>2, <2>2, SameHubs DEF BeginStop
  <1>3. CASE EndStop(s)
    <2>1. /\ call' \in [Callers -> CallPCs] /\ lock' \in SUBSET Holders
          /\ \E b \in Callers : lock' = lock \ {b}
      BY <1>1, <1>3, ReturnMoves DEF EndStop
    <2>2. TypeOK'
      BY <1>3, <2>1 DEF EndStop, TypeOK
    <2>3. QED
      BY <1>3, <2>1, <2>2, SameHubs DEF EndStop
  <1>4. CASE StopHub(Stopper(s))
    BY <1>1, <1>4, CallStep
  <1>5. QED
    BY <1>2, <1>3, <1>4 DEF Stop

LEMMA BoxStep ==
  ASSUME TypeOK, BoxEnds \/ BoxUnlinks
  PROVE  TypeOK' /\ Quiet
  <1>1. TypeOK'
    BY DEF BoxEnds, BoxUnlinks, TypeOK
  <1>2. QED
    BY <1>1, SameHubs DEF BoxEnds, BoxUnlinks

-----------------------------------------------------------------------------
(* The inductive invariant *)

\* One descriptor at most holds the lock, and a hub's does while it is in office.
LockInv ==
  /\ \A a, b \in lock : a = b
  /\ \A l \in Launches : Office(l) \in lock <=> hub[l].pc \in InOffice

\* The path names the socket of a hub that was in office.
SockInv == \A l \in sock : hub[l].pc \in Past

\* A start that has not begun has no hub.
FreshInv == \A l \in Launches : start[l].pc = "idle" => hub[l].pc = "none"

IInv == TypeOK /\ LockInv /\ SockInv /\ FreshInv

LEMMA InitInv == Init => IInv
  <1> SUFFICES ASSUME Init PROVE IInv
    OBVIOUS
  <1>1. NoHub \in HubState /\ NoHub.pc = "none"
    BY MissAssumption DEF HubState, NoHub, HubPCs, Gone
  <1>2. hub \in [Launches -> HubState] /\ \A l \in Launches : hub[l].pc = "none"
    BY <1>1 DEF Init
  <1>3. start \in StartTypes /\ call \in [Callers -> CallPCs]
    BY DEF Init, StartTypes, StartPCs, CallPCs
  <1>4. TypeOK
    BY <1>2, <1>3 DEF Init, TypeOK, StartTypes
  <1>5. LockInv /\ SockInv /\ FreshInv
    BY <1>2 DEF Init, LockInv, SockInv, FreshInv, InOffice
  <1>6. QED
    BY <1>4, <1>5 DEF IInv

\* Every step is one of the three kinds.
LEMMA StepKinds ==
  ASSUME IInv, Next
  PROVE  TypeOK' /\ (Quiet \/ \E l \in Launches : Enters(l) \/ Leaves(l))
  <1>1. TypeOK
    BY DEF IInv
  <1>2. ASSUME NEW l \in Launches, Begin(l) PROVE TypeOK' /\ Quiet
    BY <1>1, <1>2, BeginStep DEF IInv, FreshInv
  <1>3. ASSUME NEW l \in Launches, Start(l) \/ StartKilled(l) PROVE TypeOK' /\ Quiet
    BY <1>1, <1>3, StartStep
  <1>4. ASSUME NEW l \in Launches, Serve(l)
        PROVE  TypeOK' /\ (Quiet \/ Enters(l) \/ Leaves(l))
    <2>1. CASE StopHub(Hub(l))
      BY <1>1, <2>1, CallStep, WhoCalls
    <2>2. CASE Taken(l)
      BY <1>1, <2>2, TakenStep
    <2>3. CASE Open(l)
      BY <1>1, <2>3, OpenStep
    <2>4. CASE Bind(l)
      BY <1>1, <2>4, BindStep
    <2>5. CASE Tick(l)
      BY <1>1, <2>5, TickStep
    <2>6. CASE WritePid(l) \/ Terminated(l) \/ Sweep(l)
      BY <1>1, <2>6, WorkStep
    <2>7. CASE Close(l)
      BY <1>1, <2>7, CloseStep
    <2>8. QED
      BY <1>4, <2>1, <2>2, <2>3, <2>4, <2>5, <2>6, <2>7 DEF Serve
  <1>5. ASSUME NEW l \in Launches, GraceEnds(l) PROVE TypeOK' /\ Quiet
    BY <1>1, <1>5, WorkStep
  <1>6. ASSUME NEW l \in Launches, HubKilled(l) PROVE TypeOK' /\ (Quiet \/ Leaves(l))
    BY <1>1, <1>6, KilledStep DEF IInv, LockInv
  <1>7. ASSUME NEW s \in Stops, BeginStop(s) \/ Stop(s) PROVE TypeOK' /\ Quiet
    BY <1>1, <1>7, StopStep
  <1>8. CASE BoxEnds \/ BoxUnlinks
    BY <1>1, <1>8, BoxStep
  <1>9. ASSUME NEW l \in Launches,
               \/ Begin(l) \/ Start(l) \/ Serve(l) \/ GraceEnds(l)
               \/ StartKilled(l) \/ HubKilled(l)
        PROVE  TypeOK' /\ (Quiet \/ Enters(l) \/ Leaves(l))
    BY <1>2, <1>3, <1>4, <1>5, <1>6, <1>9
  <1>10. QED
    BY <1>7, <1>8, <1>9 DEF Next

LEMMA LockStep ==
  ASSUME IInv, Quiet \/ \E l \in Launches : Enters(l) \/ Leaves(l)
  PROVE  LockInv' /\ SockInv'
  <1>1. /\ \A a, b \in lock : a = b
        /\ \A l \in Launches : Office(l) \in lock <=> hub[l].pc \in InOffice
        /\ \A l \in sock : l \in Launches /\ hub[l].pc \in Past
    BY DEF IInv, TypeOK, LockInv, SockInv
  <1>2. CASE Quiet
    <2>1. LockInv'
      BY <1>1, <1>2, WhoCalls DEF Quiet, LockInv, Office
    <2>2. SockInv'
      BY <1>1, <1>2 DEF Quiet, SockInv, Past
    <2>3. QED
      BY <2>1, <2>2
  <1>3. ASSUME NEW l \in Launches, Enters(l) PROVE LockInv' /\ SockInv'
    <2>1. /\ \A k \in Launches : hub[k].pc \notin InOffice
          /\ lock' = {Office(l)} /\ hub'[l].pc = "locked" /\ sock' = sock
          /\ \A k \in Launches \ {l} : hub'[k] = hub[k]
      BY <1>1, <1>3 DEF Enters, HubMoves
    <2>2. LockInv'
      BY <2>1, WhoCalls DEF LockInv, InOffice, Office
    <2>3. SockInv'
      BY <1>1, <2>1 DEF SockInv, Past, InOffice
    <2>4. QED
      BY <2>2, <2>3
  <1>4. ASSUME NEW l \in Launches, Leaves(l) PROVE LockInv' /\ SockInv'
    <2>1. Office(l) \in lock /\ lock' = {} /\ sock' = sock
      BY <1>1, <1>4 DEF Leaves
    <2>2. \A k \in Launches \ {l} : hub'[k] = hub[k] /\ hub[k].pc \notin InOffice
      BY <1>1, <1>4, <2>1, WhoCalls DEF Leaves, HubMoves
    <2>3. hub'[l].pc \in {"gone", "killed"}
      BY <1>4 DEF Leaves, HubMoves
    <2>4. LockInv'
      BY <2>1, <2>2, <2>3 DEF LockInv, InOffice, Office
    <2>5. SockInv'
      BY <1>1, <2>1, <2>2, <2>3 DEF SockInv, Past
    <2>6. QED
      BY <2>4, <2>5
  <1>5. QED
    BY <1>2, <1>3, <1>4

\* A start that has not begun has no hub after a step either.
LEMMA FreshStep ==
  ASSUME IInv, Next
  PROVE  FreshInv'
  <1>1. SUFFICES ASSUME NEW k \in Launches, start'[k].pc = "idle"
                 PROVE  hub'[k].pc = "none"
    BY DEF FreshInv
  <1>2. TypeOK /\ (start[k].pc = "idle" => hub[k].pc = "none")
    BY DEF IInv, FreshInv
  <1>3. ASSUME NEW c, StopHub(c) PROVE hub'[k].pc = "none"
    <2>1. start' = start /\ hub'[k].pc = hub[k].pc
      BY <1>2, <1>3, ReadMoves DEF StopHub, Try, Read, Poll
    <2>2. QED
      BY <1>1, <1>2, <2>1
  <1>4. ASSUME NEW l \in Launches, Begin(l) PROVE hub'[k].pc = "none"
    <2>1. start'[l].pc = "wait" /\ \A j \in Launches \ {l} : start'[j] = start[j]
      BY <1>2, <1>4 DEF Begin, StartTo, TypeOK
    <2>2. k # l
      BY <1>1, <2>1
    <2>3. hub'[k] = hub[k]
      BY <1>2, <1>4, <2>2 DEF Begin, HubTo, TypeOK
    <2>4. QED
      BY <1>1, <1>2, <2>1, <2>2, <2>3
  <1>5. ASSUME NEW l \in Launches,
               \/ Refuse(l) \/ RefuseUnspawned(l) \/ Run(l) \/ Release(l) \/ NotUp(l)
               \/ Stopped(l) \/ StartKilled(l)
        PROVE  hub'[k].pc = "none"
    <2>1. hub' = hub /\ start[l].pc # "idle"
      BY <1>5 DEF Refuse, RefuseUnspawned, Run, Release, NotUp, Quit, Stopped,
                  StartKilled, Ended
    <2>2. \/ StartEnds(l)
          \/ \E pc \in {"settle", "released", "stop"} : StartTo(l, pc)
      BY <1>5 DEF Refuse, RefuseUnspawned, Run, Release, NotUp, Quit, Stopped, StartKilled
    <2>3. start'[l].pc # "idle" /\ \A j \in Launches \ {l} : start'[j] = start[j]
      BY <1>2, <2>2 DEF StartEnds, StartTo, TypeOK
    <2>4. QED
      BY <1>1, <1>2, <2>1, <2>3
  <1>6. ASSUME NEW l \in Launches,
               \/ Taken(l) \/ Open(l) \/ WritePid(l) \/ Bind(l) \/ Terminated(l)
               \/ Tick(l) \/ Sweep(l) \/ Close(l) \/ GraceEnds(l) \/ HubKilled(l)
        PROVE  hub'[k].pc = "none"
    <2>1. hub[l].pc # "none"
      BY <1>6 DEF Taken, Open, WritePid, Bind, Terminated, Tick, Sweep, Close,
                  GraceEnds, HubKilled, Gone
    <2>2. \A j \in Launches \ {l} : hub'[j] = hub[j]
      <3>1. CASE Tick(l)
        BY <1>2, <3>1, TickMoves DEF HubMoves
      <3>2. CASE GraceEnds(l)
        BY <1>2, <3>2, GraceMoves DEF HubMoves
      <3>3. CASE ~Tick(l) /\ ~GraceEnds(l)
        <4>1. \E h : hub' = [hub EXCEPT ![l] = h]
          BY <1>6, <3>3 DEF Taken, Open, WritePid, Bind, Terminated, Sweep, Close,
                            HubKilled, HubTo, HubEnds
        <4>2. QED
          BY <1>2, <4>1 DEF TypeOK
      <3>4. QED
        BY <3>1, <3>2, <3>3
    <2>3. \A j \in Launches : start'[j].pc = start[j].pc
      BY <1>2, <1>6 DEF Taken, Open, WritePid, Bind, Terminated, Tick, Sweep, Close,
                        GraceEnds, HubKilled, TypeOK
    <2>4. QED
      BY <1>1, <1>2, <2>1, <2>2, <2>3
  <1>7. ASSUME NEW s \in Stops, BeginStop(s) \/ EndStop(s) PROVE hub'[k].pc = "none"
    BY <1>1, <1>2, <1>7 DEF BeginStop, EndStop
  <1>8. CASE BoxEnds \/ BoxUnlinks
    BY <1>1, <1>2, <1>8 DEF BoxEnds, BoxUnlinks
  <1>9. QED
    BY <1>3, <1>4, <1>5, <1>6, <1>7, <1>8 DEF Next, Start, Serve, Stop

LEMMA NextInv == IInv /\ [Next]_vars => IInv'
  <1>1. ASSUME IInv, Next PROVE IInv'
    BY <1>1, StepKinds, LockStep, FreshStep DEF IInv
  <1>2. CASE IInv /\ UNCHANGED vars
    BY <1>2 DEF IInv, TypeOK, LockInv, SockInv, FreshInv, vars
  <1>3. QED
    BY <1>1, <1>2

LEMMA InvAlways == Spec => []IInv
  BY InitInv, NextInv, PTL DEF Spec

-----------------------------------------------------------------------------
(* The theorems *)

\* Every variable of HubDaemon keeps its type, for any number of starts and stops.
THEOREM Typed == Spec => []TypeOK
  <1>1. IInv => TypeOK
    BY DEF IInv
  <1>2. QED
    BY InvAlways, <1>1, PTL

LEMMA SlotStep ==
  ASSUME IInv, IInv', Quiet \/ \E l \in Launches : Enters(l) \/ Leaves(l)
  PROVE  Slot!Next
  <1> DEFINE office == {l \in Launches : hub[l].pc \in InOffice}
             answers == {l \in sock : hub[l].pc \in InOffice}
             past == {l \in Launches : hub[l].pc \in InOffice \cup {"gone", "killed"}}
  <1>1. /\ sock \in SUBSET Launches /\ sock' \in SUBSET Launches
        /\ \A a, b \in lock : a = b
        /\ \A l \in Launches : Office(l) \in lock <=> hub[l].pc \in InOffice
        /\ \A l \in sock : hub[l].pc \in Past
    BY DEF IInv, TypeOK, LockInv, SockInv
  <1>2. CASE Quiet
    <2>1. office' = office /\ past' = past
      BY <1>2 DEF Quiet, Past
    <2>2. answers' \in SUBSET office'
      BY <1>1
    <2>3. QED
      BY <2>1, <2>2 DEF Slot!Next, Slot!Answer
  <1>3. ASSUME NEW l \in Launches, Enters(l) PROVE Slot!Next
    <2>1. /\ \A k \in Launches : hub[k].pc \notin InOffice
          /\ hub[l].pc \notin Past /\ hub'[l].pc = "locked" /\ sock' = sock
          /\ \A k \in Launches \ {l} : hub'[k] = hub[k]
      BY <1>1, <1>3 DEF Enters, HubMoves
    <2>2. office = {} /\ office' = {l}
      BY <2>1 DEF InOffice
    <2>3. l \notin past /\ past' = past \cup {l}
      BY <2>1 DEF InOffice, Past
    <2>4. answers' = {}
      BY <1>1, <2>1
    <2>5. QED
      BY <2>2, <2>3, <2>4 DEF Slot!Next, Slot!Enter
  <1>4. ASSUME NEW l \in Launches, Leaves(l) PROVE Slot!Next
    <2>1. /\ hub[l].pc \in InOffice /\ hub'[l].pc \in {"gone", "killed"}
          /\ \A k \in Launches \ {l} : hub'[k] = hub[k] /\ hub[k].pc \notin InOffice
      BY <1>1, <1>4, WhoCalls DEF Leaves, HubMoves
    <2>2. office' = {}
      BY <2>1 DEF InOffice
    <2>3. past' = past
      BY <2>1
    <2>4. answers' = {}
      BY <1>1, <2>1, <2>2
    <2>5. QED
      BY <2>2, <2>3, <2>4 DEF Slot!Next, Slot!Leave
  <1>5. QED
    BY <1>2, <1>3, <1>4

\* However many starts and stops race, and whatever is killed, the hubs of a box
\* follow each other in one office and only the one in office answers.
THEOREM OneHubAtATime == Spec => OneHub
  <1>1. Init => Slot!Init
    BY DEF Init, Slot!Init, NoHub, InOffice
  <1>2. ASSUME IInv, IInv', [Next]_vars PROVE [Slot!Next]_(Slot!vars)
    <2>1. CASE Next
      BY <1>2, <2>1, StepKinds, SlotStep
    <2>2. CASE UNCHANGED vars
      BY <2>2 DEF vars, Slot!vars
    <2>3. QED
      BY <1>2, <2>1, <2>2
  <1>3. QED
    BY InvAlways, <1>1, <1>2, PTL DEF Spec, OneHub, Slot!Spec

-----------------------------------------------------------------------------
(* The hub of a start that came up stays.  While nothing is odd, starts and  *)
(* stops follow each other: one is active at a time, and the box is down     *)
(* until one has run it.  So whoever calls stop_hub, it is no time at which  *)
(* the newest start has a hub to lose.                                       *)

Young == {"take", "open", "locked", "bind"}
Active(l) == ~Ended(l) \/ hub[l].pc \in Young

CallInv == \A l \in Launches :
  /\ call[Starter(l)] # "idle" => start[l].pc = "stop"
  /\ call[Hub(l)] # "idle" => hub[l].pc = "take"

FieldInv == \A l \in Launches :
  /\ start[l].pc = "idle" => start[l].ready = FALSE
  /\ hub[l].pc # "serve" => hub[l].due = FALSE /\ hub[l].misses = 0
  /\ hub[l].pc \notin {"bind", "serve"} => hub[l].term = FALSE

OrderInv == \A k, l \in Launches : k < l /\ start[l].pc # "idle" => start[k].pc # "idle"

SoloInv ==
  /\ \A k, l \in Launches : Active(k) /\ Active(l) => k = l
  /\ \A k, l \in Launches : k < l /\ start[l].pc # "idle" => ~Active(k)
  /\ \A s \in Stops : call[Stopper(s)] # "idle" =>
       box = FALSE /\ \A l \in Launches : ~Active(l)

DownInv == \A l \in Launches :
  \/ start[l].pc \in {"wait", "stop"}
  \/ start[l].pc = "done" /\ hub[l].pc \in Young
  => box = FALSE

Newest(l) == \A k \in Launches : k > l => start[k].pc \in {"idle", "done"}
Due(l) ==
  /\ start[l].ready = TRUE /\ Newest(l)
  /\ start[l].pc = "wait" \/ (start[l].pc \in {"settle", "released"} /\ box = TRUE)

Serving(l) ==
  /\ hub[l].pc = "bind" /\ start[l].pc = "wait" => hub[l].term = FALSE
  /\ Due(l) => /\ hub[l].pc = "serve" /\ hub[l].term = FALSE
               /\ start[l].pc = "wait" => hub[l].due = FALSE
               /\ hub[l].due = TRUE => hub[l].misses < MissLimit

EvenInv == SoloInv /\ DownInv /\ \A l \in Launches : Serving(l)
KeepInv == CallInv /\ FieldInv /\ OrderInv /\ (odd = FALSE => EvenInv)

LEMMA WhoIsWho ==
  /\ \A k, l \in Launches : /\ Hub(k) = Hub(l) => k = l
                            /\ Starter(k) = Starter(l) => k = l
                            /\ Hub(k) # Starter(l)
  /\ \A l \in Launches, s \in Stops : Hub(l) # Stopper(s) /\ Starter(l) # Stopper(s)
  /\ \A c \in Callers : \/ \E l \in Launches : c = Hub(l) \/ c = Starter(l)
                        \/ \E s \in Stops : c = Stopper(s)
  BY DEF Hub, Starter, Stopper, Callers

LEMMA CallToIs ==
  ASSUME TypeOK, NEW c \in Callers, NEW pc, CallTo(c, pc)
  PROVE  call'[c] = pc /\ \A b \in Callers \ {c} : call'[b] = call[b]
  BY DEF TypeOK, CallTo

LEMMA StartToIs ==
  ASSUME TypeOK, NEW l \in Launches, NEW pc, StartTo(l, pc)
  PROVE  /\ start'[l].pc = pc /\ start'[l].ready = start[l].ready
         /\ \A k \in Launches \ {l} : start'[k] = start[k]
  BY DEF TypeOK, StartTo

LEMMA StartEndsIs ==
  ASSUME TypeOK, NEW l \in Launches, StartEnds(l)
  PROVE  /\ start'[l].pc = "done" /\ start'[l].ready = FALSE
         /\ \A k \in Launches \ {l} : start'[k] = start[k]
  BY DEF TypeOK, StartEnds

LEMMA HubToIs ==
  ASSUME TypeOK, NEW l \in Launches, NEW pc, HubTo(l, pc)
  PROVE  /\ hub'[l].pc = pc /\ hub'[l].term = hub[l].term
         /\ hub'[l].due = hub[l].due /\ hub'[l].misses = hub[l].misses
         /\ \A k \in Launches \ {l} : hub'[k] = hub[k]
  BY DEF TypeOK, HubTo, HubState

LEMMA HubEndsIs ==
  ASSUME TypeOK, NEW l \in Launches, NEW pc, HubEnds(l, pc)
  PROVE  /\ hub'[l].pc = pc /\ hub'[l].term = FALSE
         /\ hub'[l].due = FALSE /\ hub'[l].misses = 0
         /\ \A k \in Launches \ {l} : hub'[k] = hub[k]
  BY DEF TypeOK, HubEnds, NoHub

\* A step after which no more calls are under way, and hubs and starts are as before.
LEMMA StillKeeps ==
  ASSUME KeepInv, UNCHANGED <<hub, start>>, box' = box \/ box' = FALSE,
         odd' = FALSE => odd = FALSE,
         \A b \in Callers : call'[b] # "idle" => call[b] # "idle"
  PROVE  KeepInv'
  <1>1. CallInv'
    BY WhoCalls DEF KeepInv, CallInv
  <1>2. FieldInv' /\ OrderInv'
    BY DEF KeepInv, FieldInv, OrderInv
  <1>3. ASSUME odd' = FALSE PROVE EvenInv'
    <2>1. SoloInv /\ DownInv /\ \A l \in Launches : Serving(l)
      BY <1>3 DEF KeepInv, EvenInv
    <2>2. \A l \in Launches : Active(l)' <=> Active(l)
      BY DEF Active, Ended
    <2>3. SoloInv'
      BY <2>1, <2>2, WhoCalls DEF SoloInv
    <2>4. DownInv'
      BY <2>1 DEF DownInv
    <2>5. \A l \in Launches : Serving(l)'
      BY <2>1 DEF Serving, Due, Newest
    <2>6. QED
      BY <2>3, <2>4, <2>5 DEF EvenInv
  <1>4. QED
    BY <1>1, <1>2, <1>3 DEF KeepInv

\* A step of one hub.
LEMMA HubWork ==
  ASSUME KeepInv, NEW l \in Launches,
         \A k \in Launches \ {l} : hub'[k] = hub[k] /\ start'[k] = start[k],
         start'[l].pc = start[l].pc, start[l].pc = "idle" => start'[l] = start[l],
         \A b \in Callers : call'[b] # "idle" => call[b] # "idle",
         box' = box, odd' = FALSE => odd = FALSE,
         hub'[l].pc \in Young => hub[l].pc \in Young,
         call'[Hub(l)] # "idle" => hub'[l].pc = "take",
         hub'[l].pc # "serve" => hub'[l].due = FALSE /\ hub'[l].misses = 0,
         hub'[l].pc \notin {"bind", "serve"} => hub'[l].term = FALSE,
         odd' = FALSE => Serving(l)'
  PROVE  KeepInv'
  <1>1. \A k \in Launches : start'[k].pc = start[k].pc
    OBVIOUS
  <1>2. CallInv'
    BY <1>1, WhoCalls, WhoIsWho DEF KeepInv, CallInv
  <1>3. FieldInv' /\ OrderInv'
    BY <1>1 DEF KeepInv, FieldInv, OrderInv
  <1>4. ASSUME odd' = FALSE PROVE EvenInv'
    <2>1. SoloInv /\ DownInv /\ \A k \in Launches : Serving(k)
      BY <1>4 DEF KeepInv, EvenInv
    <2>2. \A k \in Launches : Active(k)' => Active(k)
      BY <1>1 DEF Active, Ended
    <2>3. SoloInv'
      BY <1>1, <2>1, <2>2, WhoCalls DEF SoloInv
    <2>4. DownInv'
      BY <1>1, <2>1 DEF DownInv
    <2>5. ASSUME NEW k \in Launches, k # l PROVE Serving(k)'
      <3>1. hub'[k] = hub[k] /\ start'[k] = start[k] /\ (Newest(k)' <=> Newest(k))
        BY <1>1, <2>5 DEF Newest
      <3>2. QED
        BY <2>1, <3>1 DEF Serving, Due
    <2>6. QED
      BY <1>4, <2>3, <2>4, <2>5 DEF EvenInv
  <1>5. QED
    BY <1>2, <1>3, <1>4 DEF KeepInv

\* A step of one start, but the run.
LEMMA StartWork ==
  ASSUME KeepInv, NEW l \in Launches, hub' = hub, box' = box,
         \A k \in Launches \ {l} : start'[k] = start[k],
         ~Ended(l), start'[l].pc \in {"stop", "done", "released"},
         \A b \in Callers \ {Starter(l)} : call'[b] # "idle" => call[b] # "idle",
         call'[Starter(l)] # "idle" => start'[l].pc = "stop",
         odd' = FALSE => odd = FALSE,
         odd' = FALSE /\ start'[l].pc # "released" => box = FALSE,
         start'[l].pc = "released" =>
           start[l].pc = "settle" /\ box = TRUE /\ start'[l].ready = start[l].ready
  PROVE  KeepInv'
  <1>1. \A k \in Launches : start'[k].pc = "idle" <=> start[k].pc = "idle"
    BY DEF Ended
  <1>2. CallInv'
    BY WhoCalls, WhoIsWho DEF KeepInv, CallInv
  <1>3. FieldInv' /\ OrderInv'
    BY <1>1 DEF KeepInv, FieldInv, OrderInv
  <1>4. ASSUME odd' = FALSE PROVE EvenInv'
    <2>1. SoloInv /\ DownInv /\ \A k \in Launches : Serving(k)
      BY <1>4 DEF KeepInv, EvenInv
    <2>2. Active(l) /\ \A k \in Launches : Active(k)' => Active(k)
      BY DEF Active, Ended
    <2>3. SoloInv'
      BY <1>1, <2>1, <2>2, WhoCalls, WhoIsWho DEF SoloInv
    <2>4. DownInv'
      BY <1>4, <2>1 DEF DownInv
    <2>5. ASSUME NEW k \in Launches, k # l PROVE Serving(k)'
      <3>1. ~Active(k) /\ start'[k] = start[k]
        BY <2>1, <2>2, <2>5 DEF SoloInv
      <3>2. CASE Due(k)'
        <4>1. start[k].pc = "released" /\ box = TRUE
          BY <3>1, <3>2 DEF Due, Active, Ended
        <4>2. start'[l].pc = "released" /\ start[l].pc = "settle"
          BY <1>4, <4>1
        <4>3. Newest(k)
          <5>1. ~(l > k)
            BY <3>2, <4>2 DEF Due, Newest
          <5>2. QED
            BY <3>2, <5>1 DEF Due, Newest
        <4>4. QED
          BY <2>1, <3>1, <3>2, <4>1, <4>3 DEF Serving, Due
      <3>3. CASE ~Due(k)'
        BY <2>1, <3>1, <3>3 DEF Serving
      <3>4. QED
        BY <3>2, <3>3
    <2>6. Serving(l)'
      <3>1. CASE Due(l)'
        <4>1. start'[l].pc = "released"
          BY <3>1 DEF Due
        <4>2. Due(l)
          BY <3>1, <4>1, LaunchesAssumption DEF Due, Newest
        <4>3. QED
          BY <2>1, <4>1, <4>2 DEF Serving
      <3>2. CASE ~Due(l)'
        BY <3>2 DEF Serving
      <3>3. QED
        BY <3>1, <3>2
    <2>7. QED
      BY <2>3, <2>4, <2>5, <2>6 DEF EvenInv
  <1>5. QED
    BY <1>2, <1>3, <1>4 DEF KeepInv

LEMMA RunKeeps ==
  ASSUME TypeOK, KeepInv, NEW l \in Launches, Run(l)
  PROVE  KeepInv'
  <1>1. /\ start[l].pc = "wait" /\ start'[l].pc = "settle"
        /\ start'[l].ready = start[l].ready
        /\ \A k \in Launches \ {l} : start'[k] = start[k]
        /\ UNCHANGED <<call, hub, odd>> /\ box' \in {box, TRUE}
    BY StartToIs DEF Run
  <1>2. CallInv'
    BY <1>1, WhoIsWho DEF KeepInv, CallInv
  <1>3. FieldInv' /\ OrderInv'
    BY <1>1 DEF KeepInv, FieldInv, OrderInv
  <1>4. ASSUME odd' = FALSE PROVE EvenInv'
    <2>1. SoloInv /\ DownInv /\ \A k \in Launches : Serving(k)
      BY <1>1, <1>4 DEF KeepInv, EvenInv
    <2>2. /\ Active(l) /\ box = FALSE
          /\ \A k \in Launches \ {l} : ~Active(k)
          /\ \A s \in Stops : call[Stopper(s)] = "idle"
      BY <1>1, <2>1 DEF Active, Ended, SoloInv, DownInv
    <2>3. \A k \in Launches : Active(k)' => Active(k)
      BY <1>1 DEF Active, Ended
    <2>4. SoloInv'
      BY <1>1, <2>1, <2>2, <2>3 DEF SoloInv
    <2>5. DownInv'
      BY <1>1, <2>2 DEF DownInv, Active, Ended
    <2>6. ASSUME NEW k \in Launches, k # l PROVE Serving(k)'
      <3>1. start'[k] = start[k] /\ start[k].pc # "wait"
        BY <1>1, <2>2, <2>6 DEF Active, Ended
      <3>2. ~Due(k)'
        <4>1. SUFFICES ASSUME Due(k)' PROVE FALSE
          OBVIOUS
        <4>2. start[k].pc = "released"
          BY <2>2, <2>6, <3>1, <4>1 DEF Due, Active, Ended
        <4>3. ~(l > k)
          BY <1>1, <4>1 DEF Due, Newest
        <4>4. l < k
          BY <2>6, <4>3, LaunchesAssumption
        <4>5. QED
          BY <2>1, <2>2, <4>2, <4>4 DEF SoloInv
      <3>3. QED
        BY <3>1, <3>2 DEF Serving
    <2>7. Serving(l)'
      <3>1. CASE Due(l)'
        <4>1. Due(l)
          BY <1>1, <3>1, LaunchesAssumption DEF Due, Newest
        <4>2. QED
          BY <1>1, <2>1, <4>1 DEF Serving
      <3>2. CASE ~Due(l)'
        BY <1>1, <3>2 DEF Serving
      <3>3. QED
        BY <3>1, <3>2
    <2>8. QED
      BY <2>4, <2>5, <2>6, <2>7 DEF EvenInv
  <1>5. QED
    BY <1>2, <1>3, <1>4 DEF KeepInv

LEMMA BeginKeeps ==
  ASSUME TypeOK, FreshInv, KeepInv, NEW l \in Launches, Begin(l)
  PROVE  KeepInv'
  <1>1. /\ start[l].pc = "idle" /\ start'[l].pc = "wait"
        /\ start'[l].ready = FALSE /\ hub[l].pc = "none"
        /\ \A k \in Launches \ {l} : start'[k] = start[k]
        /\ \A k \in Launches : k < l => start[k].pc # "idle"
        /\ box = FALSE /\ box' = FALSE /\ odd' = (odd \/ Busy)
    BY StartToIs DEF Begin, TypeOK, KeepInv, FieldInv, FreshInv
  <1>2. /\ hub'[l].pc \in {"none", "take"} /\ hub'[l].term = FALSE
        /\ hub'[l].due = FALSE /\ hub'[l].misses = 0
        /\ \A k \in Launches \ {l} : hub'[k] = hub[k]
    BY <1>1, HubToIs DEF Begin, KeepInv, FieldInv
  <1>3. /\ \A b \in Callers \ {Hub(l)} : call'[b] = call[b]
        /\ call'[Hub(l)] # "idle" => hub'[l].pc = "take"
    <2>1. CASE HubTo(l, "take") /\ CallTo(Hub(l), "try")
      BY <2>1, HubToIs, CallToIs, WhoCalls
    <2>2. CASE UNCHANGED <<hub, call>>
      BY <2>2 DEF KeepInv, CallInv
    <2>3. QED
      BY <2>1, <2>2 DEF Begin
  <1>4. CallInv'
    <2>1. ASSUME NEW k \in Launches PROVE call'[Starter(k)] # "idle" => start'[k].pc = "stop"
      <3>1. call'[Starter(k)] = call[Starter(k)] /\ (call[Starter(k)] # "idle" => start[k].pc = "stop")
        BY <1>3, WhoCalls, WhoIsWho DEF KeepInv, CallInv
      <3>2. QED
        BY <1>1, <3>1
    <2>2. ASSUME NEW k \in Launches PROVE call'[Hub(k)] # "idle" => hub'[k].pc = "take"
      BY <1>2, <1>3, WhoCalls, WhoIsWho DEF KeepInv, CallInv
    <2>3. QED
      BY <2>1, <2>2 DEF CallInv
  <1>5. FieldInv'
    BY <1>1, <1>2 DEF KeepInv, FieldInv
  <1>6. OrderInv'
    <2>1. ASSUME NEW j \in Launches, NEW k \in Launches, j < k, start'[k].pc # "idle"
          PROVE  start'[j].pc # "idle"
      BY <1>1, <2>1 DEF KeepInv, OrderInv
    <2>2. QED
      BY <2>1 DEF OrderInv
  <1>7. ASSUME odd' = FALSE PROVE EvenInv'
    <2>1. /\ odd = FALSE /\ \A k \in Launches : ~Active(k)
          /\ \A s \in Stops : call[Stopper(s)] = "idle"
      BY <1>1, <1>7 DEF TypeOK, Busy, Active, Young
    <2>2. \A k \in Launches \ {l} : ~Active(k)' /\ start'[k].pc # "wait"
      BY <1>1, <1>2, <2>1 DEF Active, Ended
    <2>3. \A s \in Stops : call'[Stopper(s)] = "idle"
      BY <1>3, <2>1, WhoCalls, WhoIsWho
    <2>4. \A j, k \in Launches : j < k /\ start'[k].pc # "idle" => j # l
      <3>1. SUFFICES ASSUME NEW k \in Launches, l < k, start'[k].pc # "idle" PROVE FALSE
        OBVIOUS
      <3>2. k # l
        BY <3>1, LaunchesAssumption
      <3>3. QED
        BY <1>1, <3>1, <3>2 DEF KeepInv, OrderInv
    <2>5. SoloInv'
      BY <2>2, <2>3, <2>4 DEF SoloInv
    <2>6. DownInv'
      BY <1>1 DEF DownInv
    <2>7. ASSUME NEW k \in Launches PROVE Serving(k)'
      <3>1. ~Due(k)'
        BY <1>1, <2>2 DEF Due
      <3>2. hub'[k].pc # "bind" \/ start'[k].pc # "wait"
        BY <1>2, <2>2
      <3>3. QED
        BY <3>1, <3>2 DEF Serving
    <2>8. QED
      BY <2>5, <2>6, <2>7 DEF EvenInv
  <1>8. QED
    BY <1>4, <1>5, <1>6, <1>7 DEF KeepInv

\* Who reads the pid finds none of a start that is to keep its hub.
LEMMA NobodyReads ==
  ASSUME TypeOK, FreshInv, CallInv, EvenInv, NEW c \in Callers, call[c] # "idle",
         NEW l \in Launches, hub[l].pc \in {"bind", "serve"},
         start[l].pc = "wait" \/ Due(l)
  PROVE  FALSE
  <1>1. SoloInv /\ DownInv /\ Serving(l) /\ start[l].pc # "idle"
    BY DEF EvenInv, Due
  <1>2. start[l].pc = "wait" => Active(l)
    BY DEF Active, Ended
  <1>3. box = TRUE \/ start[l].pc = "wait"
    BY DEF Due
  <1>4. ASSUME NEW k \in Launches, Active(k), k # l PROVE box = TRUE /\ k > l /\ start[k].pc = "done"
    <2>1. box = TRUE /\ Due(l)
      BY <1>1, <1>2, <1>4 DEF SoloInv, Due
    <2>2. ~(k < l)
      BY <1>1, <1>4 DEF SoloInv
    <2>3. k > l
      BY <1>4, <2>2, LaunchesAssumption
    <2>4. start[k].pc \in {"idle", "done"}
      BY <2>1, <2>3 DEF Due, Newest
    <2>5. start[k].pc # "idle"
      BY <1>4 DEF Active, Ended, FreshInv, Young
    <2>6. QED
      BY <2>1, <2>3, <2>4, <2>5
  <1>5. ASSUME NEW k \in Launches, c = Hub(k) PROVE FALSE
    <2>1. hub[k].pc = "take"
      BY <1>5 DEF CallInv
    <2>2. Active(k) /\ k # l
      BY <2>1 DEF Active, Young
    <2>3. QED
      BY <1>1, <1>4, <2>1, <2>2 DEF DownInv, Young
  <1>6. ASSUME NEW k \in Launches, c = Starter(k) PROVE FALSE
    <2>1. start[k].pc = "stop"
      BY <1>6 DEF CallInv
    <2>2. Active(k) /\ k # l
      BY <2>1 DEF Active, Ended, Due
    <2>3. QED
      BY <1>4, <2>1, <2>2
  <1>7. ASSUME NEW s \in Stops, c = Stopper(s) PROVE FALSE
    BY <1>1, <1>2, <1>3, <1>7 DEF SoloInv
  <1>8. QED
    BY <1>5, <1>6, <1>7, WhoIsWho

LEMMA CallKeeps ==
  ASSUME TypeOK, FreshInv, KeepInv, NEW c \in Callers, StopHub(c)
  PROVE  KeepInv'
  <1>1. /\ call[c] # "idle" /\ UNCHANGED <<box, start, odd>>
        /\ \A b \in Callers : call'[b] # "idle" => call[b] # "idle"
    BY CallToIs DEF StopHub, Try, Read, Poll
  <1>2. CASE Try(c) \/ Poll(c)
    BY <1>1, <1>2, StillKeeps DEF Try, Poll
  <1>3. CASE Read(c)
    <2>1. \A l \in Launches :
            /\ hub'[l].pc = hub[l].pc /\ hub'[l].due = hub[l].due
            /\ hub'[l].misses = hub[l].misses
            /\ hub'[l].term = hub[l].term \/ hub[l].pc \in {"bind", "serve"}
      BY <1>3 DEF Read, TypeOK, HubState
    <2>2. CallInv'
      BY <1>1, <2>1, WhoCalls DEF KeepInv, CallInv
    <2>3. FieldInv' /\ OrderInv'
      BY <1>1, <2>1 DEF KeepInv, FieldInv, OrderInv
    <2>4. ASSUME odd' = FALSE PROVE EvenInv'
      <3>1. CallInv /\ EvenInv
        BY <1>1, <2>4 DEF KeepInv
      <3>2. \A l \in Launches : Active(l)' <=> Active(l)
        BY <1>1, <2>1 DEF Active, Ended
      <3>3. SoloInv'
        BY <1>1, <3>1, <3>2, WhoCalls DEF SoloInv, EvenInv
      <3>4. DownInv'
        BY <1>1, <2>1, <3>1 DEF DownInv, EvenInv
      <3>5. ASSUME NEW l \in Launches PROVE Serving(l)'
        <4>1. Serving(l) /\ (Due(l)' <=> Due(l))
          BY <1>1, <3>1 DEF EvenInv, Due, Newest
        <4>2. ~(hub[l].pc \in {"bind", "serve"} /\ (start[l].pc = "wait" \/ Due(l)))
          BY <1>1, <3>1, NobodyReads
        <4>3. QED
          BY <1>1, <2>1, <4>1, <4>2 DEF Serving
      <3>6. QED
        BY <3>3, <3>4, <3>5 DEF EvenInv
    <2>5. QED
      BY <2>2, <2>3, <2>4 DEF KeepInv
  <1>4. QED
    BY <1>2, <1>3 DEF StopHub

LEMMA ReturnIs ==
  ASSUME TypeOK, NEW c \in Callers, Return(c)
  PROVE  call'[c] = "idle" /\ \A b \in Callers : call'[b] # "idle" => call[b] # "idle"
  BY CallToIs DEF Return

LEMMA StartKeeps ==
  ASSUME TypeOK, FreshInv, KeepInv, NEW l \in Launches, Start(l) \/ StartKilled(l)
  PROVE  KeepInv'
  <1>1. Starter(l) \in Callers
    BY WhoCalls
  <1>2. odd = FALSE /\ start[l].pc \in {"wait", "stop"} => box = FALSE
    BY DEF KeepInv, EvenInv, DownInv
  <1>3. CASE Refuse(l) \/ NotUp(l)
    <2>1. /\ start[l].pc \in {"wait", "settle"} /\ Quit(l) /\ (odd = FALSE => box = FALSE)
      BY <1>2, <1>3 DEF Refuse, NotUp, TypeOK
    <2>2. /\ start'[l].pc = "stop" /\ \A k \in Launches \ {l} : start'[k] = start[k]
          /\ \A b \in Callers \ {Starter(l)} : call'[b] = call[b]
          /\ UNCHANGED <<box, hub, odd>>
      BY <1>1, <2>1, StartToIs, CallToIs DEF Quit
    <2>3. QED
      BY <2>1, <2>2, StartWork DEF Ended
  <1>4. CASE RefuseUnspawned(l)
    <2>1. /\ start[l].pc = "wait" /\ start'[l].pc = "done"
          /\ \A k \in Launches \ {l} : start'[k] = start[k]
          /\ UNCHANGED <<box, call, hub, odd>>
      BY <1>4, StartEndsIs DEF RefuseUnspawned
    <2>2. call[Starter(l)] = "idle"
      BY <2>1 DEF KeepInv, CallInv
    <2>3. QED
      BY <1>2, <2>1, <2>2, StartWork DEF Ended
  <1>5. CASE Run(l)
    BY <1>5, RunKeeps
  <1>6. CASE Release(l)
    <2>1. /\ start[l].pc = "settle" /\ start'[l].pc = "released" /\ box = TRUE
          /\ start'[l].ready = start[l].ready
          /\ \A k \in Launches \ {l} : start'[k] = start[k]
          /\ UNCHANGED <<box, call, hub, odd>>
      BY <1>6, StartToIs DEF Release, TypeOK
    <2>2. call[Starter(l)] = "idle"
      BY <2>1 DEF KeepInv, CallInv
    <2>3. QED
      BY <2>1, <2>2, StartWork DEF Ended
  <1>7. CASE StopHub(Starter(l))
    BY <1>1, <1>7, CallKeeps
  <1>8. CASE Stopped(l) \/ StartKilled(l)
    <2>1. /\ start'[l].pc = "done" /\ \A k \in Launches \ {l} : start'[k] = start[k]
          /\ call'[Starter(l)] = "idle"
          /\ \A b \in Callers : call'[b] # "idle" => call[b] # "idle"
          /\ UNCHANGED <<box, hub>> /\ ~Ended(l)
      BY <1>1, <1>8, StartEndsIs, ReturnIs DEF Stopped, StartKilled, Ended
    <2>2. odd' = FALSE => odd = FALSE /\ start[l].pc = "stop"
      BY <1>8 DEF Stopped, StartKilled
    <2>3. QED
      BY <1>2, <2>1, <2>2, StartWork
  <1>9. QED
    BY <1>3, <1>4, <1>5, <1>6, <1>7, <1>8 DEF Start

\* A step of a hub that had nothing to keep.
LEMMA HubIdles ==
  ASSUME KeepInv, NEW l \in Launches, hub[l].pc # "serve",
         \A k \in Launches \ {l} : hub'[k] = hub[k],
         hub'[l].pc \in Young => hub[l].pc \in Young,
         hub'[l].pc # "serve", hub'[l].due = FALSE, hub'[l].misses = 0, hub'[l].term = FALSE,
         \A b \in Callers : call'[b] # "idle" => call[b] # "idle",
         call'[Hub(l)] = "idle",
         UNCHANGED <<start, box, odd>>
  PROVE  KeepInv'
  <1>1. odd' = FALSE => Serving(l)'
    BY DEF KeepInv, EvenInv, Serving, Due, Newest
  <1>2. QED
    BY <1>1, HubWork

LEMMA ServeKeeps ==
  ASSUME TypeOK, FreshInv, KeepInv, NEW l \in Launches, Serve(l)
  PROVE  KeepInv'
  <1>1. Hub(l) \in Callers /\ (hub[l].pc # "take" => call[Hub(l)] = "idle")
    BY WhoCalls DEF KeepInv, CallInv
  <1>2. /\ hub[l].pc # "serve" => hub[l].due = FALSE /\ hub[l].misses = 0
        /\ hub[l].pc \notin {"bind", "serve"} => hub[l].term = FALSE
    BY DEF KeepInv, FieldInv
  <1>3. CASE StopHub(Hub(l))
    BY <1>1, <1>3, CallKeeps
  <1>4. CASE Taken(l)
    <2>1. /\ hub[l].pc = "take" /\ UNCHANGED <<box, start, odd>>
          /\ call'[Hub(l)] = "idle" /\ \A b \in Callers : call'[b] # "idle" => call[b] # "idle"
          /\ HubTo(l, "open") \/ HubEnds(l, "failed")
      BY <1>1, <1>4, ReturnIs DEF Taken
    <2>2. /\ \A k \in Launches \ {l} : hub'[k] = hub[k]
          /\ hub'[l].pc \in {"open", "failed"} /\ hub'[l].due = FALSE
          /\ hub'[l].misses = 0 /\ hub'[l].term = FALSE
      BY <1>2, <2>1, HubToIs, HubEndsIs
    <2>3. QED
      BY <2>1, <2>2, HubIdles DEF Young
  <1>5. CASE Open(l)
    <2>1. /\ hub[l].pc = "open" /\ UNCHANGED <<box, start, call, odd>>
          /\ HubTo(l, "locked") \/ HubEnds(l, "failed")
      BY <1>5 DEF Open
    <2>2. /\ \A k \in Launches \ {l} : hub'[k] = hub[k]
          /\ hub'[l].pc \in {"locked", "failed"} /\ hub'[l].due = FALSE
          /\ hub'[l].misses = 0 /\ hub'[l].term = FALSE
      BY <1>2, <2>1, HubToIs, HubEndsIs
    <2>3. QED
      BY <1>1, <2>1, <2>2, HubIdles DEF Young
  <1>6. CASE WritePid(l)
    <2>1. /\ hub[l].pc = "locked" /\ UNCHANGED <<box, start, call, odd>> /\ HubTo(l, "bind")
      BY <1>6 DEF WritePid
    <2>2. /\ \A k \in Launches \ {l} : hub'[k] = hub[k]
          /\ hub'[l].pc = "bind" /\ hub'[l].due = FALSE
          /\ hub'[l].misses = 0 /\ hub'[l].term = FALSE
      BY <1>2, <2>1, HubToIs
    <2>3. QED
      BY <1>1, <2>1, <2>2, HubIdles DEF Young
  <1>7. CASE Bind(l)
    <2>1. hub[l].pc = "bind" /\ UNCHANGED <<box, call, odd>>
      BY <1>7 DEF Bind
    <2>2. CASE HubEnds(l, "sweep") /\ UNCHANGED start
      <3>1. /\ \A k \in Launches \ {l} : hub'[k] = hub[k]
            /\ hub'[l].pc = "sweep" /\ hub'[l].due = FALSE
            /\ hub'[l].misses = 0 /\ hub'[l].term = FALSE
        BY <2>2, HubEndsIs
      <3>2. QED
        BY <1>1, <2>1, <2>2, <3>1, HubIdles DEF Young
    <2>3. CASE /\ start[l].pc = "wait" /\ HubTo(l, "serve")
               /\ start' = [start EXCEPT ![l].ready = TRUE]
      <3>1. /\ hub'[l].pc = "serve" /\ hub'[l].term = hub[l].term
            /\ hub'[l].due = FALSE
            /\ \A k \in Launches \ {l} : hub'[k] = hub[k]
        BY <1>2, <2>1, <2>3, HubToIs
      <3>2. /\ start'[l].pc = "wait"
            /\ \A k \in Launches \ {l} : start'[k] = start[k]
        BY <2>3 DEF TypeOK
      <3>3. ASSUME odd' = FALSE PROVE Serving(l)'
        <4>1. hub[l].term = FALSE
          BY <2>1, <2>3, <3>3 DEF KeepInv, EvenInv, Serving
        <4>2. QED
          BY <3>1, <4>1 DEF Serving
      <3>4. QED
        BY <1>1, <2>1, <2>3, <3>1, <3>2, <3>3, HubWork DEF Young
    <2>4. QED
      BY <1>7, <2>2, <2>3 DEF Bind
  <1>8. CASE Terminated(l)
    <2>1. /\ hub[l].pc = "serve" /\ hub[l].term = TRUE
          /\ UNCHANGED <<box, start, call, odd>>
      BY <1>8 DEF Terminated, TypeOK, HubState
    <2>2. /\ \A k \in Launches \ {l} : hub'[k] = hub[k]
          /\ hub'[l].pc = "sweep" /\ hub'[l].due = FALSE
          /\ hub'[l].misses = 0 /\ hub'[l].term = FALSE
      BY <1>8, HubEndsIs DEF Terminated
    <2>3. odd' = FALSE => Serving(l)'
      BY <2>1, <2>2 DEF KeepInv, EvenInv, Serving, Due, Newest
    <2>4. QED
      BY <1>1, <2>1, <2>2, <2>3, HubWork DEF Young
  <1>9. CASE Tick(l)
    <2>1. /\ hub[l].pc = "serve" /\ UNCHANGED <<box, start, call, lock, pid>>
      BY <1>9 DEF Tick
    <2>2. PICK live \in BOOLEAN :
            /\ live => box
            /\ LET h == Probed(hub[l], live) IN
               /\ odd' = (odd \/ (box /\ h.misses = MissLimit))
               /\ \/ Gives(h) /\ HubEnds(l, "sweep")
                  \/ ~Gives(h) /\ hub' = [hub EXCEPT ![l] = h]
      BY <1>9 DEF Tick
    <2> DEFINE h == Probed(hub[l], live)
    <2>3. /\ h.pc = "serve" /\ h.term = hub[l].term /\ h.misses \in 0..MissLimit
          /\ h.due = (hub[l].due \/ live) /\ (live => h.misses = 0) /\ h \in HubState
      <3>1. hub[l] \in HubState
        BY DEF TypeOK
      <3>2. /\ h.pc = hub[l].pc /\ h.term = hub[l].term /\ h.misses \in 0..MissLimit
            /\ h.due = (hub[l].due \/ live) /\ (live => h.misses = 0)
        BY <3>1, ProbedFields
      <3>3. h \in HubState
        BY <3>1, ProbedIsState
      <3> HIDE DEF h
      <3>4. QED
        BY <2>1, <3>2, <3>3
    <2>4. /\ odd' = (odd \/ (box /\ h.misses = MissLimit))
          /\ \/ h.misses >= MissLimit /\ h.due = TRUE /\ HubEnds(l, "sweep")
             \/ ~(h.misses >= MissLimit /\ h.due = TRUE) /\ hub' = [hub EXCEPT ![l] = h]
      BY <2>2, <2>3 DEF Gives, HubState
    <2> HIDE DEF h
    <2>5. CASE HubEnds(l, "sweep") /\ h.misses >= MissLimit /\ h.due = TRUE
      <3>1. /\ \A k \in Launches \ {l} : hub'[k] = hub[k]
            /\ hub'[l].pc = "sweep" /\ hub'[l].due = FALSE
            /\ hub'[l].misses = 0 /\ hub'[l].term = FALSE
        BY <2>5, HubEndsIs
      <3>2. ASSUME odd' = FALSE PROVE ~Due(l)
        <4>1. odd = FALSE /\ ~(box /\ h.misses = MissLimit)
          BY <2>4, <3>2 DEF TypeOK
        <4>2. box = FALSE /\ live = FALSE
          <5>1. h.misses = MissLimit /\ h.misses # 0
            BY <2>3, <2>5, MissAssumption
          <5>2. box \in BOOLEAN /\ live \in BOOLEAN
            BY DEF TypeOK
          <5>3. QED
            BY <2>3, <4>1, <5>1, <5>2
        <4>3. hub[l].due = TRUE
          BY <2>3, <2>5, <4>2 DEF TypeOK, HubState
        <4>4. QED
          BY <4>1, <4>2, <4>3 DEF KeepInv, EvenInv, Serving, Due
      <3>3. odd' = FALSE => odd = FALSE /\ Serving(l)'
        <4>1. ASSUME odd' = FALSE PROVE odd = FALSE
          BY <2>4, <4>1 DEF TypeOK
        <4>2. Due(l)' <=> Due(l)
          BY <2>1 DEF Due, Newest
        <4>3. ASSUME odd' = FALSE PROVE Serving(l)'
          BY <3>1, <3>2, <4>2, <4>3 DEF Serving
        <4>4. QED
          BY <4>1, <4>3
      <3>4. QED
        BY <1>1, <2>1, <3>1, <3>3, HubWork DEF Young
    <2>6. CASE hub' = [hub EXCEPT ![l] = h]
      <3>1. hub'[l] = h /\ \A k \in Launches \ {l} : hub'[k] = hub[k]
        BY <2>6 DEF TypeOK
      <3>2. ASSUME odd' = FALSE PROVE Serving(l)'
        <4>1. odd = FALSE /\ ~(box /\ h.misses = MissLimit)
          BY <2>4, <3>2 DEF TypeOK
        <4>2. Serving(l) /\ (Due(l)' <=> Due(l))
          BY <2>1, <4>1 DEF KeepInv, EvenInv, Due, Newest
        <4>3. ASSUME Due(l) PROVE /\ h.term = FALSE
                                  /\ start[l].pc = "wait" => h.due = FALSE
                                  /\ h.due = TRUE => h.misses < MissLimit
          <5>1. h.term = FALSE
            BY <2>3, <4>2, <4>3 DEF Serving
          <5>2. CASE start[l].pc = "wait"
            <6>1. box = FALSE /\ live = FALSE /\ hub[l].due = FALSE
              BY <2>2, <4>1, <4>2, <4>3, <5>2
                 DEF Serving, KeepInv, EvenInv, DownInv, TypeOK
            <6>2. h.due = FALSE
              BY <2>3, <6>1
            <6>3. QED
              BY <5>1, <6>2
          <5>3. CASE start[l].pc # "wait"
            <6>1. box = TRUE
              BY <4>3, <5>3 DEF Due
            <6>2. h.misses # MissLimit
              BY <4>1, <6>1
            <6>3. h.misses < MissLimit
              BY <2>3, <6>2, MissAssumption
            <6>4. QED
              BY <5>1, <5>3, <6>3
          <5>4. QED
            BY <5>2, <5>3
        <4>4. QED
          BY <2>1, <2>3, <3>1, <4>2, <4>3 DEF Serving
      <3>3. odd' = FALSE => odd = FALSE
        BY <2>4 DEF TypeOK
      <3>4. QED
        BY <1>1, <2>1, <2>3, <3>1, <3>2, <3>3, HubWork DEF Young
    <2>7. QED
      BY <2>4, <2>5, <2>6
  <1>10. CASE Sweep(l)
    <2>1. /\ hub[l].pc = "sweep" /\ UNCHANGED <<box, start, call, odd>> /\ HubTo(l, "close")
      BY <1>10 DEF Sweep
    <2>2. /\ \A k \in Launches \ {l} : hub'[k] = hub[k]
          /\ hub'[l].pc = "close" /\ hub'[l].due = FALSE
          /\ hub'[l].misses = 0 /\ hub'[l].term = FALSE
      BY <1>2, <2>1, HubToIs
    <2>3. QED
      BY <1>1, <2>1, <2>2, HubIdles DEF Young
  <1>11. CASE Close(l)
    <2>1. /\ hub[l].pc = "close" /\ UNCHANGED <<box, start, call, odd>> /\ HubEnds(l, "gone")
      BY <1>11 DEF Close
    <2>2. /\ \A k \in Launches \ {l} : hub'[k] = hub[k]
          /\ hub'[l].pc = "gone" /\ hub'[l].due = FALSE
          /\ hub'[l].misses = 0 /\ hub'[l].term = FALSE
      BY <2>1, HubEndsIs
    <2>3. QED
      BY <1>1, <2>1, <2>2, HubIdles DEF Young
  <1>12. QED
    BY <1>3, <1>4, <1>5, <1>6, <1>7, <1>8, <1>9, <1>10, <1>11 DEF Serve

LEMMA GraceKeeps ==
  ASSUME TypeOK, KeepInv, NEW l \in Launches, GraceEnds(l)
  PROVE  KeepInv'
  <1>1. /\ hub[l].pc = "serve" /\ box = FALSE /\ start[l].pc # "wait"
        /\ UNCHANGED <<box, start, call, odd>>
    BY DEF GraceEnds, Ended, TypeOK
  <1>2. hub'[l].pc = "serve" /\ \A k \in Launches \ {l} : hub'[k] = hub[k]
    BY <1>1, GraceMoves DEF HubMoves
  <1>3. odd' = FALSE => Serving(l)'
    BY <1>1, <1>2 DEF Serving, Due
  <1>4. call[Hub(l)] = "idle"
    BY <1>1 DEF KeepInv, CallInv
  <1>5. QED
    BY <1>1, <1>2, <1>3, <1>4, HubWork DEF Young

LEMMA HubKilledKeeps ==
  ASSUME TypeOK, KeepInv, NEW l \in Launches, HubKilled(l)
  PROVE  KeepInv'
  <1>1. /\ odd' = TRUE /\ UNCHANGED <<box, start>> /\ Hub(l) \in Callers
        /\ CallTo(Hub(l), "idle")
    BY WhoCalls DEF HubKilled
  <1>2. /\ \A k \in Launches \ {l} : hub'[k] = hub[k]
        /\ hub'[l].pc \in {"killed", "failed"} /\ hub'[l].due = FALSE
        /\ hub'[l].misses = 0 /\ hub'[l].term = FALSE
    BY HubEndsIs DEF HubKilled
  <1>3. call'[Hub(l)] = "idle" /\ \A b \in Callers : call'[b] # "idle" => call[b] # "idle"
    BY <1>1, CallToIs
  <1>4. QED
    BY <1>1, <1>2, <1>3, HubWork DEF Young

LEMMA StopKeeps ==
  ASSUME TypeOK, FreshInv, KeepInv, NEW s \in Stops, BeginStop(s) \/ Stop(s)
  PROVE  KeepInv'
  <1>1. Stopper(s) \in Callers
    BY WhoCalls
  <1>2. CASE BeginStop(s)
    <2>1. /\ box' = FALSE /\ odd' = (odd \/ Busy) /\ UNCHANGED <<start, hub>>
          /\ \A b \in Callers \ {Stopper(s)} : call'[b] = call[b]
      BY <1>1, <1>2, CallToIs DEF BeginStop
    <2>2. CallInv'
      BY <2>1, WhoCalls, WhoIsWho DEF KeepInv, CallInv
    <2>3. FieldInv' /\ OrderInv'
      BY <2>1 DEF KeepInv, FieldInv, OrderInv
    <2>4. ASSUME odd' = FALSE PROVE EvenInv'
      <3>1. odd = FALSE /\ \A l \in Launches : ~Active(l)
        BY <2>1, <2>4 DEF TypeOK, Busy, Active, Young
      <3>2. \A l \in Launches : ~Active(l)' /\ start'[l].pc # "wait"
        BY <2>1, <3>1 DEF Active, Ended
      <3>3. SoloInv' /\ DownInv'
        BY <2>1, <3>2 DEF SoloInv, DownInv
      <3>4. \A l \in Launches : Serving(l)'
        BY <2>1, <3>2 DEF Serving, Due
      <3>5. QED
        BY <3>3, <3>4 DEF EvenInv
    <2>5. QED
      BY <2>2, <2>3, <2>4 DEF KeepInv
  <1>3. CASE StopHub(Stopper(s))
    BY <1>1, <1>3, CallKeeps
  <1>4. CASE EndStop(s)
    BY <1>1, <1>4, ReturnIs, StillKeeps DEF EndStop
  <1>5. QED
    BY <1>2, <1>3, <1>4 DEF Stop

LEMMA InitKeeps == Init => KeepInv
  <1> SUFFICES ASSUME Init PROVE KeepInv
    OBVIOUS
  <1>1. /\ \A l \in Launches : /\ start[l].pc = "idle" /\ start[l].ready = FALSE
                               /\ hub[l].pc = "none" /\ hub[l].term = FALSE
                               /\ hub[l].due = FALSE /\ hub[l].misses = 0
        /\ \A c \in Callers : call[c] = "idle"
        /\ box = FALSE
    BY DEF Init, NoHub
  <1>2. CallInv /\ FieldInv /\ OrderInv
    BY <1>1, WhoCalls DEF CallInv, FieldInv, OrderInv
  <1>3. \A l \in Launches : ~Active(l) /\ ~Due(l)
    BY <1>1 DEF Active, Ended, Young, Due
  <1>4. SoloInv /\ DownInv
    BY <1>1, <1>3, WhoCalls DEF SoloInv, DownInv
  <1>5. \A l \in Launches : Serving(l)
    BY <1>1, <1>3 DEF Serving
  <1>6. QED
    BY <1>2, <1>4, <1>5 DEF KeepInv, EvenInv

LEMMA NextKeeps == IInv /\ KeepInv /\ [Next]_vars => KeepInv'
  <1> SUFFICES ASSUME IInv, KeepInv, [Next]_vars PROVE KeepInv'
    OBVIOUS
  <1>1. TypeOK /\ FreshInv
    BY DEF IInv
  <1>2. ASSUME NEW l \in Launches,
               \/ Begin(l) \/ Start(l) \/ Serve(l) \/ GraceEnds(l)
               \/ StartKilled(l) \/ HubKilled(l)
        PROVE  KeepInv'
    BY <1>1, <1>2, BeginKeeps, StartKeeps, ServeKeeps, GraceKeeps, HubKilledKeeps
  <1>3. ASSUME NEW s \in Stops, BeginStop(s) \/ Stop(s) PROVE KeepInv'
    BY <1>1, <1>3, StopKeeps
  <1>4. CASE BoxEnds \/ BoxUnlinks \/ UNCHANGED vars
    BY <1>4, StillKeeps DEF BoxEnds, BoxUnlinks, vars
  <1>5. QED
    BY <1>2, <1>3, <1>4 DEF Next

\* While starts and stops of the box follow each other and nothing is killed, the
\* newest start that came up with a hub that answered has that hub for as long as the
\* box runs: no probe, no earlier hub and no time-out of a call takes it.
THEOREM HubIsKept == Spec => []KeepsHub
  <1>1. TypeOK /\ KeepInv => KeepsHub
    <2> SUFFICES ASSUME TypeOK, KeepInv, NEW l \in Launches,
                        ~odd, box, start[l].pc = "released", start[l].ready, Newest(l)
                 PROVE  hub[l].pc = "serve"
      BY DEF KeepsHub, Newest
    <2>1. odd = FALSE /\ box = TRUE /\ start[l].ready = TRUE
      BY DEF TypeOK
    <2>2. QED
      BY <2>1 DEF KeepInv, EvenInv, Serving, Due
  <1>2. IInv => TypeOK
    BY DEF IInv
  <1>3. QED
    BY InvAlways, InitKeeps, NextKeeps, <1>1, <1>2, PTL DEF Spec

-----------------------------------------------------------------------------
(* The supervisor in the box *)

\* The panel is watched, or will be from the next step on: no agent of the
\* session's is waited for any more.
PanelSide == sup.mode = "panel" \/ sup.pc = "panelboot"

\* The pane and the record of the session's agent tell how it ended, and the
\* record is the hook's of a foreground launch.
PaneInv ==
  /\ Dead(cli) => last = cli
  /\ cli = "live" => last = "none"
  /\ record # "none" => conf.teardown /\ (PanelSide \/ last = record)

\* Where each loop may be, and what a tick that found the agent dead relies on:
\* none is started before it acts.
LoopInv ==
  /\ sup.mode = "panel" => sup.pc \in {"top", "heal", "healed", "exited"} \cup PanelPCs
  /\ sup.pc \in PanelPCs => sup.mode = "panel"
  /\ sup.pc \in {"heal", "healed"} /\ sup.mode = "agent" => ~conf.teardown /\ ~sup.ended
  /\ sup.pc \in AgentPCs \ {"scan"} /\ ~sup.alive => cli # "live"
  /\ sup.pc \in {"close", "record"} => (conf.teardown \/ sup.ended) /\ cli # "live"
  /\ sup.pc = "record" => ~sup.ended /\ cli = "none"
  /\ sup.pc = "boot" =>
       sup.started /\ record = "none" /\ cli = "none" /\ last = "none"

\* An ended box is one whose agent ended well.  In a foreground box without a pane
\* the hook has written its record, unless the box was stopped, or no agent was
\* ever started.
EndInv == ~PanelSide =>
  /\ sup.ended => last = "ok"
  /\ conf.teardown /\ sup.started /\ sup.pc # "boot" /\ cli = "none" =>
       sup.stop \/ record # "none"
  /\ conf.teardown /\ ~sup.started => cli = "none" /\ last = "none" /\ record = "none"

SupInv == SupTypeOK /\ PaneInv /\ LoopInv /\ EndInv /\ ExitCodeTrue

LEMMA SupParameters ==
  MaxRetries \in Nat \ {0} /\ MaxRaises \in Nat /\ Confs \subseteq Options
  BY MaxRetriesAssumption, MaxRaisesAssumption, ConfsAssumption

\* What a step may do to the supervisor's own state.
LEMMA SupPcs ==
  /\ "look" \in PCs /\ "panelboot" \in PCs /\ "top" \in PCs
  /\ "close" \in PCs /\ "record" \in PCs /\ "heal" \in PCs
  /\ "healed" \in PCs /\ "exited" \in PCs /\ "scan" \in PCs
  /\ "pause" \in PCs /\ "grace" \in PCs /\ "act" \in PCs
  /\ "state" \in PCs /\ "rescan" \in PCs /\ "decide" \in PCs
  /\ Nowhere \in Surfaces
  BY DEF PCs, AgentPCs, PanelPCs, Nowhere, Surfaces

LEMMA SupSets ==
  ASSUME NEW pc \in PCs, sup \in Supervisor, Set(pc)
  PROVE  sup' \in Supervisor
  BY DEF Set, Supervisor

LEMMA SupExits ==
  ASSUME NEW why \in {"stop", "closed", "gave up", "empty"}, NEW rc \in Codes,
         sup \in Supervisor, Exit(why, rc)
  PROVE  sup' \in Supervisor
  BY SupPcs DEF Exit, Supervisor

LEMMA SupTops ==
  ASSUME sup \in Supervisor, NEW prev \in Surfaces,
         NEW ended \in BOOLEAN, Top(prev, ended)
  PROVE  sup' \in Supervisor
  <1>1. 1 \in 1..MaxRetries
    BY SupParameters
  <1>2. QED
    BY <1>1, SupPcs DEF Top, Supervisor

LEMMA SupTyped ==
  ASSUME SupTypeOK, SupNext
  PROVE  SupTypeOK'
  <1>1. /\ sup \in Supervisor /\ sup.prev \in Surfaces /\ sup.cur \in Surfaces
        /\ sup.ended \in BOOLEAN /\ sup.attempt \in 1..MaxRetries /\ sup.seen \in BOOLEAN
        /\ MaxRetries \in Nat /\ att \in Surfaces
    BY SupParameters DEF SupTypeOK, Supervisor
  <1>2. CASE Attach \/ Detach \/ CliDies \/ Hook \/ PanelStarts
             \/ PanelDies \/ FlagServed
    BY <1>2 DEF SupTypeOK, Attach, Detach, CliDies, Hook, HookRecords,
                HookCloses, PanelStarts, PanelDies, FlagServed,
                Surfaces, Dead
  <1>3. CASE Sigterm
    BY <1>1, <1>3, SupPcs DEF SupTypeOK, Sigterm, Surfaces, Supervisor
  <1>4. CASE Boot \/ Look \/ AgentTick
    <2>1. sup' \in Supervisor
      <3>1. CASE Boot
        BY <1>1, <3>1, SupPcs, SupSets DEF Boot, Supervisor
      <3>2. CASE Look
        BY <1>1, <3>2, SupPcs DEF Look, Supervisor
      <3>3. CASE AgentTick
        BY <1>1, <3>3, SupPcs DEF AgentTick, Supervisor
      <3>4. QED
        BY <1>4, <3>1, <3>2, <3>3
    <2>2. QED
      BY <1>4, <2>1 DEF SupTypeOK, Boot, Look, AgentTick, world
  <1>5. CASE Scan
    <2>1. LiveMarkers \in SUBSET Panels
      BY DEF SupTypeOK, LiveMarkers
    <2>2. sup' \in Supervisor
      BY <1>1, <1>5, <2>1, SupPcs DEF Scan, Supervisor
    <2>3. QED
      BY <1>5, <2>1, <2>2 DEF SupTypeOK, Scan
  <1>6. CASE Act
    <2>1. flag' \in BOOLEAN
      BY <1>6 DEF SupTypeOK, Act, Lost
    <2>2. sup' \in Supervisor
      <3> DEFINE ended == sup.ended \/ Ends
      <3>1. ended \in BOOLEAN
        BY <1>1 DEF Ends
      <3>2. \/ Top(sup.cur, ended)
            \/ sup' = [sup EXCEPT !.pc = "close", !.ended = ended]
            \/ sup' = [sup EXCEPT !.pc = "heal", !.ended = ended]
        BY <1>6 DEF Act
      <3> HIDE DEF ended
      <3>3. QED
        BY <1>1, <3>1, <3>2, SupPcs, SupTops DEF Supervisor
    <2>3. QED
      BY <1>6, <2>1, <2>2 DEF SupTypeOK, Act
  <1>7. CASE StopSeen \/ CloseBox \/ ReadRecord
    <2>1. \/ \E rc \in Codes, why \in {"stop", "closed"} : Exit(why, rc)
          \/ Set("record")
      BY <1>7 DEF SupTypeOK, StopSeen, CloseBox, ReadRecord, Codes, Dead
    <2>2. sup' \in Supervisor
      BY <1>1, <2>1, SupPcs, SupSets, SupExits
    <2>3. QED
      BY <1>7, <2>2 DEF SupTypeOK, StopSeen, CloseBox, ReadRecord, world
  <1>8. CASE Heal
    <2>1. sup' \in Supervisor
      BY <1>1, <1>8, SupPcs, SupSets DEF Heal
    <2>2. QED
      BY <1>8, <2>1 DEF SupTypeOK, Heal, Surfaces
  <1>9. CASE Healed
    <2>1. sup' \in Supervisor
      <3>1. CASE Rest
        BY <1>1, <3>1, SupTops DEF Rest
      <3>2. CASE sup.attempt < MaxRetries
                 /\ sup' = [sup EXCEPT !.pc = "heal", !.attempt = @ + 1]
        <4>1. sup.attempt + 1 \in 1..MaxRetries
          BY <1>1, <3>2
        <4>2. QED
          BY <1>1, <3>2, <4>1, SupPcs DEF Supervisor
      <3>3. CASE Exit("gave up", "ok")
        BY <1>1, <3>3, SupExits DEF Codes
      <3>4. QED
        BY <1>9, <3>1, <3>2, <3>3 DEF Healed
    <2>2. QED
      BY <1>9, <2>1 DEF SupTypeOK, Healed, world
  <1>10. CASE Pause
    <2>1. {q \in sup.newcomers : agent[q] # "none"} \in SUBSET Panels
      BY <1>1 DEF Supervisor
    <2>2. sup' \in Supervisor
      BY <1>1, <1>10, <2>1, SupPcs DEF Pause, Supervisor
    <2>3. QED
      BY <1>10, <2>2 DEF SupTypeOK, Pause
  <1>11. CASE GraceRaises \/ Evict
    <2>1. sup' \in Supervisor
      BY <1>1, <1>11, SupPcs, SupSets DEF GraceRaises, Evict
    <2>2. raised' \in 0..MaxRaises
      BY <1>11, SupParameters DEF SupTypeOK, GraceRaises, Evict
    <2>3. QED
      BY <1>11, <2>1, <2>2 DEF SupTypeOK, GraceRaises, Evict, Resumed, Surfaces
  <1>12. CASE PanelBoot
    <2>1. sup' \in Supervisor
      BY <1>1, <1>12, SupPcs DEF PanelBoot, Supervisor
    <2>2. QED
      BY <1>12, <2>1 DEF SupTypeOK, PanelBoot, world
  <1>13. CASE PanelTick
    <2>1. flag' \in BOOLEAN
      BY <1>13 DEF SupTypeOK, PanelTick, Lost
    <2>2. sup' \in Supervisor
      BY <1>1, <1>13, SupPcs DEF PanelTick, Supervisor
    <2>3. QED
      BY <1>13, <2>1, <2>2 DEF SupTypeOK, PanelTick
  <1>14. CASE State \/ Rescan
    <2>1. sup' \in Supervisor
      <3>1. CASE State
        BY <1>1, <3>1, SupPcs DEF State, Supervisor
      <3>2. QED
        BY <1>1, <1>14, <3>1, SupPcs, SupSets DEF Rescan
    <2>2. QED
      BY <1>14, <2>1 DEF SupTypeOK, State, Rescan, LiveMarkers
  <1>15. CASE Decide
    <2>1. sup' \in Supervisor
      <3>1. \/ sup' = [sup EXCEPT !.pc = "heal", !.panel = "none"]
            \/ Exit("empty", "ok") \/ Top(sup.cur, sup.ended)
        BY <1>15 DEF Decide, Rest
      <3>2. CASE sup' = [sup EXCEPT !.pc = "heal", !.panel = "none"]
        BY <1>1, <3>2, SupPcs DEF Supervisor
      <3>3. CASE Exit("empty", "ok")
        BY <1>1, <3>3, SupExits DEF Codes
      <3>4. QED
        BY <1>1, <3>1, <3>2, <3>3, SupTops
    <2>2. QED
      BY <1>15, <2>1 DEF SupTypeOK, Decide, world
  <1>16. CASE Raise
    <2>1. sup' \in Supervisor
      BY <1>1, <1>16, SupTops DEF Raise
    <2>2. raised' \in 0..MaxRaises
      BY <1>16, SupParameters DEF SupTypeOK, Raise
    <2>3. QED
      BY <1>16, <2>1, <2>2 DEF SupTypeOK, Raise
  <1>17. QED
    BY <1>2, <1>3, <1>4, <1>5, <1>6, <1>7, <1>8, <1>9, <1>10, <1>11, <1>12, <1>13,
       <1>14, <1>15, <1>16 DEF SupNext, Step

SupRest == PaneInv /\ LoopInv /\ EndInv /\ ExitCodeTrue

\* Steps that leave the supervisor where it is; an exit only stands.
LEMMA SupWorld ==
  ASSUME SupInv, ~Exited, Attach \/ Detach \/ CliDies \/ Hook
           \/ PanelStarts \/ PanelDies \/ FlagServed \/ Sigterm
  PROVE  SupRest'
  <1> USE DEF SupInv, SupRest
  <1>1. sup \in Supervisor /\ conf' = conf /\ sup'.pc = sup.pc /\ sup.pc # "exited"
    BY DEF SupTypeOK, Supervisor, Exited, At, Attach, Detach,
           CliDies, Hook, HookRecords, HookCloses, PanelStarts,
           PanelDies, FlagServed, Sigterm
  <1>2. ExitCodeTrue'
    BY <1>1 DEF ExitCodeTrue, Exited, At
  <1>3. CASE Attach \/ Detach \/ PanelStarts \/ PanelDies \/ FlagServed
    <2>1. UNCHANGED <<conf, cli, record, last, sup>>
      BY <1>3 DEF Attach, Detach, PanelStarts, PanelDies, FlagServed
    <2>2. QED
      BY <1>2, <2>1 DEF PaneInv, LoopInv, EndInv, PanelSide
  <1>4. CASE CliDies
    <2>1. /\ UNCHANGED <<conf, record, sup>> /\ cli = "live" /\ last' = cli'
          /\ cli' \in {"ok", "failed"}
      BY <1>4 DEF CliDies
    <2>2. QED
      BY <1>2, <2>1 DEF PaneInv, LoopInv, EndInv, PanelSide, Dead
  <1>5. CASE Hook
    <2>1. /\ UNCHANGED <<conf, last, sup>> /\ conf.teardown /\ Dead(cli)
          /\ \/ record' = cli /\ cli' = cli
             \/ record' = record /\ record # "none" /\ cli' = "none"
      BY <1>5 DEF Hook, HookRecords, HookCloses
    <2>2. QED
      BY <1>2, <2>1 DEF PaneInv, LoopInv, EndInv, PanelSide, Dead
  <1>6. CASE Sigterm
    <2>1. /\ UNCHANGED <<conf, record, last>> /\ cli' = "none"
          /\ sup'.mode = sup.mode /\ sup'.ended = sup.ended /\ sup'.started = sup.started
          /\ sup'.stop = TRUE /\ sup'.alive = sup.alive
      BY <1>1, <1>6 DEF Sigterm, Supervisor
    <2>2. QED
      BY <1>1, <1>2, <2>1 DEF PaneInv, LoopInv, EndInv, PanelSide, Dead
  <1>7. QED
    BY <1>3, <1>4, <1>5, <1>6

\* What a step of the loops makes of the supervisor, in the fields the invariant
\* speaks of.
SupGoes(pc) ==
  /\ sup'.pc = pc /\ sup'.mode = sup.mode /\ sup'.started = sup.started
  /\ sup'.stop = sup.stop

LEMMA TopGoes ==
  ASSUME sup \in Supervisor, NEW prev, NEW ended, Top(prev, ended)
  PROVE  SupGoes("top") /\ sup'.ended = ended
  BY DEF Top, Supervisor, SupGoes

LEMMA SetGoes ==
  ASSUME sup \in Supervisor, NEW pc, Set(pc)
  PROVE  SupGoes(pc) /\ sup'.ended = sup.ended /\ sup'.alive = sup.alive
  BY DEF Set, Supervisor, SupGoes

LEMMA ExitGoes ==
  ASSUME sup \in Supervisor, NEW why, NEW rc, Exit(why, rc)
  PROVE  SupGoes("exited") /\ sup'.ended = sup.ended /\ sup'.why = why /\ sup'.rc = rc
  BY DEF Exit, Supervisor, SupGoes

\* A step that changes nothing but where the loop is.
LEMMA SupTurns ==
  ASSUME SupInv, NEW pc \in {"top", "look", "scan", "pause", "grace", "act", "state", "rescan",
                             "decide"},
         SupGoes(pc), UNCHANGED <<conf, cli, record, last>>,
         sup'.ended = sup.ended, sup.pc \notin {"boot", "panelboot"},
         pc # "top" => (sup.mode = "panel" <=> pc \in PanelPCs),
         pc \in {"pause", "grace", "act"} /\ ~sup'.alive => cli # "live"
  PROVE  SupRest'
  BY DEF SupInv, SupRest, SupGoes, PaneInv, LoopInv, EndInv, PanelSide, ExitCodeTrue,
         Exited, At, AgentPCs, PanelPCs

LEMMA SupSteps ==
  ASSUME SupInv, ~Exited, Step
  PROVE  SupRest'
  <1>1. /\ SupTypeOK /\ PaneInv /\ LoopInv /\ EndInv /\ sup \in Supervisor
        /\ sup.ended \in BOOLEAN /\ sup.alive \in BOOLEAN /\ conf' = conf
    BY DEF SupInv, SupTypeOK, Supervisor, Step, world,
           Boot, Look, AgentTick, StopSeen, Scan, Act, CloseBox,
           ReadRecord, Heal, Healed, Pause, GraceRaises, Evict,
           PanelBoot, PanelTick, State, Rescan, Decide, Raise
  <1>2. CASE Boot
    <2>1. /\ UNCHANGED <<record, last>> /\ cli' \in {"none", "live"} /\ sup.pc = "boot"
          /\ sup'.pc \in {"panelboot", "look"} /\ sup'.mode = sup.mode
          /\ sup'.ended = sup.ended /\ sup'.stop = sup.stop
          /\ sup'.pc = "look" => sup'.started = (cli' = "live")
      BY <1>1, <1>2 DEF Boot, Set, At, Supervisor, LoopInv
    <2>2. QED
      BY <1>1, <2>1 DEF SupRest, PaneInv, LoopInv, EndInv, PanelSide, ExitCodeTrue,
         Exited, At, Dead, AgentPCs, PanelPCs
  <1>3. CASE Look \/ AgentTick \/ PanelTick
    BY <1>1, <1>3, SupTurns DEF Look, AgentTick, PanelTick, At, world, SupGoes,
       Supervisor, PanelPCs
  <1>4. CASE Scan
    BY <1>1, <1>4, SupTurns DEF Scan, At, SupGoes, Supervisor, LoopInv, PanelPCs
  <1>5. CASE Pause \/ GraceRaises
    BY <1>1, <1>5, SupTurns DEF Pause, GraceRaises, Set, At, SupGoes,
       Supervisor, LoopInv, PanelPCs, AgentPCs
  <1>6. CASE State \/ Rescan
    BY <1>1, <1>6, SupTurns DEF State, Rescan, Set, At, SupGoes,
       Supervisor, LoopInv, PanelPCs
  <1>7. CASE Raise
    <2>1. SupGoes("top") /\ sup'.ended = sup.ended
      BY <1>1, <1>7, TopGoes DEF Raise
    <2>2. QED
      BY <1>7, <2>1, SupTurns DEF Raise, PanelPCs
  <1>8. CASE Act
    <2>1. PICK ended \in BOOLEAN : ended = (sup.ended \/ Ends)
      OBVIOUS
    <2>2. /\ sup.pc = "act" /\ UNCHANGED <<cli, record, last>>
          /\ \/ Top(sup.cur, ended)
             \/ /\ ~sup.alive /\ (conf.teardown \/ ended)
                /\ sup' = [sup EXCEPT !.pc = "close", !.ended = ended]
             \/ /\ ~conf.teardown /\ ~ended
                /\ sup' = [sup EXCEPT !.pc = "heal", !.ended = ended]
      BY <1>8, <2>1 DEF Act, At
    <2>3. ended => sup.mode = "agent" /\ last = "ok"
      BY <1>1, <2>1, <2>2 DEF Ends, PaneInv, EndInv, LoopInv, PanelSide, Dead,
         Supervisor, PanelPCs
    <2>4. /\ sup'.ended = ended
          /\ \/ SupGoes("top")
             \/ SupGoes("close") /\ ~sup.alive /\ (conf.teardown \/ ended)
             \/ SupGoes("heal") /\ ~conf.teardown /\ ~ended
      <3>1. CASE Top(sup.cur, ended)
        BY <1>1, <3>1, TopGoes
      <3>2. CASE /\ ~sup.alive /\ (conf.teardown \/ ended)
                 /\ sup' = [sup EXCEPT !.pc = "close", !.ended = ended]
        BY <1>1, <3>2 DEF SupGoes, Supervisor
      <3>3. CASE /\ ~conf.teardown /\ ~ended
                 /\ sup' = [sup EXCEPT !.pc = "heal", !.ended = ended]
        BY <1>1, <3>3 DEF SupGoes, Supervisor
      <3>4. QED
        BY <2>2, <3>1, <3>2, <3>3
    <2>5. QED
      BY <1>1, <2>2, <2>3, <2>4 DEF SupRest, SupGoes, PaneInv, LoopInv, EndInv, PanelSide,
         ExitCodeTrue, Exited, At, AgentPCs, PanelPCs
  <1>9. CASE CloseBox
    <2>1. /\ sup.pc = "close" /\ UNCHANGED <<cli, record, last>>
          /\ \/ sup.ended /\ Exit("closed", "ok")
             \/ ~sup.ended /\ Dead(cli) /\ Exit("closed", cli)
             \/ ~sup.ended /\ ~Dead(cli) /\ Set("record")
      BY <1>9 DEF CloseBox, At, world
    <2>2. sup'.ended = sup.ended /\
          (\/ SupGoes("exited") /\ sup'.rc = last
           \/ SupGoes("record") /\ ~sup.ended /\ cli = "none")
      <3>1. cli \in {"none", "live", "ok", "failed"} /\ cli # "live" /\ ~PanelSide
        BY <1>1, <2>1 DEF SupTypeOK, LoopInv, PanelSide, PanelPCs
      <3>2. (sup.ended => last = "ok") /\ (Dead(cli) => last = cli)
        BY <1>1, <3>1 DEF EndInv, PaneInv
      <3>3. QED
        BY <1>1, <2>1, <3>1, <3>2, ExitGoes, SetGoes DEF Dead
    <2>3. last # "none" \/ sup'.pc = "record"
      BY <1>1, <2>1, <2>2, SetGoes, ExitGoes DEF PaneInv, EndInv, LoopInv, PanelSide, Dead, SupGoes, PanelPCs
    <2>4. QED
      BY <1>1, <2>1, <2>2, <2>3 DEF SupRest, SupGoes, PaneInv, LoopInv, EndInv, PanelSide,
         ExitCodeTrue, Exited, At, AgentPCs, PanelPCs
  <1>10. CASE ReadRecord
    <2>1. /\ sup.pc = "record" /\ UNCHANGED <<cli, record, last>>
          /\ \/ record # "none" /\ Exit("closed", record)
             \/ record = "none" /\ sup.started /\ Exit("closed", "unknown")
             \/ record = "none" /\ ~sup.started /\ Exit("closed", "failed")
      BY <1>10 DEF ReadRecord, At, world
    <2>2. /\ ~PanelSide /\ conf.teardown /\ cli = "none"
          /\ record # "none" => last = record
          /\ sup.started => sup.stop \/ record # "none"
          /\ ~sup.started => last = "none"
      BY <1>1, <2>1 DEF PaneInv, LoopInv, EndInv, PanelSide, PanelPCs
    <2>3. SupGoes("exited") /\ sup'.ended = sup.ended
          /\ (sup.stop \/ sup'.rc = IF last = "none" THEN "failed" ELSE last)
      BY <1>1, <2>1, <2>2, ExitGoes
    <2>4. QED
      BY <1>1, <2>1, <2>3 DEF SupRest, SupGoes, PaneInv, LoopInv, EndInv, PanelSide,
         ExitCodeTrue, Exited, At, AgentPCs, PanelPCs
  <1>11. CASE StopSeen \/ Decide
    <2>1. /\ UNCHANGED <<cli, record, last>> /\ sup.pc \in {"top", "decide"}
          /\ \/ Exit("stop", "ok") \/ Exit("empty", "ok")
             \/ sup.mode = "panel" /\ Rest
             \/ sup.mode = "panel" /\ sup' = [sup EXCEPT !.pc = "heal", !.panel = "none"]
      BY <1>1, <1>11 DEF StopSeen, Decide, At, world, LoopInv, PanelPCs
    <2>2. /\ sup'.ended = sup.ended
          /\ \/ SupGoes("exited") /\ sup'.why # "closed"
             \/ sup.mode = "panel" /\ (SupGoes("top") \/ SupGoes("heal"))
      <3>1. CASE Exit("stop", "ok") \/ Exit("empty", "ok")
        BY <1>1, <3>1, ExitGoes
      <3>2. CASE sup.mode = "panel" /\ Rest
        BY <1>1, <3>2, TopGoes DEF Rest
      <3>3. CASE sup.mode = "panel" /\ sup' = [sup EXCEPT !.pc = "heal", !.panel = "none"]
        BY <1>1, <3>3 DEF SupGoes, Supervisor
      <3>4. QED
        BY <2>1, <3>1, <3>2, <3>3
    <2>3. QED
      BY <1>1, <2>1, <2>2 DEF SupRest, SupGoes, PaneInv, LoopInv, EndInv, PanelSide,
         ExitCodeTrue, Exited, At, AgentPCs, PanelPCs
  <1>12. CASE Heal
    <2>1. /\ sup.pc = "heal" /\ cli' \in {"live", "none"} /\ last' = "none" /\ record' = record
          /\ SupGoes("healed") /\ sup'.ended = sup.ended
      BY <1>1, <1>12, SetGoes DEF Heal, At
    <2>2. \/ sup.mode = "panel"
          \/ ~conf.teardown /\ ~sup.ended /\ record = "none" /\ sup.mode = "agent"
      BY <1>1, <2>1 DEF LoopInv, PaneInv, PanelSide, Supervisor
    <2>3. QED
      BY <1>1, <2>1, <2>2 DEF SupRest, SupGoes, PaneInv, LoopInv, EndInv, PanelSide, Dead,
         ExitCodeTrue, Exited, At, AgentPCs, PanelPCs
  <1>13. CASE Healed
    <2>1. /\ sup.pc = "healed" /\ UNCHANGED <<cli, record, last>> /\ sup'.ended = sup.ended
          /\ \/ SupGoes("top") \/ SupGoes("heal")
             \/ SupGoes("exited") /\ sup'.why # "closed"
      <3>1. CASE Rest
        BY <1>1, <1>13, <3>1, TopGoes DEF Rest, Healed, At, world
      <3>2. CASE sup' = [sup EXCEPT !.pc = "heal", !.attempt = @ + 1]
        BY <1>1, <1>13, <3>2 DEF SupGoes, Supervisor, Healed, At, world
      <3>3. CASE Exit("gave up", "ok")
        <4>1. sup.pc = "healed" /\ UNCHANGED <<cli, record, last>>
          BY <1>13 DEF Healed, At, world
        <4>2. SupGoes("exited") /\ sup'.ended = sup.ended /\ sup'.why = "gave up"
          BY <1>1, <3>3, ExitGoes
        <4>3. QED
          BY <4>1, <4>2
      <3>4. QED
        BY <1>13, <3>1, <3>2, <3>3 DEF Healed
    <2>2. QED
      BY <1>1, <2>1 DEF SupRest, SupGoes, PaneInv, LoopInv, EndInv, PanelSide,
         ExitCodeTrue, Exited, At, AgentPCs, PanelPCs
  <1>14. CASE Evict
    <2>1. /\ sup.pc = "grace" /\ cli' = "none" /\ last' = "none" /\ record' = record
          /\ SupGoes("panelboot") /\ sup.mode = "agent"
      BY <1>1, <1>14, SetGoes DEF Evict, At, LoopInv, Supervisor, PanelPCs
    <2>2. QED
      BY <1>1, <2>1 DEF SupRest, SupGoes, PaneInv, LoopInv, EndInv, PanelSide, Dead,
         ExitCodeTrue, Exited, At, AgentPCs, PanelPCs
  <1>15. CASE PanelBoot
    <2>1. /\ UNCHANGED <<cli, record, last>> /\ sup.pc = "panelboot" /\ sup'.pc = "top"
          /\ sup'.mode = "panel"
      BY <1>1, <1>15 DEF PanelBoot, At, world, Supervisor
    <2>2. QED
      BY <1>1, <2>1 DEF SupRest, PaneInv, LoopInv, EndInv, PanelSide,
         ExitCodeTrue, Exited, At, AgentPCs, PanelPCs
  <1>16. QED
    BY <1>2, <1>3, <1>4, <1>5, <1>6, <1>7, <1>8, <1>9, <1>10, <1>11, <1>12, <1>13,
       <1>14, <1>15 DEF Step

LEMMA SupAlways == SupSpec => []SupInv
  <1>1. SupInit => SupInv
    <2> SUFFICES ASSUME SupInit
                 PROVE  SupInv
      OBVIOUS
    <2>1. SupTypeOK
      <3>1. sup \in Supervisor
        <4>1. 1 \in 1..MaxRetries /\ "boot" \in PCs /\ "none" \in Codes
          BY SupParameters DEF PCs, Codes
        <4>2. QED
          BY <4>1, SupPcs DEF SupInit, Supervisor
      <3>2. 0 \in 0..MaxRaises
        BY SupParameters
      <3>3. att \in Surfaces
        <4>1. [Nowhere EXCEPT !.panel = TRUE] \in Surfaces
          BY DEF Nowhere, Surfaces
        <4>2. QED
          BY <4>1, SupPcs DEF SupInit
      <3>4. QED
        BY <3>1, <3>2, <3>3 DEF SupInit, SupTypeOK
    <2>2. QED
      BY <2>1 DEF SupInit, SupInv, PaneInv, LoopInv, EndInv, PanelSide, ExitCodeTrue,
                  Exited, At, Dead, AgentPCs, PanelPCs
  <1>2. SupInv /\ [SupNext]_supVars => SupInv'
    <2>1. ASSUME SupInv, SupNext PROVE SupInv'
      <3>1. SupTypeOK'
        BY <2>1, SupTyped DEF SupInv
      <3>2. SupRest'
        BY <2>1, SupWorld, SupSteps DEF SupNext
      <3>3. QED
        BY <3>1, <3>2 DEF SupInv, SupRest
    <2>2. ASSUME SupInv, UNCHANGED supVars PROVE SupInv'
      BY <2>2 DEF supVars, SupInv, SupTypeOK, PaneInv, LoopInv, EndInv, PanelSide,
                  ExitCodeTrue, Exited, At, Dead
    <2>3. QED
      BY <2>1, <2>2
  <1>3. QED
    BY <1>1, <1>2, PTL DEF SupSpec

\* Types: the surfaces, the pane, the hook's record, the panel's agents and their
\* markers, and the supervisor's own state (box_supervisor.py) stay what they are
\* declared as.
THEOREM SupervisorTypes == SupSpec => []SupTypeOK
  <1>1. SupInv => SupTypeOK
    BY DEF SupInv
  <1>2. QED
    BY SupAlways, <1>1, PTL

\* A box that closes reports how its agent ended (box_supervisor._exit_rc), for
\* every command line, however the hook's two steps, detaches, ticks that raise and
\* the end of the agent fall between the probes.
THEOREM ExitCodeIsTrue == SupSpec => []ExitCodeTrue
  <1>1. SupInv => ExitCodeTrue
    BY DEF SupInv
  <1>2. QED
    BY SupAlways, <1>1, PTL
=============================================================================
