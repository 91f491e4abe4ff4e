------------------------------ MODULE BoxRetire ------------------------------
(***************************************************************************)
(* `box rm', `box rm --purge' and `box register' of PRIMARY boxes, run     *)
(* beside the creates of BoxCreate on the same registry, deregistered      *)
(* entries and boxes directory (run_rm, _purge_deregistered,               *)
(* _run_purge_plan, run_register and _readopt_deregistered in              *)
(* commands/box/_parser.py).                                               *)
(*                                                                         *)
(* A plain rm takes a box out of the registry and parks an entry for its   *)
(* directory; register takes the entry back; a purge deletes.  None of     *)
(* them reads the journal, and each file has a lock of its own, so every   *)
(* read and every write is a step.  The purge's question to the user is    *)
(* the step between its checks and its first delete.                       *)
(*                                                                         *)
(* Not modelled: standalone and named boxes, the running-box refusal (no   *)
(* box runs here), and the parts of a home: a purge that fails part-way    *)
(* leaves the home, for the metadata folder goes last.                     *)
(***************************************************************************)
EXTENDS BoxCreate

CONSTANTS
  Retirers,  \* rm, purge and register commands that may run at the same time
  Overlap    \* TRUE when two commands may work on one box at once

ASSUME OverlapAssumption == Overlap \in BOOLEAN

VARIABLE cmd  \* the rm, purge and register commands

allVars == <<registry, journal, tree, parked, proc, cmd>>

\* Where a command works on its box; before that it only looked it up.
Working == {"unregister", "rmdelete", "park", "gone", "delete", "drop",
            "regdir", "regcheck", "regwrite", "regdrop"}

\* Where it works for the workspace that its box is, or is to be, registered for.
Keeps == {"unregister", "rmdelete", "park", "regdir", "regcheck", "regwrite", "regdrop"}

Rest == [pc |-> "idle", name |-> 0, ws |-> NoWs, purge |-> FALSE]

At(r, pc) == cmd[r].pc = pc
Free(r) == cmd[r].pc \in {"idle", "killed"}
Move(r, pc) == cmd' = [cmd EXCEPT ![r].pc = pc]
End(r) == cmd' = [cmd EXCEPT ![r] = Rest]

CmdPCs == Working \cup {"idle", "killed", "lookup", "owner"}
RetireCommand == [pc : CmdPCs, name : Names \cup {0}, ws : Workspaces \cup {NoWs},
                  purge : BOOLEAN]

RetireTypeOK ==
  /\ TypeOK
  /\ cmd \in [Retirers -> RetireCommand]
  /\ \A r \in Retirers :
       /\ Free(r) <=> cmd[r].name = 0
       /\ cmd[r].pc \in Keeps => cmd[r].ws # NoWs

RetireInit == Init /\ cmd = [r \in Retirers |-> Rest]

-----------------------------------------------------------------------------
Unpark(n) == parked' = [parked EXCEPT ![n] = NoWs]

-----------------------------------------------------------------------------
(* rm *)

\* `box rm [--purge] n': a registered name is an active box, and what the
\* registry says of it now is what a parked entry will say later.
Rm(r, n, purge) ==
  /\ Free(r)
  /\ cmd' = [cmd EXCEPT ![r] =
       [pc |-> IF registry[n] # NoWs THEN "unregister" ELSE "lookup",
        name |-> n, ws |-> registry[n], purge |-> purge]]
  /\ UNCHANGED vars

\* After the refusals and, for a purge, after the user said yes.
Unregister(r) ==
  /\ At(r, "unregister")
  /\ registry' = [registry EXCEPT ![cmd[r].name] = NoWs]
  /\ Move(r, IF cmd[r].purge THEN "rmdelete" ELSE "park")
  /\ UNCHANGED <<journal, tree, parked, proc>>

\* Mutated form of RmDelete: a purge that failed parks nothing.
RmDeleteOnly(r) ==
  /\ At(r, "rmdelete")
  /\ tree' \in {tree, [tree EXCEPT ![cmd[r].name] = NoTree]}
  /\ End(r)
  /\ UNCHANGED <<registry, journal, parked, proc>>

\* The purge plan runs; one that could not delete all parks what is left.
RmDelete(r) ==
  /\ At(r, "rmdelete")
  /\ \/ tree' = [tree EXCEPT ![cmd[r].name] = NoTree] /\ End(r)
     \/ Present(cmd[r].name) /\ Move(r, "park") /\ UNCHANGED tree
  /\ UNCHANGED <<registry, journal, parked, proc>>

Park(r) ==
  /\ At(r, "park")
  /\ parked' = IF Present(cmd[r].name)
               THEN [parked EXCEPT ![cmd[r].name] = cmd[r].ws] ELSE parked
  /\ End(r)
  /\ UNCHANGED <<registry, journal, tree, proc>>

-----------------------------------------------------------------------------
(* Purge of a parked box *)

\* Not active: the name may be a parked box's.  Only a purge does anything.
Lookup(r) ==
  /\ At(r, "lookup")
  /\ IF cmd[r].purge /\ parked[cmd[r].name] # NoWs THEN Move(r, "owner") ELSE End(r)
  /\ UNCHANGED vars

\* Mutated form of Owner: the stale-entry guard is gone.
OwnerTrusted(r) ==
  /\ At(r, "owner")
  /\ Move(r, "gone")
  /\ UNCHANGED vars

\* The stale-entry guard: an active box that has the name now has the directory
\* too, so the entry is dropped and nothing is purged.
Owner(r) ==
  /\ At(r, "owner")
  /\ \/ /\ registry[cmd[r].name] # NoWs
        /\ Unpark(cmd[r].name) /\ End(r)
     \/ /\ registry[cmd[r].name] = NoWs
        /\ Move(r, "gone") /\ UNCHANGED parked
  /\ UNCHANGED <<registry, journal, tree, proc>>

\* A directory that is gone leaves only the entry to drop; the other is planned
\* for deletion and the user is asked.
Gone(r) ==
  /\ At(r, "gone")
  /\ Move(r, IF Present(cmd[r].name) THEN "delete" ELSE "drop")
  /\ UNCHANGED vars

\* The user said yes: the plan runs, to the end or not.
Delete(r) ==
  /\ At(r, "delete")
  /\ \/ tree' = [tree EXCEPT ![cmd[r].name] = NoTree] /\ Move(r, "drop")
     \/ Present(cmd[r].name) /\ End(r) /\ UNCHANGED tree
  /\ UNCHANGED <<registry, journal, parked, proc>>

Drop(r) ==
  /\ At(r, "drop")
  /\ Unpark(cmd[r].name) /\ End(r)
  /\ UNCHANGED <<registry, journal, tree, proc>>

-----------------------------------------------------------------------------
(* register *)

\* `box register n' of a parked box takes the entry as it is now.
Readopt(r, n) ==
  /\ Free(r) /\ parked[n] # NoWs
  /\ cmd' = [cmd EXCEPT ![r] =
       [pc |-> "regdir", name |-> n, ws |-> parked[n], purge |-> FALSE]]
  /\ UNCHANGED vars

RegDir(r) ==
  /\ At(r, "regdir")
  /\ Move(r, IF Present(cmd[r].name) THEN "regcheck" ELSE "drop")
  /\ UNCHANGED vars

RegCheck(r) ==
  /\ At(r, "regcheck")
  /\ IF registry[cmd[r].name] = NoWs THEN Move(r, "regwrite") ELSE End(r)
  /\ UNCHANGED vars

\* Mutated form: the workspace of another box is registered a second time.
HeldByNone(w, n) == FALSE

\* One box per workspace, asked under the registry's lock; the name was asked
\* before, outside it.
HeldByOther(w, n) == \E m \in Names \ {n} : registry[m] = w

RegWrite(r) ==
  /\ At(r, "regwrite")
  /\ LET n == cmd[r].name IN
       \/ /\ HeldByOther(cmd[r].ws, n)
          /\ End(r) /\ UNCHANGED registry
       \/ /\ ~HeldByOther(cmd[r].ws, n)
          /\ registry' = [registry EXCEPT ![n] = cmd[r].ws]
          /\ Move(r, "regdrop")
  /\ UNCHANGED <<journal, tree, parked, proc>>

RegDrop(r) ==
  /\ At(r, "regdrop")
  /\ Unpark(cmd[r].name) /\ End(r)
  /\ UNCHANGED <<registry, journal, tree, proc>>

-----------------------------------------------------------------------------
\* A refusal (the box runs, its path may not be deleted), a no at the prompt.
Decline(r) ==
  /\ cmd[r].pc \in {"unregister", "delete"}
  /\ End(r)
  /\ UNCHANGED vars

\* The process dies between two of its reads and writes.
Die(r) ==
  /\ ~Free(r)
  /\ cmd' = [cmd EXCEPT ![r] = [Rest EXCEPT !.pc = "killed"]]
  /\ UNCHANGED vars

Work(r) ==
  \/ Unregister(r) \/ RmDelete(r) \/ Park(r)
  \/ Lookup(r) \/ Owner(r) \/ Gone(r) \/ Delete(r) \/ Drop(r)
  \/ RegDir(r) \/ RegCheck(r) \/ RegWrite(r) \/ RegDrop(r)

Retire == \E r \in Retirers :
  \/ \E n \in Names : Readopt(r, n) \/ \E purge \in BOOLEAN : Rm(r, n, purge)
  \/ Work(r)
  \/ Decline(r)
  \/ Die(r)

\* The discipline of ~Overlap: one command works on a box at a time.  A purge
\* may all the same have looked its entry up before another command was done.
WorkingOn(n) == {r \in Retirers : cmd[r].pc \in Working /\ cmd[r].name = n}
Creating(n) == {p \in Procs : proc[p].pc \in Behind /\ n \in {proc[p].name, proc[p].box}}
OneAtATime == \A n \in Names :
  /\ \A r, s \in WorkingOn(n) : r = s
  /\ WorkingOn(n) = {} \/ Creating(n) = {}

RetireNext ==
  /\ \/ Next /\ UNCHANGED cmd
     \/ Retire
  /\ Overlap \/ OneAtATime'

RetireSpec == RetireInit /\ [][RetireNext]_allVars

-----------------------------------------------------------------------------
(* Properties *)

\* A registered box has its own, complete home: no purge of an older entry, no
\* readopted entry and no create takes or replaces the home of a live box.
LiveHomeKept == RegisteredSeeded

Handled(n) ==
  \/ registry[n] # NoWs \/ parked[n] # NoWs \/ journal[n] # NoWs
  \/ \E r \in Retirers : cmd[r].name = n /\ cmd[r].pc \in {"park", "rmdelete"}

\* A home that some list reaches stays reachable until it is gone, so that no rm,
\* purge or register strands a box, unless it is killed between its two writes.
HomeHasHandle == [][
  \/ \E r \in Retirers : cmd'[r].pc = "killed" /\ cmd[r].pc # "killed"
  \/ \A n \in Names : Handled(n) /\ Present(n)' => Handled(n)']_allVars
=============================================================================
