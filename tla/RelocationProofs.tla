-------------------------- MODULE RelocationProofs --------------------------
(***************************************************************************)
(* Proofs about Relocation, for any boxes, names, places and commands.     *)
(* First the stack of undos, then what each step does to its command, the  *)
(* types and the registry (in any overlap), then the discipline under      *)
(* which no box is lost.                                                   *)
(***************************************************************************)
EXTENDS Relocation, SequenceTheorems, TLAPS

-----------------------------------------------------------------------------
(* The stack of undos *)

Has(s, u) == \E i \in 1..Len(s) : s[i] = u

\* What may be armed under an undo: the restore of the source's row goes under all,
\* the others lie in the order of the steps they undo.
Below(u) == IF u = "source" THEN {}
            ELSE IF u = "dest" THEN {"source"}
            ELSE IF u = "rows" THEN {"source", "dest"}
            ELSE {"source", "dest", "rows"}

Ordered(s) == \A i, j \in 1..Len(s) : i < j => s[i] \in Below(s[j])

LEMMA EmptyStack ==
  <<>> \in Seq(Undos) /\ Ordered(<<>>) /\ \A u : ~Has(<<>>, u)
  <1>1. Len(<<>>) = 0
    OBVIOUS
  <1>2. QED
    BY <1>1 DEF Ordered, Has

\* An undo is armed on top of those it may lie on.
LEMMA AppendUndo ==
  ASSUME NEW s \in Seq(Undos), NEW u \in Undos, Ordered(s),
         \A v \in Undos : Has(s, v) => v \in Below(u)
  PROVE  LET t == Append(s, u) IN
           /\ t \in Seq(Undos) /\ Ordered(t) /\ t # <<>>
           /\ \A v : Has(t, v) <=> Has(s, v) \/ v = u
  <1> DEFINE t == Append(s, u)
  <1>1. /\ t \in Seq(Undos) /\ Len(t) = Len(s) + 1 /\ Len(s) \in Nat /\ t[Len(s) + 1] = u
        /\ \A i \in 1..Len(s) : t[i] = s[i] /\ s[i] \in Undos
    OBVIOUS
  <1> HIDE DEF t
  <1>2. \A i : i \in 1..Len(t) <=> i \in 1..Len(s) \/ i = Len(s) + 1
    BY <1>1
  <1>3. \A v : Has(t, v) <=> Has(s, v) \/ v = u
    BY <1>1, <1>2 DEF Has
  <1>4. Ordered(t)
    <2> SUFFICES ASSUME NEW i \in 1..Len(t), NEW j \in 1..Len(t), i < j
                 PROVE  t[i] \in Below(t[j])
      BY DEF Ordered
    <2>1. i \in 1..Len(s)
      BY <1>1, <1>2
    <2>2. CASE j \in 1..Len(s)
      BY <1>1, <2>1, <2>2 DEF Ordered
    <2>3. CASE j = Len(s) + 1
      <3>1. Has(s, s[i]) /\ s[i] \in Undos /\ t[i] = s[i] /\ t[j] = u
        BY <1>1, <2>1, <2>3 DEF Has
      <3>2. QED
        BY <3>1
    <2>4. QED
      BY <1>2, <2>2, <2>3
  <1>5. t # <<>>
    BY <1>1, Len(<<>>) = 0
  <1>6. QED
    BY <1>1, <1>3, <1>4, <1>5 DEF t

\* The restore of the source's row goes under every other undo.
LEMMA SourceUnder ==
  ASSUME NEW s \in Seq(Undos), Ordered(s), ~Has(s, "source")
  PROVE  LET t == <<"source">> \o s IN
           /\ t \in Seq(Undos) /\ Ordered(t) /\ t # <<>>
           /\ \A v : Has(t, v) <=> Has(s, v) \/ v = "source"
  <1> DEFINE a == <<"source">>
             t == a \o s
  <1>1. a \in Seq(Undos) /\ Len(a) = 1 /\ a[1] = "source"
    BY DEF Undos
  <1> HIDE DEF a
  <1>2. /\ t \in Seq(Undos) /\ Len(t) = Len(s) + 1 /\ Len(s) \in Nat /\ t[1] = "source"
        /\ \A i \in 1..Len(s) : t[i + 1] = s[i] /\ s[i] \in Undos
    <2>1. /\ t \in Seq(Undos) /\ Len(t) = Len(a) + Len(s)
          /\ \A i \in 1..Len(a) + Len(s) : t[i] =
               IF i <= Len(a) THEN a[i] ELSE s[i - Len(a)]
      BY <1>1, ConcatProperties, Zenon
    <2> HIDE DEF t
    <2>2. Len(s) \in Nat
      OBVIOUS
    <2>3. /\ t \in Seq(Undos) /\ Len(t) = Len(s) + 1 /\ t[1] = "source"
          /\ \A i \in 1..Len(s) : t[i + 1] = s[i]
      BY <1>1, <2>1, <2>2
    <2>4. \A i \in 1..Len(s) : s[i] \in Undos
      OBVIOUS
    <2>5. QED
      BY <2>2, <2>3, <2>4
  <1> HIDE DEF t
  <1>3. \A i \in 1..Len(t) : i = 1 \/ (i - 1 \in 1..Len(s) /\ t[i] = s[i - 1])
    <2> SUFFICES ASSUME NEW i \in 1..Len(t), i # 1
                 PROVE  i - 1 \in 1..Len(s) /\ t[i] = s[i - 1]
      OBVIOUS
    <2>1. i - 1 \in 1..Len(s) /\ (i - 1) + 1 = i
      BY <1>2
    <2>2. QED
      BY <1>2, <2>1
  <1>4. 1 \in 1..Len(t) /\ \A i \in 1..Len(s) : i + 1 \in 1..Len(t)
    BY <1>2
  <1>5. \A v : Has(t, v) <=> Has(s, v) \/ v = "source"
    BY <1>2, <1>3, <1>4, ZenonT(40) DEF Has
  <1>6. Ordered(t)
    <2> SUFFICES ASSUME NEW i \in 1..Len(t), NEW j \in 1..Len(t), i < j
                 PROVE  t[i] \in Below(t[j])
      BY DEF Ordered
    <2>1. j - 1 \in 1..Len(s) /\ t[j] = s[j - 1]
      BY <1>3
    <2>2. CASE i = 1
      <3>1. s[j - 1] \in Undos /\ s[j - 1] # "source"
        BY <1>2, <2>1 DEF Has
      <3>2. "source" \in Below(t[j])
        BY <2>1, <3>1 DEF Below, Undos
      <3>3. QED
        BY <1>2, <2>2, <3>2
    <2>3. CASE i # 1
      <3>1. i - 1 \in 1..Len(s) /\ t[i] = s[i - 1] /\ i - 1 < j - 1
        BY <1>3, <2>3
      <3>2. QED
        BY <2>1, <3>1 DEF Ordered
    <2>4. QED
      BY <2>2, <2>3
  <1>7. t # <<>>
    BY <1>2, Len(<<>>) = 0
  <1>8. QED
    BY <1>2, <1>5, <1>6, <1>7 DEF t, a

\* The last one armed is undone first: it is not armed any more, and the ones left
\* are those that may lie under it.
LEMMA PopUndo ==
  ASSUME NEW s \in Seq(Undos), Ordered(s), s # <<>>
  PROVE  LET t == SubSeq(s, 1, Len(s) - 1)
             u == s[Len(s)] IN
           /\ t \in Seq(Undos) /\ Ordered(t) /\ u \in Undos /\ Has(s, u)
           /\ \A v : Has(t, v) <=> Has(s, v) /\ v # u
           /\ \A v : Has(t, v) => v \in Below(u)
  <1> DEFINE t == SubSeq(s, 1, Len(s) - 1)
             u == s[Len(s)]
  <1>1. Len(s) \in Nat /\ Len(s) # 0
    OBVIOUS
  <1>2. /\ t \in Seq(Undos) /\ Len(t) = Len(s) - 1 /\ \A i \in 1..Len(t) : t[i] = s[i]
        /\ \A i \in 1..Len(s) : s[i] \in Undos
    <2>1. \A i \in 1..Len(s) : s[i] \in Undos
      OBVIOUS
    <2>2. Len(s) - 1 \in Nat /\ \A i \in 1..Len(s) - 1 : i \in 1..Len(s)
      BY <1>1
    <2>3. /\ t \in Seq(Undos)
          /\ Len(t) = IF 1 <= Len(s) - 1 THEN (Len(s) - 1) - 1 + 1 ELSE 0
          /\ \A i \in 1..(Len(s) - 1) - 1 + 1 : t[i] = s[1 + i - 1]
      <3>1. \A i \in 1..Len(s) - 1 : s[i] \in Undos
        BY <2>1, <2>2
      <3>2. 1 \in Int /\ Len(s) - 1 \in Int
        BY <1>1
      <3>3. QED
        BY <3>1, <3>2, SubSeqProperties
    <2> HIDE DEF t
    <2>4. Len(t) = Len(s) - 1
      <3> DEFINE n == Len(s)
      <3>1. n \in Nat /\ n # 0 /\ Len(t) = IF 1 <= n - 1 THEN (n - 1) - 1 + 1 ELSE 0
        BY <1>1, <2>3
      <3> HIDE DEF n
      <3>2. CASE 1 <= n - 1
        <4>1. Len(t) = (n - 1) - 1 + 1
          BY <3>1, <3>2
        <4>2. Len(t) = n - 1
          BY <3>1, <4>1
        <4>3. QED
          BY <4>2 DEF n
      <3>3. CASE ~(1 <= n - 1)
        <4>1. Len(t) = 0 /\ n = 1
          BY <3>1, <3>3
        <4>2. Len(t) = n - 1
          BY <4>1
        <4>3. QED
          BY <4>2 DEF n
      <3>4. QED
        BY <3>2, <3>3
    <2>5. \A i \in 1..Len(s) - 1 : t[i] = s[i]
      <3>1. \A i \in 1..Len(s) - 1 : 1 + i - 1 = i /\ i \in 1..(Len(s) - 1) - 1 + 1
        BY <1>1
      <3>2. QED
        BY <2>3, <3>1, Zenon
    <2>6. QED
      BY <2>1, <2>3, <2>4, <2>5
  <1> HIDE DEF t
  <1>3. /\ Len(s) \in 1..Len(s) /\ u \in Undos
        /\ \A i : i \in 1..Len(s) <=> i \in 1..Len(t) \/ i = Len(s)
    BY <1>1, <1>2
  <1>4. \A i \in 1..Len(t) : i < Len(s) /\ i \in 1..Len(s)
    BY <1>1, <1>2
  <1>5. Ordered(t)
    BY <1>2, <1>4 DEF Ordered
  <1>6. \A i \in 1..Len(t) : t[i] \in Below(u)
    BY <1>2, <1>3, <1>4 DEF Ordered
  <1>7. u \notin Below(u)
    BY <1>3 DEF Below, Undos
  <1> HIDE DEF u
  <1>8. s[Len(s)] = u
    BY DEF u
  <1>9. \A v : Has(t, v) => v \in Below(u)
    BY <1>6 DEF Has
  <1>10. \A v : Has(t, v) <=> Has(s, v) /\ v # u
    BY <1>2, <1>3, <1>6, <1>7, <1>8 DEF Has
  <1>11. QED
    BY <1>2, <1>3, <1>5, <1>8, <1>9, <1>10 DEF t, u, Has

-----------------------------------------------------------------------------
(* What a step does to the commands *)

Armed(m, u) == Has(mv[m].stack, u)

Others(m) == \A k \in Movers \ {m} : mv'[k] = mv[k]

\* The command goes on: what it is about, and what it knows of it, does not change.
Same(m) ==
  /\ mv'[m].box = mv[m].box /\ mv'[m].name = mv[m].name /\ mv'[m].to = mv[m].to
  /\ mv'[m].from = mv[m].from /\ mv'[m].dest = mv[m].dest
  /\ mv'[m].copies = mv[m].copies /\ mv'[m].sound = mv[m].sound

LEMMA PCs ==
  /\ Trying \subseteq Working /\ Sealed \subseteq Working /\ "undo" \in Working
  /\ Working \cap Ended = {} /\ "idle" \in Ended /\ "done" \in Ended
  /\ "undone" \in Ended /\ "killed" \in Ended
  BY DEF Trying, Sealed, Working, Ended

LEMMA GotoIs ==
  ASSUME TypeOK, NEW m \in Movers, NEW q \in Working, Goto(m, q)
  PROVE  /\ Same(m) /\ Others(m) /\ mv'[m].pc = q
         /\ mv'[m].rows = mv[m].rows /\ mv'[m].stack = mv[m].stack
         /\ mv'[m].amiss = mv[m].amiss
         /\ mv' \in [Movers -> Command]
  <1>1. mv' = [mv EXCEPT ![m].pc = q] /\ mv \in [Movers -> Command]
    BY DEF Goto, TypeOK
  <1>2. mv' \in [Movers -> Command]
    BY <1>1, ZenonT(40) DEF Command
  <1>3. QED
    BY <1>1, <1>2 DEF Same, Others, Command

LEMMA StackTyped ==
  ASSUME TypeOK, NEW m \in Movers, NEW t \in Seq(Undos)
  PROVE  [mv EXCEPT ![m].stack = t] \in [Movers -> Command]
  <1> DEFINE d == [mv[m] EXCEPT !.stack = t]
  <1>1. mv \in [Movers -> Command] /\ mv[m] \in Command
    BY DEF TypeOK
  <1>2. d \in Command
    BY <1>1 DEF Command
  <1>3. [mv EXCEPT ![m].stack = t] = [mv EXCEPT ![m] = d]
    BY <1>1
  <1> HIDE DEF d
  <1>4. QED
    BY <1>1, <1>2, <1>3

LEMMA PushIs ==
  ASSUME TypeOK, NEW m \in Movers, NEW u \in Undos, NEW q \in Working, Push(m, u, q),
         Ordered(mv[m].stack), \A v \in Undos : Armed(m, v) => v \in Below(u)
  PROVE  /\ Same(m) /\ Others(m) /\ mv'[m].pc = q
         /\ mv'[m].rows = mv[m].rows /\ mv'[m].amiss = mv[m].amiss
         /\ mv' \in [Movers -> Command]
         /\ Ordered(mv'[m].stack) /\ mv'[m].stack # <<>>
         /\ \A v : Armed(m, v)' <=> Armed(m, v) \/ v = u
  <1> DEFINE t == Append(mv[m].stack, u)
  <1>1. mv' = [mv EXCEPT ![m].stack = t, ![m].pc = q] /\ mv \in [Movers -> Command]
    BY DEF Push, TypeOK
  <1>2. mv[m].stack \in Seq(Undos)
    BY <1>1 DEF Command
  <1>3. /\ t \in Seq(Undos) /\ Ordered(t) /\ t # <<>>
        /\ \A v : Has(t, v) <=> Has(mv[m].stack, v) \/ v = u
    BY <1>2, AppendUndo DEF Armed
  <1> HIDE DEF t
  <1>4. mv' \in [Movers -> Command]
    <2> DEFINE f == [mv EXCEPT ![m].stack = t]
    <2>1. f \in [Movers -> Command]
      BY <1>3, StackTyped
    <2>2. mv' = [f EXCEPT ![m].pc = q]
      BY <1>1
    <2> HIDE DEF f
    <2>3. QED
      BY <2>1, <2>2, ZenonT(40) DEF Command
  <1>5. /\ Same(m) /\ Others(m) /\ mv'[m].pc = q /\ mv'[m].stack = t
        /\ mv'[m].rows = mv[m].rows /\ mv'[m].amiss = mv[m].amiss
    BY <1>1 DEF Same, Others, Command
  <1>6. QED
    BY <1>3, <1>4, <1>5 DEF Armed

LEMMA PoppedIs ==
  ASSUME TypeOK, NEW m \in Movers, NEW u \in Undos, NEW f \in BOOLEAN,
         Undoes(m, u), Popped(m, f), Ordered(mv[m].stack)
  PROVE  /\ Same(m) /\ Others(m) /\ mv[m].pc = "undo" /\ mv'[m].pc = "undo"
         /\ mv'[m].rows = mv[m].rows
         /\ mv'[m].amiss = (mv[m].amiss \/ f)
         /\ mv' \in [Movers -> Command]
         /\ Ordered(mv'[m].stack) /\ Armed(m, u)
         /\ \A v : Armed(m, v)' <=> Armed(m, v) /\ v # u
         /\ \A v : Armed(m, v)' => v \in Below(u)
         /\ mv[m].stack # <<>>
  <1> DEFINE t == SubSeq(mv[m].stack, 1, Len(mv[m].stack) - 1)
             g == mv[m].amiss \/ f
  <1>1. /\ mv' = [mv EXCEPT ![m].stack = t, ![m].amiss = g]
        /\ mv \in [Movers -> Command] /\ mv[m] \in Command
    BY DEF Popped, TypeOK
  <1>2. mv[m].stack \in Seq(Undos) /\ mv[m].stack # <<>> /\ mv[m].pc = "undo"
    BY <1>1 DEF Command, Undoes, At
  <1>3. /\ t \in Seq(Undos) /\ Ordered(t) /\ Has(mv[m].stack, u)
        /\ \A v : Has(t, v) <=> Has(mv[m].stack, v) /\ v # u
        /\ \A v : Has(t, v) => v \in Below(u)
    BY <1>2, PopUndo DEF Undoes, Top
  <1>4. g \in BOOLEAN
    OBVIOUS
  <1> HIDE DEF t, g
  <1>5. mv' \in [Movers -> Command]
    <2> DEFINE d == [mv[m] EXCEPT !.stack = t, !.amiss = g]
    <2>1. d \in Command
      BY <1>1, <1>3, <1>4 DEF Command
    <2>2. mv' = [mv EXCEPT ![m] = d]
      BY <1>1
    <2> HIDE DEF d
    <2>3. QED
      BY <1>1, <2>1, <2>2
  <1>6. /\ Same(m) /\ Others(m) /\ mv'[m].pc = mv[m].pc /\ mv'[m].stack = t
        /\ mv'[m].rows = mv[m].rows /\ mv'[m].amiss = g
    BY <1>1 DEF Same, Others, Command
  <1>7. QED
    BY <1>2, <1>3, <1>5, <1>6 DEF Armed, g

\* A command that ends keeps its names where it may have left disorder.
Hurt(m, pc) ==
  \/ mv[m].amiss = TRUE \/ mv[m].sound = FALSE
  \/ pc # "done" /\ Remaps(m)
  \/ pc = "killed" /\ Renames(m)

LEMMA EndsIs ==
  ASSUME TypeOK, NEW m \in Movers, NEW q \in Ended, Ends(m, q)
  PROVE  /\ Others(m) /\ mv'[m].pc = q /\ mv'[m].stack = <<>>
         /\ mv' \in [Movers -> Command]
         /\ Hurt(m, q) => mv'[m].name = mv[m].name /\ mv'[m].to = mv[m].to
         /\ mv[m].amiss = TRUE \/ mv[m].sound = FALSE \/ (q # "done" /\ Remaps(m)) =>
              mv'[m].amiss = TRUE
         /\ ~Hurt(m, q) => mv'[m] = [Idle EXCEPT !.pc = q]
  <1> DEFINE c == mv[m]
             d == [Idle EXCEPT !.pc = q, !.name = c.name, !.to = c.to,
                     !.amiss = FALSE \/ c.amiss \/ ~c.sound \/ Remaps(m)]
             e == [Idle EXCEPT !.pc = q]
  <1>1. c \in Command /\ mv \in [Movers -> Command]
    BY DEF TypeOK
  <1>2. Hurt(m, q) <=> \/ c.amiss \/ ~c.sound
                       \/ q # "done" /\ Remaps(m)
                       \/ q = "killed" /\ Renames(m)
    BY <1>1 DEF Hurt, Command
  <1>3. mv' = [mv EXCEPT ![m] = IF Hurt(m, q) THEN d ELSE e]
    BY <1>2 DEF Ends, Idle
  <1>4. (FALSE \/ c.amiss \/ ~c.sound \/ Remaps(m)) \in BOOLEAN
    BY <1>1 DEF Command
  <1>5. d \in Command /\ d.pc = q /\ d.stack = <<>> /\ d.name = c.name /\ d.to = c.to
        /\ d.amiss = (FALSE \/ c.amiss \/ ~c.sound \/ Remaps(m))
    BY <1>1, <1>4, EmptyStack, ZenonT(40) DEF Command, Idle
  <1>6. e \in Command /\ e.pc = q /\ e.stack = <<>>
    BY EmptyStack DEF Command, Idle
  <1>7. c.amiss = TRUE \/ c.sound = FALSE \/ (q # "done" /\ Remaps(m)) =>
          Hurt(m, q) /\ d.amiss = TRUE
    BY <1>5, Zenon DEF Hurt
  <1> HIDE DEF d, e
  <1>8. mv'[m] = (IF Hurt(m, q) THEN d ELSE e) /\ Others(m)
    BY <1>1, <1>3 DEF Others
  <1>9. mv' \in [Movers -> Command]
    BY <1>1, <1>3, <1>5, <1>6
  <1>10. QED
    BY <1>5, <1>6, <1>7, <1>8, <1>9 DEF e

\* What a command knows when it begins.
Begun(m, n, to, files, dest, copies) ==
  /\ Others(m) /\ mv' \in [Movers -> Command] /\ home[n].of \in Boxes
  /\ mv'[m].pc = "arm" /\ mv'[m].box = home[n].of
  /\ mv'[m].name = n /\ mv'[m].to = to
  /\ mv'[m].from = registry[n] /\ mv'[m].from \in Places /\ mv'[m].dest = dest
  /\ mv'[m].copies = copies /\ mv'[m].stack = <<>> /\ mv'[m].amiss = FALSE
  /\ mv'[m].sound = (home[n].whole /\ work[files] = home[n])

LEMMA BeginsIs ==
  ASSUME TypeOK, NEW m \in Movers, NEW n \in Names, NEW to, NEW files, NEW dest, NEW copies,
         to \in Names, files \in Places, dest \in Places, copies \in BOOLEAN,
         registry[n] # None, home[n] # Absent, Begins(m, n, to, files, dest, copies)
  PROVE  Begun(m, n, to, files, dest, copies)
  <1> DEFINE z == home[n].whole /\ work[files] = home[n]
             d == [Idle EXCEPT !.pc = "arm", !.box = home[n].of, !.name = n, !.to = to,
                     !.from = registry[n], !.dest = dest, !.copies = copies, !.sound = z]
  <1>1. z \in BOOLEAN
    BY DEF TypeOK, Tree, Absent
  <1>2. home[n].of \in Boxes /\ registry[n] \in Places
    BY DEF TypeOK, Tree
  <1>3. mv' = [mv EXCEPT ![m] = d] /\ mv \in [Movers -> Command]
    BY DEF Begins, TypeOK
  <1> HIDE DEF z
  <1>4. d \in Command
    BY <1>1, <1>2, EmptyStack DEF Command, Idle, Working, Trying
  <1>5. /\ d.pc = "arm" /\ d.box = home[n].of /\ d.name = n /\ d.to = to
        /\ d.from = registry[n] /\ d.dest = dest /\ d.copies = copies
        /\ d.stack = <<>> /\ d.amiss = FALSE /\ d.sound = z
    BY DEF Idle
  <1> HIDE DEF d
  <1>6. QED
    BY <1>2, <1>3, <1>4, <1>5 DEF Others, Begun, z

-----------------------------------------------------------------------------
(* Types, and what may be armed when; in any overlap *)

Homes == {"home", "homecopy", "homecopying"}
WithRows == Homes \cup {"free", "claim", "drop", "seal"}

StackShape(m) ==
  /\ Ordered(mv[m].stack)
  /\ Armed(m, "source") => mv[m].pc \in {"seal", "undo"} /\ Renames(m)
  /\ Armed(m, "dest") => mv[m].pc \in (Trying \ {"arm"}) \cup {"undo"} /\ mv[m].copies = TRUE
  /\ Armed(m, "rows") => mv[m].pc \in WithRows \cup {"undo"}
  /\ Armed(m, "home") => mv[m].pc \in (WithRows \ {"free", "claim", "home"}) \cup {"undo"}
                         /\ Renames(m) /\ Armed(m, "rows")
  /\ mv[m].pc \in WithRows => Armed(m, "rows")
  /\ mv[m].pc \in {"arm"} \cup Sealed \cup Ended => mv[m].stack = <<>>

WhoShape(m) ==
  /\ mv[m].pc = "idle" => mv[m] = Idle
  /\ mv[m].pc \in Working =>
       /\ mv[m].box \in Boxes /\ mv[m].name \in Names /\ mv[m].to \in Names
       /\ mv[m].from \in Places /\ mv[m].dest \in Places
       /\ mv[m].copies = TRUE => mv[m].dest # mv[m].from
       /\ mv[m].copies = FALSE => (Renames(m) <=> mv[m].dest = mv[m].from)
  /\ mv[m].pc \in {"copy", "copying"} => mv[m].copies = TRUE
  /\ mv[m].pc \in Homes => Renames(m)
  /\ mv[m].amiss = TRUE => mv[m].pc \in {"seal", "undo"} \cup Sealed \cup Ended

Shape(m) == StackShape(m) /\ WhoShape(m)
ShapeInv == \A m \in Movers : Shape(m)

LEMMA WhoStays ==
  ASSUME NEW m \in Movers, WhoShape(m), Same(m), mv[m].pc \in Working, mv'[m].pc \in Working,
         mv'[m].pc \in {"copy", "copying"} => mv[m].copies = TRUE,
         mv'[m].pc \in Homes => Renames(m),
         mv'[m].amiss = TRUE => mv'[m].pc \in {"seal", "undo"} \cup Sealed
  PROVE  WhoShape(m)'
  <1>1. mv'[m].pc # "idle"
    BY PCs
  <1>2. Renames(m)' <=> Renames(m)
    BY DEF Renames, Same
  <1>3. QED
    BY <1>1, <1>2 DEF WhoShape, Same

\* The steps that leave the stack alone.
Leads(m, q) ==
  \/ At(m, "arm") /\ q = "rows"
  \/ At(m, "arm") /\ q = "copy" /\ mv[m].copies = TRUE
  \/ At(m, "copy") /\ q = "copying"
  \/ At(m, "copying") /\ q = "rows"
  \/ At(m, "free") /\ q = "claim"
  \/ At(m, "claim") /\ q = "home" /\ Renames(m)
  \/ At(m, "claim") /\ q = "drop"
  \/ At(m, "home") /\ q = "homecopy"
  \/ At(m, "homecopy") /\ q = "homecopying"
  \/ At(m, "homecopying") /\ q = "drop"
  \/ At(m, "tail") /\ q = "retire"
  \/ mv[m].pc \in Trying /\ q = "undo"

LEMMA LeadsOn ==
  ASSUME NEW m, NEW q, Leads(m, q)
  PROVE  q \in Working /\ mv[m].pc \in Working
  BY DEF Leads, At, Working, Trying, Sealed

LEMMA GotoShape ==
  ASSUME TypeOK, NEW m \in Movers, NEW q, Goto(m, q), Shape(m), Leads(m, q)
  PROVE  Shape(m)'
  <1>1. /\ Same(m) /\ Others(m) /\ mv'[m].pc = q /\ mv'[m].stack = mv[m].stack
        /\ mv'[m].amiss = mv[m].amiss
        /\ q \in Working /\ mv[m].pc \in Working
    BY GotoIs, LeadsOn
  <1>2. /\ \A u : Armed(m, u)' <=> Armed(m, u)
        /\ Renames(m)' <=> Renames(m)
        /\ Ordered(mv'[m].stack) <=> Ordered(mv[m].stack)
    BY <1>1 DEF Armed, Renames, Same
  <1>3. mv'[m].copies = mv[m].copies
    BY <1>1 DEF Same
  <1>4. mv'[m].amiss = TRUE => q \in {"seal", "undo"} \cup Sealed
    BY <1>1 DEF Shape, WhoShape, Leads, At, Trying, Sealed, Ended, Working
  <1>5. WhoShape(m)'
    <2>1. q \in {"copy", "copying"} => mv[m].copies = TRUE
      BY DEF Shape, WhoShape, Leads, At
    <2>2. q \in Homes => Renames(m)
      BY DEF Shape, WhoShape, Leads, At, Homes
    <2>3. QED
      BY <1>1, <1>4, <2>1, <2>2, WhoStays DEF Shape
  <1>6. q \notin Ended
    BY <1>1, PCs
  <1>7. q \in {"arm"} \cup Sealed \cup Ended => mv[m].stack = <<>>
    BY <1>6 DEF Shape, StackShape, Leads, At, Trying, Sealed
  <1>8. Armed(m, "source") => q \in {"seal", "undo"}
    BY DEF Shape, StackShape, Leads, At, Trying, Sealed
  <1>9. Armed(m, "dest") => q \in (Trying \ {"arm"}) \cup {"undo"}
    BY DEF Shape, StackShape, Leads, At, Ended, Working, Sealed, Trying
  <1>10. Armed(m, "rows") => q \in WithRows \cup {"undo"}
    BY DEF Shape, StackShape, Leads, At, WithRows, Homes, Trying, Sealed
  <1>11. Armed(m, "home") => q \in (WithRows \ {"free", "claim", "home"}) \cup {"undo"}
    BY DEF Shape, StackShape, Leads, At, WithRows, Homes, Trying, Sealed
  <1>12. q \in WithRows => Armed(m, "rows")
    BY DEF Shape, StackShape, Leads, At, WithRows, Homes
  <1>13. StackShape(m)'
    BY <1>1, <1>2, <1>3, <1>7, <1>8, <1>9, <1>10, <1>11, <1>12 DEF Shape, StackShape
  <1>14. QED
    BY <1>5, <1>13 DEF Shape

\* The steps that arm an undo over the others.
LEMMA PushShape ==
  ASSUME TypeOK, NEW m \in Movers, NEW u \in Undos, NEW q \in Working, Push(m, u, q), Shape(m),
         \/ At(m, "arm") /\ mv[m].copies = TRUE /\ u = "dest" /\ q = "copy"
         \/ At(m, "home") /\ u = "home" /\ q = "homecopy"
  PROVE  Shape(m)' /\ Others(m) /\ Same(m) /\ mv' \in [Movers -> Command]
  <1>1. mv[m].pc \in Working /\ mv[m].amiss = FALSE
    BY DEF At, Working, Trying, Sealed, Ended, Shape, WhoShape, TypeOK, Command
  <1>2. \A v \in Undos : Armed(m, v) => v \in Below(u)
    <2>1. CASE At(m, "arm")
      <3>1. mv[m].stack = <<>>
        BY <2>1 DEF Shape, StackShape, At
      <3>2. QED
        BY <3>1, EmptyStack DEF Armed
    <2>2. CASE At(m, "home") /\ u = "home"
      <3>1. ~Armed(m, "home")
        BY <2>2 DEF Shape, StackShape, At, WithRows, Homes
      <3>2. QED
        BY <2>2, <3>1 DEF Below, Undos
    <2>3. QED
      BY <2>1, <2>2
  <1>3. /\ Same(m) /\ Others(m) /\ mv'[m].pc = q
        /\ mv'[m].amiss = mv[m].amiss
        /\ mv' \in [Movers -> Command] /\ Ordered(mv'[m].stack)
        /\ \A v : Armed(m, v)' <=> Armed(m, v) \/ v = u
    BY <1>2, PushIs DEF Shape, StackShape
  <1>4. WhoShape(m)'
    <2>1. mv'[m].amiss # TRUE
      BY <1>1, <1>3
    <2>2. q \in {"copy", "copying"} => mv[m].copies = TRUE
      OBVIOUS
    <2>3. q \in Homes => Renames(m)
      BY DEF Shape, WhoShape, At, Homes
    <2>4. QED
      BY <1>1, <1>3, <2>1, <2>2, <2>3, WhoStays DEF Shape
  <1>5. (Renames(m)' <=> Renames(m)) /\ mv'[m].copies = mv[m].copies
    BY <1>3 DEF Renames, Same
  <1>6. CASE At(m, "arm") /\ mv[m].copies = TRUE /\ u = "dest" /\ q = "copy"
    <2>1. \A v : ~Armed(m, v)
      BY <1>6, EmptyStack DEF Shape, StackShape, At, Armed
    <2>2. StackShape(m)'
      BY <1>3, <1>5, <1>6, <2>1 DEF StackShape, Trying, WithRows, Homes, Sealed, Ended
    <2>3. QED
      BY <1>3, <1>4, <2>2 DEF Shape
  <1>7. CASE At(m, "home") /\ u = "home" /\ q = "homecopy"
    <2>1. /\ Renames(m) /\ Armed(m, "rows") /\ ~Armed(m, "source")
          /\ Armed(m, "dest") => mv[m].copies = TRUE
      BY <1>7 DEF Shape, StackShape, WhoShape, At, Homes, WithRows
    <2>2. StackShape(m)'
      BY <1>3, <1>5, <1>7, <2>1 DEF StackShape, Trying, WithRows, Homes, Sealed, Ended
    <2>3. QED
      BY <1>3, <1>4, <2>2 DEF Shape
  <1>8. QED
    BY <1>6, <1>7

LEMMA ArmRowsIs ==
  ASSUME TypeOK, NEW m \in Movers, ArmRows(m), Shape(m)
  PROVE  /\ Shape(m)' /\ Others(m) /\ Same(m) /\ mv' \in [Movers -> Command]
         /\ mv'[m].pc = "free" /\ mv'[m].rows = registry /\ mv'[m].amiss = FALSE
         /\ \A v : Armed(m, v)' <=> Armed(m, v) \/ v = "rows"
         /\ mv[m].pc = "rows" /\ mv'[m].stack # <<>>
  <1> DEFINE t == Append(mv[m].stack, "rows")
  <1>1. /\ mv' = [mv EXCEPT ![m].rows = registry, ![m].stack = t, ![m].pc = "free"]
        /\ mv \in [Movers -> Command] /\ mv[m].stack \in Seq(Undos)
        /\ registry \in [Names -> Places \cup {None}] /\ mv[m].pc = "rows"
    BY DEF ArmRows, TypeOK, Command, At
  <1>2. \A v \in Undos : Armed(m, v) => v \in Below("rows")
    BY <1>1 DEF Shape, StackShape, WithRows, Homes, Below, Undos
  <1>3. /\ t \in Seq(Undos) /\ Ordered(t) /\ t # <<>>
        /\ \A v : Has(t, v) <=> Has(mv[m].stack, v) \/ v = "rows"
    <2>1. "rows" \in Undos
      BY DEF Undos
    <2>2. QED
      BY <1>1, <1>2, <2>1, AppendUndo DEF Armed, Shape, StackShape
  <1>4. mv[m].amiss = FALSE
    BY <1>1 DEF Shape, WhoShape, Sealed, Ended, Command
  <1> HIDE DEF t
  <1>5. mv' \in [Movers -> Command]
    <2> DEFINE d == [pc |-> "free", box |-> mv[m].box, name |-> mv[m].name,
                    to |-> mv[m].to, from |-> mv[m].from, dest |-> mv[m].dest,
                    copies |-> mv[m].copies, sound |-> mv[m].sound,
                    rows |-> registry, stack |-> t, amiss |-> mv[m].amiss]
    <2>1. d \in Command
      BY <1>1, <1>3 DEF Command, Working, Trying
    <2>2. mv'[m] = d /\ \A k \in Movers \ {m} : mv'[k] = mv[k]
      BY <1>1 DEF Command
    <2>3. mv' = [k \in Movers |-> mv'[k]]
      BY <1>1
    <2> HIDE DEF d
    <2>4. QED
      BY <1>1, <2>1, <2>2, <2>3
  <1>6. /\ Same(m) /\ Others(m) /\ mv'[m].pc = "free" /\ mv'[m].rows = registry
        /\ mv'[m].stack = t /\ mv'[m].amiss = mv[m].amiss
    BY <1>1 DEF Same, Others, Command
  <1>7. /\ (Renames(m)' <=> Renames(m)) /\ mv'[m].copies = mv[m].copies
        /\ \A v : Armed(m, v)' <=> Armed(m, v) \/ v = "rows"
    BY <1>3, <1>6 DEF Renames, Same, Armed
  <1>8. WhoShape(m)'
    <2>1. /\ mv'[m].amiss # TRUE /\ mv[m].pc \in Working /\ mv'[m].pc \in Working
          /\ mv'[m].pc \notin {"copy", "copying"} \cup Homes
      BY <1>1, <1>4, <1>6 DEF Working, Trying, Homes
    <2>2. QED
      BY <1>6, <2>1, WhoStays DEF Shape
  <1>9. StackShape(m)'
    BY <1>1, <1>3, <1>6, <1>7 DEF Shape, StackShape, Trying, WithRows, Homes, Sealed, Ended
  <1>10. QED
    BY <1>1, <1>3, <1>4, <1>5, <1>6, <1>7, <1>8, <1>9 DEF Shape

LEMMA DropIs ==
  ASSUME TypeOK, NEW m \in Movers, Drop(m), Shape(m)
  PROVE  \E dropped \in BOOLEAN :
         /\ Shape(m)' /\ Others(m) /\ Same(m) /\ mv' \in [Movers -> Command]
         /\ mv[m].pc = "drop" /\ mv'[m].pc = "seal" /\ mv'[m].rows = mv[m].rows
         /\ mv[m].amiss = FALSE /\ mv'[m].stack # <<>>
         /\ mv'[m].amiss = TRUE <=> Renames(m) /\ dropped = FALSE /\ registry[mv[m].name] # None
         /\ registry' = IF Renames(m) /\ dropped = TRUE
                        THEN [registry EXCEPT ![mv[m].name] = None] ELSE registry
         /\ \A v : Armed(m, v)' <=> Armed(m, v) \/ (Renames(m) /\ v = "source")
         /\ UNCHANGED <<home, work>>
  <1>1. PICK dropped \in BOOLEAN :
          LET left == Renames(m) /\ ~dropped /\ registry[mv[m].name] # None
              c == [mv[m] EXCEPT !.pc = "seal", !.amiss = left] IN
          /\ registry' = IF Renames(m) /\ dropped
                         THEN [registry EXCEPT ![mv[m].name] = None] ELSE registry
          /\ mv' = [mv EXCEPT ![m] =
                      IF Renames(m) THEN [c EXCEPT !.stack = <<"source">> \o @] ELSE c]
    BY DEF Drop
  <1> DEFINE h == Renames(m) /\ ~dropped /\ registry[mv[m].name] # None
             c == [mv[m] EXCEPT !.pc = "seal", !.amiss = h]
             t == IF Renames(m) THEN <<"source">> \o mv[m].stack ELSE mv[m].stack
  <1>2. /\ mv' = [mv EXCEPT ![m] = IF Renames(m) THEN [c EXCEPT !.stack = <<"source">> \o @] ELSE c]
        /\ mv \in [Movers -> Command] /\ mv[m].stack \in Seq(Undos)
        /\ mv[m].pc = "drop" /\ UNCHANGED <<home, work>>
    BY <1>1 DEF Drop, TypeOK, Command, At
  <1>3. ~Armed(m, "source") /\ Ordered(mv[m].stack) /\ Armed(m, "rows")
    BY <1>2 DEF Shape, StackShape, WithRows
  <1>4. /\ t \in Seq(Undos) /\ Ordered(t) /\ t # <<>>
        /\ \A v : Has(t, v) <=> Has(mv[m].stack, v) \/ (Renames(m) /\ v = "source")
    <2>1. CASE Renames(m)
      BY <1>2, <1>3, <2>1, SourceUnder DEF Armed
    <2>2. CASE ~Renames(m)
      <3>1. mv[m].stack # <<>>
        BY <1>3, EmptyStack DEF Armed
      <3>2. QED
        BY <1>2, <1>3, <2>2, <3>1
    <2>3. QED
      BY <2>1, <2>2
  <1>5. mv[m].amiss = FALSE
    BY <1>2 DEF Shape, WhoShape, Sealed, Ended, Command
  <1>6. h \in BOOLEAN /\ (h = TRUE <=> Renames(m) /\ dropped = FALSE /\ registry[mv[m].name] # None)
    OBVIOUS
  <1> HIDE DEF h
  <1>7. c \in Command /\ c.stack = mv[m].stack /\ c.pc = "seal" /\ c.amiss = h
        /\ c.box = mv[m].box /\ c.name = mv[m].name /\ c.to = mv[m].to
        /\ c.from = mv[m].from /\ c.dest = mv[m].dest /\ c.copies = mv[m].copies
        /\ c.sound = mv[m].sound /\ c.rows = mv[m].rows
    BY <1>2, <1>6, ZenonT(40) DEF Command, Working, Trying
  <1> HIDE DEF c
  <1>8. /\ Same(m) /\ Others(m) /\ mv'[m].pc = "seal" /\ mv'[m].rows = mv[m].rows
        /\ mv'[m].stack = t /\ mv'[m].amiss = h /\ mv' \in [Movers -> Command]
    <2> DEFINE d == IF Renames(m) THEN [c EXCEPT !.stack = <<"source">> \o @] ELSE c
    <2>1. d = [c EXCEPT !.stack = t]
      <3>1. CASE Renames(m)
        BY <1>7, <3>1
      <3>2. CASE ~Renames(m)
        <4>1. t = c.stack /\ d = c
          BY <1>7, <3>2
        <4>2. [c EXCEPT !.stack = c.stack] = c
          BY <1>7 DEF Command
        <4>3. QED
          BY <4>1, <4>2
      <3>3. QED
        BY <3>1, <3>2
    <2>2. mv' = [mv EXCEPT ![m] = d]
      BY <1>2
    <2> HIDE DEF d, t
    <2>3. /\ d \in Command /\ d.stack = t /\ d.pc = "seal" /\ d.amiss = h
          /\ d.box = c.box /\ d.name = c.name /\ d.to = c.to /\ d.from = c.from
          /\ d.dest = c.dest /\ d.copies = c.copies /\ d.sound = c.sound /\ d.rows = c.rows
      BY <1>4, <1>7, <2>1 DEF Command
    <2>4. mv'[m] = d /\ Others(m) /\ mv' \in [Movers -> Command]
      BY <1>2, <2>2, <2>3 DEF Others
    <2>5. QED
      BY <1>7, <2>3, <2>4 DEF Same
  <1> HIDE DEF t
  <1>9. /\ (Renames(m)' <=> Renames(m)) /\ mv'[m].copies = mv[m].copies
        /\ \A v : Armed(m, v)' <=> Armed(m, v) \/ (Renames(m) /\ v = "source")
    BY <1>4, <1>8 DEF Renames, Same, Armed
  <1>10. WhoShape(m)'
    <2>1. /\ mv[m].pc \in Working /\ mv'[m].pc \in Working
          /\ mv'[m].pc \notin {"copy", "copying"} \cup Homes
          /\ mv'[m].pc \in {"seal", "undo"}
      BY <1>2, <1>8 DEF Working, Trying, Homes
    <2>2. QED
      BY <1>8, <2>1, WhoStays DEF Shape
  <1>11. StackShape(m)'
    <2>1. /\ Armed(m, "dest") => mv[m].copies = TRUE
          /\ Armed(m, "home") => Renames(m)
      BY DEF Shape, StackShape
    <2>2. Ordered(mv'[m].stack) /\ Armed(m, "rows")'
      BY <1>3, <1>4, <1>8, <1>9
    <2>3. /\ "seal" \in Trying \ {"arm"} /\ "seal" \in WithRows \ {"free", "claim", "home"}
          /\ "seal" \notin {"arm"} \cup Sealed \cup Ended
      BY DEF Trying, WithRows, Homes, Sealed, Ended
    <2>4. /\ Armed(m, "source")' => Renames(m)'
          /\ Armed(m, "dest")' => mv'[m].copies = TRUE
          /\ Armed(m, "home")' => Renames(m)'
      <3>1. /\ Armed(m, "dest")' => Armed(m, "dest")
            /\ Armed(m, "home")' => Armed(m, "home")
            /\ Armed(m, "source")' => Renames(m)
        BY <1>3, <1>9
      <3>2. QED
        BY <1>9, <2>1, <3>1
    <2>5. QED
      BY <1>8, <2>2, <2>3, <2>4 DEF StackShape
  <1>12. registry' = IF Renames(m) /\ dropped = TRUE
                     THEN [registry EXCEPT ![mv[m].name] = None] ELSE registry
    BY <1>1
  <1>13. QED
    BY <1>2, <1>4, <1>5, <1>6, <1>8, <1>9, <1>10, <1>11, <1>12 DEF Shape

LEMMA SealIs ==
  ASSUME TypeOK, NEW m \in Movers, Seal(m), Shape(m)
  PROVE  /\ Shape(m)' /\ Others(m) /\ Same(m) /\ mv' \in [Movers -> Command]
         /\ mv[m].pc = "seal" /\ mv'[m].pc = "tail" /\ mv'[m].stack = <<>>
         /\ mv'[m].amiss = mv[m].amiss /\ UNCHANGED store
  <1> DEFINE f == [mv EXCEPT ![m].stack = <<>>]
  <1>1. /\ mv' = [mv EXCEPT ![m].pc = "tail", ![m].stack = <<>>]
        /\ mv \in [Movers -> Command] /\ mv[m].pc = "seal" /\ UNCHANGED store
    BY DEF Seal, TypeOK, At
  <1>2. f \in [Movers -> Command]
    BY EmptyStack, StackTyped
  <1>3. mv' = [f EXCEPT ![m].pc = "tail"]
    BY <1>1
  <1>4. /\ Same(m) /\ Others(m) /\ mv'[m].pc = "tail" /\ mv'[m].stack = <<>>
        /\ mv'[m].amiss = mv[m].amiss
    BY <1>1 DEF Same, Others, Command
  <1> HIDE DEF f
  <1>5. mv' \in [Movers -> Command]
    BY <1>2, <1>3, ZenonT(40) DEF Command, Working, Sealed
  <1>6. WhoShape(m)'
    <2>1. /\ mv[m].pc \in Working /\ mv'[m].pc \in Working /\ mv'[m].pc \in Sealed
          /\ mv'[m].pc \notin {"copy", "copying"} \cup Homes
      BY <1>1, <1>4 DEF Working, Trying, Sealed, Homes
    <2>2. QED
      BY <1>4, <2>1, WhoStays DEF Shape
  <1>7. StackShape(m)'
    <2>1. \A u : ~Armed(m, u)'
      BY <1>4, EmptyStack DEF Armed
    <2>2. QED
      BY <1>4, <2>1, EmptyStack DEF StackShape, WithRows, Homes
  <1>8. QED
    BY <1>1, <1>4, <1>5, <1>6, <1>7 DEF Shape

LEMMA PoppedShape ==
  ASSUME TypeOK, NEW m \in Movers, NEW u \in Undos, NEW f \in BOOLEAN,
         Undoes(m, u), Popped(m, f), Shape(m)
  PROVE  Shape(m)'
  <1>1. /\ Same(m) /\ Others(m) /\ mv[m].pc = "undo" /\ mv'[m].pc = "undo"
        /\ Ordered(mv'[m].stack) /\ \A v : Armed(m, v)' => Armed(m, v)
        /\ \A v : Armed(m, v)' => v \in Below(u)
    BY PoppedIs DEF Shape, StackShape
  <1>2. /\ mv[m].pc \in Working /\ mv'[m].pc \in Working
        /\ mv'[m].pc \notin {"copy", "copying", "arm"} \cup Homes \cup WithRows \cup Sealed \cup Ended
    BY <1>1 DEF Working, Sealed, Homes, WithRows, Ended
  <1>3. WhoShape(m)'
    BY <1>1, <1>2, WhoStays DEF Shape
  <1>4. (Renames(m)' <=> Renames(m)) /\ mv'[m].copies = mv[m].copies
    BY <1>1 DEF Renames, Same
  <1>5. /\ Armed(m, "source")' => Renames(m)'
        /\ Armed(m, "dest")' => mv'[m].copies = TRUE
        /\ ~Armed(m, "home")'
    BY <1>1, <1>4 DEF Shape, StackShape, Below
  <1>6. StackShape(m)'
    BY <1>1, <1>2, <1>5 DEF StackShape
  <1>7. QED
    BY <1>3, <1>6 DEF Shape

LEMMA EndsShape ==
  ASSUME TypeOK, NEW m \in Movers, NEW q \in {"done", "undone", "killed"}, Ends(m, q), Shape(m)
  PROVE  Shape(m)'
  <1>1. mv'[m].pc = q /\ mv'[m].stack = <<>>
    BY EndsIs DEF Ended
  <1>2. \A u : ~Armed(m, u)'
    BY <1>1, EmptyStack DEF Armed
  <1>3. q \in Ended /\ q \notin Working \cup {"copy", "copying", "idle"} \cup Homes \cup WithRows
    BY DEF Working, Trying, Sealed, Homes, WithRows, Ended
  <1>4. StackShape(m)'
    BY <1>1, <1>2, <1>3, EmptyStack DEF StackShape
  <1>5. WhoShape(m)'
    BY <1>1, <1>3 DEF WhoShape
  <1>6. QED
    BY <1>4, <1>5 DEF Shape

LEMMA BeginsShape ==
  ASSUME TypeOK, NEW m \in Movers, NEW n \in Names, NEW to \in Names, NEW files \in Places,
         NEW dest \in Places, NEW copies \in BOOLEAN,
         registry[n] # None, home[n] # Absent, Begins(m, n, to, files, dest, copies),
         copies = TRUE => dest # registry[n],
         copies = FALSE => (to # n <=> dest = registry[n])
  PROVE  Shape(m)'
  <1>1. /\ home[n].of \in Boxes /\ mv'[m].pc = "arm" /\ mv'[m].box = home[n].of
        /\ mv'[m].name = n /\ mv'[m].to = to /\ mv'[m].from = registry[n]
        /\ mv'[m].from \in Places /\ mv'[m].dest = dest
        /\ mv'[m].copies = copies /\ mv'[m].stack = <<>> /\ mv'[m].amiss = FALSE
    <2>1. Begun(m, n, to, files, dest, copies)
      BY BeginsIs
    <2>2. QED
      BY <2>1 DEF Begun
  <1>2. \A u : ~Armed(m, u)'
    BY <1>1, EmptyStack DEF Armed
  <1>3. StackShape(m)'
    BY <1>1, <1>2, EmptyStack DEF StackShape, WithRows, Homes
  <1>4. WhoShape(m)'
    <2>1. Renames(m)' <=> to # n
      BY <1>1 DEF Renames
    <2>2. mv'[m].pc \notin {"idle", "copy", "copying"} \cup Homes /\ mv'[m].amiss # TRUE
      BY <1>1 DEF Homes
    <2>3. /\ mv'[m].copies = TRUE => mv'[m].dest # mv'[m].from
          /\ mv'[m].copies = FALSE => (Renames(m)' <=> mv'[m].dest = mv'[m].from)
      BY <1>1, <2>1
    <2>4. QED
      BY <1>1, <2>2, <2>3 DEF WhoShape
  <1>5. QED
    BY <1>3, <1>4 DEF Shape

\* A command that takes no step keeps its shape.
LEMMA StillShape ==
  ASSUME NEW k \in Movers, mv'[k] = mv[k], Shape(k)
  PROVE  Shape(k)'
  <1>1. (Renames(k)' <=> Renames(k)) /\ \A u : Armed(k, u)' <=> Armed(k, u)
    BY DEF Renames, Armed
  <1>2. QED
    BY <1>1 DEF Shape, StackShape, WhoShape

LEMMA Trees ==
  /\ Absent \in Tree /\ Absent.whole = FALSE /\ Absent.of = None
  /\ \A b \in Boxes : Whole(b) \in Tree /\ Whole(b).whole = TRUE /\ Whole(b).of = b
                      /\ Whole(b) # Absent
  /\ \A t \in Tree : /\ t.whole \in BOOLEAN /\ (t # Absent => t.of \in Boxes)
                     /\ t.whole = TRUE => t = Whole(t.of) /\ t.of \in Boxes
                     /\ Part(t) \in Tree /\ Part(t).whole = FALSE
                     /\ Removals(t) \subseteq Tree
                     /\ \A r \in Removals(t) : r.whole = TRUE => r = t
  <1>1. Absent.whole = FALSE /\ Absent.of = None /\ Absent \in Tree
    BY DEF Absent, Tree
  <1>2. ASSUME NEW b \in Boxes
        PROVE  Whole(b) \in Tree /\ Whole(b).whole = TRUE /\ Whole(b).of = b /\ Whole(b) # Absent
    BY <1>1 DEF Whole, Tree
  <1>3. ASSUME NEW t \in Tree
        PROVE  /\ t.whole \in BOOLEAN /\ (t # Absent => t.of \in Boxes)
               /\ t.whole = TRUE => t = Whole(t.of) /\ t.of \in Boxes
               /\ Part(t) \in Tree /\ Part(t).whole = FALSE
    <2>1. CASE t = Absent
      <3>1. Part(t) = Absent
        <4> DEFINE Full == [of : {None}, whole : BOOLEAN]
        <4>1. t \in Full
          BY <2>1 DEF Absent
        <4>2. Part(t) \in Full /\ Part(t).whole = FALSE
          BY <4>1 DEF Part
        <4>3. \A r \in Full : r.whole = FALSE => r = Absent
          BY DEF Absent
        <4>4. QED
          BY <4>2, <4>3
      <3>2. QED
        BY <1>1, <2>1, <3>1
    <2>2. CASE t \in [of : Boxes, whole : BOOLEAN]
      BY <2>2 DEF Part, Whole, Tree
    <2>3. QED
      BY <2>1, <2>2 DEF Tree
  <1>4. ASSUME NEW t \in Tree, NEW r \in Removals(t)
        PROVE  r \in Tree /\ (r.whole = TRUE => r = t)
    BY <1>1, <1>3 DEF Removals
  <1>5. QED
    BY <1>1, <1>2, <1>3, <1>4

StoreOK ==
  /\ registry \in [Names -> Places \cup {None}]
  /\ home \in [Names -> Tree] /\ work \in [Places -> Tree]

\* No place is registered under two names.
OneRowPerPlace == \A n, k \in Names : registry[n] = registry[k] /\ registry[n] # None => n = k

LEMMA StoreStays ==
  ASSUME StoreOK, OneRowPerPlace, UNCHANGED store
  PROVE  StoreOK' /\ OneRowPerPlace'
  BY DEF StoreOK, OneRowPerPlace, store

\* A row is written only for a place that no other row has.
LEMMA RowWritten ==
  ASSUME StoreOK, OneRowPerPlace, NEW n \in Names, NEW w \in Places \cup {None},
         w = None \/ ~HeldByOther(n, w), registry' = [registry EXCEPT ![n] = w]
  PROVE  registry' \in [Names -> Places \cup {None}] /\ OneRowPerPlace'
  <1>1. registry' \in [Names -> Places \cup {None}]
    BY DEF StoreOK
  <1>2. \A k \in Names : registry'[k] = IF k = n THEN w ELSE registry[k]
    BY DEF StoreOK
  <1>3. OneRowPerPlace'
    BY <1>2 DEF OneRowPerPlace, HeldByOther
  <1>4. QED
    BY <1>1, <1>3

\* The restore of the membership puts a row back only where no other row is.
LEMMA RowsPutBack ==
  ASSUME TypeOK, OneRowPerPlace, NEW m \in Movers, UndoRows(m)
  PROVE  /\ registry' \in [Names -> Places \cup {None}] /\ OneRowPerPlace'
         /\ \A n \in Names : registry'[n] \in {registry[n], mv[m].rows[n]}
         /\ \E f \in BOOLEAN : Popped(m, f) /\ (f = FALSE => registry' = mv[m].rows)
         /\ UNCHANGED <<home, work>>
  <1> DEFINE differ == {n \in Names : registry[n] # mv[m].rows[n]}
             After(back) == [n \in Names |-> IF n \in back THEN mv[m].rows[n] ELSE registry[n]]
  <1>1. PICK back \in SUBSET differ :
          /\ \A n \in back, k \in Names :
               k # n /\ After(back)[k] = After(back)[n] => After(back)[n] = None
          /\ registry' = After(back)
          /\ Popped(m, back # differ)
    BY DEF UndoRows
  <1>2. mv[m].rows \in [Names -> Places \cup {None}] /\ registry \in [Names -> Places \cup {None}]
    BY DEF TypeOK, Command
  <1>3. /\ registry' \in [Names -> Places \cup {None}]
        /\ \A n \in Names : registry'[n] = IF n \in back THEN mv[m].rows[n] ELSE registry[n]
    BY <1>1, <1>2
  <1>4. OneRowPerPlace'
    <2> SUFFICES ASSUME NEW n \in Names, NEW k \in Names,
                        registry'[n] = registry'[k], registry'[n] # None, n # k
                 PROVE  FALSE
      BY DEF OneRowPerPlace
    <2>1. CASE n \in back
      BY <1>1, <2>1
    <2>2. CASE k \in back
      BY <1>1, <2>2
    <2>3. CASE n \notin back /\ k \notin back
      BY <1>3, <2>3 DEF OneRowPerPlace
    <2>4. QED
      BY <2>1, <2>2, <2>3
  <1>5. \E f \in BOOLEAN : Popped(m, f) /\ (f = FALSE => registry' = mv[m].rows)
    <2> DEFINE g == back # differ
    <2>1. Popped(m, g) /\ g \in BOOLEAN
      BY <1>1
    <2>2. ASSUME g = FALSE PROVE registry' = mv[m].rows
      <3>1. \A n \in Names : registry'[n] = mv[m].rows[n]
        BY <1>3, <2>2
      <3>2. QED
        BY <1>2, <1>3, <3>1
    <2> HIDE DEF g
    <2>3. QED
      BY <2>1, <2>2
  <1>6. QED
    BY <1>3, <1>4, <1>5 DEF UndoRows

Typed(m) ==
  StoreOK' /\ OneRowPerPlace' /\ mv' \in [Movers -> Command] /\ Others(m) /\ Shape(m)'

LEMMA GotoTyped ==
  ASSUME TypeOK, NEW m \in Movers, NEW q, Goto(m, q), Shape(m), Leads(m, q),
         StoreOK', OneRowPerPlace'
  PROVE  Typed(m)
  BY GotoShape, GotoIs, LeadsOn DEF Typed

\* Every step of a command keeps the types.
LEMMA StepTyped ==
  ASSUME TypeOK, OneRowPerPlace, NEW m \in Movers, Shape(m), Step(m)
  PROVE  Typed(m)
  <1> USE DEF At
  <1>1. StoreOK /\ mv \in [Movers -> Command] /\ mv[m] \in Command
    BY DEF TypeOK, StoreOK
  <1>2. mv[m].pc \in Working =>
          /\ mv[m].box \in Boxes /\ mv[m].name \in Names /\ mv[m].to \in Names
          /\ mv[m].from \in Places /\ mv[m].dest \in Places
    BY DEF Shape, WhoShape
  <1>3. CASE Arm(m)
    <2>1. StoreOK' /\ OneRowPerPlace' /\ mv[m].pc = "arm"
      BY <1>1, <1>3, StoreStays DEF Arm, Yes
    <2>2. CASE mv[m].copies = TRUE /\ Push(m, "dest", "copy")
      <3>1. "dest" \in Undos /\ "copy" \in Working
        BY DEF Undos, Working, Trying
      <3>2. QED
        BY <2>1, <2>2, <3>1, PushShape DEF Typed
    <2>3. CASE mv[m].copies = TRUE /\ Goto(m, "copy")
      BY <2>1, <2>3, GotoTyped DEF Leads
    <2>4. CASE Goto(m, "rows")
      BY <2>1, <2>4, GotoTyped DEF Leads
    <2>5. QED
      BY <1>1, <1>3, <2>2, <2>3, <2>4 DEF Arm, Command
  <1>4. CASE Copy(m)
    <2>1. mv[m].pc = "copy" /\ Goto(m, "copying") /\ mv[m].pc \in Working
      BY <1>4 DEF Copy, Working, Trying
    <2>2. Part(work[mv[m].from]) \in Tree
      BY <1>1, <1>2, <2>1, Trees DEF StoreOK
    <2>3. StoreOK' /\ OneRowPerPlace'
      BY <1>1, <1>4, <2>2 DEF Copy, StoreOK, OneRowPerPlace
    <2>4. QED
      BY <2>1, <2>3, GotoTyped DEF Leads
  <1>5. CASE Copied(m)
    <2>1. mv[m].pc = "copying" /\ Goto(m, "rows") /\ mv[m].pc \in Working
      BY <1>5 DEF Copied, Working, Trying
    <2>2. StoreOK' /\ OneRowPerPlace'
      BY <1>1, <1>2, <1>5, <2>1 DEF Copied, StoreOK, OneRowPerPlace
    <2>3. QED
      BY <2>1, <2>2, GotoTyped DEF Leads
  <1>6. CASE ArmRows(m)
    BY <1>1, <1>6, ArmRowsIs, StoreStays DEF Typed, ArmRows
  <1>7. CASE Free(m)
    <2>1. mv[m].pc = "free" /\ Goto(m, "claim") /\ mv[m].pc \in Working
      BY <1>7 DEF Free, Working, Trying
    <2>2. StoreOK' /\ OneRowPerPlace'
      <3>1. CASE registry' = [registry EXCEPT ![mv[m].name] = None]
        BY <1>1, <1>2, <1>7, <2>1, <3>1, RowWritten DEF Free, StoreOK
      <3>2. CASE registry' = registry
        BY <1>1, <1>7, <3>2, StoreStays DEF Free, store
      <3>3. QED
        BY <1>7, <3>1, <3>2 DEF Free
    <2>3. QED
      BY <2>1, <2>2, GotoTyped DEF Leads
  <1>8. CASE Claim(m)
    <2>1. mv[m].pc = "claim" /\ mv[m].pc \in Working
      BY <1>8 DEF Claim, Working, Trying
    <2>2. StoreOK' /\ OneRowPerPlace'
      BY <1>1, <1>2, <1>8, <2>1, RowWritten DEF Claim, StoreOK
    <2>3. CASE Renames(m) /\ Goto(m, "home")
      BY <2>1, <2>2, <2>3, GotoTyped DEF Leads
    <2>4. CASE Goto(m, "drop")
      BY <2>1, <2>2, <2>4, GotoTyped DEF Leads
    <2>5. QED
      BY <1>8, <2>3, <2>4 DEF Claim
  <1>9. CASE ArmHome(m)
    <2>1. StoreOK' /\ OneRowPerPlace' /\ mv[m].pc = "home"
      BY <1>1, <1>9, StoreStays DEF ArmHome
    <2>2. CASE Push(m, "home", "homecopy")
      <3>1. "home" \in Undos /\ "homecopy" \in Working
        BY DEF Undos, Working, Trying
      <3>2. QED
        BY <2>1, <2>2, <3>1, PushShape DEF Typed
    <2>3. CASE Goto(m, "homecopy")
      BY <2>1, <2>3, GotoTyped DEF Leads
    <2>4. QED
      BY <1>9, <2>2, <2>3 DEF ArmHome
  <1>10. CASE CopyHome(m)
    <2>1. mv[m].pc = "homecopy" /\ Goto(m, "homecopying") /\ mv[m].pc \in Working
      BY <1>10 DEF CopyHome, Working, Trying
    <2>2. Part(home[mv[m].name]) \in Tree
      BY <1>1, <1>2, <2>1, Trees DEF StoreOK
    <2>3. StoreOK' /\ OneRowPerPlace'
      BY <1>1, <1>10, <2>2 DEF CopyHome, StoreOK, OneRowPerPlace
    <2>4. QED
      BY <2>1, <2>3, GotoTyped DEF Leads
  <1>11. CASE HomeCopied(m)
    <2>1. mv[m].pc = "homecopying" /\ Goto(m, "drop") /\ mv[m].pc \in Working
      BY <1>11 DEF HomeCopied, Working, Trying
    <2>2. StoreOK' /\ OneRowPerPlace'
      BY <1>1, <1>2, <1>11, <2>1 DEF HomeCopied, StoreOK, OneRowPerPlace
    <2>3. QED
      BY <2>1, <2>2, GotoTyped DEF Leads
  <1>12. CASE Drop(m)
    <2>1. mv[m].pc = "drop" /\ mv[m].pc \in Working /\ UNCHANGED <<home, work>>
      BY <1>12 DEF Drop, Working, Trying
    <2>2. PICK dropped \in BOOLEAN :
            /\ Shape(m)' /\ Others(m) /\ mv' \in [Movers -> Command]
            /\ registry' = IF Renames(m) /\ dropped = TRUE
                           THEN [registry EXCEPT ![mv[m].name] = None] ELSE registry
      BY <1>12, DropIs
    <2>3. StoreOK' /\ OneRowPerPlace'
      <3>1. CASE registry' = [registry EXCEPT ![mv[m].name] = None]
        BY <1>1, <1>2, <2>1, <3>1, RowWritten DEF StoreOK
      <3>2. CASE registry' = registry
        BY <1>1, <2>1, <3>2, StoreStays DEF store
      <3>3. QED
        BY <2>2, <3>1, <3>2
    <2>4. QED
      BY <2>2, <2>3 DEF Typed
  <1>13. CASE Seal(m)
    BY <1>1, <1>13, SealIs, StoreStays DEF Typed
  <1>14. CASE DropHome(m)
    <2>1. mv[m].pc = "tail" /\ Goto(m, "retire") /\ mv[m].pc \in Working
      BY <1>14 DEF DropHome, Working, Sealed
    <2>2. StoreOK' /\ OneRowPerPlace'
      <3>1. PICK left \in Removals(home[mv[m].name]) \cup {home[mv[m].name]} :
              home' = [home EXCEPT ![mv[m].name] = left]
        BY <1>14 DEF DropHome
      <3>2. left \in Tree
        BY <1>1, <1>2, <2>1, <3>1, Trees DEF StoreOK
      <3>3. QED
        BY <1>1, <1>14, <3>1, <3>2 DEF DropHome, StoreOK, OneRowPerPlace
    <2>3. QED
      BY <2>1, <2>2, GotoTyped DEF Leads
  <1>15. CASE Retire(m)
    <2>1. mv[m].pc = "retire" /\ Ends(m, "done") /\ mv[m].pc \in Working
      BY <1>15 DEF Retire, Working, Sealed
    <2>2. StoreOK' /\ OneRowPerPlace'
      <3>1. PICK left \in Removals(work[mv[m].from]) \cup {work[mv[m].from]} :
              work' = [work EXCEPT ![mv[m].from] = left]
        BY <1>15 DEF Retire
      <3>2. left \in Tree
        BY <1>1, <1>2, <2>1, <3>1, Trees DEF StoreOK
      <3>3. QED
        BY <1>1, <1>15, <3>1, <3>2 DEF Retire, StoreOK, OneRowPerPlace
    <2>3. QED
      BY <2>1, <2>2, EndsShape, EndsIs DEF Typed, Ended
  <1>16. CASE Stop(m)
    BY <1>1, <1>16, EndsShape, EndsIs, StoreStays DEF Typed, Stop, Ended
  <1>17. CASE Fail(m)
    BY <1>1, <1>17, GotoTyped, StoreStays DEF Leads, Fail
  <1>18. CASE UndoCopy(m)
    <2>1. PICK left \in Removals(work[mv[m].dest]) :
            /\ work' = [work EXCEPT ![mv[m].dest] = left]
            /\ Popped(m, left # Absent)
      BY <1>18 DEF UndoCopy
    <2> DEFINE f == left # Absent
    <2>2. f \in BOOLEAN /\ "dest" \in Undos /\ Undoes(m, "dest") /\ Popped(m, f)
      BY <1>18, <2>1 DEF UndoCopy, Undos
    <2> HIDE DEF f
    <2>3. mv' \in [Movers -> Command] /\ Others(m) /\ mv[m].pc = "undo"
      BY <2>2, PoppedIs DEF Shape, StackShape
    <2>4. Shape(m)'
      BY <2>2, PoppedShape
    <2>5. left \in Tree
      BY <1>1, <1>2, <2>1, <2>3, PCs, Trees DEF StoreOK
    <2>6. StoreOK' /\ OneRowPerPlace'
      BY <1>1, <1>18, <2>1, <2>5 DEF UndoCopy, StoreOK, OneRowPerPlace
    <2>7. QED
      BY <2>3, <2>4, <2>6 DEF Typed
  <1>19. CASE UndoRows(m)
    <2>1. PICK f \in BOOLEAN : Popped(m, f)
      BY <1>19, RowsPutBack
    <2>2. "rows" \in Undos /\ Undoes(m, "rows")
      BY <1>19 DEF UndoRows, Undos
    <2>3. mv' \in [Movers -> Command] /\ Others(m)
      BY <2>1, <2>2, PoppedIs DEF Shape, StackShape
    <2>4. Shape(m)'
      BY <2>1, <2>2, PoppedShape
    <2>5. StoreOK' /\ OneRowPerPlace'
      BY <1>1, <1>19, RowsPutBack DEF StoreOK
    <2>6. QED
      BY <2>3, <2>4, <2>5 DEF Typed
  <1>20. CASE UndoHome(m)
    <2>1. PICK left \in Removals(home[mv[m].to]) :
            /\ home' = [home EXCEPT ![mv[m].to] = left]
            /\ Popped(m, left # Absent)
      BY <1>20 DEF UndoHome
    <2> DEFINE f == left # Absent
    <2>2. f \in BOOLEAN /\ "home" \in Undos /\ Undoes(m, "home") /\ Popped(m, f)
      BY <1>20, <2>1 DEF UndoHome, Undos
    <2> HIDE DEF f
    <2>3. mv' \in [Movers -> Command] /\ Others(m) /\ mv[m].pc = "undo"
      BY <2>2, PoppedIs DEF Shape, StackShape
    <2>4. Shape(m)'
      BY <2>2, PoppedShape
    <2>5. left \in Tree
      BY <1>1, <1>2, <2>1, <2>3, PCs, Trees DEF StoreOK
    <2>6. StoreOK' /\ OneRowPerPlace'
      BY <1>1, <1>20, <2>1, <2>5 DEF UndoHome, StoreOK, OneRowPerPlace
    <2>7. QED
      BY <2>3, <2>4, <2>6 DEF Typed
  <1>21. CASE UndoDrop(m)
    <2>1. "source" \in Undos /\ Undoes(m, "source") /\ UNCHANGED <<home, work>>
      BY <1>21 DEF UndoDrop, Undos
    <2>2. PICK f \in BOOLEAN : Popped(m, f)
      BY <1>21 DEF UndoDrop
    <2>3. mv' \in [Movers -> Command] /\ Others(m) /\ mv[m].pc = "undo"
      BY <2>1, <2>2, PoppedIs DEF Shape, StackShape
    <2>4. Shape(m)'
      BY <2>1, <2>2, PoppedShape
    <2>5. CASE /\ ~HeldByOther(mv[m].name, mv[m].from)
               /\ registry' = [registry EXCEPT ![mv[m].name] = mv[m].from]
      <3>1. mv[m].name \in Names /\ mv[m].from \in Places
        BY <1>2, <2>3, PCs
      <3>2. registry' \in [Names -> Places \cup {None}] /\ OneRowPerPlace'
        BY <1>1, <2>5, <3>1, RowWritten
      <3>3. QED
        BY <1>1, <2>1, <2>3, <2>4, <3>2 DEF Typed, StoreOK
    <2>6. CASE UNCHANGED registry
      BY <1>1, <2>1, <2>3, <2>4, <2>6, StoreStays DEF Typed, store
    <2>7. QED
      BY <1>21, <2>5, <2>6 DEF UndoDrop
  <1>22. CASE Undone(m)
    BY <1>1, <1>22, EndsShape, EndsIs, StoreStays DEF Typed, Undone, Ended
  <1>23. CASE Kill(m)
    BY <1>1, <1>23, EndsShape, EndsIs, StoreStays DEF Typed, Kill, Ended
  <1>24. QED
    BY <1>3, <1>4, <1>5, <1>6, <1>7, <1>8, <1>9, <1>10, <1>11, <1>12, <1>13, <1>14,
       <1>15, <1>16, <1>17, <1>18, <1>19, <1>20, <1>21, <1>22, <1>23 DEF Step

\* A command begins: Move, Rename or Remap.
LEMMA BeginTyped ==
  ASSUME TypeOK, OneRowPerPlace, NEW m \in Movers, NEW n \in Names, NEW to, NEW dest,
         \/ to \in Names /\ dest \in Places /\ Move(m, n, to, dest)
         \/ to \in Names /\ dest = registry[n] /\ Rename(m, n, to)
         \/ to = n /\ dest \in Places /\ Remap(m, n, dest)
  PROVE  /\ Typed(m) /\ At(m, "idle") /\ UNCHANGED registry
         /\ \E files \in Places, copies \in BOOLEAN : Begun(m, n, to, files, dest, copies)
  <1>1. StoreOK /\ registry[n] # None /\ home[n] # Absent /\ registry[n] \in Places
    BY DEF TypeOK, StoreOK, Move, Rename, Remap
  <1>2. to \in Names /\ dest \in Places
    BY <1>1
  <1>3. StoreOK' /\ OneRowPerPlace' /\ UNCHANGED registry /\ At(m, "idle")
    <2>1. CASE Remap(m, n, dest)
      <3>1. work' \in [Places -> Tree]
        <4>1. CASE UNCHANGED work
          BY <1>1, <4>1 DEF StoreOK
        <4>2. CASE work' = [work EXCEPT ![dest] = work[registry[n]], ![registry[n]] = Absent]
          BY <1>1, <1>2, <4>2, Trees DEF StoreOK
        <4>3. QED
          BY <2>1, <4>1, <4>2 DEF Remap
      <3>2. UNCHANGED <<registry, home>> /\ At(m, "idle")
        BY <2>1 DEF Remap
      <3>3. QED
        BY <1>1, <3>1, <3>2 DEF StoreOK, OneRowPerPlace
    <2>2. CASE UNCHANGED store /\ At(m, "idle")
      BY <1>1, <2>2, StoreStays DEF store
    <2>3. QED
      BY <2>1, <2>2 DEF Move, Rename
  <1>4. ASSUME NEW files \in Places, NEW copies \in BOOLEAN,
               Begins(m, n, to, files, dest, copies),
               copies = TRUE => dest # registry[n],
               copies = FALSE => (to # n <=> dest = registry[n])
        PROVE  Typed(m) /\ Begun(m, n, to, files, dest, copies)
    <2>1. Begun(m, n, to, files, dest, copies)
      BY <1>1, <1>2, <1>4, BeginsIs
    <2>2. Shape(m)'
      BY <1>1, <1>2, <1>4, BeginsShape
    <2>3. QED
      BY <1>3, <2>1, <2>2 DEF Typed, Begun
  <1>5. \E files \in Places, copies \in BOOLEAN :
          /\ Begins(m, n, to, files, dest, copies)
          /\ copies = TRUE => dest # registry[n]
          /\ copies = FALSE => (to # n <=> dest = registry[n])
    <2>1. CASE to \in Names /\ dest \in Places /\ Move(m, n, to, dest)
      <3>1. Begins(m, n, to, registry[n], dest, TRUE) /\ dest # registry[n]
        BY <2>1 DEF Move
      <3>2. QED
        BY <1>1, <3>1
    <2>2. CASE dest = registry[n] /\ Rename(m, n, to)
      <3>1. Begins(m, n, to, registry[n], dest, FALSE) /\ to # n
        BY <2>2 DEF Rename
      <3>2. QED
        BY <1>1, <2>2, <3>1
    <2>3. CASE to = n /\ dest \in Places /\ Remap(m, n, dest)
      <3>1. /\ Begins(m, n, to, registry[n], dest, FALSE) \/ Begins(m, n, to, dest, dest, FALSE)
            /\ dest # registry[n]
        BY <2>3 DEF Remap
      <3>2. QED
        BY <1>1, <1>2, <2>3, <3>1
    <2>4. QED
      BY <2>1, <2>2, <2>3
  <1>6. QED
    BY <1>3, <1>4, <1>5

\* The steps of other commands.
LEMMA OtherTyped ==
  ASSUME TypeOK, OneRowPerPlace, NEW n \in Names,
         \/ \E b \in Boxes, w \in Places : Create(b, n, w)
         \/ Rm(n)
         \/ \E w \in Places : Register(n, w)
  PROVE  StoreOK' /\ OneRowPerPlace' /\ UNCHANGED mv
  <1>1. StoreOK
    BY DEF TypeOK, StoreOK
  <1>2. ASSUME NEW b \in Boxes, NEW w \in Places, Create(b, n, w)
        PROVE  StoreOK' /\ OneRowPerPlace' /\ UNCHANGED mv
    <2>1. registry' \in [Names -> Places \cup {None}] /\ OneRowPerPlace'
      BY <1>1, <1>2, RowWritten DEF Create
    <2>2. home' \in [Names -> Tree] /\ work' \in [Places -> Tree] /\ UNCHANGED mv
      BY <1>1, <1>2, Trees DEF Create, StoreOK
    <2>3. QED
      BY <2>1, <2>2 DEF StoreOK
  <1>3. CASE Rm(n)
    <2>1. registry' \in [Names -> Places \cup {None}] /\ OneRowPerPlace'
      BY <1>1, <1>3, RowWritten DEF Rm
    <2>2. QED
      BY <1>1, <1>3, <2>1 DEF Rm, StoreOK
  <1>4. ASSUME NEW w \in Places, Register(n, w)
        PROVE  StoreOK' /\ OneRowPerPlace' /\ UNCHANGED mv
    <2>1. registry' \in [Names -> Places \cup {None}] /\ OneRowPerPlace'
      BY <1>1, <1>4, RowWritten DEF Register
    <2>2. QED
      BY <1>1, <1>4, <2>1 DEF Register, StoreOK
  <1>5. QED
    BY <1>2, <1>3, <1>4

TypeInv == TypeOK /\ ShapeInv /\ OneRowPerPlace

LEMMA InitTyped ==
  ASSUME Init
  PROVE  TypeInv
  <1>1. PICK there \in SUBSET Boxes, listed \in SUBSET Boxes :
          \E name \in Injections(there, Names), place \in Injections(there, Places) :
            /\ registry = [n \in Names |->
                 IF \E b \in there \cap listed : name[b] = n
                 THEN place[CHOOSE b \in there : name[b] = n] ELSE None]
            /\ home = [n \in Names |-> IF \E b \in there : name[b] = n
                 THEN Whole(CHOOSE b \in there : name[b] = n) ELSE Absent]
            /\ work = [w \in Places |-> IF \E b \in there : place[b] = w
                 THEN Whole(CHOOSE b \in there : place[b] = w) ELSE Absent]
    BY DEF Init
  <1>2. PICK name \in Injections(there, Names), place \in Injections(there, Places) :
            /\ registry = [n \in Names |->
                 IF \E b \in there \cap listed : name[b] = n
                 THEN place[CHOOSE b \in there : name[b] = n] ELSE None]
            /\ home = [n \in Names |-> IF \E b \in there : name[b] = n
                 THEN Whole(CHOOSE b \in there : name[b] = n) ELSE Absent]
            /\ work = [w \in Places |-> IF \E b \in there : place[b] = w
                 THEN Whole(CHOOSE b \in there : place[b] = w) ELSE Absent]
    BY <1>1
  <1>3. /\ name \in [there -> Names] /\ place \in [there -> Places]
        /\ \A x, y \in there : name[x] = name[y] => x = y
        /\ \A x, y \in there : place[x] = place[y] => x = y
    BY DEF Injections
  <1> DEFINE at(n) == CHOOSE b \in there : name[b] = n
             on(w) == CHOOSE b \in there : place[b] = w
  <1>4. \A n : (\E b \in there : name[b] = n) => at(n) \in there /\ name[at(n)] = n
    OBVIOUS
  <1>5. \A w : (\E b \in there : place[b] = w) => on(w) \in there /\ place[on(w)] = w
    OBVIOUS
  <1>6. /\ registry = [n \in Names |-> IF \E b \in there \cap listed : name[b] = n
                                       THEN place[at(n)] ELSE None]
        /\ home = [n \in Names |-> IF \E b \in there : name[b] = n
                                   THEN Whole(at(n)) ELSE Absent]
        /\ work = [w \in Places |-> IF \E b \in there : place[b] = w
                                    THEN Whole(on(w)) ELSE Absent]
    BY <1>2
  <1> HIDE DEF at, on
  <1>7. registry \in [Names -> Places \cup {None}]
    BY <1>3, <1>4, <1>6
  <1>8. home \in [Names -> Tree] /\ work \in [Places -> Tree]
    BY <1>4, <1>5, <1>6, Trees
  <1>9. OneRowPerPlace
    <2> SUFFICES ASSUME NEW n \in Names, NEW k \in Names,
                        registry[n] = registry[k], registry[n] # None
                 PROVE  n = k
      BY DEF OneRowPerPlace
    <2>1. registry[n] = place[at(n)] /\ at(n) \in there /\ name[at(n)] = n
      BY <1>4, <1>6
    <2>2. registry[k] = place[at(k)] /\ at(k) \in there /\ name[at(k)] = k
      BY <1>4, <1>6
    <2>3. QED
      BY <1>3, <2>1, <2>2
  <1>10. Idle \in Command /\ Idle.pc = "idle" /\ Idle.stack = <<>> /\ Idle.amiss = FALSE
    BY EmptyStack DEF Idle, Command, Ended
  <1>11. mv \in [Movers -> Command] /\ \A m \in Movers : mv[m] = Idle
    BY <1>10 DEF Init
  <1>12. ASSUME NEW m \in Movers PROVE Shape(m)
    <2>1. \A u : ~Armed(m, u)
      BY <1>10, <1>11, EmptyStack DEF Armed
    <2>2. Idle.pc \notin Working \cup {"copy", "copying"} \cup Homes \cup WithRows
      BY <1>10 DEF Working, Trying, Sealed, Homes, WithRows
    <2>3. QED
      BY <1>10, <1>11, <2>1, <2>2, EmptyStack DEF Shape, StackShape, WhoShape
  <1>13. QED
    BY <1>7, <1>8, <1>9, <1>11, <1>12 DEF TypeInv, TypeOK, ShapeInv

\* Who takes a step: a command begins or goes on, or another command comes by.
Begin(m) ==
  \E n \in Names : \E to, dest :
    \/ to \in Names /\ dest \in Places /\ Move(m, n, to, dest)
    \/ to \in Names /\ dest = registry[n] /\ Rename(m, n, to)
    \/ to = n /\ dest \in Places /\ Remap(m, n, dest)

Other(n) ==
  \/ \E b \in Boxes, w \in Places : Create(b, n, w)
  \/ Rm(n)
  \/ \E w \in Places : Register(n, w)

LEMMA WhoSteps ==
  ASSUME Next
  PROVE  \/ \E m \in Movers : Begin(m) \/ Step(m)
         \/ \E n \in Names : Other(n)
  <1>1. \/ \E m \in Movers :
             \/ \E n, to \in Names, dest \in Places : Move(m, n, to, dest)
             \/ \E n, to \in Names : Rename(m, n, to)
             \/ \E n \in Names, dest \in Places : Remap(m, n, dest)
             \/ Step(m)
        \/ \E n \in Names : Other(n)
    BY DEF Next, Other
  <1>2. QED
    BY <1>1 DEF Begin

LEMMA NextTyped ==
  ASSUME TypeInv, [Next]_vars
  PROVE  TypeInv'
  <1>1. ASSUME NEW m \in Movers, Typed(m) PROVE TypeInv'
    <2>1. TypeOK' /\ OneRowPerPlace'
      BY <1>1 DEF Typed, StoreOK, TypeOK
    <2>2. ASSUME NEW k \in Movers PROVE Shape(k)'
      <3>1. CASE k = m
        BY <1>1, <3>1 DEF Typed
      <3>2. CASE k # m
        <4>1. mv'[k] = mv[k]
          BY <1>1, <3>2 DEF Typed, Others
        <4>2. QED
          BY <4>1, StillShape DEF TypeInv, ShapeInv
      <3>3. QED
        BY <3>1, <3>2
    <2>3. QED
      BY <2>1, <2>2 DEF TypeInv, ShapeInv
  <1>2. ASSUME StoreOK', OneRowPerPlace', UNCHANGED mv PROVE TypeInv'
    <2>1. TypeOK'
      BY <1>2 DEF TypeInv, StoreOK, TypeOK
    <2>2. ASSUME NEW k \in Movers PROVE Shape(k)'
      BY <1>2, StillShape DEF TypeInv, ShapeInv
    <2>3. QED
      BY <1>2, <2>1, <2>2 DEF TypeInv, ShapeInv
  <1>3. CASE \E m \in Movers : Begin(m)
    BY <1>1, <1>3, BeginTyped DEF Begin, TypeInv
  <1>4. CASE \E m \in Movers : Step(m)
    BY <1>1, <1>4, StepTyped DEF TypeInv, ShapeInv
  <1>5. CASE \E n \in Names : Other(n)
    BY <1>2, <1>5, OtherTyped DEF Other, TypeInv
  <1>6. CASE UNCHANGED vars
    BY <1>2, <1>6, StoreStays DEF vars, store, TypeInv, TypeOK, StoreOK
  <1>7. QED
    BY <1>3, <1>4, <1>5, <1>6, WhoSteps

\* The membership, the data, the places and the commands keep their types, however
\* commands overlap, fail, are undone and are killed.
THEOREM TypeCorrect == Spec => []TypeOK
  <1>1. Init => TypeInv
    BY InitTyped
  <1>2. TypeInv /\ [Next]_vars => TypeInv'
    BY NextTyped
  <1>3. TypeInv => TypeOK
    BY DEF TypeInv
  <1>4. QED
    BY <1>1, <1>2, <1>3, PTL DEF Spec

\* No place gets a second name, not by a claim, a failed restore of the membership or
\* the restore of the source's row, in any overlap of commands.
THEOREM OneRowAlways == Spec => []OneRowPerPlace
  <1>1. Init => TypeInv
    BY InitTyped
  <1>2. TypeInv /\ [Next]_vars => TypeInv'
    BY NextTyped
  <1>3. TypeInv => OneRowPerPlace
    BY DEF TypeInv
  <1>4. QED
    BY <1>1, <1>2, <1>3, PTL DEF Spec

-----------------------------------------------------------------------------
(* The discipline: a relocation has the names and places it works on to     *)
(* itself.  What each command relies on, and what others leave alone        *)

\* The new name and the new place are the command's from the yes on; not when it
\* failed before that.
New(m) ==
  /\ mv[m].pc \in Working \ {"arm"}
  /\ ~(mv[m].pc = "undo" /\ mv[m].stack = <<>> /\ mv[m].amiss = FALSE)

HoldsN(m) == IF mv[m].pc \notin Working THEN {}
             ELSE IF New(m) THEN {mv[m].name, mv[m].to} ELSE {mv[m].name}
HoldsP(m) == IF mv[m].pc \notin Working THEN {}
             ELSE IF New(m) \/ Remaps(m) THEN {mv[m].from, mv[m].dest} ELSE {mv[m].from}

Exclusive == \A m, k \in Movers :
  m # k => HoldsN(m) \cap HoldsN(k) = {} /\ HoldsP(m) \cap HoldsP(k) = {}

\* Where the copies are.  Until the tail the sources are there; whatever an undo or
\* the tail removes is a copy of them, or they of it.
CopyInv(m) ==
  /\ mv[m].pc = "copying" => work[mv[m].dest].whole = FALSE
  /\ mv[m].copies = TRUE /\ mv[m].pc \in {"rows"} \cup WithRows \cup Sealed =>
       work[mv[m].dest] = work[mv[m].from]
  /\ mv[m].copies = TRUE /\ Armed(m, "rows") => work[mv[m].dest] = work[mv[m].from]
  /\ Armed(m, "dest") /\ work[mv[m].dest].whole = TRUE =>
       work[mv[m].dest] = work[mv[m].from]

HomeInv(m) ==
  /\ Renames(m) /\ mv[m].pc \in {"copy", "copying", "rows", "free", "claim"} =>
       home[mv[m].to] = Absent \/ registry[mv[m].to] # None
  /\ mv[m].pc \in {"home", "homecopy"} => home[mv[m].to] = Absent
  /\ mv[m].pc = "homecopying" => home[mv[m].to].whole = FALSE
  /\ mv[m].pc \in {"drop", "seal", "tail"} => home[mv[m].to] = home[mv[m].name]
  /\ Armed(m, "home") /\ home[mv[m].to].whole = TRUE =>
       home[mv[m].to] = home[mv[m].name]

\* Which rows the command has when, and what its undo of them will put back.
RowInv(m) ==
  /\ mv[m].pc \in {"arm", "copy", "copying", "rows", "free"} =>
       registry[mv[m].name] = mv[m].from
  /\ mv[m].pc = "claim" \/ (Renames(m) /\ mv[m].pc \in Homes \cup {"drop"}) =>
       registry[mv[m].name] = IF Frees(m) THEN None ELSE mv[m].from
  /\ mv[m].pc \in Homes \cup {"drop", "seal"} \cup Sealed => registry[mv[m].to] = mv[m].dest
  /\ mv[m].pc \in {"seal"} \cup Sealed /\ Renames(m) /\ mv[m].amiss = FALSE =>
       registry[mv[m].name] = None
  /\ mv[m].pc = "undo" /\ ~Armed(m, "rows") /\ mv[m].amiss = FALSE =>
       registry[mv[m].name] = mv[m].from
  /\ mv[m].pc \in Working => registry[mv[m].name] \in {None, mv[m].from, mv[m].dest}

UndoInv(m) ==
  /\ Armed(m, "rows") => mv[m].rows[mv[m].name] = mv[m].from
                         /\ \A k \in Names \ {mv[m].name} : mv[m].rows[k] # mv[m].from
  /\ Armed(m, "rows") /\ Renames(m) =>
       \/ registry[mv[m].to] = mv[m].rows[mv[m].to]
       \/ mv[m].rows[mv[m].to] = None /\ registry[mv[m].to] = mv[m].dest
  /\ Renames(m) /\ mv[m].pc \in {"free", "claim"} =>
       registry[mv[m].to] = mv[m].rows[mv[m].to]
  /\ Renames(m) /\ mv[m].pc \in Homes \cup {"drop", "seal"} => mv[m].rows[mv[m].to] = None
  /\ Armed(m, "home") => mv[m].rows[mv[m].to] = None /\ registry[mv[m].to] = mv[m].dest

\* Nobody else is registered at the box's own place: only its new name, from the claim
\* to the restore of the rows.
FromInv(m) == mv[m].pc \in Working =>
  \A k \in Names \ {mv[m].name} : registry[k] = mv[m].from =>
    /\ mv[m].dest = mv[m].from /\ k = mv[m].to
    /\ mv[m].pc \in Homes \cup {"drop", "seal", "undo"} \cup Sealed
    /\ mv[m].pc = "undo" => Armed(m, "rows") \/ mv[m].amiss = TRUE

\* A box that was whole when its command began is, until the tail takes the source.
Files(m) == IF Remaps(m) THEN mv[m].dest ELSE mv[m].from
SoundInv(m) == mv[m].pc \in Working /\ mv[m].sound = TRUE =>
  /\ work[Files(m)] = Whole(mv[m].box)
  /\ mv[m].pc # "retire" => home[mv[m].name] = Whole(mv[m].box)
  /\ mv[m].pc = "retire" => home[mv[m].to] = Whole(mv[m].box)

Mine(m) == CopyInv(m) /\ HomeInv(m) /\ RowInv(m) /\ UndoInv(m) /\ FromInv(m) /\ SoundInv(m)

\* A step that works on these names and places, and writes no rows for others.
Within(names, places) ==
  /\ \A n \in Names \ names : registry'[n] = registry[n] /\ home'[n] = home[n]
  /\ \A w \in Places \ places : work'[w] = work[w]
  /\ \A n \in Names : registry'[n] \in {registry[n], None} \cup places

\* A command that is not part of a step notices nothing.
Stays(k) ==
  /\ mv'[k] = mv[k]
  /\ \A n \in HoldsN(k) : registry'[n] = registry[n] /\ home'[n] = home[n]
  /\ \A w \in HoldsP(k) : work'[w] = work[w]
  /\ \A n \in Names : registry'[n] \in HoldsP(k) => registry'[n] = registry[n]

LEMMA Holdings ==
  ASSUME TypeOK, NEW m \in Movers, Shape(m)
  PROVE  /\ HoldsN(m) \subseteq Names /\ HoldsP(m) \subseteq Places /\ None \notin HoldsP(m)
         /\ HoldsN(m) \subseteq NamesOf(mv[m]) /\ HoldsP(m) \subseteq PlacesOf(mv[m])
         /\ mv[m].pc \in Working => mv[m].name \in HoldsN(m) /\ mv[m].from \in HoldsP(m)
                                    /\ Files(m) \in HoldsP(m)
         /\ New(m) => /\ HoldsN(m) = {mv[m].name, mv[m].to}
                      /\ HoldsP(m) = {mv[m].from, mv[m].dest}
         /\ mv[m].pc \in Working \ {"arm", "undo"} => New(m)
         /\ \A u : Armed(m, u) => New(m)
  <1>1. mv[m].pc \in Working => /\ mv[m].name \in Names /\ mv[m].to \in Names
                                /\ mv[m].from \in Places /\ mv[m].dest \in Places
    BY DEF Shape, WhoShape
  <1>2. HoldsN(m) \subseteq Names /\ HoldsP(m) \subseteq Places
    BY <1>1 DEF HoldsN, HoldsP
  <1>3. None \notin HoldsP(m)
    BY <1>2, NoneAssumption
  <1>4. HoldsN(m) \subseteq NamesOf(mv[m]) /\ HoldsP(m) \subseteq PlacesOf(mv[m])
    BY DEF HoldsN, HoldsP, NamesOf, PlacesOf, New, Remaps
  <1>5. mv[m].pc \in Working => mv[m].name \in HoldsN(m) /\ mv[m].from \in HoldsP(m)
                                /\ Files(m) \in HoldsP(m)
    BY DEF HoldsN, HoldsP, Files
  <1>6. New(m) => /\ HoldsN(m) = {mv[m].name, mv[m].to}
                  /\ HoldsP(m) = {mv[m].from, mv[m].dest}
    BY DEF New, HoldsN, HoldsP
  <1>7. mv[m].pc \in Working \ {"arm", "undo"} => New(m)
    BY DEF New
  <1>8. ASSUME NEW u, Armed(m, u) PROVE New(m)
    <2>1. mv[m].stack # <<>>
      BY <1>8, EmptyStack DEF Armed
    <2>2. mv[m].pc \notin {"arm"} \cup Sealed \cup Ended
      BY <2>1 DEF Shape, StackShape
    <2>3. mv[m].pc \in Working \cup Ended
      BY DEF TypeOK, Command
    <2>4. QED
      BY <2>1, <2>2, <2>3 DEF New
  <1>9. QED
    BY <1>2, <1>3, <1>4, <1>5, <1>6, <1>7, <1>8

LEMMA StaysIf ==
  ASSUME TypeOK, NEW k \in Movers, Shape(k), mv'[k] = mv[k], NEW names, NEW places,
         Within(names, places), names \cap HoldsN(k) = {}, places \cap HoldsP(k) = {}
  PROVE  Stays(k)
  <1>1. HoldsN(k) \subseteq Names /\ HoldsP(k) \subseteq Places /\ None \notin HoldsP(k)
    BY Holdings
  <1>2. QED
    BY <1>1 DEF Within, Stays

LEMMA MineStays ==
  ASSUME TypeOK, NEW k \in Movers, Shape(k), Stays(k), Mine(k)
  PROVE  Mine(k)'
  <1>1. /\ mv[k].pc \in Working => mv[k].name \in HoldsN(k) /\ mv[k].from \in HoldsP(k)
                                   /\ Files(k) \in HoldsP(k)
        /\ New(k) => /\ HoldsN(k) = {mv[k].name, mv[k].to}
                     /\ HoldsP(k) = {mv[k].from, mv[k].dest}
        /\ mv[k].pc \in Working \ {"arm", "undo"} => New(k)
        /\ \A u : Armed(k, u) => New(k)
    BY Holdings
  <1>2. mv'[k] = mv[k]
    BY DEF Stays
  <1>3. /\ \A u : Armed(k, u)' <=> Armed(k, u)
        /\ (Renames(k)' <=> Renames(k)) /\ (Remaps(k)' <=> Remaps(k))
        /\ (Frees(k)' <=> Frees(k)) /\ (New(k)' <=> New(k)) /\ Files(k)' = Files(k)
    BY <1>2 DEF Armed, Renames, Remaps, Frees, New, Files
  <1>4. mv[k].pc \in Working =>
          /\ registry'[mv[k].name] = registry[mv[k].name]
          /\ home'[mv[k].name] = home[mv[k].name]
          /\ work'[mv[k].from] = work[mv[k].from] /\ work'[Files(k)] = work[Files(k)]
          /\ \A n \in Names : registry'[n] = mv[k].from => registry[n] = mv[k].from
    BY <1>1 DEF Stays
  <1>5. New(k) => /\ registry'[mv[k].to] = registry[mv[k].to]
                  /\ home'[mv[k].to] = home[mv[k].to]
                  /\ work'[mv[k].from] = work[mv[k].from]
                  /\ work'[mv[k].dest] = work[mv[k].dest]
    BY <1>1 DEF Stays
  <1>6. /\ mv[k].pc \in {"copy", "copying", "rows", "free", "claim", "home", "homecopy",
                         "homecopying", "drop", "seal", "tail", "retire"} =>
             New(k) /\ mv[k].pc \in Working
        /\ mv[k].pc \in {"arm", "undo"} => mv[k].pc \in Working
    BY <1>1 DEF Working, Trying, Sealed
  <1>7. CopyInv(k)'
    BY <1>1, <1>2, <1>3, <1>5, <1>6 DEF Mine, CopyInv, WithRows, Homes, Sealed
  <1>8. HomeInv(k)'
    <2>1. mv[k].pc \in {"drop", "seal", "tail"} \/ Armed(k, "home") =>
            home'[mv[k].name] = home[mv[k].name]
      BY <1>4, <1>6, <1>1 DEF New
    <2>2. QED
      BY <1>1, <1>2, <1>3, <1>5, <1>6, <2>1, <1>4 DEF Mine, HomeInv
  <1>9. RowInv(k)'
    BY <1>2, <1>3, <1>4, <1>5, <1>6 DEF Mine, RowInv, Homes, Sealed
  <1>10. UndoInv(k)'
    BY <1>1, <1>2, <1>3, <1>5, <1>6 DEF Mine, UndoInv, Homes
  <1>11. FromInv(k)'
    BY <1>2, <1>3, <1>4 DEF Mine, FromInv
  <1>12. SoundInv(k)'
    BY <1>2, <1>3, <1>4, <1>5, <1>6 DEF Mine, SoundInv
  <1>13. QED
    BY <1>7, <1>8, <1>9, <1>10, <1>11, <1>12 DEF Mine

\* The command goes on with the names and places it had.
Goes(m) == Same(m) /\ mv[m].pc \in Working /\ mv'[m].pc \in Working /\ (New(m)' => New(m))

LEMMA StepGoes ==
  ASSUME TypeOK, NEW m \in Movers, Shape(m), Step(m)
  PROVE  /\ mv[m].pc \in Working
         /\ mv'[m].pc \in Ended \/ Goes(m) \/ (Yes(m) /\ Same(m) /\ UNCHANGED store)
  <1> USE DEF At
  <1>1. mv[m].pc \in Working \ {"arm", "undo"} => New(m)
    BY Holdings
  <1>2. ASSUME NEW q, Goto(m, q), mv[m].pc \in Working \ {"arm", "undo"}, q \in Working
        PROVE  mv[m].pc \in Working /\ Goes(m)
    <2>1. Same(m) /\ mv'[m].pc = q
      BY <1>2, GotoIs
    <2>2. QED
      BY <1>1, <1>2, <2>1 DEF Goes
  <1>3. ASSUME NEW u \in Undos, NEW f \in BOOLEAN, Undoes(m, u), Popped(m, f)
        PROVE  mv[m].pc \in Working /\ Goes(m)
    <2>1. Same(m) /\ mv[m].pc = "undo" /\ mv'[m].pc = "undo" /\ Armed(m, u)
      BY <1>3, PoppedIs DEF Shape, StackShape
    <2>2. New(m)
      BY <2>1, Holdings
    <2>3. QED
      BY <2>1, <2>2, PCs DEF Goes
  <1>4. ASSUME NEW q \in {"done", "undone", "killed"}, Ends(m, q)
        PROVE  mv'[m].pc \in Ended
    BY <1>4, EndsIs DEF Ended
  <1>5. CASE Arm(m)
    <2>1. Yes(m) /\ UNCHANGED store /\ mv[m].pc = "arm" /\ mv[m].pc \in Working
      BY <1>5 DEF Arm, Yes, Working, Trying
    <2>2. CASE mv[m].copies = TRUE /\ Push(m, "dest", "copy")
      <3>1. "dest" \in Undos /\ "copy" \in Working
        BY DEF Undos, Working, Trying
      <3>2. Same(m)
        BY <2>1, <2>2, <3>1, PushShape
      <3>3. QED
        BY <2>1, <3>2
    <2>3. CASE Goto(m, "copy") \/ Goto(m, "rows")
      <3>1. "copy" \in Working /\ "rows" \in Working
        BY DEF Working, Trying
      <3>2. Same(m)
        BY <2>3, <3>1, GotoIs
      <3>3. QED
        BY <2>1, <3>2
    <2>4. mv[m].copies \in BOOLEAN
      BY DEF TypeOK, Command
    <2>5. QED
      BY <1>5, <2>2, <2>3, <2>4 DEF Arm
  <1>6. CASE ArmHome(m)
    <2>1. mv[m].pc = "home" /\ New(m) /\ mv[m].pc \in Working /\ "homecopy" \in Working
      BY <1>1, <1>6 DEF ArmHome, Working, Trying
    <2>2. CASE Push(m, "home", "homecopy")
      <3>1. "home" \in Undos
        BY DEF Undos
      <3>2. Same(m) /\ Shape(m)'
        BY <2>1, <2>2, <3>1, PushShape
      <3>3. mv'[m].pc = "homecopy"
        <4>1. mv \in [Movers -> Command]
          BY DEF TypeOK
        <4>2. QED
          BY <2>2, <4>1 DEF Push, Command
      <3>4. QED
        BY <2>1, <3>2, <3>3 DEF Goes
    <2>3. CASE Goto(m, "homecopy")
      BY <1>2, <2>1, <2>3
    <2>4. QED
      BY <1>6, <2>2, <2>3 DEF ArmHome
  <1>7. CASE ArmRows(m)
    <2>1. Same(m) /\ mv[m].pc = "rows" /\ mv'[m].pc = "free"
      BY <1>7, ArmRowsIs
    <2>2. mv[m].pc \in Working \ {"arm", "undo"} /\ mv'[m].pc \in Working
      BY <2>1 DEF Working, Trying
    <2>3. QED
      BY <1>1, <2>1, <2>2 DEF Goes
  <1>8. CASE Drop(m)
    <2>1. Same(m) /\ mv[m].pc = "drop" /\ mv'[m].pc = "seal"
      BY <1>8, DropIs
    <2>2. mv[m].pc \in Working \ {"arm", "undo"} /\ mv'[m].pc \in Working
      BY <2>1 DEF Working, Trying
    <2>3. QED
      BY <1>1, <2>1, <2>2 DEF Goes
  <1>9. CASE Seal(m)
    <2>1. Same(m) /\ mv[m].pc = "seal" /\ mv'[m].pc = "tail"
      BY <1>9, SealIs
    <2>2. mv[m].pc \in Working \ {"arm", "undo"} /\ mv'[m].pc \in Working
      BY <2>1 DEF Working, Trying, Sealed
    <2>3. QED
      BY <1>1, <2>1, <2>2 DEF Goes
  <1>10. CASE Fail(m)
    <2>1. mv[m].pc \in Trying /\ mv[m].pc \in Working /\ "undo" \in Working /\ Goto(m, "undo")
      BY <1>10, PCs DEF Fail
    <2>2. /\ Same(m) /\ mv'[m].pc = "undo" /\ mv'[m].stack = mv[m].stack
          /\ mv'[m].amiss = mv[m].amiss
      BY <2>1, GotoIs
    <2>3. CASE mv[m].pc = "arm"
      <3>1. mv[m].stack = <<>> /\ mv[m].amiss # TRUE /\ mv[m].amiss \in BOOLEAN
        BY <2>3 DEF Shape, StackShape, WhoShape, Sealed, Ended, TypeOK, Command
      <3>2. ~New(m)'
        BY <2>2, <3>1 DEF New
      <3>3. QED
        BY <2>1, <2>2, <3>2 DEF Goes
    <2>4. CASE mv[m].pc # "arm"
      <3>1. New(m)
        BY <1>1, <2>1, <2>4 DEF Trying
      <3>2. QED
        BY <2>1, <2>2, <3>1 DEF Goes
    <2>5. QED
      BY <2>3, <2>4
  <1>11. CASE \/ Copy(m) \/ Copied(m) \/ Free(m) \/ Claim(m) \/ CopyHome(m)
              \/ HomeCopied(m) \/ DropHome(m)
    <2>1. /\ mv[m].pc \in {"copy", "copying", "free", "claim", "homecopy", "homecopying", "tail"}
          /\ \E q \in {"copying", "rows", "claim", "home", "drop", "homecopying", "retire"} :
               Goto(m, q)
      BY <1>11 DEF Copy, Copied, Free, Claim, CopyHome, HomeCopied, DropHome
    <2>2. /\ mv[m].pc \in Working \ {"arm", "undo"}
          /\ \A q \in {"copying", "rows", "claim", "home", "drop", "homecopying", "retire"} :
               q \in Working
      BY <2>1 DEF Working, Trying, Sealed
    <2>3. QED
      BY <1>2, <2>1, <2>2
  <1>12. CASE Retire(m) \/ Stop(m) \/ Undone(m) \/ Kill(m)
    <2>1. mv[m].pc \in Working
      BY <1>12, PCs DEF Retire, Stop, Undone, Kill, Sealed
    <2>2. \E q \in {"done", "undone", "killed"} : Ends(m, q)
      BY <1>12 DEF Retire, Stop, Undone, Kill
    <2>3. QED
      BY <1>4, <2>1, <2>2
  <1>13. CASE UndoCopy(m) \/ UndoRows(m) \/ UndoHome(m) \/ UndoDrop(m)
    <2>1. \E u \in Undos, f \in BOOLEAN : Undoes(m, u) /\ Popped(m, f)
      <3>1. CASE UndoRows(m)
        BY <3>1 DEF UndoRows, Undos
      <3>2. CASE UndoDrop(m)
        BY <3>2 DEF UndoDrop, Undos
      <3>3. CASE UndoCopy(m)
        BY <3>3 DEF UndoCopy, Undos
      <3>4. CASE UndoHome(m)
        BY <3>4 DEF UndoHome, Undos
      <3>5. QED
        BY <1>13, <3>1, <3>2, <3>3, <3>4
    <2>2. QED
      BY <1>3, <2>1
  <1>14. QED
    BY <1>5, <1>6, <1>7, <1>8, <1>9, <1>10, <1>11, <1>12, <1>13 DEF Step

\* Only the yes gives a command more names and places to work on.
LEMMA StepHolds ==
  ASSUME TypeOK, NEW m \in Movers, Shape(m), Step(m)
  PROVE  \/ HoldsN(m)' \subseteq HoldsN(m) /\ HoldsP(m)' \subseteq HoldsP(m)
         \/ /\ Yes(m) /\ UNCHANGED store
            /\ HoldsN(m)' \subseteq {mv[m].name, mv[m].to}
            /\ HoldsP(m)' \subseteq {mv[m].from, mv[m].dest}
  <1>1. CASE mv'[m].pc \in Ended
    BY <1>1, PCs DEF HoldsN, HoldsP
  <1>2. CASE Goes(m)
    <2>1. Remaps(m)' <=> Remaps(m)
      BY <1>2 DEF Goes, Same, Remaps
    <2>2. QED
      BY <1>2, <2>1 DEF Goes, Same, HoldsN, HoldsP
  <1>3. CASE Yes(m) /\ Same(m) /\ UNCHANGED store
    BY <1>3 DEF HoldsN, HoldsP, Same
  <1>4. QED
    BY <1>1, <1>2, <1>3, StepGoes

\* Where another command does not get in between, the restore of the membership
\* writes the two rows of the command only, back to what they were.
LEMMA RestoresOwn ==
  ASSUME TypeOK, OneRowPerPlace, Calm, NEW m \in Movers, Shape(m), UndoInv(m), UndoRows(m)
  PROVE  /\ \A n \in Names \ {mv[m].name, mv[m].to} :
              registry'[n] = registry[n] /\ mv[m].rows[n] = registry[n]
         /\ registry'[mv[m].name] \in {registry[mv[m].name], mv[m].from}
         /\ registry'[mv[m].to] \in {registry[mv[m].to], None, mv[m].from}
         /\ mv[m].pc = "undo" /\ Armed(m, "rows") /\ UNCHANGED <<home, work>>
  <1>1. Undoes(m, "rows") /\ "rows" \in Undos /\ \E f \in BOOLEAN : Popped(m, f)
    BY RowsPutBack DEF UndoRows, Undos
  <1>2. mv[m].pc = "undo" /\ Armed(m, "rows")
    BY <1>1, PoppedIs DEF Shape, StackShape
  <1>3. \A n \in Names \ {mv[m].name, mv[m].to} : registry[n] = mv[m].rows[n]
    BY <1>2 DEF Calm, At, Armed, Has
  <1>4. mv[m].name \in Names /\ mv[m].to \in Names
    BY <1>2, PCs DEF Shape, WhoShape
  <1>5. \A n \in Names : registry'[n] \in {registry[n], mv[m].rows[n]}
    BY RowsPutBack
  <1>6. registry'[mv[m].name] \in {registry[mv[m].name], mv[m].from}
    BY <1>2, <1>4, <1>5 DEF UndoInv
  <1>7. registry'[mv[m].to] \in {registry[mv[m].to], None, mv[m].from}
    <2>1. CASE Renames(m)
      BY <1>2, <1>4, <1>5, <2>1 DEF UndoInv
    <2>2. CASE ~Renames(m)
      BY <1>6, <2>2 DEF Renames
    <2>3. QED
      BY <2>1, <2>2
  <1>8. QED
    BY <1>2, <1>3, <1>5, <1>6, <1>7, RowsPutBack

\* Every step stays within the names and places its command has.
LEMMA StepWithin ==
  ASSUME TypeOK, OneRowPerPlace, Calm, NEW m \in Movers, Shape(m), UndoInv(m), Step(m)
  PROVE  Within(HoldsN(m), HoldsP(m))
  <1> USE DEF At
  <1>1. ASSUME UNCHANGED store PROVE Within(HoldsN(m), HoldsP(m))
    BY <1>1 DEF store, Within
  <1>2. /\ registry \in [Names -> Places \cup {None}] /\ home \in [Names -> Tree]
        /\ work \in [Places -> Tree]
    BY DEF TypeOK
  <1>3. New(m) => /\ HoldsN(m) = {mv[m].name, mv[m].to}
                  /\ HoldsP(m) = {mv[m].from, mv[m].dest}
                  /\ mv[m].name \in Names /\ mv[m].to \in Names
                  /\ mv[m].from \in Places /\ mv[m].dest \in Places
    BY Holdings DEF Shape, WhoShape, New
  <1>4. mv[m].pc \in Working \ {"arm", "undo"} => New(m)
    BY Holdings
  <1>5. ASSUME NEW n \in {mv[m].name, mv[m].to}, NEW w \in {None, mv[m].from, mv[m].dest}, New(m),
               registry' = [registry EXCEPT ![n] = w], UNCHANGED <<home, work>>
        PROVE  Within(HoldsN(m), HoldsP(m))
    <2>1. \A k \in Names : registry'[k] = IF k = n THEN w ELSE registry[k]
      BY <1>2, <1>5
    <2>2. QED
      BY <1>3, <1>5, <2>1 DEF Within
  <1>6. ASSUME NEW n \in {mv[m].name, mv[m].to}, NEW t, New(m),
               home' = [home EXCEPT ![n] = t], UNCHANGED <<registry, work>>
        PROVE  Within(HoldsN(m), HoldsP(m))
    BY <1>2, <1>3, <1>6 DEF Within
  <1>7. ASSUME NEW w \in {mv[m].from, mv[m].dest}, NEW t, New(m),
               work' = [work EXCEPT ![w] = t], UNCHANGED <<registry, home>>
        PROVE  Within(HoldsN(m), HoldsP(m))
    BY <1>2, <1>3, <1>7 DEF Within
  <1>8. CASE \/ Arm(m) \/ ArmRows(m) \/ ArmHome(m) \/ Seal(m) \/ Stop(m) \/ Fail(m)
             \/ Undone(m) \/ Kill(m)
    BY <1>1, <1>8 DEF Arm, ArmRows, ArmHome, Seal, Stop, Fail, Undone, Kill
  <1>9. CASE Copy(m)
    <2>1. New(m)
      BY <1>4, <1>9 DEF Copy, Working, Trying
    <2>2. QED
      BY <1>7, <1>9, <2>1 DEF Copy
  <1>10. CASE Copied(m)
    <2>1. New(m)
      BY <1>4, <1>10 DEF Copied, Working, Trying
    <2>2. QED
      BY <1>7, <1>10, <2>1 DEF Copied
  <1>11. CASE Free(m)
    <2>1. New(m)
      BY <1>4, <1>11 DEF Free, Working, Trying
    <2>2. CASE UNCHANGED registry
      BY <1>1, <1>11, <2>2 DEF Free, store
    <2>3. QED
      BY <1>5, <1>11, <2>1, <2>2 DEF Free
  <1>12. CASE Claim(m)
    <2>1. New(m)
      BY <1>4, <1>12 DEF Claim, Working, Trying
    <2>2. QED
      BY <1>5, <1>12, <2>1 DEF Claim
  <1>13. CASE CopyHome(m)
    <2>1. New(m)
      BY <1>4, <1>13 DEF CopyHome, Working, Trying
    <2>2. QED
      BY <1>6, <1>13, <2>1 DEF CopyHome
  <1>14. CASE HomeCopied(m)
    <2>1. New(m)
      BY <1>4, <1>14 DEF HomeCopied, Working, Trying
    <2>2. QED
      BY <1>6, <1>14, <2>1 DEF HomeCopied
  <1>15. CASE Drop(m)
    <2>1. New(m)
      BY <1>4, <1>15 DEF Drop, Working, Trying
    <2>2. UNCHANGED <<home, work>>
      BY <1>15 DEF Drop
    <2>3. CASE UNCHANGED registry
      BY <1>1, <2>2, <2>3 DEF store
    <2>4. CASE registry' = [registry EXCEPT ![mv[m].name] = None]
      BY <1>5, <2>1, <2>2, <2>4
    <2>5. QED
      BY <1>15, <2>3, <2>4, DropIs
  <1>16. CASE DropHome(m)
    <2>1. New(m)
      BY <1>4, <1>16 DEF DropHome, Working, Sealed
    <2>2. QED
      BY <1>6, <1>16, <2>1 DEF DropHome
  <1>17. CASE Retire(m)
    <2>1. New(m)
      BY <1>4, <1>17 DEF Retire, Working, Sealed
    <2>2. QED
      BY <1>7, <1>17, <2>1 DEF Retire
  <1>18. ASSUME NEW u \in Undos, NEW f \in BOOLEAN, Undoes(m, u), Popped(m, f)
         PROVE  New(m)
    <2>1. Armed(m, u)
      BY <1>18, PoppedIs DEF Shape, StackShape
    <2>2. QED
      BY <2>1, Holdings
  <1>19. CASE UndoCopy(m)
    <2>1. PICK left : work' = [work EXCEPT ![mv[m].dest] = left] /\ Popped(m, left # Absent)
      BY <1>19 DEF UndoCopy
    <2>2. New(m)
      BY <1>18, <1>19, <2>1 DEF UndoCopy, Undos
    <2>3. QED
      BY <1>7, <1>19, <2>1, <2>2 DEF UndoCopy
  <1>20. CASE UndoRows(m)
    <2>1. New(m)
      BY <1>20, RestoresOwn, Holdings
    <2>2. QED
      BY <1>3, <1>20, <2>1, RestoresOwn DEF Within
  <1>21. CASE UndoHome(m)
    <2>1. PICK left : home' = [home EXCEPT ![mv[m].to] = left] /\ Popped(m, left # Absent)
      BY <1>21 DEF UndoHome
    <2>2. New(m)
      BY <1>18, <1>21, <2>1 DEF UndoHome, Undos
    <2>3. QED
      BY <1>6, <1>21, <2>1, <2>2 DEF UndoHome
  <1>22. CASE UndoDrop(m)
    <2>1. New(m)
      BY <1>18, <1>22 DEF UndoDrop, Undos
    <2>2. CASE UNCHANGED registry
      BY <1>1, <1>22, <2>2 DEF UndoDrop, store
    <2>3. QED
      BY <1>5, <1>22, <2>1, <2>2 DEF UndoDrop
  <1>23. QED
    BY <1>8, <1>9, <1>10, <1>11, <1>12, <1>13, <1>14, <1>15, <1>16, <1>17, <1>19, <1>20,
       <1>21, <1>22 DEF Step

\* What the others hold and what a step works on are apart: they notice nothing.
LEMMA Apart ==
  ASSUME TypeInv, Exclusive, Overlap = FALSE, NEW names, NEW places, NEW movers \in SUBSET Movers,
         Unbusy(names, places, movers), NEW k \in movers
  PROVE  names \cap HoldsN(k) = {} /\ places \cap HoldsP(k) = {}
  <1>1. HoldsN(k) \subseteq NamesOf(mv[k]) /\ HoldsP(k) \subseteq PlacesOf(mv[k])
    BY Holdings DEF TypeInv, ShapeInv
  <1>2. names \cap NamesOf(mv[k]) = {} /\ places \cap PlacesOf(mv[k]) = {}
    BY DEF Unbusy
  <1>3. QED
    BY <1>1, <1>2

LEMMA StillHolds ==
  ASSUME NEW k, mv'[k] = mv[k]
  PROVE  HoldsN(k)' = HoldsN(k) /\ HoldsP(k)' = HoldsP(k)
  <1>1. (New(k)' <=> New(k)) /\ (Remaps(k)' <=> Remaps(k))
    BY DEF New, Remaps
  <1>2. QED
    BY <1>1 DEF HoldsN, HoldsP

\* Only what the command holds then has to be apart from what others hold.
LEMMA ExclusiveIf ==
  ASSUME Exclusive, NEW m \in Movers, Others(m),
         \A k \in Movers \ {m} :
           HoldsN(m)' \cap HoldsN(k) = {} /\ HoldsP(m)' \cap HoldsP(k) = {}
  PROVE  Exclusive'
  <1>1. \A k \in Movers \ {m} : HoldsN(k)' = HoldsN(k) /\ HoldsP(k)' = HoldsP(k)
    BY StillHolds DEF Others
  <1> DEFINE A(k) == HoldsN(k)
             B(k) == HoldsP(k)
  <1>2. ASSUME NEW j \in Movers, NEW k \in Movers, j # k
        PROVE  HoldsN(j)' \cap HoldsN(k)' = {} /\ HoldsP(j)' \cap HoldsP(k)' = {}
    <2>1. CASE j # m /\ k # m
      BY <1>1, <1>2, <2>1 DEF Exclusive
    <2>2. CASE j = m
      BY <1>1, <1>2, <2>2
    <2>3. CASE k = m
      BY <1>1, <1>2, <2>3
    <2>4. QED
      BY <2>1, <2>2, <2>3
  <1>3. QED
    BY <1>2 DEF Exclusive

LEMMA StepLeaves ==
  ASSUME TypeInv, Exclusive, Calm, Overlap = FALSE, NEW m \in Movers, UndoInv(m), Step(m)
  PROVE  Exclusive' /\ \A k \in Movers \ {m} : Stays(k)
  <1>1. TypeOK /\ OneRowPerPlace /\ Shape(m)
    BY DEF TypeInv, ShapeInv
  <1>2. Others(m)
    BY <1>1, StepTyped DEF Typed
  <1>3. ASSUME NEW k \in Movers \ {m}
        PROVE  HoldsN(m)' \cap HoldsN(k) = {} /\ HoldsP(m)' \cap HoldsP(k) = {} /\ Stays(k)
    <2>1. HoldsN(m) \cap HoldsN(k) = {} /\ HoldsP(m) \cap HoldsP(k) = {}
      BY DEF Exclusive
    <2>2. Within(HoldsN(m), HoldsP(m))
      BY <1>1, StepWithin
    <2>3. Stays(k)
      BY <1>1, <1>2, <2>1, <2>2, StaysIf DEF Others, TypeInv, ShapeInv
    <2>4. CASE HoldsN(m)' \subseteq HoldsN(m) /\ HoldsP(m)' \subseteq HoldsP(m)
      BY <2>1, <2>3, <2>4
    <2>5. CASE /\ Yes(m)
               /\ HoldsN(m)' \subseteq {mv[m].name, mv[m].to}
               /\ HoldsP(m)' \subseteq {mv[m].from, mv[m].dest}
      <3>1. Unbusy({mv[m].name, mv[m].to}, {mv[m].from, mv[m].dest}, Movers \ {m})
        BY <2>5 DEF Yes
      <3>2. /\ {mv[m].name, mv[m].to} \cap HoldsN(k) = {}
            /\ {mv[m].from, mv[m].dest} \cap HoldsP(k) = {}
        BY <3>1, Apart
      <3>3. QED
        BY <2>3, <2>5, <3>2
    <2>6. QED
      BY <1>1, <2>4, <2>5, StepHolds
  <1>4. QED
    BY <1>2, <1>3, ExclusiveIf

LEMMA BeginLeaves ==
  ASSUME TypeInv, Exclusive, Overlap = FALSE, NEW m \in Movers, Begin(m)
  PROVE  Exclusive' /\ \A k \in Movers \ {m} : Stays(k)
  <1>0. PICK n \in Names : \E to, dest :
          \/ to \in Names /\ dest \in Places /\ Move(m, n, to, dest)
          \/ to \in Names /\ dest = registry[n] /\ Rename(m, n, to)
          \/ to = n /\ dest \in Places /\ Remap(m, n, dest)
    BY DEF Begin
  <1>1. PICK to, dest :
          \/ to \in Names /\ dest \in Places /\ Move(m, n, to, dest)
          \/ to \in Names /\ dest = registry[n] /\ Rename(m, n, to)
          \/ to = n /\ dest \in Places /\ Remap(m, n, dest)
    BY <1>0
  <1>2. /\ Typed(m) /\ UNCHANGED registry
        /\ \E files \in Places, copies \in BOOLEAN : Begun(m, n, to, files, dest, copies)
    BY <1>1, BeginTyped DEF TypeInv
  <1>3. /\ Others(m) /\ mv'[m].pc = "arm" /\ mv'[m].name = n /\ mv'[m].to = to
        /\ mv'[m].from = registry[n] /\ mv'[m].dest = dest
    BY <1>2 DEF Begun
  <1>4. TypeOK /\ \A k \in Movers : Shape(k)
    BY DEF TypeInv, ShapeInv
  <1>5. HoldsN(m)' = {n} /\ HoldsP(m)' = IF Remaps(m)' THEN {registry[n], dest} ELSE {registry[n]}
    <2>1. ~New(m)' /\ "arm" \in Working
      BY <1>3 DEF New, Working, Trying
    <2>2. QED
      BY <1>3, <2>1 DEF HoldsN, HoldsP
  <1>6. CASE Remap(m, n, dest)
    <2>1. Unbusy({n}, {registry[n], dest}, Movers) /\ UNCHANGED <<registry, home>>
      BY <1>6 DEF Remap
    <2>2. Within({n}, {registry[n], dest})
      <3>1. \A w \in Places \ {registry[n], dest} : work'[w] = work[w]
        <4>1. UNCHANGED work \/ work' = [work EXCEPT ![dest] = work[registry[n]], ![registry[n]] = Absent]
          BY <1>6 DEF Remap
        <4>2. work \in [Places -> Tree]
          BY <1>4 DEF TypeOK
        <4>3. QED
          BY <4>1, <4>2
      <3>2. QED
        BY <2>1, <3>1 DEF Within
    <2>3. ASSUME NEW k \in Movers \ {m}
          PROVE  HoldsN(m)' \cap HoldsN(k) = {} /\ HoldsP(m)' \cap HoldsP(k) = {} /\ Stays(k)
      <3>1. {n} \cap HoldsN(k) = {} /\ {registry[n], dest} \cap HoldsP(k) = {}
        BY <2>1, Apart
      <3>2. Stays(k)
        BY <1>3, <1>4, <2>2, <3>1, StaysIf DEF Others
      <3>3. QED
        BY <1>5, <3>1, <3>2
    <2>4. QED
      BY <1>3, <2>3, ExclusiveIf
  <1>7. CASE Move(m, n, to, dest) \/ (dest = registry[n] /\ Rename(m, n, to))
    <2>1. Unbusy({n}, {registry[n]}, Movers) /\ UNCHANGED store
      BY <1>7 DEF Move, Rename
    <2>2. Within({n}, {registry[n]})
      BY <2>1 DEF Within, store
    <2>3. ~Remaps(m)'
      <3>1. CASE Move(m, n, to, dest)
        <4>1. Begins(m, n, to, registry[n], dest, TRUE) /\ mv \in [Movers -> Command]
          BY <1>4, <3>1 DEF Move, TypeOK
        <4>2. mv'[m].copies = TRUE
          BY <4>1 DEF Begins, Idle
        <4>3. QED
          BY <4>2 DEF Remaps
      <3>2. CASE dest = registry[n]
        BY <1>3, <3>2 DEF Remaps
      <3>3. QED
        BY <1>7, <3>1, <3>2
    <2>4. ASSUME NEW k \in Movers \ {m}
          PROVE  HoldsN(m)' \cap HoldsN(k) = {} /\ HoldsP(m)' \cap HoldsP(k) = {} /\ Stays(k)
      <3>1. {n} \cap HoldsN(k) = {} /\ {registry[n]} \cap HoldsP(k) = {}
        BY <2>1, Apart
      <3>2. Stays(k)
        BY <1>3, <1>4, <2>2, <3>1, StaysIf DEF Others
      <3>3. QED
        BY <1>5, <2>3, <3>1, <3>2
    <2>5. QED
      BY <1>3, <2>4, ExclusiveIf
  <1>8. QED
    BY <1>1, <1>6, <1>7

LEMMA OtherLeaves ==
  ASSUME TypeInv, Exclusive, Overlap = FALSE, NEW n \in Names, Other(n)
  PROVE  Exclusive' /\ \A k \in Movers : Stays(k)
  <1>1. UNCHANGED mv /\ TypeOK /\ \A k \in Movers : Shape(k)
    BY OtherTyped DEF Other, TypeInv, ShapeInv
  <1>2. /\ registry \in [Names -> Places \cup {None}] /\ home \in [Names -> Tree]
        /\ work \in [Places -> Tree]
    BY <1>1 DEF TypeOK
  <1>3. \E w \in Places : Unbusy({n}, {w}, Movers) /\ Within({n}, {w})
    <2>1. ASSUME NEW b \in Boxes, NEW w \in Places, Create(b, n, w)
          PROVE  Unbusy({n}, {w}, Movers) /\ Within({n}, {w})
      BY <1>2, <2>1 DEF Create, Within
    <2>2. CASE Rm(n)
      BY <1>2, <2>2 DEF Rm, Within
    <2>3. ASSUME NEW w \in Places, Register(n, w)
          PROVE  Unbusy({n}, {w}, Movers) /\ Within({n}, {w})
      BY <1>2, <2>3 DEF Register, Within
    <2>4. QED
      BY <1>2, <2>1, <2>2, <2>3 DEF Other, Rm
  <1>4. \A k \in Movers : Stays(k)
    BY <1>1, <1>3, Apart, StaysIf
  <1>5. \A k \in Movers : HoldsN(k)' = HoldsN(k) /\ HoldsP(k)' = HoldsP(k)
    BY <1>1, StillHolds
  <1>6. Exclusive'
    BY <1>5 DEF Exclusive
  <1>7. QED
    BY <1>4, <1>6

\* What a command is about does not change while it goes on.
Known(m) ==
  /\ Same(m) /\ Others(m) /\ mv'[m].rows = mv[m].rows
  /\ (Renames(m)' <=> Renames(m)) /\ (Remaps(m)' <=> Remaps(m)) /\ (Frees(m)' <=> Frees(m))
  /\ Files(m)' = Files(m)

LEMMA KnownIf ==
  ASSUME NEW m, Same(m), Others(m), mv'[m].rows = mv[m].rows
  PROVE  Known(m)
  BY DEF Known, Same, Renames, Remaps, Frees, Files

LEMMA KnownGoto ==
  ASSUME TypeOK, NEW m \in Movers, NEW q \in Working, Goto(m, q)
  PROVE  /\ Known(m) /\ mv'[m].pc = q /\ mv'[m].amiss = mv[m].amiss
         /\ \A u : Armed(m, u)' <=> Armed(m, u)
  <1>1. /\ Same(m) /\ Others(m) /\ mv'[m].pc = q /\ mv'[m].rows = mv[m].rows
        /\ mv'[m].stack = mv[m].stack /\ mv'[m].amiss = mv[m].amiss
    BY GotoIs
  <1>2. QED
    BY <1>1, KnownIf DEF Armed

\* A command at work has names and places, and a copy of its own.
AtWork(m) ==
  /\ mv[m].pc \in Working /\ mv[m].name \in Names /\ mv[m].to \in Names
  /\ mv[m].from \in Places /\ mv[m].dest \in Places
  /\ mv[m].copies \in BOOLEAN /\ mv[m].amiss \in BOOLEAN /\ mv[m].sound \in BOOLEAN
  /\ mv[m].copies = TRUE => mv[m].dest # mv[m].from /\ Files(m) = mv[m].from
  /\ mv[m].pc \in {"copy", "copying"} => mv[m].copies = TRUE
  /\ mv[m].copies = FALSE => (Renames(m) <=> mv[m].dest = mv[m].from)
  /\ mv[m].box \in Boxes
  /\ mv[m].pc \in Homes => Renames(m)
  /\ mv[m].amiss = TRUE => mv[m].pc \in {"seal", "undo"} \cup Sealed
  /\ \A u : Armed(m, u) => mv[m].pc \notin {"arm"} \cup Sealed
  /\ mv[m].pc \in {"copy", "copying", "rows", "free", "claim", "home"} => ~Armed(m, "home")

LEMMA IsAtWork ==
  ASSUME TypeOK, NEW m \in Movers, Shape(m), mv[m].pc \in Working
  PROVE  AtWork(m)
  <1>1. mv[m] \in Command /\ mv[m].pc \notin Ended
    BY PCs DEF TypeOK
  <1>2. mv[m].copies \in BOOLEAN /\ mv[m].amiss \in BOOLEAN /\ mv[m].sound \in BOOLEAN
    BY <1>1 DEF Command
  <1>3. \A u : Armed(m, u) => mv[m].pc \notin {"arm"} \cup Sealed
    BY EmptyStack DEF Shape, StackShape, Armed
  <1>4. mv[m].pc \in {"copy", "copying", "rows", "free", "claim", "home"} => ~Armed(m, "home")
    BY DEF Shape, StackShape, WithRows, Homes
  <1>5. QED
    BY <1>1, <1>2, <1>3, <1>4 DEF AtWork, Shape, WhoShape, Files, Remaps

LEMMA MineCopy ==
  ASSUME TypeOK, OneRowPerPlace, Merges = FALSE, NEW m \in Movers, Shape(m), Mine(m), Copy(m)
  PROVE  Mine(m)'
  <1>1. /\ AtWork(m) /\ mv[m].pc = "copy" /\ Known(m) /\ mv'[m].pc = "copying"
        /\ mv'[m].amiss = mv[m].amiss
        /\ \A u : Armed(m, u)' <=> Armed(m, u)
    <2>1. mv[m].pc = "copy" /\ Goto(m, "copying")
      BY DEF Copy, At
    <2>2. "copy" \in Working /\ "copying" \in Working
      BY DEF Working, Trying, Sealed
    <2>3. QED
      BY <2>1, <2>2, KnownGoto, IsAtWork
  <1>2. /\ UNCHANGED <<registry, home>>
        /\ \A w \in Places : work'[w] = IF w = mv[m].dest THEN Part(work[mv[m].from]) ELSE work[w]
        /\ Part(work[mv[m].from]).whole = FALSE
    BY <1>1, Trees DEF Copy, AtWork, TypeOK
  <1>0. ~Armed(m, "rows")
    BY <1>1 DEF Shape, StackShape, WithRows, Homes
  <1>3. CopyInv(m)'
    BY <1>0, <1>1, <1>2 DEF Mine, CopyInv, AtWork, Known, Same, Homes, WithRows, Sealed
  <1>4. HomeInv(m)'
    BY <1>1, <1>2 DEF Mine, HomeInv, AtWork, Known, Same, Renames
  <1>5. RowInv(m)'
    BY <1>1, <1>2 DEF Mine, RowInv, AtWork, Known, Same, Homes, Sealed, Renames, Frees
  <1>6. UndoInv(m)'
    BY <1>1, <1>2 DEF Mine, UndoInv, AtWork, Known, Same, Homes, WithRows, Renames
  <1>7. FromInv(m)'
    BY <1>1, <1>2 DEF Mine, FromInv, AtWork, Known, Same, Homes, Sealed
  <1>8. SoundInv(m)'
    BY <1>1, <1>2 DEF Mine, SoundInv, AtWork, Known, Same
  <1>9. QED
    BY <1>3, <1>4, <1>5, <1>6, <1>7, <1>8 DEF Mine

LEMMA MineCopied ==
  ASSUME TypeOK, OneRowPerPlace, Merges = FALSE, NEW m \in Movers, Shape(m), Mine(m), Copied(m)
  PROVE  Mine(m)'
  <1>1. /\ AtWork(m) /\ mv[m].pc = "copying" /\ Known(m) /\ mv'[m].pc = "rows"
        /\ mv'[m].amiss = mv[m].amiss
        /\ \A u : Armed(m, u)' <=> Armed(m, u)
    <2>1. mv[m].pc = "copying" /\ Goto(m, "rows")
      BY DEF Copied, At
    <2>2. "copying" \in Working /\ "rows" \in Working
      BY DEF Working, Trying, Sealed
    <2>3. QED
      BY <2>1, <2>2, KnownGoto, IsAtWork
  <1>2. /\ UNCHANGED <<registry, home>>
        /\ \A w \in Places : work'[w] = IF w = mv[m].dest THEN work[mv[m].from] ELSE work[w]
    BY <1>1 DEF Copied, AtWork, TypeOK
  <1>3. CopyInv(m)'
    BY <1>1, <1>2 DEF Mine, CopyInv, AtWork, Known, Same, Homes, WithRows, Sealed
  <1>4. HomeInv(m)'
    BY <1>1, <1>2 DEF Mine, HomeInv, AtWork, Known, Same, Renames
  <1>5. RowInv(m)'
    BY <1>1, <1>2 DEF Mine, RowInv, AtWork, Known, Same, Homes, Sealed, Renames, Frees
  <1>6. UndoInv(m)'
    BY <1>1, <1>2 DEF Mine, UndoInv, AtWork, Known, Same, Homes, WithRows, Renames
  <1>7. FromInv(m)'
    BY <1>1, <1>2 DEF Mine, FromInv, AtWork, Known, Same, Homes, Sealed
  <1>8. SoundInv(m)'
    BY <1>1, <1>2 DEF Mine, SoundInv, AtWork, Known, Same
  <1>9. QED
    BY <1>3, <1>4, <1>5, <1>6, <1>7, <1>8 DEF Mine

LEMMA MineFree ==
  ASSUME TypeOK, OneRowPerPlace, Merges = FALSE, NEW m \in Movers, Shape(m), Mine(m), Free(m)
  PROVE  Mine(m)'
  <1>1. /\ AtWork(m) /\ mv[m].pc = "free" /\ Known(m) /\ mv'[m].pc = "claim"
        /\ mv'[m].amiss = mv[m].amiss
        /\ \A u : Armed(m, u)' <=> Armed(m, u)
    <2>1. mv[m].pc = "free" /\ Goto(m, "claim")
      BY DEF Free, At
    <2>2. "free" \in Working /\ "claim" \in Working
      BY DEF Working, Trying, Sealed
    <2>3. QED
      BY <2>1, <2>2, KnownGoto, IsAtWork
  <1>2. /\ UNCHANGED <<home, work>>
        /\ \A n \in Names : registry'[n] =
             IF n = mv[m].name /\ Frees(m) THEN None ELSE registry[n]
    BY <1>1 DEF Free, AtWork, TypeOK
  <1>3. CopyInv(m)'
    BY <1>1, <1>2 DEF Mine, CopyInv, AtWork, Known, Same, Homes, WithRows, Sealed
  <1>4. HomeInv(m)'
    BY <1>1, <1>2 DEF Mine, HomeInv, AtWork, Known, Same, Renames
  <1>5. RowInv(m)'
    BY <1>1, <1>2 DEF Mine, RowInv, AtWork, Known, Same, Homes, Sealed, Renames, Frees
  <1>6. UndoInv(m)'
    BY <1>1, <1>2 DEF Mine, UndoInv, AtWork, Known, Same, Homes, WithRows, Renames
  <1>7. FromInv(m)'
    BY <1>1, <1>2 DEF Mine, FromInv, AtWork, Known, Same, Homes, Sealed
  <1>8. SoundInv(m)'
    BY <1>1, <1>2 DEF Mine, SoundInv, AtWork, Known, Same, Homes, Renames
  <1>9. QED
    BY <1>3, <1>4, <1>5, <1>6, <1>7, <1>8 DEF Mine

LEMMA MineCopyHome ==
  ASSUME TypeOK, OneRowPerPlace, Merges = FALSE, NEW m \in Movers, Shape(m), Mine(m), CopyHome(m)
  PROVE  Mine(m)'
  <1>1. /\ AtWork(m) /\ mv[m].pc = "homecopy" /\ Known(m) /\ mv'[m].pc = "homecopying"
        /\ mv'[m].amiss = mv[m].amiss
        /\ \A u : Armed(m, u)' <=> Armed(m, u)
    <2>1. mv[m].pc = "homecopy" /\ Goto(m, "homecopying")
      BY DEF CopyHome, At
    <2>2. "homecopy" \in Working /\ "homecopying" \in Working
      BY DEF Working, Trying, Sealed
    <2>3. QED
      BY <2>1, <2>2, KnownGoto, IsAtWork
  <1>2. /\ UNCHANGED <<registry, work>>
        /\ \A n \in Names : home'[n] = IF n = mv[m].to THEN Part(home[mv[m].name]) ELSE home[n]
        /\ Part(home[mv[m].name]).whole = FALSE
    BY <1>1, Trees DEF CopyHome, AtWork, TypeOK
  <1>3. CopyInv(m)'
    BY <1>1, <1>2 DEF Mine, CopyInv, AtWork, Known, Same, Homes, WithRows, Sealed
  <1>4. HomeInv(m)'
    BY <1>1, <1>2 DEF Mine, HomeInv, AtWork, Known, Same, Renames
  <1>5. RowInv(m)'
    BY <1>1, <1>2 DEF Mine, RowInv, AtWork, Known, Same, Homes, Sealed, Renames, Frees
  <1>6. UndoInv(m)'
    BY <1>1, <1>2 DEF Mine, UndoInv, AtWork, Known, Same, Homes, WithRows, Renames
  <1>7. FromInv(m)'
    BY <1>1, <1>2 DEF Mine, FromInv, AtWork, Known, Same, Homes, Sealed
  <1>8. SoundInv(m)'
    BY <1>1, <1>2 DEF Mine, SoundInv, AtWork, Known, Same, Homes, Renames
  <1>9. QED
    BY <1>3, <1>4, <1>5, <1>6, <1>7, <1>8 DEF Mine

LEMMA MineHomeCopied ==
  ASSUME TypeOK, OneRowPerPlace, Merges = FALSE, NEW m \in Movers, Shape(m), Mine(m), HomeCopied(m)
  PROVE  Mine(m)'
  <1>1. /\ AtWork(m) /\ mv[m].pc = "homecopying" /\ Known(m) /\ mv'[m].pc = "drop"
        /\ mv'[m].amiss = mv[m].amiss
        /\ \A u : Armed(m, u)' <=> Armed(m, u)
    <2>1. mv[m].pc = "homecopying" /\ Goto(m, "drop")
      BY DEF HomeCopied, At
    <2>2. "homecopying" \in Working /\ "drop" \in Working
      BY DEF Working, Trying, Sealed
    <2>3. QED
      BY <2>1, <2>2, KnownGoto, IsAtWork
  <1>2. /\ UNCHANGED <<registry, work>>
        /\ \A n \in Names : home'[n] = IF n = mv[m].to THEN home[mv[m].name] ELSE home[n]
    BY <1>1 DEF HomeCopied, AtWork, TypeOK
  <1>3. CopyInv(m)'
    BY <1>1, <1>2 DEF Mine, CopyInv, AtWork, Known, Same, Homes, WithRows, Sealed
  <1>4. HomeInv(m)'
    BY <1>1, <1>2 DEF Mine, HomeInv, AtWork, Known, Same, Renames
  <1>5. RowInv(m)'
    BY <1>1, <1>2 DEF Mine, RowInv, AtWork, Known, Same, Homes, Sealed, Renames, Frees
  <1>6. UndoInv(m)'
    BY <1>1, <1>2 DEF Mine, UndoInv, AtWork, Known, Same, Homes, WithRows, Renames
  <1>7. FromInv(m)'
    BY <1>1, <1>2 DEF Mine, FromInv, AtWork, Known, Same, Homes, Sealed
  <1>8. SoundInv(m)'
    BY <1>1, <1>2 DEF Mine, SoundInv, AtWork, Known, Same, Homes, Renames
  <1>9. QED
    BY <1>3, <1>4, <1>5, <1>6, <1>7, <1>8 DEF Mine

LEMMA MineDropHome ==
  ASSUME TypeOK, OneRowPerPlace, Merges = FALSE, NEW m \in Movers, Shape(m), Mine(m), DropHome(m)
  PROVE  Mine(m)'
  <1>1. /\ AtWork(m) /\ mv[m].pc = "tail" /\ Known(m) /\ mv'[m].pc = "retire"
        /\ mv'[m].amiss = mv[m].amiss
        /\ \A u : Armed(m, u)' <=> Armed(m, u)
    <2>1. mv[m].pc = "tail" /\ Goto(m, "retire")
      BY DEF DropHome, At
    <2>2. "tail" \in Working /\ "retire" \in Working
      BY DEF Working, Trying, Sealed
    <2>3. QED
      BY <2>1, <2>2, KnownGoto, IsAtWork
  <1>2. /\ UNCHANGED <<registry, work>>
        /\ \A n \in Names \ {mv[m].name} : home'[n] = home[n]
        /\ ~Renames(m) => home'[mv[m].name] = home[mv[m].name]
    BY <1>1 DEF DropHome, AtWork, TypeOK
  <1>3. CopyInv(m)'
    BY <1>1, <1>2 DEF Mine, CopyInv, AtWork, Known, Same, Homes, WithRows, Sealed
  <1>4. HomeInv(m)'
    BY <1>1, <1>2 DEF Mine, HomeInv, AtWork, Known, Same, Sealed, Renames
  <1>5. RowInv(m)'
    BY <1>1, <1>2 DEF Mine, RowInv, AtWork, Known, Same, Homes, Sealed, Renames, Frees
  <1>6. UndoInv(m)'
    BY <1>1, <1>2 DEF Mine, UndoInv, AtWork, Known, Same, Homes, WithRows, Renames
  <1>7. FromInv(m)'
    BY <1>1, <1>2 DEF Mine, FromInv, AtWork, Known, Same, Homes, Sealed
  <1>8. SoundInv(m)'
    BY <1>1, <1>2 DEF Mine, SoundInv, HomeInv, AtWork, Known, Same, Renames
  <1>9. QED
    BY <1>3, <1>4, <1>5, <1>6, <1>7, <1>8 DEF Mine


\* A command that has ended relies on nothing.
LEMMA MineEnds ==
  ASSUME NEW m, mv'[m].pc \in Ended, mv'[m].stack = <<>>
  PROVE  Mine(m)'
  <1>1. \A u : ~Armed(m, u)'
    BY EmptyStack DEF Armed
  <1>2. mv'[m].pc \notin Working \cup Homes \cup WithRows \cup Sealed
        /\ mv'[m].pc \notin {"arm", "copy", "copying", "rows", "tail", "undo"}
    BY DEF Ended, Working, Trying, Homes, WithRows, Sealed
  <1>3. CopyInv(m)' /\ HomeInv(m)' /\ RowInv(m)'
    BY <1>1, <1>2 DEF CopyInv, HomeInv, RowInv, Homes, WithRows, Sealed
  <1>4. UndoInv(m)' /\ FromInv(m)' /\ SoundInv(m)'
    BY <1>1, <1>2 DEF UndoInv, FromInv, SoundInv, WithRows, Homes
  <1>5. QED
    BY <1>3, <1>4 DEF Mine

LEMMA MineArm ==
  ASSUME TypeOK, OneRowPerPlace, Merges = FALSE, NEW m \in Movers, Shape(m), Mine(m), Arm(m)
  PROVE  Mine(m)'
  <1>1. /\ AtWork(m) /\ mv[m].pc = "arm" /\ Known(m) /\ mv'[m].amiss = mv[m].amiss
        /\ \/ mv[m].copies = TRUE /\ mv'[m].pc = "copy"
           \/ mv[m].copies = FALSE /\ mv'[m].pc = "rows"
        /\ \A u : Armed(m, u)' => u = "dest" /\ work[mv[m].dest] = Absent
    <2>1. mv[m].pc = "arm" /\ mv[m].pc \in Working
      BY DEF Arm, Yes, At, Working, Trying
    <2>2. AtWork(m) /\ \A u : ~Armed(m, u)
      BY <2>1, IsAtWork DEF AtWork
    <2>3. CASE /\ mv[m].copies = TRUE /\ work[mv[m].dest] = Absent
               /\ Push(m, "dest", "copy")
      <3>1. "dest" \in Undos /\ "copy" \in Working
        BY DEF Undos, Working, Trying
      <3>2. Ordered(mv[m].stack)
        BY DEF Shape, StackShape
      <3>3. /\ Same(m) /\ Others(m) /\ mv'[m].pc = "copy" /\ mv'[m].rows = mv[m].rows
            /\ mv'[m].amiss = mv[m].amiss
            /\ \A u : Armed(m, u)' <=> Armed(m, u) \/ u = "dest"
        BY <2>2, <2>3, <3>1, <3>2, PushIs
      <3>4. QED
        BY <2>1, <2>2, <2>3, <3>3, KnownIf
    <2>4. CASE \/ mv[m].copies = TRUE /\ Goto(m, "copy")
               \/ mv[m].copies = FALSE /\ Goto(m, "rows")
      <3>1. "copy" \in Working /\ "rows" \in Working
        BY DEF Working, Trying
      <3>2. QED
        BY <2>1, <2>2, <2>4, <3>1, KnownGoto
    <2>5. QED
      BY <2>2, <2>3, <2>4 DEF Arm, AtWork
  <1>2. UNCHANGED store /\ (Renames(m) => home[mv[m].to] = Absent \/ registry[mv[m].to] # None)
    BY DEF Arm, Yes, Fresh
  <1>3. CopyInv(m)'
    BY <1>1, <1>2, Trees DEF Mine, CopyInv, AtWork, Known, Same, Homes, WithRows, Sealed, store
  <1>4. HomeInv(m)'
    BY <1>1, <1>2, Trees DEF Mine, HomeInv, AtWork, Known, Same, Renames, store
  <1>5. RowInv(m)'
    BY <1>1, <1>2, Trees DEF Mine, RowInv, AtWork, Known, Same, Homes, Sealed, Renames, Frees, store
  <1>6. UndoInv(m)'
    BY <1>1, <1>2, Trees DEF Mine, UndoInv, AtWork, Known, Same, Homes, WithRows, Renames, store
  <1>7. FromInv(m)'
    BY <1>1, <1>2, Trees DEF Mine, FromInv, AtWork, Known, Same, Homes, Sealed, store
  <1>8. SoundInv(m)'
    BY <1>1, <1>2, Trees DEF Mine, SoundInv, AtWork, Known, Same, Renames, store
  <1>9. QED
    BY <1>3, <1>4, <1>5, <1>6, <1>7, <1>8 DEF Mine

LEMMA MineArmRows ==
  ASSUME TypeOK, OneRowPerPlace, NEW m \in Movers, Shape(m), Mine(m), ArmRows(m)
  PROVE  Mine(m)'
  <1>1. /\ AtWork(m) /\ mv[m].pc = "rows" /\ Same(m) /\ Others(m) /\ mv'[m].pc = "free"
        /\ mv'[m].amiss = mv[m].amiss /\ mv'[m].rows = registry /\ UNCHANGED store
        /\ \A u : Armed(m, u)' <=> Armed(m, u) \/ u = "rows"
        /\ (Renames(m)' <=> Renames(m)) /\ Files(m)' = Files(m)
    <2>1. /\ Same(m) /\ Others(m) /\ mv'[m].pc = "free" /\ mv'[m].amiss = FALSE
          /\ mv'[m].rows = registry /\ mv[m].pc = "rows"
          /\ \A u : Armed(m, u)' <=> Armed(m, u) \/ u = "rows"
      BY ArmRowsIs
    <2>2. AtWork(m)
      BY <2>1, IsAtWork DEF Working, Trying
    <2>3. mv[m].amiss = FALSE
      BY <2>1, <2>2 DEF AtWork, Sealed
    <2>4. QED
      BY <2>1, <2>2, <2>3 DEF ArmRows, Renames, Files, Remaps, Same
  <1>2. /\ registry[mv[m].name] = mv[m].from
        /\ \A k \in Names \ {mv[m].name} : registry[k] # mv[m].from
    BY <1>1, NoneAssumption DEF Mine, RowInv, AtWork, OneRowPerPlace
  <1>3. CopyInv(m)'
    BY <1>1, <1>2 DEF Mine, CopyInv, AtWork, Known, Same, Homes, WithRows, Sealed, store
  <1>4. HomeInv(m)'
    BY <1>1, <1>2 DEF Mine, HomeInv, AtWork, Known, Same, Renames, store
  <1>5. RowInv(m)'
    BY <1>1, <1>2 DEF Mine, RowInv, AtWork, Known, Same, Homes, Sealed, Renames, Frees, store
  <1>6. UndoInv(m)'
    BY <1>1, <1>2 DEF Mine, UndoInv, AtWork, Known, Same, Homes, WithRows, Renames, store
  <1>7. FromInv(m)'
    BY <1>1, <1>2 DEF Mine, FromInv, AtWork, Known, Same, Homes, Sealed, store
  <1>8. SoundInv(m)'
    BY <1>1, <1>2 DEF Mine, SoundInv, AtWork, Known, Same, Renames, store
  <1>9. QED
    BY <1>3, <1>4, <1>5, <1>6, <1>7, <1>8 DEF Mine

LEMMA MineClaim ==
  ASSUME TypeOK, OneRowPerPlace, NEW m \in Movers, Shape(m), Mine(m), Claim(m)
  PROVE  Mine(m)'
  <1>1. /\ AtWork(m) /\ mv[m].pc = "claim" /\ Known(m) /\ mv'[m].amiss = mv[m].amiss
        /\ IF Renames(m) THEN mv'[m].pc = "home" ELSE mv'[m].pc = "drop"
        /\ \A u : Armed(m, u)' <=> Armed(m, u)
    <2>1. mv[m].pc = "claim" /\ Goto(m, IF Renames(m) THEN "home" ELSE "drop")
      BY DEF Claim, At
    <2>2. "claim" \in Working /\ "home" \in Working /\ "drop" \in Working
      BY DEF Working, Trying
    <2>3. QED
      BY <2>1, <2>2, KnownGoto, IsAtWork
  <1>2. /\ UNCHANGED <<home, work>> /\ registry[mv[m].to] = None
        /\ \A n \in Names : registry'[n] = IF n = mv[m].to THEN mv[m].dest ELSE registry[n]
    BY <1>1 DEF Claim, AtWork, TypeOK
  <1>3. CopyInv(m)'
    BY <1>1, <1>2 DEF Mine, CopyInv, AtWork, Known, Same, Homes, WithRows, Sealed
  <1>4. HomeInv(m)'
    BY <1>1, <1>2 DEF Mine, HomeInv, AtWork, Known, Same, Renames
  <1>5. RowInv(m)'
    BY <1>1, <1>2 DEF Mine, RowInv, AtWork, Known, Same, Homes, Sealed, Renames, Frees
  <1>6. UndoInv(m)'
    BY <1>1, <1>2 DEF Mine, UndoInv, AtWork, Known, Same, Homes, WithRows, Renames
  <1>7. FromInv(m)'
    BY <1>1, <1>2 DEF Mine, FromInv, AtWork, Known, Same, Homes, Sealed
  <1>8. SoundInv(m)'
    BY <1>1, <1>2 DEF Mine, SoundInv, AtWork, Known, Same, Renames
  <1>9. QED
    BY <1>3, <1>4, <1>5, <1>6, <1>7, <1>8 DEF Mine

LEMMA MineArmHome ==
  ASSUME TypeOK, OneRowPerPlace, NEW m \in Movers, Shape(m), Mine(m), ArmHome(m)
  PROVE  Mine(m)'
  <1>1. /\ AtWork(m) /\ mv[m].pc = "home" /\ Known(m) /\ mv'[m].amiss = mv[m].amiss
        /\ mv'[m].pc = "homecopy" /\ UNCHANGED store
        /\ \A u : Armed(m, u)' => Armed(m, u) \/ u = "home"
        /\ \A u : Armed(m, u) => Armed(m, u)'
    <2>1. mv[m].pc = "home" /\ "home" \in Working /\ "homecopy" \in Working /\ "home" \in Undos
      BY DEF ArmHome, At, Working, Trying, Undos
    <2>2. AtWork(m) /\ UNCHANGED store
      BY <2>1, IsAtWork DEF ArmHome
    <2>3. CASE Push(m, "home", "homecopy")
      <3>1. Ordered(mv[m].stack) /\ \A v \in Undos : Armed(m, v) => v \in Below("home")
        BY <2>1, <2>2 DEF Shape, StackShape, AtWork, Below, Undos
      <3>2. /\ Same(m) /\ Others(m) /\ mv'[m].pc = "homecopy" /\ mv'[m].rows = mv[m].rows
            /\ mv'[m].amiss = mv[m].amiss
            /\ \A u : Armed(m, u)' <=> Armed(m, u) \/ u = "home"
        BY <2>1, <2>3, <3>1, PushIs
      <3>3. QED
        BY <2>1, <2>2, <3>2, KnownIf
    <2>4. CASE Goto(m, "homecopy")
      BY <2>1, <2>2, <2>4, KnownGoto
    <2>5. QED
      BY <2>3, <2>4 DEF ArmHome
  <1>2. home[mv[m].to] = Absent /\ registry[mv[m].to] = mv[m].dest /\ mv[m].rows[mv[m].to] = None
    BY <1>1 DEF Mine, HomeInv, RowInv, UndoInv, AtWork, Homes
  <1>3. CopyInv(m)'
    BY <1>1, <1>2, Trees DEF Mine, CopyInv, AtWork, Known, Same, Homes, WithRows, Sealed, store
  <1>4. HomeInv(m)'
    BY <1>1, <1>2, Trees DEF Mine, HomeInv, AtWork, Known, Same, Renames, store
  <1>5. RowInv(m)'
    BY <1>1, <1>2, Trees DEF Mine, RowInv, AtWork, Known, Same, Homes, Sealed, Renames, Frees, store
  <1>6. UndoInv(m)'
    BY <1>1, <1>2, Trees DEF Mine, UndoInv, AtWork, Known, Same, Homes, WithRows, Renames, store
  <1>7. FromInv(m)'
    BY <1>1, <1>2, Trees DEF Mine, FromInv, AtWork, Known, Same, Homes, Sealed, store
  <1>8. SoundInv(m)'
    BY <1>1, <1>2, Trees DEF Mine, SoundInv, AtWork, Known, Same, Renames, store
  <1>9. QED
    BY <1>3, <1>4, <1>5, <1>6, <1>7, <1>8 DEF Mine

LEMMA MineDrop ==
  ASSUME TypeOK, OneRowPerPlace, NEW m \in Movers, Shape(m), Mine(m), Drop(m)
  PROVE  Mine(m)'
  <1>1. /\ AtWork(m) /\ mv[m].pc = "drop" /\ Known(m) /\ mv[m].amiss = FALSE
        /\ mv'[m].pc = "seal" /\ UNCHANGED <<home, work>>
        /\ \A u : Armed(m, u)' <=> Armed(m, u) \/ (Renames(m) /\ u = "source")
    <2>1. /\ mv[m].pc = "drop" /\ Same(m) /\ Others(m) /\ mv'[m].rows = mv[m].rows
          /\ mv[m].amiss = FALSE /\ mv'[m].pc = "seal" /\ UNCHANGED <<home, work>>
          /\ \A u : Armed(m, u)' <=> Armed(m, u) \/ (Renames(m) /\ u = "source")
      BY DropIs
    <2>2. QED
      BY <2>1, IsAtWork, KnownIf DEF Working, Trying
  <1>2. /\ \A n \in Names \ {mv[m].name} : registry'[n] = registry[n]
        /\ ~Renames(m) => registry'[mv[m].name] = registry[mv[m].name]
        /\ Renames(m) /\ mv'[m].amiss = FALSE => registry'[mv[m].name] = None
        /\ registry'[mv[m].name] \in {registry[mv[m].name], None}
    <2>1. PICK dropped \in BOOLEAN :
            /\ mv'[m].amiss = TRUE <=> Renames(m) /\ dropped = FALSE /\ registry[mv[m].name] # None
            /\ registry' = IF Renames(m) /\ dropped = TRUE
                           THEN [registry EXCEPT ![mv[m].name] = None] ELSE registry
      BY DropIs
    <2>2. registry \in [Names -> Places \cup {None}] /\ mv[m].name \in Names
      BY <1>1 DEF TypeOK, AtWork
    <2>3. QED
      BY <2>1, <2>2
  <1>3. CopyInv(m)'
    BY <1>1, <1>2 DEF Mine, CopyInv, AtWork, Known, Same, Homes, WithRows, Sealed
  <1>4. HomeInv(m)'
    BY <1>1, <1>2 DEF Mine, HomeInv, AtWork, Known, Same, Renames
  <1>5. RowInv(m)'
    BY <1>1, <1>2 DEF Mine, RowInv, AtWork, Known, Same, Homes, Sealed, Renames, Frees
  <1>6. UndoInv(m)'
    BY <1>1, <1>2 DEF Mine, UndoInv, AtWork, Known, Same, Homes, WithRows, Renames
  <1>7. FromInv(m)'
    BY <1>1, <1>2 DEF Mine, FromInv, AtWork, Known, Same, Homes, Sealed
  <1>8. SoundInv(m)'
    BY <1>1, <1>2 DEF Mine, SoundInv, AtWork, Known, Same, Renames
  <1>9. QED
    BY <1>3, <1>4, <1>5, <1>6, <1>7, <1>8 DEF Mine

LEMMA MineSeal ==
  ASSUME TypeOK, OneRowPerPlace, NEW m \in Movers, Shape(m), Mine(m), Seal(m)
  PROVE  Mine(m)'
  <1>1. /\ AtWork(m) /\ mv[m].pc = "seal" /\ Same(m) /\ mv'[m].amiss = mv[m].amiss
        /\ mv'[m].pc = "tail" /\ UNCHANGED store /\ \A u : ~Armed(m, u)'
    <2>1. /\ mv[m].pc = "seal" /\ Same(m) /\ mv'[m].amiss = mv[m].amiss
          /\ mv'[m].pc = "tail" /\ UNCHANGED store /\ mv'[m].stack = <<>>
      BY SealIs
    <2>2. QED
      BY <2>1, IsAtWork, EmptyStack DEF Armed, Working, Trying
  <1>2. (Renames(m)' <=> Renames(m)) /\ Files(m)' = Files(m)
    BY <1>1 DEF Same, Renames, Files, Remaps
  <1>3. CopyInv(m)'
    BY <1>1, <1>2 DEF Mine, CopyInv, AtWork, Known, Same, Homes, WithRows, Sealed, store
  <1>4. HomeInv(m)'
    BY <1>1, <1>2 DEF Mine, HomeInv, AtWork, Known, Same, Renames, store
  <1>5. RowInv(m)'
    BY <1>1, <1>2 DEF Mine, RowInv, AtWork, Known, Same, Homes, Sealed, Renames, Frees, store
  <1>6. UndoInv(m)'
    BY <1>1, <1>2 DEF Mine, UndoInv, AtWork, Known, Same, Homes, WithRows, Renames, store
  <1>7. FromInv(m)'
    BY <1>1, <1>2 DEF Mine, FromInv, AtWork, Known, Same, Homes, Sealed, store
  <1>8. SoundInv(m)'
    BY <1>1, <1>2 DEF Mine, SoundInv, AtWork, Known, Same, Renames, store
  <1>9. QED
    BY <1>3, <1>4, <1>5, <1>6, <1>7, <1>8 DEF Mine

LEMMA MineFail ==
  ASSUME TypeOK, OneRowPerPlace, NEW m \in Movers, Shape(m), Mine(m), Fail(m)
  PROVE  Mine(m)'
  <1>1. /\ AtWork(m) /\ mv[m].pc \in Trying /\ Known(m) /\ mv'[m].amiss = mv[m].amiss
        /\ mv'[m].pc = "undo" /\ UNCHANGED store
        /\ \A u : Armed(m, u)' <=> Armed(m, u)
    <2>1. mv[m].pc \in Trying /\ mv[m].pc \in Working /\ "undo" \in Working /\ Goto(m, "undo")
      BY PCs DEF Fail
    <2>2. QED
      BY <2>1, IsAtWork, KnownGoto DEF Fail
  <1>2. mv[m].pc \in WithRows => Armed(m, "rows")
    BY DEF Shape, StackShape
  <1>3. CopyInv(m)'
    BY <1>1, <1>2 DEF Mine, CopyInv, AtWork, Known, Same, Homes, WithRows, Sealed, store
  <1>4. HomeInv(m)'
    BY <1>1, <1>2 DEF Mine, HomeInv, AtWork, Known, Same, Renames, store
  <1>5. RowInv(m)'
    BY <1>1, <1>2 DEF Mine, RowInv, AtWork, Known, Same, Homes, Sealed, Renames, Frees, store, WithRows, Trying
  <1>6. UndoInv(m)'
    BY <1>1, <1>2 DEF Mine, UndoInv, AtWork, Known, Same, Homes, WithRows, Renames, store
  <1>7. FromInv(m)'
    BY <1>1, <1>2 DEF Mine, FromInv, AtWork, Known, Same, Homes, Sealed, Trying, store, WithRows
  <1>8. SoundInv(m)'
    BY <1>1, <1>2 DEF Mine, SoundInv, AtWork, Known, Same, Renames, store, Trying
  <1>9. QED
    BY <1>3, <1>4, <1>5, <1>6, <1>7, <1>8 DEF Mine

LEMMA MineUndoCopy ==
  ASSUME TypeOK, OneRowPerPlace, NEW m \in Movers, Shape(m), Mine(m), UndoCopy(m)
  PROVE  Mine(m)'
  <1>1. /\ AtWork(m) /\ mv[m].pc = "undo" /\ Known(m) /\ mv'[m].pc = "undo" /\ Armed(m, "dest")
        /\ mv'[m].amiss \in BOOLEAN /\ (mv[m].amiss = TRUE => mv'[m].amiss = TRUE)
        /\ \A u : Armed(m, u)' <=> Armed(m, u) /\ u # "dest"
        /\ \A u : Armed(m, u)' => u \in Below("dest")
    <2>1. PICK f \in BOOLEAN : Popped(m, f)
      BY DEF UndoCopy
    <2>2. "dest" \in Undos /\ Undoes(m, "dest") /\ Ordered(mv[m].stack)
      BY DEF UndoCopy, Undos, Shape, StackShape
    <2>3. /\ Same(m) /\ Others(m) /\ mv[m].pc = "undo" /\ mv'[m].pc = "undo"
          /\ mv'[m].rows = mv[m].rows /\ mv'[m].amiss = (mv[m].amiss \/ f)
          /\ Armed(m, "dest")
          /\ \A u : Armed(m, u)' <=> Armed(m, u) /\ u # "dest"
          /\ \A u : Armed(m, u)' => u \in Below("dest")
      BY <2>1, <2>2, PoppedIs
    <2>4. AtWork(m)
      BY <2>3, IsAtWork, PCs
    <2>5. QED
      BY <2>1, <2>3, <2>4, KnownIf DEF AtWork
  <1>2. /\ UNCHANGED <<registry, home>> /\ mv[m].copies = TRUE
        /\ \A w \in Places \ {mv[m].dest} : work'[w] = work[w]
    BY <1>1 DEF UndoCopy, AtWork, TypeOK, Shape, StackShape
  <1>0. ~Armed(m, "rows")' /\ ~Armed(m, "dest")'
    BY <1>1 DEF Below
  <1>3. CopyInv(m)'
    BY <1>0, <1>1, <1>2 DEF Mine, CopyInv, AtWork, Known, Same, Homes, WithRows, Sealed
  <1>4. HomeInv(m)'
    BY <1>1, <1>2 DEF Mine, HomeInv, AtWork, Known, Same, Renames
  <1>5. RowInv(m)'
    BY <1>1, <1>2 DEF Mine, RowInv, AtWork, Known, Same, Homes, Sealed, Renames, Frees
  <1>6. UndoInv(m)'
    BY <1>1, <1>2 DEF Mine, UndoInv, AtWork, Known, Same, Homes, WithRows, Renames
  <1>7. FromInv(m)'
    BY <1>1, <1>2 DEF Mine, FromInv, AtWork, Known, Same, Homes, Sealed
  <1>8. SoundInv(m)'
    BY <1>1, <1>2 DEF Mine, SoundInv, AtWork, Known, Same, Renames
  <1>9. QED
    BY <1>3, <1>4, <1>5, <1>6, <1>7, <1>8 DEF Mine

LEMMA MineUndoHome ==
  ASSUME TypeOK, OneRowPerPlace, NEW m \in Movers, Shape(m), Mine(m), UndoHome(m)
  PROVE  Mine(m)'
  <1>1. /\ AtWork(m) /\ mv[m].pc = "undo" /\ Known(m) /\ mv'[m].pc = "undo" /\ Armed(m, "home")
        /\ mv'[m].amiss \in BOOLEAN /\ (mv[m].amiss = TRUE => mv'[m].amiss = TRUE)
        /\ \A u : Armed(m, u)' <=> Armed(m, u) /\ u # "home"
        /\ \A u : Armed(m, u)' => u \in Below("home")
    <2>1. PICK f \in BOOLEAN : Popped(m, f)
      BY DEF UndoHome
    <2>2. "home" \in Undos /\ Undoes(m, "home") /\ Ordered(mv[m].stack)
      BY DEF UndoHome, Undos, Shape, StackShape
    <2>3. /\ Same(m) /\ Others(m) /\ mv[m].pc = "undo" /\ mv'[m].pc = "undo"
          /\ mv'[m].rows = mv[m].rows /\ mv'[m].amiss = (mv[m].amiss \/ f)
          /\ Armed(m, "home")
          /\ \A u : Armed(m, u)' <=> Armed(m, u) /\ u # "home"
          /\ \A u : Armed(m, u)' => u \in Below("home")
      BY <2>1, <2>2, PoppedIs
    <2>4. AtWork(m)
      BY <2>3, IsAtWork, PCs
    <2>5. QED
      BY <2>1, <2>3, <2>4, KnownIf DEF AtWork
  <1>2. /\ UNCHANGED <<registry, work>> /\ Renames(m) /\ Armed(m, "rows")
        /\ \A n \in Names \ {mv[m].to} : home'[n] = home[n]
    BY <1>1 DEF UndoHome, AtWork, TypeOK, Shape, StackShape
  <1>3. CopyInv(m)'
    BY <1>1, <1>2 DEF Mine, CopyInv, AtWork, Known, Same, Homes, WithRows, Sealed
  <1>4. HomeInv(m)'
    BY <1>1, <1>2 DEF Mine, HomeInv, AtWork, Known, Same, Renames
  <1>5. RowInv(m)'
    BY <1>1, <1>2 DEF Mine, RowInv, AtWork, Known, Same, Homes, Sealed, Renames, Frees
  <1>6. UndoInv(m)'
    BY <1>1, <1>2 DEF Mine, UndoInv, AtWork, Known, Same, Homes, WithRows, Renames
  <1>7. FromInv(m)'
    BY <1>1, <1>2 DEF Mine, FromInv, AtWork, Known, Same, Homes, Sealed
  <1>8. SoundInv(m)'
    BY <1>1, <1>2 DEF Mine, SoundInv, AtWork, Known, Same, Renames
  <1>9. QED
    BY <1>3, <1>4, <1>5, <1>6, <1>7, <1>8 DEF Mine

LEMMA MineUndoRows ==
  ASSUME TypeOK, OneRowPerPlace, NEW m \in Movers, Shape(m), Mine(m), UndoRows(m)
  PROVE  Mine(m)'
  <1>1. /\ AtWork(m) /\ mv[m].pc = "undo" /\ Known(m) /\ mv'[m].pc = "undo" /\ Armed(m, "rows")
        /\ mv'[m].amiss \in BOOLEAN /\ (mv[m].amiss = TRUE => mv'[m].amiss = TRUE)
        /\ \A u : Armed(m, u)' <=> Armed(m, u) /\ u # "rows"
        /\ \A u : Armed(m, u)' => u \in Below("rows")
        /\ UNCHANGED <<home, work>>
        /\ mv'[m].amiss = FALSE => registry' = mv[m].rows
    <2>1. PICK f \in BOOLEAN :
            Popped(m, f) /\ (f = FALSE => registry' = mv[m].rows) /\ UNCHANGED <<home, work>>
      BY RowsPutBack
    <2>2. "rows" \in Undos /\ Undoes(m, "rows") /\ Ordered(mv[m].stack)
      BY DEF UndoRows, Undos, Shape, StackShape
    <2>3. /\ Same(m) /\ Others(m) /\ mv[m].pc = "undo" /\ mv'[m].pc = "undo"
          /\ mv'[m].rows = mv[m].rows /\ mv'[m].amiss = (mv[m].amiss \/ f)
          /\ Armed(m, "rows")
          /\ \A u : Armed(m, u)' <=> Armed(m, u) /\ u # "rows"
          /\ \A u : Armed(m, u)' => u \in Below("rows")
      BY <2>1, <2>2, PoppedIs
    <2>4. AtWork(m)
      BY <2>3, IsAtWork, PCs
    <2>5. QED
      BY <2>1, <2>3, <2>4, KnownIf DEF AtWork
  <1>2. /\ \A n \in Names : registry'[n] \in {registry[n], mv[m].rows[n]}
        /\ mv[m].rows[mv[m].name] = mv[m].from
        /\ \A k \in Names \ {mv[m].name} : mv[m].rows[k] # mv[m].from
    BY <1>1, RowsPutBack DEF Mine, UndoInv
  <1>3. CopyInv(m)'
    BY <1>1, <1>2 DEF Mine, CopyInv, AtWork, Known, Same, Homes, WithRows, Sealed, Below
  <1>4. HomeInv(m)'
    BY <1>1, <1>2 DEF Mine, HomeInv, AtWork, Known, Same, Renames, Below
  <1>5. RowInv(m)'
    BY <1>1, <1>2 DEF Mine, RowInv, AtWork, Known, Same, Homes, Sealed, Renames, Frees, Below
  <1>6. UndoInv(m)'
    BY <1>1, <1>2 DEF Mine, UndoInv, AtWork, Known, Same, Homes, WithRows, Renames, Below
  <1>7. FromInv(m)'
    BY <1>1, <1>2 DEF Mine, FromInv, AtWork, Known, Same, Homes, Sealed
  <1>8. SoundInv(m)'
    BY <1>1, <1>2 DEF Mine, SoundInv, AtWork, Known, Same, Renames
  <1>9. QED
    BY <1>3, <1>4, <1>5, <1>6, <1>7, <1>8 DEF Mine

LEMMA MineUndoDrop ==
  ASSUME TypeOK, OneRowPerPlace, NEW m \in Movers, Shape(m), Mine(m), UndoDrop(m)
  PROVE  Mine(m)'
  <1>1. /\ AtWork(m) /\ mv[m].pc = "undo" /\ Known(m) /\ mv'[m].pc = "undo" /\ Armed(m, "source")
        /\ mv'[m].amiss \in BOOLEAN /\ (mv[m].amiss = TRUE => mv'[m].amiss = TRUE)
        /\ \A u : Armed(m, u)' <=> Armed(m, u) /\ u # "source"
        /\ \A u : Armed(m, u)' => u \in Below("source")
        /\ UNCHANGED <<home, work>> /\ Renames(m)
        /\ \A n \in Names \ {mv[m].name} : registry'[n] = registry[n]
        /\ registry'[mv[m].name] \in {registry[mv[m].name], mv[m].from}
        /\ mv'[m].amiss = FALSE => registry'[mv[m].name] = mv[m].from
    <2>1. PICK f \in BOOLEAN :
            /\ Popped(m, f) /\ UNCHANGED <<home, work>>
            /\ f = FALSE => registry' = [registry EXCEPT ![mv[m].name] = mv[m].from]
            /\ f = TRUE => UNCHANGED registry
      BY DEF UndoDrop
    <2>2. "source" \in Undos /\ Undoes(m, "source") /\ Ordered(mv[m].stack)
      BY DEF UndoDrop, Undos, Shape, StackShape
    <2>3. /\ Same(m) /\ Others(m) /\ mv[m].pc = "undo" /\ mv'[m].pc = "undo"
          /\ mv'[m].rows = mv[m].rows /\ mv'[m].amiss = (mv[m].amiss \/ f)
          /\ Armed(m, "source")
          /\ \A u : Armed(m, u)' <=> Armed(m, u) /\ u # "source"
          /\ \A u : Armed(m, u)' => u \in Below("source")
      BY <2>1, <2>2, PoppedIs
    <2>4. AtWork(m)
      BY <2>3, IsAtWork, PCs
    <2>5. Renames(m) /\ mv[m].name \in Names /\ registry \in [Names -> Places \cup {None}]
      BY <2>3, <2>4 DEF Shape, StackShape, AtWork, TypeOK
    <2>6. /\ \A n \in Names \ {mv[m].name} : registry'[n] = registry[n]
          /\ registry'[mv[m].name] \in {registry[mv[m].name], mv[m].from}
          /\ f = FALSE => registry'[mv[m].name] = mv[m].from
      BY <2>1, <2>5
    <2>7. mv[m].amiss \in BOOLEAN
      BY <2>4 DEF AtWork
    <2>8. QED
      BY <2>1, <2>3, <2>4, <2>5, <2>6, <2>7, KnownIf
  <1>2. CopyInv(m)'
    BY <1>1 DEF Mine, CopyInv, AtWork, Known, Same, Homes, WithRows, Sealed, Below
  <1>3. HomeInv(m)'
    BY <1>1 DEF Mine, HomeInv, AtWork, Known, Same, Renames, Below
  <1>4. RowInv(m)'
    BY <1>1 DEF Mine, RowInv, AtWork, Known, Same, Homes, Sealed, Renames, Frees, Below
  <1>5. UndoInv(m)'
    BY <1>1 DEF Mine, UndoInv, AtWork, Known, Same, Homes, WithRows, Renames, Below
  <1>6. FromInv(m)'
    BY <1>1 DEF Mine, FromInv, AtWork, Known, Same, Homes, Sealed
  <1>7. SoundInv(m)'
    BY <1>1 DEF Mine, SoundInv, AtWork, Known, Same, Renames
  <1>8. QED
    BY <1>2, <1>3, <1>4, <1>5, <1>6, <1>7 DEF Mine

LEMMA StepMine ==
  ASSUME TypeInv, Calm, Merges = FALSE, NEW m \in Movers, Mine(m), Step(m)
  PROVE  Mine(m)'
  <1>1. TypeOK /\ OneRowPerPlace /\ Shape(m)
    BY DEF TypeInv, ShapeInv
  <1>2. ASSUME NEW q \in {"done", "undone", "killed"}, Ends(m, q)
        PROVE  Mine(m)'
    <2>1. q \in Ended
      BY DEF Ended
    <2>2. mv'[m].pc \in Ended /\ mv'[m].stack = <<>>
      BY <1>1, <1>2, <2>1, EndsIs
    <2>3. QED
      BY <2>2, MineEnds
  <1>3. CASE Retire(m) \/ Stop(m) \/ Undone(m) \/ Kill(m)
    BY <1>2, <1>3 DEF Retire, Stop, Undone, Kill
  <1>4. CASE Arm(m) \/ Copy(m) \/ Copied(m) \/ ArmRows(m) \/ Free(m) \/ Claim(m)
    BY <1>1, <1>4, MineArm, MineCopy, MineCopied, MineArmRows, MineFree, MineClaim
  <1>5. CASE ArmHome(m) \/ CopyHome(m) \/ HomeCopied(m) \/ Drop(m) \/ Seal(m) \/ DropHome(m)
    BY <1>1, <1>5, MineArmHome, MineCopyHome, MineHomeCopied, MineDrop, MineSeal, MineDropHome
  <1>6. CASE Fail(m) \/ UndoCopy(m) \/ UndoRows(m) \/ UndoHome(m) \/ UndoDrop(m)
    BY <1>1, <1>6, MineFail, MineUndoCopy, MineUndoRows, MineUndoHome, MineUndoDrop
  <1>7. QED
    BY <1>3, <1>4, <1>5, <1>6 DEF Step

\* What a command may rely on when it begins: the row it found, and the box whole if
\* it was, with the files where its user has taken them.
LEMMA BeginMine ==
  ASSUME TypeInv, NEW m \in Movers, Begin(m)
  PROVE  Mine(m)'
  <1>0. PICK n \in Names : \E to, dest :
          \/ to \in Names /\ dest \in Places /\ Move(m, n, to, dest)
          \/ to \in Names /\ dest = registry[n] /\ Rename(m, n, to)
          \/ to = n /\ dest \in Places /\ Remap(m, n, dest)
    BY DEF Begin
  <1>1. PICK to, dest :
          \/ to \in Names /\ dest \in Places /\ Move(m, n, to, dest)
          \/ to \in Names /\ dest = registry[n] /\ Rename(m, n, to)
          \/ to = n /\ dest \in Places /\ Remap(m, n, dest)
    BY <1>0
  <1>2. TypeOK /\ OneRowPerPlace /\ registry[n] # None /\ home[n] # Absent /\ to \in Names
    BY <1>1 DEF TypeInv, Move, Rename, Remap
  <1>3. home[n] \in Tree /\ work \in [Places -> Tree] /\ registry[n] \in Places /\ dest \in Places
    BY <1>1, <1>2 DEF TypeOK
  <1>4. UNCHANGED <<registry, home>>
    BY <1>1 DEF Move, Rename, Remap, store
  <1>5. PICK files \in Places, copies \in BOOLEAN :
          /\ Begun(m, n, to, files, dest, copies)
          /\ home[n].whole = TRUE /\ work[files] = home[n] =>
               work'[IF copies = FALSE /\ dest # registry[n] THEN dest ELSE registry[n]] = home[n]
    <2>1. ASSUME NEW files \in Places, NEW copies \in BOOLEAN, Begins(m, n, to, files, dest, copies)
          PROVE  Begun(m, n, to, files, dest, copies)
      BY <1>2, <1>3, <2>1, BeginsIs
    <2>2. CASE Move(m, n, to, dest)
      <3>1. Begins(m, n, to, registry[n], dest, TRUE) /\ UNCHANGED work
        BY <2>2 DEF Move, store
      <3>2. QED
        BY <1>3, <2>1, <3>1
    <2>3. CASE dest = registry[n] /\ Rename(m, n, to)
      <3>1. Begins(m, n, to, registry[n], dest, FALSE) /\ UNCHANGED work
        BY <2>3 DEF Rename, store
      <3>2. QED
        BY <1>3, <2>1, <2>3, <3>1
    <2>4. CASE to = n /\ Remap(m, n, dest)
      <3>1. CASE /\ work' = [work EXCEPT ![dest] = work[registry[n]], ![registry[n]] = Absent]
                 /\ Begins(m, n, n, registry[n], dest, FALSE) /\ dest # registry[n]
        <4>1. work'[dest] = work[registry[n]]
          BY <1>3, <3>1
        <4>2. QED
          BY <1>3, <2>1, <2>4, <3>1, <4>1
      <3>2. CASE /\ Begins(m, n, n, dest, dest, FALSE) /\ UNCHANGED work /\ dest # registry[n]
        BY <1>3, <2>1, <2>4, <3>2
      <3>3. QED
        BY <2>4, <3>1, <3>2 DEF Remap
    <2>5. QED
      BY <1>1, <2>2, <2>3, <2>4
  <1>6. /\ mv'[m].pc = "arm" /\ mv'[m].box = home[n].of /\ mv'[m].name = n /\ mv'[m].to = to
        /\ mv'[m].from = registry[n] /\ mv'[m].dest = dest /\ mv'[m].copies = copies
        /\ mv'[m].stack = <<>> /\ mv'[m].sound = (home[n].whole /\ work[files] = home[n])
    BY <1>5 DEF Begun
  <1>7. \A u : ~Armed(m, u)'
    BY <1>6, EmptyStack DEF Armed
  <1>8. CopyInv(m)' /\ HomeInv(m)' /\ UndoInv(m)'
    BY <1>6, <1>7 DEF CopyInv, HomeInv, UndoInv, WithRows, Homes, Sealed
  <1>9. RowInv(m)'
    BY <1>4, <1>6, <1>7 DEF RowInv, Homes, Sealed
  <1>10. FromInv(m)'
    BY <1>2, <1>4, <1>6 DEF FromInv, OneRowPerPlace
  <1>11. SoundInv(m)'
    <2>1. Files(m)' = IF copies = FALSE /\ dest # registry[n] THEN dest ELSE registry[n]
      BY <1>6 DEF Files, Remaps
    <2>2. ASSUME mv'[m].sound = TRUE
          PROVE  work'[Files(m)'] = Whole(mv'[m].box) /\ home'[n] = Whole(mv'[m].box)
      <3>1. home[n].whole = TRUE /\ work[files] = home[n]
        BY <1>3, <1>6, <2>2, Trees
      <3>2. home[n] = Whole(home[n].of)
        BY <1>3, <3>1, Trees
      <3>3. QED
        BY <1>4, <1>5, <1>6, <2>1, <3>1, <3>2
    <2>3. QED
      BY <1>6, <2>2 DEF SoundInv
  <1>12. QED
    BY <1>8, <1>9, <1>10, <1>11 DEF Mine

Discipline == Overlap = FALSE /\ Merges = FALSE /\ RowsRace = FALSE

AllMine == \A m \in Movers : Mine(m)

KeepInv == TypeInv /\ Exclusive /\ Calm /\ AllMine

LEMMA InitKept ==
  ASSUME Init
  PROVE  KeepInv
  <1>1. TypeInv /\ \A m \in Movers : mv[m] = Idle
    BY InitTyped DEF Init
  <1>2. Idle.pc = "idle" /\ Idle.stack = <<>>
    BY DEF Idle
  <1>3. \A m \in Movers : HoldsN(m) = {} /\ HoldsP(m) = {}
    BY <1>1, <1>2, PCs DEF HoldsN, HoldsP
  <1>4. Exclusive /\ Calm
    BY <1>1, <1>2, <1>3 DEF Exclusive, Calm, At
  <1>5. ASSUME NEW m \in Movers PROVE Mine(m)
    <2>1. \A u : ~Armed(m, u)
      BY <1>1, <1>2, EmptyStack DEF Armed
    <2>2. mv[m].pc \notin Working \cup Homes \cup WithRows \cup Sealed
          /\ mv[m].pc \notin {"arm", "copy", "copying", "rows", "tail", "undo"}
      BY <1>1, <1>2 DEF Working, Trying, Homes, WithRows, Sealed
    <2>3. CopyInv(m) /\ HomeInv(m) /\ RowInv(m)
      BY <2>1, <2>2 DEF CopyInv, HomeInv, RowInv, Homes, WithRows, Sealed
    <2>4. UndoInv(m) /\ FromInv(m) /\ SoundInv(m)
      BY <2>1, <2>2 DEF UndoInv, FromInv, SoundInv, WithRows, Homes
    <2>5. QED
      BY <2>3, <2>4 DEF Mine
  <1>6. QED
    BY <1>1, <1>4, <1>5 DEF KeepInv, AllMine

LEMMA NextKept ==
  ASSUME Discipline, KeepInv, [Next]_vars
  PROVE  KeepInv'
  <1>1. /\ TypeInv /\ TypeInv' /\ Exclusive /\ Calm /\ AllMine /\ TypeOK
        /\ \A k \in Movers : Shape(k) /\ Mine(k) /\ UndoInv(k)
        /\ Overlap = FALSE /\ Merges = FALSE /\ RowsRace = FALSE
    BY NextTyped DEF KeepInv, AllMine, TypeInv, ShapeInv, Mine, Discipline
  <1>2. Calm'
    <2>1. CASE Next
      BY <1>1, <2>1 DEF Next
    <2>2. CASE UNCHANGED vars
      BY <1>1, <2>2 DEF vars, Calm, At
    <2>3. QED
      BY <2>1, <2>2
  <1>3. ASSUME NEW k \in Movers, Stays(k) PROVE Mine(k)'
    BY <1>1, <1>3, MineStays
  <1>4. ASSUME NEW m \in Movers, Step(m) PROVE Exclusive' /\ AllMine'
    <2>1. Exclusive' /\ \A k \in Movers \ {m} : Stays(k)
      BY <1>1, <1>4, StepLeaves
    <2>2. Mine(m)'
      BY <1>1, <1>4, StepMine
    <2>3. QED
      BY <1>3, <2>1, <2>2 DEF AllMine
  <1>5. ASSUME NEW m \in Movers, Begin(m) PROVE Exclusive' /\ AllMine'
    <2>1. Exclusive' /\ \A k \in Movers \ {m} : Stays(k)
      BY <1>1, <1>5, BeginLeaves
    <2>2. Mine(m)'
      BY <1>1, <1>5, BeginMine
    <2>3. QED
      BY <1>3, <2>1, <2>2 DEF AllMine
  <1>6. ASSUME NEW n \in Names, Other(n) PROVE Exclusive' /\ AllMine'
    BY <1>1, <1>3, <1>6, OtherLeaves DEF AllMine
  <1>7. CASE UNCHANGED vars
    <2>1. \A k \in Movers : Stays(k) /\ HoldsN(k)' = HoldsN(k) /\ HoldsP(k)' = HoldsP(k)
      BY <1>7, StillHolds DEF vars, Stays
    <2>2. Exclusive'
      BY <1>1, <2>1 DEF Exclusive
    <2>3. QED
      BY <1>1, <1>2, <1>3, <2>1, <2>2 DEF KeepInv, AllMine
  <1>8. QED
    BY <1>1, <1>2, <1>4, <1>5, <1>6, <1>7, WhoSteps DEF KeepInv

LEMMA KeptAlways ==
  ASSUME ~Overlap, ~Merges, ~RowsRace
  PROVE  Spec => []KeepInv
  <1>1. Discipline
    BY DisciplineAssumption DEF Discipline
  <1>2. Init => KeepInv
    BY InitKept
  <1>3. KeepInv /\ [Next]_vars => KeepInv'
    BY <1>1, NextKept
  <1>4. QED
    BY <1>2, <1>3, PTL DEF Spec

\* Whole data goes from a name only where it is elsewhere: the copy under the new name
\* is taken by the undo of the copy, the source by the tail.
LEMMA HomesStay ==
  ASSUME KeepInv, KeepInv', NEW b \in Boxes, NEW n \in Names, home[n] = Whole(b), [Next]_vars
  PROVE  \E k \in Names : home'[k] = Whole(b)
  <1>1. TypeOK /\ home \in [Names -> Tree]
    BY DEF KeepInv, TypeInv, TypeOK
  <1>2. home[n].whole = TRUE /\ home[n] # Absent
    BY Trees
  <1>3. CASE home'[n] = home[n]
    BY <1>3
  <1>4. ASSUME NEW m \in Movers, Step(m), home'[n] # home[n]
        PROVE  \E k \in Names : home'[k] = Whole(b)
    <2>1. Shape(m) /\ HomeInv(m) /\ mv[m].pc \in Working
      BY <1>1, <1>4, StepGoes DEF KeepInv, TypeInv, ShapeInv, AllMine, Mine
    <2>2. AtWork(m)
      BY <1>1, <2>1, IsAtWork
    <2>3. CASE CopyHome(m)
      <3>1. n = mv[m].to /\ home[n] = Absent
        BY <1>1, <1>4, <2>1, <2>2, <2>3 DEF CopyHome, HomeInv, At, AtWork
      <3>2. QED
        BY <1>2, <3>1
    <2>4. CASE HomeCopied(m)
      <3>1. n = mv[m].to /\ home[n].whole = FALSE
        BY <1>1, <1>4, <2>1, <2>2, <2>4 DEF HomeCopied, HomeInv, At, AtWork
      <3>2. QED
        BY <1>2, <3>1
    <2>5. CASE DropHome(m)
      <3>1. PICK left : home' = [home EXCEPT ![mv[m].name] = left]
        BY <2>5 DEF DropHome
      <3>2. n = mv[m].name /\ mv[m].pc = "tail"
        BY <1>1, <1>4, <2>2, <2>5, <3>1 DEF DropHome, AtWork, At
      <3>3. Renames(m)
        BY <1>1, <1>4, <2>2, <2>5, <3>2 DEF DropHome, AtWork
      <3>4. home'[mv[m].to] = home[mv[m].to] /\ home[mv[m].to] = home[n]
        BY <1>1, <2>1, <2>2, <3>1, <3>2, <3>3 DEF Renames, AtWork, HomeInv
      <3>5. QED
        BY <2>2, <3>4 DEF AtWork
    <2>6. CASE UndoHome(m)
      <3>1. PICK left : home' = [home EXCEPT ![mv[m].to] = left] /\ Popped(m, left # Absent)
        BY <2>6 DEF UndoHome
      <3>2. Armed(m, "home")
        BY <1>1, <2>1, <2>6, <3>1, PoppedIs DEF UndoHome, Shape, StackShape, Undos
      <3>3. n = mv[m].to /\ Renames(m)
        BY <1>1, <1>4, <2>1, <2>2, <3>1, <3>2 DEF AtWork, Shape, StackShape
      <3>4. home'[mv[m].name] = home[mv[m].name] /\ home[mv[m].name] = home[n]
        BY <1>1, <1>2, <2>1, <2>2, <3>1, <3>2, <3>3 DEF Renames, AtWork, HomeInv
      <3>5. QED
        BY <2>2, <3>4 DEF AtWork
    <2>7. CASE UNCHANGED home
      BY <1>4, <2>7
    <2>8. UNCHANGED home \/ CopyHome(m) \/ HomeCopied(m) \/ DropHome(m) \/ UndoHome(m)
      <3>1. CASE Drop(m)
        BY <3>1 DEF Drop
      <3>2. CASE \/ Arm(m) \/ Copy(m) \/ Copied(m) \/ ArmRows(m) \/ Free(m) \/ Claim(m)
                 \/ ArmHome(m) \/ Seal(m) \/ Retire(m) \/ Stop(m) \/ Fail(m) \/ UndoCopy(m)
                 \/ UndoRows(m) \/ UndoDrop(m) \/ Undone(m) \/ Kill(m)
        BY <3>2 DEF store, Arm, Copy, Copied, ArmRows, Free, Claim, ArmHome, Seal, Retire, Stop,
           Fail, UndoCopy, UndoRows, UndoDrop, Undone, Kill
      <3>3. QED
        BY <1>4, <3>1, <3>2 DEF Step
    <2>9. QED
      BY <2>3, <2>4, <2>5, <2>6, <2>7, <2>8
  <1>5. ASSUME NEW m \in Movers, Begin(m) PROVE UNCHANGED home
    <2>1. \E n0, to, dest : Move(m, n0, to, dest) \/ Rename(m, n0, to) \/ Remap(m, n0, dest)
      BY <1>5 DEF Begin
    <2>2. QED
      BY <2>1 DEF Move, Rename, Remap, store
  <1>6. ASSUME NEW k \in Names, Other(k) PROVE home'[n] = home[n]
    BY <1>1, <1>2, <1>6 DEF Other, Create, Rm, Register
  <1>7. UNCHANGED vars => UNCHANGED home
    BY DEF vars, store
  <1>8. QED
    BY <1>3, <1>4, <1>5, <1>6, <1>7, WhoSteps

\* The same for workspaces; a remap's user has moved the files, they are not gone.
LEMMA WorksStay ==
  ASSUME KeepInv, KeepInv', NEW b \in Boxes, NEW w \in Places, work[w] = Whole(b), [Next]_vars
  PROVE  \E k \in Places : work'[k] = Whole(b)
  <1>1. TypeOK /\ work \in [Places -> Tree] /\ registry \in [Names -> Places \cup {None}]
    BY DEF KeepInv, TypeInv, TypeOK
  <1>2. work[w].whole = TRUE /\ work[w] # Absent
    BY Trees
  <1>3. CASE work'[w] = work[w]
    BY <1>3
  <1>4. ASSUME NEW m \in Movers, Step(m), work'[w] # work[w]
        PROVE  \E k \in Places : work'[k] = Whole(b)
    <2>1. Shape(m) /\ CopyInv(m) /\ mv[m].pc \in Working
      BY <1>1, <1>4, StepGoes DEF KeepInv, TypeInv, ShapeInv, AllMine, Mine
    <2>2. AtWork(m)
      BY <1>1, <2>1, IsAtWork
    <2>3. CASE Copy(m)
      <3>1. w = mv[m].dest /\ work[w] = Absent
        BY <1>1, <1>4, <2>2, <2>3 DEF Copy, AtWork
      <3>2. QED
        BY <1>2, <3>1
    <2>4. CASE Copied(m)
      <3>1. w = mv[m].dest /\ work[w].whole = FALSE
        BY <1>1, <1>4, <2>1, <2>2, <2>4 DEF Copied, CopyInv, At, AtWork
      <3>2. QED
        BY <1>2, <3>1
    <2>5. CASE Retire(m)
      <3>1. PICK left : work' = [work EXCEPT ![mv[m].from] = left]
        BY <2>5 DEF Retire
      <3>2. w = mv[m].from /\ mv[m].pc = "retire"
        BY <1>1, <1>4, <2>2, <2>5, <3>1 DEF Retire, AtWork, At
      <3>3. mv[m].copies = TRUE
        BY <1>1, <1>4, <2>2, <2>5, <3>2 DEF Retire, AtWork
      <3>4. work'[mv[m].dest] = work[mv[m].dest] /\ work[mv[m].dest] = work[w]
        BY <1>1, <2>1, <2>2, <3>1, <3>2, <3>3 DEF AtWork, CopyInv, Sealed
      <3>5. QED
        BY <2>2, <3>4 DEF AtWork
    <2>6. CASE UndoCopy(m)
      <3>1. PICK left : work' = [work EXCEPT ![mv[m].dest] = left] /\ Popped(m, left # Absent)
        BY <2>6 DEF UndoCopy
      <3>2. Armed(m, "dest")
        BY <1>1, <2>1, <2>6, <3>1, PoppedIs DEF UndoCopy, Shape, StackShape, Undos
      <3>3. w = mv[m].dest /\ mv[m].copies = TRUE
        BY <1>1, <1>4, <2>1, <2>2, <3>1, <3>2 DEF AtWork, Shape, StackShape
      <3>4. work'[mv[m].from] = work[mv[m].from] /\ work[mv[m].from] = work[w]
        BY <1>1, <1>2, <2>1, <2>2, <3>1, <3>2, <3>3 DEF AtWork, CopyInv
      <3>5. QED
        BY <2>2, <3>4 DEF AtWork
    <2>7. CASE UNCHANGED work
      BY <1>4, <2>7
    <2>8. UNCHANGED work \/ Copy(m) \/ Copied(m) \/ Retire(m) \/ UndoCopy(m)
      <3>1. CASE Drop(m)
        BY <3>1 DEF Drop
      <3>2. CASE \/ Arm(m) \/ CopyHome(m) \/ HomeCopied(m) \/ ArmRows(m) \/ Free(m) \/ Claim(m)
                 \/ ArmHome(m) \/ Seal(m) \/ DropHome(m) \/ Stop(m) \/ Fail(m) \/ UndoHome(m)
                 \/ UndoRows(m) \/ UndoDrop(m) \/ Undone(m) \/ Kill(m)
        BY <3>2 DEF store, Arm, CopyHome, HomeCopied, ArmRows, Free, Claim, ArmHome, Seal,
           DropHome, Stop, Fail, UndoHome, UndoRows, UndoDrop, Undone, Kill
      <3>3. QED
        BY <1>4, <3>1, <3>2 DEF Step
    <2>9. QED
      BY <2>3, <2>4, <2>5, <2>6, <2>7, <2>8
  <1>5. ASSUME NEW m \in Movers, Begin(m), work'[w] # work[w]
        PROVE  \E k \in Places : work'[k] = Whole(b)
    <2>1. PICK n \in Names, dest \in Places : Remap(m, n, dest)
      BY <1>5 DEF Begin, Move, Rename, store
    <2>2. /\ work[dest] = Absent /\ registry[n] \in Places /\ dest # registry[n]
          /\ work' = [work EXCEPT ![dest] = work[registry[n]], ![registry[n]] = Absent]
      BY <1>1, <1>5, <2>1 DEF Remap
    <2>3. w = registry[n] /\ work'[dest] = work[registry[n]]
      BY <1>1, <1>2, <1>5, <2>2
    <2>4. QED
      BY <2>3
  <1>6. ASSUME NEW k \in Names, Other(k) PROVE work'[w] = work[w]
    BY <1>1, <1>2, <1>6 DEF Other, Create, Rm, Register
  <1>7. UNCHANGED vars => UNCHANGED work
    BY DEF vars, store
  <1>8. QED
    BY <1>3, <1>4, <1>5, <1>6, <1>7, WhoSteps

\* No relocation, undo, tail or kill ever removes or overwrites the last whole copy of
\* any box's data or workspace (the order of execute_lifecycle and of _Unwind), for
\* any number of commands that keep to names and places of their own.
THEOREM NoBoxIsLost == ASSUME ~Overlap, ~Merges, ~RowsRace PROVE Spec => NothingLost
  <1>1. ASSUME KeepInv, KeepInv', [Next]_vars
        PROVE  \A b \in Boxes : (HasHome(b) => HasHome(b)') /\ (HasWork(b) => HasWork(b)')
    BY <1>1, HomesStay, WorksStay DEF HasHome, HasWork
  <1>2. KeepInv /\ KeepInv' /\ [Next]_vars =>
          [\A b \in Boxes : (HasHome(b) => HasHome(b)') /\ (HasWork(b) => HasWork(b)')]_vars
    BY <1>1
  <1>3. QED
    BY <1>2, KeptAlways, PTL DEF Spec, NothingLost

\* Until the tail the old row leads to the sources, and from the drop of the source's
\* row on the new one leads to whole copies of them.
LEMMA MineIsUsable ==
  ASSUME TypeOK, NEW m \in Movers, Shape(m), Mine(m), mv[m].sound = TRUE,
         mv[m].pc \in Working, ~Remaps(m), ~Between(m), ~Back(m)
  PROVE  Usable(mv[m].box)
  <1>1. AtWork(m)
    BY IsAtWork
  <1>2. work[mv[m].from] = Whole(mv[m].box)
    BY <1>1 DEF Mine, SoundInv, Files
  <1>3. CASE registry[mv[m].name] = mv[m].from /\ mv[m].pc # "retire"
    <2>1. home[mv[m].name] = Whole(mv[m].box)
      BY <1>1, <1>3 DEF Mine, SoundInv
    <2>2. mv[m].from # None /\ mv[m].name \in Names
      BY <1>1, NoneAssumption DEF AtWork
    <2>3. QED
      BY <1>2, <1>3, <2>1, <2>2 DEF Usable
  <1>4. CASE mv[m].pc \in {"drop", "seal"} \cup Sealed
    <2>1. registry[mv[m].to] = mv[m].dest /\ mv[m].dest # None /\ mv[m].to \in Names
      BY <1>1, <1>4, NoneAssumption DEF Mine, RowInv, AtWork
    <2>2. home[mv[m].to] = Whole(mv[m].box)
      <3>1. CASE mv[m].pc = "retire"
        BY <1>1, <3>1 DEF Mine, SoundInv, AtWork
      <3>2. CASE mv[m].pc \in {"drop", "seal", "tail"}
        BY <1>1, <3>2 DEF Mine, SoundInv, HomeInv, AtWork
      <3>3. QED
        BY <1>4, <3>1, <3>2 DEF Sealed
    <2>3. work[mv[m].dest] = Whole(mv[m].box)
      <3>1. CASE mv[m].copies = TRUE
        BY <1>2, <1>4, <3>1 DEF Mine, CopyInv, WithRows
      <3>2. CASE mv[m].copies = FALSE
        BY <1>2, <3>2 DEF Remaps
      <3>3. QED
        BY <1>1, <3>1, <3>2 DEF AtWork
    <2>4. QED
      BY <2>1, <2>2, <2>3 DEF Usable
  <1>5. CASE mv[m].pc \in {"arm", "copy", "copying", "rows", "free"}
    BY <1>3, <1>5 DEF Mine, RowInv
  <1>6. CASE mv[m].pc \in {"claim"} \cup Homes
    <2>1. mv[m].pc \in Homes => Renames(m)
      BY <1>1 DEF AtWork
    <2>2. ~Frees(m)
      BY <1>6, <2>1 DEF Between, At, Homes
    <2>3. registry[mv[m].name] = mv[m].from /\ mv[m].pc # "retire"
      BY <1>6, <2>1, <2>2 DEF Mine, RowInv, Homes
    <2>4. QED
      BY <1>3, <2>3
  <1>7. CASE mv[m].pc = "undo"
    <2>1. CASE registry[mv[m].name] = mv[m].from
      BY <1>3, <1>7, <2>1
    <2>2. CASE registry[mv[m].name] # mv[m].from
      <3>1. mv[m].amiss = FALSE /\ mv[m].sound = TRUE
        BY <1>1, <1>7, <2>2 DEF Back, At, AtWork
      <3>2. Armed(m, "rows") /\ registry[mv[m].name] # None
        BY <1>1, <1>7, <2>2, <3>1 DEF Back, At, Mine, RowInv, Armed, Has
      <3>3. registry[mv[m].name] = mv[m].dest /\ mv[m].dest # mv[m].from
        BY <1>1, <2>2, <3>2 DEF Mine, RowInv, AtWork
      <3>4. work[mv[m].dest] = Whole(mv[m].box)
        BY <1>1, <1>2, <3>2, <3>3 DEF Mine, CopyInv, AtWork, Remaps
      <3>5. home[mv[m].name] = Whole(mv[m].box)
        BY <1>1, <1>7, <3>1 DEF Mine, SoundInv
      <3>6. mv[m].dest # None /\ mv[m].name \in Names
        BY <1>1, NoneAssumption DEF AtWork
      <3>7. QED
        BY <3>3, <3>4, <3>5, <3>6 DEF Usable
    <2>3. QED
      BY <2>1, <2>2
  <1>8. QED
    BY <1>4, <1>5, <1>6, <1>7 DEF Working, Trying, Homes

\* At every moment of a relocation of a whole box, and of its undo, some row leads to all
\* of it, so that a kill takes no box from its user, except between the row it gives up
\* and the one it claims, until the undo has put the rows back or after an undo that went
\* amiss, and where the user moved the files before.
THEOREM AlwaysUsable ==
  ASSUME ~Overlap, ~Merges, ~RowsRace PROVE Spec => []UsableThroughout
  <1>1. ASSUME KeepInv PROVE UsableThroughout
    <2>1. TypeOK /\ \A m \in Movers : Shape(m) /\ Mine(m) /\ mv[m].sound \in BOOLEAN
      BY <1>1 DEF KeepInv, AllMine, TypeInv, ShapeInv, TypeOK, Command
    <2>2. QED
      BY <2>1, MineIsUsable DEF UsableThroughout
  <1>2. QED
    BY <1>1, KeptAlways, PTL

-----------------------------------------------------------------------------
(* Which rows may lead to less than a whole box *)

\* A new name is claimed until the restore of the rows gives it up.
Claimed(m) ==
  \/ mv[m].pc \in Homes \cup {"drop", "seal"} \cup Sealed
  \/ /\ mv[m].pc = "undo" /\ Armed(m, "rows")
     /\ registry[mv[m].to] = mv[m].dest /\ mv[m].rows[mv[m].to] # mv[m].dest

\* For good: what a kill or a failed undo left, and what was broken before.
HurtBy(j, k) ==
  \/ k = mv[j].to /\ Renames(j) /\ mv[j].pc = "killed"
  \/ k \in {mv[j].name, mv[j].to}
     /\ (mv[j].amiss = TRUE \/ (mv[j].pc \in Working /\ mv[j].sound = FALSE))

\* For a while: the new name while the data comes, a remapped row until the tail.
OpenBy(j, k) == mv[j].pc \in Working /\
  \/ k = mv[j].to /\ Renames(j) /\ Claimed(j)
  \/ k = mv[j].name /\ Remaps(j)

AllRight(k) == home[k].whole = TRUE /\ work[registry[k]] = home[k]

\* The undo of a copy finds no row that leads to the place it removes.
DestInv(m) == Armed(m, "dest") => \A k \in Names : registry[k] = mv[m].dest =>
  (\E j \in Movers : HurtBy(j, k)) \/ (k = mv[m].to /\ Claimed(m))

RowsLead == \A k \in Names : registry[k] # None =>
  AllRight(k) \/ \E j \in Movers : HurtBy(j, k) \/ OpenBy(j, k)

LeadInv == RowsLead /\ \A m \in Movers : DestInv(m)

LEMMA LeadsToBox ==
  ASSUME TypeOK, RowsLead
  PROVE  RowLeadsToBox
  <1> SUFFICES ASSUME NEW n \in Names, registry[n] # None, ~Excused(n)
               PROVE  home[n].whole /\ work[registry[n]] = home[n]
    BY DEF RowLeadsToBox
  <1>1. ASSUME NEW j \in Movers, HurtBy(j, n) \/ OpenBy(j, n)
        PROVE  FALSE
    <2>1. mv[j].amiss \in BOOLEAN /\ mv[j].sound \in BOOLEAN
      BY DEF TypeOK, Command
    <2>2. Excused(n)
      BY <1>1, <2>1 DEF HurtBy, OpenBy, Excused
    <2>3. QED
      BY <2>2
  <1>2. AllRight(n)
    BY <1>1 DEF RowsLead
  <1>3. QED
    BY <1>2 DEF AllRight

\* What is hurt stays so, and what a command leaves open goes on when it is not its step.
LEMMA StillHurt ==
  ASSUME NEW j, mv'[j] = mv[j], NEW k
  PROVE  HurtBy(j, k)' <=> HurtBy(j, k)
  <1>1. Renames(j)' <=> Renames(j)
    BY DEF Renames
  <1>2. QED
    BY <1>1 DEF HurtBy

LEMMA StillOpen ==
  ASSUME TypeOK, NEW j \in Movers, Shape(j), Stays(j), NEW k, OpenBy(j, k)
  PROVE  OpenBy(j, k)' /\ (Claimed(j) => Claimed(j)')
  <1>1. mv'[j] = mv[j]
    BY DEF Stays
  <1>2. (Renames(j)' <=> Renames(j)) /\ (Remaps(j)' <=> Remaps(j)) /\ (Armed(j, "rows")' <=> Armed(j, "rows"))
    BY <1>1 DEF Renames, Remaps, Armed
  <1>3. Armed(j, "rows") => registry'[mv[j].to] = registry[mv[j].to]
    <2>1. Armed(j, "rows") => mv[j].to \in HoldsN(j)
      BY Holdings
    <2>2. QED
      BY <2>1 DEF Stays
  <1>4. Claimed(j) => Claimed(j)'
    BY <1>1, <1>2, <1>3 DEF Claimed
  <1>5. QED
    BY <1>1, <1>2, <1>4 DEF OpenBy

\* A command that has failed to undo or to drop something does not forget it.
LEMMA StepGoesOn ==
  ASSUME TypeOK, NEW m \in Movers, Shape(m), Step(m)
  PROVE  \/ Retire(m) \/ Stop(m) \/ Undone(m) \/ Kill(m)
         \/ /\ Same(m) /\ mv'[m].pc \in Working
            /\ mv[m].amiss = TRUE => mv'[m].amiss = TRUE
  <1> DEFINE On == /\ Same(m) /\ mv'[m].pc \in Working
                   /\ mv[m].amiss = TRUE => mv'[m].amiss = TRUE
  <1>1. ASSUME NEW q \in Working, Goto(m, q) PROVE On
    BY <1>1, GotoIs
  <1>2. ASSUME NEW u \in Undos, NEW f \in BOOLEAN, Undoes(m, u), Popped(m, f) PROVE On
    <2>1. /\ Same(m) /\ mv'[m].pc = "undo" /\ mv'[m].amiss = (mv[m].amiss \/ f)
      BY <1>2, PoppedIs DEF Shape, StackShape
    <2>2. mv[m].amiss = TRUE => mv'[m].amiss = TRUE
      BY <2>1
    <2>3. QED
      BY <2>1, <2>2, PCs
  <1>3. /\ "copy" \in Working /\ "copying" \in Working /\ "rows" \in Working /\ "claim" \in Working
        /\ "home" \in Working /\ "homecopy" \in Working /\ "homecopying" \in Working
        /\ "drop" \in Working /\ "retire" \in Working /\ "undo" \in Working
        /\ "free" \in Working /\ "seal" \in Working /\ "tail" \in Working
    BY DEF Working, Trying, Sealed
  <1>4. ASSUME NEW u \in Undos, NEW q \in Working, Push(m, u, q),
               \/ At(m, "arm") /\ mv[m].copies = TRUE /\ u = "dest" /\ q = "copy"
               \/ At(m, "home") /\ u = "home" /\ q = "homecopy"
        PROVE  On
    <2>1. Same(m)
      BY <1>4, PushShape
    <2>2. mv'[m].pc = q /\ mv'[m].amiss = mv[m].amiss
      BY <1>4 DEF Push, TypeOK, Command
    <2>3. QED
      BY <2>1, <2>2
  <1>5. CASE ArmRows(m) \/ Drop(m) \/ Seal(m)
    <2>1. CASE ArmRows(m)
      <3>1. Same(m) /\ mv'[m].pc = "free" /\ mv[m].pc = "rows"
        BY <2>1, ArmRowsIs
      <3>2. mv[m].amiss # TRUE
        BY <3>1 DEF Shape, WhoShape, Sealed, Ended
      <3>3. QED
        BY <1>3, <3>1, <3>2
    <2>2. CASE Drop(m)
      BY <1>3, <2>2, DropIs
    <2>3. CASE Seal(m)
      BY <1>3, <2>3, SealIs
    <2>4. QED
      BY <1>5, <2>1, <2>2, <2>3
  <1>6. CASE Arm(m)
    <2>1. At(m, "arm") /\ mv[m].copies \in BOOLEAN /\ "dest" \in Undos
      BY <1>6 DEF Arm, Yes, TypeOK, Command, Undos
    <2>2. \/ mv[m].copies = TRUE /\ Push(m, "dest", "copy")
          \/ Goto(m, "copy") \/ Goto(m, "rows")
      BY <1>6, <2>1 DEF Arm
    <2>3. CASE mv[m].copies = TRUE /\ Push(m, "dest", "copy")
      BY <1>3, <1>4, <2>1, <2>3
    <2>4. QED
      BY <1>1, <1>3, <2>2, <2>3
  <1>7. CASE ArmHome(m)
    <2>1. At(m, "home") /\ "home" \in Undos /\ (Push(m, "home", "homecopy") \/ Goto(m, "homecopy"))
      BY <1>7 DEF ArmHome, Undos
    <2>2. CASE Push(m, "home", "homecopy")
      BY <1>3, <1>4, <2>1, <2>2
    <2>3. QED
      BY <1>1, <1>3, <2>1, <2>2
  <1>8. CASE \/ Copy(m) \/ Copied(m) \/ Free(m) \/ Claim(m) \/ CopyHome(m)
             \/ HomeCopied(m) \/ DropHome(m) \/ Fail(m)
    <2>1. \E q \in {"copying", "rows", "claim", "home", "drop", "homecopying", "retire", "undo"} :
            Goto(m, q)
      BY <1>8 DEF Copy, Copied, Free, Claim, CopyHome, HomeCopied, DropHome, Fail
    <2>2. QED
      BY <1>1, <1>3, <2>1
  <1>9. CASE UndoCopy(m) \/ UndoRows(m) \/ UndoHome(m) \/ UndoDrop(m)
    <2>1. \E u \in Undos, f \in BOOLEAN : Undoes(m, u) /\ Popped(m, f)
      <3>1. CASE UndoRows(m)
        BY <3>1 DEF UndoRows, Undos
      <3>2. CASE UndoDrop(m)
        BY <3>2 DEF UndoDrop, Undos
      <3>3. CASE UndoCopy(m)
        BY <3>3 DEF UndoCopy, Undos
      <3>4. CASE UndoHome(m)
        BY <3>4 DEF UndoHome, Undos
      <3>5. QED
        BY <1>9, <3>1, <3>2, <3>3, <3>4
    <2>2. QED
      BY <1>2, <2>1
  <1>10. QED
    BY <1>5, <1>6, <1>7, <1>8, <1>9 DEF Step

LEMMA StepHurt ==
  ASSUME TypeOK, NEW m \in Movers, Shape(m), Step(m), NEW k, HurtBy(m, k)
  PROVE  HurtBy(m, k)'
  <1>1. mv[m].pc \in Working /\ mv[m].pc # "killed"
    BY StepGoes, PCs
  <1>2. k \in {mv[m].name, mv[m].to} /\ (mv[m].amiss = TRUE \/ mv[m].sound = FALSE)
    BY <1>1 DEF HurtBy
  <1>3. CASE Retire(m) \/ Stop(m) \/ Undone(m) \/ Kill(m)
    <2>1. PICK q \in {"done", "undone", "killed"} : Ends(m, q)
      BY <1>3 DEF Retire, Stop, Undone, Kill
    <2>2. mv'[m].name = mv[m].name /\ mv'[m].to = mv[m].to /\ mv'[m].amiss = TRUE
      BY <1>2, <2>1, EndsIs DEF Hurt, Ended
    <2>3. QED
      BY <1>2, <2>2 DEF HurtBy
  <1>4. CASE /\ Same(m) /\ mv'[m].pc \in Working
             /\ mv[m].amiss = TRUE => mv'[m].amiss = TRUE
    BY <1>2, <1>4 DEF HurtBy, Same
  <1>5. QED
    BY <1>3, <1>4, StepGoesOn

\* What a row may be after a step: right, or as the command leaves it.
Fine(m, k) == AllRight(k) \/ HurtBy(m, k) \/ OpenBy(m, k)

Owned == Homes \cup {"drop", "seal"} \cup Sealed

\* A claim holds until the rows are restored, which gives the new name up.
LEMMA ClaimHolds ==
  ASSUME TypeInv, Calm, NEW m \in Movers, Mine(m), Claimed(m), Step(m), mv'[m].pc \in Working
  PROVE  \/ Claimed(m)' \/ mv'[m].amiss = TRUE
         \/ registry'[mv[m].to] # mv[m].dest /\ (Renames(m) => registry'[mv[m].to] = None)
  <1>1. TypeOK /\ OneRowPerPlace /\ Shape(m) /\ mv[m].pc \in Working
    BY StepGoes DEF TypeInv, ShapeInv
  <1>2. AtWork(m) /\ UndoInv(m) /\ RowInv(m)
    BY <1>1, IsAtWork DEF Mine
  <1>3. mv[m].pc \in Owned \/ mv[m].pc = "undo"
    BY DEF Claimed, Owned
  <1>4. CASE mv'[m].pc \in Owned
    BY <1>4 DEF Claimed, Owned
  <1>5. CASE Fail(m)
    <2>1. /\ mv[m].pc \in Trying /\ Known(m) /\ mv'[m].pc = "undo" /\ UNCHANGED store
          /\ \A u : Armed(m, u)' <=> Armed(m, u)
      BY <1>1, <1>5, KnownGoto, PCs DEF Fail
    <2>2. mv[m].pc \in Homes \cup {"drop", "seal"}
      BY <1>3, <2>1 DEF Owned, Trying, Sealed
    <2>3. registry[mv[m].to] = mv[m].dest /\ Armed(m, "rows")
      BY <1>1, <1>2, <2>2 DEF RowInv, Shape, StackShape, WithRows
    <2>4. mv[m].rows[mv[m].to] # mv[m].dest
      <3>1. CASE Renames(m)
        BY <1>2, <2>2, <3>1, NoneAssumption DEF UndoInv, AtWork
      <3>2. CASE ~Renames(m)
        BY <1>2, <2>3, <3>2 DEF UndoInv, AtWork, Renames
      <3>3. QED
        BY <3>1, <3>2
    <2>5. QED
      BY <2>1, <2>3, <2>4 DEF Claimed, Known, Same, store
  <1>6. ASSUME NEW u \in Undos, NEW f \in BOOLEAN, Undoes(m, u), Popped(m, f),
               u # "rows", UNCHANGED registry
        PROVE  Claimed(m)'
    <2>1. /\ Same(m) /\ mv[m].pc = "undo" /\ mv'[m].pc = "undo" /\ mv'[m].rows = mv[m].rows
          /\ Armed(m, "rows")' <=> Armed(m, "rows")
      BY <1>1, <1>6, PoppedIs DEF Shape, StackShape
    <2>2. mv[m].pc \notin Owned
      BY <2>1 DEF Owned, Homes, Sealed
    <2>3. QED
      BY <1>6, <2>1, <2>2 DEF Claimed, Same, Owned
  <1>7. CASE UndoCopy(m) \/ UndoHome(m)
    <2>1. UNCHANGED registry /\ \E u \in Undos, f \in BOOLEAN : u # "rows" /\ Undoes(m, u) /\ Popped(m, f)
      <3>1. CASE UndoCopy(m)
        BY <3>1 DEF UndoCopy, Undos
      <3>2. CASE UndoHome(m)
        BY <3>2 DEF UndoHome, Undos
      <3>3. QED
        BY <1>7, <3>1, <3>2
    <2>2. QED
      BY <1>6, <2>1
  <1>8. CASE UndoDrop(m)
    <2>1. PICK f \in BOOLEAN : Undoes(m, "source") /\ Popped(m, f)
      BY <1>8 DEF UndoDrop
    <2>2. /\ mv[m].pc = "undo" /\ ~Armed(m, "rows")' /\ (Armed(m, "rows") => Armed(m, "rows")')
      BY <1>1, <2>1, PoppedIs DEF Shape, StackShape, Undos, Below
    <2>3. QED
      BY <2>2 DEF Claimed, Homes, Sealed
  <1>9. CASE UndoRows(m)
    <2>1. PICK f \in BOOLEAN : Popped(m, f) /\ (f = FALSE => registry' = mv[m].rows)
      BY <1>1, <1>9, RowsPutBack
    <2>2. mv[m].pc = "undo" /\ Armed(m, "rows") /\ mv'[m].amiss = (mv[m].amiss \/ f)
      BY <1>1, <1>9, <2>1, PoppedIs DEF UndoRows, Undos, Shape, StackShape
    <2>3. registry[mv[m].to] = mv[m].dest /\ mv[m].rows[mv[m].to] # mv[m].dest
      BY <2>2 DEF Claimed, Homes, Sealed
    <2>4. Renames(m) => mv[m].rows[mv[m].to] = None
      BY <1>2, <2>2, <2>3 DEF UndoInv
    <2>5. f = TRUE => mv'[m].amiss = TRUE
      BY <2>2
    <2>6. QED
      BY <2>1, <2>3, <2>4, <2>5
  <1>10. CASE Retire(m) \/ Stop(m) \/ Undone(m) \/ Kill(m)
    <2>1. PICK q \in {"done", "undone", "killed"} : Ends(m, q)
      BY <1>10 DEF Retire, Stop, Undone, Kill
    <2>2. mv'[m].pc \in Ended
      BY <1>1, <2>1, EndsIs DEF Ended
    <2>3. QED
      BY <2>2, PCs
  <1>11. CASE Arm(m) \/ Copy(m) \/ Copied(m) \/ ArmRows(m) \/ Free(m) \/ Claim(m)
    <2>1. mv[m].pc \in {"arm", "copy", "copying", "rows", "free", "claim"}
      BY <1>11 DEF Arm, Yes, Copy, Copied, ArmRows, Free, Claim, At
    <2>2. QED
      BY <1>3, <2>1 DEF Owned, Homes, Sealed
  <1>12. CASE ArmHome(m) \/ CopyHome(m) \/ HomeCopied(m) \/ Drop(m) \/ Seal(m) \/ DropHome(m)
    <2>1. mv'[m].pc \in {"homecopy", "homecopying", "drop", "seal", "tail", "retire"}
      <3>1. CASE Drop(m) \/ Seal(m)
        BY <1>1, <3>1, DropIs, SealIs
      <3>2. mv \in [Movers -> Command]
        BY <1>1 DEF TypeOK
      <3>3. CASE ArmHome(m)
        BY <3>2, <3>3 DEF ArmHome, Push, Goto, Command
      <3>4. CASE CopyHome(m) \/ HomeCopied(m) \/ DropHome(m)
        BY <3>2, <3>4 DEF CopyHome, HomeCopied, DropHome, Goto, Command
      <3>5. QED
        BY <1>12, <3>1, <3>3, <3>4
    <2>2. QED
      BY <1>4, <2>1 DEF Owned, Homes, Sealed
  <1>13. QED
    BY <1>5, <1>7, <1>8, <1>9, <1>10, <1>11, <1>12 DEF Step

\* A box that was whole and is in its new place.
LEMMA DoneIsRight ==
  ASSUME TypeOK, NEW m \in Movers, Shape(m), Mine(m), mv[m].pc \in Sealed, mv[m].sound = TRUE
  PROVE  /\ AllRight(mv[m].to) /\ registry[mv[m].to] = mv[m].dest
         /\ home[mv[m].to] = Whole(mv[m].box) /\ work[mv[m].dest] = Whole(mv[m].box)
  <1>1. AtWork(m)
    BY IsAtWork, PCs
  <1>2. registry[mv[m].to] = mv[m].dest
    BY <1>1 DEF Mine, RowInv
  <1>3. home[mv[m].to] = Whole(mv[m].box)
    <2>1. CASE mv[m].pc = "retire"
      BY <1>1, <2>1 DEF Mine, SoundInv, AtWork
    <2>2. CASE mv[m].pc = "tail"
      BY <1>1, <2>2 DEF Mine, SoundInv, HomeInv, AtWork
    <2>3. QED
      BY <2>1, <2>2 DEF Sealed
  <1>4. work[mv[m].dest] = Whole(mv[m].box)
    <2>1. work[Files(m)] = Whole(mv[m].box)
      BY <1>1 DEF Mine, SoundInv, AtWork
    <2>2. CASE mv[m].copies = TRUE
      BY <1>1, <2>1, <2>2 DEF Mine, CopyInv, AtWork
    <2>3. CASE mv[m].copies = FALSE
      BY <2>1, <2>3 DEF Files, Remaps
    <2>4. QED
      BY <1>1, <2>2, <2>3 DEF AtWork
  <1>5. QED
    BY <1>1, <1>2, <1>3, <1>4, Trees DEF AllRight, AtWork

\* A row that the command leaves open is right when it is done, gone when it is undone,
\* and hurt when it is killed or could not undo.
LEMMA OpenRowCloses ==
  ASSUME TypeInv, Calm, NEW m \in Movers, Mine(m), NEW k \in Names, OpenBy(m, k), Step(m),
         registry'[k] # None
  PROVE  Fine(m, k)'
  <1>1. TypeOK /\ OneRowPerPlace /\ Shape(m) /\ mv[m].pc \in Working
    BY StepGoes DEF TypeInv, ShapeInv
  <1>2. AtWork(m)
    BY <1>1, IsAtWork
  <1>3. CASE /\ Same(m) /\ mv'[m].pc \in Working
    <2>1. (Renames(m)' <=> Renames(m)) /\ (Remaps(m)' <=> Remaps(m))
      BY <1>3 DEF Same, Renames, Remaps
    <2>2. CASE k = mv[m].name /\ Remaps(m)
      BY <1>3, <2>1, <2>2 DEF Fine, OpenBy, Same
    <2>3. CASE k = mv[m].to /\ Renames(m) /\ Claimed(m)
      <3>1. Claimed(m)' \/ mv'[m].amiss = TRUE
        BY <1>3, <2>3, ClaimHolds
      <3>2. QED
        BY <1>3, <2>1, <2>3, <3>1 DEF Fine, OpenBy, HurtBy, Same
    <2>4. QED
      BY <2>2, <2>3 DEF OpenBy
  <1>4. ASSUME NEW q \in {"done", "undone", "killed"}, Ends(m, q), Hurt(m, q)
        PROVE  Fine(m, k)'
    <2>1. /\ mv'[m].name = mv[m].name /\ mv'[m].to = mv[m].to /\ mv'[m].pc = q
          /\ mv[m].amiss = TRUE \/ mv[m].sound = FALSE \/ (q # "done" /\ Remaps(m)) =>
               mv'[m].amiss = TRUE
      BY <1>1, <1>4, EndsIs DEF Ended
    <2>2. k \in {mv[m].name, mv[m].to}
      BY DEF OpenBy
    <2>3. CASE mv'[m].amiss = TRUE
      BY <2>1, <2>2, <2>3 DEF Fine, HurtBy
    <2>4. CASE q = "killed" /\ Renames(m) /\ ~Remaps(m)
      <3>1. Renames(m)' /\ k = mv[m].to
        BY <2>1, <2>4 DEF Renames, OpenBy
      <3>2. QED
        BY <2>1, <2>4, <3>1 DEF Fine, HurtBy
    <2>5. QED
      BY <1>4, <2>1, <2>3, <2>4 DEF Hurt
  <1>5. CASE Undone(m) /\ ~Hurt(m, "undone")
    <2>1. mv[m].pc = "undo" /\ mv[m].stack = <<>> /\ ~Remaps(m)
      BY <1>5 DEF Undone, At, Hurt
    <2>2. ~Claimed(m)
      BY <2>1, EmptyStack DEF Claimed, Armed, Homes, Sealed
    <2>3. QED
      BY <2>1, <2>2 DEF OpenBy
  <1>6. CASE Kill(m) /\ ~Hurt(m, "killed")
    BY <1>6 DEF Hurt, OpenBy
  <1>7. CASE (Retire(m) \/ Stop(m)) /\ ~Hurt(m, "done")
    <2>1. mv[m].pc \in Sealed /\ mv[m].sound = TRUE
      BY <1>2, <1>7 DEF Hurt, Retire, Stop, At, Sealed, AtWork
    <2>2. AllRight(mv[m].to) /\ registry[mv[m].to] = mv[m].dest
      BY <1>1, <2>1, DoneIsRight
    <2>3. k = mv[m].to
      BY <1>2 DEF OpenBy, AtWork, Renames, Remaps
    <2>4. work'[mv[m].dest] = work[mv[m].dest] /\ UNCHANGED <<registry, home>>
      <3>1. CASE Stop(m)
        BY <3>1 DEF Stop, store
      <3>2. CASE Retire(m)
        <4>1. PICK left : /\ work' = [work EXCEPT ![mv[m].from] = left]
                          /\ mv[m].copies = FALSE => left = work[mv[m].from]
          BY <3>2 DEF Retire
        <4>2. work'[mv[m].dest] = work[mv[m].dest]
          BY <1>1, <1>2, <4>1 DEF TypeOK, AtWork
        <4>3. QED
          BY <3>2, <4>2 DEF Retire
      <3>3. QED
        BY <1>7, <3>1, <3>2
    <2>5. QED
      BY <2>2, <2>3, <2>4 DEF AllRight, Fine
  <1>8. QED
    BY <1>1, <1>3, <1>4, <1>5, <1>6, <1>7, StepGoesOn DEF Retire, Stop, Undone, Kill

\* A row that the command writes leads to the whole box, unless it is left open or hurt.
LEMMA NewRowIsFine ==
  ASSUME TypeInv, Calm, NEW m \in Movers, Mine(m), NEW k \in Names, Step(m),
         registry'[k] # registry[k], registry'[k] # None
  PROVE  Fine(m, k)'
  <1>1. TypeOK /\ OneRowPerPlace /\ Shape(m) /\ mv[m].pc \in Working
    BY StepGoes DEF TypeInv, ShapeInv
  <1>2. AtWork(m) /\ registry \in [Names -> Places \cup {None}]
    BY <1>1, IsAtWork DEF TypeOK
  <1>3. ASSUME k = mv[m].name, Same(m), mv'[m].pc \in Working, UNCHANGED <<home, work>>,
               registry'[k] = mv[m].from \/ (mv[m].copies = TRUE /\ work[registry'[k]] = work[mv[m].from]),
               mv[m].pc # "retire"
        PROVE  Fine(m, k)'
    <2>1. Remaps(m)' <=> Remaps(m)
      BY <1>3 DEF Same, Remaps
    <2>2. CASE mv[m].sound = FALSE
      BY <1>3, <2>2 DEF Fine, HurtBy, Same
    <2>3. CASE Remaps(m)
      BY <1>3, <2>1, <2>3 DEF Fine, OpenBy, Same
    <2>4. CASE mv[m].sound = TRUE /\ ~Remaps(m)
      <3>1. home[k] = Whole(mv[m].box) /\ work[mv[m].from] = Whole(mv[m].box)
        BY <1>2, <1>3, <2>4 DEF Mine, SoundInv, AtWork, Files
      <3>2. work[registry'[k]] = work[mv[m].from]
        BY <1>3
      <3>3. home'[k] = home[k] /\ work'[registry'[k]] = work[registry'[k]]
        BY <1>3
      <3>4. home'[k].whole = TRUE /\ work'[registry'[k]] = home'[k]
        BY <1>2, <3>1, <3>2, <3>3, Trees DEF AtWork
      <3>5. QED
        BY <3>4 DEF Fine, AllRight
    <2>5. QED
      BY <1>2, <2>2, <2>3, <2>4 DEF AtWork
  <1>4. CASE Claim(m)
    <2>1. /\ mv[m].pc = "claim" /\ Known(m) /\ UNCHANGED <<home, work>>
          /\ mv'[m].pc \in {"home", "drop"}
      <3>1. Goto(m, IF Renames(m) THEN "home" ELSE "drop") /\ "home" \in Working /\ "drop" \in Working
        BY <1>4 DEF Claim, Working, Trying
      <3>2. QED
        BY <1>1, <1>4, <3>1, KnownGoto DEF Claim, At
    <2>2. registry' = [registry EXCEPT ![mv[m].to] = mv[m].dest]
      BY <1>4 DEF Claim
    <2>3. k = mv[m].to /\ registry'[k] = mv[m].dest
      BY <1>2, <2>2
    <2>4. mv'[m].pc \in Working /\ mv'[m].pc \in Owned
      BY <2>1 DEF Working, Trying, Owned, Homes
    <2>5. CASE Renames(m)
      BY <2>1, <2>3, <2>4, <2>5 DEF Fine, OpenBy, Claimed, Owned, Known, Same
    <2>6. CASE ~Renames(m) /\ mv[m].copies = TRUE
      <3>1. work[mv[m].dest] = work[mv[m].from]
        BY <2>1, <2>6 DEF Mine, CopyInv, WithRows
      <3>2. k = mv[m].name /\ mv[m].pc # "retire" /\ Same(m)
        BY <2>1, <2>3, <2>6 DEF Renames, Known
      <3>3. QED
        BY <1>3, <2>1, <2>3, <2>4, <2>6, <3>1, <3>2
    <2>7. CASE ~Renames(m) /\ mv[m].copies = FALSE
      <3>1. Remaps(m) /\ k = mv[m].name
        BY <1>2, <2>3, <2>7 DEF AtWork, Remaps, Renames
      <3>2. QED
        BY <2>1, <2>4, <3>1 DEF Fine, OpenBy, Known, Same
    <2>8. QED
      BY <1>2, <2>5, <2>6, <2>7 DEF AtWork
  <1>5. CASE UndoRows(m)
    <2>1. /\ \A n \in Names \ {mv[m].name, mv[m].to} : registry'[n] = registry[n]
          /\ registry'[mv[m].name] \in {registry[mv[m].name], mv[m].from}
          /\ mv[m].pc = "undo" /\ Armed(m, "rows") /\ UNCHANGED <<home, work>>
          /\ \A n \in Names : registry'[n] \in {registry[n], mv[m].rows[n]}
      BY <1>1, <1>5, RestoresOwn, RowsPutBack DEF Mine
    <2>2. k = mv[m].name
      <3>1. CASE Renames(m)
        <4>1. mv[m].rows[mv[m].to] \in {registry[mv[m].to], None}
          BY <2>1, <3>1 DEF Mine, UndoInv
        <4>2. registry'[mv[m].to] \in {registry[mv[m].to], None}
          BY <1>2, <2>1, <4>1 DEF AtWork
        <4>3. QED
          BY <2>1, <4>2
      <3>2. CASE ~Renames(m)
        BY <2>1, <3>2 DEF Renames
      <3>3. QED
        BY <3>1, <3>2
    <2>3. Same(m) /\ mv'[m].pc \in Working
      BY <1>1, <1>5, <2>1, RowsPutBack, PoppedIs, PCs DEF UndoRows, Undos, Shape, StackShape
    <2>4. registry'[k] = mv[m].from
      BY <2>1, <2>2
    <2>5. QED
      BY <1>3, <2>1, <2>2, <2>3, <2>4
  <1>6. CASE UndoDrop(m)
    <2>1. registry' = [registry EXCEPT ![mv[m].name] = mv[m].from] /\ UNCHANGED <<home, work>>
      BY <1>6 DEF UndoDrop
    <2>2. PICK f \in BOOLEAN : Undoes(m, "source") /\ Popped(m, f)
      BY <1>6 DEF UndoDrop
    <2>3. Same(m) /\ mv'[m].pc \in Working /\ mv[m].pc = "undo"
      BY <1>1, <2>2, PoppedIs, PCs DEF Undos, Shape, StackShape
    <2>4. k = mv[m].name /\ registry'[k] = mv[m].from
      BY <1>2, <2>1
    <2>5. QED
      BY <1>3, <2>1, <2>3, <2>4
  <1>7. CASE Free(m)
    <2>1. registry' = registry \/ registry' = [registry EXCEPT ![mv[m].name] = None]
      BY <1>7 DEF Free
    <2>2. QED
      BY <1>2, <2>1
  <1>8. CASE Drop(m)
    <2>1. registry' = registry \/ registry' = [registry EXCEPT ![mv[m].name] = None]
      BY <1>1, <1>8, DropIs
    <2>2. QED
      BY <1>2, <2>1
  <1>9. CASE \/ Arm(m) \/ Copy(m) \/ Copied(m) \/ ArmRows(m) \/ ArmHome(m) \/ CopyHome(m)
             \/ HomeCopied(m) \/ Seal(m) \/ DropHome(m) \/ Retire(m) \/ Stop(m) \/ Fail(m)
             \/ UndoCopy(m) \/ UndoHome(m) \/ Undone(m) \/ Kill(m)
    <2>1. UNCHANGED registry
      BY <1>9 DEF store, Arm, Copy, Copied, ArmRows, ArmHome, CopyHome, HomeCopied, Seal,
         DropHome, Retire, Stop, Fail, UndoCopy, UndoHome, Undone, Kill
    <2>2. QED
      BY <2>1
  <1>10. QED
    BY <1>4, <1>5, <1>6, <1>7, <1>8, <1>9 DEF Step

\* A right row that is neither hurt nor open stays right: nothing it leads to is written.
LEMMA RightRowStays ==
  ASSUME TypeInv, Calm, NEW m \in Movers, Mine(m), DestInv(m), NEW k \in Names, Step(m),
         registry'[k] = registry[k], registry[k] # None, AllRight(k),
         \A j \in Movers : ~HurtBy(j, k), ~OpenBy(m, k)
  PROVE  Fine(m, k)'
  <1>1. TypeOK /\ OneRowPerPlace /\ Shape(m) /\ mv[m].pc \in Working
    BY StepGoes DEF TypeInv, ShapeInv
  <1>2. /\ AtWork(m) /\ registry[k] \in Places
        /\ home \in [Names -> Tree] /\ work \in [Places -> Tree]
    BY <1>1, IsAtWork DEF TypeOK
  <1>3. work[registry[k]] # Absent /\ work[registry[k]].whole = TRUE
    BY <1>2, Trees DEF AllRight
  <1>4. ASSUME home'[k] = home[k], work'[registry[k]] = work[registry[k]]
        PROVE  Fine(m, k)'
    <2>1. home'[k].whole = TRUE /\ work'[registry'[k]] = home'[k]
      BY <1>4 DEF AllRight
    <2>2. QED
      BY <2>1 DEF Fine, AllRight
  <1>5. ~(k = mv[m].to /\ Renames(m) /\ Claimed(m)) /\ ~HurtBy(m, k)
    BY <1>1 DEF OpenBy
  <1>6. ASSUME NEW t, home' = [home EXCEPT ![mv[m].to] = t], UNCHANGED work, Renames(m), Claimed(m)
        PROVE  Fine(m, k)'
    <2>1. home'[k] = home[k]
      BY <1>2, <1>5, <1>6
    <2>2. QED
      BY <1>4, <1>6, <2>1
  <1>7. CASE CopyHome(m) \/ HomeCopied(m)
    <2>1. mv[m].pc \in {"homecopy", "homecopying"} /\ UNCHANGED work
          /\ \E t : home' = [home EXCEPT ![mv[m].to] = t]
      BY <1>7 DEF CopyHome, HomeCopied, At
    <2>2. Renames(m) /\ Claimed(m)
      BY <1>2, <2>1 DEF AtWork, Claimed, Homes
    <2>3. QED
      BY <1>6, <2>1, <2>2
  <1>8. CASE UndoHome(m)
    <2>1. PICK left : home' = [home EXCEPT ![mv[m].to] = left] /\ Popped(m, left # Absent)
      BY <1>8 DEF UndoHome
    <2>2. mv[m].pc = "undo" /\ Armed(m, "home") /\ UNCHANGED work
      BY <1>1, <1>8, <2>1, PoppedIs DEF UndoHome, Undos, Shape, StackShape
    <2>3. Renames(m) /\ Armed(m, "rows")
      BY <1>1, <2>2 DEF Shape, StackShape
    <2>4. registry[mv[m].to] = mv[m].dest /\ mv[m].rows[mv[m].to] # mv[m].dest
      BY <1>2, <2>2, NoneAssumption DEF Mine, UndoInv, AtWork
    <2>5. Claimed(m)
      BY <2>2, <2>3, <2>4 DEF Claimed
    <2>6. QED
      BY <1>6, <2>1, <2>2, <2>3, <2>5
  <1>9. CASE DropHome(m)
    <2>1. PICK left : /\ home' = [home EXCEPT ![mv[m].name] = left]
                      /\ ~Renames(m) => left = home[mv[m].name]
      BY <1>9 DEF DropHome
    <2>2. mv[m].pc = "tail" /\ UNCHANGED work
      BY <1>9 DEF DropHome, At
    <2>3. CASE k = mv[m].name /\ Renames(m)
      <3>1. mv[m].amiss = FALSE
        BY <1>2, <1>5, <2>3 DEF HurtBy, AtWork
      <3>2. registry[mv[m].name] = None
        BY <2>2, <2>3, <3>1 DEF Mine, RowInv, Sealed
      <3>3. QED
        BY <2>3, <3>2
    <2>4. CASE ~(k = mv[m].name /\ Renames(m))
      <3>1. home'[k] = home[k]
        BY <1>2, <2>1, <2>4 DEF AtWork
      <3>2. QED
        BY <1>4, <2>2, <3>1
    <2>5. QED
      BY <2>3, <2>4
  <1>10. CASE Copy(m)
    <2>1. registry[k] # mv[m].dest
      BY <1>3, <1>10 DEF Copy
    <2>2. work'[registry[k]] = work[registry[k]] /\ UNCHANGED home
      BY <1>2, <1>10, <2>1 DEF Copy
    <2>3. QED
      BY <1>4, <2>2
  <1>11. CASE Copied(m)
    <2>1. registry[k] # mv[m].dest
      BY <1>3, <1>11 DEF Copied, At, Mine, CopyInv
    <2>2. work'[registry[k]] = work[registry[k]] /\ UNCHANGED home
      BY <1>2, <1>11, <2>1 DEF Copied
    <2>3. QED
      BY <1>4, <2>2
  <1>12. CASE UndoCopy(m)
    <2>1. PICK left : work' = [work EXCEPT ![mv[m].dest] = left] /\ Popped(m, left # Absent)
      BY <1>12 DEF UndoCopy
    <2>2. /\ mv[m].pc = "undo" /\ Armed(m, "dest") /\ UNCHANGED home
          /\ Armed(m, "rows") => Armed(m, "rows")'
          /\ ~Armed(m, "rows")'
      <3>1. /\ Undoes(m, "dest") /\ "dest" \in Undos /\ UNCHANGED home /\ Ordered(mv[m].stack)
            /\ (left # Absent) \in BOOLEAN
        BY <1>1, <1>12 DEF UndoCopy, Undos, Shape, StackShape
      <3>2. /\ mv[m].pc = "undo" /\ Armed(m, "dest")
            /\ \A v : Armed(m, v)' <=> Armed(m, v) /\ v # "dest"
            /\ \A v : Armed(m, v)' => v \in Below("dest")
        BY <1>1, <2>1, <3>1, PoppedIs
      <3>3. "rows" \notin Below("dest")
        BY DEF Below
      <3>4. QED
        BY <3>1, <3>2, <3>3
    <2>3. ~Claimed(m)
      BY <2>2 DEF Claimed, Homes, Sealed
    <2>4. registry[k] # mv[m].dest
      BY <2>2, <2>3 DEF DestInv
    <2>5. work'[registry[k]] = work[registry[k]]
      BY <1>2, <2>1, <2>4
    <2>6. QED
      BY <1>4, <2>2, <2>5
  <1>13. CASE Retire(m)
    <2>1. PICK left : /\ work' = [work EXCEPT ![mv[m].from] = left]
                      /\ mv[m].copies = FALSE => left = work[mv[m].from]
      BY <1>13 DEF Retire
    <2>2. mv[m].pc = "retire" /\ UNCHANGED home
      BY <1>13 DEF Retire, At
    <2>3. CASE registry[k] = mv[m].from /\ mv[m].copies = TRUE
      <3>1. k = mv[m].name /\ mv[m].dest # mv[m].from
        BY <1>2, <2>3 DEF Mine, FromInv, AtWork
      <3>2. registry[mv[m].to] = mv[m].dest
        BY <2>2 DEF Mine, RowInv, Sealed
      <3>3. Renames(m)
        BY <2>3, <3>1, <3>2 DEF Renames
      <3>4. mv[m].amiss = FALSE
        BY <1>2, <1>5, <3>1 DEF HurtBy, AtWork
      <3>5. registry[mv[m].name] = None
        BY <2>2, <3>3, <3>4 DEF Mine, RowInv, Sealed
      <3>6. QED
        BY <3>1, <3>5
    <2>4. CASE registry[k] # mv[m].from \/ mv[m].copies = FALSE
      <3>1. work'[registry[k]] = work[registry[k]]
        BY <1>2, <2>1, <2>4 DEF AtWork
      <3>2. QED
        BY <1>4, <2>2, <3>1
    <2>5. QED
      BY <1>2, <2>3, <2>4 DEF AtWork
  <1>14. CASE \/ Arm(m) \/ ArmRows(m) \/ Free(m) \/ Claim(m) \/ ArmHome(m) \/ Drop(m) \/ Seal(m)
              \/ Stop(m) \/ Fail(m) \/ UndoRows(m) \/ UndoDrop(m) \/ Undone(m) \/ Kill(m)
    <2>1. UNCHANGED <<home, work>>
      <3>1. CASE Drop(m)
        BY <3>1 DEF Drop
      <3>2. CASE \/ Arm(m) \/ ArmRows(m) \/ Free(m) \/ Claim(m) \/ ArmHome(m) \/ Seal(m)
                 \/ Stop(m) \/ Fail(m) \/ UndoRows(m) \/ UndoDrop(m) \/ Undone(m) \/ Kill(m)
        BY <3>2 DEF store, Arm, ArmRows, Free, Claim, ArmHome, Seal, Stop, Fail, UndoRows,
           UndoDrop, Undone, Kill
      <3>3. QED
        BY <1>14, <3>1, <3>2
    <2>2. QED
      BY <1>4, <2>1
  <1>15. QED
    BY <1>7, <1>8, <1>9, <1>10, <1>11, <1>12, <1>13, <1>14 DEF Step

\* Every row is right, hurt or open after a step of a command.
LEMMA StepRows ==
  ASSUME TypeInv, Calm, RowsLead, NEW m \in Movers, Mine(m), DestInv(m), Step(m),
         \A j \in Movers \ {m} : Stays(j)
  PROVE  RowsLead'
  <1>1. TypeOK /\ \A j \in Movers : Shape(j)
    BY DEF TypeInv, ShapeInv
  <1>2. ASSUME NEW k \in Names, registry'[k] # None
        PROVE  AllRight(k)' \/ \E j \in Movers : HurtBy(j, k)' \/ OpenBy(j, k)'
    <2>1. ASSUME NEW j \in Movers, HurtBy(j, k) PROVE HurtBy(j, k)'
      <3>1. CASE j = m
        BY <1>1, <2>1, <3>1, StepHurt
      <3>2. CASE j # m
        BY <2>1, <3>2, StillHurt DEF Stays
      <3>3. QED
        BY <3>1, <3>2
    <2>2. ASSUME NEW j \in Movers \ {m}, OpenBy(j, k) PROVE OpenBy(j, k)'
      BY <1>1, <2>2, StillOpen
    <2>3. CASE OpenBy(m, k)
      <3>1. Fine(m, k)'
        BY <1>2, <2>3, OpenRowCloses
      <3>2. QED
        BY <3>1 DEF Fine
    <2>4. CASE registry'[k] # registry[k]
      <3>1. Fine(m, k)'
        BY <1>2, <2>4, NewRowIsFine
      <3>2. QED
        BY <3>1 DEF Fine
    <2>5. CASE registry'[k] = registry[k] /\ AllRight(k) /\ ~OpenBy(m, k)
               /\ \A j \in Movers : ~HurtBy(j, k)
      <3>1. Fine(m, k)'
        BY <1>2, <2>5, RightRowStays
      <3>2. QED
        BY <3>1 DEF Fine
    <2>6. QED
      BY <1>2, <2>1, <2>2, <2>3, <2>4, <2>5 DEF RowsLead
  <1>3. QED
    BY <1>2 DEF RowsLead

\* A row that a command leaves open leads to a place that the command holds.
LEMMA OpenIsHeld ==
  ASSUME TypeOK, NEW j \in Movers, Shape(j), Mine(j), NEW k, OpenBy(j, k), registry[k] # None
  PROVE  registry[k] \in HoldsP(j)
  <1>1. /\ mv[j].pc \in Working
        /\ New(j) => HoldsP(j) = {mv[j].from, mv[j].dest}
        /\ mv[j].pc \in Working \ {"arm", "undo"} => New(j)
        /\ Armed(j, "rows") => New(j)
    BY Holdings DEF OpenBy
  <1>2. CASE k = mv[j].to /\ Claimed(j)
    <2>1. CASE mv[j].pc \in Homes \cup {"drop", "seal"} \cup Sealed
      BY <1>1, <1>2, <2>1 DEF Mine, RowInv, Homes, Sealed
    <2>2. CASE Armed(j, "rows") /\ registry[mv[j].to] = mv[j].dest
      BY <1>1, <1>2, <2>2
    <2>3. QED
      BY <1>2, <2>1, <2>2 DEF Claimed
  <1>3. CASE k = mv[j].name /\ Remaps(j)
    BY <1>1, <1>3 DEF Mine, RowInv, HoldsP
  <1>4. QED
    BY <1>2, <1>3 DEF OpenBy

LEMMA StillDest ==
  ASSUME TypeOK, NEW j \in Movers, Shape(j), Stays(j), DestInv(j),
         \A i \in Movers, k \in Names : HurtBy(i, k) => HurtBy(i, k)'
  PROVE  DestInv(j)'
  <1>1. mv'[j] = mv[j]
    BY DEF Stays
  <1>2. /\ Armed(j, "dest")' <=> Armed(j, "dest")
        /\ Armed(j, "rows")' <=> Armed(j, "rows")
    BY <1>1 DEF Armed
  <1>3. /\ Armed(j, "dest") => mv[j].dest \in HoldsP(j)
        /\ Armed(j, "rows") => mv[j].to \in HoldsN(j)
    BY Holdings
  <1>4. Armed(j, "rows") => registry'[mv[j].to] = registry[mv[j].to]
    BY <1>3 DEF Stays
  <1>5. Claimed(j) => Claimed(j)'
    BY <1>1, <1>2, <1>4 DEF Claimed
  <1>6. ASSUME Armed(j, "dest"), NEW k \in Names, registry'[k] = mv[j].dest
        PROVE  registry[k] = mv[j].dest
    BY <1>3, <1>6 DEF Stays
  <1>7. QED
    BY <1>1, <1>2, <1>5, <1>6 DEF DestInv

\* The undo of a copy is armed once, for a place where nothing is.
LEMMA DestIsArmed ==
  ASSUME TypeOK, NEW m \in Movers, Shape(m), Step(m), Armed(m, "dest")'
  PROVE  /\ Same(m) /\ mv'[m].pc \in Working
         /\ Armed(m, "dest") \/ (Arm(m) /\ work[mv[m].dest] = Absent /\ mv[m].copies = TRUE)
  <1>1. Same(m) /\ mv'[m].pc \in Working
    <2>1. CASE Retire(m) \/ Stop(m) \/ Undone(m) \/ Kill(m)
      <3>1. PICK q \in {"done", "undone", "killed"} : Ends(m, q)
        BY <2>1 DEF Retire, Stop, Undone, Kill
      <3>2. mv'[m].stack = <<>>
        BY <3>1, EndsIs DEF Ended
      <3>3. QED
        BY <3>2, EmptyStack DEF Armed
    <2>2. QED
      BY <2>1, StepGoesOn
  <1>2. ASSUME NEW q \in Working, Goto(m, q) PROVE Armed(m, "dest")
    BY <1>2, GotoIs DEF Armed
  <1>3. ASSUME NEW u \in Undos, NEW f \in BOOLEAN, Undoes(m, u), Popped(m, f)
        PROVE  Armed(m, "dest")
    BY <1>3, PoppedIs DEF Shape, StackShape
  <1>4. CASE Arm(m)
    <2>1. mv[m].copies \in BOOLEAN /\ "copy" \in Working /\ "rows" \in Working
      BY DEF TypeOK, Command, Working, Trying
    <2>2. CASE mv[m].copies = TRUE /\ work[mv[m].dest] = Absent
      BY <1>1, <1>4, <2>2
    <2>3. CASE ~(mv[m].copies = TRUE /\ work[mv[m].dest] = Absent)
      BY <1>1, <1>2, <1>4, <2>1, <2>3 DEF Arm
    <2>4. QED
      BY <2>2, <2>3
  <1>5. CASE ArmHome(m)
    <2>1. mv[m].pc = "home" /\ "homecopy" \in Working /\ "home" \in Undos
      BY <1>5 DEF ArmHome, At, Working, Trying, Undos
    <2>2. CASE Push(m, "home", "homecopy")
      <3>1. Ordered(mv[m].stack) /\ \A v \in Undos : Armed(m, v) => v \in Below("home")
        BY <2>1 DEF Shape, StackShape, Below, Undos, WithRows
      <3>2. Armed(m, "dest") \/ "dest" = "home"
        BY <2>1, <2>2, <3>1, PushIs
      <3>3. QED
        BY <1>1, <3>2
    <2>3. QED
      BY <1>1, <1>2, <1>5, <2>1, <2>2 DEF ArmHome
  <1>6. CASE ArmRows(m) \/ Drop(m) \/ Seal(m)
    <2>1. CASE ArmRows(m)
      BY <1>1, <2>1, ArmRowsIs
    <2>2. CASE Drop(m)
      <3>1. \A u : Armed(m, u)' <=> Armed(m, u) \/ (Renames(m) /\ u = "source")
        BY <2>2, DropIs
      <3>2. QED
        BY <1>1, <3>1
    <2>3. CASE Seal(m)
      <3>1. mv'[m].stack = <<>>
        BY <2>3, SealIs
      <3>2. QED
        BY <3>1, EmptyStack DEF Armed
    <2>4. QED
      BY <1>6, <2>1, <2>2, <2>3
  <1>7. CASE \/ Copy(m) \/ Copied(m) \/ Free(m) \/ Claim(m) \/ CopyHome(m)
             \/ HomeCopied(m) \/ DropHome(m) \/ Fail(m)
    <2>1. \E q \in {"copying", "rows", "claim", "home", "drop", "homecopying", "retire", "undo"} :
            Goto(m, q)
      BY <1>7 DEF Copy, Copied, Free, Claim, CopyHome, HomeCopied, DropHome, Fail
    <2>2. {"copying", "rows", "claim", "home", "drop", "homecopying", "retire", "undo"} \subseteq Working
      BY DEF Working, Trying, Sealed
    <2>3. QED
      BY <1>1, <1>2, <2>1, <2>2
  <1>8. CASE UndoCopy(m) \/ UndoRows(m) \/ UndoHome(m) \/ UndoDrop(m)
    <2>1. \E u \in Undos, f \in BOOLEAN : Undoes(m, u) /\ Popped(m, f)
      <3>1. CASE UndoRows(m)
        BY <3>1 DEF UndoRows, Undos
      <3>2. CASE UndoDrop(m)
        BY <3>2 DEF UndoDrop, Undos
      <3>3. CASE UndoCopy(m)
        BY <3>3 DEF UndoCopy, Undos
      <3>4. CASE UndoHome(m)
        BY <3>4 DEF UndoHome, Undos
      <3>5. QED
        BY <1>8, <3>1, <3>2, <3>3, <3>4
    <2>2. QED
      BY <1>1, <1>3, <2>1
  <1>9. CASE Retire(m) \/ Stop(m) \/ Undone(m) \/ Kill(m)
    <2>1. PICK q \in {"done", "undone", "killed"} : Ends(m, q)
      BY <1>9 DEF Retire, Stop, Undone, Kill
    <2>2. mv'[m].pc \in Ended
      BY <2>1, EndsIs DEF Ended
    <2>3. QED
      BY <1>1, <2>2, PCs
  <1>10. QED
    BY <1>1, <1>4, <1>5, <1>6, <1>7, <1>8, <1>9 DEF Step

\* A step brings no row to a place whose copy may be undone, but by the claim.
LEMMA NewDestIsClaimed ==
  ASSUME TypeInv, Calm, NEW m \in Movers, Mine(m), Step(m), Armed(m, "dest"),
         NEW k \in Names, registry'[k] # registry[k], registry'[k] = mv[m].dest
  PROVE  k = mv[m].to /\ Claimed(m)'
  <1>1. TypeOK /\ OneRowPerPlace /\ Shape(m) /\ mv[m].pc \in Working
    BY StepGoes DEF TypeInv, ShapeInv
  <1>2. AtWork(m) /\ registry \in [Names -> Places \cup {None}] /\ mv[m].copies = TRUE
    BY <1>1, IsAtWork DEF TypeOK, Shape, StackShape
  <1>3. mv[m].dest # mv[m].from /\ mv[m].dest # None
    BY <1>2, NoneAssumption DEF AtWork
  <1>4. CASE Claim(m)
    <2>1. registry' = [registry EXCEPT ![mv[m].to] = mv[m].dest]
      BY <1>4 DEF Claim
    <2>2. mv'[m].pc \in {"home", "drop"}
      <3>1. Goto(m, IF Renames(m) THEN "home" ELSE "drop") /\ "home" \in Working /\ "drop" \in Working
        BY <1>4 DEF Claim, Working, Trying
      <3>2. QED
        BY <1>1, <3>1, GotoIs
    <2>3. QED
      BY <1>2, <2>1, <2>2 DEF Claimed, Homes
  <1>5. CASE UndoRows(m)
    <2>1. /\ \A n \in Names \ {mv[m].name, mv[m].to} : registry'[n] = registry[n]
          /\ registry'[mv[m].name] \in {registry[mv[m].name], mv[m].from}
          /\ registry'[mv[m].to] \in {registry[mv[m].to], None, mv[m].from}
      BY <1>1, <1>5, RestoresOwn DEF Mine
    <2>2. QED
      BY <1>3, <2>1
  <1>6. CASE UndoDrop(m) \/ Free(m) \/ Drop(m)
    <2>1. \E w \in {None, mv[m].from} :
            registry' = registry \/ registry' = [registry EXCEPT ![mv[m].name] = w]
      <3>1. CASE Drop(m)
        BY <1>1, <3>1, DropIs
      <3>2. CASE UndoDrop(m) \/ Free(m)
        BY <3>2 DEF UndoDrop, Free
      <3>3. QED
        BY <1>6, <3>1, <3>2
    <2>2. QED
      BY <1>2, <1>3, <2>1
  <1>7. CASE \/ Arm(m) \/ Copy(m) \/ Copied(m) \/ ArmRows(m) \/ ArmHome(m) \/ CopyHome(m)
             \/ HomeCopied(m) \/ Seal(m) \/ DropHome(m) \/ Retire(m) \/ Stop(m) \/ Fail(m)
             \/ UndoCopy(m) \/ UndoHome(m) \/ Undone(m) \/ Kill(m)
    <2>1. UNCHANGED registry
      BY <1>7 DEF store, Arm, Copy, Copied, ArmRows, ArmHome, CopyHome, HomeCopied, Seal,
         DropHome, Retire, Stop, Fail, UndoCopy, UndoHome, Undone, Kill
    <2>2. QED
      BY <2>1
  <1>8. QED
    BY <1>4, <1>5, <1>6, <1>7 DEF Step

LEMMA StepDest ==
  ASSUME TypeInv, Calm, Exclusive, Overlap = FALSE, AllMine, RowsLead,
         NEW m \in Movers, DestInv(m), Step(m), \A j \in Movers \ {m} : Stays(j)
  PROVE  DestInv(m)'
  <1>1. /\ TypeOK /\ OneRowPerPlace /\ mv[m].pc \in Working
        /\ \A j \in Movers : Shape(j) /\ Mine(j)
    BY StepGoes DEF TypeInv, ShapeInv, AllMine
  <1>2. SUFFICES ASSUME Armed(m, "dest")', NEW k \in Names, registry'[k] = mv'[m].dest
                 PROVE  (\E j \in Movers : HurtBy(j, k)') \/ (k = mv'[m].to /\ Claimed(m)')
    BY DEF DestInv
  <1>3. ASSUME NEW j \in Movers, HurtBy(j, k) PROVE HurtBy(j, k)'
    <2>1. CASE j = m
      BY <1>1, <1>3, <2>1, StepHurt
    <2>2. CASE j # m
      BY <1>3, <2>2, StillHurt DEF Stays
    <2>3. QED
      BY <2>1, <2>2
  <1>4. Same(m) /\ mv'[m].pc \in Working /\ registry'[k] = mv[m].dest
    BY <1>1, <1>2, DestIsArmed DEF Same
  <1>5. CASE Arm(m) /\ work[mv[m].dest] = Absent /\ mv[m].copies = TRUE
    <2>1. /\ mv[m].pc = "arm" /\ UNCHANGED store
          /\ Unbusy({mv[m].name, mv[m].to}, {mv[m].from, mv[m].dest}, Movers \ {m})
      BY <1>5 DEF Arm, Yes, At
    <2>2. registry[k] = mv[m].dest /\ registry[k] # None
      BY <1>1, <1>4, <2>1, IsAtWork, NoneAssumption DEF store, AtWork
    <2>3. ~AllRight(k)
      BY <1>5, <2>2 DEF AllRight, Absent
    <2>4. ~OpenBy(m, k)
      BY <1>5, <2>1 DEF OpenBy, Claimed, Remaps, Homes, Sealed
    <2>5. ASSUME NEW j \in Movers \ {m} PROVE ~OpenBy(j, k)
      <3>0. /\ {mv[m].name, mv[m].to} \cap HoldsN(j) = {}
            /\ {mv[m].from, mv[m].dest} \cap HoldsP(j) = {}
        BY <2>1, Apart
      <3>1. mv[m].dest \notin HoldsP(j)
        BY <3>0
      <3>2. QED
        BY <1>1, <2>2, <3>1, OpenIsHeld
    <2>6. QED
      BY <1>3, <2>2, <2>3, <2>4, <2>5 DEF RowsLead
  <1>6. CASE Armed(m, "dest") /\ registry[k] = mv[m].dest
    <2>1. CASE \E j \in Movers : HurtBy(j, k)
      BY <1>3, <2>1
    <2>2. CASE k = mv[m].to /\ Claimed(m)
      <3>1. Claimed(m)' \/ mv'[m].amiss = TRUE
        BY <1>1, <1>4, <2>2, ClaimHolds
      <3>2. QED
        BY <1>4, <2>2, <3>1 DEF HurtBy, Same
    <2>3. QED
      BY <1>6, <2>1, <2>2 DEF DestInv
  <1>7. CASE Armed(m, "dest") /\ registry[k] # mv[m].dest
    BY <1>1, <1>4, <1>7, NewDestIsClaimed DEF Same
  <1>8. QED
    BY <1>1, <1>2, <1>5, <1>6, <1>7, DestIsArmed

\* What the commands that are not part of a step leave hurt or open stays so.
LEMMA OthersLead ==
  ASSUME TypeInv, LeadInv, NEW movers \in SUBSET Movers, \A j \in movers : Stays(j),
         \A j \in Movers \ movers : ~Armed(j, "dest")' /\ \A k : ~HurtBy(j, k) /\ ~OpenBy(j, k),
         \A k \in Names : registry'[k] # None =>
           \/ AllRight(k)' \/ \E j \in Movers : OpenBy(j, k)'
           \/ registry[k] # None /\ ~AllRight(k)
  PROVE  LeadInv'
  <1>1. TypeOK /\ \A j \in Movers : Shape(j)
    BY DEF TypeInv, ShapeInv
  <1>2. ASSUME NEW j \in Movers, NEW k, HurtBy(j, k) PROVE HurtBy(j, k)'
    BY <1>2, StillHurt DEF Stays
  <1>3. ASSUME NEW j \in Movers, NEW k, OpenBy(j, k) PROVE OpenBy(j, k)'
    BY <1>1, <1>3, StillOpen
  <1>4. RowsLead'
    BY <1>2, <1>3 DEF RowsLead, LeadInv
  <1>5. ASSUME NEW j \in Movers PROVE DestInv(j)'
    <2>1. CASE j \in movers
      <3>1. DestInv(j) /\ Stays(j) /\ \A i \in Movers, k \in Names : HurtBy(i, k) => HurtBy(i, k)'
        BY <1>2, <2>1 DEF LeadInv
      <3>2. QED
        BY <1>1, <3>1, StillDest
    <2>2. CASE j \notin movers
      BY <2>2 DEF DestInv
    <2>3. QED
      BY <2>1, <2>2
  <1>6. QED
    BY <1>4, <1>5 DEF LeadInv

LEMMA BeginLead ==
  ASSUME TypeInv, Exclusive, Overlap = FALSE, LeadInv, NEW m \in Movers, Begin(m)
  PROVE  LeadInv'
  <1>0. PICK n \in Names : \E to, dest :
          \/ to \in Names /\ dest \in Places /\ Move(m, n, to, dest)
          \/ to \in Names /\ dest = registry[n] /\ Rename(m, n, to)
          \/ to = n /\ dest \in Places /\ Remap(m, n, dest)
    BY DEF Begin
  <1>1. PICK to, dest :
          \/ to \in Names /\ dest \in Places /\ Move(m, n, to, dest)
          \/ to \in Names /\ dest = registry[n] /\ Rename(m, n, to)
          \/ to = n /\ dest \in Places /\ Remap(m, n, dest)
    BY <1>0
  <1>2. /\ TypeOK /\ OneRowPerPlace /\ Shape(m) /\ work \in [Places -> Tree]
        /\ registry \in [Names -> Places \cup {None}] /\ registry[n] # None
    BY <1>1 DEF TypeInv, ShapeInv, TypeOK, Move, Rename, Remap
  <1>3. /\ At(m, "idle") /\ UNCHANGED registry
        /\ \E files \in Places, copies \in BOOLEAN : Begun(m, n, to, files, dest, copies)
    BY <1>1, <1>2, BeginTyped
  <1>4. \A k : ~HurtBy(m, k) /\ ~OpenBy(m, k)
    <2>1. mv[m].pc = "idle" /\ mv[m].amiss = FALSE /\ mv[m].pc \notin Working
      BY <1>2, <1>3, PCs DEF At, Shape, WhoShape, Idle
    <2>2. QED
      BY <2>1 DEF HurtBy, OpenBy
  <1>5. /\ mv'[m].pc = "arm" /\ mv'[m].name = n /\ mv'[m].from = registry[n] /\ mv'[m].dest = dest
        /\ mv'[m].stack = <<>>
    BY <1>3 DEF Begun
  <1>6. ~Armed(m, "dest")'
    BY <1>5, EmptyStack DEF Armed
  <1>7. UNCHANGED home
    BY <1>1 DEF Move, Rename, Remap, store
  <1>8. ASSUME NEW k \in Names, registry'[k] # None, AllRight(k)
        PROVE  AllRight(k)' \/ OpenBy(m, k)'
    <2>1. CASE UNCHANGED work
      BY <1>3, <1>7, <1>8, <2>1 DEF AllRight
    <2>2. CASE /\ work' = [work EXCEPT ![dest] = work[registry[n]], ![registry[n]] = Absent]
               /\ Begins(m, n, n, registry[n], dest, FALSE) /\ dest # registry[n]
               /\ ~HeldByOther(n, dest) /\ dest \in Places
      <3>1. CASE k = n
        <4>1. mv'[m].copies = FALSE
          BY <1>2, <2>2 DEF Begins, TypeOK, Idle
        <4>2. Remaps(m)' /\ "arm" \in Working
          BY <1>5, <2>2, <4>1 DEF Remaps, Working, Trying
        <4>3. QED
          BY <1>5, <3>1, <4>2 DEF OpenBy
      <3>2. CASE k # n
        <4>1. registry[k] # registry[n] /\ registry[k] # dest /\ registry[k] \in Places
          BY <1>2, <1>3, <1>8, <2>2, <3>2 DEF OneRowPerPlace, HeldByOther
        <4>2. work'[registry[k]] = work[registry[k]]
          BY <1>2, <2>2, <4>1
        <4>3. QED
          BY <1>3, <1>7, <1>8, <4>2 DEF AllRight
      <3>3. QED
        BY <3>1, <3>2
    <2>3. UNCHANGED work \/ Remap(m, n, dest)
      BY <1>1 DEF Move, Rename, store
    <2>4. CASE Remap(m, n, dest)
      <3>1. dest \in Places
        BY <1>1, <1>2
      <3>2. QED
        BY <2>1, <2>2, <2>4, <3>1 DEF Remap
    <2>5. QED
      BY <2>1, <2>3, <2>4
  <1>9. \A j \in Movers \ {m} : Stays(j)
    BY BeginLeaves
  <1>10. \A k \in Names : registry'[k] # None =>
           \/ AllRight(k)' \/ \E j \in Movers : OpenBy(j, k)'
           \/ registry[k] # None /\ ~AllRight(k)
    BY <1>3, <1>8
  <1>11. QED
    BY <1>4, <1>6, <1>9, <1>10, OthersLead

LEMMA OtherLead ==
  ASSUME TypeInv, Exclusive, Overlap = FALSE, LeadInv, NEW n \in Names, Other(n)
  PROVE  LeadInv'
  <1>1. /\ OneRowPerPlace /\ registry \in [Names -> Places \cup {None}]
        /\ home \in [Names -> Tree] /\ work \in [Places -> Tree]
    BY DEF TypeInv, TypeOK
  <1>2. ASSUME NEW k \in Names, registry'[k] # None
        PROVE  AllRight(k)' \/ (registry[k] # None /\ ~AllRight(k))
    <2>1. CASE Rm(n)
      BY <1>1, <1>2, <2>1 DEF Rm, AllRight
    <2>2. ASSUME NEW w \in Places, Register(n, w)
          PROVE  AllRight(k)' \/ (registry[k] # None /\ ~AllRight(k))
      <3>1. CASE k = n
        <4>1. home[n].whole = TRUE
          BY <1>1, <2>2, Trees DEF Register
        <4>2. registry'[k] = w /\ home'[k] = home[n] /\ work'[w] = home[n]
          BY <1>1, <2>2, <3>1 DEF Register
        <4>3. QED
          BY <4>1, <4>2 DEF AllRight
      <3>2. CASE k # n
        BY <1>1, <1>2, <2>2, <3>2 DEF Register, AllRight
      <3>3. QED
        BY <3>1, <3>2
    <2>3. ASSUME NEW b \in Boxes, NEW w \in Places, Create(b, n, w)
          PROVE  AllRight(k)' \/ (registry[k] # None /\ ~AllRight(k))
      <3>1. CASE k = n
        <4>1. registry'[k] = w /\ home'[k] = Whole(b) /\ work'[w] = Whole(b)
          BY <1>1, <2>3, <3>1 DEF Create
        <4>2. QED
          BY <4>1, Trees DEF AllRight
      <3>2. CASE k # n
        <4>1. registry'[k] = registry[k] /\ registry[k] # w /\ home'[k] = home[k] /\ registry[k] \in Places
          BY <1>1, <1>2, <2>3, <3>2 DEF Create, HeldByOther
        <4>2. work'[registry[k]] = work[registry[k]]
          BY <1>1, <2>3, <4>1 DEF Create
        <4>3. QED
          BY <1>2, <4>1, <4>2 DEF AllRight
      <3>3. QED
        BY <3>1, <3>2
    <2>4. QED
      BY <2>1, <2>2, <2>3 DEF Other
  <1>3. \A j \in Movers : Stays(j)
    BY OtherLeaves
  <1>4. QED
    BY <1>2, <1>3, OthersLead

LEMMA InitLead ==
  ASSUME Init
  PROVE  LeadInv
  <1>1. PICK there \in SUBSET Boxes, listed \in SUBSET Boxes :
          \E name \in Injections(there, Names), place \in Injections(there, Places) :
            /\ registry = [n \in Names |->
                 IF \E b \in there \cap listed : name[b] = n
                 THEN place[CHOOSE b \in there : name[b] = n] ELSE None]
            /\ home = [n \in Names |-> IF \E b \in there : name[b] = n
                 THEN Whole(CHOOSE b \in there : name[b] = n) ELSE Absent]
            /\ work = [w \in Places |-> IF \E b \in there : place[b] = w
                 THEN Whole(CHOOSE b \in there : place[b] = w) ELSE Absent]
    BY DEF Init
  <1>2. PICK name \in Injections(there, Names), place \in Injections(there, Places) :
            /\ registry = [n \in Names |->
                 IF \E b \in there \cap listed : name[b] = n
                 THEN place[CHOOSE b \in there : name[b] = n] ELSE None]
            /\ home = [n \in Names |-> IF \E b \in there : name[b] = n
                 THEN Whole(CHOOSE b \in there : name[b] = n) ELSE Absent]
            /\ work = [w \in Places |-> IF \E b \in there : place[b] = w
                 THEN Whole(CHOOSE b \in there : place[b] = w) ELSE Absent]
    BY <1>1
  <1>3. /\ name \in [there -> Names] /\ place \in [there -> Places]
        /\ \A x, y \in there : place[x] = place[y] => x = y
    BY DEF Injections
  <1> DEFINE at(n) == CHOOSE b \in there : name[b] = n
             on(w) == CHOOSE b \in there : place[b] = w
  <1>4. \A n : (\E b \in there : name[b] = n) => at(n) \in there /\ name[at(n)] = n
    OBVIOUS
  <1>5. \A w : (\E b \in there : place[b] = w) => on(w) \in there /\ place[on(w)] = w
    OBVIOUS
  <1>6. /\ registry = [n \in Names |-> IF \E b \in there \cap listed : name[b] = n
                                       THEN place[at(n)] ELSE None]
        /\ home = [n \in Names |-> IF \E b \in there : name[b] = n
                                   THEN Whole(at(n)) ELSE Absent]
        /\ work = [w \in Places |-> IF \E b \in there : place[b] = w
                                    THEN Whole(on(w)) ELSE Absent]
    BY <1>2
  <1> HIDE DEF at, on
  <1>7. ASSUME NEW k \in Names, registry[k] # None PROVE AllRight(k)
    <2>1. (\E b \in there : name[b] = k) /\ registry[k] = place[at(k)]
      BY <1>6, <1>7
    <2>2. at(k) \in there /\ at(k) \in Boxes /\ home[k] = Whole(at(k))
      BY <1>4, <1>6, <2>1
    <2>3. place[at(k)] \in Places /\ \E b \in there : place[b] = place[at(k)]
      BY <1>3, <2>2
    <2>4. on(place[at(k)]) = at(k)
      BY <1>3, <1>5, <2>2, <2>3
    <2>5. work[registry[k]] = Whole(at(k))
      BY <1>6, <2>1, <2>3, <2>4
    <2>6. QED
      BY <2>2, <2>5, Trees DEF AllRight
  <1>8. ASSUME NEW m \in Movers PROVE DestInv(m)
    <2>1. mv[m].stack = <<>>
      BY DEF Init, Idle
    <2>2. QED
      BY <2>1, EmptyStack DEF DestInv, Armed
  <1>9. QED
    BY <1>7, <1>8 DEF LeadInv, RowsLead

LEMMA NextLead ==
  ASSUME Discipline, KeepInv, LeadInv, [Next]_vars
  PROVE  LeadInv'
  <1>1. /\ TypeInv /\ Exclusive /\ Calm /\ AllMine /\ Overlap = FALSE /\ TypeOK
        /\ \A k \in Movers : Shape(k) /\ Mine(k) /\ UndoInv(k)
    BY DEF KeepInv, AllMine, TypeInv, ShapeInv, Mine, Discipline
  <1>2. ASSUME NEW m \in Movers, Step(m) PROVE LeadInv'
    <2>1. \A j \in Movers \ {m} : Stays(j)
      BY <1>1, <1>2, StepLeaves
    <2>2. RowsLead'
      BY <1>1, <1>2, <2>1, StepRows DEF LeadInv
    <2>3. DestInv(m)'
      BY <1>1, <1>2, <2>1, StepDest DEF LeadInv
    <2>4. ASSUME NEW i \in Movers, NEW k \in Names, HurtBy(i, k) PROVE HurtBy(i, k)'
      <3>1. CASE i = m
        BY <1>1, <1>2, <2>4, <3>1, StepHurt
      <3>2. CASE i # m
        BY <2>1, <2>4, <3>2, StillHurt DEF Stays
      <3>3. QED
        BY <3>1, <3>2
    <2>5. ASSUME NEW j \in Movers \ {m} PROVE DestInv(j)'
      BY <1>1, <2>1, <2>4, StillDest DEF LeadInv
    <2>6. QED
      BY <2>2, <2>3, <2>5 DEF LeadInv
  <1>3. ASSUME NEW m \in Movers, Begin(m) PROVE LeadInv'
    BY <1>1, <1>3, BeginLead
  <1>4. ASSUME NEW n \in Names, Other(n) PROVE LeadInv'
    BY <1>1, <1>4, OtherLead
  <1>5. CASE UNCHANGED vars
    <2>1. \A j \in Movers : Stays(j)
      BY <1>5 DEF vars, store, Stays
    <2>2. \A k \in Names : registry'[k] # None => AllRight(k)' \/ (registry[k] # None /\ ~AllRight(k))
      BY <1>5 DEF vars, store, AllRight
    <2>3. QED
      BY <1>1, <2>1, <2>2, OthersLead
  <1>6. QED
    BY <1>2, <1>3, <1>4, <1>5, WhoSteps

\* Where no two commands work on one name or place, no new name has a directory already
\* and no row of another box changes before a failed relocation restores the membership,
\* every row leads to a whole home and a whole workspace of one box: but the row of a
\* new name whose data comes or did not come, a remap's, and what an undo left that failed
\* or was cut short.
THEOREM RowsLeadToBoxes ==
  ASSUME ~Overlap, ~Merges, ~RowsRace
  PROVE  Spec => []RowLeadsToBox
  <1>1. Discipline
    BY DisciplineAssumption DEF Discipline
  <1>2. Init => LeadInv
    BY InitLead
  <1>3. KeepInv /\ LeadInv /\ [Next]_vars => LeadInv'
    BY <1>1, NextLead
  <1>4. KeepInv /\ LeadInv => RowLeadsToBox
    BY LeadsToBox DEF KeepInv, TypeInv, LeadInv
  <1>5. Spec => []KeepInv
    BY KeptAlways
  <1>6. QED
    BY <1>2, <1>3, <1>4, <1>5, PTL DEF Spec
=============================================================================
