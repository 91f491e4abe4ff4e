--------------------------- MODULE HelperClientProofs ---------------------------
(***************************************************************************)
(* For any number of threads, connections, calls and pushes: a request is  *)
(* answered with its own answer, who is told that a connection is closed   *)
(* is told so of the right one, and nothing follows a sentinel.            *)
(*                                                                         *)
(* The argument: each connection has a pair of queues to itself            *)
(* (ConnInv, Apart), so that what is in a queue came from one reader.      *)
(* Until that reader retires, at most one answer is anywhere between the   *)
(* hub and the queue, that of the thread that has the lock (Pipe); from    *)
(* then on there is one sentinel, at the end of the queue or in the hands  *)
(* of one thread (Ended).                                                  *)
(***************************************************************************)
EXTENDS HelperClient, SequenceTheorems, TLAPS

Used(c) == conn[c].hub # "none"
Retired(c) == conn[c].reader = "retired"
Closing == {"shut", "replace"}
Calling == {"queue", "lock", "answer"}
Waiting(t, c) == thr[t].pc = "answer" /\ thr[t].c = c

-----------------------------------------------------------------------------
(* Frames in a row *)

NoAnswer(w) == \A i \in 1..Len(w) : w[i].kind # "answer"
OneAnswer(w, n) == \E i \in 1..Len(w) :
  w[i] = AnswerTo(n) /\ \A j \in 1..Len(w) : j # i => w[j].kind # "answer"
NoClosed(w) == \A i \in 1..Len(w) : w[i] # CLOSED
EndsClosed(w) == w # <<>> /\ \A i \in 1..Len(w) : w[i] = CLOSED <=> i = Len(w)
\* What a hub sends.
Sent(w) == \A i \in 1..Len(w) : w[i].kind # "closed"

-----------------------------------------------------------------------------
(* The inductive invariant *)

OwnerInv ==
  /\ client.sock # 0 =>
       conn[client.sock].open = TRUE /\ conn[client.sock].gen = client.gen /\ Used(client.sock)
  /\ thr[Owner].pc \in Closing => client.sock = 0 /\ client.gen < MaxCloses
  /\ thr[Owner].pc = "shut" => thr[Owner].c \in Conns
  /\ \A t \in Threads : t # Owner => thr[t].pc \notin Closing

ClosedBy(c, pcs) == thr[Owner].pc \in pcs /\ thr[Owner].c = c

\* A connection is the client's until the close that gives the client new queues.
ConnInv(c) ==
  /\ Used(c) <=> conn[c].reader # "none"
  /\ Used(c) => conn[c].gen <= client.gen
  /\ Used(c) /\ conn[c].gen = client.gen =>
       client.sock = c \/ ClosedBy(c, Closing)
  /\ conn[c].open = TRUE =>
       /\ Used(c) /\ conn[c].gen = client.gen
       /\ client.sock = c \/ ClosedBy(c, {"shut"})
  /\ Sent(conn[c].wire)
  /\ conn[c].hub = "gone" => conn[c].busy = 0

Apart == \A c, d \in Conns : Used(c) /\ Used(d) /\ conn[c].gen = conn[d].gen => c = d

Receiving == {"recv", "poll"}

ThreadInv(t) ==
  /\ thr[t].pc \in Calling => thr[t].c \in Conns /\ Used(thr[t].c) /\ thr[t].n # 0
  /\ thr[t].pc = "lock" /\ conn[thr[t].c].open = TRUE => thr[t].g = conn[thr[t].c].gen
  /\ thr[t].pc = "answer" => thr[t].g = conn[thr[t].c].gen
  /\ thr[t].pc = "answer" <=> lock = t
  /\ thr[t].pc \in Calling => thr[t].kind \notin Receiving
  /\ thr[t].pc \in {"inbox", "take"} => thr[t].kind \in Receiving

HasResp(t, g) == thr[t].pc = "repost" /\ thr[t].g = g /\ thr[t].kind \notin Receiving
HasInbox(t, g) == thr[t].pc = "repost" /\ thr[t].g = g /\ thr[t].kind \in Receiving

\* Queues without a connection.
FreeInv(g) == (\A c \in Conns : Used(c) => conn[c].gen # g) =>
  /\ queue[g].resp = <<>> /\ queue[g].inbox = <<>>
  /\ \A t \in Threads : ~HasResp(t, g) /\ ~HasInbox(t, g)

\* Nothing asked will be answered; or the way of the one answer.
Unasked(c) == conn[c].hub = "gone" \/ (conn[c].asked = <<>> /\ conn[c].busy = 0)

Pipe(c) ==
  LET resp == queue[conn[c].gen].resp  wire == conn[c].wire IN
  \/ (Unasked(c) /\ NoAnswer(wire) /\ resp = <<>>)
  \/ \E t \in Threads : Waiting(t, c) /\ LET n == thr[t].n IN
       \/ conn[c].asked = <<n>> /\ conn[c].busy = 0 /\ NoAnswer(wire) /\ resp = <<>>
       \/ conn[c].asked = <<>> /\ conn[c].busy = n /\ NoAnswer(wire) /\ resp = <<>>
       \/ Unasked(c) /\ OneAnswer(wire, n) /\ resp = <<>>
       \/ Unasked(c) /\ NoAnswer(wire) /\ resp = <<AnswerTo(n)>>

LiveInv(c) == Used(c) /\ ~Retired(c) =>
  /\ Pipe(c)
  /\ NoClosed(queue[conn[c].gen].inbox)
  /\ \A t \in Threads : ~HasResp(t, conn[c].gen) /\ ~HasInbox(t, conn[c].gen)

\* One sentinel in each queue of a connection that ended.
EndedResp(c) ==
  LET g == conn[c].gen  resp == queue[g].resp IN
  \/ /\ \A t \in Threads : ~HasResp(t, g)
     /\ \/ resp = <<CLOSED>>
        \/ \E t \in Threads : Waiting(t, c) /\ resp = <<AnswerTo(thr[t].n), CLOSED>>
  \/ /\ resp = <<>>
     /\ \E t \in Threads : HasResp(t, g) /\ \A u \in Threads : HasResp(u, g) => u = t

EndedInbox(c) ==
  LET g == conn[c].gen  inbox == queue[g].inbox IN
  \/ (\A t \in Threads : ~HasInbox(t, g)) /\ EndsClosed(inbox)
  \/ /\ inbox = <<>>
     /\ \E t \in Threads : HasInbox(t, g) /\ \A u \in Threads : HasInbox(u, g) => u = t

EndedInv(c) == Used(c) /\ Retired(c) => EndedResp(c) /\ EndedInbox(c)

IInv ==
  /\ TypeOK /\ OwnerInv /\ Apart
  /\ \A c \in Conns : ConnInv(c) /\ LiveInv(c) /\ EndedInv(c)
  /\ \A t \in Threads : ThreadInv(t)
  /\ \A g \in Gens : FreeInv(g)

LEMMA Frames ==
  /\ CLOSED \in Frame /\ Push \in Frame /\ Junk \in Frame
  /\ CLOSED.kind = "closed" /\ Push.kind = "push" /\ Junk.kind = "junk"
  /\ \A n \in 0..MaxCalls : AnswerTo(n) \in Frame
  /\ \A n : AnswerTo(n).kind = "answer" /\ AnswerTo(n) # CLOSED
  BY BoundsAssumption DEF CLOSED, Push, Junk, AnswerTo, Frame

LEMMA AppendFrame ==
  ASSUME NEW w \in Seq(Frame), NEW f \in Frame
  PROVE  /\ NoAnswer(w) /\ f.kind # "answer" => NoAnswer(Append(w, f))
         /\ \A n : OneAnswer(w, n) /\ f.kind # "answer" => OneAnswer(Append(w, f), n)
         /\ Sent(w) /\ f.kind # "closed" => Sent(Append(w, f))
         /\ NoClosed(w) /\ f # CLOSED => NoClosed(Append(w, f))
         /\ NoClosed(w) /\ f = CLOSED => EndsClosed(Append(w, f))
  <1> DEFINE v == Append(w, f)
  <1>1. /\ v \in Seq(Frame) /\ Len(v) = Len(w) + 1 /\ Len(w) \in Nat /\ v[Len(w) + 1] = f
        /\ \A i \in 1..Len(w) : v[i] = w[i]
    OBVIOUS
  <1>2. v # <<>>
    BY <1>1, Len(<<>>) = 0
  <1> HIDE DEF v
  <1>3. \A i \in 1..Len(v) : i \in 1..Len(w) \/ i = Len(w) + 1
    BY <1>1
  <1>4. \A i \in 1..Len(w) : i \in 1..Len(v) /\ i # Len(v)
    BY <1>1
  <1>5. NoAnswer(w) /\ f.kind # "answer" => NoAnswer(v)
    BY <1>1, <1>3 DEF NoAnswer
  <1>6. ASSUME NEW n, OneAnswer(w, n), f.kind # "answer" PROVE OneAnswer(v, n)
    <2>1. PICK i \in 1..Len(w) :
            w[i] = AnswerTo(n) /\ \A j \in 1..Len(w) : j # i => w[j].kind # "answer"
      BY <1>6 DEF OneAnswer
    <2>2. i \in 1..Len(v) /\ v[i] = AnswerTo(n)
      BY <1>1, <1>4, <2>1
    <2>3. \A j \in 1..Len(v) : j # i => v[j].kind # "answer"
      BY <1>1, <1>3, <1>6, <2>1
    <2>4. QED
      BY <2>2, <2>3 DEF OneAnswer
  <1>7. Sent(w) /\ f.kind # "closed" => Sent(v)
    BY <1>1, <1>3 DEF Sent
  <1>8. NoClosed(w) /\ f # CLOSED => NoClosed(v)
    BY <1>1, <1>3 DEF NoClosed
  <1>9. NoClosed(w) /\ f = CLOSED => EndsClosed(v)
    BY <1>1, <1>2, <1>3, <1>4 DEF NoClosed, EndsClosed
  <1>10. QED
    BY <1>5, <1>6, <1>7, <1>8, <1>9 DEF v

LEMMA AppendAnswer ==
  ASSUME NEW w \in Seq(Frame), NEW n \in 0..MaxCalls, NoAnswer(w)
  PROVE  OneAnswer(Append(w, AnswerTo(n)), n)
  <1> DEFINE v == Append(w, AnswerTo(n))
  <1>1. /\ Len(v) = Len(w) + 1 /\ Len(w) \in Nat /\ v[Len(w) + 1] = AnswerTo(n)
        /\ \A i \in 1..Len(w) : v[i] = w[i]
    BY Frames
  <1> HIDE DEF v
  <1>2. Len(w) + 1 \in 1..Len(v) /\ \A j \in 1..Len(v) : j # Len(w) + 1 => j \in 1..Len(w)
    BY <1>1
  <1>3. OneAnswer(v, n)
    BY <1>1, <1>2 DEF OneAnswer, NoAnswer
  <1>4. QED
    BY <1>3 DEF v

LEMMA TailFrame ==
  ASSUME NEW w \in Seq(Frame), w # <<>>
  PROVE  /\ Head(w) \in Frame /\ Tail(w) \in Seq(Frame)
         /\ NoAnswer(w) => Head(w).kind # "answer" /\ NoAnswer(Tail(w))
         /\ \A n : OneAnswer(w, n) =>
              \/ Head(w) = AnswerTo(n) /\ NoAnswer(Tail(w))
              \/ Head(w).kind # "answer" /\ OneAnswer(Tail(w), n)
         /\ Sent(w) => Head(w).kind # "closed" /\ Sent(Tail(w))
         /\ NoClosed(w) => Head(w) # CLOSED /\ NoClosed(Tail(w))
         /\ EndsClosed(w) /\ Head(w) = CLOSED => Tail(w) = <<>>
         /\ EndsClosed(w) /\ Head(w) # CLOSED => EndsClosed(Tail(w))
  <1> DEFINE v == Tail(w)
  <1>1. /\ v \in Seq(Frame) /\ Len(w) \in Nat /\ Len(w) # 0 /\ Len(v) = Len(w) - 1
        /\ Head(w) = w[1] /\ Head(w) \in Frame /\ \A i \in 1..Len(v) : v[i] = w[i + 1]
    OBVIOUS
  <1>2. v = <<>> <=> Len(v) = 0
    BY <1>1, EmptySeq
  <1>3. 1 \in 1..Len(w) /\ \A i \in 1..Len(v) : i + 1 \in 1..Len(w) /\ i + 1 # 1
    BY <1>1
  <1>4. \A i \in 1..Len(w) : i = 1 \/ (i - 1 \in 1..Len(v) /\ w[i] = v[i - 1])
    BY <1>1
  <1> HIDE DEF v
  <1>5. NoAnswer(w) => Head(w).kind # "answer" /\ NoAnswer(v)
    BY <1>1, <1>3 DEF NoAnswer
  <1>6. ASSUME NEW n, OneAnswer(w, n)
        PROVE  \/ Head(w) = AnswerTo(n) /\ NoAnswer(v)
               \/ Head(w).kind # "answer" /\ OneAnswer(v, n)
    <2>1. PICK i \in 1..Len(w) :
            w[i] = AnswerTo(n) /\ \A j \in 1..Len(w) : j # i => w[j].kind # "answer"
      BY <1>6 DEF OneAnswer
    <2>2. CASE i = 1
      BY <1>1, <1>3, <2>1, <2>2 DEF NoAnswer
    <2>3. CASE i # 1
      <3>1. i - 1 \in 1..Len(v) /\ v[i - 1] = AnswerTo(n)
        BY <1>4, <2>1, <2>3
      <3>2. \A j \in 1..Len(v) : j # i - 1 => v[j].kind # "answer"
        <4>1. ASSUME NEW j \in 1..Len(v), j # i - 1 PROVE j + 1 # i
          BY <4>1
        <4>2. QED
          BY <1>1, <1>3, <2>1, <4>1
      <3>3. Head(w).kind # "answer"
        BY <1>1, <1>3, <2>1, <2>3
      <3>4. QED
        BY <3>1, <3>2, <3>3 DEF OneAnswer
    <2>4. QED
      BY <2>2, <2>3
  <1>7. Sent(w) => Head(w).kind # "closed" /\ Sent(v)
    BY <1>1, <1>3 DEF Sent
  <1>8. NoClosed(w) => Head(w) # CLOSED /\ NoClosed(v)
    BY <1>1, <1>3 DEF NoClosed
  <1>9. EndsClosed(w) /\ Head(w) = CLOSED => v = <<>>
    BY <1>1, <1>2, <1>3 DEF EndsClosed
  <1>10. EndsClosed(w) /\ Head(w) # CLOSED => EndsClosed(v)
    <2>1. ASSUME EndsClosed(w), Head(w) # CLOSED PROVE Len(v) # 0
      BY <2>1, <1>1, <1>3 DEF EndsClosed
    <2>2. ASSUME EndsClosed(w), NEW i \in 1..Len(v) PROVE v[i] = CLOSED <=> i = Len(v)
      BY <2>2, <1>1, <1>3 DEF EndsClosed
    <2>3. QED
      BY <1>2, <2>1, <2>2 DEF EndsClosed
  <1>11. QED
    BY <1>1, <1>5, <1>6, <1>7, <1>8, <1>9, <1>10 DEF v

LEMMA AppendTwo ==
  ASSUME NEW f \in Frame, NEW e \in Frame
  PROVE  Append(<<f>>, e) = <<f, e>>
  <1> DEFINE u == <<f, e>>
             v == Append(<<f>>, e)
  <1>1. v \in Seq(Frame) /\ Len(v) = 2 /\ v[1] = f /\ v[2] = e
    OBVIOUS
  <1>2. u \in Seq(Frame) /\ Len(u) = 2 /\ u[1] = f /\ u[2] = e
    OBVIOUS
  <1>3. \A i \in 1..2 : i = 1 \/ i = 2
    OBVIOUS
  <1> HIDE DEF u, v
  <1>4. \A i \in 1..Len(u) : u[i] = v[i]
    BY <1>1, <1>2, <1>3
  <1>5. u = v
    BY <1>1, <1>2, <1>4, SeqEqual
  <1>6. QED
    BY <1>5 DEF u, v

LEMMA EmptyRow ==
  /\ <<>> \in Seq(Frame) /\ NoAnswer(<<>>) /\ NoClosed(<<>>) /\ Sent(<<>>)
  /\ Append(<<>>, CLOSED) = <<CLOSED>>
  BY DEF NoAnswer, NoClosed, Sent

-----------------------------------------------------------------------------
(* What a step leaves alone. *)

LEMMA ConnTyped ==
  ASSUME TypeOK, NEW c \in Conns
  PROVE  /\ conn[c] \in Conn /\ conn[c].open \in BOOLEAN /\ conn[c].gen \in Gens
         /\ conn[c].hub \in {"none", "up", "gone"}
         /\ conn[c].reader \in {"none", "check", "recv", "retired"}
         /\ conn[c].asked \in Seq(1..MaxCalls) /\ conn[c].busy \in 0..MaxCalls
         /\ conn[c].num \in 0..MaxCalls /\ conn[c].reg \in BOOLEAN
         /\ conn[c].wire \in Seq(Frame)
  BY DEF TypeOK, Conn

LEMMA QueueTyped ==
  ASSUME TypeOK, NEW g \in Gens
  PROVE  /\ queue[g] \in [resp : Seq(Frame), inbox : Seq(Frame)]
         /\ queue[g].resp \in Seq(Frame) /\ queue[g].inbox \in Seq(Frame)
  BY DEF TypeOK

LEMMA ThreadTyped ==
  ASSUME TypeOK, NEW t \in Threads
  PROVE  /\ thr[t] \in Thread /\ thr[t].pc \in PCs /\ thr[t].kind \in Kinds
         /\ thr[t].c \in 0..MaxConns /\ thr[t].g \in Gens /\ thr[t].n \in 0..MaxCalls
  BY DEF TypeOK, Thread

LEMMA ClientTyped ==
  ASSUME TypeOK
  PROVE  /\ client \in Client /\ client.sock \in 0..MaxConns /\ client.closing \in BOOLEAN
         /\ client.gen \in Gens /\ client.gen \in Nat
         /\ (client.sock # 0 => client.sock \in Conns)
  BY BoundsAssumption DEF TypeOK, Client, Gens, Conns

\* A thread means the same to the connection d, whose queues are those of g.
Alike(t, d, g) ==
  /\ Waiting(t, d)' <=> Waiting(t, d)
  /\ Waiting(t, d) => thr'[t].n = thr[t].n
  /\ HasResp(t, g)' <=> HasResp(t, g)
  /\ HasInbox(t, g)' <=> HasInbox(t, g)

LEMMA SameAlike ==
  ASSUME NEW t \in Threads, NEW d, NEW g, thr'[t] = thr[t]
  PROVE  Alike(t, d, g)
  BY DEF Alike, Waiting, HasResp, HasInbox

LEMMA AwayAlike ==
  ASSUME NEW t \in Threads, NEW d, NEW g,
         thr[t].pc = "answer" => thr[t].c # d, thr'[t].pc = "answer" => thr'[t].c # d,
         thr[t].pc = "repost" => thr[t].g # g, thr'[t].pc = "repost" => thr'[t].g # g
  PROVE  Alike(t, d, g)
  BY DEF Alike, Waiting, HasResp, HasInbox

SamePair(d) ==
  /\ conn'[d].hub = conn[d].hub /\ conn'[d].gen = conn[d].gen
  /\ conn'[d].reader = conn[d].reader /\ conn'[d].asked = conn[d].asked
  /\ conn'[d].busy = conn[d].busy /\ conn'[d].wire = conn[d].wire
  /\ queue'[conn[d].gen] = queue[conn[d].gen]

LEMMA PairKeeps ==
  ASSUME NEW d \in Conns, LiveInv(d), EndedInv(d), SamePair(d),
         \A t \in Threads : Alike(t, d, conn[d].gen)
  PROVE  LiveInv(d)' /\ EndedInv(d)'
  <1> DEFINE g == conn[d].gen
  <1>1. /\ conn'[d].hub = conn[d].hub /\ conn'[d].gen = g
        /\ conn'[d].reader = conn[d].reader /\ conn'[d].asked = conn[d].asked
        /\ conn'[d].busy = conn[d].busy /\ conn'[d].wire = conn[d].wire
        /\ queue'[g] = queue[g]
    BY DEF SamePair
  <1>2. \A t \in Threads :
          /\ Waiting(t, d)' <=> Waiting(t, d)
          /\ Waiting(t, d) => thr'[t].n = thr[t].n
          /\ HasResp(t, g)' <=> HasResp(t, conn[d].gen)
          /\ HasInbox(t, g)' <=> HasInbox(t, conn[d].gen)
    BY <1>1 DEF Alike, HasResp, HasInbox
  <1>3. CASE Used(d) /\ ~Retired(d)
    <2>1. Pipe(d)
      BY <1>3 DEF LiveInv
    <2>2. Pipe(d)'
      BY <2>1, <1>1, <1>2 DEF Pipe, Unasked
    <2>3. QED
      BY <2>2, <1>1, <1>2, <1>3 DEF LiveInv, EndedInv, Used, Retired
  <1>4. CASE Used(d) /\ Retired(d)
    <2>1. EndedResp(d) /\ EndedInbox(d)
      BY <1>4 DEF EndedInv
    <2>2. EndedResp(d)'
      BY <2>1, <1>1, <1>2 DEF EndedResp
    <2>3. EndedInbox(d)'
      BY <2>1, <1>1, <1>2 DEF EndedInbox
    <2>4. QED
      BY <2>2, <2>3, <1>1, <1>4 DEF LiveInv, EndedInv, Used, Retired
  <1>5. CASE ~Used(d)
    BY <1>1, <1>5 DEF LiveInv, EndedInv, Used
  <1>6. QED
    BY <1>3, <1>4, <1>5

-----------------------------------------------------------------------------
(* Two kinds of steps: of a thread by itself, and on one connection. *)

\* A thread between two calls, or in one and neither with the lock nor with a sentinel.
Bystander(t) == thr[t].pc \notin Closing \cup {"answer", "repost"}

\* A close is where it was.
SameClosing ==
  /\ \A t \in Threads : t # Owner => (thr'[t].pc \in Closing <=> thr[t].pc \in Closing)
  /\ \A pc \in Closing : thr'[Owner].pc = pc <=> thr[Owner].pc = pc
  /\ thr[Owner].pc \in Closing => thr'[Owner].c = thr[Owner].c

LEMMA SameOwner ==
  ASSUME TypeOK, OwnerInv, client' = client, SameClosing,
         \A d \in Conns : /\ conn'[d].open = conn[d].open /\ conn'[d].gen = conn[d].gen
                          /\ conn'[d].hub # "none" <=> conn[d].hub # "none"
  PROVE  OwnerInv'
  <1>1. client.sock # 0 => client.sock \in Conns
    BY ClientTyped
  <1>2. client.sock # 0 =>
          /\ conn'[client.sock].open = TRUE /\ conn'[client.sock].gen = client.gen
          /\ conn'[client.sock].hub # "none"
    BY <1>1 DEF OwnerInv, Used
  <1>3. /\ thr'[Owner].pc \in Closing => client'.sock = 0 /\ client'.gen < MaxCloses
        /\ thr'[Owner].pc = "shut" => thr'[Owner].c \in Conns
        /\ \A t \in Threads : t # Owner => thr'[t].pc \notin Closing
    BY DEF OwnerInv, SameClosing, Closing
  <1>4. QED
    BY <1>2, <1>3 DEF OwnerInv, Used

LEMMA SameConn ==
  ASSUME NEW d \in Conns, ConnInv(d), client' = client, SameClosing,
         conn'[d].open = conn[d].open, conn'[d].gen = conn[d].gen,
         conn'[d].hub # "none" <=> conn[d].hub # "none",
         conn'[d].reader # "none" <=> conn[d].reader # "none",
         Sent(conn'[d].wire), conn'[d].hub = "gone" => conn'[d].busy = 0
  PROVE  ConnInv(d)'
  <1>1. /\ Used(d)' <=> Used(d)
        /\ ClosedBy(d, Closing)' <=> ClosedBy(d, Closing)
        /\ ClosedBy(d, {"shut"})' <=> ClosedBy(d, {"shut"})
    BY DEF Used, ClosedBy, SameClosing, Closing
  <1>2. QED
    BY <1>1 DEF ConnInv

LEMMA SameApart ==
  ASSUME Apart, \A d \in Conns : /\ conn'[d].gen = conn[d].gen
                                 /\ conn'[d].hub # "none" <=> conn[d].hub # "none"
  PROVE  Apart'
  BY DEF Apart, Used

LEMMA ThreadSame ==
  ASSUME NEW t \in Threads, ThreadInv(t), thr'[t] = thr[t], lock' = t <=> lock = t,
         \A d \in Conns : /\ conn'[d].open = conn[d].open /\ conn'[d].gen = conn[d].gen
                          /\ conn'[d].hub # "none" <=> conn[d].hub # "none"
  PROVE  ThreadInv(t)'
  BY DEF ThreadInv, Used, Calling

\* A thread moves, and nothing that is shared.
LEMMA AloneStep ==
  ASSUME IInv, TypeOK', NEW t \in Threads, Bystander(t), Bystander(t)', ThreadInv(t)',
         \A u \in Threads \ {t} : thr'[u] = thr[u],
         UNCHANGED <<client, conn, queue, lock>>
  PROVE  IInv'
  <1>1. SameClosing
    BY ThreadsAssumption DEF SameClosing, Bystander, Closing
  <1>2. \A u \in Threads : u # t => ThreadInv(u)'
    BY ThreadSame DEF IInv
  <1>3. ASSUME NEW d \in Conns PROVE ConnInv(d)' /\ LiveInv(d)' /\ EndedInv(d)'
    <2>1. SamePair(d)
      BY DEF SamePair
    <2>2. \A u \in Threads : Alike(u, d, conn[d].gen)
      BY SameAlike, AwayAlike DEF Bystander
    <2>3. ConnInv(d)'
      BY <1>1, SameConn DEF IInv, ConnInv
    <2>4. QED
      BY <2>1, <2>2, <2>3, PairKeeps DEF IInv
  <1>4. ASSUME NEW g \in Gens PROVE FreeInv(g)'
    <2>1. \A u \in Threads : Alike(u, 1, g)
      BY SameAlike, AwayAlike DEF Bystander
    <2>2. QED
      BY <2>1 DEF IInv, FreeInv, Alike, Used
  <1>5. OwnerInv' /\ Apart'
    BY <1>1, SameOwner, SameApart DEF IInv
  <1>6. QED
    BY <1>2, <1>3, <1>4, <1>5 DEF IInv

\* What a thread does is on the connection c, with the queues of g.
On(t, c, g) ==
  /\ thr[t].pc \notin Closing
  /\ thr[t].pc = "answer" => thr[t].c = c
  /\ thr[t].pc = "repost" => thr[t].g = g

\* The step is on the connection c: other connections and their queues stay.
LEMMA PairStep ==
  ASSUME IInv, TypeOK', NEW c \in Conns, NEW g \in Gens, Used(c), g = conn[c].gen,
         client' = client,
         \A d \in Conns \ {c} : conn'[d] = conn[d],
         \A h \in Gens \ {g} : queue'[h] = queue[h],
         conn'[c].open = conn[c].open, conn'[c].gen = g,
         conn'[c].hub # "none", conn'[c].reader # "none",
         Sent(conn'[c].wire), conn'[c].hub = "gone" => conn'[c].busy = 0,
         \A t \in Threads : thr'[t] = thr[t] \/ (On(t, c, g) /\ On(t, c, g)'),
         \A t \in Threads : ThreadInv(t)',
         LiveInv(c)', EndedInv(c)'
  PROVE  IInv'
  <1>1. SameClosing
    BY ThreadsAssumption DEF SameClosing, On, Closing
  <1>2. \A d \in Conns :
          /\ conn'[d].open = conn[d].open /\ conn'[d].gen = conn[d].gen
          /\ conn'[d].hub # "none" <=> conn[d].hub # "none"
    BY DEF Used
  <1>3. ASSUME NEW d \in Conns PROVE ConnInv(d)'
    <2>1. conn'[d].reader # "none" <=> conn[d].reader # "none"
      BY DEF IInv, ConnInv
    <2>2. Sent(conn'[d].wire) /\ (conn'[d].hub = "gone" => conn'[d].busy = 0)
      BY DEF IInv, ConnInv
    <2>3. QED
      BY <1>1, <1>2, <2>1, <2>2, SameConn DEF IInv
  <1>4. ASSUME NEW d \in Conns, d # c PROVE LiveInv(d)' /\ EndedInv(d)'
    <2>1. CASE ~Used(d)
      BY <1>2, <2>1 DEF LiveInv, EndedInv, Used
    <2>2. CASE Used(d)
      <3>1. conn[d].gen # g
        BY <1>4, <2>2 DEF IInv, Apart
      <3>2. SamePair(d)
        BY <1>4, <3>1, ConnTyped DEF SamePair, IInv
      <3>3. ASSUME NEW t \in Threads PROVE Alike(t, d, conn[d].gen)
        <4>1. CASE thr'[t] = thr[t]
          BY <4>1, SameAlike
        <4>2. CASE On(t, c, g) /\ On(t, c, g)'
          <5>1. /\ thr[t].pc = "answer" => thr[t].c # d
                /\ thr'[t].pc = "answer" => thr'[t].c # d
                /\ thr[t].pc = "repost" => thr[t].g # conn[d].gen
                /\ thr'[t].pc = "repost" => thr'[t].g # conn[d].gen
            BY <1>4, <3>1, <4>2 DEF On
          <5>2. QED
            BY <5>1, AwayAlike
        <4>3. QED
          BY <4>1, <4>2
      <3>4. QED
        BY <3>2, <3>3, PairKeeps DEF IInv
    <2>3. QED
      BY <2>1, <2>2
  <1>5. ASSUME NEW h \in Gens, \A d \in Conns : Used(d)' => conn'[d].gen # h
        PROVE  /\ queue'[h].resp = <<>> /\ queue'[h].inbox = <<>>
               /\ \A t \in Threads : ~HasResp(t, h)' /\ ~HasInbox(t, h)'
    <2>1. h # g
      BY <1>5 DEF Used
    <2>2. \A d \in Conns : Used(d) => conn[d].gen # h
      BY <1>2, <1>5 DEF Used
    <2>3. /\ queue[h].resp = <<>> /\ queue[h].inbox = <<>>
          /\ \A t \in Threads : ~HasResp(t, h) /\ ~HasInbox(t, h)
      BY <2>2 DEF IInv, FreeInv
    <2>4. QED
      BY <2>1, <2>3 DEF On, HasResp, HasInbox
  <1>6. \A h \in Gens : FreeInv(h)'
    BY <1>5 DEF FreeInv
  <1>7. OwnerInv' /\ Apart'
    BY <1>1, <1>2, SameOwner, SameApart DEF IInv
  <1>8. QED
    BY <1>3, <1>4, <1>6, <1>7 DEF IInv

-----------------------------------------------------------------------------
(* A thread by itself *)

\* Who waits for an answer waits on.
Unanswered == \A t \in Threads : thr[t].pc = "answer" => thr'[t] = thr[t]

LEMMA Fields ==
  ASSUME NEW t, NEW r, thr' = [thr EXCEPT ![t] = r], thr \in [Threads -> Thread], t \in Threads
  PROVE  thr'[t] = r /\ \A u \in Threads \ {t} : thr'[u] = thr[u]
  OBVIOUS

LEMMA Alone ==
  ASSUME IInv, NEW t \in Threads, NEW r \in Thread, thr' = [thr EXCEPT ![t] = r],
         UNCHANGED <<client, conn, queue, lock, pushed>>, calls' \in 0..MaxCalls,
         Bystander(t), r.pc \notin Closing \cup {"answer", "repost"},
         r.pc \in Calling => r.c \in Conns /\ Used(r.c) /\ r.n # 0,
         r.pc = "lock" /\ conn[r.c].open = TRUE => r.g = conn[r.c].gen,
         r.pc \in Calling => r.kind \notin Receiving,
         r.pc \in {"inbox", "take"} => r.kind \in Receiving
  PROVE  IInv' /\ Unanswered
  <1>1. thr'[t] = r /\ \A u \in Threads \ {t} : thr'[u] = thr[u]
    BY DEF IInv, TypeOK
  <1>2. TypeOK'
    BY DEF IInv, TypeOK
  <1>3. lock # t
    BY DEF IInv, ThreadInv, Bystander
  <1>4. ThreadInv(t)'
    BY <1>1, <1>3 DEF ThreadInv, Used
  <1>5. Bystander(t)'
    BY <1>1 DEF Bystander
  <1>6. IInv'
    BY <1>1, <1>2, <1>4, <1>5, AloneStep
  <1>7. Unanswered
    BY <1>1 DEF Unanswered, Bystander
  <1>8. QED
    BY <1>6, <1>7

LEMMA IdleThread ==
  /\ Idle \in [pc : PCs, kind : Kinds, c : 0..MaxConns, g : Gens, n : 0..MaxCalls]
  /\ Idle \in Thread /\ Idle.pc = "idle"
  <1>1. 0 \in 0..MaxConns /\ 0 \in 0..MaxCalls /\ 0 \in Gens
    BY BoundsAssumption DEF Gens
  <1>2. QED
    BY <1>1 DEF Idle, Thread, PCs, Kinds

LEMMA MoreCalls ==
  ASSUME TypeOK, calls < MaxCalls
  PROVE  calls + 1 \in 0..MaxCalls /\ calls + 1 # 0
  BY BoundsAssumption DEF TypeOK

LEMMA StepRequest ==
  ASSUME IInv, NEW t \in Threads, Request(t)
  PROVE  IInv' /\ Unanswered
  <1> DEFINE c == client.sock
             n == calls + 1
             r == [Idle EXCEPT !.pc = "queue", !.kind = "request", !.c = c, !.n = n]
  <1>1. c \in Conns /\ Used(c) /\ c \in 0..MaxConns /\ n \in 0..MaxCalls /\ n # 0
    BY ClientTyped, MoreCalls DEF Request, IInv, OwnerInv
  <1>2. thr' = [thr EXCEPT ![t] = r] /\ calls' = n
        /\ UNCHANGED <<client, conn, queue, lock, pushed>> /\ thr[t].pc = "idle"
    BY DEF Request, At
  <1> HIDE DEF c, n
  <1>3. r \in Thread /\ r.pc = "queue" /\ r.c = c /\ r.n = n /\ r.kind \notin Receiving
    BY <1>1, IdleThread DEF PCs, Kinds, Thread, Receiving
  <1> HIDE DEF r
  <1>4. QED
    BY <1>1, <1>2, <1>3, Alone DEF Bystander, Closing

LEMMA StepRecv ==
  ASSUME IInv, NEW t \in Threads, NEW kind \in {"recv", "poll"}, Recv(t, kind)
  PROVE  IInv' /\ Unanswered
  <1> DEFINE n == calls + 1
             r == [Idle EXCEPT !.pc = "inbox", !.kind = kind]
  <1>1. n \in 0..MaxCalls
    BY MoreCalls DEF Recv, IInv
  <1>2. thr' = [thr EXCEPT ![t] = r] /\ calls' = n
        /\ UNCHANGED <<client, conn, queue, lock, pushed>> /\ thr[t].pc = "idle"
    BY DEF Recv, At
  <1>3. r \in Thread /\ r.pc = "inbox" /\ r.kind \in Receiving
    BY IdleThread DEF PCs, Kinds, Thread, Receiving
  <1> HIDE DEF n, r
  <1>4. QED
    BY <1>1, <1>2, <1>3, Alone DEF Bystander, Closing, Calling

LEMMA StepTakeQueue ==
  ASSUME IInv, NEW t \in Threads, TakeQueue(t)
  PROVE  IInv' /\ Unanswered
  <1> DEFINE r == [thr[t] EXCEPT !.pc = "lock", !.g = client.gen]
  <1>1. thr[t].pc = "queue" /\ UNCHANGED <<client, conn, queue, lock, pushed, calls>>
    BY DEF TakeQueue, At, Counts
  <1>2. thr' = [thr EXCEPT ![t] = r]
    BY DEF TakeQueue
  <1>3. r \in Thread /\ r.pc = "lock" /\ r.c = thr[t].c /\ r.n = thr[t].n /\ r.g = client.gen
        /\ r.kind = thr[t].kind
    BY ThreadTyped, ClientTyped DEF Thread, PCs, IInv
  <1>4. /\ thr[t].c \in Conns /\ Used(thr[t].c) /\ thr[t].n # 0
        /\ thr[t].kind \notin Receiving
    BY <1>1 DEF IInv, ThreadInv, Calling
  <1>5. conn[thr[t].c].open = TRUE => conn[thr[t].c].gen = client.gen
    BY <1>4 DEF IInv, ConnInv
  <1>6. calls' \in 0..MaxCalls
    BY <1>1 DEF IInv, TypeOK
  <1> HIDE DEF r
  <1>7. QED
    BY <1>1, <1>2, <1>3, <1>4, <1>5, <1>6, Alone DEF Bystander, Closing

LEMMA StepTakeInbox ==
  ASSUME IInv, NEW t \in Threads, TakeInbox(t)
  PROVE  IInv' /\ Unanswered
  <1> DEFINE r == [thr[t] EXCEPT !.pc = "take", !.g = client.gen]
  <1>1. thr[t].pc = "inbox" /\ UNCHANGED <<client, conn, queue, lock, pushed, calls>>
    BY DEF TakeInbox, At, Counts
  <1>2. thr' = [thr EXCEPT ![t] = r]
    BY DEF TakeInbox
  <1>3. r \in Thread /\ r.pc = "take" /\ r.kind = thr[t].kind
    BY ThreadTyped, ClientTyped DEF Thread, PCs, IInv
  <1>4. calls' \in 0..MaxCalls /\ thr[t].kind \in Receiving
    BY <1>1 DEF IInv, TypeOK, ThreadInv
  <1> HIDE DEF r
  <1>5. QED
    BY <1>1, <1>2, <1>3, <1>4, Alone DEF Bystander, Closing, Calling

\* A call ends that holds nothing.
LEMMA StepEnds ==
  ASSUME IInv, NEW t \in Threads, Bystander(t), Ends(t),
         UNCHANGED <<client, conn, queue, lock, Counts>>
  PROVE  IInv' /\ Unanswered
  <1>1. calls' \in 0..MaxCalls /\ UNCHANGED <<client, conn, queue, lock, pushed>>
    BY DEF IInv, TypeOK, Counts
  <1>2. thr' = [thr EXCEPT ![t] = Idle]
    BY DEF Ends
  <1>3. QED
    BY <1>1, <1>2, IdleThread, Alone DEF Closing, Calling

LEMMA StepTimeOut ==
  ASSUME IInv, NEW t \in Threads, TimeOut(t)
  PROVE  IInv' /\ Unanswered
  BY StepEnds DEF TimeOut, At, Bystander, Closing

-----------------------------------------------------------------------------
(* The hub *)

LEMMA HubStep ==
  ASSUME IInv, NEW c \in Conns, NEW k \in Conn, conn' = [conn EXCEPT ![c] = k],
         UNCHANGED <<client, queue, lock, thr, calls>>, pushed' \in 0..MaxPushes,
         conn[c].hub # "none", k.open = conn[c].open, k.gen = conn[c].gen,
         k.reader = conn[c].reader, k.hub # "none", Sent(k.wire),
         k.hub = "gone" => k.busy = 0,
         ~Retired(c) => Pipe(c)'
  PROVE  IInv' /\ Unanswered
  <1> DEFINE g == conn[c].gen
  <1>1. conn'[c] = k /\ \A d \in Conns \ {c} : conn'[d] = conn[d]
    BY DEF IInv, TypeOK
  <1>2. TypeOK'
    BY DEF IInv, TypeOK
  <1>3. g \in Gens /\ Used(c) /\ conn[c].reader # "none"
    BY ConnTyped DEF IInv, ConnInv, Used
  <1>4. \A t \in Threads : ThreadInv(t)'
    BY <1>1, ThreadSame DEF IInv
  <1>5. LiveInv(c)'
    <2>1. CASE Retired(c)
      BY <1>1, <2>1 DEF LiveInv, Retired
    <2>2. CASE ~Retired(c)
      <3>1. /\ NoClosed(queue[g].inbox)
            /\ \A t \in Threads : ~HasResp(t, g) /\ ~HasInbox(t, g)
        BY <1>3, <2>2 DEF IInv, LiveInv
      <3>2. /\ NoClosed(queue'[g].inbox) /\ conn'[c].gen = g
            /\ \A t \in Threads : ~HasResp(t, conn[c].gen)' /\ ~HasInbox(t, conn[c].gen)'
        BY <1>1, <3>1 DEF HasResp, HasInbox
      <3>3. QED
        BY <2>2, <3>2 DEF LiveInv
    <2>3. QED
      BY <2>1, <2>2
  <1>6. EndedInv(c)'
    <2>1. CASE ~Retired(c)
      BY <1>1, <2>1 DEF EndedInv, Retired
    <2>2. CASE Retired(c)
      <3>1. EndedResp(c) /\ EndedInbox(c)
        BY <1>3, <2>2 DEF IInv, EndedInv
      <3>2. EndedResp(c)'
        BY <1>1, <3>1 DEF EndedResp, HasResp, Waiting
      <3>3. EndedInbox(c)'
        BY <1>1, <3>1 DEF EndedInbox, HasInbox
      <3>4. QED
        BY <3>2, <3>3 DEF EndedInv
    <2>3. QED
      BY <2>1, <2>2
  <1> HIDE DEF g
  <1>7. IInv'
    BY <1>1, <1>2, <1>3, <1>4, <1>5, <1>6, PairStep DEF g
  <1>8. QED
    BY <1>7 DEF Unanswered

\* The way of an answer, in a step of the hub or of the reader.
LEMMA PipeIs ==
  ASSUME NEW c \in Conns, Used(c), ~Retired(c), LiveInv(c)
  PROVE  LET resp == queue[conn[c].gen].resp  wire == conn[c].wire IN
         \/ Unasked(c) /\ NoAnswer(wire) /\ resp = <<>>
         \/ \E t \in Threads : Waiting(t, c) /\ LET n == thr[t].n IN
              \/ conn[c].asked = <<n>> /\ conn[c].busy = 0 /\ NoAnswer(wire) /\ resp = <<>>
              \/ conn[c].asked = <<>> /\ conn[c].busy = n /\ NoAnswer(wire) /\ resp = <<>>
              \/ Unasked(c) /\ OneAnswer(wire, n) /\ resp = <<>>
              \/ Unasked(c) /\ NoAnswer(wire) /\ resp = <<AnswerTo(n)>>
  BY DEF LiveInv, Pipe

LEMMA StepHubTakes ==
  ASSUME IInv, NEW c \in Conns, HubTakes(c)
  PROVE  IInv' /\ Unanswered
  <1> DEFINE b == Head(conn[c].asked)
             a == Tail(conn[c].asked)
             reg == conn[c].reg \/ Head(conn[c].asked) = conn[c].num
             k == [conn[c] EXCEPT !.busy = b, !.asked = a, !.reg = reg]
  <1>1. /\ conn[c].hub = "up" /\ conn[c].busy = 0 /\ conn[c].asked # <<>>
        /\ UNCHANGED <<client, queue, lock, thr, calls, pushed>>
    BY DEF HubTakes, Counts
  <1>2. b \in 1..MaxCalls /\ a \in Seq(1..MaxCalls) /\ b \in 0..MaxCalls
    <2>1. conn[c].asked \in Seq(1..MaxCalls)
      BY ConnTyped DEF IInv
    <2>2. \A s \in Seq(1..MaxCalls) : s # <<>> =>
            Head(s) \in 1..MaxCalls /\ Tail(s) \in Seq(1..MaxCalls)
      BY HeadTailProperties
    <2>3. \A i \in 1..MaxCalls : i \in 0..MaxCalls
      BY BoundsAssumption
    <2>4. QED
      BY <1>1, <2>1, <2>2, <2>3
  <1>3. conn' = [conn EXCEPT ![c] = k]
    BY DEF HubTakes, IInv, TypeOK
  <1>4. reg \in BOOLEAN
    BY ConnTyped DEF IInv
  <1>5. /\ k \in Conn /\ k.open = conn[c].open /\ k.gen = conn[c].gen /\ k.hub = "up"
        /\ k.reader = conn[c].reader /\ k.wire = conn[c].wire /\ k.busy = b /\ k.asked = a
    <2> HIDE DEF a, b, reg
    <2>1. QED
      BY <1>1, <1>2, <1>4, ConnTyped DEF IInv, Conn
  <1>6. conn'[c] = k
    BY <1>3 DEF IInv, TypeOK
  <1>7. Sent(k.wire)
    BY <1>5 DEF IInv, ConnInv
  <1>8. ASSUME ~Retired(c) PROVE Pipe(c)'
    <2>1. ~Unasked(c) /\ Used(c)
      BY <1>1 DEF Unasked, Used
    <2>2. PICK t \in Threads :
            /\ Waiting(t, c) /\ conn[c].asked = <<thr[t].n>> /\ NoAnswer(conn[c].wire)
            /\ queue[conn[c].gen].resp = <<>>
      BY <1>1, <1>8, <2>1, PipeIs DEF IInv
    <2>3. b = thr[t].n /\ a = <<>>
      BY <2>2
    <2> HIDE DEF a, b, k
    <2>4. QED
      BY <1>1, <1>5, <1>6, <2>2, <2>3 DEF Pipe, Waiting
  <1>9. pushed' \in 0..MaxPushes
    BY <1>1 DEF IInv, TypeOK
  <1> HIDE DEF k
  <1>10. QED
    BY <1>1, <1>3, <1>5, <1>7, <1>8, <1>9, HubStep

LEMMA StepHubAnswers ==
  ASSUME IInv, NEW c \in Conns, HubAnswers(c)
  PROVE  IInv' /\ Unanswered
  <1> DEFINE n == conn[c].busy
             w == Append(conn[c].wire, AnswerTo(n))
  <1>1. /\ conn[c].hub = "up" /\ n # 0
        /\ UNCHANGED <<client, queue, lock, thr, calls, pushed>>
    BY DEF HubAnswers, Counts
  <1>2. n \in 0..MaxCalls /\ conn[c].wire \in Seq(Frame) /\ Sent(conn[c].wire)
    BY ConnTyped DEF IInv, ConnInv
  <1>3. w \in Seq(Frame) /\ Sent(w)
    BY <1>2, Frames, AppendFrame
  <1>4. pushed' \in 0..MaxPushes
    BY <1>1 DEF IInv, TypeOK
  <1>5. ASSUME ~Retired(c)
        PROVE  /\ NoAnswer(conn[c].wire) /\ queue[conn[c].gen].resp = <<>> /\ conn[c].asked = <<>>
               /\ \E t \in Threads : Waiting(t, c) /\ thr[t].n = n
    <2>1. ~Unasked(c) /\ Used(c)
      BY <1>1 DEF Unasked, Used
    <2>2. QED
      BY <1>1, <1>5, <2>1, PipeIs DEF IInv
  <1>6. CASE conn[c].open
    <2> DEFINE k == [conn[c] EXCEPT !.busy = 0, !.wire = w]
    <2>1. conn' = [conn EXCEPT ![c] = k]
      BY <1>6 DEF HubAnswers, IInv, TypeOK
    <2>2. /\ k \in Conn /\ k.open = conn[c].open /\ k.gen = conn[c].gen /\ k.hub = "up"
          /\ k.reader = conn[c].reader /\ k.wire = w /\ k.busy = 0 /\ k.asked = conn[c].asked
      <3> HIDE DEF w
      <3>1. 0 \in 0..MaxCalls
        BY BoundsAssumption
      <3>2. QED
        BY <1>1, <1>3, <3>1, ConnTyped DEF IInv, Conn
    <2>3. conn'[c] = k
      BY <2>1 DEF IInv, TypeOK
    <2>4. ASSUME ~Retired(c) PROVE Pipe(c)'
      <3>1. OneAnswer(w, n)
        BY <1>2, <1>5, <2>4, AppendAnswer
      <3> HIDE DEF w, k
      <3>2. Unasked(c)'
        BY <1>5, <2>2, <2>3, <2>4 DEF Unasked
      <3>3. QED
        BY <1>1, <1>5, <2>2, <2>3, <2>4, <3>1, <3>2 DEF Pipe, Waiting
    <2> HIDE DEF k, w
    <2>5. QED
      BY <1>1, <1>3, <1>4, <2>1, <2>2, <2>4, HubStep
  <1>7. CASE ~conn[c].open
    <2> DEFINE k == [conn[c] EXCEPT !.busy = 0, !.hub = "gone"]
    <2>1. conn' = [conn EXCEPT ![c] = k]
      BY <1>7 DEF HubAnswers, IInv, TypeOK
    <2>2. /\ k \in Conn /\ k.open = conn[c].open /\ k.gen = conn[c].gen /\ k.hub = "gone"
          /\ k.reader = conn[c].reader /\ k.wire = conn[c].wire /\ k.busy = 0
      <3>1. 0 \in 0..MaxCalls
        BY BoundsAssumption
      <3>2. QED
        BY <3>1, ConnTyped DEF IInv, Conn
    <2>3. conn'[c] = k
      BY <2>1 DEF IInv, TypeOK
    <2> HIDE DEF k
    <2>4. ASSUME ~Retired(c) PROVE Pipe(c)'
      BY <1>1, <1>5, <2>2, <2>3, <2>4 DEF Pipe, Unasked
    <2>5. QED
      BY <1>1, <1>2, <1>4, <2>1, <2>2, <2>4, HubStep
  <1>8. QED
    BY <1>6, <1>7

LEMMA PushTyped ==
  ASSUME IInv, pushed < MaxPushes, pushed' = pushed + 1
  PROVE  pushed' \in 0..MaxPushes
  BY BoundsAssumption DEF IInv, TypeOK

LEMMA StepHubPushes ==
  ASSUME IInv, NEW c \in Conns, HubPushes(c)
  PROVE  IInv' /\ Unanswered
  <1> DEFINE w == Append(conn[c].wire, Push)
             k == [conn[c] EXCEPT !.wire = w]
  <1>1. conn[c].hub = "up" /\ UNCHANGED <<client, queue, lock, thr, calls>>
    BY DEF HubPushes
  <1>2. conn[c].wire \in Seq(Frame) /\ Sent(conn[c].wire)
    BY ConnTyped DEF IInv, ConnInv
  <1>3. w \in Seq(Frame) /\ Sent(w)
    BY <1>2, Frames, AppendFrame
  <1>4. conn' = [conn EXCEPT ![c] = k]
    BY DEF HubPushes, IInv, TypeOK
  <1>5. /\ k \in Conn /\ k.open = conn[c].open /\ k.gen = conn[c].gen /\ k.hub = "up"
        /\ k.reader = conn[c].reader /\ k.wire = w /\ k.busy = conn[c].busy
        /\ k.asked = conn[c].asked
    <2> HIDE DEF w
    <2>1. QED
      BY <1>1, <1>3, ConnTyped DEF IInv, Conn
  <1>6. conn'[c] = k
    BY <1>4 DEF IInv, TypeOK
  <1>7. pushed' \in 0..MaxPushes
    BY PushTyped DEF HubPushes
  <1>8. /\ NoAnswer(conn[c].wire) => NoAnswer(w)
        /\ \A n : OneAnswer(conn[c].wire, n) => OneAnswer(w, n)
    BY <1>2, Frames, AppendFrame
  <1> HIDE DEF k, w
  <1>9. ASSUME ~Retired(c) PROVE Pipe(c)'
    <2>1. Used(c) /\ (Unasked(c) => Unasked(c)')
      BY <1>1, <1>5, <1>6 DEF Used, Unasked
    <2>2. CASE Unasked(c) /\ NoAnswer(conn[c].wire) /\ queue[conn[c].gen].resp = <<>>
      BY <1>1, <1>5, <1>6, <1>8, <2>1, <2>2 DEF Pipe
    <2>3. ASSUME NEW t \in Threads, Waiting(t, c), NEW n, n = thr[t].n,
            \/ conn[c].asked = <<n>> /\ conn[c].busy = 0 /\ NoAnswer(conn[c].wire)
               /\ queue[conn[c].gen].resp = <<>>
            \/ conn[c].asked = <<>> /\ conn[c].busy = n /\ NoAnswer(conn[c].wire)
               /\ queue[conn[c].gen].resp = <<>>
            \/ Unasked(c) /\ OneAnswer(conn[c].wire, n) /\ queue[conn[c].gen].resp = <<>>
            \/ Unasked(c) /\ NoAnswer(conn[c].wire)
               /\ queue[conn[c].gen].resp = <<AnswerTo(n)>>
          PROVE Pipe(c)'
      BY <1>1, <1>5, <1>6, <1>8, <2>1, <2>3 DEF Pipe, Waiting
    <2>4. QED
      BY <1>9, <2>1, <2>2, <2>3, PipeIs DEF IInv
  <1>10. QED
    BY <1>1, <1>3, <1>4, <1>5, <1>7, <1>9, HubStep DEF IInv, ConnInv

LEMMA StepHubGarbles ==
  ASSUME IInv, NEW c \in Conns, HubGarbles(c)
  PROVE  IInv' /\ Unanswered
  <1> DEFINE w == Append(conn[c].wire, Junk)
             k == [conn[c] EXCEPT !.busy = 0, !.wire = w]
  <1>1. /\ conn[c].hub = "up" /\ conn[c].busy # 0
        /\ UNCHANGED <<client, queue, lock, thr, calls>>
    BY DEF HubGarbles
  <1>2. conn[c].wire \in Seq(Frame) /\ Sent(conn[c].wire)
    BY ConnTyped DEF IInv, ConnInv
  <1>3. w \in Seq(Frame) /\ Sent(w) /\ (NoAnswer(conn[c].wire) => NoAnswer(w))
    BY <1>2, Frames, AppendFrame
  <1>4. conn' = [conn EXCEPT ![c] = k]
    BY DEF HubGarbles, IInv, TypeOK
  <1>5. /\ k \in Conn /\ k.open = conn[c].open /\ k.gen = conn[c].gen /\ k.hub = "up"
        /\ k.reader = conn[c].reader /\ k.wire = w /\ k.busy = 0 /\ k.asked = conn[c].asked
    <2> HIDE DEF w
    <2>1. 0 \in 0..MaxCalls
      BY BoundsAssumption
    <2>2. QED
      BY <1>1, <1>3, <2>1, ConnTyped DEF IInv, Conn
  <1>6. conn'[c] = k
    BY <1>4 DEF IInv, TypeOK
  <1>7. pushed' \in 0..MaxPushes
    BY PushTyped DEF HubGarbles
  <1> HIDE DEF k, w
  <1>8. ASSUME ~Retired(c) PROVE Pipe(c)'
    <2>1. ~Unasked(c) /\ Used(c)
      BY <1>1 DEF Unasked, Used
    <2>2. NoAnswer(conn[c].wire) /\ queue[conn[c].gen].resp = <<>> /\ conn[c].asked = <<>>
      BY <1>1, <1>8, <2>1, PipeIs DEF IInv
    <2>3. QED
      BY <1>1, <1>3, <1>5, <1>6, <2>2 DEF Pipe, Unasked
  <1>9. QED
    BY <1>1, <1>3, <1>4, <1>5, <1>7, <1>8, HubStep

LEMMA StepHubGoes ==
  ASSUME IInv, NEW c \in Conns, HubGoes(c)
  PROVE  IInv' /\ Unanswered
  <1> DEFINE k == [conn[c] EXCEPT !.hub = "gone", !.busy = 0]
  <1>1. conn[c].hub = "up" /\ UNCHANGED <<client, queue, lock, thr, calls, pushed>>
    BY DEF HubGoes, Counts
  <1>2. conn' = [conn EXCEPT ![c] = k]
    BY DEF HubGoes, IInv, TypeOK
  <1>3. /\ k \in Conn /\ k.open = conn[c].open /\ k.gen = conn[c].gen /\ k.hub = "gone"
        /\ k.reader = conn[c].reader /\ k.wire = conn[c].wire /\ k.busy = 0
    <2>1. 0 \in 0..MaxCalls
      BY BoundsAssumption
    <2>2. QED
      BY <2>1, ConnTyped DEF IInv, Conn
  <1>4. conn'[c] = k
    BY <1>2 DEF IInv, TypeOK
  <1>5. pushed' \in 0..MaxPushes /\ Sent(conn[c].wire)
    BY <1>1 DEF IInv, TypeOK, ConnInv
  <1> HIDE DEF k
  <1>6. ASSUME ~Retired(c) PROVE Pipe(c)'
    <2>1. Used(c) /\ Unasked(c)'
      BY <1>1, <1>3, <1>4 DEF Used, Unasked
    <2>2. QED
      BY <1>1, <1>3, <1>4, <1>6, <2>1, PipeIs DEF Pipe, Waiting, IInv
  <1>7. QED
    BY <1>1, <1>2, <1>3, <1>5, <1>6, HubStep

-----------------------------------------------------------------------------
(* The reader *)

LEMMA ReaderStep ==
  ASSUME IInv, NEW c \in Conns, NEW k \in Conn, NEW g \in Gens, g = conn[c].gen,
         NEW q \in [resp : Seq(Frame), inbox : Seq(Frame)], Used(c),
         conn' = [conn EXCEPT ![c] = k], queue' = [queue EXCEPT ![g] = q],
         UNCHANGED <<client, lock, thr, calls, pushed>>,
         k.open = conn[c].open, k.gen = g, k.hub = conn[c].hub, k.busy = conn[c].busy,
         k.reader # "none", Sent(k.wire),
         LiveInv(c)', EndedInv(c)'
  PROVE  IInv' /\ Unanswered
  <1>1. conn'[c] = k /\ \A d \in Conns \ {c} : conn'[d] = conn[d]
    BY DEF IInv, TypeOK
  <1>2. \A h \in Gens \ {g} : queue'[h] = queue[h]
    BY DEF IInv, TypeOK
  <1>3. TypeOK'
    BY DEF IInv, TypeOK
  <1>4. \A t \in Threads : ThreadInv(t)'
    BY <1>1, ThreadSame DEF IInv
  <1>5. conn'[c].hub = "gone" => conn'[c].busy = 0
    BY <1>1 DEF IInv, ConnInv
  <1>6. IInv'
    BY <1>1, <1>2, <1>3, <1>4, <1>5, PairStep DEF Used
  <1>7. QED
    BY <1>6 DEF Unanswered

LEMMA PostedStep ==
  ASSUME IInv, NEW c \in Conns, conn[c].reader \in {"check", "recv"},
         NEW wire \in Seq(Frame), Sent(wire), Posted(c, wire),
         UNCHANGED <<client, lock, thr, Counts>>
  PROVE  IInv' /\ Unanswered
  <1> DEFINE g == conn[c].gen
             resp == Append(queue[g].resp, CLOSED)
             inbox == Append(queue[g].inbox, CLOSED)
             q == [resp |-> resp, inbox |-> inbox]
             k == [conn[c] EXCEPT !.reader = "retired", !.wire = wire]
  <1>1. /\ conn' = [conn EXCEPT ![c] = k] /\ queue' = [queue EXCEPT ![g] = q]
        /\ UNCHANGED <<client, lock, thr, calls, pushed>>
    BY DEF Posted, Counts, IInv, TypeOK
  <1>2. /\ g \in Gens /\ queue[g].resp \in Seq(Frame) /\ queue[g].inbox \in Seq(Frame)
    BY ConnTyped, QueueTyped DEF IInv
  <1>3. q \in [resp : Seq(Frame), inbox : Seq(Frame)] /\ q.resp = resp /\ q.inbox = inbox
    BY <1>2, Frames, AppendProperties
  <1>4. /\ k \in Conn /\ k.open = conn[c].open /\ k.gen = g /\ k.hub = conn[c].hub
        /\ k.reader = "retired" /\ k.wire = wire /\ k.busy = conn[c].busy
    BY ConnTyped DEF IInv, Conn
  <1>5. conn'[c] = k /\ queue'[g] = q
    BY <1>1, <1>2 DEF IInv, TypeOK
  <1>6. Used(c) /\ ~Retired(c)
    BY DEF IInv, ConnInv, Retired
  <1>7. /\ NoClosed(queue[g].inbox)
        /\ \A t \in Threads : ~HasResp(t, g) /\ ~HasInbox(t, g)
        /\ \/ queue[g].resp = <<>>
           \/ \E t \in Threads : Waiting(t, c) /\ queue[g].resp = <<AnswerTo(thr[t].n)>>
    BY <1>6, PipeIs DEF IInv, LiveInv
  <1>8. EndsClosed(inbox)
    BY <1>2, <1>7, Frames, AppendFrame
  <1>9. \/ resp = <<CLOSED>>
        \/ \E t \in Threads : Waiting(t, c) /\ resp = <<AnswerTo(thr[t].n), CLOSED>>
    <2>1. CASE queue[g].resp = <<>>
      BY <2>1, EmptyRow
    <2>2. ASSUME NEW t \in Threads, queue[g].resp = <<AnswerTo(thr[t].n)>>
          PROVE  resp = <<AnswerTo(thr[t].n), CLOSED>>
      <3>1. AnswerTo(thr[t].n) \in Frame /\ CLOSED \in Frame
        BY Frames, ThreadTyped DEF IInv
      <3>2. QED
        BY <2>2, <3>1, AppendTwo
    <2> HIDE DEF resp
    <2>3. QED
      BY <1>7, <2>1, <2>2
  <1> HIDE DEF k, q, resp, inbox
  <1>10. \A t \in Threads : ~HasResp(t, conn[c].gen)' /\ ~HasInbox(t, conn[c].gen)'
    BY <1>1, <1>4, <1>5, <1>7 DEF HasResp, HasInbox
  <1>11. EndedResp(c)'
    BY <1>1, <1>3, <1>4, <1>5, <1>9, <1>10 DEF EndedResp, Waiting
  <1>12. EndedInbox(c)'
    BY <1>3, <1>4, <1>5, <1>8, <1>10 DEF EndedInbox
  <1>13. LiveInv(c)' /\ EndedInv(c)'
    BY <1>4, <1>5, <1>11, <1>12 DEF LiveInv, EndedInv, Retired
  <1> HIDE DEF g
  <1>14. QED
    BY <1>1, <1>2, <1>3, <1>4, <1>6, <1>13, ReaderStep DEF g

LEMMA PipeSame ==
  ASSUME NEW c, Pipe(c), queue' = queue, thr' = thr,
         conn'[c].hub = conn[c].hub, conn'[c].asked = conn[c].asked,
         conn'[c].busy = conn[c].busy, conn'[c].wire = conn[c].wire,
         conn'[c].gen = conn[c].gen
  PROVE  Pipe(c)'
  BY DEF Pipe, Unasked, Waiting

LEMMA StepCheck ==
  ASSUME IInv, NEW c \in Conns, Check(c)
  PROVE  IInv' /\ Unanswered
  <1>1. conn[c].wire \in Seq(Frame) /\ Sent(conn[c].wire) /\ Used(c) /\ conn[c].gen \in Gens
    BY ConnTyped DEF Check, IInv, ConnInv
  <1>2. CASE Posted(c, conn[c].wire)
    BY <1>1, <1>2, PostedStep DEF Check
  <1>3. CASE conn' = [conn EXCEPT ![c].reader = "recv"] /\ queue' = queue
    <2> DEFINE g == conn[c].gen
               k == [conn[c] EXCEPT !.reader = "recv"]
    <2>1. /\ conn' = [conn EXCEPT ![c] = k] /\ queue' = [queue EXCEPT ![g] = queue[g]]
          /\ UNCHANGED <<client, lock, thr, calls, pushed>>
      BY <1>1, <1>3 DEF Check, Counts, IInv, TypeOK
    <2>2. /\ k \in Conn /\ k.open = conn[c].open /\ k.gen = g /\ k.hub = conn[c].hub
          /\ k.reader = "recv" /\ k.wire = conn[c].wire /\ k.busy = conn[c].busy
          /\ k.asked = conn[c].asked
      BY ConnTyped DEF IInv, Conn
    <2>3. conn'[c] = k /\ ~Retired(c)
      BY <2>1 DEF Check, Retired, IInv, TypeOK
    <2>4. /\ Pipe(c) /\ NoClosed(queue[g].inbox)
          /\ \A t \in Threads : ~HasResp(t, g) /\ ~HasInbox(t, g)
      BY <1>1, <2>3 DEF IInv, LiveInv
    <2> HIDE DEF k
    <2>5. Pipe(c)'
      <3>1. /\ conn'[c].hub = conn[c].hub /\ conn'[c].asked = conn[c].asked
            /\ conn'[c].busy = conn[c].busy /\ conn'[c].wire = conn[c].wire
            /\ conn'[c].gen = conn[c].gen
        BY <2>2, <2>3
      <3>2. queue' = queue /\ thr' = thr
        BY <1>3, <2>1
      <3>3. QED
        BY <2>4, <3>1, <3>2, PipeSame
    <2>6. LiveInv(c)' /\ EndedInv(c)'
      BY <1>3, <2>1, <2>2, <2>3, <2>4, <2>5
         DEF LiveInv, EndedInv, Retired, HasResp, HasInbox
    <2>7. queue[g] \in [resp : Seq(Frame), inbox : Seq(Frame)]
      BY <1>1, QueueTyped DEF IInv
    <2> HIDE DEF g
    <2>8. QED
      BY <1>1, <2>1, <2>2, <2>6, <2>7, ReaderStep DEF g
  <1>4. QED
    BY <1>2, <1>3 DEF Check

LEMMA StepEof ==
  ASSUME IInv, NEW c \in Conns, Eof(c)
  PROVE  IInv' /\ Unanswered
  <1>1. conn[c].wire \in Seq(Frame) /\ Sent(conn[c].wire)
    BY ConnTyped DEF IInv, ConnInv
  <1>2. QED
    BY <1>1, PostedStep DEF Eof

LEMMA StepRead ==
  ASSUME IInv, NEW c \in Conns, Read(c)
  PROVE  IInv' /\ Unanswered
  <1> DEFINE w == conn[c].wire
             f == Head(w)
             rest == Tail(w)
             g == conn[c].gen
             resp == queue[g].resp
             inbox == queue[g].inbox
  <1>1. conn[c].reader = "recv" /\ w # <<>> /\ UNCHANGED <<client, lock, thr, calls, pushed>>
    BY DEF Read, Counts
  <1>2. w \in Seq(Frame) /\ Sent(w) /\ Used(c) /\ ~Retired(c) /\ g \in Gens
    BY <1>1, ConnTyped DEF IInv, ConnInv, Retired
  <1>3. /\ f \in Frame /\ rest \in Seq(Frame) /\ f.kind # "closed" /\ Sent(rest)
        /\ NoAnswer(w) => f.kind # "answer" /\ NoAnswer(rest)
        /\ \A n : OneAnswer(w, n) => \/ f = AnswerTo(n) /\ NoAnswer(rest)
                                     \/ f.kind # "answer" /\ OneAnswer(rest, n)
    BY <1>1, <1>2, TailFrame
  <1>4. CASE Posted(c, rest)
    BY <1>1, <1>3, <1>4, PostedStep DEF Counts
  <1>5. ASSUME NEW pc \in {"check", "recv"}, f.kind # "junk",
               conn' = [conn EXCEPT ![c].reader = pc, ![c].wire = rest],
               queue' = IF f.kind = "push" THEN [queue EXCEPT ![g].inbox = Append(@, f)]
                        ELSE [queue EXCEPT ![g].resp = Append(@, f)]
        PROVE  IInv' /\ Unanswered
    <2> DEFINE k == [conn[c] EXCEPT !.reader = pc, !.wire = rest]
    <2>1. conn' = [conn EXCEPT ![c] = k]
      BY <1>5 DEF IInv, TypeOK
    <2>2. /\ k \in Conn /\ k.open = conn[c].open /\ k.gen = g /\ k.hub = conn[c].hub
          /\ k.reader = pc /\ k.wire = rest /\ k.busy = conn[c].busy
          /\ k.asked = conn[c].asked
      <3> HIDE DEF rest
      <3>1. QED
        BY <1>3, ConnTyped DEF IInv, Conn
    <2>3. conn'[c] = k
      BY <2>1 DEF IInv, TypeOK
    <2>4. /\ resp \in Seq(Frame) /\ inbox \in Seq(Frame)
          /\ queue[g] \in [resp : Seq(Frame), inbox : Seq(Frame)]
      BY <1>2, QueueTyped DEF IInv
    <2>5. /\ NoClosed(inbox) /\ \A t \in Threads : ~HasResp(t, g) /\ ~HasInbox(t, g)
      BY <1>2 DEF IInv, LiveInv
    <2>6. Used(c)' /\ ~Retired(c)' /\ (Unasked(c)' <=> Unasked(c))
      BY <1>2, <2>2, <2>3 DEF Used, Retired, Unasked
    <2>7. \A t \in Threads : ~HasResp(t, conn[c].gen)' /\ ~HasInbox(t, conn[c].gen)'
      BY <1>1, <2>2, <2>3, <2>5 DEF HasResp, HasInbox
    <2>8. f # CLOSED
      BY <1>3, Frames
    <2> HIDE DEF k
    <2>9. CASE f.kind = "push"
      <3> DEFINE i == Append(inbox, f)
                 q == [queue[g] EXCEPT !.inbox = i]
      <3>1. queue' = [queue EXCEPT ![g] = q]
        BY <1>5, <2>9 DEF IInv, TypeOK
      <3>2. i \in Seq(Frame) /\ NoClosed(i)
        BY <1>3, <2>4, <2>5, <2>8, AppendFrame, AppendProperties
      <3>3. /\ q \in [resp : Seq(Frame), inbox : Seq(Frame)]
            /\ q.resp = resp /\ q.inbox = i
        <4> HIDE DEF i
        <4>1. QED
          BY <2>4, <3>2
      <3>4. queue'[g] = q
        BY <1>2, <3>1 DEF IInv, TypeOK
      <3>5. /\ NoAnswer(w) => NoAnswer(rest)
            /\ \A n : OneAnswer(w, n) => OneAnswer(rest, n)
        BY <1>3, <2>9, Frames
      <3> HIDE DEF q, i, f, rest
      <3>6. Pipe(c)'
        <4>1. CASE Unasked(c) /\ NoAnswer(w) /\ resp = <<>>
          BY <2>2, <2>3, <2>6, <3>3, <3>4, <3>5, <4>1 DEF Pipe
        <4>2. ASSUME NEW t \in Threads, Waiting(t, c), NEW n, n = thr[t].n,
                \/ conn[c].asked = <<n>> /\ conn[c].busy = 0 /\ NoAnswer(w) /\ resp = <<>>
                \/ conn[c].asked = <<>> /\ conn[c].busy = n /\ NoAnswer(w) /\ resp = <<>>
                \/ Unasked(c) /\ OneAnswer(w, n) /\ resp = <<>>
                \/ Unasked(c) /\ NoAnswer(w) /\ resp = <<AnswerTo(n)>>
              PROVE Pipe(c)'
          BY <1>1, <2>2, <2>3, <2>6, <3>3, <3>4, <3>5, <4>2 DEF Pipe, Waiting
        <4>3. QED
          BY <1>2, <4>1, <4>2, PipeIs DEF IInv
      <3>7. LiveInv(c)' /\ EndedInv(c)'
        BY <2>2, <2>3, <2>6, <2>7, <3>2, <3>3, <3>4, <3>6 DEF LiveInv, EndedInv
      <3> HIDE DEF g
      <3>8. QED
        BY <1>1, <1>2, <1>3, <2>1, <2>2, <3>1, <3>3, <3>7, ReaderStep DEF g
    <2>10. CASE f.kind # "push"
      <3> DEFINE r == Append(resp, f)
                 q == [queue[g] EXCEPT !.resp = r]
      <3>1. queue' = [queue EXCEPT ![g] = q]
        BY <1>5, <2>10 DEF IInv, TypeOK
      <3>2. r \in Seq(Frame)
        BY <1>3, <2>4, AppendProperties
      <3>3. /\ q \in [resp : Seq(Frame), inbox : Seq(Frame)]
            /\ q.resp = r /\ q.inbox = inbox
        <4> HIDE DEF r
        <4>1. QED
          BY <2>4, <3>2
      <3>4. queue'[g] = q
        BY <1>2, <3>1 DEF IInv, TypeOK
      <3>5. f.kind = "answer"
        BY <1>3, <1>5, <2>10 DEF Frame
      <3>6. PICK t \in Threads :
              /\ Waiting(t, c) /\ Unasked(c) /\ resp = <<>>
              /\ f = AnswerTo(thr[t].n) /\ NoAnswer(rest)
        BY <1>2, <1>3, <3>5, PipeIs DEF IInv
      <3>7. r = <<AnswerTo(thr[t].n)>>
        BY <3>6
      <3> HIDE DEF q, r, f, rest
      <3>8. Pipe(c)'
        BY <1>1, <2>2, <2>3, <2>6, <3>3, <3>4, <3>6, <3>7 DEF Pipe, Waiting
      <3>9. LiveInv(c)' /\ EndedInv(c)'
        BY <2>2, <2>3, <2>5, <2>6, <2>7, <3>3, <3>4, <3>8 DEF LiveInv, EndedInv
      <3> HIDE DEF g
      <3>10. QED
        BY <1>1, <1>2, <1>3, <2>1, <2>2, <3>1, <3>3, <3>9, ReaderStep DEF g
    <2>11. QED
      BY <2>9, <2>10
  <1>6. QED
    BY <1>4, <1>5 DEF Read

-----------------------------------------------------------------------------
(* Requests and messages *)

LEMMA StepSend ==
  ASSUME IInv, NEW t \in Threads, Send(t)
  PROVE  IInv' /\ Unanswered
  <1> SUFFICES ASSUME NEW c, NEW n, NEW g, c = thr[t].c, n = thr[t].n, g = conn[c].gen
               PROVE  IInv' /\ Unanswered
    OBVIOUS
  <1>1. thr[t].pc = "lock" /\ lock = NoThread /\ UNCHANGED <<client, queue, calls, pushed>>
    BY DEF Send, At, Counts
  <1>2. c \in Conns /\ Used(c) /\ n \in 0..MaxCalls /\ n # 0 /\ g \in Gens
    BY <1>1, ThreadTyped, ConnTyped DEF IInv, ThreadInv, Calling
  <1>3. CASE Ends(t) /\ UNCHANGED <<conn, lock>>
    BY <1>1, <1>3, StepEnds DEF Bystander, Closing, Counts
  <1>4. ASSUME conn[c].open = TRUE, conn[c].hub = "up",
               conn' = [conn EXCEPT ![c].asked = Append(@, n)], lock' = t, Goto(t, "answer")
        PROVE  IInv' /\ Unanswered
    <2> DEFINE a == Append(conn[c].asked, n)
               k == [conn[c] EXCEPT !.asked = a]
               r == [thr[t] EXCEPT !.pc = "answer"]
    <2>1. conn' = [conn EXCEPT ![c] = k] /\ thr' = [thr EXCEPT ![t] = r]
      BY <1>4 DEF IInv, TypeOK, Goto
    <2>2. a \in Seq(1..MaxCalls)
      <3>1. n \in 1..MaxCalls /\ conn[c].asked \in Seq(1..MaxCalls)
        BY <1>2, ConnTyped, BoundsAssumption DEF IInv
      <3>2. QED
        BY <3>1, AppendProperties
    <2>3. /\ k \in Conn /\ k.open = conn[c].open /\ k.gen = g /\ k.hub = "up"
          /\ k.reader = conn[c].reader /\ k.wire = conn[c].wire /\ k.busy = conn[c].busy
          /\ k.asked = a
      <3> HIDE DEF a
      <3>1. QED
        BY <1>2, <1>4, <2>2, ConnTyped DEF IInv, Conn
    <2>4. /\ r \in Thread /\ r.pc = "answer" /\ r.c = c /\ r.n = n /\ r.g = thr[t].g
          /\ r.kind = thr[t].kind
      BY ThreadTyped DEF Thread, PCs, IInv
    <2>5. /\ conn'[c] = k /\ \A d \in Conns \ {c} : conn'[d] = conn[d]
          /\ thr'[t] = r /\ \A u \in Threads \ {t} : thr'[u] = thr[u]
      BY <1>2, <2>1 DEF IInv, TypeOK
    <2>6. thr[t].g = g /\ thr[t].kind \notin Receiving
      BY <1>1, <1>4 DEF IInv, ThreadInv, Calling
    <2>7. \A u \in Threads : lock # u /\ ~Waiting(u, c)
      BY <1>1, ThreadsAssumption DEF IInv, ThreadInv, Waiting
    <2> HIDE DEF k, r
    <2>8. TypeOK'
      BY <1>1, <1>4, <2>1, <2>3, <2>4 DEF IInv, TypeOK
    <2>9. \A u \in Threads : ThreadInv(u)'
      <3>1. ThreadInv(t)'
        BY <1>2, <1>4, <2>3, <2>4, <2>5, <2>6 DEF ThreadInv, Used
      <3>2. \A u \in Threads : u # t => ThreadInv(u)'
        <4> SUFFICES ASSUME NEW u \in Threads, u # t PROVE ThreadInv(u)'
          OBVIOUS
        <4>1. ThreadInv(u) /\ thr'[u] = thr[u] /\ (lock' = u <=> lock = u)
          BY <1>4, <2>5, <2>7 DEF IInv
        <4>2. /\ conn'[c].open = conn[c].open /\ conn'[c].gen = conn[c].gen
              /\ conn'[c].hub # "none" <=> conn[c].hub # "none"
          BY <1>4, <2>3, <2>5
        <4>3. \A d \in Conns : /\ conn'[d].open = conn[d].open /\ conn'[d].gen = conn[d].gen
                               /\ conn'[d].hub # "none" <=> conn[d].hub # "none"
          BY <2>5, <4>2
        <4>4. QED
          BY <4>1, <4>3, ThreadSame
      <3>3. QED
        BY <3>1, <3>2
    <2>10. \A u \in Threads : /\ HasResp(u, conn[c].gen)' <=> HasResp(u, g)
                              /\ HasInbox(u, conn[c].gen)' <=> HasInbox(u, g)
      BY <1>1, <2>3, <2>4, <2>5 DEF HasResp, HasInbox
    <2>11. LiveInv(c)'
      <3>1. ASSUME ~Retired(c) PROVE LiveInv(c)'
        <4>1. /\ NoClosed(queue[g].inbox)
              /\ \A u \in Threads : ~HasResp(u, g) /\ ~HasInbox(u, g)
          BY <1>2, <3>1 DEF IInv, LiveInv
        <4>2. /\ conn[c].asked = <<>> /\ conn[c].busy = 0
              /\ NoAnswer(conn[c].wire) /\ queue[g].resp = <<>>
          BY <1>2, <1>4, <2>7, <3>1, PipeIs DEF IInv, Unasked
        <4>3. a = <<n>>
          BY <4>2
        <4> HIDE DEF a
        <4>4. Waiting(t, c)' /\ thr'[t].n = n
          BY <2>4, <2>5 DEF Waiting
        <4>5. Pipe(c)'
          BY <1>1, <2>3, <2>5, <4>2, <4>3, <4>4 DEF Pipe
        <4>6. QED
          BY <1>1, <2>3, <2>5, <2>10, <4>1, <4>5 DEF LiveInv
      <3>2. ASSUME Retired(c) PROVE LiveInv(c)'
        BY <2>3, <2>5, <3>2 DEF LiveInv, Retired
      <3>3. QED
        BY <3>1, <3>2
    <2>12. EndedInv(c)'
      <3>1. ASSUME Retired(c) PROVE EndedInv(c)'
        <4>1. EndedResp(c) /\ EndedInbox(c)
          BY <1>2, <3>1 DEF IInv, EndedInv
        <4>2. EndedResp(c)'
          <5>1. \/ (\A u \in Threads : ~HasResp(u, g)) /\ queue[g].resp = <<CLOSED>>
                \/ /\ queue[g].resp = <<>>
                   /\ \E u \in Threads :
                        HasResp(u, g) /\ \A v \in Threads : HasResp(v, g) => v = u
            BY <2>7, <4>1 DEF EndedResp
          <5>2. conn'[c].gen = g /\ queue'[g] = queue[g]
            BY <1>1, <2>3, <2>5
          <5>3. QED
            BY <2>10, <5>1, <5>2 DEF EndedResp
        <4>3. EndedInbox(c)'
          <5>1. \/ (\A u \in Threads : ~HasInbox(u, g)) /\ EndsClosed(queue[g].inbox)
                \/ /\ queue[g].inbox = <<>>
                   /\ \E u \in Threads :
                        HasInbox(u, g) /\ \A v \in Threads : HasInbox(v, g) => v = u
            BY <2>7, <4>1 DEF EndedInbox
          <5>2. conn'[c].gen = g /\ queue'[g] = queue[g]
            BY <1>1, <2>3, <2>5
          <5>3. QED
            BY <2>10, <5>1, <5>2 DEF EndedInbox
        <4>4. QED
          BY <4>2, <4>3 DEF EndedInv
      <3>2. ASSUME ~Retired(c) PROVE EndedInv(c)'
        BY <2>3, <2>5, <3>2 DEF EndedInv, Retired
      <3>3. QED
        BY <3>1, <3>2
    <2>13. \A u \in Threads : thr'[u] = thr[u] \/ (On(u, c, g) /\ On(u, c, g)')
      BY <1>1, <2>3, <2>4, <2>5 DEF On, Closing
    <2>14. Sent(conn'[c].wire) /\ (conn'[c].hub = "gone" => conn'[c].busy = 0)
      BY <1>2, <2>3, <2>5 DEF IInv, ConnInv
    <2>15. conn'[c].reader # "none" /\ conn'[c].hub # "none" /\ conn'[c].gen = g
           /\ conn'[c].open = conn[c].open
      BY <1>2, <2>3, <2>5 DEF IInv, ConnInv
    <2>16. IInv'
      BY <1>1, <1>2, <2>5, <2>8, <2>9, <2>11, <2>12, <2>13, <2>14, <2>15, PairStep
    <2>17. Unanswered
      BY <1>1, <2>5 DEF Unanswered
    <2>18. QED
      BY <2>16, <2>17
  <1>5. QED
    BY <1>2, <1>3, <1>4, ConnTyped DEF Send, IInv

\* A thread takes from the queues of g, those of c, or puts back.
LEMMA QueueStep ==
  ASSUME IInv, NEW t \in Threads, NEW c \in Conns, NEW g \in Gens, Used(c), g = conn[c].gen,
         NEW r \in Thread, NEW q \in [resp : Seq(Frame), inbox : Seq(Frame)],
         thr' = [thr EXCEPT ![t] = r], queue' = [queue EXCEPT ![g] = q],
         UNCHANGED <<client, conn, calls, pushed>>,
         lock' \in Threads \cup {NoThread}, lock' # t,
         \A u \in Threads \ {t} : lock' = u <=> lock = u,
         On(t, c, g), r.pc \in {"idle", "repost"}, r.pc = "repost" => r.g = g,
         LiveInv(c)', EndedInv(c)'
  PROVE  IInv'
  <1>1. /\ thr'[t] = r /\ \A u \in Threads \ {t} : thr'[u] = thr[u]
        /\ \A h \in Gens \ {g} : queue'[h] = queue[h]
    BY DEF IInv, TypeOK
  <1>2. TypeOK'
    BY DEF IInv, TypeOK
  <1>3. \A u \in Threads : ThreadInv(u)'
    <2>1. ThreadInv(t)'
      BY <1>1 DEF ThreadInv, Calling
    <2>2. \A u \in Threads : u # t => ThreadInv(u)'
      BY <1>1, ThreadSame DEF IInv
    <2>3. QED
      BY <2>1, <2>2
  <1>4. \A u \in Threads : thr'[u] = thr[u] \/ (On(u, c, g) /\ On(u, c, g)')
    BY <1>1 DEF On, Closing
  <1>5. /\ conn'[c].reader # "none" /\ conn'[c].hub # "none" /\ Sent(conn'[c].wire)
        /\ conn'[c].hub = "gone" => conn'[c].busy = 0
    BY DEF IInv, ConnInv, Used
  <1>6. QED
    BY <1>1, <1>2, <1>3, <1>4, <1>5, PairStep

\* What happens to the answers of a connection is nothing to its messages, and the other
\* way about.
LEMMA InboxKeeps ==
  ASSUME NEW c \in Conns, NEW g, g = conn[c].gen, EndedInbox(c), conn' = conn,
         queue'[g].inbox = queue[g].inbox,
         \A u \in Threads : HasInbox(u, g)' <=> HasInbox(u, g)
  PROVE  EndedInbox(c)'
  <1>1. \A u \in Threads : HasInbox(u, conn[c].gen)' <=> HasInbox(u, g)
    BY DEF HasInbox
  <1>2. QED
    BY <1>1 DEF EndedInbox

LEMMA RespKeeps ==
  ASSUME NEW c \in Conns, NEW g, g = conn[c].gen, EndedResp(c), conn' = conn,
         queue'[g].resp = queue[g].resp,
         \A u \in Threads : /\ HasResp(u, g)' <=> HasResp(u, g)
                            /\ Waiting(u, c)' <=> Waiting(u, c)
                            /\ Waiting(u, c) => thr'[u].n = thr[u].n
  PROVE  EndedResp(c)'
  <1>1. \A u \in Threads : HasResp(u, conn[c].gen)' <=> HasResp(u, g)
    BY DEF HasResp
  <1>2. QED
    BY <1>1 DEF EndedResp

\* What an answer tells a thread is so.
AnswersOwn == \A t \in Threads : thr[t].pc = "answer" /\ thr'[t].pc = "idle" =>
  Head(queue[thr[t].g].resp) = AnswerTo(thr[t].n)
TellsTruly == \A t \in Threads : thr[t].pc = "answer" /\ thr'[t].pc = "repost" =>
  conn[thr[t].c].reader = "retired"

LEMMA StepAnswer ==
  ASSUME IInv, NEW t \in Threads, Answer(t)
  PROVE  IInv' /\ AnswersOwn /\ TellsTruly
  <1> SUFFICES ASSUME NEW c, NEW n, NEW g, c = thr[t].c, n = thr[t].n, g = conn[c].gen
               PROVE  IInv' /\ AnswersOwn /\ TellsTruly
    OBVIOUS
  <1> DEFINE resp == queue[g].resp
             w == Tail(resp)
             q == [queue[g] EXCEPT !.resp = w]
  <1>1. /\ thr[t].pc = "answer" /\ lock = t /\ thr[t].g = g /\ c \in Conns /\ Used(c)
        /\ thr[t].kind \notin Receiving
    BY DEF Answer, At, IInv, ThreadInv, Calling
  <1>2. /\ resp # <<>> /\ lock' = NoThread /\ UNCHANGED <<client, conn, calls, pushed>>
        /\ queue' = [queue EXCEPT ![g] = q]
    BY <1>1 DEF Answer, Counts, IInv, TypeOK
  <1>3. /\ g \in Gens /\ resp \in Seq(Frame) /\ n \in 0..MaxCalls
        /\ queue[g] \in [resp : Seq(Frame), inbox : Seq(Frame)]
    BY <1>1, ThreadTyped, ConnTyped, QueueTyped DEF IInv
  <1>4. w \in Seq(Frame)
    BY <1>2, <1>3, HeadTailProperties
  <1>5. /\ q \in [resp : Seq(Frame), inbox : Seq(Frame)]
        /\ q.resp = w /\ q.inbox = queue[g].inbox
    <2> HIDE DEF w
    <2>1. QED
      BY <1>3, <1>4
  <1>6. queue'[g] = q
    BY <1>2, <1>3 DEF IInv, TypeOK
  <1>7. \A u \in Threads : u # t => thr[u].pc # "answer" /\ ~Waiting(u, c)
    BY <1>1 DEF IInv, ThreadInv, Waiting
  <1>8. PICK r \in Thread :
          /\ thr' = [thr EXCEPT ![t] = r]
          /\ IF Head(resp) = CLOSED THEN r.pc = "repost" /\ r.g = g /\ r.kind = thr[t].kind
             ELSE r.pc = "idle"
    <2>1. CASE Head(resp) = CLOSED
      <3> DEFINE r == [thr[t] EXCEPT !.pc = "repost"]
      <3>1. thr' = [thr EXCEPT ![t] = r]
        BY <1>1, <2>1 DEF Answer, Goto, IInv, TypeOK
      <3>2. r \in Thread /\ r.pc = "repost" /\ r.g = g /\ r.kind = thr[t].kind
        BY <1>1, ThreadTyped DEF Thread, PCs, IInv
      <3> HIDE DEF r
      <3>3. QED
        BY <2>1, <3>1, <3>2
    <2>2. CASE Head(resp) # CLOSED
      BY <1>1, <2>2, IdleThread DEF Answer, Ends
    <2>3. QED
      BY <2>1, <2>2
  <1>9. thr'[t] = r /\ \A u \in Threads \ {t} : thr'[u] = thr[u]
    BY <1>8 DEF IInv, TypeOK
  <1>10. \A u \in Threads : u # t => (HasResp(u, g)' <=> HasResp(u, g))
    BY <1>9 DEF HasResp
  <1>11. \A u \in Threads : HasInbox(u, g)' <=> HasInbox(u, g)
    BY <1>1, <1>8, <1>9 DEF HasInbox
  <1>12. ~HasResp(t, g) /\ ~HasInbox(t, g) /\ Waiting(t, c)
    BY <1>1 DEF HasResp, HasInbox, Waiting
  <1>13. /\ HasResp(t, g)' <=> Head(resp) = CLOSED
         /\ \A u \in Threads : ~Waiting(u, c)'
    BY <1>1, <1>7, <1>8, <1>9 DEF HasResp, Waiting
  <1> HIDE DEF q
  <1>14. ASSUME ~Retired(c)
         PROVE  Head(resp) = AnswerTo(n) /\ LiveInv(c)' /\ EndedInv(c)'
    <2>1. resp = <<AnswerTo(n)>> /\ Unasked(c) /\ NoAnswer(conn[c].wire)
      BY <1>1, <1>2, <1>7, <1>14, PipeIs DEF IInv
    <2>2. Head(resp) = AnswerTo(n) /\ w = <<>> /\ Head(resp) # CLOSED
      BY <1>3, <2>1, Frames
    <2>3. /\ NoClosed(queue[g].inbox)
          /\ \A u \in Threads : ~HasResp(u, g) /\ ~HasInbox(u, g)
      BY <1>1, <1>14 DEF IInv, LiveInv
    <2>4. \A u \in Threads : ~HasResp(u, g)' /\ ~HasInbox(u, g)'
      BY <1>10, <1>11, <1>13, <2>2, <2>3
    <2> HIDE DEF w
    <2>5. Pipe(c)'
      BY <1>2, <1>5, <1>6, <2>1, <2>2 DEF Pipe, Unasked
    <2>6. LiveInv(c)'
      BY <1>2, <1>5, <1>6, <2>3, <2>4, <2>5 DEF LiveInv, HasResp, HasInbox
    <2>7. EndedInv(c)'
      BY <1>2, <1>14 DEF EndedInv, Retired
    <2>8. QED
      BY <2>2, <2>6, <2>7
  <1>15. ASSUME Retired(c)
         PROVE  /\ Head(resp) # CLOSED => Head(resp) = AnswerTo(n)
                /\ LiveInv(c)' /\ EndedInv(c)'
    <2>1. EndedResp(c) /\ EndedInbox(c)
      BY <1>1, <1>15 DEF IInv, EndedInv
    <2>2. EndedInbox(c)'
      BY <1>1, <1>2, <1>5, <1>6, <1>11, <2>1, InboxKeeps
    <2>3. /\ \A u \in Threads : ~HasResp(u, g)
          /\ resp = <<CLOSED>> \/ resp = <<AnswerTo(n), CLOSED>>
      BY <1>2, <1>7, <2>1 DEF EndedResp
    <2>4. CASE resp = <<CLOSED>>
      <3>1. Head(resp) = CLOSED /\ w = <<>>
        BY <2>4
      <3>2. HasResp(t, g)' /\ \A u \in Threads : HasResp(u, g)' => u = t
        BY <1>10, <1>13, <2>3, <3>1
      <3> HIDE DEF w
      <3>3. EndedResp(c)'
        BY <1>2, <1>5, <1>6, <3>1, <3>2 DEF EndedResp, HasResp
      <3>4. QED
        BY <1>2, <1>15, <2>2, <3>1, <3>3 DEF EndedInv, LiveInv, Retired
    <2>5. CASE resp = <<AnswerTo(n), CLOSED>>
      <3>1. Head(resp) = AnswerTo(n) /\ w = <<CLOSED>> /\ Head(resp) # CLOSED
        BY <2>5, Frames
      <3>2. \A u \in Threads : ~HasResp(u, g)'
        BY <1>10, <1>13, <2>3, <3>1
      <3> HIDE DEF w
      <3>3. EndedResp(c)'
        BY <1>2, <1>5, <1>6, <3>1, <3>2 DEF EndedResp, HasResp
      <3>4. QED
        BY <1>2, <1>15, <2>2, <3>1, <3>3 DEF EndedInv, LiveInv, Retired
    <2>6. QED
      BY <2>3, <2>4, <2>5
  <1>16. LiveInv(c)' /\ EndedInv(c)'
    BY <1>14, <1>15
  <1>17. On(t, c, g)
    BY <1>1 DEF On, Closing
  <1>18. \A u \in Threads \ {t} : lock' = u <=> lock = u
    BY <1>1, <1>2, ThreadsAssumption
  <1>19. lock' \in Threads \cup {NoThread} /\ lock' # t
    BY <1>2, ThreadsAssumption
  <1>20. r.pc \in {"idle", "repost"} /\ (r.pc = "repost" => r.g = g)
    BY <1>8
  <1> HIDE DEF resp, w
  <1>21. IInv'
    BY <1>1, <1>2, <1>3, <1>5, <1>8, <1>16, <1>17, <1>18, <1>19, <1>20, QueueStep
  <1>22. AnswersOwn /\ TellsTruly
    <2>1. r.pc = "idle" => Head(resp) = AnswerTo(n)
      BY <1>8, <1>14, <1>15
    <2>2. r.pc = "repost" => Retired(c)
      BY <1>3, <1>8, <1>14, Frames
    <2>3. QED
      BY <1>1, <1>7, <1>9, <2>1, <2>2 DEF AnswersOwn, TellsTruly, Retired, resp
  <1>23. QED
    BY <1>21, <1>22

\* Who has queues that are not empty, or a sentinel of them, has them of a connection.
LEMMA QueueOfConn ==
  ASSUME IInv, NEW g \in Gens,
         \/ queue[g].inbox # <<>>
         \/ \E t \in Threads : HasResp(t, g) \/ HasInbox(t, g)
  PROVE  \E c \in Conns : Used(c) /\ g = conn[c].gen
  BY DEF IInv, FreeInv

LEMMA StepTake ==
  ASSUME IInv, NEW t \in Threads, Take(t)
  PROVE  IInv' /\ Unanswered
  <1> SUFFICES ASSUME NEW g, g = thr[t].g PROVE IInv' /\ Unanswered
    OBVIOUS
  <1> DEFINE inbox == queue[g].inbox
             w == Tail(inbox)
             q == [queue[g] EXCEPT !.inbox = w]
  <1>1. /\ thr[t].pc = "take" /\ lock # t /\ thr[t].kind \in Receiving
        /\ inbox # <<>> /\ UNCHANGED <<client, conn, lock, calls, pushed>> /\ g \in Gens
    BY ThreadTyped DEF Take, At, Counts, IInv, ThreadInv
  <1>2. PICK c \in Conns : Used(c) /\ g = conn[c].gen
    BY <1>1, QueueOfConn
  <1>3. queue' = [queue EXCEPT ![g] = q]
    BY <1>1 DEF Take, IInv, TypeOK
  <1>4. inbox \in Seq(Frame) /\ queue[g] \in [resp : Seq(Frame), inbox : Seq(Frame)]
    BY <1>1, QueueTyped DEF IInv
  <1>5. w \in Seq(Frame)
    BY <1>1, <1>4, HeadTailProperties
  <1>6. /\ q \in [resp : Seq(Frame), inbox : Seq(Frame)]
        /\ q.inbox = w /\ q.resp = queue[g].resp
    <2> HIDE DEF w
    <2>1. QED
      BY <1>4, <1>5
  <1>7. queue'[g] = q
    BY <1>1, <1>3 DEF IInv, TypeOK
  <1>8. PICK r \in Thread :
          /\ thr' = [thr EXCEPT ![t] = r]
          /\ IF Head(inbox) = CLOSED THEN r.pc = "repost" /\ r.g = g /\ r.kind = thr[t].kind
             ELSE r.pc = "idle"
    <2>1. CASE Head(inbox) = CLOSED
      <3> DEFINE r == [thr[t] EXCEPT !.pc = "repost"]
      <3>1. thr' = [thr EXCEPT ![t] = r]
        BY <2>1 DEF Take, Goto, IInv, TypeOK
      <3>2. r \in Thread /\ r.pc = "repost" /\ r.g = g /\ r.kind = thr[t].kind
        BY ThreadTyped DEF Thread, PCs, IInv
      <3> HIDE DEF r
      <3>3. QED
        BY <2>1, <3>1, <3>2
    <2>2. CASE Head(inbox) # CLOSED
      BY <2>2, IdleThread DEF Take, Ends
    <2>3. QED
      BY <2>1, <2>2
  <1>9. thr'[t] = r /\ \A u \in Threads \ {t} : thr'[u] = thr[u]
    BY <1>8 DEF IInv, TypeOK
  <1>10. \A u \in Threads : u # t => (HasInbox(u, g)' <=> HasInbox(u, g))
    BY <1>9 DEF HasInbox
  <1>11. \A u \in Threads : /\ HasResp(u, g)' <=> HasResp(u, g)
                            /\ Waiting(u, c)' <=> Waiting(u, c)
                            /\ Waiting(u, c) => thr'[u].n = thr[u].n
    BY <1>1, <1>8, <1>9 DEF HasResp, Waiting
  <1>12. HasInbox(t, g)' <=> Head(inbox) = CLOSED
    BY <1>1, <1>8, <1>9 DEF HasInbox
  <1> HIDE DEF q
  <1>13. ASSUME ~Retired(c) PROVE LiveInv(c)' /\ EndedInv(c)'
    <2>1. /\ Pipe(c) /\ NoClosed(inbox)
          /\ \A u \in Threads : ~HasResp(u, g) /\ ~HasInbox(u, g)
      BY <1>2, <1>13 DEF IInv, LiveInv
    <2>2. Head(inbox) # CLOSED /\ NoClosed(w)
      BY <1>1, <1>4, <2>1, TailFrame
    <2>3. \A u \in Threads : ~HasResp(u, g)' /\ ~HasInbox(u, g)'
      BY <1>10, <1>11, <1>12, <2>1, <2>2
    <2> HIDE DEF w
    <2>4. Pipe(c)'
      BY <1>1, <1>2, <1>6, <1>7, <1>11, <2>1 DEF Pipe, Unasked
    <2>5. LiveInv(c)'
      BY <1>1, <1>2, <1>6, <1>7, <2>2, <2>3, <2>4 DEF LiveInv, HasResp, HasInbox
    <2>6. EndedInv(c)'
      BY <1>1, <1>13 DEF EndedInv, Retired
    <2>7. QED
      BY <2>5, <2>6
  <1>14. ASSUME Retired(c) PROVE LiveInv(c)' /\ EndedInv(c)'
    <2>1. EndedResp(c) /\ EndedInbox(c)
      BY <1>2, <1>14 DEF IInv, EndedInv
    <2>2. EndedResp(c)'
      BY <1>1, <1>2, <1>6, <1>7, <1>11, <2>1, RespKeeps
    <2>3. (\A u \in Threads : ~HasInbox(u, g)) /\ EndsClosed(inbox)
      BY <1>1, <1>2, <2>1 DEF EndedInbox
    <2>4. /\ Head(inbox) = CLOSED => w = <<>>
          /\ Head(inbox) # CLOSED => EndsClosed(w)
      BY <1>1, <1>4, <2>3, TailFrame
    <2> HIDE DEF w
    <2>5. CASE Head(inbox) = CLOSED
      <3>1. HasInbox(t, g)' /\ \A u \in Threads : HasInbox(u, g)' => u = t
        BY <1>10, <1>12, <2>3, <2>5
      <3>2. EndedInbox(c)'
        BY <1>1, <1>2, <1>6, <1>7, <2>4, <2>5, <3>1 DEF EndedInbox, HasInbox
      <3>3. QED
        BY <1>1, <1>14, <2>2, <3>2 DEF EndedInv, LiveInv, Retired
    <2>6. CASE Head(inbox) # CLOSED
      <3>1. \A u \in Threads : ~HasInbox(u, g)'
        BY <1>10, <1>12, <2>3, <2>6
      <3>2. EndedInbox(c)'
        BY <1>1, <1>2, <1>6, <1>7, <2>4, <2>6, <3>1 DEF EndedInbox, HasInbox
      <3>3. QED
        BY <1>1, <1>14, <2>2, <3>2 DEF EndedInv, LiveInv, Retired
    <2>7. QED
      BY <2>5, <2>6
  <1>15. LiveInv(c)' /\ EndedInv(c)'
    BY <1>13, <1>14
  <1>16. On(t, c, g) /\ (\A u \in Threads \ {t} : lock' = u <=> lock = u)
    BY <1>1 DEF On, Closing
  <1>17. lock' \in Threads \cup {NoThread} /\ lock' # t
    BY <1>1 DEF IInv, TypeOK
  <1>18. r.pc \in {"idle", "repost"} /\ (r.pc = "repost" => r.g = g)
    BY <1>8
  <1> HIDE DEF inbox, w
  <1>19. IInv'
    BY <1>1, <1>2, <1>3, <1>6, <1>8, <1>15, <1>16, <1>17, <1>18, QueueStep
  <1>20. Unanswered
    BY <1>1, <1>9 DEF Unanswered
  <1>21. QED
    BY <1>19, <1>20

LEMMA StepRepost ==
  ASSUME IInv, NEW t \in Threads, Repost(t)
  PROVE  IInv' /\ Unanswered
  <1> SUFFICES ASSUME NEW g, g = thr[t].g PROVE IInv' /\ Unanswered
    OBVIOUS
  <1> DEFINE resp == queue[g].resp
             inbox == queue[g].inbox
  <1>1. /\ thr[t].pc = "repost" /\ lock # t /\ g \in Gens
        /\ UNCHANGED <<client, conn, lock, calls, pushed>> /\ thr' = [thr EXCEPT ![t] = Idle]
    BY ThreadTyped DEF Repost, At, Counts, Ends, IInv, ThreadInv
  <1>2. HasResp(t, g) \/ HasInbox(t, g)
    BY <1>1 DEF HasResp, HasInbox
  <1>3. PICK c \in Conns : Used(c) /\ g = conn[c].gen
    BY <1>1, <1>2, QueueOfConn
  <1>4. Retired(c)
    BY <1>2, <1>3 DEF IInv, LiveInv
  <1>5. EndedResp(c) /\ EndedInbox(c)
    BY <1>3, <1>4 DEF IInv, EndedInv
  <1>6. /\ resp \in Seq(Frame) /\ inbox \in Seq(Frame)
        /\ queue[g] \in [resp : Seq(Frame), inbox : Seq(Frame)]
    BY <1>1, QueueTyped DEF IInv
  <1>7. thr'[t] = Idle /\ \A u \in Threads \ {t} : thr'[u] = thr[u]
    BY <1>1 DEF IInv, TypeOK
  <1>8. /\ ~HasResp(t, g)' /\ ~HasInbox(t, g)'
        /\ \A u \in Threads : u # t => /\ HasResp(u, g)' <=> HasResp(u, g)
                                       /\ HasInbox(u, g)' <=> HasInbox(u, g)
    BY <1>7, IdleThread DEF HasResp, HasInbox
  <1>9. \A u \in Threads : /\ Waiting(u, c)' <=> Waiting(u, c)
                           /\ Waiting(u, c) => thr'[u].n = thr[u].n
    BY <1>1, <1>7, IdleThread DEF Waiting
  <1>10. On(t, c, g) /\ (\A u \in Threads \ {t} : lock' = u <=> lock = u)
         /\ lock' \in Threads \cup {NoThread} /\ lock' # t
    BY <1>1 DEF On, Closing, IInv, TypeOK
  <1>11. ASSUME thr[t].kind \in Receiving PROVE IInv'
    <2> DEFINE w == Append(inbox, CLOSED)
               q == [queue[g] EXCEPT !.inbox = w]
    <2>1. queue' = [queue EXCEPT ![g] = q]
      BY <1>1, <1>11 DEF Repost, Receiving, IInv, TypeOK
    <2>2. w \in Seq(Frame)
      BY <1>6, Frames, AppendProperties
    <2>3. q \in [resp : Seq(Frame), inbox : Seq(Frame)] /\ q.inbox = w /\ q.resp = resp
      <3> HIDE DEF w
      <3>1. QED
        BY <1>6, <2>2
    <2>4. queue'[g] = q
      BY <1>1, <2>1 DEF IInv, TypeOK
    <2>5. HasInbox(t, g) /\ ~HasResp(t, g)
      BY <1>1, <1>11 DEF HasInbox, HasResp
    <2>6. inbox = <<>> /\ \A u \in Threads : HasInbox(u, g) => u = t
      BY <1>3, <1>5, <2>5 DEF EndedInbox
    <2>7. EndsClosed(w)
      BY <1>6, <2>6, EmptyRow, Frames, AppendFrame
    <2>8. \A u \in Threads : ~HasInbox(u, g)'
      BY <1>8, <2>6
    <2>9. \A u \in Threads : HasResp(u, g)' <=> HasResp(u, g)
      BY <1>8, <2>5
    <2> HIDE DEF q, w
    <2>10. EndedInbox(c)'
      BY <1>1, <1>3, <2>3, <2>4, <2>7, <2>8 DEF EndedInbox, HasInbox
    <2>11. EndedResp(c)'
      BY <1>1, <1>3, <1>5, <1>9, <2>3, <2>4, <2>9, RespKeeps
    <2>12. LiveInv(c)' /\ EndedInv(c)'
      BY <1>1, <1>4, <2>10, <2>11 DEF LiveInv, EndedInv, Retired
    <2>13. QED
      BY <1>1, <1>3, <1>10, <2>1, <2>3, <2>12, QueueStep, IdleThread
  <1>12. ASSUME thr[t].kind \notin Receiving PROVE IInv'
    <2> DEFINE w == Append(resp, CLOSED)
               q == [queue[g] EXCEPT !.resp = w]
    <2>1. queue' = [queue EXCEPT ![g] = q]
      BY <1>1, <1>12 DEF Repost, Receiving, IInv, TypeOK
    <2>2. w \in Seq(Frame)
      BY <1>6, Frames, AppendProperties
    <2>3. q \in [resp : Seq(Frame), inbox : Seq(Frame)] /\ q.inbox = inbox /\ q.resp = w
      <3> HIDE DEF w
      <3>1. QED
        BY <1>6, <2>2
    <2>4. queue'[g] = q
      BY <1>1, <2>1 DEF IInv, TypeOK
    <2>5. HasResp(t, g) /\ ~HasInbox(t, g)
      BY <1>1, <1>12 DEF HasInbox, HasResp
    <2>6. resp = <<>> /\ \A u \in Threads : HasResp(u, g) => u = t
      BY <1>3, <1>5, <2>5 DEF EndedResp
    <2>7. w = <<CLOSED>>
      BY <2>6, EmptyRow
    <2>8. \A u \in Threads : ~HasResp(u, g)'
      BY <1>8, <2>6
    <2>9. \A u \in Threads : HasInbox(u, g)' <=> HasInbox(u, g)
      BY <1>8, <2>5
    <2> HIDE DEF q, w
    <2>10. EndedResp(c)'
      BY <1>1, <1>3, <2>3, <2>4, <2>7, <2>8 DEF EndedResp, HasResp
    <2>11. EndedInbox(c)'
      BY <1>1, <1>3, <1>5, <2>3, <2>4, <2>9, InboxKeeps
    <2>12. LiveInv(c)' /\ EndedInv(c)'
      BY <1>1, <1>4, <2>10, <2>11 DEF LiveInv, EndedInv, Retired
    <2>13. QED
      BY <1>1, <1>3, <1>10, <2>1, <2>3, <2>12, QueueStep, IdleThread
  <1>13. IInv'
    BY <1>11, <1>12
  <1>14. Unanswered
    BY <1>1, <1>7 DEF Unanswered
  <1>15. QED
    BY <1>13, <1>14

-----------------------------------------------------------------------------
(* The owner *)

LEMMA OwnerStep ==
  ASSUME IInv, TypeOK', UNCHANGED <<queue, lock>>,
         \A d \in Conns :
           /\ conn'[d].hub = conn[d].hub /\ conn'[d].gen = conn[d].gen
           /\ conn'[d].reader = conn[d].reader /\ conn'[d].asked = conn[d].asked
           /\ conn'[d].busy = conn[d].busy /\ conn'[d].wire = conn[d].wire
           /\ conn'[d].open = TRUE => conn[d].open = TRUE,
         \A u \in Threads \ {Owner} : thr'[u] = thr[u],
         thr[Owner].pc \notin {"answer", "repost"},
         thr'[Owner].pc \in Closing \cup {"idle"},
         OwnerInv', \A d \in Conns : ConnInv(d)'
  PROVE  IInv' /\ Unanswered
  <1>1. ASSUME NEW d \in Conns PROVE LiveInv(d)' /\ EndedInv(d)'
    <2>1. SamePair(d)
      BY DEF SamePair
    <2>2. \A u \in Threads : Alike(u, d, conn[d].gen)
      BY SameAlike, AwayAlike DEF Closing
    <2>3. QED
      BY <2>1, <2>2, PairKeeps DEF IInv
  <1>2. ASSUME NEW g \in Gens PROVE FreeInv(g)'
    <2>1. \A u \in Threads : Alike(u, 1, g)
      BY SameAlike, AwayAlike DEF Closing
    <2>2. QED
      BY <2>1 DEF IInv, FreeInv, Alike, Used
  <1>3. ASSUME NEW u \in Threads PROVE ThreadInv(u)'
    <2>1. CASE u = Owner
      <3>1. lock # Owner
        BY <2>1 DEF IInv, ThreadInv
      <3>2. QED
        BY <2>1, <3>1 DEF ThreadInv, Closing, Calling
    <2>2. CASE u # Owner
      BY <2>2 DEF IInv, ThreadInv, Used, Calling
    <2>3. QED
      BY <2>1, <2>2
  <1>4. Apart'
    BY SameApart DEF IInv
  <1>5. IInv'
    BY <1>1, <1>2, <1>3, <1>4 DEF IInv
  <1>6. Unanswered
    BY DEF Unanswered
  <1>7. QED
    BY <1>5, <1>6

LEMMA ClientWith ==
  ASSUME TypeOK, NEW s \in 0..MaxConns, NEW b \in BOOLEAN, NEW k,
         k = [client EXCEPT !.sock = s, !.closing = b]
  PROVE  k \in Client /\ k.sock = s /\ k.gen = client.gen
  BY DEF TypeOK, Client

LEMMA StepClose ==
  ASSUME IInv, Close
  PROVE  IInv' /\ Unanswered
  <1> SUFFICES ASSUME NEW s, NEW pc, s = client.sock,
                      pc = IF s = 0 THEN "replace" ELSE "shut"
               PROVE  IInv' /\ Unanswered
    OBVIOUS
  <1> DEFINE r == [thr[Owner] EXCEPT !.pc = pc, !.c = s]
             k == [client EXCEPT !.sock = 0, !.closing = TRUE]
  <1>1. /\ thr[Owner].pc = "idle" /\ client.gen < MaxCloses
        /\ UNCHANGED <<conn, queue, lock, calls, pushed>> /\ client' = k
    BY DEF Close, At, Counts
  <1>2. thr' = [thr EXCEPT ![Owner] = r]
    BY DEF Close, IInv, TypeOK
  <1>3. /\ k \in Client /\ k.sock = 0 /\ k.gen = client.gen
    <2>1. 0 \in 0..MaxConns
      BY BoundsAssumption
    <2>2. QED
      BY <2>1, ClientWith DEF IInv
  <1>4. r \in Thread /\ r.pc = pc /\ r.c = s /\ s \in 0..MaxConns /\ (s # 0 => s \in Conns)
    BY ClientTyped, ThreadTyped, ThreadsAssumption DEF IInv, Thread, PCs
  <1>5. thr'[Owner] = r /\ \A u \in Threads \ {Owner} : thr'[u] = thr[u]
    BY <1>2, ThreadsAssumption DEF IInv, TypeOK
  <1> HIDE DEF r, k
  <1>6. TypeOK'
    BY <1>1, <1>2, <1>3, <1>4 DEF IInv, TypeOK
  <1>7. pc \in Closing
    BY DEF Closing
  <1>8. OwnerInv'
    BY <1>1, <1>3, <1>4, <1>5, ThreadsAssumption DEF OwnerInv, IInv
  <1>9. ASSUME NEW d \in Conns PROVE ConnInv(d)'
    <2>1. client.sock = d => pc = "shut" /\ s = d
      BY BoundsAssumption DEF Conns
    <2>2. ~ClosedBy(d, Closing) /\ ~ClosedBy(d, {"shut"})
      BY <1>1 DEF ClosedBy, Closing
    <2>3. client.sock = d => ClosedBy(d, Closing)' /\ ClosedBy(d, {"shut"})'
      BY <1>4, <1>5, <2>1 DEF ClosedBy, Closing
    <2>4. QED
      BY <1>1, <1>3, <2>2, <2>3 DEF IInv, ConnInv, Used
  <1>10. QED
    BY <1>1, <1>4, <1>5, <1>6, <1>7, <1>8, <1>9, OwnerStep

LEMMA StepShut ==
  ASSUME IInv, Shut
  PROVE  IInv' /\ Unanswered
  <1> SUFFICES ASSUME NEW c, c = thr[Owner].c PROVE IInv' /\ Unanswered
    OBVIOUS
  <1> DEFINE r == [thr[Owner] EXCEPT !.pc = "replace"]
             k == [conn[c] EXCEPT !.open = FALSE]
  <1>1. /\ thr[Owner].pc = "shut" /\ UNCHANGED <<client, queue, lock, calls, pushed>>
        /\ c \in Conns /\ client.sock = 0 /\ client.gen < MaxCloses
    BY DEF Shut, At, Counts, IInv, OwnerInv, Closing
  <1>2. thr' = [thr EXCEPT ![Owner] = r] /\ conn' = [conn EXCEPT ![c] = k]
    BY DEF Shut, Goto, IInv, TypeOK
  <1>3. r \in Thread /\ r.pc = "replace" /\ r.c = c
    BY ThreadTyped, ThreadsAssumption DEF IInv, Thread, PCs
  <1>4. /\ k \in Conn /\ k.open = FALSE /\ k.hub = conn[c].hub /\ k.gen = conn[c].gen
        /\ k.reader = conn[c].reader /\ k.asked = conn[c].asked
        /\ k.busy = conn[c].busy /\ k.wire = conn[c].wire
    BY <1>1, ConnTyped DEF IInv, Conn
  <1>5. /\ thr'[Owner] = r /\ \A u \in Threads \ {Owner} : thr'[u] = thr[u]
        /\ conn'[c] = k /\ \A d \in Conns \ {c} : conn'[d] = conn[d]
    BY <1>1, <1>2, ThreadsAssumption DEF IInv, TypeOK
  <1> HIDE DEF r, k
  <1>6. TypeOK'
    BY <1>1, <1>2, <1>3, <1>4 DEF IInv, TypeOK
  <1>7. OwnerInv'
    BY <1>1, <1>3, <1>5, ThreadsAssumption DEF OwnerInv, IInv, Closing
  <1>8. ASSUME NEW d \in Conns PROVE ConnInv(d)'
    <2>1. /\ conn'[d].hub = conn[d].hub /\ conn'[d].gen = conn[d].gen
          /\ conn'[d].reader = conn[d].reader /\ conn'[d].busy = conn[d].busy
          /\ conn'[d].wire = conn[d].wire
      BY <1>4, <1>5
    <2>2. conn'[d].open = TRUE => conn[d].open = TRUE /\ d # c
      BY <1>4, <1>5
    <2>3. client.sock # d
      BY <1>1, BoundsAssumption DEF Conns
    <2>4. /\ ClosedBy(d, Closing)' <=> ClosedBy(d, Closing)
          /\ ClosedBy(d, {"shut"}) => d = c
      BY <1>1, <1>3, <1>5 DEF ClosedBy, Closing
    <2>5. QED
      BY <1>1, <2>1, <2>2, <2>3, <2>4 DEF IInv, ConnInv, Used
  <1>9. \A d \in Conns :
          /\ conn'[d].hub = conn[d].hub /\ conn'[d].gen = conn[d].gen
          /\ conn'[d].reader = conn[d].reader /\ conn'[d].asked = conn[d].asked
          /\ conn'[d].busy = conn[d].busy /\ conn'[d].wire = conn[d].wire
          /\ conn'[d].open = TRUE => conn[d].open = TRUE
    BY <1>4, <1>5
  <1>10. QED
    BY <1>1, <1>3, <1>5, <1>6, <1>7, <1>8, <1>9, OwnerStep DEF Closing

LEMMA StepReplace ==
  ASSUME IInv, Replace
  PROVE  IInv' /\ Unanswered
  <1> DEFINE g == client.gen + 1
             k == [client EXCEPT !.gen = g]
  <1>1. /\ thr[Owner].pc = "replace" /\ UNCHANGED <<conn, queue, lock, calls, pushed>>
        /\ client.sock = 0 /\ client.gen < MaxCloses
        /\ client' = k /\ thr' = [thr EXCEPT ![Owner] = Idle]
    BY DEF Replace, At, Counts, Ends, IInv, OwnerInv, Closing
  <1>2. g \in Gens
    BY <1>1, ClientTyped, BoundsAssumption DEF IInv, Gens
  <1>3. k \in Client /\ k.sock = 0 /\ k.gen = g
    BY <1>1, <1>2, ClientTyped DEF IInv, Client
  <1>4. thr'[Owner] = Idle /\ \A u \in Threads \ {Owner} : thr'[u] = thr[u]
    BY <1>1, ThreadsAssumption DEF IInv, TypeOK
  <1> HIDE DEF k
  <1>5. TypeOK'
    BY <1>1, <1>3, IdleThread DEF IInv, TypeOK
  <1>6. OwnerInv'
    BY <1>1, <1>3, <1>4, IdleThread, ThreadsAssumption DEF OwnerInv, IInv, Closing
  <1>7. ASSUME NEW d \in Conns PROVE ConnInv(d)'
    <2>1. client.sock # d /\ ~ClosedBy(d, {"shut"})
      BY <1>1, BoundsAssumption DEF Conns, ClosedBy
    <2>2. Used(d) => conn[d].gen <= g /\ conn[d].gen # g
      BY ClientTyped, ConnTyped, BoundsAssumption DEF IInv, ConnInv, Gens
    <2>3. conn[d].open # TRUE
      BY <2>1 DEF IInv, ConnInv
    <2>4. QED
      BY <1>1, <1>3, <2>2, <2>3 DEF IInv, ConnInv, Used
  <1>8. QED
    BY <1>1, <1>4, <1>5, <1>6, <1>7, IdleThread, OwnerStep

LEMMA StepConnect ==
  ASSUME IInv, NEW reg \in BOOLEAN, Connect(reg)
  PROVE  IInv' /\ Unanswered
  <1>1. /\ thr[Owner].pc = "idle" /\ client.sock = 0
        /\ UNCHANGED <<queue, lock, pushed>>
    BY DEF Connect, At
  <1>2. PICK c \in Conns :
          /\ conn[c].hub = "none"
          /\ client' = [client EXCEPT !.sock = c, !.closing = FALSE]
          /\ conn' = [conn EXCEPT ![c] = [NoConn EXCEPT
               !.open = TRUE, !.hub = "up", !.gen = client.gen, !.reader = "check",
               !.num = IF reg THEN calls + 1 ELSE 0]]
          /\ IF reg
             THEN /\ calls < MaxCalls /\ calls' = calls + 1
                  /\ thr' = [thr EXCEPT ![Owner] = [Idle EXCEPT
                       !.pc = "queue", !.kind = "register", !.c = c, !.n = calls + 1]]
             ELSE UNCHANGED <<calls, thr>>
    BY DEF Connect
  <1> DEFINE n == IF reg THEN calls + 1 ELSE 0
             g == client.gen
             k == [NoConn EXCEPT !.open = TRUE, !.hub = "up", !.gen = g, !.reader = "check",
                                 !.num = n]
             o == [client EXCEPT !.sock = c, !.closing = FALSE]
  <1>3. conn' = [conn EXCEPT ![c] = k] /\ client' = o
    BY <1>2
  <1>4. n \in 0..MaxCalls /\ g \in Gens /\ calls' \in 0..MaxCalls
    BY <1>2, MoreCalls, ClientTyped, BoundsAssumption DEF IInv, TypeOK
  <1>5. /\ k \in Conn /\ k.open = TRUE /\ k.hub = "up" /\ k.gen = g /\ k.reader = "check"
        /\ k.asked = <<>> /\ k.busy = 0 /\ k.wire = <<>>
    <2>1. 0 \in 0..MaxCalls /\ <<>> \in Seq(1..MaxCalls) /\ <<>> \in Seq(Frame)
      BY BoundsAssumption
    <2> HIDE DEF n, g
    <2>2. QED
      BY <1>4, <2>1 DEF NoConn, Conn
  <1>6. o \in Client /\ o.sock = c /\ o.gen = g
    <2>1. c \in 0..MaxConns
      BY BoundsAssumption DEF Conns
    <2>2. QED
      BY <2>1, ClientWith DEF IInv
  <1>7. conn'[c] = k /\ \A d \in Conns \ {c} : conn'[d] = conn[d]
    BY <1>3 DEF IInv, TypeOK
  <1>8. /\ thr' \in [Threads -> Thread]
        /\ \A u \in Threads \ {Owner} : thr'[u] = thr[u]
        /\ \/ thr'[Owner] = thr[Owner]
           \/ /\ thr'[Owner].pc = "queue" /\ thr'[Owner].c = c /\ thr'[Owner].n # 0
              /\ thr'[Owner].kind \notin Receiving
    <2>1. CASE ~reg
      BY <1>2, <2>1 DEF IInv, TypeOK
    <2>2. CASE reg
      <3> DEFINE r == [Idle EXCEPT !.pc = "queue", !.kind = "register", !.c = c, !.n = n]
      <3>1. thr' = [thr EXCEPT ![Owner] = r] /\ n # 0
        BY <1>2, <2>2, MoreCalls DEF IInv
      <3> HIDE DEF n
      <3>2. /\ r \in Thread /\ r.pc = "queue" /\ r.kind \notin Receiving
            /\ r.c = c /\ r.n = n
        <4>1. c \in 0..MaxConns
          BY BoundsAssumption DEF Conns
        <4>2. "queue" \in PCs /\ "register" \in Kinds /\ "register" \notin Receiving
          BY DEF PCs, Kinds, Receiving
        <4>3. QED
          BY <1>4, <4>1, <4>2, IdleThread DEF Thread
      <3> HIDE DEF r
      <3>3. QED
        BY <3>1, <3>2, ThreadsAssumption DEF IInv, TypeOK
    <2>3. QED
      BY <2>1, <2>2
  <1> HIDE DEF k, o, n
  <1>9. TypeOK'
    BY <1>1, <1>3, <1>4, <1>5, <1>6, <1>8 DEF IInv, TypeOK
  <1>10. \A u \in Threads : thr'[u].pc = thr[u].pc \/ {thr[u].pc, thr'[u].pc} = {"idle", "queue"}
    BY <1>1, <1>8
  <1>11. c # 0 /\ \A d \in Conns : d # 0
    BY BoundsAssumption DEF Conns
  \* No connection has the queues that the client has.
  <1>12. ASSUME NEW d \in Conns, Used(d) PROVE conn[d].gen # g /\ conn[d].open # TRUE
    BY <1>1, <1>11, <1>12 DEF IInv, ConnInv, ClosedBy, Closing
  <1>13. \A d \in Conns : Used(d)' <=> Used(d) \/ d = c
    BY <1>5, <1>7 DEF Used
  <1>14. thr'[Owner].pc \notin Closing
    BY <1>1, <1>8 DEF Closing
  <1>15. OwnerInv'
    BY <1>3, <1>5, <1>6, <1>7, <1>8, <1>14 DEF OwnerInv, IInv, Used, Closing
  <1>16. Apart'
    <2>1. ASSUME NEW d \in Conns, NEW e \in Conns, Used(d)', Used(e)',
                 conn'[d].gen = conn'[e].gen
          PROVE  d = e
      <3>1. CASE d = c
        BY <1>5, <1>7, <1>12, <1>13, <2>1, <3>1
      <3>2. CASE e = c
        BY <1>5, <1>7, <1>12, <1>13, <2>1, <3>2
      <3>3. CASE d # c /\ e # c
        BY <1>7, <1>13, <2>1, <3>3 DEF IInv, Apart
      <3>4. QED
        BY <3>1, <3>2, <3>3
    <2>2. QED
      BY <2>1 DEF Apart
  <1>17. ASSUME NEW d \in Conns PROVE ConnInv(d)'
    <2>1. CASE d = c
      BY <1>3, <1>5, <1>6, <1>7, <2>1, ClientTyped, EmptyRow DEF IInv, ConnInv, Used, Gens
    <2>2. CASE d # c
      <3>1. conn'[d] = conn[d] /\ client'.gen = g
        BY <1>3, <1>6, <1>7, <2>2
      <3>2. conn[d].open = TRUE => Used(d)
        BY DEF IInv, ConnInv
      <3>3. conn[d].open # TRUE /\ (Used(d) => conn[d].gen # g)
        BY <1>12, <3>2
      <3>4. QED
        BY <3>1, <3>3 DEF IInv, ConnInv, Used
    <2>3. QED
      BY <2>1, <2>2
  <1>18. /\ queue[g].resp = <<>> /\ queue[g].inbox = <<>>
         /\ \A u \in Threads : ~HasResp(u, g) /\ ~HasInbox(u, g)
    BY <1>4, <1>12 DEF IInv, FreeInv
  <1>19. \A u \in Threads, h \in Gens : /\ HasResp(u, h)' <=> HasResp(u, h)
                                        /\ HasInbox(u, h)' <=> HasInbox(u, h)
    BY <1>1, <1>8 DEF HasResp, HasInbox
  <1>20. ASSUME NEW d \in Conns PROVE LiveInv(d)' /\ EndedInv(d)'
    <2>1. CASE d = c
      <3>1. ~Retired(c)' /\ Unasked(c)' /\ NoAnswer(conn'[c].wire) /\ conn'[c].gen = g
        BY <1>5, <1>7, EmptyRow DEF Retired, Unasked
      <3>2. Pipe(c)'
        BY <1>1, <1>18, <3>1 DEF Pipe
      <3>3. \A u \in Threads : ~HasResp(u, conn[c].gen)' /\ ~HasInbox(u, conn[c].gen)'
        BY <1>4, <1>18, <1>19, <3>1 DEF HasResp, HasInbox
      <3>4. NoClosed(queue'[conn'[c].gen].inbox)
        BY <1>1, <1>18, <3>1, EmptyRow
      <3>5. LiveInv(c)' /\ EndedInv(c)'
        BY <3>1, <3>2, <3>3, <3>4 DEF LiveInv, EndedInv
      <3>6. QED
        BY <2>1, <3>5
    <2>2. CASE d # c
      <3>1. SamePair(d)
        BY <1>1, <1>7, <2>2 DEF SamePair
      <3>2. \A u \in Threads : Alike(u, d, conn[d].gen)
        BY <1>1, <1>8, SameAlike, AwayAlike
      <3>3. QED
        BY <3>1, <3>2, PairKeeps DEF IInv
    <2>3. QED
      BY <2>1, <2>2
  <1>21. ASSUME NEW u \in Threads PROVE ThreadInv(u)'
    <2>1. CASE u = Owner /\ thr'[Owner] # thr[Owner]
      <3>1. lock # Owner
        BY <1>1, <2>1 DEF IInv, ThreadInv
      <3>2. thr'[u].pc = "queue" /\ thr'[u].c = c /\ thr'[u].n # 0
            /\ thr'[u].kind \notin Receiving
        BY <1>8, <2>1
      <3>3. QED
        BY <1>1, <1>13, <2>1, <3>1, <3>2 DEF ThreadInv, Used
    <2>2. CASE thr'[u] = thr[u]
      <3>1. thr[u].pc \in Calling => thr[u].c # c
        BY <1>2 DEF IInv, ThreadInv, Used
      <3>2. QED
        BY <1>1, <1>7, <2>2, <3>1 DEF IInv, ThreadInv, Used, Calling
    <2>3. QED
      BY <1>8, <2>1, <2>2
  <1>22. ASSUME NEW h \in Gens PROVE FreeInv(h)'
    <2>1. ASSUME \A d \in Conns : Used(d)' => conn'[d].gen # h
          PROVE  \A d \in Conns : Used(d) => conn[d].gen # h
      BY <1>2, <1>7, <1>13, <2>1 DEF Used
    <2>2. ASSUME \A d \in Conns : Used(d) => conn[d].gen # h
          PROVE  /\ queue'[h].resp = <<>> /\ queue'[h].inbox = <<>>
                 /\ \A t \in Threads : ~HasResp(t, h)' /\ ~HasInbox(t, h)'
      BY <1>1, <1>19, <2>2 DEF IInv, FreeInv
    <2>3. QED
      BY <2>1, <2>2 DEF FreeInv
  <1>23. IInv'
    BY <1>9, <1>15, <1>16, <1>17, <1>20, <1>21, <1>22 DEF IInv
  <1>24. Unanswered
    BY <1>1, <1>8 DEF Unanswered
  <1>25. QED
    BY <1>23, <1>24

-----------------------------------------------------------------------------
(* The theorems *)

LEMMA Unmoved ==
  ASSUME Unanswered
  PROVE  AnswersOwn /\ TellsTruly
  BY DEF Unanswered, AnswersOwn, TellsTruly

LEMMA Steps ==
  ASSUME IInv, [Next]_vars
  PROVE  IInv' /\ AnswersOwn /\ TellsTruly
  <1>1. CASE UNCHANGED vars
    <2>1. TypeOK'
      BY <1>1 DEF IInv, TypeOK, vars
    <2>2. OwnerInv' /\ Apart'
      BY <1>1 DEF IInv, OwnerInv, Apart, Used, vars
    <2>3. ASSUME NEW d \in Conns PROVE ConnInv(d)' /\ LiveInv(d)' /\ EndedInv(d)'
      <3>1. SamePair(d) /\ \A t \in Threads : Alike(t, d, conn[d].gen)
        BY <1>1, SameAlike DEF SamePair, vars
      <3>2. ConnInv(d)'
        BY <1>1 DEF IInv, ConnInv, Used, ClosedBy, vars
      <3>3. QED
        BY <3>1, <3>2, PairKeeps DEF IInv
    <2>4. \A t \in Threads : ThreadInv(t)'
      BY <1>1 DEF IInv, ThreadInv, Used, vars
    <2>5. \A g \in Gens : FreeInv(g)'
      BY <1>1 DEF IInv, FreeInv, Used, HasResp, HasInbox, vars
    <2>6. IInv' /\ Unanswered
      BY <1>1, <2>1, <2>2, <2>3, <2>4, <2>5 DEF IInv, Unanswered, vars
    <2>7. QED
      BY <2>6, Unmoved
  <1>2. CASE Owns
    BY <1>2, StepConnect, StepClose, StepShut, StepReplace, Unmoved DEF Owns
  <1>3. CASE \E t \in Threads :
               Request(t) \/ (\E kind \in {"recv", "poll"} : Recv(t, kind)) \/ Waits(t)
    <2>1. PICK t \in Threads :
            Request(t) \/ (\E kind \in {"recv", "poll"} : Recv(t, kind)) \/ Waits(t)
      BY <1>3
    <2>2. CASE Waits(t)
      BY <2>2, StepTakeQueue, StepSend, StepAnswer, StepTakeInbox, StepTake, StepTimeOut,
         StepRepost, Unmoved DEF Waits
    <2>3. QED
      BY <2>1, <2>2, StepRequest, StepRecv, Unmoved
  <1>4. CASE \E c \in Conns : Reader(c) \/ Serves(c) \/ HubPushes(c) \/ HubGarbles(c)
                              \/ HubGoes(c)
    BY <1>4, StepCheck, StepRead, StepEof, StepHubTakes, StepHubAnswers, StepHubPushes,
       StepHubGarbles, StepHubGoes, Unmoved DEF Reader, Serves
  <1>5. QED
    BY <1>1, <1>2, <1>3, <1>4 DEF Next

LEMMA Starts == Init => IInv
  <1> SUFFICES ASSUME Init PROVE IInv
    OBVIOUS
  <1>1. /\ client.sock = 0 /\ client.closing = FALSE /\ client.gen = 0
        /\ client \in Client
    BY BoundsAssumption DEF Init, Client, Gens
  <1>2. NoConn \in Conn /\ NoConn.hub = "none" /\ NoConn.open = FALSE /\ NoConn.wire = <<>>
        /\ NoConn.reader = "none"
    <2>1. 0 \in 0..MaxCalls /\ 0 \in Gens /\ <<>> \in Seq(1..MaxCalls) /\ <<>> \in Seq(Frame)
      BY BoundsAssumption DEF Gens
    <2>2. QED
      BY <2>1 DEF NoConn, Conn
  <1>3. /\ \A d \in Conns : conn[d] = NoConn
        /\ \A t \in Threads : thr[t] = Idle
        /\ \A g \in Gens : queue[g].resp = <<>> /\ queue[g].inbox = <<>>
        /\ lock = NoThread
    BY DEF Init
  <1>4. TypeOK
    <2>1. conn \in [Conns -> Conn]
      BY <1>2 DEF Init
    <2>2. queue \in [Gens -> [resp : Seq(Frame), inbox : Seq(Frame)]]
      BY DEF Init
    <2>3. thr \in [Threads -> Thread]
      BY IdleThread DEF Init
    <2>4. QED
      BY <1>1, <2>1, <2>2, <2>3, BoundsAssumption DEF Init, TypeOK
  <1>5. OwnerInv
    BY <1>1, <1>3, IdleThread, ThreadsAssumption DEF OwnerInv, Closing
  <1>6. Apart
    BY <1>2, <1>3 DEF Apart, Used
  <1>7. \A d \in Conns : ConnInv(d) /\ LiveInv(d) /\ EndedInv(d)
    BY <1>2, <1>3, EmptyRow DEF ConnInv, LiveInv, EndedInv, Used
  <1>8. \A t \in Threads : ThreadInv(t)
    BY <1>3, IdleThread, ThreadsAssumption DEF ThreadInv, Calling
  <1>9. \A g \in Gens : FreeInv(g)
    BY <1>3, IdleThread DEF FreeInv, HasResp, HasInbox
  <1>10. QED
    BY <1>4, <1>5, <1>6, <1>7, <1>8, <1>9 DEF IInv

LEMMA Inductive == Spec => []IInv
  <1>1. IInv /\ [Next]_vars => IInv'
    BY Steps
  <1>2. QED
    BY <1>1, Starts, PTL DEF Spec

LEMMA QueuesEnd ==
  ASSUME IInv, NEW g \in Gens, NEW q \in {queue[g].resp, queue[g].inbox},
         NEW i \in DOMAIN q, q[i] = CLOSED
  PROVE  i = Len(q)
  <1>1. q \in Seq(Frame) /\ i \in 1..Len(q) /\ queue[g].resp \in Seq(Frame)
        /\ queue[g].inbox \in Seq(Frame)
    BY QueueTyped DEF IInv
  <1>2. q # <<>>
    BY <1>1, EmptySeq
  <1>3. PICK c \in Conns : Used(c) /\ conn[c].gen = g
    BY <1>2 DEF IInv, FreeInv
  <1>4. CASE ~Retired(c)
    <2>1. NoClosed(queue[g].inbox)
      BY <1>3, <1>4 DEF IInv, LiveInv
    <2>2. \/ queue[g].resp = <<>>
          \/ \E n : queue[g].resp = <<AnswerTo(n)>>
      BY <1>3, <1>4, PipeIs DEF IInv
    <2>3. q = queue[g].resp
      BY <1>1, <2>1 DEF NoClosed
    <2>4. PICK n : q = <<AnswerTo(n)>>
      BY <1>2, <2>2, <2>3
    <2>5. i = 1 /\ q[1] = AnswerTo(n)
      BY <1>1, <2>4
    <2>6. QED
      BY <2>5, Frames
  <1>5. CASE Retired(c)
    <2>1. EndedResp(c) /\ EndedInbox(c)
      BY <1>3, <1>5 DEF IInv, EndedInv
    <2>2. CASE q = queue[g].inbox
      BY <1>1, <1>2, <1>3, <2>1, <2>2 DEF EndedInbox, EndsClosed
    <2>3. CASE q = queue[g].resp
      <3>1. q = <<CLOSED>> \/ \E n : q = <<AnswerTo(n), CLOSED>>
        BY <1>2, <1>3, <2>1, <2>3 DEF EndedResp
      <3>2. CASE q = <<CLOSED>>
        BY <1>1, <3>2
      <3>3. ASSUME NEW n, q = <<AnswerTo(n), CLOSED>> PROVE i = Len(q)
        <4>1. Len(q) = 2 /\ q[1] = AnswerTo(n)
          BY <3>3
        <4>2. i # 1
          BY <4>1, Frames
        <4>3. QED
          BY <1>1, <4>1, <4>2
      <3>4. QED
        BY <3>1, <3>2, <3>3
    <2>4. QED
      BY <2>2, <2>3
  <1>6. QED
    BY <1>4, <1>5

\* Every variable keeps its type.
THEOREM TypeCorrect == Spec => []TypeOK
  <1>1. IInv => TypeOK
    BY DEF IInv
  <1>2. QED
    BY <1>1, Inductive, PTL

\* However requests, pushes, hangups and closes interleave, a request that is answered is
\* answered with its own answer (_request, which matches answers by their order alone), and
\* one that is told of the end of its connection (_CLOSED in _responses) was on one whose
\* reader has ended.
THEOREM AnswersAreOwn == Spec => OwnAnswer
  <1>1. IInv /\ [Next]_vars => [AnswersOwn /\ TellsTruly]_vars
    BY Steps
  <1>2. [AnswersOwn /\ TellsTruly]_vars => [\A t \in Threads : At(t, "answer") =>
          /\ At(t, "idle")' => Head(queue[thr[t].g].resp) = AnswerTo(thr[t].n)
          /\ At(t, "repost")' => conn[thr[t].c].reader = "retired"]_vars
    BY DEF AnswersOwn, TellsTruly, At
  <1>3. QED
    BY <1>1, <1>2, Inductive, PTL DEF Spec, OwnAnswer

\* Nothing is behind a sentinel in a queue: once recv has returned None, it has nothing
\* more to return from that connection.
THEOREM SentinelIsLast == Spec => []ClosedIsLast
  <1>1. IInv => ClosedIsLast
    BY QueuesEnd DEF ClosedIsLast
  <1>2. QED
    BY <1>1, Inductive, PTL
=============================================================================
