------------------------------ MODULE HelperClient ------------------------------
(***************************************************************************)
(* The helper's end of the hub's socket (HelperConnection in               *)
(* channels/helper_client.py).  The hub writes answers and pushes onto one *)
(* socket; a reader thread per connection sorts them into two queues, and  *)
(* the threads that make requests or wait for messages wait on those.      *)
(*                                                                         *)
(* A thread reads self._sock and a queue at two moments, and the client    *)
(* may be closed and connected anew between them.  The hub is modelled     *)
(* from _client_reader: one thread serves a connection's requests in       *)
(* order, and other threads push to a connection that has registered.      *)
(*                                                                         *)
(* Every thread makes requests and waits for messages; one, Owner, also    *)
(* connects and closes.  Left out: a thread that is interrupted while it   *)
(* waits, the reason a closed connection reports, send_request             *)
(* (HelperHub's NoAnswer).                                                 *)
(***************************************************************************)
EXTENDS Naturals, Sequences

CONSTANTS
  Threads,   \* the threads of the box that use the client
  Owner,     \* the one that connects and closes it
  NoThread,  \* none of them
  MaxConns,  \* bound: connections
  MaxCloses, \* bound: calls of close
  MaxCalls,  \* bound: requests and recvs
  MaxPushes  \* bound: messages pushed

ASSUME ThreadsAssumption == Owner \in Threads /\ NoThread \notin Threads
ASSUME BoundsAssumption ==
  MaxConns \in Nat /\ MaxCloses \in Nat /\ MaxCalls \in Nat /\ MaxPushes \in Nat

VARIABLES
  client,  \* the object's attributes
  conn,    \* the connections, in the order they are made
  queue,   \* the pairs of queues, in the order they are made
  lock,    \* the holder of _lock
  thr,     \* the threads
  calls,   \* requests and recvs begun so far
  pushed   \* messages pushed so far

vars == <<client, conn, queue, lock, thr, calls, pushed>>

Conns == 1..MaxConns
Gens == 0..MaxCloses
Kinds == {"register", "request", "recv", "poll"}  \* poll: recv with a timeout

\* What is on the wire and in the queues. junk: what _route_frame refuses, or a frame
\* over the limit.  closed: _CLOSED.
Frame == [kind : {"answer", "push", "junk", "closed"}, n : 0..MaxCalls]
CLOSED == [kind |-> "closed", n |-> 0]
Push == [kind |-> "push", n |-> 0]
Junk == [kind |-> "junk", n |-> 0]
AnswerTo(n) == [kind |-> "answer", n |-> n]

\* sock: the connection _sock is, 0 without one.  gen: the queues _responses and _inbox are.
Client == [sock : 0..MaxConns, closing : BOOLEAN, gen : Gens]

\* open: not shut down here.  hub: the other end.  asked: what was sent, not yet read.
\* busy: what the hub works on.  num: the registration.  reg: it was registered.
Conn == [open : BOOLEAN, hub : {"none", "up", "gone"}, gen : Gens,
         reader : {"none", "check", "recv", "retired"},
         asked : Seq(1..MaxCalls), busy : 0..MaxCalls, num : 0..MaxCalls, reg : BOOLEAN,
         wire : Seq(Frame)]
NoConn == [open |-> FALSE, hub |-> "none", gen |-> 0, reader |-> "none", asked |-> <<>>,
           busy |-> 0, num |-> 0, reg |-> FALSE, wire |-> <<>>]

PCs == {"idle", "queue", "lock", "answer", "inbox", "take", "repost", "shut", "replace"}
\* c and g: the connection and the queues it has read.  n: its request.
Thread == [pc : PCs, kind : Kinds, c : 0..MaxConns, g : Gens, n : 0..MaxCalls]
Idle == [pc |-> "idle", kind |-> "request", c |-> 0, g |-> 0, n |-> 0]

TypeOK ==
  /\ client \in Client /\ conn \in [Conns -> Conn]
  /\ queue \in [Gens -> [resp : Seq(Frame), inbox : Seq(Frame)]]
  /\ lock \in Threads \cup {NoThread} /\ thr \in [Threads -> Thread]
  /\ calls \in 0..MaxCalls /\ pushed \in 0..MaxPushes

Init ==
  /\ client = [sock |-> 0, closing |-> FALSE, gen |-> 0]
  /\ conn = [c \in Conns |-> NoConn]
  /\ queue = [g \in Gens |-> [resp |-> <<>>, inbox |-> <<>>]]
  /\ lock = NoThread /\ thr = [t \in Threads |-> Idle]
  /\ calls = 0 /\ pushed = 0

At(t, pc) == thr[t].pc = pc
Goto(t, pc) == thr' = [thr EXCEPT ![t].pc = pc]
Ends(t) == thr' = [thr EXCEPT ![t] = Idle]
Counts == <<calls, pushed>>

-----------------------------------------------------------------------------
(* The owner *)

\* A new connection, its reader, and its registration if there is a number to register.
Connect(reg) ==
  /\ At(Owner, "idle") /\ client.sock = 0
  /\ \E c \in Conns :
       /\ conn[c].hub = "none" /\ \A d \in Conns : d < c => conn[d].hub # "none"
       /\ client' = [client EXCEPT !.sock = c, !.closing = FALSE]
       /\ conn' = [conn EXCEPT ![c] = [NoConn EXCEPT
            !.open = TRUE, !.hub = "up", !.gen = client.gen, !.reader = "check",
            !.num = IF reg THEN calls + 1 ELSE 0]]
       /\ IF reg
          THEN /\ calls < MaxCalls /\ calls' = calls + 1
               /\ thr' = [thr EXCEPT ![Owner] = [Idle EXCEPT
                    !.pc = "queue", !.kind = "register", !.c = c, !.n = calls + 1]]
          ELSE UNCHANGED <<calls, thr>>
  /\ UNCHANGED <<queue, lock, pushed>>

Close ==
  /\ At(Owner, "idle") /\ client.gen < MaxCloses
  /\ client' = [client EXCEPT !.sock = 0, !.closing = TRUE]
  /\ thr' = [thr EXCEPT ![Owner].pc = IF client.sock = 0 THEN "replace" ELSE "shut",
                        ![Owner].c = client.sock]
  /\ UNCHANGED <<conn, queue, lock, Counts>>

Shut ==
  /\ At(Owner, "shut")
  /\ conn' = [conn EXCEPT ![thr[Owner].c].open = FALSE]
  /\ Goto(Owner, "replace")
  /\ UNCHANGED <<client, queue, lock, Counts>>

\* The reader has ended by now, or has outlived the wait for it.
Replace ==
  /\ At(Owner, "replace")
  /\ client' = [client EXCEPT !.gen = @ + 1]
  /\ Ends(Owner)
  /\ UNCHANGED <<conn, queue, lock, Counts>>

-----------------------------------------------------------------------------
(* The reader of a connection *)

\* It retires, and wakes whoever waits on its queues.
Posted(c, wire) ==
  /\ conn' = [conn EXCEPT ![c].reader = "retired", ![c].wire = wire]
  /\ queue' = [queue EXCEPT ![conn[c].gen] =
       [resp |-> Append(@.resp, CLOSED), inbox |-> Append(@.inbox, CLOSED)]]

Check(c) ==
  /\ conn[c].reader = "check"
  /\ \/ client.closing /\ Posted(c, conn[c].wire)
     \/ /\ ~client.closing
        /\ conn' = [conn EXCEPT ![c].reader = "recv"] /\ UNCHANGED queue
  /\ UNCHANGED <<client, lock, thr, Counts>>

\* A frame goes to the queue its shape names; more of them may have come at once.
Read(c) ==
  /\ conn[c].reader = "recv" /\ conn[c].wire # <<>>
  /\ LET f == Head(conn[c].wire)  rest == Tail(conn[c].wire)  g == conn[c].gen IN
       \/ f.kind = "junk" /\ Posted(c, rest)
       \/ /\ f.kind # "junk"
          /\ queue' = IF f.kind = "push" THEN [queue EXCEPT ![g].inbox = Append(@, f)]
                      ELSE [queue EXCEPT ![g].resp = Append(@, f)]
          /\ \E pc \in IF rest = <<>> THEN {"check"} ELSE {"check", "recv"} :
               conn' = [conn EXCEPT ![c].reader = pc, ![c].wire = rest]
  /\ UNCHANGED <<client, lock, thr, Counts>>

\* End of file, or an error of a socket closed under it.
Eof(c) ==
  /\ conn[c].reader = "recv"
  /\ conn[c].open => conn[c].hub = "gone" /\ conn[c].wire = <<>>
  /\ Posted(c, conn[c].wire)
  /\ UNCHANGED <<client, lock, thr, Counts>>

-----------------------------------------------------------------------------
(* Requests *)

Request(t) ==
  /\ At(t, "idle") /\ client.sock # 0 /\ calls < MaxCalls
  /\ calls' = calls + 1
  /\ thr' = [thr EXCEPT ![t] = [Idle EXCEPT
       !.pc = "queue", !.kind = "request", !.c = client.sock, !.n = calls + 1]]
  /\ UNCHANGED <<client, conn, queue, lock, pushed>>

TakeQueue(t) ==
  /\ At(t, "queue")
  /\ thr' = [thr EXCEPT ![t].pc = "lock", ![t].g = client.gen]
  /\ UNCHANGED <<client, conn, queue, lock, Counts>>

\* Mutated form of Send: without _lock.
SendUnlocked(t) ==
  /\ At(t, "lock")
  /\ LET c == thr[t].c IN
       IF conn[c].open /\ conn[c].hub = "up"
       THEN /\ conn' = [conn EXCEPT ![c].asked = Append(@, thr[t].n)]
            /\ Goto(t, "answer")
       ELSE Ends(t) /\ UNCHANGED conn
  /\ UNCHANGED <<client, queue, lock, Counts>>

\* With the lock held, which a send that raises gives back.
Send(t) ==
  /\ At(t, "lock") /\ lock = NoThread
  /\ LET c == thr[t].c IN
       IF conn[c].open /\ conn[c].hub = "up"
       THEN /\ conn' = [conn EXCEPT ![c].asked = Append(@, thr[t].n)]
            /\ lock' = t /\ Goto(t, "answer")
       ELSE Ends(t) /\ UNCHANGED <<conn, lock>>
  /\ UNCHANGED <<client, queue, Counts>>

\* The next response is the answer, or there will be none.
Answer(t) ==
  /\ At(t, "answer") /\ queue[thr[t].g].resp # <<>>
  /\ queue' = [queue EXCEPT ![thr[t].g].resp = Tail(@)]
  /\ lock' = NoThread
  /\ IF Head(queue[thr[t].g].resp) = CLOSED THEN Goto(t, "repost") ELSE Ends(t)
  /\ UNCHANGED <<client, conn, Counts>>

-----------------------------------------------------------------------------
(* Messages *)

Recv(t, kind) ==
  /\ At(t, "idle") /\ client.sock # 0 /\ calls < MaxCalls
  /\ calls' = calls + 1
  /\ thr' = [thr EXCEPT ![t] = [Idle EXCEPT
       !.pc = "inbox", !.kind = kind]]
  /\ UNCHANGED <<client, conn, queue, lock, pushed>>

TakeInbox(t) ==
  /\ At(t, "inbox")
  /\ thr' = [thr EXCEPT ![t].pc = "take", ![t].g = client.gen]
  /\ UNCHANGED <<client, conn, queue, lock, Counts>>

Take(t) ==
  /\ At(t, "take") /\ queue[thr[t].g].inbox # <<>>
  /\ queue' = [queue EXCEPT ![thr[t].g].inbox = Tail(@)]
  /\ IF Head(queue[thr[t].g].inbox) = CLOSED THEN Goto(t, "repost") ELSE Ends(t)
  /\ UNCHANGED <<client, conn, lock, Counts>>

TimeOut(t) ==
  /\ At(t, "take") /\ thr[t].kind = "poll"
  /\ Ends(t)
  /\ UNCHANGED <<client, conn, queue, lock, Counts>>

\* Mutated form of Repost: the sentinel is kept.
RepostNot(t) ==
  /\ At(t, "repost")
  /\ Ends(t)
  /\ UNCHANGED <<client, conn, queue, lock, Counts>>

\* Who takes the sentinel puts it back for the next.
Repost(t) ==
  /\ At(t, "repost")
  /\ queue' = IF thr[t].kind \in {"recv", "poll"}
              THEN [queue EXCEPT ![thr[t].g].inbox = Append(@, CLOSED)]
              ELSE [queue EXCEPT ![thr[t].g].resp = Append(@, CLOSED)]
  /\ Ends(t)
  /\ UNCHANGED <<client, conn, lock, Counts>>

-----------------------------------------------------------------------------
(* The hub *)

HubTakes(c) ==
  /\ conn[c].hub = "up" /\ conn[c].busy = 0 /\ conn[c].asked # <<>>
  /\ conn' = [conn EXCEPT ![c].busy = Head(conn[c].asked), ![c].asked = Tail(@),
                          ![c].reg = conn[c].reg \/ Head(conn[c].asked) = conn[c].num]
  /\ UNCHANGED <<client, queue, lock, thr, Counts>>

\* An answer that cannot be written ends the connection.
HubAnswers(c) ==
  /\ conn[c].hub = "up" /\ conn[c].busy # 0
  /\ conn' = IF conn[c].open
             THEN [conn EXCEPT ![c].busy = 0, ![c].wire = Append(@, AnswerTo(conn[c].busy))]
             ELSE [conn EXCEPT ![c].busy = 0, ![c].hub = "gone"]
  /\ UNCHANGED <<client, queue, lock, thr, Counts>>

\* A message from another helper; one that cannot be written is dropped.
HubPushes(c) ==
  /\ conn[c].hub = "up" /\ conn[c].reg /\ conn[c].open /\ pushed < MaxPushes
  /\ conn' = [conn EXCEPT ![c].wire = Append(@, Push)]
  /\ pushed' = pushed + 1
  /\ UNCHANGED <<client, queue, lock, thr, calls>>

\* A message and an answer are written by two threads of the hub, without a lock.
HubGarbles(c) ==
  /\ conn[c].hub = "up" /\ conn[c].reg /\ conn[c].open /\ conn[c].busy # 0
  /\ pushed < MaxPushes
  /\ conn' = [conn EXCEPT ![c].busy = 0, ![c].wire = Append(@, Junk)]
  /\ pushed' = pushed + 1
  /\ UNCHANGED <<client, queue, lock, thr, calls>>

\* The hub ends, or drops this client.
HubGoes(c) ==
  /\ conn[c].hub = "up"
  /\ conn' = [conn EXCEPT ![c].hub = "gone", ![c].busy = 0]
  /\ UNCHANGED <<client, queue, lock, thr, Counts>>

-----------------------------------------------------------------------------
Owns == (\E reg \in BOOLEAN : Connect(reg)) \/ Close \/ Shut \/ Replace
Reader(c) == Check(c) \/ Read(c) \/ Eof(c)
Waits(t) ==
  \/ TakeQueue(t) \/ Send(t) \/ Answer(t) \/ TakeInbox(t) \/ Take(t) \/ TimeOut(t) \/ Repost(t)
Serves(c) == HubTakes(c) \/ HubAnswers(c)

Next ==
  \/ Owns
  \/ \E t \in Threads : Request(t) \/ (\E kind \in {"recv", "poll"} : Recv(t, kind)) \/ Waits(t)
  \/ \E c \in Conns : Reader(c) \/ Serves(c) \/ HubPushes(c) \/ HubGarbles(c) \/ HubGoes(c)

\* Threads run on, a close that has begun goes on, the hub answers what it reads.
Fairness ==
  /\ WF_vars(Shut \/ Replace)
  /\ \A c \in Conns : WF_vars(Reader(c)) /\ WF_vars(Serves(c))
  /\ \A t \in Threads : WF_vars(Waits(t))

Spec == Init /\ [][Next]_vars /\ Fairness

-----------------------------------------------------------------------------
(* Properties *)

\* A request is answered with its own answer: no push, no other thread's answer and
\* none of an earlier connection, though the frames name no request.  One that is told
\* that its connection is over was on one that is.
OwnAnswer == [][\A t \in Threads : At(t, "answer") =>
  /\ At(t, "idle")' => Head(queue[thr[t].g].resp) = AnswerTo(thr[t].n)
  /\ At(t, "repost")' => conn[thr[t].c].reader = "retired"]_vars

\* Nothing comes after a sentinel in any queue, so recv's None is the last word.
ClosedIsLast == \A g \in Gens : \A q \in {queue[g].resp, queue[g].inbox} :
  \A i \in DOMAIN q : q[i] = CLOSED => i = Len(q)

\* A thread in recv waits on the queue of a connection that is closed, or whose hub is gone.
OnClosed(t) == At(t, "take") /\ \E c \in Conns :
  /\ conn[c].hub # "none" /\ conn[c].gen = thr[t].g
  /\ conn[c].hub = "up" => conn[c].gen # client.gen

\* Who waits for an answer gets it, or learns that it will not come, through hangups,
\* frames the client does not understand, closes, and others who wait as well; and a recv
\* on the queue of a connection that is over is woken.
WaitersWake == \A t \in Threads :
  /\ At(t, "answer") ~> ~At(t, "answer")
  /\ OnClosed(t) ~> ~At(t, "take")
=============================================================================
