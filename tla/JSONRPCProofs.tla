---------------------------- MODULE JSONRPCProofs ----------------------------
(***************************************************************************)
(* A query never reads a connection that was opened before it began, for   *)
(* any number of threads that share the socket, whatever they ask; and one *)
(* that no other ran beside gets the daemon's answer to it.                *)
(***************************************************************************)
EXTENDS JSONRPC, SequenceTheorems, TLAPS

Pcs == {"idle", "close", "connect", "write", "read", "reading", "more", "rest", "body",
        "parse", "done"}
Answers == {Info, Template, Accepted, Rejected}
Requests == [by : Threads, asks : Methods]
Pieces == [part : {"head", "body"}, val : Answers \cup {"200", "500"}]
Connections ==
    [reqs : Seq(Requests), due : Answers \cup {None}, inb : Seq(Pieces), eof : BOOLEAN,
     during : SUBSET Threads]

Typed ==
    /\ sock \in Conns \cup {None}
    /\ conn \in [Conns -> Connections]
    /\ pc \in [Threads -> Pcs]
    /\ method \in [Threads -> Methods \cup {None}]
    /\ on \in [Threads -> Conns \cup {None}]

\* A query holds a connection while it reads, and only then.
OnlyReadersHold == \A p \in Threads : on[p] # None <=> pc[p] \in {"reading", "body"}
Asking == \A p \in Threads : pc[p] # "idle" => method[p] \in Methods

\* From its close of the socket on, whatever connection the socket has was
\* opened during the query, by whichever thread.
SocketIsNew ==
    \A p \in Threads : pc[p] \notin {"idle", "close"} /\ sock # None => p \in conn[sock].during

StaleInv == Typed /\ OnlyReadersHold /\ Asking /\ SocketIsNew /\ NoStaleAnswer

\* A connection that nobody has opened is well formed.
LEMMA FreshTyped == Fresh \in Connections
  <1>1. <<>> \in Seq(Requests) /\ <<>> \in Seq(Pieces)
    OBVIOUS
  <1>2. {} \in SUBSET Threads
    OBVIOUS
  <1> QED BY <1>1, <1>2, SMT DEF Fresh, Connections

\* Initially nobody asks and the socket is closed.
LEMMA InitStale == Init => StaleInv
  <1> SUFFICES ASSUME Init PROVE StaleInv
    OBVIOUS
  <1>1. Typed
    BY FreshTyped DEF Init, Typed, Pcs
  <1> QED BY <1>1 DEF Init, StaleInv, OnlyReadersHold, Asking, SocketIsNew, NoStaleAnswer

\* What a read takes leaves the history of every connection alone.
LEMMA EmptiedKeeps ==
    ASSUME Typed, NEW p \in Threads
    PROVE  /\ Emptied(p) \in [Conns -> Connections]
           /\ \A c \in Conns : Emptied(p)[c].during = conn[c].during
  <1>1. <<>> \in Seq(Pieces)
    OBVIOUS
  <1> QED BY <1>1 DEF Typed, Connections, Emptied

\* A step that leaves each connection in use with the queries it was opened
\* during, and moves no query past its close, keeps the invariant.
LEMMA DuringKept ==
    ASSUME StaleInv, Typed', OnlyReadersHold', Asking',
           sock' \in {sock, None},
           sock' # None => conn'[sock'].during = conn[sock'].during,
           \A r \in Threads : on'[r] # None => on'[r] = on[r],
           \A r \in Threads : on'[r] # None => conn'[on[r]].during = conn[on[r]].during,
           sock' # None => \A r \in Threads :
                pc'[r] \notin {"idle", "close"} => pc[r] \notin {"idle", "close"}
    PROVE  StaleInv'
  <1>1. SocketIsNew'
    BY DEF StaleInv, SocketIsNew
  <1>2. NoStaleAnswer'
    BY DEF StaleInv, NoStaleAnswer
  <1> QED BY <1>1, <1>2 DEF StaleInv

\* An exception ends the query and leaves the other readers their connections.
LEMMA RaiseStale ==
    ASSUME StaleInv, NEW p \in Threads, NEW s \in {sock, None},
           NEW k \in [Conns -> Connections], \A c \in Conns : k[c].during = conn[c].during,
           Raise(p, s, k)
    PROVE  StaleInv'
  <1>1. on' \in [Threads -> Conns \cup {None}] /\ s \in Conns \cup {None}
    BY DEF StaleInv, Typed, Raise
  <1>2. /\ conn' \in [Conns -> Connections]
        /\ s # None => conn'[s] = k[s]
        /\ \A r \in Threads : on'[r] # None => conn'[on'[r]] = k[on'[r]]
    BY <1>1, FreshTyped DEF Raise, Swept, Used
  <1>3. Typed'
    BY <1>1, <1>2 DEF StaleInv, Typed, Raise, Pcs
  <1>4. OnlyReadersHold' /\ Asking'
    BY DEF StaleInv, Typed, OnlyReadersHold, Asking, Raise
  <1>5. \A r \in Threads : on'[r] # None => on'[r] = on[r]
    BY DEF StaleInv, Typed, Raise
  <1>6. \A r \in Threads : pc'[r] \notin {"idle", "close"} => pc[r] \notin {"idle", "close"}
    BY DEF StaleInv, Typed, Raise
  <1>7. /\ s # None => conn'[s].during = conn[s].during
        /\ \A r \in Threads : on'[r] # None => conn'[on[r]].during = conn[on[r]].during
    BY <1>1, <1>2, <1>5
  <1>8. sock' = s
    BY DEF Raise
  <1> QED BY <1>3, <1>4, <1>5, <1>6, <1>7, <1>8, DuringKept

\* One that takes nothing from its connection.
LEMMA ThrowStale ==
    ASSUME StaleInv, NEW p \in Threads, NEW s \in {sock, None}, Throw(p, s)
    PROVE  StaleInv'
  BY RaiseStale DEF Throw, StaleInv, Typed

\* What a read takes from its connection leaves the queries of every other as
\* they are.
LEMMA TakeKeeps ==
    ASSUME StaleInv, NEW p \in Threads, on[p] # None, Take(p), sock' = sock
    PROVE  /\ on' \in [Threads -> Conns \cup {None}]
           /\ conn' \in [Conns -> Connections]
           /\ sock # None => conn'[sock].during = conn[sock].during
           /\ \A r \in Threads : on'[r] # None => on'[r] = on[r] /\ on[r] # None
           /\ \A r \in Threads : on'[r] # None => conn'[on[r]].during = conn[on[r]].during
  <1>1. on' \in [Threads -> Conns \cup {None}] /\ sock \in Conns \cup {None}
    BY DEF StaleInv, Typed, Take
  <1>2. /\ Emptied(p) \in [Conns -> Connections]
        /\ \A c \in Conns : Emptied(p)[c].during = conn[c].during
    BY EmptiedKeeps DEF StaleInv
  <1>3. \A r \in Threads : on'[r] # None => on'[r] = on[r] /\ on[r] # None
    BY DEF StaleInv, Typed, Take
  <1>4. /\ conn' \in [Conns -> Connections]
        /\ sock # None => conn'[sock] = Emptied(p)[sock]
        /\ \A r \in Threads : on'[r] # None => conn'[on'[r]] = Emptied(p)[on'[r]]
    BY <1>1, <1>2, FreshTyped DEF Take, Swept, Used
  <1> QED BY <1>1, <1>2, <1>3, <1>4

\* A new connection was opened during every query in progress.
LEMMA ConnectSocketStale ==
    ASSUME StaleInv, NEW p \in Threads, ConnectSocket(p)
    PROVE  StaleInv'
  <1>1. sock' \in Conns /\ sock' \notin Used(None, on)
    BY DEF ConnectSocket
  <1> DEFINE opened == [Fresh EXCEPT !.during = {r \in Threads : Active(r)}]
  <1>2. opened \in Connections /\ opened.during = {r \in Threads : Active(r)}
    BY FreshTyped DEF Connections
  <1>3. conn' = [conn EXCEPT ![sock'] = opened]
    BY DEF ConnectSocket
  <1> HIDE DEF opened
  <1>4. conn' \in [Conns -> Connections]
    BY <1>2, <1>3 DEF StaleInv, Typed
  <1>5. conn'[sock'].during = {r \in Threads : Active(r)}
    BY <1>1, <1>2, <1>3 DEF StaleInv, Typed
  <1>6. Typed'
    BY <1>1, <1>4 DEF StaleInv, Typed, ConnectSocket, Pcs
  <1>7. OnlyReadersHold' /\ Asking'
    BY DEF StaleInv, Typed, OnlyReadersHold, Asking, ConnectSocket
  <1>8. SocketIsNew'
    BY <1>5 DEF StaleInv, Typed, SocketIsNew, ConnectSocket, Active
  <1>9. NoStaleAnswer'
    <2> SUFFICES ASSUME NEW r \in Threads, on'[r] # None PROVE r \in conn'[on'[r]].during
      BY DEF NoStaleAnswer
    <2>1. on'[r] = on[r] /\ on[r] \in Conns /\ on[r] # sock'
      BY <1>1 DEF StaleInv, Typed, ConnectSocket, Used
    <2> QED BY <1>3, <2>1 DEF StaleInv, Typed, NoStaleAnswer
  <1> QED BY <1>6, <1>7, <1>8, <1>9 DEF StaleInv

\* Steps that only move the thread and what it has read.
LEMMA MoveStale ==
    ASSUME StaleInv, NEW p \in Threads, NEW to \in Pcs \ {"reading", "body"},
           pc[p] \notin {"idle", "close", "reading", "body"},
           pc' = [pc EXCEPT ![p] = to], UNCHANGED <<sock, conn, on>>,
           method' = method \/ (method' = [method EXCEPT ![p] = None] /\ to = "idle")
    PROVE  StaleInv'
  <1>1. Typed'
    BY DEF StaleInv, Typed, Pcs
  <1>2. OnlyReadersHold' /\ Asking'
    BY DEF StaleInv, Typed, OnlyReadersHold, Asking
  <1>3. \A r \in Threads : pc'[r] \notin {"idle", "close"} => pc[r] \notin {"idle", "close"}
    BY DEF StaleInv, Typed
  <1> QED BY <1>1, <1>2, <1>3, DuringKept DEF StaleInv, Typed

\* A read begins on the connection the socket has, which is new.
LEMMA BeginReadStale ==
    ASSUME StaleInv, NEW p \in Threads, NEW from \in {"read", "rest"}, NEW to \in {"reading", "body"},
           BeginRead(p, from, to)
    PROVE  StaleInv'
  <1>1. Typed'
    BY DEF StaleInv, Typed, BeginRead, Pcs
  <1>2. OnlyReadersHold' /\ Asking'
    BY DEF StaleInv, Typed, OnlyReadersHold, Asking, BeginRead
  <1>3. SocketIsNew'
    BY DEF StaleInv, Typed, SocketIsNew, BeginRead
  <1>4. NoStaleAnswer'
    BY DEF StaleInv, Typed, SocketIsNew, NoStaleAnswer, BeginRead
  <1> QED BY <1>1, <1>2, <1>3, <1>4 DEF StaleInv

\* The end of a read gives the connection up.
LEMMA TakeStale ==
    ASSUME StaleInv, NEW p \in Threads, pc[p] \in {"reading", "body"}, on[p] # None,
           Take(p), sock' = sock, method' = method,
           NEW to \in {"more", "parse"}, pc' = [pc EXCEPT ![p] = to]
    PROVE  StaleInv'
  <1>1. Typed'
    BY TakeKeeps DEF StaleInv, Typed, Pcs
  <1>2. OnlyReadersHold' /\ Asking'
    <2>1. on' = [on EXCEPT ![p] = None]
      BY DEF Take
    <2> QED BY <2>1 DEF StaleInv, Typed, OnlyReadersHold, Asking
  <1>3. \A r \in Threads : pc'[r] \notin {"idle", "close"} => pc[r] \notin {"idle", "close"}
    BY DEF StaleInv, Typed
  <1> QED BY <1>1, <1>2, <1>3, TakeKeeps, DuringKept

\* Changes to one connection that leave its history alone.
LEMMA ConnStale ==
    ASSUME StaleInv, NEW c \in Conns, NEW v \in Connections, v.during = conn[c].during,
           conn' = [conn EXCEPT ![c] = v], UNCHANGED <<sock, method, on>>,
           \/ pc' = pc
           \/ \E p \in Threads : pc[p] = "write" /\ pc' = [pc EXCEPT ![p] = "read"]
    PROVE  StaleInv'
  <1>1. Typed'
    BY DEF StaleInv, Typed, Pcs
  <1>2. \A d \in Conns : conn'[d].during = conn[d].during
    BY DEF StaleInv, Typed
  <1>3. OnlyReadersHold' /\ Asking'
    BY DEF StaleInv, Typed, OnlyReadersHold, Asking
  <1>4. \A r \in Threads : pc'[r] \notin {"idle", "close"} => pc[r] \notin {"idle", "close"}
    BY DEF StaleInv, Typed
  <1> QED BY <1>1, <1>2, <1>3, <1>4, DuringKept DEF StaleInv, Typed

\* A query that begins is not in the history of any connection; it holds none.
LEMMA StartStale ==
    ASSUME StaleInv, NEW p \in Threads, NEW m \in Methods, Start(p, m)
    PROVE  StaleInv'
  <1>1. \A c \in Conns : /\ conn'[c] \in Connections
                         /\ conn'[c].during = conn[c].during \ {p}
    BY DEF StaleInv, Typed, Connections, Start
  <1>2. conn' \in [Conns -> Connections]
    BY <1>1 DEF Start
  <1>3. Typed'
    BY <1>2 DEF StaleInv, Typed, Start, Pcs
  <1>4. OnlyReadersHold' /\ Asking' /\ on[p] = None
    BY DEF StaleInv, Typed, OnlyReadersHold, Asking, Start
  <1>5. SocketIsNew'
    BY <1>1 DEF StaleInv, Typed, SocketIsNew, Start
  <1>6. NoStaleAnswer'
    BY <1>1, <1>4 DEF StaleInv, Typed, NoStaleAnswer, Start
  <1> QED BY <1>3, <1>4, <1>5, <1>6 DEF StaleInv

\* Closing the socket takes no connection from a reader.
LEMMA CloseStale ==
    ASSUME StaleInv, NEW p \in Threads, NEW to \in Pcs \ {"reading", "body"},
           pc[p] \notin {"idle", "reading", "body"},
           sock' = None, conn' = Swept(None, on, conn), on' = on, method' = method,
           pc' = [pc EXCEPT ![p] = to]
    PROVE  StaleInv'
  <1>1. on \in [Threads -> Conns \cup {None}] /\ None \in Conns \cup {None}
    BY DEF StaleInv, Typed
  <1>2. /\ conn' \in [Conns -> Connections]
        /\ \A r \in Threads : on[r] # None => conn'[on[r]] = conn[on[r]]
    BY <1>1, FreshTyped DEF StaleInv, Typed, Swept, Used
  <1>3. Typed'
    BY <1>2 DEF StaleInv, Typed, Pcs
  <1>4. OnlyReadersHold' /\ Asking'
    BY DEF StaleInv, Typed, OnlyReadersHold, Asking
  <1> QED BY <1>2, <1>3, <1>4, DuringKept

\* Every step of a query.
LEMMA ThreadStale ==
    ASSUME StaleInv, NEW p \in Threads, Step(p)
    PROVE  StaleInv'
  <1>1. CASE CloseSocket(p)
    BY <1>1, CloseStale DEF CloseSocket, AfterClose, Pcs
  <1>2. CASE ConnectSocket(p)
    BY <1>2, ConnectSocketStale
  <1>3. CASE ConnectFails(p) \/ ParseFails(p)
    BY <1>3, ThrowStale DEF ConnectFails, ParseFails
  <1>4. CASE WriteFails(p) \/ ReadClosed(p) \/ ReadEnds(p) \/ AvailableFails(p)
    BY <1>4, ThrowStale DEF WriteFails, ReadClosed, ReadEnds, AvailableFails
  <1>5. CASE Write(p)
    <2> DEFINE r == [by |-> p, asks |-> method[p]]
               v == [conn[sock] EXCEPT !.reqs = Append(@, r)]
    <2>1. sock \in Conns /\ conn[sock] \in Connections
      BY <1>5 DEF StaleInv, Typed, Write
    <2>2. r \in Requests
      BY <1>5 DEF StaleInv, Asking, Write, Requests
    <2>3. v \in Connections /\ v.during = conn[sock].during
      <3> HIDE DEF r
      <3>1. Append(conn[sock].reqs, r) \in Seq(Requests)
        BY <2>1, <2>2 DEF Connections
      <3> QED BY <2>1, <3>1 DEF Connections
    <2>4. conn' = [conn EXCEPT ![sock] = v]
      BY <1>5 DEF Write
    <2> HIDE DEF v
    <2> QED BY <1>5, <2>1, <2>3, <2>4, ConnStale DEF Write
  <1>6. CASE BeginRead(p, "read", "reading") \/ BeginRead(p, "rest", "body")
    BY <1>6, BeginReadStale
  <1>7. CASE ReadRefused(p)
    BY <1>7, RaiseStale, EmptiedKeeps DEF ReadRefused, StaleInv
  <1>8. CASE ReadHead(p) \/ ReadBody(p)
    <2>1. CASE on[p] # None
      BY <1>8, <2>1, TakeStale DEF ReadHead, ReadBody
    <2>2. CASE on[p] = None
      BY <1>8, <2>2 DEF StaleInv, OnlyReadersHold, ReadHead, ReadBody
    <2> QED BY <2>1, <2>2
  <1>9. CASE NoMore(p) \/ ReadMore(p)
    BY <1>9, MoveStale DEF NoMore, ReadMore, Pcs
  <1>10. CASE Parse(p)
    BY <1>10, CloseStale DEF Parse, Pcs
  <1>11. CASE Return(p)
    BY <1>11, MoveStale DEF Return, Pcs
  <1> QED BY <1>1, <1>2, <1>3, <1>4, <1>5, <1>6, <1>7, <1>8, <1>9, <1>10, <1>11 DEF Step

\* Every step of the daemon.
LEMMA DaemonStale ==
    ASSUME StaleInv, NEW c \in Conns, Daemon(c)
    PROVE  StaleInv'
  <1>0. conn[c] \in Connections
    BY DEF StaleInv, Typed
  <1>1. CASE DaemonAnswers(c)
    <2> DEFINE req == Head(conn[c].reqs)
               Took(a, head) == [conn[c] EXCEPT !.reqs = Tail(@), !.due = a, !.inb = Append(@, head)]
    <2>1. req \in Requests /\ Tail(conn[c].reqs) \in Seq(Requests)
      <3>1. conn[c].reqs \in Seq(Requests) /\ conn[c].reqs # <<>>
        BY <1>0, <1>1 DEF Connections, DaemonAnswers
      <3> QED BY <3>1, HeadTailProperties
    <2>2. \A h \in Pieces : Append(conn[c].inb, h) \in Seq(Pieces)
      BY <1>0 DEF Connections
    <2>3. Head200 \in Pieces /\ HeadError \in Pieces
      BY DEF Head200, HeadError, Pieces
    <2>4. AnswersTo(req.asks) \subseteq Answers
      BY <2>1 DEF Requests, Methods, AnswersTo, Answers
    <2>5. \A a \in Answers \cup {None}, h \in {Head200, HeadError} :
            Took(a, h) \in Connections /\ Took(a, h).during = conn[c].during
      BY <1>0, <2>1, <2>2, <2>3 DEF Connections
    <2>6. \E a \in Answers \cup {None}, h \in {Head200, HeadError} :
            conn' = [conn EXCEPT ![c] = Took(a, h)]
      <3>1. CASE \E a \in AnswersTo(req.asks) :
                   conn' = [conn EXCEPT ![c].reqs = Tail(@), ![c].due = a,
                                        ![c].inb = Append(@, Head200)]
        <4>1. PICK a \in AnswersTo(req.asks) :
                conn' = [conn EXCEPT ![c].reqs = Tail(@), ![c].due = a,
                                     ![c].inb = Append(@, Head200)]
          BY <3>1
        <4>2. conn' = [conn EXCEPT ![c] = Took(a, Head200)]
          BY <1>0, <4>1 DEF StaleInv, Typed, Connections
        <4> QED BY <2>4, <4>2
      <3>2. CASE conn' = [conn EXCEPT ![c].reqs = Tail(@), ![c].inb = Append(@, HeadError)]
        <4>1. conn' = [conn EXCEPT ![c] = Took(None, HeadError)]
          BY <1>0, <1>1, <3>2 DEF StaleInv, Typed, Connections, DaemonAnswers
        <4> QED BY <4>1
      <3> QED BY <1>1, <3>1, <3>2 DEF DaemonAnswers
    <2> HIDE DEF Took
    <2>7. PICK v \in Connections : conn' = [conn EXCEPT ![c] = v] /\ v.during = conn[c].during
      BY <2>5, <2>6
    <2>8. UNCHANGED <<sock, method, on, pc>>
      BY <1>1 DEF DaemonAnswers
    <2> QED BY <2>7, <2>8, ConnStale
  <1>2. CASE BodyArrives(c)
    <2> DEFINE v == [conn[c] EXCEPT !.due = None, !.inb = Append(@, Body(conn[c].due))]
    <2>1. Append(conn[c].inb, Body(conn[c].due)) \in Seq(Pieces)
      <3>1. Body(conn[c].due) \in Pieces
        BY <1>0, <1>2 DEF Connections, BodyArrives, Body, Pieces
      <3>2. conn[c].inb \in Seq(Pieces)
        BY <1>0 DEF Connections
      <3> QED BY <3>1, <3>2
    <2>2. v \in Connections /\ v.during = conn[c].during
      BY <1>0, <2>1 DEF Connections
    <2>3. conn' = [conn EXCEPT ![c] = v]
      BY <1>0, <1>2 DEF StaleInv, Typed, Connections, BodyArrives
    <2> HIDE DEF v
    <2> QED BY <1>2, <2>2, <2>3, ConnStale DEF BodyArrives
  <1>3. CASE DaemonCloses(c)
    <2> DEFINE v == [conn[c] EXCEPT !.eof = TRUE]
    <2>1. v \in Connections /\ v.during = conn[c].during
      BY <1>0 DEF Connections
    <2>2. conn' = [conn EXCEPT ![c] = v]
      BY <1>3 DEF DaemonCloses
    <2> HIDE DEF v
    <2> QED BY <1>3, <2>1, <2>2, ConnStale DEF DaemonCloses
  <1> QED BY <1>1, <1>2, <1>3 DEF Daemon

\* Every step keeps the invariant.
LEMMA NextStale == StaleInv /\ [Next]_vars => StaleInv'
  <1> SUFFICES ASSUME StaleInv, [Next]_vars PROVE StaleInv'
    OBVIOUS
  <1>1. CASE UNCHANGED <<sock, conn, pc, method, on>>
    BY <1>1 DEF StaleInv, Typed, OnlyReadersHold, Asking, SocketIsNew, NoStaleAnswer
  <1>2. CASE Next
    <2>1. CASE \E ok \in BOOLEAN : TryEndpoint(ok)
      BY <1>1, <2>1 DEF TryEndpoint
    <2>2. ASSUME NEW p \in Threads, Step(p) PROVE StaleInv'
      BY <2>2, ThreadStale
    <2>3. ASSUME NEW p \in Threads, NEW m \in Asks[p], Start(p, m) PROVE StaleInv'
      <3>1. m \in Methods
        BY QueryAssumption
      <3> QED BY <2>3, <3>1, StartStale
    <2>4. ASSUME NEW c \in Conns, Daemon(c) PROVE StaleInv'
      BY <2>4, DaemonStale
    <2> QED BY <1>2, <2>1, <2>2, <2>3, <2>4 DEF Next
  <1> QED BY <1>1, <1>2 DEF vars

\* Query of JSONRPC.cpp: for any set of threads on the shared socket and any
\* interleaving of their closes, connects and reads, an answer comes over a
\* connection that was opened after the question was begun.
THEOREM NeverStale == Spec => []NoStaleAnswer
  <1>1. StaleInv => NoStaleAnswer
    BY DEF StaleInv
  <1> QED BY <1>1, InitStale, NextStale, PTL DEF Spec

-----------------------------------------------------------------------------
(***************************************************************************)
(* AloneIsRight.  A query that no other ran beside has the socket for      *)
(* itself: it closes whatever an earlier one left, so the only request on  *)
(* its connection is its own, and what the connection and the buffer hold  *)
(* is always a part of the answer to it.                                   *)
(***************************************************************************)
\* A query during which no other ran.
Solo(p) == alone[p] /\ Active(p)
SoloIsOnly == \A p, o \in Threads : Solo(p) /\ Active(o) => o = p

\* What the connection k of query p may hold: the request, a head whose body is on
\* its way, an error, a whole answer.
Asked(k, p) == k.reqs = <<[by |-> p, asks |-> method[p]]>> /\ k.due = None /\ k.inb = <<>>
Judged(k, p) == k.reqs = <<>> /\ verdict[p] \in AnswersTo(method[p])
Headed(k, p) == Judged(k, p) /\ k.due = verdict[p] /\ k.inb = <<Head200>>
Refused(k) == k.reqs = <<>> /\ k.due = None /\ k.inb = <<HeadError>>
Whole(k, p) == Judged(k, p) /\ k.due = None /\ k.inb = <<Head200, Body(verdict[p])>>

\* ... and after the head was read: the body is on its way, has arrived or was
\* read with the head.
Coming(k, p) == Judged(k, p) /\ buf[p] = <<>> /\ k.due = verdict[p] /\ k.inb = <<>>
Arrived(k, p) == Judged(k, p) /\ buf[p] = <<>> /\ k.due = None /\ k.inb = <<Body(verdict[p])>>
Complete(k, p) == Judged(k, p) /\ buf[p] = <<Body(verdict[p])>> /\ k.due = None /\ k.inb = <<>>

Connected == {"write", "read", "reading", "more", "rest", "body", "parse"}
SoloSocket(p) ==
    /\ pc[p] \in {"connect", "done"} => sock = None
    /\ pc[p] \in Connected => sock \in Conns
    /\ pc[p] \in {"reading", "body"} => on[p] = sock
    /\ pc[p] \in Connected \cup {"connect", "done"} =>
           \A c \in Conns \ {sock} : conn[c].reqs = <<>>
SoloText(p) ==
    /\ pc[p] = "write" =>
          conn[sock].reqs = <<>> /\ conn[sock].due = None /\ conn[sock].inb = <<>>
    /\ pc[p] \in {"read", "reading"} =>
          \/ Asked(conn[sock], p) \/ Headed(conn[sock], p)
          \/ Refused(conn[sock]) \/ Whole(conn[sock], p)
    /\ pc[p] = "more" =>
          Coming(conn[sock], p) \/ Arrived(conn[sock], p) \/ Complete(conn[sock], p)
    /\ pc[p] \in {"rest", "body"} => Arrived(conn[sock], p)
    /\ pc[p] = "parse" => Judged(conn[sock], p) /\ buf[p] \in {<<>>, <<Body(verdict[p])>>}
    /\ pc[p] = "done" => verdict[p] \in AnswersTo(method[p]) /\ got[p] = verdict[p]

SoloInv ==
    /\ DOMAIN buf = Threads /\ DOMAIN got = Threads
    /\ DOMAIN verdict = Threads /\ DOMAIN alone = Threads
    /\ SoloIsOnly
    /\ \A p \in Threads : Solo(p) => SoloSocket(p) /\ SoloText(p)

\* Initially nobody asks.
LEMMA InitSolo == Init => SoloInv
  BY DEF Init, SoloInv, SoloIsOnly, Solo, Active

\* What the daemon does to one connection.
LEMMA DaemonEffect ==
    ASSUME StaleInv, NEW c \in Conns, Daemon(c)
    PROVE  /\ \A d \in Conns \ {c} : conn'[d] = conn[d]
           /\ \/ /\ conn[c].reqs # <<>> /\ conn[c].due = None
                 /\ conn'[c].reqs = Tail(conn[c].reqs)
                 /\ \/ \E a \in AnswersTo(Head(conn[c].reqs).asks) :
                          /\ conn'[c].due = a /\ conn'[c].inb = Append(conn[c].inb, Head200)
                          /\ verdict' = [verdict EXCEPT ![Head(conn[c].reqs).by] =
                                            IF Active(Head(conn[c].reqs).by) THEN a ELSE @]
                    \/ /\ conn'[c].due = None /\ conn'[c].inb = Append(conn[c].inb, HeadError)
                       /\ verdict' = verdict
              \/ /\ conn[c].due # None /\ verdict' = verdict
                 /\ conn'[c].reqs = conn[c].reqs /\ conn'[c].due = None
                 /\ conn'[c].inb = Append(conn[c].inb, Body(conn[c].due))
              \/ /\ conn'[c].reqs = conn[c].reqs /\ conn'[c].due = conn[c].due
                 /\ conn'[c].inb = conn[c].inb /\ verdict' = verdict
  <1>0. conn \in [Conns -> Connections] /\ conn[c] \in Connections
    BY DEF StaleInv, Typed
  <1>1. CASE DaemonAnswers(c)
    <2>1. CASE \E a \in AnswersTo(Head(conn[c].reqs).asks) :
                 /\ conn' = [conn EXCEPT ![c].reqs = Tail(@), ![c].due = a,
                                         ![c].inb = Append(@, Head200)]
                 /\ verdict' = [verdict EXCEPT ![Head(conn[c].reqs).by] =
                                   IF Active(Head(conn[c].reqs).by) THEN a ELSE @]
      <3>1. PICK a \in AnswersTo(Head(conn[c].reqs).asks) :
                 /\ conn' = [conn EXCEPT ![c].reqs = Tail(@), ![c].due = a,
                                         ![c].inb = Append(@, Head200)]
                 /\ verdict' = [verdict EXCEPT ![Head(conn[c].reqs).by] =
                                   IF Active(Head(conn[c].reqs).by) THEN a ELSE @]
        BY <2>1
      <3>2. /\ conn'[c].reqs = Tail(conn[c].reqs) /\ conn'[c].due = a
            /\ conn'[c].inb = Append(conn[c].inb, Head200)
            /\ \A d \in Conns \ {c} : conn'[d] = conn[d]
        BY <1>0, <3>1 DEF Connections
      <3> QED BY <1>1, <3>1, <3>2 DEF DaemonAnswers
    <2>2. CASE /\ conn' = [conn EXCEPT ![c].reqs = Tail(@), ![c].inb = Append(@, HeadError)]
               /\ verdict' = verdict
      <3>1. /\ conn'[c].reqs = Tail(conn[c].reqs) /\ conn'[c].due = conn[c].due
            /\ conn'[c].inb = Append(conn[c].inb, HeadError)
            /\ \A d \in Conns \ {c} : conn'[d] = conn[d]
        BY <1>0, <2>2 DEF Connections
      <3> QED BY <1>1, <2>2, <3>1 DEF DaemonAnswers
    <2> QED BY <1>1, <2>1, <2>2 DEF DaemonAnswers
  <1>2. CASE BodyArrives(c)
    BY <1>0, <1>2 DEF BodyArrives, Connections
  <1>3. CASE DaemonCloses(c)
    BY <1>0, <1>3 DEF DaemonCloses, Connections
  <1> QED BY <1>1, <1>2, <1>3 DEF Daemon

\* A body that arrives behind a head.
LEMMA TwoParts == ASSUME NEW x, NEW y PROVE Append(<<x>>, y) = <<x, y>>
  <1>1. Append(<<x>>, y) \in Seq({x, y}) /\ <<x, y>> \in Seq({x, y})
    OBVIOUS
  <1>2. /\ Len(Append(<<x>>, y)) = 2 /\ Len(<<x, y>>) = 2
        /\ Append(<<x>>, y)[1] = x /\ Append(<<x>>, y)[2] = y
    OBVIOUS
  <1>3. \A i \in 1..2 : Append(<<x>>, y)[i] = <<x, y>>[i]
    BY <1>2
  <1> QED BY <1>1, <1>2, <1>3, SeqEqual

\* Every step of the daemon while a query is alone.
LEMMA DaemonSolo ==
    ASSUME StaleInv, SoloInv, NEW p \in Threads, Solo(p), NEW c \in Conns, Daemon(c)
    PROVE  SoloSocket(p)' /\ SoloText(p)'
  <1>0. SoloSocket(p) /\ SoloText(p)
    BY DEF SoloInv
  <1>1. UNCHANGED <<sock, pc, method, on, buf, got>> /\ Active(p)
    BY DEF Daemon, DaemonAnswers, BodyArrives, DaemonCloses, Solo
  <1>2. p \in DOMAIN verdict /\ pc[p] \in Pcs
    BY DEF SoloInv, StaleInv, Typed
  <1>3. CASE pc[p] = "close"
    BY <1>1, <1>3 DEF SoloSocket, SoloText, Connected
  <1>4. CASE c # sock /\ pc[p] # "close"
    <2>1. pc[p] \in Connected \cup {"connect", "done"} /\ conn[c].reqs = <<>>
      BY <1>0, <1>1, <1>2, <1>4 DEF Active, Pcs, Connected, SoloSocket
    <2>2. /\ verdict' = verdict /\ conn'[c].reqs = <<>>
          /\ \A d \in Conns \ {c} : conn'[d] = conn[d]
      BY <2>1, DaemonEffect
    <2>3. SoloSocket(p)'
      BY <1>0, <1>1, <2>2 DEF SoloSocket
    <2>4. sock \in Conns => conn'[sock] = conn[sock]
      BY <1>4, <2>2
    <2>5. SoloText(p)'
      BY <1>0, <1>1, <2>2, <2>4
      DEF SoloSocket, SoloText, Connected, Asked, Judged, Headed, Refused, Whole, Coming, Arrived, Complete
    <2> QED BY <2>3, <2>5
  <1>5. CASE c = sock /\ pc[p] # "close"
    <2>1. pc[p] \in Connected /\ \A d \in Conns \ {c} : conn'[d] = conn[d]
      BY <1>0, <1>1, <1>2, <1>5, DaemonEffect, NoneAssumption DEF Active, Pcs, Connected, SoloSocket
    <2>2. SoloSocket(p)'
      BY <1>0, <1>1, <1>5, <2>1 DEF SoloSocket
    <2>3. CASE pc[p] \in {"read", "reading"} /\ Asked(conn[sock], p)
      <3>1. /\ Head(conn[c].reqs) = [by |-> p, asks |-> method[p]] /\ Tail(conn[c].reqs) = <<>>
            /\ conn[c].reqs # <<>> /\ conn[c].due = None /\ conn[c].inb = <<>>
        BY <1>5, <2>3 DEF Asked
      <3>2. Append(conn[c].inb, Head200) = <<Head200>> /\ Append(conn[c].inb, HeadError) = <<HeadError>>
        BY <3>1
      <3>3. ASSUME NEW a \in AnswersTo(method[p]),
                   conn'[c].reqs = <<>>, conn'[c].due = a, conn'[c].inb = <<Head200>>,
                   verdict' = [verdict EXCEPT ![p] = IF Active(p) THEN a ELSE @]
            PROVE  Headed(conn[sock], p)'
        BY <1>1, <1>2, <1>5, <3>3 DEF Headed, Judged
      <3>4. ASSUME conn'[c].reqs = <<>>, conn'[c].due = None, conn'[c].inb = <<HeadError>>
            PROVE  Refused(conn[sock])'
        BY <1>1, <1>5, <3>4 DEF Refused
      <3>5. ASSUME conn'[c].reqs = conn[c].reqs, conn'[c].due = conn[c].due, conn'[c].inb = conn[c].inb
            PROVE  Asked(conn[sock], p)'
        BY <1>1, <1>5, <2>3, <3>5 DEF Asked
      <3>6. Headed(conn[sock], p)' \/ Refused(conn[sock])' \/ Asked(conn[sock], p)'
        <4>1. Head(conn[c].reqs).by = p /\ Head(conn[c].reqs).asks = method[p]
          BY <3>1
        <4> QED BY <3>1, <3>2, <3>3, <3>4, <3>5, <4>1, DaemonEffect, Zenon
      <3> QED BY <1>1, <2>2, <2>3, <3>6 DEF SoloText
    <2>4. CASE pc[p] \in {"read", "reading"} /\ Headed(conn[sock], p)
      <3>1. conn[c].reqs = <<>> /\ conn[c].due = verdict[p] /\ conn[c].inb = <<Head200>>
        BY <1>5, <2>4 DEF Headed, Judged
      <3>2. Append(conn[c].inb, Body(conn[c].due)) = <<Head200, Body(verdict[p])>>
        BY <3>1, TwoParts
      <3>3. verdict' = verdict
        BY <3>1, DaemonEffect
      <3>4. ASSUME conn'[c].reqs = <<>>, conn'[c].due = None,
                   conn'[c].inb = <<Head200, Body(verdict[p])>>
            PROVE  Whole(conn[sock], p)'
        BY <1>1, <1>5, <2>4, <3>3, <3>4 DEF Headed, Judged, Whole
      <3>5. ASSUME conn'[c].reqs = <<>>, conn'[c].due = conn[c].due, conn'[c].inb = conn[c].inb
            PROVE  Headed(conn[sock], p)'
        BY <1>1, <1>5, <2>4, <3>1, <3>3, <3>5 DEF Headed, Judged
      <3>6. Headed(conn[sock], p)' \/ Whole(conn[sock], p)'
        BY <3>1, <3>2, <3>4, <3>5, DaemonEffect
      <3> QED BY <1>1, <2>2, <2>4, <3>6 DEF SoloText
    <2>5. CASE conn[c].reqs = <<>> /\ conn[c].due = None
      <3>1. /\ verdict' = verdict /\ conn'[c].reqs = conn[c].reqs /\ conn'[c].due = conn[c].due
            /\ conn'[c].inb = conn[c].inb
        BY <2>5, DaemonEffect
      <3>2. SoloText(p)'
        BY <1>0, <1>1, <1>5, <3>1
        DEF SoloText, Asked, Judged, Headed, Refused, Whole, Coming, Arrived, Complete
      <3> QED BY <2>2, <3>2
    <2>6. CASE pc[p] = "more" /\ Coming(conn[sock], p)
      <3>1. conn[c].reqs = <<>> /\ conn[c].due = verdict[p] /\ conn[c].inb = <<>>
        BY <1>5, <2>6 DEF Coming, Judged
      <3>2. Append(conn[c].inb, Body(conn[c].due)) = <<Body(verdict[p])>> /\ verdict' = verdict
        BY <3>1, DaemonEffect
      <3>3. Coming(conn[sock], p)' \/ Arrived(conn[sock], p)'
        BY <1>1, <1>5, <2>6, <3>1, <3>2, DaemonEffect DEF Coming, Arrived, Judged
      <3> QED BY <1>1, <2>2, <2>6, <3>3 DEF SoloText
    <2>7. CASE pc[p] = "parse"
      <3>1. conn[c].reqs = <<>>
        BY <1>0, <1>5, <2>7 DEF SoloText, Judged
      <3>2. verdict' = verdict /\ conn'[c].reqs = <<>>
        BY <3>1, DaemonEffect
      <3> QED BY <1>0, <1>1, <1>5, <2>2, <2>7, <3>2 DEF SoloText, Judged
    <2> QED BY <1>0, <1>5, <2>1, <2>3, <2>4, <2>5, <2>6, <2>7
            DEF SoloText, Refused, Whole, Arrived, Complete, Judged, Connected
  <1> QED BY <1>3, <1>4, <1>5

\* A query that is alone: nobody reads but it.
LEMMA OthersRest ==
    ASSUME StaleInv, SoloInv, NEW p \in Threads, Solo(p)
    PROVE  /\ \A o \in Threads \ {p} : pc[o] = "idle" /\ on[o] = None
           /\ pc[p] \notin {"reading", "body"} => \A c \in Conns : c \notin Used(None, on)
           /\ \A o \in [Threads -> Conns \cup {None}] :
                  o = [on EXCEPT ![p] = None] => \A c \in Conns \ {sock} : c \notin Used(sock, o)
  <1>1. \A o \in Threads \ {p} : pc[o] = "idle" /\ on[o] = None
    BY DEF StaleInv, OnlyReadersHold, SoloInv, SoloIsOnly, Active
  <1>2. pc[p] \notin {"reading", "body"} => on[p] = None
    BY DEF StaleInv, OnlyReadersHold
  <1>3. ASSUME NEW o, NEW s, \A r \in Threads : o[r] = None
        PROVE  \A c \in Conns \ {s} : c \notin Used(s, o)
    BY <1>3, NoneAssumption DEF Used
  <1>4. ASSUME NEW o, o = [on EXCEPT ![p] = None] PROVE \A r \in Threads : o[r] = None
    BY <1>1, <1>4 DEF StaleInv, Typed
  <1>5. pc[p] \notin {"reading", "body"} => \A c \in Conns : c \notin Used(None, on)
    BY <1>1, <1>2, <1>3, NoneAssumption
  <1> QED BY <1>1, <1>3, <1>4, <1>5

\* What it takes from its connection.
LEMMA TakeSolo ==
    ASSUME StaleInv, SoloInv, NEW p \in Threads, Solo(p), pc[p] \in {"reading", "body"}, Take(p)
    PROVE  /\ sock \in Conns /\ on[p] = sock
           /\ conn'[sock].reqs = conn[sock].reqs /\ conn'[sock].due = conn[sock].due
           /\ conn'[sock].inb = <<>>
           /\ \A c \in Conns \ {sock} : conn'[c].reqs = <<>>
  <1>1. sock \in Conns /\ on[p] = sock
    BY DEF SoloInv, SoloSocket, Connected
  <1> DEFINE rest == Emptied(p)
  <1>2. /\ rest[sock].reqs = conn[sock].reqs /\ rest[sock].due = conn[sock].due
        /\ rest[sock].inb = <<>>
    BY <1>1 DEF StaleInv, Typed, Connections, Emptied
  <1>3. conn' = [c \in Conns |-> IF c \in Used(sock, on') THEN rest[c] ELSE Fresh]
    BY DEF Take, Swept
  <1> HIDE DEF rest
  <1>4. on' = [on EXCEPT ![p] = None] /\ on' \in [Threads -> Conns \cup {None}]
    BY DEF Take, StaleInv, Typed
  <1>5. \A c \in Conns \ {sock} : c \notin Used(sock, on')
    BY <1>4, OthersRest
  <1>6. sock \in Used(sock, on')
    BY DEF Used
  <1> QED BY <1>1, <1>2, <1>3, <1>5, <1>6 DEF Fresh

\* Every step of a query that is alone and goes on.
LEMMA ThreadSolo ==
    ASSUME StaleInv, SoloInv, NEW p \in Threads, Solo(p), Step(p), Active(p)'
    PROVE  SoloSocket(p)' /\ SoloText(p)'
  <1>0. SoloSocket(p) /\ SoloText(p)
    BY DEF SoloInv
  <1>1. /\ p \in DOMAIN verdict /\ p \in DOMAIN buf /\ p \in DOMAIN got
        /\ pc \in [Threads -> Pcs] /\ on \in [Threads -> Conns \cup {None}]
        /\ conn \in [Conns -> Connections]
    BY DEF SoloInv, StaleInv, Typed
  <1>2. CASE CloseSocket(p)
    <2>1. sock' = None /\ conn' = Swept(None, on, conn) /\ pc'[p] = "connect"
      BY <1>1, <1>2 DEF CloseSocket, AfterClose
    <2>2. \A c \in Conns : conn'[c].reqs = <<>>
      BY <1>2, <2>1, OthersRest DEF CloseSocket, Swept, Fresh
    <2> QED BY <2>1, <2>2 DEF SoloSocket, SoloText, Connected
  <1>3. CASE ConnectSocket(p)
    <2>1. sock' \in Conns /\ pc'[p] = "write" /\ sock = None
      BY <1>1, <1>3 DEF ConnectSocket
    <2>2. conn'[sock'] = [Fresh EXCEPT !.during = {r \in Threads : Active(r)}]
      BY <1>1, <1>3, <2>1 DEF ConnectSocket
    <2>3. conn'[sock'].reqs = <<>> /\ conn'[sock'].due = None /\ conn'[sock'].inb = <<>>
      BY <2>2 DEF Fresh
    <2>4. \A c \in Conns \ {sock'} : conn'[c].reqs = <<>>
      <3>1. \A c \in Conns \ {sock'} : conn'[c] = conn[c]
        BY <1>1, <1>3 DEF ConnectSocket
      <3>2. \A c \in Conns : conn[c].reqs = <<>>
        BY <1>0, <1>3, <2>1, NoneAssumption DEF ConnectSocket, SoloSocket
      <3> QED BY <3>1, <3>2
    <2> QED BY <2>1, <2>3, <2>4 DEF SoloSocket, SoloText, Connected
  <1>4. CASE \E s, k : Raise(p, s, k)
    BY <1>1, <1>4 DEF Raise, Active
  <1>5. CASE ConnectFails(p) \/ WriteFails(p) \/ ReadClosed(p) \/ ReadEnds(p)
             \/ ReadRefused(p) \/ AvailableFails(p) \/ ParseFails(p)
    BY <1>4, <1>5 DEF ConnectFails, WriteFails, ReadClosed, ReadEnds, ReadRefused, AvailableFails,
                      ParseFails, Throw
  <1>6. CASE Write(p)
    <2>1. sock \in Conns /\ sock' = sock /\ pc[p] = "write" /\ pc'[p] = "read" /\ method' = method
      BY <1>0, <1>1, <1>6 DEF Write, SoloSocket, Connected
    <2>2. /\ conn[sock].reqs = <<>> /\ conn[sock].due = None /\ conn[sock].inb = <<>>
      BY <1>0, <2>1 DEF SoloText
    <2>3. /\ conn'[sock].reqs = Append(conn[sock].reqs, [by |-> p, asks |-> method[p]])
          /\ conn'[sock].due = None /\ conn'[sock].inb = <<>>
          /\ \A c \in Conns \ {sock} : conn'[c] = conn[c]
      BY <1>1, <1>6, <2>1, <2>2 DEF Write, Connections
    <2>4. conn'[sock].reqs = <<[by |-> p, asks |-> method[p]]>>
      BY <2>2, <2>3
    <2>5. Asked(conn[sock], p)'
      BY <2>1, <2>3, <2>4 DEF Asked
    <2>6. SoloSocket(p)'
      BY <1>0, <2>1, <2>3 DEF SoloSocket, Connected
    <2> QED BY <2>1, <2>5, <2>6 DEF SoloText
  <1>7. CASE BeginRead(p, "read", "reading")
    <2>1. /\ UNCHANGED <<sock, conn, method, buf, got, verdict>>
          /\ pc[p] = "read" /\ pc'[p] = "reading" /\ on'[p] = sock
      BY <1>1, <1>7 DEF BeginRead
    <2> QED BY <1>0, <2>1
            DEF SoloSocket, SoloText, Connected, Asked, Judged, Headed, Refused, Whole
  <1>8. CASE ReadMore(p)
    <2>1. /\ UNCHANGED <<sock, conn, method, buf, got, verdict, on>>
          /\ pc[p] = "more" /\ pc'[p] = "rest" /\ conn[sock].inb # <<>>
      BY <1>1, <1>8 DEF ReadMore
    <2> QED BY <1>0, <2>1 DEF SoloSocket, SoloText, Connected, Judged, Coming, Arrived, Complete
  <1>14. CASE BeginRead(p, "rest", "body")
    <2>1. /\ UNCHANGED <<sock, conn, method, buf, got, verdict>>
          /\ pc[p] = "rest" /\ pc'[p] = "body" /\ on'[p] = sock
      BY <1>1, <1>14 DEF BeginRead
    <2> QED BY <1>0, <2>1 DEF SoloSocket, SoloText, Connected, Judged, Arrived
  <1>9. CASE ReadHead(p)
    <2>1. /\ pc[p] = "reading" /\ pc'[p] = "more" /\ UNCHANGED <<sock, method, verdict>>
          /\ conn[on[p]].inb # <<>> /\ Head(conn[on[p]].inb) = Head200
          /\ buf'[p] = Tail(conn[on[p]].inb) /\ Take(p)
      BY <1>1, <1>9 DEF ReadHead
    <2>2. /\ sock \in Conns /\ on[p] = sock
          /\ conn'[sock].reqs = conn[sock].reqs /\ conn'[sock].due = conn[sock].due
          /\ conn'[sock].inb = <<>>
          /\ \A c \in Conns \ {sock} : conn'[c].reqs = <<>>
      BY <2>1, TakeSolo
    <2>3. SoloSocket(p)'
      BY <2>1, <2>2 DEF SoloSocket, Connected
    <2>4. CASE Headed(conn[sock], p)
      <3>1. Coming(conn[sock], p)'
        BY <2>1, <2>2, <2>4 DEF Headed, Coming, Judged
      <3> QED BY <2>1, <2>3, <3>1 DEF SoloText
    <2>5. CASE Whole(conn[sock], p)
      <3>1. Complete(conn[sock], p)'
        BY <2>1, <2>2, <2>5 DEF Whole, Complete, Judged
      <3> QED BY <2>1, <2>3, <3>1 DEF SoloText
    <2>6. Headed(conn[sock], p) \/ Whole(conn[sock], p)
      BY <1>0, <2>1, <2>2 DEF SoloText, Asked, Refused, HeadError, Head200
    <2> QED BY <2>4, <2>5, <2>6
  <1>10. CASE NoMore(p)
    <2>1. /\ UNCHANGED <<sock, conn, method, buf, got, verdict, on>>
          /\ pc[p] = "more" /\ pc'[p] = "parse"
      BY <1>1, <1>10 DEF NoMore
    <2>2. \/ conn[sock].inb = <<>> \/ buf[p] # <<>>
      BY <1>10 DEF NoMore
    <2> QED BY <1>0, <2>1, <2>2 DEF SoloSocket, SoloText, Connected, Judged, Coming, Arrived, Complete
  <1>11. CASE ReadBody(p)
    <2>1. /\ pc[p] = "body" /\ pc'[p] = "parse" /\ UNCHANGED <<sock, method, verdict>>
          /\ buf'[p] = conn[on[p]].inb /\ Take(p)
      BY <1>1, <1>11 DEF ReadBody
    <2>2. /\ sock \in Conns /\ on[p] = sock /\ conn'[sock].reqs = conn[sock].reqs
          /\ \A c \in Conns \ {sock} : conn'[c].reqs = <<>>
      BY <2>1, TakeSolo
    <2>3. SoloSocket(p)'
      BY <2>1, <2>2 DEF SoloSocket, Connected
    <2>4. Arrived(conn[sock], p)
      BY <1>0, <2>1 DEF SoloText
    <2> QED BY <2>1, <2>2, <2>3, <2>4 DEF SoloText, Arrived, Judged
  <1>12. CASE Parse(p)
    <2>1. /\ pc[p] = "parse" /\ pc'[p] = "done" /\ UNCHANGED <<method, verdict>> /\ sock' = None
          /\ IsAnswer(buf[p]) /\ got'[p] = Head(buf[p]).val /\ conn' = Swept(None, on, conn)
      BY <1>1, <1>12 DEF Parse
    <2>2. verdict[p] \in AnswersTo(method[p]) /\ buf[p] \in {<<>>, <<Body(verdict[p])>>}
      BY <1>0, <2>1 DEF SoloText, Judged
    <2>3. buf[p] = <<Body(verdict[p])>>
      BY <2>1, <2>2 DEF IsAnswer
    <2>4. got'[p] = verdict[p]
      BY <2>1, <2>3 DEF Body
    <2>5. \A c \in Conns : conn'[c].reqs = <<>>
      BY <2>1, OthersRest DEF Swept, Fresh
    <2> QED BY <2>1, <2>2, <2>4, <2>5 DEF SoloSocket, SoloText, Connected
  <1>13. CASE Return(p)
    BY <1>1, <1>13 DEF Return, Active
  <1> QED BY <1>2, <1>3, <1>5, <1>6, <1>7, <1>8, <1>9, <1>10, <1>11, <1>12, <1>13, <1>14 DEF Step

\* Every step keeps the invariant: a step of another thread, or a query that
\* begins, leaves no query alone that it touches.
LEMMA NextSolo == StaleInv /\ SoloInv /\ [Next]_vars => SoloInv'
  <1> SUFFICES ASSUME StaleInv, SoloInv, [Next]_vars PROVE SoloInv'
    OBVIOUS
  <1>1. CASE UNCHANGED <<sock, conn, pc, method, on, buf, got, alone, verdict>>
    BY <1>1 DEF SoloInv, SoloIsOnly, Solo, Active, SoloSocket, SoloText, Asked, Judged, Headed,
                Refused, Whole, Coming, Arrived, Complete
  <1>2. ASSUME NEW p \in Threads, Step(p) PROVE SoloInv'
    <2>1. Active(p) /\ pc \in [Threads -> Pcs]
      BY <1>2 DEF Step, Active, CloseSocket, ConnectSocket, ConnectFails, Write, WriteFails, BeginRead,
                  ReadClosed, ReadEnds, ReadHead, ReadRefused, NoMore, ReadMore, AvailableFails,
                  ReadBody, Parse, ParseFails, Return, StaleInv, Typed
    <2>2. /\ alone' = alone \/ (alone' = [alone EXCEPT ![p] = TRUE] /\ pc'[p] = "idle")
          /\ \E to \in Pcs : pc' = [pc EXCEPT ![p] = to]
      BY <1>2, <2>1
      DEF Step, CloseSocket, ConnectSocket, ConnectFails, Write, WriteFails, BeginRead, Throw, Raise, Pcs,
          ReadClosed, ReadEnds, ReadHead, ReadRefused, NoMore, ReadMore, AvailableFails,
          ReadBody, Parse, ParseFails, Return
    <2>3. ASSUME NEW o \in Threads, Solo(o)' PROVE o = p /\ Solo(p)
      BY <2>1, <2>2, <2>3 DEF Solo, Active, SoloInv, SoloIsOnly
    <2>4. SoloIsOnly'
      BY <2>1, <2>2, <2>3 DEF Solo, Active, SoloInv, SoloIsOnly
    <2>5. /\ DOMAIN buf' = Threads /\ DOMAIN got' = Threads
          /\ DOMAIN verdict' = Threads /\ DOMAIN alone' = Threads
      BY <1>2
      DEF SoloInv, Step, CloseSocket, ConnectSocket, ConnectFails, Write, WriteFails, BeginRead, Throw, Raise,
          ReadClosed, ReadEnds, ReadHead, ReadRefused, NoMore, ReadMore, AvailableFails,
          ReadBody, Parse, ParseFails, Return
    <2>6. Solo(p)' => SoloSocket(p)' /\ SoloText(p)'
      BY <1>2, <2>3, ThreadSolo DEF Solo
    <2> QED BY <2>3, <2>4, <2>5, <2>6 DEF SoloInv
  <1>3. ASSUME NEW p \in Threads, NEW m \in Asks[p], Start(p, m) PROVE SoloInv'
    <2>1. /\ pc' = [pc EXCEPT ![p] = "close"] /\ pc \in [Threads -> Pcs] /\ pc[p] = "idle"
          /\ alone' = [r \in Threads |-> IF r = p THEN ~\E o \in Threads : Active(o)
                                                  ELSE alone[r] /\ ~Active(r)]
          /\ UNCHANGED <<buf, got, verdict>>
      BY <1>3 DEF Start, StaleInv, Typed
    <2>2. ASSUME NEW o \in Threads, Solo(o)'
          PROVE  o = p /\ \A r \in Threads : ~Active(r)
      BY <2>1, <2>2 DEF Solo, Active
    <2>3. SoloIsOnly'
      BY <2>1, <2>2 DEF SoloIsOnly, Active
    <2>4. SoloSocket(p)' /\ SoloText(p)'
      BY <2>1 DEF SoloSocket, SoloText, Connected
    <2> QED BY <2>1, <2>2, <2>3, <2>4 DEF SoloInv
  <1>4. ASSUME NEW c \in Conns, Daemon(c) PROVE SoloInv'
    <2>1. UNCHANGED <<pc, buf, got, alone>> /\ DOMAIN verdict' = Threads
      BY <1>4 DEF SoloInv, Daemon, DaemonAnswers, BodyArrives, DaemonCloses
    <2>2. \A p \in Threads : Solo(p)' <=> Solo(p)
      BY <2>1 DEF Solo, Active
    <2>3. SoloIsOnly'
      BY <2>1, <2>2 DEF SoloInv, SoloIsOnly, Active
    <2> QED BY <1>4, <2>1, <2>2, <2>3, DaemonSolo DEF SoloInv
  <1>5. CASE \E ok \in BOOLEAN : TryEndpoint(ok)
    BY <1>1, <1>5 DEF TryEndpoint
  <1> QED BY <1>1, <1>2, <1>3, <1>4, <1>5 DEF Next, vars

\* Query of JSONRPC.cpp: whatever earlier queries of any number of threads left
\* behind, and whatever fails or arrives late, a query during which no other ran
\* returns the daemon's answer to it, and its caller takes it for a success unless
\* the daemon refused the block.
THEOREM SoloAnswered == Spec => []AloneIsRight
  <1>1. StaleInv /\ SoloInv => AloneIsRight
    <2> SUFFICES ASSUME SoloInv, NEW p \in Threads, pc[p] = "done", alone[p], method[p] \in Methods
                 PROVE  /\ got[p] = verdict[p] /\ got[p] # None
                        /\ TakenAsSuccess(method[p], got[p]) <=> verdict[p] # Rejected
      BY DEF AloneIsRight, StaleInv, Asking
    <2>1. verdict[p] \in AnswersTo(method[p]) /\ got[p] = verdict[p]
      BY DEF SoloInv, Solo, Active, SoloText
    <2> QED BY <2>1, NoneAssumption
            DEF Methods, AnswersTo, TakenAsSuccess, Info, Template, Accepted, Rejected
  <1> QED BY <1>1, InitStale, NextStale, InitSolo, NextSolo, PTL DEF Spec

=============================================================================
