------------------------------- MODULE JSONRPC -------------------------------
(***************************************************************************)
(* JSONRPC: the connection to one daemon.  Every query opens the member    *)
(* _sock again, and the threads of NetworkMgr that query at the same time  *)
(* (a height check, a template update, block submissions) share that       *)
(* socket without a lock.  A read that has begun stays with the connection *)
(* it began on, even if the socket is closed or opened again meanwhile.    *)
(*                                                                         *)
(* An HTTP answer is its head (status and headers) and its body; the body  *)
(* may arrive later.  The daemon is external: it answers the requests of a *)
(* connection in order and closes connections that are idle.               *)
(***************************************************************************)
EXTENDS Naturals, Sequences

CONSTANTS
    Threads,    \* threads of the io_service
    Asks,       \* the queries each of them makes
    Endpoints,  \* addresses the host resolves to
    None        \* no connection, no answer

Methods == {"getinfo", "getblocktemplate", "submitblock"}
ASSUME QueryAssumption == Asks \in [Threads -> SUBSET Methods] /\ Endpoints \in Nat

\* Enough names for the socket's connection and one old one for each reader.
CONSTANT Conns

VARIABLES
    phase,      \* Connect: "trying", "ready" or "failed"
    ep,         \* Connect: the endpoint tried or chosen
    sock,       \* the connection _sock has, None when it is closed
    conn,       \* each connection: requests, body on the way, bytes arrived, end,
                \* and (history) the queries in progress when it was opened
    pc,         \* where each thread is in Query
    method,     \* what each thread asks for
    on,         \* the connection a thread reads
    buf,        \* what is left of the response
    got,        \* the answer Query returns
    alone,      \* history: no other query ran during this one
    verdict     \* history: the daemon's verdict on the thread's block

connect == <<phase, ep>>
vars == <<phase, ep, sock, conn, pc, method, on, buf, got, alone, verdict>>

Fresh == [reqs |-> <<>>, due |-> None, inb |-> <<>>, eof |-> FALSE, during |-> {}]

\* Answers: what the member result of the body holds.
Info == "info"
Template == "template"
Accepted == "null"
Rejected == "string"
ASSUME NoneAssumption == None \notin Conns /\ None \notin {Info, Template, Accepted, Rejected}
AnswersTo(m) ==
    CASE m = "getinfo" -> {Info}
      [] m = "getblocktemplate" -> {Template}
      [] m = "submitblock" -> {Accepted, Rejected}
Head200 == [part |-> "head", val |-> "200"]
HeadError == [part |-> "head", val |-> "500"]
Body(a) == [part |-> "body", val |-> a]

Init ==
    /\ phase = "trying" /\ ep = 1
    /\ sock = None /\ conn = [c \in Conns |-> Fresh]
    /\ pc = [p \in Threads |-> "idle"] /\ method = [p \in Threads |-> None]
    /\ on = [p \in Threads |-> None]
    /\ buf = [p \in Threads |-> <<>>] /\ got = [p \in Threads |-> None]
    /\ alone = [p \in Threads |-> TRUE] /\ verdict = [p \in Threads |-> None]

-----------------------------------------------------------------------------
(***************************************************************************)
(* Connect: the first endpoint that can be reached is kept.                *)
(***************************************************************************)
TryEndpoint(ok) ==
    /\ phase = "trying"
    /\ \/ ep > Endpoints /\ phase' = "failed" /\ UNCHANGED ep
       \/ ep <= Endpoints /\ ok /\ phase' = "ready" /\ UNCHANGED ep
       \/ ep <= Endpoints /\ ~ok /\ ep' = ep + 1 /\ UNCHANGED phase
    /\ UNCHANGED <<method, sock, conn, pc, on, buf, got, alone, verdict>>

-----------------------------------------------------------------------------
(***************************************************************************)
(* Query.                                                                  *)
(***************************************************************************)
Active(p) == pc[p] # "idle"

\* BlockCheck and UpdateBlockTemplate query under a mutex of their own.
Start(p, m) ==
    /\ phase = "ready" /\ pc[p] = "idle"
    /\ m # "submitblock" => \A o \in Threads : method[o] # m
    /\ pc' = [pc EXCEPT ![p] = "close"]
    /\ method' = [method EXCEPT ![p] = m]
    /\ alone' = [r \in Threads |->
                    IF r = p THEN ~\E o \in Threads : Active(o)
                    ELSE alone[r] /\ ~Active(r)]
    /\ conn' = [c \in Conns |-> [conn[c] EXCEPT !.during = @ \ {p}]]
    /\ UNCHANGED <<connect, sock, on, buf, got, verdict>>

\* A connection nobody has any more is gone; its name may be used again.  What
\* is left of the others is k.
Used(s, o) == {s} \cup {o[p] : p \in Threads}
Swept(s, o, k) == [c \in Conns |-> IF c \in Used(s, o) THEN k[c] ELSE Fresh]

\* A read takes everything that has arrived on its connection.
Emptied(p) == [conn EXCEPT ![on[p]].inb = <<>>]

\* The exception leaves Query: the socket is s, the connections are k.
Raise(p, s, k) ==
    /\ sock' = s
    /\ on' = [on EXCEPT ![p] = None]
    /\ conn' = Swept(s, on', k)
    /\ pc' = [pc EXCEPT ![p] = "idle"]
    /\ method' = [method EXCEPT ![p] = None]
    /\ buf' = [buf EXCEPT ![p] = <<>>]
    /\ verdict' = [verdict EXCEPT ![p] = None]
    /\ alone' = [alone EXCEPT ![p] = TRUE]
    /\ UNCHANGED <<connect, got>>
Throw(p, s) == Raise(p, s, conn)

KeepOpen(s) == s
AfterClose(s) == None

\* _sock.close()
CloseSocket(p) ==
    /\ pc[p] = "close"
    /\ sock' = AfterClose(sock)
    /\ conn' = Swept(sock', on, conn)
    /\ pc' = [pc EXCEPT ![p] = IF sock' = None THEN "connect" ELSE "write"]
    /\ UNCHANGED <<connect, method, on, buf, got, alone, verdict>>

\* _sock.connect(_ep, error)
ConnectSocket(p) ==
    /\ pc[p] = "connect" /\ sock = None
    /\ Conns \ Used(None, on) # {}
    /\ sock' = CHOOSE c \in Conns \ Used(None, on) : TRUE
    /\ conn' = [conn EXCEPT ![sock'] = [Fresh EXCEPT !.during = {r \in Threads : Active(r)}]]
    /\ pc' = [pc EXCEPT ![p] = "write"]
    /\ UNCHANGED <<connect, method, on, buf, got, alone, verdict>>

\* The daemon is not there, or another thread has opened the socket meanwhile.
ConnectFails(p) == pc[p] = "connect" /\ Throw(p, None)

Write(p) ==
    /\ pc[p] = "write" /\ sock # None /\ ~conn[sock].eof
    /\ conn' = [conn EXCEPT ![sock].reqs = Append(@, [by |-> p, asks |-> method[p]])]
    /\ pc' = [pc EXCEPT ![p] = "read"]
    /\ UNCHANGED <<connect, method, sock, on, buf, got, alone, verdict>>

WriteFails(p) == pc[p] = "write" /\ (sock # None => conn[sock].eof) /\ Throw(p, sock)

\* read_until, on the connection the socket has now.
BeginRead(p, from, to) ==
    /\ pc[p] = from /\ sock # None
    /\ on' = [on EXCEPT ![p] = sock]
    /\ pc' = [pc EXCEPT ![p] = to]
    /\ UNCHANGED <<connect, method, sock, conn, buf, got, alone, verdict>>

ReadClosed(p) == pc[p] \in {"read", "rest"} /\ sock = None /\ Throw(p, sock)
EndOfHeadIgnored(p) == pc[p] = "body" /\ conn[on[p]].inb = <<>> /\ conn[on[p]].eof /\ Throw(p, sock)
ReadEnds(p) ==
    /\ pc[p] \in {"reading", "body"}
    /\ conn[on[p]].inb = <<>> /\ conn[on[p]].eof
    /\ Throw(p, sock)

\* The read is over.
Take(p) ==
    /\ on' = [on EXCEPT ![p] = None]
    /\ conn' = Swept(sock, on', Emptied(p))

\* The status line and the headers: 200, and the rest stays in the buffer.
ReadHead(p) ==
    /\ pc[p] = "reading" /\ conn[on[p]].inb # <<>>
    /\ Head(conn[on[p]].inb) = Head200
    /\ buf' = [buf EXCEPT ![p] = Tail(conn[on[p]].inb)]
    /\ pc' = [pc EXCEPT ![p] = "more"]
    /\ Take(p)
    /\ UNCHANGED <<connect, method, sock, got, alone, verdict>>

\* A malformed head or another status: it has been read, and the socket is
\* closed.
ReadRefused(p) ==
    /\ pc[p] = "reading" /\ conn[on[p]].inb # <<>>
    /\ Head(conn[on[p]].inb) # Head200
    /\ Raise(p, None, Emptied(p))

\* _sock.available(): is there more to read, on the socket as it is now?  A
\* buffer that has a whole body needs no other.
NoMore(p) ==
    /\ pc[p] = "more" /\ sock # None
    /\ conn[sock].inb = <<>> \/ buf[p] # <<>>
    /\ pc' = [pc EXCEPT ![p] = "parse"]
    /\ UNCHANGED <<connect, method, sock, conn, on, buf, got, alone, verdict>>
ReadMore(p) ==
    /\ pc[p] = "more" /\ sock # None
    /\ conn[sock].inb # <<>> /\ buf[p] = <<>>
    /\ pc' = [pc EXCEPT ![p] = "rest"]
    /\ UNCHANGED <<connect, method, sock, conn, on, buf, got, alone, verdict>>
AvailableFails(p) == pc[p] = "more" /\ sock = None /\ Throw(p, sock)

\* The second read_until, by then perhaps on another connection.
ReadBody(p) ==
    /\ pc[p] = "body" /\ conn[on[p]].inb # <<>>
    /\ buf' = [buf EXCEPT ![p] = conn[on[p]].inb]
    /\ pc' = [pc EXCEPT ![p] = "parse"]
    /\ Take(p)
    /\ UNCHANGED <<connect, method, sock, got, alone, verdict>>

IsAnswer(text) == text # <<>> /\ Head(text).part = "body"

\* _sock.close(), and the text is an answer: Query returns its result.
Parse(p) ==
    /\ pc[p] = "parse" /\ IsAnswer(buf[p])
    /\ sock' = None
    /\ conn' = Swept(None, on, conn)
    /\ got' = [got EXCEPT ![p] = Head(buf[p]).val]
    /\ buf' = [buf EXCEPT ![p] = <<>>]
    /\ pc' = [pc EXCEPT ![p] = "done"]
    /\ UNCHANGED <<connect, method, on, alone, verdict>>

\* There is no text yet, or it is not JSON.
ParseFails(p) == pc[p] = "parse" /\ ~IsAnswer(buf[p]) /\ Throw(p, None)

-----------------------------------------------------------------------------
(***************************************************************************)
(* The callers in NetworkMgr.                                              *)
(***************************************************************************)
AnyResultAccepted(m, a) ==
    CASE m = "getinfo" -> a = Info
      [] m = "getblocktemplate" -> a = Template
      [] m = "submitblock" -> TRUE

\* BlockCheck wants blocks and UpdateBlockTemplate height, which GetInt finds in
\* their own answers only.  SubmitBlock wants the result to have no member
\* result: null has none, and neither has any object; a string throws.
TakenAsSuccess(m, a) ==
    CASE m = "getinfo" -> a = Info
      [] m = "getblocktemplate" -> a = Template
      [] m = "submitblock" -> a # Rejected

Return(p) ==
    /\ pc[p] = "done"
    /\ pc' = [pc EXCEPT ![p] = "idle"]
    /\ method' = [method EXCEPT ![p] = None]
    /\ got' = [got EXCEPT ![p] = None]
    /\ verdict' = [verdict EXCEPT ![p] = None]
    /\ alone' = [alone EXCEPT ![p] = TRUE]
    /\ UNCHANGED <<connect, sock, conn, on, buf>>

-----------------------------------------------------------------------------
(***************************************************************************)
(* The daemon.                                                             *)
(***************************************************************************)
\* It carries out the first request and sends the head of its answer, or an
\* error.
DaemonAnswers(c) ==
    /\ conn[c].reqs # <<>> /\ conn[c].due = None
    /\ LET p == Head(conn[c].reqs).by
           m == Head(conn[c].reqs).asks IN
       \/ \E a \in AnswersTo(m) :
             /\ conn' = [conn EXCEPT ![c].reqs = Tail(@), ![c].due = a,
                                     ![c].inb = Append(@, Head200)]
             /\ verdict' = [verdict EXCEPT ![p] = IF Active(p) THEN a ELSE @]
       \/ /\ conn' = [conn EXCEPT ![c].reqs = Tail(@), ![c].inb = Append(@, HeadError)]
          /\ UNCHANGED verdict
    /\ UNCHANGED <<connect, method, sock, pc, on, buf, got, alone>>

BodyArrives(c) ==
    /\ conn[c].due # None
    /\ conn' = [conn EXCEPT ![c].due = None, ![c].inb = Append(@, Body(conn[c].due))]
    /\ UNCHANGED <<connect, method, sock, pc, on, buf, got, alone, verdict>>

DaemonCloses(c) ==
    /\ c \in Used(sock, on)
    /\ conn[c].reqs = <<>> /\ conn[c].due = None /\ ~conn[c].eof
    /\ conn' = [conn EXCEPT ![c].eof = TRUE]
    /\ UNCHANGED <<connect, method, sock, pc, on, buf, got, alone, verdict>>

-----------------------------------------------------------------------------
Step(p) ==
    \/ CloseSocket(p) \/ ConnectSocket(p) \/ ConnectFails(p) \/ Write(p) \/ WriteFails(p)
    \/ BeginRead(p, "read", "reading") \/ BeginRead(p, "rest", "body") \/ ReadClosed(p)
    \/ ReadEnds(p) \/ ReadHead(p) \/ ReadRefused(p) \/ NoMore(p) \/ ReadMore(p)
    \/ AvailableFails(p) \/ ReadBody(p) \/ Parse(p) \/ ParseFails(p) \/ Return(p)
Daemon(c) == DaemonAnswers(c) \/ BodyArrives(c) \/ DaemonCloses(c)

Next ==
    \/ \E ok \in BOOLEAN : TryEndpoint(ok)
    \/ \E p \in Threads : Step(p) \/ \E m \in Asks[p] : Start(p, m)
    \/ \E c \in Conns : Daemon(c)

Spec == Init /\ [][Next]_vars

\* Threads go on; the daemon answers, and closes a connection that stays idle.
FairSpec ==
    /\ Spec
    /\ \A p \in Threads : WF_vars(Step(p))
    /\ \A c \in Conns : WF_vars(Daemon(c))

-----------------------------------------------------------------------------
(***************************************************************************)
(* Properties.                                                             *)
(***************************************************************************)
\* A query during which no other ran returns the daemon's answer to it, never
\* one that an earlier query left behind, whatever arrived late or failed; its
\* caller takes it for a success unless the daemon refused the block.
AloneIsRight ==
    \A p \in Threads : pc[p] = "done" /\ alone[p] =>
        /\ got[p] = verdict[p] /\ got[p] # None
        /\ TakenAsSuccess(method[p], got[p]) <=> verdict[p] # Rejected

\* However the threads close and open the shared socket, a query reads only
\* connections opened after it began: a height or a template it returns is never
\* older than the question.
NoStaleAnswer == \A p \in Threads : on[p] # None => p \in conn[on[p]].during

\* Every query ends: with an answer, or with an exception when another thread
\* has taken its connection away.
QueriesEnd == \A p \in Threads : []<>(pc[p] = "idle")

=============================================================================
