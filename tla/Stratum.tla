------------------------------- MODULE Stratum -------------------------------
(***************************************************************************)
(* The stratum server: Stratum::Server, its Stratum::Client objects and    *)
(* their jobs, run by the ServerThreads worker threads of one io_service.  *)
(*                                                                         *)
(* A thread runs one handler at a time.  Receive and send handlers of a    *)
(* client are wrapped in its strand; the handlers posted by                *)
(* Server::SendBlockTmpl are not, so they may run beside a receive handler *)
(* of the same client.  A handler is cut into steps wherever it takes or   *)
(* releases a lock, or touches memory that another thread may touch.       *)
(*                                                                         *)
(* NetworkMgr appears here only as the source of template notifications    *)
(* (module NetworkMgr has its detail) and the share limiter only as its    *)
(* four possible verdicts.  Templates are numbered in the order in which   *)
(* they were fetched; a share is the (nonce, extranonce2) pair of a job.   *)
(***************************************************************************)
EXTENDS Naturals, Sequences, FiniteSets

CONSTANTS
    Conns,          \* accepted connections, each with its Client object
    IPs, IpOf,      \* addresses, and the address of each connection
    Threads,        \* the ServerThreads worker threads
    Workers,        \* worker names that can be authorised
    Shares,         \* (nonce, extranonce2) pairs
    None,           \* no connection, no share, no extranonce yet
    ExtraMod,       \* 2^32, the width of _extranonce
    MaxSubs,        \* bound: subscriptions served
    MaxPosts,       \* bound: template notifications posted
    MaxRetargets    \* bound: jobs sent by the share limiter

ASSUME ConnAssumption == IpOf \in [Conns -> IPs] /\ None \notin Conns \cup Shares
ASSUME WidthAssumption == ExtraMod \in Nat \ {0} /\ MaxSubs \in Nat /\ MaxSubs <= ExtraMod
ASSUME BoundAssumption == MaxPosts \in Nat /\ MaxRetargets \in Nat

VARIABLES
    currentWork,    \* Server::_currentWork
    extranonce,     \* Server::_extranonce
    issued,         \* history: how many extranonces were handed out
    clients,        \* Server::_clients
    bans,           \* Server::_bans: the addresses whose ban has not expired
    sock,           \* Client::_socket
    reading,        \* the outstanding async_read of each client
    en,             \* Client::_extranonce, None until mining.subscribe
    workers,        \* Client::_workers
    jobs,           \* Client::_jobs: the jobs that have not been deleted
    nextJob,        \* Client::_jobid
    shares,         \* Job::shares of the jobs that have not been deleted
    credits,        \* history: the good shares written or queued for writing
    ioq,            \* handlers posted to the io_service, first in first out
    tmpl,           \* NetworkMgr::_curBlockTmpl
    posts,          \* history: template notifications begun
    retargets,      \* history: jobs sent by the share limiter
    resetWork,      \* history: the work of the last notification with newBlock
    run             \* what each worker thread is doing

serverVars == <<currentWork, extranonce, issued, clients, bans, resetWork>>
connVars   == <<sock, reading, en, workers>>
jobVars    == <<jobs, nextJob, shares>>
netVars    == <<ioq, tmpl, posts>>
vars == <<serverVars, connVars, jobVars, netVars, credits, retargets, run>>

-----------------------------------------------------------------------------
(***************************************************************************)
(* Threads.  conn is the client a handler serves, job, share and work are  *)
(* the submission it is checking, newJob and newWork the job SendJob is    *)
(* building or the template being notified, flag is clean / resetWork /    *)
(* newBlock, and ret says where the current call returns.                  *)
(***************************************************************************)
SubmitPcs == {"limit", "dedupe", "eval", "found", "credit"}
SendPcs   == {"clean", "getwork", "takeid", "putjob"}
NetPcs    == {"check", "bind", "post", "setwork", "fanout"}
Pcs  == SubmitPcs \cup SendPcs \cup NetPcs \cup {"idle", "insert", "recv"}
Rets == {"idle", "recv", "dedupe", "credit"}

Frames == [pc: Pcs, conn: Conns \cup {None}, job: Nat, share: Shares \cup {None},
           work: Nat, newJob: Nat, newWork: Nat, flag: BOOLEAN, ret: Rets]

Frame(pc, c, flag, ret) ==
    [pc |-> pc, conn |-> c, job |-> 0, share |-> None, work |-> 0,
     newJob |-> 0, newWork |-> 0, flag |-> flag, ret |-> ret]

IdleFrame == Frame("idle", None, FALSE, "idle")
RecvFrame(c) == Frame("recv", c, FALSE, "recv")

Idle(t) == run[t].pc = "idle"
Goto(t, f) == run' = [run EXCEPT ![t] = f]
At(t, pc) == run[t].pc = pc
Step(t, pc) == Goto(t, [run[t] EXCEPT !.pc = pc])

\* The strand of a client is held by its receive handler until it returns.
HoldsStrand(f, c) == f.conn = c /\ f.ret # "idle"
StrandFree(c) == \A u \in Threads : ~HoldsStrand(run[u], c)

\* Where SendJob returns to: the posted handler ends, or the receive handler
\* that called it goes on.
Resume(f) ==
    IF f.ret = "idle" THEN IdleFrame
    ELSE IF f.ret = "dedupe"
         THEN [f EXCEPT !.pc = "dedupe", !.ret = "recv", !.newJob = 0, !.newWork = 0]
         ELSE RecvFrame(f.conn)

Notification(w, newBlock) == [kind |-> "notify", conns |-> {}, work |-> w, flag |-> newBlock]
SendJobs(cs, clean) == [kind |-> "jobs", conns |-> cs, work |-> 0, flag |-> clean]
Entries == [kind: {"notify", "jobs"}, conns: SUBSET Conns, work: Nat, flag: BOOLEAN]

\* A bag of paid shares: how often each was paid.
Credits == [conn: Conns, job: Nat, share: Shares, work: Nat, en: Nat \cup {None}]
Copies(k) == IF k \in DOMAIN credits THEN credits[k] ELSE 0
Pay(k) == credits' = [x \in DOMAIN credits \cup {k} |-> Copies(x) + IF x = k THEN 1 ELSE 0]

JobIds(c) == {j.id : j \in jobs[c]}

-----------------------------------------------------------------------------
Init ==
    /\ currentWork = 1 /\ tmpl = 1 /\ resetWork = 1
    /\ extranonce = 0 /\ issued = 0
    /\ clients = {} /\ bans = {}
    /\ sock = [c \in Conns |-> "fresh"]
    /\ reading = [c \in Conns |-> "none"]
    /\ en = [c \in Conns |-> None]
    /\ workers = [c \in Conns |-> {}]
    /\ jobs = [c \in Conns |-> {}]
    /\ nextJob = [c \in Conns |-> 0]
    /\ shares = {} /\ credits = <<>>
    /\ ioq = <<>> /\ posts = 0 /\ retargets = 0
    /\ run = [t \in Threads |-> IdleFrame]

-----------------------------------------------------------------------------
(***************************************************************************)
(* Connections: accept, bans, disconnect, destruction.                     *)
(***************************************************************************)
IsBanned(c) == IpOf[c] \in bans

\* Erase from the client set, then close the socket.
Disconnect(c) ==
    /\ clients' = clients \ {c}
    /\ sock' = [sock EXCEPT ![c] = "closed"]

\* An async_read on a closed socket can only complete with an error.
StartRead(c, s) == reading' = [reading EXCEPT ![c] = IF s = "open" THEN "armed" ELSE "dead"]

\* _OnAccept up to the end of Client::Start: remote_endpoint() throws, or the
\* address is banned, or reading starts.  The client is not registered yet.
OnAccept(t, c) ==
    /\ Idle(t)
    /\ sock[c] = "fresh"
    /\ \A u \in Threads : ~At(u, "insert")
    /\ \/ /\ sock' = [sock EXCEPT ![c] = "closed"]
          /\ UNCHANGED <<clients, reading, run>>
       \/ /\ IsBanned(c)
          /\ Disconnect(c)
          /\ UNCHANGED <<reading, run>>
       \/ /\ ~IsBanned(c)
          /\ sock' = [sock EXCEPT ![c] = "open"]
          /\ StartRead(c, "open")
          /\ Goto(t, Frame("insert", c, FALSE, "idle"))
          /\ UNCHANGED clients
    /\ UNCHANGED <<currentWork, extranonce, issued, bans, resetWork, en, workers,
                   jobVars, netVars, credits, retargets>>

\* The rest of _OnAccept: register the client and accept the next one.
InsertClient(t) ==
    /\ At(t, "insert")
    /\ clients' = clients \cup {run[t].conn}
    /\ Goto(t, IdleFrame)
    /\ UNCHANGED <<currentWork, extranonce, issued, bans, resetWork, connVars,
                   jobVars, netVars, credits, retargets>>

\* async_accept completed with an error: only the next accept is started.
AcceptFailed(t) ==
    /\ Idle(t)
    /\ \A u \in Threads : ~At(u, "insert")
    /\ UNCHANGED vars

\* IsBanned ignores bans whose time has passed.
BanExpires(ip) ==
    /\ ip \in bans
    /\ bans' = bans \ {ip}
    /\ UNCHANGED <<currentWork, extranonce, issued, clients, resetWork, connVars,
                   jobVars, netVars, credits, retargets, run>>

\* The jobs and shares of client c are deleted.
CleanJobs(c) ==
    /\ jobs' = [jobs EXCEPT ![c] = {}]
    /\ shares' = {s \in shares : s[1] # c}

\* ~Client: nothing refers to the client any more.
Destroy(c) ==
    /\ sock[c] \in {"open", "closed"}
    /\ c \notin clients
    /\ reading[c] = "none"
    /\ \A u \in Threads : run[u].conn # c
    /\ \A i \in 1..Len(ioq) : c \notin ioq[i].conns
    /\ CleanJobs(c)
    /\ sock' = [sock EXCEPT ![c] = "gone"]
    /\ en' = [en EXCEPT ![c] = None]
    /\ workers' = [workers EXCEPT ![c] = {}]
    /\ UNCHANGED <<serverVars, reading, nextJob, netVars, credits, retargets, run>>

-----------------------------------------------------------------------------
(***************************************************************************)
(* Client::_OnReceive: the loop over the buffered messages is pc "recv".   *)
(***************************************************************************)
Receive(t, c) ==
    /\ Idle(t)
    /\ reading[c] = "armed"
    /\ StrandFree(c)
    /\ reading' = [reading EXCEPT ![c] = "none"]
    /\ Goto(t, RecvFrame(c))
    /\ UNCHANGED <<serverVars, sock, en, workers, jobVars, netVars, credits, retargets>>

\* The read completed with an error: eof and connection_reset disconnect the
\* client, any other error leaves it registered with no read outstanding.
ReceiveError(t, c) ==
    /\ Idle(t)
    /\ reading[c] # "none"
    /\ StrandFree(c)
    /\ reading' = [reading EXCEPT ![c] = "none"]
    /\ \/ reading[c] = "armed" /\ Disconnect(c)
       \/ UNCHANGED <<clients, sock>>
    /\ UNCHANGED <<currentWork, extranonce, issued, bans, resetWork, en, workers,
                   jobVars, netVars, credits, retargets, run>>

\* A write failed with eof or connection_reset.
OnSend(t, c) ==
    /\ Idle(t)
    /\ sock[c] = "open"
    /\ StrandFree(c)
    /\ Disconnect(c)
    /\ UNCHANGED <<currentWork, extranonce, issued, bans, resetWork, reading, en, workers,
                   jobVars, netVars, credits, retargets, run>>

\* The buffer is exhausted: the rest may exceed MAX_PACKET; reading goes on
\* whether or not the client was disconnected meanwhile.
EndReceive(t) ==
    LET c == run[t].conn IN
    /\ At(t, "recv")
    /\ \/ Disconnect(c) /\ StartRead(c, "closed")
       \/ StartRead(c, sock[c]) /\ UNCHANGED <<clients, sock>>
    /\ Goto(t, IdleFrame)
    /\ UNCHANGED <<currentWork, extranonce, issued, bans, resetWork, en, workers,
                   jobVars, netVars, credits, retargets>>

\* Text that is not JSON, or names no method: an exception is caught, or the
\* message is ignored (getwork clients are sent a redirect first).
OnOtherMessage(t) ==
    /\ At(t, "recv")
    /\ UNCHANGED vars

NextExtranonceUnbounded(e) == e + 1
NextExtranonceSame(e) == e
NextExtranonce(e) == (e + 1) % ExtraMod

\* GetExtranonce runs under _mtxExtranonce; the handler ends with SendJob(false).
OnMiningSubscribe(t) ==
    /\ At(t, "recv")
    /\ issued < MaxSubs
    /\ en' = [en EXCEPT ![run[t].conn] = extranonce]
    /\ extranonce' = NextExtranonce(extranonce)
    /\ issued' = issued + 1
    /\ Goto(t, Frame("getwork", run[t].conn, FALSE, "recv"))
    /\ UNCHANGED <<currentWork, clients, bans, resetWork, sock, reading, workers,
                   jobVars, netVars, credits, retargets>>

\* The pool_worker table has the worker, or "Authentication failed".
OnMiningAuthorize(t) ==
    /\ At(t, "recv")
    /\ \/ \E w \in Workers :
            workers' = [workers EXCEPT ![run[t].conn] = @ \cup {w}]
       \/ UNCHANGED workers
    /\ UNCHANGED <<serverVars, sock, reading, en, jobVars, netVars, credits, retargets, run>>

\* OnMiningSubmit up to the lookup of the job: errors 24 and 21, or a job.
OnMiningSubmit(t) ==
    LET c == run[t].conn IN
    /\ At(t, "recv")
    /\ \E w \in Workers :
        \/ w \notin workers[c] /\ UNCHANGED run
        \/ /\ w \in workers[c]
           /\ \E id \in 0..nextJob[c] : id \notin JobIds(c)
           /\ UNCHANGED run
        \/ /\ w \in workers[c]
           /\ \E j \in jobs[c], s \in Shares :
                Goto(t, [RecvFrame(c) EXCEPT !.pc = "limit", !.job = j.id,
                                             !.share = s, !.work = j.work])
    /\ UNCHANGED <<serverVars, connVars, jobVars, netVars, credits, retargets>>

\* ShareLimiter::Submit returned true, with or without a change of difficulty
\* that sends nothing.
LimiterPass(t) ==
    /\ At(t, "limit")
    /\ Step(t, "dedupe")
    /\ UNCHANGED <<serverVars, connVars, jobVars, netVars, credits, retargets>>

\* SetDifficulty(newDiff, true): SendJob(false), then the submission goes on.
LimiterRetarget(t) ==
    /\ At(t, "limit")
    /\ retargets < MaxRetargets
    /\ retargets' = retargets + 1
    /\ Goto(t, [run[t] EXCEPT !.pc = "getwork", !.ret = "dedupe"])
    /\ UNCHANGED <<serverVars, connVars, jobVars, netVars, credits>>

\* Huge variance: SendJob(true) deletes every job, the submitted one included,
\* and the handler must return without touching it again.
DiscardAndContinue(f) == [f EXCEPT !.pc = "clean", !.flag = TRUE, !.ret = "dedupe"]
Discard(f) == Frame("clean", f.conn, TRUE, "recv")

LimiterDiscard(t) ==
    /\ At(t, "limit")
    /\ retargets < MaxRetargets
    /\ retargets' = retargets + 1
    /\ Goto(t, Discard(run[t]))
    /\ UNCHANGED <<serverVars, connVars, jobVars, netVars, credits>>

\* Too many bad shares: Client::Ban, which also disconnects.  The message
\* loop of _OnReceive goes on with the next buffered message.
LimiterBan(t) ==
    LET c == run[t].conn IN
    /\ At(t, "limit")
    /\ bans' = bans \cup {IpOf[c]}
    /\ Disconnect(c)
    /\ Goto(t, RecvFrame(c))
    /\ UNCHANGED <<currentWork, extranonce, issued, resetWork, reading, en, workers,
                   jobVars, netVars, credits, retargets>>

\* Job::SubmitShare records the share in its job.
RecordNothing(c, id, s) == shares
RecordShare(c, id, s) == shares \cup {<<c, id, s>>}

\* extranonce2, ntime or nonce has the wrong size.
WrongSize(t) ==
    /\ At(t, "dedupe")
    /\ Goto(t, RecvFrame(run[t].conn))
    /\ UNCHANGED <<serverVars, connVars, jobVars, netVars, credits, retargets>>

\* Job::SubmitShare on the job found before the limiter ran.  If the job has
\* been deleted meanwhile the set that is read and written is freed memory.
SubmitShare(t) ==
    LET f == run[t]
        key == <<f.conn, f.job, f.share>>
        live == f.job \in JobIds(f.conn) IN
    /\ At(t, "dedupe")
    /\ \/ /\ key \in shares \/ ~live
          /\ Goto(t, RecvFrame(f.conn))
          /\ UNCHANGED shares
       \/ /\ key \notin shares
          /\ shares' = IF live THEN RecordShare(f.conn, f.job, f.share) ELSE shares
          /\ Step(t, "eval")
    /\ UNCHANGED <<serverVars, connVars, jobs, nextJob, netVars, credits, retargets>>

CreditOf(f) == [conn |-> f.conn, job |-> f.job, share |-> f.share,
                work |-> f.work, en |-> en[f.conn]]

\* The assembled block is hashed and compared with the job's and the block's
\* target: error 23, a good share queued in DataMgr, or a block candidate.
EvaluateShare(t) ==
    LET f == run[t] IN
    /\ At(t, "eval")
    /\ \/ Goto(t, RecvFrame(f.conn)) /\ UNCHANGED credits
       \/ Goto(t, RecvFrame(f.conn)) /\ Pay(CreditOf(f))
       \/ Step(t, "found") /\ UNCHANGED credits
    /\ UNCHANGED <<serverVars, connVars, jobVars, netVars, retargets>>

\* _mtxBlockCheck is held during BlockCheck and the notifications it sends.
InBlockCheck(f) == f.pc = "check" \/ (f.pc \in {"bind", "post"} /\ f.flag)
BlockCheckFree == \A u \in Threads : ~InBlockCheck(run[u])

\* NetworkMgr::SubmitBlock: a daemon accepts the block and BlockCheck runs, or
\* none does and the handler ends without a reply.
SubmitBlock(t) ==
    /\ At(t, "found")
    /\ \/ /\ BlockCheckFree
          /\ Goto(t, [run[t] EXCEPT !.pc = "check", !.ret = "credit"])
       \/ Goto(t, RecvFrame(run[t].conn))
    /\ UNCHANGED <<serverVars, connVars, jobVars, netVars, credits, retargets>>

\* The block was accepted: its share is written straight to the database.
CreditBlock(t) ==
    /\ At(t, "credit")
    /\ Pay(CreditOf(run[t]))
    /\ Goto(t, RecvFrame(run[t].conn))
    /\ UNCHANGED <<serverVars, connVars, jobVars, netVars, retargets>>

-----------------------------------------------------------------------------
(***************************************************************************)
(* Client::SendJob.  _jobs and _jobid have no lock: `_jobid++' is a load   *)
(* and a store, and two threads may build a job for one client at a time.  *)
(***************************************************************************)
SendJobClean(t) ==
    /\ At(t, "clean")
    /\ CleanJobs(run[t].conn)
    /\ Step(t, "getwork")
    /\ UNCHANGED <<serverVars, connVars, nextJob, netVars, credits, retargets>>

GetJob(t) ==
    /\ At(t, "getwork")
    /\ Goto(t, [run[t] EXCEPT !.pc = "takeid", !.newWork = currentWork])
    /\ UNCHANGED <<serverVars, connVars, jobVars, netVars, credits, retargets>>

TakeJobId(t) ==
    /\ At(t, "takeid")
    /\ Goto(t, [run[t] EXCEPT !.pc = "putjob", !.newJob = nextJob[run[t].conn]])
    /\ UNCHANGED <<serverVars, connVars, jobVars, netVars, credits, retargets>>

\* A job already stored under the same id is overwritten.
PutJob(t) ==
    LET f == run[t]
        c == f.conn IN
    /\ At(t, "putjob")
    /\ nextJob' = [nextJob EXCEPT ![c] = f.newJob + 1]
    /\ jobs' = [jobs EXCEPT ![c] = {j \in @ : j.id # f.newJob}
                                   \cup {[id |-> f.newJob, work |-> f.newWork]}]
    /\ shares' = {s \in shares : s[1] # c \/ s[2] # f.newJob}
    /\ Goto(t, Resume(f))
    /\ UNCHANGED <<serverVars, connVars, netVars, credits, retargets>>

-----------------------------------------------------------------------------
(***************************************************************************)
(* NetworkMgr as this server sees it, and Server::BlockNotify.             *)
(***************************************************************************)
BlockCheckTimer(t) ==
    /\ Idle(t)
    /\ BlockCheckFree
    /\ Goto(t, Frame("check", None, FALSE, "idle"))
    /\ UNCHANGED <<serverVars, connVars, jobVars, netVars, credits, retargets>>

\* UpdateBlockTemplate fetches a new template, or every daemon fails and the
\* old one stays.
FetchTemplate ==
    /\ posts < MaxPosts
    /\ posts' = posts + 1
    /\ tmpl' \in {tmpl, tmpl + 1}

\* One daemon reports a new height.
BlockCheckNewBlock(t) ==
    /\ At(t, "check")
    /\ FetchTemplate
    /\ Goto(t, [run[t] EXCEPT !.pc = "bind", !.flag = TRUE])
    /\ UNCHANGED <<serverVars, connVars, jobVars, ioq, credits, retargets>>

BlockCheckDone(t) ==
    /\ At(t, "check")
    /\ IF run[t].ret = "idle" THEN Goto(t, IdleFrame)
       ELSE Goto(t, [run[t] EXCEPT !.pc = "credit", !.ret = "recv"])
    /\ UNCHANGED <<serverVars, connVars, jobVars, netVars, credits, retargets>>

\* The timer is restarted when its handler ends.
BlockNotifyTimer(t) ==
    /\ Idle(t)
    /\ \A u \in Threads : ~(run[u].pc \in {"bind", "post"} /\ ~run[u].flag)
    /\ FetchTemplate
    /\ Goto(t, Frame("bind", None, FALSE, "idle"))
    /\ UNCHANGED <<serverVars, connVars, jobVars, ioq, credits, retargets>>

\* BlockNotifySend copies _curBlockTmpl without its lock ...
BindTemplate(t) ==
    /\ At(t, "bind")
    /\ Goto(t, [run[t] EXCEPT !.pc = "post", !.newWork = tmpl])
    /\ UNCHANGED <<serverVars, connVars, jobVars, netVars, credits, retargets>>

\* ... and posts the notification to the io_service.
Post(q, e) == Append(q, e)

BlockNotifySend(t) ==
    LET f == run[t] IN
    /\ At(t, "post")
    /\ ioq' = Post(ioq, Notification(f.newWork, f.flag))
    /\ IF f.flag THEN Goto(t, [f EXCEPT !.pc = "check", !.flag = FALSE, !.newWork = 0])
                 ELSE Goto(t, IdleFrame)
    /\ UNCHANGED <<serverVars, connVars, jobVars, tmpl, posts, credits, retargets>>

\* A thread takes a posted BlockNotify.
TakeNotify(t) ==
    /\ Idle(t)
    /\ ioq # <<>> /\ Head(ioq).kind = "notify"
    /\ ioq' = Tail(ioq)
    /\ Goto(t, [Frame("setwork", None, Head(ioq).flag, "idle")
                   EXCEPT !.newWork = Head(ioq).work])
    /\ UNCHANGED <<serverVars, connVars, jobVars, tmpl, posts, credits, retargets>>

BlockNotify(t) ==
    LET f == run[t] IN
    /\ At(t, "setwork")
    /\ currentWork' = f.newWork
    /\ resetWork' = IF f.flag THEN f.newWork ELSE resetWork
    /\ Goto(t, [f EXCEPT !.pc = "fanout", !.newWork = 0])
    /\ UNCHANGED <<extranonce, issued, clients, bans, connVars, jobVars, netVars,
                   credits, retargets>>

\* SendJob(resetWork) is posted for every registered client, subscribed or not.
FanOutWithoutReset(reset) == SendJobs(clients, FALSE)
FanOut(reset) == SendJobs(clients, reset)

SendBlockTmpl(t) ==
    /\ At(t, "fanout")
    /\ ioq' = IF clients = {} THEN ioq ELSE Post(ioq, FanOut(run[t].flag))
    /\ Goto(t, IdleFrame)
    /\ UNCHANGED <<serverVars, connVars, jobVars, tmpl, posts, credits, retargets>>

\* A thread takes a posted SendJob; the strand of the client is not involved.
SkipSend(c, clean) == IdleFrame
StartSend(c, clean) == Frame(IF clean THEN "clean" ELSE "getwork", c, clean, "idle")

TakeSendJob(t, c) ==
    /\ Idle(t)
    /\ ioq # <<>> /\ c \in Head(ioq).conns
    /\ ioq' = IF Head(ioq).conns = {c} THEN Tail(ioq)
              ELSE [ioq EXCEPT ![1].conns = @ \ {c}]
    /\ Goto(t, StartSend(c, Head(ioq).flag))
    /\ UNCHANGED <<serverVars, connVars, jobVars, tmpl, posts, credits, retargets>>

-----------------------------------------------------------------------------
\* Steps of a thread that is inside a handler.
Continue(t) ==
    \/ InsertClient(t)
    \/ LimiterPass(t) \/ LimiterRetarget(t) \/ LimiterDiscard(t) \/ LimiterBan(t)
    \/ WrongSize(t) \/ SubmitShare(t) \/ EvaluateShare(t)
    \/ SubmitBlock(t) \/ CreditBlock(t)
    \/ SendJobClean(t) \/ GetJob(t) \/ TakeJobId(t) \/ PutJob(t)
    \/ BlockCheckNewBlock(t) \/ BlockCheckDone(t) \/ BindTemplate(t) \/ BlockNotifySend(t)
    \/ BlockNotify(t) \/ SendBlockTmpl(t)

\* The next message of the buffer.
OnMessage(t) ==
    OnMiningSubscribe(t) \/ OnMiningAuthorize(t) \/ OnMiningSubmit(t) \/ OnOtherMessage(t)

\* An idle thread takes a handler that was posted ...
TakePosted(t) == TakeNotify(t) \/ \E c \in Conns : TakeSendJob(t, c)

\* ... or one that an event of the network or a timer made ready.
TakeEvent(t) ==
    \/ AcceptFailed(t)
    \/ \E c \in Conns : OnAccept(t, c) \/ Receive(t, c) \/ ReceiveError(t, c) \/ OnSend(t, c)
    \/ BlockCheckTimer(t) \/ BlockNotifyTimer(t)

Next ==
    \/ \E t \in Threads : Continue(t) \/ OnMessage(t) \/ EndReceive(t) \/ TakePosted(t) \/ TakeEvent(t)
    \/ \E ip \in IPs : BanExpires(ip)
    \/ \E c \in Conns : Destroy(c)

Spec == Init /\ [][Next]_vars

\* A thread never stops inside a handler, the buffer of a receive handler is
\* finite, and the io_service queue is served in order whatever else is ready.
Fairness == \A t \in Threads :
    /\ WF_vars(Continue(t))
    /\ SF_vars(EndReceive(t))
    /\ SF_vars(BlockCheckDone(t))
    /\ SF_vars(TakePosted(t))

FairSpec == Spec /\ Fairness

-----------------------------------------------------------------------------
(***************************************************************************)
(* Properties.                                                             *)
(***************************************************************************)

ServerOK ==
    /\ currentWork \in Nat /\ resetWork \in Nat
    /\ extranonce \in 0..(ExtraMod - 1)
    /\ issued \in 0..MaxSubs
    /\ clients \subseteq Conns /\ bans \subseteq IPs
ConnOK ==
    /\ sock \in [Conns -> {"fresh", "open", "closed", "gone"}]
    /\ reading \in [Conns -> {"none", "armed", "dead"}]
    /\ en \in [Conns -> Nat \cup {None}]
    /\ workers \in [Conns -> SUBSET Workers]
JobOK ==
    /\ jobs \in [Conns -> SUBSET [id: Nat, work: Nat]]
    /\ nextJob \in [Conns -> Nat]
    /\ shares \subseteq Conns \X Nat \X Shares
NetOK ==
    /\ ioq \in Seq(Entries)
    /\ tmpl \in Nat /\ posts \in 0..MaxPosts
CreditsOK == DOMAIN credits \subseteq Credits /\ credits \in [DOMAIN credits -> Nat]

\* The values of the variables; _extranonce stays below 2^32.
TypeOK ==
    /\ ServerOK /\ ConnOK /\ JobOK /\ NetOK /\ CreditsOK
    /\ retargets \in 0..MaxRetargets
    /\ run \in [Threads -> Frames]

\* A handler that serves a client or checks a share knows which: the fields
\* a step reads were set by the steps that led to it.
FrameOK(f) ==
    /\ f.pc \in SubmitPcs \cup SendPcs \cup {"insert", "recv"} \/ f.ret # "idle" => f.conn \in Conns
    /\ f.pc \in SubmitPcs \/ f.ret \in {"dedupe", "credit"} => f.share \in Shares
    /\ f.pc \in {"check", "bind", "post"} => f.ret \in {"idle", "credit"}
    /\ f.pc \in {"idle", "insert", "setwork", "fanout"} => f.ret = "idle"
    /\ f.pc \in SubmitPcs \cup {"recv"} => f.ret = "recv"
    /\ f.pc \in SendPcs => f.ret # "credit"
    /\ f.pc = "clean" => f.ret # "dedupe"
FramesOK == \A t \in Threads : FrameOK(run[t])

\* No two clients mine with the same extranonce (GetExtranonce), whatever the
\* interleaving of their subscriptions and however often they subscribe.
ExtranonceUnique ==
    \A c, d \in Conns : en[c] # None /\ en[c] = en[d] => c = d

\* ServerThreads = 1.
SingleThread == \A t, u \in Threads : t = u

\* The job a submission holds a pointer to has not been deleted while the
\* handler still reads it (OnMiningSubmit keeps a bare Job* across the share
\* limiter, which may itself send jobs, and across whatever other threads do).
HoldsJob(f) == f.pc \in {"limit", "dedupe", "eval"} \/ f.ret = "dedupe"
JobLive == \A t \in Threads : HoldsJob(run[t]) => run[t].job \in JobIds(run[t].conn)

\* A share of a job is paid at most once, by the upload queue or by the direct
\* insert of a found block (Job::SubmitShare).
CreditOnce == \A a, b \in DOMAIN credits :
    a.conn = b.conn /\ a.job = b.job /\ a.share = b.share => a = b /\ credits[a] = 1

\* Once the SendJob(true) a new block posted for a client has run, the client
\* holds no job for a template older than that block (SendBlockTmpl).
ResetPending(c) ==
    \/ \E i \in 1..Len(ioq) : ioq[i].flag /\ c \in ioq[i].conns
    \/ \E t \in Threads : \/ At(t, "fanout") /\ run[t].flag
                          \/ At(t, "clean") /\ run[t].conn = c
NoStaleJob == \A c \in clients :
    ~ResetPending(c) => \A j \in jobs[c] : j.work >= resetWork

\* Again and again every subscribed client holds a job for the work the server
\* has: no client is left on an old template (SendBlockTmpl, SendJob).
FreshWork ==
    []<>(\A c \in clients : en[c] # None => \E j \in jobs[c] : j.work >= currentWork)

=============================================================================
