----------------------------- MODULE NetworkMgr -----------------------------
(***************************************************************************)
(* NetworkMgr: block heights and block templates fetched from several      *)
(* bitcoin daemons by the block check timer, the block notify timer and    *)
(* the threads that submit a found block.                                  *)
(*                                                                         *)
(* Daemons are external: each has its own height, which trails the height  *)
(* of the network, and any query to one may raise an exception.  A         *)
(* template is the height of the block it builds on.  Queries of different *)
(* threads are taken to be exclusive here.                                 *)
(***************************************************************************)
EXTENDS Naturals

CONSTANTS
    NDaemons,       \* _cons.size()
    Submitters,     \* threads that run SubmitBlock
    CheckTimer,     \* the thread that runs BlockCheckTimerExpired
    NotifyTimer,    \* the thread that runs BlockNotifyTimerExpired
    None,           \* no template, no lock holder
    StartHeight,    \* height of the chain at startup
    MaxHeight       \* bound: height of the chain

ASSUME DaemonAssumption == NDaemons \in Nat \ {0}
ASSUME HeightAssumption == StartHeight \in Nat \ {0} /\ MaxHeight \in Nat /\ StartHeight <= MaxHeight
ASSUME ProcAssumption ==
    /\ CheckTimer # NotifyTimer /\ None \notin Submitters \cup {CheckTimer, NotifyTimer}
    /\ CheckTimer \notin Submitters /\ NotifyTimer \notin Submitters

Daemons == 1..NDaemons
Procs == Submitters \cup {CheckTimer, NotifyTimer}

VARIABLES
    height,         \* height of each daemon (external)
    blockHeight,    \* _blockHeight
    curTmpl,        \* _curBlockTmpl
    checkLock,      \* holder of _mtxBlockCheck
    tmplLock,       \* holder of _mtxBlockTmpl
    pc,             \* where each thread is
    idx,            \* i of SubmitBlock or BlockCheck, 1 outside them
    tidx,           \* i of UpdateBlockTemplate, 1 outside it
    got,            \* curBlock of BlockCheck, or response["height"] - 1; 0 when dead
    tmpl,           \* the template bound by BlockNotifySend
    announced,      \* history: _blockHeight when work was last reset
    won,            \* history: height of the block a submitter got accepted
    failed          \* history: a query of a submitter's BlockCheck failed

daemonVars == <<height>>
heightVars == <<blockHeight, checkLock>>
tmplVars == <<curTmpl, tmplLock>>
local == <<pc, idx, tidx, got, tmpl>>
history == <<announced, won, failed>>
vars == <<height, blockHeight, curTmpl, checkLock, tmplLock, pc, idx, tidx, got, tmpl,
          announced, won, failed>>

\* BlockCheck: lock, info, compare, write; UpdateBlockTemplate: tlock, tquery,
\* tcheck, tset; BlockNotifySend: bind, post; SubmitBlock: ask, done.
Pcs == {"idle", "ask", "done", "lock", "info", "compare", "write",
        "tlock", "tquery", "tcheck", "tset", "bind", "post"}

At(p, l) == pc[p] = l
Goto(p, l) == pc' = [pc EXCEPT ![p] = l]

\* Connect runs the first BlockCheck before any other thread starts: its height
\* query may have failed, and so may its template query.
Init ==
    /\ height \in [Daemons -> {StartHeight, StartHeight - 1}]
    /\ height[1] = StartHeight
    /\ \/ blockHeight = 0 /\ curTmpl = None
       \/ blockHeight = StartHeight /\ curTmpl \in {None, StartHeight}
    /\ checkLock = None /\ tmplLock = None
    /\ pc = [p \in Procs |-> "idle"]
    /\ idx = [p \in Procs |-> 1] /\ tidx = [p \in Procs |-> 1]
    /\ got = [p \in Procs |-> 0]
    /\ tmpl = [p \in Procs |-> None]
    /\ announced = blockHeight
    /\ won = [p \in Procs |-> 0] /\ failed = [p \in Procs |-> FALSE]

-----------------------------------------------------------------------------
(***************************************************************************)
(* The daemons: a new block reaches them one by one.                       *)
(***************************************************************************)
DaemonAdvances(d) ==
    /\ height[d] < MaxHeight
    /\ height' = [height EXCEPT ![d] = @ + 1]
    /\ UNCHANGED <<heightVars, tmplVars, local, history>>

-----------------------------------------------------------------------------
(***************************************************************************)
(* SubmitBlock.                                                            *)
(***************************************************************************)
SubmitBlock(p) ==
    /\ p \in Submitters
    /\ At(p, "idle")
    /\ Goto(p, "ask")
    /\ UNCHANGED <<daemonVars, heightVars, tmplVars, idx, tidx, got, tmpl, history>>

\* After an accepted block SubmitBlock runs BlockCheck.
AcceptedSkipsCheck == "done"
AcceptedNext == "lock"

\* The daemon accepts the block and is then at least one block higher.
BlockAccepted(p) ==
    LET d == idx[p] IN
    /\ At(p, "ask") /\ d \in Daemons
    /\ height[d] < MaxHeight
    /\ height' = [height EXCEPT ![d] = @ + 1]
    /\ won' = [won EXCEPT ![p] = height[d] + 1]
    /\ idx' = [idx EXCEPT ![p] = 1]
    /\ Goto(p, AcceptedNext)
    /\ UNCHANGED <<heightVars, tmplVars, tidx, got, tmpl, announced, failed>>

\* The daemon rejects the block or the query raises: the next one is asked.
BlockRefused(p) ==
    /\ At(p, "ask") /\ idx[p] \in Daemons
    /\ idx' = [idx EXCEPT ![p] = @ + 1]
    /\ UNCHANGED <<daemonVars, heightVars, tmplVars, pc, tidx, got, tmpl, history>>

\* Every daemon was asked: return false.
SubmitFails(p) ==
    /\ At(p, "ask") /\ idx[p] \notin Daemons
    /\ idx' = [idx EXCEPT ![p] = 1]
    /\ Goto(p, "idle")
    /\ UNCHANGED <<daemonVars, heightVars, tmplVars, tidx, got, tmpl, history>>

\* return true.
SubmitReturns(p) ==
    /\ At(p, "done")
    /\ Goto(p, "idle")
    /\ won' = [won EXCEPT ![p] = 0] /\ failed' = [failed EXCEPT ![p] = FALSE]
    /\ UNCHANGED <<daemonVars, heightVars, tmplVars, idx, tidx, got, tmpl, announced>>

-----------------------------------------------------------------------------
(***************************************************************************)
(* BlockCheck, called by its timer and by SubmitBlock.                     *)
(***************************************************************************)
BlockCheckTimerExpired(p) ==
    /\ p = CheckTimer
    /\ At(p, "idle")
    /\ Goto(p, "lock")
    /\ UNCHANGED <<daemonVars, heightVars, tmplVars, idx, tidx, got, tmpl, history>>

\* boost::lock_guard on _mtxBlockCheck.
EnterUnlocked(p) == TRUE
CanEnterCheck(p) == checkLock = None

LockBlockCheck(p) ==
    /\ At(p, "lock")
    /\ CanEnterCheck(p)
    /\ checkLock' = p
    /\ failed' = [failed EXCEPT ![p] = FALSE]
    /\ Goto(p, "info")
    /\ UNCHANGED <<daemonVars, blockHeight, tmplVars, idx, tidx, got, tmpl, announced, won>>

\* response["blocks"] of getinfo.
Blocks(d) == height[d]

QueryInfo(p) ==
    /\ At(p, "info") /\ idx[p] \in Daemons
    /\ got' = [got EXCEPT ![p] = Blocks(idx[p])]
    /\ Goto(p, "compare")
    /\ UNCHANGED <<daemonVars, heightVars, tmplVars, idx, tidx, tmpl, history>>

QueryInfoFails(p) ==
    /\ At(p, "info") /\ idx[p] \in Daemons
    /\ idx' = [idx EXCEPT ![p] = @ + 1]
    /\ failed' = [failed EXCEPT ![p] = p \in Submitters]
    /\ UNCHANGED <<daemonVars, heightVars, tmplVars, pc, tidx, got, tmpl, announced, won>>

\* curBlock > _blockHeight, read before the height is written.
MuchNewer(curBlock) == curBlock > blockHeight + 1
NotOlder(curBlock) == curBlock >= blockHeight
Newer(curBlock) == curBlock > blockHeight

CompareHeight(p) ==
    /\ At(p, "compare")
    /\ \/ /\ Newer(got[p])
          /\ Goto(p, "write")
          /\ UNCHANGED <<idx, got>>
       \/ /\ ~Newer(got[p])
          /\ idx' = [idx EXCEPT ![p] = @ + 1]
          /\ got' = [got EXCEPT ![p] = 0]
          /\ Goto(p, "info")
    /\ UNCHANGED <<daemonVars, heightVars, tmplVars, tidx, tmpl, history>>

WriteHeight(p) ==
    /\ At(p, "write")
    /\ blockHeight' = got[p]
    /\ got' = [got EXCEPT ![p] = 0]
    /\ Goto(p, "tlock")
    /\ UNCHANGED <<daemonVars, checkLock, tmplVars, idx, tidx, tmpl, history>>

\* All daemons were asked: the lock is released and the caller goes on.
UnlockBlockCheck(p) ==
    /\ At(p, "info") /\ idx[p] \notin Daemons
    /\ checkLock' = None
    /\ idx' = [idx EXCEPT ![p] = 1]
    /\ Goto(p, IF p \in Submitters THEN "done" ELSE "idle")
    /\ UNCHANGED <<daemonVars, blockHeight, tmplVars, tidx, got, tmpl, history>>

-----------------------------------------------------------------------------
(***************************************************************************)
(* UpdateBlockTemplate and BlockNotifySend.                                *)
(***************************************************************************)
BlockNotifyTimerExpired(p) ==
    /\ p = NotifyTimer
    /\ At(p, "idle")
    /\ Goto(p, "tlock")
    /\ UNCHANGED <<daemonVars, heightVars, tmplVars, idx, tidx, got, tmpl, history>>

LockTemplate(p) ==
    /\ At(p, "tlock")
    /\ tmplLock = None
    /\ tmplLock' = p
    /\ Goto(p, "tquery")
    /\ UNCHANGED <<daemonVars, heightVars, curTmpl, idx, tidx, got, tmpl, history>>

\* The template a daemon serves is for the block after its own height.
QueryTemplate(p) ==
    /\ At(p, "tquery") /\ tidx[p] \in Daemons
    /\ got' = [got EXCEPT ![p] = height[tidx[p]]]
    /\ Goto(p, "tcheck")
    /\ UNCHANGED <<daemonVars, heightVars, tmplVars, idx, tidx, tmpl, history>>

QueryTemplateFails(p) ==
    /\ At(p, "tquery") /\ tidx[p] \in Daemons
    /\ tidx' = [tidx EXCEPT ![p] = @ + 1]
    /\ UNCHANGED <<daemonVars, heightVars, tmplVars, pc, idx, got, tmpl, history>>

\* response["height"] < _blockHeight: the daemon is behind, try the next one.
Behind(p) == got[p] + 1 < blockHeight
CheckTemplate(p) ==
    /\ At(p, "tcheck")
    /\ \/ /\ Behind(p)
          /\ tidx' = [tidx EXCEPT ![p] = @ + 1]
          /\ got' = [got EXCEPT ![p] = 0]
          /\ Goto(p, "tquery")
       \/ /\ ~Behind(p)
          /\ Goto(p, "tset")
          /\ UNCHANGED <<tidx, got>>
    /\ UNCHANGED <<daemonVars, heightVars, tmplVars, idx, tmpl, history>>

SetTemplate(p) ==
    /\ At(p, "tset")
    /\ curTmpl' = got[p]
    /\ tmplLock' = None
    /\ tidx' = [tidx EXCEPT ![p] = 1]
    /\ got' = [got EXCEPT ![p] = 0]
    /\ Goto(p, "bind")
    /\ UNCHANGED <<daemonVars, heightVars, idx, tmpl, history>>

\* No daemon had a usable template: the old one stays.
KeepTemplate(p) ==
    /\ At(p, "tquery") /\ tidx[p] \notin Daemons
    /\ tmplLock' = None
    /\ tidx' = [tidx EXCEPT ![p] = 1]
    /\ Goto(p, "bind")
    /\ UNCHANGED <<daemonVars, heightVars, curTmpl, idx, got, tmpl, history>>

\* boost::bind copies _curBlockTmpl, without its lock.
BindTemplate(p) ==
    /\ At(p, "bind")
    /\ tmpl' = [tmpl EXCEPT ![p] = curTmpl]
    /\ Goto(p, "post")
    /\ UNCHANGED <<daemonVars, heightVars, tmplVars, idx, tidx, got, history>>

\* BlockNotifySend(true) from BlockCheck, BlockNotifySend() from the timer.
PostReset(p) ==
    /\ At(p, "post") /\ p # NotifyTimer
    /\ announced' = blockHeight
    /\ tmpl' = [tmpl EXCEPT ![p] = None]
    /\ idx' = [idx EXCEPT ![p] = @ + 1]
    /\ Goto(p, "info")
    /\ UNCHANGED <<daemonVars, heightVars, tmplVars, tidx, got, won, failed>>

PostRefresh(p) ==
    /\ At(p, "post") /\ p = NotifyTimer
    /\ tmpl' = [tmpl EXCEPT ![p] = None]
    /\ Goto(p, "idle")
    /\ UNCHANGED <<daemonVars, heightVars, tmplVars, idx, tidx, got, history>>

-----------------------------------------------------------------------------
BlockCheckStep(p) ==
    \/ LockBlockCheck(p) \/ QueryInfo(p) \/ QueryInfoFails(p) \/ CompareHeight(p)
    \/ WriteHeight(p) \/ UnlockBlockCheck(p)

TemplateStep(p) ==
    \/ LockTemplate(p) \/ QueryTemplate(p) \/ QueryTemplateFails(p) \/ CheckTemplate(p)
    \/ SetTemplate(p) \/ KeepTemplate(p) \/ BindTemplate(p) \/ PostReset(p) \/ PostRefresh(p)

SubmitStep(p) == BlockAccepted(p) \/ BlockRefused(p) \/ SubmitFails(p) \/ SubmitReturns(p)

Step(p) == BlockCheckStep(p) \/ TemplateStep(p) \/ SubmitStep(p)
Start(p) == SubmitBlock(p) \/ BlockCheckTimerExpired(p) \/ BlockNotifyTimerExpired(p)

Next == (\E d \in Daemons : DaemonAdvances(d)) \/ (\E p \in Procs : Step(p) \/ Start(p))

Spec == Init /\ [][Next]_vars

\* Threads go on, the check timer keeps firing, a template mutex that the other
\* timer releases again and again is obtained at last, and a daemon that is
\* asked again and again for its height answers at last.
Fairness ==
    /\ \A p \in Procs : WF_vars(Step(p))
    /\ \A p \in Procs \ {NotifyTimer} : SF_vars(LockTemplate(p))
    /\ WF_vars(BlockCheckTimerExpired(CheckTimer))
    /\ \A d \in Daemons : SF_vars(QueryInfo(CheckTimer) /\ idx[CheckTimer] = d)

FairSpec == Spec /\ Fairness

-----------------------------------------------------------------------------
(***************************************************************************)
(* Properties.                                                             *)
(***************************************************************************)
\* The known height never goes back, though it is compared in one step and
\* written in another by several threads (_mtxBlockCheck).
HeightMonotone == [][blockHeight' >= blockHeight]_vars

\* Work is reset once for each new height: a reset is posted only for a height
\* above the one of the last reset (BlockCheck called twice, by the timer and
\* by SubmitBlock).
OneResetPerBlock ==
    [][\A p \in Procs : PostReset(p) => blockHeight > announced]_vars

\* When SubmitBlock reports an accepted block the server knows its height, or
\* a daemon could not be asked.
AcceptedIsKnown ==
    \A p \in Submitters : At(p, "done") => failed[p] \/ blockHeight >= won[p]

\* Every height that a daemon reaches is announced to the miners at last: again
\* and again no daemon is above the last announced height (BlockCheck).
NewBlockAnnounced == []<>(\A d \in Daemons : height[d] <= announced)

\* The template is never taken from a daemon that is behind the known height:
\* a template that replaces another builds on that height.
TemplateOnTip == [][curTmpl' # curTmpl => curTmpl' >= blockHeight]_vars

=============================================================================
