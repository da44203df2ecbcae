-------------------------- MODULE NetworkMgrProofs --------------------------
(***************************************************************************)
(* Proofs about NetworkMgr, for any number of daemons and of threads that  *)
(* submit blocks.                                                          *)
(***************************************************************************)
EXTENDS NetworkMgr, TLAPS

\* What the proofs need of the types.
NumbersOK ==
    /\ height \in [Daemons -> Nat] /\ blockHeight \in Nat /\ announced \in Nat
    /\ got \in [Procs -> Nat] /\ pc \in [Procs -> Pcs]

\* A thread other than the notify timer that fetches or sends a template does
\* so for the height it has just written, inside BlockCheck.
TemplatePcs == {"tlock", "tquery", "tcheck", "tset", "bind", "post"}
Resetting(p) == p # NotifyTimer /\ pc[p] \in TemplatePcs
InCheck(p) == pc[p] \in {"info", "compare", "write"} \/ Resetting(p)

\* BlockCheck is run by the holder of _mtxBlockCheck, and never by the notify
\* timer.
Exclusive == \A p \in Procs : InCheck(p) => checkLock = p

\* The height about to be written is still above the known one, and a reset
\* that is under way is for a height above the last one announced.
HeightInv ==
    /\ NumbersOK /\ Exclusive
    /\ announced <= blockHeight
    /\ \A p \in Procs : pc[p] = "write" => got[p] > blockHeight
    /\ \A p \in Procs : Resetting(p) => announced < blockHeight

\* The height of the last reset is the known one at startup.
LEMMA HeightInit == Init => HeightInv
<1> SUFFICES ASSUME Init PROVE HeightInv
  OBVIOUS
<1>1. NumbersOK
  BY HeightAssumption DEF Init, NumbersOK, Pcs
<1>2. \A p \in Procs : pc[p] = "idle"
  BY DEF Init
<1> QED
  BY <1>1, <1>2 DEF Init, HeightInv, NumbersOK, Exclusive, InCheck, Resetting, TemplatePcs

\* Steps that leave the heights and the lock of BlockCheck alone, of threads
\* that are in BlockCheck before if they are afterwards.
LEMMA QuietSteps ==
    ASSUME HeightInv, NEW p \in Procs, NEW l \in Pcs, Goto(p, l),
           got' \in [Procs -> Nat], height' \in [Daemons -> Nat],
           \A q \in Procs : q # p => got'[q] = got[q],
           UNCHANGED <<blockHeight, announced, checkLock>>,
           l # "write",
           l \in {"info", "compare"} => InCheck(p),
           p # NotifyTimer /\ l \in TemplatePcs => Resetting(p)
    PROVE  HeightInv'
<1> USE DEF HeightInv, NumbersOK, Goto
<1>1. NumbersOK'
  OBVIOUS
<1>2. Exclusive'
  BY DEF Exclusive, InCheck, Resetting
<1>3. \A q \in Procs : pc'[q] = "write" => got'[q] > blockHeight'
  OBVIOUS
<1>4. \A q \in Procs : Resetting(q)' => announced' < blockHeight'
  BY DEF Resetting
<1> QED
  BY <1>1, <1>2, <1>3, <1>4

\* SubmitBlock and the timers.
LEMMA CallerSteps ==
    ASSUME HeightInv, NEW p \in Procs, SubmitStep(p) \/ Start(p)
    PROVE  HeightInv'
<1> USE DEF HeightInv, NumbersOK
<1>1. CASE SubmitBlock(p)
  BY <1>1, QuietSteps DEF SubmitBlock, Pcs, TemplatePcs, daemonVars, heightVars, tmplVars, history
<1>2. CASE BlockAccepted(p)
  BY <1>2, QuietSteps, HeightAssumption
     DEF BlockAccepted, AcceptedNext, Pcs, TemplatePcs, heightVars, tmplVars
<1>3. CASE BlockRefused(p)
  BY <1>3 DEF BlockRefused, daemonVars, heightVars, tmplVars, history, Exclusive, InCheck, Resetting
<1>4. CASE SubmitFails(p)
  BY <1>4, QuietSteps DEF SubmitFails, Pcs, TemplatePcs, daemonVars, heightVars, tmplVars, history
<1>5. CASE SubmitReturns(p)
  BY <1>5, QuietSteps DEF SubmitReturns, Pcs, TemplatePcs, daemonVars, heightVars, tmplVars
<1>6. CASE BlockCheckTimerExpired(p)
  BY <1>6, QuietSteps
     DEF BlockCheckTimerExpired, Pcs, TemplatePcs, daemonVars, heightVars, tmplVars, history
<1>7. CASE BlockNotifyTimerExpired(p)
  BY <1>7, QuietSteps
     DEF BlockNotifyTimerExpired, Pcs, TemplatePcs, daemonVars, heightVars, tmplVars, history
<1> QED
  BY <1>1, <1>2, <1>3, <1>4, <1>5, <1>6, <1>7 DEF SubmitStep, Start

\* BlockCheck: the comparison is still true at the write, for only the holder
\* of _mtxBlockCheck writes the height.
LEMMA CheckSteps ==
    ASSUME HeightInv, NEW p \in Procs, BlockCheckStep(p)
    PROVE  HeightInv'
<1> USE DEF HeightInv, NumbersOK
<1>1. CASE LockBlockCheck(p)
  BY <1>1, ProcAssumption DEF LockBlockCheck, CanEnterCheck, Goto, Exclusive, InCheck, Resetting,
     Pcs, Procs, TemplatePcs, daemonVars, tmplVars
<1>2. CASE QueryInfo(p)
  BY <1>2, QuietSteps
     DEF QueryInfo, Blocks, At, InCheck, Pcs, TemplatePcs, daemonVars, heightVars, tmplVars, history
<1>3. CASE QueryInfoFails(p)
  BY <1>3 DEF QueryInfoFails, daemonVars, heightVars, tmplVars, Exclusive, InCheck, Resetting
<1>4. CASE CompareHeight(p)
  <2>1. CASE Newer(got[p]) /\ Goto(p, "write") /\ UNCHANGED <<idx, got>>
    BY <1>4, <2>1 DEF CompareHeight, At, Newer, Goto, Exclusive, InCheck, Resetting, Pcs, TemplatePcs,
       daemonVars, heightVars, tmplVars, history
  <2>2. CASE got' = [got EXCEPT ![p] = 0] /\ Goto(p, "info")
    BY <1>4, <2>2, QuietSteps
       DEF CompareHeight, At, InCheck, Pcs, TemplatePcs, daemonVars, heightVars, tmplVars, history
  <2> QED
    BY <1>4, <2>1, <2>2 DEF CompareHeight
<1>5. CASE WriteHeight(p)
  <2>1. checkLock = p /\ blockHeight' = got[p] /\ got[p] > blockHeight
    BY <1>5 DEF WriteHeight, At, Exclusive, InCheck
  <2>2. \A q \in Procs : q # p => ~InCheck(q)
    BY <2>1 DEF Exclusive
  <2> QED
    BY <1>5, <2>1, <2>2 DEF WriteHeight, Goto, Exclusive, InCheck, Resetting, Pcs, TemplatePcs,
       daemonVars, tmplVars, history
<1>6. CASE UnlockBlockCheck(p)
  <2>1. \A q \in Procs : q # p => ~InCheck(q)
    BY <1>6 DEF UnlockBlockCheck, At, Exclusive, InCheck
  <2> QED
    BY <1>6, <2>1 DEF UnlockBlockCheck, Goto, Exclusive, InCheck, Resetting, Pcs, TemplatePcs,
       daemonVars, tmplVars, history
<1> QED
  BY <1>1, <1>2, <1>3, <1>4, <1>5, <1>6 DEF BlockCheckStep

\* UpdateBlockTemplate and BlockNotifySend.
LEMMA TemplateSteps ==
    ASSUME HeightInv, NEW p \in Procs, TemplateStep(p)
    PROVE  HeightInv'
<1> USE DEF HeightInv, NumbersOK
<1>1. CASE LockTemplate(p) \/ SetTemplate(p) \/ KeepTemplate(p) \/ BindTemplate(p)
  BY <1>1, QuietSteps DEF LockTemplate, SetTemplate, KeepTemplate, BindTemplate, At, Resetting, Pcs,
     TemplatePcs, daemonVars, heightVars, tmplVars, history
<1>2. CASE QueryTemplate(p)
  BY <1>2, QuietSteps DEF QueryTemplate, At, Resetting, Pcs, TemplatePcs, daemonVars, heightVars,
     tmplVars, history
<1>3. CASE QueryTemplateFails(p)
  BY <1>3 DEF QueryTemplateFails, daemonVars, heightVars, tmplVars, history, Exclusive, InCheck,
     Resetting
<1>4. CASE CheckTemplate(p)
  BY <1>4, QuietSteps DEF CheckTemplate, At, Resetting, Pcs, TemplatePcs, daemonVars, heightVars,
     tmplVars, history
<1>5. CASE PostReset(p)
  <2>1. \A q \in Procs : q # p => ~InCheck(q)
    BY <1>5 DEF PostReset, At, Exclusive, InCheck, Resetting, TemplatePcs
  <2> QED
    BY <1>5, <2>1 DEF PostReset, At, Goto, Exclusive, InCheck, Resetting, Pcs, TemplatePcs,
       daemonVars, heightVars, tmplVars
<1>6. CASE PostRefresh(p)
  BY <1>6, QuietSteps DEF PostRefresh, Pcs, TemplatePcs, daemonVars, heightVars, tmplVars, history
<1> QED
  BY <1>1, <1>2, <1>3, <1>4, <1>5, <1>6 DEF TemplateStep

\* Every step keeps the invariant.
LEMMA HeightStep == HeightInv /\ [Next]_vars => HeightInv'
<1> SUFFICES ASSUME HeightInv, [Next]_vars PROVE HeightInv'
  OBVIOUS
<1>1. ASSUME NEW d \in Daemons, DaemonAdvances(d) PROVE HeightInv'
  BY <1>1 DEF DaemonAdvances, heightVars, tmplVars, local, history, HeightInv, NumbersOK, Exclusive,
     InCheck, Resetting
<1>2. CASE UNCHANGED vars
  BY <1>2 DEF vars, HeightInv, NumbersOK, Exclusive, InCheck, Resetting
<1> QED
  BY <1>1, <1>2, CallerSteps, CheckSteps, TemplateSteps DEF Next, Step

\* The invariant holds in every reachable state.
LEMMA HeightAlways == Spec => []HeightInv
BY HeightInit, HeightStep, PTL DEF Spec

\* BlockCheck never lowers the known height, whichever threads run it and
\* whatever heights the daemons report.
THEOREM KnownHeightGrows == Spec => HeightMonotone
<1>1. HeightInv /\ [Next]_vars => [blockHeight' >= blockHeight]_vars
  <2> SUFFICES ASSUME HeightInv, Next PROVE blockHeight' >= blockHeight
    BY DEF vars
  <2>1. ASSUME NEW p \in Procs, WriteHeight(p) PROVE blockHeight' >= blockHeight
    BY <2>1 DEF WriteHeight, At, HeightInv, NumbersOK
  <2>2. CASE UNCHANGED blockHeight
    BY <2>2 DEF HeightInv, NumbersOK
  <2> QED
    BY <2>1, <2>2 DEF Next, Step, Start, BlockCheckStep, TemplateStep, SubmitStep, DaemonAdvances,
       SubmitBlock, BlockAccepted, BlockRefused, SubmitFails, SubmitReturns, BlockCheckTimerExpired,
       LockBlockCheck, QueryInfo, QueryInfoFails, CompareHeight, UnlockBlockCheck,
       BlockNotifyTimerExpired, LockTemplate, QueryTemplate, QueryTemplateFails, CheckTemplate,
       SetTemplate, KeepTemplate, BindTemplate, PostReset, PostRefresh, heightVars
<1> QED
  BY <1>1, HeightAlways, PTL DEF Spec, HeightMonotone

\* BlockCheck resets work at most once for each height, though the timer and
\* every thread that found a block run it.
THEOREM OneReset == Spec => OneResetPerBlock
<1>1. HeightInv => [\A p \in Procs : PostReset(p) => blockHeight > announced]_vars
  BY DEF HeightInv, NumbersOK, PostReset, At, Resetting, TemplatePcs
<1> QED
  BY <1>1, HeightAlways, PTL DEF OneResetPerBlock

-----------------------------------------------------------------------------
(***************************************************************************)
(* AcceptedIsKnown.  A submitter that runs BlockCheck knows the height of  *)
(* its block already, or will still ask a daemon that has reached it.      *)
(***************************************************************************)
CountersOK ==
    idx \in [Procs -> Nat \ {0}] /\ won \in [Procs -> Nat] /\ failed \in [Procs -> BOOLEAN]

\* Daemon d has the block of p, and p has its answer or has yet to ask it.
Ahead(p, d) ==
    /\ height[d] >= won[p]
    /\ \/ d > idx[p]
       \/ d = idx[p] /\ pc[p] = "info"
       \/ d = idx[p] /\ pc[p] \in {"compare", "write"} /\ got[p] >= won[p]

KnownOf(p) ==
    /\ pc[p] = "lock" => idx[p] = 1 /\ \E d \in Daemons : height[d] >= won[p]
    /\ InCheck(p) => failed[p] \/ blockHeight >= won[p] \/ \E d \in Daemons : Ahead(p, d)
    /\ pc[p] = "done" => failed[p] \/ blockHeight >= won[p]

KnownInv == HeightInv /\ CountersOK /\ \A p \in Submitters : KnownOf(p)

\* No thread is in SubmitBlock at startup.
LEMMA KnownInit == Init => KnownInv
<1> SUFFICES ASSUME Init PROVE KnownInv
  OBVIOUS
<1>1. HeightInv
  BY HeightInit
<1>2. CountersOK
  BY DEF Init, CountersOK
<1>3. \A p \in Procs : pc[p] = "idle"
  BY DEF Init
<1>4. ASSUME NEW p \in Submitters PROVE KnownOf(p)
  BY <1>3 DEF KnownOf, InCheck, Resetting, TemplatePcs, Procs
<1> QED
  BY <1>1, <1>2, <1>4 DEF KnownInv

\* Heights only grow: a thread that does not move keeps what it knows.
LEMMA Bystander ==
    ASSUME KnownInv, NEW q \in Submitters, HeightInv', \A d \in Daemons : height'[d] >= height[d],
           blockHeight' >= blockHeight, pc'[q] = pc[q], idx'[q] = idx[q], got'[q] = got[q],
           won'[q] = won[q], failed'[q] = failed[q]
    PROVE  KnownOf(q)'
<1> USE DEF KnownInv, HeightInv, NumbersOK, CountersOK, Procs
<1>1. KnownOf(q) /\ won[q] \in Nat /\ idx[q] \in Nat /\ got[q] \in Nat
  OBVIOUS
<1>2. InCheck(q)' <=> InCheck(q)
  BY DEF InCheck, Resetting
<1>3. \A d \in Daemons : height[d] >= won[q] => height'[d] >= won'[q]
  <2> SUFFICES ASSUME NEW d \in Daemons, height[d] >= won[q] PROVE height'[d] >= won'[q]
    OBVIOUS
  <2>1. height[d] \in Nat /\ height'[d] \in Nat
    OBVIOUS
  <2> QED
    BY <1>1, <2>1
<1>4. \A d \in Daemons : Ahead(q, d) => Ahead(q, d)'
  BY <1>3 DEF Ahead
<1>5. blockHeight >= won[q] => blockHeight' >= won'[q]
  BY <1>1
<1> QED
  BY <1>1, <1>2, <1>3, <1>4, <1>5 DEF KnownOf

\* A step of one thread changes the local variables of that thread only.
LEMMA OneMoves ==
    ASSUME KnownInv, NEW p \in Procs, Step(p) \/ Start(p)
    PROVE  /\ \A q \in Procs : q # p =>
                 /\ pc'[q] = pc[q] /\ idx'[q] = idx[q] /\ got'[q] = got[q]
                 /\ won'[q] = won[q] /\ failed'[q] = failed[q]
           /\ \A d \in Daemons : height'[d] >= height[d]
           /\ blockHeight' >= blockHeight
           /\ CountersOK'
<1> USE DEF KnownInv, HeightInv, NumbersOK, CountersOK
<1>1. CASE BlockAccepted(p)
  BY <1>1 DEF BlockAccepted, Goto, heightVars
<1>2. CASE BlockRefused(p) \/ SubmitFails(p)
  BY <1>2 DEF BlockRefused, SubmitFails, Goto, daemonVars, heightVars, history
<1>8. CASE SubmitReturns(p)
  BY <1>8 DEF SubmitReturns, Goto, daemonVars, heightVars
<1>9. CASE Start(p)
  BY <1>9 DEF Start, SubmitBlock, BlockCheckTimerExpired, BlockNotifyTimerExpired, Goto, daemonVars,
     heightVars, history
<1>4. CASE LockBlockCheck(p)
  BY <1>4 DEF LockBlockCheck, Goto, daemonVars
<1>10. CASE QueryInfo(p)
  BY <1>10 DEF QueryInfo, Goto, daemonVars, heightVars, history
<1>11. CASE QueryInfoFails(p)
  <2>1. PICK b \in BOOLEAN : failed' = [failed EXCEPT ![p] = b]
    <3>1. (p \in Submitters) \in BOOLEAN
      OBVIOUS
    <3> QED
      BY <1>11, <3>1, Zenon DEF QueryInfoFails
  <2> QED
    BY <1>11, <2>1 DEF QueryInfoFails, daemonVars, heightVars
<1>5. CASE CompareHeight(p)
  BY <1>5 DEF CompareHeight, Goto, daemonVars, heightVars, history
<1>6. CASE WriteHeight(p)
  BY <1>6 DEF WriteHeight, At, Goto, daemonVars, history
<1>7. CASE UnlockBlockCheck(p)
  BY <1>7 DEF UnlockBlockCheck, Goto, daemonVars, history
<1>3. CASE TemplateStep(p)
  BY <1>3 DEF TemplateStep, LockTemplate, QueryTemplate, QueryTemplateFails, CheckTemplate, SetTemplate,
     KeepTemplate, BindTemplate, PostReset, PostRefresh, Goto, daemonVars, heightVars, history
<1> QED
  BY <1>1, <1>2, <1>3, <1>4, <1>5, <1>6, <1>7, <1>8, <1>9, <1>10, <1>11
     DEF Step, BlockCheckStep, SubmitStep

\* What a submitter's own steps do to what it knows: SubmitBlock.
LEMMA KnownSubmit ==
    ASSUME KnownInv, NEW p \in Submitters, SubmitStep(p) \/ Start(p)
    PROVE  KnownOf(p)'
<1> USE ProcAssumption DEF KnownInv, HeightInv, NumbersOK, CountersOK, Procs, KnownOf, InCheck, Resetting, TemplatePcs,
        At, Goto, Pcs
<1>1. CASE SubmitBlock(p) \/ SubmitFails(p) \/ SubmitReturns(p)
  BY <1>1 DEF SubmitBlock, SubmitFails, SubmitReturns
<1>2. CASE BlockRefused(p)
  BY <1>2 DEF BlockRefused
<1>3. CASE BlockAccepted(p)
  BY <1>3 DEF BlockAccepted, AcceptedNext
<1> QED
  BY <1>1, <1>2, <1>3 DEF SubmitStep, Start, BlockCheckTimerExpired, BlockNotifyTimerExpired

\* BlockCheck: the daemon that has the block is asked at last, or a query fails.
LEMMA KnownCheck ==
    ASSUME KnownInv, NEW p \in Submitters, BlockCheckStep(p)
    PROVE  KnownOf(p)'
<1> USE ProcAssumption DEF KnownInv, HeightInv, NumbersOK, CountersOK, Procs, At, Goto, Pcs
<1>0. /\ KnownOf(p) /\ won[p] \in Nat /\ idx[p] \in Nat \ {0} /\ got[p] \in Nat
      /\ \A d \in Daemons : height[d] \in Nat /\ d \in Nat \ {0}
  BY DaemonAssumption DEF Daemons
<1>1. CASE LockBlockCheck(p)
  BY <1>0, <1>1 DEF LockBlockCheck, KnownOf, InCheck, Resetting, TemplatePcs, Ahead, daemonVars
<1>2. CASE QueryInfo(p)
  <2>1. \A d \in Daemons : Ahead(p, d) => Ahead(p, d)'
    BY <1>0, <1>2 DEF QueryInfo, Blocks, Ahead, daemonVars, history
  <2> QED
    BY <1>0, <1>2, <2>1 DEF QueryInfo, KnownOf, InCheck, Resetting, TemplatePcs, heightVars, history
<1>3. CASE QueryInfoFails(p)
  <2>1. failed'[p] /\ pc'[p] = "info"
    BY <1>3 DEF QueryInfoFails
  <2> QED
    BY <2>1 DEF KnownOf
<1>4. CASE CompareHeight(p)
  <2>1. CASE Newer(got[p]) /\ Goto(p, "write") /\ UNCHANGED <<idx, got>>
    <3>1. \A d \in Daemons : Ahead(p, d) => Ahead(p, d)'
      BY <1>0, <1>4, <2>1 DEF CompareHeight, Ahead, daemonVars, history
    <3> QED
      BY <1>0, <1>4, <2>1, <3>1
         DEF CompareHeight, KnownOf, InCheck, Resetting, TemplatePcs, heightVars, history
  <2>2. CASE ~Newer(got[p]) /\ idx' = [idx EXCEPT ![p] = @ + 1] /\ Goto(p, "info")
    <3>1. \A d \in Daemons : Ahead(p, d) => Ahead(p, d)' \/ blockHeight >= won[p]
      BY <1>0, <1>4, <2>2 DEF CompareHeight, Newer, Ahead, daemonVars, history
    <3> QED
      BY <1>0, <1>4, <2>2, <3>1
         DEF CompareHeight, KnownOf, InCheck, Resetting, TemplatePcs, heightVars, history
  <2> QED
    BY <1>4, <2>1, <2>2 DEF CompareHeight
<1>5. CASE WriteHeight(p)
  <2>1. \A d \in Daemons : Ahead(p, d) => Ahead(p, d)' \/ blockHeight' >= won[p]
    BY <1>0, <1>5 DEF WriteHeight, Ahead, daemonVars, history
  <2>2. blockHeight >= won[p] => blockHeight' >= won[p]
    BY <1>0, <1>5 DEF WriteHeight
  <2> QED
    BY <1>0, <1>5, <2>1, <2>2 DEF WriteHeight, KnownOf, InCheck, Resetting, TemplatePcs, history
<1>6. CASE UnlockBlockCheck(p)
  <2>1. \A d \in Daemons : ~Ahead(p, d)
    BY <1>0, <1>6, DaemonAssumption DEF UnlockBlockCheck, Ahead, Daemons
  <2> QED
    BY <1>0, <1>6, <2>1 DEF UnlockBlockCheck, KnownOf, InCheck, Resetting, TemplatePcs, history
<1> QED
  BY <1>1, <1>2, <1>3, <1>4, <1>5, <1>6 DEF BlockCheckStep

\* UpdateBlockTemplate and BlockNotifySend, run inside BlockCheck.
LEMMA KnownTemplate ==
    ASSUME KnownInv, NEW p \in Submitters, TemplateStep(p)
    PROVE  KnownOf(p)'
<1> USE ProcAssumption DEF KnownInv, HeightInv, NumbersOK, CountersOK, Procs, At, Goto, Pcs
<1>0. /\ KnownOf(p) /\ won[p] \in Nat /\ idx[p] \in Nat \ {0} /\ p # NotifyTimer
      /\ \A d \in Daemons : height[d] \in Nat /\ d \in Nat \ {0}
  BY DaemonAssumption DEF Daemons
<1>1. pc[p] \in TemplatePcs /\ UNCHANGED <<height, blockHeight, won, failed>>
  BY <1>0 DEF TemplateStep, LockTemplate, QueryTemplate, QueryTemplateFails, CheckTemplate, SetTemplate,
     KeepTemplate, BindTemplate, PostReset, PostRefresh, TemplatePcs, daemonVars, heightVars, history
<1>2. CASE pc'[p] \in TemplatePcs /\ idx' = idx
  <2>1. \A d \in Daemons : Ahead(p, d) => Ahead(p, d)'
    BY <1>0, <1>1, <1>2 DEF Ahead, TemplatePcs
  <2> QED
    BY <1>0, <1>1, <1>2, <2>1 DEF KnownOf, InCheck, Resetting, TemplatePcs
<1>3. CASE pc'[p] = "info" /\ idx'[p] = idx[p] + 1
  <2>1. \A d \in Daemons : Ahead(p, d) => Ahead(p, d)'
    BY <1>0, <1>1, <1>3 DEF Ahead, TemplatePcs
  <2> QED
    BY <1>0, <1>1, <1>3, <2>1 DEF KnownOf, InCheck, Resetting, TemplatePcs
<1> QED
  BY <1>0, <1>2, <1>3 DEF TemplateStep, LockTemplate, QueryTemplate, QueryTemplateFails, CheckTemplate,
     SetTemplate, KeepTemplate, BindTemplate, PostReset, PostRefresh, TemplatePcs

\* Every step keeps what the submitters know.
LEMMA KnownStep == KnownInv /\ [Next]_vars => KnownInv'
<1> SUFFICES ASSUME KnownInv, [Next]_vars PROVE KnownInv'
  OBVIOUS
<1>0. HeightInv'
  BY HeightStep DEF KnownInv
<1>1. ASSUME NEW d \in Daemons, DaemonAdvances(d) PROVE KnownInv'
  <2>1. \A e \in Daemons : height'[e] >= height[e]
    BY <1>1 DEF DaemonAdvances, KnownInv, HeightInv, NumbersOK
  <2>2. UNCHANGED <<blockHeight, pc, idx, got, won, failed>> /\ blockHeight' >= blockHeight
    BY <1>1 DEF DaemonAdvances, heightVars, local, history, KnownInv, HeightInv, NumbersOK
  <2>3. \A q \in Submitters : KnownOf(q)'
    BY <1>0, <2>1, <2>2, Bystander
  <2> QED
    BY <1>0, <2>2, <2>3 DEF KnownInv, CountersOK
<1>2. ASSUME NEW p \in Procs, Step(p) \/ Start(p) PROVE KnownInv'
  <2>1. \A q \in Submitters : q # p => KnownOf(q)'
    BY <1>0, <1>2, OneMoves, Bystander DEF Procs
  <2>2. p \in Submitters => KnownOf(p)'
    BY <1>2, KnownSubmit, KnownCheck, KnownTemplate DEF Step
  <2> QED
    BY <1>0, <1>2, <2>1, <2>2, OneMoves DEF KnownInv
<1>3. CASE UNCHANGED vars
  BY <1>0, <1>3 DEF vars, KnownInv, CountersOK, KnownOf, InCheck, Resetting, Ahead
<1> QED
  BY <1>1, <1>2, <1>3 DEF Next

\* When SubmitBlock reports an accepted block, its height is the known one at
\* least, or a query of its BlockCheck failed: for any number of daemons that lag
\* behind one another, of submitters and of timers beside them.
THEOREM AcceptedBlocksKnown == Spec => []AcceptedIsKnown
<1>1. KnownInv => AcceptedIsKnown
  BY DEF KnownInv, KnownOf, AcceptedIsKnown, At
<1> QED
  BY <1>1, KnownInit, KnownStep, PTL DEF Spec

=============================================================================
