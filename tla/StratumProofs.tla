---------------------------- MODULE StratumProofs ----------------------------
(***************************************************************************)
(* Theorems about Stratum, for any number of clients, threads, workers and *)
(* shares and any bounds.                                                  *)
(***************************************************************************)
EXTENDS Stratum, TLAPS

\* A fresh frame is a frame.
LEMMA FrameType ==
    ASSUME NEW pc \in Pcs, NEW c \in Conns \cup {None}, NEW b \in BOOLEAN, NEW r \in Rets
    PROVE  Frame(pc, c, b, r) \in Frames
BY DEF Frame, Frames

\* The frames of the other threads are not touched when one thread moves on.
LEMMA GotoPreserves ==
    ASSUME run \in [Threads -> Frames], FramesOK,
           NEW t \in Threads, NEW f \in Frames, FrameOK(f), Goto(t, f)
    PROVE  run' \in [Threads -> Frames] /\ FramesOK'
BY DEF Goto, FramesOK

\* A receive handler between two messages is in a good frame.
LEMMA RecvFrameOK ==
    ASSUME NEW c \in Conns
    PROVE  RecvFrame(c) \in Frames /\ FrameOK(RecvFrame(c))
BY DEF RecvFrame, Frame, Frames, FrameOK, Pcs, Rets, SubmitPcs, SendPcs, NetPcs

\* An idle thread is in a good frame.
LEMMA IdleFrameOK == IdleFrame \in Frames /\ FrameOK(IdleFrame)
BY DEF IdleFrame, Frame, Frames, FrameOK, Pcs, Rets, SubmitPcs, SendPcs, NetPcs

\* TypeOK is not inductive: a step reads fields of its frame that only the
\* steps before it have set.
TypeInv == TypeOK /\ FramesOK

\* Initially the types and the frames are right.
LEMMA InitTypeInv == Init => TypeInv
<1> SUFFICES ASSUME Init PROVE TypeInv
    OBVIOUS
<1> USE DEF Init
<1>1. ServerOK
    BY WidthAssumption DEF ServerOK
<1>2. ConnOK /\ JobOK
    BY DEF ConnOK, JobOK
<1>3. NetOK
    BY BoundAssumption DEF NetOK
<1>4. CreditsOK
    BY DEF CreditsOK
<1>5. run \in [Threads -> Frames] /\ FramesOK
    BY IdleFrameOK DEF FramesOK
<1>6. QED
    BY <1>1, <1>2, <1>3, <1>4, <1>5, BoundAssumption DEF TypeInv, TypeOK

\* The frame of every thread is a good one.
LEMMA CurrentFrame ==
    ASSUME TypeInv, NEW t \in Threads
    PROVE  run[t] \in Frames /\ FrameOK(run[t])
BY DEF TypeInv, TypeOK, FramesOK

\* A step that only moves one thread to a good frame.
LEMMA MovesThread ==
    ASSUME TypeInv, NEW t \in Threads, NEW f \in Frames, FrameOK(f), Goto(t, f),
           UNCHANGED <<serverVars, connVars, jobVars, netVars, credits, retargets>>
    PROVE  TypeInv'
<1>1. run' \in [Threads -> Frames] /\ FramesOK'
    BY GotoPreserves DEF TypeInv, TypeOK
<1>2. QED
    BY <1>1 DEF TypeInv, TypeOK, ServerOK, ConnOK, JobOK, NetOK, CreditsOK,
                serverVars, connVars, jobVars, netVars

\* OnAccept keeps the types and the frames.
LEMMA OnAcceptType ==
    ASSUME TypeInv, NEW t \in Threads, NEW c \in Conns, OnAccept(t, c)
    PROVE  TypeInv'
<1> USE DEF TypeInv, TypeOK
<1>1. ServerOK' /\ ConnOK'
    BY DEF OnAccept, Disconnect, StartRead, ServerOK, ConnOK
<1>2. JobOK' /\ NetOK' /\ CreditsOK' /\ (retargets \in 0..MaxRetargets)'
    BY DEF OnAccept, jobVars, netVars, JobOK, NetOK, CreditsOK
<1>3. run' \in [Threads -> Frames] /\ FramesOK'
    <2>1. CASE UNCHANGED run
        BY <2>1 DEF FramesOK
    <2>2. CASE Goto(t, Frame("insert", c, FALSE, "idle"))
        <3>1. /\ Frame("insert", c, FALSE, "idle") \in Frames
              /\ FrameOK(Frame("insert", c, FALSE, "idle"))
            BY DEF Frame, Frames, FrameOK, Pcs, Rets, SubmitPcs, SendPcs, NetPcs
        <3>2. QED
            BY <2>2, <3>1, GotoPreserves
    <2>3. QED
        BY <2>1, <2>2 DEF OnAccept
<1>4. QED
    BY <1>1, <1>2, <1>3

\* PutJob keeps the types and the frames.
LEMMA PutJobType ==
    ASSUME TypeInv, NEW t \in Threads, PutJob(t)
    PROVE  TypeInv'
<1> USE DEF TypeInv, TypeOK
<1>1. run[t] \in Frames /\ FrameOK(run[t]) /\ run[t].conn \in Conns
    BY CurrentFrame DEF PutJob, At, FrameOK, SendPcs
<1>2. ServerOK' /\ ConnOK' /\ NetOK' /\ CreditsOK' /\ (retargets \in 0..MaxRetargets)'
    BY DEF PutJob, serverVars, connVars, netVars, ServerOK, ConnOK, NetOK, CreditsOK
<1>3. JobOK'
    BY <1>1 DEF PutJob, JobOK, Frames
<1>4. Resume(run[t]) \in Frames /\ FrameOK(Resume(run[t]))
    <2>1. CASE run[t].ret = "idle"
        BY <2>1, IdleFrameOK DEF Resume
    <2>2. CASE run[t].ret = "dedupe"
        <3>1. /\ [run[t] EXCEPT !.pc = "dedupe", !.ret = "recv", !.newJob = 0, !.newWork = 0] \in Frames
              /\ FrameOK([run[t] EXCEPT !.pc = "dedupe", !.ret = "recv", !.newJob = 0, !.newWork = 0])
            BY <1>1, <2>2 DEF Frames, FrameOK, Pcs, Rets, SubmitPcs, SendPcs, NetPcs
        <3>2. QED
            BY <2>2, <3>1 DEF Resume
    <2>3. CASE run[t].ret \notin {"idle", "dedupe"}
        BY <1>1, <2>3, RecvFrameOK DEF Resume
    <2>4. QED
        BY <2>1, <2>2, <2>3
<1>5. QED
    BY <1>2, <1>3, <1>4, GotoPreserves DEF PutJob

\* InsertClient keeps the types and the frames.
LEMMA InsertClientType ==
    ASSUME TypeInv, NEW t \in Threads, InsertClient(t)
    PROVE  TypeInv'
<1> USE DEF TypeInv, TypeOK
<1>1. run[t] \in Frames /\ FrameOK(run[t])
    BY CurrentFrame
<1>2. ServerOK'
    BY <1>1 DEF InsertClient, At, FrameOK, ServerOK
<1>3. ConnOK' /\ JobOK' /\ NetOK' /\ CreditsOK' /\ (retargets \in 0..MaxRetargets)'
    BY DEF InsertClient, ConnOK, JobOK, NetOK, CreditsOK, serverVars, connVars, jobVars, netVars
<1>4. IdleFrame \in Frames /\ FrameOK(IdleFrame)
    BY <1>1, IdleFrameOK DEF InsertClient, At, Frames, FrameOK, Pcs, Rets, SubmitPcs, SendPcs, NetPcs
<1>5. run' \in [Threads -> Frames] /\ FramesOK'
    BY <1>4, GotoPreserves DEF InsertClient, Step
<1>6. QED
    BY <1>2, <1>3, <1>5

\* BanExpires keeps the types and the frames.
LEMMA BanExpiresType ==
    ASSUME TypeInv, NEW ip \in IPs, BanExpires(ip)
    PROVE  TypeInv'
BY DEF BanExpires, TypeInv, TypeOK, FramesOK, ServerOK, ConnOK, JobOK, NetOK, CreditsOK,
       connVars, jobVars, netVars

\* Destroy keeps the types and the frames.
LEMMA DestroyType ==
    ASSUME TypeInv, NEW c \in Conns, Destroy(c)
    PROVE  TypeInv'
<1> USE DEF TypeInv, TypeOK
<1>1. ConnOK'
    BY DEF Destroy, At, ConnOK
<1>2. JobOK'
    BY DEF Destroy, At, CleanJobs, JobOK
<1>3. ServerOK' /\ NetOK' /\ CreditsOK' /\ (retargets \in 0..MaxRetargets)'
    BY DEF Destroy, ServerOK, NetOK, CreditsOK, serverVars, connVars, jobVars, netVars
<1>4. run' \in [Threads -> Frames] /\ FramesOK'
    BY DEF Destroy, FramesOK
<1>5. QED
    BY <1>1, <1>2, <1>3, <1>4

\* Receive keeps the types and the frames.
LEMMA ReceiveType ==
    ASSUME TypeInv, NEW t \in Threads, NEW c \in Conns, Receive(t, c)
    PROVE  TypeInv'
<1> USE DEF TypeInv, TypeOK
<1>1. run[t] \in Frames /\ FrameOK(run[t])
    BY CurrentFrame
<1>2. ConnOK'
    BY <1>1 DEF Receive, At, ConnOK
<1>3. ServerOK' /\ JobOK' /\ NetOK' /\ CreditsOK' /\ (retargets \in 0..MaxRetargets)'
    BY DEF Receive, ServerOK, JobOK, NetOK, CreditsOK, serverVars, connVars, jobVars, netVars
<1>4. RecvFrame(c) \in Frames /\ FrameOK(RecvFrame(c))
    BY <1>1, RecvFrameOK DEF Receive, At, Frames, FrameOK, Pcs, Rets, SubmitPcs, SendPcs, NetPcs
<1>5. run' \in [Threads -> Frames] /\ FramesOK'
    BY <1>4, GotoPreserves DEF Receive, Step
<1>6. QED
    BY <1>2, <1>3, <1>5

\* ReceiveError keeps the types and the frames.
LEMMA ReceiveErrorType ==
    ASSUME TypeInv, NEW t \in Threads, NEW c \in Conns, ReceiveError(t, c)
    PROVE  TypeInv'
<1> USE DEF TypeInv, TypeOK
<1>1. run[t] \in Frames /\ FrameOK(run[t])
    BY CurrentFrame
<1>2. ServerOK'
    BY <1>1 DEF ReceiveError, At, Disconnect, ServerOK
<1>3. ConnOK'
    BY <1>1 DEF ReceiveError, At, Disconnect, ConnOK
<1>4. JobOK' /\ NetOK' /\ CreditsOK' /\ (retargets \in 0..MaxRetargets)'
    BY DEF ReceiveError, JobOK, NetOK, CreditsOK, serverVars, connVars, jobVars, netVars
<1>5. run' \in [Threads -> Frames] /\ FramesOK'
    BY DEF ReceiveError, FramesOK
<1>6. QED
    BY <1>2, <1>3, <1>4, <1>5

\* OnSend keeps the types and the frames.
LEMMA OnSendType ==
    ASSUME TypeInv, NEW t \in Threads, NEW c \in Conns, OnSend(t, c)
    PROVE  TypeInv'
<1> USE DEF TypeInv, TypeOK
<1>1. run[t] \in Frames /\ FrameOK(run[t])
    BY CurrentFrame
<1>2. ServerOK'
    BY <1>1 DEF OnSend, At, Disconnect, ServerOK
<1>3. ConnOK'
    BY <1>1 DEF OnSend, At, Disconnect, ConnOK
<1>4. JobOK' /\ NetOK' /\ CreditsOK' /\ (retargets \in 0..MaxRetargets)'
    BY DEF OnSend, JobOK, NetOK, CreditsOK, serverVars, connVars, jobVars, netVars
<1>5. run' \in [Threads -> Frames] /\ FramesOK'
    BY DEF OnSend, FramesOK
<1>6. QED
    BY <1>2, <1>3, <1>4, <1>5

\* EndReceive keeps the types and the frames.
LEMMA EndReceiveType ==
    ASSUME TypeInv, NEW t \in Threads, EndReceive(t)
    PROVE  TypeInv'
<1> USE DEF TypeInv, TypeOK
<1>1. run[t] \in Frames /\ FrameOK(run[t])
    BY CurrentFrame
<1>2. ServerOK'
    BY <1>1 DEF EndReceive, At, Disconnect, FrameOK, ServerOK
<1>3. ConnOK'
    BY <1>1 DEF EndReceive, At, Disconnect, StartRead, FrameOK, ConnOK
<1>4. JobOK' /\ NetOK' /\ CreditsOK' /\ (retargets \in 0..MaxRetargets)'
    BY DEF EndReceive, JobOK, NetOK, CreditsOK, serverVars, connVars, jobVars, netVars
<1>5. IdleFrame \in Frames /\ FrameOK(IdleFrame)
    BY <1>1, IdleFrameOK DEF EndReceive, At, Frames, FrameOK, Pcs, Rets, SubmitPcs, SendPcs, NetPcs
<1>6. run' \in [Threads -> Frames] /\ FramesOK'
    BY <1>5, GotoPreserves DEF EndReceive, Step
<1>7. QED
    BY <1>2, <1>3, <1>4, <1>6

\* OnMiningSubscribe keeps the types and the frames.
LEMMA OnMiningSubscribeType ==
    ASSUME TypeInv, NEW t \in Threads, OnMiningSubscribe(t)
    PROVE  TypeInv'
<1> USE DEF TypeInv, TypeOK
<1>1. run[t] \in Frames /\ FrameOK(run[t])
    BY CurrentFrame
<1>2. ServerOK'
    BY <1>1, WidthAssumption DEF OnMiningSubscribe, At, NextExtranonce, ServerOK
<1>3. ConnOK'
    BY <1>1 DEF OnMiningSubscribe, At, FrameOK, ServerOK, ConnOK
<1>4. JobOK' /\ NetOK' /\ CreditsOK' /\ (retargets \in 0..MaxRetargets)'
    BY DEF OnMiningSubscribe, JobOK, NetOK, CreditsOK, serverVars, connVars, jobVars, netVars
<1>5. Frame("getwork", run[t].conn, FALSE, "recv") \in Frames
      /\ FrameOK(Frame("getwork", run[t].conn, FALSE, "recv"))
    BY <1>1 DEF OnMiningSubscribe, At, Frame, Frames, FrameOK, Pcs, Rets, SubmitPcs, SendPcs, NetPcs
<1>6. run' \in [Threads -> Frames] /\ FramesOK'
    BY <1>5, GotoPreserves DEF OnMiningSubscribe, Step
<1>7. QED
    BY <1>2, <1>3, <1>4, <1>6

\* OnMiningAuthorize keeps the types and the frames.
LEMMA OnMiningAuthorizeType ==
    ASSUME TypeInv, NEW t \in Threads, OnMiningAuthorize(t)
    PROVE  TypeInv'
<1> USE DEF TypeInv, TypeOK
<1>1. run[t] \in Frames /\ FrameOK(run[t])
    BY CurrentFrame
<1>2. ConnOK'
    BY <1>1 DEF OnMiningAuthorize, At, FrameOK, ConnOK
<1>3. ServerOK' /\ JobOK' /\ NetOK' /\ CreditsOK' /\ (retargets \in 0..MaxRetargets)'
    BY DEF OnMiningAuthorize, ServerOK, JobOK, NetOK, CreditsOK, serverVars, connVars, jobVars, netVars
<1>4. run' \in [Threads -> Frames] /\ FramesOK'
    BY DEF OnMiningAuthorize, FramesOK
<1>5. QED
    BY <1>2, <1>3, <1>4

\* OnMiningSubmit keeps the types and the frames.
LEMMA OnMiningSubmitType ==
    ASSUME TypeInv, NEW t \in Threads, OnMiningSubmit(t)
    PROVE  TypeInv'
<1> DEFINE c == run[t].conn
           g(j, s) == [RecvFrame(c) EXCEPT !.pc = "limit", !.job = j.id, !.share = s, !.work = j.work]
<1>1. c \in Conns
    BY CurrentFrame DEF OnMiningSubmit, At, FrameOK
<1>2. CASE UNCHANGED run
    BY <1>2 DEF OnMiningSubmit, TypeInv, TypeOK, FramesOK, ServerOK, ConnOK, JobOK, NetOK,
                CreditsOK, serverVars, connVars, jobVars, netVars
<1>3. CASE \E j \in jobs[c], s \in Shares : Goto(t, g(j, s))
    <2>1. PICK j \in jobs[c], s \in Shares : Goto(t, g(j, s))
        BY <1>3
    <2>2. j.id \in Nat /\ j.work \in Nat
        BY <1>1 DEF TypeInv, TypeOK, JobOK
    <2>3. g(j, s) \in Frames /\ FrameOK(g(j, s))
        BY <1>1, <2>2 DEF RecvFrame, Frame, Frames, FrameOK, Pcs, Rets, SubmitPcs, SendPcs, NetPcs
    <2> HIDE DEF g
    <2>4. QED
        BY <2>1, <2>3, MovesThread DEF OnMiningSubmit
<1>4. QED
    BY <1>2, <1>3 DEF OnMiningSubmit

\* LimiterPass keeps the types and the frames.
LEMMA LimiterPassType ==
    ASSUME TypeInv, NEW t \in Threads, LimiterPass(t)
    PROVE  TypeInv'
<1>1. run[t] \in Frames /\ FrameOK(run[t])
    BY CurrentFrame
<1>2. [run[t] EXCEPT !.pc = "dedupe"] \in Frames /\ FrameOK([run[t] EXCEPT !.pc = "dedupe"])
    BY <1>1 DEF LimiterPass, At, Frames, FrameOK, Pcs, Rets, SubmitPcs, SendPcs, NetPcs
<1>3. QED
    BY <1>2, MovesThread DEF LimiterPass, Step

\* LimiterRetarget keeps the types and the frames.
LEMMA LimiterRetargetType ==
    ASSUME TypeInv, NEW t \in Threads, LimiterRetarget(t)
    PROVE  TypeInv'
<1> USE DEF TypeInv, TypeOK
<1>1. run[t] \in Frames /\ FrameOK(run[t])
    BY CurrentFrame
<1>2. (retargets \in 0..MaxRetargets)'
    BY BoundAssumption DEF LimiterRetarget
<1>3. ServerOK' /\ ConnOK' /\ JobOK' /\ NetOK' /\ CreditsOK'
    BY DEF LimiterRetarget, ServerOK, ConnOK, JobOK, NetOK, CreditsOK, serverVars, connVars, jobVars, netVars
<1>4. [run[t] EXCEPT !.pc = "getwork", !.ret = "dedupe"] \in Frames
      /\ FrameOK([run[t] EXCEPT !.pc = "getwork", !.ret = "dedupe"])
    BY <1>1 DEF LimiterRetarget, At, Frames, FrameOK, Pcs, Rets, SubmitPcs, SendPcs, NetPcs
<1>5. run' \in [Threads -> Frames] /\ FramesOK'
    BY <1>4, GotoPreserves DEF LimiterRetarget, Step
<1>6. QED
    BY <1>2, <1>3, <1>5

\* LimiterDiscard keeps the types and the frames.
LEMMA LimiterDiscardType ==
    ASSUME TypeInv, NEW t \in Threads, LimiterDiscard(t)
    PROVE  TypeInv'
<1> USE DEF TypeInv, TypeOK
<1>1. run[t] \in Frames /\ FrameOK(run[t])
    BY CurrentFrame
<1>2. (retargets \in 0..MaxRetargets)'
    BY BoundAssumption DEF LimiterDiscard
<1>3. ServerOK' /\ ConnOK' /\ JobOK' /\ NetOK' /\ CreditsOK'
    BY DEF LimiterDiscard, ServerOK, ConnOK, JobOK, NetOK, CreditsOK, serverVars, connVars, jobVars, netVars
<1>4. Discard(run[t]) \in Frames /\ FrameOK(Discard(run[t]))
    BY <1>1 DEF LimiterDiscard, At, Discard, Frame, Frames, FrameOK, Pcs, Rets, SubmitPcs, SendPcs, NetPcs
<1>5. run' \in [Threads -> Frames] /\ FramesOK'
    BY <1>4, GotoPreserves DEF LimiterDiscard, Step
<1>6. QED
    BY <1>2, <1>3, <1>5

\* LimiterBan keeps the types and the frames.
LEMMA LimiterBanType ==
    ASSUME TypeInv, NEW t \in Threads, LimiterBan(t)
    PROVE  TypeInv'
<1> USE DEF TypeInv, TypeOK
<1>1. run[t] \in Frames /\ FrameOK(run[t])
    BY CurrentFrame
<1>2. ServerOK'
    BY <1>1, ConnAssumption DEF LimiterBan, At, Disconnect, FrameOK, SubmitPcs, ServerOK
<1>3. ConnOK'
    BY <1>1 DEF LimiterBan, At, Disconnect, FrameOK, SubmitPcs, ConnOK
<1>4. JobOK' /\ NetOK' /\ CreditsOK' /\ (retargets \in 0..MaxRetargets)'
    BY DEF LimiterBan, JobOK, NetOK, CreditsOK, serverVars, connVars, jobVars, netVars
<1>5. RecvFrame(run[t].conn) \in Frames /\ FrameOK(RecvFrame(run[t].conn))
    BY <1>1, RecvFrameOK DEF LimiterBan, At, Frames, FrameOK, Pcs, Rets, SubmitPcs, SendPcs, NetPcs
<1>6. run' \in [Threads -> Frames] /\ FramesOK'
    BY <1>5, GotoPreserves DEF LimiterBan, Step
<1>7. QED
    BY <1>2, <1>3, <1>4, <1>6

\* WrongSize keeps the types and the frames.
LEMMA WrongSizeType ==
    ASSUME TypeInv, NEW t \in Threads, WrongSize(t)
    PROVE  TypeInv'
<1>1. run[t] \in Frames /\ FrameOK(run[t])
    BY CurrentFrame
<1>2. RecvFrame(run[t].conn) \in Frames /\ FrameOK(RecvFrame(run[t].conn))
    BY <1>1, RecvFrameOK DEF WrongSize, At, Frames, FrameOK, Pcs, Rets, SubmitPcs, SendPcs, NetPcs
<1>3. QED
    BY <1>2, MovesThread DEF WrongSize, Step

\* SubmitShare keeps the types and the frames.
LEMMA SubmitShareType ==
    ASSUME TypeInv, NEW t \in Threads, SubmitShare(t)
    PROVE  TypeInv'
<1> USE DEF TypeInv, TypeOK
<1>1. run[t] \in Frames /\ FrameOK(run[t])
    BY CurrentFrame
<1>2. JobOK'
    BY <1>1 DEF SubmitShare, At, RecordShare, Frames, FrameOK, SubmitPcs, JobOK
<1>3. ServerOK' /\ ConnOK' /\ NetOK' /\ CreditsOK' /\ (retargets \in 0..MaxRetargets)'
    BY DEF SubmitShare, ServerOK, ConnOK, NetOK, CreditsOK, serverVars, connVars, jobVars, netVars
<1>4. RecvFrame(run[t].conn) \in Frames /\ FrameOK(RecvFrame(run[t].conn))
    BY <1>1, RecvFrameOK DEF SubmitShare, At, Frames, FrameOK, Pcs, Rets, SubmitPcs, SendPcs, NetPcs
<1>5. [run[t] EXCEPT !.pc = "eval"] \in Frames /\ FrameOK([run[t] EXCEPT !.pc = "eval"])
    BY <1>1 DEF SubmitShare, At, Frames, FrameOK, Pcs, Rets, SubmitPcs, SendPcs, NetPcs
<1>6. run' \in [Threads -> Frames] /\ FramesOK'
    BY <1>4, <1>5, GotoPreserves DEF SubmitShare, Step
<1>7. QED
    BY <1>2, <1>3, <1>6

\* EvaluateShare keeps the types and the frames.
LEMMA EvaluateShareType ==
    ASSUME TypeInv, NEW t \in Threads, EvaluateShare(t)
    PROVE  TypeInv'
<1> USE DEF TypeInv, TypeOK
<1>1. run[t] \in Frames /\ FrameOK(run[t])
    BY CurrentFrame
<1>2. CreditsOK'
    BY <1>1 DEF EvaluateShare, At, CreditOf, Pay, Copies, Credits, ConnOK, Frames, FrameOK,
       SubmitPcs, CreditsOK
<1>3. ServerOK' /\ ConnOK' /\ JobOK' /\ NetOK' /\ (retargets \in 0..MaxRetargets)'
    BY DEF EvaluateShare, ServerOK, ConnOK, JobOK, NetOK, serverVars, connVars, jobVars, netVars
<1>4. RecvFrame(run[t].conn) \in Frames /\ FrameOK(RecvFrame(run[t].conn))
    BY <1>1, RecvFrameOK DEF EvaluateShare, At, Frames, FrameOK, Pcs, Rets, SubmitPcs, SendPcs, NetPcs
<1>5. [run[t] EXCEPT !.pc = "found"] \in Frames /\ FrameOK([run[t] EXCEPT !.pc = "found"])
    BY <1>1 DEF EvaluateShare, At, Frames, FrameOK, Pcs, Rets, SubmitPcs, SendPcs, NetPcs
<1>6. run' \in [Threads -> Frames] /\ FramesOK'
    BY <1>4, <1>5, GotoPreserves DEF EvaluateShare, Step
<1>7. QED
    BY <1>2, <1>3, <1>6

\* SubmitBlock keeps the types and the frames.
LEMMA SubmitBlockType ==
    ASSUME TypeInv, NEW t \in Threads, SubmitBlock(t)
    PROVE  TypeInv'
<1>1. run[t] \in Frames /\ FrameOK(run[t])
    BY CurrentFrame
<1>2. RecvFrame(run[t].conn) \in Frames /\ FrameOK(RecvFrame(run[t].conn))
    BY <1>1, RecvFrameOK DEF SubmitBlock, At, Frames, FrameOK, Pcs, Rets, SubmitPcs, SendPcs, NetPcs
<1>3. [run[t] EXCEPT !.pc = "check", !.ret = "credit"] \in Frames
      /\ FrameOK([run[t] EXCEPT !.pc = "check", !.ret = "credit"])
    BY <1>1 DEF SubmitBlock, At, Frames, FrameOK, Pcs, Rets, SubmitPcs, SendPcs, NetPcs
<1>4. QED
    BY <1>2, <1>3, MovesThread DEF SubmitBlock, Step

\* CreditBlock keeps the types and the frames.
LEMMA CreditBlockType ==
    ASSUME TypeInv, NEW t \in Threads, CreditBlock(t)
    PROVE  TypeInv'
<1> USE DEF TypeInv, TypeOK
<1>1. run[t] \in Frames /\ FrameOK(run[t])
    BY CurrentFrame
<1>2. CreditsOK'
    BY <1>1 DEF CreditBlock, At, CreditOf, Pay, Copies, Credits, ConnOK, Frames, FrameOK, SubmitPcs, CreditsOK
<1>3. ServerOK' /\ ConnOK' /\ JobOK' /\ NetOK' /\ (retargets \in 0..MaxRetargets)'
    BY DEF CreditBlock, ServerOK, ConnOK, JobOK, NetOK, serverVars, connVars, jobVars, netVars
<1>4. RecvFrame(run[t].conn) \in Frames /\ FrameOK(RecvFrame(run[t].conn))
    BY <1>1, RecvFrameOK DEF CreditBlock, At, Frames, FrameOK, Pcs, Rets, SubmitPcs, SendPcs, NetPcs
<1>5. run' \in [Threads -> Frames] /\ FramesOK'
    BY <1>4, GotoPreserves DEF CreditBlock, Step
<1>6. QED
    BY <1>2, <1>3, <1>5

\* SendJobClean keeps the types and the frames.
LEMMA SendJobCleanType ==
    ASSUME TypeInv, NEW t \in Threads, SendJobClean(t)
    PROVE  TypeInv'
<1> USE DEF TypeInv, TypeOK
<1>1. run[t] \in Frames /\ FrameOK(run[t])
    BY CurrentFrame
<1>2. JobOK'
    BY <1>1 DEF SendJobClean, At, CleanJobs, FrameOK, SendPcs, JobOK
<1>3. ServerOK' /\ ConnOK' /\ NetOK' /\ CreditsOK' /\ (retargets \in 0..MaxRetargets)'
    BY DEF SendJobClean, ServerOK, ConnOK, NetOK, CreditsOK, serverVars, connVars, jobVars, netVars
<1>4. [run[t] EXCEPT !.pc = "getwork"] \in Frames /\ FrameOK([run[t] EXCEPT !.pc = "getwork"])
    BY <1>1 DEF SendJobClean, At, Frames, FrameOK, Pcs, Rets, SubmitPcs, SendPcs, NetPcs
<1>5. run' \in [Threads -> Frames] /\ FramesOK'
    BY <1>4, GotoPreserves DEF SendJobClean, Step
<1>6. QED
    BY <1>2, <1>3, <1>5

\* GetJob keeps the types and the frames.
LEMMA GetJobType ==
    ASSUME TypeInv, NEW t \in Threads, GetJob(t)
    PROVE  TypeInv'
<1>1. run[t] \in Frames /\ FrameOK(run[t])
    BY CurrentFrame
<1>2. [run[t] EXCEPT !.pc = "takeid", !.newWork = currentWork] \in Frames
      /\ FrameOK([run[t] EXCEPT !.pc = "takeid", !.newWork = currentWork])
    BY <1>1 DEF GetJob, At, TypeInv, TypeOK, ServerOK, Frames, FrameOK, Pcs, Rets, SubmitPcs, SendPcs, NetPcs
<1>3. QED
    BY <1>2, MovesThread DEF GetJob, Step

\* TakeJobId keeps the types and the frames.
LEMMA TakeJobIdType ==
    ASSUME TypeInv, NEW t \in Threads, TakeJobId(t)
    PROVE  TypeInv'
<1>1. run[t] \in Frames /\ FrameOK(run[t])
    BY CurrentFrame
<1>2. [run[t] EXCEPT !.pc = "putjob", !.newJob = nextJob[run[t].conn]] \in Frames
      /\ FrameOK([run[t] EXCEPT !.pc = "putjob", !.newJob = nextJob[run[t].conn]])
    BY <1>1 DEF TakeJobId, At, TypeInv, TypeOK, JobOK, Frames, FrameOK, Pcs, Rets, SubmitPcs, SendPcs, NetPcs
<1>3. QED
    BY <1>2, MovesThread DEF TakeJobId, Step

\* BlockCheckTimer keeps the types and the frames.
LEMMA BlockCheckTimerType ==
    ASSUME TypeInv, NEW t \in Threads, BlockCheckTimer(t)
    PROVE  TypeInv'
<1>1. run[t] \in Frames /\ FrameOK(run[t])
    BY CurrentFrame
<1>2. Frame("check", None, FALSE, "idle") \in Frames /\ FrameOK(Frame("check", None, FALSE, "idle"))
    BY <1>1 DEF BlockCheckTimer, At, Frame, Frames, FrameOK, Pcs, Rets, SubmitPcs, SendPcs, NetPcs
<1>3. QED
    BY <1>2, MovesThread DEF BlockCheckTimer, Step

\* BlockCheckNewBlock keeps the types and the frames.
LEMMA BlockCheckNewBlockType ==
    ASSUME TypeInv, NEW t \in Threads, BlockCheckNewBlock(t)
    PROVE  TypeInv'
<1> USE DEF TypeInv, TypeOK
<1>1. run[t] \in Frames /\ FrameOK(run[t])
    BY CurrentFrame
<1>2. NetOK'
    BY <1>1, BoundAssumption DEF BlockCheckNewBlock, At, FetchTemplate, NetOK
<1>3. ServerOK' /\ ConnOK' /\ JobOK' /\ CreditsOK' /\ (retargets \in 0..MaxRetargets)'
    BY DEF BlockCheckNewBlock, ServerOK, ConnOK, JobOK, CreditsOK, serverVars, connVars, jobVars, netVars
<1>4. [run[t] EXCEPT !.pc = "bind", !.flag = TRUE] \in Frames
      /\ FrameOK([run[t] EXCEPT !.pc = "bind", !.flag = TRUE])
    BY <1>1 DEF BlockCheckNewBlock, At, Frames, FrameOK, Pcs, Rets, SubmitPcs, SendPcs, NetPcs
<1>5. run' \in [Threads -> Frames] /\ FramesOK'
    BY <1>4, GotoPreserves DEF BlockCheckNewBlock, Step
<1>6. QED
    BY <1>2, <1>3, <1>5

\* BlockCheckDone keeps the types and the frames.
LEMMA BlockCheckDoneType ==
    ASSUME TypeInv, NEW t \in Threads, BlockCheckDone(t)
    PROVE  TypeInv'
<1> DEFINE f == [run[t] EXCEPT !.pc = "credit", !.ret = "recv"]
<1>1. run[t] \in Frames /\ FrameOK(run[t]) /\ run[t].pc = "check"
    BY CurrentFrame DEF BlockCheckDone, At
<1>2. CASE run[t].ret = "idle"
    BY <1>2, IdleFrameOK, MovesThread DEF BlockCheckDone
<1>3. CASE run[t].ret # "idle"
    <2>1. run[t].ret = "credit"
        BY <1>1, <1>3 DEF FrameOK
    <2>2. f \in Frames /\ FrameOK(f)
        BY <1>1, <2>1 DEF Frames, FrameOK, Pcs, Rets, SubmitPcs, SendPcs, NetPcs
    <2>3. QED
        BY <1>3, <2>2, MovesThread DEF BlockCheckDone
<1>4. QED
    BY <1>2, <1>3

\* BlockNotifyTimer keeps the types and the frames.
LEMMA BlockNotifyTimerType ==
    ASSUME TypeInv, NEW t \in Threads, BlockNotifyTimer(t)
    PROVE  TypeInv'
<1> USE DEF TypeInv, TypeOK
<1>1. run[t] \in Frames /\ FrameOK(run[t])
    BY CurrentFrame
<1>2. NetOK'
    BY <1>1, BoundAssumption DEF BlockNotifyTimer, At, FetchTemplate, NetOK
<1>3. ServerOK' /\ ConnOK' /\ JobOK' /\ CreditsOK' /\ (retargets \in 0..MaxRetargets)'
    BY DEF BlockNotifyTimer, ServerOK, ConnOK, JobOK, CreditsOK, serverVars, connVars, jobVars, netVars
<1>4. Frame("bind", None, FALSE, "idle") \in Frames /\ FrameOK(Frame("bind", None, FALSE, "idle"))
    BY <1>1 DEF BlockNotifyTimer, At, Frame, Frames, FrameOK, Pcs, Rets, SubmitPcs, SendPcs, NetPcs
<1>5. run' \in [Threads -> Frames] /\ FramesOK'
    BY <1>4, GotoPreserves DEF BlockNotifyTimer, Step
<1>6. QED
    BY <1>2, <1>3, <1>5

\* BindTemplate keeps the types and the frames.
LEMMA BindTemplateType ==
    ASSUME TypeInv, NEW t \in Threads, BindTemplate(t)
    PROVE  TypeInv'
<1>1. run[t] \in Frames /\ FrameOK(run[t])
    BY CurrentFrame
<1>2. [run[t] EXCEPT !.pc = "post", !.newWork = tmpl] \in Frames
      /\ FrameOK([run[t] EXCEPT !.pc = "post", !.newWork = tmpl])
    BY <1>1 DEF BindTemplate, At, TypeInv, TypeOK, NetOK, Frames, FrameOK, Pcs, Rets, SubmitPcs,
       SendPcs, NetPcs
<1>3. QED
    BY <1>2, MovesThread DEF BindTemplate, Step

\* BlockNotifySend keeps the types and the frames.
LEMMA BlockNotifySendType ==
    ASSUME TypeInv, NEW t \in Threads, BlockNotifySend(t)
    PROVE  TypeInv'
<1> USE DEF TypeInv, TypeOK
<1>1. run[t] \in Frames /\ FrameOK(run[t])
    BY CurrentFrame
<1>2. NetOK'
    BY <1>1 DEF BlockNotifySend, At, Post, Notification, Entries, Frames, NetOK
<1>3. ServerOK' /\ ConnOK' /\ JobOK' /\ CreditsOK' /\ (retargets \in 0..MaxRetargets)'
    BY DEF BlockNotifySend, ServerOK, ConnOK, JobOK, CreditsOK, serverVars, connVars, jobVars, netVars
<1>4. IdleFrame \in Frames /\ FrameOK(IdleFrame)
    BY <1>1, IdleFrameOK DEF BlockNotifySend, At, Frames, FrameOK, Pcs, Rets, SubmitPcs, SendPcs, NetPcs
<1>5. [run[t] EXCEPT !.pc = "check", !.flag = FALSE, !.newWork = 0] \in Frames
      /\ FrameOK([run[t] EXCEPT !.pc = "check", !.flag = FALSE, !.newWork = 0])
    BY <1>1 DEF BlockNotifySend, At, Frames, FrameOK, Pcs, Rets, SubmitPcs, SendPcs, NetPcs
<1>6. run' \in [Threads -> Frames] /\ FramesOK'
    BY <1>4, <1>5, GotoPreserves DEF BlockNotifySend, Step
<1>7. QED
    BY <1>2, <1>3, <1>6

\* TakeNotify keeps the types and the frames.
LEMMA TakeNotifyType ==
    ASSUME TypeInv, NEW t \in Threads, TakeNotify(t)
    PROVE  TypeInv'
<1> USE DEF TypeInv, TypeOK
<1> DEFINE f == [Frame("setwork", None, Head(ioq).flag, "idle") EXCEPT !.newWork = Head(ioq).work]
<1>1. Head(ioq) \in Entries /\ Tail(ioq) \in Seq(Entries)
    BY DEF TakeNotify, NetOK
<1>2. NetOK'
    BY <1>1 DEF TakeNotify, NetOK
<1>3. f \in Frames /\ FrameOK(f)
    BY <1>1 DEF Entries, Frame, Frames, FrameOK, Pcs, Rets, SubmitPcs, SendPcs, NetPcs
<1>4. run' \in [Threads -> Frames] /\ FramesOK'
    BY <1>3, GotoPreserves DEF TakeNotify
<1>5. QED
    BY <1>2, <1>4 DEF TakeNotify, ServerOK, ConnOK, JobOK, CreditsOK, serverVars, connVars, jobVars

\* BlockNotify keeps the types and the frames.
LEMMA BlockNotifyType ==
    ASSUME TypeInv, NEW t \in Threads, BlockNotify(t)
    PROVE  TypeInv'
<1> USE DEF TypeInv, TypeOK
<1>1. run[t] \in Frames /\ FrameOK(run[t])
    BY CurrentFrame
<1>2. ServerOK'
    BY <1>1 DEF BlockNotify, At, Frames, ServerOK
<1>3. ConnOK' /\ JobOK' /\ NetOK' /\ CreditsOK' /\ (retargets \in 0..MaxRetargets)'
    BY DEF BlockNotify, ConnOK, JobOK, NetOK, CreditsOK, serverVars, connVars, jobVars, netVars
<1>4. [run[t] EXCEPT !.pc = "fanout", !.newWork = 0] \in Frames
      /\ FrameOK([run[t] EXCEPT !.pc = "fanout", !.newWork = 0])
    BY <1>1 DEF BlockNotify, At, Frames, FrameOK, Pcs, Rets, SubmitPcs, SendPcs, NetPcs
<1>5. run' \in [Threads -> Frames] /\ FramesOK'
    BY <1>4, GotoPreserves DEF BlockNotify, Step
<1>6. QED
    BY <1>2, <1>3, <1>5

\* SendBlockTmpl keeps the types and the frames.
LEMMA SendBlockTmplType ==
    ASSUME TypeInv, NEW t \in Threads, SendBlockTmpl(t)
    PROVE  TypeInv'
<1> USE DEF TypeInv, TypeOK
<1>1. run[t].flag \in BOOLEAN
    BY CurrentFrame DEF Frames
<1>2. FanOut(run[t].flag) \in Entries
    BY <1>1 DEF FanOut, SendJobs, Entries, ServerOK
<1>3. NetOK'
    BY <1>2 DEF SendBlockTmpl, Post, NetOK
<1>4. run' \in [Threads -> Frames] /\ FramesOK'
    BY IdleFrameOK, GotoPreserves DEF SendBlockTmpl
<1>5. QED
    BY <1>3, <1>4 DEF SendBlockTmpl, ServerOK, ConnOK, JobOK, CreditsOK, serverVars, connVars, jobVars

\* TakeSendJob keeps the types and the frames.
LEMMA TakeSendJobType ==
    ASSUME TypeInv, NEW t \in Threads, NEW c \in Conns, TakeSendJob(t, c)
    PROVE  TypeInv'
<1> USE DEF TypeInv, TypeOK
<1>1. Head(ioq) \in Entries /\ Tail(ioq) \in Seq(Entries) /\ ioq[1] \in Entries /\ 1 \in 1..Len(ioq)
    BY DEF TakeSendJob, NetOK
<1>2. [ioq[1] EXCEPT !.conns = @ \ {c}] \in Entries
    BY <1>1 DEF Entries
<1>3. [ioq EXCEPT ![1].conns = @ \ {c}] \in Seq(Entries)
    BY <1>1, <1>2 DEF NetOK
<1>4. NetOK'
    BY <1>1, <1>3 DEF TakeSendJob, NetOK
<1>5. StartSend(c, Head(ioq).flag) \in Frames /\ FrameOK(StartSend(c, Head(ioq).flag))
    BY <1>1 DEF Entries, StartSend, Frame, Frames, FrameOK, Pcs, Rets, SubmitPcs, SendPcs, NetPcs
<1>6. run' \in [Threads -> Frames] /\ FramesOK'
    BY <1>5, GotoPreserves DEF TakeSendJob
<1>7. QED
    BY <1>4, <1>6 DEF TakeSendJob, ServerOK, ConnOK, JobOK, CreditsOK, serverVars, connVars, jobVars

\* Every step preserves the types and the frames.
LEMMA NextTypeInv == TypeInv /\ [Next]_vars => TypeInv'
<1> SUFFICES ASSUME TypeInv, [Next]_vars PROVE TypeInv'
    OBVIOUS
<1>1. CASE UNCHANGED vars
    BY <1>1 DEF vars, TypeInv, TypeOK, FramesOK, ServerOK, ConnOK, JobOK, NetOK, CreditsOK,
                serverVars, connVars, jobVars, netVars
<1>2. ASSUME NEW t \in Threads, Continue(t) PROVE TypeInv'
    BY <1>2, InsertClientType, LimiterPassType, LimiterRetargetType, LimiterDiscardType,
       LimiterBanType, WrongSizeType, SubmitShareType, EvaluateShareType, SubmitBlockType,
       CreditBlockType, SendJobCleanType, GetJobType, TakeJobIdType, PutJobType,
       BlockCheckNewBlockType, BlockCheckDoneType, BindTemplateType, BlockNotifySendType,
       BlockNotifyType, SendBlockTmplType
    DEF Continue
<1>3. ASSUME NEW t \in Threads, OnMessage(t) PROVE TypeInv'
    BY <1>1, <1>3, OnMiningSubscribeType, OnMiningAuthorizeType, OnMiningSubmitType
    DEF OnMessage, OnOtherMessage
<1>4. ASSUME NEW t \in Threads, EndReceive(t) PROVE TypeInv'
    BY <1>4, EndReceiveType
<1>5. ASSUME NEW t \in Threads, TakePosted(t) PROVE TypeInv'
    BY <1>5, TakeNotifyType, TakeSendJobType DEF TakePosted
<1>6. ASSUME NEW t \in Threads, TakeEvent(t) PROVE TypeInv'
    BY <1>1, <1>6, OnAcceptType, ReceiveType, ReceiveErrorType, OnSendType, BlockCheckTimerType,
       BlockNotifyTimerType
    DEF TakeEvent, AcceptFailed
<1>7. QED
    BY <1>1, <1>2, <1>3, <1>4, <1>5, <1>6, BanExpiresType, DestroyType DEF Next

\* The types and the frames are right in every reachable state.
LEMMA TypeInvAlways == Spec => []TypeInv
BY InitTypeInv, NextTypeInv, PTL DEF Spec

\* Every variable keeps its type; in particular _extranonce stays within its
\* width and a handler always knows the client and the share it works on.
THEOREM Typing == Spec => []TypeOK
<1>1. TypeInv => TypeOK
    BY DEF TypeInv
<1>2. QED
    BY <1>1, TypeInvAlways, PTL

-----------------------------------------------------------------------------
(***************************************************************************)
(* Extranonces.                                                            *)
(***************************************************************************)

\* The counter does not wrap below its width.
LEMMA SmallRemainder ==
    ASSUME NEW a \in Nat, NEW b \in Nat, a < b
    PROVE  a % b = a
BY Z3

\* Until the counter wraps, an extranonce is the number of those handed out
\* before it, so all those in use are below the next one.
ExtraInv ==
    /\ issued < ExtraMod => extranonce = issued
    /\ \A c \in Conns : en[c] # None => en[c] < issued
    /\ ExtranonceUnique

\* Only mining.subscribe and ~Client change the extranonce of a client.
LEMMA ExtraElsewhere ==
    ASSUME TypeInv, Next, ~(\E t \in Threads : OnMiningSubscribe(t)), ~(\E c \in Conns : Destroy(c))
    PROVE  UNCHANGED <<extranonce, issued, en>>
<1>1. ASSUME NEW t \in Threads, Continue(t) PROVE UNCHANGED <<extranonce, issued, en>>
    BY <1>1 DEF Continue, InsertClient, LimiterPass, LimiterRetarget, LimiterDiscard, LimiterBan,
       WrongSize, SubmitShare, EvaluateShare, SubmitBlock, CreditBlock, SendJobClean, GetJob,
       TakeJobId, PutJob, BlockCheckNewBlock, BlockCheckDone, BindTemplate, BlockNotifySend,
       BlockNotify, SendBlockTmpl, serverVars, connVars
<1>2. ASSUME NEW t \in Threads, OnMessage(t) \/ EndReceive(t) PROVE UNCHANGED <<extranonce, issued, en>>
    BY <1>2 DEF OnMessage, OnMiningAuthorize, OnMiningSubmit, OnOtherMessage, EndReceive, vars,
       serverVars, connVars
<1>3. ASSUME NEW t \in Threads, TakePosted(t) PROVE UNCHANGED <<extranonce, issued, en>>
    BY <1>3 DEF TakePosted, TakeNotify, TakeSendJob, serverVars, connVars
<1>4. ASSUME NEW t \in Threads, TakeEvent(t) PROVE UNCHANGED <<extranonce, issued, en>>
    BY <1>4 DEF TakeEvent, AcceptFailed, OnAccept, Receive, ReceiveError, OnSend, BlockCheckTimer,
       BlockNotifyTimer, vars, serverVars, connVars
<1>5. ASSUME NEW ip \in IPs, BanExpires(ip) PROVE UNCHANGED <<extranonce, issued, en>>
    BY <1>5 DEF BanExpires, connVars
<1>6. QED
    BY <1>1, <1>2, <1>3, <1>4, <1>5 DEF Next

\* GetExtranonce hands out a value above all those in use.
LEMMA SubscribeExtra ==
    ASSUME TypeInv, ExtraInv, NEW t \in Threads, OnMiningSubscribe(t)
    PROVE  ExtraInv'
<1> DEFINE c == run[t].conn
<1>1. /\ c \in Conns /\ issued \in Nat /\ issued < ExtraMod /\ extranonce = issued
      /\ issued' = issued + 1 /\ ExtraMod \in Nat
    BY CurrentFrame, WidthAssumption
    DEF OnMiningSubscribe, At, FrameOK, TypeInv, TypeOK, ServerOK, ExtraInv
<1>2. en' = [en EXCEPT ![c] = issued] /\ en \in [Conns -> Nat \cup {None}]
    BY <1>1 DEF OnMiningSubscribe, TypeInv, TypeOK, ConnOK
<1>3. \A d \in Conns : en'[d] # None => en'[d] < issued'
    <2>1. TAKE d \in Conns
    <2>2. CASE d = c
        BY <1>1, <1>2, <2>2
    <2>3. CASE d # c
        BY <1>1, <1>2, <2>3 DEF ExtraInv
    <2>4. QED
        BY <2>2, <2>3
<1>4. ExtranonceUnique'
    BY <1>1, <1>2 DEF ExtraInv, ExtranonceUnique
<1>5. issued' < ExtraMod => extranonce' = issued'
    BY <1>1, SmallRemainder DEF OnMiningSubscribe, NextExtranonce
<1>6. QED
    BY <1>3, <1>4, <1>5 DEF ExtraInv

\* Every step keeps the extranonces apart.
LEMMA NextExtraInv == TypeInv /\ ExtraInv /\ [Next]_vars => ExtraInv'
<1> SUFFICES ASSUME TypeInv, ExtraInv, [Next]_vars PROVE ExtraInv'
    OBVIOUS
<1>1. CASE UNCHANGED <<extranonce, issued, en>>
    BY <1>1 DEF ExtraInv, ExtranonceUnique
<1>2. ASSUME NEW t \in Threads, OnMiningSubscribe(t) PROVE ExtraInv'
    BY <1>2, SubscribeExtra
<1>3. ASSUME NEW c \in Conns, Destroy(c) PROVE ExtraInv'
    BY <1>3 DEF Destroy, serverVars, ExtraInv, ExtranonceUnique, TypeInv, TypeOK, ConnOK
<1>4. QED
    BY <1>1, <1>2, <1>3, ExtraElsewhere DEF vars, serverVars, connVars

\* With any number of clients and threads, and until 2^32 subscriptions have
\* been served, no two live clients share an extranonce.
THEOREM UniqueExtranonces == Spec => []ExtranonceUnique
<1>1. Init => ExtraInv
    BY DEF Init, ExtraInv, ExtranonceUnique
<1>2. ExtraInv => ExtranonceUnique
    BY DEF ExtraInv
<1>3. QED
    BY <1>1, <1>2, NextExtraInv, TypeInvAlways, PTL DEF Spec

-----------------------------------------------------------------------------
(***************************************************************************)
(* Jobs and credits.                                                       *)
(***************************************************************************)

\* A frame that holds a job holds one that is live.
Held(f) == HoldsJob(f) => f.job \in JobIds(f.conn)

\* No job is deleted and the moving thread ends in a good frame.
LEMMA KeepsHeld ==
    ASSUME TypeInv, JobLive, UNCHANGED jobs, NEW t \in Threads, NEW f, Goto(t, f), Held(f)
    PROVE  JobLive'
BY DEF TypeInv, TypeOK, JobLive, Held, Goto, JobIds

\* Frames that hold no job.
LEMMA HoldsNothing ==
    ASSUME NEW f, f.pc \notin {"limit", "dedupe", "eval"}, f.ret # "dedupe"
    PROVE  Held(f)
BY DEF Held, HoldsJob

\* An idle thread and a receive handler between messages hold no job.
LEMMA IdleAndRecvHoldNothing ==
    /\ Held(IdleFrame)
    /\ \A c \in Conns : Held(RecvFrame(c))
BY HoldsNothing DEF IdleFrame, RecvFrame, Frame

\* With one thread, a step inside a handler deletes no job that is held.
LEMMA ContinueHeld ==
    ASSUME TypeInv, JobLive, SingleThread, NEW t \in Threads, Continue(t)
    PROVE  JobLive'
<1> DEFINE f == run[t]
<1>1. f \in Frames /\ FrameOK(f) /\ Held(f)
    BY CurrentFrame DEF JobLive, Held
<1>2. CASE InsertClient(t) \/ SendBlockTmpl(t)
    BY <1>2, KeepsHeld, IdleAndRecvHoldNothing DEF InsertClient, SendBlockTmpl, jobVars
<1>3. CASE LimiterPass(t) \/ LimiterRetarget(t)
    <2>1. \A g \in {[f EXCEPT !.pc = "dedupe"], [f EXCEPT !.pc = "getwork", !.ret = "dedupe"]} :
            Held(g)
        BY <1>1, <1>3 DEF LimiterPass, LimiterRetarget, At, Held, HoldsJob, Frames
    <2>2. QED
        BY <1>3, <2>1, KeepsHeld DEF LimiterPass, LimiterRetarget, Step, jobVars
<1>4. CASE LimiterDiscard(t)
    BY <1>4, KeepsHeld, HoldsNothing DEF LimiterDiscard, Discard, Frame, jobVars
<1>5. CASE LimiterBan(t) \/ WrongSize(t) \/ CreditBlock(t)
    <2>1. f.conn \in Conns
        BY <1>1, <1>5 DEF LimiterBan, WrongSize, CreditBlock, At, FrameOK, SubmitPcs
    <2>2. QED
        BY <1>5, <2>1, KeepsHeld, IdleAndRecvHoldNothing DEF LimiterBan, WrongSize, CreditBlock, jobVars
<1>6. CASE SubmitShare(t)
    <2>1. f.conn \in Conns /\ Held([f EXCEPT !.pc = "eval"])
        BY <1>1, <1>6 DEF SubmitShare, At, FrameOK, SubmitPcs, Held, HoldsJob, Frames
    <2>2. QED
        BY <1>6, <2>1, KeepsHeld, IdleAndRecvHoldNothing DEF SubmitShare, Step
<1>7. CASE EvaluateShare(t) \/ SubmitBlock(t)
    <2>1. f.conn \in Conns /\ f.ret = "recv"
        BY <1>1, <1>7 DEF EvaluateShare, SubmitBlock, At, FrameOK, SubmitPcs
    <2>2. \A g \in {[f EXCEPT !.pc = "found"], [f EXCEPT !.pc = "check", !.ret = "credit"]} : Held(g)
        BY <1>1, <2>1 DEF Held, HoldsJob, Frames
    <2>3. QED
        BY <1>7, <2>1, <2>2, KeepsHeld, IdleAndRecvHoldNothing
        DEF EvaluateShare, SubmitBlock, Step, jobVars
<1>8. CASE SendJobClean(t)
    <2>1. f.pc = "clean" /\ f.ret # "dedupe"
        BY <1>1, <1>8 DEF SendJobClean, At, FrameOK
    <2>2. run'[t].pc = "getwork" /\ run'[t].ret # "dedupe"
        BY <1>1, <1>8, <2>1 DEF SendJobClean, Step, Goto, TypeInv, TypeOK, Frames
    <2>3. QED
        BY <2>2 DEF SingleThread, JobLive, HoldsJob
<1>9. CASE GetJob(t) \/ TakeJobId(t)
    <2>1. \A g \in {[f EXCEPT !.pc = "takeid", !.newWork = currentWork],
                    [f EXCEPT !.pc = "putjob", !.newJob = nextJob[f.conn]]} : Held(g)
        BY <1>1, <1>9 DEF GetJob, TakeJobId, At, Held, HoldsJob, Frames
    <2>2. QED
        BY <1>9, <2>1, KeepsHeld DEF GetJob, TakeJobId, jobVars
<1>10. CASE PutJob(t)
    <2>1. f.conn \in Conns /\ f.pc = "putjob"
        BY <1>1, <1>10 DEF PutJob, At, FrameOK, SendPcs
    <2>2. run' = [run EXCEPT ![t] = Resume(f)] /\ run \in [Threads -> Frames]
        BY <1>10 DEF PutJob, Goto, TypeInv, TypeOK
    <2>3. CASE f.ret = "dedupe"
        <3>1. f.job \in JobIds(f.conn)
            BY <1>1, <2>3 DEF Held, HoldsJob
        <3>2. \E j \in jobs'[f.conn] : j.id = f.job
            <4>1. PICK k \in jobs[f.conn] : k.id = f.job
                BY <3>1 DEF JobIds
            <4>2. jobs'[f.conn] = {j \in jobs[f.conn] : j.id # f.newJob}
                                   \cup {[id |-> f.newJob, work |-> f.newWork]}
                BY <1>10, <2>1 DEF PutJob, TypeInv, TypeOK, JobOK
            <4>3. CASE f.job = f.newJob
                <5>1. [id |-> f.newJob, work |-> f.newWork] \in jobs'[f.conn]
                    BY <4>2
                <5>2. QED
                    BY <4>3, <5>1
            <4>4. CASE f.job # f.newJob
                BY <4>1, <4>2, <4>4
            <4>5. QED
                BY <4>3, <4>4
        <3>3. run'[t].job = f.job /\ run'[t].conn = f.conn
            BY <1>1, <2>2, <2>3 DEF Resume, Frames
        <3>4. QED
            BY <3>2, <3>3 DEF SingleThread, JobLive, JobIds
    <2>4. CASE f.ret # "dedupe"
        <3>1. run'[t].pc \in {"idle", "recv"} /\ run'[t].ret # "dedupe"
            BY <2>2, <2>4 DEF Resume, IdleFrame, RecvFrame, Frame
        <3>2. QED
            BY <3>1 DEF SingleThread, JobLive, HoldsJob
    <2>5. QED
        BY <2>3, <2>4
<1>11. CASE BlockCheckNewBlock(t) \/ BlockCheckDone(t) \/ BindTemplate(t) \/ BlockNotifySend(t)
    <2>1. f.ret \in {"idle", "credit"}
        BY <1>1, <1>11 DEF BlockCheckNewBlock, BlockCheckDone, BindTemplate, BlockNotifySend, At, FrameOK
    <2>2. \A g \in {[f EXCEPT !.pc = "bind", !.flag = TRUE], [f EXCEPT !.pc = "credit", !.ret = "recv"],
                    [f EXCEPT !.pc = "post", !.newWork = tmpl],
                    [f EXCEPT !.pc = "check", !.flag = FALSE, !.newWork = 0]} : Held(g)
        BY <1>1, <2>1 DEF Held, HoldsJob, Frames
    <2>3. QED
        BY <1>11, <2>2, KeepsHeld, IdleAndRecvHoldNothing
        DEF BlockCheckNewBlock, BlockCheckDone, BindTemplate, BlockNotifySend, jobVars
<1>12. CASE BlockNotify(t)
    <2>1. Held([f EXCEPT !.pc = "fanout", !.newWork = 0])
        BY <1>1, <1>12 DEF BlockNotify, At, FrameOK, Held, HoldsJob, Frames
    <2>2. QED
        BY <1>12, <2>1, KeepsHeld DEF BlockNotify, jobVars
<1>13. QED
    BY <1>2, <1>3, <1>4, <1>5, <1>6, <1>7, <1>8, <1>9, <1>10, <1>11, <1>12 DEF Continue

\* With one thread, no step deletes a job that is held.
LEMMA NextHeld ==
    ASSUME SingleThread
    PROVE  TypeInv /\ JobLive /\ [Next]_vars => JobLive'
<1> SUFFICES ASSUME TypeInv, JobLive, [Next]_vars PROVE JobLive'
    OBVIOUS
<1>1. CASE UNCHANGED <<run, jobs>>
    BY <1>1 DEF JobLive, JobIds
<1>2. ASSUME NEW t \in Threads, OnMiningSubscribe(t) \/ EndReceive(t) PROVE JobLive'
    BY <1>2, KeepsHeld, HoldsNothing, IdleAndRecvHoldNothing DEF OnMiningSubscribe, EndReceive, Frame, jobVars
<1>3. ASSUME NEW t \in Threads, OnMiningSubmit(t) PROVE JobLive'
    <2> DEFINE c == run[t].conn
               g(j, s) == [RecvFrame(c) EXCEPT !.pc = "limit", !.job = j.id, !.share = s, !.work = j.work]
    <2>1. UNCHANGED jobs
        BY <1>3 DEF OnMiningSubmit, jobVars
    <2>2. CASE UNCHANGED run
        BY <1>1, <2>1, <2>2
    <2>3. CASE \E j \in jobs[c], s \in Shares : Goto(t, g(j, s))
        <3>1. PICK j \in jobs[c], s \in Shares : Goto(t, g(j, s))
            BY <2>3
        <3>2. Held(g(j, s))
            BY DEF Held, HoldsJob, JobIds, RecvFrame, Frame
        <3> HIDE DEF g
        <3>3. QED
            BY <2>1, <3>1, <3>2, KeepsHeld
    <2>4. QED
        BY <1>3, <2>2, <2>3 DEF OnMiningSubmit
<1>4. ASSUME NEW t \in Threads, TakePosted(t) PROVE JobLive'
    BY <1>4, KeepsHeld, HoldsNothing DEF TakePosted, TakeNotify, TakeSendJob, StartSend, Frame, jobVars
<1>5. ASSUME NEW t \in Threads, NEW c \in Conns, Receive(t, c) PROVE JobLive'
    BY <1>5, KeepsHeld, IdleAndRecvHoldNothing DEF Receive, jobVars
<1>6. ASSUME NEW t \in Threads, NEW c \in Conns, OnAccept(t, c) PROVE JobLive'
    BY <1>1, <1>6, KeepsHeld, HoldsNothing DEF OnAccept, Frame, jobVars
<1>7. ASSUME NEW t \in Threads, BlockCheckTimer(t) \/ BlockNotifyTimer(t) PROVE JobLive'
    BY <1>7, KeepsHeld, HoldsNothing DEF BlockCheckTimer, BlockNotifyTimer, Frame, jobVars
<1>8. ASSUME NEW t \in Threads, NEW c \in Conns, ReceiveError(t, c) \/ OnSend(t, c) PROVE JobLive'
    BY <1>1, <1>8 DEF ReceiveError, OnSend, jobVars
<1>9. ASSUME NEW t \in Threads, OnMiningAuthorize(t) \/ OnOtherMessage(t) \/ AcceptFailed(t) PROVE JobLive'
    BY <1>1, <1>9 DEF OnMiningAuthorize, OnOtherMessage, AcceptFailed, vars, jobVars
<1>10. ASSUME NEW c \in Conns, Destroy(c) PROVE JobLive'
    <2>1. \A t \in Threads : run'[t] = run[t] /\ run[t].conn # c
        BY <1>10 DEF Destroy
    <2>2. \A d : d # c => jobs'[d] = jobs[d]
        BY <1>10 DEF Destroy, CleanJobs, TypeInv, TypeOK, JobOK
    <2>3. QED
        BY <2>1, <2>2 DEF JobLive, JobIds, HoldsJob
<1>11. ASSUME NEW ip \in IPs, BanExpires(ip) PROVE JobLive'
    BY <1>1, <1>11 DEF BanExpires, jobVars
<1>12. QED
    BY <1>1, <1>2, <1>3, <1>4, <1>5, <1>6, <1>7, <1>8, <1>9, <1>10, <1>11, ContinueHeld
    DEF Next, OnMessage, TakeEvent, vars, jobVars

\* With one worker thread the job of a submission is never deleted under it,
\* in spite of the share limiter sending and discarding jobs meanwhile.
THEOREM JobsStayLive == ASSUME SingleThread PROVE Spec => []JobLive
<1>1. Init => JobLive
    BY IdleAndRecvHoldNothing DEF Init, JobLive, Held
<1>2. QED
    BY <1>1, NextHeld, TypeInvAlways, PTL DEF Spec

-----------------------------------------------------------------------------
(***************************************************************************)
(* Each share is paid once.                                                *)
(***************************************************************************)

Key(k) == <<k.conn, k.job, k.share>>

\* The share of the frame has passed SubmitShare and may still be paid.
Deciding(f) == f.pc \in {"eval", "found", "credit"} \/ f.ret = "credit"

\* Such a share is recorded in its job while the job lives, and unpaid.
Unpaid(f) == Deciding(f) =>
    /\ f.job < nextJob[f.conn]
    /\ f.job \in JobIds(f.conn) => Key(f) \in shares
    /\ \A k \in DOMAIN credits : Key(k) # Key(f)

\* A new job gets an id that was never used.
FreshId(f) == f.pc = "putjob" => f.newJob = nextJob[f.conn]

\* Job ids grow; what was paid is recorded in its job while the job lives.
PaidRecorded ==
    /\ \A c \in Conns : \A j \in jobs[c] : j.id < nextJob[c]
    /\ \A k \in DOMAIN credits : credits[k] = 1 /\ k.job < nextJob[k.conn]
    /\ \A k \in DOMAIN credits : k.job \in JobIds(k.conn) => Key(k) \in shares
    /\ \A a, b \in DOMAIN credits : Key(a) = Key(b) => a = b

CreditInv == PaidRecorded /\ \A t \in Threads : Unpaid(run[t]) /\ FreshId(run[t])

\* A step that changes neither jobs, shares nor payments.
LEMMA KeepsUnpaid ==
    ASSUME TypeInv, CreditInv, UNCHANGED <<jobs, nextJob, shares, credits>>,
           NEW t \in Threads, NEW f, Goto(t, f), Unpaid(f), FreshId(f)
    PROVE  CreditInv'
BY DEF TypeInv, TypeOK, CreditInv, PaidRecorded, Unpaid, FreshId, Goto, JobIds

\* A frame past or before the decision on a share has nothing to pay.
LEMMA NotDeciding ==
    ASSUME NEW f, f.pc \notin {"eval", "found", "credit", "putjob"}, f.ret # "credit"
    PROVE  Unpaid(f) /\ FreshId(f)
BY DEF Unpaid, FreshId, Deciding

\* An idle thread and a receive handler between messages have nothing to pay.
LEMMA IdleAndRecvPayNothing ==
    /\ Unpaid(IdleFrame) /\ FreshId(IdleFrame)
    /\ \A c \in Conns : Unpaid(RecvFrame(c)) /\ FreshId(RecvFrame(c))
BY NotDeciding DEF IdleFrame, RecvFrame, Frame

\* A share that Job::SubmitShare lets through was never paid.
LEMMA SubmitShareCredit ==
    ASSUME TypeInv, JobLive, CreditInv, SingleThread, NEW t \in Threads, SubmitShare(t)
    PROVE  CreditInv'
<1> DEFINE f == run[t]
           g == [f EXCEPT !.pc = "eval"]
<1>1. f \in Frames /\ f.conn \in Conns /\ f.pc = "dedupe" /\ f.ret = "recv"
    BY CurrentFrame DEF SubmitShare, At, FrameOK, SubmitPcs
<1>2. f.job \in JobIds(f.conn)
    BY <1>1 DEF JobLive, HoldsJob
<1>3. CASE Goto(t, RecvFrame(f.conn)) /\ UNCHANGED shares
    BY <1>1, <1>3, KeepsUnpaid, IdleAndRecvPayNothing DEF SubmitShare
<1>4. CASE /\ <<f.conn, f.job, f.share>> \notin shares
           /\ shares' = IF f.job \in JobIds(f.conn) THEN RecordShare(f.conn, f.job, f.share) ELSE shares
           /\ Step(t, "eval")
    <2>1. shares' = shares \cup {Key(f)}
        BY <1>2, <1>4 DEF RecordShare, Key
    <2>2. UNCHANGED <<jobs, nextJob, credits>>
        BY DEF SubmitShare
    <2>3. \A k \in DOMAIN credits : Key(k) # Key(f)
        BY <1>2, <1>4 DEF CreditInv, PaidRecorded, Key
    <2>4. PaidRecorded'
        BY <2>1, <2>2 DEF CreditInv, PaidRecorded, JobIds, Key
    <2>5. f.job < nextJob[f.conn]
        BY <1>1, <1>2 DEF CreditInv, PaidRecorded, JobIds
    <2>6. run'[t] = g /\ g.pc = "eval" /\ g.job = f.job /\ g.conn = f.conn /\ Key(g) = Key(f)
        BY <1>1, <1>4 DEF Step, Goto, TypeInv, TypeOK, Frames, Key
    <2>7. Unpaid(run[t])' /\ FreshId(run[t])'
        BY <2>1, <2>2, <2>3, <2>5, <2>6 DEF Unpaid, FreshId
    <2>8. QED
        BY <2>4, <2>7 DEF CreditInv, SingleThread
<1>5. QED
    BY <1>3, <1>4 DEF SubmitShare

\* Paying the share of a deciding frame.
LEMMA PayCredit ==
    ASSUME TypeInv, CreditInv, SingleThread, NEW t \in Threads, Deciding(run[t]),
           run[t].conn \in Conns, Pay(CreditOf(run[t])), UNCHANGED <<jobs, nextJob, shares>>,
           Goto(t, RecvFrame(run[t].conn))
    PROVE  CreditInv'
<1> DEFINE f == run[t]
           p == CreditOf(f)
<1>1. /\ p.conn = f.conn /\ p.job = f.job /\ p.share = f.share /\ Key(p) = Key(f)
    BY DEF CreditOf, Key
<1>2. Unpaid(f)
    BY DEF CreditInv
<1>3. p \notin DOMAIN credits
    BY <1>1, <1>2 DEF Unpaid
<1>4. DOMAIN credits' = DOMAIN credits \cup {p} /\ credits'[p] = 1
    BY <1>3 DEF Pay, Copies
<1>5. \A k \in DOMAIN credits : credits'[k] = credits[k]
    BY <1>3, <1>4 DEF Pay, Copies, CreditInv, PaidRecorded
<1> HIDE DEF p
<1>6. PaidRecorded'
    <2>1. \A k \in DOMAIN credits' : credits'[k] = 1 /\ k.job < nextJob[k.conn]
        BY <1>1, <1>2, <1>4, <1>5 DEF CreditInv, PaidRecorded, Unpaid
    <2>2. \A k \in DOMAIN credits' : k.job \in JobIds(k.conn) => Key(k) \in shares
        BY <1>1, <1>2, <1>4 DEF CreditInv, PaidRecorded, Unpaid
    <2>3. \A a, b \in DOMAIN credits' : Key(a) = Key(b) => a = b
        BY <1>1, <1>2, <1>4 DEF CreditInv, PaidRecorded, Unpaid
    <2>4. QED
        BY <2>1, <2>2, <2>3 DEF CreditInv, PaidRecorded, JobIds
<1>7. run'[t] = RecvFrame(f.conn)
    BY DEF Goto, TypeInv, TypeOK
<1>8. run'[t].pc = "recv" /\ run'[t].ret = "recv"
    BY <1>7 DEF RecvFrame, Frame
<1>9. QED
    BY <1>6, <1>8 DEF CreditInv, SingleThread, Unpaid, FreshId, Deciding

\* Deleting all jobs of a client.
LEMMA CleanCredit ==
    ASSUME TypeInv, CreditInv, NEW c \in Conns, CleanJobs(c), UNCHANGED <<nextJob, credits>>
    PROVE  /\ PaidRecorded'
           /\ \A f \in Frames : FrameOK(f) /\ Unpaid(f) => Unpaid(f)'
<1>1. jobs'[c] = {} /\ \A d \in Conns : d # c => jobs'[d] = jobs[d]
    BY DEF CleanJobs, TypeInv, TypeOK, JobOK
<1>2. \A d \in Conns, id \in Nat, s \in Shares :
        d # c /\ <<d, id, s>> \in shares => <<d, id, s>> \in shares'
    BY DEF CleanJobs
<1>3. \A d \in Conns, id \in Nat : id \in JobIds(d)' => d # c /\ id \in JobIds(d)
    BY <1>1 DEF JobIds
<1>4. \A k \in DOMAIN credits : k.conn \in Conns /\ k.job \in Nat /\ k.share \in Shares
    BY DEF TypeInv, TypeOK, CreditsOK, Credits
<1>5. PaidRecorded'
    <2>1. \A d \in Conns : \A j \in jobs'[d] : j.id < nextJob[d]
        BY <1>1 DEF CreditInv, PaidRecorded
    <2>2. \A k \in DOMAIN credits : k.job \in JobIds(k.conn)' => Key(k) \in shares'
        BY <1>2, <1>3, <1>4 DEF CreditInv, PaidRecorded, Key
    <2>3. QED
        BY <2>1, <2>2 DEF CreditInv, PaidRecorded
<1>6. ASSUME NEW f \in Frames, FrameOK(f), Unpaid(f), Deciding(f)
      PROVE  Unpaid(f)'
    <2>1. f.conn \in Conns /\ f.job \in Nat /\ f.share \in Shares
        BY <1>6 DEF Deciding, FrameOK, Frames, SubmitPcs
    <2>2. f.job \in JobIds(f.conn)' => Key(f) \in shares'
        BY <1>2, <1>3, <1>6, <2>1 DEF Unpaid, Key
    <2>3. QED
        BY <1>6, <2>2 DEF Unpaid
<1>7. QED
    BY <1>5, <1>6 DEF Unpaid

\* Deleting all jobs, in SendJob(true), leaves no submission deciding.
LEMMA SendJobCleanCredit ==
    ASSUME TypeInv, CreditInv, SingleThread, NEW t \in Threads, SendJobClean(t)
    PROVE  CreditInv'
<1> DEFINE f == run[t]
<1>1. f \in Frames /\ f.conn \in Conns /\ f.pc = "clean" /\ f.ret # "credit"
    BY CurrentFrame DEF SendJobClean, At, FrameOK, SendPcs
<1>2. PaidRecorded'
    BY <1>1, CleanCredit DEF SendJobClean
<1>3. run'[t].pc = "getwork" /\ run'[t].ret # "credit"
    BY <1>1 DEF SendJobClean, Step, Goto, TypeInv, TypeOK, Frames
<1>4. QED
    BY <1>2, <1>3 DEF CreditInv, SingleThread, Unpaid, FreshId, Deciding

\* ~Client deletes jobs that no handler uses.
LEMMA DestroyCredit ==
    ASSUME TypeInv, CreditInv, NEW c \in Conns, Destroy(c)
    PROVE  CreditInv'
<1>1. PaidRecorded' /\ \A f \in Frames : FrameOK(f) /\ Unpaid(f) => Unpaid(f)'
    BY CleanCredit DEF Destroy
<1>2. UNCHANGED <<run, nextJob>>
    BY DEF Destroy
<1>3. \A t \in Threads : Unpaid(run[t])' /\ FreshId(run[t])'
    BY <1>1, <1>2, CurrentFrame DEF CreditInv, FreshId
<1>4. QED
    BY <1>1, <1>3 DEF CreditInv

\* A job put under an id that was never used before starts with no shares.
LEMMA PutJobCredit ==
    ASSUME TypeInv, CreditInv, SingleThread, NEW t \in Threads, PutJob(t)
    PROVE  CreditInv'
<1> DEFINE f == run[t]
           c == f.conn
           n == f.newJob
<1>1. f \in Frames /\ FrameOK(f) /\ c \in Conns /\ n \in Nat /\ n = nextJob[c] /\ f.ret # "credit"
    BY CurrentFrame DEF PutJob, At, FrameOK, SendPcs, Frames, CreditInv, FreshId
<1>2. /\ nextJob' = [nextJob EXCEPT ![c] = n + 1]
      /\ jobs' = [jobs EXCEPT ![c] = {j \in jobs[c] : j.id # n} \cup {[id |-> n, work |-> f.newWork]}]
      /\ shares' = {x \in shares : x[1] # c \/ x[2] # n}
      /\ UNCHANGED credits
    BY DEF PutJob
<1>3. nextJob \in [Conns -> Nat] /\ jobs \in [Conns -> SUBSET [id: Nat, work: Nat]]
    BY DEF TypeInv, TypeOK, JobOK
<1>4. \A k \in DOMAIN credits : k.conn \in Conns /\ k.job \in Nat /\ k.share \in Shares
    BY DEF TypeInv, TypeOK, CreditsOK, Credits
<1>5. \A d \in Conns : \A j \in jobs'[d] : j.id < nextJob'[d]
    <2>1. TAKE d \in Conns
    <2>2. CASE d = c
        BY <1>1, <1>2, <1>3, <2>2 DEF CreditInv, PaidRecorded
    <2>3. CASE d # c
        BY <1>1, <1>2, <1>3, <2>3 DEF CreditInv, PaidRecorded
    <2>4. QED
        BY <2>2, <2>3
<1>6. \A k \in DOMAIN credits : k.job < nextJob'[k.conn] /\ (k.conn # c \/ k.job # n)
    BY <1>1, <1>2, <1>3, <1>4 DEF CreditInv, PaidRecorded
<1>7. \A k \in DOMAIN credits : (\E j \in jobs'[k.conn] : j.id = k.job) => Key(k) \in shares'
    <2>1. SUFFICES ASSUME NEW k \in DOMAIN credits, NEW j \in jobs'[k.conn], j.id = k.job
                   PROVE  Key(k) \in shares'
        OBVIOUS
    <2>2. j \in jobs[k.conn]
        BY <1>1, <1>2, <1>3, <1>4, <1>6, <2>1
    <2>3. Key(k) \in shares
        BY <2>1, <2>2 DEF CreditInv, PaidRecorded, JobIds
    <2>4. QED
        BY <1>2, <1>4, <1>6, <2>3 DEF Key
<1>8. PaidRecorded'
    BY <1>2, <1>5, <1>6, <1>7 DEF CreditInv, PaidRecorded, JobIds
<1>9. run'[t].pc \in {"idle", "recv", "dedupe"} /\ run'[t].ret # "credit"
    <2>1. run'[t] = Resume(f)
        BY DEF PutJob, Goto, TypeInv, TypeOK
    <2>2. CASE f.ret = "dedupe"
        BY <1>1, <2>1, <2>2 DEF Resume, Frames
    <2>3. CASE f.ret # "dedupe"
        BY <2>1, <2>3 DEF Resume, IdleFrame, RecvFrame, Frame
    <2>4. QED
        BY <2>2, <2>3
<1>10. QED
    BY <1>8, <1>9 DEF CreditInv, SingleThread, Unpaid, FreshId, Deciding

\* Steps inside a handler pay no share twice.
LEMMA ContinueCredit ==
    ASSUME TypeInv, JobLive, CreditInv, SingleThread, NEW t \in Threads, Continue(t)
    PROVE  CreditInv'
<1> DEFINE f == run[t]
<1>1. f \in Frames /\ FrameOK(f) /\ Unpaid(f) /\ FreshId(f)
    BY CurrentFrame DEF CreditInv
<1>2. CASE InsertClient(t) \/ SendBlockTmpl(t)
    BY <1>2, KeepsUnpaid, IdleAndRecvPayNothing DEF InsertClient, SendBlockTmpl, jobVars
<1>3. CASE LimiterPass(t) \/ LimiterRetarget(t)
    <2>1. f.ret = "recv"
        BY <1>1, <1>3 DEF LimiterPass, LimiterRetarget, At, FrameOK, SubmitPcs
    <2>2. \A g \in {[f EXCEPT !.pc = "dedupe"], [f EXCEPT !.pc = "getwork", !.ret = "dedupe"]} :
            Unpaid(g) /\ FreshId(g)
        BY <1>1, <2>1, NotDeciding DEF Frames
    <2>3. QED
        BY <1>3, <2>2, KeepsUnpaid DEF LimiterPass, LimiterRetarget, Step, jobVars
<1>4. CASE LimiterDiscard(t)
    BY <1>4, KeepsUnpaid, NotDeciding DEF LimiterDiscard, Discard, Frame, jobVars
<1>5. CASE LimiterBan(t) \/ WrongSize(t)
    <2>1. f.conn \in Conns
        BY <1>1, <1>5 DEF LimiterBan, WrongSize, At, FrameOK, SubmitPcs
    <2>2. QED
        BY <1>5, <2>1, KeepsUnpaid, IdleAndRecvPayNothing DEF LimiterBan, WrongSize, jobVars
<1>6. CASE EvaluateShare(t)
    <2>1. f.conn \in Conns /\ f.pc = "eval" /\ Deciding(f)
        BY <1>1, <1>6 DEF EvaluateShare, At, FrameOK, SubmitPcs, Deciding
    <2>2. Unpaid([f EXCEPT !.pc = "found"]) /\ FreshId([f EXCEPT !.pc = "found"])
        BY <1>1, <2>1 DEF Unpaid, FreshId, Key, Frames
    <2>3. QED
        BY <1>6, <2>1, <2>2, PayCredit, KeepsUnpaid, IdleAndRecvPayNothing DEF EvaluateShare, Step, jobVars
<1>7. CASE SubmitBlock(t)
    <2> DEFINE g == [f EXCEPT !.pc = "check", !.ret = "credit"]
    <2>1. f.conn \in Conns /\ f.pc = "found" /\ Deciding(f)
        BY <1>1, <1>7 DEF SubmitBlock, At, FrameOK, SubmitPcs, Deciding
    <2>2. Unpaid(g) /\ FreshId(g)
        BY <1>1, <2>1 DEF Unpaid, FreshId, Key, Frames
    <2>3. QED
        BY <1>7, <2>1, <2>2, KeepsUnpaid, IdleAndRecvPayNothing DEF SubmitBlock, jobVars
<1>8. CASE CreditBlock(t)
    <2>1. f.conn \in Conns /\ Deciding(f)
        BY <1>1, <1>8 DEF CreditBlock, At, FrameOK, SubmitPcs, Deciding
    <2>2. QED
        BY <1>8, <2>1, PayCredit DEF CreditBlock, jobVars
<1>9. CASE GetJob(t) \/ TakeJobId(t)
    <2> DEFINE g == [f EXCEPT !.pc = "takeid", !.newWork = currentWork]
               h == [f EXCEPT !.pc = "putjob", !.newJob = nextJob[f.conn]]
    <2>1. f.ret # "credit"
        BY <1>1, <1>9 DEF GetJob, TakeJobId, At, FrameOK, SendPcs
    <2>2. Unpaid(g) /\ FreshId(g) /\ Unpaid(h) /\ FreshId(h)
        BY <1>1, <2>1 DEF Unpaid, FreshId, Deciding, Frames
    <2>3. QED
        BY <1>9, <2>2, KeepsUnpaid DEF GetJob, TakeJobId, jobVars
<1>10. CASE BlockCheckNewBlock(t) \/ BindTemplate(t) \/ BlockNotifySend(t)
    <2> DEFINE gs == {[f EXCEPT !.pc = "bind", !.flag = TRUE], [f EXCEPT !.pc = "post", !.newWork = tmpl],
                      [f EXCEPT !.pc = "check", !.flag = FALSE, !.newWork = 0]}
    <2>1. f.pc \in {"check", "bind", "post"}
        BY <1>10 DEF BlockCheckNewBlock, BindTemplate, BlockNotifySend, At
    <2>2. \A g \in gs : /\ g.pc \in {"check", "bind", "post"} /\ g.ret = f.ret
                         /\ g.conn = f.conn /\ g.job = f.job /\ g.share = f.share
        BY <1>1 DEF Frames
    <2>3. \A g \in gs : Unpaid(g) /\ FreshId(g)
        BY <1>1, <2>1, <2>2 DEF Unpaid, FreshId, Deciding, Key
    <2>4. QED
        BY <1>10, <2>3, KeepsUnpaid, IdleAndRecvPayNothing
        DEF BlockCheckNewBlock, BindTemplate, BlockNotifySend, jobVars
<1>11. CASE BlockCheckDone(t)
    <2> DEFINE g == [f EXCEPT !.pc = "credit", !.ret = "recv"]
    <2>1. f.ret \in {"idle", "credit"}
        BY <1>1, <1>11 DEF BlockCheckDone, At, FrameOK
    <2>2. CASE f.ret = "idle"
        BY <1>11, <2>2, KeepsUnpaid, IdleAndRecvPayNothing DEF BlockCheckDone, jobVars
    <2>3. CASE f.ret = "credit"
        <3>1. Unpaid(g) /\ FreshId(g)
            BY <1>1, <2>3 DEF Unpaid, FreshId, Deciding, Key, Frames
        <3>2. QED
            BY <1>11, <2>3, <3>1, KeepsUnpaid DEF BlockCheckDone, jobVars
    <2>4. QED
        BY <2>1, <2>2, <2>3
<1>12. CASE BlockNotify(t)
    <2>1. f.ret = "idle"
        BY <1>1, <1>12 DEF BlockNotify, At, FrameOK
    <2>2. /\ Unpaid([f EXCEPT !.pc = "fanout", !.newWork = 0])
          /\ FreshId([f EXCEPT !.pc = "fanout", !.newWork = 0])
        BY <1>1, <2>1, NotDeciding DEF Frames
    <2>3. QED
        BY <1>12, <2>2, KeepsUnpaid DEF BlockNotify, jobVars
<1>13. QED
    BY <1>2, <1>3, <1>4, <1>5, <1>6, <1>7, <1>8, <1>9, <1>10, <1>11, <1>12,
       SubmitShareCredit, SendJobCleanCredit, PutJobCredit
    DEF Continue

\* No step pays a share twice.
LEMMA NextCredit ==
    ASSUME SingleThread
    PROVE  TypeInv /\ JobLive /\ CreditInv /\ [Next]_vars => CreditInv'
<1> SUFFICES ASSUME TypeInv, JobLive, CreditInv, [Next]_vars PROVE CreditInv'
    OBVIOUS
<1>1. CASE UNCHANGED <<run, jobs, nextJob, shares, credits>>
    BY <1>1 DEF CreditInv, PaidRecorded, Unpaid, FreshId, JobIds
<1>2. ASSUME NEW t \in Threads, OnMiningSubscribe(t) \/ EndReceive(t) PROVE CreditInv'
    BY <1>2, KeepsUnpaid, NotDeciding, IdleAndRecvPayNothing
    DEF OnMiningSubscribe, EndReceive, Frame, jobVars
<1>3. ASSUME NEW t \in Threads, OnMiningSubmit(t) PROVE CreditInv'
    <2> DEFINE g(j, s) == [RecvFrame(run[t].conn) EXCEPT !.pc = "limit", !.job = j.id,
                                                        !.share = s, !.work = j.work]
    <2>1. \A j, s : Unpaid(g(j, s)) /\ FreshId(g(j, s))
        BY NotDeciding DEF RecvFrame, Frame
    <2>2. UNCHANGED run \/ \E j, s : Goto(t, g(j, s))
        BY <1>3 DEF OnMiningSubmit
    <2> HIDE DEF g
    <2>3. QED
        BY <1>1, <1>3, <2>1, <2>2, KeepsUnpaid DEF OnMiningSubmit, jobVars
<1>4. ASSUME NEW t \in Threads, TakePosted(t) PROVE CreditInv'
    BY <1>4, KeepsUnpaid, NotDeciding DEF TakePosted, TakeNotify, TakeSendJob, StartSend, Frame, jobVars
<1>5. ASSUME NEW t \in Threads, NEW c \in Conns, Receive(t, c) PROVE CreditInv'
    BY <1>5, KeepsUnpaid, IdleAndRecvPayNothing DEF Receive, jobVars
<1>6. ASSUME NEW t \in Threads, NEW c \in Conns, OnAccept(t, c) PROVE CreditInv'
    BY <1>1, <1>6, KeepsUnpaid, NotDeciding DEF OnAccept, Frame, jobVars
<1>7. ASSUME NEW t \in Threads, BlockCheckTimer(t) \/ BlockNotifyTimer(t) PROVE CreditInv'
    BY <1>7, KeepsUnpaid, NotDeciding DEF BlockCheckTimer, BlockNotifyTimer, Frame, jobVars
<1>8. ASSUME NEW t \in Threads, NEW c \in Conns, ReceiveError(t, c) \/ OnSend(t, c) PROVE CreditInv'
    BY <1>1, <1>8 DEF ReceiveError, OnSend, jobVars
<1>9. ASSUME NEW t \in Threads, OnMiningAuthorize(t) \/ OnOtherMessage(t) \/ AcceptFailed(t) PROVE CreditInv'
    BY <1>1, <1>9 DEF OnMiningAuthorize, OnOtherMessage, AcceptFailed, vars, jobVars
<1>10. ASSUME NEW ip \in IPs, BanExpires(ip) PROVE CreditInv'
    BY <1>1, <1>10 DEF BanExpires, jobVars
<1>11. QED
    BY <1>1, <1>2, <1>3, <1>4, <1>5, <1>6, <1>7, <1>8, <1>9, <1>10, ContinueCredit, DestroyCredit
    DEF Next, OnMessage, TakeEvent, vars, jobVars

\* With one worker thread no share of a job is paid twice, whether it is
\* queued for upload or inserted directly with a found block.
THEOREM SharesPaidOnce == ASSUME SingleThread PROVE Spec => []CreditOnce
<1>1. Init => CreditInv
    BY IdleAndRecvPayNothing DEF Init, CreditInv, PaidRecorded
<1>2. CreditInv => CreditOnce
    BY DEF CreditInv, PaidRecorded, CreditOnce, Key
<1>3. QED
    BY <1>1, <1>2, NextCredit, JobsStayLive, TypeInvAlways, PTL DEF Spec

-----------------------------------------------------------------------------
(***************************************************************************)
(* With any number of threads: which steps can leave a closed client in    *)
(* the client set, and which can leave a client with a job of an old block *)
(* after the reset for it has run.                                         *)
(***************************************************************************)

\* A client that is registered although its socket is not open.
Behind(c) == c \in clients /\ sock[c] # "open"

\* A registered client holds a job from before the last reset, and no reset is
\* on its way to it.
Stale(c, j) == c \in clients /\ j \in jobs[c] /\ j.work < resetWork /\ ~ResetPending(c)

\* A notification in the queue of the io_service carries no clients.
QueueInv == \A i \in 1..Len(ioq) : ioq[i].kind = "notify" => ioq[i].conns = {}

\* The clients that stay registered stay open.
KeepsOpen ==
    /\ clients' \subseteq clients
    /\ \A c \in clients' : sock[c] = "open" => sock'[c] = "open"

OthersWait(t) == \A u \in Threads : u # t => run'[u] = run[u]

\* A step that neither brings a client, a job or a reset nor ends a pending one.
Calm(t) ==
    /\ KeepsOpen /\ jobs' = jobs /\ resetWork' = resetWork /\ ioq' = ioq
    /\ run[t].pc \notin {"clean", "fanout"}
    /\ OthersWait(t)

\* Goto moves one thread.
LEMMA GotoOthers ==
    ASSUME TypeInv, NEW t \in Threads
    PROVE  \A g : Goto(t, g) => OthersWait(t) /\ run'[t] = g
BY DEF Goto, OthersWait, TypeInv, TypeOK

\* Disconnect takes the client it closes out of the set.
LEMMA DisconnectKeepsOpen ==
    ASSUME TypeInv, NEW c \in Conns, Disconnect(c)
    PROVE  KeepsOpen
BY DEF Disconnect, KeepsOpen, TypeInv, TypeOK, ServerOK, ConnOK

\* The steps of a handler that checks a share.
LEMMA SubmitCalm ==
    ASSUME TypeInv, NEW t \in Threads,
           \/ LimiterPass(t) \/ LimiterRetarget(t) \/ LimiterDiscard(t) \/ LimiterBan(t)
           \/ WrongSize(t) \/ SubmitShare(t) \/ EvaluateShare(t)
           \/ SubmitBlock(t) \/ CreditBlock(t)
    PROVE  Calm(t)
<1>1. CASE LimiterPass(t) \/ LimiterRetarget(t) \/ LimiterDiscard(t)
    BY <1>1, GotoOthers
    DEF LimiterPass, LimiterRetarget, LimiterDiscard, Step, At, Calm, KeepsOpen,
        serverVars, connVars, jobVars, netVars
<1>2. CASE LimiterBan(t)
    <2>1. run[t].conn \in Conns
        BY <1>2, CurrentFrame DEF LimiterBan, At, FrameOK, SubmitPcs
    <2>2. KeepsOpen
        BY <1>2, <2>1, DisconnectKeepsOpen DEF LimiterBan
    <2>3. QED
        BY <1>2, <2>2, GotoOthers DEF LimiterBan, At, Calm, jobVars, netVars
<1>3. CASE WrongSize(t) \/ SubmitShare(t) \/ EvaluateShare(t)
    BY <1>3, GotoOthers
    DEF WrongSize, SubmitShare, EvaluateShare, Step, At, Calm, KeepsOpen,
        serverVars, connVars, jobVars, netVars
<1>4. CASE SubmitBlock(t) \/ CreditBlock(t)
    BY <1>4, GotoOthers
    DEF SubmitBlock, CreditBlock, At, Calm, KeepsOpen, serverVars, connVars, jobVars, netVars
<1>5. QED
    BY <1>1, <1>2, <1>3, <1>4

\* SendJob before it stores its job, and NetworkMgr before it posts.
LEMMA ReadCalm ==
    ASSUME TypeInv, NEW t \in Threads,
           \/ GetJob(t) \/ TakeJobId(t)
           \/ BlockCheckNewBlock(t) \/ BlockCheckDone(t) \/ BindTemplate(t)
           \/ BlockCheckTimer(t) \/ BlockNotifyTimer(t)
    PROVE  Calm(t)
BY GotoOthers
DEF GetJob, TakeJobId, BlockCheckNewBlock, BlockCheckDone, BindTemplate, BlockCheckTimer,
    BlockNotifyTimer, FetchTemplate, Idle, At, Calm, KeepsOpen, serverVars, connVars, jobVars, netVars

\* The messages, before their first call.
LEMMA MessageCalm ==
    ASSUME TypeInv, NEW t \in Threads, OnMessage(t)
    PROVE  Calm(t)
<1>1. CASE OnMiningSubscribe(t)
    BY <1>1, GotoOthers DEF OnMiningSubscribe, At, Calm, KeepsOpen, jobVars, netVars
<1>2. CASE OnMiningAuthorize(t) \/ OnOtherMessage(t)
    BY <1>2
    DEF OnMiningAuthorize, OnOtherMessage, At, Calm, KeepsOpen, OthersWait,
        vars, serverVars, connVars, jobVars, netVars
<1>3. CASE OnMiningSubmit(t)
    <2>1. OthersWait(t)
        BY <1>3, GotoOthers DEF OnMiningSubmit, OthersWait
    <2>2. QED
        BY <1>3, <2>1 DEF OnMiningSubmit, At, Calm, KeepsOpen, serverVars, connVars, jobVars, netVars
<1>4. QED
    BY <1>1, <1>2, <1>3 DEF OnMessage

\* Accepting, reading and writing.
LEMMA SocketCalm ==
    ASSUME TypeInv, NEW t \in Threads, NEW c \in Conns,
           OnAccept(t, c) \/ Receive(t, c) \/ ReceiveError(t, c) \/ OnSend(t, c) \/ EndReceive(t)
    PROVE  Calm(t)
<1>1. CASE OnAccept(t, c)
    <2>1. KeepsOpen
        BY <1>1, DisconnectKeepsOpen
        DEF OnAccept, KeepsOpen, TypeInv, TypeOK, ServerOK, ConnOK
    <2>2. OthersWait(t)
        BY <1>1, GotoOthers DEF OnAccept, OthersWait
    <2>3. QED
        BY <1>1, <2>1, <2>2 DEF OnAccept, Idle, Calm, jobVars, netVars
<1>2. CASE Receive(t, c)
    BY <1>2, GotoOthers DEF Receive, Idle, Calm, KeepsOpen, serverVars, jobVars, netVars
<1>3. CASE ReceiveError(t, c) \/ OnSend(t, c)
    <2>1. KeepsOpen
        BY <1>3, DisconnectKeepsOpen DEF ReceiveError, OnSend, KeepsOpen
    <2>2. QED
        BY <1>3, <2>1 DEF ReceiveError, OnSend, Idle, Calm, OthersWait, jobVars, netVars
<1>4. CASE EndReceive(t)
    <2>1. run[t].conn \in Conns
        BY <1>4, CurrentFrame DEF EndReceive, At, FrameOK
    <2>2. KeepsOpen
        BY <1>4, <2>1, DisconnectKeepsOpen DEF EndReceive, KeepsOpen
    <2>3. QED
        BY <1>4, <2>2, GotoOthers DEF EndReceive, At, Calm, jobVars, netVars
<1>5. QED
    BY <1>1, <1>2, <1>3, <1>4

\* The steps that store or delete jobs, post to the queue or take from it leave
\* the client set and the sockets alone.
BusyStep(t) ==
    \/ SendJobClean(t) \/ PutJob(t) \/ BlockNotifySend(t) \/ BlockNotify(t) \/ SendBlockTmpl(t)
    \/ TakeNotify(t) \/ \E c \in Conns : TakeSendJob(t, c)

LEMMA BusyKeepsOpen ==
    ASSUME NEW t, BusyStep(t)
    PROVE  KeepsOpen /\ clients' = clients
BY DEF BusyStep, SendJobClean, PutJob, BlockNotifySend, BlockNotify, SendBlockTmpl, TakeNotify,
       TakeSendJob, KeepsOpen, serverVars, connVars

\* A step of a thread inserts a client, is calm, or is one of those.
LEMMA ThreadStep ==
    ASSUME TypeInv, NEW t \in Threads,
           Continue(t) \/ OnMessage(t) \/ EndReceive(t) \/ TakePosted(t) \/ TakeEvent(t)
    PROVE  InsertClient(t) \/ Calm(t) \/ BusyStep(t) \/ UNCHANGED vars
<1>1. CASE Continue(t)
    BY <1>1, SubmitCalm, ReadCalm DEF Continue, BusyStep
<1>2. CASE OnMessage(t) \/ TakePosted(t)
    BY <1>2, MessageCalm DEF TakePosted, BusyStep
<1>3. CASE EndReceive(t)
    <2>1. run[t].conn \in Conns
        BY <1>3, CurrentFrame DEF EndReceive, At, FrameOK
    <2>2. QED
        BY <1>3, <2>1, SocketCalm
<1>4. CASE TakeEvent(t)
    BY <1>4, ReadCalm, SocketCalm DEF TakeEvent, AcceptFailed
<1>5. QED
    BY <1>1, <1>2, <1>3, <1>4

\* ~Client runs only for a client that is not in the set.
LEMMA DestroyKeepsOpen ==
    ASSUME TypeInv, NEW c \in Conns, Destroy(c)
    PROVE  KeepsOpen
BY DEF Destroy, KeepsOpen, TypeInv, TypeOK, ServerOK, ConnOK, serverVars

\* With any number of threads and clients, the insert of _OnAccept, after Start has
\* begun to read, is the only step that can leave a client in the set whose socket
\* is not open: every disconnect, ban, error and destruction takes it out.
THEOREM OnlyInsertLeavesBehind ==
    Spec => [][\A c \in Conns : Behind(c)' /\ ~Behind(c) =>
                    \E t \in Threads : InsertClient(t) /\ run[t].conn = c]_vars
<1> DEFINE Step1 == \A c \in Conns : Behind(c)' /\ ~Behind(c) =>
                        \E t \in Threads : InsertClient(t) /\ run[t].conn = c
<1>1. TypeInv /\ [Next]_vars => [Step1]_vars
    <2> SUFFICES ASSUME TypeInv, Next PROVE Step1 \/ UNCHANGED vars
        BY DEF vars
    <2>1. CASE KeepsOpen
        BY <2>1 DEF KeepsOpen, Behind
    <2>2. ASSUME NEW t \in Threads, InsertClient(t) PROVE Step1
        BY <2>2 DEF InsertClient, Behind, connVars
    <2>3. ASSUME NEW ip \in IPs, BanExpires(ip) PROVE KeepsOpen
        BY <2>3 DEF BanExpires, KeepsOpen, connVars
    <2>4. QED
        BY <2>1, <2>2, <2>3, ThreadStep, BusyKeepsOpen, DestroyKeepsOpen DEF Next, Calm
<1>2. QED
    BY <1>1, TypeInvAlways, PTL DEF Spec

-----------------------------------------------------------------------------
\* The queue of the io_service: an entry is put behind the others, or taken away.
LEMMA PostedEntries ==
    ASSUME NEW q \in Seq(Entries), NEW e \in Entries
    PROVE  /\ Len(Post(q, e)) = Len(q) + 1 /\ Len(q) \in Nat
           /\ \A i \in 1..Len(q) : Post(q, e)[i] = q[i]
           /\ Post(q, e)[Len(q) + 1] = e
BY DEF Post

LEMMA TakenEntries ==
    ASSUME NEW q \in Seq(Entries), q # <<>>
    PROVE  /\ Head(q) = q[1] /\ q[1] \in Entries /\ Len(q) \in Nat \ {0} /\ Len(Tail(q)) = Len(q) - 1
           /\ \A i \in 1..Len(Tail(q)) : Tail(q)[i] = q[i + 1] /\ i + 1 \in 1..Len(q)
OBVIOUS

\* A reset waits in the queue, or a thread is about to post or to run it.
InQueue(c) == \E i \in 1..Len(ioq) : ioq[i].flag /\ c \in ioq[i].conns
InThread(u, c) == (At(u, "fanout") /\ run[u].flag) \/ (At(u, "clean") /\ run[u].conn = c)

LEMMA PendingSomewhere ==
    \A c : ResetPending(c) <=> InQueue(c) \/ \E u \in Threads : InThread(u, c)
BY DEF ResetPending, InQueue, InThread

\* A step of thread t loses no reset for c if the queue and t do not.
LEMMA KeepsPending ==
    ASSUME NEW t \in Threads, OthersWait(t), NEW c,
           InQueue(c) => InQueue(c)' \/ InThread(t, c)',
           InThread(t, c) => InQueue(c)' \/ InThread(t, c)'
    PROVE  ResetPending(c) => ResetPending(c)'
<1>1. (InQueue(c) \/ \E u \in Threads : InThread(u, c))
        => (InQueue(c)' \/ \E u \in Threads : InThread(u, c)')
    BY DEF OthersWait, InThread, At
<1>2. ResetPending(c)' <=> InQueue(c)' \/ \E u \in Threads : InThread(u, c)'
    BY DEF ResetPending, InQueue, InThread, At
<1>3. QED
    BY <1>1, <1>2, PendingSomewhere

\* A step that brings no job and loses no reset makes no job stale.
LEMMA NothingStale ==
    ASSUME NEW c, clients' \subseteq clients, jobs'[c] \subseteq jobs[c], resetWork' = resetWork,
           ResetPending(c) => ResetPending(c)'
    PROVE  \A j : Stale(c, j)' => Stale(c, j)
BY DEF Stale

\* The calm steps, the inserts and the ends of bans.
LEMMA CalmStale ==
    ASSUME NEW t \in Threads, Calm(t), NEW c
    PROVE  \A j : Stale(c, j)' => Stale(c, j)
<1>1. InQueue(c) => InQueue(c)'
    BY DEF Calm, InQueue
<1>2. ~InThread(t, c)
    BY DEF Calm, InThread, At
<1>3. QED
    BY <1>1, <1>2, KeepsPending, NothingStale DEF Calm, KeepsOpen

\* SendJobClean carries the reset out; no job of the client is left.
LEMMA CleanStale ==
    ASSUME TypeInv, NEW t \in Threads, SendJobClean(t), NEW c \in Conns
    PROVE  \A j : Stale(c, j)' => Stale(c, j)
<1>1. CASE run[t].conn = c
    BY <1>1 DEF SendJobClean, CleanJobs, Stale, TypeInv, TypeOK, JobOK
<1>2. CASE run[t].conn # c
    <2>1. OthersWait(t) /\ (InQueue(c) => InQueue(c)') /\ ~InThread(t, c)
        BY <1>2, GotoOthers DEF SendJobClean, Step, At, InThread, InQueue, netVars
    <2>2. jobs'[c] \subseteq jobs[c]
        BY <1>2 DEF SendJobClean, CleanJobs, TypeInv, TypeOK, JobOK
    <2>3. QED
        BY <2>1, <2>2, KeepsPending, NothingStale DEF SendJobClean, serverVars
<1>3. QED
    BY <1>1, <1>2

\* PutJob brings one job, with the work its thread has read.
LEMMA PutStale ==
    ASSUME TypeInv, NEW t \in Threads, PutJob(t), NEW c \in Conns, NEW j, Stale(c, j)', ~Stale(c, j)
    PROVE  run[t].conn = c /\ run[t].newWork = j.work
<1>1. OthersWait(t) /\ (InQueue(c) => InQueue(c)') /\ ~InThread(t, c)
    BY GotoOthers DEF PutJob, At, InThread, InQueue, netVars
<1>2. ResetPending(c) => ResetPending(c)'
    BY <1>1, KeepsPending
<1>3. j \in jobs'[c] /\ j \notin jobs[c]
    BY <1>2 DEF PutJob, Stale, serverVars
<1>4. QED
    BY <1>3 DEF PutJob, TypeInv, TypeOK, JobOK

\* BlockNotify: with a new block the reset is about to be posted to every client.
LEMMA NotifyStale ==
    ASSUME TypeInv, NEW t \in Threads, BlockNotify(t), NEW c
    PROVE  \A j : Stale(c, j)' => Stale(c, j)
<1> DEFINE f == run[t]
<1>1. OthersWait(t) /\ run'[t].pc = "fanout" /\ run'[t].flag = f.flag
    <2>1. OthersWait(t) /\ run'[t] = [f EXCEPT !.pc = "fanout", !.newWork = 0]
        BY GotoOthers DEF BlockNotify
    <2>2. QED
        BY <2>1, CurrentFrame DEF Frames
<1>2. CASE f.flag
    BY <1>1, <1>2 DEF Stale, ResetPending, At
<1>3. CASE ~f.flag
    <2>1. (InQueue(c) => InQueue(c)') /\ ~InThread(t, c)
        BY DEF BlockNotify, At, InThread, InQueue, netVars
    <2>2. QED
        BY <1>1, <1>3, <2>1, KeepsPending, NothingStale DEF BlockNotify, connVars, jobVars
<1>4. QED
    BY <1>2, <1>3

\* What waits in the queue goes on waiting when an entry is put behind it.
LEMMA PostQueue ==
    ASSUME TypeInv, NEW e \in Entries, ioq' = Post(ioq, e), NEW c
    PROVE  (InQueue(c) \/ (e.flag /\ c \in e.conns)) => InQueue(c)'
<1>1. ioq \in Seq(Entries)
    BY DEF TypeInv, TypeOK, NetOK
<1>2. /\ Len(ioq') = Len(ioq) + 1 /\ Len(ioq) \in Nat
      /\ \A i \in 1..Len(ioq) : ioq'[i] = ioq[i]
      /\ ioq'[Len(ioq) + 1] = e
    BY <1>1, PostedEntries, Zenon
<1>3. Len(ioq) + 1 \in 1..Len(ioq') /\ \A i \in 1..Len(ioq) : i \in 1..Len(ioq')
    BY <1>2
<1>4. QED
    BY <1>2, <1>3 DEF InQueue

\* BlockNotifySend posts a notification, which resets nobody yet.
LEMMA SendStale ==
    ASSUME TypeInv, NEW t \in Threads, BlockNotifySend(t), NEW c
    PROVE  \A j : Stale(c, j)' => Stale(c, j)
<1>1. Notification(run[t].newWork, run[t].flag) \in Entries
    BY CurrentFrame DEF Notification, Entries, Frames
<1>2. InQueue(c) => InQueue(c)'
    BY <1>1, PostQueue DEF BlockNotifySend
<1>3. OthersWait(t) /\ ~InThread(t, c)
    BY GotoOthers DEF BlockNotifySend, At, InThread
<1>4. QED
    BY <1>2, <1>3, KeepsPending, NothingStale DEF BlockNotifySend, serverVars, jobVars

\* SendBlockTmpl posts its reset for every registered client.
LEMMA FanOutStale ==
    ASSUME TypeInv, NEW t \in Threads, SendBlockTmpl(t), NEW c
    PROVE  \A j : Stale(c, j)' => Stale(c, j)
<1> DEFINE f == run[t]
           e == FanOut(f.flag)
<1>1. UNCHANGED <<clients, jobs, resetWork>> /\ f.pc = "fanout" /\ OthersWait(t)
    BY GotoOthers DEF SendBlockTmpl, At, serverVars, jobVars
<1>2. CASE clients = {}
    BY <1>1, <1>2 DEF Stale
<1>3. CASE clients # {}
    <2>1. e \in Entries /\ e.conns = clients /\ e.flag = f.flag
        BY CurrentFrame DEF FanOut, SendJobs, Entries, Frames, TypeInv, TypeOK, ServerOK
    <2>2. ioq' = Post(ioq, e)
        BY <1>3 DEF SendBlockTmpl
    <2> HIDE DEF e
    <2>3. CASE c \notin clients
        BY <1>1, <2>3 DEF Stale
    <2>4. CASE c \in clients
        <3>1. InQueue(c) \/ InThread(t, c) => InQueue(c)'
            BY <1>1, <2>1, <2>2, <2>4, PostQueue DEF InThread, At
        <3>2. QED
            BY <1>1, <3>1, KeepsPending, NothingStale
    <2>5. QED
        BY <2>3, <2>4
<1>4. QED
    BY <1>2, <1>3

\* TakeNotify takes an entry that resets nobody.
LEMMA TakeNotifyStale ==
    ASSUME TypeInv, QueueInv, NEW t \in Threads, TakeNotify(t), NEW c
    PROVE  \A j : Stale(c, j)' => Stale(c, j)
<1>1. ioq \in Seq(Entries) /\ ioq # <<>> /\ ioq' = Tail(ioq) /\ Head(ioq).kind = "notify"
    BY DEF TakeNotify, TypeInv, TypeOK, NetOK
<1>2. /\ Head(ioq) = ioq[1] /\ Len(ioq) \in Nat \ {0} /\ Len(ioq') = Len(ioq) - 1
      /\ \A i \in 1..Len(ioq') : ioq'[i] = ioq[i + 1] /\ i + 1 \in 1..Len(ioq)
    BY <1>1, TakenEntries
<1>3. ioq[1].conns = {}
    BY <1>1, <1>2 DEF QueueInv
<1>4. \A i \in 1..Len(ioq) : i = 1 \/ (i - 1 \in 1..Len(ioq') /\ ioq'[i - 1] = ioq[i])
    BY <1>2
<1>5. InQueue(c) => InQueue(c)'
    BY <1>3, <1>4 DEF InQueue
<1>6. OthersWait(t) /\ ~InThread(t, c)
    BY GotoOthers DEF TakeNotify, Idle, InThread, At
<1>7. QED
    BY <1>5, <1>6, KeepsPending, NothingStale DEF TakeNotify, serverVars, jobVars

\* TakeSendJob: every entry that is left was there, without the client taken.
LEMMA TakeSendQueue ==
    ASSUME TypeInv, NEW t \in Threads, NEW c \in Conns, TakeSendJob(t, c)
    PROVE  /\ ioq[1] \in Entries /\ Head(ioq) = ioq[1]
           /\ \A i \in 1..Len(ioq') : \E k \in 1..Len(ioq) :
                ioq'[i].kind = ioq[k].kind /\ ioq'[i].conns \subseteq ioq[k].conns
           /\ \A d : InQueue(d) => InQueue(d)' \/ (d = c /\ ioq[1].flag)
<1>1. ioq \in Seq(Entries) /\ ioq # <<>>
    BY DEF TakeSendJob, TypeInv, TypeOK, NetOK
<1>2. /\ Head(ioq) = ioq[1] /\ ioq[1] \in Entries /\ Len(ioq) \in Nat \ {0} /\ 1 \in 1..Len(ioq)
    BY <1>1, TakenEntries
<1>3. CASE ioq[1].conns = {c}
    <2>1. ioq' = Tail(ioq)
        BY <1>2, <1>3 DEF TakeSendJob
    <2>2. /\ Len(ioq') = Len(ioq) - 1
          /\ \A i \in 1..Len(ioq') : ioq'[i] = ioq[i + 1] /\ i + 1 \in 1..Len(ioq)
        BY <1>1, <2>1, TakenEntries
    <2>3. \A i \in 1..Len(ioq) : i = 1 \/ (i - 1 \in 1..Len(ioq') /\ ioq'[i - 1] = ioq[i])
        BY <1>2, <2>2
    <2>4. \A d : InQueue(d) => InQueue(d)' \/ (d = c /\ ioq[1].flag)
        BY <1>3, <2>3 DEF InQueue
    <2>5. QED
        BY <1>2, <2>2, <2>4
<1>4. CASE ioq[1].conns # {c}
    <2> DEFINE e == [ioq[1] EXCEPT !.conns = @ \ {c}]
    <2>1. ioq' = [ioq EXCEPT ![1] = e]
        BY <1>2, <1>4 DEF TakeSendJob
    <2>2. e.kind = ioq[1].kind /\ e.conns = ioq[1].conns \ {c} /\ e.flag = ioq[1].flag
        BY <1>2 DEF Entries
    <2> HIDE DEF e
    <2>3. Len(ioq') = Len(ioq) /\ \A i \in 1..Len(ioq) : ioq'[i] = IF i = 1 THEN e ELSE ioq[i]
        BY <1>1, <1>2, <2>1
    <2>4. QED
        BY <1>2, <2>2, <2>3 DEF InQueue
<1>5. QED
    BY <1>3, <1>4

\* The client whose SendJob is taken is about to be cleaned, the others still wait.
LEMMA TakeSendStale ==
    ASSUME TypeInv, NEW t \in Threads, NEW d \in Conns, TakeSendJob(t, d), NEW c
    PROVE  \A j : Stale(c, j)' => Stale(c, j)
<1>1. OthersWait(t) /\ run'[t] = StartSend(d, Head(ioq).flag) /\ ~InThread(t, c)
    BY GotoOthers DEF TakeSendJob, Idle, InThread, At
<1>2. d = c /\ ioq[1].flag => InThread(t, c)'
    BY <1>1, TakeSendQueue DEF StartSend, Frame, InThread, At
<1>3. InQueue(c) => InQueue(c)' \/ InThread(t, c)'
    BY <1>2, TakeSendQueue
<1>4. QED
    BY <1>1, <1>3, KeepsPending, NothingStale DEF TakeSendJob, serverVars, jobVars

\* The destructor deletes jobs.
LEMMA DestroyStale ==
    ASSUME TypeInv, NEW d \in Conns, Destroy(d), NEW c \in Conns
    PROVE  \A j : Stale(c, j)' => Stale(c, j)
<1>1. jobs'[c] \subseteq jobs[c]
    BY DEF Destroy, CleanJobs, TypeInv, TypeOK, JobOK
<1>2. ResetPending(c) => ResetPending(c)'
    BY DEF Destroy, ResetPending, At, netVars
<1>3. QED
    BY <1>1, <1>2, NothingStale DEF Destroy, serverVars

\* Notifications stay without clients.
LEMMA NextQueueInv ==
    ASSUME TypeInv, QueueInv, [Next]_vars
    PROVE  QueueInv'
<1>1. CASE ioq' = ioq
    BY <1>1 DEF QueueInv
<1>2. ASSUME NEW e \in Entries, ioq' = Post(ioq, e), e.kind = "notify" => e.conns = {}
      PROVE  QueueInv'
    <2>1. ioq \in Seq(Entries)
        BY DEF TypeInv, TypeOK, NetOK
    <2>2. /\ Len(ioq') = Len(ioq) + 1 /\ Len(ioq) \in Nat
          /\ \A i \in 1..Len(ioq) : ioq'[i] = ioq[i]
          /\ ioq'[Len(ioq) + 1] = e
        BY <1>2, <2>1, PostedEntries, Zenon
    <2>3. \A i \in 1..Len(ioq') : i \in 1..Len(ioq) \/ i = Len(ioq) + 1
        BY <2>2
    <2>4. QED
        BY <1>2, <2>2, <2>3 DEF QueueInv
<1>3. ASSUME NEW t \in Threads, BlockNotifySend(t) PROVE QueueInv'
    <2>1. Notification(run[t].newWork, run[t].flag) \in Entries
        BY CurrentFrame DEF Notification, Entries, Frames
    <2>2. Notification(run[t].newWork, run[t].flag).conns = {}
        BY DEF Notification
    <2>3. QED
        BY <1>2, <1>3, <2>1, <2>2 DEF BlockNotifySend
<1>4. ASSUME NEW t \in Threads, SendBlockTmpl(t) PROVE QueueInv'
    <2>1. FanOut(run[t].flag) \in Entries /\ FanOut(run[t].flag).kind = "jobs"
        BY CurrentFrame DEF FanOut, SendJobs, Entries, Frames, TypeInv, TypeOK, ServerOK
    <2>2. QED
        BY <1>1, <1>2, <1>4, <2>1 DEF SendBlockTmpl
<1>5. ASSUME NEW t \in Threads, TakeNotify(t) PROVE QueueInv'
    <2>1. ioq \in Seq(Entries) /\ ioq # <<>> /\ ioq' = Tail(ioq)
        BY <1>5 DEF TakeNotify, TypeInv, TypeOK, NetOK
    <2>2. \A i \in 1..Len(ioq') : ioq'[i] = ioq[i + 1] /\ i + 1 \in 1..Len(ioq)
        BY <2>1, TakenEntries
    <2>3. QED
        BY <2>2 DEF QueueInv
<1>6. ASSUME NEW t \in Threads, NEW c \in Conns, TakeSendJob(t, c) PROVE QueueInv'
    BY <1>6, TakeSendQueue DEF QueueInv
<1>7. ASSUME NEW t \in Threads, InsertClient(t) PROVE ioq' = ioq
    BY <1>7 DEF InsertClient, netVars
<1>8. ASSUME NEW t \in Threads, SendJobClean(t) \/ PutJob(t) \/ BlockNotify(t) PROVE ioq' = ioq
    BY <1>8 DEF SendJobClean, PutJob, BlockNotify, netVars
<1>9. (\E ip \in IPs : BanExpires(ip)) \/ (\E c \in Conns : Destroy(c)) \/ UNCHANGED vars => ioq' = ioq
    BY DEF BanExpires, Destroy, vars, netVars
<1>10. QED
    BY <1>1, <1>3, <1>4, <1>5, <1>6, <1>7, <1>8, <1>9, ThreadStep DEF Next, BusyStep, Calm

\* With any number of threads and clients a job from before the last reset comes
\* into a client's hands after its reset in two ways only: a SendJob that read the
\* work before the reset stores it now, or the client is registered now, with jobs it
\* was sent before the reset was posted.  BlockNotify, SendBlockTmpl, the queue and
\* the SendJob(true) of the other clients lose no reset.
THEOREM StaleOnlyLate ==
    Spec => [][\A c \in Conns : \A j \in [id: Nat, work: Nat] : Stale(c, j)' /\ ~Stale(c, j) =>
                    \E t \in Threads : /\ run[t].conn = c
                                       /\ InsertClient(t) \/ (PutJob(t) /\ run[t].newWork = j.work)]_vars
<1> DEFINE Late(c, j) == \E t \in Threads : /\ run[t].conn = c
                                            /\ InsertClient(t) \/ (PutJob(t) /\ run[t].newWork = j.work)
           OnlyLate == \A c \in Conns : \A j \in [id: Nat, work: Nat] :
                            Stale(c, j)' /\ ~Stale(c, j) => Late(c, j)
<1>1. TypeInv /\ QueueInv /\ [Next]_vars => [OnlyLate]_vars
    <2> SUFFICES ASSUME TypeInv, QueueInv, Next, NEW c \in Conns, NEW j \in [id: Nat, work: Nat],
                        Stale(c, j)', ~Stale(c, j)
                 PROVE  Late(c, j) \/ UNCHANGED vars
        BY DEF vars
    <2>1. ASSUME NEW t \in Threads, InsertClient(t) PROVE Late(c, j)
        <3>1. CASE run[t].conn = c
            BY <2>1, <3>1
        <3>2. CASE run[t].conn # c
            <4>1. (InQueue(c) => InQueue(c)') /\ ~InThread(t, c) /\ OthersWait(t)
                BY <2>1, GotoOthers DEF InsertClient, At, InThread, InQueue, netVars
            <4>2. ResetPending(c) => ResetPending(c)'
                BY <4>1, KeepsPending
            <4>3. QED
                BY <2>1, <3>2, <4>2 DEF InsertClient, Stale, jobVars
        <3>3. QED
            BY <3>1, <3>2
    <2>2. ASSUME NEW t \in Threads, BusyStep(t) PROVE Late(c, j)
        <3>1. CASE PutJob(t)
            BY <3>1, PutStale
        <3>2. CASE SendJobClean(t) \/ BlockNotifySend(t) \/ BlockNotify(t) \/ SendBlockTmpl(t)
            BY <3>2, CleanStale, SendStale, NotifyStale, FanOutStale
        <3>3. CASE TakeNotify(t) \/ \E d \in Conns : TakeSendJob(t, d)
            BY <3>3, TakeNotifyStale, TakeSendStale
        <3>4. QED
            BY <2>2, <3>1, <3>2, <3>3 DEF BusyStep
    <2>3. ASSUME NEW ip \in IPs, BanExpires(ip) PROVE FALSE
        BY <2>3 DEF BanExpires, Stale, ResetPending, At, jobVars, netVars
    <2>4. ASSUME NEW d \in Conns, Destroy(d) PROVE FALSE
        BY <2>4, DestroyStale
    <2>5. QED
        BY <2>1, <2>2, <2>3, <2>4, ThreadStep, CalmStale DEF Next
<1>2. Init => QueueInv
    BY DEF Init, QueueInv
<1>3. TypeInv /\ QueueInv /\ [Next]_vars => QueueInv'
    BY NextQueueInv
<1>4. QED
    BY <1>1, <1>2, <1>3, TypeInvAlways, PTL DEF Spec

=============================================================================
