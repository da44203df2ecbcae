---------------------------- MODULE ShareLimiter ----------------------------
(***************************************************************************)
(* Stratum::ShareLimiter and the difficulty of its Client: the records of  *)
(* recent shares, the periodic check that bans or retargets, and the       *)
(* unsigned arithmetic of that check.                                      *)
(*                                                                         *)
(* One message of one client is handled at a time (module Stratum has the  *)
(* interleavings).  A job is its difficulty.  The clock is Util::Date.     *)
(* Constants of the code and its integer widths are parameters, so that    *)
(* TLC can run them at a smaller scale; abs() takes an int.                *)
(***************************************************************************)
EXTENDS Integers, Sequences, SequencesExt

CONSTANTS
    Interval,       \* RetargetInterval
    Threshold,      \* RetargetSharesThreshold
    Buffer,         \* RetargetTimeBuffer
    TimePerShare,   \* RetargetTimePerShare
    Variance,       \* RetargetVariance
    StartDiff,      \* RetargetStartingDiff
    MinDiff,        \* RetargetMinDiff
    MaxDiff,        \* RetargetMaxDiff
    WorkerDiffs,    \* `mindiff' of the rows of pool_worker
    Huge,           \* 2000 percent
    BanShares,      \* 200 shares
    Grace,          \* 10 seconds
    Wide, Narrow,   \* 2^64 and 2^32
    Garbage,        \* what the uninitialised _lastRetargetShares may hold
    StartTime,      \* the time when the client connects
    MaxTime,        \* bound: the clock
    MaxShares       \* bound: shares submitted

\* The three difficulties of the configuration are never compared with each
\* other.  None may be zero: a job at difficulty zero divides by zero already
\* in its target (GetJob).
ASSUME ConfigAssumption ==
    /\ {Interval, Threshold, Buffer, TimePerShare, Grace} \subseteq Nat \ {0}
    /\ {StartDiff, MinDiff, MaxDiff} \subseteq Nat \ {0}
    /\ Variance \in Nat /\ WorkerDiffs \subseteq Nat
ASSUME WidthAssumption ==
    /\ {Huge, BanShares} \subseteq Nat /\ Wide \in Nat \ {0} /\ Narrow \in Nat \ {0}
    /\ Garbage \subseteq 0..(Wide - 1)
ASSUME BoundAssumption ==
    /\ StartTime \in Nat /\ Buffer + Grace <= StartTime
    /\ MaxTime \in Nat /\ MaxShares \in Nat

VARIABLES
    now,            \* Util::Date()
    window,         \* _shares
    lastTime,       \* _lastRetargetTime
    lastShares,     \* _lastRetargetShares
    total,          \* _totalShares
    bad,            \* _totalBadShares
    diff,           \* Client::_diff
    minDiff,        \* Client::_minDiff
    jobs,           \* the difficulties of Client::_jobs
    authorized,     \* Client::_workers is not empty
    banned,         \* Client::Ban was called
    early,          \* history: live jobs sent before the last authorisation
    submitted       \* history: submissions of authorised workers

limiterVars == <<window, lastTime, lastShares, total>>
clientVars == <<diff, minDiff, jobs, authorized, early>>
vars == <<now, window, lastTime, lastShares, total, bad, diff, minDiff, jobs,
          authorized, banned, early, submitted>>

startTime == StartTime - Grace

Init ==
    /\ now = StartTime
    /\ window = <<>> /\ lastTime = startTime /\ lastShares \in Garbage
    /\ total = 0 /\ bad = 0
    /\ diff = StartDiff /\ minDiff = MinDiff /\ jobs = {}
    /\ authorized = FALSE /\ early = {}
    /\ banned = FALSE /\ submitted = 0

Tick ==
    /\ now < MaxTime
    /\ now' = now + 1
    /\ UNCHANGED <<limiterVars, clientVars, bad, banned, submitted>>

-----------------------------------------------------------------------------
(***************************************************************************)
(* The client: SetDifficulty, SendJob, mining.authorize.                   *)
(***************************************************************************)
\* SetDifficulty raises a difficulty below the minimum of the worker.
NotRaised(d) == d
Raised(d) == IF d < minDiff THEN minDiff ELSE d

\* SetDifficulty(d, TRUE) sends a job at the new difficulty, if it is new.
Resend(d) == IF d = diff THEN jobs ELSE jobs \cup {d}

\* SendJob for mining.subscribe or a new template, which may clean the jobs.
SendJob(clean) ==
    /\ jobs' = {diff} \cup (IF clean THEN {} ELSE jobs)
    /\ early' = IF clean THEN {} ELSE early
    /\ UNCHANGED <<now, limiterVars, diff, minDiff, authorized, bad, banned, submitted>>

\* The worker's own minimum replaces the one of the client.  A higher
\* difficulty comes without a new job: those sent before stay as they are.
OnMiningAuthorize(d) ==
    /\ minDiff' = d
    /\ diff' = IF diff < d THEN d ELSE diff
    /\ authorized' = TRUE /\ early' = jobs
    /\ UNCHANGED <<now, limiterVars, jobs, bad, banned, submitted>>

LogBad(n) == n + 1

\* Error 21: the limiter hears of the bad share and not of the submission.
JobNotFound ==
    /\ authorized /\ submitted < MaxShares
    /\ submitted' = submitted + 1
    /\ bad' = LogBad(bad)
    /\ UNCHANGED <<now, limiterVars, clientVars, banned>>

-----------------------------------------------------------------------------
(***************************************************************************)
(* ShareLimiter::Submit for a job of difficulty d.                         *)
(***************************************************************************)
Pushed(d) == Append(window, [diff |-> d, time |-> now])

\* Both differences are unsigned.
NotDue == now - lastTime < Interval /\ (total + 1 - lastShares) % Wide < Threshold

SomeBad == total + 1 > BanShares /\ 10 * bad > total + 1
TooManyBad == total + 1 > BanShares /\ 10 * bad > 9 * (total + 1)

\* Old records are dropped from the front, up to the first recent one.
IsRecent(r) == r.time > now - Buffer
KeepOld(w) == w
Recent(w) ==
    LET first == SelectInSeq(w, IsRecent)
    IN  IF first = 0 THEN <<>> ELSE SubSeq(w, first, Len(w))

Least(a, b) == IF a < b THEN a ELSE b

\* The integer part of a quotient of doubles: rounding may leave an exact
\* quotient just below its value.
Quotient(a, b) == {a \div b} \cup (IF a % b = 0 /\ a > 0 THEN {a \div b - 1} ELSE {})

\* The difficulty at which the hash rate of the records gives one share in
\* TimePerShare seconds; the constant of the hash rate cancels out.
Wanted(w) ==
    Quotient(FoldLeft(LAMBDA sum, r : sum + r.diff, 0, w) * TimePerShare,
             Least(now - startTime, Buffer))

Limited(d) ==
    LET low == IF d < MinDiff THEN MinDiff ELSE d
    IN  Least(low, MaxDiff)

\* What Limited can return; the upper limit wins over a lower one above it.
Targets == Least(MinDiff, MaxDiff)..MaxDiff

PercentSwapped(d) ==
    LET low == ((((diff - d) * 100) % Wide) \div diff) % Narrow
    IN  Least(low, Narrow - low)

\* (newDiff - diff) * 100 / diff in 64 bits, then abs() of the low 32 bits.
Percent(d) ==
    LET low == ((((d - diff) * 100) % Wide) \div diff) % Narrow
    IN  Least(low, Narrow - low)

\* The submission is counted; its own outcome comes after the verdict: a
\* duplicate or a share above the target is logged as bad.
Count(isBad) ==
    /\ authorized /\ submitted < MaxShares
    /\ submitted' = submitted + 1
    /\ total' = total + 1
    /\ bad' = IF isBad THEN LogBad(bad) ELSE bad
    /\ UNCHANGED <<now, minDiff, authorized>>

SubmitNotDue(d, isBad) ==
    /\ NotDue
    /\ Count(isBad)
    /\ window' = Pushed(d)
    /\ UNCHANGED <<lastTime, lastShares, diff, jobs, early, banned>>

Check ==
    /\ ~NotDue
    /\ lastTime' = now
    /\ lastShares' = total + 1

SubmitBan(d) ==
    /\ Check /\ TooManyBad
    /\ Count(FALSE)
    /\ window' = Pushed(d)
    /\ banned' = TRUE
    /\ UNCHANGED <<diff, jobs, early>>

\* The rest of a check that bans nobody: new is the wanted difficulty.
Retarget(d, new, isBad) ==
    /\ Check /\ ~TooManyBad
    /\ Count(isBad)
    /\ window' = Recent(Pushed(d))
    /\ \E q \in Wanted(window') : new = Limited(q)
    /\ UNCHANGED banned

SubmitKeep(d, new, isBad) ==
    /\ Percent(new) < Variance
    /\ Retarget(d, new, isBad)
    /\ UNCHANGED <<diff, jobs, early>>

SubmitChange(d, new, isBad) ==
    /\ Percent(new) >= Variance /\ Percent(new) <= Huge
    /\ Retarget(d, new, isBad)
    /\ diff' = Raised(new)
    /\ jobs' = Resend(Raised(new))
    /\ UNCHANGED early

\* The share is blocked and every job is discarded.
SubmitDiscard(d, new) ==
    /\ Percent(new) >= Variance /\ Percent(new) > Huge
    /\ Retarget(d, new, FALSE)
    /\ diff' = Raised(new)
    /\ jobs' = {diff'}
    /\ early' = {}

Submit(d) ==
    \/ SubmitBan(d)
    \/ \E isBad \in BOOLEAN :
        SubmitNotDue(d, isBad) \/
        \E new \in Targets : SubmitKeep(d, new, isBad) \/ SubmitChange(d, new, isBad)
    \/ \E new \in Targets : SubmitDiscard(d, new)

-----------------------------------------------------------------------------
Next ==
    \/ Tick
    \/ \E clean \in BOOLEAN : SendJob(clean)
    \/ \E d \in WorkerDiffs : OnMiningAuthorize(d)
    \/ JobNotFound
    \/ \E d \in jobs : Submit(d)

Spec == Init /\ [][Next]_vars

-----------------------------------------------------------------------------
(***************************************************************************)
(* Properties.                                                             *)
(***************************************************************************)
\* No job is at difficulty zero, by which the next check would divide.  From
\* its first authorisation on, a client is sent no job below the minimum of the
\* worker authorised last, whatever order authorisations, retargets and new
\* templates come in; before it, RetargetStartingDiff may be below
\* RetargetMinDiff.  Jobs sent before an authorisation stay live until the next
\* clean one, and their shares count at their own lower difficulty
\* (SetDifficulty, OnMiningAuthorize, GetJob).
DiffAboveMinimum ==
    /\ diff > 0 /\ \A d \in jobs : d > 0
    /\ authorized => diff >= minDiff /\ \A d \in jobs \ early : d >= minDiff

\* The records of an unbanned client never span more than the buffer and one
\* interval: every share that comes too late for the interval drops the old
\* ones (Submit).
SpanBounded ==
    ~banned /\ window # <<>> => Last(window).time - Head(window).time < Buffer + Interval

\* A client is banned only when at least 9 of 19 of its submissions were bad,
\* though submissions for unknown jobs are counted as bad and not as shares.
BanDeserved == [][banned' /\ ~banned => 19 * bad' >= 9 * submitted']_vars

\* The percentage of the check is what it says: jobs are discarded only when
\* the new difficulty is off by more than Huge percent.  That holds for every
\* higher one, and for a lower one, whose unsigned difference wraps, only while
\* the old one divides the quotient of the widths (it is a power of two):
\* otherwise the division of the wrapped number leaves no percentage, and
\* jobs may be discarded at any variance (Submit).
Off(new) == IF new > diff THEN new - diff ELSE diff - new
Exact(new) == new > diff \/ Wide % (diff * Narrow) = 0
DiscardOnlyHuge ==
    [][\A new \in Targets :
          Exact(new) /\ 100 * Off(new) <= Huge * diff => \A d \in jobs : ~SubmitDiscard(d, new)]_vars

=============================================================================
