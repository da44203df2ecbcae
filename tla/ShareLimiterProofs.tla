------------------------- MODULE ShareLimiterProofs -------------------------
(***************************************************************************)
(* For every configuration whose difficulties are positive, in any order:  *)
(* an authorised client is sent no job below the minimum of its worker,    *)
(* bans are deserved, jobs are not discarded for a small change that the   *)
(* arithmetic can express, and the records span a bounded time.            *)
(***************************************************************************)
EXTENDS ShareLimiter, SequenceTheorems, WellFoundedInduction, NaturalsInduction, TLAPS

\* DiffAboveMinimum with the types it needs; a lower bound on _diff alone is
\* not inductive, because authorisations move _minDiff and jobs keep old
\* difficulties.
DiffInv ==
    /\ diff \in Nat /\ minDiff \in Nat /\ jobs \subseteq Nat
    /\ authorized \in BOOLEAN
    /\ DiffAboveMinimum

\* A client starts at RetargetStartingDiff, without a job and unauthorised.
LEMMA DiffInit == Init => DiffInv
<1>1. StartDiff \in Nat \ {0} /\ MinDiff \in Nat
      BY ConfigAssumption
<1> SUFFICES ASSUME Init PROVE DiffInv
    OBVIOUS
<1>2. authorized \in BOOLEAN /\ ~authorized
      BY DEF Init
<1>3. diff = StartDiff /\ minDiff = MinDiff /\ jobs = {}
      BY DEF Init
<1> QED BY <1>1, <1>2, <1>3 DEF DiffInv, DiffAboveMinimum

\* What SetDifficulty stores is a positive number not below the minimum.
LEMMA RaisedOK ==
    ASSUME DiffInv, NEW d \in Targets
    PROVE  Raised(d) \in Nat /\ Raised(d) > 0 /\ Raised(d) >= minDiff
BY ConfigAssumption DEF DiffInv, DiffAboveMinimum, Raised, Targets, Least

\* Every step keeps the difficulty positive and above the minimum.
LEMMA DiffStep == DiffInv /\ [Next]_vars => DiffInv'
<1> SUFFICES ASSUME DiffInv, [Next]_vars PROVE DiffInv'
    OBVIOUS
<1> USE DEF DiffInv, DiffAboveMinimum
<1>1. CASE Tick
      BY <1>1 DEF Tick, clientVars
<1>2. ASSUME NEW clean \in BOOLEAN, SendJob(clean) PROVE DiffInv'
      BY <1>2 DEF SendJob
<1>3. ASSUME NEW d \in WorkerDiffs, OnMiningAuthorize(d) PROVE DiffInv'
  <2>1. d \in Nat
        BY ConfigAssumption
  <2> QED BY <1>3, <2>1 DEF OnMiningAuthorize
<1>4. CASE JobNotFound
      BY <1>4 DEF JobNotFound, clientVars
<1>5. ASSUME NEW d \in jobs, Submit(d) PROVE DiffInv'
  <2>1. CASE SubmitBan(d)
        BY <2>1 DEF SubmitBan, Count
  <2>2. ASSUME NEW isBad \in BOOLEAN, SubmitNotDue(d, isBad) PROVE DiffInv'
        BY <2>2 DEF SubmitNotDue, Count
  <2>3. ASSUME NEW isBad \in BOOLEAN, NEW new \in Targets,
               SubmitKeep(d, new, isBad)
        PROVE  DiffInv'
        BY <2>3 DEF SubmitKeep, Retarget, Count
  <2>4. ASSUME NEW isBad \in BOOLEAN, NEW new \in Targets,
               SubmitChange(d, new, isBad)
        PROVE  DiffInv'
    <3>1. /\ minDiff' = minDiff /\ authorized' = authorized /\ early' = early
          /\ diff' = Raised(new) /\ jobs' \subseteq jobs \cup {Raised(new)}
          BY <2>4 DEF SubmitChange, Retarget, Count, Resend
    <3> QED BY <3>1, RaisedOK
  <2>5. ASSUME NEW new \in Targets, SubmitDiscard(d, new) PROVE DiffInv'
    <3>1. /\ minDiff' = minDiff /\ authorized' = authorized
          /\ diff' = Raised(new) /\ jobs' = {Raised(new)}
          BY <2>5 DEF SubmitDiscard, Retarget, Count
    <3> QED BY <3>1, RaisedOK
  <2> QED BY <1>5, <2>1, <2>2, <2>3, <2>4, <2>5 DEF Submit
<1>6. CASE UNCHANGED vars
      BY <1>6 DEF vars
<1> QED BY <1>1, <1>2, <1>3, <1>4, <1>5, <1>6 DEF Next

\* For every order of the configured difficulties: no live job is at difficulty
\* zero, and once authorised a client is sent none below the minimum of the
\* worker authorised last (SetDifficulty, OnMiningAuthorize and SendJob in any
\* order).
THEOREM DifficultyBounded == Spec => []DiffAboveMinimum
<1>1. DiffInv => DiffAboveMinimum
      BY DEF DiffInv
<1> QED BY <1>1, DiffInit, DiffStep, PTL DEF Spec

-----------------------------------------------------------------------------
(***************************************************************************)
(* BanDeserved.  A submission that is not a share was for an unknown job   *)
(* and is counted as bad, so there are never more submissions than shares  *)
(* and bad ones together.                                                  *)
(***************************************************************************)
CountInv ==
    /\ total \in Nat /\ bad \in Nat /\ submitted \in Nat
    /\ submitted <= total + bad

\* Every step keeps the three counters in that relation.
LEMMA CountStep == CountInv /\ [Next]_vars => CountInv'
<1> SUFFICES ASSUME CountInv, [Next]_vars PROVE CountInv'
    OBVIOUS
<1> USE DEF CountInv
<1>1. CASE UNCHANGED <<total, bad, submitted>>
      BY <1>1
<1>2. CASE JobNotFound
      BY <1>2 DEF JobNotFound, LogBad, limiterVars
<1>3. ASSUME NEW isBad \in BOOLEAN, Count(isBad) PROVE CountInv'
      BY <1>3 DEF Count, LogBad
<1>4. ASSUME NEW d \in jobs, Submit(d) PROVE CountInv'
      BY <1>3, <1>4 DEF Submit, SubmitBan, SubmitNotDue, SubmitKeep, SubmitChange, SubmitDiscard, Retarget
<1>5. CASE Tick \/ (\E clean \in BOOLEAN : SendJob(clean)) \/ (\E d \in WorkerDiffs : OnMiningAuthorize(d))
      BY <1>1, <1>5 DEF Tick, SendJob, OnMiningAuthorize, limiterVars
<1> QED BY <1>1, <1>2, <1>4, <1>5 DEF Next, vars

\* For every configuration: a client is banned (ShareLimiter::Submit) only when at
\* least 9 of 19 of its submissions were bad.
THEOREM BansDeserved == Spec => BanDeserved
<1>1. Init => CountInv
      BY DEF Init, CountInv
<1>2. CountInv /\ [Next]_vars => [banned' /\ ~banned => 19 * bad' >= 9 * submitted']_vars
  <2> SUFFICES ASSUME CountInv, Next, banned', ~banned PROVE 19 * bad' >= 9 * submitted'
      BY DEF vars
  <2>1. PICK d \in jobs : SubmitBan(d)
    <3>1. banned' # banned
          OBVIOUS
    <3> QED BY <3>1 DEF Next, Tick, SendJob, OnMiningAuthorize, JobNotFound, Submit,
                        SubmitNotDue, SubmitKeep, SubmitChange, SubmitDiscard, Retarget
  <2>2. TooManyBad /\ submitted' = submitted + 1 /\ bad' = bad
        BY <2>1 DEF SubmitBan, Count
  <2>3. 10 * bad > 9 * (total + 1)
        BY <2>2 DEF TooManyBad
  <2> QED BY <2>2, <2>3 DEF CountInv
<1> QED BY <1>1, <1>2, CountStep, PTL DEF Spec, BanDeserved

-----------------------------------------------------------------------------
(***************************************************************************)
(* DiscardOnlyHuge.  Reducing modulo the widths of the integers only makes *)
(* a nonnegative percentage smaller.                                       *)
(***************************************************************************)
\* A remainder is not above the number.
LEMMA ModAtMost ==
    ASSUME NEW x \in Nat, NEW w \in Nat \ {0}
    PROVE  x % w \in Nat /\ x % w <= x
<1>1. x % w \in 0..(w - 1)
      OBVIOUS
<1>2. x < w => x % w = x
      OBVIOUS
<1> QED BY <1>1, <1>2

\* A quotient is bounded by the factor that bounds the number.
LEMMA DivAtMost ==
    ASSUME NEW x \in Nat, NEW w \in Nat \ {0}, NEW h \in Nat, x <= h * w
    PROVE  x \div w \in Nat /\ x \div w <= h
<1> DEFINE q == x \div w
<1>1. q \in Int /\ w * q <= x /\ x < w * q + w
      OBVIOUS
<1> HIDE DEF q
<1>2. q <= h
  <2> SUFFICES ASSUME h + 1 <= q PROVE FALSE
      BY <1>1
  <2>1. w * (h + 1) <= w * q
        BY <1>1
  <2> QED BY <1>1, <2>1
<1>3. q >= 0
  <2> SUFFICES ASSUME q <= -1 PROVE FALSE
      BY <1>1
  <2>1. w * q <= w * (-1)
        BY <1>1
  <2> QED BY <1>1, <2>1
<1> QED BY <1>1, <1>2, <1>3 DEF q

\* A higher difficulty that is off by at most Huge percent is seen so.
LEMMA PercentAtMost ==
    ASSUME DiffInv, NEW new \in Targets, new > diff, 100 * (new - diff) <= Huge * diff
    PROVE  Percent(new) \in Int /\ Percent(new) <= Huge
<1> DEFINE x == (new - diff) * 100
           y == x % Wide
           z == y \div diff
<1>1. diff \in Nat \ {0} /\ new \in Nat
      BY ConfigAssumption DEF DiffInv, DiffAboveMinimum, Targets, Least
<1>2. x \in Nat /\ x <= Huge * diff
      BY <1>1, WidthAssumption
<1>3. Huge \in Nat /\ Wide \in Nat \ {0} /\ Narrow \in Nat \ {0}
      BY WidthAssumption
<1> HIDE DEF x
<1>4. y \in Nat /\ y <= x
      BY <1>2, <1>3, ModAtMost
<1> HIDE DEF y
<1>5. y <= Huge * diff
  <2>1. Huge * diff \in Nat
        BY <1>1, <1>3
  <2> QED BY <1>2, <1>4, <2>1
<1>6. z \in Nat /\ z <= Huge
      BY <1>1, <1>3, <1>4, <1>5, DivAtMost
<1> HIDE DEF z
<1>7. z % Narrow \in Nat /\ z % Narrow <= z
      BY <1>3, <1>6, ModAtMost
<1>8. /\ Least(z % Narrow, Narrow - (z % Narrow)) \in Int
      /\ Least(z % Narrow, Narrow - (z % Narrow)) <= Huge
      BY <1>3, <1>6, <1>7 DEF Least
<1> QED BY <1>8 DEF Percent, z, y, x

\* A wrapped number is the number and a multiple of the width.
LEMMA ModIs ==
    ASSUME NEW x \in Int, NEW w \in Nat \ {0}
    PROVE  x % w \in 0..(w - 1) /\ \E m \in Int : x % w = x + w * m
<1> DEFINE q == x \div w
           r == x % w
<1>1. q \in Int /\ r \in 0..(w - 1) /\ x = w * q + r
      OBVIOUS
<1> HIDE DEF q, r
<1>2. -q \in Int /\ r = x + w * (-q)
      BY <1>1
<1> QED BY <1>1, <1>2 DEF r

\* A quotient by d that lies between two multiples of d.
LEMMA DivIs ==
    ASSUME NEW y \in Int, NEW d \in Nat \ {0}, NEW h \in Int,
           y >= d * h
    PROVE  y \div d \in Int /\ y \div d >= h
<1> DEFINE q == y \div d
<1>1. q \in Int /\ d * q <= y /\ y < d * q + d
      OBVIOUS
<1> HIDE DEF q
<1>2. q >= h
  <2> SUFFICES ASSUME q + 1 <= h PROVE FALSE
      BY <1>1
  <2>1. d * (q + 1) <= d * h
        BY <1>1
  <2> QED BY <1>1, <2>1
<1> QED BY <1>1, <1>2 DEF q

\* A number just below a multiple of the narrow width is just below that width,
\* or it is small itself.
LEMMA JustBelow ==
    ASSUME NEW n \in Nat \ {0}, NEW m \in Int, NEW z \in Int, NEW h \in Nat,
           z <= n * m, z >= n * m - h
    PROVE  Least(z % n, n - (z % n)) \in Int /\ Least(z % n, n - (z % n)) <= h
<1> DEFINE r == z % n
<1>1. PICK k \in Int : r = z + n * k
      BY ModIs
<1>2. r \in 0..(n - 1)
      BY ModIs
<1> HIDE DEF r
<1> DEFINE j == m + k
<1>3. j \in Int /\ n * j = n * m + n * k
      BY <1>1
<1> HIDE DEF j
<1>4. r <= n * j /\ r >= n * j - h
      BY <1>1, <1>2, <1>3
<1>5. CASE r = 0
      BY <1>2, <1>5 DEF r, Least
<1>6. CASE r > 0
  <2>1. j >= 1
    <3> SUFFICES ASSUME j <= 0 PROVE FALSE
        BY <1>3
    <3>1. n * j <= n * 0
          BY <1>3
    <3> QED BY <1>2, <1>3, <1>4, <1>6, <3>1
  <2>2. n * j >= n
        BY <1>3, <2>1
  <2>3. n - r <= h
        BY <1>2, <1>3, <1>4, <2>2
  <2> QED BY <1>2, <2>3 DEF r, Least
<1> QED BY <1>2, <1>5, <1>6

\* A lower difficulty that is off by at most Huge percent is seen so when the
\* old one divides the quotient of the widths.
LEMMA PercentBelow ==
    ASSUME DiffInv, NEW new \in Targets, new <= diff, 100 * (diff - new) <= Huge * diff,
           Wide % (diff * Narrow) = 0
    PROVE  Percent(new) \in Int /\ Percent(new) <= Huge
<1> DEFINE x == (new - diff) * 100
           y == x % Wide
           z == y \div diff
           e == Wide \div (diff * Narrow)
<1>1. diff \in Nat \ {0} /\ new \in Nat
      BY ConfigAssumption DEF DiffInv, DiffAboveMinimum, Targets, Least
<1>2. x \in Int /\ x <= 0 /\ x >= -(Huge * diff)
      BY <1>1, WidthAssumption
<1>3. Huge \in Nat /\ Wide \in Nat \ {0} /\ Narrow \in Nat \ {0}
      BY WidthAssumption
<1>4. e \in Int /\ Wide = diff * (Narrow * e)
  <2> DEFINE u == diff * Narrow
  <2>1. u \in Nat \ {0}
        BY <1>1, <1>3
  <2>2. Wide % u = 0 /\ e = Wide \div u
        OBVIOUS
  <2> HIDE DEF u, e
  <2>3. e \in Int /\ Wide = u * e
        BY <1>3, <2>1, <2>2
  <2> QED BY <1>1, <1>3, <2>3 DEF u
<1> HIDE DEF x, e
<1>5. PICK m \in Int : y = x + Wide * m
      BY <1>2, <1>3, ModIs
<1>6. y \in Int
      BY <1>2, <1>3, ModIs
<1> HIDE DEF y
<1> DEFINE g == e * m
           f == Narrow * g
<1>7. g \in Int /\ f \in Int
      BY <1>3, <1>4, <1>5
<1>8. Wide * m = diff * f
      BY <1>1, <1>3, <1>4, <1>5
<1> HIDE DEF f
<1>9. f - Huge \in Int /\ diff * (f - Huge) = diff * f - Huge * diff
      BY <1>1, <1>3, <1>7
<1>10. diff * f \in Int /\ Huge * diff \in Int
      BY <1>1, <1>3, <1>7
<1>11. y <= f * diff /\ y >= diff * (f - Huge)
  <2>1. f * diff = diff * f
        BY <1>1, <1>7
  <2>2. y = x + diff * f
        BY <1>5, <1>8
  <2> HIDE DEF g
  <2> QED BY <1>2, <1>6, <1>9, <1>10, <2>1, <2>2
<1>12. z \in Int /\ z >= f - Huge
      BY <1>1, <1>6, <1>9, <1>11, DivIs
<1>13. z <= f
  <2>1. z \in Int /\ diff * z <= y
        BY <1>1, <1>6
  <2> HIDE DEF z
  <2> SUFFICES ASSUME f + 1 <= z PROVE FALSE
      BY <1>7, <2>1
  <2>2. diff * (f + 1) <= diff * z
        BY <1>1, <1>7, <2>1
  <2>3. diff * (f + 1) = f * diff + diff
        BY <1>1, <1>7
  <2> QED BY <1>1, <1>6, <1>7, <1>10, <1>11, <2>1, <2>2, <2>3
<1> HIDE DEF z
<1>14. f = Narrow * g
      BY DEF f
<1> HIDE DEF g
<1>15. z <= Narrow * g /\ z >= Narrow * g - Huge
      BY <1>12, <1>13, <1>14
<1>16. /\ Least(z % Narrow, Narrow - (z % Narrow)) \in Int
       /\ Least(z % Narrow, Narrow - (z % Narrow)) <= Huge
      BY <1>3, <1>7, <1>12, <1>15, JustBelow
<1> QED BY <1>16 DEF Percent, z, y, x

\* For every configuration and every width: jobs are not discarded for a higher
\* difficulty that is off by at most Huge percent, nor for a lower one while the
\* old one divides the quotient of the widths (ShareLimiter::Submit).
THEOREM DiscardsOnlyHuge == Spec => DiscardOnlyHuge
<1> DEFINE Small(new) == Exact(new) /\ 100 * Off(new) <= Huge * diff
<1>1. DiffInv /\ [Next]_vars =>
        [\A new \in Targets : Small(new) => \A d \in jobs : ~SubmitDiscard(d, new)]_vars
  <2> SUFFICES ASSUME DiffInv, NEW new \in Targets, Small(new),
                      NEW d \in jobs, SubmitDiscard(d, new)
               PROVE  FALSE
      OBVIOUS
  <2>1. Percent(new) > Huge
        BY DEF SubmitDiscard
  <2>2. new \in Int /\ diff \in Int
        BY ConfigAssumption DEF Targets, Least, DiffInv
  <2>3. CASE new > diff
        BY <2>1, <2>3, PercentAtMost, WidthAssumption DEF Off
  <2>4. CASE new <= diff
        BY <2>1, <2>2, <2>4, PercentBelow, WidthAssumption DEF Off, Exact
  <2> QED BY <2>2, <2>3, <2>4
<1> QED BY <1>1, DiffInit, DiffStep, PTL DEF Spec, DiscardOnlyHuge

-----------------------------------------------------------------------------
(***************************************************************************)
(* SpanBounded.  The last check divides the records: none is as old as the *)
(* buffer before it, and none came an interval after it.                   *)
(***************************************************************************)
Records == [diff : Nat, time : Nat]

SpanInv ==
    /\ now \in Nat /\ lastTime \in Nat /\ lastTime <= now /\ jobs \subseteq Nat
    /\ window \in Seq(Records)
    /\ ~banned /\ window # <<>> =>
          /\ Head(window).time > lastTime - Buffer
          /\ Last(window).time < lastTime + Interval

\* A set of numbers that is not empty has a least element.
LEMMA LeastElement ==
    ASSUME NEW T \in SUBSET Nat, T # {}
    PROVE  \E x \in T : \A y \in T : x <= y
<1> DEFINE R == {s \in Nat \X Nat : s[1] < s[2]}
<1>1. IsWellFoundedOn(R, Nat)
      BY NatLessThanWellFounded DEF OpToRel
<1>2. PICK x \in T : \A y \in T : <<y, x>> \notin R
      BY <1>1, WFMin
<1>3. \A y \in T : ~(y < x)
  <2> SUFFICES ASSUME NEW y \in T, y < x PROVE FALSE
      OBVIOUS
  <2>1. <<y, x>> \in Nat \X Nat /\ <<y, x>>[1] < <<y, x>>[2]
        OBVIOUS
  <2> QED BY <1>2, <2>1
<1> QED BY <1>3

\* What is left after dropping begins with a recent record and ends as before.
LEMMA RecentEnds ==
    ASSUME now \in Nat, NEW w \in Seq(Records), w # <<>>, Last(w).time = now
    PROVE  /\ Recent(w) \in Seq(Records) /\ Recent(w) # <<>>
           /\ Head(Recent(w)).time > now - Buffer
           /\ Last(Recent(w)).time = now
<1> DEFINE I == {i \in 1..Len(w) : IsRecent(w[i])}
           f == SelectInSeq(w, IsRecent)
<1>1. Len(w) \in Nat \ {0} /\ Len(w) \in I
  <2>1. Len(w) \in Nat \ {0}
        BY LenProperties, EmptySeq
  <2>2. w[Len(w)].time = now
        BY DEF Last
  <2> QED BY <2>1, <2>2, ConfigAssumption DEF IsRecent
<1>2. f \in I /\ f \in 1..Len(w)
  <2>1. \E x \in I : \A y \in I : x <= y
    <3>1. I \in SUBSET Nat /\ I # {}
          BY <1>1
    <3> HIDE DEF I
    <3> QED BY <3>1, LeastElement
  <2>2. f = Min(I)
        BY <1>1 DEF SelectInSeq
  <2> QED BY <2>1, <2>2 DEF Min
<1>3. Recent(w) = SubSeq(w, f, Len(w))
      BY <1>1, <1>2 DEF Recent
<1> HIDE DEF f
<1>4. /\ Recent(w) \in Seq(Records) /\ Len(Recent(w)) = Len(w) - f + 1
      /\ \A i \in 1..(Len(w) - f + 1) : Recent(w)[i] = w[f + i - 1]
      BY <1>1, <1>2, <1>3, SubSeqProperties
<1>5. Head(Recent(w)) = w[f] /\ Last(Recent(w)) = w[Len(w)] /\ Recent(w) # <<>>
      BY <1>1, <1>2, <1>4 DEF Last
<1> QED BY <1>2, <1>4, <1>5 DEF IsRecent, Last

\* A client starts without records.
LEMMA SpanInit == Init => SpanInv
BY ConfigAssumption, BoundAssumption DEF Init, SpanInv, startTime

\* The record of a submission is appended; it is the last one.
LEMMA PushedEnds ==
    ASSUME SpanInv, NEW d \in jobs
    PROVE  /\ Pushed(d) \in Seq(Records) /\ Pushed(d) # <<>>
           /\ Last(Pushed(d)).time = now
           /\ window # <<>> => Head(Pushed(d)) = Head(window)
           /\ window = <<>> => Head(Pushed(d)).time = now
<1> DEFINE r == [diff |-> d, time |-> now]
<1>1. r \in Records /\ r.time = now
      BY DEF SpanInv, Records
<1> HIDE DEF r
<1>2. Pushed(d) = Append(window, r) /\ window \in Seq(Records)
      BY DEF Pushed, r, SpanInv
<1>3. /\ Append(window, r) \in Seq(Records)
      /\ Len(Append(window, r)) = Len(window) + 1
      /\ Append(window, r)[Len(window) + 1] = r
      /\ \A i \in 1..Len(window) : Append(window, r)[i] = window[i]
      BY <1>1, <1>2, AppendProperties
<1> QED BY <1>1, <1>2, <1>3 DEF Last

\* Every step keeps the records within the buffer and the interval of the last
\* check.
LEMMA SpanStep == SpanInv /\ DiffInv /\ [Next]_vars => SpanInv'
<1> SUFFICES ASSUME SpanInv, DiffInv, [Next]_vars PROVE SpanInv'
    OBVIOUS
<1>1. jobs' \subseteq Nat
      BY DiffStep DEF DiffInv
<1>2. CASE UNCHANGED <<window, lastTime, banned>> /\ now' \in Nat /\ now <= now'
      BY <1>1, <1>2 DEF SpanInv
<1>3. CASE Tick \/ (\E clean \in BOOLEAN : SendJob(clean)) \/ JobNotFound
           \/ (\E d \in WorkerDiffs : OnMiningAuthorize(d)) \/ UNCHANGED vars
      BY <1>2, <1>3 DEF SpanInv, Tick, SendJob, JobNotFound, OnMiningAuthorize, limiterVars, vars
<1>4. ASSUME NEW d \in jobs, Submit(d) PROVE SpanInv'
  <2>1. CASE SubmitBan(d)
        BY <1>1, <2>1, PushedEnds DEF SubmitBan, Check, Count, SpanInv
  <2>2. ASSUME NEW isBad \in BOOLEAN, SubmitNotDue(d, isBad) PROVE SpanInv'
    <3>1. /\ window' = Pushed(d) /\ now' = now /\ lastTime' = lastTime /\ banned' = banned
          /\ now - lastTime < Interval
          BY <2>2 DEF SubmitNotDue, NotDue, Count
    <3>2. Interval \in Nat \ {0} /\ Buffer \in Nat \ {0}
          BY ConfigAssumption
    <3> QED BY <1>1, <3>1, <3>2, PushedEnds DEF SpanInv, Last
  <2>3. ASSUME NEW new, NEW isBad, Retarget(d, new, isBad) PROVE SpanInv'
    <3>1. window' = Recent(Pushed(d)) /\ now' = now /\ lastTime' = now
          BY <2>3 DEF Retarget, Check, Count
    <3>2. /\ window' \in Seq(Records) /\ Head(window').time > now - Buffer
          /\ Last(window').time = now
          BY <3>1, PushedEnds, RecentEnds DEF SpanInv
    <3>3. Interval \in Nat \ {0}
          BY ConfigAssumption
    <3> QED BY <1>1, <3>1, <3>2, <3>3 DEF SpanInv, Last
  <2> QED BY <1>4, <2>1, <2>2, <2>3 DEF Submit, SubmitKeep, SubmitChange, SubmitDiscard
<1> QED BY <1>3, <1>4 DEF Next

\* For every configuration: the records that ShareLimiter::Submit keeps of a client
\* that is not banned span less than the buffer and one interval, however its
\* submissions are spread in time.
THEOREM RecordsBounded == Spec => []SpanBounded
<1>1. SpanInv => SpanBounded
  <2> SUFFICES ASSUME SpanInv, ~banned, window # <<>>
               PROVE  Last(window).time - Head(window).time < Buffer + Interval
      BY DEF SpanBounded
  <2>1. Head(window) \in Records /\ Last(window) \in Records
        BY DEF SpanInv, Last
  <2>2. Head(window).time \in Nat /\ Last(window).time \in Nat
        BY <2>1 DEF Records
  <2> QED BY <2>2, ConfigAssumption DEF SpanInv
<1> QED BY <1>1, SpanInit, SpanStep, DiffInit, DiffStep, PTL DEF Spec

=============================================================================
