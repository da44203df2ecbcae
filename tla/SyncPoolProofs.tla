---------------------------- MODULE SyncPoolProofs ----------------------------
(***************************************************************************)
(* Proofs of the invariants of SyncPool, for any number of callers and of  *)
(* connections.                                                            *)
(***************************************************************************)
EXTENDS SyncPool, FiniteSetTheorems, TLAPS

Holding(p) == pc[p] \in {"use", "bound", "reconnect", "unlock"}

\* The holder of a mutex and the caller that uses the connection are the same.
Locks ==
    /\ \A p \in Callers : pc[p] = "idle" => i[p] = 0
    /\ \A p \in Callers : Holding(p) => i[p] >= 1 /\ mutex[Conn(p)] = p
    /\ \A c \in Conns, q \in Callers : mutex[c] = q => Holding(q) /\ Conn(q) = c

-----------------------------------------------------------------------------
\* i picks a connection.
LEMMA ConnType == TypeOK => \A p \in Callers : Conn(p) \in Conns
BY PoolAssumption, SMT DEF TypeOK, Conn, Chosen, Conns

LEMMA ChosenType == \A k \in Nat : Chosen(k) \in Conns
BY PoolAssumption, SMT DEF Chosen, Conns

\* Within one round no connection is chosen twice.
LEMMA OneRound ==
    ASSUME NEW a \in 1..SyncThreads, NEW b \in 1..SyncThreads, Chosen(a) = Chosen(b)
    PROVE  a = b
<1>1. \A k \in 0..(SyncThreads - 1) : k % SyncThreads = k
  BY PoolAssumption, SMT
<1>2. SyncThreads % SyncThreads = 0
  BY PoolAssumption, SMT
<1> QED BY <1>1, <1>2, PoolAssumption, SMT DEF Chosen

-----------------------------------------------------------------------------
(***************************************************************************)
(* Types.                                                                  *)
(***************************************************************************)
LEMMA InitType == Init => TypeOK
BY PoolAssumption DEF Init, TypeOK, Conns, Pcs, Kinds

LEMMA LockTypes ==
    ASSUME TypeOK, NEW p \in Callers, TryLock(p) \/ Unlock(p) \/ \E k \in Kinds : Call(p, k)
    PROVE  TypeOK'
<1>1. CASE TryLock(p)
  BY <1>1, ChosenType, PoolAssumption DEF TypeOK, TryLock, Following, Ready, Pcs, history
<1>2. CASE Unlock(p)
  BY <1>2, ConnType DEF TypeOK, Unlock, Pcs, history
<1>3. CASE \E k \in Kinds : Call(p, k)
  BY <1>3 DEF TypeOK, Call, Pcs, connVars, history
<1> QED BY <1>1, <1>2, <1>3

LEMMA OnceMore ==
    ASSUME TypeOK, NEW p \in Callers
    PROVE  [applied EXCEPT ![p] = @ + 1] \in [Callers -> Nat]
BY SMT DEF TypeOK

LEMMA TextTypes ==
    ASSUME TypeOK, NEW p \in Callers,
           Escape(p) \/ NothingToUse(p) \/ TextRuns(p) \/ TextFails(p)
    PROVE  TypeOK'
<1>1. CASE Escape(p)
  BY <1>1 DEF TypeOK, Escape, Pcs, connVars, history
<1>2. CASE NothingToUse(p)
  BY <1>2, ConnType DEF TypeOK, NothingToUse, End, Pcs
<1>3. CASE TextRuns(p)
  BY <1>3, OnceMore DEF TypeOK, TextRuns, End, Pcs
<1>4. CASE TextFails(p)
  BY <1>4 DEF TypeOK, TextFails, End, Pcs
<1> QED BY <1>1, <1>2, <1>3, <1>4

LEMMA StatementTypes ==
    ASSUME TypeOK, NEW p \in Callers,
           BindParameters(p) \/ StatementRuns(p) \/ StatementFails(p) \/ Lost(p)
    PROVE  TypeOK'
<1>1. CASE BindParameters(p)
  BY <1>1 DEF TypeOK, BindParameters, Pcs, history
<1>2. CASE StatementRuns(p)
  BY <1>2, OnceMore DEF TypeOK, StatementRuns, ClearParameters, Pcs
<1>3. CASE StatementFails(p)
  BY <1>3, ConnType DEF TypeOK, StatementFails, ClearParameters, Pcs, history
<1>4. CASE Lost(p)
  <2>1. applied' \in [Callers -> Nat]
    BY <1>4, OnceMore DEF TypeOK, Lost
  <2>2. losses' \in 0..MaxLosses
    BY <1>4, PoolAssumption DEF TypeOK, Lost
  <2> QED BY <1>4, <2>1, <2>2 DEF TypeOK, Lost, Pcs
<1> QED BY <1>1, <1>2, <1>3, <1>4

LEMMA ReconnectTypes ==
    ASSUME TypeOK, NEW p \in Callers, Reconnected(p) \/ ReconnectLater(p) \/ ReconnectFails(p)
    PROVE  TypeOK'
<1>1. CASE Reconnected(p)
  BY <1>1 DEF TypeOK, Reconnected, Detached, Pcs, history
<1>2. CASE ReconnectLater(p)
  BY <1>2 DEF TypeOK, ReconnectLater, Detached, Pcs, history
<1>3. CASE ReconnectFails(p)
  BY <1>3 DEF TypeOK, ReconnectFails, Detached, ClearParameters, Pcs, history
<1> QED BY <1>1, <1>2, <1>3

LEMMA TypeStep == TypeOK /\ [Next]_vars => TypeOK'
<1> SUFFICES ASSUME TypeOK, [Next]_vars PROVE TypeOK'
  OBVIOUS
<1>1. CASE Prepare
  BY <1>1, PoolAssumption DEF TypeOK, Prepare, history
<1>2. ASSUME NEW p \in Callers, Step(p) \/ ReconnectLater(p) \/ \E k \in Kinds : Call(p, k)
      PROVE  TypeOK'
  BY <1>2, LockTypes, TextTypes, StatementTypes, ReconnectTypes DEF Step
<1>3. CASE UNCHANGED vars
  BY <1>3 DEF TypeOK, vars, connVars, history
<1> QED BY <1>1, <1>2, <1>3 DEF Next

-----------------------------------------------------------------------------
(***************************************************************************)
(* Locks.                                                                  *)
(***************************************************************************)
LEMMA InitLocks == Init => Locks
BY PoolAssumption DEF Init, Locks, Holding, Conns

\* What every step between TryLock and Unlock leaves alone.
Inside(p) ==
    /\ Holding(p) /\ pc' \in [Callers -> Pcs] /\ Holding(p)'
    /\ \A q \in Callers : q # p => pc'[q] = pc[q] /\ op'[q] = op[q] /\ applied'[q] = applied[q]
    /\ op' = op /\ i' = i /\ mutex' = mutex

LEMMA InsideSteps ==
    ASSUME TypeOK, NEW p \in Callers,
           \/ Escape(p) \/ NothingToUse(p) \/ TextRuns(p) \/ TextFails(p)
           \/ BindParameters(p) \/ StatementRuns(p) \/ StatementFails(p) \/ Lost(p)
           \/ Reconnected(p) \/ ReconnectLater(p) \/ ReconnectFails(p)
    PROVE  Inside(p)
<1>1. CASE Escape(p)
  BY <1>1 DEF TypeOK, Inside, Holding, Escape, Pcs, connVars, history
<1>2. CASE NothingToUse(p)
  BY <1>2 DEF TypeOK, Inside, Holding, NothingToUse, Usable, End, Pcs
<1>3. CASE TextRuns(p)
  BY <1>3 DEF TypeOK, Inside, Holding, TextRuns, Usable, End, Pcs
<1>4. CASE TextFails(p)
  BY <1>4 DEF TypeOK, Inside, Holding, TextFails, Usable, End, Pcs
<1>5. CASE BindParameters(p)
  BY <1>5 DEF TypeOK, Inside, Holding, BindParameters, Usable, Pcs, history
<1>6. CASE StatementRuns(p)
  BY <1>6 DEF TypeOK, Inside, Holding, StatementRuns, Pcs
<1>7. CASE StatementFails(p)
  BY <1>7 DEF TypeOK, Inside, Holding, StatementFails, Pcs, history
<1>8. CASE Lost(p)
  BY <1>8 DEF TypeOK, Inside, Holding, Lost, Usable, Pcs
<1>9. CASE Reconnected(p) \/ ReconnectFails(p)
  BY <1>9 DEF TypeOK, Inside, Holding, Reconnected, ReconnectFails, Pcs, history
<1>10. CASE ReconnectLater(p)
  BY <1>10 DEF TypeOK, Inside, Holding, ReconnectLater, Pcs, history
<1> QED BY <1>1, <1>2, <1>3, <1>4, <1>5, <1>6, <1>7, <1>8, <1>9, <1>10

LEMMA InsideLocks ==
    ASSUME TypeOK, Locks, NEW p \in Callers, Inside(p)
    PROVE  Locks'
<1>1. \A q \in Callers : Conn(q)' = Conn(q) /\ (Holding(q)' <=> Holding(q))
  BY DEF Inside, Conn, Chosen, Holding
<1>2. \A q \in Callers : (pc'[q] = "idle") <=> (pc[q] = "idle")
  BY DEF Inside, Holding
<1>3. i' = i /\ mutex' = mutex
  BY DEF Inside
<1> QED BY <1>1, <1>2, <1>3 DEF TypeOK, Locks

LEMMA LockStep == TypeOK /\ Locks /\ [Next]_vars => Locks'
<1> SUFFICES ASSUME TypeOK, Locks, [Next]_vars PROVE Locks'
  OBVIOUS
<1>1. ASSUME NEW p \in Callers, TryLock(p) PROVE Locks'
  <2> DEFINE c == Chosen(i[p] + 1)
  <2>1. i' = [i EXCEPT ![p] = i[p] + 1] /\ i'[p] = i[p] + 1 /\ c \in Conns
    BY <1>1, ChosenType DEF TypeOK, TryLock, Following
  <2>2. \A q \in Callers : q # p => Conn(q)' = Conn(q)
    BY <2>1 DEF TypeOK, Conn
  <2>3. CASE mutex[c] = None
    <3>1. mutex' = [mutex EXCEPT ![c] = p] /\ pc' = [pc EXCEPT ![p] = "use"]
      BY <1>1, <2>1, <2>3 DEF TryLock, Ready
    <3>2. Conn(p)' = c
      BY <2>1 DEF Conn
    <3>3. \A q \in Callers : q # p => (Holding(q)' <=> Holding(q))
      BY <3>1 DEF TypeOK, Holding
    <3>4. Holding(p)' /\ i'[p] >= 1
      BY <2>1, <3>1 DEF TypeOK, Holding
    <3>5. \A q \in Callers : pc'[q] = "idle" => i'[q] = 0
      BY <2>1, <3>1 DEF TypeOK, Locks
    <3>6. \A q \in Callers : Holding(q)' => i'[q] >= 1 /\ mutex'[Conn(q)'] = q
      <4> SUFFICES ASSUME NEW q \in Callers, Holding(q)'
                   PROVE  i'[q] >= 1 /\ mutex'[Conn(q)'] = q
        OBVIOUS
      <4>1. CASE q = p
        BY <4>1, <2>1, <3>1, <3>2, <3>4 DEF TypeOK
      <4>2. CASE q # p
        <5>1. Holding(q) /\ mutex[Conn(q)] = q /\ i[q] >= 1 /\ Conn(q) \in Conns
          BY <4>2, <3>3, ConnType DEF Locks
        <5>2. Conn(q) # c
          BY <5>1, <2>3, PoolAssumption
        <5> QED BY <4>2, <5>1, <5>2, <2>1, <2>2, <3>1 DEF TypeOK
      <4> QED BY <4>1, <4>2
    <3>7. \A d \in Conns, q \in Callers : mutex'[d] = q => Holding(q)' /\ Conn(q)' = d
      <4> SUFFICES ASSUME NEW d \in Conns, NEW q \in Callers, mutex'[d] = q
                   PROVE  Holding(q)' /\ Conn(q)' = d
        OBVIOUS
      <4>1. CASE d = c
        BY <4>1, <3>1, <3>2, <3>4 DEF TypeOK
      <4>2. CASE d # c
        <5>1. mutex[d] = q /\ Holding(q) /\ Conn(q) = d
          BY <4>2, <3>1 DEF TypeOK, Locks
        <5>2. q # p
          BY <5>1, <1>1 DEF Holding, TryLock
        <5> QED BY <5>1, <5>2, <3>3, <2>2
      <4> QED BY <4>1, <4>2
    <3> QED BY <3>5, <3>6, <3>7 DEF Locks
  <2>4. CASE mutex[c] # None
    <3>1. mutex' = mutex /\ pc' = pc
      BY <1>1, <2>1, <2>4 DEF TryLock, Ready
    <3>2. pc[p] = "try" /\ ~Holding(p)
      BY <1>1 DEF TryLock, Holding
    <3>3. \A q \in Callers : Holding(q)' <=> Holding(q)
      BY <3>1 DEF Holding
    <3>4. \A q \in Callers : pc'[q] = "idle" => i'[q] = 0
      BY <2>1, <3>1, <3>2 DEF TypeOK, Locks
    <3>5. \A q \in Callers : Holding(q)' => i'[q] >= 1 /\ mutex'[Conn(q)'] = q
      BY <2>1, <2>2, <3>1, <3>2, <3>3 DEF TypeOK, Locks
    <3>6. \A d \in Conns, q \in Callers : mutex'[d] = q => Holding(q)' /\ Conn(q)' = d
      BY <2>2, <3>1, <3>2, <3>3 DEF TypeOK, Locks
    <3> QED BY <3>4, <3>5, <3>6 DEF Locks
  <2> QED BY <2>3, <2>4
<1>2. ASSUME NEW p \in Callers, Unlock(p) PROVE Locks'
  <2>1. /\ mutex' = [mutex EXCEPT ![Conn(p)] = None] /\ pc' = [pc EXCEPT ![p] = "idle"]
        /\ i' = [i EXCEPT ![p] = 0] /\ Holding(p) /\ Conn(p) \in Conns /\ mutex[Conn(p)] = p
    BY <1>2, ConnType DEF TypeOK, Locks, Unlock, Holding
  <2>2. \A q \in Callers : q # p => Conn(q)' = Conn(q) /\ (Holding(q)' <=> Holding(q))
    BY <2>1 DEF TypeOK, Conn, Holding
  <2>3. ~Holding(p)' /\ pc'[p] = "idle" /\ i'[p] = 0
    BY <2>1 DEF TypeOK, Holding
  <2>4. \A q \in Callers : pc'[q] = "idle" => i'[q] = 0
    BY <2>1 DEF TypeOK, Locks
  <2>5. \A q \in Callers : Holding(q)' => i'[q] >= 1 /\ mutex'[Conn(q)'] = q
    <3> SUFFICES ASSUME NEW q \in Callers, Holding(q)' PROVE i'[q] >= 1 /\ mutex'[Conn(q)'] = q
      OBVIOUS
    <3>1. q # p /\ Holding(q) /\ Conn(q)' = Conn(q) /\ Conn(q) \in Conns
      BY <2>2, <2>3, ConnType
    <3>2. mutex[Conn(q)] = q /\ i[q] >= 1
      BY <3>1 DEF Locks
    <3>3. Conn(q) # Conn(p)
      BY <3>1, <3>2, <2>1
    <3> QED BY <2>1, <3>1, <3>2, <3>3 DEF TypeOK
  <2>6. \A d \in Conns, q \in Callers : mutex'[d] = q => Holding(q)' /\ Conn(q)' = d
    <3> SUFFICES ASSUME NEW d \in Conns, NEW q \in Callers, mutex'[d] = q
                 PROVE  Holding(q)' /\ Conn(q)' = d
      OBVIOUS
    <3>1. d # Conn(p) /\ mutex[d] = q
      BY <2>1, PoolAssumption DEF TypeOK
    <3>2. Holding(q) /\ Conn(q) = d
      BY <3>1 DEF Locks
    <3> QED BY <3>1, <3>2, <2>1, <2>2
  <2> QED BY <2>4, <2>5, <2>6 DEF Locks
<1>3. ASSUME NEW p \in Callers, NEW k \in Kinds, Call(p, k) PROVE Locks'
  <2>1. /\ pc[p] = "idle" /\ pc' = [pc EXCEPT ![p] = "try"] /\ i' = i /\ mutex' = mutex
    BY <1>3 DEF Call, connVars
  <2>2. \A q \in Callers : Conn(q)' = Conn(q) /\ (Holding(q)' <=> Holding(q))
    BY <2>1 DEF TypeOK, Conn, Holding
  <2> QED BY <2>1, <2>2 DEF TypeOK, Locks
<1>4. CASE Prepare \/ UNCHANGED vars
  <2>1. pc' = pc /\ i' = i /\ mutex' = mutex
    BY <1>4 DEF Prepare, vars, connVars
  <2>2. \A q \in Callers : Conn(q)' = Conn(q) /\ (Holding(q)' <=> Holding(q))
    BY <2>1 DEF Conn, Holding
  <2> QED BY <2>1, <2>2 DEF TypeOK, Locks
<1> QED BY <1>1, <1>2, <1>3, <1>4, InsideSteps, InsideLocks DEF Next, Step

-----------------------------------------------------------------------------
(***************************************************************************)
(* The spin.  Connections are tried in the order 1, 2, ..., 0.  A caller   *)
(* goes past the k-th only while another holds it, and that one is not     *)
(* past it: k callers are always left behind at or before the k-th.        *)
(***************************************************************************)
NCallers == Cardinality(Callers)
Past(k) == {p \in Callers : IF pc[p] = "try" THEN i[p] >= k ELSE i[p] > k}
LeftBehind == \A k \in 0..NCallers : Cardinality(Past(k)) + k <= NCallers
Spin == NCallers <= SyncThreads => LeftBehind

LEMMA PastFinite ==
    /\ NCallers \in Nat
    /\ \A k : IsFiniteSet(Past(k)) /\ Cardinality(Past(k)) \in Nat /\ Cardinality(Past(k)) <= NCallers
<1>1. NCallers \in Nat
  BY PoolAssumption, FS_CardinalityType DEF NCallers
<1>2. ASSUME NEW k PROVE IsFiniteSet(Past(k)) /\ Cardinality(Past(k)) <= NCallers
  BY PoolAssumption, FS_Subset DEF Past, NCallers
<1> QED BY <1>1, <1>2, FS_CardinalityType

\* A caller still trying has made fewer tries than there are callers.
LEMMA FewTries ==
    ASSUME TypeOK, LeftBehind, NEW p \in Callers
    PROVE  i[p] <= NCallers /\ (pc[p] = "try" => i[p] < NCallers)
<1> DEFINE reached == IF pc[p] = "try" THEN i[p] ELSE i[p] - 1
<1>1. i[p] \in Nat /\ NCallers \in Nat
  BY PastFinite DEF TypeOK
<1>2. ASSUME NEW k \in 0..NCallers, p \in Past(k) PROVE k < NCallers
  <2>1. Cardinality(Past(k)) # 0
    BY <1>2, PastFinite, FS_EmptySet
  <2> QED BY <2>1, <1>1, PastFinite, SMT DEF LeftBehind
<1>3. ASSUME reached >= NCallers PROVE FALSE
  <2>1. p \in Past(NCallers)
    BY <1>1, <1>3, SMT DEF Past
  <2> QED BY <2>1, <1>1, <1>2, SMT
<1> QED BY <1>1, <1>3, SMT

LEMMA SpinFails ==
    ASSUME TypeOK, Locks, NCallers <= SyncThreads, LeftBehind, NEW p \in Callers, TryLock(p),
           mutex[Chosen(i[p] + 1)] # None
    PROVE  LeftBehind'
<1>0. PICK k \in Nat : k = i[p] + 1
  BY DEF TypeOK
<1>1. /\ pc[p] = "try" /\ pc' = pc /\ i' = [i EXCEPT ![p] = i[p] + 1]
      /\ i[p] \in Nat /\ NCallers \in Nat /\ NCallers' = NCallers
  BY PastFinite DEF TypeOK, TryLock, Following, Ready, NCallers
<1>2. k \in 1..NCallers
  BY <1>0, <1>1, FewTries, SMT
<1>3. PICK h \in Callers : mutex[Chosen(k)] = h
  BY <1>0, ChosenType DEF TypeOK
<1>4. Holding(h) /\ Chosen(i[h]) = Chosen(k) /\ i[h] >= 1 /\ i[h] \in Nat
  BY <1>0, <1>1, <1>3, ChosenType DEF TypeOK, Locks, Conn
<1>5. i[h] <= NCallers
  BY FewTries
<1>6. i[h] = k
  <2>1. i[h] \in 1..SyncThreads /\ k \in 1..SyncThreads
    BY <1>1, <1>2, <1>4, <1>5, PoolAssumption, SMT
  <2> QED BY <2>1, <1>4, OneRound
<1>7. h # p /\ pc[h] # "try"
  BY <1>1, <1>4 DEF Holding
<1>8. Past(k)' \subseteq Past(k - 1) \ {h} /\ h \in Past(k - 1)
  BY <1>0, <1>1, <1>4, <1>6, <1>7, SMT DEF TypeOK, Past
<1>9. \A j \in 0..NCallers : j # k => Past(j)' \subseteq Past(j)
  BY <1>0, <1>1, SMT DEF TypeOK, Past
<1>10. Cardinality(Past(k)') <= Cardinality(Past(k - 1)) - 1
  <2>1. IsFiniteSet(Past(k - 1) \ {h})
        /\ Cardinality(Past(k - 1) \ {h}) = Cardinality(Past(k - 1)) - 1
    BY <1>8, PastFinite, FS_RemoveElement
  <2> QED BY <2>1, <1>8, FS_Subset
<1>11. Cardinality(Past(k)') + k <= NCallers
  <2>1. k - 1 \in 0..NCallers /\ k \in Nat
    BY <1>1, <1>2, SMT
  <2>2. Cardinality(Past(k - 1)) + (k - 1) <= NCallers
    BY <2>1 DEF LeftBehind
  <2>3. Cardinality(Past(k)') \in Nat
    <3>1. IsFiniteSet(Past(k)')
      BY <1>8, PastFinite, FS_Subset, FS_RemoveElement
    <3> QED BY <3>1, FS_CardinalityType
  <2> QED BY <1>10, <2>1, <2>2, <2>3, <1>1, PastFinite, SMT
<1>12. ASSUME NEW j \in 0..NCallers, j # k PROVE Cardinality(Past(j)') + j <= NCallers
  <2>1. IsFiniteSet(Past(j)') /\ Cardinality(Past(j)') <= Cardinality(Past(j))
    BY <1>9, <1>12, PastFinite, FS_Subset
  <2>2. Cardinality(Past(j)') \in Nat /\ Cardinality(Past(j)) \in Nat
    BY <2>1, PastFinite, FS_CardinalityType
  <2>3. Cardinality(Past(j)) + j <= NCallers
    BY DEF LeftBehind
  <2> QED BY <2>1, <2>2, <2>3, <1>1, SMT
<1>13. \A j \in 0..NCallers : Cardinality(Past(j)') + j <= NCallers
  BY <1>11, <1>12
<1> QED BY <1>1, <1>13 DEF LeftBehind

\* Any other step leaves every caller where it is or takes it back.
LEMMA SpinKept ==
    ASSUME LeftBehind, \A k \in 1..NCallers : Past(k)' \subseteq Past(k)
    PROVE  LeftBehind'
<1>1. NCallers' = NCallers /\ NCallers \in Nat
  BY PastFinite DEF NCallers
<1>2. ASSUME NEW k \in 1..NCallers PROVE Cardinality(Past(k)') + k <= NCallers
  <2>1. IsFiniteSet(Past(k)') /\ Cardinality(Past(k)') <= Cardinality(Past(k))
    BY PastFinite, FS_Subset
  <2>2. Cardinality(Past(k)') \in Nat /\ Cardinality(Past(k)) \in Nat
    BY <2>1, PastFinite, FS_CardinalityType
  <2>3. Cardinality(Past(k)) + k <= NCallers
    BY <1>1, SMT DEF LeftBehind
  <2> QED BY <2>1, <2>2, <2>3, <1>1, SMT
<1>3. Cardinality(Past(0)') + 0 <= NCallers
  <2>1. Past(0)' \subseteq Callers
    BY DEF Past
  <2>2. Cardinality(Past(0)') <= NCallers /\ Cardinality(Past(0)') \in Nat
    BY <2>1, PoolAssumption, FS_Subset, FS_CardinalityType DEF NCallers
  <2> QED BY <2>2, <1>1, SMT
<1>4. ASSUME NEW k \in 0..NCallers PROVE Cardinality(Past(k)') + k <= NCallers
  BY <1>1, <1>2, <1>3, SMT
<1> QED BY <1>1, <1>4 DEF LeftBehind

LEMMA SpinStep == TypeOK /\ Locks /\ Spin /\ [Next]_vars => Spin'
<1> SUFFICES ASSUME TypeOK, Locks, NCallers <= SyncThreads, LeftBehind, [Next]_vars
             PROVE  LeftBehind'
  BY DEF Spin, NCallers
<1>1. ASSUME NEW p \in Callers, TryLock(p) PROVE LeftBehind'
  <2>1. CASE mutex[Chosen(i[p] + 1)] = None
    <3>1. /\ pc[p] = "try" /\ pc' = [pc EXCEPT ![p] = "use"]
          /\ i' = [i EXCEPT ![p] = i[p] + 1] /\ i[p] \in Nat
      BY <1>1, <2>1 DEF TypeOK, TryLock, Following, Ready
    <3>2. \A k \in 1..NCallers : Past(k)' \subseteq Past(k)
      BY <3>1, PastFinite, SMT DEF TypeOK, Past
    <3> QED BY <3>2, SpinKept
  <2> QED BY <1>1, <2>1, SpinFails
<1>2. ASSUME NEW p \in Callers, Unlock(p) PROVE LeftBehind'
  <2>1. pc' = [pc EXCEPT ![p] = "idle"] /\ i' = [i EXCEPT ![p] = 0]
    BY <1>2 DEF Unlock
  <2>2. \A k \in 1..NCallers : Past(k)' \subseteq Past(k)
    BY <2>1, PastFinite, SMT DEF TypeOK, Past
  <2> QED BY <2>2, SpinKept
<1>3. ASSUME NEW p \in Callers, NEW k \in Kinds, Call(p, k) PROVE LeftBehind'
  <2>1. pc[p] = "idle" /\ pc' = [pc EXCEPT ![p] = "try"] /\ i' = i /\ i[p] = 0
    BY <1>3 DEF Call, Locks
  <2>2. \A j \in 1..NCallers : Past(j)' \subseteq Past(j)
    BY <2>1, PastFinite, SMT DEF TypeOK, Past
  <2> QED BY <2>2, SpinKept
<1>4. ASSUME NEW p \in Callers, Inside(p) PROVE LeftBehind'
  <2>1. i' = i /\ \A q \in Callers : (pc'[q] = "try") <=> (pc[q] = "try")
    BY <1>4 DEF Inside, Holding
  <2>2. \A j \in 1..NCallers : Past(j)' \subseteq Past(j)
    BY <2>1 DEF Past
  <2> QED BY <2>2, SpinKept
<1>5. CASE Prepare \/ UNCHANGED vars
  <2>1. pc' = pc /\ i' = i
    BY <1>5 DEF Prepare, vars
  <2>2. \A j \in 1..NCallers : Past(j)' \subseteq Past(j)
    BY <2>1 DEF Past
  <2> QED BY <2>2, SpinKept
<1> QED BY <1>1, <1>2, <1>3, <1>4, <1>5, InsideSteps DEF Next, Step

-----------------------------------------------------------------------------
(***************************************************************************)
(* What a call leaves on its connection.                                   *)
(***************************************************************************)
\* Bound parameters belong to the holder, and a repeated call finds the handle
\* and the statement that lead it to bind, and so to clear, them again.
Buffers ==
    /\ BoundIsMine
    /\ \A c \in Conns, q \in Callers : params[c] = q =>
          /\ mutex[c] = q /\ op[q] = "statement" /\ stmt[c] # "none"
          /\ pc[q] \in {"use", "bound", "reconnect"}
          /\ pc[q] = "use" => handle[c] = "open"
\* Only a caller that is about to reconnect sees a loss.
Errnos == \A c \in Conns : errno[c] = "lost" =>
    mutex[c] \in Callers /\ pc[mutex[c]] = "reconnect"
Loaded == load # SyncThreads => \A p \in Callers : pc[p] = "idle"
\* A statement that may have been carried out is not live when it is repeated.
Once == \A p \in Callers :
    /\ pc[p] \in {"idle", "try"} => applied[p] = 0
    /\ op[p] = "statement" => applied[p] <= 1
    /\ op[p] = "statement" /\ pc[p] \in {"use", "bound"} /\ applied[p] # 0 =>
          stmt[Conn(p)] # "live"

LEMMA Apart == Locks => \A p, q \in Callers :
    Holding(p) /\ Holding(q) /\ p # q => Conn(p) # Conn(q)
BY DEF Locks

InsideStep(p) ==
    \/ Escape(p) \/ NothingToUse(p) \/ TextRuns(p)
    \/ TextFails(p) \/ BindParameters(p) \/ StatementRuns(p) \/ StatementFails(p)
    \/ Lost(p) \/ Reconnected(p) \/ ReconnectLater(p) \/ ReconnectFails(p)

LEMMA InsideBuffers ==
    ASSUME TypeOK, Locks, Buffers, Errnos, Loaded, Once, NEW p \in Callers, InsideStep(p)
    PROVE  Buffers'
<1> USE ConnType, Apart, PoolAssumption DEF TypeOK, Locks, Buffers, BoundIsMine, Holding
<1>a. Inside(p) /\ \A q \in Callers : Conn(q)' = Conn(q)
  BY InsideSteps DEF InsideStep, Inside, Conn, Chosen
<1>b. Holding(p) /\ mutex[Conn(p)] = p
  BY <1>a DEF Inside, Locks
<1>1. CASE Escape(p)
  BY <1>1, <1>a, <1>b DEF Inside, Escape, connVars, history
<1>2. CASE NothingToUse(p)
  BY <1>2, <1>a, <1>b DEF Inside, NothingToUse, Usable, End
<1>3. CASE TextRuns(p)
  BY <1>3, <1>a, <1>b DEF Inside, TextRuns, Usable, End
<1>4. CASE TextFails(p)
  BY <1>4, <1>a, <1>b DEF Inside, TextFails, Usable, End
<1>5. CASE BindParameters(p)
  BY <1>5, <1>a, <1>b DEF Inside, BindParameters, Usable, history
<1>6. CASE StatementRuns(p)
  BY <1>6, <1>a, <1>b DEF Inside, StatementRuns, ClearParameters
<1>7. CASE StatementFails(p)
  BY <1>7, <1>a, <1>b DEF Inside, StatementFails, ClearParameters, history
<1>8. CASE Lost(p)
  BY <1>8, <1>a, <1>b DEF Inside, Lost, Usable
<1>9. CASE Reconnected(p)
  BY <1>9, <1>a, <1>b DEF Inside, Reconnected, Detached, history
<1>10. CASE ReconnectLater(p)
  BY <1>10, <1>a, <1>b DEF Inside, ReconnectLater, Detached, history
<1>11. CASE ReconnectFails(p)
  BY <1>11, <1>a, <1>b DEF Inside, ReconnectFails, Detached, ClearParameters, history
<1> QED BY <1>1, <1>2, <1>3, <1>4, <1>5, <1>6, <1>7, <1>8, <1>9, <1>10, <1>11 DEF InsideStep

LEMMA InsideErrnos ==
    ASSUME TypeOK, Locks, Buffers, Errnos, Loaded, Once, NEW p \in Callers, InsideStep(p)
    PROVE  Errnos'
<1> USE ConnType, Apart, PoolAssumption DEF TypeOK, Locks, Errnos, Holding
<1>a. Inside(p) /\ \A q \in Callers : Conn(q)' = Conn(q)
  BY InsideSteps DEF InsideStep, Inside, Conn, Chosen
<1>b. Holding(p) /\ mutex[Conn(p)] = p
  BY <1>a DEF Inside, Locks
<1>1. CASE Escape(p)
  BY <1>1, <1>a, <1>b DEF Inside, Escape, connVars, history
<1>2. CASE NothingToUse(p)
  BY <1>2, <1>a, <1>b DEF Inside, NothingToUse, Usable, End
<1>3. CASE TextRuns(p)
  BY <1>3, <1>a, <1>b DEF Inside, TextRuns, Usable, End
<1>4. CASE TextFails(p)
  BY <1>4, <1>a, <1>b DEF Inside, TextFails, Usable, End
<1>5. CASE BindParameters(p)
  BY <1>5, <1>a, <1>b DEF Inside, BindParameters, Usable, history
<1>6. CASE StatementRuns(p)
  BY <1>6, <1>a, <1>b DEF Inside, StatementRuns, ClearParameters
<1>7. CASE StatementFails(p)
  BY <1>7, <1>a, <1>b DEF Inside, StatementFails, ClearParameters, history
<1>8. CASE Lost(p)
  BY <1>8, <1>a, <1>b DEF Inside, Lost, Usable
<1>9. CASE Reconnected(p)
  BY <1>9, <1>a, <1>b DEF Inside, Reconnected, Detached, history
<1>10. CASE ReconnectLater(p)
  BY <1>10, <1>a, <1>b DEF Inside, ReconnectLater, Detached, history
<1>11. CASE ReconnectFails(p)
  BY <1>11, <1>a, <1>b DEF Inside, ReconnectFails, Detached, ClearParameters, history
<1> QED BY <1>1, <1>2, <1>3, <1>4, <1>5, <1>6, <1>7, <1>8, <1>9, <1>10, <1>11 DEF InsideStep

LEMMA InsideOnce ==
    ASSUME TypeOK, Locks, Buffers, Errnos, Loaded, Once, NEW p \in Callers, InsideStep(p)
    PROVE  Once'
<1> USE ConnType, Apart, PoolAssumption DEF TypeOK, Locks, Once, Buffers, BoundIsMine, Holding
<1>a. Inside(p) /\ \A q \in Callers : Conn(q)' = Conn(q)
  BY InsideSteps DEF InsideStep, Inside, Conn, Chosen
<1>b. Holding(p) /\ mutex[Conn(p)] = p
  BY <1>a DEF Inside, Locks
<1>1. CASE Escape(p)
  BY <1>1, <1>a, <1>b DEF Inside, Escape, connVars, history
<1>2. CASE NothingToUse(p)
  BY <1>2, <1>a, <1>b DEF Inside, NothingToUse, Usable, End
<1>3. CASE TextRuns(p)
  BY <1>3, <1>a, <1>b DEF Inside, TextRuns, Usable, End
<1>4. CASE TextFails(p)
  BY <1>4, <1>a, <1>b DEF Inside, TextFails, Usable, End
<1>5. CASE BindParameters(p)
  BY <1>5, <1>a, <1>b DEF Inside, BindParameters, Usable, history
<1>6. CASE StatementRuns(p)
  BY <1>6, <1>a, <1>b DEF Inside, StatementRuns, ClearParameters
<1>7. CASE StatementFails(p)
  BY <1>7, <1>a, <1>b DEF Inside, StatementFails, ClearParameters, history
<1>8. CASE Lost(p)
  BY <1>8, <1>a, <1>b DEF Inside, Lost, Usable
<1>9. CASE Reconnected(p)
  BY <1>9, <1>a, <1>b DEF Inside, Reconnected, Detached, history
<1>10. CASE ReconnectLater(p)
  BY <1>10, <1>a, <1>b DEF Inside, ReconnectLater, Detached, history
<1>11. CASE ReconnectFails(p)
  BY <1>11, <1>a, <1>b DEF Inside, ReconnectFails, Detached, ClearParameters, history
<1> QED BY <1>1, <1>2, <1>3, <1>4, <1>5, <1>6, <1>7, <1>8, <1>9, <1>10, <1>11 DEF InsideStep

Data == Buffers /\ Errnos /\ Loaded /\ Once

LEMMA InitData == Init => Data
BY PoolAssumption DEF Init, Data, Buffers, BoundIsMine, Errnos, Loaded, Once

LEMMA DataStep == TypeOK /\ Locks /\ Data /\ [Next]_vars => Data'
<1> SUFFICES ASSUME TypeOK, Locks, Data, [Next]_vars PROVE Data'
  OBVIOUS
<1> USE PoolAssumption DEF Data
<1>1. ASSUME NEW p \in Callers, InsideStep(p) PROVE Data'
  <2>1. Loaded'
    <3>1. Inside(p) /\ load' = load
      BY <1>1, InsideSteps DEF InsideStep, Escape, NothingToUse, TextRuns, TextFails, End,
         BindParameters, StatementRuns, StatementFails, Lost, Reconnected, ReconnectLater,
         ReconnectFails
    <3> QED BY <3>1 DEF Inside, Loaded, Holding
  <2> QED BY <1>1, <2>1, InsideBuffers, InsideErrnos, InsideOnce
<1>2. ASSUME NEW p \in Callers, TryLock(p) PROVE Data'
  <2> DEFINE c == Chosen(i[p] + 1)
  <2>1. /\ pc[p] = "try" /\ ~Holding(p) /\ c \in Conns
        /\ Conn(p)' = c /\ \A q \in Callers : q # p => Conn(q)' = Conn(q)
    BY <1>2, ChosenType DEF TypeOK, TryLock, Following, Holding, Conn
  <2>2. /\ \/ mutex[c] = None /\ mutex' = [mutex EXCEPT ![c] = p] /\ pc' = [pc EXCEPT ![p] = "use"]
           \/ mutex' = mutex /\ pc' = pc
        /\ UNCHANGED <<load, stmt, handle, errno, params, op, applied>>
    BY <1>2 DEF TypeOK, TryLock, Following, Ready, history
  <2>3. \A d \in Conns : params[d] # p
    BY <2>1 DEF Buffers
  <2>4. Buffers'
    BY <2>1, <2>2, <2>3 DEF TypeOK, Buffers, BoundIsMine
  <2>5. Errnos'
    BY <2>1, <2>2 DEF TypeOK, Errnos
  <2>6. Loaded' /\ Once'
    BY <2>1, <2>2 DEF TypeOK, Loaded, Once
  <2> QED BY <2>4, <2>5, <2>6
<1>3. ASSUME NEW p \in Callers, Unlock(p) PROVE Data'
  <2>1. /\ pc[p] = "unlock" /\ mutex[Conn(p)] = p /\ Conn(p) \in Conns
        /\ \A q \in Callers : q # p => Conn(q)' = Conn(q)
    BY <1>3, ConnType DEF TypeOK, Unlock, Locks, Holding, Conn
  <2>2. /\ mutex' = [mutex EXCEPT ![Conn(p)] = None] /\ pc' = [pc EXCEPT ![p] = "idle"]
        /\ op' = [op EXCEPT ![p] = None] /\ applied' = [applied EXCEPT ![p] = 0]
        /\ UNCHANGED <<load, stmt, handle, errno, params>>
    BY <1>3 DEF Unlock
  <2>3. Buffers'
    BY <2>1, <2>2 DEF TypeOK, Buffers, BoundIsMine
  <2>4. Errnos'
    BY <2>1, <2>2 DEF TypeOK, Errnos
  <2>5. Loaded' /\ Once'
    BY <2>1, <2>2 DEF TypeOK, Loaded, Once
  <2> QED BY <2>3, <2>4, <2>5
<1>4. ASSUME NEW p \in Callers, NEW k \in Kinds, Call(p, k) PROVE Data'
  <2>1. /\ pc[p] = "idle" /\ load = SyncThreads
        /\ \A q \in Callers : Conn(q)' = Conn(q)
    BY <1>4 DEF Call, Conn
  <2>2. /\ pc' = [pc EXCEPT ![p] = "try"] /\ op' = [op EXCEPT ![p] = k]
        /\ UNCHANGED <<load, connVars, applied>>
    BY <1>4 DEF Call, history
  <2>3. Buffers' /\ Errnos'
    BY <2>1, <2>2 DEF TypeOK, Buffers, BoundIsMine, Errnos, connVars
  <2>4. Loaded' /\ Once'
    BY <2>1, <2>2 DEF TypeOK, Loaded, Once, connVars
  <2> QED BY <2>3, <2>4
<1>5. CASE Prepare
  <2>1. /\ \A q \in Callers : Conn(q)' = Conn(q) /\ pc[q] = "idle"
        /\ UNCHANGED <<handle, errno, mutex, params, pc, op, applied>>
        /\ \A c \in Conns : params[c] \notin Callers
    BY <1>5 DEF TypeOK, Prepare, Conn, Loaded, Buffers, history
  <2> QED BY <2>1 DEF TypeOK, Buffers, BoundIsMine, Errnos, Loaded, Once
<1>6. CASE UNCHANGED vars
  <2>1. \A q \in Callers : Conn(q)' = Conn(q)
    BY <1>6 DEF vars, Conn
  <2> QED BY <1>6, <2>1 DEF vars, connVars, history, Buffers, BoundIsMine, Errnos, Loaded, Once
<1> QED BY <1>1, <1>2, <1>3, <1>4, <1>5, <1>6 DEF Next, Step, InsideStep

-----------------------------------------------------------------------------
(***************************************************************************)
(* Theorems.                                                               *)
(***************************************************************************)
IInv == TypeOK /\ Locks /\ Spin /\ Data

LEMMA InitIInv == Init => IInv
<1> SUFFICES ASSUME Init PROVE IInv
  OBVIOUS
<1>1. \A k \in 0..NCallers : Past(k) = {}
  BY PastFinite DEF Init, Past
<1>2. LeftBehind
  BY <1>1, PastFinite, FS_EmptySet, SMT DEF LeftBehind
<1> QED BY <1>2, InitType, InitLocks, InitData DEF IInv, Spin

LEMMA SpecIInv == Spec => []IInv
<1>1. IInv /\ [Next]_vars => IInv'
  BY TypeStep, LockStep, SpinStep, DataStep DEF IInv
<1> QED BY <1>1, InitIInv, PTL DEF Spec

\* The variables of the synchronous connections keep their types.
THEOREM TypeCorrect == Spec => []TypeOK
<1>1. IInv => TypeOK
  BY DEF IInv
<1> QED BY <1>1, SpecIInv, PTL

\* GetSyncConnection ends within one round whenever there are no more threads
\* than synchronous connections, for any number of both.
THEOREM SpinIsBounded == Spec => []SpinBounded
<1>1. IInv => SpinBounded
  <2> SUFFICES ASSUME IInv, NCallers <= SyncThreads, NEW p \in Callers
               PROVE  i[p] <= SyncThreads /\ (pc[p] = "try" => i[p] < SyncThreads)
    BY DEF SpinBounded, NCallers
  <2>1. i[p] <= NCallers /\ (pc[p] = "try" => i[p] < NCallers) /\ i[p] \in Nat
    BY FewTries DEF IInv, Spin, TypeOK
  <2> QED BY <2>1, PastFinite, PoolAssumption, SMT
<1> QED BY <1>1, SpecIInv, PTL

\* Statements run with their own caller's parameters (BindParameters, the mutex
\* of the connection), and ClearParameters is reached on every way out of a call.
THEOREM ParametersKept == Spec => []ParametersSafe
<1>1. IInv => BoundIsMine
  BY DEF IInv, Data, Buffers
<1>2. IInv => NoLeftovers
  BY PoolAssumption DEF IInv, Data, Buffers, NoLeftovers, TypeOK
<1>3. IInv => ParametersSafe
  BY <1>1, <1>2 DEF ParametersSafe
<1> QED BY <1>3, SpecIInv, PTL

\* A failed statement never sees an old loss of its connection (Execute, _Query
\* and _HandleMySQLErrno).
THEOREM ErrnoIsFresh == Spec => []ErrnoFresh
<1>1. IInv => ErrnoFresh
  BY ConnType DEF IInv, Data, Errnos, ErrnoFresh, Locks, Holding
<1> QED BY <1>1, SpecIInv, PTL

\* The repetition after a lost connection never carries a statement out twice.
THEOREM StatementsOnce == Spec => []StatementOnce
<1>1. IInv => StatementOnce
  BY DEF IInv, Data, Once, StatementOnce
<1> QED BY <1>1, SpecIInv, PTL

=============================================================================
