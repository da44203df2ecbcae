---------------------------- MODULE DataMgrProofs ----------------------------
(***************************************************************************)
(* Proofs about DataMgr, for any number of threads and any configuration   *)
(* of the upload.                                                          *)
(***************************************************************************)
EXTENDS DataMgr, SequenceTheorems, TLAPS

\* What the proof needs of the types.
StoreOK == datastore \in Seq(Nat) /\ count \in Nat /\ pc \in [Threads -> Pcs]

\* One thread at a time is inside Upload, and none while the timer waits: the
\* timer is armed again only when Upload has returned.
OneUploader ==
    /\ armed => \A t \in Threads : pc[t] = "idle"
    /\ \A t, u \in Threads : pc[t] # "idle" /\ pc[u] # "idle" => t = u

\* NeverPopsEmpty is not inductive: another uploader could empty the queue
\* between the test and the Pop.
PopInv == StoreOK /\ OneUploader /\ NeverPopsEmpty

\* Initially no thread uploads.
LEMMA PopInit == Init => PopInv
BY DEF Init, PopInv, StoreOK, OneUploader, NeverPopsEmpty, Pcs

\* Every step keeps the invariant.
LEMMA PopStep == PopInv /\ [Next]_vars => PopInv'
<1> SUFFICES ASSUME PopInv, [Next]_vars PROVE PopInv'
  OBVIOUS
<1> USE DEF PopInv, StoreOK, OneUploader, NeverPopsEmpty, Pcs
<1>1. CASE Push
  BY <1>1 DEF Push, PushBack
<1>2. ASSUME NEW t \in Threads, UploadTimerExpired(t) PROVE PopInv'
  BY <1>2 DEF UploadTimerExpired, ArmedDuringUpload, RearmAfter
<1>3. ASSUME NEW t \in Threads, TestSize(t) PROVE PopInv'
  BY <1>3, CountAssumption DEF TestSize, EnoughShares
<1>4. ASSUME NEW t \in Threads, Pop(t) PROVE PopInv'
  <2>1. datastore' \in Seq(Nat)
    BY <1>4 DEF Pop
  <2> QED
    BY <2>1, <1>4 DEF Pop
<1>5. ASSUME NEW t \in Threads, MoreRows(t) PROVE PopInv'
  BY <1>5 DEF MoreRows
<1>6. ASSUME NEW t \in Threads, ExecuteAsync(t) PROVE PopInv'
  BY <1>6 DEF ExecuteAsync
<1>7. CASE UNCHANGED vars
  BY <1>7 DEF vars
<1> QED
  BY <1>1, <1>2, <1>3, <1>4, <1>5, <1>6, <1>7 DEF Next, UploadStep

\* DataMgr::Pop never reads the front of an empty queue, however many worker
\* threads there are and whatever the counts are configured to.
THEOREM PopsOnlyShares == Spec => []NeverPopsEmpty
<1>1. PopInv => NeverPopsEmpty
  BY DEF PopInv
<1> QED
  BY <1>1, PopInit, PopStep, PTL DEF Spec

-----------------------------------------------------------------------------
(***************************************************************************)
(* QueriesWellFormed.  The text of a query follows the loop: before Pop it *)
(* ends with a comma or is empty, after it with a row.                     *)
(***************************************************************************)
Alternates(q) == \A k \in 1..Len(q) : IsRow(q[k]) <=> k % 2 = 1

QueryOf(t) ==
    /\ query[t] \in Seq(Nat \cup {Comma}) /\ row[t] \in Nat
    /\ Alternates(query[t])
    /\ pc[t] \in {"idle", "test"} => query[t] = <<>> /\ row[t] = 0
    /\ pc[t] = "pop" => Len(query[t]) = 2 * row[t] /\ row[t] < Bulk
    /\ pc[t] = "more" => Len(query[t]) = 2 * row[t] + 1 /\ row[t] < Bulk
    /\ pc[t] = "exec" => \E k \in Nat : Len(query[t]) = 2 * k + 1 /\ k < Bulk

QueryInv ==
    /\ StoreOK
    /\ DOMAIN query = Threads /\ DOMAIN row = Threads
    /\ \A t \in Threads : QueryOf(t)

\* Initially every query is empty.
LEMMA QueryInit == Init => QueryInv
BY DEF Init, QueryInv, StoreOK, QueryOf, Alternates, Pcs

\* Another element keeps the alternation when it is of the right kind.
LEMMA AlternatesAppend ==
    ASSUME NEW q \in Seq(Nat \cup {Comma}), NEW x \in Nat \cup {Comma}, Alternates(q),
           IsRow(x) <=> (Len(q) + 1) % 2 = 1
    PROVE  /\ Append(q, x) \in Seq(Nat \cup {Comma})
           /\ Len(Append(q, x)) = Len(q) + 1
           /\ Alternates(Append(q, x))
<1>1. /\ Append(q, x) \in Seq(Nat \cup {Comma}) /\ Len(Append(q, x)) = Len(q) + 1
      /\ Len(q) \in Nat
  OBVIOUS
<1>2. ASSUME NEW k \in 1..(Len(q) + 1) PROVE IsRow(Append(q, x)[k]) <=> k % 2 = 1
  <2>1. CASE k = Len(q) + 1
    BY <1>1, <2>1
  <2>2. CASE k # Len(q) + 1
    <3>1. k \in 1..Len(q) /\ Append(q, x)[k] = q[k]
      BY <1>1, <2>2
    <3> QED
      BY <3>1 DEF Alternates
  <2> QED
    BY <2>1, <2>2
<1> QED
  BY <1>1, <1>2 DEF Alternates

\* A comma may follow a query of odd length.
LEMMA CommaFollows ==
    ASSUME NEW q \in Seq(Nat \cup {Comma}), NEW r \in Nat, Len(q) = 2 * r + 1, Alternates(q)
    PROVE  /\ Append(q, Comma) \in Seq(Nat \cup {Comma})
           /\ Len(Append(q, Comma)) = 2 * (r + 1)
           /\ Alternates(Append(q, Comma))
<1>1. (2 * r + 1 + 1) % 2 = 0
  OBVIOUS
<1>2. IsRow(Comma) <=> (Len(q) + 1) % 2 = 1
  BY <1>1 DEF IsRow
<1>3. Comma \in Nat \cup {Comma}
  OBVIOUS
<1>4. /\ Append(q, Comma) \in Seq(Nat \cup {Comma}) /\ Len(Append(q, Comma)) = Len(q) + 1
      /\ Alternates(Append(q, Comma))
  BY <1>2, <1>3, AlternatesAppend
<1> QED
  BY <1>4

\* A step of one thread keeps the queries of the others.
LEMMA OtherQueries ==
    ASSUME NEW u \in Threads, QueryOf(u), pc'[u] = pc[u], query'[u] = query[u], row'[u] = row[u]
    PROVE  QueryOf(u)'
BY DEF QueryOf, Alternates

\* Pop appends a row to a query of even length.
LEMMA PopQuery ==
    ASSUME QueryInv, NEW t \in Threads, Pop(t)
    PROVE  QueryInv'
<1> USE DEF QueryInv, StoreOK, Pop
<1>1. QueryOf(t) /\ Head(datastore) \in Nat /\ datastore' \in Seq(Nat)
  OBVIOUS
<1>2. IsRow(Head(datastore)) /\ (Len(query[t]) + 1) % 2 = 1
  <2>1. Len(query[t]) = 2 * row[t] /\ row[t] \in Nat
    BY <1>1 DEF QueryOf
  <2>2. (2 * row[t] + 1) % 2 = 1
    BY <2>1
  <2>3. IsRow(Head(datastore))
    BY <1>1, CommaAssumption DEF IsRow
  <2> QED
    BY <2>1, <2>2, <2>3
<1>3. QueryOf(t)'
  <2>1. /\ query'[t] = Append(query[t], Head(datastore)) /\ row'[t] = row[t] /\ pc'[t] = "more"
    OBVIOUS
  <2>2. /\ query'[t] \in Seq(Nat \cup {Comma}) /\ Len(query'[t]) = Len(query[t]) + 1
        /\ Alternates(query'[t])
    BY <1>1, <1>2, <2>1, AlternatesAppend DEF QueryOf
  <2> QED
    BY <1>1, <2>1, <2>2 DEF QueryOf, Alternates
<1>4. ASSUME NEW u \in Threads, u # t PROVE QueryOf(u)'
  BY <1>4, OtherQueries
<1> QED
  BY <1>1, <1>3, <1>4 DEF Pcs

\* The comma is written exactly when another row follows.
LEMMA MoreQuery ==
    ASSUME QueryInv, NEW t \in Threads, MoreRows(t)
    PROVE  QueryInv'
<1> USE CountAssumption DEF QueryInv, StoreOK, MoreRows
<1>1. /\ QueryOf(t) /\ row[t] \in Nat /\ Len(query[t]) = 2 * row[t] + 1 /\ row[t] < Bulk
      /\ query[t] \in Seq(Nat \cup {Comma}) /\ Alternates(query[t])
  BY DEF QueryOf
<1>2. QueryOf(t)'
  <2>1. CASE pc'[t] = "exec" /\ UNCHANGED <<row, query>>
    BY <1>1, <2>1 DEF QueryOf, Alternates
  <2>2. CASE /\ datastore # <<>>
             /\ query' = [query EXCEPT ![t] = IF NeedsComma(row[t]) THEN Append(@, Comma) ELSE @]
             /\ row' = [row EXCEPT ![t] = @ + 1]
             /\ pc' = [pc EXCEPT ![t] = IF AnotherRow(row[t] + 1) THEN "pop" ELSE "exec"]
    <3>1. CASE row[t] = Bulk - 1
      <4>1. query'[t] = query[t] /\ row'[t] = row[t] + 1 /\ pc'[t] = "exec"
        BY <1>1, <2>2, <3>1 DEF NeedsComma, AnotherRow
      <4> QED
        BY <1>1, <4>1 DEF QueryOf, Alternates
    <3>2. CASE row[t] # Bulk - 1
      <4>1. query'[t] = Append(query[t], Comma) /\ row'[t] = row[t] + 1 /\ pc'[t] = "pop"
        BY <1>1, <2>2, <3>2 DEF NeedsComma, AnotherRow
      <4>2. /\ Append(query[t], Comma) \in Seq(Nat \cup {Comma})
            /\ Len(Append(query[t], Comma)) = 2 * (row[t] + 1)
            /\ Alternates(Append(query[t], Comma))
        BY <1>1, CommaFollows
      <4>3. /\ query'[t] \in Seq(Nat \cup {Comma}) /\ Len(query'[t]) = 2 * (row[t] + 1)
            /\ Alternates(query'[t])
        BY <4>1, <4>2
      <4>4. Len(query'[t]) = 2 * row'[t] /\ row'[t] \in Nat /\ row'[t] < Bulk
        BY <1>1, <3>2, <4>1, <4>3
      <4> QED
        BY <4>1, <4>3, <4>4 DEF QueryOf, Alternates
    <3> QED
      BY <3>1, <3>2
  <2> QED
    BY <2>1, <2>2
<1>3. ASSUME NEW u \in Threads, u # t PROVE QueryOf(u)'
  BY <1>3, OtherQueries
<1>4. pc' \in [Threads -> Pcs] /\ DOMAIN query' = Threads /\ DOMAIN row' = Threads
  BY DEF Pcs
<1> QED
  BY <1>2, <1>3, <1>4

\* Every step keeps the form of the queries.
LEMMA QueryStep == QueryInv /\ [Next]_vars => QueryInv'
<1> SUFFICES ASSUME QueryInv, [Next]_vars PROVE QueryInv'
  OBVIOUS
<1>1. CASE Push
  <2>1. UNCHANGED <<pc, query, row>> /\ StoreOK'
    BY <1>1 DEF Push, PushBack, QueryInv, StoreOK
  <2>2. \A u \in Threads : QueryOf(u)'
    BY <2>1, OtherQueries DEF QueryInv
  <2> QED
    BY <2>1, <2>2 DEF QueryInv
<1>2. ASSUME NEW t \in Threads, UploadTimerExpired(t) PROVE QueryInv'
  BY <1>2 DEF UploadTimerExpired, QueryInv, StoreOK, QueryOf, Alternates, Pcs
<1>3. ASSUME NEW t \in Threads, TestSize(t) PROVE QueryInv'
  <2>1. UNCHANGED <<query, row>> /\ StoreOK' /\ pc'[t] \in {"pop", "idle"}
    BY <1>3 DEF TestSize, QueryInv, StoreOK, Pcs
  <2>2. query[t] = <<>> /\ row[t] = 0 /\ QueryOf(t)
    BY <1>3 DEF TestSize, QueryInv, QueryOf
  <2>3. QueryOf(t)'
    BY <2>1, <2>2, CountAssumption DEF QueryOf, Alternates
  <2>4. \A u \in Threads : u # t => QueryOf(u)'
    BY <1>3, <2>1, OtherQueries DEF TestSize, QueryInv, StoreOK
  <2> QED
    BY <2>1, <2>3, <2>4 DEF QueryInv
<1>4. ASSUME NEW t \in Threads, ExecuteAsync(t) PROVE QueryInv'
  <2>1. /\ query'[t] = <<>> /\ row'[t] = 0 /\ pc'[t] = "test" /\ StoreOK'
        /\ DOMAIN query' = Threads /\ DOMAIN row' = Threads
    BY <1>4 DEF ExecuteAsync, QueryInv, StoreOK, Pcs
  <2>2. QueryOf(t)'
    BY <2>1 DEF QueryOf, Alternates
  <2>3. \A u \in Threads : u # t => QueryOf(u)'
    BY <1>4, OtherQueries DEF ExecuteAsync, QueryInv, StoreOK
  <2> QED
    BY <2>1, <2>2, <2>3 DEF QueryInv
<1>5. CASE UNCHANGED vars
  BY <1>5 DEF vars, QueryInv, StoreOK, QueryOf, Alternates
<1> QED
  BY <1>1, <1>2, <1>3, <1>4, <1>5, PopQuery, MoreQuery DEF Next, UploadStep

\* Every query that Upload executes is a list of rows with a comma between two
\* of them and none at the end, for any bulk size and any number of threads that
\* push between the steps.
THEOREM QueriesAreLists == Spec => []QueriesWellFormed
<1>1. QueryInv => QueriesWellFormed
  <2> SUFFICES ASSUME QueryInv, NEW t \in Threads, pc[t] = "exec" PROVE WellFormed(query[t])
    BY DEF QueriesWellFormed
  <2>1. PICK k \in Nat : Len(query[t]) = 2 * k + 1 /\ k < Bulk
    BY DEF QueryInv, QueryOf
  <2>2. Len(query[t]) % 2 = 1 /\ Len(query[t]) < 2 * Bulk
    BY <2>1, CountAssumption
  <2> QED
    BY <2>2 DEF WellFormed, QueryInv, QueryOf, Alternates
<1> QED
  BY <1>1, QueryInit, QueryStep, PTL DEF Spec

-----------------------------------------------------------------------------
(***************************************************************************)
(* DataMgr implements SharePipe.  The rows of the one query being built    *)
(* are the front of the waiting shares, so Pop and the commas are          *)
(* stuttering steps and ExecuteAsync sends as many shares as it has rows.  *)
(***************************************************************************)
Texts == Seq(Nat \cup {Comma})

\* The rows of a query are numbers, and there are half as many as elements.
LEMMA RowsType ==
    ASSUME NEW q \in Texts, Alternates(q)
    PROVE  Rows(q) \in Seq(Nat) /\ Len(Rows(q)) = (Len(q) + 1) \div 2
<1> DEFINE n == (Len(q) + 1) \div 2
<1>1. Len(q) \in Nat /\ n \in Nat
  BY DEF Texts
<1>2. ASSUME NEW k \in 1..n PROVE q[2 * k - 1] \in Nat
  <2>1. 2 * k - 1 \in 1..Len(q) /\ (2 * k - 1) % 2 = 1
    BY <1>1, <1>2
  <2>2. IsRow(q[2 * k - 1]) /\ q[2 * k - 1] \in Nat \cup {Comma}
    BY <2>1 DEF Alternates, Texts
  <2> QED
    BY <2>2 DEF IsRow
<1>3. Rows(q) = [k \in 1..n |-> q[2 * k - 1]]
  BY DEF Rows
<1> HIDE DEF n
<1>4. Rows(q) \in [1..n -> Nat]
  BY <1>2, <1>3
<1>5. Rows(q) \in Seq(Nat) /\ Len(Rows(q)) = n
  BY <1>1, <1>4
<1> QED
  BY <1>5 DEF n

\* A row that is appended is the last row.
LEMMA RowsAppend ==
    ASSUME NEW q \in Texts, Alternates(q), NEW x \in Nat, NEW r \in Nat, Len(q) = 2 * r
    PROVE  Rows(Append(q, x)) = Append(Rows(q), x)
<1>1. (2 * r + 1) \div 2 = r /\ (2 * r + 1 + 1) \div 2 = r + 1
  OBVIOUS
<1>2. Len(Append(q, x)) = 2 * r + 1 /\ \A k \in 1..(2 * r) : Append(q, x)[k] = q[k]
  BY DEF Texts
<1>3. Append(q, x)[2 * (r + 1) - 1] = x
  BY DEF Texts
<1>4. Rows(Append(q, x)) = [k \in 1..(r + 1) |-> Append(q, x)[2 * k - 1]]
  BY <1>1, <1>2 DEF Rows
<1>5. Rows(q) = [k \in 1..r |-> q[2 * k - 1]] /\ Rows(q) \in Seq(Nat) /\ Len(Rows(q)) = r
  BY <1>1, RowsType DEF Rows
<1>6. Append(Rows(q), x) = [k \in 1..(r + 1) |-> IF k = r + 1 THEN x ELSE Rows(q)[k]]
  BY <1>5
<1>7. \A k \in 1..(r + 1) : Append(q, x)[2 * k - 1] = IF k = r + 1 THEN x ELSE Rows(q)[k]
  <2> SUFFICES ASSUME NEW k \in 1..(r + 1), k # r + 1 PROVE Append(q, x)[2 * k - 1] = Rows(q)[k]
    BY <1>3
  <2>1. k \in 1..r /\ 2 * k - 1 \in 1..(2 * r)
    OBVIOUS
  <2> QED
    BY <1>2, <1>5, <2>1
<1> QED
  BY <1>4, <1>6, <1>7

\* A comma is no row.
LEMMA RowsComma ==
    ASSUME NEW q \in Texts, NEW r \in Nat, Len(q) = 2 * r + 1
    PROVE  Rows(Append(q, Comma)) = Rows(q)
<1>1. (2 * r + 1 + 1) \div 2 = r + 1 /\ (2 * r + 2 + 1) \div 2 = r + 1
  OBVIOUS
<1>2. Len(Append(q, Comma)) = 2 * r + 2 /\ \A k \in 1..(2 * r + 1) : Append(q, Comma)[k] = q[k]
  BY DEF Texts
<1>3. \A k \in 1..(r + 1) : 2 * k - 1 \in 1..(2 * r + 1)
  OBVIOUS
<1>4. Rows(Append(q, Comma)) = [k \in 1..(r + 1) |-> Append(q, Comma)[2 * k - 1]]
  BY <1>1, <1>2 DEF Rows
<1>5. Rows(q) = [k \in 1..(r + 1) |-> q[2 * k - 1]]
  BY <1>1 DEF Rows
<1> QED
  BY <1>2, <1>3, <1>4, <1>5

\* With one uploader InQuery is its rows.
LEMMA QueryOfOne ==
    ASSUME NEW q, NEW t \in Threads, \A u \in Threads : u # t => q[u] = <<>>
    PROVE  InQuery(q) = Rows(q[t])
<1>1. CASE q[t] = <<>>
  <2>1. Rows(<<>>) = <<>>
    BY DEF Rows
  <2> QED
    BY <1>1, <2>1 DEF InQuery
<1>2. CASE q[t] # <<>>
  <2>1. (CHOOSE u \in Threads : q[u] # <<>>) = t
    BY <1>2
  <2> QED
    BY <1>2, <2>1 DEF InQuery
<1> QED
  BY <1>1, <1>2

\* Only a thread that uploads has a query.
LEMMA OnlyUploader ==
    ASSUME PopInv, QueryInv, NEW t \in Threads, pc[t] # "idle"
    PROVE  \A u \in Threads : u # t => query[u] = <<>>
BY DEF PopInv, OneUploader, QueryInv, QueryOf

\* Push appends to the waiting shares.
LEMMA PushMaps ==
    ASSUME PopInv, QueryInv, Push
    PROVE  Pipe!Accept
<1>1. InQuery(query) \in Seq(Nat)
  <2>1. CASE \E t \in Threads : query[t] # <<>>
    <3>1. (CHOOSE t \in Threads : query[t] # <<>>) \in Threads
      BY <2>1
    <3> QED
      BY <2>1, <3>1, RowsType DEF InQuery, QueryInv, QueryOf, Texts
  <2>2. CASE ~ \E t \in Threads : query[t] # <<>>
    BY <2>2 DEF InQuery
  <2> QED
    BY <2>1, <2>2
<1> DEFINE w == InQuery(query)
<1>2. query' = query /\ sent' = sent /\ count' = count + 1 /\ count < MaxPush /\ datastore' = Append(datastore, count')
  BY DEF Push, PushBack
<1>3. datastore \in Seq(Nat) /\ count' \in Nat
  BY <1>2 DEF PopInv, StoreOK
<1> HIDE DEF w
<1>4. w \o Append(datastore, count') = Append(w \o datastore, count')
  BY <1>1, <1>3 DEF w
<1> QED
  BY <1>2, <1>4 DEF Pipe!Accept, w

\* Pop moves a share from the queue to the query, at the same place.
LEMMA PopMaps ==
    ASSUME PopInv, QueryInv, NEW t \in Threads, Pop(t)
    PROVE  UNCHANGED <<count, InQuery(query) \o datastore, sent>>
<1> DEFINE q == query[t]
           x == Head(datastore)
<1>1. /\ pc[t] = "pop" /\ datastore # <<>> /\ query' = [query EXCEPT ![t] = Append(q, x)]
      /\ datastore' = Tail(datastore) /\ UNCHANGED <<count, sent>>
  BY DEF Pop
<1>2. q \in Texts /\ Alternates(q) /\ Len(q) = 2 * row[t] /\ row[t] \in Nat
  BY <1>1 DEF QueryInv, QueryOf, Texts
<1>3. datastore \in Seq(Nat) /\ x \in Nat
  BY <1>1 DEF PopInv, StoreOK
<1>4. \A u \in Threads : u # t => query[u] = <<>> /\ query'[u] = <<>>
  BY <1>1, OnlyUploader DEF QueryInv
<1>5. query'[t] = Append(q, x)
  BY <1>1 DEF QueryInv
<1>6. InQuery(query) = Rows(q) /\ InQuery(query') = Rows(Append(q, x))
  <2>1. InQuery(query) = Rows(query[t])
    BY <1>4, QueryOfOne
  <2>2. InQuery(query') = Rows(query'[t])
    BY <1>4, QueryOfOne
  <2> QED
    BY <1>5, <2>1, <2>2
<1>7. Rows(Append(q, x)) = Append(Rows(q), x) /\ Rows(q) \in Seq(Nat)
  BY <1>2, <1>3, RowsAppend, RowsType
<1> DEFINE w == Rows(q)
<1> HIDE DEF w
<1>8. Append(w, x) \o Tail(datastore) = w \o datastore
  BY <1>1, <1>3, <1>7 DEF w
<1> QED
  BY <1>1, <1>6, <1>7, <1>8 DEF w

\* The comma and the end of the loop change no row.
LEMMA MoreMaps ==
    ASSUME PopInv, QueryInv, NEW t \in Threads, MoreRows(t)
    PROVE  UNCHANGED <<count, InQuery(query) \o datastore, sent>>
<1>1. pc[t] = "more" /\ UNCHANGED <<datastore, count, sent>>
  BY DEF MoreRows
<1>2. query[t] \in Texts /\ Len(query[t]) = 2 * row[t] + 1 /\ row[t] \in Nat
  BY <1>1 DEF QueryInv, QueryOf, Texts
<1>3. \A u \in Threads : u # t => query[u] = <<>> /\ query'[u] = query[u]
  BY <1>1, OnlyUploader DEF QueryInv, MoreRows
<1>4. query'[t] \in {query[t], Append(query[t], Comma)}
  BY DEF QueryInv, MoreRows
<1>5. Rows(query'[t]) = Rows(query[t])
  BY <1>2, <1>4, RowsComma
<1>6. InQuery(query) = Rows(query[t]) /\ InQuery(query') = Rows(query'[t])
  <2>1. InQuery(query) = Rows(query[t])
    BY <1>3, QueryOfOne
  <2>2. InQuery(query') = Rows(query'[t])
    BY <1>3, QueryOfOne
  <2> QED
    BY <2>1, <2>2
<1> QED
  BY <1>1, <1>5, <1>6

\* A concatenation is cut where it was joined.
LEMMA ConcatParts ==
    ASSUME NEW a \in Seq(Nat), NEW b \in Seq(Nat)
    PROVE  /\ Len(a) <= Len(a \o b)
           /\ SubSeq(a \o b, 1, Len(a)) = a
           /\ SubSeq(a \o b, Len(a) + 1, Len(a \o b)) = b
           /\ <<>> \o b = b
<1> DEFINE s == a \o b
<1>1. Len(a) \in Nat /\ Len(b) \in Nat
  OBVIOUS
<1>2. /\ s \in Seq(Nat) /\ Len(s) = Len(a) + Len(b)
      /\ \A i \in 1..(Len(a) + Len(b)) : s[i] = IF i <= Len(a) THEN a[i] ELSE b[i - Len(a)]
  BY ConcatProperties
<1> HIDE DEF s
<1>3. \A i \in 1..Len(s) : s[i] \in Nat
  BY <1>2
<1>4. SubSeq(s, 1, Len(a)) = a
  <2> DEFINE u == SubSeq(s, 1, Len(a))
  <2>1. \A i \in 1..Len(a) : s[i] \in Nat /\ s[i] = a[i]
    BY <1>1, <1>2, <1>3
  <2>2. /\ u \in Seq(Nat) /\ Len(u) = Len(a)
        /\ \A i \in 1..Len(a) : u[i] = s[i]
    BY <1>1, <2>1, SubSeqProperties
  <2> HIDE DEF u
  <2>3. u = a
    BY <2>1, <2>2, SeqEqual
  <2> QED
    BY <2>3 DEF u
<1>5. SubSeq(s, Len(a) + 1, Len(s)) = b
  <2> DEFINE u == SubSeq(s, Len(a) + 1, Len(s))
  <2>1. \A i \in (Len(a) + 1)..Len(s) : s[i] \in Nat
    BY <1>1, <1>2, <1>3
  <2>2. /\ u \in Seq(Nat) /\ Len(u) = Len(b)
        /\ \A i \in 1..Len(b) : u[i] = s[Len(a) + 1 + i - 1]
    BY <1>1, <1>2, <2>1, SubSeqProperties
  <2> HIDE DEF u
  <2>3. ASSUME NEW i \in 1..Len(b) PROVE u[i] = b[i]
    <3> DEFINE k == Len(a) + i
    <3>1. k \in 1..(Len(a) + Len(b)) /\ ~(k <= Len(a)) /\ k - Len(a) = i /\ Len(a) + 1 + i - 1 = k
      BY <1>1
    <3> HIDE DEF k
    <3>2. s[k] = b[k - Len(a)]
      BY <1>2, <3>1
    <3> QED
      BY <2>2, <3>1, <3>2
  <2>4. u = b
    BY <2>2, <2>3, SeqEqual
  <2> QED
    BY <2>4 DEF u
<1>6. <<>> \o b = b
  BY ConcatEmptySeq
<1> QED
  BY <1>1, <1>2, <1>4, <1>5, <1>6 DEF s

\* ExecuteAsync sends the front of the waiting shares.
LEMMA ExecMaps ==
    ASSUME PopInv, QueryInv, NEW t \in Threads, ExecuteAsync(t)
    PROVE  \E n \in 1..Bulk : Pipe!Send(n)
<1> DEFINE w == Rows(query[t])
           n == Len(w)
<1>1. /\ pc[t] = "exec" /\ UNCHANGED <<datastore, count>> /\ sent' = sent \o w
      /\ query' = [query EXCEPT ![t] = <<>>]
  BY DEF ExecuteAsync
<1>2. PICK k \in Nat : Len(query[t]) = 2 * k + 1 /\ k < Bulk
  BY <1>1 DEF QueryInv, QueryOf
<1>3. w \in Seq(Nat) /\ n = (Len(query[t]) + 1) \div 2
  BY RowsType DEF QueryInv, QueryOf, Texts
<1>4. n = k + 1 /\ n \in 1..Bulk
  BY <1>2, <1>3, CountAssumption
<1>5. \A u \in Threads : u # t => query[u] = <<>> /\ query'[u] = <<>>
  BY <1>1, OnlyUploader DEF QueryInv
<1>6. InQuery(query) = w /\ InQuery(query') = <<>>
  <2>1. InQuery(query) = Rows(query[t])
    BY <1>5, QueryOfOne
  <2>2. \A u \in Threads : query'[u] = <<>>
    BY <1>1, <1>5 DEF QueryInv
  <2> QED
    BY <2>1, <2>2 DEF InQuery
<1>7. datastore \in Seq(Nat)
  BY DEF PopInv, StoreOK
<1> HIDE DEF w, n
<1>8. /\ n <= Len(w \o datastore)
      /\ SubSeq(w \o datastore, 1, n) = w
      /\ SubSeq(w \o datastore, n + 1, Len(w \o datastore)) = datastore
      /\ <<>> \o datastore = datastore
  BY <1>3, <1>7, ConcatParts DEF n
<1>9. Pipe!Send(n)
  BY <1>1, <1>6, <1>8 DEF Pipe!Send
<1> QED
  BY <1>4, <1>9

\* Shares reach the database in the order of their arrival, none lost and none twice,
\* whatever is pushed during Upload and however many threads there are.
THEOREM ImplementsPipe == Spec => UploadsInOrder
<1>1. Init => Pipe!PipeInit
  <2> SUFFICES ASSUME Init PROVE Pipe!PipeInit
    OBVIOUS
  <2>1. InQuery(query) = <<>>
    BY DEF Init, InQuery
  <2> QED
    BY <2>1 DEF Init, Pipe!PipeInit
<1>2. PopInv /\ QueryInv /\ [Next]_vars => [Pipe!PipeNext]_<<count, InQuery(query) \o datastore, sent>>
  <2> SUFFICES ASSUME PopInv, QueryInv, [Next]_vars
               PROVE  Pipe!PipeNext \/ UNCHANGED <<count, InQuery(query) \o datastore, sent>>
    OBVIOUS
  <2>1. CASE UNCHANGED <<count, query, datastore, sent>>
    BY <2>1
  <2>2. CASE Push
    BY <2>2, PushMaps DEF Pipe!PipeNext
  <2>3. ASSUME NEW t \in Threads, UploadTimerExpired(t) \/ TestSize(t)
        PROVE  UNCHANGED <<count, InQuery(query) \o datastore, sent>>
    BY <2>1, <2>3 DEF UploadTimerExpired, TestSize
  <2>4. ASSUME NEW t \in Threads, ExecuteAsync(t) PROVE Pipe!PipeNext
    BY <2>4, ExecMaps DEF Pipe!PipeNext
  <2> QED
    BY <2>1, <2>2, <2>3, <2>4, PopMaps, MoreMaps DEF Next, UploadStep, vars
<1> QED
  BY <1>1, <1>2, PopInit, PopStep, QueryInit, QueryStep, PTL DEF Spec, UploadsInOrder, Pipe!PipeSpec

=============================================================================
