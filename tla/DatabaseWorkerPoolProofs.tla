---------------------- MODULE DatabaseWorkerPoolProofs ----------------------
(***************************************************************************)
(* Proofs about the asynchronous queue of DatabaseWorkerPool, for any      *)
(* number of workers and operations.                                       *)
(***************************************************************************)
EXTENDS DatabaseWorkerPool, SequenceTheorems, TLAPS

\* What the proofs need of the types.
ControlOK ==
    /\ phase \in Phases
    /\ queue \in Seq(Nat) /\ made \in Nat
    /\ pc \in [Workers -> WorkerPcs]

\* A worker inside Dequeue, not waiting, holds the mutex.
InDequeue(w) == pc[w] \in {"test", "wait", "take"}
Exclusive == \A w \in Workers : InDequeue(w) => mutex = w

\* A worker that decided to wait found the queue empty, and Enqueue needs the
\* mutex that worker holds.
WaitsOnEmpty == \A w \in Workers : pc[w] = "wait" => queue = <<>>

\* Workers are missing only while the pool is being opened, and gone only once
\* it has been stopped.
InOpen == {"sync", "async", "connect", "failed"}
Present == \A w \in Workers :
    /\ pc[w] = "none" => conn[w] = "none"
    /\ phase \notin InOpen => conn[w] # "none"
    /\ pc[w] = "exit" => endQueue
QuietOpen == phase \in InOpen => queue = <<>>

QueueInv ==
    /\ ControlOK /\ Exclusive /\ WaitsOnEmpty /\ Present /\ QuietOpen
    /\ conn \in [Workers -> Conns]
    /\ NeverTakesEmpty /\ SomeoneAwake

\* There is a worker.
LEMMA SomeWorker == 1 \in Workers
BY CountAssumption DEF Workers, AsyncLoops

\* No thread is the absent one.
LEMMA WorkerNotNone == None \notin Workers
BY NoneAssumption, CountAssumption DEF Workers, AsyncLoops

\* Initially there is no operation and no worker runs.
LEMMA QueueInit == Init => QueueInv
<1> SUFFICES ASSUME Init PROVE QueueInv
  OBVIOUS
<1>1. ControlOK /\ conn \in [Workers -> Conns]
  BY DEF Init, ControlOK, Phases, WorkerPcs, Conns
<1>2. Exclusive /\ WaitsOnEmpty /\ QuietOpen /\ NeverTakesEmpty /\ SomeoneAwake
  BY DEF Init, Exclusive, WaitsOnEmpty, QuietOpen, InDequeue, NeverTakesEmpty, SomeoneAwake
<1>3. Present
  BY DEF Init, Present, InOpen
<1> QED
  BY <1>1, <1>2, <1>3 DEF QueueInv

\* Steps of Open and Close leave the queue and the mutex alone.
LEMMA PoolSteps ==
    ASSUME QueueInv, OpenStep \/ Close \/ CloseStep
    PROVE  QueueInv'
<1> USE DEF QueueInv, ControlOK, Exclusive, WaitsOnEmpty, Present, QuietOpen, InDequeue, InOpen,
            NeverTakesEmpty, SomeoneAwake, Awake, Phases, WorkerPcs, Conns
<1>1. CASE OpenSync \/ Opened \/ OpenFails
  BY <1>1 DEF OpenSync, Opened, OpenFails, Started, queueVars, workVars, history
<1>2. ASSUME NEW w \in Workers, NewAsync(w) PROVE QueueInv'
  BY <1>2 DEF NewAsync, Started, queueVars, history
<1>3. ASSUME NEW w \in Workers, ConnectAsync(w) PROVE QueueInv'
  BY <1>3 DEF ConnectAsync, queueVars, workVars, history
<1>4. CASE Close
  BY <1>4 DEF Close, queueVars, workVars, history
<1>5. CASE StopQueue
  BY <1>5 DEF StopQueue, workVars, history
<1>6. CASE NotifyAll
  BY <1>6 DEF NotifyAll, Asleep, queueVars, history
<1>7. CASE DeleteSync \/ Closed
  BY <1>7 DEF DeleteSync, Closed, queueVars, workVars, history
<1>8. ASSUME NEW w \in Workers, DeleteAsync(w) PROVE QueueInv'
  BY <1>8 DEF DeleteAsync, queueVars, workVars, history
<1> QED
  BY <1>1, <1>2, <1>3, <1>4, <1>5, <1>6, <1>7, <1>8 DEF OpenStep, CloseStep

\* Enqueue wakes a sleeping worker, or finds none asleep.
LEMMA EnqueueStep == ASSUME QueueInv, Enqueue PROVE QueueInv'
<1> USE DEF QueueInv, ControlOK, WorkerPcs
<1>1. queue' \in Seq(Nat) /\ made' \in Nat /\ queue' # <<>>
  BY DEF Enqueue, PushBack
<1>2. pc' \in [Workers -> WorkerPcs] /\ \A w \in Workers :
        \/ pc'[w] = pc[w]
        \/ pc[w] = "asleep" /\ pc'[w] = "woken"
  BY DEF Enqueue, NotifyOne, Asleep
<1>3. ASSUME NEW w \in Workers PROVE ~InDequeue(w) /\ pc[w] # "none"
  BY SomeWorker, WorkerNotNone
     DEF Enqueue, CanEnqueue, Exclusive, InDequeue, Present, InOpen
<1>4. Exclusive' /\ WaitsOnEmpty' /\ Present' /\ QuietOpen' /\ NeverTakesEmpty'
  BY <1>1, <1>2, <1>3 DEF Enqueue, poolVars, Exclusive, InDequeue, WaitsOnEmpty, Present,
     QuietOpen, InOpen, NeverTakesEmpty
<1>5. SomeoneAwake'
  <2>1. CASE Asleep = {}
    <3>1. pc[1] # "asleep"
      BY <2>1, SomeWorker DEF Asleep
    <3> QED
      BY <3>1, <1>2, <1>3, SomeWorker DEF SomeoneAwake, Awake, Present, InDequeue, Enqueue
  <2>2. CASE \E w \in Asleep : pc' = [pc EXCEPT ![w] = "woken"]
    BY <2>2 DEF SomeoneAwake, Awake, Asleep
  <2> QED
    BY <2>1, <2>2 DEF Enqueue, NotifyOne
<1> QED
  BY <1>1, <1>2, <1>4, <1>5 DEF Enqueue, poolVars

\* A worker goes to sleep only on an empty queue, and every other step of a
\* worker leaves that worker awake, waiting on an empty queue, or stopped.
LEMMA WorkerSteps ==
    ASSUME QueueInv, NEW w \in Workers, WorkStep(w) \/ ReconnectLater(w) \/ SpuriousWake(w)
    PROVE  QueueInv'
<1> USE DEF QueueInv, ControlOK, Exclusive, WaitsOnEmpty, Present, QuietOpen, InDequeue, InOpen,
            NeverTakesEmpty, SomeoneAwake, Awake, Phases, WorkerPcs, Conns
<1>1. CASE LockQueue(w)
  BY <1>1, WorkerNotNone DEF LockQueue, poolVars, history
<1>2. CASE TestQueue(w)
  BY <1>2 DEF TestQueue, MustWait, poolVars, queueVars, history
<1>3. CASE Wait(w)
  BY <1>3 DEF Wait, poolVars, history
<1>4. CASE SpuriousWake(w)
  BY <1>4 DEF SpuriousWake, poolVars, queueVars, history
<1>5. CASE Relock(w)
  BY <1>5, WorkerNotNone DEF Relock, Retest, poolVars, history
<1>6. CASE Dequeue(w)
  <2>1. CASE endQueue /\ pc' = [pc EXCEPT ![w] = "exit"] /\ UNCHANGED queue
    BY <2>1, <1>6 DEF Dequeue, poolVars
  <2>2. CASE ~endQueue /\ queue # <<>> /\ queue' = Tail(queue) /\ pc' = [pc EXCEPT ![w] = "exec"]
    <3>1. queue' \in Seq(Nat)
      BY <2>2
    <3> QED
      BY <3>1, <2>2, <1>6 DEF Dequeue, poolVars
  <2> QED
    BY <2>1, <2>2, <1>6, Zenon DEF Dequeue, PopFront
<1>7. CASE QueryDone(w) \/ QueryFails(w)
  BY <1>7 DEF QueryDone, QueryFails, Finish, poolVars, queueVars
<1>8. CASE ConnectionLost(w)
  BY <1>8 DEF ConnectionLost, poolVars, queueVars
<1>9. CASE Reconnected(w)
  BY <1>9 DEF Reconnected, SetHandle, queueVars, history
<1>10. CASE ReconnectLater(w)
  BY <1>10 DEF ReconnectLater, SetHandle, queueVars, workVars, history
<1>11. CASE ReconnectFails(w)
  BY <1>11 DEF ReconnectFails, SetHandle, Finish, queueVars
<1> QED
  BY <1>1, <1>2, <1>3, <1>4, <1>5, <1>6, <1>7, <1>8, <1>9, <1>10, <1>11, Zenon
     DEF WorkStep, Execute

\* Every step keeps the invariant.
LEMMA QueueStep == QueueInv /\ [Next]_vars => QueueInv'
<1> SUFFICES ASSUME QueueInv, [Next]_vars PROVE QueueInv'
  OBVIOUS
<1>1. CASE Next
  BY <1>1, PoolSteps, EnqueueStep, WorkerSteps DEF Next
<1>2. CASE UNCHANGED vars
  BY <1>2 DEF vars, QueueInv, ControlOK, Exclusive, WaitsOnEmpty, Present, QuietOpen, InDequeue,
     NeverTakesEmpty, SomeoneAwake, Awake
<1> QED
  BY <1>1, <1>2

\* SynchronisedQueue::Dequeue never reads the front of an empty queue.
THEOREM TakesOnlyOperations == Spec => []NeverTakesEmpty
<1>1. QueueInv => NeverTakesEmpty
  BY DEF QueueInv
<1> QED
  BY <1>1, QueueInit, QueueStep, PTL DEF Spec

\* SynchronisedQueue::Enqueue loses no wake-up: a waiting operation always
\* finds a worker awake.
THEOREM NoLostWakeup == Spec => []SomeoneAwake
<1>1. QueueInv => SomeoneAwake
  BY DEF QueueInv
<1> QED
  BY <1>1, QueueInit, QueueStep, PTL DEF Spec

-----------------------------------------------------------------------------
(***************************************************************************)
(* What becomes of every operation.                                        *)
(***************************************************************************)
\* The types this argument needs.
LedgerOK ==
    /\ queue \in Seq(Nat) /\ taken \in Seq(Nat) /\ made \in Nat
    /\ pc \in [Workers -> WorkerPcs] /\ op \in [Workers -> Ops \cup {None}]
    /\ done \subseteq Ops /\ failed \subseteq Ops
    /\ lost \in [Ops -> Nat] /\ applied \in [Ops -> Nat]

\* The operations taken are the first ones, in order, and those in the queue
\* the others.
Numbered ==
    /\ made <= MaxOps /\ Len(taken) + Len(queue) = made
    /\ \A i \in 1..Len(taken) : taken[i] = i
    /\ \A i \in 1..Len(queue) : queue[i] = Len(taken) + i

\* A worker at work has an operation of its own, taken and not done.
Busy(w) == pc[w] \in {"exec", "reconnect"}
OneWorkerEach ==
    /\ \A w \in Workers : Busy(w) => op[w] \in 1..Len(taken) /\ op[w] \notin done
    /\ \A w, v \in Workers : Busy(w) /\ Busy(v) /\ op[w] = op[v] => w = v
    /\ done \subseteq 1..Len(taken)

\* Until an operation is done, only a lost connection can have hidden that the
\* database carried it out.
Accounts == \A k \in Ops :
    /\ applied[k] <= 1 + lost[k]
    /\ k \notin done => applied[k] <= lost[k]
    /\ k \in done => k \in failed \/ applied[k] >= 1

Ledger == LedgerOK /\ Numbered /\ OneWorkerEach /\ Accounts

\* Nothing is taken, done or lost at first.
LEMMA LedgerInit == Init => Ledger
<1> SUFFICES ASSUME Init PROVE Ledger
  OBVIOUS
<1>1. LedgerOK /\ Accounts
  BY DEF Init, LedgerOK, Accounts, WorkerPcs
<1>2. Numbered
  BY CountAssumption DEF Init, Numbered
<1>3. OneWorkerEach
  BY DEF Init, OneWorkerEach, Busy
<1> QED
  BY <1>1, <1>2, <1>3 DEF Ledger

\* Open, Close and the waiting of a worker touch no operation.
LEMMA LedgerIdle ==
    ASSUME Ledger, UNCHANGED <<queue, op, history>>, pc' \in [Workers -> WorkerPcs],
           \A w \in Workers : pc'[w] \in {"exec", "reconnect"} => Busy(w)
    PROVE  Ledger'
BY DEF Ledger, LedgerOK, Numbered, OneWorkerEach, Accounts, Busy, history, database

\* A new operation gets the next number.
LEMMA LedgerEnqueue == ASSUME Ledger, Enqueue PROVE Ledger'
<1> USE DEF Ledger, LedgerOK
<1>1. /\ queue' = Append(queue, made + 1) /\ made' = made + 1 /\ made < MaxOps
      /\ UNCHANGED <<op, taken, done, failed, lost, applied>>
  BY DEF Enqueue, PushBack, database
<1>2. pc' \in [Workers -> WorkerPcs] /\ \A w \in Workers : Busy(w)' => Busy(w)
  BY DEF Enqueue, NotifyOne, Asleep, Busy, WorkerPcs
<1>3. queue' \in Seq(Nat) /\ Len(queue') = Len(queue) + 1
  BY <1>1
<1>4. \A i \in 1..Len(queue') : queue'[i] = Len(taken) + i
  BY <1>1, <1>3 DEF Numbered
<1>5. Numbered'
  BY <1>1, <1>3, <1>4, CountAssumption DEF Numbered
<1>6. OneWorkerEach' /\ Accounts'
  BY <1>1, <1>2 DEF OneWorkerEach, Accounts, Busy
<1> QED
  BY <1>1, <1>2, <1>3, <1>5, <1>6

\* The front of the queue is the first operation not taken before.
LEMMA LedgerDequeue == ASSUME Ledger, NEW w \in Workers, Dequeue(w) PROVE Ledger'
<1> USE DEF Ledger, LedgerOK
<1>1. CASE endQueue
  <2>1. UNCHANGED <<queue, op, history>> /\ pc' = [pc EXCEPT ![w] = "exit"]
    BY <1>1 DEF Dequeue, history, database
  <2> QED
    BY <2>1, LedgerIdle DEF WorkerPcs, Busy
<1>2. CASE ~endQueue
  <2> DEFINE n == Len(taken)
  <2>1. /\ queue # <<>> /\ op' = [op EXCEPT ![w] = Head(queue)]
        /\ taken' = Append(taken, Head(queue)) /\ queue' = Tail(queue)
        /\ pc' = [pc EXCEPT ![w] = "exec"]
        /\ UNCHANGED <<made, done, failed, lost, applied>>
    BY <1>2 DEF Dequeue, PopFront, database
  <2>2. n \in Nat /\ Len(queue) \in Nat \ {0} /\ Head(queue) = n + 1 /\ n + 1 \in Ops
    <3>1. n \in Nat /\ Len(queue) \in Nat \ {0} /\ n + Len(queue) = made /\ made <= MaxOps
      BY <2>1, LenProperties, EmptySeq DEF Numbered
    <3>2. Head(queue) = queue[1]
      BY <2>1
    <3>3. queue[1] = n + 1
      BY <3>1 DEF Numbered
    <3>4. n + 1 \in Ops
      BY <3>1, CountAssumption DEF Ops
    <3> QED
      BY <3>1, <3>2, <3>3, <3>4
  <2>3. taken' \in Seq(Nat) /\ Len(taken') = n + 1 /\ \A i \in 1..(n + 1) : taken'[i] = i
    BY <2>1, <2>2 DEF Numbered
  <2>4. /\ queue' \in Seq(Nat) /\ Len(queue') = Len(queue) - 1
        /\ \A i \in 1..Len(queue') : queue'[i] = n + 1 + i
    BY <2>1, <2>2 DEF Numbered
  <2>5. Numbered'
    <3>1. Len(taken') + Len(queue') = made' /\ made' <= MaxOps
      <4>1. n + Len(queue) = made /\ made <= MaxOps
        BY Zenon DEF Numbered
      <4>2. \A i, j \in Nat : (i + 1) + (j - 1) = i + j
        OBVIOUS
      <4>3. (n + 1) + (Len(queue) - 1) = n + Len(queue)
        BY <2>2, <4>2
      <4> QED
        BY <4>1, <4>3, <2>1, <2>3, <2>4, Zenon
    <3>2. \A i \in 1..Len(queue') : queue'[i] = Len(taken') + i
      BY <2>3, <2>4, Zenon
    <3>3. \A i \in 1..Len(taken') : taken'[i] = i
      BY <2>3, Zenon
    <3> QED
      BY <3>1, <3>2, <3>3, Zenon DEF Numbered
  <2>6. OneWorkerEach'
    BY <2>1, <2>2, <2>3 DEF OneWorkerEach, Busy
  <2>7. pc' \in [Workers -> WorkerPcs] /\ op' \in [Workers -> Ops \cup {None}]
    BY <2>1, <2>2 DEF WorkerPcs
  <2>8. Accounts'
    BY <2>1 DEF Accounts
  <2> QED
    BY <2>1, <2>3, <2>4, <2>5, <2>6, <2>7, <2>8
<1> QED
  BY <1>1, <1>2

\* An operation is carried out, refused or asked for again by the one worker
\* that has it.
LEMMA LedgerExecute == ASSUME Ledger, NEW w \in Workers, Execute(w) PROVE Ledger'
<1> USE DEF Ledger, LedgerOK
<1>1. Busy(w) /\ op[w] \in 1..Len(taken) /\ op[w] \notin done /\ op[w] \in Ops
  BY CountAssumption DEF Execute, QueryDone, QueryFails, ConnectionLost, Reconnected,
     ReconnectFails, Busy, OneWorkerEach, Numbered, Ops
<1>2. UNCHANGED <<queue, made, taken>>
  BY DEF Execute, QueryDone, QueryFails, ConnectionLost, Reconnected, ReconnectFails,
     queueVars, history
<1>3. Numbered'
  BY <1>2 DEF Numbered
<1>4. ASSUME Finish(w) PROVE
      /\ pc' \in [Workers -> WorkerPcs] /\ op' \in [Workers -> Ops \cup {None}]
      /\ done' \subseteq Ops /\ OneWorkerEach'
  BY <1>1, <1>2, <1>4 DEF Finish, OneWorkerEach, Busy, WorkerPcs
<1>5. CASE QueryDone(w)
  <2>1. /\ Finish(w) /\ applied' = [applied EXCEPT ![op[w]] = @ + 1]
        /\ UNCHANGED <<failed, lost>>
    BY <1>5 DEF QueryDone, Applied
  <2>2. Accounts'
    BY <1>1, <2>1 DEF Accounts, Finish
  <2>3. applied' \in [Ops -> Nat]
    BY <1>1, <2>1
  <2> QED
    BY <1>2, <1>3, <1>4, <2>1, <2>2, <2>3
<1>6. CASE QueryFails(w) \/ ReconnectFails(w)
  <2>1. Finish(w) /\ failed' = failed \cup {op[w]} /\ UNCHANGED <<lost, applied>>
    BY <1>6 DEF QueryFails, ReconnectFails, Refused
  <2>2. Accounts'
    BY <1>1, <2>1 DEF Accounts, Finish
  <2> QED
    BY <1>1, <1>2, <1>3, <1>4, <2>1, <2>2
<1>7. CASE ConnectionLost(w)
  <2>1. /\ lost' = [lost EXCEPT ![op[w]] = @ + 1]
        /\ applied' = applied \/ applied' = [applied EXCEPT ![op[w]] = @ + 1]
        /\ pc' = [pc EXCEPT ![w] = "reconnect"]
        /\ UNCHANGED <<op, done, failed>>
    BY <1>7 DEF ConnectionLost, Applied
  <2>2. lost' \in [Ops -> Nat] /\ applied' \in [Ops -> Nat] /\ pc' \in [Workers -> WorkerPcs]
    BY <1>1, <2>1 DEF WorkerPcs
  <2>3. Accounts'
    BY <1>1, <2>1 DEF Accounts
  <2>4. OneWorkerEach'
    BY <1>1, <1>2, <2>1 DEF OneWorkerEach, Busy
  <2> QED
    BY <1>2, <1>3, <2>1, <2>2, <2>3, <2>4
<1>8. CASE Reconnected(w)
  <2>1. UNCHANGED <<queue, op, history>> /\ pc' = [pc EXCEPT ![w] = "exec"]
    BY <1>8 DEF Reconnected, queueVars
  <2> QED
    BY <1>1, <2>1, LedgerIdle DEF WorkerPcs, Busy
<1> QED
  BY <1>5, <1>6, <1>7, <1>8, Zenon DEF Execute

\* Every step keeps the ledger.
LEMMA LedgerStep == Ledger /\ [Next]_vars => Ledger'
<1> SUFFICES ASSUME Ledger, [Next]_vars PROVE Ledger'
  OBVIOUS
<1>1. pc \in [Workers -> WorkerPcs]
  BY DEF Ledger, LedgerOK
<1>2. CASE OpenSync \/ Opened \/ OpenFails \/ Close
  BY <1>1, <1>2, LedgerIdle DEF OpenSync, Opened, OpenFails, Close, queueVars, workVars, Busy
<1>3. ASSUME NEW w \in Workers, NewAsync(w) \/ ConnectAsync(w) \/ DeleteAsync(w) PROVE Ledger'
  BY <1>1, <1>3, LedgerIdle
     DEF NewAsync, ConnectAsync, DeleteAsync, queueVars, workVars, Busy, WorkerPcs
<1>4. CASE StopQueue \/ DeleteSync \/ Closed
  BY <1>1, <1>4, LedgerIdle DEF StopQueue, DeleteSync, Closed, queueVars, workVars, Busy
<1>5. CASE NotifyAll
  BY <1>1, <1>5, LedgerIdle DEF NotifyAll, Asleep, queueVars, Busy, WorkerPcs
<1>6. ASSUME NEW w \in Workers, LockQueue(w) \/ TestQueue(w) \/ Wait(w) \/ Relock(w)
      PROVE  Ledger'
  BY <1>1, <1>6, LedgerIdle DEF LockQueue, TestQueue, Wait, Relock, Retest, queueVars, Busy, WorkerPcs
<1>7. ASSUME NEW w \in Workers, ReconnectLater(w) \/ SpuriousWake(w) PROVE Ledger'
  BY <1>1, <1>7, LedgerIdle DEF ReconnectLater, SpuriousWake, queueVars, workVars, Busy, WorkerPcs
<1>8. CASE UNCHANGED vars
  BY <1>1, <1>8, LedgerIdle DEF vars, history, database, Busy
<1> QED
  BY <1>2, <1>3, <1>4, <1>5, <1>6, <1>7, <1>8, LedgerEnqueue, LedgerDequeue, LedgerExecute
     DEF Next, OpenStep, CloseStep, WorkStep

\* SynchronisedQueue hands out every operation once and in the order of
\* Enqueue, whatever the workers do.
THEOREM OrderKept == Spec => []HandedOutInOrder
<1>1. Ledger => HandedOutInOrder
  <2> SUFFICES ASSUME Ledger PROVE taken \o queue = [k \in 1..made |-> k]
    BY DEF HandedOutInOrder
  <2> DEFINE s == taken \o queue
  <2>1. /\ taken \in Seq(Nat) /\ queue \in Seq(Nat)
        /\ Len(taken) \in Nat /\ Len(queue) \in Nat /\ Len(taken) + Len(queue) = made
    BY DEF Ledger, LedgerOK, Numbered
  <2>2. /\ s \in Seq(Nat) /\ Len(s) = made
        /\ \A k \in 1..made : s[k] = IF k <= Len(taken) THEN taken[k] ELSE queue[k - Len(taken)]
    BY <2>1, ConcatProperties
  <2>3. ASSUME NEW k \in 1..made PROVE s[k] = k
    <3>1. CASE k <= Len(taken)
      BY <2>1, <2>2, <3>1 DEF Ledger, Numbered
    <3>2. CASE ~(k <= Len(taken))
      <4>1. k - Len(taken) \in 1..Len(queue)
        BY <2>1, <3>2
      <4>2. queue[k - Len(taken)] = k
        BY <2>1, <4>1 DEF Ledger, Numbered
      <4> QED
        BY <2>2, <3>2, <4>2
    <3> QED
      BY <3>1, <3>2
  <2>4. s = [k \in 1..Len(s) |-> s[k]]
    BY <2>2, LenProperties
  <2> QED
    BY <2>2, <2>3, <2>4
<1> QED
  BY <1>1, LedgerInit, LedgerStep, PTL DEF Spec

\* Workers and retries (DatabaseWorker::Work, DatabaseConnection::Execute)
\* neither double nor drop an operation unless a connection was lost under it
\* or Execute returned false.
THEOREM AllAccounted == Spec => []InsertsAccounted
<1>1. Ledger => InsertsAccounted
  BY DEF Ledger, Accounts, InsertsAccounted
<1> QED
  BY <1>1, LedgerInit, LedgerStep, PTL DEF Spec

=============================================================================
