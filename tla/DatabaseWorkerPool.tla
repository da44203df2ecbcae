------------------------- MODULE DatabaseWorkerPool -------------------------
(***************************************************************************)
(* The asynchronous half of MySQL::DatabaseWorkerPool: operations go       *)
(* through a SynchronisedQueue to worker threads, each with a connection   *)
(* of its own, which it opens again when the database was lost; Close      *)
(* stops the queue and deletes the connections.                            *)
(*                                                                         *)
(* The queue's mutex and condition variable are explicit.  Stop does not   *)
(* take the mutex, so it may fall between a worker's test of __endQueue    *)
(* and its wait.  An operation is its number, in the order of Enqueue.     *)
(***************************************************************************)
EXTENDS Naturals, Sequences, FiniteSets

CONSTANTS
    SyncThreads,    \* MySQLSyncThreads
    AsyncThreads,   \* MySQLAsyncThreads, which Open does not read
    MaxOps,         \* bound: operations enqueued
    MaxLosses,      \* bound: times the connection is lost under one operation
    None            \* no thread, no operation

ASSUME CountAssumption == SyncThreads \in Nat \ {0} /\ AsyncThreads \in Nat /\ MaxOps \in Nat
ASSUME LossAssumption == MaxLosses \in Nat
ASSUME NoneAssumption == None \notin Nat

\* How often the loop of Open that makes asynchronous connections runs.
AsyncLoops == SyncThreads
Workers == 1..AsyncLoops

VARIABLES
    phase,      \* where Open and Close are
    nsync,      \* synchronous connections opened
    conn,       \* the asynchronous connections; null: _mysql is NULL
    queue,      \* __queue
    endQueue,   \* __endQueue
    mutex,      \* the holder of __mutex
    pc,         \* where each worker thread is
    op,         \* op of Work
    made,       \* history: operations enqueued
    taken,      \* history: operations in the order of Dequeue
    done,       \* history: operations executed and deleted
    failed,     \* history: operations whose Execute returned false
    lost,       \* history: how often the connection was lost under each operation
    applied     \* external: how often the database carried out each operation

poolVars == <<phase, nsync, conn>>
queueVars == <<queue, endQueue, mutex>>
workVars == <<pc, op>>
database == <<failed, lost, applied>>
history == <<made, taken, done, database>>
vars == <<phase, nsync, conn, queue, endQueue, mutex, pc, op, made, taken, done, failed, lost,
          applied>>

Ops == 1..MaxOps

\* failed, aborted: an exception of Open or an assertion ends the program; the
\* steps the workers may still take then are more than the program's.
Phases == {"sync", "async", "connect", "run", "stop", "notify", "delete", "closed", "failed",
           "aborted"}
Conns == {"none", "new", "open", "null", "deleted"}

\* none: not started; lock; test: the while of Dequeue; wait: about to wait;
\* asleep; woken: notified, wants the mutex; take; exec: mysql_query;
\* reconnect: _HandleMySQLErrno; exit.
WorkerPcs == {"none", "lock", "test", "wait", "asleep", "woken", "take", "exec", "reconnect",
              "exit"}

Init ==
    /\ phase = "sync" /\ nsync = 0
    /\ conn = [w \in Workers |-> "none"]
    /\ queue = <<>> /\ endQueue = FALSE /\ mutex = None
    /\ pc = [w \in Workers |-> "none"]
    /\ op = [w \in Workers |-> None]
    /\ made = 0 /\ taken = <<>> /\ done = {}
    /\ failed = {} /\ lost = [k \in Ops |-> 0] /\ applied = [k \in Ops |-> 0]

Started(w) == conn[w] # "none"

-----------------------------------------------------------------------------
(***************************************************************************)
(* Open.  DatabaseConnection's constructor starts the worker thread before *)
(* the connection is opened.                                               *)
(***************************************************************************)
MoreSync == nsync < SyncThreads

OpenSync ==
    /\ phase = "sync"
    /\ \/ MoreSync /\ nsync' = nsync + 1 /\ UNCHANGED phase
       \/ ~MoreSync /\ phase' = "async" /\ UNCHANGED nsync
    /\ UNCHANGED <<conn, queueVars, workVars, history>>

NewAsync(w) ==
    /\ phase = "async"
    /\ ~Started(w) /\ \A v \in 1..(w - 1) : Started(v)
    /\ conn' = [conn EXCEPT ![w] = "new"]
    /\ pc' = [pc EXCEPT ![w] = "lock"]
    /\ phase' = "connect"
    /\ UNCHANGED <<nsync, queueVars, op, history>>

ConnectAsync(w) ==
    /\ phase = "connect"
    /\ conn[w] = "new"
    /\ conn' = [conn EXCEPT ![w] = "open"]
    /\ phase' = "async"
    /\ UNCHANGED <<nsync, queueVars, workVars, history>>

\* All connections are open and LoadSTMT has run.
Opened ==
    /\ phase = "async"
    /\ \A w \in Workers : Started(w)
    /\ phase' = "run"
    /\ UNCHANGED <<nsync, conn, queueVars, workVars, history>>

\* DatabaseConnection::Open throws.
OpenFails ==
    /\ phase = "connect" \/ (phase = "sync" /\ MoreSync)
    /\ phase' = "failed"
    /\ UNCHANGED <<nsync, conn, queueVars, workVars, history>>

-----------------------------------------------------------------------------
(***************************************************************************)
(* SynchronisedQueue and DatabaseWorker::Work.                             *)
(***************************************************************************)
Asleep == {w \in Workers : pc[w] = "asleep"}

\* notify_one wakes one of the waiting threads, if there is one.
NotifyNobody(p) == p = pc
NotifyOne(p) ==
    \/ Asleep = {} /\ p = pc
    \/ \E w \in Asleep : p = [pc EXCEPT ![w] = "woken"]

\* ExecuteAsync and QueryAsync: the operation is pushed under the mutex.
CanEnqueue == mutex = None

PushFront(q, k) == <<k>> \o q
PushBack(q, k) == Append(q, k)

Enqueue ==
    /\ phase = "run"
    /\ made < MaxOps
    /\ CanEnqueue
    /\ made' = made + 1
    /\ queue' = PushBack(queue, made')
    /\ NotifyOne(pc')
    /\ UNCHANGED <<poolVars, endQueue, mutex, op, taken, done, database>>

\* Dequeue takes the mutex.
LockQueue(w) ==
    /\ pc[w] = "lock"
    /\ mutex = None
    /\ mutex' = w
    /\ pc' = [pc EXCEPT ![w] = "test"]
    /\ UNCHANGED <<poolVars, queue, endQueue, op, history>>

\* while (__queue.empty() && !__endQueue)
WaitFirst == ~endQueue
MustWait == queue = <<>> /\ ~endQueue

TestQueue(w) ==
    /\ pc[w] = "test"
    /\ pc' = [pc EXCEPT ![w] = IF MustWait THEN "wait" ELSE "take"]
    /\ UNCHANGED <<poolVars, queueVars, op, history>>

\* __cond.wait(lock) releases the mutex and sleeps in one step ...
Wait(w) ==
    /\ pc[w] = "wait"
    /\ mutex' = None
    /\ pc' = [pc EXCEPT ![w] = "asleep"]
    /\ UNCHANGED <<poolVars, queue, endQueue, op, history>>

\* ... may wake with no notification ...
SpuriousWake(w) ==
    /\ pc[w] = "asleep"
    /\ pc' = [pc EXCEPT ![w] = "woken"]
    /\ UNCHANGED <<poolVars, queueVars, op, history>>

\* ... and takes the mutex again before the test is repeated.
NoRetest == "take"
Retest == "test"

Relock(w) ==
    /\ pc[w] = "woken"
    /\ mutex = None
    /\ mutex' = w
    /\ pc' = [pc EXCEPT ![w] = Retest]
    /\ UNCHANGED <<poolVars, queue, endQueue, op, history>>

KeepFront(q) == q
PopFront(q) == Tail(q)

\* The rest of Dequeue: NULL once the queue was stopped, else the front.
Dequeue(w) ==
    /\ pc[w] = "take"
    /\ mutex' = None
    /\ \/ /\ endQueue
          /\ pc' = [pc EXCEPT ![w] = "exit"]
          /\ UNCHANGED <<queue, op, taken>>
       \/ /\ ~endQueue
          /\ queue # <<>>
          /\ op' = [op EXCEPT ![w] = Head(queue)]
          /\ taken' = Append(taken, Head(queue))
          /\ queue' = PopFront(queue)
          /\ pc' = [pc EXCEPT ![w] = "exec"]
    /\ UNCHANGED <<poolVars, endQueue, made, done, database>>

-----------------------------------------------------------------------------
(***************************************************************************)
(* op->Execute(): DatabaseConnection::Execute on the worker's connection,  *)
(* then delete op.  A deleted connection is freed memory, which may answer *)
(* either way.                                                             *)
(***************************************************************************)
Finish(w) ==
    /\ done' = done \cup {op[w]}
    /\ op' = [op EXCEPT ![w] = None]
    /\ pc' = [pc EXCEPT ![w] = "lock"]

Ignored(w) == failed
Refused(w) == failed \cup {op[w]}

Applied(w) == [applied EXCEPT ![op[w]] = @ + 1]

\* _mysql is not NULL.
HasHandle(w) == conn[w] \in {"open", "deleted"}

\* mysql_query succeeds.
QueryDone(w) ==
    /\ pc[w] = "exec"
    /\ HasHandle(w)
    /\ applied' = Applied(w)
    /\ Finish(w)
    /\ UNCHANGED <<poolVars, queueVars, made, taken, failed, lost>>

\* _mysql is NULL, or the errno is not handled: Execute returns false.
QueryFails(w) ==
    /\ pc[w] = "exec"
    /\ failed' = Refused(w)
    /\ Finish(w)
    /\ UNCHANGED <<poolVars, queueVars, made, taken, lost, applied>>

\* CR_SERVER_GONE_ERROR, CR_SERVER_LOST: the database may or may not have
\* carried out the operation.
ConnectionLost(w) ==
    /\ pc[w] = "exec"
    /\ HasHandle(w)
    /\ lost[op[w]] < MaxLosses
    /\ lost' = [lost EXCEPT ![op[w]] = @ + 1]
    /\ applied' \in {applied, Applied(w)}
    /\ pc' = [pc EXCEPT ![w] = "reconnect"]
    /\ UNCHANGED <<poolVars, queueVars, op, made, taken, done, failed>>

\* The connection was closed; Open assigns _mysql, unless `this' is gone.
SetHandle(w, h) == conn' = IF conn[w] = "deleted" THEN conn ELSE [conn EXCEPT ![w] = h]

\* Open succeeds, and Execute is called again.
Reconnected(w) ==
    /\ pc[w] = "reconnect"
    /\ SetHandle(w, "open")
    /\ pc' = [pc EXCEPT ![w] = "exec"]
    /\ UNCHANGED <<phase, nsync, queueVars, op, history>>

\* Open throws; an errno of the list is tried again after three seconds ...
ReconnectLater(w) ==
    /\ pc[w] = "reconnect"
    /\ SetHandle(w, "null")
    /\ UNCHANGED <<phase, nsync, queueVars, workVars, history>>

\* ... any other, such as a refused connection, is given up for good.
ReconnectFails(w) ==
    /\ pc[w] = "reconnect"
    /\ SetHandle(w, "null")
    /\ failed' = Refused(w)
    /\ Finish(w)
    /\ UNCHANGED <<phase, nsync, queueVars, made, taken, lost, applied>>

Execute(w) ==
    QueryDone(w) \/ QueryFails(w) \/ ConnectionLost(w) \/ Reconnected(w) \/ ReconnectFails(w)

-----------------------------------------------------------------------------
(***************************************************************************)
(* Close, called when the server threads have ended.                       *)
(***************************************************************************)
Close ==
    /\ phase = "run"
    /\ phase' = "stop"
    /\ UNCHANGED <<nsync, conn, queueVars, workVars, history>>

\* Stop: __endQueue = true, without the mutex ...
StopQueue ==
    /\ phase = "stop"
    /\ endQueue' = TRUE
    /\ phase' = "notify"
    /\ UNCHANGED <<nsync, conn, queue, mutex, workVars, history>>

\* ... then notify_all.
NotifyAll ==
    /\ phase = "notify"
    /\ pc' = [w \in Workers |-> IF w \in Asleep THEN "woken" ELSE pc[w]]
    /\ phase' = "delete"
    /\ UNCHANGED <<nsync, conn, queueVars, op, history>>

\* conn->Close() deletes the synchronous, then the asynchronous connections;
\* no worker thread is waited for.
DeleteSync ==
    /\ phase = "delete"
    /\ nsync > 0
    /\ nsync' = nsync - 1
    /\ UNCHANGED <<phase, conn, queueVars, workVars, history>>

DeleteAsync(w) ==
    /\ phase = "delete"
    /\ nsync = 0
    /\ \A v \in 1..(w - 1) : conn[v] = "deleted"
    /\ \/ conn[w] = "open" /\ conn' = [conn EXCEPT ![w] = "deleted"] /\ UNCHANGED phase
       \/ conn[w] = "null" /\ phase' = "aborted" /\ UNCHANGED conn   \* assert(_mysql)
    /\ UNCHANGED <<nsync, queueVars, workVars, history>>

Closed ==
    /\ phase = "delete"
    /\ nsync = 0 /\ \A w \in Workers : conn[w] = "deleted"
    /\ phase' = "closed"
    /\ UNCHANGED <<nsync, conn, queueVars, workVars, history>>

-----------------------------------------------------------------------------
OpenStep == OpenSync \/ Opened \/ OpenFails \/ \E w \in Workers : NewAsync(w) \/ ConnectAsync(w)

WorkStep(w) ==
    LockQueue(w) \/ TestQueue(w) \/ Wait(w) \/ Relock(w) \/ Dequeue(w) \/ Execute(w)

CloseStep ==
    StopQueue \/ NotifyAll \/ DeleteSync \/ Closed \/ \E w \in Workers : DeleteAsync(w)

Next == OpenStep \/ Enqueue \/ Close \/ CloseStep
        \/ \E w \in Workers : WorkStep(w) \/ ReconnectLater(w) \/ SpuriousWake(w)

Spec == Init /\ [][Next]_vars

\* Threads go on, a mutex that is free again and again is obtained at last, and
\* a database that is asked again and again answers or refuses at last.
Fairness ==
    /\ \A w \in Workers : WF_vars(WorkStep(w)) /\ SF_vars(LockQueue(w)) /\ SF_vars(Relock(w))
    /\ WF_vars(CloseStep)

FairSpec == Spec /\ Fairness

-----------------------------------------------------------------------------
(***************************************************************************)
(* Properties.                                                             *)
(***************************************************************************)
\* A worker about to read the front of the queue finds an operation there or
\* the stop flag, though other workers empty the queue and wake-ups may be
\* spurious (the while of Dequeue, and its mutex).
NeverTakesEmpty == \A w \in Workers : pc[w] = "take" => queue # <<>> \/ endQueue

\* Operations are handed to the workers in the order of Enqueue, none twice
\* and none left out (SynchronisedQueue with several workers).
HandedOutInOrder == taken \o queue = [k \in 1..made |-> k]

\* While an operation waits some worker is awake to take it: no wake-up of
\* Enqueue is lost (notify_one under the mutex).
Awake(w) == pc[w] \in {"lock", "test", "woken", "take", "exec", "reconnect"}
SomeoneAwake == queue # <<>> /\ ~endQueue => \E w \in Workers : Awake(w)

\* The database carries out an operation at most once more than the connection
\* was lost under it, and at least once unless Execute returned false: several
\* workers, and the retry of Execute, neither double nor drop an insert that
\* no lost connection accounts for.
InsertsAccounted == \A k \in Ops :
    /\ applied[k] <= 1 + lost[k]
    /\ k \in done => k \in failed \/ applied[k] >= 1

\* Every operation is executed at last, unless the queue is stopped.
AllExecuted == \A k \in Ops : made >= k ~> k \in done \/ endQueue

\* Every worker ends after Close has stopped the queue.
WorkersStop == endQueue ~> \A w \in Workers : pc[w] = "exit"

=============================================================================
