------------------------------- MODULE DataMgr -------------------------------
(***************************************************************************)
(* DataMgr: shares are queued by the threads that judge them and written   *)
(* to the database in bulk by the upload timer.  Every access to the queue *)
(* takes _datamutex, so Push, Pop and Size are single steps and anything   *)
(* may happen between two of them.  A share is its sequence number; a      *)
(* query is the text appended so far, rows and commas, in order.           *)
(***************************************************************************)
EXTENDS Naturals, Sequences

CONSTANTS
    Threads,    \* worker threads that may run the upload timer
    MinCount,   \* ShareUploadMinCount
    Bulk,       \* ShareUploadBulkCount
    MaxPush,    \* bound: shares pushed
    Comma       \* the separator in a query

ASSUME CountAssumption == MinCount \in Nat /\ Bulk \in Nat \ {0} /\ MaxPush \in Nat
ASSUME CommaAssumption == Comma \notin Nat

VARIABLES
    datastore,  \* _datastore
    count,      \* history: shares pushed
    armed,      \* the upload timer is waiting
    pc,         \* where each thread is in Upload
    row,        \* i of the bulk loop
    query,      \* the query being built
    sent        \* history: the rows given to ExecuteAsync, in order

vars == <<datastore, count, armed, pc, row, query, sent>>

\* idle; test: while (Size() > MinCount); pop; more: if (!Size()); exec.
Pcs == {"idle", "test", "pop", "more", "exec"}

Init ==
    /\ datastore = <<>> /\ count = 0
    /\ armed = TRUE
    /\ pc = [t \in Threads |-> "idle"]
    /\ row = [t \in Threads |-> 0]
    /\ query = [t \in Threads |-> <<>>]
    /\ sent = <<>>

IsRow(x) == x # Comma

\* The rows of a query: with a comma between two rows they have the odd places
\* (QueriesWellFormed says that they do).
Rows(q) == [k \in 1..((Len(q) + 1) \div 2) |-> q[2 * k - 1]]

-----------------------------------------------------------------------------
PushFront(q, s) == <<s>> \o q
PushBack(q, s) == Append(q, s)

\* Push, by a thread that is judging a share.
Push ==
    /\ count < MaxPush
    /\ count' = count + 1
    /\ datastore' = PushBack(datastore, count')
    /\ UNCHANGED <<armed, pc, row, query, sent>>

\* UploadTimerExpired: the timer is started again only after Upload.
RearmBefore == TRUE
RearmAfter == FALSE
ArmedDuringUpload == RearmAfter

UploadTimerExpired(t) ==
    /\ pc[t] = "idle"
    /\ armed
    /\ armed' = ArmedDuringUpload
    /\ pc' = [pc EXCEPT ![t] = "test"]
    /\ UNCHANGED <<datastore, count, row, query, sent>>

TooManyNeeded(n) == n > MinCount + 1
EnoughShares(n) == n > MinCount

\* while (Size() > ShareUploadMinCount)
TestSize(t) ==
    /\ pc[t] = "test"
    /\ \/ /\ EnoughShares(Len(datastore))
          /\ pc' = [pc EXCEPT ![t] = "pop"]
          /\ UNCHANGED armed
       \/ /\ ~EnoughShares(Len(datastore))
          /\ pc' = [pc EXCEPT ![t] = "idle"]
          /\ armed' = TRUE
    /\ UNCHANGED <<datastore, count, row, query, sent>>

\* Share share = Pop(), formatted as one row of the query.  front() of an empty
\* deque is undefined, so Pop is a step only of a queue that has a share;
\* NeverPopsEmpty says that it always has.
Pop(t) ==
    /\ pc[t] = "pop"
    /\ datastore # <<>>
    /\ query' = [query EXCEPT ![t] = Append(@, Head(datastore))]
    /\ datastore' = Tail(datastore)
    /\ pc' = [pc EXCEPT ![t] = "more"]
    /\ UNCHANGED <<count, armed, row, sent>>

AnotherRow(i) == i < Bulk

CommaAlways(i) == TRUE
NeedsComma(i) == i # Bulk - 1

\* if (!Size()) break; then the comma, and the next row or the end of the loop.
MoreRows(t) ==
    /\ pc[t] = "more"
    /\ \/ /\ datastore = <<>>
          /\ pc' = [pc EXCEPT ![t] = "exec"]
          /\ UNCHANGED <<row, query>>
       \/ /\ datastore # <<>>
          /\ query' = [query EXCEPT ![t] = IF NeedsComma(row[t]) THEN Append(@, Comma) ELSE @]
          /\ row' = [row EXCEPT ![t] = @ + 1]
          /\ pc' = [pc EXCEPT ![t] = IF AnotherRow(row[t] + 1) THEN "pop" ELSE "exec"]
    /\ UNCHANGED <<datastore, count, armed, sent>>

\* sDatabase.ExecuteAsync(query)
ExecuteAsync(t) ==
    /\ pc[t] = "exec"
    /\ sent' = sent \o Rows(query[t])
    /\ query' = [query EXCEPT ![t] = <<>>]
    /\ row' = [row EXCEPT ![t] = 0]
    /\ pc' = [pc EXCEPT ![t] = "test"]
    /\ UNCHANGED <<datastore, count, armed>>

UploadStep(t) == TestSize(t) \/ Pop(t) \/ MoreRows(t) \/ ExecuteAsync(t)

Next == Push \/ \E t \in Threads : UploadTimerExpired(t) \/ UploadStep(t)

Spec == Init /\ [][Next]_vars

\* The timer fires and a thread that runs Upload goes on.
FairSpec ==
    /\ Spec
    /\ \A t \in Threads : WF_vars(UploadStep(t))
    /\ WF_vars(\E t \in Threads : UploadTimerExpired(t))

-----------------------------------------------------------------------------
(***************************************************************************)
(* Properties.                                                             *)
(***************************************************************************)
\* Pop never reads the front of an empty queue, although the size was tested
\* in an earlier step (Upload runs in one thread at a time).
NeverPopsEmpty == \A t \in Threads : pc[t] = "pop" => datastore # <<>>

\* Every query that is executed is a list of 1 to Bulk rows with a comma
\* between two rows and none at the end, wherever pushes came in between.
WellFormed(q) ==
    /\ Len(q) % 2 = 1 /\ Len(q) < 2 * Bulk
    /\ \A k \in 1..Len(q) : IsRow(q[k]) <=> k % 2 = 1
QueriesWellFormed == \A t \in Threads : pc[t] = "exec" => WellFormed(query[t])

\* At most MinCount shares are left waiting for ever once pushes stop.
Drained == Len(datastore) > MinCount ~> Len(datastore) <= MinCount

-----------------------------------------------------------------------------
(***************************************************************************)
(* DataMgr implements SharePipe: the rows of the query being built still   *)
(* wait, in front of the queue.                                            *)
(***************************************************************************)
InQuery(q) ==
    IF \E t \in Threads : q[t] # <<>>
    THEN Rows(q[CHOOSE t \in Threads : q[t] # <<>>])
    ELSE <<>>

Pipe == INSTANCE SharePipe WITH waiting <- InQuery(query) \o datastore

\* Shares reach the database in order, none lost and none twice.
UploadsInOrder == Pipe!PipeSpec

=============================================================================
