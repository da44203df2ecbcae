------------------------------- MODULE SyncPool -------------------------------
(***************************************************************************)
(* The synchronous half of MySQL::DatabaseWorkerPool: a server thread that *)
(* wants the database takes the first free connection, uses it and gives   *)
(* it back.  A call is a query, a text to be escaped, or a prepared        *)
(* statement; the rows it returns are not modelled.  A connection that was *)
(* lost is opened again inside the call, and the call is repeated.         *)
(*                                                                         *)
(* MySQL is external.  mysql_errno keeps the error of the last call on the *)
(* connection; mysql_close detaches the statements prepared on it, and a   *)
(* detached statement fails without an error of the connection.            *)
(***************************************************************************)
EXTENDS Naturals, FiniteSets

CONSTANTS
    Callers,        \* threads of the io_service
    SyncThreads,    \* MySQLSyncThreads: connections
    MaxLosses,      \* bound: times a connection is lost
    None            \* no caller

ASSUME PoolAssumption ==
    /\ SyncThreads \in Nat \ {0} /\ MaxLosses \in Nat
    /\ IsFiniteSet(Callers) /\ None \notin Callers

Conns == 0..(SyncThreads - 1)

VARIABLES
    load,       \* LoadSTMT: the connection to prepare the statement on
    stmt,       \* the statement of each connection
    handle,     \* _mysql
    errno,      \* mysql_errno(_mysql)
    mutex,      \* the holder of each connection's _mutex
    params,     \* whose values the parameter buffers of the statement hold
    pc,         \* where each caller is
    op,         \* what it calls
    i,          \* i of GetSyncConnection
    alive,      \* the program has not crashed
    losses,     \* how often a connection was lost
    applied     \* external: how often the database carried out the call

connVars == <<stmt, handle, errno, mutex, params>>
history == <<losses, applied>>
vars == <<load, connVars, pc, op, i, alive, history>>

Kinds == {"text", "escape", "statement"}
Pcs == {"idle", "try", "use", "bound", "reconnect", "unlock"}

Init ==
    /\ load = 0
    /\ stmt = [c \in Conns |-> "none"] /\ handle = [c \in Conns |-> "open"]
    /\ errno = [c \in Conns |-> "ok"]
    /\ mutex = [c \in Conns |-> None] /\ params = [c \in Conns |-> None]
    /\ pc = [p \in Callers |-> "idle"] /\ op = [p \in Callers |-> None]
    /\ i = [p \in Callers |-> 0] /\ alive = TRUE
    /\ losses = 0 /\ applied = [p \in Callers |-> 0]

\* The connection that caller p holds, or tries when its i is one more.
Chosen(k) == k % SyncThreads
Conn(p) == Chosen(i[p])

-----------------------------------------------------------------------------
(***************************************************************************)
(* PrepareStatement: on every connection in turn, until one fails.         *)
(***************************************************************************)
PrepareOneMore ==
    /\ load <= SyncThreads
    /\ stmt' = [stmt EXCEPT ![load] = "live"] /\ load' = load + 1
    /\ UNCHANGED <<handle, errno, mutex, params, pc, op, i, alive, history>>

Prepare ==
    /\ load < SyncThreads
    /\ \/ stmt' = [stmt EXCEPT ![load] = "live"] /\ load' = load + 1
       \/ load' = SyncThreads /\ UNCHANGED stmt
    /\ UNCHANGED <<handle, errno, mutex, params, pc, op, i, alive, history>>

-----------------------------------------------------------------------------
(***************************************************************************)
(* GetSyncConnection.                                                      *)
(***************************************************************************)
Call(p, k) ==
    /\ load = SyncThreads /\ pc[p] = "idle"
    /\ pc' = [pc EXCEPT ![p] = "try"]
    /\ op' = [op EXCEPT ![p] = k]
    /\ UNCHANGED <<load, connVars, i, alive, history>>

SameAgain(k) == 1
EverySecond(k) == k + 2
\* ++i
Following(k) == k + 1

\* LockIfReady.
AlwaysReady(c) == TRUE
Ready(c) == mutex[c] = None

TryLock(p) ==
    /\ pc[p] = "try"
    /\ i' = [i EXCEPT ![p] = Following(@)]
    /\ LET c == Chosen(i'[p]) IN
       \/ /\ Ready(c)
          /\ mutex' = [mutex EXCEPT ![c] = p]
          /\ pc' = [pc EXCEPT ![p] = "use"]
       \/ ~Ready(c) /\ UNCHANGED <<mutex, pc>>
    /\ UNCHANGED <<load, stmt, handle, errno, params, op, alive, history>>

Unlock(p) ==
    /\ pc[p] = "unlock"
    /\ mutex' = [mutex EXCEPT ![Conn(p)] = None]
    /\ pc' = [pc EXCEPT ![p] = "idle"]
    /\ op' = [op EXCEPT ![p] = None]
    /\ i' = [i EXCEPT ![p] = 0]
    /\ applied' = [applied EXCEPT ![p] = 0]
    /\ UNCHANGED <<load, stmt, handle, errno, params, alive, losses>>

-----------------------------------------------------------------------------
(***************************************************************************)
(* The call.                                                               *)
(***************************************************************************)
ClearParameters(c) == [params EXCEPT ![c] = None]

\* A call that binds nothing is over: the error it leaves on the connection.
End(p, e) ==
    /\ errno' = [errno EXCEPT ![Conn(p)] = e]
    /\ pc' = [pc EXCEPT ![p] = "unlock"]
    /\ UNCHANGED <<load, stmt, handle, mutex, params, op, i, alive, losses>>

\* Escape does not look whether there is a handle.
Escape(p) ==
    /\ pc[p] = "use" /\ op[p] = "escape"
    /\ alive' = (handle[Conn(p)] = "open")
    /\ pc' = [pc EXCEPT ![p] = "unlock"]
    /\ UNCHANGED <<load, connVars, op, i, history>>

Usable(p) == pc[p] = "use" /\ op[p] # "escape"

\* _mysql is NULL, or the connection has no such statement.
NothingToUse(p) ==
    /\ Usable(p)
    /\ handle[Conn(p)] = "null" \/ (op[p] = "statement" /\ stmt[Conn(p)] = "none")
    /\ End(p, errno[Conn(p)])
    /\ UNCHANGED applied

\* mysql_query succeeds; what it returns is stored before the call ends.
TextRuns(p) ==
    /\ Usable(p) /\ op[p] = "text" /\ handle[Conn(p)] = "open"
    /\ applied' = [applied EXCEPT ![p] = @ + 1]
    /\ End(p, "ok")

TextFails(p) ==
    /\ Usable(p) /\ op[p] = "text" /\ handle[Conn(p)] = "open"
    /\ End(p, "other")
    /\ UNCHANGED applied

BindParameters(p) ==
    /\ Usable(p) /\ op[p] = "statement"
    /\ handle[Conn(p)] = "open" /\ stmt[Conn(p)] # "none"
    /\ params' = [params EXCEPT ![Conn(p)] = p]
    /\ pc' = [pc EXCEPT ![p] = "bound"]
    /\ UNCHANGED <<load, stmt, handle, errno, mutex, op, i, alive, history>>

\* mysql_stmt_execute succeeds.
StatementRuns(p) ==
    /\ pc[p] = "bound" /\ stmt[Conn(p)] = "live"
    /\ applied' = [applied EXCEPT ![p] = @ + 1]
    /\ errno' = [errno EXCEPT ![Conn(p)] = "ok"]
    /\ params' = ClearParameters(Conn(p))
    /\ pc' = [pc EXCEPT ![p] = "unlock"]
    /\ UNCHANGED <<load, stmt, handle, mutex, op, i, alive, losses>>

\* mysql_stmt_bind_param or mysql_stmt_execute fails.  The errno looked at is
\* that of the connection, which an error of the statement alone does not set.
StatementFails(p) ==
    /\ pc[p] = "bound"
    /\ \E e \in {errno[Conn(p)]} \cup (IF stmt[Conn(p)] = "live" THEN {"other"} ELSE {}) :
          /\ errno' = [errno EXCEPT ![Conn(p)] = e]
          /\ params' = IF e = "lost" THEN params ELSE ClearParameters(Conn(p))
          /\ pc' = [pc EXCEPT ![p] = IF e = "lost" THEN "reconnect" ELSE "unlock"]
    /\ UNCHANGED <<load, stmt, handle, mutex, op, i, alive, history>>

LostUnhandled(p) ==
    /\ \/ Usable(p) /\ op[p] = "text" /\ handle[Conn(p)] = "open"
       \/ pc[p] = "bound" /\ stmt[Conn(p)] = "live"
    /\ losses < MaxLosses /\ losses' = losses + 1
    /\ errno' = [errno EXCEPT ![Conn(p)] = "lost"]
    /\ pc' = [pc EXCEPT ![p] = IF op[p] = "text" THEN "unlock" ELSE "reconnect"]
    /\ UNCHANGED <<load, stmt, handle, mutex, params, op, i, alive, applied>>

\* CR_SERVER_GONE_ERROR and the like: the database may have carried out the
\* call or not.
Lost(p) ==
    /\ \/ Usable(p) /\ op[p] = "text" /\ handle[Conn(p)] = "open"
       \/ pc[p] = "bound" /\ stmt[Conn(p)] = "live"
    /\ losses < MaxLosses /\ losses' = losses + 1
    /\ applied' \in {applied, [applied EXCEPT ![p] = @ + 1]}
    /\ errno' = [errno EXCEPT ![Conn(p)] = "lost"]
    /\ pc' = [pc EXCEPT ![p] = "reconnect"]
    /\ UNCHANGED <<load, stmt, handle, mutex, params, op, i, alive>>

-----------------------------------------------------------------------------
(***************************************************************************)
(* _HandleMySQLErrno.                                                      *)
(***************************************************************************)
PreparedAgain(c) == stmt
\* mysql_close: a statement that was prepared stays without a connection.
Detached(c) == [stmt EXCEPT ![c] = IF @ = "live" THEN "detached" ELSE @]

\* Open succeeds and the call is repeated from its beginning.
Reconnected(p) ==
    /\ pc[p] = "reconnect"
    /\ stmt' = Detached(Conn(p))
    /\ handle' = [handle EXCEPT ![Conn(p)] = "open"]
    /\ errno' = [errno EXCEPT ![Conn(p)] = "ok"]
    /\ pc' = [pc EXCEPT ![p] = "use"]
    /\ UNCHANGED <<load, mutex, params, op, i, alive, history>>

\* Open throws an error of the list: again after three seconds.
ReconnectLater(p) ==
    /\ pc[p] = "reconnect"
    /\ stmt' = Detached(Conn(p))
    /\ handle' = [handle EXCEPT ![Conn(p)] = "null"]
    /\ UNCHANGED <<load, errno, mutex, params, pc, op, i, alive, history>>

\* Any other: the handle stays NULL and the call fails.
ReconnectFails(p) ==
    /\ pc[p] = "reconnect"
    /\ stmt' = Detached(Conn(p))
    /\ handle' = [handle EXCEPT ![Conn(p)] = "null"]
    /\ errno' = [errno EXCEPT ![Conn(p)] = "ok"]
    /\ params' = IF op[p] = "statement" THEN ClearParameters(Conn(p)) ELSE params
    /\ pc' = [pc EXCEPT ![p] = "unlock"]
    /\ UNCHANGED <<load, mutex, op, i, alive, history>>

-----------------------------------------------------------------------------
Step(p) ==
    \/ TryLock(p) \/ Unlock(p) \/ Escape(p) \/ NothingToUse(p) \/ TextRuns(p) \/ TextFails(p)
    \/ BindParameters(p) \/ StatementRuns(p) \/ StatementFails(p) \/ Lost(p)
    \/ Reconnected(p) \/ ReconnectFails(p)

Next ==
    /\ alive
    /\ \/ Prepare
       \/ \E p \in Callers :
             Step(p) \/ ReconnectLater(p) \/ \E k \in Kinds : Call(p, k)

Spec == Init /\ [][Next]_vars

\* Threads go on, and a database that is asked again and again answers or
\* refuses at last.
FairSpec == Spec /\ \A p \in Callers : WF_vars(alive /\ Step(p))

-----------------------------------------------------------------------------
(***************************************************************************)
(* Properties.                                                             *)
(***************************************************************************)
\* The values of the variables.
TypeOK ==
    /\ load \in 0..SyncThreads
    /\ stmt \in [Conns -> {"none", "live", "detached"}] /\ handle \in [Conns -> {"open", "null"}]
    /\ errno \in [Conns -> {"ok", "lost", "other"}]
    /\ mutex \in [Conns -> Callers \cup {None}] /\ params \in [Conns -> Callers \cup {None}]
    /\ pc \in [Callers -> Pcs] /\ op \in [Callers -> Kinds \cup {None}]
    /\ i \in [Callers -> Nat] /\ alive \in BOOLEAN
    /\ losses \in 0..MaxLosses /\ applied \in [Callers -> Nat]

\* When there are no more callers than connections, a caller finds a free one
\* within its first round, however the others take and release theirs: the loop
\* of GetSyncConnection has no other bound.
SpinBounded ==
    Cardinality(Callers) <= SyncThreads =>
        \A p \in Callers : i[p] <= SyncThreads /\ (pc[p] = "try" => i[p] < SyncThreads)

BoundIsMine == \A p \in Callers : pc[p] = "bound" => params[Conn(p)] = p
NoLeftovers == \A c \in Conns : mutex[c] = None => params[c] = None

\* A statement is executed with the parameters its caller bound, though callers
\* share the connections and their buffers; and a connection that nobody holds
\* has no parameters of a former call, whether the call succeeded, failed, or
\* lost the connection and was repeated.
ParametersSafe == BoundIsMine /\ NoLeftovers

\* When a statement fails, the error of the connection is never an old loss:
\* the statement is not repeated on a healthy connection, and _Query never
\* returns the success of an Execute that has no result.
ErrnoFresh == \A p \in Callers : pc[p] = "bound" => errno[Conn(p)] # "lost"

\* A call of a prepared statement is carried out at most once, although a
\* lost connection makes Execute repeat it.
StatementOnce == \A p \in Callers : op[p] = "statement" => applied[p] <= 1

\* Every call returns, unless the program crashes.
CallsReturn == \A p \in Callers : pc[p] # "idle" ~> pc[p] = "idle" \/ ~alive

=============================================================================
