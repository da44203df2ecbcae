# Verification of poolserver

`poolserver` is a mining pool server: miners speak the stratum protocol to it
over TCP, it fetches block templates from one or more bitcoin daemons over
JSON-RPC, checks the shares the miners send and writes them to a MySQL
database. This directory holds TLA+ models of its concurrent core and of its data formats, the TLC runs
that check them on small instances, and proofs checked by TLAPS for every value
of the constants. `PROJECT.json` maps each definition to the lines it models.
Paths below are relative to `src/src/server/`.

## 1. Inventory

| Component | State | Operations | Talks to |
|---|---|---|---|
| `Stratum::Server` (`poolserver/Stratum/Server.*`) | current work, extranonce counter, client set, bans | accept, disconnect, ban, `GetExtranonce`, `BlockNotify`, `SendBlockTmpl`, `SubmitBlock` | clients (posted `SendJob`), NetworkMgr (signal) |
| `Stratum::Client`, `Job` (`Client.*`, `Job.h`) | socket, workers, jobs, job counter, difficulty | receive loop, subscribe, authorize, submit, `SendJob` | Server, ShareLimiter, DataMgr, database |
| `Stratum::ShareLimiter` | records of recent shares, counters, time of the last check | `Submit`, `LogBad` | its Client (`SetDifficulty`, `SendJob`, `Ban`) |
| `NetworkMgr` | known height, current template, two mutexes, two timers | `BlockCheck`, `UpdateBlockTemplate`, `SubmitBlock`, `BlockNotifySend` | daemons (JSONRPC), Server (posted notification) |
| `DataMgr` | queue of shares, upload timer | `Push`, `Pop`, `Size`, `Upload` | database (`ExecuteAsync`) |
| `SynchronisedQueue`, `DatabaseWorker`, `DatabaseWorkerPool` (`shared/Util.h`, `shared/MySQL`) | queue, stop flag, mutex, condition variable, connections | `Open`, `Enqueue`, `Dequeue`, `Stop`, `Close` | MySQL |
| `DatabaseConnection`, prepared statements | MySQL handle and its errno, mutex, statements and their parameter buffers | `Execute`, `Query`, `Escape`, `PrepareStatement`, reconnect | MySQL |
| `Server`, `Main`, `Config`, `Log` (`poolserver/Server`, ...) | worker threads, options | start-up, thread loop | all |
| `JSONRPC` | one socket per daemon | `Connect`, `Query` | daemons; called by NetworkMgr's threads |
| `JSON`, `JSONReader` | nodes; a stack of open nodes and one of names | `Add`, `Set`, `ToString`, `FromString` | |
| `Bitcoin`, `ByteBuffer`, `Crypto`, `BigNum`, `Util.cpp` | none | serialisation, Merkle tree, targets, hashing, hex | used by NetworkMgr and Client |

How the parts interact. `ServerThreads` threads run one `io_service`. Everything
that happens is one of its handlers: accepts, reads and writes of clients (the
reads and writes of one client are serialised by its strand), the two timers of
NetworkMgr, the upload timer of DataMgr, and what handlers post: a notification
from NetworkMgr to the server, and one `SendJob` per client from the server.
The posted `SendJob` is *not* wrapped in the client's strand. Database work
that nobody waits for goes through `SynchronisedQueue` to worker threads of the
pool's own.

What is hard here: handlers of several threads on the unlocked members of one
client; a `Job*` kept across calls that may delete the job; heights and
templates compared in one critical section and used in another, by two timers
and the submitters; daemons that lag behind one another or fail half way;
a socket that several threads close, open and read without a lock; calls that
are repeated on a connection opened anew; condition variables and a stop flag set
without the mutex; a loop over `try_lock` without a bound; unsigned arithmetic in
the retargeting; formats whose writer and reader, or whose pool and miner, must
agree to the byte. `PROJECT.json` lists these as hazards, each at its line,
with the properties that would catch it; section 6 names the ones outside the
models.

What makes each component correct: a share is paid once, and only for a job that
still exists; extranonces are unique; a new block reaches every miner and drops
the old jobs; the known height grows, and resets work once per block; shares
reach the database in order, once, in well-formed queries; operations are
neither lost nor stuck; a statement runs with its own parameters and once; a query
gets its own daemon's answer to itself; the pool judges the header the miner
hashed, and counts the same work once; no job is sent below its worker's minimum and a miner is not
punished for a change of its own speed.

## 2. Modules

| Module | Models | Checked by | Proofs |
|---|---|---|---|
| `Stratum` | `Stratum::Server`, `Client`, `Job`, the worker threads | `MCStratum` | `StratumProofs` |
| `ShareLimiter` | `ShareLimiter`, `Client::SetDifficulty` | `MCShareLimiter` | `ShareLimiterProofs` |
| `NetworkMgr` | `NetworkMgr` | `MCNetworkMgr` | `NetworkMgrProofs` |
| `DataMgr` | `DataMgr` | `MCDataMgr` | `DataMgrProofs` |
| `SharePipe` | what `DataMgr` promises: shares come out once, in order | property of `DataMgr` | |
| `DatabaseWorkerPool` | `SynchronisedQueue`, `DatabaseWorker`, the pool's `Open` and `Close`, `DatabaseConnection`'s `Execute` and reconnect | `MCDatabaseWorkerPool` | `DatabaseWorkerPoolProofs` |
| `SyncPool` | `GetSyncConnection`, `Execute`, `Query`, `Escape`, prepared statements, reconnect | itself | `SyncPoolProofs` |
| `JSONRPC` | `JSONRPC::Connect` and `Query` on the shared socket, the callers' tests of the result | `MCJSONRPC` | `JSONRPCProofs` |
| `Bitcoin` | `ByteBuffer`, `Serialization.cpp`, `Block`, `Transaction`, `VarInt`, targets, hex; the template, the job and the share made of them | `Codec`, `MCCodec` | `CodecProofs` |
| `JSON` | `JSON`, `JSONReader` | `Codec`, `MCCodec` | `CodecProofs` |
| `Codec` | the conversions as one-step actions over a set of inputs | `MCCodec` | `CodecProofs` |

### Stratum

`run[t]` is what worker thread `t` is doing: a frame with a program counter, the
client, the submission being checked and the job being built. A handler is cut
into steps where it takes or releases a lock or touches memory another thread may
touch: `OnMiningSubmit` becomes *lookup, limiter, duplicate check, evaluation,
block submission, payment*; `SendJob` becomes *clean, read work, take id, store*;
`_OnAccept` becomes *start reading* and *insert*; `BlockNotify` becomes *set work*
and *fan out*. `HoldsStrand` is the strand: a receive handler excludes the other
strand handlers of its client, and nothing else. `ioq` is the queue of posted
handlers. The template is a number, higher for newer; hashing is a free choice
between the three outcomes the code tells apart; the limiter is a free choice
between its four verdicts (module `ShareLimiter` decides between them).
`NetworkMgr` is reduced to "a template was or was not fetched, then the
notification was posted", with the lock that `BlockCheck` holds meanwhile.
`credits` is a history variable: the good shares that were queued or written.
A job deleted under a submission is read as freed memory: `SubmitShare` may then
answer either way.

### ShareLimiter

`window` is the deque of records, `NotDue` the early return, `TooManyBad` the
ban, `Wanted`, `Limited` and `Percent` the arithmetic of the check. The quotient
is one of doubles: rounding may leave an exact quotient just below its value, so
`Quotient` offers both integers. `Percent` keeps the unsigned widths as the
parameters `Wide` (2^64) and `Narrow` (2^32): the difference wraps, and `abs`
takes an `int`, the only overload with which the call on a `uint64` compiles.
`_lastRetargetShares` is never initialised: `Garbage` is the set of values it may
hold. The clock does not go back. `jobs` is the set of difficulties of the live
jobs. Nothing is assumed of the order of the configured difficulties: `Client.h:30`
takes `RetargetStartingDiff` as it is, above or below `RetargetMinDiff`, and
`Limited` lets the upper limit win. `authorized` and `early` are history variables:
whether the client has been authorised, and which of the live jobs were sent before the
last authorisation. `OnMiningAuthorize` raises `_diff` to the worker's minimum without a new job
(`Client.cpp:314`), so these stay live below it.

### NetworkMgr

Three kinds of threads: the check timer, the notify timer, and submitters. `height`
is external: what each daemon would answer. Every query may raise an exception.
`_mtxBlockCheck` and `_mtxBlockTmpl` are explicit; the comparison and the write of
`_blockHeight`, the check and the write of `_curBlockTmpl`, and the copy made by
`BlockNotifySend` (outside the lock) are steps of their own. A template is the
height of the block it builds on, so `response["height"]` is that plus one.
`Init` is what the first `BlockCheck` of `Connect` leaves, failures included.
Queries of different threads to one daemon are taken as exclusive; what happens
when they are not is the subject of `JSONRPC`.

### DataMgr and SharePipe

Threads push at any moment; one upload at a time runs, because the timer is
restarted only when its handler has ended (`ArmedDuringUpload`). `Size`, `Pop`
and the test for another row are separate critical sections. A query is the
sequence of its rows and commas. `SharePipe` is the abstract FIFO; `DataMgr`
implements it with the rows of the query being built still waiting in front.

### DatabaseWorkerPool

`Open` makes a connection, whose constructor starts its worker, and only then
connects it. `Dequeue` is *lock, test, wait, relock, take*; `wait` releases the
mutex and sleeps in one step and may wake for no reason. `Stop` sets the flag and
notifies without the mutex, and `Close` deletes connections without waiting for
the workers. Note that `Open` makes `MySQLSyncThreads` asynchronous connections
(`DatabaseWorkerPool.cpp:19`); `MySQLAsyncThreads` is not read.

An operation runs on the worker's own `DatabaseConnection`. `Execute` succeeds,
is refused, or loses the connection; whether the database had carried the
operation out by then is open (`applied` counts how often it did). After a loss
`_HandleMySQLErrno` opens the connection again and `Execute` is repeated, or tries
again later, or gives up: then `_mysql` stays `NULL` (`conn[w] = "null"`), every
later operation of that worker fails, and the assertion of the destructor ends
the program when the pool is closed (phase `aborted`). A worker may still use a
connection that was deleted; the freed memory may answer in any of these ways.

### SyncPool

The other half of the pool. A caller is a server thread; `TryLock` is one turn of
the loop of `GetSyncConnection`, with `i` starting at 0 and incremented before it
is used. A call is a text (`Execute` or `Query`), a text to be escaped, or a
prepared statement; its rows are not modelled. `params[c]` says whose values the
buffers of the connection's statement hold, `errno[c]` is `mysql_errno`, which a
failed statement may leave as it was, `stmt[c]` is *none*, *live*, or *detached*
after `mysql_close` closed the handle under it: nothing prepares it again, and a
detached statement fails without an error of the connection. `Lost`,
`Reconnected`, `ReconnectLater` and `ReconnectFails` are `_HandleMySQLErrno`.
`Escape` on a null handle is a crash (`alive`). `applied` is a history variable.
`LoadSTMT` runs before any call; a failure leaves the later connections without
the statement.

### JSONRPC

One daemon, one socket, the threads that query it. `BlockCheck` and
`UpdateBlockTemplate` hold a mutex of their own around their queries, `SubmitBlock`
none, so that a height check, a template update and submissions may be inside
`Query` together (`Start`). Every use of `_sock` is a step: *close, connect, write,
begin to read the head, end it, available, begin to read the body, end it, close and
parse*. `Raise` is an exception that leaves `Query`; a head that is refused was taken off
its connection before (`JSONRPC.cpp:77`), so no other reader finds it there. A blocking read stays with
the connection it began on when another thread closes or opens the socket; the
others use the socket as it is at that moment. Connections have names that are
reused once nobody has them. An answer is a head and a body, which may arrive
together or one after the other; `read_until` takes all that has arrived. The
daemon answers the requests of a connection in order, sends an error, and closes
connections that are idle. `during` records, per connection, which queries were
in progress when it was opened; `alone` whether any other query overlapped.

### Bitcoin, JSON and Codec

Pure operators. `Bitcoin` keeps the byte layout: every width is a parameter (a byte
is below `Nibble^2`, a `uint32` has `U32` bytes, a hash `Words` of them), so that
the boundaries of the variable-length integers, which are at 253, 2^16 and 2^32 in
the code, are within reach. A read returns a value and the buffer after it, and a
read past the end returns nothing, as in `ByteBuffer`. Hashing is a constructor
that tells its inputs apart. `TemplateBlock`, `GetJob`, `JobMessage` and
`ShareBlock` are what `UpdateBlockTemplate`, `GetJob`, `SendJob` and
`OnMiningSubmit` make of these.

`JSON` has the nodes, the writer and the reader. A node has the type, the value, the
members in their order (`_vec`, or the values of `_map` in the order of `_mapOrder`)
and their names, as in the class. Values nest values: `NodesOf(L, K)[k]` is what can be
built over the leaves `L` and the names `K` in `k` levels, up to the constant `Nesting`,
and `Write` is defined level by level in the same way. Text is a sequence of symbols:
punctuation, quotation marks, apostrophes, backslashes, letters, and whole numbers and
literals. Strings and names are made of the same symbols, so a quotation mark in one
ends it for the reader and what follows is read as grammar, as in the code: the text
`{"a":"\"}"}` is accepted as soon as its proper part `{"a":"\"}` has been read.

A double is counted in the smallest units printed, without its sign (`One` of them make
1.0). `WriteDouble` is `ss << GetDouble()` (`JSON.cpp:49`): `Rounded` keeps the significant digits of
the stream (six in the code; numbers below `Limit` times the unit of the last digit), a
whole number is written without a point and read as an integer, and one from `Limit` on
has an exponent, with a point only if it has more than one digit. What the reader makes
of an exponent without a point (`1e+06`) depends on the Boost library, which is not in the
tree: `ExponentRead` says whether it is taken for a double; if not, the text is refused
after the 1. Left out: signs, spaces, infinities and NaN, and doubles below 0.0001, which
have an exponent too.

`ReadSymbol` makes tokens of the symbols: a string is what lies between two marks. The
grammar of `JSONReader.h` decides every alternative by its first token, so the
reader is `Step`, which takes one token: `next` says what the grammar expects, the two
stacks (`stack` of open nodes, `names` of members) are those of `SemanticFunctions`,
and `Begin`, `End`, `ObjectKey` and `SetData` its actions. What is expected after a
comma or at a bracket depends on the type of the last open node, which is where the
recursive rules of the grammar keep it. After the closing bracket of the first
one nothing more is looked at; after a failure nothing matches.

In `ReadBinary` the position plus the size is an integer; the code adds in 64 bits
(`ByteBuffer.h:59`), which differs only for a length near 2^64, which damaged data may have
and a number that was written for a script or a list does not.

`Codec` takes an input, converts it there and back in one step, and keeps both for
the invariants. The miner (`MinerRoot`, `MinerHash`) and the daemon are external.
`InputAssumption` says which inputs are
meant: numbers and lists that fit their width, a template whose hashes have their length
and whose transactions can be read, submissions with fields of the length that
`OnMiningSubmit` demands, a positive target and a positive difficulty, a JSON value
nested at most `Nesting` deep whose objects have different names.
`WidthAssumption` says of the widths that a byte has room for a length of `3 * U32`,
the coinbase script's: the code cuts the coinbase at a constant place.

## 3. Runs

| Run | Instance | Shows |
|---|---|---|
| `stratum_one_client` | 1 thread, 1 client, 2 notifications, 1 retarget | `TypeOK`, `JobLive`, `CreditOnce`, `NoStaleJob`: with one thread a submission's job is not deleted under it, a share is paid once and a reset drops every old job |
| `stratum_live` | 1 thread, 2 clients of one address, counter of width 2, 1 notification, fair | `FreshWork`: a subscribed client gets work as new as the server's; `ExtranonceUnique` up to the wrap of the counter |
| `stratum_race_job` | 2 threads, 1 client | violation of `JobLive` |
| `network_mgr` | 2 daemons, both timers, 1 submitter, one new block, fair | `HeightMonotone`, `OneResetPerBlock`, `AcceptedIsKnown`, `NewBlockAnnounced` |
| `network_mgr_tip` | 2 daemons, both timers | violation of `TemplateOnTip` |
| `data_mgr` | 2 threads, minimum 2, bulk 3, 10 shares, fair | `NeverPopsEmpty`, `QueriesWellFormed`, `Drained`, refinement of `SharePipe` (`UploadsInOrder`) |
| `database_pool` | 2 workers, 2 operations, 1 loss of the connection per operation, fair | `NeverTakesEmpty`, `HandedOutInOrder`, `SomeoneAwake`, `InsertsAccounted`, `AllExecuted` |
| `database_pool_stop` | 1 worker, 1 operation, fair | violation of `WorkersStop` |
| `share_limiter` | scaled limits, start below the minimum, 4 submissions, 7 seconds | `DiffAboveMinimum`, `SpanBounded`, `BanDeserved`, `DiscardOnlyHuge` |
| `sync_pool` | 2 callers, 2 connections, 2 losses, fair | `SpinBounded`, `ParametersSafe`, `ErrnoFresh`, `StatementOnce`, `CallsReturn`, `TypeOK` |
| `jsonrpc` | 2 threads with all three methods between them, 2 endpoints, fair | `AloneIsRight`, `NoStaleAnswer`, `QueriesEnd` |
| `codec` | about 4300 inputs | `BytesKept`, `ShareIsBlock`, `KeyIsWork`, `BlockIsShare`, `JSONKept`, `PartRefused` |

### Bounds, and why they are enough

*Stratum.* One client and one thread already interleave messages, retargets,
resets, disconnects and found blocks; two notifications make the work of a job old
while a reset for it is queued, and one retarget is enough to delete or duplicate the
submitted job. What needs two threads does not happen in this run: section 5 says
which properties fail then, and section 4 what is proved for any number of threads. The second client is needed only for what clients share: the
extranonce counter, the bans and the fan-out of a notification. `ExtraMod` is as
large as `MaxSubs`, so that the counter wraps right after the last subscription.

*NetworkMgr.* Two daemons are the fewest that can disagree, by one block at the
start and by another when one of them sees the new block or accepts a submitted one.
The safety of the heights is proved for any number of blocks, daemons and submitters.

*DataMgr.* Ten shares with a minimum of 2 and bulks of 3 give full, partial and
consecutive queries and pushes at every point of an upload.

*Pool.* Two workers allow a wake-up to be stolen by one that never slept; two
operations allow the queue to be emptied and filled again, and a connection lost
under the first to be null under the second. One loss per operation already lets
the database carry it out twice. The safety properties are proved for any
number of workers, operations and losses.

*SyncPool.* Two callers and two connections are the defaults (`ServerThreads`,
`MySQLSyncThreads`); a caller then meets a connection that another holds, has lost,
or has left with a detached statement or a null handle. Two losses let both
connections, or one call twice, lose the connection. The safety properties are
proved for any number of callers, connections and losses.

*JSONRPC.* Two threads are enough for one to close, open, write or read under
the other; the queries are chosen so that each method meets each other. Three
connection names are the socket's and an old one for each reader.

*Codec.* Inputs lie on both sides of each boundary: numbers around the four forms,
scripts and lists of 0, 252 and 253 (at scale), 1 to 9 transactions, equal or
different, so that every shape of tree with up to four levels occurs; pairs of
submissions that differ in each combination of fields; difficulties around the
block's; JSON values up to three levels deep (`Nesting = 3`), each with up to two members
and each kind of leaf; strings and names with a mark followed by brackets and commas, so that
the text is cut short, read as another value, or refused. Doubles are printed with two
digits (`Limit = 100`) in tenths (`One = 10`), from 0.5 to 1000: exact and rounded up, down
and to even, whole after the rounding, and with an exponent of one digit and of two.
`ExponentRead` is false. The theorems are for any of these, for six digits and either
`ExponentRead` too.

*ShareLimiter.* Limits are scaled to a few shares and seconds, widths to
`Wide = 2^18` and `Narrow = 2^9`, the huge variance to 150 percent. The scale
keeps what matters: `Narrow` squared is `Wide`, and the huge variance is below
`Narrow / 2`. The start (1) is below the minimum (2), a worker's own minimum (3) above both, and
the largest (6) high enough that jobs are discarded for a rise and for a fall. Wrapping quotients are multiples of the difficulty modulo `Narrow` exactly as at full
width (for a power of two the low bits are right, else they are not).

`CHECK_DEADLOCK FALSE` is used for the pool, which may stop once closed, for `SyncPool`,
which stops after a crash, and for `JSONRPC`, which has nothing to do after a failed `Connect`.

### Fairness

*Stratum* (`stratum_live`): a thread never stops inside a handler (weak fairness of
`Continue`); a receive buffer is finite, and so is the number of daemons asked
by a block check (strong fairness of `EndReceive`, `BlockCheckDone`); the
`io_service` serves posted handlers in order whatever else becomes ready (strong
fairness of `TakePosted`).

*NetworkMgr*: threads go on; the check timer is restarted by its own handler; a
mutex that is released again and again is obtained at last; a daemon asked again
and again for its height answers at last. Nothing is assumed of template queries.

*DataMgr*: threads go on and the upload timer fires.

*Pool*: worker threads and the closing thread go on; the queue's mutex is obtained
at last; a reconnect that is repeated every three seconds succeeds or is given up at
last (`ReconnectLater` is left out of the fair steps). No operation is required to arrive and Close is not required to happen.

*SyncPool*: threads go on while the program runs; reconnects as above.

*JSONRPC*: threads go on; the daemon answers what it was asked and closes
connections that stay idle. The latter is an assumption about the daemon (bitcoind
ends idle connections after `rpcservertimeout`): `Query` has no timeout of its own,
and a thread whose request was answered to another waits until the daemon hangs up.

## 4. Proofs

All theorems hold for every value of the constants under the named assumptions of
the modules (`ASSUME`); TLC evaluates the assumptions in the runs.

* `StratumProofs.Typing`: `Spec => []TypeOK`. The inductive invariant adds
  `FramesOK`: the client and the share of a frame are set in every program counter
  that reads them. Without it `run[t].conn` might be `None` where a step indexes
  by it.
* `StratumProofs.UniqueExtranonces`: `Spec => []ExtranonceUnique`, any number of
  clients and threads. Uniqueness is not inductive; the strengthening says that
  every extranonce held is below the number of subscriptions served, which itself
  is at most `ExtraMod`.
* `StratumProofs.JobsStayLive` and `SharesPaidOnce`: `JobLive` and `CreditOnce`
  when there is one worker thread (`SingleThread`), any number of clients. The
  first needs to know that while a submission is in the limiter nobody else cleans
  jobs; the second relates `credits` to the recorded shares: a paid share is recorded in its
  job or its job id is never used again.
* `StratumProofs.OnlyInsertLeavesBehind`, for any number of threads and clients: the insert of
  `_OnAccept` is the only step after which a registered client has a socket that is not
  open and had not before. `Calm` and `BusyStep` divide the steps: none of them but the insert brings a
  client into the set, and those that close a socket take its client out (`KeepsOpen`).
* `StratumProofs.StaleOnlyLate`, for any number of threads and clients: a registered client comes to hold a
  job from before the last reset, with no reset on its way to it, only when a `SendJob`
  stores work it had read before, or when the client is registered late. So the reset itself is
  never lost. `KeepsPending` follows it: it is with the thread that fans out, then in the
  queue for every registered client, then with the thread that is about to clean, and a
  step that takes it from one place puts it in the next or carries it out (`CleanStale`). `QueueInv`
  says that a notification in the queue carries no clients.
* `NetworkMgrProofs.KnownHeightGrows` and `OneReset`: `Spec => HeightMonotone` and
  `Spec => OneResetPerBlock`, any number of daemons and submitters. `HeightInv` says
  who is inside `BlockCheck` holds `_mtxBlockCheck`, that the height about to be
  written is above the known one, and that the last announced height is below the
  known one between the write and the reset.
* `NetworkMgrProofs.AcceptedBlocksKnown`: `Spec => []AcceptedIsKnown`, any number of
  daemons and submitters. `KnownInv` follows the submitter through `BlockCheck`: it
  knows the height of its block already, or a query has failed, or it will still ask a
  daemon that has the block; neither a daemon's height nor the known one ever falls.
* `DataMgrProofs.PopsOnlyShares`: `Spec => []NeverPopsEmpty`, any number of threads
  and any options. `PopInv` says that at most one thread is uploading, and only it
  removes shares.
* `DataMgrProofs.QueriesAreLists`: `Spec => []QueriesWellFormed`, any bulk count.
  `QueryInv` counts: before the pop of row *i* the text has 2*i* parts, after it
  2*i* + 1, rows and commas in turn; so no interleaving of the row count and the empty
  test leaves a comma at the end or two rows without one.
* `DataMgrProofs.ImplementsPipe`: `Spec => UploadsInOrder`, the refinement of
  `SharePipe`, whose queue is the rows of the query being built followed by the
  datastore. A pop moves a share from the second to the first and a comma adds no
  row, so both stutter; `ExecuteAsync` sends the rows. It rests on `QueryInv`, which
  says where the rows of a query are, and on `PopInv`: only one query is being built.
* `DatabaseWorkerPoolProofs.TakesOnlyOperations` and `NoLostWakeup`: the queue's
  `NeverTakesEmpty` and `SomeoneAwake`, any number of workers. `QueueInv` ties the
  program counters to the mutex: between its test and its wait a worker holds it, so
  the queue it saw empty is still empty when it sleeps.
* `DatabaseWorkerPoolProofs.OrderKept` and `AllAccounted`: `HandedOutInOrder` and
  `InsertsAccounted`, any number of workers, operations and losses. Neither is
  inductive. `Ledger` says that the operations taken are numbered 1 to n and those
  in the queue n + 1 and on, that a busy worker has a taken operation that is
  not done and that no other worker has, and that until an operation is done it was
  carried out at most as often as the connection was lost under it.
* `ShareLimiterProofs.DifficultyBounded`: `Spec => []DiffAboveMinimum` for every
  configuration whose three difficulties are positive, in whatever order they are. With
  one that is 0, which the options allow, the difficulty may become zero and the next
  check divides by it.
* `ShareLimiterProofs.BansDeserved`: `Spec => BanDeserved`. `CountInv` says that a
  client never made more submissions than its counted shares and its bad ones
  together.
* `ShareLimiterProofs.RecordsBounded`: `Spec => []SpanBounded`. `SpanInv` says that
  the last check divides the records: the oldest is newer than it by less than the
  buffer, and the newest came before the next check was due. The records are not
  known to be in order of time, so only the ends are followed.
* `ShareLimiterProofs.DiscardsOnlyHuge`: `Spec => DiscardOnlyHuge`, any widths. When the new
  difficulty is higher, a wrap can only lower the percentage. When it is lower and the old
  one divides the quotient of the widths, the wrapped difference divided by the old
  difficulty is, in the low bits, the negative percentage rounded, whose absolute value `abs` gives.
* `JSONRPCProofs.NeverStale`: `Spec => []NoStaleAnswer`, any number of threads. A query
  holds a connection only while it reads; from its own close of the socket on
  (`SocketIsNew`), whatever connection the socket has was opened during the query, by
  whichever thread.
* `JSONRPCProofs.SoloAnswered`: `Spec => []AloneIsRight`, any number of threads and
  connections. `SoloInv` follows a query that no other one has overlapped: what
  earlier queries left in the socket it closes before it opens its own connection,
  the only request on that connection is its own, and the connection and the buffer
  together always hold a part of the answer to it, the whole once the daemon is done.
* `SyncPoolProofs`: `TypeCorrect`, `SpinIsBounded`, `ParametersKept`,
  `ErrnoIsFresh`, `StatementsOnce`, for any number of callers,
  connections and losses. The invariant has four parts. `Locks`: who is inside a call
  holds the mutex of the connection its `i` points to. `Spin`: a caller that has tried
  k connections has at least k other callers behind it, each at or before its
  k-th connection; they are left behind because a caller stops at the first free
  one, and since there are fewer other callers than connections the loop ends
  within a round. `Data`: the buffers of a connection are empty unless its holder
  has bound them; the errno is *lost* only while its holder reconnects; and a
  statement that may have been carried out is detached before the call is
  repeated, so that the repetition cannot carry it out again.

* `CodecProofs.BytesReadBack`: `Spec => []BytesKept`, for every block (any number of
  transactions, inputs and outputs, scripts of any length up to a `uint64`) and any
  widths. `Written(a, d)` says that the bytes `d` lie at the pointer of buffer `a`; for
  each type one lemma says that its reader, where its writer's bytes lie, returns what
  was written and moves the pointer behind it. Two kinds of loop are behind them:
  the bytes of a number, whose partial sums are the number modulo a power of the base,
  and the elements of a vector, whose reader has read the first *i* after *i* rounds.
  Hexadecimal text gives back any sequence of bytes. No induction principle
  of the library can be used, so `Induction` proves one for sets of numbers, and
  `SameRun` and `Iteration` say with it that a recursive function is what its equation says.
* `CodecProofs.SharesAreBlocks`: `Spec => []ShareIsBlock`, for every template, any number
  of transactions and every submission. `CoinbaseParts` says that the bytes of a coinbase
  are those before the extranonces, the extranonces and those behind them, so that
  `GetJob` cuts where they go (`JobIs`), and what the miner puts in is read back whole
  (`FilledIs`). `Shape` and `IsTree` say where the levels of a tree lie and which hashes
  are in them; `Siblings` that the trees of two blocks with different coinbases
  agree but for the first node of each level. From these `RebuildIs` (the partial rebuild
  is a full build), `MinerRootIs` (the branch leads the miner to the same root) and
  `RootIs` (which is the Merkle root). `SwapBack` is for the words of the previous hash.
* `CodecProofs.KeysAreWork`: `Spec => []KeyIsWork`, for every template and any two
  submissions of a job. A key gives back the nonce and the second extranonce
  (`KeyTells`). So does a header without its time: hashes tell their inputs apart, so
  the header gives the nonce and the root, the root the coinbase (`RootTells`) and
  the coinbase the second extranonce (`HeaderTells`). A hash that does so is the model's,
  and the assumption under which the pool compares work by its parts.
* `CodecProofs.BlocksAreShares`: `Spec => []BlockIsShare`, any width and any target of
  difficulty 1. Both tests say that difficulty times target is at most `DiffOne`; the rounding of
  the two divisions is the same.

* `CodecProofs.JSONReadBack`: `Spec => []JSONKept`, for every value, nested to any depth,
  with lists of any length. `NodesAre`, `WriteIs`, `TextIs` and `ParseIs` say that the
  recursive functions are what their equations say. `ParseJoint` is what everything rests
  on: to read two texts in turn is to read them joined; with it one lemma per
  token (`StepOpen`, `StepLeaf`, `StepComma`, ...) says what a part of a text does to
  the stacks, a string's symbols taken together. `Part` is a list of which the first *i* members have been read: the node
  on top has just these, in their order, and the stacks below it are as they were.
  `MemberRead` takes it from *i* to *i + 1* if the member's text leaves all below
  the top alone, and gives the member to the top; a leaf's text does (`LeafRead`), a
  list's does if its members' do (`ListRead`), so every text that can be carried does, by
  induction on its depth (`AllReadable`). An array at the top (`WrappedUnread`) and a
  leaf are refused, and what cannot be carried is read as something else or not at all.
  For a value with a quotation mark in it that is all that is said: its text may well be
  accepted, as another value.
* `CodecProofs.PartsRefused`: `Spec => []PartRefused`, for every value without quotation
  marks in its strings and names, and every place where its text is cut. The end and a failure absorb whatever follows
  (`EndStays`, `FailedStays`), so a text that is not read to the end has no
  part that is (`PartsUnread`); and the text without its last bracket is not read to
  the end, by the same induction on the depth.

With these a theorem states each invariant and each action property of the passing
runs but one. Only model-checked: `NoStaleJob`, which needs one thread (`StaleOnlyLate` says
for any number what it rests on); and liveness (`FreshWork`, `NewBlockAnnounced`, `Drained`,
`AllExecuted`, `CallsReturn`, `QueriesEnd`), which needs fairness and is out of the
prover's reach.
The types of `NetworkMgr`, `DataMgr`, `DatabaseWorkerPool` and `JSONRPC` are no runs'
properties of their own: they are parts of the inductive invariants that are proved.

## 5. Where the code and its comments disagree

* `stratum_race_job`: `OnMiningSubmit` keeps a `Job*` from `Client.cpp:125` on; a
  posted `SendJob(true)` deletes it in another thread. The comment at
  `Client.cpp:246` expects the deletion only after a found block was submitted.
* `network_mgr_tip`: `NetworkMgr.cpp:50` compares the height of the block to be
  mined with the known height, so a daemon one block behind is not skipped.
* `database_pool_stop`: `Stop` (`Util.h:57`) sets its flag without the mutex; a worker
  between its test and its wait misses the wake-up and never ends. In the program
  the destructor of the pool closes it a second time, and so notifies again, but only when
  the program ends, and by then `DeleteAsync` has deleted the connections of the workers
  (section 6); the model has the first `Close`.

More that the models show and no comment of the code contradicts:

* `ShareLimiter.cpp:58` subtracts unsigned numbers; for a lower difficulty the
  "variance in %" is arbitrary unless the old difficulty is a power of two, and
  above 2000 every job is discarded and the share refused. `DiscardOnlyHuge` is
  therefore stated for higher difficulties, and for lower ones from a power of two;
  without that condition (`Exact`) it fails.
* An authorisation raises the difficulty of a client and leaves the jobs it was sent before,
  whose shares are paid at their own lower difficulty (`Client.cpp:314`); and until then a
  `RetargetStartingDiff` below `RetargetMinDiff` is used as it is (`Client.h:30`).
* The difficulty of a job may be higher than the block's: nothing in `GetJob` prevents it,
  and then a found block is refused as a bad share (`Client.cpp:227`). `BlockIsShare` says
  that this is the only case.
* Two queries at the same time mix up their answers: `SubmitBlock` takes the height
  or the template that another thread asked for as "accepted", because neither has
  a member `result` (`NetworkMgr.cpp:105`); `AloneIsRight` without `alone[p]` fails.
* An accepted block is reported as failed when the body of the answer arrives after
  its head (`JSONRPC.cpp:106`).
* After a reconnect no prepared statement works any more, since none is prepared again;
  this is also why none is ever carried out twice (`StatementOnce`).
* `Escape` crashes on a connection whose reconnect was given up
  (`DatabaseConnection.h:96`).
* A JSON array at the top, a string with a quotation mark or an apostrophe, and a double
  that is whole or has more than six digits are not read back as they were written
  (`JSONKept` says exactly when). A text with a quotation mark in a string may be accepted when
  a part of it has arrived (`PartRefused` is about the others).

With two threads, which is the default, three things go wrong in `Stratum` that no document
excludes and that are therefore no properties here, all for the same reason, a posted
handler outside the strand or a lock that covers one assignment. Two notifications may be
run in the other order, and the work goes back to the older template
(`Server.cpp`, `Server.h:86`). A client may be disconnected between the start of its
first read and its insert (`Server.h:147`), and stays registered with a closed socket:
`OnlyInsertLeavesBehind` says that this insert is the only such step. And a job for the
old block may be stored after the reset: `NoStaleJob` fails with
`Threads = {t1, t2}` in `StratumOneClient.cfg`, and `StaleOnlyLate` says that the late
store and the late insert are the only ways.

## 6. Not modelled

* Rows and fields of results (`QueryResult`, `Field`, `DatabaseCallback`): conversion of
  buffers, out of reach of a finite model and without a decision in it. The setters of
  `PreparedStatement` likewise: the model knows whose parameters are bound, not which.
* Statements on the asynchronous connections: nothing enqueues one. `Ping` is never
  called, nor are `Script`'s pushes of data.
* Configuration and start-up (options are constants), logging, base64, dates as text,
  the wrapper of big numbers (integers here).
* Bytes of stratum messages and the buffers of `async_write`; a message that does not
  parse is `OnOtherMessage`.
* Hashing itself: the outcome of a share is a free choice in `Stratum`, a constructor
  in `Bitcoin`.
* Faults of memory: `DeleteAsync` under a running worker and the double `Close` of
  the pool (`DatabaseWorkerPool.cpp:52`), the string of `async_write` that is gone
  when the write runs (`Client.h:69`), the template pointer copied without its lock
  (`NetworkMgr.cpp:189`), the nodes that a failed parse never deletes
  (`JSONReader.h:29`), `_rowCount` read before it was written
  (`QueryResult.cpp:30`), the second free of `bind->length`
  (`PreparedStatement.cpp:19`), the missing return value of `operator>>`
  (`Serialization.cpp:25`).
* Options the code does not check: `MySQLSyncThreads = 0` (a division by zero,
  `DatabaseWorkerPool.h:114`), a length of `bits` below 3 (`Bitcoin.h:30`).

## 7. Plan

Built: `Stratum`, `NetworkMgr`, `DataMgr` with `SharePipe`, `DatabaseWorkerPool`,
`SyncPool`, `ShareLimiter`, `JSONRPC`, `Bitcoin`, `JSON` with `Codec`, with their
runs, and proofs of every safety property but `NoStaleJob`. Still to do:

* Composition of `Stratum` with `NetworkMgr` (a refinement of the reduced
  `NetworkMgr` inside `Stratum`) and with `ShareLimiter`.
