# Verification of the Columnar Python client

This directory models the Columnar Python client from the application's call to the
edge of the C++ core and back: what a cluster and a query are given and what reaches the
core; what happens between `execute_query` and the last call on its result, across the
application's threads, a thread pool or an event loop, and the core's IO thread; how a
connection is opened, closed and freed; and what becomes of an error. TLC checks the
models on small instances; TLAPS proves every safety property that the runs check, and the
refinement, for every value of the constants.

Paths are relative to the repository (`src/...` in `PROJECT.json` is the repository's
root, so its C++ files are `src/src/...` there and `src/...` here).

## 1. The system

The repository is a Python package over a C extension (`pycbcc_core`) that wraps the
Couchbase C++ core. The core itself is a git submodule and not part of the tree.

    application threads / tasks
        |  Cluster, Scope, BlockingQueryResult / AsyncQueryResult
    _QueryStreamingExecutor / _AsyncQueryStreamingExecutor      (protocol/query.py)
        |  _ClientAdapter -> _CoreClient -> pycbcc_core
    columnar_query_iterator, connection                          (src/*.cxx)
        |  callbacks take the GIL
    core::columnar::agent, pending_operation, query_result       (external; 1 IO thread)

| component | state it keeps | operations | interacts with |
|---|---|---|---|
| Query result contract (`common/streaming.py`, `common/result.py`) | `StreamingState` | iterate, cancel, metadata | every executor |
| Blocking executor (`couchbase_columnar/protocol/query.py`, `src/columnar_query.cxx`, `src/result.cxx`) | `_streaming_state`, `_query_iter`, `_metadata`, `_query_res_ft`, the token; in C++ `query_result_`, `pending_op_`, `barrier_` | `submit_query`, `submit_query_in_background`, `_wait_for_result`, `get_next_row`, `cancel`, `get_metadata`; the two core callbacks | application threads, pool threads, IO thread |
| Background pool (`protocol/cluster.py`) | `ThreadPoolExecutor`, its queue and threads | submit, nested submit, shutdown by `close()` and at exit | blocking executors, connection |
| Async executor (`acouchbase_columnar/protocol/query.py`) | `_iter_ft`, `_row_ft`, `_streaming_state`, `_metadata` | `submit_query`, `_set_query_core_result`, `_row_callback`, `_get_next_row`, `cancel`, `_query_done_callback` | loop thread, IO thread |
| Connection (`src/connection.cxx`, `client.hxx`, `core/client_adapter.py`, `core/client.py`) | the capsule and its references, `io_`, the IO thread, `_client`, the exit handler | create, open callback, close, close callback, dealloc, exit | everything above |
| Connection details (`protocol/connection.py`, `common/credential.py`, `config_profile.py`, `src/connection.cxx`) | `_ConnectionDetails`, the core's `cluster_options` | parse the connection string, merge, validate, convert, `update_cluster_options`, `get_connection_info` | options builder, connection |
| Options and requests (`protocol/options.py`, `common/options_base.py`, `common/core/utils.py`, `core/request.py`, `src/columnar_query.cxx`) | none | merge and convert options, build and encode a request, `build_query_options` | executors, connection details |
| Error mapping (`src/exceptions.cxx`, `protocol/exceptions.py`, `common/exceptions.py`) | none | core error to details to Python exception; the wrappers of the adapter | all callbacks |
| Logging (`src/logger.cxx`, `logger.hxx`, `protocol/__init__.py`) | the core's one logger | `configure_logging`, console logger, protocol logger | IO thread, GIL |
| Event loop choice (`acouchbase_columnar/__init__.py`, `protocol/core/client_adapter.py`) | the loop of an asyncio cluster | `get_event_loop`, `_LoopValidator` | connection details |
| Facades, deserializers, packaging | little or none | | |

Hard behaviours, each listed at its line under `hazards` in `PROJECT.json`:

- **Interleaving.** Python releases the GIL in `columnar_query_op`, in both waits for
  the core and (between bytecodes) anywhere else. `cancel()`, `next()`, the poll loop
  and the callbacks test a state and act on it later.
- **Ordering.** The core may answer before `columnar_query_op` has returned; a reply for
  a row may arrive when the request it answers was abandoned.
- **Deadlock.** A background query holds one thread of the pool while it waits for a
  task it submitted to the same pool.
- **Partial failure.** A query is `Started` before it is sent, so every failure of the
  submission leaves a state behind; a cancelled background query has a result but no
  stream.
- **Shutdown.** `close()` stops the connection, drops the client and then shuts the pool
  down, with queries in any of their phases, and possibly in two threads at once; the
  last reference to the capsule joins the IO thread, with the GIL in its hands; it may be
  the IO thread itself that holds it, after a record for Python's logger.
- **Merging and converting.** An option can come from the connection string, a keyword
  argument, an options object or a profile; durations pass through floats, unsigned
  integers and integer division; names change on the way.

What makes each component correct: a query is sent once, each row is handed out once
and in order, the end is reported only when it is reached, cancellation is final and
reaches the core, every wait ends, no null pointer is reached, and a Future says what
became of its query; the connection is freed once, by a thread that may join the IO
thread, and after its last user; the core is given what the application meant, and the
application gets the exception that the core's error stands for.

## 2. The modules

| module | models | kind |
|---|---|---|
| `QueryStream` | what one query promises the application that iterates it | abstract specification |
| `BlockingQuery` | one query of the blocking API, all three ways to execute it | component |
| `BlockingQueryProofs` | its invariant, safety theorems and the refinement of `QueryStream` | proofs |
| `BackgroundPool` | the pool under several queries with tokens, beside `close()` | composition |
| `BackgroundPoolProofs` | its invariant and safety theorems | proofs |
| `AsyncQuery` | one query of the asyncio API | component |
| `AsyncQueryProofs` | its invariant, the safety of its types and its result | proofs |
| `AsyncRowsProofs` | the invariant about its rows, on top of that one (extends `AsyncQueryProofs`) | proofs |
| `Connection` | one core connection: adapter, client, capsule, IO thread, GIL, both APIs | component, with the pool's and the executors' references |
| `ConnectionProofs` | its invariant and safety theorems | proofs |
| `Dictionaries` | Python's dictionaries, and how two are merged | operators |
| `OptionsBuilder` | values, validation, conversion and merging of options (extends `Dictionaries`) | algorithms |
| `ConnectionDetails` | from `create_instance`'s arguments to the core's `cluster_options` (extends `OptionsBuilder`) | algorithms |
| `QueryRequest` | from `execute_query`'s arguments to the core's `query_options` (extends `OptionsBuilder`) | algorithms |
| `ErrorMapping` | from a core error to the exception | algorithms |
| `EventLoop` | which loop an asyncio cluster runs on | algorithms |
| `ClientCalls` | one cluster and one query, of either API, through all five | composition |
| `ClientErrorProofs` | what can be raised, and as what | proofs |
| `ClientQueryProofs` | what reaches the core of a call (extends `ClientErrorProofs`) | proofs |
| `ClientClusterProofs` | what reaches the core of a cluster (extends `ClientQueryProofs`) | proofs |
| `MC*` | instances for TLC: members of the sets, symmetry | model checking |

`BackgroundPool` is where many background queries meet; it keeps of each what concerns
threads (its phase, its pending operation, whether `_query_res_ft` is done) and leaves
the rest to `BlockingQuery`, which in turn assumes two free threads. The steps the two
share (submission, poll loop, collection) have the same guards in both.

### BlockingQuery

A step is what a thread does while it holds the GIL and nothing can interfere in a way
another thread could see. So `submit_query` is three steps (`ExecuteQuery` or `Iter`
sets `Started` and calls the binding; `SubmitReturns` assigns `_query_iter`;
`QueryAnswered` returns from `wait_for_core_query_result`), `next()` is three
(`NextRow` evaluates the guards, `AskCore` enters `iternext`, `RowReturns` has the
answer) and `cancel()` two (`CancelCore`, then `MarkCancelled`). The worker's poll loop
is `WorkerPolls` (the `while` condition), `TokenWaitEnds` and `WorkerCancelReturns`,
then `WorkerCollects`; the second pool thread is `CoreWaitBegins`, `CoreWaitEnds`.

| variable | code |
|---|---|
| `state`, `iterSet`, `metadata`, `token` | `_streaming_state`, existence of `_query_iter`, `_metadata`, the token's event |
| `queryResult`, `barrier` | `query_result_` is not null, value of `barrier_` |
| `op`, `stream`, `sent`, `reply`, `runs` | the core: pending operation, stream of rows, rows produced, answer on its way, submissions |
| `coreFt`, `resultFt` | `_query_res_ft`, the Future of `execute_query` |
| `app`, `ret`, `iterating`, `handed`, `dropped` | the application's thread: place, call and outcome, rows received or refused by the deserializer |
| `worker`, `canceller`, `cancelled` | pool thread, other threads, history: some `cancel()` returned |

A row is counted, not represented: with one request at a time its position is its
identity. Errors are `error` (a `ColumnarError`) and `canceled`
(`QueryOperationCanceledError`, which is not one).

### BackgroundPool

The pool is a FIFO of `<<"outer", q>>` and `<<"core", q>>` tasks and a set of threads.
`phase[q]` follows a query through `execute_query` (two steps: the client is fetched,
then the task is submitted, and the pool may be shut down between them), the queue,
`submit_query_in_background` and the resolution of its Future. `closer` follows
`Cluster.close()`: connection, client, `shutdown()`, join; the exit handler (or the
interpreter's own, which comes first) begins at `shutdown()`.

### AsyncQuery

`QueryCallback`, `QueryCallbackQueues` and `RowCallback` are the IO thread; the `Loop`
actions are the callbacks in the loop's FIFO, and the rest is the application's tasks.
Each `_row_ft` ever created keeps its own entry in `rowFts`, because an abandoned one
may still be resolved; `TargetRowFt` is the attribute at the moment `_row_callback`
reads it. To resolve a future that is done raises `InvalidStateError` in the loop, and
the row goes nowhere (`lost`). Tasks may cancel the Future, the result, or a pending
await (`CancelAwait`: what `wait_for` does on a timeout).

### Connection

A Python step runs with the GIL. `gil` names who keeps it from one step to the next: the
IO thread, from a callback's answer to the release of its reference, and a thread in
`dealloc_conn`, from the destructor's first line to its last. Between the answer of the close
callback and the rest of it stands a log record (`connection.cxx:128`); with Python's logger
as the sink that record runs bytecode and may give the GIL away, so the callback is three
steps: `IoCloses` answers and logs (and keeps the GIL only if no Python logs), `IoStops` stops
the `io_context`, `IoDecrefs` drops the reference, and runs `dealloc_conn` in the IO thread
(`selfjoin`) when it was the last. `close()` is split at each attribute access
(`CloseChecks`, `CloseCalls`, `ResetChecks`, `Deletes`) and where the bindings give the GIL
up (`CoreCloses`, and `CloseReturns` after `f.get()`).

| variable | code |
|---|---|
| `phase`, `registered` | the Cluster object: held, dropped, or kept by `atexit` |
| `adapter`, `results`, `cycle`, `client` | who refers to `_CoreClient` (the adapter's `_client`, executors of live results, an asyncio executor that its own iterator keeps), and whether it has the capsule |
| `conn`, `ref` | the struct behind the capsule and the capsule's reference count |
| `stopped`, `ioStopped`, `posted`, `io`, `inflight` | `cluster_.close()` was called, `io_.stop()` was called, handlers in the `io_context`, the one that runs, queries without an answer |
| `late` | whose last query was sent to a core that had been closed, which `execute_query` does not look at |
| `barrier`, `pc` | each caller's promise and place |
| `logger` | which logger the core has: only Python's makes the IO thread want the GIL |

`RefsAccounted` is the heart: the reference count equals the owners counted one by one.

### ClientCalls and its algorithms

A value is a pair of a type and a content (`<<"timedelta", 1500>>` is 1.5 ms), options are
functions from names to values, and a function of the code that may raise returns
`Ok(value)` or `Raise(class)`. `BuildClusterOptions`, `Create`, `ConnectRequest`,
`UpdateClusterOptions`, `BuildQueryRequest`, `ToReqDict`, `BuildQueryOptions`,
`ErrorDetails` and `BuildError` are the functions of these names. Dictionaries are merged by
`++` of `Dictionaries` (what stands on the left wins), written out so that it can be proved
about. A connection string is a scheme and a parsed query; JSON text is the value it
encodes; which microsecond counts suffer from `int(x * 1e6)` is the constant `RoundsDown`.

A call says which API it uses. `AsyncAdapter` chooses the loop (`AdapterLoop`) before it
builds the details, and `Connect` differs in its wrapper (`Wrapped`, `AsyncWrapped`);
`Prepare` is `execute_query` up to the submission, of a cluster or, with `database` and
`scope` in the call, of a scope. A loop is its class (with readers and writers or without)
and whether it runs; `given.current` is what `asyncio.get_event_loop()` finds.

`BlankStrings` are the strings for which `isspace()` holds (`IsNullOrEmpty`), and
`Characters` gives the characters of a string, which is what the encoding of
`positional_parameters` makes of one (`Iterated`).

The properties do not repeat the code's merges: they say, in `Meant`, which of the places
where an application can set an option has the last word, and compare that with what
arrives in the core.

### What is assumed of code outside the repository

- The core answers each query once, and `cancel()` of an operation that has been
  answered has no effect. A cancelled stream answers requests with the canceled error;
  a stream that ended answers with the end or an error; a failed one with an error.
  Requests are answered in order. Metadata exists once the stream has ended. There is
  one IO thread (`handle_create_connection`'s default; nothing in Python sets
  `num_io_threads`).
- `ThreadPoolExecutor` takes tasks first in, first out, refuses them after `shutdown()`
  and joins its threads when the queue is empty.
- `cluster::close` of a core that is closed calls its handler at once, in the caller's
  thread (`dealloc_conn`, which closes again after every `close()`, would hang
  otherwise). Whether the core answers what is in flight before it calls the first close
  handler is left open (`drains`), and so is whether an open succeeds and whether a core that
  is closed answers a query that comes late or drops it.
- The core may fail any call with any error of its categories; the default options and
  `analytics_timeout` are constants. No category but its own two has an error with a code
  from 1 to 4: the bindings drop the category, and the code does not check this.
- An asyncio loop runs `call_soon` callbacks in order; a cancelled Future runs its done
  callbacks from the loop.
- The application iterates through an iterator that `iter()` returned to it. In
  particular it does not call `__next__` on a lazy result's `rows()` before `iter()`.

## 3. What is checked

`TypeOK` in each module; the other properties:

| property | what it says |
|---|---|
| `LiveIteration` | `next()` never reaches `iternext` with a null `query_result_` |
| `FutureIsUsable` | a Future that resolves to a result has a stream behind it or a query that is `Cancelled` |
| `NoRowLost` | `Completed`, or metadata handed out, means that all rows were handed out |
| `ExecutedOnce` | a query is sent at most once |
| `CancelSticks` | after a `cancel()` returned, no later `next()` asks for a row |
| `ImplementsQueryStream` | the blocking query refines `QueryStream` |
| `CallsReturn`, `CancelledFutureResolves` | calls return if the server answers; a set token resolves the Future even if it does not |
| `OnlyNestingBlocks`, `FewQueriesMoveOn` | the pool hangs in one way only, and never with more threads than queries |
| `NoOrphanWhileOpen`, `CloseLeavesNothing`, `FuturesResolve` | no Future resolves ahead of its query before shutdown; none is left after `close()`; each resolves unless the pool is exhausted or closed |
| `ResultIsLive` | an `AsyncQueryResult` has its `query_result_` |
| `RowsInOrder`, `RowsAccounted`, `RowsLostByCancelOnly` | no row twice or out of order; each is handed out, on its way or lost; one is lost only by a cancelled await or to a task whose pending row future another task replaced, one each |
| `RefsAccounted`, `OnlyLoggedCloseJoinsItself`, `NoUseAfterFree` | the capsule's references are its owners; the IO thread drops the last one in a close callback that logs to Python only; nothing reaches a freed connection |
| `OnlyLoggingHangsDealloc`, `OnlyRacedCloseHangs`, `OnlyDroppedQueriesHang` | besides, a call hangs in three ways only: `dealloc_conn` against a log record that wants the GIL; a `close()` that another one overtook; a query that the core drops when it is closed, or that came too late |
| `ClosedIsStopped`, `CallsReturn`, `UnreferencedIsFreed` | a closed cluster has a stopped `io_context`, or a close callback that comes back from its record to stop it; but for those hangs every call returns and an unreferenced connection is freed |
| `DurationsReachCore`, `OptionsReachCore` | the core has each timeout under its own name, from the place with the last word and at most 1 ms short (and a keyword's `None` as zero); flags, network, IP protocol, TLS verification and user name likewise, and an asyncio cluster has a loop it can work with |
| `TrustIsExclusive` | the core trusts Capella's certificates exactly when nobody refused them or asked for others; an explicit `trust_only_capella` is lost to three options only, below |
| `QueryReachesCore` | parameters, every option that the bindings read, database and scope in the core's query are those of the call (and a keyword's timeout of `None` is zero) |
| `ErrorsAreMapped`, `ErrorsKeepTheirMeaning` | no exception of the bindings gets out; a core error has the class and the server's code it stands for |
| `NextReturns`, `CancelReachesCore` | each request of a task that iterates alone is answered; a cancelled Future ends the pending operation |

| run | instance | states |
|---|---|---|
| `blocking` | 3 modes, 2 cancelling threads, 0..2 rows, server may be silent | 8293 |
| `pool` | 2 threads, 3 queries, close or exit | 230531 |
| `async_tasks` | 2 tasks, of which one may stay idle, 3 requests, 0..2 rows, server may be silent | 57686 |
| `connection` | 2 application threads, both APIs, a core that drains or drops | 41996 |
| `calls` | 8511 ways to create a cluster (316 of them asyncio), 720 calls of `execute_query` on each of two, 10 core errors | 84916 |

Why the bounds are enough. Two rows have a first, a later and an end; two cancelling
threads can be in the two halves of `cancel()` while a third party (token or worker) is
in it too. For the pool two threads and three queries are the smallest instance in which
threads are exhausted and a query still waits; the proofs cover all others. Two
application threads are one `close()` that overtakes another, or a `close()` beside a
query or an end of scope (the safety properties hold for three threads too, in 1785718
states). `MCClientCalls` varies one group of options at a time, in every combination of the
places it can be given in; the groups share no code but the merge. Three requests in
`async_tasks` are two rows and the end, or one of them and awaits that were abandoned or
replaced, in any order (four requests pass too, with 606301 states). `MaxRows` and
`MaxRequests` bound the models; the server's answer has a length in `0 .. MaxRows` chosen at
the start.

Deadlock is not checked: an application may stop calling, a silent server leaves calls
waiting, and a full pool really stops. `OnlyNestingBlocks` says exactly when.

Fairness. Weak fairness for the client's threads (they are operating-system threads that
take turns on the GIL) and for the IO thread's callbacks. Nothing is assumed of calls
the application makes, nor, in `FairSpec`, of the server. A property that needs a server
that answers says so (`ServerAnswers => ...`); the core's own query timeout provides it.
In `Connection` a log record may come before every handler, so the IO thread's next handler
has strong fairness; creating, querying, closing and dropping are up to the application.
In `BackgroundPool` the core is fair only while the connection is open, because closing
stops the `io_context`.

### Disagreements with the documentation and the tests

Each is a run that expects a violation, with a finding in `PROJECT.json`.

| run | what the code does |
|---|---|
| `blocking_metadata` | `metadata()` of a query cancelled in the background before the answer dereferences a null pointer (with `Modes <- Lazy` the same property fails by an `AttributeError`: `_query_iter` is only annotated) |
| `blocking_token` | a token set before the Future is resolved can leave the result `Started`, against a test's assertion |
| `blocking_cancel_next` | `cancel()` during another thread's `next()` surfaces there as `InternalSDKError` |
| `async_future` | a core that answers before `columnar_query_op` returns finds no `_iter_ft`; `await execute_query(...)` then never ends |
| `connection_scope` | a cluster that falls out of scope is not cleaned up: `atexit` keeps a blocking one, an iterator's callback an asyncio one that has run a query |
| `connection_logging` | with Python's logger as sink `close()` may return while its callback logs; the IO thread then drops the last reference and joins itself in `dealloc_conn`: the connection is never freed |
| `calls_timeout` | a query without a timeout has the core's default, not the cluster's `query_timeout` |

More of them are visible in the models and have no run; the properties name the exceptions
that they make:

- A single source of trust may be used (`common/options.py:111`). The code refuses a
  certificate beside `trust_only_capella=True` and nothing else: the platform, a PEM string
  of white space (`isspace()`), or an empty list of certificates is accepted beside it and
  turns it off in the core (`TrustIsExclusive`), and the other sources are accepted beside
  each other.
- `None` is documented as the default of every duration (`common/options.py:56-57`,
  `190-199`, `220`). In an options object it is; as a keyword argument it reaches the core as
  0 ms (`NoneIsZero` in `DurationsReachCore` and `QueryReachesCore`).
- The asyncio API takes `lazy_execute` and a `CancelToken` and ignores both.
- `query_context` is a valid query option that the bindings never read.

## 4. What is proved

TLAPS proves every invariant and action property of the passing runs, but for liveness, and
that the blocking query refines `QueryStream`. The constants are arbitrary, within the
assumptions that the modules name:

| module | theorems | assumptions |
|---|---|---|
| `BlockingQueryProofs` | `Invariance`, `TypeCorrect`, `IterationIsLive`, `FuturesAreUsable`, `RowsAreDelivered`, `SentOnce`, `CancelIsFinal`, `Refinement` | `BlockingQueryAssumption`: the modes are the code's three, `MaxRows` is a number |
| `BackgroundPoolProofs` | `Invariance`, `TypeCorrect`, `HangsOnNestingOnly`, `FewQueriesDoNotHang`, `FuturesFollowAnswers`, `CloseIsComplete` | `BackgroundPoolAssumption`: finitely many threads and queries |
| `AsyncQueryProofs` | `Invariance`, `TypeCorrect`, `ResultsAreLive` | `AsyncQueryAssumption`: finitely many tasks, `MaxRows` and `MaxRequests` are numbers |
| `AsyncRowsProofs` | `RowInvariance`, `NoRowVanishes`, `RowsArriveInOrder`, `OnlyCancelsLoseRows` | the same |
| `ConnectionProofs` | `Invariance`, `TypeCorrect`, `CountIsRight`, `IoThreadJoinsItselfInLoggedClosesOnly`, `FreedIsUnreachable`, `DeallocWaitsForLogsOnly`, `CloseWaitsForRacesOnly`, `QueriesWaitForDropsOnly`, `CloseStopsIt` | `ConnectionAssumption`: finitely many callers, none of them the IO thread |
| `ClientErrorProofs` | `ErrorInvariance`, `ExceptionsAreMapped`, `MeaningIsKept` | `ClientCallsAssumption`: the core's errors have the codes of their categories; and those below |
| `ClientQueryProofs` | `CallInvariance`, `QueryIsMeant` | `CallsAssumption`: what is called a number, a bool or a duration is one, and the nested options are those of their classes; `OptionsAssumption`: no float of zero seconds is rounded down |
| `ClientClusterProofs` | `ClusterInvariance`, `TypeCorrect`, `DurationsAreMeant`, `OptionsAreMeant`, `TrustIsKept` | `CoreDefaultsAssumption`: the core's options have the fields that the bindings name, with its own defaults for the switches |

The invariants stand at the end of the models, and TLC finds each of them true on the
instance of the model's passing run (`INVARIANT IInv`, or `ErrorInv`, `CallInv`,
`ClusterInv`).

**The argument for the blocking query.** None of the safety properties is inductive.
`LiveIteration` needs to know that a state of `Started` together with a result in the
application's hands implies `query_result_`, and that depends on how the query was
executed: an eager result exists only after a good answer, a lazy iterator only after
`iter()` returned, and a background result (`FutureIsUsable`) only once the worker has
collected an answer that is good or canceled. The last case is the delicate one:
`BackgroundInv` says that the operation can be canceled only by the worker, which marks
the query `Cancelled` before it looks at the core's Future again. `SubmissionInv` carries
`ExecutedOnce`: the state leaves `NotStarted` with the only submission. `RowsInv` balances
rows handed out, refused and on their way against rows produced, which gives `NoRowLost`
and, through the mapping in `BlockingQuery!QS`, the refinement.

**The argument for the pool.** `PlaceInv` says where each unfinished query's tasks are
(queue or thread), `QueueInv` and `HoldInv` that the outer task is in one place only,
`UnsentInv` that no core task exists before the query was sent. If all threads are
blocked and nothing is pending in the core, no thread runs a core task (it would be
blocked on a pending operation only) and none is idle (the queue would be empty, and then
each outstanding query's task would sit on a thread that runs it or waits for a core task
that is nowhere); so each thread waits for a core task that is queued:
`OnlyNestingBlocks`. `FewQueriesMoveOn` adds the counting: distinct threads hold distinct
outstanding queries.

**The argument for the asyncio query.** `_iter_ft` becomes a result only through a
callback that the IO thread queued, long before the loop runs it, so `ResultIsLive` rests
on what is in the loop's queue: `AnswerInv` says that a success that is queued, or about
to be, was put there after `query_result_` was, and that nothing takes it away again.
`RequestInv` says that each awaited row future exists, and that only answers to requests
resolve one. The lemmas `CallbackQueued`, `CallbackTaken` and `CallbacksKept` carry the
part about the queue through the steps that add to it, take from it and leave it alone.

**The argument for the rows of the asyncio query.** A row that the core has sent is among the
replies, in the loop's queue, in a row future, with a task, or lost. `RowsAccounted` counts
these and is not inductive: nothing in it says whether a reply finds somebody who waits.
`FutureInv` says that tasks do not share row futures and that someone awaits each pending
one. `OrderInv` says that what a task has, or can take, comes before every row in the loop's
queue, and that before every row among the replies, which gives `RowsInOrder` and makes the
places disjoint. `LostInv` is a budget: the rows that are lost and the answers that are
out are no more than the awaits cancelled so far, plus one for each task that waits with a
pending row future (`Waiting`); and if one of these waits for the latest future there is an
answer ahead of it, so that its share of the budget is not spent on a lost row. What remains
is `RowsLostByCancelOnly`: the cancelled awaits and the tasks whose future was replaced. The sets of the model are sets of positions in the two queues (`PlacesOfRows`), and the
lemmas `PlacesOfAppend` and `PlacesOfTail` say how these move when a queue is added to or
taken from; each action that concerns a row has a lemma of its own. The invariant is
`IInv`, that is `QueryInv` of `AsyncQueryProofs` with `RowInv` beside it.

**The argument for the connection.** `RefsAccounted` is a sum over the callers. `Share` is
what one caller, and the cluster, own of it; a step changes one caller's share and the count
by the same amount (`ShareOnly`), and `RefsStep` adds up. When the count is zero nobody owns
anything (`ZeroIsFree`), and a callback that keeps the GIL from its answer to its reference
does not hold the last one, because whoever it answered still has one (`CallbackIsNotLast`).
A close callback whose record went to Python's logger does not keep it (`Interrupted`), which
leaves `OnlyLoggedCloseJoinsItself`. Around it, `LockInv` says who may keep the GIL from one
step to the next, `HandlerInv` that a handler on its way
belongs to a caller who waits for it, `QueryInv` that a query in flight has one too (or an
executor that is never freed), and `PhaseInv` who owns what in each phase of the Cluster
object. `StopInv` and `StoppingInv` order the closing of the core, the stopping of the
`io_context` and the callers' progress; `DrainInv` says that a core that drains has answered
what was sent in time before it stops; `FreedInv` and `LogInv` say what a freed connection
and a log record imply. The properties about hanging are in this invariant or follow from it.

**The argument for the calls.** These models compute more than they step, so their
invariants state provenance: `ClusterInv` that the details are what `BlockingAdapter` makes
of the arguments and the core's options what `UpdateClusterOptions` makes of the details;
`CallInv` the same of the request and the query; `ErrorInv` that nothing is raised while a
call is under way. The work is in the lemmas about the operators. `BuiltOption` and
`BuiltNames` say what `BuildOptions` returns for one key, given that no two keys of a class
share a name in the bindings (`UniqueNames`). `CopiedIsMeantByCluster`, `MeantNested` and
`FlatIsMeant` say that merging and flattening pick the value with the last word, `Meant`.
`BuiltCluster`, `RequestedOptions` and `CreatedCluster` carry an option to the request
(`Reaches`), and `CoreOptions` says what each field of the core is set to. On the query's
side `OptionOfQuery` does all of this for one option, and `ParametersFirst` and
`NamedArguments` add the parameters.

**Only model-checked:** the liveness properties (`CallsReturn`, `CancelledFutureResolves`,
`FuturesResolve`, `NextReturns`, `CancelReachesCore`, `UnreferencedIsFreed`): fairness and
ENABLED are out of the prover's reach. The violations are found by TLC only, as
counterexamples are.

One detail of style comes from the provers: that a port has sixteen bits is stated by
inequalities and proved from `% 65536` by a lemma (`Remainder`), because an interval
`0 .. 65535` is enumerated.

## 5. Plan

1. Theorems about single operators that the documentation states and no run asks for, for
   example that a profile's timeouts are in force whatever `timeout_options` says.
2. What `async_future` and `blocking_token` would need to hold: the weakest condition on the
   order of the core's answers, as an invariant and a theorem.
3. The console and protocol loggers' life at exit, beside the `Connection` model.

## 6. Not modelled

- The core (a git submodule whose directory is empty), asyncio, the thread pool and the
  interpreter: external, as assumed above. What the core makes of the unknown options
  that go back into the connection string is its own affair.
- Logging beyond its effect on the IO thread: the content and level of records, the
  protocol logger, the teardown at exit.
- The facades `Cluster`, `Database`, `Scope` and their async counterparts: delegation
  without state; `execute_query` of cluster and scope is `PrepareQuery`.
- Deserializers and metadata accessors (pure data), packaging and version (build time).
