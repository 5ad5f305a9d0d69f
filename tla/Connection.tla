----------------------------- MODULE Connection -----------------------------
(***************************************************************************)
(* The life of one core connection: a Cluster or AsyncCluster object, its  *)
(* adapter, the _CoreClient object and the capsule of the C++ struct       *)
(* `connection` (io_context, core cluster, one IO thread).                 *)
(*                                                                         *)
(* Application threads (Callers) create the cluster, run queries, close it *)
(* from several threads, drop their results and the cluster.  Python steps *)
(* need the global interpreter lock (gil); they are split where another    *)
(* thread may run: at each attribute access of the adapter and where the   *)
(* bindings give the lock up.  A callback of the IO thread takes the lock, *)
(* and dealloc_conn keeps it while it waits for the IO thread.             *)
(*                                                                         *)
(* The capsule's reference count is the number ref; everything that owns   *)
(* the _CoreClient object is in adapter, results and cycle.  The core is   *)
(* modelled by what src/ expects of it: close() of a core that is closed   *)
(* already calls its handler at once, in the calling thread (dealloc_conn  *)
(* would hang after every close() otherwise); whether it answers the       *)
(* queries in flight before a close handler is left open (drains), and so  *)
(* is what it does with a query that comes later (late): answer it, drop   *)
(* it, or refuse it at once, which leaves everything here as it was.       *)
(***************************************************************************)
EXTENDS Integers, FiniteSets

CONSTANT Callers  \* application threads

ASSUME ConnectionAssumption ==
    /\ IsFiniteSet(Callers)
    /\ "none" \notin Callers /\ "io" \notin Callers

VARIABLES
    api,         \* "blocking" (Cluster) or "asyncio" (AsyncCluster)
    drains,      \* the core answers what is in flight before it calls a close handler
    phase,       \* of the Cluster object: "new", "held" by the application, "dropped", "failed"
    registered,  \* the exit handler's registration keeps the Cluster object alive
    adapter,     \* the adapter has its _client attribute
    client,      \* the _CoreClient object: "none", "unconnected", "connected"
    results,     \* callers whose query executor, which refers to the client, is alive
    cycle,       \* an executor is kept alive by its own iterator (asyncio only)
    conn,        \* the struct behind the capsule: "none", "alive", "freed"
    ref,         \* reference count of the capsule
    stopped,     \* the core cluster has been asked to close
    ioStopped,   \* io_.stop() has been called
    io,          \* what the IO thread is doing, and for whom
    posted,      \* handlers of open and close that wait for the IO thread
    inflight,    \* queries the core has not answered
    late,        \* those of them, and earlier ones, that were sent to a closed core
    pc,          \* where each caller is
    barrier,     \* each caller's promise: "unset", "ok", "error"
    gil,         \* who keeps the lock between two steps
    raced,       \* history: a close() reached the core after another one
    logger       \* the core's logger: "none", its own "console", or Python's, "sink" or "silent"

cluster == <<api, drains, phase, registered, adapter, client, results, cycle>>
core == <<conn, stopped, ioStopped, io, posted, inflight, late, raced>>
vars == <<cluster, core, ref, pc, barrier, gil, logger>>

Idle == <<"idle", "none">>
Exited == <<"exited", "none">>
Logs == <<"log", "none">>
Handlers == {"open", "answer", "close", "closed", "dealloc", "decref", "selfjoin"}

Init ==
    /\ api \in {"blocking", "asyncio"} /\ drains \in BOOLEAN
    /\ phase = "new" /\ registered = FALSE
    /\ adapter = FALSE /\ client = "none" /\ results = {} /\ cycle = FALSE
    /\ conn = "none" /\ ref = 0
    /\ stopped = FALSE /\ ioStopped = FALSE /\ raced = FALSE
    /\ io = Exited /\ posted = {} /\ inflight = {} /\ late = {}
    /\ pc = [c \in Callers |-> "idle"]
    /\ barrier = [c \in Callers |-> "unset"]
    /\ gil = "none"
    /\ logger \in {"none", "console"}

At(c, place) == pc[c] = place
Runs(c, place) == At(c, place) /\ gil = "none"
Goto(c, place) == pc' = [pc EXCEPT ![c] = place]
AllIdle == \A c \in Callers : At(c, "idle")

-----------------------------------------------------------------------------
(* Creation: Cluster.__init__ calls create_connection and waits for the     *)
(* callback of open_in_background.                                          *)

\* The capsule starts with one reference for the caller and one for the callback.
CreatedRefs == 2

Create(c) ==
    /\ Runs(c, "idle") /\ phase = "new"
    /\ phase' = "opening" /\ adapter' = TRUE /\ client' = "unconnected"
    /\ conn' = "alive" /\ ref' = CreatedRefs /\ io' = Idle
    /\ posted' = {<<"open", c>>}
    /\ Goto(c, "opening")
    /\ UNCHANGED <<api, drains, registered, results, cycle, stopped, ioStopped,
                   inflight, late, raced, barrier, gil, logger>>

\* create_connection returns: the adapter stores the capsule, and a blocking
\* cluster registers its exit handler; or __init__ raises, and nothing that
\* Python knows of refers to the capsule.
Opened(c) ==
    /\ Runs(c, "opening") /\ barrier[c] # "unset"
    /\ IF barrier[c] = "ok"
       THEN /\ phase' = "held" /\ client' = "connected"
            /\ registered' = (api = "blocking")
            /\ UNCHANGED adapter
       ELSE /\ phase' = "failed" /\ client' = "none" /\ adapter' = FALSE
            /\ UNCHANGED registered
    /\ Goto(c, "idle")
    /\ UNCHANGED <<api, drains, results, cycle, core, ref, barrier, gil, logger>>

\* configure_logging() refuses to replace a logger, the console's that
\* PYCBCC_LOG_LEVEL asked for at import among them; a level that is none of
\* Python's named ones turns it off.
ConfigureLogging(c) ==
    /\ Runs(c, "idle") /\ AllIdle
    /\ IF logger = "none" THEN logger' \in {"sink", "silent"} ELSE UNCHANGED logger
    /\ UNCHANGED <<cluster, core, ref, pc, barrier, gil>>

-----------------------------------------------------------------------------
(* References.                                                              *)

\* Caller c changes who owns the client; the last owner frees it, and with it
\* a reference to the capsule, whose destructor runs at once with the lock.
Release(c, newAdapter, newResults, next) ==
    LET unheld == client # "none" /\ ~newAdapter /\ newResults = {} /\ ~cycle
        drop == IF unheld /\ client = "connected" THEN 1 ELSE 0
    IN  /\ adapter' = newAdapter /\ results' = newResults
        /\ client' = IF unheld THEN "none" ELSE client
        /\ ref' = ref - drop
        /\ IF drop = 1 /\ ref = 1
           THEN gil' = c /\ Goto(c, "dealloc")
           ELSE gil' = gil /\ Goto(c, next)

\* execute_query() looks for the adapter's client, and not whether it was closed.
Sends(c) ==
    /\ phase = "held" /\ adapter /\ client = "connected" /\ c \notin inflight
    /\ inflight' = inflight \cup {c}
    /\ late' = IF stopped THEN late \cup {c} ELSE late \ {c}

\* execute_query(): a blocking caller waits for the core, and the executor
\* refers to the client as long as the result lives.
Query(c) ==
    /\ Runs(c, "idle") /\ api = "blocking" /\ Sends(c) /\ c \notin results
    /\ results' = results \cup {c}
    /\ barrier' = [barrier EXCEPT ![c] = "unset"]
    /\ Goto(c, "query")
    /\ UNCHANGED <<api, drains, phase, registered, adapter, client, cycle, conn,
                   stopped, ioStopped, io, posted, raced, ref, gil, logger>>

QueryAsyncio_NoCycle(c) ==
    /\ Runs(c, "idle") /\ api = "asyncio" /\ Sends(c)
    /\ UNCHANGED <<cluster, conn, stopped, ioStopped, io, posted, raced, ref, pc,
                   barrier, gil, logger>>

\* The same with asyncio: the executor owns the iterator, the iterator owns
\* row_callback, a bound method of the executor, and its type takes no part in
\* cycle collection.
QueryAsyncio(c) ==
    /\ Runs(c, "idle") /\ api = "asyncio" /\ Sends(c)
    /\ cycle' = TRUE
    /\ UNCHANGED <<api, drains, phase, registered, adapter, client, results, conn,
                   stopped, ioStopped, io, posted, raced, ref, pc, barrier, gil, logger>>

QueryReturns(c) ==
    /\ Runs(c, "query") /\ barrier[c] # "unset"
    /\ Goto(c, "idle")
    /\ UNCHANGED <<cluster, core, ref, barrier, gil, logger>>

DropResult(c) ==
    /\ Runs(c, "idle") /\ c \in results
    /\ Release(c, adapter, results \ {c}, "idle")
    /\ UNCHANGED <<api, drains, phase, registered, cycle, core, barrier, logger>>

\* The application drops the cluster; the exit handler may still refer to it.
LeaveScope(c) ==
    /\ Runs(c, "idle") /\ AllIdle /\ phase = "held"
    /\ phase' = "dropped"
    /\ Release(c, adapter /\ registered, results, "idle")
    /\ UNCHANGED <<api, drains, registered, cycle, core, barrier, logger>>

\* The interpreter exits: it calls and drops the exit handlers.
Exit(c) ==
    /\ Runs(c, "idle") /\ AllIdle /\ registered
    /\ phase' = "dropped" /\ registered' = FALSE
    /\ Release(c, FALSE, results, "idle")
    /\ UNCHANGED <<api, drains, cycle, core, barrier, logger>>

-----------------------------------------------------------------------------
(* close(), possibly in several threads.                                    *)

CloseChecks(c) ==
    /\ Runs(c, "idle") /\ phase = "held" /\ adapter /\ client = "connected"
    /\ Goto(c, "closing")
    /\ UNCHANGED <<cluster, core, ref, barrier, gil, logger>>

CloseCalls_NoIncref(c) ==
    /\ Runs(c, "closing")
    /\ IF adapter
       THEN /\ ref' = ref + 1 /\ Goto(c, "coreClose")
            /\ barrier' = [barrier EXCEPT ![c] = "unset"]
       ELSE Goto(c, "idle") /\ UNCHANGED <<ref, barrier>>
    /\ UNCHANGED <<cluster, core, gil, logger>>

\* The adapter's client may be gone by now: AttributeError, which the blocking
\* wrapper turns into InternalSDKError.  Else the call's argument and the
\* callback each get a reference.
CloseCalls(c) ==
    /\ Runs(c, "closing")
    /\ IF adapter
       THEN /\ ref' = ref + 2 /\ Goto(c, "coreClose")
            /\ barrier' = [barrier EXCEPT ![c] = "unset"]
       ELSE Goto(c, "idle") /\ UNCHANGED <<ref, barrier>>
    /\ UNCHANGED <<cluster, core, gil, logger>>

CoreCloses_StopsNow(c) ==
    /\ At(c, "coreClose")
    /\ stopped' = TRUE /\ ioStopped' = TRUE /\ raced' = (raced \/ stopped)
    /\ IF stopped THEN Goto(c, "callback") /\ UNCHANGED posted
       ELSE Goto(c, "closeWait") /\ posted' = posted \cup {<<"close", c>>}
    /\ UNCHANGED <<cluster, conn, io, inflight, late, ref, barrier, gil, logger>>

\* The first close posts its handler; a later one has it called here.
CoreCloses(c) ==
    /\ At(c, "coreClose")
    /\ stopped' = TRUE /\ raced' = (raced \/ stopped)
    /\ IF stopped THEN Goto(c, "callback") /\ UNCHANGED posted
       ELSE Goto(c, "closeWait") /\ posted' = posted \cup {<<"close", c>>}
    /\ UNCHANGED <<cluster, conn, ioStopped, io, inflight, late, ref, barrier, gil, logger>>

CallbackHere_TwoRefs(c) ==
    /\ Runs(c, "callback")
    /\ barrier' = [barrier EXCEPT ![c] = "ok"]
    /\ ioStopped' = TRUE /\ ref' = ref - 2
    /\ Goto(c, "closeWait")
    /\ UNCHANGED <<cluster, conn, stopped, io, posted, inflight, late, raced, gil, logger>>

\* close_connection_callback in the calling thread, which takes the lock for it.
\* A record on the way may give the lock away, with nothing done that others see.
CallbackHere(c) ==
    /\ Runs(c, "callback")
    /\ barrier' = [barrier EXCEPT ![c] = "ok"]
    /\ ioStopped' = TRUE /\ ref' = ref - 1
    /\ Goto(c, "closeWait")
    /\ UNCHANGED <<cluster, conn, stopped, io, posted, inflight, late, raced, gil, logger>>

\* The call returns and gives its argument's reference up.
CloseReturns(c) ==
    /\ Runs(c, "closeWait") /\ barrier[c] = "ok"
    /\ ref' = ref - 1
    /\ IF ref = 1 THEN gil' = c /\ Goto(c, "dealloc")
       ELSE gil' = gil /\ Goto(c, "reset")
    /\ UNCHANGED <<cluster, core, barrier, logger>>

ResetChecks(c) ==
    /\ Runs(c, "reset")
    /\ Goto(c, IF adapter THEN "deleting" ELSE "idle")
    /\ UNCHANGED <<cluster, core, ref, barrier, gil, logger>>

\* `del self._client`, which raises AttributeError if another thread was faster.
Deletes(c) ==
    /\ Runs(c, "deleting")
    /\ Release(c, FALSE, results, "idle")
    /\ UNCHANGED <<api, drains, phase, registered, cycle, core, barrier, logger>>

-----------------------------------------------------------------------------
(* dealloc_conn, with the lock from the beginning to the end.               *)

DeallocCloses(c) ==
    /\ At(c, "dealloc")
    /\ stopped' = TRUE
    /\ IF stopped
       THEN barrier' = [barrier EXCEPT ![c] = "ok"] /\ UNCHANGED posted
       ELSE /\ barrier' = [barrier EXCEPT ![c] = "unset"]
            /\ posted' = posted \cup {<<"dealloc", c>>}
    /\ Goto(c, "deallocWait")
    /\ UNCHANGED <<cluster, conn, ioStopped, io, inflight, late, raced, ref, gil, logger>>

DeallocStops_NoStop(c) ==
    /\ At(c, "deallocWait") /\ barrier[c] = "ok"
    /\ Goto(c, "join")
    /\ UNCHANGED <<cluster, core, ref, barrier, gil, logger>>

DeallocStops(c) ==
    /\ At(c, "deallocWait") /\ barrier[c] = "ok"
    /\ ioStopped' = TRUE
    /\ Goto(c, "join")
    /\ UNCHANGED <<cluster, conn, stopped, io, posted, inflight, late, raced, ref, barrier, gil, logger>>

DeallocJoins_NoJoin(c) ==
    /\ At(c, "join")
    /\ conn' = "freed" /\ gil' = "none"
    /\ Goto(c, "idle")
    /\ UNCHANGED <<cluster, stopped, ioStopped, io, posted, inflight, late, raced, ref, barrier, logger>>

DeallocJoins(c) ==
    /\ At(c, "join") /\ io = Exited
    /\ conn' = "freed" /\ gil' = "none"
    /\ Goto(c, "idle")
    /\ UNCHANGED <<cluster, stopped, ioStopped, io, posted, inflight, late, raced, ref, barrier, logger>>

-----------------------------------------------------------------------------
(* The IO thread.                                                           *)

\* io_.run() takes the next handler.
IoBegins(c) ==
    /\ io = Idle /\ ~ioStopped
    /\ \/ \E h \in posted :
            /\ h[2] = c
            /\ (h[1] # "open" /\ drains) => inflight \subseteq late
            /\ io' = h /\ posted' = posted \ {h} /\ UNCHANGED inflight
       \/ /\ c \in inflight
          /\ io' = <<"answer", c>> /\ inflight' = inflight \ {c} /\ UNCHANGED posted
    /\ UNCHANGED <<cluster, conn, stopped, ioStopped, late, raced, ref, pc, barrier, gil, logger>>

IoLogs ==
    /\ logger = "sink" /\ io = Idle /\ ~ioStopped
    /\ io' = Logs
    /\ UNCHANGED <<cluster, conn, stopped, ioStopped, posted, inflight, late, raced, ref,
                   pc, barrier, gil, logger>>

\* The log sink calls Python's logger and returns.
IoLogged ==
    /\ io = Logs /\ gil = "none"
    /\ io' = Idle
    /\ UNCHANGED <<cluster, conn, stopped, ioStopped, posted, inflight, late, raced, ref,
                   pc, barrier, gil, logger>>

\* create_columnar_response of a query.
IoAnswers(c) ==
    /\ io = <<"answer", c>> /\ gil = "none"
    /\ io' = Idle
    /\ barrier' = IF At(c, "query") THEN [barrier EXCEPT ![c] = "ok"] ELSE barrier
    /\ UNCHANGED <<cluster, conn, stopped, ioStopped, posted, inflight, late, raced, ref, pc, gil, logger>>

IoOpens_Unlocks(c) ==
    /\ io = <<"open", c>> /\ gil = "none"
    /\ io' = <<"decref", c>>
    /\ \E outcome \in {"ok", "error"} : barrier' = [barrier EXCEPT ![c] = outcome]
    /\ UNCHANGED <<cluster, conn, stopped, ioStopped, posted, inflight, late, raced, ref, pc, gil, logger>>

\* create_connection_callback answers the promise and then drops its reference,
\* with the lock over both.
IoOpens(c) ==
    /\ io = <<"open", c>> /\ gil = "none"
    /\ gil' = "io" /\ io' = <<"decref", c>>
    /\ \E outcome \in {"ok", "error"} : barrier' = [barrier EXCEPT ![c] = outcome]
    /\ UNCHANGED <<cluster, conn, stopped, ioStopped, posted, inflight, late, raced, ref, pc, logger>>

IoCloses_NoAnswer(c) ==
    /\ io = <<"close", c>> /\ gil = "none"
    /\ io' = <<"closed", c>>
    /\ gil' = IF logger = "sink" THEN "none" ELSE "io"
    /\ UNCHANGED <<cluster, conn, stopped, ioStopped, posted, inflight, late, raced, ref, pc,
                   barrier, logger>>

\* close_connection_callback answers the promise and logs a record, which gives
\* the lock away if it is Python's logger that handles it ...
IoCloses(c) ==
    /\ io = <<"close", c>> /\ gil = "none"
    /\ io' = <<"closed", c>>
    /\ barrier' = [barrier EXCEPT ![c] = "ok"]
    /\ gil' = IF logger = "sink" THEN "none" ELSE "io"
    /\ UNCHANGED <<cluster, conn, stopped, ioStopped, posted, inflight, late, raced, ref, pc, logger>>

IoStops_NoStop(c) ==
    /\ io = <<"closed", c>> /\ gil \in {"none", "io"}
    /\ gil' = "io" /\ io' = <<"decref", c>>
    /\ UNCHANGED <<cluster, conn, stopped, ioStopped, posted, inflight, late, raced, ref, pc,
                   barrier, logger>>

\* ... and then, with the lock, stops the io_context and drops its reference.
IoStops(c) ==
    /\ io = <<"closed", c>> /\ gil \in {"none", "io"}
    /\ gil' = "io" /\ io' = <<"decref", c>>
    /\ ioStopped' = TRUE
    /\ UNCHANGED <<cluster, conn, stopped, posted, inflight, late, raced, ref, pc, barrier, logger>>

IoDecrefs_Leaks(c) ==
    /\ io = <<"decref", c>>
    /\ io' = Idle /\ gil' = "none"
    /\ UNCHANGED <<cluster, conn, stopped, ioStopped, posted, inflight, late, raced, ref, pc, barrier, logger>>

\* With the last reference dealloc_conn runs here, and the IO thread joins itself.
IoDecrefs(c) ==
    /\ io = <<"decref", c>>
    /\ ref' = ref - 1
    /\ IF ref = 1 THEN io' = <<"selfjoin", c>> /\ UNCHANGED gil
       ELSE io' = Idle /\ gil' = "none"
    /\ UNCHANGED <<cluster, conn, stopped, ioStopped, posted, inflight, late, raced, pc, barrier, logger>>

\* The handler dealloc_conn gave to the core needs no lock.
IoDeallocs(c) ==
    /\ io = <<"dealloc", c>>
    /\ io' = Idle /\ barrier' = [barrier EXCEPT ![c] = "ok"]
    /\ UNCHANGED <<cluster, conn, stopped, ioStopped, posted, inflight, late, raced, ref, pc, gil, logger>>

IoExits ==
    /\ io = Idle /\ ioStopped
    /\ io' = Exited
    /\ UNCHANGED <<cluster, conn, stopped, ioStopped, posted, inflight, late, raced, ref,
                   pc, barrier, gil, logger>>

-----------------------------------------------------------------------------
\* What the application chooses to do, and what follows from it.
Application(c) ==
    \/ Create(c) \/ Query(c) \/ QueryAsyncio(c) \/ DropResult(c)
    \/ LeaveScope(c) \/ Exit(c) \/ CloseChecks(c) \/ ConfigureLogging(c)
Continues(c) ==
    \/ Opened(c) \/ QueryReturns(c)
    \/ CloseCalls(c) \/ CoreCloses(c) \/ CallbackHere(c) \/ CloseReturns(c)
    \/ ResetChecks(c) \/ Deletes(c)
    \/ DeallocCloses(c) \/ DeallocStops(c) \/ DeallocJoins(c)
Callback(c) ==
    \/ IoAnswers(c) \/ IoOpens(c) \/ IoCloses(c) \/ IoStops(c)
    \/ IoDecrefs(c) \/ IoDeallocs(c)

Next ==
    \/ \E c \in Callers : Application(c) \/ Continues(c) \/ IoBegins(c) \/ Callback(c)
    \/ IoLogs \/ IoLogged \/ IoExits

Spec == Init /\ [][Next]_vars

\* The interpreter lets every runnable thread continue, and the IO thread runs
\* its handlers; a log record may come before each of them.  What the
\* application does next is its own affair.
Fairness ==
    /\ \A c \in Callers : WF_vars(Continues(c)) /\ WF_vars(Callback(c)) /\ SF_vars(IoBegins(c))
    /\ WF_vars(IoLogged) /\ WF_vars(IoExits)

FairSpec == Spec /\ Fairness

-----------------------------------------------------------------------------
Places == {"idle", "opening", "query", "closing", "coreClose", "callback",
           "closeWait", "reset", "deleting", "dealloc", "deallocWait", "join"}

\* Every variable has its type.
TypeOK ==
    /\ api \in {"blocking", "asyncio"} /\ drains \in BOOLEAN
    /\ phase \in {"new", "opening", "held", "dropped", "failed"}
    /\ registered \in BOOLEAN /\ adapter \in BOOLEAN
    /\ client \in {"none", "unconnected", "connected"}
    /\ results \subseteq Callers /\ cycle \in BOOLEAN
    /\ conn \in {"none", "alive", "freed"} /\ ref \in Nat
    /\ stopped \in BOOLEAN /\ ioStopped \in BOOLEAN /\ raced \in BOOLEAN
    /\ io \in {Idle, Exited, Logs} \cup (Handlers \X Callers)
    /\ posted \subseteq ({"open", "close", "dealloc"} \X Callers)
    /\ inflight \subseteq Callers /\ late \subseteq Callers
    /\ pc \in [Callers -> Places]
    /\ barrier \in [Callers -> {"unset", "ok", "error"}]
    /\ gil \in Callers \cup {"none", "io"}
    /\ logger \in {"none", "console", "sink", "silent"}

IsClosing(c) == pc[c] \in {"coreClose", "callback", "closeWait"}
Closing == {c \in Callers : IsClosing(c)}
OwnsCallbackRef(c) ==
    \/ pc[c] \in {"coreClose", "callback"}
    \/ <<"open", c>> \in posted \/ <<"close", c>> \in posted
    \/ io \in {<<"open", c>>, <<"close", c>>, <<"closed", c>>, <<"decref", c>>}
HasCallbackRef == {c \in Callers : OwnsCallbackRef(c)}

\* The reference count is the number of owners: the client, the argument of each
\* running close(), each callback that has not run to its end, and the one that
\* create_connection returns, which nobody owns once the connection has failed.
RefsAccounted ==
    ref = (IF client = "connected" THEN 1 ELSE 0)
          + Cardinality(Closing) + Cardinality(HasCallbackRef)
          + (IF phase \in {"opening", "failed"} THEN 1 ELSE 0)

\* The IO thread runs dealloc_conn, in which it waits for itself.
SelfJoin == io[1] = "selfjoin"

\* The IO thread drops the last reference in one way only: in the callback of a
\* close(), after a record for Python's logger let the caller go on before it.
\* Any other callback keeps the lock from the answer to its reference, and whom
\* it answers owns one.
OnlyLoggedCloseJoinsItself == SelfJoin => logger = "sink" /\ stopped /\ ioStopped

\* After the struct is freed nobody can reach it: no client, no running close,
\* no handler, no IO thread, and no query in flight.
NoUseAfterFree ==
    conn = "freed" =>
        /\ ref = 0 /\ client # "connected" /\ Closing = {}
        /\ posted \cap ({"close", "open"} \X Callers) = {}
        /\ inflight = {}
        /\ io = Exited

\* dealloc_conn waits with the lock while the IO thread waits for the lock.
GilHang == gil \in Callers /\ io[1] \in {"log", "answer", "open", "close", "closed"}
\* A second close() stopped the io_context before the first one's handler ran.
CloseHang == \E c \in Callers : At(c, "closeWait") /\ barrier[c] = "unset" /\ ioStopped
\* A query waits for an answer that the io_context will not deliver any more.
QueryHangs(c) == At(c, "query") /\ barrier[c] = "unset" /\ ioStopped
Hangs == GilHang \/ SelfJoin \/ CloseHang \/ \E c \in Callers : QueryHangs(c)

\* Only a log record can make the IO thread hang with dealloc_conn: answers and
\* callbacks that need the lock own a reference, so that none is on its way when
\* the connection is deallocated.
OnlyLoggingHangsDealloc == GilHang => io[1] = "log" /\ logger = "sink"

\* A close() that waits for ever has been overtaken by another thread's close().
OnlyRacedCloseHangs == CloseHang => raced

\* A query waits for ever only if two closes race, the core drops what is in
\* flight, or the query was sent to a core that had been closed.
OnlyDroppedQueriesHang ==
    \A c \in Callers :
        QueryHangs(c) => raced \/ ~drains \/ c \in late \/ io = <<"answer", c>>

\* When close() is over, and whichever thread's close() it was, the io_context has
\* been stopped, so that a closed cluster leaves no thread behind; or the callback
\* is about to stop it that a record for Python's logger has held up.
ClosedIsStopped ==
    phase = "held" /\ ~adapter =>
        stopped /\ (ioStopped \/ (logger = "sink" /\ io[1] = "closed"))

\* Every call returns, but for the hangs above.
CallsReturn == \A c \in Callers : ~At(c, "idle") ~> (At(c, "idle") \/ Hangs)

\* A connection to which nothing in Python refers any more is freed, unless the
\* thread that should do it is stuck.
UnreferencedIsFreed ==
    (phase = "dropped" /\ client = "none") ~> (conn = "freed" \/ GilHang \/ SelfJoin)

\* What the docstring of close() promises: "Cluster resources should be cleaned
\* up once the cluster instance falls out of scope."
OutOfScopeIsFreed ==
    (phase = "dropped" /\ results = {}) ~> (conn = "freed" \/ GilHang \/ SelfJoin)

\* And what it says of close() itself: "Shuts down this cluster instance.
\* Cleaning up all resources associated with it."
CloseCleansUp ==
    (phase = "held" /\ ~adapter /\ client = "none") ~> (conn = "freed" \/ GilHang)
-----------------------------------------------------------------------------
(* The inductive invariant behind the safety properties, by subject.        *)

Pending(handler, c) == <<handler, c>> \in posted \/ io = <<handler, c>>
ClosePlaces == {"closing", "coreClose", "callback", "closeWait", "reset", "deleting"}
DeallocPlaces == {"dealloc", "deallocWait", "join"}

\* The callback of a close() may have let the lock go for its record.
Interrupted == logger = "sink" /\ io[1] = "closed"

\* Whoever deallocates has the lock, and so has a callback between its answer
\* and its reference, unless it logs; the lock is kept for nothing else.
LockInv ==
    /\ \A c \in Callers : gil = c <=> pc[c] \in DeallocPlaces
    /\ gil = "io" <=> io[1] \in {"closed", "decref", "selfjoin"} /\ ~Interrupted
    /\ gil \in Callers \/ SelfJoin => ref = 0

\* A handler on its way belongs to a caller who waits for it, and the caller
\* of a callback that still has its reference has not moved on, or not to another
\* close(), which it could not begin without the adapter's client.
HandlerInv ==
    /\ io \notin posted
    /\ \A c \in Callers :
        /\ Pending("open", c) => At(c, "opening") /\ barrier[c] = "unset"
        /\ Pending("close", c) => At(c, "closeWait") /\ barrier[c] = "unset"
        /\ Pending("dealloc", c) => At(c, "deallocWait") /\ barrier[c] = "unset"
        /\ io \in {<<"closed", c>>, <<"decref", c>>} =>
            \/ pc[c] \in {"opening", "closeWait"} /\ barrier[c] # "unset"
            \/ /\ logger = "sink" /\ stopped
               /\ pc[c] \in {"reset", "deleting"} \/ (At(c, "idle") /\ ~adapter)
        /\ At(c, "coreClose") => barrier[c] = "unset"
        /\ At(c, "closeWait") /\ barrier[c] = "unset" => Pending("close", c)

\* A query in flight has a caller that waits for it, or an executor that is
\* never freed; either refers to the client.
QueryInv ==
    \A c \in Callers :
        /\ c \in inflight \/ io = <<"answer", c>> =>
            \/ cycle
            \/ At(c, "query") /\ barrier[c] = "unset"
                /\ ~(c \in inflight /\ io = <<"answer", c>>)
        /\ At(c, "query") => c \in results
        /\ At(c, "query") /\ barrier[c] = "unset" => c \in inflight \/ io = <<"answer", c>>

\* Who owns what, in each phase of the Cluster object.
PhaseInv ==
    /\ phase = "new" =>
        /\ conn = "none" /\ ref = 0 /\ io = Exited /\ posted = {} /\ inflight = {}
        /\ ~stopped /\ ~ioStopped /\ ~raced
        /\ \A c \in Callers : At(c, "idle") /\ barrier[c] = "unset"
    /\ phase # "new" => conn # "none"
    /\ phase = "opening" <=> client = "unconnected"
    /\ client = "none" => ~adapter /\ results = {} /\ ~cycle
    /\ client = "connected" => phase \in {"held", "dropped"}
    /\ registered => phase \in {"held", "dropped"}
    /\ client = "unconnected" => adapter /\ results = {} /\ ~cycle
    /\ \A c \in Callers :
        /\ At(c, "opening") => phase = "opening"
        /\ pc[c] \in ClosePlaces \cup {"query"} => phase = "held"
    /\ \A c \in Callers, d \in Callers : At(c, "opening") /\ At(d, "opening") => c = d

\* What has stopped by when.
StopInv ==
    /\ ioStopped => stopped
    /\ raced => stopped
    /\ io[1] = "closed" => stopped
    /\ \A c \in Callers :
        /\ pc[c] \in {"callback", "closeWait", "deallocWait"} => stopped
        /\ At(c, "opening") => ~stopped
        /\ At(c, "callback") => raced
        /\ At(c, "closeWait") /\ barrier[c] # "unset" => ioStopped \/ io[1] = "closed"
        /\ pc[c] \in {"reset", "deleting"} => ioStopped \/ Interrupted
        /\ At(c, "join") => ioStopped
        /\ io = <<"decref", c>> => At(c, "opening") \/ ioStopped
    /\ \A c \in Callers, d \in Callers :
        /\ Pending("close", c) /\ Pending("close", d) /\ c # d => raced
        /\ Pending("close", c) /\ io = <<"closed", d>> => raced

\* A core that was asked to close is about to stop the io_context.
StoppingInv ==
    stopped /\ ~ioStopped =>
        \E c \in Callers : Pending("close", c) \/ io = <<"closed", c>> \/ At(c, "deallocWait")

\* Before the io_context stops, the core's drain has answered the queries that
\* were sent in time.
DrainInv ==
    drains /\ ~raced /\ ~(inflight \subseteq late) =>
        /\ ~ioStopped
        /\ io[1] \notin {"close", "closed", "dealloc"}
        /\ \A c \in Callers : At(c, "deallocWait") => barrier[c] # "ok"

FreedInv == conn = "freed" => ref = 0 /\ io = Exited /\ ioStopped

LogInv == io = Logs => logger = "sink"

IInv ==
    /\ TypeOK /\ RefsAccounted /\ OnlyLoggedCloseJoinsItself
    /\ LockInv /\ HandlerInv /\ QueryInv /\ PhaseInv /\ StopInv /\ StoppingInv
    /\ DrainInv /\ FreedInv /\ LogInv /\ OnlyRacedCloseHangs /\ ClosedIsStopped
=============================================================================
