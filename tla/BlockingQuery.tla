--------------------------- MODULE BlockingQuery ---------------------------
(***************************************************************************)
(* One query of the blocking API, from Cluster.execute_query to the last   *)
(* call on its BlockingQueryResult:                                        *)
(*                                                                         *)
(*  - the application's thread, which executes the query in one of three   *)
(*    modes and then iterates, cancels and asks for metadata;              *)
(*  - in the background mode the pool's thread that runs                   *)
(*    submit_query_in_background, and the one that runs                    *)
(*    _get_core_query_result for it;                                       *)
(*  - other threads of the application, which may cancel the result or     *)
(*    set the CancelToken at any moment;                                   *)
(*  - the C++ iterator (src/result.cxx) and the core's IO thread, which    *)
(*    answers the query and each request for a row (external).             *)
(*                                                                         *)
(* A step is what a thread does while it holds the GIL without giving      *)
(* another thread a chance to interfere.  The pool is given two free       *)
(* workers here; BackgroundPool models the pool itself.                    *)
(***************************************************************************)
EXTENDS Naturals

CONSTANTS
  Modes,       (* ways of executing the query that are considered          *)
  Cancellers,  (* threads, other than the iterating one, that call         *)
               (* BlockingQueryResult.cancel()                             *)
  MaxRows      (* the longest answer of the server; bounds the model       *)

ASSUME BlockingQueryAssumption ==
  /\ Modes \subseteq {"eager", "lazy", "background"}
  /\ MaxRows \in Nat

VARIABLES
  mode,        (* eager, lazy_execute=True, or with a cancel_token         *)
  nrows,       (* the number of rows the server has for the query          *)
  (* -- _QueryStreamingExecutor                                            *)
  state,       (* _streaming_state                                         *)
  iterSet,     (* the attribute _query_iter exists                         *)
  metadata,    (* _metadata is not None                                    *)
  token,       (* the event of the CancelToken is set                      *)
  (* -- columnar_query_iterator                                            *)
  queryResult, (* query_result_ is not null                                *)
  barrier,     (* the value of the promise barrier_                        *)
  (* -- the core                                                           *)
  runs,        (* calls of columnar_query_op, counted                      *)
  op,          (* the pending operation of the query                       *)
  stream,      (* the stream of rows behind query_result_                  *)
  sent,        (* rows the stream has produced                             *)
  reply,       (* answer to the outstanding next_row()                     *)
  (* -- futures                                                            *)
  coreFt,      (* _query_res_ft                                            *)
  resultFt,    (* the Future that execute_query returned                   *)
  (* -- threads                                                            *)
  app,         (* where the application's thread is                        *)
  ret,         (* its current or last call and how that call ended         *)
  iterating,   (* iter() has returned an iterator to it                    *)
  handed,      (* rows it received                                         *)
  dropped,     (* rows whose deserializer raised                           *)
  worker,      (* where the thread of submit_query_in_background is        *)
  canceller,   (* where each of the other threads is                       *)
  cancelled    (* some call of cancel() has returned                       *)

executor == <<state, iterSet, metadata>>
iterator == <<queryResult, barrier>>
core     == <<runs, op, stream, sent, reply>>
futures  == <<coreFt, resultFt>>
caller   == <<app, ret, iterating, handed, dropped>>
vars     == <<mode, nrows, executor, token, iterator, core, futures, caller,
              worker, canceller, cancelled>>

(***************************************************************************)
(* Values.                                                                 *)
(***************************************************************************)
StreamingState == {"NotStarted", "Started", "Cancelled", "Completed"}
Answers == {"ok", "error", "canceled"}
Calls   == {"none", "execute", "iter", "next", "metadata", "cancel"}
Outcomes ==
  {"pending", "ok", "row", "stop", "metadata",    (* the call returned       *)
   "error", "canceled",                           (* ColumnarError,          *)
                                                  (* QueryOperationCanceled- *)
                                                  (* Error                   *)
   "InternalSDKError", "RuntimeError", "AttributeError",
   "undefined"}                                   (* a null pointer was      *)
                                                  (* dereferenced            *)
(* The application's thread holds a BlockingQueryResult at these places.   *)
AtResult == {"idle", "guarded", "rowWait", "cancelling"}
HasResult ==
  \/ app \in AtResult
  \/ mode = "lazy" /\ app \in {"submit", "barrier"}

Returned(call, out) == ret' = [call |-> call, out |-> out]

TypeOK ==
  /\ mode \in Modes
  /\ nrows \in 0 .. MaxRows
  /\ state \in StreamingState
  /\ iterSet \in BOOLEAN /\ metadata \in BOOLEAN /\ token \in BOOLEAN
  /\ queryResult \in BOOLEAN
  /\ barrier \in Answers \cup {"empty"}
  /\ runs \in Nat
  /\ op \in Answers \cup {"none", "pending", "rejected", "done"}
  /\ stream \in {"none", "open", "ended", "failed", "cancelled"}
  /\ sent \in Nat
  /\ reply \in {"none", "row", "end", "error", "canceled"}
  /\ coreFt \in Answers \cup {"none", "queued", "pending"}
  /\ resultFt \in {"pending", "result", "error"}
  /\ app \in AtResult \cup {"start", "submit", "barrier", "waitFuture",
                            "noResult", "crashed"}
  /\ ret \in [call : Calls, out : Outcomes]
  /\ iterating \in BOOLEAN
  /\ handed \in Nat /\ dropped \in Nat
  /\ worker \in {"none", "new", "submit", "poll", "tokenWait",
                 "cancelling", "collect", "done"}
  /\ canceller \in [Cancellers -> {"idle", "cancelling"}]
  /\ cancelled \in BOOLEAN

Init ==
  /\ mode \in Modes
  /\ nrows \in 0 .. MaxRows
  /\ state = "NotStarted"
  /\ iterSet = FALSE /\ metadata = FALSE /\ token = FALSE
  /\ queryResult = FALSE /\ barrier = "empty" /\ runs = 0
  /\ op = "none" /\ stream = "none" /\ sent = 0 /\ reply = "none"
  /\ coreFt = "none" /\ resultFt = "pending"
  /\ app = "start" /\ ret = [call |-> "none", out |-> "ok"]
  /\ iterating = FALSE /\ handed = 0 /\ dropped = 0
  /\ worker = "none"
  /\ canceller = [c \in Cancellers |-> "idle"]
  /\ cancelled = FALSE
-----------------------------------------------------------------------------
(***************************************************************************)
(* The guards of the streaming state.                                      *)
(***************************************************************************)
OkayToStream_AnyTime == state # "Completed"
OkayToStream == state = "NotStarted"

OkayToIterate_AnyTime == state # "Completed"
OkayToIterate == state = "Started"

(* What the core answers is raised if it is an exception object, and a     *)
(* None instead of a row ends the iteration.                               *)
IsCoreError_Never(answer) == FALSE
IsCoreError(answer) == answer \in {"error", "canceled"}

IsEndOfRows_Loose(answer) == answer # "row"
IsEndOfRows(answer) == answer = "end"

(***************************************************************************)
(* Submission: the state becomes Started before the binding is called, the *)
(* binding releases the GIL while the core starts the query, and only its  *)
(* return sets _query_iter.  A rejected query (unusable options, a closed  *)
(* connection, an error of the core) leaves the state Started.             *)
(***************************************************************************)
OpenQuery ==
  /\ state' = "Started"
  /\ runs' = runs + 1
  /\ op' \in {"pending", "rejected"}
  /\ UNCHANGED <<iterSet, metadata, stream, sent, reply>>

ExecuteQuery ==
  /\ app = "start"
  /\ \/ /\ mode = "eager" /\ OkayToStream
        /\ OpenQuery
        /\ app' = "submit" /\ Returned("execute", "pending")
        /\ UNCHANGED worker
     \/ /\ mode = "lazy"
        /\ app' = "idle" /\ Returned("execute", "ok")
        /\ UNCHANGED <<executor, core, worker>>
     \/ /\ mode = "background"
        /\ app' = "waitFuture" /\ Returned("execute", "pending")
        /\ worker' = "new"
        /\ UNCHANGED <<executor, core>>
  /\ UNCHANGED <<mode, nrows, token, iterator, futures, iterating, handed,
                 dropped, canceller, cancelled>>

(* iter(result), or iter(result.rows()): a lazy query is submitted by it,  *)
(* and by it only.                                                         *)
Iter ==
  /\ app = "idle"
  /\ \/ /\ mode # "lazy"
        /\ iterating' = TRUE /\ Returned("iter", "ok")
        /\ UNCHANGED <<executor, core, app>>
     \/ /\ mode = "lazy" /\ ~OkayToStream
        /\ Returned("iter", "RuntimeError")
        /\ UNCHANGED <<executor, core, app, iterating>>
     \/ /\ mode = "lazy" /\ OkayToStream
        /\ OpenQuery
        /\ app' = "submit" /\ Returned("iter", "pending")
        /\ UNCHANGED iterating
  /\ UNCHANGED <<mode, nrows, token, iterator, futures, handed, dropped,
                 worker, canceller, cancelled>>

(* Where an error raised by submit_query leaves the application: only      *)
(* execute_query has no result to return.                                  *)
Raised(out) ==
  /\ app' = IF mode = "lazy" THEN "idle" ELSE "noResult"
  /\ Returned(ret.call, out)

SubmitReturns ==
  /\ app = "submit"
  /\ \/ /\ op = "rejected"
        /\ Raised("error")
        /\ UNCHANGED iterSet
     \/ /\ op # "rejected"
        /\ iterSet' = TRUE
        /\ app' = "barrier"
        /\ UNCHANGED ret
  /\ UNCHANGED <<mode, nrows, state, metadata, token, iterator, core, futures,
                 iterating, handed, dropped, worker, canceller, cancelled>>

(* wait_for_core_query_result() of submit_query returns.                   *)
QueryAnswered ==
  /\ app = "barrier" /\ barrier # "empty"
  /\ \/ /\ IsCoreError(barrier)
        /\ Raised(barrier)
        /\ UNCHANGED iterating
     \/ /\ ~IsCoreError(barrier)
        /\ app' = "idle"
        /\ iterating' = (mode = "lazy")
        /\ Returned(ret.call, "ok")
  /\ UNCHANGED <<mode, nrows, executor, token, iterator, core, futures,
                 handed, dropped, worker, canceller, cancelled>>

(* ft.result() of the Future that execute_query returned.                  *)
FutureResult ==
  /\ app = "waitFuture" /\ resultFt # "pending"
  /\ app' = IF resultFt = "result" THEN "idle" ELSE "noResult"
  /\ Returned("execute", IF resultFt = "result" THEN "ok" ELSE "error")
  /\ UNCHANGED <<mode, nrows, executor, token, iterator, core, futures,
                 iterating, handed, dropped, worker, canceller, cancelled>>
-----------------------------------------------------------------------------
(***************************************************************************)
(* cancel(): the core first, then the token and the state.  Before         *)
(* query_result_ is there, the pending operation is what can be cancelled, *)
(* and that has no effect once the core has an answer for it.              *)
(***************************************************************************)
CancelCore_StreamOnly ==
  /\ stream' = IF queryResult /\ stream = "open" THEN "cancelled" ELSE stream
  /\ UNCHANGED <<runs, op, sent, reply>>

CancelCore ==
  /\ op' = IF ~queryResult /\ op = "pending" THEN "canceled" ELSE op
  /\ stream' = IF queryResult /\ stream = "open" THEN "cancelled" ELSE stream
  /\ UNCHANGED <<runs, sent, reply>>

MarkCancelled_TokenOnly ==
  /\ token' = (token \/ mode = "background")
  /\ cancelled' = TRUE
  /\ UNCHANGED executor

MarkCancelled ==
  /\ token' = (token \/ mode = "background")
  /\ state' = "Cancelled"
  /\ cancelled' = TRUE
  /\ UNCHANGED <<iterSet, metadata>>

(* result.cancel() by the iterating thread: without a _query_iter the      *)
(* attribute access itself fails.                                          *)
Cancel ==
  /\ app = "idle"
  /\ \/ /\ ~iterSet
        /\ Returned("cancel", "AttributeError")
        /\ UNCHANGED <<core, app>>
     \/ /\ iterSet
        /\ CancelCore
        /\ app' = "cancelling" /\ Returned("cancel", "pending")
  /\ UNCHANGED <<mode, nrows, executor, token, iterator, futures, iterating,
                 handed, dropped, worker, canceller, cancelled>>

(* The second half of cancel(), called by the application or by next().    *)
CancelReturns ==
  /\ app = "cancelling"
  /\ MarkCancelled
  /\ app' = "idle"
  /\ Returned(ret.call, IF ret.call = "next" THEN "stop" ELSE "ok")
  /\ UNCHANGED <<mode, nrows, iterator, core, futures, iterating, handed,
                 dropped, worker, canceller>>

(* result.cancel() by another thread (where it would raise, it changes     *)
(* nothing), and CancelToken.cancel() by any thread.                       *)
CancelElsewhere(c) ==
  /\ HasResult /\ iterSet
  /\ canceller[c] = "idle"
  /\ CancelCore
  /\ canceller' = [canceller EXCEPT ![c] = "cancelling"]
  /\ UNCHANGED <<mode, nrows, executor, token, iterator, futures, caller,
                 worker, cancelled>>

CancelElsewhereReturns(c) ==
  /\ canceller[c] = "cancelling"
  /\ MarkCancelled
  /\ canceller' = [canceller EXCEPT ![c] = "idle"]
  /\ UNCHANGED <<mode, nrows, iterator, core, futures, caller, worker>>

CancelToken ==
  /\ mode = "background" /\ app # "start" /\ ~token
  /\ token' = TRUE
  /\ UNCHANGED <<mode, nrows, executor, iterator, core, futures, caller,
                 worker, canceller, cancelled>>
-----------------------------------------------------------------------------
(***************************************************************************)
(* next(): the guards of get_next_row, the request to the core (the GIL    *)
(* may be handed over between the two), and the row.                       *)
(***************************************************************************)
NextRow ==
  /\ app = "idle" /\ iterating
  /\ \/ /\ ~OkayToIterate
        /\ Returned("next", "stop")
        /\ UNCHANGED <<core, app>>
     \/ /\ OkayToIterate /\ token
        /\ CancelCore
        /\ app' = "cancelling" /\ Returned("next", "pending")
     \/ /\ OkayToIterate /\ ~token
        /\ app' = "guarded" /\ Returned("next", "pending")
        /\ UNCHANGED core
  /\ UNCHANGED <<mode, nrows, executor, token, iterator, futures, iterating,
                 handed, dropped, worker, canceller, cancelled>>

(* columnar_query_iterator_iternext: query_result_ is dereferenced without *)
(* a test.                                                                 *)
AskCore ==
  /\ app = "guarded"
  /\ app' = IF queryResult THEN "rowWait" ELSE "crashed"
  /\ Returned("next", IF queryResult THEN "pending" ELSE "undefined")
  /\ UNCHANGED <<mode, nrows, executor, token, iterator, core, futures,
                 iterating, handed, dropped, worker, canceller, cancelled>>

(* The answer comes back to get_next_row, and through the iterator's       *)
(* __next__, which wraps what is not a ColumnarError.  A row's             *)
(* deserializer may raise.                                                 *)
RowReturns ==
  /\ app = "rowWait" /\ reply # "none"
  /\ app' = "idle" /\ reply' = "none"
  /\ \/ /\ reply = "row"
        /\ \/ handed' = handed + 1 /\ Returned("next", "row")
              /\ UNCHANGED dropped
           \/ dropped' = dropped + 1 /\ Returned("next", "InternalSDKError")
              /\ UNCHANGED handed
        /\ UNCHANGED state
     \/ /\ IsEndOfRows(reply)
        /\ state' = "Completed" /\ Returned("next", "stop")
        /\ UNCHANGED <<handed, dropped>>
     \/ /\ IsCoreError(reply)
        /\ Returned("next", IF reply = "error" THEN "error"
                                               ELSE "InternalSDKError")
        /\ UNCHANGED <<state, handed, dropped>>
  /\ UNCHANGED <<mode, nrows, iterSet, metadata, token, iterator, runs, op,
                 stream, sent, futures, iterating, worker, canceller,
                 cancelled>>
-----------------------------------------------------------------------------
(* result.metadata(): cached, or asked of the core through query_result_,  *)
(* which has it once the stream has ended.                                 *)
Metadata ==
  /\ app = "idle"
  /\ \/ /\ metadata
        /\ Returned("metadata", "metadata")
        /\ UNCHANGED <<metadata, app>>
     \/ /\ ~metadata /\ ~iterSet
        /\ Returned("metadata", "AttributeError")
        /\ UNCHANGED <<metadata, app>>
     \/ /\ ~metadata /\ iterSet /\ ~queryResult
        /\ app' = "crashed" /\ Returned("metadata", "undefined")
        /\ UNCHANGED metadata
     \/ /\ ~metadata /\ iterSet /\ queryResult
        /\ metadata' = (stream = "ended")
        /\ Returned("metadata", IF metadata' THEN "metadata"
                                             ELSE "RuntimeError")
        /\ UNCHANGED app
  /\ UNCHANGED <<mode, nrows, state, iterSet, token, iterator, core, futures,
                 iterating, handed, dropped, worker, canceller, cancelled>>
-----------------------------------------------------------------------------
(***************************************************************************)
(* The background: the pool's thread of submit_query_in_background, which  *)
(* polls the token while a second thread of the pool waits for the core.   *)
(***************************************************************************)
WorkerSubmits ==
  /\ worker = "new" /\ OkayToStream
  /\ OpenQuery
  /\ worker' = "submit"
  /\ UNCHANGED <<mode, nrows, token, iterator, futures, caller, canceller,
                 cancelled>>

WorkerSubmitReturns ==
  /\ worker = "submit"
  /\ \/ /\ op = "rejected"
        /\ resultFt' = "error" /\ worker' = "done"
        /\ UNCHANGED <<iterSet, coreFt>>
     \/ /\ op # "rejected"
        /\ iterSet' = TRUE
        /\ coreFt' = "queued" /\ worker' = "poll"
        /\ UNCHANGED resultFt
  /\ UNCHANGED <<mode, nrows, state, metadata, token, iterator, core, caller,
                 canceller, cancelled>>

CoreFtDone_IfOk == coreFt = "ok"
CoreFtDone == coreFt \in Answers

(* The condition of the while loop, then the wait for the token.           *)
WorkerPolls ==
  /\ worker = "poll"
  /\ worker' = IF CoreFtDone \/ state = "Cancelled" THEN "collect"
                                                   ELSE "tokenWait"
  /\ UNCHANGED <<mode, nrows, executor, token, iterator, core, futures, caller,
                 canceller, cancelled>>

TokenWaitEnds ==
  /\ worker = "tokenWait"
  /\ \/ /\ token
        /\ CancelCore
        /\ worker' = "cancelling"
     \/ /\ ~token
        /\ worker' = "poll"
        /\ UNCHANGED core
  /\ UNCHANGED <<mode, nrows, executor, token, iterator, futures, caller,
                 canceller, cancelled>>

WorkerCancelReturns ==
  /\ worker = "cancelling"
  /\ MarkCancelled
  /\ worker' = "poll"
  /\ UNCHANGED <<mode, nrows, iterator, core, futures, caller, canceller>>

(* QueryOperationCanceledError is swallowed: the Future then has a result. *)
WorkerCollects ==
  /\ worker = "collect" /\ CoreFtDone
  /\ worker' = "done"
  /\ resultFt' = IF coreFt = "error" THEN "error" ELSE "result"
  /\ UNCHANGED <<mode, nrows, executor, token, iterator, core, coreFt, caller,
                 canceller, cancelled>>

(* _get_core_query_result on the pool's second thread.                     *)
CoreWaitBegins ==
  /\ coreFt = "queued"
  /\ coreFt' = "pending"
  /\ UNCHANGED <<mode, nrows, executor, token, iterator, core, resultFt,
                 caller, worker, canceller, cancelled>>

CoreWaitEnds_Early ==
  /\ coreFt = "pending"
  /\ coreFt' = barrier
  /\ UNCHANGED <<mode, nrows, executor, token, iterator, core, resultFt,
                 caller, worker, canceller, cancelled>>

CoreWaitEnds ==
  /\ coreFt = "pending" /\ barrier # "empty"
  /\ coreFt' = barrier
  /\ UNCHANGED <<mode, nrows, executor, token, iterator, core, resultFt,
                 caller, worker, canceller, cancelled>>
-----------------------------------------------------------------------------
(***************************************************************************)
(* The core and its IO thread.  CoreAnswers and CoreSendsRow are the       *)
(* server's (or a timeout's) doing; QueryCallback runs as soon as the IO   *)
(* thread has the GIL.  A request for a row of a stream that was cancelled *)
(* is answered with the core's canceled error.                             *)
(***************************************************************************)
CoreAnswers ==
  /\ op = "pending"
  /\ op' \in {"ok", "error"}
  /\ UNCHANGED <<mode, nrows, executor, token, iterator, runs, stream, sent,
                 reply, futures, caller, worker, canceller, cancelled>>

(* create_columnar_response *)
QueryCallback ==
  /\ op \in Answers
  /\ op' = "done"
  /\ barrier' = op
  /\ queryResult' = (op = "ok")
  /\ stream' = IF op = "ok" THEN "open" ELSE "none"
  /\ UNCHANGED <<mode, nrows, executor, token, runs, sent, reply, futures,
                 caller, worker, canceller, cancelled>>

(* get_next_row of result.cxx, called by the stream *)
CoreSendsRow ==
  /\ app = "rowWait" /\ reply = "none" /\ stream = "open"
  /\ \/ /\ sent < nrows
        /\ sent' = sent + 1 /\ reply' = "row"
        /\ UNCHANGED stream
     \/ /\ sent = nrows
        /\ stream' = "ended" /\ reply' = "end"
        /\ UNCHANGED sent
     \/ /\ stream' = "failed" /\ reply' = "error"
        /\ UNCHANGED sent
  /\ UNCHANGED <<mode, nrows, executor, token, iterator, runs, op, futures,
                 caller, worker, canceller, cancelled>>

CoreRefusesRow ==
  /\ app = "rowWait" /\ reply = "none" /\ stream \in {"failed", "cancelled"}
  /\ reply' = IF stream = "failed" THEN "error" ELSE "canceled"
  /\ UNCHANGED <<mode, nrows, executor, token, iterator, runs, op, stream, sent,
                 futures, caller, worker, canceller, cancelled>>
-----------------------------------------------------------------------------
AppCalls   == ExecuteQuery \/ Iter \/ NextRow \/ Cancel \/ Metadata
AppReturns == SubmitReturns \/ QueryAnswered \/ FutureResult \/ AskCore
                \/ RowReturns \/ CancelReturns
Worker     == WorkerSubmits \/ WorkerSubmitReturns \/ WorkerPolls
                \/ TokenWaitEnds \/ WorkerCancelReturns \/ WorkerCollects
CoreWait   == CoreWaitBegins \/ CoreWaitEnds
Server     == CoreAnswers \/ CoreSendsRow

(* Once a null pointer was dereferenced the application's thread takes no  *)
(* further step; nothing is said of the process from then on.              *)
Next ==
  \/ AppCalls
  \/ AppReturns
  \/ CancelToken
  \/ \E c \in Cancellers : CancelElsewhere(c) \/ CancelElsewhereReturns(c)
  \/ Worker
  \/ CoreWait
  \/ QueryCallback
  \/ CoreRefusesRow
  \/ Server

Spec == Init /\ [][Next]_vars

(***************************************************************************)
(* Fairness: the threads of the client run, and so does the IO thread.     *)
(* Which calls the application makes is its own business.  That the server *)
(* answers (or the core's timeout does) is a separate assumption, made by  *)
(* the properties that need it.                                            *)
(***************************************************************************)
FairSpec ==
  /\ Spec
  /\ WF_vars(AppReturns)
  /\ WF_vars(Worker)
  /\ WF_vars(CoreWait)
  /\ WF_vars(QueryCallback)
  /\ WF_vars(CoreRefusesRow)
  /\ \A c \in Cancellers : WF_vars(CancelElsewhereReturns(c))

ServerAnswers == WF_vars(Server)
-----------------------------------------------------------------------------
(***************************************************************************)
(* Safety.                                                                 *)
(***************************************************************************)

(* next() never reaches for rows of a query that was never answered with   *)
(* any: whichever mode the query was executed in, however it was cancelled *)
(* or failed, the iterator behind a query that iteration is allowed on has *)
(* its query_result_ (the pointer iternext dereferences).                  *)
LiveIteration == app = "guarded" => queryResult

(* A Future that resolves without an exception hides no failed query: the  *)
(* application can read the rows, or the query shows as Cancelled, however *)
(* the token, the core's answer and the poll loop interleave.              *)
FutureIsUsable == resultFt = "result" => queryResult \/ state = "Cancelled"

(* Completed is never claimed early: by then each row of the answer was    *)
(* handed to the application or reported to it as undecodable.  The same   *)
(* holds once metadata has been given out.                                 *)
NoRowLost ==
  state = "Completed" \/ metadata => handed + dropped = nrows

(* One execute_query sends the query to the server at most once, however   *)
(* often a lazy result is iterated and whatever went wrong the first time. *)
ExecutedOnce == runs <= 1

(* Once a call of cancel() has returned, in whichever thread, no next()    *)
(* that begins afterwards asks the core for a row.                         *)
CancelSticks ==
  [][cancelled /\ app = "idle" => app' # "guarded"]_vars

(* The query promises what QueryStream says.                               *)
QS == INSTANCE QueryStream WITH
        status   <- state,
        total    <- nrows,
        handed   <- handed + dropped,
        asked    <- app \in {"guarded", "rowWait"},
        metadata <- metadata

ImplementsQueryStream == QS!Spec
-----------------------------------------------------------------------------
(***************************************************************************)
(* The inductive invariant behind the safety properties, by subject.       *)
(***************************************************************************)

(* A query is submitted only while NotStarted, and that state is left for  *)
(* good by the submission.                                                 *)
SubmissionInv ==
  /\ runs <= 1
  /\ state = "NotStarted" => runs = 0 /\ op = "none" /\ ~iterSet
  /\ app = "start" => state = "NotStarted" /\ worker = "none"
  /\ app \in {"submit", "barrier", "cancelling"} => state # "NotStarted"
  /\ worker \notin {"none", "new"} => state # "NotStarted"
  /\ \A c \in Cancellers : canceller[c] = "cancelling" => state # "NotStarted"

(* query_result_, the promise and the pending operation move together.     *)
AnswerInv ==
  /\ queryResult <=> barrier = "ok"
  /\ barrier = "empty" <=> op # "done"
  /\ stream # "none" => queryResult
  /\ coreFt \in Answers => coreFt = barrier

(* In the background only the worker cancels before there is a result, and *)
(* it marks the query before it looks at the core's answer.                *)
BackgroundInv ==
  /\ app \in {"submit", "barrier"} => mode # "background"
  /\ mode = "background" /\ app \in AtResult => resultFt = "result"
  /\ resultFt = "result" => coreFt \in {"ok", "canceled"}
  /\ worker # "done" => resultFt = "pending"
  /\ mode = "background" /\ (op = "canceled" \/ barrier = "canceled")
       => worker = "cancelling" \/ state = "Cancelled"
  /\ worker # "none" => mode = "background"
  /\ resultFt # "pending" => mode = "background"

(* Who may ask for a row has a stream behind the query.                    *)
IterationInv ==
  /\ mode = "eager" /\ app \in AtResult => queryResult
  /\ mode = "lazy" /\ iterating => queryResult
  /\ app = "rowWait" => queryResult
  /\ cancelled => state \in {"Cancelled", "Completed"}

(* Each row the stream produced is with the application or on its way.     *)
RowsInv ==
  /\ handed + dropped + (IF reply = "row" THEN 1 ELSE 0) = sent
  /\ sent <= nrows
  /\ stream = "ended" => sent = nrows /\ reply # "row"
  /\ reply = "end" => stream = "ended"
  /\ reply # "none" => app = "rowWait"
  /\ state = "Completed" \/ metadata => stream = "ended"

IInv ==
  /\ TypeOK
  /\ SubmissionInv
  /\ AnswerInv
  /\ BackgroundInv
  /\ LiveIteration
  /\ FutureIsUsable
  /\ IterationInv
  /\ RowsInv
-----------------------------------------------------------------------------
(***************************************************************************)
(* Liveness.                                                               *)
(***************************************************************************)

(* The token ends the wait of the application even if the server never     *)
(* answers: a Future whose token is set resolves.                          *)
CancelledFutureResolves ==
  (token /\ app = "waitFuture") ~> resultFt # "pending"

(* With a server that answers, every call of the application returns: the  *)
(* Future resolves, iter() and next() come back.                           *)
CallsReturn ==
  ServerAnswers => ((ret.out = "pending") ~> (ret.out # "pending"))

(***************************************************************************)
(* Claims of the documentation and the tests that the code does not keep   *)
(* in every interleaving (runs that expect a violation).                   *)
(***************************************************************************)

(* common/result.py: metadata() raises RuntimeError when the metadata is   *)
(* not available.                                                          *)
MetadataOrRuntimeError ==
  ret.call = "metadata" => ret.out \in {"metadata", "RuntimeError"}

(* tests/query_t.py: a token set before the Future is resolved leaves the  *)
(* result Cancelled.                                                       *)
TokenSeenByFuture ==
  [][token /\ resultFt = "pending" /\ resultFt' = "result"
       => state' = "Cancelled"]_vars

(* common/exceptions.py: InternalSDKError means that the SDK did something *)
(* wrong; a request for a row that is cut short by cancel() is no reason.  *)
CancelIsNoInternalError ==
  [][reply = "canceled" => ret'.out # "InternalSDKError"]_vars
=============================================================================
