----------------------------- MODULE AsyncQuery -----------------------------
(***************************************************************************)
(* One query of the asyncio API: _AsyncQueryStreamingExecutor between the  *)
(* thread of the event loop and the IO thread of the core.                 *)
(*                                                                         *)
(*  - The loop's thread runs the application's tasks and, first come first *)
(*    served, the callbacks in the loop's ready queue.  The IO thread can  *)
(*    interfere with it between any two steps; it matters while            *)
(*    columnar_query_op runs without the GIL, before _iter_ft exists.      *)
(*  - The IO thread calls _set_query_core_result and _row_callback, which  *)
(*    read the executor's attributes there and then and hand the rest to   *)
(*    the loop by call_soon_threadsafe.                                    *)
(*  - Tasks may cancel the Future of execute_query, the result, or the     *)
(*    await of a row (a timeout does), at any moment.                      *)
(*                                                                         *)
(* Each request for a row has an asyncio Future of its own; _row_ft is the *)
(* latest of them.  asyncio's futures and loop, and the core, are external.*)
(***************************************************************************)
EXTENDS Naturals, Sequences, FiniteSets

CONSTANTS
  Tasks,       (* the tasks that iterate the result                       *)
  MaxRows,     (* the longest answer of the server; bounds the model      *)
  MaxRequests  (* requests for a row that are considered; bounds the model *)

ASSUME AsyncQueryAssumption ==
  /\ IsFiniteSet(Tasks)
  /\ MaxRows \in Nat /\ MaxRequests \in Nat

VARIABLES
  nrows,        (* the number of rows the server has for the query        *)
  (* -- _AsyncQueryStreamingExecutor                                      *)
  state,        (* _streaming_state                                       *)
  iterFt,       (* _iter_ft                                               *)
  rowFts,       (* the row futures in order of creation, _row_ft the last *)
  metadata,     (* _metadata is not None                                  *)
  (* -- columnar_query_iterator and the core                              *)
  queryResult,  (* query_result_ is not null                              *)
  op,           (* the pending operation of the query                     *)
  stream,       (* the stream of rows behind query_result_                *)
  sent,         (* rows the stream has produced                           *)
  asked,        (* requests for a row that the core has not answered      *)
  (* -- threads                                                           *)
  replies,      (* answers to next_row() on their way to _row_callback    *)
  io,           (* the answer _set_query_core_result is about to queue    *)
  ready,        (* the callbacks in the loop's queue                      *)
  app,          (* how far the application is with execute_query          *)
  (* -- the iterating tasks                                               *)
  waits,        (* the row future each of them awaits, 0 for none         *)
  received,     (* the rows each of them was given                        *)
  cancels,      (* awaits that were cancelled, counted                    *)
  lost          (* rows that the stream produced and no task will get     *)

query == <<iterFt, queryResult, op>>
rows  == <<rowFts, sent, asked, replies>>
tasks == <<waits, received, cancels>>
vars  == <<nrows, state, query, rows, metadata, stream, io, ready, app, tasks,
           lost>>

(***************************************************************************)
(* Values: what a request for a row can come to, and the state of the      *)
(* future that stands for it.                                              *)
(***************************************************************************)
Kinds == {"row", "end", "error", "canceled"}
Reply == [kind : Kinds, row : Nat]
Answer(kind) == [kind |-> kind, row |-> 0]
RowFt == [kind : Kinds \cup {"pending", "cancelled"}, row : Nat]
IsPending(id) == rowFts[id].kind = "pending"

(* Callbacks of the loop: resolve _iter_ft, resolve a row future, run      *)
(* _query_done_callback of the cancelled _iter_ft.                         *)
ToIterFt(out)    == [do |-> "iter", id |-> 0, reply |-> Answer(out)]
ToRowFt(id, rep) == [do |-> "row", id |-> id, reply |-> rep]
DoneCallback     == [do |-> "done", id |-> 0, reply |-> Answer("end")]

TypeOK ==
  /\ nrows \in 0 .. MaxRows
  /\ state \in {"NotStarted", "Started", "Cancelled"}
  /\ iterFt \in {"none", "pending", "result", "error", "cancelled"}
  /\ rowFts \in Seq(RowFt)
  /\ metadata \in BOOLEAN
  /\ queryResult \in BOOLEAN
  /\ op \in {"none", "pending", "rejected", "ok", "error", "canceled", "done"}
  /\ stream \in {"none", "open", "ended", "failed", "cancelled"}
  /\ sent \in Nat /\ asked \in Nat /\ replies \in Seq(Reply)
  /\ io \in {"idle", "ok", "error"}
  /\ ready \in Seq([do : {"iter", "row", "done"}, id : Nat,
                    reply : [kind : Kinds \cup {"ok"}, row : Nat]])
  /\ app \in {"start", "submit", "await", "result", "noResult"}
  /\ waits \in [Tasks -> Nat]
  /\ received \in [Tasks -> Seq(Nat)]
  /\ cancels \in Nat /\ lost \in Nat

Init ==
  /\ nrows \in 0 .. MaxRows
  /\ state = "NotStarted" /\ iterFt = "none" /\ rowFts = <<>>
  /\ metadata = FALSE
  /\ queryResult = FALSE /\ op = "none" /\ stream = "none"
  /\ sent = 0 /\ asked = 0
  /\ replies = <<>> /\ io = "idle" /\ ready = <<>>
  /\ app = "start"
  /\ waits = [t \in Tasks |-> 0]
  /\ received = [t \in Tasks |-> <<>>]
  /\ cancels = 0 /\ lost = 0
-----------------------------------------------------------------------------
(***************************************************************************)
(* execute_query: the loop's thread gives the GIL away while the core      *)
(* starts the query, and creates _iter_ft when it is back.                 *)
(***************************************************************************)
ExecuteQuery ==
  /\ app = "start" /\ state = "NotStarted"
  /\ state' = "Started"
  /\ op' \in {"pending", "rejected"}
  /\ app' = "submit"
  /\ UNCHANGED <<nrows, metadata, iterFt, queryResult, rows, stream, io,
                 ready, tasks, lost>>

SubmitReturns ==
  /\ app = "submit"
  /\ \/ /\ op = "rejected"
        /\ app' = "noResult"
        /\ UNCHANGED iterFt
     \/ /\ op # "rejected"
        /\ iterFt' = "pending"
        /\ app' = "await"
  /\ UNCHANGED <<nrows, metadata, state, queryResult, op, rows, stream, io,
                 ready, tasks, lost>>

(* await of the Future, or its result() once it is done.                   *)
AwaitReturns ==
  /\ app = "await" /\ iterFt # "pending"
  /\ app' = IF iterFt = "result" THEN "result" ELSE "noResult"
  /\ UNCHANGED <<nrows, metadata, state, query, rows, stream, io, ready,
                 tasks, lost>>

(***************************************************************************)
(* _set_query_core_result, on the IO thread: a look at _iter_ft, and then  *)
(* a callback for the loop.  Without the attribute it fails, and what the  *)
(* core had to say is gone.                                                *)
(***************************************************************************)
StreamOpened == op = "ok"

QueryCallback ==
  /\ op \in {"ok", "error", "canceled"} /\ io = "idle"
  /\ op' = "done"
  /\ queryResult' = StreamOpened
  /\ stream' = IF StreamOpened THEN "open" ELSE "none"
  /\ io' = IF iterFt \in {"none", "cancelled"} THEN "idle"
           ELSE IF op = "ok" THEN "ok" ELSE "error"
  /\ UNCHANGED <<nrows, metadata, state, iterFt, rows, ready, app, tasks,
                 lost>>

QueryCallbackQueues ==
  /\ io # "idle"
  /\ ready' = Append(ready, ToIterFt(io))
  /\ io' = "idle"
  /\ UNCHANGED <<nrows, metadata, state, query, rows, stream, app, tasks,
                 lost>>

(***************************************************************************)
(* cancel(), of the result or from _query_done_callback.                   *)
(***************************************************************************)
Cancel ==
  /\ op' = IF ~queryResult /\ op = "pending" THEN "canceled" ELSE op
  /\ stream' = IF queryResult /\ stream = "open" THEN "cancelled" ELSE stream
  /\ state' = "Cancelled"
  /\ UNCHANGED <<iterFt, queryResult>>

CancelResult ==
  /\ app = "result"
  /\ Cancel
  /\ UNCHANGED <<nrows, metadata, rows, io, ready, app, tasks, lost>>

CancelFuture_NoCallback ==
  /\ app = "await" /\ iterFt = "pending"
  /\ iterFt' = "cancelled"
  /\ UNCHANGED <<nrows, metadata, state, queryResult, op, rows, stream, io,
                 ready, app, tasks, lost>>

CancelFuture ==
  /\ app = "await" /\ iterFt = "pending"
  /\ iterFt' = "cancelled"
  /\ ready' = Append(ready, DoneCallback)
  /\ UNCHANGED <<nrows, metadata, state, queryResult, op, rows, stream, io,
                 app, tasks, lost>>
-----------------------------------------------------------------------------
(***************************************************************************)
(* Iteration.  A task that asks for a row has a new _row_ft made for it,   *)
(* whatever became of the last one.  Of a cancelled query nothing is asked *)
(* (StopAsyncIteration, and nothing changes).                              *)
(***************************************************************************)
NewRowFt_Once == IF rowFts = <<>> THEN <<Answer("pending")>> ELSE rowFts
NewRowFt == Append(rowFts, Answer("pending"))

NextRow(t) ==
  /\ app = "result" /\ waits[t] = 0 /\ Len(rowFts) < MaxRequests
  /\ state = "Started"
  /\ rowFts' = NewRowFt
  /\ asked' = asked + 1
  /\ waits' = [waits EXCEPT ![t] = Len(rowFts')]
  /\ UNCHANGED <<nrows, metadata, state, query, sent, replies, stream, io,
                 ready, app, received, cancels, lost>>

(* The await is over: a row, or the end of the iteration, or an error.     *)
RowReturns(t) ==
  /\ waits[t] # 0 /\ ~IsPending(waits[t])
  /\ received' = IF rowFts[waits[t]].kind = "row"
                 THEN [received EXCEPT ![t] = Append(@, rowFts[waits[t]].row)]
                 ELSE received
  /\ waits' = [waits EXCEPT ![t] = 0]
  /\ UNCHANGED <<nrows, metadata, state, query, rows, stream, io, ready, app,
                 cancels, lost>>

(* The await is cancelled; a row that is there already goes with it.       *)
CancelAwait(t) ==
  /\ waits[t] # 0
  /\ waits' = [waits EXCEPT ![t] = 0]
  /\ cancels' = cancels + 1
  /\ \/ /\ IsPending(waits[t])
        /\ rowFts' = [rowFts EXCEPT ![waits[t]] = Answer("cancelled")]
        /\ UNCHANGED lost
     \/ /\ ~IsPending(waits[t])
        /\ lost' = IF rowFts[waits[t]].kind = "row" THEN lost + 1 ELSE lost
        /\ UNCHANGED rowFts
  /\ UNCHANGED <<nrows, metadata, state, query, sent, asked, replies, stream,
                 io, ready, app, received>>

(* metadata() of the result, which the core has once the stream has ended. *)
HasMetadata == stream = "ended"

Metadata ==
  /\ app = "result" /\ ~metadata /\ HasMetadata
  /\ metadata' = TRUE
  /\ UNCHANGED <<nrows, state, query, rows, stream, io, ready, app, tasks,
                 lost>>

(* _row_callback, on the IO thread: for the _row_ft of this moment.        *)
TargetRowFt_First == 1
TargetRowFt == Len(rowFts)

RowCallback ==
  /\ replies # <<>>
  /\ replies' = Tail(replies)
  /\ ready' = Append(ready, ToRowFt(TargetRowFt, Head(replies)))
  /\ UNCHANGED <<nrows, metadata, state, query, rowFts, sent, asked, stream,
                 io, app, tasks, lost>>
-----------------------------------------------------------------------------
(***************************************************************************)
(* The loop runs its callbacks in order.  To resolve a future that is done *)
(* raises InvalidStateError in the loop, and the row is gone.              *)
(***************************************************************************)
Resolution_Raw(out) == out
Resolution_Result(out) == "result"
Resolution(out) == IF out = "ok" THEN "result" ELSE "error"

LoopResolvesQuery ==
  /\ ready # <<>> /\ Head(ready).do = "iter"
  /\ ready' = Tail(ready)
  /\ iterFt' = IF iterFt = "pending" THEN Resolution(Head(ready).reply.kind)
                                    ELSE iterFt
  /\ UNCHANGED <<nrows, metadata, state, queryResult, op, rows, stream, io,
                 app, tasks, lost>>

LoopResolvesRow ==
  /\ ready # <<>> /\ Head(ready).do = "row"
  /\ ready' = Tail(ready)
  /\ LET id == Head(ready).id IN
     \/ /\ IsPending(id)
        /\ rowFts' = [rowFts EXCEPT ![id] = Head(ready).reply]
        /\ UNCHANGED lost
     \/ /\ ~IsPending(id)
        /\ lost' = IF Head(ready).reply.kind = "row" THEN lost + 1 ELSE lost
        /\ UNCHANGED rowFts
  /\ UNCHANGED <<nrows, metadata, state, query, sent, asked, replies, stream,
                 io, app, tasks>>

(* _query_done_callback                                                    *)
LoopCancelsQuery ==
  /\ ready # <<>> /\ Head(ready).do = "done"
  /\ ready' = Tail(ready)
  /\ Cancel
  /\ UNCHANGED <<nrows, metadata, rows, io, app, tasks, lost>>
-----------------------------------------------------------------------------
(***************************************************************************)
(* The core: the answer to the query, and one to each request for a row,   *)
(* in order.  What it says of rows asked for behind the end is open here.  *)
(***************************************************************************)
CoreAnswers ==
  /\ op = "pending"
  /\ op' \in {"ok", "error"}
  /\ UNCHANGED <<nrows, metadata, state, iterFt, queryResult, rows, stream,
                 io, ready, app, tasks, lost>>

CoreReplies(reply) ==
  /\ asked > 0
  /\ asked' = asked - 1
  /\ replies' = Append(replies, reply)
  /\ UNCHANGED <<nrows, metadata, state, query, rowFts, io, ready, app, tasks,
                 lost>>

CoreSendsRow ==
  /\ stream = "open"
  /\ \/ /\ sent < nrows
        /\ sent' = sent + 1
        /\ CoreReplies([kind |-> "row", row |-> sent + 1])
        /\ UNCHANGED stream
     \/ /\ sent = nrows
        /\ stream' = "ended"
        /\ CoreReplies(Answer("end"))
        /\ UNCHANGED sent
     \/ /\ stream' = "failed"
        /\ CoreReplies(Answer("error"))
        /\ UNCHANGED sent

CoreRefusesRow ==
  /\ \/ stream = "ended" /\ CoreReplies(Answer("end"))
     \/ stream \in {"ended", "failed"} /\ CoreReplies(Answer("error"))
     \/ stream = "cancelled" /\ CoreReplies(Answer("canceled"))
  /\ UNCHANGED <<sent, stream>>
-----------------------------------------------------------------------------
Submission == ExecuteQuery \/ CancelResult \/ CancelFuture \/ Metadata
Returns    == SubmitReturns \/ AwaitReturns
IOThread   == QueryCallback \/ QueryCallbackQueues \/ RowCallback
Loop       == LoopResolvesQuery \/ LoopResolvesRow \/ LoopCancelsQuery
Server     == CoreAnswers \/ CoreSendsRow

Next ==
  \/ Submission
  \/ Returns
  \/ \E t \in Tasks : NextRow(t) \/ RowReturns(t) \/ CancelAwait(t)
  \/ IOThread
  \/ Loop
  \/ Server
  \/ CoreRefusesRow

Spec == Init /\ [][Next]_vars

(* The loop, the IO thread and the core run; that the server answers is an *)
(* assumption of the properties that need it.                              *)
FairSpec ==
  /\ Spec
  /\ WF_vars(Returns) /\ WF_vars(QueryCallback)
  /\ WF_vars(QueryCallbackQueues) /\ WF_vars(RowCallback)
  /\ WF_vars(Loop) /\ WF_vars(CoreRefusesRow)
  /\ \A t \in Tasks : WF_vars(RowReturns(t))

ServerAnswers == WF_vars(Server)
-----------------------------------------------------------------------------
(***************************************************************************)
(* Properties.                                                             *)
(***************************************************************************)

(* next() and metadata() of a result the application holds have a          *)
(* query_result_ to dereference, however the callbacks and a cancellation  *)
(* of the Future interleave.                                               *)
ResultIsLive == iterFt = "result" => queryResult

(* A task is given the rows in the order of the stream, and no row goes to *)
(* two tasks or to one task twice, although row futures are abandoned,     *)
(* replaced while a reply is on its way, and resolved late.                *)
RowsInOrder ==
  \A t \in Tasks, u \in Tasks :
    \A i \in DOMAIN received[t], j \in DOMAIN received[u] :
      /\ received[t][i] = received[u][j] => t = u /\ i = j
      /\ t = u /\ i < j => received[t][i] < received[u][j]

(* A row is lost only by a cancelled await, or to a task whose row future   *)
(* another task has replaced while it was pending; each costs at most one. *)
(* So a task that iterates alone loses a row by a cancelled await only.    *)
AwaitsPending(t) == waits[t] # 0 /\ IsPending(waits[t])
Waiting  == {t \in Tasks : AwaitsPending(t)}
Replaced == {t \in Waiting : waits[t] # Len(rowFts)}
RowsLostByCancelOnly == lost <= cancels + Cardinality(Replaced)

(* A row the stream produced is with a task, lost, or on its way.          *)
IsRow(callback) == callback.do = "row" /\ callback.reply.kind = "row"
AwaitsRow(t) == waits[t] # 0 /\ rowFts[waits[t]].kind = "row"
RepliedRows == {i \in DOMAIN replies : replies[i].kind = "row"}
QueuedRows  == {i \in DOMAIN ready : IsRow(ready[i])}
AwaitedRows == {t \in Tasks : AwaitsRow(t)}
OnTheWay ==
  Cardinality(RepliedRows) + Cardinality(QueuedRows) + Cardinality(AwaitedRows)
HandedRows == UNION {{<<t, i>> : i \in DOMAIN received[t]} : t \in Tasks}
Handed == Cardinality(HandedRows)
RowsAccounted == sent = Handed + OnTheWay + lost

(* Each request of a task that iterates alone is answered, with a row or   *)
(* the end or an error: abandoned requests do not swallow the answers of   *)
(* later ones.                                                             *)
Alone(t) == [](\A u \in Tasks \ {t} : waits[u] = 0)
NextReturns ==
  ServerAnswers => \A t \in Tasks : Alone(t) => ((waits[t] # 0) ~> (waits[t] = 0))

(* A cancelled Future does not leave the query pending in the core, even   *)
(* if the server stays silent.                                             *)
CancelReachesCore == (iterFt = "cancelled") ~> (op # "pending")

(* README.md: a query is executed by awaiting execute_query; the Future is *)
(* resolved once the core has answered.                                    *)
QueryFutureResolves ==
  ServerAnswers => ((iterFt = "pending") ~> (iterFt # "pending"))
-----------------------------------------------------------------------------
(***************************************************************************)
(* The inductive invariant behind the safety properties, by subject.       *)
(***************************************************************************)

(* There is no stream before the core has answered, and what the           *)
(* application is told of its success is told afterwards.                  *)
SuccessQueued(i) == ready[i].do = "iter" /\ ready[i].reply.kind = "ok"

AnswerInv ==
  /\ app = "start" => op = "none"
  /\ queryResult \/ stream # "none" => op = "done"
  /\ iterFt = "result" \/ io = "ok" => queryResult
  /\ \A i \in DOMAIN ready : SuccessQueued(i) => queryResult

(* What is awaited exists, and what resolves it is an answer to a request. *)
RequestInv ==
  /\ \A t \in Tasks : waits[t] \in 0 .. Len(rowFts)
  /\ \A i \in DOMAIN ready : ready[i].do = "row" => ready[i].reply \in Reply

QueryInv == TypeOK /\ AnswerInv /\ RequestInv

(* Tasks do not share row futures, a pending one is awaited by someone, and *)
(* there is one for each answer.                                           *)
FutureInv ==
  /\ asked > 0 \/ replies # <<>> => rowFts # <<>>
  /\ \A i \in DOMAIN ready : ready[i].do = "row" => ready[i].id \in DOMAIN rowFts
  /\ \A t \in Tasks, u \in Tasks : waits[t] = waits[u] /\ waits[t] # 0 => t = u
  /\ \A id \in DOMAIN rowFts : IsPending(id) => \E t \in Tasks : waits[t] = id

(* Rows overtake each other nowhere: what tasks have or can take comes      *)
(* before what is queued for the loop, and that before the replies.        *)
Taken(t) ==
  {received[t][i] : i \in DOMAIN received[t]}
    \cup {rowFts[id].row : id \in {j \in DOMAIN rowFts : AwaitsRow(t) /\ waits[t] = j}}

OrderInv ==
  /\ \A t \in Tasks : \A n \in Taken(t) :
       /\ n <= sent
       /\ \A i \in QueuedRows : n < ready[i].reply.row
       /\ \A i \in RepliedRows : n < replies[i].row
       /\ \A u \in Tasks : n \in Taken(u) => t = u
  /\ \A t \in Tasks : \A i \in DOMAIN received[t] :
       /\ AwaitsRow(t) => received[t][i] < rowFts[waits[t]].row
       /\ \A j \in DOMAIN received[t] : i < j => received[t][i] < received[t][j]
  /\ \A i \in QueuedRows :
       /\ ready[i].reply.row <= sent
       /\ \A j \in QueuedRows : i < j => ready[i].reply.row < ready[j].reply.row
       /\ \A j \in RepliedRows : ready[i].reply.row < replies[j].row
  /\ \A i \in RepliedRows :
       /\ replies[i].row <= sent
       /\ \A j \in RepliedRows : i < j => replies[i].row < replies[j].row

(* The last row future, while a task awaits it, has an answer ahead of it, *)
(* and all the answers that are out but one for each waiting task are to   *)
(* requests whose await was cancelled.                                     *)
Answers == {i \in DOMAIN ready : ready[i].do = "row"}

LostInv ==
  /\ \A t \in Waiting : waits[t] = Len(rowFts) =>
       asked > 0 \/ replies # <<>> \/ \E i \in Answers : ready[i].id = waits[t]
  /\ lost + asked + Len(replies) + Cardinality(Answers) <= cancels + Cardinality(Waiting)

RowInv ==
  /\ FutureInv /\ OrderInv /\ LostInv
  /\ RowsAccounted /\ IsFiniteSet(HandedRows)

IInv == QueryInv /\ RowInv
=============================================================================
