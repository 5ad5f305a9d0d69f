--------------------------- MODULE BackgroundPool ---------------------------
(***************************************************************************)
(* The thread pool of a Cluster and the queries executed on it with a      *)
(* CancelToken.  Each of them needs the pool twice: the task that          *)
(* execute_query submits ("outer") runs submit_query_in_background, which  *)
(* submits _get_core_query_result ("core") to the same pool and holds its  *)
(* own thread until that second task is done, cancelled or not.            *)
(* Cluster.close(), or the exit of the interpreter, runs beside them and   *)
(* shuts the pool down.                                                    *)
(*                                                                         *)
(* What a query goes through between the two, and what its answer is, is   *)
(* BlockingQuery's subject; here only who holds which thread matters.      *)
(* ThreadPoolExecutor itself is external: a FIFO of tasks, max_workers     *)
(* threads, shutdown() that refuses new tasks and joins the threads.       *)
(***************************************************************************)
EXTENDS Sequences, FiniteSets, Naturals

CONSTANTS
  Workers,  (* the threads of the pool, max_workers of them               *)
  Queries   (* the queries executed with a CancelToken                    *)

ASSUME BackgroundPoolAssumption == IsFiniteSet(Workers) /\ IsFiniteSet(Queries)

VARIABLES
  queue,     (* the tasks of the pool that no thread has taken            *)
  job,       (* the task each thread runs                                 *)
  phase,     (* where each query is: in execute_query, in the pool, done  *)
  op,        (* its pending operation in the core                         *)
  coreDone,  (* _query_res_ft.done()                                      *)
  token,     (* the event of its CancelToken                              *)
  closer     (* where Cluster.close() or the exit handler is              *)

vars == <<queue, job, phase, op, coreDone, token, closer>>

Tasks == {"outer", "core"} \X Queries
Idle  == <<>>

Waits       == {"poll", "collect"}            (* in _wait_for_result     *)
Running     == {"taken", "sending"} \cup Waits
Resolved(q) == phase[q] \in {"result", "error"}

(* The pool refuses new tasks.                                             *)
Shutdown == closer \in {"joining", "closed"}
InQueue(task) == \E i \in DOMAIN queue : queue[i] = task
OnThread(task) == \E w \in Workers : job[w] = task

TypeOK ==
  /\ queue \in Seq(Tasks)
  /\ job \in [Workers -> Tasks \cup {Idle}]
  /\ phase \in [Queries -> {"new", "built", "refused", "queued", "result",
                            "error"} \cup Running]
  /\ op \in [Queries -> {"none", "pending", "answered", "rejected"}]
  /\ coreDone \in [Queries -> BOOLEAN]
  /\ token \in [Queries -> BOOLEAN]
  /\ closer \in {"open", "closing", "reset", "joining", "closed"}

Init ==
  /\ queue = <<>>
  /\ job = [w \in Workers |-> Idle]
  /\ phase = [q \in Queries |-> "new"]
  /\ op = [q \in Queries |-> "none"]
  /\ coreDone = [q \in Queries |-> FALSE]
  /\ token = [q \in Queries |-> FALSE]
  /\ closer = "open"
-----------------------------------------------------------------------------
(***************************************************************************)
(* execute_query by any thread: without a client it raises; with one it    *)
(* goes on to the pool, which another thread may shut down meanwhile.      *)
(***************************************************************************)
ExecuteQuery(q) ==
  /\ phase[q] = "new"
  /\ phase' = [phase EXCEPT ![q] = IF closer \in {"open", "closing"}
                                   THEN "built" ELSE "refused"]
  /\ UNCHANGED <<queue, job, op, coreDone, token, closer>>

SubmitOuter(q) ==
  /\ phase[q] = "built"
  /\ \/ /\ Shutdown
        /\ phase' = [phase EXCEPT ![q] = "refused"]
        /\ UNCHANGED queue
     \/ /\ ~Shutdown
        /\ phase' = [phase EXCEPT ![q] = "queued"]
        /\ queue' = Append(queue, <<"outer", q>>)
  /\ UNCHANGED <<job, op, coreDone, token, closer>>

CancelToken(q) ==
  /\ phase[q] # "new" /\ ~token[q]
  /\ token' = [token EXCEPT ![q] = TRUE]
  /\ UNCHANGED <<queue, job, phase, op, coreDone, closer>>
-----------------------------------------------------------------------------
(***************************************************************************)
(* The threads of the pool.                                                *)
(***************************************************************************)
Take(w) ==
  /\ job[w] = Idle /\ queue # <<>>
  /\ job' = [job EXCEPT ![w] = Head(queue)]
  /\ queue' = Tail(queue)
  /\ phase' = IF Head(queue)[1] = "outer"
              THEN [phase EXCEPT ![Head(queue)[2]] = "taken"] ELSE phase
  /\ UNCHANGED <<op, coreDone, token, closer>>

Free(w) == job' = [job EXCEPT ![w] = Idle]

(* submit_query_in_background: the query is sent without a look at the     *)
(* token, and the GIL is released while the core starts it.                *)
SendQuery(w, q) ==
  /\ job[w] = <<"outer", q>> /\ phase[q] = "taken"
  /\ phase' = [phase EXCEPT ![q] = "sending"]
  /\ \E started \in {"pending", "rejected"} : op' = [op EXCEPT ![q] = started]
  /\ UNCHANGED <<queue, job, coreDone, token, closer>>

(* A rejected query, or a pool that was shut down since, raises: that      *)
(* resolves the Future and frees the thread.                               *)
SubmitCore(w, q) ==
  /\ job[w] = <<"outer", q>> /\ phase[q] = "sending"
  /\ \/ /\ op[q] = "rejected" \/ Shutdown
        /\ phase' = [phase EXCEPT ![q] = "error"]
        /\ Free(w)
        /\ UNCHANGED queue
     \/ /\ op[q] # "rejected" /\ ~Shutdown
        /\ phase' = [phase EXCEPT ![q] = "poll"]
        /\ queue' = Append(queue, <<"core", q>>)
        /\ UNCHANGED job
  /\ UNCHANGED <<op, coreDone, token, closer>>

(* The poll loop cancels the query and ends, which leaves the thread at    *)
(* _query_res_ft.result().                                                 *)
SeesToken_Returns(w, q) ==
  /\ job[w] = <<"outer", q>> /\ phase[q] = "poll" /\ token[q]
  /\ phase' = [phase EXCEPT ![q] = "cancelled"]
  /\ Free(w)
  /\ UNCHANGED <<queue, op, coreDone, token, closer>>

SeesToken(w, q) ==
  /\ job[w] = <<"outer", q>> /\ phase[q] = "poll" /\ token[q]
  /\ phase' = [phase EXCEPT ![q] = "collect"]
  /\ UNCHANGED <<queue, job, op, coreDone, token, closer>>

Collect_AtOnce(w, q) ==
  /\ job[w] = <<"outer", q>> /\ phase[q] \in Waits
  /\ \E out \in {"result", "error"} : phase' = [phase EXCEPT ![q] = out]
  /\ Free(w)
  /\ UNCHANGED <<queue, op, coreDone, token, closer>>

Collect(w, q) ==
  /\ job[w] = <<"outer", q>> /\ phase[q] \in Waits /\ coreDone[q]
  /\ \E out \in {"result", "error"} : phase' = [phase EXCEPT ![q] = out]
  /\ Free(w)
  /\ UNCHANGED <<queue, op, coreDone, token, closer>>

(* _get_core_query_result                                                  *)
CoreTaskEnds_NotReported(w, q) ==
  /\ job[w] = <<"core", q>> /\ op[q] = "answered"
  /\ Free(w)
  /\ UNCHANGED <<queue, phase, op, coreDone, token, closer>>

CoreTaskEnds(w, q) ==
  /\ job[w] = <<"core", q>> /\ op[q] = "answered"
  /\ coreDone' = [coreDone EXCEPT ![q] = TRUE]
  /\ Free(w)
  /\ UNCHANGED <<queue, phase, op, token, closer>>

(* The core's answer to the query, or to its cancellation: once the        *)
(* connection is closing it may come or not.                               *)
Answer(q) ==
  /\ op[q] = "pending"
  /\ op' = [op EXCEPT ![q] = "answered"]
  /\ UNCHANGED <<queue, job, phase, coreDone, token, closer>>
-----------------------------------------------------------------------------
(***************************************************************************)
(* Cluster.close(): the connection, the client, the pool.                  *)
(***************************************************************************)
CloseConnection ==
  /\ closer = "open"
  /\ closer' = "closing"
  /\ UNCHANGED <<queue, job, phase, op, coreDone, token>>

ResetClient ==
  /\ closer = "closing"
  /\ closer' = "reset"
  /\ UNCHANGED <<queue, job, phase, op, coreDone, token>>

ShutdownPool ==
  /\ closer = "reset"
  /\ closer' = "joining"
  /\ UNCHANGED <<queue, job, phase, op, coreDone, token>>

(* The exit handler, or the interpreter's own before it, shuts the pool     *)
(* down in the same way; the connection stays open.                        *)
ShutdownAtExit ==
  /\ closer = "open"
  /\ closer' = "joining"
  /\ UNCHANGED <<queue, job, phase, op, coreDone, token>>

Joined == queue = <<>> /\ \A w \in Workers : job[w] = Idle

CloseReturns_NoJoin ==
  /\ closer = "joining"
  /\ closer' = "closed"
  /\ UNCHANGED <<queue, job, phase, op, coreDone, token>>

CloseReturns ==
  /\ closer = "joining" /\ Joined
  /\ closer' = "closed"
  /\ UNCHANGED <<queue, job, phase, op, coreDone, token>>
-----------------------------------------------------------------------------
Caller(q)    == ExecuteQuery(q) \/ SubmitOuter(q) \/ CancelToken(q)
Outer(w, q)  == \/ SendQuery(w, q) \/ SubmitCore(w, q)
                \/ SeesToken(w, q) \/ Collect(w, q)
Thread(w)    == Take(w) \/ \E q \in Queries : Outer(w, q) \/ CoreTaskEnds(w, q)
Close        == \/ CloseConnection \/ ResetClient \/ ShutdownPool
                \/ ShutdownAtExit \/ CloseReturns

Next ==
  \/ \E q \in Queries : Caller(q) \/ Answer(q)
  \/ \E w \in Workers : Thread(w)
  \/ Close

Spec == Init /\ [][Next]_vars

(* The threads of the pool run; the core answers (or times out) as long as *)
(* nobody closes the connection.                                           *)
FairSpec ==
  /\ Spec
  /\ \A w \in Workers : WF_vars(Thread(w))
  /\ \A q \in Queries : WF_vars(closer = "open" /\ Answer(q))
-----------------------------------------------------------------------------
(***************************************************************************)
(* Properties.                                                             *)
(***************************************************************************)

(* The thread can do nothing until another one does something.             *)
Blocked(w) ==
  \/ job[w] = Idle /\ queue = <<>>
  \/ \E q \in Queries :
       \/ /\ job[w] = <<"outer", q>> /\ phase[q] \in Waits /\ ~coreDone[q]
          /\ phase[q] = "poll" => ~token[q]
       \/ job[w] = <<"core", q>> /\ op[q] = "pending"

Outstanding == {q \in Queries : phase[q] \in Running \cup {"queued"}}

(* Each thread waits for a core task that only another one could run.      *)
Exhausted ==
  \A w \in Workers : \E q \in Queries :
    job[w] = <<"outer", q>> /\ InQueue(<<"core", q>>)

(* There is one way for the pool to hang on answered queries: each of its  *)
(* threads holds a query whose core task is still in the queue.  Short of  *)
(* that, whatever was cancelled, rejected or shut down in between, a pool  *)
(* with queries left and nothing to wait for from the core moves on.       *)
OnlyNestingBlocks ==
  /\ Outstanding # {}
  /\ \A q \in Queries : op[q] # "pending"
  /\ \A w \in Workers : Blocked(w)
  => Exhausted

(* So a pool with more threads than outstanding queries does not hang.     *)
FewQueriesMoveOn ==
  /\ Outstanding # {}
  /\ Cardinality(Outstanding) < Cardinality(Workers)
  /\ \A q \in Queries : op[q] # "pending"
  => \E w \in Workers : ~Blocked(w)

(* Until the pool is shut down a Future resolves only when the core is     *)
(* done with its query, a cancelled one included: no query is left running *)
(* that nobody can reach any more.                                         *)
NoOrphanWhileOpen ==
  \A q \in Queries : Resolved(q) /\ ~Shutdown => op[q] # "pending"

(* When close() or the exit handler returns every Future is resolved,      *)
(* although queries are executed, and outer tasks submit core tasks, all   *)
(* the while.                                                              *)
CloseLeavesNothing ==
  closer = "closed" => Outstanding = {}

(***************************************************************************)
(* The inductive invariant behind them, by subject.                        *)
(***************************************************************************)

(* A query that is not done is where its phase says: in the queue, or on a *)
(* thread, which waits for a core task that is in one of these places too. *)
PlaceInv ==
  \A q \in Queries :
    /\ phase[q] = "queued" => InQueue(<<"outer", q>>)
    /\ phase[q] \in Running => OnThread(<<"outer", q>>)
    /\ phase[q] \in Waits /\ ~coreDone[q]
         => InQueue(<<"core", q>>) \/ OnThread(<<"core", q>>)

(* The outer task of a query is in the queue once, while it is queued.     *)
QueueInv ==
  \A i \in DOMAIN queue : queue[i][1] = "outer" =>
    /\ phase[queue[i][2]] = "queued"
    /\ \A j \in DOMAIN queue : queue[j] = queue[i] => i = j

(* One thread runs it, until the query is done.                            *)
HoldInv ==
  \A w \in Workers, q \in Queries : job[w] = <<"outer", q>> =>
    /\ phase[q] \in Running
    /\ \A v \in Workers : job[v] = job[w] => v = w

(* There is no core task before the query was sent.                        *)
Unsent == {"new", "built", "refused", "queued", "taken", "sending"}

UnsentInv ==
  \A q \in Queries : phase[q] \in Unsent =>
    ~coreDone[q] /\ ~InQueue(<<"core", q>>) /\ ~OnThread(<<"core", q>>)

(* A core task is done when the core is.                                   *)
AnswerInv == \A q \in Queries : coreDone[q] => op[q] = "answered"

ClosedInv == closer = "closed" => Joined

IInv ==
  /\ TypeOK
  /\ PlaceInv
  /\ QueueInv
  /\ HoldInv
  /\ UnsentInv
  /\ AnswerInv
  /\ ClosedInv
  /\ NoOrphanWhileOpen
-----------------------------------------------------------------------------
(* Every Future resolves, first come first served and whatever the other   *)
(* queries do, unless the pool is exhausted or the cluster is closed.      *)
FuturesResolve ==
  \A q \in Queries :
    phase[q] = "queued" ~> (Resolved(q) \/ closer # "open" \/ Exhausted)
=============================================================================
