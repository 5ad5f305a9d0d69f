------------------------ MODULE BlockingQueryProofs ------------------------
(***************************************************************************)
(* The safety properties of BlockingQuery, and that it implements          *)
(* QueryStream, for every set of modes, every number of cancelling threads *)
(* and answers of any length.  IInv is the inductive invariant; each of    *)
(* its parts has a lemma that says which parts its preservation rests on.  *)
(***************************************************************************)
EXTENDS BlockingQuery, TLAPS

USE BlockingQueryAssumption

(* The invariant holds initially.                                          *)
LEMMA InitInv == Init => IInv
<1> SUFFICES ASSUME Init PROVE IInv
  OBVIOUS
<1>1. TypeOK
  BY DEF Init, TypeOK, StreamingState, Calls, Outcomes, Answers
<1>2. SubmissionInv /\ AnswerInv /\ BackgroundInv
  BY DEF Init, SubmissionInv, AnswerInv, BackgroundInv, Answers, AtResult
<1>3. LiveIteration /\ FutureIsUsable /\ IterationInv
  BY DEF Init, LiveIteration, FutureIsUsable, IterationInv, AtResult
<1>4. RowsInv
  BY DEF Init, RowsInv
<1> QED BY <1>1, <1>2, <1>3, <1>4 DEF IInv

-----------------------------------------------------------------------------
(***************************************************************************)
(* Every step keeps the invariant, part by part.                           *)
(***************************************************************************)

(* Types.                                                                  *)
LEMMA TypeStep == TypeOK /\ [Next]_vars => TypeOK'
<1> SUFFICES ASSUME TypeOK, [Next]_vars
             PROVE  TypeOK'
  OBVIOUS
<1> USE DEF TypeOK, StreamingState, Calls, Outcomes, executor, iterator, core,
            futures, caller, Returned, OpenQuery, Raised, CancelCore,
            MarkCancelled, AtResult, Answers
<1>1. CASE AppCalls
  <2>1. CASE ExecuteQuery
    BY <2>1 DEF ExecuteQuery
  <2>2. CASE Iter
    <3>1. ret' \in [call : Calls, out : Outcomes]
      BY <2>2 DEF Iter, Calls
    <3>2. /\ state' \in StreamingState /\ runs' \in Nat
          /\ op' \in Answers \cup {"none", "pending", "rejected", "done"}
          /\ UNCHANGED <<iterSet, metadata, stream, sent, reply>>
      BY <2>2 DEF Iter
    <3>3. /\ iterating' \in BOOLEAN
          /\ app' \in AtResult \cup {"start", "submit", "barrier", "waitFuture",
                                     "noResult", "crashed"}
      BY <2>2 DEF Iter
    <3> QED BY <2>2, <3>1, <3>2, <3>3 DEF Iter
  <2>3. CASE NextRow
    BY <2>3 DEF NextRow
  <2>4. CASE Cancel
    BY <2>4 DEF Cancel
  <2>5. CASE Metadata
    BY <2>5 DEF Metadata
  <2> QED BY <1>1, <2>1, <2>2, <2>3, <2>4, <2>5 DEF AppCalls
<1>2. CASE AppReturns
  <2>1. CASE SubmitReturns
    <3>1. ret' \in [call : Calls, out : Outcomes]
      BY <2>1 DEF SubmitReturns
    <3>2. /\ iterSet' \in BOOLEAN
          /\ app' \in AtResult \cup {"start", "submit", "barrier", "waitFuture",
                                     "noResult", "crashed"}
      BY <2>1 DEF SubmitReturns
    <3> QED BY <2>1, <3>1, <3>2 DEF SubmitReturns
  <2>2. CASE QueryAnswered
    <3>1. ret' \in [call : Calls, out : Outcomes]
      BY <2>2 DEF QueryAnswered
    <3>2. /\ iterating' \in BOOLEAN
          /\ app' \in AtResult \cup {"start", "submit", "barrier", "waitFuture",
                                     "noResult", "crashed"}
      BY <2>2 DEF QueryAnswered
    <3> QED BY <2>2, <3>1, <3>2 DEF QueryAnswered
  <2>3. CASE FutureResult
    BY <2>3 DEF FutureResult
  <2>4. CASE AskCore
    BY <2>4 DEF AskCore
  <2>5. CASE RowReturns
    BY <2>5 DEF RowReturns
  <2>6. CASE CancelReturns
    BY <2>6 DEF CancelReturns
  <2> QED BY <1>2, <2>1, <2>2, <2>3, <2>4, <2>5, <2>6 DEF AppReturns
<1>3. CASE CancelToken
  BY <1>3 DEF CancelToken
<1>4. ASSUME NEW c \in Cancellers,
            CancelElsewhere(c) \/ CancelElsewhereReturns(c)
     PROVE  TypeOK'
  <2>1. CASE CancelElsewhere(c)
    BY <2>1 DEF CancelElsewhere
  <2>2. CASE CancelElsewhereReturns(c)
    BY <2>2 DEF CancelElsewhereReturns
  <2> QED BY <1>4, <2>1, <2>2
<1>5. CASE Worker
  <2>1. CASE WorkerSubmits
    BY <2>1 DEF WorkerSubmits
  <2>2. CASE WorkerSubmitReturns
    <3>1. /\ coreFt' \in Answers \cup {"none", "queued", "pending"}
          /\ resultFt' \in {"pending", "result", "error"}
          /\ iterSet' \in BOOLEAN
      BY <2>2 DEF WorkerSubmitReturns
    <3>2. worker' \in {"none", "new", "submit", "poll", "tokenWait",
                       "cancelling", "collect", "done"}
      BY <2>2 DEF WorkerSubmitReturns
    <3> QED BY <2>2, <3>1, <3>2 DEF WorkerSubmitReturns
  <2>3. CASE WorkerPolls
    BY <2>3 DEF WorkerPolls
  <2>4. CASE TokenWaitEnds
    BY <2>4 DEF TokenWaitEnds
  <2>5. CASE WorkerCancelReturns
    BY <2>5 DEF WorkerCancelReturns
  <2>6. CASE WorkerCollects
    BY <2>6 DEF WorkerCollects
  <2> QED BY <1>5, <2>1, <2>2, <2>3, <2>4, <2>5, <2>6 DEF Worker
<1>6. CASE CoreWait
  BY <1>6 DEF CoreWait, CoreWaitBegins, CoreWaitEnds
<1>7. CASE QueryCallback
  BY <1>7 DEF QueryCallback
<1>8. CASE CoreRefusesRow
  BY <1>8 DEF CoreRefusesRow
<1>9. CASE Server
  BY <1>9 DEF Server, CoreAnswers, CoreSendsRow
<1>10. CASE UNCHANGED vars
  BY <1>10 DEF vars
<1> QED BY <1>1, <1>2, <1>3, <1>4, <1>5, <1>6, <1>7, <1>8, <1>9, <1>10 DEF
        Next

(* A query is submitted once, and nothing happens to it before that.       *)
LEMMA SubmissionStep == TypeOK /\ SubmissionInv /\ [Next]_vars => SubmissionInv'
<1> SUFFICES ASSUME TypeOK /\ SubmissionInv, [Next]_vars
             PROVE  SubmissionInv'
  OBVIOUS
<1> USE DEF SubmissionInv, executor, core, caller, OkayToStream,
            OkayToIterate, OpenQuery, Raised, CancelCore, MarkCancelled,
            Answers
<1>1. CASE AppCalls
  BY <1>1 DEF AppCalls, ExecuteQuery, Iter, NextRow, Cancel, Metadata
<1>2. CASE AppReturns
  BY <1>2 DEF AppReturns, SubmitReturns, QueryAnswered, FutureResult, AskCore,
            RowReturns, CancelReturns
<1>3. CASE CancelToken
  BY <1>3 DEF CancelToken
<1>4. ASSUME NEW c \in Cancellers,
            CancelElsewhere(c) \/ CancelElsewhereReturns(c)
     PROVE  SubmissionInv'
  BY <1>4 DEF CancelElsewhere, CancelElsewhereReturns
<1>5. CASE Worker
  BY <1>5 DEF Worker, WorkerSubmits, WorkerSubmitReturns, WorkerPolls,
            TokenWaitEnds, WorkerCancelReturns, WorkerCollects
<1>6. CASE CoreWait
  BY <1>6 DEF CoreWait, CoreWaitBegins, CoreWaitEnds
<1>7. CASE QueryCallback
  BY <1>7 DEF QueryCallback
<1>8. CASE CoreRefusesRow
  BY <1>8 DEF CoreRefusesRow
<1>9. CASE Server
  BY <1>9 DEF Server, CoreAnswers, CoreSendsRow
<1>10. CASE UNCHANGED vars
  BY <1>10 DEF vars
<1> QED BY <1>1, <1>2, <1>3, <1>4, <1>5, <1>6, <1>7, <1>8, <1>9, <1>10 DEF
        Next

(* The promise, query_result_ and the pending operation move together.     *)
LEMMA AnswerStep == TypeOK /\ SubmissionInv /\ AnswerInv /\ [Next]_vars => AnswerInv'
<1> SUFFICES ASSUME TypeOK /\ SubmissionInv /\ AnswerInv, [Next]_vars
             PROVE  AnswerInv'
  OBVIOUS
<1> USE DEF AnswerInv, SubmissionInv, iterator, core, futures, OkayToStream,
            OpenQuery, CancelCore, Answers
<1>1. CASE AppCalls
  BY <1>1 DEF AppCalls, ExecuteQuery, Iter, NextRow, Cancel, Metadata
<1>2. CASE AppReturns
  BY <1>2 DEF AppReturns, SubmitReturns, QueryAnswered, FutureResult, AskCore,
            RowReturns, CancelReturns
<1>3. CASE CancelToken
  BY <1>3 DEF CancelToken
<1>4. ASSUME NEW c \in Cancellers,
            CancelElsewhere(c) \/ CancelElsewhereReturns(c)
     PROVE  AnswerInv'
  BY <1>4 DEF CancelElsewhere, CancelElsewhereReturns
<1>5. CASE Worker
  BY <1>5 DEF Worker, WorkerSubmits, WorkerSubmitReturns, WorkerPolls,
            TokenWaitEnds, WorkerCancelReturns, WorkerCollects
<1>6. CASE CoreWait
  BY <1>6 DEF CoreWait, CoreWaitBegins, CoreWaitEnds
<1>7. CASE QueryCallback
  BY <1>7 DEF QueryCallback
<1>8. CASE CoreRefusesRow
  BY <1>8 DEF CoreRefusesRow
<1>9. CASE Server
  BY <1>9 DEF Server, CoreAnswers, CoreSendsRow
<1>10. CASE UNCHANGED vars
  BY <1>10 DEF vars
<1> QED BY <1>1, <1>2, <1>3, <1>4, <1>5, <1>6, <1>7, <1>8, <1>9, <1>10 DEF
        Next

(* Where the background's threads are when there is an answer.             *)
LEMMA BackgroundStep == IInv /\ [Next]_vars => BackgroundInv'
<1> SUFFICES ASSUME IInv, [Next]_vars
             PROVE  BackgroundInv'
  OBVIOUS
<1> USE DEF BackgroundInv, IInv, SubmissionInv, AnswerInv, RowsInv, executor,
            iterator, core, futures, caller, OkayToStream, IsCoreError,
            IsEndOfRows, OpenQuery, CancelCore, MarkCancelled, CoreFtDone,
            HasResult, AtResult, Answers
<1>1. CASE AppCalls
  <2>1. CASE ExecuteQuery
    BY <2>1 DEF ExecuteQuery
  <2>2. CASE Iter
    BY <2>2 DEF Iter
  <2>3. CASE NextRow
    BY <2>3 DEF NextRow
  <2>4. CASE Cancel
    BY <2>4 DEF Cancel
  <2>5. CASE Metadata
    BY <2>5 DEF Metadata
  <2> QED BY <1>1, <2>1, <2>2, <2>3, <2>4, <2>5 DEF AppCalls
<1>2. CASE AppReturns
  BY <1>2 DEF AppReturns, SubmitReturns, QueryAnswered, FutureResult, AskCore,
            RowReturns, CancelReturns
<1>3. CASE CancelToken
  BY <1>3 DEF CancelToken
<1>4. ASSUME NEW c \in Cancellers,
            CancelElsewhere(c) \/ CancelElsewhereReturns(c)
     PROVE  BackgroundInv'
  BY <1>4 DEF CancelElsewhere, CancelElsewhereReturns
<1>5. CASE Worker
  <2>1. CASE WorkerSubmits
    BY <2>1 DEF WorkerSubmits
  <2>2. CASE WorkerSubmitReturns
    BY <2>2 DEF WorkerSubmitReturns
  <2>3. CASE WorkerPolls
    BY <2>3 DEF WorkerPolls
  <2>4. CASE TokenWaitEnds
    BY <2>4 DEF TokenWaitEnds
  <2>5. CASE WorkerCancelReturns
    BY <2>5 DEF WorkerCancelReturns
  <2>6. CASE WorkerCollects
    BY <2>6 DEF WorkerCollects
  <2> QED BY <1>5, <2>1, <2>2, <2>3, <2>4, <2>5, <2>6 DEF Worker
<1>6. CASE CoreWait
  BY <1>6 DEF CoreWait, CoreWaitBegins, CoreWaitEnds
<1>7. CASE QueryCallback
  BY <1>7 DEF QueryCallback
<1>8. CASE CoreRefusesRow
  BY <1>8 DEF CoreRefusesRow
<1>9. CASE Server
  BY <1>9 DEF Server, CoreAnswers, CoreSendsRow
<1>10. CASE UNCHANGED vars
  BY <1>10 DEF vars
<1> QED BY <1>1, <1>2, <1>3, <1>4, <1>5, <1>6, <1>7, <1>8, <1>9, <1>10 DEF
        Next

(* A Future has a result: rows to read, or a Cancelled query.              *)
LEMMA FutureStep == IInv /\ [Next]_vars => FutureIsUsable'
<1> SUFFICES ASSUME IInv, [Next]_vars
             PROVE  FutureIsUsable'
  OBVIOUS
<1> USE DEF FutureIsUsable, IInv, AnswerInv, BackgroundInv, IterationInv,
            executor, iterator, futures, IsCoreError, MarkCancelled,
            CoreFtDone, Answers
<1>1. CASE AppCalls
  BY <1>1 DEF AppCalls, ExecuteQuery, Iter, NextRow, Cancel, Metadata
<1>2. CASE AppReturns
  BY <1>2 DEF AppReturns, SubmitReturns, QueryAnswered, FutureResult, AskCore,
            RowReturns, CancelReturns
<1>3. CASE CancelToken
  BY <1>3 DEF CancelToken
<1>4. ASSUME NEW c \in Cancellers,
            CancelElsewhere(c) \/ CancelElsewhereReturns(c)
     PROVE  FutureIsUsable'
  BY <1>4 DEF CancelElsewhere, CancelElsewhereReturns
<1>5. CASE Worker
  BY <1>5 DEF Worker, WorkerSubmits, WorkerSubmitReturns, WorkerPolls,
            TokenWaitEnds, WorkerCancelReturns, WorkerCollects
<1>6. CASE CoreWait
  BY <1>6 DEF CoreWait, CoreWaitBegins, CoreWaitEnds
<1>7. CASE QueryCallback
  BY <1>7 DEF QueryCallback
<1>8. CASE CoreRefusesRow
  BY <1>8 DEF CoreRefusesRow
<1>9. CASE Server
  BY <1>9 DEF Server, CoreAnswers, CoreSendsRow
<1>10. CASE UNCHANGED vars
  BY <1>10 DEF vars
<1> QED BY <1>1, <1>2, <1>3, <1>4, <1>5, <1>6, <1>7, <1>8, <1>9, <1>10 DEF
        Next

(* Whoever may iterate has a stream behind the query.                      *)
LEMMA IterationStep == IInv /\ [Next]_vars => (LiveIteration /\ IterationInv)'
<1> SUFFICES ASSUME IInv, [Next]_vars
             PROVE  (LiveIteration /\ IterationInv)'
  OBVIOUS
<1> USE DEF LiveIteration, IterationInv, IInv, TypeOK, AnswerInv,
            BackgroundInv, executor, iterator, caller, OkayToStream,
            OkayToIterate, IsCoreError, Raised, MarkCancelled, AtResult,
            Answers
<1>1. CASE AppCalls
  <2>1. CASE ExecuteQuery
    BY <2>1 DEF ExecuteQuery
  <2>2. CASE Iter
    BY <2>2 DEF Iter
  <2>3. CASE NextRow
    <3>1. OkayToIterate => queryResult
      BY <2>3 DEF NextRow
    <3>2. UNCHANGED <<mode, iterating, queryResult, state, cancelled>>
      BY <2>3 DEF NextRow
    <3> QED BY <2>3, <3>1, <3>2 DEF NextRow
  <2>4. CASE Cancel
    BY <2>4 DEF Cancel
  <2>5. CASE Metadata
    BY <2>5 DEF Metadata
  <2> QED BY <1>1, <2>1, <2>2, <2>3, <2>4, <2>5 DEF AppCalls
<1>2. CASE AppReturns
  <2>1. CASE SubmitReturns
    BY <2>1 DEF SubmitReturns
  <2>2. CASE QueryAnswered
    <3>1. app' = "idle" /\ mode # "background" /\ ~IsCoreError(barrier) => queryResult
      BY <2>2 DEF QueryAnswered
    <3>2. UNCHANGED <<mode, queryResult, state, cancelled>>
      BY <2>2 DEF QueryAnswered
    <3> QED BY <2>2, <3>1, <3>2 DEF QueryAnswered
  <2>3. CASE FutureResult
    BY <2>3 DEF FutureResult
  <2>4. CASE AskCore
    BY <2>4 DEF AskCore
  <2>5. CASE RowReturns
    BY <2>5 DEF RowReturns
  <2>6. CASE CancelReturns
    BY <2>6 DEF CancelReturns
  <2> QED BY <1>2, <2>1, <2>2, <2>3, <2>4, <2>5, <2>6 DEF AppReturns
<1>3. CASE CancelToken
  BY <1>3 DEF CancelToken
<1>4. ASSUME NEW c \in Cancellers,
            CancelElsewhere(c) \/ CancelElsewhereReturns(c)
     PROVE  (LiveIteration /\ IterationInv)'
  BY <1>4 DEF CancelElsewhere, CancelElsewhereReturns
<1>5. CASE Worker
  BY <1>5 DEF Worker, WorkerSubmits, WorkerSubmitReturns, WorkerPolls,
            TokenWaitEnds, WorkerCancelReturns, WorkerCollects
<1>6. CASE CoreWait
  BY <1>6 DEF CoreWait, CoreWaitBegins, CoreWaitEnds
<1>7. CASE QueryCallback
  BY <1>7 DEF QueryCallback
<1>8. CASE CoreRefusesRow
  BY <1>8 DEF CoreRefusesRow
<1>9. CASE Server
  BY <1>9 DEF Server, CoreAnswers, CoreSendsRow
<1>10. CASE UNCHANGED vars
  BY <1>10 DEF vars
<1> QED BY <1>1, <1>2, <1>3, <1>4, <1>5, <1>6, <1>7, <1>8, <1>9, <1>10 DEF
        Next

(* No row of the stream is lost or counted twice.                          *)
LEMMA RowsStep == IInv /\ [Next]_vars => RowsInv'
<1> SUFFICES ASSUME IInv, [Next]_vars
             PROVE  RowsInv'
  OBVIOUS
<1> USE DEF RowsInv, IInv, TypeOK, AnswerInv, executor, iterator, core,
            caller, IsCoreError, IsEndOfRows, OpenQuery, CancelCore,
            MarkCancelled, Answers
<1>1. CASE AppCalls
  BY <1>1 DEF AppCalls, ExecuteQuery, Iter, NextRow, Cancel, Metadata
<1>2. CASE AppReturns
  BY <1>2 DEF AppReturns, SubmitReturns, QueryAnswered, FutureResult, AskCore,
            RowReturns, CancelReturns
<1>3. CASE CancelToken
  BY <1>3 DEF CancelToken
<1>4. ASSUME NEW c \in Cancellers,
            CancelElsewhere(c) \/ CancelElsewhereReturns(c)
     PROVE  RowsInv'
  BY <1>4 DEF CancelElsewhere, CancelElsewhereReturns
<1>5. CASE Worker
  BY <1>5 DEF Worker, WorkerSubmits, WorkerSubmitReturns, WorkerPolls,
            TokenWaitEnds, WorkerCancelReturns, WorkerCollects
<1>6. CASE CoreWait
  BY <1>6 DEF CoreWait, CoreWaitBegins, CoreWaitEnds
<1>7. CASE QueryCallback
  BY <1>7 DEF QueryCallback
<1>8. CASE CoreRefusesRow
  BY <1>8 DEF CoreRefusesRow
<1>9. CASE Server
  BY <1>9 DEF Server, CoreAnswers, CoreSendsRow
<1>10. CASE UNCHANGED vars
  BY <1>10 DEF vars
<1> QED BY <1>1, <1>2, <1>3, <1>4, <1>5, <1>6, <1>7, <1>8, <1>9, <1>10 DEF
        Next

-----------------------------------------------------------------------------
(* The parts together.                                                     *)
LEMMA StepInv == IInv /\ [Next]_vars => IInv'
<1> SUFFICES ASSUME IInv, [Next]_vars
             PROVE  IInv'
  OBVIOUS
<1>1. TypeOK /\ SubmissionInv /\ AnswerInv
  BY DEF IInv
<1>2. (TypeOK /\ SubmissionInv /\ AnswerInv)'
  BY <1>1, TypeStep, SubmissionStep, AnswerStep
<1>3. (BackgroundInv /\ FutureIsUsable /\ RowsInv)'
  BY BackgroundStep, FutureStep, RowsStep
<1>4. (LiveIteration /\ IterationInv)'
  BY IterationStep
<1> QED BY <1>2, <1>3, <1>4 DEF IInv

(* The inductive invariant holds in every reachable state.                 *)
THEOREM Invariance == Spec => []IInv
<1>1. Init => IInv
  BY InitInv
<1>2. IInv /\ [Next]_vars => IInv'
  BY StepInv
<1> QED BY <1>1, <1>2, PTL DEF Spec

(* Every variable keeps its type, the fields of ret and the program        *)
(* counters of the threads included.                                       *)
THEOREM TypeCorrect == Spec => []TypeOK
<1>1. IInv => TypeOK
  BY DEF IInv
<1> QED BY <1>1, Invariance, PTL

(* The pointer that iternext dereferences is never null, in any mode and   *)
(* with any number of cancelling threads.                                  *)
THEOREM IterationIsLive == Spec => []LiveIteration
<1>1. IInv => LiveIteration
  BY DEF IInv
<1> QED BY <1>1, Invariance, PTL

(* A Future that resolves without an exception leaves rows to read or a    *)
(* Cancelled query.                                                        *)
THEOREM FuturesAreUsable == Spec => []FutureIsUsable
<1>1. IInv => FutureIsUsable
  BY DEF IInv
<1> QED BY <1>1, Invariance, PTL

(* Completed and metadata come after the last row, for answers of any      *)
(* length.                                                                 *)
THEOREM RowsAreDelivered == Spec => []NoRowLost
<1>1. IInv => NoRowLost
  <2> SUFFICES ASSUME IInv, state = "Completed" \/ metadata
               PROVE  handed + dropped = nrows
    BY DEF NoRowLost
  <2>1. handed \in Nat /\ dropped \in Nat /\ sent \in Nat
    BY DEF IInv, TypeOK
  <2>2. sent = nrows /\ reply # "row"
    BY DEF IInv, RowsInv
  <2>3. handed + dropped + 0 = sent
    BY <2>2 DEF IInv, RowsInv
  <2> QED BY <2>1, <2>2, <2>3
<1> QED BY <1>1, Invariance, PTL

(* The query is sent to the server at most once.                           *)
THEOREM SentOnce == Spec => []ExecutedOnce
<1>1. IInv => ExecutedOnce
  BY DEF IInv, SubmissionInv, ExecutedOnce
<1> QED BY <1>1, Invariance, PTL

(* Once cancel() has returned, next() asks the core for nothing: the state *)
(* is Cancelled, or Completed by a row request that was under way.         *)
THEOREM CancelIsFinal == Spec => CancelSticks
<1>1. IInv /\ [Next]_vars => (cancelled /\ app = "idle" => app' # "guarded")
  <2> SUFFICES ASSUME IInv, [Next]_vars, cancelled, app = "idle"
               PROVE  app' # "guarded"
    OBVIOUS
  <2>1. ~OkayToIterate
    BY DEF IInv, IterationInv, OkayToIterate
  <2>2. CASE AppCalls
    BY <2>1, <2>2 DEF AppCalls, ExecuteQuery, Iter, NextRow, Cancel, Metadata
  <2>3. CASE AppReturns
    BY <2>3 DEF AppReturns, SubmitReturns, QueryAnswered, FutureResult,
         AskCore, RowReturns, CancelReturns
  <2>4. CASE UNCHANGED caller
    BY <2>4 DEF caller
  <2>5. CASE UNCHANGED vars
    BY <2>5 DEF vars, caller
  <2>6. CASE CancelToken \/ QueryCallback \/ CoreRefusesRow \/ Server
    BY <2>4, <2>6 DEF CancelToken, QueryCallback, CoreRefusesRow, Server,
         CoreAnswers, CoreSendsRow
  <2>7. CASE \E c \in Cancellers :
               CancelElsewhere(c) \/ CancelElsewhereReturns(c)
    BY <2>4, <2>7 DEF CancelElsewhere, CancelElsewhereReturns
  <2>8. CASE Worker \/ CoreWait
    BY <2>4, <2>8 DEF Worker, WorkerSubmits, WorkerSubmitReturns, WorkerPolls,
         TokenWaitEnds, WorkerCancelReturns, WorkerCollects, CoreWait,
         CoreWaitBegins, CoreWaitEnds
  <2> QED BY <2>2, <2>3, <2>5, <2>6, <2>7, <2>8 DEF Next
<1> QED BY <1>1, Invariance, PTL DEF Spec, CancelSticks
-----------------------------------------------------------------------------
(***************************************************************************)
(* The query implements QueryStream: a call that ends or is cancelled is   *)
(* one step of the promise, everything else a stutter.                     *)
(***************************************************************************)

(* The initial states map to initial states.                               *)
LEMMA InitMaps == Init => QS!Init
BY DEF Init, QS!Init

(* Every step maps to a step or a stutter.                                 *)
LEMMA StepMaps == IInv /\ [Next]_vars => [QS!Next]_(QS!vars)
<1> SUFFICES ASSUME IInv, [Next]_vars
             PROVE  [QS!Next]_(QS!vars)
  OBVIOUS
<1>1. handed \in Nat /\ dropped \in Nat /\ sent \in Nat /\ nrows \in Nat
  BY DEF IInv, TypeOK
<1> USE DEF executor, iterator, core, futures, caller, Returned, QS!Next,
            QS!vars
<1>2. ASSUME UNCHANGED <<state, nrows, handed, dropped, metadata>>,
             app' \in {"guarded", "rowWait"} <=> app \in {"guarded", "rowWait"}
      PROVE  UNCHANGED QS!vars
  BY <1>2
<1>3. ASSUME state # "NotStarted", state' = "Cancelled",
             UNCHANGED <<nrows, handed, dropped, metadata>>,
             app' \in {"guarded", "rowWait"} <=> app \in {"guarded", "rowWait"}
      PROVE  QS!Cancel
  BY <1>3 DEF QS!Cancel
<1>4. ASSUME OkayToStream, OpenQuery, UNCHANGED <<nrows, handed, dropped>>,
             app' \in {"guarded", "rowWait"} <=> app \in {"guarded", "rowWait"}
      PROVE  QS!Start
  BY <1>4 DEF QS!Start, OkayToStream, OpenQuery
<1>5. CASE AppCalls
  <2>1. CASE ExecuteQuery
    BY <2>1, <1>2, <1>4 DEF ExecuteQuery
  <2>2. CASE Iter
    BY <2>2, <1>2, <1>4 DEF Iter
  <2>3. CASE NextRow
    BY <2>3, <1>2 DEF NextRow, OkayToIterate, QS!Ask
  <2>4. CASE Cancel
    BY <2>4, <1>2 DEF Cancel
  <2>5. CASE Metadata
    <3>1. CASE metadata' = metadata
      BY <2>5, <3>1, <1>2, app' \in {"idle", "crashed"} DEF Metadata
    <3>2. CASE metadata' # metadata
      <4>1. metadata' = TRUE /\ stream = "ended"
        BY <2>5, <3>2 DEF Metadata, IInv, TypeOK
      <4>2. handed + dropped = nrows
        BY <4>1, <1>1 DEF IInv, RowsInv
      <4> QED BY <2>5, <4>1, <4>2 DEF Metadata, QS!GiveMetadata
    <3> QED BY <3>1, <3>2
  <2> QED BY <1>5, <2>1, <2>2, <2>3, <2>4, <2>5 DEF AppCalls
<1>6. CASE AppReturns
  <2>1. CASE SubmitReturns \/ QueryAnswered \/ FutureResult
    BY <2>1, <1>2 DEF SubmitReturns, QueryAnswered, FutureResult, Raised
  <2>2. CASE AskCore
    BY <2>2, <1>2 DEF AskCore, IInv, LiveIteration
  <2>3. CASE RowReturns
    <3>1. CASE reply = "row"
      <4>1. handed + dropped + 1 = sent /\ sent <= nrows
        BY <3>1 DEF IInv, RowsInv
      <4>2. /\ (handed + dropped)' = handed + dropped + 1
            /\ UNCHANGED <<state, nrows, metadata>>
            /\ app = "rowWait" /\ app' = "idle"
        BY <2>3, <3>1, <1>1 DEF RowReturns, IsEndOfRows, IsCoreError
      <4> QED BY <4>1, <4>2, <1>1 DEF QS!HandRow
    <3>2. CASE IsEndOfRows(reply)
      <4>1. handed + dropped = nrows
        BY <3>2, <1>1 DEF IInv, RowsInv, IsEndOfRows
      <4> QED BY <2>3, <3>2, <4>1 DEF RowReturns, IsEndOfRows, IsCoreError,
                                      QS!Finish
    <3>3. CASE IsCoreError(reply)
      BY <2>3, <3>3 DEF RowReturns, IsEndOfRows, IsCoreError, QS!Fail
    <3> QED BY <2>3, <3>1, <3>2, <3>3 DEF RowReturns
  <2>4. CASE CancelReturns
    BY <2>4, <1>3 DEF CancelReturns, MarkCancelled, IInv, SubmissionInv
  <2> QED BY <1>6, <2>1, <2>2, <2>3, <2>4 DEF AppReturns
<1>7. CASE CancelToken \/ QueryCallback \/ CoreRefusesRow \/ Server
  BY <1>7, <1>2 DEF CancelToken, QueryCallback, CoreRefusesRow, Server,
     CoreAnswers, CoreSendsRow
<1>8. ASSUME NEW c \in Cancellers,
             CancelElsewhere(c) \/ CancelElsewhereReturns(c)
      PROVE  [QS!Next]_(QS!vars)
  BY <1>8, <1>2, <1>3 DEF CancelElsewhere, CancelElsewhereReturns, MarkCancelled,
     IInv, SubmissionInv
<1>9. CASE Worker \/ CoreWait
  <2>1. CASE WorkerSubmits
    BY <2>1, <1>4 DEF WorkerSubmits
  <2>2. CASE WorkerCancelReturns
    BY <2>2, <1>3 DEF WorkerCancelReturns, MarkCancelled, IInv, SubmissionInv
  <2>3. CASE WorkerSubmitReturns \/ WorkerPolls \/ TokenWaitEnds
               \/ WorkerCollects \/ CoreWait
    BY <2>3, <1>2 DEF WorkerSubmitReturns, WorkerPolls, TokenWaitEnds,
       CancelCore, WorkerCollects, CoreWait, CoreWaitBegins, CoreWaitEnds
  <2> QED BY <1>9, <2>1, <2>2, <2>3 DEF Worker
<1>10. CASE UNCHANGED vars
  BY <1>10, <1>2 DEF vars
<1> QED BY <1>5, <1>6, <1>7, <1>8, <1>9, <1>10 DEF Next

(* What QueryStream promises holds of the query.                           *)
THEOREM Refinement == Spec => ImplementsQueryStream
<1>1. Init => QS!Init
  BY InitMaps
<1>2. IInv /\ [Next]_vars => [QS!Next]_(QS!vars)
  BY StepMaps
<1> QED BY <1>1, <1>2, Invariance, PTL DEF Spec, ImplementsQueryStream, QS!Spec
=============================================================================
