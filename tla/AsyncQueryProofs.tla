-------------------------- MODULE AsyncQueryProofs --------------------------
(***************************************************************************)
(* The safety properties of AsyncQuery that concern its types and its      *)
(* result, for every set of tasks and any number of rows and requests.     *)
(***************************************************************************)
EXTENDS AsyncQuery, TLAPS

Callbacks == [do : {"iter", "row", "done"}, id : Nat,
              reply : [kind : Kinds \cup {"ok"}, row : Nat]]

(* What a sequence holds after an element was put behind it.               *)
LEMMA AppendElements ==
  ASSUME NEW S, NEW s \in Seq(S), NEW e \in S
  PROVE  /\ Append(s, e) \in Seq(S)
         /\ Len(Append(s, e)) = Len(s) + 1
         /\ \A i \in DOMAIN Append(s, e) :
              (i \in DOMAIN s /\ Append(s, e)[i] = s[i]) \/ Append(s, e)[i] = e
OBVIOUS

(* What is left of a sequence behind its head.                             *)
LEMMA TailElements ==
  ASSUME NEW S, NEW s \in Seq(S), s # <<>>
  PROVE  /\ Head(s) \in S /\ Tail(s) \in Seq(S)
         /\ 1 \in DOMAIN s /\ Head(s) = s[1]
         /\ \A i \in DOMAIN Tail(s) : i + 1 \in DOMAIN s /\ Tail(s)[i] = s[i + 1]
OBVIOUS

(* A callback that the loop gets keeps what is known of the loop's queue,  *)
(* if it is true of the callback itself.                                   *)
LEMMA CallbackQueued ==
  ASSUME QueryInv, NEW e \in Callbacks, ready' = Append(ready, e),
         queryResult => queryResult',
         e.do = "row" => e.reply \in Reply,
         e.do = "iter" /\ e.reply.kind = "ok" => queryResult'
  PROVE  /\ ready' \in Seq(Callbacks)
         /\ \A i \in DOMAIN ready' : SuccessQueued(i)' => queryResult'
         /\ \A i \in DOMAIN ready' : ready'[i].do = "row" => ready'[i].reply \in Reply
<1>1. ready \in Seq(Callbacks)
  BY DEF QueryInv, TypeOK, Callbacks
<1>2. \A i \in DOMAIN ready' : (i \in DOMAIN ready /\ ready'[i] = ready[i]) \/ ready'[i] = e
  BY <1>1, AppendElements
<1>3. ready' \in Seq(Callbacks)
  BY <1>1, AppendElements
<1> QED BY <1>2, <1>3 DEF QueryInv, AnswerInv, RequestInv, SuccessQueued

(* So does a callback that the loop takes.                                 *)
LEMMA CallbackTaken ==
  ASSUME QueryInv, ready # <<>>, ready' = Tail(ready), queryResult => queryResult'
  PROVE  /\ Head(ready) \in Callbacks
         /\ Head(ready).do = "row" => Head(ready).reply \in Reply
         /\ Head(ready).do = "iter" /\ Head(ready).reply.kind = "ok" => queryResult
         /\ ready' \in Seq(Callbacks)
         /\ \A i \in DOMAIN ready' : SuccessQueued(i)' => queryResult'
         /\ \A i \in DOMAIN ready' : ready'[i].do = "row" => ready'[i].reply \in Reply
<1>1. ready \in Seq(Callbacks)
  BY DEF QueryInv, TypeOK, Callbacks
<1>2. /\ \A i \in DOMAIN ready' : i + 1 \in DOMAIN ready /\ ready'[i] = ready[i + 1]
      /\ 1 \in DOMAIN ready /\ Head(ready) = ready[1]
      /\ Head(ready) \in Callbacks /\ ready' \in Seq(Callbacks)
  BY <1>1, TailElements
<1> QED BY <1>2 DEF QueryInv, AnswerInv, RequestInv, SuccessQueued

(* And a step that leaves the queue alone.                                 *)
LEMMA CallbacksKept ==
  ASSUME QueryInv, UNCHANGED ready, queryResult => queryResult'
  PROVE  /\ ready' \in Seq(Callbacks)
         /\ \A i \in DOMAIN ready' : SuccessQueued(i)' => queryResult'
         /\ \A i \in DOMAIN ready' : ready'[i].do = "row" => ready'[i].reply \in Reply
BY DEF QueryInv, TypeOK, AnswerInv, RequestInv, SuccessQueued, Callbacks
-----------------------------------------------------------------------------
(* Settling a row future leaves the others, and their number, alone.       *)
LEMMA RowFtSettled ==
  ASSUME rowFts \in Seq(RowFt), NEW id, NEW answer \in RowFt
  PROVE  /\ [rowFts EXCEPT ![id] = answer] \in Seq(RowFt)
         /\ Len([rowFts EXCEPT ![id] = answer]) = Len(rowFts)
<1> DEFINE settled == [rowFts EXCEPT ![id] = answer]
<1>1. rowFts \in [1 .. Len(rowFts) -> RowFt] /\ Len(rowFts) \in Nat
  OBVIOUS
<1>2. settled \in [1 .. Len(rowFts) -> RowFt]
  BY <1>1
<1> QED BY <1>1, <1>2

(* The invariant holds initially.                                          *)
LEMMA InitInv == Init => QueryInv
<1> SUFFICES ASSUME Init
             PROVE  QueryInv
  OBVIOUS
<1> USE AsyncQueryAssumption
<1>1. /\ rowFts \in Seq(RowFt) /\ replies \in Seq(Reply) /\ ready \in Seq(Callbacks)
      /\ waits \in [Tasks -> Nat] /\ received \in [Tasks -> Seq(Nat)]
  BY DEF Init
<1>2. TypeOK
  BY <1>1 DEF Init, TypeOK, Callbacks
<1>3. AnswerInv
  BY DEF Init, AnswerInv, SuccessQueued
<1>4. RequestInv
  BY DEF Init, RequestInv
<1> QED BY <1>2, <1>3, <1>4 DEF QueryInv

(* Every step keeps it: one case for each action.                          *)
LEMMA NextInv == QueryInv /\ [Next]_vars => QueryInv'
<1> SUFFICES ASSUME QueryInv, [Next]_vars
             PROVE  QueryInv'
  OBVIOUS
<1> USE DEF query, rows, tasks
<1>1. CASE ExecuteQuery
  BY <1>1, CallbacksKept DEF ExecuteQuery, QueryInv, TypeOK, AnswerInv, RequestInv, Callbacks
<1>2. CASE SubmitReturns
  BY <1>2, CallbacksKept DEF SubmitReturns, QueryInv, TypeOK, AnswerInv, RequestInv, Callbacks
<1>3. CASE AwaitReturns
  BY <1>3, CallbacksKept DEF AwaitReturns, QueryInv, TypeOK, AnswerInv, RequestInv, Callbacks
<1>4. CASE QueryCallback
  BY <1>4, CallbacksKept DEF QueryCallback, StreamOpened, QueryInv, TypeOK, AnswerInv, RequestInv, Callbacks
<1>5. CASE CancelResult
  BY <1>5, CallbacksKept DEF CancelResult, Cancel, QueryInv, TypeOK, AnswerInv, RequestInv, Callbacks
<1>6. CASE Metadata
  BY <1>6, CallbacksKept DEF Metadata, HasMetadata, QueryInv, TypeOK, AnswerInv, RequestInv, Callbacks
<1>7. CASE CoreAnswers
  BY <1>7, CallbacksKept DEF CoreAnswers, QueryInv, TypeOK, AnswerInv, RequestInv, Callbacks
<1>8. CASE QueryCallbackQueues
  <2>1. ToIterFt(io) \in Callbacks
    BY <1>8 DEF QueryCallbackQueues, ToIterFt, Answer, Callbacks, Kinds, QueryInv, TypeOK
  <2>2. ToIterFt(io).do = "iter" /\ (ToIterFt(io).reply.kind = "ok" => queryResult)
    BY <1>8 DEF QueryCallbackQueues, ToIterFt, Answer, QueryInv, AnswerInv
  <2> QED BY <1>8, <2>1, <2>2, CallbackQueued
         DEF QueryCallbackQueues, QueryInv, TypeOK, AnswerInv, RequestInv, Callbacks
<1>9. CASE CancelFuture
  <2>1. DoneCallback \in Callbacks /\ DoneCallback.do = "done"
    BY DEF DoneCallback, Answer, Callbacks, Kinds
  <2> QED BY <1>9, <2>1, CallbackQueued
         DEF CancelFuture, QueryInv, TypeOK, AnswerInv, RequestInv, Callbacks
<1>10. ASSUME NEW t \in Tasks, NextRow(t)
       PROVE  QueryInv'
  <2>1. Answer("pending") \in RowFt
    BY DEF Answer, RowFt
  <2>2. rowFts' \in Seq(RowFt) /\ Len(rowFts') = Len(rowFts) + 1
    BY <1>10, <2>1, AppendElements DEF NextRow, NewRowFt, QueryInv, TypeOK
  <2>3. rowFts \in Seq(RowFt) /\ Len(rowFts) \in Nat
    BY DEF QueryInv, TypeOK
  <2>4. \A u \in Tasks : waits'[u] \in 0 .. Len(rowFts')
    BY <1>10, <2>2, <2>3 DEF NextRow, QueryInv, TypeOK, RequestInv
  <2>5. waits' \in [Tasks -> Nat]
    BY <1>10, <2>2, <2>3 DEF NextRow, QueryInv, TypeOK
  <2> QED BY <1>10, <2>2, <2>4, <2>5, CallbacksKept
         DEF NextRow, QueryInv, TypeOK, AnswerInv, RequestInv, Callbacks
<1>11. ASSUME NEW t \in Tasks, RowReturns(t)
       PROVE  QueryInv'
  <2>1. rowFts[waits[t]] \in RowFt
    BY <1>11 DEF RowReturns, QueryInv, TypeOK, RequestInv
  <2>2. received' \in [Tasks -> Seq(Nat)]
    BY <1>11, <2>1 DEF RowReturns, RowFt, QueryInv, TypeOK
  <2>3. waits' \in [Tasks -> Nat] /\ \A u \in Tasks : waits'[u] \in 0 .. Len(rowFts)
    BY <1>11 DEF RowReturns, QueryInv, TypeOK, RequestInv
  <2> QED BY <1>11, <2>2, <2>3, CallbacksKept
         DEF RowReturns, QueryInv, TypeOK, AnswerInv, RequestInv, Callbacks
<1>12. ASSUME NEW t \in Tasks, CancelAwait(t)
       PROVE  QueryInv'
  <2>1. Answer("cancelled") \in RowFt
    BY DEF Answer, RowFt
  <2>2. rowFts' \in Seq(RowFt) /\ Len(rowFts') = Len(rowFts)
    <3>1. rowFts \in Seq(RowFt)
      BY DEF QueryInv, TypeOK
    <3>2. rowFts' = rowFts \/ rowFts' = [rowFts EXCEPT ![waits[t]] = Answer("cancelled")]
      BY <1>12 DEF CancelAwait
    <3> QED BY <2>1, <3>1, <3>2, RowFtSettled
  <2>3. waits' \in [Tasks -> Nat] /\ \A u \in Tasks : waits'[u] \in 0 .. Len(rowFts')
    BY <1>12, <2>2 DEF CancelAwait, QueryInv, TypeOK, RequestInv
  <2>4. lost' \in Nat /\ cancels' \in Nat
    BY <1>12 DEF CancelAwait, QueryInv, TypeOK
  <2> QED BY <1>12, <2>2, <2>3, <2>4, CallbacksKept
         DEF CancelAwait, QueryInv, TypeOK, AnswerInv, RequestInv, Callbacks
<1>13. CASE RowCallback
  <2>1. Head(replies) \in Reply /\ replies' \in Seq(Reply)
    BY <1>13, TailElements DEF RowCallback, QueryInv, TypeOK
  <2> DEFINE e == ToRowFt(TargetRowFt, Head(replies))
  <2>2. e \in Callbacks /\ e.do = "row" /\ e.reply \in Reply
    <3>1. Len(rowFts) \in Nat
      BY DEF QueryInv, TypeOK
    <3>2. Head(replies) \in [kind : Kinds \cup {"ok"}, row : Nat]
      BY <2>1 DEF Reply
    <3> QED BY <2>1, <3>1, <3>2 DEF ToRowFt, TargetRowFt, Callbacks
  <2>3. ready' = Append(ready, e)
    BY <1>13 DEF RowCallback
  <2> HIDE DEF e
  <2>4. /\ ready' \in Seq(Callbacks)
        /\ \A i \in DOMAIN ready' : SuccessQueued(i)' => queryResult'
        /\ \A i \in DOMAIN ready' : ready'[i].do = "row" => ready'[i].reply \in Reply
    <3>1. queryResult' = queryResult
      BY <1>13 DEF RowCallback, query
    <3> QED BY <2>2, <2>3, <3>1, CallbackQueued
  <2>5. TypeOK'
    BY <1>13, <2>1, <2>4 DEF RowCallback, query, tasks, QueryInv, TypeOK, Callbacks
  <2>6. AnswerInv' /\ RequestInv'
    BY <1>13, <2>4 DEF RowCallback, query, tasks, QueryInv, AnswerInv, RequestInv
  <2> QED BY <2>5, <2>6 DEF QueryInv
<1>14. CASE LoopResolvesQuery
  BY <1>14, CallbackTaken
     DEF LoopResolvesQuery, Resolution, QueryInv, TypeOK, AnswerInv, RequestInv, Callbacks
<1>15. CASE LoopResolvesRow
  <2>1. Head(ready).reply \in RowFt
    BY <1>15, CallbackTaken DEF LoopResolvesRow, Reply, RowFt
  <2>2. rowFts' \in Seq(RowFt) /\ Len(rowFts') = Len(rowFts)
    <3>1. rowFts \in Seq(RowFt)
      BY DEF QueryInv, TypeOK
    <3>2. rowFts' = rowFts \/ rowFts' = [rowFts EXCEPT ![Head(ready).id] = Head(ready).reply]
      BY <1>15 DEF LoopResolvesRow
    <3> QED BY <2>1, <3>1, <3>2, RowFtSettled
  <2>3. lost' \in Nat
    BY <1>15 DEF LoopResolvesRow, QueryInv, TypeOK
  <2> QED BY <1>15, <2>2, <2>3, CallbackTaken
         DEF LoopResolvesRow, QueryInv, TypeOK, AnswerInv, RequestInv, Callbacks
<1>16. CASE LoopCancelsQuery
  BY <1>16, CallbackTaken
     DEF LoopCancelsQuery, Cancel, QueryInv, TypeOK, AnswerInv, RequestInv, Callbacks
<1>17. CASE CoreSendsRow
  <2>1. sent' \in Nat /\ stream' \in {"open", "ended", "failed"}
    BY <1>17 DEF CoreSendsRow, QueryInv, TypeOK
  <2>2. \E reply \in Reply : CoreReplies(reply)
    <3>1. [kind |-> "row", row |-> sent + 1] \in Reply
      BY DEF Reply, Kinds, QueryInv, TypeOK
    <3>2. Answer("end") \in Reply /\ Answer("error") \in Reply
      BY DEF Answer, Reply, Kinds
    <3>3. \/ CoreReplies([kind |-> "row", row |-> sent + 1])
          \/ CoreReplies(Answer("end"))
          \/ CoreReplies(Answer("error"))
      BY <1>17 DEF CoreSendsRow
    <3> QED BY <3>1, <3>2, <3>3, Zenon
  <2>3. asked' \in Nat /\ replies' \in Seq(Reply)
    BY <2>2 DEF CoreReplies, QueryInv, TypeOK
  <2> QED BY <1>17, <2>1, <2>2, <2>3, CallbacksKept
         DEF CoreSendsRow, CoreReplies, QueryInv, TypeOK, AnswerInv, RequestInv, Callbacks
<1>18. CASE CoreRefusesRow
  <2>1. \E reply \in Reply : CoreReplies(reply)
    BY <1>18 DEF CoreRefusesRow, Reply, Answer, Kinds
  <2>2. asked' \in Nat /\ replies' \in Seq(Reply)
    BY <2>1 DEF CoreReplies, QueryInv, TypeOK
  <2> QED BY <1>18, <2>1, <2>2, CallbacksKept
         DEF CoreRefusesRow, CoreReplies, QueryInv, TypeOK, AnswerInv, RequestInv, Callbacks
<1>19. CASE UNCHANGED vars
  BY <1>19, CallbacksKept
     DEF vars, QueryInv, TypeOK, AnswerInv, RequestInv, Callbacks
<1> QED BY <1>1, <1>2, <1>3, <1>4, <1>5, <1>6, <1>7, <1>8, <1>9, <1>10, <1>11, <1>12,
           <1>13, <1>14, <1>15, <1>16, <1>17, <1>18, <1>19
       DEF Next, Submission, Returns, IOThread, Loop, Server
-----------------------------------------------------------------------------
(* The inductive invariant of an asyncio query.                            *)
THEOREM Invariance == Spec => []QueryInv
BY InitInv, NextInv, PTL DEF Spec

(* Every variable keeps its type.                                          *)
THEOREM TypeCorrect == Spec => []TypeOK
<1>1. QueryInv => TypeOK
  BY DEF QueryInv
<1> QED BY <1>1, Invariance, PTL

(* An AsyncQueryResult never has a null query_result_.                     *)
THEOREM ResultsAreLive == Spec => []ResultIsLive
<1>1. QueryInv => ResultIsLive
  BY DEF QueryInv, AnswerInv, ResultIsLive
<1> QED BY <1>1, Invariance, PTL
=============================================================================
