-------------------------- MODULE AsyncRowsProofs --------------------------
(***************************************************************************)
(* The safety properties of AsyncQuery that concern the rows: none         *)
(* vanishes, they arrive in order, and one is lost only by a cancelled     *)
(* await or to a task whose row future was replaced; for every set of      *)
(* tasks and any number of rows.                                           *)
(*                                                                         *)
(* First the places of the rows in the queues and how they move, then one  *)
(* lemma for each action that concerns a row, and the theorems.            *)
(***************************************************************************)
EXTENDS AsyncQueryProofs, FiniteSetTheorems, FunctionTheorems

(* The places of a sequence that hold an element of R.                     *)
Places(s, R) == {i \in DOMAIN s : s[i] \in R}

(* They are finitely many.                                                 *)
LEMMA FinitePlaces ==
  ASSUME NEW S, NEW s \in Seq(S), NEW R
  PROVE  IsFiniteSet(Places(s, R)) /\ Cardinality(Places(s, R)) \in Nat
<1>1. Len(s) \in Nat /\ Places(s, R) \in SUBSET (1 .. Len(s))
  BY DEF Places
<1>2. IsFiniteSet(1 .. Len(s))
  BY <1>1, FS_Interval
<1>3. IsFiniteSet(Places(s, R))
  BY <1>1, <1>2, FS_Subset
<1> QED BY <1>3, FS_CardinalityType

(* An element behind a sequence is one place more, if it is of R.          *)
LEMMA PlacesOfAppend ==
  ASSUME NEW S, NEW s \in Seq(S), NEW e \in S, NEW R
  PROVE  /\ Cardinality(Places(Append(s, e), R)) =
              Cardinality(Places(s, R)) + (IF e \in R THEN 1 ELSE 0)
         /\ Places(Append(s, e), R) =
              Places(s, R) \cup (IF e \in R THEN {Len(s) + 1} ELSE {})
<1>1. /\ Len(s) \in Nat
      /\ DOMAIN Append(s, e) = 1 .. Len(s) + 1
      /\ DOMAIN s = 1 .. Len(s)
      /\ Append(s, e)[Len(s) + 1] = e
      /\ \A i \in 1 .. Len(s) : Append(s, e)[i] = s[i]
  OBVIOUS
<1>2. Places(Append(s, e), R) =
        Places(s, R) \cup (IF e \in R THEN {Len(s) + 1} ELSE {})
  BY <1>1 DEF Places
<1>3. Len(s) + 1 \notin Places(s, R)
  BY <1>1 DEF Places
<1>4. IsFiniteSet(Places(s, R)) /\ Cardinality(Places(s, R)) \in Nat
  BY FinitePlaces
<1>5. CASE e \in R
  <2>1. Cardinality(Places(s, R) \cup {Len(s) + 1}) = Cardinality(Places(s, R)) + 1
    BY <1>3, <1>4, FS_AddElement
  <2> QED BY <1>2, <1>5, <2>1
<1>6. CASE e \notin R
  BY <1>2, <1>4, <1>6
<1> QED BY <1>2, <1>5, <1>6

(* A sequence loses its head: one place less, if that was of R.            *)
LEMMA PlacesOfTail ==
  ASSUME NEW S, NEW s \in Seq(S), s # <<>>, NEW R
  PROVE  /\ Cardinality(Places(Tail(s), R)) =
              Cardinality(Places(s, R)) - (IF Head(s) \in R THEN 1 ELSE 0)
         /\ 1 \in Places(s, R) <=> Head(s) \in R
         /\ \A i \in Places(Tail(s), R) :
              i + 1 \in Places(s, R) /\ Tail(s)[i] = s[i + 1]
         /\ \A i \in Places(s, R) : i # 1 =>
              i - 1 \in Places(Tail(s), R) /\ Tail(s)[i - 1] = s[i]
<1> DEFINE N == Places(Tail(s), R)
           M == Places(s, R) \ {1}
           f == [i \in N |-> i + 1]
<1>1. /\ Len(s) \in Nat \ {0} /\ DOMAIN s = 1 .. Len(s)
      /\ Head(s) = s[1]
      /\ DOMAIN Tail(s) = 1 .. Len(s) - 1
      /\ \A i \in 1 .. Len(s) - 1 : Tail(s)[i] = s[i + 1]
      /\ Tail(s) \in Seq(S)
  OBVIOUS
<1>2. 1 \in Places(s, R) <=> Head(s) \in R
  BY <1>1 DEF Places
<1>3. \A i \in N : i \in Nat /\ i + 1 \in M /\ Tail(s)[i] = s[i + 1]
  BY <1>1 DEF Places
<1>4. \A i \in M : i \in Nat /\ i - 1 \in N /\ Tail(s)[i - 1] = s[i]
  BY <1>1 DEF Places
<1>5. IsFiniteSet(N) /\ IsFiniteSet(Places(s, R)) /\ Cardinality(Places(s, R)) \in Nat
  BY <1>1, FinitePlaces
<1> HIDE DEF N, M
<1>6. f \in Bijection(N, M)
  <2>1. f \in [N -> M] /\ \A a, b \in N : f[a] = f[b] => a = b
    BY <1>3
  <2>2. \A m \in M : \E n \in N : f[n] = m
    <3> SUFFICES ASSUME NEW m \in M
                 PROVE  m - 1 \in N /\ f[m - 1] = m
      OBVIOUS
    <3> QED BY <1>4
  <2> QED BY <2>1, <2>2, Fun_IsBij
<1>7. Cardinality(N) = Cardinality(M)
  <2>1. ExistsBijection(N, M)
    BY <1>6 DEF ExistsBijection
  <2> QED BY <1>5, <2>1, FS_Bijection
<1>8. Cardinality(M) = Cardinality(Places(s, R)) - (IF 1 \in Places(s, R) THEN 1 ELSE 0)
  <2>1. Cardinality(M) = IF 1 \in Places(s, R) THEN Cardinality(Places(s, R)) - 1
                         ELSE Cardinality(Places(s, R))
    BY <1>5, FS_RemoveElement, Zenon DEF M
  <2> QED BY <1>5, <2>1
<1> QED BY <1>2, <1>3, <1>4, <1>7, <1>8 DEF N, M
-----------------------------------------------------------------------------
(* The rows and the answers that are on their way, by their places.        *)
RowReplies == {reply \in Reply : reply.kind = "row"}
RowCallbacks == {e \in Callbacks : IsRow(e)}
AnswerCallbacks == {e \in Callbacks : e.do = "row"}

(* The sets of the model are places in the queues, before and after a step. *)
LEMMA PlacesOfRows ==
  ASSUME TypeOK, TypeOK'
  PROVE  /\ RepliedRows = Places(replies, RowReplies)
         /\ RepliedRows' = Places(replies', RowReplies)
         /\ QueuedRows = Places(ready, RowCallbacks)
         /\ QueuedRows' = Places(ready', RowCallbacks)
         /\ Answers = Places(ready, AnswerCallbacks)
         /\ Answers' = Places(ready', AnswerCallbacks)
         /\ replies \in Seq(Reply) /\ replies' \in Seq(Reply)
         /\ ready \in Seq(Callbacks) /\ ready' \in Seq(Callbacks)
<1>1. /\ replies \in Seq(Reply) /\ replies' \in Seq(Reply)
      /\ ready \in Seq(Callbacks) /\ ready' \in Seq(Callbacks)
  BY DEF TypeOK, Callbacks
<1>2. /\ RepliedRows = Places(replies, RowReplies)
      /\ RepliedRows' = Places(replies', RowReplies)
  BY <1>1 DEF RepliedRows, Places, RowReplies
<1>3. /\ QueuedRows = Places(ready, RowCallbacks)
      /\ QueuedRows' = Places(ready', RowCallbacks)
  BY <1>1 DEF QueuedRows, Places, RowCallbacks, IsRow
<1>4. /\ Answers = Places(ready, AnswerCallbacks)
      /\ Answers' = Places(ready', AnswerCallbacks)
  BY <1>1 DEF Answers, Places, AnswerCallbacks
<1> QED BY <1>1, <1>2, <1>3, <1>4

(* The counts are numbers.                                                 *)
LEMMA CountsOfRows ==
  ASSUME TypeOK, TypeOK'
  PROVE  /\ Cardinality(RepliedRows) \in Nat /\ Cardinality(RepliedRows') \in Nat
         /\ Cardinality(QueuedRows) \in Nat /\ Cardinality(QueuedRows') \in Nat
         /\ Cardinality(Answers) \in Nat /\ Cardinality(Answers') \in Nat
BY PlacesOfRows, FinitePlaces

(* A callback is queued behind the others.                                 *)
LEMMA QueueGrows ==
  ASSUME TypeOK, TypeOK', NEW e \in Callbacks, ready' = Append(ready, e)
  PROVE  /\ Len(ready) \in Nat
         /\ \A i \in DOMAIN ready :
              i \in Nat /\ i < Len(ready) + 1 /\ ready'[i] = ready[i]
         /\ ready'[Len(ready) + 1] = e
         /\ QueuedRows' = QueuedRows \cup (IF IsRow(e) THEN {Len(ready) + 1} ELSE {})
         /\ Answers' = Answers \cup (IF e.do = "row" THEN {Len(ready) + 1} ELSE {})
         /\ Cardinality(QueuedRows') =
              Cardinality(QueuedRows) + (IF IsRow(e) THEN 1 ELSE 0)
         /\ Cardinality(Answers') =
              Cardinality(Answers) + (IF e.do = "row" THEN 1 ELSE 0)
<1>1. e \in RowCallbacks <=> IsRow(e)
  BY DEF RowCallbacks
<1>2. e \in AnswerCallbacks <=> e.do = "row"
  BY DEF AnswerCallbacks
<1>3. ready \in Seq(Callbacks)
  BY PlacesOfRows
<1>4. /\ Len(ready) \in Nat
      /\ \A i \in DOMAIN ready :
           i \in Nat /\ i < Len(ready) + 1 /\ ready'[i] = ready[i]
      /\ ready'[Len(ready) + 1] = e
  BY <1>3
<1>5. /\ QueuedRows' = QueuedRows \cup (IF IsRow(e) THEN {Len(ready) + 1} ELSE {})
      /\ Cardinality(QueuedRows') =
           Cardinality(QueuedRows) + (IF IsRow(e) THEN 1 ELSE 0)
  BY <1>1, <1>3, PlacesOfRows, PlacesOfAppend
<1>6. /\ Answers' = Answers \cup (IF e.do = "row" THEN {Len(ready) + 1} ELSE {})
      /\ Cardinality(Answers') =
           Cardinality(Answers) + (IF e.do = "row" THEN 1 ELSE 0)
  BY <1>2, <1>3, PlacesOfRows, PlacesOfAppend
<1> QED BY <1>4, <1>5, <1>6

(* The loop takes a callback.                                              *)
LEMMA QueueShrinks ==
  ASSUME TypeOK, TypeOK', ready # <<>>, ready' = Tail(ready)
  PROVE  /\ Head(ready) = ready[1] /\ 1 \in DOMAIN ready /\ DOMAIN ready \subseteq Nat
         /\ 1 \in QueuedRows <=> IsRow(Head(ready))
         /\ 1 \in Answers <=> Head(ready).do = "row"
         /\ \A i \in QueuedRows' : i + 1 \in QueuedRows /\ ready'[i] = ready[i + 1]
         /\ \A i \in QueuedRows : i # 1 => i - 1 \in QueuedRows'
         /\ \A i \in Answers' : i + 1 \in Answers /\ ready'[i] = ready[i + 1]
         /\ \A i \in Answers : i # 1 => i - 1 \in Answers' /\ ready'[i - 1] = ready[i]
         /\ Cardinality(QueuedRows') =
              Cardinality(QueuedRows) - (IF IsRow(Head(ready)) THEN 1 ELSE 0)
         /\ Cardinality(Answers') =
              Cardinality(Answers) - (IF Head(ready).do = "row" THEN 1 ELSE 0)
<1>1. ready \in Seq(Callbacks)
  BY PlacesOfRows
<1>2. /\ Head(ready) = ready[1] /\ 1 \in DOMAIN ready /\ DOMAIN ready \subseteq Nat
      /\ Head(ready) \in Callbacks
  BY <1>1
<1>3. Head(ready) \in RowCallbacks <=> IsRow(Head(ready))
  BY <1>2 DEF RowCallbacks
<1>4. Head(ready) \in AnswerCallbacks <=> Head(ready).do = "row"
  BY <1>2 DEF AnswerCallbacks
<1>5. /\ 1 \in QueuedRows <=> IsRow(Head(ready))
      /\ \A i \in QueuedRows' : i + 1 \in QueuedRows /\ ready'[i] = ready[i + 1]
      /\ \A i \in QueuedRows : i # 1 => i - 1 \in QueuedRows'
      /\ Cardinality(QueuedRows') =
           Cardinality(QueuedRows) - (IF IsRow(Head(ready)) THEN 1 ELSE 0)
  BY <1>1, <1>3, PlacesOfRows, PlacesOfTail, Zenon
<1>6. /\ 1 \in Answers <=> Head(ready).do = "row"
      /\ \A i \in Answers' : i + 1 \in Answers /\ ready'[i] = ready[i + 1]
      /\ \A i \in Answers : i # 1 => i - 1 \in Answers' /\ ready'[i - 1] = ready[i]
      /\ Cardinality(Answers') =
           Cardinality(Answers) - (IF Head(ready).do = "row" THEN 1 ELSE 0)
  BY <1>1, <1>4, PlacesOfRows, PlacesOfTail, Zenon
<1> QED BY <1>2, <1>5, <1>6

(* The core answers a request for a row.                                   *)
LEMMA RepliesGrow ==
  ASSUME TypeOK, TypeOK', NEW reply \in Reply, replies' = Append(replies, reply)
  PROVE  /\ Len(replies) \in Nat /\ Len(replies') = Len(replies) + 1
         /\ \A i \in DOMAIN replies :
              i \in Nat /\ i < Len(replies) + 1 /\ replies'[i] = replies[i]
         /\ replies'[Len(replies) + 1] = reply
         /\ RepliedRows' =
              RepliedRows \cup (IF reply.kind = "row" THEN {Len(replies) + 1} ELSE {})
         /\ Cardinality(RepliedRows') =
              Cardinality(RepliedRows) + (IF reply.kind = "row" THEN 1 ELSE 0)
<1>1. reply \in RowReplies <=> reply.kind = "row"
  BY DEF RowReplies
<1>2. replies \in Seq(Reply)
  BY PlacesOfRows
<1>3. /\ Len(replies) \in Nat /\ Len(replies') = Len(replies) + 1
      /\ \A i \in DOMAIN replies :
           i \in Nat /\ i < Len(replies) + 1 /\ replies'[i] = replies[i]
      /\ replies'[Len(replies) + 1] = reply
  BY <1>2
<1>4. /\ RepliedRows' =
           RepliedRows \cup (IF reply.kind = "row" THEN {Len(replies) + 1} ELSE {})
      /\ Cardinality(RepliedRows') =
           Cardinality(RepliedRows) + (IF reply.kind = "row" THEN 1 ELSE 0)
  BY <1>1, <1>2, PlacesOfRows, PlacesOfAppend
<1> QED BY <1>3, <1>4

(* The IO thread passes an answer on.                                      *)
LEMMA RepliesShrink ==
  ASSUME TypeOK, TypeOK', replies # <<>>, replies' = Tail(replies)
  PROVE  /\ Head(replies) = replies[1] /\ Head(replies) \in Reply
         /\ Len(replies) \in Nat /\ Len(replies') = Len(replies) - 1
         /\ DOMAIN replies \subseteq Nat
         /\ 1 \in RepliedRows <=> Head(replies).kind = "row"
         /\ \A i \in RepliedRows' : i + 1 \in RepliedRows /\ replies'[i] = replies[i + 1]
         /\ Cardinality(RepliedRows') =
              Cardinality(RepliedRows) - (IF Head(replies).kind = "row" THEN 1 ELSE 0)
<1>1. replies \in Seq(Reply)
  BY PlacesOfRows
<1>2. /\ Head(replies) = replies[1] /\ Head(replies) \in Reply
      /\ Len(replies) \in Nat /\ Len(replies') = Len(replies) - 1
      /\ DOMAIN replies \subseteq Nat
  BY <1>1
<1>3. Head(replies) \in RowReplies <=> Head(replies).kind = "row"
  BY <1>2 DEF RowReplies
<1>4. /\ 1 \in RepliedRows <=> Head(replies).kind = "row"
      /\ \A i \in RepliedRows' : i + 1 \in RepliedRows /\ replies'[i] = replies[i + 1]
      /\ Cardinality(RepliedRows') =
           Cardinality(RepliedRows) - (IF Head(replies).kind = "row" THEN 1 ELSE 0)
  BY <1>1, <1>3, PlacesOfRows, PlacesOfTail, Zenon
<1> QED BY <1>2, <1>4
-----------------------------------------------------------------------------
(* Steps that concern no row leave the invariant of the rows alone: they   *)
(* move the answers in the loop's queue by a place at most.                *)
LEMMA RowsKept ==
  ASSUME QueryInv, QueryInv', RowInv, UNCHANGED <<rowFts, sent, asked, replies>>,
         UNCHANGED <<waits, received, cancels, lost>>,
         NEW d \in {0, 1},
         \A i \in Answers' : i + d \in Answers /\ ready'[i] = ready[i + d],
         \A i \in Answers : i - d \in Answers' /\ ready'[i - d] = ready[i],
         Cardinality(Answers') = Cardinality(Answers),
         Cardinality(QueuedRows') = Cardinality(QueuedRows)
  PROVE  RowInv'
<1>1. /\ RepliedRows' = RepliedRows
      /\ AwaitedRows' = AwaitedRows
      /\ HandedRows' = HandedRows
      /\ \A t \in Tasks : AwaitsRow(t)' = AwaitsRow(t)
      /\ \A t \in Tasks : AwaitsPending(t)' = AwaitsPending(t)
      /\ \A t \in Tasks : Taken(t)' = Taken(t)
  BY DEF RepliedRows, AwaitedRows, HandedRows, AwaitsRow, AwaitsPending, Taken, IsPending
<1>2. /\ Answers \subseteq Nat /\ Answers' \subseteq Nat
      /\ QueuedRows = {i \in Answers : ready[i].reply.kind = "row"}
      /\ QueuedRows' = {i \in Answers' : ready'[i].reply.kind = "row"}
      /\ \A i : i \in Answers <=> i \in DOMAIN ready /\ ready[i].do = "row"
      /\ \A i : i \in Answers' <=> i \in DOMAIN ready' /\ ready'[i].do = "row"
  <2>1. DOMAIN ready \subseteq Nat /\ DOMAIN ready' \subseteq Nat
    BY PlacesOfRows DEF QueryInv
  <2> QED BY <2>1 DEF Answers, QueuedRows, IsRow
<1>3. \A i \in QueuedRows' : i + d \in QueuedRows /\ ready'[i] = ready[i + d]
  BY <1>2
<1>4. FutureInv'
  <2>1. \A i \in DOMAIN ready' : ready'[i].do = "row" => ready'[i].id \in DOMAIN rowFts
    <3>1. \A i \in Answers : ready[i].id \in DOMAIN rowFts
      BY DEF FutureInv, RowInv, Answers
    <3>2. \A i \in Answers' : ready'[i].id \in DOMAIN rowFts
      BY <3>1
    <3> QED BY <3>2 DEF Answers
  <2> QED BY <2>1 DEF FutureInv, RowInv, IsPending
<1>5. OrderInv'
  <2>1. QueuedRows' \subseteq Nat /\ QueuedRows \subseteq Nat
    BY <1>2
  <2> QED BY <1>1, <1>3, <2>1 DEF OrderInv, RowInv
<1>6. LostInv'
  <2>1. Waiting' = Waiting
    BY <1>1 DEF Waiting
  <2>2. ASSUME NEW t \in Waiting, waits[t] = Len(rowFts)
        PROVE  asked > 0 \/ replies # <<>> \/ \E i \in Answers' : ready'[i].id = waits[t]
    <3>1. asked > 0 \/ replies # <<>> \/ \E i \in Answers : ready[i].id = waits[t]
      BY <2>2 DEF LostInv, RowInv
    <3> QED BY <3>1
  <2> QED BY <2>1, <2>2 DEF LostInv, RowInv
<1>7. RowsAccounted'
  BY <1>1 DEF RowsAccounted, Handed, OnTheWay, RowInv
<1> QED BY <1>1, <1>4, <1>5, <1>6, <1>7 DEF RowInv

(* The queue is the same, ...                                              *)
LEMMA RowsKeptByOthers ==
  ASSUME QueryInv, QueryInv', RowInv, UNCHANGED <<rowFts, sent, asked, replies>>,
         UNCHANGED <<waits, received, cancels, lost>>,
         UNCHANGED ready
  PROVE  RowInv'
<1>1. Answers' = Answers /\ QueuedRows' = QueuedRows /\ Answers \subseteq Nat
  BY DEF Answers, QueuedRows, IsRow, QueryInv, TypeOK
<1> QED BY <1>1, RowsKept

(* ... there is one more callback in it, ...                               *)
LEMMA RowsKeptByQueueing ==
  ASSUME QueryInv, QueryInv', RowInv, UNCHANGED <<rowFts, sent, asked, replies>>,
         UNCHANGED <<waits, received, cancels, lost>>,
         NEW e \in Callbacks, e.do # "row", ready' = Append(ready, e)
  PROVE  RowInv'
<1>1. /\ Answers' = Answers /\ Answers \subseteq DOMAIN ready
      /\ \A i \in DOMAIN ready : i \in Nat /\ ready'[i] = ready[i]
      /\ Cardinality(Answers') = Cardinality(Answers)
      /\ Cardinality(QueuedRows') = Cardinality(QueuedRows)
  <2>1. Cardinality(Answers) \in Nat /\ Cardinality(QueuedRows) \in Nat
    BY CountsOfRows DEF QueryInv
  <2> QED BY <2>1, QueueGrows DEF Answers, IsRow, QueryInv
<1> QED BY <1>1, RowsKept

(* ... or one less.                                                        *)
LEMMA RowsKeptByTaking ==
  ASSUME QueryInv, QueryInv', RowInv, UNCHANGED <<rowFts, sent, asked, replies>>,
         UNCHANGED <<waits, received, cancels, lost>>,
         ready # <<>>, Head(ready).do # "row", ready' = Tail(ready)
  PROVE  RowInv'
<1>1. /\ \A i \in Answers' : i + 1 \in Answers /\ ready'[i] = ready[i + 1]
      /\ \A i \in Answers : i - 1 \in Answers' /\ ready'[i - 1] = ready[i]
      /\ Cardinality(Answers') = Cardinality(Answers)
      /\ Cardinality(QueuedRows') = Cardinality(QueuedRows)
  <2>1. Cardinality(Answers) \in Nat /\ Cardinality(QueuedRows) \in Nat
    BY CountsOfRows DEF QueryInv
  <2>2. TypeOK /\ TypeOK' /\ ~IsRow(Head(ready)) /\ 1 \notin Answers
    BY QueueShrinks DEF IsRow, QueryInv
  <2>3. /\ Cardinality(Answers') = Cardinality(Answers) - 0
        /\ Cardinality(QueuedRows') = Cardinality(QueuedRows) - 0
    BY <2>2, QueueShrinks
  <2>4. /\ \A i \in Answers' : i + 1 \in Answers /\ ready'[i] = ready[i + 1]
        /\ \A i \in Answers : i - 1 \in Answers' /\ ready'[i - 1] = ready[i]
    BY <2>2, QueueShrinks
  <2>5. \A n \in Nat : n - 0 = n
    OBVIOUS
  <2> QED BY <2>1, <2>3, <2>4, <2>5
<1> QED BY <1>1, RowsKept
-----------------------------------------------------------------------------
(* A row is taken by those who have it, or will when their await returns.  *)
LEMMA TakenRows ==
  ASSUME QueryInv, QueryInv', NEW t \in Tasks
  PROVE  /\ \A n : n \in Taken(t) <=>
              \/ \E i \in DOMAIN received[t] : received[t][i] = n
              \/ AwaitsRow(t) /\ rowFts[waits[t]].row = n
         /\ \A n : n \in Taken(t)' <=>
              \/ \E i \in DOMAIN received'[t] : received'[t][i] = n
              \/ AwaitsRow(t)' /\ rowFts'[waits'[t]].row = n
<1>1. waits[t] \in 0 .. Len(rowFts) /\ waits'[t] \in 0 .. Len(rowFts')
  BY DEF QueryInv, RequestInv
<1>2. rowFts \in Seq(RowFt) /\ rowFts' \in Seq(RowFt)
  BY DEF QueryInv, TypeOK
<1>3. AwaitsRow(t) => waits[t] \in DOMAIN rowFts
  BY <1>1, <1>2 DEF AwaitsRow
<1>4. AwaitsRow(t)' => waits'[t] \in DOMAIN rowFts'
  BY <1>1, <1>2 DEF AwaitsRow
<1>5. \A n : n \in Taken(t) <=>
        \/ \E i \in DOMAIN received[t] : received[t][i] = n
        \/ AwaitsRow(t) /\ rowFts[waits[t]].row = n
  BY <1>3 DEF Taken
<1>6. \A n : n \in Taken(t)' <=>
        \/ \E i \in DOMAIN received'[t] : received'[t][i] = n
        \/ AwaitsRow(t)' /\ rowFts'[waits'[t]].row = n
  BY <1>4 DEF Taken
<1> QED BY <1>5, <1>6

(* The sets that are counted are finite.                                   *)
LEMMA CountsAreNumbers ==
  ASSUME QueryInv, QueryInv', RowInv
  PROVE  /\ IsFiniteSet(AwaitedRows) /\ Cardinality(AwaitedRows) \in Nat
         /\ IsFiniteSet(Waiting) /\ Cardinality(Waiting) \in Nat
         /\ Cardinality(HandedRows) \in Nat
         /\ Cardinality(RepliedRows) \in Nat /\ Cardinality(RepliedRows') \in Nat
         /\ Cardinality(QueuedRows) \in Nat /\ Cardinality(QueuedRows') \in Nat
         /\ Cardinality(Answers) \in Nat /\ Cardinality(Answers') \in Nat
         /\ Len(replies) \in Nat /\ Len(replies') \in Nat
         /\ lost \in Nat /\ asked \in Nat /\ cancels \in Nat /\ sent \in Nat
<1>1. AwaitedRows \in SUBSET Tasks /\ Waiting \in SUBSET Tasks
  BY DEF AwaitedRows, Waiting
<1>2. IsFiniteSet(AwaitedRows) /\ IsFiniteSet(Waiting)
  BY <1>1, AsyncQueryAssumption, FS_Subset
<1>3. IsFiniteSet(HandedRows)
  BY DEF RowInv
<1>4. Len(replies) \in Nat /\ Len(replies') \in Nat
  BY PlacesOfRows DEF QueryInv
<1>5. lost \in Nat /\ asked \in Nat /\ cancels \in Nat /\ sent \in Nat
  BY DEF QueryInv, TypeOK
<1> QED BY <1>2, <1>3, <1>4, <1>5, FS_CardinalityType, CountsOfRows DEF QueryInv

(* What is known of the row futures.                                       *)
LEMMA RowFutures ==
  ASSUME QueryInv, RowInv
  PROVE  /\ rowFts \in Seq(RowFt) /\ Len(rowFts) \in Nat
         /\ DOMAIN rowFts = 1 .. Len(rowFts)
         /\ \A t \in Tasks : waits[t] \in 0 .. Len(rowFts)
         /\ waits \in [Tasks -> Nat]
         /\ \A t \in Tasks, u \in Tasks : waits[t] = waits[u] /\ waits[t] # 0 => t = u
         /\ \A id \in DOMAIN rowFts :
              rowFts[id].kind = "pending" => \E t \in Tasks : waits[t] = id
BY DEF QueryInv, TypeOK, RequestInv, RowInv, FutureInv, IsPending
-----------------------------------------------------------------------------
(* A task asks for a row: its future is new, pending, and its own.         *)
LEMMA NextRowKeeps ==
  ASSUME QueryInv, QueryInv', RowInv, NEW t \in Tasks, NextRow(t)
  PROVE  RowInv'
<1>1. /\ rowFts' \in Seq(RowFt) /\ Len(rowFts') = Len(rowFts) + 1
      /\ DOMAIN rowFts' = 1 .. Len(rowFts) + 1
      /\ \A id \in DOMAIN rowFts : rowFts'[id] = rowFts[id]
      /\ rowFts'[Len(rowFts) + 1].kind = "pending"
      /\ waits[t] = 0 /\ waits' = [waits EXCEPT ![t] = Len(rowFts) + 1]
      /\ UNCHANGED <<sent, replies, ready, received, cancels, lost>>
      /\ asked' = asked + 1 /\ asked \in Nat
  <2>1. rowFts \in Seq(RowFt) /\ Answer("pending") \in RowFt
    BY DEF Answer, RowFt, QueryInv, TypeOK
  <2> QED BY <2>1 DEF NextRow, NewRowFt, Answer, QueryInv, TypeOK
<1>2. \A u \in Tasks : (AwaitsRow(u)' <=> AwaitsRow(u))
                    /\ (AwaitsRow(u) => rowFts'[waits'[u]].row = rowFts[waits[u]].row)
  BY <1>1, RowFutures DEF AwaitsRow
<1>3. RepliedRows' = RepliedRows /\ QueuedRows' = QueuedRows /\ Answers' = Answers
      /\ AwaitedRows' = AwaitedRows /\ HandedRows' = HandedRows
  BY <1>1, <1>2 DEF RepliedRows, QueuedRows, IsRow, Answers, AwaitedRows, HandedRows
<1>4. FutureInv'
  <2>1. \A i \in DOMAIN ready' : ready'[i].do = "row" => ready'[i].id \in DOMAIN rowFts'
    BY <1>1, RowFutures DEF RowInv, FutureInv
  <2>2. \A u \in Tasks, v \in Tasks : waits'[u] = waits'[v] /\ waits'[u] # 0 => u = v
    BY <1>1, RowFutures
  <2>3. \A id \in DOMAIN rowFts' : IsPending(id)' => \E u \in Tasks : waits'[u] = id
    BY <1>1, RowFutures DEF IsPending
  <2> QED BY <1>1, <2>1, <2>2, <2>3 DEF FutureInv
<1>5. OrderInv'
  <2>1. \A u \in Tasks : \A n : n \in Taken(u)' <=> n \in Taken(u)
    BY <1>1, <1>2, TakenRows
  <2> QED BY <1>1, <1>2, <1>3, <2>1 DEF OrderInv, RowInv
<1>6. LostInv'
  <2>1. \A u \in Tasks : AwaitsPending(u)' <=> AwaitsPending(u) \/ u = t
    BY <1>1, RowFutures DEF AwaitsPending, IsPending
  <2>2. Waiting' = Waiting \cup {t} /\ t \notin Waiting
    BY <1>1, <2>1 DEF Waiting, AwaitsPending
  <2>3. Cardinality(Waiting') = Cardinality(Waiting) + 1
    BY <2>2, CountsAreNumbers, FS_AddElement
  <2>4. lost + asked + Len(replies) + Cardinality(Answers) <= cancels + Cardinality(Waiting)
    BY DEF LostInv, RowInv
  <2>5. lost' + asked' + Len(replies') + Cardinality(Answers')
          <= cancels' + Cardinality(Waiting')
    <3>1. /\ lost' = lost /\ asked' = asked + 1 /\ cancels' = cancels
          /\ Len(replies') = Len(replies) /\ Cardinality(Answers') = Cardinality(Answers)
      BY <1>1, <1>3
    <3>2. /\ lost \in Nat /\ asked \in Nat /\ cancels \in Nat /\ Len(replies) \in Nat
          /\ Cardinality(Answers) \in Nat /\ Cardinality(Waiting) \in Nat
      BY CountsAreNumbers
    <3> QED BY <2>3, <2>4, <3>1, <3>2
  <2>6. asked' > 0
    BY <1>1
  <2> QED BY <2>5, <2>6 DEF LostInv
<1>7. RowsAccounted'
  BY <1>1, <1>3 DEF RowsAccounted, Handed, OnTheWay, RowInv
<1> QED BY <1>3, <1>4, <1>5, <1>6, <1>7 DEF RowInv

(* An await is over: what the task may take becomes what it has.           *)
LEMMA RowReturnsKeeps ==
  ASSUME QueryInv, QueryInv', RowInv, NEW t \in Tasks, RowReturns(t)
  PROVE  RowInv'
<1>1. /\ waits[t] # 0 /\ rowFts[waits[t]].kind # "pending"
      /\ waits' = [waits EXCEPT ![t] = 0]
      /\ UNCHANGED <<rowFts, sent, asked, replies, ready, cancels, lost>>
      /\ waits \in [Tasks -> Nat]
      /\ received \in [Tasks -> Seq(Nat)] /\ received' \in [Tasks -> Seq(Nat)]
  BY DEF RowReturns, IsPending, rows, QueryInv, TypeOK
<1>2. ~AwaitsRow(t)' /\ \A u \in Tasks \ {t} : (AwaitsRow(u)' <=> AwaitsRow(u))
  BY <1>1 DEF AwaitsRow
<1>3. /\ RepliedRows' = RepliedRows /\ QueuedRows' = QueuedRows /\ Answers' = Answers
      /\ AwaitedRows' = AwaitedRows \ {t}
  BY <1>1, <1>2 DEF RepliedRows, QueuedRows, IsRow, Answers, AwaitedRows
<1>4. \A u \in Tasks \ {t} : received'[u] = received[u] /\ waits'[u] = waits[u]
  BY <1>1 DEF RowReturns
<1>5. FutureInv'
  <2>1. \A u \in Tasks, v \in Tasks : waits'[u] = waits'[v] /\ waits'[u] # 0 => u = v
    BY <1>1, RowFutures
  <2>2. \A id \in DOMAIN rowFts : IsPending(id) => \E u \in Tasks : waits'[u] = id
    BY <1>1, RowFutures DEF IsPending
  <2> QED BY <1>1, <2>1, <2>2 DEF FutureInv, RowInv, IsPending
<1>6. LostInv'
  <2>1. ~AwaitsPending(t) /\ ~AwaitsPending(t)'
    BY <1>1 DEF AwaitsPending, IsPending
  <2>2. \A u \in Tasks \ {t} : AwaitsPending(u)' <=> AwaitsPending(u)
    BY <1>1, <1>4 DEF AwaitsPending, IsPending
  <2>3. Waiting' = Waiting /\ t \notin Waiting /\ Waiting \subseteq Tasks
    BY <2>1, <2>2 DEF Waiting
  <2>4. \A u \in Waiting : waits'[u] = waits[u]
    BY <1>4, <2>3
  <2> QED BY <1>1, <1>3, <2>3, <2>4 DEF LostInv, RowInv
<1>7. CASE ~AwaitsRow(t)
  <2>1. received' = received
    BY <1>1, <1>7 DEF RowReturns, AwaitsRow
  <2>2. \A u \in Tasks : (AwaitsRow(u)' <=> AwaitsRow(u))
    BY <1>2, <1>7
  <2>3. \A u \in Tasks : \A n : n \in Taken(u)' <=> n \in Taken(u)
    BY <1>1, <1>4, <1>7, <2>1, <2>2, TakenRows
  <2>4. HandedRows' = HandedRows /\ AwaitedRows' = AwaitedRows
    BY <1>3, <1>7, <2>1 DEF HandedRows, AwaitedRows
  <2>5. OrderInv'
    BY <1>1, <1>3, <1>4, <1>7, <2>1, <2>2, <2>3 DEF OrderInv, RowInv
  <2>6. RowsAccounted'
    BY <1>1, <1>3, <2>4 DEF RowsAccounted, Handed, OnTheWay, RowInv
  <2> QED BY <1>5, <1>6, <2>4, <2>5, <2>6 DEF RowInv
<1>8. CASE AwaitsRow(t)
  <2> DEFINE n == rowFts[waits[t]].row
             last == Len(received[t]) + 1
  <2>1. /\ received'[t] = Append(received[t], n)
        /\ received[t] \in Seq(Nat) /\ n \in Nat
    <3>1. rowFts[waits[t]].kind = "row"
      BY <1>8 DEF AwaitsRow
    <3>2. rowFts[waits[t]] \in RowFt
      BY <1>1, RowFutures
    <3>3. n \in Nat
      BY <3>2 DEF RowFt
    <3> QED BY <1>1, <3>1, <3>3 DEF RowReturns
  <2> HIDE DEF n
  <2>2. /\ DOMAIN received'[t] = DOMAIN received[t] \cup {last}
        /\ last \notin DOMAIN received[t] /\ last \in Nat
        /\ \A i \in DOMAIN received[t] :
             i \in Nat /\ i < last /\ received'[t][i] = received[t][i]
        /\ received'[t][last] = n
    BY <2>1
  <2> HIDE DEF last
  <2>3. \A u \in Tasks : \A m : m \in Taken(u)' <=> m \in Taken(u)
    <3>1. \A m : m \in Taken(t)' <=> m \in Taken(t)
      BY <1>2, <1>8, <2>2, TakenRows DEF n
    <3>2. ASSUME NEW u \in Tasks, u # t
          PROVE  \A m : m \in Taken(u)' <=> m \in Taken(u)
      <4>1. /\ received'[u] = received[u] /\ waits'[u] = waits[u] /\ rowFts' = rowFts
            /\ AwaitsRow(u)' <=> AwaitsRow(u)
        BY <1>1, <1>2, <1>4, <3>2
      <4> QED BY <4>1, TakenRows
    <3> QED BY <3>1, <3>2
  <2>4. OrderInv'
    <3>1. \A i \in DOMAIN received[t] : received[t][i] < n
      BY <1>8 DEF OrderInv, RowInv, n
    <3>2. \A i, j \in DOMAIN received'[t] : i < j => received'[t][i] < received'[t][j]
      BY <2>2, <3>1 DEF OrderInv, RowInv
    <3>3. \A u \in Tasks : \A i \in DOMAIN received'[u] :
            /\ AwaitsRow(u)' => received'[u][i] < rowFts'[waits'[u]].row
            /\ \A j \in DOMAIN received'[u] :
                 i < j => received'[u][i] < received'[u][j]
      BY <1>1, <1>2, <1>4, <3>2 DEF OrderInv, RowInv
    <3>4. \A u \in Tasks : \A m \in Taken(u)' :
            /\ m <= sent'
            /\ \A i \in QueuedRows' : m < ready'[i].reply.row
            /\ \A i \in RepliedRows' : m < replies'[i].row
            /\ \A v \in Tasks : m \in Taken(v)' => u = v
      BY <1>1, <1>3, <2>3 DEF OrderInv, RowInv
    <3>5. /\ \A i \in QueuedRows' :
               /\ ready'[i].reply.row <= sent'
               /\ \A j \in QueuedRows' : i < j => ready'[i].reply.row < ready'[j].reply.row
               /\ \A j \in RepliedRows' : ready'[i].reply.row < replies'[j].row
          /\ \A i \in RepliedRows' :
               /\ replies'[i].row <= sent'
               /\ \A j \in RepliedRows' : i < j => replies'[i].row < replies'[j].row
      BY <1>1, <1>3 DEF OrderInv, RowInv
    <3> QED BY <3>3, <3>4, <3>5 DEF OrderInv
  <2>5. HandedRows' = HandedRows \cup {<<t, last>>} /\ <<t, last>> \notin HandedRows
    <3>1. \A u \in Tasks : \A i : i \in DOMAIN received'[u] <=>
            i \in DOMAIN received[u] \/ (u = t /\ i = last)
      BY <1>4, <2>2
    <3>2. \A x : x \in HandedRows <=>
            \E u \in Tasks : \E i \in DOMAIN received[u] : x = <<u, i>>
      BY DEF HandedRows
    <3>3. \A x : x \in HandedRows' <=>
            \E u \in Tasks : \E i \in DOMAIN received'[u] : x = <<u, i>>
      BY DEF HandedRows
    <3>4. \A x : x \in HandedRows' <=> x \in HandedRows \/ x = <<t, last>>
      BY <3>1, <3>2, <3>3
    <3>5. <<t, last>> \notin HandedRows
      BY <2>2, <3>2
    <3> QED BY <3>4, <3>5
  <2>6. /\ IsFiniteSet(HandedRows') /\ Cardinality(HandedRows') = Cardinality(HandedRows) + 1
        /\ Cardinality(AwaitedRows') = Cardinality(AwaitedRows) - 1
    <3>1. IsFiniteSet(HandedRows) /\ IsFiniteSet(AwaitedRows) /\ t \in AwaitedRows
      BY <1>8, CountsAreNumbers DEF RowInv, AwaitedRows
    <3> QED BY <1>3, <2>5, <3>1, FS_AddElement, FS_RemoveElement
  <2>7. RowsAccounted'
    <3>1. sent = Cardinality(HandedRows) + (Cardinality(RepliedRows)
                   + Cardinality(QueuedRows) + Cardinality(AwaitedRows)) + lost
      BY DEF RowsAccounted, Handed, OnTheWay, RowInv
    <3>2. /\ Cardinality(HandedRows) \in Nat /\ Cardinality(RepliedRows) \in Nat
          /\ Cardinality(QueuedRows) \in Nat /\ Cardinality(AwaitedRows) \in Nat
          /\ lost \in Nat
      BY CountsAreNumbers
    <3>3. sent = Cardinality(HandedRows') + (Cardinality(RepliedRows)
                   + Cardinality(QueuedRows) + Cardinality(AwaitedRows')) + lost
      BY <2>6, <3>1, <3>2
    <3> QED BY <1>1, <1>3, <3>3 DEF RowsAccounted, Handed, OnTheWay
  <2> QED BY <1>5, <1>6, <2>4, <2>6, <2>7 DEF RowInv
<1> QED BY <1>7, <1>8

(* The await is cancelled: its answer will be lost, or is already.         *)
LEMMA CancelAwaitKeeps ==
  ASSUME QueryInv, QueryInv', RowInv, NEW t \in Tasks, CancelAwait(t)
  PROVE  RowInv'
<1>1. /\ waits[t] # 0 /\ waits' = [waits EXCEPT ![t] = 0] /\ waits \in [Tasks -> Nat]
      /\ waits[t] \in DOMAIN rowFts
      /\ cancels' = cancels + 1
      /\ UNCHANGED <<sent, asked, replies, ready, received>>
  BY RowFutures DEF CancelAwait
<1>2. /\ RepliedRows' = RepliedRows /\ QueuedRows' = QueuedRows /\ Answers' = Answers
      /\ HandedRows' = HandedRows
  BY <1>1 DEF RepliedRows, QueuedRows, IsRow, Answers, HandedRows
<1>3. \/ /\ rowFts[waits[t]].kind = "pending" /\ UNCHANGED lost
         /\ rowFts' = [rowFts EXCEPT ![waits[t]] = Answer("cancelled")]
      \/ /\ rowFts[waits[t]].kind # "pending" /\ UNCHANGED rowFts
         /\ lost' = IF rowFts[waits[t]].kind = "row" THEN lost + 1 ELSE lost
  BY DEF CancelAwait, IsPending
<1>4. /\ DOMAIN rowFts' = DOMAIN rowFts
      /\ rowFts'[waits[t]].kind # "pending"
      /\ \A id \in DOMAIN rowFts : id # waits[t] => rowFts'[id] = rowFts[id]
  BY <1>1, <1>3, RowFutures DEF Answer
<1>5. ~AwaitsRow(t)' /\ ~AwaitsPending(t)'
  BY <1>1 DEF AwaitsRow, AwaitsPending
<1>6. ASSUME NEW u \in Tasks, u # t
      PROVE  /\ waits'[u] = waits[u]
             /\ AwaitsRow(u)' <=> AwaitsRow(u)
             /\ AwaitsPending(u)' <=> AwaitsPending(u)
             /\ AwaitsRow(u) => rowFts'[waits[u]] = rowFts[waits[u]]
  <2>1. waits'[u] = waits[u] /\ (waits[u] # 0 => waits[u] # waits[t])
    BY <1>1, <1>6, RowFutures
  <2>2. waits[u] # 0 => rowFts'[waits[u]] = rowFts[waits[u]]
    BY <1>4, <2>1, RowFutures
  <2> QED BY <2>1, <2>2 DEF AwaitsRow, AwaitsPending, IsPending
<1>7. FutureInv'
  <2>1. \A u \in Tasks, v \in Tasks : waits'[u] = waits'[v] /\ waits'[u] # 0 => u = v
    BY <1>1, RowFutures
  <2>2. ASSUME NEW id \in DOMAIN rowFts', IsPending(id)'
        PROVE  \E u \in Tasks : waits'[u] = id
    <3>1. id \in DOMAIN rowFts /\ id # waits[t] /\ rowFts[id].kind = "pending"
      BY <1>4, <2>2 DEF IsPending
    <3>2. PICK u \in Tasks : waits[u] = id
      BY <3>1, RowFutures
    <3> QED BY <1>1, <3>1, <3>2
  <2>3. rowFts # <<>> => rowFts' # <<>>
    BY <1>1, <1>4
  <2> QED BY <1>1, <1>4, <2>1, <2>2, <2>3 DEF FutureInv, RowInv
<1>8. OrderInv'
  <2>1. ASSUME NEW u \in Tasks, NEW n, n \in Taken(u)'
        PROVE  n \in Taken(u)
    BY <1>1, <1>5, <1>6, <2>1, TakenRows
  <2>2. \A u \in Tasks : AwaitsRow(u)' =>
          AwaitsRow(u) /\ rowFts'[waits'[u]].row = rowFts[waits[u]].row
    BY <1>5, <1>6
  <2> QED BY <1>1, <1>2, <2>1, <2>2 DEF OrderInv, RowInv
<1>9. LostInv'
  <2>1. Waiting' = Waiting \ {t} /\ Waiting \subseteq Tasks
    BY <1>5, <1>6 DEF Waiting
  <2>2. t \in Waiting <=> rowFts[waits[t]].kind = "pending"
    BY <1>1 DEF Waiting, AwaitsPending, IsPending
  <2>3. \/ lost' = lost /\ Cardinality(Waiting') = Cardinality(Waiting) - 1
        \/ lost' \in {lost, lost + 1} /\ Cardinality(Waiting') = Cardinality(Waiting)
    <3>1. CASE t \in Waiting
      <4>1. Cardinality(Waiting') = Cardinality(Waiting) - 1
        BY <2>1, <3>1, CountsAreNumbers, FS_RemoveElement
      <4> QED BY <1>3, <2>2, <3>1, <4>1
    <3>2. CASE t \notin Waiting
      <4>1. Waiting' = Waiting
        BY <2>1, <3>2
      <4> QED BY <1>3, <2>2, <3>2, <4>1
    <3> QED BY <3>1, <3>2
  <2>4. lost + asked + Len(replies) + Cardinality(Answers) <= cancels + Cardinality(Waiting)
    BY DEF LostInv, RowInv
  <2>5. /\ asked' = asked /\ cancels' = cancels + 1 /\ Len(replies') = Len(replies)
        /\ Cardinality(Answers') = Cardinality(Answers)
    BY <1>1, <1>2
  <2>6. /\ asked \in Nat /\ lost \in Nat /\ cancels \in Nat /\ Len(replies) \in Nat
        /\ Cardinality(Answers) \in Nat /\ Cardinality(Waiting) \in Nat
    BY CountsAreNumbers
  <2>7. lost' + asked' + Len(replies') + Cardinality(Answers')
          <= cancels' + Cardinality(Waiting')
    BY <2>3, <2>4, <2>5, <2>6
  <2>8. Len(rowFts') = Len(rowFts)
    <3>1. rowFts' \in Seq(RowFt)
      BY DEF QueryInv, TypeOK
    <3> QED BY <1>4, <3>1, RowFutures
  <2>9. \A u \in Waiting' : u \in Waiting /\ waits'[u] = waits[u]
    BY <1>6, <2>1
  <2> QED BY <1>1, <1>2, <2>7, <2>8, <2>9 DEF LostInv, RowInv
<1>10. RowsAccounted'
  <2>1. CASE AwaitsRow(t)
    <3>1. AwaitedRows' = AwaitedRows \ {t} /\ t \in AwaitedRows
      BY <1>5, <1>6, <2>1 DEF AwaitedRows
    <3>2. Cardinality(AwaitedRows') = Cardinality(AwaitedRows) - 1
      BY <3>1, CountsAreNumbers, FS_RemoveElement
    <3>3. lost' = lost + 1
      BY <1>3, <2>1 DEF AwaitsRow
    <3>4. sent = Cardinality(HandedRows) + (Cardinality(RepliedRows)
                   + Cardinality(QueuedRows) + Cardinality(AwaitedRows)) + lost
      BY DEF RowsAccounted, Handed, OnTheWay, RowInv
    <3>5. /\ Cardinality(HandedRows) \in Nat /\ Cardinality(RepliedRows) \in Nat
          /\ Cardinality(QueuedRows) \in Nat /\ Cardinality(AwaitedRows) \in Nat
          /\ lost \in Nat
      BY CountsAreNumbers
    <3>6. sent = Cardinality(HandedRows) + (Cardinality(RepliedRows)
                   + Cardinality(QueuedRows) + Cardinality(AwaitedRows')) + lost'
      BY <3>2, <3>3, <3>4, <3>5
    <3> QED BY <1>1, <1>2, <3>6 DEF RowsAccounted, Handed, OnTheWay
  <2>2. CASE ~AwaitsRow(t)
    <3>1. AwaitedRows' = AwaitedRows
      BY <1>5, <1>6, <2>2 DEF AwaitedRows
    <3>2. lost' = lost
      BY <1>1, <1>3, <2>2 DEF AwaitsRow
    <3> QED BY <1>1, <1>2, <3>1, <3>2 DEF RowsAccounted, Handed, OnTheWay, RowInv
  <2> QED BY <2>1, <2>2
<1> QED BY <1>2, <1>7, <1>8, <1>9, <1>10 DEF RowInv

(* The IO thread passes the oldest answer on, behind all that are queued,  *)
(* for the row future of this moment.                                      *)
LEMMA RowCallbackKeeps ==
  ASSUME QueryInv, QueryInv', RowInv, RowCallback
  PROVE  RowInv'
<1> DEFINE e == ToRowFt(TargetRowFt, Head(replies))
           new == Len(ready) + 1
<1>1. /\ replies # <<>> /\ replies' = Tail(replies) /\ ready' = Append(ready, e)
      /\ UNCHANGED <<rowFts, sent, asked, waits, received, cancels, lost>>
  BY DEF RowCallback, tasks
<1>2. TypeOK /\ TypeOK'
  BY DEF QueryInv
<1>3. /\ e.do = "row" /\ e.id = Len(rowFts) /\ e.reply = Head(replies)
      /\ e \in Callbacks
  <2>1. Head(replies) \in [kind : Kinds \cup {"ok"}, row : Nat] /\ Len(rowFts) \in Nat
    BY <1>1, <1>2, RepliesShrink, RowFutures DEF Reply
  <2> QED BY <2>1 DEF ToRowFt, TargetRowFt, Callbacks
<1>4. IsRow(e) <=> Head(replies).kind = "row"
  BY <1>3 DEF IsRow
<1> HIDE DEF e
<1>5. /\ \A i \in DOMAIN ready : i \in Nat /\ i < new /\ ready'[i] = ready[i]
      /\ ready'[new] = e /\ new \in Nat
      /\ QueuedRows' = QueuedRows \cup (IF IsRow(e) THEN {new} ELSE {})
      /\ Answers' = Answers \cup {new}
      /\ Cardinality(QueuedRows') = Cardinality(QueuedRows) + (IF IsRow(e) THEN 1 ELSE 0)
      /\ Cardinality(Answers') = Cardinality(Answers) + 1
  BY <1>1, <1>2, <1>3, QueueGrows
<1>6. /\ Head(replies) = replies[1] /\ Len(replies') = Len(replies) - 1
      /\ DOMAIN replies \subseteq Nat
      /\ 1 \in RepliedRows <=> IsRow(e)
      /\ \A i \in RepliedRows' : i + 1 \in RepliedRows /\ replies'[i] = replies[i + 1]
      /\ Cardinality(RepliedRows') = Cardinality(RepliedRows) - (IF IsRow(e) THEN 1 ELSE 0)
  BY <1>1, <1>2, <1>4, RepliesShrink
<1> HIDE DEF new
<1>7. /\ \A u \in Tasks : AwaitsRow(u)' <=> AwaitsRow(u)
      /\ \A u \in Tasks : AwaitsPending(u)' <=> AwaitsPending(u)
      /\ \A u \in Tasks : \A n : n \in Taken(u)' <=> n \in Taken(u)
      /\ AwaitedRows' = AwaitedRows /\ HandedRows' = HandedRows
  BY <1>1 DEF AwaitsRow, AwaitsPending, IsPending, Taken, AwaitedRows, HandedRows
<1>8. rowFts # <<>> /\ Len(rowFts) \in DOMAIN rowFts
  <2>1. rowFts # <<>>
    BY <1>1 DEF FutureInv, RowInv
  <2> QED BY <2>1, RowFutures
<1>9. FutureInv'
  <2>1. \A i \in Answers' : ready'[i].id \in DOMAIN rowFts
    BY <1>3, <1>5, <1>8 DEF FutureInv, RowInv, Answers
  <2>2. \A i \in DOMAIN ready' : ready'[i].do = "row" => ready'[i].id \in DOMAIN rowFts
    BY <2>1 DEF Answers
  <2> QED BY <1>1, <1>8, <2>2 DEF FutureInv, RowInv, IsPending
<1>10. OrderInv'
  <2>1. \A i \in QueuedRows' : \/ i \in QueuedRows /\ i \in Nat /\ i < new /\ ready'[i] = ready[i]
                               \/ i = new /\ IsRow(e) /\ ready'[i] = e
    <3>1. QueuedRows \subseteq DOMAIN ready
      BY DEF QueuedRows
    <3> QED BY <1>5, <3>1
  <2>2. \A i \in RepliedRows' :
          i \in Nat /\ 1 < i + 1 /\ i + 1 \in RepliedRows /\ replies'[i] = replies[i + 1]
    <3>1. \A i \in RepliedRows' : i \in Nat /\ i >= 1
      BY <1>2, PlacesOfRows DEF RepliedRows
    <3> QED BY <1>6, <3>1
  <2>3. IsRow(e) =>
          /\ e.reply.row <= sent
          /\ \A i \in RepliedRows' : e.reply.row < replies'[i].row
          /\ \A i \in QueuedRows : ready[i].reply.row < e.reply.row
          /\ \A u \in Tasks : \A n \in Taken(u) : n < e.reply.row
    <3>1. 1 \in RepliedRows =>
            \A i \in RepliedRows : 1 < i => replies[1].row < replies[i].row
      BY DEF OrderInv, RowInv
    <3>2. IsRow(e) => 1 \in RepliedRows /\ e.reply = replies[1]
      BY <1>3, <1>6
    <3>3. IsRow(e) => \A i \in RepliedRows' : e.reply.row < replies'[i].row
      BY <2>2, <3>1, <3>2
    <3> QED BY <3>2, <3>3 DEF OrderInv, RowInv
  <2>4. \A u \in Tasks : \A n \in Taken(u)' :
          /\ n <= sent'
          /\ \A i \in QueuedRows' : n < ready'[i].reply.row
          /\ \A i \in RepliedRows' : n < replies'[i].row
          /\ \A v \in Tasks : n \in Taken(v)' => u = v
    <3> SUFFICES ASSUME NEW u \in Tasks, NEW n \in Taken(u)
                 PROVE  /\ n <= sent
                        /\ \A i \in QueuedRows' : n < ready'[i].reply.row
                        /\ \A i \in RepliedRows' : n < replies'[i].row
                        /\ \A v \in Tasks : n \in Taken(v) => u = v
      BY <1>1, <1>7
    <3>1. /\ n <= sent
          /\ \A i \in QueuedRows : n < ready[i].reply.row
          /\ \A i \in RepliedRows : n < replies[i].row
          /\ \A v \in Tasks : n \in Taken(v) => u = v
      BY DEF OrderInv, RowInv
    <3> QED BY <2>1, <2>2, <2>3, <3>1
  <2>5. \A i \in QueuedRows' :
          /\ ready'[i].reply.row <= sent'
          /\ \A j \in QueuedRows' : i < j => ready'[i].reply.row < ready'[j].reply.row
          /\ \A j \in RepliedRows' : ready'[i].reply.row < replies'[j].row
    <3>1. \A i \in QueuedRows :
            /\ ready[i].reply.row <= sent
            /\ \A j \in QueuedRows : i < j => ready[i].reply.row < ready[j].reply.row
            /\ \A j \in RepliedRows : ready[i].reply.row < replies[j].row
      BY DEF OrderInv, RowInv
    <3>2. \A i \in Nat : i < new => ~(new < i)
      BY <1>5
    <3>3. ~(new < new)
      BY <1>5
    <3> QED BY <1>1, <2>1, <2>2, <2>3, <3>1, <3>2, <3>3
  <2>6. \A i \in RepliedRows' :
          /\ replies'[i].row <= sent'
          /\ \A j \in RepliedRows' : i < j => replies'[i].row < replies'[j].row
    <3>1. \A i \in RepliedRows :
            /\ replies[i].row <= sent
            /\ \A j \in RepliedRows : i < j => replies[i].row < replies[j].row
      BY DEF OrderInv, RowInv
    <3>2. \A i, j \in Nat : i < j => i + 1 < j + 1
      OBVIOUS
    <3> QED BY <1>1, <2>2, <3>1, <3>2
  <2>7. \A u \in Tasks : \A i \in DOMAIN received'[u] :
          /\ AwaitsRow(u)' => received'[u][i] < rowFts'[waits'[u]].row
          /\ \A j \in DOMAIN received'[u] : i < j => received'[u][i] < received'[u][j]
    BY <1>1, <1>7 DEF OrderInv, RowInv
  <2> QED BY <2>4, <2>5, <2>6, <2>7 DEF OrderInv
<1>11. LostInv'
  <2>1. Waiting' = Waiting /\ Waiting \subseteq Tasks
    BY <1>7 DEF Waiting
  <2>2. \A u \in Waiting : waits'[u] = Len(rowFts') =>
          \E i \in Answers' : ready'[i].id = waits'[u]
    BY <1>1, <1>3, <1>5
  <2>3. lost' + asked' + Len(replies') + Cardinality(Answers')
          <= cancels' + Cardinality(Waiting')
    <3>1. lost' + asked' + Len(replies') + Cardinality(Answers')
            = lost + asked + Len(replies) + Cardinality(Answers)
      BY <1>1, <1>5, <1>6, CountsAreNumbers
    <3>2. lost + asked + Len(replies) + Cardinality(Answers)
            <= cancels + Cardinality(Waiting)
      BY DEF LostInv, RowInv
    <3>3. cancels' = cancels
      BY <1>1
    <3> QED BY <2>1, <3>1, <3>2, <3>3
  <2> QED BY <2>1, <2>2, <2>3 DEF LostInv
<1>12. RowsAccounted'
  <2>1. Cardinality(RepliedRows') + Cardinality(QueuedRows')
          = Cardinality(RepliedRows) + Cardinality(QueuedRows)
    BY <1>5, <1>6, CountsAreNumbers
  <2>2. sent = Cardinality(HandedRows) + (Cardinality(RepliedRows)
                 + Cardinality(QueuedRows) + Cardinality(AwaitedRows)) + lost
    BY DEF RowsAccounted, Handed, OnTheWay, RowInv
  <2> QED BY <1>1, <1>7, <2>1, <2>2 DEF RowsAccounted, Handed, OnTheWay
<1> QED BY <1>7, <1>9, <1>10, <1>11, <1>12 DEF RowInv

(* The loop hands the oldest answer to its row future, if that still waits *)
(* for one; a row for a future that does not is lost.                      *)
LEMMA LoopResolvesRowKeeps ==
  ASSUME QueryInv, QueryInv', RowInv, LoopResolvesRow
  PROVE  RowInv'
<1> DEFINE id == Head(ready).id
           reply == Head(ready).reply
<1>1. /\ ready # <<>> /\ Head(ready).do = "row" /\ ready' = Tail(ready)
      /\ UNCHANGED <<sent, asked, replies, waits, received, cancels>>
  BY DEF LoopResolvesRow, tasks
<1>2. TypeOK /\ TypeOK'
  BY DEF QueryInv
<1>3. \/ /\ rowFts[id].kind = "pending" /\ UNCHANGED lost
         /\ rowFts' = [rowFts EXCEPT ![id] = reply]
      \/ /\ rowFts[id].kind # "pending" /\ UNCHANGED rowFts
         /\ lost' = IF reply.kind = "row" THEN lost + 1 ELSE lost
  BY DEF LoopResolvesRow, IsPending
<1>4. /\ ready[1].id = id /\ ready[1].reply = reply
      /\ 1 \in QueuedRows <=> reply.kind = "row"
      /\ 1 \in Answers /\ Answers \subseteq Nat
      /\ \A i \in QueuedRows' : i + 1 \in QueuedRows /\ ready'[i] = ready[i + 1]
      /\ \A i \in Answers' : i + 1 \in Answers /\ ready'[i] = ready[i + 1]
      /\ \A i \in Answers : i # 1 => i - 1 \in Answers' /\ ready'[i - 1] = ready[i]
      /\ Cardinality(QueuedRows') =
           Cardinality(QueuedRows) - (IF reply.kind = "row" THEN 1 ELSE 0)
      /\ Cardinality(Answers') = Cardinality(Answers) - 1
  <2>1. IsRow(Head(ready)) <=> reply.kind = "row"
    BY <1>1 DEF IsRow
  <2>2. Answers \subseteq Nat
    BY <1>2, PlacesOfRows DEF Answers
  <2> QED BY <1>1, <1>2, <2>1, <2>2, QueueShrinks
<1>5. id \in DOMAIN rowFts /\ reply \in Reply /\ reply.kind # "pending"
  <2>1. id \in DOMAIN rowFts
    BY <1>4 DEF FutureInv, RowInv, Answers
  <2>2. reply \in Reply
    BY <1>4 DEF QueryInv, RequestInv, Answers
  <2> QED BY <2>1, <2>2 DEF Reply, Kinds
<1> HIDE DEF id, reply
<1>6. RepliedRows' = RepliedRows /\ HandedRows' = HandedRows
  BY <1>1 DEF RepliedRows, HandedRows
<1>7. /\ DOMAIN rowFts' = DOMAIN rowFts
      /\ Len(rowFts') = Len(rowFts)
      /\ rowFts'[id].kind # "pending"
      /\ \A n \in DOMAIN rowFts : n # id => rowFts'[n] = rowFts[n]
  <2>1. rowFts' \in Seq(RowFt)
    BY <1>2 DEF TypeOK
  <2> QED BY <1>3, <1>5, <2>1, RowFutures
<1>8. FutureInv'
  <2>1. \A i \in Answers' : ready'[i].id \in DOMAIN rowFts
    BY <1>4 DEF FutureInv, RowInv, Answers
  <2>2. \A i \in DOMAIN ready' : ready'[i].do = "row" => ready'[i].id \in DOMAIN rowFts
    BY <2>1 DEF Answers
  <2>3. \A n \in DOMAIN rowFts' : IsPending(n)' => \E u \in Tasks : waits'[u] = n
    BY <1>1, <1>7, RowFutures DEF IsPending
  <2>4. rowFts' # <<>>
    BY <1>5, <1>7
  <2> QED BY <1>1, <1>7, <2>2, <2>3, <2>4 DEF FutureInv, RowInv
<1>9. /\ Cardinality(Answers') = Cardinality(Answers) - 1
      /\ asked' = asked /\ Len(replies') = Len(replies) /\ cancels' = cancels
      /\ lost' = lost \/ (rowFts[id].kind # "pending" /\ lost' = lost + 1)
      /\ Cardinality(Answers) \in Nat /\ Len(replies) \in Nat
      /\ lost \in Nat /\ asked \in Nat /\ cancels \in Nat
  BY <1>1, <1>3, <1>4, CountsAreNumbers
<1>10. LostInv'
  <2>1. /\ lost + asked + Len(replies) + Cardinality(Answers)
             <= cancels + Cardinality(Waiting)
        /\ IsFiniteSet(Waiting) /\ Cardinality(Waiting) \in Nat
        /\ Waiting \subseteq Tasks
    BY CountsAreNumbers DEF LostInv, RowInv, Waiting
  <2>2. ASSUME NEW u \in Waiting, waits[u] # id, waits[u] = Len(rowFts)
        PROVE  asked' > 0 \/ replies' # <<>> \/ \E i \in Answers' : ready'[i].id = waits'[u]
    <3>1. asked > 0 \/ replies # <<>> \/ \E i \in Answers : ready[i].id = waits[u]
      BY <2>2 DEF LostInv, RowInv
    <3>2. ASSUME NEW i \in Answers, ready[i].id = waits[u]
          PROVE  \E j \in Answers' : ready'[j].id = waits'[u]
      <4>1. i # 1
        BY <1>4, <2>2, <3>2
      <4>2. i - 1 \in Answers' /\ ready'[i - 1] = ready[i]
        BY <1>4, <4>1
      <4> QED BY <1>1, <3>2, <4>2
    <3> QED BY <1>1, <3>1, <3>2
  <2>3. CASE rowFts[id].kind = "pending"
    <3>1. PICK v \in Tasks : waits[v] = id
      BY <1>5, <2>3, RowFutures
    <3>2. \A u \in Tasks : waits[u] = id => u = v
      BY <1>5, <3>1, RowFutures
    <3>3. AwaitsPending(v) /\ ~AwaitsPending(v)'
      BY <1>1, <1>5, <1>7, <2>3, <3>1, RowFutures DEF AwaitsPending, IsPending
    <3>4. \A u \in Tasks \ {v} : AwaitsPending(u)' <=> AwaitsPending(u)
      BY <1>1, <1>7, <3>2, RowFutures DEF AwaitsPending, IsPending
    <3>5. Waiting' = Waiting \ {v} /\ v \in Waiting
      BY <3>3, <3>4 DEF Waiting
    <3>6. Cardinality(Waiting') = Cardinality(Waiting) - 1
      BY <2>1, <3>5, FS_RemoveElement
    <3>7. lost' + asked' + Len(replies') + Cardinality(Answers')
            <= cancels' + Cardinality(Waiting')
      <4>1. lost' = lost
        BY <1>3, <2>3
      <4> QED BY <1>9, <2>1, <3>6, <4>1
    <3>8. \A u \in Waiting' : u \in Waiting /\ waits[u] # id /\ waits'[u] = waits[u]
      BY <1>1, <2>1, <3>2, <3>5
    <3> QED BY <1>7, <2>2, <3>7, <3>8 DEF LostInv
  <2>4. CASE rowFts[id].kind # "pending"
    <3>1. rowFts' = rowFts /\ waits' = waits
      BY <1>1, <1>3, <2>4
    <3>2. Waiting' = Waiting /\ \A u \in Waiting : waits[u] # id
      BY <2>4, <3>1 DEF Waiting, AwaitsPending, IsPending
    <3>3. lost' + asked' + Len(replies') + Cardinality(Answers')
            <= lost + asked + Len(replies) + Cardinality(Answers)
      BY <1>9
    <3>4. lost' + asked' + Len(replies') + Cardinality(Answers')
            <= cancels' + Cardinality(Waiting')
      <4>1. cancels' + Cardinality(Waiting') = cancels + Cardinality(Waiting)
        BY <1>9, <3>2
      <4> QED BY <1>9, <2>1, <3>3, <4>1
    <3> QED BY <2>2, <3>1, <3>2, <3>4 DEF LostInv
  <2> QED BY <2>3, <2>4
<1> DEFINE takes(u) == waits[u] = id /\ rowFts[id].kind = "pending" /\ reply.kind = "row"
<1>11. ASSUME NEW u \in Tasks
       PROVE  /\ AwaitsRow(u)' <=> AwaitsRow(u) \/ takes(u)
              /\ takes(u) => ~AwaitsRow(u) /\ rowFts'[waits'[u]].row = reply.row
              /\ AwaitsRow(u) => rowFts'[waits'[u]] = rowFts[waits[u]]
  <2>1. CASE waits[u] = id /\ rowFts[id].kind = "pending"
    <3>1. rowFts'[waits'[u]] = reply
      BY <1>1, <1>3, <1>5, <2>1, RowFutures
    <3> QED BY <1>1, <1>5, <2>1, <3>1, RowFutures DEF AwaitsRow
  <2>2. CASE waits[u] # id \/ rowFts[id].kind # "pending"
    <3>1. waits[u] # 0 => rowFts'[waits'[u]] = rowFts[waits[u]]
      BY <1>1, <1>3, <1>5, <1>7, <2>2, RowFutures
    <3> QED BY <1>1, <2>2, <3>1 DEF AwaitsRow
  <2> QED BY <2>1, <2>2
<1>12. ASSUME NEW u \in Tasks, NEW w \in Tasks, takes(u), takes(w)
       PROVE  u = w
  <2>1. id # 0
    BY <1>5, RowFutures
  <2> QED BY <1>12, <2>1, RowFutures
<1>13. \A u \in Tasks : takes(u) => reply.kind = "row" /\ 1 \in QueuedRows
  BY <1>4
<1> HIDE DEF takes
<1>14. \A u \in Tasks : \A n : n \in Taken(u)' <=> n \in Taken(u) \/ (takes(u) /\ n = reply.row)
  <2> SUFFICES ASSUME NEW u \in Tasks, NEW n
               PROVE  n \in Taken(u)' <=> n \in Taken(u) \/ (takes(u) /\ n = reply.row)
    OBVIOUS
  <2>1. n \in Taken(u) <=>
          (\E i \in DOMAIN received[u] : received[u][i] = n)
            \/ (AwaitsRow(u) /\ rowFts[waits[u]].row = n)
    BY TakenRows
  <2>2. n \in Taken(u)' <=>
          (\E i \in DOMAIN received'[u] : received'[u][i] = n)
            \/ (AwaitsRow(u)' /\ rowFts'[waits'[u]].row = n)
    BY TakenRows
  <2> QED BY <1>1, <1>11, <2>1, <2>2
<1>15. 1 \in QueuedRows =>
         /\ reply.row <= sent
         /\ \A i \in QueuedRows' : reply.row < ready'[i].reply.row
         /\ \A i \in RepliedRows : reply.row < replies[i].row
         /\ \A u \in Tasks : \A n \in Taken(u) : n < reply.row
  <2>1. \A i \in QueuedRows' : i \in Nat /\ 1 < i + 1
    BY <1>2, PlacesOfRows DEF QueuedRows
  <2>2. 1 \in QueuedRows =>
          /\ ready[1].reply.row <= sent
          /\ \A i \in QueuedRows : 1 < i => ready[1].reply.row < ready[i].reply.row
          /\ \A i \in RepliedRows : ready[1].reply.row < replies[i].row
          /\ \A u \in Tasks : \A n \in Taken(u) : n < ready[1].reply.row
    BY DEF OrderInv, RowInv
  <2> QED BY <1>4, <2>1, <2>2
<1>16. OrderInv'
  <2>1. \A u \in Tasks : \A n \in Taken(u)' :
          /\ n <= sent'
          /\ \A i \in QueuedRows' : n < ready'[i].reply.row
          /\ \A i \in RepliedRows' : n < replies'[i].row
          /\ \A v \in Tasks : n \in Taken(v)' => u = v
    <3> SUFFICES ASSUME NEW u \in Tasks, NEW n,
                        n \in Taken(u) \/ (takes(u) /\ n = reply.row)
                 PROVE  /\ n <= sent
                        /\ \A i \in QueuedRows' : n < ready'[i].reply.row
                        /\ \A i \in RepliedRows : n < replies[i].row
                        /\ \A v \in Tasks : n \in Taken(v)' => u = v
      BY <1>1, <1>6, <1>14
    <3>1. ASSUME NEW v \in Tasks, NEW m \in Taken(v)
          PROVE  /\ m <= sent
                 /\ \A i \in QueuedRows' : m < ready'[i].reply.row
                 /\ \A i \in RepliedRows : m < replies[i].row
                 /\ \A w \in Tasks : m \in Taken(w) => v = w
      BY <1>4 DEF OrderInv, RowInv
    <3>2. ASSUME NEW v \in Tasks, NEW w \in Tasks, takes(v), NEW m \in Taken(w)
          PROVE  m # reply.row
      <4>1. m < reply.row /\ reply.row \in Nat
        BY <1>5, <1>13, <1>15, <3>2 DEF Reply
      <4>2. m \in Nat
        <5>1. \A i \in DOMAIN received[w] : received[w][i] \in Nat
          <6>1. received[w] \in Seq(Nat)
            BY DEF QueryInv, TypeOK
          <6> QED BY <6>1
        <5>2. AwaitsRow(w) => rowFts[waits[w]] \in RowFt
          BY RowFutures DEF AwaitsRow
        <5> QED BY <3>2, <5>1, <5>2, TakenRows DEF RowFt
      <4> QED BY <4>1, <4>2
    <3>3. CASE n \in Taken(u)
      BY <1>14, <3>1, <3>2, <3>3
    <3>4. CASE takes(u) /\ n = reply.row
      BY <1>12, <1>13, <1>14, <1>15, <3>2, <3>4
    <3> QED BY <3>3, <3>4
  <2>2. \A i \in QueuedRows' :
          /\ ready'[i].reply.row <= sent'
          /\ \A j \in QueuedRows' : i < j => ready'[i].reply.row < ready'[j].reply.row
          /\ \A j \in RepliedRows' : ready'[i].reply.row < replies'[j].row
    <3>1. \A i \in QueuedRows :
            /\ ready[i].reply.row <= sent
            /\ \A j \in QueuedRows : i < j => ready[i].reply.row < ready[j].reply.row
            /\ \A j \in RepliedRows : ready[i].reply.row < replies[j].row
      BY DEF OrderInv, RowInv
    <3>2. QueuedRows' \subseteq Nat /\ \A i, j \in Nat : i < j => i + 1 < j + 1
      BY <1>2, PlacesOfRows DEF QueuedRows
    <3> QED BY <1>1, <1>4, <1>6, <3>1, <3>2
  <2>3. \A i \in RepliedRows' :
          /\ replies'[i].row <= sent'
          /\ \A j \in RepliedRows' : i < j => replies'[i].row < replies'[j].row
    BY <1>1, <1>6 DEF OrderInv, RowInv
  <2>4. ASSUME NEW u \in Tasks, NEW i \in DOMAIN received'[u]
        PROVE  /\ AwaitsRow(u)' => received'[u][i] < rowFts'[waits'[u]].row
               /\ \A j \in DOMAIN received'[u] : i < j => received'[u][i] < received'[u][j]
    <3>1. i \in DOMAIN received[u] /\ received[u][i] \in Taken(u)
      BY <1>1, <2>4, TakenRows
    <3>2. /\ AwaitsRow(u) => received[u][i] < rowFts[waits[u]].row
          /\ \A j \in DOMAIN received[u] : i < j => received[u][i] < received[u][j]
      BY <3>1 DEF OrderInv, RowInv
    <3> QED BY <1>1, <1>11, <1>13, <1>15, <3>1, <3>2
  <2> QED BY <2>1, <2>2, <2>3, <2>4 DEF OrderInv
<1>17. RowsAccounted'
  <2>0. /\ Cardinality(QueuedRows) \in Nat /\ Cardinality(QueuedRows') \in Nat
        /\ Cardinality(RepliedRows) \in Nat /\ Cardinality(HandedRows) \in Nat
        /\ Cardinality(AwaitedRows) \in Nat /\ IsFiniteSet(AwaitedRows)
        /\ lost \in Nat /\ lost' \in Nat
    BY <1>2, CountsAreNumbers DEF TypeOK
  <2>1. sent = Cardinality(HandedRows) + (Cardinality(RepliedRows)
                 + Cardinality(QueuedRows) + Cardinality(AwaitedRows)) + lost
    BY DEF RowsAccounted, Handed, OnTheWay, RowInv
  <2>2. Cardinality(QueuedRows') + Cardinality(AwaitedRows') + lost'
          = Cardinality(QueuedRows) + Cardinality(AwaitedRows) + lost
    <3>1. CASE rowFts[id].kind = "pending" /\ reply.kind = "row"
      <4>1. PICK v \in Tasks : waits[v] = id
        BY <1>5, <3>1, RowFutures
      <4>2. takes(v)
        BY <3>1, <4>1 DEF takes
      <4>3. AwaitedRows' = AwaitedRows \cup {v} /\ v \notin AwaitedRows
        BY <1>11, <1>12, <4>2 DEF AwaitedRows
      <4>4. Cardinality(AwaitedRows') = Cardinality(AwaitedRows) + 1
        BY <2>0, <4>3, FS_AddElement
      <4>5. Cardinality(QueuedRows') = Cardinality(QueuedRows) - 1 /\ lost' = lost
        BY <1>3, <1>4, <3>1
      <4> QED BY <2>0, <4>4, <4>5
    <3>2. CASE rowFts[id].kind # "pending" \/ reply.kind # "row"
      <4>1. \A u \in Tasks : ~takes(u)
        BY <3>2 DEF takes
      <4>2. AwaitedRows' = AwaitedRows
        BY <1>11, <4>1 DEF AwaitedRows
      <4>3. \/ Cardinality(QueuedRows') = Cardinality(QueuedRows) - 1 /\ lost' = lost + 1
            \/ Cardinality(QueuedRows') = Cardinality(QueuedRows) - 0 /\ lost' = lost
        BY <1>3, <1>4, <3>2
      <4> QED BY <2>0, <4>2, <4>3
    <3> QED BY <3>1, <3>2
  <2>3. Cardinality(AwaitedRows') \in Nat
    <3>1. AwaitedRows' \in SUBSET Tasks
      BY DEF AwaitedRows
    <3> QED BY <3>1, AsyncQueryAssumption, FS_Subset, FS_CardinalityType
  <2>4. sent' = Cardinality(HandedRows') + (Cardinality(RepliedRows')
                 + Cardinality(QueuedRows') + Cardinality(AwaitedRows')) + lost'
    <3>1. /\ Cardinality(RepliedRows') = Cardinality(RepliedRows)
          /\ Cardinality(HandedRows') = Cardinality(HandedRows) /\ sent' = sent
      BY <1>1, <1>6
    <3> QED BY <2>0, <2>1, <2>2, <2>3, <3>1
  <2> QED BY <2>4 DEF RowsAccounted, Handed, OnTheWay
<1> QED BY <1>6, <1>8, <1>10, <1>16, <1>17 DEF RowInv

(* The core answers the oldest request, behind its other answers; a row is *)
(* the next of the stream.                                                 *)
LEMMA CoreRepliesKeeps ==
  ASSUME QueryInv, QueryInv', RowInv, NEW reply \in Reply, CoreReplies(reply),
         IF reply.kind = "row" THEN sent' = sent + 1 /\ reply.row = sent + 1
                               ELSE sent' = sent
  PROVE  RowInv'
<1> DEFINE new == Len(replies) + 1
<1>1. /\ asked > 0 /\ asked' = asked - 1 /\ replies' = Append(replies, reply)
      /\ UNCHANGED <<rowFts, ready, waits, received, cancels, lost>>
  BY DEF CoreReplies, tasks
<1>2. TypeOK /\ TypeOK'
  BY DEF QueryInv
<1>3. /\ \A i \in DOMAIN replies : i \in Nat /\ i < new /\ replies'[i] = replies[i]
      /\ replies'[new] = reply /\ new \in Nat
      /\ RepliedRows' = RepliedRows \cup (IF reply.kind = "row" THEN {new} ELSE {})
      /\ Cardinality(RepliedRows') =
           Cardinality(RepliedRows) + (IF reply.kind = "row" THEN 1 ELSE 0)
      /\ Len(replies') = Len(replies) + 1
  BY <1>1, <1>2, RepliesGrow
<1> HIDE DEF new
<1>4. /\ \A u \in Tasks : AwaitsRow(u)' <=> AwaitsRow(u)
      /\ \A u \in Tasks : AwaitsPending(u)' <=> AwaitsPending(u)
      /\ \A u \in Tasks : \A n : n \in Taken(u)' <=> n \in Taken(u)
      /\ AwaitedRows' = AwaitedRows /\ HandedRows' = HandedRows
      /\ QueuedRows' = QueuedRows /\ Answers' = Answers
  BY <1>1 DEF AwaitsRow, AwaitsPending, IsPending, Taken, AwaitedRows, HandedRows,
              QueuedRows, IsRow, Answers
<1>5. sent \in Nat /\ sent' \in Nat /\ sent <= sent'
  BY <1>2 DEF TypeOK
<1>6. FutureInv'
  BY <1>1 DEF FutureInv, RowInv, IsPending
<1>7. LostInv'
  <2>1. Waiting' = Waiting
    BY <1>4 DEF Waiting
  <2>2. replies' # <<>>
    BY <1>1, <1>2 DEF TypeOK
  <2>3. lost' + asked' + Len(replies') + Cardinality(Answers')
          = lost + asked + Len(replies) + Cardinality(Answers)
    <3>1. /\ asked' = asked - 1 /\ lost' = lost /\ Len(replies') = Len(replies) + 1
          /\ Cardinality(Answers') = Cardinality(Answers)
      BY <1>1, <1>3, <1>4
    <3>2. /\ asked \in Nat /\ lost \in Nat /\ Len(replies) \in Nat
          /\ Cardinality(Answers) \in Nat
      BY CountsAreNumbers
    <3> QED BY <3>1, <3>2
  <2>4. lost + asked + Len(replies) + Cardinality(Answers) <= cancels + Cardinality(Waiting)
    BY DEF LostInv, RowInv
  <2>5. cancels' = cancels
    BY <1>1
  <2> QED BY <2>1, <2>2, <2>3, <2>4, <2>5 DEF LostInv
<1>8. RowsAccounted'
  <2>1. sent = Cardinality(HandedRows) + (Cardinality(RepliedRows)
                 + Cardinality(QueuedRows) + Cardinality(AwaitedRows)) + lost
    BY DEF RowsAccounted, Handed, OnTheWay, RowInv
  <2>2. /\ Cardinality(QueuedRows) \in Nat /\ Cardinality(RepliedRows) \in Nat
        /\ Cardinality(HandedRows) \in Nat /\ Cardinality(AwaitedRows) \in Nat
        /\ lost \in Nat
    BY CountsAreNumbers
  <2>3. \/ sent' = sent + 1 /\ Cardinality(RepliedRows') = Cardinality(RepliedRows) + 1
        \/ sent' = sent /\ Cardinality(RepliedRows') = Cardinality(RepliedRows) + 0
    BY <1>3
  <2>4. sent' = Cardinality(HandedRows) + (Cardinality(RepliedRows')
                 + Cardinality(QueuedRows) + Cardinality(AwaitedRows)) + lost
    BY <2>1, <2>2, <2>3
  <2> QED BY <1>1, <1>4, <2>4 DEF RowsAccounted, Handed, OnTheWay
<1>9. OrderInv'
  <2>1. \A i \in RepliedRows' :
          \/ i \in RepliedRows /\ i \in Nat /\ i < new /\ replies'[i] = replies[i]
          \/ i = new /\ replies'[i].row = sent + 1 /\ sent' = sent + 1
    <3>1. RepliedRows \subseteq DOMAIN replies
      BY DEF RepliedRows
    <3> QED BY <1>3, <3>1
  <2>2. /\ \A i \in RepliedRows : replies[i] \in Reply
        /\ \A i \in QueuedRows : ready[i].reply \in Reply
    BY <1>2 DEF RepliedRows, QueuedRows, IsRow, QueryInv, RequestInv, TypeOK
  <2>3. \A u \in Tasks : \A n \in Taken(u) : n \in Nat
    <3> SUFFICES ASSUME NEW u \in Tasks
                 PROVE  \A n \in Taken(u) : n \in Nat
      OBVIOUS
    <3>1. received[u] \in Seq(Nat)
      BY <1>2 DEF TypeOK
    <3>2. AwaitsRow(u) => rowFts[waits[u]] \in RowFt
      BY RowFutures DEF AwaitsRow
    <3> QED BY <3>1, <3>2, TakenRows DEF RowFt
  <2>4. \A n \in Nat : n <= sent => n < sent + 1 /\ n <= sent'
    BY <1>5
  <2>5. \A u \in Tasks : \A n \in Taken(u)' :
          /\ n <= sent'
          /\ \A i \in QueuedRows' : n < ready'[i].reply.row
          /\ \A i \in RepliedRows' : n < replies'[i].row
          /\ \A v \in Tasks : n \in Taken(v)' => u = v
    <3> SUFFICES ASSUME NEW u \in Tasks, NEW n \in Taken(u)
                 PROVE  /\ n <= sent'
                        /\ \A i \in QueuedRows : n < ready[i].reply.row
                        /\ \A i \in RepliedRows' : n < replies'[i].row
                        /\ \A v \in Tasks : n \in Taken(v) => u = v
      BY <1>1, <1>4
    <3>1. /\ n <= sent
          /\ \A i \in QueuedRows : n < ready[i].reply.row
          /\ \A i \in RepliedRows : n < replies[i].row
          /\ \A v \in Tasks : n \in Taken(v) => u = v
      BY DEF OrderInv, RowInv
    <3> QED BY <2>1, <2>3, <2>4, <3>1
  <2>6. \A i \in QueuedRows' :
          /\ ready'[i].reply.row <= sent'
          /\ \A j \in QueuedRows' : i < j => ready'[i].reply.row < ready'[j].reply.row
          /\ \A j \in RepliedRows' : ready'[i].reply.row < replies'[j].row
    <3>1. \A i \in QueuedRows :
            /\ ready[i].reply.row <= sent
            /\ \A j \in QueuedRows : i < j => ready[i].reply.row < ready[j].reply.row
            /\ \A j \in RepliedRows : ready[i].reply.row < replies[j].row
      BY DEF OrderInv, RowInv
    <3>2. \A i \in QueuedRows : ready[i].reply.row \in Nat
      BY <2>2 DEF Reply
    <3> QED BY <1>1, <1>4, <2>1, <2>4, <3>1, <3>2
  <2>7. \A i \in RepliedRows' :
          /\ replies'[i].row <= sent'
          /\ \A j \in RepliedRows' : i < j => replies'[i].row < replies'[j].row
    <3>1. \A i \in RepliedRows :
            /\ replies[i].row <= sent
            /\ \A j \in RepliedRows : i < j => replies[i].row < replies[j].row
      BY DEF OrderInv, RowInv
    <3>2. \A i \in RepliedRows : replies[i].row \in Nat
      BY <2>2 DEF Reply
    <3>3. ~(new < new) /\ \A i \in Nat : i < new => ~(new < i)
      BY <1>3
    <3> QED BY <1>5, <2>1, <2>4, <3>1, <3>2, <3>3
  <2>8. \A u \in Tasks : \A i \in DOMAIN received'[u] :
          /\ AwaitsRow(u)' => received'[u][i] < rowFts'[waits'[u]].row
          /\ \A j \in DOMAIN received'[u] : i < j => received'[u][i] < received'[u][j]
    BY <1>1, <1>4 DEF OrderInv, RowInv
  <2> QED BY <2>5, <2>6, <2>7, <2>8 DEF OrderInv
<1> QED BY <1>4, <1>6, <1>7, <1>8, <1>9 DEF RowInv
-----------------------------------------------------------------------------
(* There are no rows in the initial states.                                *)
LEMMA InitRows == Init => RowInv
<1> SUFFICES ASSUME Init
             PROVE  RowInv
  OBVIOUS
<1>1. /\ rowFts = <<>> /\ sent = 0 /\ asked = 0 /\ replies = <<>> /\ ready = <<>>
      /\ cancels = 0 /\ lost = 0
      /\ \A t \in Tasks : waits[t] = 0 /\ received[t] = <<>>
  BY DEF Init
<1>2. \A t \in Tasks : ~AwaitsRow(t) /\ ~AwaitsPending(t)
  BY <1>1 DEF AwaitsRow, AwaitsPending
<1>3. /\ RepliedRows = {} /\ QueuedRows = {} /\ Answers = {} /\ AwaitedRows = {}
      /\ HandedRows = {}
  BY <1>1, <1>2 DEF RepliedRows, QueuedRows, Answers, AwaitedRows, HandedRows
<1>4. IsFiniteSet({}) /\ Cardinality({}) = 0
  BY FS_EmptySet
<1>5. FutureInv
  BY <1>1 DEF FutureInv
<1>6. OrderInv
  <2>1. \A t \in Tasks : Taken(t) = {}
    BY <1>1, <1>2 DEF Taken
  <2> QED BY <1>1, <1>3, <2>1 DEF OrderInv
<1>7. LostInv
  <2>1. Waiting = {}
    BY <1>2 DEF Waiting
  <2> QED BY <1>1, <1>3, <1>4, <2>1 DEF LostInv
<1>8. RowsAccounted
  BY <1>1, <1>3, <1>4 DEF RowsAccounted, Handed, OnTheWay
<1> QED BY <1>3, <1>4, <1>5, <1>6, <1>7, <1>8 DEF RowInv

(* Every step keeps the invariant of the rows: one case for each action.   *)
LEMMA NextRows == QueryInv /\ RowInv /\ [Next]_vars => RowInv'
<1> SUFFICES ASSUME QueryInv, RowInv, [Next]_vars
             PROVE  RowInv'
  OBVIOUS
<1>1. QueryInv'
  BY NextInv
<1>2. CASE \/ ExecuteQuery \/ SubmitReturns \/ AwaitReturns \/ QueryCallback
           \/ CancelResult \/ Metadata \/ CoreAnswers \/ UNCHANGED vars
  <2>1. UNCHANGED <<rowFts, sent, asked, replies>>
    BY <1>2 DEF ExecuteQuery, SubmitReturns, AwaitReturns, QueryCallback, CancelResult,
                Metadata, CoreAnswers, rows, vars
  <2>2. UNCHANGED <<waits, received, cancels, lost>> /\ UNCHANGED ready
    BY <1>2 DEF ExecuteQuery, SubmitReturns, AwaitReturns, QueryCallback, CancelResult,
                Metadata, CoreAnswers, tasks, vars
  <2> QED BY <1>1, <2>1, <2>2, RowsKeptByOthers
<1>3. CASE QueryCallbackQueues
  <2>1. ToIterFt(io) \in Callbacks /\ ToIterFt(io).do # "row"
    BY <1>3 DEF QueryCallbackQueues, ToIterFt, Answer, Callbacks, Kinds, QueryInv, TypeOK
  <2> QED BY <1>1, <1>3, <2>1, RowsKeptByQueueing DEF QueryCallbackQueues, rows, tasks
<1>4. CASE CancelFuture
  <2>1. DoneCallback \in Callbacks /\ DoneCallback.do # "row"
    BY DEF DoneCallback, Answer, Callbacks, Kinds
  <2> QED BY <1>1, <1>4, <2>1, RowsKeptByQueueing DEF CancelFuture, rows, tasks
<1>5. CASE LoopResolvesQuery
  BY <1>1, <1>5, RowsKeptByTaking DEF LoopResolvesQuery, rows, tasks
<1>6. CASE LoopCancelsQuery
  BY <1>1, <1>6, RowsKeptByTaking DEF LoopCancelsQuery, rows, tasks
<1>7. ASSUME NEW t \in Tasks, NextRow(t) \/ RowReturns(t) \/ CancelAwait(t)
      PROVE  RowInv'
  BY <1>1, <1>7, NextRowKeeps, RowReturnsKeeps, CancelAwaitKeeps
<1>8. CASE RowCallback
  BY <1>1, <1>8, RowCallbackKeeps
<1>9. CASE LoopResolvesRow
  BY <1>1, <1>9, LoopResolvesRowKeeps
<1>10. CASE CoreSendsRow
  <2>1. [kind |-> "row", row |-> sent + 1] \in Reply
    BY DEF Reply, Kinds, QueryInv, TypeOK
  <2>2. Answer("end") \in Reply /\ Answer("error") \in Reply
        /\ Answer("end").kind # "row" /\ Answer("error").kind # "row"
    BY DEF Answer, Reply, Kinds
  <2>3. CASE sent' = sent + 1 /\ CoreReplies([kind |-> "row", row |-> sent + 1])
    BY <1>1, <2>1, <2>3, CoreRepliesKeeps
  <2>4. CASE sent' = sent /\ (CoreReplies(Answer("end")) \/ CoreReplies(Answer("error")))
    BY <1>1, <2>2, <2>4, CoreRepliesKeeps
  <2> QED BY <1>10, <2>3, <2>4 DEF CoreSendsRow
<1>11. CASE CoreRefusesRow
  <2>1. PICK reply \in Reply : CoreReplies(reply) /\ reply.kind # "row"
    BY <1>11 DEF CoreRefusesRow, Answer, Reply, Kinds
  <2>2. sent' = sent
    BY <1>11 DEF CoreRefusesRow
  <2> QED BY <1>1, <2>1, <2>2, CoreRepliesKeeps
<1> QED BY <1>2, <1>3, <1>4, <1>5, <1>6, <1>7, <1>8, <1>9, <1>10, <1>11
       DEF Next, Submission, Returns, IOThread, Loop, Server
-----------------------------------------------------------------------------
(* The inductive invariant of an asyncio query and of its rows.            *)
THEOREM RowInvariance == Spec => []IInv
<1>1. Init => IInv
  BY InitInv, InitRows DEF IInv
<1>2. IInv /\ [Next]_vars => IInv'
  BY NextInv, NextRows DEF IInv
<1> QED BY <1>1, <1>2, PTL DEF Spec

(* A row the stream produced is with a task, lost, or on its way.          *)
THEOREM NoRowVanishes == Spec => []RowsAccounted
<1>1. IInv => RowsAccounted
  BY DEF IInv, RowInv
<1> QED BY <1>1, RowInvariance, PTL

(* The tasks get the rows in the order of the stream, each row once and    *)
(* one task only.                                                          *)
THEOREM RowsArriveInOrder == Spec => []RowsInOrder
<1>1. IInv => RowsInOrder
  <2> SUFFICES ASSUME IInv, NEW t \in Tasks, NEW u \in Tasks,
                      NEW i \in DOMAIN received[t], NEW j \in DOMAIN received[u]
               PROVE  /\ received[t][i] = received[u][j] => t = u /\ i = j
                      /\ t = u /\ i < j => received[t][i] < received[t][j]
    BY DEF RowsInOrder
  <2>1. \A a, b \in DOMAIN received[t] : a < b => received[t][a] < received[t][b]
    BY DEF IInv, RowInv, OrderInv
  <2>2. /\ received[t][i] \in Taken(t) /\ received[u][j] \in Taken(u)
        /\ \A n \in Taken(t) : n \in Taken(u) => t = u
    BY DEF IInv, RowInv, OrderInv, Taken
  <2>3. received[t] \in Seq(Nat)
    BY DEF IInv, QueryInv, TypeOK
  <2>4. CASE t = u
    <3>1. /\ DOMAIN received[t] \subseteq Nat
          /\ \A a \in DOMAIN received[t] : received[t][a] \in Nat
      BY <2>3
    <3>2. i < j \/ j < i \/ i = j
      BY <2>4, <3>1
    <3> QED BY <2>1, <2>4, <3>1, <3>2
  <2>5. CASE t # u
    BY <2>2, <2>5
  <2> QED BY <2>4, <2>5
<1> QED BY <1>1, RowInvariance, PTL

(* A row is lost only by a cancelled await, or to a task whose row future   *)
(* another task has replaced while it was pending; each costs at most one. *)
THEOREM OnlyCancelsLoseRows == Spec => []RowsLostByCancelOnly
<1>1. IInv => RowsLostByCancelOnly
  <2> SUFFICES ASSUME IInv
               PROVE  lost <= cancels + Cardinality(Replaced)
    BY DEF RowsLostByCancelOnly
  <2>1. lost + asked + Len(replies) + Cardinality(Answers) <= cancels + Cardinality(Waiting)
    BY DEF IInv, RowInv, LostInv
  <2>2. /\ lost \in Nat /\ asked \in Nat /\ cancels \in Nat /\ replies \in Seq(Reply)
        /\ ready \in Seq(Callbacks)
    BY DEF IInv, QueryInv, TypeOK, Callbacks
  <2>3. Len(replies) \in Nat /\ (replies # <<>> => Len(replies) > 0)
    BY <2>2
  <2>4. Cardinality(Answers) \in Nat /\ (Answers # {} => Cardinality(Answers) > 0)
    <3>1. Answers = Places(ready, AnswerCallbacks)
      BY <2>2 DEF Answers, Places, AnswerCallbacks
    <3>2. IsFiniteSet(Answers) /\ Cardinality(Answers) \in Nat
      BY <2>2, <3>1, FinitePlaces
    <3> QED BY <3>2, FS_EmptySet
  <2>5. IsFiniteSet(Waiting) /\ Cardinality(Waiting) \in Nat
    <3>1. Waiting \in SUBSET Tasks
      BY DEF Waiting
    <3>2. IsFiniteSet(Waiting)
      BY <3>1, AsyncQueryAssumption, FS_Subset
    <3> QED BY <3>2, FS_CardinalityType
  <2>6. CASE \A t \in Waiting : waits[t] # Len(rowFts)
    <3>1. Replaced = Waiting
      BY <2>6 DEF Replaced
    <3> QED BY <2>1, <2>2, <2>3, <2>4, <2>5, <3>1
  <2>7. ASSUME NEW t \in Waiting, waits[t] = Len(rowFts)
        PROVE  lost <= cancels + Cardinality(Replaced)
    <3>1. waits[t] # 0 /\ t \in Tasks /\ Waiting \subseteq Tasks
      BY DEF Waiting, AwaitsPending
    <3>2. \A u \in Waiting : waits[u] = Len(rowFts) => u = t
      BY <2>7, <3>1 DEF IInv, RowInv, FutureInv
    <3>3. Replaced = Waiting \ {t}
      BY <2>7, <3>2 DEF Replaced
    <3>4. Cardinality(Replaced) = Cardinality(Waiting) - 1
      BY <2>5, <3>3, FS_RemoveElement
    <3>5. asked > 0 \/ replies # <<>> \/ Answers # {}
      BY <2>7 DEF IInv, RowInv, LostInv
    <3>6. asked + Len(replies) + Cardinality(Answers) >= 1
      BY <2>2, <2>3, <2>4, <3>5
    <3> QED BY <2>1, <2>2, <2>3, <2>4, <2>5, <3>4, <3>6
  <2> QED BY <2>6, <2>7
<1> QED BY <1>1, RowInvariance, PTL
=============================================================================
