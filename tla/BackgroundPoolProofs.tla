----------------------- MODULE BackgroundPoolProofs -----------------------
(***************************************************************************)
(* The safety properties of BackgroundPool, for every number of threads    *)
(* and of queries.                                                         *)
(***************************************************************************)
EXTENDS BackgroundPool, FiniteSetTheorems, TLAPS

(* What a sequence contains after an element was put behind it.            *)
LEMMA AppendElements ==
  ASSUME NEW S, NEW s \in Seq(S), NEW e \in S
  PROVE  /\ Append(s, e) \in Seq(S)
         /\ \A t : (\E i \in DOMAIN Append(s, e) : Append(s, e)[i] = t)
                     <=> (\E i \in DOMAIN s : s[i] = t) \/ t = e
<1>1. /\ Append(s, e) \in Seq(S)
      /\ Len(s) \in Nat
      /\ DOMAIN Append(s, e) = 1 .. Len(s) + 1
      /\ DOMAIN s = 1 .. Len(s)
      /\ Append(s, e)[Len(s) + 1] = e
      /\ \A i \in 1 .. Len(s) : Append(s, e)[i] = s[i]
  OBVIOUS
<1>2. ASSUME NEW t, NEW i \in DOMAIN Append(s, e), Append(s, e)[i] = t
      PROVE  (\E j \in DOMAIN s : s[j] = t) \/ t = e
  BY <1>1, <1>2
<1>3. ASSUME NEW t, NEW i \in DOMAIN s, s[i] = t
      PROVE  \E j \in DOMAIN Append(s, e) : Append(s, e)[j] = t
  BY <1>1, <1>3
<1>4. Len(s) + 1 \in DOMAIN Append(s, e)
  BY <1>1
<1> QED BY <1>1, <1>2, <1>3, <1>4

(* What is left of a sequence behind its head.                             *)
LEMMA TailElements ==
  ASSUME NEW S, NEW s \in Seq(S), s # <<>>
  PROVE  /\ Head(s) \in S /\ Tail(s) \in Seq(S)
         /\ 1 \in DOMAIN s /\ Head(s) = s[1]
         /\ \A i \in DOMAIN Tail(s) : i + 1 \in DOMAIN s /\ Tail(s)[i] = s[i + 1]
         /\ \A i \in DOMAIN s : i = 1 \/ (i - 1 \in DOMAIN Tail(s) /\ Tail(s)[i - 1] = s[i])
<1>1. /\ Len(s) \in Nat \ {0} /\ DOMAIN s = 1 .. Len(s)
      /\ Head(s) = s[1] /\ Head(s) \in S
      /\ Tail(s) \in Seq(S)
      /\ Len(Tail(s)) = Len(s) - 1
      /\ DOMAIN Tail(s) = 1 .. Len(s) - 1
      /\ \A i \in 1 .. Len(s) - 1 : Tail(s)[i] = s[i + 1]
  OBVIOUS
<1> QED BY <1>1
-----------------------------------------------------------------------------
(***************************************************************************)
(* What the changes of the queue and of the threads do to the places a     *)
(* task can be in.                                                         *)
(***************************************************************************)

(* A task that is submitted is in the queue, and nothing else changes.     *)
LEMMA SubmitPlaces ==
  ASSUME TypeOK, NEW task \in Tasks, queue' = Append(queue, task)
  PROVE  /\ queue' \in Seq(Tasks)
         /\ \A t : InQueue(t)' <=> InQueue(t) \/ t = task
<1>1. queue \in Seq(Tasks)
  BY DEF TypeOK
<1>2. queue' \in Seq(Tasks)
  BY <1>1, AppendElements
<1>3. ASSUME NEW t
      PROVE  InQueue(t)' <=> InQueue(t) \/ t = task
  BY <1>1, AppendElements DEF InQueue
<1> QED BY <1>2, <1>3

(* What is in the queue stays there unless a thread takes it.              *)
LEMMA QueuedStays ==
  ASSUME TypeOK, NEW task \in Tasks,
         queue' = Append(queue, task) \/ queue' = queue
  PROVE  \A t : InQueue(t) => InQueue(t)'
<1>1. CASE queue' = Append(queue, task)
  BY <1>1, SubmitPlaces
<1>2. CASE queue' = queue
  BY <1>2 DEF InQueue
<1> QED BY <1>1, <1>2

(* A task that is taken goes from the queue to a thread.                   *)
LEMMA TakePlaces ==
  ASSUME TypeOK, NEW w \in Workers, Take(w)
  PROVE  /\ Head(queue) \in Tasks
         /\ InQueue(Head(queue))
         /\ \A t : InQueue(t)' => InQueue(t)
         /\ \A t : InQueue(t) => InQueue(t)' \/ t = Head(queue)
         /\ \A t : t # Idle => (OnThread(t)' <=> OnThread(t) \/ t = Head(queue))
<1>1. queue \in Seq(Tasks) /\ queue # <<>> /\ queue' = Tail(queue)
  BY DEF TypeOK, Take
<1>2. /\ job \in [Workers -> Tasks \cup {Idle}]
      /\ job[w] = Idle /\ job' = [job EXCEPT ![w] = Head(queue)]
  BY DEF TypeOK, Take
<1>3. \A t : t # Idle => (OnThread(t)' <=> OnThread(t) \/ t = Head(queue))
  BY <1>2 DEF OnThread
<1>4. Head(queue) \in Tasks /\ InQueue(Head(queue))
  BY <1>1, TailElements DEF InQueue
<1>5. \A t : InQueue(t)' => InQueue(t)
  BY <1>1, TailElements DEF InQueue
<1>6. ASSUME NEW t, InQueue(t)
      PROVE  InQueue(t)' \/ t = Head(queue)
  BY <1>1, <1>6, TailElements DEF InQueue
<1> QED BY <1>3, <1>4, <1>5, <1>6

(* A thread that gets free leaves its task, and nothing else changes.      *)
LEMMA FreePlaces ==
  ASSUME TypeOK, NEW w \in Workers, Free(w)
  PROVE  /\ \A t : t # Idle /\ OnThread(t)' => OnThread(t)
         /\ \A t : OnThread(t) => OnThread(t)' \/ t = job[w]
BY DEF TypeOK, Free, OnThread

(* An empty tuple is no task, and a task is one of its kind.               *)
LEMMA TaskShape ==
  /\ Idle \notin Tasks
  /\ \A kind \in {"outer", "core"}, q \in Queries :
       <<kind, q>> \in Tasks /\ <<kind, q>>[1] = kind /\ <<kind, q>>[2] = q
  /\ \A task \in Tasks : task[1] \in {"outer", "core"} /\ task[2] \in Queries
                           /\ task = <<task[1], task[2]>>
BY DEF Tasks, Idle
-----------------------------------------------------------------------------
(***************************************************************************)
(* Every step keeps the invariant, part by part.                           *)
(***************************************************************************)

(* Types.                                                                  *)
LEMMA TypeStep == TypeOK /\ [Next]_vars => TypeOK'
<1> SUFFICES ASSUME TypeOK, [Next]_vars
             PROVE  TypeOK'
  OBVIOUS
<1> USE DEF TypeOK, Running, Waits, Free
<1>1. ASSUME NEW q \in Queries, ExecuteQuery(q)
     PROVE  TypeOK'
  BY <1>1, TaskShape DEF ExecuteQuery
<1>2. ASSUME NEW q \in Queries, SubmitOuter(q)
     PROVE  TypeOK'
  <2>1. queue' \in Seq(Tasks)
    BY <1>2, SubmitPlaces, TaskShape DEF SubmitOuter
  <2> QED BY <1>2, <2>1 DEF SubmitOuter
<1>3. ASSUME NEW q \in Queries, CancelToken(q)
     PROVE  TypeOK'
  BY <1>3, TaskShape DEF CancelToken
<1>4. ASSUME NEW q \in Queries, Answer(q)
     PROVE  TypeOK'
  BY <1>4, TaskShape DEF Answer
<1>5. ASSUME NEW w \in Workers, Take(w)
     PROVE  TypeOK'
  <2>1. queue \in Seq(Tasks) /\ queue # <<>>
    BY <1>5 DEF Take
  <2>2. Head(queue) \in Tasks /\ Tail(queue) \in Seq(Tasks)
    BY <2>1, TailElements
  <2> QED BY <1>5, <2>2, TaskShape DEF Take
<1>6. ASSUME NEW w \in Workers, NEW q \in Queries, SendQuery(w, q)
     PROVE  TypeOK'
  BY <1>6, TaskShape DEF SendQuery
<1>7. ASSUME NEW w \in Workers, NEW q \in Queries, SubmitCore(w, q)
     PROVE  TypeOK'
  <2>1. queue' \in Seq(Tasks)
    BY <1>7, SubmitPlaces, TaskShape DEF SubmitCore
  <2> QED BY <1>7, <2>1 DEF SubmitCore
<1>8. ASSUME NEW w \in Workers, NEW q \in Queries, SeesToken(w, q)
     PROVE  TypeOK'
  BY <1>8, TaskShape DEF SeesToken
<1>9. ASSUME NEW w \in Workers, NEW q \in Queries, Collect(w, q)
     PROVE  TypeOK'
  BY <1>9, TaskShape DEF Collect
<1>10. ASSUME NEW w \in Workers, NEW q \in Queries, CoreTaskEnds(w, q)
     PROVE  TypeOK'
  BY <1>10, TaskShape DEF CoreTaskEnds
<1>11. CASE Close
  BY <1>11, TaskShape DEF Close, CloseConnection, ResetClient,
     ShutdownPool, ShutdownAtExit, CloseReturns
<1>12. CASE UNCHANGED vars
  BY <1>12 DEF vars
<1> QED BY <1>1, <1>2, <1>3, <1>4, <1>5, <1>6, <1>7, <1>8, <1>9, <1>10,
           <1>11, <1>12 DEF Next, Caller, Thread, Outer

(* A query that is not done stays where its phase says.                    *)
LEMMA PlaceStep == TypeOK /\ PlaceInv /\ [Next]_vars => PlaceInv'
<1> SUFFICES ASSUME TypeOK /\ PlaceInv, [Next]_vars
             PROVE  PlaceInv'
  OBVIOUS
<1> USE DEF TypeOK, PlaceInv, Running, Waits
<1>1. ASSUME NEW q \in Queries, ExecuteQuery(q)
     PROVE  PlaceInv'
  BY <1>1 DEF ExecuteQuery, InQueue, OnThread
<1>2. ASSUME NEW q \in Queries, SubmitOuter(q)
     PROVE  PlaceInv'
  <2>1. \A t : InQueue(t) => InQueue(t)'
    <3>1. <<"outer", q>> \in Tasks
      BY TaskShape
    <3>2. queue' = Append(queue, <<"outer", q>>) \/ queue' = queue
      BY <1>2 DEF SubmitOuter
    <3> QED BY <3>1, <3>2, QueuedStays
  <2>2. \A t : OnThread(t) => OnThread(t)'
    BY <1>2 DEF SubmitOuter, OnThread
  <2>3. phase'[q] = "queued" => InQueue(<<"outer", q>>)'
    BY <1>2, SubmitPlaces, TaskShape DEF SubmitOuter, Shutdown
  <2> QED BY <1>2, <2>1, <2>2, <2>3 DEF SubmitOuter
<1>3. ASSUME NEW q \in Queries, CancelToken(q)
     PROVE  PlaceInv'
  BY <1>3 DEF CancelToken, InQueue, OnThread
<1>4. ASSUME NEW q \in Queries, Answer(q)
     PROVE  PlaceInv'
  BY <1>4 DEF Answer, InQueue, OnThread
<1>5. ASSUME NEW w \in Workers, Take(w)
     PROVE  PlaceInv'
  <2>1. \A r \in Queries : phase'[r] # phase[r] =>
            phase'[r] = "taken" /\ Head(queue) = <<"outer", r>>
    BY <1>5, TakePlaces, TaskShape DEF Take
  <2>2. \A r \in Queries : Head(queue) = <<"outer", r>> => phase'[r] = "taken"
    BY <1>5, TaskShape DEF Take
  <2>3. UNCHANGED coreDone
    BY <1>5 DEF Take
  <2>4. \A kind \in {"outer", "core"}, r \in Queries : <<kind, r>> # Idle
    BY TaskShape
  <2>5. \A r \in Queries : <<"core", r>> # Head(queue) \/ OnThread(<<"core", r>>)'
    BY <1>5, TakePlaces, <2>4
  <2> QED BY <1>5, TakePlaces, <2>1, <2>2, <2>3, <2>4, <2>5
<1>6. ASSUME NEW w \in Workers, NEW q \in Queries, SendQuery(w, q)
     PROVE  PlaceInv'
  BY <1>6 DEF SendQuery, InQueue, OnThread
<1>7. ASSUME NEW w \in Workers, NEW q \in Queries, SubmitCore(w, q)
     PROVE  PlaceInv'
  <2>1. \A t : InQueue(t) => InQueue(t)'
    <3>1. <<"core", q>> \in Tasks
      BY TaskShape
    <3>2. queue' = Append(queue, <<"core", q>>) \/ queue' = queue
      BY <1>7 DEF SubmitCore
    <3> QED BY <3>1, <3>2, QueuedStays
  <2>2. \A r \in Queries : OnThread(<<"core", r>>) => OnThread(<<"core", r>>)'
    BY <1>7 DEF SubmitCore, Free, OnThread
  <2>3. \A r \in Queries \ {q} : OnThread(<<"outer", r>>) => OnThread(<<"outer", r>>)'
    BY <1>7 DEF SubmitCore, Free, OnThread
  <2>4. CASE op[q] = "rejected" \/ Shutdown
    BY <1>7, <2>1, <2>2, <2>3, <2>4 DEF SubmitCore
  <2>5. CASE op[q] # "rejected" /\ ~Shutdown
    <3>1. InQueue(<<"core", q>>)'
      BY <1>7, <2>5, SubmitPlaces, TaskShape DEF SubmitCore
    <3>2. OnThread(<<"outer", q>>)'
      BY <1>7, <2>5 DEF SubmitCore, OnThread
    <3> QED BY <1>7, <2>1, <2>2, <2>3, <2>5, <3>1, <3>2 DEF SubmitCore
  <2> QED BY <2>4, <2>5
<1>8. ASSUME NEW w \in Workers, NEW q \in Queries, SeesToken(w, q)
     PROVE  PlaceInv'
  BY <1>8 DEF SeesToken, InQueue, OnThread
<1>9. ASSUME NEW w \in Workers, NEW q \in Queries, Collect(w, q)
     PROVE  PlaceInv'
  <2>1. /\ \A r \in Queries : <<"core", r>> # job[w]
        /\ \A r \in Queries \ {q} : <<"outer", r>> # job[w]
    BY <1>9 DEF Collect
  <2>2. \A t : InQueue(t) => InQueue(t)'
    BY <1>9 DEF Collect, InQueue
  <2>3. \A t : OnThread(t) => OnThread(t)' \/ t = job[w]
    BY <1>9, FreePlaces DEF Collect
  <2> QED BY <1>9, <2>1, <2>2, <2>3 DEF Collect
<1>10. ASSUME NEW w \in Workers, NEW q \in Queries, CoreTaskEnds(w, q)
     PROVE  PlaceInv'
  <2>1. /\ \A r \in Queries : <<"outer", r>> # job[w]
        /\ \A r \in Queries \ {q} : <<"core", r>> # job[w]
    BY <1>10 DEF CoreTaskEnds
  <2>2. \A t : InQueue(t) => InQueue(t)'
    BY <1>10 DEF CoreTaskEnds, InQueue
  <2>3. \A t : OnThread(t) => OnThread(t)' \/ t = job[w]
    BY <1>10, FreePlaces DEF CoreTaskEnds
  <2> QED BY <1>10, <2>1, <2>2, <2>3 DEF CoreTaskEnds
<1>11. CASE Close
  BY <1>11 DEF Close, CloseConnection, ResetClient,
     ShutdownPool, ShutdownAtExit, CloseReturns, InQueue, OnThread
<1>12. CASE UNCHANGED vars
  BY <1>12 DEF vars, InQueue, OnThread
<1> QED BY <1>1, <1>2, <1>3, <1>4, <1>5, <1>6, <1>7, <1>8, <1>9, <1>10,
           <1>11, <1>12 DEF Next, Caller, Thread, Outer

(* As long as the queue stays as it is only its queued queries matter.     *)
LEMMA QueueKept ==
  ASSUME TypeOK, QueueInv, UNCHANGED queue,
         \A r \in Queries : phase[r] = "queued" => phase'[r] = "queued"
  PROVE  QueueInv'
<1>1. \A i \in DOMAIN queue : queue[i] \in Tasks
  BY DEF TypeOK
<1>2. \A i \in DOMAIN queue : queue[i][2] \in Queries
  BY <1>1, TaskShape
<1> QED BY <1>2 DEF QueueInv

(* The outer tasks in the queue belong to distinct queued queries.         *)
LEMMA QueueStep == TypeOK /\ QueueInv /\ [Next]_vars => QueueInv'
<1> SUFFICES ASSUME TypeOK /\ QueueInv, [Next]_vars
             PROVE  QueueInv'
  OBVIOUS
<1> USE DEF TypeOK, QueueInv
<1>1. ASSUME NEW q \in Queries, ExecuteQuery(q)
     PROVE  QueueInv'
  BY <1>1 DEF ExecuteQuery
<1>2. ASSUME NEW q \in Queries, SubmitOuter(q)
     PROVE  QueueInv'
  <2>1. CASE Shutdown
    BY <1>2, <2>1, QueueKept DEF SubmitOuter
  <2>2. CASE ~Shutdown
    <3>1. queue \in Seq(Tasks) /\ queue' = Append(queue, <<"outer", q>>)
      BY <1>2, <2>2 DEF SubmitOuter
    <3>2. /\ DOMAIN queue' = DOMAIN queue \cup {Len(queue) + 1}
          /\ queue'[Len(queue) + 1] = <<"outer", q>>
          /\ \A i \in DOMAIN queue : queue'[i] = queue[i]
      BY <3>1, TaskShape
    <3>3. \A i \in DOMAIN queue : queue[i] # <<"outer", q>>
      BY <1>2, TaskShape DEF SubmitOuter
    <3>4. phase'[q] = "queued" /\ \A r \in Queries \ {q} : phase'[r] = phase[r]
      BY <1>2, <2>2 DEF SubmitOuter
    <3>5. \A i \in DOMAIN queue : queue[i] \in Tasks /\ queue[i][2] \in Queries
      BY <3>1, TaskShape
    <3>6. ASSUME NEW i \in DOMAIN queue', queue'[i][1] = "outer"
          PROVE  phase'[queue'[i][2]] = "queued"
      BY <3>2, <3>4, <3>5, <3>6, TaskShape
    <3>7. ASSUME NEW i \in DOMAIN queue', queue'[i][1] = "outer",
                 NEW j \in DOMAIN queue', queue'[j] = queue'[i]
          PROVE  i = j
      BY <3>2, <3>3, <3>7
    <3> QED BY <3>6, <3>7
  <2> QED BY <2>1, <2>2
<1>3. ASSUME NEW q \in Queries, CancelToken(q)
     PROVE  QueueInv'
  BY <1>3 DEF CancelToken
<1>4. ASSUME NEW q \in Queries, Answer(q)
     PROVE  QueueInv'
  BY <1>4 DEF Answer
<1>5. ASSUME NEW w \in Workers, Take(w)
     PROVE  QueueInv'
  <2>1. /\ queue \in Seq(Tasks) /\ queue # <<>> /\ queue' = Tail(queue)
        /\ \A i \in DOMAIN queue : queue[i] \in Tasks /\ queue[i][2] \in Queries
                                     /\ queue[i] = <<queue[i][1], queue[i][2]>>
    BY <1>5, TaskShape DEF Take
  <2>2. /\ 1 \in DOMAIN queue /\ Head(queue) = queue[1]
        /\ \A i \in DOMAIN queue' : i \in Nat \ {0} /\ i + 1 \in DOMAIN queue
                                      /\ queue'[i] = queue[i + 1]
    BY <2>1, TailElements
  <2>3. \A r \in Queries : phase'[r] # phase[r] => Head(queue) = <<"outer", r>>
    BY <1>5, <2>1, <2>2 DEF Take
  <2>4. ASSUME NEW i \in DOMAIN queue', queue'[i][1] = "outer"
        PROVE  phase'[queue'[i][2]] = "queued"
    <3>1. /\ i + 1 \in DOMAIN queue /\ i + 1 # 1
          /\ queue[i + 1] = <<"outer", queue[i + 1][2]>>
          /\ queue[i + 1][2] \in Queries /\ phase[queue[i + 1][2]] = "queued"
      BY <2>1, <2>2, <2>4
    <3>2. queue[i + 1] # queue[1]
      BY <2>2, <3>1
    <3>3. phase'[queue[i + 1][2]] = phase[queue[i + 1][2]]
      BY <2>2, <2>3, <3>1, <3>2
    <3> QED BY <2>2, <3>1, <3>3
  <2>5. ASSUME NEW i \in DOMAIN queue', queue'[i][1] = "outer",
               NEW j \in DOMAIN queue', queue'[j] = queue'[i]
        PROVE  i = j
    BY <2>2, <2>5
  <2> QED BY <2>4, <2>5
<1>6. ASSUME NEW w \in Workers, NEW q \in Queries, SendQuery(w, q)
     PROVE  QueueInv'
  BY <1>6 DEF SendQuery
<1>7. ASSUME NEW w \in Workers, NEW q \in Queries, SubmitCore(w, q)
     PROVE  QueueInv'
  <2>1. CASE op[q] = "rejected" \/ Shutdown
    BY <1>7, <2>1, QueueKept DEF SubmitCore
  <2>2. CASE op[q] # "rejected" /\ ~Shutdown
    <3>1. queue \in Seq(Tasks) /\ queue' = Append(queue, <<"core", q>>)
      BY <1>7, <2>2 DEF SubmitCore
    <3>2. /\ DOMAIN queue' = DOMAIN queue \cup {Len(queue) + 1}
          /\ queue'[Len(queue) + 1] = <<"core", q>>
          /\ \A i \in DOMAIN queue : queue'[i] = queue[i]
      BY <3>1, TaskShape
    <3>3. \A r \in Queries : phase[r] = "queued" => phase'[r] = "queued"
      BY <1>7, <2>2 DEF SubmitCore
    <3>4. \A i \in DOMAIN queue : queue[i] \in Tasks /\ queue[i][2] \in Queries
      BY <3>1, TaskShape
    <3> QED BY <3>2, <3>3, <3>4
  <2> QED BY <2>1, <2>2
<1>8. ASSUME NEW w \in Workers, NEW q \in Queries, SeesToken(w, q)
     PROVE  QueueInv'
  BY <1>8 DEF SeesToken
<1>9. ASSUME NEW w \in Workers, NEW q \in Queries, Collect(w, q)
     PROVE  QueueInv'
  BY <1>9, QueueKept DEF Collect, Waits
<1>10. ASSUME NEW w \in Workers, NEW q \in Queries, CoreTaskEnds(w, q)
     PROVE  QueueInv'
  BY <1>10 DEF CoreTaskEnds
<1>11. CASE Close
  BY <1>11 DEF Close, CloseConnection, ResetClient,
     ShutdownPool, ShutdownAtExit, CloseReturns
<1>12. CASE UNCHANGED vars
  BY <1>12 DEF vars
<1> QED BY <1>1, <1>2, <1>3, <1>4, <1>5, <1>6, <1>7, <1>8, <1>9, <1>10,
           <1>11, <1>12 DEF Next, Caller, Thread, Outer

(* A query that was not sent has no core task.                             *)
LEMMA UnsentStep == TypeOK /\ QueueInv /\ UnsentInv /\ [Next]_vars => UnsentInv'
<1> SUFFICES ASSUME TypeOK /\ QueueInv /\ UnsentInv, [Next]_vars
             PROVE  UnsentInv'
  OBVIOUS
<1> USE DEF TypeOK, UnsentInv, Unsent
<1>1. ASSUME NEW q \in Queries, ExecuteQuery(q)
     PROVE  UnsentInv'
  BY <1>1 DEF ExecuteQuery, InQueue, OnThread
<1>2. ASSUME NEW q \in Queries, SubmitOuter(q)
     PROVE  UnsentInv'
  <2>1. \A r \in Queries : InQueue(<<"core", r>>)' => InQueue(<<"core", r>>)
    <3>1. CASE Shutdown
      BY <1>2, <3>1 DEF SubmitOuter, InQueue
    <3>2. CASE ~Shutdown
      BY <1>2, <3>2, SubmitPlaces, TaskShape DEF SubmitOuter
    <3> QED BY <3>1, <3>2
  <2>2. \A r \in Queries : OnThread(<<"core", r>>)' => OnThread(<<"core", r>>)
    BY <1>2 DEF SubmitOuter, OnThread
  <2> QED BY <1>2, <2>1, <2>2 DEF SubmitOuter
<1>3. ASSUME NEW q \in Queries, CancelToken(q)
     PROVE  UnsentInv'
  BY <1>3 DEF CancelToken, InQueue, OnThread
<1>4. ASSUME NEW q \in Queries, Answer(q)
     PROVE  UnsentInv'
  BY <1>4 DEF Answer, InQueue, OnThread
<1>5. ASSUME NEW w \in Workers, Take(w)
     PROVE  UnsentInv'
  <2>1. \A r \in Queries : InQueue(<<"core", r>>)' => InQueue(<<"core", r>>)
    BY <1>5, TakePlaces
  <2>2. \A r \in Queries : OnThread(<<"core", r>>)'
          => OnThread(<<"core", r>>) \/ InQueue(<<"core", r>>)
    BY <1>5, TakePlaces, TaskShape
  <2>3. \A r \in Queries : phase'[r] # phase[r] => Head(queue) = <<"outer", r>>
    BY <1>5, TakePlaces, TaskShape DEF Take
  <2>4. \A r \in Queries : Head(queue) = <<"outer", r>> => InQueue(<<"outer", r>>)
    BY <1>5, TakePlaces
  <2>5. \A r \in Queries : phase'[r] \in Unsent => phase[r] \in Unsent
    BY <1>5, <2>3, <2>4, TaskShape DEF Take, QueueInv, InQueue
  <2> QED BY <1>5, <2>1, <2>2, <2>5 DEF Take
<1>6. ASSUME NEW w \in Workers, NEW q \in Queries, SendQuery(w, q)
     PROVE  UnsentInv'
  BY <1>6 DEF SendQuery, InQueue, OnThread
<1>7. ASSUME NEW w \in Workers, NEW q \in Queries, SubmitCore(w, q)
     PROVE  UnsentInv'
  <2>1. \A r \in Queries \ {q} : InQueue(<<"core", r>>)' => InQueue(<<"core", r>>)
    <3>1. CASE op[q] = "rejected" \/ Shutdown
      BY <1>7, <3>1 DEF SubmitCore, InQueue
    <3>2. CASE op[q] # "rejected" /\ ~Shutdown
      BY <1>7, <3>2, SubmitPlaces, TaskShape DEF SubmitCore
    <3> QED BY <3>1, <3>2
  <2>2. \A r \in Queries : OnThread(<<"core", r>>)' => OnThread(<<"core", r>>)
    BY <1>7 DEF SubmitCore, Free, OnThread, Idle
  <2>3. phase'[q] \notin Unsent /\ \A r \in Queries \ {q} : phase'[r] = phase[r]
    BY <1>7 DEF SubmitCore
  <2> QED BY <1>7, <2>1, <2>2, <2>3 DEF SubmitCore
<1>8. ASSUME NEW w \in Workers, NEW q \in Queries, SeesToken(w, q)
     PROVE  UnsentInv'
  BY <1>8 DEF SeesToken, InQueue, OnThread
<1>9. ASSUME NEW w \in Workers, NEW q \in Queries, Collect(w, q)
     PROVE  UnsentInv'
  <2>1. \A r \in Queries : InQueue(<<"core", r>>)' => InQueue(<<"core", r>>)
    BY <1>9 DEF Collect, InQueue
  <2>2. \A r \in Queries : OnThread(<<"core", r>>)' => OnThread(<<"core", r>>)
    BY <1>9, FreePlaces, TaskShape DEF Collect
  <2> QED BY <1>9, <2>1, <2>2 DEF Collect
<1>10. ASSUME NEW w \in Workers, NEW q \in Queries, CoreTaskEnds(w, q)
     PROVE  UnsentInv'
  <2>1. \A r \in Queries : InQueue(<<"core", r>>)' => InQueue(<<"core", r>>)
    BY <1>10 DEF CoreTaskEnds, InQueue
  <2>2. \A r \in Queries : OnThread(<<"core", r>>)' => OnThread(<<"core", r>>)
    BY <1>10, FreePlaces, TaskShape DEF CoreTaskEnds
  <2>3. OnThread(<<"core", q>>)
    BY <1>10 DEF CoreTaskEnds, OnThread
  <2>4. UNCHANGED phase /\ \A r \in Queries \ {q} : coreDone'[r] = coreDone[r]
    BY <1>10 DEF CoreTaskEnds
  <2> QED BY <2>1, <2>2, <2>3, <2>4
<1>11. CASE Close
  BY <1>11 DEF Close, CloseConnection, ResetClient,
     ShutdownPool, ShutdownAtExit, CloseReturns, InQueue, OnThread
<1>12. CASE UNCHANGED vars
  BY <1>12 DEF vars, InQueue, OnThread
<1> QED BY <1>1, <1>2, <1>3, <1>4, <1>5, <1>6, <1>7, <1>8, <1>9, <1>10,
           <1>11, <1>12 DEF Next, Caller, Thread, Outer

(* The thread of an outer task is the only one that runs it.               *)
LEMMA HoldStep == TypeOK /\ QueueInv /\ HoldInv /\ [Next]_vars => HoldInv'
<1> SUFFICES ASSUME TypeOK /\ QueueInv /\ HoldInv, [Next]_vars
             PROVE  HoldInv'
  OBVIOUS
<1> USE DEF TypeOK, HoldInv, Running, Waits
<1>1. ASSUME NEW q \in Queries, ExecuteQuery(q)
     PROVE  HoldInv'
  BY <1>1 DEF ExecuteQuery
<1>2. ASSUME NEW q \in Queries, SubmitOuter(q)
     PROVE  HoldInv'
  BY <1>2 DEF SubmitOuter
<1>3. ASSUME NEW q \in Queries, CancelToken(q)
     PROVE  HoldInv'
  BY <1>3 DEF CancelToken
<1>4. ASSUME NEW q \in Queries, Answer(q)
     PROVE  HoldInv'
  BY <1>4 DEF Answer
<1>5. ASSUME NEW w \in Workers, Take(w)
     PROVE  HoldInv'
  <2>1. /\ job'[w] = Head(queue) /\ \A v \in Workers \ {w} : job'[v] = job[v]
        /\ \A r \in Queries : phase'[r] # phase[r] => phase'[r] = "taken"
        /\ \A r \in Queries : Head(queue) = <<"outer", r>> => phase'[r] = "taken"
    BY <1>5, TakePlaces, TaskShape DEF Take
  <2>2. \A r \in Queries : Head(queue) = <<"outer", r>> => phase[r] = "queued"
    BY <1>5, TakePlaces, TaskShape DEF QueueInv, InQueue
  <2>3. \A r \in Queries, v \in Workers :
          Head(queue) = <<"outer", r>> => job[v] # <<"outer", r>>
    BY <2>2
  <2> QED BY <2>1, <2>3
<1>6. ASSUME NEW w \in Workers, NEW q \in Queries, SendQuery(w, q)
     PROVE  HoldInv'
  BY <1>6 DEF SendQuery
<1>7. ASSUME NEW w \in Workers, NEW q \in Queries, SubmitCore(w, q)
     PROVE  HoldInv'
  <2>1. CASE op[q] = "rejected" \/ Shutdown
    <3>1. /\ job'[w] = Idle /\ \A v \in Workers \ {w} : job'[v] = job[v]
      BY <1>7, <2>1 DEF SubmitCore, Free
    <3>2. \A v \in Workers \ {w} : job[v] # <<"outer", q>>
      BY <1>7 DEF SubmitCore
    <3>3. \A r \in Queries \ {q} : phase'[r] = phase[r]
      BY <1>7, <2>1 DEF SubmitCore
    <3>4. \A r \in Queries : <<"outer", r>> # Idle
      BY TaskShape
    <3>5. ASSUME NEW v \in Workers, NEW r \in Queries, job'[v] = <<"outer", r>>
          PROVE  /\ phase'[r] \in Running
                 /\ \A u \in Workers : job'[u] = job'[v] => u = v
      <4>1. v # w /\ job[v] = <<"outer", r>> /\ r # q
        BY <3>1, <3>2, <3>3, <3>4, <3>5
      <4>2. phase'[r] \in Running
        BY <3>1, <3>2, <3>3, <3>4, <4>1
      <4>3. \A u \in Workers : job'[u] = job'[v] => job[u] = job[v]
        BY <3>1, <3>2, <3>3, <3>4, <4>1, <3>5
      <4> QED BY <4>1, <4>2, <4>3
    <3> QED BY <3>5
  <2>2. CASE op[q] # "rejected" /\ ~Shutdown
    <3>1. UNCHANGED job /\ \A r \in Queries : phase[r] \in Running => phase'[r] \in Running
      BY <1>7, <2>2 DEF SubmitCore
    <3> QED BY <3>1
  <2> QED BY <2>1, <2>2
<1>8. ASSUME NEW w \in Workers, NEW q \in Queries, SeesToken(w, q)
     PROVE  HoldInv'
  BY <1>8 DEF SeesToken
<1>9. ASSUME NEW w \in Workers, NEW q \in Queries, Collect(w, q)
     PROVE  HoldInv'
  <2>1. /\ job'[w] = Idle /\ \A v \in Workers \ {w} : job'[v] = job[v]
    BY <1>9 DEF Collect, Free
  <2>2. \A v \in Workers \ {w} : job[v] # <<"outer", q>>
    BY <1>9 DEF Collect
  <2>3. \A r \in Queries \ {q} : phase'[r] = phase[r]
    BY <1>9 DEF Collect
  <2>4. \A r \in Queries : <<"outer", r>> # Idle
    BY TaskShape
  <2>5. ASSUME NEW v \in Workers, NEW r \in Queries, job'[v] = <<"outer", r>>
        PROVE  /\ phase'[r] \in Running
               /\ \A u \in Workers : job'[u] = job'[v] => u = v
    <3>1. v # w /\ job[v] = <<"outer", r>> /\ r # q
      BY <2>1, <2>2, <2>3, <2>4, <2>5
    <3>2. phase'[r] \in Running
      BY <2>1, <2>2, <2>3, <2>4, <3>1
    <3>3. \A u \in Workers : job'[u] = job'[v] => job[u] = job[v]
      BY <2>1, <2>2, <2>3, <2>4, <3>1, <2>5
    <3> QED BY <3>1, <3>2, <3>3
  <2> QED BY <2>5
<1>10. ASSUME NEW w \in Workers, NEW q \in Queries, CoreTaskEnds(w, q)
     PROVE  HoldInv'
  <2>1. /\ job'[w] = Idle /\ \A v \in Workers \ {w} : job'[v] = job[v]
        /\ UNCHANGED phase
    BY <1>10 DEF CoreTaskEnds, Free
  <2>2. \A r \in Queries : <<"outer", r>> # Idle
    BY TaskShape
  <2> QED BY <2>1, <2>2
<1>11. CASE Close
  BY <1>11 DEF Close, CloseConnection, ResetClient,
     ShutdownPool, ShutdownAtExit, CloseReturns
<1>12. CASE UNCHANGED vars
  BY <1>12 DEF vars
<1> QED BY <1>1, <1>2, <1>3, <1>4, <1>5, <1>6, <1>7, <1>8, <1>9, <1>10,
           <1>11, <1>12 DEF Next, Caller, Thread, Outer

(* A core task ends with an answer, and a Future resolves behind it.       *)
LEMMA AnswerStep == IInv /\ [Next]_vars => (AnswerInv /\ NoOrphanWhileOpen)'
<1> SUFFICES ASSUME IInv, [Next]_vars
             PROVE  (AnswerInv /\ NoOrphanWhileOpen)'
  OBVIOUS
<1> USE DEF IInv, TypeOK, AnswerInv, NoOrphanWhileOpen, Resolved, Shutdown,
            Running, Waits
<1>1. ASSUME NEW q \in Queries, ExecuteQuery(q)
     PROVE  (AnswerInv /\ NoOrphanWhileOpen)'
  BY <1>1 DEF ExecuteQuery
<1>2. ASSUME NEW q \in Queries, SubmitOuter(q)
     PROVE  (AnswerInv /\ NoOrphanWhileOpen)'
  BY <1>2 DEF SubmitOuter
<1>3. ASSUME NEW q \in Queries, CancelToken(q)
     PROVE  (AnswerInv /\ NoOrphanWhileOpen)'
  BY <1>3 DEF CancelToken
<1>4. ASSUME NEW q \in Queries, Answer(q)
     PROVE  (AnswerInv /\ NoOrphanWhileOpen)'
  BY <1>4 DEF Answer
<1>5. ASSUME NEW w \in Workers, Take(w)
     PROVE  (AnswerInv /\ NoOrphanWhileOpen)'
  <2>1. \A r \in Queries : phase'[r] # phase[r] => phase'[r] = "taken"
    BY <1>5, TakePlaces, TaskShape DEF Take
  <2> QED BY <1>5, <2>1 DEF Take
<1>6. ASSUME NEW w \in Workers, NEW q \in Queries, SendQuery(w, q)
     PROVE  (AnswerInv /\ NoOrphanWhileOpen)'
  <2>1. ~coreDone[q] /\ phase'[q] = "sending"
    BY <1>6 DEF SendQuery, UnsentInv, Unsent
  <2> QED BY <1>6, <2>1 DEF SendQuery
<1>7. ASSUME NEW w \in Workers, NEW q \in Queries, SubmitCore(w, q)
     PROVE  (AnswerInv /\ NoOrphanWhileOpen)'
  BY <1>7 DEF SubmitCore
<1>8. ASSUME NEW w \in Workers, NEW q \in Queries, SeesToken(w, q)
     PROVE  (AnswerInv /\ NoOrphanWhileOpen)'
  BY <1>8 DEF SeesToken
<1>9. ASSUME NEW w \in Workers, NEW q \in Queries, Collect(w, q)
     PROVE  (AnswerInv /\ NoOrphanWhileOpen)'
  BY <1>9 DEF Collect
<1>10. ASSUME NEW w \in Workers, NEW q \in Queries, CoreTaskEnds(w, q)
     PROVE  (AnswerInv /\ NoOrphanWhileOpen)'
  BY <1>10 DEF CoreTaskEnds
<1>11. CASE Close
  BY <1>11 DEF Close, CloseConnection, ResetClient,
     ShutdownPool, ShutdownAtExit, CloseReturns
<1>12. CASE UNCHANGED vars
  BY <1>12 DEF vars
<1> QED BY <1>1, <1>2, <1>3, <1>4, <1>5, <1>6, <1>7, <1>8, <1>9, <1>10,
           <1>11, <1>12 DEF Next, Caller, Thread, Outer

(* When close() has returned the pool is at rest.                          *)
LEMMA ClosedStep == TypeOK /\ ClosedInv /\ [Next]_vars => ClosedInv'
<1> SUFFICES ASSUME TypeOK /\ ClosedInv, [Next]_vars
             PROVE  ClosedInv'
  OBVIOUS
<1> USE DEF TypeOK, ClosedInv, Joined
<1>1. ASSUME NEW q \in Queries, ExecuteQuery(q)
     PROVE  ClosedInv'
  BY <1>1 DEF ExecuteQuery
<1>2. ASSUME NEW q \in Queries, SubmitOuter(q)
     PROVE  ClosedInv'
  BY <1>2 DEF SubmitOuter, Shutdown
<1>3. ASSUME NEW q \in Queries, CancelToken(q)
     PROVE  ClosedInv'
  BY <1>3 DEF CancelToken
<1>4. ASSUME NEW q \in Queries, Answer(q)
     PROVE  ClosedInv'
  BY <1>4 DEF Answer
<1>5. ASSUME NEW w \in Workers, Take(w)
     PROVE  ClosedInv'
  BY <1>5 DEF Take
<1>6. ASSUME NEW w \in Workers, NEW q \in Queries, SendQuery(w, q)
     PROVE  ClosedInv'
  BY <1>6 DEF SendQuery
<1>7. ASSUME NEW w \in Workers, NEW q \in Queries, SubmitCore(w, q)
     PROVE  ClosedInv'
  <2>1. job[w] # Idle
    BY <1>7, TaskShape DEF SubmitCore
  <2> QED BY <1>7, <2>1 DEF SubmitCore
<1>8. ASSUME NEW w \in Workers, NEW q \in Queries, SeesToken(w, q)
     PROVE  ClosedInv'
  BY <1>8 DEF SeesToken
<1>9. ASSUME NEW w \in Workers, NEW q \in Queries, Collect(w, q)
     PROVE  ClosedInv'
  <2>1. job[w] # Idle
    BY <1>9, TaskShape DEF Collect
  <2> QED BY <1>9, <2>1 DEF Collect
<1>10. ASSUME NEW w \in Workers, NEW q \in Queries, CoreTaskEnds(w, q)
     PROVE  ClosedInv'
  <2>1. job[w] # Idle
    BY <1>10, TaskShape DEF CoreTaskEnds
  <2> QED BY <1>10, <2>1 DEF CoreTaskEnds
<1>11. CASE Close
  BY <1>11 DEF Close, CloseConnection, ResetClient,
     ShutdownPool, ShutdownAtExit, CloseReturns
<1>12. CASE UNCHANGED vars
  BY <1>12 DEF vars
<1> QED BY <1>1, <1>2, <1>3, <1>4, <1>5, <1>6, <1>7, <1>8, <1>9, <1>10,
           <1>11, <1>12 DEF Next, Caller, Thread, Outer

(* The invariant holds initially.                                          *)
LEMMA InitInv == Init => IInv
<1> SUFFICES ASSUME Init
             PROVE  IInv
  OBVIOUS
<1>1. TypeOK
  BY DEF Init, TypeOK
<1>2. PlaceInv /\ QueueInv /\ AnswerInv /\ ClosedInv /\ NoOrphanWhileOpen
  BY DEF Init, PlaceInv, QueueInv, AnswerInv, ClosedInv, NoOrphanWhileOpen,
     Running, Waits, Resolved
<1>3. \A kind \in {"outer", "core"}, q \in Queries : ~OnThread(<<kind, q>>)
  BY TaskShape DEF Init, OnThread
<1>4. HoldInv
  BY <1>3 DEF HoldInv, OnThread
<1>5. UnsentInv
  BY <1>3 DEF Init, UnsentInv, InQueue
<1> QED BY <1>1, <1>2, <1>4, <1>5 DEF IInv

(* The inductive invariant holds in every reachable state.                 *)
THEOREM Invariance == Spec => []IInv
<1>1. IInv /\ [Next]_vars => IInv'
  BY TypeStep, PlaceStep, QueueStep, HoldStep, UnsentStep, AnswerStep,
     ClosedStep DEF IInv
<1> QED BY InitInv, <1>1, PTL DEF Spec

(* Types.                                                                  *)
THEOREM TypeCorrect == Spec => []TypeOK
<1>1. IInv => TypeOK
  BY DEF IInv
<1> QED BY <1>1, Invariance, PTL

(* A query that is left and nothing to wait for in the core: then either   *)
(* some thread moves, or every thread holds a query whose core task is     *)
(* still queued.                                                           *)
LEMMA HangShape == IInv => OnlyNestingBlocks
<1> SUFFICES ASSUME IInv, Outstanding # {},
                    \A q \in Queries : op[q] # "pending",
                    \A w \in Workers : Blocked(w)
             PROVE  \A w \in Workers : \E q \in Queries :
                      job[w] = <<"outer", q>> /\ InQueue(<<"core", q>>)
  BY DEF OnlyNestingBlocks, Exhausted
<1>1. \A w \in Workers, q \in Queries : job[w] # <<"core", q>>
  <2> SUFFICES ASSUME NEW w \in Workers, NEW q \in Queries,
                      job[w] = <<"core", q>>
               PROVE  FALSE
    OBVIOUS
  <2>1. job[w] # Idle /\ \A r \in Queries : job[w] # <<"outer", r>>
    BY TaskShape
  <2> QED BY <2>1 DEF Blocked
<1>2. ASSUME NEW w \in Workers, NEW q \in Queries, job[w] = <<"outer", q>>
      PROVE  InQueue(<<"core", q>>)
  <2>1. job[w] # Idle
    BY <1>2, TaskShape
  <2>2. phase[q] \in Waits /\ ~coreDone[q]
    <3>1. PICK r \in Queries : job[w] = <<"outer", r>>
                                /\ phase[r] \in Waits /\ ~coreDone[r]
      BY <2>1, <1>1 DEF Blocked
    <3>2. r = q
      BY <1>2, <3>1
    <3> QED BY <3>1, <3>2
  <2> QED BY <2>2, <1>1 DEF IInv, PlaceInv, OnThread
<1>3. ASSUME NEW w \in Workers, job[w] = Idle
      PROVE  FALSE
  <2>1. queue = <<>>
    <3>1. \A q \in Queries : job[w] # <<"outer", q>> /\ job[w] # <<"core", q>>
      BY <1>3, TaskShape
    <3> QED BY <3>1 DEF Blocked
  <2>2. \A t : ~InQueue(t)
    BY <2>1 DEF InQueue
  <2>3. PICK q \in Queries : phase[q] \in Running \cup {"queued"}
    BY DEF Outstanding
  <2>4. OnThread(<<"outer", q>>)
    BY <2>2, <2>3 DEF IInv, PlaceInv
  <2> QED BY <1>2, <2>2, <2>4 DEF OnThread
<1>4. \A w \in Workers : job[w] = Idle \/ job[w] \in Tasks
  BY DEF IInv, TypeOK
<1> QED BY <1>1, <1>2, <1>3, <1>4, TaskShape

(* So it is in every state of a pool, however many threads and queries.    *)
THEOREM HangsOnNestingOnly == Spec => []OnlyNestingBlocks
BY HangShape, Invariance, PTL

(* With more threads than outstanding queries that shape is impossible:    *)
(* two of the threads would hold the same query.                           *)
THEOREM FewQueriesDoNotHang == Spec => []FewQueriesMoveOn
<1>1. IInv => FewQueriesMoveOn
  <2> SUFFICES ASSUME IInv, Outstanding # {},
                      Cardinality(Outstanding) < Cardinality(Workers),
                      \A q \in Queries : op[q] # "pending",
                      \A w \in Workers : Blocked(w)
               PROVE  FALSE
    BY DEF FewQueriesMoveOn
  <2> DEFINE held == [w \in Workers |-> job[w][2]]
  <2>1. \A w \in Workers : \E q \in Queries : job[w] = <<"outer", q>>
    BY HangShape DEF OnlyNestingBlocks, Exhausted
  <2>2. \A w \in Workers : job[w] = <<"outer", job[w][2]>> /\ job[w][2] \in Queries
    BY <2>1, TaskShape
  <2>3. \A w \in Workers : job[w][2] \in Outstanding
    BY <2>2 DEF IInv, HoldInv, Outstanding
  <2>4. held \in [Workers -> Outstanding]
    BY <2>3
  <2>5. IsFiniteSet(Workers) /\ IsFiniteSet(Outstanding)
    BY BackgroundPoolAssumption, FS_Subset DEF Outstanding
  <2>6. PICK v \in Workers, w \in Workers : v # w /\ held[v] = held[w]
    <3> HIDE DEF held
    <3> QED BY <2>4, <2>5, FS_PigeonHole
  <2>7. job[v] = job[w]
    BY <2>2, <2>6
  <2> QED BY <2>2, <2>6, <2>7 DEF IInv, HoldInv
<1> QED BY <1>1, Invariance, PTL

(* A Future of an open pool resolves behind the core's answer.             *)
THEOREM FuturesFollowAnswers == Spec => []NoOrphanWhileOpen
<1>1. IInv => NoOrphanWhileOpen
  BY DEF IInv
<1> QED BY <1>1, Invariance, PTL

(* close() leaves no Future of the pool unresolved.                        *)
THEOREM CloseIsComplete == Spec => []CloseLeavesNothing
<1>1. IInv => CloseLeavesNothing
  <2> SUFFICES ASSUME IInv, closer = "closed", NEW q \in Outstanding
               PROVE  FALSE
    BY DEF CloseLeavesNothing
  <2>1. \A t : ~InQueue(t)
    BY DEF IInv, ClosedInv, Joined, InQueue
  <2>2. \A w \in Workers : job[w] = Idle
    BY DEF IInv, ClosedInv, Joined
  <2>3. q \in Queries /\ phase[q] \in Running \cup {"queued"}
    BY DEF Outstanding
  <2>4. OnThread(<<"outer", q>>)
    BY <2>1, <2>3 DEF IInv, PlaceInv
  <2>5. <<"outer", q>> # Idle
    BY <2>3, TaskShape
  <2> QED BY <2>2, <2>4, <2>5 DEF OnThread
<1> QED BY <1>1, Invariance, PTL
=============================================================================
