-------------------------- MODULE ConnectionProofs --------------------------
(***************************************************************************)
(* The safety properties of Connection for any finite set of callers, by   *)
(* the inductive invariant IInv.  The reference count is handled caller by *)
(* caller: each step changes what one of them owns, and nobody else's.     *)
(***************************************************************************)
EXTENDS Connection, FiniteSetTheorems, TLAPS

(* Two finite sets that differ in one element at most.                     *)
LEMMA CountDiffers ==
  ASSUME NEW S, NEW T, IsFiniteSet(S), IsFiniteSet(T), NEW c, S \ {c} = T \ {c}
  PROVE  /\ Cardinality(S) \in Nat /\ Cardinality(T) \in Nat
         /\ Cardinality(T) = Cardinality(S) + (IF c \in T THEN 1 ELSE 0)
                                            - (IF c \in S THEN 1 ELSE 0)
<1>1. Cardinality(S) \in Nat /\ Cardinality(T) \in Nat
  BY FS_CardinalityType
<1>2. Cardinality(S \ {c}) = IF c \in S THEN Cardinality(S) - 1 ELSE Cardinality(S)
  BY FS_RemoveElement
<1>3. Cardinality(T \ {c}) = IF c \in T THEN Cardinality(T) - 1 ELSE Cardinality(T)
  BY FS_RemoveElement
<1> QED BY <1>1, <1>2, <1>3

(* What caller c and the cluster itself own of the reference count.        *)
Share(c) ==
  (IF client = "connected" THEN 1 ELSE 0)
    + (IF IsClosing(c) THEN 1 ELSE 0) + (IF OwnsCallbackRef(c) THEN 1 ELSE 0)
    + (IF phase \in {"opening", "failed"} THEN 1 ELSE 0)

(* A step that changes caller c's share only, and the count accordingly.   *)
ShareOnly(c) ==
  /\ \A d \in Callers \ {c} : /\ IsClosing(d)' <=> IsClosing(d)
                              /\ OwnsCallbackRef(d)' <=> OwnsCallbackRef(d)
  /\ ref' = ref + Share(c)' - Share(c)

(* There are as many owners as callers, at most.                           *)
LEMMA OwnersFinite ==
  /\ IsFiniteSet(Closing) /\ IsFiniteSet(HasCallbackRef)
  /\ IsFiniteSet(Closing') /\ IsFiniteSet(HasCallbackRef')
BY ConnectionAssumption, FS_Subset DEF Closing, HasCallbackRef

(* Such a step keeps the reference count right.                            *)
LEMMA RefsStep ==
  ASSUME TypeOK, RefsAccounted, NEW c \in Callers, ShareOnly(c)
  PROVE  RefsAccounted'
<1>1. Closing \ {c} = Closing' \ {c} /\ HasCallbackRef \ {c} = HasCallbackRef' \ {c}
  BY DEF Closing, HasCallbackRef, ShareOnly
<1>2. /\ c \in Closing <=> IsClosing(c)
      /\ c \in Closing' <=> IsClosing(c)'
      /\ c \in HasCallbackRef <=> OwnsCallbackRef(c)
      /\ c \in HasCallbackRef' <=> OwnsCallbackRef(c)'
  BY DEF Closing, HasCallbackRef
<1>3. /\ Cardinality(Closing) \in Nat /\ Cardinality(Closing') \in Nat
      /\ Cardinality(Closing') = Cardinality(Closing)
           + (IF IsClosing(c)' THEN 1 ELSE 0) - (IF IsClosing(c) THEN 1 ELSE 0)
  BY <1>1, <1>2, OwnersFinite, CountDiffers, Zenon
<1>4. /\ Cardinality(HasCallbackRef) \in Nat /\ Cardinality(HasCallbackRef') \in Nat
      /\ Cardinality(HasCallbackRef') = Cardinality(HasCallbackRef)
           + (IF OwnsCallbackRef(c)' THEN 1 ELSE 0) - (IF OwnsCallbackRef(c) THEN 1 ELSE 0)
  BY <1>1, <1>2, OwnersFinite, CountDiffers, Zenon
<1> QED BY <1>3, <1>4 DEF RefsAccounted, Share, ShareOnly, TypeOK

(* No share exceeds the count, so at zero nobody owns anything.            *)
LEMMA RefsBound ==
  ASSUME RefsAccounted
  PROVE  ref \in Nat /\ \A c \in Callers : Share(c) <= ref
<1>1. Cardinality(Closing) \in Nat /\ Cardinality(HasCallbackRef) \in Nat
  BY OwnersFinite, FS_CardinalityType
<1>2. \A c \in Callers : /\ IsClosing(c) => Cardinality(Closing) # 0
                         /\ OwnsCallbackRef(c) => Cardinality(HasCallbackRef) # 0
  BY OwnersFinite, FS_EmptySet DEF Closing, HasCallbackRef
<1> QED BY <1>1, <1>2 DEF RefsAccounted, Share

(* The count is a number after a step that keeps it right.                 *)
LEMMA RefsCountPrimed ==
  ASSUME RefsAccounted'
  PROVE  ref' \in Nat
<1>1. Cardinality(Closing') \in Nat /\ Cardinality(HasCallbackRef') \in Nat
  BY OwnersFinite, FS_CardinalityType
<1> QED BY <1>1 DEF RefsAccounted

(* Whoever has the last reference, by the client or a close(), waits for   *)
(* no callback.                                                            *)
LEMMA LastHasNoCallback ==
  ASSUME RefsAccounted, NEW c \in Callers, ref = 1,
         client = "connected" \/ IsClosing(c)
  PROVE  ~OwnsCallbackRef(c)
<1>1. Share(c) <= 1
  BY RefsBound
<1> QED BY <1>1 DEF Share

NoOwnerAtZero ==
  ref = 0 =>
    /\ client # "connected" /\ phase \notin {"opening", "failed"}
    /\ \A c \in Callers : ~IsClosing(c) /\ ~OwnsCallbackRef(c)

(* With a caller there to count for, nobody owns the capsule at zero.      *)
LEMMA ZeroIsFree ==
  ASSUME RefsAccounted
  PROVE  NoOwnerAtZero
<1>1. Cardinality(Closing) \in Nat /\ Cardinality(HasCallbackRef) \in Nat
  BY OwnersFinite, FS_CardinalityType
<1>2. \A c \in Callers : /\ IsClosing(c) => Cardinality(Closing) # 0
                         /\ OwnsCallbackRef(c) => Cardinality(HasCallbackRef) # 0
  BY OwnersFinite, FS_EmptySet DEF Closing, HasCallbackRef
<1> QED BY <1>1, <1>2 DEF RefsAccounted, NoOwnerAtZero

(* The callback that gives its reference up is the last owner only if it   *)
(* has logged before: the caller it has answered has one else.             *)
LEMMA CallbackIsNotLast ==
  ASSUME IInv, NEW c \in Callers, IoDecrefs(c), ref = 1
  PROVE  logger = "sink" /\ stopped /\ ioStopped
<1>1. phase # "opening" /\ ~At(c, "closeWait")
  <2>1. OwnsCallbackRef(c) /\ Share(c) <= 1
    BY RefsBound DEF IInv, IoDecrefs, OwnsCallbackRef
  <2> QED BY <2>1 DEF Share, IsClosing, At
<1>2. ~At(c, "opening")
  BY <1>1 DEF IInv, PhaseInv
<1>3. logger = "sink" /\ stopped
  BY <1>1, <1>2 DEF IoDecrefs, IInv, HandlerInv, At
<1>4. ioStopped
  BY <1>2 DEF IoDecrefs, IInv, StopInv
<1> QED BY <1>3, <1>4
-----------------------------------------------------------------------------
(* The invariant holds initially.                                          *)
LEMMA InitInv == Init => IInv
<1> SUFFICES ASSUME Init
             PROVE  IInv
  OBVIOUS
<1>1. Closing = {} /\ HasCallbackRef = {}
  BY DEF Init, Closing, IsClosing, HasCallbackRef, OwnsCallbackRef, Exited
<1>2. Cardinality(Closing) = 0 /\ Cardinality(HasCallbackRef) = 0
  BY <1>1, FS_EmptySet
<1>3. RefsAccounted
  BY <1>2 DEF Init, RefsAccounted
<1>4. TypeOK /\ OnlyLoggedCloseJoinsItself
  BY DEF Init, TypeOK, OnlyLoggedCloseJoinsItself, SelfJoin, Exited, Places
<1>5. LockInv /\ HandlerInv /\ QueryInv /\ PhaseInv
  BY ConnectionAssumption
     DEF Init, LockInv, HandlerInv, QueryInv, PhaseInv, Pending, At, Exited, ClosePlaces,
         DeallocPlaces, Interrupted, SelfJoin
<1>6. /\ StopInv /\ StoppingInv /\ DrainInv /\ FreedInv /\ LogInv
      /\ OnlyRacedCloseHangs /\ ClosedIsStopped
  BY DEF Init, StopInv, StoppingInv, DrainInv, FreedInv, LogInv, OnlyRacedCloseHangs,
         CloseHang, ClosedIsStopped, Pending, At, Exited, Logs, Interrupted
<1> QED BY <1>3, <1>4, <1>5, <1>6 DEF IInv

(* The reference count stays the number of owners: each step changes the    *)
(* share of one caller, and the count with it.                              *)
LEMMA RefsKept == IInv /\ [Next]_vars => RefsAccounted'
<1> SUFFICES ASSUME IInv, [Next]_vars
             PROVE  RefsAccounted'
  OBVIOUS
<1> USE DEF At, Runs, Goto, Idle, Logs, cluster, core
<1>1. ASSUME NEW c \in Callers, Create(c)
      PROVE  ShareOnly(c)
  <2>1. \A d \in Callers : ~IsClosing(d) /\ ~OwnsCallbackRef(d)
    BY <1>1 DEF Create, IInv, PhaseInv, IsClosing, OwnsCallbackRef, Exited
  <2>2. posted' = {<<"open", c>>} /\ io' = Idle /\ pc' = [pc EXCEPT ![c] = "opening"]
    BY <1>1 DEF Create
  <2>3. pc \in [Callers -> Places]
    BY DEF IInv, TypeOK
  <2>4. \A d \in Callers : ~IsClosing(d)' /\ (OwnsCallbackRef(d)' <=> d = c)
    BY <2>1, <2>2, <2>3 DEF IsClosing, OwnsCallbackRef
  <2>5. Share(c) = 0 /\ Share(c)' = CreatedRefs
    BY <1>1, <2>1, <2>4 DEF Create, Share, CreatedRefs, IInv, PhaseInv
  <2> QED BY <1>1, <2>1, <2>4, <2>5 DEF Create, ShareOnly, CreatedRefs, IInv, PhaseInv
<1>2. ASSUME NEW c \in Callers, Query(c)
      PROVE  ShareOnly(c)
  BY <1>2 DEF Query, Sends, ShareOnly, Share, IsClosing, OwnsCallbackRef, IInv, TypeOK,
     HandlerInv, PhaseInv, LockInv
<1>3. ASSUME NEW c \in Callers, QueryAsyncio(c)
      PROVE  ShareOnly(c)
  BY <1>3 DEF QueryAsyncio, Sends, ShareOnly, Share, IsClosing, OwnsCallbackRef, IInv,
     TypeOK, HandlerInv, PhaseInv, LockInv
<1>4. ASSUME NEW c \in Callers, DropResult(c)
      PROVE  ShareOnly(c)
  BY <1>4 DEF DropResult, Release, ShareOnly, Share, IsClosing, OwnsCallbackRef, IInv,
     TypeOK, HandlerInv, PhaseInv, LockInv
<1>5. ASSUME NEW c \in Callers, LeaveScope(c)
      PROVE  ShareOnly(c)
  BY <1>5 DEF LeaveScope, Release, ShareOnly, Share, IsClosing, OwnsCallbackRef, IInv,
     TypeOK, HandlerInv, PhaseInv, LockInv
<1>6. ASSUME NEW c \in Callers, Exit(c)
      PROVE  ShareOnly(c)
  BY <1>6 DEF Exit, Release, ShareOnly, Share, IsClosing, OwnsCallbackRef, IInv,
     TypeOK, HandlerInv, PhaseInv, LockInv
<1>7. ASSUME NEW c \in Callers, CloseChecks(c)
      PROVE  ShareOnly(c)
  BY <1>7 DEF CloseChecks, ShareOnly, Share, IsClosing, OwnsCallbackRef, IInv, TypeOK,
     HandlerInv, PhaseInv, LockInv
<1>8. ASSUME NEW c \in Callers, ConfigureLogging(c)
      PROVE  ShareOnly(c)
  BY <1>8 DEF ConfigureLogging, ShareOnly, Share, IsClosing, OwnsCallbackRef, IInv,
     TypeOK, HandlerInv, PhaseInv, LockInv
<1>9. ASSUME NEW c \in Callers, Opened(c)
      PROVE  ShareOnly(c)
  BY <1>9 DEF Opened, ShareOnly, Share, IsClosing, OwnsCallbackRef, IInv, TypeOK,
     HandlerInv, PhaseInv, LockInv
<1>10. ASSUME NEW c \in Callers, QueryReturns(c)
       PROVE  ShareOnly(c)
  BY <1>10 DEF QueryReturns, ShareOnly, Share, IsClosing, OwnsCallbackRef, IInv,
     TypeOK, HandlerInv, PhaseInv, LockInv
<1>11. ASSUME NEW c \in Callers, CloseCalls(c)
       PROVE  ShareOnly(c)
  <2>1. ~IsClosing(c) /\ ~OwnsCallbackRef(c)
    BY <1>11 DEF CloseCalls, IInv, HandlerInv, IsClosing, OwnsCallbackRef, Pending
  <2>2. ref' = ref + Share(c)' - Share(c)
    BY <1>11, <2>1 DEF CloseCalls, IInv, TypeOK, IsClosing, OwnsCallbackRef, Share
  <2> QED BY <1>11, <2>2 DEF CloseCalls, ShareOnly, IInv, TypeOK, IsClosing, OwnsCallbackRef
<1>12. ASSUME NEW c \in Callers, CoreCloses(c)
       PROVE  ShareOnly(c)
  <2>1. \A d \in Callers \ {c} : \A h : <<h, d>> \in posted' <=> <<h, d>> \in posted
    BY <1>12 DEF CoreCloses
  <2>2. \A d \in Callers \ {c} : /\ IsClosing(d)' <=> IsClosing(d)
                                 /\ OwnsCallbackRef(d)' <=> OwnsCallbackRef(d)
    BY <1>12, <2>1 DEF CoreCloses, IInv, TypeOK, IsClosing, OwnsCallbackRef
  <2>3. ref' = ref + Share(c)' - Share(c)
    BY <1>12 DEF CoreCloses, IInv, TypeOK, IsClosing, OwnsCallbackRef, Share
  <2> QED BY <2>2, <2>3 DEF ShareOnly
<1>13. ASSUME NEW c \in Callers, CallbackHere(c)
       PROVE  ShareOnly(c)
  <2>1. IsClosing(c) /\ OwnsCallbackRef(c)
    BY <1>13 DEF CallbackHere, IsClosing, OwnsCallbackRef
  <2>2. IsClosing(c)' /\ ~OwnsCallbackRef(c)'
    BY <1>13 DEF CallbackHere, IInv, HandlerInv, TypeOK, IsClosing, OwnsCallbackRef, Pending
  <2>3. ref' = ref + Share(c)' - Share(c)
    BY <1>13, <2>1, <2>2 DEF CallbackHere, IInv, TypeOK, Share
  <2> QED BY <1>13, <2>3 DEF CallbackHere, ShareOnly, IInv, TypeOK, IsClosing, OwnsCallbackRef
<1>14. ASSUME NEW c \in Callers, CloseReturns(c)
       PROVE  ShareOnly(c)
  BY <1>14 DEF CloseReturns, ShareOnly, Share, IsClosing, OwnsCallbackRef, IInv,
     TypeOK, HandlerInv, PhaseInv, LockInv
<1>15. ASSUME NEW c \in Callers, ResetChecks(c)
       PROVE  ShareOnly(c)
  BY <1>15 DEF ResetChecks, ShareOnly, Share, IsClosing, OwnsCallbackRef, IInv, TypeOK,
     HandlerInv, PhaseInv, LockInv
<1>16. ASSUME NEW c \in Callers, Deletes(c)
       PROVE  ShareOnly(c)
  BY <1>16 DEF Deletes, Release, ShareOnly, Share, IsClosing, OwnsCallbackRef, IInv,
     TypeOK, HandlerInv, PhaseInv, LockInv
<1>17. ASSUME NEW c \in Callers, DeallocCloses(c)
       PROVE  ShareOnly(c)
  <2>1. \A d \in Callers : \A h \in {"open", "close"} :
          <<h, d>> \in posted' <=> <<h, d>> \in posted
    BY <1>17 DEF DeallocCloses
  <2>2. \A d \in Callers : /\ IsClosing(d)' <=> IsClosing(d)
                           /\ OwnsCallbackRef(d)' <=> OwnsCallbackRef(d)
    BY <1>17, <2>1 DEF DeallocCloses, IInv, TypeOK, IsClosing, OwnsCallbackRef
  <2> QED BY <1>17, <2>2 DEF DeallocCloses, ShareOnly, Share, IInv, TypeOK
<1>18. ASSUME NEW c \in Callers, DeallocStops(c)
       PROVE  ShareOnly(c)
  BY <1>18 DEF DeallocStops, ShareOnly, Share, IsClosing, OwnsCallbackRef, IInv,
     TypeOK, HandlerInv, PhaseInv, LockInv
<1>19. ASSUME NEW c \in Callers, DeallocJoins(c)
       PROVE  ShareOnly(c)
  BY <1>19 DEF DeallocJoins, ShareOnly, Share, IsClosing, OwnsCallbackRef, IInv,
     TypeOK, HandlerInv, PhaseInv, LockInv
<1>20. ASSUME NEW c \in Callers, IoBegins(c)
       PROVE  ShareOnly(c)
  <2>1. \A d \in Callers \ {c} : \A h : <<h, d>> \in posted' <=> <<h, d>> \in posted
    BY <1>20 DEF IoBegins
  <2>2. \A d \in Callers \ {c} : \A h : <<h, d>> # io /\ <<h, d>> # io'
    BY <1>20, ConnectionAssumption DEF IoBegins, IInv, TypeOK
  <2>3. \A d \in Callers \ {c} : /\ IsClosing(d)' <=> IsClosing(d)
                                 /\ OwnsCallbackRef(d)' <=> OwnsCallbackRef(d)
    BY <1>20, <2>1, <2>2 DEF IoBegins, IsClosing, OwnsCallbackRef
  <2>4. ref' = ref + Share(c)' - Share(c)
    BY <1>20 DEF IoBegins, IInv, TypeOK, IsClosing, OwnsCallbackRef, Share
  <2> QED BY <2>3, <2>4 DEF ShareOnly
<1>21. ASSUME NEW c \in Callers, IoAnswers(c)
       PROVE  ShareOnly(c)
  BY <1>21 DEF IoAnswers, ShareOnly, Share, IsClosing, OwnsCallbackRef, IInv, TypeOK,
     HandlerInv, PhaseInv, LockInv
<1>22. ASSUME NEW c \in Callers, IoOpens(c)
       PROVE  ShareOnly(c)
  BY <1>22 DEF IoOpens, ShareOnly, Share, IsClosing, OwnsCallbackRef, IInv, TypeOK,
     HandlerInv, PhaseInv, LockInv
<1>23. ASSUME NEW c \in Callers, IoCloses(c) \/ IoStops(c)
       PROVE  ShareOnly(c)
  BY <1>23 DEF IoCloses, IoStops, ShareOnly, Share, IsClosing, OwnsCallbackRef, IInv, TypeOK,
     HandlerInv, PhaseInv, LockInv
<1>24. ASSUME NEW c \in Callers, IoDecrefs(c)
       PROVE  ShareOnly(c)
  <2>1. /\ io' = Idle \/ io' = <<"selfjoin", c>>
        /\ UNCHANGED <<pc, posted, cluster>> /\ io = <<"decref", c>>
    BY <1>24 DEF IoDecrefs
  <2>4. pc[c] \notin {"coreClose", "callback"}
    BY <2>1 DEF IInv, HandlerInv
  <2>5. <<"open", c>> \notin posted /\ <<"close", c>> \notin posted
    BY <2>1 DEF IInv, HandlerInv, Pending
  <2>2. ~OwnsCallbackRef(c)' /\ OwnsCallbackRef(c)
    BY <2>1, <2>4, <2>5 DEF OwnsCallbackRef
  <2>3. ref' = ref + Share(c)' - Share(c)
    BY <1>24, <2>1, <2>2 DEF IoDecrefs, IInv, TypeOK, IsClosing, Share
  <2> QED BY <2>1, <2>3 DEF ShareOnly, IsClosing, OwnsCallbackRef
<1>25. ASSUME NEW c \in Callers, IoDeallocs(c)
       PROVE  ShareOnly(c)
  BY <1>25 DEF IoDeallocs, ShareOnly, Share, IsClosing, OwnsCallbackRef, IInv, TypeOK,
     HandlerInv, PhaseInv, LockInv
<1>26. ASSUME IoLogs \/ IoLogged \/ IoExits \/ UNCHANGED vars
       PROVE  RefsAccounted'
  <2>1. UNCHANGED <<pc, posted, phase, client, ref>>
    BY <1>26 DEF IoLogs, IoLogged, IoExits, vars
  <2>2. \A c \in Callers : \A h \in {"open", "close", "closed", "decref"} : io = <<h, c>> <=> io' = <<h, c>>
    BY <1>26 DEF IoLogs, IoLogged, IoExits, vars, Exited
  <2>3. Closing' = Closing /\ HasCallbackRef' = HasCallbackRef
    BY <2>1, <2>2 DEF Closing, HasCallbackRef, IsClosing, OwnsCallbackRef
  <2> QED BY <2>1, <2>3 DEF IInv, RefsAccounted
<1> QED BY <1>1, <1>2, <1>3, <1>4, <1>5, <1>6, <1>7, <1>8, <1>9, <1>10, <1>11, <1>12, <1>13, <1>14,
          <1>15, <1>16, <1>17, <1>18, <1>19, <1>20, <1>21, <1>22, <1>23, <1>24, <1>25, <1>26,
          RefsStep DEF IInv, Next, Application, Continues, Callback

(* Every variable keeps its type.                                           *)
LEMMA TypesKept == IInv /\ [Next]_vars => TypeOK'
<1> SUFFICES ASSUME IInv, [Next]_vars
             PROVE  TypeOK'
  OBVIOUS
<1>0. ref' \in Nat
  BY RefsKept, RefsCountPrimed
<1> USE <1>0 DEF At, Runs, Goto, Idle, Exited, Logs, cluster, core, IInv, TypeOK, Places
<1>1. ASSUME NEW c \in Callers, Create(c)
      PROVE  TypeOK'
  BY <1>1 DEF Create, Handlers
<1>2. ASSUME NEW c \in Callers, Query(c)
      PROVE  TypeOK'
  BY <1>2 DEF Query, Sends, Handlers
<1>3. ASSUME NEW c \in Callers, QueryAsyncio(c)
      PROVE  TypeOK'
  BY <1>3 DEF QueryAsyncio, Sends, Handlers
<1>4. ASSUME NEW c \in Callers, DropResult(c)
      PROVE  TypeOK'
  BY <1>4 DEF DropResult, Release, Handlers
<1>5. ASSUME NEW c \in Callers, LeaveScope(c)
      PROVE  TypeOK'
  BY <1>5 DEF LeaveScope, Release, Handlers
<1>6. ASSUME NEW c \in Callers, Exit(c)
      PROVE  TypeOK'
  <2>1. adapter' \in BOOLEAN /\ registered' \in BOOLEAN
    BY <1>6 DEF Exit, Release
  <2>2. results' \subseteq Callers /\ client' \in {"none", "unconnected", "connected"}
    BY <1>6 DEF Exit, Release
  <2>3. pc' \in [Callers -> Places] /\ gil' \in Callers \cup {"none", "io"}
    BY <1>6 DEF Exit, Release
  <2> QED BY <1>6, <2>1, <2>2, <2>3 DEF Exit
<1>7. ASSUME NEW c \in Callers, CloseChecks(c)
      PROVE  TypeOK'
  BY <1>7 DEF CloseChecks, Handlers
<1>8. ASSUME NEW c \in Callers, ConfigureLogging(c)
      PROVE  TypeOK'
  BY <1>8 DEF ConfigureLogging, Handlers
<1>9. ASSUME NEW c \in Callers, Opened(c)
      PROVE  TypeOK'
  <2>1. adapter' \in BOOLEAN /\ registered' \in BOOLEAN
    BY <1>9 DEF Opened
  <2>2. pc' \in [Callers -> Places]
    BY <1>9 DEF Opened
  <2> QED BY <1>9, <2>1, <2>2 DEF Opened
<1>10. ASSUME NEW c \in Callers, QueryReturns(c)
       PROVE  TypeOK'
  BY <1>10 DEF QueryReturns, Handlers
<1>11. ASSUME NEW c \in Callers, CloseCalls(c)
       PROVE  TypeOK'
  BY <1>11 DEF CloseCalls, Handlers
<1>12. ASSUME NEW c \in Callers, CoreCloses(c)
       PROVE  TypeOK'
  BY <1>12 DEF CoreCloses, Handlers
<1>13. ASSUME NEW c \in Callers, CallbackHere(c)
       PROVE  TypeOK'
  BY <1>13 DEF CallbackHere, Handlers
<1>14. ASSUME NEW c \in Callers, CloseReturns(c)
       PROVE  TypeOK'
  BY <1>14 DEF CloseReturns, Handlers
<1>15. ASSUME NEW c \in Callers, ResetChecks(c)
       PROVE  TypeOK'
  BY <1>15 DEF ResetChecks, Handlers
<1>16. ASSUME NEW c \in Callers, Deletes(c)
       PROVE  TypeOK'
  <2>1. adapter' \in BOOLEAN
    BY <1>16 DEF Deletes, Release
  <2>2. results' \subseteq Callers /\ client' \in {"none", "unconnected", "connected"}
    BY <1>16 DEF Deletes, Release
  <2>3. pc' \in [Callers -> Places] /\ gil' \in Callers \cup {"none", "io"}
    BY <1>16 DEF Deletes, Release
  <2> QED BY <1>16, <2>1, <2>2, <2>3 DEF Deletes
<1>17. ASSUME NEW c \in Callers, DeallocCloses(c)
       PROVE  TypeOK'
  BY <1>17 DEF DeallocCloses, Handlers
<1>18. ASSUME NEW c \in Callers, DeallocStops(c)
       PROVE  TypeOK'
  BY <1>18 DEF DeallocStops, Handlers
<1>19. ASSUME NEW c \in Callers, DeallocJoins(c)
       PROVE  TypeOK'
  BY <1>19 DEF DeallocJoins, Handlers
<1>20. ASSUME NEW c \in Callers, IoBegins(c)
       PROVE  TypeOK'
  BY <1>20 DEF IoBegins, Handlers
<1>21. ASSUME NEW c \in Callers, IoAnswers(c)
       PROVE  TypeOK'
  BY <1>21 DEF IoAnswers, Handlers
<1>22. ASSUME NEW c \in Callers, IoOpens(c)
       PROVE  TypeOK'
  BY <1>22 DEF IoOpens, Handlers
<1>23. ASSUME NEW c \in Callers, IoCloses(c) \/ IoStops(c)
       PROVE  TypeOK'
  <2>1. CASE IoCloses(c)
    BY <2>1 DEF IoCloses, Handlers
  <2>2. CASE IoStops(c)
    BY <2>2 DEF IoStops, Handlers
  <2> QED BY <1>23, <2>1, <2>2
<1>24. ASSUME NEW c \in Callers, IoDecrefs(c)
       PROVE  TypeOK'
  BY <1>24 DEF IoDecrefs, Handlers, LockInv, HandlerInv
<1>25. ASSUME NEW c \in Callers, IoDeallocs(c)
       PROVE  TypeOK'
  BY <1>25 DEF IoDeallocs, Handlers
<1>26. ASSUME IoLogs \/ IoLogged \/ IoExits \/ UNCHANGED vars
       PROVE  TypeOK'
  BY <1>26 DEF IoLogs, IoLogged, IoExits, vars
<1> QED BY <1>1, <1>2, <1>3, <1>4, <1>5, <1>6, <1>7, <1>8, <1>9, <1>10, <1>11, <1>12, <1>13, <1>14,
          <1>15, <1>16, <1>17, <1>18, <1>19, <1>20, <1>21, <1>22, <1>23, <1>24, <1>25, <1>26
       DEF Next, Application, Continues, Callback

Rest ==
  /\ OnlyLoggedCloseJoinsItself /\ LockInv /\ HandlerInv /\ QueryInv /\ PhaseInv /\ StopInv
  /\ DrainInv /\ FreedInv /\ LogInv /\ OnlyRacedCloseHangs /\ ClosedIsStopped

(* A step that takes nobody away from stopping the io_context.             *)
LEMMA StoppingUndisturbed ==
  ASSUME StoppingInv, UNCHANGED stopped, ioStopped => ioStopped',
         \A c \in Callers :
            Pending("close", c) \/ io = <<"closed", c>> \/ At(c, "deallocWait")
              => Pending("close", c)' \/ io' = <<"closed", c>> \/ At(c, "deallocWait")'
  PROVE  StoppingInv'
BY DEF StoppingInv

(* While a query can be sent, nothing has begun to stop.                    *)
LEMMA SendsBeforeStop ==
  ASSUME IInv, ~stopped
  PROVE  /\ ~ioStopped /\ io[1] \notin {"close", "closed", "dealloc"}
         /\ \A c \in Callers : ~At(c, "deallocWait")
<1>1. ~ioStopped /\ \A c \in Callers : pc[c] \notin {"closeWait", "deallocWait"}
  BY DEF IInv, StopInv
<1>2. \A c \in Callers : io # <<"close", c>> /\ io # <<"dealloc", c>>
  BY <1>1 DEF IInv, HandlerInv, Pending, At
<1>3. io[1] \notin {"close", "closed", "dealloc"}
  BY <1>2 DEF IInv, StopInv, TypeOK, Handlers, Idle, Exited, Logs
<1> QED BY <1>1, <1>3 DEF At

(* A close() that reaches the core posts its handler, or is to call it.     *)
LEMMA CoreClosesKeeps ==
  ASSUME IInv, NEW c \in Callers, CoreCloses(c)
  PROVE  HandlerInv' /\ StopInv'
<1> USE DEF At, Goto, Pending, cluster
<1>1. \A d \in Callers : \A h : <<h, d>> \in posted' <=>
        <<h, d>> \in posted \/ (~stopped /\ h = "close" /\ d = c)
  BY DEF CoreCloses
<1>2. /\ barrier[c] = "unset" /\ At(c, "coreClose") /\ stopped'
      /\ UNCHANGED <<barrier, io, logger, adapter, ioStopped>>
  BY DEF CoreCloses, IInv, HandlerInv
<1>3. \A d \in Callers : pc'[d] =
        IF d = c THEN (IF stopped THEN "callback" ELSE "closeWait") ELSE pc[d]
  BY DEF CoreCloses, IInv, TypeOK
<1>4. io \notin posted'
  BY DEF CoreCloses, IInv, HandlerInv
<1>5. HandlerInv'
  BY <1>1, <1>2, <1>3, <1>4 DEF IInv, HandlerInv
<1>6. \A d \in Callers : Pending("close", d) => stopped
  BY DEF IInv, HandlerInv, StopInv
<1>7. \A d \in Callers : ~At(d, "opening")
  BY <1>2 DEF IInv, PhaseInv, ClosePlaces
<1>8. UNCHANGED io /\ raced' = (raced \/ stopped) /\ (Interrupted' <=> Interrupted)
  BY <1>2 DEF CoreCloses, Interrupted
<1>9. /\ \A d \in Callers :
           /\ pc'[d] \in {"callback", "closeWait", "deallocWait"} => stopped'
           /\ At(d, "opening")' => ~stopped'
           /\ At(d, "callback")' => raced'
           /\ At(d, "closeWait")' /\ barrier'[d] # "unset" => ioStopped' \/ io'[1] = "closed"
           /\ pc'[d] \in {"reset", "deleting"} => ioStopped' \/ Interrupted'
           /\ At(d, "join")' => ioStopped'
           /\ io' = <<"decref", d>> => At(d, "opening")' \/ ioStopped'
  BY <1>2, <1>3, <1>7, <1>8 DEF IInv, StopInv
<1>10. \A d \in Callers, e \in Callers :
         /\ Pending("close", d)' /\ Pending("close", e)' /\ d # e => raced'
         /\ Pending("close", d)' /\ io' = <<"closed", e>> => raced'
  <2>1. CASE stopped
    BY <1>8, <2>1
  <2>2. CASE ~stopped
    <3>1. \A d \in Callers : ~Pending("close", d) /\ io # <<"closed", d>>
      <4>1. io[1] # "closed"
        BY <2>2 DEF IInv, StopInv
      <4>2. \A d \in Callers : io # <<"closed", d>>
        BY <4>1
      <4>3. \A d \in Callers : ~Pending("close", d)
        BY <1>6, <2>2, Zenon
      <4> QED BY <4>2, <4>3
    <3> QED BY <1>1, <1>8, <3>1
  <2> QED BY <2>1, <2>2
<1>11. StopInv'
  BY <1>2, <1>8, <1>9, <1>10 DEF IInv, StopInv
<1> QED BY <1>5, <1>11

(* dealloc_conn posts its handler, or finds the core closed.                *)
LEMMA DeallocClosesKeeps ==
  ASSUME IInv, NEW c \in Callers, DeallocCloses(c)
  PROVE  HandlerInv'
<1> USE DEF At, Goto, Pending
<1>1. \A d \in Callers : \A h : <<h, d>> \in posted' <=>
        <<h, d>> \in posted \/ (~stopped /\ h = "dealloc" /\ d = c)
  BY DEF DeallocCloses
<1>2. At(c, "dealloc") /\ stopped' /\ UNCHANGED <<io, logger, adapter>>
  BY DEF DeallocCloses, cluster
<1>3. \A d \in Callers : pc'[d] = IF d = c THEN "deallocWait" ELSE pc[d]
  BY DEF DeallocCloses, IInv, TypeOK
<1>4. \A d \in Callers : barrier'[d] =
        IF d = c THEN (IF stopped THEN "ok" ELSE "unset") ELSE barrier[d]
  BY DEF DeallocCloses, IInv, TypeOK
<1>5. io \notin posted'
  BY <1>2 DEF DeallocCloses, IInv, HandlerInv
<1> QED BY <1>1, <1>2, <1>3, <1>4, <1>5 DEF IInv, HandlerInv

(* The close handler answers its caller, whom it leaves no time to move on, *)
(* and no other close waits for it unless two have raced.                   *)
LEMMA IoClosesKeeps ==
  ASSUME IInv, NEW c \in Callers, IoCloses(c)
  PROVE  QueryInv' /\ OnlyRacedCloseHangs'
<1> USE DEF At, Pending
<1>1. \A d \in Callers : /\ io # <<"answer", d>> /\ io' # <<"answer", d>>
                         /\ barrier'[d] = IF d = c THEN "ok" ELSE barrier[d]
  BY DEF IoCloses, IInv, TypeOK
<1>2. At(c, "closeWait")
  BY DEF IoCloses, IInv, HandlerInv
<1>3. QueryInv'
  BY <1>1, <1>2 DEF IoCloses, cluster, IInv, QueryInv
<1>4. \A d \in Callers : d # c /\ At(d, "closeWait") /\ barrier[d] = "unset" => raced
  BY DEF IoCloses, IInv, HandlerInv, StopInv
<1>5. OnlyRacedCloseHangs'
  BY <1>1, <1>4 DEF IoCloses, OnlyRacedCloseHangs, CloseHang
<1> QED BY <1>3, <1>5

(* The handler of dealloc_conn answers the thread that has the lock.        *)
LEMMA IoDeallocsKeeps ==
  ASSUME IInv, NEW c \in Callers, IoDeallocs(c)
  PROVE  StopInv'
<1> USE DEF At, Pending
<1>1. \A d \in Callers, h \in {"open", "close", "dealloc"} :
        io' # <<h, d>> /\ barrier'[d] = IF d = c THEN "ok" ELSE barrier[d]
  BY DEF IoDeallocs, IInv, TypeOK, Idle
<1>2. At(c, "deallocWait")
  BY DEF IoDeallocs, IInv, HandlerInv
<1>3. io'[1] = "idle" /\ io[1] = "dealloc"
  BY DEF IoDeallocs, Idle
<1> QED BY <1>1, <1>2, <1>3 DEF IoDeallocs, IInv, StopInv, Interrupted

(* The other parts of the invariant, one case for each action.             *)
LEMMA RestKept == IInv /\ [Next]_vars => Rest'
<1> SUFFICES ASSUME IInv, [Next]_vars
             PROVE  Rest'
  OBVIOUS
<1>0. NoOwnerAtZero /\ ref' \in Nat
  BY ZeroIsFree, RefsKept, RefsCountPrimed DEF IInv
<1> USE <1>0, ConnectionAssumption
    DEF At, Runs, Goto, AllIdle, Idle, Exited, Logs, cluster, core, Pending, ClosePlaces,
        DeallocPlaces, Rest, IInv, TypeOK, Handlers, Places, NoOwnerAtZero, IsClosing,
        OwnsCallbackRef, OnlyLoggedCloseJoinsItself, LockInv, HandlerInv, QueryInv, PhaseInv, StopInv,
        DrainInv, FreedInv, LogInv, OnlyRacedCloseHangs, CloseHang, ClosedIsStopped,
        Interrupted, SelfJoin
<1>1. ASSUME NEW c \in Callers, Create(c)
      PROVE  Rest'
  BY <1>1 DEF Create
<1>2. ASSUME NEW c \in Callers, Query(c)
      PROVE  Rest'
  <2>1. DrainInv'
    <3>1. CASE stopped
      BY <1>2, <3>1 DEF Query, Sends
    <3>2. CASE ~stopped
      BY <1>2, <3>2, SendsBeforeStop DEF Query, Sends
    <3> QED BY <3>1, <3>2
  <2>2. LockInv' /\ HandlerInv' /\ QueryInv' /\ PhaseInv'
    BY <1>2 DEF Query, Sends
  <2>3. StopInv' /\ FreedInv' /\ LogInv' /\ OnlyRacedCloseHangs'
         /\ ClosedIsStopped' /\ OnlyLoggedCloseJoinsItself'
    BY <1>2 DEF Query, Sends
  <2> QED BY <2>1, <2>2, <2>3
<1>3. ASSUME NEW c \in Callers, QueryAsyncio(c)
      PROVE  Rest'
  <2>1. DrainInv'
    <3>1. CASE stopped
      BY <1>3, <3>1 DEF QueryAsyncio, Sends
    <3>2. CASE ~stopped
      BY <1>3, <3>2, SendsBeforeStop DEF QueryAsyncio, Sends
    <3> QED BY <3>1, <3>2
  <2>2. LockInv' /\ HandlerInv' /\ QueryInv' /\ PhaseInv'
    BY <1>3 DEF QueryAsyncio, Sends
  <2>3. StopInv' /\ FreedInv' /\ LogInv' /\ OnlyRacedCloseHangs'
         /\ ClosedIsStopped' /\ OnlyLoggedCloseJoinsItself'
    BY <1>3 DEF QueryAsyncio, Sends
  <2> QED BY <2>1, <2>2, <2>3
<1>4. ASSUME NEW c \in Callers, DropResult(c)
      PROVE  Rest'
  <2>1. LockInv'
    BY <1>4 DEF DropResult, Release
  <2>2. HandlerInv'
    BY <1>4, LastHasNoCallback DEF DropResult, Release
  <2>3. QueryInv'
    BY <1>4 DEF DropResult, Release
  <2>4. PhaseInv' /\ StopInv'
    BY <1>4 DEF DropResult, Release
  <2>5. DrainInv' /\ FreedInv' /\ LogInv' /\ OnlyRacedCloseHangs'
         /\ ClosedIsStopped' /\ OnlyLoggedCloseJoinsItself'
    BY <1>4 DEF DropResult, Release
  <2> QED BY <2>1, <2>2, <2>3, <2>4, <2>5
<1>5. ASSUME NEW c \in Callers, LeaveScope(c)
      PROVE  Rest'
  <2>1. LockInv'
    BY <1>5 DEF LeaveScope, Release
  <2>2. HandlerInv'
    BY <1>5, LastHasNoCallback DEF LeaveScope, Release
  <2>3. QueryInv'
    BY <1>5 DEF LeaveScope, Release
  <2>4. PhaseInv' /\ StopInv'
    BY <1>5 DEF LeaveScope, Release
  <2>5. DrainInv' /\ FreedInv' /\ LogInv' /\ OnlyRacedCloseHangs'
         /\ ClosedIsStopped' /\ OnlyLoggedCloseJoinsItself'
    BY <1>5 DEF LeaveScope, Release
  <2> QED BY <2>1, <2>2, <2>3, <2>4, <2>5
<1>6. ASSUME NEW c \in Callers, Exit(c)
      PROVE  Rest'
  <2>1. LockInv'
    BY <1>6 DEF Exit, Release
  <2>2. HandlerInv'
    BY <1>6, LastHasNoCallback DEF Exit, Release
  <2>3. QueryInv'
    BY <1>6 DEF Exit, Release
  <2>4. PhaseInv' /\ StopInv'
    BY <1>6 DEF Exit, Release
  <2>5. DrainInv' /\ FreedInv' /\ LogInv' /\ OnlyRacedCloseHangs'
         /\ ClosedIsStopped' /\ OnlyLoggedCloseJoinsItself'
    BY <1>6 DEF Exit, Release
  <2> QED BY <2>1, <2>2, <2>3, <2>4, <2>5
<1>7. ASSUME NEW c \in Callers, CloseChecks(c)
      PROVE  Rest'
  BY <1>7 DEF CloseChecks
<1>8. ASSUME NEW c \in Callers, ConfigureLogging(c)
      PROVE  Rest'
  BY <1>8 DEF ConfigureLogging
<1>9. ASSUME NEW c \in Callers, Opened(c)
      PROVE  Rest'
  BY <1>9 DEF Opened
<1>10. ASSUME NEW c \in Callers, QueryReturns(c)
       PROVE  Rest'
  BY <1>10 DEF QueryReturns
<1>11. ASSUME NEW c \in Callers, CloseCalls(c)
       PROVE  Rest'
  BY <1>11 DEF CloseCalls
<1>12. ASSUME NEW c \in Callers, CoreCloses(c)
       PROVE  Rest'
  <2>1. HandlerInv' /\ StopInv'
    BY <1>12, CoreClosesKeeps
  <2>2. LockInv' /\ QueryInv' /\ PhaseInv' /\ DrainInv'
    BY <1>12 DEF CoreCloses
  <2>3. FreedInv' /\ LogInv' /\ OnlyRacedCloseHangs' /\ ClosedIsStopped'
         /\ OnlyLoggedCloseJoinsItself'
    BY <1>12 DEF CoreCloses
  <2> QED BY <2>1, <2>2, <2>3
<1>13. ASSUME NEW c \in Callers, CallbackHere(c)
       PROVE  Rest'
  BY <1>13 DEF CallbackHere
<1>14. ASSUME NEW c \in Callers, CloseReturns(c)
       PROVE  Rest'
  <2>1. LockInv'
    BY <1>14 DEF CloseReturns
  <2>2. HandlerInv'
    BY <1>14, LastHasNoCallback DEF CloseReturns
  <2>3. QueryInv'
    BY <1>14 DEF CloseReturns
  <2>4. PhaseInv' /\ StopInv'
    BY <1>14 DEF CloseReturns
  <2>5. DrainInv' /\ FreedInv' /\ LogInv' /\ OnlyRacedCloseHangs'
         /\ ClosedIsStopped' /\ OnlyLoggedCloseJoinsItself'
    BY <1>14 DEF CloseReturns
  <2> QED BY <2>1, <2>2, <2>3, <2>4, <2>5
<1>15. ASSUME NEW c \in Callers, ResetChecks(c)
       PROVE  Rest'
  BY <1>15 DEF ResetChecks
<1>16. ASSUME NEW c \in Callers, Deletes(c)
       PROVE  Rest'
  <2>1. LockInv'
    BY <1>16 DEF Deletes, Release
  <2>2. HandlerInv'
    BY <1>16, LastHasNoCallback DEF Deletes, Release
  <2>3. QueryInv'
    BY <1>16 DEF Deletes, Release
  <2>4. PhaseInv' /\ StopInv'
    BY <1>16 DEF Deletes, Release
  <2>5. DrainInv' /\ FreedInv' /\ LogInv' /\ OnlyRacedCloseHangs'
         /\ ClosedIsStopped' /\ OnlyLoggedCloseJoinsItself'
    BY <1>16 DEF Deletes, Release
  <2> QED BY <2>1, <2>2, <2>3, <2>4, <2>5
<1>17. ASSUME NEW c \in Callers, DeallocCloses(c)
       PROVE  Rest'
  <2>1. HandlerInv'
    BY <1>17, DeallocClosesKeeps
  <2>2. LockInv' /\ QueryInv' /\ PhaseInv' /\ StopInv'
    BY <1>17 DEF DeallocCloses
  <2>3. DrainInv' /\ FreedInv' /\ LogInv' /\ OnlyRacedCloseHangs'
         /\ ClosedIsStopped' /\ OnlyLoggedCloseJoinsItself'
    BY <1>17 DEF DeallocCloses
  <2> QED BY <2>1, <2>2, <2>3
<1>18. ASSUME NEW c \in Callers, DeallocStops(c)
       PROVE  Rest'
  <2>1. LockInv'
    BY <1>18 DEF DeallocStops
  <2>2. HandlerInv'
    BY <1>18 DEF DeallocStops
  <2>3. QueryInv'
    BY <1>18 DEF DeallocStops
  <2>4. PhaseInv' /\ StopInv'
    BY <1>18 DEF DeallocStops
  <2>5. DrainInv'
    BY <1>18 DEF DeallocStops
  <2>6. OnlyRacedCloseHangs'
    <3>1. ref = 0 /\ pc' = [pc EXCEPT ![c] = "join"]
      BY <1>18 DEF DeallocStops
    <3>2. \A d \in Callers : ~At(d, "closeWait")'
      BY <3>1
    <3> QED BY <3>2
  <2>7. FreedInv' /\ LogInv' /\ ClosedIsStopped' /\ OnlyLoggedCloseJoinsItself'
    BY <1>18 DEF DeallocStops
  <2> QED BY <2>1, <2>2, <2>3, <2>4, <2>5, <2>6, <2>7
<1>19. ASSUME NEW c \in Callers, DeallocJoins(c)
       PROVE  Rest'
  BY <1>19 DEF DeallocJoins
<1>20. ASSUME NEW c \in Callers, IoBegins(c)
       PROVE  Rest'
  BY <1>20 DEF IoBegins
<1>21. ASSUME NEW c \in Callers, IoAnswers(c)
       PROVE  Rest'
  BY <1>21 DEF IoAnswers
<1>22. ASSUME NEW c \in Callers, IoOpens(c)
       PROVE  Rest'
  <2>1. HandlerInv'
    BY <1>22 DEF IoOpens
  <2>2. LockInv'
    BY <1>22 DEF IoOpens
  <2>3. QueryInv'
    BY <1>22 DEF IoOpens
  <2>4. PhaseInv'
    BY <1>22 DEF IoOpens
  <2>5. StopInv'
    BY <1>22 DEF IoOpens
  <2>6. DrainInv' /\ FreedInv' /\ LogInv' /\ OnlyRacedCloseHangs'
         /\ ClosedIsStopped' /\ OnlyLoggedCloseJoinsItself'
    BY <1>22 DEF IoOpens
  <2> QED BY <2>1, <2>2, <2>3, <2>4, <2>5, <2>6
<1>23. ASSUME NEW c \in Callers, IoCloses(c)
       PROVE  Rest'
  <2>1. QueryInv' /\ OnlyRacedCloseHangs'
    BY <1>23, IoClosesKeeps
  <2>2. LockInv'
    BY <1>23 DEF IoCloses
  <2>3. HandlerInv'
    BY <1>23 DEF IoCloses
  <2>4. PhaseInv'
    BY <1>23 DEF IoCloses
  <2>5. StopInv'
    BY <1>23 DEF IoCloses
  <2>6. DrainInv' /\ FreedInv' /\ LogInv' /\ ClosedIsStopped'
         /\ OnlyLoggedCloseJoinsItself'
    BY <1>23 DEF IoCloses
  <2> QED BY <2>1, <2>2, <2>3, <2>4, <2>5, <2>6
<1>24. ASSUME NEW c \in Callers, IoDecrefs(c)
       PROVE  Rest'
  <2>1. CASE ref = 1
    <3>1. io = <<"decref", c>> /\ io' = <<"selfjoin", c>> /\ gil' = "io" /\ ref' = 0
      BY <1>24, <2>1 DEF IoDecrefs
    <3>2. OnlyLoggedCloseJoinsItself'
      BY <1>24, <2>1, CallbackIsNotLast DEF IoDecrefs
    <3>3. LockInv' /\ HandlerInv' /\ QueryInv' /\ PhaseInv' /\ StopInv'
      BY <1>24, <3>1 DEF IoDecrefs
    <3>4. DrainInv' /\ FreedInv' /\ LogInv' /\ OnlyRacedCloseHangs' /\ ClosedIsStopped'
      BY <1>24, <3>1 DEF IoDecrefs
    <3> QED BY <3>2, <3>3, <3>4
  <2>2. CASE ref # 1
    <3>1. io = <<"decref", c>> /\ io' = Idle /\ gil' = "none"
      BY <1>24, <2>2 DEF IoDecrefs
    <3>2. LockInv'
      BY <1>24, <3>1 DEF IoDecrefs
    <3>3. HandlerInv' /\ QueryInv' /\ PhaseInv' /\ StopInv'
      BY <1>24, <3>1 DEF IoDecrefs
    <3>4. DrainInv' /\ FreedInv' /\ LogInv' /\ OnlyRacedCloseHangs'
           /\ ClosedIsStopped' /\ OnlyLoggedCloseJoinsItself'
      BY <1>24, <3>1 DEF IoDecrefs
    <3> QED BY <3>2, <3>3, <3>4
  <2> QED BY <2>1, <2>2
<1>25. ASSUME NEW c \in Callers, IoDeallocs(c)
       PROVE  Rest'
  <2>1. StopInv'
    BY <1>25, IoDeallocsKeeps
  <2>2. LockInv'
    BY <1>25 DEF IoDeallocs
  <2>3. HandlerInv'
    BY <1>25 DEF IoDeallocs
  <2>4. QueryInv'
    BY <1>25 DEF IoDeallocs
  <2>5. PhaseInv'
    BY <1>25 DEF IoDeallocs
  <2>6. DrainInv' /\ FreedInv' /\ LogInv' /\ OnlyRacedCloseHangs'
         /\ ClosedIsStopped' /\ OnlyLoggedCloseJoinsItself'
    BY <1>25 DEF IoDeallocs
  <2> QED BY <2>1, <2>2, <2>3, <2>4, <2>5, <2>6
<1>26. ASSUME IoLogs
       PROVE  Rest'
  BY <1>26 DEF IoLogs
<1>27. ASSUME IoLogged
       PROVE  Rest'
  BY <1>27 DEF IoLogged
<1>28. ASSUME IoExits
       PROVE  Rest'
  BY <1>28 DEF IoExits
<1>29. ASSUME UNCHANGED vars
       PROVE  Rest'
  BY <1>29 DEF vars
<1>30. ASSUME NEW c \in Callers, IoStops(c)
       PROVE  Rest'
  <2>1. LockInv'
    BY <1>30 DEF IoStops
  <2>2. HandlerInv' /\ QueryInv'
    BY <1>30 DEF IoStops
  <2>3. PhaseInv' /\ DrainInv'
    BY <1>30 DEF IoStops
  <2>4. StopInv'
    BY <1>30 DEF IoStops
  <2>5. OnlyRacedCloseHangs'
    BY <1>30 DEF IoStops
  <2>6. FreedInv' /\ LogInv' /\ ClosedIsStopped' /\ OnlyLoggedCloseJoinsItself'
    BY <1>30 DEF IoStops
  <2> QED BY <2>1, <2>2, <2>3, <2>4, <2>5, <2>6
<1> QED BY <1>1, <1>2, <1>3, <1>4, <1>5, <1>6, <1>7, <1>8, <1>9, <1>10, <1>11, <1>12, <1>13, <1>14,
          <1>15, <1>16, <1>17, <1>18, <1>19, <1>20, <1>21, <1>22, <1>23, <1>24, <1>25, <1>26, <1>27, <1>28, <1>29,
          <1>30
       DEF Next, Application, Continues, Callback

(* Someone is about to stop the io_context of a core that was asked to     *)
(* close, in every step.                                                   *)
LEMMA StoppingKept == IInv /\ [Next]_vars => StoppingInv'
<1> SUFFICES ASSUME IInv, [Next]_vars
             PROVE  StoppingInv'
  OBVIOUS
<1> USE DEF At, Runs, Goto, cluster, core, Pending
<1>1. ASSUME NEW c \in Callers, Create(c)
      PROVE  StoppingInv'
  BY <1>1 DEF Create, IInv, PhaseInv, StoppingInv
<1>2. ASSUME NEW c \in Callers, Application(c), ~Create(c)
      PROVE  StoppingInv'
  <2>1. UNCHANGED <<stopped, ioStopped, posted, io>>
    BY <1>2 DEF Application, Query, QueryAsyncio, DropResult, LeaveScope, Exit, CloseChecks,
       ConfigureLogging
  <2>2. \A d \in Callers : At(d, "deallocWait") => At(d, "deallocWait")'
    BY <1>2 DEF Application, Query, QueryAsyncio, DropResult, LeaveScope, Exit, CloseChecks,
       ConfigureLogging, Release, IInv, TypeOK
  <2> QED BY <2>1, <2>2, StoppingUndisturbed DEF IInv
<1>3. ASSUME NEW c \in Callers,
             \/ Opened(c) \/ QueryReturns(c) \/ CloseCalls(c) \/ CallbackHere(c)
             \/ CloseReturns(c) \/ ResetChecks(c) \/ Deletes(c) \/ DeallocJoins(c)
      PROVE  StoppingInv'
  <2>1. UNCHANGED <<stopped, posted, io>>
    BY <1>3 DEF Opened, QueryReturns, CloseCalls, CallbackHere, CloseReturns, ResetChecks,
       Deletes, DeallocJoins
  <2>3. ioStopped => ioStopped'
    BY <1>3 DEF Opened, QueryReturns, CloseCalls, CallbackHere, CloseReturns, ResetChecks,
       Deletes, DeallocJoins
  <2>2. \A d \in Callers : At(d, "deallocWait") => At(d, "deallocWait")'
    BY <1>3 DEF Opened, QueryReturns, CloseCalls, CallbackHere, CloseReturns, ResetChecks,
       Deletes, DeallocJoins, Release, IInv, TypeOK
  <2> QED BY <2>1, <2>2, <2>3, StoppingUndisturbed DEF IInv
<1>4. ASSUME NEW c \in Callers, CoreCloses(c)
      PROVE  StoppingInv'
  <2>1. \A d \in Callers : At(d, "deallocWait") => At(d, "deallocWait")'
    BY <1>4 DEF CoreCloses, IInv, TypeOK
  <2>2. CASE stopped
    BY <1>4, <2>1, <2>2, StoppingUndisturbed DEF CoreCloses, IInv
  <2>3. CASE ~stopped
    <3>1. Pending("close", c)'
      BY <1>4, <2>3 DEF CoreCloses
    <3> QED BY <3>1 DEF StoppingInv
  <2> QED BY <2>2, <2>3
<1>5. ASSUME NEW c \in Callers, DeallocCloses(c)
      PROVE  StoppingInv'
  <2>1. At(c, "deallocWait")'
    BY <1>5 DEF DeallocCloses, IInv, TypeOK
  <2> QED BY <2>1 DEF StoppingInv
<1>6. ASSUME NEW c \in Callers, DeallocStops(c) \/ IoCloses(c) \/ IoStops(c)
      PROVE  StoppingInv'
  BY <1>6 DEF DeallocStops, IoCloses, IoStops, StoppingInv
<1>7. ASSUME NEW c \in Callers, IoBegins(c)
      PROVE  StoppingInv'
  <2>1. \A d \in Callers : /\ Pending("close", d) => Pending("close", d)'
                          /\ io # <<"closed", d>>
    BY <1>7 DEF IoBegins, Idle
  <2> QED BY <1>7, <2>1, StoppingUndisturbed DEF IoBegins, IInv
<1>8. ASSUME NEW c \in Callers, IoAnswers(c) \/ IoOpens(c) \/ IoDecrefs(c) \/ IoDeallocs(c)
      PROVE  StoppingInv'
  <2>1. UNCHANGED <<stopped, ioStopped, posted, pc>>
    BY <1>8 DEF IoAnswers, IoOpens, IoDecrefs, IoDeallocs
  <2>2. \A d \in Callers : io # <<"close", d>> /\ io # <<"closed", d>>
    BY <1>8 DEF IoAnswers, IoOpens, IoDecrefs, IoDeallocs
  <2> QED BY <2>1, <2>2, StoppingUndisturbed DEF IInv
<1>9. ASSUME IoLogs \/ IoLogged \/ IoExits \/ UNCHANGED vars
      PROVE  StoppingInv'
  <2>1. UNCHANGED <<stopped, ioStopped, posted, pc>>
    BY <1>9 DEF IoLogs, IoLogged, IoExits, vars
  <2>2. \A d \in Callers : io = <<"close", d>> \/ io = <<"closed", d>> => io' = io
    BY <1>9 DEF IoLogs, IoLogged, IoExits, vars, Idle, Logs
  <2> QED BY <2>1, <2>2, StoppingUndisturbed DEF IInv
<1> QED BY <1>1, <1>2, <1>3, <1>4, <1>5, <1>6, <1>7, <1>8, <1>9
       DEF Next, Continues, Callback

(* Every step keeps the invariant.                                         *)
LEMMA NextInv == IInv /\ [Next]_vars => IInv'
BY RefsKept, TypesKept, RestKept, StoppingKept DEF IInv, Rest
-----------------------------------------------------------------------------
(* The inductive invariant of a connection.                                *)
THEOREM Invariance == Spec => []IInv
BY InitInv, NextInv, PTL DEF Spec

(* Every variable keeps its type.                                          *)
THEOREM TypeCorrect == Spec => []TypeOK
<1>1. IInv => TypeOK
  BY DEF IInv
<1> QED BY <1>1, Invariance, PTL

(* The capsule's reference count is the number of its owners.              *)
THEOREM CountIsRight == Spec => []RefsAccounted
<1>1. IInv => RefsAccounted
  BY DEF IInv
<1> QED BY <1>1, Invariance, PTL

(* The IO thread runs dealloc_conn, in which it joins itself, only in the  *)
(* callback of a close() that Python's logger has interrupted.             *)
THEOREM IoThreadJoinsItselfInLoggedClosesOnly == Spec => []OnlyLoggedCloseJoinsItself
<1>1. IInv => OnlyLoggedCloseJoinsItself
  BY DEF IInv
<1> QED BY <1>1, Invariance, PTL

(* A freed connection is out of everybody's reach.                         *)
THEOREM FreedIsUnreachable == Spec => []NoUseAfterFree
<1>1. IInv => NoUseAfterFree
  <2> SUFFICES ASSUME IInv, conn = "freed"
               PROVE  NoUseAfterFree
    BY DEF NoUseAfterFree
  <2>1. ref = 0 /\ io = Exited /\ ioStopped
    BY DEF IInv, FreedInv
  <2>2. client # "connected" /\ Closing = {}
    BY <2>1, ZeroIsFree DEF IInv, NoOwnerAtZero, Closing
  <2>3. posted \cap ({"close", "open"} \X Callers) = {}
    <3>1. \A c \in Callers : <<"open", c>> \notin posted /\ <<"close", c>> \notin posted
      BY <2>1, ZeroIsFree DEF IInv, NoOwnerAtZero, OwnsCallbackRef
    <3>2. ASSUME NEW h \in {"close", "open"} \X Callers
          PROVE  h \notin posted
      <4>1. PICK k \in {"close", "open"}, c \in Callers : h = <<k, c>>
        OBVIOUS
      <4> QED BY <3>1, <4>1
    <3> QED BY <3>2, Zenon
  <2>4. inflight = {}
    BY <2>2 DEF IInv, TypeOK, PhaseInv, QueryInv
  <2> QED BY <2>1, <2>2, <2>3, <2>4 DEF NoUseAfterFree
<1> QED BY <1>1, Invariance, PTL

(* Deallocation, which keeps the GIL, never waits for a callback that needs *)
(* it, a record for Python's logger excepted.                              *)
THEOREM DeallocWaitsForLogsOnly == Spec => []OnlyLoggingHangsDealloc
<1>1. IInv => OnlyLoggingHangsDealloc
  <2> SUFFICES ASSUME IInv, GilHang
               PROVE  io[1] = "log" /\ logger = "sink"
    BY DEF OnlyLoggingHangsDealloc
  <2>1. NoOwnerAtZero /\ ref = 0
    BY ZeroIsFree DEF GilHang, IInv, LockInv
  <2>2. client # "connected" /\ \A c \in Callers : ~OwnsCallbackRef(c)
    BY <2>1 DEF NoOwnerAtZero
  <2>3. \A c \in Callers : io # <<"open", c>> /\ io # <<"close", c>> /\ io # <<"closed", c>>
    BY <2>2 DEF OwnsCallbackRef
  <2>4. results = {} /\ ~cycle
    BY <2>2 DEF IInv, PhaseInv, TypeOK
  <2>5. \A c \in Callers : io # <<"answer", c>>
    BY <2>4 DEF IInv, QueryInv
  <2>6. io = Logs
    BY <2>3, <2>5 DEF GilHang, IInv, TypeOK, Handlers, Idle, Exited
  <2> QED BY <2>6 DEF Logs, IInv, LogInv
<1> QED BY <1>1, Invariance, PTL

(* A close() waits for ever only if another one overtook it.               *)
THEOREM CloseWaitsForRacesOnly == Spec => []OnlyRacedCloseHangs
<1>1. IInv => OnlyRacedCloseHangs
  BY DEF IInv
<1> QED BY <1>1, Invariance, PTL

(* A query waits for ever only if the core drops it, two closes race, or   *)
(* the core had been closed when it was sent.                              *)
THEOREM QueriesWaitForDropsOnly == Spec => []OnlyDroppedQueriesHang
<1>1. IInv => OnlyDroppedQueriesHang
  BY DEF IInv, QueryInv, DrainInv, OnlyDroppedQueriesHang, QueryHangs
<1> QED BY <1>1, Invariance, PTL

(* A closed cluster leaves no IO thread running, or one that a record for  *)
(* Python's logger keeps from stopping.                                    *)
THEOREM CloseStopsIt == Spec => []ClosedIsStopped
<1>1. IInv => ClosedIsStopped
  BY DEF IInv
<1> QED BY <1>1, Invariance, PTL
=============================================================================
