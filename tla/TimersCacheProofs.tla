------------------------- MODULE TimersCacheProofs -------------------------
(***************************************************************************)
(* Proofs about TimersCache, for every finite set of timers, every set of  *)
(* client threads, all durations and every bound on the clock.             *)
(***************************************************************************)
EXTENDS TimersCache, FiniteSetTheorems, TLAPS

----------------------------------------------------------------------------
(* The two operators that choose a least element.                          *)

\* A nonempty set of natural numbers has a least element, and Min is it.
LEMMA MinIsLeast ==
    ASSUME NEW S \in SUBSET Nat, S # {}
    PROVE  /\ Min(S) \in S
           /\ \A x \in S : Min(S) <= x
<1> DEFINE R == OpToRel(<, Nat)
<1>1. IsWellFoundedOn(R, Nat)
  BY NatLessThanWellFounded
<1>2. PICK m \in S : \A y \in S : <<y, m>> \notin R
  BY <1>1, WFMin
<1>3. \A y \in S : ~(y < m)
  BY <1>2 DEF OpToRel
<1>4. \A y \in S : m <= y
  BY <1>3
<1> QED
  BY <1>4 DEF Min

\* Some identifier between 1 and the number of timers plus one is not taken,
\* however identifiers were given and taken back before.
LEMMA SomeIdFree ==
    ASSUME TypeOK
    PROVE  \E i \in 1 .. Cardinality(cached) + 1 : \A t \in cached : timerID[t] # i
<1> DEFINE n == Cardinality(cached)
           f == [i \in 1 .. n + 1 |-> CHOOSE t \in cached : timerID[t] = i]
<1>1. IsFiniteSet(cached) /\ n \in Nat
  BY TimerFinite, FS_Subset, FS_CardinalityType DEF TypeOK
<1>2. IsFiniteSet(1 .. n + 1) /\ Cardinality(1 .. n + 1) = n + 1
  BY <1>1, FS_Interval
<1> SUFFICES ASSUME \A i \in 1 .. n + 1 : \E t \in cached : timerID[t] = i
             PROVE  FALSE
  OBVIOUS
<1>3. \A i \in 1 .. n + 1 : f[i] \in cached /\ timerID[f[i]] = i
  OBVIOUS
<1>4. f \in [1 .. n + 1 -> cached]
  BY <1>3
<1>5. n < Cardinality(1 .. n + 1)
  BY <1>1, <1>2
<1> HIDE DEF f
<1>6. \E x, y \in 1 .. n + 1 : x # y /\ f[x] = f[y]
  BY <1>1, <1>2, <1>4, <1>5, FS_PigeonHole
<1> QED
  BY <1>3, <1>6

\* generateTimerID returns a positive identifier that no cached timer has.
THEOREM GeneratedIdFresh ==
    ASSUME TypeOK
    PROVE  /\ generateTimerID \in Nat \ {0}
           /\ \A t \in cached : timerID[t] # generateTimerID
<1> DEFINE Free == {i \in 1 .. Cardinality(cached) + 1 : \A t \in cached : timerID[t] # i}
<1>1. Cardinality(cached) \in Nat
  BY TimerFinite, FS_Subset, FS_CardinalityType DEF TypeOK
<1>2. Free \in SUBSET Nat /\ Free # {}
  BY <1>1, SomeIdFree
<1>3. Min(Free) \in Free
  BY <1>2, MinIsLeast
<1> QED
  BY <1>1, <1>3 DEF generateTimerID

----------------------------------------------------------------------------
(* The invariants.  One lemma per group of actions, by who acts.           *)

LEMMA InitIndInv == Init => IndInv
<1> SUFFICES ASSUME Init PROVE IndInv
  OBVIOUS
<1> USE DEF Init
<1>1. TypeOK
  <2>1. 0 \in 0 .. MaxTime /\ 0 \in 0 .. now
    BY MaxTimeType
  <2>2. startTimestamp \in [Timer -> 0 .. now]
    BY <2>1
  <2>3. timersInvokedStatus \in BOOLEAN /\ notified \in BOOLEAN
    OBVIOUS
  <2> QED
    BY <2>1, <2>2, <2>3 DEF TypeOK, ThreadPc, ClientPc, ActionStatus
<1>2. TimerIdsUnique /\ KeysInStep /\ CallbackHoldsTimer /\ EndedTimersSwept
  BY DEF TimerIdsUnique, KeysInStep, CallbackHoldsTimer, EndedTimersSwept, EndedTimers
<1>3. HeldByOneClient /\ NoLostWakeup
  BY DEF HeldByOneClient, NoLostWakeup, Asleep
<1> QED
  BY <1>1, <1>2, <1>3 DEF IndInv

LEMMA MakeTimerIndInv ==
    ASSUME IndInv, NEW c \in Client, NEW t \in Timer, MakeTimer(c, t)
    PROVE  IndInv'
<1> USE DEF MakeTimer, Construct, Goto, threadVars, IndInv
<1>1. TypeOK'
  BY NoTimerAssumption DEF TypeOK, ClientPc
<1>2. TimerIdsUnique' /\ CallbackHoldsTimer' /\ EndedTimersSwept'
  BY DEF TimerIdsUnique, CallbackHoldsTimer, EndedTimersSwept, EndedTimers
<1>3. KeysInStep'
  BY DEF TypeOK, KeysInStep, getExpirationTimestamp
<1>4. HeldByOneClient'
  BY DEF TypeOK, HeldByOneClient
<1>5. NoLostWakeup'
  BY DEF TypeOK, NoLostWakeup
<1> QED
  BY <1>1, <1>2, <1>3, <1>4, <1>5

\* The bookkeeping that the two ways to register share.
LEMMA InsertKeepsIds ==
    ASSUME TypeOK, TimerIdsUnique, NEW t \in Timer, NEW e \in Nat, Insert(t, e)
    PROVE  /\ timerID' \in [Timer -> Nat]
           /\ key' \in [Timer -> Nat]
           /\ TimerIdsUnique'
<1>1. generateTimerID \in Nat \ {0} /\ \A u \in cached : timerID[u] # generateTimerID
  BY GeneratedIdFresh
<1> QED
  BY <1>1 DEF Insert, TypeOK, TimerIdsUnique

LEMMA internalRegisterTimerIndInv ==
    ASSUME IndInv, NEW c \in Client, internalRegisterTimer(c)
    PROVE  IndInv'
<1> USE DEF internalRegisterTimer, Goto, threadVars, IndInv
<1> DEFINE t == arg[c]
<1>1. t \in made /\ t \in Timer /\ t \notin cached /\ actionStatus[t] = "Waiting"
  BY DEF HeldByOneClient, TypeOK
<1>2. getExpirationTimestamp(t) \in Nat
  BY <1>1, DurationType DEF getExpirationTimestamp, TypeOK
<1>3. TimerIdsUnique' /\ timerID' \in [Timer -> Nat] /\ key' \in [Timer -> Nat]
  BY <1>1, <1>2, InsertKeepsIds
<1>4. TypeOK'
  BY <1>1, <1>3 DEF TypeOK, ClientPc, Insert
<1>5. KeysInStep'
  BY <1>1 DEF TypeOK, KeysInStep, getExpirationTimestamp, Insert
<1>6. CallbackHoldsTimer'
  BY DEF CallbackHoldsTimer, Insert
<1>7. HeldByOneClient'
  BY <1>1 DEF TypeOK, HeldByOneClient, Insert
<1>8. EndedTimersSwept'
  BY <1>1 DEF EndedTimersSwept, EndedTimers, Insert
<1>9. NoLostWakeup'
  BY DEF TypeOK, NoLostWakeup
<1> QED
  BY <1>3, <1>4, <1>5, <1>6, <1>7, <1>8, <1>9

LEMMA registerNullTimerIndInv ==
    ASSUME IndInv, NEW c \in Client, registerNullTimer(c)
    PROVE  IndInv'
<1> USE DEF registerNullTimer, Goto, threadVars, timerVars, IndInv
<1>1. TypeOK'
  BY DEF TypeOK, ClientPc
<1>2. TimerIdsUnique' /\ KeysInStep' /\ CallbackHoldsTimer' /\ EndedTimersSwept'
  BY DEF TimerIdsUnique, KeysInStep, getExpirationTimestamp, CallbackHoldsTimer,
         EndedTimersSwept, EndedTimers
<1>3. HeldByOneClient' /\ NoLostWakeup'
  BY DEF TypeOK, HeldByOneClient, NoLostWakeup
<1> QED
  BY <1>1, <1>2, <1>3

LEMMA internalRemoveTimerIndInv ==
    ASSUME IndInv, NEW c \in Client, NEW i, internalRemoveTimer(c, i)
    PROVE  IndInv'
<1> USE DEF internalRemoveTimer, CachedUnder, Goto, threadVars, IndInv
<1>1. cached' \subseteq cached
  OBVIOUS
<1>2. TypeOK'
  BY <1>1 DEF TypeOK, ClientPc
<1>3. TimerIdsUnique' /\ KeysInStep' /\ EndedTimersSwept'
  BY <1>1 DEF TimerIdsUnique, KeysInStep, getExpirationTimestamp, EndedTimersSwept,
              EndedTimers
<1>4. CallbackHoldsTimer'
  BY DEF CallbackHoldsTimer, LockFree
<1>5. HeldByOneClient' /\ NoLostWakeup'
  BY <1>1 DEF TypeOK, HeldByOneClient, NoLostWakeup
<1> QED
  BY <1>2, <1>3, <1>4, <1>5

LEMMA notifyOneIndInv ==
    ASSUME IndInv, NEW c \in Client, notifyOne(c)
    PROVE  IndInv'
<1> USE DEF notifyOne, Goto, threadVars, timerVars, IndInv
<1>1. TypeOK'
  BY DEF TypeOK, ClientPc
<1>2. TimerIdsUnique' /\ KeysInStep' /\ CallbackHoldsTimer' /\ EndedTimersSwept'
  BY DEF TimerIdsUnique, KeysInStep, getExpirationTimestamp, CallbackHoldsTimer,
         EndedTimersSwept, EndedTimers
<1>3. HeldByOneClient'
  BY DEF TypeOK, HeldByOneClient
<1>4. NoLostWakeup'
  BY DEF TypeOK, NoLostWakeup
<1> QED
  BY <1>1, <1>2, <1>3, <1>4

LEMMA restartTimerIndInv ==
    ASSUME IndInv, NEW c \in Client, NEW i, restartTimer(c, i)
    PROVE  IndInv'
<1> USE DEF restartTimer, CachedUnder, threadVars, clientVars, IndInv
<1>1. PICK t \in cached : /\ startTimestamp' = [startTimestamp EXCEPT ![t] = now]
                          /\ key' = [key EXCEPT ![t] = now + Duration[t]]
  OBVIOUS
<1>2. /\ t \in Timer
      /\ now \in Nat
      /\ Duration[t] \in Nat
      /\ startTimestamp[t] \in Nat
      /\ startTimestamp[t] <= now
  <2>1. t \in Timer /\ now \in 0 .. MaxTime /\ startTimestamp[t] \in 0 .. now
    BY DEF TypeOK
  <2> QED
    BY <2>1, MaxTimeType, DurationType
<1>3. TypeOK'
  BY <1>1, <1>2 DEF TypeOK
<1>4. TimerIdsUnique' /\ CallbackHoldsTimer' /\ EndedTimersSwept' /\ HeldByOneClient'
  BY DEF TimerIdsUnique, CallbackHoldsTimer, EndedTimersSwept, EndedTimers, HeldByOneClient
<1>5. KeysInStep'
  BY <1>1, <1>2 DEF TypeOK, KeysInStep, getExpirationTimestamp
<1>6. key[t] <= key'[t]
  BY <1>1, <1>2 DEF KeysInStep, getExpirationTimestamp, TypeOK
<1>7. NoLostWakeup'
  <2>1. \A u \in cached : key[u] <= key'[u] /\ key[u] \in Nat /\ key'[u] \in Nat
    BY <1>1, <1>2, <1>6 DEF TypeOK
  <2>2. waitFor \in Nat
    BY DEF TypeOK
  <2> QED
    BY <2>1, <2>2 DEF NoLostWakeup
<1> QED
  BY <1>3, <1>4, <1>5, <1>7

\* A client's step keeps the invariants.
LEMMA ClientIndInv ==
    ASSUME IndInv, NEW c \in Client, ClientStep(c)
    PROVE  IndInv'
  BY MakeTimerIndInv, internalRegisterTimerIndInv, registerNullTimerIndInv,
     internalRemoveTimerIndInv, notifyOneIndInv, restartTimerIndInv
     DEF ClientStep

----------------------------------------------------------------------------
(* The timers thread.                                                      *)

\* Steps of the thread that touch neither the timers nor the clients: what is
\* left to show is the type of the thread's variables and what it sleeps on.
LEMMA ThreadOnlyIndInv ==
    ASSUME IndInv,
           UNCHANGED <<now, timerVars, clientVars>>,
           CallbackHoldsTimer', EndedTimersSwept', NoLostWakeup',
           timersInvokedStatus' \in BOOLEAN, notified' \in BOOLEAN,
           thread' \in ThreadPc, waitFor' \in Nat, timePoint' \in 0 .. now,
           running' \in Timer \cup {NoTimer}
    PROVE  IndInv'
<1> USE DEF IndInv, timerVars, clientVars
<1>1. TypeOK'
  BY DEF TypeOK
<1>2. TimerIdsUnique' /\ KeysInStep' /\ HeldByOneClient'
  BY DEF TimerIdsUnique, KeysInStep, getExpirationTimestamp, HeldByOneClient
<1> QED
  BY <1>1, <1>2

LEMMA nextExpirationTimestampIndInv ==
    ASSUME IndInv, nextExpirationTimestamp
    PROVE  IndInv'
<1> USE DEF nextExpirationTimestamp
<1>1. EndedTimersSwept' /\ CallbackHoldsTimer'
  BY DEF IndInv, EndedTimersSwept, EndedTimers, CallbackHoldsTimer, timerVars
<1>2. CASE cached = {}
  <2>1. NoLostWakeup'
    BY <1>2 DEF NoLostWakeup, timerVars, Asleep
  <2> QED
    BY <1>1, <1>2, <2>1, ThreadOnlyIndInv DEF IndInv, TypeOK, ThreadPc
<1>3. CASE cached # {}
  <2> DEFINE K == {key[t] : t \in cached}
  <2>1. K \in SUBSET Nat /\ K # {}
    BY <1>3 DEF IndInv, TypeOK
  <2>2. Min(K) \in Nat /\ \A t \in cached : Min(K) <= key[t]
    BY <2>1, MinIsLeast
  <2>3. NoLostWakeup'
    BY <1>3, <2>2 DEF NoLostWakeup, timerVars, Asleep
  <2> QED
    BY <1>1, <1>3, <2>2, <2>3, ThreadOnlyIndInv DEF IndInv, TypeOK, ThreadPc
<1> QED
  BY <1>2, <1>3

\* Falling asleep, and returning from the wait.
LEMMA WaitIndInv ==
    ASSUME IndInv, waitForNextExpiration \/ waitForInvoke
    PROVE  IndInv'
<1> USE DEF waitForNextExpiration, waitForInvoke, Wait, Return
<1>1. EndedTimersSwept' /\ CallbackHoldsTimer'
  BY DEF IndInv, EndedTimersSwept, EndedTimers, CallbackHoldsTimer, timerVars
<1>2. NoLostWakeup'
  BY DEF IndInv, NoLostWakeup, timerVars, Asleep
<1>3. thread' \in ThreadPc /\ waitFor' \in Nat
  BY DEF IndInv, TypeOK, ThreadPc, Asleep
<1>4. timersInvokedStatus' \in BOOLEAN
  BY Zenon DEF IndInv, TypeOK
<1> QED
  BY <1>1, <1>2, <1>3, <1>4, ThreadOnlyIndInv DEF IndInv, TypeOK

LEMMA AwakeIndInv ==
    ASSUME IndInv, thread \in Asleep, Awake
    PROVE  IndInv'
<1> USE DEF Awake, Return, Asleep
<1>1. EndedTimersSwept' /\ CallbackHoldsTimer'
  BY DEF IndInv, EndedTimersSwept, EndedTimers, CallbackHoldsTimer, timerVars
<1>2. NoLostWakeup'
  BY DEF IndInv, NoLostWakeup, timerVars
<1>3. thread' \in ThreadPc /\ waitFor' \in Nat
  BY DEF IndInv, TypeOK, ThreadPc
<1>4. timersInvokedStatus' \in BOOLEAN /\ notified' \in BOOLEAN
  BY Zenon DEF IndInv, TypeOK
<1> QED
  BY <1>1, <1>2, <1>3, <1>4, ThreadOnlyIndInv DEF IndInv, TypeOK

\* Steps that only move the thread on.
LEMMA PassIndInv ==
    ASSUME IndInv, ReadClock \/ BeginTrigger \/ EndTrigger
    PROVE  IndInv'
<1> USE DEF ReadClock, BeginTrigger, EndTrigger
<1>1. EndedTimersSwept' /\ CallbackHoldsTimer'
  BY DEF IndInv, EndedTimersSwept, EndedTimers, CallbackHoldsTimer, timerVars
<1>2. NoLostWakeup'
  BY DEF IndInv, NoLostWakeup, Asleep
<1>3. timePoint' \in 0 .. now
  BY MaxTimeType DEF IndInv, TypeOK
<1>4. thread' \in ThreadPc
  BY DEF ThreadPc
<1> QED
  BY <1>1, <1>2, <1>3, <1>4, ThreadOnlyIndInv DEF IndInv, TypeOK

LEMMA CallbackThrowsIndInv ==
    ASSUME IndInv, CallbackThrows
    PROVE  IndInv'
<1> USE DEF CallbackThrows
<1>1. EndedTimersSwept' /\ CallbackHoldsTimer'
  BY DEF IndInv, EndedTimersSwept, EndedTimers, CallbackHoldsTimer, timerVars
<1>2. NoLostWakeup'
  BY DEF IndInv, NoLostWakeup, timerVars, clientVars
<1> QED
  BY <1>1, <1>2, ThreadOnlyIndInv DEF IndInv, TypeOK

\* The callback of t starts, or returns.
LEMMA CallbackIndInv ==
    ASSUME IndInv, (\E t \in Timer : StartCallback(t)) \/ CallbackReturns
    PROVE  IndInv'
<1> USE DEF StartCallback, CallbackReturns, clientVars
<1>0. thread = "triggering" /\ thread' = "triggering"
  BY DEF IndInv, CallbackHoldsTimer
<1>1. PICK t \in cached, s \in {"Running", "Ended"} :
         /\ actionStatus' = [actionStatus EXCEPT ![t] = s]
         /\ running' = IF s = "Running" THEN t ELSE NoTimer
  BY DEF IndInv, CallbackHoldsTimer, Expired
<1>2. t \in Timer
  BY DEF IndInv, TypeOK
<1>3. TypeOK'
  BY <1>1, <1>2 DEF IndInv, TypeOK, ActionStatus
<1>4. TimerIdsUnique' /\ KeysInStep'
  BY DEF IndInv, TimerIdsUnique, KeysInStep, getExpirationTimestamp
<1>5. CallbackHoldsTimer'
  BY <1>0, <1>1, <1>2 DEF IndInv, CallbackHoldsTimer, TypeOK
<1>6. HeldByOneClient'
  <2>1. \A u \in Timer \ cached : actionStatus'[u] = actionStatus[u]
    BY <1>1 DEF IndInv, TypeOK
  <2>2. Timer \ made \subseteq Timer \ cached
    BY DEF IndInv, TypeOK
  <2>3. \A c \in Client : pc[c] = "register" => arg[c] \in Timer \ cached
    BY DEF IndInv, TypeOK, HeldByOneClient
  <2> QED
    BY <2>1, <2>2, <2>3 DEF IndInv, HeldByOneClient
<1>7. EndedTimersSwept'
  BY <1>0 DEF EndedTimersSwept
<1>8. NoLostWakeup'
  BY <1>0 DEF NoLostWakeup, Asleep
<1> QED
  BY <1>3, <1>4, <1>5, <1>6, <1>7, <1>8 DEF IndInv

LEMMA registerTimerNoLockIndInv ==
    ASSUME IndInv, NEW t \in Timer, registerTimerNoLock(t)
    PROVE  IndInv'
<1> USE DEF registerTimerNoLock, Construct, threadVars, clientVars
<1>0. thread = "triggering" /\ thread' = "triggering" /\ running \in cached
  BY DEF IndInv, CallbackHoldsTimer
<1>1. now + Duration[t] \in Nat
  <2>1. now \in 0 .. MaxTime
    BY DEF IndInv, TypeOK
  <2> QED
    BY <2>1, MaxTimeType, DurationType
<1>2. TimerIdsUnique' /\ timerID' \in [Timer -> Nat] /\ key' \in [Timer -> Nat]
  BY <1>1, InsertKeepsIds DEF IndInv
<1>3. TypeOK'
  BY <1>2 DEF IndInv, TypeOK, Insert
<1>4. KeysInStep'
  BY DEF IndInv, TypeOK, KeysInStep, getExpirationTimestamp, Insert
<1>5. CallbackHoldsTimer'
  BY <1>0 DEF IndInv, CallbackHoldsTimer, Insert
<1>6. HeldByOneClient'
  BY DEF IndInv, HeldByOneClient, Insert
<1>7. EndedTimersSwept' /\ NoLostWakeup'
  BY <1>0 DEF EndedTimersSwept, NoLostWakeup, Asleep
<1> QED
  BY <1>2, <1>3, <1>4, <1>5, <1>6, <1>7 DEF IndInv

LEMMA restartRepeatableTimersIndInv ==
    ASSUME IndInv, restartRepeatableTimers
    PROVE  IndInv'
<1> USE DEF restartRepeatableTimers, clientVars
<1> DEFINE S == EndedTimers \cap Repeatable
<1>1. now \in Nat /\ now \in 0 .. now /\ S \in SUBSET cached
  BY MaxTimeType DEF IndInv, TypeOK, EndedTimers
<1>2. TypeOK'
  BY <1>1, DurationType DEF IndInv, TypeOK, ThreadPc, ActionStatus
<1>3. TimerIdsUnique'
  BY DEF IndInv, TimerIdsUnique
<1>4. KeysInStep'
  BY DEF IndInv, TypeOK, KeysInStep, getExpirationTimestamp
<1>5. CallbackHoldsTimer'
  BY DEF IndInv, CallbackHoldsTimer
<1>6. HeldByOneClient'
  BY <1>1 DEF IndInv, TypeOK, HeldByOneClient
<1>7. EndedTimersSwept'
  BY DEF IndInv, TypeOK, EndedTimersSwept, EndedTimers
<1>8. NoLostWakeup'
  BY DEF NoLostWakeup, Asleep
<1> QED
  BY <1>2, <1>3, <1>4, <1>5, <1>6, <1>7, <1>8 DEF IndInv

LEMMA removeEndedTimersIndInv ==
    ASSUME IndInv, removeEndedTimers
    PROVE  IndInv'
<1> USE DEF removeEndedTimers, clientVars
<1>1. TypeOK'
  BY DEF IndInv, TypeOK, ThreadPc
<1>2. TimerIdsUnique' /\ KeysInStep' /\ CallbackHoldsTimer' /\ HeldByOneClient'
  BY DEF IndInv, TimerIdsUnique, KeysInStep, getExpirationTimestamp, CallbackHoldsTimer,
         HeldByOneClient
<1>3. EndedTimersSwept'
  BY DEF IndInv, EndedTimersSwept, EndedTimers
<1>4. NoLostWakeup'
  BY DEF NoLostWakeup, Asleep
<1> QED
  BY <1>1, <1>2, <1>3, <1>4 DEF IndInv

LEMMA TickIndInv ==
    ASSUME IndInv, Tick
    PROVE  IndInv'
<1> USE DEF Tick, timerVars, threadVars, clientVars
<1>1. TypeOK'
  BY MaxTimeType DEF IndInv, TypeOK
<1>2. TimerIdsUnique' /\ KeysInStep' /\ CallbackHoldsTimer' /\ HeldByOneClient'
  BY DEF IndInv, TimerIdsUnique, KeysInStep, getExpirationTimestamp, CallbackHoldsTimer,
         HeldByOneClient
<1>3. EndedTimersSwept' /\ NoLostWakeup'
  BY DEF IndInv, EndedTimersSwept, EndedTimers, NoLostWakeup
<1> QED
  BY <1>1, <1>2, <1>3 DEF IndInv

LEMMA StutterIndInv == IndInv /\ UNCHANGED vars => IndInv'
  BY DEF vars, timerVars, threadVars, clientVars, IndInv, TypeOK, TimerIdsUnique,
         KeysInStep, getExpirationTimestamp, CallbackHoldsTimer, HeldByOneClient,
         EndedTimersSwept, EndedTimers, NoLostWakeup

----------------------------------------------------------------------------
(* The theorems.                                                           *)

LEMMA NextIndInv == IndInv /\ [Next]_vars => IndInv'
<1> SUFFICES ASSUME IndInv, [Next]_vars
             PROVE  IndInv'
  OBVIOUS
<1>1. CASE \E c \in Client : ClientStep(c)
  BY <1>1, ClientIndInv
<1>2. CASE TimersThread
  BY <1>2, nextExpirationTimestampIndInv, WaitIndInv, AwakeIndInv, PassIndInv,
     CallbackIndInv, CallbackThrowsIndInv, restartRepeatableTimersIndInv,
     removeEndedTimersIndInv
     DEF TimersThread, WakeUp
<1>3. CASE SpuriousWakeUp
  BY <1>3, AwakeIndInv DEF SpuriousWakeUp
<1>4. CASE \E t \in Timer : registerTimerNoLock(t)
  BY <1>4, registerTimerNoLockIndInv
<1>5. CASE Tick
  BY <1>5, TickIndInv
<1>6. CASE UNCHANGED vars
  BY <1>6, StutterIndInv
<1> QED
  BY <1>1, <1>2, <1>3, <1>4, <1>5, <1>6 DEF Next

\* The invariant of the cache, its thread and its clients holds in every behaviour.
THEOREM Inductive == Spec => []IndInv
  BY InitIndInv, NextIndInv, PTL DEF Spec

\* The state of the cache, of its thread and of the callers keeps its type,
\* the start of a timer never lies in the future.
THEOREM TypeCorrect == Spec => []TypeOK
  BY Inductive, PTL DEF IndInv

\* No two timers in the cache have the same identifier, for any history of
\* registrations (by clients and by handlers), removals and reuse.
THEOREM IdsStayUnique == Spec => []TimerIdsUnique
  BY Inductive, PTL DEF IndInv

\* The multimap stays sorted by expiration.
THEOREM KeysStayInStep == Spec => []KeysInStep
  BY Inductive, PTL DEF IndInv

\* No timer is destroyed while its callback runs.
THEOREM CallbackKeepsTimer == Spec => []CallbackHoldsTimer
  BY Inductive, PTL DEF IndInv

\* The timers thread never sleeps past an expiration.
THEOREM WakeupNeverLost == Spec => []NoLostWakeup
  BY Inductive, PTL DEF IndInv

\* The thread never goes to sleep with an Ended timer in the cache.
THEOREM EndedAlwaysSwept == Spec => []EndedTimersSwept
  BY Inductive, PTL DEF IndInv

----------------------------------------------------------------------------
(* TimersCache implements TimerService.                                    *)

\* What a timer's phase stands for.
LEMMA PhaseMeaning ==
    ASSUME TypeOK, NEW t \in Timer
    PROVE  /\ PhaseOf(t) = "pending" <=> t \in cached /\ actionStatus[t] = "Waiting"
           /\ PhaseOf(t) = "done" <=> t \in cached /\ actionStatus[t] = "Ended"
           /\ PhaseOf(t) = "firing" <=>
                  t \in cached /\ actionStatus[t] = "Running" /\ running = t
           /\ PhaseOf(t) = "failed" <=>
                  t \in cached /\ actionStatus[t] = "Running" /\ running # t
           /\ PhaseOf(t) = "new" <=> t \notin cached /\ t \notin made \ Held
           /\ PhaseOf(t) = "gone" <=> t \notin cached /\ t \in made \ Held
<1>1. actionStatus[t] \in {"Waiting", "Running", "Ended"}
  BY DEF TypeOK, ActionStatus
<1> QED
  BY <1>1 DEF PhaseOf

\* A timer's phase changes only with what it stands for.
LEMMA PhaseUnchanged ==
    ASSUME NEW t \in Timer,
           t \in cached' <=> t \in cached,
           actionStatus'[t] = actionStatus[t],
           running' = t <=> running = t,
           t \in (made \ Held)' <=> t \in made \ Held
    PROVE  PhaseOf(t)' = PhaseOf(t)
  BY DEF PhaseOf

\* Timers that a client holds are made and not in the cache.
LEMMA HeldMeaning ==
    ASSUME IndInv
    PROVE  Held \subseteq made \ cached
  BY DEF IndInv, HeldByOneClient, Held

LEMMA HeldUnchanged == UNCHANGED clientVars => Held' = Held
  BY DEF Held, clientVars

LEMMA LiveIsCached ==
    ASSUME IndInv
    PROVE  Service!Live = cached
<1>1. cached \subseteq Timer
  BY DEF IndInv, TypeOK
<1> QED
  BY <1>1, PhaseMeaning DEF IndInv, Service!Live

LEMMA NoCallbackIsIdle ==
    ASSUME IndInv, running = NoTimer
    PROVE  Service!Idle
<1>1. \A t \in Timer : PhaseOf(t) # "firing"
  BY PhaseMeaning, NoTimerAssumption DEF IndInv
<1> QED
  BY <1>1 DEF Service!Idle

\* A new timer, by a client or by a callback.
LEMMA InsertRegisters ==
    ASSUME IndInv, NEW t \in Timer, NEW e, Insert(t, e), UNCHANGED <<now, running>>,
           t \notin cached, t \notin made \ Held, actionStatus[t] = "Waiting",
           \A u \in Timer \ {t} : u \in (made \ Held)' <=> u \in made \ Held
    PROVE  Service!Register(t)
<1> USE DEF Insert
<1>1. generateTimerID \in Nat \ {0} /\ \A u \in cached : timerID[u] # generateTimerID
  BY GeneratedIdFresh DEF IndInv
<1>2. timerID'[t] = generateTimerID
  BY DEF IndInv, TypeOK
<1>3. PhaseOf(t) = "new"
  BY PhaseMeaning DEF IndInv
<1>4. PhaseOf(t)' = "pending"
  BY DEF PhaseOf
<1>5. \A u \in Timer \ {t} : PhaseOf(u)' = PhaseOf(u)
  BY PhaseUnchanged
<1>6. Service!Move(t, "pending")
  BY <1>4, <1>5 DEF Service!Move
<1>7. /\ timerID' = [timerID EXCEPT ![t] = timerID'[t]]
      /\ key' = [key EXCEPT ![t] = key'[t]]
  BY DEF IndInv, TypeOK
<1>8. timerID'[t] > 0 /\ \A u \in Service!Live : timerID'[t] # timerID[u]
  BY <1>1, <1>2, LiveIsCached
<1> QED
  BY <1>3, <1>6, <1>7, <1>8 DEF Service!Register

LEMMA internalRegisterTimerRegisters ==
    ASSUME IndInv, NEW c \in Client, internalRegisterTimer(c)
    PROVE  Service!Register(arg[c])
<1> USE DEF internalRegisterTimer, Goto, threadVars
<1> DEFINE t == arg[c]
<1>1. t \in made \ cached /\ t \in Timer /\ actionStatus[t] = "Waiting" /\ t \in Held
  BY DEF IndInv, HeldByOneClient, TypeOK, Held
<1>2. \A u \in Timer \ {t} : u \in Held' <=> u \in Held
  <2>1. /\ \A d \in Client : d # c => pc'[d] = pc[d]
        /\ pc'[c] = "notify" /\ arg' = arg
    BY DEF IndInv, TypeOK
  <2> QED
    BY <2>1 DEF Held
<1> QED
  BY <1>1, <1>2, InsertRegisters

LEMMA registerTimerNoLockRegisters ==
    ASSUME IndInv, NEW t \in Timer, registerTimerNoLock(t)
    PROVE  Service!Register(t)
<1> USE DEF registerTimerNoLock, Construct, threadVars
<1>1. t \notin made /\ t \notin cached /\ actionStatus[t] = "Waiting" /\ made' = made \cup {t}
  BY DEF IndInv, HeldByOneClient, TypeOK
<1>2. Held' = Held
  BY HeldUnchanged
<1> QED
  BY <1>1, <1>2, InsertRegisters

LEMMA internalRemoveTimerRemoves ==
    ASSUME IndInv, NEW c \in Client, NEW i, internalRemoveTimer(c, i)
    PROVE  \E t \in Timer : Service!Remove(t)
<1> USE DEF internalRemoveTimer, Goto, threadVars
<1>1. PICK t \in cached : cached' = cached \ {t}
  BY DEF CachedUnder
<1>2. t \in Timer /\ t \in made /\ t \notin Held
  BY HeldMeaning DEF IndInv, TypeOK
<1>3. Held' = Held
  <2>1. pc[c] = "idle" /\ pc'[c] = "notify" /\ arg' = arg /\ \A d \in Client : d # c => pc'[d] = pc[d]
    BY DEF IndInv, TypeOK
  <2> QED
    BY <2>1 DEF Held
<1>4. PhaseOf(t)' = "gone"
  BY <1>1, <1>2, <1>3 DEF PhaseOf
<1>5. \A u \in Timer \ {t} : PhaseOf(u)' = PhaseOf(u)
  BY <1>1, <1>3, PhaseUnchanged
<1>6. Service!Idle
  BY NoCallbackIsIdle DEF IndInv, CallbackHoldsTimer, LockFree
<1>7. t \in Service!Live
  BY <1>1, LiveIsCached
<1>8. Service!Move(t, "gone")
  BY <1>2, <1>4, <1>5 DEF Service!Move
<1>9. Service!Remove(t)
  BY <1>6, <1>7, <1>8 DEF Service!Remove
<1> QED
  BY <1>2, <1>9

\* Only made and Held decide, when nothing else of a timer changes.
LEMMA PhasesUnchanged ==
    ASSUME UNCHANGED <<cached, actionStatus, running>>,
           \A t \in Timer : t \in (made \ Held)' <=> t \in made \ Held
    PROVE  \A t \in Timer : PhaseOf(t)' = PhaseOf(t)
  BY PhaseUnchanged

LEMMA restartTimerPostpones ==
    ASSUME IndInv, NEW c \in Client, NEW i, restartTimer(c, i)
    PROVE  \E t \in Timer : Service!Postpone(t)
<1> USE DEF restartTimer, threadVars
<1>1. PICK t \in cached : key' = [key EXCEPT ![t] = now + Duration[t]]
  BY DEF CachedUnder
<1>2. t \in Timer /\ now \in 0 .. MaxTime /\ startTimestamp[t] \in 0 .. now
  BY DEF IndInv, TypeOK
<1>3. key[t] = startTimestamp[t] + Duration[t]
  BY DEF IndInv, KeysInStep, getExpirationTimestamp
<1>4. Duration[t] \in Nat
  BY <1>2, DurationType
<1>5. key'[t] = now + Duration[t] /\ key' = [key EXCEPT ![t] = key'[t]]
  BY <1>1, <1>2 DEF IndInv, TypeOK
<1>6. key'[t] >= key[t]
  BY <1>2, <1>3, <1>4, <1>5, MaxTimeType
<1>7. \A u \in Timer : PhaseOf(u)' = PhaseOf(u)
  BY HeldUnchanged, PhasesUnchanged
<1>8. Service!Idle
  BY NoCallbackIsIdle DEF IndInv, CallbackHoldsTimer, LockFree
<1>9. t \in Service!Live
  BY <1>1, LiveIsCached
<1>10. Service!Postpone(t)
  BY <1>5, <1>6, <1>7, <1>8, <1>9 DEF Service!Postpone
<1> QED
  BY <1>2, <1>10

LEMMA StartCallbackFires ==
    ASSUME IndInv, NEW t \in Timer, StartCallback(t)
    PROVE  Service!Fire(t)
<1> USE DEF StartCallback
<1>1. t \in cached /\ actionStatus[t] = "Waiting" /\ startTimestamp[t] + Duration[t] < timePoint
  BY DEF Expired, getExpirationTimestamp
<1>2. key[t] = startTimestamp[t] + Duration[t] /\ key[t] \in Nat
  BY <1>1 DEF IndInv, TypeOK, KeysInStep, getExpirationTimestamp
<1>3. timePoint \in 0 .. now /\ now \in 0 .. MaxTime
  BY DEF IndInv, TypeOK
<1>4. key[t] < now
  BY <1>1, <1>2, <1>3, MaxTimeType
<1>5. PhaseOf(t) = "pending"
  BY <1>1 DEF PhaseOf
<1>6. PhaseOf(t)' = "firing"
  BY <1>1 DEF PhaseOf, IndInv, TypeOK
<1>7. \A u \in Timer \ {t} : PhaseOf(u)' = PhaseOf(u)
  BY HeldUnchanged, PhaseUnchanged, NoTimerAssumption DEF IndInv, TypeOK
<1>8. Service!Move(t, "firing")
  BY <1>6, <1>7 DEF Service!Move
<1>9. Service!Idle
  BY NoCallbackIsIdle
<1> QED
  BY <1>4, <1>5, <1>8, <1>9 DEF Service!Fire

LEMMA CallbackReturnsFinishes ==
    ASSUME IndInv, CallbackReturns
    PROVE  \E t \in Timer : Service!Finish(t)
<1> USE DEF CallbackReturns
<1> DEFINE t == running
<1>1. t \in cached /\ t \in Timer /\ actionStatus[t] = "Running"
  BY DEF IndInv, TypeOK, CallbackHoldsTimer
<1>2. PhaseOf(t) = "firing"
  BY <1>1 DEF PhaseOf
<1>3. \A u \in Timer : PhaseOf(u)' = IF u = t THEN "done" ELSE PhaseOf(u)
  <2>1. ASSUME NEW u \in Timer, u = t PROVE PhaseOf(u)' = "done"
    BY <1>1, <2>1 DEF PhaseOf, IndInv, TypeOK
  <2>2. ASSUME NEW u \in Timer, u # t PROVE PhaseOf(u)' = PhaseOf(u)
    BY <1>1, <2>2, HeldUnchanged, PhaseUnchanged, NoTimerAssumption DEF IndInv, TypeOK
  <2> QED
    BY <2>1, <2>2
<1>4. Service!Move(t, "done")
  BY <1>1, <1>3 DEF Service!Move
<1>5. Service!Finish(t)
  BY <1>2, <1>1, <1>4 DEF Service!Finish
<1> QED
  BY <1>1, <1>5

LEMMA CallbackThrowsFails ==
    ASSUME IndInv, CallbackThrows
    PROVE  \E t \in Timer : Service!Fail(t)
<1> USE DEF CallbackThrows, timerVars
<1> DEFINE t == running
<1>1. t \in cached /\ t \in Timer /\ actionStatus[t] = "Running"
  BY DEF IndInv, TypeOK, CallbackHoldsTimer
<1>2. PhaseOf(t) = "firing"
  BY <1>1 DEF PhaseOf
<1>3. \A u \in Timer : PhaseOf(u)' = IF u = t THEN "failed" ELSE PhaseOf(u)
  <2>1. ASSUME NEW u \in Timer, u = t PROVE PhaseOf(u)' = "failed"
    BY <1>1, <2>1, NoTimerAssumption DEF PhaseOf
  <2>2. ASSUME NEW u \in Timer, u # t PROVE PhaseOf(u)' = PhaseOf(u)
    BY <1>1, <2>2, HeldUnchanged, PhaseUnchanged, NoTimerAssumption
  <2> QED
    BY <2>1, <2>2
<1>4. Service!Move(t, "failed")
  BY <1>1, <1>3 DEF Service!Move
<1>5. Service!Fail(t)
  BY <1>2, <1>1, <1>4 DEF Service!Fail
<1> QED
  BY <1>1, <1>5

LEMMA restartRepeatableTimersRearms ==
    ASSUME IndInv, restartRepeatableTimers
    PROVE  Service!Rearm
<1> USE DEF restartRepeatableTimers
<1> DEFINE phase == [t \in Timer |-> PhaseOf(t)]
           S == {t \in Repeatable : phase[t] = "done"}
<1>1. Service!Idle
  BY NoCallbackIsIdle DEF IndInv, CallbackHoldsTimer
<1>2. S = EndedTimers \cap Repeatable
  <2>1. \A t \in Repeatable : phase[t] = PhaseOf(t)
    BY RepeatableType
  <2>2. \A t \in Repeatable : PhaseOf(t) = "done" <=> t \in cached /\ actionStatus[t] = "Ended"
    BY RepeatableType, PhaseMeaning DEF IndInv
  <2> QED
    BY <2>1, <2>2 DEF EndedTimers
<1>3. \A t \in Timer : PhaseOf(t)' = IF t \in S THEN "pending" ELSE phase[t]
  <2>1. ASSUME NEW t \in Timer, t \in S PROVE PhaseOf(t)' = "pending"
    BY <1>2, <2>1 DEF PhaseOf, EndedTimers
  <2>2. ASSUME NEW t \in Timer, t \notin S PROVE PhaseOf(t)' = PhaseOf(t)
    BY <1>2, <2>2, HeldUnchanged, PhaseUnchanged
  <2> QED
    BY <2>1, <2>2
<1>4. \A t \in S : key'[t] >= key[t]
  <2> TAKE t \in S
  <2>1. t \in Timer /\ t \in cached
    BY <1>2, RepeatableType DEF EndedTimers
  <2>2. now \in 0 .. MaxTime /\ startTimestamp[t] \in 0 .. now /\ Duration[t] \in Nat
    BY <2>1, DurationType DEF IndInv, TypeOK
  <2>3. key[t] = startTimestamp[t] + Duration[t]
    BY <2>1 DEF IndInv, KeysInStep, getExpirationTimestamp
  <2>4. key'[t] = now + Duration[t]
    BY <1>2, <2>1
  <2> QED
    BY <2>2, <2>3, <2>4, MaxTimeType
<1>5. key' = [t \in Timer |-> IF t \in S THEN key'[t] ELSE key[t]]
  BY <1>2
<1>6. phase' = [t \in Timer |-> IF t \in S THEN "pending" ELSE phase[t]]
  BY <1>3
<1> QED
  BY <1>1, <1>4, <1>5, <1>6 DEF Service!Rearm

LEMMA removeEndedTimersCollects ==
    ASSUME IndInv, removeEndedTimers
    PROVE  Service!Collect
<1> USE DEF removeEndedTimers
<1>1. Service!Idle
  BY NoCallbackIsIdle DEF IndInv, CallbackHoldsTimer
<1>2. \A t \in Timer : PhaseOf(t)' = IF t \notin Repeatable /\ PhaseOf(t) = "done"
                                        THEN "gone" ELSE PhaseOf(t)
  <2> TAKE t \in Timer
  <2>1. PhaseOf(t) = "done" <=> t \in EndedTimers
    BY PhaseMeaning DEF IndInv, EndedTimers
  <2>2. CASE t \in EndedTimers \ Repeatable
    <3>1. t \notin cached' /\ t \in made \ Held
      BY <2>2, HeldMeaning DEF EndedTimers, IndInv, TypeOK
    <3> QED
      BY <2>1, <2>2, <3>1, HeldUnchanged DEF PhaseOf
  <2>3. CASE t \notin EndedTimers \ Repeatable
    <3>1. PhaseOf(t)' = PhaseOf(t)
      BY <2>3, HeldUnchanged, PhaseUnchanged
    <3> QED
      BY <2>1, <2>3, <3>1
  <2> QED
    BY <2>2, <2>3
<1> QED
  BY <1>1, <1>2 DEF Service!Collect

\* The steps of which the service shows nothing: a client builds a timer,
\* notifies or registers none, the thread computes, waits, wakes and passes on.
LEMMA InternalSteps ==
    ASSUME IndInv,
           UNCHANGED <<now, cached, key, timerID, actionStatus, running>>,
           \A t \in Timer : t \in (made \ Held)' <=> t \in made \ Held
    PROVE  UNCHANGED Service!vars
  BY PhasesUnchanged DEF Service!vars

LEMMA MakeTimerInternal ==
    ASSUME IndInv, NEW c \in Client, NEW t \in Timer, MakeTimer(c, t)
    PROVE  UNCHANGED Service!vars
<1> USE DEF MakeTimer, Construct, Goto, threadVars
<1>1. /\ pc'[c] = "register" /\ arg'[c] = t /\ pc[c] = "idle"
      /\ \A d \in Client : d # c => pc'[d] = pc[d] /\ arg'[d] = arg[d]
  BY DEF IndInv, TypeOK
<1>2. Held' = Held \cup {t}
  BY <1>1 DEF Held
<1>3. \A u \in Timer : u \in (made \ Held)' <=> u \in made \ Held
  BY <1>2
<1> QED
  BY <1>3, InternalSteps

LEMMA ClientInternal ==
    ASSUME IndInv, NEW c \in Client, registerNullTimer(c) \/ notifyOne(c)
    PROVE  UNCHANGED Service!vars
<1> USE DEF registerNullTimer, notifyOne, Goto, threadVars, timerVars
<1>1. /\ pc'[c] # "register" /\ pc[c] # "register"
      /\ \A d \in Client : d # c => pc'[d] = pc[d] /\ arg'[d] = arg[d]
  BY DEF IndInv, TypeOK
<1>2. Held' = Held
  BY <1>1 DEF Held
<1> QED
  BY <1>2, InternalSteps

LEMMA ThreadInternal ==
    ASSUME IndInv,
           \/ nextExpirationTimestamp \/ waitForNextExpiration \/ waitForInvoke
           \/ Awake \/ ReadClock \/ BeginTrigger \/ EndTrigger \/ UNCHANGED vars
    PROVE  UNCHANGED Service!vars
<1>1. UNCHANGED <<now, timerVars, running, clientVars>>
  BY DEF nextExpirationTimestamp, waitForNextExpiration, waitForInvoke, Wait, Awake,
         ReadClock, BeginTrigger, EndTrigger, vars, threadVars
<1>2. Held' = Held
  BY <1>1, HeldUnchanged
<1> QED
  BY <1>1, <1>2, InternalSteps DEF timerVars

LEMMA TickTicks ==
    ASSUME IndInv, Tick
    PROVE  Service!Tick
<1> USE DEF Tick, timerVars, threadVars
<1>1. \A t \in Timer : PhaseOf(t)' = PhaseOf(t)
  BY HeldUnchanged, PhasesUnchanged
<1> QED
  BY <1>1 DEF Service!Tick

\* Every step of the cache is a step of the service or changes nothing it sees.
LEMMA StepRefines ==
    ASSUME IndInv, [Next]_vars
    PROVE  [Service!Next]_(Service!vars)
<1>1. CASE \E c \in Client : ClientStep(c)
  <2>1. PICK c \in Client : ClientStep(c)
    BY <1>1
  <2>2. CASE internalRegisterTimer(c)
    <3>1. arg[c] \in Timer
      BY <2>2 DEF internalRegisterTimer, IndInv, HeldByOneClient, TypeOK
    <3> QED
      BY <2>2, <3>1, internalRegisterTimerRegisters DEF Service!Next
  <2>3. CASE \E i \in IdsGiven : internalRemoveTimer(c, i)
    BY <2>3, internalRemoveTimerRemoves DEF Service!Next
  <2>4. CASE \E i \in IdsGiven : restartTimer(c, i)
    BY <2>4, restartTimerPostpones DEF Service!Next
  <2>5. CASE (\E t \in Timer : MakeTimer(c, t)) \/ registerNullTimer(c) \/ notifyOne(c)
    BY <2>5, MakeTimerInternal, ClientInternal
  <2> QED
    BY <2>1, <2>2, <2>3, <2>4, <2>5 DEF ClientStep
<1>2. CASE \E t \in Timer : StartCallback(t)
  BY <1>2, StartCallbackFires DEF Service!Next
<1>3. CASE CallbackReturns \/ CallbackThrows
  BY <1>3, CallbackReturnsFinishes, CallbackThrowsFails DEF Service!Next
<1>4. CASE restartRepeatableTimers \/ removeEndedTimers
  BY <1>4, restartRepeatableTimersRearms, removeEndedTimersCollects DEF Service!Next
<1>5. CASE \E t \in Timer : registerTimerNoLock(t)
  BY <1>5, registerTimerNoLockRegisters DEF Service!Next
<1>6. CASE Tick
  BY <1>6, TickTicks DEF Service!Next
<1>7. CASE \/ nextExpirationTimestamp \/ waitForNextExpiration \/ waitForInvoke
           \/ Awake \/ ReadClock \/ BeginTrigger \/ EndTrigger \/ UNCHANGED vars
  BY <1>7, ThreadInternal
<1> QED
  BY <1>1, <1>2, <1>3, <1>4, <1>5, <1>6, <1>7
     DEF Next, TimersThread, WakeUp, SpuriousWakeUp

\* An empty cache is an idle service.
LEMMA InitRefines == Init => Service!Init
<1> SUFFICES ASSUME Init PROVE Service!Init
  OBVIOUS
<1>1. \A t \in Timer : PhaseOf(t) = "new"
  BY DEF Init, PhaseOf
<1> QED
  BY <1>1 DEF Init, Service!Init

\* The cache and its thread implement TimerService, whatever the timers, the
\* clients and the durations: a callback starts only for a due timer that is in
\* the cache, one at a time, never after its removal and once for a one-shot
\* timer, and a timer is removed or restarted only while no callback runs.
THEOREM CacheImplementsService == Spec => ImplementsTimerService
<1>1. IndInv /\ [Next]_vars => [Service!Next]_(Service!vars)
  BY StepRefines
<1> QED
  BY <1>1, InitRefines, Inductive, PTL DEF Spec, ImplementsTimerService, Service!Spec
============================================================================
