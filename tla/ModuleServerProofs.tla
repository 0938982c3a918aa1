------------------------ MODULE ModuleServerProofs ------------------------
(***************************************************************************)
(* Proofs about ModuleServer, for all sets of codes and handlers and all   *)
(* bounds.                                                                 *)
(***************************************************************************)
EXTENDS ModuleServer, EventsCacheProofs

----------------------------------------------------------------------------
(* The invariants.                                                         *)

\* TypeOK without the flags and the handlers.
DataOK ==
    /\ messageQueue \in Seq(Message) /\ popped \in Nat
    /\ transactionAndTimerID \in [Code -> 0 .. MaxTimers]
    /\ phase \in [Timer -> Timers!Phase]
    /\ id \in [Timer -> 0 .. MaxTimers]
    /\ parked \in [Timer -> Message \cup {NoMessage}]
    /\ outstanding \in Seq(Nat)
    /\ transmitted \in SUBSET Message
    /\ pc \in [Thread -> Pc]
    /\ ref \in [Thread -> Nat]
    /\ message \in [Thread -> Message \cup {NoMessage}]
    /\ timerId \in [Thread -> 0 .. MaxTimers]
    /\ requests \in 0 .. MaxRequests /\ received \in 0 .. MaxReceived
    /\ accepted \in SUBSET Message /\ acknowledged \in SUBSET Message
    /\ abandoned \in SUBSET Message /\ strayed \in SUBSET Message

FlagsOK == {reading, sendFailed, misPopped, broken} \subseteq BOOLEAN

\* A thread that deals with a transaction holds its code, and every registered
\* timer holds a message.
CodesHeld ==
    /\ \A th \in Thread : pc[th] \in {"register", "emplace", "post", "remove", "erase",
                                      "resend"} => message[th] \in Message
    /\ \A t \in Timer : phase[t] # "new" => parked[t] \in Message

\* The resend callback runs while its timer fires; it cannot get past
\* registerTimer, which waits for the lock its own timers thread holds.
CallbackHoldsLock ==
    /\ pc[Callback] \in {"idle", "resend", "size", "front", "register"}
    /\ pc[Callback] # "idle" => Firing # {}

----------------------------------------------------------------------------
(* Who serves the queue.                                                   *)

\* A thread other than th sends, or a send is in progress.
OthersSend(th) ==
    outstanding # <<>> \/ \E u \in Thread \ {th} : pc[u] \in InSend \cup {"empty"}

\* A thread that has pushed a message behind another finds somebody sending.
PushedBehindSender ==
    \A th \in Thread : pc[th] = "size" /\ Len(messageQueue) > 1 /\ ~sendFailed /\ ~broken =>
        OthersSend(th)

\* No two threads are between push() and size() at once.
OneAtSize == \A th, u \in Thread : pc[th] = "size" /\ pc[u] = "size" => th = u

\* Only the user's thread calls sendRequest.
OneCaller == ~Expiring /\ Validating = {}

----------------------------------------------------------------------------
(* Where an accepted message is.                                           *)

\* Every reference into the queue, and every send in progress, is to a place
\* that was filled, and a reference to a message in the queue is to its code.
PlacesMeanCodes ==
    /\ \A i \in DOMAIN outstanding : outstanding[i] <= popped + Len(messageQueue)
    /\ \A th \in Thread : pc[th] \in {"register", "emplace", "post"} =>
          /\ ref[th] <= popped + Len(messageQueue)
          /\ ref[th] > popped => messageQueue[ref[th] - popped] = message[th]

\* The message at place p has its resend timer: it is on its way.
Sent(p) ==
    \/ \E i \in DOMAIN outstanding : outstanding[i] = p
    \/ \E th \in Thread : pc[th] \in {"emplace", "post"} /\ ref[th] = p

\* Message c is in the queue and not sent yet.
Waiting(c) ==
    \E i \in DOMAIN messageQueue : messageQueue[i] = c /\ ~Sent(popped + i)

\* Somebody still deals with message c, or nobody has to any more.
Kept(c) ==
    \/ c \in acknowledged \cup abandoned \cup strayed
    \/ pc[Callback] # "idle" /\ message[Callback] = c
    \/ \E t \in Timer : phase[t] = "pending" /\ parked[t] = c
    \/ Waiting(c)

AcceptedKept == misPopped \/ \A c \in accepted : Kept(c)

\* What the callback has queued again stays until it leaves; once size() has
\* told it that it is alone, its message is at the front.
CallbackQueued ==
    \/ misPopped
    \/ /\ pc[Callback] = "size" => Waiting(message[Callback])
       /\ pc[Callback] \in {"front", "register"} =>
             /\ 1 \in DOMAIN messageQueue
             /\ messageQueue[1] = message[Callback]
             /\ ~Sent(popped + 1)

\* handleResponse stops the timer of a message that was answered.
RemovesAnswered == pc[Io] \in {"remove", "erase"} => message[Io] \in acknowledged

----------------------------------------------------------------------------
(* The timers before the first of them expires.                            *)

\* No callback runs, and the timers of the cache have identifiers of their own.
NoneExpired ==
    /\ pc[Callback] = "idle"
    /\ \A t \in Timer : phase[t] \in {"new", "pending", "gone"}
    /\ \A t \in Timers!Live : id[t] # 0
    /\ \A t, u \in Timers!Live : id[t] = id[u] => t = u

\* The entry that handleResponse found is still there when it removes the timer
\* and erases the entry.
EntryStays ==
    pc[Io] \in {"remove", "erase"} =>
        timerId[Io] # 0 /\ transactionAndTimerID[message[Io].code] = timerId[Io]

\* A thread between registerTimer and emplace holds the identifier of a timer of
\* the cache that has its message and that no entry names yet; the entry that is
\* just erased may still hold the same number.
HoldsOwnTimer ==
    \A th \in Thread : pc[th] = "emplace" =>
        /\ \E t \in Timers!Live : id[t] = timerId[th] /\ parked[t] = message[th]
        /\ \A c \in Code : transactionAndTimerID[c] = timerId[th] =>
                               pc[Io] = "erase" /\ message[Io].code = c
        /\ \A u \in Thread : u # th /\ pc[u] = "emplace" => timerId[u] # timerId[th]

\* EntriesNameLiveTimers, also when the run has ended.
EntryNamesTimer ==
    \A c \in Code :
        \/ transactionAndTimerID[c] = 0
        \/ \E t \in Timers!Live : id[t] = transactionAndTimerID[c] /\ Holds(t, c)
        \/ pc[Io] = "erase" /\ message[Io].code = c

EntriesInv == NoneExpired /\ EntryStays /\ HoldsOwnTimer /\ EntryNamesTimer

----------------------------------------------------------------------------
(* Type correctness.                                                       *)

\* The type invariant in the three parts that are proved separately.
LEMMA TypeParts == TypeOK <=> DataOK /\ FlagsOK /\ EventsTypeOK
  BY DEF TypeOK, DataOK, FlagsOK

\* The identifier of a new timer: some timer is not in the cache, so that not
\* every number is taken.
LEMMA FreshIdMeaning ==
    ASSUME phase \in [Timer -> Timers!Phase], id \in [Timer -> 0 .. MaxTimers],
           NEW t \in Timer, phase[t] = "new"
    PROVE  /\ FreshId \in Timer
           /\ FreshId \in 0 .. MaxTimers /\ FreshId # 0
           /\ \A u \in Timers!Live : id[u] # FreshId
<1> DEFINE Free == {i \in Timer : \A u \in Timers!Live : id[u] # i}
           f == [i \in Timer |-> CHOOSE u \in Timers!Live : id[u] = i]
<1>1. MaxTimers \in Nat /\ Timer \in SUBSET Nat
  BY BoundsType DEF Timer
<1>2. IsFiniteSet(Timer)
  BY <1>1, FS_Interval DEF Timer
<1>3. Timers!Live \subseteq Timer /\ t \notin Timers!Live
  BY DEF Timers!Live
<1>4. /\ IsFiniteSet(Timers!Live)
      /\ Cardinality(Timers!Live) \in Nat /\ Cardinality(Timer) \in Nat
      /\ Cardinality(Timers!Live) < Cardinality(Timer)
  <2>1. IsFiniteSet(Timers!Live) /\ Cardinality(Timers!Live) <= Cardinality(Timer)
        /\ (Cardinality(Timers!Live) = Cardinality(Timer) => Timers!Live = Timer)
    BY <1>2, <1>3, FS_Subset
  <2>2. Cardinality(Timers!Live) \in Nat /\ Cardinality(Timer) \in Nat
    BY <1>2, <2>1, FS_CardinalityType
  <2> QED
    BY <1>3, <2>1, <2>2
<1>5. Free # {}
  <2> SUFFICES ASSUME \A i \in Timer : \E u \in Timers!Live : id[u] = i
               PROVE  FALSE
    OBVIOUS
  <2>1. \A i \in Timer : f[i] \in Timers!Live /\ id[f[i]] = i
    OBVIOUS
  <2>2. f \in [Timer -> Timers!Live]
    BY <2>1
  <2> HIDE DEF f
  <2>3. \E x, y \in Timer : x # y /\ f[x] = f[y]
    BY <1>2, <1>4, <2>2, FS_PigeonHole
  <2> QED
    BY <2>1, <2>3
<1>6. PICK m \in Free : \A y \in Free : m <= y
  <2>1. Free \in SUBSET Nat
    BY <1>1
  <2> HIDE DEF Free
  <2> QED
    BY <1>5, <2>1, LeastNumber
<1>7. FreshId \in Free
  <2>1. FreshId = Min(Free)
    BY DEF FreshId
  <2> HIDE DEF Free
  <2> QED
    BY <1>6, <2>1 DEF Min
<1> QED
  BY <1>1, <1>7 DEF Timer

\* The server starts well typed, with nobody in its code.
LEMMA InitType == Init => DataOK /\ FlagsOK /\ CodesHeld
<1> SUFFICES ASSUME Init PROVE DataOK /\ FlagsOK /\ CodesHeld
  OBVIOUS
<1> USE DEF Init
<1>1. 0 \in 0 .. MaxTimers /\ 0 \in 0 .. MaxRequests /\ 0 \in 0 .. MaxReceived
  BY BoundsType
<1>2. DataOK
  BY <1>1 DEF DataOK, Timers!Init, Timers!Phase, Pc
<1>3. FlagsOK
  BY DEF FlagsOK
<1>4. CodesHeld
  BY DEF CodesHeld, Timers!Init
<1> QED
  BY <1>2, <1>3, <1>4

\* A message has a code, and a call of sendRequest makes a message.
LEMMA MessageCode == \A m \in Message : m.code \in Code
  BY DEF Message

LEMMA NewMessage ==
    ASSUME requests \in 0 .. MaxRequests, NEW th \in Thread, NEW c \in Code,
           sendRequest(th, c)
    PROVE  \E m \in Message : push(m) /\ accepted' = accepted \cup {m}
<1> DEFINE m == [call |-> requests + 1, code |-> c]
<1>1. requests + 1 \in 1 .. MaxRequests
  BY BoundsType DEF sendRequest
<1>2. m \in Message
  BY <1>1 DEF Message
<1>3. push(m) /\ accepted' = accepted \cup {m}
  BY DEF sendRequest
<1> QED
  BY <1>2, <1>3

\* The calls of sendRequest and of the callback.
LEMMA SendRequestType ==
    ASSUME DataOK, CodesHeld, NEW th \in Thread, NEW c \in Code, sendRequest(th, c)
    PROVE  DataOK' /\ CodesHeld'
<1> USE DEF sendRequest, push, Goto, timerVars, netVars, localVars, resultVars
<1>1. requests' \in 0 .. MaxRequests
  BY BoundsType DEF DataOK
<1>2. messageQueue' \in Seq(Message) /\ accepted' \in SUBSET Message
  <2>1. PICK m \in Message : push(m) /\ accepted' = accepted \cup {m}
    BY NewMessage DEF DataOK
  <2> QED
    BY <2>1 DEF DataOK
<1>3. DataOK'
  BY <1>1, <1>2 DEF DataOK, Pc
<1>4. CodesHeld'
  BY DEF DataOK, CodesHeld, Thread
<1> QED
  BY <1>3, <1>4

\* A thread leaves the server's code.
LEMMA LeaveType ==
    ASSUME DataOK, NEW th \in Thread, Leave(th)
    PROVE  /\ pc' = [pc EXCEPT ![th] = "idle"] /\ pc' \in [Thread -> Pc]
           /\ ref' \in [Thread -> Nat]
           /\ message' = [message EXCEPT ![th] = NoMessage]
           /\ message' \in [Thread -> Message \cup {NoMessage}]
           /\ timerId' = [timerId EXCEPT ![th] = 0]
           /\ timerId' \in [Thread -> 0 .. MaxTimers]
           /\ phase' \in [Timer -> Timers!Phase]
           /\ \A t \in Timer : phase[t] # "firing" => phase'[t] = phase[t]
           /\ \A t \in Timer : phase[t] = "firing" => phase'[t] \in {"firing", "done"}
           /\ th # Callback => phase' = phase
<1> USE DEF Leave, Goto, Set, DataOK
<1>1. pc' \in [Thread -> Pc]
  BY DEF Pc
<1>2. ref' \in [Thread -> Nat] /\ message' \in [Thread -> Message \cup {NoMessage}]
  OBVIOUS
<1>3. timerId' \in [Thread -> 0 .. MaxTimers]
  BY BoundsType
<1>4. phase' \in [Timer -> Timers!Phase]
  BY DEF Timers!Phase
<1>5. /\ \A t \in Timer : phase[t] # "firing" => phase'[t] = phase[t]
      /\ \A t \in Timer : phase[t] = "firing" => phase'[t] \in {"firing", "done"}
  BY DEF Firing
<1>6. th # Callback => phase' = phase
  OBVIOUS
<1> QED
  BY <1>1, <1>2, <1>3, <1>4, <1>5, <1>6

\* A thread that leaves gives up its code; the timers keep theirs.
LEMMA LeaveKeepsCodes ==
    ASSUME DataOK, CodesHeld, NEW th \in Thread, Leave(th), parked' = parked
    PROVE  CodesHeld'
<1>1. /\ pc' = [pc EXCEPT ![th] = "idle"] /\ message' = [message EXCEPT ![th] = NoMessage]
      /\ \A t \in Timer : phase'[t] # "new" => phase[t] # "new"
  BY LeaveType
<1>2. pc \in [Thread -> Pc] /\ message \in [Thread -> Message \cup {NoMessage}]
  BY DEF DataOK
<1>3. ASSUME NEW u \in Thread
      PROVE  \/ pc'[u] = "idle"
             \/ pc'[u] = pc[u] /\ message'[u] = message[u]
  BY <1>1, <1>2
<1> QED
  BY <1>1, <1>3 DEF CodesHeld

\* Every step of a thread inside sendRequest or processMessageSend.
LEMMA SendingType ==
    ASSUME DataOK, CodesHeld, NEW th \in Thread, Sending(th)
    PROVE  DataOK' /\ CodesHeld'
<1> USE DEF queueVars, timerVars, netVars, localVars, askedVars, resultVars, At, Goto, Set
<1>1. CASE size(th)
  <2>1. DataOK'
    <3>1. CASE Leave(th)
      BY <1>1, <3>1, LeaveType DEF size, DataOK
    <3>2. CASE ~Leave(th)
      BY <1>1, <3>2 DEF size, DataOK, Pc, InSend
    <3> QED
      BY <3>1, <3>2
  <2>2. CodesHeld'
    <3>1. parked' = parked
      BY <1>1 DEF size
    <3>2. CASE Leave(th)
      BY <3>1, <3>2, LeaveKeepsCodes
    <3>3. CASE ~Leave(th)
      BY <1>1, <3>3 DEF size, DataOK, CodesHeld
    <3> QED
      BY <3>2, <3>3
  <2> QED
    BY <2>1, <2>2
<1>2. CASE front(th)
  <2>1. CASE Undefined
    BY <2>1 DEF Undefined, soundVars, DataOK, CodesHeld
  <2>2. CASE ~Undefined
    <3>1. Head(messageQueue) \in Message /\ messageQueue # <<>>
      BY <1>2, <2>2 DEF front, DataOK
    <3>2. DataOK'
      <4>1. FrontPlace \in Nat
        BY DEF DataOK, FrontPlace
      <4>2. ref' \in [Thread -> Nat] /\ message' \in [Thread -> Message \cup {NoMessage}]
        BY <1>2, <2>2, <3>1, <4>1 DEF front, DataOK
      <4>3. pc' \in [Thread -> Pc]
        BY <1>2, <2>2 DEF front, DataOK, Pc, InSend
      <4> QED
        BY <1>2, <2>2, <4>2, <4>3 DEF front, DataOK
    <3>3. CodesHeld'
      BY <1>2, <2>2, <3>1 DEF front, DataOK, CodesHeld, Thread
    <3> QED
      BY <3>2, <3>3
  <2> QED
    BY <2>1, <2>2
<1>3. CASE registerTimer(th)
  <2>1. PICK t \in Timer :
          /\ phase[t] = "new"
          /\ id' = [id EXCEPT ![t] = FreshId]
          /\ phase' = [phase EXCEPT ![t] = "pending"]
          /\ parked' = [parked EXCEPT ![t] = message[th]]
    BY <1>3 DEF registerTimer, ParkedMessage
  <2>2. FreshId \in 0 .. MaxTimers
    BY <2>1, FreshIdMeaning DEF DataOK
  <2>3. message[th] \in Message
    BY <1>3 DEF registerTimer, CodesHeld
  <2>4. DataOK'
    BY <1>3, <2>1, <2>2, <2>3 DEF registerTimer, DataOK, Pc, InSend, Timers!Phase
  <2>5. CodesHeld'
    BY <1>3, <2>1, <2>3 DEF registerTimer, DataOK, CodesHeld, Thread
  <2> QED
    BY <2>4, <2>5
<1>4. CASE emplace(th)
  <2>1. DataOK'
    BY <1>4 DEF emplace, DataOK, Pc, InSend
  <2>2. CodesHeld'
    BY <1>4 DEF emplace, DataOK, CodesHeld, Thread
  <2> QED
    BY <2>1, <2>2
<1>5. CASE post(th)
  <2>1. CASE Undefined
    BY <2>1 DEF Undefined, soundVars, DataOK, CodesHeld
  <2>2. CASE ~Undefined
    <3>1. message[th] \in Message
      BY <1>5 DEF post, CodesHeld
    <3>2. DataOK'
      <4>1. /\ Leave(th)
            /\ outstanding' = Append(outstanding, ref[th])
            /\ transmitted' = transmitted \cup {message[th]}
        BY <1>5, <2>2 DEF post
      <4>2. ref[th] \in Nat /\ outstanding \in Seq(Nat) /\ transmitted \in SUBSET Message
        BY DEF DataOK
      <4>3. outstanding' \in Seq(Nat) /\ transmitted' \in SUBSET Message
        BY <3>1, <4>1, <4>2
      <4> QED
        BY <1>5, <2>2, <4>1, <4>3, LeaveType DEF post, DataOK
    <3>3. CodesHeld'
      <4>1. Leave(th) /\ parked' = parked
        BY <1>5, <2>2 DEF post
      <4> QED
        BY <4>1, LeaveKeepsCodes
    <3> QED
      BY <3>2, <3>3
  <2> QED
    BY <2>1, <2>2
<1> QED
  BY <1>1, <1>2, <1>3, <1>4, <1>5 DEF Sending

\* The completions and the receptions.
LEMMA CompletionType ==
    ASSUME DataOK, CodesHeld,
           sendSucceeded \/ empty \/ processSendError \/ processHandleReceiveError
    PROVE  DataOK' /\ CodesHeld'
<1> USE DEF queueVars, timerVars, netVars, localVars, askedVars, resultVars, IoFree, At,
            Goto, Thread, Io
<1>1. CASE Undefined
  BY <1>1 DEF Undefined, soundVars, DataOK, CodesHeld
<1>2. CASE sendSucceeded /\ ~Undefined
  <2>1. messageQueue # <<>> /\ outstanding # <<>>
    BY <1>2 DEF sendSucceeded
  <2>2. messageQueue' \in Seq(Message) /\ outstanding' \in Seq(Nat) /\ popped' \in Nat
    <3>1. /\ messageQueue' = Tail(messageQueue) /\ popped' = popped + 1
          /\ outstanding' = Tail(outstanding)
      BY <1>2 DEF sendSucceeded
    <3>2. messageQueue \in Seq(Message) /\ popped \in Nat /\ outstanding \in Seq(Nat)
      BY DEF DataOK
    <3> QED
      BY <2>1, <3>1, <3>2, HeadTailProperties
  <2>3. DataOK'
    BY <1>2, <2>2 DEF sendSucceeded, DataOK, Pc
  <2>4. CodesHeld'
    BY <1>2 DEF sendSucceeded, DataOK, CodesHeld
  <2> QED
    BY <2>3, <2>4
<1>3. CASE empty
  <2>1. DataOK'
    BY <1>3 DEF empty, DataOK, Pc, InSend
  <2>2. CodesHeld'
    BY <1>3 DEF empty, DataOK, CodesHeld
  <2> QED
    BY <2>1, <2>2
<1>4. CASE processSendError
  <2>1. outstanding' \in Seq(Nat)
    BY <1>4 DEF processSendError, DataOK
  <2> QED
    BY <1>4, <2>1 DEF processSendError, DataOK, CodesHeld
<1>5. CASE processHandleReceiveError
  BY <1>5 DEF processHandleReceiveError, DataOK, CodesHeld
<1> QED
  BY <1>1, <1>2, <1>3, <1>4, <1>5

\* The three steps of handleResponse.
LEMMA ResponseType ==
    ASSUME DataOK, CodesHeld,
           (\E c \in Message : handleResponse(c)) \/ removeTimer \/ eraseTransaction
    PROVE  DataOK' /\ CodesHeld'
<1> USE DEF queueVars, timerVars, netVars, localVars, askedVars, resultVars, Receives,
            IoFree, At, Goto, Set, Thread, Io
<1>1. CASE Undefined
  BY <1>1 DEF Undefined, soundVars, DataOK, CodesHeld
<1>2. ASSUME NEW c \in Message, handleResponse(c) PROVE DataOK' /\ CodesHeld'
  <2>1. acknowledged' \in SUBSET Message
    <3>1. acknowledged' = acknowledged \cup {c}
      BY <1>2 DEF handleResponse
    <3> QED
      BY <3>1 DEF DataOK
  <2>2. DataOK'
    <3>1. /\ pc \in [Thread -> Pc] /\ message \in [Thread -> Message \cup {NoMessage}]
          /\ timerId \in [Thread -> 0 .. MaxTimers]
          /\ transactionAndTimerID \in [Code -> 0 .. MaxTimers]
      BY DEF DataOK
    <3>2. \/ UNCHANGED <<message, timerId, pc>>
          \/ /\ pc' = [pc EXCEPT ![Io] = "remove"]
             /\ message' = [message EXCEPT ![Io] = c]
             /\ timerId' = [timerId EXCEPT ![Io] = transactionAndTimerID[c.code]]
      BY <1>2 DEF handleResponse
    <3>3. /\ pc' \in [Thread -> Pc] /\ message' \in [Thread -> Message \cup {NoMessage}]
          /\ timerId' \in [Thread -> 0 .. MaxTimers]
      BY <3>1, <3>2, MessageCode DEF Pc
    <3> QED
      BY <1>2, <2>1, <3>3 DEF handleResponse, DataOK
  <2>3. CodesHeld'
    BY <1>2 DEF handleResponse, DataOK, CodesHeld
  <2> QED
    BY <2>2, <2>3
<1>3. CASE removeTimer
  <2>1. DataOK'
    <3>1. strayed' \in SUBSET Message
      <4>1. \A t \in Timers!Live : parked[t] \in Message
        BY DEF CodesHeld, Timers!Live
      <4>2. \A m \in strayed' : m \in strayed \/ \E t \in Timers!Live : m = parked[t]
        BY <1>3 DEF removeTimer
      <4> QED
        BY <4>1, <4>2 DEF DataOK
    <3> QED
      BY <1>3, <3>1 DEF removeTimer, DataOK, Pc, Timers!Phase
  <2>2. CodesHeld'
    BY <1>3 DEF removeTimer, DataOK, CodesHeld, Timers!Live
  <2> QED
    BY <2>1, <2>2
<1>4. CASE eraseTransaction /\ ~Undefined
  <2>1. /\ Leave(Io) /\ parked' = parked
        /\ transactionAndTimerID' = [transactionAndTimerID EXCEPT ![message[Io].code] = 0]
    BY <1>4 DEF eraseTransaction, Erased
  <2>2. transactionAndTimerID' \in [Code -> 0 .. MaxTimers]
    <3>1. 0 \in 0 .. MaxTimers
      BY BoundsType
    <3>2. transactionAndTimerID \in [Code -> 0 .. MaxTimers]
      BY DEF DataOK
    <3> QED
      BY <2>1, <3>1, <3>2
  <2>3. DataOK'
    BY <1>4, <2>1, <2>2, LeaveType DEF eraseTransaction, DataOK
  <2>4. CodesHeld'
    BY <2>1, LeaveKeepsCodes
  <2> QED
    BY <2>3, <2>4
<1> QED
  BY <1>1, <1>2, <1>3, <1>4

\* The requests received and their handlers.
LEMMA HandlingType ==
    ASSUME DataOK, CodesHeld,
           \/ \E s \in Range(Key) : handleRequest(s)
           \/ \E h \in Handler : registerNewEventHandler(h)
           \/ eventAdded
           \/ Handling
    PROVE  DataOK' /\ CodesHeld'
<1> USE DEF queueVars, timerVars, netVars, localVars, askedVars, resultVars, Receives,
            IoFree, At, Goto, serverVars
<1>1. CASE Undefined
  BY <1>1 DEF Undefined, soundVars, DataOK, CodesHeld
<1>2. ASSUME NEW s \in Range(Key), handleRequest(s), ~Undefined PROVE DataOK' /\ CodesHeld'
  <2>1. received' \in 0 .. MaxReceived
    <3>1. received < MaxReceived /\ received' = received + 1
      BY <1>2 DEF handleRequest
    <3> QED
      BY <3>1, BoundsType DEF DataOK
  <2> QED
    BY <1>2, <2>1 DEF handleRequest, DataOK, CodesHeld
<1>3. ASSUME NEW h \in Handler, registerNewEventHandler(h) PROVE DataOK' /\ CodesHeld'
  <2>1. DataOK'
    BY <1>3 DEF registerNewEventHandler, DataOK, Pc, Thread
  <2>2. CodesHeld'
    BY <1>3 DEF registerNewEventHandler, DataOK, CodesHeld, Thread
  <2> QED
    BY <2>1, <2>2
<1>4. CASE eventAdded
  <2>1. DataOK'
    BY <1>4 DEF eventAdded, DataOK, Pc, Thread
  <2>2. CodesHeld'
    BY <1>4 DEF eventAdded, DataOK, CodesHeld, Thread
  <2> QED
    BY <2>1, <2>2
<1>5. CASE (runHandler \/ nextHandler) /\ ~Undefined
  BY <1>5 DEF runHandler, nextHandler, DataOK, CodesHeld
<1>6. ASSUME NEW c \in Code, handlerSendsRequest(c) PROVE DataOK' /\ CodesHeld'
  BY <1>6, SendRequestType DEF handlerSendsRequest, Thread
<1> QED
  BY <1>1, <1>2, <1>3, <1>4, <1>5, <1>6 DEF Handling, generateTransactionCode

\* The resend callback and the timers thread.
LEMMA TimersType ==
    ASSUME DataOK, CodesHeld,
           \/ \E t \in Timer : expire(t)
           \/ \E service \in Lookup : resend(service)
           \/ removeEndedTimers
    PROVE  DataOK' /\ CodesHeld'
<1> USE DEF queueVars, timerVars, netVars, localVars, askedVars, resultVars, At, Goto, Set,
            Thread, Callback
<1>1. ASSUME NEW t \in Timer, expire(t) PROVE DataOK' /\ CodesHeld'
  <2>1. phase' = [phase EXCEPT ![t] = "firing"] /\ phase[t] = "pending" /\ id' = id
    BY <1>1 DEF expire, Timers!Fire, Timers!Move
  <2>2. parked[t] \in Message
    BY <2>1 DEF CodesHeld
  <2>3. transactionAndTimerID' \in [Code -> 0 .. MaxTimers]
    <3>1. transactionAndTimerID' = [transactionAndTimerID EXCEPT ![parked[t].code] = 0]
      BY <1>1 DEF expire, Erased
    <3>2. transactionAndTimerID \in [Code -> 0 .. MaxTimers] /\ 0 \in 0 .. MaxTimers
      BY BoundsType DEF DataOK
    <3> QED
      BY <3>1, <3>2
  <2>4. DataOK'
    BY <1>1, <2>1, <2>2, <2>3 DEF expire, DataOK, Pc, Timers!Phase
  <2>5. CodesHeld'
    BY <1>1, <2>1, <2>2 DEF expire, DataOK, CodesHeld
  <2> QED
    BY <2>4, <2>5
<1>2. ASSUME NEW service \in Lookup, resend(service) PROVE DataOK' /\ CodesHeld'
  <2>1. message[Callback] \in Message
    BY <1>2 DEF resend, CodesHeld
  <2>2. CASE service = "record"
    <3>1. messageQueue' \in Seq(Message)
      <4>1. messageQueue' = Append(messageQueue, message[Callback])
        BY <1>2, <2>2 DEF resend, push
      <4> QED
        BY <2>1, <4>1 DEF DataOK
    <3>2. DataOK'
      BY <1>2, <2>2, <3>1 DEF resend, DataOK, Pc
    <3>3. CodesHeld'
      BY <1>2, <2>2 DEF resend, DataOK, CodesHeld
    <3> QED
      BY <3>2, <3>3
  <2>3. CASE service = "nullopt"
    <3>1. Leave(Callback) /\ abandoned' \in SUBSET Message
      BY <1>2, <2>1, <2>3 DEF resend, DataOK
    <3>2. DataOK'
      BY <1>2, <2>3, <3>1, LeaveType DEF resend, DataOK
    <3>3. CodesHeld'
      <4>1. parked' = parked
        BY <1>2, <2>3 DEF resend
      <4> QED
        BY <3>1, <4>1, LeaveKeepsCodes
    <3> QED
      BY <3>2, <3>3
  <2>4. CASE service = "throw"
    <3>1. abandoned' \in SUBSET Message
      BY <1>2, <2>1, <2>4 DEF resend, DataOK
    <3>2. PICK t \in Timer : /\ phase[t] = "firing"
                             /\ phase' = [phase EXCEPT ![t] = "failed"] /\ id' = id
      BY <1>2, <2>4 DEF resend, Firing, Timers!Fail, Timers!Move
    <3>3. DataOK'
      <4>1. phase' \in [Timer -> Timers!Phase]
        BY <3>2 DEF DataOK, Timers!Phase
      <4>2. pc' \in [Thread -> Pc] /\ message' \in [Thread -> Message \cup {NoMessage}]
        <5>1. /\ pc' = [pc EXCEPT ![Callback] = "idle"]
              /\ message' = [message EXCEPT ![Callback] = NoMessage]
          BY <1>2, <2>4 DEF resend
        <5> QED
          BY <5>1 DEF DataOK, Pc
      <4> QED
        BY <1>2, <2>4, <3>1, <3>2, <4>1, <4>2 DEF resend, DataOK
    <3>4. CodesHeld'
      BY <1>2, <2>4, <3>2 DEF resend, DataOK, CodesHeld
    <3> QED
      BY <3>3, <3>4
  <2> QED
    BY <1>2, <2>2, <2>3, <2>4 DEF resend
<1>3. CASE removeEndedTimers
  <2>1. DataOK'
    BY <1>3 DEF removeEndedTimers, Timers!Collect, DataOK, Timers!Phase
  <2>2. CodesHeld'
    BY <1>3 DEF removeEndedTimers, Timers!Collect, DataOK, CodesHeld
  <2> QED
    BY <2>1, <2>2
<1> QED
  BY <1>1, <1>2, <1>3

\* Every step keeps the types of the data and the codes in hand.
LEMMA NextType == DataOK /\ CodesHeld /\ [Next]_vars => DataOK' /\ CodesHeld'
<1> SUFFICES ASSUME DataOK, CodesHeld, [Next]_vars PROVE DataOK' /\ CodesHeld'
  OBVIOUS
<1>1. CASE UNCHANGED vars
  BY <1>1 DEF vars, soundVars, queueVars, timerVars, netVars, localVars, askedVars,
              resultVars, DataOK, CodesHeld
<1>2. ASSUME NEW c \in Code, managerSendRequest(c) PROVE DataOK' /\ CodesHeld'
  BY <1>2, SendRequestType DEF managerSendRequest, sendSubscribeRequest, Thread
<1> QED
  BY <1>1, <1>2, SendingType, CompletionType, ResponseType, HandlingType, TimersType
     DEF Next, generateTransactionCode

\* What a step does to the flags: it sets them to TRUE or FALSE, or to whether a
\* completion took off what it had not sent.
FlagsStep ==
    /\ reading' = reading \/ reading' = FALSE
    /\ sendFailed' = sendFailed \/ sendFailed' = TRUE
    /\ broken' = broken \/ broken' = TRUE
    /\ \/ misPopped' = misPopped
       \/ misPopped' = (misPopped \/ Head(outstanding) # popped + 1)

\* A step sets a flag to TRUE or FALSE, or leaves it.
LEMMA NextFlagsStep == [Next]_vars => FlagsStep
<1> SUFFICES ASSUME [Next]_vars PROVE FlagsStep
  OBVIOUS
<1> USE DEF FlagsStep, netVars, resultVars, soundVars, Undefined, serverVars
<1>1. CASE UNCHANGED vars
  BY <1>1 DEF vars
<1>2. ASSUME NEW c \in Code, managerSendRequest(c) \/ handlerSendsRequest(c)
      PROVE  FlagsStep
  BY <1>2 DEF managerSendRequest, sendSubscribeRequest, handlerSendsRequest, sendRequest
<1>3. ASSUME NEW th \in Thread, Sending(th)
      PROVE  FlagsStep
  BY <1>3 DEF Sending, size, front, registerTimer, emplace, post
<1>4. CASE sendSucceeded
  BY <1>4, Zenon DEF sendSucceeded
<1>5. CASE empty \/ processSendError \/ processHandleReceiveError
  BY <1>5 DEF empty, processSendError, processHandleReceiveError
<1>6. ASSUME NEW c \in Message, handleResponse(c)
      PROVE  FlagsStep
  BY <1>6 DEF handleResponse
<1>7. CASE removeTimer \/ eraseTransaction
  BY <1>7 DEF removeTimer, eraseTransaction
<1>8. ASSUME NEW s \in Range(Key), handleRequest(s)
      PROVE  FlagsStep
  BY <1>8 DEF handleRequest
<1>9. ASSUME NEW h \in Handler, registerNewEventHandler(h)
      PROVE  FlagsStep
  BY <1>9 DEF registerNewEventHandler
<1>10. CASE eventAdded \/ runHandler \/ nextHandler
  BY <1>10 DEF eventAdded, runHandler, nextHandler
<1>11. ASSUME NEW t \in Timer, expire(t)
       PROVE  FlagsStep
  BY <1>11 DEF expire
<1>12. ASSUME NEW service \in Lookup, resend(service)
       PROVE  FlagsStep
  BY <1>12 DEF resend
<1>13. CASE removeEndedTimers
  BY <1>13 DEF removeEndedTimers
<1> QED
  BY <1>1, <1>2, <1>3, <1>4, <1>5, <1>6, <1>7, <1>8, <1>9, <1>10, <1>11, <1>12, <1>13
     DEF Next, Handling, generateTransactionCode

\* Hence the flags stay Boolean.
LEMMA NextFlags == FlagsOK /\ [Next]_vars => FlagsOK'
<1> SUFFICES ASSUME FlagsOK, [Next]_vars PROVE FlagsOK'
  OBVIOUS
<1>1. FlagsStep
  BY NextFlagsStep
<1>2. /\ reading \in BOOLEAN /\ sendFailed \in BOOLEAN
      /\ misPopped \in BOOLEAN /\ broken \in BOOLEAN
  BY Zenon DEF FlagsOK
<1>3. reading' \in BOOLEAN /\ sendFailed' \in BOOLEAN /\ broken' \in BOOLEAN
  BY <1>1, <1>2, Zenon DEF FlagsStep
<1>4. (misPopped \/ Head(outstanding) # popped + 1) \in BOOLEAN
  BY Zenon
<1>5. misPopped' \in BOOLEAN
  BY <1>1, <1>2, <1>4, Zenon DEF FlagsStep
<1> QED
  BY <1>3, <1>5, Zenon DEF FlagsOK

----------------------------------------------------------------------------
(* The handlers of requests.                                               *)

\* A step of the server is a step of the two threads in the events cache, or
\* leaves it alone.
LEMMA NextEvents == [Next]_vars => [EventsNext]_eventVars
<1> SUFFICES ASSUME [Next]_vars PROVE [EventsNext]_eventVars
  OBVIOUS
<1> USE DEF soundVars, Undefined
<1>1. CASE UNCHANGED vars
  BY <1>1 DEF vars
<1>2. ASSUME NEW c \in Code, managerSendRequest(c)
      PROVE  UNCHANGED eventVars
  BY <1>2 DEF managerSendRequest, sendSubscribeRequest
<1>3. ASSUME NEW th \in Thread, Sending(th)
      PROVE  UNCHANGED eventVars
  BY <1>3 DEF Sending, size, front, registerTimer, emplace, post
<1>4. CASE sendSucceeded \/ empty \/ processSendError \/ processHandleReceiveError
  BY <1>4 DEF sendSucceeded, empty, processSendError, processHandleReceiveError
<1>5. ASSUME NEW c \in Message, handleResponse(c)
      PROVE  UNCHANGED eventVars
  BY <1>5 DEF handleResponse
<1>6. CASE removeTimer \/ eraseTransaction \/ removeEndedTimers
  BY <1>6 DEF removeTimer, eraseTransaction, removeEndedTimers
<1>7. ASSUME NEW s \in Range(Key), handleRequest(s)
      PROVE  UNCHANGED eventVars \/ BeginLoop(s)
  BY <1>7 DEF handleRequest
<1>8. ASSUME NEW h \in Handler, registerNewEventHandler(h)
      PROVE  BeginAddEvent(h)
  BY <1>8 DEF registerNewEventHandler
<1>9. CASE eventAdded
  BY <1>9 DEF eventAdded, EventsNext
<1>10. CASE runHandler \/ nextHandler
  BY <1>10 DEF runHandler, nextHandler, EventsNext
<1>11. ASSUME NEW c \in Code, handlerSendsRequest(c)
       PROVE  Visit(NoHandler)
  BY <1>11 DEF handlerSendsRequest
<1>12. ASSUME NEW t \in Timer, expire(t)
       PROVE  UNCHANGED eventVars
  BY <1>12 DEF expire
<1>13. ASSUME NEW service \in Lookup, resend(service)
       PROVE  UNCHANGED eventVars
  BY <1>13 DEF resend
<1> QED
  BY <1>1, <1>2, <1>3, <1>4, <1>5, <1>6, <1>7, <1>8, <1>9, <1>10, <1>11, <1>12, <1>13
     DEF Next, Handling, generateTransactionCode, EventsNext

\* The loop over the handlers keeps its invariant in the whole server.
LEMMA EventsInductive == Spec => []EventsInv
<1>1. Init => EventsInv
  BY EventsInitInv DEF Init
<1>2. EventsInv /\ [Next]_vars => EventsInv'
  BY NextEvents, EventsNextInv
<1> QED
  BY <1>1, <1>2, PTL DEF Spec

\* In every behaviour of the server, with any handlers: the loop over the
\* handlers of a request runs every handler of the sender that was there when
\* the request came and that accepts it, and none twice, whatever the user's
\* thread and the handlers themselves register meanwhile
\* (runRequestsHandlers).
THEOREM HandlersAlwaysRunOnce == Spec => []HandlersRunOnce
  BY EventsInductive, EventsInvRunOnce, PTL

\* The loop runs handlers of the sender's service only, except for those that
\* were registered for a later service while it ran.
THEOREM HandlersAlwaysRunForOwnService == Spec => []HandlersRunForOwnService
  BY EventsInductive, EventsInvOwnService, PTL

\* Types and codes hold in every behaviour.
LEMMA DataInductive == Spec => [](DataOK /\ FlagsOK /\ CodesHeld)
<1>1. DataOK /\ FlagsOK /\ CodesHeld /\ [Next]_vars
        => (DataOK /\ FlagsOK /\ CodesHeld)'
  BY NextType, NextFlags
<1> QED
  BY <1>1, InitType, PTL DEF Spec

\* The state of the server keeps its type, for all codes, handlers and bounds;
\* with it, a resend always has a message, and registerTimer always finds an
\* identifier among the first MaxTimers.
THEOREM ServerTypeCorrect == Spec => []TypeOK
<1>1. DataOK /\ FlagsOK /\ CodesHeld /\ EventsInv => TypeOK
  BY TypeParts DEF EventsInv
<1> QED
  BY <1>1, DataInductive, EventsInductive, PTL

----------------------------------------------------------------------------
(* The queue is served.                                                    *)

ServedInv == SendingInProgress /\ PushedBehindSender

\* A thread that pushes a message behind another: whoever sent before it does.
LEMMA PushServed ==
    ASSUME DataOK, ServedInv, OneAtSize', NEW th \in Thread, NEW c,
           pc[th] \in {"idle", "resend"}, push(c), Goto(th, "size"),
           UNCHANGED <<outstanding, sendFailed, broken>>
    PROVE  ServedInv'
<1>1. \A u \in Thread : pc'[u] = IF u = th THEN "size" ELSE pc[u]
  BY DEF Goto, DataOK
<1>2. SendingInProgress'
  BY <1>1 DEF SendingInProgress
<1>3. Len(messageQueue') > 1 => messageQueue # <<>>
  BY EmptySeq DEF push, DataOK
<1>4. \A u \in Thread : pc'[u] = "size" => u = th
  BY <1>1 DEF OneAtSize
<1>5. PushedBehindSender'
  <2> SUFFICES ASSUME Len(messageQueue') > 1, ~sendFailed, ~broken
               PROVE  OthersSend(th)'
    BY <1>4 DEF PushedBehindSender
  <2>1. \/ outstanding # <<>>
        \/ \E u \in Thread : pc[u] \in InSend \cup {"size", "empty"}
    BY <1>3 DEF ServedInv, SendingInProgress
  <2>2. ASSUME NEW u \in Thread, pc[u] \in InSend \cup {"size", "empty"}
        PROVE  u # th /\ pc'[u] \in InSend \cup {"empty"}
    <3>1. u # th
      BY <2>2 DEF InSend
    <3> QED
      BY <1>1, <1>4, <2>2, <3>1
  <2> QED
    BY <2>1, <2>2 DEF OthersSend
<1> QED
  BY <1>2, <1>5 DEF ServedInv

\* A thread that sends goes on sending, or leaves a send in progress.
LEMMA SendingServed ==
    ASSUME DataOK, ServedInv, NEW th \in Thread, Sending(th)
    PROVE  ServedInv'
<1> USE DEF queueVars, netVars, resultVars, At, Goto
<1>1. CASE Undefined
  BY <1>1 DEF Undefined, ServedInv, SendingInProgress, PushedBehindSender
<1>2. CASE size(th) /\ SendInProgress
  <2>1. \A u \in Thread : pc'[u] = IF u = th THEN "idle" ELSE pc[u]
    BY <1>2 DEF size, Leave, DataOK, SendInProgress
  <2>2. UNCHANGED <<messageQueue, outstanding, sendFailed, broken>>
    BY <1>2 DEF size
  <2>3. ~sendFailed /\ ~broken => OthersSend(th)
    BY <1>2 DEF size, SendInProgress, ServedInv, PushedBehindSender
  <2>4. OthersSend(th) => SendingInProgress'
    BY <2>1, <2>2 DEF OthersSend, SendingInProgress
  <2>5. PushedBehindSender'
    BY <1>2, <2>1, <2>2 DEF size, ServedInv, PushedBehindSender, OthersSend, InSend
  <2> QED
    BY <2>2, <2>3, <2>4, <2>5 DEF ServedInv, SendingInProgress
<1>3. CASE \/ size(th) /\ ~SendInProgress
           \/ front(th) /\ ~Undefined
           \/ registerTimer(th)
           \/ emplace(th)
  <2>1. PICK to \in InSend : \A u \in Thread : pc'[u] = IF u = th THEN to ELSE pc[u]
    BY <1>3 DEF size, front, registerTimer, emplace, DataOK, InSend
  <2>2. UNCHANGED <<messageQueue, outstanding, sendFailed, broken>>
    BY <1>3 DEF size, front, registerTimer, emplace
  <2>3. SendingInProgress'
    BY <2>1 DEF SendingInProgress
  <2>4. PushedBehindSender'
    BY <2>1, <2>2 DEF ServedInv, PushedBehindSender, OthersSend, InSend
  <2> QED
    BY <2>3, <2>4 DEF ServedInv
<1>4. CASE post(th) /\ ~Undefined
  <2>1. outstanding' # <<>>
    <3>1. outstanding' = Append(outstanding, ref[th]) /\ outstanding \in Seq(Nat)
          /\ ref[th] \in Nat
      BY <1>4 DEF post, DataOK
    <3> QED
      BY <3>1, AppendProperties
  <2> QED
    BY <2>1 DEF ServedInv, SendingInProgress, PushedBehindSender, OthersSend
<1> QED
  BY <1>1, <1>2, <1>3, <1>4 DEF Sending

\* The io_context thread pops, looks at the queue and goes on, or gives up.
LEMMA CompletionServed ==
    ASSUME DataOK, ServedInv, sendSucceeded \/ empty \/ processSendError
    PROVE  ServedInv'
<1> USE DEF queueVars, netVars, resultVars, IoFree, At, Goto
<1>1. CASE Undefined
  BY <1>1 DEF Undefined, ServedInv, SendingInProgress, PushedBehindSender
<1>2. CASE sendSucceeded /\ ~Undefined
  <2>1. \A u \in Thread : pc'[u] = IF u = Io THEN "empty" ELSE pc[u]
    BY <1>2 DEF sendSucceeded, DataOK
  <2> QED
    BY <2>1 DEF ServedInv, SendingInProgress, PushedBehindSender, OthersSend, Thread, Io
<1>3. CASE empty
  <2>1. /\ pc[Io] = "empty"
        /\ \A u \in Thread : pc'[u] = IF u = Io THEN IF messageQueue # <<>> THEN "front" ELSE "idle"
                                      ELSE pc[u]
        /\ UNCHANGED <<messageQueue, outstanding, sendFailed, broken>>
    BY <1>3 DEF empty, DataOK, MoreToSend
  <2>2. messageQueue = <<>> => ~(Len(messageQueue) > 1)
    BY EmptySeq
  <2>3. SendingInProgress'
    BY <2>1 DEF SendingInProgress, InSend, Thread, Io
  <2>4. PushedBehindSender'
    BY <2>1, <2>2 DEF ServedInv, PushedBehindSender, OthersSend, InSend
  <2> QED
    BY <2>3, <2>4 DEF ServedInv
<1>4. CASE processSendError
  BY <1>4 DEF processSendError, ServedInv, SendingInProgress, PushedBehindSender
<1> QED
  BY <1>1, <1>2, <1>3, <1>4

\* The other steps are of threads that do not send and do not begin to.
QuietStep ==
    /\ UNCHANGED <<messageQueue, outstanding, sendFailed, broken>>
    /\ \A u \in Thread :
          \/ pc'[u] = pc[u]
          \/ pc[u] \notin InSend \cup {"size", "empty"} /\ pc'[u] # "size"

\* A step that neither queues nor sends cannot leave the queue unserved.
LEMMA QuietServed == ServedInv /\ QuietStep => ServedInv'
<1> SUFFICES ASSUME ServedInv, QuietStep PROVE ServedInv'
  OBVIOUS
<1>1. \A u \in Thread : pc[u] \in InSend \cup {"size", "empty"} => pc'[u] = pc[u]
  BY DEF QuietStep
<1>2. SendingInProgress'
  BY <1>1 DEF ServedInv, SendingInProgress, QuietStep
<1>3. \A th \in Thread : OthersSend(th) => OthersSend(th)'
  BY <1>1 DEF OthersSend, QuietStep
<1>4. \A th \in Thread : pc'[th] = "size" => pc[th] = "size"
  BY DEF QuietStep
<1>5. PushedBehindSender'
  BY <1>3, <1>4 DEF ServedInv, PushedBehindSender, QuietStep
<1> QED
  BY <1>2, <1>5 DEF ServedInv

\* The queue stays served as long as nobody else stands between push() and size().
LEMMA NextServed ==
    ASSUME DataOK, CodesHeld, ServedInv, OneAtSize', [Next]_vars
    PROVE  ServedInv'
<1> USE DEF queueVars, netVars, resultVars, At, Goto
<1>1. CASE Undefined
  BY <1>1 DEF Undefined, ServedInv, SendingInProgress, PushedBehindSender
<1>2. CASE UNCHANGED vars
  BY <1>2, QuietServed DEF vars, soundVars, QuietStep
<1>3. ASSUME NEW c \in Code, managerSendRequest(c) \/ handlerSendsRequest(c)
      PROVE  ServedInv'
  BY <1>3, PushServed
     DEF managerSendRequest, sendSubscribeRequest, handlerSendsRequest, sendRequest, Thread
<1>4. ASSUME NEW c \in Message, handleResponse(c)
      PROVE  ServedInv'
  <2>1. QuietStep
    BY <1>4 DEF handleResponse, Receives, IoFree, QuietStep, DataOK, InSend
  <2> QED
    BY <2>1, QuietServed
<1>5. CASE removeTimer \/ (eraseTransaction /\ ~Undefined)
  <2>1. QuietStep
    BY <1>5 DEF removeTimer, eraseTransaction, Leave, QuietStep, DataOK, InSend
  <2> QED
    BY <2>1, QuietServed
<1>6. CASE processHandleReceiveError \/ removeEndedTimers
  <2>1. QuietStep
    BY <1>6 DEF processHandleReceiveError, removeEndedTimers, QuietStep
  <2> QED
    BY <2>1, QuietServed
<1>7. ASSUME NEW s \in Range(Key), handleRequest(s), ~Undefined
      PROVE  ServedInv'
  <2>1. QuietStep
    BY <1>7 DEF handleRequest, QuietStep
  <2> QED
    BY <2>1, QuietServed
<1>8. ASSUME NEW h \in Handler, registerNewEventHandler(h)
      PROVE  ServedInv'
  <2>1. QuietStep
    BY <1>8 DEF registerNewEventHandler, serverVars, QuietStep, DataOK, InSend
  <2> QED
    BY <2>1, QuietServed
<1>9. CASE eventAdded
  <2>1. QuietStep
    BY <1>9 DEF eventAdded, serverVars, QuietStep, DataOK, InSend
  <2> QED
    BY <2>1, QuietServed
<1>10. CASE (runHandler \/ nextHandler) /\ ~Undefined
  <2>1. QuietStep
    BY <1>10 DEF runHandler, nextHandler, serverVars, QuietStep
  <2> QED
    BY <2>1, QuietServed
<1>11. ASSUME NEW t \in Timer, expire(t)
       PROVE  ServedInv'
  <2>1. QuietStep
    BY <1>11 DEF expire, QuietStep, DataOK, InSend
  <2> QED
    BY <2>1, QuietServed
<1>12. ASSUME NEW service \in Lookup, resend(service)
       PROVE  ServedInv'
  <2>1. CASE service = "record"
    <3>1. message[Callback] \in Message /\ Callback \in Thread
      BY <1>12 DEF resend, CodesHeld, Thread
    <3> QED
      BY <1>12, <2>1, <3>1, PushServed DEF resend
  <2>2. CASE service # "record"
    <3>1. QuietStep
      BY <1>12, <2>2 DEF resend, Leave, QuietStep, DataOK, InSend
    <3> QED
      BY <3>1, QuietServed
  <2> QED
    BY <2>1, <2>2
<1> QED
  BY <1>1, <1>2, <1>3, <1>4, <1>5, <1>6, <1>7, <1>8, <1>9, <1>10, <1>11, <1>12,
     SendingServed, CompletionServed DEF Next, Handling, generateTransactionCode

\* As long as no two threads are between push() and size() at once, messages in
\* the queue are being sent, unless a send has failed: for all threads that call
\* sendRequest, all expirations and all handlers.  Two threads there at once are
\* how the queue stalls (server_stall).
THEOREM QueueServedByOneAtATime == Spec /\ []OneAtSize => []SendingInProgress
<1>1. Init => ServedInv
  <2> SUFFICES ASSUME Init PROVE ServedInv
    OBVIOUS
  <2> QED
    BY DEF Init, ServedInv, SendingInProgress, PushedBehindSender
<1>2. DataOK /\ CodesHeld /\ ServedInv /\ OneAtSize' /\ [Next]_vars => ServedInv'
  BY NextServed
<1>3. ServedInv => SendingInProgress
  BY DEF ServedInv
<1> QED
  BY <1>1, <1>2, <1>3, DataInductive, PTL DEF Spec

\* Neither the callback nor a handler calls sendRequest.
NobodyElseCalls == pc[Callback] = "idle" /\ pc[Io] # "size"

\* With one thread that sends, nobody else ever does.
LEMMA NextOneCaller ==
    ASSUME OneCaller, DataOK, NobodyElseCalls, [Next]_vars
    PROVE  NobodyElseCalls'
<1> USE DEF NobodyElseCalls, At, Goto, Thread, User, Io, Callback
<1>1. CASE UNCHANGED vars \/ Undefined
  BY <1>1 DEF vars, soundVars, Undefined
<1>2. ASSUME NEW c \in Code, managerSendRequest(c)
      PROVE  NobodyElseCalls'
  BY <1>2 DEF managerSendRequest, sendSubscribeRequest, sendRequest, DataOK
<1>3. ASSUME NEW th \in Thread, Sending(th), ~Undefined
      PROVE  NobodyElseCalls'
  BY <1>3 DEF Sending, size, front, registerTimer, emplace, post, Leave, DataOK
<1>4. CASE (sendSucceeded \/ empty \/ processSendError \/ processHandleReceiveError) /\ ~Undefined
  BY <1>4 DEF sendSucceeded, empty, processSendError, processHandleReceiveError, DataOK
<1>5. ASSUME NEW c \in Message, handleResponse(c)
      PROVE  NobodyElseCalls'
  BY <1>5 DEF handleResponse, DataOK
<1>6. CASE (removeTimer \/ eraseTransaction \/ removeEndedTimers) /\ ~Undefined
  BY <1>6 DEF removeTimer, eraseTransaction, removeEndedTimers, Leave, DataOK
<1>7. ASSUME NEW s \in Range(Key), handleRequest(s), ~Undefined
      PROVE  NobodyElseCalls'
  BY <1>7 DEF handleRequest
<1>8. ASSUME NEW h \in Handler, registerNewEventHandler(h)
      PROVE  NobodyElseCalls'
  BY <1>8 DEF registerNewEventHandler, DataOK
<1>9. CASE eventAdded
  BY <1>9 DEF eventAdded, DataOK
<1>10. CASE (runHandler \/ nextHandler) /\ ~Undefined
  BY <1>10 DEF runHandler, nextHandler
<1>11. \A c \in Code : ~handlerSendsRequest(c)
  BY DEF handlerSendsRequest, Valid, OneCaller
<1>12. \A t \in Timer : ~expire(t)
  BY DEF expire, OneCaller
<1>13. \A service \in Lookup : ~resend(service)
  BY DEF resend
<1> QED
  BY <1>1, <1>2, <1>3, <1>4, <1>5, <1>6, <1>7, <1>8, <1>9, <1>10, <1>11, <1>12, <1>13
     DEF Next, Handling, generateTransactionCode

\* With one calling thread (no resend timer has expired and no handler sends
\* requests), messages in the queue are being sent, unless a send has failed:
\* for all codes, requests and registered handlers.
THEOREM QueueServedForOneCaller ==
    ASSUME OneCaller
    PROVE  Spec => []SendingInProgress
<1>1. Init => NobodyElseCalls
  BY DEF Init, NobodyElseCalls, Thread
<1>2. DataOK /\ NobodyElseCalls /\ [Next]_vars => NobodyElseCalls'
  BY NextOneCaller
<1>3. NobodyElseCalls => OneAtSize
  BY DEF NobodyElseCalls, OneAtSize, Thread
<1> QED
  BY <1>1, <1>2, <1>3, DataInductive, QueueServedByOneAtATime, PTL DEF Spec

----------------------------------------------------------------------------
(* No request is forgotten.                                                *)

\* The callback stops at registerTimer, since its own timer is firing.
LEMMA NextHoldsLock ==
    ASSUME DataOK, CallbackHoldsLock, [Next]_vars
    PROVE  CallbackHoldsLock'
<1> USE DEF CallbackHoldsLock, At, Goto, Thread, User, Io, Callback, timerVars, Firing
<1>1. CASE UNCHANGED vars \/ Undefined
  BY <1>1 DEF vars, soundVars, Undefined
<1>2. ASSUME NEW c \in Code, managerSendRequest(c) \/ handlerSendsRequest(c)
      PROVE  CallbackHoldsLock'
  BY <1>2 DEF managerSendRequest, sendSubscribeRequest, handlerSendsRequest, sendRequest, DataOK
<1>3. ASSUME NEW th \in Thread, Sending(th), ~Undefined
      PROVE  CallbackHoldsLock'
  <2>1. CASE size(th)
    BY <2>1 DEF size, Leave, DataOK
  <2>2. CASE front(th) \/ emplace(th)
    BY <1>3, <2>2 DEF front, emplace, DataOK
  <2>3. CASE registerTimer(th)
    <3>1. pc[Callback] = "idle"
      BY <2>3 DEF registerTimer, LockFree
    <3> QED
      BY <2>3, <3>1 DEF registerTimer, DataOK
  <2>4. CASE post(th)
    BY <1>3, <2>4 DEF post, Leave, DataOK
  <2> QED
    BY <1>3, <2>1, <2>2, <2>3, <2>4 DEF Sending
<1>4. CASE (sendSucceeded \/ empty \/ processSendError \/ processHandleReceiveError) /\ ~Undefined
  BY <1>4 DEF sendSucceeded, empty, processSendError, processHandleReceiveError, DataOK
<1>5. ASSUME NEW c \in Message, handleResponse(c)
      PROVE  CallbackHoldsLock'
  BY <1>5 DEF handleResponse, DataOK
<1>6. CASE removeTimer
  BY <1>6 DEF removeTimer, LockFree, DataOK
<1>7. CASE eraseTransaction /\ ~Undefined
  BY <1>7 DEF eraseTransaction, Leave, DataOK
<1>8. ASSUME NEW s \in Range(Key), handleRequest(s), ~Undefined
      PROVE  CallbackHoldsLock'
  BY <1>8 DEF handleRequest
<1>9. ASSUME NEW h \in Handler, registerNewEventHandler(h)
      PROVE  CallbackHoldsLock'
  BY <1>9 DEF registerNewEventHandler, serverVars, DataOK
<1>10. CASE eventAdded
  BY <1>10 DEF eventAdded, serverVars, DataOK
<1>11. CASE (runHandler \/ nextHandler) /\ ~Undefined
  BY <1>11 DEF runHandler, nextHandler, serverVars
<1>12. ASSUME NEW t \in Timer, expire(t)
       PROVE  CallbackHoldsLock'
  BY <1>12 DEF expire, Timers!Fire, Timers!Move, DataOK
<1>13. ASSUME NEW service \in Lookup, resend(service)
       PROVE  CallbackHoldsLock'
  BY <1>13 DEF resend, Leave, DataOK
<1>14. CASE removeEndedTimers
  BY <1>14 DEF removeEndedTimers, Timers!Collect, DataOK
<1> QED
  BY <1>1, <1>2, <1>3, <1>4, <1>5, <1>6, <1>7, <1>8, <1>9, <1>10, <1>11, <1>12, <1>13, <1>14
     DEF Next, Handling, generateTransactionCode

\* The io thread removes a timer, and erases an entry, after an answer only.
LEMMA NextRemovesAnswered ==
    ASSUME DataOK, RemovesAnswered, [Next]_vars
    PROVE  RemovesAnswered'
<1> USE DEF RemovesAnswered, At, Goto, Set, Thread, User, Io, Callback, localVars, resultVars
<1>1. CASE UNCHANGED vars \/ Undefined
  BY <1>1 DEF vars, soundVars, Undefined
<1>2. ASSUME NEW c \in Code, managerSendRequest(c) \/ handlerSendsRequest(c)
      PROVE  RemovesAnswered'
  BY <1>2 DEF managerSendRequest, sendSubscribeRequest, handlerSendsRequest, sendRequest, DataOK
<1>3. ASSUME NEW th \in Thread, Sending(th), ~Undefined
      PROVE  RemovesAnswered'
  BY <1>3 DEF Sending, size, front, registerTimer, emplace, post, Leave, DataOK
<1>4. CASE (sendSucceeded \/ empty \/ processSendError \/ processHandleReceiveError) /\ ~Undefined
  BY <1>4 DEF sendSucceeded, empty, processSendError, processHandleReceiveError, IoFree, DataOK
<1>5. ASSUME NEW c \in Message, handleResponse(c)
      PROVE  RemovesAnswered'
  BY <1>5 DEF handleResponse, Receives, IoFree, DataOK
<1>6. CASE (removeTimer \/ eraseTransaction) /\ ~Undefined
  BY <1>6 DEF removeTimer, eraseTransaction, Leave, DataOK
<1>7. ASSUME NEW s \in Range(Key), handleRequest(s), ~Undefined
      PROVE  RemovesAnswered'
  BY <1>7 DEF handleRequest
<1>8. ASSUME NEW h \in Handler, registerNewEventHandler(h)
      PROVE  RemovesAnswered'
  BY <1>8 DEF registerNewEventHandler, serverVars, DataOK
<1>9. CASE eventAdded
  BY <1>9 DEF eventAdded, serverVars, DataOK
<1>10. CASE (runHandler \/ nextHandler) /\ ~Undefined
  BY <1>10 DEF runHandler, nextHandler, serverVars
<1>11. ASSUME NEW t \in Timer, expire(t)
       PROVE  RemovesAnswered'
  BY <1>11 DEF expire, DataOK
<1>12. ASSUME NEW service \in Lookup, resend(service)
       PROVE  RemovesAnswered'
  BY <1>12 DEF resend, Leave, DataOK
<1>13. CASE removeEndedTimers
  BY <1>13 DEF removeEndedTimers
<1> QED
  BY <1>1, <1>2, <1>3, <1>4, <1>5, <1>6, <1>7, <1>8, <1>9, <1>10, <1>11, <1>12, <1>13
     DEF Next, Handling, generateTransactionCode

\* The threads that refer to a place in the queue.
Referring(th) == pc[th] \in {"register", "emplace", "post"}

\* No new reference and no new send, with the queue as it was.
SamePlaces ==
    /\ UNCHANGED <<messageQueue, popped>>
    /\ UNCHANGED outstanding \/ (outstanding # <<>> /\ outstanding' = Tail(outstanding))
    /\ \A th \in Thread : Referring(th)' =>
          Referring(th) /\ ref'[th] = ref[th] /\ message'[th] = message[th]

\* A step that moves no message and no reference.
LEMMA SamePlacesMeanCodes ==
    ASSUME DataOK, PlacesMeanCodes, SamePlaces
    PROVE  PlacesMeanCodes'
<1>1. \A i \in DOMAIN outstanding' : outstanding'[i] <= popped + Len(messageQueue)
  <2>1. CASE UNCHANGED outstanding
    BY <2>1 DEF PlacesMeanCodes
  <2>2. CASE outstanding # <<>> /\ outstanding' = Tail(outstanding)
    <3>1. \A i \in DOMAIN outstanding' :
            i + 1 \in DOMAIN outstanding /\ outstanding'[i] = outstanding[i + 1]
      BY <2>2, HeadTailProperties, LenProperties DEF DataOK
    <3> QED
      BY <3>1 DEF PlacesMeanCodes
  <2> QED
    BY <2>1, <2>2 DEF SamePlaces
<1> QED
  BY <1>1 DEF PlacesMeanCodes, SamePlaces, Referring

\* A message behind the others.
LEMMA PushMeanCodes ==
    ASSUME DataOK, PlacesMeanCodes, NEW c \in Message, push(c), NEW th \in Thread,
           Goto(th, "size"), UNCHANGED <<popped, outstanding, ref, message>>
    PROVE  PlacesMeanCodes'
<1> DEFINE n == Len(messageQueue)
<1>1. /\ n \in Nat /\ popped \in Nat /\ Len(messageQueue') = n + 1
      /\ \A i \in 1 .. n : messageQueue'[i] = messageQueue[i]
  BY AppendProperties, LenProperties DEF push, DataOK
<1>2. \A i \in DOMAIN outstanding : outstanding[i] \in Nat
  BY ElementOfSeq, LenProperties DEF DataOK
<1>3. \A i \in DOMAIN outstanding' : outstanding'[i] <= popped' + Len(messageQueue')
  BY <1>1, <1>2 DEF PlacesMeanCodes
<1>4. ASSUME NEW u \in Thread, pc'[u] \in {"register", "emplace", "post"}
      PROVE  /\ ref'[u] <= popped' + Len(messageQueue')
             /\ ref'[u] > popped' => messageQueue'[ref'[u] - popped'] = message'[u]
  <2>1. pc[u] \in {"register", "emplace", "post"} /\ ref[u] \in Nat
    BY <1>4 DEF Goto, DataOK
  <2>2. /\ ref[u] <= popped + n
        /\ ref[u] > popped => messageQueue[ref[u] - popped] = message[u]
    BY <2>1 DEF PlacesMeanCodes
  <2>3. ref[u] > popped => ref[u] - popped \in 1 .. n
    BY <1>1, <2>1, <2>2
  <2> QED
    BY <1>1, <2>1, <2>2, <2>3
<1> QED
  BY <1>3, <1>4 DEF PlacesMeanCodes

\* The first message leaves: the others keep their places.
LEMMA PopMeanCodes ==
    ASSUME DataOK, PlacesMeanCodes, sendSucceeded, ~Undefined
    PROVE  PlacesMeanCodes'
<1> DEFINE n == Len(messageQueue)
<1>1. /\ messageQueue # <<>> /\ messageQueue' = Tail(messageQueue) /\ popped' = popped + 1
      /\ outstanding # <<>> /\ outstanding' = Tail(outstanding)
      /\ ref' = ref /\ message' = message
  BY DEF sendSucceeded, localVars
<1>2. /\ n \in Nat /\ popped \in Nat /\ Len(messageQueue') = n - 1
      /\ \A i \in 1 .. n - 1 : messageQueue'[i] = messageQueue[i + 1]
  BY <1>1, HeadTailProperties, LenProperties DEF DataOK
<1>3. popped' + Len(messageQueue') = popped + n
  BY <1>1, <1>2
<1>4. \A i \in DOMAIN outstanding' :
        i + 1 \in DOMAIN outstanding /\ outstanding'[i] = outstanding[i + 1]
  BY <1>1, HeadTailProperties, LenProperties DEF DataOK
<1>5. \A i \in DOMAIN outstanding' : outstanding'[i] <= popped' + Len(messageQueue')
  BY <1>3, <1>4 DEF PlacesMeanCodes
<1>6. ASSUME NEW u \in Thread, pc'[u] \in {"register", "emplace", "post"}
      PROVE  /\ ref'[u] <= popped' + Len(messageQueue')
             /\ ref'[u] > popped' => messageQueue'[ref'[u] - popped'] = message'[u]
  <2>1. pc[u] \in {"register", "emplace", "post"} /\ ref[u] \in Nat
    BY <1>6 DEF sendSucceeded, Goto, DataOK
  <2>2. /\ ref[u] <= popped + n
        /\ ref[u] > popped => messageQueue[ref[u] - popped] = message[u]
    BY <2>1 DEF PlacesMeanCodes
  <2>3. ref[u] > popped + 1 => /\ ref[u] - (popped + 1) \in 1 .. n - 1
                               /\ (ref[u] - (popped + 1)) + 1 = ref[u] - popped
                               /\ ref[u] > popped
    BY <1>2, <2>1, <2>2
  <2> QED
    BY <1>1, <1>2, <1>3, <2>1, <2>2, <2>3
<1> QED
  BY <1>5, <1>6 DEF PlacesMeanCodes

\* front() refers to the first message; post turns a reference into a send.
LEMMA SendingMeanCodes ==
    ASSUME DataOK, PlacesMeanCodes, NEW th \in Thread, Sending(th), ~Undefined
    PROVE  PlacesMeanCodes'
<1> USE DEF queueVars, netVars, localVars, At, Goto, Set
<1>1. CASE size(th)
  <2>1. SamePlaces
    BY <1>1 DEF size, Leave, SamePlaces, Referring, DataOK
  <2> QED
    BY <2>1, SamePlacesMeanCodes
<1>2. CASE front(th)
  <2>1. /\ messageQueue # <<>> /\ UNCHANGED <<messageQueue, popped, outstanding>>
        /\ \A u \in Thread : ref'[u] = IF u = th THEN popped + 1 ELSE ref[u]
        /\ \A u \in Thread : message'[u] = IF u = th THEN Head(messageQueue) ELSE message[u]
        /\ \A u \in Thread : u # th => pc'[u] = pc[u]
    BY <1>2 DEF front, FrontPlace, DataOK
  <2>2. Head(messageQueue) = messageQueue[1] /\ Len(messageQueue) \in Nat \ {0}
    BY <2>1, HeadTailProperties, EmptySeq DEF DataOK
  <2>3. popped + 1 <= popped + Len(messageQueue) /\ (popped + 1) - popped = 1
    BY <2>2 DEF DataOK
  <2> QED
    BY <2>1, <2>2, <2>3 DEF PlacesMeanCodes
<1>3. CASE registerTimer(th)
  <2>1. SamePlaces
    BY <1>3 DEF registerTimer, SamePlaces, Referring, DataOK
  <2> QED
    BY <2>1, SamePlacesMeanCodes
<1>4. CASE emplace(th)
  <2>1. SamePlaces
    BY <1>4 DEF emplace, SamePlaces, Referring, DataOK
  <2> QED
    BY <2>1, SamePlacesMeanCodes
<1>5. CASE post(th)
  <2>1. /\ outstanding' = Append(outstanding, ref[th])
        /\ UNCHANGED <<messageQueue, popped>> /\ pc[th] = "post"
    BY <1>5 DEF post
  <2>2. ref[th] \in Nat /\ ref[th] <= popped + Len(messageQueue)
    BY <2>1 DEF PlacesMeanCodes, DataOK
  <2>3. \A i \in DOMAIN outstanding' : outstanding'[i] = ref[th] \/
          (i \in DOMAIN outstanding /\ outstanding'[i] = outstanding[i])
    <3>1. outstanding \in Seq(Nat)
      BY DEF DataOK
    <3>2. /\ outstanding' \in Seq(Nat) /\ Len(outstanding') = Len(outstanding) + 1
          /\ \A i \in 1 .. Len(outstanding) : outstanding'[i] = outstanding[i]
          /\ outstanding'[Len(outstanding) + 1] = ref[th]
      BY <2>1, <2>2, <3>1, AppendProperties
    <3> QED
      BY <3>1, <3>2, LenProperties
  <2>4. \A u \in Thread : Referring(u)' =>
          Referring(u) /\ ref'[u] = ref[u] /\ message'[u] = message[u]
    BY <1>5 DEF post, Leave, Referring, DataOK
  <2> QED
    BY <2>1, <2>2, <2>3, <2>4 DEF PlacesMeanCodes, Referring
<1> QED
  BY <1>1, <1>2, <1>3, <1>4, <1>5 DEF Sending

\* A reference into the queue, and a send in progress, stay with their message.
LEMMA NextMeanCodes ==
    ASSUME DataOK, CodesHeld, PlacesMeanCodes, [Next]_vars
    PROVE  PlacesMeanCodes'
<1> USE DEF At, Goto, Set, queueVars, netVars, localVars
<1>1. CASE UNCHANGED vars \/ Undefined
  BY <1>1 DEF vars, soundVars, Undefined, PlacesMeanCodes
<1>2. ASSUME NEW c \in Code, managerSendRequest(c) \/ handlerSendsRequest(c)
      PROVE  PlacesMeanCodes'
  <2>1. PICK th \in Thread : sendRequest(th, c)
    BY <1>2 DEF managerSendRequest, sendSubscribeRequest, handlerSendsRequest, Thread
  <2>2. PICK m \in Message : push(m)
    BY <2>1, NewMessage DEF DataOK
  <2> QED
    BY <2>1, <2>2, PushMeanCodes DEF sendRequest
<1>3. CASE empty \/ processSendError \/ processHandleReceiveError
  <2>1. SamePlaces
    BY <1>3 DEF empty, processSendError, processHandleReceiveError, SamePlaces, Referring, DataOK
  <2> QED
    BY <2>1, SamePlacesMeanCodes
<1>4. ASSUME NEW c \in Message, handleResponse(c)
      PROVE  PlacesMeanCodes'
  <2>1. SamePlaces
    BY <1>4 DEF handleResponse, Receives, IoFree, SamePlaces, Referring, DataOK
  <2> QED
    BY <2>1, SamePlacesMeanCodes
<1>5. CASE (removeTimer \/ eraseTransaction) /\ ~Undefined
  <2>1. SamePlaces
    BY <1>5 DEF removeTimer, eraseTransaction, Leave, SamePlaces, Referring, DataOK
  <2> QED
    BY <2>1, SamePlacesMeanCodes
<1>6. ASSUME NEW s \in Range(Key), handleRequest(s), ~Undefined
      PROVE  PlacesMeanCodes'
  <2>1. SamePlaces
    BY <1>6 DEF handleRequest, SamePlaces, Referring
  <2> QED
    BY <2>1, SamePlacesMeanCodes
<1>7. ASSUME NEW h \in Handler, registerNewEventHandler(h)
      PROVE  PlacesMeanCodes'
  <2>1. SamePlaces
    BY <1>7 DEF registerNewEventHandler, serverVars, SamePlaces, Referring, DataOK
  <2> QED
    BY <2>1, SamePlacesMeanCodes
<1>8. CASE eventAdded
  <2>1. SamePlaces
    BY <1>8 DEF eventAdded, serverVars, SamePlaces, Referring, DataOK
  <2> QED
    BY <2>1, SamePlacesMeanCodes
<1>9. CASE (runHandler \/ nextHandler \/ removeEndedTimers) /\ ~Undefined
  <2>1. SamePlaces
    BY <1>9 DEF runHandler, nextHandler, removeEndedTimers, serverVars, SamePlaces, Referring
  <2> QED
    BY <2>1, SamePlacesMeanCodes
<1>10. ASSUME NEW t \in Timer, expire(t)
       PROVE  PlacesMeanCodes'
  <2>1. SamePlaces
    BY <1>10 DEF expire, SamePlaces, Referring, DataOK
  <2> QED
    BY <2>1, SamePlacesMeanCodes
<1>11. ASSUME NEW service \in Lookup, resend(service)
       PROVE  PlacesMeanCodes'
  <2>1. CASE service = "record"
    <3>1. message[Callback] \in Message /\ Callback \in Thread
      BY <1>11 DEF resend, CodesHeld, Thread
    <3> QED
      BY <1>11, <2>1, <3>1, PushMeanCodes DEF resend
  <2>2. CASE service # "record"
    <3>1. SamePlaces
      BY <1>11, <2>2 DEF resend, Leave, SamePlaces, Referring, DataOK
    <3> QED
      BY <3>1, SamePlacesMeanCodes
  <2> QED
    BY <2>1, <2>2
<1> QED
  BY <1>1, <1>2, <1>3, <1>4, <1>5, <1>6, <1>7, <1>8, <1>9, <1>10, <1>11,
     SendingMeanCodes, PopMeanCodes DEF Next, Handling, generateTransactionCode

\* What keeps a message: a step of another thread than the callback's that sends
\* nothing, and after which a timer that is gone was of an answered message or is
\* known to have been removed by the response to another.
StillStep ==
    /\ UNCHANGED <<messageQueue, popped, misPopped, accepted>>
    /\ \A p \in Nat : Sent(p)' => Sent(p)
    /\ acknowledged \subseteq acknowledged' /\ abandoned \subseteq abandoned'
    /\ strayed \subseteq strayed'
    /\ \A t \in Timer : phase[t] = "pending" =>
          \/ phase'[t] = "pending" /\ parked'[t] = parked[t]
          \/ parked[t] \in acknowledged' \cup strayed'
    /\ pc'[Callback] = pc[Callback] /\ message'[Callback] = message[Callback]

QueuedInv == CallbackQueued /\ AcceptedKept

\* A message waits until it is sent.
LEMMA WaitingStays ==
    ASSUME DataOK, UNCHANGED <<messageQueue, popped>>,
           \A p \in Nat : Sent(p)' => Sent(p), NEW c, Waiting(c)
    PROVE  Waiting(c)'
<1>1. PICK i \in DOMAIN messageQueue : messageQueue[i] = c /\ ~Sent(popped + i)
  BY DEF Waiting
<1>2. popped + i \in Nat
  BY LenProperties DEF DataOK
<1>3. ~Sent(popped + i)'
  BY <1>1, <1>2
<1> QED
  BY <1>1, <1>3 DEF Waiting

\* A step that sends nothing and stops no timer but an answered one forgets nothing.
LEMMA StillKept ==
    ASSUME DataOK, QueuedInv, StillStep
    PROVE  QueuedInv'
<1>1. ASSUME NEW c, Waiting(c) PROVE Waiting(c)'
  BY <1>1, WaitingStays DEF StillStep
<1>2. ASSUME NEW c, Kept(c) PROVE Kept(c)'
  <2>1. CASE \E t \in Timer : phase[t] = "pending" /\ parked[t] = c
    BY <2>1 DEF StillStep, Kept
  <2> QED
    BY <1>1, <1>2, <2>1 DEF StillStep, Kept
<1>3. AcceptedKept'
  BY <1>2 DEF QueuedInv, AcceptedKept, StillStep
<1>4. popped + 1 \in Nat
  BY DEF DataOK
<1>5. CallbackQueued'
  BY <1>1, <1>4 DEF QueuedInv, CallbackQueued, StillStep
<1> QED
  BY <1>3, <1>5 DEF QueuedInv

\* The queue grows by a message that is not sent yet.
LEMMA PushWaiting ==
    ASSUME DataOK, PlacesMeanCodes, NEW c \in Message, push(c), NEW th \in Thread,
           pc[th] \in {"idle", "resend"}, Goto(th, "size"),
           UNCHANGED <<popped, outstanding, ref>>
    PROVE  /\ Waiting(c)'
           /\ \A d : Waiting(d) => Waiting(d)'
           /\ \A p : Sent(p)' <=> Sent(p)
           /\ 1 \in DOMAIN messageQueue =>
                 1 \in DOMAIN messageQueue' /\ messageQueue'[1] = messageQueue[1]
<1> DEFINE n == Len(messageQueue)
<1>1. /\ n \in Nat /\ popped \in Nat
      /\ DOMAIN messageQueue = 1 .. n /\ DOMAIN messageQueue' = 1 .. n + 1
      /\ messageQueue'[n + 1] = c
      /\ \A i \in 1 .. n : messageQueue'[i] = messageQueue[i]
  BY AppendProperties, LenProperties DEF push, DataOK
<1>2. \A p : Sent(p)' <=> Sent(p)
  BY DEF Sent, Goto, DataOK
<1>3. ~Sent(popped + (n + 1))
  <2>1. \A i \in DOMAIN outstanding : outstanding[i] \in Nat
    BY ElementOfSeq, LenProperties DEF DataOK
  <2>2. \A i \in DOMAIN outstanding : outstanding[i] # popped + (n + 1)
    BY <1>1, <2>1 DEF PlacesMeanCodes
  <2>3. \A u \in Thread : pc[u] \in {"emplace", "post"} => ref[u] # popped + (n + 1)
    BY <1>1 DEF PlacesMeanCodes, DataOK
  <2> QED
    BY <2>2, <2>3 DEF Sent
<1>4. Waiting(c)'
  <2>1. PICK p : p = popped + (n + 1)
    OBVIOUS
  <2>2. n + 1 \in DOMAIN messageQueue' /\ ~Sent(p)' /\ p = popped' + (n + 1)
    BY <1>1, <1>2, <1>3, <2>1
  <2> QED
    BY <1>1, <2>2 DEF Waiting, Sent
<1>5. ASSUME NEW d, Waiting(d) PROVE Waiting(d)'
  <2>1. PICK i \in 1 .. n : messageQueue[i] = d /\ ~Sent(popped + i)
    BY <1>1, <1>5 DEF Waiting
  <2>2. PICK p : p = popped + i
    OBVIOUS
  <2>3. /\ i \in DOMAIN messageQueue' /\ messageQueue'[i] = d
        /\ ~Sent(p)' /\ p = popped' + i
    BY <1>1, <1>2, <2>1, <2>2
  <2> QED
    BY <2>3 DEF Waiting, Sent
<1>6. 1 \in 1 .. n => 1 \in 1 .. n + 1
  BY <1>1
<1> QED
  BY <1>1, <1>2, <1>4, <1>5, <1>6

\* sendRequest by the user's thread or by a handler.
LEMMA SendRequestKept ==
    ASSUME DataOK, PlacesMeanCodes, QueuedInv, NEW c \in Code, NEW th \in {User, Io},
           pc[th] = "idle", sendRequest(th, c)
    PROVE  QueuedInv'
<1> USE DEF sendRequest, netVars, localVars, resultVars, timerVars, QueuedInv
<1>0. PICK m \in Message : push(m) /\ accepted' = accepted \cup {m}
  BY NewMessage DEF DataOK, Thread
<1>1. /\ Waiting(m)'
      /\ \A d : Waiting(d) => Waiting(d)'
      /\ \A p : Sent(p)' <=> Sent(p)
      /\ 1 \in DOMAIN messageQueue =>
            1 \in DOMAIN messageQueue' /\ messageQueue'[1] = messageQueue[1]
  BY <1>0, PushWaiting DEF Thread
<1>2. pc'[Callback] = pc[Callback]
  BY DEF Goto, DataOK, Thread, User, Io, Callback
<1>3. \A d : Kept(d) => Kept(d)'
  BY <1>1, <1>2 DEF Kept
<1>4. Kept(m)'
  BY <1>1 DEF Kept
<1>5. AcceptedKept'
  BY <1>0, <1>3, <1>4 DEF AcceptedKept
<1>6. CallbackQueued'
  BY <1>1, <1>2 DEF CallbackQueued
<1> QED
  BY <1>5, <1>6

\* registerTimer: the message that begins to be sent is now with its timer.  No
\* callback runs, for the lock is free.
LEMMA RegisterKept ==
    ASSUME DataOK, PlacesMeanCodes, CallbackHoldsLock, QueuedInv, NEW th \in Thread,
           registerTimer(th)
    PROVE  QueuedInv'
<1> USE DEF queueVars, netVars, resultVars, askedVars, QueuedInv
<1>1. pc[Callback] = "idle" /\ pc[th] = "register" /\ th # Callback
  BY DEF registerTimer, LockFree, CallbackHoldsLock, At
<1>2. /\ \A u \in Thread : pc'[u] = IF u = th THEN "emplace" ELSE pc[u]
      /\ UNCHANGED <<messageQueue, popped, outstanding, misPopped, accepted, acknowledged,
                      abandoned, strayed, ref, message>>
  BY DEF registerTimer, Goto, DataOK
<1>3. pc'[Callback] = "idle"
  BY <1>1, <1>2 DEF Thread
<1>4. PICK t \in Timer : /\ phase[t] = "new"
                         /\ phase' = [phase EXCEPT ![t] = "pending"]
                         /\ parked' = [parked EXCEPT ![t] = message[th]]
  BY DEF registerTimer, ParkedMessage
<1>5. \E u \in Timer : phase'[u] = "pending" /\ parked'[u] = message[th]
  BY <1>4 DEF DataOK
<1>6. \A u \in Timer : phase[u] = "pending" => phase'[u] = "pending" /\ parked'[u] = parked[u]
  BY <1>4 DEF DataOK
<1>7. \A p : Sent(p)' => Sent(p) \/ p = ref[th]
  BY <1>2 DEF Sent
<1>8. ASSUME NEW c, Waiting(c) PROVE Kept(c)'
  <2>1. PICK i \in DOMAIN messageQueue : messageQueue[i] = c /\ ~Sent(popped + i)
    BY <1>8 DEF Waiting
  <2>2. i \in Nat /\ i >= 1 /\ popped \in Nat
    BY LenProperties DEF DataOK
  <2>3. CASE popped + i = ref[th]
    <3>1. ref[th] > popped /\ ref[th] - popped = i
      BY <2>2, <2>3
    <3>2. c = message[th]
      BY <1>1, <2>1, <3>1 DEF PlacesMeanCodes
    <3> QED
      BY <1>5, <3>2 DEF Kept
  <2>4. CASE popped + i # ref[th]
    <3>1. PICK p : p = popped + i
      OBVIOUS
    <3>2. ~Sent(p)' /\ p = popped' + i
      BY <1>2, <1>7, <2>1, <2>4, <3>1
    <3>3. Waiting(c)'
      BY <1>2, <2>1, <3>2 DEF Waiting, Sent
    <3> QED
      BY <3>3 DEF Kept
  <2> QED
    BY <2>3, <2>4
<1>9. ASSUME NEW c, Kept(c) PROVE Kept(c)'
  BY <1>1, <1>2, <1>6, <1>8, <1>9 DEF Kept
<1>10. AcceptedKept'
  BY <1>2, <1>9 DEF AcceptedKept
<1>11. CallbackQueued'
  BY <1>3 DEF CallbackQueued
<1> QED
  BY <1>10, <1>11

\* A completion takes off the message that was sent, so none that waits.
LEMMA PopKept ==
    ASSUME DataOK, QueuedInv, sendSucceeded, ~Undefined
    PROVE  QueuedInv'
<1> USE DEF QueuedInv
<1> SUFFICES ASSUME ~misPopped'
             PROVE  QueuedInv'
  BY DEF CallbackQueued, AcceptedKept
<1>1. /\ messageQueue # <<>> /\ messageQueue' = Tail(messageQueue) /\ popped' = popped + 1
      /\ outstanding # <<>> /\ outstanding' = Tail(outstanding)
      /\ UNCHANGED <<phase, parked, ref, message, accepted, acknowledged, abandoned, strayed>>
  BY DEF sendSucceeded, localVars, timerVars, askedVars
<1>2. ~misPopped /\ Head(outstanding) = popped + 1
  BY DEF sendSucceeded
<1>3. \A u \in Thread : pc'[u] = IF u = Io THEN "empty" ELSE pc[u]
  BY DEF sendSucceeded, Goto, DataOK
<1>4. \A i \in DOMAIN outstanding' :
        i + 1 \in DOMAIN outstanding /\ outstanding'[i] = outstanding[i + 1]
  BY <1>1, HeadTailProperties, LenProperties DEF DataOK
<1>5. 1 \in DOMAIN outstanding /\ outstanding[1] = popped + 1
  BY <1>1, <1>2, HeadTailProperties, LenProperties, EmptySeq DEF DataOK
<1>6. Sent(popped + 1) /\ \A p : Sent(p)' => Sent(p)
  BY <1>1, <1>3, <1>4, <1>5 DEF Sent
<1>7. ASSUME NEW c, Waiting(c) PROVE Waiting(c)'
  <2>1. PICK i \in DOMAIN messageQueue : messageQueue[i] = c /\ ~Sent(popped + i)
    BY <1>7 DEF Waiting
  <2>2. i \in 1 .. Len(messageQueue) /\ Len(messageQueue) \in Nat /\ i # 1
    BY <1>6, <2>1, LenProperties DEF DataOK
  <2>3. /\ DOMAIN messageQueue' = 1 .. Len(messageQueue) - 1
        /\ \A j \in 1 .. Len(messageQueue) - 1 : messageQueue'[j] = messageQueue[j + 1]
    BY <1>1, HeadTailProperties, LenProperties DEF DataOK
  <2>4. PICK p, j : p = popped + i /\ j = i - 1
    OBVIOUS
  <2>5. /\ j \in 1 .. Len(messageQueue) - 1 /\ j + 1 = i
        /\ (popped + 1) + j = p
    <3>1. popped \in Nat
      BY DEF DataOK
    <3> QED
      BY <2>2, <2>4, <3>1
  <2>6. messageQueue'[j] = c /\ ~Sent(p)' /\ p = popped' + j
    BY <1>1, <1>6, <2>1, <2>3, <2>4, <2>5
  <2> QED
    BY <2>3, <2>5, <2>6 DEF Waiting, Sent
<1>8. pc'[Callback] = pc[Callback]
  BY <1>3 DEF Thread, Io, Callback
<1>9. \A c : Kept(c) => Kept(c)'
  BY <1>1, <1>7, <1>8 DEF Kept
<1>10. AcceptedKept'
  BY <1>1, <1>2, <1>9 DEF AcceptedKept
<1>11. CallbackQueued'
  BY <1>1, <1>2, <1>6, <1>7, <1>8 DEF CallbackQueued
<1> QED
  BY <1>10, <1>11

\* The callback asks for the size and for the front.
LEMMA CallbackSendKept ==
    ASSUME DataOK, QueuedInv, size(Callback) \/ (front(Callback) /\ ~Undefined)
    PROVE  QueuedInv'
<1> USE DEF queueVars, netVars, resultVars, askedVars, localVars, At, Goto, Set, QueuedInv
<1> SUFFICES ASSUME ~misPopped'
             PROVE  QueuedInv'
  BY DEF CallbackQueued, AcceptedKept
<1>1. Callback \in Thread
  BY DEF Thread
<1>2. /\ UNCHANGED <<messageQueue, popped, outstanding, misPopped, accepted, acknowledged,
                      abandoned, strayed, parked>>
      /\ pc[Callback] \in {"size", "front"}
      /\ \A u \in Thread : u # Callback => pc'[u] = pc[u] /\ ref'[u] = ref[u]
      /\ pc'[Callback] \in {"idle", "front", "register"}
  BY <1>1 DEF size, front, Leave, timerVars, DataOK
<1>3. \A p : Sent(p)' => Sent(p)
  BY <1>1, <1>2 DEF Sent
<1>4. ASSUME NEW c, Waiting(c) PROVE Waiting(c)'
  BY <1>2, <1>3, <1>4, WaitingStays
<1>5. \A t \in Timer : phase[t] = "pending" => phase'[t] = "pending"
  BY DEF size, front, Leave, timerVars, DataOK, Firing
<1>6. CASE size(Callback) /\ SendInProgress
  <2>1. pc[Callback] = "size" /\ pc'[Callback] = "idle"
    BY <1>1, <1>6 DEF size, Leave, DataOK, SendInProgress
  <2>2. Waiting(message[Callback])
    BY <1>2, <2>1 DEF CallbackQueued
  <2>3. \A c : Kept(c) => Kept(c)'
    BY <1>2, <1>4, <1>5, <2>2 DEF Kept
  <2> QED
    BY <1>2, <2>1, <2>3 DEF CallbackQueued, AcceptedKept
<1>7. CASE size(Callback) /\ ~SendInProgress
  <2>1. /\ pc[Callback] = "size" /\ pc'[Callback] = "front" /\ message' = message
        /\ ~(Len(messageQueue) > 1)
    BY <1>1, <1>7 DEF size, DataOK, SendInProgress
  <2>2. PICK i \in DOMAIN messageQueue :
          messageQueue[i] = message[Callback] /\ ~Sent(popped + i)
    BY <1>2, <2>1 DEF CallbackQueued, Waiting
  <2>3. i = 1
    BY <2>1, <2>2, LenProperties DEF DataOK
  <2>4. PICK p : p = popped + 1
    OBVIOUS
  <2>5. ~Sent(p)' /\ p = popped' + 1
    BY <1>2, <1>3, <2>2, <2>3, <2>4
  <2>6. CallbackQueued'
    BY <1>2, <2>1, <2>2, <2>3, <2>5 DEF CallbackQueued, Sent
  <2>7. \A c : Kept(c) => Kept(c)'
    BY <1>2, <1>4, <1>5, <2>1 DEF Kept
  <2> QED
    BY <1>2, <2>6, <2>7 DEF AcceptedKept
<1>8. CASE front(Callback) /\ ~Undefined
  <2>1. /\ pc[Callback] = "front" /\ pc'[Callback] = "register"
        /\ message'[Callback] = Head(messageQueue)
    BY <1>1, <1>8 DEF front, DataOK
  <2>2. /\ 1 \in DOMAIN messageQueue /\ messageQueue[1] = message[Callback]
        /\ ~Sent(popped + 1)
    BY <1>2, <2>1 DEF CallbackQueued
  <2>3. message'[Callback] = message[Callback]
    BY <2>1, <2>2
  <2>4. PICK p : p = popped + 1
    OBVIOUS
  <2>5. ~Sent(p)' /\ p = popped' + 1
    BY <1>2, <1>3, <2>2, <2>4
  <2>6. CallbackQueued'
    BY <1>2, <2>1, <2>2, <2>3, <2>5 DEF CallbackQueued, Sent
  <2>7. \A c : Kept(c) => Kept(c)'
    BY <1>2, <1>4, <1>5, <2>1, <2>3 DEF Kept
  <2> QED
    BY <1>2, <2>6, <2>7 DEF AcceptedKept
<1> QED
  BY <1>6, <1>7, <1>8

\* A timer expires: its message is in the callback's hands.
LEMMA ExpireKept ==
    ASSUME DataOK, QueuedInv, NEW t \in Timer, expire(t)
    PROVE  QueuedInv'
<1> USE DEF queueVars, netVars, resultVars, askedVars, At, Goto, Set, QueuedInv
<1>1. /\ UNCHANGED <<messageQueue, popped, outstanding, misPopped, accepted, acknowledged,
                      abandoned, strayed, parked, ref>>
      /\ pc[Callback] = "idle" /\ Callback \in Thread
      /\ \A u \in Thread : pc'[u] = IF u = Callback THEN "resend" ELSE pc[u]
      /\ message'[Callback] = parked[t]
      /\ phase' = [phase EXCEPT ![t] = "firing"]
  BY DEF expire, Timers!Fire, Timers!Move, DataOK, Thread
<1>2. \A p : Sent(p)' => Sent(p)
  BY <1>1 DEF Sent
<1>3. ASSUME NEW c, Waiting(c) PROVE Waiting(c)'
  BY <1>1, <1>2, <1>3, WaitingStays
<1>4. \A u \in Timer : phase[u] = "pending" => u = t \/ phase'[u] = "pending"
  BY <1>1 DEF DataOK
<1>5. \A c : Kept(c) => Kept(c)'
  BY <1>1, <1>3, <1>4 DEF Kept
<1> QED
  BY <1>1, <1>5 DEF CallbackQueued, AcceptedKept

\* The callback queues its message again, or the message is given up.
LEMMA ResendKept ==
    ASSUME DataOK, CodesHeld, PlacesMeanCodes, QueuedInv, NEW service \in Lookup,
           resend(service)
    PROVE  QueuedInv'
<1> USE DEF queueVars, netVars, resultVars, askedVars, timerVars, localVars, At, QueuedInv
<1>1. /\ pc[Callback] = "resend" /\ Callback \in Thread /\ message[Callback] \in Message
      /\ UNCHANGED <<popped, outstanding, misPopped, accepted, acknowledged, strayed>>
  BY DEF resend, CodesHeld, Thread
<1>2. CASE service = "record"
  <2>0. PICK c \in Message : c = message[Callback]
    BY <1>1
  <2>1. Waiting(c)' /\ \A d : Waiting(d) => Waiting(d)'
    <3>1. push(c) /\ Goto(Callback, "size") /\ ref' = ref
      BY <1>2, <2>0 DEF resend
    <3> QED
      BY <1>1, <3>1, PushWaiting
  <2>2. /\ pc'[Callback] = "size" /\ message' = message
        /\ UNCHANGED <<phase, parked, abandoned>>
    BY <1>1, <1>2 DEF resend, Goto, DataOK
  <2>3. \A d : Kept(d) => Kept(d)'
    BY <1>1, <2>1, <2>2 DEF Kept
  <2>4. CallbackQueued'
    <3>1. message'[Callback] = c
      BY <2>0, <2>2
    <3> QED
      BY <2>1, <2>2, <3>1 DEF CallbackQueued, Waiting
  <2> QED
    BY <1>1, <2>3, <2>4 DEF AcceptedKept
<1>3. CASE service # "record"
  <2>1. /\ UNCHANGED <<messageQueue, parked>>
        /\ \A u \in Thread : pc'[u] = IF u = Callback THEN "idle" ELSE pc[u]
        /\ \A u \in Thread : u # Callback => ref'[u] = ref[u]
        /\ abandoned' = abandoned \cup {message[Callback]}
    BY <1>1, <1>3 DEF resend, Leave, Goto, Set, DataOK
  <2>2. \A t \in Timer : phase[t] = "pending" => phase'[t] = "pending"
    BY <1>3 DEF resend, Leave, Firing, Timers!Fail, Timers!Move, DataOK
  <2>3. \A p : Sent(p)' => Sent(p)
    BY <1>1, <2>1 DEF Sent
  <2>4. ASSUME NEW c, Waiting(c) PROVE Waiting(c)'
    BY <1>1, <2>1, <2>3, <2>4, WaitingStays
  <2>5. \A c : Kept(c) => Kept(c)'
    BY <1>1, <2>1, <2>2, <2>4 DEF Kept
  <2> QED
    BY <1>1, <2>1, <2>5 DEF CallbackQueued, AcceptedKept
<1> QED
  BY <1>2, <1>3

\* The other threads' steps inside send, and a completion's.
LEMMA OthersSendKept ==
    ASSUME DataOK, QueuedInv, NEW th \in Thread, th # Callback, ~Undefined,
           size(th) \/ front(th) \/ emplace(th) \/ post(th)
    PROVE  QueuedInv'
<1> USE DEF queueVars, netVars, resultVars, askedVars, timerVars, localVars, At, Goto, Set
<1>1. /\ UNCHANGED <<messageQueue, popped, misPopped, accepted, acknowledged, abandoned,
                      strayed, phase, parked>>
      /\ pc'[Callback] = pc[Callback] /\ message'[Callback] = message[Callback]
  BY DEF size, front, emplace, post, Leave, DataOK, Thread
<1>2. \A p \in Nat : Sent(p)' => Sent(p)
  <2>1. CASE size(th)
    BY <2>1 DEF size, Leave, Sent, DataOK
  <2>2. CASE front(th)
    BY <2>2 DEF front, Sent, DataOK
  <2>3. CASE emplace(th)
    BY <2>3 DEF emplace, Sent, DataOK
  <2>4. CASE post(th)
    <3>1. \A i \in DOMAIN outstanding' :
            \/ outstanding'[i] = ref[th]
            \/ i \in DOMAIN outstanding /\ outstanding'[i] = outstanding[i]
      <4>1. outstanding' = Append(outstanding, ref[th])
        BY <2>4 DEF post
      <4>2. outstanding \in Seq(Nat) /\ ref[th] \in Nat
        BY DEF DataOK
      <4> QED
        BY <4>1, <4>2, AppendProperties, LenProperties
    <3>2. pc[th] = "post" /\ \A u \in Thread : pc'[u] \in {"emplace", "post"} =>
                               pc[u] \in {"emplace", "post"} /\ ref'[u] = ref[u]
      BY <2>4 DEF post, Leave, DataOK
    <3> QED
      BY <3>1, <3>2 DEF Sent
  <2> QED
    BY <2>1, <2>2, <2>3, <2>4
<1>3. StillStep
  BY <1>1, <1>2 DEF StillStep
<1> QED
  BY <1>3, StillKept

\* No step forgets a request.
LEMMA NextKept ==
    ASSUME DataOK, CodesHeld, CallbackHoldsLock, PlacesMeanCodes, RemovesAnswered,
           QueuedInv, [Next]_vars
    PROVE  QueuedInv'
<1> USE DEF At, Goto, Set, queueVars, netVars, localVars, timerVars, resultVars, askedVars
<1>1. CASE UNCHANGED vars \/ Undefined
  <2>1. StillStep
    BY <1>1 DEF vars, soundVars, Undefined, StillStep, Sent
  <2> QED
    BY <2>1, StillKept
<1>2. ASSUME NEW c \in Code, managerSendRequest(c) \/ handlerSendsRequest(c)
      PROVE  QueuedInv'
  BY <1>2, SendRequestKept DEF managerSendRequest, sendSubscribeRequest, handlerSendsRequest
<1>3. ASSUME NEW th \in Thread, Sending(th), ~Undefined
      PROVE  QueuedInv'
  <2>1. CASE th = Callback
    <3>1. ~emplace(th) /\ ~post(th)
      BY <2>1 DEF emplace, post, CallbackHoldsLock
    <3> QED
      BY <1>3, <2>1, <3>1, CallbackSendKept, RegisterKept DEF Sending
  <2>2. CASE th # Callback
    BY <1>3, <2>2, OthersSendKept, RegisterKept DEF Sending
  <2> QED
    BY <2>1, <2>2
<1>4. CASE empty \/ processSendError \/ processHandleReceiveError
  <2>1. \A p \in Nat : Sent(p)' => Sent(p)
    <3>1. UNCHANGED outstanding \/ (outstanding # <<>> /\ outstanding' = Tail(outstanding))
      BY <1>4 DEF empty, processSendError, processHandleReceiveError
    <3>2. \A i \in DOMAIN outstanding' :
            \E j \in DOMAIN outstanding : outstanding'[i] = outstanding[j]
      <4>1. outstanding # <<>> /\ outstanding' = Tail(outstanding) =>
              \A i \in DOMAIN outstanding' :
                i + 1 \in DOMAIN outstanding /\ outstanding'[i] = outstanding[i + 1]
        BY HeadTailProperties, LenProperties DEF DataOK
      <4> QED
        BY <3>1, <4>1
    <3>3. \A u \in Thread : pc'[u] \in {"emplace", "post"} =>
                               pc[u] \in {"emplace", "post"} /\ ref'[u] = ref[u]
      BY <1>4 DEF empty, processSendError, processHandleReceiveError, DataOK
    <3> QED
      BY <3>2, <3>3 DEF Sent
  <2>2. StillStep
    BY <1>4, <2>1 DEF empty, processSendError, processHandleReceiveError, StillStep, DataOK,
                      Thread, Io, Callback
  <2> QED
    BY <2>2, StillKept
<1>5. ASSUME NEW c \in Message, handleResponse(c)
      PROVE  QueuedInv'
  <2>1. StillStep
    BY <1>5 DEF handleResponse, StillStep, Sent, DataOK, Thread, Io, Callback
  <2> QED
    BY <2>1, StillKept
<1>6. CASE removeTimer
  <2>1. \A t \in Timer : phase[t] = "pending" =>
          phase'[t] = "pending" \/ parked[t] \in acknowledged \cup strayed'
    BY <1>6 DEF removeTimer, RemovesAnswered, DataOK
  <2>2. StillStep
    BY <1>6, <2>1 DEF removeTimer, StillStep, Sent, DataOK, Thread, Io, Callback
  <2> QED
    BY <2>2, StillKept
<1>7. CASE eraseTransaction /\ ~Undefined
  <2>1. Leave(Io) /\ parked' = parked /\ UNCHANGED <<queueVars, netVars, askedVars, resultVars>>
    BY <1>7 DEF eraseTransaction
  <2>2. StillStep
    BY <1>7, <2>1 DEF Leave, StillStep, Sent, DataOK, Thread, Io, Callback
  <2> QED
    BY <2>2, StillKept
<1>8. ASSUME NEW s \in Range(Key), handleRequest(s), ~Undefined
      PROVE  QueuedInv'
  <2>1. StillStep
    BY <1>8 DEF handleRequest, StillStep, Sent
  <2> QED
    BY <2>1, StillKept
<1>9. ASSUME NEW h \in Handler, registerNewEventHandler(h)
      PROVE  QueuedInv'
  <2>1. StillStep
    BY <1>9 DEF registerNewEventHandler, serverVars, StillStep, Sent, DataOK, Thread, User,
                Callback
  <2> QED
    BY <2>1, StillKept
<1>10. CASE eventAdded
  <2>1. StillStep
    BY <1>10 DEF eventAdded, serverVars, StillStep, Sent, DataOK, Thread, User, Callback
  <2> QED
    BY <2>1, StillKept
<1>11. CASE (runHandler \/ nextHandler) /\ ~Undefined
  <2>1. StillStep
    BY <1>11 DEF runHandler, nextHandler, serverVars, StillStep, Sent
  <2> QED
    BY <2>1, StillKept
<1>12. CASE removeEndedTimers
  <2>1. StillStep
    BY <1>12 DEF removeEndedTimers, Timers!Collect, StillStep, Sent, DataOK
  <2> QED
    BY <2>1, StillKept
<1> QED
  BY <1>1, <1>2, <1>3, <1>4, <1>5, <1>6, <1>7, <1>8, <1>9, <1>10, <1>11, <1>12,
     PopKept, ExpireKept, ResendKept DEF Next, Handling, generateTransactionCode

\* The inductive invariant of the pursuit of requests.
PursuitInv ==
    CallbackHoldsLock /\ PlacesMeanCodes /\ RemovesAnswered /\ QueuedInv

\* The inductive invariant says what the property says.
LEMMA PursuitInvMeans == DataOK /\ PursuitInv => NoRequestForgotten
<1> SUFFICES ASSUME DataOK, PursuitInv,
                    NEW c \in accepted \ (acknowledged \cup abandoned \cup strayed)
             PROVE  \/ broken
                    \/ misPopped
                    \/ c \in Range(messageQueue)
                    \/ pc[Callback] # "idle" /\ message[Callback] = c
                    \/ \E t \in Timer : phase[t] = "pending" /\ parked[t] = c
  BY DEF NoRequestForgotten
<1>1. misPopped \/ Kept(c)
  BY DEF PursuitInv, QueuedInv, AcceptedKept
<1>2. Waiting(c) => c \in Range(messageQueue)
  BY DEF Waiting, Range
<1> QED
  BY <1>1, <1>2 DEF Kept

\* It holds in every behaviour.
LEMMA PursuitInductive == Spec => []PursuitInv
<1>1. Init => PursuitInv
  <2> SUFFICES ASSUME Init PROVE PursuitInv
    OBVIOUS
  <2>1. DOMAIN outstanding = {}
    BY EmptySeq DEF Init
  <2>2. \A th \in Thread : pc[th] = "idle"
    BY DEF Init
  <2>3. accepted = {}
    BY DEF Init
  <2> QED
    BY <2>1, <2>2, <2>3 DEF PursuitInv, CallbackHoldsLock, PlacesMeanCodes, RemovesAnswered,
                            QueuedInv, CallbackQueued, AcceptedKept, Thread
<1>2. DataOK /\ CodesHeld /\ PursuitInv /\ [Next]_vars => PursuitInv'
  BY NextHoldsLock, NextMeanCodes, NextRemovesAnswered, NextKept DEF PursuitInv
<1> QED
  BY <1>1, <1>2, DataInductive, PTL DEF Spec

\* For all messages, codes, handlers, calls, expirations and resends: an accepted
\* request that was not answered is in the queue, in the resend callback's hands
\* or in a pending resend timer, unless its resend was given up, the response to
\* another request removed its timer, or a completion took off the queue a
\* message it had not sent.  Nothing else loses a request.
THEOREM NoRequestEverForgotten == Spec => []NoRequestForgotten
  BY PursuitInductive, PursuitInvMeans, DataInductive, PTL

----------------------------------------------------------------------------
(* The entries of transactionAndTimerID before a resend timer expires.     *)

\* A step that leaves the timers, the entries and those who deal with them alone.
StillEntries ==
    /\ UNCHANGED <<phase, id, parked, transactionAndTimerID>>
    /\ pc'[Callback] = pc[Callback]
    /\ \A th \in Thread :
          \/ pc'[th] \notin {"emplace", "remove", "erase"} /\ pc[th] # "erase"
          \/ pc'[th] = pc[th] /\ timerId'[th] = timerId[th] /\ message'[th] = message[th]

\* A step that touches neither the entries nor the timers they name.
LEMMA StillEntriesInv ==
    ASSUME EntriesInv, StillEntries
    PROVE  EntriesInv'
<1> USE DEF StillEntries, EntriesInv
<1>1. Timers!Live' = Timers!Live
  BY DEF Timers!Live
<1>2. NoneExpired'
  BY <1>1 DEF NoneExpired
<1>3. Io \in Thread
  BY DEF Thread
<1>4. EntryStays'
  BY <1>3 DEF EntryStays
<1>5. pc[Io] = "erase" => pc'[Io] = "erase" /\ message'[Io] = message[Io]
  BY <1>3
<1>6. HoldsOwnTimer'
  BY <1>1, <1>5 DEF HoldsOwnTimer
<1>7. EntryNamesTimer'
  BY <1>1, <1>5 DEF EntryNamesTimer, Holds
<1> QED
  BY <1>2, <1>4, <1>6, <1>7

\* registerTimer gives an identifier that no timer of the cache has, so that no
\* entry has it either, but for the one that is just erased.
LEMMA RegisterEntries ==
    ASSUME DataOK, EntriesInv, NEW th \in Thread, registerTimer(th)
    PROVE  EntriesInv'
<1> USE DEF EntriesInv, At, Goto, Set
<1>1. PICK t \in Timer : /\ phase[t] = "new"
                         /\ id' = [id EXCEPT ![t] = FreshId]
                         /\ phase' = [phase EXCEPT ![t] = "pending"]
                         /\ parked' = [parked EXCEPT ![t] = message[th]]
  BY DEF registerTimer, ParkedMessage
<1>2. FreshId # 0 /\ \A u \in Timers!Live : id[u] # FreshId
  BY <1>1, FreshIdMeaning DEF DataOK
<1>3. /\ \A u \in Thread : pc'[u] = IF u = th THEN "emplace" ELSE pc[u]
      /\ \A u \in Thread : timerId'[u] = IF u = th THEN FreshId ELSE timerId[u]
      /\ UNCHANGED <<transactionAndTimerID, message>>
      /\ pc[th] = "register"
  BY DEF registerTimer, DataOK
<1>4. /\ Timers!Live' = Timers!Live \cup {t} /\ t \notin Timers!Live
      /\ id'[t] = FreshId /\ parked'[t] = message[th]
      /\ \A u \in Timers!Live : id'[u] = id[u] /\ parked'[u] = parked[u]
  BY <1>1 DEF Timers!Live, DataOK
<1>5. Io \in Thread /\ Callback \in Thread
  BY DEF Thread
<1>6. NoneExpired'
  <2>1. pc'[Callback] = "idle"
    BY <1>3, <1>5 DEF NoneExpired
  <2>2. \A u \in Timer : phase'[u] \in {"new", "pending", "gone"}
    BY <1>1 DEF NoneExpired, DataOK
  <2> QED
    BY <1>2, <1>4, <2>1, <2>2 DEF NoneExpired
<1>7. EntryStays'
  BY <1>3, <1>5 DEF EntryStays
<1>8. pc[Io] = "erase" => pc'[Io] = "erase" /\ message'[Io] = message[Io]
  BY <1>3, <1>5
<1>9. EntryNamesTimer'
  BY <1>3, <1>4, <1>8 DEF EntryNamesTimer, Holds
<1>10. \A c \in Code : transactionAndTimerID[c] = FreshId =>
         pc[Io] = "erase" /\ message[Io].code = c
  BY <1>2 DEF EntryNamesTimer
<1>11. \A u \in Thread : pc[u] = "emplace" => timerId[u] # FreshId
  BY <1>2 DEF HoldsOwnTimer
<1>12. HoldsOwnTimer'
  BY <1>3, <1>4, <1>8, <1>10, <1>11 DEF HoldsOwnTimer
<1> QED
  BY <1>6, <1>7, <1>9, <1>12

\* emplace makes an entry for the timer the thread has just registered.
LEMMA EmplaceEntries ==
    ASSUME DataOK, CodesHeld, EntriesInv, NEW th \in Thread, emplace(th)
    PROVE  EntriesInv'
<1> USE DEF EntriesInv, At, Goto
<1> DEFINE c == message[th].code
<1>1. /\ pc[th] = "emplace" /\ message[th] \in Message
      /\ \A u \in Thread : pc'[u] = IF u = th THEN "post" ELSE pc[u]
      /\ UNCHANGED <<phase, id, parked, message, timerId>>
  BY DEF emplace, CodesHeld, DataOK, timerVars, localVars
<1>2. \A d \in Code : transactionAndTimerID'[d] =
        IF d = c /\ transactionAndTimerID[d] = 0 THEN timerId[th] ELSE transactionAndTimerID[d]
  BY <1>1 DEF emplace, DataOK
<1>a. c \in Code /\ message[th] # NoMessage
  BY <1>1, MessageCode, NoMessageAssumption
<1> HIDE DEF c
<1>3. Timers!Live' = Timers!Live
  BY <1>1 DEF Timers!Live
<1>4. Io \in Thread /\ Callback \in Thread
  BY DEF Thread
<1>5. NoneExpired'
  BY <1>1, <1>3, <1>4 DEF NoneExpired
<1>6. pc[Io] \in {"remove", "erase"} => pc'[Io] = pc[Io] /\ message[Io].code \in Code
  BY <1>1, <1>4, MessageCode DEF CodesHeld
<1>7. pc'[Io] \in {"remove", "erase"} => pc'[Io] = pc[Io]
  BY <1>1, <1>4
<1>8. EntryStays'
  BY <1>1, <1>2, <1>6, <1>7 DEF EntryStays
<1>9. EntryNamesTimer'
  <2>1. \E t \in Timers!Live : id[t] = timerId[th] /\ Holds(t, c)
    BY <1>1, <1>a DEF HoldsOwnTimer, Holds, c
  <2> QED
    BY <1>1, <1>2, <1>3, <1>6, <2>1 DEF EntryNamesTimer, Holds
<1>10. HoldsOwnTimer'
  BY <1>1, <1>2, <1>3, <1>6 DEF HoldsOwnTimer
<1> QED
  BY <1>5, <1>8, <1>9, <1>10

\* handleResponse takes the entry it found.
LEMMA ResponseEntries ==
    ASSUME DataOK, EntriesInv, NEW c \in Message, handleResponse(c)
    PROVE  EntriesInv'
<1> USE DEF EntriesInv, At, Goto, Set, Receives, IoFree
<1>1. Io \in Thread /\ Callback \in Thread /\ Io # Callback
  BY DEF Thread, Io, Callback
<1>2. UNCHANGED <<phase, id, parked, transactionAndTimerID>> /\ pc[Io] = "idle"
  BY DEF handleResponse, timerVars
<1>3. \A th \in Thread \ {Io} :
        pc'[th] = pc[th] /\ timerId'[th] = timerId[th] /\ message'[th] = message[th]
  BY DEF handleResponse, DataOK
<1>4. \/ pc'[Io] = "idle"
      \/ /\ pc'[Io] = "remove" /\ message'[Io] = c
         /\ timerId'[Io] = transactionAndTimerID[c.code]
         /\ transactionAndTimerID[c.code] # 0
  BY <1>1 DEF handleResponse, DataOK
<1>5. Timers!Live' = Timers!Live
  BY <1>2 DEF Timers!Live
<1>6. NoneExpired'
  BY <1>1, <1>2, <1>3, <1>5 DEF NoneExpired
<1>7. EntryStays'
  BY <1>2, <1>4 DEF EntryStays
<1>8. EntryNamesTimer'
  BY <1>2, <1>5 DEF EntryNamesTimer, Holds
<1>9. HoldsOwnTimer'
  BY <1>2, <1>3, <1>4, <1>5 DEF HoldsOwnTimer
<1> QED
  BY <1>6, <1>7, <1>8, <1>9

\* The timer that handleResponse removes is the one its entry names, which no
\* other entry names and nobody is about to enter.
LEMMA RemoveEntries ==
    ASSUME DataOK, CodesHeld, EntriesInv, removeTimer
    PROVE  EntriesInv'
<1> USE DEF EntriesInv, At, Goto
<1>1. Io \in Thread /\ Callback \in Thread /\ Io # Callback
  BY DEF Thread, Io, Callback
<1>2. /\ pc[Io] = "remove" /\ message[Io] \in Message
      /\ \A u \in Thread : pc'[u] = IF u = Io THEN "erase" ELSE pc[u]
      /\ UNCHANGED <<id, parked, message, timerId, transactionAndTimerID>>
  BY <1>1 DEF removeTimer, CodesHeld, DataOK, localVars
<1>3. Timers!Live' = {t \in Timers!Live : id[t] # timerId[Io]}
  BY DEF removeTimer, Timers!Live, DataOK
<1>4. PICK r \in Timers!Live : id[r] = timerId[Io] /\ Holds(r, message[Io].code)
  BY <1>2, MessageCode DEF EntryNamesTimer, EntryStays
<1>5. NoneExpired'
  <2>1. \A t \in Timer : phase'[t] \in {"new", "pending", "gone"}
    BY DEF removeTimer, NoneExpired, DataOK
  <2> QED
    BY <1>1, <1>2, <1>3, <2>1 DEF NoneExpired
<1>6. EntryStays'
  BY <1>2 DEF EntryStays
<1>7. EntryNamesTimer'
  <2> SUFFICES ASSUME NEW c \in Code, transactionAndTimerID[c] # 0, c # message[Io].code
               PROVE  \E t \in Timers!Live' : id[t] = transactionAndTimerID[c] /\ Holds(t, c)
    BY <1>1, <1>2 DEF EntryNamesTimer, Holds
  <2>1. PICK t \in Timers!Live : id[t] = transactionAndTimerID[c] /\ Holds(t, c)
    BY <1>2 DEF EntryNamesTimer
  <2>2. id[t] # timerId[Io]
    BY <1>4, <2>1 DEF NoneExpired, Holds
  <2> QED
    BY <1>3, <2>1, <2>2
<1>8. HoldsOwnTimer'
  <2>1. ASSUME NEW th \in Thread, pc[th] = "emplace"
        PROVE  timerId[th] # timerId[Io]
    BY <1>2, <2>1, MessageCode DEF HoldsOwnTimer, EntryStays
  <2>2. ASSUME NEW th \in Thread, pc[th] = "emplace"
        PROVE  \E t \in Timers!Live' : id[t] = timerId[th] /\ parked[t] = message[th]
    BY <1>3, <2>1, <2>2 DEF HoldsOwnTimer
  <2>3. \A th \in Thread : pc'[th] = "emplace" => pc[th] = "emplace"
    BY <1>2
  <2> QED
    BY <1>2, <2>2, <2>3 DEF HoldsOwnTimer
<1> QED
  BY <1>5, <1>6, <1>7, <1>8

\* erase removes the entry whose timer was removed.
LEMMA EraseEntries ==
    ASSUME DataOK, CodesHeld, EntriesInv, eraseTransaction, ~Undefined
    PROVE  EntriesInv'
<1> USE DEF EntriesInv
<1>1. Io \in Thread /\ Callback \in Thread /\ Io # Callback
  BY DEF Thread, Io, Callback
<1>2. pc[Io] = "erase" /\ Leave(Io) /\ UNCHANGED <<id, parked>> /\ message[Io] \in Message
  BY <1>1 DEF eraseTransaction, At, CodesHeld
<1>3. /\ \A u \in Thread \ {Io} :
             pc'[u] = pc[u] /\ message'[u] = message[u] /\ timerId'[u] = timerId[u]
      /\ pc'[Io] = "idle" /\ phase' = phase
  BY <1>1, <1>2, LeaveType DEF DataOK
<1>4. \A d \in Code : transactionAndTimerID'[d] =
                       IF d = message[Io].code THEN 0 ELSE transactionAndTimerID[d]
  BY DEF eraseTransaction, Erased, DataOK
<1>5. Timers!Live' = Timers!Live
  BY <1>3 DEF Timers!Live
<1>6. NoneExpired'
  BY <1>1, <1>2, <1>3, <1>5 DEF NoneExpired
<1>7. EntryStays'
  BY <1>3 DEF EntryStays
<1>8. EntryNamesTimer'
  BY <1>2, <1>4, <1>5 DEF EntryNamesTimer, Holds
<1>9. HoldsOwnTimer'
  <2>1. \A th \in Thread : pc[th] = "emplace" => timerId[th] # 0
    BY DEF HoldsOwnTimer, NoneExpired
  <2> QED
    BY <1>2, <1>3, <1>4, <1>5, <2>1 DEF HoldsOwnTimer
<1> QED
  BY <1>6, <1>7, <1>8, <1>9

\* Every step keeps the entries true, as long as no timer expires.
LEMMA NextEntries ==
    ASSUME ~Expiring, DataOK, CodesHeld, EntriesInv, [Next]_vars
    PROVE  EntriesInv'
<1> USE DEF At, Goto, Set, timerVars, localVars
<1>0. Thread = {User, Io, Callback} /\ User # Io /\ Io # Callback /\ User # Callback
  BY DEF Thread, User, Io, Callback
<1>1. CASE UNCHANGED vars \/ Undefined
  <2>1. StillEntries
    BY <1>1 DEF vars, soundVars, Undefined, StillEntries
  <2> QED
    BY <2>1, StillEntriesInv
<1>2. ASSUME NEW c \in Code, managerSendRequest(c) \/ handlerSendsRequest(c)
      PROVE  EntriesInv'
  <2>1. StillEntries
    BY <1>0, <1>2 DEF managerSendRequest, sendSubscribeRequest, handlerSendsRequest,
                      sendRequest, StillEntries, DataOK
  <2> QED
    BY <2>1, StillEntriesInv
<1>3. ASSUME NEW th \in Thread, Sending(th), ~Undefined
      PROVE  EntriesInv'
  <2>1. th # Callback
    BY <1>3 DEF Sending, size, front, registerTimer, emplace, post, EntriesInv, NoneExpired
  <2>2. CASE size(th) \/ front(th)
    <3>1. StillEntries
      BY <1>0, <1>3, <2>1, <2>2 DEF size, front, Leave, StillEntries, DataOK
    <3> QED
      BY <3>1, StillEntriesInv
  <2>3. CASE post(th)
    <3>1. StillEntries
      BY <1>0, <1>3, <2>1, <2>3 DEF post, Leave, StillEntries, DataOK
    <3> QED
      BY <3>1, StillEntriesInv
  <2> QED
    BY <1>3, <2>2, <2>3, RegisterEntries, EmplaceEntries DEF Sending
<1>4. CASE (sendSucceeded \/ empty \/ processSendError \/ processHandleReceiveError) /\ ~Undefined
  <2>1. StillEntries
    BY <1>0, <1>4 DEF sendSucceeded, empty, processSendError, processHandleReceiveError,
                      IoFree, StillEntries, DataOK
  <2> QED
    BY <2>1, StillEntriesInv
<1>5. ASSUME NEW s \in Range(Key), handleRequest(s), ~Undefined
      PROVE  EntriesInv'
  <2>1. StillEntries
    BY <1>5 DEF handleRequest, StillEntries
  <2> QED
    BY <2>1, StillEntriesInv
<1>6. ASSUME NEW h \in Handler, registerNewEventHandler(h)
      PROVE  EntriesInv'
  <2>1. StillEntries
    BY <1>0, <1>6 DEF registerNewEventHandler, serverVars, StillEntries, DataOK
  <2> QED
    BY <2>1, StillEntriesInv
<1>7. CASE eventAdded
  <2>1. StillEntries
    BY <1>0, <1>7 DEF eventAdded, serverVars, StillEntries, DataOK
  <2> QED
    BY <2>1, StillEntriesInv
<1>8. CASE (runHandler \/ nextHandler) /\ ~Undefined
  <2>1. StillEntries
    BY <1>8 DEF runHandler, nextHandler, serverVars, StillEntries
  <2> QED
    BY <2>1, StillEntriesInv
<1>9. \A t \in Timer : ~expire(t)
  BY DEF expire
<1>10. \A service \in Lookup : ~resend(service)
  BY DEF resend, EntriesInv, NoneExpired
<1>11. ~removeEndedTimers
  BY DEF removeEndedTimers, EntriesInv, NoneExpired
<1> QED
  BY <1>1, <1>2, <1>3, <1>4, <1>5, <1>6, <1>7, <1>8, <1>9, <1>10, <1>11,
     ResponseEntries, RemoveEntries, EraseEntries DEF Next, Handling, generateTransactionCode

\* Hence they are true in every behaviour without expirations.
LEMMA EntriesInductive ==
    ASSUME ~Expiring
    PROVE  Spec => []EntriesInv
<1>1. Init => EntriesInv
  <2> SUFFICES ASSUME Init PROVE EntriesInv
    OBVIOUS
  <2>1. (\A th \in Thread : pc[th] = "idle") /\ Io \in Thread /\ Callback \in Thread
    BY DEF Init, Thread
  <2>2. \A t \in Timer : phase[t] = "new"
    BY DEF Init, Timers!Init
  <2>3. \A c \in Code : transactionAndTimerID[c] = 0
    BY DEF Init
  <2> QED
    BY <2>1, <2>2, <2>3 DEF EntriesInv, NoneExpired, EntryStays, HoldsOwnTimer,
                            EntryNamesTimer, Timers!Live
<1>2. DataOK /\ CodesHeld /\ EntriesInv /\ [Next]_vars => EntriesInv'
  BY NextEntries
<1> QED
  BY <1>1, <1>2, DataInductive, PTL DEF Spec

\* Until the first resend timer expires, and whoever calls sendRequest: an entry
\* of transactionAndTimerID names a timer of the cache that holds a message
\* with the entry's code, although registerTimer, emplace, find, removeTimer and erase are
\* separate steps of two threads and identifiers are given again.
THEOREM EntriesStayTrue ==
    ASSUME ~Expiring
    PROVE  Spec => []EntriesNameLiveTimers
<1>1. EntriesInv => EntriesNameLiveTimers
  BY DEF EntriesInv, EntryNamesTimer, EntriesNameLiveTimers
<1> QED
  BY <1>1, EntriesInductive, PTL

\* Only removeTimer adds to strayed, and what was answered stays so.
LEMMA NextResults ==
    ASSUME [Next]_vars, ~removeTimer
    PROVE  strayed' = strayed /\ acknowledged \subseteq acknowledged'
<1> USE DEF resultVars
<1>1. CASE UNCHANGED vars \/ Undefined
  BY <1>1 DEF vars, soundVars, Undefined
<1>2. ASSUME NEW c \in Code, managerSendRequest(c) \/ handlerSendsRequest(c)
      PROVE  strayed' = strayed /\ acknowledged' = acknowledged
  BY <1>2 DEF managerSendRequest, sendSubscribeRequest, handlerSendsRequest, sendRequest
<1>3. ASSUME NEW th \in Thread, Sending(th), ~Undefined
      PROVE  strayed' = strayed /\ acknowledged' = acknowledged
  BY <1>3 DEF Sending, size, front, registerTimer, emplace, post
<1>4. CASE /\ sendSucceeded \/ empty \/ processSendError \/ processHandleReceiveError
              \/ eraseTransaction
           /\ ~Undefined
  BY <1>4 DEF sendSucceeded, empty, processSendError, processHandleReceiveError,
              eraseTransaction
<1>5. ASSUME NEW m \in Message, handleResponse(m)
      PROVE  strayed' = strayed /\ acknowledged \subseteq acknowledged'
  BY <1>5 DEF handleResponse
<1>6. ASSUME ~Undefined,
             \/ \E s \in Range(Key) : handleRequest(s)
             \/ \E h \in Handler : registerNewEventHandler(h)
             \/ eventAdded \/ runHandler \/ nextHandler
      PROVE  strayed' = strayed /\ acknowledged' = acknowledged
  BY <1>6 DEF handleRequest, registerNewEventHandler, eventAdded, runHandler, nextHandler,
              serverVars
<1>7. ASSUME \/ \E t \in Timer : expire(t)
             \/ \E service \in Lookup : resend(service)
             \/ removeEndedTimers
      PROVE  strayed' = strayed /\ acknowledged' = acknowledged
  BY <1>7 DEF expire, resend, removeEndedTimers
<1> QED
  BY <1>1, <1>2, <1>3, <1>4, <1>5, <1>6, <1>7 DEF Next, Handling, generateTransactionCode

\* Until the first resend timer expires, a response stops the timer of another
\* request only if generateTransactionCode gave both requests the same code.
THEOREM OnlySharedCodesEverStray ==
    ASSUME ~Expiring
    PROVE  Spec => []OnlySharedCodesStray
<1> USE DEF OnlySharedCodesStray
<1>1. Init => OnlySharedCodesStray
  BY DEF Init
<1>2. ASSUME CodesHeld, RemovesAnswered, EntriesInv, OnlySharedCodesStray, removeTimer
      PROVE  OnlySharedCodesStray'
  <2>1. /\ pc[Io] = "remove" /\ Io \in Thread /\ acknowledged' = acknowledged
        /\ \A m \in strayed' : \/ m \in strayed
                              \/ /\ m # message[Io]
                                 /\ \E t \in Timers!Live : id[t] = timerId[Io] /\ m = parked[t]
    BY <1>2 DEF removeTimer, At, Thread
  <2>2. message[Io] \in acknowledged /\ message[Io].code \in Code
    BY <1>2, <2>1, MessageCode DEF RemovesAnswered, CodesHeld
  <2>3. PICK r \in Timers!Live : id[r] = timerId[Io] /\ Holds(r, message[Io].code)
    BY <1>2, <2>1, <2>2 DEF EntriesInv, EntryNamesTimer, EntryStays
  <2>4. \A t \in Timers!Live : id[t] = timerId[Io] => parked[t].code = message[Io].code
    BY <1>2, <2>3 DEF EntriesInv, NoneExpired, Holds
  <2> QED
    BY <1>2, <2>1, <2>2, <2>4
<1>3. ASSUME [Next]_vars, ~removeTimer
      PROVE  strayed' = strayed /\ acknowledged \subseteq acknowledged'
  BY <1>3, NextResults
<1>4. CodesHeld /\ RemovesAnswered /\ EntriesInv /\ OnlySharedCodesStray /\ [Next]_vars
      => OnlySharedCodesStray'
  BY <1>2, <1>3
<1>5. PursuitInv => RemovesAnswered
  BY DEF PursuitInv
<1> QED
  BY <1>1, <1>4, <1>5, EntriesInductive, PursuitInductive, DataInductive, PTL DEF Spec
===========================================================================
