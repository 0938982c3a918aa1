--------------------------- MODULE ModuleServer ---------------------------
(***************************************************************************)
(* The module's message server: the queue of outgoing requests, the UDP    *)
(* sends, the resend timers and the responses that stop them, and the      *)
(* received requests with their handlers (src/Source/src/ModuleServer.cpp, *)
(* include/MessageQueue.hpp).                                              *)
(*                                                                         *)
(* Three threads run its code: the user's thread calls sendRequest and     *)
(* registers handlers; the io_context thread runs the completions of sends *)
(* and receives, and the handlers of requests, which may send requests     *)
(* too; and the thread std::async starts for an expired resend timer,      *)
(* while the timers thread waits for it with timersLock held.              *)
(*                                                                         *)
(* The timers are those of TimerService.  Here every pending timer may     *)
(* expire at any moment, and whoever registers or removes a timer waits    *)
(* for the lock, that is, until no callback runs.  The handlers of         *)
(* requests are those of EventsCache.  A message is the call of sendRequest *)
(* that made it, by number, and the transaction code in its header, which  *)
(* other messages may have too; destination and payload decide nothing.    *)
(***************************************************************************)
EXTENDS EventsCache

CONSTANTS Code,         \* transaction codes, rand() % 1000 + 1 in the source
          NoMessage,
          MaxRequests,  \* bound: calls of sendRequest
          MaxTimers,    \* bound: resend timers registered
          MaxReceived,  \* bound: requests received
          Expiring      \* FALSE: the run ends before a resend timer expires

ASSUME BoundsType ==
    /\ MaxRequests \in Nat /\ MaxTimers \in Nat /\ MaxReceived \in Nat
    /\ Expiring \in BOOLEAN

Message == [call : 1 .. MaxRequests, code : Code]

ASSUME NoMessageAssumption == NoMessage \notin Message

User == "user"
Io == "io"
Callback == "callback"
Thread == {User, Io, Callback}
Timer == 1 .. MaxTimers

VARIABLES
    messageQueue,            \* the queued messages
    popped,                  \* how many messages were taken off the queue
    transactionAndTimerID,   \* code -> timer identifier, 0 when absent
    phase, id,               \* the timers (TimerService)
    parked,                  \* parked[t]: the message timer t would resend
    outstanding,             \* async sends in progress: places in the queue
    transmitted,             \* messages that left on the wire
    reading,                 \* an async_receive_from is outstanding
    pc,                      \* pc[th]: where thread th is in the server's code
    ref,                     \* ref[th]: place of the message send() refers to
    message,                 \* message[th]: the message th sends, or got a response to
    timerId,                 \* timerId[th]: the identifier th deals with
    requests, received,      \* calls of sendRequest, and requests received, so far
    accepted,                \* messages the calls of sendRequest have queued
    acknowledged,            \* messages a success response was received for
    abandoned,               \* messages whose resend found no service or threw
    strayed,                 \* messages whose timer the response to another removed
    sendFailed,              \* a send completed with an error
    misPopped,               \* a completion took off a message it had not sent
    broken                   \* undefined behaviour happened: the run ends

queueVars == <<messageQueue, popped>>
timerVars == <<phase, id, parked>>
netVars == <<outstanding, transmitted, reading>>
localVars == <<ref, message, timerId>>
askedVars == <<requests, accepted>>
resultVars == <<received, acknowledged, abandoned, strayed, sendFailed, misPopped>>
soundVars == <<queueVars, transactionAndTimerID, timerVars, netVars, pc, localVars,
               askedVars, resultVars, eventVars>>
vars == <<soundVars, broken>>

Timers == INSTANCE TimerService
              WITH Repeatable <- {}, now <- 1, due <- [t \in Timer |-> 0]

InSend == {"front", "register", "emplace", "post"}
Pc == {"idle", "size", "empty", "remove", "erase", "resend", "adding"} \cup InSend

TypeOK ==
    /\ messageQueue \in Seq(Message)
    /\ popped \in Nat
    /\ transactionAndTimerID \in [Code -> 0 .. MaxTimers]
    /\ phase \in [Timer -> Timers!Phase]
    /\ id \in [Timer -> 0 .. MaxTimers]
    /\ parked \in [Timer -> Message \cup {NoMessage}]
    /\ outstanding \in Seq(Nat)
    /\ transmitted \in SUBSET Message
    /\ pc \in [Thread -> Pc]
    /\ ref \in [Thread -> Nat]
    /\ message \in [Thread -> Message \cup {NoMessage}]
    /\ timerId \in [Thread -> 0 .. MaxTimers]
    /\ requests \in 0 .. MaxRequests /\ received \in 0 .. MaxReceived
    /\ {accepted, acknowledged, abandoned, strayed} \subseteq SUBSET Message
    /\ {reading, sendFailed, misPopped, broken} \subseteq BOOLEAN
    /\ EventsTypeOK

Init ==
    /\ messageQueue = <<>> /\ popped = 0
    /\ transactionAndTimerID = [c \in Code |-> 0]
    /\ Timers!Init
    /\ parked = [t \in Timer |-> NoMessage]
    /\ outstanding = <<>> /\ transmitted = {} /\ reading = TRUE
    /\ pc = [th \in Thread |-> "idle"]
    /\ ref = [th \in Thread |-> 0]
    /\ message = [th \in Thread |-> NoMessage]
    /\ timerId = [th \in Thread |-> 0]
    /\ requests = 0 /\ received = 0
    /\ accepted = {} /\ acknowledged = {} /\ abandoned = {} /\ strayed = {}
    /\ sendFailed = FALSE /\ misPopped = FALSE /\ broken = FALSE
    /\ EventsInit

----------------------------------------------------------------------------
(* The pieces the handlers are made of.                                    *)

At(th, where) == pc[th] = where /\ ~broken
Goto(th, where) == pc' = [pc EXCEPT ![th] = where]
Set(f, th, value) == [f EXCEPT ![th] = value]

\* The io_context thread is between two completion handlers.
IoFree == At(Io, "idle") /\ loop = NoLoop

\* front() or pop() of an empty queue, a reference to a popped message, erase()
\* of a dead iterator, two threads in one multimap: anything; the run ends.
Undefined == broken' = TRUE /\ UNCHANGED soundVars

Firing == {t \in Timer : phase[t] = "firing"}

\* timersLock is held while a callback runs.
LockFree == Firing = {}

\* Leave the server's code: the locals go out of scope, and the resend
\* callback returns to the timers thread.
Leave(th) ==
    /\ Goto(th, "idle")
    /\ ref' = Set(ref, th, 0)
    /\ message' = Set(message, th, NoMessage)
    /\ timerId' = Set(timerId, th, 0)
    /\ phase' = [t \in Timer |->
                   IF th = Callback /\ t \in Firing THEN "done" ELSE phase[t]]

\* Mutant: the message is lost.
push_lost(m) == UNCHANGED messageQueue

push(m) == messageQueue' = Append(messageQueue, m)

\* Mutant: the place before the front.
FrontPlace_offByOne == popped - 1

\* Messages are counted as they leave: the place of the front of the queue.
FrontPlace == popped + 1

\* Mutant: the message just pushed is taken for one being sent.
SendInProgress_offByOne == Len(messageQueue) >= 1

\* More than one message is taken to mean that somebody is sending.
SendInProgress == Len(messageQueue) > 1

\* Mutant: the completion leaves without looking at the rest of the queue.
MoreToSend_never == FALSE

MoreToSend == messageQueue # <<>>

\* Mutant: the timer is removed but the entry stays.
Erased_forgotten(c) == transactionAndTimerID

Erased(c) == [transactionAndTimerID EXCEPT ![c] = 0]

\* Mutant: the message is not copied into what the resend timer holds.
ParkedMessage_empty(th) == NoMessage

\* The resend timer holds a copy of the message.
ParkedMessage(th) == message[th]

\* The fields of a service's document, in the order they are examined: one that
\* is not there makes type() throw.
viewToServiceRecord(view) ==
    LET bad == {i \in 1 .. 4 : view[i] # "right"}
    IN  IF bad = {} THEN "record"
        ELSE IF view[Min(bad)] = "wrong" THEN "nullopt" ELSE "throw"

\* What find_one gives: no document, or the fields of one.
getService(result) == IF result = <<>> THEN "nullopt" ELSE viewToServiceRecord(result)

\* The destination is looked up in the database, since nothing ever fills
\* servicesEndpointsMap; find_one throws without a database, from_string for a
\* bad address.
Lookup ==
    {"throw"} \cup {getService(result) : result \in
                        {<<>>} \cup [1 .. 4 -> {"right", "wrong", "unset"}]}

\* Any code, whether in use or not: the one drawn at random is compared only
\* with parkedMessages, which nothing ever fills.
generateTransactionCode == Code

----------------------------------------------------------------------------
(* sendRequest: look the service up, queue the message, send if alone.     *)

\* A call for a service that getService finds; otherwise it changes nothing.
sendRequest(th, c) ==
    /\ requests < MaxRequests
    /\ requests' = requests + 1
    /\ LET m == [call |-> requests + 1, code |-> c]
       IN  accepted' = accepted \cup {m} /\ push(m)
    /\ Goto(th, "size")
    /\ UNCHANGED <<popped, transactionAndTimerID, timerVars, netVars, localVars,
                   resultVars, broken>>

\* A subscription goes the same way; the payload differs.
sendSubscribeRequest(th, c) == sendRequest(th, c)

\* The user's task calls the manager, which runs it only after startModuleServer
\* has initialised the manager.
managerSendRequest(c) ==
    /\ At(User, "idle")
    /\ sendRequest(User, c) \/ sendSubscribeRequest(User, c)
    /\ UNCHANGED eventVars

\* size() is a second locked call, after push().
size(th) ==
    /\ At(th, "size")
    /\ \/ SendInProgress /\ Leave(th)
       \/ ~SendInProgress /\ Goto(th, "front") /\ UNCHANGED <<localVars, phase>>
    /\ UNCHANGED <<queueVars, transactionAndTimerID, id, parked, netVars, askedVars,
                   resultVars, eventVars, broken>>

----------------------------------------------------------------------------
(* send, with startTimerToResend and sendToDestination.                    *)

\* front() returns a reference into the queue.
front(th) ==
    /\ At(th, "front")
    /\ \/ messageQueue = <<>> /\ Undefined
       \/ /\ messageQueue # <<>>
          /\ ref' = Set(ref, th, FrontPlace)
          /\ message' = Set(message, th, Head(messageQueue))
          /\ Goto(th, "register")
          /\ UNCHANGED <<queueVars, transactionAndTimerID, timerVars, netVars, timerId,
                         askedVars, resultVars, eventVars, broken>>

\* The identifier generateTimerID gives (module TimersCache).
FreshId == Min({i \in Timer : \A t \in Timers!Live : id[t] # i})

\* timersCache.registerTimer.  The resend callback calls it as well, on the
\* thread the lock's holder waits for.
registerTimer(th) ==
    /\ At(th, "register")
    /\ LockFree
    /\ \E t \in Timer :
         /\ phase[t] = "new" /\ \A u \in 1 .. t - 1 : phase[u] # "new"
         /\ id' = [id EXCEPT ![t] = FreshId]
         /\ phase' = [phase EXCEPT ![t] = "pending"]
         /\ Timers!Register(t)
         /\ parked' = [parked EXCEPT ![t] = ParkedMessage(th)]
    /\ timerId' = Set(timerId, th, FreshId)
    /\ Goto(th, "emplace")
    /\ UNCHANGED <<queueVars, transactionAndTimerID, netVars, ref, message, askedVars,
                   resultVars, eventVars, broken>>

\* std::map::emplace leaves an entry that is already there as it is.
emplace(th) ==
    /\ At(th, "emplace")
    /\ transactionAndTimerID' =
         [transactionAndTimerID EXCEPT ![message[th].code] = IF @ = 0 THEN timerId[th] ELSE @]
    /\ Goto(th, "post")
    /\ UNCHANGED <<queueVars, timerVars, netVars, localVars, askedVars, resultVars,
                   eventVars, broken>>

\* The message is serialised through the reference, and async_send_to starts.
post(th) ==
    /\ At(th, "post")
    /\ \/ ref[th] <= popped /\ Undefined
       \/ /\ ref[th] > popped
          /\ outstanding' = Append(outstanding, ref[th])
          /\ transmitted' = transmitted \cup {message[th]}
          /\ Leave(th)
          /\ UNCHANGED <<queueVars, transactionAndTimerID, id, parked, reading,
                         askedVars, resultVars, eventVars, broken>>

Sending(th) == size(th) \/ front(th) \/ registerTimer(th) \/ emplace(th) \/ post(th)

----------------------------------------------------------------------------
(* The io_context thread: completions of sends, in the order they were     *)
(* started, and receptions.                                                *)

sendSucceeded ==
    /\ IoFree
    /\ outstanding # <<>>
    /\ \/ messageQueue = <<>> /\ Undefined
       \/ /\ messageQueue # <<>>
          /\ messageQueue' = Tail(messageQueue)
          /\ popped' = popped + 1
          /\ misPopped' = (misPopped \/ Head(outstanding) # popped + 1)
          /\ outstanding' = Tail(outstanding)
          /\ Goto(Io, "empty")
          /\ UNCHANGED <<transactionAndTimerID, timerVars, transmitted, reading,
                         localVars, askedVars, received, acknowledged, abandoned,
                         strayed, sendFailed, eventVars, broken>>

\* empty() is a second locked call, after pop().
empty ==
    /\ At(Io, "empty")
    /\ Goto(Io, IF MoreToSend THEN "front" ELSE "idle")
    /\ UNCHANGED <<queueVars, transactionAndTimerID, timerVars, netVars, localVars,
                   askedVars, resultVars, eventVars, broken>>

\* processSendError does nothing: the message stays at the head of the queue.
processSendError ==
    /\ IoFree
    /\ outstanding # <<>>
    /\ outstanding' = Tail(outstanding)
    /\ sendFailed' = TRUE
    /\ UNCHANGED <<queueVars, transactionAndTimerID, timerVars, transmitted, reading, pc,
                   localVars, askedVars, received, acknowledged, abandoned, strayed,
                   misPopped, eventVars, broken>>

\* A message was received: startReading, and then the message is handled.  One
\* that is neither a request nor a response (a subscription request, too) or
\* does not parse changes nothing.
Receives == IoFree /\ reading

\* handleRequest; its handlers are the user's code.
handleRequest(sender) ==
    /\ Receives
    /\ received < MaxReceived
    /\ \/ Race /\ Undefined
       \/ /\ BeginLoop(sender)
          /\ received' = received + 1
          /\ UNCHANGED <<queueVars, transactionAndTimerID, timerVars, netVars, pc,
                         localVars, askedVars, acknowledged, abandoned, strayed,
                         sendFailed, misPopped, broken>>

\* handleResponse with Success, for a message m sent before: all it has of m is
\* the code.  The network may delay, repeat and reorder responses, or lose them.
\* A failure response, and a transaction that is not in the map, change nothing.
handleResponse(m) ==
    /\ Receives
    /\ m \in transmitted
    /\ acknowledged' = acknowledged \cup {m}
    /\ \/ /\ transactionAndTimerID[m.code] # 0
          /\ message' = Set(message, Io, m)
          /\ timerId' = Set(timerId, Io, transactionAndTimerID[m.code])
          /\ Goto(Io, "remove")
       \/ /\ transactionAndTimerID[m.code] = 0
          /\ UNCHANGED <<message, timerId, pc>>
    /\ UNCHANGED <<queueVars, transactionAndTimerID, timerVars, netVars, ref, askedVars,
                   received, abandoned, strayed, sendFailed, misPopped, eventVars, broken>>

\* timersCache.removeTimer of the identifier the entry holds, whatever message
\* that timer was to resend.
removeTimer ==
    /\ At(Io, "remove")
    /\ LockFree
    /\ LET removed == {t \in Timers!Live : id[t] = timerId[Io]}
       IN  /\ phase' = [t \in Timer |-> IF t \in removed THEN "gone" ELSE phase[t]]
           /\ strayed' = strayed \cup ({parked[t] : t \in removed} \ {message[Io]})
    /\ Goto(Io, "erase")
    /\ UNCHANGED <<queueVars, transactionAndTimerID, id, parked, netVars, localVars,
                   askedVars, received, acknowledged, abandoned, sendFailed, misPopped,
                   eventVars, broken>>

\* erase(iter), with the iterator found before removeTimer waited for the lock.
eraseTransaction ==
    /\ At(Io, "erase")
    /\ \/ transactionAndTimerID[message[Io].code] # timerId[Io] /\ Undefined
       \/ /\ transactionAndTimerID[message[Io].code] = timerId[Io]
          /\ transactionAndTimerID' = Erased(message[Io].code)
          /\ Leave(Io)
          /\ UNCHANGED <<queueVars, id, parked, netVars, askedVars, resultVars,
                         eventVars, broken>>

\* processHandleReceiveError does nothing, and nobody reads again.
processHandleReceiveError ==
    /\ Receives
    /\ reading' = FALSE
    /\ UNCHANGED <<queueVars, transactionAndTimerID, timerVars, outstanding, transmitted,
                   pc, localVars, askedVars, resultVars, eventVars, broken>>

----------------------------------------------------------------------------
(* The handlers of requests.                                               *)

serverVars == <<queueVars, transactionAndTimerID, timerVars, netVars, localVars,
                askedVars, resultVars, broken>>

\* The user's thread registers a handler.
registerNewEventHandler(h) ==
    /\ At(User, "idle")
    /\ BeginAddEvent(h)
    /\ Goto(User, "adding")
    /\ UNCHANGED serverVars

eventAdded ==
    /\ At(User, "adding")
    /\ EndAddEvent
    /\ Goto(User, "idle")
    /\ UNCHANGED serverVars

\* A handler runs on the io_context thread, if it accepts the message; it may
\* register another one, or meet the user's thread doing so.
runHandler ==
    /\ At(Io, "idle")
    /\ \/ \E added \in Handler \cup {NoHandler} :
            Visit(added) /\ UNCHANGED <<serverVars, pc>>
       \/ Visiting /\ Valid(loop.it) /\ Race /\ Undefined

\* A handler sends a request.
handlerSendsRequest(c) ==
    /\ At(Io, "idle")
    /\ Visiting /\ Valid(loop.it)
    /\ Visit(NoHandler)
    /\ sendRequest(Io, c)

nextHandler ==
    /\ At(Io, "idle")
    /\ \/ loop.stage = "next" /\ Race /\ Undefined
       \/ (Advance \/ EndLoop) /\ UNCHANGED <<serverVars, pc>>

----------------------------------------------------------------------------
(* The resend callback and the timers thread.                              *)

\* A resend timer expires; its callback forgets the transaction's timer.
expire(t) ==
    /\ Expiring
    /\ At(Callback, "idle")
    /\ Timers!Fire(t)
    /\ message' = Set(message, Callback, parked[t])
    /\ transactionAndTimerID' = Erased(parked[t].code)
    /\ Goto(Callback, "resend")
    /\ UNCHANGED <<queueVars, parked, netVars, ref, timerId, askedVars, resultVars,
                   eventVars, broken>>

\* sendRequest(identifier, message) from the callback: the same code again.
\* Without the service the callback returns; when the lookup throws, the timer
\* stays in the cache, Running for ever.
resend(service) ==
    /\ At(Callback, "resend")
    /\ \/ /\ service = "record"
          /\ push(message[Callback])
          /\ Goto(Callback, "size")
          /\ UNCHANGED <<abandoned, timerVars, localVars>>
       \/ /\ service = "nullopt"
          /\ abandoned' = abandoned \cup {message[Callback]}
          /\ Leave(Callback)
          /\ UNCHANGED <<messageQueue, id, parked>>
       \/ /\ service = "throw"
          /\ abandoned' = abandoned \cup {message[Callback]}
          /\ \E t \in Firing : Timers!Fail(t)
          /\ Goto(Callback, "idle")
          /\ message' = Set(message, Callback, NoMessage)
          /\ UNCHANGED <<messageQueue, parked, ref, timerId>>
    /\ UNCHANGED <<popped, transactionAndTimerID, netVars, askedVars, received,
                   acknowledged, strayed, sendFailed, misPopped, eventVars, broken>>

\* The timers thread drops the timers whose callback has returned.
removeEndedTimers ==
    /\ ~broken
    /\ \E t \in Timer : phase[t] = "done"
    /\ Timers!Collect
    /\ UNCHANGED <<queueVars, transactionAndTimerID, parked, netVars, pc, localVars,
                   askedVars, resultVars, eventVars, broken>>

----------------------------------------------------------------------------

Handling == runHandler \/ nextHandler \/ \E c \in generateTransactionCode : handlerSendsRequest(c)

Next ==
    \/ \E c \in generateTransactionCode : managerSendRequest(c)
    \/ \E th \in Thread : Sending(th)
    \/ sendSucceeded
    \/ empty
    \/ processSendError
    \/ \E s \in Range(Key) : handleRequest(s)
    \/ \E m \in Message : handleResponse(m)
    \/ removeTimer
    \/ eraseTransaction
    \/ processHandleReceiveError
    \/ \E h \in Handler : registerNewEventHandler(h)
    \/ eventAdded
    \/ Handling
    \/ \E t \in Timer : expire(t)
    \/ \E service \in Lookup : resend(service)
    \/ removeEndedTimers

Spec == Init /\ [][Next]_vars

\* A thread inside the server's code goes on, and the io_context, whose queue
\* of handlers is first in first out, comes to every completed send.
Fairness ==
    /\ \A th \in Thread : WF_vars(Sending(th))
    /\ WF_vars(empty)
    /\ WF_vars(removeTimer)
    /\ WF_vars(eraseTransaction)
    /\ WF_vars(Handling)
    /\ SF_vars(sendSucceeded \/ processSendError)

LiveSpec == Spec /\ Fairness

----------------------------------------------------------------------------
(* Properties.                                                             *)

\* The message timer t would resend has code c.
Holds(t, c) == parked[t] # NoMessage /\ parked[t].code = c

\* When messages are queued, somebody is sending or about to (the trace
\* "Server::startSending - Sending in progress"), unless a send has failed:
\* then the head of the queue is never sent again.
SendingInProgress ==
    messageQueue # <<>> /\ ~sendFailed /\ ~broken =>
        \/ outstanding # <<>>
        \/ \E th \in Thread : pc[th] \in InSend \cup {"size", "empty"}

\* An entry of transactionAndTimerID names a timer of the cache whose message has
\* the entry's code ("Put timer ID into running transactions lists"), until
\* handleResponse has removed that timer and is about to erase the entry.
EntriesNameLiveTimers ==
    \A c \in Code :
        \/ transactionAndTimerID[c] = 0
        \/ broken
        \/ \E t \in Timers!Live : id[t] = transactionAndTimerID[c] /\ Holds(t, c)
        \/ pc[Io] = "erase" /\ message[Io].code = c

\* A message that was accepted and not acknowledged is still pursued: it is in
\* the queue, in the resend callback's hands or in a pending resend timer;
\* unless its resend was given up, the response to another message removed its
\* timer, or a completion took off the queue a message that it had not sent.
NoRequestForgotten ==
    \A m \in accepted \ (acknowledged \cup abandoned \cup strayed) :
        \/ broken
        \/ misPopped
        \/ m \in Range(messageQueue)
        \/ pc[Callback] # "idle" /\ message[Callback] = m
        \/ \E t \in Timer : phase[t] = "pending" /\ parked[t] = m

\* As long as no resend timer has expired, handleResponse removes the timer of
\* another message only when generateTransactionCode gave both the same code.
OnlySharedCodesStray ==
    \A m \in strayed : \E n \in acknowledged : n # m /\ n.code = m.code

\* A message in the queue is transmitted, unless a send failed, or a completion
\* took off the queue a message that it had not sent.
QueuedIsTransmitted ==
    \A k \in 1 .. MaxRequests :
        (\E m \in Range(messageQueue) : m.call = k) ~>
            (\E m \in transmitted : m.call = k) \/ sendFailed \/ misPopped \/ broken

\* "Register timer into cache, but it does not lock acces to it, use it only in
\* places in which we are already locked / For example in timer handlers": a
\* timer handler never asks for the lock its own timers thread holds.
HandlersTakeNoLock == ~(pc[Callback] = "register" /\ Firing # {})

\* "Remove send message": the completion of a send takes off the queue the
\* message that was sent.
RemovesSentMessage == ~misPopped
===========================================================================
