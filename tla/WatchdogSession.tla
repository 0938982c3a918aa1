-------------------------- MODULE WatchdogSession --------------------------
(***************************************************************************)
(* The session with the watchdog and the life of the process around it:    *)
(* main (start-up, shutdown), the io_context thread (completion handlers   *)
(* and the ping timer) and the watcher thread that reconnects              *)
(* (src/Source/src/ModuleMain.cpp, ModuleBase.cpp, ModuleConnection.cpp,   *)
(* ModuleWatchdogConnectionState.cpp, the response handlers, and           *)
(* include/ModuleConnection.hpp, Connection.hpp).                          *)
(*                                                                         *)
(* The connection is used as TcpConnection describes it, a message at a    *)
(* time: sendMessage is one step here, and so are the header and the body  *)
(* of a write or of a read.  New is what happens between sockets: handlers *)
(* of an old socket act on the socket that is there when they run.         *)
(***************************************************************************)
EXTENDS Naturals, Sequences, FiniteSets

CONSTANTS MaxSockets,   \* bound: sockets made, the first included
          MaxPings      \* bound: expirations of the ping timer

ASSUME BoundsType == MaxSockets \in Nat \ {0} /\ MaxPings \in Nat

Main == "main"
Io == "io"
Watcher == "watcher"
Thread == {Main, Io, Watcher}

VARIABLES
    connectionState,     \* WatchdogConnectionState
    waiting,             \* threads in a wait that nobody has notified yet
    isModuleRunning,
    stopped,             \* io_context::stop was called
    gen,                 \* which socket the connection holds
    socket,              \* "fresh", "failed" (open, not connected), "open", "closed"
    read,                \* the outstanding read, on socket read.on (0: none;
                         \* "off": given up after a header with no body)
    write,               \* the outstanding write, likewise
    messagesQueue,
    sendingInProgress,
    owed,                \* requests the watchdog has received and not answered
    timer,               \* the ping timer is set
    fires,               \* handlers of the ping timer that are ready to run
    pings,               \* expirations of the ping timer so far
    sequenceCode,        \* FALSE: not initialised
    pc, seen             \* program counters; what the handler in progress is about

connectionVars == <<gen, socket, read, write, messagesQueue, sendingInProgress, owed>>
timerVars == <<timer, fires, pings>>
stateVars == <<connectionState, waiting>>
processVars == <<isModuleRunning, stopped>>
quietVars == <<stateVars, processVars, sequenceCode>>
sendVars == <<messagesQueue, sendingInProgress>>
vars == <<quietVars, connectionVars, timerVars, pc, seen>>

ConnectionState == {"NotConnected", "Connected", "Shutdown"}
\* A ping with a sequence code that nobody has set is a "rawPing".
Request == {"connect", "ping", "rawPing", "shutdown"}
Answer == {"accept", "reject", "pong", "other"}
Socket == 1 .. MaxSockets

MainPc == {"configure", "connect", "sendConnect", "startReading", "await", "asleep",
           "setTimer", "startServer", "user", "sendShutdown", "poll", "stop",
           "setShutdown", "notify", "joinIo", "joinWatcher", "joinTimers",
           "destroy", "dSetShutdown", "dNotify", "dJoinWatcher", "dStop",
           "dJoinIo", "terminated"}
WatcherPc == {"loop", "wait", "asleep", "reconnect", "makeSocket", "connect",
              "sendConnect", "timedWait", "timedAsleep", "setTimer", "close", "done"}
\* A handler in progress; main runs handlers too, while it polls.
ReadPc == {"check", "setState", "notifyState", "readNext"}
LossPc == {"close", "getState", "setNotConnected", "notifyLoss", "lowerFlag"}

None == [on |-> 0, res |-> "none"]

TypeOK ==
    /\ connectionState \in ConnectionState
    /\ waiting \subseteq {Main, Watcher}
    /\ isModuleRunning \in BOOLEAN /\ stopped \in BOOLEAN
    /\ gen \in Socket
    /\ socket \in {"fresh", "failed", "open", "closed"}
    /\ read \in [on : Socket, res : Answer \cup {"pending", "error", "empty", "off"}] \cup {None}
    /\ write \in [on : Socket, res : {"pending", "done", "error"}] \cup {None}
    /\ messagesQueue \in Seq(Request)
    /\ sendingInProgress \in BOOLEAN
    /\ owed \in Seq({"connect", "ping", "rawPing"})
    /\ timer \in BOOLEAN
    /\ fires \in Nat
    /\ pings \in 0 .. MaxPings
    /\ sequenceCode \in BOOLEAN
    /\ pc[Main] \in MainPc \cup ReadPc \cup LossPc \cup {"blocked"}
    /\ pc[Io] \in {"idle", "done", "blocked"} \cup ReadPc \cup LossPc
    /\ pc[Watcher] \in WatcherPc
    /\ seen \in [Thread -> {"none", "write"} \cup Answer]

Init ==
    /\ connectionState = "NotConnected"
    /\ waiting = {}
    /\ isModuleRunning = TRUE /\ stopped = FALSE
    /\ gen = 1 /\ socket = "fresh"
    /\ read = None /\ write = None
    /\ messagesQueue = <<>> /\ sendingInProgress = FALSE
    /\ owed = <<>>
    /\ timer = FALSE /\ fires = 0 /\ pings = 0
    /\ sequenceCode = FALSE
    /\ pc = [th \in Thread |-> CASE th = Main -> "configure"
                                 [] th = Io -> "idle"
                                 [] th = Watcher -> "loop"]
    /\ seen = [th \in Thread |-> "none"]

----------------------------------------------------------------------------
(* The pieces: the connection state, the connection, the ping timer.       *)

Goto(th, from, to) == pc[th] = from /\ pc' = [pc EXCEPT ![th] = to]

\* The waits have no predicate: a thread sleeps whatever the state is.
Sleep(th, from, asleep) ==
    /\ Goto(th, from, asleep)
    /\ waiting' = waiting \cup {th}
    /\ UNCHANGED <<connectionState, processVars, connectionVars, timerVars,
                   sequenceCode, seen>>

setConnectionState(th, from, to, s) ==
    /\ Goto(th, from, to)
    /\ connectionState' = s
    /\ UNCHANGED <<waiting, processVars, connectionVars, timerVars, sequenceCode, seen>>

\* notify_all, after the lock was released.
notifyAll(th, from, to) ==
    /\ Goto(th, from, to)
    /\ waiting' = {}
    /\ UNCHANGED <<connectionState, processVars, connectionVars, timerVars,
                   sequenceCode, seen>>

is_open == socket \in {"failed", "open"}

\* An operation that starts on a socket that is not connected fails.
Started == [on |-> gen, res |-> IF socket = "open" THEN "pending" ELSE "error"]

\* Closing or destroying the socket aborts what is outstanding on it, and the
\* answers to come on it are lost.
Aborted(op) == IF op.res = "pending" THEN [op EXCEPT !.res = "error"] ELSE op
AbortAll == read' = Aborted(read) /\ write' = Aborted(write)

closeSocket(th, from, to) ==
    /\ Goto(th, from, to)
    /\ \/ is_open /\ socket' = "closed" /\ AbortAll /\ owed' = <<>>
       \/ ~is_open /\ UNCHANGED <<socket, read, write, owed>>
    /\ UNCHANGED <<quietVars, gen, sendVars, timerVars, seen>>

\* sendMessage: queued in any case, written if the socket is open and nobody
\* is writing.
sendMessage(m) ==
    /\ messagesQueue' = Append(messagesQueue, m)
    /\ IF is_open /\ ~sendingInProgress
         THEN sendingInProgress' = TRUE /\ write' = Started
         ELSE UNCHANGED <<sendingInProgress, write>>
    /\ UNCHANGED <<gen, socket, read, owed>>

\* TcpConnection::connect; a failure leaves the socket open but not connected,
\* and to connect a connected socket is an error that leaves it as it is.
connect(th, from, connected, failed) ==
    /\ \/ socket # "open" /\ socket' = "open" /\ Goto(th, from, connected)
       \/ socket # "open" /\ socket' = "failed" /\ Goto(th, from, failed)
       \/ socket = "open" /\ UNCHANGED socket /\ Goto(th, from, failed)
    /\ UNCHANGED <<quietVars, gen, read, write, sendVars, owed, timerVars, seen>>

sendConnectRequest(th, from, to) ==
    /\ Goto(th, from, to)
    /\ sendMessage("connect")
    /\ UNCHANGED <<quietVars, timerVars, seen>>

\* expires_from_now cancels the wait that is pending, and the handler of a
\* cancelled wait runs like any other (it ignores the error code).
SetTimer ==
    /\ timer' = TRUE
    /\ fires' = fires + (IF timer THEN 1 ELSE 0)
    /\ UNCHANGED pings

setTimerExpiration(th, from, to) ==
    /\ Goto(th, from, to)
    /\ SetTimer
    /\ UNCHANGED <<quietVars, connectionVars, seen>>

----------------------------------------------------------------------------
(* Completion handlers, on the io_context thread and in main's poll().     *)

Rest(th) == IF th = Main THEN "poll" ELSE "idle"
Runner == {Main, Io}
RunsHandler(th) == ~stopped /\ pc[th] = Rest(th)

\* Mutant: a handler runs although no wait has ended.
WaitEnded_early == timer \/ fires > 0

WaitEnded == fires > 0

\* timerExpired, onTimerExpiration, sendPing.
timerExpired(th) ==
    /\ RunsHandler(th)
    /\ WaitEnded
    /\ fires' = fires - 1
    /\ sendMessage(IF sequenceCode THEN "ping" ELSE "rawPing")
    /\ UNCHANGED <<quietVars, timer, pings, pc, seen>>

\* Mutant: the connect response sets the timer as well.
RestartsTimer_onConnect(answer) == answer \in {"pong", "accept"}

\* A ping response with the right code.
RestartsTimer(answer) == answer = "pong"

\* A message was read: handleReceivedMessage, getResponseHandler.  A ping
\* response with the right code sets the timer; one with a wrong code, a
\* reconnect response and an unknown operation change nothing.
postReadMessageBody(th) ==
    /\ RunsHandler(th)
    /\ read.res \in Answer
    /\ read' = None
    /\ Goto(th, Rest(th), IF read.res \in {"accept", "reject"} THEN "check" ELSE "readNext")
    /\ seen' = [seen EXCEPT ![th] = read.res]
    /\ IF RestartsTimer(read.res) THEN SetTimer ELSE UNCHANGED timerVars
    /\ UNCHANGED <<quietVars, gen, socket, write, sendVars, owed>>

\* Mutant: the sequence code of the response is not stored.
CodeStored_dropped(th) == sequenceCode

\* onResponseCodeSuccess stores the code of the response.
CodeStored(th) == sequenceCode \/ (connectionState # "Connected" /\ seen[th] = "accept")

\* ResponseConnectHandler::handleResponse reads the state, ...
handleResponse(th) ==
    /\ Goto(th, "check", IF connectionState = "Connected" THEN "readNext" ELSE "setState")
    /\ sequenceCode' = CodeStored(th)
    /\ UNCHANGED <<stateVars, processVars, connectionVars, timerVars, seen>>

\* ... and sets it in another critical section.
handleReceivedMessage(th) ==
    setConnectionState(th, "setState", "notifyState",
                       IF seen[th] = "accept" THEN "Connected" ELSE "NotConnected")

\* Back in postReadMessageBody: the next read, on the socket there is now.
startReadingSequence(th, from, to) ==
    /\ Goto(th, from, to)
    /\ read' = Started
    /\ seen' = [seen EXCEPT ![th] = "none"]
    /\ UNCHANGED <<quietVars, gen, socket, write, sendVars, owed, timerVars>>

\* A header that announces no body ends the reading; nobody is told.
postReadMessageHeader(th) ==
    /\ RunsHandler(th)
    /\ read.res = "empty"
    /\ read' = [read EXCEPT !.res = "off"]
    /\ UNCHANGED <<quietVars, gen, socket, write, sendVars, owed, timerVars, pc, seen>>

\* A message was written: it leaves the queue, and the next one is written.
postWriteMessageBody(th) ==
    /\ RunsHandler(th)
    /\ write.res = "done"
    /\ messagesQueue' = Tail(messagesQueue)
    /\ sendingInProgress' = (Len(messagesQueue) > 1)
    /\ write' = IF Len(messagesQueue) > 1 THEN Started ELSE None
    /\ UNCHANGED <<quietVars, gen, socket, read, owed, timerVars, pc, seen>>

\* A read or a write has failed: disconnect.
readFailed(th) ==
    /\ RunsHandler(th)
    /\ read.res = "error"
    /\ read' = None
    /\ Goto(th, Rest(th), "close")
    /\ UNCHANGED <<quietVars, gen, socket, write, sendVars, owed, timerVars, seen>>

writeFailed(th) ==
    /\ RunsHandler(th)
    /\ write.res = "error"
    /\ write' = None
    /\ Goto(th, Rest(th), "close")
    /\ seen' = [seen EXCEPT ![th] = "write"]
    /\ UNCHANGED <<quietVars, gen, socket, read, sendVars, owed, timerVars>>

\* Mutant: disconnect begins again.
AfterLoss_repeats(th) == "close"

\* After a failed write the flag is lowered.
AfterLoss(th) == IF seen[th] = "write" THEN "lowerFlag" ELSE Rest(th)

\* Mutant: the comparison is the wrong way round.
WasConnected_inverted == connectionState = "NotConnected"

WasConnected == connectionState = "Connected"

\* disconnect reads the state and sets it in two critical sections.
getConnectionState(th) ==
    /\ Goto(th, "getState",
            IF WasConnected THEN "setNotConnected" ELSE AfterLoss(th))
    /\ UNCHANGED <<quietVars, connectionVars, timerVars, seen>>

disconnect(th) ==
    \/ closeSocket(th, "close", "getState")
    \/ getConnectionState(th)
    \/ setConnectionState(th, "setNotConnected", "notifyLoss", "NotConnected")
    \/ notifyAll(th, "notifyLoss", AfterLoss(th))

lowerFlag(th) ==
    /\ Goto(th, "lowerFlag", Rest(th))
    /\ sendingInProgress' = FALSE
    /\ seen' = [seen EXCEPT ![th] = "none"]
    /\ UNCHANGED <<quietVars, gen, socket, read, write, messagesQueue, owed, timerVars>>

Handler(th) ==
    \/ timerExpired(th)
    \/ postReadMessageHeader(th)
    \/ postReadMessageBody(th)
    \/ handleResponse(th)
    \/ handleReceivedMessage(th)
    \/ notifyAll(th, "notifyState", "readNext")
    \/ startReadingSequence(th, "readNext", Rest(th))
    \/ postWriteMessageBody(th)
    \/ readFailed(th)
    \/ writeFailed(th)
    \/ disconnect(th)
    \/ lowerFlag(th)

\* The module server has started to read: main is past startModuleServer.
ServerReads ==
    pc[Main] \in {"user", "sendShutdown", "poll", "stop", "blocked"} \cup ReadPc \cup LossPc

\* The handlers of the module server run here as well, and touch nothing of the
\* session; but a send's completion and a response ask for timersLock, which a
\* resend callback that waits for it on its own timers thread's behalf keeps for
\* good (module ModuleServer): then the handler never returns.
serverHandlerBlocks(th) ==
    /\ RunsHandler(th)
    /\ ServerReads
    /\ pc' = [pc EXCEPT ![th] = "blocked"]
    /\ UNCHANGED <<quietVars, connectionVars, timerVars, seen>>

HandlerReady ==
    \/ fires > 0
    \/ read.res \in Answer \cup {"error", "empty"}
    \/ write.res \in {"done", "error"}

\* io_context::run returns when it was stopped and no handler is in progress.
ioLeaves ==
    /\ stopped
    /\ Goto(Io, "idle", "done")
    /\ UNCHANGED <<quietVars, connectionVars, timerVars, seen>>

----------------------------------------------------------------------------
(* main: start-up, the user's task, shutdown; the destructor on a failure. *)

\* A step of main or of the watcher that touches nothing shared.
Step(th, from, to) ==
    /\ Goto(th, from, to)
    /\ UNCHANGED <<quietVars, connectionVars, timerVars, seen>>

\* A wait ends: it was notified, or it wakes for no reason or (a timed wait)
\* because the time is up.  What counts is the state that is read then.
WakeUp(th, from, to) ==
    /\ th \notin waiting
    /\ Step(th, from, to)

WakeUpUnnotified(th, from, to) ==
    /\ th \in waiting
    /\ Goto(th, from, to)
    /\ waiting' = waiting \ {th}
    /\ UNCHANGED <<connectionState, processVars, connectionVars, timerVars,
                   sequenceCode, seen>>

StopRunning(from, to) ==
    /\ Goto(Main, from, to)
    /\ isModuleRunning' = FALSE
    /\ UNCHANGED <<stateVars, stopped, connectionVars, timerVars, sequenceCode, seen>>

stop(from, to) ==
    /\ Goto(Main, from, to)
    /\ stopped' = TRUE
    /\ UNCHANGED <<stateVars, isModuleRunning, connectionVars, timerVars,
                   sequenceCode, seen>>

Registered == IF connectionState = "Connected" THEN "setTimer" ELSE "destroy"

\* Mutant: the wait has no time limit.
waitForRegisterToWatchdog_untimed ==
    \/ Sleep(Main, "await", "asleep")
    \/ WakeUp(Main, "asleep", Registered)
    \/ setTimerExpiration(Main, "setTimer", "startServer")

waitForRegisterToWatchdog ==
    \/ Sleep(Main, "await", "asleep")
    \/ WakeUp(Main, "asleep", Registered)
    \/ WakeUpUnnotified(Main, "asleep", Registered)
    \/ setTimerExpiration(Main, "setTimer", "startServer")

\* The configuration is read, or not: no file, no JSON, or a field is missing
\* or of the wrong type.
readFromJson == BOOLEAN

\* readConfiguration, and configureModule, which cannot fail.
readConfiguration ==
    \E success \in readFromJson :
        Step(Main, "configure", IF success THEN "connect" ELSE "destroy")

startWatchdogConnectionTask ==
    \/ connect(Main, "connect", "sendConnect", "destroy")
    \/ sendConnectRequest(Main, "sendConnect", "startReading")
    \/ startReadingSequence(Main, "startReading", "await")

\* FALSE: open or bind throws.  The handler there is for error_code, which is
\* not what they throw; startModuleServer catches the exception.
bindToListeningSocket == BOOLEAN

startModuleServer ==
    \E bound \in bindToListeningSocket :
        Step(Main, "startServer", IF bound THEN "user" ELSE "destroy")

\* Each part of the start-up may fail.
StartUp ==
    \/ readConfiguration
    \/ startWatchdogConnectionTask
    \/ waitForRegisterToWatchdog
    \/ startModuleServer

\* The user's task returns, and moduleShutdownHandler begins.
startUserTask == StopRunning("user", "sendShutdown")

sendShutdownRequest ==
    /\ Goto(Main, "sendShutdown", "poll")
    /\ sendMessage("shutdown")
    /\ UNCHANGED <<quietVars, timerVars, seen>>

\* poll() runs the handlers that are ready, and returns when there is none.
pollReturns == ~HandlerReady /\ Step(Main, "poll", "stop")

moduleShutdownHandler ==
    \/ sendShutdownRequest
    \/ pollReturns
    \/ stop("stop", "setShutdown")
    \/ setConnectionState(Main, "setShutdown", "notify", "Shutdown")
    \/ notifyAll(Main, "notify", "joinIo")

join(th, from, to) == pc[th] = "done" /\ Step(Main, from, to)

\* The timers thread never ends: main stays at "joinTimers".
joinAll ==
    \/ join(Io, "joinIo", "joinWatcher")
    \/ join(Watcher, "joinWatcher", "joinTimers")

\* ~ModuleBase after a failed start.  It does not join timersThread, whose
\* destructor then terminates the process.
destroyModuleBase ==
    \/ StopRunning("destroy", "dSetShutdown")
    \/ setConnectionState(Main, "dSetShutdown", "dNotify", "Shutdown")
    \/ notifyAll(Main, "dNotify", "dJoinWatcher")
    \/ join(Watcher, "dJoinWatcher", "dStop")
    \/ stop("dStop", "dJoinIo")
    \/ join(Io, "dJoinIo", "terminated")

MainStep == StartUp \/ moduleShutdownHandler \/ joinAll \/ destroyModuleBase

----------------------------------------------------------------------------
(* The watcher thread.                                                     *)

\* What the watcher does about the state it wakes up to.
Reaction == CASE connectionState = "NotConnected" -> "reconnect"
              [] connectionState = "Connected" -> "loop"
              [] connectionState = "Shutdown" -> "done"

waitForConnectionStateChange ==
    \/ Step(Watcher, "loop", IF isModuleRunning THEN "wait" ELSE "done")
    \/ Sleep(Watcher, "wait", "asleep")
    \/ WakeUp(Watcher, "asleep", Reaction)

makeNewSocket ==
    /\ gen < MaxSockets
    /\ Goto(Watcher, "makeSocket", "connect")
    /\ gen' = gen + 1
    /\ socket' = "fresh"
    /\ AbortAll
    /\ owed' = <<>>
    /\ UNCHANGED <<quietVars, sendVars, timerVars, seen>>

\* The answer is not read: nobody starts to read from the new socket.
connectModuleToWatchdog ==
    LET outcome == IF connectionState = "Connected" THEN "setTimer" ELSE "close"
    IN  \/ sendConnectRequest(Watcher, "sendConnect", "timedWait")
        \/ Sleep(Watcher, "timedWait", "timedAsleep")
        \/ WakeUp(Watcher, "timedAsleep", outcome)
        \/ WakeUpUnnotified(Watcher, "timedAsleep", outcome)
        \/ setTimerExpiration(Watcher, "setTimer", "reconnect")
        \/ closeSocket(Watcher, "close", "reconnect")

reconnectToWatchdog ==
    \/ Step(Watcher, "reconnect",
            IF ~is_open /\ isModuleRunning THEN "makeSocket" ELSE "loop")
    \/ makeNewSocket
    \/ connect(Watcher, "connect", "sendConnect", "close")
    \/ connectModuleToWatchdog

WatcherStep == waitForConnectionStateChange \/ reconnectToWatchdog

SpuriousWakeUp == WakeUpUnnotified(Watcher, "asleep", Reaction)

----------------------------------------------------------------------------
(* The network, the watchdog and the clock.                                *)

Answers(m) == CASE m = "connect" -> {"accept", "reject"}
                [] m = "ping" -> {"pong", "other"}
                [] m = "rawPing" -> {"other"}

\* The watchdog answers the requests in order.
answerArrives ==
    /\ read.res = "pending"
    /\ owed # <<>>
    /\ \E a \in Answers(Head(owed)) \cup {"empty"} : read' = [read EXCEPT !.res = a]
    /\ owed' = Tail(owed)
    /\ UNCHANGED <<quietVars, gen, socket, write, sendVars, timerVars, pc, seen>>

readLost ==
    /\ read.res = "pending"
    /\ read' = [read EXCEPT !.res = "error"]
    /\ UNCHANGED <<quietVars, gen, socket, write, sendVars, owed, timerVars, pc, seen>>

writeCompletes ==
    /\ write.res = "pending"
    /\ write' = [write EXCEPT !.res = "done"]
    /\ owed' = IF Head(messagesQueue) = "shutdown" THEN owed
               ELSE Append(owed, Head(messagesQueue))
    /\ UNCHANGED <<quietVars, gen, socket, read, sendVars, timerVars, pc, seen>>

writeLost ==
    /\ write.res = "pending"
    /\ write' = [write EXCEPT !.res = "error"]
    /\ UNCHANGED <<quietVars, gen, socket, read, sendVars, owed, timerVars, pc, seen>>

timerDue ==
    /\ timer
    /\ pings < MaxPings
    /\ timer' = FALSE
    /\ fires' = fires + 1
    /\ pings' = pings + 1
    /\ UNCHANGED <<quietVars, connectionVars, pc, seen>>

\* What completes after stop() is never handled, and is left out.
Environment ==
    /\ ~stopped
    /\ answerArrives \/ readLost \/ writeCompletes \/ writeLost \/ timerDue

----------------------------------------------------------------------------

Next ==
    \/ MainStep
    \/ startUserTask
    \/ \E th \in Runner : Handler(th)
    \/ \E th \in Runner : serverHandlerBlocks(th)
    \/ ioLeaves
    \/ WatcherStep
    \/ SpuriousWakeUp
    \/ Environment

Spec == Init /\ [][Next]_vars

\* The scheduler runs the three threads, and the timed waits end.  The user's
\* task need not return, and the network need not deliver.
Fairness ==
    /\ WF_vars(MainStep)
    /\ WF_vars(\E th \in Runner : Handler(th))
    /\ WF_vars(ioLeaves)
    /\ WF_vars(WatcherStep)

LiveSpec == Spec /\ Fairness

----------------------------------------------------------------------------
(* Properties.                                                             *)

\* Every ping carries a sequence code that a connect response has set: the
\* member is not initialised by the constructor, and the timer is started by
\* other threads than the one that handles the response.
PingsCarryCode ==
    \A i \in 1 .. Len(messagesQueue) : messagesQueue[i] # "rawPing"

\* Messages that have not reached the watchdog.
Unsent == IF write.res = "done" THEN Tail(messagesQueue) ELSE messagesQueue
Count(m, s) == Cardinality({i \in 1 .. Len(s) : s[i] = m})

\* There are at most as many pings under way as connections were made: for each
\* the timer is set, or its handler is ready, or a ping or its answer is on its
\* way.  (A reconnection starts a cycle and does not end the one before.)
OnePingCyclePerConnection ==
    (IF timer THEN 1 ELSE 0) + fires + Count("ping", Unsent)
        + Count("ping", owed) + (IF read.res = "pong" THEN 1 ELSE 0) <= gen

InReadHandler == \E th \in Runner : pc[th] \in ReadPc
InDisconnect == \E th \in Runner : pc[th] \in LossPc

\* While the state says Connected, the loss of the socket is noticed: somebody
\* is reading from it, or handles what was read and will read again, or is
\* in disconnect; and when the socket is not open, that read fails.  The one
\* exception is a header that announced no body: it ended the reading.  (The
\* handler runs unless the io_context thread is blocked.)
LossIsNoticed ==
    connectionState = "Connected" =>
        \/ InReadHandler \/ InDisconnect
        \/ read.res \in Answer \cup {"error", "empty", "off"}
        \/ read.res = "pending" /\ read.on = gen /\ socket = "open"

\* "Stop io_context so it work thread can leave gracefully": once the context
\* is stopped, the io thread ends, whatever handler of the session it is in;
\* unless a handler of the module server is blocked on timersLock.
IoThreadLeaves == stopped ~> (pc[Io] \in {"done", "blocked"})

\* Start-up comes to an end: the user's task runs or the module is destroyed.
StartUpDecides == <>(pc[Main] \in {"user", "destroy"})

\* "Module is about to be shutdown, leave thread": once the state is Shutdown
\* and everybody was notified, the watcher thread ends (or has used up the
\* sockets the model gives it).
WatcherLeaves ==
    (pc[Main] \in {"joinIo", "dJoinWatcher"}) ~> (pc[Watcher] = "done" \/ gen = MaxSockets)

\* "Run all ready handlers, to ensure that shutdown request has been sent":
\* when main goes on to stop the io_context, the request is out, unless the
\* connection is lost.
ShutdownRequestSent ==
    pc[Main] = "stop" /\ socket = "open" /\ ~InDisconnect =>
        Count("shutdown", Unsent) = 0
============================================================================
