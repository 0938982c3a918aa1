# Verification of the module runtime

The repository is the runtime of a *service module*: a process that registers
with a watchdog over TCP, exchanges requests and responses with other modules
over UDP, and runs timers for itself and for its user. This directory holds TLA+
models of its core, the TLC configurations that check them, and theorems that
TLAPS proves.

## The system

### Threads

| thread | started at | runs |
|---|---|---|
| main / user | `ModuleMain.cpp` | start-up, then the user's code: `sendRequest`, `registerTimer`, shutdown |
| io | `ModuleBase.cpp` (`ioContextWorkThread`) | every completion handler of the sockets and of the ping timer |
| watcher | `ModuleBase.cpp` (`watchdogConnectionWatcherThread`) | reconnects to the watchdog when the connection is lost |
| timers | `ModuleBase.cpp` (`timersThread`) | the loop of `TimersThreadMain` |
| callback | `std::async` in `Timer.hpp` | the body of one expired timer, while the timers thread waits for it |

### Components

| component | state | operations | interacts with |
|---|---|---|---|
| Timers cache and thread (`TimersCache`, `TimersThreadMain`, `Timer`) | a multimap of timers keyed by expiration, `timersLock`, a condition variable and its flag | register (with and without lock), remove, restart, wait, trigger, re-arm, sweep | called by server, user, io; calls the timers' bodies |
| Module server (`ModuleServer`, `MessageQueue`) | queue of outgoing requests, `transactionAndTimerID`, UDP socket | `sendRequest`, send, completion, receive, `handleResponse`, resend | timers cache, database, events cache |
| TCP connection (`Connection.hpp`) | socket, queue of messages, `sendingInProgress` | `sendMessage`, header and body writes, header and body reads, close | watchdog session |
| Watchdog session (`ModuleConnection`, connection state, response handlers) | `NotConnected`, `Connected` or `Shutdown`, ping timer, sequence code | connect, reconnect, ping, response handlers, watcher loop | TCP connection, life cycle |
| Module life cycle (`ModuleBase`, `ModuleMain`) | the threads and the io_context | start-up, shutdown, join | all |
| Events (`ModuleEventsCache`, `EventManager`, `Event`) | multimap of handlers by service, without a lock | add, dispatch | called by user, by the io thread and by handlers; handlers call the server |
| Identifiers (`Types`) | none | conversions between numbers and tagged identifiers | all |
| Facades, message makers, configuration, MongoDB access, logging | little or none | forwarding, field copying, I/O | - |

### What is hard

The lock of the timers cache is held while foreign code (a callback) runs on
another thread; every other decision of the code is made from what an earlier,
separately locked call returned (`push` then `size`, `pop` then `empty`, read of
`sendingInProgress` then write, `find` then `removeTimer` then `erase`).
Responses are late, repeated or lost; timers expire while they are being
registered; sends and reads fail in the middle of a chain of handlers; one
message may be in the queue, in a timer and on the wire at the same time.
`PROJECT.json` lists each such place under `hazards`, with the properties that
watch it.

What makes each component correct:

* timers: no wakeup lost, no callback early, twice or after a removal, no timer
  destroyed under its callback, identifiers of live timers distinct;
* server: the queue is always served, an accepted request is pursued until it
  is answered, a response stops the timer of its own transaction;
* connection: whole frames in order, one chain of writes, the queue served;
* session: a lost connection is noticed and replaced, pings carry a known code
  and do not multiply, no state change is missed;
* life cycle: the shutdown request goes out, every thread ends;
* events: a request runs every handler of its sender once, and no other;
* identifiers: modules and services are never taken for one another.

## The modules

| module | models | remarks |
|---|---|---|
| `TimerService` | what the timers component promises | abstract: no threads, lock, flag or ordering |
| `TimersCache` | `TimersCache.cpp`, `TimersThreadMain.cpp`, `Timer.cpp`, `Timer.hpp` | implements `TimerService` |
| `TimersCacheProofs` | - | theorems about the timers cache, and that it implements `TimerService` |
| `EventsCache` | `ModuleEventsCache.cpp`, `Event.hpp` | the multimap of handlers and the loop over it; composed by `ModuleServer` |
| `EventsCacheProofs` | - | lemmas: the loop over the handlers |
| `ModuleServer` | `ModuleServer.cpp`, `MessageQueue.hpp`, `ModuleManager.cpp`, `EventManager.cpp` | composed with `TimerService` for its resend timers and `EventsCache` for received requests |
| `ModuleServerProofs` | - | theorems about the server and the handlers |
| `MessageStream` | what the TCP connection promises to the session | abstract: no queue, headers, flag or handlers |
| `TcpConnection` | `Connection.hpp` | one socket, step by step; implements `MessageStream` |
| `TcpConnectionProofs` | - | theorems about the connection, and that it implements `MessageStream` |
| `WatchdogSession` | `ModuleMain.cpp`, `ModuleBase.cpp`, `ModuleConnection.cpp` and `.hpp`, `ModuleWatchdogConnectionState.cpp`, the response handlers | main, the io thread, the watcher and the sockets they share |
| `WatchdogSessionProofs` | - | theorems about the session |
| `Identifiers` | `Types.cpp`, `Types.hpp` | operators, no state |
| `IdentifiersProofs` | - | theorems about every number |
| `RecursionLemmas` | - | least numbers, induction with a set, functions defined by recursion on a number |
| `MC...` | - | values of the constants |

A definition named `X_how` that precedes `X` is a mutant of it: the slip that the
property listed with it in `PROJECT.json` would catch. No specification uses one.

### TimersCache

The variables are the fields of the cache (`cached` and `key` are the multimap,
`timersInvokedStatus` the flag), the fields of the timers (`timerID`,
`startTimestamp`, `actionStatus`), the program counter and the locals of
`TimersThreadMain` (`thread`, `waitFor`, `timePoint`), and for each client thread
where it is in a call. A critical section that blocks on nothing is one action.
The critical section of `triggerExpiredTimers` is not: the future of `std::async`
is a temporary, whose destructor blocks until the callback returns, so the
callbacks run one after the other with the lock held. It is `BeginTrigger`, then
`StartCallback` / `CallbackReturns` or `CallbackThrows` for each timer, in the
order of the keys, then `EndTrigger`; `LockFree` is false in between.

A client makes the timer (its clock starts), takes the lock and files it, and
notifies after it released the lock: three steps, between which anything may
happen. It removes and restarts timers by identifiers it was once given
(`IdsGiven`), which may since belong to another timer. A condition variable is a
flag `notified` that a `notify_one` raises only when the thread is asleep, plus
spurious wakeups. A wait reads its predicate first, as `wait(lock, pred)` does. A
callback that throws leaves its timer `Running`: the assignment of `Ended` comes
after the call.

Assumptions: durations are non-negative and do not change after the timer was
registered; a timer object is registered at most once (it is a `unique_ptr`);
`uint32_t` identifiers do not wrap (the pigeonhole bound in `GeneratedIdFresh`
shows an identifier never exceeds the number of cached timers plus one). A
callback that calls an operation that takes `timersLock` never returns; that case
belongs to `ModuleServer` and is the run `server_handler_lock`. `restartTimer`
and `registerTimerNoLock` have no callers in this repository but are public.

### ModuleServer

A message is the number of the call of `sendRequest` that made it, and its
transaction code. The code is drawn at random and other messages may have the same
(`generateTransactionCode`); the resent copy of a message is the same message. The
server sees only codes: a response carries one, and so does an entry of
`transactionAndTimerID`. `acknowledged` is the set of messages that were answered
themselves, and `strayed` those whose timer `removeTimer` took away for the response
to another message. `messageQueue` is the queue and `popped` counts
what was taken off it, so that `popped + 1` is the place of the head and a
reference into the queue (what `front()` returns) is a place. A send that is in
progress is remembered in `outstanding` by its place; a completion pops whatever
is at the head, as the code does, and `misPopped` records that it was another
message. The calls `push`, `size`, `front`, `pop`, `empty` are separate critical
sections in `MessageQueue` and separate actions here. Accesses to
`transactionAndTimerID`, which has no lock at all, are each one step: a torn
access would add behaviours. `front()` or `pop()` of an empty queue, a
reference to a popped message and `erase` of a dead iterator are undefined: they
set `broken` and end the behaviour, and every property says nothing about what
would follow.

The local map of endpoints is never filled, so a service is looked up in the database.
What `find_one` gives is a choice: no document, or one whose four fields are each right,
of a wrong type, or missing (`getService`, `viewToServiceRecord`); it may also throw
(`Lookup`). A call of the user that finds no service
changes nothing and is not an action. Three threads may be in `sendRequest`: the
user's, the resend callback's, and the io thread when a handler of a received
request sends one (`handlerSendsRequest`). The timers are the
abstract ones of `TimerService`, where any pending timer may expire at any time
(`Expiring = TRUE`). `maxMessageResends` is never read by the code, so resends are
not counted. The return value of `sendRequest` (false when the message was queued
behind another) is not modelled.

### EventsCache

The multimap is a sequence ordered by service, in which `emplace` puts a handler
behind the others of its service. An iterator is the handler it points to, or
`NoHandler` for `end()`: that is what an iterator of a multimap keeps through
insertions. An insertion by the user's thread has a beginning and an end, and the
io thread that searches or advances in between is a data race, which ends the
behaviour (`broken`). A handler is the user's code; it may register another handler
or send a request, both from within the loop. Handlers do not remove handlers (there
is no operation that does), and the request's acceptance by a handler
(`Validating`) is fixed.

The bound of the loop is computed before it starts. `equal_range` returns the first
handler of the *next* service as `range.second`; when a handler of the sender
registers, from within the loop, one for a service in between (any later service, when
`range.second` is `end()`), the loop goes on
until it meets the old bound, and runs the new handler for a request of another
service. Without its last disjunct, `HandlersRunForOwnService` is violated in
exactly this way; with it, the run shows that this is the only one.

### Identifiers

The union of an `int32_t` with four signed bytes is arithmetic on the number:
`highByte` is the floor of its quotient by `Byte3` (2^24 in the code), which is what
`bytes[3]` holds on a little-endian machine with two's complement.
`canBeModuleIdentifier` assigns where it means to compare and is `TRUE`.

### TcpConnection

Messages are named by their place in the queue. `writes` are the started
`async_write`s whose handlers have not run. The first of them completes while the
socket is open (`writeCompletes`: the peer has it), which makes its handler ready
(`out`); the handler runs later, whether or not the socket has been closed
meanwhile, and does the same in both cases, as the code does: what it starts on a
closed socket fails. Reads are treated in the same way (`readCompletes`). The
header's completion starts the body of *whatever is at the front then*; the body's
completion pops, asks `empty()`, and starts the next header or lowers the flag, each
in its own step. A message with an empty body is popped by the header's completion,
which never lowers the flag. Errors of writes and reads, an asynchronous close and a
header that announces no body are included. The abstract `MessageStream` sees the
socket, the number of messages sent and the messages whose last part has arrived. It
says nothing of when a message is delivered: that is `QueuedIsWritten`. A message
may be queued after `empty()` was answered and before the flag is lowered; its
sender leaves it to a chain of writes that has ended, and it waits for the next call
of `sendMessage` (`overlooked`). The branch of `postWriteMessageHeader` for a short
write cannot be taken (`async_write` reports an error instead),
`blockingWriteMessageHeader` has no caller; neither is modelled.

### WatchdogSession

Three program counters: main from configuration to the join (or to the destructor,
when a part of the start-up fails), the io thread between and inside handlers, and
the watcher. `poll()` makes main a second thread that runs handlers, so handlers
are parameterised by the thread (`Runner`). A `set...AndNotifyAll` is two steps, as
is every read of the state that is followed by a write. The waits have no
predicate: a thread enters `waiting` whatever the state is, `notifyAll` empties the
set, and what a thread acts on is the state it finds when it wakes.

`gen` numbers the sockets. An outstanding read or write remembers its socket; its
handler acts on the socket that is there when it runs, so a late handler of an old
socket can close the new one, or start to read from it. That last race is the only
way in which a reconnected session is ever read: `connectModuleToWatchdog` starts
no read. There is one chain of reads and one of writes. `sendMessage`, and the two
parts of a frame, are one step here; their interleavings are `TcpConnection`'s
subject. The `unique_ptr` of the socket and the deadline timer are used by several
threads without a lock; each access is taken as one step. A `rawPing` is a ping with
an uninitialised sequence code. The watchdog (external) answers the requests of a
connection in order, with acceptance or rejection, a matching or another code,
or with a header that announces no body, after which nobody reads any more, or
never; it sends nothing unasked. Answers on a closed socket are lost, and what would
complete after `stop()`, when no handler runs any more, is left out.

The handlers of the UDP server run on the same io_context. They touch nothing of the
session, with one exception: a completion that sends the next message, and a response,
take `timersLock`, and after the deadlock of `server_handler_lock` they wait for it for
good. `serverHandlerBlocks` is that step: once the server reads, a thread that runs
handlers may end up `blocked`. It may happen at any time and never has to.

## The runs

| run | constants | shows |
|---|---|---|
| `timers` | 3 timers (one-shot with durations 0 and 1, repeatable with 0), 1 client, clock to 2 | the invariants of the cache, and that it implements `TimerService` |
| `timers_live` | 2 timers, 2 clients, clock to 2 | an expired timer is run, an ended one leaves or is re-armed |
| `server_pipeline` | 2 codes, 3 requests, 4 timers, no expiration | queue served, entries name timers of their code, a response stops another message's timer only when both have one code, nothing else is forgotten, queued messages are transmitted |
| `server_resend` | 1 code, 1 request, 4 timers, expirations, 1 received request, 3 handlers (two of them of one service) | an unanswered request is always queued, parked or in the callback's hands; the queue is served; handlers run once and for their own service; identifiers stay apart (`ServicesApart`) |
| `connection` | 1 sending thread, 5 messages, the fourth empty | whole frames in order, the queue served until the connection is lost; it implements `MessageStream` |
| `session` | 2 sockets, 1 expiration of the ping timer | pings carry a code, at most one ping cycle per connection made, a lost socket is noticed, start-up ends, the io thread leaves unless a handler of the server blocks it |
| `server_handler_lock` (violation) | 1 code, 1 request | the resend callback asks for the lock its own thread's waiter holds: a deadlock |
| `server_double_send` (violation) | 2 codes, 3 requests | a push between `pop()` and `empty()` makes two sends of one message, and the second completion drops an unsent one |
| `server_stall` (violation) | 2 codes, 2 requests, one handler, no expiration | the user's thread and a handler on the io thread push before either asks for `size()`: nobody sends |
| `connection_two_senders` (violation) | two sending threads | two chains of writes, against the comment in `Connection.hpp` |
| `watcher_leaves` (violation) | 2 sockets, no ping | Shutdown is notified just before the watcher waits: it sleeps for good, and main with it in `join` |
| `shutdown_request` (violation) | 1 socket, 1 expiration | `poll()` returns with the shutdown request unsent |

Each violation is quoted with the comment or trace it contradicts under
`findings`.

*Bounds.* Three timers are the least with which one runs, one is filed by the
callback and one is removed or reuses an identifier; durations 0 and 1 give earlier
and later expirations than the one the thread waits for; with clock 2 a timer of
duration 1 expires, and repeatable ones fire and are re-armed. The invariants of
this module are also proved for all values. Three requests with two codes give a
queue with a message in flight, one waiting and one arriving, and two messages of
one code next to a third of another. Four timers are enough for a request to be
resent and for identifiers to be reused. Three handlers, two of the sender and one
of a later service, two of which accept the request, are the least for a range with
two handlers, a successor outside it, and a registration between the two.
`ServicesApart` is evaluated with the code's `Byte3` = 2^24; the theorem has
every `Byte3`. In `connection` three whole messages precede the empty one, and one
follows it. Two sockets are the first connection and one reconnection, with the old
socket's handlers still to come; one expiration lets the timer be set by main, fire,
and be set again by the answer or by the watcher. The clock, the requests, the
timers, the sockets and the expirations stop at the bounds, which are guards of
`Tick`, `sendRequest`, `registerTimer`, `sendMessage`, `makeNewSocket` and
`timerDue`; in `timers` deadlock is checked (a client can always register a null
timer); the other modules may stop when their bounds are used up, and so do not
check it.

*Conditions in the properties.* `SendingInProgress` stops at a failed send, after
which the code really never sends again (hazard at `ModuleServer.cpp:349`).
`NoRequestForgotten` and `QueuedIsTransmitted` stop at `misPopped`, whose
reachability is the run `server_double_send`. `NoRequestForgotten` also excuses a
message in `strayed`: a response to another message removed its timer.
`OnlySharedCodesStray` says when this happens: before the first expiration, only to
two messages of one code, which the server cannot tell apart.
`EntriesNameLiveTimers` and `OnlySharedCodesStray` are checked without expirations:
with them a timer can expire between `registerTimer` and `emplace`
(`ModuleServer.cpp:294`), and the entry made afterwards names a timer that is gone.
`QueueIsServed` and `QueuedIsWritten` stop at a message with an empty body, and at a
message that was queued between `empty()` and the flag, unless another message
follows. `LossIsNoticed` stops at a header without a body.
`OnePingCyclePerConnection` allows a cycle for each connection: on the second, the
watcher sets the timer that may still be set from before, which sends a ping at once
and adds a cycle (hazard at `Connection.hpp:228`); nothing else adds one.
`IoThreadLeaves` excuses a thread that a handler of the server has blocked.
`WatcherLeaves` excuses a watcher that the bound on the sockets has stopped.

*Fairness.* The timers thread and a thread inside a call are scheduled (weak
fairness); a callback returns or throws; `notify_one` needs no lock. A write on a
connected socket gets through, unless the connection is lost (weak fairness of
`writeCompletes`). Completions of sends and writes have strong fairness: the
io_context runs its handlers in the order they became ready, so a ready completion
is not overtaken for ever by other handlers. In `WatchdogSession` main, the watcher
and the handlers of the io_context are scheduled and the timed waits end. No
fairness is assumed of spurious wakeups, of the user's task returning, of clients
calling, of the clock, of the network otherwise, or of reads.

## The theorems

Every safety invariant of the passing runs, and both refinements, are theorems (of
`ServicesApart` the part about numbers, `IdentifiersApart`). A
theorem holds for every value of the constants that satisfies the named assumptions
of its module (which TLC evaluates in the runs) and the hypothesis in the last column.

| module | theorem | statement | hypothesis |
|---|---|---|---|
| `TimersCacheProofs` | `GeneratedIdFresh` | `generateTimerID` is positive and no cached timer has it | `TypeOK` |
| | `TypeCorrect` | `[]TypeOK` | |
| | `IdsStayUnique` | `[]TimerIdsUnique` | |
| | `KeysStayInStep` | `[]KeysInStep` | |
| | `CallbackKeepsTimer` | `[]CallbackHoldsTimer` | |
| | `WakeupNeverLost` | `[]NoLostWakeup` | |
| | `EndedAlwaysSwept` | `[]EndedTimersSwept` | |
| | `CacheImplementsService` | `ImplementsTimerService` | |
| `ModuleServerProofs` | `ServerTypeCorrect` | `[]TypeOK` | |
| | `HandlersAlwaysRunOnce` | `[]HandlersRunOnce` | |
| | `HandlersAlwaysRunForOwnService` | `[]HandlersRunForOwnService` | |
| | `QueueServedByOneAtATime` | `[]SendingInProgress` | `[]OneAtSize` |
| | `QueueServedForOneCaller` | `[]SendingInProgress` | `OneCaller` |
| | `NoRequestEverForgotten` | `[]NoRequestForgotten` | |
| | `EntriesStayTrue` | `[]EntriesNameLiveTimers` | `~Expiring` |
| | `OnlySharedCodesEverStray` | `[]OnlySharedCodesStray` | `~Expiring` |
| `TcpConnectionProofs` | `ConnectionTypeCorrect` | `[]TypeOK` | |
| | `FramesStayIntact` | `[]FramesIntact` | `OneSender` |
| | `QueueStaysServed` | `[]QueueIsServed` | `OneSender` |
| | `OneChainOfWrites` | `[]OneSendingThread` | `OneSender` |
| | `ConnectionImplementsStream` | `ImplementsMessageStream` | `OneSender` |
| `WatchdogSessionProofs` | `SessionTypeCorrect` | `[]TypeOK` | |
| | `PingsAlwaysCarryCode` | `[]PingsCarryCode` | |
| | `PingCyclesBounded` | `[]OnePingCyclePerConnection` | |
| | `LossAlwaysNoticed` | `[]LossIsNoticed` | |
| `IdentifiersProofs` | `KindsStayApart` | `KindsApart(n)` for every 32-bit number `n` | |
| | `NumbersStayApart` | different numbers give different identifiers, and a module's is never a service's | |
| | `IdentifiersStayApart` | `IdentifiersApart` | |

*Assumptions.* `Byte3Type` of `Identifiers`; `TimerFinite`, `NoTimerAssumption`,
`DurationType`, `RepeatableType`, `MaxTimeType` of `TimersCache`; `HandlerAssumption`
of `EventsCache`; `NoMessageAssumption`, `BoundsType` of `ModuleServer`;
`MaxMessagesType`, `EmptyBodyType` of `TcpConnection`; `BoundsType` of
`WatchdogSession`. The sets of clients, codes and handlers are arbitrary.

*Hypotheses.* They are conditions the program may or may not meet; the list says why
each conclusion needs its own:

* `OneSender`: one thread calls `sendMessage`. With two, `connection_two_senders`
  refutes `OneSendingThread`. Type correctness needs no such hypothesis.
* `OneAtSize`: no two threads are between `push()` and `size()` at once.
  `server_stall` shows two that are, and a queue nobody serves. `OneCaller` (no timer
  expires and no handler accepts a request, so that only the user's thread sends)
  implies it; the constants of `server_pipeline` satisfy it.
* `~Expiring`: no resend timer has expired yet. An identifier is reused once its timer
  is gone; a timer can expire between `registerTimer` and `emplace`
  (`ModuleServer.cpp:294`), and the entry made afterwards may name a timer of a message
  with another code, which a late response stops. `NoRequestEverForgotten` does not need
  the hypothesis.

### The arguments

*Timers.* One inductive invariant, `IndInv`, is the conjunction of the
properties and `HeldByOneClient`. That last part is what makes it inductive:
between `MakeTimer` and `internalRegisterTimer` a timer belongs to one client, is
not cached and is `Waiting`; without it two clients could file the same timer, and
an `Ended` timer could enter the cache outside a sweep. There is one lemma per
action. That an identifier is fresh is the pigeonhole principle: the cached timers
have at most `Cardinality(cached)` identifiers, so one of the next
`Cardinality(cached) + 1` numbers is free. That `begin()` is the earliest
expiration needs that a non-empty set of naturals has a least element, which comes
from well-foundedness. In `NoLostWakeup` the interesting cases are a registration
between `nextExpirationTimestamp` and the wait (the flag is up, so the wait returns
at once) and one while the thread sleeps (the client that raised the flag is still
about to notify); a restart raises no flag but only postpones.
For the refinement every action of the cache is matched with one of `TimerService`,
or with a stuttering step (what the clients and the thread do outside the
cache), under `IndInv`.

*Connection.* `ChainInv`: there is at most one write, of the front of the queue; who
writes has raised the flag, and the sender that saw it down is still alone.
`WireInv`: the peer has the frames of the messages that left the queue, and of the next
one the header, and the body too when that write is done and its handler has still to run;
so too when the connection broke there.
`ServedInv` names the two ways in which a message is left in an open connection's
queue, one step earlier than `QueueIsServed` does. `Frames` and the messages they
complete are recursive functions: `RecursionLemmas` proves that such a function exists,
is unique and has the values its definition says, by induction written with a set,
which the provers can instantiate. That the stream delivers each message once follows
from `WireInv`, since a frame's last part completes its message and nothing else does.

*Session.* `CodeBeforeTimer` and `CodeBeforePing` follow the code from the connect
response to the timer, its handler, the queue and the watchdog's answers: nothing on
that path exists before the code is set. `Reading` says that `Connected` is the
state only while the one read is outstanding, about to be started, or about to be
given up; `Writing` who has the one right to write; `PingCycle` is a budget: the
cycles there are, and those that main and the watcher are still about to start, are
at most the number of sockets. The proof groups the actions by thread, and by what
they do to the messages (`MessagesStep`), so that the counting is done once.

*Events.* `Ordered` says the sequence is sorted by service, without repetition; an
iterator is a handler and its place is computed. `LoopInv` says that the loop is
inside its range; that of the handlers it found when it started, those in front of
the bound are those of the sender and of earlier services; and that it has run, in
their order, the accepting ones it has come past. An insertion keeps the order of
any two iterators (`EmplacedKeeps`), so it keeps `LoopInv` wherever it falls.

*Server.* Types come with `CodesHeld`: who deals with a message holds it. The queue
is served because a thread that has pushed behind another message finds somebody who
sends (`PushedBehindSender`). A request is pursued because a message moves from the
queue to a timer in one step (`registerTimer`), *before* it is sent and popped:
`Waiting(m)` is a message in the queue whose place nobody has sent yet, and `Kept`
says a message is answered, given up, strayed, with the callback, in a pending timer
or `Waiting`. `PlacesMeanCodes` says that a place in the queue still means the same
message, and `CallbackHoldsLock` that the callback, which needs the lock of its own
timer, never gets past `registerTimer`: its message stays in the queue.
`EntriesStayTrue` needs that the identifier held between `registerTimer` and
`emplace` is that of a live timer that no entry names, except one that is being
erased (`HoldsOwnTimer`), and that an entry stays while its response is handled
(`EntryStays`).

*Identifiers.* Division with remainder: a number that fits has the highest byte 0,
so adding a code times `Byte3` leaves the number as the remainder and the code as the
quotient, and the codes 42 and 52 differ.

The inductive invariants were checked with TLC on the instances of the runs before
they were proved.

*Only model-checked.* Liveness (`ExpiredTimerFires`, `EndedTimerLeaves`,
`QueuedIsTransmitted`, `QueuedIsWritten`, `IoThreadLeaves`, `StartUpDecides`), which
is out of the prover's reach. The violations are TLC's counterexamples.

## Not modelled

* Logging and the message makers: output and field copies.
* Configuration and MongoDB access, beyond their outcomes: the configuration is read
  or not (`readFromJson`), a service is found, not found, or the lookup throws. The
  lookup by name, `drop` and `isConnected` have no caller.
* `ModuleTimersManager` and `ModuleConnectionManager`: nobody initialises them, so a
  call would dereference a null instance. What they forward to is modelled.
* The option parser, `SIGINTSignalHandler` (no caller), `blockingWriteMessageHeader`
  (no caller), `setConnectionStateAndNotifyOne` (no caller), `setActive` (never read).
* An exception that leaves a handler on the io thread, and main's `poll()` in
  `ModuleServer`: there the server's handlers run on one thread, as they do until the
  user's task has returned. In `WatchdogSession` main runs handlers too, and the server's
  may block it.

After a failed start the destructor does not join `timersThread`, and the process ends
in `std::terminate` (the state `terminated`); after a good one `joinAll` waits for the
timers thread, whose loop has no end.

## Plan

1. The server with expirations and several codes: a condition on the order of
   `registerTimer`, expiration and `emplace` under which only messages of one code stray.
2. That the server uses its timers as `TimerService` allows (every step of the server is
   a step or a stutter of it), so that with `CacheImplementsService` the composition of
   the two components is proved.
3. Action properties: an acknowledged message is resent at most by a callback that
   already ran.
