---------------------------- MODULE TimersCache ----------------------------
(***************************************************************************)
(* The cache of timers and the thread that serves it                       *)
(* (src/Source/src/TimersCache.cpp, TimersThreadMain.cpp, Timer.cpp).      *)
(*                                                                         *)
(* Client threads (the user's thread and the io_context thread) register,  *)
(* remove and restart timers; the timers thread sleeps on a condition      *)
(* variable until the earliest expiration, runs the callbacks of the       *)
(* expired timers, re-arms the repeatable ones and drops the others.       *)
(*                                                                         *)
(* timersLock is held across several steps only while callbacks run (the   *)
(* future returned by std::async blocks in its destructor, inside the      *)
(* critical section of triggerExpiredTimers).  Every other critical        *)
(* section blocks on nothing and is one action, enabled when the lock is   *)
(* free.                                                                   *)
(***************************************************************************)
EXTENDS FiniteSetsExt

CONSTANTS Timer,        \* timer objects, each registered at most once
          Client,       \* threads that call the cache
          NoTimer,      \* "no callback is running"
          Duration,     \* Duration[t]: setDuration of timer t
          Repeatable,   \* timers with setRepeatable(true)
          MaxTime       \* bound: the clock stops here

ASSUME TimerFinite == IsFiniteSet(Timer)
ASSUME NoTimerAssumption == NoTimer \notin Timer
ASSUME DurationType == Duration \in [Timer -> Nat]
ASSUME RepeatableType == Repeatable \subseteq Timer
ASSUME MaxTimeType == MaxTime \in Nat

VARIABLES
    now,                  \* high_resolution_clock
    made,                 \* timers constructed so far
    cached,               \* timers in the multimap `timers'
    key,                  \* key[t]: the multimap key t is filed under
    timerID,              \* timerID[t]: 0 until the cache gives one
    startTimestamp,
    actionStatus,
    timersInvokedStatus,  \* the flag the condition variable's predicate reads
    notified,             \* a notify_one that the sleeping thread has yet to see
    thread,               \* program counter of TimersThreadMain
    waitFor,              \* local nextExpiration
    timePoint,            \* local now
    running,              \* the timer whose callback runs, or NoTimer
    pc,                   \* pc[c]: where client c is in a call
    arg                   \* arg[c]: the timer c is registering

timerVars == <<made, cached, key, timerID, startTimestamp, actionStatus>>
threadVars == <<thread, waitFor, timePoint, running>>
clientVars == <<pc, arg>>
vars == <<now, timerVars, timersInvokedStatus, notified, threadVars, clientVars>>

Asleep == {"sleepUntil", "sleepInvoke"}
ThreadPc == {"next", "waitUntil", "waitInvoke", "now", "trigger", "triggering",
             "restart", "removeEnded"} \cup Asleep
ClientPc == {"idle", "register", "notify"}
ActionStatus == {"Waiting", "Running", "Ended"}

TypeOK ==
    /\ now \in 0..MaxTime
    /\ made \in SUBSET Timer
    /\ cached \in SUBSET made
    /\ key \in [Timer -> Nat]
    /\ timerID \in [Timer -> Nat]
    /\ startTimestamp \in [Timer -> 0..now]
    /\ actionStatus \in [Timer -> ActionStatus]
    /\ timersInvokedStatus \in BOOLEAN
    /\ notified \in BOOLEAN
    /\ thread \in ThreadPc
    /\ waitFor \in Nat
    /\ timePoint \in 0..now
    /\ running \in Timer \cup {NoTimer}
    /\ pc \in [Client -> ClientPc]
    /\ arg \in [Client -> made \cup {NoTimer}]

Init ==
    /\ now = 0
    /\ made = {}
    /\ cached = {}
    /\ key = [t \in Timer |-> 0]
    /\ timerID = [t \in Timer |-> 0]
    /\ startTimestamp = [t \in Timer |-> 0]
    /\ actionStatus = [t \in Timer |-> "Waiting"]
    /\ timersInvokedStatus = FALSE
    /\ notified = FALSE
    /\ thread = "next"
    /\ waitFor = 0
    /\ timePoint = 0
    /\ running = NoTimer
    /\ pc = [c \in Client |-> "idle"]
    /\ arg = [c \in Client |-> NoTimer]

----------------------------------------------------------------------------
(* Timers and the multimap.                                                *)

getExpirationTimestamp(t) == startTimestamp[t] + Duration[t]

\* Mutant: the number of timers plus one, as if identifiers were never freed.
generateTimerID_countsTimers == Cardinality(cached) + 1

\* The first identifier, from smallestTimerID = 1, that no cached timer has.
generateTimerID ==
    Min({i \in 1 .. Cardinality(cached) + 1 : \A t \in cached : timerID[t] # i})

\* Mutant: triggerExpiredTimers gives the lock up while a callback runs.
LockFree_always == TRUE

\* triggerExpiredTimers holds timersLock until the last callback returns.
LockFree == thread # "triggering"

\* Mutant: the start is set to the expiration.
Construct_startsLate(t) ==
    /\ t \notin made
    /\ made' = made \cup {t}
    /\ startTimestamp' = [startTimestamp EXCEPT ![t] = now + Duration[t]]

\* The constructor: the timer is Waiting, one-shot or not, and starts now.
Construct(t) ==
    /\ t \notin made
    /\ made' = made \cup {t}
    /\ startTimestamp' = [startTimestamp EXCEPT ![t] = now]

\* setTimerID and timers.insert, common to the two ways to register.
Insert(t, expiration) ==
    /\ timerID' = [timerID EXCEPT ![t] = generateTimerID]
    /\ key' = [key EXCEPT ![t] = expiration]
    /\ cached' = cached \cup {t}
    /\ UNCHANGED actionStatus

----------------------------------------------------------------------------
(* The client threads.                                                     *)

Goto(c, where) == pc' = [pc EXCEPT ![c] = where]

\* The caller builds the timer, and its clock starts, before it has the lock.
MakeTimer(c, t) ==
    /\ pc[c] = "idle"
    /\ Construct(t)
    /\ Goto(c, "register")
    /\ arg' = [arg EXCEPT ![c] = t]
    /\ UNCHANGED <<now, cached, key, timerID, actionStatus,
                   timersInvokedStatus, notified, threadVars>>

\* Mutant: the new timer does not raise the flag.
internalRegisterTimer_noFlag(c) ==
    /\ pc[c] = "register"
    /\ LockFree
    /\ Insert(arg[c], getExpirationTimestamp(arg[c]))
    /\ Goto(c, "notify")
    /\ UNCHANGED <<now, made, startTimestamp, timersInvokedStatus, notified, threadVars, arg>>

internalRegisterTimer(c) ==
    /\ pc[c] = "register"
    /\ LockFree
    /\ Insert(arg[c], getExpirationTimestamp(arg[c]))
    /\ timersInvokedStatus' = TRUE
    /\ Goto(c, "notify")
    /\ UNCHANGED <<now, made, startTimestamp, notified, threadVars, arg>>

\* registerTimer(nullptr) changes nothing in the cache but still notifies.
registerNullTimer(c) ==
    /\ pc[c] = "idle"
    /\ LockFree
    /\ Goto(c, "notify")
    /\ UNCHANGED <<now, timerVars, timersInvokedStatus, notified, threadVars, arg>>

\* A caller names a timer by an identifier it was given once; the timer may be
\* gone since then, and the identifier given to another.
CachedUnder(i) == {t \in cached : timerID[t] = i}
IdsGiven == {timerID[t] : t \in made} \ {0}

internalRemoveTimer(c, i) ==
    /\ pc[c] = "idle"
    /\ LockFree
    /\ \E t \in CachedUnder(i) : cached' = cached \ {t}
    /\ timersInvokedStatus' = TRUE
    /\ Goto(c, "notify")
    /\ UNCHANGED <<now, made, key, timerID, startTimestamp, actionStatus,
                   notified, threadVars, arg>>

\* Mutant: the notification is forgotten.
notifyOne_forgotten(c) ==
    /\ pc[c] = "notify"
    /\ Goto(c, "idle")
    /\ arg' = [arg EXCEPT ![c] = NoTimer]
    /\ UNCHANGED <<now, timerVars, timersInvokedStatus, notified, threadVars>>

\* registerTimer and removeTimer notify after they have released the lock.
notifyOne(c) ==
    /\ pc[c] = "notify"
    /\ notified' = (notified \/ thread \in Asleep)
    /\ Goto(c, "idle")
    /\ arg' = [arg EXCEPT ![c] = NoTimer]
    /\ UNCHANGED <<now, timerVars, timersInvokedStatus, threadVars>>

\* Mutant: the timer starts over but keeps its place in the multimap.
restartTimer_notRefiled(c, i) ==
    /\ pc[c] = "idle"
    /\ LockFree
    /\ \E t \in CachedUnder(i) : startTimestamp' = [startTimestamp EXCEPT ![t] = now]
    /\ UNCHANGED <<now, made, cached, key, timerID, actionStatus,
                   timersInvokedStatus, notified, threadVars, clientVars>>

\* restartTimer starts the timer over and files it again; it wakes nobody.
restartTimer(c, i) ==
    /\ pc[c] = "idle"
    /\ LockFree
    /\ \E t \in CachedUnder(i) :
         /\ startTimestamp' = [startTimestamp EXCEPT ![t] = now]
         /\ key' = [key EXCEPT ![t] = now + Duration[t]]
    /\ UNCHANGED <<now, made, cached, timerID, actionStatus,
                   timersInvokedStatus, notified, threadVars, clientVars>>

ClientStep(c) ==
    \/ \E t \in Timer : MakeTimer(c, t)
    \/ internalRegisterTimer(c)
    \/ registerNullTimer(c)
    \/ \E i \in IdsGiven : internalRemoveTimer(c, i) \/ restartTimer(c, i)
    \/ notifyOne(c)

----------------------------------------------------------------------------
(* The timers thread, one turn of the loop of TimersThreadMain.            *)

nextExpirationTimestamp ==
    /\ thread = "next"
    /\ \/ /\ cached = {}
          /\ thread' = "waitInvoke"
          /\ UNCHANGED waitFor
       \/ /\ cached # {}
          /\ thread' = "waitUntil"
          /\ waitFor' = Min({key[t] : t \in cached})
    /\ UNCHANGED <<now, timerVars, timersInvokedStatus, notified,
                   timePoint, running, clientVars>>

\* The wait returns and the flag is cleared, under the same lock.  The local
\* nextExpiration is not used again (0 stands for a dead local).
Return ==
    /\ timersInvokedStatus' = FALSE
    /\ thread' = "now"
    /\ waitFor' = 0

\* waitForNextExpiration and waitForInvoke: the predicate is read first, and
\* the thread sleeps, with the lock released, only if it is false.
Wait(before, asleep) ==
    /\ thread = before
    /\ \/ timersInvokedStatus /\ Return
       \/ ~timersInvokedStatus /\ thread' = asleep /\ UNCHANGED <<timersInvokedStatus, waitFor>>
    /\ UNCHANGED <<now, timerVars, notified, timePoint, running, clientVars>>

waitForNextExpiration == Wait("waitUntil", "sleepUntil")
waitForInvoke == Wait("waitInvoke", "sleepInvoke")

TimedOut == thread = "sleepUntil" /\ now >= waitFor

\* An awake thread takes the lock and reads the predicate again.
Awake ==
    /\ notified' = FALSE
    /\ \/ (timersInvokedStatus \/ TimedOut) /\ Return
       \/ ~(timersInvokedStatus \/ TimedOut) /\ UNCHANGED <<timersInvokedStatus, thread, waitFor>>
    /\ UNCHANGED <<now, timerVars, timePoint, running, clientVars>>

WakeUp ==
    /\ thread \in Asleep
    /\ notified \/ TimedOut
    /\ Awake

\* A condition variable may wake its sleeper for no reason.
SpuriousWakeUp ==
    /\ thread \in Asleep
    /\ Awake

ReadClock ==
    /\ thread = "now"
    /\ timePoint' = now
    /\ thread' = "trigger"
    /\ UNCHANGED <<now, timerVars, timersInvokedStatus, notified, waitFor,
                   running, clientVars>>

\* triggerExpiredTimers takes the lock.
BeginTrigger ==
    /\ thread = "trigger"
    /\ thread' = "triggering"
    /\ UNCHANGED <<now, timerVars, timersInvokedStatus, notified, waitFor,
                   timePoint, running, clientVars>>

\* Mutant: a timer counts as expired at its expiration, not after it.
Expired_atExpiration == {t \in cached : /\ actionStatus[t] = "Waiting"
                                        /\ getExpirationTimestamp(t) <= timePoint}

\* The timers that triggerExpiredTimers still has to run.  A timer that a
\* callback files during the pass starts at or after timePoint, so it is not
\* one of them wherever the iteration stands.
Expired == {t \in cached : /\ actionStatus[t] = "Waiting"
                           /\ getExpirationTimestamp(t) < timePoint}

\* for_each goes through the multimap in the order of its keys.
StartCallback(t) ==
    /\ thread = "triggering"
    /\ running = NoTimer
    /\ t \in Expired
    /\ \A u \in Expired : key[t] <= key[u]
    /\ running' = t
    /\ actionStatus' = [actionStatus EXCEPT ![t] = "Running"]
    /\ UNCHANGED <<now, made, cached, key, timerID, startTimestamp,
                   timersInvokedStatus, notified, thread, waitFor, timePoint,
                   clientVars>>

\* A callback may file another timer with registerTimerNoLock.
registerTimerNoLock(t) ==
    /\ running # NoTimer
    /\ Construct(t)
    /\ Insert(t, now + Duration[t])
    /\ UNCHANGED <<now, timersInvokedStatus, notified, threadVars, clientVars>>

CallbackReturns ==
    /\ running # NoTimer
    /\ actionStatus' = [actionStatus EXCEPT ![running] = "Ended"]
    /\ running' = NoTimer
    /\ UNCHANGED <<now, made, cached, key, timerID, startTimestamp,
                   timersInvokedStatus, notified, thread, waitFor, timePoint,
                   clientVars>>

\* The exception goes into the future and is dropped with it; the assignment
\* of Ended is skipped.
CallbackThrows ==
    /\ running # NoTimer
    /\ running' = NoTimer
    /\ UNCHANGED <<now, timerVars, timersInvokedStatus, notified, thread,
                   waitFor, timePoint, clientVars>>

EndTrigger ==
    /\ thread = "triggering"
    /\ running = NoTimer
    /\ Expired = {}
    /\ thread' = "restart"
    /\ timePoint' = 0
    /\ UNCHANGED <<now, timerVars, timersInvokedStatus, notified, waitFor,
                   running, clientVars>>

EndedTimers == {t \in cached : actionStatus[t] = "Ended"}

\* Mutant: the timer is filed again, but setActionStatus is forgotten.
restartRepeatableTimers_staysEnded ==
    /\ thread = "restart"
    /\ LET toRestart == EndedTimers \cap Repeatable
       IN  /\ startTimestamp' = [t \in Timer |->
                 IF t \in toRestart THEN now ELSE startTimestamp[t]]
           /\ key' = [t \in Timer |->
                 IF t \in toRestart THEN now + Duration[t] ELSE key[t]]
    /\ thread' = "removeEnded"
    /\ UNCHANGED <<now, made, cached, timerID, actionStatus, timersInvokedStatus,
                   notified, waitFor, timePoint, running, clientVars>>

restartRepeatableTimers ==
    /\ thread = "restart"
    /\ LET toRestart == EndedTimers \cap Repeatable
       IN  /\ actionStatus' = [t \in Timer |->
                 IF t \in toRestart THEN "Waiting" ELSE actionStatus[t]]
           /\ startTimestamp' = [t \in Timer |->
                 IF t \in toRestart THEN now ELSE startTimestamp[t]]
           /\ key' = [t \in Timer |->
                 IF t \in toRestart THEN now + Duration[t] ELSE key[t]]
    /\ thread' = "removeEnded"
    /\ UNCHANGED <<now, made, cached, timerID, timersInvokedStatus, notified,
                   waitFor, timePoint, running, clientVars>>

\* Mutant: the repeatable timers are dropped instead of the others.
removeEndedTimers_negated ==
    /\ thread = "removeEnded"
    /\ cached' = cached \ (EndedTimers \cap Repeatable)
    /\ thread' = "next"
    /\ UNCHANGED <<now, made, key, timerID, startTimestamp, actionStatus,
                   timersInvokedStatus, notified, waitFor, timePoint, running,
                   clientVars>>

removeEndedTimers ==
    /\ thread = "removeEnded"
    /\ cached' = cached \ (EndedTimers \ Repeatable)
    /\ thread' = "next"
    /\ UNCHANGED <<now, made, key, timerID, startTimestamp, actionStatus,
                   timersInvokedStatus, notified, waitFor, timePoint, running,
                   clientVars>>

\* The thread's own steps.  A callback returns or throws: one that calls an
\* operation that takes timersLock does neither (module ModuleServer).
TimersThread ==
    \/ nextExpirationTimestamp
    \/ waitForNextExpiration
    \/ waitForInvoke
    \/ WakeUp
    \/ ReadClock
    \/ BeginTrigger
    \/ \E t \in Timer : StartCallback(t)
    \/ CallbackReturns
    \/ CallbackThrows
    \/ EndTrigger
    \/ restartRepeatableTimers
    \/ removeEndedTimers

Tick ==
    /\ now < MaxTime
    /\ now' = now + 1
    /\ UNCHANGED <<timerVars, timersInvokedStatus, notified, threadVars, clientVars>>

Next ==
    \/ \E c \in Client : ClientStep(c)
    \/ TimersThread
    \/ SpuriousWakeUp
    \/ \E t \in Timer : registerTimerNoLock(t)
    \/ Tick

Spec == Init /\ [][Next]_vars

\* The scheduler runs the timers thread, and a client that is about to notify
\* does (it needs no lock for that).
Fairness ==
    /\ WF_vars(TimersThread)
    /\ \A c \in Client : WF_vars(notifyOne(c))

LiveSpec == Spec /\ Fairness

----------------------------------------------------------------------------
(* Properties.                                                             *)

\* The identifiers that generateTimerID hands out are never 0 and never shared
\* by two timers in the cache, although those of removed timers are reused
\* (Timer.hpp: "it may lead to have two timers with the same id").
TimerIdsUnique ==
    /\ \A t \in cached : timerID[t] > 0
    /\ \A t, u \in cached : timerID[t] = timerID[u] => t = u

\* The multimap is sorted by what the timers say: whatever restarts a timer
\* also files it again, so begin() is the earliest expiration.
KeysInStep == \A t \in cached : key[t] = getExpirationTimestamp(t)

\* The timer whose callback runs is in the cache and Running, and the lock is
\* held: nobody can erase (destroy) it under its callback.
CallbackHoldsTimer ==
    running # NoTimer =>
        /\ running \in cached
        /\ actionStatus[running] = "Running"
        /\ thread = "triggering"

\* The thread never sleeps past an expiration it has not been told about: when
\* the flag is down, what it computed in nextExpirationTimestamp is still the
\* earliest expiration or earlier; and when the flag is up while it sleeps, a
\* notify_one has reached it or is on its way, or the time is already up.
NoLostWakeup ==
    /\ thread \in {"waitUntil", "sleepUntil"} /\ ~timersInvokedStatus =>
          \A t \in cached : waitFor <= key[t]
    /\ thread \in {"waitInvoke", "sleepInvoke"} /\ ~timersInvokedStatus =>
          cached = {}
    /\ thread \in Asleep /\ timersInvokedStatus =>
          notified \/ \E c \in Client : pc[c] = "notify"

\* A timer whose callback has ended is re-armed or dropped in the same turn of
\* the loop: the thread never waits for a timer that is over.
EndedTimersSwept ==
    /\ thread \notin {"triggering", "restart", "removeEnded"} => EndedTimers = {}
    /\ thread = "removeEnded" => EndedTimers \cap Repeatable = {}

\* A timer on its way into the cache is Waiting, is not in the cache yet, and
\* belongs to one client (the unique_ptr that registerTimer moves).
HeldByOneClient ==
    /\ \A t \in Timer \ made : actionStatus[t] = "Waiting"
    /\ \A c \in Client : pc[c] = "register" =>
          /\ arg[c] \in made \ cached
          /\ actionStatus[arg[c]] = "Waiting"
    /\ \A c, d \in Client :
          pc[c] = "register" /\ pc[d] = "register" /\ arg[c] = arg[d] => c = d

\* What is inductive: the invariants together.
IndInv ==
    /\ TypeOK
    /\ TimerIdsUnique
    /\ KeysInStep
    /\ CallbackHoldsTimer
    /\ HeldByOneClient
    /\ EndedTimersSwept
    /\ NoLostWakeup

\* Where a timer is in its life, in the terms of TimerService.
Held == {t \in Timer : \E c \in Client : pc[c] = "register" /\ arg[c] = t}
PhaseOf(t) ==
    CASE t \in cached /\ actionStatus[t] = "Waiting" -> "pending"
      [] t \in cached /\ actionStatus[t] = "Ended" -> "done"
      [] t \in cached /\ actionStatus[t] = "Running" ->
             IF running = t THEN "firing" ELSE "failed"
      [] t \notin cached -> IF t \in made \ Held THEN "gone" ELSE "new"

Service == INSTANCE TimerService
               WITH id <- timerID, due <- key, phase <- [t \in Timer |-> PhaseOf(t)]

\* The cache and its thread keep the promises of TimerService: callbacks only
\* for due timers that are in the cache, one at a time, none after a removal,
\* one per one-shot timer; identifiers of live timers distinct.
ImplementsTimerService == Service!Spec

\* A timer that has expired does not stay Waiting: the thread runs it, unless
\* somebody removes or restarts it first.
ExpiredTimerFires ==
    \A t \in Timer :
        (t \in cached /\ actionStatus[t] = "Waiting" /\ getExpirationTimestamp(t) < now)
            ~> ~(t \in cached /\ actionStatus[t] = "Waiting"
                   /\ getExpirationTimestamp(t) < now)

\* A timer whose callback has returned does not stay in the cache as Ended.
EndedTimerLeaves ==
    \A t \in Timer : (t \in EndedTimers) ~> (t \notin EndedTimers)
============================================================================
