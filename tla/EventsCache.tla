---------------------------- MODULE EventsCache ----------------------------
(***************************************************************************)
(* The handlers of received requests (src/Source/src/ModuleEventsCache.cpp,*)
(* EventManager.cpp, include/Event.hpp).                                   *)
(*                                                                         *)
(* The cache is a std::multimap from the identifier of a service to the    *)
(* handlers of its requests.  The user's thread adds handlers; the         *)
(* io_context thread runs those of a request's sender; no lock protects    *)
(* the map.  A handler is the user's code: it may send requests or add     *)
(* handlers itself, while the loop that runs it holds its iterators.       *)
(*                                                                         *)
(* ModuleServer composes the actions below with the rest of the server.    *)
(***************************************************************************)
EXTENDS SequencesExt

CONSTANTS Handler,     \* the EventInterface objects
          NoHandler,   \* no handler; as an iterator, end()
          Key,         \* Key[h]: the service h is registered for
          Validating   \* the handlers whose validateMessage accepts the request

ASSUME HandlerAssumption ==
    /\ NoHandler \notin Handler
    /\ Key \in [Handler -> Int]
    /\ Validating \subseteq Handler

VARIABLES
    eventsCache,  \* the handlers in the order of the multimap
    adding,       \* the handler another thread is just inserting
    loop,         \* the loop over the handlers of a request
    known, ran    \* the handlers there when the loop began; those it has run

eventVars == <<eventsCache, adding, loop, known, ran>>

\* "visit": the loop is at it; "next": about to increment it.
Loop == [stage : {"visit", "next"}, sender : Range(Key),
         it : Handler \cup {NoHandler}, end : Handler \cup {NoHandler}]
NoLoop == [stage |-> "none"]

EventsTypeOK ==
    /\ eventsCache \in Seq(Handler)
    /\ adding \in Handler \cup {NoHandler}
    /\ loop \in Loop \cup {NoLoop}
    /\ known \in SUBSET Handler
    /\ ran \in Seq(Handler)

EventsInit ==
    /\ eventsCache = <<>>
    /\ adding = NoHandler
    /\ loop = NoLoop
    /\ known = {}
    /\ ran = <<>>

----------------------------------------------------------------------------
(* The multimap.                                                           *)

Position(h) == CHOOSE i \in DOMAIN eventsCache : eventsCache[i] = h

\* The iterator to place i; past the last handler it is end().
Iterator(i) == IF i \in DOMAIN eventsCache THEN eventsCache[i] ELSE NoHandler

\* Mutant: the next handler is skipped.
Successor_skips(h) == Iterator(Position(h) + 2)

Successor(h) == Iterator(Position(h) + 1)

\* How many handlers have a key below, or not above, k.
Below(k) == Cardinality({i \in DOMAIN eventsCache : Key[eventsCache[i]] < k})
UpTo(k) == Cardinality({i \in DOMAIN eventsCache : Key[eventsCache[i]] <= k})

\* emplace puts a handler behind those with the same key.
Emplaced(h) == InsertAt(eventsCache, UpTo(Key[h]) + 1, h)

Unregistered(h) == h \notin Range(eventsCache) /\ h # adding

\* Two threads are in the multimap at once.
Race == adding # NoHandler

----------------------------------------------------------------------------
(* Registration by the user's thread, EventManager::registerNewEventHandler*)
(* and addEvent: the insertion has a beginning and an end.                 *)

BeginAddEvent(h) ==
    /\ Unregistered(h)
    /\ adding = NoHandler
    /\ adding' = h
    /\ UNCHANGED <<eventsCache, loop, known, ran>>

EndAddEvent ==
    /\ adding # NoHandler
    /\ eventsCache' = Emplaced(adding)
    /\ adding' = NoHandler
    /\ UNCHANGED <<loop, known, ran>>

----------------------------------------------------------------------------
(* runRequestsHandlers, on the io_context thread.                          *)

\* Mutant: the loop runs to the end of the multimap.
RangeEnd_ofAll(sender) == NoHandler

\* range.second of equal_range: the first handler of the next service.
RangeEnd(sender) == Iterator(UpTo(sender) + 1)

\* find_if and equal_range; without a handler of the sender, nothing happens.
BeginLoop(sender) ==
    /\ ~Race
    /\ \E h \in Range(eventsCache) : Key[h] = sender
    /\ loop' = [stage |-> "visit", sender |-> sender,
                it |-> Iterator(Below(sender) + 1), end |-> RangeEnd(sender)]
    /\ known' = Range(eventsCache)
    /\ ran' = <<>>
    /\ UNCHANGED <<eventsCache, adding>>

Visiting == loop.stage = "visit" /\ loop.it # loop.end

\* MessageReceiveEvent::validateMessage; a handler without a callback accepts
\* nothing.
Valid(h) == h \in Validating

\* handleReceivedMessage of a handler that accepts the message, and that may
\* register another handler, `added`, from within the loop.
Visit(added) ==
    /\ Visiting
    /\ added # NoHandler => Valid(loop.it) /\ ~Race /\ Unregistered(added)
    /\ ran' = IF Valid(loop.it) THEN Append(ran, loop.it) ELSE ran
    /\ eventsCache' = IF added = NoHandler THEN eventsCache ELSE Emplaced(added)
    /\ loop' = [loop EXCEPT !.stage = "next"]
    /\ UNCHANGED <<adding, known>>

\* ++it: an iterator survives insertions, and moves to what follows now.
Advance ==
    /\ loop.stage = "next"
    /\ ~Race
    /\ loop' = [loop EXCEPT !.stage = "visit", !.it = Successor(loop.it)]
    /\ UNCHANGED <<eventsCache, adding, known, ran>>

EndLoop ==
    /\ loop.stage = "visit"
    /\ loop.it = loop.end
    /\ loop' = NoLoop
    /\ known' = {}
    /\ ran' = <<>>
    /\ UNCHANGED <<eventsCache, adding>>

----------------------------------------------------------------------------
(* Properties.                                                             *)

\* When the loop for a request ends, every handler of its sender that was there
\* when the request came and that accepts it has run, and none has run twice:
\* whatever was registered meanwhile, by the user's thread or by a handler.
HandlersRunOnce ==
    /\ \A i, j \in DOMAIN ran : ran[i] = ran[j] => i = j
    /\ loop.stage = "visit" /\ ~Visiting =>
          \A h \in known \cap Validating : Key[h] = loop.sender => h \in Range(ran)

\* A handler runs for requests of its own service, with one exception:
\* range.second is the first handler of a later service, so that a handler of a
\* service in between, registered while the loop runs, is taken for one of the
\* sender's.
HandlersRunForOwnService ==
    \A h \in Range(ran) :
        Key[h] = loop.sender \/ (h \notin known /\ Key[h] > loop.sender)
============================================================================
