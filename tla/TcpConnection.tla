--------------------------- MODULE TcpConnection ---------------------------
(***************************************************************************)
(* The TCP connection to the watchdog: sendMessage and the chain of        *)
(* asynchronous writes, header then body, that empties the queue; the      *)
(* chain of asynchronous reads; disconnection                              *)
(* (src/Source/include/Connection.hpp).                                    *)
(*                                                                         *)
(* One socket is followed from connect to close.  Completion handlers run  *)
(* on the io_context thread, one at a time; sendMessage runs on any thread *)
(* of Sender.  A message is named by its place in the order of the queue.  *)
(***************************************************************************)
EXTENDS SequencesExt, FiniteSetsExt

CONSTANTS Sender,        \* threads that call sendMessage
          Io,            \* the io_context thread
          MaxMessages,   \* bound: messages sent
          EmptyBody      \* places of the messages that serialise to nothing

ASSUME MaxMessagesType == MaxMessages \in Nat
ASSUME EmptyBodyType == EmptyBody \subseteq 1 .. MaxMessages

Thread == Sender \cup {Io}

VARIABLES
    socket,              \* "new", "open" or "closed"
    pushed, popped,      \* messagesQueue holds the messages popped+1 .. pushed
    sendingInProgress,
    writes,              \* async_writes whose handlers have not run, in order
    out,                 \* the first of them is done, and its handler ready
    wire,                \* what the peer received: headers and bodies
    reading,             \* the outstanding async_read, "header" or "body", and
                         \* whether it is done; "none" before the first, "off"
                         \* when the chain has ended
    pc,                  \* pc[th]: where th is in the connection's code
    overlooked,          \* the last message queued between empty() and the flag
    broken               \* undefined behaviour happened: the run ends

queueVars == <<pushed, popped, overlooked>>
writeVars == <<sendingInProgress, writes, out, wire>>
vars == <<socket, queueVars, writeVars, reading, pc, broken>>

Part == [part : {"header", "body"}, of : 1 .. MaxMessages]
Header(m) == [part |-> "header", of |-> m]
Body(m) == [part |-> "body", of |-> m]

\* "check": pushed, about to look at the socket and the flag; "start": saw that
\* nobody is sending; "empty", "more": a message was popped, with and without a
\* body; "clear": about to lower the flag.
Pc == {"idle", "check", "start", "empty", "more", "clear"}

TypeOK ==
    /\ socket \in {"new", "open", "closed"}
    /\ popped \in 0 .. pushed
    /\ pushed \in 0 .. MaxMessages
    /\ sendingInProgress \in BOOLEAN
    /\ writes \in Seq(Part)
    /\ out \in BOOLEAN
    /\ wire \in Seq(Part)
    /\ reading \in {"none", "off", "header", "headerDone", "body", "bodyDone"}
    /\ pc \in [Thread -> Pc]
    /\ overlooked \in 0 .. pushed
    /\ broken \in BOOLEAN

Init ==
    /\ socket = "new"
    /\ pushed = 0 /\ popped = 0 /\ sendingInProgress = FALSE
    /\ writes = <<>> /\ out = FALSE /\ wire = <<>>
    /\ reading = "none"
    /\ pc = [th \in Thread |-> "idle"]
    /\ overlooked = 0
    /\ broken = FALSE

----------------------------------------------------------------------------

At(th, where) == pc[th] = where /\ ~broken
Goto(th, where) == pc' = [pc EXCEPT ![th] = where]
QueueEmpty == popped = pushed

\* front() or pop() of an empty queue.
Undefined ==
    /\ broken' = TRUE
    /\ UNCHANGED <<socket, queueVars, writeVars, reading, pc>>

\* Mutant: the header of the message pushed last.
writeMessageHeader_ofBack == writes' = Append(writes, Header(pushed))

\* writeMessageHeader: a header for whatever is at the front of the queue.
writeMessageHeader == writes' = Append(writes, Header(popped + 1))

\* Mutant: two messages are popped.
pop_twice == popped' = popped + 2

pop == popped' = popped + 1

\* Mutant: the chain ends after one message.
MoreMessages_never == FALSE

MoreMessages == ~QueueEmpty

\* Mutant: the flag stays up when the queue is empty.
lowerFlag_forgotten == UNCHANGED sendingInProgress

lowerFlag == sendingInProgress' = FALSE

----------------------------------------------------------------------------
(* connect, startReadingSequence and closeSocket, by the connection's user. *)

connect ==
    /\ ~broken
    /\ socket = "new"
    /\ socket' = "open"
    /\ UNCHANGED <<queueVars, writeVars, reading, pc, broken>>

startReading ==
    /\ ~broken
    /\ socket = "open"
    /\ reading = "none"
    /\ reading' = "header"
    /\ UNCHANGED <<socket, queueVars, writeVars, pc, broken>>

closeSocket ==
    /\ ~broken
    /\ socket = "open"
    /\ socket' = "closed"
    /\ UNCHANGED <<queueVars, writeVars, reading, pc, broken>>

----------------------------------------------------------------------------
(* sendMessage.                                                            *)

\* The message is queued whether the connection is open or lost; its users
\* connect before they send.
sendMessage(th) ==
    /\ At(th, "idle")
    /\ socket # "new"
    /\ pushed < MaxMessages
    /\ pushed' = pushed + 1
    /\ overlooked' = IF pc[Io] = "clear" THEN pushed + 1 ELSE overlooked
    /\ Goto(th, "check")
    /\ UNCHANGED <<socket, popped, writeVars, reading, broken>>

\* The flag is read ...
checkSending(th) ==
    /\ At(th, "check")
    /\ Goto(th, IF socket = "open" /\ ~sendingInProgress THEN "start" ELSE "idle")
    /\ UNCHANGED <<socket, queueVars, writeVars, reading, broken>>

\* ... and then set: two steps.
startSending(th) ==
    /\ At(th, "start")
    /\ sendingInProgress' = TRUE
    /\ \/ /\ QueueEmpty
          /\ broken' = TRUE
          /\ UNCHANGED <<writes, pc>>
       \/ /\ ~QueueEmpty
          /\ writeMessageHeader
          /\ Goto(th, "idle")
          /\ UNCHANGED broken
    /\ UNCHANGED <<socket, queueVars, out, wire, reading>>

----------------------------------------------------------------------------
(* Completions of writes, in the order the writes were started.            *)

\* The peer has the first write, while the socket is open; the handler runs
\* later, and by then the socket may be closed.
writeCompletes ==
    /\ ~broken
    /\ socket = "open"
    /\ writes # <<>>
    /\ ~out
    /\ out' = TRUE
    /\ wire' = Append(wire, Head(writes))
    /\ UNCHANGED <<socket, queueVars, sendingInProgress, writes, reading, pc, broken>>

Completes(part) ==
    /\ At(Io, "idle")
    /\ writes # <<>> /\ out
    /\ Head(writes).part = part

\* The header is out: the body of the front of the queue is next, or the next
\* message when there is no body.
postWriteMessageHeader ==
    /\ Completes("header")
    /\ \/ QueueEmpty /\ Undefined
       \/ /\ ~QueueEmpty
          /\ out' = FALSE
          /\ \/ /\ popped + 1 \notin EmptyBody
                /\ writes' = Append(Tail(writes), Body(popped + 1))
                /\ UNCHANGED <<popped, pc>>
             \/ /\ popped + 1 \in EmptyBody
                /\ writes' = Tail(writes)
                /\ pop
                /\ Goto(Io, "more")
          /\ UNCHANGED <<socket, pushed, overlooked, sendingInProgress, wire, reading, broken>>

\* The empty message is off the queue; the flag stays up in any case.
moreAfterEmptyBody ==
    /\ At(Io, "more")
    /\ IF MoreMessages THEN writeMessageHeader ELSE UNCHANGED writes
    /\ Goto(Io, "idle")
    /\ UNCHANGED <<socket, queueVars, sendingInProgress, out, wire, reading, broken>>

postWriteMessageBody ==
    /\ Completes("body")
    /\ \/ QueueEmpty /\ Undefined
       \/ /\ ~QueueEmpty
          /\ out' = FALSE
          /\ writes' = Tail(writes)
          /\ pop
          /\ Goto(Io, "empty")
          /\ UNCHANGED <<socket, pushed, overlooked, sendingInProgress, wire, reading, broken>>

\* empty(), and then the flag: two more steps after pop().
moreMessages ==
    /\ At(Io, "empty")
    /\ \/ ~MoreMessages /\ Goto(Io, "clear") /\ UNCHANGED writes
       \/ MoreMessages /\ writeMessageHeader /\ Goto(Io, "idle")
    /\ UNCHANGED <<socket, queueVars, sendingInProgress, out, wire, reading, broken>>

clearSending ==
    /\ At(Io, "clear")
    /\ lowerFlag
    /\ Goto(Io, "idle")
    /\ UNCHANGED <<socket, queueVars, writes, out, wire, reading, broken>>

\* A write fails (always, once the socket is closed): disconnect, and then the
\* flag is lowered.
writeFails ==
    /\ At(Io, "idle")
    /\ writes # <<>>
    /\ ~out
    /\ writes' = Tail(writes)
    /\ socket' = "closed"
    /\ Goto(Io, "clear")
    /\ UNCHANGED <<queueVars, sendingInProgress, out, wire, reading, broken>>

----------------------------------------------------------------------------
(* Completions of reads.                                                   *)

\* The data of the outstanding read is here, while the socket is open.
readCompletes ==
    /\ ~broken
    /\ socket = "open"
    /\ reading \in {"header", "body"}
    /\ reading' = IF reading = "header" THEN "headerDone" ELSE "bodyDone"
    /\ UNCHANGED <<socket, queueVars, writeVars, pc, broken>>

\* A header with an acceptable size is followed by its body.
postReadMessageHeader ==
    /\ At(Io, "idle")
    /\ reading = "headerDone"
    /\ reading' = "body"
    /\ UNCHANGED <<socket, queueVars, writeVars, pc, broken>>

\* One that announces an empty body ends the chain of reads; nobody is told.
badHeader ==
    /\ At(Io, "idle")
    /\ reading = "headerDone"
    /\ reading' = "off"
    /\ UNCHANGED <<socket, queueVars, writeVars, pc, broken>>

\* The message is handled and the next header is read.
postReadMessageBody ==
    /\ At(Io, "idle")
    /\ reading = "bodyDone"
    /\ reading' = "header"
    /\ UNCHANGED <<socket, queueVars, writeVars, pc, broken>>

readFails ==
    /\ At(Io, "idle")
    /\ reading \in {"header", "body"}
    /\ reading' = "off"
    /\ socket' = "closed"
    /\ UNCHANGED <<queueVars, writeVars, pc, broken>>

----------------------------------------------------------------------------

Completion ==
    \/ postWriteMessageHeader \/ moreAfterEmptyBody
    \/ postWriteMessageBody \/ moreMessages \/ clearSending
    \/ writeFails

Next ==
    \/ connect \/ startReading \/ closeSocket
    \/ \E th \in Sender : sendMessage(th) \/ checkSending(th) \/ startSending(th)
    \/ writeCompletes \/ readCompletes
    \/ Completion
    \/ postReadMessageHeader \/ badHeader \/ postReadMessageBody \/ readFails

Spec == Init /\ [][Next]_vars

\* A sender inside sendMessage goes on, a write on a connected socket gets
\* through or the connection is lost, and the io_context runs the handler of
\* every completed write (its queue of handlers is first in, first out).
Fairness ==
    /\ \A th \in Sender : WF_vars(checkSending(th) \/ startSending(th))
    /\ WF_vars(writeCompletes)
    /\ WF_vars(moreAfterEmptyBody \/ moreMessages \/ clearSending)
    /\ SF_vars(postWriteMessageHeader \/ postWriteMessageBody \/ writeFails)

LiveSpec == Spec /\ Fairness

----------------------------------------------------------------------------
(* Properties.                                                             *)

\* What the peer should get for message m, and for the first m messages.
Frame(m) == IF m \in EmptyBody THEN <<Header(m)>> ELSE <<Header(m), Body(m)>>
Frames[m \in 0 .. MaxMessages] == IF m = 0 THEN <<>> ELSE Frames[m - 1] \o Frame(m)

\* The peer receives the messages whole, in order, each once: a header is
\* followed by its own body and never by another message's; and a message
\* leaves the queue only when the peer has it.
FramesIntact == IsPrefix(wire, Frames[pushed]) /\ IsPrefix(Frames[popped], wire)

\* The parts of the stream that complete a message, and so the messages that
\* the peer has.
Completing(p) == p.part = "body" \/ p.of \in EmptyBody
Completed(w) ==
    LET C[i \in 0 .. Len(w)] ==
            IF i = 0 THEN <<>>
            ELSE IF Completing(w[i]) THEN Append(C[i - 1], w[i].of) ELSE C[i - 1]
    IN  C[Len(w)]
Delivered == Completed(wire)

Stream == INSTANCE MessageStream
              WITH link <- socket, sent <- pushed, delivered <- Delivered

\* With one thread that sends, sendMessage, the chain of writes and disconnect
\* implement MessageStream: they deliver whole messages in order, each once, and
\* nothing is delivered on a closed connection.
ImplementsMessageStream == Stream!Spec

\* On an open connection, queued messages are being written whenever no thread
\* is in the connection's code; unless the last message had an empty body, whose
\* completion leaves the flag up for good, or was queued after empty() was
\* answered and before the flag was lowered: that one waits for the next.
QueueIsServed ==
    (socket = "open" /\ ~QueueEmpty /\ ~broken /\ \A th \in Thread : pc[th] = "idle") =>
        \/ writes # <<>>
        \/ wire # <<>> /\ Last(wire).of \in EmptyBody
        \/ overlooked = pushed

\* "Verify if there is already thread sending message's of this client": there
\* is at most one chain of writes.
OneSendingThread == Len(writes) <= 1

\* A queued message reaches the peer, unless the connection is lost, a message
\* with an empty body left the flag up, or no message follows one that was
\* queued between empty() and the lowering of the flag.
QueuedIsWritten ==
    \A m \in 1 .. MaxMessages :
        (m <= pushed /\ socket = "open") ~>
            (popped >= m \/ socket = "closed" \/ overlooked = pushed
               \/ \E e \in EmptyBody : Header(e) \in Range(wire))
============================================================================
