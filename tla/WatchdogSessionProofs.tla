----------------------- MODULE WatchdogSessionProofs -----------------------
(***************************************************************************)
(* Proofs about WatchdogSession, for every bound on the sockets and on the *)
(* expirations of the ping timer.                                          *)
(***************************************************************************)
EXTENDS WatchdogSession, FiniteSetTheorems, FunctionTheorems, SequenceTheorems, TLAPS

----------------------------------------------------------------------------
(* The inductive invariant.                                                *)

AnyPc == MainPc \cup WatcherPc \cup ReadPc \cup LossPc \cup {"idle", "done", "blocked"}

\* pc is a function of the threads, and a write has a message to write.
Shape ==
    /\ pc \in [Thread -> AnyPc]
    /\ write.res # "none" => messagesQueue # <<>>

Has(m, s) == \E i \in 1 .. Len(s) : s[i] = m

\* Nothing that leads to a ping is there before a response has set the code:
\* no state, program counter, timer or handler that would send one, ...
CodeBeforeTimer ==
    \/ connectionState = "Connected"
    \/ \E th \in Runner : pc[th] = "setState" /\ seen[th] = "accept"
    \/ pc[Main] = "setTimer"
    \/ pc[Watcher] = "setTimer"
    \/ timer
    \/ fires > 0
    => sequenceCode

\* ... and no ping or answer to one.
CodeBeforePing ==
    /\ ~Has("rawPing", messagesQueue)
    /\ Has("ping", messagesQueue) \/ Has("ping", owed) \/ read.res = "pong" => sequenceCode

\* Connected is the state only while the read is alive: it is outstanding, or a
\* handler will start the next one, or a handler is about to take the state
\* back.  An outstanding read is on the current socket, which is connected.
Reading ==
    /\ connectionState = "Connected" =>
          \/ read.res # "none"
          \/ InReadHandler
          \/ \E th \in Runner : pc[th] \in {"close", "getState", "setNotConnected"}
    /\ read.res = "pending" => read.on = gen /\ socket = "open"

\* The one right to write: the outstanding write has it, or the handler of a
\* failed write that has yet to lower the flag.
Writing ==
    /\ write.res # "none" => sendingInProgress
    /\ \A th \in Runner :
          /\ seen[th] = "write" => /\ pc[th] \in LossPc
                                   /\ write.res = "none"
                                   /\ sendingInProgress
          /\ pc[th] = "lowerFlag" => seen[th] = "write"
    /\ ~(seen[Main] = "write" /\ seen[Io] = "write")

\* The pings under way, as OnePingCyclePerConnection counts them.
TimerSet == IF timer THEN 1 ELSE 0
PongRead == IF read.res = "pong" THEN 1 ELSE 0
Cycle == TimerSet + fires + Count("ping", Unsent) + Count("ping", owed) + PongRead

BeforeTimer == {"configure", "connect", "sendConnect", "startReading", "await",
                "asleep", "setTimer"}
OnNewSocket == {"connect", "sendConnect", "timedWait", "timedAsleep", "setTimer"}

\* Each connection may start one cycle: main has yet to do so for the first, or
\* the watcher for the one it is making.
MainStarts == IF pc[Main] \in BeforeTimer THEN 1 ELSE 0
WatcherStarts == IF pc[Watcher] \in OnNewSocket THEN 1 ELSE 0
PingCycle == Cycle + MainStarts + WatcherStarts <= gen

IndInv ==
    /\ TypeOK
    /\ Shape
    /\ CodeBeforeTimer
    /\ CodeBeforePing
    /\ Reading
    /\ Writing
    /\ PingCycle

----------------------------------------------------------------------------
(* What a step does to the messages, whoever takes it.                     *)

QueueStep ==
    \/ UNCHANGED messagesQueue
    \/ \E m \in {"connect", "shutdown"} : messagesQueue' = Append(messagesQueue, m)
    \/ /\ fires > 0
       /\ messagesQueue' = Append(messagesQueue, IF sequenceCode THEN "ping" ELSE "rawPing")
    \/ write.res = "done" /\ messagesQueue' = Tail(messagesQueue)

OwedStep ==
    \/ UNCHANGED owed
    \/ owed' = <<>>
    \/ owed # <<>> /\ owed' = Tail(owed)
    \/ /\ write.res = "pending"
       /\ Head(messagesQueue) # "shutdown"
       /\ owed' = Append(owed, Head(messagesQueue))

PongStep ==
    read'.res = "pong" => \/ read.res = "pong"
                          \/ owed # <<>> /\ Head(owed) = "ping"

LEMMA HasAppend ==
    ASSUME NEW S, NEW s \in Seq(S), NEW x \in S, NEW m
    PROVE  Has(m, Append(s, x)) <=> Has(m, s) \/ x = m
  BY AppendProperties DEF Has

LEMMA HasTail ==
    ASSUME NEW S, NEW s \in Seq(S), s # <<>>, NEW m, Has(m, Tail(s))
    PROVE  Has(m, s)
  BY HeadTailProperties DEF Has

LEMMA HasHead ==
    ASSUME NEW S, NEW s \in Seq(S), s # <<>>
    PROVE  Has(Head(s), s)
  BY HeadTailProperties DEF Has

LEMMA MessagesStep ==
    ASSUME IndInv, QueueStep, OwedStep, PongStep, sequenceCode => sequenceCode'
    PROVE  /\ messagesQueue' \in Seq(Request)
           /\ owed' \in Seq({"connect", "ping", "rawPing"})
           /\ CodeBeforePing'
<1> DEFINE Q == messagesQueue
           S == {"connect", "ping", "rawPing"}
<1>1. /\ Q \in Seq(Request) /\ owed \in Seq(S)
      /\ write.res # "none" => Q # <<>>
  BY DEF IndInv, TypeOK, Shape
<1>2. /\ ~Has("rawPing", Q)
      /\ Has("ping", Q) \/ Has("ping", owed) \/ read.res = "pong" \/ fires > 0 => sequenceCode
  BY DEF IndInv, CodeBeforePing, CodeBeforeTimer
<1>3. \A m \in Request : /\ Append(Q, m) \in Seq(Request)
                         /\ \A x : Has(x, Append(Q, m)) <=> Has(x, Q) \/ m = x
  BY <1>1, AppendProperties, HasAppend
<1>4. Q # <<>> => /\ Tail(Q) \in Seq(Request)
                  /\ Head(Q) \in Request
                  /\ Has(Head(Q), Q)
                  /\ \A x : Has(x, Tail(Q)) => Has(x, Q)
  BY <1>1, HeadTailProperties, HasTail, HasHead
<1>5. owed # <<>> => /\ Tail(owed) \in Seq(S)
                     /\ Has(Head(owed), owed)
                     /\ \A x : Has(x, Tail(owed)) => Has(x, owed)
  BY <1>1, HeadTailProperties, HasTail, HasHead
<1>6. \A m \in S : /\ Append(owed, m) \in Seq(S)
                   /\ \A x : Has(x, Append(owed, m)) <=> Has(x, owed) \/ m = x
  BY <1>1, AppendProperties, HasAppend
<1>7. /\ Q' \in Seq(Request)
      /\ ~Has("rawPing", Q')
      /\ Has("ping", Q') => sequenceCode
  <2>1. CASE UNCHANGED Q
    BY <1>1, <1>2, <2>1
  <2>2. CASE \E m \in {"connect", "shutdown"} : Q' = Append(Q, m)
    BY <1>2, <1>3, <2>2 DEF Request
  <2>3. CASE fires > 0 /\ Q' = Append(Q, IF sequenceCode THEN "ping" ELSE "rawPing")
    <3>1. sequenceCode /\ Q' = Append(Q, "ping")
      BY <1>2, <2>3
    <3> QED
      BY <1>2, <1>3, <3>1 DEF Request
  <2>4. CASE write.res = "done" /\ Q' = Tail(Q)
    BY <1>1, <1>2, <1>4, <2>4
  <2> QED
    BY <2>1, <2>2, <2>3, <2>4 DEF QueueStep
<1>8. /\ owed' \in Seq(S)
      /\ Has("ping", owed') => sequenceCode
  <2>1. CASE UNCHANGED owed
    BY <1>1, <1>2, <2>1
  <2>2. CASE owed' = <<>>
    BY <2>2, EmptySeq DEF Has
  <2>3. CASE owed # <<>> /\ owed' = Tail(owed)
    BY <1>2, <1>5, <2>3
  <2>4. CASE /\ write.res = "pending"
             /\ Head(Q) # "shutdown"
             /\ owed' = Append(owed, Head(Q))
    <3>1. Head(Q) \in S /\ Has(Head(Q), Q)
      BY <1>1, <1>4, <2>4 DEF Request
    <3> QED
      BY <1>2, <1>6, <2>4, <3>1
  <2> QED
    BY <2>1, <2>2, <2>3, <2>4 DEF OwedStep
<1>9. read'.res = "pong" => sequenceCode
  BY <1>2, <1>5 DEF PongStep
<1> QED
  BY <1>7, <1>8, <1>9 DEF CodeBeforePing

----------------------------------------------------------------------------
(* How the pings under way are counted.                                    *)

LEMMA CountType ==
    ASSUME NEW S, NEW s \in Seq(S), NEW m
    PROVE  Count(m, s) \in Nat
<1>1. Len(s) \in Nat
  BY LenProperties
<1>2. IsFiniteSet(1 .. Len(s))
  BY <1>1, FS_Interval
<1> QED
  BY <1>2, FS_Subset, FS_CardinalityType DEF Count

LEMMA CountEmpty == ASSUME NEW m PROVE Count(m, <<>>) = 0
<1>1. {i \in 1 .. Len(<<>>) : <<>>[i] = m} = {}
  OBVIOUS
<1> QED
  BY <1>1, FS_EmptySet DEF Count

LEMMA CountAppend ==
    ASSUME NEW S, NEW s \in Seq(S), NEW x \in S, NEW m
    PROVE  Count(m, Append(s, x)) = Count(m, s) + IF x = m THEN 1 ELSE 0
<1> DEFINE I == {i \in 1 .. Len(s) : s[i] = m}
           J == {i \in 1 .. Len(Append(s, x)) : Append(s, x)[i] = m}
<1>0. Count(m, s) = Cardinality(I) /\ Count(m, Append(s, x)) = Cardinality(J)
  BY DEF Count
<1>1. /\ Len(s) \in Nat
      /\ Len(Append(s, x)) = Len(s) + 1
      /\ Append(s, x)[Len(s) + 1] = x
      /\ \A i \in 1 .. Len(s) : Append(s, x)[i] = s[i]
  BY LenProperties, AppendProperties
<1>2. IsFiniteSet(I) /\ Cardinality(I) \in Nat
  <2>1. IsFiniteSet(1 .. Len(s))
    BY <1>1, FS_Interval
  <2> QED
    BY <2>1, FS_Subset, FS_CardinalityType
<1>3. CASE x = m
  <2>1. J = I \cup {Len(s) + 1} /\ Len(s) + 1 \notin I
    BY <1>1, <1>3
  <2>2. Cardinality(J) = Cardinality(I) + 1
    BY <1>2, <2>1, FS_AddElement
  <2> QED
    BY <1>0, <1>3, <2>2
<1>4. CASE x # m
  <2>1. J = I
    BY <1>1, <1>4
  <2> HIDE DEF I, J
  <2> QED
    BY <1>0, <1>2, <1>4, <2>1
<1> QED
  BY <1>3, <1>4

LEMMA CountTail ==
    ASSUME NEW S, NEW s \in Seq(S), s # <<>>, NEW m
    PROVE  Count(m, s) = Count(m, Tail(s)) + IF Head(s) = m THEN 1 ELSE 0
<1> DEFINE I == {i \in 1 .. Len(s) : s[i] = m}
           K == I \ {1}
           J == {i \in 1 .. Len(Tail(s)) : Tail(s)[i] = m}
           f == [j \in J |-> j + 1]
<1>0. Count(m, s) = Cardinality(I) /\ Count(m, Tail(s)) = Cardinality(J)
  BY DEF Count
<1>1. /\ Len(s) \in Nat \ {0}
      /\ Len(Tail(s)) = Len(s) - 1
      /\ Head(s) = s[1]
      /\ \A i \in 1 .. Len(Tail(s)) : Tail(s)[i] = s[i + 1]
  BY LenProperties, HeadTailProperties
<1>2. IsFiniteSet(I) /\ IsFiniteSet(J) /\ IsFiniteSet(K) /\ Cardinality(K) \in Nat
  <2>1. IsFiniteSet(1 .. Len(s)) /\ IsFiniteSet(1 .. Len(Tail(s)))
    BY <1>1, FS_Interval
  <2>2. IsFiniteSet(I) /\ IsFiniteSet(J)
    BY <2>1, FS_Subset
  <2> QED
    BY <2>2, FS_Subset, FS_CardinalityType
<1>3. f \in Bijection(J, K)
  <2>1. \A j \in J : j + 1 \in K
    BY <1>1
  <2>2. \A k \in K : k - 1 \in J /\ (k - 1) + 1 = k
    BY <1>1
  <2>3. \A k \in K : \E j \in J : f[j] = k
    BY <2>2
  <2>4. f \in [J -> K]
    BY <2>1
  <2>5. \A i, j \in J : f[i] = f[j] => i = j
    BY <1>1
  <2> QED
    BY <2>3, <2>4, <2>5, Fun_IsBij
<1>4. Cardinality(J) = Cardinality(K)
  BY <1>2, <1>3, FS_Bijection DEF ExistsBijection
<1>5. CASE Head(s) = m
  <2>1. I = K \cup {1} /\ 1 \notin K
    BY <1>1, <1>5
  <2>2. Cardinality(I) = Cardinality(K) + 1
    BY <1>2, <2>1, FS_AddElement
  <2> QED
    BY <1>0, <1>4, <1>5, <2>2
<1>6. CASE Head(s) # m
  <2>1. I = K
    BY <1>1, <1>6
  <2> HIDE DEF I, J, K
  <2> QED
    BY <1>0, <1>2, <1>4, <1>6, <2>1
<1> QED
  BY <1>5, <1>6

\* The terms of Cycle are natural numbers.
LEMMA CycleTerms ==
    ASSUME TypeOK, Shape
    PROVE  /\ Unsent \in Seq(Request)
           /\ Count("ping", Unsent) \in Nat
           /\ Count("ping", owed) \in Nat
           /\ fires \in Nat
           /\ TimerSet \in Nat
           /\ PongRead \in Nat
           /\ Cycle \in Nat
<1>1. Unsent \in Seq(Request) /\ owed \in Seq({"connect", "ping", "rawPing"})
  BY HeadTailProperties DEF TypeOK, Shape, Unsent
<1>2. Count("ping", Unsent) \in Nat /\ Count("ping", owed) \in Nat
  BY <1>1, CountType
<1>3. fires \in Nat /\ TimerSet \in Nat /\ PongRead \in Nat
  BY DEF TypeOK, TimerSet, PongRead
<1> QED
  BY <1>1, <1>2, <1>3 DEF Cycle

\* A message that sendMessage queues is the last of the unsent ones, whether
\* or not the head has been written and not been taken off the queue yet.
LEMMA SendAppends ==
    ASSUME IndInv, NEW m \in Request, sendMessage(m)
    PROVE  /\ Unsent' = Append(Unsent, m)
           /\ Count("ping", Unsent') = Count("ping", Unsent) + IF m = "ping" THEN 1 ELSE 0
<1> DEFINE Q == messagesQueue
<1>1. Q \in Seq(Request) /\ (write.res # "none" => Q # <<>> /\ sendingInProgress)
  BY DEF IndInv, TypeOK, Shape, Writing
<1>2. CASE write.res = "done"
  <2>1. write' = write /\ Q' = Append(Q, m) /\ Q # <<>>
    BY <1>1, <1>2 DEF sendMessage
  <2>2. Tail(Append(Q, m)) = Append(Tail(Q), m)
    BY <1>1, <2>1, SMTT(30)
  <2>3. Unsent = Tail(Q) /\ Unsent' = Append(Tail(Q), m) /\ Tail(Q) \in Seq(Request)
    BY <1>1, <1>2, <2>1, <2>2, HeadTailProperties DEF Unsent
  <2> QED
    BY <2>3, CountAppend
<1>3. CASE write.res # "done"
  <2>1. write'.res # "done" /\ Q' = Append(Q, m)
    BY <1>3 DEF sendMessage, Started
  <2> QED
    BY <1>1, <1>3, <2>1, CountAppend DEF Unsent
<1> QED
  BY <1>2, <1>3

\* Steps that leave the messages alone, but for answers that are lost.
LEMMA CycleQuiet ==
    ASSUME IndInv, UNCHANGED <<messagesQueue, timer, fires>>,
           write'.res = "done" <=> write.res = "done",
           owed' = owed \/ owed' = <<>>,
           read'.res = "pong" => read.res = "pong"
    PROVE  Cycle' \in 0 .. Cycle
<1>0. /\ TimerSet \in Nat /\ fires \in Nat /\ PongRead \in Nat /\ Cycle \in Nat
      /\ Count("ping", Unsent) \in Nat /\ Count("ping", owed) \in Nat
  BY CycleTerms DEF IndInv
<1>1. Unsent' = Unsent
  BY DEF Unsent
<1>2. Count("ping", owed') <= Count("ping", owed)
  BY <1>0, CountEmpty
<1>3. Count("ping", owed') \in Nat
  BY <1>0, CountEmpty
<1>4. TimerSet' = TimerSet /\ PongRead' \in Nat /\ PongRead' <= PongRead
  BY DEF TimerSet, PongRead
<1>5. Cycle' <= Cycle
  BY <1>0, <1>1, <1>2, <1>3, <1>4 DEF Cycle
<1>6. Cycle' \in Nat
  BY <1>0, <1>1, <1>3, <1>4 DEF Cycle
<1> QED
  BY <1>0, <1>5, <1>6

\* A message other than a ping.
LEMMA CycleSend ==
    ASSUME IndInv, NEW m \in Request \ {"ping"}, sendMessage(m), UNCHANGED <<timer, fires>>
    PROVE  Cycle' \in 0 .. Cycle
<1>0. /\ TimerSet \in Nat /\ fires \in Nat /\ PongRead \in Nat /\ Cycle \in Nat
      /\ Count("ping", Unsent) \in Nat /\ Count("ping", owed) \in Nat
  BY CycleTerms DEF IndInv
<1>1. Count("ping", Unsent') = Count("ping", Unsent)
  BY <1>0, SendAppends
<1>2. TimerSet' = TimerSet /\ PongRead' = PongRead /\ UNCHANGED <<fires, owed>>
  BY DEF TimerSet, PongRead, sendMessage
<1> QED
  BY <1>0, <1>1, <1>2 DEF Cycle

LEMMA CycleTimerExpired ==
    ASSUME IndInv, NEW th \in Runner, timerExpired(th)
    PROVE  Cycle' \in 0 .. Cycle
<1>0. /\ TimerSet \in Nat /\ fires \in Nat /\ PongRead \in Nat /\ Cycle \in Nat
      /\ Count("ping", Unsent) \in Nat /\ Count("ping", owed) \in Nat
  BY CycleTerms DEF IndInv
<1>1. fires > 0 /\ fires' = fires - 1 /\ timer' = timer /\ read' = read /\ owed' = owed
  BY DEF timerExpired, WaitEnded, sendMessage
<1>2. PICK m \in Request : sendMessage(m)
  BY DEF timerExpired, Request
<1>3. Count("ping", Unsent') <= Count("ping", Unsent) + 1 /\ Count("ping", Unsent') \in Nat
  BY <1>0, <1>2, SendAppends
<1>4. fires' + Count("ping", Unsent') <= fires + Count("ping", Unsent)
  BY <1>0, <1>1, <1>3
<1>5. fires' \in Nat
  BY <1>0, <1>1
<1>6. TimerSet' = TimerSet /\ PongRead' = PongRead
  BY <1>1 DEF TimerSet, PongRead
<1>7. Cycle' <= Cycle
  BY <1>0, <1>1, <1>3, <1>4, <1>5, <1>6 DEF Cycle
<1>8. Cycle' \in Nat
  BY <1>0, <1>1, <1>3, <1>5, <1>6 DEF Cycle
<1> QED
  BY <1>0, <1>7, <1>8

LEMMA CyclePostWrite ==
    ASSUME IndInv, NEW th \in Runner, postWriteMessageBody(th)
    PROVE  Cycle' \in 0 .. Cycle
<1>0. /\ TimerSet \in Nat /\ fires \in Nat /\ PongRead \in Nat /\ Cycle \in Nat
      /\ Count("ping", Unsent) \in Nat /\ Count("ping", owed) \in Nat
  BY CycleTerms DEF IndInv
<1>1. Unsent' = Unsent
  BY DEF postWriteMessageBody, Unsent, Started, None
<1>2. TimerSet' = TimerSet /\ PongRead' = PongRead /\ UNCHANGED <<fires, owed>>
  BY DEF TimerSet, PongRead, postWriteMessageBody, timerVars
<1> QED
  BY <1>0, <1>1, <1>2 DEF Cycle

LEMMA CyclePostRead ==
    ASSUME IndInv, NEW th \in Runner, postReadMessageBody(th)
    PROVE  Cycle' \in 0 .. Cycle
<1>0. /\ TimerSet \in Nat /\ fires \in Nat /\ PongRead \in Nat /\ Cycle \in Nat
      /\ Count("ping", Unsent) \in Nat /\ Count("ping", owed) \in Nat
  BY CycleTerms DEF IndInv
<1>1. Unsent' = Unsent /\ owed' = owed /\ read' = None
  BY DEF postReadMessageBody, Unsent, sendVars
<1>2. CASE read.res = "pong"
  <2>1. /\ TimerSet' = 1 /\ fires' = fires + TimerSet
        /\ PongRead = 1 /\ PongRead' = 0
    BY <1>1, <1>2
       DEF TimerSet, PongRead, None, postReadMessageBody, RestartsTimer, SetTimer
  <2> QED
    BY <1>0, <1>1, <2>1 DEF Cycle
<1>3. CASE read.res # "pong"
  BY <1>0, <1>1, <1>3 DEF Cycle, TimerSet, PongRead, None, postReadMessageBody, RestartsTimer,
         timerVars
<1> QED
  BY <1>2, <1>3

LEMMA CycleWriteCompletes ==
    ASSUME IndInv, writeCompletes
    PROVE  Cycle' \in 0 .. Cycle
<1> DEFINE Q == messagesQueue
           S == {"connect", "ping", "rawPing"}
<1>0. /\ TimerSet \in Nat /\ fires \in Nat /\ PongRead \in Nat /\ Cycle \in Nat
      /\ Count("ping", Unsent) \in Nat /\ Count("ping", owed) \in Nat
  BY CycleTerms DEF IndInv
<1>1. /\ Q \in Seq(Request) /\ Q # <<>> /\ owed \in Seq(S)
      /\ write \in [on : Socket, res : {"pending", "done", "error"}]
  BY DEF IndInv, TypeOK, Shape, writeCompletes, None
<1>2. Unsent = Q /\ Unsent' = Tail(Q)
  BY <1>1 DEF Unsent, writeCompletes, sendVars
<1>3. Count("ping", Q) = Count("ping", Tail(Q)) + IF Head(Q) = "ping" THEN 1 ELSE 0
  BY <1>1, CountTail
<1>4. Count("ping", owed') = Count("ping", owed) + IF Head(Q) = "ping" THEN 1 ELSE 0
  <2>1. Head(Q) \in Request
    BY <1>1, HeadTailProperties
  <2>2. CASE Head(Q) = "shutdown"
    BY <2>2, CycleTerms DEF IndInv, writeCompletes
  <2>3. CASE Head(Q) # "shutdown"
    <3>1. Head(Q) \in S /\ owed' = Append(owed, Head(Q))
      BY <2>1, <2>3 DEF writeCompletes, Request
    <3> QED
      BY <1>1, <3>1, CountAppend
  <2> QED
    BY <2>2, <2>3
<1>5. Count("ping", Tail(Q)) \in Nat
  BY <1>1, HeadTailProperties, CountType
<1>6. TimerSet' = TimerSet /\ PongRead' = PongRead /\ fires' = fires
  BY DEF TimerSet, PongRead, writeCompletes, timerVars
<1>7. Cycle' <= Cycle
  BY <1>0, <1>2, <1>3, <1>4, <1>5, <1>6 DEF Cycle
<1>8. Cycle' \in Nat
  <2>1. Count("ping", owed') \in Nat
    BY <1>0, <1>4
  <2> QED
    BY <1>0, <1>2, <1>5, <1>6, <2>1 DEF Cycle
<1> QED
  BY <1>0, <1>7, <1>8

LEMMA CycleAnswerArrives ==
    ASSUME IndInv, answerArrives
    PROVE  Cycle' \in 0 .. Cycle
<1> DEFINE S == {"connect", "ping", "rawPing"}
<1>0. /\ TimerSet \in Nat /\ fires \in Nat /\ PongRead \in Nat /\ Cycle \in Nat
      /\ Count("ping", Unsent) \in Nat /\ Count("ping", owed) \in Nat
  BY CycleTerms DEF IndInv
<1>1. owed \in Seq(S) /\ owed # <<>> /\ owed' = Tail(owed)
  BY DEF IndInv, TypeOK, answerArrives
<1>2. Unsent' = Unsent /\ UNCHANGED <<timer, fires>> /\ read.res = "pending"
  BY DEF answerArrives, Unsent, sendVars, timerVars
<1>3. Count("ping", owed) = Count("ping", owed') + IF Head(owed) = "ping" THEN 1 ELSE 0
  BY <1>1, CountTail
<1>4. Count("ping", owed') \in Nat
  BY <1>1, HeadTailProperties, CountType
<1>5. read'.res = "pong" => Head(owed) = "ping"
  <2>1. Head(owed) \in S
    BY <1>1, HeadTailProperties
  <2>2. PICK a \in Answers(Head(owed)) \cup {"empty"} : read' = [read EXCEPT !.res = a]
    BY DEF answerArrives
  <2>3. read'.res = a
    BY <1>2, <2>2 DEF IndInv, TypeOK, None
  <2> QED
    BY <2>1, <2>2, <2>3 DEF Answers
<1>6. TimerSet' = TimerSet
  BY <1>2 DEF TimerSet
<1>7. PongRead = 0 /\ PongRead' \in Nat /\ PongRead' <= IF Head(owed) = "ping" THEN 1 ELSE 0
  BY <1>2, <1>5 DEF PongRead
<1> QED
  BY <1>0, <1>2, <1>3, <1>4, <1>6, <1>7 DEF Cycle

LEMMA CycleTimerDue ==
    ASSUME IndInv, timerDue
    PROVE  Cycle' \in 0 .. Cycle
<1>0. /\ TimerSet \in Nat /\ fires \in Nat /\ PongRead \in Nat /\ Cycle \in Nat
      /\ Count("ping", Unsent) \in Nat /\ Count("ping", owed) \in Nat
  BY CycleTerms DEF IndInv
<1>1. Unsent' = Unsent
  BY DEF timerDue, Unsent, connectionVars
<1>2. timer /\ timer' = FALSE /\ fires' = fires + 1 /\ UNCHANGED <<read, owed>>
  BY DEF timerDue, connectionVars
<1>3. TimerSet = 1 /\ TimerSet' = 0 /\ PongRead' = PongRead
  BY <1>2 DEF TimerSet, PongRead
<1> QED
  BY <1>0, <1>1, <1>2, <1>3 DEF Cycle

LEMMA SumKept ==
    ASSUME NEW a \in Nat, NEW b \in Nat, NEW c \in Nat, NEW g \in Nat,
           NEW x \in Nat, NEW y \in Nat, NEW z \in Nat, NEW h \in Nat,
           a + b + c <= g, x <= a, y <= b, z + g <= c + h
    PROVE  x + y + z <= h
  OBVIOUS

\* Where the cycle does not grow, there is room for it.
LEMMA PingCycleKept ==
    ASSUME IndInv, Cycle' \in 0 .. Cycle,
           pc'[Main] \in BeforeTimer => pc[Main] \in BeforeTimer,
           \/ gen' = gen + 1
           \/ gen' = gen /\ (pc'[Watcher] \in OnNewSocket => pc[Watcher] \in OnNewSocket)
    PROVE  PingCycle'
<1>1. gen \in Nat /\ Cycle \in Nat /\ Cycle' \in Nat /\ Cycle' <= Cycle
  BY CycleTerms, BoundsType DEF IndInv, TypeOK, Socket
<1>2. MainStarts \in Nat /\ MainStarts' \in Nat /\ MainStarts' <= MainStarts
  BY DEF MainStarts
<1>3. /\ WatcherStarts \in Nat /\ WatcherStarts' \in Nat
      /\ gen' \in Nat /\ WatcherStarts' + gen <= WatcherStarts + gen'
  BY <1>1 DEF WatcherStarts
<1>4. Cycle + MainStarts + WatcherStarts <= gen
  BY DEF IndInv, PingCycle
<1>5. PICK x \in Nat, y \in Nat, z \in Nat, h \in Nat :
        x = Cycle' /\ y = MainStarts' /\ z = WatcherStarts' /\ h = gen'
  BY <1>1, <1>2, <1>3
<1>6. x <= Cycle /\ y <= MainStarts /\ z + gen <= WatcherStarts + h
  BY <1>1, <1>2, <1>3, <1>5
<1>7. x + y + z <= h
  BY <1>1, <1>2, <1>3, <1>4, <1>6, SumKept
<1> QED
  BY <1>5, <1>7 DEF PingCycle

\* The timer is set for a connection.
LEMMA CycleSetTimer ==
    ASSUME IndInv, SetTimer, UNCHANGED connectionVars
    PROVE  Cycle' = Cycle + 1
<1>0. /\ TimerSet \in Nat /\ fires \in Nat /\ PongRead \in Nat
      /\ Count("ping", Unsent) \in Nat /\ Count("ping", owed) \in Nat
  BY CycleTerms DEF IndInv
<1>1. Unsent' = Unsent /\ UNCHANGED <<read, owed>>
  BY DEF Unsent, connectionVars
<1>2. TimerSet' = 1 /\ fires' = fires + TimerSet /\ PongRead' = PongRead
  BY <1>1 DEF TimerSet, PongRead, SetTimer
<1> QED
  BY <1>0, <1>1, <1>2 DEF Cycle

----------------------------------------------------------------------------
(* Each part of the invariant is kept by the steps of main, of a handler,  *)
(* of the watcher and of the environment.                                  *)


USE DEF Main, Io, Watcher, Thread, Runner, Goto, vars, quietVars, connectionVars,
        timerVars, stateVars, processVars, sendVars

LEMMA MainIndInv ==
    ASSUME IndInv, MainStep
    PROVE  IndInv'
<1> USE DEF MainStep, StartUp, moduleShutdownHandler, joinAll, destroyModuleBase,
            readConfiguration, startWatchdogConnectionTask, waitForRegisterToWatchdog,
            startModuleServer, connect, sendConnectRequest, startReadingSequence, Sleep,
            WakeUp, WakeUpUnnotified, setTimerExpiration, SetTimer, Registered, Step,
            StopRunning, stop, setConnectionState, notifyAll, join, pollReturns,
            sendShutdownRequest, sendMessage, readFromJson, bindToListeningSocket
<1>1. QueueStep /\ OwedStep
  BY DEF QueueStep, OwedStep
<1>2. PongStep
  BY DEF IndInv, PongStep, Started
<1>3. /\ sequenceCode' = sequenceCode
      /\ isModuleRunning' \in BOOLEAN /\ stopped' \in BOOLEAN
      /\ sendingInProgress' \in BOOLEAN /\ timer' \in BOOLEAN
  BY Zenon DEF IndInv, TypeOK
<1>4. Shape'
  BY DEF IndInv, TypeOK, Shape, AnyPc, MainPc, ReadPc, LossPc, Started
<1>5. Reading'
  BY DEF IndInv, TypeOK, Shape, Reading, InReadHandler, ReadPc, LossPc, Started, is_open
<1>6. Writing'
  BY DEF IndInv, TypeOK, Shape, Writing, ReadPc, LossPc, Started
<1>7. CodeBeforeTimer'
  BY DEF IndInv, TypeOK, Shape, CodeBeforeTimer
<1>8. TypeOK'
  <2>1. /\ connectionState' \in ConnectionState
        /\ waiting' \subseteq {Main, Watcher}
        /\ gen' \in Socket
        /\ socket' \in {"fresh", "failed", "open", "closed"}
    BY DEF IndInv, TypeOK, ConnectionState
  <2>2. /\ read' \in [on : Socket, res : Answer \cup {"pending", "error", "empty", "off"}]
                        \cup {None}
        /\ write' \in [on : Socket, res : {"pending", "done", "error"}] \cup {None}
    BY DEF IndInv, TypeOK, Started
  <2>3. fires' \in Nat /\ pings' \in 0 .. MaxPings
    BY DEF IndInv, TypeOK
  <2>4. /\ pc'[Main] \in MainPc \cup ReadPc \cup LossPc \cup {"blocked"}
        /\ pc'[Io] \in {"idle", "done", "blocked"} \cup ReadPc \cup LossPc
        /\ pc'[Watcher] \in WatcherPc
    BY DEF IndInv, TypeOK, Shape, MainPc
  <2>5. seen' \in [Thread -> {"none", "write"} \cup Answer]
    BY DEF IndInv, TypeOK
  <2> QED
    BY <1>1, <1>2, <1>3, <2>1, <2>2, <2>3, <2>4, <2>5, MessagesStep DEF IndInv, TypeOK
<1>9. PingCycle'
  <2>1. CASE setTimerExpiration(Main, "setTimer", "startServer")
    <3>1. gen' = gen /\ gen \in Nat /\ Cycle \in Nat /\ Cycle' = Cycle + 1
      BY <2>1, CycleSetTimer, CycleTerms, BoundsType DEF IndInv, TypeOK, Socket
    <3>2. /\ pc[Main] = "setTimer" /\ pc'[Main] = "startServer"
          /\ pc'[Watcher] = pc[Watcher]
      BY <2>1 DEF IndInv, Shape
    <3>3. MainStarts = 1 /\ MainStarts' = 0
      BY <3>2 DEF MainStarts, BeforeTimer
    <3>4. WatcherStarts' = WatcherStarts /\ WatcherStarts \in {0, 1}
      BY <3>2 DEF WatcherStarts
    <3> QED
      BY <3>1, <3>3, <3>4 DEF IndInv, PingCycle
  <2>2. CASE /\ ~setTimerExpiration(Main, "setTimer", "startServer")
             /\ \E m \in {"connect", "shutdown"} : sendMessage(m)
    <3>1. gen' = gen /\ pc'[Watcher] = pc[Watcher] /\ UNCHANGED <<timer, fires>>
      BY <2>2 DEF IndInv, Shape
    <3>2. pc'[Main] \in BeforeTimer => pc[Main] \in BeforeTimer
      BY DEF IndInv, Shape, BeforeTimer
    <3>3. Cycle' \in 0 .. Cycle
      BY <2>2, <3>1, CycleSend DEF Request
    <3> QED
      BY <3>1, <3>2, <3>3, PingCycleKept
  <2>3. CASE /\ ~setTimerExpiration(Main, "setTimer", "startServer")
             /\ ~\E m \in {"connect", "shutdown"} : sendMessage(m)
    <3>1. gen' = gen /\ pc'[Watcher] = pc[Watcher]
      BY <2>3 DEF IndInv, Shape
    <3>2. pc'[Main] \in BeforeTimer => pc[Main] \in BeforeTimer
      BY DEF IndInv, Shape, BeforeTimer
    <3>3. /\ UNCHANGED <<messagesQueue, timer, fires, write, owed>>
          /\ read'.res = "pong" => read.res = "pong"
      BY <2>3 DEF Started
    <3> QED
      BY <3>1, <3>2, <3>3, CycleQuiet, PingCycleKept
  <2> QED
    BY <2>1, <2>2, <2>3
<1> QED
  BY <1>1, <1>2, <1>3, <1>4, <1>5, <1>6, <1>7, <1>8, <1>9, MessagesStep DEF IndInv

\* A step of a completion handler, on either thread that runs them.
LEMMA HandlerIndInv ==
    ASSUME IndInv, NEW th \in Runner, Handler(th)
    PROVE  IndInv'
<1> USE DEF Handler, timerExpired, postReadMessageHeader, postReadMessageBody,
            handleResponse, handleReceivedMessage, notifyAll, startReadingSequence,
            postWriteMessageBody, readFailed, writeFailed, disconnect, lowerFlag,
            closeSocket, getConnectionState, setConnectionState, sendMessage, SetTimer,
            AfterLoss, RunsHandler, Rest
<1>1. QueueStep /\ OwedStep
  BY DEF QueueStep, OwedStep, WaitEnded
<1>2. PongStep
  BY DEF IndInv, PongStep, TypeOK, Started, Aborted, AbortAll, None
<1>3. /\ sequenceCode => sequenceCode'
      /\ sequenceCode' \in BOOLEAN
      /\ isModuleRunning' \in BOOLEAN /\ stopped' \in BOOLEAN
      /\ sendingInProgress' \in BOOLEAN /\ timer' \in BOOLEAN
  <2>1. (sequenceCode => sequenceCode') /\ sequenceCode' \in BOOLEAN
    BY Zenon DEF IndInv, TypeOK, CodeStored
  <2>2. UNCHANGED processVars
    BY Zenon
  <2>3. sendingInProgress' \in BOOLEAN
    <3>1. CASE postWriteMessageBody(th)
      <4>1. (Len(messagesQueue) > 1) \in BOOLEAN
        OBVIOUS
      <4> QED
        BY <3>1, <4>1, Zenon
    <3>2. CASE timerExpired(th)
      BY <3>2, Zenon DEF IndInv, TypeOK
    <3>3. CASE ~(postWriteMessageBody(th) \/ timerExpired(th))
      <4>1. UNCHANGED sendingInProgress \/ sendingInProgress' = FALSE
        BY <3>3
      <4> QED
        BY <4>1, Zenon DEF IndInv, TypeOK
    <3> QED
      BY <3>1, <3>2, <3>3
  <2>4. timer' \in BOOLEAN
    BY Zenon DEF IndInv, TypeOK
  <2> QED
    BY <2>1, <2>2, <2>3, <2>4 DEF IndInv, TypeOK
<1>4. Shape'
  BY DEF IndInv, TypeOK, Shape, AnyPc, MainPc, ReadPc, LossPc, Started, Aborted, AbortAll,
         None
<1>5. Reading'
  BY DEF IndInv, TypeOK, Shape, Reading, InReadHandler, ReadPc, LossPc, Started, Aborted,
         AbortAll, None, WasConnected
<1>6. Writing'
  BY DEF IndInv, TypeOK, Shape, Writing, ReadPc, LossPc, Answer, Started, Aborted,
         AbortAll, is_open, None
<1>7. CodeBeforeTimer'
  <2>1. CASE timerExpired(th) \/ postReadMessageBody(th)
    BY <2>1 DEF IndInv, TypeOK, Shape, CodeBeforeTimer, CodeBeforePing, RestartsTimer, WaitEnded
  <2>2. CASE handleResponse(th) \/ handleReceivedMessage(th)
    BY <2>2 DEF IndInv, TypeOK, Shape, CodeBeforeTimer, CodeStored
  <2>3. CASE ~(\/ timerExpired(th) \/ postReadMessageBody(th)
               \/ handleResponse(th) \/ handleReceivedMessage(th))
    <3>1. /\ UNCHANGED <<sequenceCode, timerVars>>
          /\ connectionState' = "Connected" => connectionState = "Connected"
      BY <2>3
    <3>2. /\ pc'[Watcher] = pc[Watcher]
          /\ pc'[Main] # "setTimer" \/ pc[Main] = "setTimer"
          /\ \A u \in Runner : pc'[u] = "setState" => pc[u] = "setState" /\ seen'[u] = seen[u]
      BY <2>3 DEF IndInv, TypeOK, Shape
    <3> QED
      BY <3>1, <3>2 DEF IndInv, CodeBeforeTimer
  <2> QED
    BY <2>1, <2>2, <2>3
<1>8. TypeOK'
  <2>1. /\ connectionState' \in ConnectionState
        /\ waiting' \subseteq {Main, Watcher}
        /\ gen' \in Socket
        /\ socket' \in {"fresh", "failed", "open", "closed"}
    BY DEF IndInv, TypeOK, ConnectionState
  <2>2. read' \in [on : Socket, res : Answer \cup {"pending", "error", "empty", "off"}]
                    \cup {None}
    BY DEF IndInv, TypeOK, Started, Aborted, AbortAll, None
  <2>3. write' \in [on : Socket, res : {"pending", "done", "error"}] \cup {None}
    <3>1. /\ write \in [on : Socket, res : {"pending", "done", "error"}] \cup {None}
          /\ gen \in Socket
      BY DEF IndInv, TypeOK
    <3>2. Started \in [on : Socket, res : {"pending", "done", "error"}]
      BY <3>1 DEF Started
    <3>3. Aborted(write) \in [on : Socket, res : {"pending", "done", "error"}] \cup {None}
      BY <3>1 DEF Aborted, None
    <3>4. write' \in {write, Started, Aborted(write), None}
      BY DEF AbortAll
    <3> QED
      BY <3>1, <3>2, <3>3, <3>4
  <2>4. fires' \in Nat /\ pings' \in 0 .. MaxPings
    BY DEF IndInv, TypeOK, WaitEnded
  <2>5. /\ pc'[Main] \in MainPc \cup ReadPc \cup LossPc \cup {"blocked"}
        /\ pc'[Io] \in {"idle", "done", "blocked"} \cup ReadPc \cup LossPc
        /\ pc'[Watcher] \in WatcherPc
    BY DEF IndInv, TypeOK, Shape, MainPc, ReadPc, LossPc
  <2>6. seen' \in [Thread -> {"none", "write"} \cup Answer]
    BY DEF IndInv, TypeOK
  <2> QED
    BY <1>1, <1>2, <1>3, <2>1, <2>2, <2>3, <2>4, <2>5, <2>6, MessagesStep DEF IndInv, TypeOK
<1>9. PingCycle'
  <2>1. /\ gen' = gen /\ pc'[Watcher] = pc[Watcher]
        /\ pc'[Main] \in BeforeTimer => pc[Main] \in BeforeTimer
    BY DEF IndInv, Shape, BeforeTimer
  <2>2. Cycle' \in 0 .. Cycle
    <3>1. CASE timerExpired(th)
      BY <3>1, CycleTimerExpired
    <3>2. CASE postReadMessageBody(th)
      BY <3>2, CyclePostRead
    <3>3. CASE postWriteMessageBody(th)
      BY <3>3, CyclePostWrite
    <3>4. CASE ~(timerExpired(th) \/ postReadMessageBody(th) \/ postWriteMessageBody(th))
      <4>1. /\ UNCHANGED <<messagesQueue, timer, fires>>
            /\ owed' = owed \/ owed' = <<>>
        BY <3>4
      <4>2. /\ write'.res = "done" <=> write.res = "done"
            /\ read'.res = "pong" => read.res = "pong"
        BY <3>4 DEF IndInv, TypeOK, Started, Aborted, AbortAll, None
      <4> QED
        BY <4>1, <4>2, CycleQuiet
    <3> QED
      BY <3>1, <3>2, <3>3, <3>4
  <2> QED
    BY <2>1, <2>2, PingCycleKept
<1> QED
  BY <1>1, <1>2, <1>3, <1>4, <1>5, <1>6, <1>7, <1>8, <1>9, MessagesStep DEF IndInv

\* The watcher sets the timer too, once for a socket it has made.
LEMMA WatcherIndInv ==
    ASSUME IndInv, WatcherStep \/ SpuriousWakeUp
    PROVE  IndInv'
<1> USE DEF WatcherStep, waitForConnectionStateChange, reconnectToWatchdog,
            connectModuleToWatchdog, makeNewSocket, connect, sendConnectRequest, Sleep,
            WakeUp, WakeUpUnnotified, setTimerExpiration, SetTimer, Step, closeSocket,
            sendMessage, Reaction, SpuriousWakeUp
<1>1. QueueStep /\ OwedStep
  BY DEF QueueStep, OwedStep
<1>2. PongStep
  BY DEF IndInv, PongStep, TypeOK, Aborted, AbortAll, None
<1>3. /\ sequenceCode => sequenceCode'
      /\ sequenceCode' \in BOOLEAN
      /\ isModuleRunning' \in BOOLEAN /\ stopped' \in BOOLEAN
      /\ sendingInProgress' \in BOOLEAN /\ timer' \in BOOLEAN
  BY Zenon DEF IndInv, TypeOK
<1>4. Shape'
  BY DEF IndInv, TypeOK, Shape, AnyPc, WatcherPc, ConnectionState, Started, Aborted,
         AbortAll, None
<1>5. Reading'
  BY DEF IndInv, TypeOK, Shape, Reading, InReadHandler, ReadPc, LossPc, Aborted,
         AbortAll, None, is_open
<1>6. Writing'
  BY DEF IndInv, TypeOK, Shape, Writing, Started, Aborted, AbortAll, is_open, None
<1>7. CodeBeforeTimer'
  BY DEF IndInv, TypeOK, Shape, CodeBeforeTimer, ConnectionState
<1>8. TypeOK'
  <2>1. /\ connectionState' \in ConnectionState
        /\ waiting' \subseteq {Main, Watcher}
        /\ gen' \in Socket
        /\ socket' \in {"fresh", "failed", "open", "closed"}
    BY BoundsType DEF IndInv, TypeOK, Socket
  <2>2. read' \in [on : Socket, res : Answer \cup {"pending", "error", "empty", "off"}]
                    \cup {None}
    BY DEF IndInv, TypeOK, Started, Aborted, AbortAll, None
  <2>3. write' \in [on : Socket, res : {"pending", "done", "error"}] \cup {None}
    BY DEF IndInv, TypeOK, Started, Aborted, AbortAll, None
  <2>4. fires' \in Nat /\ pings' \in 0 .. MaxPings
    BY DEF IndInv, TypeOK
  <2>5. /\ pc'[Main] \in MainPc \cup ReadPc \cup LossPc \cup {"blocked"}
        /\ pc'[Io] \in {"idle", "done", "blocked"} \cup ReadPc \cup LossPc
        /\ pc'[Watcher] \in WatcherPc
    BY DEF IndInv, TypeOK, Shape, WatcherPc, ConnectionState
  <2>6. seen' \in [Thread -> {"none", "write"} \cup Answer]
    BY DEF IndInv, TypeOK
  <2> QED
    BY <1>1, <1>2, <1>3, <2>1, <2>2, <2>3, <2>4, <2>5, <2>6, MessagesStep DEF IndInv, TypeOK
<1>9. PingCycle'
  <2>1. CASE makeNewSocket
    <3>1. /\ UNCHANGED <<messagesQueue, timer, fires>>
          /\ owed' = <<>> /\ gen' = gen + 1
      BY <2>1
    <3>2. /\ write'.res = "done" <=> write.res = "done"
          /\ read'.res = "pong" => read.res = "pong"
      BY <2>1 DEF IndInv, TypeOK, Aborted, AbortAll, None
    <3>3. pc'[Main] = pc[Main]
      BY <2>1 DEF IndInv, Shape
    <3> QED
      BY <3>1, <3>2, <3>3, CycleQuiet, PingCycleKept
  <2>2. CASE ~makeNewSocket
    <3>1. /\ gen' = gen /\ pc'[Main] = pc[Main]
          /\ pc'[Watcher] \in OnNewSocket => pc[Watcher] \in OnNewSocket
      BY <2>2 DEF IndInv, TypeOK, Shape, OnNewSocket, ConnectionState
    <3>2. CASE setTimerExpiration(Watcher, "setTimer", "reconnect")
      <4>1. gen \in Nat /\ Cycle \in Nat /\ Cycle' = Cycle + 1
        BY <3>2, CycleSetTimer, CycleTerms, BoundsType DEF IndInv, TypeOK, Socket
      <4>2. pc[Watcher] = "setTimer" /\ pc'[Watcher] = "reconnect"
        BY <3>2 DEF IndInv, Shape
      <4>3. WatcherStarts = 1 /\ WatcherStarts' = 0
        BY <4>2 DEF WatcherStarts, OnNewSocket
      <4>4. MainStarts' = MainStarts /\ MainStarts \in {0, 1}
        BY <3>1 DEF MainStarts
      <4> QED
        BY <3>1, <4>1, <4>3, <4>4 DEF IndInv, PingCycle
    <3>3. CASE sendConnectRequest(Watcher, "sendConnect", "timedWait")
      BY <3>1, <3>3, CycleSend, PingCycleKept DEF Request
    <3>4. CASE ~(\/ setTimerExpiration(Watcher, "setTimer", "reconnect")
                 \/ sendConnectRequest(Watcher, "sendConnect", "timedWait"))
      <4>1. /\ UNCHANGED <<messagesQueue, timer, fires>>
            /\ owed' = owed \/ owed' = <<>>
        BY <2>2, <3>4
      <4>2. /\ write'.res = "done" <=> write.res = "done"
            /\ read'.res = "pong" => read.res = "pong"
        BY <2>2, <3>4 DEF IndInv, TypeOK, Aborted, AbortAll, None
      <4> QED
        BY <3>1, <4>1, <4>2, CycleQuiet, PingCycleKept
    <3> QED
      BY <3>2, <3>3, <3>4
  <2> QED
    BY <2>1, <2>2
<1> QED
  BY <1>1, <1>2, <1>3, <1>4, <1>5, <1>6, <1>7, <1>8, <1>9, MessagesStep DEF IndInv

\* The network, the watchdog, the clock.
LEMMA EnvironmentIndInv ==
    ASSUME IndInv, Environment
    PROVE  IndInv'
<1> USE DEF Environment, answerArrives, readLost, writeCompletes, writeLost, timerDue
<1>1. QueueStep /\ OwedStep
  BY DEF QueueStep, OwedStep
<1>2. PongStep
  BY HeadTailProperties DEF IndInv, PongStep, TypeOK, Answers, None
<1>3. /\ sequenceCode => sequenceCode'
      /\ sequenceCode' \in BOOLEAN
      /\ isModuleRunning' \in BOOLEAN /\ stopped' \in BOOLEAN
      /\ sendingInProgress' \in BOOLEAN /\ timer' \in BOOLEAN
  <2>1. (sequenceCode => sequenceCode') /\ sequenceCode' \in BOOLEAN
    <3>1. UNCHANGED sequenceCode
      OBVIOUS
    <3> QED
      BY <3>1, Zenon DEF IndInv, TypeOK
  <2>2. UNCHANGED processVars
    BY Zenon
  <2>3. sendingInProgress' \in BOOLEAN
    BY Zenon DEF IndInv, TypeOK
  <2>4. timer' \in BOOLEAN
    BY Zenon DEF IndInv, TypeOK
  <2> QED
    BY <2>1, <2>2, <2>3, <2>4 DEF IndInv, TypeOK
<1>4. Shape'
  BY DEF IndInv, TypeOK, Shape, None
<1>5. Reading'
  BY HeadTailProperties DEF IndInv, TypeOK, Shape, Reading, InReadHandler, ReadPc, Answers, None
<1>6. Writing'
  BY DEF IndInv, TypeOK, Shape, Writing, None
<1>7. CodeBeforeTimer'
  BY DEF IndInv, TypeOK, Shape, CodeBeforeTimer
<1>8. TypeOK'
  <2>1. /\ connectionState' \in ConnectionState
        /\ waiting' \subseteq {Main, Watcher}
        /\ gen' \in Socket
        /\ socket' \in {"fresh", "failed", "open", "closed"}
    BY DEF IndInv, TypeOK
  <2>2. read' \in [on : Socket, res : Answer \cup {"pending", "error", "empty", "off"}]
                    \cup {None}
    <3>0. read \in [on : Socket, res : Answer \cup {"pending", "error", "empty", "off"}]
                     \cup {None}
      BY DEF IndInv, TypeOK
    <3>1. CASE ~answerArrives
      BY <3>0, <3>1 DEF None
    <3>2. CASE answerArrives
      <4>1. Head(owed) \in {"connect", "ping", "rawPing"}
        BY <3>2, HeadTailProperties DEF IndInv, TypeOK
      <4>2. PICK a \in Answers(Head(owed)) \cup {"empty"} : read' = [read EXCEPT !.res = a]
        BY <3>2
      <4>3. a \in Answer \cup {"empty"}
        BY <4>1, <4>2 DEF Answers, Answer
      <4> HIDE DEF answerArrives
      <4> QED
        BY <3>0, <3>2, <4>2, <4>3 DEF answerArrives, None
    <3> QED
      BY <3>1, <3>2
  <2>3. write' \in [on : Socket, res : {"pending", "done", "error"}] \cup {None}
    BY DEF IndInv, TypeOK, Started, Aborted, AbortAll, None
  <2>4. fires' \in Nat /\ pings' \in 0 .. MaxPings
    BY BoundsType DEF IndInv, TypeOK
  <2>5. /\ pc'[Main] \in MainPc \cup ReadPc \cup LossPc \cup {"blocked"}
        /\ pc'[Io] \in {"idle", "done", "blocked"} \cup ReadPc \cup LossPc
        /\ pc'[Watcher] \in WatcherPc
    BY DEF IndInv, TypeOK
  <2>6. seen' \in [Thread -> {"none", "write"} \cup Answer]
    BY DEF IndInv, TypeOK
  <2> QED
    BY <1>1, <1>2, <1>3, <2>1, <2>2, <2>3, <2>4, <2>5, <2>6, MessagesStep DEF IndInv, TypeOK
<1>9. PingCycle'
  <2>1. gen' = gen /\ pc' = pc
    OBVIOUS
  <2>2. Cycle' \in 0 .. Cycle
    <3>1. CASE readLost \/ writeLost
      <4>1. /\ UNCHANGED <<messagesQueue, timer, fires, owed>>
            /\ write'.res = "done" <=> write.res = "done"
            /\ read'.res = "pong" => read.res = "pong"
        BY <3>1 DEF IndInv, TypeOK, None
      <4> QED
        BY <4>1, CycleQuiet
    <3> QED
      BY <3>1, CycleAnswerArrives, CycleWriteCompletes, CycleTimerDue
  <2> QED
    BY <2>1, <2>2, PingCycleKept
<1> QED
  BY <1>1, <1>2, <1>3, <1>4, <1>5, <1>6, <1>7, <1>8, <1>9, MessagesStep DEF IndInv

\* The steps that touch neither messages nor timers: the user's task returns,
\* a handler of the server is blocked, the io thread leaves; and stuttering.
LEMMA QuietIndInv ==
    ASSUME IndInv,
           \/ startUserTask \/ ioLeaves \/ UNCHANGED vars
           \/ \E th \in Runner : serverHandlerBlocks(th)
    PROVE  IndInv'
<1> USE DEF startUserTask, StopRunning, ioLeaves, serverHandlerBlocks, RunsHandler, Rest
<1>1. UNCHANGED <<stateVars, connectionVars, timerVars, sequenceCode, seen>>
  OBVIOUS
<1>2. isModuleRunning' \in BOOLEAN /\ stopped' \in BOOLEAN
  BY Zenon DEF IndInv, TypeOK
<1>3. /\ pc' \in [Thread -> AnyPc]
      /\ pc'[Watcher] = pc[Watcher]
      /\ \/ pc'[Main] = pc[Main]
         \/ pc[Main] = "user" /\ pc'[Main] = "sendShutdown"
         \/ pc[Main] = "poll" /\ pc'[Main] = "blocked"
      /\ \/ pc'[Io] = pc[Io]
         \/ pc[Io] = "idle" /\ pc'[Io] \in {"done", "blocked"}
  BY DEF IndInv, Shape, AnyPc, MainPc
<1> HIDE DEF startUserTask, StopRunning, ioLeaves, serverHandlerBlocks, RunsHandler, Rest
<1>4. TypeOK'
  BY <1>1, <1>2, <1>3 DEF IndInv, TypeOK, MainPc
<1>5. Shape'
  BY <1>1, <1>3 DEF IndInv, Shape
<1>6. CodeBeforeTimer' /\ CodeBeforePing'
  BY <1>1, <1>3 DEF IndInv, CodeBeforeTimer, CodeBeforePing
<1>7. Reading'
  BY <1>1, <1>3 DEF IndInv, Reading, InReadHandler, ReadPc
<1>8. Writing'
  BY <1>1, <1>3 DEF IndInv, Writing, LossPc
<1>9. PingCycle'
  BY <1>1, <1>3, CycleQuiet, PingCycleKept DEF BeforeTimer
<1> QED
  BY <1>4, <1>5, <1>6, <1>7, <1>8, <1>9 DEF IndInv

LEMMA InitIndInv == Init => IndInv
<1> SUFFICES ASSUME Init PROVE IndInv
  OBVIOUS
<1> USE DEF Init, None
<1>1. pc[Main] = "configure" /\ pc[Io] = "idle" /\ pc[Watcher] = "loop"
  OBVIOUS
<1>2. Shape
  BY <1>1 DEF Shape, AnyPc, MainPc, WatcherPc
<1>3. TypeOK
  <2>1. isModuleRunning \in BOOLEAN /\ stopped \in BOOLEAN /\ sendingInProgress \in BOOLEAN
        /\ timer \in BOOLEAN /\ sequenceCode \in BOOLEAN
    OBVIOUS
  <2>2. gen \in Socket /\ pings \in 0 .. MaxPings
    BY BoundsType DEF Socket
  <2>3. messagesQueue \in Seq(Request) /\ owed \in Seq({"connect", "ping", "rawPing"})
    BY EmptySeq
  <2> QED
    BY <1>1, <2>1, <2>2, <2>3 DEF TypeOK, ConnectionState, MainPc, WatcherPc
<1>4. CodeBeforeTimer /\ CodeBeforePing
  BY <1>1 DEF CodeBeforeTimer, CodeBeforePing, Has
<1>5. Reading /\ Writing
  BY <1>1 DEF Reading, Writing
<1>6. PingCycle
  <2>1. Unsent = <<>>
    BY DEF Unsent
  <2>2. Cycle = 0
    BY <2>1, CountEmpty DEF Cycle, TimerSet, PongRead
  <2> QED
    BY <1>1, <2>2 DEF PingCycle, MainStarts, WatcherStarts, BeforeTimer, OnNewSocket
<1> QED
  BY <1>2, <1>3, <1>4, <1>5, <1>6 DEF IndInv

----------------------------------------------------------------------------
(* The theorems.                                                           *)

\* The inductive invariant of the session.
THEOREM SessionInductive == Spec => []IndInv
<1>1. IndInv /\ [Next]_vars => IndInv'
  BY MainIndInv, HandlerIndInv, WatcherIndInv, EnvironmentIndInv, QuietIndInv DEF Next
<1> QED
  BY <1>1, InitIndInv, PTL DEF Spec

\* The state shared by main, the io thread and the watcher keeps its type: in
\* particular no completion handler takes a message off an empty queue.
THEOREM SessionTypeCorrect == Spec => []TypeOK
  BY SessionInductive, PTL DEF IndInv

\* However the three threads and the network interleave, and however often the
\* watcher reconnects, no ping is sent before a response has set the code.
THEOREM PingsAlwaysCarryCode == Spec => []PingsCarryCode
<1>1. IndInv => PingsCarryCode
  BY DEF IndInv, CodeBeforePing, Has, PingsCarryCode
<1> QED
  BY <1>1, SessionInductive, PTL

\* However often the watcher reconnects and the timer is set while it runs,
\* there are never more pings under way than connections were made.
THEOREM PingCyclesBounded == Spec => []OnePingCyclePerConnection
<1>1. IndInv => OnePingCyclePerConnection
  <2>1. SUFFICES ASSUME IndInv PROVE Cycle <= gen
    BY DEF Cycle, TimerSet, PongRead, OnePingCyclePerConnection
  <2>2. Cycle \in Nat /\ gen \in Nat
    BY <2>1, CycleTerms, BoundsType DEF IndInv, TypeOK, Socket
  <2>3. MainStarts \in Nat /\ WatcherStarts \in Nat
    BY DEF MainStarts, WatcherStarts
  <2>4. Cycle + MainStarts + WatcherStarts <= gen
    BY <2>1 DEF IndInv, PingCycle
  <2> QED
    BY <2>2, <2>3, <2>4
<1> QED
  BY <1>1, SessionInductive, PTL

\* While the state is Connected, the loss of the socket is noticed.
THEOREM LossAlwaysNoticed == Spec => []LossIsNoticed
<1>1. IndInv => LossIsNoticed
  BY DEF IndInv, TypeOK, None, Reading, LossIsNoticed, InDisconnect, LossPc
<1> QED
  BY <1>1, SessionInductive, PTL
============================================================================
