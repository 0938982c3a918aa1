------------------------ MODULE TcpConnectionProofs ------------------------
(***************************************************************************)
(* Proofs about TcpConnection, for every number of messages, whichever of  *)
(* them are empty.                                                         *)
(***************************************************************************)
EXTENDS TcpConnection, RecursionLemmas, SequenceTheorems, TLAPS

\* One thread calls sendMessage; it may be the io_context thread.
OneSender == \A s, t \in Sender : s = t

----------------------------------------------------------------------------
(* The inductive invariant.                                                *)

\* The io thread is between two writes, or about to lower the flag.
InChain == pc[Io] \in {"empty", "more", "clear"}

\* There is one write at most, of the front of the queue, and whoever started
\* the chain raised the flag; a thread that saw the flag down is still alone.
ChainInv ==
    /\ writes \in {<<>>, <<Header(popped + 1)>>, <<Body(popped + 1)>>}
    /\ writes # <<>> => popped < pushed /\ ~InChain
    /\ out => writes # <<>>
    /\ ~broken /\ (writes # <<>> \/ InChain) => sendingInProgress
    /\ \A th \in Sender : pc[th] = "start" /\ ~broken => ~sendingInProgress
    /\ pc[Io] \in {"check", "start"} => Io \in Sender

\* The peer has the messages that left the queue; and the header of the next
\* one when it is written, or when the connection broke after it; and its body
\* when that is written and the message is still to be popped.
HeaderOut == popped < pushed /\ wire = Append(Frames[popped], Header(popped + 1))
WireInv ==
    /\ writes = <<Header(popped + 1)>> /\ out => HeaderOut
    /\ writes = <<Body(popped + 1)>> =>
           /\ popped + 1 \notin EmptyBody
           /\ IF out THEN wire = Frames[popped + 1] ELSE HeaderOut
    /\ writes # <<Body(popped + 1)>> /\ ~out =>
           \/ wire = Frames[popped]
           \/ socket = "closed" /\ HeaderOut /\ popped + 1 \notin EmptyBody

EmptyBodyLast == wire # <<>> /\ Last(wire).of \in EmptyBody

\* Why a queue that nobody serves is left alone on an open connection.
ServedInv ==
    /\ pc[Io] = "more" => EmptyBodyLast
    /\ pc[Io] = "clear" /\ socket = "open" => QueueEmpty \/ overlooked = pushed
    /\ ~broken /\ sendingInProgress /\ writes = <<>> /\ ~InChain /\ socket = "open" =>
           EmptyBodyLast
    /\ ~broken /\ ~sendingInProgress /\ socket = "open" =>
           \/ QueueEmpty \/ overlooked = pushed
           \/ \E th \in Sender : pc[th] \in {"check", "start"}

\* Nothing happens before the connection is made.
NewInv ==
    socket = "new" =>
        /\ pushed = 0 /\ reading = "none" /\ ~sendingInProgress
        /\ \A th \in Thread : pc[th] = "idle"

IndInv == TypeOK /\ ChainInv /\ WireInv /\ ServedInv /\ NewInv

----------------------------------------------------------------------------
(* Sequences of one element, frames and the messages they complete.        *)

LEMMA OneElement ==
    ASSUME NEW x
    PROVE  /\ <<x>> # <<>> /\ Len(<<x>>) = 1
           /\ Append(<<>>, x) = <<x>>
           /\ Head(<<x>>) = x /\ Tail(<<x>>) = <<>>
  OBVIOUS

LEMMA PartType ==
    ASSUME NEW m \in 1 .. MaxMessages
    PROVE  Header(m) \in Part /\ Body(m) \in Part
  BY DEF Header, Body, Part

LEMMA PartsDiffer ==
    ASSUME NEW m, NEW n
    PROVE  /\ Header(m) # Body(n)
           /\ Header(m).part = "header" /\ Header(m).of = m
           /\ Body(m).part = "body" /\ Body(m).of = m
  BY DEF Header, Body

\* The equations of the recursive definition of Frames, and its type.
LEMMA FramesDef ==
    /\ Frames[0] = <<>>
    /\ \A m \in 1 .. MaxMessages : Frames[m] = Frames[m - 1] \o Frame(m)
    /\ \A m \in 0 .. MaxMessages : Frames[m] \in Seq(Part)
<1> DEFINE step == [m \in Nat |-> [s \in Seq(Part) |->
                      IF m \in 1 .. MaxMessages THEN s \o Frame(m) ELSE s]]
<1>1. \A m \in 1 .. MaxMessages : Frame(m) \in Seq(Part)
  BY PartType DEF Frame
<1>2. IsStep(step, Seq(Part))
  BY <1>1, ConcatProperties DEF IsStep
<1>3. <<>> \in Seq(Part)
  OBVIOUS
<1> HIDE DEF step
<1>4. PICK f : FollowsStep(f, MaxMessages, Seq(Part), <<>>, step)
  BY <1>2, <1>3, MaxMessagesType, RecursionExists
<1>5. \A m \in 1 .. MaxMessages : f[m] = f[m - 1] \o Frame(m)
  <2> TAKE m \in 1 .. MaxMessages
  <2>1. m - 1 \in 0 .. MaxMessages /\ m \in Nat
    BY MaxMessagesType
  <2>2. f[m - 1] \in Seq(Part)
    BY <1>4, <2>1 DEF FollowsStep
  <2> QED
    BY <1>4, <2>1, <2>2 DEF step, FollowsStep
<1>6. f = [m \in 0 .. MaxMessages |-> IF m = 0 THEN <<>> ELSE f[m - 1] \o Frame(m)]
  <2>1. \A m \in 0 .. MaxMessages : f[m] = IF m = 0 THEN <<>> ELSE f[m - 1] \o Frame(m)
    BY <1>4, <1>5 DEF FollowsStep
  <2> QED
    BY <1>4, <2>1 DEF FollowsStep
<1>7. Frames = [m \in 0 .. MaxMessages |-> IF m = 0 THEN <<>> ELSE Frames[m - 1] \o Frame(m)]
  BY <1>6 DEF Frames
<1>8. \A m \in 1 .. MaxMessages : m \in 0 .. MaxMessages /\ m # 0
  OBVIOUS
<1>9. 0 \in 0 .. MaxMessages
  BY MaxMessagesType
<1>10. Frames[0] = <<>> /\ \A m \in 1 .. MaxMessages : Frames[m] = Frames[m - 1] \o Frame(m)
  BY <1>7, <1>8, <1>9
<1>11. FollowsStep(Frames, MaxMessages, Seq(Part), <<>>, step)
  <2>1. Frames = [m \in 0 .. MaxMessages |-> Frames[m]]
    BY <1>7
  <2>2. \A m \in 1 .. MaxMessages : Frames[m - 1] \in Seq(Part) =>
            Frames[m] = step[m][Frames[m - 1]]
    <3> SUFFICES ASSUME NEW m \in 1 .. MaxMessages, Frames[m - 1] \in Seq(Part)
                 PROVE  Frames[m] = step[m][Frames[m - 1]]
      OBVIOUS
    <3>1. m \in Nat
      OBVIOUS
    <3> QED
      BY <1>10, <3>1 DEF step
  <2> QED
    BY <1>2, <1>3, <1>10, <2>1, <2>2, MaxMessagesType, RecursionTyped
<1> QED
  BY <1>10, <1>11 DEF FollowsStep

LEMMA PrefixOfConcat ==
    ASSUME NEW S, NEW s \in Seq(S), NEW t \in Seq(S), NEW u \in Seq(S), IsPrefix(s, t)
    PROVE  IsPrefix(s, t \o u)
<1>1. /\ t \o u \in Seq(S) /\ Len(t \o u) = Len(t) + Len(u)
      /\ \A i \in 1 .. Len(t) : (t \o u)[i] = t[i]
  BY ConcatProperties
<1>2. Len(s) <= Len(t) /\ SubSeq(s, 1, Len(s)) = SubSeq(t, 1, Len(s))
  BY DEF IsPrefix
<1>3. SubSeq(t \o u, 1, Len(s)) = SubSeq(t, 1, Len(s))
  BY <1>1, <1>2
<1> QED
  BY <1>1, <1>2, <1>3 DEF IsPrefix

LEMMA AppendPrefix ==
    ASSUME NEW S, NEW s \in Seq(S), NEW e \in S
    PROVE  Append(s, e) \in Seq(S) /\ IsPrefix(s, Append(s, e))
<1>1. IsPrefix(s, s) /\ <<e>> \in Seq(S)
  BY DEF IsPrefix
<1> QED
  BY <1>1, PrefixOfConcat, AppendIsConcat, AppendProperties

LEMMA PrefixTransitive ==
    ASSUME NEW S, NEW s \in Seq(S), NEW t \in Seq(S), NEW u \in Seq(S),
           IsPrefix(s, t), IsPrefix(t, u)
    PROVE  IsPrefix(s, u)
<1>1. Len(s) <= Len(t) /\ SubSeq(s, 1, Len(s)) = SubSeq(t, 1, Len(s))
  BY DEF IsPrefix
<1>2. Len(t) <= Len(u) /\ SubSeq(t, 1, Len(t)) = SubSeq(u, 1, Len(t))
  BY DEF IsPrefix
<1>3. \A i \in 1 .. Len(t) : t[i] = u[i]
  <2>1. /\ \A i \in 1 .. Len(t) : SubSeq(t, 1, Len(t))[i] = t[i]
        /\ \A i \in 1 .. Len(t) : SubSeq(u, 1, Len(t))[i] = u[i]
    BY <1>2
  <2> QED
    BY <1>2, <2>1
<1>4. SubSeq(t, 1, Len(s)) = SubSeq(u, 1, Len(s))
  BY <1>1, <1>2, <1>3
<1> QED
  BY <1>1, <1>2, <1>4 DEF IsPrefix

\* The frames of the first messages begin those of more messages.
LEMMA FramesGrow ==
    ASSUME NEW m \in 0 .. MaxMessages, NEW n \in m .. MaxMessages
    PROVE  IsPrefix(Frames[m], Frames[n])
<1> DEFINE T == {k \in Nat : m + k <= MaxMessages => IsPrefix(Frames[m], Frames[m + k])}
<1>1. 0 \in T
  BY FramesDef, MaxMessagesType DEF IsPrefix
<1>2. ASSUME NEW k \in Nat, k \in T
      PROVE  k + 1 \in T
  <2> SUFFICES ASSUME m + (k + 1) <= MaxMessages
               PROVE  IsPrefix(Frames[m], Frames[m + (k + 1)])
    OBVIOUS
  <2> DEFINE l == m + (k + 1)
  <2>1. l \in 1 .. MaxMessages /\ l - 1 = m + k /\ m + k \in 0 .. MaxMessages
    BY MaxMessagesType
  <2>2. IsPrefix(Frames[m], Frames[l - 1])
    BY <1>2, <2>1
  <2>3. Frames[l] = Frames[l - 1] \o Frame(l)
    BY <2>1, FramesDef
  <2>4. Frame(l) \in Seq(Part)
    BY <2>1, PartType DEF Frame
  <2>5. Frames[m] \in Seq(Part) /\ Frames[l - 1] \in Seq(Part)
    BY <2>1, FramesDef
  <2> QED
    BY <2>2, <2>3, <2>4, <2>5, PrefixOfConcat
<1> HIDE DEF T
<1>3. Nat \subseteq T
  BY <1>1, <1>2, SetInduction
<1>4. n - m \in Nat /\ m + (n - m) = n /\ n <= MaxMessages
  BY MaxMessagesType
<1> QED
  BY <1>3, <1>4 DEF T

\* What part i of the stream adds to the messages that are complete, as a
\* step of the recursion that defines Completed.
Adds(v, i, s) == IF Completing(v[i]) THEN Append(s, v[i].of) ELSE s
Step(v) == [i \in Nat |-> [s \in Seq(Nat) |->
              IF i \in 1 .. Len(v) THEN Adds(v, i, s) ELSE s]]
Completions(v) ==
    CHOOSE f : f = [i \in 0 .. Len(v) |->
                      IF i = 0 THEN <<>>
                      ELSE IF Completing(v[i]) THEN Append(f[i - 1], v[i].of) ELSE f[i - 1]]

LEMMA CompletedFollows ==
    ASSUME NEW v \in Seq(Part)
    PROVE  /\ FollowsStep(Completions(v), Len(v), Seq(Nat), <<>>, Step(v))
           /\ Completed(v) = Completions(v)[Len(v)]
<1>1. Len(v) \in Nat /\ \A i \in 1 .. Len(v) : v[i].of \in Nat
  <2>1. \A i \in 1 .. Len(v) : v[i] \in Part
    BY ElementOfSeq
  <2>2. \A q \in Part : q.of \in Nat
    BY MaxMessagesType DEF Part
  <2> QED
    BY <2>1, <2>2
<1>2. \A i \in 1 .. Len(v), s \in Seq(Nat) : Adds(v, i, s) \in Seq(Nat)
  BY <1>1 DEF Adds
<1>3. IsStep(Step(v), Seq(Nat))
  BY <1>2 DEF IsStep, Step
<1>4. \A i \in 1 .. Len(v), s \in Seq(Nat) : Step(v)[i][s] = Adds(v, i, s)
  BY DEF Step
<1>5. <<>> \in Seq(Nat)
  OBVIOUS
<1>6. PICK f : FollowsStep(f, Len(v), Seq(Nat), <<>>, Step(v))
  BY <1>1, <1>3, <1>5, RecursionExists
<1>7. ASSUME NEW g
      PROVE  FollowsStep(g, Len(v), Seq(Nat), <<>>, Step(v)) =>
                 g = [i \in 0 .. Len(v) |-> IF i = 0 THEN <<>> ELSE Adds(v, i, g[i - 1])]
  <2> HAVE FollowsStep(g, Len(v), Seq(Nat), <<>>, Step(v))
  <2>1. \A i \in 0 .. Len(v) : i # 0 => i \in 1 .. Len(v) /\ i - 1 \in 0 .. Len(v)
    BY <1>1
  <2>2. \A i \in 1 .. Len(v) : g[i] = Adds(v, i, g[i - 1])
    <3> TAKE i \in 1 .. Len(v)
    <3>1. i - 1 \in 0 .. Len(v)
      BY <1>1
    <3>2. g[i - 1] \in Seq(Nat) /\ g[i] = Step(v)[i][g[i - 1]]
      BY <3>1 DEF FollowsStep
    <3> QED
      BY <1>4, <3>2
  <2>3. \A i \in 0 .. Len(v) : g[i] = IF i = 0 THEN <<>> ELSE Adds(v, i, g[i - 1])
    BY <2>1, <2>2 DEF FollowsStep
  <2> QED
    BY <2>3 DEF FollowsStep
<1>8. Completions(v) =
          [i \in 0 .. Len(v) |-> IF i = 0 THEN <<>> ELSE Adds(v, i, Completions(v)[i - 1])]
  BY <1>6, <1>7 DEF Adds, Completions
<1>9. Completions(v)[0] = <<>> /\ Completions(v) = [i \in 0 .. Len(v) |-> Completions(v)[i]]
  BY <1>1, <1>8
<1>10. \A i \in 1 .. Len(v) : Completions(v)[i] = Adds(v, i, Completions(v)[i - 1])
  <2>1. \A i \in 1 .. Len(v) : i \in 0 .. Len(v) /\ i # 0
    BY <1>1
  <2> QED
    BY <1>8, <2>1
<1>11. \A i \in 1 .. Len(v) : Completions(v)[i - 1] \in Seq(Nat) =>
           Completions(v)[i] = Step(v)[i][Completions(v)[i - 1]]
  BY <1>4, <1>10
<1>12. Completed(v) = Completions(v)[Len(v)]
  BY DEF Completed, Completions
<1> QED
  BY <1>1, <1>3, <1>5, <1>9, <1>11, <1>12, RecursionTyped

LEMMA CompletedEmpty == Completed(<<>>) = <<>>
<1>1. <<>> \in Seq(Part) /\ Len(<<>>) = 0
  OBVIOUS
<1> QED
  BY <1>1, CompletedFollows DEF FollowsStep

\* What a part that arrives adds to the messages the peer has.
LEMMA CompletedAppend ==
    ASSUME NEW w \in Seq(Part), NEW p \in Part
    PROVE  /\ Completed(w) \in Seq(Nat)
           /\ Completed(Append(w, p)) =
                  IF Completing(p) THEN Append(Completed(w), p.of) ELSE Completed(w)
<1> DEFINE u == Append(w, p)
           n == Len(w)
<1>1. u \in Seq(Part) /\ Len(u) = n + 1 /\ u[n + 1] = p /\ n \in Nat
      /\ \A i \in 1 .. n : u[i] = w[i]
  BY AppendProperties
<1>2. Completed(w) = Completions(w)[Len(w)] /\ Completed(u) = Completions(u)[Len(u)]
  BY <1>1, CompletedFollows
<1>3. FollowsStep(Completions(w), n, Seq(Nat), <<>>, Step(w))
  BY CompletedFollows
<1>4. FollowsStep(Completions(u), n + 1, Seq(Nat), <<>>, Step(u))
  BY <1>1, CompletedFollows
<1>5. FollowsStep(Completions(w), n, Seq(Nat), <<>>, Step(u))
  <2>1. \A i \in 1 .. n : Completions(w)[i - 1] \in Seq(Nat)
    BY <1>1, <1>3 DEF FollowsStep
  <2>2. \A i \in 1 .. n, s \in Seq(Nat) : Step(u)[i][s] = Step(w)[i][s]
    BY <1>1 DEF Step, Adds
  <2> QED
    BY <1>3, <2>1, <2>2 DEF FollowsStep
<1>6. Completions(u)[n] = Completions(w)[n] /\ Completions(w)[n] \in Seq(Nat)
  <2> HIDE DEF u, n
  <2>1. n + 1 \in Nat /\ n \in 0 .. n + 1 /\ n \in 0 .. n
    BY <1>1
  <2>2. \A m \in 0 .. n : Completions(u)[m] = Completions(w)[m]
    BY <1>4, <1>5, <2>1, RecursionShorter
  <2> QED
    BY <1>3, <2>1, <2>2 DEF FollowsStep
<1>7. Completions(u)[n + 1] = Adds(u, n + 1, Completions(u)[n])
  <2>1. n + 1 \in 1 .. n + 1 /\ (n + 1) - 1 = n /\ n + 1 \in Nat
    BY <1>1
  <2>2. Completions(u)[n + 1] = Step(u)[n + 1][Completions(u)[n]]
    BY <1>4, <2>1 DEF FollowsStep
  <2> QED
    BY <1>1, <1>6, <2>1, <2>2 DEF Step
<1> QED
  BY <1>2, <1>1, <1>6, <1>7 DEF Adds

----------------------------------------------------------------------------
(* Type correctness, with any number of senders.                           *)

\* A connection starts well typed.
LEMMA InitTypeOK == Init => TypeOK
<1> SUFFICES ASSUME Init PROVE TypeOK
  OBVIOUS
<1>1. pc \in [Thread -> Pc]
  BY DEF Init, Pc
<1>2. writes \in Seq(Part) /\ wire \in Seq(Part)
  BY DEF Init
<1>3. sendingInProgress \in BOOLEAN /\ broken \in BOOLEAN /\ out \in BOOLEAN
  BY Zenon DEF Init
<1> QED
  BY <1>1, <1>2, <1>3, MaxMessagesType DEF Init, TypeOK

\* Every step keeps the types, with any number of senders.
LEMMA NextTypeOK == TypeOK /\ [Next]_vars => TypeOK'
<1> SUFFICES ASSUME TypeOK, [Next]_vars
             PROVE  TypeOK'
  OBVIOUS
<1> USE MaxMessagesType DEF TypeOK, queueVars, writeVars, At, Goto, Pc
<1>1. \A th \in Thread : \A to \in Pc : [pc EXCEPT ![th] = to] \in [Thread -> Pc]
  OBVIOUS
<1>2. Io \in Thread /\ Sender \subseteq Thread
  BY DEF Thread
<1>0. \A s \in Seq(Part), p \in Part : Append(s, p) \in Seq(Part)
  BY AppendProperties
<1>3. ~QueueEmpty => popped + 1 \in 1 .. MaxMessages /\ popped + 1 \in 0 .. pushed
  BY DEF QueueEmpty
<1>4. CASE connect \/ startReading \/ closeSocket
  BY <1>4 DEF connect, startReading, closeSocket
<1>5. ASSUME NEW th \in Sender, sendMessage(th) PROVE TypeOK'
  <2>1. /\ pushed + 1 \in 0 .. MaxMessages /\ popped \in 0 .. pushed + 1
        /\ overlooked' \in 0 .. pushed + 1
    BY <1>5 DEF sendMessage
  <2> QED
    BY <1>1, <1>2, <1>5, <2>1 DEF sendMessage
<1>6. ASSUME NEW th \in Sender, checkSending(th) PROVE TypeOK'
  BY <1>1, <1>2, <1>6 DEF checkSending
<1>7. ASSUME NEW th \in Sender, startSending(th) PROVE TypeOK'
  <2>1. writes' \in Seq(Part)
    <3>1. CASE QueueEmpty
      BY <1>7, <3>1 DEF startSending, Undefined
    <3>2. CASE ~QueueEmpty
      <4>1. popped + 1 \in 1 .. MaxMessages
        BY <1>3, <3>2
      <4>2. Header(popped + 1) \in Part
        BY <4>1, PartType
      <4>3. writes' = Append(writes, Header(popped + 1))
        BY <1>7, <3>2 DEF startSending, writeMessageHeader
      <4>4. writes \in Seq(Part)
        OBVIOUS
      <4> HIDE DEF TypeOK
      <4> QED
        BY <1>0, <4>2, <4>3, <4>4
    <3> QED
      BY <3>1, <3>2
  <2>2. pc' \in [Thread -> Pc] /\ broken' \in BOOLEAN
    BY <1>1, <1>2, <1>7 DEF startSending
  <2> QED
    BY <1>7, <2>1, <2>2 DEF startSending
<1>8. CASE postWriteMessageHeader
  <2>1. CASE QueueEmpty /\ Undefined
    BY <2>1 DEF Undefined
  <2>2. CASE ~(QueueEmpty /\ Undefined)
    <3>1. Head(writes) \in Part /\ Tail(writes) \in Seq(Part)
      BY <1>8, HeadTailProperties DEF postWriteMessageHeader, Completes
    <3>2. popped + 1 \in 1 .. MaxMessages /\ popped + 1 \in 0 .. pushed
      BY <1>3, <1>8, <2>2 DEF postWriteMessageHeader
    <3>3. wire' = wire /\ out' = FALSE
      BY <1>8, <2>2 DEF postWriteMessageHeader
    <3>4. writes' \in Seq(Part)
      <4>1. Body(popped + 1) \in Part
        BY <3>2, PartType
      <4>2. writes' \in {Append(Tail(writes), Body(popped + 1)), Tail(writes)}
        BY <1>8, <2>2 DEF postWriteMessageHeader
      <4> QED
        BY <1>0, <3>1, <4>1, <4>2
    <3>5. popped' \in 0 .. pushed' /\ pc' \in [Thread -> Pc]
      BY <1>1, <1>2, <1>8, <2>2, <3>2 DEF postWriteMessageHeader, pop
    <3> QED
      BY <1>8, <2>2, <3>3, <3>4, <3>5 DEF postWriteMessageHeader
  <2> QED
    BY <2>1, <2>2
<1>9. CASE postWriteMessageBody
  <2>1. CASE QueueEmpty /\ Undefined
    BY <2>1 DEF Undefined
  <2>2. CASE ~(QueueEmpty /\ Undefined)
    <3>1. Head(writes) \in Part /\ Tail(writes) \in Seq(Part)
      BY <1>9, HeadTailProperties DEF postWriteMessageBody, Completes
    <3>2. popped + 1 \in 0 .. pushed
      BY <1>3, <1>9, <2>2 DEF postWriteMessageBody
    <3>3. wire' = wire /\ out' = FALSE /\ writes' \in Seq(Part)
      BY <1>9, <2>2, <3>1 DEF postWriteMessageBody
    <3>4. popped' \in 0 .. pushed' /\ pc' \in [Thread -> Pc]
      BY <1>1, <1>2, <1>9, <2>2, <3>2 DEF postWriteMessageBody, pop
    <3> QED
      BY <1>9, <2>2, <3>3, <3>4 DEF postWriteMessageBody
  <2> QED
    BY <2>1, <2>2
<1>10. CASE moreAfterEmptyBody \/ moreMessages
  <2>1. writes' \in Seq(Part)
    <3>1. \/ writes' = writes
          \/ ~QueueEmpty /\ writes' = Append(writes, Header(popped + 1))
      BY <1>10 DEF moreAfterEmptyBody, moreMessages, MoreMessages, writeMessageHeader
    <3>2. ~QueueEmpty => Header(popped + 1) \in Part
      BY <1>3, PartType
    <3> QED
      BY <1>0, <3>1, <3>2
  <2>2. pc' \in [Thread -> Pc]
    BY <1>1, <1>2, <1>10 DEF moreAfterEmptyBody, moreMessages
  <2> QED
    BY <1>10, <2>1, <2>2 DEF moreAfterEmptyBody, moreMessages
<1>11. CASE clearSending
  BY <1>1, <1>2, <1>11 DEF clearSending, lowerFlag
<1>12. CASE writeFails
  <2>1. writes' \in Seq(Part)
    BY <1>12, HeadTailProperties DEF writeFails
  <2> QED
    BY <1>1, <1>2, <1>12, <2>1 DEF writeFails
<1>13. CASE postReadMessageHeader \/ badHeader \/ postReadMessageBody \/ readFails
  BY <1>13 DEF postReadMessageHeader, badHeader, postReadMessageBody, readFails
<1>14. CASE UNCHANGED vars
  BY <1>14 DEF vars
<1>15. CASE writeCompletes
  <2>1. wire' = Append(wire, Head(writes)) /\ Head(writes) \in Part /\ wire \in Seq(Part)
    BY <1>15, HeadTailProperties DEF writeCompletes
  <2>2. wire' \in Seq(Part)
    BY <1>0, <2>1
  <2> QED
    BY <1>15, <2>2 DEF writeCompletes
<1>16. CASE readCompletes
  BY <1>16 DEF readCompletes
<1> QED
  BY <1>4, <1>5, <1>6, <1>7, <1>8, <1>9, <1>10, <1>11, <1>12, <1>13, <1>14, <1>15, <1>16
     DEF Next, Completion

\* The state of the connection keeps its type; no message is popped that was
\* not pushed, however many threads send.
THEOREM ConnectionTypeCorrect == Spec => []TypeOK
  BY InitTypeOK, NextTypeOK, PTL DEF Spec

----------------------------------------------------------------------------
(* One sender: the invariant.                                              *)

\* The parts of a message, one after the other, make its frame.
LEMMA AppendFrame ==
    ASSUME NEW m \in 0 .. MaxMessages, m + 1 \in 1 .. MaxMessages
    PROVE  /\ m + 1 \in EmptyBody =>
                  Append(Frames[m], Header(m + 1)) = Frames[m + 1]
           /\ m + 1 \notin EmptyBody =>
                  Append(Append(Frames[m], Header(m + 1)), Body(m + 1)) = Frames[m + 1]
<1>1. Frames[m] \in Seq(Part) /\ Frames[m + 1] = Frames[m] \o Frame(m + 1)
  <2>1. (m + 1) - 1 = m
    OBVIOUS
  <2> QED
    BY <2>1, FramesDef
<1>2. Header(m + 1) \in Part /\ Body(m + 1) \in Part
  BY PartType
<1>3. CASE m + 1 \in EmptyBody
  BY <1>1, <1>2, <1>3, AppendIsConcat DEF Frame
<1>4. CASE m + 1 \notin EmptyBody
  <2> DEFINE h == Header(m + 1)
             b == Body(m + 1)
             f == Frames[m]
  <2>1. Append(f, h) \in Seq(Part)
    BY <1>1, <1>2, AppendProperties
  <2>2. Append(Append(f, h), b) = (f \o <<h>>) \o <<b>>
    BY <1>1, <1>2, <2>1, AppendIsConcat
  <2>3. (f \o <<h>>) \o <<b>> = f \o (<<h>> \o <<b>>)
    BY <1>1, <1>2, ConcatAssociative
  <2>4. <<h>> \o <<b>> = <<h, b>>
    <3> HIDE DEF h, b
    <3>1. /\ <<h>> \in Seq({h, b}) /\ <<b>> \in Seq({h, b})
          /\ Len(<<h>>) = 1 /\ Len(<<b>>) = 1 /\ <<h>>[1] = h /\ <<b>>[1] = b
      OBVIOUS
    <3>2. /\ <<h, b>> \in Seq({h, b}) /\ Len(<<h, b>>) = 2
          /\ <<h, b>>[1] = h /\ <<h, b>>[2] = b
      OBVIOUS
    <3>3. /\ <<h>> \o <<b>> \in Seq({h, b}) /\ Len(<<h>> \o <<b>>) = 2
          /\ (<<h>> \o <<b>>)[1] = h /\ (<<h>> \o <<b>>)[2] = b
      BY <3>1, ConcatProperties
    <3>4. \A i \in 1 .. 2 : (<<h>> \o <<b>>)[i] = <<h, b>>[i]
      BY <3>2, <3>3
    <3> QED
      BY <3>2, <3>3, <3>4, SeqEqual
  <2> QED
    BY <1>1, <1>4, <2>2, <2>3, <2>4 DEF Frame
<1> QED
  BY <1>3, <1>4

\* Nothing is queued and nothing is written at first.
LEMMA InitIndInv == Init => IndInv
<1> SUFFICES ASSUME Init PROVE IndInv
  OBVIOUS
<1> USE DEF Init
<1>1. TypeOK
  BY InitTypeOK
<1>2. pc[Io] = "idle"
  BY DEF Thread
<1>3. \A th \in Sender : pc[th] = "idle"
  BY DEF Thread
<1>4. wire = Frames[popped]
  BY FramesDef
<1>5. writes # <<Body(popped + 1)>>
  OBVIOUS
<1> QED
  BY <1>1, <1>2, <1>3, <1>4, <1>5
     DEF IndInv, ChainInv, InChain, WireInv, HeaderOut, ServedInv, NewInv, QueueEmpty

\* connect, closeSocket and the reads: only the socket and the read change, and
\* the socket is not opened again.
LEMMA SocketIndInv ==
    ASSUME IndInv, TypeOK', UNCHANGED <<queueVars, writeVars, pc, broken>>,
           socket' \in {"open", "closed"},
           socket' = "open" => socket \in {"new", "open"}
    PROVE  IndInv'
<1> USE DEF IndInv, queueVars, writeVars
<1>1. ChainInv'
  BY DEF ChainInv, InChain
<1>2. WireInv'
  <2>1. socket = "closed" => socket' = "closed"
    OBVIOUS
  <2> QED
    BY <2>1 DEF WireInv, HeaderOut
<1>3. ServedInv'
  <2>1. CASE socket = "new"
    <3>1. pc[Io] = "idle" /\ QueueEmpty
      BY <2>1 DEF NewInv, TypeOK, Thread, QueueEmpty
    <3>2. ~sendingInProgress
      BY <2>1 DEF NewInv
    <3> QED
      BY <2>1, <3>1, <3>2 DEF ServedInv, InChain, QueueEmpty
  <2>2. CASE socket # "new"
    BY <2>2 DEF ServedInv, InChain, QueueEmpty, EmptyBodyLast
  <2> QED
    BY <2>1, <2>2
<1>4. NewInv'
  BY DEF NewInv
<1> QED
  BY <1>1, <1>2, <1>3, <1>4

LEMMA sendMessageIndInv ==
    ASSUME OneSender, IndInv, TypeOK', NEW th \in Sender, sendMessage(th)
    PROVE  IndInv'
<1> USE DEF IndInv, sendMessage, At, Goto, writeVars
<1>1. th \in Thread /\ Io \in Thread
  BY DEF Thread
<1>2. pc'[th] = "check" /\ \A t \in Thread : t # th => pc'[t] = pc[t]
  BY <1>1 DEF TypeOK
<1>3. InChain' = InChain
  BY <1>1, <1>2 DEF InChain
<1>4. ChainInv'
  <2>1. pushed \in Int /\ popped \in Int
    BY MaxMessagesType DEF TypeOK
  <2> QED
    BY <1>1, <1>2, <1>3, <2>1 DEF ChainInv, OneSender
<1>5. WireInv'
  <2>1. pushed \in Int /\ popped \in Int
    BY MaxMessagesType DEF TypeOK
  <2> QED
    BY <2>1 DEF WireInv, HeaderOut
<1>6. ServedInv'
  <2>1. pc[Io] \in {"more", "clear"} => pc'[Io] = pc[Io] /\ th # Io
    BY <1>1, <1>2
  <2>2. pc'[Io] \in {"more", "clear"} => pc'[Io] = pc[Io]
    BY <1>1, <1>2
  <2>3. EmptyBodyLast' = EmptyBodyLast
    BY DEF EmptyBodyLast
  <2> QED
    BY <1>2, <1>3, <2>1, <2>2, <2>3 DEF ServedInv
<1>7. NewInv'
  BY DEF NewInv
<1> QED
  BY <1>4, <1>5, <1>6, <1>7

LEMMA checkSendingIndInv ==
    ASSUME OneSender, IndInv, TypeOK', NEW th \in Sender, checkSending(th)
    PROVE  IndInv'
<1> USE DEF IndInv, checkSending, At, Goto, writeVars, queueVars
<1>1. th \in Thread /\ Io \in Thread
  BY DEF Thread
<1>2. /\ pc'[th] = IF socket = "open" /\ ~sendingInProgress THEN "start" ELSE "idle"
      /\ \A t \in Thread : t # th => pc'[t] = pc[t]
  BY <1>1 DEF TypeOK
<1>3. InChain' = InChain
  BY <1>1, <1>2 DEF InChain
<1>4. ChainInv'
  BY <1>1, <1>2, <1>3 DEF ChainInv, OneSender
<1>5. WireInv'
  BY DEF WireInv, HeaderOut
<1>6. ServedInv'
  <2>1. pc'[Io] \in {"more", "clear"} => pc'[Io] = pc[Io]
    BY <1>1, <1>2
  <2>2. EmptyBodyLast' = EmptyBodyLast /\ QueueEmpty' = QueueEmpty
    BY DEF EmptyBodyLast, QueueEmpty
  <2> QED
    BY <1>2, <1>3, <2>1, <2>2 DEF ServedInv
<1>7. NewInv'
  BY <1>1 DEF NewInv
<1> QED
  BY <1>4, <1>5, <1>6, <1>7

LEMMA startSendingIndInv ==
    ASSUME OneSender, IndInv, TypeOK', NEW th \in Sender, startSending(th)
    PROVE  IndInv'
<1> USE DEF IndInv, startSending, At, Goto, queueVars
<1>1. th \in Thread /\ Io \in Thread
  BY DEF Thread
<1>2. ~sendingInProgress /\ writes = <<>> /\ ~out /\ out' = out /\ ~InChain
  BY DEF ChainInv
<1>3. NewInv'
  BY <1>1 DEF NewInv
<1>4. CASE QueueEmpty
  <2>1. broken' /\ writes' = writes /\ pc' = pc
    BY <1>4
  <2>2. ChainInv'
    BY <1>2, <2>1 DEF ChainInv, InChain
  <2>3. WireInv'
    BY <2>1 DEF WireInv, HeaderOut
  <2>4. ServedInv'
    BY <2>1 DEF ServedInv, EmptyBodyLast, QueueEmpty
  <2> QED
    BY <1>3, <2>2, <2>3, <2>4
<1>5. CASE ~QueueEmpty
  <2>1. ~broken' /\ writes' = <<Header(popped + 1)>> /\ pc' = [pc EXCEPT ![th] = "idle"]
    BY <1>2, <1>5, OneElement DEF writeMessageHeader
  <2>2. popped < pushed
    BY <1>5, MaxMessagesType DEF QueueEmpty, TypeOK
  <2>3. pc'[th] = "idle" /\ \A t \in Thread : t # th => pc'[t] = pc[t]
    BY <1>1, <2>1 DEF TypeOK
  <2>4. ~InChain'
    BY <1>1, <1>2, <2>3 DEF InChain
  <2>5. ChainInv'
    BY <1>1, <1>2, <2>1, <2>2, <2>3, <2>4 DEF ChainInv, OneSender
  <2>6. WireInv'
    <3>1. writes # <<Body(popped + 1)>> /\ <<Header(popped + 1)>> # <<Body(popped + 1)>>
      BY <1>2, PartsDiffer
    <3> QED
      BY <1>2, <2>1, <3>1 DEF WireInv, HeaderOut
  <2>7. ServedInv'
    <3>1. writes' # <<>> /\ sendingInProgress'
      BY <2>1, OneElement
    <3> QED
      BY <2>4, <3>1 DEF ServedInv, InChain
  <2> QED
    BY <1>3, <2>5, <2>6, <2>7
<1> QED
  BY <1>4, <1>5

\* The outstanding write is of a part of the front of the queue, and the flag
\* is up.
LEMMA WritesFront ==
    ASSUME IndInv, ~broken, writes # <<>>
    PROVE  /\ popped \in 0 .. MaxMessages /\ popped + 1 \in 1 .. MaxMessages
           /\ popped < pushed /\ ~QueueEmpty /\ sendingInProgress
           /\ Tail(writes) = <<>>
           /\ \/ writes = <<Header(popped + 1)>> /\ Head(writes) = Header(popped + 1)
              \/ writes = <<Body(popped + 1)>> /\ Head(writes) = Body(popped + 1)
<1>1. popped < pushed /\ sendingInProgress
  BY DEF IndInv, ChainInv
<1>2. popped \in 0 .. MaxMessages /\ popped + 1 \in 1 .. MaxMessages /\ ~QueueEmpty
  BY <1>1, MaxMessagesType DEF IndInv, TypeOK, QueueEmpty
<1>3. writes = <<Header(popped + 1)>> \/ writes = <<Body(popped + 1)>>
  BY DEF IndInv, ChainInv
<1> QED
  BY <1>1, <1>2, <1>3, OneElement

\* What the peer has when the handler of a write runs.
LEMMA CompletesFront ==
    ASSUME IndInv, NEW part \in {"header", "body"}, Completes(part)
    PROVE  /\ popped \in 0 .. MaxMessages /\ popped + 1 \in 1 .. MaxMessages
           /\ popped < pushed /\ ~QueueEmpty /\ sendingInProgress
           /\ Tail(writes) = <<>> /\ out
           /\ part = "header" => /\ writes = <<Header(popped + 1)>>
                                 /\ wire = Append(Frames[popped], Header(popped + 1))
           /\ part = "body" => /\ writes = <<Body(popped + 1)>>
                               /\ popped + 1 \notin EmptyBody
                               /\ wire = Frames[popped + 1]
<1>1. ~broken /\ writes # <<>> /\ out /\ Head(writes).part = part
  BY DEF Completes, At
<1>2. /\ part = "header" => writes = <<Header(popped + 1)>>
      /\ part = "body" => writes = <<Body(popped + 1)>>
  BY <1>1, WritesFront, PartsDiffer
<1> QED
  BY <1>1, <1>2, WritesFront DEF IndInv, WireInv, HeaderOut

LEMMA writeCompletesIndInv ==
    ASSUME IndInv, TypeOK', writeCompletes
    PROVE  IndInv'
<1> USE DEF IndInv
<1>1. /\ ~broken /\ socket = "open" /\ writes # <<>> /\ ~out /\ out'
      /\ wire' = Append(wire, Head(writes))
      /\ UNCHANGED <<socket, pushed, popped, overlooked, sendingInProgress, writes,
                     reading, pc, broken>>
  BY DEF writeCompletes, queueVars
<1>2. /\ popped \in 0 .. MaxMessages /\ popped + 1 \in 1 .. MaxMessages
      /\ popped < pushed /\ sendingInProgress
      /\ \/ writes = <<Header(popped + 1)>> /\ Head(writes) = Header(popped + 1)
         \/ writes = <<Body(popped + 1)>> /\ Head(writes) = Body(popped + 1)
  BY <1>1, WritesFront
<1>3. ChainInv'
  BY <1>1 DEF ChainInv, InChain
<1>4. WireInv'
  <2>1. CASE writes = <<Header(popped + 1)>>
    <3>1. Head(writes) = Header(popped + 1) /\ writes # <<Body(popped + 1)>>
      BY <2>1, PartsDiffer, OneElement
    <3>2. wire = Frames[popped]
      BY <1>1, <3>1 DEF WireInv
    <3> QED
      BY <1>1, <1>2, <2>1, <3>1, <3>2 DEF WireInv, HeaderOut
  <2>2. CASE writes = <<Body(popped + 1)>>
    <3>1. Head(writes) = Body(popped + 1) /\ writes # <<Header(popped + 1)>>
      BY <2>2, PartsDiffer, OneElement
    <3>2. /\ popped + 1 \notin EmptyBody
          /\ wire = Append(Frames[popped], Header(popped + 1))
      BY <1>1, <2>2 DEF WireInv, HeaderOut
    <3>3. wire' = Frames[popped + 1]
      BY <1>1, <1>2, <3>1, <3>2, AppendFrame
    <3> QED
      BY <1>1, <2>2, <3>1, <3>2, <3>3 DEF WireInv
  <2> QED
    BY <1>2, <2>1, <2>2
<1>5. ServedInv'
  <2>1. ~InChain
    BY <1>1 DEF ChainInv
  <2> QED
    BY <1>1, <1>2, <2>1 DEF ServedInv, InChain, QueueEmpty
<1>6. NewInv'
  BY <1>1 DEF NewInv
<1> QED
  BY <1>3, <1>4, <1>5, <1>6

LEMMA postWriteMessageHeaderIndInv ==
    ASSUME IndInv, TypeOK', postWriteMessageHeader
    PROVE  IndInv'
<1> USE DEF IndInv
<1>1. Completes("header")
  BY DEF postWriteMessageHeader
<1>2. /\ Tail(writes) = <<>>
      /\ popped \in 0 .. MaxMessages /\ popped + 1 \in 1 .. MaxMessages
      /\ popped < pushed /\ ~QueueEmpty /\ sendingInProgress
      /\ wire = Append(Frames[popped], Header(popped + 1))
  BY <1>1, CompletesFront
<1>3. /\ out' = FALSE
      /\ UNCHANGED <<socket, pushed, overlooked, sendingInProgress, wire, reading, broken>>
  BY <1>2 DEF postWriteMessageHeader
<1>4. pc[Io] = "idle" /\ ~broken /\ Io \in Thread
  BY <1>1 DEF Completes, At, Thread
<1>5. NewInv'
  BY <1>2, <1>3 DEF NewInv
<1>6. CASE popped + 1 \notin EmptyBody
  <2>1. writes' = <<Body(popped + 1)>> /\ popped' = popped /\ pc' = pc
    BY <1>2, <1>6, OneElement DEF postWriteMessageHeader
  <2>2. ChainInv'
    BY <1>2, <1>3, <1>4, <2>1 DEF ChainInv, InChain
  <2>3. WireInv'
    BY <1>2, <1>3, <1>6, <2>1 DEF WireInv, HeaderOut
  <2>4. ServedInv'
    BY <1>2, <1>3, <1>4, <2>1, OneElement DEF ServedInv
  <2> QED
    BY <1>5, <2>2, <2>3, <2>4
<1>7. CASE popped + 1 \in EmptyBody
  <2>1. writes' = <<>> /\ popped' = popped + 1 /\ pc' = [pc EXCEPT ![Io] = "more"]
    BY <1>2, <1>7 DEF postWriteMessageHeader, pop, Goto
  <2>2. pc'[Io] = "more" /\ \A t \in Thread : t # Io => pc'[t] = pc[t]
    BY <1>4, <2>1 DEF TypeOK
  <2>3. ChainInv'
    BY <1>2, <1>3, <2>1, <2>2 DEF ChainInv, InChain, Thread
  <2>4. WireInv'
    <3>1. wire' = Frames[popped']
      BY <1>2, <1>3, <1>7, <2>1, AppendFrame
    <3>2. writes' # <<Body(popped' + 1)>> /\ ~out'
      BY <1>3, <2>1
    <3> QED
      BY <3>1, <3>2 DEF WireInv
  <2>5. EmptyBodyLast'
    <3>1. Frames[popped] \in Seq(Part) /\ Header(popped + 1) \in Part
      BY <1>2, FramesDef, PartType
    <3>2. wire' # <<>> /\ wire'[Len(wire')] = Header(popped + 1)
      BY <1>2, <1>3, <3>1, AppendProperties
    <3>3. Last(wire)' = Header(popped + 1)
      BY <3>2 DEF Last
    <3> QED
      BY <1>7, <3>2, <3>3, PartsDiffer DEF EmptyBodyLast
  <2>6. ServedInv'
    BY <1>2, <1>3, <2>2, <2>5 DEF ServedInv, InChain
  <2> QED
    BY <1>5, <2>3, <2>4, <2>6
<1> QED
  BY <1>6, <1>7

LEMMA postWriteMessageBodyIndInv ==
    ASSUME IndInv, TypeOK', postWriteMessageBody
    PROVE  IndInv'
<1> USE DEF IndInv
<1>1. Completes("body")
  BY DEF postWriteMessageBody
<1>2. /\ Tail(writes) = <<>>
      /\ popped \in 0 .. MaxMessages /\ popped + 1 \in 1 .. MaxMessages
      /\ popped < pushed /\ ~QueueEmpty /\ sendingInProgress
      /\ wire = Frames[popped + 1]
  BY <1>1, CompletesFront
<1>3. /\ out' = FALSE
      /\ writes' = <<>> /\ popped' = popped + 1 /\ pc' = [pc EXCEPT ![Io] = "empty"]
      /\ UNCHANGED <<socket, pushed, overlooked, sendingInProgress, wire, reading, broken>>
  BY <1>2 DEF postWriteMessageBody, pop, Goto
<1>4. pc[Io] = "idle" /\ ~broken /\ Io \in Thread
  BY <1>1 DEF Completes, At, Thread
<1>5. pc'[Io] = "empty" /\ \A t \in Thread : t # Io => pc'[t] = pc[t]
  BY <1>3, <1>4 DEF TypeOK
<1>6. ChainInv'
  BY <1>2, <1>3, <1>5 DEF ChainInv, InChain, Thread
<1>7. WireInv'
  <2>1. writes' # <<Body(popped' + 1)>> /\ writes' # <<Header(popped' + 1)>>
    BY <1>3
  <2> QED
    BY <1>2, <1>3, <2>1 DEF WireInv
<1>8. ServedInv'
  BY <1>2, <1>3, <1>5 DEF ServedInv, InChain
<1>9. NewInv'
  BY <1>2, <1>3 DEF NewInv
<1> QED
  BY <1>6, <1>7, <1>8, <1>9

\* After a message was popped: the next header, or nothing more.
LEMMA MoreIndInv ==
    ASSUME IndInv, TypeOK', moreAfterEmptyBody \/ moreMessages
    PROVE  IndInv'
<1> USE DEF IndInv
<1>1. /\ ~broken /\ pc[Io] \in {"more", "empty"} /\ Io \in Thread
      /\ UNCHANGED <<socket, queueVars, sendingInProgress, out, wire, reading, broken>>
  BY DEF moreAfterEmptyBody, moreMessages, At, Thread
<1>2. writes = <<>> /\ ~out /\ sendingInProgress /\ InChain
  BY <1>1 DEF ChainInv, InChain
<1>3. PICK to \in {"idle", "clear"} :
        /\ pc' = [pc EXCEPT ![Io] = to]
        /\ to = "clear" => pc[Io] = "empty"
        /\ \/ QueueEmpty /\ writes' = <<>> /\ (to = "clear" \/ pc[Io] = "more")
           \/ ~QueueEmpty /\ writes' = <<Header(popped + 1)>> /\ to = "idle"
  BY <1>1, <1>2, OneElement
     DEF moreAfterEmptyBody, moreMessages, MoreMessages, writeMessageHeader, Goto, At
<1>4. pc'[Io] = to /\ \A t \in Thread : t # Io => pc'[t] = pc[t]
  BY <1>1, <1>3 DEF TypeOK
<1>5. QueueEmpty' = QueueEmpty /\ EmptyBodyLast' = EmptyBodyLast
  BY <1>1 DEF QueueEmpty, EmptyBodyLast, queueVars
<1>6. ~QueueEmpty => popped < pushed
  BY MaxMessagesType DEF QueueEmpty, TypeOK
<1>7. ChainInv'
  <2>1. \A th \in Sender : pc'[th] = "start" => pc[th] = "start"
    BY <1>3, <1>4 DEF Thread
  <2> QED
    BY <1>1, <1>2, <1>3, <1>4, <1>6, <2>1 DEF ChainInv, InChain, queueVars
<1>8. WireInv'
  <2>1. writes # <<Body(popped + 1)>> /\ writes' # <<Body(popped' + 1)>>
    BY <1>1, <1>2, <1>3, PartsDiffer DEF queueVars
  <2> QED
    BY <1>1, <1>2, <2>1 DEF WireInv, HeaderOut, queueVars
<1>9. ServedInv'
  BY <1>1, <1>2, <1>3, <1>4, <1>5, OneElement DEF ServedInv, InChain, queueVars
<1>10. NewInv'
  BY <1>1, <1>2 DEF NewInv, queueVars, InChain
<1> QED
  BY <1>7, <1>8, <1>9, <1>10

LEMMA clearSendingIndInv ==
    ASSUME IndInv, TypeOK', clearSending
    PROVE  IndInv'
<1> USE DEF IndInv, clearSending, queueVars, At, Goto, lowerFlag
<1>1. writes = <<>> /\ Io \in Thread
  BY DEF ChainInv, InChain, Thread
<1>2. pc'[Io] = "idle" /\ \A t \in Thread : t # Io => pc'[t] = pc[t]
  BY <1>1 DEF TypeOK
<1>3. ChainInv'
  BY <1>1, <1>2 DEF ChainInv, InChain, Thread
<1>4. WireInv'
  BY DEF WireInv, HeaderOut
<1>5. ServedInv'
  <2>1. QueueEmpty' = QueueEmpty
    BY DEF QueueEmpty
  <2> QED
    BY <1>2, <2>1 DEF ServedInv
<1>6. NewInv'
  BY <1>1 DEF NewInv
<1> QED
  BY <1>3, <1>4, <1>5, <1>6

LEMMA writeFailsIndInv ==
    ASSUME IndInv, TypeOK', writeFails
    PROVE  IndInv'
<1> USE DEF IndInv, writeFails, queueVars, At, Goto
<1>1. writes' = <<>> /\ ~out' /\ sendingInProgress /\ Io \in Thread
  BY OneElement DEF ChainInv, Thread
<1>2. pc'[Io] = "clear" /\ \A t \in Thread : t # Io => pc'[t] = pc[t]
  BY <1>1 DEF TypeOK
<1>3. ChainInv'
  BY <1>1, <1>2 DEF ChainInv, InChain, Thread
<1>4. WireInv'
  <2>1. writes' # <<Body(popped' + 1)>>
    BY <1>1
  <2> QED
    BY <1>1, <2>1 DEF WireInv, HeaderOut
<1>5. ServedInv'
  BY <1>2 DEF ServedInv
<1>6. NewInv'
  BY DEF NewInv
<1> QED
  BY <1>3, <1>4, <1>5, <1>6

\* One lemma per action that disturbs the invariant, put together.
LEMMA NextIndInv == OneSender /\ IndInv /\ [Next]_vars => IndInv'
<1> SUFFICES ASSUME OneSender, IndInv, [Next]_vars
             PROVE  IndInv'
  OBVIOUS
<1>1. TypeOK'
  BY NextTypeOK DEF IndInv
<1>2. CASE connect \/ closeSocket \/ readCompletes \/ postReadMessageHeader \/ badHeader
             \/ postReadMessageBody \/ readFails \/ startReading
  <2>1. /\ UNCHANGED <<queueVars, writeVars, pc, broken>>
        /\ socket' \in {"open", "closed"}
        /\ socket' = "open" => socket \in {"new", "open"}
    <3>1. /\ socket \in {"new", "open", "closed"}
          /\ reading # "none" => socket # "new"
      BY DEF IndInv, TypeOK, NewInv
    <3> QED
      BY <1>2, <3>1 DEF connect, closeSocket, readCompletes, postReadMessageHeader, badHeader,
                        postReadMessageBody, readFails, startReading
  <2> QED
    BY <1>1, <2>1, SocketIndInv
<1>3. CASE \E th \in Sender : sendMessage(th) \/ checkSending(th) \/ startSending(th)
  BY <1>1, <1>3, sendMessageIndInv, checkSendingIndInv, startSendingIndInv
<1>4. CASE Completion
  BY <1>1, <1>4, postWriteMessageHeaderIndInv, MoreIndInv, postWriteMessageBodyIndInv,
     clearSendingIndInv, writeFailsIndInv DEF Completion
<1>5. CASE UNCHANGED vars
  BY <1>1, <1>5 DEF vars, queueVars, writeVars, IndInv, ChainInv, InChain, WireInv,
                    HeaderOut, ServedInv, EmptyBodyLast, QueueEmpty, NewInv
<1>6. CASE writeCompletes
  BY <1>1, <1>6, writeCompletesIndInv
<1> QED
  BY <1>2, <1>3, <1>4, <1>5, <1>6 DEF Next

\* With one sender the chain of writes, the queue and the socket agree, whatever fails.
THEOREM ConnectionInductive == ASSUME OneSender PROVE Spec => []IndInv
  BY OneSender, InitIndInv, NextIndInv, PTL DEF Spec

----------------------------------------------------------------------------
(* One sender: the theorems.                                               *)

\* The peer receives the messages whole, in order and each once, and a message
\* leaves the queue only when the peer has it.
THEOREM FramesStayIntact == ASSUME OneSender PROVE Spec => []FramesIntact
<1>1. IndInv => FramesIntact
  <2> SUFFICES ASSUME IndInv PROVE FramesIntact
    OBVIOUS
  <2>1. /\ popped \in 0 .. MaxMessages /\ pushed \in popped .. MaxMessages
        /\ popped \in popped .. MaxMessages
    BY MaxMessagesType DEF IndInv, TypeOK
  <2>2. IsPrefix(Frames[popped], Frames[pushed]) /\ IsPrefix(Frames[popped], Frames[popped])
    BY <2>1, FramesGrow
  <2>3. CASE wire = Frames[popped]
    BY <2>2, <2>3 DEF FramesIntact
  <2>4. CASE wire # Frames[popped]
    <3> DEFINE f == Frames[popped]
               g == Frames[popped + 1]
               h == Header(popped + 1)
    <3>1. popped < pushed /\ (wire = Append(f, h) \/ wire = g)
      BY <2>4 DEF IndInv, WireInv, ChainInv, HeaderOut
    <3>2. popped + 1 \in 1 .. MaxMessages /\ popped + 1 \in popped .. MaxMessages
          /\ popped + 1 \in 0 .. MaxMessages /\ pushed \in (popped + 1) .. MaxMessages
      BY <2>1, <3>1, MaxMessagesType
    <3>3. f \in Seq(Part) /\ h \in Part /\ Body(popped + 1) \in Part
      BY <2>1, <3>2, FramesDef, PartType
    <3>4. g \in Seq(Part) /\ Frames[pushed] \in Seq(Part)
      BY <2>1, <3>2, FramesDef
    <3>5. IsPrefix(f, g) /\ IsPrefix(g, g) /\ IsPrefix(g, Frames[pushed])
      BY <2>1, <3>2, FramesGrow
    <3>6. Append(f, h) \in Seq(Part) /\ IsPrefix(f, Append(f, h)) /\ IsPrefix(Append(f, h), g)
      <4>1. Append(f, h) \in Seq(Part) /\ IsPrefix(f, Append(f, h))
        BY <3>3, AppendPrefix
      <4>2. g = Append(f, h) \/ g = Append(Append(f, h), Body(popped + 1))
        BY <2>1, <3>2, AppendFrame
      <4> QED
        BY <3>3, <3>5, <4>1, <4>2, AppendPrefix
    <3>7. wire \in Seq(Part) /\ IsPrefix(f, wire) /\ IsPrefix(wire, g)
      BY <3>1, <3>4, <3>5, <3>6
    <3>8. IsPrefix(wire, Frames[pushed])
      BY <3>4, <3>5, <3>7, PrefixTransitive
    <3> QED
      BY <3>7, <3>8 DEF FramesIntact
  <2> QED
    BY <2>3, <2>4
<1> QED
  BY <1>1, ConnectionInductive, PTL

\* Queued messages are being written whenever no thread is in the connection's
\* code, with the two exceptions that QueueIsServed names.
THEOREM QueueStaysServed == ASSUME OneSender PROVE Spec => []QueueIsServed
<1>1. IndInv => QueueIsServed
  <2> SUFFICES ASSUME IndInv, socket = "open", ~QueueEmpty, ~broken,
                      \A th \in Thread : pc[th] = "idle", writes = <<>>
               PROVE  EmptyBodyLast \/ overlooked = pushed
    BY DEF QueueIsServed, EmptyBodyLast
  <2>1. pc[Io] = "idle" /\ \A th \in Sender : pc[th] = "idle"
    BY DEF Thread
  <2> QED
    BY <2>1 DEF IndInv, ServedInv, InChain
<1> QED
  BY <1>1, ConnectionInductive, PTL

\* One thread that sends makes one chain of writes.
THEOREM OneChainOfWrites == ASSUME OneSender PROVE Spec => []OneSendingThread
<1>1. IndInv => OneSendingThread
  <2> SUFFICES ASSUME IndInv PROVE Len(writes) <= 1
    BY DEF OneSendingThread
  <2>1. CASE writes = <<>>
    BY <2>1
  <2>2. CASE writes # <<>>
    <3>1. PICK x : writes = <<x>>
      BY <2>2 DEF IndInv, ChainInv
    <3> QED
      BY <3>1
  <2> QED
    BY <2>1, <2>2
<1> QED
  BY <1>1, ConnectionInductive, PTL

\* The messages that were delivered have left the queue, but for the front when
\* all of it is written and the handler has not run.
FrontDelivered ==
    /\ out
    /\ \/ writes = <<Body(popped + 1)>>
       \/ writes = <<Header(popped + 1)>> /\ popped + 1 \in EmptyBody
DeliveredInv ==
    /\ Delivered \in Seq(Nat)
    /\ Len(Delivered) = IF FrontDelivered THEN popped + 1 ELSE popped

LEMMA DeliveredStep ==
    ASSUME IndInv, DeliveredInv, Next
    PROVE  /\ DeliveredInv'
           /\ \/ Delivered' = Delivered
              \/ /\ socket = "open" /\ Len(Delivered) < pushed
                 /\ Delivered' = Append(Delivered, Len(Delivered) + 1)
                 /\ UNCHANGED <<socket, pushed>>
<1>1. wire \in Seq(Part)
  BY DEF IndInv, TypeOK
<1>2. CASE writeCompletes
  <2>1. /\ ~broken /\ socket = "open" /\ writes # <<>> /\ ~out /\ out'
        /\ wire' = Append(wire, Head(writes)) /\ UNCHANGED <<socket, pushed, popped, writes>>
    BY <1>2 DEF writeCompletes, queueVars
  <2>2. /\ popped \in Nat /\ popped + 1 \in 1 .. MaxMessages /\ popped < pushed
        /\ \/ writes = <<Header(popped + 1)>> /\ Head(writes) = Header(popped + 1)
           \/ writes = <<Body(popped + 1)>> /\ Head(writes) = Body(popped + 1)
    BY <2>1, WritesFront
  <2>3. Len(Delivered) = popped /\ Delivered \in Seq(Nat)
    BY <2>1 DEF DeliveredInv, FrontDelivered
  <2>4. Header(popped + 1) \in Part /\ Body(popped + 1) \in Part
    BY <2>2, PartType
  <2>5. CASE writes = <<Header(popped + 1)>> /\ popped + 1 \notin EmptyBody
    <3>1. Head(writes) = Header(popped + 1) /\ writes # <<Body(popped + 1)>>
      BY <2>5, PartsDiffer, OneElement
    <3>2. ~Completing(Header(popped + 1))
      BY <2>5, PartsDiffer DEF Completing
    <3>3. Delivered' = Delivered
      BY <1>1, <2>1, <2>4, <3>1, <3>2, CompletedAppend DEF Delivered
    <3>4. ~FrontDelivered'
      BY <2>1, <2>5, <3>1 DEF FrontDelivered
    <3> QED
      BY <2>1, <2>3, <3>3, <3>4 DEF DeliveredInv
  <2>6. CASE ~(writes = <<Header(popped + 1)>> /\ popped + 1 \notin EmptyBody)
    <3>1. /\ Head(writes) \in Part /\ Completing(Head(writes))
          /\ Head(writes).of = popped + 1
      BY <2>2, <2>4, <2>6, PartsDiffer DEF Completing
    <3>2. Delivered' = Append(Delivered, popped + 1)
      BY <1>1, <2>1, <3>1, CompletedAppend DEF Delivered
    <3>3. FrontDelivered'
      BY <2>1, <2>2, <2>6 DEF FrontDelivered
    <3>4. Append(Delivered, popped + 1) \in Seq(Nat)
          /\ Len(Append(Delivered, popped + 1)) = popped + 1
      BY <2>2, <2>3, AppendProperties
    <3>5. DeliveredInv'
      BY <2>1, <3>2, <3>3, <3>4 DEF DeliveredInv
    <3> QED
      BY <2>1, <2>2, <2>3, <3>2, <3>5
  <2> QED
    BY <2>5, <2>6
<1>3. ASSUME UNCHANGED wire, FrontDelivered' = FALSE, Len(Delivered) = popped'
      PROVE  DeliveredInv' /\ Delivered' = Delivered
  BY <1>3 DEF DeliveredInv, Delivered
<1>4. CASE postWriteMessageHeader
  <2>1. Completes("header")
    BY <1>4 DEF postWriteMessageHeader
  <2>2. ~QueueEmpty /\ out /\ writes = <<Header(popped + 1)>>
    BY <2>1, CompletesFront
  <2>3. wire' = wire /\ ~out' /\ popped' = IF popped + 1 \in EmptyBody THEN popped + 1 ELSE popped
    BY <1>4, <2>2 DEF postWriteMessageHeader, pop
  <2>4. FrontDelivered <=> popped + 1 \in EmptyBody
    <3>1. writes # <<Body(popped + 1)>>
      BY <2>2, PartsDiffer
    <3> QED
      BY <2>2, <3>1 DEF FrontDelivered
  <2>5. Len(Delivered) = popped'
    BY <2>3, <2>4 DEF DeliveredInv
  <2> QED
    BY <1>3, <2>3, <2>5 DEF FrontDelivered
<1>5. CASE postWriteMessageBody
  <2>1. Completes("body")
    BY <1>5 DEF postWriteMessageBody
  <2>2. ~QueueEmpty /\ out /\ writes = <<Body(popped + 1)>>
    BY <2>1, CompletesFront
  <2>3. wire' = wire /\ ~out' /\ popped' = popped + 1
    BY <1>5, <2>2 DEF postWriteMessageBody, pop
  <2> QED
    BY <1>3, <2>2, <2>3 DEF FrontDelivered, DeliveredInv
<1>6. CASE ~writeCompletes /\ ~postWriteMessageHeader /\ ~postWriteMessageBody
  <2>1. /\ UNCHANGED <<wire, popped, out>>
        /\ \/ UNCHANGED writes
           \/ writeFails \/ moreAfterEmptyBody \/ moreMessages
           \/ \E th \in Sender : startSending(th)
    BY <1>6 DEF Next, Completion, connect, startReading, closeSocket, sendMessage,
       checkSending, startSending, moreAfterEmptyBody, moreMessages, clearSending, writeFails,
       readCompletes, postReadMessageHeader, badHeader, postReadMessageBody, readFails,
       queueVars, writeVars
  <2>2. UNCHANGED writes \/ ~out
    <3>1. writeFails => ~out
      BY DEF writeFails
    <3>2. moreAfterEmptyBody \/ moreMessages => ~out
      BY DEF moreAfterEmptyBody, moreMessages, At, IndInv, ChainInv, InChain
    <3>3. ASSUME NEW th \in Sender, startSending(th) PROVE ~out
      BY <3>3 DEF startSending, At, IndInv, ChainInv
    <3> QED
      BY <2>1, <3>1, <3>2, <3>3
  <2>3. FrontDelivered' = FrontDelivered
    BY <2>1, <2>2 DEF FrontDelivered
  <2> QED
    BY <2>1, <2>3 DEF DeliveredInv, Delivered
<1> QED
  BY <1>2, <1>4, <1>5, <1>6

\* The connection implements MessageStream: every step opens or closes the
\* link, sends, delivers the next message, or is not visible.
THEOREM ConnectionImplementsStream == ASSUME OneSender PROVE Spec => ImplementsMessageStream
<1>1. Init => DeliveredInv /\ Stream!Init
  <2> SUFFICES ASSUME Init PROVE DeliveredInv /\ Stream!Init
    OBVIOUS
  <2>1. Delivered = <<>>
    <3>1. Completed(<<>>) = <<>>
      BY CompletedEmpty
    <3> QED
      BY <3>1 DEF Delivered, Init
  <2> QED
    BY <2>1 DEF DeliveredInv, FrontDelivered, Stream!Init, Init
<1>2. IndInv /\ DeliveredInv /\ [Next]_vars => DeliveredInv'
  <2>1. DeliveredInv /\ UNCHANGED vars => DeliveredInv'
    BY DEF vars, queueVars, writeVars, DeliveredInv, Delivered, FrontDelivered
  <2> QED
    BY <2>1, DeliveredStep
<1>3. IndInv /\ DeliveredInv /\ [Next]_vars => [Stream!Next]_(Stream!vars)
  <2> SUFFICES ASSUME IndInv, DeliveredInv, [Next]_vars
               PROVE  [Stream!Next]_(Stream!vars)
    OBVIOUS
  <2> USE DEF Stream!Next, Stream!vars
  <2>1. CASE UNCHANGED vars
    BY <2>1 DEF vars, queueVars, writeVars, Delivered
  <2>2. CASE Next /\ Delivered' # Delivered
    <3>1. /\ socket = "open" /\ Len(Delivered) < pushed
          /\ Delivered' = Append(Delivered, Len(Delivered) + 1)
          /\ UNCHANGED <<socket, pushed>>
      BY <2>2, DeliveredStep
    <3>2. Stream!Deliver
      BY <3>1 DEF Stream!Deliver
    <3> QED
      BY <3>2
  <2>3. CASE Next /\ Delivered' = Delivered
    <3>1. \/ UNCHANGED <<socket, pushed>>
          \/ socket = "new" /\ socket' = "open" /\ pushed' = pushed
          \/ socket \in {"open", "closed"} /\ socket' = "closed" /\ pushed' = pushed
          \/ socket # "new" /\ socket' = socket /\ pushed' = pushed + 1
      <4>1. writes # <<>> => socket # "new"
        BY MaxMessagesType DEF IndInv, NewInv, ChainInv, TypeOK
      <4>2. reading \in {"header", "body"} => socket # "new"
        BY DEF IndInv, NewInv
      <4>3. socket \in {"new", "open", "closed"}
        BY DEF IndInv, TypeOK
      <4> QED
        BY <2>3, <4>1, <4>2, <4>3 DEF Next, Completion, connect, startReading, closeSocket,
           sendMessage, checkSending, startSending, writeCompletes, postWriteMessageHeader,
           postWriteMessageBody, Undefined, moreAfterEmptyBody, moreMessages, clearSending,
           writeFails, readCompletes, postReadMessageHeader, badHeader, postReadMessageBody,
           readFails, queueVars, writeVars
    <3>2. Stream!Open \/ Stream!Close \/ Stream!Send \/ UNCHANGED Stream!vars
      BY <2>3, <3>1 DEF Stream!Open, Stream!Close, Stream!Send
    <3> QED
      BY <3>2
  <2> QED
    BY <2>1, <2>2, <2>3
<1> QED
  BY <1>1, <1>2, <1>3, ConnectionInductive, PTL DEF Spec, ImplementsMessageStream, Stream!Spec
============================================================================
