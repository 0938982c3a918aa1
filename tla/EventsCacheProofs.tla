------------------------- MODULE EventsCacheProofs -------------------------
(***************************************************************************)
(* Proofs about EventsCache: what the multimap keeps when a handler is     *)
(* emplaced, and that the loop over the handlers of a request visits each  *)
(* of them once, for all handlers and services and whatever is registered  *)
(* while it runs.                                                          *)
(***************************************************************************)
EXTENDS EventsCache, FiniteSetTheorems, SequenceTheorems, RecursionLemmas

----------------------------------------------------------------------------
(* The multimap.                                                           *)

\* The handlers are ordered by service, and none is there twice.
Ordered(s) ==
    /\ \A i, j \in DOMAIN s : i < j => Key[s[i]] <= Key[s[j]]
    /\ \A i, j \in DOMAIN s : s[i] = s[j] => i = j

\* The place of an iterator; end() is behind the last handler.
Place(s, x) == IF x = NoHandler THEN Len(s) + 1 ELSE CHOOSE i \in DOMAIN s : s[i] = x

\* A set of places that holds with each one those before it is an interval, and
\* its cardinality is the last of them.
LEMMA PrefixCount ==
    ASSUME NEW n \in Nat, NEW S \in SUBSET (1 .. n),
           \A i \in S : \A j \in 1 .. i : j \in S
    PROVE  Cardinality(S) \in 0 .. n /\ S = 1 .. Cardinality(S)
<1> DEFINE Rest == (1 .. n + 1) \ S
<1>1. PICK k \in Rest : \A y \in Rest : k <= y
  <2>1. Rest \in SUBSET Nat /\ n + 1 \in Rest
    OBVIOUS
  <2> QED
    BY <2>1, LeastNumber
<1>2. S = 1 .. k - 1
  <2>1. ASSUME NEW i \in S PROVE i \in 1 .. k - 1
    <3>1. i \in Nat /\ i >= 1
      OBVIOUS
    <3>2. k <= i => k \in 1 .. i
      OBVIOUS
    <3> QED
      BY <1>1, <3>1, <3>2
  <2>2. ASSUME NEW i \in 1 .. k - 1 PROVE i \in S
    BY <1>1
  <2> QED
    BY <2>1, <2>2
<1>3. Cardinality(1 .. k - 1) = k - 1
  <2>1. Cardinality(1 .. k - 1) = IF 1 > k - 1 THEN 0 ELSE (k - 1) - 1 + 1
    BY FS_Interval
  <2> QED
    BY <1>1, <2>1
<1> QED
  BY <1>1, <1>2, <1>3

\* The places up to the last handler of service k, and those below it.
LEMMA UpToMeaning ==
    ASSUME eventsCache \in Seq(Handler), Ordered(eventsCache),
           NEW k \in Int
    PROVE  /\ UpTo(k) \in 0 .. Len(eventsCache)
           /\ \A i \in DOMAIN eventsCache : Key[eventsCache[i]] <= k <=> i <= UpTo(k)
<1> DEFINE n == Len(eventsCache)
           S == {i \in DOMAIN eventsCache : Key[eventsCache[i]] <= k}
<1>1. n \in Nat /\ DOMAIN eventsCache = 1 .. n
  BY LenProperties
<1>2. \A i \in 1 .. n : Key[eventsCache[i]] \in Int
  BY <1>1, ElementOfSeq, HandlerAssumption
<1>3. S \in SUBSET (1 .. n)
  BY <1>1
<1>4. ASSUME NEW i \in S, NEW j \in 1 .. i PROVE j \in S
  <2>1. i \in 1 .. n /\ j \in 1 .. n /\ (j = i \/ j < i)
    BY <1>1
  <2> QED
    BY <1>1, <1>2, <2>1 DEF Ordered
<1>5. Cardinality(S) \in 0 .. n /\ S = 1 .. Cardinality(S)
  <2> HIDE DEF S, n
  <2> QED
    BY <1>1, <1>3, <1>4, PrefixCount
<1>6. UpTo(k) = Cardinality(S)
  BY DEF UpTo
<1>7. \A i \in 1 .. n : i \in S <=> i \in 1 .. UpTo(k)
  BY <1>5, <1>6
<1> QED
  BY <1>1, <1>5, <1>6, <1>7

\* Likewise for the handlers of earlier services.
LEMMA BelowMeaning ==
    ASSUME eventsCache \in Seq(Handler), Ordered(eventsCache),
           NEW k \in Int
    PROVE  /\ Below(k) \in 0 .. Len(eventsCache)
           /\ \A i \in DOMAIN eventsCache : Key[eventsCache[i]] < k <=> i <= Below(k)
<1> DEFINE n == Len(eventsCache)
           S == {i \in DOMAIN eventsCache : Key[eventsCache[i]] < k}
<1>1. n \in Nat /\ DOMAIN eventsCache = 1 .. n
  BY LenProperties
<1>2. \A i \in 1 .. n : Key[eventsCache[i]] \in Int
  BY <1>1, ElementOfSeq, HandlerAssumption
<1>3. S \in SUBSET (1 .. n)
  BY <1>1
<1>4. ASSUME NEW i \in S, NEW j \in 1 .. i PROVE j \in S
  <2>1. i \in 1 .. n /\ j \in 1 .. n /\ (j = i \/ j < i)
    BY <1>1
  <2> QED
    BY <1>1, <1>2, <2>1 DEF Ordered
<1>5. Cardinality(S) \in 0 .. n /\ S = 1 .. Cardinality(S)
  <2> HIDE DEF S, n
  <2> QED
    BY <1>1, <1>3, <1>4, PrefixCount
<1>6. Below(k) = Cardinality(S)
  BY DEF Below
<1>7. \A i \in 1 .. n : i \in S <=> i \in 1 .. Below(k)
  BY <1>5, <1>6
<1> QED
  BY <1>1, <1>5, <1>6, <1>7

\* What an insertion at place k does to the other places.
LEMMA InsertAtProperties ==
    ASSUME NEW S, NEW s \in Seq(S), NEW k \in 1 .. Len(s) + 1, NEW e \in S
    PROVE  /\ InsertAt(s, k, e) \in Seq(S)
           /\ Len(InsertAt(s, k, e)) = Len(s) + 1
           /\ \A j \in 1 .. k - 1 : InsertAt(s, k, e)[j] = s[j]
           /\ InsertAt(s, k, e)[k] = e
           /\ \A j \in k .. Len(s) : InsertAt(s, k, e)[j + 1] = s[j]
<1> DEFINE n == Len(s)
           a == SubSeq(s, 1, k - 1)
           b == SubSeq(s, k, n)
           c == a \o <<e>>
<1>1. n \in Nat /\ \A i \in 1 .. n : s[i] \in S
  BY ElementOfSeq, LenProperties
<1>2. a \in Seq(S) /\ Len(a) = k - 1 /\ \A i \in 1 .. k - 1 : a[i] = s[i]
  <2>1. 1 \in Int /\ k - 1 \in Int /\ \A i \in 1 .. k - 1 : s[i] \in S
    BY <1>1
  <2>2. /\ a \in Seq(S)
        /\ Len(a) = IF 1 <= k - 1 THEN (k - 1) - 1 + 1 ELSE 0
        /\ \A i \in 1 .. (k - 1) - 1 + 1 : a[i] = s[1 + i - 1]
    BY <2>1, SubSeqProperties
  <2>3. \A i \in 1 .. k - 1 : i \in 1 .. (k - 1) - 1 + 1 /\ 1 + i - 1 = i
    OBVIOUS
  <2> HIDE DEF a
  <2> QED
    BY <1>1, <2>2, <2>3
<1>3. b \in Seq(S) /\ Len(b) = n - k + 1 /\ \A j \in k .. n : b[j - k + 1] = s[j]
  <2>1. n \in Int /\ k \in Int /\ \A i \in k .. n : s[i] \in S
    BY <1>1
  <2>2. /\ b \in Seq(S)
        /\ Len(b) = IF k <= n THEN n - k + 1 ELSE 0
        /\ \A i \in 1 .. n - k + 1 : b[i] = s[k + i - 1]
    BY <2>1, SubSeqProperties
  <2>3. \A j \in k .. n : j - k + 1 \in 1 .. n - k + 1 /\ k + (j - k + 1) - 1 = j
    BY <1>1
  <2> HIDE DEF b
  <2> QED
    BY <1>1, <2>2, <2>3
<1>4. <<e>> \in Seq(S) /\ Len(<<e>>) = 1 /\ <<e>>[1] = e
  OBVIOUS
<1> HIDE DEF a, b
<1>5. /\ c \in Seq(S) /\ Len(c) = k
      /\ \A i \in 1 .. k : c[i] = IF i <= k - 1 THEN a[i] ELSE <<e>>[i - (k - 1)]
  BY <1>2, <1>4, ConcatProperties
<1>6. (\A i \in 1 .. k - 1 : c[i] = s[i]) /\ c[k] = e
  BY <1>2, <1>4, <1>5
<1> HIDE DEF c
<1>7. /\ c \o b \in Seq(S) /\ Len(c \o b) = k + (n - k + 1)
      /\ \A i \in 1 .. k + (n - k + 1) : (c \o b)[i] = IF i <= k THEN c[i] ELSE b[i - k]
  BY <1>3, <1>5, ConcatProperties
<1>8. InsertAt(s, k, e) = c \o b
  BY DEF InsertAt, a, b, c
<1>9. \A j \in 1 .. k : (c \o b)[j] = c[j]
  BY <1>1, <1>7
<1>10. ASSUME NEW j \in k .. n
       PROVE  (c \o b)[j + 1] = s[j]
  <2>1. j + 1 \in 1 .. k + (n - k + 1) /\ ~(j + 1 <= k) /\ (j + 1) - k = j - k + 1
    BY <1>1
  <2> QED
    BY <1>3, <1>7, <2>1
<1>11. Len(c \o b) = n + 1 /\ k \in 1 .. k /\ \A j \in 1 .. k - 1 : j \in 1 .. k
  BY <1>1, <1>7
<1>12. (\A j \in 1 .. k - 1 : (c \o b)[j] = s[j]) /\ (c \o b)[k] = e
  BY <1>6, <1>9, <1>11
<1> QED
  BY <1>7, <1>8, <1>10, <1>11, <1>12

\* The place of a handler that is there.
LEMMA PlaceMeaning ==
    ASSUME NEW s \in Seq(Handler), Ordered(s)
    PROVE  /\ \A i \in 1 .. Len(s) : s[i] # NoHandler /\ Place(s, s[i]) = i
           /\ \A x \in Range(s) : /\ x # NoHandler /\ x \in Handler
                                  /\ Place(s, x) \in 1 .. Len(s)
                                  /\ s[Place(s, x)] = x
           /\ Place(s, NoHandler) = Len(s) + 1
<1>1. DOMAIN s = 1 .. Len(s) /\ \A i \in 1 .. Len(s) : s[i] \in Handler
  BY LenProperties, ElementOfSeq
<1>2. \A i \in 1 .. Len(s) : s[i] # NoHandler /\ Place(s, s[i]) = i
  BY <1>1, HandlerAssumption DEF Ordered, Place
<1>3. \A x \in Range(s) : \E i \in 1 .. Len(s) : x = s[i]
  BY <1>1 DEF Range
<1>4. Place(s, NoHandler) = Len(s) + 1
  BY DEF Place
<1> QED
  BY <1>1, <1>2, <1>3, <1>4

\* emplace keeps the multimap ordered, adds the handler, and leaves every two
\* iterators in the order they were in.
LEMMA EmplacedKeeps ==
    ASSUME eventsCache \in Seq(Handler), Ordered(eventsCache),
           NEW h \in Handler, h \notin Range(eventsCache), NEW f, f = Emplaced(h)
    PROVE  /\ f \in Seq(Handler)
           /\ Ordered(f)
           /\ Range(f) = Range(eventsCache) \cup {h}
           /\ \A x, y \in Range(eventsCache) \cup {NoHandler} :
                 Place(f, x) < Place(f, y) <=> Place(eventsCache, x) < Place(eventsCache, y)
<1> DEFINE e == eventsCache
           n == Len(e)
<1>1. n \in Nat /\ DOMAIN e = 1 .. n /\ \A i \in 1 .. n : e[i] \in Handler
  BY LenProperties, ElementOfSeq
<1>2. Key[h] \in Int /\ \A i \in 1 .. n : Key[e[i]] \in Int
  BY <1>1, HandlerAssumption
<1>0. PICK k : k = UpTo(Key[h]) + 1
  OBVIOUS
<1>3. k \in 1 .. n + 1 /\ \A i \in 1 .. n : Key[e[i]] <= Key[h] <=> i < k
  <2>1. /\ UpTo(Key[h]) \in 0 .. n
        /\ \A i \in 1 .. n : Key[e[i]] <= Key[h] <=> i <= UpTo(Key[h])
    BY <1>1, <1>2, UpToMeaning
  <2> QED
    BY <1>0, <1>1, <2>1
<1>4. /\ f \in Seq(Handler) /\ Len(f) = n + 1
      /\ \A j \in 1 .. k - 1 : f[j] = e[j]
      /\ f[k] = h
      /\ \A j \in k .. n : f[j + 1] = e[j]
  <2>1. eventsCache \in Seq(Handler) /\ k \in 1 .. Len(eventsCache) + 1
    BY <1>3
  <2>2. f = InsertAt(eventsCache, k, h)
    BY <1>0 DEF Emplaced
  <2> QED
    BY <2>1, <2>2, InsertAtProperties
<1>5. DOMAIN f = 1 .. n + 1
  BY <1>4, LenProperties
<1>6. \A i \in 1 .. n : e[i] # h
  BY <1>1 DEF Range
<1> HIDE DEF n, e
\* Where the handlers of f come from.
<1>7. \A j \in 1 .. n + 1 : \/ j < k /\ j \in 1 .. n /\ f[j] = e[j]
                            \/ j = k /\ f[j] = h
                            \/ j > k /\ j - 1 \in 1 .. n /\ f[j] = e[j - 1]
  <2> SUFFICES ASSUME NEW j \in 1 .. n + 1
               PROVE  \/ j < k /\ j \in 1 .. n /\ f[j] = e[j]
                      \/ j = k /\ f[j] = h
                      \/ j > k /\ j - 1 \in 1 .. n /\ f[j] = e[j - 1]
    OBVIOUS
  <2>1. CASE j < k
    BY <1>1, <1>3, <1>4, <2>1
  <2>2. CASE j = k
    BY <1>4, <2>2
  <2>3. CASE j > k
    <3>1. j - 1 \in k .. n /\ (j - 1) + 1 = j /\ j - 1 \in 1 .. n
      BY <1>1, <1>3, <2>3
    <3> QED
      BY <1>4, <2>3, <3>1
  <2> QED
    BY <1>1, <1>3, <2>1, <2>2, <2>3
<1>8. Ordered(f)
  <2>1. \A i, j \in 1 .. n : i < j => Key[e[i]] <= Key[e[j]]
    BY <1>1 DEF Ordered, e
  <2>2. \A i, j \in 1 .. n : e[i] = e[j] => i = j
    BY <1>1 DEF Ordered, e
  <2>3. ASSUME NEW i \in 1 .. n + 1, NEW j \in 1 .. n + 1, i < j
        PROVE  Key[f[i]] <= Key[f[j]]
    <3>1. CASE j < k
      <4>1. f[i] = e[i] /\ f[j] = e[j] /\ i \in 1 .. n /\ j \in 1 .. n
        BY <1>3, <1>7, <2>3, <3>1
      <4> QED
        BY <2>1, <2>3, <4>1
    <3>2. CASE i > k
      <4>1. f[i] = e[i - 1] /\ f[j] = e[j - 1] /\ i - 1 \in 1 .. n /\ j - 1 \in 1 .. n
        BY <1>3, <1>7, <2>3, <3>2
      <4> QED
        BY <2>1, <2>3, <4>1
    <3>3. CASE i <= k /\ j >= k
      <4>1. Key[f[i]] \in Int /\ Key[f[i]] <= Key[h]
        BY <1>2, <1>3, <1>7, <3>3
      <4>2. Key[f[j]] \in Int /\ Key[h] <= Key[f[j]]
        <5>1. CASE j = k
          BY <1>2, <1>4, <5>1
        <5>2. CASE j > k
          <6>1. f[j] = e[j - 1] /\ j - 1 \in 1 .. n /\ ~(j - 1 < k)
            BY <1>3, <1>7, <5>2
          <6> QED
            BY <1>2, <1>3, <6>1
        <5> QED
          BY <1>3, <3>3, <5>1, <5>2
      <4> QED
        BY <1>2, <4>1, <4>2
    <3> QED
      BY <1>3, <3>1, <3>2, <3>3
  <2>4. ASSUME NEW i \in 1 .. n + 1, NEW j \in 1 .. n + 1, f[i] = f[j]
        PROVE  i = j
    BY <1>1, <1>3, <1>6, <1>7, <2>2, <2>4
  <2> QED
    BY <1>5, <2>3, <2>4 DEF Ordered
<1>9. \A i \in 1 .. n : /\ i < k => i \in 1 .. n + 1 /\ f[i] = e[i]
                        /\ i >= k => i + 1 \in 1 .. n + 1 /\ f[i + 1] = e[i]
  BY <1>1, <1>3, <1>4
<1>10. Range(f) = Range(e) \cup {h}
  <2>1. \A j \in 1 .. n + 1 : f[j] \in Range(e) \cup {h}
    BY <1>1, <1>7 DEF Range
  <2>2. h \in Range(f)
    BY <1>3, <1>4, <1>5 DEF Range
  <2>3. \A i \in 1 .. n : e[i] \in Range(f)
    <3> SUFFICES ASSUME NEW i \in 1 .. n
                 PROVE  \E j \in 1 .. n + 1 : f[j] = e[i]
      BY <1>5 DEF Range
    <3>1. CASE i < k
      BY <1>9, <3>1
    <3>2. CASE i >= k
      BY <1>9, <3>2
    <3> QED
      BY <1>3, <3>1, <3>2
  <2> QED
    BY <1>1, <1>5, <2>1, <2>2, <2>3 DEF Range
<1>11. \A x \in Range(e) \cup {NoHandler} :
         /\ Place(e, x) \in Nat
         /\ Place(f, x) = IF Place(e, x) < k THEN Place(e, x) ELSE Place(e, x) + 1
  <2>1. ASSUME NEW x \in Range(e)
        PROVE  /\ Place(e, x) \in Nat
               /\ Place(f, x) = IF Place(e, x) < k THEN Place(e, x) ELSE Place(e, x) + 1
    <3>1. PICK i \in 1 .. n : x = e[i]
      BY <1>1 DEF Range
    <3>2. Place(e, x) = i
      BY <3>1, PlaceMeaning DEF e, n
    <3>3. \A j \in 1 .. n + 1 : Place(f, f[j]) = j
      BY <1>4, <1>8, PlaceMeaning
    <3>4. CASE i < k
      BY <1>9, <3>1, <3>2, <3>3, <3>4
    <3>5. CASE i >= k
      BY <1>9, <3>1, <3>2, <3>3, <3>5
    <3> QED
      BY <1>3, <3>4, <3>5
  <2>2. Place(e, NoHandler) = n + 1 /\ Place(f, NoHandler) = n + 1 + 1
    BY <1>4 DEF Place, n
  <2>3. n + 1 >= k /\ n + 1 \in Nat
    BY <1>1, <1>3
  <2> QED
    BY <1>3, <2>1, <2>2, <2>3
<1>12. \A x, y \in Range(e) \cup {NoHandler} :
         Place(f, x) < Place(f, y) <=> Place(e, x) < Place(e, y)
  BY <1>3, <1>11
<1> QED
  BY <1>4, <1>8, <1>10, <1>12 DEF e

----------------------------------------------------------------------------
(* The loop.                                                               *)

Before(e, x, y) == Place(e, x) < Place(e, y)

\* The loop l has come past x.
Passed(e, l, x) == Before(e, x, l.it) \/ (l.stage = "next" /\ x = l.it)

\* The invariant of the loop l over the handlers e, which has run those in r of
\* the ones in k it found: it is inside its range, the range holds exactly the
\* handlers it found of the sender and of earlier services, and the handlers it
\* has run are those it has come past, in their order.
LoopInv(e, l, k, r) ==
    /\ k \subseteq Range(e)
    /\ l.it \in Range(e) \cup {NoHandler}
    /\ l.end \in Range(e) \cup {NoHandler}
    /\ Before(e, l.it, l.end) \/ (l.stage = "visit" /\ l.it = l.end)
    /\ l.it # NoHandler => Key[l.it] >= l.sender
    /\ \A h \in k : Key[h] <= l.sender <=> Before(e, h, l.end)
    /\ \A i, j \in DOMAIN r : i < j => Before(e, r[i], r[j])
    /\ \A h \in Range(r) : h \in Range(e) /\ Passed(e, l, h) /\ Key[h] >= l.sender
    /\ \A h \in k \cap Validating :
          Key[h] = l.sender /\ Passed(e, l, h) => h \in Range(r)

\* The inductive invariant.
EventsInv ==
    /\ EventsTypeOK
    /\ Ordered(eventsCache)
    /\ adding \notin Range(eventsCache)
    /\ IF loop = NoLoop THEN ran = <<>> ELSE LoopInv(eventsCache, loop, known, ran)

\* The steps of the two threads that use the cache.
EventsNext ==
    \/ \E h \in Handler : BeginAddEvent(h)
    \/ EndAddEvent
    \/ \E s \in Range(Key) : BeginLoop(s)
    \/ \E h \in Handler \cup {NoHandler} : Visit(h)
    \/ Advance
    \/ EndLoop

\* Another handler in the multimap, with the others in the order they were in.
LEMMA InsertionKeepsLoop ==
    ASSUME NEW e, NEW f, NEW l, NEW k, NEW r, LoopInv(e, l, k, r),
           Range(e) \subseteq Range(f),
           \A x, y \in Range(e) \cup {NoHandler} : Before(f, x, y) <=> Before(e, x, y)
    PROVE  LoopInv(f, l, k, r)
<1>1. \A h \in Range(e) : Passed(f, l, h) <=> Passed(e, l, h)
  BY DEF Passed, LoopInv
<1>2. \A i \in DOMAIN r : r[i] \in Range(e)
  BY DEF LoopInv, Range
<1> QED
  BY <1>1, <1>2 DEF LoopInv

\* The loop runs the handler it is at, or passes it by.
LEMMA VisitKeepsLoop ==
    ASSUME NEW e \in Seq(Handler), Ordered(e), NEW l \in Loop, NEW k,
           NEW r \in Seq(Handler), LoopInv(e, l, k, r), l.stage = "visit", l.it # l.end,
           NEW q, q = (IF Valid(l.it) THEN Append(r, l.it) ELSE r)
    PROVE  l.it \in Handler /\ LoopInv(e, [l EXCEPT !.stage = "next"], k, q)
<1> DEFINE m == [l EXCEPT !.stage = "next"]
<1>1. /\ m.stage = "next" /\ m.it = l.it /\ m.end = l.end /\ m.sender = l.sender
  BY DEF Loop
<1> HIDE DEF m
<1>2. Before(e, l.it, l.end)
  BY DEF LoopInv
<1>3. l.it \in Range(e) /\ l.it \in Handler
  <2>1. \A x \in Range(e) \cup {NoHandler} : Place(e, x) \in 1 .. Len(e) + 1
    BY PlaceMeaning, LenProperties
  <2>2. Place(e, NoHandler) = Len(e) + 1 /\ Len(e) \in Nat
    BY PlaceMeaning, LenProperties
  <2>3. l.it # NoHandler
    BY <1>2, <2>1, <2>2 DEF Before, LoopInv
  <2> QED
    BY <2>3, PlaceMeaning DEF LoopInv
<1>4. \A h : Passed(e, m, h) <=> Passed(e, l, h) \/ h = l.it
  BY <1>1 DEF Passed
<1>5. Key[l.it] >= l.sender
  BY <1>3, HandlerAssumption DEF LoopInv
<1>6. \A h \in Range(r) : Before(e, h, l.it)
  BY DEF LoopInv, Passed
<1>7. CASE ~Valid(l.it)
  <2>1. q = r /\ l.it \notin Validating
    BY <1>7 DEF Valid
  <2> QED
    BY <1>1, <1>2, <1>3, <1>4, <2>1 DEF LoopInv, m
<1>8. CASE Valid(l.it)
  <2>1. /\ q \in Seq(Handler) /\ Len(q) = Len(r) + 1 /\ q[Len(r) + 1] = l.it
        /\ \A i \in 1 .. Len(r) : q[i] = r[i]
    BY <1>3, <1>8, AppendProperties
  <2>2. Len(r) \in Nat /\ DOMAIN r = 1 .. Len(r) /\ DOMAIN q = 1 .. Len(r) + 1
    BY <2>1, LenProperties
  <2>3. \A i \in 1 .. Len(r) + 1 : i = Len(r) + 1 \/ i \in 1 .. Len(r)
    BY <2>2
  <2>4. Range(q) = Range(r) \cup {l.it}
    <3>1. \A i \in 1 .. Len(r) + 1 : q[i] \in Range(r) \cup {l.it}
      BY <2>1, <2>2, <2>3 DEF Range
    <3>2. \A i \in 1 .. Len(r) : r[i] \in Range(q)
      <4>1. \A i \in 1 .. Len(r) : i \in 1 .. Len(r) + 1
        BY <2>2
      <4> QED
        BY <2>1, <2>2, <4>1 DEF Range
    <3>3. l.it \in Range(q)
      <4>1. Len(r) + 1 \in 1 .. Len(r) + 1
        BY <2>2
      <4> QED
        BY <2>1, <2>2, <4>1 DEF Range
    <3> QED
      BY <2>2, <3>1, <3>2, <3>3 DEF Range
  <2>5. ASSUME NEW i \in DOMAIN q, NEW j \in DOMAIN q, i < j
        PROVE  Before(e, q[i], q[j])
    <3>1. i \in 1 .. Len(r) /\ q[i] = r[i] /\ r[i] \in Range(r)
      BY <2>1, <2>2, <2>5 DEF Range
    <3>2. CASE j = Len(r) + 1
      BY <1>6, <2>1, <3>1, <3>2
    <3>3. CASE j # Len(r) + 1
      <4>1. j \in 1 .. Len(r) /\ q[j] = r[j]
        BY <2>1, <2>2, <2>3, <3>3
      <4> QED
        BY <2>2, <2>5, <3>1, <4>1 DEF LoopInv
    <3> QED
      BY <3>2, <3>3
  <2> QED
    BY <1>1, <1>2, <1>3, <1>4, <1>5, <2>4, <2>5 DEF LoopInv, m
<1> QED
  BY <1>3, <1>7, <1>8

\* The iterator moves to the next place.
LEMMA AdvanceKeepsLoop ==
    ASSUME eventsCache \in Seq(Handler), Ordered(eventsCache), NEW l \in Loop, NEW k, NEW r,
           LoopInv(eventsCache, l, k, r), l.stage = "next"
    PROVE  /\ Successor(l.it) \in Handler \cup {NoHandler}
           /\ LoopInv(eventsCache,
                      [l EXCEPT !.stage = "visit", !.it = Successor(l.it)], k, r)
<1> DEFINE e == eventsCache
           n == Len(e)
           next == Successor(l.it)
           m == [l EXCEPT !.stage = "visit", !.it = next]
           p == Place(e, l.it)
<1>1. m.stage = "visit" /\ m.it = next /\ m.end = l.end /\ m.sender = l.sender
  BY DEF Loop
<1>2. n \in Nat /\ DOMAIN e = 1 .. n
  BY LenProperties
<1>3. /\ \A x \in Range(e) \cup {NoHandler} : Place(e, x) \in 1 .. n + 1
      /\ Place(e, NoHandler) = n + 1
      /\ \A x \in Range(e) : Place(e, x) \in 1 .. n /\ e[Place(e, x)] = x /\ x # NoHandler
      /\ \A i \in 1 .. n : Place(e, e[i]) = i /\ e[i] \in Range(e) /\ e[i] \in Handler
  <2>1. \A i \in 1 .. n : e[i] \in Range(e)
    BY <1>2 DEF Range
  <2> QED
    BY <1>2, <2>1, PlaceMeaning
<1>4. Before(e, l.it, l.end)
  BY DEF LoopInv
<1>5. l.it \in Range(e)
  BY <1>2, <1>3, <1>4 DEF Before, LoopInv
<1>6. p \in 1 .. n /\ e[p] = l.it /\ Position(l.it) = p
  <2>1. l.it # NoHandler /\ p \in 1 .. n /\ e[p] = l.it
    BY <1>3, <1>5
  <2>2. Position(l.it) = p
    BY <2>1 DEF Position, Place
  <2> QED
    BY <2>1, <2>2
<1> HIDE DEF p
<1>7. next = IF p + 1 \in 1 .. n THEN e[p + 1] ELSE NoHandler
  BY <1>2, <1>6 DEF Successor, Iterator
<1>8. /\ next \in Range(e) \cup {NoHandler} /\ next \in Handler \cup {NoHandler}
      /\ Place(e, next) = p + 1
  BY <1>2, <1>3, <1>6, <1>7
<1>9. next # NoHandler => Key[next] >= l.sender
  <2>1. next # NoHandler => p + 1 \in 1 .. n /\ next = e[p + 1]
    BY <1>7
  <2>2. next # NoHandler => Key[l.it] <= Key[next]
    BY <1>2, <1>6, <2>1 DEF Ordered
  <2>3. Key[l.it] >= l.sender /\ Key[l.it] \in Int /\ l.sender \in Int
    BY <1>3, <1>5, <1>6, HandlerAssumption DEF LoopInv, Loop, Range
  <2>4. next # NoHandler => Key[next] \in Int
    BY <1>8, HandlerAssumption
  <2> QED
    BY <2>2, <2>3, <2>4
<1> HIDE DEF next, m
\* Two iterators at one place are the same.
<1>10. \A x, y \in Range(e) \cup {NoHandler} : Place(e, x) = Place(e, y) => x = y
  BY <1>2, <1>3
<1>11. Before(e, next, l.end) \/ next = l.end
  <2>1. l.end \in Range(e) \cup {NoHandler} /\ Place(e, l.end) \in Nat
    BY <1>2, <1>3 DEF LoopInv
  <2>2. p < Place(e, l.end)
    BY <1>4 DEF Before, p
  <2>3. p + 1 < Place(e, l.end) \/ p + 1 = Place(e, l.end)
    BY <1>6, <2>1, <2>2
  <2> QED
    BY <1>8, <1>10, <2>1, <2>3 DEF Before
<1>12. \A h \in Range(e) : Passed(e, m, h) <=> Passed(e, l, h)
  <2> SUFFICES ASSUME NEW h \in Range(e)
               PROVE  Passed(e, m, h) <=> Passed(e, l, h)
    OBVIOUS
  <2>1. Passed(e, m, h) <=> Place(e, h) < p + 1
    BY <1>1, <1>8 DEF Passed, Before
  <2>2. Passed(e, l, h) <=> Place(e, h) < p \/ h = l.it
    BY DEF Passed, Before, p
  <2>3. h = l.it <=> Place(e, h) = p
    BY <1>5, <1>10 DEF p
  <2>4. Place(e, h) \in Nat
    BY <1>3
  <2> QED
    BY <1>6, <2>1, <2>2, <2>3, <2>4
<1>13. LoopInv(e, m, k, r)
  BY <1>1, <1>8, <1>9, <1>11, <1>12 DEF LoopInv
<1> QED
  BY <1>8, <1>13 DEF m, next

\* The loop begins at the first handler of the sender, and its range ends at the
\* first one of a later service.
LEMMA BeginKeepsLoop ==
    ASSUME eventsCache \in Seq(Handler), Ordered(eventsCache), NEW s \in Range(Key),
           NEW l, l = [stage |-> "visit", sender |-> s,
                       it |-> Iterator(Below(s) + 1), end |-> RangeEnd(s)],
           \E h \in Range(eventsCache) : Key[h] = s
    PROVE  l \in Loop /\ LoopInv(eventsCache, l, Range(eventsCache), <<>>)
<1> DEFINE e == eventsCache
           n == Len(e)
           a == Below(s) + 1
           z == UpTo(s) + 1
<1>1. n \in Nat /\ DOMAIN e = 1 .. n /\ \A i \in 1 .. n : e[i] \in Handler /\ e[i] \in Range(e)
  BY LenProperties, ElementOfSeq DEF Range
<1>2. s \in Int /\ \A i \in 1 .. n : Key[e[i]] \in Int
  BY <1>1, HandlerAssumption DEF Range
<1>3. a \in 1 .. n + 1 /\ \A i \in 1 .. n : Key[e[i]] < s <=> i < a
  <2>1. Below(s) \in 0 .. n /\ \A i \in 1 .. n : Key[e[i]] < s <=> i <= Below(s)
    BY <1>1, <1>2, BelowMeaning
  <2> QED
    BY <1>1, <2>1
<1>4. z \in 1 .. n + 1 /\ \A i \in 1 .. n : Key[e[i]] <= s <=> i < z
  <2>1. UpTo(s) \in 0 .. n /\ \A i \in 1 .. n : Key[e[i]] <= s <=> i <= UpTo(s)
    BY <1>1, <1>2, UpToMeaning
  <2> QED
    BY <1>1, <2>1
<1>5. l.stage = "visit" /\ l.sender = s /\ l.it = Iterator(a) /\ l.end = Iterator(z)
  BY DEF RangeEnd
<1> HIDE DEF a, z
<1>6. /\ Place(e, NoHandler) = n + 1
      /\ \A i \in 1 .. n : Place(e, e[i]) = i
      /\ \A x \in Range(e) : Place(e, x) \in 1 .. n /\ e[Place(e, x)] = x
  BY PlaceMeaning
<1>7. \A i \in 1 .. n + 1 : /\ Place(e, Iterator(i)) = i
                            /\ Iterator(i) \in Range(e) \cup {NoHandler}
                            /\ Iterator(i) \in Handler \cup {NoHandler}
                            /\ Iterator(i) # NoHandler => i \in 1 .. n /\ Iterator(i) = e[i]
  <2>1. \A i \in 1 .. n + 1 : i \in 1 .. n \/ i = n + 1
    BY <1>1
  <2>2. n + 1 \notin 1 .. n
    BY <1>1
  <2> QED
    BY <1>1, <1>6, <2>1, <2>2 DEF Iterator
<1>8. a < z
  <2>1. PICK i \in 1 .. n : Key[e[i]] = s
    BY <1>1 DEF Range
  <2>2. ~(i < a) /\ i < z
    BY <1>2, <1>3, <1>4, <2>1
  <2> QED
    BY <1>3, <1>4, <2>2
<1>9. l \in Loop
  <2>1. Iterator(a) \in Handler \cup {NoHandler} /\ Iterator(z) \in Handler \cup {NoHandler}
    BY <1>3, <1>4, <1>7
  <2>2. RangeEnd(s) = Iterator(z) /\ Iterator(Below(s) + 1) = Iterator(a)
    BY DEF RangeEnd, a, z
  <2> QED
    BY <2>1, <2>2 DEF Loop
<1>10. Before(e, l.it, l.end)
  BY <1>3, <1>4, <1>5, <1>7, <1>8 DEF Before
<1>11. l.it # NoHandler => Key[l.it] >= l.sender
  <2>1. l.it # NoHandler => a \in 1 .. n /\ l.it = e[a]
    BY <1>3, <1>5, <1>7
  <2>2. a \in 1 .. n => ~(Key[e[a]] < s)
    BY <1>3
  <2> QED
    BY <1>2, <1>5, <2>1, <2>2
<1>12. \A h \in Range(e) : Key[h] <= l.sender <=> Before(e, h, l.end)
  <2> SUFFICES ASSUME NEW h \in Range(e)
               PROVE  Key[h] <= s <=> Place(e, h) < z
    BY <1>4, <1>5, <1>7 DEF Before
  <2> QED
    BY <1>4, <1>6
<1>13. \A h \in Range(e) : Key[h] = l.sender => ~Passed(e, l, h)
  <2> SUFFICES ASSUME NEW h \in Range(e), Key[h] = s
               PROVE  ~(Place(e, h) < a)
    BY <1>3, <1>5, <1>7 DEF Passed, Before
  <2>1. Place(e, h) \in 1 .. n /\ ~(Key[e[Place(e, h)]] < s)
    BY <1>2, <1>6
  <2> QED
    BY <1>3, <2>1
<1>14. l.it \in Range(e) \cup {NoHandler} /\ l.end \in Range(e) \cup {NoHandler}
  BY <1>3, <1>4, <1>5, <1>7
<1>15. DOMAIN <<>> = {} /\ Range(<<>>) = {}
  BY EmptySeq DEF Range
<1> QED
  BY <1>9, <1>10, <1>11, <1>12, <1>13, <1>14, <1>15 DEF LoopInv

----------------------------------------------------------------------------
(* The invariant holds.                                                    *)

\* The empty multimap and no loop satisfy the invariant.
LEMMA EventsInitInv == EventsInit => EventsInv
<1> SUFFICES ASSUME EventsInit PROVE EventsInv
  OBVIOUS
<1>1. eventsCache \in Seq(Handler) /\ ran \in Seq(Handler) /\ Len(eventsCache) = 0
  BY EmptySeq DEF EventsInit
<1>2. DOMAIN eventsCache = {}
  BY EmptySeq DEF EventsInit
<1> QED
  BY <1>1, <1>2 DEF EventsInit, EventsInv, EventsTypeOK, Ordered, Range

\* Every step of the two threads keeps it.
LEMMA EventsNextInv == EventsInv /\ [EventsNext]_eventVars => EventsInv'
<1> SUFFICES ASSUME EventsInv, [EventsNext]_eventVars PROVE EventsInv'
  OBVIOUS
<1> USE DEF EventsInv
<1>1. NoLoop \notin Loop /\ \A l \in Loop : l.stage \in {"visit", "next"}
  BY DEF Loop, NoLoop
<1>2. CASE UNCHANGED eventVars
  BY <1>2 DEF eventVars, EventsTypeOK
<1>3. ASSUME NEW h \in Handler, BeginAddEvent(h) PROVE EventsInv'
  BY <1>3 DEF BeginAddEvent, Unregistered, EventsTypeOK
<1>4. CASE EndAddEvent
  <2>1. /\ eventsCache' \in Seq(Handler) /\ Ordered(eventsCache')
        /\ Range(eventsCache') = Range(eventsCache) \cup {adding}
        /\ \A x, y \in Range(eventsCache) \cup {NoHandler} :
              Before(eventsCache', x, y) <=> Before(eventsCache, x, y)
    BY <1>4, EmplacedKeeps DEF EndAddEvent, EventsTypeOK, Before
  <2>2. loop # NoLoop => LoopInv(eventsCache', loop, known, ran)
    BY <2>1, InsertionKeepsLoop
  <2>3. NoHandler \notin Range(eventsCache')
    BY <2>1, HandlerAssumption, PlaceMeaning
  <2> QED
    BY <1>4, <2>1, <2>2, <2>3 DEF EndAddEvent, EventsTypeOK
<1>5. ASSUME NEW s \in Range(Key), BeginLoop(s) PROVE EventsInv'
  <2>1. loop' \in Loop /\ LoopInv(eventsCache, loop', Range(eventsCache), <<>>)
    BY <1>5, BeginKeepsLoop DEF BeginLoop, EventsTypeOK
  <2>2. Range(eventsCache) \in SUBSET Handler /\ <<>> \in Seq(Handler)
    BY PlaceMeaning, EmptySeq DEF EventsTypeOK
  <2> QED
    BY <1>1, <1>5, <2>1, <2>2 DEF BeginLoop, EventsTypeOK
<1>6. ASSUME NEW h \in Handler \cup {NoHandler}, Visit(h) PROVE EventsInv'
  <2>1. loop \in Loop /\ loop.stage = "visit" /\ loop.it # loop.end
    BY <1>6 DEF Visit, Visiting, EventsTypeOK, NoLoop
  <2>2. LoopInv(eventsCache, loop, known, ran)
    BY <1>1, <2>1
  <2>3. loop.it \in Handler /\ LoopInv(eventsCache, loop', known, ran')
    BY <1>6, <2>1, <2>2, VisitKeepsLoop DEF Visit, EventsTypeOK
  <2>4. loop' \in Loop /\ ran' \in Seq(Handler)
    <3>1. loop' \in Loop
      BY <1>6, <2>1 DEF Visit, Loop
    <3>2. ran' \in Seq(Handler)
      BY <1>6, <2>3 DEF Visit, EventsTypeOK
    <3> QED
      BY <3>1, <3>2
  <2>5. CASE h = NoHandler
    BY <1>1, <1>6, <2>3, <2>4, <2>5 DEF Visit, EventsTypeOK
  <2>6. CASE h # NoHandler
    <3>1. h \in Handler /\ adding = NoHandler /\ h \notin Range(eventsCache)
          /\ eventsCache' = Emplaced(h)
      BY <1>6, <2>6 DEF Visit, Race, Unregistered
    <3>2. /\ eventsCache' \in Seq(Handler) /\ Ordered(eventsCache')
          /\ Range(eventsCache') = Range(eventsCache) \cup {h}
          /\ \A x, y \in Range(eventsCache) \cup {NoHandler} :
                Before(eventsCache', x, y) <=> Before(eventsCache, x, y)
      BY <3>1, EmplacedKeeps DEF EventsTypeOK, Before
    <3>3. LoopInv(eventsCache', loop', known, ran')
      BY <2>3, <3>2, InsertionKeepsLoop
    <3> QED
      BY <1>1, <1>6, <2>4, <3>1, <3>2, <3>3, HandlerAssumption DEF Visit, EventsTypeOK
  <2> QED
    BY <2>5, <2>6
<1>7. CASE Advance
  <2>1. loop \in Loop /\ loop.stage = "next"
    BY <1>7 DEF Advance, EventsTypeOK, NoLoop
  <2>2. LoopInv(eventsCache, loop, known, ran)
    BY <1>1, <2>1
  <2>3. /\ Successor(loop.it) \in Handler \cup {NoHandler}
        /\ LoopInv(eventsCache, loop', known, ran)
    BY <1>7, <2>1, <2>2, AdvanceKeepsLoop DEF Advance, EventsTypeOK
  <2>4. loop' \in Loop
    BY <1>7, <2>1, <2>3 DEF Advance, Loop
  <2> QED
    BY <1>1, <1>7, <2>3, <2>4 DEF Advance, EventsTypeOK
<1>8. CASE EndLoop
  BY <1>8, EmptySeq DEF EndLoop, EventsTypeOK
<1> QED
  BY <1>2, <1>3, <1>4, <1>5, <1>6, <1>7, <1>8 DEF EventsNext

\* When the loop is at its end, every handler it found of its sender that
\* accepts the request has run; none has run twice.
LEMMA EventsInvRunOnce == EventsInv => HandlersRunOnce
<1> SUFFICES ASSUME EventsInv PROVE HandlersRunOnce
  OBVIOUS
<1>1. CASE loop = NoLoop
  <2>1. ran = <<>> /\ loop.stage # "visit" /\ DOMAIN ran = {}
    BY <1>1, EmptySeq DEF EventsInv, NoLoop
  <2> QED
    BY <2>1 DEF HandlersRunOnce
<1>2. CASE loop # NoLoop
  <2>1. LoopInv(eventsCache, loop, known, ran)
    BY <1>2 DEF EventsInv
  <2>2. ASSUME NEW i \in DOMAIN ran, NEW j \in DOMAIN ran, ran[i] = ran[j]
        PROVE  i = j
    <3>1. i \in Nat /\ j \in Nat
      BY LenProperties DEF EventsInv, EventsTypeOK
    <3>2. ran[i] \in Range(eventsCache)
      BY <2>1 DEF LoopInv, Range
    <3>3. Place(eventsCache, ran[i]) \in Nat
      BY <3>2, PlaceMeaning DEF EventsInv, EventsTypeOK
    <3>4. ~Before(eventsCache, ran[i], ran[i])
      BY <3>3 DEF Before
    <3>5. ~(i < j) /\ ~(j < i)
      BY <2>1, <2>2, <3>4 DEF LoopInv
    <3> QED
      BY <3>1, <3>5
  <2>3. ASSUME loop.stage = "visit", loop.it = loop.end,
               NEW h \in known \cap Validating, Key[h] = loop.sender
        PROVE  h \in Range(ran)
    <3>1. h \in Handler /\ Key[h] \in Int
      BY HandlerAssumption
    <3>2. Passed(eventsCache, loop, h)
      BY <2>1, <2>3, <3>1 DEF LoopInv, Passed
    <3> QED
      BY <2>1, <2>3, <3>2 DEF LoopInv
  <2> QED
    BY <2>2, <2>3 DEF HandlersRunOnce, Visiting
<1> QED
  BY <1>1, <1>2

\* A handler the loop found and has run is one of the sender.
LEMMA EventsInvOwnService == EventsInv => HandlersRunForOwnService
<1> SUFFICES ASSUME EventsInv PROVE HandlersRunForOwnService
  OBVIOUS
<1>1. CASE loop = NoLoop
  <2>1. ran = <<>> /\ DOMAIN ran = {}
    BY <1>1, EmptySeq DEF EventsInv
  <2> QED
    BY <2>1 DEF HandlersRunForOwnService, Range
<1>2. CASE loop # NoLoop
  <2> SUFFICES ASSUME NEW h \in Range(ran)
               PROVE  Key[h] = loop.sender \/ (h \notin known /\ Key[h] > loop.sender)
    BY DEF HandlersRunForOwnService
  <2>1. LoopInv(eventsCache, loop, known, ran) /\ loop \in Loop
    BY <1>2 DEF EventsInv, EventsTypeOK
  <2>2. h \in Range(eventsCache) /\ Passed(eventsCache, loop, h) /\ Key[h] >= loop.sender
    BY <2>1 DEF LoopInv
  <2>3. /\ Place(eventsCache, h) \in Nat /\ h \in Handler
        /\ Place(eventsCache, loop.it) \in Nat /\ Place(eventsCache, loop.end) \in Nat
    <3>1. \A x \in Range(eventsCache) \cup {NoHandler} : Place(eventsCache, x) \in Nat
      BY PlaceMeaning, LenProperties DEF EventsInv, EventsTypeOK
    <3>2. h \in Handler
      BY <2>2, PlaceMeaning DEF EventsInv, EventsTypeOK
    <3> QED
      BY <2>1, <2>2, <3>1, <3>2 DEF LoopInv
  <2>4. Before(eventsCache, h, loop.end)
    BY <2>1, <2>2, <2>3 DEF LoopInv, Passed, Before
  <2>5. h \in known => Key[h] <= loop.sender
    BY <2>1, <2>4 DEF LoopInv
  <2>6. Key[h] \in Int /\ loop.sender \in Int
    BY <2>1, <2>3, HandlerAssumption DEF Loop, Range
  <2> QED
    BY <2>2, <2>5, <2>6
<1> QED
  BY <1>1, <1>2
============================================================================
