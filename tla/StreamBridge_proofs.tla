------------------------- MODULE StreamBridge_proofs -------------------------
(***************************************************************************)
(* Proofs about the event stream.                                          *)
(***************************************************************************)
EXTENDS StreamBridge, Induction, SequenceTheorems, FiniteSetTheorems, TLAPS

-----------------------------------------------------------------------------
(* Loops.  Each is a table of the values after every step.  For any set of   *)
(* values that the steps do not leave, the table has its values in the set.  *)

\* The events of a document, given to the bridge one after the other.
BridgeEventsIn(f, V, s, xs) ==
    /\ f \in [0..Len(xs) -> V] /\ f[0] = s
    /\ \A n \in 1..Len(xs) : f[n] = BridgeEvent(f[n - 1], xs[n])
    /\ BridgeEvents(s, xs) = f[Len(xs)] /\ f[Len(xs)] \in V

\* A loop that stays inside a set takes its steps one by one, and ends inside it: the loop over
\* the events of one chat chunk (flush_event).
LEMMA BridgeEventsRun ==
  ASSUME NEW V, NEW s \in V, NEW xs, Len(xs) \in Nat,
         \A r \in V : \A n \in 1..Len(xs) : BridgeEvent(r, xs[n]) \in V
  PROVE  (\E f : BridgeEventsIn(f, V, s, xs)) /\ BridgeEvents(s, xs) \in V
<1> DEFINE N == Len(xs)
           F == [n \in 1..N |-> [r \in V |-> BridgeEvent(r, xs[n])]]
           Is(h) == h = [n \in 0..N |-> IF n = 0 THEN s ELSE BridgeEvent(h[n - 1], xs[n])]
           f == CHOOSE h : Is(h)
<1>1. N \in Nat /\ F \in [1..N -> [V -> V]]
  OBVIOUS
<1>2. BridgeEvents(s, xs) = f[N]
  BY DEF BridgeEvents
<1> HIDE DEF N
<1>3. PICK g : Tabulates(g, N, V, s, F)
  <2> HIDE DEF F
  <2> QED
    BY <1>1, Iterates, Zenon
<1>4. Is(g)
  <2>1. ASSUME NEW n \in 0..N, n # 0 PROVE g[n] = BridgeEvent(g[n - 1], xs[n])
    <3>1. n \in 1..N /\ n - 1 \in 0..N
      BY <1>1, <2>1
    <3> QED
      BY <1>3, <3>1 DEF Tabulates
  <2> QED
    BY <1>3, <2>1 DEF Tabulates
<1>5. Is(f)
  <2> HIDE DEF Is
  <2> QED
    BY <1>4
<1> HIDE DEF f
<1>6. f[0] = s /\ \A n \in 1..N : f[n] = BridgeEvent(f[n - 1], xs[n])
  BY <1>1, <1>5
<1>7. \A n \in 0..N : f[n] \in V
  <2>1. \A n \in 1..N : f[n - 1] \in V => f[n] \in V
    BY <1>6 DEF N
  <2> QED
    BY <1>1, <1>6, <2>1, StaysInside
<1>8. f \in [0..N -> V]
  BY <1>5, <1>7
<1>9. f[N] \in V
  BY <1>1, <1>7
<1>10. BridgeEventsIn(f, V, s, xs)
  BY <1>2, <1>6, <1>8, <1>9 DEF N, BridgeEventsIn
<1> QED
  BY <1>2, <1>9, <1>10

\* The calls of a bridged response, finished one after the other.
FinishCallsIn(f, V, s, xs) ==
    /\ f \in [0..Len(xs) -> V] /\ f[0] = s
    /\ \A n \in 1..Len(xs) : f[n] = finish_call(f[n - 1], xs[n])
    /\ FinishCalls(s, xs) = f[Len(xs)] /\ f[Len(xs)] \in V

\* The same for the loop over the calls still open (finish).
LEMMA FinishCallsRun ==
  ASSUME NEW V, NEW s \in V, NEW xs, Len(xs) \in Nat,
         \A r \in V : \A n \in 1..Len(xs) : finish_call(r, xs[n]) \in V
  PROVE  (\E f : FinishCallsIn(f, V, s, xs)) /\ FinishCalls(s, xs) \in V
<1> DEFINE N == Len(xs)
           F == [n \in 1..N |-> [r \in V |-> finish_call(r, xs[n])]]
           Is(h) == h = [n \in 0..N |-> IF n = 0 THEN s ELSE finish_call(h[n - 1], xs[n])]
           f == CHOOSE h : Is(h)
<1>1. N \in Nat /\ F \in [1..N -> [V -> V]]
  OBVIOUS
<1>2. FinishCalls(s, xs) = f[N]
  BY DEF FinishCalls
<1> HIDE DEF N
<1>3. PICK g : Tabulates(g, N, V, s, F)
  <2> HIDE DEF F
  <2> QED
    BY <1>1, Iterates, Zenon
<1>4. Is(g)
  <2>1. ASSUME NEW n \in 0..N, n # 0 PROVE g[n] = finish_call(g[n - 1], xs[n])
    <3>1. n \in 1..N /\ n - 1 \in 0..N
      BY <1>1, <2>1
    <3> QED
      BY <1>3, <3>1 DEF Tabulates
  <2> QED
    BY <1>3, <2>1 DEF Tabulates
<1>5. Is(f)
  <2> HIDE DEF Is
  <2> QED
    BY <1>4
<1> HIDE DEF f
<1>6. f[0] = s /\ \A n \in 1..N : f[n] = finish_call(f[n - 1], xs[n])
  BY <1>1, <1>5
<1>7. \A n \in 0..N : f[n] \in V
  <2>1. \A n \in 1..N : f[n - 1] \in V => f[n] \in V
    BY <1>6 DEF N
  <2> QED
    BY <1>1, <1>6, <2>1, StaysInside
<1>8. f \in [0..N -> V]
  BY <1>5, <1>7
<1>9. f[N] \in V
  BY <1>1, <1>7
<1>10. FinishCallsIn(f, V, s, xs)
  BY <1>2, <1>6, <1>8, <1>9 DEF N, FinishCallsIn
<1> QED
  BY <1>2, <1>9, <1>10

\* The calls of a chat stream, completed one after the other.
CompleteCallsIn(f, V, s, xs) ==
    /\ f \in [0..Len(xs) -> V] /\ f[0] = s
    /\ \A n \in 1..Len(xs) : f[n] = CompleteCall(f[n - 1], xs[n])
    /\ CompleteCalls(s, xs) = f[Len(xs)] /\ f[Len(xs)] \in V

\* The same for the loop over the calls that complete() ends (ChatSseStatsDecoder).
LEMMA CompleteCallsRun ==
  ASSUME NEW V, NEW s \in V, NEW xs, Len(xs) \in Nat,
         \A r \in V : \A n \in 1..Len(xs) : CompleteCall(r, xs[n]) \in V
  PROVE  (\E f : CompleteCallsIn(f, V, s, xs)) /\ CompleteCalls(s, xs) \in V
<1> DEFINE N == Len(xs)
           F == [n \in 1..N |-> [r \in V |-> CompleteCall(r, xs[n])]]
           Is(h) == h = [n \in 0..N |-> IF n = 0 THEN s ELSE CompleteCall(h[n - 1], xs[n])]
           f == CHOOSE h : Is(h)
<1>1. N \in Nat /\ F \in [1..N -> [V -> V]]
  OBVIOUS
<1>2. CompleteCalls(s, xs) = f[N]
  BY DEF CompleteCalls
<1> HIDE DEF N
<1>3. PICK g : Tabulates(g, N, V, s, F)
  <2> HIDE DEF F
  <2> QED
    BY <1>1, Iterates, Zenon
<1>4. Is(g)
  <2>1. ASSUME NEW n \in 0..N, n # 0 PROVE g[n] = CompleteCall(g[n - 1], xs[n])
    <3>1. n \in 1..N /\ n - 1 \in 0..N
      BY <1>1, <2>1
    <3> QED
      BY <1>3, <3>1 DEF Tabulates
  <2> QED
    BY <1>3, <2>1 DEF Tabulates
<1>5. Is(f)
  <2> HIDE DEF Is
  <2> QED
    BY <1>4
<1> HIDE DEF f
<1>6. f[0] = s /\ \A n \in 1..N : f[n] = CompleteCall(f[n - 1], xs[n])
  BY <1>1, <1>5
<1>7. \A n \in 0..N : f[n] \in V
  <2>1. \A n \in 1..N : f[n - 1] \in V => f[n] \in V
    BY <1>6 DEF N
  <2> QED
    BY <1>1, <1>6, <2>1, StaysInside
<1>8. f \in [0..N -> V]
  BY <1>5, <1>7
<1>9. f[N] \in V
  BY <1>1, <1>7
<1>10. CompleteCallsIn(f, V, s, xs)
  BY <1>2, <1>6, <1>8, <1>9 DEF N, CompleteCallsIn
<1> QED
  BY <1>2, <1>9, <1>10

\* The events of a chat document, recorded one after the other.
ChatStatsEventsIn(f, V, s, xs) ==
    /\ f \in [0..Len(xs) -> V] /\ f[0] = s
    /\ \A n \in 1..Len(xs) : f[n] = ChatStatsEvent(f[n - 1], xs[n])
    /\ ChatStatsEvents(s, xs) = f[Len(xs)] /\ f[Len(xs)] \in V

\* The same for the loop over the events of a chunk of the pass-through.
LEMMA ChatStatsEventsRun ==
  ASSUME NEW V, NEW s \in V, NEW xs, Len(xs) \in Nat,
         \A r \in V : \A n \in 1..Len(xs) : ChatStatsEvent(r, xs[n]) \in V
  PROVE  (\E f : ChatStatsEventsIn(f, V, s, xs)) /\ ChatStatsEvents(s, xs) \in V
<1> DEFINE N == Len(xs)
           F == [n \in 1..N |-> [r \in V |-> ChatStatsEvent(r, xs[n])]]
           Is(h) == h = [n \in 0..N |-> IF n = 0 THEN s ELSE ChatStatsEvent(h[n - 1], xs[n])]
           f == CHOOSE h : Is(h)
<1>1. N \in Nat /\ F \in [1..N -> [V -> V]]
  OBVIOUS
<1>2. ChatStatsEvents(s, xs) = f[N]
  BY DEF ChatStatsEvents
<1> HIDE DEF N
<1>3. PICK g : Tabulates(g, N, V, s, F)
  <2> HIDE DEF F
  <2> QED
    BY <1>1, Iterates, Zenon
<1>4. Is(g)
  <2>1. ASSUME NEW n \in 0..N, n # 0 PROVE g[n] = ChatStatsEvent(g[n - 1], xs[n])
    <3>1. n \in 1..N /\ n - 1 \in 0..N
      BY <1>1, <2>1
    <3> QED
      BY <1>3, <3>1 DEF Tabulates
  <2> QED
    BY <1>3, <2>1 DEF Tabulates
<1>5. Is(f)
  <2> HIDE DEF Is
  <2> QED
    BY <1>4
<1> HIDE DEF f
<1>6. f[0] = s /\ \A n \in 1..N : f[n] = ChatStatsEvent(f[n - 1], xs[n])
  BY <1>1, <1>5
<1>7. \A n \in 0..N : f[n] \in V
  <2>1. \A n \in 1..N : f[n - 1] \in V => f[n] \in V
    BY <1>6 DEF N
  <2> QED
    BY <1>1, <1>6, <2>1, StaysInside
<1>8. f \in [0..N -> V]
  BY <1>5, <1>7
<1>9. f[N] \in V
  BY <1>1, <1>7
<1>10. ChatStatsEventsIn(f, V, s, xs)
  BY <1>2, <1>6, <1>8, <1>9 DEF N, ChatStatsEventsIn
<1> QED
  BY <1>2, <1>9, <1>10

\* The events of a Responses document, recorded one after the other.
RecordEventsIn(f, V, s, xs) ==
    /\ f \in [0..Len(xs) -> V] /\ f[0] = s
    /\ \A n \in 1..Len(xs) : f[n] = Record(f[n - 1], xs[n])
    /\ RecordEvents(s, xs) = f[Len(xs)] /\ f[Len(xs)] \in V

\* The same for the loop that records a document of a Responses stream.
LEMMA RecordEventsRun ==
  ASSUME NEW V, NEW s \in V, NEW xs, Len(xs) \in Nat,
         \A r \in V : \A n \in 1..Len(xs) : Record(r, xs[n]) \in V
  PROVE  (\E f : RecordEventsIn(f, V, s, xs)) /\ RecordEvents(s, xs) \in V
<1> DEFINE N == Len(xs)
           F == [n \in 1..N |-> [r \in V |-> Record(r, xs[n])]]
           Is(h) == h = [n \in 0..N |-> IF n = 0 THEN s ELSE Record(h[n - 1], xs[n])]
           f == CHOOSE h : Is(h)
<1>1. N \in Nat /\ F \in [1..N -> [V -> V]]
  OBVIOUS
<1>2. RecordEvents(s, xs) = f[N]
  BY DEF RecordEvents
<1> HIDE DEF N
<1>3. PICK g : Tabulates(g, N, V, s, F)
  <2> HIDE DEF F
  <2> QED
    BY <1>1, Iterates, Zenon
<1>4. Is(g)
  <2>1. ASSUME NEW n \in 0..N, n # 0 PROVE g[n] = Record(g[n - 1], xs[n])
    <3>1. n \in 1..N /\ n - 1 \in 0..N
      BY <1>1, <2>1
    <3> QED
      BY <1>3, <3>1 DEF Tabulates
  <2> QED
    BY <1>3, <2>1 DEF Tabulates
<1>5. Is(f)
  <2> HIDE DEF Is
  <2> QED
    BY <1>4
<1> HIDE DEF f
<1>6. f[0] = s /\ \A n \in 1..N : f[n] = Record(f[n - 1], xs[n])
  BY <1>1, <1>5
<1>7. \A n \in 0..N : f[n] \in V
  <2>1. \A n \in 1..N : f[n - 1] \in V => f[n] \in V
    BY <1>6 DEF N
  <2> QED
    BY <1>1, <1>6, <2>1, StaysInside
<1>8. f \in [0..N -> V]
  BY <1>5, <1>7
<1>9. f[N] \in V
  BY <1>1, <1>7
<1>10. RecordEventsIn(f, V, s, xs)
  BY <1>2, <1>6, <1>8, <1>9 DEF N, RecordEventsIn
<1> QED
  BY <1>2, <1>9, <1>10

\* Lines, processed one after the other.
ProcessLinesIn(f, V, s, xs) ==
    /\ f \in [0..Len(xs) -> V] /\ f[0] = s
    /\ \A n \in 1..Len(xs) : f[n] = process_line(f[n - 1], xs[n])
    /\ process_lines(s, xs) = f[Len(xs)] /\ f[Len(xs)] \in V

\* The same for the loop over the complete lines of a chunk.
LEMMA ProcessLinesRun ==
  ASSUME NEW V, NEW s \in V, NEW xs, Len(xs) \in Nat,
         \A r \in V : \A n \in 1..Len(xs) : process_line(r, xs[n]) \in V
  PROVE  (\E f : ProcessLinesIn(f, V, s, xs)) /\ process_lines(s, xs) \in V
<1> DEFINE N == Len(xs)
           F == [n \in 1..N |-> [r \in V |-> process_line(r, xs[n])]]
           Is(h) == h = [n \in 0..N |-> IF n = 0 THEN s ELSE process_line(h[n - 1], xs[n])]
           f == CHOOSE h : Is(h)
<1>1. N \in Nat /\ F \in [1..N -> [V -> V]]
  OBVIOUS
<1>2. process_lines(s, xs) = f[N]
  BY DEF process_lines
<1> HIDE DEF N
<1>3. PICK g : Tabulates(g, N, V, s, F)
  <2> HIDE DEF F
  <2> QED
    BY <1>1, Iterates, Zenon
<1>4. Is(g)
  <2>1. ASSUME NEW n \in 0..N, n # 0 PROVE g[n] = process_line(g[n - 1], xs[n])
    <3>1. n \in 1..N /\ n - 1 \in 0..N
      BY <1>1, <2>1
    <3> QED
      BY <1>3, <3>1 DEF Tabulates
  <2> QED
    BY <1>3, <2>1 DEF Tabulates
<1>5. Is(f)
  <2> HIDE DEF Is
  <2> QED
    BY <1>4
<1> HIDE DEF f
<1>6. f[0] = s /\ \A n \in 1..N : f[n] = process_line(f[n - 1], xs[n])
  BY <1>1, <1>5
<1>7. \A n \in 0..N : f[n] \in V
  <2>1. \A n \in 1..N : f[n - 1] \in V => f[n] \in V
    BY <1>6 DEF N
  <2> QED
    BY <1>1, <1>6, <2>1, StaysInside
<1>8. f \in [0..N -> V]
  BY <1>5, <1>7
<1>9. f[N] \in V
  BY <1>1, <1>7
<1>10. ProcessLinesIn(f, V, s, xs)
  BY <1>2, <1>6, <1>8, <1>9 DEF N, ProcessLinesIn
<1> QED
  BY <1>2, <1>9, <1>10

\* Lines, given to the id rewriter one after the other.
RewriteLinesIn(f, V, s, xs) ==
    /\ f \in [0..Len(xs) -> V] /\ f[0] = s
    /\ \A n \in 1..Len(xs) : f[n] = RewriteLine(f[n - 1], xs[n])
    /\ RewriteLines(s, xs) = f[Len(xs)] /\ f[Len(xs)] \in V

\* The same for the loop over the lines that StreamModelRewriter is given.
LEMMA RewriteLinesRun ==
  ASSUME NEW V, NEW s \in V, NEW xs, Len(xs) \in Nat,
         \A r \in V : \A n \in 1..Len(xs) : RewriteLine(r, xs[n]) \in V
  PROVE  (\E f : RewriteLinesIn(f, V, s, xs)) /\ RewriteLines(s, xs) \in V
<1> DEFINE N == Len(xs)
           F == [n \in 1..N |-> [r \in V |-> RewriteLine(r, xs[n])]]
           Is(h) == h = [n \in 0..N |-> IF n = 0 THEN s ELSE RewriteLine(h[n - 1], xs[n])]
           f == CHOOSE h : Is(h)
<1>1. N \in Nat /\ F \in [1..N -> [V -> V]]
  OBVIOUS
<1>2. RewriteLines(s, xs) = f[N]
  BY DEF RewriteLines
<1> HIDE DEF N
<1>3. PICK g : Tabulates(g, N, V, s, F)
  <2> HIDE DEF F
  <2> QED
    BY <1>1, Iterates, Zenon
<1>4. Is(g)
  <2>1. ASSUME NEW n \in 0..N, n # 0 PROVE g[n] = RewriteLine(g[n - 1], xs[n])
    <3>1. n \in 1..N /\ n - 1 \in 0..N
      BY <1>1, <2>1
    <3> QED
      BY <1>3, <3>1 DEF Tabulates
  <2> QED
    BY <1>3, <2>1 DEF Tabulates
<1>5. Is(f)
  <2> HIDE DEF Is
  <2> QED
    BY <1>4
<1> HIDE DEF f
<1>6. f[0] = s /\ \A n \in 1..N : f[n] = RewriteLine(f[n - 1], xs[n])
  BY <1>1, <1>5
<1>7. \A n \in 0..N : f[n] \in V
  <2>1. \A n \in 1..N : f[n - 1] \in V => f[n] \in V
    BY <1>6 DEF N
  <2> QED
    BY <1>1, <1>6, <2>1, StaysInside
<1>8. f \in [0..N -> V]
  BY <1>5, <1>7
<1>9. f[N] \in V
  BY <1>1, <1>7
<1>10. RewriteLinesIn(f, V, s, xs)
  BY <1>2, <1>6, <1>8, <1>9 DEF N, RewriteLinesIn
<1> QED
  BY <1>2, <1>9, <1>10

-----------------------------------------------------------------------------
(* Sequences.                                                                *)

\* The order in which parts are put together does not matter.
LEMMA ThreeParts ==
  ASSUME NEW S, NEW a \in Seq(S), NEW b \in Seq(S), NEW c \in Seq(S)
  PROVE  (a \o b) \o c = a \o (b \o c) /\ a \o b \in Seq(S)
BY ConcatAssociative, ConcatProperties

-----------------------------------------------------------------------------
(* Sets of naturals in order.                                                *)

\* A finite set of naturals is bounded.
LEMMA FiniteBounded ==
  ASSUME NEW S \in SUBSET Nat, IsFiniteSet(S)
  PROVE  \E b \in Nat : \A x \in S : x < b
<1> DEFINE Ok(n) == \A U \in SUBSET Nat :
                       IsFiniteSet(U) /\ Cardinality(U) = n => \E b \in Nat : \A x \in U : x < b
           T == {n \in Nat : Ok(n)}
<1>1. 0 \in T
  BY FS_EmptySet
<1>2. ASSUME NEW n \in Nat, n \in T PROVE n + 1 \in T
  <2>1. ASSUME NEW U \in SUBSET Nat, IsFiniteSet(U), Cardinality(U) = n + 1
        PROVE  \E b \in Nat : \A x \in U : x < b
    <3>1. PICK y : y \in U
      <4>1. U # {}
        BY <2>1, FS_EmptySet
      <4> QED
        BY <4>1
    <3>2. IsFiniteSet(U \ {y}) /\ Cardinality(U \ {y}) = n
      <4>1. IsFiniteSet(U \ {y}) /\ Cardinality(U \ {y}) = Cardinality(U) - 1
        BY <2>1, <3>1, FS_RemoveElement
      <4> QED
        BY <2>1, <4>1
    <3>3. PICK c \in Nat : \A x \in U \ {y} : x < c
      BY <1>2, <3>2
    <3>4. y \in Nat
      BY <3>1
    <3>5. ASSUME NEW x \in U PROVE x < c + (y + 1)
      <4>1. x \in Nat /\ (x < c \/ x = y)
        BY <3>3
      <4> QED
        BY <3>4, <4>1
    <3>6. c + (y + 1) \in Nat
      BY <3>4
    <3> QED
      BY <3>5, <3>6
  <2> QED
    BY <2>1
<1>3. \A n \in Nat : n \in T
  <2> HIDE DEF T
  <2> QED
    BY <1>1, <1>2, SetInduction
<1>4. Cardinality(S) \in Nat
  BY FS_CardinalityType
<1> QED
  BY <1>3, <1>4

\* A list of a set in order.
Lists(q, S) ==
    /\ q \in [1..Cardinality(S) -> S]
    /\ \A m, n \in 1..Cardinality(S) : m < n => q[m] < q[n]

\* Every finite set of naturals has one.
LEMMA ListExists ==
  ASSUME NEW S \in SUBSET Nat, IsFiniteSet(S)
  PROVE  \E q : Lists(q, S)
<1> DEFINE Ok(b) == \A U \in SUBSET Nat :
                       IsFiniteSet(U) /\ (\A x \in U : x < b) => \E q : Lists(q, U)
           T == {b \in Nat : Ok(b)}
<1>1. 0 \in T
  <2>1. ASSUME NEW U \in SUBSET Nat, \A x \in U : x < 0 PROVE \E q : Lists(q, U)
    <3>1. U = {} /\ Cardinality(U) = 0
      <4>1. \A x \in U : x \in Nat /\ x < 0
        BY <2>1
      <4>2. U = {}
        BY <4>1
      <4> QED
        BY <4>2, FS_EmptySet
    <3>2. Lists(<<>>, U)
      BY <3>1 DEF Lists
    <3> QED
      BY <3>2
  <2> QED
    BY <2>1
<1>2. ASSUME NEW b \in Nat, b \in T PROVE b + 1 \in T
  <2>1. ASSUME NEW U \in SUBSET Nat, IsFiniteSet(U), \A x \in U : x < b + 1
        PROVE  \E q : Lists(q, U)
    <3> DEFINE W == U \ {b}
               N == Cardinality(W)
    <3>1. IsFiniteSet(W) /\ W \in SUBSET Nat /\ N \in Nat
      BY <2>1, FS_RemoveElement, FS_CardinalityType
    <3>2. \A x \in W : x < b
      BY <2>1
    <3>3. PICK r : Lists(r, W)
      BY <1>2, <3>1, <3>2
    <3>4. CASE b \notin U
      <4>1. W = U
        BY <3>4
      <4> QED
        BY <3>3, <4>1
    <3>5. CASE b \in U
      <4> DEFINE q == [n \in 1..(N + 1) |-> IF n <= N THEN r[n] ELSE b]
      <4>1. Cardinality(U) = N + 1
        <5>1. Cardinality(W) = Cardinality(U) - 1 /\ Cardinality(U) \in Nat
          BY <2>1, <3>5, FS_RemoveElement, FS_CardinalityType
        <5> QED
          BY <5>1
      <4> HIDE DEF N
      <4>2. r \in [1..N -> W] /\ \A m, n \in 1..N : m < n => r[m] < r[n]
        BY <3>3 DEF Lists, N
      <4>3. q \in [1..(N + 1) -> U]
        BY <3>1, <3>5, <4>2
      <4>4. ASSUME NEW m \in 1..(N + 1), NEW n \in 1..(N + 1), m < n PROVE q[m] < q[n]
        <5>1. m \in 1..N /\ q[m] = r[m] /\ r[m] \in W
          BY <3>1, <4>2, <4>4
        <5>2. CASE n <= N
          BY <3>1, <4>2, <4>4, <5>1, <5>2
        <5>3. CASE ~(n <= N)
          BY <3>2, <5>1, <5>3
        <5> QED
          BY <5>2, <5>3
      <4>5. Lists(q, U)
        BY <4>1, <4>3, <4>4 DEF Lists
      <4> QED
        BY <4>5
    <3> QED
      BY <3>4, <3>5
  <2> QED
    BY <2>1
<1>3. \A b \in Nat : b \in T
  <2> HIDE DEF T
  <2> QED
    BY <1>1, <1>2, SetInduction
<1>4. PICK b \in Nat : \A x \in S : x < b
  BY FiniteBounded
<1> QED
  BY <1>3, <1>4

\* InOrder lists a set: all its elements, each once.
LEMMA InOrderFacts ==
  ASSUME NEW S \in SUBSET Nat, IsFiniteSet(S)
  PROVE  /\ InOrder(S) \in Seq(S) /\ Len(InOrder(S)) = Cardinality(S)
         /\ Cardinality(S) \in Nat /\ DOMAIN InOrder(S) = 1..Cardinality(S)
         /\ \A n \in 1..Cardinality(S) : InOrder(S)[n] \in S
         /\ \A m, n \in 1..Cardinality(S) : m < n => InOrder(S)[m] < InOrder(S)[n]
         /\ \A x \in S : \E n \in 1..Cardinality(S) : InOrder(S)[n] = x
<1> DEFINE q == InOrder(S)
           N == Cardinality(S)
<1>1. N \in Nat
  BY FS_CardinalityType
<1>2. q \in [1..N -> S] /\ \A m, n \in 1..N : m < n => q[m] < q[n]
  <2>1. PICK r : Lists(r, S)
    BY ListExists
  <2>2. r \in [1..Cardinality(S) -> S]
        /\ \A m, n \in 1..Cardinality(S) : m < n => r[m] < r[n]
    BY <2>1 DEF Lists
  <2> QED
    BY <2>2 DEF InOrder
<1> HIDE DEF q
<1>3. ASSUME NEW x \in S PROVE \E n \in 1..N : q[n] = x
  <2> SUFFICES ASSUME \A n \in 1..N : q[n] # x PROVE FALSE
    OBVIOUS
  <2>1. q \in [1..N -> S \ {x}]
    BY <1>2
  <2>2. IsFiniteSet(S \ {x}) /\ Cardinality(S \ {x}) < N
    BY <1>1, FS_RemoveElement
  <2>3. IsFiniteSet(1..N) /\ Cardinality(1..N) = N
    BY <1>1, FS_Interval
  <2> HIDE DEF N
  <2>4. PICK m, n \in 1..N : m # n /\ q[m] = q[n]
    <3> DEFINE I == 1..N
               W == S \ {x}
    <3>1. /\ IsFiniteSet(I) /\ IsFiniteSet(W) /\ Cardinality(W) < Cardinality(I)
          /\ q \in [I -> W]
      BY <2>1, <2>2, <2>3
    <3> HIDE DEF I, W
    <3>2. \E m, n \in I : m # n /\ q[m] = q[n]
      BY <3>1, FS_PigeonHole
    <3> QED
      BY <3>2 DEF I
  <2>5. q[m] \in Nat /\ q[n] \in Nat
    BY <1>2
  <2>6. m < n \/ n < m
    BY <1>1, <2>4
  <2>7. q[m] < q[n] \/ q[n] < q[m]
    BY <1>2, <2>4, <2>6
  <2> QED
    BY <2>4, <2>5, <2>7
<1>4. q \in Seq(S) /\ Len(q) = N
  BY <1>1, <1>2
<1> QED
  BY <1>1, <1>2, <1>3, <1>4 DEF q

-----------------------------------------------------------------------------
(* Types.                                                                    *)

Text == Seq(Piece)

CallSet == [id : Text, name : Text, arguments : Text, added : BOOLEAN, done : BOOLEAN]
CallTable == UNION {[D -> CallSet] : D \in SUBSET Index}

\* The items of a response.
OutputSet == Item \cup [type : {"message"}, d : Text] \cup [type : {"call"}, i : Index, d : Text]

StatsSet ==
    [usage : [UsageFields -> Option(0..MaxI64)], final_usage_seen : BOOLEAN,
     upstream_response_id : Option(STRING), response_output_items : Seq(OutputSet),
     tool_call_count : Nat, output_text : Text, reasoning_text : Text,
     completed : BOOLEAN, tool_calls : CallTable]

\* Internal events.
SpeechSet == [t : {"text", "reasoning"}, d : Text]
DeltaSet == [t : {"delta"}, i : Index, id : Option(Text), name : Option(Text),
             arguments : Option(Text)]
DoneSet == [t : {"done"}, i : Index, id : Text, name : Text, arguments : Text]
UsageEventSet == [t : {"usage"}, u : UsageSet]
FinishedSet == [t : {"finished"}, r : InternalFinishReason]
EventSet == SpeechSet \cup DeltaSet \cup DoneSet \cup UsageEventSet \cup FinishedSet

\* Those of a chat document hold texts as the upstream sent them.
ChatEventSet ==
    {e \in SpeechSet \cup DeltaSet \cup UsageEventSet \cup FinishedSet :
        /\ e.t = "text" => e.d \in Texts
        /\ e.t = "delta" => e.arguments \in Option(Texts)}

\* What the client is given.
SseSet ==
    [e : {"text"}, d : Texts]
        \cup [e : {"added"}, i : Index, id : Text, name : Text]
        \cup [e : {"delta"}, i : Index, id : Text, d : Texts]
        \cup [e : {"stated", "closed"}, i : Index, id : Text, name : Text, d : Text]
        \cup [e : {"completed"}, usage : Option(UsageSet), output : Seq(OutputSet)]
        \cup [e : {"keepalive"}]
        \cup [e : {"bytes"}, c : ChunkSet]
        \cup [e : {"event"}, lines : Seq(LineSet)]

DecSet ==
    [event_name : Option(STRING), data_lines : Seq(Document), event_buffer : Seq(LineSet),
     tool_calls : CallTable, completed : BOOLEAN, usage : Option(UsageSet),
     finish_reason : Option(InternalFinishReason)]

WorkSet == [dec : DecSet, stats : StatsSet, out : Seq(SseSet)]

\* A call is counted once.
DoneIn(calls) == {i \in DOMAIN calls : calls[i].done}
Counted(st) == st.tool_call_count = Cardinality(DoneIn(st.tool_calls))

-----------------------------------------------------------------------------
(* Tables of calls.                                                          *)

\* The texts an upstream sends are texts.
LEMMA TextFacts ==
  /\ Texts \subseteq Text /\ <<>> \in Text /\ Option(Texts) \subseteq Option(Text)
  /\ <<"raw">> \in Text /\ \A x, y \in Text : x \o y \in Text
  /\ \A x \in Text : x \o <<>> = x
<1>1. Texts \subseteq Text /\ "raw" \in Piece
  BY BridgeAssumption DEF Text
<1>2. <<>> \in Text /\ <<"raw">> \in Text
  BY <1>1 DEF Text
<1>3. \A x, y \in Text : x \o y \in Text
  BY DEF Text
<1>4. \A x \in Text : x \o <<>> = x
  BY ConcatEmptySeq DEF Text
<1> QED
  BY <1>1, <1>2, <1>3, <1>4 DEF Option

\* What a table holds.
LEMMA TableFacts ==
  ASSUME NEW calls \in CallTable
  PROVE  /\ DOMAIN calls \subseteq Index
         /\ \A i \in DOMAIN calls : calls[i] \in CallSet
         /\ IsFiniteSet(DOMAIN calls) /\ IsFiniteSet(DoneIn(calls))
         /\ DOMAIN calls \in SUBSET Nat
<1>1. PICK D \in SUBSET Index : calls \in [D -> CallSet]
  BY DEF CallTable
<1>2. DOMAIN calls = D /\ \A i \in D : calls[i] \in CallSet
  BY <1>1
<1>3. IsFiniteSet(D) /\ IsFiniteSet(DoneIn(calls))
  <2>1. DoneIn(calls) \in SUBSET Index
    BY <1>2 DEF DoneIn
  <2> QED
    BY <2>1, BridgeAssumption, FS_Subset
<1> QED
  BY <1>2, <1>3, BridgeAssumption

\* A table may be changed anywhere.
LEMMA TableMade ==
  ASSUME NEW D \in SUBSET Index, NEW calls \in [D -> CallSet]
  PROVE  calls \in CallTable
BY DEF CallTable

\* No calls.
LEMMA NoTable == <<>> \in CallTable /\ DOMAIN <<>> = {} /\ NoCall \in CallSet
<1>1. {} \in SUBSET Index /\ <<>> \in [{} -> CallSet]
  OBVIOUS
<1>2. NoCall \in CallSet
  BY TextFacts DEF NoCall, CallSet
<1> QED
  BY <1>1, <1>2, TableMade

\* The entry of a call.
LEMMA EntryFacts ==
  ASSUME NEW calls \in CallTable, NEW i \in Index
  PROVE  Entry(calls, i) \in CallSet
BY TableFacts, NoTable DEF Entry

\* A call is put into a table.
LEMMA PutFacts ==
  ASSUME NEW calls \in CallTable, NEW i \in Index, NEW c \in CallSet
  PROVE  /\ Put(calls, i, c) \in CallTable
         /\ DOMAIN Put(calls, i, c) = DOMAIN calls \cup {i}
         /\ Put(calls, i, c)[i] = c /\ Entry(Put(calls, i, c), i) = c
         /\ \A j \in DOMAIN calls : j # i => Put(calls, i, c)[j] = calls[j]
         /\ \A j \in Index : j # i => Entry(Put(calls, i, c), j) = Entry(calls, j)
<1> DEFINE p == Put(calls, i, c)
           D == DOMAIN calls \cup {i}
<1>1. /\ DOMAIN p = D /\ p[i] = c
      /\ \A j \in DOMAIN calls : j # i => p[j] = calls[j]
  BY DEF Put
<1>2. p \in [D -> CallSet] /\ D \in SUBSET Index
  <2>1. \A j \in DOMAIN calls : calls[j] \in CallSet /\ j \in Index
    BY TableFacts
  <2> QED
    BY <2>1 DEF Put
<1>3. p \in CallTable
  BY <1>2, TableMade
<1> HIDE DEF p
<1>4. Entry(p, i) = c /\ \A j \in Index : j # i => Entry(p, j) = Entry(calls, j)
  BY <1>1 DEF Entry
<1> QED
  BY <1>1, <1>3, <1>4 DEF p

\* A call that is done, or one that is not, is put into a table.
LEMMA PutDone ==
  ASSUME NEW calls \in CallTable, NEW i \in Index, NEW c \in CallSet
  PROVE  /\ Put(calls, i, c) \in CallTable
         /\ c.done => DoneIn(Put(calls, i, c)) = DoneIn(calls) \cup {i}
         /\ ~c.done => DoneIn(Put(calls, i, c)) = DoneIn(calls) \ {i}
<1> DEFINE p == Put(calls, i, c)
<1>1. /\ p \in CallTable /\ DOMAIN p = DOMAIN calls \cup {i} /\ p[i] = c
      /\ \A j \in DOMAIN calls : j # i => p[j] = calls[j]
  BY PutFacts, Zenon
<1> HIDE DEF p
<1>2. c.done => DoneIn(p) = DoneIn(calls) \cup {i}
  BY <1>1 DEF DoneIn
<1>3. ~c.done => DoneIn(p) = DoneIn(calls) \ {i}
  BY <1>1 DEF DoneIn
<1> QED
  BY <1>1, <1>2, <1>3 DEF p

-----------------------------------------------------------------------------
(* The record of an event.                                                   *)

\* What an event adds to the text.
SpokenIn(e) == IF e.t = "text" THEN e.d ELSE <<>>

\* The call of a delta or of a call that is done, as it is recorded.
Noted(c, e) ==
    [c EXCEPT !.id = IF Filled(e.id) THEN e.id ELSE @,
              !.name = IF Filled(e.name) THEN e.name ELSE @,
              !.arguments = IF e.arguments # None THEN @ \o e.arguments ELSE @]
Closed(c, e) ==
    [c EXCEPT !.done = TRUE,
              !.id = IF e.id # <<>> THEN e.id ELSE @,
              !.name = IF e.name # <<>> THEN e.name ELSE @,
              !.arguments = IF e.arguments # <<>> THEN e.arguments ELSE @]

\* The call a delta leaves.
LEMMA NotedFacts ==
  ASSUME NEW c \in CallSet, NEW e \in DeltaSet
  PROVE  /\ Noted(c, e) \in CallSet /\ Noted(c, e).done = c.done
         /\ Noted(c, e).arguments = IF e.arguments # None THEN c.arguments \o e.arguments
                                    ELSE c.arguments
<1>1. e.id \in Option(Text) /\ e.name \in Option(Text) /\ e.arguments \in Option(Text)
  BY DEF DeltaSet
<1>2. c.arguments \in Text /\ c.id \in Text /\ c.name \in Text
  BY DEF CallSet
<1>3. e.arguments # None => c.arguments \o e.arguments \in Text
  BY <1>1, <1>2, TextFacts DEF Option
<1> QED
  BY <1>1, <1>2, <1>3 DEF Noted, CallSet, Filled, Option

\* The call that is done.
LEMMA ClosedFacts ==
  ASSUME NEW c \in CallSet, NEW e \in DoneSet
  PROVE  /\ Closed(c, e) \in CallSet /\ Closed(c, e).done
         /\ Closed(c, e).arguments = IF e.arguments # <<>> THEN e.arguments ELSE c.arguments
BY DEF Closed, CallSet, DoneSet

\* Of an event that is about a call.
LEMMA RecordDelta ==
  ASSUME NEW st \in StatsSet, NEW e \in DeltaSet
  PROVE  LET r == record_event(st, e)
             c == Noted(Entry(st.tool_calls, e.i), e)
         IN  /\ r \in StatsSet /\ c \in CallSet /\ e.i \in Index
             /\ r.tool_calls = Put(st.tool_calls, e.i, c)
             /\ r.tool_call_count = st.tool_call_count /\ r.output_text = st.output_text
             /\ r.response_output_items = st.response_output_items
             /\ Counted(st) => Counted(r)
<1> DEFINE r == record_event(st, e)
           c0 == Entry(st.tool_calls, e.i)
           c == Noted(c0, e)
           table == Put(st.tool_calls, e.i, c)
<1>1. e.i \in Index /\ e.t = "delta" /\ st.tool_calls \in CallTable
  BY DEF DeltaSet, StatsSet
<1>2. c0 \in CallSet
  BY <1>1, EntryFacts
<1>3. r = [st EXCEPT !.tool_calls = table]
  BY <1>1 DEF record_event, record_delta, Noted
<1>4. c \in CallSet /\ c.done = c0.done
  BY <1>2, NotedFacts
<1>5. /\ table \in CallTable
      /\ c.done => DoneIn(table) = DoneIn(st.tool_calls) \cup {e.i}
      /\ ~c.done => DoneIn(table) = DoneIn(st.tool_calls) \ {e.i}
  <2> HIDE DEF c
  <2> QED
    BY <1>1, <1>4, PutDone, Zenon
<1>6. DoneIn(table) = DoneIn(st.tool_calls)
  <2>1. c0.done => e.i \in DoneIn(st.tool_calls)
    BY DEF Entry, NoCall, DoneIn
  <2>2. ~c0.done => e.i \notin DoneIn(st.tool_calls)
    BY DEF Entry, DoneIn
  <2> QED
    BY <1>4, <1>5, <2>1, <2>2
<1> HIDE DEF table, c
<1>7. /\ r \in StatsSet /\ r.tool_calls = table
      /\ r.tool_call_count = st.tool_call_count /\ r.output_text = st.output_text
      /\ r.response_output_items = st.response_output_items
  BY <1>3, <1>5 DEF StatsSet
<1> QED
  BY <1>1, <1>4, <1>6, <1>7 DEF Counted, c, table

\* What record_event does with a finished call: the call is counted the first time only.
LEMMA RecordDone ==
  ASSUME NEW st \in StatsSet, NEW e \in DoneSet
  PROVE  LET r == record_event(st, e)
             c0 == Entry(st.tool_calls, e.i)
             c == Closed(c0, e)
         IN  /\ r \in StatsSet /\ c \in CallSet /\ e.i \in Index
             /\ r.tool_calls = Put(st.tool_calls, e.i, c)
             /\ r.output_text = st.output_text
             /\ r.response_output_items = st.response_output_items
             /\ r.tool_call_count = st.tool_call_count + (IF c0.done THEN 0 ELSE 1)
             /\ Counted(st) => Counted(r)
<1> DEFINE r == record_event(st, e)
           c0 == Entry(st.tool_calls, e.i)
           c == Closed(c0, e)
           table == Put(st.tool_calls, e.i, c)
<1>1. e.i \in Index /\ e.t = "done" /\ st.tool_calls \in CallTable /\ st.tool_call_count \in Nat
  BY DEF DoneSet, StatsSet
<1>2. c0 \in CallSet
  BY <1>1, EntryFacts
<1>3. r = [st EXCEPT !.tool_call_count = IF c0.done THEN @ ELSE @ + 1, !.tool_calls = table]
  BY <1>1 DEF record_event, record_done, Closed
<1>4. c \in CallSet /\ c.done
  BY <1>2, ClosedFacts
<1>5. table \in CallTable /\ DoneIn(table) = DoneIn(st.tool_calls) \cup {e.i}
  <2> HIDE DEF c
  <2> QED
    BY <1>1, <1>4, PutDone, Zenon
<1>6. (c0.done <=> e.i \in DoneIn(st.tool_calls)) /\ c0.done \in BOOLEAN
  BY <1>2 DEF Entry, NoCall, DoneIn, CallSet
<1>7. Cardinality(DoneIn(table)) = Cardinality(DoneIn(st.tool_calls)) + (IF c0.done THEN 0 ELSE 1)
  <2>1. IsFiniteSet(DoneIn(st.tool_calls))
    BY <1>1, TableFacts
  <2>2. Cardinality(DoneIn(st.tool_calls)) \in Nat
    BY <2>1, FS_CardinalityType
  <2>3. Cardinality(DoneIn(table)) = IF e.i \in DoneIn(st.tool_calls)
                                     THEN Cardinality(DoneIn(st.tool_calls))
                                     ELSE Cardinality(DoneIn(st.tool_calls)) + 1
    BY <1>5, <2>1, FS_AddElement
  <2> HIDE DEF c0, table
  <2> QED
    BY <1>6, <2>2, <2>3
<1> HIDE DEF table, c
<1>8. /\ r \in StatsSet /\ r.tool_calls = table
      /\ r.tool_call_count = st.tool_call_count + (IF c0.done THEN 0 ELSE 1)
      /\ r.output_text = st.output_text
      /\ r.response_output_items = st.response_output_items
  <2> DEFINE k == IF c0.done THEN st.tool_call_count ELSE st.tool_call_count + 1
  <2>1. k \in Nat /\ k = st.tool_call_count + (IF c0.done THEN 0 ELSE 1)
    <3> HIDE DEF c0
    <3> QED
      BY <1>1
  <2>2. r = [st EXCEPT !.tool_call_count = k, !.tool_calls = table]
    BY <1>3
  <2> HIDE DEF k, r
  <2>3. /\ r \in StatsSet /\ r.tool_calls = table /\ r.tool_call_count = k
        /\ r.output_text = st.output_text
        /\ r.response_output_items = st.response_output_items
    BY <1>5, <2>1, <2>2 DEF StatsSet
  <2> QED
    BY <2>1, <2>3
<1> QED
  BY <1>1, <1>4, <1>7, <1>8 DEF Counted, c, table

\* Of an event that is about no call.
LEMMA RecordOther ==
  ASSUME NEW st \in StatsSet, NEW e \in SpeechSet \cup UsageEventSet \cup FinishedSet
  PROVE  LET r == record_event(st, e)
         IN  /\ r \in StatsSet
             /\ r.tool_calls = st.tool_calls /\ r.tool_call_count = st.tool_call_count
             /\ r.response_output_items = st.response_output_items
             /\ r.output_text = st.output_text \o SpokenIn(e)
<1> DEFINE r == record_event(st, e)
<1>1. st.output_text \in Text /\ st.reasoning_text \in Text
  BY DEF StatsSet
<1>2. CASE e \in SpeechSet
  <2>1. e.d \in Text /\ e.t \in {"text", "reasoning"}
    BY <1>2 DEF SpeechSet
  <2>2. /\ e.t = "text" => r = [st EXCEPT !.output_text = st.output_text \o e.d]
        /\ e.t = "reasoning" => r = [st EXCEPT !.reasoning_text = st.reasoning_text \o e.d]
    BY <2>1 DEF record_event
  <2>3. st.output_text \o e.d \in Text /\ st.reasoning_text \o e.d \in Text
        /\ st.output_text \o <<>> = st.output_text
    BY <1>1, <2>1, TextFacts
  <2>4. CASE e.t = "text"
    BY <2>2, <2>3, <2>4 DEF StatsSet, SpokenIn
  <2>5. CASE e.t = "reasoning"
    BY <2>2, <2>3, <2>5 DEF StatsSet, SpokenIn
  <2> QED
    BY <2>1, <2>4, <2>5
<1>3. CASE e \in UsageEventSet
  <2> DEFINE u == [f \in UsageFields |-> u64_to_i64(e.u[f])]
             seen == \E f \in UsageFields : e.u[f] # None
  <2>1. e.t = "usage" /\ e.u \in UsageSet
    BY <1>3 DEF UsageEventSet
  <2>2. r = [st EXCEPT !.usage = u, !.final_usage_seen = seen]
    BY <2>1 DEF record_event
  <2>3. u \in [UsageFields -> Option(0..MaxI64)] /\ seen \in BOOLEAN
    <3>1. ASSUME NEW f \in UsageFields PROVE u64_to_i64(e.u[f]) \in Option(0..MaxI64)
      <4>1. e.u[f] \in Option(Nat) /\ MaxI64 \in Nat
        BY <2>1, BridgeAssumption DEF UsageSet
      <4>2. CASE e.u[f] = None
        BY <4>2 DEF u64_to_i64, Option
      <4>3. CASE e.u[f] # None
        <5>1. e.u[f] \in Nat
          BY <4>1, <4>3 DEF Option
        <5> QED
          BY <4>1, <4>3, <5>1 DEF u64_to_i64, Option
      <4> QED
        BY <4>2, <4>3
    <3> QED
      BY <3>1
  <2>4. st.output_text \o SpokenIn(e) = st.output_text
    BY <1>1, <2>1, TextFacts DEF SpokenIn
  <2> HIDE DEF u, seen
  <2> QED
    BY <2>2, <2>3, <2>4 DEF StatsSet
<1>4. CASE e \in FinishedSet
  <2>1. r = [st EXCEPT !.completed = TRUE] /\ e.t = "finished"
    BY <1>4 DEF record_event, FinishedSet
  <2>2. st.output_text \o SpokenIn(e) = st.output_text
    BY <1>1, <2>1, TextFacts DEF SpokenIn
  <2> QED
    BY <2>1, <2>2 DEF StatsSet
<1> QED
  BY <1>2, <1>3, <1>4

\* Of any event.
LEMMA RecordFacts ==
  ASSUME NEW st \in StatsSet, NEW e \in EventSet
  PROVE  LET r == record_event(st, e)
         IN  /\ r \in StatsSet
             /\ Counted(st) => Counted(r)
             /\ r.response_output_items = st.response_output_items
             /\ r.output_text = st.output_text \o SpokenIn(e)
<1> DEFINE r == record_event(st, e)
<1>1. st.output_text \in Text
  BY DEF StatsSet
<1>2. CASE e \in DeltaSet
  <2>1. e.t = "delta" /\ st.output_text \o SpokenIn(e) = st.output_text
    BY <1>1, <1>2, TextFacts DEF SpokenIn, DeltaSet
  <2> QED
    BY <1>2, <2>1, RecordDelta
<1>3. CASE e \in DoneSet
  <2>1. e.t = "done" /\ st.output_text \o SpokenIn(e) = st.output_text
    BY <1>1, <1>3, TextFacts DEF SpokenIn, DoneSet
  <2> QED
    BY <1>3, <2>1, RecordDone
<1>4. CASE e \in SpeechSet \cup UsageEventSet \cup FinishedSet
  BY <1>4, RecordOther DEF Counted
<1> QED
  BY <1>2, <1>3, <1>4 DEF EventSet

-----------------------------------------------------------------------------
(* The events of a document.                                                 *)

\* The calls of a chat document that have an index.
LEMMA ToolDeltas ==
  ASSUME NEW tools \in Seq(ToolSet)
  PROVE  /\ decode_chat_tool_call_delta(tools) \in Seq(ToolSet)
         /\ \A n \in DOMAIN decode_chat_tool_call_delta(tools) :
                decode_chat_tool_call_delta(tools)[n].index \in Index
<1> DEFINE S == {n \in DOMAIN tools : tools[n].index # None}
           at == InOrder(S)
           N == Cardinality(S)
           r == [n \in DOMAIN at |-> tools[at[n]]]
<1>1. S \in SUBSET Nat /\ IsFiniteSet(S)
  <2>1. DOMAIN tools = 1..Len(tools) /\ Len(tools) \in Nat
    OBVIOUS
  <2>2. IsFiniteSet(1..Len(tools))
    BY <2>1, FS_Interval
  <2>3. S \subseteq 1..Len(tools)
    BY <2>1
  <2> QED
    BY <2>2, <2>3, FS_Subset
<1>2. N \in Nat /\ DOMAIN at = 1..N /\ \A n \in 1..N : at[n] \in S
  <2> HIDE DEF S
  <2> QED
    BY <1>1, InOrderFacts, Zenon
<1>3. decode_chat_tool_call_delta(tools) = r
  BY DEF decode_chat_tool_call_delta
<1> HIDE DEF at, N
<1>4. ASSUME NEW n \in 1..N PROVE tools[at[n]] \in ToolSet /\ tools[at[n]].index \in Index
  <2>1. at[n] \in DOMAIN tools /\ tools[at[n]].index # None
    BY <1>2
  <2>2. tools[at[n]] \in ToolSet
    BY <2>1
  <2> QED
    BY <2>1, <2>2 DEF ToolSet, Option
<1>5. r \in Seq(ToolSet) /\ DOMAIN r = 1..N /\ \A n \in 1..N : r[n].index \in Index
  BY <1>2, <1>4
<1> HIDE DEF r
<1> QED
  BY <1>3, <1>5

\* A reason to finish is one of the internal reasons.
LEMMA FinishReason ==
  ASSUME NEW choice \in ChoiceSet
  PROVE  finish_reason(choice) \in Option(InternalFinishReason)
BY DEF finish_reason, internal_finish_reason_from_str, InternalFinishReason, Option

\* What a chat document says.
LEMMA DecodedChat ==
  ASSUME NEW d \in Document \cup {NoData}, d.json = "chat", d.choice # None \/ d.usage # None
  PROVE  LET e == decode_chat_sse_event(d)
         IN  /\ e \in ChatSseSet /\ \A n \in DOMAIN e.tools : e.tools[n].index \in Index
             /\ e.text = IF d.choice = None THEN None
                         ELSE IF d.choice.content # None THEN d.choice.content
                         ELSE d.choice.refusal
<1>1. d \in ChatDocument
  BY DEF Document, NoData, ResponsesDocument
<1>2. d.usage \in Option(UsageSet) /\ d.choice \in Option(ChoiceSet)
  BY <1>1 DEF ChatDocument
<1>3. CASE d.choice = None
  <2>1. d.usage # None
    BY <1>3
  <2>2. decode_chat_sse_event(d) = [text |-> None, reasoning |-> None, tools |-> <<>>,
                                    finish |-> None, usage |-> d.usage]
    BY <1>3, <2>1 DEF decode_chat_sse_event
  <2> QED
    BY <1>2, <1>3, <2>2 DEF ChatSseSet, Option
<1>4. CASE d.choice # None
  <2> DEFINE c == d.choice
             text == IF c.content # None THEN c.content ELSE c.refusal
             reasoning == IF Filled(c.reasoning) THEN c.reasoning ELSE None
             tools == decode_chat_tool_call_delta(c.tools)
             f == finish_reason(c)
  <2>1. c \in ChoiceSet
    BY <1>2, <1>4 DEF Option
  <2>2. decode_chat_sse_event(d) = [text |-> text, reasoning |-> reasoning, tools |-> tools,
                                    finish |-> f, usage |-> d.usage]
    BY <1>4 DEF decode_chat_sse_event
  <2>3. text \in Option(Texts) /\ reasoning \in Option(Texts)
    BY <2>1 DEF ChoiceSet, Option
  <2>4. tools \in Seq(ToolSet) /\ \A n \in DOMAIN tools : tools[n].index \in Index
    BY <2>1, ToolDeltas DEF ChoiceSet
  <2>5. f \in Option(InternalFinishReason)
    BY <2>1, FinishReason
  <2> HIDE DEF text, reasoning, tools, f
  <2>6. decode_chat_sse_event(d).text = text /\ decode_chat_sse_event(d).tools = tools
        /\ decode_chat_sse_event(d) \in ChatSseSet
    BY <1>2, <2>2, <2>3, <2>4, <2>5 DEF ChatSseSet
  <2> QED
    BY <1>4, <2>4, <2>6 DEF text
<1> QED
  BY <1>3, <1>4

\* The text that events say, of which the first alone may say some.
Spoken(events) == IF events = <<>> THEN <<>> ELSE SpokenIn(events[1])
OneVoice(events) == \A n \in 2..Len(events) : events[n].t # "text"

\* The text comes first, and nothing else is text.
SilentSet == {e \in ChatEventSet : e.t # "text"}

\* What to_internal_events makes of a chunk: its text, and events that are silent.
LEMMA InternalEvents ==
  ASSUME NEW e \in ChatSseSet, \A n \in DOMAIN e.tools : e.tools[n].index \in Index
  PROVE  \E rest \in Seq(SilentSet) :
             to_internal_events(e) = SomeSeq(e.text, TextDelta) \o rest
<1> DEFINE s1 == SomeSeq(e.text, TextDelta)
           s2 == SomeSeq(e.reasoning, ReasoningDelta)
           s3 == [n \in DOMAIN e.tools |-> ToolCallDelta(e.tools[n].index, e.tools[n].id,
                                                   e.tools[n].name, e.tools[n].arguments)]
           s4 == SomeSeq(e.usage, UsageEvent)
           s5 == SomeSeq(e.finish, Finished)
<1>2. s2 \in Seq(SilentSet)
  <2>1. CASE e.reasoning = None
    BY <2>1 DEF SomeSeq
  <2>2. CASE e.reasoning # None
    <3>1. e.reasoning \in Text
      BY <2>2, TextFacts DEF ChatSseSet, Option
    <3>2. ReasoningDelta(e.reasoning) \in SilentSet
      BY <3>1 DEF ReasoningDelta, SilentSet, ChatEventSet, SpeechSet
    <3> QED
      BY <2>2, <3>2 DEF SomeSeq
  <2> QED
    BY <2>1, <2>2
<1>3. s3 \in Seq(SilentSet)
  <2> DEFINE tools == e.tools
  <2>1. tools \in Seq(ToolSet)
    BY DEF ChatSseSet
  <2> HIDE DEF tools
  <2>2. ASSUME NEW n \in DOMAIN tools
        PROVE  ToolCallDelta(tools[n].index, tools[n].id, tools[n].name, tools[n].arguments)
                   \in SilentSet
    <3>1. tools[n] \in ToolSet /\ tools[n].index \in Index
      BY <2>1, <2>2 DEF tools
    <3>2. /\ tools[n].id \in Option(Text) /\ tools[n].name \in Option(Text)
          /\ tools[n].arguments \in Option(Text) /\ tools[n].arguments \in Option(Texts)
      BY <3>1, TextFacts DEF ToolSet
    <3> QED
      BY <3>1, <3>2 DEF ToolCallDelta, SilentSet, ChatEventSet, DeltaSet
  <2>3. DOMAIN tools = 1..Len(tools) /\ Len(tools) \in Nat
    BY <2>1
  <2> QED
    BY <2>2, <2>3 DEF tools
<1>4. s4 \in Seq(SilentSet)
  <2>1. CASE e.usage = None
    BY <2>1 DEF SomeSeq
  <2>2. CASE e.usage # None
    <3>1. e.usage \in UsageSet
      BY <2>2 DEF ChatSseSet, Option
    <3>2. UsageEvent(e.usage) \in SilentSet
      BY <3>1 DEF UsageEvent, SilentSet, ChatEventSet, UsageEventSet
    <3> QED
      BY <2>2, <3>2 DEF SomeSeq
  <2> QED
    BY <2>1, <2>2
<1>5. s5 \in Seq(SilentSet)
  <2>1. CASE e.finish = None
    BY <2>1 DEF SomeSeq
  <2>2. CASE e.finish # None
    <3>1. e.finish \in InternalFinishReason
      BY <2>2 DEF ChatSseSet, Option
    <3>2. Finished(e.finish) \in SilentSet
      BY <3>1 DEF Finished, SilentSet, ChatEventSet, FinishedSet
    <3> QED
      BY <2>2, <3>2 DEF SomeSeq
  <2> QED
    BY <2>1, <2>2
<1>6. to_internal_events(e) = s1 \o (s2 \o s3 \o s4 \o s5)
  BY DEF to_internal_events
<1> HIDE DEF s1, s2, s3, s4, s5
<1>7. s2 \o s3 \o s4 \o s5 \in Seq(SilentSet)
  BY <1>2, <1>3, <1>4, <1>5
<1> QED
  BY <1>6, <1>7 DEF s1

\* The events of a chat document, or of no document.
LEMMA ChatEventsType ==
  ASSUME NEW d \in Document \cup {NoData}
  PROVE  /\ ChatEvents(d) \in Seq(ChatEventSet)
         /\ OneVoice(ChatEvents(d)) /\ Spoken(ChatEvents(d)) = TextOf(d)
<1> DEFINE e == decode_chat_sse_event(d)
<1>1. CASE ~(d.json = "chat" /\ (d.choice # None \/ d.usage # None))
  <2>1. e = None /\ TextOf(d) = <<>>
    BY <1>1 DEF decode_chat_sse_event, TextOf
  <2>2. ChatEvents(d) = <<>>
    BY <2>1 DEF ChatEvents
  <2> QED
    BY <2>1, <2>2 DEF OneVoice, Spoken
<1>2. CASE d.json = "chat" /\ (d.choice # None \/ d.usage # None)
  <2>1. /\ e \in ChatSseSet /\ \A n \in DOMAIN e.tools : e.tools[n].index \in Index
        /\ e.text = IF d.choice = None THEN None
                    ELSE IF d.choice.content # None THEN d.choice.content ELSE d.choice.refusal
    BY <1>2, DecodedChat
  <2>2. ChatEvents(d) = to_internal_events(e)
    BY <2>1, ChatSseAssumption DEF ChatEvents
  <2> HIDE DEF e
  <2> DEFINE s1 == SomeSeq(e.text, TextDelta)
  <2>3. PICK rest \in Seq(SilentSet) : to_internal_events(e) = s1 \o rest
    BY <2>1, InternalEvents
  <2>4. rest \in Seq(ChatEventSet) /\ \A n \in 1..Len(rest) : rest[n].t # "text"
    BY DEF SilentSet
  <2>5. TextOf(d) = IF e.text = None THEN <<>> ELSE e.text
    BY <1>2, <2>1 DEF TextOf, Default
  <2>6. CASE e.text = None
    <3>1. s1 \o rest = rest
      BY <2>6 DEF SomeSeq
    <3>2. OneVoice(rest) /\ Spoken(rest) = <<>>
      <4>1. rest # <<>> => 1 \in 1..Len(rest)
        BY EmptySeq
      <4> QED
        BY <2>4, <4>1 DEF OneVoice, Spoken, SpokenIn
    <3> QED
      BY <2>2, <2>3, <2>4, <2>5, <2>6, <3>1, <3>2
  <2>7. CASE e.text # None
    <3> DEFINE x == TextDelta(e.text)
               all == <<x>> \o rest
    <3>1. s1 = <<x>>
      BY <2>7 DEF SomeSeq
    <3>2. x \in ChatEventSet /\ x.t = "text" /\ x.d = e.text
      <4>1. e.text \in Texts /\ e.text \in Text
        BY <2>1, <2>7, TextFacts DEF ChatSseSet, Option
      <4> QED
        BY <4>1 DEF TextDelta, ChatEventSet, SpeechSet
    <3> HIDE DEF x
    <3>3. /\ all \in Seq(ChatEventSet) /\ Len(all) = Len(rest) + 1 /\ Len(rest) \in Nat
          /\ all[1] = x /\ \A n \in 2..Len(all) : all[n] = rest[n - 1]
      BY <2>4, <3>2
    <3> HIDE DEF all
    <3>4. OneVoice(all)
      <4>1. ASSUME NEW n \in 2..Len(all) PROVE all[n].t # "text"
        <5>1. n - 1 \in 1..Len(rest)
          BY <3>3
        <5> QED
          BY <2>4, <3>3, <5>1
      <4> QED
        BY <4>1 DEF OneVoice
    <3>5. Spoken(all) = e.text
      <4>1. all # <<>>
        BY <3>3
      <4> QED
        BY <3>2, <3>3, <4>1 DEF Spoken, SpokenIn
    <3> QED
      BY <2>2, <2>3, <2>5, <2>7, <3>1, <3>3, <3>4, <3>5 DEF all
  <2> QED
    BY <2>6, <2>7
<1> QED
  BY <1>1, <1>2

\* The document of an event.
LEMMA JoinedType ==
  ASSUME NEW lines \in Seq(Document)
  PROVE  Joined(lines) \in Document \cup {NoData}
<1>1. NoJson \in Document
  BY DEF NoJson, Document
<1>2. Len(lines) = 1 => lines[1] \in Document
  OBVIOUS
<1>3. Len(lines) \in Nat
  OBVIOUS
<1> QED
  BY <1>1, <1>2, <1>3 DEF Joined

\* An event, when there is one.
LEMMA SomeEvent ==
  ASSUME NEW S, NEW option, option # None => option \in S
  PROVE  SomeSeq(option, LAMBDA e : e) \in Seq(S)
<1>1. CASE option = None
  BY <1>1 DEF SomeSeq
<1>2. CASE option # None
  BY <1>2 DEF SomeSeq
<1> QED
  BY <1>1, <1>2

\* What a responses document holds.
LEMMA ResponsesShape ==
  ASSUME NEW d \in Document \cup {NoData}, d.json = "responses"
  PROVE  /\ d.response_id \in Option(STRING) /\ d.output \in Option(Seq(Item))
         /\ d.index \in Index /\ d.usage \in Option(UsageSet)
         /\ d.delta \in Option(Text) /\ d.id \in Option(Text) /\ d.name \in Option(Text)
         /\ d.arguments \in Option(Text)
         /\ Default(d.id) \in Text /\ Default(d.name) \in Text /\ Default(d.arguments) \in Text
<1>1. d \in ResponsesDocument
  BY DEF Document, NoData, ChatDocument
<1>2. /\ d.response_id \in Option(STRING) /\ d.output \in Option(Seq(Item))
      /\ d.index \in Index /\ d.usage \in Option(UsageSet)
      /\ d.delta \in Option(Texts) /\ d.id \in Option(Texts) /\ d.name \in Option(Texts)
      /\ d.arguments \in Option(Texts)
  BY <1>1 DEF ResponsesDocument
<1>3. \A x \in Option(Texts) : x \in Option(Text) /\ Default(x) \in Text
  BY TextFacts DEF Option, Default
<1> QED
  BY <1>2, <1>3

\* A text, a usage and the calls of a responses document.
LEMMA ResponsesParts ==
  ASSUME NEW d \in Document \cup {NoData}
  PROVE  /\ decode_responses_text_delta(d) \in Option(Text)
         /\ decode_responses_usage(d) \in Option(UsageSet)
<1>1. CASE d.json = "responses"
  <2>1. decode_responses_text_delta(d) \in Option(Text)
    BY <1>1, ResponsesShape DEF decode_responses_text_delta
  <2>2. CASE d.usage = None
    BY <1>1, <2>1, <2>2 DEF decode_responses_usage, Option
  <2>3. CASE d.usage # None
    <3> DEFINE u == d.usage
               total == IF u.total = None /\ u.input # None /\ u.output # None
                        THEN u.input + u.output ELSE u.total
    <3>1. u \in [UsageFields -> Option(Nat)]
      BY <1>1, <2>3, ResponsesShape DEF Option, UsageSet
    <3>2. u.input \in Option(Nat) /\ u.output \in Option(Nat) /\ u.total \in Option(Nat)
      BY <3>1 DEF UsageFields
    <3>3. total \in Option(Nat)
      <4>1. CASE u.total = None /\ u.input # None /\ u.output # None
        <5>1. u.input \in Nat /\ u.output \in Nat
          BY <3>2, <4>1 DEF Option
        <5> QED
          BY <4>1, <5>1 DEF Option
      <4> QED
        BY <3>2, <4>1
    <3>4. decode_responses_usage(d) = [u EXCEPT !.total = total]
      BY <1>1, <2>3 DEF decode_responses_usage
    <3> HIDE DEF total, u
    <3>5. [u EXCEPT !.total = total] \in UsageSet
      BY <3>1, <3>3, Updated DEF UsageSet
    <3> QED
      BY <2>1, <3>4, <3>5 DEF Option
  <2> QED
    BY <2>2, <2>3
<1>2. CASE d.json # "responses"
  <2>1. decode_responses_text_delta(d) \in Option(Text)
    BY <1>2, TextFacts DEF decode_responses_text_delta, Option
  <2> QED
    BY <1>2, <2>1 DEF decode_responses_usage, Option
<1> QED
  BY <1>1, <1>2

\* What the four decoders of a Responses call find, when they find anything.
LEMMA ResponsesCalls ==
  ASSUME NEW d \in Document \cup {NoData}
  PROVE  /\ decode_responses_function_call_added(d) # None
              => decode_responses_function_call_added(d) \in EventSet
         /\ decode_responses_function_call_arguments_delta(d) # None
              => decode_responses_function_call_arguments_delta(d) \in EventSet
         /\ decode_responses_function_call_arguments_done(d) # None
              => decode_responses_function_call_arguments_done(d) \in EventSet
         /\ decode_responses_output_item_done(d) # None
              => decode_responses_output_item_done(d) \in EventSet
<1>1. CASE d.json = "responses"
  <2> DEFINE filled == IF Filled(d.arguments) THEN d.arguments ELSE None
  <2>1. /\ d.index \in Index /\ d.delta \in Option(Text) /\ d.id \in Option(Text)
        /\ d.name \in Option(Text) /\ d.arguments \in Option(Text)
        /\ Default(d.id) \in Text /\ Default(d.name) \in Text /\ Default(d.arguments) \in Text
    BY <1>1, ResponsesShape
  <2>2. filled \in Option(Text) /\ None \in Option(Text)
    BY <2>1 DEF Option
  <2>3. /\ ToolCallDelta(d.index, d.id, d.name, filled) \in EventSet
        /\ ToolCallDelta(d.index, d.id, None, d.delta) \in EventSet
    <3> HIDE DEF filled
    <3> QED
      BY <2>1, <2>2 DEF ToolCallDelta, DeltaSet, EventSet
  <2>4. ToolCallDone(d.index, Default(d.id), Default(d.name), Default(d.arguments)) \in EventSet
    BY <2>1 DEF ToolCallDone, DoneSet, EventSet
  <2> QED
    BY <1>1, <2>3, <2>4 DEF decode_responses_function_call_added,
         decode_responses_function_call_arguments_delta,
         decode_responses_function_call_arguments_done, decode_responses_output_item_done
<1>2. CASE d.json # "responses"
  BY <1>2 DEF decode_responses_function_call_added,
       decode_responses_function_call_arguments_delta,
       decode_responses_function_call_arguments_done, decode_responses_output_item_done
<1> QED
  BY <1>1, <1>2

\* The events of a responses document.
LEMMA ResponsesEventsType ==
  ASSUME NEW d \in Document \cup {NoData}, NEW n
  PROVE  decode_responses_sse_event(n, d) \in Seq(EventSet)
<1> DEFINE t == decode_responses_text_delta(d)
           u == decode_responses_usage(d)
           q1 == SomeSeq(t, TextDelta)
           q2 == SomeSeq(t, ReasoningDelta)
           q3 == SomeSeq(decode_responses_function_call_added(d), LAMBDA e : e)
           q4 == SomeSeq(decode_responses_function_call_arguments_delta(d), LAMBDA e : e)
           q5 == SomeSeq(decode_responses_function_call_arguments_done(d), LAMBDA e : e)
           q6 == SomeSeq(decode_responses_output_item_done(d), LAMBDA e : e)
           q7 == SomeSeq(u, UsageEvent) \o <<Finished("Stop")>>
<1>1. t \in Option(Text) /\ u \in Option(UsageSet)
  BY ResponsesParts
<1> HIDE DEF t, u
<1>2. q1 \in Seq(EventSet) /\ q2 \in Seq(EventSet)
  <2>1. CASE t = None
    BY <2>1 DEF SomeSeq
  <2>2. CASE t # None
    <3>1. t \in Text
      BY <1>1, <2>2 DEF Option
    <3>2. TextDelta(t) \in EventSet /\ ReasoningDelta(t) \in EventSet
      BY <3>1 DEF TextDelta, ReasoningDelta, EventSet, SpeechSet
    <3> QED
      BY <2>2, <3>2 DEF SomeSeq
  <2> QED
    BY <2>1, <2>2
<1>3. q7 \in Seq(EventSet)
  <2>1. Finished("Stop") \in EventSet
    BY DEF Finished, EventSet, FinishedSet, InternalFinishReason
  <2>2. SomeSeq(u, UsageEvent) \in Seq(EventSet)
    <3>1. CASE u = None
      BY <3>1 DEF SomeSeq
    <3>2. CASE u # None
      <4>1. UsageEvent(u) \in EventSet
        BY <1>1, <3>2 DEF Option, UsageEvent, EventSet, UsageEventSet
      <4> QED
        BY <3>2, <4>1 DEF SomeSeq
    <3> QED
      BY <3>1, <3>2
  <2> HIDE DEF u
  <2> QED
    BY <2>1, <2>2
<1>4. q3 \in Seq(EventSet) /\ q4 \in Seq(EventSet) /\ q5 \in Seq(EventSet) /\ q6 \in Seq(EventSet)
  BY ResponsesCalls, SomeEvent
<1>5. <<>> \in Seq(EventSet)
  OBVIOUS
<1>6. decode_responses_sse_event(n, d) \in {q1, q2, q3, q4, q5, q6, q7, <<>>}
  BY DEF decode_responses_sse_event, t, u
<1> HIDE DEF q1, q2, q3, q4, q5, q6, q7
<1> QED
  BY <1>2, <1>3, <1>4, <1>5, <1>6

-----------------------------------------------------------------------------
(* The decoders of chat and of responses, which make nothing for the client. *)

\* A decoder at work has its types, and its record counts every call once.
Sound == {s \in WorkSet : Counted(s.stats)}

\* One that says nothing and leaves the rewriter's lines alone.
Quiet(out, held) == {s \in Sound : s.out = out /\ s.dec.event_buffer = held}

\* The parts of a decoder at work.
LEMMA SoundParts ==
  ASSUME NEW s \in Sound
  PROVE  /\ s \in WorkSet /\ Counted(s.stats)
         /\ s.dec \in DecSet /\ s.stats \in StatsSet /\ s.out \in Seq(SseSet)
         /\ s = [dec |-> s.dec, stats |-> s.stats, out |-> s.out]
         /\ s.dec.tool_calls \in CallTable
BY DEF Sound, WorkSet, DecSet

\* A decoder whose parts are these.
LEMMA PartsChanged ==
  ASSUME NEW s \in WorkSet, NEW d, NEW st
  PROVE  [s EXCEPT !.dec = d, !.stats = st] = [dec |-> d, stats |-> st, out |-> s.out]
<1> DEFINE r == [s EXCEPT !.dec = d]
<1>1. r = [dec |-> d, stats |-> s.stats, out |-> s.out]
  BY DEF WorkSet
<1>2. [s EXCEPT !.dec = d, !.stats = st] = [r EXCEPT !.stats = st]
  OBVIOUS
<1> HIDE DEF r
<1>3. [r EXCEPT !.stats = st] = [dec |-> d, stats |-> st, out |-> s.out]
  BY <1>1
<1> QED
  BY <1>2, <1>3

\* Both parts that a decoder writes when it speaks, replaced at once.
LEMMA SpeechChanged ==
  ASSUME NEW s \in WorkSet, NEW d, NEW out
  PROVE  [s EXCEPT !.dec = d, !.out = out] = [dec |-> d, stats |-> s.stats, out |-> out]
<1> DEFINE r == [s EXCEPT !.dec = d]
<1>1. r = [dec |-> d, stats |-> s.stats, out |-> s.out]
  BY DEF WorkSet
<1>2. [s EXCEPT !.dec = d, !.out = out] = [r EXCEPT !.out = out]
  OBVIOUS
<1> HIDE DEF r
<1>3. [r EXCEPT !.out = out] = [dec |-> d, stats |-> s.stats, out |-> out]
  BY <1>1
<1> QED
  BY <1>2, <1>3

\* A decoder put together from sound parts is sound.
LEMMA SoundMade ==
  ASSUME NEW d \in DecSet, NEW st \in StatsSet, NEW o \in Seq(SseSet), Counted(st)
  PROVE  [dec |-> d, stats |-> st, out |-> o] \in Sound
BY DEF Sound, WorkSet

\* The record changes, and nothing else.
LEMMA RecordSound ==
  ASSUME NEW s \in Sound, NEW e \in EventSet
  PROVE  /\ Record(s, e) \in Sound
         /\ Record(s, e).dec = s.dec /\ Record(s, e).out = s.out
         /\ Record(s, e).stats = record_event(s.stats, e)
         /\ Record(s, e).stats.output_text = s.stats.output_text \o SpokenIn(e)
         /\ Record(s, e).stats.response_output_items = s.stats.response_output_items
<1> DEFINE st == record_event(s.stats, e)
<1>1. /\ s.dec \in DecSet /\ s.stats \in StatsSet /\ s.out \in Seq(SseSet) /\ Counted(s.stats)
      /\ s \in WorkSet
  BY SoundParts
<1>2. /\ st \in StatsSet /\ Counted(st) /\ st.output_text = s.stats.output_text \o SpokenIn(e)
      /\ st.response_output_items = s.stats.response_output_items
  BY <1>1, RecordFacts
<1>3. Record(s, e) = [dec |-> s.dec, stats |-> st, out |-> s.out]
  BY <1>1 DEF Record, WorkSet
<1> HIDE DEF st
<1>4. Record(s, e) \in Sound
  BY <1>1, <1>2, <1>3, SoundMade
<1> QED
  BY <1>2, <1>3, <1>4 DEF st

\* Chat events are events.
LEMMA ChatEventsAreEvents == ChatEventSet \subseteq EventSet
BY DEF ChatEventSet, EventSet

\* The decoder's tables of calls are changed.
LEMMA CallsChanged ==
  ASSUME NEW s \in Sound, NEW calls \in CallTable
  PROVE  LET r == [s EXCEPT !.dec.tool_calls = calls]
         IN  /\ r \in Sound /\ r.out = s.out /\ r.stats = s.stats
             /\ r.dec = [s.dec EXCEPT !.tool_calls = calls] /\ r.dec.tool_calls = calls
             /\ r.dec.event_buffer = s.dec.event_buffer
             /\ r.dec.completed = s.dec.completed
             /\ r.dec.data_lines = s.dec.data_lines
<1> DEFINE d == [s.dec EXCEPT !.tool_calls = calls]
           r == [s EXCEPT !.dec.tool_calls = calls]
<1>1. /\ s.dec \in DecSet /\ s.stats \in StatsSet /\ s.out \in Seq(SseSet) /\ Counted(s.stats)
      /\ s \in WorkSet
  BY SoundParts
<1>2. /\ d \in DecSet /\ d.tool_calls = calls /\ d.event_buffer = s.dec.event_buffer
      /\ d.completed = s.dec.completed /\ d.data_lines = s.dec.data_lines
  BY <1>1 DEF DecSet
<1>3. r = [dec |-> d, stats |-> s.stats, out |-> s.out]
  BY <1>1 DEF WorkSet
<1> HIDE DEF d, r
<1>4. r \in Sound
  BY <1>1, <1>2, <1>3, SoundMade
<1> QED
  BY <1>2, <1>3, <1>4 DEF d, r

\* The call a delta leaves in the decoder's table.
Kept(c, e) ==
    [c EXCEPT !.id = IF e.id # None THEN e.id ELSE @,
              !.name = IF e.name # None THEN e.name ELSE @,
              !.arguments = IF e.arguments # None THEN @ \o e.arguments ELSE @]

\* A piece of a call leaves the entry a call.
LEMMA KeptFacts ==
  ASSUME NEW c \in CallSet, NEW e \in DeltaSet
  PROVE  Kept(c, e) \in CallSet
<1>1. e.id \in Option(Text) /\ e.name \in Option(Text) /\ e.arguments \in Option(Text)
  BY DEF DeltaSet
<1>2. c.arguments \in Text /\ c.id \in Text /\ c.name \in Text
  BY DEF CallSet
<1>3. e.arguments # None => c.arguments \o e.arguments \in Text
  BY <1>1, <1>2, TextFacts DEF Option
<1> QED
  BY <1>1, <1>2, <1>3 DEF Kept, CallSet, Option

\* An event of the pass-through is recorded and says nothing to the client.
LEMMA ChatStatsEventSound ==
  ASSUME NEW s \in Sound, NEW e \in ChatEventSet
  PROVE  LET r == ChatStatsEvent(s, e)
         IN  /\ r \in Quiet(s.out, s.dec.event_buffer)
             /\ r.stats.output_text = s.stats.output_text \o SpokenIn(e)
             /\ r.dec.data_lines = s.dec.data_lines
<1>1. e \in EventSet
  BY ChatEventsAreEvents
<1>2. CASE e.t = "delta"
  <2> DEFINE c == Kept(Entry(s.dec.tool_calls, e.i), e)
             table == Put(s.dec.tool_calls, e.i, c)
             w == [s EXCEPT !.dec.tool_calls = table]
  <2>1. e \in DeltaSet
    BY <1>2 DEF ChatEventSet, SpeechSet, UsageEventSet, FinishedSet
  <2>2. e.i \in Index /\ s.dec.tool_calls \in CallTable
    BY <2>1, SoundParts DEF DeltaSet
  <2>3. c \in CallSet
    BY <2>1, <2>2, EntryFacts, KeptFacts
  <2>4. table \in CallTable
    <3> HIDE DEF c
    <3> QED
      BY <2>2, <2>3, PutFacts, Zenon
  <2>5. ChatStatsEvent(s, e) = Record(w, e)
    BY <1>2 DEF ChatStatsEvent, Kept
  <2> HIDE DEF table
  <2>6. /\ w \in Sound /\ w.out = s.out /\ w.stats = s.stats
        /\ w.dec.event_buffer = s.dec.event_buffer /\ w.dec.data_lines = s.dec.data_lines
    BY <2>4, CallsChanged
  <2> HIDE DEF w
  <2>7. /\ Record(w, e) \in Sound /\ Record(w, e).dec = w.dec /\ Record(w, e).out = w.out
        /\ Record(w, e).stats.output_text = w.stats.output_text \o SpokenIn(e)
    BY <1>1, <2>6, RecordSound
  <2> QED
    BY <2>5, <2>6, <2>7 DEF Quiet
<1>3. CASE e.t # "delta"
  <2>1. ChatStatsEvent(s, e) = Record(s, e)
    BY <1>3 DEF ChatStatsEvent
  <2> QED
    BY <1>1, <2>1, RecordSound DEF Quiet
<1> QED
  BY <1>2, <1>3

\* The call of a table that is done.
LEMMA MarkedDone ==
  ASSUME NEW calls \in CallTable, NEW i \in DOMAIN calls
  PROVE  LET r == [calls EXCEPT ![i].done = TRUE]
         IN  /\ r \in CallTable /\ DOMAIN r = DOMAIN calls /\ r[i].done
             /\ r[i].arguments = calls[i].arguments
             /\ \A j \in DOMAIN calls : j # i => r[j] = calls[j]
             /\ i \in Index /\ calls[i] \in CallSet
<1> DEFINE c == [calls[i] EXCEPT !.done = TRUE]
           r == [calls EXCEPT ![i].done = TRUE]
<1>1. /\ \A j \in DOMAIN calls : calls[j] \in CallSet
      /\ DOMAIN calls \in SUBSET Index /\ i \in Index
  BY TableFacts
<1>2. c \in CallSet /\ c.done /\ c.arguments = calls[i].arguments
  BY <1>1 DEF CallSet
<1>3. DOMAIN r = DOMAIN calls /\ r[i] = c /\ \A j \in DOMAIN calls : j # i => r[j] = calls[j]
  OBVIOUS
<1>4. r \in [DOMAIN calls -> CallSet]
  <2>1. r = [j \in DOMAIN calls |-> IF j = i THEN c ELSE calls[j]]
    OBVIOUS
  <2> HIDE DEF r, c
  <2> QED
    BY <1>1, <1>2, <2>1
<1> HIDE DEF r, c
<1>5. r \in CallTable
  BY <1>1, <1>4, TableMade
<1> QED
  BY <1>1, <1>2, <1>3, <1>5 DEF r

\* What is said when a call is done.
LEMMA DoneEvent ==
  ASSUME NEW i \in Index, NEW c \in CallSet
  PROVE  ToolCallDone(i, c.id, c.name, c.arguments) \in DoneSet
BY DEF ToolCallDone, DoneSet, CallSet

\* Completing a call of the pass-through says nothing to the client.
LEMMA CompleteCallSound ==
  ASSUME NEW s \in Sound, NEW i \in DOMAIN s.dec.tool_calls
  PROVE  LET r == CompleteCall(s, i)
         IN  /\ r \in Quiet(s.out, s.dec.event_buffer)
             /\ DOMAIN r.dec.tool_calls = DOMAIN s.dec.tool_calls
             /\ r.stats.output_text = s.stats.output_text
             /\ r.dec.data_lines = s.dec.data_lines
<1> DEFINE calls == s.dec.tool_calls
           c == calls[i]
           table == [calls EXCEPT ![i].done = TRUE]
           w == [s EXCEPT !.dec.tool_calls = table]
           e == ToolCallDone(i, c.id, c.name, c.arguments)
<1>1. s.dec \in DecSet /\ s.stats \in StatsSet /\ s \in WorkSet /\ calls \in CallTable
  BY SoundParts
<1>2. CASE c.done
  BY <1>2 DEF CompleteCall, Quiet
<1>3. CASE ~c.done
  <2>1. table \in CallTable /\ DOMAIN table = DOMAIN calls /\ i \in Index /\ c \in CallSet
    <3> HIDE DEF calls
    <3>1. i \in DOMAIN calls
      BY DEF calls
    <3> QED
      BY <1>1, <3>1, MarkedDone
  <2>2. e \in EventSet /\ e.t = "done"
    <3>1. e \in DoneSet
      BY <2>1, DoneEvent
    <3> QED
      BY <3>1 DEF EventSet, DoneSet
  <2>3. CompleteCall(s, i) = Record(w, e)
    <3>1. [s EXCEPT !.dec.tool_calls[i].done = TRUE] = w
      BY <1>1 DEF WorkSet, DecSet
    <3> QED
      BY <1>3, <3>1 DEF CompleteCall
  <2> HIDE DEF table, e
  <2>4. /\ w \in Sound /\ w.out = s.out /\ w.stats = s.stats /\ w.dec.tool_calls = table
        /\ w.dec.event_buffer = s.dec.event_buffer /\ w.dec.data_lines = s.dec.data_lines
    BY <2>1, CallsChanged
  <2> HIDE DEF w
  <2>5. /\ Record(w, e) \in Sound /\ Record(w, e).dec = w.dec /\ Record(w, e).out = w.out
        /\ Record(w, e).stats.output_text = w.stats.output_text \o SpokenIn(e)
    BY <2>2, <2>4, RecordSound
  <2>6. w.stats.output_text \o SpokenIn(e) = s.stats.output_text
    BY <1>1, <2>2, <2>4, TextFacts DEF SpokenIn, StatsSet
  <2> QED
    BY <2>1, <2>3, <2>4, <2>5, <2>6 DEF Quiet
<1> QED
  BY <1>2, <1>3

\* The calls completed, in order.
LEMMA CompleteCallsSound ==
  ASSUME NEW s \in Sound
  PROVE  LET r == CompleteCalls(s, InOrder(DOMAIN s.dec.tool_calls))
         IN  /\ r \in Quiet(s.out, s.dec.event_buffer)
             /\ r.stats.output_text = s.stats.output_text
             /\ r.dec.data_lines = s.dec.data_lines
<1> DEFINE D == DOMAIN s.dec.tool_calls
           xs == InOrder(D)
           o == s.out
           b == s.dec.event_buffer
           t == s.stats.output_text
           l == s.dec.data_lines
           V == {r \in Sound : /\ r.out = o /\ r.dec.event_buffer = b
                               /\ r.stats.output_text = t /\ r.dec.data_lines = l
                               /\ DOMAIN r.dec.tool_calls = D}
<1>1. D \in SUBSET Nat /\ IsFiniteSet(D)
  BY SoundParts, TableFacts
<1>2. s \in V
  OBVIOUS
<1> HIDE DEF D, o, b, t, l
<1>3. Len(xs) \in Nat /\ \A n \in 1..Len(xs) : xs[n] \in D
  BY <1>1, InOrderFacts
<1> HIDE DEF xs
<1>4. ASSUME NEW r \in V, NEW n \in 1..Len(xs) PROVE CompleteCall(r, xs[n]) \in V
  <2>1. r \in Sound /\ xs[n] \in DOMAIN r.dec.tool_calls
    BY <1>3
  <2>2. /\ CompleteCall(r, xs[n]) \in Quiet(r.out, r.dec.event_buffer)
        /\ DOMAIN CompleteCall(r, xs[n]).dec.tool_calls = DOMAIN r.dec.tool_calls
        /\ CompleteCall(r, xs[n]).stats.output_text = r.stats.output_text
        /\ CompleteCall(r, xs[n]).dec.data_lines = r.dec.data_lines
    BY <2>1, CompleteCallSound, Zenon
  <2> QED
    BY <2>2 DEF Quiet
<1> HIDE DEF V
<1>5. CompleteCalls(s, xs) \in V
  <2>1. \A r \in V : \A n \in 1..Len(xs) : CompleteCall(r, xs[n]) \in V
    BY <1>4
  <2> QED
    BY <1>2, <1>3, <2>1, CompleteCallsRun, Zenon
<1> QED
  BY <1>5 DEF V, D, o, b, t, l, xs, Quiet

\* The lines of an event are set aside.
WithLines(s, lines, c) == [s EXCEPT !.dec = [@ EXCEPT !.data_lines = lines, !.completed = c]]

\* Setting lines aside changes nothing but the decoder.
LEMMA DecChanged ==
  ASSUME NEW s \in Sound, NEW lines \in Seq(Document), NEW c \in BOOLEAN
  PROVE  LET r == WithLines(s, lines, c)
         IN  /\ r \in Quiet(s.out, s.dec.event_buffer) /\ r.stats = s.stats
             /\ r.dec.data_lines = lines /\ r.dec.completed = c
             /\ r.dec.tool_calls = s.dec.tool_calls
             /\ r.out = s.out
<1> DEFINE d == [s.dec EXCEPT !.data_lines = lines, !.completed = c]
           r == WithLines(s, lines, c)
<1>1. /\ s.dec \in DecSet /\ s.stats \in StatsSet /\ s.out \in Seq(SseSet) /\ Counted(s.stats)
      /\ s \in WorkSet
  BY SoundParts
<1>2. /\ d \in DecSet /\ d.data_lines = lines /\ d.event_buffer = s.dec.event_buffer
      /\ d.tool_calls = s.dec.tool_calls /\ d.completed = c
  BY <1>1 DEF DecSet
<1>3. r = [dec |-> d, stats |-> s.stats, out |-> s.out]
  BY <1>1 DEF WorkSet, WithLines
<1> HIDE DEF d, r
<1>4. r \in Sound
  BY <1>1, <1>2, <1>3, SoundMade
<1> QED
  BY <1>2, <1>3, <1>4 DEF r, Quiet

\* The same for the lines alone, and for the end-of-stream mark written after them.
LEMMA DecLines ==
  ASSUME NEW s \in Sound, NEW lines \in Seq(Document)
  PROVE  LET r == [s EXCEPT !.dec.data_lines = lines]
         IN  /\ r \in Quiet(s.out, s.dec.event_buffer) /\ r.stats = s.stats
             /\ r.dec.data_lines = lines /\ r.dec.completed = s.dec.completed
             /\ r.dec.tool_calls = s.dec.tool_calls /\ r.out = s.out
             /\ [r EXCEPT !.dec.completed = TRUE] = WithLines(s, lines, TRUE)
<1>1. s \in WorkSet /\ s.dec \in DecSet /\ s.dec.completed \in BOOLEAN
  BY SoundParts DEF DecSet
<1> DEFINE r == [s EXCEPT !.dec.data_lines = lines]
           q == WithLines(s, lines, s.dec.completed)
<1>2. r = q
  <2>1. [s.dec EXCEPT !.data_lines = lines]
            = [s.dec EXCEPT !.data_lines = lines, !.completed = s.dec.completed]
    BY <1>1 DEF DecSet
  <2> QED
    BY <2>1 DEF WithLines
<1>3. /\ q \in Quiet(s.out, s.dec.event_buffer) /\ q.stats = s.stats
      /\ q.dec.data_lines = lines /\ q.dec.completed = s.dec.completed
      /\ q.dec.tool_calls = s.dec.tool_calls /\ q.out = s.out
  BY <1>1, DecChanged
<1>4. [r EXCEPT !.dec.completed = TRUE] = WithLines(s, lines, TRUE)
  BY <1>1 DEF WorkSet, DecSet, WithLines
<1> HIDE DEF r, q
<1> QED
  BY <1>2, <1>3, <1>4 DEF r

\* The calls are completed, once.
LEMMA CompleteSound ==
  ASSUME NEW s \in Sound
  PROVE  LET r == complete(s)
         IN  /\ r \in Quiet(s.out, s.dec.event_buffer)
             /\ r.stats.output_text = s.stats.output_text
             /\ r.dec.data_lines = s.dec.data_lines
<1>1. CASE s.dec.completed
  BY <1>1 DEF complete, Quiet
<1>2. CASE ~s.dec.completed
  <2> DEFINE w == [s EXCEPT !.dec.completed = TRUE]
             w1 == CompleteCalls(w, InOrder(DOMAIN s.dec.tool_calls))
             e == Finished("Stop")
  <2>1. /\ w \in Sound /\ w.out = s.out /\ w.dec.event_buffer = s.dec.event_buffer
        /\ w.stats = s.stats /\ w.dec.tool_calls = s.dec.tool_calls
        /\ w.dec.data_lines = s.dec.data_lines
    <3>1. s \in WorkSet /\ s.dec \in DecSet /\ s.dec.data_lines \in Seq(Document)
      BY SoundParts DEF DecSet
    <3>2. w = WithLines(s, s.dec.data_lines, TRUE)
      <4>1. [s.dec EXCEPT !.completed = TRUE]
                = [s.dec EXCEPT !.data_lines = s.dec.data_lines, !.completed = TRUE]
        BY <3>1 DEF DecSet
      <4> QED
        BY <4>1 DEF WithLines
    <3> HIDE DEF w
    <3> QED
      BY <3>1, <3>2, DecChanged DEF Quiet
  <2>2. complete(s) = Record(w1, e)
    BY <1>2 DEF complete
  <2> HIDE DEF w
  <2>3. /\ w1 \in Quiet(w.out, w.dec.event_buffer)
        /\ w1.stats.output_text = w.stats.output_text
        /\ w1.dec.data_lines = w.dec.data_lines
    BY <2>1, CompleteCallsSound
  <2> HIDE DEF w1
  <2>4. e \in EventSet /\ e.t = "finished"
    BY DEF Finished, EventSet, FinishedSet, InternalFinishReason
  <2>5. w1 \in Sound /\ w1.stats.output_text \in Text
    BY <2>3, SoundParts DEF Quiet, StatsSet
  <2>6. /\ Record(w1, e) \in Sound /\ Record(w1, e).dec = w1.dec /\ Record(w1, e).out = w1.out
        /\ Record(w1, e).stats.output_text = w1.stats.output_text \o SpokenIn(e)
    <3> HIDE DEF e
    <3> QED
      BY <2>4, <2>5, RecordSound
  <2>7. w1.stats.output_text \o SpokenIn(e) = w1.stats.output_text
    BY <2>4, <2>5, TextFacts DEF SpokenIn
  <2> HIDE DEF e
  <2> QED
    BY <2>1, <2>2, <2>3, <2>6, <2>7 DEF Quiet
<1> QED
  BY <1>1, <1>2

\* The chat decoder's events.
LEMMA ChatStatsEventsSound ==
  ASSUME NEW s \in Sound, NEW xs \in Seq(ChatEventSet), OneVoice(xs)
  PROVE  LET r == ChatStatsEvents(s, xs)
         IN  /\ r \in Quiet(s.out, s.dec.event_buffer)
             /\ r.stats.output_text = s.stats.output_text \o Spoken(xs)
             /\ r.dec.data_lines = s.dec.data_lines
<1> DEFINE N == Len(xs)
           o == s.out
           b == s.dec.event_buffer
           l == s.dec.data_lines
           V == {r \in Sound : r.out = o /\ r.dec.event_buffer = b /\ r.dec.data_lines = l}
<1>1. N \in Nat /\ \A n \in 1..N : xs[n] \in ChatEventSet
  OBVIOUS
<1>2. s \in V
  OBVIOUS
<1> HIDE DEF o, b, l
<1>3. ASSUME NEW r \in V, NEW n \in 1..N PROVE ChatStatsEvent(r, xs[n]) \in V
  <2>1. r \in Sound /\ xs[n] \in ChatEventSet
    BY <1>1
  <2>2. /\ ChatStatsEvent(r, xs[n]) \in Quiet(r.out, r.dec.event_buffer)
        /\ ChatStatsEvent(r, xs[n]).dec.data_lines = r.dec.data_lines
    BY <2>1, ChatStatsEventSound, Zenon
  <2> QED
    BY <2>2 DEF Quiet
<1> HIDE DEF V
<1>4. PICK f \in [0..N -> V] :
          /\ f[0] = s
          /\ \A n \in 1..N : f[n] = ChatStatsEvent(f[n - 1], xs[n])
          /\ ChatStatsEvents(s, xs) = f[N]
  <2>1. \A r \in V : \A n \in 1..Len(xs) : ChatStatsEvent(r, xs[n]) \in V
    BY <1>3
  <2>2. Len(xs) \in Nat
    BY <1>1
  <2>3. PICK f : ChatStatsEventsIn(f, V, s, xs)
    BY <1>2, <2>1, <2>2, ChatStatsEventsRun, Zenon
  <2> QED
    BY <2>3, Zenon DEF ChatStatsEventsIn
<1> DEFINE At(n) == f[n].stats.output_text
                       = s.stats.output_text \o (IF n = 0 THEN <<>> ELSE SpokenIn(xs[1]))
           T == {n \in 0..N : At(n)}
<1> HIDE DEF N
<1>5. s.stats.output_text \in Text
  BY SoundParts DEF StatsSet
<1>6. 0 \in T
  <2>1. 0 \in 0..N /\ f[0] = s /\ s.stats.output_text \o <<>> = s.stats.output_text
    BY <1>1, <1>4, <1>5, TextFacts
  <2> QED
    BY <2>1
<1>7. ASSUME NEW n \in 0..N, n < N, n \in T PROVE n + 1 \in T
  <2>1. n + 1 \in 1..N /\ n + 1 \in 0..N /\ (n + 1) - 1 = n
    BY <1>1, <1>7
  <2>2. f[n] \in Sound /\ xs[n + 1] \in ChatEventSet /\ f[n + 1] = ChatStatsEvent(f[n], xs[n + 1])
    BY <1>1, <1>4, <2>1 DEF V
  <2>3. f[n + 1].stats.output_text = f[n].stats.output_text \o SpokenIn(xs[n + 1])
    BY <2>2, ChatStatsEventSound
  <2>4. CASE n = 0
    <3>1. f[n].stats.output_text = s.stats.output_text /\ xs[n + 1] = xs[1] /\ n + 1 # 0
      BY <1>4, <2>4
    <3> QED
      BY <2>1, <2>3, <3>1
  <2>5. CASE n # 0
    <3>1. n + 1 \in 2..N /\ n + 1 # 0
      BY <1>1, <1>7, <2>5
    <3>2. xs[n + 1].t # "text"
      BY <3>1 DEF OneVoice, N
    <3>3. f[n].stats.output_text \in Text
      BY <2>2, SoundParts DEF StatsSet
    <3>4. f[n + 1].stats.output_text = f[n].stats.output_text
      BY <2>3, <3>2, <3>3, TextFacts DEF SpokenIn
    <3>5. At(n)
      BY <1>7
    <3> QED
      BY <2>1, <2>5, <3>1, <3>4, <3>5
  <2> QED
    BY <2>4, <2>5
<1>8. At(N)
  <2>1. \A n \in 0..N : n \in T
    <3> HIDE DEF T
    <3> QED
      BY <1>1, <1>6, <1>7, BoundedInduction
  <2>2. N \in T
    BY <1>1, <2>1
  <2> QED
    BY <2>2
<1>9. (IF N = 0 THEN <<>> ELSE SpokenIn(xs[1])) = Spoken(xs)
  BY <1>1, EmptySeq DEF Spoken, N
<1>10. f[N] \in V
  BY <1>1, <1>4
<1> QED
  BY <1>4, <1>8, <1>9, <1>10 DEF V, o, b, l, Quiet

\* The chat decoder at the end of an event.
LEMMA FlushChat ==
  ASSUME NEW s \in Sound
  PROVE  LET r == flush_event_chat(s)
         IN  /\ r \in Quiet(s.out, s.dec.event_buffer)
             /\ r.stats.output_text = s.stats.output_text \o TextOf(Joined(s.dec.data_lines))
             /\ r.dec.data_lines = <<>>
<1> DEFINE lines == s.dec.data_lines
           d == Joined(lines)
           w == [s EXCEPT !.dec.data_lines = <<>>]
<1>1. lines \in Seq(Document) /\ s.stats.output_text \in Text
  BY SoundParts DEF DecSet, StatsSet
<1>2. d \in Document \cup {NoData}
  <2> HIDE DEF lines
  <2> QED
    BY <1>1, JoinedType
<1>3. /\ w \in Sound /\ w.out = s.out /\ w.dec.event_buffer = s.dec.event_buffer
      /\ w.stats = s.stats /\ w.dec.data_lines = <<>>
  <2>1. <<>> \in Seq(Document)
    OBVIOUS
  <2> QED
    BY <2>1, DecLines DEF Quiet
<1> HIDE DEF w
<1>4. CASE lines = <<>>
  <2>1. d = NoData /\ d # Done
    BY <1>4 DEF Joined, NoData, Done
  <2>2. TextOf(d) = <<>>
    BY <2>1 DEF NoData, TextOf
  <2>3. flush_event_chat(s) = w
    BY <1>4, <2>1 DEF flush_event_chat, w
  <2> QED
    BY <1>1, <1>3, <2>2, <2>3, TextFacts DEF Quiet
<1>5. CASE lines # <<>> /\ d = Done
  <2>1. flush_event_chat(s) = complete(w)
    BY <1>5 DEF flush_event_chat, w
  <2>2. TextOf(d) = <<>>
    BY <1>5 DEF Done, TextOf
  <2>3. /\ complete(w) \in Quiet(w.out, w.dec.event_buffer)
        /\ complete(w).stats.output_text = w.stats.output_text
        /\ complete(w).dec.data_lines = w.dec.data_lines
    BY <1>3, CompleteSound
  <2> QED
    BY <1>1, <1>3, <2>1, <2>2, <2>3, TextFacts DEF Quiet
<1>6. CASE lines # <<>> /\ d # Done
  <2> DEFINE xs == ChatEvents(d)
  <2>1. flush_event_chat(s) = ChatStatsEvents(w, xs)
    BY <1>6 DEF flush_event_chat, w
  <2> HIDE DEF d
  <2>2. xs \in Seq(ChatEventSet) /\ OneVoice(xs) /\ Spoken(xs) = TextOf(d)
    BY <1>2, ChatEventsType
  <2> HIDE DEF xs
  <2>3. /\ ChatStatsEvents(w, xs) \in Quiet(w.out, w.dec.event_buffer)
        /\ ChatStatsEvents(w, xs).stats.output_text = w.stats.output_text \o Spoken(xs)
        /\ ChatStatsEvents(w, xs).dec.data_lines = w.dec.data_lines
    BY <1>3, <2>2, ChatStatsEventsSound
  <2> QED
    BY <1>3, <2>1, <2>2, <2>3 DEF d
<1> QED
  BY <1>4, <1>5, <1>6

\* The responses decoder at the end of an event.
LEMMA FlushResponses ==
  ASSUME NEW s \in Sound
  PROVE  record_event_responses(s) \in Quiet(s.out, s.dec.event_buffer)
<1> DEFINE doc == Joined(s.dec.data_lines)
           id == decode_responses_response_id(doc)
           items == decode_responses_output_items(doc)
           id1 == IF id # None THEN id ELSE s.stats.upstream_response_id
           items1 == IF items # None THEN items ELSE s.stats.response_output_items
           d == [s.dec EXCEPT !.event_name = None, !.data_lines = <<>>]
           st == [s.stats EXCEPT !.upstream_response_id = id1, !.response_output_items = items1]
           w == [dec |-> d, stats |-> st, out |-> s.out]
           xs == decode_responses_sse_event(s.dec.event_name, doc)
<1>1. /\ s.dec \in DecSet /\ s.stats \in StatsSet /\ s.out \in Seq(SseSet) /\ Counted(s.stats)
      /\ s \in WorkSet
  BY SoundParts
<1>2. doc \in Document \cup {NoData}
  <2>1. s.dec.data_lines \in Seq(Document)
    BY <1>1 DEF DecSet
  <2> QED
    BY <2>1, JoinedType
<1> DEFINE w0 == [s EXCEPT !.dec.event_name = None, !.dec.data_lines = <<>>,
                           !.stats.upstream_response_id = IF id # None THEN id ELSE @,
                           !.stats.response_output_items = IF items # None THEN items ELSE @]
<1>3. record_event_responses(s) = RecordEvents(w, xs)
  <2>1. record_event_responses(s) = RecordEvents(w0, xs)
    BY DEF record_event_responses
  <2> HIDE DEF id, items, doc
  <2>2. w0 = [s EXCEPT !.dec = d, !.stats = st]
    BY <1>1 DEF WorkSet
  <2> HIDE DEF d, st, w0
  <2>3. [s EXCEPT !.dec = d, !.stats = st] = w
    BY <1>1, PartsChanged
  <2> QED
    BY <2>1, <2>2, <2>3
<1> HIDE DEF doc
<1>4. xs \in Seq(EventSet)
  BY <1>2, ResponsesEventsType
<1>5. id1 \in Option(STRING) /\ items1 \in Seq(OutputSet)
  <2>1. id \in Option(STRING)
    BY <1>2, ResponsesShape DEF decode_responses_response_id, Option
  <2>2. items # None => items \in Seq(Item)
    BY <1>2, ResponsesShape DEF decode_responses_output_items, Option
  <2>3. items # None => items \in Seq(OutputSet)
    BY <2>2 DEF OutputSet
  <2>4. s.stats.upstream_response_id \in Option(STRING)
        /\ s.stats.response_output_items \in Seq(OutputSet)
    BY <1>1 DEF StatsSet
  <2> QED
    BY <2>1, <2>3, <2>4
<1> HIDE DEF id1, items1
<1>6. /\ st \in StatsSet /\ st.tool_calls = s.stats.tool_calls
      /\ st.tool_call_count = s.stats.tool_call_count
  BY <1>1, <1>5 DEF StatsSet
<1>7. d \in DecSet /\ d.event_buffer = s.dec.event_buffer
  <2>1. None \in Option(STRING) /\ <<>> \in Seq(Document)
    BY DEF Option
  <2> QED
    BY <1>1, <2>1 DEF DecSet
<1> HIDE DEF st, d, xs
<1>8. w \in Sound
  <2>1. Counted(st)
    BY <1>1, <1>6 DEF Counted
  <2> QED
    BY <1>1, <1>6, <1>7, <2>1, SoundMade
<1> DEFINE V == Quiet(s.out, s.dec.event_buffer)
<1>9. w \in V
  BY <1>7, <1>8 DEF Quiet
<1> HIDE DEF w
<1>10. Len(xs) \in Nat
  BY <1>4
<1>11. \A r \in V : \A n \in 1..Len(xs) : Record(r, xs[n]) \in V
  <2>1. ASSUME NEW r \in V, NEW n \in 1..Len(xs) PROVE Record(r, xs[n]) \in V
    <3>1. r \in Sound /\ xs[n] \in EventSet
      BY <1>4 DEF Quiet
    <3>2. /\ Record(r, xs[n]) \in Sound /\ Record(r, xs[n]).dec = r.dec
          /\ Record(r, xs[n]).out = r.out
      BY <3>1, RecordSound
    <3> QED
      BY <3>2 DEF Quiet
  <2> QED
    BY <2>1
<1> HIDE DEF V
<1>12. RecordEvents(w, xs) \in V
  BY <1>9, <1>10, <1>11, RecordEventsRun, Zenon
<1> QED
  BY <1>3, <1>12 DEF V

\* A line of data is kept.
LEMMA DataKept ==
  ASSUME NEW s \in Sound, NEW l \in LineSet, l.k = "data"
  PROVE  LET r == [s EXCEPT !.dec.data_lines = Append(@, l.d)]
         IN  /\ r \in Quiet(s.out, s.dec.event_buffer) /\ r.stats = s.stats
             /\ r.dec.data_lines = Append(s.dec.data_lines, l.d)
             /\ r.dec.completed = s.dec.completed
             /\ r.dec.tool_calls = s.dec.tool_calls
<1> DEFINE lines == Append(s.dec.data_lines, l.d)
<1>1. lines \in Seq(Document)
  <2>1. l.d \in Document
    BY DEF LineSet
  <2>2. s.dec.data_lines \in Seq(Document)
    BY SoundParts DEF DecSet
  <2> QED
    BY <2>1, <2>2
<1> HIDE DEF lines
<1>2. LET r == [s EXCEPT !.dec.data_lines = lines]
      IN  /\ r \in Quiet(s.out, s.dec.event_buffer) /\ r.stats = s.stats
          /\ r.dec.data_lines = lines /\ r.dec.completed = s.dec.completed
          /\ r.dec.tool_calls = s.dec.tool_calls
  BY <1>1, DecLines
<1>3. [s EXCEPT !.dec.data_lines = Append(@, l.d)] = [s EXCEPT !.dec.data_lines = lines]
  BY DEF lines
<1> QED
  BY <1>2, <1>3 DEF lines

\* A line says nothing to the client of a chat or responses stream.
LEMMA LineQuiet ==
  ASSUME NEW s \in Sound, NEW l \in LineSet, kind \in {"chat", "responses"}
  PROVE  process_line(s, l) \in Quiet(s.out, s.dec.event_buffer)
<1> DEFINE Q == Quiet(s.out, s.dec.event_buffer)
<1>1. s \in Q
  BY DEF Quiet
<1>2. FlushEvent(s) \in Q
  BY FlushChat, FlushResponses DEF FlushEvent
<1>3. l.k = "data" => [s EXCEPT !.dec.data_lines = Append(@, l.d)] \in Q
  BY DataKept
<1>4. l.k = "event" => [s EXCEPT !.dec.event_name = l.n] \in Q
  <2> SUFFICES ASSUME l.k = "event" PROVE [s EXCEPT !.dec.event_name = l.n] \in Q
    OBVIOUS
  <2> DEFINE d == [s.dec EXCEPT !.event_name = l.n]
             r == [s EXCEPT !.dec.event_name = l.n]
  <2>1. l.n \in STRING
    BY DEF LineSet
  <2>2. /\ s.dec \in DecSet /\ s.stats \in StatsSet /\ s.out \in Seq(SseSet) /\ Counted(s.stats)
        /\ s \in WorkSet
    BY SoundParts
  <2>3. d \in DecSet /\ d.event_buffer = s.dec.event_buffer
    BY <2>1, <2>2 DEF DecSet, Option
  <2>4. r = [dec |-> d, stats |-> s.stats, out |-> s.out]
    BY <2>2 DEF WorkSet
  <2> HIDE DEF r, d
  <2>5. r \in Sound
    BY <2>2, <2>3, <2>4, SoundMade
  <2> QED
    BY <2>3, <2>4, <2>5 DEF Quiet, r
<1>5. process_line(s, l) \in Q
  <2> HIDE DEF Q
  <2>1. CASE kind = "chat"
    BY <1>1, <1>2, <1>3, <2>1 DEF process_line, process_line_chat
  <2>2. CASE kind = "responses"
    BY <1>1, <1>2, <1>3, <1>4, <2>2 DEF process_line, process_line_responses
  <2> QED
    BY <2>1, <2>2
<1> QED
  BY <1>5

-----------------------------------------------------------------------------
(* What the client hears.                                                    *)

\* What is said, heard one thing after the other.
HeardIn(f, V, xs) ==
    /\ f \in [0..Len(xs) -> V] /\ f[0] = NothingHeard
    /\ \A n \in 1..Len(xs) : f[n] = Hear(f[n - 1], xs[n])
    /\ Heard(xs) = f[Len(xs)] /\ f[Len(xs)] \in V

\* What a client has heard is the result of hearing the events one by one.
LEMMA HeardRun ==
  ASSUME NEW V, NEW xs, NothingHeard \in V, Len(xs) \in Nat,
         \A r \in V : \A n \in 1..Len(xs) : Hear(r, xs[n]) \in V
  PROVE  (\E f : HeardIn(f, V, xs)) /\ Heard(xs) \in V
<1> DEFINE N == Len(xs)
           F == [n \in 1..N |-> [r \in V |-> Hear(r, xs[n])]]
           Is(h) == h = [n \in 0..N |-> IF n = 0 THEN NothingHeard ELSE Hear(h[n - 1], xs[n])]
           f == CHOOSE h : Is(h)
<1>1. N \in Nat /\ F \in [1..N -> [V -> V]]
  OBVIOUS
<1>2. Heard(xs) = f[N]
  BY DEF Heard
<1> HIDE DEF N
<1>3. PICK g : Tabulates(g, N, V, NothingHeard, F)
  <2> HIDE DEF F
  <2> QED
    BY <1>1, Iterates, Zenon
<1>4. Is(g)
  <2>1. ASSUME NEW n \in 0..N, n # 0 PROVE g[n] = Hear(g[n - 1], xs[n])
    <3>1. n \in 1..N /\ n - 1 \in 0..N
      BY <1>1, <2>1
    <3> QED
      BY <1>3, <3>1 DEF Tabulates
  <2> QED
    BY <1>3, <2>1 DEF Tabulates
<1>5. Is(f)
  <2> HIDE DEF Is
  <2> QED
    BY <1>4
<1> HIDE DEF f
<1>6. f[0] = NothingHeard /\ \A n \in 1..N : f[n] = Hear(f[n - 1], xs[n])
  BY <1>1, <1>5
<1>7. \A n \in 0..N : f[n] \in V
  <2>1. \A n \in 1..N : f[n - 1] \in V => f[n] \in V
    BY <1>6 DEF N
  <2> QED
    BY <1>1, <1>6, <2>1, StaysInside
<1>8. f \in [0..N -> V]
  BY <1>5, <1>7
<1>9. f[N] \in V
  BY <1>1, <1>7
<1>10. HeardIn(f, V, xs)
  BY <1>2, <1>6, <1>8, <1>9 DEF N, HeardIn
<1> QED
  BY <1>2, <1>9, <1>10

\* Stages of a call; "wrong" is none the client expects.
StageSet == {"none", "announced", "stated", "closed", "wrong"}

HeardSet ==
    [item : [Index -> StageSet], args : [Index -> Text], text : Text, closed : Nat,
     outcome : {"open", "completed", "wrong"}, outputs : Seq(Seq(OutputSet)),
     chunks : Seq(ChunkSet), lines : Seq(LineSet)]

\* A client that has heard nothing is a client.
LEMMA NothingHeardType == NothingHeard \in HeardSet
BY TextFacts DEF NothingHeard, HeardSet, StageSet

\* What is said about a call moves it on.
LEMMA StageType ==
  ASSUME NEW v \in HeardSet, NEW x, NEW from, NEW to \in StageSet
  PROVE  Stage(v.item, v.args, x, from, to) \in [Index -> StageSet]
<1>1. v.item \in [Index -> StageSet]
  BY DEF HeardSet
<1>2. Stage(v.item, v.args, x, from, to) = [v.item EXCEPT ![x.i] =
          IF v.item[x.i] = from /\ (to # "announced" => x.d = v.args[x.i]) THEN to ELSE "wrong"]
  BY DEF Stage
<1>3. (IF v.item[x.i] = from /\ (to # "announced" => x.d = v.args[x.i]) THEN to ELSE "wrong")
          \in StageSet
  BY DEF StageSet
<1> QED
  BY <1>1, <1>2, <1>3, Updated

\* Hearing one more event.
LEMMA HearType ==
  ASSUME NEW v \in HeardSet, NEW x \in SseSet
  PROVE  Hear(v, x) \in HeardSet
<1>1. /\ v.item \in [Index -> StageSet] /\ v.args \in [Index -> Text] /\ v.text \in Text
      /\ v.closed \in Nat /\ v.outcome \in {"open", "completed", "wrong"}
      /\ v.outputs \in Seq(Seq(OutputSet)) /\ v.chunks \in Seq(ChunkSet)
      /\ v.lines \in Seq(LineSet)
  BY DEF HeardSet
<1>2. CASE x.e = "text"
  <2>1. x.d \in Text
    BY <1>2, TextFacts DEF SseSet
  <2>2. v.text \o x.d \in Text
    BY <1>1, <2>1, TextFacts
  <2>3. Hear(v, x) = [v EXCEPT !.text = v.text \o x.d]
    BY <1>2 DEF Hear
  <2> QED
    BY <2>2, <2>3 DEF HeardSet
<1>3. CASE x.e = "delta"
  <2>1. x.d \in Text /\ x.i \in Index
    BY <1>3, TextFacts DEF SseSet
  <2>2. v.args[x.i] \o x.d \in Text
    BY <1>1, <2>1, TextFacts
  <2> DEFINE args == [v.args EXCEPT ![x.i] = v.args[x.i] \o x.d]
  <2>3. Hear(v, x) = [v EXCEPT !.args = args]
    BY <1>3 DEF Hear
  <2>4. args \in [Index -> Text]
    BY <1>1, <2>2, Updated
  <2> HIDE DEF args
  <2> QED
    BY <2>3, <2>4 DEF HeardSet
<1>4. CASE x.e \in {"added", "stated"}
  <2> DEFINE item == IF x.e = "added" THEN Stage(v.item, v.args, x, "none", "announced")
                     ELSE Stage(v.item, v.args, x, "announced", "stated")
  <2>1. item \in [Index -> StageSet]
    BY StageType DEF StageSet
  <2>2. Hear(v, x) = [v EXCEPT !.item = item]
    BY <1>4 DEF Hear
  <2> HIDE DEF item
  <2> QED
    BY <2>1, <2>2 DEF HeardSet
<1>5. CASE x.e = "closed"
  <2> DEFINE item == Stage(v.item, v.args, x, "stated", "closed")
  <2>1. item \in [Index -> StageSet]
    BY StageType DEF StageSet
  <2>2. Hear(v, x) = [v EXCEPT !.item = item, !.closed = v.closed + 1]
    BY <1>5 DEF Hear
  <2>3. v.closed + 1 \in Nat
    BY <1>1
  <2> HIDE DEF item
  <2> QED
    BY <2>1, <2>2, <2>3 DEF HeardSet
<1>6. CASE x.e = "completed"
  <2> DEFINE outputs == Append(v.outputs, x.output)
             outcome == IF v.outcome = "open" /\ OutputAgrees(v, x.output)
                        THEN "completed" ELSE "wrong"
  <2>1. x.output \in Seq(OutputSet)
    BY <1>6 DEF SseSet
  <2>2. outputs \in Seq(Seq(OutputSet)) /\ outcome \in {"open", "completed", "wrong"}
    BY <1>1, <2>1
  <2>3. Hear(v, x) = [v EXCEPT !.outputs = outputs, !.outcome = outcome]
    BY <1>6 DEF Hear
  <2> HIDE DEF outputs, outcome
  <2> QED
    BY <2>2, <2>3 DEF HeardSet
<1>7. CASE x.e = "bytes"
  <2> DEFINE chunks == Append(v.chunks, x.c)
  <2>1. chunks \in Seq(ChunkSet)
    BY <1>1, <1>7 DEF SseSet
  <2>2. Hear(v, x) = [v EXCEPT !.chunks = chunks]
    BY <1>7 DEF Hear
  <2> HIDE DEF chunks
  <2> QED
    BY <2>1, <2>2 DEF HeardSet
<1>8. CASE x.e = "event"
  <2> DEFINE lines == v.lines \o x.lines
  <2>1. lines \in Seq(LineSet)
    BY <1>1, <1>8 DEF SseSet
  <2>2. Hear(v, x) = [v EXCEPT !.lines = lines]
    BY <1>8 DEF Hear
  <2> HIDE DEF lines
  <2> QED
    BY <2>1, <2>2 DEF HeardSet
<1>9. CASE x.e \notin {"text", "delta", "added", "stated", "closed", "completed", "bytes", "event"}
  BY <1>9 DEF Hear
<1> QED
  BY <1>2, <1>3, <1>4, <1>5, <1>6, <1>7, <1>8, <1>9

\* How what is heard comes about.
Hears(f, said) == HeardIn(f, HeardSet, said)

\* The run that leads to what is heard.
LEMMA HeardBy ==
  ASSUME NEW said \in Seq(SseSet)
  PROVE  (\E f : Hears(f, said)) /\ Heard(said) \in HeardSet
<1>1. Len(said) \in Nat
  OBVIOUS
<1>2. \A r \in HeardSet : \A n \in 1..Len(said) : Hear(r, said[n]) \in HeardSet
  <2>1. \A n \in 1..Len(said) : said[n] \in SseSet
    OBVIOUS
  <2> QED
    BY <2>1, HearType
<1>3. (\E f : HeardIn(f, HeardSet, said)) /\ Heard(said) \in HeardSet
  BY <1>1, <1>2, NothingHeardType, HeardRun, Zenon
<1> QED
  BY <1>3 DEF Hears

\* One more thing is heard.
LEMMA HeardAppend ==
  ASSUME NEW said \in Seq(SseSet), NEW x \in SseSet
  PROVE  Heard(Append(said, x)) = Hear(Heard(said), x)
<1> DEFINE all == Append(said, x)
           N == Len(said)
<1>1. /\ all \in Seq(SseSet) /\ Len(all) = N + 1 /\ N \in Nat /\ all[N + 1] = x
      /\ \A n \in 1..N : all[n] = said[n]
  OBVIOUS
<1>2. PICK f : Hears(f, said)
  BY HeardBy
<1> HIDE DEF all, N
<1>3. PICK g : Hears(g, all)
  BY <1>1, HeardBy
<1>4. \A n \in 0..N : f[n] = g[n]
  <2> DEFINE T == {n \in 0..N : f[n] = g[n]}
  <2>1. 0 \in T
    BY <1>1, <1>2, <1>3 DEF Hears, HeardIn
  <2>2. ASSUME NEW n \in 0..N, n < N, n \in T PROVE n + 1 \in T
    <3>1. n + 1 \in 1..N /\ n + 1 \in 1..(N + 1) /\ (n + 1) - 1 = n /\ n + 1 \in 0..N
      BY <1>1, <2>2
    <3>2. f[n + 1] = Hear(f[n], said[n + 1]) /\ g[n + 1] = Hear(g[n], all[n + 1])
      BY <1>1, <1>2, <1>3, <3>1 DEF Hears, HeardIn, N
    <3>3. all[n + 1] = said[n + 1] /\ f[n] = g[n]
      BY <1>1, <2>2, <3>1
    <3> QED
      BY <3>1, <3>2, <3>3
  <2> HIDE DEF T
  <2>3. \A n \in 0..N : n \in T
    BY <1>1, <2>1, <2>2, BoundedInduction
  <2> QED
    BY <2>3 DEF T
<1>5. g[N + 1] = Hear(g[N], x)
  <2>1. N + 1 \in 1..(N + 1) /\ (N + 1) - 1 = N
    BY <1>1
  <2> QED
    BY <1>1, <1>3, <2>1 DEF Hears, HeardIn
<1>6. f[N] = g[N]
  BY <1>1, <1>4
<1> QED
  BY <1>1, <1>2, <1>3, <1>5, <1>6 DEF Hears, HeardIn, N, all

\* Nothing said, nothing heard.
LEMMA HeardNothing == Heard(<<>>) = NothingHeard
<1> DEFINE said == <<>>
<1>1. said \in Seq(SseSet) /\ Len(said) = 0
  OBVIOUS
<1> HIDE DEF said
<1>2. PICK f : Hears(f, said)
  BY <1>1, HeardBy
<1>3. Heard(said) = NothingHeard
  BY <1>1, <1>2 DEF Hears, HeardIn
<1> QED
  BY <1>3 DEF said

\* What may be said next to a client that has heard v.
Fine(v, x) ==
    /\ x.e \in {"text", "added", "delta", "stated", "closed", "completed"} => v.outcome = "open"
    /\ x.e = "added" => v.item[x.i] = "none"
    /\ x.e = "delta" => v.item[x.i] = "announced"
    /\ x.e = "stated" => v.item[x.i] = "announced" /\ x.d = v.args[x.i]
    /\ x.e = "closed" => v.item[x.i] = "stated" /\ x.d = v.args[x.i]
    /\ x.e = "completed" => /\ \A i \in Index : v.item[i] \in {"none", "closed"}
                            /\ OutputAgrees(v, x.output)

Obedient(said) == \A n \in 1..Len(said) : Fine(Heard(SubSeq(said, 1, n - 1)), said[n])

\* The beginnings of a sequence that has grown.
LEMMA Beginnings ==
  ASSUME NEW S, NEW said \in Seq(S), NEW x \in S, NEW n \in 0..Len(said)
  PROVE  SubSeq(Append(said, x), 1, n) = SubSeq(said, 1, n)
         /\ SubSeq(said, 1, Len(said)) = said
<1>1. Append(said, x) \in Seq(S) /\ Len(said) \in Nat /\ Len(Append(said, x)) = Len(said) + 1
  OBVIOUS
<1>2. \A k \in 1..n : Append(said, x)[k] = said[k]
  OBVIOUS
<1>3. SubSeq(Append(said, x), 1, n) = [k \in 1..n |-> Append(said, x)[k]]
      /\ SubSeq(said, 1, n) = [k \in 1..n |-> said[k]]
  BY <1>1, SubSeqRestrict
<1>4. SubSeq(said, 1, Len(said)) = said
  BY SubSeqFull
<1> QED
  BY <1>2, <1>3, <1>4

\* One more thing is said.
LEMMA SaidOneMore ==
  ASSUME NEW said \in Seq(SseSet), NEW x \in SseSet, Obedient(said), Fine(Heard(said), x)
  PROVE  Obedient(Append(said, x))
<1> DEFINE all == Append(said, x)
           N == Len(said)
<1>1. /\ all \in Seq(SseSet) /\ Len(all) = N + 1 /\ N \in Nat /\ all[N + 1] = x
      /\ \A n \in 1..N : all[n] = said[n]
  OBVIOUS
<1> HIDE DEF all, N
<1>2. ASSUME NEW n \in 1..(N + 1) PROVE Fine(Heard(SubSeq(all, 1, n - 1)), all[n])
  <2>1. n - 1 \in 0..N
    BY <1>1
  <2>2. SubSeq(all, 1, n - 1) = SubSeq(said, 1, n - 1) /\ SubSeq(said, 1, N) = said
    BY <2>1, Beginnings DEF all, N
  <2>3. CASE n = N + 1
    <3>1. n - 1 = N
      BY <1>1, <2>3
    <3> QED
      BY <1>1, <2>2, <2>3, <3>1
  <2>4. CASE n # N + 1
    <3>1. n \in 1..N
      BY <1>1, <2>4
    <3> QED
      BY <1>1, <2>2, <3>1 DEF Obedient, N
  <2> QED
    BY <2>3, <2>4
<1> QED
  BY <1>1, <1>2 DEF Obedient, all

\* What is said first of what is to be said.
LEMMA SaidFirst ==
  ASSUME NEW a \in Seq(SseSet), NEW b \in Seq(SseSet), b # <<>>, Obedient(a \o b)
  PROVE  /\ Fine(Heard(a), Head(b)) /\ Head(b) \in SseSet /\ Tail(b) \in Seq(SseSet)
         /\ Append(a, Head(b)) \o Tail(b) = a \o b
<1> DEFINE all == a \o b
           N == Len(a)
<1>1. /\ Head(b) = b[1] /\ Head(b) \in SseSet /\ Tail(b) \in Seq(SseSet) /\ Len(b) \in Nat
      /\ Len(b) >= 1
  BY HeadTailProperties
<1>2. /\ all \in Seq(SseSet) /\ Len(all) = N + Len(b) /\ N \in Nat /\ all[N + 1] = b[1]
      /\ SubSeq(all, 1, N) = a
  <2>1. SubSeq(all, 1, N) = a
    <3>1. SubSeq(all, 1, N) = [k \in 1..N |-> all[k]] /\ a = [k \in 1..N |-> a[k]]
      BY SubSeqRestrict
    <3>2. \A k \in 1..N : all[k] = a[k]
      OBVIOUS
    <3> QED
      BY <3>1, <3>2
  <2> QED
    BY <1>1, <2>1
<1>3. N + 1 \in 1..Len(all) /\ (N + 1) - 1 = N
  BY <1>1, <1>2
<1>4. Fine(Heard(a), Head(b))
  BY <1>1, <1>2, <1>3 DEF Obedient
<1>5. Append(a, Head(b)) \o Tail(b) = a \o b
  <2>1. b = <<Head(b)>> \o Tail(b)
    BY HeadTailProperties
  <2>2. Append(a, Head(b)) = a \o <<Head(b)>>
    BY <1>1
  <2>3. <<Head(b)>> \in Seq(SseSet)
    BY <1>1
  <2>4. (a \o <<Head(b)>>) \o Tail(b) = a \o (<<Head(b)>> \o Tail(b))
    BY <1>1, <2>3, ConcatAssociative
  <2> QED
    BY <2>1, <2>2, <2>4
<1> QED
  BY <1>1, <1>4, <1>5

\* What a decoder makes is heard after what was said before.
LEMMA Emitted ==
  ASSUME NEW base \in Seq(SseSet), NEW out \in Seq(SseSet), NEW x \in SseSet
  PROVE  /\ Append(out, x) \in Seq(SseSet) /\ base \o out \in Seq(SseSet)
         /\ out \o <<x>> = Append(out, x)
         /\ Heard(base \o out) \in HeardSet
         /\ Heard(base \o Append(out, x)) = Hear(Heard(base \o out), x)
         /\ (Obedient(base \o out) /\ Fine(Heard(base \o out), x))
                => Obedient(base \o Append(out, x))
<1>1. base \o out \in Seq(SseSet) /\ Append(out, x) \in Seq(SseSet) /\ out \o <<x>> = Append(out, x)
  OBVIOUS
<1>2. base \o Append(out, x) = Append(base \o out, x)
  OBVIOUS
<1> QED
  BY <1>1, <1>2, HeardBy, HeardAppend, SaidOneMore

\* What is heard of each thing that may be said.
LEMMA HearText ==
  ASSUME NEW v \in HeardSet, NEW x, x.e = "text"
  PROVE  LET r == Hear(v, x)
         IN  /\ r.text = v.text \o x.d
             /\ r.item = v.item /\ r.args = v.args /\ r.closed = v.closed
             /\ r.outcome = v.outcome /\ r.outputs = v.outputs
<1>1. Hear(v, x) = [v EXCEPT !.text = v.text \o x.d]
  BY DEF Hear
<1> QED
  BY <1>1 DEF HeardSet

\* Hearing a piece of the arguments of a call.
LEMMA HearDelta ==
  ASSUME NEW v \in HeardSet, NEW x, x.e = "delta"
  PROVE  LET r == Hear(v, x)
         IN  /\ r.args = [v.args EXCEPT ![x.i] = v.args[x.i] \o x.d]
             /\ r.item = v.item /\ r.text = v.text /\ r.closed = v.closed
             /\ r.outcome = v.outcome /\ r.outputs = v.outputs
<1> DEFINE args == [v.args EXCEPT ![x.i] = v.args[x.i] \o x.d]
<1>1. Hear(v, x) = [v EXCEPT !.args = args]
  BY DEF Hear
<1> HIDE DEF args
<1>2. /\ Hear(v, x).args = args /\ Hear(v, x).item = v.item /\ Hear(v, x).text = v.text
      /\ Hear(v, x).closed = v.closed /\ Hear(v, x).outcome = v.outcome
      /\ Hear(v, x).outputs = v.outputs
  BY <1>1 DEF HeardSet
<1> QED
  BY <1>2 DEF args

\* A call moves to its next stage.
LEMMA HearStage ==
  ASSUME NEW v \in HeardSet, NEW x, x.e \in {"added", "stated", "closed"}, x.i \in Index, Fine(v, x)
  PROVE  LET r == Hear(v, x)
             to == IF x.e = "added" THEN "announced" ELSE x.e
         IN  /\ r.item = [v.item EXCEPT ![x.i] = to]
             /\ r.closed = IF x.e = "closed" THEN v.closed + 1 ELSE v.closed
             /\ r.args = v.args /\ r.text = v.text
             /\ r.outcome = v.outcome /\ r.outputs = v.outputs
<1> DEFINE to == IF x.e = "added" THEN "announced" ELSE x.e
           from == IF x.e = "added" THEN "none" ELSE IF x.e = "stated" THEN "announced" ELSE "stated"
           item == [v.item EXCEPT ![x.i] = to]
           closed == IF x.e = "closed" THEN v.closed + 1 ELSE v.closed
<1>1. Stage(v.item, v.args, x, from, to) = item
  <2>1. v.item[x.i] = from /\ (to # "announced" => x.d = v.args[x.i])
    BY DEF Fine
  <2> QED
    BY <2>1 DEF Stage
<1>2. Hear(v, x) = IF x.e = "closed" THEN [v EXCEPT !.item = item, !.closed = v.closed + 1]
                   ELSE [v EXCEPT !.item = item]
  <2>1. CASE x.e = "added"
    <3>1. Hear(v, x) = [v EXCEPT !.item = Stage(v.item, v.args, x, "none", "announced")]
      BY <2>1 DEF Hear
    <3> QED
      BY <1>1, <2>1, <3>1
  <2>2. CASE x.e = "stated"
    <3>1. Hear(v, x) = [v EXCEPT !.item = Stage(v.item, v.args, x, "announced", "stated")]
      BY <2>2 DEF Hear
    <3> QED
      BY <1>1, <2>2, <3>1
  <2>3. CASE x.e = "closed"
    <3>1. Hear(v, x) = [v EXCEPT !.item = Stage(v.item, v.args, x, "stated", "closed"), !.closed = v.closed + 1]
      BY <2>3 DEF Hear
    <3> QED
      BY <1>1, <2>3, <3>1
  <2> QED
    BY <2>1, <2>2, <2>3
<1> HIDE DEF item
<1>3. /\ Hear(v, x).item = item /\ Hear(v, x).closed = closed
      /\ Hear(v, x).args = v.args /\ Hear(v, x).text = v.text
      /\ Hear(v, x).outcome = v.outcome /\ Hear(v, x).outputs = v.outputs
  BY <1>2 DEF HeardSet
<1> QED
  BY <1>3 DEF item

\* Hearing that a call is announced, when that is in order.
LEMMA HearAdded ==
  ASSUME NEW v \in HeardSet, NEW x, NEW i \in Index, x.e = "added", x.i = i, Fine(v, x)
  PROVE  LET r == Hear(v, x)
         IN  /\ r.item = [v.item EXCEPT ![i] = "announced"]
             /\ r.args = v.args /\ r.text = v.text /\ r.closed = v.closed
             /\ r.outcome = v.outcome /\ r.outputs = v.outputs
BY HearStage

\* Hearing the arguments of a call as a whole, when that is in order.
LEMMA HearStated ==
  ASSUME NEW v \in HeardSet, NEW x, NEW i \in Index, x.e = "stated", x.i = i, Fine(v, x)
  PROVE  LET r == Hear(v, x)
         IN  /\ r.item = [v.item EXCEPT ![i] = "stated"]
             /\ r.args = v.args /\ r.text = v.text /\ r.closed = v.closed
             /\ r.outcome = v.outcome /\ r.outputs = v.outputs
BY HearStage

\* Hearing that a call is closed, when that is in order.
LEMMA HearClosed ==
  ASSUME NEW v \in HeardSet, NEW x, NEW i \in Index, x.e = "closed", x.i = i, Fine(v, x)
  PROVE  LET r == Hear(v, x)
         IN  /\ r.item = [v.item EXCEPT ![i] = "closed"]
             /\ r.args = v.args /\ r.text = v.text /\ r.closed = v.closed + 1
             /\ r.outcome = v.outcome /\ r.outputs = v.outputs
BY HearStage

\* Hearing the end of the response, when that is in order.
LEMMA HearCompleted ==
  ASSUME NEW v \in HeardSet, NEW x, x.e = "completed", Fine(v, x)
  PROVE  LET r == Hear(v, x)
         IN  /\ r.outputs = Append(v.outputs, x.output) /\ r.outcome = "completed"
             /\ r.item = v.item /\ r.args = v.args /\ r.text = v.text /\ r.closed = v.closed
<1> DEFINE outputs == Append(v.outputs, x.output)
<1>1. v.outcome = "open" /\ OutputAgrees(v, x.output)
  BY DEF Fine
<1>2. Hear(v, x) = [v EXCEPT !.outputs = outputs, !.outcome = "completed"]
  BY <1>1 DEF Hear
<1> HIDE DEF outputs
<1>3. /\ Hear(v, x).outputs = outputs /\ Hear(v, x).outcome = "completed"
      /\ Hear(v, x).item = v.item /\ Hear(v, x).args = v.args /\ Hear(v, x).text = v.text
      /\ Hear(v, x).closed = v.closed
  BY <1>2 DEF HeardSet
<1> QED
  BY <1>3 DEF outputs

\* Bytes, rewritten events and comments say nothing of calls and text.
LEMMA HearOther ==
  ASSUME NEW v \in HeardSet, NEW x,
         x.e \notin {"text", "added", "delta", "stated", "closed", "completed"}
  PROVE  LET r == Hear(v, x)
         IN  /\ r.item = v.item /\ r.args = v.args /\ r.text = v.text /\ r.closed = v.closed
             /\ r.outcome = v.outcome /\ r.outputs = v.outputs
             /\ r.chunks = IF x.e = "bytes" THEN Append(v.chunks, x.c) ELSE v.chunks
             /\ r.lines = IF x.e = "event" THEN v.lines \o x.lines ELSE v.lines
             /\ Fine(v, x)
<1>1. Fine(v, x)
  BY DEF Fine
<1>2. CASE x.e = "bytes"
  <2>1. Hear(v, x) = [v EXCEPT !.chunks = Append(v.chunks, x.c)]
    BY <1>2 DEF Hear
  <2> QED
    BY <1>1, <1>2, <2>1 DEF HeardSet
<1>3. CASE x.e = "event"
  <2>1. Hear(v, x) = [v EXCEPT !.lines = v.lines \o x.lines]
    BY <1>3 DEF Hear
  <2> QED
    BY <1>1, <1>3, <2>1 DEF HeardSet
<1>4. CASE x.e \notin {"bytes", "event"}
  <2>1. Hear(v, x) = v
    BY <1>4 DEF Hear
  <2> QED
    BY <1>1, <1>4, <2>1
<1> QED
  BY <1>2, <1>3, <1>4

\* One more event in order leaves the conversation in order.
LEMMA EmittedOne ==
  ASSUME NEW base \in Seq(SseSet), NEW out \in Seq(SseSet), NEW x \in SseSet,
         Obedient(base \o out), Fine(Heard(base \o out), x)
  PROVE  /\ out \o <<x>> \in Seq(SseSet) /\ Obedient(base \o (out \o <<x>>))
         /\ Heard(base \o (out \o <<x>>)) = Hear(Heard(base \o out), x)
         /\ Heard(base \o (out \o <<x>>)) \in HeardSet
<1>1. /\ Append(out, x) \in Seq(SseSet) /\ out \o <<x>> = Append(out, x)
      /\ Heard(base \o out) \in HeardSet
      /\ Heard(base \o Append(out, x)) = Hear(Heard(base \o out), x)
      /\ Obedient(base \o Append(out, x))
  BY Emitted
<1>2. Hear(Heard(base \o out), x) \in HeardSet
  BY <1>1, HearType
<1> QED
  BY <1>1, <1>2

-----------------------------------------------------------------------------
(* The bridge.                                                               *)

\* How far the decoder has brought a call.
StageOf(c) == IF c.done THEN "closed" ELSE IF c.added THEN "announced" ELSE "none"

\* Of a call, the decoder, the record and the client have the same arguments, and the
\* client has been told that it is done when the decoder and the record say so.
Matches(calls, recorded, v, i) ==
    LET c == Entry(calls, i)
        r == Entry(recorded, i)
    IN  /\ r.arguments = v.args[i] /\ c.arguments = v.args[i]
        /\ r.done = c.done /\ v.item[i] = StageOf(c)

\* The response has not completed: text and calls are the same for all three.
Speaking(d, st, v) ==
    /\ v.text = st.output_text /\ v.closed = st.tool_call_count
    /\ v.outcome = "open" /\ v.outputs = <<>>
    /\ \A i \in Index : Matches(d.tool_calls, st.tool_calls, v, i)
    /\ \A i \in DOMAIN d.tool_calls : d.tool_calls[i].added

SpeakingSet(base) ==
    {s \in Sound : /\ Obedient(base \o s.out)
                   /\ Speaking(s.dec, s.stats, Heard(base \o s.out))}

\* No call is done yet.
Unclosed(d) == \A i \in DOMAIN d.tool_calls : ~d.tool_calls[i].done

\* Speaking is about the calls and the text.
LEMMA SpeakingSame ==
  ASSUME NEW d, NEW st, NEW v, NEW d1, NEW st1, Speaking(d, st, v),
         d1.tool_calls = d.tool_calls, st1.tool_calls = st.tool_calls,
         st1.output_text = st.output_text, st1.tool_call_count = st.tool_call_count
  PROVE  Speaking(d1, st1, v)
BY DEF Speaking

\* The call a delta leaves in the bridge's table.
Bridged(c, e) ==
    [c EXCEPT !.id = IF e.id # None THEN e.id ELSE @,
              !.name = IF e.name # None THEN e.name ELSE @,
              !.added = TRUE,
              !.arguments = IF e.arguments # None THEN @ \o e.arguments ELSE @]

\* What the bridge keeps of a call after a piece of it.
LEMMA BridgedFacts ==
  ASSUME NEW c \in CallSet, NEW e \in DeltaSet
  PROVE  /\ Bridged(c, e) \in CallSet /\ Bridged(c, e).added /\ Bridged(c, e).done = c.done
         /\ Bridged(c, e).arguments = IF e.arguments # None THEN c.arguments \o e.arguments
                                      ELSE c.arguments
<1>1. e.id \in Option(Text) /\ e.name \in Option(Text) /\ e.arguments \in Option(Text)
  BY DEF DeltaSet
<1>2. c.arguments \in Text /\ c.id \in Text /\ c.name \in Text
  BY DEF CallSet
<1>3. e.arguments # None => c.arguments \o e.arguments \in Text
  BY <1>1, <1>2, TextFacts DEF Option
<1> QED
  BY <1>1, <1>2, <1>3 DEF Bridged, CallSet, Option

\* What a delta says: that there is a call, when it is new, and its next piece.
Announcement(c, e) ==
    IF c.added THEN <<>>
    ELSE <<AddedSse(e.i, [c EXCEPT !.id = IF e.id # None THEN e.id ELSE @,
                                   !.name = IF e.name # None THEN e.name ELSE @,
                                   !.added = TRUE])>>
NextPiece(c, e) ==
    IF e.arguments = None THEN <<>> ELSE <<ArgumentsDeltaSse(e.i, Bridged(c, e), e.arguments)>>

\* What tool_call_delta_to_responses_sse says: an announcement the first time, then the piece.
LEMMA DeltaSaid ==
  ASSUME NEW s \in Sound, NEW e \in DeltaSet
  PROVE  LET c == Entry(s.dec.tool_calls, e.i)
         IN  tool_call_delta_to_responses_sse(s, e)
               = [dec |-> [s.dec EXCEPT !.tool_calls = Put(s.dec.tool_calls, e.i, Bridged(c, e))],
                  stats |-> s.stats,
                  out |-> s.out \o Announcement(c, e) \o NextPiece(c, e)]
<1> DEFINE c0 == Entry(s.dec.tool_calls, e.i)
           c1 == [c0 EXCEPT !.id = IF e.id # None THEN e.id ELSE @,
                            !.name = IF e.name # None THEN e.name ELSE @,
                            !.added = TRUE]
           c2 == [c1 EXCEPT !.arguments = IF e.arguments # None THEN @ \o e.arguments ELSE @]
           table == Put(s.dec.tool_calls, e.i, c2)
           out0 == s.out \o (IF c0.added THEN <<>> ELSE <<AddedSse(e.i, c1)>>)
                       \o (IF e.arguments = None THEN <<>>
                           ELSE <<ArgumentsDeltaSse(e.i, c2, e.arguments)>>)
           out == s.out \o Announcement(c0, e) \o NextPiece(c0, e)
           d == [s.dec EXCEPT !.tool_calls = table]
<1>1. s \in WorkSet /\ s.dec \in DecSet /\ s.dec.tool_calls \in CallTable /\ e.i \in Index
  BY SoundParts DEF DeltaSet
<1>2. c0 \in CallSet
  BY <1>1, EntryFacts
<1>3. c2 = Bridged(c0, e)
  <2> HIDE DEF c0
  <2> QED
    BY <1>2 DEF Bridged, CallSet
<1>4. tool_call_delta_to_responses_sse(s, e) = [s EXCEPT !.dec.tool_calls = table, !.out = out0]
  BY DEF tool_call_delta_to_responses_sse
<1>5. out0 = out
  <2> HIDE DEF c2
  <2> QED
    BY <1>3 DEF Announcement, NextPiece
<1> HIDE DEF table, out0
<1>6. [s EXCEPT !.dec.tool_calls = table, !.out = out0] = [s EXCEPT !.dec = d, !.out = out0]
  BY <1>1 DEF WorkSet
<1> HIDE DEF d
<1>7. [s EXCEPT !.dec = d, !.out = out0] = [dec |-> d, stats |-> s.stats, out |-> out0]
  BY <1>1, SpeechChanged
<1> QED
  BY <1>3, <1>4, <1>5, <1>6, <1>7 DEF table, d

\* What has been heard differs in the stage of a call, or in its arguments.
Moved(v, r, i, to) ==
    /\ r \in HeardSet /\ r.item = [v.item EXCEPT ![i] = to]
    /\ r.args = v.args /\ r.text = v.text /\ r.outcome = v.outcome /\ r.outputs = v.outputs
    /\ r.closed = v.closed
Extended(v, r, i, piece) ==
    /\ r \in HeardSet
    /\ r.args = [v.args EXCEPT ![i] = IF piece # None THEN v.args[i] \o piece ELSE v.args[i]]
    /\ r.item = v.item /\ r.text = v.text /\ r.outcome = v.outcome /\ r.outputs = v.outputs
    /\ r.closed = v.closed

\* A call is announced before anything is said of it.
LEMMA Announced ==
  ASSUME NEW base \in Seq(SseSet), NEW out \in Seq(SseSet), NEW c \in CallSet,
         NEW e \in DeltaSet, Obedient(base \o out), Heard(base \o out).outcome = "open",
         Heard(base \o out).item[e.i] = IF c.added THEN "announced" ELSE "none"
  PROVE  LET o == out \o Announcement(c, e)
             v == Heard(base \o out)
             r == Heard(base \o o)
         IN  /\ o \in Seq(SseSet) /\ Obedient(base \o o)
             /\ Moved(v, r, e.i, "announced")
<1> DEFINE v == Heard(base \o out)
<1>1. base \o out \in Seq(SseSet)
  OBVIOUS
<1>2. v \in HeardSet
  BY <1>1, HeardBy
<1>3. e.i \in Index
  BY DEF DeltaSet
<1>4. CASE c.added
  <2>1. out \o Announcement(c, e) = out
    BY <1>4 DEF Announcement
  <2>2. v.item \in [Index -> StageSet]
    BY <1>2 DEF HeardSet
  <2> HIDE DEF v
  <2>3. v.item[e.i] = "announced"
    BY <1>4 DEF v
  <2>4. v.item = [v.item EXCEPT ![e.i] = "announced"]
    BY <2>2, <2>3
  <2> QED
    BY <1>2, <2>1, <2>4 DEF v, Moved
<1>5. CASE ~c.added
  <2> DEFINE c1 == [c EXCEPT !.id = IF e.id # None THEN e.id ELSE @,
                             !.name = IF e.name # None THEN e.name ELSE @,
                             !.added = TRUE]
             x == AddedSse(e.i, c1)
  <2>1. out \o Announcement(c, e) = out \o <<x>>
    BY <1>5 DEF Announcement
  <2>2. x \in SseSet /\ x.e = "added" /\ x.i = e.i
    <3>1. e.id \in Option(Text) /\ e.name \in Option(Text)
      BY DEF DeltaSet
    <3>2. c1 \in CallSet
      BY <3>1 DEF CallSet, Option
    <3> HIDE DEF c1
    <3>3. c1.id \in Text /\ c1.name \in Text
      BY <3>2 DEF CallSet
    <3> QED
      BY <1>3, <3>3 DEF AddedSse, SseSet
  <2> HIDE DEF x
  <2>3. Fine(v, x)
    BY <1>5, <2>2 DEF Fine
  <2>4. /\ out \o <<x>> \in Seq(SseSet) /\ Obedient(base \o (out \o <<x>>))
        /\ Heard(base \o (out \o <<x>>)) = Hear(v, x)
    BY <2>2, <2>3, EmittedOne, Zenon
  <2>5. Hear(v, x) \in HeardSet
    BY <1>2, <2>2, HearType
  <2> HIDE DEF v
  <2>6. /\ Hear(v, x).item = [v.item EXCEPT ![e.i] = "announced"]
        /\ Hear(v, x).args = v.args /\ Hear(v, x).text = v.text /\ Hear(v, x).closed = v.closed
        /\ Hear(v, x).outcome = v.outcome /\ Hear(v, x).outputs = v.outputs
    BY <1>2, <1>3, <2>2, <2>3, HearAdded
  <2>7. Moved(v, Hear(v, x), e.i, "announced")
    BY <2>5, <2>6 DEF Moved
  <2> QED
    BY <2>1, <2>4, <2>7 DEF v
<1> QED
  BY <1>4, <1>5

\* A piece of its arguments follows.
LEMMA Continued ==
  ASSUME NEW base \in Seq(SseSet), NEW out \in Seq(SseSet), NEW c \in CallSet,
         NEW e \in DeltaSet, e.arguments \in Option(Texts), Obedient(base \o out),
         Heard(base \o out).outcome = "open", Heard(base \o out).item[e.i] = "announced"
  PROVE  LET o == out \o NextPiece(c, e)
             v == Heard(base \o out)
             r == Heard(base \o o)
         IN  /\ o \in Seq(SseSet) /\ Obedient(base \o o)
             /\ Extended(v, r, e.i, e.arguments)
<1> DEFINE v == Heard(base \o out)
<1>1. base \o out \in Seq(SseSet)
  OBVIOUS
<1>2. v \in HeardSet
  BY <1>1, HeardBy
<1>3. e.i \in Index
  BY DEF DeltaSet
<1>4. CASE e.arguments = None
  <2>1. out \o NextPiece(c, e) = out
    BY <1>4 DEF NextPiece
  <2>2. v.args \in [Index -> Text]
    BY <1>2 DEF HeardSet
  <2> HIDE DEF v
  <2>3. v.args = [v.args EXCEPT ![e.i] =
                    IF e.arguments # None THEN v.args[e.i] \o e.arguments ELSE v.args[e.i]]
    BY <1>4, <2>2
  <2> QED
    BY <1>2, <2>1, <2>3 DEF v, Extended
<1>5. CASE e.arguments # None
  <2> DEFINE c2 == Bridged(c, e)
             x == ArgumentsDeltaSse(e.i, c2, e.arguments)
  <2>1. out \o NextPiece(c, e) = out \o <<x>>
    BY <1>5 DEF NextPiece
  <2>2. x \in SseSet /\ x.e = "delta" /\ x.i = e.i /\ x.d = e.arguments
    <3>1. c2 \in CallSet
      BY BridgedFacts
    <3> HIDE DEF c2
    <3>2. c2.id \in Text /\ e.arguments \in Texts
      BY <1>5, <3>1 DEF CallSet, Option
    <3> QED
      BY <1>3, <3>2 DEF ArgumentsDeltaSse, SseSet
  <2> HIDE DEF x
  <2>3. Fine(v, x)
    BY <2>2 DEF Fine
  <2>4. /\ out \o <<x>> \in Seq(SseSet) /\ Obedient(base \o (out \o <<x>>))
        /\ Heard(base \o (out \o <<x>>)) = Hear(v, x)
    BY <2>2, <2>3, EmittedOne, Zenon
  <2>5. Hear(v, x) \in HeardSet
    BY <1>2, <2>2, HearType
  <2> HIDE DEF v
  <2>6. /\ Hear(v, x).args = [v.args EXCEPT ![e.i] = v.args[e.i] \o e.arguments]
        /\ Hear(v, x).item = v.item /\ Hear(v, x).text = v.text /\ Hear(v, x).closed = v.closed
        /\ Hear(v, x).outcome = v.outcome /\ Hear(v, x).outputs = v.outputs
    <3> DEFINE args == [v.args EXCEPT ![e.i] = v.args[e.i] \o e.arguments]
    <3>1. Hear(v, x) = [v EXCEPT !.args = [v.args EXCEPT ![x.i] = v.args[x.i] \o x.d]]
      BY <2>2 DEF Hear
    <3>2. Hear(v, x) = [v EXCEPT !.args = args]
      BY <2>2, <3>1
    <3> HIDE DEF args
    <3>3. /\ Hear(v, x).args = args
          /\ Hear(v, x).item = v.item /\ Hear(v, x).text = v.text /\ Hear(v, x).closed = v.closed
          /\ Hear(v, x).outcome = v.outcome /\ Hear(v, x).outputs = v.outputs
      BY <1>2, <3>2 DEF HeardSet
    <3> QED
      BY <3>3 DEF args
  <2>7. Extended(v, Hear(v, x), e.i, e.arguments)
    BY <1>5, <2>5, <2>6 DEF Extended
  <2> QED
    BY <2>1, <2>4, <2>7 DEF v
<1> QED
  BY <1>4, <1>5

\* What a call's entries are after a delta.
LEMMA DeltaMatches ==
  ASSUME NEW calls \in CallTable, NEW recorded \in CallTable, NEW e \in DeltaSet,
         NEW v \in HeardSet, NEW r \in HeardSet,
         \A i \in Index : Matches(calls, recorded, v, i),
         ~Entry(calls, e.i).done,
         r.item = [v.item EXCEPT ![e.i] = "announced"],
         r.args = [v.args EXCEPT ![e.i] =
                      IF e.arguments # None THEN v.args[e.i] \o e.arguments ELSE v.args[e.i]],
         NEW j \in Index
  PROVE  Matches(Put(calls, e.i, Bridged(Entry(calls, e.i), e)),
                 Put(recorded, e.i, Noted(Entry(recorded, e.i), e)), r, j)
<1> DEFINE i == e.i
           c == Entry(calls, i)
           n == Entry(recorded, i)
           c1 == Bridged(c, e)
           n1 == Noted(n, e)
           calls1 == Put(calls, i, c1)
           recorded1 == Put(recorded, i, n1)
<1>1. i \in Index
  BY DEF DeltaSet
<1>2. c \in CallSet /\ n \in CallSet
  BY <1>1, EntryFacts
<1>3. /\ c1 \in CallSet /\ c1.added /\ c1.done = c.done
      /\ c1.arguments = IF e.arguments # None THEN c.arguments \o e.arguments ELSE c.arguments
  <2> HIDE DEF c
  <2> QED
    BY <1>2, BridgedFacts
<1>4. /\ n1 \in CallSet /\ n1.done = n.done
      /\ n1.arguments = IF e.arguments # None THEN n.arguments \o e.arguments ELSE n.arguments
  <2> HIDE DEF n
  <2> QED
    BY <1>2, NotedFacts
<1>5. v.item \in [Index -> StageSet] /\ v.args \in [Index -> Text]
  BY DEF HeardSet
<1>6. n.arguments = v.args[i] /\ c.arguments = v.args[i] /\ n.done = c.done
  BY <1>1 DEF Matches
<1>7. Matches(calls, recorded, v, j)
  OBVIOUS
<1> HIDE DEF i, c, n, c1, n1
<1>8. /\ Entry(calls1, i) = c1 /\ \A k \in Index : k # i => Entry(calls1, k) = Entry(calls, k)
      /\ Entry(recorded1, i) = n1
      /\ \A k \in Index : k # i => Entry(recorded1, k) = Entry(recorded, k)
  BY <1>1, <1>3, <1>4 DEF Put, Entry
<1> HIDE DEF calls1, recorded1
<1>9. r.item[i] = "announced" /\ r.args[i] = c1.arguments
  BY <1>1, <1>3, <1>5, <1>6 DEF i
<1>10. CASE j = i
  <2>1. ~c1.done
    BY <1>3 DEF c, i
  <2>2. StageOf(c1) = "announced"
    BY <1>3, <2>1 DEF StageOf
  <2>3. n1.arguments = c1.arguments /\ n1.done = c1.done
    BY <1>3, <1>4, <1>6
  <2>4. Matches(calls1, recorded1, r, i)
    BY <1>8, <1>9, <2>2, <2>3 DEF Matches
  <2> QED
    BY <1>10, <2>4 DEF calls1, recorded1, i, c, n, c1, n1
<1>11. CASE j # i
  <2>1. r.item[j] = v.item[j] /\ r.args[j] = v.args[j]
    BY <1>1, <1>5, <1>11 DEF i
  <2>2. Entry(calls1, j) = Entry(calls, j) /\ Entry(recorded1, j) = Entry(recorded, j)
    BY <1>8, <1>11
  <2>3. Matches(calls1, recorded1, r, j)
    BY <1>7, <2>1, <2>2 DEF Matches
  <2> QED
    BY <2>3 DEF calls1, recorded1, i, c, n, c1, n1
<1> QED
  BY <1>10, <1>11

\* A delta of a call.
LEMMA BridgeDelta ==
  ASSUME NEW base \in Seq(SseSet), NEW s \in SpeakingSet(base), Unclosed(s.dec),
         NEW e \in ChatEventSet, e.t = "delta"
  PROVE  LET r == BridgeEvent(s, e)
         IN  /\ r \in SpeakingSet(base) /\ Unclosed(r.dec)
             /\ r.dec.completed = s.dec.completed /\ r.dec.data_lines = s.dec.data_lines
             /\ r.stats.output_text = s.stats.output_text \o SpokenIn(e)
<1> DEFINE w == Record(s, e)
           i == e.i
           calls == s.dec.tool_calls
           recorded == s.stats.tool_calls
           c == Entry(calls, i)
           c1 == Bridged(c, e)
           calls1 == Put(calls, i, c1)
           recorded1 == Put(recorded, i, Noted(Entry(recorded, i), e))
           d == [s.dec EXCEPT !.tool_calls = calls1]
           o1 == s.out \o Announcement(c, e)
           o2 == o1 \o NextPiece(c, e)
           v0 == Heard(base \o s.out)
           v1 == Heard(base \o o1)
           v2 == Heard(base \o o2)
<1>1. /\ s \in Sound /\ Obedient(base \o s.out) /\ Speaking(s.dec, s.stats, v0)
      /\ s.dec \in DecSet /\ s.stats \in StatsSet /\ s.out \in Seq(SseSet)
      /\ calls \in CallTable /\ recorded \in CallTable
  BY SoundParts DEF SpeakingSet, StatsSet
<1>2. e \in DeltaSet /\ e \in EventSet /\ e.arguments \in Option(Texts) /\ i \in Index
  BY ChatEventsAreEvents DEF ChatEventSet, SpeechSet, UsageEventSet, FinishedSet, DeltaSet
<1>3. /\ w \in Sound /\ w.dec = s.dec /\ w.out = s.out /\ w.stats = record_event(s.stats, e)
      /\ w.stats \in StatsSet /\ Counted(w.stats)
      /\ w.stats.output_text = s.stats.output_text \o SpokenIn(e)
  BY <1>1, <1>2, RecordSound, SoundParts
<1>4. /\ w.stats.tool_calls = recorded1 /\ w.stats.output_text = s.stats.output_text
      /\ w.stats.tool_call_count = s.stats.tool_call_count
  <2> HIDE DEF w
  <2> QED
    BY <1>1, <1>2, <1>3, RecordDelta
<1>5. BridgeEvent(s, e) = tool_call_delta_to_responses_sse(w, e)
  BY DEF BridgeEvent, internal_event_to_responses_sse
<1>6. tool_call_delta_to_responses_sse(w, e) = [dec |-> d, stats |-> w.stats, out |-> o2]
  <2> HIDE DEF w
  <2> QED
    BY <1>2, <1>3, DeltaSaid
<1> HIDE DEF w
<1>7. c \in CallSet
  BY <1>1, <1>2, EntryFacts
<1>8. c1 \in CallSet /\ c1.added /\ c1.done = c.done
  <2> HIDE DEF c
  <2> QED
    BY <1>2, <1>7, BridgedFacts
<1>9. ~c.done /\ v0.item[i] = IF c.added THEN "announced" ELSE "none"
  <2>1. ~c.done
    BY DEF Unclosed, Entry, NoCall
  <2>2. Matches(calls, recorded, v0, i)
    BY <1>1, <1>2 DEF Speaking
  <2> QED
    BY <2>1, <2>2 DEF Matches, StageOf
<1>10. v0.outcome = "open" /\ v0 \in HeardSet
  <2>1. base \o s.out \in Seq(SseSet)
    BY <1>1
  <2> QED
    BY <1>1, <2>1, HeardBy DEF Speaking
<1> HIDE DEF c
<1>11. /\ o1 \in Seq(SseSet) /\ Obedient(base \o o1) /\ Moved(v0, v1, i, "announced")
  BY <1>1, <1>2, <1>7, <1>9, <1>10, Announced, Zenon
<1> HIDE DEF o1
<1>12. v1.item[i] = "announced" /\ v1.outcome = "open"
  <2>1. v0.item \in [Index -> StageSet]
    BY <1>10 DEF HeardSet
  <2> HIDE DEF v0, v1
  <2> QED
    BY <1>2, <1>10, <1>11, <2>1 DEF Moved
<1>13. /\ o2 \in Seq(SseSet) /\ Obedient(base \o o2) /\ Extended(v1, v2, i, e.arguments)
  BY <1>1, <1>2, <1>7, <1>11, <1>12, Continued, Zenon
<1> HIDE DEF o2, v0, v1, v2
<1>14. /\ calls1 \in CallTable /\ DOMAIN calls1 = DOMAIN calls \cup {i} /\ calls1[i] = c1
       /\ \A j \in DOMAIN calls : j # i => calls1[j] = calls[j]
  <2> HIDE DEF calls, i, c1
  <2>1. calls1 \in CallTable
    BY <1>1, <1>2, <1>8, PutFacts, Zenon
  <2> QED
    BY <2>1 DEF Put
<1>15. \A j \in Index : Matches(calls1, recorded1, v2, j)
  <2>1. \A j \in Index : Matches(calls, recorded, v0, j)
    BY <1>1 DEF Speaking
  <2>2. /\ v2.item = [v0.item EXCEPT ![e.i] = "announced"]
        /\ v2.args = [v0.args EXCEPT ![e.i] =
                        IF e.arguments # None THEN v0.args[e.i] \o e.arguments ELSE v0.args[e.i]]
        /\ v2 \in HeardSet
    BY <1>11, <1>13 DEF Moved, Extended
  <2>3. ~Entry(calls, e.i).done
    BY <1>9 DEF c
  <2> HIDE DEF calls, recorded
  <2>4. ASSUME NEW j \in Index
        PROVE  Matches(Put(calls, e.i, Bridged(Entry(calls, e.i), e)),
                       Put(recorded, e.i, Noted(Entry(recorded, e.i), e)), v2, j)
    BY <1>1, <1>2, <1>10, <1>13, <2>1, <2>2, <2>3, DeltaMatches, Zenon
  <2> QED
    BY <2>4 DEF c
<1> HIDE DEF calls1, recorded1
<1>16. /\ d \in DecSet /\ d.tool_calls = calls1 /\ d.completed = s.dec.completed
       /\ d.data_lines = s.dec.data_lines
  BY <1>1, <1>14 DEF DecSet
<1> HIDE DEF d
<1>17. \A j \in DOMAIN calls1 : calls1[j].added /\ ~calls1[j].done
  <2>1. \A j \in DOMAIN calls : calls[j].added /\ ~calls[j].done
    BY <1>1 DEF Speaking, Unclosed
  <2> QED
    BY <1>8, <1>9, <1>14, <2>1
<1>18. Speaking(d, w.stats, v2)
  <2>1. /\ v0.text = s.stats.output_text /\ v0.closed = s.stats.tool_call_count
        /\ v0.outcome = "open" /\ v0.outputs = <<>>
    BY <1>1 DEF Speaking
  <2>2. v2.text = v0.text /\ v2.closed = v0.closed /\ v2.outcome = v0.outcome
        /\ v2.outputs = v0.outputs
    BY <1>11, <1>13 DEF Moved, Extended
  <2> QED
    BY <1>4, <1>15, <1>16, <1>17, <2>1, <2>2 DEF Speaking
<1> DEFINE r == [dec |-> d, stats |-> w.stats, out |-> o2]
<1>19. r \in Sound
  BY <1>3, <1>13, <1>16, SoundMade
<1>20. r \in SpeakingSet(base)
  BY <1>13, <1>18, <1>19 DEF SpeakingSet, v2
<1>21. Unclosed(r.dec)
  BY <1>16, <1>17 DEF Unclosed
<1> QED
  BY <1>3, <1>5, <1>6, <1>16, <1>20, <1>21

\* An event that is about no call.
LEMMA BridgeOther ==
  ASSUME NEW base \in Seq(SseSet), NEW s \in SpeakingSet(base), Unclosed(s.dec),
         NEW e \in ChatEventSet, e.t # "delta"
  PROVE  LET r == BridgeEvent(s, e)
         IN  /\ r \in SpeakingSet(base) /\ Unclosed(r.dec)
             /\ r.dec.completed = s.dec.completed /\ r.dec.data_lines = s.dec.data_lines
             /\ r.stats.output_text = s.stats.output_text \o SpokenIn(e)
<1> DEFINE v == Heard(base \o s.out)
           d == IF e.t = "usage" THEN [s.dec EXCEPT !.usage = e.u]
                ELSE IF e.t = "finished" THEN [s.dec EXCEPT !.finish_reason = e.r] ELSE s.dec
           st == record_event(s.stats, e)
           out == IF e.t = "text" THEN Append(s.out, TextSse(e.d)) ELSE s.out
           r == [dec |-> d, stats |-> st, out |-> out]
<1>1. /\ s \in Sound /\ Obedient(base \o s.out) /\ Speaking(s.dec, s.stats, v)
      /\ s.dec \in DecSet /\ s.stats \in StatsSet /\ s.out \in Seq(SseSet) /\ s \in WorkSet
      /\ Counted(s.stats)
  BY SoundParts DEF SpeakingSet
<1>2. e \in SpeechSet \cup UsageEventSet \cup FinishedSet
  BY DEF ChatEventSet, DeltaSet
<1>3. /\ e.t \in {"text", "reasoning", "usage", "finished"}
      /\ e.t = "text" => e.d \in Texts
      /\ e.t = "usage" => e.u \in UsageSet
      /\ e.t = "finished" => e.r \in InternalFinishReason
  BY <1>2 DEF SpeechSet, UsageEventSet, FinishedSet, ChatEventSet
<1>4. BridgeEvent(s, e) = r
  <2>1. CASE e.t = "text"
    BY <1>1, <2>1 DEF BridgeEvent, internal_event_to_responses_sse, Record, WorkSet
  <2>2. CASE e.t = "reasoning"
    BY <1>1, <2>2 DEF BridgeEvent, internal_event_to_responses_sse, Record, WorkSet
  <2>3. CASE e.t = "usage"
    BY <1>1, <2>3 DEF BridgeEvent, internal_event_to_responses_sse, Record, WorkSet
  <2>4. CASE e.t = "finished"
    BY <1>1, <2>4 DEF BridgeEvent, internal_event_to_responses_sse, Record, WorkSet
  <2> QED
    BY <1>3, <2>1, <2>2, <2>3, <2>4
<1>5. /\ st \in StatsSet /\ st.tool_calls = s.stats.tool_calls
      /\ st.tool_call_count = s.stats.tool_call_count
      /\ st.output_text = s.stats.output_text \o SpokenIn(e)
  BY <1>1, <1>2, RecordOther
<1>6. Counted(st)
  BY <1>1, <1>5 DEF Counted
<1>7. /\ d \in DecSet /\ d.tool_calls = s.dec.tool_calls /\ d.completed = s.dec.completed
      /\ d.data_lines = s.dec.data_lines
  BY <1>1, <1>3 DEF DecSet, Option
<1> HIDE DEF d, st
<1>8. /\ out \in Seq(SseSet) /\ Obedient(base \o out)
      /\ Speaking(d, st, Heard(base \o out))
  <2>0. base \o s.out \in Seq(SseSet)
    BY <1>1
  <2>1. v \in HeardSet
    BY <2>0, HeardBy
  <2>2. CASE e.t = "text"
    <3> DEFINE x == TextSse(e.d)
    <3>1. x \in SseSet /\ x.e = "text" /\ x.d = e.d
      BY <1>3, <2>2 DEF TextSse, SseSet
    <3> HIDE DEF x
    <3>2. Fine(v, x)
      BY <1>1, <3>1 DEF Fine, Speaking
    <3>3. /\ out \in Seq(SseSet) /\ Obedient(base \o out) /\ Heard(base \o out) = Hear(v, x)
      BY <1>1, <2>2, <3>1, <3>2, Emitted DEF x
    <3> HIDE DEF v
    <3>4. /\ Hear(v, x).text = v.text \o e.d
          /\ Hear(v, x).item = v.item /\ Hear(v, x).args = v.args /\ Hear(v, x).closed = v.closed
          /\ Hear(v, x).outcome = v.outcome /\ Hear(v, x).outputs = v.outputs
      BY <2>1, <3>1, HearText
    <3>5. SpokenIn(e) = e.d
      BY <2>2 DEF SpokenIn
    <3> DEFINE v1 == Hear(v, x)
    <3>6. /\ v1.text = st.output_text /\ v1.closed = st.tool_call_count
          /\ v1.outcome = "open" /\ v1.outputs = <<>>
      BY <1>1, <1>5, <3>4, <3>5 DEF Speaking
    <3>7. \A i \in Index : Matches(d.tool_calls, st.tool_calls, v1, i)
      BY <1>1, <1>5, <1>7, <3>4 DEF Speaking, Matches
    <3> HIDE DEF v1
    <3>8. Speaking(d, st, v1)
      BY <1>1, <1>7, <3>6, <3>7 DEF Speaking
    <3> QED
      BY <3>3, <3>8 DEF v1
  <2>3. CASE e.t # "text"
    <3>1. st.output_text = s.stats.output_text
      BY <1>1, <1>5, <2>3, TextFacts DEF SpokenIn, StatsSet
    <3>2. Speaking(d, st, v)
      BY <1>1, <1>5, <1>7, <3>1, SpeakingSame
    <3> QED
      BY <1>1, <2>3, <3>2
  <2> QED
    BY <2>2, <2>3
<1>9. r \in Sound
  <2> HIDE DEF out
  <2> QED
    BY <1>5, <1>6, <1>7, <1>8, SoundMade
<1>10. r \in SpeakingSet(base)
  <2> HIDE DEF out
  <2> QED
    BY <1>8, <1>9 DEF SpeakingSet
<1>11. Unclosed(d)
  BY <1>7 DEF Unclosed
<1> HIDE DEF out
<1> QED
  BY <1>4, <1>5, <1>7, <1>10, <1>11

\* Every event of a chunk leaves what the bridge has said in order and its record in agreement.
LEMMA BridgeEventOk ==
  ASSUME NEW base \in Seq(SseSet), NEW s \in SpeakingSet(base), Unclosed(s.dec),
         NEW e \in ChatEventSet
  PROVE  LET r == BridgeEvent(s, e)
         IN  /\ r \in SpeakingSet(base) /\ Unclosed(r.dec)
             /\ r.dec.completed = s.dec.completed /\ r.dec.data_lines = s.dec.data_lines
             /\ r.stats.output_text = s.stats.output_text \o SpokenIn(e)
<1>1. CASE e.t = "delta"
  BY <1>1, BridgeDelta, Zenon
<1>2. CASE e.t # "delta"
  BY <1>2, BridgeOther, Zenon
<1> QED
  BY <1>1, <1>2

\* The events of a document.
LEMMA BridgeEventsOk ==
  ASSUME NEW base \in Seq(SseSet), NEW s \in SpeakingSet(base), Unclosed(s.dec),
         NEW xs \in Seq(ChatEventSet), OneVoice(xs)
  PROVE  LET r == BridgeEvents(s, xs)
         IN  /\ r \in SpeakingSet(base) /\ Unclosed(r.dec)
             /\ r.dec.completed = s.dec.completed /\ r.dec.data_lines = s.dec.data_lines
             /\ r.stats.output_text = s.stats.output_text \o Spoken(xs)
<1> DEFINE N == Len(xs)
           c == s.dec.completed
           l == s.dec.data_lines
           V == {r \in SpeakingSet(base) : Unclosed(r.dec) /\ r.dec.completed = c
                                           /\ r.dec.data_lines = l}
<1>1. N \in Nat /\ \A n \in 1..N : xs[n] \in ChatEventSet
  OBVIOUS
<1>2. s \in V
  OBVIOUS
<1> HIDE DEF c, l
<1>3. ASSUME NEW r \in V, NEW n \in 1..N PROVE BridgeEvent(r, xs[n]) \in V
  <2>1. r \in SpeakingSet(base) /\ Unclosed(r.dec) /\ xs[n] \in ChatEventSet
    BY <1>1
  <2>2. /\ BridgeEvent(r, xs[n]) \in SpeakingSet(base) /\ Unclosed(BridgeEvent(r, xs[n]).dec)
        /\ BridgeEvent(r, xs[n]).dec.completed = r.dec.completed
        /\ BridgeEvent(r, xs[n]).dec.data_lines = r.dec.data_lines
    BY <2>1, BridgeEventOk, Zenon
  <2> QED
    BY <2>2
<1> HIDE DEF V
<1>4. PICK f \in [0..N -> V] :
          /\ f[0] = s
          /\ \A n \in 1..N : f[n] = BridgeEvent(f[n - 1], xs[n])
          /\ BridgeEvents(s, xs) = f[N]
  <2>1. \A r \in V : \A n \in 1..Len(xs) : BridgeEvent(r, xs[n]) \in V
    BY <1>3
  <2>2. Len(xs) \in Nat
    BY <1>1
  <2>3. PICK f : BridgeEventsIn(f, V, s, xs)
    BY <1>2, <2>1, <2>2, BridgeEventsRun, Zenon
  <2> QED
    BY <2>3, Zenon DEF BridgeEventsIn
<1> DEFINE At(n) == f[n].stats.output_text
                       = s.stats.output_text \o (IF n = 0 THEN <<>> ELSE SpokenIn(xs[1]))
           T == {n \in 0..N : At(n)}
<1> HIDE DEF N
<1>5. s.stats.output_text \in Text
  BY SoundParts DEF StatsSet, SpeakingSet
<1>6. 0 \in T
  <2>1. 0 \in 0..N /\ f[0] = s /\ s.stats.output_text \o <<>> = s.stats.output_text
    BY <1>1, <1>4, <1>5, TextFacts
  <2> QED
    BY <2>1
<1>7. ASSUME NEW n \in 0..N, n < N, n \in T PROVE n + 1 \in T
  <2>1. n + 1 \in 1..N /\ n + 1 \in 0..N /\ (n + 1) - 1 = n /\ n + 1 # 0
    BY <1>1, <1>7
  <2>2. /\ f[n] \in SpeakingSet(base) /\ Unclosed(f[n].dec) /\ f[n] \in Sound
        /\ xs[n + 1] \in ChatEventSet /\ f[n + 1] = BridgeEvent(f[n], xs[n + 1])
    BY <1>1, <1>4, <2>1 DEF V, SpeakingSet
  <2>3. f[n + 1].stats.output_text = f[n].stats.output_text \o SpokenIn(xs[n + 1])
    <3>1. BridgeEvent(f[n], xs[n + 1]).stats.output_text
              = f[n].stats.output_text \o SpokenIn(xs[n + 1])
      BY <2>2, BridgeEventOk, Zenon
    <3> QED
      BY <2>2, <3>1
  <2>4. CASE n = 0
    <3>1. f[n].stats.output_text = s.stats.output_text /\ xs[n + 1] = xs[1]
      BY <1>4, <2>4
    <3> QED
      BY <2>1, <2>3, <3>1
  <2>5. CASE n # 0
    <3>1. n + 1 \in 2..N
      BY <1>1, <1>7, <2>5
    <3>2. xs[n + 1].t # "text"
      BY <3>1 DEF OneVoice, N
    <3>3. f[n].stats.output_text \in Text
      BY <2>2, SoundParts DEF StatsSet
    <3>4. f[n + 1].stats.output_text = f[n].stats.output_text
      BY <2>3, <3>2, <3>3, TextFacts DEF SpokenIn
    <3>5. At(n)
      BY <1>7
    <3> QED
      BY <2>1, <2>5, <3>4, <3>5
  <2> QED
    BY <2>4, <2>5
<1>8. At(N)
  <2>1. \A n \in 0..N : n \in T
    <3> HIDE DEF T
    <3> QED
      BY <1>1, <1>6, <1>7, BoundedInduction
  <2>2. N \in T
    BY <1>1, <2>1
  <2> QED
    BY <2>2
<1>9. (IF N = 0 THEN <<>> ELSE SpokenIn(xs[1])) = Spoken(xs)
  BY <1>1, EmptySeq DEF Spoken, N
<1>10. f[N] \in V
  BY <1>1, <1>4
<1> QED
  BY <1>4, <1>8, <1>9, <1>10 DEF V, c, l

-----------------------------------------------------------------------------
(* The end of a bridged response.                                            *)

\* What has been heard differs in that a call is closed.
Shut(v, r, i) ==
    /\ r \in HeardSet /\ r.item = [v.item EXCEPT ![i] = "closed"] /\ r.closed = v.closed + 1
    /\ r.args = v.args /\ r.text = v.text /\ r.outcome = v.outcome /\ r.outputs = v.outputs

\* A call that was announced is stated and closed.
LEMMA ShutSaid ==
  ASSUME NEW base \in Seq(SseSet), NEW out \in Seq(SseSet), NEW i \in Index, NEW c \in CallSet,
         Obedient(base \o out), Heard(base \o out).outcome = "open",
         Heard(base \o out).item[i] = "announced", Heard(base \o out).args[i] = c.arguments
  PROVE  LET o == out \o ToolCallDoneSse(i, c)
         IN  o \in Seq(SseSet) /\ Obedient(base \o o) /\ Shut(Heard(base \o out), Heard(base \o o), i)
<1> DEFINE x == [e |-> "stated", i |-> i, id |-> c.id, name |-> c.name, d |-> c.arguments]
           y == [e |-> "closed", i |-> i, id |-> c.id, name |-> c.name, d |-> c.arguments]
           o1 == out \o <<x>>
           o2 == o1 \o <<y>>
           v0 == Heard(base \o out)
           v1 == Heard(base \o o1)
           v2 == Heard(base \o o2)
<1>1. /\ x \in SseSet /\ x.e = "stated" /\ x.i = i /\ x.d = c.arguments
      /\ y \in SseSet /\ y.e = "closed" /\ y.i = i /\ y.d = c.arguments
  BY DEF SseSet, CallSet
<1>2. ToolCallDoneSse(i, c) = <<x, y>>
  BY DEF ToolCallDoneSse
<1> HIDE DEF x, y
<1>3. out \o ToolCallDoneSse(i, c) = o2
  <2>1. <<x>> \in Seq(SseSet) /\ <<y>> \in Seq(SseSet) /\ <<x, y>> = <<x>> \o <<y>>
    <3>1. <<x>> \in Seq(SseSet) /\ <<y>> \in Seq(SseSet) /\ <<x, y>> \in Seq(SseSet)
      BY <1>1
    <3> DEFINE p == <<x, y>>
               q == <<x>> \o <<y>>
    <3>2. /\ p \in Seq(SseSet) /\ Len(p) = 2 /\ p[1] = x /\ p[2] = y
          /\ q \in Seq(SseSet) /\ Len(q) = 2 /\ q[1] = x /\ q[2] = y
      BY <3>1
    <3> HIDE DEF p, q
    <3>3. p = q
      BY <3>2, SeqEqual
    <3> QED
      BY <3>1, <3>3 DEF p, q
  <2>2. (out \o <<x>>) \o <<y>> = out \o (<<x>> \o <<y>>)
    BY <2>1, ConcatAssociative
  <2> QED
    BY <1>2, <2>1, <2>2
<1>4. v0 \in HeardSet /\ v0.item \in [Index -> StageSet]
  <2>1. base \o out \in Seq(SseSet)
    OBVIOUS
  <2>2. v0 \in HeardSet
    BY <2>1, HeardBy
  <2> QED
    BY <2>2 DEF HeardSet
<1>5. Fine(v0, x)
  BY <1>1 DEF Fine
<1>6. /\ o1 \in Seq(SseSet) /\ Obedient(base \o o1) /\ v1 = Hear(v0, x) /\ v1 \in HeardSet
  BY <1>1, <1>5, EmittedOne, Zenon
<1> HIDE DEF o1
<1>7. /\ v1.item = [v0.item EXCEPT ![i] = "stated"]
      /\ v1.args = v0.args /\ v1.text = v0.text /\ v1.closed = v0.closed
      /\ v1.outcome = v0.outcome /\ v1.outputs = v0.outputs
  <2> HIDE DEF v0, v1
  <2> QED
    BY <1>1, <1>4, <1>5, <1>6, HearStated
<1>8. Fine(v1, y)
  <2>1. v1.item[i] = "stated" /\ v1.args[i] = c.arguments /\ v1.outcome = "open"
    BY <1>4, <1>7
  <2> HIDE DEF v1
  <2> QED
    BY <1>1, <2>1 DEF Fine
<1>9. /\ o2 \in Seq(SseSet) /\ Obedient(base \o o2) /\ v2 = Hear(v1, y) /\ v2 \in HeardSet
  BY <1>1, <1>6, <1>8, EmittedOne, Zenon
<1> HIDE DEF o2, v0, v1, v2
<1>10. /\ v2.item = [v1.item EXCEPT ![i] = "closed"]
       /\ v2.args = v1.args /\ v2.text = v1.text /\ v2.closed = v1.closed + 1
       /\ v2.outcome = v1.outcome /\ v2.outputs = v1.outputs
  BY <1>1, <1>6, <1>8, <1>9, HearClosed
<1>11. v2.item = [v0.item EXCEPT ![i] = "closed"]
  BY <1>4, <1>7, <1>10
<1>12. Shut(v0, v2, i)
  BY <1>7, <1>9, <1>10, <1>11 DEF Shut
<1> QED
  BY <1>3, <1>9, <1>12 DEF v0, v2

\* What the entries of the calls are once one is closed.
LEMMA ShutMatches ==
  ASSUME NEW calls \in CallTable, NEW recorded \in CallTable, NEW i \in DOMAIN calls,
         NEW v \in HeardSet, NEW r, Shut(v, r, i),
         \A j \in Index : Matches(calls, recorded, v, j),
         NEW n \in CallSet, n.done, n.arguments = v.args[i], NEW j \in Index
  PROVE  Matches([calls EXCEPT ![i].done = TRUE], Put(recorded, i, n), r, j)
<1> DEFINE calls1 == [calls EXCEPT ![i].done = TRUE]
           recorded1 == Put(recorded, i, n)
<1>1. /\ calls1 \in CallTable /\ DOMAIN calls1 = DOMAIN calls /\ calls1[i].done
      /\ calls1[i].arguments = calls[i].arguments /\ i \in Index /\ calls[i] \in CallSet
      /\ \A k \in DOMAIN calls : k # i => calls1[k] = calls[k]
  BY MarkedDone
<1>2. Entry(recorded1, i) = n /\ \A k \in Index : k # i => Entry(recorded1, k) = Entry(recorded, k)
  BY DEF Put, Entry
<1>3. v.item \in [Index -> StageSet] /\ v.args \in [Index -> Text]
  BY DEF HeardSet
<1>4. r.item = [v.item EXCEPT ![i] = "closed"] /\ r.args = v.args
  BY DEF Shut
<1>5. calls[i].arguments = v.args[i] /\ Matches(calls, recorded, v, j)
  BY <1>1 DEF Matches, Entry
<1>6. calls1[i] \in CallSet
  BY <1>1, TableFacts
<1> HIDE DEF calls1, recorded1
<1>7. Entry(calls1, i) = calls1[i] /\ \A k \in Index : k # i => Entry(calls1, k) = Entry(calls, k)
  BY <1>1 DEF Entry
<1>8. CASE j = i
  <2>1. n.done = calls1[i].done
    BY <1>1, <1>6 DEF CallSet
  <2>2. r.item[i] = StageOf(calls1[i])
    BY <1>1, <1>3, <1>4 DEF StageOf
  <2>3. Matches(calls1, recorded1, r, i)
    BY <1>1, <1>2, <1>4, <1>5, <1>7, <2>1, <2>2 DEF Matches
  <2> QED
    BY <1>8, <2>3 DEF calls1, recorded1
<1>9. CASE j # i
  <2>1. r.item[j] = v.item[j] /\ r.args[j] = v.args[j]
    BY <1>3, <1>4, <1>9
  <2>2. Matches(calls1, recorded1, r, j)
    BY <1>2, <1>5, <1>7, <1>9, <2>1 DEF Matches
  <2> QED
    BY <2>2 DEF calls1, recorded1
<1> QED
  BY <1>8, <1>9

\* A call is finished: the client, the decoder and the record have it done.
LEMMA FinishCallOk ==
  ASSUME NEW base \in Seq(SseSet), NEW s \in SpeakingSet(base), NEW i \in DOMAIN s.dec.tool_calls
  PROVE  LET r == finish_call(s, i)
         IN  /\ r \in SpeakingSet(base) /\ DOMAIN r.dec.tool_calls = DOMAIN s.dec.tool_calls
             /\ \A j \in DOMAIN s.dec.tool_calls :
                    j = i \/ s.dec.tool_calls[j].done => r.dec.tool_calls[j].done
             /\ r.stats.output_text = s.stats.output_text
             /\ r.dec.data_lines = s.dec.data_lines /\ r.dec.completed = s.dec.completed
<1> DEFINE calls == s.dec.tool_calls
           recorded == s.stats.tool_calls
           c == calls[i]
           table == [calls EXCEPT ![i].done = TRUE]
           d == [s.dec EXCEPT !.tool_calls = table]
           o == s.out \o ToolCallDoneSse(i, c)
           w == [dec |-> d, stats |-> s.stats, out |-> o]
           e == ToolCallDone(i, c.id, c.name, c.arguments)
           n == Closed(Entry(recorded, i), e)
           recorded1 == Put(recorded, i, n)
           v0 == Heard(base \o s.out)
           v1 == Heard(base \o o)
<1>1. /\ s \in Sound /\ Obedient(base \o s.out) /\ Speaking(s.dec, s.stats, v0)
      /\ s.dec \in DecSet /\ s.stats \in StatsSet /\ s.out \in Seq(SseSet) /\ s \in WorkSet
      /\ calls \in CallTable /\ recorded \in CallTable /\ Counted(s.stats)
      /\ s.stats.output_text \in Text
  BY SoundParts DEF SpeakingSet, StatsSet
<1>2. CASE c.done
  BY <1>2 DEF finish_call
<1>3. CASE ~c.done
  <2>1. /\ table \in CallTable /\ DOMAIN table = DOMAIN calls /\ i \in Index /\ c \in CallSet
        /\ table[i].done /\ \A j \in DOMAIN calls : j # i => table[j] = calls[j]
        /\ \A j \in DOMAIN calls : calls[j].added
    <3> HIDE DEF calls
    <3>1. i \in DOMAIN calls /\ \A j \in DOMAIN calls : calls[j].added
      BY <1>1 DEF calls, Speaking
    <3> QED
      BY <1>1, <3>1, MarkedDone
  <2>2. table[i].added
    <3>1. table[i] = [calls[i] EXCEPT !.done = TRUE] /\ calls[i].added
      BY <2>1
    <3> QED
      BY <2>1, <3>1 DEF CallSet
  <2>3. e \in DoneSet /\ e \in EventSet /\ e.i = i /\ e.arguments = c.arguments /\ e.t = "done"
    <3>1. e \in DoneSet
      BY <2>1, DoneEvent
    <3> QED
      BY <3>1 DEF EventSet, DoneSet, ToolCallDone
  <2>4. Matches(calls, recorded, v0, i) /\ \A j \in Index : Matches(calls, recorded, v0, j)
    BY <1>1, <2>1 DEF Speaking
  <2>5. /\ v0.item[i] = "announced" /\ v0.args[i] = c.arguments /\ v0.outcome = "open"
        /\ ~Entry(recorded, i).done /\ Entry(recorded, i).arguments = c.arguments
    <3>1. Entry(calls, i) = c /\ c.added
      BY <2>1 DEF Entry
    <3> QED
      BY <1>1, <1>3, <2>4, <3>1 DEF Matches, StageOf, Speaking
  <2>6. finish_call(s, i) = Record(w, e)
    <3>1. [s EXCEPT !.dec.tool_calls[i].done = TRUE, !.out = @ \o ToolCallDoneSse(i, c)]
              = [s EXCEPT !.dec = d, !.out = o]
      BY <1>1 DEF WorkSet, DecSet
    <3>2. [s EXCEPT !.dec = d, !.out = o] = w
      <4> HIDE DEF d, o
      <4> QED
        BY <1>1, SpeechChanged
    <3> QED
      BY <1>3, <3>1, <3>2 DEF finish_call
  <2>7. o \in Seq(SseSet) /\ Obedient(base \o o) /\ Shut(v0, v1, i)
    <3> HIDE DEF c
    <3> QED
      BY <1>1, <2>1, <2>5, ShutSaid, Zenon
  <2>8. v0 \in HeardSet
    <3>1. base \o s.out \in Seq(SseSet)
      BY <1>1
    <3> QED
      BY <3>1, HeardBy
  <2>9. n \in CallSet /\ n.done /\ n.arguments = v0.args[i]
    <3>1. Entry(recorded, i) \in CallSet
      BY <1>1, <2>1, EntryFacts
    <3> HIDE DEF e
    <3>2. n \in CallSet /\ n.done
          /\ n.arguments = IF e.arguments # <<>> THEN e.arguments ELSE Entry(recorded, i).arguments
      BY <2>3, <3>1, ClosedFacts
    <3> QED
      BY <2>3, <2>5, <3>2
  <2>10. \A j \in Index : Matches(table, recorded1, v1, j)
    <3> HIDE DEF v0, v1, n, recorded, calls
    <3>1. i \in DOMAIN calls
      BY DEF calls
    <3> QED
      BY <1>1, <2>4, <2>7, <2>8, <2>9, <3>1, ShutMatches, Zenon
  <2> HIDE DEF table
  <2>11. /\ d \in DecSet /\ d.tool_calls = table /\ d.completed = s.dec.completed
         /\ d.data_lines = s.dec.data_lines
    BY <1>1, <2>1 DEF DecSet
  <2> HIDE DEF d, o, e
  <2>12. w \in Sound /\ w.dec = d /\ w.stats = s.stats /\ w.out = o
    BY <1>1, <2>7, <2>11, SoundMade
  <2>13. /\ Record(w, e) \in Sound /\ Record(w, e).dec = d /\ Record(w, e).out = o
         /\ Record(w, e).stats = record_event(s.stats, e)
    <3> HIDE DEF w
    <3> QED
      BY <2>3, <2>12, RecordSound
  <2> DEFINE r == Record(w, e)
  <2>14. /\ r.stats.tool_calls = recorded1 /\ r.stats.output_text = s.stats.output_text
         /\ r.stats.tool_call_count = s.stats.tool_call_count + 1
    <3> DEFINE st == record_event(s.stats, e)
    <3>1. /\ st.tool_calls = Put(s.stats.tool_calls, e.i, Closed(Entry(s.stats.tool_calls, e.i), e))
          /\ st.output_text = s.stats.output_text
          /\ st.tool_call_count = s.stats.tool_call_count
                + (IF Entry(s.stats.tool_calls, e.i).done THEN 0 ELSE 1)
      BY <1>1, <2>3, RecordDone, Zenon
    <3> HIDE DEF st
    <3> QED
      BY <2>3, <2>5, <2>13, <3>1 DEF st
  <2> HIDE DEF r, w, v0, v1, recorded1, recorded
  <2>15. /\ v1.text = r.stats.output_text /\ v1.closed = r.stats.tool_call_count
         /\ v1.outcome = "open" /\ v1.outputs = <<>>
    BY <1>1, <2>7, <2>14 DEF Speaking, Shut
  <2>16. \A j \in DOMAIN table : table[j].added
    BY <2>1, <2>2
  <2>17. Speaking(r.dec, r.stats, v1)
    BY <2>10, <2>11, <2>13, <2>14, <2>15, <2>16 DEF Speaking, r
  <2>18. r \in SpeakingSet(base)
    BY <2>7, <2>13, <2>17 DEF SpeakingSet, r, v1
  <2>19. \A j \in DOMAIN calls : j = i \/ calls[j].done => table[j].done
    BY <2>1
  <2> QED
    BY <2>1, <2>6, <2>11, <2>13, <2>14, <2>18, <2>19 DEF r
<1> QED
  BY <1>2, <1>3

\* All calls are finished.
LEMMA FinishCallsOk ==
  ASSUME NEW base \in Seq(SseSet), NEW s \in SpeakingSet(base)
  PROVE  LET r == FinishCalls(s, InOrder(DOMAIN s.dec.tool_calls))
         IN  /\ r \in SpeakingSet(base)
             /\ \A j \in DOMAIN r.dec.tool_calls : r.dec.tool_calls[j].done
             /\ r.stats.output_text = s.stats.output_text
             /\ r.dec.data_lines = s.dec.data_lines /\ r.dec.completed = s.dec.completed
<1> DEFINE D == DOMAIN s.dec.tool_calls
           xs == InOrder(D)
           N == Len(xs)
           t == s.stats.output_text
           l == s.dec.data_lines
           c == s.dec.completed
           V == {r \in SpeakingSet(base) :
                    /\ r.stats.output_text = t /\ r.dec.data_lines = l /\ r.dec.completed = c
                    /\ DOMAIN r.dec.tool_calls = D}
<1>1. D \in SUBSET Nat /\ IsFiniteSet(D)
  BY SoundParts, TableFacts DEF SpeakingSet
<1>2. s \in V
  OBVIOUS
<1> HIDE DEF D, t, l, c
<1>3. N \in Nat /\ (\A n \in 1..N : xs[n] \in D) /\ \A j \in D : \E n \in 1..N : xs[n] = j
  BY <1>1, InOrderFacts
<1> HIDE DEF xs
<1>4. ASSUME NEW r \in V, NEW n \in 1..Len(xs)
      PROVE  /\ finish_call(r, xs[n]) \in V
             /\ \A j \in D : j = xs[n] \/ r.dec.tool_calls[j].done
                                => finish_call(r, xs[n]).dec.tool_calls[j].done
  <2> DEFINE q == finish_call(r, xs[n])
  <2>1. r \in SpeakingSet(base) /\ xs[n] \in DOMAIN r.dec.tool_calls
    BY <1>3
  <2>2. /\ q \in SpeakingSet(base) /\ DOMAIN q.dec.tool_calls = DOMAIN r.dec.tool_calls
        /\ \A j \in DOMAIN r.dec.tool_calls :
               j = xs[n] \/ r.dec.tool_calls[j].done => q.dec.tool_calls[j].done
        /\ q.stats.output_text = r.stats.output_text
        /\ q.dec.data_lines = r.dec.data_lines /\ q.dec.completed = r.dec.completed
    BY <2>1, FinishCallOk, Zenon
  <2> HIDE DEF q
  <2> QED
    BY <2>2 DEF q
<1>5. \A r \in V : DOMAIN r.dec.tool_calls = D
  OBVIOUS
<1> HIDE DEF V
<1>6. PICK f : FinishCallsIn(f, V, s, xs)
  <2>1. \A r \in V : \A n \in 1..Len(xs) : finish_call(r, xs[n]) \in V
    BY <1>4
  <2> QED
    BY <1>2, <1>3, <2>1, FinishCallsRun, Zenon
<1>7. /\ f \in [0..N -> V] /\ f[0] = s /\ \A n \in 1..N : f[n] = finish_call(f[n - 1], xs[n])
      /\ FinishCalls(s, xs) = f[N] /\ f[N] \in V
  BY <1>6, Zenon DEF FinishCallsIn
<1> DEFINE T == {n \in 0..N : \A m \in 1..n : f[n].dec.tool_calls[xs[m]].done}
<1>8. 0 \in T
  BY <1>3
<1>9. ASSUME NEW n \in 0..N, n < N, n \in T PROVE n + 1 \in T
  <2>1. n + 1 \in 1..N /\ n + 1 \in 0..N /\ (n + 1) - 1 = n
    BY <1>3, <1>9
  <2>2. f[n] \in V /\ f[n + 1] = finish_call(f[n], xs[n + 1])
    BY <1>7, <2>1
  <2>3. \A j \in D : j = xs[n + 1] \/ f[n].dec.tool_calls[j].done
                        => f[n + 1].dec.tool_calls[j].done
    BY <1>4, <2>1, <2>2
  <2>4. ASSUME NEW m \in 1..(n + 1) PROVE f[n + 1].dec.tool_calls[xs[m]].done
    <3>1. m \in 1..N /\ xs[m] \in D
      BY <1>3, <2>1, <1>9
    <3>2. m = n + 1 \/ m \in 1..n
      BY <1>3
    <3> QED
      BY <1>9, <2>3, <3>1, <3>2
  <2> QED
    BY <2>1, <2>4
<1>10. N \in T
  <2> HIDE DEF T, N
  <2>1. \A n \in 0..N : n \in T
    BY <1>3, <1>8, <1>9, BoundedInduction
  <2> QED
    BY <1>3, <2>1
<1>11. \A j \in D : f[N].dec.tool_calls[j].done
  BY <1>3, <1>10
<1>12. DOMAIN f[N].dec.tool_calls = D
  BY <1>5, <1>7
<1> QED
  BY <1>7, <1>11, <1>12 DEF V, D, t, l, c, xs

\* What is recorded besides calls and text changes nothing that was said.
LEMMA RecordAside ==
  ASSUME NEW base \in Seq(SseSet), NEW s \in SpeakingSet(base),
         NEW e \in UsageEventSet \cup FinishedSet
  PROVE  LET r == Record(s, e)
         IN  /\ r \in SpeakingSet(base) /\ r.dec = s.dec /\ r.out = s.out
             /\ r.stats.output_text = s.stats.output_text
<1> DEFINE v == Heard(base \o s.out)
<1>1. /\ s \in Sound /\ Obedient(base \o s.out) /\ Speaking(s.dec, s.stats, v)
      /\ s.stats \in StatsSet /\ s.stats.output_text \in Text
  BY SoundParts DEF SpeakingSet, StatsSet
<1>2. e \in EventSet /\ e.t # "text"
  BY DEF EventSet, UsageEventSet, FinishedSet
<1>3. /\ Record(s, e) \in Sound /\ Record(s, e).dec = s.dec /\ Record(s, e).out = s.out
      /\ Record(s, e).stats = record_event(s.stats, e)
  BY <1>1, <1>2, RecordSound
<1>4. /\ record_event(s.stats, e).tool_calls = s.stats.tool_calls
      /\ record_event(s.stats, e).tool_call_count = s.stats.tool_call_count
      /\ record_event(s.stats, e).output_text = s.stats.output_text \o SpokenIn(e)
  BY <1>1, RecordOther
<1>5. s.stats.output_text \o SpokenIn(e) = s.stats.output_text
  BY <1>1, <1>2, TextFacts DEF SpokenIn
<1>6. Speaking(s.dec, record_event(s.stats, e), v)
  BY <1>1, <1>4, <1>5, SpeakingSame
<1> QED
  BY <1>1, <1>3, <1>4, <1>5, <1>6 DEF SpeakingSet

\* The items of the response say what the client was told.
LEMMA OutputItems ==
  ASSUME NEW s \in Sound, NEW v \in HeardSet, Speaking(s.dec, s.stats, v),
         \A i \in DOMAIN s.dec.tool_calls : s.dec.tool_calls[i].done
  PROVE  /\ response_output_items(s) \in Seq(OutputSet)
         /\ OutputAgrees(v, response_output_items(s))
         /\ \A i \in Index : v.item[i] \in {"none", "closed"}
<1> DEFINE calls == s.dec.tool_calls
           D == {i \in DOMAIN calls : calls[i].id # <<>> /\ calls[i].name # <<>>}
           named == InOrder(D)
           Agrees(x) == IF x.type = "message" THEN x.d = v.text
                        ELSE v.item[x.i] = "closed" /\ x.d = v.args[x.i]
           G == {x \in OutputSet : Agrees(x)}
           A == SomeSeq(IF s.stats.output_text = <<>> THEN None ELSE s.stats.output_text,
                        LAMBDA t : [type |-> "message", d |-> t])
           B == [n \in DOMAIN named |->
                    [type |-> "call", i |-> named[n], d |-> calls[named[n]].arguments]]
<1>1. calls \in CallTable /\ s.stats.output_text \in Text
  BY SoundParts DEF StatsSet
<1>2. /\ DOMAIN calls \subseteq Index /\ \A i \in DOMAIN calls : calls[i] \in CallSet
      /\ IsFiniteSet(DOMAIN calls) /\ DOMAIN calls \in SUBSET Nat
  BY <1>1, TableFacts
<1>3. D \in SUBSET Nat /\ IsFiniteSet(D)
  BY <1>2, FS_Subset
<1>4. \A i \in Index : Matches(calls, s.stats.tool_calls, v, i)
  BY DEF Speaking
<1>5. ASSUME NEW i \in DOMAIN calls
      PROVE  v.item[i] = "closed" /\ calls[i].arguments = v.args[i] /\ calls[i].arguments \in Text
  <2>1. Entry(calls, i) = calls[i] /\ calls[i].done /\ i \in Index /\ calls[i] \in CallSet
    BY <1>2 DEF Entry
  <2>2. Matches(calls, s.stats.tool_calls, v, i)
    BY <1>4, <2>1
  <2> QED
    BY <2>1, <2>2 DEF Matches, StageOf, CallSet
<1>6. ASSUME NEW i \in Index PROVE v.item[i] \in {"none", "closed"}
  <2>1. CASE i \in DOMAIN calls
    BY <1>5, <2>1
  <2>2. CASE i \notin DOMAIN calls
    <3>1. Entry(calls, i) = NoCall /\ Matches(calls, s.stats.tool_calls, v, i)
      BY <1>4, <2>2 DEF Entry
    <3> QED
      BY <3>1 DEF Matches, StageOf, NoCall
  <2> QED
    BY <2>1, <2>2
<1>7. response_output_items(s) = A \o B
  BY DEF response_output_items
<1>8. DOMAIN named = 1..Cardinality(D) /\ Cardinality(D) \in Nat
      /\ \A n \in 1..Cardinality(D) : named[n] \in D
  <2> HIDE DEF D
  <2> QED
    BY <1>3, InOrderFacts
<1>9. A \in Seq(G)
  <2> DEFINE t == s.stats.output_text
             x == [type |-> "message", d |-> t]
  <2>1. A = <<>> \/ A = <<x>>
    BY DEF SomeSeq
  <2>2. x \in OutputSet /\ Agrees(x)
    <3>1. t = v.text
      BY DEF Speaking
    <3> QED
      BY <1>1, <3>1 DEF OutputSet
  <2> HIDE DEF A, x, Agrees
  <2>3. x \in G
    BY <2>2
  <2> HIDE DEF G
  <2>4. <<>> \in Seq(G) /\ <<x>> \in Seq(G)
    BY <2>3
  <2> QED
    BY <2>1, <2>4, Zenon
<1>10. B \in Seq(G)
  <2>1. ASSUME NEW n \in 1..Cardinality(D) PROVE B[n] \in G
    <3> DEFINE i == named[n]
    <3>1. i \in DOMAIN calls /\ i \in Index
      BY <1>2, <1>8
    <3>2. B[n] = [type |-> "call", i |-> i, d |-> calls[i].arguments]
      BY <1>8
    <3> HIDE DEF i, B, named, calls
    <3>3. v.item[i] = "closed" /\ calls[i].arguments = v.args[i] /\ calls[i].arguments \in Text
      BY <1>5, <3>1
    <3>4. B[n] \in OutputSet
      BY <3>1, <3>2, <3>3 DEF OutputSet
    <3> QED
      BY <3>2, <3>3, <3>4
  <2>2. DOMAIN B = 1..Cardinality(D)
    BY <1>8
  <2>3. B = [n \in 1..Cardinality(D) |-> B[n]]
    BY <2>2
  <2> HIDE DEF B, G, D
  <2> QED
    BY <1>8, <2>1, <2>3
<1> HIDE DEF A, B
<1>11. A \o B \in Seq(G)
  <2> HIDE DEF G
  <2> QED
    BY <1>9, <1>10
<1> DEFINE o == A \o B
<1> HIDE DEF o
<1>12. o \in Seq(OutputSet) /\ \A n \in DOMAIN o : Agrees(o[n])
  <2>1. o \in Seq(G)
    BY <1>11 DEF o
  <2>2. \A n \in DOMAIN o : o[n] \in G
    <3> HIDE DEF G
    <3> QED
      BY <2>1
  <2>3. G \subseteq OutputSet
    <3> HIDE DEF Agrees
    <3> QED
      OBVIOUS
  <2>4. o \in Seq(OutputSet)
    <3> HIDE DEF G
    <3> QED
      BY <2>1, <2>3
  <2> HIDE DEF Agrees
  <2> QED
    BY <2>2, <2>4
<1>13. OutputAgrees(v, o)
  BY <1>12 DEF OutputAgrees
<1> QED
  BY <1>6, <1>7, <1>12, <1>13 DEF o

\* The record of a bridged stream is what its client was told.
Told(st, v) ==
    /\ v.text = st.output_text /\ v.closed = st.tool_call_count
    /\ \A i \in Index : Entry(st.tool_calls, i).arguments = v.args[i]

\* Of a response that has completed, the items too.
Over(st, v) ==
    /\ Told(st, v) /\ v.outcome = "completed" /\ v.outputs = <<st.response_output_items>>

\* A bridge that still speaks has told its client what its record holds.
LEMMA SpeakingTold ==
  ASSUME NEW d, NEW st, NEW v, Speaking(d, st, v)
  PROVE  Told(st, v)
BY DEF Speaking, Told, Matches

\* The response completes.
LEMMA FinishResponse ==
  ASSUME NEW base \in Seq(SseSet), NEW s \in SpeakingSet(base)
  PROVE  LET r == finish_response(s)
         IN  /\ r \in Sound /\ Obedient(base \o r.out)
             /\ Over(r.stats, Heard(base \o r.out))
             /\ r.stats.output_text = s.stats.output_text
             /\ r.dec.data_lines = s.dec.data_lines /\ r.dec.completed = s.dec.completed
<1> DEFINE u == IF s.dec.usage = None THEN NoUsage ELSE s.dec.usage
           reason == IF s.dec.finish_reason = None THEN "Stop" ELSE s.dec.finish_reason
           s1 == FinishCalls(s, InOrder(DOMAIN s.dec.tool_calls))
           s2 == Record(s1, UsageEvent(u))
           s3 == Record(s2, Finished(reason))
           s4 == record_response_id(s3)
           items == response_output_items(s3)
           x == CompletedSse(s.dec.usage, items)
           r == [s4 EXCEPT !.out = Append(@, x)]
           v == Heard(base \o s3.out)
<1>1. s \in Sound /\ s.dec.usage \in Option(UsageSet) /\ s.dec.finish_reason \in Option(InternalFinishReason)
  BY SoundParts DEF SpeakingSet, DecSet
<1>2. UsageEvent(u) \in UsageEventSet \cup FinishedSet
  <2>1. NoUsage \in UsageSet
    BY DEF NoUsage, UsageSet, Option
  <2>2. u \in UsageSet
    BY <1>1, <2>1 DEF Option
  <2> QED
    BY <2>2 DEF UsageEvent, UsageEventSet
<1>3. Finished(reason) \in UsageEventSet \cup FinishedSet
  <2>1. reason \in InternalFinishReason
    BY <1>1 DEF Option, InternalFinishReason
  <2> QED
    BY <2>1 DEF Finished, FinishedSet
<1>4. finish_response(s) = [s4 EXCEPT !.out = Append(@, CompletedSse(s.dec.usage, response_output_items(s4)))]
  BY DEF finish_response
<1> HIDE DEF u, reason
<1>5. /\ s1 \in SpeakingSet(base)
      /\ \A j \in DOMAIN s1.dec.tool_calls : s1.dec.tool_calls[j].done
      /\ s1.stats.output_text = s.stats.output_text
      /\ s1.dec.data_lines = s.dec.data_lines /\ s1.dec.completed = s.dec.completed
  BY FinishCallsOk, Zenon
<1> HIDE DEF s1
<1>6. /\ s2 \in SpeakingSet(base) /\ s2.dec = s1.dec
      /\ s2.stats.output_text = s1.stats.output_text
  BY <1>2, <1>5, RecordAside, Zenon
<1> HIDE DEF s2
<1>7. /\ s3 \in SpeakingSet(base) /\ s3.dec = s2.dec
      /\ s3.stats.output_text = s2.stats.output_text
  BY <1>3, <1>6, RecordAside, Zenon
<1> HIDE DEF s3
<1>8. /\ s3 \in Sound /\ Obedient(base \o s3.out) /\ Speaking(s3.dec, s3.stats, v)
      /\ s3.dec \in DecSet /\ s3.stats \in StatsSet /\ s3.out \in Seq(SseSet) /\ s3 \in WorkSet
      /\ Counted(s3.stats)
  BY <1>7, SoundParts DEF SpeakingSet
<1>9. v \in HeardSet
  <2>1. base \o s3.out \in Seq(SseSet)
    BY <1>8
  <2> QED
    BY <2>1, HeardBy
<1>10. /\ items \in Seq(OutputSet) /\ OutputAgrees(v, items)
       /\ \A i \in Index : v.item[i] \in {"none", "closed"}
  <2> HIDE DEF v
  <2> QED
    BY <1>5, <1>6, <1>7, <1>8, <1>9, OutputItems
<1> DEFINE st == [s3.stats EXCEPT !.upstream_response_id = None, !.response_output_items = items]
           out == Append(s3.out, x)
<1>11. s4 = [s3 EXCEPT !.stats = st]
  BY <1>8 DEF record_response_id, WorkSet, StatsSet
<1>12. response_output_items(s4) = items
  <2>1. s4.dec.tool_calls = s3.dec.tool_calls /\ s4.stats.output_text = s3.stats.output_text
    BY <1>8, <1>11 DEF WorkSet, StatsSet
  <2> HIDE DEF s4
  <2> QED
    BY <2>1 DEF response_output_items
<1> HIDE DEF items
<1>13. /\ st \in StatsSet /\ st.response_output_items = items
       /\ st.tool_calls = s3.stats.tool_calls /\ st.output_text = s3.stats.output_text
       /\ st.tool_call_count = s3.stats.tool_call_count
  BY <1>8, <1>10 DEF StatsSet, Option
<1>14. Counted(st)
  BY <1>8, <1>13 DEF Counted
<1>15. x \in SseSet /\ x.e = "completed" /\ x.output = items
  BY <1>1, <1>10 DEF CompletedSse, SseSet
<1> HIDE DEF st, x
<1>16. finish_response(s) = [dec |-> s3.dec, stats |-> st, out |-> out]
  <2>1. s4 = [dec |-> s3.dec, stats |-> st, out |-> s3.out]
    BY <1>8, <1>11 DEF WorkSet
  <2> HIDE DEF s4
  <2> QED
    BY <1>4, <1>12, <2>1 DEF x
<1>17. Fine(v, x)
  BY <1>8, <1>10, <1>15 DEF Fine, Speaking
<1>18. out \in Seq(SseSet) /\ Obedient(base \o out) /\ Heard(base \o out) = Hear(v, x)
  BY <1>8, <1>15, <1>17, Emitted
<1> HIDE DEF out, v
<1> DEFINE w == Hear(v, x)
<1>19. /\ w.outputs = Append(v.outputs, x.output) /\ w.outcome = "completed"
       /\ w.args = v.args /\ w.text = v.text /\ w.closed = v.closed
  BY <1>9, <1>15, <1>17, HearCompleted
<1> HIDE DEF w
<1>20. Over(st, w)
  <2>1. Told(s3.stats, v) /\ v.outputs = <<>>
    BY <1>8, SpeakingTold DEF Speaking
  <2>2. w.outputs = <<items>>
    BY <1>15, <1>19, <2>1
  <2>3. Told(st, w)
    BY <1>13, <1>19, <2>1 DEF Told
  <2> QED
    BY <1>13, <1>19, <2>2, <2>3 DEF Over
<1>21. [dec |-> s3.dec, stats |-> st, out |-> out] \in Sound
  BY <1>8, <1>13, <1>14, <1>18, SoundMade
<1> QED
  BY <1>5, <1>6, <1>7, <1>13, <1>16, <1>18, <1>20, <1>21 DEF w

-----------------------------------------------------------------------------
(* The bridge and its lines.                                                 *)

\* What a line does to the text, the data and the end of a chat stream.
Heeds(decoder, s, l, r) ==
    IF l.k = "blank"
    THEN /\ r.dec.data_lines = <<>>
         /\ r.stats.output_text = s.stats.output_text \o
                (IF decoder = "bridge" /\ s.dec.completed THEN <<>>
                 ELSE TextOf(Joined(s.dec.data_lines)))
         /\ decoder = "bridge" =>
                (r.dec.completed <=> s.dec.completed \/ Joined(s.dec.data_lines) = Done)
    ELSE /\ r.dec.data_lines = IF l.k = "data" THEN Append(s.dec.data_lines, l.d)
                               ELSE s.dec.data_lines
         /\ r.stats.output_text = s.stats.output_text /\ r.dec.completed = s.dec.completed

\* The bridge between two lines: either the response is under way and no call is
\* done, or it has completed and the client was told so.
BridgeSet(base) ==
    {s \in Sound : LET v == Heard(base \o s.out)
                   IN  /\ Obedient(base \o s.out)
                       /\ s.dec.completed => Over(s.stats, v)
                       /\ ~s.dec.completed => Speaking(s.dec, s.stats, v) /\ Unclosed(s.dec)}

\* Lines set aside, or the end of the response noted, change nothing else.
LEMMA SetAside ==
  ASSUME NEW base \in Seq(SseSet), NEW s \in BridgeSet(base), NEW r \in Sound,
         r.stats = s.stats, r.out = s.out, r.dec.tool_calls = s.dec.tool_calls
  PROVE  /\ r.dec.completed = s.dec.completed => r \in BridgeSet(base)
         /\ ~s.dec.completed => r \in SpeakingSet(base) /\ Unclosed(r.dec)
<1> DEFINE v == Heard(base \o s.out)
<1>1. Obedient(base \o r.out) /\ Heard(base \o r.out) = v
  BY DEF BridgeSet
<1>2. ~s.dec.completed => Speaking(r.dec, r.stats, v) /\ Unclosed(r.dec)
  <2> SUFFICES ASSUME ~s.dec.completed PROVE Speaking(r.dec, r.stats, v) /\ Unclosed(r.dec)
    OBVIOUS
  <2>1. Speaking(s.dec, s.stats, v) /\ Unclosed(s.dec)
    BY DEF BridgeSet
  <2> HIDE DEF v
  <2> QED
    BY <2>1, SpeakingSame DEF Unclosed
<1>3. s.dec.completed => Over(r.stats, v)
  BY DEF BridgeSet
<1>4. ~s.dec.completed => r \in SpeakingSet(base)
  BY <1>1, <1>2 DEF SpeakingSet
<1> HIDE DEF v
<1> QED
  BY <1>1, <1>2, <1>3, <1>4 DEF BridgeSet

\* The bridge at the end of an event.
LEMMA FlushBridge ==
  ASSUME NEW base \in Seq(SseSet), NEW s \in BridgeSet(base), kind = "bridge"
  PROVE  flush_event_bridge(s) \in BridgeSet(base) /\ Heeds(kind, s, Blank, flush_event_bridge(s))
<1> DEFINE lines == s.dec.data_lines
           d == Joined(lines)
           w == [s EXCEPT !.dec.data_lines = <<>>]
           r == flush_event_bridge(s)
<1>1. s \in Sound /\ lines \in Seq(Document) /\ s.stats.output_text \in Text
      /\ s.dec.completed \in BOOLEAN
  BY SoundParts DEF DecSet, StatsSet, BridgeSet
<1>2. d \in Document \cup {NoData}
  <2> HIDE DEF lines
  <2> QED
    BY <1>1, JoinedType
<1>3. /\ w \in Sound /\ w.out = s.out /\ w.stats = s.stats /\ w.dec.data_lines = <<>>
      /\ w.dec.completed = s.dec.completed /\ w.dec.tool_calls = s.dec.tool_calls
      /\ [w EXCEPT !.dec.completed = TRUE] = WithLines(s, <<>>, TRUE)
  <2>1. <<>> \in Seq(Document)
    OBVIOUS
  <2> QED
    BY <1>1, <2>1, DecLines DEF Quiet
<1> HIDE DEF w
<1>4. w \in BridgeSet(base) /\ (~s.dec.completed => w \in SpeakingSet(base) /\ Unclosed(w.dec))
  BY <1>3, SetAside, Zenon
<1>5. Blank.k = "blank"
  BY DEF Blank
<1>6. CASE lines = <<>> \/ s.dec.completed
  <2>1. r = w
    BY <1>6 DEF flush_event_bridge, w
  <2>2. lines = <<>> => d # Done /\ TextOf(d) = <<>>
    BY DEF Joined, NoData, Done, TextOf
  <2>3. s.stats.output_text \o <<>> = s.stats.output_text
    BY <1>1, TextFacts
  <2> HIDE DEF r
  <2>4. r.dec.completed <=> s.dec.completed \/ d = Done
    BY <1>1, <1>3, <1>6, <2>1, <2>2
  <2>5. (IF kind = "bridge" /\ s.dec.completed THEN <<>> ELSE TextOf(d)) = <<>>
    BY <1>6, <2>2
  <2>6. Heeds(kind, s, Blank, r)
    BY <1>3, <1>5, <2>1, <2>3, <2>4, <2>5 DEF Heeds
  <2> QED
    BY <1>4, <2>1, <2>6 DEF r
<1>7. CASE lines # <<>> /\ ~s.dec.completed /\ d = Done
  <2> DEFINE q == [w EXCEPT !.dec.completed = TRUE]
  <2>1. r = finish_response(q)
    BY <1>7 DEF flush_event_bridge, w
  <2>2. /\ q \in Sound /\ q.stats = s.stats /\ q.out = s.out /\ q.dec.tool_calls = s.dec.tool_calls
        /\ q.dec.data_lines = <<>> /\ q.dec.completed
    <3>1. <<>> \in Seq(Document) /\ TRUE \in BOOLEAN
      OBVIOUS
    <3>2. LET z == WithLines(s, <<>>, TRUE)
          IN  /\ z \in Quiet(s.out, s.dec.event_buffer) /\ z.stats = s.stats
              /\ z.dec.data_lines = <<>> /\ z.dec.completed = TRUE
              /\ z.dec.tool_calls = s.dec.tool_calls /\ z.out = s.out
      BY <1>1, <3>1, DecChanged
    <3> QED
      BY <1>3, <3>2 DEF Quiet
  <2> HIDE DEF q
  <2>3. q \in SpeakingSet(base)
    BY <1>7, <2>2, SetAside, Zenon
  <2>4. /\ r \in Sound /\ Obedient(base \o r.out) /\ Over(r.stats, Heard(base \o r.out))
        /\ r.stats.output_text = q.stats.output_text
        /\ r.dec.data_lines = q.dec.data_lines /\ r.dec.completed = q.dec.completed
    <3>1. LET z == finish_response(q)
          IN  /\ z \in Sound /\ Obedient(base \o z.out) /\ Over(z.stats, Heard(base \o z.out))
              /\ z.stats.output_text = q.stats.output_text
              /\ z.dec.data_lines = q.dec.data_lines /\ z.dec.completed = q.dec.completed
      BY <2>3, FinishResponse, Zenon
    <3> QED
      BY <2>1, <3>1
  <2> HIDE DEF r
  <2>5. r \in BridgeSet(base)
    BY <2>2, <2>4 DEF BridgeSet
  <2>6. TextOf(d) = <<>> /\ s.stats.output_text \o <<>> = s.stats.output_text
    BY <1>1, <1>7, TextFacts DEF Done, TextOf
  <2>7. r.dec.completed <=> s.dec.completed \/ d = Done
    BY <1>7, <2>2, <2>4
  <2>8. Heeds(kind, s, Blank, r)
    BY <1>5, <1>7, <2>2, <2>4, <2>6, <2>7 DEF Heeds
  <2> QED
    BY <2>5, <2>8 DEF r
<1>8. CASE lines # <<>> /\ ~s.dec.completed /\ d # Done
  <2> DEFINE xs == ChatEvents(d)
  <2>1. r = BridgeEvents(w, xs)
    BY <1>8 DEF flush_event_bridge, w
  <2> HIDE DEF d
  <2>2. xs \in Seq(ChatEventSet) /\ OneVoice(xs) /\ Spoken(xs) = TextOf(d)
    BY <1>2, ChatEventsType
  <2> HIDE DEF xs
  <2>3. LET z == BridgeEvents(w, xs)
        IN  /\ z \in SpeakingSet(base) /\ Unclosed(z.dec)
            /\ z.dec.completed = w.dec.completed /\ z.dec.data_lines = w.dec.data_lines
            /\ z.stats.output_text = w.stats.output_text \o Spoken(xs)
    BY <1>4, <1>8, <2>2, BridgeEventsOk, Zenon
  <2>4. /\ r \in SpeakingSet(base) /\ Unclosed(r.dec)
        /\ r.dec.completed = s.dec.completed /\ r.dec.data_lines = <<>>
        /\ r.stats.output_text = s.stats.output_text \o TextOf(d)
    BY <1>3, <2>1, <2>2, <2>3
  <2> HIDE DEF r
  <2>5. r \in BridgeSet(base)
    BY <1>8, <2>4 DEF BridgeSet, SpeakingSet
  <2>6. Heeds(kind, s, Blank, r)
    BY <1>5, <1>8, <2>4 DEF Heeds, d
  <2> QED
    BY <2>5, <2>6 DEF r
<1> QED
  BY <1>1, <1>6, <1>7, <1>8

\* A line of a bridged stream.
LEMMA LineBridge ==
  ASSUME NEW base \in Seq(SseSet), NEW s \in BridgeSet(base), NEW l \in LineSet, kind = "bridge"
  PROVE  process_line(s, l) \in BridgeSet(base) /\ Heeds(kind, s, l, process_line(s, l))
<1> DEFINE r == process_line(s, l)
<1>1. s \in Sound
  BY DEF BridgeSet
<1>2. CASE l.k = "blank"
  <2>1. r = flush_event_bridge(s)
    BY <1>2 DEF process_line, process_line_chat, FlushEvent
  <2>2. flush_event_bridge(s) \in BridgeSet(base) /\ Heeds(kind, s, Blank, flush_event_bridge(s))
    BY FlushBridge
  <2>3. Blank.k = "blank"
    BY DEF Blank
  <2>4. Heeds(kind, s, l, flush_event_bridge(s))
    BY <1>2, <2>2, <2>3 DEF Heeds
  <2> QED
    BY <2>1, <2>2, <2>4
<1>3. CASE l.k = "data"
  <2>1. r = [s EXCEPT !.dec.data_lines = Append(@, l.d)]
    BY <1>3 DEF process_line, process_line_chat
  <2>2. LET z == [s EXCEPT !.dec.data_lines = Append(@, l.d)]
        IN  /\ z \in Quiet(s.out, s.dec.event_buffer) /\ z.stats = s.stats
            /\ z.dec.data_lines = Append(s.dec.data_lines, l.d)
            /\ z.dec.completed = s.dec.completed
            /\ z.dec.tool_calls = s.dec.tool_calls
    BY <1>1, <1>3, DataKept
  <2>3. /\ r \in Sound /\ r.out = s.out /\ r.stats = s.stats
        /\ r.dec.data_lines = Append(s.dec.data_lines, l.d)
        /\ r.dec.completed = s.dec.completed /\ r.dec.tool_calls = s.dec.tool_calls
    BY <2>1, <2>2 DEF Quiet
  <2> HIDE DEF r
  <2>4. r \in BridgeSet(base)
    BY <2>3, SetAside, Zenon
  <2>5. Heeds(kind, s, l, r)
    BY <1>3, <2>3 DEF Heeds
  <2> QED
    BY <2>4, <2>5 DEF r
<1>4. CASE l.k \notin {"blank", "data"}
  <2>1. r = s
    BY <1>4 DEF process_line, process_line_chat
  <2>2. Heeds(kind, s, l, s)
    BY <1>4 DEF Heeds
  <2> QED
    BY <2>1, <2>2
<1> QED
  BY <1>2, <1>3, <1>4

\* A line of a chat stream.
LEMMA LineChat ==
  ASSUME NEW s \in Sound, NEW l \in LineSet, kind = "chat"
  PROVE  /\ process_line(s, l) \in Quiet(s.out, s.dec.event_buffer)
         /\ Heeds(kind, s, l, process_line(s, l))
<1> DEFINE r == process_line(s, l)
<1>1. r \in Quiet(s.out, s.dec.event_buffer)
  BY LineQuiet
<1>2. CASE l.k = "blank"
  <2>1. r = flush_event_chat(s)
    BY <1>2 DEF process_line, process_line_chat, FlushEvent
  <2>2. /\ flush_event_chat(s).dec.data_lines = <<>>
        /\ flush_event_chat(s).stats.output_text
               = s.stats.output_text \o TextOf(Joined(s.dec.data_lines))
    BY FlushChat
  <2> QED
    BY <1>1, <1>2, <2>1, <2>2 DEF Heeds
<1>3. CASE l.k = "data"
  <2>1. r = [s EXCEPT !.dec.data_lines = Append(@, l.d)]
    BY <1>3 DEF process_line, process_line_chat
  <2>2. LET z == [s EXCEPT !.dec.data_lines = Append(@, l.d)]
        IN  /\ z.stats = s.stats
            /\ z.dec.data_lines = Append(s.dec.data_lines, l.d)
            /\ z.dec.completed = s.dec.completed
    BY <1>3, DataKept
  <2>3. /\ r.stats = s.stats /\ r.dec.data_lines = Append(s.dec.data_lines, l.d)
        /\ r.dec.completed = s.dec.completed
    BY <2>1, <2>2
  <2> QED
    BY <1>1, <1>3, <2>3 DEF Heeds
<1>4. CASE l.k \notin {"blank", "data"}
  <2>1. r = s
    BY <1>4 DEF process_line, process_line_chat
  <2> QED
    BY <1>1, <1>4, <2>1 DEF Heeds
<1> QED
  BY <1>1, <1>2, <1>3, <1>4

-----------------------------------------------------------------------------
(* The text of the lines.                                                    *)

\* The data of the event under way, as lines come.
LEMMA DataGrows ==
  ASSUME NEW lines \in Seq(LineSet), NEW l \in LineSet
  PROVE  LET N == Len(lines)
             all == Append(lines, l)
         IN  /\ \A p \in 1..(N + 1) : DataAt(all, p) = DataAt(lines, p)
             /\ DataAt(all, N + 2) = IF l.k = "blank" THEN {}
                                     ELSE IF l.k = "data" THEN DataAt(lines, N + 1) \cup {N + 1}
                                     ELSE DataAt(lines, N + 1)
<1> DEFINE N == Len(lines)
           all == Append(lines, l)
<1>1. /\ N \in Nat /\ all[N + 1] = l /\ \A n \in 1..N : all[n] = lines[n]
  OBVIOUS
<1> HIDE DEF N, all
<1>2. ASSUME NEW p \in 1..(N + 1) PROVE DataAt(all, p) = DataAt(lines, p)
  <2>1. ASSUME NEW q \in 1..(p - 1)
        PROVE  /\ all[q] = lines[q]
               /\ (\A r \in q..(p - 1) : all[r].k # "blank")
                    <=> (\A r \in q..(p - 1) : lines[r].k # "blank")
    <3>1. \A r \in q..(p - 1) : r \in 1..N
      BY <1>1
    <3>2. q \in 1..N
      BY <1>1
    <3> QED
      BY <1>1, <3>1, <3>2
  <2> QED
    BY <2>1 DEF DataAt
<1>3. DataAt(lines, N + 1)
          = {q \in 1..N : lines[q].k = "data" /\ \A r \in q..N : lines[r].k # "blank"}
  <2>1. (N + 1) - 1 = N
    BY <1>1
  <2> QED
    BY <2>1 DEF DataAt
<1>4. DataAt(all, N + 2)
          = {q \in 1..(N + 1) : all[q].k = "data" /\ \A r \in q..(N + 1) : all[r].k # "blank"}
  <2>1. (N + 2) - 1 = N + 1
    BY <1>1
  <2> QED
    BY <2>1 DEF DataAt
<1>5. ASSUME NEW q \in 1..N
      PROVE  (\A r \in q..(N + 1) : all[r].k # "blank")
                <=> (l.k # "blank" /\ \A r \in q..N : lines[r].k # "blank")
  <2>1. \A r \in q..(N + 1) : r = N + 1 \/ r \in q..N
    BY <1>1
  <2>2. N + 1 \in q..(N + 1) /\ (\A r \in q..N : r \in q..(N + 1) /\ r \in 1..N)
    BY <1>1
  <2> QED
    BY <1>1, <2>1, <2>2
<1>6. (\A r \in (N + 1)..(N + 1) : all[r].k # "blank") <=> l.k # "blank"
  <2>1. \A r \in (N + 1)..(N + 1) : r = N + 1
    BY <1>1
  <2>2. N + 1 \in (N + 1)..(N + 1)
    BY <1>1
  <2> QED
    BY <1>1, <2>1, <2>2
<1> DEFINE P == DataAt(lines, N + 1)
           Q == DataAt(all, N + 2)
<1>7. \A q \in 1..N : q \in Q <=> (l.k # "blank" /\ q \in P)
  <2>1. \A q \in 1..N : q \in 1..(N + 1) /\ all[q] = lines[q]
    BY <1>1
  <2> QED
    BY <1>3, <1>4, <1>5, <2>1
<1>8. N + 1 \in Q <=> l.k = "data"
  <2>1. N + 1 \in 1..(N + 1)
    BY <1>1
  <2> QED
    BY <1>1, <1>4, <1>6, <2>1
<1>9. P \subseteq 1..N /\ Q \subseteq 1..(N + 1) /\ \A q \in 1..(N + 1) : q \in 1..N \/ q = N + 1
  BY <1>1, <1>3, <1>4
<1>10. N + 1 \notin 1..N
  BY <1>1
<1> HIDE DEF P, Q
<1>11. Q = IF l.k = "blank" THEN {} ELSE IF l.k = "data" THEN P \cup {N + 1} ELSE P
  <2> DEFINE M == N + 1
             I == 1..N
  <2>1. /\ \A q \in I : q \in Q <=> (l.k # "blank" /\ q \in P)
        /\ M \in Q <=> l.k = "data"
        /\ P \subseteq I /\ \A q \in Q : q \in I \/ q = M
    BY <1>7, <1>8, <1>9
  <2> HIDE DEF M, I
  <2>2. CASE l.k = "blank"
    <3>1. \A q : q \notin Q
      BY <2>1, <2>2
    <3> QED
      BY <2>2, <3>1
  <2>3. CASE l.k = "data"
    <3>1. \A q : q \in Q <=> q \in P \/ q = M
      BY <2>1, <2>3
    <3> QED
      BY <2>3, <3>1 DEF M
  <2>4. CASE l.k \notin {"blank", "data"}
    <3>1. \A q : q \in Q <=> q \in P
      BY <2>1, <2>4
    <3> QED
      BY <2>4, <3>1
  <2> QED
    BY <2>2, <2>3, <2>4
<1> QED
  BY <1>2, <1>11 DEF P, Q, N, all

\* What a place holds is not changed by lines that follow.
LEMMA DataFacts ==
  ASSUME NEW lines \in Seq(LineSet), NEW p \in 1..(Len(lines) + 1)
  PROVE  /\ DataAt(lines, p) \subseteq 1..Len(lines) /\ IsFiniteSet(DataAt(lines, p))
         /\ Cardinality(DataAt(lines, p)) \in Nat
         /\ \A q \in DataAt(lines, p) : lines[q].k = "data" /\ lines[q].d \in Document
         /\ DocumentAt(lines, p) \in Document
<1> DEFINE S == DataAt(lines, p)
<1>1. S \subseteq 1..Len(lines)
  BY DEF DataAt
<1>2. IsFiniteSet(S)
  <2>1. IsFiniteSet(1..Len(lines))
    BY FS_Interval
  <2> QED
    BY <1>1, <2>1, FS_Subset
<1>3. Cardinality(S) \in Nat
  BY <1>2, FS_CardinalityType
<1>4. ASSUME NEW q \in S PROVE lines[q].k = "data" /\ lines[q].d \in Document
  <2>1. lines[q].k = "data" /\ lines[q] \in LineSet
    BY <1>1 DEF DataAt
  <2> QED
    BY <2>1 DEF LineSet
<1> HIDE DEF S
<1>5. DocumentAt(lines, p) = IF Cardinality(S) = 1 THEN lines[CHOOSE q \in S : TRUE].d ELSE NoJson
  BY DEF DocumentAt, S
<1>6. Cardinality(S) = 1 => (CHOOSE q \in S : TRUE) \in S
  <2>1. Cardinality(S) = 1 => \E q : S = {q}
    BY <1>2, FS_Singleton
  <2> QED
    BY <2>1
<1>7. NoJson \in Document
  BY DEF NoJson, Document
<1>8. DocumentAt(lines, p) \in Document
  BY <1>4, <1>5, <1>6, <1>7
<1> QED
  BY <1>1, <1>2, <1>3, <1>4, <1>8 DEF S

\* A line more does not change the document an earlier line belongs to.
LEMMA DocumentGrows ==
  ASSUME NEW lines \in Seq(LineSet), NEW l \in LineSet, NEW p \in 1..(Len(lines) + 1)
  PROVE  DocumentAt(Append(lines, l), p) = DocumentAt(lines, p)
<1> DEFINE all == Append(lines, l)
           S == DataAt(lines, p)
<1>1. DataAt(all, p) = S
  BY DataGrows
<1>2. S \subseteq 1..Len(lines) /\ IsFiniteSet(S)
  BY DataFacts
<1>3. \A n \in 1..Len(lines) : all[n] = lines[n]
  OBVIOUS
<1> HIDE DEF S, all
<1>4. Cardinality(S) = 1 => (CHOOSE q \in S : TRUE) \in S
  <2>1. Cardinality(S) = 1 => \E q : S = {q}
    BY <1>2, FS_Singleton
  <2> QED
    BY <2>1
<1> DEFINE m == CHOOSE q \in S : TRUE
<1>5. DocumentAt(lines, p) = IF Cardinality(S) = 1 THEN lines[m].d ELSE NoJson
  BY DEF DocumentAt, S
<1>6. DocumentAt(all, p) = IF Cardinality(S) = 1 THEN all[m].d ELSE NoJson
  BY <1>1 DEF DocumentAt
<1>7. Cardinality(S) = 1 => all[m] = lines[m]
  <2>1. Cardinality(S) = 1 => m \in S
    BY <1>4
  <2> HIDE DEF m
  <2> QED
    BY <1>2, <1>3, <2>1
<1> HIDE DEF m
<1>8. DocumentAt(all, p) = DocumentAt(lines, p)
  BY <1>5, <1>6, <1>7
<1> QED
  BY <1>8 DEF all

\* What the line at n adds to the text.
Share(decoder, lines, n) == IF Counts(decoder, lines, n) THEN TextOf(DocumentAt(lines, n)) ELSE <<>>

\* The text of a document is a text.
LEMMA TextOfType ==
  ASSUME NEW d \in Document \cup {NoData}
  PROVE  TextOf(d) \in Text
<1>1. CASE ~(d.json = "chat" /\ d.choice # None)
  BY <1>1, TextFacts DEF TextOf
<1>2. CASE d.json = "chat" /\ d.choice # None
  <2>1. d \in ChatDocument
    BY <1>2 DEF Document, NoData, ResponsesDocument
  <2>2. d.choice \in ChoiceSet
    BY <1>2, <2>1 DEF ChatDocument, Option
  <2>3. d.choice.content \in Option(Texts) /\ d.choice.refusal \in Option(Texts)
    BY <2>2 DEF ChoiceSet
  <2>4. TextOf(d) = Default(IF d.choice.content # None THEN d.choice.content ELSE d.choice.refusal)
    BY <1>2 DEF TextOf
  <2> QED
    BY <2>3, <2>4, TextFacts DEF Default, Option
<1> QED
  BY <1>1, <1>2

\* The share of one line in the text is a text.
LEMMA ShareType ==
  ASSUME NEW decoder, NEW lines \in Seq(LineSet), NEW n \in 1..(Len(lines) + 1)
  PROVE  Share(decoder, lines, n) \in Text
<1>1. DocumentAt(lines, n) \in Document
  BY DataFacts
<1>2. TextOf(DocumentAt(lines, n)) \in Text
  <2> DEFINE d == DocumentAt(lines, n)
  <2>1. d \in Document \cup {NoData}
    BY <1>1
  <2> HIDE DEF d
  <2>2. TextOf(d) \in Text
    BY <2>1, TextOfType
  <2> QED
    BY <2>2 DEF d
<1> QED
  BY <1>2, TextFacts DEF Share

\* The text of lines, one line after the other.
TextInBy(decoder, f, lines) ==
    /\ f \in [0..Len(lines) -> Text] /\ f[0] = <<>>
    /\ \A n \in 1..Len(lines) : f[n] = f[n - 1] \o Share(decoder, lines, n)
    /\ TextIn(decoder, lines) = f[Len(lines)]

\* The text in some lines, line by line.
LEMMA TextInRun ==
  ASSUME NEW decoder, NEW lines \in Seq(LineSet)
  PROVE  (\E f : TextInBy(decoder, f, lines)) /\ TextIn(decoder, lines) \in Text
<1> DEFINE N == Len(lines)
           F == [n \in 1..N |-> [r \in Text |-> r \o Share(decoder, lines, n)]]
           Is(h) == h = [n \in 0..N |-> IF n = 0 THEN <<>> ELSE h[n - 1] \o Share(decoder, lines, n)]
           f == CHOOSE h : Is(h)
<1>1. N \in Nat /\ <<>> \in Text
  BY TextFacts
<1>2. ASSUME NEW r \in Text, NEW n \in 1..N PROVE r \o Share(decoder, lines, n) \in Text
  <2>1. n \in 1..(Len(lines) + 1)
    BY <1>1
  <2> QED
    BY <2>1, ShareType, TextFacts
<1>3. F \in [1..N -> [Text -> Text]]
  BY <1>2
<1>4. TextIn(decoder, lines) = f[N]
  BY DEF TextIn, Share
<1> HIDE DEF N
<1>5. PICK g : Tabulates(g, N, Text, <<>>, F)
  <2> HIDE DEF F
  <2> QED
    BY <1>1, <1>3, Iterates, Zenon
<1>6. Is(g)
  <2>1. ASSUME NEW n \in 0..N, n # 0 PROVE g[n] = g[n - 1] \o Share(decoder, lines, n)
    <3>1. n \in 1..N /\ n - 1 \in 0..N
      BY <1>1, <2>1
    <3> QED
      BY <1>5, <3>1 DEF Tabulates
  <2> QED
    BY <1>5, <2>1 DEF Tabulates
<1>7. Is(f)
  <2> HIDE DEF Is
  <2> QED
    BY <1>6
<1> HIDE DEF f
<1>8. f[0] = <<>> /\ \A n \in 1..N : f[n] = f[n - 1] \o Share(decoder, lines, n)
  BY <1>1, <1>7
<1>9. \A n \in 0..N : f[n] \in Text
  <2>1. \A n \in 1..N : f[n - 1] \in Text => f[n] \in Text
    BY <1>2, <1>8
  <2> QED
    BY <1>1, <1>8, <2>1, StaysInside
<1>10. f \in [0..N -> Text] /\ f[N] \in Text
  BY <1>1, <1>7, <1>9
<1>11. TextInBy(decoder, f, lines)
  BY <1>4, <1>8, <1>10 DEF N, TextInBy
<1> QED
  BY <1>4, <1>10, <1>11

\* One more line.
LEMMA TextAppend ==
  ASSUME NEW decoder, NEW lines \in Seq(LineSet), NEW l \in LineSet
  PROVE  TextIn(decoder, Append(lines, l)) = TextIn(decoder, lines) \o Share(decoder, Append(lines, l), Len(lines) + 1)
<1> DEFINE all == Append(lines, l)
           N == Len(lines)
<1>1. /\ all \in Seq(LineSet) /\ Len(all) = N + 1 /\ N \in Nat
      /\ \A n \in 1..N : all[n] = lines[n]
  OBVIOUS
<1>2. PICK f : TextInBy(decoder, f, lines)
  BY TextInRun
<1> HIDE DEF all
<1>3. PICK g : TextInBy(decoder, g, all)
  BY <1>1, TextInRun
<1>4. ASSUME NEW n \in 1..N PROVE Share(decoder, all, n) = Share(decoder, lines, n)
  <2>1. \A q \in 1..n : q \in 1..(N + 1) /\ q \in 1..N
    BY <1>1
  <2>2. \A q \in 1..n : DocumentAt(all, q) = DocumentAt(lines, q) /\ all[q] = lines[q]
    BY <1>1, <2>1, DocumentGrows DEF all
  <2>3. n \in 1..n
    BY <1>1
  <2> QED
    BY <2>2, <2>3 DEF Share, Counts, DoneAt
<1> HIDE DEF N
<1>5. f[N] = g[N]
  <2>1. f[0] = g[0] /\ \A n \in 1..N : f[n - 1] = g[n - 1] => f[n] = g[n]
    <3>1. \A n \in 1..N : n \in 1..(N + 1)
      BY <1>1
    <3> QED
      BY <1>1, <1>2, <1>3, <1>4, <3>1 DEF TextInBy, N
  <2>2. \A n \in 0..N : f[n] = g[n]
    <3>1. N \in Nat /\ f[0] = g[0]
      BY <1>1, <2>1
    <3>2. \A n \in 1..N : f[n - 1] = g[n - 1] => f[n] = g[n]
      BY <2>1
    <3> QED
      BY <3>1, <3>2, LoopsAgree, Zenon
  <2> QED
    BY <1>1, <2>2
<1>6. g[N + 1] = g[N] \o Share(decoder, all, N + 1)
  <2>1. N + 1 \in 1..(N + 1) /\ (N + 1) - 1 = N
    BY <1>1
  <2> QED
    BY <1>1, <1>3, <2>1 DEF TextInBy
<1> QED
  BY <1>1, <1>2, <1>3, <1>5, <1>6 DEF TextInBy, N, all

\* No lines, no text.
LEMMA TextNothing ==
  ASSUME NEW decoder
  PROVE  TextIn(decoder, <<>>) = <<>>
<1> DEFINE lines == <<>>
<1>1. lines \in Seq(LineSet) /\ Len(lines) = 0
  OBVIOUS
<1> HIDE DEF lines
<1>2. PICK f : TextInBy(decoder, f, lines)
  BY <1>1, TextInRun
<1>3. TextIn(decoder, lines) = <<>>
  BY <1>1, <1>2 DEF TextInBy
<1> QED
  BY <1>3 DEF lines

\* The decoder of a chat stream after these lines: the data it holds is that of the
\* event under way, the text it recorded is theirs, and the bridge has completed
\* when [DONE] was among them.
Holds(d, lines) ==
    LET S == DataAt(lines, Len(lines) + 1)
    IN  /\ Len(d.data_lines) = Cardinality(S)
        /\ Cardinality(S) = 1 => \A q \in S : d.data_lines[1] = lines[q].d
Follows(decoder, s, lines) ==
    /\ Holds(s.dec, lines) /\ s.stats.output_text = TextIn(decoder, lines)
    /\ decoder = "bridge" => (s.dec.completed <=> \E q \in 1..Len(lines) : DoneAt(lines, q))

\* The document the decoder has is the one the lines have.
LEMMA JoinedIsDocument ==
  ASSUME NEW d \in DecSet, NEW lines \in Seq(LineSet), Holds(d, lines)
  PROVE  LET J == Joined(d.data_lines)
             D == DocumentAt(lines, Len(lines) + 1)
         IN  TextOf(J) = TextOf(D) /\ (J = Done <=> D = Done)
<1> DEFINE p == Len(lines) + 1
           S == DataAt(lines, p)
           J == Joined(d.data_lines)
           D == DocumentAt(lines, p)
           n == Cardinality(S)
<1>1. p \in 1..(Len(lines) + 1)
  OBVIOUS
<1>2. IsFiniteSet(S) /\ n \in Nat
  <2> HIDE DEF p
  <2> QED
    BY <1>1, DataFacts
<1>3. Len(d.data_lines) = n /\ (n = 1 => \A q \in S : d.data_lines[1] = lines[q].d)
  BY DEF Holds
<1>4. D = IF n = 1 THEN lines[CHOOSE q \in S : TRUE].d ELSE NoJson
  BY DEF DocumentAt
<1>5. J = IF n = 0 THEN NoData ELSE IF n = 1 THEN d.data_lines[1] ELSE NoJson
  BY <1>3 DEF Joined
<1> DEFINE m == CHOOSE q \in S : TRUE
<1>6. n = 1 => m \in S
  <2>1. n = 1 => \E q : S = {q}
    BY <1>2, FS_Singleton
  <2> QED
    BY <2>1
<1> HIDE DEF S, n, p
<1>7. n = 1 => d.data_lines[1] = lines[m].d
  <2> HIDE DEF m
  <2> QED
    BY <1>3, <1>6
<1> HIDE DEF m
<1>8. /\ TextOf(NoData) = <<>> /\ TextOf(NoJson) = <<>> /\ NoData # Done /\ NoJson # Done
  BY DEF NoData, NoJson, Done, TextOf
<1> HIDE DEF J, D
<1>9. D = IF n = 1 THEN lines[m].d ELSE NoJson
  BY <1>4 DEF m
<1>10. CASE n = 0
  BY <1>5, <1>8, <1>9, <1>10 DEF J, D, p
<1>11. CASE n = 1
  <2>1. J = D
    BY <1>5, <1>7, <1>9, <1>11
  <2> QED
    BY <2>1 DEF J, D, p
<1>12. CASE n \notin {0, 1}
  <2>1. J = NoJson /\ D = NoJson
    BY <1>5, <1>9, <1>12
  <2> QED
    BY <2>1 DEF J, D, p
<1> QED
  BY <1>10, <1>11, <1>12

\* The data held, as lines come.
LEMMA HoldsGrows ==
  ASSUME NEW d \in DecSet, NEW r \in DecSet, NEW lines \in Seq(LineSet), NEW l \in LineSet,
         Holds(d, lines),
         r.data_lines = IF l.k = "blank" THEN <<>>
                        ELSE IF l.k = "data" THEN Append(d.data_lines, l.d) ELSE d.data_lines
  PROVE  Holds(r, Append(lines, l))
<1> DEFINE N == Len(lines)
           all == Append(lines, l)
           S == DataAt(lines, N + 1)
           Q == DataAt(all, N + 2)
<1>1. /\ N \in Nat /\ Len(all) = N + 1 /\ all[N + 1] = l /\ \A n \in 1..N : all[n] = lines[n]
      /\ Len(all) + 1 = N + 2
  OBVIOUS
<1>2. Q = IF l.k = "blank" THEN {} ELSE IF l.k = "data" THEN S \cup {N + 1} ELSE S
  BY DataGrows
<1>3. S \subseteq 1..N /\ IsFiniteSet(S) /\ Cardinality(S) \in Nat
  <2>1. N + 1 \in 1..(Len(lines) + 1)
    BY <1>1
  <2> QED
    BY <2>1, DataFacts
<1>4. /\ Len(d.data_lines) = Cardinality(S) /\ d.data_lines \in Seq(Document)
      /\ Cardinality(S) = 1 => \A q \in S : d.data_lines[1] = lines[q].d
  BY DEF Holds, DecSet
<1> SUFFICES /\ Len(r.data_lines) = Cardinality(Q)
             /\ Cardinality(Q) = 1 => \A q \in Q : r.data_lines[1] = all[q].d
  BY <1>1 DEF Holds
<1> HIDE DEF N, all, S, Q
<1>5. CASE l.k = "blank"
  <2>1. Q = {} /\ r.data_lines = <<>>
    BY <1>2, <1>5
  <2>2. Cardinality(Q) = 0
    BY <2>1, FS_EmptySet
  <2> QED
    BY <2>1, <2>2
<1>6. CASE l.k = "data"
  <2>1. Q = S \cup {N + 1} /\ r.data_lines = Append(d.data_lines, l.d) /\ N + 1 \notin S
    BY <1>1, <1>2, <1>3, <1>6
  <2>2. Cardinality(Q) = Cardinality(S) + 1
    BY <1>3, <2>1, FS_AddElement
  <2>3. l.d \in Document
    BY <1>6 DEF LineSet
  <2>4. Len(r.data_lines) = Len(d.data_lines) + 1
    BY <1>4, <2>1, <2>3
  <2>5. ASSUME Cardinality(Q) = 1, NEW q \in Q PROVE r.data_lines[1] = all[q].d
    <3>1. Cardinality(S) = 0
      BY <1>3, <2>2, <2>5
    <3>2. S = {} /\ Len(d.data_lines) = 0
      BY <1>3, <1>4, <3>1, FS_EmptySet
    <3>3. q = N + 1 /\ all[q] = l
      BY <1>1, <2>1, <3>2, <2>5
    <3>4. r.data_lines[1] = l.d
      BY <1>4, <2>1, <2>3, <3>2
    <3> QED
      BY <3>3, <3>4
  <2> QED
    BY <1>4, <2>2, <2>4, <2>5
<1>7. CASE l.k \notin {"blank", "data"}
  <2>1. Q = S /\ r.data_lines = d.data_lines
    BY <1>2, <1>7
  <2>2. \A q \in S : all[q] = lines[q]
    BY <1>1, <1>3
  <2> QED
    BY <1>4, <2>1, <2>2
<1> QED
  BY <1>5, <1>6, <1>7

\* Whether [DONE] was among the lines, as they come.
LEMMA DoneGrows ==
  ASSUME NEW lines \in Seq(LineSet), NEW l \in LineSet
  PROVE  LET N == Len(lines)
             all == Append(lines, l)
         IN  /\ \A q \in 1..N : DoneAt(all, q) = DoneAt(lines, q)
             /\ DoneAt(all, N + 1) <=> l.k = "blank" /\ DocumentAt(lines, N + 1) = Done
             /\ (\E q \in 1..(N + 1) : DoneAt(all, q))
                    <=> DoneAt(all, N + 1) \/ \E q \in 1..N : DoneAt(lines, q)
<1> DEFINE N == Len(lines)
           all == Append(lines, l)
<1>1. /\ N \in Nat /\ Len(all) = N + 1 /\ all[N + 1] = l /\ \A n \in 1..N : all[n] = lines[n]
  OBVIOUS
<1>2. \A q \in 1..(N + 1) : DocumentAt(all, q) = DocumentAt(lines, q)
  BY DocumentGrows
<1> HIDE DEF N, all
<1>3. N + 1 \in 1..(N + 1) /\ (\A q \in 1..N : q \in 1..(N + 1))
      /\ \A q \in 1..(N + 1) : q = N + 1 \/ q \in 1..N
  BY <1>1
<1>4. \A q \in 1..N : DoneAt(all, q) = DoneAt(lines, q)
  BY <1>1, <1>2, <1>3 DEF DoneAt
<1>5. DoneAt(all, N + 1) <=> l.k = "blank" /\ DocumentAt(lines, N + 1) = Done
  BY <1>1, <1>2, <1>3 DEF DoneAt
<1>6. (\E q \in 1..(N + 1) : DoneAt(all, q))
                    <=> DoneAt(all, N + 1) \/ \E q \in 1..N : DoneAt(lines, q)
  BY <1>3, <1>4
<1> QED
  BY <1>4, <1>5, <1>6 DEF N, all

\* One more line.
LEMMA FollowsOn ==
  ASSUME NEW s \in Sound, NEW r \in Sound, NEW lines \in Seq(LineSet), NEW l \in LineSet,
         kind \in {"bridge", "chat"}, Follows(kind, s, lines), Heeds(kind, s, l, r)
  PROVE  Follows(kind, r, Append(lines, l))
<1> DEFINE N == Len(lines)
           all == Append(lines, l)
           J == Joined(s.dec.data_lines)
           D == DocumentAt(lines, N + 1)
           over == \E q \in 1..N : DoneAt(lines, q)
<1>1. N \in Nat /\ Len(all) = N + 1 /\ all[N + 1] = l
  OBVIOUS
<1>2. /\ s.dec \in DecSet /\ r.dec \in DecSet /\ s.stats.output_text \in Text
      /\ s.dec.completed \in BOOLEAN /\ r.dec.completed \in BOOLEAN
  BY SoundParts DEF StatsSet, DecSet
<1>3. /\ Holds(s.dec, lines) /\ s.stats.output_text = TextIn(kind, lines)
      /\ kind = "bridge" => (s.dec.completed <=> over)
  BY DEF Follows
<1>4. Holds(r.dec, all)
  <2>1. r.dec.data_lines = IF l.k = "blank" THEN <<>>
                        ELSE IF l.k = "data" THEN Append(s.dec.data_lines, l.d)
                        ELSE s.dec.data_lines
    BY DEF Heeds
  <2> QED
    BY <1>2, <1>3, <2>1, HoldsGrows
<1>5. TextIn(kind, all) = TextIn(kind, lines) \o Share(kind, all, N + 1)
  BY TextAppend
<1>6. TextOf(J) = TextOf(D) /\ (J = Done <=> D = Done)
  BY <1>2, <1>3, JoinedIsDocument
<1>7. /\ \A q \in 1..N : DoneAt(all, q) = DoneAt(lines, q)
      /\ DoneAt(all, N + 1) <=> l.k = "blank" /\ D = Done
      /\ (\E q \in 1..(N + 1) : DoneAt(all, q)) <=> DoneAt(all, N + 1) \/ over
  BY DoneGrows
<1>8. DocumentAt(all, N + 1) = D
  <2>1. N + 1 \in 1..(Len(lines) + 1)
    BY <1>1
  <2> QED
    BY <2>1, DocumentGrows
<1>9. kind = "bridge" => (r.dec.completed <=> \E q \in 1..(N + 1) : DoneAt(all, q))
  <2> HIDE DEF N, all, J, D, over
  <2>1. CASE l.k = "blank"
    BY <1>3, <1>6, <1>7, <2>1 DEF Heeds, J
  <2>2. CASE l.k # "blank"
    BY <1>3, <1>7, <2>2 DEF Heeds
  <2> QED
    BY <2>1, <2>2
<1>10. Counts(kind, all, N + 1) <=> l.k = "blank" /\ (kind = "bridge" => ~over /\ D # Done)
  <2>1. (\A q \in 1..(N + 1) : ~DoneAt(all, q)) <=> ~(\E q \in 1..(N + 1) : DoneAt(all, q))
    OBVIOUS
  <2> HIDE DEF N, all, D, over
  <2> QED
    BY <1>1, <1>7, <2>1 DEF Counts
<1>11. Share(kind, all, N + 1) = IF l.k = "blank" /\ (kind = "bridge" => ~over /\ D # Done)
                           THEN TextOf(D) ELSE <<>>
  <2> HIDE DEF N, all, D, over
  <2> QED
    BY <1>8, <1>10 DEF Share
<1>12. r.stats.output_text = TextIn(kind, all)
  <2> HIDE DEF N, all, J, D, over
  <2>1. CASE l.k = "blank"
    <3>1. TextOf(Done) = <<>>
      BY DEF Done, TextOf
    <3>2. r.stats.output_text = s.stats.output_text \o
                (IF kind = "bridge" /\ s.dec.completed THEN <<>> ELSE TextOf(J))
      BY <2>1 DEF Heeds, J
    <3>3. (IF kind = "bridge" /\ s.dec.completed THEN <<>> ELSE TextOf(J)) = Share(kind, all, N + 1)
      <4>1. CASE kind = "chat"
        BY <1>6, <1>11, <2>1, <4>1
      <4>2. CASE kind = "bridge"
        BY <1>3, <1>6, <1>11, <2>1, <3>1, <4>2
      <4> QED
        BY <4>1, <4>2
    <3> QED
      BY <1>3, <1>5, <3>2, <3>3
  <2>2. CASE l.k # "blank"
    <3>1. r.stats.output_text = s.stats.output_text /\ Share(kind, all, N + 1) = <<>>
      BY <1>11, <2>2 DEF Heeds
    <3>2. s.stats.output_text \o <<>> = s.stats.output_text
      BY <1>2, TextFacts
    <3> QED
      BY <1>3, <1>5, <3>1, <3>2
  <2> QED
    BY <2>1, <2>2
<1> QED
  BY <1>1, <1>4, <1>9, <1>12 DEF Follows

\* Some lines, and the first n of those that follow them.
UpTo(lines, xs, n) == lines \o SubSeq(xs, 1, n)

\* Some lines and the first of those that follow, one at a time.
LEMMA UpToFacts ==
  ASSUME NEW lines \in Seq(LineSet), NEW xs \in Seq(LineSet)
  PROVE  /\ UpTo(lines, xs, 0) = lines /\ UpTo(lines, xs, Len(xs)) = lines \o xs
         /\ \A n \in 0..Len(xs) : UpTo(lines, xs, n) \in Seq(LineSet)
         /\ \A n \in 0..Len(xs) :
              n < Len(xs) => UpTo(lines, xs, n + 1) = Append(UpTo(lines, xs, n), xs[n + 1])
<1> DEFINE N == Len(xs)
<1>1. N \in Nat /\ \A n \in 1..N : xs[n] \in LineSet
  OBVIOUS
<1>2. ASSUME NEW n \in 0..N
      PROVE  /\ UpTo(lines, xs, n) \in Seq(LineSet)
             /\ n < N => UpTo(lines, xs, n + 1) = Append(UpTo(lines, xs, n), xs[n + 1])
  <2> DEFINE a == SubSeq(xs, 1, n)
  <2>1. a \in Seq(LineSet)
    BY <1>1
  <2>2. CASE n < N
    <3>1. SubSeq(xs, 1, n + 1) = Append(a, xs[n + 1]) /\ xs[n + 1] \in LineSet
      <4>1. n + 1 \in 1..N
        BY <1>1, <2>2
      <4>2. SubSeq(xs, 1, n + 1) = [k \in 1..(n + 1) |-> xs[k]] /\ a = [k \in 1..n |-> xs[k]]
        BY <1>1, <2>2, SubSeqRestrict
      <4>3. Len(a) = n
        BY <4>2
      <4> HIDE DEF a
      <4>4. Append(a, xs[n + 1]) = [k \in 1..(n + 1) |-> IF k = n + 1 THEN xs[n + 1] ELSE a[k]]
        BY <2>1, <4>3
      <4>5. ASSUME NEW k \in 1..(n + 1)
            PROVE  xs[k] = IF k = n + 1 THEN xs[n + 1] ELSE a[k]
        <5>1. k = n + 1 \/ k \in 1..n
          OBVIOUS
        <5> QED
          BY <4>2, <5>1
      <4> QED
        BY <1>1, <4>1, <4>2, <4>4, <4>5
    <3> HIDE DEF a
    <3> QED
      BY <2>1, <3>1 DEF a, UpTo
  <2> QED
    BY <2>1, <2>2 DEF UpTo
<1>3. UpTo(lines, xs, 0) = lines
  <2>1. SubSeq(xs, 1, 0) = <<>>
    OBVIOUS
  <2> QED
    BY <2>1, ConcatEmptySeq DEF UpTo
<1>4. UpTo(lines, xs, N) = lines \o xs
  <2>1. SubSeq(xs, 1, N) = xs
    BY SubSeqFull
  <2> QED
    BY <2>1 DEF UpTo
<1> QED
  BY <1>2, <1>3, <1>4

\* Lines, processed one after the other, by a decoder that heeds each of them.
LEMMA LinesFollow ==
  ASSUME NEW V \in SUBSET Sound, NEW s \in V, NEW lines \in Seq(LineSet),
         NEW xs \in Seq(LineSet), kind \in {"bridge", "chat"}, Follows(kind, s, lines),
         \A r \in V : \A l \in LineSet :
            process_line(r, l) \in V /\ Heeds(kind, r, l, process_line(r, l))
  PROVE  process_lines(s, xs) \in V /\ Follows(kind, process_lines(s, xs), lines \o xs)
<1> DEFINE N == Len(xs)
<1>1. N \in Nat /\ \A n \in 1..N : xs[n] \in LineSet
  OBVIOUS
<1>2. PICK f : ProcessLinesIn(f, V, s, xs)
  <2>1. \A r \in V : \A n \in 1..Len(xs) : process_line(r, xs[n]) \in V
    BY <1>1
  <2>2. Len(xs) \in Nat
    OBVIOUS
  <2> QED
    BY <2>1, <2>2, ProcessLinesRun, Zenon
<1>3. /\ f \in [0..N -> V] /\ f[0] = s /\ \A n \in 1..N : f[n] = process_line(f[n - 1], xs[n])
      /\ process_lines(s, xs) = f[N] /\ f[N] \in V
  BY <1>2, Zenon DEF ProcessLinesIn
<1> DEFINE T == {n \in 0..N : Follows(kind, f[n], UpTo(lines, xs, n))}
<1>4. /\ UpTo(lines, xs, 0) = lines /\ UpTo(lines, xs, N) = lines \o xs
      /\ \A n \in 0..N : UpTo(lines, xs, n) \in Seq(LineSet)
      /\ \A n \in 0..N : n < N => UpTo(lines, xs, n + 1) = Append(UpTo(lines, xs, n), xs[n + 1])
  BY UpToFacts
<1> HIDE DEF N
<1>5. 0 \in T
  <2>1. 0 \in 0..N
    BY <1>1
  <2>2. Follows(kind, f[0], UpTo(lines, xs, 0))
    BY <1>3, <1>4, Zenon
  <2> QED
    BY <2>1, <2>2
<1>6. ASSUME NEW n \in 0..N, n < N, n \in T PROVE n + 1 \in T
  <2>1. n + 1 \in 1..N /\ n + 1 \in 0..N /\ (n + 1) - 1 = n
    BY <1>1, <1>6
  <2>2. /\ f[n] \in V /\ xs[n + 1] \in LineSet /\ f[n + 1] = process_line(f[n], xs[n + 1])
    BY <1>1, <1>3, <2>1
  <2>3. f[n + 1] \in V /\ Heeds(kind, f[n], xs[n + 1], f[n + 1])
    BY <2>2
  <2>4. Follows(kind, f[n], UpTo(lines, xs, n)) /\ UpTo(lines, xs, n) \in Seq(LineSet)
    BY <1>4, <1>6
  <2>5. Follows(kind, f[n + 1], Append(UpTo(lines, xs, n), xs[n + 1]))
    BY <2>2, <2>3, <2>4, FollowsOn
  <2> QED
    BY <1>4, <1>6, <2>1, <2>5
<1>7. N \in T
  <2>1. \A n \in 0..N : n \in T
    <3> HIDE DEF T
    <3> QED
      BY <1>1, <1>5, <1>6, BoundedInduction
  <2> QED
    BY <1>1, <2>1
<1> QED
  BY <1>3, <1>4, <1>7

-----------------------------------------------------------------------------
(* The lines of the chunks.                                                  *)

\* The beginning of a line a chunk leaves.
Remnant(open) == IF open = NoCut THEN <<>> ELSE <<open.l>>

\* The parts of a chunk.
LEMMA ChunkFacts ==
  ASSUME NEW c \in ChunkSet
  PROVE  /\ c.lines \in Seq(LineSet) /\ c.open \in OpenSet \cup {NoCut} /\ c.rest \in BOOLEAN
         /\ Remnant(c.open) \in Seq(LineSet)
<1>1. c.lines \in Seq(LineSet) /\ c.open \in OpenSet \cup {NoCut} /\ c.rest \in BOOLEAN
  BY DEF ChunkSet
<1>2. c.open # NoCut => c.open.l \in LineSet
  BY <1>1 DEF OpenSet
<1> QED
  BY <1>1, <1>2 DEF Remnant

\* The lines begun, one chunk after the other.
LinesBegunBy(f, chunks) ==
    /\ f \in [0..Len(chunks) -> Seq(LineSet)] /\ f[0] = <<>>
    /\ \A n \in 1..Len(chunks) : f[n] = f[n - 1] \o chunks[n].lines \o Remnant(chunks[n].open)
    /\ LinesBegun(chunks) = f[Len(chunks)]

\* The lines begun in some chunks, chunk by chunk.
LEMMA LinesBegunRun ==
  ASSUME NEW chunks \in Seq(ChunkSet)
  PROVE  (\E f : LinesBegunBy(f, chunks)) /\ LinesBegun(chunks) \in Seq(LineSet)
<1> DEFINE N == Len(chunks)
           F == [n \in 1..N |-> [r \in Seq(LineSet) |-> r \o chunks[n].lines \o Remnant(chunks[n].open)]]
           Is(h) == h = [n \in 0..N |-> IF n = 0 THEN <<>> ELSE h[n - 1] \o chunks[n].lines \o Remnant(chunks[n].open)]
           f == CHOOSE h : Is(h)
<1>1. N \in Nat /\ <<>> \in Seq(LineSet)
  OBVIOUS
<1>2. ASSUME NEW r \in Seq(LineSet), NEW n \in 1..N PROVE r \o chunks[n].lines \o Remnant(chunks[n].open) \in Seq(LineSet)
  <2>1. chunks[n] \in ChunkSet
    OBVIOUS
  <2>2. chunks[n].lines \in Seq(LineSet) /\ Remnant(chunks[n].open) \in Seq(LineSet)
    BY <2>1, ChunkFacts
  <2> QED
    BY <2>2
<1>3. F \in [1..N -> [Seq(LineSet) -> Seq(LineSet)]]
  BY <1>2
<1>4. LinesBegun(chunks) = f[N]
  BY DEF LinesBegun, Remnant
<1> HIDE DEF N
<1>5. PICK g : Tabulates(g, N, Seq(LineSet), <<>>, F)
  <2> HIDE DEF F
  <2> QED
    BY <1>1, <1>3, Iterates, Zenon
<1>6. Is(g)
  <2>1. ASSUME NEW n \in 0..N, n # 0 PROVE g[n] = g[n - 1] \o chunks[n].lines \o Remnant(chunks[n].open)
    <3>1. n \in 1..N /\ n - 1 \in 0..N
      BY <1>1, <2>1
    <3> QED
      BY <1>5, <3>1 DEF Tabulates
  <2> QED
    BY <1>5, <2>1 DEF Tabulates
<1>7. Is(f)
  <2> HIDE DEF Is
  <2> QED
    BY <1>6
<1> HIDE DEF f
<1>8. f[0] = <<>> /\ \A n \in 1..N : f[n] = f[n - 1] \o chunks[n].lines \o Remnant(chunks[n].open)
  BY <1>1, <1>7
<1>9. \A n \in 0..N : f[n] \in Seq(LineSet)
  <2>1. \A n \in 1..N : f[n - 1] \in Seq(LineSet) => f[n] \in Seq(LineSet)
    BY <1>2, <1>8
  <2> QED
    BY <1>1, <1>8, <2>1, StaysInside
<1>10. f \in [0..N -> Seq(LineSet)] /\ f[N] \in Seq(LineSet)
  BY <1>1, <1>7, <1>9
<1>11. LinesBegunBy(f, chunks)
  BY <1>4, <1>8, <1>10 DEF N, LinesBegunBy
<1> QED
  BY <1>4, <1>10, <1>11

\* One more chunk.
LEMMA BegunAppend ==
  ASSUME NEW chunks \in Seq(ChunkSet), NEW c \in ChunkSet
  PROVE  LinesBegun(Append(chunks, c)) = LinesBegun(chunks) \o c.lines \o Remnant(c.open)
<1> DEFINE all == Append(chunks, c)
           N == Len(chunks)
<1>1. /\ all \in Seq(ChunkSet) /\ Len(all) = N + 1 /\ N \in Nat /\ all[N + 1] = c
      /\ \A n \in 1..N : all[n] = chunks[n]
  OBVIOUS
<1>2. PICK f : LinesBegunBy(f, chunks)
  BY LinesBegunRun
<1> HIDE DEF all
<1>3. PICK g : LinesBegunBy(g, all)
  BY <1>1, LinesBegunRun
<1> HIDE DEF N
<1>4. f[N] = g[N]
  <2>1. f[0] = g[0] /\ \A n \in 1..N : f[n - 1] = g[n - 1] => f[n] = g[n]
    <3>1. \A n \in 1..N : n \in 1..(N + 1)
      BY <1>1
    <3> QED
      BY <1>1, <1>2, <1>3, <3>1 DEF LinesBegunBy, N
  <2>2. \A n \in 0..N : f[n] = g[n]
    <3>1. N \in Nat /\ f[0] = g[0]
      BY <1>1, <2>1
    <3>2. \A n \in 1..N : f[n - 1] = g[n - 1] => f[n] = g[n]
      BY <2>1
    <3> QED
      BY <3>1, <3>2, LoopsAgree, Zenon
  <2> QED
    BY <1>1, <2>2
<1>5. g[N + 1] = g[N] \o c.lines \o Remnant(c.open)
  <2>1. N + 1 \in 1..(N + 1) /\ (N + 1) - 1 = N
    BY <1>1
  <2> QED
    BY <1>1, <1>3, <2>1 DEF LinesBegunBy
<1> QED
  BY <1>1, <1>2, <1>3, <1>4, <1>5 DEF LinesBegunBy, N, all

\* A sequence less its last element.
LEMMA LessLast ==
  ASSUME NEW S, NEW a \in Seq(S), NEW x \in S
  PROVE  LET b == a \o <<x>> IN SubSeq(b, 1, Len(b) - 1) = a
<1> DEFINE b == a \o <<x>>
<1>1. b \in Seq(S) /\ Len(b) = Len(a) + 1 /\ Len(a) \in Nat /\ \A k \in 1..Len(a) : b[k] = a[k]
  OBVIOUS
<1> HIDE DEF b
<1>2. Len(b) - 1 = Len(a)
  BY <1>1
<1>3. SubSeq(b, 1, Len(a)) = [k \in 1..Len(a) |-> b[k]] /\ a = [k \in 1..Len(a) |-> a[k]]
  BY <1>1, SubSeqRestrict
<1>4. SubSeq(b, 1, Len(b) - 1) = a
  BY <1>1, <1>2, <1>3
<1> QED
  BY <1>4 DEF b

\* The lines begun are those ended, and the one left open.
LEMMA EndedAppend ==
  ASSUME NEW chunks \in Seq(ChunkSet), NEW c \in ChunkSet
  PROVE  /\ LinesEnded(Append(chunks, c)) = LinesBegun(chunks) \o c.lines
         /\ LeftOpen(Append(chunks, c)) = c.open
         /\ LinesEnded(Append(chunks, c)) \in Seq(LineSet)
         /\ LinesBegun(Append(chunks, c))
                = LinesEnded(Append(chunks, c)) \o Remnant(LeftOpen(Append(chunks, c)))
<1> DEFINE all == Append(chunks, c)
           a == LinesBegun(chunks) \o c.lines
<1>1. all # <<>> /\ all[Len(all)] = c
  OBVIOUS
<1>2. LeftOpen(all) = c.open
  BY <1>1 DEF LeftOpen
<1>3. LinesBegun(all) = a \o Remnant(c.open)
  BY BegunAppend
<1>4. c.lines \in Seq(LineSet) /\ c.open \in OpenSet \cup {NoCut} /\ LinesBegun(chunks) \in Seq(LineSet)
  BY ChunkFacts, LinesBegunRun
<1>5. a \in Seq(LineSet)
  BY <1>4
<1> HIDE DEF all, a
<1>6. LinesEnded(all) = a
  <2>1. CASE c.open = NoCut
    <3>1. Remnant(c.open) = <<>>
      BY <2>1 DEF Remnant
    <3> QED
      BY <1>2, <1>3, <1>5, <2>1, <3>1 DEF LinesEnded
  <2>2. CASE c.open # NoCut
    <3>1. Remnant(c.open) = <<c.open.l>> /\ c.open.l \in LineSet
      BY <1>4, <2>2 DEF Remnant, OpenSet
    <3>2. LinesEnded(all) = SubSeq(LinesBegun(all), 1, Len(LinesBegun(all)) - 1)
      BY <1>2, <2>2 DEF LinesEnded
    <3>3. LinesBegun(all) = a \o <<c.open.l>>
      BY <1>3, <3>1
    <3> QED
      BY <1>5, <3>1, <3>2, <3>3, LessLast
  <2> QED
    BY <2>1, <2>2
<1> QED
  BY <1>2, <1>3, <1>5, <1>6 DEF all, a

\* Nothing has come.
LEMMA EndedNothing ==
  /\ LinesBegun(<<>>) = <<>> /\ LinesEnded(<<>>) = <<>> /\ LeftOpen(<<>>) = NoCut
<1> DEFINE chunks == <<>>
<1>1. chunks \in Seq(ChunkSet) /\ Len(chunks) = 0
  OBVIOUS
<1> HIDE DEF chunks
<1>2. PICK f : LinesBegunBy(f, chunks)
  BY <1>1, LinesBegunRun
<1>3. LinesBegun(chunks) = <<>>
  BY <1>1, <1>2 DEF LinesBegunBy
<1>4. LeftOpen(chunks) = NoCut
  BY DEF LeftOpen, chunks
<1>5. LinesEnded(chunks) = <<>>
  BY <1>3, <1>4 DEF LinesEnded
<1> QED
  BY <1>3, <1>4, <1>5 DEF chunks

\* The lines begun are the lines ended and the one left open.
LEMMA BegunIsEnded ==
  ASSUME NEW chunks \in Seq(ChunkSet)
  PROVE  /\ LinesBegun(chunks) = LinesEnded(chunks) \o Remnant(LeftOpen(chunks))
         /\ LinesEnded(chunks) \in Seq(LineSet)
         /\ LeftOpen(chunks) \in OpenSet \cup {NoCut} /\ Remnant(LeftOpen(chunks)) \in Seq(LineSet)
<1>1. CASE chunks = <<>>
  <2>1. LinesBegun(chunks) = <<>> /\ LinesEnded(chunks) = <<>> /\ LeftOpen(chunks) = NoCut
    BY <1>1, EndedNothing
  <2> QED
    BY <2>1 DEF Remnant
<1>2. CASE chunks # <<>>
  <2> DEFINE N == Len(chunks)
             front == SubSeq(chunks, 1, N - 1)
             c == chunks[N]
  <2>1. N \in Nat /\ N >= 1 /\ c \in ChunkSet
    BY <1>2, EmptySeq
  <2>2. front \in Seq(ChunkSet) /\ chunks = Append(front, c)
    <3>1. front = [k \in 1..(N - 1) |-> chunks[k]] /\ Len(front) = N - 1
      <4>1. N - 1 \in 0..Len(chunks)
        BY <2>1
      <4>2. front = [k \in 1..(N - 1) |-> chunks[k]]
        BY <4>1, SubSeqRestrict
      <4> HIDE DEF front, N
      <4> QED
        BY <2>1, <4>2
    <3>2. front \in Seq(ChunkSet)
      BY <2>1, <3>1
    <3> HIDE DEF front
    <3>3. /\ Append(front, c) \in Seq(ChunkSet) /\ Len(Append(front, c)) = N
          /\ Append(front, c)[N] = c /\ \A k \in 1..(N - 1) : Append(front, c)[k] = front[k]
      BY <2>1, <3>1, <3>2
    <3>4. \A k \in 1..N : k = N \/ k \in 1..(N - 1)
      BY <2>1
    <3>5. \A k \in 1..N : Append(front, c)[k] = chunks[k]
      BY <3>1, <3>3, <3>4
    <3> HIDE DEF c, N
    <3>6. Append(front, c) = chunks
      BY <3>3, <3>5, SeqEqual DEF N
    <3> QED
      BY <3>2, <3>6
  <2> HIDE DEF front, c
  <2>3. /\ LinesEnded(chunks) \in Seq(LineSet) /\ LeftOpen(chunks) = c.open
        /\ LinesBegun(chunks) = LinesEnded(chunks) \o Remnant(LeftOpen(chunks))
    BY <2>1, <2>2, EndedAppend
  <2> QED
    BY <2>1, <2>3, ChunkFacts
<1> QED
  BY <1>1, <1>2

\* The lines a chunk ends follow those ended before it.
LEMMA EndedGrows ==
  ASSUME NEW chunks \in Seq(ChunkSet), NEW c \in ChunkSet,
         line = LeftOpen(chunks), c.rest = (line # NoCut)
  PROVE  /\ LinesEnded(Append(chunks, c)) = LinesEnded(chunks) \o drain_lines(c)
         /\ drain_lines(c) \in Seq(LineSet) /\ LeftOpen(Append(chunks, c)) = c.open
<1> DEFINE a == LinesEnded(chunks)
           b == Remnant(LeftOpen(chunks))
<1>1. LinesBegun(chunks) = a \o b /\ a \in Seq(LineSet) /\ b \in Seq(LineSet)
  BY BegunIsEnded
<1>2. c.lines \in Seq(LineSet) /\ c.rest \in BOOLEAN
  BY ChunkFacts
<1>3. drain_lines(c) = b \o c.lines
  BY <1>2 DEF drain_lines, Remnant
<1> HIDE DEF a, b
<1>4. LinesEnded(Append(chunks, c)) = (a \o b) \o c.lines /\ LeftOpen(Append(chunks, c)) = c.open
  BY <1>1, EndedAppend
<1>5. (a \o b) \o c.lines = a \o (b \o c.lines)
  <2> DEFINE z == c.lines
  <2> HIDE DEF z
  <2>1. z \in Seq(LineSet)
    BY <1>2 DEF z
  <2>2. (a \o b) \o z = a \o (b \o z)
    BY <1>1, <2>1, ConcatAssociative
  <2> QED
    BY <2>2 DEF z
<1>6. b \o c.lines \in Seq(LineSet)
  BY <1>1, <1>2
<1> QED
  BY <1>3, <1>4, <1>5, <1>6 DEF a

-----------------------------------------------------------------------------
(* The end of the stream.                                                    *)

\* The line a stream ended in, and the line that ends an event.
LEMMA LastLineType ==
  /\ Blank \in LineSet
  /\ \A b \in OpenSet : AsItStands(b) \in LineSet
<1>1. Blank \in LineSet
  BY DEF Blank, LineSet
<1>2. Data(NoJson) \in LineSet
  <2>1. NoJson \in Document
    BY DEF NoJson, Document
  <2> QED
    BY <2>1 DEF Data, LineSet
<1>3. Other \in LineSet
  BY DEF Other, LineSet
<1>4. ASSUME NEW b \in OpenSet PROVE AsItStands(b) \in LineSet
  <2>1. b.l \in LineSet
    BY DEF OpenSet
  <2> QED
    BY <1>2, <1>3, <2>1 DEF AsItStands
<1> QED
  BY <1>1, <1>4

\* The lines the decoder has been given when the stream ends.
AtEnd(lines, b) == lines \o (IF b = NoCut THEN <<>> ELSE <<AsItStands(b)>>)

\* The lines given to the decoder by the end of the stream are lines.
LEMMA AtEndType ==
  ASSUME NEW lines \in Seq(LineSet), NEW b \in OpenSet \cup {NoCut}
  PROVE  /\ AtEnd(lines, b) \in Seq(LineSet)
         /\ AtEnd(lines, b) = IF b = NoCut THEN lines ELSE Append(lines, AsItStands(b))
<1>1. CASE b = NoCut
  <2>1. AtEnd(lines, b) = lines \o <<>>
    BY <1>1 DEF AtEnd
  <2> QED
    BY <1>1, <2>1, ConcatEmptySeq
<1>2. CASE b # NoCut
  <2>1. AsItStands(b) \in LineSet
    BY <1>2, LastLineType
  <2>2. AtEnd(lines, b) = lines \o <<AsItStands(b)>>
    BY <1>2 DEF AtEnd
  <2> DEFINE l == AsItStands(b)
  <2> HIDE DEF l
  <2>3. lines \o <<l>> = Append(lines, l) /\ Append(lines, l) \in Seq(LineSet)
    BY <2>1 DEF l
  <2> QED
    BY <1>2, <2>2, <2>3 DEF l
<1> QED
  BY <1>1, <1>2

\* The last line is read like every other, and so is the end of the last event.
LEMMA LastLineFollows ==
  ASSUME NEW V \in SUBSET Sound, Work(dec, stats) \in V, NEW lines \in Seq(LineSet),
         line \in OpenSet \cup {NoCut}, kind \in {"bridge", "chat"},
         Follows(kind, Work(dec, stats), lines),
         \A r \in V : \A l \in LineSet :
            process_line(r, l) \in V /\ Heeds(kind, r, l, process_line(r, l))
  PROVE  /\ LastLine \in V /\ Follows(kind, LastLine, AtEnd(lines, line))
         /\ FlushEvent(LastLine) \in V
         /\ Follows(kind, FlushEvent(LastLine), Append(AtEnd(lines, line), Blank))
<1> DEFINE w == Work(dec, stats)
           given == AtEnd(lines, line)
           s == LastLine
           r == FlushEvent(s)
<1>1. given \in Seq(LineSet) /\ given = IF line = NoCut THEN lines ELSE Append(lines, AsItStands(line))
  BY AtEndType
<1> HIDE DEF w, given
<1>2. s \in V /\ Follows(kind, s, given)
  <2>1. CASE line = NoCut
    <3>1. s = w
      BY <2>1 DEF LastLine, w
    <3> QED
      BY <1>1, <2>1, <3>1 DEF w
  <2>2. CASE line # NoCut
    <3> DEFINE l == AsItStands(line)
               z == process_line(w, l)
    <3>1. l \in LineSet
      BY <2>2, LastLineType
    <3>2. s = z
      BY <2>2 DEF LastLine, w
    <3>3. given = Append(lines, l)
      BY <1>1, <2>2
    <3>4. w \in V /\ Follows(kind, w, lines)
      BY DEF w
    <3> HIDE DEF l
    <3>5. z \in V /\ Heeds(kind, w, l, z)
      BY <3>1, <3>4, Zenon
    <3>6. w \in Sound /\ z \in Sound
      BY <3>4, <3>5
    <3> HIDE DEF z
    <3>7. Follows(kind, z, Append(lines, l))
      BY <3>1, <3>4, <3>5, <3>6, FollowsOn
    <3> QED
      BY <3>2, <3>3, <3>5, <3>7
  <2> QED
    BY <2>1, <2>2
<1>3. r = process_line(s, Blank)
  BY DEF process_line, process_line_chat, Blank
<1>4. Blank \in LineSet
  BY LastLineType
<1> HIDE DEF s, r
<1>5. r \in V /\ Heeds(kind, s, Blank, r)
  BY <1>2, <1>3, <1>4
<1>6. s \in Sound /\ r \in Sound
  BY <1>2, <1>5
<1>7. Follows(kind, r, Append(given, Blank))
  BY <1>1, <1>2, <1>4, <1>5, <1>6, FollowsOn
<1> QED
  BY <1>2, <1>5, <1>7 DEF s, r, given

\* The lines read of a stream that has ended, by the bridge and by the others.
ReadOf(decoder, lines, b) ==
    IF decoder = "bridge" /\ b = NoCut THEN AtEnd(lines, b) ELSE Append(AtEnd(lines, b), Blank)

\* The bridge at the end of the stream: the response has completed, for the client too.
LEMMA FinishBridge ==
  ASSUME NEW base \in Seq(SseSet), Work(dec, stats) \in BridgeSet(base),
         NEW lines \in Seq(LineSet), line \in OpenSet \cup {NoCut}, kind = "bridge",
         Follows(kind, Work(dec, stats), lines)
  PROVE  /\ finish_bridge \in BridgeSet(base)
         /\ finish_bridge.stats.output_text = TextIn(kind, ReadOf(kind, lines, line))
<1> DEFINE V == BridgeSet(base)
           s == IF line = NoCut THEN LastLine ELSE FlushEvent(LastLine)
           w == [s EXCEPT !.dec.completed = TRUE]
           r == finish_bridge
<1>1. V \in SUBSET Sound
  BY DEF BridgeSet
<1>2. \A z \in V : \A l \in LineSet :
         process_line(z, l) \in V /\ Heeds(kind, z, l, process_line(z, l))
  BY LineBridge, Zenon
<1>3. /\ LastLine \in V /\ Follows(kind, LastLine, AtEnd(lines, line))
      /\ FlushEvent(LastLine) \in V
      /\ Follows(kind, FlushEvent(LastLine), Append(AtEnd(lines, line), Blank))
  <2> HIDE DEF V
  <2>1. Work(dec, stats) \in V
    BY DEF V
  <2> QED
    BY <1>1, <1>2, <2>1, LastLineFollows
<1>4. s \in V /\ Follows(kind, s, ReadOf(kind, lines, line))
  BY <1>3 DEF ReadOf
<1>5. r = IF s.dec.completed THEN s ELSE finish_response(w)
  BY DEF finish_bridge
<1> HIDE DEF s, r
<1>6. s.stats.output_text = TextIn(kind, ReadOf(kind, lines, line))
  BY <1>4 DEF Follows
<1>7. s \in Sound
  BY <1>1, <1>4
<1>8. CASE s.dec.completed
  BY <1>4, <1>5, <1>6, <1>8 DEF r
<1>9. CASE ~s.dec.completed
  <2>1. s.dec.data_lines \in Seq(Document)
    BY <1>7, SoundParts DEF DecSet
  <2>2. w = WithLines(s, s.dec.data_lines, TRUE)
    <3>1. s \in WorkSet /\ s.dec \in DecSet
      BY <1>7, SoundParts
    <3>2. [s.dec EXCEPT !.completed = TRUE] = [s.dec EXCEPT !.data_lines = s.dec.data_lines, !.completed = TRUE]
      <4> DEFINE d == s.dec
      <4> HIDE DEF d
      <4>1. [d EXCEPT !.completed = TRUE] = [d EXCEPT !.data_lines = d.data_lines, !.completed = TRUE]
        <5>1. d \in DecSet
          BY <3>1 DEF d
        <5> QED
          BY <5>1 DEF DecSet
      <4> QED
        BY <4>1 DEF d
    <3>3. w = [s EXCEPT !.dec = [s.dec EXCEPT !.completed = TRUE]]
      BY <3>1 DEF WorkSet, DecSet
    <3> HIDE DEF w
    <3> QED
      BY <3>2, <3>3 DEF WithLines
  <2> HIDE DEF w
  <2>3. /\ w \in Sound /\ w.stats = s.stats /\ w.out = s.out
        /\ w.dec.tool_calls = s.dec.tool_calls /\ w.dec.completed = TRUE
    BY <1>7, <2>1, <2>2, DecChanged DEF Quiet
  <2>4. w \in SpeakingSet(base)
    BY <1>4, <1>9, <2>3, SetAside, Zenon
  <2>5. LET z == finish_response(w)
        IN  /\ z \in Sound /\ Obedient(base \o z.out) /\ Over(z.stats, Heard(base \o z.out))
            /\ z.stats.output_text = w.stats.output_text /\ z.dec.completed = w.dec.completed
    BY <2>4, FinishResponse, Zenon
  <2>6. /\ r \in Sound /\ Obedient(base \o r.out) /\ Over(r.stats, Heard(base \o r.out))
        /\ r.stats.output_text = s.stats.output_text /\ r.dec.completed = TRUE
    BY <1>5, <1>9, <2>3, <2>5
  <2>7. r \in BridgeSet(base)
    BY <2>6 DEF BridgeSet
  <2> QED
    BY <1>6, <2>6, <2>7 DEF r
<1> QED
  BY <1>8, <1>9

\* The chat decoder at the end of the stream: nothing more is said.
LEMMA FinishChat ==
  ASSUME Work(dec, stats) \in Sound,
         NEW lines \in Seq(LineSet), line \in OpenSet \cup {NoCut}, kind = "chat",
         Follows(kind, Work(dec, stats), lines)
  PROVE  /\ finish_chat \in Sound /\ finish_chat.out = <<>>
         /\ finish_chat.stats.output_text = TextIn(kind, ReadOf(kind, lines, line))
<1> DEFINE V == {z \in Sound : z.out = <<>>}
           s == FlushEvent(LastLine)
<1>1. V \in SUBSET Sound
  OBVIOUS
<1>2. ASSUME NEW z \in V, NEW l \in LineSet
      PROVE  process_line(z, l) \in V /\ Heeds(kind, z, l, process_line(z, l))
  <2>1. process_line(z, l) \in Quiet(z.out, z.dec.event_buffer) /\ Heeds(kind, z, l, process_line(z, l))
    BY LineChat
  <2> QED
    BY <2>1 DEF Quiet
<1>3. /\ FlushEvent(LastLine) \in V
      /\ Follows(kind, FlushEvent(LastLine), Append(AtEnd(lines, line), Blank))
  <2>1. Work(dec, stats) \in V
    BY DEF Work
  <2> HIDE DEF V
  <2> QED
    BY <1>1, <1>2, <2>1, LastLineFollows
<1>4. s \in Sound /\ s.out = <<>> /\ s.stats.output_text = TextIn(kind, ReadOf(kind, lines, line))
  BY <1>3 DEF ReadOf, Follows
<1>5. finish_chat = complete(s)
  BY DEF finish_chat
<1> HIDE DEF s
<1>6. complete(s) \in Quiet(s.out, s.dec.event_buffer) /\ complete(s).stats.output_text = s.stats.output_text
  BY <1>4, CompleteSound
<1> QED
  BY <1>4, <1>5, <1>6 DEF Quiet

-----------------------------------------------------------------------------
(* The rewriter of ids.                                                      *)

\* A line with the ids of its document replaced.
Rewritten(l) == IF l.k = "data" THEN Data(rewrite_value(l.d)) ELSE l

\* It is a line of the same kind, and replacing ids twice is replacing them once.
LEMMA RewrittenLine ==
  ASSUME NEW l \in LineSet
  PROVE  /\ Rewritten(l) \in LineSet /\ Rewritten(l).k = l.k
         /\ Rewritten(Rewritten(l)) = Rewritten(l)
<1>1. CASE l.k # "data"
  BY <1>1 DEF Rewritten
<1>2. CASE l.k = "data"
  <2>1. l.d \in Document
    BY <1>2 DEF LineSet
  <2> DEFINE d == l.d
             r == rewrite_value(d)
  <2>2. Rewritten(l) = Data(r)
    BY <1>2 DEF Rewritten
  <2>3. r \in Document /\ rewrite_value(r) = r
    <3> HIDE DEF d
    <3>1. d \in Document
      BY <2>1 DEF d
    <3>2. CASE d.json = "responses" /\ d.response_id # None
      <4>1. d \in ResponsesDocument
        BY <3>1, <3>2 DEF Document, ChatDocument
      <4>2. r = [d EXCEPT !.response_id = LocalId]
        BY <3>2 DEF rewrite_value
      <4>3. r \in ResponsesDocument /\ r.response_id = LocalId
        BY <4>1, <4>2, BridgeAssumption DEF ResponsesDocument, Option
      <4> HIDE DEF r
      <4>4. [r EXCEPT !.response_id = LocalId] = r
        BY <4>3 DEF ResponsesDocument
      <4> QED
        BY <4>3, <4>4 DEF Document, rewrite_value
    <3>3. CASE ~(d.json = "responses" /\ d.response_id # None)
      <4>1. r = d
        BY <3>3 DEF rewrite_value
      <4> HIDE DEF r
      <4> QED
        BY <3>1, <3>3, <4>1 DEF rewrite_value
    <3> QED
      BY <3>2, <3>3
  <2> HIDE DEF r
  <2>4. Data(r) \in LineSet /\ Data(r).k = "data" /\ Data(r).d = r
    BY <2>3 DEF Data, LineSet
  <2>5. Rewritten(Data(r)) = Data(r)
    BY <2>3, <2>4 DEF Rewritten
  <2> QED
    BY <1>2, <2>2, <2>4, <2>5
<1> QED
  BY <1>1, <1>2

\* Lines with the ids replaced, one by one.
LEMMA AnonymousFacts ==
  ASSUME NEW a \in Seq(LineSet)
  PROVE  /\ Anonymous(a) \in Seq(LineSet) /\ Len(Anonymous(a)) = Len(a)
         /\ \A n \in 1..Len(a) : Anonymous(a)[n] = Rewritten(a[n])
<1>1. Anonymous(a) = [n \in 1..Len(a) |-> Rewritten(a[n])]
  BY DEF Anonymous, Rewritten
<1>2. \A n \in 1..Len(a) : Rewritten(a[n]) \in LineSet
  BY RewrittenLine
<1> QED
  BY <1>1, <1>2

\* Leaving out the model's name, part by part.
LEMMA AnonymousConcat ==
  ASSUME NEW a \in Seq(LineSet), NEW b \in Seq(LineSet)
  PROVE  Anonymous(a \o b) = Anonymous(a) \o Anonymous(b)
<1> DEFINE x == Anonymous(a)
           y == Anonymous(b)
           z == Anonymous(a \o b)
           M == Len(a)
           N == Len(b)
<1>1. /\ x \in Seq(LineSet) /\ Len(x) = M /\ \A n \in 1..M : x[n] = Rewritten(a[n])
      /\ y \in Seq(LineSet) /\ Len(y) = N /\ \A n \in 1..N : y[n] = Rewritten(b[n])
  BY AnonymousFacts
<1>2. a \o b \in Seq(LineSet) /\ Len(a \o b) = M + N /\ M \in Nat /\ N \in Nat
  OBVIOUS
<1>3. z \in Seq(LineSet) /\ Len(z) = M + N /\ \A n \in 1..(M + N) : z[n] = Rewritten((a \o b)[n])
  BY <1>2, AnonymousFacts
<1>4. \A n \in 1..(M + N) : (a \o b)[n] = IF n <= M THEN a[n] ELSE b[n - M]
  OBVIOUS
<1> HIDE DEF x, y, z, M, N
<1>5. x \o y \in Seq(LineSet) /\ Len(x \o y) = M + N
  BY <1>1, <1>2
<1>6. ASSUME NEW n \in 1..(M + N) PROVE (x \o y)[n] = z[n]
  <2>1. (x \o y)[n] = IF n <= M THEN x[n] ELSE y[n - M]
    <3>1. x \in Seq(LineSet) /\ y \in Seq(LineSet) /\ Len(x) = M /\ Len(y) = N
      BY <1>1
    <3>2. n \in 1..(Len(x) + Len(y))
      BY <3>1
    <3> QED
      BY <3>1, <3>2, ConcatProperties
  <2>2. n <= M => n \in 1..M
    BY <1>2
  <2>3. ~(n <= M) => n - M \in 1..N
    BY <1>2
  <2> QED
    BY <1>1, <1>3, <1>4, <2>1, <2>2, <2>3
<1> QED
  BY <1>3, <1>5, <1>6, SeqEqual DEF x, y, z

\* An event that is rewritten: the same lines but for the ids, and done once it is done.
LEMMA RewriteFacts ==
  ASSUME NEW a \in Seq(LineSet)
  PROVE  /\ rewrite_event(a) \in Seq(LineSet)
         /\ Anonymous(rewrite_event(a)) = Anonymous(a)
         /\ rewrite_event(rewrite_event(a)) = rewrite_event(a)
<1> DEFINE D(x) == {n \in DOMAIN x : x[n].k = "data"}
           r == rewrite_event(a)
           z == Anonymous(a)
<1>1. \A x : rewrite_event(x) = IF Cardinality(D(x)) # 1 THEN x ELSE Anonymous(x)
  BY DEF rewrite_event, Anonymous
<1>2. z \in Seq(LineSet) /\ Len(z) = Len(a) /\ \A n \in 1..Len(a) : z[n] = Rewritten(a[n])
  BY AnonymousFacts
<1>3. \A n \in 1..Len(a) : a[n] \in LineSet
  OBVIOUS
<1>4. Anonymous(z) = z
  <2> HIDE DEF z
  <2>1. Anonymous(z) \in Seq(LineSet) /\ Len(Anonymous(z)) = Len(z)
        /\ \A n \in 1..Len(z) : Anonymous(z)[n] = Rewritten(z[n])
    BY <1>2, AnonymousFacts
  <2>2. \A n \in 1..Len(a) : Anonymous(z)[n] = z[n]
    BY <1>2, <1>3, <2>1, RewrittenLine
  <2> QED
    BY <1>2, <2>1, <2>2, SeqEqual
<1>5. CASE Cardinality(D(a)) # 1
  <2>1. r = a
    BY <1>1, <1>5
  <2> QED
    BY <2>1
<1>6. CASE Cardinality(D(a)) = 1
  <2>1. r = z
    BY <1>1, <1>6
  <2>2. D(z) = D(a)
    <3>1. DOMAIN z = 1..Len(a) /\ DOMAIN a = 1..Len(a)
      BY <1>2
    <3>2. \A n \in 1..Len(a) : z[n].k = a[n].k
      BY <1>2, <1>3, RewrittenLine
    <3> HIDE DEF z
    <3> QED
      BY <3>1, <3>2
  <2>3. rewrite_event(z) = z
    <3> HIDE DEF z, D
    <3> QED
      BY <1>1, <1>4, <1>6, <2>2
  <2> QED
    BY <1>2, <1>4, <2>1, <2>3
<1> QED
  BY <1>5, <1>6

\* Every event the client is given has had its ids replaced.
AllRewritten(said) ==
    \A n \in DOMAIN said : said[n].e = "event" => said[n].lines = rewrite_event(said[n].lines)

\* The rewriter between two lines.
RewriteSet(base) ==
    {s \in Sound : Obedient(base \o s.out) /\ AllRewritten(base \o s.out)}

\* But for the ids, what the client has and what is held back are the lines so far.
Passes(base, s, lines) ==
    Anonymous(Heard(base \o s.out).lines \o s.dec.event_buffer) = Anonymous(lines)

\* The lines held are given to the client.
Release(s, held) ==
    [s EXCEPT !.dec.event_buffer = <<>>, !.out = Append(@, EventSse(rewrite_event(held)))]

\* One more event whose lines are rewritten.
LEMMA RewrittenMore ==
  ASSUME NEW said \in Seq(SseSet), NEW x \in SseSet, AllRewritten(said),
         x.e = "event" => x.lines = rewrite_event(x.lines)
  PROVE  AllRewritten(Append(said, x))
<1> DEFINE all == Append(said, x)
<1>1. DOMAIN all = 1..(Len(said) + 1) /\ DOMAIN said = 1..Len(said) /\ Len(said) \in Nat
  OBVIOUS
<1>2. ASSUME NEW n \in 1..(Len(said) + 1), all[n].e = "event"
      PROVE  all[n].lines = rewrite_event(all[n].lines)
  <2>1. CASE n = Len(said) + 1
    <3>1. all[n] = x
      BY <2>1
    <3> QED
      BY <1>2, <3>1
  <2>2. CASE n # Len(said) + 1
    <3>1. n \in 1..Len(said) /\ all[n] = said[n]
      BY <1>1, <2>2
    <3> QED
      BY <1>1, <1>2, <3>1 DEF AllRewritten
  <2> QED
    BY <2>1, <2>2
<1> QED
  BY <1>1, <1>2 DEF AllRewritten

\* Holding lines back changes neither the record nor what was said.
LEMMA HeldBack ==
  ASSUME NEW s \in Sound, NEW held \in Seq(LineSet)
  PROVE  LET r == [s EXCEPT !.dec.event_buffer = held]
         IN  r \in Sound /\ r.out = s.out /\ r.dec.event_buffer = held
<1> DEFINE d == [s.dec EXCEPT !.event_buffer = held]
           r == [s EXCEPT !.dec.event_buffer = held]
<1>1. /\ s.dec \in DecSet /\ s.stats \in StatsSet /\ s.out \in Seq(SseSet) /\ Counted(s.stats)
      /\ s \in WorkSet
  BY SoundParts
<1>2. d \in DecSet /\ d.event_buffer = held
  BY <1>1 DEF DecSet
<1>3. r = [dec |-> d, stats |-> s.stats, out |-> s.out]
  BY <1>1 DEF WorkSet
<1> HIDE DEF d, r
<1>4. r \in Sound
  BY <1>1, <1>2, <1>3, SoundMade
<1> QED
  BY <1>2, <1>3, <1>4 DEF r

\* An event released by the rewriter passes on the lines it held.
LEMMA ReleaseOk ==
  ASSUME NEW base \in Seq(SseSet), NEW s \in RewriteSet(base), NEW held \in Seq(LineSet),
         NEW lines \in Seq(LineSet),
         Anonymous(Heard(base \o s.out).lines \o held) = Anonymous(lines)
  PROVE  LET r == Release(s, held) IN r \in RewriteSet(base) /\ Passes(base, r, lines)
<1> DEFINE d == [s.dec EXCEPT !.event_buffer = <<>>]
           ev == rewrite_event(held)
           x == EventSse(ev)
           r == Release(s, held)
           v == Heard(base \o s.out)
<1>1. /\ s.dec \in DecSet /\ s.stats \in StatsSet /\ s.out \in Seq(SseSet) /\ Counted(s.stats)
      /\ s \in WorkSet /\ Obedient(base \o s.out) /\ AllRewritten(base \o s.out)
  BY SoundParts DEF RewriteSet
<1>2. /\ ev \in Seq(LineSet) /\ Anonymous(ev) = Anonymous(held) /\ rewrite_event(ev) = ev
  BY RewriteFacts
<1> HIDE DEF ev
<1>3. x \in SseSet /\ x.e = "event" /\ x.lines = ev
  BY <1>2 DEF EventSse, SseSet
<1>4. d \in DecSet /\ d.event_buffer = <<>>
  <2> DEFINE nothing == <<>>
  <2>1. nothing \in Seq(LineSet)
    OBVIOUS
  <2> HIDE DEF nothing
  <2>2. LET z == [s.dec EXCEPT !.event_buffer = nothing] IN z \in DecSet /\ z.event_buffer = nothing
    BY <1>1, <2>1 DEF DecSet
  <2> QED
    BY <2>2 DEF nothing
<1>5. r = [dec |-> d, stats |-> s.stats, out |-> Append(s.out, x)]
  <2>1. r = [s EXCEPT !.dec = d, !.out = Append(s.out, x)]
    BY DEF Release, ev
  <2> HIDE DEF d, r, x
  <2> QED
    BY <1>1, <2>1, SpeechChanged
<1> HIDE DEF d, x, r
<1>6. /\ Append(s.out, x) \in Seq(SseSet) /\ base \o s.out \in Seq(SseSet)
      /\ v \in HeardSet /\ Heard(base \o Append(s.out, x)) = Hear(v, x)
      /\ Fine(v, x) => Obedient(base \o Append(s.out, x))
      /\ base \o Append(s.out, x) = Append(base \o s.out, x)
  <2>1. base \o Append(s.out, x) = Append(base \o s.out, x)
    BY <1>1, <1>3
  <2> QED
    BY <1>1, <1>3, <2>1, Emitted
<1>7. Fine(v, x) /\ Hear(v, x).lines = v.lines \o ev
  BY <1>3, <1>6, HearOther
<1>8. AllRewritten(base \o Append(s.out, x))
  BY <1>1, <1>2, <1>3, <1>6, RewrittenMore
<1>9. r \in Sound
  BY <1>1, <1>4, <1>5, <1>6, SoundMade
<1>10. r.out = Append(s.out, x) /\ r.dec.event_buffer = <<>>
  BY <1>4, <1>5
<1>11. r \in RewriteSet(base)
  BY <1>6, <1>7, <1>8, <1>9, <1>10 DEF RewriteSet
<1>12. Passes(base, r, lines)
  <2>1. v.lines \in Seq(LineSet)
    BY <1>6 DEF HeardSet
  <2> DEFINE a == v.lines
  <2>2. Anonymous(a \o held) = Anonymous(lines)
    OBVIOUS
  <2> HIDE DEF a, v
  <2>3. Heard(base \o r.out).lines \o r.dec.event_buffer = a \o ev
    <3>1. Heard(base \o r.out).lines = a \o ev
      BY <1>6, <1>7, <1>10 DEF a
    <3>2. a \o ev \in Seq(LineSet)
      BY <1>2, <2>1 DEF a
    <3> QED
      BY <1>10, <3>1, <3>2, ConcatEmptySeq
  <2>4. Anonymous(a \o ev) = Anonymous(a) \o Anonymous(ev) /\ Anonymous(a \o held) = Anonymous(a) \o Anonymous(held)
    BY <1>2, <2>1, AnonymousConcat DEF a
  <2> QED
    BY <1>2, <2>2, <2>3, <2>4 DEF Passes
<1> QED
  BY <1>11, <1>12 DEF r

\* One more line is held back, or ends the event.
LEMMA RewriteLineOk ==
  ASSUME NEW base \in Seq(SseSet), NEW s \in RewriteSet(base), NEW lines \in Seq(LineSet),
         NEW l \in LineSet, Passes(base, s, lines)
  PROVE  LET r == RewriteLine(s, l) IN r \in RewriteSet(base) /\ Passes(base, r, Append(lines, l))
<1> DEFINE held == Append(s.dec.event_buffer, l)
           r == RewriteLine(s, l)
           a == Heard(base \o s.out).lines
           b == s.dec.event_buffer
<1>1. s \in Sound /\ b \in Seq(LineSet) /\ base \o s.out \in Seq(SseSet)
  <2>1. s \in Sound /\ s.dec \in DecSet /\ s.out \in Seq(SseSet)
    BY SoundParts DEF RewriteSet
  <2> QED
    BY <2>1 DEF DecSet
<1>2. a \in Seq(LineSet)
  BY <1>1, HeardBy DEF HeardSet
<1>3. held \in Seq(LineSet)
  BY <1>1
<1>4. Anonymous(a \o held) = Anonymous(Append(lines, l))
  <2>1. Anonymous(a \o b) = Anonymous(lines)
    BY DEF Passes
  <2> HIDE DEF a, b
  <2>2. /\ a \o held = (a \o b) \o <<l>> /\ Append(lines, l) = lines \o <<l>>
        /\ <<l>> \in Seq(LineSet) /\ a \o b \in Seq(LineSet)
    <3>1. held = Append(b, l)
      BY DEF b
    <3>2. a \o Append(b, l) = Append(a \o b, l)
      BY <1>1, <1>2
    <3>3. a \o b \in Seq(LineSet)
      BY <1>1, <1>2
    <3> DEFINE c == a \o b
    <3> HIDE DEF c
    <3>4. Append(c, l) = c \o <<l>>
      BY <3>3 DEF c
    <3> QED
      BY <3>1, <3>2, <3>3, <3>4 DEF c
  <2>3. Anonymous((a \o b) \o <<l>>) = Anonymous(a \o b) \o Anonymous(<<l>>)
        /\ Anonymous(lines \o <<l>>) = Anonymous(lines) \o Anonymous(<<l>>)
    BY <2>2, AnonymousConcat
  <2> QED
    BY <2>1, <2>2, <2>3
<1>5. CASE l.k # "blank"
  <2>1. r = [s EXCEPT !.dec.event_buffer = held]
    BY <1>5 DEF RewriteLine
  <2> HIDE DEF held
  <2>2. r \in Sound /\ r.out = s.out /\ r.dec.event_buffer = held
    BY <1>1, <1>3, <2>1, HeldBack
  <2> HIDE DEF r
  <2>3. r \in RewriteSet(base)
    BY <2>2 DEF RewriteSet
  <2> QED
    BY <1>4, <2>2, <2>3 DEF Passes, r
<1>6. CASE l.k = "blank"
  <2>1. r = Release(s, held)
    BY <1>6 DEF RewriteLine, Release
  <2> HIDE DEF held, r
  <2>2. Append(lines, l) \in Seq(LineSet)
    OBVIOUS
  <2>3. LET z == Release(s, held) IN z \in RewriteSet(base) /\ Passes(base, z, Append(lines, l))
    BY <1>3, <1>4, <2>2, ReleaseOk, Zenon
  <2> QED
    BY <2>1, <2>3 DEF r
<1> QED
  BY <1>5, <1>6

\* Lines, one after the other.
LEMMA RewriteLinesOk ==
  ASSUME NEW base \in Seq(SseSet), NEW s \in RewriteSet(base), NEW lines \in Seq(LineSet),
         NEW xs \in Seq(LineSet), Passes(base, s, lines)
  PROVE  LET r == RewriteLines(s, xs) IN r \in RewriteSet(base) /\ Passes(base, r, lines \o xs)
<1> DEFINE N == Len(xs)
           V == RewriteSet(base)
<1>1. N \in Nat /\ \A n \in 1..N : xs[n] \in LineSet
  OBVIOUS
<1>2. PICK f : RewriteLinesIn(f, V, s, xs)
  <2>1. ASSUME NEW r \in V, NEW n \in 1..Len(xs) PROVE RewriteLine(r, xs[n]) \in V
    <3> DEFINE a == Heard(base \o r.out).lines
               b == r.dec.event_buffer
    <3>1. b \in Seq(LineSet) /\ base \o r.out \in Seq(SseSet)
      <4>1. r \in Sound /\ r.dec \in DecSet /\ r.out \in Seq(SseSet)
        BY SoundParts DEF RewriteSet
      <4> QED
        BY <4>1 DEF DecSet
    <3>2. a \in Seq(LineSet)
      BY <3>1, HeardBy DEF HeardSet
    <3>3. Passes(base, r, a \o b)
      BY DEF Passes
    <3> HIDE DEF a, b
    <3>4. a \o b \in Seq(LineSet) /\ xs[n] \in LineSet
      BY <1>1, <3>1, <3>2
    <3> QED
      BY <3>3, <3>4, RewriteLineOk, Zenon
  <2>2. Len(xs) \in Nat
    OBVIOUS
  <2> HIDE DEF V
  <2>3. s \in V
    BY DEF V
  <2>4. \A r \in V : \A n \in 1..Len(xs) : RewriteLine(r, xs[n]) \in V
    BY <2>1
  <2> QED
    BY <2>2, <2>3, <2>4, RewriteLinesRun, Zenon
<1>3. /\ f \in [0..N -> V] /\ f[0] = s /\ \A n \in 1..N : f[n] = RewriteLine(f[n - 1], xs[n])
      /\ RewriteLines(s, xs) = f[N] /\ f[N] \in V
  BY <1>2, Zenon DEF RewriteLinesIn
<1> DEFINE T == {n \in 0..N : Passes(base, f[n], UpTo(lines, xs, n))}
<1>4. /\ UpTo(lines, xs, 0) = lines /\ UpTo(lines, xs, N) = lines \o xs
      /\ \A n \in 0..N : UpTo(lines, xs, n) \in Seq(LineSet)
      /\ \A n \in 0..N : n < N => UpTo(lines, xs, n + 1) = Append(UpTo(lines, xs, n), xs[n + 1])
  BY UpToFacts
<1> HIDE DEF N, V
<1>5. 0 \in T
  <2>1. 0 \in 0..N
    BY <1>1
  <2>2. Passes(base, f[0], UpTo(lines, xs, 0))
    BY <1>3, <1>4, Zenon
  <2> QED
    BY <2>1, <2>2
<1>6. ASSUME NEW n \in 0..N, n < N, n \in T PROVE n + 1 \in T
  <2>1. n + 1 \in 1..N /\ n + 1 \in 0..N /\ (n + 1) - 1 = n
    BY <1>1, <1>6
  <2>2. /\ f[n] \in V /\ xs[n + 1] \in LineSet /\ f[n + 1] = RewriteLine(f[n], xs[n + 1])
    BY <1>1, <1>3, <2>1
  <2>3. Passes(base, f[n], UpTo(lines, xs, n)) /\ UpTo(lines, xs, n) \in Seq(LineSet)
    BY <1>4, <1>6
  <2>4. f[n] \in RewriteSet(base)
    BY <2>2 DEF V
  <2>5. Passes(base, RewriteLine(f[n], xs[n + 1]), Append(UpTo(lines, xs, n), xs[n + 1]))
    BY <2>2, <2>3, <2>4, RewriteLineOk, Zenon
  <2> QED
    BY <1>4, <1>6, <2>1, <2>2, <2>5
<1>7. N \in T
  <2>1. \A n \in 0..N : n \in T
    <3> HIDE DEF T
    <3> QED
      BY <1>1, <1>5, <1>6, BoundedInduction
  <2> QED
    BY <1>1, <2>1
<1> QED
  BY <1>3, <1>4, <1>7 DEF V

\* A responses stream says nothing while its events are counted.
LEMMA CountedQuietly ==
  ASSUME Work(dec, stats) \in Sound, NEW xs \in Seq(LineSet), kind = "responses"
  PROVE  process_lines(Work(dec, stats), xs) \in Quiet(<<>>, dec.event_buffer)
<1> DEFINE w == Work(dec, stats)
           V == Quiet(<<>>, dec.event_buffer)
<1>1. w \in V
  BY DEF Quiet, Work
<1>2. ASSUME NEW r \in V, NEW n \in 1..Len(xs) PROVE process_line(r, xs[n]) \in V
  <2>1. xs[n] \in LineSet /\ r \in Sound /\ r.out = <<>> /\ r.dec.event_buffer = dec.event_buffer
    BY DEF Quiet
  <2> QED
    BY <2>1, LineQuiet
<1>3. Len(xs) \in Nat
  OBVIOUS
<1> HIDE DEF V, w
<1>4. process_lines(w, xs) \in V
  <2>1. \A r \in V : \A n \in 1..Len(xs) : process_line(r, xs[n]) \in V
    BY <1>2
  <2> QED
    BY <1>1, <1>3, <2>1, ProcessLinesRun, Zenon
<1> QED
  BY <1>4 DEF V, w

\* A chunk of a responses stream.
LEMMA PushRewritten ==
  ASSUME NEW base \in Seq(SseSet), Work(dec, stats) \in RewriteSet(base),
         NEW lines \in Seq(LineSet), NEW c, drain_lines(c) \in Seq(LineSet), kind = "responses",
         Passes(base, Work(dec, stats), lines)
  PROVE  /\ push_chunk_rewritten(c) \in RewriteSet(base)
         /\ Passes(base, push_chunk_rewritten(c), lines \o drain_lines(c))
<1> DEFINE w == Work(dec, stats)
           xs == drain_lines(c)
           s == process_lines(w, xs)
<1>1. w \in Sound /\ w.out = <<>> /\ w.dec = dec
  BY DEF RewriteSet, Work
<1>2. s \in Sound /\ s.out = <<>> /\ s.dec.event_buffer = dec.event_buffer
  BY <1>1, CountedQuietly DEF Quiet
<1>3. push_chunk_rewritten(c) = RewriteLines(s, xs)
  BY DEF push_chunk_rewritten, PushLines
<1> HIDE DEF s, w, xs
<1>4. s \in RewriteSet(base)
  BY <1>1, <1>2 DEF RewriteSet, w
<1>5. Passes(base, s, lines)
  BY <1>1, <1>2 DEF Passes, w
<1>6. xs \in Seq(LineSet)
  BY DEF xs
<1>7. RewriteLines(s, xs) \in RewriteSet(base) /\ Passes(base, RewriteLines(s, xs), lines \o xs)
  BY <1>4, <1>5, <1>6, RewriteLinesOk, Zenon
<1> QED
  BY <1>3, <1>7 DEF xs

\* The rewriter at the end of the stream: nothing is kept back.
LEMMA FinishRewritten ==
  ASSUME NEW base \in Seq(SseSet), Work(dec, stats) \in RewriteSet(base),
         NEW lines \in Seq(LineSet), line \in OpenSet \cup {NoCut}, kind = "responses",
         Passes(base, Work(dec, stats), lines)
  PROVE  /\ finish_rewritten \in RewriteSet(base)
         /\ Passes(base, finish_rewritten, AtEnd(lines, line))
<1> DEFINE w == Work(dec, stats)
           s == FlushEvent(LastLine)
           b == dec.event_buffer
           last == IF line = NoCut THEN <<>> ELSE <<AsItStands(line)>>
           left == b \o last
           a == Heard(base \o <<>>).lines
<1>1. /\ w \in Sound /\ w.out = <<>> /\ w.dec = dec /\ Obedient(base \o <<>>)
      /\ AllRewritten(base \o <<>>)
  BY DEF RewriteSet, Work
<1>2. s \in Sound /\ s.out = <<>> /\ s.dec.event_buffer = b
  <2> DEFINE z == LastLine
  <2>1. z \in Sound /\ z.out = <<>> /\ z.dec.event_buffer = b
    <3>1. CASE line = NoCut
      BY <1>1, <3>1 DEF LastLine
    <3>2. CASE line # NoCut
      <4>1. AsItStands(line) \in LineSet
        BY <3>2, LastLineType
      <4>2. process_line(w, AsItStands(line)) \in Quiet(w.out, w.dec.event_buffer)
        <5> HIDE DEF w
        <5> QED
          BY <1>1, <4>1, LineQuiet
      <4>3. z = process_line(w, AsItStands(line))
        BY <3>2 DEF LastLine
      <4> QED
        BY <1>1, <4>2, <4>3 DEF Quiet
    <3> QED
      BY <3>1, <3>2
  <2>2. s = record_event_responses(z)
    BY DEF FlushEvent
  <2> HIDE DEF z, s
  <2>3. s \in Quiet(z.out, z.dec.event_buffer)
    BY <2>1, <2>2, FlushResponses
  <2> QED
    BY <2>1, <2>3 DEF Quiet
<1>3. /\ finish_rewritten = IF left = <<>> THEN s ELSE Release(s, left)
  <2>1. s.dec.event_buffer \o last = left
    BY <1>2
  <2> QED
    BY <2>1 DEF finish_rewritten, finish_responses, Release
<1>4. b \in Seq(LineSet)
  BY <1>1, SoundParts DEF DecSet
<1>5. last \in Seq(LineSet)
  <2>1. line # NoCut => AsItStands(line) \in LineSet
    BY LastLineType
  <2> QED
    BY <2>1
<1>6. a \in Seq(LineSet)
  <2>1. base \o <<>> \in Seq(SseSet)
    OBVIOUS
  <2> QED
    BY <2>1, HeardBy DEF HeardSet
<1>7. AtEnd(lines, line) = lines \o last /\ AtEnd(lines, line) \in Seq(LineSet)
  BY AtEndType DEF AtEnd
<1>8. Anonymous(a \o b) = Anonymous(lines)
  BY <1>1 DEF Passes
<1> HIDE DEF s, w, a, last, b
<1>9. Anonymous(a \o left) = Anonymous(lines \o last)
  <2>1. a \o left = (a \o b) \o last /\ a \o b \in Seq(LineSet)
    BY <1>4, <1>5, <1>6, ConcatAssociative
  <2>2. Anonymous((a \o b) \o last) = Anonymous(a \o b) \o Anonymous(last)
        /\ Anonymous(lines \o last) = Anonymous(lines) \o Anonymous(last)
    BY <1>5, <2>1, AnonymousConcat
  <2> QED
    BY <1>8, <2>1, <2>2
<1>10. left \in Seq(LineSet)
  BY <1>4, <1>5
<1> HIDE DEF left
<1>11. s \in RewriteSet(base) /\ Heard(base \o s.out).lines = a
  BY <1>1, <1>2 DEF RewriteSet, a
<1>12. CASE left = <<>>
  <2>1. b = <<>>
    BY <1>4, <1>5, <1>12, ConcatEmptySeq DEF left
  <2>2. s.dec.event_buffer = left
    BY <1>2, <1>12, <2>1
  <2>3. Passes(base, s, AtEnd(lines, line))
    BY <1>7, <1>9, <1>11, <2>2 DEF Passes
  <2> QED
    BY <1>3, <1>11, <1>12, <2>3
<1>13. CASE left # <<>>
  <2>1. Anonymous(Heard(base \o s.out).lines \o left) = Anonymous(AtEnd(lines, line))
    BY <1>7, <1>9, <1>11
  <2>2. LET r == Release(s, left) IN r \in RewriteSet(base) /\ Passes(base, r, AtEnd(lines, line))
    BY <1>7, <1>10, <1>11, <2>1, ReleaseOk, Zenon
  <2> QED
    BY <1>3, <1>13, <2>2
<1> QED
  BY <1>12, <1>13

\* A chunk of a bridged stream.
LEMMA PushBridge ==
  ASSUME NEW base \in Seq(SseSet), Work(dec, stats) \in BridgeSet(base),
         NEW lines \in Seq(LineSet), NEW c, drain_lines(c) \in Seq(LineSet), kind = "bridge",
         Follows(kind, Work(dec, stats), lines)
  PROVE  /\ push_chunk_bridge(c) \in BridgeSet(base)
         /\ Follows(kind, push_chunk_bridge(c), lines \o drain_lines(c))
<1> DEFINE V == BridgeSet(base)
           w == Work(dec, stats)
           xs == drain_lines(c)
<1>1. V \in SUBSET Sound
  BY DEF BridgeSet
<1>2. \A z \in V : \A l \in LineSet :
         process_line(z, l) \in V /\ Heeds(kind, z, l, process_line(z, l))
  BY LineBridge, Zenon
<1> HIDE DEF V, w, xs
<1>3. w \in V /\ xs \in Seq(LineSet) /\ Follows(kind, w, lines) /\ kind \in {"bridge", "chat"}
  BY DEF V, w, xs
<1>4. process_lines(w, xs) \in V /\ Follows(kind, process_lines(w, xs), lines \o xs)
  BY <1>1, <1>2, <1>3, LinesFollow, Zenon
<1> QED
  BY <1>4 DEF V, w, xs, push_chunk_bridge, PushLines

\* A chunk of a chat stream: its bytes are passed on.
LEMMA PushThrough ==
  ASSUME Work(dec, stats) \in Sound, NEW c \in ChunkSet,
         NEW lines \in Seq(LineSet), drain_lines(c) \in Seq(LineSet), kind = "chat",
         Follows(kind, Work(dec, stats), lines)
  PROVE  /\ push_chunk_through(c) \in Sound /\ push_chunk_through(c).out = <<BytesSse(c)>>
         /\ Follows(kind, push_chunk_through(c), lines \o drain_lines(c))
<1> DEFINE w == Work(dec, stats)
           xs == drain_lines(c)
           s == process_lines(w, xs)
           x == BytesSse(c)
           r == push_chunk_through(c)
<1>1. \A z \in Sound : \A l \in LineSet :
         process_line(z, l) \in Sound /\ Heeds(kind, z, l, process_line(z, l))
  BY LineChat DEF Quiet
<1>2. r = [s EXCEPT !.out = <<x>>]
  BY DEF push_chunk_through, PushLines
<1> HIDE DEF w, xs
<1>3. w \in Sound /\ xs \in Seq(LineSet) /\ Follows(kind, w, lines) /\ kind \in {"bridge", "chat"}
  BY DEF w, xs
<1>4. s \in Sound /\ Follows(kind, s, lines \o xs)
  <2>1. Sound \in SUBSET Sound
    OBVIOUS
  <2> QED
    BY <1>1, <1>3, <2>1, LinesFollow, Zenon
<1>5. x \in SseSet
  BY DEF BytesSse, SseSet
<1> HIDE DEF s, x
<1>6. r = [dec |-> s.dec, stats |-> s.stats, out |-> <<x>>]
  BY <1>2, <1>4, SoundParts DEF WorkSet
<1>7. <<x>> \in Seq(SseSet)
  BY <1>5
<1> DEFINE o == <<x>>
<1> HIDE DEF o
<1>8. [dec |-> s.dec, stats |-> s.stats, out |-> o] \in Sound
  BY <1>4, <1>7, SoundParts, SoundMade DEF o
<1>9. r \in Sound /\ r.out = <<x>> /\ r.dec = s.dec /\ r.stats = s.stats
  BY <1>6, <1>8 DEF o
<1> HIDE DEF r
<1>10. Follows(kind, r, lines \o xs)
  BY <1>4, <1>9 DEF Follows
<1> QED
  BY <1>9, <1>10 DEF r, x, xs

-----------------------------------------------------------------------------
(* The inductive invariant.  Its parts are about the decoder at work s, what *)
(* the client has been given, and the chunks the decoder has been given.     *)

Phases == {"verifying", "rejected", "streaming", "ended", "closed", "broken", "dropped"}

NewWork == Work(NoDecoder, NoStats)

\* The chunks that reached the decoder: the head is put back before it gets any.
Reached(h, up) == IF h = None THEN up ELSE <<>>

\* Types; verification reads nothing but the head, of which nothing is told before
\* it is put back; the open line is the one the last chunk left.
Known(k, p, em, h, ln, s, se, up) ==
    /\ k \in Kinds /\ p \in Phases
    /\ em \in 0..(MaxEmptyChunks + 1) /\ (p = "verifying" => em <= MaxEmptyChunks)
    /\ h \in Chunks(k) \cup {None} /\ ln \in OpenSet \cup {NoCut}
    /\ s \in Sound /\ se \in Seq(SseSet) /\ up \in Seq(ChunkSet)
    /\ p \in {"verifying", "streaming"} => ln = LeftOpen(Reached(h, up))
    /\ p = "verifying" => h = None /\ up = <<>> /\ s = NewWork /\ se = <<>>
    /\ h # None => up = <<h>> /\ ~h.rest /\ s = NewWork /\ se = <<>>

\* What each decoder has told and will tell its client is in order.
Tells(k, s, se) ==
    /\ k = "bridge" => s \in BridgeSet(se)
    /\ k = "chat" => Obedient(se \o s.out)
    /\ k = "responses" => s \in RewriteSet(se)

\* What each decoder has made of the chunks, while they come and after the end.
Reads(k, p, s, se, chunks) ==
    LET lines == LinesEnded(chunks)
        open == LeftOpen(chunks)
    IN  /\ k \in {"bridge", "chat"} =>
            /\ p \in {"verifying", "streaming"} => Follows(k, s, lines)
            /\ p \in {"ended", "closed"} => s.stats.output_text = TextIn(k, ReadOf(k, lines, open))
        /\ k = "chat" => Heard(se \o s.out).chunks = chunks
        /\ k = "responses" =>
            /\ p \in {"verifying", "streaming"} => Passes(se, s, lines)
            /\ p \in {"ended", "closed"} => Passes(se, s, AtEnd(lines, open))

Order(k, p, em, h, ln, s, se, up) ==
    /\ Known(k, p, em, h, ln, s, se, up)
    /\ Tells(k, s, se)
    /\ Reads(k, p, s, se, Reached(h, up))

Now == [dec |-> dec, stats |-> stats, out |-> pending]

IInv == Order(kind, phase, empties, head, line, Now, sent, upstream)

\* A new decoder has told nothing and read nothing.
LEMMA NewIsSound == NewWork \in Sound /\ NewWork.dec = NoDecoder /\ NewWork.stats = NoStats /\ NewWork.out = <<>>
<1>1. NoDecoder \in DecSet
  BY NoTable DEF NoDecoder, DecSet, Option
<1>2. NoStats \in StatsSet
  <2>1. NoUsage \in [UsageFields -> Option(0..MaxI64)]
    BY DEF NoUsage, Option
  <2>2. <<>> \in Seq(Piece) /\ <<>> \in Seq(OutputSet)
    OBVIOUS
  <2> QED
    BY <2>1, <2>2, NoTable DEF NoStats, StatsSet, Option, Text
<1>3. Counted(NoStats)
  <2>1. DoneIn(<<>>) = {}
    BY NoTable DEF DoneIn
  <2> QED
    BY <2>1, FS_EmptySet DEF Counted, NoStats
<1>4. <<>> \in Seq(SseSet)
  OBVIOUS
<1> DEFINE o == <<>>
<1> HIDE DEF o
<1>5. [dec |-> NoDecoder, stats |-> NoStats, out |-> o] \in Sound
  BY <1>1, <1>2, <1>3, <1>4, SoundMade DEF o
<1>6. NewWork = [dec |-> NoDecoder, stats |-> NoStats, out |-> o]
  BY DEF NewWork, Work, o
<1> QED
  BY <1>5, <1>6 DEF o

\* Before the first event nothing is wrong.
LEMMA NothingSaid ==
  /\ <<>> \in Seq(SseSet) /\ <<>> \o <<>> = <<>> /\ Heard(<<>>) = NothingHeard
  /\ Obedient(<<>>) /\ AllRewritten(<<>>)
<1> DEFINE e == <<>>
<1>1. e \in Seq(SseSet) /\ Len(e) = 0 /\ e \o e = e /\ DOMAIN e = {}
  OBVIOUS
<1>2. Obedient(e) /\ AllRewritten(e)
  <2> HIDE DEF e
  <2> QED
    BY <1>1 DEF Obedient, AllRewritten
<1> QED
  BY <1>1, <1>2, HeardNothing

\* A new decoder has made of no lines what it should.
LEMMA NewFollows ==
  ASSUME NEW decoder PROVE Follows(decoder, NewWork, <<>>)
<1> DEFINE lines == <<>>
           w == NewWork
<1>1. lines \in Seq(LineSet) /\ Len(lines) = 0
  OBVIOUS
<1>2. /\ w.dec.data_lines = <<>> /\ w.stats.output_text = <<>> /\ w.dec.completed = FALSE
  BY NewIsSound DEF NoDecoder, NoStats
<1>3. TextIn(decoder, lines) = <<>>
  BY TextNothing
<1> HIDE DEF lines, w
<1>4. DataAt(lines, Len(lines) + 1) = {}
  BY <1>1 DEF DataAt
<1>5. Holds(w.dec, lines)
  <2>1. Cardinality(DataAt(lines, Len(lines) + 1)) = 0
    BY <1>4, FS_EmptySet
  <2> QED
    BY <1>2, <2>1 DEF Holds
<1>6. ~ \E q \in 1..Len(lines) : DoneAt(lines, q)
  BY <1>1
<1> QED
  BY <1>2, <1>3, <1>5, <1>6 DEF Follows, lines, w

\* A new decoder has told its client nothing, in order.
LEMMA NewTells ==
  /\ NewWork \in BridgeSet(<<>>) /\ NewWork \in RewriteSet(<<>>) /\ Obedient(<<>> \o NewWork.out)
  /\ Passes(<<>>, NewWork, <<>>) /\ Heard(<<>> \o NewWork.out) = NothingHeard
<1> DEFINE w == NewWork
           base == <<>>
<1>1. /\ w \in Sound /\ w.dec = NoDecoder /\ w.stats = NoStats /\ w.out = <<>>
  BY NewIsSound
<1>2. /\ base \in Seq(SseSet) /\ base \o w.out = <<>> /\ Obedient(base \o w.out)
      /\ AllRewritten(base \o w.out) /\ Heard(base \o w.out) = NothingHeard
  BY <1>1, NothingSaid
<1>3. Speaking(NoDecoder, NoStats, NothingHeard)
  <2>1. \A i \in Index : Matches(<<>>, <<>>, NothingHeard, i)
    BY NoTable DEF Matches, Entry, NoCall, NothingHeard, StageOf
  <2> QED
    BY <2>1, NoTable DEF Speaking, NoDecoder, NoStats, NothingHeard
<1>4. Unclosed(NoDecoder) /\ NoDecoder.completed = FALSE
  BY NoTable DEF Unclosed, NoDecoder
<1>5. NoDecoder.event_buffer = <<>> /\ NothingHeard.lines = <<>>
  BY DEF NoDecoder, NothingHeard
<1> HIDE DEF w, base
<1>6. w \in BridgeSet(base)
  BY <1>1, <1>2, <1>3, <1>4 DEF BridgeSet
<1>7. w \in RewriteSet(base)
  BY <1>1, <1>2 DEF RewriteSet
<1>8. Passes(base, w, <<>>)
  <2>1. Heard(base \o w.out).lines \o w.dec.event_buffer = <<>>
    BY <1>1, <1>2, <1>5, NothingSaid
  <2> QED
    BY <2>1 DEF Passes
<1> QED
  BY <1>2, <1>6, <1>7, <1>8 DEF w, base

\* The inductive invariant holds when a stream begins.
LEMMA InitOk == Init => IInv
<1> SUFFICES ASSUME Init PROVE IInv
  OBVIOUS
<1>1. /\ kind \in Kinds /\ phase = "verifying" /\ empties = 0 /\ head = None /\ line = NoCut
      /\ sent = <<>> /\ upstream = <<>> /\ Now = NewWork
  BY DEF Init, Now, NewWork, Work
<1>2. Reached(head, upstream) = <<>>
  BY <1>1 DEF Reached
<1>3. Known(kind, phase, empties, head, line, Now, sent, upstream)
  <2>1. LeftOpen(Reached(head, upstream)) = NoCut
    BY <1>2, EndedNothing
  <2>2. sent \in Seq(SseSet) /\ upstream \in Seq(ChunkSet)
    BY <1>1
  <2>3. MaxEmptyChunks \in Nat
    BY BridgeAssumption
  <2>4. Now \in Sound
    BY <1>1, NewIsSound
  <2> HIDE DEF Now
  <2> QED
    BY <1>1, <2>1, <2>2, <2>3, <2>4 DEF Known, Phases
<1>4. Tells(kind, Now, sent)
  BY <1>1, NewTells DEF Tells
<1>5. Reads(kind, phase, Now, sent, Reached(head, upstream))
  <2>1. LinesEnded(<<>>) = <<>>
    BY EndedNothing
  <2>2. Follows(kind, Now, <<>>)
    BY <1>1, NewFollows
  <2>3. Passes(sent, Now, <<>>) /\ Heard(sent \o Now.out).chunks = <<>>
    BY <1>1, NewTells DEF NothingHeard
  <2> HIDE DEF Now
  <2> QED
    BY <1>1, <1>2, <2>1, <2>2, <2>3 DEF Reads
<1> QED
  BY <1>3, <1>4, <1>5 DEF IInv, Order

\* The stream fails, or closes: what was told and read stays as it was.
LEMMA PhaseOk ==
  ASSUME NEW k, NEW p, NEW em, NEW h, NEW ln, NEW s, NEW se, NEW up, NEW q, NEW en,
         Order(k, p, em, h, ln, s, se, up), en \in 0..(MaxEmptyChunks + 1),
         \/ q \in {"rejected", "broken", "dropped"}
         \/ p = "ended" /\ q = "closed"
         \/ p = "verifying" /\ q = "verifying" /\ en <= MaxEmptyChunks
  PROVE  Order(k, q, en, h, ln, s, se, up)
<1>1. Known(k, q, en, h, ln, s, se, up)
  BY DEF Order, Known, Phases
<1>2. Reads(k, q, s, se, Reached(h, up))
  <2> DEFINE chunks == Reached(h, up)
  <2>1. Reads(k, p, s, se, chunks)
    BY DEF Order
  <2> HIDE DEF chunks
  <2>2. q \in {"verifying", "streaming"} => p \in {"verifying", "streaming"}
    OBVIOUS
  <2>3. q \in {"ended", "closed"} => p \in {"ended", "closed"}
    OBVIOUS
  <2> QED
    BY <2>1, <2>2, <2>3, Zenon DEF Reads, chunks
<1> QED
  BY <1>1, <1>2 DEF Order

\* The head is taken from the stream.
LEMMA HeadOk ==
  ASSUME NEW k, NEW em, NEW ln, NEW s, NEW se, NEW up, NEW c \in Chunks(k),
         Order(k, "verifying", em, None, ln, s, se, up), c.rest = (ln # NoCut)
  PROVE  Order(k, "streaming", 0, c, ln, s, se, <<c>>)
<1>1. Known(k, "verifying", em, None, ln, s, se, up) /\ k \in Kinds
  BY DEF Order, Known
<1>2. c \in ChunkSet /\ c # None
  BY <1>1, ChunksAssumption
<1>3. up = <<>> /\ Reached(None, up) = <<>> /\ Reached(c, <<c>>) = <<>>
  BY <1>1, <1>2 DEF Known, Reached
<1>4. ln = NoCut
  BY <1>1, <1>3, EndedNothing DEF Known
<1>5. Known(k, "streaming", 0, c, ln, s, se, <<c>>)
  <2>1. <<c>> \in Seq(ChunkSet) /\ MaxEmptyChunks \in Nat
    BY <1>2, BridgeAssumption
  <2>2. ln = LeftOpen(Reached(c, <<c>>))
    BY <1>3, <1>4, EndedNothing
  <2>3. ~c.rest
    BY <1>2, <1>4 DEF ChunkSet
  <2>4. /\ s \in Sound /\ se \in Seq(SseSet) /\ ln \in OpenSet \cup {NoCut} /\ s = NewWork /\ se = <<>>
    BY <1>1 DEF Known
  <2> QED
    BY <1>1, <2>1, <2>2, <2>3, <2>4 DEF Known, Phases
<1>6. Reads(k, "streaming", s, se, <<>>)
  <2>1. Reads(k, "verifying", s, se, <<>>)
    BY <1>3 DEF Order
  <2> QED
    BY <2>1 DEF Reads
<1>7. Tells(k, s, se)
  BY DEF Order
<1> QED
  BY <1>3, <1>5, <1>6, <1>7 DEF Order

\* What is to be told next is told.
LEMMA DeliverOk ==
  ASSUME NEW k, NEW p \in {"streaming", "ended"}, NEW em, NEW h, NEW ln, NEW d, NEW st, NEW out, NEW se, NEW up,
         Order(k, p, em, h, ln, [dec |-> d, stats |-> st, out |-> out], se, up), out # <<>>
  PROVE  Order(k, p, em, h, ln, [dec |-> d, stats |-> st, out |-> Tail(out)], Append(se, Head(out)), up)
<1> DEFINE s == [dec |-> d, stats |-> st, out |-> out]
           r == [dec |-> d, stats |-> st, out |-> Tail(out)]
           sf == Append(se, Head(out))
<1>1. /\ Known(k, p, em, h, ln, s, se, up) /\ Tells(k, s, se) /\ Reads(k, p, s, se, Reached(h, up))
      /\ s \in Sound /\ se \in Seq(SseSet) /\ s.out = out /\ s.dec = d /\ s.stats = st
  BY DEF Order, Known
<1>2. out \in Seq(SseSet) /\ d \in DecSet /\ st \in StatsSet /\ Counted(st)
  BY <1>1, SoundParts
<1>3. h = None
  <2>1. s = NewWork => out = <<>>
    BY <1>1, NewIsSound
  <2> QED
    BY <1>1, <2>1 DEF Known
<1> HIDE DEF s
<1>4. Obedient(se \o out)
  BY <1>1, BridgeAssumption DEF Tells, BridgeSet, RewriteSet, Known
<1>5. /\ Head(out) \in SseSet /\ Tail(out) \in Seq(SseSet) /\ sf \o Tail(out) = se \o out
  BY <1>1, <1>2, <1>4, SaidFirst
<1>6. sf \in Seq(SseSet)
  BY <1>1, <1>5
<1>7. r \in Sound /\ r.out = Tail(out) /\ r.dec = d /\ r.stats = st
  BY <1>2, <1>5, SoundMade
<1> HIDE DEF r, sf
<1>8. sf \o r.out = se \o s.out /\ r.dec = s.dec /\ r.stats = s.stats
  BY <1>1, <1>5, <1>7
<1>9. Known(k, p, em, h, ln, r, sf, up)
  BY <1>1, <1>3, <1>6, <1>7 DEF Known
<1>10. Tells(k, r, sf)
  <2>1. s \in BridgeSet(se) => r \in BridgeSet(sf)
    BY <1>7, <1>8 DEF BridgeSet
  <2>2. s \in RewriteSet(se) => r \in RewriteSet(sf)
    BY <1>7, <1>8 DEF RewriteSet
  <2> QED
    BY <1>1, <1>8, <2>1, <2>2 DEF Tells
<1>11. Reads(k, p, r, sf, Reached(h, up))
  <2> DEFINE chunks == Reached(h, up)
  <2>1. Reads(k, p, s, se, chunks)
    BY <1>1
  <2> HIDE DEF chunks
  <2>2. \A lines : Follows(k, s, lines) => Follows(k, r, lines)
    BY <1>8 DEF Follows
  <2>3. \A lines : Passes(se, s, lines) => Passes(sf, r, lines)
    BY <1>8 DEF Passes
  <2> QED
    BY <1>8, <2>1, <2>2, <2>3, Zenon DEF Reads, chunks
<1> QED
  BY <1>9, <1>10, <1>11 DEF Order, r, sf

\* The stream is being read and the client has read what was there.
LEMMA ReadingFacts ==
  ASSUME IInv, phase = "streaming", pending = <<>>
  PROVE  LET chunks == Reached(head, upstream)
         IN  /\ Now = Work(dec, stats) /\ Now \in Sound /\ sent \in Seq(SseSet)
             /\ kind \in Kinds /\ kind \in {"bridge", "chat", "responses"}
             /\ chunks \in Seq(ChunkSet) /\ line = LeftOpen(chunks) /\ line \in OpenSet \cup {NoCut}
             /\ LinesEnded(chunks) \in Seq(LineSet)
             /\ Tells(kind, Now, sent) /\ Reads(kind, "streaming", Now, sent, chunks)
<1> DEFINE chunks == Reached(head, upstream)
<1>1. Known(kind, phase, empties, head, line, Now, sent, upstream) /\ Tells(kind, Now, sent)
      /\ Reads(kind, "streaming", Now, sent, chunks)
  BY DEF IInv, Order
<1>2. chunks \in Seq(ChunkSet)
  <2>1. <<>> \in Seq(ChunkSet)
    OBVIOUS
  <2> QED
    BY <1>1, <2>1 DEF Known, Reached
<1>3. Now = Work(dec, stats)
  BY DEF Now, Work
<1> HIDE DEF chunks
<1>4. LinesEnded(chunks) \in Seq(LineSet)
  BY <1>2, BegunIsEnded
<1>5. /\ Now \in Sound /\ sent \in Seq(SseSet) /\ kind \in Kinds /\ line = LeftOpen(chunks)
      /\ line \in OpenSet \cup {NoCut}
  BY <1>1 DEF Known, chunks
<1> QED
  BY <1>1, <1>2, <1>3, <1>4, <1>5, BridgeAssumption DEF chunks

\* A chunk reaches the decoder.
LEMMA PushOk ==
  ASSUME IInv, phase = "streaming", pending = <<>>, NEW c \in ChunkSet, c.rest = (line # NoCut)
  PROVE  Order(kind, "streaming", empties, None, c.open, push_chunk(c), sent,
               Append(Reached(head, upstream), c))
<1> DEFINE chunks == Reached(head, upstream)
           all == Append(chunks, c)
           lines == LinesEnded(chunks)
           xs == drain_lines(c)
           w == Work(dec, stats)
           r == push_chunk(c)
<1>1. /\ w \in Sound /\ sent \in Seq(SseSet) /\ kind \in Kinds /\ kind \in {"bridge", "chat", "responses"}
      /\ chunks \in Seq(ChunkSet) /\ line = LeftOpen(chunks) /\ lines \in Seq(LineSet)
      /\ Tells(kind, w, sent) /\ Reads(kind, "streaming", w, sent, chunks)
  BY ReadingFacts
<1>2. /\ LinesEnded(all) = lines \o xs /\ xs \in Seq(LineSet) /\ LeftOpen(all) = c.open
  <2> HIDE DEF chunks
  <2> QED
    BY <1>1, EndedGrows
<1>3. all \in Seq(ChunkSet) /\ Reached(None, all) = all /\ c.open \in OpenSet \cup {NoCut}
  <2> HIDE DEF chunks
  <2> QED
    BY <1>1, ChunkFacts DEF Reached
<1>4. r \in Sound /\ Tells(kind, r, sent) /\ Reads(kind, "streaming", r, sent, all)
  <2>1. CASE kind = "bridge"
    <3>1. r = push_chunk_bridge(c)
      BY <2>1 DEF push_chunk
    <3>2. w \in BridgeSet(sent) /\ Follows(kind, w, lines)
      BY <1>1, <2>1 DEF Tells, Reads
    <3> HIDE DEF r, lines, chunks, all
    <3>3. r \in BridgeSet(sent) /\ Follows(kind, r, lines \o xs)
      BY <1>1, <1>2, <2>1, <3>1, <3>2, PushBridge
    <3>4. r \in Sound
      BY <3>3 DEF BridgeSet
    <3> QED
      BY <1>2, <2>1, <3>3, <3>4 DEF Tells, Reads
  <2>2. CASE kind = "chat"
    <3> DEFINE v == Heard(sent \o <<>>)
               x == BytesSse(c)
    <3>1. r = push_chunk_through(c)
      BY <2>2 DEF push_chunk
    <3>2. Obedient(sent \o w.out) /\ Follows(kind, w, lines) /\ Heard(sent \o w.out).chunks = chunks
      BY <1>1, <2>2 DEF Tells, Reads
    <3>3. w.out = <<>>
      BY DEF Work
    <3> HIDE DEF r, lines, chunks, w
    <3>4. r \in Sound /\ r.out = <<x>> /\ Follows(kind, r, lines \o xs)
      BY <1>1, <1>2, <2>2, <3>1, <3>2, PushThrough DEF w
    <3>5. x \in SseSet /\ x.e = "bytes" /\ x.c = c
      BY DEF BytesSse, SseSet
    <3> DEFINE e == <<>>
    <3>6. e \in Seq(SseSet) /\ Append(e, x) = <<x>> /\ Obedient(sent \o e) /\ v.chunks = chunks /\ v = Heard(sent \o e)
      BY <3>2, <3>3, <3>5
    <3> HIDE DEF x, v, e
    <3>7. /\ v \in HeardSet /\ Heard(sent \o Append(e, x)) = Hear(v, x)
          /\ Fine(v, x) => Obedient(sent \o Append(e, x))
      BY <1>1, <3>5, <3>6, Emitted
    <3>8. Fine(v, x) /\ Hear(v, x).chunks = Append(v.chunks, c)
      BY <3>5, <3>7, HearOther
    <3>9. Obedient(sent \o r.out) /\ Heard(sent \o r.out).chunks = all
      BY <3>4, <3>6, <3>7, <3>8
    <3> HIDE DEF all
    <3> QED
      BY <1>2, <2>2, <3>4, <3>9 DEF Tells, Reads
  <2>3. CASE kind = "responses"
    <3>1. r = push_chunk_rewritten(c)
      BY <2>3 DEF push_chunk
    <3>2. w \in RewriteSet(sent) /\ Passes(sent, w, lines)
      BY <1>1, <2>3 DEF Tells, Reads
    <3> HIDE DEF r, lines, chunks, all
    <3>3. r \in RewriteSet(sent) /\ Passes(sent, r, lines \o xs)
      BY <1>1, <1>2, <2>3, <3>1, <3>2, PushRewritten
    <3>4. r \in Sound
      BY <3>3 DEF RewriteSet
    <3> QED
      BY <1>2, <2>3, <3>3, <3>4 DEF Tells, Reads
  <2> QED
    BY <1>1, <2>1, <2>2, <2>3
<1>5. empties \in 0..(MaxEmptyChunks + 1)
  BY DEF IInv, Order, Known
<1> HIDE DEF r, all
<1>6. Known(kind, "streaming", empties, None, c.open, r, sent, all)
  BY <1>1, <1>2, <1>3, <1>4, <1>5 DEF Known, Phases
<1> QED
  BY <1>3, <1>4, <1>6 DEF Order, r, all

\* The stream ends.
LEMMA EndOk ==
  ASSUME IInv, phase = "streaming", pending = <<>>, head = None
  PROVE  Order(kind, "ended", empties, None, NoCut, finish, sent, upstream)
<1> DEFINE chunks == Reached(head, upstream)
           lines == LinesEnded(chunks)
           w == Work(dec, stats)
           r == finish
<1>1. /\ w \in Sound /\ sent \in Seq(SseSet) /\ kind \in Kinds /\ kind \in {"bridge", "chat", "responses"}
      /\ chunks \in Seq(ChunkSet) /\ line = LeftOpen(chunks) /\ lines \in Seq(LineSet)
      /\ line \in OpenSet \cup {NoCut}
      /\ Tells(kind, w, sent) /\ Reads(kind, "streaming", w, sent, chunks)
  BY ReadingFacts
<1>2. chunks = upstream /\ Reached(None, upstream) = upstream
  BY DEF Reached
<1>3. r \in Sound /\ Tells(kind, r, sent) /\ Reads(kind, "ended", r, sent, chunks)
  <2>1. CASE kind = "bridge"
    <3>1. r = finish_bridge
      BY <2>1 DEF finish
    <3>2. w \in BridgeSet(sent) /\ Follows(kind, w, lines)
      BY <1>1, <2>1 DEF Tells, Reads
    <3> HIDE DEF r, lines, chunks
    <3>3. r \in BridgeSet(sent) /\ r.stats.output_text = TextIn(kind, ReadOf(kind, lines, line))
      BY <1>1, <2>1, <3>1, <3>2, FinishBridge
    <3>4. r \in Sound
      BY <3>3 DEF BridgeSet
    <3> QED
      BY <1>1, <2>1, <3>3, <3>4 DEF Tells, Reads, lines
  <2>2. CASE kind = "chat"
    <3>1. r = finish_chat
      BY <2>2 DEF finish
    <3>2. Obedient(sent \o w.out) /\ Follows(kind, w, lines) /\ Heard(sent \o w.out).chunks = chunks
      BY <1>1, <2>2 DEF Tells, Reads
    <3>3. w.out = <<>>
      BY DEF Work
    <3> HIDE DEF r, lines, chunks, w
    <3>4. /\ r \in Sound /\ r.out = <<>> /\ r.stats.output_text = TextIn(kind, ReadOf(kind, lines, line))
      BY <1>1, <2>2, <3>1, <3>2, FinishChat DEF w
    <3>5. Obedient(sent \o r.out) /\ Heard(sent \o r.out).chunks = chunks
      BY <3>2, <3>3, <3>4
    <3> QED
      BY <1>1, <2>2, <3>4, <3>5 DEF Tells, Reads, lines
  <2>3. CASE kind = "responses"
    <3>1. r = finish_rewritten
      BY <2>3 DEF finish
    <3>2. w \in RewriteSet(sent) /\ Passes(sent, w, lines)
      BY <1>1, <2>3 DEF Tells, Reads
    <3> HIDE DEF r, lines, chunks
    <3>3. r \in RewriteSet(sent) /\ Passes(sent, r, AtEnd(lines, line))
      BY <1>1, <2>3, <3>1, <3>2, FinishRewritten
    <3>4. r \in Sound
      BY <3>3 DEF RewriteSet
    <3> QED
      BY <1>1, <2>3, <3>3, <3>4 DEF Tells, Reads, lines
  <2> QED
    BY <1>1, <2>1, <2>2, <2>3
<1>4. empties \in 0..(MaxEmptyChunks + 1)
  BY DEF IInv, Order, Known
<1> HIDE DEF r, chunks
<1>5. Known(kind, "ended", empties, None, NoCut, r, sent, upstream)
  BY <1>1, <1>2, <1>3, <1>4 DEF Known, Phases
<1> QED
  BY <1>2, <1>3, <1>5 DEF Order, r

\* A comment tells the client nothing.
LEMMA CommentOk ==
  ASSUME NEW said \in Seq(SseSet)
  PROVE  /\ KeepaliveSse \in SseSet /\ Append(said, KeepaliveSse) \in Seq(SseSet)
         /\ Heard(Append(said, KeepaliveSse)) = Heard(said)
         /\ Obedient(said) => Obedient(Append(said, KeepaliveSse))
         /\ AllRewritten(said) => AllRewritten(Append(said, KeepaliveSse))
<1> DEFINE x == KeepaliveSse
           v == Heard(said)
<1>1. x \in SseSet /\ x.e = "keepalive"
  BY DEF KeepaliveSse, SseSet
<1>2. v \in HeardSet /\ Heard(Append(said, x)) = Hear(v, x)
  BY <1>1, HeardBy, HeardAppend
<1> HIDE DEF x, v
<1>3. Hear(v, x) = v /\ Fine(v, x)
  BY <1>1 DEF Hear, Fine
<1>4. Obedient(said) => Obedient(Append(said, x))
  BY <1>1, <1>3, SaidOneMore DEF v
<1>5. AllRewritten(said) => AllRewritten(Append(said, x))
  BY <1>1, RewrittenMore
<1>6. Append(said, x) \in Seq(SseSet)
  BY <1>1
<1> QED
  BY <1>1, <1>2, <1>3, <1>4, <1>5, <1>6 DEF x, v

\* The comment that keeps a connection alive leaves everything in order.
LEMMA KeepaliveOk ==
  ASSUME IInv, phase = "streaming", pending = <<>>, head = None
  PROVE  Order(kind, "streaming", empties, None, line, Now, Append(sent, KeepaliveSse), upstream)
<1> DEFINE chunks == Reached(head, upstream)
           s == Now
           se == Append(sent, KeepaliveSse)
<1>1. /\ s \in Sound /\ sent \in Seq(SseSet) /\ kind \in Kinds /\ kind \in {"bridge", "chat", "responses"}
      /\ Tells(kind, s, sent) /\ Reads(kind, "streaming", s, sent, chunks)
      /\ line = LeftOpen(chunks) /\ line \in OpenSet \cup {NoCut} /\ chunks \in Seq(ChunkSet)
  BY ReadingFacts
<1>2. s.out = <<>>
  BY DEF Now
<1>3. /\ se \in Seq(SseSet) /\ Heard(se) = Heard(sent)
      /\ Obedient(sent) => Obedient(se)
      /\ AllRewritten(sent) => AllRewritten(se)
  BY <1>1, CommentOk
<1>4. sent \o s.out = sent /\ se \o s.out = se
  BY <1>1, <1>2, <1>3, ConcatEmptySeq
<1>5. chunks = upstream /\ Reached(None, upstream) = upstream
  BY DEF Reached
<1>6. empties \in 0..(MaxEmptyChunks + 1)
  BY DEF IInv, Order, Known
<1> HIDE DEF s, se, chunks
<1>7. Tells(kind, s, se)
  <2>1. s \in BridgeSet(sent) => s \in BridgeSet(se)
    BY <1>3, <1>4 DEF BridgeSet
  <2>2. s \in RewriteSet(sent) => s \in RewriteSet(se)
    BY <1>3, <1>4 DEF RewriteSet
  <2> QED
    BY <1>1, <1>3, <1>4, <2>1, <2>2 DEF Tells
<1>8. Reads(kind, "streaming", s, se, chunks)
  <2>1. \A lines : Passes(sent, s, lines) => Passes(se, s, lines)
    BY <1>3, <1>4 DEF Passes
  <2> QED
    BY <1>1, <1>3, <1>4, <2>1 DEF Reads
<1>9. Known(kind, "streaming", empties, None, line, s, se, upstream)
  BY <1>1, <1>3, <1>5, <1>6 DEF Known, Phases
<1> QED
  BY <1>5, <1>7, <1>8, <1>9 DEF Order, s, se

\* Every step keeps the invariant.
LEMMA NextOk == IInv /\ [Next]_vars => IInv'
<1> SUFFICES ASSUME IInv, [Next]_vars PROVE IInv'
  OBVIOUS
<1>1. /\ Order(kind, phase, empties, head, line, Now, sent, upstream)
      /\ empties \in 0..(MaxEmptyChunks + 1) /\ kind \in Kinds /\ MaxEmptyChunks \in Nat
      /\ head \in Chunks(kind) \cup {None}
      /\ phase = "verifying" => head = None /\ empties <= MaxEmptyChunks
      /\ head # None => upstream = <<head>> /\ ~head.rest /\ line \in OpenSet \cup {NoCut}
      /\ phase = "streaming" => line = LeftOpen(Reached(head, upstream))
  BY BridgeAssumption DEF IInv, Order, Known
<1>2. IInv' = Order(kind', phase', empties', head', line', Now', sent', upstream')
  BY DEF IInv
<1>3. Now' = [dec |-> dec', stats |-> stats', out |-> pending']
  BY DEF Now
<1>4. CASE UNCHANGED vars
  BY <1>1, <1>4 DEF vars, IInv, Now
<1>5. CASE VerifyHead
  <2>1. PICK c \in Chunks(kind) : Fits(c) /\ head' = c /\ upstream' = <<c>>
    BY <1>5 DEF VerifyHead
  <2>2. /\ phase = "verifying" /\ phase' = "streaming" /\ empties' = 0 /\ kind' = kind /\ line' = line
        /\ Now' = Now /\ sent' = sent
    BY <1>5 DEF VerifyHead, Now
  <2>3. c.rest = (line # NoCut)
    BY <2>1 DEF Fits
  <2>4. Order(kind, "verifying", empties, None, line, Now, sent, upstream)
    BY <1>1, <2>2
  <2> HIDE DEF Now
  <2>5. Order(kind, "streaming", 0, c, line, Now, sent, <<c>>)
    BY <2>3, <2>4, HeadOk, Zenon
  <2> QED
    BY <1>2, <2>1, <2>2, <2>5
<1>6. CASE VerifyEmpty
  <2>1. /\ phase = "verifying" /\ empties' = empties + 1 /\ kind' = kind /\ line' = line /\ head' = head
        /\ Now' = Now /\ sent' = sent /\ upstream' = upstream
        /\ phase' = IF empties' > MaxEmptyChunks THEN "rejected" ELSE phase
    BY <1>6 DEF VerifyEmpty, Now
  <2>2. empties' \in 0..(MaxEmptyChunks + 1)
    BY <1>1, <2>1
  <2>3. \/ phase' \in {"rejected", "broken", "dropped"}
        \/ phase = "ended" /\ phase' = "closed"
        \/ phase = "verifying" /\ phase' = "verifying" /\ empties' <= MaxEmptyChunks
    BY <1>1, <2>1
  <2>4. Order(kind, phase', empties', head, line, Now, sent, upstream)
    BY <1>1, <2>2, <2>3, PhaseOk, Zenon
  <2> QED
    BY <1>2, <2>1, <2>4
<1>7. CASE VerifyReject \/ PollError \/ Drop \/ Close
  <2>1. /\ empties' = empties /\ kind' = kind /\ line' = line /\ head' = head
        /\ Now' = Now /\ sent' = sent /\ upstream' = upstream
        /\ phase' \in {"rejected", "broken", "dropped"} \/ (phase = "ended" /\ phase' = "closed")
    BY <1>7 DEF VerifyReject, PollError, Drop, Close, Now
  <2>2. \/ phase' \in {"rejected", "broken", "dropped"}
        \/ phase = "ended" /\ phase' = "closed"
        \/ phase = "verifying" /\ phase' = "verifying" /\ empties <= MaxEmptyChunks
    BY <2>1
  <2>3. Order(kind, phase', empties, head, line, Now, sent, upstream)
    BY <1>1, <2>2, PhaseOk, Zenon
  <2> QED
    BY <1>2, <2>1, <2>3
<1>8. CASE Deliver
  <2>1. /\ phase \in {"streaming", "ended"} /\ pending # <<>> /\ sent' = Append(sent, Head(pending))
        /\ pending' = Tail(pending) /\ dec' = dec /\ stats' = stats
        /\ empties' = empties /\ kind' = kind /\ line' = line /\ head' = head
        /\ upstream' = upstream /\ phase' = phase
    BY <1>8 DEF Deliver
  <2>2. Order(kind, phase, empties, head, line, [dec |-> dec, stats |-> stats, out |-> pending], sent, upstream)
    BY <1>1 DEF Now
  <2>3. Order(kind, phase, empties, head, line, [dec |-> dec, stats |-> stats, out |-> Tail(pending)],
              Append(sent, Head(pending)), upstream)
    BY <2>1, <2>2, DeliverOk, Zenon
  <2> QED
    BY <1>2, <1>3, <2>1, <2>3
<1>9. ASSUME NEW c \in ChunkSet, Push(c), phase = "streaming", pending = <<>>, c.rest = (line # NoCut),
             upstream' = Append(Reached(head, upstream), c), head' = None,
             empties' = empties, kind' = kind, sent' = sent, phase' = phase
      PROVE  IInv'
  <2> DEFINE s == push_chunk(c)
  <2>1. dec' = s.dec /\ stats' = s.stats /\ pending' = s.out /\ line' = c.open
    BY <1>9 DEF Push
  <2> HIDE DEF s
  <2>2. Order(kind, "streaming", empties, None, c.open, s, sent, Append(Reached(head, upstream), c))
    BY <1>9, PushOk DEF s
  <2>3. s \in Sound
    BY <2>2 DEF Order, Known
  <2>4. Now' = s
    BY <1>3, <2>1, <2>3, SoundParts
  <2> HIDE DEF Now
  <2> QED
    BY <1>2, <1>9, <2>1, <2>2, <2>4
<1>10. CASE PollHead
  <2>1. /\ phase = "streaming" /\ pending = <<>> /\ head # None /\ Push(head) /\ head' = None
        /\ empties' = empties /\ kind' = kind /\ sent' = sent /\ phase' = phase /\ upstream' = upstream
    BY <1>10 DEF PollHead, Waiting
  <2>2. head \in ChunkSet /\ ~head.rest /\ upstream = <<head>> /\ Reached(head, upstream) = <<>>
    BY <1>1, <2>1, ChunksAssumption DEF Reached
  <2>3. line = NoCut
    BY <1>1, <2>1, <2>2, EndedNothing
  <2>4. upstream' = Append(Reached(head, upstream), head) /\ head.rest = (line # NoCut)
    BY <2>1, <2>2, <2>3 DEF ChunkSet
  <2> QED
    BY <1>9, <2>1, <2>2, <2>4
<1>11. CASE PollChunk
  <2>1. /\ phase = "streaming" /\ pending = <<>> /\ head = None /\ head' = head
        /\ empties' = empties /\ kind' = kind /\ sent' = sent /\ phase' = phase
    BY <1>11 DEF PollChunk, Waiting
  <2>2. PICK c \in Chunks(kind) : Fits(c) /\ Push(c) /\ upstream' = Append(upstream, c)
    BY <1>11 DEF PollChunk
  <2>3. c \in ChunkSet /\ c.rest = (line # NoCut) /\ Reached(head, upstream) = upstream
    BY <1>1, <2>1, <2>2, ChunksAssumption DEF Fits, Reached
  <2> QED
    BY <1>9, <2>1, <2>2, <2>3
<1>12. CASE PollEnd
  <2>1. /\ phase = "streaming" /\ pending = <<>> /\ head = None /\ head' = head /\ phase' = "ended"
        /\ dec' = finish.dec /\ stats' = finish.stats /\ pending' = finish.out /\ line' = NoCut
        /\ empties' = empties /\ kind' = kind /\ sent' = sent /\ upstream' = upstream
    BY <1>12 DEF PollEnd, Waiting
  <2> DEFINE s == finish
  <2>2. Order(kind, "ended", empties, None, NoCut, s, sent, upstream)
    BY <2>1, EndOk
  <2> HIDE DEF s
  <2>3. s \in Sound
    BY <2>2 DEF Order, Known
  <2>4. Now' = s
    BY <1>3, <2>1, <2>3, SoundParts DEF s
  <2> HIDE DEF Now
  <2> QED
    BY <1>2, <2>1, <2>2, <2>4
<1>13. CASE Keepalive
  <2>1. /\ phase = "streaming" /\ pending = <<>> /\ head = None /\ head' = head /\ phase' = phase
        /\ Now' = Now /\ line' = line /\ sent' = Append(sent, KeepaliveSse)
        /\ empties' = empties /\ kind' = kind /\ upstream' = upstream
    BY <1>13 DEF Keepalive, Waiting, Now
  <2>2. Order(kind, "streaming", empties, None, line, Now, Append(sent, KeepaliveSse), upstream)
    BY <2>1, KeepaliveOk
  <2> QED
    BY <1>2, <2>1, <2>2
<1> QED
  BY <1>4, <1>5, <1>6, <1>7, <1>8, <1>10, <1>11, <1>12, <1>13 DEF Next

-----------------------------------------------------------------------------
(* The theorems.                                                             *)

\* What the invariant says of a state.
LEMMA Standing ==
  ASSUME IInv
  PROVE  /\ Known(kind, phase, empties, head, line, Now, sent, upstream)
         /\ Now \in Sound /\ Now.dec = dec /\ Now.stats = stats /\ Now.out = pending
         /\ Tells(kind, Now, sent) /\ Reads(kind, phase, Now, sent, Decoded)
         /\ sent \in Seq(SseSet) /\ pending \in Seq(SseSet) /\ Said = sent \o Now.out
         /\ dec \in DecSet /\ stats \in StatsSet /\ Counted(stats)
         /\ kind \in Kinds /\ Obedient(Said)
<1>1. /\ Known(kind, phase, empties, head, line, Now, sent, upstream) /\ Tells(kind, Now, sent)
      /\ Reads(kind, phase, Now, sent, Reached(head, upstream))
  BY DEF IInv, Order
<1>2. Now \in Sound /\ sent \in Seq(SseSet) /\ kind \in Kinds
  BY <1>1 DEF Known
<1>3. Now.dec = dec /\ Now.stats = stats /\ Now.out = pending
  BY DEF Now
<1>4. pending \in Seq(SseSet) /\ dec \in DecSet /\ stats \in StatsSet /\ Counted(stats)
  <2> HIDE DEF Now
  <2> QED
    BY <1>2, <1>3, SoundParts
<1>5. Reached(head, upstream) = Decoded
  BY DEF Reached, Decoded
<1>6. Said = sent \o Now.out
  BY <1>3 DEF Said
<1> HIDE DEF Now
<1>7. Obedient(Said)
  BY <1>1, <1>2, <1>6, BridgeAssumption DEF Tells, BridgeSet, RewriteSet
<1> QED
  BY <1>1, <1>2, <1>3, <1>4, <1>5, <1>6, <1>7

\* The inductive invariant implies the type invariant.
LEMMA TypeHolds == IInv => TypeOK
<1> SUFFICES ASSUME IInv PROVE TypeOK
  OBVIOUS
<1>1. /\ Known(kind, phase, empties, head, line, Now, sent, upstream)
      /\ dec \in DecSet /\ stats \in StatsSet
  BY Standing
<1>2. /\ kind \in Kinds /\ phase \in Phases /\ empties \in 0..(MaxEmptyChunks + 1)
      /\ head \in Chunks(kind) \cup {None}
  BY <1>1 DEF Known
<1>3. /\ DOMAIN dec.tool_calls \subseteq Index /\ dec.finish_reason \in InternalFinishReason \cup {None}
      /\ dec.completed \in BOOLEAN
  BY <1>1, TableFacts DEF DecSet, Option
<1>4. /\ DOMAIN stats.tool_calls \subseteq Index /\ stats.tool_call_count \in Nat
      /\ {stats.completed, stats.final_usage_seen} \subseteq BOOLEAN
      /\ \A f \in UsageFields : stats.usage[f] \in 0..MaxI64 \cup {None}
  BY <1>1, TableFacts DEF StatsSet, Option
<1> QED
  BY <1>2, <1>3, <1>4 DEF TypeOK, Phases

\* It implies that the record is what the client was told.
LEMMA RecordHolds == IInv => RecordIsWhatWasSaid
<1> SUFFICES ASSUME IInv PROVE RecordIsWhatWasSaid
  OBVIOUS
<1> DEFINE v == Heard(Said)
<1>1. /\ Counted(stats) /\ Now.stats = stats /\ Tells(kind, Now, sent) /\ Said = sent \o Now.out
  BY Standing
<1>2. stats.tool_call_count = Cardinality({i \in DOMAIN stats.tool_calls : stats.tool_calls[i].done})
  BY <1>1 DEF Counted, DoneIn
<1>3. ASSUME kind = "bridge"
      PROVE  /\ \A i \in Index : Entry(stats.tool_calls, i).arguments = v.args[i]
             /\ stats.tool_call_count = v.closed
             /\ \A n \in DOMAIN v.outputs : v.outputs[n] = stats.response_output_items
  <2>1. Now \in BridgeSet(sent)
    BY <1>1, <1>3 DEF Tells
  <2> HIDE DEF Now
  <2>2. Over(stats, v) \/ Speaking(Now.dec, stats, v)
    BY <1>1, <2>1 DEF BridgeSet
  <2> HIDE DEF v
  <2>3. Told(stats, v) /\ (v.outputs = <<>> \/ v.outputs = <<stats.response_output_items>>)
    BY <2>2, SpeakingTold DEF Over, Speaking
  <2> QED
    BY <2>3 DEF Told
<1> QED
  BY <1>2, <1>3 DEF RecordIsWhatWasSaid

\* The lines read, as the invariant has them.
LEMMA LinesAre ==
  ASSUME IInv, Settled
  PROVE  LET lines == LinesEnded(Decoded)
             open == LeftOpen(Decoded)
         IN  /\ phase = "streaming" => LinesGiven = lines /\ LinesRead = lines
             /\ phase # "streaming" => LinesGiven = AtEnd(lines, open) /\ LinesRead = ReadOf(kind, lines, open)
<1> DEFINE lines == LinesEnded(Decoded)
           open == LeftOpen(Decoded)
<1>1. Decoded \in Seq(ChunkSet)
  <2>1. <<>> \in Seq(ChunkSet) /\ upstream \in Seq(ChunkSet)
    BY Standing DEF Known
  <2> QED
    BY <2>1 DEF Decoded
<1>2. lines \in Seq(LineSet) /\ open \in OpenSet \cup {NoCut}
  BY <1>1, BegunIsEnded
<1>3. LinesGiven = lines \o (IF phase = "streaming" \/ open = NoCut THEN <<>> ELSE <<AsItStands(open)>>)
  BY DEF LinesGiven
<1>4. LinesRead = IF phase = "streaming" \/ (kind = "bridge" /\ open = NoCut) THEN LinesGiven
                  ELSE Append(LinesGiven, Blank)
  BY DEF LinesRead
<1> HIDE DEF lines, open
<1>5. CASE phase = "streaming"
  BY <1>2, <1>3, <1>4, <1>5, ConcatEmptySeq DEF lines
<1>6. CASE phase # "streaming"
  <2>1. LinesGiven = AtEnd(lines, open)
    BY <1>3, <1>6 DEF AtEnd
  <2> QED
    BY <1>4, <1>6, <2>1 DEF ReadOf, lines, open
<1> QED
  BY <1>5, <1>6

\* It implies that the text is what upstream sent.
LEMMA TextHolds == IInv => TextIsWhatUpstreamSent
<1> SUFFICES ASSUME IInv, kind \in {"bridge", "chat"}, Settled
             PROVE  /\ stats.output_text = TextIn(kind, LinesRead)
                    /\ kind = "bridge" => Heard(Said).text = TextIn(kind, LinesRead)
  BY DEF TextIsWhatUpstreamSent
<1>1. /\ Now.stats = stats /\ Tells(kind, Now, sent) /\ Said = sent \o Now.out
      /\ Reads(kind, phase, Now, sent, Decoded)
  BY Standing
<1>2. stats.output_text = TextIn(kind, LinesRead)
  <2> HIDE DEF Now
  <2>1. CASE phase = "streaming"
    <3>1. Follows(kind, Now, LinesEnded(Decoded))
      BY <1>1, <2>1 DEF Reads
    <3> QED
      BY <1>1, <2>1, <3>1, LinesAre DEF Follows
  <2>2. CASE phase # "streaming"
    <3>1. phase \in {"ended", "closed"}
      BY <2>2 DEF Settled
    <3>2. Now.stats.output_text = TextIn(kind, ReadOf(kind, LinesEnded(Decoded), LeftOpen(Decoded)))
      BY <1>1, <3>1 DEF Reads
    <3> QED
      BY <1>1, <2>2, <3>2, LinesAre
  <2> QED
    BY <2>1, <2>2
<1>3. ASSUME kind = "bridge" PROVE Heard(Said).text = stats.output_text
  <2>1. Now \in BridgeSet(sent)
    BY <1>1, <1>3 DEF Tells
  <2> HIDE DEF Now
  <2>2. Over(stats, Heard(Said)) \/ Speaking(Now.dec, stats, Heard(Said))
    BY <1>1, <2>1 DEF BridgeSet
  <2> QED
    BY <2>2, SpeakingTold DEF Over, Told
<1> QED
  BY <1>2, <1>3

\* It implies that every byte is passed on.
LEMMA BytesHold == IInv => BytesArePassedOn
<1> SUFFICES ASSUME IInv PROVE BytesArePassedOn
  OBVIOUS
<1>1. /\ Now.dec = dec /\ Tells(kind, Now, sent) /\ Said = sent \o Now.out
      /\ Reads(kind, phase, Now, sent, Decoded)
      /\ Known(kind, phase, empties, head, line, Now, sent, upstream)
  BY Standing
<1>2. ASSUME kind = "chat" PROVE Heard(Said).chunks \o SomeSeq(head, LAMBDA c : c) = upstream
  <2>1. Heard(Said).chunks = Decoded
    <3> HIDE DEF Now
    <3> QED
      BY <1>1, <1>2 DEF Reads
  <2>2. CASE head = None
    <3>1. SomeSeq(head, LAMBDA c : c) = <<>> /\ Decoded = upstream /\ upstream \in Seq(ChunkSet)
      BY <1>1, <2>2 DEF SomeSeq, Decoded, Known
    <3> QED
      BY <2>1, <3>1, ConcatEmptySeq
  <2>3. CASE head # None
    <3>1. SomeSeq(head, LAMBDA c : c) = <<head>> /\ Decoded = <<>> /\ upstream = <<head>> /\ upstream \in Seq(ChunkSet)
      BY <1>1, <2>3 DEF SomeSeq, Decoded, Known
    <3> QED
      BY <2>1, <3>1, ConcatEmptySeq
  <2> QED
    BY <2>2, <2>3
<1>3. ASSUME kind = "responses", Settled
      PROVE  Anonymous(Heard(Said).lines \o dec.event_buffer) = Anonymous(LinesGiven)
  <2> HIDE DEF Now
  <2>1. CASE phase = "streaming"
    <3>1. Passes(sent, Now, LinesEnded(Decoded))
      BY <1>1, <1>3, <2>1 DEF Reads
    <3> QED
      BY <1>1, <1>3, <2>1, <3>1, LinesAre DEF Passes
  <2>2. CASE phase # "streaming"
    <3>1. phase \in {"ended", "closed"}
      BY <1>3, <2>2 DEF Settled
    <3>2. Passes(sent, Now, AtEnd(LinesEnded(Decoded), LeftOpen(Decoded)))
      BY <1>1, <1>3, <3>1 DEF Reads
    <3> QED
      BY <1>1, <1>3, <2>2, <3>2, LinesAre DEF Passes
  <2> QED
    BY <2>1, <2>2
<1>4. ASSUME kind = "responses"
      PROVE  \A n \in DOMAIN Said : Said[n].e = "event" => Said[n].lines = rewrite_event(Said[n].lines)
  <2> HIDE DEF Now
  <2>1. AllRewritten(Said)
    BY <1>1, <1>4 DEF Tells, RewriteSet
  <2> QED
    BY <2>1 DEF AllRewritten
<1> QED
  BY <1>2, <1>3, <1>4 DEF BytesArePassedOn

\* The inductive invariant holds in every state.
THEOREM InvariantHolds == Spec => []IInv
<1> QED
  BY InitOk, NextOk, PTL DEF Spec

\* Types hold, and no token count that does not fit its column is ever recorded
\* (u64_to_i64), for every upstream that sends lines of these shapes.
THEOREM TypeCorrect == Spec => []TypeOK
BY InvariantHolds, TypeHolds, PTL

\* However the chunks are cut and wherever the stream ends, the text recorded is the
\* text of the events the upstream sent, and the client of the bridge is given that
\* text (flush_event, record_event, drain_lines).
THEOREM TextReachesRecordAndClient == Spec => []TextIsWhatUpstreamSent
BY InvariantHolds, TextHolds, PTL

\* What is recorded of a bridged stream is what its client was told, and a call is
\* counted once (record_done, finish_response, record_response_id).
THEOREM RecordAgreesWithClient == Spec => []RecordIsWhatWasSaid
BY InvariantHolds, RecordHolds, PTL

\* The upstream's own bytes are all passed on, in order, but for the ids of responses
\* (upstream_bytes_stream, ResponseIdRewriter).
THEOREM EveryByteIsPassedOn == Spec => []BytesArePassedOn
BY InvariantHolds, BytesHold, PTL

-----------------------------------------------------------------------------
(* The refinement.                                                           *)

\* The stream fails, closes or goes on with nothing told.
LEMMA SilentStep ==
  ASSUME Heard(sent') = Heard(sent),
         \/ phase' = phase \/ phase' \in {"rejected", "broken", "dropped"}
         \/ {phase, phase'} \cap {"rejected", "broken", "dropped"} = {}
  PROVE  Contract!Fail \/ UNCHANGED Contract!vars
<1>1. CASE Outcome' = Outcome
  BY <1>1 DEF Contract!vars
<1>2. CASE Outcome' # Outcome
  <2>1. Outcome = "open" /\ Outcome' = "failed"
    BY <1>2 DEF Outcome
  <2>2. Contract!Fail
    BY <2>1 DEF Contract!Fail
  <2> QED
    BY <2>2
<1> QED
  BY <1>1, <1>2

\* One event is told.
LEMMA ToldStep ==
  ASSUME NEW x \in SseSet, sent \in Seq(SseSet), sent' = Append(sent, x), Fine(Heard(sent), x),
         phase \in {"streaming", "ended"}, phase' = phase
  PROVE  [Contract!Next]_(Contract!vars)
<1> DEFINE v == Heard(sent)
           r == Heard(sent')
<1>1. v \in HeardSet /\ r = Hear(v, x)
  BY HeardBy, HeardAppend
<1>2. /\ Outcome = v.outcome
      /\ Outcome' = r.outcome
  BY DEF Outcome
<1>3. x.e \in {"text", "added", "delta", "stated", "closed", "completed", "keepalive", "bytes", "event"}
  BY DEF SseSet
<1>4. x.e \in {"text", "added", "delta", "stated", "closed", "completed"} => v.outcome = "open"
  BY DEF Fine
<1>5. CASE x.e = "text"
  <2>1. /\ r.text = v.text \o x.d /\ r.item = v.item /\ r.args = v.args /\ r.outcome = v.outcome
    <3> HIDE DEF v, r
    <3>1. LET z == Hear(v, x)
          IN  z.text = v.text \o x.d /\ z.item = v.item /\ z.args = v.args /\ z.outcome = v.outcome
      BY <1>1, <1>5, HearText, Zenon
    <3> QED
      BY <1>1, <3>1, Zenon
  <2>2. x.d \in Texts
    BY <1>5 DEF SseSet
  <2>3. Contract!Say
    <3>1. \E piece \in Texts : r.text = v.text \o piece
      BY <2>1, <2>2, Zenon
    <3>2. Outcome = "open" /\ Outcome' = Outcome
      BY <1>2, <1>4, <1>5, <2>1
    <3> QED
      BY <2>1, <3>1, <3>2, Zenon DEF Contract!Say
  <2> QED
    BY <2>3 DEF Contract!Next
<1>6. CASE x.e = "delta"
  <2>1. /\ r.args = [v.args EXCEPT ![x.i] = v.args[x.i] \o x.d]
        /\ r.item = v.item /\ r.text = v.text /\ r.outcome = v.outcome
    <3> HIDE DEF v, r
    <3>1. LET z == Hear(v, x)
          IN  /\ z.args = [v.args EXCEPT ![x.i] = v.args[x.i] \o x.d]
              /\ z.item = v.item /\ z.text = v.text /\ z.outcome = v.outcome
      BY <1>1, <1>6, HearDelta, Zenon
    <3> QED
      BY <1>1, <3>1, Zenon
  <2>2. x.d \in Texts /\ x.i \in Index /\ v.item[x.i] = "announced"
    BY <1>6 DEF SseSet, Fine
  <2>3. Contract!Extend(x.i)
    <3>1. \E piece \in Texts : r.args = [v.args EXCEPT ![x.i] = v.args[x.i] \o piece]
      BY <2>1, <2>2, Zenon
    <3>2. Outcome = "open" /\ Outcome' = Outcome
      BY <1>2, <1>4, <1>6, <2>1
    <3> QED
      BY <2>1, <2>2, <3>1, <3>2, Zenon DEF Contract!Extend
  <2> QED
    BY <2>2, <2>3 DEF Contract!Next
<1>7. CASE x.e \in {"added", "stated", "closed"}
  <2>1. x.i \in Index
    BY <1>7 DEF SseSet
  <2>2. /\ r.item = [v.item EXCEPT ![x.i] = IF x.e = "added" THEN "announced" ELSE x.e]
        /\ r.args = v.args /\ r.text = v.text /\ r.outcome = v.outcome
    BY <1>1, <1>7, <2>1, HearStage
  <2>3. v.item[x.i] = IF x.e = "added" THEN "none" ELSE IF x.e = "stated" THEN "announced" ELSE "stated"
    BY <1>7 DEF Fine
  <2>4. x.e = "added" => Contract!Announce(x.i)
    BY <1>2, <1>4, <2>2, <2>3 DEF Contract!Announce
  <2>5. x.e = "stated" => Contract!State(x.i)
    BY <1>2, <1>4, <2>2, <2>3 DEF Contract!State
  <2>6. x.e = "closed" => Contract!Close(x.i)
    BY <1>2, <1>4, <2>2, <2>3 DEF Contract!Close
  <2> QED
    BY <1>7, <2>1, <2>4, <2>5, <2>6 DEF Contract!Next
<1>8. CASE x.e = "completed"
  <2>1. /\ r.outcome = "completed" /\ r.item = v.item /\ r.args = v.args /\ r.text = v.text
    BY <1>1, <1>8, HearCompleted
  <2>2. \A i \in Index : v.item[i] \in {"none", "closed"}
    BY <1>8 DEF Fine
  <2>3. Contract!Complete
    BY <1>2, <1>4, <1>8, <2>1, <2>2 DEF Contract!Complete
  <2> QED
    BY <2>3 DEF Contract!Next
<1>9. CASE x.e \notin {"text", "added", "delta", "stated", "closed", "completed"}
  <2>1. /\ r.item = v.item /\ r.args = v.args /\ r.text = v.text /\ r.outcome = v.outcome
    BY <1>1, <1>9, HearOther
  <2> QED
    BY <1>2, <2>1 DEF Contract!vars
<1> QED
  BY <1>3, <1>5, <1>6, <1>7, <1>8, <1>9

\* Every step of the stream is a step of the contract, or tells the client nothing.
LEMMA StepKeepsContract == IInv /\ [Next]_vars => [Contract!Next]_(Contract!vars)
<1> SUFFICES ASSUME IInv, [Next]_vars PROVE [Contract!Next]_(Contract!vars)
  OBVIOUS
<1>1. sent \in Seq(SseSet) /\ pending \in Seq(SseSet) /\ Obedient(sent \o pending)
  BY Standing DEF Said
<1>2. CASE Deliver
  <2>1. /\ pending # <<>> /\ sent' = Append(sent, Head(pending)) /\ phase \in {"streaming", "ended"}
        /\ phase' = phase
    BY <1>2 DEF Deliver
  <2>2. Fine(Heard(sent), Head(pending)) /\ Head(pending) \in SseSet
    BY <1>1, <2>1, SaidFirst
  <2> QED
    BY <1>1, <2>1, <2>2, ToldStep
<1>3. CASE Keepalive
  <2>1. /\ sent' = Append(sent, KeepaliveSse) /\ phase \in {"streaming", "ended"} /\ phase' = phase
    BY <1>3 DEF Keepalive, Waiting
  <2>2. Heard(sent') = Heard(sent)
    BY <1>1, <2>1, CommentOk
  <2> QED
    BY <2>1, <2>2, SilentStep DEF Contract!Next
<1>4. CASE UNCHANGED vars
  BY <1>4, SilentStep DEF vars, Contract!Next
<1>5. CASE VerifyHead \/ VerifyEmpty \/ VerifyReject \/ PollHead \/ PollChunk \/ PollEnd \/ PollError \/ Close \/ Drop
  <2>1. sent' = sent
    BY <1>5 DEF VerifyHead, VerifyEmpty, VerifyReject, PollHead, PollChunk, PollEnd, PollError, Close, Drop
  <2>2. \/ phase' = phase \/ phase' \in {"rejected", "broken", "dropped"}
        \/ {phase, phase'} \cap {"rejected", "broken", "dropped"} = {}
    BY <1>5 DEF VerifyHead, VerifyEmpty, VerifyReject, PollHead, PollChunk, PollEnd, PollError, Close, Drop, Waiting
  <2> QED
    BY <2>1, <2>2, SilentStep DEF Contract!Next
<1> QED
  BY <1>2, <1>3, <1>4, <1>5 DEF Next

\* A stream begins as the contract says.
LEMMA InitKeepsContract == Init => Contract!Init
<1> SUFFICES ASSUME Init PROVE Contract!Init
  OBVIOUS
<1>1. Heard(sent) = NothingHeard /\ phase = "verifying"
  BY HeardNothing DEF Init
<1>2. NothingHeard.outcome = "open"
  BY DEF NothingHeard
<1>3. Outcome = "open"
  BY <1>1, <1>2 DEF Outcome
<1> QED
  BY <1>1, <1>3 DEF Contract!Init, NothingHeard

\* The stream implements the contract of a Responses event stream: whatever the
\* upstream sends, however it is cut and wherever it stops, a call is announced
\* before its arguments, the arguments add up to those stated, every call announced
\* is closed once before the response completes, and nothing follows
\* (ChatToResponsesSseDecoder).
THEOREM StreamKeepsContract == Spec => KeepsContract
<1>1. Init => Contract!Init
  BY InitKeepsContract
<1>2. IInv /\ [Next]_vars => [Contract!Next]_(Contract!vars)
  BY StepKeepsContract
<1> QED
  BY <1>1, <1>2, InvariantHolds, PTL DEF Spec, KeepsContract, Contract!Spec

=============================================================================
