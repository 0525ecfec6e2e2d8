-------------------------- MODULE Failover_proofs --------------------------
(***************************************************************************)
(* Proofs about Failover for every set of providers and requests, every    *)
(* retry and candidate limit and every cooldown.  The first part is about  *)
(* the sequences of candidates: what Keep returns and what the ordering    *)
(* steps do to a list without repetitions.  The second part is about the   *)
(* request loop.                                                           *)
(***************************************************************************)
EXTENDS Failover, Induction, FiniteSetTheorems, TLAPS

-----------------------------------------------------------------------------
(* Sequences without repetitions.                                            *)

Distinct(s) == \A i, j \in DOMAIN s : s[i] = s[j] => i = j

\* f is the table that Keep fills in for the first n items of s.
Scan(s, T, f, n) ==
    f = [i \in 0..n |->
           IF i = 0 THEN <<>>
           ELSE IF s[i] \in T THEN Append(f[i - 1], s[i]) ELSE f[i - 1]]

\* Keep's recursion over the positions of s is well founded: the table exists.
LEMMA ScanExists ==
  ASSUME NEW S, NEW s \in Seq(S), NEW T
  PROVE  \A n \in Nat : \E f : Scan(s, T, f, n)
<1> DEFINE Ok == {n \in Nat : \E f : Scan(s, T, f, n)}
<1>1. 0 \in Ok
  <2> DEFINE f == [i \in 0..0 |-> <<>>]
  <2>1. Scan(s, T, f, 0)
    BY DEF Scan
  <2> QED
    BY <2>1
<1>2. ASSUME NEW n \in Nat, n \in Ok PROVE n + 1 \in Ok
  <2>1. PICK f : Scan(s, T, f, n)
    BY <1>2
  <2> DEFINE g == [i \in 0..(n + 1) |->
                     IF i <= n THEN f[i]
                     ELSE IF s[n + 1] \in T THEN Append(f[n], s[n + 1]) ELSE f[n]]
  <2>2. \A i \in 0..n : f[i] = IF i = 0 THEN <<>>
              ELSE IF s[i] \in T THEN Append(f[i - 1], s[i]) ELSE f[i - 1]
    BY <2>1 DEF Scan
  <2>3. Scan(s, T, g, n + 1)
    <3> SUFFICES ASSUME NEW i \in 0..(n + 1)
                 PROVE  g[i] = IF i = 0 THEN <<>>
                          ELSE IF s[i] \in T THEN Append(g[i - 1], s[i])
                          ELSE g[i - 1]
      BY DEF Scan
    <3>1. CASE i = n + 1
      <4>1. i # 0 /\ i - 1 = n /\ g[i - 1] = f[n] /\ ~(i <= n)
        BY <3>1
      <4> QED
        BY <3>1, <4>1
    <3>2. CASE i = 0
      BY <3>2, <2>2
    <3>3. CASE i \in 1..n
      <4>1. i - 1 \in 0..n /\ i \in 0..n /\ i <= n /\ i - 1 <= n /\ i # 0
        BY <3>3
      <4>2. g[i] = f[i] /\ g[i - 1] = f[i - 1]
        BY <4>1
      <4> QED
        BY <4>1, <4>2, <2>2
    <3> QED
      BY <3>1, <3>2, <3>3
  <2> QED
    BY <2>3
<1> HIDE DEF Ok
<1>3. \A n \in Nat : n \in Ok
  BY <1>1, <1>2, SetInduction
<1> QED
  BY <1>3 DEF Ok

\* Appending an item that was not there keeps a sequence free of repetitions.
LEMMA AppendDistinct ==
  ASSUME NEW S, NEW s \in Seq(S), NEW x \in S
  PROVE  /\ Append(s, x) \in Seq(S)
         /\ Members(Append(s, x)) = Members(s) \cup {x}
         /\ Distinct(s) /\ x \notin Members(s) => Distinct(Append(s, x))
<1>1. /\ Append(s, x) \in Seq(S) /\ Len(s) \in Nat /\ DOMAIN s = 1..Len(s)
      /\ DOMAIN Append(s, x) = 1..(Len(s) + 1)
      /\ \A i \in 1..Len(s) : Append(s, x)[i] = s[i]
      /\ Append(s, x)[Len(s) + 1] = x
  OBVIOUS
<1>2. \A i \in 1..(Len(s) + 1) : i \in 1..Len(s) \/ i = Len(s) + 1
  BY <1>1
<1>3. \A i \in 1..Len(s) : i \in 1..(Len(s) + 1)
  BY <1>1
<1>4. Len(s) + 1 \in 1..(Len(s) + 1)
  BY <1>1
<1>5. Members(Append(s, x)) = Members(s) \cup {x}
  BY <1>1, <1>2, <1>3, <1>4 DEF Members
<1>6. Distinct(s) /\ x \notin Members(s) => Distinct(Append(s, x))
  BY <1>1, <1>2 DEF Members, Distinct
<1> QED
  BY <1>1, <1>5, <1>6

\* What the filters of load_protocol_models and select_candidates return: the
\* items of s that lie in T, all of them, and none twice if s has none twice.
LEMMA KeepFacts ==
  ASSUME NEW S, NEW s \in Seq(S), NEW T
  PROVE  /\ Keep(s, T) \in Seq(S)
         /\ Members(Keep(s, T)) = Members(s) \cap T
         /\ Distinct(s) => Distinct(Keep(s, T))
<1> DEFINE f == CHOOSE g : Scan(s, T, g, Len(s))
<1>1. Len(s) \in Nat /\ DOMAIN s = 1..Len(s) /\ \A i \in 1..Len(s) : s[i] \in S
  OBVIOUS
<1>2. Scan(s, T, f, Len(s))
  BY <1>1, ScanExists
<1>3. Keep(s, T) = f[Len(s)]
  BY DEF Keep, Scan
<1> DEFINE Upto(n) == {s[i] : i \in 1..n}
           Good(n) == /\ f[n] \in Seq(S)
                      /\ Members(f[n]) = Upto(n) \cap T
                      /\ Distinct(s) => Distinct(f[n])
           Ok == {n \in Nat : n <= Len(s) => Good(n)}
<1>4. \A i \in 0..Len(s) : f[i] = IF i = 0 THEN <<>>
              ELSE IF s[i] \in T THEN Append(f[i - 1], s[i]) ELSE f[i - 1]
  <2> HIDE DEF f
  <2> QED
    BY <1>2 DEF Scan
<1> HIDE DEF f
<1>5. 0 \in Ok
  <2>1. f[0] = <<>>
    BY <1>1, <1>4
  <2>2. /\ <<>> \in Seq(S) /\ Members(<<>>) = {} /\ Distinct(<<>>)
        /\ Upto(0) = {}
    BY DEF Members, Distinct
  <2> QED
    BY <2>1, <2>2
<1>6. ASSUME NEW n \in Nat, n \in Ok PROVE n + 1 \in Ok
  <2> SUFFICES ASSUME n + 1 <= Len(s) PROVE Good(n + 1)
    OBVIOUS
  <2>1. Good(n)
    BY <1>1, <1>6
  <2>2. /\ n + 1 \in 0..Len(s) /\ n + 1 # 0 /\ (n + 1) - 1 = n
        /\ n + 1 \in 1..Len(s) /\ n + 1 \in DOMAIN s /\ s[n + 1] \in S
        /\ \A i \in 1..n : i \in DOMAIN s /\ i # n + 1
    BY <1>1
  <2>3. Upto(n + 1) = Upto(n) \cup {s[n + 1]}
    BY <2>2
  <2>4. CASE s[n + 1] \in T
    <3>1. f[n + 1] = Append(f[n], s[n + 1])
      BY <1>4, <2>2, <2>4
    <3>2. Distinct(s) => s[n + 1] \notin Members(f[n])
      BY <2>1, <2>2 DEF Distinct
    <3> QED
      BY <2>1, <2>2, <2>3, <2>4, <3>1, <3>2, AppendDistinct
  <2>5. CASE s[n + 1] \notin T
    <3>1. f[n + 1] = f[n]
      BY <1>4, <2>2, <2>5
    <3> QED
      BY <2>1, <2>3, <2>5, <3>1
  <2> QED
    BY <2>4, <2>5
<1>7. \A n \in Nat : n \in Ok
  <2> HIDE DEF Ok
  <2> QED
    BY <1>5, <1>6, SetInduction
<1>8. Good(Len(s))
  <2> HIDE DEF Good
  <2>1. Len(s) <= Len(s)
    BY <1>1
  <2>2. Len(s) \in Ok
    <3> HIDE DEF Ok
    <3> QED
      BY <1>1, <1>7
  <2> QED
    BY <2>1, <2>2
<1>9. Upto(Len(s)) = Members(s)
  BY <1>1 DEF Members
<1> QED
  BY <1>3, <1>8, <1>9

\* Joining two sequences without repetitions and without a common item.
LEMMA ConcatDistinct ==
  ASSUME NEW S, NEW s \in Seq(S), NEW t \in Seq(S)
  PROVE  /\ s \o t \in Seq(S)
         /\ Len(s \o t) = Len(s) + Len(t)
         /\ Members(s \o t) = Members(s) \cup Members(t)
         /\ Distinct(s) /\ Distinct(t) /\ Members(s) \cap Members(t) = {}
              => Distinct(s \o t)
<1>1. /\ s \o t \in Seq(S) /\ Len(s \o t) = Len(s) + Len(t)
      /\ DOMAIN (s \o t) = 1..(Len(s) + Len(t))
      /\ DOMAIN s = 1..Len(s) /\ DOMAIN t = 1..Len(t)
      /\ Len(s) \in Nat /\ Len(t) \in Nat
  OBVIOUS
<1>2. /\ \A i \in 1..Len(s) : (s \o t)[i] = s[i]
      /\ \A i \in 1..Len(t) : (s \o t)[Len(s) + i] = t[i]
  OBVIOUS
<1>3. \A i \in 1..(Len(s) + Len(t)) :
        i \in 1..Len(s) \/ (i - Len(s) \in 1..Len(t) /\ i = Len(s) + (i - Len(s)))
  BY <1>1
<1>4. \A i \in 1..(Len(s) + Len(t)) :
         \/ i \in 1..Len(s) /\ (s \o t)[i] = s[i]
         \/ i - Len(s) \in 1..Len(t) /\ (s \o t)[i] = t[i - Len(s)]
  BY <1>2, <1>3
<1>5. Members(s \o t) = Members(s) \cup Members(t)
  <2>1. ASSUME NEW x \in Members(s \o t) PROVE x \in Members(s) \cup Members(t)
    BY <1>1, <1>4 DEF Members
  <2>2. ASSUME NEW x \in Members(s) PROVE x \in Members(s \o t)
    <3>1. PICK i \in 1..Len(s) : x = s[i]
      BY <1>1 DEF Members
    <3>2. i \in 1..(Len(s) + Len(t))
      BY <1>1
    <3> QED
      BY <1>1, <1>2, <3>1, <3>2 DEF Members
  <2>3. ASSUME NEW x \in Members(t) PROVE x \in Members(s \o t)
    <3>1. PICK i \in 1..Len(t) : x = t[i]
      BY <1>1 DEF Members
    <3>2. Len(s) + i \in 1..(Len(s) + Len(t))
      BY <1>1
    <3> QED
      BY <1>1, <1>2, <3>1, <3>2 DEF Members
  <2> QED
    BY <2>1, <2>2, <2>3
<1>6. ASSUME Distinct(s), Distinct(t), Members(s) \cap Members(t) = {}
      PROVE  Distinct(s \o t)
  <2> SUFFICES ASSUME NEW i \in 1..(Len(s) + Len(t)),
                      NEW j \in 1..(Len(s) + Len(t)),
                      (s \o t)[i] = (s \o t)[j]
               PROVE  i = j
    BY <1>1 DEF Distinct
  <2>1. CASE i \in 1..Len(s) /\ j \in 1..Len(s)
    BY <1>1, <1>2, <1>6, <2>1 DEF Distinct
  <2>2. CASE i - Len(s) \in 1..Len(t) /\ j - Len(s) \in 1..Len(t)
    <3>1. t[i - Len(s)] = t[j - Len(s)]
      BY <1>1, <1>2, <1>3, <2>2
    <3>2. i - Len(s) = j - Len(s)
      BY <1>1, <1>6, <2>2, <3>1 DEF Distinct
    <3> QED
      BY <1>1, <3>2
  <2>3. CASE i \in 1..Len(s) /\ j - Len(s) \in 1..Len(t)
    <3>1. s[i] = t[j - Len(s)]
      BY <1>1, <1>2, <1>3, <2>3
    <3> QED
      BY <1>1, <1>6, <2>3, <3>1 DEF Members
  <2>4. CASE i - Len(s) \in 1..Len(t) /\ j \in 1..Len(s)
    <3>1. s[j] = t[i - Len(s)]
      BY <1>1, <1>2, <1>3, <2>4
    <3> QED
      BY <1>1, <1>6, <2>4, <3>1 DEF Members
  <2> QED
    BY <1>3, <2>1, <2>2, <2>3, <2>4
<1> QED
  BY <1>1, <1>5, <1>6

\* A sequence without repetitions is as long as the set of its items.
LEMMA DistinctCardinality ==
  ASSUME NEW S, NEW s \in Seq(S), Distinct(s)
  PROVE  IsFiniteSet(Members(s)) /\ Cardinality(Members(s)) = Len(s)
<1>1. Len(s) \in Nat /\ DOMAIN s = 1..Len(s)
  OBVIOUS
<1>2. IsFiniteSet(1..Len(s)) /\ Cardinality(1..Len(s)) = Len(s)
  BY <1>1, FS_Interval
<1>3. s \in Bijection(1..Len(s), Members(s))
  BY <1>1 DEF Bijection, Injection, IsInjective, Surjection, Distinct, Members
<1>4. ExistsBijection(1..Len(s), Members(s))
  BY <1>3 DEF ExistsBijection
<1> QED
  BY <1>2, <1>4, FS_Bijection

\* Dropping the head of a sequence without repetitions.
LEMMA TailDistinct ==
  ASSUME NEW S, NEW s \in Seq(S), s # <<>>
  PROVE  /\ Tail(s) \in Seq(S) /\ Head(s) \in S
         /\ Len(Tail(s)) = Len(s) - 1 /\ (Len(s) > 1 => Tail(s) # <<>>)
         /\ Members(s) = Members(Tail(s)) \cup {Head(s)}
         /\ Distinct(s) => Distinct(Tail(s)) /\ Head(s) \notin Members(Tail(s))
<1>1. /\ Tail(s) \in Seq(S) /\ Head(s) \in S /\ Head(s) = s[1]
      /\ Len(s) \in Nat \ {0} /\ DOMAIN s = 1..Len(s)
      /\ Len(Tail(s)) = Len(s) - 1
      /\ DOMAIN Tail(s) = 1..(Len(s) - 1)
      /\ \A i \in 1..(Len(s) - 1) : Tail(s)[i] = s[i + 1]
  OBVIOUS
<1>2. \A i \in 1..Len(s) : i = 1 \/ (i - 1 \in 1..(Len(s) - 1) /\ i = (i - 1) + 1)
  BY <1>1
<1>3. /\ 1 \in 1..Len(s)
      /\ \A i \in 1..(Len(s) - 1) : i + 1 \in 1..Len(s) /\ i + 1 # 1
  BY <1>1
<1>4. Members(s) = Members(Tail(s)) \cup {Head(s)}
  <2>1. ASSUME NEW x \in Members(s) PROVE x \in Members(Tail(s)) \cup {Head(s)}
    <3>1. PICK i \in 1..Len(s) : x = s[i]
      BY <1>1 DEF Members
    <3>2. CASE i = 1
      BY <1>1, <3>1, <3>2
    <3>3. CASE i # 1
      <4>1. i - 1 \in DOMAIN Tail(s) /\ Tail(s)[i - 1] = s[i]
        BY <1>1, <1>2, <3>3
      <4> QED
        BY <3>1, <4>1 DEF Members
    <3> QED
      BY <3>2, <3>3
  <2>2. ASSUME NEW x \in Members(Tail(s)) PROVE x \in Members(s)
    <3>1. PICK i \in 1..(Len(s) - 1) : x = s[i + 1]
      BY <1>1 DEF Members
    <3> QED
      BY <1>1, <1>3, <3>1 DEF Members
  <2>3. Head(s) \in Members(s)
    BY <1>1, <1>3 DEF Members
  <2> QED
    BY <2>1, <2>2, <2>3
<1>5. ASSUME Distinct(s)
      PROVE  Distinct(Tail(s)) /\ Head(s) \notin Members(Tail(s))
  <2>1. ASSUME NEW i \in 1..(Len(s) - 1), NEW j \in 1..(Len(s) - 1),
               Tail(s)[i] = Tail(s)[j]
        PROVE  i = j
    <3>1. i + 1 = j + 1
      BY <1>1, <1>3, <1>5, <2>1 DEF Distinct
    <3> QED
      BY <3>1
  <2>2. Head(s) \notin Members(Tail(s))
    BY <1>1, <1>3, <1>5 DEF Distinct, Members
  <2> QED
    BY <1>1, <2>1, <2>2 DEF Distinct
<1>6. Len(s) > 1 => Tail(s) # <<>>
  <2>1. Len(s) > 1 => 1 \in 1..(Len(s) - 1)
    BY <1>1
  <2>2. DOMAIN <<>> = {}
    OBVIOUS
  <2>3. Len(s) > 1 => DOMAIN Tail(s) # {}
    BY <1>1, <2>1
  <2> QED
    BY <2>2, <2>3
<1> QED
  BY <1>1, <1>4, <1>5, <1>6

\* A prefix of a sequence without repetitions has none.
LEMMA PrefixDistinct ==
  ASSUME NEW S, NEW s \in Seq(S), NEW n \in 0..Len(s)
  PROVE  /\ SubSeq(s, 1, n) \in Seq(S)
         /\ Len(SubSeq(s, 1, n)) = n
         /\ Distinct(s) => Distinct(SubSeq(s, 1, n))
<1>1. /\ SubSeq(s, 1, n) \in Seq(S) /\ Len(SubSeq(s, 1, n)) = n
      /\ DOMAIN SubSeq(s, 1, n) = 1..n
      /\ \A i \in 1..n : SubSeq(s, 1, n)[i] = s[i]
  OBVIOUS
<1>2. \A i \in 1..n : i \in DOMAIN s
  OBVIOUS
<1> QED
  BY <1>1, <1>2 DEF Distinct

-----------------------------------------------------------------------------
(* The ordering of the candidates.                                           *)

\* The sort by latency neither loses a candidate nor doubles one.
LEMMA SortByLatencyFacts ==
  ASSUME NEW s \in Seq(Provider), latency \in [Provider -> LatencyClass]
  PROVE  /\ SortByLatency(s) \in Seq(Provider)
         /\ Members(SortByLatency(s)) = Members(s)
         /\ Distinct(s) => Distinct(SortByLatency(s))
<1> DEFINE Class(c) == {p \in Provider : latency[p] = c}
           Of(c) == Keep(s, Class(c))
<1>1. \A c : /\ Of(c) \in Seq(Provider)
             /\ Members(Of(c)) = Members(s) \cap Class(c)
             /\ Distinct(s) => Distinct(Of(c))
  BY KeepFacts
<1>2. SortByLatency(s) = Of("fast") \o Of("slow") \o Of("unknown")
  BY DEF SortByLatency
<1>3. Members(s) \subseteq Provider
  BY DEF Members
<1>4. Members(s) \subseteq Class("fast") \cup Class("slow") \cup Class("unknown")
  BY <1>3 DEF LatencyClass
<1>5. /\ Class("fast") \cap Class("slow") = {}
      /\ (Class("fast") \cup Class("slow")) \cap Class("unknown") = {}
  OBVIOUS
<1> DEFINE two == Of("fast") \o Of("slow")
<1> HIDE DEF Of, Class
<1>6. /\ two \in Seq(Provider)
      /\ Members(two) = Members(s) \cap (Class("fast") \cup Class("slow"))
      /\ Distinct(s) => Distinct(two)
  BY <1>1, <1>5, ConcatDistinct
<1> HIDE DEF two
<1>7. /\ two \o Of("unknown") \in Seq(Provider)
      /\ Members(two \o Of("unknown")) = Members(s)
      /\ Distinct(s) => Distinct(two \o Of("unknown"))
  <2>1. /\ two \o Of("unknown") \in Seq(Provider)
        /\ Members(two \o Of("unknown")) = Members(two) \cup Members(Of("unknown"))
        /\ Distinct(two) /\ Distinct(Of("unknown"))
              /\ Members(two) \cap Members(Of("unknown")) = {}
              => Distinct(two \o Of("unknown"))
    BY <1>1, <1>6, ConcatDistinct
  <2>2. Members(two) \cup Members(Of("unknown")) = Members(s)
    BY <1>1, <1>4, <1>6
  <2>3. Members(two) \cap Members(Of("unknown")) = {}
    BY <1>1, <1>5, <1>6
  <2> QED
    BY <1>1, <1>6, <2>1, <2>2, <2>3
<1> QED
  BY <1>2, <1>7 DEF two

\* Neither does select_candidates, whether the remembered provider is among
\* the candidates or not.
LEMMA SelectCandidatesFacts ==
  ASSUME NEW s \in Seq(Provider), latency \in [Provider -> LatencyClass]
  PROVE  /\ select_candidates(s) \in Seq(Provider)
         /\ Members(select_candidates(s)) = Members(s)
         /\ Distinct(s) => Distinct(select_candidates(s))
<1>1. CASE Len(s) < 2
  BY <1>1 DEF select_candidates
<1>2. CASE ~(Len(s) < 2) /\ \E i \in DOMAIN s : s[i] = route
  <2> DEFINE others == Keep(s, Provider \ {route})
  <2>1. route \in Members(s) /\ Members(s) \subseteq Provider
    BY <1>2 DEF Members
  <2>2. /\ others \in Seq(Provider)
        /\ Members(others) = Members(s) \ {route}
        /\ Distinct(s) => Distinct(others)
    BY <2>1, KeepFacts
  <2>3. select_candidates(s) = <<route>> \o SortByLatency(others)
    BY <1>2 DEF select_candidates
  <2> HIDE DEF others
  <2>4. /\ SortByLatency(others) \in Seq(Provider)
        /\ Members(SortByLatency(others)) = Members(s) \ {route}
        /\ Distinct(s) => Distinct(SortByLatency(others))
    BY <2>2, SortByLatencyFacts
  <2>5. /\ <<route>> \in Seq(Provider) /\ Members(<<route>>) = {route}
        /\ Distinct(<<route>>)
    BY <2>1 DEF Members, Distinct
  <2> DEFINE sorted == SortByLatency(others)
             first == <<route>>
  <2> HIDE DEF sorted, first
  <2>6. /\ first \o sorted \in Seq(Provider)
        /\ Members(first \o sorted) = Members(first) \cup Members(sorted)
        /\ Distinct(first) /\ Distinct(sorted)
              /\ Members(first) \cap Members(sorted) = {}
              => Distinct(first \o sorted)
    <3>1. first \in Seq(Provider) /\ sorted \in Seq(Provider)
      BY <2>4, <2>5 DEF first, sorted
    <3> QED
      BY <3>1, ConcatDistinct
  <2>7. /\ Members(first) \cup Members(sorted) = Members(s)
        /\ Members(first) \cap Members(sorted) = {}
    BY <2>1, <2>4, <2>5 DEF first, sorted
  <2> QED
    BY <2>3, <2>4, <2>5, <2>6, <2>7 DEF first, sorted
<1>3. CASE ~(Len(s) < 2) /\ ~\E i \in DOMAIN s : s[i] = route
  <2>1. select_candidates(s) = SortByLatency(s)
    BY <1>3 DEF select_candidates
  <2> QED
    BY <2>1, SortByLatencyFacts
<1> QED
  BY <1>1, <1>2, <1>3

-----------------------------------------------------------------------------
(* Type correctness.                                                         *)

\* A cleared entry is a legal one.
LEMMA NoRestType ==
  ASSUME FailoverAssumption PROVE NoRest \in Rest
  BY DEF FailoverAssumption, NoRest, Rest, ConsecutiveCap

\* The entry FailoverRegistry::rest leaves is within MAX_REST, and the counter
\* within the point where the backoff stops growing.
LEMMA RestType ==
  ASSUME FailoverAssumption, rests \in [Provider -> Rest],
         NEW p \in Provider, NEW e \in Failure
  PROVE  rest(p, rest_base(e)) \in Rest
<1> DEFINE c == IF rests[p].left > 0
                  THEN Least(rests[p].consecutive + 1, ConsecutiveCap) ELSE 1
           base == rest_base(e)
<1>1. c \in 1..11
  BY DEF Rest, Least, ConsecutiveCap
<1>2. base \in Nat
  BY DEF rest_base, FailoverAssumption, Failure
<1>3. BackoffFactor[c] \in Nat
  <2> HIDE DEF c
  <2> QED
    BY <1>1 DEF BackoffFactor
<1>4. MaxRest \in Nat
  BY DEF FailoverAssumption
<1>5. rest(p, base) = [left |-> Least(base * BackoffFactor[c], MaxRest),
                       consecutive |-> c]
  BY DEF rest
<1> HIDE DEF c, base
<1>6. base * BackoffFactor[c] \in Nat
  BY <1>2, <1>3
<1>7. Least(base * BackoffFactor[c], MaxRest) \in 0..MaxRest
  BY <1>4, <1>6 DEF Least
<1>8. rest(p, base) \in Rest
  BY <1>1, <1>5, <1>7 DEF Rest, ConsecutiveCap
<1> QED
  BY <1>8 DEF base

-----------------------------------------------------------------------------
(* The inductive invariant.                                                  *)

\* The rows a request read, each once, at least one.
CandidatesKept(r) ==
    /\ Distinct(cands[r])
    /\ Members(cands[r]) = loaded[r]
    /\ loaded[r] # {}

\* order_candidates has split them into three lists without a common member.
CandidatesSplit(r) ==
    /\ Distinct(todo[r]) /\ Distinct(ready[r]) /\ Distinct(resting[r])
    /\ Members(todo[r]) \cap Members(ready[r]) = {}
    /\ Members(todo[r]) \cap Members(resting[r]) = {}
    /\ Members(ready[r]) \cap Members(resting[r]) = {}
    /\ Members(todo[r]) \cup Members(ready[r]) \cup Members(resting[r]) = loaded[r]

\* The providers given up and those still queued are different ones, and
\* together as many as the request may try.
TriesAccounted(r) ==
    /\ queue[r] # <<>>
    /\ Distinct(queue[r])
    /\ IsFiniteSet(failed[r])
    /\ Members(queue[r]) \cap failed[r] = {}
    /\ Cardinality(failed[r]) + Len(queue[r]) =
          Least(Cardinality(loaded[r]), max_candidates)

RequestInv(r) ==
    /\ pc[r] # "done" => result[r] = "none"
    /\ pc[r] \in {"idle", "selecting", "ordering"} => failed[r] = {}
    /\ pc[r] \in {"idle", "selecting"} => ready[r] = <<>> /\ resting[r] = <<>>
    /\ pc[r] \in Active => CandidatesKept(r)
    /\ pc[r] = "ordering" => CandidatesSplit(r)
    /\ pc[r] \in {"trying", "remembering"} => TriesAccounted(r)
    /\ result[r] = "upstream" =>
          Cardinality(failed[r]) = Least(Cardinality(loaded[r]), max_candidates)

\* Every request's part of the invariant.
FailoverInv == \A r \in Request : RequestInv(r)

Inv == TypeOK /\ FailoverInv

\* A configuration that was loaded and no request yet: nothing can be wrong.
LEMMA InitInv ==
  ASSUME FailoverAssumption, Init
  PROVE  Inv
<1>1. TypeOK
  BY DEF Init, TypeOK, FailoverAssumption, NoRest, Rest, ConsecutiveCap,
         LatencyClass, Outcome
<1>2. FailoverInv
  BY DEF Init, FailoverInv, RequestInv, Active
<1> QED
  BY <1>1, <1>2 DEF Inv

\* While a request is trying, the provider it tries is one of the candidates.
LEMMA HeadIsProvider ==
  ASSUME Inv, NEW r \in Request, pc[r] \in {"trying", "remembering"}
  PROVE  /\ queue[r] \in Seq(Provider) /\ queue[r] # <<>>
         /\ Head(queue[r]) \in Provider /\ Tail(queue[r]) \in Seq(Provider)
<1>1. queue[r] # <<>>
  BY DEF Inv, FailoverInv, RequestInv, TriesAccounted
<1>2. queue[r] \in Seq(Provider)
  BY DEF Inv, TypeOK
<1> QED
  BY <1>1, <1>2, TailDistinct

\* How a request ends, for the types of what it leaves.
LEMMA FinishType ==
  ASSUME TypeOK, NEW r \in Request, NEW how \in Outcome, Finish(r, how)
  PROVE  /\ pc' \in [Request -> Active \cup {"idle", "done"}]
         /\ cands' \in [Request -> Seq(Provider)]
         /\ todo' \in [Request -> Seq(Provider)]
         /\ ready' \in [Request -> Seq(Provider)]
         /\ resting' \in [Request -> Seq(Provider)]
         /\ queue' \in [Request -> Seq(Provider)]
         /\ result' \in [Request -> Outcome]
         /\ lastError' \in [Request -> Failure \cup {"none"}]
  BY DEF Finish, TypeOK

\* A request that ends keeps the count of its retries within the bound.
LEMMA FinishAttempt ==
  ASSUME FailoverAssumption, TypeOK, NEW r \in Request, NEW how, Finish(r, how)
  PROVE  attempt' \in [Request -> 0..MaxRetries]
  BY DEF Finish, TypeOK, FailoverAssumption

\* Every step keeps every variable within its type.
LEMMA TypeStep ==
  ASSUME FailoverAssumption, Inv, [Next]_vars
  PROVE  TypeOK'
<1> USE DEF configVars, requestVars, historyVars
<1>0. TypeOK
  BY DEF Inv
<1>1. ASSUME NEW r \in Request, LoadModels(r) PROVE TypeOK'
  <2> DEFINE found == Keep(models, usable)
  <2>1. models \in Seq(Provider)
    BY <1>0 DEF TypeOK, FailoverAssumption
  <2>2. found \in Seq(Provider) /\ Members(found) \subseteq Provider
    <3>1. Members(models) \subseteq Provider
      BY <2>1 DEF Members
    <3> QED
      BY <2>1, <3>1, KeepFacts
  <2> HIDE DEF found
  <2>4. loaded' = [loaded EXCEPT ![r] = Members(found)]
    BY <1>1 DEF LoadModels, found
  <2>5. loaded' \in [Request -> SUBSET Provider]
    BY <1>0, <2>2, <2>4 DEF TypeOK
  <2>6. CASE /\ pc' = [pc EXCEPT ![r] = "selecting"]
             /\ cands' = [cands EXCEPT ![r] = found]
             /\ UNCHANGED <<todo, ready, resting, queue, attempt, lastError, result>>
    BY <1>0, <1>1, <2>2, <2>5, <2>6 DEF TypeOK, LoadModels, Active
  <2>7. CASE Finish(r, "no_candidate")
    BY <1>0, <1>1, <2>5, <2>7, FinishType, FinishAttempt
       DEF TypeOK, LoadModels, Outcome
  <2> QED
    BY <1>1, <2>6, <2>7 DEF LoadModels, found
<1>2. ASSUME NEW r \in Request, SelectCandidates(r) PROVE TypeOK'
  <2>1. select_candidates(cands[r]) \in Seq(Provider)
    BY <1>0, SelectCandidatesFacts DEF TypeOK
  <2> QED
    BY <1>0, <1>2, <2>1 DEF TypeOK, SelectCandidates, Active
<1>3. ASSUME NEW r \in Request, ClassifyCandidate(r) PROVE TypeOK'
  <2>1. todo[r] \in Seq(Provider) /\ todo[r] # <<>>
    BY <1>0, <1>3 DEF TypeOK, ClassifyCandidate
  <2>2. Head(todo[r]) \in Provider /\ Tail(todo[r]) \in Seq(Provider)
    BY <2>1, TailDistinct
  <2>3. todo' \in [Request -> Seq(Provider)]
    BY <1>0, <1>3, <2>2 DEF TypeOK, ClassifyCandidate
  <2>4. /\ Append(ready[r], Head(todo[r])) \in Seq(Provider)
        /\ Append(resting[r], Head(todo[r])) \in Seq(Provider)
    BY <1>0, <2>2, AppendDistinct DEF TypeOK
  <2>5. \/ /\ resting' = [resting EXCEPT ![r] = Append(resting[r], Head(todo[r]))]
           /\ ready' = ready /\ rests' = rests
        \/ /\ ready' = [ready EXCEPT ![r] = Append(ready[r], Head(todo[r]))]
           /\ resting' = resting
           /\ rests' = [rests EXCEPT ![Head(todo[r])] = NoRest]
    BY <1>3 DEF ClassifyCandidate
  <2>6. /\ ready' \in [Request -> Seq(Provider)]
        /\ resting' \in [Request -> Seq(Provider)]
        /\ rests' \in [Provider -> Rest]
    <3>1. NoRest \in Rest
      BY NoRestType
    <3>2. /\ ready \in [Request -> Seq(Provider)]
          /\ resting \in [Request -> Seq(Provider)]
          /\ rests \in [Provider -> Rest]
      BY <1>0 DEF TypeOK
    <3>3. /\ [ready EXCEPT ![r] = Append(ready[r], Head(todo[r]))] \in [Request -> Seq(Provider)]
          /\ [resting EXCEPT ![r] = Append(resting[r], Head(todo[r]))] \in [Request -> Seq(Provider)]
          /\ [rests EXCEPT ![Head(todo[r])] = NoRest] \in [Provider -> Rest]
      BY <2>4, <3>1, <3>2, Updated
    <3> DEFINE lists == [Request -> Seq(Provider)]
               ready1 == [ready EXCEPT ![r] = Append(ready[r], Head(todo[r]))]
               resting1 == [resting EXCEPT ![r] = Append(resting[r], Head(todo[r]))]
               rests1 == [rests EXCEPT ![Head(todo[r])] = NoRest]
               table == [Provider -> Rest]
    <3>4. /\ {ready, ready1, resting, resting1} \subseteq lists /\ {rests, rests1} \subseteq table
          /\ ready' \in {ready, ready1} /\ resting' \in {resting, resting1}
          /\ rests' \in {rests, rests1}
      BY <2>5, <3>2, <3>3, Zenon
    <3> HIDE DEF lists, ready1, resting1, rests1, table
    <3>5. ready' \in lists /\ resting' \in lists /\ rests' \in table
      BY <3>4
    <3> QED
      BY <3>5 DEF lists, table
  <2> QED
    BY <1>0, <1>3, <2>3, <2>6 DEF TypeOK, ClassifyCandidate
<1>4. ASSUME NEW r \in Request, BeginLoop(r) PROVE TypeOK'
  <2> DEFINE n == Least(Len(Order(r)), max_candidates)
  <2>1. Order(r) \in Seq(Provider)
    BY <1>0 DEF TypeOK, Order
  <2>2. n \in 0..Len(Order(r))
    BY <1>0, <2>1 DEF TypeOK, Least, FailoverAssumption
  <2>3. SubSeq(Order(r), 1, n) \in Seq(Provider)
    BY <2>1, <2>2, PrefixDistinct
  <2>4. queue' \in [Request -> Seq(Provider)]
    BY <1>0, <1>4, <2>3 DEF TypeOK, BeginLoop
  <2> QED
    BY <1>0, <1>4, <2>4 DEF TypeOK, BeginLoop, Active
<1>5. ASSUME NEW r \in Request, AttemptOk(r) PROVE TypeOK'
  <2>1. Head(queue[r]) \in Provider
    BY <1>5, HeadIsProvider DEF AttemptOk
  <2>2. rests' \in [Provider -> Rest] /\ answered' \subseteq Provider
    BY <1>0, <1>5, <2>1, NoRestType DEF TypeOK, AttemptOk
  <2> QED
    BY <1>0, <1>5, <2>2 DEF TypeOK, AttemptOk, Active
<1>6. ASSUME NEW r \in Request, NEW e \in Failure, AttemptRetry(r, e)
      PROVE  TypeOK'
  <2>1. attempt' \in [Request -> 0..MaxRetries]
    BY <1>0, <1>6 DEF TypeOK, AttemptRetry, MayRetry, FailoverAssumption
  <2> QED
    BY <1>0, <1>6, <2>1 DEF TypeOK, AttemptRetry
<1>7. ASSUME NEW r \in Request, NEW e \in Failure, AttemptFailover(r, e)
      PROVE  TypeOK'
  <2>1. Head(queue[r]) \in Provider /\ Tail(queue[r]) \in Seq(Provider)
    BY <1>7, HeadIsProvider DEF AttemptFailover
  <2>2. rest(Head(queue[r]), rest_base(e)) \in Rest
    BY <1>0, <2>1, RestType DEF TypeOK
  <2>3. rests' \in [Provider -> Rest]
    BY <1>0, <1>7, <2>1, <2>2 DEF TypeOK, AttemptFailover
  <2>4. failed' \in [Request -> SUBSET Provider]
    BY <1>0, <1>7, <2>1 DEF TypeOK, AttemptFailover
  <2>7. transient' \in [Request -> BOOLEAN]
    <3>1. (transient[r] /\ is_retryable_upstream(e)) \in BOOLEAN
      OBVIOUS
    <3>2. transient' = [transient EXCEPT ![r] = transient[r] /\ is_retryable_upstream(e)]
      BY <1>7 DEF AttemptFailover
    <3> QED
      BY <1>0, <3>1, <3>2, Zenon DEF TypeOK
  <2>5. CASE /\ lastError' = [lastError EXCEPT ![r] = e]
             /\ queue' = [queue EXCEPT ![r] = Tail(@)]
             /\ attempt' = [attempt EXCEPT ![r] = 0]
             /\ UNCHANGED <<pc, cands, todo, ready, resting, result>>
    BY <1>0, <1>7, <2>1, <2>3, <2>4, <2>5, <2>7
       DEF TypeOK, AttemptFailover, FailoverAssumption
  <2>6. CASE Finish(r, "upstream")
    BY <1>0, <1>7, <2>3, <2>4, <2>6, <2>7, FinishType, FinishAttempt
       DEF TypeOK, AttemptFailover, Outcome
  <2> QED
    BY <1>7, <2>5, <2>6 DEF AttemptFailover
<1>8. ASSUME NEW r \in Request, NEW e \in Failure, AttemptAbort(r, e)
      PROVE  TypeOK'
  <2>1. /\ loaded' \in [Request -> SUBSET Provider]
        /\ failed' \in [Request -> SUBSET Provider]
        /\ transient' \in [Request -> BOOLEAN]
    BY <1>0, <1>8 DEF TypeOK, AttemptAbort, Forget
  <2> QED
    BY <1>0, <1>8, <2>1, FinishType, FinishAttempt DEF TypeOK, AttemptAbort, Outcome
<1>16. ASSUME NEW r \in Request, LoadFails(r) PROVE TypeOK'
  <2>1. /\ loaded' \in [Request -> SUBSET Provider]
        /\ failed' \in [Request -> SUBSET Provider]
        /\ transient' \in [Request -> BOOLEAN]
    BY <1>0, <1>16 DEF TypeOK, LoadFails, Forget
  <2> QED
    BY <1>0, <1>16, <2>1, FinishType, FinishAttempt DEF TypeOK, LoadFails, Outcome
<1>9. ASSUME NEW r \in Request, RememberProvider(r) PROVE TypeOK'
  <2>1. /\ loaded' \in [Request -> SUBSET Provider]
        /\ failed' \in [Request -> SUBSET Provider]
        /\ transient' \in [Request -> BOOLEAN]
    BY <1>0, <1>9 DEF TypeOK, RememberProvider, Forget
  <2>2. route' \in Provider \cup {NoProvider}
    BY <1>0, <1>9, HeadIsProvider DEF TypeOK, RememberProvider
  <2> QED
    BY <1>0, <1>9, <2>1, <2>2, FinishType, FinishAttempt
       DEF TypeOK, RememberProvider, Outcome
<1>10. ASSUME NEW r \in Request, Cancel(r) PROVE TypeOK'
  <2>1. /\ loaded' \in [Request -> SUBSET Provider]
        /\ failed' \in [Request -> SUBSET Provider]
        /\ transient' \in [Request -> BOOLEAN]
    BY <1>0, <1>10 DEF TypeOK, Cancel, Forget
  <2> QED
    BY <1>0, <1>10, <2>1, FinishType, FinishAttempt DEF TypeOK, Cancel, Outcome
<1>11. CASE ReplaceModels
  BY <1>0, <1>11 DEF TypeOK, ReplaceModels, Change, FailoverAssumption
<1>12. ASSUME NEW p \in Provider, ChangeVisibility(p) PROVE TypeOK'
  BY <1>0, <1>12 DEF TypeOK, ChangeVisibility, Change, FailoverAssumption
<1>13. ASSUME NEW p \in Provider, RecordLatency(p) PROVE TypeOK'
  BY <1>0, <1>13 DEF TypeOK, RecordLatency, Change, FailoverAssumption
<1>14. CASE Tick
  <2>1. rests' \in [Provider -> Rest]
    <3> SUFFICES ASSUME NEW p \in Provider PROVE rests'[p] \in Rest
      BY <1>14 DEF Tick
    <3>1. rests[p] \in Rest
      BY <1>0 DEF TypeOK
    <3>2. rests'[p] = IF rests[p].left > 0 THEN [rests[p] EXCEPT !.left = @ - 1]
                                          ELSE rests[p]
      BY <1>14 DEF Tick
    <3> QED
      BY <3>1, <3>2 DEF Rest, FailoverAssumption
  <2> QED
    BY <1>0, <1>14, <2>1 DEF TypeOK, Tick
<1>15. CASE UNCHANGED vars
  BY <1>0, <1>15 DEF TypeOK, vars
<1> QED
  BY <1>1, <1>2, <1>3, <1>4, <1>5, <1>6, <1>7, <1>8, <1>9, <1>10, <1>11, <1>12,
     <1>13, <1>14, <1>15, <1>16 DEF Next, Step

\* What a request's part of the invariant is about.
SameRequest(q) ==
    /\ pc'[q] = pc[q] /\ result'[q] = result[q]
    /\ cands'[q] = cands[q] /\ todo'[q] = todo[q]
    /\ ready'[q] = ready[q] /\ resting'[q] = resting[q] /\ queue'[q] = queue[q]
    /\ loaded'[q] = loaded[q] /\ failed'[q] = failed[q]

\* A step that leaves a request and the candidate limit alone keeps its part.
LEMMA Frame ==
  ASSUME NEW q, RequestInv(q), SameRequest(q), max_candidates' = max_candidates
  PROVE  RequestInv(q)'
  BY DEF RequestInv, SameRequest, CandidatesKept, CandidatesSplit, TriesAccounted

\* A request that ends in anything but an upstream error owes nothing.
LEMMA FinishInv ==
  ASSUME TypeOK, NEW r \in Request, NEW how, how # "upstream", Finish(r, how)
  PROVE  RequestInv(r)'
<1>1. pc'[r] = "done" /\ result'[r] = how
  BY DEF Finish, TypeOK
<1> QED
  BY <1>1 DEF RequestInv, Active

\* A request that ends leaves every other request as it is.
LEMMA FinishFrame ==
  ASSUME TypeOK, NEW r \in Request, NEW how, Finish(r, how), Forget(r),
         NEW q \in Request, q # r
  PROVE  SameRequest(q)
  BY DEF Finish, Forget, SameRequest, TypeOK

\* LoadModels: the rows read are kept in order, each once.
LEMMA LoadModelsInv ==
  ASSUME FailoverAssumption, Inv, NEW r \in Request, LoadModels(r)
  PROVE  FailoverInv'
<1> USE DEF configVars
<1>0. TypeOK /\ RequestInv(r) /\ \A q \in Request : RequestInv(q)
  BY DEF Inv, FailoverInv
<1> DEFINE found == Keep(models, usable)
<1>1. models \in Seq(Provider) /\ Distinct(models)
  BY <1>0 DEF TypeOK, FailoverAssumption, Distinct
<1>2. found \in Seq(Provider) /\ Distinct(found)
  BY <1>1, KeepFacts
<1> HIDE DEF found
<1>3. /\ pc[r] = "idle" /\ loaded' = [loaded EXCEPT ![r] = Members(found)]
      /\ max_candidates' = max_candidates /\ failed' = failed
  BY DEF LoadModels, found
<1>4. \/ /\ found # <<>>
         /\ pc' = [pc EXCEPT ![r] = "selecting"]
         /\ cands' = [cands EXCEPT ![r] = found]
         /\ UNCHANGED <<todo, ready, resting, queue, attempt, lastError, result>>
      \/ Finish(r, "no_candidate")
  BY DEF LoadModels, found
<1>5. RequestInv(r)'
  <2>1. CASE Finish(r, "no_candidate")
    BY <1>0, <2>1, FinishInv
  <2>2. CASE ~Finish(r, "no_candidate")
    <3>1. /\ pc'[r] = "selecting" /\ cands'[r] = found
          /\ loaded'[r] = Members(found) /\ result'[r] = result[r]
          /\ ready'[r] = ready[r] /\ resting'[r] = resting[r]
          /\ failed'[r] = failed[r]
      BY <1>0, <1>3, <1>4, <2>2 DEF TypeOK
    <3>2. Members(found) # {}
      <4>1. found # <<>>
        BY <1>4, <2>2
      <4>2. Head(found) \in Members(found)
        BY <1>2, <4>1, TailDistinct
      <4> QED
        BY <4>2
    <3>3. CandidatesKept(r)'
      BY <1>2, <3>1, <3>2 DEF CandidatesKept
    <3>4. result[r] = "none" /\ failed[r] = {} /\ ready[r] = <<>> /\ resting[r] = <<>>
      BY <1>0, <1>3 DEF RequestInv
    <3> QED
      BY <3>1, <3>3, <3>4 DEF RequestInv, Active
  <2> QED
    BY <2>1, <2>2
<1>6. ASSUME NEW q \in Request, q # r PROVE SameRequest(q)
  BY <1>0, <1>3, <1>4, <1>6 DEF SameRequest, TypeOK, Finish
<1> QED
  BY <1>0, <1>3, <1>5, <1>6, Frame DEF FailoverInv

\* SelectCandidates: the reordering loses and doubles nothing.
LEMMA SelectCandidatesInv ==
  ASSUME Inv, NEW r \in Request, SelectCandidates(r)
  PROVE  FailoverInv'
<1> USE DEF configVars, historyVars
<1>0. TypeOK /\ RequestInv(r) /\ \A q \in Request : RequestInv(q)
  BY DEF Inv, FailoverInv
<1> DEFINE ordered == select_candidates(cands[r])
<1>1. /\ cands[r] \in Seq(Provider) /\ CandidatesKept(r)
      /\ result[r] = "none" /\ failed[r] = {} /\ ready[r] = <<>> /\ resting[r] = <<>>
  BY <1>0 DEF TypeOK, RequestInv, Active, SelectCandidates
<1>2. Distinct(ordered) /\ Members(ordered) = loaded[r] /\ loaded[r] # {}
  BY <1>0, <1>1, SelectCandidatesFacts DEF CandidatesKept, TypeOK
<1>3. /\ pc'[r] = "ordering" /\ cands'[r] = ordered /\ todo'[r] = ordered
      /\ ready'[r] = <<>> /\ resting'[r] = <<>> /\ loaded'[r] = loaded[r]
      /\ failed'[r] = {} /\ result'[r] = "none"
  BY <1>0, <1>1 DEF SelectCandidates, TypeOK
<1> HIDE DEF ordered
<1>4. CandidatesKept(r)'
  BY <1>2, <1>3 DEF CandidatesKept
<1>5. CandidatesSplit(r)'
  <2>1. Members(<<>>) = {} /\ Distinct(<<>>)
    BY DEF Members, Distinct
  <2> QED
    BY <1>2, <1>3, <2>1 DEF CandidatesSplit
<1>6. RequestInv(r)'
  BY <1>3, <1>4, <1>5 DEF RequestInv, Active
<1>7. /\ \A q \in Request : q # r => SameRequest(q)
      /\ max_candidates' = max_candidates
  BY <1>0 DEF SelectCandidates, SameRequest, TypeOK
<1> QED
  BY <1>0, <1>6, <1>7, Frame DEF FailoverInv

\* ClassifyCandidate: one candidate goes from todo to ready or to resting.
LEMMA ClassifyCandidateInv ==
  ASSUME Inv, NEW r \in Request, ClassifyCandidate(r)
  PROVE  FailoverInv'
<1> USE DEF configVars, historyVars
<1>0. TypeOK /\ RequestInv(r) /\ \A q \in Request : RequestInv(q)
  BY DEF Inv, FailoverInv
<1> DEFINE p == Head(todo[r])
<1>1. /\ todo[r] \in Seq(Provider) /\ todo[r] # <<>>
      /\ ready[r] \in Seq(Provider) /\ resting[r] \in Seq(Provider)
      /\ pc[r] = "ordering" /\ CandidatesSplit(r) /\ CandidatesKept(r)
      /\ result[r] = "none" /\ failed[r] = {}
  BY <1>0 DEF TypeOK, ClassifyCandidate, RequestInv, Active
<1>2. /\ p \in Provider /\ Members(todo[r]) = Members(Tail(todo[r])) \cup {p}
      /\ Distinct(Tail(todo[r])) /\ p \notin Members(Tail(todo[r]))
  BY <1>1, TailDistinct DEF CandidatesSplit
<1>3. p \notin Members(ready[r]) /\ p \notin Members(resting[r])
  BY <1>1, <1>2 DEF CandidatesSplit
<1>4. /\ Members(Append(ready[r], p)) = Members(ready[r]) \cup {p}
      /\ Distinct(Append(ready[r], p))
      /\ Members(Append(resting[r], p)) = Members(resting[r]) \cup {p}
      /\ Distinct(Append(resting[r], p))
  BY <1>1, <1>2, <1>3, AppendDistinct DEF CandidatesSplit
<1>5. /\ todo'[r] = Tail(todo[r])
      /\ \/ resting'[r] = Append(resting[r], p) /\ ready'[r] = ready[r]
         \/ ready'[r] = Append(ready[r], p) /\ resting'[r] = resting[r]
  BY <1>0 DEF ClassifyCandidate, TypeOK
<1>6. /\ cands'[r] = cands[r] /\ loaded'[r] = loaded[r]
      /\ failed'[r] = failed[r] /\ result'[r] = result[r]
  BY DEF ClassifyCandidate
<1>7. CandidatesSplit(r)'
  <2> HIDE DEF p
  <2>1. /\ Distinct(ready[r]) /\ Distinct(resting[r])
        /\ Members(todo[r]) \cap Members(ready[r]) = {}
        /\ Members(todo[r]) \cap Members(resting[r]) = {}
        /\ Members(ready[r]) \cap Members(resting[r]) = {}
        /\ Members(todo[r]) \cup Members(ready[r]) \cup Members(resting[r]) = loaded[r]
    BY <1>1 DEF CandidatesSplit
  <2>2. CASE resting'[r] = Append(resting[r], p) /\ ready'[r] = ready[r]
    BY <1>2, <1>3, <1>4, <1>5, <1>6, <2>1, <2>2 DEF CandidatesSplit
  <2>3. CASE ready'[r] = Append(ready[r], p) /\ resting'[r] = resting[r]
    BY <1>2, <1>3, <1>4, <1>5, <1>6, <2>1, <2>3 DEF CandidatesSplit
  <2> QED
    BY <1>5, <2>2, <2>3
<1>8. RequestInv(r)'
  <2>1. pc'[r] = "ordering"
    BY <1>1 DEF ClassifyCandidate
  <2>2. CandidatesKept(r)'
    BY <1>1, <1>6 DEF CandidatesKept
  <2> QED
    BY <1>1, <1>6, <1>7, <2>1, <2>2 DEF RequestInv, Active
<1>9. /\ \A q \in Request : q # r => SameRequest(q)
      /\ max_candidates' = max_candidates
  BY <1>0 DEF ClassifyCandidate, SameRequest, TypeOK
<1> QED
  BY <1>0, <1>8, <1>9, Frame DEF FailoverInv

\* BeginLoop: the queue is a prefix, without repetitions, of all candidates.
LEMMA BeginLoopInv ==
  ASSUME FailoverAssumption, Inv, NEW r \in Request, BeginLoop(r)
  PROVE  FailoverInv'
<1> USE DEF configVars, historyVars
<1>0. TypeOK /\ RequestInv(r) /\ \A q \in Request : RequestInv(q)
  BY DEF Inv, FailoverInv
<1> DEFINE order == Order(r)
           n == Least(Len(order), max_candidates)
<1>1. /\ ready[r] \in Seq(Provider) /\ resting[r] \in Seq(Provider)
      /\ todo[r] = <<>> /\ CandidatesSplit(r) /\ CandidatesKept(r)
      /\ result[r] = "none" /\ failed[r] = {}
  BY <1>0 DEF TypeOK, BeginLoop, RequestInv, Active
<1>2. order \in Seq(Provider) /\ Distinct(order) /\ Members(order) = loaded[r]
  <2>1. Members(todo[r]) = {}
    BY <1>1 DEF Members
  <2>2. /\ ready[r] \o resting[r] \in Seq(Provider)
        /\ Members(ready[r] \o resting[r]) = Members(ready[r]) \cup Members(resting[r])
        /\ Distinct(ready[r] \o resting[r])
    BY <1>1, ConcatDistinct DEF CandidatesSplit
  <2> QED
    BY <1>1, <2>1, <2>2 DEF CandidatesSplit, Order
<1> HIDE DEF order
<1>3. IsFiniteSet(loaded[r]) /\ Cardinality(loaded[r]) = Len(order)
  BY <1>2, DistinctCardinality
<1>4. max_candidates \in Nat \ {0}
  BY <1>0 DEF TypeOK, FailoverAssumption
<1>5. Len(order) \in Nat \ {0}
  <2>1. order # <<>>
    BY <1>1, <1>2 DEF CandidatesKept, Members
  <2> QED
    BY <1>2, <2>1
<1>6. n \in 1..Len(order)
  BY <1>4, <1>5 DEF Least
<1>7. /\ SubSeq(order, 1, n) \in Seq(Provider)
      /\ Len(SubSeq(order, 1, n)) = n /\ Distinct(SubSeq(order, 1, n))
  <2>1. n \in 0..Len(order)
    BY <1>6
  <2> HIDE DEF n
  <2> QED
    BY <1>2, <2>1, PrefixDistinct
<1>8. /\ pc'[r] = "trying" /\ queue'[r] = SubSeq(order, 1, n)
      /\ cands'[r] = cands[r] /\ loaded'[r] = loaded[r]
      /\ failed'[r] = {} /\ result'[r] = "none"
      /\ max_candidates' = max_candidates
  BY <1>0, <1>1 DEF BeginLoop, TypeOK, order
<1>9. TriesAccounted(r)'
  <2>1. IsFiniteSet({}) /\ Cardinality({}) = 0
    BY FS_EmptySet
  <2>2. SubSeq(order, 1, n) # <<>>
    <3> HIDE DEF n
    <3> QED
      BY <1>6, <1>7
  <2>3. Cardinality({}) + Len(SubSeq(order, 1, n)) = n
    <3>1. n \in Nat
      BY <1>6
    <3> HIDE DEF n
    <3> QED
      BY <1>7, <2>1, <3>1
  <2>4. n = Least(Cardinality(loaded[r]), max_candidates)
    BY <1>3
  <2> HIDE DEF n
  <2> QED
    BY <1>7, <1>8, <2>1, <2>2, <2>3, <2>4 DEF TriesAccounted
<1>10. RequestInv(r)'
  <2>1. CandidatesKept(r)'
    BY <1>1, <1>8 DEF CandidatesKept
  <2> QED
    BY <1>8, <1>9, <2>1 DEF RequestInv, Active
<1>11. \A q \in Request : q # r => SameRequest(q)
  BY <1>0 DEF BeginLoop, SameRequest, TypeOK
<1> QED
  BY <1>0, <1>8, <1>10, <1>11, Frame DEF FailoverInv

\* AttemptOk and AttemptRetry leave the candidates as they are.
LEMMA AttemptOkInv ==
  ASSUME Inv, NEW r \in Request, AttemptOk(r)
  PROVE  FailoverInv'
<1> USE DEF configVars
<1>0. TypeOK /\ RequestInv(r) /\ \A q \in Request : RequestInv(q)
  BY DEF Inv, FailoverInv
<1>1. /\ pc[r] = "trying" /\ pc'[r] = "remembering"
      /\ UNCHANGED <<cands, queue, result, loaded, failed, max_candidates>>
  BY <1>0 DEF AttemptOk, TypeOK
<1>2. result[r] = "none" /\ CandidatesKept(r) /\ TriesAccounted(r)
  BY <1>0, <1>1 DEF RequestInv, Active
<1>3. CandidatesKept(r)' /\ TriesAccounted(r)'
  BY <1>1, <1>2 DEF CandidatesKept, TriesAccounted
<1>4. RequestInv(r)'
  BY <1>1, <1>2, <1>3 DEF RequestInv, Active
<1>5. \A q \in Request : q # r => SameRequest(q)
  BY <1>0 DEF AttemptOk, SameRequest, TypeOK
<1> QED
  BY <1>0, <1>1, <1>4, <1>5, Frame DEF FailoverInv

\* AttemptFailover: the provider given up was not given up before, and it
\* leaves the queue as it joins the failed ones.
LEMMA AttemptFailoverInv ==
  ASSUME FailoverAssumption, Inv, NEW r \in Request, NEW e \in Failure,
         AttemptFailover(r, e)
  PROVE  FailoverInv'
<1> USE DEF configVars
<1>0. TypeOK /\ RequestInv(r) /\ \A q \in Request : RequestInv(q)
  BY DEF Inv, FailoverInv
<1> DEFINE p == Head(queue[r])
           allowed == Least(Cardinality(loaded[r]), max_candidates)
<1>1. /\ pc[r] = "trying" /\ queue[r] \in Seq(Provider)
      /\ result[r] = "none" /\ CandidatesKept(r) /\ TriesAccounted(r)
  BY <1>0 DEF AttemptFailover, TypeOK, RequestInv, Active
<1>2. /\ Members(queue[r]) = Members(Tail(queue[r])) \cup {p}
      /\ Distinct(Tail(queue[r])) /\ p \notin Members(Tail(queue[r]))
      /\ Len(Tail(queue[r])) = Len(queue[r]) - 1 /\ Tail(queue[r]) \in Seq(Provider)
  BY <1>1, TailDistinct DEF TriesAccounted
<1>3. /\ IsFiniteSet(failed[r]) /\ p \notin failed[r]
      /\ Cardinality(failed[r]) + Len(queue[r]) = allowed
      /\ Members(queue[r]) \cap failed[r] = {}
  BY <1>1, <1>2 DEF TriesAccounted
<1>4. /\ IsFiniteSet(failed[r] \cup {p})
      /\ Cardinality(failed[r] \cup {p}) = Cardinality(failed[r]) + 1
      /\ Cardinality(failed[r]) \in Nat
  BY <1>3, FS_AddElement, FS_CardinalityType
<1>5. /\ failed'[r] = failed[r] \cup {p} /\ loaded'[r] = loaded[r]
      /\ max_candidates' = max_candidates
  BY <1>0 DEF AttemptFailover, TypeOK
<1>6. \/ /\ Len(queue[r]) > 1
         /\ queue' = [queue EXCEPT ![r] = Tail(@)]
         /\ UNCHANGED <<pc, cands, todo, ready, resting, result>>
      \/ Len(queue[r]) = 1 /\ Finish(r, "upstream")
  BY DEF AttemptFailover
<1> HIDE DEF p
<1>7. RequestInv(r)'
  <2>1. CASE Len(queue[r]) = 1 /\ Finish(r, "upstream")
    <3>1. pc'[r] = "done" /\ result'[r] = "upstream"
      BY <1>0, <2>1 DEF Finish, TypeOK
    <3>2. Cardinality(failed'[r]) = allowed
      BY <1>3, <1>4, <1>5, <2>1
    <3> QED
      BY <1>5, <3>1, <3>2 DEF RequestInv, Active
  <2>2. CASE /\ Len(queue[r]) > 1
             /\ queue' = [queue EXCEPT ![r] = Tail(@)]
             /\ UNCHANGED <<pc, cands, todo, ready, resting, result>>
    <3>1. /\ pc'[r] = "trying" /\ queue'[r] = Tail(queue[r]) /\ result'[r] = "none"
          /\ cands'[r] = cands[r]
      BY <1>0, <1>1, <2>2 DEF TypeOK
    <3>2. Tail(queue[r]) # <<>>
      BY <1>1, <2>2, TailDistinct
    <3>3. Cardinality(failed'[r]) + Len(Tail(queue[r])) = allowed
      <4>1. Len(queue[r]) \in Nat
        BY <1>1
      <4>2. (Cardinality(failed[r]) + 1) + (Len(queue[r]) - 1)
              = Cardinality(failed[r]) + Len(queue[r])
        BY <1>4, <4>1
      <4> QED
        BY <1>2, <1>3, <1>4, <1>5, <4>2
    <3>4. Members(Tail(queue[r])) \cap (failed[r] \cup {p}) = {}
      BY <1>2, <1>3
    <3>5. TriesAccounted(r)'
      BY <1>2, <1>4, <1>5, <3>1, <3>2, <3>3, <3>4 DEF TriesAccounted
    <3>6. CandidatesKept(r)'
      BY <1>1, <1>5, <3>1 DEF CandidatesKept
    <3> QED
      BY <3>1, <3>5, <3>6 DEF RequestInv, Active
  <2> QED
    BY <1>6, <2>1, <2>2
<1>8. \A q \in Request : q # r => SameRequest(q)
  BY <1>0, <1>6 DEF AttemptFailover, SameRequest, TypeOK, Finish
<1> QED
  BY <1>0, <1>5, <1>7, <1>8, Frame DEF FailoverInv

\* Every step keeps every request's part of the invariant.
LEMMA InvStep ==
  ASSUME FailoverAssumption, Inv, [Next]_vars
  PROVE  FailoverInv'
<1> USE DEF configVars, requestVars, historyVars
<1>0. TypeOK /\ \A q \in Request : RequestInv(q)
  BY DEF Inv, FailoverInv
<1>1. ASSUME NEW r \in Request, NEW how, how # "upstream", Finish(r, how), Forget(r),
             max_candidates' = max_candidates
      PROVE  FailoverInv'
  BY <1>0, <1>1, FinishInv, FinishFrame, Frame DEF FailoverInv
<1>2. ASSUME \A q \in Request : SameRequest(q), max_candidates' = max_candidates
      PROVE  FailoverInv'
  BY <1>0, <1>2, Frame DEF FailoverInv
<1>3. ASSUME NEW r \in Request, NEW e \in Failure, AttemptRetry(r, e)
      PROVE  FailoverInv'
  BY <1>2, <1>3 DEF AttemptRetry, SameRequest
<1>4. ASSUME NEW r \in Request, NEW e \in Failure, AttemptAbort(r, e)
      PROVE  FailoverInv'
  BY <1>1, <1>4 DEF AttemptAbort
<1>12. ASSUME NEW r \in Request, LoadFails(r) PROVE FailoverInv'
  BY <1>1, <1>12 DEF LoadFails
<1>5. ASSUME NEW r \in Request, RememberProvider(r) PROVE FailoverInv'
  BY <1>1, <1>5 DEF RememberProvider
<1>6. ASSUME NEW r \in Request, Cancel(r) PROVE FailoverInv'
  BY <1>1, <1>6 DEF Cancel
<1>7. CASE ReplaceModels
  BY <1>2, <1>7 DEF ReplaceModels, Change, SameRequest
<1>8. ASSUME NEW p \in Provider, ChangeVisibility(p) PROVE FailoverInv'
  BY <1>2, <1>8 DEF ChangeVisibility, Change, SameRequest
<1>9. ASSUME NEW p \in Provider, RecordLatency(p) PROVE FailoverInv'
  BY <1>2, <1>9 DEF RecordLatency, Change, SameRequest
<1>10. CASE Tick
  BY <1>2, <1>10 DEF Tick, SameRequest
<1>11. CASE UNCHANGED vars
  BY <1>2, <1>11 DEF vars, SameRequest
<1> QED
  BY <1>3, <1>4, <1>5, <1>6, <1>7, <1>8, <1>9, <1>10, <1>11, <1>12, LoadModelsInv,
     SelectCandidatesInv, ClassifyCandidateInv, BeginLoopInv, AttemptOkInv,
     AttemptFailoverInv DEF Next, Step

-----------------------------------------------------------------------------
(* The theorems.                                                             *)

\* The invariant is inductive.
THEOREM FailoverInvariant == Spec => []Inv
<1>1. Init => Inv
  BY InitInv, FailoverAssumption
<1>2. Inv /\ [Next]_vars => Inv'
  BY TypeStep, InvStep, FailoverAssumption DEF Inv
<1> QED
  BY <1>1, <1>2, PTL DEF Spec

\* Every variable of the request loop and of FailoverRegistry keeps its type:
\* no cooldown exceeds MAX_REST, whatever fails in whatever order.
THEOREM TypeCorrect == Spec => []TypeOK
<1>1. Inv => TypeOK
  BY DEF Inv
<1> QED
  BY <1>1, FailoverInvariant, PTL

\* When all it met were transient failures, run_endpoint_model_candidates returns
\* an upstream error only after as many different providers failed as it had
\* candidates, or as UPSTREAM_MAX_CANDIDATES allows.
THEOREM UpstreamErrorMeansExhausted == Spec => []ExhaustedBeforeFailing
<1>1. Inv => ExhaustedBeforeFailing
  BY DEF Inv, FailoverInv, RequestInv, ExhaustedBeforeFailing
<1> QED
  BY <1>1, FailoverInvariant, PTL

\* select_candidates only reorders: from the first query to the last attempt
\* a request's candidates are the rows it read, each of them once.
THEOREM CandidatesAreOnlyReordered == Spec => []CandidatesAreThoseLoaded
<1>1. Inv => CandidatesAreThoseLoaded
  <2> SUFFICES ASSUME Inv, NEW r \in Request, pc[r] \in Active
               PROVE  /\ Members(cands[r]) = loaded[r]
                      /\ Len(cands[r]) = Cardinality(loaded[r])
    BY DEF CandidatesAreThoseLoaded
  <2>1. CandidatesKept(r) /\ cands[r] \in Seq(Provider)
    BY DEF Inv, FailoverInv, RequestInv, TypeOK
  <2> QED
    BY <2>1, DistinctCardinality DEF CandidatesKept
<1> QED
  BY <1>1, FailoverInvariant, PTL

=============================================================================
