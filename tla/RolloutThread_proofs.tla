------------------------ MODULE RolloutThread_proofs ------------------------
(***************************************************************************)
(* Proofs about RolloutThread: types, the slice of a turn, the truth of    *)
(* what is cached or indexed, and the references of a context, for any     *)
(* number of turns, segments, items and failures.                          *)
(***************************************************************************)
EXTENDS RolloutThread, Induction, FiniteSetTheorems, TLAPS

-----------------------------------------------------------------------------
(* Types.                                                                    *)

Broken == {"corrupt", "garbled"}

\* A line as this program writes it, or the remains of one.
LineSet ==
    {line \in Lines :
        /\ line.type = "window" => \E v \in Window : line.body = <<v>>
        /\ line.type = "content" => /\ \E i \in Item : line.body = <<ContentOf[i]>>
                                    /\ line.seq > 0
        /\ line.type = "context" => line.turn \in Turn /\ line.body \in Seq(Nat)
        /\ line.type \in Broken => line.seq = 0 /\ line.turn = NoTurn}

FileSet == [exists : BOOLEAN, lines : Seq(LineSet), tail : Tails, mtime : Nat,
            synced : Nat]

StampSet == [lines : Nat, bad : Nat, tail : Tails, mtime : Nat]

RefSet == [Content -> Seq(Nat)]

ItemSet == [Key -> Nat]

Begun == {"meta", "window", "turn", "request", "ready", "response", "sync",
          "publish", "dropping"}

Holding == Begun \cup {"loading"}

WriterSet == [pc : Holding \cup Ended \cup {"idle"}, seg : Segment,
              window : Window \cup {NoWindow}, request : Seq(Item),
              refs : Seq(Nat), response : Seq(Item), start : Nat, count : Nat,
              seq : Nat, base : Nat, added : Nat, events : RefSet,
              items : ItemSet, buf : Seq(LineSet), cut : BOOLEAN,
              faulty : BOOLEAN]

LoadSet == [at : {"off", "resolve", "repair", "stat"}, seg : Segment, seen : FileSet]

Typed ==
    /\ files \in [Segment -> FileSet]
    /\ index \in [exists : BOOLEAN, base : StampSet, state : States]
    /\ cache \in States
    /\ lock \in Turn \cup {NoTurn}
    /\ w \in [Turn -> WriterSet]
    /\ load \in [Turn -> LoadSet]
    /\ epoch \in Nat /\ epoch > 0
    /\ troubles \in 0..MaxTroubles
    /\ epoch <= troubles + 1
    /\ haunted \in BOOLEAN

-----------------------------------------------------------------------------
(* The invariant.  Its parts are about one writer v of a turn t, one task l,   *)
(* one file f.                                                               *)

\* A file is there since a write in this run of the process or an earlier one.
FileOk(f, now) ==
    /\ f.synced <= Len(f.lines)
    /\ f.mtime <= now
    /\ f.exists => f.mtime > 0
    /\ ~f.exists => f = NoFile

\* The lock is the writer's from begin to its end; a task under way is that of a
\* begin under way or of a dropped one.
LockOk(t, v, l, holder) ==
    /\ holder = t <=> v.pc \in Holding
    /\ l.at # "off" => v.pc \in {"loading", "dropped"}
    /\ v.pc = "loading" => l.at # "off"

\* What a task has read had no corrupt line, and the file stays there.
ReadOk(l, f) ==
    /\ l.at \in {"repair", "stat"} =>
          f.exists /\ l.seen.exists /\ Bad(l.seen.lines) = {}
    /\ l.at = "repair" => l.seen.tail # "none"

\* A writer that waits for its task has done nothing yet, and knows its window.
BareOk(v) ==
    /\ v.pc = "loading" => v.refs = <<>> /\ v.added = 0 /\ v.buf = <<>> /\ ~v.faulty
    /\ v.pc \in {"loading", "meta", "window"} => v.window \in Window

\* A writer that syncs or is dropped has opened its file.
OpenOk(v, f) == v.pc \in {"sync", "dropping"} => f.exists

\* A BufWriter holds lines of its own turn, no more than writes have failed.
BufferOk(t, v, failed) ==
    /\ \A n \in DOMAIN v.buf : v.buf[n].turn = t
    /\ Len(v.buf) <= failed
    /\ v.cut => v.buf # <<>>

Places(t, lines) == {n \in DOMAIN lines : lines[n].turn = t}

\* A turn that has not begun to write has no lines.
FreshOk(t, v, f) == v.pc \in {"idle", "loading"} => Places(t, f.lines) = {}

\* Numbers only grow.
Ascending(lines) ==
    \A n, m \in DOMAIN lines : n < m /\ lines[m].seq > 0 => lines[n].seq < lines[m].seq

\* A stable id that reading the file would find is known.
Covers(items, lines) == \A k \in Key : Learned(lines).items[k] > 0 => items[k] > 0

\* What is known of a stable id is a line that holds an item with that id.
Leads(lines, n, seq, k) ==
    /\ lines[n].type = "content"
    /\ lines[n].seq = seq
    /\ \E j \in Item : lines[n].body = <<ContentOf[j]>> /\ KeyOf[j] = k

Points(items, lines) ==
    \A k \in Key : items[k] > 0 => \E n \in DOMAIN lines : Leads(lines, n, items[k], k)

Knows(events, items, lines) ==
    /\ events = Learned(lines).events
    /\ Covers(items, lines)
    /\ Points(items, lines)

\* A ThreadState says what reading those lines would.
Agrees(state, lines) ==
    /\ state.seq = Learned(lines).seq
    /\ state.window = Learned(lines).window
    /\ Knows(state.events, state.items, lines)

\* A ThreadState describes the beginning of its file, as long as the file has not
\* been changed in a later run of the process: within one run it only grows.
Describes(state, f, now) ==
    /\ state.count = state.stamp.lines
    /\ state.stamp.bad = 0
    /\ state.stamp.tail = "none"
    /\ state.stamp.mtime <= f.mtime
    /\ f.mtime = now /\ state.stamp.mtime = now => state.stamp.lines <= Len(f.lines)
    /\ f.exists /\ f.mtime = state.stamp.mtime /\ state.stamp.lines <= Len(f.lines)
          => Agrees(state, SubSeq(f.lines, 1, state.stamp.lines))

\* A task that holds the lock works on the lines it has read.
TaskOk(v, l, f) ==
    /\ l.at = "stat" => l.seen.tail = "none"
    /\ v.pc = "loading" /\ l.at \in {"repair", "stat"} =>
          /\ f.exists
          /\ f.lines = l.seen.lines
          /\ l.at = "stat" => f.tail = "none"

\* What a writer has counted, while no write has failed, is what is in its file.
CountOk(t, v, f) ==
    /\ v.start = v.base + 1
    /\ v.count = v.base + v.added
    /\ v.count <= Len(f.lines)
    /\ v.pc = "meta" => v.count = 0
    /\ v.pc \in {"meta", "window", "turn", "request", "ready"} => ~v.faulty
    /\ ~v.faulty =>
          /\ v.pc # "dropping"
          /\ v.buf = <<>>
          /\ f.tail = "none"
          /\ Len(f.lines) = v.count
          /\ Bad(f.lines) = {}
          /\ Places(t, f.lines) = v.start..v.count
          /\ v.pc \in {"sync", "publish"} =>
                v.count \in Places(t, f.lines) /\ f.lines[v.count].type = "turn_end"
          /\ v.pc = "publish" => f.synced = v.count

\* Numbers are given out in the order of the lines, also of those that are still
\* in the buffer.
Queue(buf, lines) ==
    \A n \in DOMAIN buf :
        /\ \A m \in DOMAIN lines : lines[m].seq < buf[n].seq
        /\ \A m \in DOMAIN buf : m < n => buf[m].seq < buf[n].seq

NumberOk(v, lines) ==
    /\ \A n \in DOMAIN lines : lines[n].seq <= v.seq
    /\ \A n \in DOMAIN v.buf : v.buf[n].seq <= v.seq
    /\ Queue(v.buf, lines)

\* A writer whose file is as long as it has counted knows what is in it, failed
\* writes or not.
KnowsOk(v, lines) ==
    v.pc # "dropping" /\ Len(lines) = v.count /\ Bad(lines) = {} =>
        /\ Knows(v.events, v.items, lines)
        /\ v.pc \notin {"meta", "window"} => v.window = Learned(lines).window
        /\ v.pc \in {"sync", "publish"} => v.seq = Learned(lines).seq

\* A stored line for an item: it holds its content, or one with its stable id.
Stands(line, i) ==
    /\ line.type = "content"
    /\ \E j \in Item : /\ line.body = <<ContentOf[j]>>
                       /\ \/ ContentOf[j] = ContentOf[i]
                          \/ KeyOf[i] # NoKey /\ KeyOf[j] = KeyOf[i]

Occurrence(request, p) ==
    Cardinality({q \in 1..p : ContentOf[request[q]] = ContentOf[request[p]]})

Led(lines, seq, i) == \E n \in DOMAIN lines : lines[n].seq = seq /\ Stands(lines[n], i)

\* One of the first o references to a content.
Among(seqs, o, seq) == \E m \in DOMAIN seqs : m <= o /\ seqs[m] = seq

Apart(request, refs) ==
    \A p, q \in DOMAIN refs :
        p # q /\ KeyOf[request[p]] = NoKey /\ KeyOf[request[q]] = NoKey
            => refs[p] # refs[q]

\* References that are the input of a turn.
Fits(lines, refs, request) ==
    /\ Len(refs) = Len(request)
    /\ \A p \in DOMAIN refs : Led(lines, refs[p], request[p])
    /\ Apart(request, refs)

\* A context in the buffer will be right when it gets to the file.
WaitsOk(buf, lines, request) ==
    \A n \in DOMAIN buf : buf[n].type = "context" => Fits(lines, buf[n].body, request)

\* The references found so far.
RefsOk(v, lines) ==
    /\ v.pc \in {"meta", "window", "turn"} => v.refs = <<>>
    /\ Len(v.refs) <= Len(v.request)
    /\ v.pc = "request" =>
          /\ \A p \in DOMAIN v.refs : Led(lines, v.refs[p], v.request[p])
          /\ \A p \in DOMAIN v.refs : KeyOf[v.request[p]] = NoKey =>
                Among(v.events[ContentOf[v.request[p]]], Occurrence(v.request, p), v.refs[p])
          /\ Apart(v.request, v.refs)

WritingOk(t, v, f) ==
    v.pc \in Begun => /\ CountOk(t, v, f)
                      /\ NumberOk(v, f.lines)
                      /\ KnowsOk(v, f.lines)
                      /\ WaitsOk(v.buf, f.lines, v.request)
                      /\ RefsOk(v, f.lines)

DoneOk(t, v, f) ==
    v.pc = "done" /\ ~v.faulty =>
        /\ Places(t, f.lines) = v.start..v.count
        /\ v.count \in Places(t, f.lines)
        /\ f.lines[v.count].type = "turn_end"
        /\ v.count <= f.synced

\* The references of a context are the input of its turn.
ContextOk(lines, m, request) == Fits(SubSeq(lines, 1, m - 1), lines[m].body, request)

LinesOk(lines, writers) ==
    /\ Ascending(lines)
    /\ \A m \in DOMAIN lines : lines[m].type = "context" =>
          ContextOk(lines, m, writers[lines[m].turn].request)

\* What holds whatever a dropped request's task does.
Sound ==
    /\ \A g \in Segment : FileOk(files[g], epoch)
    /\ \A t \in Turn : /\ LockOk(t, w[t], load[t], lock)
                       /\ ReadOk(load[t], files[load[t].seg])
                       /\ BareOk(w[t])
                       /\ OpenOk(w[t], files[w[t].seg])
                       /\ BufferOk(t, w[t], troubles)
    /\ \A t \in Turn, g \in Segment : FreshOk(t, w[t], files[g])

\* ... and what holds until one of them has met a file it did not read.
Truthful ==
    /\ Describes(cache, files[cache.seg], epoch)
    /\ Describes(index.state, files[index.state.seg], epoch)
    /\ \A t \in Turn : /\ TaskOk(w[t], load[t], files[load[t].seg])
                       /\ WritingOk(t, w[t], files[w[t].seg])
                       /\ DoneOk(t, w[t], files[w[t].seg])
    /\ \A g \in Segment : LinesOk(files[g].lines, w)

Inv == Typed /\ Sound /\ (~haunted => Truthful)

-----------------------------------------------------------------------------
(* Lemmas about sequences of lines.                                          *)

\* A sequence is the function it is.
LEMMA SeqFacts ==
  ASSUME NEW S, NEW s \in Seq(S)
  PROVE  /\ Len(s) \in Nat /\ DOMAIN s = 1..Len(s)
         /\ \A n \in 1..Len(s) : s[n] \in S
         /\ s = <<>> <=> Len(s) = 0
OBVIOUS

\* One number more.
LEMMA IntervalMore ==
  ASSUME NEW a \in Nat, NEW b \in Nat, a <= b + 1
  PROVE  a..(b + 1) = (a..b) \cup {b + 1}
OBVIOUS

\* A bound on a bound.
LEMMA AtMost ==
  ASSUME NEW a \in Nat, NEW b \in Nat, NEW c \in Nat, a <= b, b <= c
  PROVE  a <= c
OBVIOUS

\* Sequences that agree everywhere are the same.
LEMMA SameSeq ==
  ASSUME NEW S, NEW s \in Seq(S), NEW t \in Seq(S), Len(s) = Len(t),
         \A n \in 1..Len(s) : s[n] = t[n]
  PROVE  s = t
OBVIOUS

\* A beginning of a sequence.
LEMMA PrefixFacts ==
  ASSUME NEW S, NEW s \in Seq(S), NEW n \in 0..Len(s)
  PROVE  /\ SubSeq(s, 1, n) \in Seq(S)
         /\ Len(SubSeq(s, 1, n)) = n
         /\ DOMAIN SubSeq(s, 1, n) = 1..n
         /\ \A i \in 1..n : SubSeq(s, 1, n)[i] = s[i]
OBVIOUS

\* The whole of it.
LEMMA WholePrefix ==
  ASSUME NEW S, NEW s \in Seq(S)
  PROVE  SubSeq(s, 1, Len(s)) = s
<1>1. Len(s) \in Nat /\ Len(s) \in 0..Len(s)
  BY SeqFacts
<1> QED
  BY <1>1, PrefixFacts, SameSeq

\* One element more.
LEMMA AppendFacts ==
  ASSUME NEW S, NEW s \in Seq(S), NEW x \in S
  PROVE  /\ Append(s, x) \in Seq(S)
         /\ Len(Append(s, x)) = Len(s) + 1
         /\ DOMAIN Append(s, x) = 1..(Len(s) + 1)
         /\ \A i \in 1..Len(s) : Append(s, x)[i] = s[i]
         /\ Append(s, x)[Len(s) + 1] = x
OBVIOUS

\* Induction over the sequences of a set, one element appended at a time.
LEMMA AppendInduction ==
  ASSUME NEW S, NEW T, <<>> \in T,
         \A s \in Seq(S), x \in S : s \in T => Append(s, x) \in T
  PROVE  \A s \in Seq(S) : s \in T
<1> DEFINE Ok == {n \in Nat : \A s \in Seq(S) : Len(s) = n => s \in T}
<1>1. 0 \in Ok
  BY SeqFacts
<1>2. ASSUME NEW n \in Nat, n \in Ok PROVE n + 1 \in Ok
  <2> SUFFICES ASSUME NEW s \in Seq(S), Len(s) = n + 1 PROVE s \in T
    OBVIOUS
  <2> DEFINE front == SubSeq(s, 1, n)
             last == s[n + 1]
  <2>1. n \in 0..Len(s) /\ last \in S /\ n + 1 \in 1..Len(s)
    BY SeqFacts
  <2>2. front \in Seq(S) /\ Len(front) = n /\ \A i \in 1..n : front[i] = s[i]
    BY <2>1, PrefixFacts
  <2>3. front \in T
    BY <1>2, <2>2
  <2> HIDE DEF front, last
  <2>4. /\ Append(front, last) \in Seq(S) /\ Len(Append(front, last)) = n + 1
        /\ \A i \in 1..n : Append(front, last)[i] = front[i]
        /\ Append(front, last)[n + 1] = last
    BY <2>1, <2>2, AppendFacts
  <2>5. \A i \in 1..(n + 1) : Append(front, last)[i] = s[i]
    <3> SUFFICES ASSUME NEW i \in 1..(n + 1) PROVE Append(front, last)[i] = s[i]
      OBVIOUS
    <3>1. CASE i = n + 1
      BY <3>1, <2>4 DEF last
    <3>2. CASE i \in 1..n
      BY <3>2, <2>2, <2>4
    <3>3. i = n + 1 \/ i \in 1..n
      OBVIOUS
    <3> QED
      BY <3>1, <3>2, <3>3
  <2>6. Append(front, last) = s
    BY <2>4, <2>5, SameSeq
  <2> QED
    BY <2>1, <2>2, <2>3, <2>6
<1> HIDE DEF Ok
<1>3. \A n \in Nat : n \in Ok
  BY <1>1, <1>2, SetInduction
<1> QED
  BY <1>3, SeqFacts DEF Ok

-----------------------------------------------------------------------------
(* What reading a file teaches.                                              *)

\* f is the table that Learned fills in for the first n lines.
Reading(lines, f, n) ==
    f = [i \in 0..n |-> IF i = 0 THEN Nothing ELSE Learn(f[i - 1], lines[i])]

\* The table exists.
LEMMA ReadingExists ==
  ASSUME NEW lines
  PROVE  \A n \in Nat : \E f : Reading(lines, f, n)
<1> DEFINE Ok == {n \in Nat : \E f : Reading(lines, f, n)}
<1>1. 0 \in Ok
  <2> DEFINE f == [i \in 0..0 |-> Nothing]
  <2>1. Reading(lines, f, 0)
    BY DEF Reading
  <2> QED
    BY <2>1
<1>2. ASSUME NEW n \in Nat, n \in Ok PROVE n + 1 \in Ok
  <2>1. PICK f : Reading(lines, f, n)
    BY <1>2
  <2> DEFINE g == [i \in 0..(n + 1) |->
                     IF i <= n THEN f[i] ELSE Learn(f[n], lines[n + 1])]
  <2>2. \A i \in 0..n : f[i] = IF i = 0 THEN Nothing ELSE Learn(f[i - 1], lines[i])
    BY <2>1 DEF Reading
  <2>3. Reading(lines, g, n + 1)
    <3> SUFFICES ASSUME NEW i \in 0..(n + 1)
                 PROVE  g[i] = IF i = 0 THEN Nothing ELSE Learn(g[i - 1], lines[i])
      BY DEF Reading
    <3>1. CASE i = n + 1
      <4>1. i # 0 /\ i - 1 = n /\ g[i - 1] = f[n] /\ ~(i <= n)
        BY <3>1
      <4> QED
        BY <3>1, <4>1
    <3>2. CASE i = 0
      BY <3>2, <2>2
    <3>3. CASE i \in 1..n
      <4>1. i - 1 \in 0..n /\ i \in 0..n /\ i <= n /\ i - 1 <= n /\ i # 0
        BY <3>3
      <4>2. g[i] = f[i] /\ g[i - 1] = f[i - 1]
        BY <4>1
      <4> QED
        BY <4>1, <4>2, <2>2
    <3> QED
      BY <3>1, <3>2, <3>3
  <2> QED
    BY <2>3
<1> HIDE DEF Ok
<1>3. \A n \in Nat : n \in Ok
  BY <1>1, <1>2, SetInduction
<1> QED
  BY <1>3 DEF Ok

\* Learned is the last entry of any such table.
LEMMA LearnedIsLast ==
  ASSUME NEW S, NEW lines \in Seq(S), NEW f, Reading(lines, f, Len(lines))
  PROVE  Learned(lines) = f[Len(lines)]
<1> DEFINE g == CHOOSE h : Reading(lines, h, Len(lines))
           Ok == {n \in 0..Len(lines) : f[n] = g[n]}
<1>0. Len(lines) \in Nat
  BY SeqFacts
<1>1. Reading(lines, g, Len(lines))
  BY <1>0, ReadingExists
<1>2. Learned(lines) = g[Len(lines)]
  BY DEF Learned, Reading
<1>3. \A i \in 0..Len(lines) :
          /\ g[i] = IF i = 0 THEN Nothing ELSE Learn(g[i - 1], lines[i])
          /\ f[i] = IF i = 0 THEN Nothing ELSE Learn(f[i - 1], lines[i])
  <2> HIDE DEF g
  <2> QED
    BY <1>1 DEF Reading
<1> HIDE DEF g
<1>4. 0 \in Ok
  BY <1>0, <1>3
<1>5. ASSUME NEW n \in 0..Len(lines), n < Len(lines), n \in Ok PROVE n + 1 \in Ok
  <2>1. n + 1 \in 0..Len(lines) /\ n + 1 # 0 /\ (n + 1) - 1 = n
    BY <1>0, <1>5
  <2> QED
    BY <1>3, <1>5, <2>1
<1> HIDE DEF Ok
<1>6. \A n \in 0..Len(lines) : n \in Ok
  BY <1>0, <1>4, <1>5, BoundedInduction
<1>7. Len(lines) \in 0..Len(lines)
  BY <1>0
<1> QED
  BY <1>2, <1>6, <1>7 DEF Ok

\* Of nothing there is nothing to learn.
LEMMA LearnedEmpty == Learned(<<>>) = Nothing
<1> DEFINE f == [i \in 0..0 |-> Nothing]
<1>1. <<>> \in Seq({}) /\ Len(<<>>) = 0
  OBVIOUS
<1>2. Reading(<<>>, f, 0)
  BY DEF Reading
<1>3. f[0] = Nothing
  OBVIOUS
<1> HIDE DEF f
<1> QED
  BY <1>1, <1>2, <1>3, LearnedIsLast

\* from_events goes on with every line.
LEMMA LearnedMore ==
  ASSUME NEW S, NEW lines \in Seq(S), NEW line \in S
  PROVE  Learned(Append(lines, line)) = Learn(Learned(lines), line)
<1> DEFINE N == Len(lines)
           more == Append(lines, line)
<1>0. /\ N \in Nat /\ more \in Seq(S) /\ Len(more) = N + 1
      /\ \A i \in 1..N : more[i] = lines[i]
      /\ more[N + 1] = line
  BY SeqFacts, AppendFacts
<1>1. PICK f : Reading(more, f, N + 1)
  <2> HIDE DEF N, more
  <2>1. N + 1 \in Nat
    BY <1>0
  <2> QED
    BY <2>1, ReadingExists
<1> DEFINE g == [i \in 0..N |-> f[i]]
<1>2. \A i \in 0..(N + 1) : f[i] = IF i = 0 THEN Nothing ELSE Learn(f[i - 1], more[i])
  BY <1>1 DEF Reading
<1> HIDE DEF N, more
<1>3. Reading(lines, g, N)
  <2> SUFFICES ASSUME NEW i \in 0..N
               PROVE  g[i] = IF i = 0 THEN Nothing ELSE Learn(g[i - 1], lines[i])
    BY DEF Reading
  <2>1. CASE i = 0
    BY <2>1, <1>0, <1>2
  <2>2. CASE i # 0
    <3>1. i \in 0..(N + 1) /\ i \in 1..N /\ i - 1 \in 0..N
      BY <2>2, <1>0
    <3>2. g[i] = f[i] /\ g[i - 1] = f[i - 1] /\ more[i] = lines[i]
      BY <3>1, <1>0
    <3> QED
      BY <2>2, <3>1, <3>2, <1>2
  <2> QED
    BY <2>1, <2>2
<1>4. Learned(lines) = f[N]
  <2>1. g[N] = f[N]
    BY <1>0
  <2> HIDE DEF g
  <2>2. Reading(lines, g, Len(lines))
    BY <1>3 DEF N
  <2>3. Learned(lines) = g[Len(lines)]
    BY <2>2, LearnedIsLast
  <2> QED
    BY <2>1, <2>3 DEF N
<1>5. f[N + 1] = Learn(f[N], line)
  <2>1. N + 1 \in 0..(N + 1) /\ N + 1 # 0 /\ (N + 1) - 1 = N
    BY <1>0
  <2> QED
    BY <2>1, <1>0, <1>2
<1>6. Learned(more) = f[N + 1]
  BY <1>0, <1>1, LearnedIsLast
<1> QED
  BY <1>4, <1>5, <1>6 DEF more

KnownSet == [seq : Nat, window : Window \cup {NoWindow}, events : RefSet, items : ItemSet]

\* What a line of a file may be.
LEMMA LineFacts ==
  ASSUME NEW line \in LineSet
  PROVE  /\ line.seq \in Nat /\ line.turn \in Turn \cup {NoTurn}
         /\ line.type = "window" => \E v \in Window : line.body = <<v>>
         /\ line.type = "content" =>
               line.seq > 0 /\ \E i \in Item : Holds(ContentOf[i], line)
         /\ line.type = "context" => line.turn \in Turn /\ line.body \in Seq(Nat)
         /\ line.type \in Broken => line.seq = 0 /\ line.turn = NoTurn
BY DEF LineSet, Lines, Holds

\* The contents of items are contents.
LEMMA ItemFacts ==
  ASSUME NEW i \in Item
  PROVE  /\ ContentOf[i] \in Content
         /\ KeyOf[i] \in Key \cup {NoKey}
         /\ KeyIn[ContentOf[i]] \in {NoKey, KeyOf[i]}
BY RolloutAssumption

\* What one line more teaches.
LEMMA LearnFields ==
  ASSUME NEW known \in KnownSet, NEW line \in LineSet
  PROVE  /\ Learn(known, line).seq = IF line.seq > known.seq THEN line.seq ELSE known.seq
         /\ line.type = "window" =>
               /\ Learn(known, line).window = line.body[1]
               /\ Learn(known, line).events = NoRefs
               /\ Learn(known, line).items = known.items
         /\ line.type \notin {"window", "content"} =>
               /\ Learn(known, line).window = known.window
               /\ Learn(known, line).events = known.events
               /\ Learn(known, line).items = known.items
<1>1. CASE line.type = "window"
  BY <1>1 DEF Learn, KnownSet
<1>2. CASE line.type = "content"
  BY <1>2 DEF Learn, KnownSet
<1>3. CASE line.type \notin {"window", "content"}
  BY <1>3 DEF Learn, KnownSet
<1> QED
  BY <1>1, <1>2, <1>3

\* ... and a line that holds a content.
LEMMA LearnContent ==
  ASSUME NEW known \in KnownSet, NEW line \in LineSet, NEW x \in Content, Holds(x, line)
  PROVE  /\ Learn(known, line).window = known.window
         /\ Learn(known, line).events = [known.events EXCEPT ![x] = Append(@, line.seq)]
<1>1. line.type = "content" /\ line.body[1] = x
  BY DEF Holds
<1>2. /\ Learn(known, line).window = known.window
      /\ Learn(known, line).events
            = [known.events EXCEPT ![line.body[1]] = Append(@, line.seq)]
  BY <1>1 DEF Learn, KnownSet
<1> QED
  BY <1>1, <1>2

\* ... with its stable id, if it holds one.
LEMMA LearnItem ==
  ASSUME NEW known \in KnownSet, NEW line \in LineSet, NEW x \in Content, Holds(x, line),
         NEW key \in Key
  PROVE  /\ key = KeyIn[x] => Learn(known, line).items[key] = line.seq
         /\ key # KeyIn[x] => Learn(known, line).items[key] = known.items[key]
<1>1. line.type = "content" /\ line.body[1] = x
  BY DEF Holds
<1>2. Learn(known, line).items
         = [k \in Key |-> IF k = KeyIn[line.body[1]] THEN line.seq ELSE known.items[k]]
  BY <1>1 DEF Learn, KnownSet
<1> QED
  BY <1>1, <1>2

\* A record of what is known.
LEMMA LearnRecord ==
  ASSUME NEW known \in KnownSet, NEW line \in LineSet
  PROVE  Learn(known, line) = [seq |-> Learn(known, line).seq,
                               window |-> Learn(known, line).window,
                               events |-> Learn(known, line).events,
                               items |-> Learn(known, line).items]
<1>1. CASE line.type = "window"
  BY <1>1 DEF Learn, KnownSet
<1>2. CASE line.type = "content"
  BY <1>2 DEF Learn, KnownSet
<1>3. CASE line.type \notin {"window", "content"}
  BY <1>3 DEF Learn, KnownSet
<1> QED
  BY <1>1, <1>2, <1>3

\* ... stays one.
LEMMA LearnType ==
  ASSUME NEW known \in KnownSet, NEW line \in LineSet
  PROVE  Learn(known, line) \in KnownSet
<1> DEFINE new == Learn(known, line)
<1>0. /\ line.seq \in Nat /\ known.seq \in Nat
      /\ known.window \in Window \cup {NoWindow}
      /\ known.events \in RefSet /\ known.items \in ItemSet
  BY LineFacts DEF KnownSet
<1>1. new.seq \in Nat
  BY <1>0, LearnFields
<1>2. new.window \in Window \cup {NoWindow} /\ new.events \in RefSet /\ new.items \in ItemSet
  <2>1. CASE line.type = "window"
    <3>1. PICK v \in Window : line.body = <<v>>
      BY <2>1, LineFacts
    <3>2. NoRefs \in RefSet
      BY DEF NoRefs, RefSet
    <3> QED
      BY <1>0, <2>1, <3>1, <3>2, LearnFields
  <2>2. CASE line.type = "content"
    <3>1. PICK i \in Item : Holds(ContentOf[i], line)
      BY <2>2, LineFacts
    <3> DEFINE x == ContentOf[i]
    <3>2. x \in Content
      BY ItemFacts
    <3>3. /\ new.window = known.window
          /\ new.events = [known.events EXCEPT ![x] = Append(@, line.seq)]
      BY <3>1, <3>2, LearnContent
    <3>7. new.items = [k \in Key |-> IF k = KeyIn[line.body[1]] THEN line.seq
                                      ELSE known.items[k]]
      BY <2>2 DEF Learn, KnownSet
    <3> HIDE DEF new, x
    <3>4. Append(known.events[x], line.seq) \in Seq(Nat)
      BY <1>0, <3>2 DEF RefSet
    <3>5. new.events \in RefSet
      BY <1>0, <3>2, <3>3, <3>4 DEF RefSet
    <3>6. new.items \in ItemSet
      BY <1>0, <3>7 DEF ItemSet
    <3> QED
      BY <1>0, <3>3, <3>5, <3>6
  <2>3. CASE line.type \notin {"window", "content"}
    BY <1>0, <2>3, LearnFields
  <2> QED
    BY <2>1, <2>2, <2>3
<1>3. new = [seq |-> new.seq, window |-> new.window, events |-> new.events,
             items |-> new.items]
  BY LearnRecord
<1> HIDE DEF new
<1>4. new \in KnownSet
  BY <1>1, <1>2, <1>3 DEF KnownSet
<1> QED
  BY <1>4 DEF new

\* What is known of a file is well formed.
LEMMA LearnedType ==
  ASSUME NEW lines \in Seq(LineSet)
  PROVE  Learned(lines) \in KnownSet
<1> DEFINE T == {s \in Seq(LineSet) : Learned(s) \in KnownSet}
<1>1. <<>> \in T
  <2>1. Nothing \in KnownSet
    BY DEF Nothing, KnownSet, NoRefs, RefSet, NoItems, ItemSet
  <2>2. <<>> \in Seq(LineSet)
    OBVIOUS
  <2> QED
    BY <2>1, <2>2, LearnedEmpty
<1>2. ASSUME NEW s \in Seq(LineSet), NEW line \in LineSet, s \in T
      PROVE  Append(s, line) \in T
  <2>1. Append(s, line) \in Seq(LineSet)
    BY AppendFacts
  <2> QED
    BY <1>2, <2>1, LearnedMore, LearnType
<1> HIDE DEF T
<1>3. \A s \in Seq(LineSet) : s \in T
  BY <1>1, <1>2, AppendInduction
<1> QED
  BY <1>3 DEF T

\* The last number is the greatest.
LEMMA LearnedBounds ==
  ASSUME NEW lines \in Seq(LineSet)
  PROVE  \A n \in DOMAIN lines : lines[n].seq <= Learned(lines).seq
<1> DEFINE T == {s \in Seq(LineSet) : \A n \in 1..Len(s) : s[n].seq <= Learned(s).seq}
<1>1. <<>> \in T
  OBVIOUS
<1>2. ASSUME NEW s \in Seq(LineSet), NEW line \in LineSet, s \in T
      PROVE  Append(s, line) \in T
  <2> DEFINE more == Append(s, line)
  <2>1. /\ more \in Seq(LineSet) /\ Len(more) = Len(s) + 1 /\ Len(s) \in Nat
        /\ \A i \in 1..Len(s) : more[i] = s[i]
        /\ more[Len(s) + 1] = line
    BY AppendFacts, SeqFacts
  <2>2. Learned(s) \in KnownSet /\ Learned(more) = Learn(Learned(s), line)
    BY LearnedType, LearnedMore
  <2>3. /\ Learned(s).seq \in Nat /\ line.seq \in Nat
        /\ \A n \in 1..Len(s) : s[n].seq \in Nat
    BY <2>2, LineFacts, SeqFacts DEF KnownSet
  <2>4. Learned(more).seq = IF line.seq > Learned(s).seq THEN line.seq ELSE Learned(s).seq
    BY <2>2, LearnFields
  <2> HIDE DEF more
  <2>5. ASSUME NEW n \in 1..Len(more) PROVE more[n].seq <= Learned(more).seq
    <3>1. CASE n = Len(s) + 1
      BY <3>1, <2>1, <2>3, <2>4
    <3>2. CASE n \in 1..Len(s)
      <4>1. s[n].seq <= Learned(s).seq
        BY <3>2, <1>2
      <4> QED
        BY <3>2, <4>1, <2>1, <2>3, <2>4
    <3> QED
      BY <2>1, <3>1, <3>2
  <2>6. more \in T
    BY <2>1, <2>5
  <2> QED
    BY <2>6 DEF more
<1> HIDE DEF T
<1>3. \A s \in Seq(LineSet) : s \in T
  BY <1>1, <1>2, AppendInduction
<1> QED
  BY <1>3, SeqFacts DEF T

\* ... and no greater than that.
LEMMA LearnedLeast ==
  ASSUME NEW lines \in Seq(LineSet), NEW q \in Nat,
         \A n \in DOMAIN lines : lines[n].seq <= q
  PROVE  Learned(lines).seq <= q
<1> DEFINE T == {s \in Seq(LineSet) : (\A n \in 1..Len(s) : s[n].seq <= q)
                                         => Learned(s).seq <= q}
<1>1. <<>> \in T
  <2>1. Nothing.seq = 0 /\ <<>> \in Seq(LineSet)
    BY DEF Nothing
  <2> QED
    BY <2>1, LearnedEmpty
<1>2. ASSUME NEW s \in Seq(LineSet), NEW line \in LineSet, s \in T
      PROVE  Append(s, line) \in T
  <2> DEFINE more == Append(s, line)
  <2>1. /\ more \in Seq(LineSet) /\ Len(more) = Len(s) + 1 /\ Len(s) \in Nat
        /\ \A i \in 1..Len(s) : more[i] = s[i]
        /\ more[Len(s) + 1] = line
    BY AppendFacts, SeqFacts
  <2>2. Learned(s) \in KnownSet /\ Learned(more) = Learn(Learned(s), line)
    BY LearnedType, LearnedMore
  <2>3. Learned(s).seq \in Nat /\ line.seq \in Nat
    BY <2>2, LineFacts DEF KnownSet
  <2>4. Learned(more).seq = IF line.seq > Learned(s).seq THEN line.seq ELSE Learned(s).seq
    BY <2>2, LearnFields
  <2> HIDE DEF more
  <2>5. ASSUME \A n \in 1..Len(more) : more[n].seq <= q PROVE Learned(more).seq <= q
    <3>1. Len(s) + 1 \in 1..Len(more) /\ \A n \in 1..Len(s) : n \in 1..Len(more)
      BY <2>1
    <3>2. line.seq <= q /\ \A n \in 1..Len(s) : s[n].seq <= q
      BY <2>1, <2>5, <3>1
    <3>3. Learned(s).seq <= q
      BY <1>2, <3>2
    <3> QED
      BY <2>3, <2>4, <3>2, <3>3
  <2>6. more \in T
    BY <2>1, <2>5
  <2> QED
    BY <2>6 DEF more
<1> HIDE DEF T
<1>3. \A s \in Seq(LineSet) : s \in T
  BY <1>1, <1>2, AppendInduction
<1> QED
  BY <1>3, SeqFacts DEF T

\* A sequence that begins like another.
Continues(more, lines) ==
    Len(lines) <= Len(more) /\ \A n \in 1..Len(lines) : more[n] = lines[n]

\* A line that is there stays there when the file grows.
LEMMA PointsLater ==
  ASSUME NEW lines \in Seq(LineSet), NEW more \in Seq(LineSet), Continues(more, lines),
         NEW items, Points(items, lines)
  PROVE  Points(items, more)
<1> SUFFICES ASSUME NEW k \in Key, items[k] > 0
             PROVE  \E n \in DOMAIN more : Leads(more, n, items[k], k)
  BY DEF Points
<1>1. PICK n \in DOMAIN lines : Leads(lines, n, items[k], k)
  BY DEF Points
<1>2. n \in DOMAIN more /\ more[n] = lines[n]
  BY SeqFacts DEF Continues
<1>3. Leads(more, n, items[k], k)
  BY <1>1, <1>2 DEF Leads
<1> QED
  BY <1>2, <1>3

\* One line more.
LEMMA AppendContinues ==
  ASSUME NEW lines \in Seq(LineSet), NEW line \in LineSet
  PROVE  Continues(Append(lines, line), lines)
<1>1. Len(lines) \in Nat
  BY SeqFacts
<1> QED
  BY <1>1, AppendFacts DEF Continues

\* The stable ids that from_events finds lead to lines with those ids.
LEMMA LearnedPoints ==
  ASSUME NEW lines \in Seq(LineSet)
  PROVE  Points(Learned(lines).items, lines)
<1> DEFINE T == {s \in Seq(LineSet) : Points(Learned(s).items, s)}
<1>1. <<>> \in T
  <2>1. \A k \in Key : Nothing.items[k] = 0
    BY DEF Nothing, NoItems
  <2>2. <<>> \in Seq(LineSet) /\ ~(0 > 0)
    OBVIOUS
  <2>3. Points(Learned(<<>>).items, <<>>)
    BY <2>1, <2>2, LearnedEmpty DEF Points
  <2> QED
    BY <2>2, <2>3
<1>2. ASSUME NEW s \in Seq(LineSet), NEW line \in LineSet, s \in T
      PROVE  Append(s, line) \in T
  <2> DEFINE more == Append(s, line)
             old == Learned(s).items
             new == Learned(more).items
  <2>1. /\ more \in Seq(LineSet) /\ DOMAIN more = 1..(Len(s) + 1) /\ Len(s) \in Nat
        /\ more[Len(s) + 1] = line
    BY AppendFacts, SeqFacts
  <2>2. Learned(s) \in KnownSet /\ Learned(more) = Learn(Learned(s), line)
    BY LearnedType, LearnedMore
  <2>3. Points(old, more)
    BY <1>2, <2>1, AppendContinues, PointsLater
  <2>4. Points(new, more)
    <3>1. CASE line.type = "content"
      <4>1. PICK i \in Item : Holds(ContentOf[i], line)
        BY <3>1, LineFacts
      <4>2. /\ ContentOf[i] \in Content /\ KeyOf[i] \in Key \cup {NoKey}
            /\ KeyIn[ContentOf[i]] \in {NoKey, KeyOf[i]} /\ NoKey \notin Key
        BY ItemFacts, RolloutAssumption
      <4>3. /\ \A k \in Key : k = KeyIn[ContentOf[i]] => new[k] = line.seq
            /\ \A k \in Key : k # KeyIn[ContentOf[i]] => new[k] = old[k]
        BY <2>2, <4>1, <4>2, LearnItem
      <4> HIDE DEF new, old, more
      <4> SUFFICES ASSUME NEW k \in Key, new[k] > 0
                   PROVE  \E n \in DOMAIN more : Leads(more, n, new[k], k)
        BY DEF Points
      <4>4. CASE k = KeyIn[ContentOf[i]]
        <5>1. new[k] = line.seq /\ KeyOf[i] = k
          BY <4>2, <4>3, <4>4
        <5>2. Leads(more, Len(s) + 1, new[k], k)
          BY <2>1, <4>1, <5>1 DEF Leads, Holds
        <5>3. Len(s) + 1 \in DOMAIN more
          BY <2>1
        <5> QED
          BY <5>2, <5>3
      <4>5. CASE k # KeyIn[ContentOf[i]]
        <5>1. new[k] = old[k]
          BY <4>3, <4>5
        <5> QED
          BY <2>3, <5>1 DEF Points
      <4> QED
        BY <4>4, <4>5
    <3>2. CASE line.type # "content"
      <4>1. new = old
        BY <2>2, <3>2, LearnFields
      <4> QED
        BY <2>3, <4>1
    <3> QED
      BY <3>1, <3>2
  <2> QED
    BY <2>1, <2>4
<1> HIDE DEF T
<1>3. \A s \in Seq(LineSet) : s \in T
  BY <1>1, <1>2, AppendInduction
<1> QED
  BY <1>3 DEF T

\* The numbers are those of different lines that hold x.
RefersTo(seqs, x, lines) ==
    /\ \A o \in DOMAIN seqs : \E n \in DOMAIN lines :
          Holds(x, lines[n]) /\ lines[n].seq = seqs[o]
    /\ \A o, p \in DOMAIN seqs : seqs[o] = seqs[p] => o = p

\* The lines before another have smaller numbers.
LEMMA AscendingPrefix ==
  ASSUME NEW lines \in Seq(LineSet), NEW more \in Seq(LineSet), Continues(more, lines),
         Ascending(more)
  PROVE  Ascending(lines)
<1>1. DOMAIN lines = 1..Len(lines) /\ DOMAIN more = 1..Len(more)
      /\ Len(lines) \in Nat /\ Len(more) \in Nat
  BY SeqFacts
<1>2. \A n \in DOMAIN lines : n \in DOMAIN more /\ more[n] = lines[n]
  BY <1>1 DEF Continues
<1> QED
  BY <1>2 DEF Ascending

\* References to a content stay right when the file grows.
LEMMA RefersLater ==
  ASSUME NEW lines \in Seq(LineSet), NEW more \in Seq(LineSet), Continues(more, lines),
         NEW seqs, NEW x, RefersTo(seqs, x, lines)
  PROVE  RefersTo(seqs, x, more)
<1>1. DOMAIN lines = 1..Len(lines) /\ DOMAIN more = 1..Len(more)
      /\ Len(lines) \in Nat /\ Len(more) \in Nat
  BY SeqFacts
<1>2. \A n \in DOMAIN lines : n \in DOMAIN more /\ more[n] = lines[n]
  BY <1>1 DEF Continues
<1> QED
  BY <1>2 DEF RefersTo

\* A new line of a content is one reference more.
LEMMA RefersMore ==
  ASSUME NEW lines \in Seq(LineSet), NEW line \in LineSet, NEW x,
         Holds(x, line), Ascending(Append(lines, line)),
         NEW seqs \in Seq(Nat), RefersTo(seqs, x, lines)
  PROVE  RefersTo(Append(seqs, line.seq), x, Append(lines, line))
<1> DEFINE more == Append(lines, line)
           N == Len(lines) + 1
           refs == Append(seqs, line.seq)
           P == Len(seqs) + 1
<1>1. /\ more \in Seq(LineSet) /\ DOMAIN more = 1..N /\ more[N] = line
      /\ Len(lines) \in Nat /\ DOMAIN lines = 1..Len(lines)
      /\ \A n \in DOMAIN lines : more[n] = lines[n]
  BY AppendFacts, SeqFacts
<1>2. line.seq \in Nat /\ line.seq > 0
  BY LineFacts DEF Holds
<1>3. /\ DOMAIN refs = 1..P /\ refs[P] = line.seq
      /\ Len(seqs) \in Nat /\ DOMAIN seqs = 1..Len(seqs)
      /\ \A o \in DOMAIN seqs : refs[o] = seqs[o]
  BY <1>2, AppendFacts, SeqFacts
<1>4. RefersTo(seqs, x, more)
  BY <1>1, AppendContinues, RefersLater
<1>5. Ascending(more)
  OBVIOUS
<1> HIDE DEF more, refs
<1>6. \A o \in DOMAIN seqs : seqs[o] # line.seq
  <2> SUFFICES ASSUME NEW o \in DOMAIN seqs PROVE seqs[o] # line.seq
    OBVIOUS
  <2>1. PICK n \in DOMAIN lines : lines[n].seq = seqs[o]
    BY DEF RefersTo
  <2>2. n \in DOMAIN more /\ N \in DOMAIN more /\ n < N /\ more[n] = lines[n]
    BY <1>1
  <2>3. more[n].seq < more[N].seq
    BY <1>1, <1>2, <1>5, <2>2 DEF Ascending
  <2>4. lines[n].seq \in Nat
    BY LineFacts, SeqFacts
  <2> QED
    BY <1>1, <1>2, <2>1, <2>2, <2>3, <2>4
<1>7. \A o \in DOMAIN refs : o = P \/ o \in DOMAIN seqs
  BY <1>3
<1>8. ASSUME NEW o \in DOMAIN refs
      PROVE  \E n \in DOMAIN more : Holds(x, more[n]) /\ more[n].seq = refs[o]
  <2>1. CASE o = P
    <3>1. N \in DOMAIN more
      BY <1>1
    <3> QED
      BY <1>1, <1>3, <2>1, <3>1
  <2>2. CASE o \in DOMAIN seqs
    BY <1>3, <1>4, <2>2 DEF RefersTo
  <2> QED
    BY <1>7, <2>1, <2>2
<1>9. ASSUME NEW o \in DOMAIN refs, NEW p \in DOMAIN refs, refs[o] = refs[p]
      PROVE  o = p
  <2>1. CASE o \in DOMAIN seqs /\ p \in DOMAIN seqs
    BY <1>3, <1>9, <2>1 DEF RefersTo
  <2>2. CASE o = P /\ p \in DOMAIN seqs
    BY <1>3, <1>6, <1>9, <2>2
  <2>3. CASE p = P /\ o \in DOMAIN seqs
    BY <1>3, <1>6, <1>9, <2>3
  <2> QED
    BY <1>7, <2>1, <2>2, <2>3
<1>10. RefersTo(refs, x, more)
  BY <1>8, <1>9 DEF RefersTo
<1> QED
  BY <1>10 DEF refs, more

\* The references from_events finds are as many lines.
LEMMA LearnedRefs ==
  ASSUME NEW lines \in Seq(LineSet), Ascending(lines), NEW x \in Content
  PROVE  RefersTo(Learned(lines).events[x], x, lines)
<1> DEFINE T == {s \in Seq(LineSet) : Ascending(s) => RefersTo(Learned(s).events[x], x, s)}
<1>0. \A s : RefersTo(NoRefs[x], x, s)
  BY DEF RefersTo, NoRefs
<1>1. <<>> \in T
  <2>1. Nothing.events = NoRefs /\ <<>> \in Seq(LineSet)
    BY DEF Nothing
  <2> QED
    BY <1>0, <2>1, LearnedEmpty
<1>2. ASSUME NEW s \in Seq(LineSet), NEW line \in LineSet, s \in T
      PROVE  Append(s, line) \in T
  <2> DEFINE more == Append(s, line)
  <2>1. more \in Seq(LineSet) /\ Continues(more, s)
    BY AppendFacts, AppendContinues
  <2>2. Learned(s) \in KnownSet /\ Learned(more) = Learn(Learned(s), line)
    BY LearnedType, LearnedMore
  <2>3. ASSUME Ascending(more) PROVE RefersTo(Learned(more).events[x], x, more)
    <3>1. RefersTo(Learned(s).events[x], x, s)
      BY <1>2, <2>1, <2>3, AscendingPrefix
    <3>2. RefersTo(Learned(s).events[x], x, more)
      BY <2>1, <3>1, RefersLater
    <3>3. CASE line.type = "window"
      <4>1. Learned(more).events = NoRefs
        BY <2>2, <3>3, LearnFields
      <4> QED
        BY <1>0, <4>1
    <3>4. CASE line.type = "content"
      <4>1. PICK i \in Item : Holds(ContentOf[i], line)
        BY <3>4, LineFacts
      <4>2. ContentOf[i] \in Content
        BY ItemFacts
      <4>3. Learned(more).events
               = [Learned(s).events EXCEPT ![ContentOf[i]] = Append(@, line.seq)]
        <5>1. Learn(Learned(s), line).events
                 = [Learned(s).events EXCEPT ![ContentOf[i]] = Append(@, line.seq)]
          BY <2>2, <4>1, <4>2, LearnContent
        <5> QED
          BY <2>2, <5>1
      <4>4. Learned(s).events \in RefSet
        BY <2>2 DEF KnownSet
      <4>5. CASE x = ContentOf[i]
        <5>1. Learned(more).events[x] = Append(Learned(s).events[x], line.seq)
          BY <4>3, <4>4, <4>5 DEF RefSet
        <5>2. Learned(s).events[x] \in Seq(Nat)
          BY <4>4 DEF RefSet
        <5>3. Holds(x, line)
          BY <4>1, <4>5
        <5>4. RefersTo(Append(Learned(s).events[x], line.seq), x, more)
          BY <2>3, <3>1, <5>2, <5>3, RefersMore
        <5> QED
          BY <5>1, <5>4
      <4>6. CASE x # ContentOf[i]
        <5>1. Learned(more).events[x] = Learned(s).events[x]
          BY <4>3, <4>4, <4>6 DEF RefSet
        <5> QED
          BY <3>2, <5>1
      <4> QED
        BY <4>5, <4>6
    <3>5. CASE line.type \notin {"window", "content"}
      <4>1. Learned(more).events = Learned(s).events
        BY <2>2, <3>5, LearnFields
      <4> QED
        BY <3>2, <4>1
    <3> QED
      BY <3>3, <3>4, <3>5
  <2> QED
    BY <2>1, <2>3
<1> HIDE DEF T
<1>3. \A s \in Seq(LineSet) : s \in T
  BY <1>1, <1>2, AppendInduction
<1> QED
  BY <1>3 DEF T

-----------------------------------------------------------------------------
(* What a writer knows after one line more.                                  *)

\* A line that is neither content nor window.
LEMMA KnowsControl ==
  ASSUME NEW lines \in Seq(LineSet), NEW line \in LineSet, NEW events, NEW items,
         Knows(events, items, lines), line.type \notin {"window", "content"}
  PROVE  /\ Knows(events, items, Append(lines, line))
         /\ Learned(Append(lines, line)).window = Learned(lines).window
<1> DEFINE more == Append(lines, line)
<1>1. more \in Seq(LineSet) /\ Continues(more, lines)
  BY AppendFacts, AppendContinues
<1>2. Learned(lines) \in KnownSet /\ Learned(more) = Learn(Learned(lines), line)
  BY LearnedType, LearnedMore
<1>3. /\ Learned(more).window = Learned(lines).window
      /\ Learned(more).events = Learned(lines).events
      /\ Learned(more).items = Learned(lines).items
  BY <1>2, LearnFields
<1>4. Points(items, more)
  BY <1>1, PointsLater DEF Knows
<1>5. Covers(items, more)
  BY <1>3 DEF Knows, Covers
<1> QED
  BY <1>3, <1>4, <1>5 DEF Knows

\* A window forgets the references by content.
LEMMA KnowsWindow ==
  ASSUME NEW lines \in Seq(LineSet), NEW line \in LineSet, NEW events, NEW items,
         Knows(events, items, lines), line.type = "window"
  PROVE  /\ Knows(NoRefs, items, Append(lines, line))
         /\ Learned(Append(lines, line)).window = line.body[1]
<1> DEFINE more == Append(lines, line)
<1>1. more \in Seq(LineSet) /\ Continues(more, lines)
  BY AppendFacts, AppendContinues
<1>2. Learned(lines) \in KnownSet /\ Learned(more) = Learn(Learned(lines), line)
  BY LearnedType, LearnedMore
<1>3. /\ Learned(more).window = line.body[1]
      /\ Learned(more).events = NoRefs
      /\ Learned(more).items = Learned(lines).items
  BY <1>2, LearnFields
<1>4. Points(items, more)
  BY <1>1, PointsLater DEF Knows
<1>5. Covers(items, more)
  BY <1>3 DEF Knows, Covers
<1> QED
  BY <1>3, <1>4, <1>5 DEF Knows

\* An item that leads to a line is remembered as one that does.
LEMMA RememberedPoints ==
  ASSUME NEW lines \in Seq(LineSet), NEW items \in ItemSet, Points(items, lines),
         NEW i \in Item, NEW n \in DOMAIN lines,
         lines[n].type = "content",
         \E j \in Item : /\ lines[n].body = <<ContentOf[j]>>
                         /\ KeyOf[i] # NoKey => KeyOf[j] = KeyOf[i]
  PROVE  Points(Remembered(items, i, lines[n].seq), lines)
<1> DEFINE new == Remembered(items, i, lines[n].seq)
<1>1. \A k \in Key : new[k] = IF k = KeyOf[i] THEN lines[n].seq ELSE items[k]
  BY DEF Remembered
<1> SUFFICES ASSUME NEW k \in Key, new[k] > 0
             PROVE  \E m \in DOMAIN lines : Leads(lines, m, new[k], k)
  BY DEF Points
<1> HIDE DEF new
<1>2. CASE k = KeyOf[i]
  <2>1. new[k] = lines[n].seq /\ KeyOf[i] # NoKey
    BY <1>1, <1>2, RolloutAssumption
  <2>2. Leads(lines, n, new[k], k)
    BY <1>2, <2>1 DEF Leads
  <2> QED
    BY <2>2
<1>3. CASE k # KeyOf[i]
  <2>1. new[k] = items[k]
    BY <1>1, <1>3
  <2> QED
    BY <2>1 DEF Points
<1> QED
  BY <1>2, <1>3

\* A content, with the stable id of its item.
LEMMA KnowsContent ==
  ASSUME NEW lines \in Seq(LineSet), NEW line \in LineSet, NEW events \in RefSet,
         NEW items \in ItemSet, Knows(events, items, lines),
         NEW i \in Item, Holds(ContentOf[i], line)
  PROVE  /\ Knows([events EXCEPT ![ContentOf[i]] = Append(@, line.seq)],
                  Remembered(items, i, line.seq), Append(lines, line))
         /\ Learned(Append(lines, line)).window = Learned(lines).window
<1> DEFINE more == Append(lines, line)
           new == Remembered(items, i, line.seq)
           N == Len(lines) + 1
<1>1. /\ more \in Seq(LineSet) /\ Continues(more, lines)
      /\ DOMAIN more = 1..N /\ more[N] = line /\ N \in DOMAIN more
  BY AppendFacts, AppendContinues, SeqFacts
<1>2. Learned(lines) \in KnownSet /\ Learned(more) = Learn(Learned(lines), line)
  BY LearnedType, LearnedMore
<1>3. /\ ContentOf[i] \in Content /\ KeyIn[ContentOf[i]] \in {NoKey, KeyOf[i]}
      /\ NoKey \notin Key
  BY ItemFacts, RolloutAssumption
<1>4. /\ Learned(more).window = Learned(lines).window
      /\ Learned(more).events
            = [Learned(lines).events EXCEPT ![ContentOf[i]] = Append(@, line.seq)]
  <2>1. /\ Learn(Learned(lines), line).window = Learned(lines).window
        /\ Learn(Learned(lines), line).events
              = [Learned(lines).events EXCEPT ![ContentOf[i]] = Append(@, line.seq)]
    BY <1>2, <1>3, LearnContent
  <2> QED
    BY <1>2, <2>1
<1>5. Points(items, more)
  BY <1>1, PointsLater DEF Knows
<1>6. Points(new, more)
  <2>1. more[N].type = "content" /\ more[N].body = <<ContentOf[i]>>
    BY <1>1 DEF Holds
  <2>2. Points(Remembered(items, i, more[N].seq), more)
    BY <1>1, <1>5, <2>1, RememberedPoints
  <2> QED
    BY <1>1, <2>2
<1>7. Covers(new, more)
  <2> SUFFICES ASSUME NEW k \in Key, Learned(more).items[k] > 0 PROVE new[k] > 0
    BY DEF Covers
  <2>1. new[k] = IF k = KeyOf[i] THEN line.seq ELSE items[k]
    BY DEF Remembered
  <2>2. line.seq > 0
    BY LineFacts DEF Holds
  <2>3. CASE k = KeyOf[i]
    BY <2>1, <2>2, <2>3
  <2>4. CASE k # KeyOf[i]
    <3>1. k # KeyIn[ContentOf[i]]
      BY <1>3, <2>4
    <3>2. Learned(more).items[k] = Learned(lines).items[k]
      BY <1>2, <1>3, <3>1, LearnItem
    <3>3. items[k] > 0
      BY <3>2 DEF Knows, Covers
    <3> QED
      BY <2>1, <2>4, <3>3
  <2> QED
    BY <2>3, <2>4
<1> QED
  BY <1>4, <1>6, <1>7 DEF Knows

-----------------------------------------------------------------------------
(* What a write leaves in the file.                                          *)

\* The first n of the lines all are there, the first of them spoilt perhaps.
Extended(lines, more, all, n) ==
    /\ Len(more) = Len(lines) + n
    /\ \A m \in 1..Len(lines) : more[m] = lines[m]
    /\ \A m \in 1..Len(more) : m > Len(lines) =>
          more[m] = all[m - Len(lines)] \/ more[m].type \in Broken

\* The spoilt line.
LEMMA MergedFacts ==
  ASSUME NEW tail
  PROVE  Merged(tail) \in LineSet /\ Merged(tail).type \in Broken
<1>1. <<>> \in Seq(Window \cup Content \cup Nat) /\ NoTurn \in Turn \cup {NoTurn}
  BY DEF NoTurn
<1> QED
  BY <1>1 DEF Merged, Line, LineSet, Lines, Broken, NoTurn

\* The parts of a file.
LEMMA FileFacts ==
  ASSUME NEW f \in FileSet
  PROVE  /\ f.exists \in BOOLEAN /\ f.lines \in Seq(LineSet) /\ f.tail \in Tails
         /\ f.mtime \in Nat /\ f.synced \in Nat
         /\ f = [exists |-> f.exists, lines |-> f.lines, tail |-> f.tail,
                 mtime |-> f.mtime, synced |-> f.synced]
BY DEF FileSet

\* ... make a file.
LEMMA FileMade ==
  ASSUME NEW exists \in BOOLEAN, NEW lines \in Seq(LineSet), NEW tail \in Tails,
         NEW mtime \in Nat, NEW synced \in Nat
  PROVE  [exists |-> exists, lines |-> lines, tail |-> tail, mtime |-> mtime,
          synced |-> synced] \in FileSet
BY DEF FileSet

\* Some lines joined to others.
LEMMA JoinFacts ==
  ASSUME NEW S, NEW s \in Seq(S), NEW x \in S, NEW r \in Seq(S)
  PROVE  /\ s \o <<x>> \o r \in Seq(S)
         /\ Len(s \o <<x>> \o r) = Len(s) + 1 + Len(r)
         /\ \A i \in 1..Len(s) : (s \o <<x>> \o r)[i] = s[i]
         /\ (s \o <<x>> \o r)[Len(s) + 1] = x
         /\ \A i \in 1..Len(r) : (s \o <<x>> \o r)[Len(s) + 1 + i] = r[i]
<1> DEFINE a == s \o <<x>>
<1>1. /\ a \in Seq(S) /\ Len(a) = Len(s) + 1 /\ Len(s) \in Nat /\ Len(r) \in Nat
      /\ \A i \in 1..Len(s) : a[i] = s[i]
      /\ a[Len(s) + 1] = x
  OBVIOUS
<1> HIDE DEF a
<1>2. /\ a \o r \in Seq(S) /\ Len(a \o r) = Len(a) + Len(r)
      /\ \A i \in 1..Len(a) : (a \o r)[i] = a[i]
      /\ \A i \in 1..Len(r) : (a \o r)[Len(a) + i] = r[i]
  BY <1>1
<1>3. /\ a \o r \in Seq(S) /\ Len(a \o r) = Len(s) + 1 + Len(r)
      /\ \A i \in 1..Len(s) : (a \o r)[i] = s[i]
      /\ (a \o r)[Len(s) + 1] = x
      /\ \A i \in 1..Len(r) : (a \o r)[Len(s) + 1 + i] = r[i]
  BY <1>1, <1>2
<1> QED
  BY <1>3 DEF a

\* All but the first.
LEMMA TailFacts ==
  ASSUME NEW S, NEW s \in Seq(S), s # <<>>
  PROVE  /\ Tail(s) \in Seq(S) /\ Len(Tail(s)) = Len(s) - 1
         /\ \A i \in 1..(Len(s) - 1) : Tail(s)[i] = s[i + 1]
         /\ s[1] \in S /\ Len(s) \in Nat /\ Len(s) > 0
OBVIOUS

\* What is known of a file after a write.
Grown(f, g, now) ==
    /\ Continues(g.lines, f.lines)
    /\ f.synced <= g.synced
    /\ f.exists => g.exists
    /\ \/ g.mtime = now
       \/ g.mtime = f.mtime /\ g.lines = f.lines /\ g.exists = f.exists

\* Counting from another place.
LEMMA Shift ==
  ASSUME NEW a \in Nat, NEW b \in Nat, NEW m \in Nat, m > a + 1, m <= a + b
  PROVE  /\ m - (a + 1) \in 1..(b - 1)
         /\ m = a + 1 + (m - (a + 1))
         /\ (m - (a + 1)) + 1 = m - a
OBVIOUS

\* The whole buffer.
LEMMA FlushedFacts ==
  ASSUME NEW f \in FileSet, NEW buf \in Seq(LineSet), NEW cut \in BOOLEAN, epoch \in Nat
  PROVE  /\ Flushed(f, buf, cut) \in FileSet
         /\ Flushed(f, buf, cut).exists = f.exists
         /\ Flushed(f, buf, cut).synced = f.synced
         /\ Extended(f.lines, Flushed(f, buf, cut).lines, buf, Len(buf))
         /\ Flushed(f, buf, cut).mtime = epoch \/ Flushed(f, buf, cut) = f
         /\ buf # <<>> => Flushed(f, buf, cut).tail = "none"
         /\ buf # <<>> /\ cut = (f.tail # "none") =>
               Flushed(f, buf, cut).lines[Len(f.lines) + 1] = buf[1]
         /\ buf # <<>> /\ cut # (f.tail # "none") =>
               Flushed(f, buf, cut).lines[Len(f.lines) + 1].type \in Broken
<1> DEFINE g == Flushed(f, buf, cut)
<1>0. f.lines \in Seq(LineSet) /\ Len(f.lines) \in Nat /\ Len(buf) \in Nat
  BY FileFacts, SeqFacts
<1>1. CASE buf = <<>>
  <2>1. g = f /\ Len(buf) = 0
    BY <1>1 DEF Flushed
  <2>2. Extended(f.lines, f.lines, buf, Len(buf))
    BY <1>0, <2>1 DEF Extended
  <2> QED
    BY <1>1, <2>1, <2>2
<1>2. CASE buf # <<>>
  <2> DEFINE first == IF cut = (f.tail # "none") THEN buf[1] ELSE Merged(f.tail)
             more == f.lines \o <<first>> \o Tail(buf)
  <2>1. /\ Tail(buf) \in Seq(LineSet) /\ Len(Tail(buf)) = Len(buf) - 1
        /\ \A i \in 1..(Len(buf) - 1) : Tail(buf)[i] = buf[i + 1]
        /\ buf[1] \in LineSet /\ Len(buf) > 0
    BY <1>2, TailFacts
  <2>2. /\ first \in LineSet
        /\ cut = (f.tail # "none") => first = buf[1]
        /\ cut # (f.tail # "none") => first.type \in Broken
        /\ first = buf[1] \/ first.type \in Broken
    BY <2>1, MergedFacts
  <2> HIDE DEF first
  <2>3. /\ more \in Seq(LineSet) /\ Len(more) = Len(f.lines) + 1 + Len(Tail(buf))
        /\ \A i \in 1..Len(f.lines) : more[i] = f.lines[i]
        /\ more[Len(f.lines) + 1] = first
        /\ \A i \in 1..Len(Tail(buf)) : more[Len(f.lines) + 1 + i] = Tail(buf)[i]
    BY <1>0, <2>1, <2>2, JoinFacts
  <2>4. g = [f EXCEPT !.lines = more, !.tail = "none", !.mtime = epoch]
    BY <1>2 DEF Flushed, first
  <2> HIDE DEF more
  <2>5. "none" \in Tails
    BY DEF Tails
  <2>6. /\ g \in FileSet
        /\ g.exists = f.exists /\ g.lines = more /\ g.tail = "none"
        /\ g.mtime = epoch /\ g.synced = f.synced
    <3> HIDE DEF g
    <3>0. f = [exists |-> f.exists, lines |-> f.lines, tail |-> f.tail,
               mtime |-> f.mtime, synced |-> f.synced]
      BY FileFacts
    <3>1. g = [exists |-> f.exists, lines |-> more, tail |-> "none", mtime |-> epoch,
               synced |-> f.synced]
      BY <2>4, <3>0
    <3>2. f.exists \in BOOLEAN /\ f.synced \in Nat
      BY FileFacts
    <3> QED
      BY <2>3, <2>5, <3>1, <3>2, FileMade
  <2> HIDE DEF g
  <2>7. Extended(f.lines, more, buf, Len(buf))
    <3>1. Len(more) = Len(f.lines) + Len(buf)
      BY <1>0, <2>1, <2>3
    <3>2. ASSUME NEW m \in 1..Len(more), m > Len(f.lines)
          PROVE  more[m] = buf[m - Len(f.lines)] \/ more[m].type \in Broken
      <4>1. CASE m = Len(f.lines) + 1
        <5>1. m - Len(f.lines) = 1
          BY <1>0, <4>1
        <5> QED
          BY <2>2, <2>3, <4>1, <5>1
      <4>2. CASE m # Len(f.lines) + 1
        <5> DEFINE i == m - (Len(f.lines) + 1)
        <5>0. m \in Nat /\ m > Len(f.lines) + 1 /\ m <= Len(f.lines) + Len(buf)
          BY <1>0, <3>1, <3>2, <4>2
        <5>1. i \in 1..(Len(buf) - 1) /\ m = Len(f.lines) + 1 + i /\ i + 1 = m - Len(f.lines)
          BY <1>0, <5>0, Shift
        <5>2. more[m] = Tail(buf)[i]
          BY <2>1, <2>3, <5>1
        <5> QED
          BY <2>1, <5>1, <5>2
      <4> QED
        BY <4>1, <4>2
    <3> QED
      BY <2>3, <3>1, <3>2 DEF Extended
  <2> QED
    BY <1>2, <2>2, <2>3, <2>6, <2>7 DEF g
<1> QED
  BY <1>1, <1>2

\* Part of the buffer, and part of a line.
LEMMA PartlyFacts ==
  ASSUME NEW f \in FileSet, NEW all \in Seq(LineSet), NEW cut \in BOOLEAN,
         NEW n \in 0..Len(all), NEW tail \in Tails, epoch \in Nat
  PROVE  /\ PartlyFlushed(f, all, cut, n, tail) \in FileSet
         /\ PartlyFlushed(f, all, cut, n, tail).exists = f.exists
         /\ PartlyFlushed(f, all, cut, n, tail).synced = f.synced
         /\ Extended(f.lines, PartlyFlushed(f, all, cut, n, tail).lines, all, n)
         /\ \/ PartlyFlushed(f, all, cut, n, tail).mtime = epoch
            \/ PartlyFlushed(f, all, cut, n, tail) = f
<1> DEFINE g == PartlyFlushed(f, all, cut, n, tail)
           part == SubSeq(all, 1, n)
           whole == Flushed(f, part, cut)
<1>1. part \in Seq(LineSet) /\ Len(part) = n /\ \A i \in 1..n : part[i] = all[i]
  BY PrefixFacts
<1> HIDE DEF part
<1>2. /\ whole \in FileSet /\ whole.exists = f.exists /\ whole.synced = f.synced
      /\ Extended(f.lines, whole.lines, part, n)
      /\ whole.mtime = epoch \/ whole = f
  BY <1>1, FlushedFacts
<1> HIDE DEF whole
<1>3. Extended(f.lines, whole.lines, all, n)
  <2>0. f.lines \in Seq(LineSet) /\ Len(f.lines) \in Nat /\ n \in Nat
    BY FileFacts, SeqFacts
  <2>1. ASSUME NEW m \in 1..Len(whole.lines), m > Len(f.lines)
        PROVE  whole.lines[m] = all[m - Len(f.lines)] \/ whole.lines[m].type \in Broken
    <3>1. Len(whole.lines) = Len(f.lines) + n
      BY <1>2 DEF Extended
    <3>2. m - Len(f.lines) \in 1..n
      BY <2>0, <2>1, <3>1
    <3> QED
      BY <1>1, <1>2, <2>1, <3>2 DEF Extended
  <2> QED
    BY <1>2, <2>1 DEF Extended
<1>4. CASE tail = "none"
  <2>1. g = whole
    BY <1>4 DEF PartlyFlushed, whole, part
  <2> QED
    BY <1>2, <1>3, <2>1
<1>5. CASE tail # "none"
  <2>1. PICK end \in Tails : g = [whole EXCEPT !.tail = end, !.mtime = epoch]
    <3>1. whole.tail \in Tails
      BY <1>2, FileFacts
    <3> DEFINE stuck == whole.tail = "inside" /\ ~cut
    <3>2. g = [whole EXCEPT !.tail = IF stuck THEN whole.tail ELSE tail, !.mtime = epoch]
      BY <1>5 DEF PartlyFlushed, whole, part
    <3> HIDE DEF stuck, g
    <3>3. CASE stuck
      BY <3>1, <3>2, <3>3
    <3>4. CASE ~stuck
      BY <3>2, <3>4
    <3> QED
      BY <3>3, <3>4
  <2> HIDE DEF g
  <2>2. whole = [exists |-> whole.exists, lines |-> whole.lines, tail |-> whole.tail,
                 mtime |-> whole.mtime, synced |-> whole.synced]
    BY <1>2, FileFacts
  <2>3. g = [exists |-> whole.exists, lines |-> whole.lines, tail |-> end, mtime |-> epoch,
             synced |-> whole.synced]
    BY <2>1, <2>2
  <2>4. whole.exists \in BOOLEAN /\ whole.synced \in Nat /\ whole.lines \in Seq(LineSet)
    BY <1>2, FileFacts
  <2>5. g \in FileSet
    BY <2>3, <2>4, FileMade
  <2>6. /\ g.exists = f.exists /\ g.synced = f.synced /\ g.mtime = epoch
        /\ g.lines = whole.lines
    BY <1>2, <2>3
  <2> QED
    BY <1>3, <2>5, <2>6 DEF g
<1> QED
  BY <1>4, <1>5

\* A file that has been opened is there.
LEMMA OpenedFacts ==
  ASSUME NEW f \in FileSet, epoch \in Nat
  PROVE  /\ Opened(f) \in FileSet /\ Opened(f).exists
         /\ Opened(f).lines = f.lines /\ Opened(f).tail = f.tail
         /\ Opened(f).synced = f.synced
         /\ \/ Opened(f).mtime = epoch
            \/ Opened(f) = f
         /\ f.exists => Opened(f) = f
<1>0. f.exists \in BOOLEAN
  BY FileFacts
<1>1. CASE f.exists
  BY <1>1 DEF Opened
<1>2. CASE ~f.exists
  <2> DEFINE g == Opened(f)
  <2>1. g = [f EXCEPT !.exists = TRUE, !.mtime = epoch]
    BY <1>2 DEF Opened
  <2> HIDE DEF g
  <2>2. f = [exists |-> f.exists, lines |-> f.lines, tail |-> f.tail,
             mtime |-> f.mtime, synced |-> f.synced]
    BY FileFacts
  <2>3. g = [exists |-> TRUE, lines |-> f.lines, tail |-> f.tail, mtime |-> epoch,
             synced |-> f.synced]
    BY <2>1, <2>2
  <2>4. f.synced \in Nat /\ f.lines \in Seq(LineSet) /\ f.tail \in Tails
    BY FileFacts
  <2>5. g \in FileSet
    BY <2>3, <2>4, FileMade
  <2> QED
    BY <1>2, <2>3, <2>5 DEF g
<1> QED
  BY <1>0, <1>1, <1>2

\* A file with lines of a buffer at its end.
Gains(f, g, all, n, now) ==
    /\ g.exists
    /\ g.synced = f.synced
    /\ Extended(f.lines, g.lines, all, n)
    /\ g.mtime = now \/ g = f

\* ... has grown.
LEMMA GainsGrown ==
  ASSUME NEW f \in FileSet, NEW g \in FileSet, NEW now \in Nat, now > 0, FileOk(f, now),
         NEW all, NEW n \in Nat, Gains(f, g, all, n, now)
  PROVE  Grown(f, g, now) /\ FileOk(g, now)
<1>1. /\ f.lines \in Seq(LineSet) /\ g.lines \in Seq(LineSet) /\ f.synced \in Nat
      /\ f.mtime \in Nat /\ g.mtime \in Nat
  BY FileFacts
<1>2. Len(f.lines) \in Nat /\ Len(g.lines) \in Nat /\ Len(g.lines) = Len(f.lines) + n
  BY <1>1, SeqFacts DEF Gains, Extended
<1>3. Continues(g.lines, f.lines)
  BY <1>2 DEF Continues, Gains, Extended
<1>4. g.synced = f.synced /\ g.exists
  BY DEF Gains
<1>5. g.mtime = now \/ g = f
  BY DEF Gains
<1>6. f.synced <= Len(f.lines) /\ f.mtime <= now /\ (f.exists => f.mtime > 0)
  BY DEF FileOk
<1>7. Grown(f, g, now)
  <2>1. f.synced <= g.synced
    BY <1>1, <1>4
  <2>2. \/ g.mtime = now
        \/ g.mtime = f.mtime /\ g.lines = f.lines /\ g.exists = f.exists
    BY <1>5
  <2> QED
    BY <1>3, <1>4, <2>1, <2>2 DEF Grown
<1>8. FileOk(g, now)
  <2>1. g.synced <= Len(g.lines)
    BY <1>1, <1>2, <1>4, <1>6
  <2>2. CASE g.mtime = now
    BY <1>4, <2>1, <2>2 DEF FileOk
  <2>3. CASE g = f
    BY <2>3
  <2> QED
    BY <1>5, <2>2, <2>3
<1> QED
  BY <1>7, <1>8

\* A write that fails.
LEMMA PartlyGains ==
  ASSUME NEW f \in FileSet, NEW all \in Seq(LineSet), NEW cut \in BOOLEAN,
         NEW n \in 0..Len(all), NEW tail \in Tails, epoch \in Nat
  PROVE  /\ PartlyFlushed(Opened(f), all, cut, n, tail) \in FileSet
         /\ Gains(f, PartlyFlushed(Opened(f), all, cut, n, tail), all, n, epoch)
<1> DEFINE h == Opened(f)
           g == PartlyFlushed(h, all, cut, n, tail)
<1>1. /\ h \in FileSet /\ h.exists /\ h.lines = f.lines /\ h.synced = f.synced
      /\ h.mtime = epoch \/ h = f
  BY OpenedFacts
<1> HIDE DEF h
<1>2. /\ g \in FileSet /\ g.exists = h.exists /\ g.synced = h.synced
      /\ Extended(h.lines, g.lines, all, n)
      /\ g.mtime = epoch \/ g = h
  BY <1>1, PartlyFacts
<1> HIDE DEF g
<1>3. g \in FileSet /\ Gains(f, g, all, n, epoch)
  BY <1>1, <1>2 DEF Gains
<1> QED
  BY <1>3 DEF g, h

\* A write that succeeds.
LEMMA FlushedGains ==
  ASSUME NEW f \in FileSet, NEW all \in Seq(LineSet), NEW cut \in BOOLEAN, epoch \in Nat
  PROVE  /\ Flushed(Opened(f), all, cut) \in FileSet
         /\ Gains(f, Flushed(Opened(f), all, cut), all, Len(all), epoch)
<1> DEFINE h == Opened(f)
           g == Flushed(h, all, cut)
<1>1. /\ h \in FileSet /\ h.exists /\ h.lines = f.lines /\ h.synced = f.synced
      /\ h.mtime = epoch \/ h = f
  BY OpenedFacts
<1> HIDE DEF h
<1>2. /\ g \in FileSet /\ g.exists = h.exists /\ g.synced = h.synced
      /\ Extended(h.lines, g.lines, all, Len(all))
      /\ g.mtime = epoch \/ g = h
  BY <1>1, FlushedFacts
<1> HIDE DEF g
<1>3. g \in FileSet /\ Gains(f, g, all, Len(all), epoch)
  BY <1>1, <1>2 DEF Gains
<1> QED
  BY <1>3 DEF g, h

-----------------------------------------------------------------------------
(* Lines that wait in the buffer, and where they go.                         *)

\* A line with a new number waits behind the others.
LEMMA QueueMore ==
  ASSUME NEW buf \in Seq(LineSet), NEW lines \in Seq(LineSet), NEW line \in LineSet,
         Queue(buf, lines),
         \A n \in DOMAIN buf : buf[n].seq < line.seq,
         \A n \in DOMAIN lines : lines[n].seq < line.seq
  PROVE  Queue(Append(buf, line), lines)
<1> DEFINE all == Append(buf, line)
           N == Len(buf) + 1
<1>1. /\ DOMAIN all = 1..N /\ all[N] = line /\ Len(buf) \in Nat /\ DOMAIN buf = 1..Len(buf)
      /\ \A i \in DOMAIN buf : all[i] = buf[i]
  BY AppendFacts, SeqFacts
<1> HIDE DEF all
<1>2. ASSUME NEW n \in DOMAIN all
      PROVE  /\ \A m \in DOMAIN lines : lines[m].seq < all[n].seq
             /\ \A m \in DOMAIN all : m < n => all[m].seq < all[n].seq
  <2>1. CASE n = N
    <3>1. \A m \in DOMAIN all : m < n => m \in DOMAIN buf
      BY <1>1, <2>1
    <3> QED
      BY <1>1, <2>1, <3>1
  <2>2. CASE n \in DOMAIN buf
    <3>1. \A m \in DOMAIN all : m < n => m \in DOMAIN buf
      BY <1>1, <2>2
    <3> QED
      BY <1>1, <2>2, <3>1 DEF Queue
  <2>3. n = N \/ n \in DOMAIN buf
    BY <1>1
  <2> QED
    BY <2>1, <2>2, <2>3
<1>3. Queue(all, lines)
  BY <1>2 DEF Queue
<1> QED
  BY <1>3 DEF all

\* Where a line of the file comes from.
LEMMA ExtendedFrom ==
  ASSUME NEW lines \in Seq(LineSet), NEW more \in Seq(LineSet), NEW all \in Seq(LineSet),
         NEW n \in 0..Len(all), Extended(lines, more, all, n), NEW m \in DOMAIN more
  PROVE  \/ m \in DOMAIN lines /\ more[m] = lines[m]
         \/ /\ m > Len(lines) /\ m - Len(lines) \in DOMAIN all /\ m - Len(lines) <= n
            /\ more[m] = all[m - Len(lines)]
         \/ m > Len(lines) /\ more[m].seq = 0 /\ more[m].turn = NoTurn
            /\ more[m].type \in Broken
<1>1. /\ Len(lines) \in Nat /\ DOMAIN lines = 1..Len(lines) /\ DOMAIN all = 1..Len(all)
      /\ Len(all) \in Nat /\ Len(more) \in Nat /\ DOMAIN more = 1..Len(more)
      /\ Len(more) = Len(lines) + n
  BY SeqFacts DEF Extended
<1>2. CASE m <= Len(lines)
  BY <1>1, <1>2 DEF Extended
<1>3. CASE m > Len(lines)
  <2>1. m - Len(lines) \in 1..n /\ n <= Len(all)
    BY <1>1, <1>3
  <2>2. m - Len(lines) \in DOMAIN all /\ m - Len(lines) <= n
    BY <1>1, <2>1
  <2>3. more[m] = all[m - Len(lines)] \/ more[m].type \in Broken
    BY <1>1, <1>3 DEF Extended
  <2>4. more[m] \in LineSet
    BY <1>1, SeqFacts
  <2>5. more[m].type \in Broken => more[m].seq = 0 /\ more[m].turn = NoTurn
    BY <2>4, LineFacts
  <2> QED
    BY <1>3, <2>2, <2>3, <2>5
<1> QED
  BY <1>1, <1>2, <1>3

\* Numbers of lines are numbers.
LEMMA SeqNumbers ==
  ASSUME NEW lines \in Seq(LineSet)
  PROVE  \A n \in DOMAIN lines : lines[n].seq \in Nat /\ lines[n] \in LineSet
BY SeqFacts, LineFacts

\* The numbers go on.
LEMMA QueueAscending ==
  ASSUME NEW lines \in Seq(LineSet), NEW more \in Seq(LineSet), NEW all \in Seq(LineSet),
         NEW n \in 0..Len(all), Extended(lines, more, all, n),
         Queue(all, lines), Ascending(lines)
  PROVE  Ascending(more)
<1> SUFFICES ASSUME NEW i \in DOMAIN more, NEW m \in DOMAIN more, i < m, more[m].seq > 0
             PROVE  more[i].seq < more[m].seq
  BY DEF Ascending
<1>1. /\ Len(lines) \in Nat /\ DOMAIN lines = 1..Len(lines)
      /\ i \in Nat /\ m \in Nat
  BY SeqFacts
<1>2. CASE m \in DOMAIN lines /\ more[m] = lines[m]
  <2>1. i \in DOMAIN lines
    BY <1>1, <1>2, SeqFacts
  <2>2. more[i] = lines[i]
    BY <1>1, <2>1 DEF Extended
  <2> QED
    BY <1>2, <2>1, <2>2 DEF Ascending
<1>3. CASE /\ m > Len(lines) /\ m - Len(lines) \in DOMAIN all
           /\ more[m] = all[m - Len(lines)]
  <2>1. CASE i \in DOMAIN lines /\ more[i] = lines[i]
    BY <1>3, <2>1 DEF Queue
  <2>2. CASE i > Len(lines) /\ i - Len(lines) \in DOMAIN all /\ more[i] = all[i - Len(lines)]
    <3>1. i - Len(lines) < m - Len(lines)
      BY <1>1
    <3> QED
      BY <1>3, <2>2, <3>1 DEF Queue
  <2>3. CASE more[i].seq = 0
    BY <2>3, SeqNumbers
  <2> QED
    BY <2>1, <2>2, <2>3, ExtendedFrom
<1>4. CASE more[m].seq = 0
  BY <1>4
<1> QED
  BY <1>2, <1>3, <1>4, ExtendedFrom

\* What is left of the buffer.
Rest(kept, all, n) ==
    /\ Len(kept) <= Len(all) - n
    /\ \A i \in 1..Len(kept) : kept[i] = all[n + i]

\* The rest of the buffer still waits.
LEMMA QueueRest ==
  ASSUME NEW lines \in Seq(LineSet), NEW more \in Seq(LineSet), NEW all \in Seq(LineSet),
         NEW n \in 0..Len(all), Extended(lines, more, all, n), Queue(all, lines),
         NEW kept \in Seq(LineSet), Rest(kept, all, n)
  PROVE  Queue(kept, more)
<1>1. /\ Len(kept) \in Nat /\ DOMAIN kept = 1..Len(kept) /\ DOMAIN all = 1..Len(all)
      /\ Len(all) \in Nat /\ n \in Nat /\ Len(lines) \in Nat
      /\ DOMAIN lines = 1..Len(lines)
  BY SeqFacts
<1>2. \A i \in DOMAIN kept : n + i \in DOMAIN all /\ kept[i] = all[n + i]
  BY <1>1 DEF Rest
<1> SUFFICES ASSUME NEW i \in DOMAIN kept
             PROVE  /\ \A m \in DOMAIN more : more[m].seq < kept[i].seq
                    /\ \A m \in DOMAIN kept : m < i => kept[m].seq < kept[i].seq
  BY DEF Queue
<1>3. ASSUME NEW m \in DOMAIN more PROVE more[m].seq < kept[i].seq
  <2>1. CASE m \in DOMAIN lines /\ more[m] = lines[m]
    BY <1>2, <2>1 DEF Queue
  <2>2. CASE /\ m > Len(lines) /\ m - Len(lines) \in DOMAIN all /\ m - Len(lines) <= n
             /\ more[m] = all[m - Len(lines)]
    <3>1. m - Len(lines) < n + i
      BY <1>1, <2>2
    <3> QED
      BY <1>2, <2>2, <3>1 DEF Queue
  <2>3. CASE m > Len(lines) /\ more[m].seq = 0
    <3>0. Len(more) = Len(lines) + n /\ DOMAIN more = 1..Len(more) /\ Len(more) \in Nat
      BY SeqFacts DEF Extended
    <3>1. 1 <= n /\ 1 \in DOMAIN all /\ 1 < n + i
      BY <1>1, <2>3, <3>0
    <3>2. all[1].seq < kept[i].seq
      BY <1>2, <3>1 DEF Queue
    <3>3. all[1].seq \in Nat /\ kept[i].seq \in Nat
      BY <3>1, SeqNumbers
    <3> QED
      BY <2>3, <3>2, <3>3
  <2> QED
    BY <2>1, <2>2, <2>3, ExtendedFrom
<1>4. ASSUME NEW m \in DOMAIN kept, m < i PROVE kept[m].seq < kept[i].seq
  <2>1. n + m < n + i
    BY <1>1, <1>4
  <2> QED
    BY <1>2, <2>1 DEF Queue
<1> QED
  BY <1>3, <1>4

\* No number is greater than the last one given out.
LEMMA ExtendedNumbers ==
  ASSUME NEW lines \in Seq(LineSet), NEW more \in Seq(LineSet), NEW all \in Seq(LineSet),
         NEW n \in 0..Len(all), Extended(lines, more, all, n), NEW q \in Nat,
         \A i \in DOMAIN lines : lines[i].seq <= q,
         \A i \in DOMAIN all : all[i].seq <= q
  PROVE  \A m \in DOMAIN more : more[m].seq <= q
<1> SUFFICES ASSUME NEW m \in DOMAIN more PROVE more[m].seq <= q
  OBVIOUS
<1>1. CASE more[m].seq = 0
  BY <1>1
<1> QED
  BY <1>1, ExtendedFrom

\* A line that an item refers to is still there when the file has grown.
LEMMA LedLater ==
  ASSUME NEW lines \in Seq(LineSet), NEW more \in Seq(LineSet), Continues(more, lines),
         NEW seq, NEW i, Led(lines, seq, i)
  PROVE  Led(more, seq, i)
<1>1. PICK n \in DOMAIN lines : lines[n].seq = seq /\ Stands(lines[n], i)
  BY DEF Led
<1>2. n \in DOMAIN more /\ more[n] = lines[n]
  BY SeqFacts DEF Continues
<1> QED
  BY <1>1, <1>2 DEF Led

\* ... so that references that fit still do.
LEMMA FitsLater ==
  ASSUME NEW lines \in Seq(LineSet), NEW more \in Seq(LineSet), Continues(more, lines),
         NEW refs, NEW request, Fits(lines, refs, request)
  PROVE  Fits(more, refs, request)
<1>1. \A p \in DOMAIN refs : Led(more, refs[p], request[p])
  BY LedLater DEF Fits
<1> QED
  BY <1>1 DEF Fits

\* The lines up to a place.
LEMMA SamePrefix ==
  ASSUME NEW lines \in Seq(LineSet), NEW more \in Seq(LineSet), Continues(more, lines),
         NEW n \in 0..Len(lines)
  PROVE  SubSeq(more, 1, n) = SubSeq(lines, 1, n)
<1>1. Len(lines) \in Nat /\ Len(more) \in Nat /\ Len(lines) <= Len(more) /\ n \in 0..Len(more)
  BY SeqFacts DEF Continues
<1>2. /\ SubSeq(lines, 1, n) \in Seq(LineSet) /\ Len(SubSeq(lines, 1, n)) = n
      /\ \A i \in 1..n : SubSeq(lines, 1, n)[i] = lines[i]
  BY PrefixFacts
<1>3. /\ SubSeq(more, 1, n) \in Seq(LineSet) /\ Len(SubSeq(more, 1, n)) = n
      /\ \A i \in 1..n : SubSeq(more, 1, n)[i] = more[i]
  BY <1>1, PrefixFacts
<1>4. \A i \in 1..n : more[i] = lines[i]
  BY <1>1 DEF Continues
<1> QED
  BY <1>2, <1>3, <1>4, SameSeq

\* A file that has grown continues what it was.
LEMMA ExtendedContinues ==
  ASSUME NEW lines \in Seq(LineSet), NEW more \in Seq(LineSet), NEW all, NEW n \in Nat,
         Extended(lines, more, all, n)
  PROVE  Continues(more, lines)
<1>1. Len(lines) \in Nat
  BY SeqFacts
<1> QED
  BY <1>1 DEF Extended, Continues

\* The contexts of a file, with the requests of their turns.
LEMMA LinesLater ==
  ASSUME NEW lines \in Seq(LineSet), NEW more \in Seq(LineSet), NEW all \in Seq(LineSet),
         NEW n \in 0..Len(all), Extended(lines, more, all, n), Queue(all, lines),
         NEW writers, NEW after, NEW t \in Turn, LinesOk(lines, writers),
         WaitsOk(all, lines, after[t].request),
         \A i \in DOMAIN all : all[i].turn = t,
         \A u \in Turn : after[u].request = writers[u].request
  PROVE  LinesOk(more, after)
<1>1. Ascending(more)
  BY QueueAscending DEF LinesOk
<1>2. ASSUME NEW m \in DOMAIN more, more[m].type = "context"
      PROVE  ContextOk(more, m, after[more[m].turn].request)
  <2>1. /\ Len(lines) \in Nat /\ DOMAIN lines = 1..Len(lines) /\ m \in Nat /\ m > 0
        /\ Len(more) \in Nat /\ DOMAIN more = 1..Len(more) /\ n \in Nat
    BY SeqFacts
  <2>2. Continues(more, lines)
    BY <2>1, ExtendedContinues
  <2>3. CASE m \in DOMAIN lines /\ more[m] = lines[m]
    <3>1. lines[m].turn \in Turn
      BY <1>2, <2>3, SeqNumbers, LineFacts
    <3>2. ContextOk(lines, m, writers[lines[m].turn].request)
      BY <1>2, <2>3 DEF LinesOk
    <3>3. m - 1 \in 0..Len(lines)
      BY <2>1, <2>3
    <3>4. SubSeq(more, 1, m - 1) = SubSeq(lines, 1, m - 1)
      BY <2>2, <3>3, SamePrefix
    <3> QED
      BY <2>3, <3>1, <3>2, <3>4 DEF ContextOk
  <2>4. CASE /\ m > Len(lines) /\ m - Len(lines) \in DOMAIN all
             /\ more[m] = all[m - Len(lines)]
    <3>1. Fits(lines, more[m].body, after[t].request) /\ more[m].turn = t
      BY <1>2, <2>4 DEF WaitsOk
    <3> DEFINE front == SubSeq(more, 1, m - 1)
    <3>2. m - 1 \in 0..Len(more) /\ Len(lines) <= m - 1
      BY <2>1, <2>4
    <3>3. /\ front \in Seq(LineSet) /\ Len(front) = m - 1
          /\ \A i \in 1..(m - 1) : front[i] = more[i]
      BY <3>2, PrefixFacts
    <3> HIDE DEF front
    <3>4. Continues(front, lines)
      <4>1. \A i \in 1..Len(lines) : i \in 1..(m - 1)
        BY <2>1, <3>2
      <4> QED
        BY <2>2, <3>2, <3>3, <4>1 DEF Continues
    <3>5. Fits(front, more[m].body, after[t].request)
      BY <3>1, <3>3, <3>4, FitsLater
    <3> QED
      BY <3>1, <3>5 DEF ContextOk, front
  <2>5. CASE more[m].type \in Broken
    BY <1>2, <2>5 DEF Broken
  <2> QED
    BY <2>3, <2>4, <2>5, ExtendedFrom
<1> QED
  BY <1>1, <1>2 DEF LinesOk

\* What describes the beginning of a file still does when the file has grown.
LEMMA DescribesLater ==
  ASSUME NEW state \in States, NEW f \in FileSet, NEW g \in FileSet, NEW now \in Nat,
         now > 0, FileOk(f, now), Grown(f, g, now), Describes(state, f, now)
  PROVE  Describes(state, g, now)
<1> DEFINE M == state.stamp.mtime
           L == state.stamp.lines
<1>1. /\ M \in Nat /\ L \in Nat
      /\ f.lines \in Seq(LineSet) /\ g.lines \in Seq(LineSet)
      /\ f.mtime \in Nat /\ g.mtime \in Nat /\ f.exists \in BOOLEAN
  BY FileFacts DEF States
<1>2. Len(f.lines) \in Nat /\ Len(g.lines) \in Nat
  BY <1>1, SeqFacts
<1>3. Continues(g.lines, f.lines) /\ Len(f.lines) <= Len(g.lines)
  BY DEF Grown, Continues
<1>4. f.mtime <= now /\ (~f.exists => f.mtime = 0)
  BY DEF FileOk, NoFile
<1>5. \/ g.mtime = now
      \/ g.mtime = f.mtime /\ g.lines = f.lines /\ g.exists = f.exists
  BY DEF Grown
<1>6. /\ M <= f.mtime
      /\ f.mtime = now /\ M = now => L <= Len(f.lines)
      /\ f.exists /\ f.mtime = M /\ L <= Len(f.lines) => Agrees(state, SubSeq(f.lines, 1, L))
  BY DEF Describes
<1>7. state.count = L /\ state.stamp.bad = 0 /\ state.stamp.tail = "none"
  BY DEF Describes
<1> HIDE DEF M, L
<1>8. M <= g.mtime
  BY <1>1, <1>4, <1>5, <1>6
<1>9. M = now => f.mtime = now /\ f.exists /\ L <= Len(f.lines)
  BY <1>1, <1>4, <1>6
<1>10. g.mtime = now /\ M = now => L <= Len(g.lines)
  BY <1>1, <1>2, <1>3, <1>9
<1>11. ASSUME g.exists, g.mtime = M, L <= Len(g.lines)
       PROVE  Agrees(state, SubSeq(g.lines, 1, L))
  <2>1. CASE g.mtime = now
    <3>1. f.exists /\ f.mtime = M /\ L <= Len(f.lines)
      BY <1>9, <1>11, <2>1
    <3>2. L \in 0..Len(f.lines)
      BY <1>1, <1>2, <3>1
    <3>3. SubSeq(g.lines, 1, L) = SubSeq(f.lines, 1, L)
      BY <1>1, <1>3, <3>2, SamePrefix
    <3> QED
      BY <1>6, <3>1, <3>3
  <2>2. CASE g.mtime = f.mtime /\ g.lines = f.lines /\ g.exists = f.exists
    BY <1>6, <1>11, <2>2
  <2> QED
    BY <1>5, <2>1, <2>2
<1> QED
  BY <1>7, <1>8, <1>10, <1>11 DEF Describes, M, L

\* The places of a turn do not change when others write.
LEMMA PlacesLater ==
  ASSUME NEW lines \in Seq(LineSet), NEW more \in Seq(LineSet), Continues(more, lines),
         NEW u, \A n \in DOMAIN more : n > Len(lines) => more[n].turn # u
  PROVE  Places(u, more) = Places(u, lines)
<1>1. /\ DOMAIN lines = 1..Len(lines) /\ DOMAIN more = 1..Len(more)
      /\ Len(lines) \in Nat /\ Len(more) \in Nat
  BY SeqFacts
<1>2. \A n \in DOMAIN lines : n \in DOMAIN more /\ more[n] = lines[n]
  BY <1>1 DEF Continues
<1>3. \A n \in DOMAIN more : n \in DOMAIN lines \/ n > Len(lines)
  BY <1>1
<1> QED
  BY <1>2, <1>3 DEF Places

\* What is said of a turn that is over still holds.
LEMMA DoneLater ==
  ASSUME NEW f \in FileSet, NEW g \in FileSet, NEW now, Grown(f, g, now),
         NEW u, \A n \in DOMAIN g.lines : n > Len(f.lines) => g.lines[n].turn # u,
         NEW v \in WriterSet, DoneOk(u, v, f)
  PROVE  DoneOk(u, v, g)
<1> SUFFICES ASSUME v.pc = "done", ~v.faulty
             PROVE  DoneOk(u, v, g)
  BY DEF DoneOk
<1>1. /\ f.lines \in Seq(LineSet) /\ g.lines \in Seq(LineSet)
      /\ f.synced \in Nat /\ g.synced \in Nat /\ v.count \in Nat
  BY FileFacts DEF WriterSet
<1>2. Continues(g.lines, f.lines) /\ f.synced <= g.synced
  BY DEF Grown
<1>3. Places(u, g.lines) = Places(u, f.lines)
  BY <1>1, <1>2, PlacesLater
<1>4. /\ Places(u, f.lines) = v.start..v.count
      /\ v.count \in Places(u, f.lines)
      /\ f.lines[v.count].type = "turn_end"
      /\ v.count <= f.synced
  BY DEF DoneOk
<1>5. v.count \in 1..Len(f.lines)
  BY <1>1, <1>4, SeqFacts DEF Places
<1>6. g.lines[v.count] = f.lines[v.count]
  BY <1>2, <1>5 DEF Continues
<1>7. v.count <= g.synced
  BY <1>1, <1>2, <1>4
<1> QED
  BY <1>3, <1>4, <1>6, <1>7 DEF DoneOk

-----------------------------------------------------------------------------
(* A step of one turn: its writer, its task, one file, and what is known of  *)
(* the thread.                                                               *)

IndexSet == [exists : BOOLEAN, base : StampSet, state : States]

OneStep(t, s, g, v, l) ==
    /\ g \in FileSet /\ v \in WriterSet /\ l \in LoadSet
    /\ files' = [files EXCEPT ![s] = g]
    /\ w' = [w EXCEPT ![t] = v]
    /\ load' = [load EXCEPT ![t] = l]
    /\ index' \in IndexSet
    /\ cache' \in States
    /\ lock' \in Turn \cup {NoTurn}
    /\ epoch' = epoch
    /\ troubles' \in {troubles, troubles + 1} /\ troubles' <= MaxTroubles
    /\ haunted' \in BOOLEAN

\* What it has to show for itself, a file with other lines or not.
OwnSound(t, s, g, v, l) ==
    /\ FileOk(g, epoch)
    /\ files[s].exists => g.exists
    /\ \A n \in DOMAIN g.lines :
          \/ g.lines[n].turn \in {t, NoTurn}
          \/ n \in DOMAIN files[s].lines /\ g.lines[n] = files[s].lines[n]
    /\ \A u \in Turn : u # t => (lock' = u <=> lock = u)
    /\ LockOk(t, v, l, lock')
    /\ ReadOk(l, files'[l.seg])
    /\ BareOk(v)
    /\ OpenOk(v, files'[v.seg])
    /\ BufferOk(t, v, troubles')
    /\ v.pc \in {"idle", "loading"} => w[t].pc \in {"idle", "loading"}
    /\ FreshOk(t, v, g)

\* There are no more starts of the process than things that went wrong.
LEMMA NoSooner ==
  ASSUME NEW a \in Nat, NEW b \in Nat, NEW c \in Nat, a <= b + 1, b <= c
  PROVE  a <= c + 1
OBVIOUS

\* Such a step keeps the types.
LEMMA StepTyped ==
  ASSUME Typed, NEW t \in Turn, NEW s \in Segment, NEW g, NEW v, NEW l,
         OneStep(t, s, g, v, l)
  PROVE  Typed'
<1>1. files' \in [Segment -> FileSet] /\ w' \in [Turn -> WriterSet] /\ load' \in [Turn -> LoadSet]
  BY DEF Typed, OneStep
<1>2. /\ index' \in [exists : BOOLEAN, base : StampSet, state : States]
      /\ cache' \in States /\ lock' \in Turn \cup {NoTurn} /\ haunted' \in BOOLEAN
  BY DEF OneStep, IndexSet
<1>3. /\ epoch' \in Nat /\ epoch' > 0 /\ troubles' \in 0..MaxTroubles /\ epoch' <= troubles' + 1
  <2>1. /\ epoch \in Nat /\ epoch > 0 /\ troubles \in Nat /\ epoch <= troubles + 1
        /\ MaxTroubles \in Nat
    BY RolloutAssumption DEF Typed
  <2>2. /\ epoch' = epoch /\ troubles' \in {troubles, troubles + 1}
        /\ troubles' <= MaxTroubles
    BY DEF OneStep
  <2>3. troubles' = troubles \/ troubles' = troubles + 1
    BY <2>2
  <2>4. troubles' \in Nat /\ troubles' >= troubles
    BY <2>1, <2>3
  <2>5. troubles' \in 0..MaxTroubles
    BY <2>1, <2>2, <2>4
  <2>6. epoch <= troubles' + 1
    BY <2>1, <2>4, NoSooner
  <2> QED
    BY <2>1, <2>2, <2>5, <2>6
<1> QED
  BY <1>1, <1>2, <1>3 DEF Typed

\* ... and what holds whatever a dropped task does, for the other turns too.
LEMMA StepSound ==
  ASSUME Inv, NEW t \in Turn, NEW s \in Segment, NEW g, NEW v, NEW l,
         OneStep(t, s, g, v, l), OwnSound(t, s, g, v, l)
  PROVE  Sound'
<1> DEFINE f == files[s]
<1>0. Typed /\ Sound
  BY DEF Inv
<1>1. /\ files \in [Segment -> FileSet] /\ w \in [Turn -> WriterSet] /\ load \in [Turn -> LoadSet]
      /\ troubles \in Nat /\ epoch \in Nat
  BY <1>0, RolloutAssumption DEF Typed
<1>2. /\ \A h \in Segment : files'[h] = IF h = s THEN g ELSE files[h]
      /\ \A u \in Turn : w'[u] = IF u = t THEN v ELSE w[u]
      /\ \A u \in Turn : load'[u] = IF u = t THEN l ELSE load[u]
      /\ epoch' = epoch /\ troubles' >= troubles
      /\ g \in FileSet
  BY <1>1 DEF OneStep
<1>3. \A h \in Segment : FileOk(files'[h], epoch')
  BY <1>0, <1>2 DEF Sound, OwnSound
<1>4. ASSUME NEW u \in Turn
      PROVE  /\ LockOk(u, w'[u], load'[u], lock')
             /\ ReadOk(load'[u], files'[load'[u].seg])
             /\ BareOk(w'[u])
             /\ OpenOk(w'[u], files'[w'[u].seg])
             /\ BufferOk(u, w'[u], troubles')
  <2>1. CASE u = t
    BY <1>2, <2>1 DEF OwnSound
  <2>2. CASE u # t
    <3>1. w'[u] = w[u] /\ load'[u] = load[u]
      BY <1>2, <2>2
    <3>2. /\ LockOk(u, w[u], load[u], lock)
          /\ ReadOk(load[u], files[load[u].seg])
          /\ BareOk(w[u])
          /\ OpenOk(w[u], files[w[u].seg])
          /\ BufferOk(u, w[u], troubles)
      BY <1>0 DEF Sound
    <3>3. lock' = u <=> lock = u
      BY <2>2 DEF OwnSound
    <3>4. load[u].seg \in Segment /\ w[u].seg \in Segment /\ Len(w[u].buf) \in Nat
      BY <1>1, SeqFacts DEF LoadSet, WriterSet
    <3>5. \A h \in Segment : files[h].exists => files'[h].exists
      BY <1>2 DEF OwnSound
    <3>6. LockOk(u, w[u], load[u], lock')
      BY <3>2, <3>3 DEF LockOk
    <3>7. ReadOk(load[u], files'[load[u].seg]) /\ OpenOk(w[u], files'[w[u].seg])
      BY <3>2, <3>4, <3>5 DEF ReadOk, OpenOk
    <3>8. BufferOk(u, w[u], troubles')
      <4>1. Len(w[u].buf) <= troubles'
        <5>1. Len(w[u].buf) <= troubles
          BY <3>2 DEF BufferOk
        <5>2. troubles' \in Nat
          BY <1>1 DEF OneStep
        <5> QED
          BY <1>1, <1>2, <3>4, <5>1, <5>2
      <4> QED
        BY <3>2, <4>1 DEF BufferOk
    <3> QED
      BY <3>1, <3>2, <3>6, <3>7, <3>8
  <2> QED
    BY <2>1, <2>2
<1>5. ASSUME NEW u \in Turn, NEW h \in Segment PROVE FreshOk(u, w'[u], files'[h])
  <2>0. FreshOk(u, w[u], files[h])
    BY <1>0 DEF Sound
  <2>1. CASE u = t /\ h = s
    BY <1>2, <2>1 DEF OwnSound
  <2>2. CASE u = t /\ h # s
    <3>1. v.pc \in {"idle", "loading"} => w[t].pc \in {"idle", "loading"}
      BY DEF OwnSound
    <3> QED
      BY <1>2, <2>0, <2>2, <3>1 DEF FreshOk
  <2>3. CASE u # t /\ h # s
    BY <1>2, <2>0, <2>3
  <2>4. CASE u # t /\ h = s
    <3> SUFFICES ASSUME w[u].pc \in {"idle", "loading"}, NEW n \in DOMAIN g.lines,
                        g.lines[n].turn = u
                 PROVE  FALSE
      BY <1>2, <2>4 DEF FreshOk, Places
    <3>1. u \notin {t, NoTurn}
      BY <2>4 DEF Turn, NoTurn
    <3>2. n \in DOMAIN files[s].lines /\ g.lines[n] = files[s].lines[n]
      BY <3>1 DEF OwnSound
    <3> QED
      BY <2>0, <2>4, <3>2 DEF FreshOk, Places
  <2> QED
    BY <2>1, <2>2, <2>3, <2>4
<1> QED
  BY <1>3, <1>4, <1>5 DEF Sound

\* A file whose torn tail is cut off, or that is synced.
Mended(f, g) ==
    /\ g.lines = f.lines
    /\ f.tail = "none" => g.tail = "none"
    /\ f.exists => g.exists
    /\ g.synced \in {f.synced, Len(g.lines)}

\* A writer does not mind.
LEMMA WritingLater ==
  ASSUME NEW f \in FileSet, NEW g \in FileSet, Mended(f, g), NEW now, FileOk(f, now),
         NEW t, NEW v \in WriterSet, WritingOk(t, v, f)
  PROVE  WritingOk(t, v, g)
<1> SUFFICES ASSUME v.pc \in Begun PROVE WritingOk(t, v, g)
  BY DEF WritingOk
<1>1. g.lines = f.lines /\ (f.tail = "none" => g.tail = "none")
  BY DEF Mended
<1>2. /\ CountOk(t, v, f) /\ NumberOk(v, f.lines) /\ KnowsOk(v, f.lines)
      /\ WaitsOk(v.buf, f.lines, v.request) /\ RefsOk(v, f.lines)
  BY DEF WritingOk
<1>3. ASSUME ~v.faulty, v.pc = "publish" PROVE g.synced = v.count
  <2>1. f.synced = v.count /\ Len(f.lines) = v.count
    BY <1>2, <1>3 DEF CountOk
  <2> QED
    BY <1>1, <2>1 DEF Mended
<1>4. CountOk(t, v, g)
  BY <1>1, <1>2, <1>3 DEF CountOk
<1> QED
  BY <1>1, <1>2, <1>4 DEF WritingOk

\* ... nor does a task.
LEMMA TaskLater ==
  ASSUME NEW f, NEW g, Mended(f, g), NEW v, NEW l, TaskOk(v, l, f)
  PROVE  TaskOk(v, l, g)
BY DEF TaskOk, Mended

OwnTruth(t, s, g, v, l) ==
    /\ FileOk(g, epoch)
    /\ Grown(files[s], g, epoch)
    /\ \A n \in DOMAIN g.lines : n > Len(files[s].lines) => g.lines[n].turn \in {t, NoTurn}
    /\ w[t].pc \in Holding \/ Mended(files[s], g)
    /\ v.request = w[t].request \/ w[t].pc = "idle"
    /\ g.lines = files[s].lines \/ LinesOk(g.lines, w')
    /\ cache' = cache \/ Describes(cache', files'[cache'.seg], epoch)
    /\ \/ index'.state = index.state
       \/ Describes(index'.state, files'[index'.state.seg], epoch)
    /\ TaskOk(v, l, files'[l.seg])
    /\ WritingOk(t, v, files'[v.seg])
    /\ DoneOk(t, v, files'[v.seg])

\* ... and what is known of files, for the other turns and files too.
LEMMA StepTruth ==
  ASSUME Inv, ~haunted, NEW t \in Turn, NEW s \in Segment, NEW g, NEW v, NEW l,
         OneStep(t, s, g, v, l), OwnTruth(t, s, g, v, l)
  PROVE  Truthful'
<1>0. Typed /\ Sound /\ Truthful
  BY DEF Inv
<1>1. /\ files \in [Segment -> FileSet] /\ w \in [Turn -> WriterSet] /\ load \in [Turn -> LoadSet]
      /\ cache \in States /\ index.state \in States /\ epoch \in Nat /\ epoch > 0
  BY <1>0 DEF Typed
<1>2. /\ \A h \in Segment : files'[h] = IF h = s THEN g ELSE files[h]
      /\ \A u \in Turn : w'[u] = IF u = t THEN v ELSE w[u]
      /\ \A u \in Turn : load'[u] = IF u = t THEN l ELSE load[u]
      /\ epoch' = epoch /\ g \in FileSet
      /\ cache' \in States /\ index'.state \in States
  BY <1>1 DEF OneStep, IndexSet
<1>3. Grown(files[s], g, epoch) /\ FileOk(files[s], epoch)
  BY <1>0 DEF OwnTruth, Sound
<1>4. ASSUME NEW state \in States, Describes(state, files[state.seg], epoch)
      PROVE  Describes(state, files'[state.seg], epoch')
  <2>1. state.seg \in Segment
    BY DEF States
  <2>2. CASE state.seg = s
    <3>1. Describes(state, g, epoch)
      BY <1>1, <1>2, <1>3, <1>4, <2>2, DescribesLater
    <3> QED
      BY <1>2, <2>1, <2>2, <3>1
  <2>3. CASE state.seg # s
    BY <1>2, <1>4, <2>1, <2>3
  <2> QED
    BY <2>2, <2>3
<1>5. Describes(cache', files'[cache'.seg], epoch')
  <2>1. CASE cache' = cache
    <3>1. Describes(cache, files[cache.seg], epoch)
      BY <1>0 DEF Truthful
    <3>2. Describes(cache, files'[cache.seg], epoch')
      BY <1>1, <1>4, <3>1
    <3> QED
      BY <2>1, <3>2
  <2>2. CASE Describes(cache', files'[cache'.seg], epoch)
    BY <1>2, <2>2
  <2> QED
    BY <2>1, <2>2 DEF OwnTruth
<1>6. Describes(index'.state, files'[index'.state.seg], epoch')
  <2>1. CASE index'.state = index.state
    <3>1. Describes(index.state, files[index.state.seg], epoch)
      BY <1>0 DEF Truthful
    <3>2. Describes(index.state, files'[index.state.seg], epoch')
      BY <1>1, <1>4, <3>1
    <3> QED
      BY <2>1, <3>2
  <2>2. CASE Describes(index'.state, files'[index'.state.seg], epoch)
    BY <1>2, <2>2
  <2> QED
    BY <2>1, <2>2 DEF OwnTruth
<1>7. ASSUME NEW u \in Turn
      PROVE  /\ TaskOk(w'[u], load'[u], files'[load'[u].seg])
             /\ WritingOk(u, w'[u], files'[w'[u].seg])
             /\ DoneOk(u, w'[u], files'[w'[u].seg])
  <2>1. CASE u = t
    BY <1>2, <2>1 DEF OwnTruth
  <2>2. CASE u # t
    <3>1. w'[u] = w[u] /\ load'[u] = load[u]
      BY <1>2, <2>2
    <3>2. /\ TaskOk(w[u], load[u], files[load[u].seg])
          /\ WritingOk(u, w[u], files[w[u].seg])
          /\ DoneOk(u, w[u], files[w[u].seg])
      BY <1>0 DEF Truthful
    <3>3. load[u].seg \in Segment /\ w[u].seg \in Segment /\ w[u] \in WriterSet
      BY <1>1 DEF LoadSet, WriterSet
    <3>4. /\ w[t].pc \in Holding => w[u].pc \notin Holding
      BY <1>0, <2>2 DEF Sound, LockOk
    <3>5. TaskOk(w[u], load[u], files'[load[u].seg])
      <4>1. CASE load[u].seg # s
        BY <1>2, <3>2, <3>3, <4>1
      <4>2. CASE load[u].seg = s /\ Mended(files[s], g)
        BY <1>2, <3>2, <4>2, TaskLater
      <4>3. CASE load[u].seg = s /\ w[t].pc \in Holding
        <5>1. w[u].pc # "loading"
          BY <3>4, <4>3 DEF Holding
        <5> QED
          BY <3>2, <5>1 DEF TaskOk
      <4> QED
        BY <4>1, <4>2, <4>3 DEF OwnTruth
    <3>6. WritingOk(u, w[u], files'[w[u].seg])
      <4>1. CASE w[u].seg # s
        BY <1>2, <3>2, <3>3, <4>1
      <4>2. CASE w[u].seg = s /\ Mended(files[s], g)
        BY <1>1, <1>2, <1>3, <3>2, <3>3, <4>2, WritingLater
      <4>3. CASE w[u].seg = s /\ w[t].pc \in Holding
        <5>1. w[u].pc \notin Begun
          BY <3>4, <4>3 DEF Holding
        <5> QED
          BY <5>1 DEF WritingOk
      <4> QED
        BY <4>1, <4>2, <4>3 DEF OwnTruth
    <3>7. DoneOk(u, w[u], files'[w[u].seg])
      <4>1. CASE w[u].seg # s
        BY <1>2, <3>2, <3>3, <4>1
      <4>2. CASE w[u].seg = s
        <5>1. u \notin {t, NoTurn}
          BY <2>2 DEF Turn, NoTurn
        <5>2. \A n \in DOMAIN g.lines : n > Len(files[s].lines) => g.lines[n].turn # u
          BY <5>1 DEF OwnTruth
        <5>3. DoneOk(u, w[u], g)
          BY <1>1, <1>2, <1>3, <3>2, <3>3, <4>2, <5>2, DoneLater
        <5> QED
          BY <1>2, <4>2, <5>3
      <4> QED
        BY <4>1, <4>2
    <3> QED
      BY <3>1, <3>5, <3>6, <3>7
  <2> QED
    BY <2>1, <2>2
<1>8. ASSUME NEW h \in Segment PROVE LinesOk(files'[h].lines, w')
  <2>1. CASE files'[h].lines = files[h].lines
    <3> DEFINE lines == files[h].lines
    <3>1. LinesOk(lines, w)
      BY <1>0 DEF Truthful
    <3>2. lines \in Seq(LineSet)
      BY <1>1, FileFacts
    <3>3. ASSUME NEW m \in DOMAIN lines, lines[m].type = "context"
          PROVE  ContextOk(lines, m, w'[lines[m].turn].request)
      <4>1. lines[m].turn \in Turn
        BY <3>2, <3>3, SeqNumbers, LineFacts
      <4>2. CASE lines[m].turn = t /\ w[t].pc = "idle"
        <5>1. FreshOk(t, w[t], files[h])
          BY <1>0 DEF Sound
        <5> QED
          BY <3>3, <4>2, <5>1 DEF FreshOk, Places
      <4>3. CASE w'[lines[m].turn].request = w[lines[m].turn].request
        BY <3>1, <3>3, <4>3 DEF LinesOk
      <4> QED
        BY <1>2, <4>1, <4>2, <4>3 DEF OwnTruth
    <3>4. Ascending(lines)
      BY <3>1 DEF LinesOk
    <3>5. LinesOk(lines, w')
      BY <3>3, <3>4 DEF LinesOk
    <3> QED
      BY <2>1, <3>5
  <2>2. CASE h = s /\ LinesOk(g.lines, w')
    BY <1>2, <2>2
  <2>3. files'[h].lines = files[h].lines \/ (h = s /\ LinesOk(g.lines, w'))
    BY <1>2 DEF OwnTruth
  <2> QED
    BY <2>1, <2>2, <2>3
<1> QED
  BY <1>5, <1>6, <1>7, <1>8 DEF Truthful

\* A file that does not change.
LEMMA SameFile ==
  ASSUME NEW f \in FileSet, NEW now
  PROVE  Grown(f, f, now) /\ Mended(f, f)
<1>1. f.lines \in Seq(LineSet) /\ f.synced \in Nat
  BY FileFacts
<1>2. Len(f.lines) \in Nat
  BY <1>1, SeqFacts
<1> QED
  BY <1>1, <1>2 DEF Grown, Mended, Continues

\* A step that leaves the files alone.
Quiet(t, v, l) ==
    /\ v \in WriterSet /\ l \in LoadSet
    /\ files' = files /\ epoch' = epoch
    /\ w' = [w EXCEPT ![t] = v]
    /\ load' = [load EXCEPT ![t] = l]
    /\ index' \in IndexSet
    /\ cache' \in States
    /\ lock' \in Turn \cup {NoTurn}
    /\ troubles' \in {troubles, troubles + 1} /\ troubles' <= MaxTroubles
    /\ haunted' \in BOOLEAN

QuietSound(t, v, l) ==
    /\ \A u \in Turn : u # t => (lock' = u <=> lock = u)
    /\ LockOk(t, v, l, lock')
    /\ ReadOk(l, files[l.seg])
    /\ BareOk(v)
    /\ OpenOk(v, files[v.seg])
    /\ BufferOk(t, v, troubles')
    /\ v.pc \in {"idle", "loading"} => w[t].pc \in {"idle", "loading"}

QuietTruth(t, v, l) ==
    /\ v.request = w[t].request \/ w[t].pc = "idle"
    /\ cache' = cache \/ Describes(cache', files[cache'.seg], epoch)
    /\ \/ index'.state = index.state
       \/ Describes(index'.state, files[index'.state.seg], epoch)
    /\ TaskOk(v, l, files[l.seg])
    /\ WritingOk(t, v, files[v.seg])
    /\ DoneOk(t, v, files[v.seg])

\* A step that leaves the files alone.
LEMMA QuietStep ==
  ASSUME Inv, NEW t \in Turn, NEW v, NEW l, Quiet(t, v, l), QuietSound(t, v, l),
         haunted => haunted', ~haunted' => QuietTruth(t, v, l)
  PROVE  Inv'
<1> DEFINE f == files[0]
<1>0. Typed /\ Sound
  BY DEF Inv
<1>1. 0 \in Segment
  BY RolloutAssumption DEF Segment
<1>2. files \in [Segment -> FileSet] /\ f \in FileSet
  BY <1>0, <1>1 DEF Typed
<1>3. files = [files EXCEPT ![0] = f]
  BY <1>1, <1>2
<1>4. OneStep(t, 0, f, v, l)
  BY <1>2, <1>3 DEF OneStep, Quiet
<1>5. FileOk(f, epoch)
  BY <1>0, <1>1 DEF Sound
<1>6. files' = files
  BY DEF Quiet
<1>7. OwnSound(t, 0, f, v, l)
  <2>1. FreshOk(t, v, f)
    <3>1. FreshOk(t, w[t], f)
      BY <1>0, <1>1 DEF Sound
    <3> QED
      BY <3>1 DEF QuietSound, FreshOk
  <2> HIDE DEF f
  <2>2. \A n \in DOMAIN f.lines : n \in DOMAIN f.lines /\ f.lines[n] = f.lines[n]
    OBVIOUS
  <2> QED
    BY <1>5, <1>6, <2>1, <2>2 DEF OwnSound, QuietSound, f
<1>8. Typed' /\ Sound'
  BY <1>0, <1>1, <1>4, <1>7, StepTyped, StepSound
<1>9. ASSUME ~haunted' PROVE Truthful'
  <2>1. Grown(f, f, epoch) /\ Mended(f, f)
    BY <1>2, SameFile
  <2>2. Len(f.lines) \in Nat /\ DOMAIN f.lines = 1..Len(f.lines)
    BY <1>2, FileFacts, SeqFacts
  <2>3. \A n \in DOMAIN f.lines : n > Len(f.lines) => f.lines[n].turn \in {t, NoTurn}
    BY <2>2
  <2>4. OwnTruth(t, 0, f, v, l)
    BY <1>5, <1>6, <1>9, <2>1, <2>3 DEF OwnTruth, QuietTruth
  <2> QED
    BY <1>1, <1>4, <1>9, <2>4, StepTruth
<1> QED
  BY <1>8, <1>9 DEF Inv

-----------------------------------------------------------------------------
(* The steps.                                                                *)

\* What the invariant says of one turn.
LEMMA OfTurn ==
  ASSUME Inv, NEW t \in Turn
  PROVE  /\ w[t] \in WriterSet /\ load[t] \in LoadSet
         /\ w[t].seg \in Segment /\ load[t].seg \in Segment
         /\ files[w[t].seg] \in FileSet /\ files[load[t].seg] \in FileSet
         /\ LockOk(t, w[t], load[t], lock) /\ ReadOk(load[t], files[load[t].seg])
         /\ BareOk(w[t]) /\ OpenOk(w[t], files[w[t].seg]) /\ BufferOk(t, w[t], troubles)
         /\ ~haunted => /\ TaskOk(w[t], load[t], files[load[t].seg])
                        /\ WritingOk(t, w[t], files[w[t].seg])
                        /\ DoneOk(t, w[t], files[w[t].seg])
         /\ lock \in Turn \cup {NoTurn}
         /\ w = [w EXCEPT ![t] = w[t]] /\ load = [load EXCEPT ![t] = load[t]]
<1>1. w[t] \in WriterSet /\ load[t] \in LoadSet
  BY DEF Inv, Typed
<1>2. w[t].seg \in Segment /\ load[t].seg \in Segment
  BY <1>1 DEF WriterSet, LoadSet
<1>3. files[w[t].seg] \in FileSet /\ files[load[t].seg] \in FileSet
  BY <1>2 DEF Inv, Typed
<1>4. /\ LockOk(t, w[t], load[t], lock) /\ ReadOk(load[t], files[load[t].seg])
      /\ BareOk(w[t]) /\ OpenOk(w[t], files[w[t].seg]) /\ BufferOk(t, w[t], troubles)
  BY DEF Inv, Sound
<1>5. ~haunted => /\ TaskOk(w[t], load[t], files[load[t].seg])
                  /\ WritingOk(t, w[t], files[w[t].seg])
                  /\ DoneOk(t, w[t], files[w[t].seg])
  BY DEF Inv, Truthful
<1>6. lock \in Turn \cup {NoTurn} /\ w = [w EXCEPT ![t] = w[t]]
      /\ load = [load EXCEPT ![t] = load[t]]
  BY DEF Inv, Typed
<1> QED
  BY <1>1, <1>2, <1>3, <1>4, <1>5, <1>6

\* What it says of the thread.
LEMMA OfThread ==
  ASSUME Inv
  PROVE  /\ files \in [Segment -> FileSet] /\ index \in IndexSet /\ cache \in States
         /\ epoch \in Nat /\ epoch > 0 /\ troubles \in Nat /\ troubles <= MaxTroubles
         /\ haunted \in BOOLEAN
         /\ \A g \in Segment : FileOk(files[g], epoch)
         /\ ~haunted => /\ Describes(cache, files[cache.seg], epoch)
                        /\ Describes(index.state, files[index.state.seg], epoch)
BY RolloutAssumption DEF Inv, Typed, Sound, Truthful, IndexSet

\* begin takes the lock and starts the blocking task.
LEMMA BeginStep ==
  ASSUME Inv, NEW t \in Turn, NEW window \in Window, NEW request \in Requests,
         Begin(t, window, request)
  PROVE  Inv'
<1> DEFINE v == [Idle EXCEPT !.pc = "loading", !.window = window, !.request = request]
           l == [load[t] EXCEPT !.at = "resolve"]
<1>1. /\ v.pc = "loading" /\ v.refs = <<>> /\ v.added = 0 /\ v.buf = <<>> /\ v.faulty = FALSE
      /\ v.cut = FALSE /\ v.seg = 0 /\ v.window = window
  BY DEF Idle
<1>2. v \in WriterSet
  <2>1. request \in Seq(Item) /\ 0 \in Segment /\ NoRefs \in RefSet /\ NoItems \in ItemSet
    BY RolloutAssumption DEF Segment, NoRefs, RefSet, NoItems, ItemSet
  <2>2. <<>> \in Seq(Nat) /\ <<>> \in Seq(Item) /\ <<>> \in Seq(LineSet)
    OBVIOUS
  <2> QED
    BY <2>1, <2>2 DEF Idle, WriterSet, Holding, Begun
<1>3. l \in LoadSet /\ l.at = "resolve" /\ l.seg = load[t].seg
  BY OfTurn DEF LoadSet
<1>4. /\ w[t].pc = "idle" /\ lock = NoTurn /\ lock' = t
      /\ w' = [w EXCEPT ![t] = v] /\ load' = [load EXCEPT ![t] = l]
      /\ UNCHANGED <<files, index, cache, epoch, troubles, haunted>>
  BY DEF Begin, At, Becomes
<1> HIDE DEF v, l
<1>5. Quiet(t, v, l)
  BY <1>2, <1>3, <1>4, OfThread DEF Quiet
<1>6. QuietSound(t, v, l)
  <2>1. \A u \in Turn : u # t => (lock' = u <=> lock = u)
    BY <1>4 DEF Turn, NoTurn
  <2>2. LockOk(t, v, l, lock')
    BY <1>1, <1>3, <1>4 DEF LockOk, Holding
  <2>3. BufferOk(t, v, troubles')
    BY <1>1, <1>4, OfThread DEF BufferOk
  <2> QED
    BY <1>1, <1>3, <1>4, <2>1, <2>2, <2>3 DEF QuietSound, ReadOk, BareOk, OpenOk
<1>7. ~haunted' => QuietTruth(t, v, l)
  BY <1>1, <1>3, <1>4 DEF QuietTruth, TaskOk, WritingOk, Begun, DoneOk
<1> QED
  BY <1>4, <1>5, <1>6, <1>7, QuietStep

\* An empty state says nothing that could be wrong.
LEMMA EmptyFacts ==
  ASSUME NEW g \in Segment
  PROVE  /\ EmptyState(g) \in States
         /\ EmptyState(g).seg = g /\ EmptyState(g).count = 0 /\ EmptyState(g).seq = 0
         /\ EmptyState(g).window = NoWindow /\ EmptyState(g).events = NoRefs
         /\ EmptyState(g).items = NoItems /\ EmptyState(g).stamp.lines = 0
         /\ EmptyState(g).stamp.bad = 0 /\ EmptyState(g).stamp.tail = "none"
         /\ EmptyState(g).stamp.mtime = 0
<1>1. NoStamp = [lines |-> 0, bad |-> 0, tail |-> "none", mtime |-> 0]
  <2>1. Bad(<<>>) = {}
    BY DEF Bad
  <2>2. Cardinality(Bad(<<>>)) = 0 /\ Len(<<>>) = 0
    BY <2>1, FS_EmptySet
  <2> QED
    BY <2>2 DEF NoStamp, Stamp, NoFile
<1>2. NoRefs \in [Content -> Seq(Nat)] /\ NoItems \in [Key -> Nat]
  BY DEF NoRefs, NoItems
<1> QED
  BY <1>1, <1>2 DEF EmptyState, States, Tails

\* ThreadState::empty describes any file: its stamp is that of none.
LEMMA EmptyDescribes ==
  ASSUME NEW g \in Segment, NEW f \in FileSet, NEW now \in Nat, now > 0, FileOk(f, now)
  PROVE  Describes(EmptyState(g), f, now)
<1>1. f.mtime \in Nat /\ (f.exists => f.mtime > 0)
  BY FileFacts DEF FileOk
<1>2. /\ EmptyState(g).count = 0 /\ EmptyState(g).stamp.lines = 0
      /\ EmptyState(g).stamp.bad = 0 /\ EmptyState(g).stamp.tail = "none"
      /\ EmptyState(g).stamp.mtime = 0
  BY EmptyFacts
<1> QED
  BY <1>1, <1>2 DEF Describes

\* What is left of a writer.
LEMMA OverFacts ==
  ASSUME NEW v \in WriterSet, NEW how \in Ended
  PROVE  /\ Over(v, how) \in WriterSet
         /\ Over(v, how).pc = how /\ Over(v, how).seg = v.seg
         /\ Over(v, how).request = v.request /\ Over(v, how).start = v.start
         /\ Over(v, how).count = v.count /\ Over(v, how).faulty = v.faulty
         /\ Over(v, how).buf = <<>> /\ Over(v, how).cut = FALSE
<1> DEFINE o == Over(v, how)
<1>1. /\ o.pc = how /\ o.seg = v.seg /\ o.request = v.request /\ o.start = v.start
      /\ o.count = v.count /\ o.faulty = v.faulty /\ o.buf = <<>> /\ o.cut = FALSE
  BY DEF Over, Idle
<1>2. /\ v.seg \in Segment /\ v.request \in Seq(Item) /\ v.start \in Nat /\ v.count \in Nat
      /\ v.faulty \in BOOLEAN
  BY DEF WriterSet
<1>3. NoRefs \in RefSet /\ NoItems \in ItemSet
  BY DEF NoRefs, RefSet, NoItems, ItemSet
<1>4. <<>> \in Seq(Nat) /\ <<>> \in Seq(Item) /\ <<>> \in Seq(LineSet)
  OBVIOUS
<1>5. o \in WriterSet
  BY <1>2, <1>3, <1>4 DEF Over, Idle, WriterSet
<1> QED
  BY <1>1, <1>5

\* A writer that is over, and not done, has nothing left to show.
LEMMA OverOk ==
  ASSUME Inv, NEW t \in Turn, NEW how \in Ended, NEW f, NEW failed \in Nat, NEW v,
         v = Over(w[t], how), how # "done"
  PROVE  /\ BareOk(v) /\ OpenOk(v, f) /\ BufferOk(t, v, failed)
         /\ v.pc \notin {"idle", "loading"} /\ v.pc \notin Holding
         /\ WritingOk(t, v, f) /\ DoneOk(t, v, f)
<1>1. /\ v.pc = how /\ v.buf = <<>> /\ v.cut = FALSE
  BY OfTurn, OverFacts
<1>2. how \notin {"idle", "loading"} /\ how \notin Holding /\ how \notin {"sync", "dropping"}
      /\ how \notin Begun /\ how \notin {"loading", "meta", "window"}
  BY DEF Ended, Holding, Begun
<1>3. DOMAIN v.buf = {} /\ Len(v.buf) = 0
  BY <1>1
<1> QED
  BY <1>1, <1>2, <1>3 DEF BareOk, OpenOk, BufferOk, WritingOk, DoneOk

\* Only the holder's lock is given back.
LEMMA ReleaseFacts ==
  ASSUME Inv, NEW t \in Turn, Release(t)
  PROVE  /\ lock' \in Turn \cup {NoTurn}
         /\ \A u \in Turn : u # t => (lock' = u <=> lock = u)
         /\ lock' # t
         /\ w[t].pc \notin Holding => lock' = lock
<1>1. lock \in Turn \cup {NoTurn} /\ LockOk(t, w[t], load[t], lock)
  BY OfTurn
<1>2. t # NoTurn /\ \A u \in Turn : u # NoTurn
  BY DEF Turn, NoTurn
<1> QED
  BY <1>1, <1>2 DEF Release, LockOk

\* The thread is pushed out of the cache.
LEMMA EvictStep ==
  ASSUME Inv, Evict
  PROVE  Inv'
<1>1. PICK t \in Turn : load[t].at = "resolve"
  BY DEF Evict
<1>2. cache' = None /\ UNCHANGED <<files, index, lock, w, load, epoch, troubles, haunted>>
  BY DEF Evict
<1>3. 0 \in Segment
  BY RolloutAssumption DEF Segment
<1>4. None \in States /\ None.seg = 0
  BY <1>3, EmptyFacts DEF None
<1>5. Quiet(t, w[t], load[t])
  <2>1. w' = [w EXCEPT ![t] = w[t]] /\ load' = [load EXCEPT ![t] = load[t]]
    BY <1>2, OfTurn
  <2>2. w[t] \in WriterSet /\ load[t] \in LoadSet /\ lock' \in Turn \cup {NoTurn}
    BY <1>2, OfTurn
  <2>3. index' \in IndexSet /\ troubles' = troubles /\ troubles' <= MaxTroubles
        /\ haunted' \in BOOLEAN /\ files' = files /\ epoch' = epoch /\ cache' \in States
    BY <1>2, <1>4, OfThread
  <2> QED
    BY <2>1, <2>2, <2>3 DEF Quiet
<1>6. QuietSound(t, w[t], load[t])
  <2>1. lock' = lock /\ troubles' = troubles
    BY <1>2
  <2> QED
    BY <2>1, OfTurn DEF QuietSound
<1>7. ~haunted' => QuietTruth(t, w[t], load[t])
  <2>1. Describes(None, files[0], epoch)
    BY <1>3, OfThread, EmptyDescribes DEF None
  <2>2. Describes(cache', files[cache'.seg], epoch)
    BY <1>2, <1>4, <2>1
  <2>3. index' = index /\ haunted' = haunted
    BY <1>2
  <2> QED
    BY <2>2, <2>3, OfTurn DEF QuietTruth
<1>8. haunted => haunted'
  BY <1>2
<1> QED
  BY <1>5, <1>6, <1>7, <1>8, QuietStep

\* The request is dropped; its task may go on.
LEMMA DropStep ==
  ASSUME Inv, NEW t \in Turn, Drop(t)
  PROVE  Inv'
<1> DEFINE v == Over(w[t], "dropped")
           l == load[t]
<1>1. /\ w[t].pc \in {"loading", "ready"} /\ w' = [w EXCEPT ![t] = v] /\ Release(t)
      /\ UNCHANGED <<files, index, cache, load, epoch, haunted>>
      /\ troubles < MaxTroubles /\ troubles' = troubles + 1
  BY DEF Drop, Becomes, Trouble
<1>2. "dropped" \in Ended
  BY DEF Ended
<1>3. /\ v \in WriterSet /\ v.pc = "dropped" /\ v.request = w[t].request
  BY <1>2, OfTurn, OverFacts
<1>4. troubles + 1 \in Nat /\ troubles + 1 <= MaxTroubles
  BY <1>1, OfThread, RolloutAssumption
<1>5. /\ BareOk(v) /\ OpenOk(v, files[v.seg]) /\ BufferOk(t, v, troubles + 1)
      /\ v.pc \notin {"idle", "loading"} /\ v.pc \notin Holding
      /\ WritingOk(t, v, files[v.seg]) /\ DoneOk(t, v, files[v.seg])
  BY <1>2, <1>4, OverOk
<1> HIDE DEF v
<1>6. Quiet(t, v, l)
  <2>1. load' = [load EXCEPT ![t] = l] /\ l \in LoadSet
    BY <1>1, OfTurn
  <2>2. lock' \in Turn \cup {NoTurn}
    BY <1>1, ReleaseFacts
  <2> QED
    BY <1>1, <1>3, <1>4, <2>1, <2>2, OfThread DEF Quiet
<1>7. QuietSound(t, v, l)
  <2>1. LockOk(t, v, l, lock')
    <3>1. lock' # t
      BY <1>1, ReleaseFacts
    <3> QED
      BY <1>3, <1>5, <3>1 DEF LockOk
  <2>2. ReadOk(l, files[l.seg])
    BY OfTurn
  <2>3. \A u \in Turn : u # t => (lock' = u <=> lock = u)
    BY <1>1, ReleaseFacts
  <2> QED
    BY <1>1, <1>5, <2>1, <2>2, <2>3 DEF QuietSound
<1>8. ~haunted' => QuietTruth(t, v, l)
  <2>1. ~haunted => TaskOk(v, l, files[l.seg])
    BY <1>3, OfTurn DEF TaskOk
  <2> QED
    BY <1>1, <1>3, <1>5, <2>1 DEF QuietTruth
<1> QED
  BY <1>1, <1>6, <1>7, <1>8, QuietStep

\* Nothing under way.
LEMMA NoLoadFacts == NoLoad \in LoadSet /\ NoLoad.at = "off"
<1>1. 0 \in Segment /\ <<>> \in Seq(LineSet)
  BY RolloutAssumption DEF Segment
<1>2. NoFile \in FileSet
  BY <1>1 DEF NoFile, FileSet, Tails
<1> QED
  BY <1>1, <1>2 DEF NoLoad, LoadSet

\* A task goes on, or ends with its request gone.
LEMMA TaskSound ==
  ASSUME Inv, NEW t \in Turn, load[t].at # "off", NEW l \in LoadSet,
         l.at # "off" \/ w[t].pc # "loading", ReadOk(l, files[l.seg]),
         lock' = lock, troubles' = troubles
  PROVE  QuietSound(t, w[t], l)
<1>1. w[t].pc \in {"loading", "dropped"} /\ (lock = t <=> w[t].pc \in Holding)
  BY OfTurn DEF LockOk
<1>2. LockOk(t, w[t], l, lock')
  BY <1>1 DEF LockOk
<1> QED
  BY <1>2, OfTurn DEF QuietSound

\* A dropped request asks for nothing.
LEMMA GoneTruth ==
  ASSUME Inv, NEW t \in Turn, load[t].at # "off", w[t].pc # "loading", NEW f
  PROVE  WritingOk(t, w[t], f) /\ DoneOk(t, w[t], f) /\ w[t].pc = "dropped"
BY OfTurn DEF LockOk, WritingOk, Begun, DoneOk

\* The task finds no file it can read.
LEMMA LoadFailsStep ==
  ASSUME Inv, NEW t \in Turn, LoadFails(t)
  PROVE  Inv'
<1> DEFINE how == IF Candidate = {} THEN "refused" ELSE "unreadable"
<1>1. /\ load[t].at = "resolve" /\ load' = [load EXCEPT ![t] = NoLoad] /\ Release(t)
      /\ UNCHANGED <<files, index, cache, epoch, troubles, haunted>>
  BY DEF LoadFails
<1>2. CASE w[t].pc = "loading"
  <2> DEFINE v == Over(w[t], how)
  <2>1. w' = [w EXCEPT ![t] = v]
    BY <1>2 DEF LoadFails, At, Becomes
  <2>2. how \in Ended /\ how # "done"
    BY DEF Ended
  <2> HIDE DEF how
  <2>3. v \in WriterSet /\ v.request = w[t].request
    BY <2>2, OfTurn, OverFacts
  <2>4. /\ BareOk(v) /\ OpenOk(v, files[v.seg]) /\ BufferOk(t, v, troubles)
        /\ v.pc \notin {"idle", "loading"} /\ v.pc \notin Holding
        /\ WritingOk(t, v, files[v.seg]) /\ DoneOk(t, v, files[v.seg])
    BY <2>2, OfThread, OverOk
  <2> HIDE DEF v
  <2>5. Quiet(t, v, NoLoad)
    BY <1>1, <2>1, <2>3, NoLoadFacts, OfThread, ReleaseFacts DEF Quiet
  <2>6. QuietSound(t, v, NoLoad)
    <3>1. LockOk(t, v, NoLoad, lock')
      BY <1>1, <2>4, NoLoadFacts, ReleaseFacts DEF LockOk
    <3> QED
      BY <1>1, <2>4, <3>1, NoLoadFacts, ReleaseFacts DEF QuietSound, ReadOk
  <2>7. QuietTruth(t, v, NoLoad)
    BY <1>1, <2>3, <2>4, NoLoadFacts DEF QuietTruth, TaskOk
  <2> QED
    BY <1>1, <2>5, <2>6, <2>7, QuietStep
<1>3. CASE w[t].pc # "loading"
  <2>1. w' = w
    BY <1>3 DEF LoadFails, At
  <2>2. w[t].pc = "dropped" /\ WritingOk(t, w[t], files[w[t].seg])
        /\ DoneOk(t, w[t], files[w[t].seg])
    BY <1>1, <1>3, GoneTruth
  <2>3. lock' = lock
    BY <1>1, <2>2, ReleaseFacts DEF Holding, Begun
  <2>4. Quiet(t, w[t], NoLoad)
    <3>1. w' = [w EXCEPT ![t] = w[t]] /\ w[t] \in WriterSet /\ lock' \in Turn \cup {NoTurn}
      BY <2>1, <2>3, OfTurn
    <3> QED
      BY <1>1, <3>1, NoLoadFacts, OfThread DEF Quiet
  <2>5. QuietSound(t, w[t], NoLoad)
    <3>1. ReadOk(NoLoad, files[NoLoad.seg])
      BY NoLoadFacts DEF ReadOk
    <3> QED
      BY <1>1, <1>3, <2>3, <3>1, NoLoadFacts, TaskSound
  <2>6. QuietTruth(t, w[t], NoLoad)
    BY <1>1, <2>2, NoLoadFacts DEF QuietTruth, TaskOk
  <2> QED
    BY <1>1, <2>4, <2>5, <2>6, QuietStep
<1> QED
  BY <1>2, <1>3

\* The task has read a file.
LEMMA ReadCandidateStep ==
  ASSUME Inv, NEW t \in Turn, ReadCandidate(t)
  PROVE  Inv'
<1>1. /\ load[t].at = "resolve"
      /\ UNCHANGED <<files, index, cache, lock, w, epoch, troubles, haunted>>
  BY DEF ReadCandidate
<1>2. PICK g \in Candidate :
         /\ files[g].exists
         /\ ~Unreadable(files[g])
         /\ load' = [load EXCEPT ![t] =
                        [at |-> AfterRead(files[g]), seg |-> g, seen |-> files[g]]]
  BY DEF ReadCandidate
<1> DEFINE f == files[g]
           l == [at |-> AfterRead(f), seg |-> g, seen |-> f]
<1>3. g \in Segment /\ ~Corrupt(f)
  BY DEF Candidate
<1>4. f \in FileSet
  BY <1>3, OfThread
<1>5. Bad(f.lines) = {}
  BY <1>2, <1>3 DEF Corrupt, Unreadable, Bad
<1>6. /\ l.at = AfterRead(f) /\ l.seg = g /\ l.seen = f
      /\ AfterRead(f) \in {"stat", "repair"}
      /\ AfterRead(f) = "stat" => f.tail = "none"
      /\ AfterRead(f) = "repair" => f.tail # "none"
  BY DEF AfterRead
<1>7. l \in LoadSet
  BY <1>3, <1>4, <1>6 DEF LoadSet
<1>8. f.exists /\ load' = [load EXCEPT ![t] = l] /\ files[l.seg] = f
  BY <1>2
<1> HIDE DEF l, f
<1>9. Quiet(t, w[t], l)
  <2>1. w' = [w EXCEPT ![t] = w[t]] /\ w[t] \in WriterSet /\ lock' \in Turn \cup {NoTurn}
    BY <1>1, OfTurn
  <2> QED
    BY <1>1, <1>7, <1>8, <2>1, OfThread DEF Quiet
<1>10. QuietSound(t, w[t], l)
  <2>1. ReadOk(l, files[l.seg])
    BY <1>5, <1>6, <1>8 DEF ReadOk
  <2>2. l.at # "off" /\ load[t].at # "off" /\ lock' = lock /\ troubles' = troubles
    BY <1>1, <1>6
  <2> QED
    BY <1>7, <2>1, <2>2, TaskSound
<1>11. ~haunted' => QuietTruth(t, w[t], l)
  <2>1. TaskOk(w[t], l, files[l.seg])
    BY <1>6, <1>8 DEF TaskOk
  <2> QED
    BY <1>1, <2>1, OfTurn DEF QuietTruth
<1> QED
  BY <1>1, <1>9, <1>10, <1>11, QuietStep

\* The answer is there.
LEMMA AnswerStep ==
  ASSUME Inv, NEW t \in Turn, NEW response \in Responses, Answer(t, response)
  PROVE  Inv'
<1> DEFINE v == [w[t] EXCEPT !.pc = "response", !.response = response]
<1>1. /\ w[t].pc = "ready" /\ w' = [w EXCEPT ![t] = v]
      /\ UNCHANGED <<files, index, cache, lock, load, epoch, troubles, haunted>>
  BY DEF Answer, At, Becomes
<1>2. response \in Seq(Item) /\ "response" \in Holding
  BY RolloutAssumption DEF Holding, Begun
<1>3. v \in WriterSet
  BY <1>2, OfTurn DEF WriterSet
<1>4. /\ v.pc = "response" /\ v.seg = w[t].seg /\ v.request = w[t].request
      /\ v.window = w[t].window /\ v.refs = w[t].refs /\ v.start = w[t].start
      /\ v.count = w[t].count /\ v.seq = w[t].seq /\ v.base = w[t].base
      /\ v.added = w[t].added /\ v.events = w[t].events /\ v.items = w[t].items
      /\ v.buf = w[t].buf /\ v.cut = w[t].cut /\ v.faulty = w[t].faulty
  BY OfTurn DEF WriterSet
<1> HIDE DEF v
<1>5. load[t].at = "off"
  BY <1>1, OfTurn DEF LockOk, LoadSet
<1>6. Quiet(t, v, load[t])
  <2>1. load' = [load EXCEPT ![t] = load[t]] /\ load[t] \in LoadSet
        /\ lock' \in Turn \cup {NoTurn}
    BY <1>1, OfTurn
  <2> QED
    BY <1>1, <1>3, <2>1, OfThread DEF Quiet
<1>7. QuietSound(t, v, load[t])
  <2>1. LockOk(t, v, load[t], lock')
    BY <1>1, <1>2, <1>4, <1>5, OfTurn DEF LockOk, Holding, Begun
  <2>2. BufferOk(t, v, troubles')
    BY <1>1, <1>4, OfTurn DEF BufferOk
  <2> QED
    BY <1>1, <1>4, <2>1, <2>2, OfTurn DEF QuietSound, BareOk, OpenOk
<1>8. ~haunted' => QuietTruth(t, v, load[t])
  <2> SUFFICES ASSUME ~haunted PROVE QuietTruth(t, v, load[t])
    BY <1>1
  <2> DEFINE f == files[w[t].seg]
  <2>1. w[t].pc \in Begun /\ v.pc \in Begun
    BY <1>1, <1>4 DEF Begun
  <2>2. /\ CountOk(t, w[t], f) /\ NumberOk(w[t], f.lines) /\ KnowsOk(w[t], f.lines)
        /\ WaitsOk(w[t].buf, f.lines, w[t].request) /\ RefsOk(w[t], f.lines)
    BY <2>1, OfTurn DEF WritingOk
  <2> HIDE DEF f
  <2>3. CountOk(t, v, f)
    BY <1>1, <1>4, <2>2 DEF CountOk
  <2>4. NumberOk(v, f.lines) /\ WaitsOk(v.buf, f.lines, v.request)
    BY <1>4, <2>2 DEF NumberOk
  <2>5. KnowsOk(v, f.lines) /\ RefsOk(v, f.lines)
    BY <1>1, <1>4, <2>2 DEF KnowsOk, RefsOk
  <2>6. WritingOk(t, v, f)
    BY <2>3, <2>4, <2>5 DEF WritingOk
  <2>7. TaskOk(v, load[t], files[load[t].seg]) /\ DoneOk(t, v, f)
    BY <1>4, <1>5 DEF TaskOk, DoneOk
  <2> QED
    BY <1>1, <1>4, <2>6, <2>7 DEF QuietTruth, f
<1> QED
  BY <1>1, <1>6, <1>7, <1>8, QuietStep

\* sync_all, or its failure.
LEMMA SyncStep ==
  ASSUME Inv, NEW t \in Turn, Sync(t)
  PROVE  Inv'
<1> DEFINE s == w[t].seg
           f == files[s]
           l == load[t]
<1>1. /\ w[t].pc = "sync"
      /\ UNCHANGED <<index, cache, lock, load, epoch, haunted>>
  BY DEF Sync, At
<1>2. /\ s \in Segment /\ f \in FileSet /\ w[t] \in WriterSet /\ l \in LoadSet
      /\ load' = [load EXCEPT ![t] = l] /\ lock' \in Turn \cup {NoTurn}
  BY <1>1, OfTurn
<1>3. l.at = "off" /\ lock = t /\ f.exists
  BY <1>1, OfTurn DEF LockOk, LoadSet, Holding, Begun, OpenOk
<1>4. ~haunted => /\ CountOk(t, w[t], f) /\ NumberOk(w[t], f.lines)
                  /\ KnowsOk(w[t], f.lines) /\ RefsOk(w[t], f.lines)
                  /\ WaitsOk(w[t].buf, f.lines, w[t].request)
  BY <1>1, OfTurn DEF WritingOk, Begun
<1>5. CASE /\ files' = [files EXCEPT ![s].synced = Len(f.lines)]
           /\ w' = [w EXCEPT ![t] = [w[t] EXCEPT !.pc = "publish"]]
           /\ troubles' = troubles
  <2> DEFINE g == [f EXCEPT !.synced = Len(f.lines)]
             v == [w[t] EXCEPT !.pc = "publish"]
  <2>1. Len(f.lines) \in Nat
    BY <1>2, FileFacts, SeqFacts
  <2>2. g \in FileSet
    BY <1>2, <2>1 DEF FileSet
  <2>3. /\ g.lines = f.lines /\ g.tail = f.tail /\ g.mtime = f.mtime /\ g.exists = f.exists
        /\ g.synced = Len(f.lines)
    BY <1>2 DEF FileSet
  <2>4. v \in WriterSet
    BY <1>2 DEF WriterSet, Holding, Begun
  <2>5. /\ v.pc = "publish" /\ v.seg = w[t].seg /\ v.request = w[t].request
        /\ v.window = w[t].window /\ v.refs = w[t].refs /\ v.start = w[t].start
        /\ v.count = w[t].count /\ v.seq = w[t].seq /\ v.base = w[t].base
        /\ v.added = w[t].added /\ v.events = w[t].events /\ v.items = w[t].items
        /\ v.buf = w[t].buf /\ v.cut = w[t].cut /\ v.faulty = w[t].faulty
    BY <1>2 DEF WriterSet
  <2>6. files' = [files EXCEPT ![s] = g] /\ w' = [w EXCEPT ![t] = v]
    BY <1>5
  <2>7. OneStep(t, s, g, v, l)
    <3> HIDE DEF g, v, l, s
    <3> QED
      BY <1>1, <1>2, <1>5, <2>2, <2>4, <2>6, OfThread DEF OneStep
  <2>8. FileOk(f, epoch) /\ files \in [Segment -> FileSet]
    BY <1>2, OfThread
  <2>9. files'[s] = g
    BY <1>2, <2>6, <2>8
  <2> HIDE DEF g, v
  <2>10. FileOk(g, epoch)
    BY <1>3, <2>1, <2>3, <2>8 DEF FileOk
  <2>11. OwnSound(t, s, g, v, l)
    <3>1. \A n \in DOMAIN g.lines : n \in DOMAIN f.lines /\ g.lines[n] = f.lines[n]
      BY <2>3
    <3>2. LockOk(t, v, l, lock')
      BY <1>1, <1>3, <2>5 DEF LockOk, Holding, Begun
    <3>3. BufferOk(t, v, troubles')
      BY <1>5, <2>5, OfTurn DEF BufferOk
    <3>4. ReadOk(l, files'[l.seg])
      BY <1>3 DEF ReadOk
    <3> QED
      BY <1>1, <1>3, <2>3, <2>5, <2>10, <3>1, <3>2, <3>3, <3>4
      DEF OwnSound, BareOk, OpenOk, FreshOk
  <2>12. ASSUME ~haunted PROVE OwnTruth(t, s, g, v, l)
    <3>1. Grown(f, g, epoch)
      <4>1. f.synced <= g.synced
        BY <2>3, <2>8 DEF FileOk
      <4>2. Continues(g.lines, f.lines)
        BY <2>1, <2>3 DEF Continues
      <4> QED
        BY <1>3, <2>3, <4>1, <4>2 DEF Grown
    <3>2. CountOk(t, v, g)
      BY <1>1, <1>4, <2>3, <2>5, <2>12 DEF CountOk
    <3>3. /\ NumberOk(v, g.lines) /\ WaitsOk(v.buf, g.lines, v.request)
          /\ KnowsOk(v, g.lines) /\ RefsOk(v, g.lines)
      BY <1>1, <1>4, <2>3, <2>5, <2>12 DEF NumberOk, KnowsOk, RefsOk
    <3>4. WritingOk(t, v, files'[v.seg])
      BY <2>5, <2>9, <3>2, <3>3 DEF WritingOk
    <3>5. TaskOk(v, l, files'[l.seg]) /\ DoneOk(t, v, files'[v.seg])
      BY <1>3, <2>5 DEF TaskOk, DoneOk
    <3>6. \A n \in DOMAIN g.lines : n > Len(f.lines) => g.lines[n].turn \in {t, NoTurn}
      BY <1>2, <2>1, <2>3, FileFacts, SeqFacts
    <3>7. w[t].pc \in Holding
      BY <1>1 DEF Holding, Begun
    <3> QED
      BY <1>1, <2>3, <2>5, <2>10, <3>1, <3>4, <3>5, <3>6, <3>7 DEF OwnTruth
  <2>13. Typed' /\ Sound'
    BY <1>2, <2>7, <2>11, StepTyped, StepSound DEF Inv
  <2>14. ~haunted => Truthful'
    BY <1>2, <2>7, <2>12, StepTruth
  <2> QED
    BY <1>1, <2>13, <2>14 DEF Inv
<1>6. CASE /\ troubles < MaxTroubles /\ troubles' = troubles + 1
           /\ w' = [w EXCEPT ![t] = [w[t] EXCEPT !.pc = "dropping", !.faulty = TRUE]]
           /\ files' = files
  <2> DEFINE v == [w[t] EXCEPT !.pc = "dropping", !.faulty = TRUE]
  <2>1. v \in WriterSet
    BY <1>2 DEF WriterSet, Holding, Begun
  <2>2. /\ v.pc = "dropping" /\ v.seg = w[t].seg /\ v.request = w[t].request
        /\ v.window = w[t].window /\ v.refs = w[t].refs /\ v.start = w[t].start
        /\ v.count = w[t].count /\ v.seq = w[t].seq /\ v.base = w[t].base
        /\ v.added = w[t].added /\ v.buf = w[t].buf /\ v.cut = w[t].cut /\ v.faulty = TRUE
    BY <1>2 DEF WriterSet
  <2>3. troubles + 1 <= MaxTroubles /\ troubles \in Nat
    BY <1>6, OfThread, RolloutAssumption
  <2>4. w' = [w EXCEPT ![t] = v]
    BY <1>6
  <2> HIDE DEF v
  <2>5. Quiet(t, v, l)
    <3> HIDE DEF l
    <3> QED
      BY <1>1, <1>2, <1>6, <2>1, <2>3, <2>4, OfThread DEF Quiet
  <2>6. QuietSound(t, v, l)
    <3>1. LockOk(t, v, l, lock')
      BY <1>1, <1>3, <2>2 DEF LockOk, Holding, Begun
    <3>2. BufferOk(t, v, troubles')
      <4>1. BufferOk(t, w[t], troubles) /\ Len(w[t].buf) \in Nat
        BY <1>2, OfTurn, SeqFacts DEF WriterSet
      <4>2. Len(w[t].buf) <= troubles + 1
        BY <2>3, <4>1 DEF BufferOk
      <4> QED
        BY <1>6, <2>2, <4>1, <4>2 DEF BufferOk
    <3> QED
      BY <1>1, <1>3, <2>2, <3>1, <3>2 DEF QuietSound, BareOk, OpenOk, ReadOk
  <2>7. ASSUME ~haunted' PROVE QuietTruth(t, v, l)
    <3>1. CountOk(t, v, f)
      BY <1>1, <1>4, <2>2, <2>7 DEF CountOk
    <3>2. /\ NumberOk(v, f.lines) /\ WaitsOk(v.buf, f.lines, v.request)
          /\ KnowsOk(v, f.lines) /\ RefsOk(v, f.lines)
      BY <1>1, <1>4, <2>2, <2>7 DEF NumberOk, KnowsOk, RefsOk
    <3>3. WritingOk(t, v, files[v.seg])
      BY <2>2, <3>1, <3>2 DEF WritingOk
    <3> QED
      BY <1>1, <1>3, <2>2, <3>3 DEF QuietTruth, TaskOk, DoneOk
  <2> QED
    BY <1>1, <2>5, <2>6, <2>7, QuietStep
<1> QED
  BY <1>5, <1>6 DEF Sync, Becomes, Trouble

\* A state that says what is in the file.
Reads(state, f) ==
    /\ state.count = Len(f.lines)
    /\ state.stamp.lines = state.count
    /\ f.tail = "none"
    /\ Bad(f.lines) = {}
    /\ Agrees(state, f.lines)

\* A turn begins to write with what is in the file.
LEMMA ResolvedWriting ==
  ASSUME NEW state \in States, NEW t \in Turn, NEW f \in FileSet, Reads(state, f),
         NEW old \in WriterSet, BareOk(old), old.pc = "loading", FreshOk(t, old, f),
         NEW v,
         v.pc = IF state.count = 0 THEN "meta"
                ELSE IF state.window # old.window THEN "window" ELSE "turn",
         v.start = state.count + 1, v.count = state.count, v.seq = state.seq,
         v.base = state.stamp.lines, v.events = state.events, v.items = state.items,
         v.window = old.window, v.request = old.request, v.refs = old.refs,
         v.added = old.added, v.buf = old.buf, v.faulty = old.faulty
  PROVE  WritingOk(t, v, f)
<1>1. /\ f.lines \in Seq(LineSet) /\ Len(f.lines) \in Nat /\ state.count = Len(f.lines)
      /\ state.stamp.lines = state.count /\ state.seq \in Nat
      /\ Len(old.request) \in Nat
  BY FileFacts, SeqFacts DEF Reads, States, WriterSet
<1>2. old.refs = <<>> /\ old.added = 0 /\ old.buf = <<>> /\ ~old.faulty
  BY DEF BareOk
<1>3. v.pc \in {"meta", "window", "turn"}
  OBVIOUS
<1>4. CountOk(t, v, f)
  <2>1. Places(t, f.lines) = {}
    BY DEF FreshOk
  <2>2. v.start..v.count = {}
    BY <1>1
  <2> QED
    BY <1>1, <1>2, <1>3, <2>1, <2>2 DEF CountOk, Reads
<1>5. NumberOk(v, f.lines)
  <2>1. \A n \in DOMAIN f.lines : f.lines[n].seq <= v.seq
    BY <1>1, LearnedBounds DEF Reads, Agrees
  <2>2. DOMAIN v.buf = {}
    BY <1>2
  <2> QED
    BY <2>1, <2>2 DEF NumberOk, Queue
<1>6. KnowsOk(v, f.lines)
  <2>1. Knows(v.events, v.items, f.lines) /\ state.window = Learned(f.lines).window
    BY DEF Reads, Agrees
  <2>2. v.pc \notin {"meta", "window"} => v.window = state.window
    OBVIOUS
  <2> QED
    BY <1>3, <2>1, <2>2 DEF KnowsOk
<1>7. WaitsOk(v.buf, f.lines, v.request)
  BY <1>2 DEF WaitsOk
<1>8. RefsOk(v, f.lines)
  <2>1. v.refs = <<>> /\ Len(v.refs) = 0
    BY <1>2
  <2> QED
    BY <1>1, <1>3, <2>1 DEF RefsOk
<1> QED
  BY <1>4, <1>5, <1>6, <1>7, <1>8 DEF WritingOk

\* The task is through: what is in cache and index, and what the turn goes on with,
\* is what is in the file.
LEMMA ResolvedStep ==
  ASSUME Inv, NEW t \in Turn, load[t].at # "off", NEW state \in States, Resolved(t, state),
         files' = files, epoch' = epoch, lock' = lock, troubles' = troubles,
         haunted' \in BOOLEAN, haunted => haunted',
         cache' \in States, index' \in IndexSet,
         ~haunted' =>
            /\ cache' = cache \/ Describes(cache', files[cache'.seg], epoch)
            /\ \/ index'.state = index.state
               \/ Describes(index'.state, files[index'.state.seg], epoch)
            /\ w[t].pc = "loading" => Reads(state, files[state.seg])
  PROVE  Inv'
<1>0. load' = [load EXCEPT ![t] = NoLoad] /\ lock' \in Turn \cup {NoTurn}
  BY OfTurn DEF Resolved
<1>1. CASE w[t].pc = "loading"
  <2> DEFINE v == [w[t] EXCEPT
                !.pc = IF state.count = 0 THEN "meta"
                       ELSE IF state.window # w[t].window THEN "window" ELSE "turn",
                !.seg = state.seg, !.start = state.count + 1, !.count = state.count,
                !.seq = state.seq, !.base = state.stamp.lines,
                !.events = state.events, !.items = state.items]
  <2>1. w' = [w EXCEPT ![t] = v]
    BY <1>1 DEF Resolved, At, Becomes
  <2>2. /\ state.seg \in Segment /\ state.count \in Nat /\ state.seq \in Nat
        /\ state.stamp.lines \in Nat /\ state.events \in RefSet /\ state.items \in ItemSet
    BY DEF States, RefSet, ItemSet
  <2>3. w[t] \in WriterSet
    BY OfTurn
  <2>4. /\ v.pc = (IF state.count = 0 THEN "meta"
                   ELSE IF state.window # w[t].window THEN "window" ELSE "turn")
        /\ v.seg = state.seg /\ v.start = state.count + 1 /\ v.count = state.count
        /\ v.seq = state.seq /\ v.base = state.stamp.lines
        /\ v.events = state.events /\ v.items = state.items
        /\ v.window = w[t].window /\ v.request = w[t].request /\ v.refs = w[t].refs
        /\ v.added = w[t].added /\ v.buf = w[t].buf /\ v.cut = w[t].cut
        /\ v.faulty = w[t].faulty
    BY <2>3 DEF WriterSet
  <2>5. v \in WriterSet
    <3>1. state.count + 1 \in Nat
      BY <2>2
    <3>2. {"meta", "window", "turn"} \subseteq Holding
      BY DEF Holding, Begun
    <3> QED
      BY <2>2, <2>3, <3>1, <3>2 DEF WriterSet
  <2> HIDE DEF v
  <2>6. v.pc \in {"meta", "window", "turn"}
    BY <2>4
  <2>7. lock = t
    BY <1>1, OfTurn DEF LockOk, Holding
  <2>8. Quiet(t, v, NoLoad)
    BY <1>0, <2>1, <2>5, NoLoadFacts, OfThread DEF Quiet
  <2>9. QuietSound(t, v, NoLoad)
    <3>1. LockOk(t, v, NoLoad, lock')
      BY <2>6, <2>7, NoLoadFacts DEF LockOk, Holding, Begun
    <3>2. BufferOk(t, v, troubles')
      BY <2>4, OfTurn DEF BufferOk
    <3>3. v.window \in Window
      BY <1>1, <2>4, OfTurn DEF BareOk
    <3> QED
      BY <1>1, <2>6, <3>1, <3>2, <3>3, NoLoadFacts DEF QuietSound, BareOk, OpenOk, ReadOk
  <2>10. ASSUME ~haunted' PROVE QuietTruth(t, v, NoLoad)
    <3> DEFINE f == files[state.seg]
               old == w[t]
    <3>1. Reads(state, f) /\ f \in FileSet /\ FreshOk(t, old, f) /\ BareOk(old)
      BY <1>1, <2>2, <2>10, OfThread, OfTurn DEF Inv, Sound
    <3>2. WritingOk(t, v, f)
      <4> HIDE DEF f, old
      <4>1. old \in WriterSet /\ old.pc = "loading"
        BY <1>1, <2>3 DEF old
      <4>2. /\ v.pc = (IF state.count = 0 THEN "meta"
                       ELSE IF state.window # old.window THEN "window" ELSE "turn")
            /\ v.start = state.count + 1 /\ v.count = state.count
            /\ v.seq = state.seq /\ v.base = state.stamp.lines
            /\ v.events = state.events /\ v.items = state.items
            /\ v.window = old.window /\ v.request = old.request /\ v.refs = old.refs
            /\ v.added = old.added /\ v.buf = old.buf /\ v.faulty = old.faulty
        BY <2>4 DEF old
      <4> QED
        BY <3>1, <4>1, <4>2, ResolvedWriting
    <3>3. DoneOk(t, v, files[v.seg]) /\ TaskOk(v, NoLoad, files[NoLoad.seg])
      BY <2>6, NoLoadFacts DEF DoneOk, TaskOk
    <3> QED
      BY <2>4, <2>10, <3>2, <3>3 DEF QuietTruth
  <2> QED
    BY <2>8, <2>9, <2>10, QuietStep
<1>2. CASE w[t].pc # "loading"
  <2>1. w' = [w EXCEPT ![t] = w[t]] /\ w[t] \in WriterSet
    BY <1>2, OfTurn DEF Resolved, At
  <2>2. WritingOk(t, w[t], files[w[t].seg]) /\ DoneOk(t, w[t], files[w[t].seg])
    BY <1>2, GoneTruth
  <2>3. Quiet(t, w[t], NoLoad)
    BY <1>0, <2>1, NoLoadFacts, OfThread DEF Quiet
  <2>4. QuietSound(t, w[t], NoLoad)
    <3>1. ReadOk(NoLoad, files[NoLoad.seg])
      BY NoLoadFacts DEF ReadOk
    <3> QED
      BY <1>2, <3>1, NoLoadFacts, TaskSound
  <2>5. ~haunted' => QuietTruth(t, w[t], NoLoad)
    BY <2>2, NoLoadFacts DEF QuietTruth, TaskOk
  <2> QED
    BY <2>3, <2>4, <2>5, QuietStep
<1> QED
  BY <1>1, <1>2

\* The bad lines of a file are finitely many.
LEMMA BadFacts ==
  ASSUME NEW lines \in Seq(LineSet)
  PROVE  /\ IsFiniteSet(Bad(lines)) /\ Cardinality(Bad(lines)) \in Nat
         /\ Cardinality(Bad(lines)) = 0 <=> Bad(lines) = {}
<1>1. DOMAIN lines = 1..Len(lines) /\ Len(lines) \in Nat
  BY SeqFacts
<1>2. IsFiniteSet(1..Len(lines))
  BY <1>1, FS_Interval
<1>3. Bad(lines) \subseteq 1..Len(lines)
  BY <1>1 DEF Bad
<1>4. IsFiniteSet(Bad(lines))
  BY <1>2, <1>3, FS_Subset
<1> QED
  BY <1>4, FS_EmptySet, FS_CardinalityType

\* The stamp of a file.
LEMMA StampFacts ==
  ASSUME NEW f \in FileSet
  PROVE  /\ Stamp(f) \in StampSet
         /\ Stamp(f).lines = Len(f.lines) /\ Stamp(f).bad = Cardinality(Bad(f.lines))
         /\ Stamp(f).tail = f.tail /\ Stamp(f).mtime = f.mtime
<1>1. f.lines \in Seq(LineSet) /\ f.tail \in Tails /\ f.mtime \in Nat
  BY FileFacts
<1>2. Len(f.lines) \in Nat /\ Cardinality(Bad(f.lines)) \in Nat
  BY <1>1, SeqFacts, BadFacts
<1> QED
  BY <1>1, <1>2 DEF Stamp, StampSet

\* ... also of one that is not there.
LEMMA StampOfFacts ==
  ASSUME Inv, NEW g \in Segment
  PROVE  StampOf(g) = Stamp(files[g]) /\ files[g] \in FileSet /\ StampOf(g) \in StampSet
<1>1. files[g] \in FileSet /\ FileOk(files[g], epoch)
  BY OfThread
<1>2. StampOf(g) = Stamp(files[g])
  BY <1>1 DEF StampOf, NoStamp, FileOk
<1> QED
  BY <1>1, <1>2, StampFacts

\* A state with the stamp of the file says what is in it.
LEMMA HitReads ==
  ASSUME Inv, ~haunted, NEW state \in States, Describes(state, files[state.seg], epoch),
         files[state.seg].exists, state.stamp = StampOf(state.seg)
  PROVE  Reads(state, files[state.seg])
<1> DEFINE f == files[state.seg]
<1>1. state.seg \in Segment
  BY DEF States
<1>2. f \in FileSet /\ state.stamp = Stamp(f)
  BY <1>1, StampOfFacts
<1> HIDE DEF f
<1>3. /\ state.stamp.lines = Len(f.lines) /\ state.stamp.bad = Cardinality(Bad(f.lines))
      /\ state.stamp.tail = f.tail /\ state.stamp.mtime = f.mtime
  BY <1>2, StampFacts
<1>4. Describes(state, f, epoch) /\ f.exists
  BY DEF f
<1>5. f.lines \in Seq(LineSet) /\ Len(f.lines) \in Nat
  BY <1>2, FileFacts, SeqFacts
<1>6. Bad(f.lines) = {}
  BY <1>3, <1>4, <1>5, BadFacts DEF Describes
<1>7. Agrees(state, SubSeq(f.lines, 1, Len(f.lines)))
  BY <1>3, <1>4, <1>5 DEF Describes
<1>8. Agrees(state, f.lines)
  BY <1>5, <1>7, WholePrefix
<1> QED
  BY <1>3, <1>4, <1>6, <1>8 DEF Reads, Describes, f

\* The cache or the index spares the task from reading.
LEMMA ResolveKnownStep ==
  ASSUME Inv, NEW t \in Turn, ResolveKnown(t)
  PROVE  Inv'
<1>1. /\ load[t].at # "off"
      /\ UNCHANGED <<files, index, lock, epoch, troubles, haunted>>
  BY DEF ResolveKnown
<1>2. /\ cache \in States /\ index \in IndexSet /\ index.state \in States
      /\ haunted \in BOOLEAN
      /\ ~haunted => /\ Describes(cache, files[cache.seg], epoch)
                     /\ Describes(index.state, files[index.state.seg], epoch)
  BY OfThread DEF IndexSet
<1>3. CASE CacheHit /\ Resolved(t, cache) /\ cache' = cache
  <2>1. ~haunted => Reads(cache, files[cache.seg])
    BY <1>2, <1>3, HitReads DEF CacheHit
  <2>2. haunted' = haunted /\ index' = index
    BY <1>1
  <2> QED
    BY <1>1, <1>2, <1>3, <2>1, <2>2, ResolvedStep
<1>4. CASE IndexHit /\ Resolved(t, index.state) /\ cache' = index.state
  <2>1. ~haunted => Reads(index.state, files[index.state.seg])
    BY <1>2, <1>4, HitReads DEF IndexHit
  <2>2. haunted' = haunted /\ index' = index
    BY <1>1
  <2>3. ~haunted => Describes(cache', files[cache'.seg], epoch)
    BY <1>2, <1>4
  <2> QED
    BY <1>1, <1>2, <1>4, <2>1, <2>2, <2>3, ResolvedStep
<1> QED
  BY <1>3, <1>4 DEF ResolveKnown

\* The thread starts at a new segment.
LEMMA StartSegmentStep ==
  ASSUME Inv, NEW t \in Turn, StartSegment(t)
  PROVE  Inv'
<1>1. /\ load[t].at # "off"
      /\ UNCHANGED <<files, index, lock, epoch, troubles, haunted>>
  BY DEF StartSegment
<1>2. PICK g \in Candidate : /\ ~files[g].exists
                             /\ cache' = EmptyState(g)
                             /\ Resolved(t, EmptyState(g))
  BY DEF StartSegment
<1> DEFINE f == files[g]
           state == EmptyState(g)
<1>3. g \in Segment
  BY DEF Candidate
<1>4. f \in FileSet /\ FileOk(f, epoch) /\ f = NoFile
  BY <1>2, <1>3, OfThread DEF FileOk
<1>5. /\ state \in States
      /\ state.seg = g /\ state.count = 0 /\ state.seq = 0
      /\ state.window = NoWindow /\ state.events = NoRefs /\ state.items = NoItems
      /\ state.stamp.lines = 0
  BY <1>3, EmptyFacts
<1>6. Describes(state, f, epoch)
  BY <1>3, <1>4, OfThread, EmptyDescribes
<1>7. Reads(state, f)
  <2>1. f.lines = <<>> /\ f.tail = "none"
    BY <1>4 DEF NoFile
  <2>2. /\ Nothing.seq = 0 /\ Nothing.window = NoWindow /\ Nothing.events = NoRefs
        /\ Nothing.items = NoItems
    BY DEF Nothing
  <2> HIDE DEF state
  <2>3. Agrees(state, <<>>)
    <3>1. Points(NoItems, <<>>)
      BY DEF Points, NoItems
    <3>2. Covers(NoItems, <<>>)
      BY <2>2, LearnedEmpty DEF Covers
    <3> QED
      BY <1>5, <2>2, <3>1, <3>2, LearnedEmpty DEF Agrees, Knows
  <2>4. Bad(<<>>) = {} /\ Len(<<>>) = 0
    BY DEF Bad
  <2> QED
    BY <1>5, <2>1, <2>3, <2>4 DEF Reads
<1>8. cache' \in States /\ Describes(cache', files[cache'.seg], epoch)
  BY <1>2, <1>5, <1>6
<1>9. index' = index /\ index' \in IndexSet /\ haunted' = haunted /\ haunted' \in BOOLEAN
  BY <1>1, OfThread
<1>10. Resolved(t, state) /\ Reads(state, files[state.seg])
  BY <1>2, <1>5, <1>7
<1> HIDE DEF state
<1> QED
  BY <1>1, <1>5, <1>8, <1>9, <1>10, ResolvedStep

\* What is read of lines agrees with them.
LEMMA FromLinesFacts ==
  ASSUME NEW g \in Segment, NEW stamp \in StampSet, NEW lines \in Seq(LineSet)
  PROVE  /\ FromLines(g, stamp, lines) \in States
         /\ FromLines(g, stamp, lines).seg = g /\ FromLines(g, stamp, lines).stamp = stamp
         /\ FromLines(g, stamp, lines).count = Len(lines)
         /\ Agrees(FromLines(g, stamp, lines), lines)
<1> DEFINE known == Learned(lines)
           state == FromLines(g, stamp, lines)
<1>1. /\ known.seq \in Nat /\ known.window \in Window \cup {NoWindow}
      /\ known.events \in RefSet /\ known.items \in ItemSet
  BY LearnedType DEF KnownSet
<1>2. Points(known.items, lines) /\ Covers(known.items, lines)
  BY LearnedPoints DEF Covers
<1>3. Len(lines) \in Nat
  BY SeqFacts
<1>4. state = [seg |-> g, stamp |-> stamp, count |-> Len(lines), seq |-> known.seq,
               window |-> known.window, events |-> known.events, items |-> known.items]
  BY DEF FromLines
<1> HIDE DEF known, state
<1>5. state \in States
  BY <1>1, <1>3, <1>4 DEF States, RefSet, ItemSet, StampSet
<1>6. /\ state.seg = g /\ state.stamp = stamp /\ state.count = Len(lines)
      /\ state.seq = known.seq /\ state.window = known.window
      /\ state.events = known.events /\ state.items = known.items
  BY <1>4
<1>7. Agrees(state, lines)
  BY <1>2, <1>6 DEF Agrees, Knows, known
<1> QED
  BY <1>5, <1>6, <1>7 DEF state

\* A state made of the file and its stamp describes it.
LEMMA StampedDescribes ==
  ASSUME NEW state \in States, NEW f \in FileSet, NEW now, state.stamp = Stamp(f), Reads(state, f)
  PROVE  Describes(state, f, now)
<1>1. /\ state.stamp.lines = Len(f.lines) /\ state.stamp.bad = Cardinality(Bad(f.lines))
      /\ state.stamp.tail = f.tail /\ state.stamp.mtime = f.mtime
  BY StampFacts
<1>2. f.lines \in Seq(LineSet) /\ f.mtime \in Nat
  BY FileFacts
<1>3. Len(f.lines) \in Nat
  BY <1>2, SeqFacts
<1>4. state.stamp.bad = 0
  BY <1>1, <1>2, BadFacts DEF Reads
<1>5. SubSeq(f.lines, 1, Len(f.lines)) = f.lines
  BY <1>2, WholePrefix
<1>6. f.mtime <= f.mtime /\ Len(f.lines) <= Len(f.lines)
  BY <1>2, <1>3
<1>7. state.count = Len(f.lines) /\ f.tail = "none" /\ Agrees(state, f.lines)
  BY <1>1 DEF Reads
<1>8. Agrees(state, SubSeq(f.lines, 1, state.stamp.lines))
  BY <1>1, <1>5, <1>7
<1> QED
  BY <1>1, <1>4, <1>6, <1>7, <1>8 DEF Describes

\* write_thread_index writes that state, or leaves the index.
LEMMA IndexedFacts ==
  ASSUME Inv, NEW state \in States
  PROVE  /\ Indexed(state) \in IndexSet
         /\ Indexed(state) = index \/ Indexed(state).state = state
<1>1. 0 \in Segment
  BY RolloutAssumption DEF Segment
<1>2. StampOf(0) \in StampSet /\ index \in IndexSet
  BY <1>1, StampOfFacts, OfThread
<1> QED
  BY <1>2 DEF Indexed, IndexSet

\* The task takes the stamp, and fills in cache and index.
LEMMA StatCandidateStep ==
  ASSUME Inv, NEW t \in Turn, StatCandidate(t)
  PROVE  Inv'
<1> DEFINE g == load[t].seg
           f == files[g]
           read == load[t].seen.lines
           state == FromLines(g, StampOf(g), read)
<1>1. /\ load[t].at = "stat" /\ cache' = state /\ index' = Indexed(state)
      /\ Resolved(t, state) /\ haunted' = (haunted \/ Haunts(t))
      /\ UNCHANGED <<files, lock, epoch, troubles>>
  BY DEF StatCandidate
<1>2. g \in Segment /\ f \in FileSet /\ load[t].seen \in FileSet
  BY OfTurn DEF LoadSet
<1>3. read \in Seq(LineSet)
  BY <1>2, FileFacts
<1>4. StampOf(g) = Stamp(f) /\ StampOf(g) \in StampSet
  BY <1>2, StampOfFacts
<1>5. /\ state \in States /\ state.seg = g /\ state.stamp = Stamp(f)
      /\ state.count = Len(read) /\ Agrees(state, read)
  BY <1>2, <1>3, <1>4, FromLinesFacts
<1>6. ~haunted' => f.lines = read /\ f.tail = "none"
  <2>1. ~haunted' => ~haunted /\ (w[t].pc = "loading" \/ files[g] = load[t].seen)
    BY <1>1 DEF Haunts, At
  <2>2. ~haunted => TaskOk(w[t], load[t], f)
    BY OfTurn
  <2> QED
    BY <1>1, <2>1, <2>2 DEF TaskOk
<1>7. Bad(read) = {}
  BY <1>1, OfTurn DEF ReadOk
<1> HIDE DEF state
<1>8. ~haunted' => Reads(state, f)
  <2>1. state.stamp.lines = Len(f.lines)
    BY <1>2, <1>5, StampFacts
  <2> QED
    BY <1>5, <1>6, <1>7, <2>1 DEF Reads
<1>9. ~haunted' => Describes(state, files[state.seg], epoch)
  BY <1>2, <1>5, <1>8, StampedDescribes
<1>10. /\ index' \in IndexSet
       /\ index'.state = index.state \/ index'.state = state
  BY <1>1, <1>5, IndexedFacts
<1>11. /\ cache' \in States /\ haunted' \in BOOLEAN /\ (haunted => haunted')
  BY <1>1, <1>5, OfThread DEF Haunts
<1>12. ~haunted' => /\ Describes(cache', files[cache'.seg], epoch)
                    /\ \/ index'.state = index.state
                       \/ Describes(index'.state, files[index'.state.seg], epoch)
                    /\ Reads(state, files[state.seg])
  BY <1>1, <1>5, <1>8, <1>9, <1>10
<1>13. load[t].at # "off"
  BY <1>1
<1> QED
  BY <1>1, <1>5, <1>10, <1>11, <1>12, <1>13, ResolvedStep

\* The turn is over; cache and index follow when the length is the expected one.
LEMMA PublishStep ==
  ASSUME Inv, NEW t \in Turn, Publish(t)
  PROVE  Inv'
<1> DEFINE s == w[t].seg
           f == files[s]
           v == Over(w[t], "done")
           l == load[t]
           state == [seg |-> s, stamp |-> StampOf(s), count |-> w[t].count,
                     seq |-> w[t].seq, window |-> w[t].window, events |-> w[t].events,
                     items |-> w[t].items]
<1>1. /\ w[t].pc = "publish" /\ w' = [w EXCEPT ![t] = v] /\ Release(t)
      /\ UNCHANGED <<files, load, epoch, troubles, haunted>>
      /\ IF Expected(t) THEN cache' = state /\ index' = Indexed(state)
                        ELSE UNCHANGED <<cache, index>>
  BY DEF Publish, At, Becomes
<1>2. /\ s \in Segment /\ f \in FileSet /\ w[t] \in WriterSet /\ l \in LoadSet
      /\ load' = [load EXCEPT ![t] = l]
  BY <1>1, OfTurn
<1>3. l.at = "off" /\ lock = t
  BY <1>1, OfTurn DEF LockOk, LoadSet, Holding, Begun
<1>4. /\ v \in WriterSet /\ v.pc = "done" /\ v.seg = w[t].seg /\ v.request = w[t].request
      /\ v.start = w[t].start /\ v.count = w[t].count /\ v.faulty = w[t].faulty
      /\ v.buf = <<>> /\ v.cut = FALSE
  BY <1>2, OverFacts DEF Ended
<1>5. StampOf(s) = Stamp(f) /\ StampOf(s) \in StampSet
  BY <1>2, StampOfFacts
<1>6. /\ state.seg = s /\ state.stamp = Stamp(f) /\ state.count = w[t].count
      /\ state.seq = w[t].seq /\ state.window = w[t].window
      /\ state.events = w[t].events /\ state.items = w[t].items
  BY <1>5
<1>7. state \in States
  BY <1>2, <1>5 DEF States, WriterSet, RefSet, ItemSet, StampSet
<1> HIDE DEF v, state
<1>8. ASSUME ~haunted, Expected(t) PROVE Reads(state, f)
  <2>1. /\ CountOk(t, w[t], f) /\ KnowsOk(w[t], f.lines)
    BY <1>1, <1>8, OfTurn DEF WritingOk, Begun
  <2>2. /\ Stamp(f).lines = w[t].base + w[t].added /\ Stamp(f).bad = 0
        /\ Stamp(f).tail = "none"
    BY <1>5, <1>8 DEF Expected
  <2>3. /\ Len(f.lines) = w[t].count /\ Cardinality(Bad(f.lines)) = 0 /\ f.tail = "none"
    BY <1>2, <2>1, <2>2, StampFacts DEF CountOk
  <2>4. f.lines \in Seq(LineSet)
    BY <1>2, FileFacts
  <2>5. Bad(f.lines) = {}
    BY <2>3, <2>4, BadFacts
  <2>6. /\ Knows(w[t].events, w[t].items, f.lines)
        /\ w[t].window = Learned(f.lines).window /\ w[t].seq = Learned(f.lines).seq
    BY <1>1, <2>1, <2>3, <2>5 DEF KnowsOk
  <2>7. Agrees(state, f.lines)
    BY <1>6, <2>6 DEF Agrees
  <2>8. state.stamp.lines = Len(f.lines)
    BY <1>2, <1>6, StampFacts
  <2> QED
    BY <1>6, <2>3, <2>5, <2>7, <2>8 DEF Reads
<1>9. ~haunted /\ Expected(t) => Describes(state, files[state.seg], epoch)
  BY <1>2, <1>6, <1>7, <1>8, StampedDescribes
<1>10. /\ cache' \in States /\ index' \in IndexSet
       /\ ~haunted => /\ cache' = cache \/ Describes(cache', files[cache'.seg], epoch)
                      /\ \/ index'.state = index.state
                         \/ Describes(index'.state, files[index'.state.seg], epoch)
  <2>1. CASE Expected(t)
    <3>1. cache' = state /\ index' = Indexed(state)
      BY <1>1, <2>1
    <3> QED
      BY <1>7, <1>9, <2>1, <3>1, IndexedFacts
  <2>2. CASE ~Expected(t)
    BY <1>1, <2>2, OfThread
  <2> QED
    BY <2>1, <2>2
<1>11. Quiet(t, v, l)
  <2> HIDE DEF l
  <2> QED
    BY <1>1, <1>2, <1>4, <1>10, OfThread, ReleaseFacts DEF Quiet
<1>12. QuietSound(t, v, l)
  <2>1. LockOk(t, v, l, lock')
    BY <1>1, <1>3, <1>4, ReleaseFacts DEF LockOk, Holding, Begun
  <2>2. BufferOk(t, v, troubles')
    <3>1. DOMAIN v.buf = {} /\ Len(v.buf) = 0
      BY <1>4
    <3> QED
      BY <1>1, <1>4, <3>1, OfThread DEF BufferOk
  <2> QED
    BY <1>1, <1>3, <1>4, <2>1, <2>2, ReleaseFacts DEF QuietSound, BareOk, OpenOk, ReadOk
<1>13. ASSUME ~haunted' PROVE QuietTruth(t, v, l)
  <2>1. CountOk(t, w[t], f)
    BY <1>1, <1>13, OfTurn DEF WritingOk, Begun
  <2>2. DoneOk(t, v, f)
    <3>1. w[t].count \in Nat
      BY <1>2 DEF WriterSet
    <3> QED
      BY <1>1, <1>4, <2>1, <3>1 DEF DoneOk, CountOk
  <2>3. WritingOk(t, v, files[v.seg]) /\ TaskOk(v, l, files[l.seg])
    BY <1>3, <1>4 DEF WritingOk, Begun, TaskOk
  <2> QED
    BY <1>1, <1>4, <1>10, <1>13, <2>2, <2>3 DEF QuietTruth
<1> QED
  BY <1>1, <1>11, <1>12, <1>13, QuietStep

\* A torn tail is cut off.
LEMMA RepairTailStep ==
  ASSUME Inv, NEW t \in Turn, RepairTail(t)
  PROVE  Inv'
<1> DEFINE s == load[t].seg
           f == files[s]
           read == load[t].seen
           v == w[t]
<1>1. /\ load[t].at = "repair" /\ haunted' = (haunted \/ Haunts(t))
      /\ UNCHANGED <<index, cache, lock, w, epoch, troubles>>
  BY DEF RepairTail
<1>2. PICK n \in 0..Len(f.lines), tail \in Tails :
        /\ Begins(read.lines, f) => n = ValidLen(read) /\ tail = "none"
        /\ files' = [files EXCEPT ![s] =
                       [f EXCEPT !.lines = SubSeq(f.lines, 1, n), !.tail = tail,
                                 !.mtime = epoch, !.synced = n]]
        /\ load' = [load EXCEPT ![t].at = "stat",
                                ![t].seen = [[f EXCEPT !.lines = SubSeq(f.lines, 1, n),
                                                       !.tail = tail, !.mtime = epoch,
                                                       !.synced = n]
                                              EXCEPT !.lines = read.lines]]
  BY DEF RepairTail
<1> DEFINE lines == SubSeq(f.lines, 1, n)
           g == [f EXCEPT !.lines = lines, !.tail = tail, !.mtime = epoch, !.synced = n]
           seen == [g EXCEPT !.lines = read.lines]
           l == [load[t] EXCEPT !.at = "stat", !.seen = seen]
<1>3. /\ s \in Segment /\ f \in FileSet /\ read \in FileSet /\ v \in WriterSet
      /\ load[t] \in LoadSet /\ load \in [Turn -> LoadSet]
  BY OfTurn DEF LoadSet, Inv, Typed
<1>4. /\ files \in [Segment -> FileSet] /\ FileOk(f, epoch) /\ epoch \in Nat /\ epoch > 0
  BY <1>3, OfThread
<1>5. /\ f.exists /\ read.exists /\ Bad(read.lines) = {} /\ read.tail # "none"
  BY <1>1, OfTurn DEF ReadOk
<1>6. /\ f.lines \in Seq(LineSet) /\ read.lines \in Seq(LineSet) /\ f.synced \in Nat
      /\ Len(f.lines) \in Nat /\ Len(read.lines) \in Nat /\ n \in Nat
  BY <1>3, FileFacts, SeqFacts
<1>7. /\ lines \in Seq(LineSet) /\ Len(lines) = n /\ DOMAIN lines = 1..n
      /\ \A i \in 1..n : lines[i] = f.lines[i]
  BY <1>6, PrefixFacts
<1> HIDE DEF lines
<1>8. /\ g \in FileSet /\ g.exists = f.exists /\ g.lines = lines /\ g.tail = tail
      /\ g.mtime = epoch /\ g.synced = n
  <2> HIDE DEF f
  <2>1. g \in FileSet
    BY <1>3, <1>4, <1>6, <1>7 DEF FileSet
  <2>2. /\ g.exists = f.exists /\ g.lines = lines /\ g.tail = tail
        /\ g.mtime = epoch /\ g.synced = n
    BY <1>3 DEF FileSet
  <2> QED
    BY <2>1, <2>2
<1>9. files' = [files EXCEPT ![s] = g]
  BY <1>2 DEF lines
<1>10. load' = [load EXCEPT ![t] = l]
  BY <1>2, <1>3 DEF lines
<1> HIDE DEF g
<1>11. /\ seen \in FileSet /\ seen.exists = f.exists /\ seen.lines = read.lines
       /\ seen.tail = tail
  <2> HIDE DEF f, read
  <2>1. seen \in FileSet
    BY <1>6, <1>8 DEF FileSet
  <2>2. seen.exists = f.exists /\ seen.lines = read.lines /\ seen.tail = tail
    BY <1>8 DEF FileSet
  <2> QED
    BY <2>1, <2>2
<1> HIDE DEF seen
<1>12. l \in LoadSet /\ l.at = "stat" /\ l.seg = s /\ l.seen = seen
  BY <1>3, <1>11 DEF LoadSet
<1> HIDE DEF l
<1>13. files'[s] = g
  BY <1>3, <1>4, <1>9
<1>14. OneStep(t, s, g, v, l)
  <2>1. w' = [w EXCEPT ![t] = v] /\ lock' \in Turn \cup {NoTurn}
    BY <1>1, OfTurn
  <2>2. haunted' \in BOOLEAN /\ index' \in IndexSet /\ cache' \in States /\ epoch' = epoch
        /\ troubles' = troubles /\ troubles' <= MaxTroubles
    BY <1>1, OfThread DEF Haunts
  <2> HIDE DEF s, v
  <2> QED
    BY <1>3, <1>8, <1>9, <1>10, <1>12, <2>1, <2>2 DEF OneStep
<1>15. FileOk(g, epoch)
  BY <1>4, <1>5, <1>6, <1>7, <1>8 DEF FileOk
<1>16. \A i \in DOMAIN g.lines : i \in DOMAIN f.lines /\ g.lines[i] = f.lines[i]
  <2>1. DOMAIN f.lines = 1..Len(f.lines)
    BY <1>6, SeqFacts
  <2>2. \A i \in 1..n : i \in 1..Len(f.lines)
    BY <1>6
  <2> QED
    BY <1>7, <1>8, <2>1, <2>2
<1>17. w[t].pc \in {"loading", "dropped"}
  BY <1>1, OfTurn DEF LockOk
<1>18. OwnSound(t, s, g, v, l)
  <2>1. LockOk(t, v, l, lock')
    BY <1>1, <1>12, <1>17, OfTurn DEF LockOk
  <2>2. ReadOk(l, files'[l.seg])
    BY <1>5, <1>8, <1>11, <1>12, <1>13 DEF ReadOk
  <2>3. BareOk(v) /\ OpenOk(v, files'[v.seg]) /\ BufferOk(t, v, troubles')
    BY <1>1, <1>17, OfTurn DEF OpenOk
  <2>4. FreshOk(t, v, g)
    <3>1. FreshOk(t, v, f)
      BY <1>3 DEF Inv, Sound
    <3> QED
      BY <1>16, <3>1 DEF FreshOk, Places
  <2> QED
    BY <1>1, <1>5, <1>8, <1>15, <1>16, <2>1, <2>2, <2>3, <2>4 DEF OwnSound
<1>19. ASSUME ~haunted' PROVE Truthful'
  <2>1. ~haunted /\ (w[t].pc = "loading" \/ f = read)
    BY <1>1, <1>19 DEF Haunts, At
  <2>2. f.lines = read.lines
    BY <1>1, <2>1, OfTurn DEF TaskOk
  <2>3. Begins(read.lines, f)
    BY <1>6, <2>2, WholePrefix DEF Begins
  <2>4. n = Len(f.lines) /\ tail = "none"
    BY <1>2, <2>2, <2>3 DEF ValidLen
  <2>5. g.lines = f.lines
    BY <1>6, <1>8, <2>4, WholePrefix DEF lines
  <2>6. Grown(f, g, epoch)
    <3>1. f.synced <= g.synced
      BY <1>4, <1>8, <2>4 DEF FileOk
    <3>2. Continues(g.lines, f.lines)
      BY <1>6, <2>5 DEF Continues
    <3> QED
      BY <1>5, <1>8, <3>1, <3>2 DEF Grown
  <2>7. Mended(f, g)
    BY <1>5, <1>8, <2>4, <2>5 DEF Mended
  <2>8. \A i \in DOMAIN g.lines : i > Len(f.lines) => g.lines[i].turn \in {t, NoTurn}
    BY <1>6, <2>5, SeqFacts
  <2>9. TaskOk(v, l, files'[l.seg])
    BY <1>5, <1>8, <1>11, <1>12, <1>13, <2>2, <2>4, <2>5 DEF TaskOk
  <2>10. WritingOk(t, v, files'[v.seg]) /\ DoneOk(t, v, files'[v.seg])
    BY <1>17 DEF WritingOk, Begun, DoneOk
  <2>11. OwnTruth(t, s, g, v, l)
    BY <1>1, <1>15, <2>5, <2>6, <2>7, <2>8, <2>9, <2>10 DEF OwnTruth
  <2> QED
    BY <1>3, <1>14, <2>1, <2>11, StepTruth
<1>20. Typed' /\ Sound'
  BY <1>3, <1>14, <1>18, StepTyped, StepSound DEF Inv
<1> QED
  BY <1>19, <1>20 DEF Inv

-----------------------------------------------------------------------------
(* Writing.                                                                  *)

\* A writer hands lines to its file.
LEMMA GainStep ==
  ASSUME Inv, NEW t \in Turn, w[t].pc \in Begun,
         NEW all \in Seq(LineSet), NEW n \in 0..Len(all), NEW g \in FileSet,
         Gains(files[w[t].seg], g, all, n, epoch),
         \A i \in DOMAIN all : all[i].turn = t,
         NEW v \in WriterSet, v.request = w[t].request, v.seg = w[t].seg,
         v.pc \notin {"idle", "loading", "done"}, BufferOk(t, v, troubles'),
         v.pc \in {"meta", "window"} => v.window \in Window,
         files' = [files EXCEPT ![w[t].seg] = g], w' = [w EXCEPT ![t] = v],
         UNCHANGED <<load, index, cache, epoch, haunted>>,
         lock' \in Turn \cup {NoTurn}, lock' = t <=> v.pc \in Holding,
         \A u \in Turn : u # t => (lock' = u <=> lock = u),
         troubles' \in {troubles, troubles + 1}, troubles' <= MaxTroubles,
         ~haunted => /\ Queue(all, files[w[t].seg].lines)
                     /\ WaitsOk(all, files[w[t].seg].lines, w[t].request)
                     /\ WritingOk(t, v, g)
  PROVE  Inv'
<1> DEFINE s == w[t].seg
           f == files[s]
           l == load[t]
<1>1. /\ s \in Segment /\ f \in FileSet /\ w[t] \in WriterSet /\ l \in LoadSet
      /\ load' = [load EXCEPT ![t] = l]
  BY OfTurn
<1>2. /\ files \in [Segment -> FileSet] /\ FileOk(f, epoch) /\ epoch \in Nat /\ epoch > 0
      /\ w \in [Turn -> WriterSet]
  BY <1>1, OfThread DEF Inv, Typed
<1>3. l.at = "off"
  BY OfTurn DEF LockOk, LoadSet, Begun
<1>4. /\ f.lines \in Seq(LineSet) /\ g.lines \in Seq(LineSet) /\ n \in Nat
      /\ Len(f.lines) \in Nat
  BY <1>1, FileFacts, SeqFacts
<1>5. Grown(f, g, epoch) /\ FileOk(g, epoch) /\ g.exists
  BY <1>1, <1>2, <1>4, GainsGrown DEF Gains
<1>6. Extended(f.lines, g.lines, all, n)
  BY DEF Gains
<1>7. files'[s] = g
  BY <1>1, <1>2
<1>8. OneStep(t, s, g, v, l)
  <2>1. haunted' \in BOOLEAN /\ index' \in IndexSet /\ cache' \in States /\ epoch' = epoch
    BY OfThread
  <2> QED
    BY <1>1, <2>1 DEF OneStep
<1>9. ASSUME NEW i \in DOMAIN g.lines
      PROVE  \/ i \in DOMAIN f.lines /\ g.lines[i] = f.lines[i]
             \/ g.lines[i].turn \in {t, NoTurn}
  BY <1>4, <1>6, ExtendedFrom
<1>10. OwnSound(t, s, g, v, l)
  <2>1. LockOk(t, v, l, lock')
    BY <1>3 DEF LockOk
  <2>2. ReadOk(l, files'[l.seg])
    BY <1>3 DEF ReadOk
  <2>3. BareOk(v) /\ OpenOk(v, files'[v.seg]) /\ FreshOk(t, v, g)
    BY <1>5, <1>7 DEF BareOk, OpenOk, FreshOk
  <2> QED
    BY <1>5, <1>9, <2>1, <2>2, <2>3 DEF OwnSound
<1>11. ASSUME ~haunted PROVE Truthful'
  <2>1. LinesOk(f.lines, w)
    BY <1>1, <1>11 DEF Inv, Truthful
  <2>2. \A u \in Turn : w'[u].request = w[u].request
    BY <1>2
  <2>3. WaitsOk(all, f.lines, w'[t].request) /\ Queue(all, f.lines)
    BY <1>11, <2>2
  <2>4. LinesOk(g.lines, w')
    <3> DEFINE after == w'
    <3>1. /\ WaitsOk(all, f.lines, after[t].request)
          /\ \A u \in Turn : after[u].request = w[u].request
      BY <2>2, <2>3
    <3> HIDE DEF after
    <3>2. LinesOk(g.lines, after)
      BY <1>4, <1>6, <2>1, <2>3, <3>1, LinesLater, SMTT(30)
    <3> QED
      BY <3>2 DEF after
  <2>5. \A i \in DOMAIN g.lines : i > Len(f.lines) => g.lines[i].turn \in {t, NoTurn}
    <3> SUFFICES ASSUME NEW i \in DOMAIN g.lines, i > Len(f.lines)
                 PROVE  g.lines[i].turn \in {t, NoTurn}
      OBVIOUS
    <3>1. DOMAIN f.lines = 1..Len(f.lines)
      BY <1>4, SeqFacts
    <3>2. i \notin DOMAIN f.lines
      BY <1>4, <3>1
    <3> QED
      BY <1>9, <3>2
  <2>6. /\ TaskOk(v, l, files'[l.seg]) /\ WritingOk(t, v, files'[v.seg])
        /\ DoneOk(t, v, files'[v.seg])
    BY <1>3, <1>7, <1>11 DEF TaskOk, DoneOk
  <2>7. w[t].pc \in Holding
    BY DEF Holding
  <2>8. OwnTruth(t, s, g, v, l)
    BY <1>5, <2>4, <2>5, <2>6, <2>7 DEF OwnTruth
  <2> QED
    BY <1>1, <1>8, <1>11, <2>8, StepTruth
<1>12. Typed' /\ Sound'
  BY <1>1, <1>8, <1>10, StepTyped, StepSound DEF Inv
<1> QED
  BY <1>11, <1>12 DEF Inv

\* A writer is dropped with what its buffer holds.
LEMMA DiscardStep ==
  ASSUME Inv, NEW t \in Turn, Discard(t)
  PROVE  Inv'
<1> DEFINE s == w[t].seg
           f == files[s]
           buf == w[t].buf
           v == Over(w[t], "dropped")
<1>1. /\ w[t].pc = "dropping" /\ w' = [w EXCEPT ![t] = v] /\ Release(t)
      /\ UNCHANGED <<index, cache, load, epoch, troubles, haunted>>
  BY DEF Discard, At, Becomes
<1>2. /\ s \in Segment /\ f \in FileSet /\ w[t] \in WriterSet
      /\ buf \in Seq(LineSet) /\ w[t].cut \in BOOLEAN
  BY OfTurn DEF WriterSet
<1>3. f.exists /\ epoch \in Nat /\ w[t].pc \in Begun
  BY <1>1, OfTurn, OfThread DEF OpenOk, Begun
<1>4. Opened(f) = f /\ Len(buf) \in Nat
  BY <1>2, <1>3, OpenedFacts, SeqFacts
<1>5. \E n \in 0..Len(buf), g \in FileSet :
         Gains(f, g, buf, n, epoch) /\ files' = [files EXCEPT ![s] = g]
  <2>1. CASE files' = [files EXCEPT ![s] = Flushed(f, buf, w[t].cut)]
    <3> DEFINE g == Flushed(f, buf, w[t].cut)
    <3>1. g \in FileSet /\ Gains(f, g, buf, Len(buf), epoch)
      BY <1>2, <1>3, <1>4, FlushedGains
    <3>2. Len(buf) \in 0..Len(buf) /\ files' = [files EXCEPT ![s] = g]
      BY <1>4, <2>1
    <3> HIDE DEF g
    <3> QED
      BY <3>1, <3>2
  <2>2. CASE \E n \in 0..(Len(buf) - 1), tail \in Tails :
                files' = [files EXCEPT ![s] = PartlyFlushed(f, buf, w[t].cut, n, tail)]
    <3>1. PICK n \in 0..(Len(buf) - 1), tail \in Tails :
                files' = [files EXCEPT ![s] = PartlyFlushed(f, buf, w[t].cut, n, tail)]
      BY <2>2
    <3> DEFINE g == PartlyFlushed(f, buf, w[t].cut, n, tail)
    <3>2. n \in 0..Len(buf)
      BY <1>4
    <3>3. g \in FileSet /\ Gains(f, g, buf, n, epoch)
      BY <1>2, <1>3, <1>4, <3>2, PartlyGains
    <3> HIDE DEF g
    <3> QED
      BY <3>1, <3>2, <3>3 DEF g
  <2> QED
    BY <2>1, <2>2 DEF Discard
<1>6. PICK n \in 0..Len(buf), g \in FileSet :
         Gains(f, g, buf, n, epoch) /\ files' = [files EXCEPT ![s] = g]
  BY <1>5
<1>7. "dropped" \in Ended
  BY DEF Ended
<1>8. /\ v \in WriterSet /\ v.pc = "dropped" /\ v.request = w[t].request /\ v.seg = s
  BY <1>2, <1>7, OverFacts
<1>9. /\ BufferOk(t, v, troubles) /\ v.pc \notin Holding /\ WritingOk(t, v, g)
  BY <1>7, OfThread, OverOk
<1> HIDE DEF v
<1>10. \A i \in DOMAIN buf : buf[i].turn = t
  BY OfTurn DEF BufferOk
<1>11. ~haunted => Queue(buf, f.lines) /\ WaitsOk(buf, f.lines, w[t].request)
  BY <1>3, OfTurn DEF WritingOk, NumberOk
<1>12. troubles' = troubles /\ troubles' <= MaxTroubles /\ BufferOk(t, v, troubles')
  BY <1>1, <1>9, OfThread
<1>13. v.pc \notin {"idle", "loading", "done"} /\ v.pc \notin {"meta", "window"}
  BY <1>8
<1> QED
  BY <1>1, <1>2, <1>3, <1>6, <1>8, <1>9, <1>10, <1>11, <1>12, <1>13, ReleaseFacts, GainStep

\* A line that may be written next.
MayFollow(line, v, lines) ==
    /\ \A n \in DOMAIN lines : lines[n].seq < line.seq
    /\ \A n \in DOMAIN v.buf : v.buf[n].seq < line.seq
    /\ line.type = "context" => Fits(lines, line.body, v.request)

Owned(t, buf) == \A n \in DOMAIN buf : buf[n].turn = t

\* ... is one of the turn's, as the others are,
LEMMA OwnedMore ==
  ASSUME NEW t, NEW buf \in Seq(LineSet), NEW line \in LineSet, line.turn = t,
         Owned(t, buf)
  PROVE  Owned(t, Append(buf, line))
<1> DEFINE all == Append(buf, line)
<1>1. /\ DOMAIN all = 1..(Len(buf) + 1) /\ DOMAIN buf = 1..Len(buf) /\ Len(buf) \in Nat
      /\ \A i \in 1..Len(buf) : all[i] = buf[i]
      /\ all[Len(buf) + 1] = line
  BY AppendFacts, SeqFacts
<1>2. \A n \in DOMAIN all : n = Len(buf) + 1 \/ n \in DOMAIN buf
  BY <1>1
<1>3. \A n \in DOMAIN all : all[n].turn = t
  BY <1>1, <1>2 DEF Owned
<1> QED
  BY <1>3 DEF Owned

\* ... and waits behind them.
LEMMA FollowFacts ==
  ASSUME NEW v \in WriterSet, NEW line \in LineSet, NEW lines \in Seq(LineSet),
         MayFollow(line, v, lines), NumberOk(v, lines), WaitsOk(v.buf, lines, v.request)
  PROVE  /\ Queue(Append(v.buf, line), lines)
         /\ WaitsOk(Append(v.buf, line), lines, v.request)
<1> DEFINE buf == v.buf
           all == Append(buf, line)
<1>1. buf \in Seq(LineSet)
  BY DEF WriterSet
<1>2. /\ all \in Seq(LineSet) /\ Len(all) = Len(buf) + 1 /\ Len(buf) \in Nat
      /\ DOMAIN all = 1..(Len(buf) + 1) /\ DOMAIN buf = 1..Len(buf)
      /\ \A i \in 1..Len(buf) : all[i] = buf[i]
      /\ all[Len(buf) + 1] = line
  BY <1>1, AppendFacts, SeqFacts
<1>3. \A n \in DOMAIN all : n = Len(buf) + 1 \/ n \in DOMAIN buf
  BY <1>2
<1>5. Queue(all, lines)
  <2>1. Queue(buf, lines)
    BY DEF NumberOk
  <2>2. /\ \A n \in DOMAIN lines : lines[n].seq < line.seq
        /\ \A n \in DOMAIN buf : buf[n].seq < line.seq
    BY DEF MayFollow
  <2> HIDE DEF buf
  <2> QED
    BY <1>1, <2>1, <2>2, QueueMore
<1>6. WaitsOk(all, lines, v.request)
  BY <1>2, <1>3 DEF WaitsOk, MayFollow
<1> QED
  BY <1>5, <1>6

\* The end of a sequence.
LEMMA SuffixFacts ==
  ASSUME NEW S, NEW s \in Seq(S), NEW n \in 0..Len(s)
  PROVE  /\ SubSeq(s, n + 1, Len(s)) \in Seq(S)
         /\ Len(SubSeq(s, n + 1, Len(s))) = Len(s) - n
         /\ \A i \in 1..(Len(s) - n) : SubSeq(s, n + 1, Len(s))[i] = s[n + i]
<1>1. Len(s) \in Nat /\ n \in Nat /\ n <= Len(s)
  BY SeqFacts
<1>2. \A i \in (n + 1)..Len(s) : i \in 1..Len(s) /\ s[i] \in S
  BY <1>1, SeqFacts
<1> QED
  BY <1>1, <1>2

\* What a BufWriter keeps when a write has failed.
LEMMA KeptFacts ==
  ASSUME NEW buf \in Seq(LineSet), NEW line \in LineSet, NEW n \in 0..Len(buf), NEW lost \in BOOLEAN,
         NEW kept, kept = IF lost THEN SubSeq(buf, n + 1, Len(buf))
                          ELSE SubSeq(Append(buf, line), n + 1, Len(Append(buf, line)))
  PROVE  kept \in Seq(LineSet) /\ Rest(kept, Append(buf, line), n)
         /\ Len(kept) <= Len(buf) + 1
<1> DEFINE all == Append(buf, line)
<1>1. /\ all \in Seq(LineSet) /\ Len(all) = Len(buf) + 1 /\ Len(buf) \in Nat /\ n \in Nat
      /\ \A i \in 1..Len(buf) : all[i] = buf[i]
  BY AppendFacts, SeqFacts
<1>2. CASE lost
  <2>1. kept = SubSeq(buf, n + 1, Len(buf))
    BY <1>2
  <2>2. /\ kept \in Seq(LineSet) /\ Len(kept) = Len(buf) - n
        /\ \A i \in 1..(Len(buf) - n) : kept[i] = buf[n + i]
    BY <2>1, SuffixFacts
  <2> HIDE DEF all
  <2>3. \A i \in 1..Len(kept) : n + i \in 1..Len(buf)
    BY <1>1, <2>2
  <2>4. \A i \in 1..Len(kept) : kept[i] = all[n + i]
    BY <1>1, <2>2, <2>3
  <2>5. Len(kept) <= Len(all) - n /\ Len(kept) <= Len(buf) + 1
    BY <1>1, <2>2
  <2> QED
    BY <2>2, <2>4, <2>5 DEF Rest, all
<1>3. CASE ~lost
  <2>0. kept = SubSeq(all, n + 1, Len(all))
    BY <1>3
  <2> HIDE DEF all
  <2>1. n \in 0..Len(all) /\ all \in Seq(LineSet)
    BY <1>1
  <2>2. /\ kept \in Seq(LineSet) /\ Len(kept) = Len(all) - n
        /\ \A i \in 1..(Len(all) - n) : kept[i] = all[n + i]
    BY <2>0, <2>1, SuffixFacts
  <2>3. Len(kept) <= Len(all) - n /\ Len(kept) <= Len(buf) + 1
    BY <1>1, <2>2
  <2> QED
    BY <2>2, <2>3 DEF Rest, all
<1> QED
  BY <1>2, <1>3

\* What a writer knows when a write has failed.
LEMMA FailedWriting ==
  ASSUME NEW t \in Turn, NEW f \in FileSet, NEW g \in FileSet, NEW old \in WriterSet,
         NEW v \in WriterSet, NEW now,
         NEW all \in Seq(LineSet), NEW n \in 0..Len(all), Gains(f, g, all, n, now),
         Queue(all, f.lines), WaitsOk(all, f.lines, old.request),
         old.pc \in Begun, WritingOk(t, old, f),
         Rest(v.buf, all, n),
         v.faulty, v.pc \in {"response", "dropping"}, v.pc = "response" => old.pc = "response",
         v.request = old.request, v.refs = old.refs, v.start = old.start,
         v.count = old.count, v.base = old.base, v.added = old.added,
         v.events = old.events, v.items = old.items, v.window = old.window,
         old.seq <= v.seq, \A i \in DOMAIN all : all[i].seq <= v.seq
  PROVE  WritingOk(t, v, g)
<1>1. /\ f.lines \in Seq(LineSet) /\ g.lines \in Seq(LineSet) /\ n \in Nat
      /\ Len(f.lines) \in Nat /\ Len(g.lines) \in Nat /\ Len(all) \in Nat
      /\ old.seq \in Nat /\ v.seq \in Nat /\ v.buf \in Seq(LineSet) /\ old.count \in Nat
  BY FileFacts, SeqFacts DEF WriterSet
<1>2. /\ Extended(f.lines, g.lines, all, n) /\ Len(g.lines) = Len(f.lines) + n
      /\ Continues(g.lines, f.lines)
  BY <1>1, ExtendedContinues DEF Gains, Extended
<1>3. /\ CountOk(t, old, f) /\ NumberOk(old, f.lines) /\ KnowsOk(old, f.lines)
      /\ RefsOk(old, f.lines)
  BY DEF WritingOk
<1>4. CountOk(t, v, g)
  <2>1. v.count <= Len(g.lines)
    BY <1>1, <1>2, <1>3 DEF CountOk
  <2> QED
    BY <1>3, <2>1 DEF CountOk
<1>5. \A i \in DOMAIN v.buf : n + i \in DOMAIN all /\ v.buf[i] = all[n + i]
  <2>1. DOMAIN v.buf = 1..Len(v.buf) /\ DOMAIN all = 1..Len(all) /\ Len(v.buf) \in Nat
    BY <1>1, SeqFacts
  <2> QED
    BY <1>1, <2>1 DEF Rest
<1>6. NumberOk(v, g.lines)
  <2>1. \A i \in DOMAIN f.lines : f.lines[i].seq <= v.seq
    <3> SUFFICES ASSUME NEW i \in DOMAIN f.lines PROVE f.lines[i].seq <= v.seq
      OBVIOUS
    <3>1. f.lines[i].seq \in Nat /\ f.lines[i].seq <= old.seq
      BY <1>1, <1>3, SeqNumbers DEF NumberOk
    <3>2. old.seq \in Nat /\ v.seq \in Nat
      BY <1>1
    <3> QED
      BY <3>1, <3>2, AtMost, Zenon
  <2>2. \A i \in DOMAIN g.lines : g.lines[i].seq <= v.seq
    BY <1>1, <1>2, <2>1, ExtendedNumbers
  <2>3. \A i \in DOMAIN v.buf : v.buf[i].seq <= v.seq
    BY <1>5
  <2>4. Queue(v.buf, g.lines)
    BY <1>1, <1>2, QueueRest
  <2> QED
    BY <2>2, <2>3, <2>4 DEF NumberOk
<1>7. KnowsOk(v, g.lines)
  <2> SUFFICES ASSUME v.pc = "response", Len(g.lines) = v.count, Bad(g.lines) = {}
               PROVE  KnowsOk(v, g.lines)
    BY DEF KnowsOk
  <2>1. n = 0 /\ Len(f.lines) = Len(g.lines)
    BY <1>1, <1>2, <1>3 DEF CountOk
  <2>2. g.lines = f.lines
    BY <1>1, <1>2, <2>1, SameSeq DEF Continues
  <2> QED
    BY <1>3, <2>2 DEF KnowsOk
<1>8. WaitsOk(v.buf, g.lines, v.request)
  <2> SUFFICES ASSUME NEW i \in DOMAIN v.buf, v.buf[i].type = "context"
               PROVE  Fits(g.lines, v.buf[i].body, v.request)
    BY DEF WaitsOk
  <2>1. Fits(f.lines, v.buf[i].body, v.request)
    BY <1>5 DEF WaitsOk
  <2> QED
    BY <1>1, <1>2, <2>1, FitsLater
<1>9. RefsOk(v, g.lines)
  BY <1>3 DEF RefsOk
<1> QED
  BY <1>4, <1>6, <1>7, <1>8, <1>9 DEF WritingOk

\* A writer's next line, behind those it still holds.
LEMMA Behind ==
  ASSUME Inv, NEW t \in Turn, w[t].pc \in Begun, NEW line \in LineSet, line.turn = t,
         ~haunted => MayFollow(line, w[t], files[w[t].seg].lines)
  PROVE  /\ Append(w[t].buf, line) \in Seq(LineSet)
         /\ Len(Append(w[t].buf, line)) = Len(w[t].buf) + 1 /\ Len(w[t].buf) \in Nat
         /\ Owned(t, Append(w[t].buf, line))
         /\ ~haunted => /\ Queue(Append(w[t].buf, line), files[w[t].seg].lines)
                        /\ WaitsOk(Append(w[t].buf, line), files[w[t].seg].lines,
                                   w[t].request)
<1> DEFINE f == files[w[t].seg]
           old == w[t]
           all == Append(old.buf, line)
<1>1. f \in FileSet /\ old \in WriterSet /\ old.buf \in Seq(LineSet)
  BY OfTurn DEF WriterSet
<1>2. Owned(t, old.buf)
  BY OfTurn DEF BufferOk, Owned
<1>3. f.lines \in Seq(LineSet)
  BY <1>1, FileFacts
<1>4. ~haunted => /\ MayFollow(line, old, f.lines) /\ NumberOk(old, f.lines)
                  /\ WaitsOk(old.buf, f.lines, old.request)
  BY OfTurn DEF WritingOk
<1>5. /\ all \in Seq(LineSet) /\ Len(all) = Len(old.buf) + 1 /\ Len(old.buf) \in Nat
      /\ Owned(t, all)
      /\ ~haunted => Queue(all, f.lines) /\ WaitsOk(all, f.lines, old.request)
  <2> HIDE DEF old, f
  <2>1. all \in Seq(LineSet) /\ Len(all) = Len(old.buf) + 1 /\ Len(old.buf) \in Nat
    BY <1>1, AppendFacts, SeqFacts
  <2>2. Owned(t, all)
    BY <1>1, <1>2, OwnedMore
  <2>3. ~haunted => Queue(all, f.lines) /\ WaitsOk(all, f.lines, old.request)
    BY <1>1, <1>3, <1>4, FollowFacts
  <2> QED
    BY <2>1, <2>2, <2>3, Zenon
<1> QED
  BY <1>5, Zenon

\* A write that fails, of any line.
LEMMA FailStep ==
  ASSUME Inv, NEW t \in Turn, w[t].pc \in Begun, NEW line \in LineSet, line.turn = t,
         NEW after \in WriterSet, WriteFails(t, line, after),
         UNCHANGED <<index, cache, lock, load, epoch, haunted>>,
         after.pc \in {"response", "dropping"}, after.pc = "response" => w[t].pc = "response",
         after.seg = w[t].seg, after.request = w[t].request, after.refs = w[t].refs,
         after.start = w[t].start, after.count = w[t].count, after.base = w[t].base,
         after.added = w[t].added, after.events = w[t].events, after.items = w[t].items,
         after.window = w[t].window,
         w[t].seq <= after.seq, line.seq <= after.seq,
         ~haunted => MayFollow(line, w[t], files[w[t].seg].lines)
  PROVE  Inv'
<1> DEFINE s == w[t].seg
           f == files[s]
           old == w[t]
           all == Append(old.buf, line)
<1>1. /\ s \in Segment /\ f \in FileSet /\ old \in WriterSet /\ epoch \in Nat
      /\ old.cut \in BOOLEAN /\ old.buf \in Seq(LineSet)
  BY OfTurn, OfThread DEF WriterSet
<1>2. troubles < MaxTroubles /\ troubles' = troubles + 1
  BY DEF WriteFails, Trouble
<1>7. /\ all \in Seq(LineSet) /\ Len(all) = Len(old.buf) + 1 /\ Len(old.buf) \in Nat
      /\ \A i \in DOMAIN all : all[i].turn = t
      /\ ~haunted => Queue(all, f.lines) /\ WaitsOk(all, f.lines, old.request)
  BY Behind, Zenon DEF Owned
<1>3. PICK n \in 0..Len(w[t].buf), tail \in Tails, lost \in BOOLEAN :
          LET seg == w[t].seg
              opened == Opened(files[seg])
              whole == Append(w[t].buf, line)
              there == PartlyFlushed(opened, whole, w[t].cut, n, tail)
              rest == IF lost THEN SubSeq(w[t].buf, n + 1, Len(w[t].buf))
                              ELSE SubSeq(whole, n + 1, Len(whole))
          IN /\ tail \in TailsOf(whole[n + 1].type)
             /\ files' = [files EXCEPT ![seg] = there]
             /\ Becomes(t, [after EXCEPT
                    !.buf = rest,
                    !.cut = /\ rest # <<>>
                            /\ there.tail # "none"
                            /\ n > 0 \/ opened.tail = "none" \/ w[t].cut,
                    !.faulty = TRUE])
  BY Zenon DEF WriteFails
<1> DEFINE g == PartlyFlushed(Opened(f), all, old.cut, n, tail)
           kept == IF lost THEN SubSeq(old.buf, n + 1, Len(old.buf))
                   ELSE SubSeq(all, n + 1, Len(all))
           cut == kept # <<>> /\ g.tail # "none"
                     /\ (n > 0 \/ Opened(f).tail = "none" \/ old.cut)
           v == [after EXCEPT !.buf = kept, !.cut = cut, !.faulty = TRUE]
<1>4. files' = [files EXCEPT ![s] = g] /\ w' = [w EXCEPT ![t] = v]
  BY <1>3, Zenon DEF Becomes
<1>5. kept \in Seq(LineSet) /\ Rest(kept, all, n) /\ Len(kept) <= Len(old.buf) + 1
  <2>1. n \in 0..Len(old.buf)
    BY <1>3
  <2> HIDE DEF old
  <2> QED
    BY <1>1, <2>1, KeptFacts
<1>8. cut \in BOOLEAN /\ (cut => kept # <<>>)
  <2> HIDE DEF kept, g
  <2> QED
    OBVIOUS
<1> HIDE DEF cut, kept
<1>9. v \in WriterSet
  BY <1>5, <1>8 DEF WriterSet
<1>10. /\ v.buf = kept /\ v.cut = cut /\ v.faulty = TRUE /\ v.pc = after.pc
       /\ v.seg = after.seg /\ v.request = after.request /\ v.refs = after.refs
       /\ v.start = after.start /\ v.count = after.count /\ v.base = after.base
       /\ v.added = after.added /\ v.events = after.events /\ v.items = after.items
       /\ v.window = after.window /\ v.seq = after.seq
  BY DEF WriterSet
<1> HIDE DEF v
<1>11. n \in 0..Len(all)
  <2> HIDE DEF all
  <2> QED
    BY <1>7
<1>12. g \in FileSet /\ Gains(f, g, all, n, epoch)
  <2> HIDE DEF all, f, old
  <2> QED
    BY <1>1, <1>7, <1>11, PartlyGains
<1> HIDE DEF g, all
<1>13. BufferOk(t, v, troubles')
  <2>1. Len(kept) <= troubles'
    <3>1. Len(old.buf) <= troubles /\ troubles \in Nat /\ Len(kept) \in Nat
      BY <1>5, OfTurn, OfThread, SeqFacts DEF BufferOk
    <3> QED
      BY <1>2, <1>5, <1>7, <3>1
  <2>2. \A i \in DOMAIN kept : kept[i].turn = t
    <3>1. DOMAIN kept = 1..Len(kept) /\ DOMAIN all = 1..Len(all) /\ Len(kept) \in Nat
          /\ Len(all) \in Nat
      BY <1>5, <1>7, SeqFacts
    <3>2. \A i \in DOMAIN kept : n + i \in DOMAIN all /\ kept[i] = all[n + i]
      BY <1>5, <1>11, <3>1 DEF Rest
    <3> QED
      BY <1>7, <3>2
  <2> QED
    BY <1>8, <1>10, <2>1, <2>2 DEF BufferOk
<1>14. ASSUME ~haunted PROVE WritingOk(t, v, g)
  <2>1. WritingOk(t, old, f) /\ Queue(all, f.lines) /\ WaitsOk(all, f.lines, old.request)
        /\ NumberOk(old, f.lines) /\ MayFollow(line, old, f.lines)
    BY <1>7, <1>14, OfTurn DEF WritingOk
  <2>2. \A i \in DOMAIN all : all[i].seq <= v.seq
    <3>1. /\ DOMAIN all = 1..(Len(old.buf) + 1) /\ DOMAIN old.buf = 1..Len(old.buf)
          /\ \A i \in 1..Len(old.buf) : all[i] = old.buf[i]
          /\ all[Len(old.buf) + 1] = line
      BY <1>1, AppendFacts, SeqFacts DEF all
    <3> SUFFICES ASSUME NEW i \in DOMAIN all PROVE all[i].seq <= v.seq
      OBVIOUS
    <3>2. CASE i = Len(old.buf) + 1
      <4>1. all[i] = line
        BY <3>1, <3>2, Zenon
      <4>2. line.seq <= v.seq
        BY <1>10
      <4> QED
        BY <4>1, <4>2, Zenon
    <3>3. CASE i \in DOMAIN old.buf
      <4>1. old.buf[i].seq \in Nat /\ old.buf[i].seq <= old.seq /\ old.seq \in Nat
            /\ after.seq \in Nat
        BY <1>1, <2>1, <3>3, SeqNumbers DEF NumberOk, WriterSet
      <4> QED
        BY <1>10, <3>1, <3>3, <4>1
    <3> QED
      BY <1>7, <3>1, <3>2, <3>3
  <2>3. /\ v.request = old.request /\ v.refs = old.refs /\ v.start = old.start
        /\ v.count = old.count /\ v.base = old.base /\ v.added = old.added
        /\ v.events = old.events /\ v.items = old.items /\ v.window = old.window
        /\ old.seq <= v.seq /\ v.faulty /\ v.pc \in {"response", "dropping"}
        /\ v.pc = "response" => old.pc = "response"
        /\ old.pc \in Begun /\ Rest(v.buf, all, n)
    BY <1>5, <1>10
  <2> HIDE DEF old, f
  <2> QED
    BY <1>1, <1>7, <1>9, <1>11, <1>12, <2>1, <2>2, <2>3, FailedWriting
<1>15. troubles' \in {troubles, troubles + 1} /\ troubles' <= MaxTroubles
  BY <1>2, OfThread, RolloutAssumption
<1>16. lock = t /\ v.pc \in Holding /\ v.pc \notin {"idle", "loading", "done"}
       /\ lock \in Turn \cup {NoTurn}
  BY <1>10, OfTurn DEF LockOk, Holding, Begun
<1>17. v.request = w[t].request /\ v.seg = w[t].seg /\ lock' = lock
  BY <1>10
<1>18. v.pc \notin {"meta", "window"}
  BY <1>10
<1> QED
  BY <1>4, <1>7, <1>9, <1>11, <1>12, <1>13, <1>14, <1>15, <1>16, <1>17, <1>18, GainStep

\* A whole line.
LEMMA FlushedPlain ==
  ASSUME NEW f \in FileSet, NEW buf \in Seq(LineSet), NEW line \in LineSet,
         NEW cut \in BOOLEAN, epoch \in Nat
  PROVE  /\ Flushed(Opened(f), Append(buf, line), cut).tail = "none"
         /\ buf = <<>> /\ ~cut /\ f.tail = "none" =>
               Flushed(Opened(f), Append(buf, line), cut).lines = Append(f.lines, line)
         /\ /\ Len(Flushed(Opened(f), Append(buf, line), cut).lines) = Len(f.lines) + 1
            /\ Bad(Flushed(Opened(f), Append(buf, line), cut).lines) = {}
            => Flushed(Opened(f), Append(buf, line), cut).lines = Append(f.lines, line)
<1> DEFINE h == Opened(f)
           all == Append(buf, line)
           g == Flushed(h, all, cut)
           N == Len(f.lines) + 1
           more == Append(f.lines, line)
<1>1. h \in FileSet /\ h.lines = f.lines /\ h.tail = f.tail
  BY OpenedFacts
<1>2. /\ all \in Seq(LineSet) /\ Len(all) = Len(buf) + 1 /\ Len(buf) \in Nat
      /\ all[Len(buf) + 1] = line /\ all # <<>> /\ (buf = <<>> <=> Len(buf) = 0)
  BY AppendFacts, SeqFacts
<1>3. /\ f.lines \in Seq(LineSet) /\ Len(f.lines) \in Nat /\ more \in Seq(LineSet)
      /\ Len(more) = N /\ more[N] = line
      /\ \A i \in 1..Len(f.lines) : more[i] = f.lines[i]
  BY FileFacts, AppendFacts, SeqFacts
<1> HIDE DEF h, all, more
<1>4. /\ g \in FileSet /\ Extended(h.lines, g.lines, all, Len(all)) /\ g.tail = "none"
      /\ cut = (h.tail # "none") => g.lines[Len(h.lines) + 1] = all[1]
  BY <1>1, <1>2, FlushedFacts
<1> HIDE DEF g
<1>5. /\ g.lines \in Seq(LineSet) /\ Len(g.lines) \in Nat
      /\ Len(g.lines) = Len(f.lines) + Len(all)
      /\ \A i \in 1..Len(f.lines) : g.lines[i] = f.lines[i]
      /\ DOMAIN g.lines = 1..Len(g.lines)
  <2>1. g.lines \in Seq(LineSet) /\ Len(g.lines) \in Nat /\ DOMAIN g.lines = 1..Len(g.lines)
    BY <1>4, FileFacts, SeqFacts
  <2>2. /\ Len(g.lines) = Len(f.lines) + Len(all)
        /\ \A i \in 1..Len(f.lines) : g.lines[i] = f.lines[i]
    BY <1>1, <1>4 DEF Extended
  <2> QED
    BY <2>1, <2>2, Zenon
<1>6. ASSUME buf = <<>>, g.lines[N] = line PROVE g.lines = more
  <2>1. Len(g.lines) = Len(more)
    BY <1>2, <1>3, <1>5, <1>6
  <2>2. \A i \in 1..Len(g.lines) : i = N \/ i \in 1..Len(f.lines)
    BY <1>3, <2>1
  <2>3. \A i \in 1..Len(g.lines) : g.lines[i] = more[i]
    BY <1>3, <1>5, <1>6, <2>2
  <2> QED
    BY <1>3, <1>5, <2>1, <2>3, SameSeq
<1>7. ASSUME buf = <<>>, ~cut, f.tail = "none" PROVE g.lines = more
  <2>1. all[1] = line
    BY <1>2, <1>7
  <2>2. g.lines[N] = line
    BY <1>1, <1>4, <1>7, <2>1
  <2> QED
    BY <1>6, <1>7, <2>2
<1>8. ASSUME Len(g.lines) = N, Bad(g.lines) = {} PROVE g.lines = more
  <2>1. Len(buf) = 0 /\ buf = <<>> /\ all[1] = line
    <3> DEFINE L == Len(f.lines)
               A == Len(all)
    <3>1. L + 1 = L + A /\ A \in Nat /\ L \in Nat
      BY <1>2, <1>3, <1>5, <1>8, SeqFacts
    <3>2. A = 1
      <4> HIDE DEF L, A
      <4> QED
        BY <3>1
    <3>3. Len(buf) = 0
      BY <1>2, <3>2
    <3> QED
      BY <1>2, <3>3
  <2>2. N \in 1..Len(g.lines) /\ N > Len(f.lines) /\ N - Len(f.lines) = 1
    BY <1>3, <1>8
  <2>3. g.lines[N] = all[1] \/ g.lines[N].type \in Broken
    <3>1. \A m \in 1..Len(g.lines) : m > Len(f.lines) =>
             g.lines[m] = all[m - Len(f.lines)] \/ g.lines[m].type \in Broken
      BY <1>1, <1>4 DEF Extended
    <3> QED
      BY <2>2, <3>1
  <2>4. g.lines[N].type \notin Broken
    BY <1>5, <1>8, <2>2 DEF Bad, Broken
  <2> QED
    BY <1>6, <2>1, <2>3, <2>4
<1>9. /\ g.tail = "none"
      /\ buf = <<>> /\ ~cut /\ f.tail = "none" => g.lines = more
      /\ Len(g.lines) = N /\ Bad(g.lines) = {} => g.lines = more
  BY <1>4, <1>7, <1>8
<1> QED
  BY <1>9, Zenon DEF g, h, all, more

\* What a writer knows of a file it can trust itself about.
Knowing(v, lines) ==
    /\ Knows(v.events, v.items, lines)
    /\ v.pc \notin {"meta", "window"} => v.window = Learned(lines).window
    /\ v.pc \in {"sync", "publish"} => v.seq = Learned(lines).seq

\* The places of a turn, with one line more.
LEMMA PlacesMore ==
  ASSUME NEW t \in Turn, NEW lines \in Seq(LineSet), NEW line \in LineSet, line.turn = t,
         line.type \notin Broken, Bad(lines) = {}
  PROVE  /\ Places(t, Append(lines, line)) = Places(t, lines) \cup {Len(lines) + 1}
         /\ Bad(Append(lines, line)) = {}
<1> DEFINE more == Append(lines, line)
           N == Len(lines) + 1
<1>1. /\ DOMAIN more = 1..N /\ more[N] = line /\ Len(lines) \in Nat
      /\ DOMAIN lines = 1..Len(lines)
      /\ \A i \in 1..Len(lines) : more[i] = lines[i]
  BY AppendFacts, SeqFacts
<1>2. \A i \in DOMAIN more : i = N \/ i \in DOMAIN lines
  BY <1>1
<1>3. N \in DOMAIN more /\ N \notin DOMAIN lines
      /\ \A i \in DOMAIN lines : i \in DOMAIN more /\ more[i] = lines[i]
  BY <1>1
<1>4. more[N].turn = t /\ more[N].type \notin Broken
  BY <1>1
<1> HIDE DEF more, N
<1>5. Places(t, more) = Places(t, lines) \cup {N}
  BY <1>2, <1>3, <1>4 DEF Places
<1>6. Bad(more) = {}
  BY <1>2, <1>3, <1>4 DEF Bad, Broken
<1> QED
  BY <1>5, <1>6 DEF more, N

\* What a writer knows when a write has succeeded.
LEMMA OkWriting ==
  ASSUME NEW t \in Turn, NEW f \in FileSet, NEW g \in FileSet, NEW old \in WriterSet,
         NEW v \in WriterSet, NEW line \in LineSet, line.turn = t, line.type \notin Broken,
         NEW all \in Seq(LineSet), Len(all) = Len(old.buf) + 1,
         Extended(f.lines, g.lines, all, Len(all)),
         g.tail = "none",
         old.buf = <<>> /\ f.tail = "none" => g.lines = Append(f.lines, line),
         Len(g.lines) = Len(f.lines) + 1 /\ Bad(g.lines) = {} =>
             g.lines = Append(f.lines, line),
         old.pc \in Begun, old.pc # "dropping", WritingOk(t, old, f),
         v.buf = <<>>, v.faulty = old.faulty,
         v.pc \in {"window", "turn", "request", "ready", "response", "sync"},
         v.pc \notin {"response", "sync"} => old.pc \in {"meta", "window", "turn", "request"},
         v.pc = "sync" => line.type = "turn_end",
         v.start = old.start, v.base = old.base,
         v.count = old.count + 1, v.added = old.added + 1,
         old.seq <= v.seq, \A i \in DOMAIN all : all[i].seq <= v.seq,
         Knowing(old, f.lines) => Knowing(v, Append(f.lines, line)),
         RefsOk(v, Append(f.lines, line))
  PROVE  WritingOk(t, v, g)
<1> DEFINE N == Len(f.lines)
<1>1. /\ f.lines \in Seq(LineSet) /\ g.lines \in Seq(LineSet) /\ N \in Nat
      /\ Len(g.lines) \in Nat /\ Len(all) \in Nat /\ Len(old.buf) \in Nat
      /\ old.seq \in Nat /\ v.seq \in Nat /\ old.count \in Nat /\ old.added \in Nat
      /\ old.base \in Nat /\ old.buf \in Seq(LineSet)
  BY FileFacts, SeqFacts DEF WriterSet
<1>2. Len(g.lines) = N + Len(all) /\ Len(g.lines) >= N + 1
  <2>1. Len(g.lines) = N + Len(all)
    BY DEF Extended
  <2> QED
    BY <1>1, <2>1
<1>3. /\ CountOk(t, old, f) /\ NumberOk(old, f.lines) /\ KnowsOk(old, f.lines)
  BY DEF WritingOk
<1>4. /\ old.start = old.base + 1 /\ old.count = old.base + old.added /\ old.count <= N
      /\ v.pc \notin {"response", "sync"} => ~old.faulty
  BY <1>3 DEF CountOk
<1>5. ASSUME ~old.faulty
      PROVE  /\ g.lines = Append(f.lines, line) /\ N = old.count
             /\ Len(g.lines) = v.count /\ Bad(g.lines) = {}
             /\ Places(t, g.lines) = v.start..v.count
             /\ v.count \in Places(t, g.lines) /\ g.lines[v.count] = line
  <2>1. /\ old.buf = <<>> /\ f.tail = "none" /\ N = old.count /\ Bad(f.lines) = {}
        /\ Places(t, f.lines) = old.start..old.count
    BY <1>3, <1>5 DEF CountOk
  <2>2. g.lines = Append(f.lines, line)
    BY <2>1
  <2>3. Len(g.lines) = N + 1 /\ g.lines[N + 1] = line
    BY <1>1, <2>2, AppendFacts
  <2>4. Places(t, g.lines) = Places(t, f.lines) \cup {N + 1} /\ Bad(g.lines) = {}
    <3>1. /\ Places(t, Append(f.lines, line)) = Places(t, f.lines) \cup {Len(f.lines) + 1}
          /\ Bad(Append(f.lines, line)) = {}
      BY <1>1, <2>1, PlacesMore, Zenon
    <3> QED
      BY <2>2, <3>1, Zenon
  <2>5. old.start..(old.count + 1) = (old.start..old.count) \cup {old.count + 1}
    <3> DEFINE a == old.start
               b == old.count
               base == old.base
               added == old.added
    <3>1. /\ a \in Nat /\ b \in Nat /\ base \in Nat /\ added \in Nat
          /\ a = base + 1 /\ b = base + added
      BY <1>1, <1>4, SMTT(30)
    <3> HIDE DEF a, b, base, added
    <3>2. a <= b + 1
      BY <3>1
    <3>3. a..(b + 1) = (a..b) \cup {b + 1}
      BY <3>1, <3>2, IntervalMore
    <3> QED
      BY <3>3 DEF a, b
  <2> QED
    BY <2>1, <2>2, <2>3, <2>4, <2>5
<1>6. CountOk(t, v, g)
  <2>1. v.start = v.base + 1 /\ v.count = v.base + v.added /\ v.count <= Len(g.lines)
    <3> HIDE DEF N
    <3>1. old.start = old.base + 1 /\ old.count = old.base + old.added /\ old.count <= N
      BY <1>4
    <3>2. Len(g.lines) >= N + 1
      BY <1>2
    <3>3. v.count = old.base + (old.added + 1) /\ v.count <= Len(g.lines)
      <4>1. /\ old.count \in Nat /\ old.base \in Nat /\ old.added \in Nat /\ N \in Nat
            /\ Len(g.lines) \in Nat /\ old.count = old.base + old.added /\ old.count <= N
            /\ Len(g.lines) >= N + 1 /\ v.count = old.count + 1
        BY <1>1, <3>1, <3>2
      <4> QED
        BY <4>1
    <3> QED
      BY <3>1, <3>3, Zenon
  <2>2. ~v.faulty => /\ v.pc # "dropping" /\ v.buf = <<>> /\ g.tail = "none"
                     /\ Len(g.lines) = v.count /\ Bad(g.lines) = {}
                     /\ Places(t, g.lines) = v.start..v.count
                     /\ v.pc \in {"sync", "publish"} =>
                           v.count \in Places(t, g.lines) /\ g.lines[v.count].type = "turn_end"
                     /\ v.pc # "publish"
    BY <1>5
  <2>3. v.pc \in {"meta", "window", "turn", "request", "ready"} => ~v.faulty
    BY <1>4
  <2>4. v.pc # "meta"
    OBVIOUS
  <2> QED
    BY <2>1, <2>2, <2>3, <2>4 DEF CountOk
<1>7. NumberOk(v, g.lines)
  <2>1. \A i \in DOMAIN f.lines : f.lines[i].seq <= v.seq
    <3> SUFFICES ASSUME NEW i \in DOMAIN f.lines PROVE f.lines[i].seq <= v.seq
      OBVIOUS
    <3>1. f.lines[i].seq \in Nat /\ f.lines[i].seq <= old.seq
      BY <1>1, <1>3, SeqNumbers DEF NumberOk
    <3>2. old.seq \in Nat /\ v.seq \in Nat
      BY <1>1
    <3> QED
      BY <3>1, <3>2, AtMost, Zenon
  <2> DEFINE n == Len(all)
  <2>2. n \in 0..Len(all) /\ Extended(f.lines, g.lines, all, n)
    BY <1>1
  <2>3. \A i \in DOMAIN g.lines : g.lines[i].seq <= v.seq
    <3> HIDE DEF n
    <3> QED
      BY <1>1, <2>1, <2>2, ExtendedNumbers
  <2>4. DOMAIN v.buf = {}
    OBVIOUS
  <2> QED
    BY <2>3, <2>4 DEF NumberOk, Queue
<1>8. KnowsOk(v, g.lines)
  <2> SUFFICES ASSUME Len(g.lines) = v.count, Bad(g.lines) = {}
               PROVE  Knowing(v, g.lines)
    BY DEF KnowsOk, Knowing
  <2>1. Len(g.lines) = N + 1 /\ N = old.count
    BY <1>1, <1>2, <1>4
  <2>2. g.lines = Append(f.lines, line)
    BY <2>1
  <2>3. Bad(f.lines) = {}
    <3>1. /\ DOMAIN f.lines = 1..N /\ DOMAIN g.lines = 1..(N + 1)
          /\ \A i \in 1..N : g.lines[i] = f.lines[i]
      BY <1>1, <2>2, AppendFacts, SeqFacts
    <3>2. \A i \in DOMAIN f.lines : i \in DOMAIN g.lines /\ g.lines[i] = f.lines[i]
      <4>1. N \in Nat
        BY <1>1
      <4> HIDE DEF N
      <4>2. \A i \in 1..N : i \in 1..(N + 1)
        BY <4>1
      <4> QED
        BY <3>1, <4>2, Zenon
    <3> QED
      BY <3>2 DEF Bad
  <2>4. Knowing(old, f.lines)
    BY <1>3, <2>1, <2>3 DEF KnowsOk, Knowing
  <2> QED
    BY <2>2, <2>4
<1>9. WaitsOk(v.buf, g.lines, v.request)
  BY DEF WaitsOk
<1>10. RefsOk(v, g.lines)
  <2>1. CASE v.pc = "request"
    BY <1>4, <1>5, <2>1
  <2>2. CASE v.pc # "request"
    BY <2>2 DEF RefsOk
  <2> QED
    BY <2>1, <2>2
<1> QED
  BY <1>6, <1>7, <1>8, <1>9, <1>10 DEF WritingOk

\* A write that succeeds, of any line.
LEMMA OkStep ==
  ASSUME Inv, NEW t \in Turn, w[t].pc \in Begun, w[t].pc # "dropping",
         NEW line \in LineSet, line.turn = t, line.type \notin Broken,
         NEW after \in WriterSet, WriteOk(t, line, after),
         UNCHANGED <<index, cache, lock, load, epoch, haunted>>,
         after.pc \in {"window", "turn", "request", "ready", "response", "sync"},
         after.pc \notin {"response", "sync"} =>
             w[t].pc \in {"meta", "window", "turn", "request"},
         after.pc = "sync" => line.type = "turn_end",
         after.pc = "window" => w[t].pc = "meta",
         after.seg = w[t].seg, after.request = w[t].request, after.start = w[t].start,
         after.count = w[t].count, after.base = w[t].base, after.added = w[t].added,
         after.faulty = w[t].faulty, after.window = w[t].window,
         w[t].seq <= after.seq, line.seq <= after.seq,
         ~haunted => /\ MayFollow(line, w[t], files[w[t].seg].lines)
                     /\ Knowing(w[t], files[w[t].seg].lines) =>
                           Knowing(after, Append(files[w[t].seg].lines, line))
                     /\ RefsOk(after, Append(files[w[t].seg].lines, line))
  PROVE  Inv'
<1> DEFINE s == w[t].seg
           f == files[s]
           old == w[t]
           all == Append(old.buf, line)
           g == Flushed(Opened(f), all, old.cut)
           v == [after EXCEPT !.buf = <<>>, !.cut = FALSE,
                              !.count = @ + 1, !.added = @ + 1]
           n == Len(all)
<1>1. /\ s \in Segment /\ f \in FileSet /\ old \in WriterSet /\ epoch \in Nat
      /\ old.cut \in BOOLEAN /\ old.buf \in Seq(LineSet)
      /\ old.buf = <<>> => ~old.cut
  BY OfTurn, OfThread DEF WriterSet, BufferOk
<1>2. files' = [files EXCEPT ![s] = g] /\ w' = [w EXCEPT ![t] = v] /\ troubles' = troubles
  BY DEF WriteOk, Becomes
<1>3. /\ all \in Seq(LineSet) /\ Len(all) = Len(old.buf) + 1 /\ Len(old.buf) \in Nat
      /\ \A i \in DOMAIN all : all[i].turn = t
      /\ ~haunted => Queue(all, f.lines) /\ WaitsOk(all, f.lines, old.request)
  BY Behind, Zenon DEF Owned
<1>4. g \in FileSet /\ Gains(f, g, all, n, epoch)
  <2> HIDE DEF f, old, all
  <2> QED
    BY <1>1, <1>3, FlushedGains
<1>5. /\ g.tail = "none"
      /\ old.buf = <<>> /\ f.tail = "none" => g.lines = Append(f.lines, line)
      /\ Len(g.lines) = Len(f.lines) + 1 /\ Bad(g.lines) = {} =>
            g.lines = Append(f.lines, line)
  <2> HIDE DEF f, old
  <2> QED
    BY <1>1, FlushedPlain
<1>6. v \in WriterSet
  <2>1. <<>> \in Seq(LineSet) /\ after.count + 1 \in Nat /\ after.added + 1 \in Nat
    BY DEF WriterSet
  <2> QED
    BY <2>1 DEF WriterSet
<1>7. /\ v.buf = <<>> /\ v.cut = FALSE /\ v.count = after.count + 1
      /\ v.added = after.added + 1 /\ v.faulty = after.faulty /\ v.pc = after.pc
      /\ v.seg = after.seg /\ v.request = after.request /\ v.refs = after.refs
      /\ v.start = after.start /\ v.base = after.base /\ v.events = after.events
      /\ v.items = after.items /\ v.window = after.window /\ v.seq = after.seq
  BY DEF WriterSet
<1> HIDE DEF v, g
<1>8. BufferOk(t, v, troubles')
  <2>1. Len(v.buf) = 0 /\ DOMAIN v.buf = {} /\ troubles \in Nat
    BY <1>7, OfThread
  <2> QED
    BY <1>2, <1>7, <2>1 DEF BufferOk
<1>9. ASSUME ~haunted PROVE WritingOk(t, v, g)
  <2>1. WritingOk(t, old, f) /\ NumberOk(old, f.lines) /\ MayFollow(line, old, f.lines)
    BY <1>9, OfTurn DEF WritingOk
  <2>2. \A i \in DOMAIN all : all[i].seq <= v.seq
    <3>1. /\ DOMAIN all = 1..(Len(old.buf) + 1) /\ DOMAIN old.buf = 1..Len(old.buf)
          /\ \A i \in 1..Len(old.buf) : all[i] = old.buf[i]
          /\ all[Len(old.buf) + 1] = line
      BY <1>1, AppendFacts, SeqFacts DEF all
    <3> SUFFICES ASSUME NEW i \in DOMAIN all PROVE all[i].seq <= v.seq
      OBVIOUS
    <3> HIDE DEF all
    <3>2. CASE i = Len(old.buf) + 1
      <4>1. all[i] = line
        BY <3>1, <3>2, Zenon
      <4>2. line.seq <= v.seq
        BY <1>7
      <4> QED
        BY <4>1, <4>2, Zenon
    <3>3. CASE i \in DOMAIN old.buf
      <4>1. old.buf[i].seq \in Nat /\ old.buf[i].seq <= old.seq /\ old.seq \in Nat
            /\ after.seq \in Nat
        BY <1>1, <2>1, <3>3, SeqNumbers DEF NumberOk, WriterSet
      <4> QED
        BY <1>7, <3>1, <3>3, <4>1
    <3> QED
      BY <1>3, <3>1, <3>2, <3>3
  <2>3. Extended(f.lines, g.lines, all, Len(all))
    BY <1>4 DEF Gains
  <2>4. Knowing(old, f.lines) => Knowing(v, Append(f.lines, line))
    BY <1>7, <1>9, Zenon DEF Knowing
  <2>5. RefsOk(v, Append(f.lines, line))
    BY <1>7, <1>9, Zenon DEF RefsOk
  <2>6. /\ v.faulty = old.faulty
        /\ v.pc \in {"window", "turn", "request", "ready", "response", "sync"}
        /\ v.pc \notin {"response", "sync"} => old.pc \in {"meta", "window", "turn", "request"}
        /\ v.pc = "sync" => line.type = "turn_end"
        /\ v.start = old.start /\ v.base = old.base
        /\ v.count = old.count + 1 /\ v.added = old.added + 1
        /\ old.seq <= v.seq /\ old.pc \in Begun /\ old.pc # "dropping"
    BY <1>7
  <2> HIDE DEF old, f, all
  <2> QED
    BY <1>1, <1>3, <1>4, <1>5, <1>6, <1>7, <2>1, <2>2, <2>3, <2>4, <2>5, <2>6, OkWriting
<1>10. n \in 0..Len(all)
  BY <1>3
<1>11. troubles' \in {troubles, troubles + 1} /\ troubles' <= MaxTroubles
  BY <1>2, OfThread, RolloutAssumption
<1>12. lock = t /\ v.pc \in Holding /\ v.pc \notin {"idle", "loading", "done"}
       /\ lock \in Turn \cup {NoTurn}
  BY <1>7, OfTurn DEF LockOk, Holding, Begun
<1>13. v.request = w[t].request /\ v.seg = w[t].seg /\ lock' = lock
  BY <1>7
<1>14. v.pc \in {"meta", "window"} => v.window \in Window
  BY <1>7, OfTurn DEF BareOk
<1> HIDE DEF all, n
<1> QED
  BY <1>2, <1>3, <1>4, <1>6, <1>8, <1>9, <1>10, <1>11, <1>12, <1>13, <1>14, GainStep

\* A line this program writes.
LEMMA LineMade ==
  ASSUME NEW type \in {"meta", "window", "turn", "content", "context", "turn_end"},
         NEW seq \in Nat, NEW t \in Turn, NEW body,
         \/ type \in {"meta", "turn", "turn_end"} /\ body = <<>>
         \/ type = "window" /\ \E v \in Window : body = <<v>>
         \/ type = "content" /\ seq > 0 /\ \E i \in Item : body = <<ContentOf[i]>>
         \/ type = "context" /\ body \in Seq(Nat)
  PROVE  /\ Line(type, seq, t, body) \in LineSet
         /\ Line(type, seq, t, body).type = type /\ Line(type, seq, t, body).seq = seq
         /\ Line(type, seq, t, body).turn = t /\ Line(type, seq, t, body).body = body
         /\ type \notin Broken
<1> DEFINE S == Window \cup Content \cup Nat
<1>1. body \in Seq(S)
  <2>1. CASE body = <<>>
    BY <2>1
  <2>2. CASE \E v \in Window : body = <<v>>
    <3>1. PICK v \in Window : body = <<v>>
      BY <2>2
    <3> QED
      BY <3>1
  <2>3. CASE \E i \in Item : body = <<ContentOf[i]>>
    <3>1. PICK i \in Item : body = <<ContentOf[i]>>
      BY <2>3
    <3>2. ContentOf[i] \in S
      BY ItemFacts
    <3> QED
      BY <3>1, <3>2
  <2>4. CASE body \in Seq(Nat)
    <3>1. Nat \subseteq S
      OBVIOUS
    <3> HIDE DEF S
    <3> QED
      BY <2>4, <3>1
  <2> QED
    BY <2>1, <2>2, <2>3, <2>4
<1>2. Line(type, seq, t, body) = [type |-> type, seq |-> seq, turn |-> t, body |-> body]
  BY DEF Line
<1>3. [type |-> type, seq |-> seq, turn |-> t, body |-> body] \in Lines
  BY <1>1 DEF Lines
<1>4. type \notin Broken
  BY DEF Broken
<1> QED
  BY <1>2, <1>3, <1>4 DEF LineSet

\* A line that holds one content.
ContentLine(line, seq, t, x) ==
    /\ line \in LineSet /\ line.type = "content" /\ line.seq = seq /\ line.turn = t
    /\ line.body = <<x>> /\ "content" \notin Broken

\* The line of an item.
LEMMA ContentMade ==
  ASSUME NEW seq \in Nat, seq > 0, NEW t \in Turn, NEW i \in Item
  PROVE  ContentLine(Line("content", seq, t, <<ContentOf[i]>>), seq, t, ContentOf[i])
<1> DEFINE body == <<ContentOf[i]>>
<1>1. \E j \in Item : body = <<ContentOf[j]>>
  OBVIOUS
<1> HIDE DEF body
<1>2. /\ Line("content", seq, t, body) \in LineSet
      /\ Line("content", seq, t, body).type = "content"
      /\ Line("content", seq, t, body).seq = seq
      /\ Line("content", seq, t, body).turn = t
      /\ Line("content", seq, t, body).body = body
      /\ "content" \notin Broken
  BY <1>1, LineMade
<1> QED
  BY <1>2, Zenon DEF body, ContentLine

\* A line with the next number.
LEMMA NextFollows ==
  ASSUME Inv, NEW t \in Turn, w[t].pc \in Begun, ~haunted,
         NEW line, line.seq = w[t].seq + 1,
         line.type = "context" => Fits(files[w[t].seg].lines, line.body, w[t].request)
  PROVE  MayFollow(line, w[t], files[w[t].seg].lines)
<1> DEFINE lines == files[w[t].seg].lines
           v == w[t]
           q == v.seq
<1>1. /\ lines \in Seq(LineSet) /\ v.buf \in Seq(LineSet) /\ q \in Nat
      /\ NumberOk(v, lines)
  BY OfTurn, FileFacts DEF WritingOk, WriterSet
<1>2. \A n \in DOMAIN lines : lines[n].seq \in Nat /\ lines[n].seq <= q
  BY <1>1, SeqNumbers DEF NumberOk
<1>3. \A n \in DOMAIN v.buf : v.buf[n].seq \in Nat /\ v.buf[n].seq <= q
  BY <1>1, SeqNumbers DEF NumberOk
<1>4. line.seq = q + 1
  OBVIOUS
<1>5. line.type = "context" => Fits(lines, line.body, v.request)
  OBVIOUS
<1> HIDE DEF lines, q, v
<1>6. \A n \in DOMAIN lines : lines[n].seq < line.seq
  BY <1>1, <1>2, <1>4
<1>7. \A n \in DOMAIN v.buf : v.buf[n].seq < line.seq
  BY <1>1, <1>3, <1>4
<1>8. MayFollow(line, v, lines)
  BY <1>5, <1>6, <1>7 DEF MayFollow
<1> QED
  BY <1>8 DEF v, lines

\* A line of begin or of the end, written or not.
LEMMA LineStep ==
  ASSUME Inv, NEW t \in Turn, w[t].pc \in Begun, w[t].pc # "dropping",
         NEW line \in LineSet, line.turn = t, line.type \notin Broken,
         line.seq = w[t].seq + 1,
         NEW after \in WriterSet, BeginLine(t, line, after),
         UNCHANGED <<index, cache, lock, load, epoch, haunted>>,
         after.pc \in {"turn", "request", "ready", "sync"},
         after.pc # "sync" => w[t].pc \in {"meta", "window", "turn", "request"},
         after.pc = "sync" => line.type = "turn_end",
         after.seg = w[t].seg, after.request = w[t].request, after.start = w[t].start,
         after.count = w[t].count, after.base = w[t].base, after.added = w[t].added,
         after.faulty = w[t].faulty, after.window = w[t].window,
         after.seq = w[t].seq + 1,
         ~haunted => /\ line.type = "context" =>
                           Fits(files[w[t].seg].lines, line.body, w[t].request)
                     /\ Knowing(w[t], files[w[t].seg].lines) =>
                           Knowing(after, Append(files[w[t].seg].lines, line))
                     /\ RefsOk(after, Append(files[w[t].seg].lines, line))
  PROVE  Inv'
<1> DEFINE fail == [[w[t] EXCEPT !.seq = line.seq] EXCEPT !.pc = "dropping"]
<1>1. w[t] \in WriterSet /\ w[t].seq \in Nat /\ line.seq \in Nat
  BY OfTurn DEF WriterSet
<1>2. ~haunted => MayFollow(line, w[t], files[w[t].seg].lines)
  BY NextFollows
<1>3. w[t].seq <= w[t].seq + 1
  BY <1>1
<1>4. /\ fail \in WriterSet /\ fail.pc = "dropping" /\ fail.seq = line.seq
      /\ fail.seg = w[t].seg /\ fail.request = w[t].request /\ fail.refs = w[t].refs
      /\ fail.start = w[t].start /\ fail.count = w[t].count /\ fail.base = w[t].base
      /\ fail.added = w[t].added /\ fail.events = w[t].events /\ fail.items = w[t].items
      /\ fail.window = w[t].window
  BY <1>1 DEF WriterSet, Holding, Begun
<1>5. WriteOk(t, line, after) \/ WriteFails(t, line, fail)
  BY DEF BeginLine
<1> HIDE DEF fail
<1>6. CASE WriteOk(t, line, after)
  <2>1. /\ after.pc \in {"window", "turn", "request", "ready", "response", "sync"}
        /\ after.pc \notin {"response", "sync"} =>
              w[t].pc \in {"meta", "window", "turn", "request"}
        /\ after.pc = "window" => w[t].pc = "meta"
        /\ w[t].seq <= after.seq /\ line.seq <= after.seq
    BY <1>1, <1>3
  <2> QED
    BY <1>2, <1>6, <2>1, OkStep
<1>7. CASE WriteFails(t, line, fail)
  <2>1. /\ fail.pc \in {"response", "dropping"} /\ fail.pc # "response"
        /\ w[t].seq <= fail.seq /\ line.seq <= fail.seq
    BY <1>1, <1>3, <1>4
  <2> QED
    BY <1>2, <1>4, <1>7, <2>1, FailStep
<1> QED
  BY <1>5, <1>6, <1>7

\* A control line leaves what a writer knows as it is.
LEMMA KnowingControl ==
  ASSUME NEW lines \in Seq(LineSet), NEW line \in LineSet,
         line.type \notin {"window", "content"},
         NEW old, NEW v, Knowing(old, lines), v.events = old.events, v.items = old.items,
         v.window = old.window,
         v.pc \notin {"meta", "window"} => old.pc \notin {"meta", "window"},
         v.pc \in {"sync", "publish"} => v.seq = Learned(Append(lines, line)).seq
  PROVE  Knowing(v, Append(lines, line))
<1>1. Knows(old.events, old.items, lines)
  BY DEF Knowing
<1>2. /\ Knows(old.events, old.items, Append(lines, line))
      /\ Learned(Append(lines, line)).window = Learned(lines).window
  BY <1>1, KnowsControl
<1> QED
  BY <1>2 DEF Knowing

\* The first line of a thread.
LEMMA WriteMetaStep ==
  ASSUME Inv, NEW t \in Turn, WriteMeta(t)
  PROVE  Inv'
<1> DEFINE line == Line("meta", 0, t, <<>>)
           after == [w[t] EXCEPT !.pc = "window"]
           fail == [w[t] EXCEPT !.pc = "dropping"]
           lines == files[w[t].seg].lines
<1>1. /\ w[t].pc = "meta" /\ UNCHANGED <<index, cache, lock, load, epoch, haunted>>
      /\ WriteOk(t, line, after) \/ WriteFails(t, line, fail)
  BY DEF WriteMeta, At
<1>2. w[t] \in WriterSet /\ w[t].seq \in Nat /\ lines \in Seq(LineSet)
      /\ w[t].refs \in Seq(Nat)
  BY OfTurn, FileFacts DEF WriterSet
<1>3. /\ line \in LineSet /\ line.type = "meta" /\ line.seq = 0 /\ line.turn = t
      /\ line.type \notin Broken
  BY LineMade
<1>4. /\ after \in WriterSet /\ after.pc = "window" /\ after.seq = w[t].seq
      /\ after.seg = w[t].seg /\ after.request = w[t].request /\ after.refs = w[t].refs
      /\ after.start = w[t].start /\ after.count = w[t].count /\ after.base = w[t].base
      /\ after.added = w[t].added /\ after.events = w[t].events /\ after.items = w[t].items
      /\ after.window = w[t].window /\ after.faulty = w[t].faulty
  BY <1>2 DEF WriterSet, Holding, Begun
<1>5. /\ fail \in WriterSet /\ fail.pc = "dropping" /\ fail.seq = w[t].seq
      /\ fail.seg = w[t].seg /\ fail.request = w[t].request /\ fail.refs = w[t].refs
      /\ fail.start = w[t].start /\ fail.count = w[t].count /\ fail.base = w[t].base
      /\ fail.added = w[t].added /\ fail.events = w[t].events /\ fail.items = w[t].items
      /\ fail.window = w[t].window
  BY <1>2 DEF WriterSet, Holding, Begun
<1> HIDE DEF line, after, fail
<1>6. w[t].pc \in Begun /\ w[t].pc # "dropping"
  BY <1>1 DEF Begun
<1>7. ASSUME ~haunted
      PROVE  /\ MayFollow(line, w[t], lines)
             /\ Knowing(w[t], lines) => Knowing(after, Append(lines, line))
             /\ RefsOk(after, Append(lines, line))
  <2>1. CountOk(t, w[t], files[w[t].seg]) /\ RefsOk(w[t], lines)
    BY <1>6, <1>7, OfTurn DEF WritingOk
  <2>2. Len(lines) = 0 /\ w[t].buf = <<>> /\ DOMAIN lines = {} /\ DOMAIN w[t].buf = {}
    <3>1. Len(lines) = 0 /\ w[t].buf = <<>>
      BY <1>1, <2>1 DEF CountOk
    <3> QED
      BY <1>2, <3>1, SeqFacts
  <2>3. MayFollow(line, w[t], lines)
    BY <1>3, <2>2 DEF MayFollow
  <2>4. Knowing(w[t], lines) => Knowing(after, Append(lines, line))
    <3> HIDE DEF lines
    <3> QED
      BY <1>2, <1>3, <1>4, KnowingControl
  <2>5. RefsOk(after, Append(lines, line))
    BY <1>1, <1>4, <2>1 DEF RefsOk
  <2> QED
    BY <2>3, <2>4, <2>5
<1>8. w[t].seq <= after.seq /\ line.seq <= after.seq /\ w[t].seq <= fail.seq
      /\ line.seq <= fail.seq
  BY <1>2, <1>3, <1>4, <1>5
<1>9. CASE WriteOk(t, line, after)
  <2>1. /\ after.pc \in {"window", "turn", "request", "ready", "response", "sync"}
        /\ w[t].pc \in {"meta", "window", "turn", "request"} /\ after.pc # "sync"
    BY <1>1, <1>4
  <2> QED
    BY <1>1, <1>3, <1>4, <1>6, <1>7, <1>8, <1>9, <2>1, OkStep
<1>10. CASE WriteFails(t, line, fail)
  <2>1. fail.pc \in {"response", "dropping"} /\ fail.pc # "response"
    BY <1>5
  <2> QED
    BY <1>1, <1>3, <1>5, <1>6, <1>7, <1>8, <1>10, <2>1, FailStep
<1> QED
  BY <1>1, <1>9, <1>10

\* A window.
LEMMA WriteWindowStep ==
  ASSUME Inv, NEW t \in Turn, WriteWindow(t)
  PROVE  Inv'
<1> DEFINE line == Line("window", w[t].seq + 1, t, <<w[t].window>>)
           after == [w[t] EXCEPT !.pc = "turn", !.seq = @ + 1, !.events = NoRefs]
           lines == files[w[t].seg].lines
<1>1. /\ w[t].pc = "window" /\ UNCHANGED <<index, cache, lock, load, epoch, haunted>>
      /\ BeginLine(t, line, after)
  BY DEF WriteWindow, At, NextLine
<1>2. /\ w[t] \in WriterSet /\ w[t].seq \in Nat /\ w[t].seq + 1 \in Nat /\ lines \in Seq(LineSet)
      /\ w[t].refs \in Seq(Nat) /\ w[t].window \in Window
  <2>1. w[t] \in WriterSet /\ w[t].seq \in Nat /\ w[t].refs \in Seq(Nat)
    BY OfTurn DEF WriterSet
  <2>2. lines \in Seq(LineSet)
    BY OfTurn, FileFacts
  <2>3. w[t].window \in Window
    BY <1>1, OfTurn DEF BareOk
  <2> QED
    BY <2>1, <2>2, <2>3
<1>3. /\ line \in LineSet /\ line.type = "window" /\ line.seq = w[t].seq + 1 /\ line.turn = t
      /\ line.type \notin Broken /\ line.body = <<w[t].window>>
  BY <1>2, LineMade
<1>4. /\ after \in WriterSet /\ after.pc = "turn" /\ after.seq = w[t].seq + 1
      /\ after.seg = w[t].seg /\ after.request = w[t].request /\ after.refs = w[t].refs
      /\ after.start = w[t].start /\ after.count = w[t].count /\ after.base = w[t].base
      /\ after.added = w[t].added /\ after.events = NoRefs /\ after.items = w[t].items
      /\ after.window = w[t].window /\ after.faulty = w[t].faulty
  <2>1. NoRefs \in RefSet
    BY DEF NoRefs, RefSet
  <2> QED
    BY <1>2, <2>1 DEF WriterSet, Holding, Begun
<1> HIDE DEF line, after
<1>6. w[t].pc \in Begun /\ w[t].pc # "dropping"
  BY <1>1 DEF Begun
<1>7. ASSUME ~haunted
      PROVE  /\ Knowing(w[t], lines) => Knowing(after, Append(lines, line))
             /\ RefsOk(after, Append(lines, line))
  <2>1. RefsOk(w[t], lines)
    BY <1>6, <1>7, OfTurn DEF WritingOk
  <2>2. ASSUME Knowing(w[t], lines) PROVE Knowing(after, Append(lines, line))
    <3>1. Knows(w[t].events, w[t].items, lines)
      BY <2>2 DEF Knowing
    <3>2. /\ Knows(NoRefs, w[t].items, Append(lines, line))
          /\ Learned(Append(lines, line)).window = line.body[1]
      <4> HIDE DEF lines
      <4> QED
        BY <1>2, <1>3, <3>1, KnowsWindow
    <3>3. line.body[1] = w[t].window
      BY <1>3
    <3> QED
      BY <1>4, <3>2, <3>3 DEF Knowing
  <2>3. RefsOk(after, Append(lines, line))
    BY <1>1, <1>4, <2>1 DEF RefsOk
  <2> QED
    BY <2>2, <2>3
<1>8. after.pc \in {"turn", "request", "ready", "sync"} /\ after.pc # "sync"
      /\ w[t].pc \in {"meta", "window", "turn", "request"} /\ line.type # "context"
  BY <1>1, <1>3, <1>4
<1> QED
  BY <1>1, <1>3, <1>4, <1>6, <1>7, <1>8, LineStep

\* The beginning of a turn.
LEMMA WriteTurnStep ==
  ASSUME Inv, NEW t \in Turn, WriteTurn(t)
  PROVE  Inv'
<1> DEFINE line == Line("turn", w[t].seq + 1, t, <<>>)
           after == [w[t] EXCEPT !.pc = "request", !.seq = @ + 1]
           lines == files[w[t].seg].lines
<1>1. /\ w[t].pc = "turn" /\ UNCHANGED <<index, cache, lock, load, epoch, haunted>>
      /\ BeginLine(t, line, after)
  BY DEF WriteTurn, At, NextLine
<1>2. /\ w[t] \in WriterSet /\ w[t].seq \in Nat /\ w[t].seq + 1 \in Nat /\ lines \in Seq(LineSet)
      /\ w[t].refs \in Seq(Nat)
  <2>1. w[t] \in WriterSet /\ w[t].seq \in Nat /\ w[t].refs \in Seq(Nat)
    BY OfTurn DEF WriterSet
  <2>2. lines \in Seq(LineSet)
    BY OfTurn, FileFacts
  <2> QED
    BY <2>1, <2>2
<1>3. /\ line \in LineSet /\ line.type = "turn" /\ line.seq = w[t].seq + 1 /\ line.turn = t
      /\ line.type \notin Broken
  BY <1>2, LineMade
<1>4. /\ after \in WriterSet /\ after.pc = "request" /\ after.seq = w[t].seq + 1
      /\ after.seg = w[t].seg /\ after.request = w[t].request /\ after.refs = w[t].refs
      /\ after.start = w[t].start /\ after.count = w[t].count /\ after.base = w[t].base
      /\ after.added = w[t].added /\ after.events = w[t].events /\ after.items = w[t].items
      /\ after.window = w[t].window /\ after.faulty = w[t].faulty
  BY <1>2 DEF WriterSet, Holding, Begun
<1> HIDE DEF line, after
<1>6. w[t].pc \in Begun /\ w[t].pc # "dropping"
  BY <1>1 DEF Begun
<1>7. ASSUME ~haunted
      PROVE  /\ Knowing(w[t], lines) => Knowing(after, Append(lines, line))
             /\ RefsOk(after, Append(lines, line))
  <2>1. RefsOk(w[t], lines)
    BY <1>6, <1>7, OfTurn DEF WritingOk
  <2>2. Knowing(w[t], lines) => Knowing(after, Append(lines, line))
    <3> HIDE DEF lines
    <3> QED
      BY <1>1, <1>2, <1>3, <1>4, KnowingControl
  <2>3. RefsOk(after, Append(lines, line))
    <3>1. after.refs = <<>> /\ DOMAIN after.refs = {} /\ Len(after.refs) <= Len(after.request)
      BY <1>1, <1>4, <2>1 DEF RefsOk
    <3> QED
      BY <1>4, <3>1 DEF RefsOk, Apart
  <2> QED
    BY <2>2, <2>3
<1>8. after.pc \in {"turn", "request", "ready", "sync"} /\ after.pc # "sync"
      /\ w[t].pc \in {"meta", "window", "turn", "request"} /\ line.type # "context"
  BY <1>1, <1>3, <1>4
<1> QED
  BY <1>1, <1>3, <1>4, <1>6, <1>7, <1>8, LineStep

\* The references of a request.
LEMMA WriteContextStep ==
  ASSUME Inv, NEW t \in Turn, WriteContext(t)
  PROVE  Inv'
<1> DEFINE line == Line("context", w[t].seq + 1, t, w[t].refs)
           after == [w[t] EXCEPT !.pc = "ready", !.seq = @ + 1]
           lines == files[w[t].seg].lines
<1>1. /\ w[t].pc = "request" /\ UNCHANGED <<index, cache, lock, load, epoch, haunted>>
      /\ Len(w[t].refs) = Len(w[t].request)
      /\ BeginLine(t, line, after)
  BY DEF WriteContext, At, NextLine
<1>2. /\ w[t] \in WriterSet /\ w[t].seq \in Nat /\ w[t].seq + 1 \in Nat /\ lines \in Seq(LineSet)
      /\ w[t].refs \in Seq(Nat)
  <2>1. w[t] \in WriterSet /\ w[t].seq \in Nat /\ w[t].refs \in Seq(Nat)
    BY OfTurn DEF WriterSet
  <2>2. lines \in Seq(LineSet)
    BY OfTurn, FileFacts
  <2> QED
    BY <2>1, <2>2
<1>3. /\ line \in LineSet /\ line.type = "context" /\ line.seq = w[t].seq + 1 /\ line.turn = t
      /\ line.type \notin Broken /\ line.body = w[t].refs
  BY <1>2, LineMade
<1>4. /\ after \in WriterSet /\ after.pc = "ready" /\ after.seq = w[t].seq + 1
      /\ after.seg = w[t].seg /\ after.request = w[t].request /\ after.refs = w[t].refs
      /\ after.start = w[t].start /\ after.count = w[t].count /\ after.base = w[t].base
      /\ after.added = w[t].added /\ after.events = w[t].events /\ after.items = w[t].items
      /\ after.window = w[t].window /\ after.faulty = w[t].faulty
  BY <1>2 DEF WriterSet, Holding, Begun
<1> HIDE DEF line, after
<1>6. w[t].pc \in Begun /\ w[t].pc # "dropping"
  BY <1>1 DEF Begun
<1>7. ASSUME ~haunted
      PROVE  /\ Fits(lines, line.body, w[t].request)
             /\ Knowing(w[t], lines) => Knowing(after, Append(lines, line))
             /\ RefsOk(after, Append(lines, line))
  <2>1. RefsOk(w[t], lines)
    BY <1>6, <1>7, OfTurn DEF WritingOk
  <2>2. Knowing(w[t], lines) => Knowing(after, Append(lines, line))
    <3> HIDE DEF lines
    <3> QED
      BY <1>1, <1>2, <1>3, <1>4, KnowingControl
  <2>3. RefsOk(after, Append(lines, line))
    BY <1>1, <1>4, <2>1 DEF RefsOk
  <2>4. Fits(lines, line.body, w[t].request)
    BY <1>1, <1>3, <2>1 DEF RefsOk, Fits
  <2> QED
    BY <2>2, <2>3, <2>4
<1>8. after.pc \in {"turn", "request", "ready", "sync"} /\ after.pc # "sync"
      /\ w[t].pc \in {"meta", "window", "turn", "request"}
  BY <1>1, <1>3, <1>4
<1> QED
  BY <1>1, <1>3, <1>4, <1>6, <1>7, <1>8, LineStep

\* A line with the greatest number is the one reading finds.
LEMMA LearnedLast ==
  ASSUME NEW lines \in Seq(LineSet), NEW line \in LineSet, NEW q \in Nat,
         \A n \in DOMAIN lines : lines[n].seq <= q, line.seq = q + 1
  PROVE  Learned(Append(lines, line)).seq = q + 1
<1>1. Learned(lines) \in KnownSet /\ Learned(Append(lines, line)) = Learn(Learned(lines), line)
  BY LearnedType, LearnedMore
<1>2. Learned(lines).seq \in Nat /\ Learned(lines).seq <= q
  BY <1>1, LearnedLeast DEF KnownSet
<1>3. Learn(Learned(lines), line).seq
        = IF line.seq > Learned(lines).seq THEN line.seq ELSE Learned(lines).seq
  BY <1>1, LearnFields
<1>4. line.seq > Learned(lines).seq
  BY <1>2
<1> QED
  BY <1>1, <1>3, <1>4

\* The end of a turn.
LEMMA WriteEndStep ==
  ASSUME Inv, NEW t \in Turn, WriteEnd(t)
  PROVE  Inv'
<1> DEFINE line == Line("turn_end", w[t].seq + 1, t, <<>>)
           after == [w[t] EXCEPT !.pc = "sync", !.seq = @ + 1]
           lines == files[w[t].seg].lines
<1>1. /\ w[t].pc = "response" /\ UNCHANGED <<index, cache, lock, load, epoch, haunted>>
      /\ BeginLine(t, line, after)
  BY DEF WriteEnd, At, NextLine
<1>2. /\ w[t] \in WriterSet /\ w[t].seq \in Nat /\ w[t].seq + 1 \in Nat /\ lines \in Seq(LineSet)
      /\ w[t].refs \in Seq(Nat)
  <2>1. w[t] \in WriterSet /\ w[t].seq \in Nat /\ w[t].refs \in Seq(Nat)
    BY OfTurn DEF WriterSet
  <2>2. lines \in Seq(LineSet)
    BY OfTurn, FileFacts
  <2> QED
    BY <2>1, <2>2
<1>3. /\ line \in LineSet /\ line.type = "turn_end" /\ line.seq = w[t].seq + 1 /\ line.turn = t
      /\ line.type \notin Broken
  BY <1>2, LineMade
<1>4. /\ after \in WriterSet /\ after.pc = "sync" /\ after.seq = w[t].seq + 1
      /\ after.seg = w[t].seg /\ after.request = w[t].request /\ after.refs = w[t].refs
      /\ after.start = w[t].start /\ after.count = w[t].count /\ after.base = w[t].base
      /\ after.added = w[t].added /\ after.events = w[t].events /\ after.items = w[t].items
      /\ after.window = w[t].window /\ after.faulty = w[t].faulty
  BY <1>2 DEF WriterSet, Holding, Begun
<1> HIDE DEF line, after
<1>6. w[t].pc \in Begun /\ w[t].pc # "dropping"
  BY <1>1 DEF Begun
<1>7. ASSUME ~haunted
      PROVE  /\ Knowing(w[t], lines) => Knowing(after, Append(lines, line))
             /\ RefsOk(after, Append(lines, line))
  <2>1. RefsOk(w[t], lines) /\ NumberOk(w[t], lines)
    BY <1>6, <1>7, OfTurn DEF WritingOk
  <2>2. \A n \in DOMAIN lines : lines[n].seq <= w[t].seq
    BY <2>1 DEF NumberOk
  <2>3. Learned(Append(lines, line)).seq = w[t].seq + 1
    <3> HIDE DEF lines
    <3> QED
      BY <1>2, <1>3, <2>2, LearnedLast
  <2>4. Knowing(w[t], lines) => Knowing(after, Append(lines, line))
    <3> HIDE DEF lines
    <3> QED
      BY <1>1, <1>2, <1>3, <1>4, <2>3, KnowingControl
  <2>5. RefsOk(after, Append(lines, line))
    BY <1>1, <1>4, <2>1 DEF RefsOk
  <2> QED
    BY <2>4, <2>5
<1>8. after.pc \in {"turn", "request", "ready", "sync"} /\ line.type # "context"
  BY <1>1, <1>3, <1>4
<1> QED
  BY <1>1, <1>3, <1>4, <1>6, <1>7, <1>8, LineStep

\* What a writer knows after a content of its own.
LEMMA KnowingContent ==
  ASSUME NEW lines \in Seq(LineSet), NEW line \in LineSet, NEW old \in WriterSet,
         NEW v, Knowing(old, lines), NEW i \in Item, Holds(ContentOf[i], line),
         v.events = [old.events EXCEPT ![ContentOf[i]] = Append(@, line.seq)],
         v.items = Remembered(old.items, i, line.seq),
         v.window = old.window, v.pc = old.pc, v.pc \in {"request", "response"}
  PROVE  Knowing(v, Append(lines, line))
<1>1. Knows(old.events, old.items, lines) /\ old.events \in RefSet /\ old.items \in ItemSet
  BY DEF Knowing, WriterSet
<1>2. /\ Knows([old.events EXCEPT ![ContentOf[i]] = Append(@, line.seq)],
               Remembered(old.items, i, line.seq), Append(lines, line))
      /\ Learned(Append(lines, line)).window = Learned(lines).window
  BY <1>1, KnowsContent
<1>3. v.window = Learned(lines).window
  BY DEF Knowing
<1> QED
  BY <1>2, <1>3 DEF Knowing

\* References and ids, with one more.
LEMMA MadeFacts ==
  ASSUME NEW events \in RefSet, NEW items \in ItemSet, NEW i \in Item, NEW new \in Nat
  PROVE  /\ [events EXCEPT ![ContentOf[i]] = Append(@, new)] \in RefSet
         /\ Remembered(items, i, new) \in ItemSet
<1>1. ContentOf[i] \in Content
  BY ItemFacts
<1>2. Append(events[ContentOf[i]], new) \in Seq(Nat)
  BY <1>1 DEF RefSet
<1> QED
  BY <1>1, <1>2 DEF RefSet, ItemSet, Remembered

\* An item of the answer.
LEMMA WriteResponseItemStep ==
  ASSUME Inv, NEW t \in Turn, WriteResponseItem(t)
  PROVE  Inv'
<1> DEFINE i == Head(w[t].response)
           x == ContentOf[i]
           new == w[t].seq + 1
           line == Line("content", new, t, <<x>>)
           next == [w[t] EXCEPT !.seq = new, !.response = Tail(@)]
           after == [next EXCEPT !.items = Remembered(@, i, new),
                                 !.events[x] = Append(@, new)]
           fail(pc) == [next EXCEPT !.pc = pc]
           lines == files[w[t].seg].lines
<1>1. /\ w[t].pc = "response" /\ UNCHANGED <<index, cache, lock, load, epoch, haunted>>
      /\ w[t].response # <<>>
      /\ \/ WriteOk(t, line, after)
         \/ \E pc \in {"response", "dropping"} : WriteFails(t, line, fail(pc))
  BY DEF WriteResponseItem, At, NextLine
<1>2. /\ w[t] \in WriterSet /\ w[t].seq \in Nat /\ new \in Nat /\ new > 0
      /\ lines \in Seq(LineSet) /\ w[t].response \in Seq(Item)
      /\ w[t].events \in RefSet /\ w[t].items \in ItemSet
  <2>1. /\ w[t] \in WriterSet /\ w[t].seq \in Nat /\ w[t].response \in Seq(Item)
        /\ w[t].events \in RefSet /\ w[t].items \in ItemSet
    BY OfTurn DEF WriterSet
  <2>2. lines \in Seq(LineSet)
    BY OfTurn, FileFacts
  <2>3. new \in Nat /\ new > 0
    BY <2>1
  <2> QED
    BY <2>1, <2>2, <2>3
<1>3. i \in Item /\ Tail(w[t].response) \in Seq(Item) /\ x \in Content
  <2>1. i \in Item /\ Tail(w[t].response) \in Seq(Item)
    <3> DEFINE response == w[t].response
    <3>1. response \in Seq(Item) /\ response # <<>>
      BY <1>1, <1>2
    <3> HIDE DEF response
    <3>2. Tail(response) \in Seq(Item) /\ Head(response) \in Item
      BY <3>1
    <3> QED
      BY <3>2 DEF response
  <2> QED
    BY <2>1, ItemFacts
<1> HIDE DEF i
<1>4. /\ line \in LineSet /\ line.type = "content" /\ line.seq = new /\ line.turn = t
      /\ line.type \notin Broken /\ line.body = <<x>>
  <2>1. new \in Nat /\ new > 0
    BY <1>2
  <2> HIDE DEF new
  <2>2. ContentLine(Line("content", new, t, <<ContentOf[i]>>), new, t, ContentOf[i])
    BY <1>3, <2>1, ContentMade, Zenon
  <2>3. ContentLine(line, new, t, x)
    BY <2>2, Zenon
  <2> HIDE DEF line
  <2> QED
    BY <2>3, Zenon DEF ContentLine
<1>5. Holds(x, line)
  BY <1>4 DEF Holds
<1>6. /\ next \in WriterSet /\ next.pc = "response" /\ next.seq = new
      /\ next.seg = w[t].seg /\ next.request = w[t].request /\ next.refs = w[t].refs
      /\ next.start = w[t].start /\ next.count = w[t].count /\ next.base = w[t].base
      /\ next.added = w[t].added /\ next.events = w[t].events /\ next.items = w[t].items
      /\ next.window = w[t].window /\ next.faulty = w[t].faulty
  BY <1>1, <1>2, <1>3 DEF WriterSet
<1> HIDE DEF next
<1>7. /\ [w[t].events EXCEPT ![x] = Append(@, new)] \in RefSet
      /\ Remembered(w[t].items, i, new) \in ItemSet
  <2> HIDE DEF new
  <2> QED
    BY <1>2, <1>3, MadeFacts
<1>8. after = [next EXCEPT !.items = Remembered(w[t].items, i, new),
                           !.events = [w[t].events EXCEPT ![x] = Append(@, new)]]
  BY <1>6 DEF WriterSet
<1> DEFINE items == Remembered(w[t].items, i, new)
           events == [w[t].events EXCEPT ![x] = Append(@, new)]
<1> HIDE DEF after
<1>9. /\ after \in WriterSet /\ after.pc = "response" /\ after.seq = new
      /\ after.seg = w[t].seg /\ after.request = w[t].request /\ after.refs = w[t].refs
      /\ after.start = w[t].start /\ after.count = w[t].count /\ after.base = w[t].base
      /\ after.added = w[t].added /\ after.events = events /\ after.items = items
      /\ after.window = w[t].window /\ after.faulty = w[t].faulty
  <2>1. items \in ItemSet /\ events \in RefSet
        /\ after = [next EXCEPT !.items = items, !.events = events]
    BY <1>7, <1>8
  <2> HIDE DEF items, events
  <2> QED
    BY <1>6, <2>1 DEF WriterSet
<1>10. w[t].pc \in Begun /\ w[t].pc # "dropping"
  BY <1>1 DEF Begun
<1> HIDE DEF line
<1>11. ASSUME ~haunted
       PROVE  /\ MayFollow(line, w[t], lines)
              /\ Knowing(w[t], lines) => Knowing(after, Append(lines, line))
              /\ RefsOk(after, Append(lines, line))
  <2>1. RefsOk(w[t], lines)
    BY <1>10, <1>11, OfTurn DEF WritingOk
  <2>2. MayFollow(line, w[t], lines)
    BY <1>4, <1>10, <1>11, NextFollows
  <2>3. Knowing(w[t], lines) => Knowing(after, Append(lines, line))
    <3>1. /\ after.events = [w[t].events EXCEPT ![ContentOf[i]] = Append(@, line.seq)]
          /\ after.items = Remembered(w[t].items, i, line.seq)
          /\ after.pc = w[t].pc /\ after.pc \in {"request", "response"}
      BY <1>1, <1>4, <1>9
    <3> HIDE DEF lines
    <3> QED
      BY <1>2, <1>3, <1>4, <1>5, <1>9, <3>1, KnowingContent
  <2>4. RefsOk(after, Append(lines, line))
    BY <1>1, <1>9, <2>1 DEF RefsOk
  <2> QED
    BY <2>2, <2>3, <2>4
<1>12. w[t].seq <= new /\ new <= new
  BY <1>2
<1>13. CASE WriteOk(t, line, after)
  <2>1. /\ after.pc \in {"window", "turn", "request", "ready", "response", "sync"}
        /\ after.pc = "response" /\ w[t].seq <= after.seq /\ line.seq <= after.seq
    BY <1>4, <1>9, <1>12
  <2> QED
    BY <1>1, <1>4, <1>9, <1>10, <1>11, <1>13, <2>1, OkStep
<1>14. ASSUME NEW pc \in {"response", "dropping"}, WriteFails(t, line, fail(pc)) PROVE Inv'
  <2> DEFINE v == fail(pc)
  <2>1. /\ v \in WriterSet /\ v.pc = pc /\ v.seq = new
        /\ v.seg = w[t].seg /\ v.request = w[t].request /\ v.refs = w[t].refs
        /\ v.start = w[t].start /\ v.count = w[t].count /\ v.base = w[t].base
        /\ v.added = w[t].added /\ v.events = w[t].events /\ v.items = w[t].items
        /\ v.window = w[t].window
    BY <1>6 DEF WriterSet, Holding, Begun
  <2>2. WriteFails(t, line, v)
    BY <1>14
  <2> HIDE DEF v
  <2>3. v.pc \in {"response", "dropping"} /\ w[t].seq <= v.seq /\ line.seq <= v.seq
    BY <1>4, <1>12, <2>1
  <2> QED
    BY <1>1, <1>4, <1>10, <1>11, <2>1, <2>2, <2>3, FailStep
<1> QED
  BY <1>1, <1>13, <1>14

-----------------------------------------------------------------------------
(* The items of a request.                                                   *)

\* The references found for the first items of a request.
Found(lines, events, request, refs) ==
    /\ \A p \in DOMAIN refs : Led(lines, refs[p], request[p])
    /\ \A p \in DOMAIN refs : KeyOf[request[p]] = NoKey =>
          Among(events[ContentOf[request[p]]], Occurrence(request, p), refs[p])
    /\ Apart(request, refs)

\* The references by content only get more.
Prolongs(new, events) ==
    \A x \in Content : \A m \in DOMAIN events[x] : m \in DOMAIN new[x] /\ new[x][m] = events[x][m]

\* A reference no item without an id has got.
Unlike(request, refs, ref) ==
    \A q \in DOMAIN refs : KeyOf[request[q]] = NoKey => refs[q] # ref

\* One reference more.
LEMMA FoundMore ==
  ASSUME NEW lines \in Seq(LineSet), NEW more \in Seq(LineSet), Continues(more, lines),
         NEW request \in Seq(Item), NEW refs \in Seq(Nat), Len(refs) < Len(request),
         NEW events, NEW new, Prolongs(new, events), Found(lines, events, request, refs),
         NEW i, i = request[Len(refs) + 1], NEW ref \in Nat, Led(more, ref, i),
         KeyOf[i] = NoKey =>
             /\ Among(new[ContentOf[i]], Occurrence(request, Len(refs) + 1), ref)
             /\ Unlike(request, refs, ref)
  PROVE  Found(more, new, request, Append(refs, ref))
<1> DEFINE P == Len(refs) + 1
           all == Append(refs, ref)
<1>1. /\ DOMAIN all = 1..P /\ all[P] = ref /\ Len(refs) \in Nat /\ DOMAIN refs = 1..Len(refs)
      /\ \A q \in 1..Len(refs) : all[q] = refs[q]
      /\ \A q \in DOMAIN request : request[q] \in Item
      /\ DOMAIN request = 1..Len(request) /\ Len(request) \in Nat
  BY AppendFacts, SeqFacts
<1>2. /\ \A q \in DOMAIN all : q = P \/ q \in DOMAIN refs
      /\ \A q \in DOMAIN refs : all[q] = refs[q] /\ q \in DOMAIN request
      /\ P \notin DOMAIN refs
  BY <1>1
<1>3. request[P] = i /\ all[P] = ref
  BY <1>1
<1> HIDE DEF P, all
<1>4. ASSUME NEW q \in DOMAIN all PROVE Led(more, all[q], request[q])
  <2>1. CASE q = P
    BY <1>3, <2>1
  <2>2. CASE q \in DOMAIN refs
    <3>1. Led(lines, refs[q], request[q])
      BY <2>2 DEF Found
    <3> QED
      BY <1>2, <2>2, <3>1, LedLater
  <2> QED
    BY <1>2, <2>1, <2>2
<1>5. ASSUME NEW q \in DOMAIN all, KeyOf[request[q]] = NoKey
      PROVE  Among(new[ContentOf[request[q]]], Occurrence(request, q), all[q])
  <2>1. CASE q = P
    BY <1>3, <1>5, <2>1 DEF P
  <2>2. CASE q \in DOMAIN refs
    <3>1. Among(events[ContentOf[request[q]]], Occurrence(request, q), refs[q])
      BY <1>5, <2>2 DEF Found
    <3>2. ContentOf[request[q]] \in Content
      BY <1>1, <1>2, <2>2, ItemFacts
    <3> QED
      BY <1>2, <2>2, <3>1, <3>2 DEF Among, Prolongs
  <2> QED
    BY <1>2, <2>1, <2>2
<1>6. ASSUME NEW p \in DOMAIN all, NEW q \in DOMAIN all, p # q,
             KeyOf[request[p]] = NoKey, KeyOf[request[q]] = NoKey
      PROVE  all[p] # all[q]
  <2>1. CASE p \in DOMAIN refs /\ q \in DOMAIN refs
    BY <1>2, <1>6, <2>1 DEF Found, Apart
  <2>2. CASE p = P /\ q \in DOMAIN refs
    BY <1>2, <1>3, <1>6, <2>2 DEF Unlike
  <2>3. CASE q = P /\ p \in DOMAIN refs
    BY <1>2, <1>3, <1>6, <2>3 DEF Unlike
  <2> QED
    BY <1>2, <1>6, <2>1, <2>2, <2>3
<1>7. Found(more, new, request, all)
  BY <1>4, <1>5, <1>6 DEF Found, Apart
<1> QED
  BY <1>7 DEF all

\* A later occurrence of a content is a greater one.
LEMMA OccurrenceGrows ==
  ASSUME NEW request, NEW p \in Nat, NEW q \in 1..(p - 1),
         ContentOf[request[q]] = ContentOf[request[p]]
  PROVE  /\ Occurrence(request, q) \in Nat /\ Occurrence(request, p) \in Nat
         /\ Occurrence(request, q) < Occurrence(request, p)
<1> DEFINE A == {m \in 1..q : ContentOf[request[m]] = ContentOf[request[q]]}
           B == {m \in 1..p : ContentOf[request[m]] = ContentOf[request[p]]}
<1>1. IsFiniteSet(1..p) /\ q \in Nat /\ q < p
  BY FS_Interval
<1>2. B \subseteq 1..p /\ A \subseteq B /\ p \in B /\ p \notin A
  BY <1>1
<1>3. IsFiniteSet(B)
  BY <1>1, <1>2, FS_Subset
<1>4. A # B
  BY <1>2
<1> HIDE DEF A, B
<1>5. /\ Cardinality(A) \in Nat /\ Cardinality(B) \in Nat
      /\ Cardinality(A) < Cardinality(B)
  BY <1>2, <1>3, <1>4, FS_Subset, FS_CardinalityType
<1> QED
  BY <1>5 DEF Occurrence, A, B

\* A line that serves an item: it holds the item's content, or, when the item has an
\* id, that of an item with the same id.
Serves(lines, n, seq, i) ==
    /\ lines[n].type = "content"
    /\ lines[n].seq = seq
    /\ \E j \in Item : /\ lines[n].body = <<ContentOf[j]>>
                       /\ KeyOf[i] # NoKey => KeyOf[j] = KeyOf[i]
                       /\ KeyOf[i] = NoKey => ContentOf[j] = ContentOf[i]

\* What the references by content of a writer lead to.
LEMMA EventsRefer ==
  ASSUME NEW lines \in Seq(LineSet), Ascending(lines), NEW events, NEW items,
         Knows(events, items, lines), NEW x \in Content
  PROVE  /\ RefersTo(events[x], x, lines) /\ events[x] \in Seq(Nat)
         /\ DOMAIN events[x] = 1..Len(events[x]) /\ Len(events[x]) \in Nat
         /\ \A o \in DOMAIN events[x] : events[x][o] \in Nat /\ events[x][o] > 0
<1>1. events = Learned(lines).events
  BY DEF Knows
<1>2. RefersTo(events[x], x, lines)
  BY <1>1, LearnedRefs
<1>3. events \in RefSet
  BY <1>1, LearnedType DEF KnownSet
<1>4. /\ events[x] \in Seq(Nat) /\ DOMAIN events[x] = 1..Len(events[x])
      /\ Len(events[x]) \in Nat
  BY <1>3, SeqFacts DEF RefSet
<1>5. ASSUME NEW o \in DOMAIN events[x] PROVE events[x][o] \in Nat /\ events[x][o] > 0
  <2>1. PICK n \in DOMAIN lines : Holds(x, lines[n]) /\ lines[n].seq = events[x][o]
    BY <1>2 DEF RefersTo
  <2>2. lines[n] \in LineSet
    BY SeqNumbers
  <2>3. lines[n].seq \in Nat /\ lines[n].seq > 0
    BY <2>1, <2>2, LineFacts DEF Holds
  <2> QED
    BY <2>1, <2>3
<1> QED
  BY <1>2, <1>4, <1>5

\* An item that is there already.
LEMMA ExistingServes ==
  ASSUME NEW lines \in Seq(LineSet), Ascending(lines), NEW v \in WriterSet,
         Knows(v.events, v.items, lines), NEW i \in Item, NEW occ \in Nat, occ > 0,
         NEW there, there = Existing(v, i, occ), there > 0
  PROVE  /\ there \in Nat
         /\ \E n \in DOMAIN lines : Serves(lines, n, there, i)
         /\ KeyOf[i] = NoKey => /\ occ \in DOMAIN v.events[ContentOf[i]]
                                /\ there = v.events[ContentOf[i]][occ]
<1> DEFINE k == KeyOf[i]
           x == ContentOf[i]
           seqs == v.events[x]
<1>1. x \in Content /\ k \in Key \cup {NoKey} /\ NoKey \notin Key
  BY ItemFacts, RolloutAssumption
<1>2. /\ RefersTo(seqs, x, lines) /\ DOMAIN seqs = 1..Len(seqs) /\ Len(seqs) \in Nat
      /\ \A o \in DOMAIN seqs : seqs[o] \in Nat
  <2> HIDE DEF x
  <2> QED
    BY <1>1, EventsRefer
<1>3. there = IF k # NoKey /\ v.items[k] > 0 THEN v.items[k]
              ELSE IF occ <= Len(seqs) THEN seqs[occ] ELSE 0
  BY DEF Existing
<1>4. Points(v.items, lines) /\ v.items \in ItemSet
  BY DEF Knows, WriterSet
<1> HIDE DEF k, seqs
<1>5. CASE k # NoKey /\ v.items[k] > 0
  <2>1. k \in Key /\ there = v.items[k]
    BY <1>1, <1>3, <1>5
  <2>2. there \in Nat
    BY <1>4, <2>1 DEF ItemSet
  <2>3. PICK n \in DOMAIN lines : Leads(lines, n, v.items[k], k)
    BY <1>4, <1>5, <2>1 DEF Points
  <2>4. Serves(lines, n, there, i)
    BY <1>5, <2>1, <2>3 DEF Leads, Serves, k
  <2> QED
    BY <1>5, <2>2, <2>4 DEF k
<1>6. CASE ~(k # NoKey /\ v.items[k] > 0)
  <2>1. occ <= Len(seqs) /\ there = seqs[occ]
    BY <1>3, <1>6
  <2>2. occ \in DOMAIN seqs
    BY <1>2, <2>1
  <2>3. there \in Nat
    BY <1>2, <2>1, <2>2
  <2>4. PICK n \in DOMAIN lines : Holds(x, lines[n]) /\ lines[n].seq = seqs[occ]
    BY <1>2, <2>2 DEF RefersTo
  <2>5. Serves(lines, n, there, i)
    BY <2>1, <2>4 DEF Serves, Holds
  <2> QED
    BY <2>1, <2>2, <2>3, <2>5 DEF seqs
<1> QED
  BY <1>5, <1>6

\* An item that is new.
LEMMA ExistingNot ==
  ASSUME NEW lines \in Seq(LineSet), Ascending(lines), NEW v \in WriterSet,
         Knows(v.events, v.items, lines), NEW i \in Item, NEW occ \in Nat, occ > 0,
         ~(Existing(v, i, occ) > 0), KeyOf[i] = NoKey
  PROVE  Len(v.events[ContentOf[i]]) < occ
<1> DEFINE x == ContentOf[i]
           seqs == v.events[x]
<1>1. x \in Content
  BY ItemFacts
<1>2. /\ DOMAIN seqs = 1..Len(seqs) /\ Len(seqs) \in Nat
      /\ \A o \in DOMAIN seqs : seqs[o] \in Nat /\ seqs[o] > 0
  <2> HIDE DEF x
  <2> QED
    BY <1>1, EventsRefer
<1>3. Existing(v, i, occ) = IF occ <= Len(seqs) THEN seqs[occ] ELSE 0
  BY DEF Existing
<1> HIDE DEF seqs
<1>4. ~(occ <= Len(seqs))
  <2> SUFFICES ASSUME occ <= Len(seqs) PROVE FALSE
    OBVIOUS
  <2>1. occ \in DOMAIN seqs
    BY <1>2
  <2> QED
    BY <1>2, <1>3, <2>1
<1>5. Len(seqs) < occ
  BY <1>2, <1>4
<1> QED
  BY <1>5 DEF seqs

\* A line that serves an item is one of those its reference may lead to.
LEMMA ServesLed ==
  ASSUME NEW lines, NEW n \in DOMAIN lines, NEW seq, NEW i \in Item,
         Serves(lines, n, seq, i)
  PROVE  Led(lines, seq, i)
<1>1. PICK j \in Item : /\ lines[n].body = <<ContentOf[j]>>
                        /\ KeyOf[i] # NoKey => KeyOf[j] = KeyOf[i]
                        /\ KeyOf[i] = NoKey => ContentOf[j] = ContentOf[i]
  BY DEF Serves
<1>2. ContentOf[j] = ContentOf[i] \/ (KeyOf[i] # NoKey /\ KeyOf[j] = KeyOf[i])
  BY <1>1
<1>3. Stands(lines[n], i)
  BY <1>1, <1>2 DEF Stands, Serves
<1> QED
  BY <1>3 DEF Led, Serves

\* Numbers tell the lines apart.
LEMMA OneLine ==
  ASSUME NEW lines \in Seq(LineSet), Ascending(lines), NEW n \in DOMAIN lines,
         NEW m \in DOMAIN lines, lines[n].seq = lines[m].seq, lines[n].seq > 0
  PROVE  n = m
<1>1. /\ n \in Nat /\ m \in Nat /\ lines[n].seq \in Nat /\ lines[m].seq \in Nat
  BY SeqFacts, SeqNumbers
<1>2. ~(n < m) /\ ~(m < n)
  BY <1>1 DEF Ascending
<1> QED
  BY <1>1, <1>2

\* Another occurrence of a content, or another content, has another line.
LEMMA UnlikeKnown ==
  ASSUME NEW lines \in Seq(LineSet), Ascending(lines), NEW events, NEW items,
         Knows(events, items, lines), NEW request \in Seq(Item), NEW refs \in Seq(Nat),
         Len(refs) < Len(request), Found(lines, events, request, refs),
         NEW p, p = Len(refs) + 1, NEW x, x = ContentOf[request[p]], NEW there,
         Occurrence(request, p) \in DOMAIN events[x],
         there = events[x][Occurrence(request, p)]
  PROVE  Unlike(request, refs, there)
<1> SUFFICES ASSUME NEW q \in DOMAIN refs, KeyOf[request[q]] = NoKey, refs[q] = there
             PROVE  FALSE
  BY DEF Unlike
<1> DEFINE y == ContentOf[request[q]]
           occ == Occurrence(request, p)
<1>1. /\ Len(refs) \in Nat /\ Len(request) \in Nat /\ DOMAIN refs = 1..Len(refs)
      /\ DOMAIN request = 1..Len(request)
      /\ \A m \in 1..Len(request) : request[m] \in Item
  BY SeqFacts
<1>2. p \in Nat /\ q \in 1..(p - 1) /\ request[q] \in Item /\ request[p] \in Item
  BY <1>1
<1>3. x \in Content /\ y \in Content
  BY <1>2, ItemFacts
<1>4. Among(events[y], Occurrence(request, q), refs[q])
  BY DEF Found
<1>5. PICK m \in DOMAIN events[y] : m <= Occurrence(request, q) /\ events[y][m] = there
  BY <1>4 DEF Among
<1>6. occ \in DOMAIN events[x] /\ there = events[x][occ]
  OBVIOUS
<1> HIDE DEF y, occ
<1>7. /\ RefersTo(events[x], x, lines) /\ RefersTo(events[y], y, lines)
      /\ there \in Nat /\ there > 0
  BY <1>3, <1>6, EventsRefer
<1>8. CASE x = y
  <2>1. m = occ
    BY <1>5, <1>6, <1>7, <1>8 DEF RefersTo
  <2>2. /\ Occurrence(request, q) \in Nat /\ occ \in Nat /\ Occurrence(request, q) < occ
    BY <1>2, <1>8, OccurrenceGrows DEF y, occ
  <2> QED
    BY <1>5, <2>1, <2>2
<1>9. CASE x # y
  <2>1. PICK n \in DOMAIN lines : Holds(x, lines[n]) /\ lines[n].seq = there
    BY <1>6, <1>7 DEF RefersTo
  <2>2. PICK o \in DOMAIN lines : Holds(y, lines[o]) /\ lines[o].seq = there
    BY <1>5, <1>7 DEF RefersTo
  <2>3. n = o
    BY <1>7, <2>1, <2>2, OneLine
  <2>4. <<x>> = <<y>>
    BY <2>1, <2>2, <2>3 DEF Holds
  <2> QED
    BY <1>9, <2>4
<1> QED
  BY <1>8, <1>9

\* A new line is no line that is there.
LEMMA UnlikeNew ==
  ASSUME NEW lines \in Seq(LineSet), NEW events, NEW request, NEW refs,
         Found(lines, events, request, refs), NEW ref \in Nat,
         \A n \in DOMAIN lines : lines[n].seq < ref
  PROVE  Unlike(request, refs, ref)
<1> SUFFICES ASSUME NEW q \in DOMAIN refs, refs[q] = ref PROVE FALSE
  BY DEF Unlike
<1>1. PICK n \in DOMAIN lines : lines[n].seq = refs[q]
  BY DEF Found, Led
<1>2. lines[n].seq \in Nat /\ lines[n].seq < ref
  BY SeqNumbers
<1> QED
  BY <1>1, <1>2

\* The first occurrence is the first.
LEMMA OccurrenceFacts ==
  ASSUME NEW request, NEW p \in Nat, p > 0
  PROVE  Occurrence(request, p) \in Nat /\ Occurrence(request, p) > 0
<1> DEFINE B == {m \in 1..p : ContentOf[request[m]] = ContentOf[request[p]]}
<1>1. IsFiniteSet(1..p) /\ B \subseteq 1..p /\ p \in B
  BY FS_Interval
<1> HIDE DEF B
<1>2. IsFiniteSet(B) /\ B # {}
  BY <1>1, FS_Subset
<1>3. Cardinality(B) \in Nat /\ Cardinality(B) # 0
  BY <1>2, FS_CardinalityType, FS_EmptySet
<1>4. Cardinality(B) > 0
  BY <1>3
<1> QED
  BY <1>3, <1>4 DEF Occurrence, B

\* A writer that looks for its items knows its file.
LEMMA RequestKnows ==
  ASSUME Inv, NEW t \in Turn, w[t].pc = "request", ~haunted
  PROVE  /\ Knowing(w[t], files[w[t].seg].lines) /\ Ascending(files[w[t].seg].lines)
         /\ Found(files[w[t].seg].lines, w[t].events, w[t].request, w[t].refs)
<1> DEFINE f == files[w[t].seg]
<1>1. w[t].pc \in Begun /\ w[t].pc # "dropping"
  BY DEF Begun
<1>2. CountOk(t, w[t], f) /\ KnowsOk(w[t], f.lines) /\ RefsOk(w[t], f.lines)
  BY <1>1, OfTurn DEF WritingOk
<1>3. Len(f.lines) = w[t].count /\ Bad(f.lines) = {}
  BY <1>2 DEF CountOk
<1>4. Knowing(w[t], f.lines)
  BY <1>1, <1>2, <1>3 DEF KnowsOk, Knowing
<1>5. Ascending(f.lines)
  BY OfTurn DEF Inv, Truthful, LinesOk
<1>6. Found(f.lines, w[t].events, w[t].request, w[t].refs)
  BY <1>2, Zenon DEF RefsOk, Found
<1> QED
  BY <1>4, <1>5, <1>6

\* A content with one reference more.
LEMMA EventsMore ==
  ASSUME NEW events \in RefSet, NEW x \in Content, NEW new \in Nat, NEW occ \in Nat,
         Len(events[x]) < occ
  PROVE  /\ Prolongs([events EXCEPT ![x] = Append(@, new)], events)
         /\ Among([events EXCEPT ![x] = Append(@, new)][x], occ, new)
<1> DEFINE seqs == events[x]
           more == [events EXCEPT ![x] = Append(@, new)]
<1>1. seqs \in Seq(Nat) /\ DOMAIN events = Content
  BY DEF RefSet
<1>2. more[x] = Append(seqs, new) /\ \A y \in Content : y # x => more[y] = events[y]
  BY <1>1
<1> HIDE DEF seqs, more
<1>3. /\ DOMAIN Append(seqs, new) = 1..(Len(seqs) + 1) /\ Len(seqs) \in Nat
      /\ DOMAIN seqs = 1..Len(seqs)
      /\ Append(seqs, new)[Len(seqs) + 1] = new
      /\ \A m \in 1..Len(seqs) : Append(seqs, new)[m] = seqs[m]
  BY <1>1, AppendFacts, SeqFacts
<1>4. /\ Len(seqs) + 1 \in DOMAIN Append(seqs, new)
      /\ \A m \in DOMAIN seqs : m \in DOMAIN Append(seqs, new)
  BY <1>3
<1>5. ASSUME NEW y \in Content, NEW m \in DOMAIN events[y]
      PROVE  m \in DOMAIN more[y] /\ more[y][m] = events[y][m]
  <2>1. CASE y = x
    BY <1>2, <1>3, <1>4, <1>5, <2>1 DEF seqs
  <2>2. CASE y # x
    BY <1>2, <1>5, <2>2
  <2> QED
    BY <2>1, <2>2
<1>6. Prolongs(more, events)
  BY <1>5, Zenon DEF Prolongs
<1>7. Among(more[x], occ, new)
  <2> DEFINE L == Len(seqs)
  <2>1. L \in Nat /\ L < occ /\ L + 1 \in DOMAIN more[x] /\ more[x][L + 1] = new
    BY <1>2, <1>3, <1>4 DEF seqs
  <2> HIDE DEF L
  <2>2. L + 1 <= occ
    BY <2>1
  <2> QED
    BY <2>1, <2>2 DEF Among
<1> QED
  BY <1>6, <1>7, Zenon DEF seqs, more

\* The line an item is found at, if it is.
Place(v, i) == Existing(v, i, Occurrence(v.request, Len(v.refs) + 1))

\* An item is stored, or refers to a stored one.
Storing(t, i, x, new) ==
    BeginLine(t, Line("content", new, t, <<x>>),
              [Referring(t, i, new) EXCEPT !.seq = new, !.events[x] = Append(@, new)])

Pointing(t, i, there) == w' = [w EXCEPT ![t] = Referring(t, i, there)]

\* An item of the request that is new.
LEMMA NewItemStep ==
  ASSUME Inv, NEW t \in Turn, w[t].pc = "request", Len(w[t].refs) < Len(w[t].request),
         NEW i, i = w[t].request[Len(w[t].refs) + 1], NEW x, x = ContentOf[i],
         NEW new, new = w[t].seq + 1, ~(Place(w[t], i) > 0), Storing(t, i, x, new),
         UNCHANGED <<index, cache, lock, load, epoch, haunted>>
  PROVE  Inv'
<1> DEFINE line == Line("content", new, t, <<x>>)
           p == Len(w[t].refs) + 1
           lines == files[w[t].seg].lines
           refs == Append(w[t].refs, new)
           items == Remembered(w[t].items, i, new)
           events == [w[t].events EXCEPT ![x] = Append(@, new)]
           after == [Referring(t, i, new) EXCEPT !.seq = new, !.events[x] = Append(@, new)]
<1>1. /\ w[t] \in WriterSet /\ w[t].seq \in Nat /\ new \in Nat /\ new > 0
      /\ lines \in Seq(LineSet) /\ w[t].request \in Seq(Item) /\ w[t].refs \in Seq(Nat)
      /\ w[t].events \in RefSet /\ w[t].items \in ItemSet
  <2>1. /\ w[t] \in WriterSet /\ w[t].seq \in Nat
        /\ w[t].request \in Seq(Item) /\ w[t].refs \in Seq(Nat)
        /\ w[t].events \in RefSet /\ w[t].items \in ItemSet
    BY OfTurn DEF WriterSet
  <2>2. lines \in Seq(LineSet)
    BY OfTurn, FileFacts
  <2>3. new \in Nat /\ new > 0
    BY <2>1
  <2> QED
    BY <2>1, <2>2, <2>3
<1>2. /\ p \in Nat /\ p > 0 /\ p <= Len(w[t].request) /\ p \in 1..Len(w[t].request)
      /\ Len(w[t].refs) \in Nat /\ Len(w[t].request) \in Nat
  BY <1>1, SeqFacts
<1>3. i \in Item /\ x \in Content
  <2>1. i \in Item
    BY <1>1, <1>2, SeqFacts
  <2> QED
    BY <2>1, ItemFacts
<1>4. /\ line \in LineSet /\ line.type = "content" /\ line.seq = new /\ line.turn = t
      /\ line.type \notin Broken /\ line.body = <<x>>
  <2>1. new \in Nat /\ new > 0
    BY <1>1
  <2>2. ContentLine(Line("content", new, t, <<ContentOf[i]>>), new, t, ContentOf[i])
    BY <1>3, <2>1, ContentMade, Zenon
  <2>3. ContentLine(line, new, t, x)
    BY <2>2, Zenon
  <2> HIDE DEF line
  <2> QED
    BY <2>3, Zenon DEF ContentLine
<1>5. Holds(x, line)
  BY <1>4 DEF Holds
<1>6. events \in RefSet /\ items \in ItemSet /\ refs \in Seq(Nat) /\ Len(refs) = p
  <2>1. refs \in Seq(Nat) /\ Len(refs) = p
    BY <1>1, AppendFacts
  <2>2. /\ [w[t].events EXCEPT ![ContentOf[i]] = Append(@, new)] \in RefSet
        /\ Remembered(w[t].items, i, new) \in ItemSet
    BY <1>1, <1>3, MadeFacts
  <2> QED
    BY <2>1, <2>2
<1>7. after = [w[t] EXCEPT !.refs = refs, !.items = items, !.seq = new, !.events = events]
  BY <1>1 DEF WriterSet, Referring
<1>8. BeginLine(t, line, after)
  BY Zenon DEF Storing
<1> HIDE DEF after
<1>9. /\ after \in WriterSet /\ after.pc = "request" /\ after.seq = new
      /\ after.seg = w[t].seg /\ after.request = w[t].request /\ after.refs = refs
      /\ after.start = w[t].start /\ after.count = w[t].count /\ after.base = w[t].base
      /\ after.added = w[t].added /\ after.events = events /\ after.items = items
      /\ after.window = w[t].window /\ after.faulty = w[t].faulty
  <2> HIDE DEF refs, items, events
  <2> QED
    BY <1>1, <1>6, <1>7 DEF WriterSet
<1>10. w[t].pc \in Begun /\ w[t].pc # "dropping"
  BY DEF Begun
<1> HIDE DEF line
<1>11. ASSUME ~haunted
       PROVE  /\ Knowing(w[t], lines) => Knowing(after, Append(lines, line))
              /\ RefsOk(after, Append(lines, line))
  <2> DEFINE more == Append(lines, line)
             old == w[t]
  <2>1. /\ Knowing(old, lines) /\ Ascending(lines)
        /\ Found(lines, old.events, old.request, old.refs)
    BY <1>11, RequestKnows
  <2>2. Knows(old.events, old.items, lines)
    BY <2>1 DEF Knowing
  <2>3. \A n \in DOMAIN lines : lines[n].seq < new
    BY <1>4, <1>10, <1>11, NextFollows DEF MayFollow
  <2>4. Knowing(after, more)
    <3>1. /\ after.events = [old.events EXCEPT ![ContentOf[i]] = Append(@, line.seq)]
          /\ after.items = Remembered(old.items, i, line.seq)
          /\ after.pc = old.pc /\ after.pc \in {"request", "response"}
      BY <1>4, <1>9
    <3> HIDE DEF lines, old
    <3> QED
      BY <1>1, <1>3, <1>4, <1>5, <1>9, <2>1, <3>1, KnowingContent DEF old
  <2>5. more \in Seq(LineSet) /\ Continues(more, lines)
        /\ Len(lines) + 1 \in DOMAIN more /\ more[Len(lines) + 1] = line
    <3> HIDE DEF lines
    <3>1. more \in Seq(LineSet) /\ DOMAIN more = 1..(Len(lines) + 1) /\ Len(lines) \in Nat
          /\ more[Len(lines) + 1] = line
      BY <1>1, <1>4, AppendFacts, SeqFacts
    <3>2. Continues(more, lines)
      BY <1>1, <1>4, AppendContinues
    <3> QED
      BY <3>1, <3>2
  <2> HIDE DEF more
  <2>6. Led(more, new, i)
    <3>1. Stands(line, i)
      BY <1>3, <1>4 DEF Stands
    <3> QED
      BY <1>4, <2>5, <3>1 DEF Led
  <2>7. Prolongs(events, old.events)
    <3>1. w[t].events[x] \in Seq(Nat)
      BY <1>1, <1>3 DEF RefSet
    <3> DEFINE L == Len(w[t].events[x])
    <3>2. L \in Nat
      BY <3>1, SeqFacts, Zenon
    <3>3. L + 1 \in Nat /\ L < L + 1
      <4> HIDE DEF L
      <4> QED
        BY <3>2
    <3> QED
      BY <1>1, <1>3, <3>3, EventsMore, Zenon
  <2>8. ASSUME KeyOf[i] = NoKey
        PROVE  /\ Among(events[ContentOf[i]], Occurrence(old.request, Len(old.refs) + 1), new)
               /\ Unlike(old.request, old.refs, new)
    <3> DEFINE occ == Occurrence(old.request, p)
               seqs == old.events[x]
    <3>1. occ \in Nat /\ occ > 0
      BY <1>2, OccurrenceFacts
    <3>2. Len(seqs) < occ
      <4>1. ~(Existing(old, i, occ) > 0)
        BY DEF Place
      <4> QED
        BY <1>1, <1>3, <2>1, <2>2, <2>8, <3>1, <4>1, ExistingNot
    <3>6. Among(events[x], occ, new)
      BY <1>1, <1>3, <3>1, <3>2, EventsMore, Zenon
    <3>7. Unlike(old.request, old.refs, new)
      BY <1>1, <2>1, <2>3, UnlikeNew
    <3> QED
      BY <3>6, <3>7
  <2>9. Found(more, events, old.request, refs)
    <3> HIDE DEF lines, old, events
    <3> QED
      BY <1>1, <2>1, <2>5, <2>6, <2>7, <2>8, FoundMore DEF old
  <2>10. RefsOk(after, more)
    <3>1. Len(after.refs) <= Len(after.request)
      BY <1>2, <1>6, <1>9
    <3> HIDE DEF events, refs
    <3> QED
      BY <1>9, <2>9, <3>1 DEF RefsOk, Found
  <2> QED
    BY <2>4, <2>10 DEF more
<1>12. after.pc \in {"turn", "request", "ready", "sync"} /\ after.pc # "sync"
       /\ w[t].pc \in {"meta", "window", "turn", "request"} /\ line.type # "context"
  BY <1>4, <1>9
<1>13. line.seq = w[t].seq + 1 /\ after.seq = w[t].seq + 1
  BY <1>4, <1>9
<1>14. ~haunted => /\ line.type = "context" =>
                         Fits(files[w[t].seg].lines, line.body, w[t].request)
                   /\ Knowing(w[t], files[w[t].seg].lines) =>
                         Knowing(after, Append(files[w[t].seg].lines, line))
                   /\ RefsOk(after, Append(files[w[t].seg].lines, line))
  BY <1>11, <1>12
<1> HIDE DEF p, lines, refs, items, events
<1> QED
  BY <1>4, <1>8, <1>9, <1>10, <1>12, <1>13, <1>14, LineStep, Zenon

\* What a writer knows when an item refers to a line that is there.
LEMMA ReferringKnows ==
  ASSUME NEW lines \in Seq(LineSet), NEW events, NEW items \in ItemSet,
         Knows(events, items, lines), NEW i \in Item, NEW n \in DOMAIN lines, NEW seq,
         seq > 0, Serves(lines, n, seq, i)
  PROVE  Knows(events, Remembered(items, i, seq), lines)
<1>1. PICK j \in Item : /\ lines[n].body = <<ContentOf[j]>>
                        /\ KeyOf[i] # NoKey => KeyOf[j] = KeyOf[i]
  BY DEF Serves
<1>2. lines[n].type = "content" /\ lines[n].seq = seq
  BY DEF Serves
<1>3. Points(items, lines)
  BY DEF Knows
<1>4. Points(Remembered(items, i, lines[n].seq), lines)
  BY <1>1, <1>2, <1>3, RememberedPoints
<1>5. Covers(Remembered(items, i, seq), lines)
  <2> SUFFICES ASSUME NEW k \in Key, Learned(lines).items[k] > 0
               PROVE  Remembered(items, i, seq)[k] > 0
    BY DEF Covers
  <2>1. Remembered(items, i, seq)[k] = IF k = KeyOf[i] THEN seq ELSE items[k]
    BY DEF Remembered
  <2>2. items[k] > 0
    BY DEF Knows, Covers
  <2> QED
    BY <2>1, <2>2
<1> QED
  BY <1>2, <1>4, <1>5 DEF Knows

\* An item refers to a line that stands for it; one without an id to the line of
\* its occurrence.
Refers(lines, v, i, occ, there) ==
    /\ \E n \in DOMAIN lines : Serves(lines, n, there, i)
    /\ KeyOf[i] = NoKey => /\ occ \in DOMAIN v.events[ContentOf[i]]
                           /\ there = v.events[ContentOf[i]][occ]

\* What Existing finds is such a line.
LEMMA ReferringServes ==
  ASSUME NEW lines \in Seq(LineSet), Ascending(lines), NEW v \in WriterSet,
         Knows(v.events, v.items, lines), NEW i \in Item, NEW occ \in Nat, occ > 0,
         Existing(v, i, occ) > 0
  PROVE  Refers(lines, v, i, occ, Existing(v, i, occ))
BY ExistingServes DEF Refers

\* An item of the request that is there already.
LEMMA KnownItemStep ==
  ASSUME Inv, NEW t \in Turn, w[t].pc = "request", Len(w[t].refs) < Len(w[t].request),
         NEW i, i = w[t].request[Len(w[t].refs) + 1],
         NEW there, there = Place(w[t], i), there > 0, Pointing(t, i, there),
         UNCHANGED <<files, index, cache, lock, load, epoch, troubles, haunted>>
  PROVE  Inv'
<1> DEFINE p == Len(w[t].refs) + 1
           f == files[w[t].seg]
           old == w[t]
           lines == f.lines
           occ == Occurrence(w[t].request, p)
           v == Referring(t, i, there)
           refs == Append(w[t].refs, there)
           items == Remembered(w[t].items, i, there)
<1>1. /\ w[t] \in WriterSet /\ lines \in Seq(LineSet)
      /\ w[t].request \in Seq(Item) /\ w[t].refs \in Seq(Nat)
      /\ w[t].events \in RefSet /\ w[t].items \in ItemSet
  BY OfTurn, FileFacts DEF WriterSet
<1>2. /\ p \in Nat /\ p > 0 /\ p <= Len(w[t].request) /\ p \in 1..Len(w[t].request)
      /\ Len(w[t].refs) \in Nat /\ Len(w[t].request) \in Nat
  BY <1>1, SeqFacts
<1>3. i \in Item
  BY <1>1, <1>2, SeqFacts
<1>4. occ \in Nat /\ occ > 0
  BY <1>2, OccurrenceFacts
<1>5. there \in Nat
  <2>1. there = IF KeyOf[i] # NoKey /\ old.items[KeyOf[i]] > 0 THEN old.items[KeyOf[i]]
                ELSE IF occ <= Len(old.events[ContentOf[i]]) THEN old.events[ContentOf[i]][occ]
                ELSE 0
    BY DEF Existing, Place
  <2>2. /\ ContentOf[i] \in Content /\ KeyOf[i] \in Key \cup {NoKey}
    BY <1>3, ItemFacts
  <2> HIDE DEF occ, old
  <2>3. CASE KeyOf[i] # NoKey /\ old.items[KeyOf[i]] > 0
    BY <1>1, <2>1, <2>2, <2>3 DEF ItemSet, old
  <2>4. CASE ~(KeyOf[i] # NoKey /\ old.items[KeyOf[i]] > 0)
    <3> DEFINE seqs == old.events[ContentOf[i]]
    <3>1. seqs \in Seq(Nat)
      BY <1>1, <2>2 DEF RefSet, old
    <3>2. there = IF occ <= Len(seqs) THEN seqs[occ] ELSE 0
      BY <2>1, <2>4
    <3> HIDE DEF seqs
    <3>3. CASE occ <= Len(seqs)
      <4>1. Len(seqs) \in Nat
        BY <3>1, SeqFacts
      <4>2. occ \in 1..Len(seqs)
        BY <1>4, <3>3, <4>1
      <4>3. seqs[occ] \in Nat
        BY <3>1, <4>2, SeqFacts
      <4> QED
        BY <3>2, <3>3, <4>3
    <3>4. CASE ~(occ <= Len(seqs))
      BY <3>2, <3>4
    <3> QED
      BY <3>3, <3>4
  <2> QED
    BY <2>3, <2>4
<1>6. refs \in Seq(Nat) /\ Len(refs) = p /\ items \in ItemSet
  <2>1. refs \in Seq(Nat) /\ Len(refs) = p
    BY <1>1, <1>5, AppendFacts
  <2>2. items \in ItemSet
    BY <1>1, <1>3, <1>5, MadeFacts
  <2> QED
    BY <2>1, <2>2
<1>7. /\ v \in WriterSet /\ v.pc = "request" /\ v.seg = w[t].seg /\ v.request = w[t].request
      /\ v.window = w[t].window /\ v.refs = refs /\ v.start = w[t].start
      /\ v.count = w[t].count /\ v.seq = w[t].seq /\ v.base = w[t].base
      /\ v.added = w[t].added /\ v.events = w[t].events /\ v.items = items
      /\ v.buf = w[t].buf /\ v.cut = w[t].cut /\ v.faulty = w[t].faulty
  <2>1. v = [w[t] EXCEPT !.refs = refs, !.items = items]
    BY <1>1 DEF WriterSet, Referring
  <2> HIDE DEF v, refs, items
  <2> QED
    BY <1>1, <1>6, <2>1 DEF WriterSet
<1> HIDE DEF v
<1>8. w' = [w EXCEPT ![t] = v]
  BY Zenon DEF v, Pointing
<1>9. load[t].at = "off"
  BY OfTurn DEF LockOk, LoadSet
<1>10. Quiet(t, v, load[t])
  <2>1. load' = [load EXCEPT ![t] = load[t]] /\ load[t] \in LoadSet
        /\ lock' \in Turn \cup {NoTurn}
    BY OfTurn
  <2> QED
    BY <1>7, <1>8, <2>1, OfThread DEF Quiet
<1>11. QuietSound(t, v, load[t])
  <2>1. LockOk(t, v, load[t], lock')
    BY <1>7, <1>9, OfTurn DEF LockOk, Holding, Begun
  <2>2. BufferOk(t, v, troubles')
    <3>1. BufferOk(t, w[t], troubles) /\ troubles' = troubles
      BY OfTurn
    <3> QED
      BY <1>7, <3>1 DEF BufferOk
  <2> QED
    BY <1>7, <1>9, <2>1, <2>2, OfTurn DEF QuietSound, BareOk, OpenOk
<1>12. ASSUME ~haunted PROVE QuietTruth(t, v, load[t])
  <2>1. old.pc \in Begun /\ v.pc \in Begun
    BY <1>7 DEF Begun
  <2>2. /\ CountOk(t, old, f) /\ NumberOk(old, lines)
        /\ WaitsOk(old.buf, lines, old.request)
    BY <1>12, <2>1, OfTurn DEF WritingOk
  <2>3. /\ Knowing(old, lines) /\ Ascending(lines) /\ Knows(old.events, old.items, lines)
        /\ Found(lines, old.events, old.request, old.refs)
    BY <1>12, RequestKnows DEF Knowing
  <2>4. CountOk(t, v, f)
    BY <1>7, <2>2 DEF CountOk
  <2>5. NumberOk(v, lines)
    BY <1>7, <2>2 DEF NumberOk
  <2>6. WaitsOk(v.buf, lines, v.request)
    BY <1>7, <2>2
  <2>7. /\ \E n \in DOMAIN lines : Serves(lines, n, there, i)
        /\ KeyOf[i] = NoKey => /\ occ \in DOMAIN old.events[ContentOf[i]]
                               /\ there = old.events[ContentOf[i]][occ]
    <3>1. there = Existing(old, i, occ)
      BY DEF Place
    <3>2. old \in WriterSet /\ lines \in Seq(LineSet)
      BY <1>1
    <3>3. occ \in Nat /\ occ > 0 /\ there > 0
      BY <1>4
    <3>4. Ascending(lines) /\ Knows(old.events, old.items, lines)
      BY <2>3
    <3>5. Refers(lines, old, i, occ, Existing(old, i, occ))
      <4>1. Existing(old, i, occ) > 0
        BY <3>1, <3>3
      <4> HIDE DEF lines, old, occ
      <4> QED
        BY <1>3, <3>2, <3>3, <3>4, <4>1, ReferringServes
    <3>6. Refers(lines, old, i, occ, there)
      <4> HIDE DEF lines, old, occ
      <4> QED
        BY <3>1, <3>5
    <3> HIDE DEF lines, old, occ
    <3> QED
      BY <3>6 DEF Refers
  <2>8. PICK n \in DOMAIN lines : Serves(lines, n, there, i)
    BY <2>7
  <2>9. Knows(v.events, v.items, lines)
    <3>1. Knows(old.events, items, lines)
      <4> HIDE DEF lines
      <4> QED
        BY <1>1, <1>3, <2>3, <2>8, ReferringKnows
    <3> QED
      BY <1>7, <3>1
  <2>10. KnowsOk(v, lines)
    BY <1>7, <2>3, <2>9 DEF KnowsOk, Knowing
  <2>11. Found(lines, old.events, old.request, refs)
    <3>1. Led(lines, there, i)
      BY <1>3, <2>8, ServesLed
    <3>2. Continues(lines, lines) /\ Prolongs(old.events, old.events)
      BY <1>1, SeqFacts DEF Continues, Prolongs
    <3>3. ASSUME KeyOf[i] = NoKey
          PROVE  /\ Among(old.events[ContentOf[i]], Occurrence(old.request, Len(old.refs) + 1),
                          there)
                 /\ Unlike(old.request, old.refs, there)
      <4>1. occ \in DOMAIN old.events[ContentOf[i]] /\ there = old.events[ContentOf[i]][occ]
        BY <2>7, <3>3
      <4>2. Among(old.events[ContentOf[i]], occ, there)
        <5>1. occ <= occ
          <6> HIDE DEF occ
          <6> QED
            BY <1>4
        <5> HIDE DEF occ, old
        <5> QED
          BY <4>1, <5>1 DEF Among
      <4>3. Unlike(old.request, old.refs, there)
        <5>1. ContentOf[i] = ContentOf[old.request[p]]
          OBVIOUS
        <5> HIDE DEF lines
        <5> QED
          BY <1>1, <2>3, <4>1, <5>1, UnlikeKnown
      <4> QED
        BY <4>2, <4>3
    <3>4. i = old.request[Len(old.refs) + 1] /\ Len(old.refs) < Len(old.request)
          /\ old.request \in Seq(Item) /\ old.refs \in Seq(Nat)
      BY <1>1
    <3>5. Found(lines, old.events, old.request, Append(old.refs, there))
      <4> HIDE DEF lines, old
      <4> QED
        BY <1>1, <1>5, <2>3, <3>1, <3>2, <3>3, <3>4, FoundMore
    <3> QED
      BY <3>5
  <2>12. RefsOk(v, lines)
    <3>1. Len(v.refs) <= Len(v.request)
      BY <1>2, <1>6, <1>7
    <3> HIDE DEF refs
    <3> QED
      BY <1>7, <2>11, <3>1 DEF RefsOk, Found
  <2>13. WritingOk(t, v, f)
    BY <2>4, <2>5, <2>6, <2>10, <2>12 DEF WritingOk
  <2> QED
    BY <1>7, <1>9, <2>13, OfTurn DEF QuietTruth, TaskOk, DoneOk
<1>13. ~haunted' => QuietTruth(t, v, load[t])
  BY <1>12
<1>14. files' = files /\ epoch' = epoch /\ haunted' = haunted
  OBVIOUS
<1> QED
  BY <1>8, <1>10, <1>11, <1>13, <1>14, QuietStep

\* An item of the request.
LEMMA WriteRequestItemStep ==
  ASSUME Inv, NEW t \in Turn, WriteRequestItem(t)
  PROVE  Inv'
<1> DEFINE p == Len(w[t].refs) + 1
           i == w[t].request[p]
           x == ContentOf[i]
           occ == Occurrence(w[t].request, p)
           there == Existing(w[t], i, occ)
           new == w[t].seq + 1
<1>1. /\ w[t].pc = "request" /\ Len(w[t].refs) < Len(w[t].request)
      /\ UNCHANGED <<index, cache, lock, load, epoch, haunted>>
      /\ IF there > 0
           THEN w' = [w EXCEPT ![t] = Referring(t, i, there)] /\ UNCHANGED <<files, troubles>>
           ELSE BeginLine(t, Line("content", new, t, <<x>>),
                          [Referring(t, i, new) EXCEPT !.seq = new,
                                                       !.events[x] = Append(@, new)])
  BY DEF WriteRequestItem, At, NextLine, Becomes, Occurrence
<1>2. CASE there > 0
  <2>1. there = Place(w[t], i)
    BY DEF Place
  <2>2. Pointing(t, i, there) /\ UNCHANGED <<files, troubles>>
    BY <1>1, <1>2, Zenon DEF Pointing
  <2> HIDE DEF there
  <2> QED
    BY <1>1, <1>2, <2>1, <2>2, KnownItemStep
<1>3. CASE ~(there > 0)
  <2>1. ~(Place(w[t], i) > 0)
    BY <1>3 DEF Place
  <2>2. Storing(t, i, x, new)
    BY <1>1, <1>3, Zenon DEF Storing
  <2> HIDE DEF there
  <2> QED
    BY <1>1, <2>1, <2>2, NewItemStep, Zenon
<1> QED
  BY <1>2, <1>3

-----------------------------------------------------------------------------
(* A crash.                                                                  *)

\* What a crash leaves of a file: no line that was synced is gone.
Shortened(f, g) ==
    /\ g.exists = f.exists
    /\ g.mtime = f.mtime
    /\ g.synced = f.synced
    /\ Continues(f.lines, g.lines)
    /\ f.synced <= Len(g.lines)
    /\ ~f.exists => g = f

\* It is still a file of this program.
LEMMA ShortFile ==
  ASSUME NEW f \in FileSet, NEW g \in FileSet, Shortened(f, g), NEW now \in Nat,
         FileOk(f, now)
  PROVE  FileOk(g, now + 1)
<1>1. f.mtime \in Nat /\ f.mtime <= now
  BY FileFacts DEF FileOk
<1>2. g.mtime = f.mtime /\ g.mtime <= now + 1
  BY <1>1 DEF Shortened
<1> QED
  BY <1>2 DEF FileOk, Shortened

\* The index of a file that was written in an earlier run of the process.
LEMMA ShortDescribes ==
  ASSUME NEW f \in FileSet, NEW g \in FileSet, Shortened(f, g), NEW now \in Nat,
         FileOk(f, now), NEW state \in States, Describes(state, f, now)
  PROVE  Describes(state, g, now + 1)
<1> DEFINE M == state.stamp.mtime
           L == state.stamp.lines
<1>1. /\ M \in Nat /\ L \in Nat
      /\ f.lines \in Seq(LineSet) /\ g.lines \in Seq(LineSet)
      /\ f.mtime \in Nat /\ Len(f.lines) \in Nat /\ Len(g.lines) \in Nat
  BY FileFacts, SeqFacts DEF States
<1>2. /\ g.mtime = f.mtime /\ g.exists = f.exists /\ Continues(f.lines, g.lines)
      /\ Len(g.lines) <= Len(f.lines) /\ f.mtime <= now
  BY DEF Shortened, FileOk, Continues
<1>3. /\ M <= f.mtime
      /\ f.exists /\ f.mtime = M /\ L <= Len(f.lines) => Agrees(state, SubSeq(f.lines, 1, L))
      /\ state.count = L /\ state.stamp.bad = 0 /\ state.stamp.tail = "none"
  BY DEF Describes
<1> HIDE DEF M, L
<1>4. M <= g.mtime /\ g.mtime # now + 1
  BY <1>1, <1>2, <1>3
<1>5. ASSUME g.exists, g.mtime = M, L <= Len(g.lines)
      PROVE  Agrees(state, SubSeq(g.lines, 1, L))
  <2>1. L <= Len(f.lines) /\ L \in 0..Len(g.lines)
    BY <1>1, <1>2, <1>5
  <2>2. SubSeq(f.lines, 1, L) = SubSeq(g.lines, 1, L)
    BY <1>1, <1>2, <2>1, SamePrefix
  <2> QED
    BY <1>2, <1>3, <1>5, <2>1, <2>2
<1> QED
  BY <1>3, <1>4, <1>5 DEF Describes, M, L

\* The places of a turn in what is left.
LEMMA ShortPlaces ==
  ASSUME NEW f \in FileSet, NEW g \in FileSet, Shortened(f, g), NEW t
  PROVE  Places(t, g.lines) = {n \in Places(t, f.lines) : n <= Len(g.lines)}
<1>1. /\ DOMAIN f.lines = 1..Len(f.lines) /\ DOMAIN g.lines = 1..Len(g.lines)
      /\ Len(f.lines) \in Nat /\ Len(g.lines) \in Nat
  BY FileFacts, SeqFacts
<1>2. Len(g.lines) <= Len(f.lines) /\ \A n \in 1..Len(g.lines) : f.lines[n] = g.lines[n]
  BY DEF Shortened, Continues
<1>3. \A n : n \in 1..Len(g.lines) <=> n \in 1..Len(f.lines) /\ n <= Len(g.lines)
  BY <1>1, <1>2
<1> QED
  BY <1>1, <1>2, <1>3 DEF Places

\* A turn that is over was synced.
LEMMA ShortDone ==
  ASSUME NEW f \in FileSet, NEW g \in FileSet, Shortened(f, g), NEW t,
         NEW v \in WriterSet, DoneOk(t, v, f)
  PROVE  DoneOk(t, v, g)
<1> SUFFICES ASSUME v.pc = "done", ~v.faulty
             PROVE  DoneOk(t, v, g)
  BY DEF DoneOk
<1>1. /\ f.lines \in Seq(LineSet) /\ g.lines \in Seq(LineSet)
      /\ f.synced \in Nat /\ v.count \in Nat /\ v.start \in Nat
      /\ Len(g.lines) \in Nat /\ DOMAIN f.lines = 1..Len(f.lines)
  BY FileFacts, SeqFacts DEF WriterSet
<1>2. /\ Places(t, f.lines) = v.start..v.count
      /\ v.count \in Places(t, f.lines)
      /\ f.lines[v.count].type = "turn_end"
      /\ v.count <= f.synced
  BY DEF DoneOk
<1>3. f.synced <= Len(g.lines) /\ g.synced = f.synced
  BY DEF Shortened
<1>4. v.count <= Len(g.lines)
  BY <1>1, <1>2, <1>3
<1>5. \A n \in v.start..v.count : n <= Len(g.lines)
  BY <1>1, <1>4
<1>6. Places(t, g.lines) = {n \in Places(t, f.lines) : n <= Len(g.lines)}
  BY ShortPlaces
<1>7. Places(t, g.lines) = Places(t, f.lines)
  BY <1>2, <1>5, <1>6
<1>8. v.count \in 1..Len(g.lines)
  <2>1. v.count \in 1..Len(f.lines)
    BY <1>1, <1>2 DEF Places
  <2> QED
    BY <1>1, <1>4, <2>1
<1>9. g.lines[v.count] = f.lines[v.count]
  BY <1>8 DEF Shortened, Continues
<1> QED
  BY <1>2, <1>3, <1>7, <1>9 DEF DoneOk

\* The contexts that are left.
LEMMA ShortLines ==
  ASSUME NEW f \in FileSet, NEW g \in FileSet, Shortened(f, g), NEW writers, NEW after,
         LinesOk(f.lines, writers),
         \A u \in Turn : after[u].request = writers[u].request
  PROVE  LinesOk(g.lines, after)
<1>1. /\ f.lines \in Seq(LineSet) /\ g.lines \in Seq(LineSet)
      /\ Continues(f.lines, g.lines)
  BY FileFacts DEF Shortened
<1>2. Ascending(g.lines)
  BY <1>1, AscendingPrefix DEF LinesOk
<1>3. ASSUME NEW m \in DOMAIN g.lines, g.lines[m].type = "context"
      PROVE  ContextOk(g.lines, m, after[g.lines[m].turn].request)
  <2>1. /\ Len(f.lines) \in Nat /\ DOMAIN f.lines = 1..Len(f.lines)
        /\ Len(g.lines) \in Nat /\ DOMAIN g.lines = 1..Len(g.lines)
        /\ Len(g.lines) <= Len(f.lines)
    BY <1>1, SeqFacts DEF Continues
  <2>2. m \in DOMAIN f.lines /\ f.lines[m] = g.lines[m] /\ m - 1 \in 0..Len(g.lines)
    BY <1>1, <2>1 DEF Continues
  <2>3. f.lines[m].turn \in Turn
    BY <1>1, <1>3, <2>2, SeqNumbers, LineFacts
  <2>4. ContextOk(f.lines, m, writers[f.lines[m].turn].request)
    BY <1>3, <2>2 DEF LinesOk
  <2>5. SubSeq(f.lines, 1, m - 1) = SubSeq(g.lines, 1, m - 1)
    BY <1>1, <2>2, SamePrefix
  <2> QED
    BY <2>2, <2>3, <2>4, <2>5 DEF ContextOk
<1> QED
  BY <1>2, <1>3 DEF LinesOk

\* What a crash does to one file.
LEMMA CrashFile ==
  ASSUME Inv, NEW g \in Segment, NEW n \in files[g].synced..Len(files[g].lines),
         NEW tail \in Tails,
         files[g].exists \/ (n = Len(files[g].lines) /\ tail = files[g].tail)
  PROVE  /\ [files[g] EXCEPT !.lines = SubSeq(@, 1, n), !.tail = tail] \in FileSet
         /\ Shortened(files[g], [files[g] EXCEPT !.lines = SubSeq(@, 1, n), !.tail = tail])
<1> DEFINE f == files[g]
           lines == SubSeq(f.lines, 1, n)
           new == [f EXCEPT !.lines = lines, !.tail = tail]
<1>1. f \in FileSet
  BY OfThread
<1>2. /\ f.lines \in Seq(LineSet) /\ f.synced \in Nat
      /\ f = [exists |-> f.exists, lines |-> f.lines, tail |-> f.tail,
              mtime |-> f.mtime, synced |-> f.synced]
  BY <1>1, FileFacts
<1>3. Len(f.lines) \in Nat /\ n \in 0..Len(f.lines) /\ f.synced <= n
  BY <1>2, SeqFacts
<1>4. lines \in Seq(LineSet) /\ Len(lines) = n /\ \A i \in 1..n : lines[i] = f.lines[i]
  BY <1>2, <1>3, PrefixFacts
<1>5. ~f.exists => lines = f.lines /\ tail = f.tail
  BY <1>2, WholePrefix
<1>6. /\ new \in FileSet /\ new.exists = f.exists /\ new.mtime = f.mtime
      /\ new.synced = f.synced /\ new.lines = lines /\ new.tail = tail
  <2> HIDE DEF f, lines
  <2>1. new \in FileSet
    BY <1>1, <1>4 DEF FileSet
  <2> QED
    BY <1>1, <2>1 DEF FileSet
<1>7. Continues(f.lines, lines)
  BY <1>3, <1>4 DEF Continues
<1>8. Shortened(f, new)
  <2> HIDE DEF new, f, lines
  <2>1. new = [exists |-> new.exists, lines |-> new.lines, tail |-> new.tail,
               mtime |-> new.mtime, synced |-> new.synced]
    BY <1>6, FileFacts
  <2>2. ~f.exists => new = f
    BY <1>2, <1>5, <1>6, <2>1
  <2> QED
    BY <1>3, <1>4, <1>6, <1>7, <2>2 DEF Shortened
<1> QED
  BY <1>6, <1>8

\* A file that the crash leaves alone.
LEMMA SameShortened ==
  ASSUME NEW f \in FileSet, NEW now, FileOk(f, now)
  PROVE  Shortened(f, f)
<1>1. f.lines \in Seq(LineSet) /\ Len(f.lines) \in Nat
  BY FileFacts, SeqFacts
<1> QED
  BY <1>1 DEF Shortened, Continues, FileOk

\* The process stops.
LEMMA CrashStep ==
  ASSUME Inv, Crash
  PROVE  Inv'
<1>1. /\ troubles < MaxTroubles /\ troubles' = troubles + 1 /\ epoch' = epoch + 1
      /\ index' \in {index, NoIndex} /\ cache' = None /\ lock' = NoTurn
      /\ w' = [t \in Turn |-> IF w[t].pc \in Ended \cup {"idle"} THEN w[t]
                              ELSE Over(w[t], "lost")]
      /\ load' = [t \in Turn |-> NoLoad]
      /\ haunted' = haunted
  BY DEF Crash, Trouble
<1>2. /\ files \in [Segment -> FileSet] /\ index \in IndexSet
      /\ epoch \in Nat /\ epoch > 0 /\ troubles \in Nat /\ troubles <= MaxTroubles
      /\ haunted \in BOOLEAN
      /\ \A g \in Segment : FileOk(files[g], epoch)
  BY OfThread
<1>3. /\ files' \in [Segment -> FileSet]
      /\ \A h \in Segment : Shortened(files[h], files'[h])
  <2>0. PICK g \in Segment, tail \in Tails :
       \E n \in files[g].synced..Len(files[g].lines) :
          LET f == files[g]
              torn == IF n < Len(f.lines) THEN TailsOf(f.lines[n + 1].type)
                      ELSE IF f.tail = "none" THEN UNION {Writing(t, g) : t \in Turn}
                      ELSE {}
          IN /\ tail \in torn \/ (n = Len(f.lines) /\ tail = f.tail)
             /\ files' = [files EXCEPT ![g].lines = SubSeq(@, 1, n), ![g].tail = tail]
    BY Zenon DEF Crash
  <2>1. PICK n \in files[g].synced..Len(files[g].lines) :
          LET f == files[g]
              torn == IF n < Len(f.lines) THEN TailsOf(f.lines[n + 1].type)
                      ELSE IF f.tail = "none" THEN UNION {Writing(t, g) : t \in Turn}
                      ELSE {}
          IN /\ tail \in torn \/ (n = Len(f.lines) /\ tail = f.tail)
             /\ files' = [files EXCEPT ![g].lines = SubSeq(@, 1, n), ![g].tail = tail]
    BY <2>0, Zenon
  <2> DEFINE new == [files[g] EXCEPT !.lines = SubSeq(@, 1, n), !.tail = tail]
  <2>2. files' = [files EXCEPT ![g] = new]
    <3>1. files' = [files EXCEPT ![g].lines = SubSeq(@, 1, n), ![g].tail = tail]
      BY <2>1
    <3> QED
      BY <1>2, <3>1
  <2>3. files[g].exists \/ (n = Len(files[g].lines) /\ tail = files[g].tail)
    <3> SUFFICES ASSUME ~files[g].exists
                 PROVE  n = Len(files[g].lines) /\ tail = files[g].tail
      OBVIOUS
    <3>1. files[g] = NoFile
      BY <1>2 DEF FileOk
    <3>2. Len(files[g].lines) = 0 /\ files[g].synced = 0 /\ files[g].tail = "none"
      BY <3>1 DEF NoFile
    <3>3. n = 0 /\ ~(n < Len(files[g].lines))
      BY <3>2
    <3>4. UNION {Writing(t, g) : t \in Turn} = {}
      BY DEF Writing
    <3> QED
      BY <2>1, <3>2, <3>3, <3>4
  <2>4. new \in FileSet /\ Shortened(files[g], new)
    BY <2>3, CrashFile
  <2> HIDE DEF new
  <2>5. \A h \in Segment : Shortened(files[h], files[h])
    BY <1>2, SameShortened
  <2> QED
    BY <1>2, <2>2, <2>4, <2>5
<1>4. \A h \in Segment : files[h] \in FileSet /\ files'[h] \in FileSet
  BY <1>2, <1>3
<1>5. 0 \in Segment /\ "lost" \in Ended /\ "lost" # "done"
  BY RolloutAssumption DEF Segment, Ended
<1>6. troubles + 1 \in Nat /\ troubles + 1 <= MaxTroubles /\ epoch + 1 \in Nat /\ epoch + 1 > 0
  BY <1>1, <1>2, RolloutAssumption
<1>7. None \in States /\ None.seg = 0
  BY <1>5, EmptyFacts DEF None
<1>8. NoIndex \in IndexSet /\ NoIndex.state = None
  BY <1>7, EmptyFacts, <1>5 DEF NoIndex, IndexSet, States, StampSet, None, EmptyState
<1>9. index' \in IndexSet
  BY <1>1, <1>2, <1>8
<1>10. ASSUME NEW t \in Turn
       PROVE  /\ w'[t] \in WriterSet /\ w'[t].request = w[t].request
              /\ w'[t].pc \in Ended \cup {"idle"}
              /\ w'[t].pc = "idle" => w'[t] = w[t]
              /\ w'[t].seg \in Segment
              /\ BufferOk(t, w'[t], troubles + 1)
              /\ ~haunted => DoneOk(t, w'[t], files[w'[t].seg])
  <2>1. CASE w[t].pc \in Ended \cup {"idle"}
    <3>1. w'[t] = w[t]
      BY <1>1, <2>1
    <3>2. w[t].buf \in Seq(LineSet) /\ Len(w[t].buf) \in Nat
      BY OfTurn, SeqFacts DEF WriterSet
    <3>3. BufferOk(t, w[t], troubles + 1)
      BY <1>2, <3>2, OfTurn DEF BufferOk
    <3> QED
      BY <2>1, <3>1, <3>3, OfTurn
  <2>2. CASE w[t].pc \notin Ended \cup {"idle"}
    <3> DEFINE v == Over(w[t], "lost")
    <3>1. w'[t] = v
      BY <1>1, <2>2
    <3>2. v \in WriterSet /\ v.request = w[t].request /\ v.pc = "lost" /\ v.seg = w[t].seg
      <4>1. w[t] \in WriterSet
        BY OfTurn, Zenon
      <4> QED
        BY <1>5, <4>1, OverFacts, Zenon
    <3>3. BufferOk(t, v, troubles + 1) /\ DoneOk(t, v, files[v.seg])
      BY <1>5, <1>6, OverOk
    <3> HIDE DEF v
    <3> QED
      BY <1>5, <3>1, <3>2, <3>3, OfTurn
  <2> QED
    BY <2>1, <2>2
<1>11. ASSUME NEW t \in Turn PROVE load'[t] = NoLoad /\ lock' # t
  <2>1. load'[t] = NoLoad
    BY <1>1
  <2>2. NoTurn # t
    BY RolloutAssumption DEF Turn, NoTurn
  <2> QED
    BY <1>1, <2>1, <2>2
<1>12. Typed'
  <2>1. w' \in [Turn -> WriterSet]
    BY <1>1, <1>10
  <2>2. load' \in [Turn -> LoadSet]
    BY <1>1, NoLoadFacts
  <2>3. /\ epoch' \in Nat /\ epoch' > 0 /\ troubles' \in 0..MaxTroubles
        /\ epoch' <= troubles' + 1
    <3>1. epoch <= troubles + 1
      BY DEF Inv, Typed
    <3> QED
      BY <1>1, <1>2, <1>6, <3>1, RolloutAssumption
  <2>4. /\ index' \in [exists : BOOLEAN, base : StampSet, state : States]
        /\ cache' \in States /\ lock' \in Turn \cup {NoTurn} /\ haunted' \in BOOLEAN
    BY <1>1, <1>2, <1>7, <1>9 DEF IndexSet
  <2> QED
    BY <1>3, <2>1, <2>2, <2>3, <2>4 DEF Typed
<1>13. \A g \in Segment : FileOk(files'[g], epoch')
  <2> SUFFICES ASSUME NEW g \in Segment PROVE FileOk(files'[g], epoch + 1)
    BY <1>1
  <2> QED
    BY <1>2, <1>3, <1>4, ShortFile
<1>14. Sound'
  <2>1. ASSUME NEW t \in Turn
        PROVE  /\ LockOk(t, w'[t], load'[t], lock')
               /\ ReadOk(load'[t], files'[load'[t].seg])
               /\ BareOk(w'[t])
               /\ OpenOk(w'[t], files'[w'[t].seg])
               /\ BufferOk(t, w'[t], troubles')
    <3>1. w'[t].pc \notin Holding
      BY <1>10 DEF Ended, Holding, Begun
    <3>2. LockOk(t, w'[t], load'[t], lock')
      BY <1>11, <3>1, NoLoadFacts DEF LockOk, Holding
    <3>3. ReadOk(load'[t], files'[load'[t].seg])
      BY <1>11, NoLoadFacts DEF ReadOk
    <3>4. BareOk(w'[t]) /\ OpenOk(w'[t], files'[w'[t].seg])
      BY <3>1 DEF BareOk, OpenOk, Holding, Begun
    <3> QED
      BY <1>1, <1>10, <3>2, <3>3, <3>4
  <2>2. ASSUME NEW t \in Turn, NEW g \in Segment PROVE FreshOk(t, w'[t], files'[g])
    <3> SUFFICES ASSUME w'[t].pc \in {"idle", "loading"}
                 PROVE  Places(t, files'[g].lines) = {}
      BY DEF FreshOk
    <3>1. w'[t] = w[t] /\ w[t].pc = "idle"
      BY <1>10 DEF Ended
    <3>2. Places(t, files[g].lines) = {}
      BY <3>1 DEF Inv, Sound, FreshOk
    <3>3. Places(t, files'[g].lines) = {n \in Places(t, files[g].lines) : n <= Len(files'[g].lines)}
      BY <1>3, <1>4, ShortPlaces
    <3> QED
      BY <3>2, <3>3
  <2> QED
    BY <1>13, <2>1, <2>2 DEF Sound
<1>15. ASSUME ~haunted' PROVE Truthful'
  <2>1. ~haunted /\ Truthful
    BY <1>1, <1>15 DEF Inv
  <2>2. Describes(None, files'[0], epoch')
    BY <1>1, <1>4, <1>5, <1>6, <1>13, EmptyDescribes DEF None
  <2>3. Describes(cache', files'[cache'.seg], epoch')
    BY <1>1, <1>7, <2>2
  <2>4. Describes(index'.state, files'[index'.state.seg], epoch')
    <3>1. CASE index' = NoIndex
      BY <1>7, <1>8, <2>2, <3>1
    <3>2. CASE index' = index
      <4>1. index.state \in States /\ index.state.seg \in Segment
        BY <1>2 DEF IndexSet, States
      <4>2. Describes(index.state, files[index.state.seg], epoch)
        BY <2>1 DEF Truthful
      <4>3. Describes(index.state, files'[index.state.seg], epoch + 1)
        BY <1>2, <1>3, <1>4, <4>1, <4>2, ShortDescribes
      <4> QED
        BY <1>1, <3>2, <4>3
    <3> QED
      BY <1>1, <3>1, <3>2
  <2>5. ASSUME NEW t \in Turn
        PROVE  /\ TaskOk(w'[t], load'[t], files'[load'[t].seg])
               /\ WritingOk(t, w'[t], files'[w'[t].seg])
               /\ DoneOk(t, w'[t], files'[w'[t].seg])
    <3>1. TaskOk(w'[t], load'[t], files'[load'[t].seg])
      BY <1>11, NoLoadFacts DEF TaskOk
    <3>2. WritingOk(t, w'[t], files'[w'[t].seg])
      BY <1>10 DEF WritingOk, Ended, Begun
    <3>3. DoneOk(t, w'[t], files'[w'[t].seg])
      BY <1>3, <1>4, <1>10, <2>1, ShortDone
    <3> QED
      BY <3>1, <3>2, <3>3
  <2>6. ASSUME NEW g \in Segment PROVE LinesOk(files'[g].lines, w')
    <3>1. LinesOk(files[g].lines, w)
      BY <2>1 DEF Truthful
    <3>2. \A u \in Turn : w'[u].request = w[u].request
      BY <1>10
    <3> QED
      BY <1>3, <1>4, <3>1, <3>2, ShortLines
  <2> QED
    BY <2>3, <2>4, <2>5, <2>6 DEF Truthful
<1> QED
  BY <1>12, <1>14, <1>15 DEF Inv

-----------------------------------------------------------------------------
(* The theorems.                                                             *)

\* A thread nobody has used: no file, no writer, no task.
LEMMA InitInv == Init => Inv
<1> SUFFICES ASSUME Init PROVE Inv
  OBVIOUS
<1>1. /\ files = [g \in Segment |-> NoFile] /\ index = NoIndex /\ cache = None
      /\ lock = NoTurn /\ w = [t \in Turn |-> Idle] /\ load = [t \in Turn |-> NoLoad]
      /\ epoch = 1 /\ troubles = 0 /\ haunted = FALSE
  BY DEF Init
<1>2. 0 \in Segment
  BY RolloutAssumption DEF Segment
<1>3. NoFile \in FileSet /\ NoFile.lines = <<>> /\ FileOk(NoFile, 1)
  <2>1. <<>> \in Seq(LineSet) /\ "none" \in Tails
    BY DEF Tails
  <2> QED
    <3>1. NoFile \in FileSet
      BY <2>1 DEF NoFile, FileSet
    <3>2. NoFile.lines = <<>> /\ NoFile.synced = 0 /\ NoFile.mtime = 0 /\ ~NoFile.exists
      BY DEF NoFile
    <3>3. Len(NoFile.lines) = 0
      BY <3>2
    <3> QED
      BY <3>1, <3>2, <3>3 DEF FileOk
<1>4. None \in States /\ None.seg = 0 /\ Describes(None, NoFile, 1)
  <2>1. None = EmptyState(0)
    BY DEF None
  <2> QED
    BY <1>2, <1>3, <2>1, EmptyFacts, EmptyDescribes
<1>5. NoIndex \in IndexSet /\ NoIndex.state = None
  BY <1>2, <1>4, EmptyFacts DEF NoIndex, IndexSet, States, StampSet, None, EmptyState
<1>6. Idle \in WriterSet /\ Idle.pc = "idle" /\ Idle.buf = <<>> /\ Idle.cut = FALSE
  <2>1. NoRefs \in RefSet /\ NoItems \in ItemSet
    BY DEF NoRefs, RefSet, NoItems, ItemSet
  <2>2. /\ <<>> \in Seq(Item) /\ <<>> \in Seq(Nat) /\ <<>> \in Seq(LineSet)
    OBVIOUS
  <2> QED
    BY <1>2, <2>1, <2>2 DEF Idle, WriterSet
<1>7. NoLoad \in LoadSet /\ NoLoad.at = "off" /\ NoLoad.seg = 0
  BY NoLoadFacts DEF NoLoad
<1>8. /\ \A g \in Segment : files[g] = NoFile
      /\ \A t \in Turn : w[t] = Idle /\ load[t] = NoLoad /\ lock # t
  BY <1>1, RolloutAssumption DEF Turn, NoTurn
<1>9. Typed
  <2>1. files \in [Segment -> FileSet] /\ w \in [Turn -> WriterSet] /\ load \in [Turn -> LoadSet]
    BY <1>1, <1>3, <1>6, <1>7
  <2>2. index \in [exists : BOOLEAN, base : StampSet, state : States] /\ cache \in States
    BY <1>1, <1>4, <1>5 DEF IndexSet
  <2>3. /\ epoch \in Nat /\ epoch > 0 /\ troubles \in 0..MaxTroubles
        /\ epoch <= troubles + 1
    <3>1. 0 \in 0..MaxTroubles
      BY RolloutAssumption
    <3> QED
      BY <1>1, <3>1
  <2>4. haunted \in BOOLEAN /\ lock \in Turn \cup {NoTurn}
    BY <1>1
  <2> QED
    BY <2>1, <2>2, <2>3, <2>4 DEF Typed
<1>10. Idle.pc \notin Holding /\ Idle.pc \notin Begun
  BY <1>6 DEF Holding, Begun
<1>11. Sound
  <2>1. \A g \in Segment : FileOk(files[g], epoch)
    BY <1>1, <1>3, <1>8
  <2>2. ASSUME NEW t \in Turn
        PROVE  /\ LockOk(t, w[t], load[t], lock) /\ ReadOk(load[t], files[load[t].seg])
               /\ BareOk(w[t]) /\ OpenOk(w[t], files[w[t].seg]) /\ BufferOk(t, w[t], troubles)
    <3>1. LockOk(t, w[t], load[t], lock)
      BY <1>6, <1>7, <1>8, <1>10 DEF LockOk
    <3>2. ReadOk(load[t], files[load[t].seg])
      BY <1>7, <1>8 DEF ReadOk
    <3>3. BareOk(w[t]) /\ OpenOk(w[t], files[w[t].seg])
      BY <1>6, <1>8 DEF BareOk, OpenOk
    <3>4. BufferOk(t, w[t], troubles)
      BY <1>1, <1>6, <1>8 DEF BufferOk
    <3> QED
      BY <3>1, <3>2, <3>3, <3>4
  <2>3. \A t \in Turn, g \in Segment : FreshOk(t, w[t], files[g])
    BY <1>3, <1>8 DEF FreshOk, Places
  <2> QED
    BY <2>1, <2>2, <2>3 DEF Sound
<1>12. Truthful
  <2>1. /\ Describes(cache, files[cache.seg], epoch)
        /\ Describes(index.state, files[index.state.seg], epoch)
    BY <1>1, <1>2, <1>4, <1>5, <1>8
  <2>2. ASSUME NEW t \in Turn
        PROVE  /\ TaskOk(w[t], load[t], files[load[t].seg])
               /\ WritingOk(t, w[t], files[w[t].seg]) /\ DoneOk(t, w[t], files[w[t].seg])
    BY <1>6, <1>7, <1>8, <1>10 DEF TaskOk, WritingOk, DoneOk
  <2>3. \A g \in Segment : LinesOk(files[g].lines, w)
    BY <1>3, <1>8 DEF LinesOk, Ascending
  <2> QED
    BY <2>1, <2>2, <2>3 DEF Truthful
<1> QED
  BY <1>9, <1>11, <1>12 DEF Inv

\* Every step keeps the invariant.
LEMMA NextInv == Inv /\ [Next]_vars => Inv'
<1> SUFFICES ASSUME Inv, [Next]_vars PROVE Inv'
  OBVIOUS
<1>1. CASE \E t \in Turn, window \in Window, request \in Requests : Begin(t, window, request)
  BY <1>1, BeginStep
<1>2. CASE \E t \in Turn : Load(t)
  <2>1. PICK t \in Turn : Load(t)
    BY <1>2
  <2> QED
    BY <2>1, ResolveKnownStep, ReadCandidateStep, StartSegmentStep, LoadFailsStep,
       RepairTailStep, StatCandidateStep DEF Load
<1>3. CASE \E t \in Turn : Write(t)
  <2>1. PICK t \in Turn : Write(t)
    BY <1>3
  <2> QED
    BY <2>1, WriteMetaStep, WriteWindowStep, WriteTurnStep, WriteRequestItemStep,
       WriteContextStep, WriteResponseItemStep, WriteEndStep DEF Write
<1>4. CASE \E t \in Turn, response \in Responses : Answer(t, response)
  BY <1>4, AnswerStep
<1>5. CASE \E t \in Turn : Sync(t) \/ Publish(t) \/ Discard(t) \/ Drop(t)
  BY <1>5, SyncStep, PublishStep, DiscardStep, DropStep
<1>6. CASE Crash \/ Evict
  BY <1>6, CrashStep, EvictStep
<1>7. CASE UNCHANGED vars
  BY <1>7 DEF vars, Inv, Typed, Sound, Truthful
<1> QED
  BY <1>1, <1>2, <1>3, <1>4, <1>5, <1>6, <1>7 DEF Next

\* Whatever turns run one after the other, fail, are dropped or are cut short by a
\* crash: until a dropped request's task meets a file it did not read, what writers,
\* tasks, the cache and the index know is what the files hold.
THEOREM RolloutInvariant == Spec => []Inv
<1>1. Init => Inv
  BY InitInv
<1>2. Inv /\ [Next]_vars => Inv'
  BY NextInv
<1> QED
  BY <1>1, <1>2, PTL DEF Spec

\* Files, cache, index and writers have their types; no file is newer than this run
\* of the process, no more lines wait in a BufWriter than writes have failed.
THEOREM TypeCorrect == Spec => []TypeOK
<1>1. Inv => TypeOK
  <2> SUFFICES ASSUME Inv PROVE TypeOK
    OBVIOUS
  <2>1. ASSUME NEW g \in Segment
        PROVE  /\ files[g].exists \in BOOLEAN
               /\ \A n \in DOMAIN files[g].lines : files[g].lines[n] \in Lines
               /\ files[g].tail \in Tails
               /\ files[g].mtime \in 0..epoch
               /\ files[g].synced \in 0..Len(files[g].lines)
    <3> DEFINE f == files[g]
    <3>1. f \in FileSet /\ FileOk(f, epoch) /\ epoch \in Nat
      BY OfThread
    <3> HIDE DEF f
    <3>2. /\ f.exists \in BOOLEAN /\ f.lines \in Seq(LineSet) /\ f.tail \in Tails
          /\ f.mtime \in Nat /\ f.synced \in Nat
      BY <3>1, FileFacts
    <3>3. \A n \in DOMAIN f.lines : f.lines[n] \in Lines
      <4>1. \A n \in DOMAIN f.lines : f.lines[n] \in LineSet
        BY <3>2, SeqFacts
      <4> QED
        BY <4>1 DEF LineSet
    <3>4. f.mtime <= epoch /\ f.synced <= Len(f.lines) /\ Len(f.lines) \in Nat
      BY <3>1, <3>2, SeqFacts DEF FileOk
    <3>5. f.mtime \in 0..epoch /\ f.synced \in 0..Len(f.lines)
      BY <3>1, <3>2, <3>4
    <3> QED
      BY <3>2, <3>3, <3>5 DEF f
  <2>2. ASSUME NEW t \in Turn
        PROVE  /\ w[t].seg \in Segment /\ w[t].refs \in Seq(Nat) /\ w[t].cut \in BOOLEAN
               /\ Len(w[t].buf) <= troubles
    BY OfTurn DEF WriterSet, BufferOk
  <2>3. /\ cache \in States /\ index.state \in States /\ lock \in Turn \cup {NoTurn}
        /\ troubles \in 0..MaxTroubles
    BY DEF Inv, Typed
  <2>4. epoch \in 1..(MaxTroubles + 1)
    BY RolloutAssumption DEF Inv, Typed
  <2> QED
    BY <2>1, <2>2, <2>3, <2>4 DEF TypeOK
<1> QED
  BY <1>1, RolloutInvariant, PTL

\* The index row of a turn that ended well names exactly its lines, and goes on
\* naming them: later turns, torn tails, repairs and crashes do not move them.
THEOREM SlicesAreTurns == Spec => []SliceIsTurn
<1>1. Inv => SliceIsTurn
  <2> SUFFICES ASSUME Inv, NEW t \in Turn, At(t, "done"), ~w[t].faulty, ~haunted
               PROVE  /\ PlacesOf(t) = w[t].start..w[t].count
                      /\ w[t].count \in PlacesOf(t)
                      /\ files[w[t].seg].lines[w[t].count].type = "turn_end"
    BY DEF SliceIsTurn
  <2>1. PlacesOf(t) = Places(t, files[w[t].seg].lines)
    BY DEF PlacesOf, Places
  <2>2. DoneOk(t, w[t], files[w[t].seg])
    BY OfTurn
  <2> QED
    BY <2>1, <2>2 DEF DoneOk, At
<1> QED
  BY <1>1, RolloutInvariant, PTL

\* A cache entry or an index that matches the file's stamp says what reading the
\* whole file would say.
THEOREM KnownIsAlwaysTrue == Spec => []KnownIsTrue
<1>1. ASSUME Inv, ~haunted, NEW state \in States,
             Describes(state, files[state.seg], epoch),
             files[state.seg].exists, state.stamp = StampOf(state.seg)
      PROVE  Trusted(state)
  <2> DEFINE lines == files[state.seg].lines
             read == FromLines(state.seg, state.stamp, lines)
  <2>1. Reads(state, files[state.seg])
    BY <1>1, HitReads
  <2>2. /\ state.count = Len(lines) /\ state.seq = Learned(lines).seq
        /\ state.window = Learned(lines).window /\ state.events = Learned(lines).events
        /\ Covers(state.items, lines)
    BY <2>1 DEF Reads, Agrees, Knows
  <2>3. /\ read.count = Len(lines) /\ read.seq = Learned(lines).seq
        /\ read.window = Learned(lines).window /\ read.events = Learned(lines).events
        /\ read.items = Learned(lines).items
    BY DEF FromLines
  <2> HIDE DEF lines, read
  <2>4. \A field \in {"count", "seq", "window", "events"} : state[field] = read[field]
    BY <2>2, <2>3
  <2>5. \A k \in Key : read.items[k] > 0 => state.items[k] > 0
    BY <2>2, <2>3 DEF Covers
  <2> QED
    BY <2>4, <2>5 DEF Trusted, lines, read
<1>2. Inv => KnownIsTrue
  <2> SUFFICES ASSUME Inv, ~haunted
               PROVE  /\ CacheHit => Trusted(cache)
                      /\ IndexHit => Trusted(index.state)
    BY DEF KnownIsTrue
  <2>1. CacheHit => Trusted(cache)
    BY <1>1, OfThread DEF CacheHit
  <2>2. IndexHit => Trusted(index.state)
    <3>1. index.state \in States /\ Describes(index.state, files[index.state.seg], epoch)
      BY OfThread DEF IndexSet
    <3>2. IndexHit => /\ files[index.state.seg].exists
                      /\ index.state.stamp = StampOf(index.state.seg)
      BY DEF IndexHit
    <3> QED
      BY <1>1, <3>1, <3>2, Zenon
  <2> QED
    BY <2>1, <2>2
<1> QED
  BY <1>2, RolloutInvariant, PTL

\* The references of a stored context are the request of its turn, each to one line
\* before it, whatever the cache, a stable id or an earlier occurrence led to.
THEOREM ContextsAreRequests == Spec => []ContextIsRequest
<1>1. ASSUME Inv, ~haunted, NEW g \in Segment, NEW m \in DOMAIN files[g].lines,
             files[g].lines[m].type = "context"
      PROVE  LET lines == files[g].lines
                 request == w[lines[m].turn].request
                 refs == lines[m].body
             IN /\ Len(refs) = Len(request)
                /\ \A p \in DOMAIN refs : \E n \in 1..(m - 1) :
                      /\ {k \in DOMAIN lines : lines[k].type = "content" /\ lines[k].seq = refs[p]}
                            = {n}
                      /\ Stands(lines[n], request[p])
                /\ Apart(request, refs)
  <2> DEFINE lines == files[g].lines
             request == w[lines[m].turn].request
             refs == lines[m].body
             front == SubSeq(lines, 1, m - 1)
             Here(seq) == {k \in DOMAIN lines : lines[k].type = "content" /\ lines[k].seq = seq}
  <2>1. LinesOk(lines, w) /\ lines \in Seq(LineSet)
    BY <1>1, OfThread, FileFacts DEF Inv, Truthful
  <2>2. Ascending(lines) /\ Fits(front, refs, request)
    BY <1>1, <2>1 DEF LinesOk, ContextOk
  <2>3. /\ Len(lines) \in Nat /\ DOMAIN lines = 1..Len(lines) /\ m \in 1..Len(lines)
    BY <1>1, <2>1, SeqFacts
  <2>4. m - 1 \in 0..Len(lines)
    <3> HIDE DEF lines
    <3> QED
      BY <2>3
  <2>5. DOMAIN front = 1..(m - 1) /\ \A n \in 1..(m - 1) : front[n] = lines[n]
    <3> HIDE DEF lines
    <3> QED
      BY <2>1, <2>4, PrefixFacts
  <2>6. ASSUME NEW p \in DOMAIN refs
        PROVE  \E n \in 1..(m - 1) : Here(refs[p]) = {n} /\ Stands(lines[n], request[p])
    <3>1. Led(front, refs[p], request[p])
      BY <2>2 DEF Fits
    <3> HIDE DEF lines, refs, request
    <3>2. PICK n \in 1..(m - 1) : lines[n].seq = refs[p] /\ Stands(lines[n], request[p])
      BY <2>5, <3>1 DEF Led
    <3>3. n \in DOMAIN lines
      BY <2>3, <2>4
    <3>4. lines[n].type = "content" /\ lines[n] \in LineSet
      BY <2>1, <3>2, <3>3, SeqNumbers DEF Stands
    <3>5. lines[n].seq > 0
      BY <3>4, LineFacts
    <3>6. \A k \in Here(refs[p]) : k = n
      BY <2>1, <2>2, <3>2, <3>3, <3>5, OneLine
    <3>7. Here(refs[p]) = {n}
      BY <3>2, <3>3, <3>4, <3>6
    <3> QED
      BY <3>2, <3>7
  <2>7. Len(refs) = Len(request) /\ Apart(request, refs)
    BY <2>2 DEF Fits
  <2> QED
    BY <2>6, <2>7
<1>2. Inv => ContextIsRequest
  <2> SUFFICES ASSUME Inv, ~haunted, NEW g \in Segment, NEW m \in DOMAIN files[g].lines,
                      files[g].lines[m].type = "context"
               PROVE
      LET lines == files[g].lines
          Stored(seq) == {n \in DOMAIN lines : /\ lines[n].type = "content"
                                               /\ lines[n].seq = seq}
          Matches(i, n) == \E j \in Item :
                              /\ Holds(ContentOf[j], lines[n])
                              /\ \/ ContentOf[j] = ContentOf[i]
                                 \/ KeyOf[i] # NoKey /\ KeyOf[j] = KeyOf[i]
          request == w[lines[m].turn].request
          refs == lines[m].body
      IN /\ Len(refs) = Len(request)
         /\ \A p \in DOMAIN refs : \E n \in 1..(m - 1) :
               Stored(refs[p]) = {n} /\ Matches(request[p], n)
         /\ \A p, q \in DOMAIN refs :
               p # q /\ KeyOf[request[p]] = NoKey /\ KeyOf[request[q]] = NoKey
                   => refs[p] # refs[q]
    BY Zenon DEF ContextIsRequest
  <2> DEFINE lines == files[g].lines
             request == w[lines[m].turn].request
             refs == lines[m].body
             Here(seq) == {k \in DOMAIN lines : lines[k].type = "content" /\ lines[k].seq = seq}
             Matches(i, n) == \E j \in Item :
                              /\ Holds(ContentOf[j], lines[n])
                              /\ \/ ContentOf[j] = ContentOf[i]
                                 \/ KeyOf[i] # NoKey /\ KeyOf[j] = KeyOf[i]
  <2>1. /\ Len(refs) = Len(request)
        /\ \A p \in DOMAIN refs : \E n \in 1..(m - 1) :
              Here(refs[p]) = {n} /\ Stands(lines[n], request[p])
        /\ Apart(request, refs)
    BY <1>1, Zenon
  <2>2. ASSUME NEW i, NEW n, Stands(lines[n], i) PROVE Matches(i, n)
    BY <2>2, Zenon DEF Stands, Holds
  <2>3. \A p \in DOMAIN refs : \E n \in 1..(m - 1) :
           Here(refs[p]) = {n} /\ Matches(request[p], n)
    <3> HIDE DEF lines, refs, request, Here, Matches
    <3> QED
      BY <2>1, <2>2
  <2>4. \A p, q \in DOMAIN refs :
               p # q /\ KeyOf[request[p]] = NoKey /\ KeyOf[request[q]] = NoKey
                   => refs[p] # refs[q]
    BY <2>1, Zenon DEF Apart
  <2> QED
    BY <2>1, <2>3, <2>4, Zenon
<1> QED
  BY <1>2, RolloutInvariant, PTL

=============================================================================
