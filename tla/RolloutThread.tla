--------------------------- MODULE RolloutThread ---------------------------
(***************************************************************************)
(* The file of one thread (RolloutStore): turns append JSON lines to it    *)
(* under the thread's lock, a position cache and an index file spare them  *)
(* from reading it again, a torn last line is cut off, and a file with a   *)
(* corrupt line is left alone for a recovered segment.                     *)
(*                                                                         *)
(* A turn is one RolloutWriter.  Its begin resolves the thread on a        *)
(* blocking thread of the runtime: when the request is dropped meanwhile,  *)
(* the lock is given back and the blocking task goes on.                   *)
(*                                                                         *)
(* A line is told apart by its type, number, turn and what it holds; a     *)
(* file's length by its whole lines, its corrupt ones and its torn tail.   *)
(* Usage and error lines, which nothing refers to, are left out.           *)
(* Timestamps change with every start of the process only: within one run  *)
(* the clock of the file system may be too coarse to tell two writes       *)
(* apart.  The content hash and the event counter are carried along and    *)
(* never read, and are left out; so is the removal of the files (Tenancy). *)
(***************************************************************************)
EXTENDS Naturals, Sequences, FiniteSets

CONSTANTS
    MaxTurns,     \* bound: turns, numbered as they take the thread's lock
    Item,         \* what a request or an answer may hold
    Content,      \* ... and what is stored of it
    ContentOf,
    Key, NoKey,   \* stable ids
    KeyOf,        \* the stable id of an item, if it has one
    KeyIn,        \* the id a stored content holds (a tool call), if it does
    Requests,     \* lists of items a request may carry
    Responses,    \* ... and an answer
    Window,       \* windows (id and generation) a request may name
    NoWindow,
    MaxSegments,  \* MAX_RECOVERED_SEGMENTS
    MaxTroubles   \* bound: failed writes, dropped requests and crashes

ASSUME RolloutAssumption ==
    /\ MaxTurns \in Nat
    /\ NoKey \notin Key
    /\ NoWindow \notin Window
    /\ KeyOf \in [Item -> Key \cup {NoKey}]
    /\ KeyIn \in [Content -> Key \cup {NoKey}]
    /\ ContentOf \in [Item -> Content]
    /\ \A i \in Item : KeyIn[ContentOf[i]] \in {NoKey, KeyOf[i]}
    /\ Requests \subseteq Seq(Item)
    /\ Responses \subseteq Seq(Item)
    /\ MaxSegments \in Nat
    /\ MaxTroubles \in Nat

Turn == 1..MaxTurns
NoTurn == 0

VARIABLES
    files,    \* the thread's file (segment 0) and its recovered segments
    index,    \* the .jsonl.index file
    cache,    \* the thread's entry in ThreadIndex
    lock,     \* the turn that holds the thread's lock
    w,        \* each turn's writer
    load,     \* each turn's resolve_thread_source under way
    epoch,    \* starts of the process
    troubles, \* what has gone wrong so far, capped by MaxTroubles
    haunted   \* history: a dropped request's task has met a file it did not read

vars == <<files, index, cache, lock, w, load, epoch, troubles, haunted>>

-----------------------------------------------------------------------------
(* Files.                                                                    *)

Segment == 0..MaxSegments

\* The last line is whole, torn between two characters, or torn inside one: the
\* lines are UTF-8, and contents hold whatever the users wrote.
Tails == {"none", "text", "inside"}

NoFile == [exists |-> FALSE, lines |-> <<>>, tail |-> "none", mtime |-> 0,
           synced |-> 0]

Line(type, seq, t, body) == [type |-> type, seq |-> seq, turn |-> t, body |-> body]

TailsOf(type) == IF type = "content" THEN Tails ELSE Tails \ {"inside"}

\* A line appended to a torn one makes one line of both, which is not JSON, or
\* not even UTF-8.
Merged(tail) == Line(IF tail = "inside" THEN "garbled" ELSE "corrupt", 0, NoTurn, <<>>)

Bad(lines) == {n \in DOMAIN lines : lines[n].type \in {"corrupt", "garbled"}}

\* FileStamp: length and modification time.
Stamp(f) == [lines |-> Len(f.lines), bad |-> Cardinality(Bad(f.lines)),
             tail |-> f.tail, mtime |-> f.mtime]

NoStamp == Stamp(NoFile)

\* metadata_stamp: nothing where there is no file.
StampOf(g) == IF files[g].exists THEN Stamp(files[g]) ELSE NoStamp

\* OpenOptions: created when it is not there, appended to when it is.
Opened(f) == IF f.exists THEN f ELSE [f EXCEPT !.exists = TRUE, !.mtime = epoch]

\* The file when the buffered lines have been written.  cut: part of the first of
\* them has been, and should be there.
Flushed(f, buf, cut) ==
    IF buf = <<>> THEN f
    ELSE LET first == IF cut = (f.tail # "none") THEN buf[1] ELSE Merged(f.tail)
         IN [f EXCEPT !.lines = @ \o <<first>> \o Tail(buf), !.tail = "none",
                      !.mtime = epoch]

\* ... when only n of them have, and part of the next one or nothing of it.
PartlyFlushed(f, buf, cut, n, tail) ==
    LET whole == Flushed(f, SubSeq(buf, 1, n), cut)
        stuck == whole.tail = "inside" /\ ~cut
    IN IF tail = "none" THEN whole
       ELSE [whole EXCEPT !.tail = IF stuck THEN @ ELSE tail, !.mtime = epoch]

\* read_to_string fails on bytes that are not UTF-8.
Unreadable(f) == \/ f.tail = "inside"
                 \/ \E n \in DOMAIN f.lines : f.lines[n].type = "garbled"

\* parse_conversation_contents fails on a line that is not JSON.
Corrupt(f) == ~Unreadable(f) /\ \E n \in DOMAIN f.lines : f.lines[n].type = "corrupt"

-----------------------------------------------------------------------------
(* ThreadState: what is known of the segment in use.                         *)

NoRefs == [x \in Content |-> <<>>]
NoItems == [k \in Key |-> 0]

\* ThreadState::empty.
EmptyState(g) == [seg |-> g, stamp |-> NoStamp, count |-> 0, seq |-> 0,
                  window |-> NoWindow, events |-> NoRefs, items |-> NoItems]

None == EmptyState(0)

Holds(x, line) == line.type = "content" /\ line.body = <<x>>

\* What is known of an empty file.
Nothing == [seq |-> 0, window |-> NoWindow, events |-> NoRefs, items |-> NoItems]

\* One line more.  The references to a content start anew with every window,
\* those to a stable id do not; an id outside the body is not stored.
Learn(known, line) ==
    LET seen == [known EXCEPT !.seq = IF line.seq > @ THEN line.seq ELSE @]
        x == line.body[1]
    IN CASE line.type = "window" ->
                [seen EXCEPT !.window = x, !.events = NoRefs]
         [] line.type = "content" ->
                [seen EXCEPT !.events[x] = Append(@, line.seq),
                             !.items = [k \in Key |-> IF k = KeyIn[x] THEN line.seq ELSE @[k]]]
         [] OTHER -> seen

\* ThreadState::from_events and the numbers parse_conversation_contents counts.
Learned(lines) ==
    LET known[n \in 0..Len(lines)] ==
            IF n = 0 THEN Nothing ELSE Learn(known[n - 1], lines[n])
    IN known[Len(lines)]

FromLines(g, stamp, lines) ==
    LET known == Learned(lines)
    IN [seg |-> g, stamp |-> stamp, count |-> Len(lines), seq |-> known.seq,
        window |-> known.window, events |-> known.events, items |-> known.items]

NoIndex == [exists |-> FALSE, base |-> NoStamp, state |-> None]

\* write_thread_index: nothing for an empty thread, or when the file is no longer
\* the one the state describes, or has no complete tail.
Indexed(state) ==
    IF state.count = 0 \/ StampOf(state.seg) # state.stamp \/ state.stamp.tail # "none"
      THEN index
      ELSE [exists |-> TRUE, base |-> StampOf(0), state |-> state]

-----------------------------------------------------------------------------
(* Writers.                                                                  *)

Idle == [pc |-> "idle", seg |-> 0, window |-> NoWindow, request |-> <<>>,
         refs |-> <<>>, response |-> <<>>, start |-> 1, count |-> 0, seq |-> 0,
         base |-> 0, added |-> 0, events |-> NoRefs, items |-> NoItems,
         buf |-> <<>>, cut |-> FALSE, faulty |-> FALSE]

NoLoad == [at |-> "off", seg |-> 0, seen |-> NoFile]

At(t, where) == w[t].pc = where

Becomes(t, writer) == w' = [w EXCEPT ![t] = writer]

Release(t) == lock' = IF lock = t THEN NoTurn ELSE lock

\* A write fails, a request is dropped, or the process stops.
Trouble == troubles < MaxTroubles /\ troubles' = troubles + 1

Ended == {"done", "dropped", "refused", "unreadable", "lost"}

\* What is left of a writer: where its turn is, and what it was about.
Over(writer, how) ==
    [Idle EXCEPT !.pc = how, !.seg = writer.seg, !.request = writer.request,
                 !.start = writer.start, !.count = writer.count,
                 !.faulty = writer.faulty]

\* begin takes the thread's lock and starts the blocking task.  (One that waits
\* for the lock has no effect yet.)
Begin(t, window, request) ==
    /\ At(t, "idle")
    /\ \A u \in 1..(t - 1) : ~At(u, "idle")
    /\ lock = NoTurn
    /\ lock' = t
    /\ Becomes(t, [Idle EXCEPT !.pc = "loading", !.window = window,
                               !.request = request])
    /\ load' = [load EXCEPT ![t].at = "resolve"]
    /\ UNCHANGED <<files, index, cache, epoch, troubles, haunted>>

\* The blocking task is through.  A request that is still there goes on.
Resolved(t, state) ==
    /\ load' = [load EXCEPT ![t] = NoLoad]
    /\ IF ~At(t, "loading") THEN UNCHANGED w
       ELSE Becomes(t, [w[t] EXCEPT
                !.pc = IF state.count = 0 THEN "meta"
                       ELSE IF state.window # w[t].window THEN "window" ELSE "turn",
                !.seg = state.seg, !.start = state.count + 1, !.count = state.count,
                !.seq = state.seq, !.base = state.stamp.lines,
                !.events = state.events, !.items = state.items])

\* The cache or the index describes the file as it is now.
CacheHit == /\ cache # None
            /\ files[cache.seg].exists
            /\ cache.stamp = StampOf(cache.seg)

IndexHit == /\ index.exists
            /\ files[index.state.seg].exists
            /\ index.state.stamp = StampOf(index.state.seg)
            /\ index.base = StampOf(0)

ResolveKnown(t) ==
    /\ load[t].at = "resolve"
    /\ \/ CacheHit /\ Resolved(t, cache) /\ UNCHANGED cache
       \/ /\ ~CacheHit
          /\ IndexHit
          /\ Resolved(t, index.state)
          /\ cache' = index.state
    /\ UNCHANGED <<files, index, lock, epoch, troubles, haunted>>

\* load_thread_source: the first candidate that is not corrupt.
Candidate == {g \in Segment : /\ ~Corrupt(files[g])
                              /\ \A h \in 0..(g - 1) : Corrupt(files[h])}

\* Mutant of AfterRead: the lines are parsed and the tail is left there.
AfterReadUnrepaired(f) == "stat"

AfterRead(f) == IF f.tail = "none" THEN "stat" ELSE "repair"

\* It reads it; a torn tail has to be cut off first.
ReadCandidate(t) ==
    /\ load[t].at = "resolve"
    /\ ~CacheHit /\ ~IndexHit
    /\ \E g \in Candidate :
          /\ files[g].exists
          /\ ~Unreadable(files[g])
          /\ load' = [load EXCEPT ![t] =
                         [at |-> AfterRead(files[g]), seg |-> g, seen |-> files[g]]]
    /\ UNCHANGED <<files, index, cache, lock, w, epoch, troubles, haunted>>

\* Nothing there yet: the thread starts at that segment.
StartSegment(t) ==
    /\ load[t].at = "resolve"
    /\ ~CacheHit /\ ~IndexHit
    /\ \E g \in Candidate : /\ ~files[g].exists
                            /\ cache' = EmptyState(g)
                            /\ Resolved(t, EmptyState(g))
    /\ UNCHANGED <<files, index, lock, epoch, troubles, haunted>>

\* begin fails: the bytes are not UTF-8, or there is no segment left.
LoadFails(t) ==
    /\ load[t].at = "resolve"
    /\ ~CacheHit /\ ~IndexHit
    /\ \A g \in Candidate : files[g].exists /\ Unreadable(files[g])
    /\ load' = [load EXCEPT ![t] = NoLoad]
    /\ IF ~At(t, "loading") THEN UNCHANGED w
       ELSE Becomes(t, Over(w[t], IF Candidate = {} THEN "refused" ELSE "unreadable"))
    /\ Release(t)
    /\ UNCHANGED <<files, index, cache, epoch, troubles, haunted>>

\* A task whose request is gone works on a file that has changed since.
Haunts(t) == ~At(t, "loading") /\ files[load[t].seg] # load[t].seen

\* The last line break.
ValidLen(f) == Len(f.lines)

\* The lines are still there, and perhaps others after them.
Begins(lines, f) ==
    Len(lines) <= Len(f.lines) /\ SubSeq(f.lines, 1, Len(lines)) = lines

\* set_len to the last line break that was read, and sync_all.  That is a number
\* of bytes: it falls anywhere in a file that has other lines by now, and a file
\* that is shorter is filled up.
RepairTail(t) ==
    /\ load[t].at = "repair"
    /\ LET g == load[t].seg
           read == load[t].seen
       IN \E n \in 0..Len(files[g].lines), tail \in Tails :
            LET cut == [files[g] EXCEPT !.lines = SubSeq(@, 1, n), !.tail = tail,
                                        !.mtime = epoch, !.synced = n]
            IN /\ Begins(read.lines, files[g]) => n = ValidLen(read) /\ tail = "none"
               /\ files' = [files EXCEPT ![g] = cut]
               /\ load' = [load EXCEPT ![t].at = "stat",
                                       ![t].seen = [cut EXCEPT !.lines = read.lines]]
    /\ haunted' = (haunted \/ Haunts(t))
    /\ UNCHANGED <<index, cache, lock, w, epoch, troubles>>

\* The stamp is taken when the contents have been read; cache and index follow.
StatCandidate(t) ==
    /\ load[t].at = "stat"
    /\ LET g == load[t].seg
           state == FromLines(g, StampOf(g), load[t].seen.lines)
       IN /\ cache' = state
          /\ index' = Indexed(state)
          /\ Resolved(t, state)
    /\ haunted' = (haunted \/ Haunts(t))
    /\ UNCHANGED <<files, lock, epoch, troubles>>

-----------------------------------------------------------------------------
(* Writing.  Every line goes through a BufWriter and is flushed at once.  A  *)
(* write that fails may have reached the file in part.  The buffer keeps the *)
(* rest and hands it over with the next line, unless the line was too long   *)
(* for the buffer and went to the file directly: then the rest is lost.      *)

\* Mutant of WriteOk: the line is not flushed.
WriteOkBuffered(t, line, after) ==
    /\ Becomes(t, [after EXCEPT !.buf = Append(@, line), !.count = @ + 1, !.added = @ + 1])
    /\ UNCHANGED <<files, troubles>>

WriteOk(t, line, after) ==
    LET g == w[t].seg
        f == Opened(files[g])
    IN /\ files' = [files EXCEPT ![g] = Flushed(f, Append(w[t].buf, line), w[t].cut)]
       /\ Becomes(t, [after EXCEPT !.buf = <<>>, !.cut = FALSE,
                                   !.count = @ + 1, !.added = @ + 1])
       /\ UNCHANGED troubles

WriteFails(t, line, after) ==
    /\ Trouble
    /\ \E n \in 0..Len(w[t].buf), tail \in Tails, lost \in BOOLEAN :
          LET g == w[t].seg
              f == Opened(files[g])
              all == Append(w[t].buf, line)
              there == PartlyFlushed(f, all, w[t].cut, n, tail)
              kept == IF lost THEN SubSeq(w[t].buf, n + 1, Len(w[t].buf))
                              ELSE SubSeq(all, n + 1, Len(all))
          IN /\ tail \in TailsOf(all[n + 1].type)
             /\ files' = [files EXCEPT ![g] = there]
             /\ Becomes(t, [after EXCEPT
                    !.buf = kept,
                    !.cut = /\ kept # <<>>
                            /\ there.tail # "none"
                            /\ n > 0 \/ f.tail = "none" \/ w[t].cut,
                    !.faulty = TRUE])

\* One line of begin; its failure is begin's.  The number is used up either way.
BeginLine(t, line, next) ==
    LET numbered == [w[t] EXCEPT !.seq = line.seq]
    IN \/ WriteOk(t, line, next)
       \/ WriteFails(t, line, [numbered EXCEPT !.pc = "dropping"])

NextLine(t, type, body) == Line(type, w[t].seq + 1, t, body)

WriteMeta(t) ==
    /\ At(t, "meta")
    /\ LET line == Line("meta", 0, t, <<>>)
       IN \/ WriteOk(t, line, [w[t] EXCEPT !.pc = "window"])
          \/ WriteFails(t, line, [w[t] EXCEPT !.pc = "dropping"])
    /\ UNCHANGED <<index, cache, lock, load, epoch, haunted>>

\* append_control of a window forgets the content references.
WriteWindow(t) ==
    /\ At(t, "window")
    /\ BeginLine(t, NextLine(t, "window", <<w[t].window>>),
                 [w[t] EXCEPT !.pc = "turn", !.seq = @ + 1, !.events = NoRefs])
    /\ UNCHANGED <<index, cache, lock, load, epoch, haunted>>

WriteTurn(t) ==
    /\ At(t, "turn")
    /\ BeginLine(t, NextLine(t, "turn", <<>>),
                 [w[t] EXCEPT !.pc = "request", !.seq = @ + 1])
    /\ UNCHANGED <<index, cache, lock, load, epoch, haunted>>

\* Mutant of Existing: every occurrence of a content refers to the first one.
ExistingFirst(writer, i, occurrence) ==
    LET k == KeyOf[i]
        seqs == writer.events[ContentOf[i]]
    IN IF k # NoKey /\ writer.items[k] > 0 THEN writer.items[k]
       ELSE IF seqs # <<>> THEN seqs[1]
       ELSE 0

\* The stored line an item of the request refers to: the one of its stable id, or
\* the same occurrence of its content in this window; 0 when it is new.
Existing(writer, i, occurrence) ==
    LET k == KeyOf[i]
        seqs == writer.events[ContentOf[i]]
    IN IF k # NoKey /\ writer.items[k] > 0 THEN writer.items[k]
       ELSE IF occurrence <= Len(seqs) THEN seqs[occurrence]
       ELSE 0

\* item_refs.insert, for an item that has an id.
Remembered(items, i, seq) ==
    [k \in Key |-> IF k = KeyOf[i] THEN seq ELSE items[k]]

Referring(t, i, seq) ==
    [w[t] EXCEPT !.refs = Append(@, seq), !.items = Remembered(@, i, seq)]

\* append_request_events, item by item.
WriteRequestItem(t) ==
    /\ At(t, "request")
    /\ Len(w[t].refs) < Len(w[t].request)
    /\ LET p == Len(w[t].refs) + 1
           i == w[t].request[p]
           x == ContentOf[i]
           occurrence == Cardinality({q \in 1..p : ContentOf[w[t].request[q]] = x})
           there == Existing(w[t], i, occurrence)
           new == w[t].seq + 1
       IN IF there > 0
            THEN Becomes(t, Referring(t, i, there)) /\ UNCHANGED <<files, troubles>>
            ELSE BeginLine(t, NextLine(t, "content", <<x>>),
                           [Referring(t, i, new) EXCEPT
                               !.seq = new, !.events[x] = Append(@, new)])
    /\ UNCHANGED <<index, cache, lock, load, epoch, haunted>>

\* begin returns.
WriteContext(t) ==
    /\ At(t, "request")
    /\ Len(w[t].refs) = Len(w[t].request)
    /\ BeginLine(t, NextLine(t, "context", w[t].refs),
                 [w[t] EXCEPT !.pc = "ready", !.seq = @ + 1])
    /\ UNCHANGED <<index, cache, lock, load, epoch, haunted>>

\* The answer is there.
Answer(t, response) ==
    /\ At(t, "ready")
    /\ Becomes(t, [w[t] EXCEPT !.pc = "response", !.response = response])
    /\ UNCHANGED <<files, index, cache, lock, load, epoch, troubles, haunted>>

\* append_content, every item of the answer, with its id.  A stream that fails to append an item goes on with the next;
\* record_completed gives up.
WriteResponseItem(t) ==
    /\ At(t, "response")
    /\ w[t].response # <<>>
    /\ LET i == Head(w[t].response)
           x == ContentOf[i]
           new == w[t].seq + 1
           next == [w[t] EXCEPT !.seq = new, !.response = Tail(@)]
       IN \/ WriteOk(t, NextLine(t, "content", <<x>>),
                     [next EXCEPT !.items = Remembered(@, i, new),
                                  !.events[x] = Append(@, new)])
          \/ \E pc \in {"response", "dropping"} :
                WriteFails(t, NextLine(t, "content", <<x>>), [next EXCEPT !.pc = pc])
    /\ UNCHANGED <<index, cache, lock, load, epoch, haunted>>

\* finish_with: turn_end, flush and sync_all, each of which may fail.
WriteEnd(t) ==
    /\ At(t, "response")
    /\ w[t].response = <<>>
    /\ BeginLine(t, NextLine(t, "turn_end", <<>>),
                 [w[t] EXCEPT !.pc = "sync", !.seq = @ + 1])
    /\ UNCHANGED <<index, cache, lock, load, epoch, haunted>>

Sync(t) ==
    /\ At(t, "sync")
    /\ \/ /\ files' = [files EXCEPT ![w[t].seg].synced = Len(files[w[t].seg].lines)]
          /\ Becomes(t, [w[t] EXCEPT !.pc = "publish"])
          /\ UNCHANGED troubles
       \/ /\ Trouble
          /\ Becomes(t, [w[t] EXCEPT !.pc = "dropping", !.faulty = TRUE])
          /\ UNCHANGED files
    /\ UNCHANGED <<index, cache, lock, load, epoch, haunted>>

\* Mutant of Expected: the length is not compared.
ExpectedAnyway(t) == TRUE

\* The file is as long as what was there and what this turn has written.
Expected(t) ==
    LET now == StampOf(w[t].seg)
    IN now = [lines |-> w[t].base + w[t].added, bad |-> 0, tail |-> "none",
              mtime |-> now.mtime]

\* ... then cache and index describe it.  The lock is given back.
Publish(t) ==
    /\ At(t, "publish")
    /\ LET state == [seg |-> w[t].seg, stamp |-> StampOf(w[t].seg),
                     count |-> w[t].count, seq |-> w[t].seq, window |-> w[t].window,
                     events |-> w[t].events, items |-> w[t].items]
       IN IF Expected(t) THEN cache' = state /\ index' = Indexed(state)
                         ELSE UNCHANGED <<cache, index>>
    /\ Becomes(t, Over(w[t], "done"))
    /\ Release(t)
    /\ UNCHANGED <<files, load, epoch, troubles, haunted>>

\* A writer is dropped: its BufWriter tries once more to write what it holds.
Discard(t) ==
    /\ At(t, "dropping")
    /\ \/ files' = [files EXCEPT ![w[t].seg] = Flushed(@, w[t].buf, w[t].cut)]
       \/ \E n \in 0..(Len(w[t].buf) - 1), tail \in Tails :
             /\ tail \in TailsOf(w[t].buf[n + 1].type)
             /\ files' = [files EXCEPT ![w[t].seg] =
                             PartlyFlushed(@, w[t].buf, w[t].cut, n, tail)]
    /\ Becomes(t, Over(w[t], "dropped"))
    /\ Release(t)
    /\ UNCHANGED <<index, cache, load, epoch, troubles, haunted>>

\* The request future is dropped at an await: waiting for the blocking task, or
\* for the answer.
Drop(t) ==
    /\ Trouble
    /\ w[t].pc \in {"loading", "ready"}
    /\ Becomes(t, Over(w[t], "dropped"))
    /\ Release(t)
    /\ UNCHANGED <<files, index, cache, load, epoch, haunted>>

\* How the line that a turn may be writing to a file can be torn.
Writing(t, g) ==
    IF lock # t \/ w[t].seg # g \/ ~files[g].exists THEN {}
    ELSE IF w[t].pc \in {"request", "response"} THEN Tails ELSE Tails \ {"inside"}

\* The process or the machine stops: lines that were not synced may be gone, the
\* last one may be torn, and so may the index, which then does not parse.
\* One file at most was being written.
Crash ==
    /\ Trouble
    /\ epoch' = epoch + 1
    /\ \E g \in Segment, tail \in Tails :
       \E n \in files[g].synced..Len(files[g].lines) :
          LET f == files[g]
              torn == IF n < Len(f.lines) THEN TailsOf(f.lines[n + 1].type)
                      ELSE IF f.tail = "none" THEN UNION {Writing(t, g) : t \in Turn}
                      ELSE {}
          IN /\ tail \in torn \/ (n = Len(f.lines) /\ tail = f.tail)
             /\ files' = [files EXCEPT ![g].lines = SubSeq(@, 1, n), ![g].tail = tail]
    /\ index' \in {index, NoIndex}
    /\ cache' = None
    /\ lock' = NoTurn
    /\ w' = [t \in Turn |-> IF w[t].pc \in Ended \cup {"idle"} THEN w[t]
                            ELSE Over(w[t], "lost")]
    /\ load' = [t \in Turn |-> NoLoad]
    /\ UNCHANGED haunted

\* ThreadIndex keeps the threads used last: others push this one out.  (It shows
\* only when a task is about to look.)
Evict ==
    /\ cache # None
    /\ \E t \in Turn : load[t].at = "resolve"
    /\ cache' = None
    /\ UNCHANGED <<files, index, lock, w, load, epoch, troubles, haunted>>

-----------------------------------------------------------------------------
Init ==
    /\ files = [g \in Segment |-> NoFile]
    /\ index = NoIndex
    /\ cache = None
    /\ lock = NoTurn
    /\ w = [t \in Turn |-> Idle]
    /\ load = [t \in Turn |-> NoLoad]
    /\ epoch = 1
    /\ troubles = 0
    /\ haunted = FALSE

Load(t) == \/ ResolveKnown(t) \/ ReadCandidate(t) \/ StartSegment(t) \/ LoadFails(t)
           \/ RepairTail(t) \/ StatCandidate(t)

Write(t) == \/ WriteMeta(t) \/ WriteWindow(t) \/ WriteTurn(t) \/ WriteRequestItem(t)
            \/ WriteContext(t) \/ WriteResponseItem(t) \/ WriteEnd(t)

Next ==
    \/ \E t \in Turn, window \in Window, request \in Requests :
          Begin(t, window, request)
    \/ \E t \in Turn : Load(t) \/ Write(t)
    \/ \E t \in Turn, response \in Responses : Answer(t, response)
    \/ \E t \in Turn : Sync(t) \/ Publish(t) \/ Discard(t) \/ Drop(t)
    \/ Crash \/ Evict

Spec == Init /\ [][Next]_vars

-----------------------------------------------------------------------------
Lines == [type : {"meta", "window", "turn", "content", "context", "turn_end",
                  "corrupt", "garbled"},
          seq : Nat, turn : Turn \cup {NoTurn},
          body : Seq(Window \cup Content \cup Nat)]

States == [seg : Segment,
           stamp : [lines : Nat, bad : Nat, tail : Tails, mtime : Nat],
           count : Nat, seq : Nat, window : Window \cup {NoWindow},
           events : [Content -> Seq(Nat)], items : [Key -> Nat]]

TypeOK ==
    /\ \A g \in Segment :
          /\ files[g].exists \in BOOLEAN
          /\ \A n \in DOMAIN files[g].lines : files[g].lines[n] \in Lines
          /\ files[g].tail \in Tails
          /\ files[g].mtime \in 0..epoch
          /\ files[g].synced \in 0..Len(files[g].lines)
    /\ cache \in States
    /\ index.state \in States
    /\ lock \in Turn \cup {NoTurn}
    /\ \A t \in Turn :
          /\ w[t].seg \in Segment
          /\ w[t].refs \in Seq(Nat)
          /\ w[t].cut \in BOOLEAN
          /\ Len(w[t].buf) <= troubles
    /\ epoch \in 1..(MaxTroubles + 1)
    /\ troubles \in 0..MaxTroubles

\* Where the lines of a turn are in its file.
PlacesOf(t) == LET lines == files[w[t].seg].lines
               IN {n \in DOMAIN lines : lines[n].turn = t}

\* docs/architecture/database.md:45: start_line and end_line of an activity are
\* where its turn is in the file.  A turn that ended without a failed write is
\* exactly the lines its index row names, from its turn line to its end, whatever
\* was torn, cut, cached, evicted or lost before and after it.
SliceIsTurn ==
    \A t \in Turn : At(t, "done") /\ ~w[t].faulty /\ ~haunted =>
        /\ PlacesOf(t) = w[t].start..w[t].count
        /\ w[t].count \in PlacesOf(t)
        /\ files[w[t].seg].lines[w[t].count].type = "turn_end"

Numbered(lines) == SelectSeq(lines, LAMBDA line : line.seq > 0)

Increasing(lines) == \A n \in 2..Len(lines) : lines[n - 1].seq < lines[n].seq

\* docs/superpowers/specs/2026-10-29:87: the lock of a thread covers the whole
\* activity, so that concurrent appends neither interleave lines nor upset their
\* order.
LinesInOrder == \A g \in Segment : Increasing(Numbered(files[g].lines))

\* README.md:121: the references of a context are the input of its turn, in its
\* order.  Each one leads to one stored line in the same file, which holds the
\* item's content or that of an item with the same stable id; two occurrences of a
\* content, both without an id, lead to two lines.
ContextIsRequest ==
    \A g \in Segment : ~haunted =>
      LET lines == files[g].lines
          Stored(seq) == {n \in DOMAIN lines : /\ lines[n].type = "content"
                                               /\ lines[n].seq = seq}
          Matches(i, n) == \E j \in Item :
                              /\ Holds(ContentOf[j], lines[n])
                              /\ \/ ContentOf[j] = ContentOf[i]
                                 \/ KeyOf[i] # NoKey /\ KeyOf[j] = KeyOf[i]
      IN \A m \in {n \in DOMAIN lines : lines[n].type = "context"} :
            LET request == w[lines[m].turn].request
                refs == lines[m].body
            IN /\ Len(refs) = Len(request)
               /\ \A p \in DOMAIN refs : \E n \in 1..(m - 1) :
                     Stored(refs[p]) = {n} /\ Matches(request[p], n)
               /\ \A p, q \in DOMAIN refs :
                     p # q /\ KeyOf[request[p]] = NoKey /\ KeyOf[request[q]] = NoKey
                         => refs[p] # refs[q]

\* Whatever describes the file as it is (the cache, or the index after a restart)
\* knows its lines, its last number, its window and its contents as reading it
\* would: a turn may trust it without reading.
Trusted(state) ==
    LET read == FromLines(state.seg, state.stamp, files[state.seg].lines)
    IN /\ \A field \in {"count", "seq", "window", "events"} : state[field] = read[field]
       /\ \A k \in Key : read.items[k] > 0 => state.items[k] > 0

KnownIsTrue ==
    ~haunted => /\ CacheHit => Trusted(cache)
                /\ IndexHit => Trusted(index.state)

\* README.md:125: a torn last line is cut off by the next request of the thread.
TornTailIsCut == \A t \in Turn : ~At(t, "unreadable")

=============================================================================
