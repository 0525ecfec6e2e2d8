---------------------------- MODULE StreamBridge ----------------------------
(***************************************************************************)
(* The event stream between an upstream and a client: the head of the      *)
(* upstream's answer is verified and put back, its bytes are cut into      *)
(* lines and events, the events are counted for the record, and the client *)
(* is given either the bytes as they came (chat, responses) or Responses   *)
(* events made from the chat events (bridge).                              *)
(*                                                                         *)
(* A chunk is whole lines and, perhaps, the beginning of one more.  A line *)
(* of data holds one JSON document, the [DONE] mark, or no JSON; what is   *)
(* cut short, or joined from two documents, is no JSON.  A text is a       *)
(* sequence of pieces, the empty text <<>>.  Token counts are naturals, of *)
(* which those above MaxI64 do not fit the column.                         *)
(***************************************************************************)
EXTENDS Naturals, Sequences, FiniteSets

CONSTANTS
    None,
    LocalId,          \* the id the client knows the response by
    Kinds,            \* the decoders to look at: "bridge", "chat", "responses"
    Chunks(_),        \* chunks an upstream of that kind may send
    Index,            \* indexes of tool calls
    Piece,            \* pieces of text
    Texts,            \* texts a delta may hold
    Item,             \* items an upstream may list in its own response
    MaxI64,
    MaxEmptyChunks,   \* MAX_EMPTY_CHUNKS
    MaxChunks,        \* bound: chunks that hold something
    MaxKeepalives     \* bound: keep-alive comments

ASSUME BridgeAssumption ==
    /\ Kinds \subseteq {"bridge", "chat", "responses"}
    /\ Index \subseteq Nat /\ IsFiniteSet(Index)
    /\ Texts \subseteq Seq(Piece) /\ "raw" \in Piece /\ LocalId \in STRING
    /\ {MaxI64, MaxEmptyChunks, MaxChunks, MaxKeepalives} \subseteq Nat

VARIABLES
    kind,        \* the decoder of this stream
    phase,       \* of the stream
    empties,     \* empty chunks seen while verifying
    head,        \* the chunk verification took from the stream
    line,        \* line_buffer: the beginning of a line, cut or lacking its end
    dec,         \* the decoder's own state
    stats,       \* SharedStreamStats
    pending,     \* what the decoder made and the client has not read
    session,     \* the recorder's StreamSession, and what was saved of it
    sent,        \* history: what the client has been given
    upstream     \* history: the chunks the upstream has sent

vars == <<kind, phase, empties, head, line, dec, stats, pending, session, sent,
          upstream>>

-----------------------------------------------------------------------------
(* Lines and documents.                                                      *)

Blank == [k |-> "blank"]
Data(d) == [k |-> "data", d |-> d]
Event(n) == [k |-> "event", n |-> n]
Other == [k |-> "other"]            \* a comment, another field, no UTF-8

NoJson == [json |-> "none"]
NoData == [json |-> "empty"]
Done == [json |-> "done"]           \* [DONE]

NoCut == [l |-> None, cut |-> FALSE]

\* What process_line finds when the stream ends inside the line.
AsItStands(b) ==
    IF ~b.cut THEN b.l ELSE IF b.l.k = "data" THEN Data(NoJson) ELSE Other

\* Two documents joined by a newline are no JSON.
Joined(data_lines) ==
    CASE Len(data_lines) = 0 -> NoData
      [] Len(data_lines) = 1 -> data_lines[1]
      [] OTHER               -> NoJson

UsageFields == {"input", "output", "total", "cache_read", "cache_write"}
NoUsage == [f \in UsageFields |-> None]

\* What an upstream may send: JSON of these shapes, in lines, in chunks.
Option(S) == S \cup {None}
UsageSet == [UsageFields -> Option(Nat)]
ToolSet == [index : Option(Index), id : Option(Texts), name : Option(Texts),
            arguments : Option(Texts)]
ChoiceSet == [content : Option(Texts), refusal : Option(Texts), reasoning : Option(Texts),
              tools : Seq(ToolSet), finish : Option(STRING)]
ChatDocument == [json : {"chat"}, choice : Option(ChoiceSet), usage : Option(UsageSet)]
ResponsesDocument ==
    [json : {"responses"}, response_id : Option(STRING), output : Option(Seq(Item)),
     delta : Option(Texts), call : BOOLEAN, index : Index, id : Option(Texts),
     name : Option(Texts), arguments : Option(Texts), usage : Option(UsageSet)]
Document == [json : {"none", "done"}] \cup ChatDocument \cup ResponsesDocument
LineSet == [k : {"blank", "other"}] \cup [k : {"data"}, d : Document]
               \cup [k : {"event"}, n : STRING]
OpenSet == [l : LineSet, cut : BOOLEAN]
ChunkSet == [rest : BOOLEAN, lines : Seq(LineSet), open : OpenSet \cup {NoCut}]

ASSUME ChunksAssumption ==
    /\ \A k \in Kinds : Chunks(k) \subseteq ChunkSet /\ None \notin Chunks(k)
    /\ None \notin LineSet

-----------------------------------------------------------------------------
(* Sequences.                                                                *)

\* The elements of a finite set of naturals, in order.
InOrder(S) ==
    CHOOSE q \in [1..Cardinality(S) -> S] :
        \A m, n \in 1..Cardinality(S) : m < n => q[m] < q[n]

-----------------------------------------------------------------------------
(* Internal events and the record of them.                                   *)

InternalFinishReason == {"Stop", "Length", "ToolUse", "ContentFilter", "Error", "Unknown"}

internal_finish_reason_from_str(reason) ==
    CASE reason \in {"stop", "end_turn", "stop_sequence"} -> "Stop"
      [] reason \in {"length", "max_tokens"}              -> "Length"
      [] reason \in {"tool_calls", "tool_use"}            -> "ToolUse"
      [] reason = "content_filter"                        -> "ContentFilter"
      [] reason = "error"                                 -> "Error"
      [] OTHER                                            -> "Unknown"

TextDelta(t) == [t |-> "text", d |-> t]
ReasoningDelta(t) == [t |-> "reasoning", d |-> t]
ToolCallDelta(i, id, name, arguments) ==
    [t |-> "delta", i |-> i, id |-> id, name |-> name, arguments |-> arguments]
ToolCallDone(i, id, name, arguments) ==
    [t |-> "done", i |-> i, id |-> id, name |-> name, arguments |-> arguments]
UsageEvent(u) == [t |-> "usage", u |-> u]
Finished(r) == [t |-> "finished", r |-> r]

SomeSeq(option, Ev(_)) == IF option = None THEN <<>> ELSE <<Ev(option)>>

\* Mutant of u64_to_i64: the number is taken as it is.
takeNumber(v) == v

u64_to_i64(v) == IF v = None THEN None ELSE IF v > MaxI64 THEN None ELSE v

NoStats == [usage |-> NoUsage, final_usage_seen |-> FALSE,
            upstream_response_id |-> None, response_output_items |-> <<>>,
            tool_call_count |-> 0, output_text |-> <<>>, reasoning_text |-> <<>>,
            completed |-> FALSE, tool_calls |-> <<>>]

NoCall == [id |-> <<>>, name |-> <<>>, arguments |-> <<>>, added |-> FALSE, done |-> FALSE]

Entry(calls, i) == IF i \in DOMAIN calls THEN calls[i] ELSE NoCall
Put(calls, i, call) ==
    [j \in DOMAIN calls \cup {i} |-> IF j = i THEN call ELSE calls[j]]

\* An option that holds a text that is not empty.
Filled(option) == option # None /\ option # <<>>

record_done(st, e) ==
    LET c == Entry(st.tool_calls, e.i)
    IN  [st EXCEPT !.tool_call_count = IF c.done THEN @ ELSE @ + 1,
                   !.tool_calls = Put(@, e.i,
                        [c EXCEPT !.done = TRUE,
                                  !.id = IF e.id # <<>> THEN e.id ELSE @,
                                  !.name = IF e.name # <<>> THEN e.name ELSE @,
                                  !.arguments = IF e.arguments # <<>> THEN e.arguments ELSE @])]

\* Mutant of record_delta: the last piece of the arguments is kept.
recordLastPiece(st, e) ==
    [st EXCEPT !.tool_calls = Put(@, e.i,
        [Entry(@, e.i) EXCEPT !.arguments = IF e.arguments # None THEN e.arguments ELSE @])]

record_delta(st, e) ==
    LET c == Entry(st.tool_calls, e.i)
    IN  [st EXCEPT !.tool_calls = Put(@, e.i,
            [c EXCEPT !.id = IF Filled(e.id) THEN e.id ELSE @,
                      !.name = IF Filled(e.name) THEN e.name ELSE @,
                      !.arguments = IF e.arguments # None THEN @ \o e.arguments ELSE @])]

record_event(st, e) ==
    CASE e.t = "done"      -> record_done(st, e)
      [] e.t = "delta"     -> record_delta(st, e)
      [] e.t = "usage"     -> [st EXCEPT !.usage = [f \in UsageFields |-> u64_to_i64(e.u[f])],
                                         !.final_usage_seen = \E f \in UsageFields : e.u[f] # None]
      [] e.t = "text"      -> [st EXCEPT !.output_text = @ \o e.d]
      [] e.t = "reasoning" -> [st EXCEPT !.reasoning_text = @ \o e.d]
      [] e.t = "finished"  -> [st EXCEPT !.completed = TRUE]

-----------------------------------------------------------------------------
(* Chat events.                                                              *)

decode_chat_tool_call_delta(tools) ==
    LET at == InOrder({n \in DOMAIN tools : tools[n].index # None})
    IN  [n \in DOMAIN at |-> tools[at[n]]]

finish_reason(choice) ==
    IF choice.finish \in {None, ""} THEN None
    ELSE internal_finish_reason_from_str(choice.finish)

\* None when the document says nothing: no choice and no usage.  A usage of null
\* is a usage with no numbers.
decode_chat_sse_event(d) ==
    IF d.json # "chat" THEN None
    ELSE IF d.choice = None
    THEN IF d.usage = None THEN None
         ELSE [text |-> None, reasoning |-> None, tools |-> <<>>, finish |-> None,
               usage |-> d.usage]
    ELSE [text |-> IF d.choice.content # None THEN d.choice.content ELSE d.choice.refusal,
          reasoning |-> IF Filled(d.choice.reasoning) THEN d.choice.reasoning ELSE None,
          tools |-> decode_chat_tool_call_delta(d.choice.tools),
          finish |-> finish_reason(d.choice),
          usage |-> d.usage]

ChatSseSet == [text : Option(Texts), reasoning : Option(Texts), tools : Seq(ToolSet),
               finish : Option(InternalFinishReason), usage : Option(UsageSet)]

ASSUME ChatSseAssumption == None \notin ChatSseSet

to_internal_events(e) ==
    LET tools == [n \in DOMAIN e.tools |-> ToolCallDelta(e.tools[n].index, e.tools[n].id,
                                                         e.tools[n].name, e.tools[n].arguments)]
    IN  SomeSeq(e.text, TextDelta)
            \o (SomeSeq(e.reasoning, ReasoningDelta) \o tools
                    \o SomeSeq(e.usage, UsageEvent) \o SomeSeq(e.finish, Finished))

ChatEvents(d) ==
    LET e == decode_chat_sse_event(d) IN IF e = None THEN <<>> ELSE to_internal_events(e)

-----------------------------------------------------------------------------
(* What is said to the client.                                               *)

TextSse(t) == [e |-> "text", d |-> t]
AddedSse(i, c) == [e |-> "added", i |-> i, id |-> c.id, name |-> c.name]
ArgumentsDeltaSse(i, c, piece) == [e |-> "delta", i |-> i, id |-> c.id, d |-> piece]
\* Mutant of ToolCallDoneSse: the item is done before its arguments are.
ToolCallDoneSwapped(i, c) ==
    << [e |-> "closed", i |-> i, id |-> c.id, name |-> c.name, d |-> c.arguments],
       [e |-> "stated", i |-> i, id |-> c.id, name |-> c.name, d |-> c.arguments] >>

ToolCallDoneSse(i, c) ==
    << [e |-> "stated", i |-> i, id |-> c.id, name |-> c.name, d |-> c.arguments],
       [e |-> "closed", i |-> i, id |-> c.id, name |-> c.name, d |-> c.arguments] >>
CompletedSse(usage, output) == [e |-> "completed", usage |-> usage, output |-> output]
KeepaliveSse == [e |-> "keepalive"]
BytesSse(c) == [e |-> "bytes", c |-> c]
EventSse(lines) == [e |-> "event", lines |-> lines]

-----------------------------------------------------------------------------
(* The decoders.  A decoder at work: its state, the stats it shares, and     *)
(* what it has made so far.                                                  *)

NoDecoder == [event_name |-> None, data_lines |-> <<>>, event_buffer |-> <<>>,
              tool_calls |-> <<>>, completed |-> FALSE, usage |-> None,
              finish_reason |-> None]

Work(d, st) == [dec |-> d, stats |-> st, out |-> <<>>]

Record(s, e) == [s EXCEPT !.stats = record_event(@, e)]

\* ChatToResponsesSseDecoder
tool_call_delta_to_responses_sse(s, e) ==
    LET c0 == Entry(s.dec.tool_calls, e.i)
        c1 == [c0 EXCEPT !.id = IF e.id # None THEN e.id ELSE @,
                         !.name = IF e.name # None THEN e.name ELSE @,
                         !.added = TRUE]
        c2 == [c1 EXCEPT !.arguments = IF e.arguments # None THEN @ \o e.arguments ELSE @]
        added == IF c0.added THEN <<>> ELSE <<AddedSse(e.i, c1)>>
        delta == IF e.arguments = None THEN <<>>
                 ELSE <<ArgumentsDeltaSse(e.i, c2, e.arguments)>>
    IN  [s EXCEPT !.dec.tool_calls = Put(@, e.i, c2), !.out = @ \o added \o delta]

internal_event_to_responses_sse(s, e) ==
    CASE e.t = "text"     -> [s EXCEPT !.out = Append(@, TextSse(e.d))]
      [] e.t = "delta"    -> tool_call_delta_to_responses_sse(s, e)
      [] e.t = "finished" -> [s EXCEPT !.dec.finish_reason = e.r]
      [] OTHER            -> s

BridgeEvent(s, e) ==
    internal_event_to_responses_sse(
        Record(IF e.t = "usage" THEN [s EXCEPT !.dec.usage = e.u] ELSE s, e), e)

BridgeEvents(s, events) ==
    LET after[n \in 0..Len(events)] ==
            IF n = 0 THEN s ELSE BridgeEvent(after[n - 1], events[n])
    IN  after[Len(events)]

\* The text of the stats, and the calls that have both an id and a name.
response_output_items(s) ==
    LET calls == s.dec.tool_calls
        named == InOrder({i \in DOMAIN calls : calls[i].id # <<>> /\ calls[i].name # <<>>})
    IN  SomeSeq(IF s.stats.output_text = <<>> THEN None ELSE s.stats.output_text,
                LAMBDA t : [type |-> "message", d |-> t])
        \o [n \in DOMAIN named |->
                [type |-> "call", i |-> named[n], d |-> calls[named[n]].arguments]]

finish_call(s, i) ==
    LET c == s.dec.tool_calls[i]
    IN  IF c.done THEN s
        ELSE Record([s EXCEPT !.dec.tool_calls[i].done = TRUE,
                              !.out = @ \o ToolCallDoneSse(i, c)],
                    ToolCallDone(i, c.id, c.name, c.arguments))

FinishCalls(s, order) ==
    LET after[n \in 0..Len(order)] ==
            IF n = 0 THEN s ELSE finish_call(after[n - 1], order[n])
    IN  after[Len(order)]

record_response_id(s) ==
    [s EXCEPT !.stats.upstream_response_id = None,
              !.stats.response_output_items = response_output_items(s)]

finish_response(s) ==
    LET s1 == FinishCalls(s, InOrder(DOMAIN s.dec.tool_calls))
        s2 == Record(s1, UsageEvent(IF s.dec.usage = None THEN NoUsage ELSE s.dec.usage))
        s3 == Record(s2, Finished(IF s.dec.finish_reason = None THEN "Stop"
                                  ELSE s.dec.finish_reason))
        s4 == record_response_id(s3)
    IN  [s4 EXCEPT !.out = Append(@, CompletedSse(s.dec.usage, response_output_items(s4)))]

\* Mutant of flush_event_bridge: events after [DONE] are taken.
flushAfterDone(s) ==
    LET d == Joined(s.dec.data_lines)
        s1 == [s EXCEPT !.dec.data_lines = <<>>]
    IN  CASE s.dec.data_lines = <<>> -> s1
          [] d = Done -> finish_response([s1 EXCEPT !.dec.completed = TRUE])
          [] OTHER    -> BridgeEvents(s1, ChatEvents(d))

flush_event_bridge(s) ==
    LET d == Joined(s.dec.data_lines)
        s1 == [s EXCEPT !.dec.data_lines = <<>>]
    IN  IF s.dec.data_lines = <<>> \/ s.dec.completed THEN s1
        ELSE IF d = Done THEN finish_response([s1 EXCEPT !.dec.completed = TRUE])
        ELSE BridgeEvents(s1, ChatEvents(d))

\* ChatSseStatsDecoder
CompleteCall(s, i) ==
    LET c == s.dec.tool_calls[i]
    IN  IF c.done THEN s
        ELSE Record([s EXCEPT !.dec.tool_calls[i].done = TRUE],
                    ToolCallDone(i, c.id, c.name, c.arguments))

CompleteCalls(s, order) ==
    LET after[n \in 0..Len(order)] ==
            IF n = 0 THEN s ELSE CompleteCall(after[n - 1], order[n])
    IN  after[Len(order)]

complete(s) ==
    IF s.dec.completed THEN s
    ELSE Record(CompleteCalls([s EXCEPT !.dec.completed = TRUE],
                              InOrder(DOMAIN s.dec.tool_calls)),
                Finished("Stop"))

ChatStatsEvent(s, e) ==
    LET c == Entry(s.dec.tool_calls, e.i)
        noted == [c EXCEPT !.id = IF e.id # None THEN e.id ELSE @,
                           !.name = IF e.name # None THEN e.name ELSE @,
                           !.arguments = IF e.arguments # None THEN @ \o e.arguments ELSE @]
    IN  Record(IF e.t = "delta" THEN [s EXCEPT !.dec.tool_calls = Put(@, e.i, noted)] ELSE s, e)

ChatStatsEvents(s, events) ==
    LET after[n \in 0..Len(events)] ==
            IF n = 0 THEN s ELSE ChatStatsEvent(after[n - 1], events[n])
    IN  after[Len(events)]

flush_event_chat(s) ==
    LET d == Joined(s.dec.data_lines)
        s1 == [s EXCEPT !.dec.data_lines = <<>>]
    IN  CASE s.dec.data_lines = <<>> -> s1
          [] d = Done -> complete(s1)
          [] OTHER    -> ChatStatsEvents(s1, ChatEvents(d))

\* NativeResponsesSseStatsDecoder.  What is no JSON is itself the text.
decode_responses_text_delta(d) ==
    CASE d.json = "responses"        -> d.delta
      [] d.json \in {"none", "done"} -> <<"raw">>
      [] d.json = "empty"            -> <<>>
      [] OTHER                       -> None

\* The total is the sum when it is not stated.
decode_responses_usage(d) ==
    IF d.json # "responses" THEN None
    ELSE IF d.usage = None THEN None
    ELSE [d.usage EXCEPT !.total = IF @ = None /\ d.usage.input # None /\ d.usage.output # None
                                   THEN d.usage.input + d.usage.output ELSE @]

Default(option) == IF option = None THEN <<>> ELSE option

\* None for an item that is no function call.
decode_responses_function_call_added(d) ==
    IF d.json # "responses" THEN None
    ELSE IF ~d.call THEN None
    ELSE ToolCallDelta(d.index, d.id, d.name, IF Filled(d.arguments) THEN d.arguments ELSE None)

decode_responses_function_call_arguments_delta(d) ==
    IF d.json # "responses" THEN None ELSE ToolCallDelta(d.index, d.id, None, d.delta)

decode_responses_function_call_arguments_done(d) ==
    IF d.json # "responses" THEN None
    ELSE ToolCallDone(d.index, Default(d.id), Default(d.name), Default(d.arguments))

decode_responses_output_item_done(d) ==
    IF d.json # "responses" THEN None
    ELSE IF ~d.call THEN None
    ELSE ToolCallDone(d.index, Default(d.id), Default(d.name), Default(d.arguments))

decode_responses_sse_event(n, d) ==
    LET Itself(e) == e
    IN  CASE n = "response.output_text.delta" ->
                SomeSeq(decode_responses_text_delta(d), TextDelta)
          [] n \in {"response.reasoning_summary_text.delta", "response.reasoning_text.delta"} ->
                SomeSeq(decode_responses_text_delta(d), ReasoningDelta)
          [] n = "response.output_item.added" ->
                SomeSeq(decode_responses_function_call_added(d), Itself)
          [] n = "response.function_call_arguments.delta" ->
                SomeSeq(decode_responses_function_call_arguments_delta(d), Itself)
          [] n = "response.function_call_arguments.done" ->
                SomeSeq(decode_responses_function_call_arguments_done(d), Itself)
          [] n = "response.output_item.done" ->
                SomeSeq(decode_responses_output_item_done(d), Itself)
          [] n = "response.completed" ->
                SomeSeq(decode_responses_usage(d), UsageEvent) \o <<Finished("Stop")>>
          [] OTHER -> <<>>

decode_responses_response_id(d) == IF d.json = "responses" THEN d.response_id ELSE None
decode_responses_output_items(d) == IF d.json = "responses" THEN d.output ELSE None

RecordEvents(s, events) ==
    LET after[n \in 0..Len(events)] ==
            IF n = 0 THEN s ELSE Record(after[n - 1], events[n])
    IN  after[Len(events)]

record_event_responses(s) ==
    LET d == Joined(s.dec.data_lines)
        id == decode_responses_response_id(d)
        items == decode_responses_output_items(d)
        s3 == [s EXCEPT !.dec.event_name = None, !.dec.data_lines = <<>>,
                        !.stats.upstream_response_id = IF id # None THEN id ELSE @,
                        !.stats.response_output_items = IF items # None THEN items ELSE @]
    IN  RecordEvents(s3, decode_responses_sse_event(s.dec.event_name, d))

FlushEvent(s) ==
    CASE kind = "bridge"    -> flush_event_bridge(s)
      [] kind = "chat"      -> flush_event_chat(s)
      [] kind = "responses" -> record_event_responses(s)

process_line_chat(s, l) ==
    CASE l.k = "blank" -> FlushEvent(s)
      [] l.k = "data"  -> [s EXCEPT !.dec.data_lines = Append(@, l.d)]
      [] OTHER         -> s

process_line_responses(s, l) ==
    CASE l.k = "blank" -> FlushEvent(s)
      [] l.k = "event" -> [s EXCEPT !.dec.event_name = l.n]
      [] l.k = "data"  -> [s EXCEPT !.dec.data_lines = Append(@, l.d)]
      [] OTHER         -> s

process_line(s, l) ==
    IF kind = "responses" THEN process_line_responses(s, l) ELSE process_line_chat(s, l)

\* The lines that a chunk ends: the first of them may have begun earlier.
drain_lines(c) == (IF c.rest THEN <<line.l>> ELSE <<>>) \o c.lines

process_lines(s, lines) ==
    LET after[n \in 0..Len(lines)] ==
            IF n = 0 THEN s ELSE process_line(after[n - 1], lines[n])
    IN  after[Len(lines)]

PushLines(c) == process_lines(Work(dec, stats), drain_lines(c))

push_chunk_bridge(c) == PushLines(c)
push_chunk_through(c) == [PushLines(c) EXCEPT !.out = <<BytesSse(c)>>]

\* ResponseIdRewriter: whole events, the ids of their documents replaced.
rewrite_value(d) ==
    IF d.json = "responses" /\ d.response_id # None THEN [d EXCEPT !.response_id = LocalId] ELSE d

rewrite_event(lines) ==
    IF Cardinality({n \in DOMAIN lines : lines[n].k = "data"}) # 1 THEN lines
    ELSE [n \in DOMAIN lines |->
            IF lines[n].k = "data" THEN Data(rewrite_value(lines[n].d)) ELSE lines[n]]

RewriteLine(s, l) ==
    LET held == Append(s.dec.event_buffer, l)
    IN  IF l.k # "blank" THEN [s EXCEPT !.dec.event_buffer = held]
        ELSE [s EXCEPT !.dec.event_buffer = <<>>, !.out = Append(@, EventSse(rewrite_event(held)))]

RewriteLines(s, lines) ==
    LET after[n \in 0..Len(lines)] ==
            IF n = 0 THEN s ELSE RewriteLine(after[n - 1], lines[n])
    IN  after[Len(lines)]

push_chunk_rewritten(c) == RewriteLines(PushLines(c), drain_lines(c))

push_chunk(c) ==
    CASE kind = "bridge"    -> push_chunk_bridge(c)
      [] kind = "chat"      -> push_chunk_through(c)
      [] kind = "responses" -> push_chunk_rewritten(c)

\* The line the stream ended in.
LastLine ==
    IF line = NoCut THEN Work(dec, stats)
    ELSE process_line(Work(dec, stats), AsItStands(line))

\* Mutant of finish_bridge: only [DONE] completes the response.
finishOnDoneOnly == IF line = NoCut THEN LastLine ELSE FlushEvent(LastLine)

\* An event without its blank line counts when the stream ends inside a line only.
finish_bridge ==
    LET s == IF line = NoCut THEN LastLine ELSE FlushEvent(LastLine)
    IN  IF s.dec.completed THEN s
        ELSE finish_response([s EXCEPT !.dec.completed = TRUE])

finish_chat == complete(FlushEvent(LastLine))

finish_responses == FlushEvent(LastLine)

\* The rewriter gives what it still holds.
finish_rewritten ==
    LET s == finish_responses
        left == s.dec.event_buffer \o (IF line = NoCut THEN <<>> ELSE <<AsItStands(line)>>)
    IN  IF left = <<>> THEN s
        ELSE [s EXCEPT !.dec.event_buffer = <<>>, !.out = Append(@, EventSse(rewrite_event(left)))]

finish ==
    CASE kind = "bridge"    -> finish_bridge
      [] kind = "chat"      -> finish_chat
      [] kind = "responses" -> finish_rewritten

-----------------------------------------------------------------------------
(* The stream.                                                               *)

\* The StreamSession of a request with store: the recorder holds it until the
\* response has completed, and saves its items then; without items it gives it up.
NoSession == [at |-> "none", items |-> <<>>]
Held == [at |-> "held", items |-> <<>>]

save_stream_state_if_ready ==
    IF session.at # "held" \/ ~stats.completed THEN session
    ELSE IF stats.response_output_items = <<>> THEN [session EXCEPT !.at = "lost"]
    ELSE [at |-> "saved", items |-> stats.response_output_items]

Init ==
    /\ kind \in Kinds
    /\ phase = "verifying"
    /\ empties = 0
    /\ head = None
    /\ line = NoCut
    /\ dec = NoDecoder
    /\ stats = NoStats
    /\ pending = <<>>
    /\ session = IF kind = "chat" THEN NoSession ELSE Held
    /\ sent = <<>>
    /\ upstream = <<>>

\* A chunk goes on with the line the one before it left open.
Fits(c) == c.rest = (line # NoCut)

\* verify_upstream_sse_head: a first chunk that is not HTML is taken from the stream.
VerifyHead ==
    /\ phase = "verifying"
    /\ \E c \in Chunks(kind) : Fits(c) /\ head' = c /\ upstream' = <<c>>
    /\ phase' = "streaming"
    /\ empties' = 0
    /\ UNCHANGED <<kind, line, dec, stats, pending, session, sent>>

\* An empty chunk is passed over, unless there were too many of them.
VerifyEmpty ==
    /\ phase = "verifying"
    /\ empties' = empties + 1
    /\ phase' = IF empties' > MaxEmptyChunks THEN "rejected" ELSE phase
    /\ UNCHANGED <<kind, head, line, dec, stats, pending, session, sent, upstream>>

\* A page, an empty answer or a broken connection: the caller tries elsewhere.
VerifyReject ==
    /\ phase = "verifying"
    /\ phase' = "rejected"
    /\ UNCHANGED <<kind, empties, head, line, dec, stats, pending, session, sent, upstream>>

Push(c) ==
    LET s == push_chunk(c)
    IN  /\ dec' = s.dec
        /\ stats' = s.stats
        /\ pending' = s.out
        /\ line' = c.open

\* The client reads what is there before the upstream is asked for more.
Deliver ==
    /\ phase \in {"streaming", "ended"}
    /\ pending # <<>>
    /\ sent' = Append(sent, Head(pending))
    /\ session' = save_stream_state_if_ready
    /\ pending' = Tail(pending)
    /\ UNCHANGED <<kind, phase, empties, head, line, dec, stats, upstream>>

Waiting == phase = "streaming" /\ pending = <<>>

\* Mutant of PollHead: the head is not put back.
PollHeadLost ==
    /\ Waiting
    /\ head # None
    /\ head' = None
    /\ UNCHANGED <<kind, phase, empties, line, dec, stats, pending, session, sent, upstream>>

\* upstream_bytes_stream: the head first.
PollHead ==
    /\ Waiting
    /\ head # None
    /\ Push(head)
    /\ head' = None
    /\ UNCHANGED <<kind, phase, empties, session, sent, upstream>>

PollChunk ==
    /\ Waiting
    /\ head = None
    /\ Len(upstream) < MaxChunks
    /\ \E c \in Chunks(kind) : Fits(c) /\ Push(c) /\ upstream' = Append(upstream, c)
    /\ UNCHANGED <<kind, phase, empties, head, session, sent>>

PollEnd ==
    /\ Waiting
    /\ head = None
    /\ phase' = "ended"
    /\ dec' = finish.dec
    /\ stats' = finish.stats
    /\ pending' = finish.out
    /\ line' = NoCut
    /\ UNCHANGED <<kind, empties, head, session, sent, upstream>>

\* The error is passed on; the server ends the connection with it.
PollError ==
    /\ Waiting
    /\ head = None
    /\ phase' = "broken"
    /\ UNCHANGED <<kind, empties, head, line, dec, stats, pending, session, sent, upstream>>

Close ==
    /\ phase = "ended"
    /\ pending = <<>>
    /\ phase' = "closed"
    /\ session' = save_stream_state_if_ready
    /\ UNCHANGED <<kind, empties, head, line, dec, stats, pending, sent, upstream>>

\* with_sse_keepalive: the upstream has been silent for the interval.
Keepalive ==
    /\ Waiting
    /\ head = None
    /\ Len(SelectSeq(sent, LAMBDA x : x = KeepaliveSse)) < MaxKeepalives
    /\ sent' = Append(sent, KeepaliveSse)
    /\ UNCHANGED <<kind, phase, empties, head, line, dec, stats, pending, session, upstream>>

\* The client goes away and the stream is dropped.
Drop ==
    /\ phase \in {"streaming", "ended"}
    /\ phase' = "dropped"
    /\ UNCHANGED <<kind, empties, head, line, dec, stats, pending, session, sent, upstream>>

Next ==
    \/ VerifyHead \/ VerifyEmpty \/ VerifyReject
    \/ Deliver \/ PollHead \/ PollChunk \/ PollEnd \/ PollError \/ Close
    \/ Keepalive \/ Drop

\* A client that stays keeps reading, and reading drives the stream on; nothing
\* obliges the upstream to send or to end.
Spec == Init /\ [][Next]_vars /\ WF_vars(Deliver) /\ WF_vars(Close)

-----------------------------------------------------------------------------
(* Properties.                                                               *)

\* Types, and no token count that does not fit its column (u64_to_i64).
TypeOK ==
    /\ kind \in Kinds
    /\ phase \in {"verifying", "rejected", "streaming", "ended", "closed", "broken", "dropped"}
    /\ empties \in 0..(MaxEmptyChunks + 1)
    /\ head \in Chunks(kind) \cup {None}
    /\ DOMAIN dec.tool_calls \subseteq Index
    /\ DOMAIN stats.tool_calls \subseteq Index
    /\ dec.finish_reason \in InternalFinishReason \cup {None}
    /\ stats.tool_call_count \in Nat
    /\ {dec.completed, stats.completed, stats.final_usage_seen} \subseteq BOOLEAN
    /\ \A f \in UsageFields : stats.usage[f] \in 0..MaxI64 \cup {None}

\* What a reader of the whole stream sees, said without a buffer: the lines begun in
\* some chunks, the last of which may be open.
LinesBegun(chunks) ==
    LET begun[n \in 0..Len(chunks)] ==
            IF n = 0 THEN <<>>
            ELSE begun[n - 1] \o chunks[n].lines
                     \o (IF chunks[n].open = NoCut THEN <<>> ELSE <<chunks[n].open.l>>)
    IN  begun[Len(chunks)]
LeftOpen(chunks) == IF chunks = <<>> THEN NoCut ELSE chunks[Len(chunks)].open
LinesEnded(chunks) ==
    LET begun == LinesBegun(chunks)
    IN  IF LeftOpen(chunks) = NoCut THEN begun ELSE SubSeq(begun, 1, Len(begun) - 1)

\* The lines the decoder has been given, the last one as it stands once the stream
\* has ended, which also ends an event (for the bridge only when it ends a line).
Decoded == IF head = None THEN upstream ELSE <<>>
LinesGiven ==
    LET open == LeftOpen(Decoded)
    IN  LinesEnded(Decoded) \o (IF phase = "streaming" \/ open = NoCut THEN <<>>
                                ELSE <<AsItStands(open)>>)
LinesRead ==
    IF phase = "streaming" \/ (kind = "bridge" /\ LeftOpen(Decoded) = NoCut) THEN LinesGiven
    ELSE Append(LinesGiven, Blank)

\* The document of the event that the blank line p ends.
DataAt(lines, p) ==
    {q \in 1..(p - 1) : lines[q].k = "data" /\ \A r \in q..(p - 1) : lines[r].k # "blank"}
DocumentAt(lines, p) ==
    IF Cardinality(DataAt(lines, p)) = 1
      THEN lines[CHOOSE q \in DataAt(lines, p) : TRUE].d ELSE NoJson
DoneAt(lines, p) == lines[p].k = "blank" /\ DocumentAt(lines, p) = Done

TextOf(d) == IF d.json # "chat" THEN <<>>
             ELSE IF d.choice = None THEN <<>>
             ELSE Default(IF d.choice.content # None THEN d.choice.content ELSE d.choice.refusal)

\* The text of the events, for the bridge of those before [DONE].
Counts(decoder, lines, p) ==
    /\ lines[p].k = "blank"
    /\ decoder = "bridge" => \A q \in 1..p : ~DoneAt(lines, q)
TextIn(decoder, lines) ==
    LET text[n \in 0..Len(lines)] ==
            IF n = 0 THEN <<>>
            ELSE text[n - 1] \o (IF Counts(decoder, lines, n)
                                THEN TextOf(DocumentAt(lines, n)) ELSE <<>>)
    IN  text[Len(lines)]

\* What a client makes of the events it reads: how far each call has come, its
\* arguments and the text so far, the calls closed, the responses completed; and of
\* the bytes that are passed on, the chunks and the lines.  A statement that
\* contradicts what came before it is wrong.
NothingHeard ==
    [item |-> [i \in Index |-> "none"], args |-> [i \in Index |-> <<>>], text |-> <<>>,
     closed |-> 0, outcome |-> "open", outputs |-> <<>>, chunks |-> <<>>, lines |-> <<>>]

OutputAgrees(v, output) ==
    \A n \in DOMAIN output :
        IF output[n].type = "message" THEN output[n].d = v.text
        ELSE v.item[output[n].i] = "closed" /\ output[n].d = v.args[output[n].i]

Stage(item, args, x, from, to) ==
    [item EXCEPT ![x.i] = IF @ = from /\ (to # "announced" => x.d = args[x.i])
                          THEN to ELSE "wrong"]

Hear(v, x) ==
    CASE x.e = "text"   -> [v EXCEPT !.text = @ \o x.d]
      [] x.e = "added"  -> [v EXCEPT !.item = Stage(@, v.args, x, "none", "announced")]
      [] x.e = "delta"  -> [v EXCEPT !.args[x.i] = @ \o x.d]
      [] x.e = "stated" -> [v EXCEPT !.item = Stage(@, v.args, x, "announced", "stated")]
      [] x.e = "closed" -> [v EXCEPT !.item = Stage(@, v.args, x, "stated", "closed"),
                                     !.closed = @ + 1]
      [] x.e = "completed" ->
            [v EXCEPT !.outputs = Append(@, x.output),
                      !.outcome = IF @ = "open" /\ OutputAgrees(v, x.output)
                                  THEN "completed" ELSE "wrong"]
      [] x.e = "bytes"  -> [v EXCEPT !.chunks = Append(@, x.c)]
      [] x.e = "event"  -> [v EXCEPT !.lines = @ \o x.lines]
      [] OTHER          -> v

Heard(said) ==
    LET view[n \in 0..Len(said)] ==
            IF n = 0 THEN NothingHeard ELSE Hear(view[n - 1], said[n])
    IN  view[Len(said)]

Settled == phase \in {"streaming", "ended", "closed"}

Said == sent \o pending

\* However the bytes were cut into chunks, and wherever the stream ended, the text
\* recorded for a chat stream (flush_event, record_event) is the text of its
\* events in order, for the bridge of those before [DONE]; and the client of the
\* bridge is given that text and no other.
TextIsWhatUpstreamSent ==
    (kind \in {"bridge", "chat"} /\ Settled) =>
        /\ stats.output_text = TextIn(kind, LinesRead)
        /\ kind = "bridge" => Heard(Said).text = TextIn(kind, LinesRead)

\* What is recorded of a bridged stream is what its client was told: every call's
\* arguments, the number of calls closed, and the items of the response
\* (finish_response, record_response_id).  Of every stream, a call is counted once,
\* however often the upstream says that it is done (arguments.done and
\* output_item.done, then the end of the stream).
RecordIsWhatWasSaid ==
    /\ stats.tool_call_count =
           Cardinality({i \in DOMAIN stats.tool_calls : stats.tool_calls[i].done})
    /\ kind = "bridge" =>
        LET heard == Heard(Said)
        IN  /\ \A i \in Index : Entry(stats.tool_calls, i).arguments = heard.args[i]
            /\ stats.tool_call_count = heard.closed
            /\ \A n \in DOMAIN heard.outputs : heard.outputs[n] = stats.response_output_items

\* A client that is given the upstream's own bytes is given all of them in order:
\* the chunk verify_upstream_sse_head took is put back (upstream_bytes_stream), and
\* the id rewriter keeps back no more than the event under way.  Only the ids of
\* responses differ, and the client sees no other id than its own.
Anonymous(lines) ==
    [n \in DOMAIN lines |->
        IF lines[n].k = "data" THEN Data(rewrite_value(lines[n].d)) ELSE lines[n]]
BytesArePassedOn ==
    /\ kind = "chat" => Heard(Said).chunks \o SomeSeq(head, LAMBDA c : c) = upstream
    /\ (kind = "responses" /\ Settled) =>
          Anonymous(Heard(Said).lines \o dec.event_buffer) = Anonymous(LinesGiven)
    /\ kind = "responses" => \A n \in DOMAIN Said :
          Said[n].e = "event" => Said[n].lines = rewrite_event(Said[n].lines)

\* The refinement: what the client has been given, seen as the state of its contract.
Outcome ==
    LET outcome == Heard(sent).outcome
    IN  IF outcome = "open" /\ phase \in {"rejected", "broken", "dropped"} THEN "failed"
        ELSE outcome

Contract == INSTANCE ResponsesContract WITH
    Text <- Texts, item <- Heard(sent).item, args <- Heard(sent).args,
    text <- Heard(sent).text, outcome <- Outcome

\* Whatever chat chunks arrive, however they are cut, the events the bridge gives
\* its client (ChatToResponsesSseDecoder) are a behaviour of the contract.
KeepsContract == Contract!Spec

\* Once the upstream has ended, a client that stays reaches the end of the stream,
\* and a bridged one has been told that the response completed.
EndReachesClient ==
    (phase = "ended") ~>
        \/ phase = "dropped"
        \/ phase = "closed" /\ (kind = "bridge" => Outcome = "completed")

\* "An ordinary response is kept for 30 days" (README.md): a client of the bridge
\* that was told the response completed, with its items, can continue from it.
CompletedIsStored ==
    (kind = "bridge" /\ Outcome = "completed") =>
        \A n \in DOMAIN Heard(sent).outputs :
            Heard(sent).outputs[n] # <<>> => session.at = "saved"

\* "A comment line is inserted" when the upstream is silent (with_sse_keepalive_every,
\* pipeline.rs): it begins a line of its own in what the client reads.
KeepaliveIsALine ==
    \A n \in 2..Len(sent) :
        (sent[n] = KeepaliveSse /\ sent[n - 1].e = "bytes") => sent[n - 1].c.open = NoCut

=============================================================================
