---------------------------- MODULE Conversation ----------------------------
(***************************************************************************)
(* The /v1 handlers from the arrival of a request to its answer, and the   *)
(* response states that let a Responses request continue an earlier one.   *)
(*                                                                         *)
(* A Responses request that names a previous response loads that state,    *)
(* puts its items before its own and tries its candidates one after the    *)
(* other: a native upstream gets the items within the image budget, a chat *)
(* upstream gets them converted.  A stored answer becomes the next state,  *)
(* good for 30 days.  Chat and image requests share the shape of the       *)
(* handler but keep no state.  The server may crash at any step; at the    *)
(* start it encrypts the rows older versions left in plain text and settles*)
(* the activities of the streams it was interrupted in.                    *)
(*                                                                         *)
(* The choice and the order of the candidates, retries and cooldowns are   *)
(* Failover's: here a request simply has a list of attempts.  What happens *)
(* inside a stream is StreamRecording's and StreamBridge's: here a stream  *)
(* completes or breaks, and its activity is settled after that.  A         *)
(* message, a call or an image is one item; an item carries the request    *)
(* that said it, so that items never get mixed up.                         *)
(***************************************************************************)
EXTENDS Integers, FiniteSets, SequencesExt

CONSTANTS
    Identity,      \* who may call
    MaxOpen,       \* bound: requests at a time
    MaxRequests,   \* bound: requests, numbered as they arrive; the number
                   \* stands for the generated response id
    Shapes,        \* what clients send (see ShapeType)
    NativeReplies, \* answers of a native upstream: [array, output], of kinds of items
    ChatReplies,   \* messages of a chat upstream: [choices, text, calls]
    BudgetEnabled, \* IMAGE_BUDGET_ENABLED
    KeepLast,      \* IMAGE_BUDGET_KEEP_LAST
    MaxBytes,      \* IMAGE_BUDGET_MAX_BYTES
    Days,          \* how long a state is good for, in seconds (30 days)
    MaxNow,        \* bound: the clock, in half seconds
    LegacyRows,    \* the rows an older version left: how often each column
                   \* is encrypted, -1 for an empty one
    LegacyBatch,   \* LEGACY_RESPONSE_BATCH
    MaxFaults      \* bound: crashes and failing database statements

Request == 1 .. MaxRequests
None == 0

ASSUME ConversationAssumption ==
    /\ MaxRequests \in Nat /\ MaxNow \in Nat /\ MaxFaults \in Nat
    /\ MaxBytes \in Nat /\ Days \in Nat \ {0} /\ MaxOpen \in Nat
    /\ KeepLast \in Nat \ {0} /\ LegacyBatch \in Nat \ {0}
    /\ BudgetEnabled \in BOOLEAN

\* What clients send is JSON of these shapes; a request without a candidate
\* never gets this far (resolve_endpoint_model_candidates refuses it).
Kind == {"text", "image", "call", "reasoning", "empty"}

Flag == {"absent", "true", "false", "other"}

ShapeType ==
    [api : {"responses", "chat", "images"}, model : BOOLEAN, conversation : BOOLEAN, who : Identity,
     header : [thread : STRING, session : STRING], input : Seq([kind : Kind, bytes : Nat]),
     instructions : BOOLEAN, reasoning : BOOLEAN,
     store : Flag, stream : Flag, attempts : Seq({"native", "chat"})]

ASSUME ShapesAssumption ==
    Shapes \subseteq ShapeType /\ \A shape \in Shapes : shape.attempts # <<>>

ASSUME RepliesAssumption ==
    /\ NativeReplies \subseteq [array : BOOLEAN, output : Seq(Kind)]
    /\ ChatReplies \subseteq [choices : {"message", "empty", "invalid"}, text : BOOLEAN, calls : Nat]

\* No older version encrypted a column twice.
ASSUME LegacyAssumption ==
    /\ Len(LegacyRows) \in Nat /\ DOMAIN LegacyRows = 1 .. Len(LegacyRows)
    /\ \A i \in DOMAIN LegacyRows : \A column \in DOMAIN LegacyRows[i] :
         LegacyRows[i][column] \in -1 .. 1

VARIABLES
    now,     \* the time, in half seconds
    server,  \* "down", "encrypting", "recovering", "cleaning" or "up"
    batch,   \* the startup's batch of legacy rows: [offset, rows]
    legacy,  \* per legacy row, how often each of its columns is encrypted
    rows,    \* response id -> its state, or NoRow
    req,     \* what each request has done so far
    log,     \* request -> the activities recorded for it; writing: the rollout
             \* of a stream is not settled yet
    faults,  \* how many faults have happened
    told     \* history: what each request asked and was told, never trimmed; how
             \* its stream ended, and whether its recording had a mishap

vars == <<now, server, batch, legacy, rows, req, log, faults, told>>

NoRow == [who |-> None]
Idle == [phase |-> "idle"]
NoBody == [to |-> "-"]
Undecodable == <<"undecodable">>

\* An item of a conversation; bytes is the length of an image's address.
Item == [kind : Kind,
         of : Request, at : Nat, bytes : Nat]

\* What stands in for a dropped image: the same text everywhere.
placeholder_text == [kind |-> "text", of |-> None, at |-> 0, bytes |-> 0]

Final == {"refused", "answered", "settled", "lost"}

Open(r) == req[r] # Idle /\ req[r].phase \notin Final

Init ==
    /\ now = 0 /\ server = "down" /\ faults = 0
    /\ batch = [offset |-> 0, rows |-> <<>>]
    /\ legacy = LegacyRows
    /\ rows = [r \in Request |-> NoRow]
    /\ req = [r \in Request |-> Idle]
    /\ log = [r \in Request |-> <<>>]
    /\ told = [r \in Request |-> [id |-> FALSE, asked |-> <<>>, said |-> <<>>, until |-> 0,
                              end |-> "-", mishap |-> FALSE]]

Fault == faults < MaxFaults /\ faults' = faults + 1
NoFault == UNCHANGED faults

-----------------------------------------------------------------------------
(***************************************************************************)
(* Who calls, and which activity thread the call belongs to.  A header is  *)
(* absent ("-"), a safe file name or an unsafe one ("../").                *)
(***************************************************************************)
is_safe_session_segment(value) == value \notin {"-", "../"}

extract_session_id(h) == h.session

extract_thread_id(h) ==
    IF is_safe_session_segment(h.thread) THEN h.thread
    ELSE IF is_safe_session_segment(h.session) THEN h.session
    ELSE "-"

\* The thread a header names if it is safe, else the conversation's.
session_context(h, fallback) ==
    LET asked == IF extract_thread_id(h) # "-" THEN extract_thread_id(h)
                 ELSE extract_session_id(h)
    IN  IF is_safe_session_segment(asked) THEN <<"header", asked>>
        ELSE <<"conversation", fallback>>

-----------------------------------------------------------------------------
(***************************************************************************)
(* The image budget of native requests.                                    *)
(***************************************************************************)
\* The places of the images.
collect_images(items) == {i \in DOMAIN items : items[i].kind = "image"}

\* An image counts with the length of its address, other items do not count.
image_body_bytes(items, i) == IF items[i].kind = "image" THEN items[i].bytes ELSE 0

TotalBytes(items) ==
    LET sum[i \in 0 .. Len(items)] ==
            IF i = 0 THEN 0 ELSE sum[i - 1] + image_body_bytes(items, i)
    IN  sum[Len(items)]

\* All images but the last KeepLast.
Droppable(items) ==
    {i \in collect_images(items) : Cardinality({j \in collect_images(items) : j > i}) >= KeepLast}

replace_with_placeholder(items, i) == [items EXCEPT ![i] = placeholder_text]

Drop(items, acc, i) ==
    [items |-> replace_with_placeholder(acc.items, i),
     remaining |-> acc.remaining - image_body_bytes(items, i),
     dropped |-> acc.dropped + 1]

\* Mutant: one image more is dropped when the rest is just within the budget.
DropOldestOneMore(items) ==
    LET after[i \in 0 .. Len(items)] ==
            IF i = 0 THEN [items |-> items, remaining |-> TotalBytes(items), dropped |-> 0]
            ELSE IF i \notin Droppable(items) \/ after[i - 1].remaining < MaxBytes
              THEN after[i - 1]
            ELSE Drop(items, after[i - 1], i)
    IN  after[Len(items)]

\* The loop: images go from the oldest on while the total is over the budget.
DropOldest(items) ==
    LET after[i \in 0 .. Len(items)] ==
            IF i = 0 THEN [items |-> items, remaining |-> TotalBytes(items), dropped |-> 0]
            ELSE IF i \notin Droppable(items) \/ after[i - 1].remaining <= MaxBytes
              THEN after[i - 1]
            ELSE Drop(items, after[i - 1], i)
    IN  after[Len(items)]

\* Whether the items meet the budget, and how.
apply(items) ==
    LET pruned == DropOldest(items)
    IN  IF ~BudgetEnabled \/ TotalBytes(items) <= MaxBytes
          THEN [ok |-> TRUE, items |-> items]
        ELSE IF Droppable(items) = {}
          THEN [ok |-> FALSE, items |-> items]
        ELSE [ok |-> pruned.dropped > 0 /\ pruned.remaining <= MaxBytes,
              items |-> pruned.items]

\* Whether a native upstream may be sent the items, and which of them.
budget_input_items(items) ==
    IF BudgetEnabled THEN apply(items) ELSE [ok |-> TRUE, items |-> items]

-----------------------------------------------------------------------------
(***************************************************************************)
(* Converting requests and answers.                                        *)
(***************************************************************************)
\* An absent flag has its default; a value that is no flag is refused.
decode_optional_bool(value, default) == IF value = "absent" THEN default ELSE value = "true"

\* A request must name a model, have flags that are flags, and cannot name a
\* conversation.
decode_responses_request(shape) ==
    /\ shape.model /\ ~shape.conversation
    /\ shape.stream # "other" /\ shape.store # "other"

\* What the request asked for; the chat and image handlers take a value that
\* is no flag for an absent one.
Streams(r) == decode_optional_bool(req[r].shape.stream, FALSE)

Stores(r) == req[r].shape.api = "responses" /\ decode_optional_bool(req[r].shape.store, TRUE)

\* The client's own input, as items.
current_input_items(r, shape) ==
    [i \in DOMAIN shape.input |->
        [kind |-> shape.input[i].kind, of |-> r, at |-> i, bytes |-> shape.input[i].bytes]]

continuation_items(parent, current) ==
    parent.request_items \o parent.response_items \o current

\* A chat upstream is given messages and calls only.  What this request
\* itself brings is checked first, then everything it continues.
validate_responses_bridge_payload(shape, current) ==
    /\ ~shape.reasoning
    /\ \A i \in DOMAIN current : current[i].kind \notin {"image", "reasoning"}

decode_items_for_chat_bridge(items) == \A i \in DOMAIN items : items[i].kind # "reasoning"

validate_internal_request_for_bridge(items) == \A i \in DOMAIN items : items[i].kind # "image"

\* What the upstream gets: nothing that refers to this server's own state.
encode_native_responses_request_body(shape, items) ==
    [to |-> "native", items |-> items, instructions |-> shape.instructions]

\* Every item becomes a message of its own; instructions have no place in it.
encode_chat_request(shape, items) ==
    [to |-> "chat", items |-> items, instructions |-> FALSE]

\* An answer as output items of request r; a native answer keeps all of its.
OutputItems(r, kinds) ==
    [i \in DOMAIN kinds |-> [kind |-> kinds[i], of |-> r, at |-> 100 + i, bytes |-> 0]]

\* The answer of a native upstream must have an array of output items.
decode_responses_response(reply) == reply.array

\* The message of a chat upstream: its text, then its calls, or an empty
\* message; its reasoning is left out.  No choice at all is an empty answer,
\* a choice without a message is none.
decode_chat_response(reply) ==
    LET output == (IF reply.text THEN <<"text">> ELSE <<>>) \o [i \in 1 .. reply.calls |-> "call"]
    IN  CASE reply.choices = "empty" -> <<>>
          [] reply.choices = "invalid" -> Undecodable
          [] reply.choices = "message" -> IF output = <<>> THEN <<"empty">> ELSE output

\* The text is one output message, every call an item of its own.
encode_responses_response(r, output) == OutputItems(r, output)

-----------------------------------------------------------------------------
(***************************************************************************)
(* The stored states.  An expiry is kept in whole seconds.                 *)
(***************************************************************************)
Sec(t) == t \div 2

\* The row written for a request q: what was sent and what came back.
save_response_state(q) ==
    [who |-> q.shape.who, prev |-> q.prev, conversation |-> q.conversation,
     request_items |-> q.body.items, response_items |-> q.output,
     expires |-> Sec(now) + Days]

\* A row is refused from the instant it expires on.
Expired(row) == 2 * row.expires <= now

\* The state an identity may continue; rows of the older format never are.
load_response_state(who, id) ==
    IF id \in Request /\ rows[id] # NoRow /\ rows[id].who = who /\ ~Expired(rows[id])
    THEN rows[id] ELSE NoRow

\* Mutant: the expiry is taken for the time of creation.
delete_created_before ==
    rows' = [r \in Request |->
                IF rows[r] # NoRow /\ rows[r].expires < Sec(now) - Days THEN NoRow ELSE rows[r]]

\* The cleanup compares whole seconds.
delete_expired_response_states ==
    rows' = [r \in Request |->
                IF rows[r] # NoRow /\ rows[r].expires < Sec(now) THEN NoRow ELSE rows[r]]

-----------------------------------------------------------------------------
(***************************************************************************)
(* The handlers.                                                           *)
(***************************************************************************)
\* What a handler held is gone when it ends.
Finish(q, phase) ==
    [q EXCEPT !.phase = phase, !.n = 1, !.parent = NoRow, !.body = NoBody, !.output = <<>>]

Refuse(r) == req' = [req EXCEPT ![r] = Finish(@, "refused")]

\* A request of any shape arrives.  A Responses request may name any response
\* whose id some client has been given: one still streaming, broken or never
\* stored, and one of another identity, too.  That state is read once, for
\* all candidates, and the request is refused if there is none.
create_response(r, shape, prev) ==
    LET parent == load_response_state(shape.who, prev)
        q == [phase |-> "trying", shape |-> shape, prev |-> prev, parent |-> parent,
              conversation |-> IF parent = NoRow THEN r ELSE parent.conversation,
              n |-> 1, body |-> NoBody, output |-> <<>>]
    IN  /\ server = "up" /\ req[r] = Idle
        /\ \A p \in Request : p < r => req[p] # Idle
        /\ Cardinality({p \in Request : Open(p)}) < MaxOpen
        /\ shape.api = "responses"
        /\ prev # None => told[prev].id
        /\ \/ /\ decode_responses_request(shape) /\ (prev = None \/ parent # NoRow) /\ NoFault
              /\ req' = [req EXCEPT ![r] = q]
           \/ /\ ~decode_responses_request(shape) \/ (prev # None /\ parent = NoRow)
              /\ req' = [req EXCEPT ![r] = Finish(q, "refused")] /\ NoFault
           \/ /\ decode_responses_request(shape) /\ prev # None
              /\ req' = [req EXCEPT ![r] = Finish(q, "refused")] /\ Fault
        /\ told' = [told EXCEPT ![r].asked =
                      (IF prev = None THEN <<>> ELSE told[prev].asked \o told[prev].said)
                      \o current_input_items(r, shape)]
        /\ UNCHANGED <<now, server, batch, legacy, rows, log>>

\* A chat or an image request needs nothing that is stored.
ArriveStateless(r, shape, api) ==
    /\ server = "up" /\ req[r] = Idle
    /\ \A p \in Request : p < r => req[p] # Idle
    /\ Cardinality({p \in Request : Open(p)}) < MaxOpen
    /\ shape.api = api
    /\ LET q == [phase |-> "trying", shape |-> shape, prev |-> None, parent |-> NoRow,
                 conversation |-> r, n |-> 1, body |-> NoBody, output |-> <<>>]
       IN  req' = [req EXCEPT ![r] = IF shape.model THEN q ELSE Finish(q, "refused")]
    /\ UNCHANGED <<now, server, batch, legacy, rows, log, faults, told>>

create_chat_completion(r, shape) == ArriveStateless(r, shape, "chat")

create_image_generation(r, shape) == ArriveStateless(r, shape, "images")

InputItems(r) ==
    LET current == current_input_items(r, req[r].shape)
    IN  IF req[r].parent = NoRow THEN current ELSE continuation_items(req[r].parent, current)

Send(r, body) == req' = [req EXCEPT ![r] = [@ EXCEPT !.phase = "waiting", !.body = body]]

\* One attempt: the request is prepared and sent, or refused for good.
create_native_response(r) ==
    LET budgeted == budget_input_items(InputItems(r))
    IN  IF budgeted.ok
        THEN Send(r, encode_native_responses_request_body(req[r].shape, budgeted.items))
        ELSE Refuse(r)

create_chat_response(r) ==
    LET items == InputItems(r)
    IN  IF /\ validate_responses_bridge_payload(req[r].shape,
                                                current_input_items(r, req[r].shape))
           /\ decode_items_for_chat_bridge(items)
           /\ validate_internal_request_for_bridge(items)
        THEN Send(r, encode_chat_request(req[r].shape, items))
        ELSE Refuse(r)

create_response_with_candidate(r) ==
    /\ req[r].phase = "trying" /\ req[r].shape.api = "responses"
    /\ IF req[r].shape.attempts[req[r].n] = "native"
       THEN create_native_response(r)
       ELSE create_chat_response(r)
    /\ UNCHANGED <<now, server, batch, legacy, rows, log, faults, told>>

\* The chat and image handlers pass the payload on with the model replaced.
create_chat_completion_with_candidate(r) ==
    /\ req[r].phase = "trying" /\ req[r].shape.api = "chat"
    /\ Send(r, [to |-> "chat"])
    /\ UNCHANGED <<now, server, batch, legacy, rows, log, faults, told>>

create_image_generation_with_candidate(r) ==
    /\ req[r].phase = "trying" /\ req[r].shape.api = "images"
    /\ Send(r, [to |-> "images"])
    /\ UNCHANGED <<now, server, batch, legacy, rows, log, faults, told>>

Thread(r) == session_context(req[r].shape.header, req[r].conversation)

Logged(r, status) ==
    log' = [log EXCEPT ![r] = Append(@, [status |-> status, thread |-> Thread(r),
                                         writing |-> status = "streaming"])]

\* Mutant: one candidate more than there are.
NextCandidateOneMore(r) ==
    \/ /\ req[r].n <= Len(req[r].shape.attempts)
       /\ req' = [req EXCEPT ![r] = [@ EXCEPT !.phase = "trying", !.n = req[r].n + 1, !.body = NoBody]]
    \/ Refuse(r)

\* The next attempt, if there is one and the error is none that every
\* candidate would give.
NextCandidate(r) ==
    \/ /\ req[r].n < Len(req[r].shape.attempts)
       /\ req' = [req EXCEPT ![r] = [@ EXCEPT !.phase = "trying", !.n = req[r].n + 1, !.body = NoBody]]
    \/ Refuse(r)

Waiting(r, api, to) == req[r].phase = "waiting" /\ req[r].shape.api = api /\ req[r].body.to = to

(***************************************************************************)
(* An attempt fails and the next candidate is tried.                       *)
(***************************************************************************)
\* The failure is recorded as well as possible ...
record_upstream_failure(r) ==
    /\ \/ Logged(r, "failed") /\ NoFault
       \/ UNCHANGED log /\ Fault
    /\ NextCandidate(r)
    /\ UNCHANGED <<now, server, batch, legacy, rows, told>>

\* ... or for certain: a failure to record it ends the request ...
record_upstream_status(r) ==
    /\ \/ Logged(r, "failed") /\ NoFault /\ NextCandidate(r)
       \/ UNCHANGED log /\ Fault /\ Refuse(r)
    /\ UNCHANGED <<now, server, batch, legacy, rows, told>>

\* ... or not at all.
FailUnrecorded(r) ==
    /\ NextCandidate(r)
    /\ UNCHANGED <<now, server, batch, legacy, rows, log, faults, told>>

\* The upstream cannot be reached, answers what is no JSON, or sends a stream
\* without an event at its head.  A Responses request records that; so does
\* an image request, but for the head of a stream; a chat request does not.
NativeAttemptFails(r) == Waiting(r, "responses", "native") /\ record_upstream_failure(r)

BridgedAttemptFails(r) == Waiting(r, "responses", "chat") /\ record_upstream_failure(r)

ChatAttemptFails(r) == Waiting(r, "chat", "chat") /\ FailUnrecorded(r)

record_image_activity_best_effort(r, status) ==
    \/ Logged(r, status) /\ NoFault
    \/ UNCHANGED log /\ Fault

ImageAttemptFails(r) ==
    /\ Waiting(r, "images", "images")
    /\ record_image_activity_best_effort(r, "failed")
    /\ NextCandidate(r)
    /\ UNCHANGED <<now, server, batch, legacy, rows, told>>

ImageHeadFails(r) == Waiting(r, "images", "images") /\ Streams(r) /\ FailUnrecorded(r)

\* The upstream answers with an error status.
NativeStatusFails(r) == Waiting(r, "responses", "native") /\ record_upstream_status(r)

BridgedStatusFails(r) == Waiting(r, "responses", "chat") /\ record_upstream_status(r)

ChatStatusFails(r) == Waiting(r, "chat", "chat") /\ record_upstream_status(r)

(***************************************************************************)
(* The upstream answers in one piece.                                      *)
(***************************************************************************)
\* Mutant: the answer is given when it could not be saved.
SaveAnswerBestEffort(r, output) ==
    LET q == [req[r] EXCEPT !.phase = "recording", !.output = output]
    IN  /\ ~Streams(r)
        /\ \/ /\ Stores(r) /\ NoFault
              /\ rows' = [rows EXCEPT ![r] = save_response_state(q)]
              /\ told' = [told EXCEPT ![r].until = Sec(now) + Days]
           \/ /\ UNCHANGED <<rows, told>>
              /\ IF Stores(r) THEN Fault ELSE NoFault
        /\ req' = [req EXCEPT ![r] = q]
        /\ UNCHANGED <<now, server, batch, legacy, log>>

\* A stored answer is saved first, and there is no answer without it.
SaveAnswer(r, output) ==
    LET q == [req[r] EXCEPT !.phase = "recording", !.output = output]
    IN  /\ ~Streams(r)
        /\ \/ /\ ~Stores(r) /\ UNCHANGED <<rows, told>> /\ NoFault
              /\ req' = [req EXCEPT ![r] = q]
           \/ /\ Stores(r) /\ NoFault
              /\ rows' = [rows EXCEPT ![r] = save_response_state(q)]
              /\ told' = [told EXCEPT ![r].until = Sec(now) + Days]
              /\ req' = [req EXCEPT ![r] = q]
           \/ Stores(r) /\ UNCHANGED <<rows, told>> /\ Refuse(r) /\ Fault
        /\ UNCHANGED <<now, server, batch, legacy, log>>

NativeAnswers(r) ==
    /\ Waiting(r, "responses", "native")
    /\ \E reply \in NativeReplies :
         \/ decode_responses_response(reply) /\ SaveAnswer(r, OutputItems(r, reply.output))
         \/ ~decode_responses_response(reply) /\ ~Streams(r) /\ record_upstream_failure(r)

BridgedAnswers(r) ==
    /\ Waiting(r, "responses", "chat")
    /\ \E reply \in ChatReplies :
         LET output == decode_chat_response(reply)
         IN  \/ output # Undecodable /\ SaveAnswer(r, encode_responses_response(r, output))
             \/ output = Undecodable /\ ~Streams(r) /\ record_upstream_failure(r)

Tell(r) ==
    /\ req' = [req EXCEPT ![r] = Finish(@, "answered")]
    /\ told' = [told EXCEPT ![r] = [@ EXCEPT !.id = TRUE, !.said = req[r].output]]

\* Then the activity, and no answer without it.
RecordAnswer(r) ==
    /\ \/ Logged(r, "success") /\ Tell(r) /\ NoFault
       \/ UNCHANGED log /\ Fault /\ Refuse(r) /\ UNCHANGED told
    /\ UNCHANGED <<now, server, batch, legacy, rows>>

RecordNative(r) == req[r].phase = "recording" /\ req[r].body.to = "native" /\ RecordAnswer(r)

RecordBridged(r) == req[r].phase = "recording" /\ req[r].body.to = "chat" /\ RecordAnswer(r)

ChatAnswers(r) == Waiting(r, "chat", "chat") /\ ~Streams(r) /\ RecordAnswer(r)

\* An image is answered whether it is recorded or not.
ImageAnswers(r) ==
    /\ Waiting(r, "images", "images") /\ ~Streams(r)
    /\ record_image_activity_best_effort(r, "success")
    /\ Tell(r)
    /\ UNCHANGED <<now, server, batch, legacy, rows>>

(***************************************************************************)
(* The upstream streams.                                                   *)
(***************************************************************************)
Stream(r, mishap) ==
    /\ req' = [req EXCEPT ![r].phase = "streaming"]
    /\ told' = [told EXCEPT ![r] = [@ EXCEPT !.id = TRUE, !.mishap = mishap]]

\* That is recorded before the first byte is passed on.
OpenStream(r) ==
    /\ Streams(r)
    /\ \/ Logged(r, "streaming") /\ NoFault /\ Stream(r, FALSE)
       \/ UNCHANGED <<log, told>> /\ Fault /\ Refuse(r)
    /\ UNCHANGED <<now, server, batch, legacy, rows>>

OpenNativeStream(r) == Waiting(r, "responses", "native") /\ OpenStream(r)

OpenBridgedStream(r) == Waiting(r, "responses", "chat") /\ OpenStream(r)

OpenChatStream(r) == Waiting(r, "chat", "chat") /\ OpenStream(r)

\* An image's stream is passed on whether it is recorded or not.
OpenImageStream(r) ==
    /\ Waiting(r, "images", "images") /\ Streams(r)
    /\ \/ Logged(r, "streaming") /\ NoFault /\ Stream(r, FALSE)
       \/ UNCHANGED log /\ Fault /\ Stream(r, TRUE)
    /\ UNCHANGED <<now, server, batch, legacy, rows>>

\* The completion is observed: the state is saved if the stream is to be
\* stored and its items are known, then the client sees the completion.  A
\* chat stream may complete before its items are known (seen is FALSE).
StreamCompletes(r, kinds, seen) ==
    LET q == [req[r] EXCEPT !.output = OutputItems(r, kinds)]
        ready == Stores(r) /\ kinds # <<>> /\ seen
        end == [told[r] EXCEPT !.said = q.output, !.end = "completion"]
    IN  /\ q.phase = "streaming"
        /\ q.shape.api # "responses" => kinds = <<>>
        /\ ~seen => q.body.to = "chat"
        /\ \/ /\ ready /\ NoFault
              /\ rows' = [rows EXCEPT ![r] = save_response_state(q)]
              /\ told' = [told EXCEPT ![r] = [end EXCEPT !.until = Sec(now) + Days]]
           \/ /\ IF ready THEN Fault ELSE NoFault
              /\ UNCHANGED rows
              /\ told' = [told EXCEPT ![r] = end]
        /\ req' = [req EXCEPT ![r] = Finish(@, "completed")]
        /\ UNCHANGED <<now, server, batch, legacy, log>>

\* The upstream breaks off or the client goes, be it after the completion.
StreamBreaks(r) ==
    /\ req[r].phase \in {"streaming", "completed"}
    /\ req' = [req EXCEPT ![r] = Finish(@, "broken")]
    /\ told' = [told EXCEPT ![r].end = "break"]
    /\ UNCHANGED <<now, server, batch, legacy, rows, log, faults>>

(***************************************************************************)
(* The activity of a stream is settled: the row is updated, the end of the *)
(* rollout is written, the rollout's own row is completed.  A failure of   *)
(* any of these is only logged.                                            *)
(***************************************************************************)
Unsettled(r) == {i \in DOMAIN log[r] : log[r][i].writing}

SetActivity(r, status, writing) ==
    log' = [log EXCEPT ![r] = [i \in DOMAIN @ |->
               IF @[i].writing THEN [@[i] EXCEPT !.status = status, !.writing = writing] ELSE @[i]]]

GoOn(r, phase) == req' = [req EXCEPT ![r].phase = phase]

Mishap(r) == Fault /\ told' = [told EXCEPT ![r].mishap = TRUE]
NoMishap == NoFault /\ UNCHANGED told

\* record_stream_end, record_stream_error and record_downstream_disconnect.
update_stream_log(r) ==
    /\ req[r].phase \in {"completed", "broken"}
    /\ \/ /\ SetActivity(r, IF req[r].phase = "completed" THEN "success" ELSE "failed", TRUE)
          /\ NoMishap
       \/ UNCHANGED log /\ Mishap(r)
    /\ GoOn(r, "finalizing")
    /\ UNCHANGED <<now, server, batch, legacy, rows>>

\* The rest of the body and the end of the turn are appended to the file.
finalize_rollout(r) ==
    /\ req[r].phase = "finalizing"
    /\ \/ GoOn(r, "closing") /\ NoMishap
       \/ GoOn(r, "incomplete") /\ Mishap(r)   \* an event is not appended
       \/ GoOn(r, "settled") /\ Mishap(r)      \* nor is the end
    /\ UNCHANGED <<now, server, batch, legacy, rows, log>>

mark_rollout_incomplete(r) ==
    /\ req[r].phase = "incomplete"
    /\ \/ SetActivity(r, "failed", TRUE) /\ NoMishap
       \/ UNCHANGED log /\ Mishap(r)
    /\ GoOn(r, "closing")
    /\ UNCHANGED <<now, server, batch, legacy, rows>>

complete_stream(r) ==
    /\ req[r].phase = "closing"
    /\ \/ /\ log' = [log EXCEPT ![r] = [i \in DOMAIN @ |-> [@[i] EXCEPT !.writing = FALSE]]]
          /\ NoMishap
       \/ UNCHANGED log /\ Mishap(r)
    /\ GoOn(r, "settled")
    /\ UNCHANGED <<now, server, batch, legacy, rows>>

-----------------------------------------------------------------------------
(***************************************************************************)
(* Starting, stopping and cleaning up.                                     *)
(***************************************************************************)
Start ==
    /\ server = "down" /\ server' = "encrypting"
    /\ batch' = [offset |-> 0, rows |-> <<>>]
    /\ UNCHANGED <<now, legacy, rows, req, log, faults, told>>

\* Mutant: the prefix is not looked at.
encrypt_again(layers) == IF layers >= 0 THEN layers + 1 ELSE layers

\* A column is encrypted unless it is empty or bears the prefix already.
encrypt_legacy_value(layers) == IF layers = 0 THEN 1 ELSE layers

\* The rows are read in batches, in the order of their keys.
encrypt_legacy_response_sessions ==
    LET end == IF batch.offset + LegacyBatch < Len(LegacyRows)
               THEN batch.offset + LegacyBatch ELSE Len(LegacyRows)
    IN  /\ server = "encrypting" /\ batch.rows = <<>>
        /\ batch' = [offset |-> end,
                     rows |-> [i \in 1 .. end - batch.offset |-> batch.offset + i]]
        /\ server' = IF end = batch.offset THEN "recovering" ELSE server
        /\ UNCHANGED <<now, legacy, rows, req, log, faults, told>>

\* Each row of the batch is updated by a statement of its own.
EncryptLegacyRow ==
    /\ server = "encrypting" /\ batch.rows # <<>>
    /\ legacy' = [legacy EXCEPT ![Head(batch.rows)] =
                    [column \in DOMAIN @ |-> encrypt_legacy_value(@[column])]]
    /\ batch' = [batch EXCEPT !.rows = Tail(@)]
    /\ UNCHANGED <<now, server, rows, req, log, faults, told>>

\* Mutant: every rollout is taken for an interrupted one.
RecoverAnyRollout(r) ==
    /\ server = "recovering" /\ log[r] # <<>>
    /\ log' = [log EXCEPT ![r] = [i \in DOMAIN @ |-> [@[i] EXCEPT !.status = "failed", !.writing = FALSE]]]
    /\ UNCHANGED <<now, server, batch, legacy, rows, req, faults, told>>

\* recover_interrupted: whatever a stream had come to, its activity has failed.
recover_rollout_status(r) ==
    /\ server = "recovering" /\ Unsettled(r) # {}
    /\ SetActivity(r, "failed", FALSE)
    /\ UNCHANGED <<now, server, batch, legacy, rows, req, faults, told>>

\* A failure ends the recovery but not the startup.
RecoveryEnds ==
    /\ server = "recovering" /\ server' = "cleaning"
    /\ \/ (\A r \in Request : Unsettled(r) = {}) /\ NoFault
       \/ Fault
    /\ UNCHANGED <<now, batch, legacy, rows, req, log, told>>

StartupCleanup ==
    /\ server = "cleaning" /\ server' = "up"
    /\ delete_expired_response_states
    /\ UNCHANGED <<now, batch, legacy, req, log, faults, told>>

\* The daily task.
spawn_response_state_cleanup ==
    /\ server = "up"
    /\ delete_expired_response_states
    /\ UNCHANGED <<now, server, batch, legacy, req, log, faults, told>>

\* What was in memory is lost.
Crash ==
    /\ server # "down" /\ Fault
    /\ server' = "down"
    /\ req' = [r \in Request |-> IF Open(r) THEN Finish(req[r], "lost") ELSE req[r]]
    /\ UNCHANGED <<now, batch, legacy, rows, log, told>>

Tick == now < MaxNow /\ now' = now + 1
        /\ UNCHANGED <<server, batch, legacy, rows, req, log, faults, told>>

Serve(r) ==
    /\ req[r] # Idle
    /\ \/ create_response_with_candidate(r)
       \/ create_chat_completion_with_candidate(r)
       \/ create_image_generation_with_candidate(r)
       \/ NativeAttemptFails(r) \/ BridgedAttemptFails(r) \/ ChatAttemptFails(r)
       \/ ImageAttemptFails(r) \/ ImageHeadFails(r)
       \/ NativeStatusFails(r) \/ BridgedStatusFails(r) \/ ChatStatusFails(r)
       \/ NativeAnswers(r) \/ BridgedAnswers(r) \/ ChatAnswers(r) \/ ImageAnswers(r)
       \/ RecordNative(r) \/ RecordBridged(r)
       \/ OpenNativeStream(r) \/ OpenBridgedStream(r)
       \/ OpenChatStream(r) \/ OpenImageStream(r)
       \/ \E kinds \in {reply.output : reply \in NativeReplies}, seen \in BOOLEAN : StreamCompletes(r, kinds, seen)
       \/ StreamBreaks(r)
       \/ update_stream_log(r) \/ finalize_rollout(r)
       \/ mark_rollout_incomplete(r) \/ complete_stream(r)

Recover == (\E r \in Request : recover_rollout_status(r)) \/ RecoveryEnds

Next ==
    \/ \E r \in Request, shape \in Shapes :
         \/ \E prev \in Request \cup {None} : create_response(r, shape, prev)
         \/ create_chat_completion(r, shape)
         \/ create_image_generation(r, shape)
    \/ \E r \in Request : Serve(r)
    \/ Start \/ encrypt_legacy_response_sessions \/ EncryptLegacyRow
    \/ Recover \/ StartupCleanup
    \/ spawn_response_state_cleanup \/ Crash \/ Tick

\* The startup runs to its end and the cleanup runs again and again; nothing
\* is assumed of clients and upstreams.
Fairness ==
    /\ WF_vars(Start)
    /\ WF_vars(encrypt_legacy_response_sessions)
    /\ WF_vars(EncryptLegacyRow)
    /\ WF_vars(Recover)
    /\ WF_vars(StartupCleanup)
    /\ WF_vars(spawn_response_state_cleanup)

Spec == Init /\ [][Next]_vars /\ Fairness

-----------------------------------------------------------------------------
(***************************************************************************)
(* Properties.                                                             *)
(***************************************************************************)
Items == Seq(Item \cup {placeholder_text})

\* Type correctness of the state.
TypeOK ==
    /\ now \in 0 .. MaxNow /\ faults \in 0 .. MaxFaults
    /\ server \in {"down", "encrypting", "recovering", "cleaning", "up"}
    /\ batch.offset \in 0 .. Len(LegacyRows) /\ batch.rows \in Seq(DOMAIN LegacyRows)
    /\ \A i \in DOMAIN LegacyRows : \A column \in DOMAIN legacy[i] : legacy[i][column] \in -1 .. 2
    /\ \A r \in Request :
         /\ rows[r] = NoRow \/ /\ rows[r].who \in Identity /\ rows[r].prev \in Request \cup {None}
                               /\ rows[r].conversation \in Request /\ rows[r].expires \in Nat
                               /\ rows[r].request_items \in Items /\ rows[r].response_items \in Items
         /\ req[r] = Idle \/ /\ req[r].shape \in Shapes /\ req[r].prev \in Request \cup {None}
                             /\ req[r].phase \in Final \cup {"trying", "waiting", "recording", "streaming",
                                    "completed", "broken", "finalizing", "incomplete", "closing"}
                             /\ req[r].n \in DOMAIN req[r].shape.attempts
                             /\ req[r].output \in Items
         /\ \A i \in DOMAIN log[r] : /\ log[r][i].status \in {"streaming", "success", "failed"}
                                     /\ log[r][i].writing \in BOOLEAN

\* The conversation with the images before place k left out.
Abridged(items, k) ==
    [i \in DOMAIN items |-> IF items[i].kind = "image" /\ i < k THEN placeholder_text ELSE items[i]]

ImagesFrom(items, k) == {i \in k .. Len(items) : items[i].kind = "image"}

\* The conversation with the images before place k left out fits the budget.
Fits(items, k) == BudgetEnabled => TotalBytes(Abridged(items, k)) <= MaxBytes

\* Whatever is sent to an upstream for a Responses request is the whole
\* conversation, exactly: all the client asked and was told along the chain
\* of previous responses, in order, and nothing of another identity, however
\* often parts of it were stored, expired or trimmed on the way.  A native
\* upstream gets the newest images that fit the budget and never fewer than
\* the last KeepLast; a chat upstream gets no image.  Code: continuation_items
\* (state.rs:20), apply (image_budget.rs:105), load_response_state.
SentIsTheConversation ==
    \A r \in Request :
      (req[r] # Idle /\ req[r].shape.api = "responses" /\ req[r].body # NoBody) =>
        LET items == req[r].body.items
            asked == told[r].asked
            kept(k) == Cardinality(ImagesFrom(asked, k))
        IN  /\ \E k \in 1 .. Len(asked) + 1 :
                 /\ items = Abridged(asked, k)
                 /\ k > 1 => kept(k) >= KeepLast
                 /\ req[r].body.to = "native" =>
                      Fits(asked, k) /\ \A j \in 1 .. k - 1 : ~Fits(asked, j) \/ kept(j) = kept(k)
                 /\ req[r].body.to = "chat" => kept(k) = 0
            /\ \A i \in DOMAIN items :
                 items[i].of = None \/ req[items[i].of].shape.who = req[r].shape.who

\* A stored answer the client has seen can be continued by its identity, with
\* exactly the output the client saw, from that moment until it expires:
\* no crash, cleanup, other request or failed statement takes it away.  And no
\* answer in one piece is given before it is stored, if it is to be; only of a
\* stream may the client see the end when the state could not be saved.  Code:
\* save_response_state before record_completed (native.rs:305), the expiry
\* compared by load_response_state and delete_expired_response_states.
AnsweredIsContinuable ==
    \A r \in Request : (req[r] # Idle /\ Stores(r)) =>
      /\ (told[r].id /\ now < 2 * told[r].until) =>
           LET state == load_response_state(req[r].shape.who, r)
           IN  /\ state # NoRow
               /\ state.response_items = told[r].said
               /\ state.conversation = IF req[r].prev = None THEN r ELSE req[req[r].prev].conversation
      /\ req[r].phase = "answered" => told[r].until > 0

\* The activities of a request tell what happened to it: at most one per
\* attempt, all in one thread with a safe name (that of the conversation it
\* continues, when the client names none), only the last of them not failed,
\* and nobody but the caller of an image gets an answer in one piece that is not
\* recorded.  A stream is a success only if the client saw its completion and
\* did not go before the end was recorded; and once its activity is settled
\* without a mishap of its own, it says how the stream ended, whatever crashes,
\* recoveries and other requests come after.  Code: record_upstream_failure,
\* record_completed, record_stream_end, finalize_rollout, recover_interrupted,
\* session_context.
ActivitiesTellTheRequest ==
    \A r \in Request : req[r] # Idle =>
      LET l == log[r]
          q == req[r]
          t == told[r]
      IN  /\ Len(l) <= Len(q.shape.attempts)
          /\ \A i \in DOMAIN l :
               /\ l[i].status # "failed" => i = Len(l)
               /\ l[i].status = "success" => q.phase = "answered" \/ t.end = "completion"
               /\ \/ l[i].thread = <<"conversation", IF q.prev = None THEN r ELSE req[q.prev].conversation>>
                  \/ l[i].thread[1] = "header" /\ l[i].thread[2] \notin {"-", "../"}
          /\ (q.phase = "answered" /\ q.shape.api # "images") =>
               l # <<>> /\ Last(l).status = "success"
          /\ (q.phase = "refused" /\ l # <<>>) => Last(l).status = "failed"
          /\ (q.phase = "settled" /\ ~t.mishap) =>
               /\ l # <<>> /\ ~Last(l).writing
               /\ Last(l).status = IF t.end = "completion" THEN "success" ELSE "failed"

\* Once the server serves, no column an older version wrote is in plain
\* text, and none was ever encrypted twice, whatever the number of crashes in
\* the middle of the migration.  Code: encrypt_legacy_response_sessions.
LegacyEncryptedOnce ==
    \A i \in DOMAIN LegacyRows : \A column \in DOMAIN legacy[i] :
      legacy[i][column] <= 1 /\ (server = "up" => legacy[i][column] # 0)

\* A state past its expiry is deleted in the end.  Code: the startup's and
\* the daily delete_expired_response_states.
ExpiredAreDeleted ==
    \A r \in Request : (rows[r] # NoRow /\ rows[r].expires < Sec(now)) ~> (rows[r] = NoRow)

\* The comment on validate_responses_bridge_payload (decode.rs:127): only
\* what can be represented "without silently changing" its meaning is sent
\* to a chat upstream.  Instructions given as text are accepted.
InstructionsReachUpstream ==
    \A r \in Request :
      (req[r] # Idle /\ req[r].shape.api = "responses" /\ req[r].body # NoBody /\ req[r].shape.instructions)
      => req[r].body.instructions
=============================================================================
