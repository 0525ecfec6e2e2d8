# prelay-server in TLA+

prelay-server is a self-hosted relay for model APIs. Clients register an
identity, configure *providers* (an upstream with its key and models) and
*endpoints* (a token and, per model, an ordered list of providers), and then send
OpenAI-style requests to `/v1`. The server picks a provider, translates the
protocol where it must, streams the answer back, and records every turn: an
activity row, a line-oriented "rollout" file per thread, and a row of the rollout
index. It is one Rust process (tokio, axum) over PostgreSQL and a data directory.

The modules here model the parts of that process in which several requests, tasks,
crashes and failures meet. Sources are quoted relative to the repository; the
`map` of `PROJECT.json` names the lines each definition stands for.

## 1. Inventory

| Component (source) | State | Operations | What is hard | Correct when |
|---|---|---|---|---|
| Candidate selection and failover (`service/failover.rs`, `inbound/v1/candidates.rs`, `outbound/client.rs`, `store/storage/access.rs`) | cooldown table in memory, remembered routes, latencies | load, order, try, retry, rest, clear, remember | the table is shared and asked once per candidate; configuration changes under a request; time | no candidate lost, repeated or given up early; bounded calls; requests end |
| Stream recording (`service/recording/`) | activity row, turn in the file, index row, response state, channel to the client | start, observe, send, settle, drain, finish | a request future that may be dropped at every await, a task that outlives it, three stores written one after the other | the three agree, success is earned, the lock is given back, nothing streams for ever |
| Activity store (`service/activity.rs`, `store/storage/activities.rs`, `rollouts.rs`, `rollout_recovery.rs`) | activity and rollout rows | insert, update, recover, list, delete | crash between two writes; recovery at startup | recovery settles what a crash left and nothing else |
| Rollout store (`store/rollout/`) | thread files, recovered segments, index files, thread locks, an LRU of thread positions | begin, append, finish, read, validate, remove | torn tails, stale index files, removal without the lock | a thread reads back as the turns written, in order |
| Identities and cleanup (`store/storage/identities.rs`) | identities, credentials, last activity | register, authenticate, rotate, delete inactive | cleanup against live requests; compare-and-swap of credentials | inactive identities go with everything they own, others stay |
| Providers and sharing (`store/storage/providers.rs`, `provider_visibility.rs`) | provider rows, visibility, grants | create, update, share, delete | other identities use a provider while it is unshared or deleted | no dangling reference, deletes go through, grants match the visibility |
| Endpoints and mappings (`store/storage/endpoints.rs`, `endpoint_validation.rs`) | endpoint rows, model mappings, routes | create, update, delete, rotate the token | check-then-write without a lock | a saved list is the list that was sent |
| Responses state (`store/storage/response_states.rs`, `response_states/legacy.rs`) | encrypted sessions with a 30-day expiry | save, load, delete expired, encrypt the older format | expiry boundaries, parents, encryption at startup | an answer the client has seen can be continued until it expires, and is deleted then |
| Responses, chat and image handlers (`inbound/v1/`) | none of their own | resolve a continuation, prune images, try candidates, record, answer | several statements per attempt, each of which may fail; a history rebuilt from stored states | an upstream gets exactly the conversation; activities tell what happened |
| Protocol bridge and codecs (`codec/`) | the state of a stream translation, statistics | decode, encode, verify, rewrite, keep alive | order of events over chunk boundaries; streams that end anywhere | nothing lost, the client is given a well-formed event stream, and the record is what it was told |
| Startup and background tasks (`main.rs`, `bootstrap/`) | server phase | limits, catalog, schema, session migration, rollout validation, recovery, cleanups, listen | which failures abort, which are logged | every abort leaves a state the next start can use |
| Schema and migrations (`store/schema/`) | tables, indexes, applied versions, rows | create, migrate, reconcile with the catalog | statements outside transactions, crashes between them, another catalog at the next start | an interrupted upgrade ends as an uninterrupted one; what serves fits its catalog |
| Provider catalog (`domain/catalog/`) | one read-only value | load, validate | duplicates and references between three documents | the catalog is the document, whole, or there is none |
| Redaction, statistics, leaderboard, memories, client updates, extensions, management routes | mostly read-only, or independent upserts | - | single values or single statements | see `PROJECT.json` |

How they meet: a `/v1` handler authenticates the endpoint token, loads candidates,
orders them with the cooldown table, calls the upstream, and hands the answer to the
recorder; the recorder takes the thread's lock, inserts the rows, spawns the
forwarding task and returns the receiving end of a channel as the response body.
The task observes each item, sends it to the client and settles the rows at the
end. Management handlers change the configuration that the next request reads. Two
daily tasks delete inactive identities and expired sessions. A restart runs
recovery and both cleanups before it listens.

The startup sequence: limits, catalog, database connection, schema, encryption of
legacy sessions (failure aborts), validation of the rollout directory (aborts),
recovery of interrupted activities (failure is logged), warnings about incomplete
or orphaned files, deletion of inactive identities (aborts) and of expired response
states (aborts), each followed by its daily task, upstream policy, client updates,
extensions, listener.

`PROJECT.json` lists the hazards one by one with the properties aimed at them.

## 2. Modules

### Failover

One model of one endpoint, a set of requests, a set of providers.

* `rests` is `FailoverRegistry.rests`. An entry holds the time *left*, and `Tick`
  lets time pass; the code treats an expired entry as absent. `rest` and
  `rest_base` are the backoff and its base per failure class (60 s, 300 s, at most
  600 s); `BackoffFactor` stops at 2^10 as the shift in the code does.
* `models`, `usable`, `route`, `latency` are what the database returns.
  `ReplaceModels`, `ChangeVisibility` and `RecordLatency` change them at any time.
* A request is `LoadModels` (the model rows and their providers, two reads taken as
  one), `SelectCandidates` (a later query, so the route may be newer than the rows;
  `LoadFails` is any of these queries failing), `ClassifyCandidate` once per candidate, because each
  one locks the registry on its own, then `BeginLoop` and the attempts (`AttemptOk`,
  `AttemptRetry`, `AttemptFailover`, `AttemptAbort`) and `RememberProvider`, whose
  failure is only logged. `Cancel` drops the future anywhere.
* Failures are classes: what `is_retryable_upstream`, `is_failoverable_upstream`
  and `rest_base` tell apart. `transient` is history: the request has met only those
  for which README.md:133 promises the next candidate.

### StreamRecording

The recording of answered requests ("streams") that belong to one thread.

* `pc` is where the code stands: first the request future (`waiting` for the
  thread's lock, `first`, `write`, `insert`...), then the spawned task (`observe`,
  `usage`, `session`, `send`, `next`, `end`, ...). `local` holds the locals of
  that code. Every await is a boundary between actions, and in the request future
  a point where `ClientClose` may drop it.
* `kind` is the entry point: `responses` and `raw` refuse the request when it
  cannot be recorded, `best_effort` goes on without a record, `completed` writes an
  answer that is already there.
* The stores are `turn` (the turn in the file), `rollout` (index row), `activity`
  with `errorCode` (activity row), `saved` (response state), `lock` and `writer`
  (the thread's lock and who owns the writer that holds it).
* Streams in `Faulty` may see any storage operation fail; `fault` remembers it.
* `Crash` drops everything in memory. Recovery works row by row from the index
  rows still `writing`, and may itself fail at a row, in which case the code logs
  it and startup goes on.
* The upstream is whatever it likes within `MaxItems` items, and the client reads,
  stalls or leaves.

### Tenancy

Identities, providers, grants, endpoints, mappings, routes, activities and files.

* `db` is the committed database. A handler reads what its statements read in one
  action and applies its transaction in another, so other transactions fall in
  between.
* PostgreSQL runs at READ COMMITTED. A `DELETE` only affects the rows its snapshot
  holds, so a deleting transaction carries the rows its statements found. A
  transaction whose effects break a foreign key has no effect (`Commit`). An insert
  locks the rows it refers to, so checking at the commit has the same outcomes.
  The schema's `ON DELETE CASCADE` covers the grants only.
* The update of an endpoint writes the endpoint row only when the request sets its
  name or protocol. SeaORM issues no statement for an active model without a set
  column, so a request that changes the models alone locks nothing: `UpdateCommit`
  has both cases.
* The cleanup is the sequence of statements of `delete_inactive` and the removal of
  files after its commit, path by path as the activity rows named them. At startup its
  failure ends the process, later it is only logged; a file that cannot be removed is
  only logged in either case.
* A request writes its file and inserts the row afterwards (`RecordFile`, `RecordRow`).
  The insert fails when the identity has gone, and `Abandon` ends any handler at any
  await, because its future is dropped or a statement fails. `stray` is history: the
  files that such a mishap leaves for good, which are those without a row, those whose
  row came after the cleanup had listed the paths, those that could not be removed, and
  those a crash kept from being removed. Nothing in the code finds them again
  (docs/superpowers/specs/2026-10-22-activity-rollout-storage-design.md:120 says so of
  the first), and `FilesGoWithIdentity` is about all others.

### RolloutThread

The file of one thread, below `StreamRecording`'s `turn`: what `RolloutWriter` writes
and `resolve_thread_source` reads.

* `files` are the thread's file (segment 0) and its recovered segments: whole lines,
  a torn tail if there is one, the modification time, and how many lines are synced.
  A line is its type, sequence number, turn and content. A line appended to a torn
  one becomes one corrupt line of both. Modification times differ between two runs
  of the process only: within one run the file system's clock may be too coarse.
* `cache` is the thread's entry of `ThreadIndex` (`Evict` is another thread pushing
  it out), `index` the `.jsonl.index` file. Both hold a `ThreadState`: segment, stamp,
  line count, last number, window, references by content and by stable id.
  `FromLines` is what reading the file makes of it, line by line (`Learn`).
* `load` is the blocking task of `begin` (`ResolveKnown`, `ReadCandidate`,
  `RepairTail`, `StatCandidate`, `StartSegment`, `LoadFails`). It is separate from the
  writer `w` because dropping the request gives the lock back and leaves the task
  running. `haunted` is history: such a task has met a file that another turn has
  changed since: `set_len` to the length it read then cuts anywhere in that file. The
  invariants are stated up to that point; `MCLinesInOrder.cfg` shows what happens after
  it.
* Writing is one action per line, because each line is flushed. A write may fail with
  part of the line in the file; the `BufWriter` keeps the rest and hands it over with
  the next line or when it is dropped, or has lost it when the line was too long for
  it. A crash takes lines that were not synced, may tear the last one, and may take
  the index file.
* An `Item` is what a request carries; its `Content` is what is stored, and its stable
  id may be part of that (a tool call) or not (a message), in which case a rebuild
  from the file does not know it.

### StreamBridge and ResponsesContract

One stream from an upstream to a client, in one of the three forms the code has:
`bridge` (chat events become Responses events), `chat` (bytes passed on, statistics
read along the way) and `responses` (bytes passed on, ids rewritten).

* A chunk is whole lines and perhaps the beginning of one more, complete but for its
  line break or cut inside. `line` and `dec` are the buffers of the decoder, `stats`
  is `SharedStreamStats`, `pending` what the decoder has made and nobody has read,
  `session` the recorder's `StreamSession`.
* `VerifyHead`, `VerifyEmpty` and `VerifyReject` are `verify_upstream_sse_head`, which
  takes the first chunk from the stream; `PollHead` gives it back. `PollChunk`,
  `PollEnd` and `PollError` are one poll of the decoder each; `Deliver` hands one item
  to the client after `save_stream_state_if_ready`, as the recorder does.
  `Keepalive` is the comment of `with_sse_keepalive`.
* `ResponsesContract` is the abstract specification: what a client of a Responses
  event stream relies on. `KeepsContract` says that the bridge implements it, with
  what the client was given so far as the refinement mapping: a call's stage and
  arguments, the text, and the outcome. A statement that contradicts what came
  before it maps to a stage the contract does not have.

### Conversation

The handlers of `/v1/responses`, `/v1/chat/completions` and `/v1/images/generations`
from arrival to answer, and the response states.

* `req` is the progress of each handler through its attempts, `body` what it sent.
  `rows` are the response states, `log` the activities, `told` the history of what was
  asked and answered, from which the properties are stated.
* A Responses request loads the state it names (refused when it is another identity's,
  expired or not there), puts the stored items before its own, and is sent to a native
  upstream after `image_budget::apply`, to a chat upstream after
  `validate_responses_bridge_payload` and the encoder. README.md:102-105 describe the
  rules: stored unless `store` is false, 30 days, exact items per identity,
  instructions not inherited, reasoning and opaque items refused by the bridge.
* A stream ends when its client has seen the completion (saving the state and passing
  the completion on are one step) or with a break, which may also follow the
  completion. Its activity is settled after that by statements of their own:
  `update_stream_log`, `finalize_rollout`, `mark_rollout_incomplete` if part of the body
  could not be written, `complete_stream`. Each may fail, which is only logged, and the
  next one runs all the same. `told` keeps how the stream ended and whether such a
  mishap met it.
* Each database statement of a handler may fail and the server may crash between any
  two steps. At a start `encrypt_legacy_response_sessions` works through batches of the
  older rows (README.md:129), recovery settles the activities whose rollout is still
  `writing` as failed, row by row, and may end early (only logged), then expired states
  are deleted, as they are each day.
* Time is in half seconds and expiries in seconds, so that the comparison at the
  boundary (`<=` when loading, `<` when deleting) has both sides.

### Catalog and Startup

`Catalog` is what `ProviderCatalog::load` makes of a document: a pure function to a
catalog or to nothing, with one operator per check of `validation.rs`. `ORDERED`, the
order of protocols, comes from the protocol crate, which is a submodule without
contents here; `docs/architecture/provider-catalog.md` gives it.

`Startup` is the start of the process over a database that any earlier release may have
left.

* `db` holds the schema as a set of its elements (tables, indexes, constraints, groups
  of columns), the applied versions, and the rows the migrations touch.
* A transaction is one step, a statement outside one is a step of its own, and a
  loop over rows is a step per row (`todo`, `pending`).
* `Stop` ends the process anywhere, any number of times; the next start may find
  another catalog. `original` and `used` are history, for stating what an upgrade comes to.
* `Outcome` says in one expression what an uninterrupted upgrade does;
  `InterruptedUpgradeResumes` compares the steps with it.

The `MC` modules extend these for TLC. Operators whose comment begins "Mutant of"
are the wrong versions used to see that a property notices; the specifications do
not use them.

## 3. Runs

| Run | Instance | What it shows |
|---|---|---|
| `failover` | 2 requests, 2 providers, 1 retry, candidate limit 1 or 2, 1 configuration change, failing queries | `ExhaustedBeforeFailing`, `CandidatesAreThoseLoaded`, `RequestsEnd` |
| `stream` | 1 stream of every kind, 3 items, 2 crashes, any storage failure | `SettledTogether`, `SuccessIsEarned`, `SavedIsComplete`, `RefusedLeavesNoRow`, `SettledIsFinal`, `StreamingEnds`, and `Inv`, the invariant the proofs use |
| `stream_pair` | 2 streams of one thread, failures in the first | `LockHeldByOpenTurn`, `TurnsProceed` |
| `tenancy` | 2 identities, 1 provider, 1 endpoint, 1 thread, 1 management and 1 protocol request at a time, abandoned anywhere, the cleanup with removals that fail, 1 crash or failure | `NoOrphans`, `FilesGoWithIdentity`, `InactiveUnreferencedAreDeleted` |
| `inactive_are_deleted` | as above with management only | finding: one shared provider blocks the cleanup for ever |
| `rollout` | 3 turns, 2 windows, 1 recovered segment, any 2 of a failed write, a dropped request, a crash | `SliceIsTurn`, `ContextIsRequest`, `KnownIsTrue` |
| `bridge` | the three decoders, 3 chunks of every shape of the `MC` module, 2 call indexes, 1 keep-alive | `TextIsWhatUpstreamSent`, `RecordIsWhatWasSaid`, `BytesArePassedOn`, the refinement `KeepsContract`, `EndReachesClient` |
| `stream_state` | the bridge only | finding: a response its client saw complete is not stored |
| `conversation` | 3 chained requests of 2 identities, native and bridged, images against a budget | `SentIsTheConversation` |
| `response_states` | 2 requests of all three APIs, a clock of 2 seconds with states good for 1, 2 crashes or failing statements, 2 rows of the older format | `AnsweredIsContinuable`, `ActivitiesTellTheRequest`, `LegacyEncryptedOnce`, `ExpiredAreDeleted` |
| `instructions` | as `conversation` | finding: a bridged request loses its instructions |
| `startup` | 8 databases, 3 catalogs that load and 28 documents that do not, any number of interruptions | `CatalogIsWhatWasWritten`, `NoDanglingRoute`, `ServesWhatItCan`, `InterruptedUpgradeResumes`, `UnmappableIsKept` |

Every passing run of a module also checks its `TypeOK` once.

**Bounds.** Two requests are the fewest that interfere through the cooldown table,
and two providers the fewest for an order, a failover and a candidate limit that
cuts. `MaxRest` 3 with bases 1 and 2 makes the cap and two doublings happen. Three
items are the fewest for output, completion and a later error in one stream, two
crashes the fewest for one during recovery, and a channel of one item makes a full
channel happen. Streams of different threads share nothing in this module, so two
streams of one thread show every conflict. Two identities are an owner and a
grantee; one model name is enough because rows of different models never meet.
For a thread's file, three turns are one to lay the file down, one to meet trouble
and one to build on what that left; two troubles are a failed write and a crash, a
dropped request and a crash, or a crash during what a crash made necessary. The one
request of that instance repeats a content, with and without a stable id, and its
answer is a tool call. One recovered segment is enough for a corrupt file and for
running out of segments. Symmetry is used there only, in the windows: most other runs
check liveness properties, and the rest have no interchangeable values.

Three chunks are a beginning, a continuation and an end of one event, or one event
each for a call's announcement, its arguments and the end; the documents of
`MCStreamBridge` hold text, both calls, usage at the limit of the column, every kind of
finish and no JSON. Three chained requests are the fewest in which an image dropped in
one turn meets another in the next; two requests and two faults show a failing
statement while a stream is settled and a crash after it, a crash and a recovery that
fails, and what a second request makes of either. `Startup` needs no bound: its state is finite
although starts and interruptions are not counted. Its databases are an empty one, one
of an early release, one that has seen the first catalog migration, one that has seen
both before the removal of the other protocol and has a route without its mapping, a
current one, and three that no start accepts; the catalogs differ by a provider that is gone, a model
that is gone, other names and addresses. One endpoint is enough there because rows of
different endpoints never meet. One server starts at a time.

**Deadlock** is checked in `startup`, where the next start is always possible. In the
other runs it is not: a server whose requests are all done and whose bounds
are used up has nothing left to do. That requests and turns get on is stated as
liveness instead.

**Fairness.** `Failover`: weak fairness of each request's steps; upstream calls are
bounded by connect and read timeouts, the backoff is a sleep, the runtime polls
ready tasks. `StreamRecording`: weak fairness of each future's steps, of the
upstream (its read timeout turns silence into an error), of the recovery and of the
restart by the supervisor, and strong fairness where a stream waits for the
thread's lock (a tokio mutex is FIFO). A client that stays is assumed to read: the
code has no timeout for one that stays and does not, and such a client does hold up
its thread. `Tenancy`: weak fairness of the cleanup, whose interval fires again and
again, and of the restart. Nothing is assumed of clients' requests.
`StreamBridge`: weak fairness of reading (`Deliver`, `Close`), since a client
that stays polls the body; none of the upstream. `Conversation`: weak fairness of the
startup's steps, recovery among them, and of the daily cleanup; none of clients, upstreams or time.
`Startup` states no liveness.

## 4. Findings and deviations

Three disagreements between the code and what the repository says of it are runs of
their own, each with a counterexample:

1. `inactive_are_deleted`: `delete_inactive` removes the mappings of the inactive
   identities' own endpoints, not those by which an active identity's endpoint maps
   one of their shared providers. The foreign key fails, the transaction is rolled
   back for *all* inactive identities, and the next startup aborts.
2. `stream_state`: a finish reason marks the statistics completed, but the items are set
   when `[DONE]` or the end of the stream is decoded. If the recorder looks in between,
   it finds a completed response without items and gives its session up: the client is
   told `response.completed`, and a continuation from that id is refused.
3. `instructions`: `validate_responses_bridge_payload` lets instructions pass when they
   are a text, and `encode_chat_request` does not write them: they are lost without an
   error, which the comment at `codec/bridge/responses/decode.rs:127` rules out.

The other deviations met on the way, of the same kind, have a property and a configuration each; TLC finds
each property violated (`tlc -config <cfg> <module>`):

| Configuration (module) | Property | What happens | What the repository says |
|---|---|---|---|
| `MCFailoverSwitch.cfg` (`MCFailover`) | `OnlyTransientErrorsSwitch` | `is_failoverable_upstream` (`error.rs:161`) accepts every upstream error: a 401, 403, 404 or 422 moves the request to the next candidate | README.md:133: only connection failures, timeouts, 408, 429 and 5xx do; authentication, permission, model and parameter errors are returned as they are. `ExhaustedBeforeFailing` is stated of requests that met only the former |
| `MCStreamingHasOwner.cfg` (`MCStreamRecording`) | `StreamingHasOwner` | `prepare_stream_with_log_id` (`forwarding.rs:57`) inserts the streaming row, awaits once more, and then spawns the task that will settle it: a client that leaves at that await leaves it streaming until the next start | docs/reviews/2026-09-08-活动正文生命周期评审.md:112: every end, a disconnect too, has an explicit path |
| `MCSuccessSurvivesRestart.cfg` (`MCStreamRecording`) | `SuccessSurvivesRestart` | recovery (`activity.rs:261`) marks every `writing` row partial and its activity failed, whatever the turn in the file says | docs/reviews/2026-10-23-当前工作树与活动存储评审.md:46: an end found in the file restores both sides |
| `MCMappingsSavedWhole.cfg` (`MCTenancy`) | `MappingsSavedWhole` | two updates of the models alone (`endpoints.rs:214`) lock nothing in common, and the endpoint ends with both lists | docs/architecture/database.md:97: an endpoint and its mappings are saved whole |
| `MCLinesInOrder.cfg` (`MCRolloutThread`) | `LinesInOrder` | dropping the request gives the thread's lock back while its blocking task goes on (`writer.rs:88`); it takes the stamp after the contents, and after a crash a turn repeats sequence numbers | docs/superpowers/specs/2026-10-29-activity-rollout-content-dedup-design.md:87: the lock covers the whole activity |
| `MCTornTailIsCut.cfg` (`MCRolloutThread`) | `TornTailIsCut` | `read_to_string` (`read.rs:248`) fails on a tail torn inside a character; neither a repair nor a recovered segment follows, and every later turn of the thread fails | README.md:125: a torn tail is cut off by the next request |
| `MCKeepaliveIsALine.cfg` (`MCStreamBridge`) | `KeepaliveIsALine` | the comment (`pipeline.rs:78`) follows the last chunk, which may end inside a line | `pipeline.rs:61`: a comment line is inserted |
| `MCPartialSchemaIsRefused.cfg` (`MCStartup`) | `PartialSchemaIsRefused` | an empty database gets its schema statement by statement (`schema/mod.rs:119-157`); a crash between `identity_activities` or `memory_sources` and their indexes is accepted by the next start, which serves without them | docs/architecture/database.md:83: a partly initialised database is not accepted |
| `MCDisabledStaysDisabled.cfg` (`MCStartup`) | `DisabledStaysDisabled` | a start whose catalog lacks a provider's entry skips its model list and drops `disabled_models_json` all the same; when the entry is back, the whole list is filled in | `provider_catalog.rs:241`: lists are filled in less the disabled models |

## 5. Proofs

Every theorem holds for all values of the constants that meet the named assumptions;
TLC checks the same formulas on the instances of section 3, and evaluates the
assumptions there. `tlapm <module>_proofs.tla` checks a module's proofs.

| Module | Theorem | States |
|---|---|---|
| `StreamRecording_proofs` | `Invariance` | `Spec => []Inv` |
| | `TypeCorrect` | `Spec => []TypeOK` |
| | `LockDiscipline` | `Spec => []LockHeldByOpenTurn` |
| | `SuccessEarned` | `Spec => []SuccessIsEarned` |
| | `SavedComplete` | `Spec => []SavedIsComplete` |
| | `RefusedCleanly` | `Spec => []RefusedLeavesNoRow` |
| | `OutcomesAgree` | `Spec => []SettledTogether` |
| | `OutcomesFinal` | `Spec => SettledIsFinal` |
| `Failover_proofs` | `TypeCorrect` | `Spec => []TypeOK` |
| | `CandidatesAreOnlyReordered` | `Spec => []CandidatesAreThoseLoaded` |
| | `UpstreamErrorMeansExhausted` | `Spec => []ExhaustedBeforeFailing` |
| `Tenancy_proofs` | `TypeCorrect` | `Spec => []TypeOK` |
| | `NothingIsOrphaned` | `Spec => []NoOrphans` |
| | `FilesAreRemoved` | `Spec => []FilesGoWithIdentity` |
| `Conversation_proofs` | `TypeCorrect` | `Spec => []TypeOK` |
| | `SentIsTheWholeConversation` | `Spec => []SentIsTheConversation` |
| | `StoredIsContinuable` | `Spec => []AnsweredIsContinuable` |
| | `ActivitiesAreTrue` | `Spec => []ActivitiesTellTheRequest` |
| | `LegacyIsEncryptedOnce` | `Spec => []LegacyEncryptedOnce` |
| `Startup_proofs` | `TypeCorrect` | `Spec => []TypeOK` |
| | `NoStartMakesRoutesDangle` | `Spec => []NoDanglingRoute` |
| | `CatalogIsFaithful` | `Spec => []CatalogIsWhatWasWritten` |
| | `ServingIsPrepared` | `Spec => []ServesWhatItCan` |
| | `UnmappableIsNeverLost` | `Spec => []UnmappableIsKept` |
| | `InterruptedUpgradesResume` | `Spec => []InterruptedUpgradeResumes` |
| `RolloutThread_proofs` | `TypeCorrect` | `Spec => []TypeOK` |
| | `SlicesAreTurns` | `Spec => []SliceIsTurn` |
| | `ContextsAreRequests` | `Spec => []ContextIsRequest` |
| | `KnownIsAlwaysTrue` | `Spec => []KnownIsTrue` |
| `StreamBridge_proofs` | `InvariantHolds` | `Spec => []IInv` |
| | `TypeCorrect` | `Spec => []TypeOK` |
| | `TextReachesRecordAndClient` | `Spec => []TextIsWhatUpstreamSent` |
| | `RecordAgreesWithClient` | `Spec => []RecordIsWhatWasSaid` |
| | `EveryByteIsPassedOn` | `Spec => []BytesArePassedOn` |
| | `StreamKeepsContract` | `Spec => KeepsContract`, the refinement of `ResponsesContract` |

`Induction` holds what the others share: induction over the naturals, proved from the
pigeonhole principle of `FiniteSetTheorems`, induction over `0 .. N`, the update of
a function at one place, and a loop whose body stays inside a set: it has a run, the run
is unique, and it ends inside the set. Induction is stated for sets, since the provers
cannot instantiate an operator.

**StreamRecording** rests on `StreamAssumption` (the constants have their types,
`NoStream` is no stream). None of the properties is inductive: that the rows agree at
the end depends on what each local means at each await on the way there. `Inv` records
that per point of the code, as six parts for each stream: `WriterInv` (who owns the
writer where, and that its turn is open), `RowInv` (which rows exist where),
`SettleInv` (what the decision to settle as success implies), `ActivityInv` (when an
activity may say success or failed, and what a saved response implies), `RecoveryInv`
(nothing runs while the process is down, and a row a crash left is still to be
recovered), `OutcomeInv` (what the stores say on the way to the end, as long as no
operation has failed). The proof has one lemma per action, each with one step per part
that the action can disturb; a stream other than the one that moves keeps its part
because only the lock is shared. TLC checks `Inv` in the run `stream`.

**Failover** rests on the types of the constants and on the rows of a configuration
being distinct (`normalize_models` refuses a model bound twice to one provider). `Keep`
filters a sequence: it is a recursive function over the places of the sequence, because
the provers know nothing of `SelectSeq`. Its lemmas say that it keeps exactly the places that qualify,
in order and without repeating one. The invariant then says of each point of a request
that the lists it holds are, put together, a reordering of the rows it has read, and
that the providers behind it are as many as the attempts it has made: the count that
makes `ExhaustedBeforeFailing` inductive. The count holds after any failure; the
property claims it only where the repository does.

**Tenancy** needs what a transaction in the middle may rely on. Its invariant has the
rows as they are between any two commits (`DbInv`: foreign keys, grants), that ids in
use were given out before (`BornInv`), the rows each handler carries from one await to the next
(`WhoInv`, `HandlerInv`), where the cleanup job is (`JobInv`: once it has listed the
paths, it knows the file of every activity that is not a stray) and which files may
exist (`FilesInv`). `Commit` refuses what breaks a key, so the weight is on grants and
visibility, and on files, which no key protects: `FileInv` says of a file that is no
stray that a row names it, or a request is about to insert that row, or the cleanup is
about to remove it, and each step hands the file from one of these to the next.

**Conversation** rests on `ShapesAssumption`, `RepliesAssumption` (what clients and
upstreams send is JSON of these shapes, in any number) and `LegacyAssumption` (no older
version encrypted a column twice). The budget's loop is a recursive function over the
places of the items. `LoopReaches` says what it does: there is a place before which all
images are left out and after which none is, the rest fits, and with one more image it
would not have, or no more may go. `Trimmed` is the invariant that survives a chain: what
is stored is the conversation with images left out for a reason. `TrimmedContinued`
shows that a reason stays one when the conversation goes on, and `NativeSent` that
trimming what was trimmed before is trimming the whole, so that the order of storing,
loading and trimming does not matter. The invariant of a request gives, per phase, what
its handler holds (`RequestOk`), what its row says of it (`RowOk`: there is one until
the expiry the client was promised) and what its activities say (`LogOk`: all but the
last are failed and closed, and `StreamOk` gives for each phase of settling what the last
one says for want of a mishap). Recovery touches only activities still `writing`, so what
was settled stays; that it never meets an open request needs `AtRest`, proved on its
own: a server that is not up has none. `RequestInv` is stated
of the values a request is about to have, so that one lemma (`StepOfOne`) carries every
action of every request past all the others. TLC found no violation of it on the instances of
`conversation` and `response_states`.

**Startup** rests on `DatabasesAssumption` and `DocumentsAssumption` (rows have the
declared columns and meet the declared foreign keys; nothing is assumed of which
migrations ran). The invariant follows a start through its migrations and says of each
what is done for the rows behind a loop and what is not yet for those ahead of it; what
a cut-off start leaves is again a database any start may find. `Overlay` is written
out because `@@` is opaque to the provers. Two properties turned out to claim too much
when they met every document and database instead of the few of the run: a model has
instructions only once the default template has text in it, and a route may lead
nowhere from before the first start. `CatalogIsWhatWasWritten` and `NoDanglingRoute`
say so now.

`InterruptedUpgradesResume` compares a database in the middle of an upgrade with the one
that was found. `Outcome` is a function of a database and a catalog, so the idea is that
it does not change on the way: `Agrees(d, e, cat)` says that `d` and `e` come to the same
rows, part by part, and every statement that writes is shown to agree with what it
found (`MigratedAgrees`, `LegacyAgrees`, `ModelSourceAgrees`, `BackfillAgrees`, and one
lemma for each loop). That is where it matters that a list is written before the
column it is computed from is dropped, that writing an address or a name twice is writing
it once, and that a route is deleted only with a mapping that will go. At the end nothing
is left to do, and the rows are their own outcome (`ServedRows`). `ResumeInv` adds to
`Inv` that the document of a running start is among those used, that the database agrees
with the original for a catalog that is the only one used, that it can be started
from if the original could (so that a refusal is the original's), and what the loops
have left of disabled models and addresses. TLC found no violation of it on the
databases of `startup` that a catalog can start. Here too the property had claimed too much, for a route found
without its mapping, which stays with its provider, and for a database that made both
catalog migrations before the removal, whose types take the alias and no target.
`Outcome` says so now, and `SettledDatabase` is such a database.

**RolloutThread** rests on `RolloutAssumption`: the constants have their types, and an
id inside a stored content is that of the item. Reading a file is a recursive function
over its lines (`Learned`, one `Learn` per line), so that what an appended line adds to
what is known is a lemma (`KnowsControl`, `KnowsWindow`, `KnowsContent`). The invariant
`Inv` has three parts. `Typed` is the types. `Sound` is what holds whatever a dropped
request's task does: the lock is the writer's from begin to its end, a file that was
read stays there, a turn that has not begun has no lines, a buffer holds lines of its
own turn. `Truthful` is what holds until such a task has met a file it did not read
(`haunted`); it says of

* the cache and the index (`Describes`): they describe the beginning of their file,
  unless the file was written in a later run of the process. This is why a stamp may be
  trusted although the clock is coarse: within a run, a file that was described only
  grows, and a longer file has another stamp;
* a writer (`WritingOk`): what it has counted is what is in its file as long as no write
  has failed, the numbers in file and buffer ascend, and it knows what is in the file
  whenever the file is as long as it has counted, failed writes or not. The last part is
  what makes `Expected`, the comparison of lengths at the end, sufficient;
* its references (`RefsOk`): each leads to a line, and the one of an item without an id
  is among the first occurrences of its content, as many as the item's own place among
  its like. That keeps two occurrences apart;
* a turn that is over (`DoneOk`): its lines are synced, so a crash cannot take them;
* the lines (`LinesOk`): numbers ascend, and each context fits the request of its turn.

A write is one lemma for success (`OkStep`) and one for failure (`FailStep`), for any
line; each action then shows what its line is and what its writer knows next. A step of
one turn is carried past all the others by `StepTyped`, `StepSound` and `StepTruth`.
Two places of the model became clearer on the way: a line that is merged with a torn
one is the first of the buffer only, and `set_len` on a file that has changed since
falls anywhere in it.

**StreamBridge** rests on `BridgeAssumption` (the constants have their types; calls have
finitely many indexes), `ChunksAssumption` (an upstream sends lines of the shapes of
`LineSet`, in chunks cut anywhere; how many and in which order is free) and
`ChatSseAssumption` (`None` is no event). Every loop of the decoders is a recursive
function over the places of what it walks through, and has a lemma (`BridgeEventsRun`,
`ProcessLinesRun` and their like) that hands its steps out one by one. What a client has
heard (`Heard`) is such a function too, and `HeardAppend` adds one event to it, so that
decoder and client can be followed side by side.

`IInv` is stated of the values a stream has, or is about to have (`Order`), and has three
parts. `Known` is the types and what each phase implies: verification reads nothing but
the head, and nothing is said before the head is put back. `Tells` is what each decoder
has said and is about to say: `Obedient`, every event came when the contract allows it,
and for the bridge either `Speaking` (per call, the decoder's table, the record and what
the client heard have the same arguments and stage; no call is done) or `Over` (all is
closed and the output stated agrees with what was said). It is this agreement of three
copies that makes the arguments add up at the end, whatever the order of pieces, and it
is why `record_done` counts a call once: the record's own mark is compared, not the
decoder's. `Reads` is what the decoder has made of the chunks: `Follows` (the lines set
aside are the data lines since the last blank one, the text recorded is the text of the
documents before it, the end was seen exactly if a `[DONE]` was) and `Passes` (but for
ids, what was given out and what is held back are the lines so far). The lines are those
of all chunks put together (`LinesEnded`), so the lemmas about one chunk
(`EndedAppend`, `BegunIsEnded`) are where the cut inside a line is dealt with once and
for all. The refinement then needs no invariant of its own: `Deliver` gives out the first
pending event, `Obedient` says that the contract allows it, and every other action
leaves what the client has heard as it is.

Only model-checked: every liveness property (`RequestsEnd`, `StreamingEnds`,
`TurnsProceed`, `InactiveUnreferencedAreDeleted`, `EndReachesClient`,
`ExpiredAreDeleted`), since the prover does not reason about fairness or ENABLED.

## 6. Not modelled

The text of requests and answers, redaction and statistics (single values, best
left to unit tests); routing and DTOs of the management API (no state); extensions
and client updates (HTTP, archives, one cached value); memories (independent upserts);
the protocol crate (a git submodule whose contents are not in the repository).

* `RolloutThread`: files from before the header line (legacy format), the content hash
  and the event counters of a thread, usage and error lines, reading a slice back, the
  startup scan, and the removal of files without the lock.
  A thread whose first file is missing while recovered segments exist
  (`read.rs:141-168`) comes from a removal only and is left out with it.
* `StreamBridge`: a JSON document over several data lines of one event
  (`chat_to_responses.rs:71`, `stream_rewrite.rs:88-117`) counts as no JSON, as the
  upstreams in question send one line per document. Of the Responses events
  (`stream/decode/responses.rs`), a delta that is a bare JSON string (line 91) and blank
  ids (101) are left out, and so is the overflow of the sum of two token counts (247).
* `Failover`: the changes that could fall between the reads merged into `LoadModels`.
* `Tenancy`: a provider's key and other fields, endpoint names and tokens, device
  credentials.
* `Conversation`: a client that leaves inside a handler (`Failover` and
  `StreamRecording` have it), the cooldown table and retries (`Failover`), what happens
  inside a stream (`StreamRecording`, `StreamBridge`).
* `Catalog` and `Startup`: display names and the lists given to clients, the database's
  connection settings, two servers starting at once, and rows of more than one endpoint.
  A mapping is identified by its provider and model: an older database may hold two of
  them that differ in `upstream_model` (`indexes.rs:23-32`), which
  `reconciliation.rs:101-105` would make equal, against the unique index; this release
  does not accept such pairs (`endpoint_validation.rs:32`). A `capabilities_json` that
  does not parse (`reconciliation.rs:27-31`) is left out: the server writes the
  column itself.

## 7. Plan

In order of weight:

1. An abstract life of an activity (none, streaming, success or failed), implemented
   by `StreamRecording`, with the refinement proved.
2. `Tenancy`: providers' fields, endpoint names and the compare-and-swap of device
   credentials.
3. `RolloutThread`: removal of the files by the cleanup, the startup scan, an abstract
   append-only log of turns.
