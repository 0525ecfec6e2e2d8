------------------------------ MODULE Failover ------------------------------
(***************************************************************************)
(* Candidate selection, retry and failover for one model of one endpoint:  *)
(* the path of a /v1 request from the endpoint's model rows to the         *)
(* provider that answers it, and the in-process cooldown table that all    *)
(* requests share (FailoverRegistry).                                      *)
(*                                                                         *)
(* Requests are tasks of a multi-threaded runtime.  Every await, and every *)
(* acquisition of the registry's mutex, is a point where another request   *)
(* may run; each action below is what happens between two such points.  A  *)
(* client that goes away drops the request's future at any of them.        *)
(*                                                                         *)
(* Time is kept relative: a cooldown entry holds the time LEFT until its   *)
(* deadline, and Tick lets one unit pass.  An entry whose deadline has     *)
(* passed (left = 0) and an absent one are treated alike by the code.      *)
(***************************************************************************)
EXTENDS Naturals, Sequences, FiniteSets

CONSTANTS
    Provider,       \* provider configurations an endpoint may map a model to
    Request,        \* requests in flight
    NoProvider,     \* no row in endpoint_model_routes
    MaxRetries,     \* UPSTREAM_MAX_RETRIES
    CandidateLimits, \* values UPSTREAM_MAX_CANDIDATES may have
    ShortRest,      \* cooldown of a transient failure (60 s)
    LongRest,       \* cooldown of a credential or quota failure (300 s)
    MaxRest,        \* MAX_REST (600 s)
    MaxChanges,     \* bound: configuration changes in a behaviour
    ModelLists      \* contents the endpoint's model rows may have

ASSUME FailoverAssumption ==
    /\ NoProvider \notin Provider
    /\ MaxRetries \in Nat
    /\ CandidateLimits \subseteq Nat \ {0}
    /\ MaxChanges \in Nat
    /\ ShortRest \in Nat \ {0}
    /\ LongRest \in Nat \ {0}
    /\ MaxRest \in Nat \ {0}
    /\ ModelLists \subseteq Seq(Provider)
    \* normalize_models refuses a model bound twice to one provider.
    /\ \A list \in ModelLists :
          \A i, j \in DOMAIN list : list[i] = list[j] => i = j

VARIABLES
    max_candidates, \* the upstream policy's, read once at startup
    rests,     \* FailoverRegistry.rests: provider -> time left, consecutive failures
    models,    \* endpoint_models rows of the model, in candidate order
    usable,    \* providers this identity may use and that offer the model
    route,     \* endpoint_model_routes row: the provider that answered last
    latency,   \* average success latency of each provider, as a class
    changes,   \* configuration changes so far, capped by MaxChanges
    pc,        \* where each request stands
    cands,     \* its candidates, ordered by select_candidates
    todo,      \* candidates order_candidates has not classified yet
    ready,     \* ... those it found ready
    resting,   \* ... those it found resting
    queue,     \* candidates left to try, the current one first
    attempt,   \* retries already made on the current candidate
    lastError, \* last_upstream_error
    result,    \* how the request ended
    loaded,    \* history: the candidates the database returned
    failed,    \* history: providers whose failure made the request move on
    transient, \* history: whether all of these failures were transient
    answered   \* history: providers that have answered some request

configVars == <<max_candidates, models, usable, route, latency, changes>>
requestVars == <<pc, cands, todo, ready, resting, queue, attempt, lastError,
                 result>>
historyVars == <<loaded, failed, transient, answered>>
vars == <<rests, configVars, requestVars, historyVars>>

-----------------------------------------------------------------------------
(* Failure classes of an upstream attempt (AppError, by what the code tells  *)
(* apart):                                                                   *)
(*   connect  Upstream without a status: no connection                       *)
(*   busy     Upstream 408, 429, 5xx (a response-head timeout is a 504)      *)
(*   auth     Upstream 401..403                                              *)
(*   reject   Upstream with any other status: 400, 404, 422...               *)
(*   invalid  UpstreamInvalidResponse                                        *)
(*   local    every other AppError: storage, encoding, bad request           *)
Failure == {"connect", "busy", "auth", "reject", "invalid", "local"}

is_retryable_upstream(e) == e \in {"connect", "busy"}

is_failoverable_upstream(e) == e # "local"

rest_base(e) == CASE e = "auth" -> LongRest
                  [] e \in {"connect", "busy", "invalid"} -> ShortRest
                  [] OTHER -> 0

\* base * 2^min(consecutive - 1, 10): the factor stops growing at 2^10, so the
\* counter need not be told apart beyond ConsecutiveCap.
BackoffFactor == <<1, 2, 4, 8, 16, 32, 64, 128, 256, 512, 1024>>
ConsecutiveCap == 11

Members(s) == {s[i] : i \in DOMAIN s}

\* The items of s that lie in T, in the order of s.
Keep(s, T) ==
    LET kept[i \in 0..Len(s)] ==
            IF i = 0 THEN <<>>
            ELSE IF s[i] \in T THEN Append(kept[i - 1], s[i]) ELSE kept[i - 1]
    IN kept[Len(s)]

Least(a, b) == IF a <= b THEN a ELSE b

NoRest == [left |-> 0, consecutive |-> 0]

\* Mutant of rest: the cap is dropped.
restUncapped(p, base) ==
    LET consecutive == IF rests[p].left > 0
                         THEN Least(rests[p].consecutive + 1, ConsecutiveCap)
                         ELSE 1
    IN [left |-> base * BackoffFactor[consecutive], consecutive |-> consecutive]

\* FailoverRegistry::rest: the entry a failure of p leaves behind.
rest(p, base) ==
    LET consecutive == IF rests[p].left > 0
                         THEN Least(rests[p].consecutive + 1, ConsecutiveCap)
                         ELSE 1
    IN [left |-> Least(base * BackoffFactor[consecutive], MaxRest),
        consecutive |-> consecutive]

LatencyClass == {"fast", "slow", "unknown"}

\* Stable sort by average latency, providers without one last.
SortByLatency(s) ==
    LET Of(class) == Keep(s, {p \in Provider : latency[p] = class})
    IN Of("fast") \o Of("slow") \o Of("unknown")

\* Mutant of select_candidates: the remembered provider is not taken out.
selectTwice(s) ==
    IF Len(s) < 2 THEN s
    ELSE IF \E i \in DOMAIN s : s[i] = route
      THEN <<route>> \o SortByLatency(s)
      ELSE SortByLatency(s)

\* select_candidates: the remembered provider first when it still is a
\* candidate, the others by latency.
select_candidates(s) ==
    IF Len(s) < 2 THEN s
    ELSE IF \E i \in DOMAIN s : s[i] = route
      THEN <<route>> \o SortByLatency(Keep(s, Provider \ {route}))
      ELSE SortByLatency(s)

Active == {"selecting", "ordering", "trying", "remembering"}

\* The request's future is gone and its locals with it.
Finish(r, how) ==
    /\ pc' = [pc EXCEPT ![r] = "done"]
    /\ result' = [result EXCEPT ![r] = how]
    /\ cands' = [cands EXCEPT ![r] = <<>>]
    /\ todo' = [todo EXCEPT ![r] = <<>>]
    /\ ready' = [ready EXCEPT ![r] = <<>>]
    /\ resting' = [resting EXCEPT ![r] = <<>>]
    /\ queue' = [queue EXCEPT ![r] = <<>>]
    /\ attempt' = [attempt EXCEPT ![r] = 0]
    /\ lastError' = [lastError EXCEPT ![r] = "none"]

\* The history of a request matters only when it ends in an upstream error.
Forget(r) == /\ loaded' = [loaded EXCEPT ![r] = {}]
             /\ failed' = [failed EXCEPT ![r] = {}]
             /\ transient' = [transient EXCEPT ![r] = TRUE]

Init ==
    /\ max_candidates \in CandidateLimits
    /\ rests = [p \in Provider |-> NoRest]
    /\ models \in ModelLists
    /\ usable = Provider
    /\ route = NoProvider
    /\ latency = [p \in Provider |-> "unknown"]
    /\ changes = 0
    /\ pc = [r \in Request |-> "idle"]
    /\ cands = [r \in Request |-> <<>>]
    /\ todo = [r \in Request |-> <<>>]
    /\ ready = [r \in Request |-> <<>>]
    /\ resting = [r \in Request |-> <<>>]
    /\ queue = [r \in Request |-> <<>>]
    /\ attempt = [r \in Request |-> 0]
    /\ lastError = [r \in Request |-> "none"]
    /\ result = [r \in Request |-> "none"]
    /\ loaded = [r \in Request |-> {}]
    /\ failed = [r \in Request |-> {}]
    /\ transient = [r \in Request |-> TRUE]
    /\ answered = {}

-----------------------------------------------------------------------------
(* A request.                                                                *)

\* load_protocol_models and the filters of resolve_endpoint_model_candidates:
\* the rows whose provider exists, may be used and offers the model.
LoadModels(r) ==
    /\ pc[r] = "idle"
    /\ LET found == Keep(models, usable)
       IN /\ loaded' = [loaded EXCEPT ![r] = Members(found)]
          /\ \/ /\ found # <<>>
                /\ pc' = [pc EXCEPT ![r] = "selecting"]
                /\ cands' = [cands EXCEPT ![r] = found]
                /\ UNCHANGED <<todo, ready, resting, queue, attempt,
                               lastError, result>>
             \/ /\ found = <<>>
                /\ Finish(r, "no_candidate")
    /\ UNCHANGED <<rests, configVars, failed, transient, answered>>

\* A query of the model rows, the providers, the latencies or the route fails:
\* the request ends with the storage error.
LoadFails(r) ==
    /\ pc[r] \in {"idle", "selecting"}
    /\ Finish(r, "local")
    /\ Forget(r)
    /\ UNCHANGED <<rests, configVars, answered>>

\* The latency and route queries, then the start of order_candidates.
SelectCandidates(r) ==
    /\ pc[r] = "selecting"
    /\ LET ordered == select_candidates(cands[r])
       IN /\ cands' = [cands EXCEPT ![r] = ordered]
          /\ todo' = [todo EXCEPT ![r] = ordered]
    /\ pc' = [pc EXCEPT ![r] = "ordering"]
    /\ UNCHANGED <<rests, configVars, ready, resting, queue, attempt, lastError,
                   result, historyVars>>

\* Mutant of ClassifyCandidate: a resting candidate is waited for.
ClassifyReady(r) ==
    /\ pc[r] = "ordering"
    /\ todo[r] # <<>>
    /\ rests[Head(todo[r])].left = 0
    /\ rests' = [rests EXCEPT ![Head(todo[r])] = NoRest]
    /\ ready' = [ready EXCEPT ![r] = Append(@, Head(todo[r]))]
    /\ todo' = [todo EXCEPT ![r] = Tail(@)]
    /\ UNCHANGED <<configVars, pc, cands, resting, queue, attempt, lastError,
                   result, historyVars>>

\* One call of FailoverRegistry::resting under the mutex: an entry whose
\* deadline has passed is removed.
ClassifyCandidate(r) ==
    /\ pc[r] = "ordering"
    /\ todo[r] # <<>>
    /\ LET p == Head(todo[r])
       IN \/ /\ rests[p].left > 0
             /\ resting' = [resting EXCEPT ![r] = Append(@, p)]
             /\ UNCHANGED <<rests, ready>>
          \/ /\ rests[p].left = 0
             /\ rests' = [rests EXCEPT ![p] = NoRest]
             /\ ready' = [ready EXCEPT ![r] = Append(@, p)]
             /\ UNCHANGED resting
    /\ todo' = [todo EXCEPT ![r] = Tail(@)]
    /\ UNCHANGED <<configVars, pc, cands, queue, attempt, lastError, result,
                   historyVars>>

\* Mutant: resting candidates are dropped when others are ready.
OrderReadyOnly(r) == IF ready[r] # <<>> THEN ready[r] ELSE resting[r]

Order(r) == ready[r] \o resting[r]

\* ready ++ resting, cut at max_candidates; the first candidate is called.
BeginLoop(r) ==
    /\ pc[r] = "ordering"
    /\ todo[r] = <<>>
    /\ LET order == Order(r)
       IN queue' = [queue EXCEPT ![r] =
                      SubSeq(order, 1, Least(Len(order), max_candidates))]
    /\ pc' = [pc EXCEPT ![r] = "trying"]
    /\ UNCHANGED <<rests, configVars, cands, todo, ready, resting, attempt,
                   lastError, result, historyVars>>

\* The candidate answered: its cooldown is cleared.
AttemptOk(r) ==
    /\ pc[r] = "trying"
    /\ LET p == Head(queue[r])
       IN /\ rests' = [rests EXCEPT ![p] = NoRest]
          /\ answered' = answered \cup {p}
    /\ pc' = [pc EXCEPT ![r] = "remembering"]
    /\ UNCHANGED <<configVars, cands, todo, ready, resting, queue, attempt,
                   lastError, result, loaded, failed, transient>>

MayRetry(r, e) == is_retryable_upstream(e) /\ attempt[r] < MaxRetries

\* retry_with_policy: back off and call the same candidate again.
AttemptRetry(r, e) ==
    /\ pc[r] = "trying"
    /\ MayRetry(r, e)
    /\ attempt' = [attempt EXCEPT ![r] = @ + 1]
    /\ UNCHANGED <<rests, configVars, pc, cands, todo, ready, resting, queue,
                   lastError, result, historyVars>>

\* The candidate is given up: rest it when the failure is its own, then move
\* on to the next one or return the last upstream error.
AttemptFailover(r, e) ==
    /\ pc[r] = "trying"
    /\ ~MayRetry(r, e)
    /\ is_failoverable_upstream(e)
    /\ LET p == Head(queue[r])
       IN /\ rests' = IF rest_base(e) = 0 THEN rests
                      ELSE [rests EXCEPT ![p] = rest(p, rest_base(e))]
          /\ failed' = [failed EXCEPT ![r] = @ \cup {p}]
          /\ transient' = [transient EXCEPT ![r] = @ /\ is_retryable_upstream(e)]
    /\ \/ /\ Len(queue[r]) > 1
          /\ lastError' = [lastError EXCEPT ![r] = e]
          /\ queue' = [queue EXCEPT ![r] = Tail(@)]
          /\ attempt' = [attempt EXCEPT ![r] = 0]
          /\ UNCHANGED <<pc, cands, todo, ready, resting, result>>
       \/ /\ Len(queue[r]) = 1
          /\ Finish(r, "upstream")
    /\ UNCHANGED <<configVars, loaded, answered>>

\* An error the provider is not to blame for ends the loop.
AttemptAbort(r, e) ==
    /\ pc[r] = "trying"
    /\ ~is_failoverable_upstream(e)
    /\ Finish(r, "local")
    /\ Forget(r)
    /\ UNCHANGED <<rests, configVars, answered>>

\* remember_protocol_model_provider: the upsert, or its failure, which is only
\* logged; the response is returned either way.
RememberProvider(r) ==
    /\ pc[r] = "remembering"
    /\ route' \in {Head(queue[r]), route}
    /\ Finish(r, "ok")
    /\ Forget(r)
    /\ UNCHANGED <<rests, max_candidates, models, usable, latency, changes,
                   answered>>

\* The client goes away: the future is dropped at the await it stands at.
Cancel(r) ==
    /\ pc[r] \in Active
    /\ Finish(r, "cancelled")
    /\ Forget(r)
    /\ UNCHANGED <<rests, configVars, answered>>

-----------------------------------------------------------------------------
(* What changes underneath the requests.                                     *)

\* The bound on configuration changes.
Change == /\ changes < MaxChanges
          /\ changes' = changes + 1
          /\ UNCHANGED max_candidates

\* update with models (replace_models): the rows are rewritten, every route of
\* the endpoint is dropped.
ReplaceModels ==
    /\ Change
    /\ \E list \in ModelLists \ {models} : models' = list
    /\ route' = NoProvider
    /\ UNCHANGED <<rests, usable, latency, requestVars, historyVars>>

\* The owner of a shared provider changes who may use it.
ChangeVisibility(p) ==
    /\ Change
    /\ usable' = IF p \in usable THEN usable \ {p} ELSE usable \cup {p}
    /\ UNCHANGED <<rests, models, route, latency, requestVars, historyVars>>

\* A finished activity moves the average latency of a provider that answered.
RecordLatency(p) ==
    /\ Change
    /\ p \in answered
    /\ \E class \in LatencyClass \ {"unknown", latency[p]} :
          latency' = [latency EXCEPT ![p] = class]
    /\ UNCHANGED <<rests, models, usable, route, requestVars, historyVars>>

\* One unit of time passes.
Tick ==
    /\ \E p \in Provider : rests[p].left > 0
    /\ rests' = [p \in Provider |->
                   IF rests[p].left > 0 THEN [rests[p] EXCEPT !.left = @ - 1]
                                        ELSE rests[p]]
    /\ UNCHANGED <<configVars, requestVars, historyVars>>

Step(r) ==
    \/ LoadModels(r)
    \/ LoadFails(r)
    \/ SelectCandidates(r)
    \/ ClassifyCandidate(r)
    \/ BeginLoop(r)
    \/ AttemptOk(r)
    \/ \E e \in Failure : AttemptRetry(r, e)
    \/ \E e \in Failure : AttemptFailover(r, e)
    \/ \E e \in Failure : AttemptAbort(r, e)
    \/ RememberProvider(r)

Next ==
    \/ \E r \in Request : Step(r)
    \/ \E r \in Request : Cancel(r)
    \/ ReplaceModels
    \/ \E p \in Provider : ChangeVisibility(p)
    \/ \E p \in Provider : RecordLatency(p)
    \/ Tick

Spec == Init /\ [][Next]_vars

\* Every await of a request ends: connect_timeout and read_timeout bound the
\* upstream call, the backoff is a sleep, and the runtime polls ready tasks.
FairSpec == Spec /\ \A r \in Request : WF_vars(Step(r))

-----------------------------------------------------------------------------
Rest == [left : 0..MaxRest, consecutive : 0..ConsecutiveCap]

Outcome == {"none", "ok", "upstream", "local", "no_candidate", "cancelled"}

TypeOK ==
    /\ max_candidates \in CandidateLimits
    /\ rests \in [Provider -> Rest]
    /\ models \in ModelLists
    /\ usable \subseteq Provider
    /\ route \in Provider \cup {NoProvider}
    /\ latency \in [Provider -> LatencyClass]
    /\ changes \in 0..MaxChanges
    /\ pc \in [Request -> Active \cup {"idle", "done"}]
    /\ cands \in [Request -> Seq(Provider)]
    /\ todo \in [Request -> Seq(Provider)]
    /\ ready \in [Request -> Seq(Provider)]
    /\ resting \in [Request -> Seq(Provider)]
    /\ queue \in [Request -> Seq(Provider)]
    /\ attempt \in [Request -> 0..MaxRetries]
    /\ lastError \in [Request -> Failure \cup {"none"}]
    /\ result \in [Request -> Outcome]
    /\ loaded \in [Request -> SUBSET Provider]
    /\ failed \in [Request -> SUBSET Provider]
    /\ transient \in [Request -> BOOLEAN]
    /\ answered \subseteq Provider

\* README.md:133: connection failures, timeouts, 408, 429 and 5xx make the service
\* switch candidates.  A request that met nothing else and reports an upstream
\* failure has given up on as many different providers as it was allowed to try:
\* none of its candidates was dropped for resting, lost by the reordering, or tried
\* twice in place of another.  (After other failures the code switches as well, the
\* README does not: see OnlyTransientErrorsSwitch.)
ExhaustedBeforeFailing ==
    \A r \in Request :
        result[r] = "upstream" /\ transient[r] =>
            Cardinality(failed[r]) = Least(Cardinality(loaded[r]), max_candidates)

\* Whatever the remembered route and the latencies say, and however they change
\* between the two queries, a request's candidates are exactly the rows it read,
\* each of them once.
CandidatesAreThoseLoaded ==
    \A r \in Request :
        pc[r] \in Active =>
            /\ Members(cands[r]) = loaded[r]
            /\ Len(cands[r]) = Cardinality(loaded[r])

\* Every request ends.
RequestsEnd == \A r \in Request : pc[r] = "selecting" ~> pc[r] = "done"

\* README.md:133: only connection failures, timeouts, 408, 429 and 5xx make the
\* service switch candidates; authentication, permission, model and parameter
\* errors are returned as they are.
OnlyTransientErrorsSwitch ==
    \A r \in Request : pc[r] = "trying" => lastError[r] \notin {"auth", "reject"}

=============================================================================
