------------------------------ MODULE Tenancy ------------------------------
(***************************************************************************)
(* Identities and what they own: provider configurations (private or       *)
(* shared with other identities), endpoints, the models an endpoint maps   *)
(* to providers, the routes it remembers, activity rows and rollout files. *)
(* Management and protocol requests change them concurrently, and the      *)
(* cleanup deletes an identity that has been inactive for 90 days, at      *)
(* startup and once a day.                                                 *)
(*                                                                         *)
(* The database is PostgreSQL at its default isolation.  A transaction's   *)
(* statements read committed rows, each with a snapshot of its own; rows   *)
(* inserted by others after that are not seen by the statement; and the    *)
(* transaction ends in one step that either applies all its effects or,    *)
(* when a constraint would be broken, none of them.  (An insert locks the  *)
(* rows it refers to, so checking the constraints at the commit has the    *)
(* outcomes of checking them at the statement.)                            *)
(*                                                                         *)
(* One model name is enough: rows of different models never meet.  Ids are *)
(* UUIDs, never used twice.  A provider's secret and its other fields, and *)
(* an endpoint's name, are left out.  An activity is what matters of it    *)
(* here: whose it is and the file of the thread it was written to.         *)
(***************************************************************************)
EXTENDS Naturals, FiniteSets

CONSTANTS
    Identity, Provider, Endpoint,  \* the ids rows may be given
    Thread,                        \* the threads of an identity, a file each
    Nobody,                        \* no row, no reference
    Manager, Server,               \* management and protocol requests at a time
    MaxFaults                      \* bound: crashes and database failures

ASSUME TenancyAssumption ==
    /\ Nobody \notin Identity \cup Provider \cup Endpoint
    /\ Identity \cap Provider = {}
    /\ Identity \cap Endpoint = {}
    /\ Provider \cap Endpoint = {}
    /\ Manager \cap Server = {}
    /\ MaxFaults \in Nat

VARIABLES
    server,  \* "down", "starting" or "up"
    db,      \* the committed rows (see Empty)
    files,   \* rollout files on disk
    born,    \* ids given out so far
    op,      \* what each handler is doing
    job,     \* the cleanup
    faults,  \* crashes and database failures so far, capped by MaxFaults
    stray    \* history: files that a mishap left for good (see Strays)

vars == <<server, db, files, born, op, job, faults, stray>>

-----------------------------------------------------------------------------
(* The database.                                                             *)

\* A file, by its path: <identity>/<thread>.
Path == Identity \X Thread

Visibility == {"private", "selected", "all"}

\* inactive: last_active_at lies before the cutoff.  owner and endpoints give
\* the identity_id of each row, Nobody where there is no row.
Empty == [identities |-> {}, inactive |-> {}, activities |-> {},
          owner |-> [p \in Provider |-> Nobody],
          visibility |-> [p \in Provider |-> "private"],
          shares |-> {},
          endpoints |-> [e \in Endpoint |-> Nobody],
          models |-> {},
          routes |-> [e \in Endpoint |-> Nobody]]

\* Mutant of ForeignKeys: the routes have none.
ForeignKeysButRoutes(d) ==
    /\ \A p \in Provider : d.owner[p] \in d.identities \cup {Nobody}
    /\ \A e \in Endpoint : d.endpoints[e] \in d.identities \cup {Nobody}
    /\ \A m \in d.models : d.endpoints[m[1]] # Nobody /\ d.owner[m[2]] # Nobody
    /\ \A g \in d.shares : d.owner[g[1]] # Nobody /\ g[2] \in d.identities
    /\ \A f \in d.activities : f[1] \in d.identities

\* The foreign keys of the schema.
ForeignKeys(d) ==
    /\ \A p \in Provider : d.owner[p] \in d.identities \cup {Nobody}
    /\ \A e \in Endpoint : d.endpoints[e] \in d.identities \cup {Nobody}
    /\ \A m \in d.models : d.endpoints[m[1]] # Nobody /\ d.owner[m[2]] # Nobody
    /\ \A e \in Endpoint : d.routes[e] # Nobody =>
                             d.endpoints[e] # Nobody /\ d.owner[d.routes[e]] # Nobody
    /\ \A g \in d.shares : d.owner[g[1]] # Nobody /\ g[2] \in d.identities
    /\ \A f \in d.activities : f[1] \in d.identities

\* A transaction whose effects make d of the database ends.
Commit(d) == db' = IF ForeignKeys(d) THEN d ELSE db

\* Rows removed; ON DELETE CASCADE takes the shares of a provider or a grantee
\* along.
DropRoutes(d, E) == [d EXCEPT !.routes = [e \in Endpoint |->
                        IF e \in E THEN Nobody ELSE @[e]]]

DropProviders(d, P) ==
    [d EXCEPT !.owner = [p \in Provider |-> IF p \in P THEN Nobody ELSE @[p]],
              !.visibility = [p \in Provider |-> IF p \in P THEN "private" ELSE @[p]],
              !.shares = {g \in @ : g[1] \notin P}]

DropEndpoints(d, E) ==
    [d EXCEPT !.endpoints = [e \in Endpoint |-> IF e \in E THEN Nobody ELSE @[e]]]

DropIdentities(d, I) ==
    [d EXCEPT !.identities = @ \ I, !.inactive = @ \ I,
              !.shares = {g \in @ : g[2] \notin I}]

ModelsOf(E) == {m \in db.models : m[1] \in E}

EndpointsOf(I) == {e \in Endpoint : db.endpoints[e] \in I}

ProvidersOf(I) == {p \in Provider : db.owner[p] \in I}

\* visible_provider: the owner, everybody who is registered, or the grantees.
can_use_provider(i, p) ==
    /\ db.owner[p] # Nobody
    /\ \/ db.owner[p] = i
       \/ db.visibility[p] = "all" /\ i \in db.identities
       \/ db.visibility[p] = "selected" /\ <<p, i>> \in db.shares

-----------------------------------------------------------------------------
(* Handlers.                                                                 *)

Handler == Manager \cup Server

\* A handler between two awaits: where it stands, the identity it acts for, the
\* endpoint and provider concerned, the chosen providers or grantees, the
\* visibility asked for, the rows its DELETE statements have found, and the file
\* it has written.
Idle == [at |-> "idle", who |-> Nobody, endpoint |-> Nobody, provider |-> Nobody,
         path |-> Nobody,
         chosen |-> {}, visibility |-> "private", models |-> {}, routes |-> {}]

At(o, where) == server = "up" /\ op[o].at = where

Goes(o, next) == op' = [op EXCEPT ![o] = next]

Done(o) == Goes(o, Idle)

\* last_active_at is set to now.
Touch(i) == db' = [db EXCEPT !.inactive = @ \ {i}]

\* Files whose activity will not be inserted stay, unless another activity of the
\* thread names them.
Strays(F) == stray' = stray \cup (F \ db.activities)

\* The files of the handlers between file and row.
Written(H) == {op[o].path : o \in {x \in H : op[x].at = "inserting"}}

\* register: a new row.  (Registering again only touches, as Authenticate does.)
Register(i) ==
    /\ server = "up"
    /\ i \notin born
    /\ born' = born \cup {i}
    /\ db' = [db EXCEPT !.identities = @ \cup {i}]
    /\ UNCHANGED <<server, files, op, job, faults, stray>>

\* authenticate: a management request of i.
Authenticate(o, i) ==
    /\ At(o, "idle")
    /\ i \in db.identities
    /\ Touch(i)
    /\ Goes(o, [Idle EXCEPT !.at = "managing", !.who = i])
    /\ UNCHANGED <<server, files, born, job, faults, stray>>

\* create_inner: the identity is looked up in the transaction.
CreateProvider(o, p) ==
    /\ At(o, "managing")
    /\ p \notin born
    /\ born' = born \cup {p}
    /\ Commit([db EXCEPT !.owner[p] = op[o].who])
    /\ Done(o)
    /\ UNCHANGED <<server, files, job, faults, stray>>

\* update_provider_sharing up to validate_sharing_input.
ShareCheck(o, p, visibility, chosen) ==
    /\ At(o, "managing")
    /\ db.owner[p] = op[o].who
    /\ visibility # "selected" => chosen = {}
    /\ chosen \subseteq db.identities \ {op[o].who}
    /\ Goes(o, [op[o] EXCEPT !.at = "sharing", !.provider = p,
                             !.visibility = visibility, !.chosen = chosen])
    /\ UNCHANGED <<server, db, files, born, job, faults, stray>>

\* The visibility is set and the grants are replaced.
Shared(d, h) ==
    [d EXCEPT !.visibility[h.provider] = h.visibility,
              !.shares = {g \in @ : g[1] # h.provider}
                            \cup ({h.provider} \X h.chosen)]

\* ... from the update of the provider row, which locks it, to the commit.
ShareCommit(o) ==
    /\ At(o, "sharing")
    /\ IF db.owner[op[o].provider] = Nobody THEN UNCHANGED db
                                            ELSE Commit(Shared(db, op[o]))
    /\ Done(o)
    /\ UNCHANGED <<server, files, born, job, faults, stray>>

\* delete: the rows its statements find, of whatever identity.
DeleteProviderRead(o, p) ==
    /\ At(o, "managing")
    /\ db.owner[p] = op[o].who
    /\ Goes(o, [op[o] EXCEPT !.at = "deleting_provider", !.provider = p,
                             !.models = {m \in db.models : m[2] = p},
                             !.routes = {e \in Endpoint : db.routes[e] = p}])
    /\ UNCHANGED <<server, db, files, born, job, faults, stray>>

\* A route found may have been given to another provider meanwhile.
WithoutProvider(h) ==
    LET found == {e \in h.routes : db.routes[e] = h.provider}
    IN DropProviders(DropRoutes([db EXCEPT !.models = @ \ h.models], found),
                     {h.provider})

DeleteProviderCommit(o) ==
    /\ At(o, "deleting_provider")
    /\ Commit(WithoutProvider(op[o]))
    /\ Done(o)
    /\ UNCHANGED <<server, files, born, job, faults, stray>>

\* create and update of an endpoint up to resolve_models, and the DELETE
\* statement of replace_models.
SaveCheck(o, e, chosen) ==
    /\ At(o, "managing")
    /\ \/ e \notin born /\ op[o].who \in db.identities
       \/ db.endpoints[e] = op[o].who
    /\ \A p \in chosen : can_use_provider(op[o].who, p)
    /\ born' = born \cup {e}
    /\ Goes(o, [op[o] EXCEPT !.at = IF e \in born THEN "updating" ELSE "creating",
                             !.endpoint = e, !.chosen = chosen,
                             !.models = ModelsOf({e})])
    /\ UNCHANGED <<server, db, files, job, faults, stray>>

CreateCommit(o) ==
    /\ At(o, "creating")
    /\ Commit([db EXCEPT !.endpoints[op[o].endpoint] = op[o].who,
                         !.models = @ \cup ({op[o].endpoint} \X op[o].chosen)])
    /\ Done(o)
    /\ UNCHANGED <<server, files, born, job, faults, stray>>

\* update: the rest of replace_models and the commit.  A request that also sets
\* the name or the protocol has updated the endpoint row, and so waits for an
\* earlier writer before its DELETE; one that does not deletes what it found.  A
\* mapping that is already there breaks the unique index.
UpdateCommit(o, locked) ==
    /\ At(o, "updating")
    /\ LET e == op[o].endpoint
           new == {e} \X op[o].chosen
           kept == db.models \ (IF locked THEN ModelsOf({e}) ELSE op[o].models)
       IN IF db.endpoints[e] = Nobody \/ new \cap kept # {}
            THEN UNCHANGED db
            ELSE Commit(DropRoutes([db EXCEPT !.models = kept \cup new], {e}))
    /\ Done(o)
    /\ UNCHANGED <<server, files, born, job, faults, stray>>

\* delete of an endpoint: the rows its statements find, then the commit.
DeleteEndpointRead(o, e) ==
    /\ At(o, "managing")
    /\ db.endpoints[e] = op[o].who
    /\ Goes(o, [op[o] EXCEPT !.at = "deleting_endpoint", !.endpoint = e,
                             !.models = ModelsOf({e}),
                             !.routes = {x \in {e} : db.routes[x] # Nobody}])
    /\ UNCHANGED <<server, db, files, born, job, faults, stray>>

DeleteEndpointCommit(o) ==
    /\ At(o, "deleting_endpoint")
    /\ LET d == [db EXCEPT !.models = @ \ op[o].models]
       IN Commit(DropEndpoints(DropRoutes(d, op[o].routes), {op[o].endpoint}))
    /\ Done(o)
    /\ UNCHANGED <<server, files, born, job, faults, stray>>

\* authenticate_protocol_access: the endpoint's token leads to its identity.
ProtocolAccess(o, e) ==
    /\ At(o, "idle")
    /\ db.endpoints[e] # Nobody
    /\ Touch(db.endpoints[e])
    /\ Goes(o, [Idle EXCEPT !.at = "routing", !.who = db.endpoints[e],
                            !.endpoint = e])
    /\ UNCHANGED <<server, files, born, job, faults, stray>>

\* load_protocol_models: the request will be answered by a provider that the
\* endpoint maps and its identity may use, or by none.
LoadProtocolModels(o) ==
    /\ At(o, "routing")
    /\ LET usable == {p \in Provider : /\ <<op[o].endpoint, p>> \in db.models
                                       /\ can_use_provider(op[o].who, p)}
       IN \/ usable = {} /\ Done(o)
          \/ \E p \in usable : Goes(o, [op[o] EXCEPT !.at = "answered", !.provider = p])
    /\ UNCHANGED <<server, db, files, born, job, faults, stray>>

\* The turn goes into the thread's file, then the rows are inserted; without them
\* the request is refused and the file stays.
RecordFile(o, t) ==
    /\ At(o, "answered")
    /\ files' = files \cup {<<op[o].who, t>>}
    /\ Goes(o, [op[o] EXCEPT !.at = "inserting", !.path = <<op[o].who, t>>])
    /\ UNCHANGED <<server, db, born, job, faults, stray>>

\* A row that comes when the cleanup under way has listed the paths will be deleted
\* without its file.
RecordRow(o) ==
    /\ At(o, "inserting")
    /\ LET f == op[o].path
           d == [db EXCEPT !.activities = @ \cup {f}]
           late == job.at = "ready" /\ f[1] \in job.ids /\ f \notin job.paths
       IN \/ /\ ForeignKeys(d)
             /\ db' = d
             /\ Goes(o, [op[o] EXCEPT !.at = "remembering"])
             /\ stray' = IF late THEN stray \cup {f} ELSE stray
          \/ /\ ~ForeignKeys(d)
             /\ Done(o)
             /\ Strays({f})
             /\ UNCHANGED db
    /\ UNCHANGED <<server, files, born, job, faults>>

\* Any handler may end at any await: its client goes away and the future is
\* dropped, or a statement fails; an open transaction is rolled back.
Abandon(o) ==
    /\ server = "up"
    /\ op[o].at # "idle"
    /\ Done(o)
    /\ Strays(Written({o}))
    /\ UNCHANGED <<server, db, files, born, job, faults>>

\* remember_protocol_model_provider: an upsert, whose failure is only logged.
RememberRoute(o) ==
    /\ At(o, "remembering")
    /\ Commit([db EXCEPT !.routes[op[o].endpoint] = op[o].provider])
    /\ Done(o)
    /\ UNCHANGED <<server, files, born, job, faults, stray>>

-----------------------------------------------------------------------------
(* The cleanup: at startup, where its failure ends the process, and once a   *)
(* day, where it is only logged.                                             *)

Off == [at |-> "off", ids |-> {}, endpoints |-> {}, paths |-> {}]

\* 90 days pass without a request of i.
GoInactive(i) ==
    /\ i \in db.identities \ db.inactive
    /\ \A o \in Handler : op[o].who # i
    /\ db' = [db EXCEPT !.inactive = @ \cup {i}]
    /\ UNCHANGED <<server, files, born, op, job, faults, stray>>

Running(where) == server # "down" /\ job.at = where

\* delete_inactive, statement by statement: who, their endpoints, the files of
\* their activities.
SelectInactive ==
    /\ Running("off")
    /\ db.inactive # {}
    /\ job' = [Off EXCEPT !.at = "selected", !.ids = db.inactive]
    /\ UNCHANGED <<server, db, files, born, op, faults, stray>>

\* Mutant of SelectEndpoints: the endpoints' identity_id is collected, not their id.
SelectEndpointOwners ==
    /\ Running("selected")
    /\ job' = [job EXCEPT !.at = "listed",
                          !.endpoints = {db.endpoints[e] : e \in EndpointsOf(job.ids)}]
    /\ UNCHANGED <<server, db, files, born, op, faults, stray>>

SelectEndpoints ==
    /\ Running("selected")
    /\ job' = [job EXCEPT !.at = "listed", !.endpoints = EndpointsOf(job.ids)]
    /\ UNCHANGED <<server, db, files, born, op, faults, stray>>

\* Mutant of SelectPaths: the paths are looked up when the rows are gone.
SelectPathsTooLate ==
    /\ Running("listed")
    /\ job' = [job EXCEPT !.at = "ready"]
    /\ UNCHANGED <<server, db, files, born, op, faults, stray>>

SelectPaths ==
    /\ Running("listed")
    /\ job' = [job EXCEPT !.at = "ready",
                          !.paths = {f \in db.activities : f[1] \in job.ids}]
    /\ stray' = stray \ job'.paths
    /\ UNCHANGED <<server, db, files, born, op, faults>>

\* Mutant of Cleaned: the endpoints' models are forgotten.
CleanedButModels ==
    LET d == [db EXCEPT !.activities = {f \in @ : f[1] \notin job.ids}]
    IN DropIdentities(DropProviders(DropEndpoints(DropRoutes(d, job.endpoints),
                          EndpointsOf(job.ids)), ProvidersOf(job.ids)), job.ids)

\* The deletes: activities, routes and models of the endpoints found, then
\* endpoints, providers and identities by identity.
Cleaned ==
    LET d == [db EXCEPT !.activities = {f \in @ : f[1] \notin job.ids},
                        !.models = @ \ ModelsOf(job.endpoints)]
    IN DropIdentities(DropProviders(DropEndpoints(DropRoutes(d, job.endpoints),
                          EndpointsOf(job.ids)), ProvidersOf(job.ids)), job.ids)

\* handle_startup_cleanup_failure ends the process; log_cleanup_failure does not.
CleanupFailed == /\ job' = Off
                 /\ server' = IF server = "starting" THEN "down" ELSE server

CommitCleanup ==
    /\ Running("ready")
    /\ Commit(Cleaned)
    /\ IF ForeignKeys(Cleaned)
         THEN job' = [job EXCEPT !.at = "removing"] /\ UNCHANGED server
         ELSE CleanupFailed
    /\ UNCHANGED <<files, born, op, faults, stray>>

\* remove_rollout_files, path by path.  A file that cannot be removed is only
\* logged.
RemoveFile(f) ==
    /\ Running("removing")
    /\ f \in job.paths
    /\ \/ files' = files \ {f} /\ UNCHANGED stray
       \/ Strays({f}) /\ UNCHANGED files
    /\ job' = [job EXCEPT !.paths = @ \ {f}]
    /\ UNCHANGED <<server, db, born, op, faults>>

CleanupDone ==
    /\ Running("removing")
    /\ job.paths = {}
    /\ job' = Off
    /\ server' = "up"
    /\ UNCHANGED <<db, files, born, op, faults, stray>>

\* Startup goes on at once when nobody is inactive.
NothingToDelete ==
    /\ server = "starting"
    /\ job.at = "off"
    /\ db.inactive = {}
    /\ server' = "up"
    /\ UNCHANGED <<db, files, born, op, job, faults, stray>>

\* A statement of the cleanup fails.
CleanupFault ==
    /\ server # "down"
    /\ job.at \in {"selected", "listed", "ready"}
    /\ faults < MaxFaults
    /\ faults' = faults + 1
    /\ CleanupFailed
    /\ UNCHANGED <<db, files, born, op, stray>>

Crash ==
    /\ server # "down"
    /\ faults < MaxFaults
    /\ faults' = faults + 1
    /\ server' = "down"
    /\ op' = [o \in Handler |-> Idle]
    /\ job' = Off
    /\ Strays(job.paths \cup Written(Handler))
    /\ UNCHANGED <<db, files, born>>

Start ==
    /\ server = "down"
    /\ server' = "starting"
    /\ UNCHANGED <<db, files, born, op, job, faults, stray>>

-----------------------------------------------------------------------------
Init ==
    /\ server = "up"
    /\ db = Empty
    /\ files = {}
    /\ born = {}
    /\ op = [o \in Handler |-> Idle]
    /\ job = Off
    /\ faults = 0
    /\ stray = {}

Manage(o) ==
    \/ \E i \in Identity : Authenticate(o, i)
    \/ \E p \in Provider : CreateProvider(o, p) \/ DeleteProviderRead(o, p)
    \/ \E p \in Provider, v \in Visibility, chosen \in SUBSET Identity :
          ShareCheck(o, p, v, chosen)
    \/ ShareCommit(o) \/ DeleteProviderCommit(o)
    \/ \E e \in Endpoint, chosen \in SUBSET Provider : SaveCheck(o, e, chosen)
    \/ CreateCommit(o) \/ \E locked \in BOOLEAN : UpdateCommit(o, locked)
    \/ \E e \in Endpoint : DeleteEndpointRead(o, e)
    \/ DeleteEndpointCommit(o)

Serve(o) ==
    \/ \E e \in Endpoint : ProtocolAccess(o, e)
    \/ LoadProtocolModels(o) \/ RecordRow(o) \/ RememberRoute(o)
    \/ \E t \in Thread : RecordFile(o, t)

Cleanup ==
    \/ SelectInactive \/ SelectEndpoints \/ SelectPaths \/ CommitCleanup
    \/ (\E f \in job.paths : RemoveFile(f)) \/ CleanupDone \/ NothingToDelete

Next ==
    \/ \E i \in Identity : Register(i) \/ GoInactive(i)
    \/ \E o \in Manager : Manage(o)
    \/ \E o \in Server : Serve(o)
    \/ \E o \in Handler : Abandon(o)
    \/ Cleanup \/ CleanupFault
    \/ Crash \/ Start

Spec == Init /\ [][Next]_vars

\* The cleanup's interval fires again and again, its statements return, and the
\* supervisor restarts the process.
FairSpec == Spec /\ WF_vars(Cleanup) /\ WF_vars(Start)

-----------------------------------------------------------------------------
Ids == Identity \cup Provider \cup Endpoint

HandlerState ==
    [at : {"idle", "managing", "sharing", "deleting_provider", "creating",
           "updating", "deleting_endpoint", "routing", "answered", "inserting",
           "remembering"},
     who : Identity \cup {Nobody}, path : Path \cup {Nobody},
     endpoint : Endpoint \cup {Nobody},
     provider : Provider \cup {Nobody}, chosen : SUBSET (Identity \cup Provider),
     visibility : Visibility, models : SUBSET (Endpoint \X Provider),
     routes : SUBSET Endpoint]

TypeOK ==
    /\ server \in {"down", "starting", "up"}
    /\ db.identities \subseteq Identity
    /\ db.inactive \subseteq db.identities
    /\ db.activities \subseteq Path
    /\ db.owner \in [Provider -> Identity \cup {Nobody}]
    /\ db.visibility \in [Provider -> Visibility]
    /\ db.shares \subseteq Provider \X Identity
    /\ db.endpoints \in [Endpoint -> Identity \cup {Nobody}]
    /\ db.models \subseteq Endpoint \X Provider
    /\ db.routes \in [Endpoint -> Provider \cup {Nobody}]
    /\ files \subseteq Path
    /\ born \subseteq Ids
    /\ op \in [Handler -> HandlerState]
    /\ job \in [at : {"off", "selected", "listed", "ready", "removing"},
                ids : SUBSET Identity, endpoints : SUBSET Endpoint,
                paths : SUBSET Path]
    /\ faults \in 0..MaxFaults
    /\ stray \subseteq Path

\* However a request's late upsert or insert falls between the statements of a
\* delete, nothing routes to, maps or is granted for a row that is gone; and grants
\* exist only while the provider is shared with selected identities, never for its
\* owner: making a provider private or public leaves none behind.
NoOrphans ==
    /\ \A e \in Endpoint : db.routes[e] # Nobody =>
           db.endpoints[e] # Nobody /\ db.owner[db.routes[e]] # Nobody
    /\ \A m \in db.models : /\ db.endpoints[m[1]] \in db.identities
                            /\ db.owner[m[2]] \in db.identities
    /\ \A g \in db.shares : /\ {db.owner[g[1]], g[2]} \subseteq db.identities
                            /\ db.visibility[g[1]] = "selected" /\ db.owner[g[1]] # g[2]

\* docs/superpowers/specs/2026-10-22 line 27: the cleanup of an identity also
\* deletes its activity files.  A file of an identity that is gone is either about
\* to be removed, or a request is about to be refused for it, or it is one of the
\* strays the code leaves: its rows were not inserted (line 120 of that document)
\* or came after the cleanup had listed the paths, it could not be removed, or the
\* process crashed first.  And no activity is without its file: whatever request
\* is under way, only files that no row can name any more are removed.
FilesGoWithIdentity ==
    /\ \A f \in files \ stray :
          f[1] \notin db.identities => f \in job.paths \cup Written(Handler)
    /\ db.activities \subseteq files

\* No transaction stands in the way of deleting the inactive identities: nobody
\* active maps or remembers one of their providers.
Unreferenced ==
    \A e \in Endpoint, p \in Provider :
        (<<e, p>> \in db.models \/ db.routes[e] = p) /\ db.owner[p] \in db.inactive
            => db.endpoints[e] \in db.inactive

Lingers(i) == i \in db.inactive

\* An identity does not stay inactive for ever as long as nobody active refers to
\* a provider of an inactive one.
InactiveUnreferencedAreDeleted ==
    \A i \in Identity : []<>(~(Lingers(i) /\ Unreferenced))

\* README.md:43: identities inactive for 90 days are deleted, at startup and every
\* 24 hours after that.
InactiveAreDeleted == \A i \in Identity : []<>(~Lingers(i))

\* docs/architecture/database.md:97: an endpoint and its mappings are saved as a
\* whole.  What an update leaves is the list it was given.
MappingsSavedWhole ==
    [][\A o \in Handler :
         op[o].at = "updating" /\ db'.models # db.models
            /\ op' = [op EXCEPT ![o] = Idle]
            => {p \in Provider : <<op[o].endpoint, p>> \in db'.models} = op[o].chosen]_vars

=============================================================================
