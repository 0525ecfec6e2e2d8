------------------------------ MODULE Startup ------------------------------
(***************************************************************************)
(* From the start of the process to a server that serves: the catalog is   *)
(* loaded, an empty database gets the current schema, an older one is      *)
(* brought up to date, and the rows are fitted to the catalog.  The        *)
(* process can be killed, or lose its database, between any two            *)
(* statements; the next start runs on what was committed, with whatever    *)
(* catalog the operator has written by then.  One server starts at a time. *)
(*                                                                         *)
(* The schema is the set of its elements: tables, indexes, constraints,    *)
(* and groups of columns that one release added together.  A transaction   *)
(* is one step: nobody sees it half done, and a start that dies in it      *)
(* leaves nothing of it (PostgreSQL's transactional DDL).  Every statement *)
(* outside of a transaction is a step of its own.                          *)
(*                                                                         *)
(* One endpoint is enough: rows of different endpoints never meet.         *)
(***************************************************************************)
EXTENDS Catalog, FiniteSetsExt

CONSTANTS
    Documents,  \* the catalog documents an operator may write, by name
    Databases   \* the databases a start may find

VARIABLES
    pc,        \* where the start is, or how the last one ended
    db,        \* the committed database
    catalog,   \* the catalog of this process
    document,  \* history: the name of the document it was loaded from
    todo,      \* the rows or statements the present loop has still to visit
    pending,   \* the mapping whose route is gone and whose row is not yet
    original,  \* history: the database before the first start
    used       \* history: the documents loaded since

vars == <<pc, db, catalog, document, todo, pending, original, used>>

-----------------------------------------------------------------------------
(* The schema.                                                               *)

BASE_TABLES ==
    {"identities", "identity_provider_configs", "identity_provider_shares",
     "identity_endpoint_configs", "identity_endpoint_models",
     "identity_endpoint_model_routes", "identity_response_sessions"}

MEMORY_TABLES == {"activity_rollouts", "memories", "memory_sources"}

ROLLOUT_INDEXES ==
    {"idx_activity_rollouts_path", "idx_activity_rollouts_identity_thread",
     "idx_activity_rollouts_identity_created_at", "idx_activity_rollouts_session"}

\* provider_columns: identity_id, provider_type, api_key_ciphertext, created_at
provider_configs == {"identity_provider_configs", "provider_columns",
                     "visibility", "models_json"}
provider_shares == {"identity_provider_shares",
                    "uq_identity_provider_shares_provider_grantee"}
\* state_columns: what a response state needs beyond the legacy session;
\* fk_provider: the reference older releases made to the provider
response_sessions == {"identity_response_sessions", "state_columns",
                      "idx_identity_response_sessions_expires_at"}
activities == {"identity_activities", "activity_provider_type"}
\* line_columns: thread, window, generation, first and last line
activity_rollouts == {"activity_rollouts", "line_columns"}

\* A statement per member of the sequence, each of them a set of elements.
MemorySchema ==
    <<activity_rollouts, {"idx_activity_rollouts_path"},
      {"idx_activity_rollouts_identity_thread"},
      {"idx_activity_rollouts_identity_created_at"}, {"idx_activity_rollouts_session"},
      {"memories"}, {"uq_memories_normalized_key"},
      {"memory_sources"}, {"idx_memory_sources_identity_observed_at"},
      {"uq_memory_sources_memory_identity_evidence_observed"}>>

EmptySchema ==
    <<{"identities"}, provider_configs, {"identity_provider_shares"},
      {"uq_identity_provider_shares_provider_grantee"},
      {"identity_endpoint_configs"}, {"identity_endpoint_models"},
      {"identity_endpoint_model_routes"},
      response_sessions \ {"idx_identity_response_sessions_expires_at"},
      {"idx_identity_response_sessions_expires_at"},
      activities, {"idx_identity_activities_identity_created_at"}>> \o MemorySchema

FullSchema == UNION Range(EmptySchema)

provider_sharing_schema_exists(schema) == provider_shares \cup {"visibility"} \subseteq schema

activity_rollout_schema_exists(schema) == ROLLOUT_INDEXES \cup activity_rollouts \subseteq schema

response_session_schema_exists(schema) == response_sessions \subseteq schema

current_schema_is_complete(schema) ==
    /\ BASE_TABLES \cup MEMORY_TABLES \cup {"identity_activities"} \subseteq schema
    /\ provider_sharing_schema_exists(schema)
    /\ activity_rollout_schema_exists(schema)
    /\ response_session_schema_exists(schema)

required_base_tables_exist(schema) == BASE_TABLES \ {"identity_provider_shares"} \subseteq schema

schema_is_empty(schema) ==
    schema \cap (BASE_TABLES \cup MEMORY_TABLES
                   \cup {"identity_activities", "identity_request_logs",
                         "activity_contents"}) = {}

\* Otherwise: "database schema is incomplete; create a new database deployment".
schema_can_be_migrated(schema) ==
    /\ required_base_tables_exist(schema)
    /\ schema \cap {"identity_activities", "identity_request_logs"} # {}
    /\ "memories" \in schema <=> "memory_sources" \in schema
    /\ "memories" \notin schema => schema \cap {"activity_contents", "activity_rollouts"} = {}

-----------------------------------------------------------------------------
(* The upgrade of an existing database: one transaction.                     *)
(*   providers   id -> [type, models, disabled, capabilities]; models is the *)
(*               list in models_json, if it is not NULL                      *)
(*   mappings    <<provider, model>> -> upstream name                        *)
(*   routes      model -> provider                                           *)
(*   activities  id -> [provider, type, anthropic]                           *)

WithSchema(d, added, dropped) ==
    [d EXCEPT !.schema = (@ \cup added) \ dropped]

strip_legacy_protocol_overrides(d) ==
    [d EXCEPT !.providers =
        [p \in DOMAIN @ |-> [@[p] EXCEPT !.capabilities.override = FALSE]]]

provider_table_is_current(schema) == "provider_columns" \in schema

migrate_provider_schema(d) ==
    LET shares == IF "identity_provider_shares" \in d.schema THEN {} ELSE provider_shares
    IN IF ~provider_table_is_current(d.schema)
       THEN WithSchema(d, {}, {"identity_model_aliases"})
       ELSE strip_legacy_protocol_overrides(
               WithSchema(d, {"visibility", "models_json"} \cup shares,
                          {"identity_model_aliases"}))

migrate_response_sessions_schema(d) ==
    WithSchema(d, response_sessions, {"fk_provider"})

rename_legacy_activities(d) ==
    IF "identity_activities" \in d.schema THEN d
    ELSE WithSchema(d, {"identity_activities", "idx_identity_activities_identity_created_at"},
                    {"identity_request_logs"})

migrate_activity_schema(d) == WithSchema(d, {"activity_provider_type"}, {})

drop_legacy_cost_columns(d) == WithSchema(d, {}, {"cost_columns"})

initialize_memory_schema(d) ==
    IF "memories" \in d.schema THEN d
    ELSE WithSchema(d, UNION Range(MemorySchema), {})

activity_rollout(d) ==
    [WithSchema(d, activity_rollouts \cup ROLLOUT_INDEXES,
                {"uq_activity_rollouts_path", "activity_contents"})
        EXCEPT !.versions = @ \cup {"activity_rollout_v2"}]

PROVIDER_TYPE_ALIASES ==
    [deepseek_anthropic |-> "deepseek", kimi_coding_anthropic |-> "kimi",
     zhipu_coding |-> "bigmodel_coding_plan", minimax_token |-> "minimax"]

ANTHROPIC_ONLY_PROVIDER_TYPES ==
    {"anthropic", "anthropic_compatible", "qwen_anthropic", "zhipu_anthropic",
     "minimax_anthropic", "zai_coding_anthropic", "bailian_coding_anthropic",
     "bailian_token_anthropic"}

delete_anthropic_activities(d) ==
    LET gone == {a \in DOMAIN d.activities : d.activities[a].anthropic}
    IN [d EXCEPT !.rollouts = @ \ gone,
                 !.activities = Restrict(@, DOMAIN @ \ gone)]

strip_anthropic_capabilities(providers) ==
    [p \in DOMAIN providers |-> [providers[p] EXCEPT !.capabilities.anthropic = FALSE]]

Alias(type) ==
    IF type \in DOMAIN PROVIDER_TYPE_ALIASES THEN PROVIDER_TYPE_ALIASES[type] ELSE type

WithAliasedTypes(providers) ==
    [p \in DOMAIN providers |-> [providers[p] EXCEPT !.type = Alias(@)]]

\* Shares, routes and mappings go before the provider they refer to.
clean_provider_records(d) ==
    LET kept == {p \in DOMAIN d.providers :
                    d.providers[p].type \notin ANTHROPIC_ONLY_PROVIDER_TYPES}
    IN IF ~({"provider_columns", "visibility", "models_json"} \subseteq d.schema) THEN d
       ELSE [d EXCEPT
               !.shares = @ \cap kept,
               !.routes = RestrictValues(@, LAMBDA p : p \in kept),
               !.mappings = RestrictDomain(@, LAMBDA row : row[1] \in kept),
               !.providers = strip_anthropic_capabilities(WithAliasedTypes(Restrict(@, kept)))]

anthropic_removal(d) ==
    IF "anthropic_removal_v1" \in d.versions THEN d
    ELSE [clean_provider_records(delete_anthropic_activities(d))
             EXCEPT !.versions = @ \cup {"anthropic_removal_v1"}]

\* The reference of a session to its provider, while it is there, keeps the
\* provider from being deleted.
references_hold(d, migrated) ==
    "fk_provider" \in migrated.schema => d.sessions \subseteq DOMAIN migrated.providers

migrated(d) ==
    anthropic_removal(activity_rollout(initialize_memory_schema(
        drop_legacy_cost_columns(migrate_activity_schema(rename_legacy_activities(
            migrate_response_sessions_schema(migrate_provider_schema(d))))))))

-----------------------------------------------------------------------------
(* Fitting the rows to the catalog: two transactions, once each.             *)

NoTarget == "no target"

target_provider_id(type) ==
    CASE type \in {"gotoken"} -> "gotoken"
      [] type \in {"kimi", "kimi_coding", "kimi_coding_anthropic"} -> "kimi"
      [] type \in {"deepseek", "deepseek_anthropic"} -> "deepseek"
      [] type \in {"zhipu_coding", "zhipu_coding_openai", "bigmodel_coding_plan"}
            -> "bigmodel_coding_plan"
      [] type \in {"qwen", "qwen_token_plan"} -> "qwen_token_plan"
      [] type \in {"minimax", "minimax_token", "minimax_token_openai",
                   "minimax_token_plan"} -> "minimax"
      [] OTHER -> NoTarget

\* Mutant: a type without a target is left for later.
targets_are_known_mutant(d, cat) ==
    \A p \in DOMAIN d.providers :
        LET target == target_provider_id(d.providers[p].type)
        IN target # NoTarget => has_provider(cat, target)

\* Every provider has an entry, and every mapping a provider.
targets_are_known(d, cat) ==
    /\ \A p \in DOMAIN d.providers :
          has_provider(cat, target_provider_id(d.providers[p].type))
    /\ \A row \in DOMAIN d.mappings : row[1] \in DOMAIN d.providers

should_remove_model(cat, type, m) ==
    /\ ~provider_supports_language_model(cat, type, m)
    /\ ~provider_supports_image_generation_model(cat, type, m)

RemovedRows(d, cat) ==
    {row \in DOMAIN d.mappings :
        should_remove_model(cat, target_provider_id(d.providers[row[1]].type), row[2])}

WithTargetTypes(providers) ==
    [p \in DOMAIN providers |->
        [providers[p] EXCEPT !.type = target_provider_id(@)]]

\* The first deletes the route with the provider it leads to ...
cleanup_endpoint_models(d, cat) ==
    LET gone == RemovedRows(d, cat)
    IN [d EXCEPT !.mappings = Restrict(@, DOMAIN @ \ gone),
                 !.routes = RestrictDomain(@, LAMBDA m : <<@[m], m>> \notin gone)]

legacy_migration(d, cat) ==
    [cleanup_endpoint_models(d, cat)
        EXCEPT !.providers = WithTargetTypes(@),
               !.versions = @ \cup {"provider_catalog_v1"}]

\* Mutant: the migration is recorded under a version nothing looks for.
model_source_migration_mutant(d, cat) ==
    LET gone == RemovedRows(d, cat)
    IN [WithSchema(d, {}, {"identity_provider_models"})
          EXCEPT !.mappings = Restrict(@, DOMAIN @ \ gone),
                 !.routes = RestrictDomain(@, LAMBDA m : \A row \in gone : row[2] # m),
                 !.providers = WithTargetTypes(@),
                 !.versions = @ \cup {"provider_catalog_v2"}]

\* ... the second by its key, whichever provider it leads to.
model_source_migration(d, cat) ==
    LET gone == RemovedRows(d, cat)
    IN [WithSchema(d, {}, {"identity_provider_models"})
          EXCEPT !.mappings = Restrict(@, DOMAIN @ \ gone),
                 !.routes = RestrictDomain(@, LAMBDA m : \A row \in gone : row[2] # m),
                 !.providers = WithTargetTypes(@),
                 !.versions = @ \cup {"provider_model_catalog_v2"}]

catalog_models(cat, type) ==
    Range(cat.providers[type].language_models)
      \cup Range(cat.providers[type].image_generation_models)

\* models_json NULL is an empty list.
parse_models(provider) == UNION provider.models

-----------------------------------------------------------------------------
(* What a start may rely on.                                                 *)

Versions == {"activity_rollout_v2", "anthropic_removal_v1",
             "provider_catalog_v1", "provider_model_catalog_v2"}

\* The foreign keys PostgreSQL enforces.
ForeignKeys(d) ==
    /\ \A row \in DOMAIN d.mappings : row[1] \in DOMAIN d.providers
    /\ Range(d.routes) \cup d.shares \subseteq DOMAIN d.providers
    /\ d.rollouts \subseteq DOMAIN d.activities

Mapped(d, m) == <<d.routes[m], m>> \in DOMAIN d.mappings

\* A database of some release: its tables, with the foreign keys respected.
\* The visibility column has only ever come with, or been added to, a provider
\* table that has the present columns.
IsDatabase(d) ==
    /\ DOMAIN d = {"schema", "versions", "providers", "mappings", "routes",
                   "shares", "sessions", "activities", "rollouts"}
    /\ \A p \in DOMAIN d.providers :
          /\ DOMAIN d.providers[p] = {"type", "models", "disabled", "capabilities"}
          /\ DOMAIN d.providers[p].capabilities = {"override", "anthropic", "urls"}
    /\ \A a \in DOMAIN d.activities :
          DOMAIN d.activities[a] = {"provider", "type", "anthropic"}
    /\ d.versions \subseteq Versions
    /\ "visibility" \in d.schema => "provider_columns" \in d.schema
    /\ ForeignKeys(d)

ASSUME DatabasesAssumption == \A d \in Databases : IsDatabase(d)

\* A list of the parsed document, and the protocols it may name.
IsList(s) == Len(s) \in Nat /\ DOMAIN s = 1 .. Len(s)

\* NoTarget stands for no id at all.
ASSUME DocumentsAssumption ==
    \A name \in DOMAIN Documents :
        LET d == Documents[name]
        IN /\ IsList(d.language) /\ IsList(d.image) /\ IsList(d.providers)
           /\ \A p \in Range(d.providers) :
                 /\ IsList(p.protocols) /\ Range(p.protocols) \subseteq Range(ORDERED)
                 /\ p.id # NoTarget

-----------------------------------------------------------------------------
(* The start.                                                                *)

NoDocument == "no document"

Ended == {"down", "invalid", "refused"}
Running == {"initialize", "create", "removal", "catalog_v1", "catalog_v2",
            "backfill", "models", "urls", "endpoints"}

Init ==
    /\ pc = "down"
    /\ db \in Databases
    /\ catalog = NoCatalog
    /\ document = NoDocument
    /\ todo = {}
    /\ pending = {}
    /\ original = db
    /\ used = {}

\* The history and the catalog stay as they are while a start goes on.
Keeps == UNCHANGED <<catalog, document, original, used>>

Goto(label, rows) == pc' = label /\ todo' = rows /\ pending' = {} /\ Keeps

Refuse == Goto("refused", {}) /\ UNCHANGED db

\* The catalog comes first: a document that does not load ends the start
\* before the database is touched.
Start(name) ==
    /\ pc \in Ended
    /\ document' = name
    /\ catalog' = load(Documents[name])
    /\ pc' = IF catalog'.loaded THEN "initialize" ELSE "invalid"
    /\ used' = IF catalog'.loaded THEN used \cup {name} ELSE used
    /\ UNCHANGED <<db, todo, pending, original>>

\* A kill, or a database error in any statement.
Stop ==
    /\ pc \in Running \cup {"up"}
    /\ Goto("down", {})
    /\ UNCHANGED db

InitializeEmpty ==
    /\ pc = "initialize"
    /\ schema_is_empty(db.schema)
    /\ Goto("create", DOMAIN EmptySchema)
    /\ UNCHANGED db

CreateNext ==
    /\ pc = "create"
    /\ todo # {}
    /\ LET i == Min(todo)
       IN db' = WithSchema(db, EmptySchema[i], {}) /\ Goto("create", todo \ {i})

ApplyActivityRollout ==
    /\ pc = "create"
    /\ todo = {}
    /\ db' = activity_rollout(db)
    /\ Goto("removal", {})

ApplyAnthropicRemoval ==
    /\ pc = "removal"
    /\ db' = anthropic_removal(db)
    /\ Goto("catalog_v1", {})

\* The transaction of the upgrade commits or leaves everything as it was.
Upgrade ==
    /\ pc = "initialize"
    /\ ~schema_is_empty(db.schema)
    /\ IF /\ schema_can_be_migrated(db.schema)
          /\ current_schema_is_complete(migrated(db).schema)
          /\ references_hold(db, migrated(db))
       THEN db' = migrated(db) /\ Goto("catalog_v1", {})
       ELSE Refuse

ApplyLegacyMigration ==
    /\ pc = "catalog_v1"
    /\ \/ /\ "provider_catalog_v1" \in db.versions
          /\ Goto("catalog_v2", {})
          /\ UNCHANGED db
       \/ /\ "provider_catalog_v1" \notin db.versions
          /\ IF targets_are_known(db, catalog)
             THEN db' = legacy_migration(db, catalog) /\ Goto("catalog_v2", {})
             ELSE Refuse

ApplyModelSourceMigration ==
    /\ pc = "catalog_v2"
    /\ \/ /\ "provider_model_catalog_v2" \in db.versions
          /\ Goto("backfill", {})
          /\ UNCHANGED db
       \/ /\ "provider_model_catalog_v2" \notin db.versions
          /\ IF targets_are_known(db, catalog)
             THEN db' = model_source_migration(db, catalog) /\ Goto("backfill", {})
             ELSE Refuse

\* One UPDATE: activities without a type take it from a provider still there.
BackfillActivityProviderTypes ==
    /\ pc = "backfill"
    /\ db' = [db EXCEPT !.activities =
                [a \in DOMAIN @ |->
                    IF @[a].type = {} /\ @[a].provider \in DOMAIN db.providers
                    THEN [@[a] EXCEPT !.type = {db.providers[db.activities[a].provider].type}]
                    ELSE @[a]]]
    /\ Goto("models", DOMAIN db.providers)

\* Mutant: the column is dropped before the lists are written.
MigrateProviderModelsMutant(p) ==
    /\ pc = "models"
    /\ p \in todo
    /\ LET row == db.providers[p]
       IN db' = IF row.models = {} /\ has_provider(catalog, row.type)
                THEN [WithSchema(db, {}, {"disabled_models_json"}) EXCEPT !.providers =
                         [x \in DOMAIN @ |->
                            IF x = p
                            THEN [@[x] EXCEPT !.disabled = {}, !.models =
                                    {catalog_models(catalog, row.type) \ row.disabled}]
                            ELSE [@[x] EXCEPT !.disabled = {}]]]
                ELSE db
    /\ Goto("models", todo \ {p})

\* An UPDATE per provider whose list is NULL and whose catalog entry exists.
MigrateProviderModels(p) ==
    /\ pc = "models"
    /\ p \in todo
    /\ LET row == db.providers[p]
       IN db' = IF row.models = {} /\ has_provider(catalog, row.type)
                THEN [db EXCEPT !.providers[p].models =
                         {catalog_models(catalog, row.type) \ row.disabled}]
                ELSE db
    /\ Goto("models", todo \ {p})

DropDisabledModels ==
    /\ pc = "models"
    /\ todo = {}
    /\ db' = [WithSchema(db, {}, {"disabled_models_json"})
                EXCEPT !.providers = [p \in DOMAIN @ |-> [@[p] EXCEPT !.disabled = {}]]]
    /\ Goto("urls", DOMAIN db.providers)

\* A map with the entries of f, and those of g for other keys.
Overlay(f, g) ==
    [key \in DOMAIN f \cup DOMAIN g |-> IF key \in DOMAIN f THEN f[key] ELSE g[key]]

\* Mutant: a URL the record has is kept.
ReconcileProtocolBaseUrlsMutant(p) ==
    /\ pc = "urls"
    /\ p \in todo
    /\ LET row == db.providers[p]
       IN db' = IF has_provider(catalog, row.type)
                THEN [db EXCEPT !.providers[p].capabilities.urls =
                         Overlay(@, catalog.providers[row.type].protocol_base_urls)]
                ELSE db
    /\ Goto("urls", todo \ {p})

\* The catalog's URLs replace the record's, other protocols keep theirs.
ReconcileProtocolBaseUrls(p) ==
    /\ pc = "urls"
    /\ p \in todo
    /\ LET row == db.providers[p]
       IN db' = IF has_provider(catalog, row.type)
                THEN [db EXCEPT !.providers[p].capabilities.urls =
                         Overlay(catalog.providers[row.type].protocol_base_urls, @)]
                ELSE db
    /\ Goto("urls", todo \ {p})

BeginEndpointModels ==
    /\ pc = "urls"
    /\ todo = {}
    /\ Goto("endpoints", DOMAIN db.mappings)
    /\ UNCHANGED db

\* A mapping goes when its provider does not exist or does not enable the
\* model: DELETE of the route that leads to it, then of the row.
mapping_is_stale(d, row) ==
    row[1] \notin DOMAIN d.providers \/ row[2] \notin parse_models(d.providers[row[1]])

\* Mutant: the row is deleted first.
route_deleted_mutant(d, row) == [d EXCEPT !.mappings = Restrict(@, DOMAIN @ \ {row})]

route_deleted(d, row) ==
    [d EXCEPT !.routes = RestrictDomain(@, LAMBDA m : <<@[m], m>> # row)]

mapping_deleted(d, row) == [d EXCEPT !.mappings = Restrict(@, DOMAIN @ \ {row})]

DeleteRoute(row) ==
    /\ pc = "endpoints"
    /\ row \in todo
    /\ pending = {}
    /\ mapping_is_stale(db, row)
    /\ db' = route_deleted(db, row)
    /\ pending' = {row}
    /\ UNCHANGED <<pc, todo>>
    /\ Keeps

DeleteMapping ==
    /\ pending # {}
    /\ \E row \in pending :
          db' = mapping_deleted(db, row) /\ Goto("endpoints", todo \ {row})

AlignUpstreamModel(row) ==
    /\ pc = "endpoints"
    /\ row \in todo
    /\ pending = {}
    /\ ~mapping_is_stale(db, row)
    /\ LET type == db.providers[row[1]].type
       IN db' = IF has_provider(catalog, type)
                THEN [db EXCEPT !.mappings[row] = provider_upstream_model(catalog, type, row[2])]
                ELSE db
    /\ Goto("endpoints", todo \ {row})

Serve ==
    /\ pc = "endpoints"
    /\ todo = {}
    /\ Goto("up", {})
    /\ UNCHANGED db

Next ==
    \/ \E name \in DOMAIN Documents : Start(name)
    \/ Stop
    \/ InitializeEmpty \/ CreateNext \/ ApplyActivityRollout \/ ApplyAnthropicRemoval
    \/ Upgrade
    \/ ApplyLegacyMigration \/ ApplyModelSourceMigration
    \/ BackfillActivityProviderTypes
    \/ \E p \in DOMAIN db.providers : MigrateProviderModels(p)
    \/ DropDisabledModels
    \/ \E p \in DOMAIN db.providers : ReconcileProtocolBaseUrls(p)
    \/ BeginEndpointModels
    \/ \E row \in DOMAIN db.mappings : DeleteRoute(row) \/ AlignUpstreamModel(row)
    \/ DeleteMapping
    \/ Serve

Spec == Init /\ [][Next]_vars

-----------------------------------------------------------------------------
(* Properties.                                                               *)

\* Type correctness of the database and of the start: rows refer to rows that
\* exist, the foreign keys PostgreSQL enforces, every migration on record is one
\* that a start looks for before it applies it, and a start that has ended has no
\* loop under way.
TypeOK ==
    /\ pc \in Ended \cup Running \cup {"up"}
    /\ used \subseteq DOMAIN Documents
    /\ document \in DOMAIN Documents \cup {NoDocument}
    /\ ForeignKeys(db)
    /\ db.versions \subseteq Versions
    /\ pc \in Ended \cup {"up"} => todo = {} /\ pending = {}
    /\ pending \subseteq todo

\* A catalog is the document it was loaded from, whole: an entry for every
\* entry, none of them overwritten by another, every model a provider offers
\* described, images only over the protocol for them, no request header set
\* twice, and instructions for every model once there is a default template with
\* text in it (ProviderCatalog::load).
CatalogIsWhatWasWritten ==
    catalog.loaded =>
        LET d == Documents[document]
        IN /\ \A p \in Range(d.providers) : catalog.providers[p.id] = p
           /\ read_instruction_template(d.templates, "_default") # {} =>
                 \A m \in Range(d.language) : catalog.language[m.id] \ {Blank} # {}
           /\ Cardinality(DOMAIN catalog.language) = Len(d.language)
           /\ Cardinality(catalog.image) = Len(d.image)
           /\ \A p \in Range(catalog.providers) :
                 /\ Range(p.language_models) \subseteq DOMAIN catalog.language
                 /\ Range(p.image_generation_models) \subseteq catalog.image
                 /\ p.image_generation_models # <<>>
                       => p.protocols[Len(p.protocols)] = "images_generations"
                 /\ \A i, j \in DOMAIN p.request_headers :
                       p.request_headers[i].name = p.request_headers[j].name => i = j

\* The start makes no dangling route: at every moment, even between the two
\* deletes of a stale mapping and after a crash there, a route leads to a
\* provider the endpoint maps the model to (delete_endpoint_model removes the
\* route first), unless the database was found with that route leading nowhere,
\* which no foreign key of the routes forbids.
NoDanglingRoute ==
    \A m \in DOMAIN db.routes :
        \/ Mapped(db, m)
        \/ /\ m \in DOMAIN original.routes /\ original.routes[m] = db.routes[m]
           /\ ~Mapped(original, m)

\* Whatever catalogs earlier starts had and wherever they were cut off, a
\* server that serves has every migration behind it and the tables and columns
\* its code names, offers only mappings of providers that enable the model,
\* sends the names the catalog gives, to the addresses the catalog gives, and
\* has a model list for each provider the catalog knows.
ServesWhatItCan ==
    pc = "up" =>
        /\ db.versions = Versions
        /\ current_schema_is_complete(db.schema)
        /\ activities \cup provider_configs \subseteq db.schema
        /\ \A row \in DOMAIN db.mappings :
              LET provider == db.providers[row[1]]
              IN /\ row[2] \in parse_models(provider)
                 /\ has_provider(catalog, provider.type) =>
                       db.mappings[row] = provider_upstream_model(catalog, provider.type, row[2])
        /\ \A p \in DOMAIN db.providers :
              LET provider == db.providers[p]
              IN has_provider(catalog, provider.type) =>
                    /\ provider.models # {}
                    /\ \A protocol \in DOMAIN catalog.providers[provider.type].protocol_base_urls :
                          provider.capabilities.urls[protocol]
                             = catalog.providers[provider.type].protocol_base_urls[protocol]
        /\ \A a \in DOMAIN db.activities :
              db.activities[a].type = {} => db.activities[a].provider \notin DOMAIN db.providers

\* What an upgrade from o with one catalog comes to, said in one piece.
Settled(o) == {"provider_catalog_v1", "provider_model_catalog_v2"} \subseteq o.versions

KeptProviders(o) ==
    {p \in DOMAIN o.providers :
        "anthropic_removal_v1" \in o.versions
          \/ o.providers[p].type \notin ANTHROPIC_ONLY_PROVIDER_TYPES}

Removal(o) == "anthropic_removal_v1" \notin o.versions

TypeOf(o, p) ==
    IF ~Settled(o) THEN target_provider_id(o.providers[p].type)
    ELSE IF Removal(o) THEN Alias(o.providers[p].type) ELSE o.providers[p].type

ModelsOf(o, cat, p) ==
    IF o.providers[p].models = {} /\ has_provider(cat, TypeOf(o, p))
    THEN {catalog_models(cat, TypeOf(o, p)) \ o.providers[p].disabled}
    ELSE o.providers[p].models

UrlsOf(o, cat, p) ==
    Overlay(IF has_provider(cat, TypeOf(o, p))
            THEN cat.providers[TypeOf(o, p)].protocol_base_urls ELSE <<>>,
            o.providers[p].capabilities.urls)

AnthropicOf(o, p) == IF Removal(o) THEN FALSE ELSE o.providers[p].capabilities.anthropic

Offered(o, cat, row) == Settled(o) \/ row[2] \in catalog_models(cat, TypeOf(o, row[1]))

MappingsOf(o, cat) ==
    {row \in DOMAIN o.mappings : /\ row[1] \in KeptProviders(o)
                                 /\ Offered(o, cat, row)
                                 /\ row[2] \in UNION ModelsOf(o, cat, row[1])}

UpstreamOf(o, cat, row) ==
    IF has_provider(cat, TypeOf(o, row[1]))
    THEN provider_upstream_model(cat, TypeOf(o, row[1]), row[2]) ELSE o.mappings[row]

\* The second migration clears the route of a model one provider loses.
Cleared(o, cat, m) ==
    /\ "provider_catalog_v1" \in o.versions
    /\ \E row \in DOMAIN o.mappings :
          row[1] \in KeptProviders(o) /\ row[2] = m /\ ~Offered(o, cat, row)

\* A route goes with its mapping; one that had none stays with its provider.
RoutesOf(o, cat) ==
    {m \in DOMAIN o.routes : /\ o.routes[m] \in KeptProviders(o)
                             /\ Mapped(o, m) => <<o.routes[m], m>> \in MappingsOf(o, cat)
                             /\ ~Cleared(o, cat, m)}

ActivitiesOf(o) ==
    {a \in DOMAIN o.activities : ~(Removal(o) /\ o.activities[a].anthropic)}

ActivityTypeOf(o, a) ==
    IF o.activities[a].type = {} /\ o.activities[a].provider \in KeptProviders(o)
    THEN {TypeOf(o, o.activities[a].provider)} ELSE o.activities[a].type

Outcome(o, cat) ==
    [providers |-> [p \in KeptProviders(o) |->
        [type |-> TypeOf(o, p), models |-> ModelsOf(o, cat, p), disabled |-> {},
         override |-> FALSE, anthropic |-> AnthropicOf(o, p),
         urls |-> UrlsOf(o, cat, p)]],
     mappings |-> [row \in MappingsOf(o, cat) |-> UpstreamOf(o, cat, row)],
     routes |-> [m \in RoutesOf(o, cat) |-> o.routes[m]],
     shares |-> o.shares \cap KeptProviders(o),
     sessions |-> o.sessions,
     rollouts |-> o.rollouts \cap ActivitiesOf(o),
     activities |-> [a \in ActivitiesOf(o) |->
        [provider |-> o.activities[a].provider, type |-> ActivityTypeOf(o, a),
         anthropic |-> o.activities[a].anthropic]]]

\* The rows of a database, column by column.
Rows(d) ==
    [providers |-> [p \in DOMAIN d.providers |->
        [type |-> d.providers[p].type, models |-> d.providers[p].models,
         disabled |-> d.providers[p].disabled,
         override |-> d.providers[p].capabilities.override,
         anthropic |-> d.providers[p].capabilities.anthropic,
         urls |-> Overlay(<<>>, d.providers[p].capabilities.urls)]],
     mappings |-> [row \in DOMAIN d.mappings |-> d.mappings[row]],
     routes |-> [m \in DOMAIN d.routes |-> d.routes[m]],
     shares |-> d.shares, sessions |-> d.sessions, rollouts |-> d.rollouts,
     activities |-> [a \in DOMAIN d.activities |->
        [provider |-> d.activities[a].provider, type |-> d.activities[a].type,
         anthropic |-> d.activities[a].anthropic]]]

Startable(o, cat) ==
    /\ schema_can_be_migrated(o.schema)
    /\ "provider_columns" \in o.schema
    /\ "identity_provider_shares" \in o.schema => provider_shares \subseteq o.schema
    /\ Settled(o) \/ \A p \in KeptProviders(o) :
                        has_provider(cat, target_provider_id(o.providers[p].type))

\* An upgrade that is interrupted, any number of times and anywhere, and run
\* again with the same catalog ends as the uninterrupted one does: it is refused
\* only if the database was one to refuse, and it comes to the same rows, with
\* the models a user had disabled still out and nothing done twice.
InterruptedUpgradeResumes ==
    used = {document} /\ ~schema_is_empty(original.schema) =>
        /\ pc = "up" => Rows(db) = Outcome(original, catalog)
        /\ pc = "refused" => ~Startable(original, catalog)

\* A provider the catalog migration cannot place stops every start, and nothing
\* but what concerns the removed protocol is deleted however often it is tried
\* (apply_postgres_legacy_migration checks every provider before it cleans up).
UnmappableIsKept ==
    LET kept == KeptProviders(original)
    IN /\ "provider_catalog_v1" \notin original.versions
       /\ \E p \in kept : target_provider_id(original.providers[p].type) = NoTarget
       => /\ pc # "up"
          /\ kept \subseteq DOMAIN db.providers
          /\ \A row \in DOMAIN original.mappings : row[1] \in kept => row \in DOMAIN db.mappings
          /\ \A m \in DOMAIN original.routes :
                original.routes[m] \in kept =>
                    m \in DOMAIN db.routes /\ db.routes[m] = original.routes[m]

\* docs/architecture/database.md: the base schema does not accept a partly
\* initialised database.  What serves has the schema that a new database gets.
PartialSchemaIsRefused == pc = "up" /\ schema_is_empty(original.schema) =>
    FullSchema \subseteq db.schema

\* The comment on migrate_provider_models (provider_catalog.rs:241): the lists are
\* written from the catalog less the models that were disabled.
DisabledStaysDisabled ==
    pc = "up" =>
        \A p \in DOMAIN db.providers \cap DOMAIN original.providers :
            original.providers[p].disabled \cap parse_models(db.providers[p]) = {}

=============================================================================
