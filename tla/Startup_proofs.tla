--------------------------- MODULE Startup_proofs ---------------------------
(***************************************************************************)
(* Proofs about Startup for every set of databases a start may find and    *)
(* every set of catalog documents an operator may write, for any number of *)
(* starts, each cut off anywhere.                                          *)
(***************************************************************************)
EXTENDS Startup, FiniteSetTheorems, TLAPS

-----------------------------------------------------------------------------
(* The inductive invariant.                                                  *)

\* The catalog of a running start is a document that loaded.
CatalogInv ==
    /\ \/ catalog = NoCatalog
       \/ document \in DOMAIN Documents /\ catalog = load(Documents[document])
    /\ pc \in Running \cup {"up"} => catalog.loaded

\* The two deletes of a stale mapping: in between, no route leads to it.
PendingInv ==
    /\ pending # {} => pc = "endpoints"
    /\ \A row \in pending : \A m \in DOMAIN db.routes : <<db.routes[m], m>> # row

\* The stages of a start, each with those after it.
FromV1 == {"catalog_v1", "catalog_v2", "backfill", "models", "urls", "endpoints", "up"}
FromV2 == FromV1 \ {"catalog_v1"}
FromBackfill == FromV2 \ {"catalog_v2"}
FromModels == FromBackfill \ {"backfill"}
FromUrls == FromModels \ {"models"}
FromEndpoints == {"endpoints", "up"}

SchemaServes(schema) ==
    current_schema_is_complete(schema) /\ activities \cup provider_configs \subseteq schema

HasModels(p) ==
    has_provider(catalog, db.providers[p].type) => db.providers[p].models # {}

HasUrls(p) ==
    LET provider == db.providers[p]
    IN has_provider(catalog, provider.type) =>
          \A protocol \in DOMAIN catalog.providers[provider.type].protocol_base_urls :
              provider.capabilities.urls[protocol]
                 = catalog.providers[provider.type].protocol_base_urls[protocol]

Aligned(row) ==
    LET provider == db.providers[row[1]]
    IN /\ row[2] \in parse_models(provider)
       /\ has_provider(catalog, provider.type) =>
             db.mappings[row] = provider_upstream_model(catalog, provider.type, row[2])

Typed(a) ==
    db.activities[a].type = {} => db.activities[a].provider \notin DOMAIN db.providers

\* The statements that create the schema are executed in their order.
CreateInv ==
    /\ \E k \in 1 .. 22 : todo = k .. 21
    /\ \A i \in 1 .. 21 \ todo : EmptySchema[i] \subseteq db.schema

\* What the loops of a start have done, for the rows they have visited.
LoopInv ==
    /\ pc \in FromModels => \A a \in DOMAIN db.activities : Typed(a)
    /\ pc = "models" => \A p \in DOMAIN db.providers \ todo : HasModels(p)
    /\ pc \in FromUrls => \A p \in DOMAIN db.providers : HasModels(p)
    /\ pc = "urls" => \A p \in DOMAIN db.providers \ todo : HasUrls(p)
    /\ pc \in FromEndpoints => /\ \A p \in DOMAIN db.providers : HasUrls(p)
                               /\ \A row \in DOMAIN db.mappings \ todo : Aligned(row)

\* What a start has behind it, stage by stage.
StageInv ==
    /\ pc = "create" => CreateInv
    /\ pc = "removal" => SchemaServes(db.schema) /\ "activity_rollout_v2" \in db.versions
    /\ pc \in FromV1 => /\ SchemaServes(db.schema)
                        /\ {"activity_rollout_v2", "anthropic_removal_v1"} \subseteq db.versions
    /\ pc \in FromV2 => "provider_catalog_v1" \in db.versions
    /\ pc \in FromBackfill => "provider_model_catalog_v2" \in db.versions
    /\ LoopInv

\* A provider that has no place in any catalog stops every start before the
\* first migration to the catalog, and it is still recognised as one.
Unmappable ==
    /\ "provider_catalog_v1" \notin original.versions
    /\ \E p \in KeptProviders(original) :
          target_provider_id(original.providers[p].type) = NoTarget

UnmappableInv ==
    Unmappable =>
        /\ pc \notin FromV2
        /\ "provider_catalog_v1" \notin db.versions
        /\ KeptProviders(original) \subseteq KeptProviders(db)
        /\ \A p \in KeptProviders(original) :
              target_provider_id(db.providers[p].type)
                 = target_provider_id(original.providers[p].type)
        /\ \A row \in DOMAIN original.mappings :
              row[1] \in KeptProviders(original) => row \in DOMAIN db.mappings
        /\ \A m \in DOMAIN original.routes :
              original.routes[m] \in KeptProviders(original) =>
                  m \in DOMAIN db.routes /\ db.routes[m] = original.routes[m]

Inv ==
    /\ TypeOK
    /\ IsDatabase(db)
    /\ IsDatabase(original)
    /\ NoDanglingRoute
    /\ CatalogInv
    /\ PendingInv
    /\ StageInv
    /\ UnmappableInv

-----------------------------------------------------------------------------
(* What each piece of an upgrade does to the database.                       *)

\* e has no route that d has not, and every one of them that leads to a mapping
\* in d does so in e.
RoutesSafe(d, e) ==
    \A m \in DOMAIN e.routes :
        /\ m \in DOMAIN d.routes /\ e.routes[m] = d.routes[m]
        /\ Mapped(d, m) => Mapped(e, m)

\* e is what a transaction of the upgrade makes of d: nothing is lost but what
\* concerns the removed protocol, and no provider changes its place.
Upgraded(d, e) ==
    /\ IsDatabase(e)
    /\ RoutesSafe(d, e)
    /\ "provider_catalog_v1" \in e.versions => "provider_catalog_v1" \in d.versions
    /\ KeptProviders(d) \subseteq KeptProviders(e)
    /\ \A p \in KeptProviders(d) :
          target_provider_id(e.providers[p].type) = target_provider_id(d.providers[p].type)
    /\ \A row \in DOMAIN d.mappings : row[1] \in KeptProviders(d) => row \in DOMAIN e.mappings
    /\ \A m \in DOMAIN d.routes :
          d.routes[m] \in KeptProviders(d) => m \in DOMAIN e.routes /\ e.routes[m] = d.routes[m]

\* One transaction after another is one transaction.
LEMMA UpgradedTransitive ==
  ASSUME NEW d, NEW e, NEW f, Upgraded(d, e), Upgraded(e, f)
  PROVE  Upgraded(d, f)
BY DEF Upgraded, RoutesSafe, KeptProviders

\* The columns of a database after a change of its schema.
LEMMA WithSchemaFacts ==
  ASSUME NEW d, IsDatabase(d), NEW added, NEW dropped
  PROVE  LET e == WithSchema(d, added, dropped)
         IN /\ DOMAIN e = DOMAIN d
            /\ e.schema = (d.schema \cup added) \ dropped
            /\ e.versions = d.versions /\ e.providers = d.providers
            /\ e.mappings = d.mappings /\ e.routes = d.routes
            /\ e.shares = d.shares /\ e.sessions = d.sessions
            /\ e.activities = d.activities /\ e.rollouts = d.rollouts
BY DEF WithSchema, IsDatabase

\* A change of the schema loses no row.
LEMMA WithSchemaUpgraded ==
  ASSUME NEW d, IsDatabase(d), NEW added, NEW dropped,
         "visibility" \in added => "provider_columns" \in d.schema \cup added,
         "provider_columns" \notin dropped
  PROVE  Upgraded(d, WithSchema(d, added, dropped))
<1> DEFINE e == WithSchema(d, added, dropped)
<1>1. /\ DOMAIN e = DOMAIN d
      /\ e.schema = (d.schema \cup added) \ dropped
      /\ e.versions = d.versions /\ e.providers = d.providers
      /\ e.mappings = d.mappings /\ e.routes = d.routes
      /\ e.shares = d.shares /\ e.sessions = d.sessions
      /\ e.activities = d.activities /\ e.rollouts = d.rollouts
  BY WithSchemaFacts
<1> HIDE DEF e
<1>2. IsDatabase(e)
  BY <1>1 DEF IsDatabase, ForeignKeys
<1>3. RoutesSafe(d, e) /\ KeptProviders(e) = KeptProviders(d)
  BY <1>1 DEF RoutesSafe, Mapped, KeptProviders
<1> QED  BY <1>1, <1>2, <1>3 DEF Upgraded, e

\* Every alias has its target's place.
LEMMA AliasTarget ==
  ASSUME NEW type
  PROVE  target_provider_id(Alias(type)) = target_provider_id(type)
<1>1. CASE type \notin DOMAIN PROVIDER_TYPE_ALIASES
  BY <1>1 DEF Alias
<1>2. CASE type \in DOMAIN PROVIDER_TYPE_ALIASES
  BY <1>2 DEF Alias, PROVIDER_TYPE_ALIASES, target_provider_id
<1> QED  BY <1>1, <1>2

\* The providers after their legacy overrides are stripped.
LEMMA StripFacts ==
  ASSUME NEW d, IsDatabase(d)
  PROVE  /\ Upgraded(d, strip_legacy_protocol_overrides(d))
         /\ strip_legacy_protocol_overrides(d).schema = d.schema
<1> DEFINE e == strip_legacy_protocol_overrides(d)
<1>1. /\ DOMAIN e = DOMAIN d
      /\ e.schema = d.schema /\ e.versions = d.versions
      /\ e.mappings = d.mappings /\ e.routes = d.routes
      /\ e.shares = d.shares /\ e.sessions = d.sessions
      /\ e.activities = d.activities /\ e.rollouts = d.rollouts
      /\ e.providers = [p \in DOMAIN d.providers |->
                          [d.providers[p] EXCEPT !.capabilities.override = FALSE]]
  BY DEF strip_legacy_protocol_overrides, IsDatabase
<1> HIDE DEF e
<1>2. \A p \in DOMAIN d.providers :
         /\ DOMAIN e.providers[p] = {"type", "models", "disabled", "capabilities"}
         /\ DOMAIN e.providers[p].capabilities = {"override", "anthropic", "urls"}
         /\ e.providers[p].type = d.providers[p].type
  BY <1>1 DEF IsDatabase
<1>3. DOMAIN e.providers = DOMAIN d.providers
  BY <1>1
<1>4. IsDatabase(e)
  BY <1>1, <1>2, <1>3 DEF IsDatabase, ForeignKeys
<1>5. RoutesSafe(d, e)
  BY <1>1 DEF RoutesSafe, Mapped
<1>6. KeptProviders(e) = KeptProviders(d)
  BY <1>1, <1>2, <1>3 DEF KeptProviders
<1>7. \A p \in KeptProviders(d) : e.providers[p].type = d.providers[p].type
  BY <1>2 DEF KeptProviders
<1> QED  BY <1>1, <1>4, <1>5, <1>6, <1>7 DEF Upgraded, e

\* The tables of the current schema that a step of the upgrade leaves alone.
SchemaKept(d, e) ==
    /\ d.schema \cap {"provider_columns", "models_json", "activity_provider_type"}
          \subseteq e.schema
    /\ "provider_columns" \in e.schema => "provider_columns" \in d.schema

\* The provider tables.
LEMMA MigrateProviderSchema ==
  ASSUME NEW d, IsDatabase(d)
  PROVE  LET e == migrate_provider_schema(d)
         IN /\ Upgraded(d, e)
            /\ SchemaKept(d, e)
            /\ "provider_columns" \in d.schema => "models_json" \in e.schema
<1>1. CASE ~provider_table_is_current(d.schema)
  <2> DEFINE e == WithSchema(d, {}, {"identity_model_aliases"})
  <2>1. migrate_provider_schema(d) = e
    BY <1>1 DEF migrate_provider_schema
  <2>2. Upgraded(d, e)
    BY WithSchemaUpgraded
  <2>3. e.schema = d.schema \ {"identity_model_aliases"}
    BY WithSchemaFacts
  <2> HIDE DEF e
  <2> QED  BY <1>1, <2>1, <2>2, <2>3 DEF SchemaKept, provider_table_is_current
<1>2. CASE provider_table_is_current(d.schema)
  <2> DEFINE shares == IF "identity_provider_shares" \in d.schema THEN {} ELSE provider_shares
             added == {"visibility", "models_json"} \cup shares
             e == WithSchema(d, added, {"identity_model_aliases"})
             f == strip_legacy_protocol_overrides(e)
  <2>1. migrate_provider_schema(d) = f
    BY <1>2 DEF migrate_provider_schema
  <2>2. "provider_columns" \in d.schema /\ "provider_columns" \notin added
    BY <1>2 DEF provider_table_is_current, provider_shares
  <2>3. "models_json" \in added
    OBVIOUS
  <2> HIDE DEF added
  <2>4. Upgraded(d, e)
    BY <2>2, WithSchemaUpgraded
  <2>5. e.schema = (d.schema \cup added) \ {"identity_model_aliases"}
    BY WithSchemaFacts
  <2> HIDE DEF e
  <2>6. Upgraded(e, f) /\ f.schema = e.schema
    BY <2>4, StripFacts DEF Upgraded
  <2> HIDE DEF f
  <2>7. Upgraded(d, f)
    BY <2>4, <2>6, UpgradedTransitive
  <2> QED  BY <2>1, <2>2, <2>3, <2>5, <2>6, <2>7 DEF SchemaKept
<1> QED  BY <1>1, <1>2

\* A step of the upgrade that adds and drops elements of the schema other than
\* those of the provider table.
LEMMA WithSchemaStep ==
  ASSUME NEW d, IsDatabase(d), NEW added, NEW dropped,
         {"visibility", "provider_columns"} \cap added = {},
         {"provider_columns", "models_json", "activity_provider_type"} \cap dropped = {}
  PROVE  /\ Upgraded(d, WithSchema(d, added, dropped))
         /\ SchemaKept(d, WithSchema(d, added, dropped))
<1>1. Upgraded(d, WithSchema(d, added, dropped))
  BY WithSchemaUpgraded
<1>2. WithSchema(d, added, dropped).schema = (d.schema \cup added) \ dropped
  BY WithSchemaFacts
<1>3. SchemaKept(d, WithSchema(d, added, dropped))
  BY <1>2 DEF SchemaKept
<1> QED  BY <1>1, <1>3

\* A database upgrades to itself.
LEMMA UpgradedReflexive ==
  ASSUME NEW d, IsDatabase(d)
  PROVE  Upgraded(d, d) /\ SchemaKept(d, d)
BY DEF Upgraded, RoutesSafe, SchemaKept

\* The tables for memories and rollouts are not those of the providers.
LEMMA MemorySchemaFacts ==
  {"visibility", "provider_columns"} \cap UNION Range(MemorySchema) = {}
<1> SUFFICES ASSUME NEW i \in DOMAIN MemorySchema,
                    NEW x \in MemorySchema[i]
             PROVE  x \notin {"visibility", "provider_columns"}
  BY DEF Range
<1>1. i \in 1 .. 10
  BY DEF MemorySchema
<1> QED  BY <1>1 DEF MemorySchema, activity_rollouts

\* The small migrations between the versioned ones: each keeps the rows and adds
\* to the schema what the checks of later starts ask for.
LEMMA MiddleSteps ==
  ASSUME NEW d, IsDatabase(d)
  PROVE  /\ Upgraded(d, migrate_response_sessions_schema(d))
         /\ SchemaKept(d, migrate_response_sessions_schema(d))
         /\ Upgraded(d, rename_legacy_activities(d))
         /\ SchemaKept(d, rename_legacy_activities(d))
         /\ Upgraded(d, migrate_activity_schema(d))
         /\ SchemaKept(d, migrate_activity_schema(d))
         /\ "activity_provider_type" \in migrate_activity_schema(d).schema
         /\ Upgraded(d, drop_legacy_cost_columns(d))
         /\ SchemaKept(d, drop_legacy_cost_columns(d))
         /\ Upgraded(d, initialize_memory_schema(d))
         /\ SchemaKept(d, initialize_memory_schema(d))
<1>0. Upgraded(d, d) /\ SchemaKept(d, d)
  BY UpgradedReflexive
<1>1. /\ Upgraded(d, migrate_response_sessions_schema(d))
      /\ SchemaKept(d, migrate_response_sessions_schema(d))
  <2>1. {"visibility", "provider_columns"} \cap response_sessions = {}
    BY DEF response_sessions
  <2> QED  BY <2>1, WithSchemaStep DEF migrate_response_sessions_schema
<1>2. Upgraded(d, rename_legacy_activities(d)) /\ SchemaKept(d, rename_legacy_activities(d))
  BY <1>0, WithSchemaStep DEF rename_legacy_activities
<1>3. Upgraded(d, migrate_activity_schema(d)) /\ SchemaKept(d, migrate_activity_schema(d))
  BY WithSchemaStep DEF migrate_activity_schema
<1>4. "activity_provider_type" \in migrate_activity_schema(d).schema
  BY WithSchemaFacts DEF migrate_activity_schema
<1>5. Upgraded(d, drop_legacy_cost_columns(d)) /\ SchemaKept(d, drop_legacy_cost_columns(d))
  BY WithSchemaStep DEF drop_legacy_cost_columns
<1>6. Upgraded(d, initialize_memory_schema(d)) /\ SchemaKept(d, initialize_memory_schema(d))
  BY <1>0, MemorySchemaFacts, WithSchemaStep DEF initialize_memory_schema
<1> QED  BY <1>1, <1>2, <1>3, <1>4, <1>5, <1>6

\* A version row added to the database.
WithVersion(d, version) == [d EXCEPT !.versions = @ \cup {version}]

\* Marking a migration as applied changes nothing but the list of versions.
LEMMA WithVersionFacts ==
  ASSUME NEW d, IsDatabase(d), NEW version \in Versions
  PROVE  LET e == WithVersion(d, version)
         IN /\ DOMAIN e = DOMAIN d /\ e.schema = d.schema
            /\ e.versions = d.versions \cup {version} /\ e.providers = d.providers
            /\ e.mappings = d.mappings /\ e.routes = d.routes
            /\ e.shares = d.shares /\ e.sessions = d.sessions
            /\ e.activities = d.activities /\ e.rollouts = d.rollouts
            /\ IsDatabase(e)
<1> DEFINE e == WithVersion(d, version)
<1>1. /\ DOMAIN e = DOMAIN d /\ e.schema = d.schema
      /\ e.versions = d.versions \cup {version} /\ e.providers = d.providers
      /\ e.mappings = d.mappings /\ e.routes = d.routes
      /\ e.shares = d.shares /\ e.sessions = d.sessions
      /\ e.activities = d.activities /\ e.rollouts = d.rollouts
  BY DEF WithVersion, IsDatabase
<1> HIDE DEF e
<1>2. IsDatabase(e)
  BY <1>1 DEF IsDatabase, ForeignKeys
<1> QED  BY <1>1, <1>2 DEF e

\* The activity_rollout migration: what it leaves of the schema and the rows.
LEMMA ActivityRollout ==
  ASSUME NEW d, IsDatabase(d)
  PROVE  LET e == activity_rollout(d)
         IN /\ Upgraded(d, e)
            /\ SchemaKept(d, e)
            /\ e.schema = (d.schema \cup activity_rollouts \cup ROLLOUT_INDEXES)
                            \ {"uq_activity_rollouts_path", "activity_contents"}
            /\ "activity_rollout_v2" \in e.versions
            /\ d.versions \subseteq e.versions
<1> DEFINE added == activity_rollouts \cup ROLLOUT_INDEXES
           dropped == {"uq_activity_rollouts_path", "activity_contents"}
           f == WithSchema(d, added, dropped)
           e == WithVersion(f, "activity_rollout_v2")
<1>1. activity_rollout(d) = e
  BY DEF activity_rollout, WithVersion
<1>2. {"visibility", "provider_columns"} \cap added = {}
  BY DEF activity_rollouts, ROLLOUT_INDEXES
<1>3. {"provider_columns", "models_json", "activity_provider_type"} \cap dropped = {}
  OBVIOUS
<1>4. d.schema \cup activity_rollouts \cup ROLLOUT_INDEXES = d.schema \cup added
  OBVIOUS
<1> HIDE DEF added, dropped
<1>5. Upgraded(d, f) /\ SchemaKept(d, f)
  BY <1>2, <1>3, WithSchemaStep
<1>6. f.schema = (d.schema \cup added) \ dropped /\ f.versions = d.versions
  BY WithSchemaFacts
<1>7. IsDatabase(f)
  BY <1>5 DEF Upgraded
<1> HIDE DEF f
<1>8. /\ e.schema = f.schema /\ e.versions = f.versions \cup {"activity_rollout_v2"}
      /\ e.providers = f.providers /\ e.mappings = f.mappings /\ e.routes = f.routes
      /\ IsDatabase(e)
  BY <1>7, WithVersionFacts DEF Versions
<1> HIDE DEF e
<1>9. Upgraded(f, e)
  <2>1. RoutesSafe(f, e)
    BY <1>8 DEF RoutesSafe, Mapped
  <2>2. KeptProviders(e) = KeptProviders(f)
    BY <1>8 DEF KeptProviders
  <2> QED  BY <1>8, <2>1, <2>2 DEF Upgraded
<1>10. Upgraded(d, e) /\ SchemaKept(d, e)
  BY <1>5, <1>8, <1>9, UpgradedTransitive DEF SchemaKept
<1> QED  BY <1>1, <1>4, <1>6, <1>8, <1>10 DEF dropped

\* The activities of the removed protocol go with their rollouts.
LEMMA DeleteAnthropicActivities ==
  ASSUME NEW d, IsDatabase(d)
  PROVE  LET e == delete_anthropic_activities(d)
         IN /\ IsDatabase(e)
            /\ e.schema = d.schema /\ e.versions = d.versions
            /\ e.providers = d.providers /\ e.mappings = d.mappings
            /\ e.routes = d.routes /\ e.shares = d.shares /\ e.sessions = d.sessions
<1> DEFINE gone == {a \in DOMAIN d.activities : d.activities[a].anthropic}
           e == delete_anthropic_activities(d)
<1>1. /\ DOMAIN e = DOMAIN d
      /\ e.schema = d.schema /\ e.versions = d.versions
      /\ e.providers = d.providers /\ e.mappings = d.mappings
      /\ e.routes = d.routes /\ e.shares = d.shares /\ e.sessions = d.sessions
      /\ e.rollouts = d.rollouts \ gone
      /\ e.activities = [a \in DOMAIN d.activities \ gone |-> d.activities[a]]
  BY DEF delete_anthropic_activities, IsDatabase, Restrict
<1> HIDE DEF e, gone
<1>2. IsDatabase(e)
  BY <1>1 DEF IsDatabase, ForeignKeys
<1> QED  BY <1>1, <1>2 DEF e

\* The providers of the removed protocol go with what refers to them; the
\* others keep their place under their new names.
LEMMA CleanProviderRecords ==
  ASSUME NEW d, IsDatabase(d)
  PROVE  LET e == clean_provider_records(d)
             kept == {p \in DOMAIN d.providers :
                        d.providers[p].type \notin ANTHROPIC_ONLY_PROVIDER_TYPES}
         IN /\ IsDatabase(e)
            /\ RoutesSafe(d, e)
            /\ e.schema = d.schema /\ e.versions = d.versions
            /\ \A p \in kept :
                  /\ p \in DOMAIN e.providers
                  /\ target_provider_id(e.providers[p].type)
                        = target_provider_id(d.providers[p].type)
            /\ \A row \in DOMAIN d.mappings : row[1] \in kept => row \in DOMAIN e.mappings
            /\ \A m \in DOMAIN d.routes :
                  d.routes[m] \in kept => m \in DOMAIN e.routes /\ e.routes[m] = d.routes[m]
<1> DEFINE e == clean_provider_records(d)
           kept == {p \in DOMAIN d.providers :
                      d.providers[p].type \notin ANTHROPIC_ONLY_PROVIDER_TYPES}
<1>1. CASE ~({"provider_columns", "visibility", "models_json"} \subseteq d.schema)
  <2>1. e = d
    BY <1>1 DEF clean_provider_records
  <2> QED  BY <2>1 DEF RoutesSafe
<1>2. CASE {"provider_columns", "visibility", "models_json"} \subseteq d.schema
  <2>1. /\ DOMAIN e = DOMAIN d
        /\ e.schema = d.schema /\ e.versions = d.versions
        /\ e.sessions = d.sessions /\ e.activities = d.activities
        /\ e.rollouts = d.rollouts
        /\ e.shares = d.shares \cap kept
        /\ e.providers = strip_anthropic_capabilities(WithAliasedTypes(Restrict(d.providers, kept)))
        /\ e.routes = [m \in {m \in DOMAIN d.routes : d.routes[m] \in kept} |-> d.routes[m]]
        /\ e.mappings = [row \in {row \in DOMAIN d.mappings : row[1] \in kept} |-> d.mappings[row]]
    BY <1>2 DEF clean_provider_records, IsDatabase, RestrictValues, RestrictDomain, Restrict
  <2>2. kept \subseteq DOMAIN d.providers
    OBVIOUS
  <2> HIDE DEF e, kept
  <2>3. DOMAIN e.providers = kept
    BY <2>1 DEF strip_anthropic_capabilities, WithAliasedTypes, Restrict
  <2>4. \A p \in kept :
           /\ DOMAIN e.providers[p] = {"type", "models", "disabled", "capabilities"}
           /\ DOMAIN e.providers[p].capabilities = {"override", "anthropic", "urls"}
           /\ e.providers[p].type = Alias(d.providers[p].type)
    <3> SUFFICES ASSUME NEW p \in kept
                 PROVE  /\ DOMAIN e.providers[p] = {"type", "models", "disabled", "capabilities"}
                        /\ DOMAIN e.providers[p].capabilities = {"override", "anthropic", "urls"}
                        /\ e.providers[p].type = Alias(d.providers[p].type)
      OBVIOUS
    <3> DEFINE r == d.providers[p]
               s == [r EXCEPT !.type = Alias(r.type)]
               w == WithAliasedTypes(Restrict(d.providers, kept))
    <3>1. /\ DOMAIN r = {"type", "models", "disabled", "capabilities"}
          /\ DOMAIN r.capabilities = {"override", "anthropic", "urls"}
      BY <2>2 DEF IsDatabase
    <3>2. DOMAIN w = kept /\ w[p] = s
      BY DEF WithAliasedTypes, Restrict
    <3>a. e.providers = strip_anthropic_capabilities(w)
      BY <2>1
    <3> HIDE DEF r, s, w
    <3>3. e.providers[p] = [s EXCEPT !.capabilities.anthropic = FALSE]
      BY <3>2, <3>a DEF strip_anthropic_capabilities
    <3>4. DOMAIN s = DOMAIN r /\ s.capabilities = r.capabilities /\ s.type = Alias(r.type)
      BY <3>1 DEF s
    <3> QED  BY <3>1, <3>3, <3>4 DEF r
  <2>5. ForeignKeys(e)
    <3>1. \A row \in DOMAIN e.mappings : row[1] \in kept
      BY <2>1
    <3>2. Range(e.routes) \subseteq kept
      BY <2>1 DEF Range
    <3> QED  BY <2>1, <2>3, <3>1, <3>2 DEF ForeignKeys, IsDatabase
  <2>6. IsDatabase(e)
    BY <2>1, <2>3, <2>4, <2>5 DEF IsDatabase
  <2>7. RoutesSafe(d, e)
    BY <2>1 DEF RoutesSafe, Mapped
  <2>8. \A p \in kept : target_provider_id(e.providers[p].type)
                           = target_provider_id(d.providers[p].type)
    BY <2>4, AliasTarget
  <2> QED  BY <2>1, <2>3, <2>6, <2>7, <2>8 DEF e, kept
<1> QED  BY <1>1, <1>2

\* The anthropic_removal migration: it keeps the schema and marks itself applied.
LEMMA AnthropicRemoval ==
  ASSUME NEW d, IsDatabase(d)
  PROVE  LET e == anthropic_removal(d)
         IN /\ Upgraded(d, e)
            /\ e.schema = d.schema
            /\ e.versions = d.versions \cup {"anthropic_removal_v1"}
<1>1. CASE "anthropic_removal_v1" \in d.versions
  <2>1. anthropic_removal(d) = d
    BY <1>1 DEF anthropic_removal
  <2> QED  BY <1>1, <2>1, UpgradedReflexive
<1>2. CASE "anthropic_removal_v1" \notin d.versions
  <2> DEFINE f == delete_anthropic_activities(d)
             g == clean_provider_records(f)
             e == WithVersion(g, "anthropic_removal_v1")
             kept == {p \in DOMAIN d.providers :
                        d.providers[p].type \notin ANTHROPIC_ONLY_PROVIDER_TYPES}
  <2>1. anthropic_removal(d) = e
    BY <1>2 DEF anthropic_removal, WithVersion
  <2>2. /\ IsDatabase(f)
        /\ f.schema = d.schema /\ f.versions = d.versions
        /\ f.providers = d.providers /\ f.mappings = d.mappings /\ f.routes = d.routes
    BY DeleteAnthropicActivities
  <2> HIDE DEF f
  <2>3. /\ IsDatabase(g)
        /\ RoutesSafe(f, g)
        /\ g.schema = f.schema /\ g.versions = f.versions
        /\ \A p \in kept :
              /\ p \in DOMAIN g.providers
              /\ target_provider_id(g.providers[p].type)
                    = target_provider_id(f.providers[p].type)
        /\ \A row \in DOMAIN f.mappings : row[1] \in kept => row \in DOMAIN g.mappings
        /\ \A m \in DOMAIN f.routes :
              f.routes[m] \in kept => m \in DOMAIN g.routes /\ g.routes[m] = f.routes[m]
    BY <2>2, CleanProviderRecords
  <2> HIDE DEF g
  <2>4. /\ e.schema = g.schema /\ e.versions = g.versions \cup {"anthropic_removal_v1"}
        /\ e.providers = g.providers /\ e.mappings = g.mappings /\ e.routes = g.routes
        /\ IsDatabase(e)
    BY <2>3, WithVersionFacts DEF Versions
  <2> HIDE DEF e
  <2>5. KeptProviders(d) = kept
    BY <1>2 DEF KeptProviders
  <2> HIDE DEF kept
  <2>6. KeptProviders(e) = DOMAIN e.providers
    BY <2>4 DEF KeptProviders
  <2>7. RoutesSafe(d, e)
    BY <2>2, <2>3, <2>4 DEF RoutesSafe, Mapped
  <2>8. Upgraded(d, e)
    BY <2>2, <2>3, <2>4, <2>5, <2>6, <2>7 DEF Upgraded
  <2> QED  BY <2>1, <2>2, <2>3, <2>4, <2>8
<1> QED  BY <1>1, <1>2

\* One migration after another keeps what both keep.
LEMMA SchemaKeptTransitive ==
  ASSUME NEW d, NEW e, NEW f, SchemaKept(d, e), SchemaKept(e, f)
  PROVE  SchemaKept(d, f)
BY DEF SchemaKept

\* The transaction of the upgrade: a database with the whole schema has the
\* columns the code names, and it has the two versions behind it.
LEMMA Migrated ==
  ASSUME NEW d, IsDatabase(d)
  PROVE  LET e == migrated(d)
         IN /\ Upgraded(d, e)
            /\ {"activity_rollout_v2", "anthropic_removal_v1"} \subseteq e.versions
            /\ current_schema_is_complete(e.schema) => SchemaServes(e.schema)
<1> DEFINE d1 == migrate_provider_schema(d)
           d2 == migrate_response_sessions_schema(d1)
           d3 == rename_legacy_activities(d2)
           d4 == migrate_activity_schema(d3)
           d5 == drop_legacy_cost_columns(d4)
           d6 == initialize_memory_schema(d5)
           d7 == activity_rollout(d6)
           d8 == anthropic_removal(d7)
<1>0. migrated(d) = d8
  BY DEF migrated
<1>1. /\ Upgraded(d, d1) /\ SchemaKept(d, d1) /\ IsDatabase(d1)
      /\ "provider_columns" \in d.schema => "models_json" \in d1.schema
  BY MigrateProviderSchema DEF Upgraded
<1> HIDE DEF d1
<1>2. Upgraded(d1, d2) /\ SchemaKept(d1, d2) /\ IsDatabase(d2)
  BY <1>1, MiddleSteps DEF Upgraded
<1> HIDE DEF d2
<1>3. Upgraded(d2, d3) /\ SchemaKept(d2, d3) /\ IsDatabase(d3)
  BY <1>2, MiddleSteps DEF Upgraded
<1> HIDE DEF d3
<1>4. /\ Upgraded(d3, d4) /\ SchemaKept(d3, d4) /\ IsDatabase(d4)
      /\ "activity_provider_type" \in d4.schema
  BY <1>3, MiddleSteps DEF Upgraded
<1> HIDE DEF d4
<1>5. Upgraded(d4, d5) /\ SchemaKept(d4, d5) /\ IsDatabase(d5)
  BY <1>4, MiddleSteps DEF Upgraded
<1> HIDE DEF d5
<1>6. Upgraded(d5, d6) /\ SchemaKept(d5, d6) /\ IsDatabase(d6)
  BY <1>5, MiddleSteps DEF Upgraded
<1> HIDE DEF d6
<1>7. /\ Upgraded(d6, d7) /\ SchemaKept(d6, d7) /\ IsDatabase(d7)
      /\ "activity_rollout_v2" \in d7.versions
  BY <1>6, ActivityRollout DEF Upgraded
<1> HIDE DEF d7
<1>8. /\ Upgraded(d7, d8) /\ IsDatabase(d8) /\ d8.schema = d7.schema
      /\ d8.versions = d7.versions \cup {"anthropic_removal_v1"}
  BY <1>7, AnthropicRemoval DEF Upgraded
<1> HIDE DEF d8
<1>9. Upgraded(d, d8)
  <2>1. Upgraded(d, d2)  BY <1>1, <1>2, UpgradedTransitive
  <2>2. Upgraded(d, d3)  BY <2>1, <1>3, UpgradedTransitive
  <2>3. Upgraded(d, d4)  BY <2>2, <1>4, UpgradedTransitive
  <2>4. Upgraded(d, d5)  BY <2>3, <1>5, UpgradedTransitive
  <2>5. Upgraded(d, d6)  BY <2>4, <1>6, UpgradedTransitive
  <2>6. Upgraded(d, d7)  BY <2>5, <1>7, UpgradedTransitive
  <2> QED  BY <2>6, <1>8, UpgradedTransitive
<1>10. SchemaKept(d4, d7)
  BY <1>5, <1>6, <1>7, SchemaKeptTransitive
<1>11. SchemaKept(d1, d4)
  BY <1>2, <1>3, <1>4, SchemaKeptTransitive
<1>12. ASSUME current_schema_is_complete(d8.schema)
       PROVE  SchemaServes(d8.schema)
  <2>1. "visibility" \in d8.schema /\ "identity_activities" \in d8.schema
        /\ "identity_provider_configs" \in d8.schema
    BY <1>12 DEF current_schema_is_complete, provider_sharing_schema_exists, BASE_TABLES
  <2>2. "provider_columns" \in d8.schema
    BY <2>1, <1>8 DEF IsDatabase
  <2>3. "provider_columns" \in d.schema
    BY <2>2, <1>1, <1>8, <1>10, <1>11 DEF SchemaKept
  <2>4. "models_json" \in d8.schema
    BY <2>3, <1>1, <1>8, <1>10, <1>11 DEF SchemaKept
  <2>5. "activity_provider_type" \in d8.schema
    BY <1>4, <1>8, <1>10 DEF SchemaKept
  <2> QED  BY <1>12, <2>1, <2>2, <2>4, <2>5 DEF SchemaServes, activities, provider_configs
<1> QED  BY <1>0, <1>7, <1>8, <1>9, <1>12

-----------------------------------------------------------------------------
(* What the migrations to the catalog do to the database.                    *)

\* e has the schema of d but for elements nobody serves with, and its other
\* columns as good as those of d.
Fitted(d, e) ==
    /\ IsDatabase(e)
    /\ RoutesSafe(d, e)
    /\ SchemaServes(d.schema) => SchemaServes(e.schema)
    /\ d.versions \subseteq e.versions

\* A schema still serves without the tables and columns of older releases.
LEMMA ServesWithout ==
  ASSUME NEW schema, SchemaServes(schema), NEW x,
         x \in {"identity_provider_models", "disabled_models_json"}
  PROVE  SchemaServes(schema \ {x})
<1>1. BASE_TABLES \cup MEMORY_TABLES \cup {"identity_activities"} \subseteq schema \ {x}
  BY DEF SchemaServes, current_schema_is_complete, BASE_TABLES, MEMORY_TABLES
<1>2. provider_sharing_schema_exists(schema \ {x})
  BY DEF SchemaServes, current_schema_is_complete, provider_sharing_schema_exists,
         provider_shares
<1>3. activity_rollout_schema_exists(schema \ {x})
  BY DEF SchemaServes, current_schema_is_complete, activity_rollout_schema_exists,
         ROLLOUT_INDEXES, activity_rollouts
<1>4. response_session_schema_exists(schema \ {x})
  BY DEF SchemaServes, current_schema_is_complete, response_session_schema_exists,
         response_sessions
<1>5. activities \cup provider_configs \subseteq schema \ {x}
  BY DEF SchemaServes, activities, provider_configs
<1> QED  BY <1>1, <1>2, <1>3, <1>4, <1>5 DEF SchemaServes, current_schema_is_complete

\* Every provider has the columns of its table.
Accounts(providers) ==
    \A p \in DOMAIN providers :
        /\ DOMAIN providers[p] = {"type", "models", "disabled", "capabilities"}
        /\ DOMAIN providers[p].capabilities = {"override", "anthropic", "urls"}

\* Replacing the types leaves every account with its columns.
LEMMA WithTargetTypesFacts ==
  ASSUME NEW providers, Accounts(providers)
  PROVE  /\ DOMAIN WithTargetTypes(providers) = DOMAIN providers
         /\ Accounts(WithTargetTypes(providers))
BY DEF WithTargetTypes, Accounts

\* A database stays one when it keeps its providers and activities and loses
\* mappings and routes at most.
LEMMA DatabaseKept ==
  ASSUME NEW d, IsDatabase(d), NEW e,
         DOMAIN e = DOMAIN d,
         DOMAIN e.providers = DOMAIN d.providers,
         \A p \in DOMAIN d.providers :
            /\ DOMAIN e.providers[p] = {"type", "models", "disabled", "capabilities"}
            /\ DOMAIN e.providers[p].capabilities = {"override", "anthropic", "urls"},
         DOMAIN e.activities = DOMAIN d.activities,
         \A a \in DOMAIN d.activities :
            DOMAIN e.activities[a] = {"provider", "type", "anthropic"},
         e.versions \subseteq Versions,
         e.schema \subseteq d.schema, "provider_columns" \in d.schema => "provider_columns" \in e.schema,
         DOMAIN e.mappings \subseteq DOMAIN d.mappings,
         RoutesSafe(d, e), e.shares = d.shares, e.rollouts = d.rollouts
  PROVE  IsDatabase(e)
<1>1. Range(e.routes) \subseteq Range(d.routes)
  <2> SUFFICES ASSUME NEW m \in DOMAIN e.routes
               PROVE  e.routes[m] \in Range(d.routes)
    BY DEF Range
  <2>1. m \in DOMAIN d.routes /\ e.routes[m] = d.routes[m]
    BY DEF RoutesSafe
  <2> QED  BY <2>1 DEF Range
<1>2. ForeignKeys(e)
  <2>1. \A row \in DOMAIN e.mappings : row[1] \in DOMAIN e.providers
    BY DEF IsDatabase, ForeignKeys
  <2>2. Range(d.routes) \cup d.shares \subseteq DOMAIN d.providers
        /\ d.rollouts \subseteq DOMAIN d.activities
    BY DEF IsDatabase, ForeignKeys
  <2> QED  BY <1>1, <2>1, <2>2 DEF ForeignKeys
<1>3. "visibility" \in e.schema => "provider_columns" \in e.schema
  BY DEF IsDatabase
<1>4. DOMAIN d = {"schema", "versions", "providers", "mappings", "routes",
                  "shares", "sessions", "activities", "rollouts"}
  BY DEF IsDatabase
<1> QED  BY <1>2, <1>3, <1>4 DEF IsDatabase

\* The first migration to the catalog.
LEMMA LegacyMigration ==
  ASSUME NEW d, IsDatabase(d), NEW cat
  PROVE  LET e == legacy_migration(d, cat)
         IN Fitted(d, e) /\ "provider_catalog_v1" \in e.versions
<1> DEFINE gone == RemovedRows(d, cat)
           f == cleanup_endpoint_models(d, cat)
           e == legacy_migration(d, cat)
<1>1. /\ DOMAIN f = DOMAIN d /\ f.schema = d.schema /\ f.versions = d.versions
      /\ f.providers = d.providers /\ f.shares = d.shares /\ f.sessions = d.sessions
      /\ f.activities = d.activities /\ f.rollouts = d.rollouts
      /\ f.mappings = [row \in DOMAIN d.mappings \ gone |-> d.mappings[row]]
      /\ f.routes = [m \in {m \in DOMAIN d.routes : <<d.routes[m], m>> \notin gone} |->
                        d.routes[m]]
  BY DEF cleanup_endpoint_models, IsDatabase, RestrictDomain, Restrict
<1> HIDE DEF gone, f
<1>2. /\ DOMAIN e = DOMAIN f /\ e.schema = f.schema
      /\ e.versions = f.versions \cup {"provider_catalog_v1"}
      /\ e.providers = WithTargetTypes(f.providers)
      /\ e.shares = f.shares /\ e.sessions = f.sessions
      /\ e.activities = f.activities /\ e.rollouts = f.rollouts
      /\ e.mappings = f.mappings /\ e.routes = f.routes
  BY <1>1 DEF legacy_migration, f, IsDatabase
<1> HIDE DEF e
<1>3. /\ DOMAIN e.providers = DOMAIN d.providers
      /\ \A p \in DOMAIN d.providers :
            /\ DOMAIN e.providers[p] = {"type", "models", "disabled", "capabilities"}
            /\ DOMAIN e.providers[p].capabilities = {"override", "anthropic", "urls"}
  <2>1. Accounts(d.providers)
    BY DEF IsDatabase, Accounts
  <2>2. e.providers = WithTargetTypes(d.providers)
    BY <1>1, <1>2
  <2>3. DOMAIN e.providers = DOMAIN d.providers /\ Accounts(e.providers)
    BY <2>1, <2>2, WithTargetTypesFacts
  <2> QED  BY <2>3 DEF Accounts
<1>4. \A a \in DOMAIN d.activities : DOMAIN d.activities[a] = {"provider", "type", "anthropic"}
  BY DEF IsDatabase
<1>5. RoutesSafe(d, e)
  BY <1>1, <1>2 DEF RoutesSafe, Mapped
<1>6. DOMAIN e.mappings \subseteq DOMAIN d.mappings
  BY <1>1, <1>2
<1>7. d.versions \subseteq e.versions /\ e.versions \subseteq Versions
  BY <1>1, <1>2 DEF IsDatabase, Versions
<1>8. IsDatabase(e)
  BY <1>1, <1>2, <1>3, <1>4, <1>5, <1>6, <1>7, DatabaseKept
<1> QED  BY <1>1, <1>2, <1>5, <1>7, <1>8 DEF Fitted, e

\* The second migration to the catalog.
LEMMA ModelSourceMigration ==
  ASSUME NEW d, IsDatabase(d), NEW cat
  PROVE  LET e == model_source_migration(d, cat)
         IN Fitted(d, e) /\ "provider_model_catalog_v2" \in e.versions
<1> DEFINE gone == RemovedRows(d, cat)
           f == WithSchema(d, {}, {"identity_provider_models"})
           e == model_source_migration(d, cat)
<1>1. /\ DOMAIN f = DOMAIN d /\ f.schema = d.schema \ {"identity_provider_models"}
      /\ f.versions = d.versions
      /\ f.providers = d.providers /\ f.shares = d.shares /\ f.sessions = d.sessions
      /\ f.activities = d.activities /\ f.rollouts = d.rollouts
      /\ f.mappings = d.mappings /\ f.routes = d.routes
  BY WithSchemaFacts
<1>2. e = [f EXCEPT !.mappings = Restrict(f.mappings, DOMAIN f.mappings \ gone),
                    !.routes = RestrictDomain(f.routes,
                                  LAMBDA m : \A row \in gone : row[2] # m),
                    !.providers = WithTargetTypes(f.providers),
                    !.versions = f.versions \cup {"provider_model_catalog_v2"}]
  BY DEF model_source_migration
<1> HIDE DEF gone, f
<1>3. /\ DOMAIN e = DOMAIN f /\ e.schema = f.schema
      /\ e.versions = f.versions \cup {"provider_model_catalog_v2"}
      /\ e.providers = WithTargetTypes(f.providers)
      /\ e.shares = f.shares /\ e.sessions = f.sessions
      /\ e.activities = f.activities /\ e.rollouts = f.rollouts
      /\ e.mappings = [row \in DOMAIN f.mappings \ gone |-> f.mappings[row]]
      /\ e.routes = [m \in {m \in DOMAIN f.routes : \A row \in gone : row[2] # m} |->
                        f.routes[m]]
  BY <1>1, <1>2 DEF IsDatabase, RestrictDomain, Restrict
<1> HIDE DEF e
<1>4. /\ DOMAIN e.providers = DOMAIN d.providers
      /\ \A p \in DOMAIN d.providers :
            /\ DOMAIN e.providers[p] = {"type", "models", "disabled", "capabilities"}
            /\ DOMAIN e.providers[p].capabilities = {"override", "anthropic", "urls"}
  <2>1. Accounts(d.providers)
    BY DEF IsDatabase, Accounts
  <2>2. e.providers = WithTargetTypes(d.providers)
    BY <1>1, <1>3
  <2>3. DOMAIN e.providers = DOMAIN d.providers /\ Accounts(e.providers)
    BY <2>1, <2>2, WithTargetTypesFacts
  <2> QED  BY <2>3 DEF Accounts
<1>5. \A a \in DOMAIN d.activities : DOMAIN d.activities[a] = {"provider", "type", "anthropic"}
  BY DEF IsDatabase
<1>6. /\ DOMAIN e.mappings \subseteq DOMAIN d.mappings
      /\ d.versions \subseteq e.versions /\ e.versions \subseteq Versions
  BY <1>1, <1>3 DEF IsDatabase, Versions
<1>7. RoutesSafe(d, e)
  <2> SUFFICES ASSUME NEW m \in DOMAIN e.routes
               PROVE  /\ m \in DOMAIN d.routes /\ e.routes[m] = d.routes[m]
                      /\ Mapped(d, m) => Mapped(e, m)
    BY DEF RoutesSafe
  <2>1. /\ m \in DOMAIN d.routes /\ e.routes[m] = d.routes[m]
        /\ \A row \in gone : row[2] # m
    BY <1>1, <1>3
  <2>2. <<d.routes[m], m>> \notin gone
    BY <2>1
  <2> QED  BY <1>1, <1>3, <2>1, <2>2 DEF Mapped
<1>8. SchemaServes(d.schema) => SchemaServes(e.schema)
  BY <1>1, <1>3, ServesWithout
<1>9. IsDatabase(e)
  BY <1>1, <1>3, <1>4, <1>5, <1>6, <1>7, DatabaseKept
<1> QED  BY <1>3, <1>6, <1>7, <1>8, <1>9 DEF Fitted, e

-----------------------------------------------------------------------------
(* The catalog.                                                              *)

\* The map from ids to rows, when no id is used twice.
LEMMA ByIdFacts ==
  ASSUME NEW rows, IsList(rows), DistinctIds(rows)
  PROVE  /\ DOMAIN ById(rows) = {r.id : r \in Range(rows)}
         /\ \A i \in DOMAIN rows : ById(rows)[rows[i].id] = rows[i]
         /\ Cardinality(DOMAIN ById(rows)) = Len(rows)
<1> DEFINE ids == {r.id : r \in Range(rows)}
           n == Len(rows)
           f == [i \in 1 .. n |-> rows[i].id]
<1>1. DOMAIN ById(rows) = ids
  BY DEF ById
<1>2. ASSUME NEW i \in DOMAIN rows
      PROVE  ById(rows)[rows[i].id] = rows[i]
  <2> DEFINE Last(j) == /\ rows[j].id = rows[i].id
                        /\ \A k \in DOMAIN rows : rows[k].id = rows[i].id => k <= j
             last == CHOOSE j \in DOMAIN rows : Last(j)
  <2>1. \A k \in DOMAIN rows : rows[k].id = rows[i].id => k = i
    BY DEF DistinctIds
  <2>2. i <= i
    BY DEF IsList
  <2>3. Last(i)
    BY <2>1, <2>2
  <2>4. last \in DOMAIN rows /\ Last(last)
    <3> HIDE DEF Last
    <3> QED  BY <2>3
  <2>5. last = i
    BY <2>1, <2>4
  <2>6. rows[i].id \in ids
    BY DEF Range
  <2>7. ById(rows)[rows[i].id] = rows[last]
    BY <2>6 DEF ById
  <2> QED  BY <2>5, <2>7
<1>3. n \in Nat /\ DOMAIN rows = 1 .. n
  BY DEF IsList
<1>4. f \in Bijection(1 .. n, ids)
  <2>1. f \in [1 .. n -> ids]
    BY <1>3 DEF Range
  <2>2. \A i, j \in 1 .. n : f[i] = f[j] => i = j
    BY <1>3 DEF DistinctIds
  <2>3. \A x \in ids : \E i \in 1 .. n : f[i] = x
    BY <1>3 DEF Range
  <2> HIDE DEF f, ids, n
  <2> QED  BY <2>1, <2>2, <2>3 DEF Bijection, Injection, Surjection, IsInjective
<1>5. Cardinality(ids) = n
  <2> HIDE DEF f, ids, n
  <2> QED  BY <1>3, <1>4, FS_CountingElements DEF ExistsBijection
<1> QED  BY <1>1, <1>2, <1>5

\* A catalog that is loaded passed every check.
LEMMA LoadedFacts ==
  ASSUME NEW d, load(d).loaded
  PROVE  /\ load_language_models(d) /\ load_image_generation_models(d) /\ load_providers(d)
         /\ load(d).providers = ById(d.providers)
         /\ load(d).image = DOMAIN ById(d.image)
         /\ load(d).language = [id \in DOMAIN ById(d.language) |->
                resolve_base_instructions(d.templates, ById(d.language)[id])]
BY DEF load, NoCatalog

\* Protocols in their order end with the images, if they are among them.
LEMMA ImagesComeLast ==
  ASSUME NEW protocols, IsList(protocols), Range(protocols) \subseteq Range(ORDERED),
         validate_protocols(protocols), "images_generations" \in Range(protocols)
  PROVE  protocols[Len(protocols)] = "images_generations"
<1> DEFINE n == Len(protocols)
<1>1. n \in Nat /\ DOMAIN protocols = 1 .. n
  BY DEF IsList
<1>2. PICK i \in 1 .. n : protocols[i] = "images_generations"
  BY <1>1 DEF Range
<1>3. SUFFICES i = n
  BY <1>2
<1>4. SUFFICES ASSUME i # n PROVE FALSE
  OBVIOUS
<1>5. i \in 1 .. n - 1 /\ i + 1 \in 1 .. n
  <2> HIDE DEF n
  <2> QED  BY <1>1, <1>2, <1>4
<1>6. position(protocols[i]) < position(protocols[i + 1])
  BY <1>5 DEF validate_protocols
<1>7. protocols[i + 1] \in Range(ORDERED)
  BY <1>1, <1>5 DEF Range
<1>8. position("images_generations") = 3
  BY DEF position, ORDERED
<1>9. position(protocols[i + 1]) \in 1 .. 3
  <2>1. DOMAIN ORDERED = 1 .. 3
    BY DEF ORDERED
  <2>2. \E j \in DOMAIN ORDERED : ORDERED[j] = protocols[i + 1]
    BY <1>7 DEF Range
  <2> QED  BY <2>1, <2>2 DEF position
<1> QED  BY <1>2, <1>6, <1>8, <1>9

\* There are instructions when there is a default for them.
LEMMA InstructionsFacts ==
  ASSUME NEW templates, NEW m, read_instruction_template(templates, "_default") # {}
  PROVE  resolve_base_instructions(templates, m) \ {Blank} # {}
BY DEF resolve_base_instructions, read_instruction_template

\* A catalog that is loaded is its document.
LEMMA LoadedIsWhatWasWritten ==
  ASSUME NEW name \in DOMAIN Documents, catalog = load(Documents[name]),
         document = name, catalog.loaded
  PROVE  CatalogIsWhatWasWritten /\ ~has_provider(catalog, NoTarget)
<1> DEFINE d == Documents[name]
<1>1. /\ load_language_models(d) /\ load_image_generation_models(d) /\ load_providers(d)
      /\ catalog.providers = ById(d.providers)
      /\ catalog.image = DOMAIN ById(d.image)
      /\ catalog.language = [id \in DOMAIN ById(d.language) |->
                resolve_base_instructions(d.templates, ById(d.language)[id])]
  BY LoadedFacts
<1>2. /\ IsList(d.language) /\ IsList(d.image) /\ IsList(d.providers)
      /\ \A p \in Range(d.providers) :
            /\ IsList(p.protocols) /\ Range(p.protocols) \subseteq Range(ORDERED)
            /\ p.id # NoTarget
  BY DocumentsAssumption
<1> HIDE DEF d
<1>3. /\ DOMAIN ById(d.providers) = {r.id : r \in Range(d.providers)}
      /\ \A i \in DOMAIN d.providers : ById(d.providers)[d.providers[i].id] = d.providers[i]
  BY <1>1, <1>2, ByIdFacts DEF load_providers
<1>4. /\ DOMAIN ById(d.language) = {r.id : r \in Range(d.language)}
      /\ \A i \in DOMAIN d.language : ById(d.language)[d.language[i].id] = d.language[i]
      /\ Cardinality(DOMAIN ById(d.language)) = Len(d.language)
  BY <1>1, <1>2, ByIdFacts DEF load_language_models
<1>5. Cardinality(DOMAIN ById(d.image)) = Len(d.image)
  BY <1>1, <1>2, ByIdFacts DEF load_image_generation_models
<1>6. \A p \in Range(d.providers) : catalog.providers[p.id] = p
  BY <1>1, <1>3 DEF Range
<1>7. ASSUME read_instruction_template(d.templates, "_default") # {},
             NEW m \in Range(d.language)
      PROVE  catalog.language[m.id] \ {Blank} # {}
  <2>1. m.id \in DOMAIN ById(d.language)
    BY <1>4
  <2>2. catalog.language[m.id]
           = resolve_base_instructions(d.templates, ById(d.language)[m.id])
    BY <1>1, <2>1
  <2> QED  BY <1>7, <2>2, InstructionsFacts
<1>8. Cardinality(DOMAIN catalog.language) = Len(d.language)
  BY <1>1, <1>4
<1>9. ASSUME NEW p \in Range(catalog.providers)
      PROVE  /\ Range(p.language_models) \subseteq DOMAIN catalog.language
             /\ Range(p.image_generation_models) \subseteq catalog.image
             /\ p.image_generation_models # <<>>
                   => p.protocols[Len(p.protocols)] = "images_generations"
             /\ \A i, j \in DOMAIN p.request_headers :
                   p.request_headers[i].name = p.request_headers[j].name => i = j
  <2>1. p \in Range(d.providers)
    <3>1. PICK id \in DOMAIN ById(d.providers) : p = ById(d.providers)[id]
      BY <1>1 DEF Range
    <3>2. PICK i \in DOMAIN d.providers : d.providers[i].id = id
      BY <1>3 DEF Range
    <3> QED  BY <1>3, <3>1, <3>2 DEF Range
  <2>2. validate_provider(p, ById(d.language), ById(d.image))
    BY <1>1, <2>1 DEF load_providers
  <2>3. /\ Range(p.language_models) \subseteq DOMAIN ById(d.language)
        /\ Range(p.image_generation_models) \subseteq DOMAIN ById(d.image)
    BY <2>2 DEF validate_provider, validate_provider_model_references
  <2>4. \A i, j \in DOMAIN p.request_headers :
           p.request_headers[i].name = p.request_headers[j].name => i = j
    BY <2>2 DEF validate_provider, validate_request_headers
  <2>5. ASSUME p.image_generation_models # <<>>
        PROVE  p.protocols[Len(p.protocols)] = "images_generations"
    <3>1. validate_protocols(p.protocols) /\ "images_generations" \in Range(p.protocols)
      BY <2>2, <2>5 DEF validate_provider
    <3> QED  BY <1>2, <2>1, <3>1, ImagesComeLast
  <2> QED  BY <1>1, <2>3, <2>4, <2>5
<1>10. ~has_provider(catalog, NoTarget)
  BY <1>1, <1>2, <1>3 DEF has_provider
<1>11. CatalogIsWhatWasWritten
  BY <1>1, <1>5, <1>6, <1>7, <1>8, <1>9 DEF CatalogIsWhatWasWritten, d
<1> QED  BY <1>10, <1>11

-----------------------------------------------------------------------------
(* What every step has in common.                                            *)

\* Nothing else than the rows decides whether a route dangles.
LEMMA NoDanglingStep ==
  ASSUME NoDanglingRoute, RoutesSafe(db, db'), original' = original
  PROVE  NoDanglingRoute'
<1> SUFFICES ASSUME NEW m \in DOMAIN db'.routes
             PROVE  \/ Mapped(db, m)'
                    \/ /\ m \in DOMAIN original.routes /\ original.routes[m] = db'.routes[m]
                       /\ ~Mapped(original, m)
  BY DEF NoDanglingRoute, Mapped
<1>1. /\ m \in DOMAIN db.routes /\ db'.routes[m] = db.routes[m]
      /\ Mapped(db, m) => Mapped(db, m)'
  BY DEF RoutesSafe, Mapped
<1> QED  BY <1>1 DEF NoDanglingRoute

\* While the database is only upgraded, an unmappable provider is kept.
LEMMA UnmappableStep ==
  ASSUME UnmappableInv, Upgraded(db, db'), original' = original, pc' \notin FromV2
  PROVE  UnmappableInv'
<1> SUFFICES ASSUME Unmappable
             PROVE  UnmappableInv'
  BY DEF UnmappableInv, Unmappable
<1> DEFINE kept == KeptProviders(original)
<1>1. /\ "provider_catalog_v1" \notin db.versions
      /\ kept \subseteq KeptProviders(db)
      /\ \A p \in kept : target_provider_id(db.providers[p].type)
                            = target_provider_id(original.providers[p].type)
      /\ \A row \in DOMAIN original.mappings : row[1] \in kept => row \in DOMAIN db.mappings
      /\ \A m \in DOMAIN original.routes : original.routes[m] \in kept =>
            m \in DOMAIN db.routes /\ db.routes[m] = original.routes[m]
  BY DEF UnmappableInv
<1>2. KeptProviders(original)' = kept
  BY DEF KeptProviders
<1> HIDE DEF kept
<1>3. /\ "provider_catalog_v1" \notin db'.versions
      /\ kept \subseteq KeptProviders(db')
      /\ \A p \in kept : target_provider_id(db'.providers[p].type)
                            = target_provider_id(original.providers[p].type)
      /\ \A row \in DOMAIN original.mappings : row[1] \in kept => row \in DOMAIN db'.mappings
      /\ \A m \in DOMAIN original.routes : original.routes[m] \in kept =>
            m \in DOMAIN db'.routes /\ db'.routes[m] = original.routes[m]
  BY <1>1 DEF Upgraded
<1>4. KeptProviders(db)' = KeptProviders(db')
  BY DEF KeptProviders
<1> QED  BY <1>2, <1>3, <1>4 DEF UnmappableInv, target_provider_id

\* Nothing is unmappable once a start is past the first migration.
LEMMA PastUnmappable ==
  ASSUME UnmappableInv, pc \in FromV2, original' = original
  PROVE  UnmappableInv'
BY DEF UnmappableInv, Unmappable, KeptProviders, target_provider_id

\* A step of a running start keeps its catalog.
LEMMA CatalogKept ==
  ASSUME CatalogInv, pc \in Running \cup {"up"}, catalog' = catalog, document' = document
  PROVE  CatalogInv'
BY DEF CatalogInv, load

\* A start that ends, or is cut off, leaves nothing to prove.
LEMMA EndStep ==
  ASSUME Inv, pc \in Running \cup {"up"}, pc' \in Ended, todo' = {}, pending' = {},
         UNCHANGED <<db, catalog, document, original, used>>
  PROVE  Inv'
<1>1. TypeOK'
  BY DEF Inv, TypeOK, ForeignKeys, Ended, Running
<1>2. IsDatabase(db)' /\ IsDatabase(original)'
  BY DEF Inv, IsDatabase, ForeignKeys
<1>3. RoutesSafe(db, db')
  BY DEF RoutesSafe
<1>4. NoDanglingRoute'
  BY <1>3, NoDanglingStep DEF Inv
<1>5. CatalogInv'
  BY CatalogKept DEF Inv
<1>6. PendingInv'
  BY DEF PendingInv
<1>7. StageInv'
  BY DEF StageInv, LoopInv, Ended, FromV1, FromV2, FromBackfill, FromModels, FromUrls, FromEndpoints
<1>8. UnmappableInv'
  <2>1. Upgraded(db, db')
    BY UpgradedReflexive DEF Inv
  <2>2. pc' \notin FromV2
    BY DEF Ended, FromV2, FromV1
  <2> QED  BY <2>1, <2>2, UnmappableStep DEF Inv
<1> QED  BY <1>1, <1>2, <1>4, <1>5, <1>6, <1>7, <1>8 DEF Inv

\* What is left to show of a step of a running start.
LEMMA RunningStep ==
  ASSUME Inv, pc \in Running, pc' \in Running \cup {"up"}, pc' = "up" => todo' = {},
         pending' \subseteq todo', PendingInv', IsDatabase(db)', RoutesSafe(db, db'),
         UNCHANGED <<catalog, document, original, used>>, StageInv', UnmappableInv'
  PROVE  Inv'
<1>1. TypeOK'
  <2>1. ForeignKeys(db)'
    BY DEF IsDatabase
  <2>2. pc' \notin Ended
    BY DEF Running, Ended
  <2>3. pc' = "up" => pending' = {}
    BY DEF PendingInv
  <2>4. used' \subseteq DOMAIN Documents /\ document' \in DOMAIN Documents \cup {NoDocument}
    BY DEF Inv, TypeOK
  <2>5. (db.versions \subseteq Versions)'
    BY DEF IsDatabase
  <2> QED  BY <2>1, <2>2, <2>3, <2>4, <2>5 DEF TypeOK
<1>2. IsDatabase(original)'
  BY DEF Inv, IsDatabase, ForeignKeys
<1>3. NoDanglingRoute'
  BY NoDanglingStep DEF Inv
<1>4. CatalogInv'
  BY CatalogKept DEF Inv
<1> QED  BY <1>1, <1>2, <1>3, <1>4 DEF Inv

\* Every database a server may be started on satisfies the invariant.
LEMMA InitInv ==
  ASSUME Init
  PROVE  Inv
<1>1. IsDatabase(db) /\ IsDatabase(original)
  BY DatabasesAssumption DEF Init
<1>2. TypeOK
  BY <1>1 DEF Init, TypeOK, IsDatabase, Ended
<1>3. NoDanglingRoute
  BY DEF Init, NoDanglingRoute, Mapped
<1>4. CatalogInv /\ PendingInv
  BY DEF Init, CatalogInv, PendingInv, Running
<1>5. StageInv
  BY DEF Init, StageInv, LoopInv, FromV1, FromV2, FromBackfill, FromModels, FromUrls, FromEndpoints
<1>6. UnmappableInv
  BY DEF Init, UnmappableInv, Unmappable, FromV2, FromV1
<1> QED  BY <1>1, <1>2, <1>3, <1>4, <1>5, <1>6 DEF Inv

\* Start: the document is read, cleaned and validated, nothing is written yet.
LEMMA StartStep ==
  ASSUME Inv, NEW name \in DOMAIN Documents, Start(name)
  PROVE  Inv'
<1>1. /\ pc \in Ended
      /\ document' = name
      /\ catalog' = load(Documents[name])
      /\ pc' = IF catalog'.loaded THEN "initialize" ELSE "invalid"
      /\ used' = IF catalog'.loaded THEN used \cup {name} ELSE used
      /\ db' = db /\ todo' = todo /\ pending' = pending /\ original' = original
  BY DEF Start
<1>2. pc' \in {"initialize", "invalid"} /\ todo' = {} /\ pending' = {}
  BY <1>1 DEF Inv, TypeOK
<1>3. TypeOK'
  BY <1>1, <1>2 DEF Inv, TypeOK, ForeignKeys, Ended, Running
<1>4. IsDatabase(db)' /\ IsDatabase(original)'
  BY <1>1 DEF Inv, IsDatabase, ForeignKeys
<1>5. NoDanglingRoute'
  BY <1>1, NoDanglingStep DEF Inv, RoutesSafe
<1>6. CatalogInv'
  BY <1>1 DEF CatalogInv, Running, load
<1>7. PendingInv'
  BY <1>2 DEF PendingInv
<1>8. StageInv'
  BY <1>2 DEF StageInv, LoopInv, FromV1, FromV2, FromBackfill, FromModels, FromUrls, FromEndpoints
<1>9. UnmappableInv'
  <2>1. Upgraded(db, db')
    BY <1>1, UpgradedReflexive DEF Inv
  <2>2. pc' \notin FromV2
    BY <1>2 DEF FromV2, FromV1
  <2> QED  BY <1>1, <2>1, <2>2, UnmappableStep DEF Inv
<1> QED  BY <1>3, <1>4, <1>5, <1>6, <1>7, <1>8, <1>9 DEF Inv

\* A step of a running start before the migrations to the catalog.
LEMMA EarlyStep ==
  ASSUME Inv, pc \in Running, pc' \in Running \ FromV2, pending' = {},
         UNCHANGED <<catalog, document, original, used>>, Upgraded(db, db'), StageInv'
  PROVE  Inv'
<1>1. IsDatabase(db)' /\ RoutesSafe(db, db')
  <2>1. IsDatabase(db') /\ RoutesSafe(db, db')
    BY DEF Upgraded
  <2> QED  BY <2>1 DEF IsDatabase, ForeignKeys
<1>2. PendingInv'
  BY DEF PendingInv
<1>3. UnmappableInv'
  BY UnmappableStep DEF Inv
<1>4. pc' # "up"
  BY DEF Running
<1> QED  BY <1>1, <1>2, <1>3, <1>4, RunningStep

\* Only one stage is entered: what the invariant asks for at the early stages.
LEMMA EarlyStage ==
  ASSUME pc' \in {"initialize", "create", "removal", "catalog_v1"},
         pc' = "create" => CreateInv',
         pc' = "removal" => SchemaServes(db'.schema) /\ "activity_rollout_v2" \in db'.versions,
         pc' = "catalog_v1" => /\ SchemaServes(db'.schema)
                               /\ {"activity_rollout_v2", "anthropic_removal_v1"}
                                     \subseteq db'.versions
  PROVE  StageInv' /\ pc' \in Running \ FromV2
<1>1. pc' \notin FromV2 /\ (pc' \in FromV1 => pc' = "catalog_v1")
  BY DEF FromV1, FromV2
<1>2. /\ pc' \notin FromBackfill /\ pc' \notin FromModels /\ pc' \notin FromUrls
      /\ pc' \notin FromEndpoints /\ pc' # "models" /\ pc' # "urls"
  BY DEF FromV1, FromV2, FromBackfill, FromModels, FromUrls, FromEndpoints
<1>3. pc' \in Running
  BY DEF Running
<1>4. SchemaServes(db.schema)' <=> SchemaServes(db'.schema)
  BY DEF SchemaServes, current_schema_is_complete, provider_sharing_schema_exists,
         activity_rollout_schema_exists, response_session_schema_exists
<1>5. StageInv'
  BY <1>1, <1>2, <1>4 DEF StageInv, LoopInv
<1> QED  BY <1>1, <1>3, <1>5

\* One list after another.
LEMMA ConcatFacts ==
  ASSUME NEW S, NEW s \in Seq(S), NEW t \in Seq(S)
  PROVE  /\ DOMAIN (s \o t) = 1 .. (Len(s) + Len(t))
         /\ \A i \in 1 .. Len(s) : (s \o t)[i] = s[i]
         /\ \A i \in (Len(s) + 1) .. (Len(s) + Len(t)) : (s \o t)[i] = t[i - Len(s)]
<1>1. /\ DOMAIN (s \o t) = 1 .. (Len(s) + Len(t))
      /\ \A i \in 1 .. Len(s) : (s \o t)[i] = s[i]
  OBVIOUS
<1>2. \A i \in 1 .. Len(t) : (s \o t)[Len(s) + i] = t[i]
  OBVIOUS
<1>3. Len(s) \in Nat /\ Len(t) \in Nat
  OBVIOUS
<1>4. \A i \in (Len(s) + 1) .. (Len(s) + Len(t)) :
         i - Len(s) \in 1 .. Len(t) /\ i = Len(s) + (i - Len(s))
  BY <1>3
<1>5. \A i \in (Len(s) + 1) .. (Len(s) + Len(t)) : (s \o t)[i] = t[i - Len(s)]
  BY <1>2, <1>4
<1> QED  BY <1>1, <1>5

\* The statements that create the schema, and the elements that come together.
LEMMA EmptySchemaFacts ==
  /\ DOMAIN EmptySchema = 1 .. 21
  /\ \A i \in 1 .. 21 : "visibility" \in EmptySchema[i] => "provider_columns" \in EmptySchema[i]
  /\ EmptySchema[1] = {"identities"} /\ EmptySchema[2] = provider_configs
  /\ EmptySchema[3] = {"identity_provider_shares"}
  /\ EmptySchema[4] = {"uq_identity_provider_shares_provider_grantee"}
  /\ EmptySchema[5] = {"identity_endpoint_configs"}
  /\ EmptySchema[6] = {"identity_endpoint_models"}
  /\ EmptySchema[7] = {"identity_endpoint_model_routes"}
  /\ EmptySchema[8] = {"identity_response_sessions", "state_columns"}
  /\ EmptySchema[9] = {"idx_identity_response_sessions_expires_at"}
  /\ EmptySchema[10] = activities
  /\ EmptySchema[12] = activity_rollouts
  /\ EmptySchema[17] = {"memories"} /\ EmptySchema[19] = {"memory_sources"}
<1> DEFINE head == <<{"identities"}, provider_configs, {"identity_provider_shares"},
              {"uq_identity_provider_shares_provider_grantee"},
              {"identity_endpoint_configs"}, {"identity_endpoint_models"},
              {"identity_endpoint_model_routes"},
              response_sessions \ {"idx_identity_response_sessions_expires_at"},
              {"idx_identity_response_sessions_expires_at"},
              activities, {"idx_identity_activities_identity_created_at"}>>
           S == {{"identities"}, provider_configs, {"identity_provider_shares"},
              {"uq_identity_provider_shares_provider_grantee"},
              {"identity_endpoint_configs"}, {"identity_endpoint_models"},
              {"identity_endpoint_model_routes"},
              response_sessions \ {"idx_identity_response_sessions_expires_at"},
              {"idx_identity_response_sessions_expires_at"},
              activities, {"idx_identity_activities_identity_created_at"}}
                \cup {MemorySchema[i] : i \in 1 .. 10}
<1>1. EmptySchema = head \o MemorySchema
  BY DEF EmptySchema
<1>2. /\ head \in Seq(S) /\ Len(head) = 11
      /\ MemorySchema \in Seq(S) /\ Len(MemorySchema) = 10
  <2>1. head \in Seq(S) /\ Len(head) = 11
    OBVIOUS
  <2>2. MemorySchema \in Seq(S) /\ Len(MemorySchema) = 10
    BY DEF MemorySchema
  <2> QED  BY <2>1, <2>2
<1>3. /\ head[1] = {"identities"} /\ head[2] = provider_configs
      /\ head[3] = {"identity_provider_shares"}
      /\ head[4] = {"uq_identity_provider_shares_provider_grantee"}
      /\ head[5] = {"identity_endpoint_configs"}
      /\ head[6] = {"identity_endpoint_models"}
      /\ head[7] = {"identity_endpoint_model_routes"}
      /\ head[8] = {"identity_response_sessions", "state_columns"}
      /\ head[9] = {"idx_identity_response_sessions_expires_at"}
      /\ head[10] = activities
      /\ head[11] = {"idx_identity_activities_identity_created_at"}
  BY DEF response_sessions
<1>4. /\ MemorySchema[1] = activity_rollouts /\ MemorySchema[6] = {"memories"}
      /\ MemorySchema[8] = {"memory_sources"}
  BY DEF MemorySchema
<1>5. \A i \in 1 .. 11 : "visibility" \in head[i] => "provider_columns" \in head[i]
  <2>1. \A i \in 1 .. 11 : i = 2 \/ "visibility" \notin head[i]
    BY DEF response_sessions, activities
  <2>2. "provider_columns" \in head[2]
    BY DEF provider_configs
  <2> QED  BY <2>1, <2>2
<1>6. \A i \in 1 .. 10 : "visibility" \notin MemorySchema[i]
  BY DEF MemorySchema, activity_rollouts
<1> HIDE DEF head, S
<1>a. head \in Seq(S) /\ MemorySchema \in Seq(S)
  BY <1>2
<1>b. /\ DOMAIN EmptySchema = 1 .. (Len(head) + Len(MemorySchema))
      /\ \A i \in 1 .. Len(head) : EmptySchema[i] = head[i]
      /\ \A i \in (Len(head) + 1) .. (Len(head) + Len(MemorySchema)) :
            EmptySchema[i] = MemorySchema[i - Len(head)]
  BY <1>1, <1>a, ConcatFacts
<1>c. Len(head) = 11 /\ Len(MemorySchema) = 10
  BY <1>2
<1>7. DOMAIN EmptySchema = 1 .. 21
  BY <1>b, <1>c
<1>8. \A i \in 1 .. 11 : EmptySchema[i] = head[i]
  BY <1>b, <1>c
<1>9. \A i \in 12 .. 21 : EmptySchema[i] = MemorySchema[i - 11]
  BY <1>b, <1>c
<1>10. /\ EmptySchema[12] = activity_rollouts /\ EmptySchema[17] = {"memories"}
       /\ EmptySchema[19] = {"memory_sources"}
  BY <1>4, <1>9
<1>11. \A i \in 1 .. 21 :
          "visibility" \in EmptySchema[i] => "provider_columns" \in EmptySchema[i]
  <2> SUFFICES ASSUME NEW i \in 1 .. 21, "visibility" \in EmptySchema[i]
               PROVE  "provider_columns" \in EmptySchema[i]
    OBVIOUS
  <2>1. i \in 1 .. 11 \/ i \in 12 .. 21
    OBVIOUS
  <2>2. i \in 12 .. 21 => i - 11 \in 1 .. 10
    OBVIOUS
  <2> QED  BY <1>5, <1>6, <1>8, <1>9, <2>1, <2>2
<1> QED  BY <1>3, <1>7, <1>8, <1>10, <1>11

\* InitializeEmpty: a database without tables is given them one by one.
LEMMA InitializeEmptyStep ==
  ASSUME Inv, InitializeEmpty
  PROVE  Inv'
<1>1. /\ pc = "initialize" /\ pc' = "create" /\ todo' = DOMAIN EmptySchema /\ pending' = {}
      /\ db' = db /\ UNCHANGED <<catalog, document, original, used>>
  BY DEF InitializeEmpty, Goto, Keeps
<1>a. CreateInv'
  <2>1. 1 \in 1 .. 22 /\ todo' = 1 .. 21
    BY <1>1, EmptySchemaFacts
  <2> QED  BY <2>1 DEF CreateInv
<1>2. StageInv' /\ pc' \in Running \ FromV2
  BY <1>1, <1>a, EarlyStage
<1>3. Upgraded(db, db')
  BY <1>1, UpgradedReflexive DEF Inv
<1>4. pc \in Running
  BY <1>1 DEF Running
<1> QED  BY <1>1, <1>2, <1>3, <1>4, EarlyStep

\* CreateNext: the next tables are created; those before them exist.
LEMMA CreateNextStep ==
  ASSUME Inv, CreateNext
  PROVE  Inv'
<1> DEFINE i == Min(todo)
<1>1. /\ pc = "create" /\ pc' = "create" /\ todo # {} /\ todo' = todo \ {i} /\ pending' = {}
      /\ db' = WithSchema(db, EmptySchema[i], {})
      /\ UNCHANGED <<catalog, document, original, used>>
  BY DEF CreateNext, Goto, Keeps
<1>2. CreateInv
  BY <1>1 DEF Inv, StageInv
<1>3. PICK k \in 1 .. 22 : todo = k .. 21
  BY <1>2 DEF CreateInv
<1>4. k \in 1 .. 21 /\ i = k
  <2>1. k \in 1 .. 21
    BY <1>1, <1>3
  <2>2. k \in todo /\ \A y \in todo : k =< y
    BY <1>3, <2>1
  <2>3. \A x \in todo : (\A y \in todo : x =< y) => x = k
    BY <1>3, <2>1, <2>2
  <2>4. i \in todo /\ \A y \in todo : i =< y
    BY <2>2 DEF Min
  <2> QED  BY <2>1, <2>3, <2>4
<1> HIDE DEF i
<1>5. todo' = (k + 1) .. 21 /\ k + 1 \in 1 .. 22
  BY <1>1, <1>3, <1>4
<1>6. IsDatabase(db)
  BY DEF Inv
<1>7. Upgraded(db, db')
  <2>1. "visibility" \in EmptySchema[i] => "provider_columns" \in db.schema \cup EmptySchema[i]
    BY <1>4, EmptySchemaFacts
  <2> QED  BY <1>1, <1>6, <2>1, WithSchemaUpgraded
<1>8. db'.schema = db.schema \cup EmptySchema[i]
  BY <1>1, <1>6, WithSchemaFacts
<1>9. CreateInv'
  <2>1. ASSUME NEW j \in 1 .. 21 \ todo'
        PROVE  EmptySchema[j] \subseteq db'.schema
    <3>1. j \notin todo \/ j = i
      BY <1>1
    <3> QED  BY <1>2, <1>8, <3>1 DEF CreateInv
  <2> QED  BY <1>5, <2>1 DEF CreateInv, EmptySchema, MemorySchema
<1>10. StageInv' /\ pc' \in Running \ FromV2
  BY <1>1, <1>9, EarlyStage
<1>11. pc \in Running
  BY <1>1 DEF Running
<1> QED  BY <1>1, <1>7, <1>10, <1>11, EarlyStep

\* All the statements executed make a schema to serve with.
LEMMA CreatedServes ==
  ASSUME NEW schema, \A i \in 1 .. 21 : EmptySchema[i] \subseteq schema
  PROVE  SchemaServes((schema \cup activity_rollouts \cup ROLLOUT_INDEXES)
                         \ {"uq_activity_rollouts_path", "activity_contents"})
<1> DEFINE all == (schema \cup activity_rollouts \cup ROLLOUT_INDEXES)
                     \ {"uq_activity_rollouts_path", "activity_contents"}
<1>1. /\ {"identities"} \subseteq schema /\ provider_configs \subseteq schema
      /\ {"identity_provider_shares"} \subseteq schema
      /\ {"uq_identity_provider_shares_provider_grantee"} \subseteq schema
      /\ {"identity_endpoint_configs"} \subseteq schema
      /\ {"identity_endpoint_models"} \subseteq schema
      /\ {"identity_endpoint_model_routes"} \subseteq schema
      /\ {"identity_response_sessions", "state_columns"} \subseteq schema
      /\ {"idx_identity_response_sessions_expires_at"} \subseteq schema
      /\ activities \subseteq schema
      /\ {"memories"} \subseteq schema /\ {"memory_sources"} \subseteq schema
  <2> USE EmptySchemaFacts
  <2>1. EmptySchema[1] \subseteq schema /\ EmptySchema[2] \subseteq schema  OBVIOUS
  <2>2. EmptySchema[3] \subseteq schema /\ EmptySchema[4] \subseteq schema  OBVIOUS
  <2>3. EmptySchema[5] \subseteq schema /\ EmptySchema[6] \subseteq schema  OBVIOUS
  <2>4. EmptySchema[7] \subseteq schema /\ EmptySchema[8] \subseteq schema  OBVIOUS
  <2>5. EmptySchema[9] \subseteq schema /\ EmptySchema[10] \subseteq schema  OBVIOUS
  <2>6. EmptySchema[17] \subseteq schema /\ EmptySchema[19] \subseteq schema  OBVIOUS
  <2> QED  BY <2>1, <2>2, <2>3, <2>4, <2>5, <2>6
<1>2. BASE_TABLES \cup MEMORY_TABLES \cup {"identity_activities"} \subseteq all
  BY <1>1 DEF BASE_TABLES, MEMORY_TABLES, provider_configs, activities, activity_rollouts
<1>3. provider_sharing_schema_exists(all)
  BY <1>1 DEF provider_sharing_schema_exists, provider_shares, provider_configs
<1>4. activity_rollout_schema_exists(all)
  BY DEF activity_rollout_schema_exists, ROLLOUT_INDEXES, activity_rollouts
<1>5. response_session_schema_exists(all)
  BY <1>1 DEF response_session_schema_exists, response_sessions
<1>6. activities \cup provider_configs \subseteq all
  BY <1>1 DEF activities, provider_configs
<1> QED  BY <1>2, <1>3, <1>4, <1>5, <1>6 DEF SchemaServes, current_schema_is_complete

\* ApplyActivityRollout, in a transaction of its own.
LEMMA ApplyActivityRolloutStep ==
  ASSUME Inv, ApplyActivityRollout
  PROVE  Inv'
<1>1. /\ pc = "create" /\ pc' = "removal" /\ todo = {} /\ todo' = {} /\ pending' = {}
      /\ db' = activity_rollout(db)
      /\ UNCHANGED <<catalog, document, original, used>>
  BY DEF ApplyActivityRollout, Goto, Keeps
<1>2. /\ Upgraded(db, db')
      /\ db'.schema = (db.schema \cup activity_rollouts \cup ROLLOUT_INDEXES)
                         \ {"uq_activity_rollouts_path", "activity_contents"}
      /\ "activity_rollout_v2" \in db'.versions
  BY <1>1, ActivityRollout DEF Inv
<1>3. \A i \in 1 .. 21 : EmptySchema[i] \subseteq db.schema
  BY <1>1 DEF Inv, StageInv, CreateInv
<1>4. SchemaServes(db'.schema)
  BY <1>2, <1>3, CreatedServes
<1>5. StageInv' /\ pc' \in Running \ FromV2
  BY <1>1, <1>2, <1>4, EarlyStage
<1>6. pc \in Running
  BY <1>1 DEF Running
<1> QED  BY <1>1, <1>2, <1>5, <1>6, EarlyStep

\* ApplyAnthropicRemoval, in a transaction of its own.
LEMMA ApplyAnthropicRemovalStep ==
  ASSUME Inv, ApplyAnthropicRemoval
  PROVE  Inv'
<1>1. /\ pc = "removal" /\ pc' = "catalog_v1" /\ pending' = {}
      /\ db' = anthropic_removal(db)
      /\ UNCHANGED <<catalog, document, original, used>>
  BY DEF ApplyAnthropicRemoval, Goto, Keeps
<1>2. /\ Upgraded(db, db') /\ db'.schema = db.schema
      /\ db'.versions = db.versions \cup {"anthropic_removal_v1"}
  BY <1>1, AnthropicRemoval DEF Inv
<1>3. SchemaServes(db.schema) /\ "activity_rollout_v2" \in db.versions
  BY <1>1 DEF Inv, StageInv
<1>4. StageInv' /\ pc' \in Running \ FromV2
  BY <1>1, <1>2, <1>3, EarlyStage
<1>5. pc \in Running
  BY <1>1 DEF Running
<1> QED  BY <1>1, <1>2, <1>4, <1>5, EarlyStep

\* Upgrade: all migrations of the schema commit together, or none does.
LEMMA UpgradeStep ==
  ASSUME Inv, Upgrade
  PROVE  Inv'
<1>1. CASE Refuse
  BY <1>1, EndStep DEF Upgrade, Refuse, Goto, Keeps, Running, Ended
<1>2. CASE /\ current_schema_is_complete(migrated(db).schema)
           /\ db' = migrated(db) /\ Goto("catalog_v1", {})
  <2>1. /\ pc = "initialize" /\ pc' = "catalog_v1" /\ pending' = {}
        /\ UNCHANGED <<catalog, document, original, used>>
    BY <1>2 DEF Upgrade, Goto, Keeps
  <2>2. /\ Upgraded(db, db')
        /\ {"activity_rollout_v2", "anthropic_removal_v1"} \subseteq db'.versions
        /\ SchemaServes(db'.schema)
    BY <1>2, Migrated DEF Inv
  <2>3. StageInv' /\ pc' \in Running \ FromV2
    BY <2>1, <2>2, EarlyStage
  <2>4. pc \in Running
    BY <2>1 DEF Running
  <2> QED  BY <2>1, <2>2, <2>3, <2>4, EarlyStep
<1> QED  BY <1>1, <1>2 DEF Upgrade

-----------------------------------------------------------------------------
(* The steps that fit the rows to the catalog.                               *)

\* The stages, listed.
LEMMA Stages ==
  /\ FromV1 = {"catalog_v1", "catalog_v2", "backfill", "models", "urls", "endpoints", "up"}
  /\ FromV2 = {"catalog_v2", "backfill", "models", "urls", "endpoints", "up"}
  /\ FromBackfill = {"backfill", "models", "urls", "endpoints", "up"}
  /\ FromModels = {"models", "urls", "endpoints", "up"}
  /\ FromUrls = {"urls", "endpoints", "up"}
  /\ FromEndpoints = {"endpoints", "up"}
BY DEF FromV1, FromV2, FromBackfill, FromModels, FromUrls, FromEndpoints

\* A step of a running start from the migrations to the catalog on.
LEMMA LateStep ==
  ASSUME Inv, pc \in Running \cap FromV1, pc' \in FromV2, pc' = "up" => todo' = {},
         pending' \subseteq todo', PendingInv', Fitted(db, db'),
         UNCHANGED <<catalog, document, original, used>>,
         "provider_catalog_v1" \in db'.versions,
         pc' \in FromBackfill => "provider_model_catalog_v2" \in db'.versions,
         LoopInv', UnmappableInv'
  PROVE  Inv'
<1>1. /\ SchemaServes(db.schema)
      /\ {"activity_rollout_v2", "anthropic_removal_v1"} \subseteq db.versions
  BY DEF Inv, StageInv
<1>2. /\ IsDatabase(db') /\ RoutesSafe(db, db') /\ SchemaServes(db'.schema)
      /\ {"activity_rollout_v2", "anthropic_removal_v1"} \subseteq db'.versions
  BY <1>1 DEF Fitted
<1>3. IsDatabase(db)'
  BY <1>2 DEF IsDatabase, ForeignKeys
<1>4. SchemaServes(db.schema)'
  BY <1>2 DEF SchemaServes, current_schema_is_complete, provider_sharing_schema_exists,
         activity_rollout_schema_exists, response_session_schema_exists
<1>5. pc' # "create" /\ pc' # "removal" /\ pc' \in Running \cup {"up"}
  BY Stages DEF Running
<1>6. StageInv'
  BY <1>2, <1>4, <1>5 DEF StageInv
<1> QED  BY <1>2, <1>3, <1>5, <1>6, RunningStep

\* A database is fitted as it is.
LEMMA FittedReflexive ==
  ASSUME NEW d, IsDatabase(d)
  PROVE  Fitted(d, d)
BY DEF Fitted, RoutesSafe

\* ApplyLegacyMigration: applied once, and only when every type has a successor.
LEMMA ApplyLegacyMigrationStep ==
  ASSUME Inv, ApplyLegacyMigration
  PROVE  Inv'
<1>1. CASE Refuse
  BY <1>1, EndStep DEF ApplyLegacyMigration, Refuse, Goto, Keeps, Running, Ended
<1>2. CASE /\ Goto("catalog_v2", {})
           /\ \/ "provider_catalog_v1" \in db.versions /\ UNCHANGED db
              \/ /\ "provider_catalog_v1" \notin db.versions
                 /\ targets_are_known(db, catalog)
                 /\ db' = legacy_migration(db, catalog)
  <2>1. /\ pc = "catalog_v1" /\ pc' = "catalog_v2" /\ todo' = {} /\ pending' = {}
        /\ UNCHANGED <<catalog, document, original, used>>
    BY <1>2 DEF ApplyLegacyMigration, Goto, Keeps
  <2>2. Fitted(db, db') /\ "provider_catalog_v1" \in db'.versions
    BY <1>2, LegacyMigration, FittedReflexive DEF Inv
  <2>3. ~Unmappable
    <3> SUFFICES ASSUME Unmappable
                 PROVE  FALSE
      OBVIOUS
    <3>1. /\ "provider_catalog_v1" \notin db.versions
          /\ KeptProviders(original) \subseteq KeptProviders(db)
          /\ \A p \in KeptProviders(original) :
                target_provider_id(db.providers[p].type)
                   = target_provider_id(original.providers[p].type)
      BY DEF Inv, UnmappableInv
    <3>2. PICK p \in KeptProviders(original) :
              target_provider_id(original.providers[p].type) = NoTarget
      BY DEF Unmappable
    <3>3. p \in DOMAIN db.providers
      BY <3>1 DEF KeptProviders
    <3>4. has_provider(catalog, NoTarget)
      BY <1>2, <3>1, <3>2, <3>3 DEF targets_are_known
    <3>5. catalog.loaded
      BY <2>1 DEF Inv, CatalogInv, Running
    <3>6. document \in DOMAIN Documents /\ catalog = load(Documents[document])
      BY <3>5 DEF Inv, CatalogInv, NoCatalog
    <3> QED  BY <3>4, <3>5, <3>6, LoadedIsWhatWasWritten
  <2>4. UnmappableInv'
    BY <2>1, <2>3 DEF UnmappableInv, Unmappable, KeptProviders, target_provider_id
  <2>5. PendingInv'
    BY <2>1 DEF PendingInv
  <2>6. LoopInv' /\ pc \in Running \cap FromV1 /\ pc' \in FromV2 /\ pc' \notin FromBackfill
    BY <2>1, Stages DEF LoopInv, Running
  <2> QED  BY <2>1, <2>2, <2>4, <2>5, <2>6, LateStep
<1> QED  BY <1>1, <1>2 DEF ApplyLegacyMigration

\* ApplyModelSourceMigration: so is this one.
LEMMA ApplyModelSourceMigrationStep ==
  ASSUME Inv, ApplyModelSourceMigration
  PROVE  Inv'
<1>1. CASE Refuse
  BY <1>1, EndStep DEF ApplyModelSourceMigration, Refuse, Goto, Keeps, Running, Ended
<1>2. CASE /\ Goto("backfill", {})
           /\ \/ "provider_model_catalog_v2" \in db.versions /\ UNCHANGED db
              \/ db' = model_source_migration(db, catalog)
  <2>1. /\ pc = "catalog_v2" /\ pc' = "backfill" /\ todo' = {} /\ pending' = {}
        /\ UNCHANGED <<catalog, document, original, used>>
    BY <1>2 DEF ApplyModelSourceMigration, Goto, Keeps
  <2>2. Fitted(db, db') /\ "provider_model_catalog_v2" \in db'.versions
    BY <1>2, ModelSourceMigration, FittedReflexive DEF Inv
  <2>3. "provider_catalog_v1" \in db'.versions
    BY <2>1, <2>2, Stages DEF Inv, StageInv, Fitted
  <2>4. UnmappableInv'
    BY <2>1, Stages, PastUnmappable DEF Inv
  <2>5. PendingInv'
    BY <2>1 DEF PendingInv
  <2>6. LoopInv' /\ pc \in Running \cap FromV1 /\ pc' \in FromV2
    BY <2>1, Stages DEF LoopInv, Running
  <2> QED  BY <2>1, <2>2, <2>3, <2>4, <2>5, <2>6, LateStep
<1> QED  BY <1>1, <1>2 DEF ApplyModelSourceMigration

\* A step of one of the loops.
LEMMA LoopStep ==
  ASSUME Inv, pc \in Running \cap FromBackfill, pc' \in FromBackfill, pc' = "up" => todo' = {},
         pending' \subseteq todo', PendingInv', Fitted(db, db'),
         UNCHANGED <<catalog, document, original, used>>, LoopInv'
  PROVE  Inv'
<1>1. {"provider_catalog_v1", "provider_model_catalog_v2"} \subseteq db'.versions
  BY Stages DEF Inv, StageInv, Fitted
<1>2. UnmappableInv'
  BY Stages, PastUnmappable DEF Inv
<1>3. pc \in Running \cap FromV1 /\ pc' \in FromV2
  BY Stages
<1> QED  BY <1>1, <1>2, <1>3, LateStep

\* BackfillActivityProviderTypes: activities learn the type of their provider.
LEMMA BackfillStep ==
  ASSUME Inv, BackfillActivityProviderTypes
  PROVE  Inv'
<1> DEFINE Row(a) ==
             IF db.activities[a].type = {} /\ db.activities[a].provider \in DOMAIN db.providers
             THEN [db.activities[a] EXCEPT
                      !.type = {db.providers[db.activities[a].provider].type}]
             ELSE db.activities[a]
<1>1. /\ pc = "backfill" /\ pc' = "models" /\ todo' = DOMAIN db.providers /\ pending' = {}
      /\ UNCHANGED <<catalog, document, original, used>>
  BY DEF BackfillActivityProviderTypes, Goto, Keeps
<1>2. db' = [db EXCEPT !.activities = [a \in DOMAIN db.activities |-> Row(a)]]
  BY DEF BackfillActivityProviderTypes
<1>3. IsDatabase(db)
  BY DEF Inv
<1> HIDE DEF Row
<1>4. /\ DOMAIN db' = DOMAIN db /\ db'.schema = db.schema /\ db'.versions = db.versions
      /\ db'.providers = db.providers /\ db'.mappings = db.mappings
      /\ db'.routes = db.routes /\ db'.shares = db.shares /\ db'.rollouts = db.rollouts
      /\ db'.activities = [a \in DOMAIN db.activities |-> Row(a)]
  BY <1>2, <1>3 DEF IsDatabase
<1>5. ASSUME NEW a \in DOMAIN db.activities
      PROVE  /\ DOMAIN Row(a) = {"provider", "type", "anthropic"}
             /\ Row(a).provider = db.activities[a].provider
             /\ Row(a).type = {} => db.activities[a].provider \notin DOMAIN db.providers
  <2>1. DOMAIN db.activities[a] = {"provider", "type", "anthropic"}
    BY <1>3 DEF IsDatabase
  <2> QED  BY <2>1 DEF Row
<1>6. RoutesSafe(db, db')
  BY <1>4 DEF RoutesSafe, Mapped
<1>7. /\ db.versions \subseteq Versions
      /\ \A p \in DOMAIN db.providers :
            /\ DOMAIN db.providers[p] = {"type", "models", "disabled", "capabilities"}
            /\ DOMAIN db.providers[p].capabilities = {"override", "anthropic", "urls"}
  BY <1>3 DEF IsDatabase
<1>8. IsDatabase(db')
  BY <1>3, <1>4, <1>5, <1>6, <1>7, DatabaseKept
<1>9. Fitted(db, db')
  BY <1>4, <1>6, <1>8 DEF Fitted
<1>10. PendingInv'
  BY <1>1 DEF PendingInv
<1>11. LoopInv'
  <2>1. \A a \in DOMAIN db'.activities : Typed(a)'
    BY <1>4, <1>5 DEF Typed
  <2>2. pc' \notin FromUrls /\ pc' \notin FromEndpoints
    BY <1>1, Stages
  <2> QED  BY <1>1, <1>4, <2>1, <2>2 DEF LoopInv
<1>12. pc \in Running \cap FromBackfill /\ pc' \in FromBackfill
  BY <1>1, Stages DEF Running
<1> QED  BY <1>1, <1>9, <1>10, <1>11, <1>12, LoopStep

\* A change of the providers that leaves everything else of the database.
LEMMA ProvidersChanged ==
  ASSUME NEW d, IsDatabase(d), NEW e, DOMAIN e = DOMAIN d,
         e.schema = d.schema \/ e.schema = d.schema \ {"disabled_models_json"},
         e.versions = d.versions, e.mappings = d.mappings, e.routes = d.routes,
         e.shares = d.shares, e.rollouts = d.rollouts, e.activities = d.activities,
         DOMAIN e.providers = DOMAIN d.providers, Accounts(e.providers)
  PROVE  Fitted(d, e)
<1>1. RoutesSafe(d, e)
  BY DEF RoutesSafe, Mapped
<1>2. /\ d.versions \subseteq Versions
      /\ \A a \in DOMAIN d.activities :
            DOMAIN d.activities[a] = {"provider", "type", "anthropic"}
  BY DEF IsDatabase
<1>3. \A p \in DOMAIN d.providers :
            /\ DOMAIN e.providers[p] = {"type", "models", "disabled", "capabilities"}
            /\ DOMAIN e.providers[p].capabilities = {"override", "anthropic", "urls"}
  BY DEF Accounts
<1>4. IsDatabase(e)
  BY <1>1, <1>2, <1>3, DatabaseKept
<1>5. SchemaServes(d.schema) => SchemaServes(e.schema)
  BY ServesWithout
<1> QED  BY <1>1, <1>4, <1>5 DEF Fitted

\* MigrateProviderModels: a provider without a model list gets the catalog's.
LEMMA MigrateProviderModelsStep ==
  ASSUME Inv, NEW p \in DOMAIN db.providers, MigrateProviderModels(p)
  PROVE  Inv'
<1> DEFINE row == db.providers[p]
           written == row.models = {} /\ has_provider(catalog, row.type)
           list == catalog_models(catalog, row.type) \ row.disabled
<1>1. /\ pc = "models" /\ pc' = "models" /\ p \in todo /\ todo' = todo \ {p} /\ pending' = {}
      /\ UNCHANGED <<catalog, document, original, used>>
  BY DEF MigrateProviderModels, Goto, Keeps
<1>2. db' = IF written THEN [db EXCEPT !.providers[p].models = {list}] ELSE db
  BY DEF MigrateProviderModels
<1>3. IsDatabase(db)
  BY DEF Inv
<1> HIDE DEF list
<1>4. /\ DOMAIN db' = DOMAIN db /\ db'.schema = db.schema /\ db'.versions = db.versions
      /\ db'.mappings = db.mappings /\ db'.routes = db.routes /\ db'.shares = db.shares
      /\ db'.rollouts = db.rollouts /\ db'.activities = db.activities
  BY <1>2, <1>3 DEF IsDatabase
<1>5. db'.providers = IF written
                      THEN [db.providers EXCEPT ![p] = [db.providers[p] EXCEPT !.models = {list}]]
                      ELSE db.providers
  BY <1>2, <1>3 DEF IsDatabase
<1>6. DOMAIN row = {"type", "models", "disabled", "capabilities"}
  BY <1>3 DEF IsDatabase
<1>7. /\ DOMAIN db'.providers = DOMAIN db.providers
      /\ \A q \in DOMAIN db.providers :
            /\ q # p => db'.providers[q] = db.providers[q]
            /\ DOMAIN db'.providers[q] = DOMAIN db.providers[q]
            /\ db'.providers[q].capabilities = db.providers[q].capabilities
            /\ db'.providers[q].type = db.providers[q].type
      /\ has_provider(catalog, row.type) => db'.providers[p].models # {}
  BY <1>5, <1>6
<1>8. Accounts(db'.providers)
  BY <1>3, <1>7 DEF Accounts, IsDatabase
<1>9. Fitted(db, db')
  BY <1>3, <1>4, <1>7, <1>8, ProvidersChanged
<1>10. PendingInv'
  BY <1>1 DEF PendingInv
<1>11. LoopInv'
  <2>1. /\ \A a \in DOMAIN db.activities : Typed(a)
        /\ \A q \in DOMAIN db.providers \ todo : HasModels(q)
    BY <1>1, Stages DEF Inv, StageInv, LoopInv
  <2>2. \A a \in DOMAIN db'.activities : Typed(a)'
    BY <1>4, <1>7, <2>1 DEF Typed
  <2>3. ASSUME NEW q \in DOMAIN db'.providers \ todo'
        PROVE  HasModels(q)'
    <3>1. CASE q = p
      BY <1>1, <1>7, <3>1 DEF HasModels, has_provider
    <3>2. CASE q # p
      BY <1>1, <1>7, <2>1, <3>2 DEF HasModels, has_provider
    <3> QED  BY <3>1, <3>2
  <2>4. pc' \notin FromUrls /\ pc' \notin FromEndpoints
    BY <1>1, Stages
  <2> QED  BY <1>1, <2>2, <2>3, <2>4 DEF LoopInv
<1>12. pc \in Running \cap FromBackfill /\ pc' \in FromBackfill
  BY <1>1, Stages DEF Running
<1> QED  BY <1>1, <1>9, <1>10, <1>11, <1>12, LoopStep

\* DropDisabledModels: the column goes after every list has been written.
LEMMA DropDisabledModelsStep ==
  ASSUME Inv, DropDisabledModels
  PROVE  Inv'
<1> DEFINE d == WithSchema(db, {}, {"disabled_models_json"})
<1>1. /\ pc = "models" /\ pc' = "urls" /\ todo = {} /\ todo' = DOMAIN db.providers
      /\ pending' = {} /\ UNCHANGED <<catalog, document, original, used>>
  BY DEF DropDisabledModels, Goto, Keeps
<1>2. db' = [d EXCEPT !.providers = [p \in DOMAIN d.providers |->
                                       [d.providers[p] EXCEPT !.disabled = {}]]]
  BY DEF DropDisabledModels
<1>3. IsDatabase(db)
  BY DEF Inv
<1>4. /\ DOMAIN d = DOMAIN db /\ d.schema = db.schema \ {"disabled_models_json"}
      /\ d.versions = db.versions /\ d.providers = db.providers
      /\ d.mappings = db.mappings /\ d.routes = db.routes /\ d.shares = db.shares
      /\ d.rollouts = db.rollouts /\ d.activities = db.activities
  BY <1>3, WithSchemaFacts
<1> HIDE DEF d
<1>5. /\ DOMAIN db' = DOMAIN db /\ db'.schema = db.schema \ {"disabled_models_json"}
      /\ db'.versions = db.versions /\ db'.mappings = db.mappings /\ db'.routes = db.routes
      /\ db'.shares = db.shares /\ db'.rollouts = db.rollouts
      /\ db'.activities = db.activities
      /\ db'.providers = [p \in DOMAIN db.providers |->
                             [db.providers[p] EXCEPT !.disabled = {}]]
  BY <1>2, <1>3, <1>4 DEF IsDatabase
<1>6. /\ DOMAIN db'.providers = DOMAIN db.providers
      /\ \A p \in DOMAIN db.providers :
            /\ DOMAIN db'.providers[p] = DOMAIN db.providers[p]
            /\ db'.providers[p].capabilities = db.providers[p].capabilities
            /\ db'.providers[p].type = db.providers[p].type
            /\ db'.providers[p].models = db.providers[p].models
  BY <1>3, <1>5 DEF IsDatabase
<1>7. Accounts(db'.providers)
  BY <1>3, <1>6 DEF Accounts, IsDatabase
<1>8. Fitted(db, db')
  BY <1>3, <1>5, <1>6, <1>7, ProvidersChanged
<1>9. PendingInv'
  BY <1>1 DEF PendingInv
<1>10. LoopInv'
  <2>1. /\ \A a \in DOMAIN db.activities : Typed(a)
        /\ \A q \in DOMAIN db.providers : HasModels(q)
    BY <1>1, Stages DEF Inv, StageInv, LoopInv
  <2>2. \A a \in DOMAIN db'.activities : Typed(a)'
    BY <1>5, <1>6, <2>1 DEF Typed
  <2>3. \A q \in DOMAIN db'.providers : HasModels(q)'
    BY <1>1, <1>6, <2>1 DEF HasModels, has_provider
  <2>4. pc' \notin FromEndpoints
    BY <1>1, Stages
  <2> QED  BY <1>1, <1>6, <2>2, <2>3, <2>4 DEF LoopInv
<1>11. pc \in Running \cap FromBackfill /\ pc' \in FromBackfill
  BY <1>1, Stages DEF Running
<1> QED  BY <1>1, <1>8, <1>9, <1>10, <1>11, LoopStep

\* ReconcileProtocolBaseUrls: one provider gets the addresses of the catalog.
LEMMA ReconcileProtocolBaseUrlsStep ==
  ASSUME Inv, NEW p \in DOMAIN db.providers, ReconcileProtocolBaseUrls(p)
  PROVE  Inv'
<1> DEFINE row == db.providers[p]
           known == has_provider(catalog, row.type)
           base == catalog.providers[row.type].protocol_base_urls
           urls == Overlay(base, row.capabilities.urls)
           caps == [row.capabilities EXCEPT !.urls = urls]
<1>1. /\ pc = "urls" /\ pc' = "urls" /\ p \in todo /\ todo' = todo \ {p} /\ pending' = {}
      /\ UNCHANGED <<catalog, document, original, used>>
  BY DEF ReconcileProtocolBaseUrls, Goto, Keeps
<1>2. db' = IF known THEN [db EXCEPT !.providers[p].capabilities.urls = urls] ELSE db
  BY DEF ReconcileProtocolBaseUrls
<1>3. IsDatabase(db)
  BY DEF Inv
<1>a. \A protocol \in DOMAIN base : urls[protocol] = base[protocol]
  BY DEF Overlay
<1> HIDE DEF urls, base
<1>4. /\ DOMAIN db' = DOMAIN db /\ db'.schema = db.schema /\ db'.versions = db.versions
      /\ db'.mappings = db.mappings /\ db'.routes = db.routes /\ db'.shares = db.shares
      /\ db'.rollouts = db.rollouts /\ db'.activities = db.activities
  BY <1>2, <1>3 DEF IsDatabase
<1>5. db'.providers = IF known
                      THEN [db.providers EXCEPT ![p] = [row EXCEPT !.capabilities = caps]]
                      ELSE db.providers
  BY <1>2, <1>3 DEF IsDatabase
<1>6. /\ DOMAIN row = {"type", "models", "disabled", "capabilities"}
      /\ DOMAIN row.capabilities = {"override", "anthropic", "urls"}
  BY <1>3 DEF IsDatabase
<1>b. DOMAIN caps = DOMAIN row.capabilities /\ caps.urls = urls
  BY <1>6
<1> HIDE DEF caps
<1>7. /\ DOMAIN db'.providers = DOMAIN db.providers
      /\ \A q \in DOMAIN db.providers :
            /\ q # p => db'.providers[q] = db.providers[q]
            /\ DOMAIN db'.providers[q] = DOMAIN db.providers[q]
            /\ DOMAIN db'.providers[q].capabilities = DOMAIN db.providers[q].capabilities
            /\ db'.providers[q].models = db.providers[q].models
            /\ db'.providers[q].type = db.providers[q].type
      /\ known => db'.providers[p].capabilities.urls = urls
  BY <1>5, <1>6, <1>b
<1>8. Accounts(db'.providers)
  BY <1>3, <1>7 DEF Accounts, IsDatabase
<1>9. Fitted(db, db')
  BY <1>3, <1>4, <1>7, <1>8, ProvidersChanged
<1>10. PendingInv'
  BY <1>1 DEF PendingInv
<1>11. LoopInv'
  <2>1. /\ \A a \in DOMAIN db.activities : Typed(a)
        /\ \A q \in DOMAIN db.providers : HasModels(q)
        /\ \A q \in DOMAIN db.providers \ todo : HasUrls(q)
    BY <1>1, Stages DEF Inv, StageInv, LoopInv
  <2>2. \A a \in DOMAIN db'.activities : Typed(a)'
    BY <1>4, <1>7, <2>1 DEF Typed
  <2>3. \A q \in DOMAIN db'.providers : HasModels(q)'
    BY <1>1, <1>7, <2>1 DEF HasModels, has_provider
  <2>4. ASSUME NEW q \in DOMAIN db'.providers \ todo'
        PROVE  HasUrls(q)'
    <3>1. CASE q = p
      BY <1>1, <1>7, <1>a, <3>1 DEF HasUrls, has_provider, base
    <3>2. CASE q # p
      BY <1>1, <1>7, <2>1, <3>2 DEF HasUrls, has_provider
    <3> QED  BY <3>1, <3>2
  <2>5. pc' \notin FromEndpoints
    BY <1>1, Stages
  <2> QED  BY <1>1, <2>2, <2>3, <2>4, <2>5 DEF LoopInv
<1>12. pc \in Running \cap FromBackfill /\ pc' \in FromBackfill
  BY <1>1, Stages DEF Running
<1> QED  BY <1>1, <1>9, <1>10, <1>11, <1>12, LoopStep

\* A change of the mappings and routes that leaves everything else.
LEMMA MappingsChanged ==
  ASSUME NEW d, IsDatabase(d), NEW e, DOMAIN e = DOMAIN d,
         e.schema = d.schema, e.versions = d.versions, e.providers = d.providers,
         e.shares = d.shares, e.rollouts = d.rollouts, e.activities = d.activities,
         DOMAIN e.mappings \subseteq DOMAIN d.mappings, RoutesSafe(d, e)
  PROVE  Fitted(d, e)
<1>1. /\ d.versions \subseteq Versions
      /\ \A a \in DOMAIN d.activities :
            DOMAIN d.activities[a] = {"provider", "type", "anthropic"}
      /\ \A p \in DOMAIN d.providers :
            /\ DOMAIN d.providers[p] = {"type", "models", "disabled", "capabilities"}
            /\ DOMAIN d.providers[p].capabilities = {"override", "anthropic", "urls"}
  BY DEF IsDatabase
<1>2. IsDatabase(e)
  BY <1>1, DatabaseKept
<1> QED  BY <1>2 DEF Fitted

\* What the last loop needs when it changes mappings and routes only.
LEMMA EndpointsLoop ==
  ASSUME Inv, pc = "endpoints", pc' \in FromEndpoints,
         db'.providers = db.providers, db'.activities = db.activities,
         UNCHANGED catalog,
         \A row \in DOMAIN db'.mappings \ todo' : Aligned(row)'
  PROVE  LoopInv'
<1>1. /\ \A a \in DOMAIN db.activities : Typed(a)
      /\ \A q \in DOMAIN db.providers : HasModels(q) /\ HasUrls(q)
  BY Stages DEF Inv, StageInv, LoopInv
<1>2. \A a \in DOMAIN db'.activities : Typed(a)'
  BY <1>1 DEF Typed
<1>3. \A q \in DOMAIN db'.providers : HasModels(q)' /\ HasUrls(q)'
  BY <1>1 DEF HasModels, HasUrls, has_provider
<1>4. pc' # "models" /\ pc' # "urls"
  BY Stages
<1> QED  BY <1>2, <1>3, <1>4 DEF LoopInv

\* BeginEndpointModels: the mappings are read, to be checked one by one.
LEMMA BeginEndpointModelsStep ==
  ASSUME Inv, BeginEndpointModels
  PROVE  Inv'
<1>1. /\ pc = "urls" /\ pc' = "endpoints" /\ todo = {} /\ todo' = DOMAIN db.mappings
      /\ pending' = {} /\ db' = db /\ UNCHANGED <<catalog, document, original, used>>
  BY DEF BeginEndpointModels, Goto, Keeps
<1>2. Fitted(db, db')
  BY <1>1, FittedReflexive DEF Inv
<1>3. PendingInv'
  BY <1>1 DEF PendingInv
<1>4. LoopInv'
  <2>1. /\ \A a \in DOMAIN db.activities : Typed(a)
        /\ \A q \in DOMAIN db.providers : HasModels(q)
        /\ \A q \in DOMAIN db.providers : HasUrls(q)
    BY <1>1, Stages DEF Inv, StageInv, LoopInv
  <2>2. \A a \in DOMAIN db'.activities : Typed(a)'
    BY <1>1, <2>1 DEF Typed
  <2>3. \A q \in DOMAIN db'.providers : HasModels(q)' /\ HasUrls(q)'
    BY <1>1, <2>1 DEF HasModels, HasUrls, has_provider
  <2> QED  BY <1>1, <2>2, <2>3 DEF LoopInv
<1>5. pc \in Running \cap FromBackfill /\ pc' \in FromBackfill
  BY <1>1, Stages DEF Running
<1> QED  BY <1>1, <1>2, <1>3, <1>4, <1>5, LoopStep

\* DeleteRoute: the route of a mapping goes before the mapping itself.
LEMMA DeleteRouteStep ==
  ASSUME Inv, NEW row \in DOMAIN db.mappings, DeleteRoute(row)
  PROVE  Inv'
<1>1. /\ pc = "endpoints" /\ pc' = pc /\ row \in todo /\ todo' = todo /\ pending' = {row}
      /\ db' = route_deleted(db, row) /\ UNCHANGED <<catalog, document, original, used>>
  BY DEF DeleteRoute, Keeps
<1>2. IsDatabase(db)
  BY DEF Inv
<1>3. /\ DOMAIN db' = DOMAIN db /\ db'.schema = db.schema /\ db'.versions = db.versions
      /\ db'.providers = db.providers /\ db'.mappings = db.mappings
      /\ db'.shares = db.shares /\ db'.rollouts = db.rollouts /\ db'.activities = db.activities
      /\ db'.routes = [m \in {m \in DOMAIN db.routes : <<db.routes[m], m>> # row} |->
                          db.routes[m]]
  BY <1>1, <1>2 DEF route_deleted, RestrictDomain, Restrict, IsDatabase
<1>4. RoutesSafe(db, db')
  BY <1>3 DEF RoutesSafe, Mapped
<1>5. Fitted(db, db')
  BY <1>2, <1>3, <1>4, MappingsChanged
<1>6. PendingInv'
  BY <1>1, <1>3 DEF PendingInv
<1>7. LoopInv'
  <2>1. \A r \in DOMAIN db.mappings \ todo : Aligned(r)
    BY <1>1, Stages DEF Inv, StageInv, LoopInv
  <2>2. \A r \in DOMAIN db'.mappings \ todo' : Aligned(r)'
    BY <1>1, <1>3, <2>1 DEF Aligned, has_provider, provider_upstream_model, parse_models
  <2>3. pc' \in FromEndpoints
    BY <1>1, Stages
  <2> QED  BY <1>1, <1>3, <2>2, <2>3, EndpointsLoop
<1>8. pc \in Running \cap FromBackfill /\ pc' \in FromBackfill /\ pc' # "up"
  BY <1>1, Stages DEF Running
<1>9. pending' \subseteq todo'
  BY <1>1
<1> QED  BY <1>1, <1>5, <1>6, <1>7, <1>8, <1>9, LoopStep

\* DeleteMapping: no route refers to the mapping any more.
LEMMA DeleteMappingStep ==
  ASSUME Inv, DeleteMapping
  PROVE  Inv'
<1>1. PICK row \in pending : db' = mapping_deleted(db, row) /\ Goto("endpoints", todo \ {row})
  BY DEF DeleteMapping
<1>2. /\ pc = "endpoints" /\ \A m \in DOMAIN db.routes : <<db.routes[m], m>> # row
  BY <1>1 DEF Inv, PendingInv
<1>3. /\ pc' = "endpoints" /\ todo' = todo \ {row} /\ pending' = {}
      /\ UNCHANGED <<catalog, document, original, used>>
  BY <1>1 DEF Goto, Keeps
<1>4. IsDatabase(db)
  BY DEF Inv
<1>5. /\ DOMAIN db' = DOMAIN db /\ db'.schema = db.schema /\ db'.versions = db.versions
      /\ db'.providers = db.providers /\ db'.routes = db.routes
      /\ db'.shares = db.shares /\ db'.rollouts = db.rollouts /\ db'.activities = db.activities
      /\ db'.mappings = [r \in DOMAIN db.mappings \ {row} |-> db.mappings[r]]
  BY <1>1, <1>4 DEF mapping_deleted, Restrict, IsDatabase
<1>6. RoutesSafe(db, db')
  BY <1>2, <1>5 DEF RoutesSafe, Mapped
<1>7. Fitted(db, db')
  <2>1. DOMAIN db'.mappings \subseteq DOMAIN db.mappings
    BY <1>5
  <2> QED  BY <1>4, <1>5, <1>6, <2>1, MappingsChanged
<1>8. PendingInv'
  BY <1>3 DEF PendingInv
<1>9. LoopInv'
  <2>1. \A r \in DOMAIN db.mappings \ todo : Aligned(r)
    BY <1>2, Stages DEF Inv, StageInv, LoopInv
  <2>2. ASSUME NEW r \in DOMAIN db'.mappings \ todo'
        PROVE  Aligned(r)'
    <3>1. r \in DOMAIN db.mappings \ todo /\ db'.mappings[r] = db.mappings[r]
      BY <1>3, <1>5
    <3> QED  BY <1>3, <1>5, <2>1, <3>1
             DEF Aligned, has_provider, provider_upstream_model, parse_models
  <2>3. pc' \in FromEndpoints
    BY <1>3, Stages
  <2> QED  BY <1>2, <1>3, <1>5, <2>2, <2>3, EndpointsLoop
<1>10. pc \in Running \cap FromBackfill /\ pc' \in FromBackfill /\ pc' # "up"
  BY <1>2, <1>3, Stages DEF Running
<1> QED  BY <1>3, <1>7, <1>8, <1>9, <1>10, LoopStep

\* AlignUpstreamModel: a mapping keeps its row and names the model of the catalog.
LEMMA AlignUpstreamModelStep ==
  ASSUME Inv, NEW row \in DOMAIN db.mappings, AlignUpstreamModel(row)
  PROVE  Inv'
<1> DEFINE type == db.providers[row[1]].type
           name == provider_upstream_model(catalog, type, row[2])
<1>1. /\ pc = "endpoints" /\ pc' = "endpoints" /\ row \in todo /\ todo' = todo \ {row}
      /\ pending' = {} /\ ~mapping_is_stale(db, row)
      /\ UNCHANGED <<catalog, document, original, used>>
  BY DEF AlignUpstreamModel, Goto, Keeps
<1>2. db' = IF has_provider(catalog, type) THEN [db EXCEPT !.mappings[row] = name] ELSE db
  BY DEF AlignUpstreamModel
<1>3. IsDatabase(db)
  BY DEF Inv
<1> HIDE DEF name
<1>4. /\ DOMAIN db' = DOMAIN db /\ db'.schema = db.schema /\ db'.versions = db.versions
      /\ db'.providers = db.providers /\ db'.routes = db.routes
      /\ db'.shares = db.shares /\ db'.rollouts = db.rollouts /\ db'.activities = db.activities
      /\ DOMAIN db'.mappings = DOMAIN db.mappings
      /\ has_provider(catalog, type) => db'.mappings[row] = name
      /\ \A r \in DOMAIN db.mappings : r # row => db'.mappings[r] = db.mappings[r]
  BY <1>2, <1>3 DEF IsDatabase
<1>5. RoutesSafe(db, db')
  BY <1>4 DEF RoutesSafe, Mapped
<1>6. Fitted(db, db')
  BY <1>3, <1>4, <1>5, MappingsChanged
<1>7. PendingInv'
  BY <1>1 DEF PendingInv
<1>8. LoopInv'
  <2>1. \A r \in DOMAIN db.mappings \ todo : Aligned(r)
    BY <1>1, Stages DEF Inv, StageInv, LoopInv
  <2>2. ASSUME NEW r \in DOMAIN db'.mappings \ todo'
        PROVE  Aligned(r)'
    <3>1. CASE r = row
      <4>1. row[2] \in parse_models(db.providers[row[1]])
        BY <1>1 DEF mapping_is_stale
      <4>2. has_provider(catalog, type) => db'.mappings[row]
               = provider_upstream_model(catalog, type, row[2])
        BY <1>4 DEF name
      <4> QED  BY <1>1, <1>4, <3>1, <4>1, <4>2
               DEF Aligned, has_provider, provider_upstream_model, parse_models
    <3>2. CASE r # row
      <4>1. r \in DOMAIN db.mappings \ todo /\ db'.mappings[r] = db.mappings[r]
        BY <1>1, <1>4, <3>2
      <4> QED  BY <1>1, <1>4, <2>1, <4>1
               DEF Aligned, has_provider, provider_upstream_model, parse_models
    <3> QED  BY <3>1, <3>2
  <2>3. pc' \in FromEndpoints
    BY <1>1, Stages
  <2> QED  BY <1>1, <1>4, <2>2, <2>3, EndpointsLoop
<1>9. pc \in Running \cap FromBackfill /\ pc' \in FromBackfill /\ pc' # "up"
  BY <1>1, Stages DEF Running
<1> QED  BY <1>1, <1>6, <1>7, <1>8, <1>9, LoopStep

\* Serve: the server serves the catalog it prepared.
LEMMA ServeStep ==
  ASSUME Inv, Serve
  PROVE  Inv'
<1>1. /\ pc = "endpoints" /\ pc' = "up" /\ todo = {} /\ todo' = {} /\ pending' = {}
      /\ db' = db /\ UNCHANGED <<catalog, document, original, used>>
  BY DEF Serve, Goto, Keeps
<1>2. Fitted(db, db')
  BY <1>1, FittedReflexive DEF Inv
<1>3. PendingInv'
  BY <1>1 DEF PendingInv
<1>4. LoopInv'
  <2>1. \A r \in DOMAIN db.mappings \ todo : Aligned(r)
    BY <1>1, Stages DEF Inv, StageInv, LoopInv
  <2>2. \A r \in DOMAIN db'.mappings \ todo' : Aligned(r)'
    BY <1>1, <2>1 DEF Aligned, has_provider, provider_upstream_model, parse_models
  <2>3. pc' \in FromEndpoints
    BY <1>1, Stages
  <2> QED  BY <1>1, <2>2, <2>3, EndpointsLoop
<1>5. pc \in Running \cap FromBackfill /\ pc' \in FromBackfill
  BY <1>1, Stages DEF Running
<1> QED  BY <1>1, <1>2, <1>3, <1>4, <1>5, LoopStep

-----------------------------------------------------------------------------
(* Two databases that come to the same rows.                                 *)

SameProviders(d, e, cat) ==
    /\ KeptProviders(e) = KeptProviders(d)
    /\ \A p \in KeptProviders(d) :
          /\ TypeOf(e, p) = TypeOf(d, p)
          /\ ModelsOf(e, cat, p) = ModelsOf(d, cat, p)
          /\ UrlsOf(e, cat, p) = UrlsOf(d, cat, p)
          /\ AnthropicOf(e, p) = AnthropicOf(d, p)

SameMappings(d, e, cat) ==
    /\ MappingsOf(e, cat) = MappingsOf(d, cat)
    /\ \A row \in MappingsOf(d, cat) : UpstreamOf(e, cat, row) = UpstreamOf(d, cat, row)
    /\ RoutesOf(e, cat) = RoutesOf(d, cat)
    /\ \A m \in RoutesOf(d, cat) : e.routes[m] = d.routes[m]

SameActivities(d, e) ==
    /\ ActivitiesOf(e) = ActivitiesOf(d)
    /\ e.rollouts \cap ActivitiesOf(e) = d.rollouts \cap ActivitiesOf(d)
    /\ \A a \in ActivitiesOf(d) :
          /\ e.activities[a].provider = d.activities[a].provider
          /\ e.activities[a].anthropic = d.activities[a].anthropic
          /\ ActivityTypeOf(e, a) = ActivityTypeOf(d, a)

Agrees(d, e, cat) ==
    /\ SameProviders(d, e, cat)
    /\ SameMappings(d, e, cat)
    /\ SameActivities(d, e)
    /\ e.shares \cap KeptProviders(e) = d.shares \cap KeptProviders(d)
    /\ e.sessions = d.sessions

\* A database agrees with itself.
LEMMA AgreesReflexive ==
  ASSUME NEW d, NEW cat
  PROVE  Agrees(d, d, cat)
BY DEF Agrees, SameProviders, SameMappings, SameActivities

\* What two steps leave alike is alike.
LEMMA AgreesTransitive ==
  ASSUME NEW d, NEW e, NEW f, NEW cat, Agrees(d, e, cat), Agrees(e, f, cat)
  PROVE  Agrees(d, f, cat)
<1>1. SameProviders(d, f, cat)
  BY DEF Agrees, SameProviders
<1>2. SameMappings(d, f, cat)
  BY DEF Agrees, SameMappings
<1>3. SameActivities(d, f)
  BY DEF Agrees, SameActivities
<1> QED
  BY <1>1, <1>2, <1>3 DEF Agrees

\* Databases that agree have one outcome.
LEMMA AgreesOutcome ==
  ASSUME NEW d, NEW e, NEW cat, Agrees(d, e, cat)
  PROVE  Outcome(e, cat) = Outcome(d, cat)
<1> DEFINE Provider(o, p) ==
             [type |-> TypeOf(o, p), models |-> ModelsOf(o, cat, p), disabled |-> {},
              override |-> FALSE, anthropic |-> AnthropicOf(o, p),
              urls |-> UrlsOf(o, cat, p)]
           Activity(o, a) ==
             [provider |-> o.activities[a].provider, type |-> ActivityTypeOf(o, a),
              anthropic |-> o.activities[a].anthropic]
<1>1. \A p \in KeptProviders(d) : Provider(e, p) = Provider(d, p)
  BY DEF Agrees, SameProviders
<1>2. \A a \in ActivitiesOf(d) : Activity(e, a) = Activity(d, a)
  BY DEF Agrees, SameActivities
<1> HIDE DEF Provider, Activity
<1>3. [p \in KeptProviders(e) |-> Provider(e, p)] = [p \in KeptProviders(d) |-> Provider(d, p)]
  BY <1>1 DEF Agrees, SameProviders
<1>4. [row \in MappingsOf(e, cat) |-> UpstreamOf(e, cat, row)]
        = [row \in MappingsOf(d, cat) |-> UpstreamOf(d, cat, row)]
  BY DEF Agrees, SameMappings
<1>5. [m \in RoutesOf(e, cat) |-> e.routes[m]] = [m \in RoutesOf(d, cat) |-> d.routes[m]]
  BY DEF Agrees, SameMappings
<1>6. [a \in ActivitiesOf(e) |-> Activity(e, a)] = [a \in ActivitiesOf(d) |-> Activity(d, a)]
  BY <1>2 DEF Agrees, SameActivities
<1>7. /\ e.shares \cap KeptProviders(e) = d.shares \cap KeptProviders(d)
      /\ e.sessions = d.sessions
      /\ e.rollouts \cap ActivitiesOf(e) = d.rollouts \cap ActivitiesOf(d)
  BY DEF Agrees, SameActivities
<1> QED
  BY <1>3, <1>4, <1>5, <1>6, <1>7, Zenon DEF Outcome, Provider, Activity

\* The migrations of the catalog that a database has seen, and the removal.
SameVersions(d, e) ==
    \A v \in {"anthropic_removal_v1", "provider_catalog_v1", "provider_model_catalog_v2"} :
        v \in e.versions <=> v \in d.versions

\* A step that changes providers only, and nothing of what they come to.
LEMMA ProvidersAgree ==
  ASSUME NEW d, NEW e, NEW cat, SameVersions(d, e), SameProviders(d, e, cat),
         e.mappings = d.mappings, e.routes = d.routes, e.shares = d.shares,
         e.sessions = d.sessions, e.activities = d.activities, e.rollouts = d.rollouts
  PROVE  Agrees(d, e, cat)
<1>1. (Settled(e) <=> Settled(d)) /\ (Removal(e) <=> Removal(d))
  BY DEF SameVersions, Settled, Removal
<1>2. \A row : row[1] \in KeptProviders(d) => (Offered(e, cat, row) <=> Offered(d, cat, row))
  BY <1>1 DEF SameProviders, Offered
<1>3. MappingsOf(e, cat) = MappingsOf(d, cat)
  BY <1>2 DEF SameProviders, MappingsOf
<1>4. \A row \in MappingsOf(d, cat) : UpstreamOf(e, cat, row) = UpstreamOf(d, cat, row)
  BY DEF SameProviders, MappingsOf, UpstreamOf
<1>5. \A m : Cleared(e, cat, m) <=> Cleared(d, cat, m)
  BY <1>2 DEF SameProviders, SameVersions, Cleared
<1>6. RoutesOf(e, cat) = RoutesOf(d, cat)
  BY <1>3, <1>5 DEF SameProviders, RoutesOf, Mapped
<1>7. SameMappings(d, e, cat)
  BY <1>3, <1>4, <1>6 DEF SameMappings
<1>8. ActivitiesOf(e) = ActivitiesOf(d)
  BY <1>1 DEF ActivitiesOf
<1>9. \A a : ActivityTypeOf(e, a) = ActivityTypeOf(d, a)
  BY DEF ActivityTypeOf, SameProviders
<1>10. SameActivities(d, e)
  BY <1>8, <1>9 DEF SameActivities
<1> QED
  BY <1>7, <1>10 DEF Agrees, SameProviders
\* What a change of the schema leaves as it is.
Untouched(d, e) ==
    /\ SameVersions(d, e)
    /\ DOMAIN e.providers = DOMAIN d.providers
    /\ \A p \in DOMAIN d.providers :
          /\ e.providers[p].type = d.providers[p].type
          /\ e.providers[p].models = d.providers[p].models
          /\ e.providers[p].disabled = d.providers[p].disabled
          /\ e.providers[p].capabilities.anthropic = d.providers[p].capabilities.anthropic
          /\ e.providers[p].capabilities.urls = d.providers[p].capabilities.urls
    /\ e.mappings = d.mappings /\ e.routes = d.routes /\ e.shares = d.shares
    /\ e.sessions = d.sessions /\ e.activities = d.activities /\ e.rollouts = d.rollouts

\* It comes to the same rows.
LEMMA UntouchedAgrees ==
  ASSUME NEW d, NEW e, NEW cat, Untouched(d, e)
  PROVE  Agrees(d, e, cat)
<1>1. (Settled(e) <=> Settled(d)) /\ (Removal(e) <=> Removal(d))
  BY DEF Untouched, SameVersions, Settled, Removal
<1>2. KeptProviders(e) = KeptProviders(d) /\ KeptProviders(d) \subseteq DOMAIN d.providers
  BY DEF Untouched, SameVersions, KeptProviders
<1>3. \A p \in DOMAIN d.providers : TypeOf(e, p) = TypeOf(d, p)
  BY <1>1 DEF Untouched, TypeOf
<1>4. SameProviders(d, e, cat)
  BY <1>1, <1>2, <1>3 DEF Untouched, SameProviders, ModelsOf, UrlsOf, AnthropicOf
<1> QED
  BY <1>4, ProvidersAgree DEF Untouched

\* The elements of the schema that some step of the upgrade drops.
Dropped == {"identity_model_aliases", "fk_provider", "identity_request_logs", "cost_columns",
            "uq_activity_rollouts_path", "activity_contents"}

\* A step that changes nothing but the schema, and drops no more than that; the
\* reference of a session to its provider does not come back.
OnlySchema(d, e) ==
    /\ e.providers = d.providers /\ e.mappings = d.mappings /\ e.routes = d.routes
    /\ e.shares = d.shares /\ e.sessions = d.sessions /\ e.activities = d.activities
    /\ e.rollouts = d.rollouts /\ SameVersions(d, e)
    /\ d.schema \ Dropped \subseteq e.schema
    /\ "fk_provider" \notin d.schema => "fk_provider" \notin e.schema

\* Any number of them is one.
LEMMA OnlySchemaTransitive ==
  ASSUME NEW d, NEW e, NEW f, OnlySchema(d, e), OnlySchema(e, f)
  PROVE  OnlySchema(d, f)
<1>1. SameVersions(d, f)
  BY DEF OnlySchema, SameVersions
<1> QED
  BY <1>1 DEF OnlySchema

\* Adding elements and dropping some of those.
LEMMA WithSchemaOnly ==
  ASSUME NEW d, IsDatabase(d), NEW added, NEW dropped, "fk_provider" \notin added,
         dropped \subseteq Dropped
  PROVE  /\ OnlySchema(d, WithSchema(d, added, dropped))
         /\ added \ Dropped \subseteq WithSchema(d, added, dropped).schema
         /\ "fk_provider" \in dropped => "fk_provider" \notin WithSchema(d, added, dropped).schema
<1> DEFINE e == WithSchema(d, added, dropped)
<1>1. /\ e.schema = (d.schema \cup added) \ dropped
      /\ e.versions = d.versions /\ e.providers = d.providers
      /\ e.mappings = d.mappings /\ e.routes = d.routes
      /\ e.shares = d.shares /\ e.sessions = d.sessions
      /\ e.activities = d.activities /\ e.rollouts = d.rollouts
  BY WithSchemaFacts
<1> HIDE DEF e
<1>2. SameVersions(d, e)
  BY <1>1 DEF SameVersions
<1> QED
  BY <1>1, <1>2 DEF OnlySchema, e

\* A database has the schema it has.
LEMMA OnlySchemaReflexive ==
  ASSUME NEW d PROVE OnlySchema(d, d)
BY DEF OnlySchema, SameVersions

\* The provider tables: the overrides go, the columns come.
LEMMA ProviderSchemaUntouched ==
  ASSUME NEW d, IsDatabase(d), provider_table_is_current(d.schema)
  PROVE  LET e == migrate_provider_schema(d)
         IN /\ Untouched(d, e)
            /\ \A p \in DOMAIN e.providers : e.providers[p].capabilities.override = FALSE
            /\ d.schema \ Dropped \subseteq e.schema
            /\ {"visibility", "models_json"} \subseteq e.schema
            /\ "identity_provider_shares" \in d.schema \/ provider_shares \subseteq e.schema
<1> DEFINE shares == IF "identity_provider_shares" \in d.schema THEN {} ELSE provider_shares
           added == {"visibility", "models_json"} \cup shares
           f == WithSchema(d, added, {"identity_model_aliases"})
           e == strip_legacy_protocol_overrides(f)
<1>1. migrate_provider_schema(d) = e
  BY DEF migrate_provider_schema
<1>2. "fk_provider" \notin added /\ {"identity_model_aliases"} \subseteq Dropped
      /\ added \cap Dropped = {} /\ {"visibility", "models_json"} \subseteq added
      /\ ("identity_provider_shares" \in d.schema \/ provider_shares \subseteq added)
  BY DEF provider_shares, Dropped
<1> HIDE DEF added
<1>3. OnlySchema(d, f) /\ added \ Dropped \subseteq f.schema
  BY <1>2, WithSchemaOnly
<1>4. DOMAIN f = DOMAIN d
  BY WithSchemaFacts
<1> HIDE DEF f
<1>5. DOMAIN f = {"schema", "versions", "providers", "mappings", "routes",
                  "shares", "sessions", "activities", "rollouts"}
  BY <1>4 DEF IsDatabase
<1>6. /\ e.schema = f.schema /\ e.versions = f.versions
      /\ e.mappings = f.mappings /\ e.routes = f.routes
      /\ e.shares = f.shares /\ e.sessions = f.sessions
      /\ e.activities = f.activities /\ e.rollouts = f.rollouts
      /\ e.providers = [p \in DOMAIN f.providers |->
                          [f.providers[p] EXCEPT !.capabilities.override = FALSE]]
  BY <1>5 DEF strip_legacy_protocol_overrides
<1> HIDE DEF e
<1>7. f.providers = d.providers
  BY <1>3 DEF OnlySchema
<1>8. ASSUME NEW p \in DOMAIN d.providers
      PROVE  /\ e.providers[p].type = d.providers[p].type
             /\ e.providers[p].models = d.providers[p].models
             /\ e.providers[p].disabled = d.providers[p].disabled
             /\ e.providers[p].capabilities.anthropic = d.providers[p].capabilities.anthropic
             /\ e.providers[p].capabilities.urls = d.providers[p].capabilities.urls
             /\ e.providers[p].capabilities.override = FALSE
  <2>1. /\ DOMAIN d.providers[p] = {"type", "models", "disabled", "capabilities"}
        /\ DOMAIN d.providers[p].capabilities = {"override", "anthropic", "urls"}
    BY DEF IsDatabase
  <2>2. e.providers[p] = [d.providers[p] EXCEPT !.capabilities.override = FALSE]
    BY <1>6, <1>7
  <2> QED
    BY <2>1, <2>2
<1>9. SameVersions(d, e)
  BY <1>3, <1>6 DEF OnlySchema, SameVersions
<1>10. DOMAIN e.providers = DOMAIN d.providers
  BY <1>6, <1>7
<1>11. Untouched(d, e)
  BY <1>3, <1>6, <1>8, <1>9, <1>10 DEF Untouched, OnlySchema
<1>12. added \subseteq e.schema /\ d.schema \ Dropped \subseteq e.schema
  BY <1>2, <1>3, <1>6 DEF OnlySchema
<1> QED
  BY <1>1, <1>2, <1>8, <1>10, <1>11, <1>12

\* The tables for memories, listed.
LEMMA MemorySchemaListed ==
  /\ "fk_provider" \notin UNION Range(MemorySchema)
  /\ MEMORY_TABLES \subseteq UNION Range(MemorySchema)
<1> DEFINE M == MemorySchema
<1>1. DOMAIN M = 1 .. 10 /\ activity_rollouts = M[1] /\ M[6] = {"memories"} /\ M[8] = {"memory_sources"}
  BY DEF MemorySchema
<1>2. {M[1], M[6], M[8]} \subseteq Range(M)
  BY <1>1 DEF Range
<1>3. ASSUME NEW S \in Range(M) PROVE "fk_provider" \notin S
  <2>1. PICK i \in 1 .. 10 : S = M[i]
    BY <1>1 DEF Range
  <2> QED
    BY <2>1 DEF MemorySchema, activity_rollouts
<1> HIDE DEF M
<1>4. "fk_provider" \notin UNION Range(M)
  BY <1>3
<1>5. MEMORY_TABLES \subseteq UNION Range(M)
  BY <1>1, <1>2 DEF MEMORY_TABLES, activity_rollouts
<1> QED
  BY <1>4, <1>5 DEF M
\* The upgrade up to the removal of the protocol.
Refreshed(d) ==
    activity_rollout(initialize_memory_schema(
        drop_legacy_cost_columns(migrate_activity_schema(rename_legacy_activities(
            migrate_response_sessions_schema(migrate_provider_schema(d)))))))

\* The elements of the schema that its steps add.
LEMMA StepsAdd ==
  ASSUME NEW d, IsDatabase(d)
  PROVE  /\ OnlySchema(d, migrate_response_sessions_schema(d))
         /\ response_sessions \subseteq migrate_response_sessions_schema(d).schema
         /\ "fk_provider" \notin migrate_response_sessions_schema(d).schema
         /\ OnlySchema(d, rename_legacy_activities(d))
         /\ "identity_activities" \in rename_legacy_activities(d).schema
         /\ OnlySchema(d, migrate_activity_schema(d))
         /\ OnlySchema(d, drop_legacy_cost_columns(d))
         /\ OnlySchema(d, initialize_memory_schema(d))
         /\ "memories" \in d.schema
              \/ MEMORY_TABLES \subseteq initialize_memory_schema(d).schema
<1>0. OnlySchema(d, d)
  BY OnlySchemaReflexive
<1>1. /\ OnlySchema(d, migrate_response_sessions_schema(d))
      /\ response_sessions \subseteq migrate_response_sessions_schema(d).schema
      /\ "fk_provider" \notin migrate_response_sessions_schema(d).schema
  <2>1. "fk_provider" \notin response_sessions /\ response_sessions \cap Dropped = {}
        /\ {"fk_provider"} \subseteq Dropped
    BY DEF response_sessions, Dropped
  <2> QED
    BY <2>1, WithSchemaOnly DEF migrate_response_sessions_schema
<1>2. OnlySchema(d, rename_legacy_activities(d))
      /\ "identity_activities" \in rename_legacy_activities(d).schema
  <2>1. CASE "identity_activities" \in d.schema
    BY <1>0, <2>1 DEF rename_legacy_activities
  <2>2. CASE "identity_activities" \notin d.schema
    <3> DEFINE added == {"identity_activities", "idx_identity_activities_identity_created_at"}
    <3>1. "fk_provider" \notin added /\ {"identity_request_logs"} \subseteq Dropped
          /\ "identity_activities" \in added \ Dropped
      BY DEF Dropped
    <3>2. rename_legacy_activities(d) = WithSchema(d, added, {"identity_request_logs"})
      BY <2>2 DEF rename_legacy_activities
    <3> HIDE DEF added
    <3> QED
      BY <3>1, <3>2, WithSchemaOnly
  <2> QED
    BY <2>1, <2>2
<1>3. OnlySchema(d, migrate_activity_schema(d))
  BY WithSchemaOnly DEF migrate_activity_schema, Dropped
<1>4. OnlySchema(d, drop_legacy_cost_columns(d))
  BY WithSchemaOnly DEF drop_legacy_cost_columns, Dropped
<1>5. /\ OnlySchema(d, initialize_memory_schema(d))
      /\ "memories" \in d.schema
           \/ MEMORY_TABLES \subseteq initialize_memory_schema(d).schema
  <2>1. CASE "memories" \in d.schema
    BY <1>0, <2>1 DEF initialize_memory_schema
  <2>2. CASE "memories" \notin d.schema
    <3> DEFINE added == UNION Range(MemorySchema)
    <3>1. "fk_provider" \notin added /\ MEMORY_TABLES \subseteq added \ Dropped
      BY MemorySchemaListed DEF MEMORY_TABLES, Dropped
    <3>2. initialize_memory_schema(d) = WithSchema(d, added, {})
      BY <2>2 DEF initialize_memory_schema
    <3> HIDE DEF added
    <3> QED
      BY <3>1, <3>2, WithSchemaOnly
  <2> QED
    BY <2>1, <2>2
<1> QED
  BY <1>1, <1>2, <1>3, <1>4, <1>5

\* The rollout tables and the version row.
LEMMA RolloutOnly ==
  ASSUME NEW d, IsDatabase(d)
  PROVE  OnlySchema(d, activity_rollout(d))
         /\ activity_rollouts \cup ROLLOUT_INDEXES \subseteq activity_rollout(d).schema
<1> DEFINE added == activity_rollouts \cup ROLLOUT_INDEXES
           dropped == {"uq_activity_rollouts_path", "activity_contents"}
           f == WithSchema(d, added, dropped)
           e == WithVersion(f, "activity_rollout_v2")
<1>1. activity_rollout(d) = e
  BY DEF activity_rollout, WithVersion
<1>2. "fk_provider" \notin added /\ dropped \subseteq Dropped /\ added \cap Dropped = {}
  BY DEF activity_rollouts, ROLLOUT_INDEXES, Dropped
<1>3. {"visibility", "provider_columns"} \cap added = {}
      /\ {"provider_columns", "models_json", "activity_provider_type"} \cap dropped = {}
  BY DEF activity_rollouts, ROLLOUT_INDEXES
<1> HIDE DEF added, dropped
<1>4. OnlySchema(d, f) /\ added \ Dropped \subseteq f.schema
  BY <1>2, WithSchemaOnly
<1>5. IsDatabase(f)
  BY <1>3, WithSchemaStep DEF Upgraded
<1> HIDE DEF f
<1>6. /\ e.schema = f.schema /\ e.versions = f.versions \cup {"activity_rollout_v2"}
      /\ e.providers = f.providers /\ e.mappings = f.mappings /\ e.routes = f.routes
      /\ e.shares = f.shares /\ e.sessions = f.sessions
      /\ e.activities = f.activities /\ e.rollouts = f.rollouts
  BY <1>5, WithVersionFacts DEF Versions
<1> HIDE DEF e
<1>7. SameVersions(f, e)
  BY <1>6 DEF SameVersions
<1>8. OnlySchema(f, e)
  BY <1>6, <1>7 DEF OnlySchema
<1> QED
  BY <1>1, <1>2, <1>4, <1>6, <1>8, OnlySchemaTransitive DEF added

\* What the upgrade has done before the removal.
LEMMA RefreshedFacts ==
  ASSUME NEW d, IsDatabase(d), provider_table_is_current(d.schema)
  PROVE  LET e == Refreshed(d)
         IN /\ IsDatabase(e) /\ Untouched(d, e)
            /\ \A p \in DOMAIN e.providers : e.providers[p].capabilities.override = FALSE
            /\ d.schema \ Dropped \subseteq e.schema
            /\ {"visibility", "models_json", "identity_activities"} \subseteq e.schema
            /\ "identity_provider_shares" \in d.schema \/ provider_shares \subseteq e.schema
            /\ response_sessions \subseteq e.schema /\ "fk_provider" \notin e.schema
            /\ "memories" \in d.schema \/ MEMORY_TABLES \subseteq e.schema
            /\ activity_rollouts \cup ROLLOUT_INDEXES \subseteq e.schema
<1> DEFINE d1 == migrate_provider_schema(d)
           d2 == migrate_response_sessions_schema(d1)
           d3 == rename_legacy_activities(d2)
           d4 == migrate_activity_schema(d3)
           d5 == drop_legacy_cost_columns(d4)
           d6 == initialize_memory_schema(d5)
           d7 == activity_rollout(d6)
<1>0. Refreshed(d) = d7
  BY DEF Refreshed
<1>1. /\ IsDatabase(d1) /\ Untouched(d, d1)
      /\ \A p \in DOMAIN d1.providers : d1.providers[p].capabilities.override = FALSE
      /\ d.schema \ Dropped \subseteq d1.schema
      /\ {"visibility", "models_json"} \subseteq d1.schema
      /\ "identity_provider_shares" \in d.schema \/ provider_shares \subseteq d1.schema
  BY MigrateProviderSchema, ProviderSchemaUntouched DEF Upgraded
<1>a. "memories" \in d1.schema => "memories" \in d.schema
  <2> DEFINE shares == IF "identity_provider_shares" \in d.schema THEN {} ELSE provider_shares
             added == {"visibility", "models_json"} \cup shares
             f == WithSchema(d, added, {"identity_model_aliases"})
  <2>1. d1 = strip_legacy_protocol_overrides(f) /\ "memories" \notin added
    BY DEF migrate_provider_schema, provider_shares
  <2>2. "provider_columns" \in d.schema
    BY DEF provider_table_is_current
  <2> HIDE DEF added
  <2>3. IsDatabase(f) /\ f.schema = (d.schema \cup added) \ {"identity_model_aliases"}
    BY <2>2, WithSchemaUpgraded, WithSchemaFacts DEF Upgraded
  <2> HIDE DEF f
  <2>4. d1.schema = f.schema
    BY <2>1, <2>3, StripFacts
  <2> QED
    BY <2>1, <2>3, <2>4
<1> HIDE DEF d1
<1>2. IsDatabase(d2) /\ OnlySchema(d1, d2) /\ response_sessions \subseteq d2.schema
      /\ "fk_provider" \notin d2.schema
  BY <1>1, MiddleSteps, StepsAdd DEF Upgraded
<1>b. "memories" \in d2.schema => "memories" \in d1.schema
  BY <1>1, WithSchemaFacts DEF migrate_response_sessions_schema, response_sessions
<1> HIDE DEF d2
<1>3. IsDatabase(d3) /\ OnlySchema(d2, d3) /\ "identity_activities" \in d3.schema
  BY <1>2, MiddleSteps, StepsAdd DEF Upgraded
<1>c. "memories" \in d3.schema => "memories" \in d2.schema
  BY <1>2, WithSchemaFacts DEF rename_legacy_activities
<1> HIDE DEF d3
<1>4. IsDatabase(d4) /\ OnlySchema(d3, d4)
  BY <1>3, MiddleSteps, StepsAdd DEF Upgraded
<1>d. "memories" \in d4.schema => "memories" \in d3.schema
  BY <1>3, WithSchemaFacts DEF migrate_activity_schema
<1> HIDE DEF d4
<1>5. IsDatabase(d5) /\ OnlySchema(d4, d5)
  BY <1>4, MiddleSteps, StepsAdd DEF Upgraded
<1>e. "memories" \in d5.schema => "memories" \in d4.schema
  BY <1>4, WithSchemaFacts DEF drop_legacy_cost_columns
<1> HIDE DEF d5
<1>6. IsDatabase(d6) /\ OnlySchema(d5, d6)
      /\ ("memories" \in d5.schema \/ MEMORY_TABLES \subseteq d6.schema)
  BY <1>5, MiddleSteps, StepsAdd DEF Upgraded
<1> HIDE DEF d6
<1>7. IsDatabase(d7) /\ OnlySchema(d6, d7)
      /\ activity_rollouts \cup ROLLOUT_INDEXES \subseteq d7.schema
  BY <1>6, ActivityRollout, RolloutOnly DEF Upgraded
<1> HIDE DEF d7
<1>8. OnlySchema(d5, d7) /\ OnlySchema(d3, d7) /\ OnlySchema(d2, d7) /\ OnlySchema(d1, d7)
  <2>1. OnlySchema(d5, d7)  BY <1>6, <1>7, OnlySchemaTransitive
  <2>2. OnlySchema(d4, d7)  BY <1>5, <2>1, OnlySchemaTransitive
  <2>3. OnlySchema(d3, d7)  BY <1>4, <2>2, OnlySchemaTransitive
  <2>4. OnlySchema(d2, d7)  BY <1>3, <2>3, OnlySchemaTransitive
  <2>5. OnlySchema(d1, d7)  BY <1>2, <2>4, OnlySchemaTransitive
  <2> QED  BY <2>1, <2>3, <2>4, <2>5
<1>9. Untouched(d, d7)
  <2>1. SameVersions(d, d7)
    BY <1>1, <1>8 DEF Untouched, OnlySchema, SameVersions
  <2> QED
    BY <1>1, <1>8, <2>1 DEF Untouched, OnlySchema
<1>10. \A p \in DOMAIN d7.providers : d7.providers[p].capabilities.override = FALSE
  BY <1>1, <1>8 DEF OnlySchema
<1>11. /\ d.schema \ Dropped \subseteq d7.schema
       /\ {"visibility", "models_json", "identity_activities"} \subseteq d7.schema
       /\ "identity_provider_shares" \in d.schema \/ provider_shares \subseteq d7.schema
       /\ response_sessions \subseteq d7.schema /\ "fk_provider" \notin d7.schema
       /\ "memories" \in d.schema \/ MEMORY_TABLES \subseteq d7.schema
  <2>1. {"visibility", "models_json", "identity_activities"} \cap Dropped = {}
        /\ provider_shares \cap Dropped = {} /\ response_sessions \cap Dropped = {}
        /\ MEMORY_TABLES \cap Dropped = {}
    BY DEF Dropped, provider_shares, response_sessions, MEMORY_TABLES
  <2>2. d.schema \ Dropped \subseteq d7.schema
    BY <1>1, <1>8 DEF OnlySchema
  <2>3. {"visibility", "models_json", "identity_activities"} \subseteq d7.schema
    BY <1>1, <1>3, <1>8, <2>1 DEF OnlySchema
  <2>4. "identity_provider_shares" \in d.schema \/ provider_shares \subseteq d7.schema
    BY <1>1, <1>8, <2>1 DEF OnlySchema
  <2>5. response_sessions \subseteq d7.schema /\ "fk_provider" \notin d7.schema
    BY <1>2, <1>8, <2>1 DEF OnlySchema
  <2>6. "memories" \in d.schema \/ MEMORY_TABLES \subseteq d7.schema
    <3>1. "memories" \in d5.schema => "memories" \in d.schema
      BY <1>a, <1>b, <1>c, <1>d, <1>e
    <3> QED
      BY <1>6, <1>7, <2>1, <3>1 DEF OnlySchema
  <2> QED
    BY <2>2, <2>3, <2>4, <2>5, <2>6
<1> QED
  BY <1>0, <1>7, <1>9, <1>10, <1>11

-----------------------------------------------------------------------------
(* The transaction of the upgrade comes to the same rows.                    *)

\* What the removal of the protocol makes of a database that has not seen it.
Removed(d, e) ==
    /\ IsDatabase(e) /\ e.schema = d.schema /\ e.sessions = d.sessions
    /\ e.versions = d.versions \cup {"anthropic_removal_v1"}
    /\ DOMAIN e.providers = KeptProviders(d)
    /\ \A p \in KeptProviders(d) :
          /\ e.providers[p].type = Alias(d.providers[p].type)
          /\ e.providers[p].models = d.providers[p].models
          /\ e.providers[p].disabled = d.providers[p].disabled
          /\ e.providers[p].capabilities.anthropic = FALSE
          /\ e.providers[p].capabilities.override = d.providers[p].capabilities.override
          /\ e.providers[p].capabilities.urls = d.providers[p].capabilities.urls
    /\ e.mappings = [row \in {row \in DOMAIN d.mappings : row[1] \in KeptProviders(d)} |->
                        d.mappings[row]]
    /\ e.routes = [m \in {m \in DOMAIN d.routes : d.routes[m] \in KeptProviders(d)} |->
                      d.routes[m]]
    /\ e.shares = d.shares \cap KeptProviders(d)
    /\ e.activities = [a \in ActivitiesOf(d) |-> d.activities[a]]
    /\ e.rollouts = d.rollouts \cap ActivitiesOf(d)

\* It restricts the rows to what it keeps, and renames what has an alias.
LEMMA RemovalRemoves ==
  ASSUME NEW d, IsDatabase(d), Removal(d),
         {"provider_columns", "visibility", "models_json"} \subseteq d.schema
  PROVE  Removed(d, anthropic_removal(d))
<1> DEFINE kept == KeptProviders(d)
           left == ActivitiesOf(d)
           f == delete_anthropic_activities(d)
           g == clean_provider_records(f)
           e == WithVersion(g, "anthropic_removal_v1")
           w == WithAliasedTypes(Restrict(d.providers, kept))
<1>1. anthropic_removal(d) = e
  BY DEF Removal, anthropic_removal, WithVersion
<1>2. kept = {p \in DOMAIN d.providers :
                 d.providers[p].type \notin ANTHROPIC_ONLY_PROVIDER_TYPES}
  BY DEF KeptProviders, Removal
<1>3. /\ IsDatabase(f) /\ f.schema = d.schema /\ f.versions = d.versions
      /\ f.providers = d.providers /\ f.mappings = d.mappings
      /\ f.routes = d.routes /\ f.shares = d.shares /\ f.sessions = d.sessions
  BY DeleteAnthropicActivities
<1>4. /\ f.rollouts = d.rollouts \cap left
      /\ f.activities = [a \in left |-> d.activities[a]]
  <2> DEFINE gone == {a \in DOMAIN d.activities : d.activities[a].anthropic}
  <2>1. /\ f.rollouts = d.rollouts \ gone
        /\ f.activities = [a \in DOMAIN d.activities \ gone |-> d.activities[a]]
    BY DEF delete_anthropic_activities, IsDatabase, Restrict
  <2>2. left = DOMAIN d.activities \ gone
    BY DEF ActivitiesOf, Removal
  <2>3. d.rollouts \subseteq DOMAIN d.activities
    BY DEF IsDatabase, ForeignKeys
  <2> HIDE DEF f, gone, left
  <2> QED
    BY <2>1, <2>2, <2>3
<1> HIDE DEF f, kept, left
<1>5. /\ g.schema = f.schema /\ g.versions = f.versions
      /\ g.sessions = f.sessions /\ g.activities = f.activities
      /\ g.rollouts = f.rollouts
      /\ g.shares = f.shares \cap kept
      /\ g.providers = strip_anthropic_capabilities(WithAliasedTypes(Restrict(f.providers, kept)))
      /\ g.routes = [m \in {m \in DOMAIN f.routes : f.routes[m] \in kept} |-> f.routes[m]]
      /\ g.mappings = [row \in {row \in DOMAIN f.mappings : row[1] \in kept} |-> f.mappings[row]]
  BY <1>2, <1>3 DEF clean_provider_records, IsDatabase, RestrictValues, RestrictDomain, Restrict
<1>6. IsDatabase(g)
  BY <1>3, CleanProviderRecords
<1> HIDE DEF g
<1>7. /\ e.schema = g.schema /\ e.versions = g.versions \cup {"anthropic_removal_v1"}
      /\ e.providers = g.providers /\ e.mappings = g.mappings /\ e.routes = g.routes
      /\ e.shares = g.shares /\ e.sessions = g.sessions
      /\ e.activities = g.activities /\ e.rollouts = g.rollouts /\ IsDatabase(e)
  BY <1>6, WithVersionFacts DEF Versions
<1> HIDE DEF e
<1>8. e.providers = strip_anthropic_capabilities(w) /\ DOMAIN w = kept
  BY <1>3, <1>5, <1>7 DEF WithAliasedTypes, Restrict
<1>9. DOMAIN e.providers = kept
  BY <1>8 DEF strip_anthropic_capabilities
<1>10. ASSUME NEW p \in kept
       PROVE  /\ e.providers[p].type = Alias(d.providers[p].type)
              /\ e.providers[p].models = d.providers[p].models
              /\ e.providers[p].disabled = d.providers[p].disabled
              /\ e.providers[p].capabilities.anthropic = FALSE
              /\ e.providers[p].capabilities.override = d.providers[p].capabilities.override
              /\ e.providers[p].capabilities.urls = d.providers[p].capabilities.urls
  <2> DEFINE r == d.providers[p]
             s == [r EXCEPT !.type = Alias(r.type)]
  <2>1. /\ DOMAIN r = {"type", "models", "disabled", "capabilities"}
        /\ DOMAIN r.capabilities = {"override", "anthropic", "urls"}
    BY <1>2 DEF IsDatabase
  <2>2. w[p] = s
    BY DEF WithAliasedTypes, Restrict
  <2> HIDE DEF r, s, w
  <2>3. e.providers[p] = [s EXCEPT !.capabilities.anthropic = FALSE]
    BY <1>8, <2>2 DEF strip_anthropic_capabilities
  <2>4. /\ DOMAIN s = DOMAIN r /\ s.capabilities = r.capabilities /\ s.type = Alias(r.type)
        /\ s.models = r.models /\ s.disabled = r.disabled
    BY <2>1 DEF s
  <2> QED
    BY <2>1, <2>3, <2>4 DEF r
<1>11. /\ e.mappings = [row \in {row \in DOMAIN d.mappings : row[1] \in kept} |-> d.mappings[row]]
       /\ e.routes = [m \in {m \in DOMAIN d.routes : d.routes[m] \in kept} |-> d.routes[m]]
       /\ e.shares = d.shares \cap kept
       /\ e.activities = [a \in left |-> d.activities[a]]
       /\ e.rollouts = d.rollouts \cap left
       /\ e.schema = d.schema /\ e.sessions = d.sessions
       /\ e.versions = d.versions \cup {"anthropic_removal_v1"}
  BY <1>3, <1>4, <1>5, <1>7
<1> QED
  BY <1>1, <1>7, <1>9, <1>10, <1>11 DEF Removed, kept, left

\* It comes to the same rows.
LEMMA RemovedAgrees ==
  ASSUME NEW d, IsDatabase(d), NEW e, NEW cat, Removal(d), Removed(d, e)
  PROVE  Agrees(d, e, cat)
<1> DEFINE kept == KeptProviders(d)
<1>1. (Settled(e) <=> Settled(d)) /\ ~Removal(e)
      /\ ("provider_catalog_v1" \in e.versions <=> "provider_catalog_v1" \in d.versions)
  BY DEF Removed, Settled, Removal
<1>2. KeptProviders(e) = kept
  BY DEF Removed, KeptProviders
<1> HIDE DEF kept
<1>3. ASSUME NEW p \in kept
      PROVE  /\ TypeOf(e, p) = TypeOf(d, p)
             /\ ModelsOf(e, cat, p) = ModelsOf(d, cat, p)
             /\ UrlsOf(e, cat, p) = UrlsOf(d, cat, p)
             /\ AnthropicOf(e, p) = AnthropicOf(d, p)
  <2>0. /\ e.providers[p].type = Alias(d.providers[p].type)
        /\ e.providers[p].models = d.providers[p].models
        /\ e.providers[p].disabled = d.providers[p].disabled
        /\ e.providers[p].capabilities.anthropic = FALSE
        /\ e.providers[p].capabilities.urls = d.providers[p].capabilities.urls
    BY DEF Removed, kept
  <2>1. TypeOf(e, p) = TypeOf(d, p)
    BY <1>1, <2>0, AliasTarget DEF TypeOf
  <2>2. ModelsOf(e, cat, p) = ModelsOf(d, cat, p)
    BY <2>0, <2>1 DEF ModelsOf
  <2>3. UrlsOf(e, cat, p) = UrlsOf(d, cat, p)
    BY <2>0, <2>1 DEF UrlsOf
  <2>4. AnthropicOf(e, p) = AnthropicOf(d, p)
    BY <1>1, <2>0 DEF AnthropicOf
  <2> QED
    BY <2>1, <2>2, <2>3, <2>4
<1>4. SameProviders(d, e, cat)
  BY <1>2, <1>3 DEF SameProviders, kept
<1>5. /\ DOMAIN e.mappings = {row \in DOMAIN d.mappings : row[1] \in kept}
      /\ \A row \in DOMAIN e.mappings : e.mappings[row] = d.mappings[row]
      /\ DOMAIN e.routes = {m \in DOMAIN d.routes : d.routes[m] \in kept}
      /\ \A m \in DOMAIN e.routes : e.routes[m] = d.routes[m]
  BY DEF Removed, kept
<1>6. \A row : row[1] \in kept => (Offered(e, cat, row) <=> Offered(d, cat, row))
  BY <1>1, <1>3 DEF Offered
<1>7. MappingsOf(e, cat) = MappingsOf(d, cat)
  BY <1>2, <1>3, <1>5, <1>6 DEF MappingsOf, kept
<1>8. \A row \in MappingsOf(d, cat) : UpstreamOf(e, cat, row) = UpstreamOf(d, cat, row)
  BY <1>3, <1>5 DEF MappingsOf, UpstreamOf, kept
<1>9. \A m : Cleared(e, cat, m) <=> Cleared(d, cat, m)
  BY <1>1, <1>2, <1>5, <1>6 DEF Cleared, kept
<1>10. \A m \in DOMAIN e.routes : Mapped(e, m) <=> Mapped(d, m)
  BY <1>5 DEF Mapped
<1>11. RoutesOf(e, cat) = RoutesOf(d, cat)
  BY <1>2, <1>5, <1>7, <1>9, <1>10 DEF RoutesOf, kept
<1>12. \A m \in RoutesOf(d, cat) : e.routes[m] = d.routes[m]
  BY <1>5 DEF RoutesOf, kept
<1>13. SameMappings(d, e, cat)
  BY <1>7, <1>8, <1>11, <1>12 DEF SameMappings
<1>14. ActivitiesOf(e) = ActivitiesOf(d) /\ DOMAIN e.activities = ActivitiesOf(d)
       /\ \A a \in ActivitiesOf(d) : e.activities[a] = d.activities[a]
  BY <1>1 DEF ActivitiesOf, Removed
<1>15. \A a \in ActivitiesOf(d) : ActivityTypeOf(e, a) = ActivityTypeOf(d, a)
  BY <1>2, <1>3, <1>14 DEF ActivityTypeOf, kept
<1>16. SameActivities(d, e)
  BY <1>14, <1>15 DEF SameActivities, Removed
<1> QED
  BY <1>2, <1>4, <1>13, <1>16 DEF Agrees, Removed, kept

\* The schema of an upgraded database is that before the removal, and the
\* columns of the provider table are never made.
LEMMA MigratedSchema ==
  ASSUME NEW d, IsDatabase(d)
  PROVE  "visibility" \in migrated(d).schema => provider_table_is_current(d.schema)
<1> DEFINE d1 == migrate_provider_schema(d)
           d2 == migrate_response_sessions_schema(d1)
           d3 == rename_legacy_activities(d2)
           d4 == migrate_activity_schema(d3)
           d5 == drop_legacy_cost_columns(d4)
           d6 == initialize_memory_schema(d5)
           d7 == activity_rollout(d6)
           d8 == anthropic_removal(d7)
<1>0. migrated(d) = d8
  BY DEF migrated
<1>1. SchemaKept(d, d1) /\ IsDatabase(d1)
  BY MigrateProviderSchema DEF Upgraded
<1> HIDE DEF d1
<1>2. SchemaKept(d1, d2) /\ IsDatabase(d2)
  BY <1>1, MiddleSteps DEF Upgraded
<1> HIDE DEF d2
<1>3. SchemaKept(d2, d3) /\ IsDatabase(d3)
  BY <1>2, MiddleSteps DEF Upgraded
<1> HIDE DEF d3
<1>4. SchemaKept(d3, d4) /\ IsDatabase(d4)
  BY <1>3, MiddleSteps DEF Upgraded
<1> HIDE DEF d4
<1>5. SchemaKept(d4, d5) /\ IsDatabase(d5)
  BY <1>4, MiddleSteps DEF Upgraded
<1> HIDE DEF d5
<1>6. SchemaKept(d5, d6) /\ IsDatabase(d6)
  BY <1>5, MiddleSteps DEF Upgraded
<1> HIDE DEF d6
<1>7. SchemaKept(d6, d7) /\ IsDatabase(d7)
  BY <1>6, ActivityRollout DEF Upgraded
<1> HIDE DEF d7
<1>8. IsDatabase(d8) /\ d8.schema = d7.schema
  BY <1>7, AnthropicRemoval DEF Upgraded
<1> HIDE DEF d8
<1>9. "visibility" \in d8.schema => "provider_columns" \in d8.schema
  BY <1>8 DEF IsDatabase
<1> QED
  BY <1>0, <1>1, <1>2, <1>3, <1>4, <1>5, <1>6, <1>7, <1>8, <1>9
     DEF SchemaKept, provider_table_is_current

\* The upgrade of a database with the present provider table comes to the same
\* rows, and leaves no legacy override.
LEMMA MigratedAgrees ==
  ASSUME NEW d, IsDatabase(d), provider_table_is_current(d.schema), NEW cat
  PROVE  LET e == migrated(d)
         IN /\ IsDatabase(e) /\ e.schema = Refreshed(d).schema
            /\ Agrees(d, e, cat)
            /\ \A p \in DOMAIN e.providers : e.providers[p].capabilities.override = FALSE
            /\ Settled(e) <=> Settled(d)
<1> DEFINE r == Refreshed(d)
           e == anthropic_removal(r)
<1>1. migrated(d) = e
  BY DEF migrated, Refreshed
<1>2. /\ IsDatabase(r) /\ Untouched(d, r)
      /\ \A p \in DOMAIN r.providers : r.providers[p].capabilities.override = FALSE
      /\ d.schema \ Dropped \subseteq r.schema
      /\ {"visibility", "models_json"} \subseteq r.schema
  BY RefreshedFacts
<1>3. "provider_columns" \in r.schema
  BY <1>2 DEF provider_table_is_current, Dropped
<1> HIDE DEF r
<1>4. Agrees(d, r, cat)
  BY <1>2, UntouchedAgrees
<1>5. Settled(r) <=> Settled(d)
  BY <1>2 DEF Untouched, SameVersions, Settled
<1>6. CASE Removal(r)
  <2>1. Removed(r, e)
    BY <1>2, <1>3, <1>6, RemovalRemoves
  <2> HIDE DEF e
  <2>2. Agrees(r, e, cat)
    BY <1>2, <1>6, <2>1, RemovedAgrees
  <2>3. Agrees(d, e, cat)
    BY <1>4, <2>2, AgreesTransitive
  <2>4. Settled(e) <=> Settled(r)
    BY <2>1 DEF Removed, Settled
  <2>5. \A p \in DOMAIN e.providers : e.providers[p].capabilities.override = FALSE
    BY <1>2, <2>1 DEF Removed, KeptProviders
  <2> QED
    BY <1>1, <1>5, <2>1, <2>3, <2>4, <2>5 DEF Removed, r
<1>7. CASE ~Removal(r)
  <2>1. e = r
    BY <1>7 DEF Removal, anthropic_removal
  <2> QED
    BY <1>1, <1>2, <1>4, <1>5, <2>1 DEF r
<1> QED
  BY <1>6, <1>7

-----------------------------------------------------------------------------
(* A database that an uninterrupted start would serve.                       *)

\* What the code needs of a schema is enough to start again.
LEMMA ServesStartable ==
  ASSUME NEW schema, SchemaServes(schema)
  PROVE  /\ ~schema_is_empty(schema) /\ schema_can_be_migrated(schema)
         /\ "provider_columns" \in schema /\ provider_shares \subseteq schema
<1>1. /\ BASE_TABLES \cup MEMORY_TABLES \cup {"identity_activities"} \subseteq schema
      /\ provider_shares \cup {"visibility"} \subseteq schema
      /\ "provider_columns" \in schema
  BY DEF SchemaServes, current_schema_is_complete, provider_sharing_schema_exists,
         provider_configs
<1>2. "identities" \in BASE_TABLES /\ {"memories", "memory_sources"} \subseteq MEMORY_TABLES
  BY DEF BASE_TABLES, MEMORY_TABLES
<1> QED
  BY <1>1, <1>2 DEF schema_is_empty, schema_can_be_migrated, required_base_tables_exist

\* A step that comes to the same rows, and a schema that serves, leave a
\* database one that can be started.
LEMMA StartableKept ==
  ASSUME NEW d, NEW e, NEW cat, Agrees(d, e, cat), Settled(d) => Settled(e),
         SchemaServes(e.schema), Startable(d, cat)
  PROVE  Startable(e, cat)
<1>1. /\ schema_can_be_migrated(e.schema) /\ "provider_columns" \in e.schema
      /\ provider_shares \subseteq e.schema
  BY ServesStartable
<1>2. ASSUME ~Settled(e), NEW p \in KeptProviders(e)
      PROVE  has_provider(cat, target_provider_id(e.providers[p].type))
  <2>1. ~Settled(d) /\ p \in KeptProviders(d) /\ TypeOf(e, p) = TypeOf(d, p)
    BY <1>2 DEF Agrees, SameProviders
  <2>2. target_provider_id(e.providers[p].type) = target_provider_id(d.providers[p].type)
    BY <1>2, <2>1 DEF TypeOf
  <2> QED
    BY <2>1, <2>2 DEF Startable
<1> QED
  BY <1>1, <1>2 DEF Startable

\* The upgrade of such a database commits.
LEMMA StartableCommits ==
  ASSUME NEW d, IsDatabase(d), NEW cat, Startable(d, cat)
  PROVE  /\ schema_can_be_migrated(d.schema)
         /\ current_schema_is_complete(migrated(d).schema)
         /\ references_hold(d, migrated(d))
<1> DEFINE r == Refreshed(d)
           s == migrated(d).schema
<1>1. provider_table_is_current(d.schema) /\ schema_can_be_migrated(d.schema)
      /\ ("identity_provider_shares" \in d.schema => provider_shares \subseteq d.schema)
  BY DEF Startable, provider_table_is_current
<1>2. s = r.schema
  BY <1>1, MigratedAgrees
<1>3. /\ d.schema \ Dropped \subseteq s
      /\ {"visibility", "models_json", "identity_activities"} \subseteq s
      /\ "identity_provider_shares" \in d.schema \/ provider_shares \subseteq s
      /\ response_sessions \subseteq s /\ "fk_provider" \notin s
      /\ "memories" \in d.schema \/ MEMORY_TABLES \subseteq s
      /\ activity_rollouts \cup ROLLOUT_INDEXES \subseteq s
  BY <1>1, <1>2, RefreshedFacts
<1> HIDE DEF s
<1>4. provider_shares \cap Dropped = {} /\ BASE_TABLES \cap Dropped = {}
      /\ "identity_provider_shares" \in provider_shares
      /\ "memories" \notin Dropped /\ "memory_sources" \notin Dropped
      /\ "activity_rollouts" \in activity_rollouts
  BY DEF provider_shares, BASE_TABLES, Dropped, activity_rollouts
<1>5. provider_shares \subseteq s
  BY <1>1, <1>3, <1>4
<1>6. BASE_TABLES \ {"identity_provider_shares"} \subseteq d.schema
      /\ ("memories" \in d.schema => "memory_sources" \in d.schema)
  BY <1>1 DEF schema_can_be_migrated, required_base_tables_exist
<1>7. BASE_TABLES \subseteq s
  BY <1>3, <1>4, <1>5, <1>6
<1>8. MEMORY_TABLES \subseteq s
  BY <1>3, <1>4, <1>6 DEF MEMORY_TABLES
<1>9. current_schema_is_complete(s)
  BY <1>3, <1>5, <1>7, <1>8 DEF current_schema_is_complete, provider_sharing_schema_exists,
     activity_rollout_schema_exists, response_session_schema_exists
<1> QED
  BY <1>1, <1>3, <1>9 DEF s, references_hold

\* Its rows can be fitted to the catalog.
LEMMA StartableFits ==
  ASSUME NEW d, IsDatabase(d), NEW cat, Startable(d, cat), ~Settled(d), ~Removal(d)
  PROVE  targets_are_known(d, cat)
<1>1. KeptProviders(d) = DOMAIN d.providers
  BY DEF KeptProviders, Removal
<1> QED
  BY <1>1 DEF Startable, targets_are_known, IsDatabase, ForeignKeys

-----------------------------------------------------------------------------
(* The two migrations to the catalog come to the same rows.                  *)

\* A target is its own target.
LEMMA TargetIdempotent ==
  ASSUME NEW type
  PROVE  target_provider_id(target_provider_id(type)) = target_provider_id(type)
<1>1. target_provider_id(type) \in {"gotoken", "kimi", "deepseek", "bigmodel_coding_plan",
                                    "qwen_token_plan", "minimax", NoTarget}
  BY DEF target_provider_id
<1> QED
  BY <1>1 DEF target_provider_id, NoTarget

\* What the migrations have in common: the rows not offered go, with the routes
\* to them and the routes the second one clears.
Fits(d, e, cat) ==
    /\ e.sessions = d.sessions /\ e.shares = d.shares
    /\ e.activities = d.activities /\ e.rollouts = d.rollouts
    /\ {"anthropic_removal_v1", "provider_catalog_v1"} \subseteq e.versions
    /\ DOMAIN e.providers = DOMAIN d.providers
    /\ \A p \in DOMAIN d.providers :
          /\ e.providers[p].type = target_provider_id(d.providers[p].type)
          /\ e.providers[p].models = d.providers[p].models
          /\ e.providers[p].disabled = d.providers[p].disabled
          /\ e.providers[p].capabilities = d.providers[p].capabilities
    /\ DOMAIN e.mappings = {row \in DOMAIN d.mappings : Offered(d, cat, row)}
    /\ \A row \in DOMAIN e.mappings : e.mappings[row] = d.mappings[row]
    /\ DOMAIN e.routes = {m \in DOMAIN d.routes :
                            /\ ~Cleared(d, cat, m)
                            /\ Mapped(d, m) => Offered(d, cat, <<d.routes[m], m>>)}
    /\ \A m \in DOMAIN e.routes : e.routes[m] = d.routes[m]

\* They come to the same rows.
LEMMA FitsAgrees ==
  ASSUME NEW d, NEW e, NEW cat, ~Settled(d), ~Removal(d), Fits(d, e, cat)
  PROVE  Agrees(d, e, cat)
<1>1. KeptProviders(e) = DOMAIN d.providers /\ KeptProviders(d) = DOMAIN d.providers
      /\ ~Removal(e)
  BY DEF Fits, KeptProviders, Removal
<1>2. ASSUME NEW p \in DOMAIN d.providers
      PROVE  /\ TypeOf(e, p) = TypeOf(d, p)
             /\ ModelsOf(e, cat, p) = ModelsOf(d, cat, p)
             /\ UrlsOf(e, cat, p) = UrlsOf(d, cat, p)
             /\ AnthropicOf(e, p) = AnthropicOf(d, p)
  <2>0. /\ e.providers[p].type = target_provider_id(d.providers[p].type)
        /\ e.providers[p].models = d.providers[p].models
        /\ e.providers[p].disabled = d.providers[p].disabled
        /\ e.providers[p].capabilities = d.providers[p].capabilities
    BY DEF Fits
  <2>1. TypeOf(e, p) = TypeOf(d, p)
    BY <1>1, <2>0, TargetIdempotent DEF TypeOf
  <2>2. ModelsOf(e, cat, p) = ModelsOf(d, cat, p)
    BY <2>0, <2>1 DEF ModelsOf
  <2>3. UrlsOf(e, cat, p) = UrlsOf(d, cat, p)
    BY <2>0, <2>1 DEF UrlsOf
  <2>4. AnthropicOf(e, p) = AnthropicOf(d, p)
    BY <1>1, <2>0 DEF AnthropicOf
  <2> QED
    BY <2>1, <2>2, <2>3, <2>4
<1>3. SameProviders(d, e, cat)
  BY <1>1, <1>2 DEF SameProviders
<1>4. /\ DOMAIN e.mappings = {row \in DOMAIN d.mappings : Offered(d, cat, row)}
      /\ \A row \in DOMAIN e.mappings : e.mappings[row] = d.mappings[row]
      /\ DOMAIN e.routes = {m \in DOMAIN d.routes :
                              /\ ~Cleared(d, cat, m)
                              /\ Mapped(d, m) => Offered(d, cat, <<d.routes[m], m>>)}
      /\ \A m \in DOMAIN e.routes : e.routes[m] = d.routes[m]
  BY DEF Fits
<1>5. \A row \in DOMAIN d.mappings :
          row[1] \in DOMAIN d.providers /\ Offered(d, cat, row) => Offered(e, cat, row)
  BY <1>2 DEF Offered
<1>6. MappingsOf(e, cat) = MappingsOf(d, cat)
  BY <1>1, <1>2, <1>4, <1>5 DEF MappingsOf
<1>7. \A row \in MappingsOf(d, cat) : UpstreamOf(e, cat, row) = UpstreamOf(d, cat, row)
  BY <1>1, <1>2, <1>4 DEF MappingsOf, UpstreamOf
<1>8. \A m : ~Cleared(e, cat, m)
  BY <1>1, <1>4, <1>5 DEF Cleared
<1>9. \A m \in DOMAIN e.routes : Mapped(e, m) <=> Mapped(d, m)
  BY <1>4 DEF Mapped
<1>10. \A m \in DOMAIN d.routes :
          <<d.routes[m], m>> \in MappingsOf(d, cat) => Offered(d, cat, <<d.routes[m], m>>)
  BY DEF MappingsOf
<1>11. RoutesOf(e, cat) = RoutesOf(d, cat)
  BY <1>1, <1>4, <1>6, <1>8, <1>9, <1>10 DEF RoutesOf
<1>12. \A m \in RoutesOf(d, cat) : e.routes[m] = d.routes[m]
  BY <1>4, <1>11 DEF RoutesOf
<1>13. SameMappings(d, e, cat)
  BY <1>6, <1>7, <1>11, <1>12 DEF SameMappings
<1>14. ActivitiesOf(e) = ActivitiesOf(d) /\ e.activities = d.activities
  BY <1>1 DEF ActivitiesOf, Fits
<1>15. \A a : ActivityTypeOf(e, a) = ActivityTypeOf(d, a)
  BY <1>1, <1>2, <1>14 DEF ActivityTypeOf
<1>16. SameActivities(d, e)
  BY <1>14, <1>15 DEF SameActivities, Fits
<1> QED
  BY <1>1, <1>3, <1>13, <1>16 DEF Agrees, Fits

\* A row is removed if the catalog does not offer its model.
LEMMA RemovedNotOffered ==
  ASSUME NEW d, NEW cat, ~Settled(d), targets_are_known(d, cat)
  PROVE  RemovedRows(d, cat) = {row \in DOMAIN d.mappings : ~Offered(d, cat, row)}
<1> SUFFICES ASSUME NEW row \in DOMAIN d.mappings
             PROVE  should_remove_model(cat, target_provider_id(d.providers[row[1]].type), row[2])
                      <=> ~Offered(d, cat, row)
  BY DEF RemovedRows
<1> DEFINE type == target_provider_id(d.providers[row[1]].type)
<1>1. has_provider(cat, type) /\ TypeOf(d, row[1]) = type
  BY DEF targets_are_known, TypeOf
<1> HIDE DEF type
<1> QED
  BY <1>1 DEF should_remove_model, provider_supports_language_model,
     provider_supports_image_generation_model, Offered, catalog_models, type

\* The types of the catalog, and what they leave of an account.
LEMMA TargetTypes ==
  ASSUME NEW providers, Accounts(providers)
  PROVE  \A p \in DOMAIN providers :
            LET q == WithTargetTypes(providers)[p]
            IN /\ q.type = target_provider_id(providers[p].type)
               /\ q.models = providers[p].models /\ q.disabled = providers[p].disabled
               /\ q.capabilities = providers[p].capabilities
BY DEF WithTargetTypes, Accounts

\* The first migration.
LEMMA LegacyAgrees ==
  ASSUME NEW d, IsDatabase(d), NEW cat, "provider_catalog_v1" \notin d.versions, ~Removal(d),
         targets_are_known(d, cat)
  PROVE  Agrees(d, legacy_migration(d, cat), cat)
<1> DEFINE gone == RemovedRows(d, cat)
           f == cleanup_endpoint_models(d, cat)
           e == legacy_migration(d, cat)
<1>1. /\ DOMAIN f = DOMAIN d /\ f.schema = d.schema /\ f.versions = d.versions
      /\ f.providers = d.providers /\ f.shares = d.shares /\ f.sessions = d.sessions
      /\ f.activities = d.activities /\ f.rollouts = d.rollouts
      /\ f.mappings = [row \in DOMAIN d.mappings \ gone |-> d.mappings[row]]
      /\ f.routes = [m \in {m \in DOMAIN d.routes : <<d.routes[m], m>> \notin gone} |->
                        d.routes[m]]
  BY DEF cleanup_endpoint_models, IsDatabase, RestrictDomain, Restrict
<1>a. ~Settled(d)
  BY DEF Settled
<1>b. gone = {row \in DOMAIN d.mappings : ~Offered(d, cat, row)}
  BY <1>a, RemovedNotOffered
<1> HIDE DEF gone, f
<1>2. /\ e.versions = f.versions \cup {"provider_catalog_v1"}
      /\ e.providers = WithTargetTypes(f.providers)
      /\ e.shares = f.shares /\ e.sessions = f.sessions
      /\ e.activities = f.activities /\ e.rollouts = f.rollouts
      /\ e.mappings = f.mappings /\ e.routes = f.routes
  BY <1>1 DEF legacy_migration, f, IsDatabase
<1> HIDE DEF e
<1>3. Accounts(d.providers)
  BY DEF IsDatabase, Accounts
<1>4. \A p \in DOMAIN d.providers :
          /\ e.providers[p].type = target_provider_id(d.providers[p].type)
          /\ e.providers[p].models = d.providers[p].models
          /\ e.providers[p].disabled = d.providers[p].disabled
          /\ e.providers[p].capabilities = d.providers[p].capabilities
  BY <1>1, <1>2, <1>3, TargetTypes
<1>5. DOMAIN e.providers = DOMAIN d.providers
  BY <1>1, <1>2, <1>3, WithTargetTypesFacts
<1>6. \A m : ~Cleared(d, cat, m)
  BY DEF Cleared
<1>7. /\ DOMAIN e.mappings = {row \in DOMAIN d.mappings : Offered(d, cat, row)}
      /\ \A row \in DOMAIN e.mappings : e.mappings[row] = d.mappings[row]
  BY <1>1, <1>2, <1>b
<1>8. /\ DOMAIN e.routes = {m \in DOMAIN d.routes :
                              /\ ~Cleared(d, cat, m)
                              /\ Mapped(d, m) => Offered(d, cat, <<d.routes[m], m>>)}
      /\ \A m \in DOMAIN e.routes : e.routes[m] = d.routes[m]
  BY <1>1, <1>2, <1>b, <1>6 DEF Mapped
<1>9. {"anthropic_removal_v1", "provider_catalog_v1"} \subseteq e.versions
  BY <1>1, <1>2 DEF Removal
<1>10. Fits(d, e, cat)
  BY <1>1, <1>2, <1>4, <1>5, <1>7, <1>8, <1>9 DEF Fits
<1> QED
  BY <1>a, <1>10, FitsAgrees DEF e

\* The second migration.
LEMMA ModelSourceAgrees ==
  ASSUME NEW d, IsDatabase(d), NEW cat, "provider_catalog_v1" \in d.versions,
         "provider_model_catalog_v2" \notin d.versions, ~Removal(d),
         targets_are_known(d, cat)
  PROVE  Agrees(d, model_source_migration(d, cat), cat)
<1> DEFINE gone == RemovedRows(d, cat)
           f == WithSchema(d, {}, {"identity_provider_models"})
           e == model_source_migration(d, cat)
<1>1. /\ DOMAIN f = DOMAIN d
      /\ f.versions = d.versions
      /\ f.providers = d.providers /\ f.shares = d.shares /\ f.sessions = d.sessions
      /\ f.activities = d.activities /\ f.rollouts = d.rollouts
      /\ f.mappings = d.mappings /\ f.routes = d.routes
  BY WithSchemaFacts
<1>2. e = [f EXCEPT !.mappings = Restrict(f.mappings, DOMAIN f.mappings \ gone),
                    !.routes = RestrictDomain(f.routes,
                                  LAMBDA m : \A row \in gone : row[2] # m),
                    !.providers = WithTargetTypes(f.providers),
                    !.versions = f.versions \cup {"provider_model_catalog_v2"}]
  BY DEF model_source_migration
<1>a. ~Settled(d)
  BY DEF Settled
<1>b. gone = {row \in DOMAIN d.mappings : ~Offered(d, cat, row)}
  BY <1>a, RemovedNotOffered
<1> HIDE DEF gone, f
<1>3. /\ e.versions = f.versions \cup {"provider_model_catalog_v2"}
      /\ e.providers = WithTargetTypes(f.providers)
      /\ e.shares = f.shares /\ e.sessions = f.sessions
      /\ e.activities = f.activities /\ e.rollouts = f.rollouts
      /\ e.mappings = [row \in DOMAIN f.mappings \ gone |-> f.mappings[row]]
      /\ e.routes = [m \in {m \in DOMAIN f.routes : \A row \in gone : row[2] # m} |->
                        f.routes[m]]
  BY <1>1, <1>2 DEF IsDatabase, RestrictDomain, Restrict
<1> HIDE DEF e
<1>4. Accounts(d.providers)
  BY DEF IsDatabase, Accounts
<1>5. \A p \in DOMAIN d.providers :
          /\ e.providers[p].type = target_provider_id(d.providers[p].type)
          /\ e.providers[p].models = d.providers[p].models
          /\ e.providers[p].disabled = d.providers[p].disabled
          /\ e.providers[p].capabilities = d.providers[p].capabilities
  BY <1>1, <1>3, <1>4, TargetTypes
<1>6. DOMAIN e.providers = DOMAIN d.providers
  BY <1>1, <1>3, <1>4, WithTargetTypesFacts
<1>7. \A m : Cleared(d, cat, m) <=> \E row \in gone : row[2] = m
  <2>1. \A row \in DOMAIN d.mappings : row[1] \in KeptProviders(d)
    BY DEF IsDatabase, ForeignKeys, KeptProviders, Removal
  <2> QED
    BY <1>b, <2>1 DEF Cleared
<1>8. /\ DOMAIN e.mappings = {row \in DOMAIN d.mappings : Offered(d, cat, row)}
      /\ \A row \in DOMAIN e.mappings : e.mappings[row] = d.mappings[row]
  BY <1>1, <1>3, <1>b
<1>9. /\ DOMAIN e.routes = {m \in DOMAIN d.routes :
                              /\ ~Cleared(d, cat, m)
                              /\ Mapped(d, m) => Offered(d, cat, <<d.routes[m], m>>)}
      /\ \A m \in DOMAIN e.routes : e.routes[m] = d.routes[m]
  <2>1. ASSUME NEW m \in DOMAIN d.routes, ~Cleared(d, cat, m), Mapped(d, m)
        PROVE  Offered(d, cat, <<d.routes[m], m>>)
    BY <1>7, <1>b, <2>1 DEF Mapped
  <2> QED
    BY <1>1, <1>3, <1>7, <2>1
<1>10. {"anthropic_removal_v1", "provider_catalog_v1"} \subseteq e.versions
  BY <1>1, <1>3 DEF Removal
<1>11. Fits(d, e, cat)
  BY <1>1, <1>3, <1>5, <1>6, <1>8, <1>9, <1>10 DEF Fits
<1> QED
  BY <1>a, <1>11, FitsAgrees DEF e

-----------------------------------------------------------------------------
(* The loops come to the same rows.                                          *)

\* A database behind the removal and both migrations to the catalog.
Ready(d) == Settled(d) /\ ~Removal(d)

\* What it comes to, read off its rows.
LEMMA ReadyFacts ==
  ASSUME NEW d, Ready(d), NEW cat
  PROVE  /\ KeptProviders(d) = DOMAIN d.providers
         /\ \A p : TypeOf(d, p) = d.providers[p].type
         /\ \A row : Offered(d, cat, row)
         /\ \A m : ~Cleared(d, cat, m)
         /\ ActivitiesOf(d) = DOMAIN d.activities
BY DEF Ready, KeptProviders, Removal, TypeOf, Offered, Cleared, ActivitiesOf

\* A loop over the providers leaves everything else, and the type of each.
LoopsProviders(d, e) ==
    /\ e.versions = d.versions /\ e.mappings = d.mappings /\ e.routes = d.routes
    /\ e.shares = d.shares /\ e.sessions = d.sessions
    /\ e.activities = d.activities /\ e.rollouts = d.rollouts
    /\ DOMAIN e.providers = DOMAIN d.providers
    /\ \A p \in DOMAIN d.providers :
          /\ e.providers[p].type = d.providers[p].type
          /\ e.providers[p].capabilities.anthropic = d.providers[p].capabilities.anthropic

\* What is left to show of it: the models and the addresses.
LEMMA LoopProvidersAgree ==
  ASSUME NEW d, NEW e, NEW cat, Ready(d), LoopsProviders(d, e),
         \A p \in DOMAIN d.providers :
            ModelsOf(e, cat, p) = ModelsOf(d, cat, p) /\ UrlsOf(e, cat, p) = UrlsOf(d, cat, p)
  PROVE  Agrees(d, e, cat)
<1>1. Ready(e) /\ SameVersions(d, e)
  BY DEF Ready, Settled, Removal, LoopsProviders, SameVersions
<1>2. KeptProviders(e) = DOMAIN d.providers /\ KeptProviders(d) = DOMAIN d.providers
      /\ \A p : TypeOf(d, p) = d.providers[p].type /\ TypeOf(e, p) = e.providers[p].type
  BY <1>1, ReadyFacts DEF LoopsProviders
<1>3. \A p \in DOMAIN d.providers :
          TypeOf(e, p) = TypeOf(d, p) /\ AnthropicOf(e, p) = AnthropicOf(d, p)
  BY <1>1, <1>2 DEF LoopsProviders, AnthropicOf, Ready
<1>4. SameProviders(d, e, cat)
  BY <1>2, <1>3 DEF SameProviders
<1> QED
  BY <1>1, <1>4, ProvidersAgree DEF LoopsProviders

\* The models of a database that a list is written to.
LEMMA WrittenModels ==
  ASSUME NEW d, NEW e, NEW cat, Ready(d), LoopsProviders(d, e), NEW p \in DOMAIN d.providers,
         \/ /\ e.providers[p].models = d.providers[p].models
            /\ e.providers[p].disabled = d.providers[p].disabled
         \/ e.providers[p].models = ModelsOf(d, cat, p) /\ ModelsOf(d, cat, p) # {}
         \/ /\ e.providers[p].models = d.providers[p].models
            /\ has_provider(cat, d.providers[p].type) => d.providers[p].models # {}
  PROVE  ModelsOf(e, cat, p) = ModelsOf(d, cat, p)
<1>1. Ready(e)
  BY DEF Ready, Settled, Removal, LoopsProviders
<1>2. TypeOf(d, p) = d.providers[p].type /\ TypeOf(e, p) = d.providers[p].type
  BY <1>1, ReadyFacts DEF LoopsProviders
<1> QED
  BY <1>2 DEF ModelsOf

\* An address the catalog gives is given once.
LEMMA OverlayTwice ==
  ASSUME NEW f, NEW g
  PROVE  /\ Overlay(f, Overlay(f, g)) = Overlay(f, g)
         /\ DOMAIN f \subseteq DOMAIN Overlay(f, g)
         /\ \A key \in DOMAIN f : Overlay(f, g)[key] = f[key]
<1>1. DOMAIN Overlay(f, g) = DOMAIN f \cup DOMAIN g
  BY DEF Overlay
<1>2. \A key \in DOMAIN f \cup DOMAIN g :
          Overlay(f, g)[key] = IF key \in DOMAIN f THEN f[key] ELSE g[key]
  BY DEF Overlay
<1> DEFINE h == Overlay(f, g)
<1> HIDE DEF h
<1>3. Overlay(f, h) = [key \in DOMAIN f \cup DOMAIN h |-> IF key \in DOMAIN f THEN f[key] ELSE h[key]]
  BY DEF Overlay
<1>4. DOMAIN f \cup DOMAIN h = DOMAIN f \cup DOMAIN g
  BY <1>1 DEF h
<1>5. \A key \in DOMAIN f \cup DOMAIN g :
         (IF key \in DOMAIN f THEN f[key] ELSE h[key]) = (IF key \in DOMAIN f THEN f[key] ELSE g[key])
  BY <1>2 DEF h
<1>6. Overlay(f, h) = [key \in DOMAIN f \cup DOMAIN g |-> IF key \in DOMAIN f THEN f[key] ELSE g[key]]
  BY <1>3, <1>4, <1>5
<1> QED
  BY <1>1, <1>2, <1>6 DEF h, Overlay

\* The addresses of a database that they are written to.
LEMMA WrittenUrls ==
  ASSUME NEW d, NEW e, NEW cat, Ready(d), LoopsProviders(d, e), NEW p \in DOMAIN d.providers,
         \/ e.providers[p].capabilities.urls = d.providers[p].capabilities.urls
         \/ /\ has_provider(cat, d.providers[p].type)
            /\ e.providers[p].capabilities.urls
                 = Overlay(cat.providers[d.providers[p].type].protocol_base_urls,
                           d.providers[p].capabilities.urls)
  PROVE  UrlsOf(e, cat, p) = UrlsOf(d, cat, p)
<1>1. Ready(e)
  BY DEF Ready, Settled, Removal, LoopsProviders
<1>2. TypeOf(d, p) = d.providers[p].type /\ TypeOf(e, p) = d.providers[p].type
  BY <1>1, ReadyFacts DEF LoopsProviders
<1>3. CASE e.providers[p].capabilities.urls = d.providers[p].capabilities.urls
  BY <1>2, <1>3 DEF UrlsOf
<1>4. CASE /\ has_provider(cat, d.providers[p].type)
           /\ e.providers[p].capabilities.urls
                 = Overlay(cat.providers[d.providers[p].type].protocol_base_urls,
                           d.providers[p].capabilities.urls)
  BY <1>2, <1>4, OverlayTwice DEF UrlsOf
<1> QED
  BY <1>3, <1>4

\* A loop over the mappings leaves everything else.
LoopsMappings(d, e) ==
    /\ e.versions = d.versions /\ e.providers = d.providers
    /\ e.shares = d.shares /\ e.sessions = d.sessions
    /\ e.activities = d.activities /\ e.rollouts = d.rollouts

\* What is left to show of it: the mappings and the routes.
LEMMA LoopMappingsAgree ==
  ASSUME NEW d, NEW e, NEW cat, Ready(d), LoopsMappings(d, e), SameMappings(d, e, cat)
  PROVE  Agrees(d, e, cat)
<1>1. (Settled(e) <=> Settled(d)) /\ (Removal(e) <=> Removal(d))
      /\ KeptProviders(e) = KeptProviders(d)
  BY DEF Settled, Removal, KeptProviders, LoopsMappings
<1>2. \A p : TypeOf(e, p) = TypeOf(d, p)
  BY <1>1 DEF TypeOf, LoopsMappings
<1>3. SameProviders(d, e, cat)
  BY <1>1, <1>2 DEF SameProviders, ModelsOf, UrlsOf, AnthropicOf, LoopsMappings
<1>4. SameActivities(d, e)
  <2>1. ActivitiesOf(e) = ActivitiesOf(d)
    BY <1>1 DEF ActivitiesOf, LoopsMappings
  <2>2. \A a : ActivityTypeOf(e, a) = ActivityTypeOf(d, a)
    BY <1>1, <1>2 DEF ActivityTypeOf, LoopsMappings
  <2> QED
    BY <2>1, <2>2 DEF SameActivities, LoopsMappings
<1> QED
  BY <1>1, <1>3, <1>4 DEF Agrees, LoopsMappings

\* The models every provider enables, once each has its list.
LEMMA EnabledModels ==
  ASSUME NEW d, NEW cat, Ready(d), NEW p,
         has_provider(cat, d.providers[p].type) => d.providers[p].models # {}
  PROVE  ModelsOf(d, cat, p) = d.providers[p].models
<1>1. TypeOf(d, p) = d.providers[p].type
  BY ReadyFacts
<1> QED
  BY <1>1 DEF ModelsOf

\* A mapping that is stale is not one the upgrade comes to; every other is.
LEMMA ReadyMappings ==
  ASSUME NEW d, IsDatabase(d), NEW cat, Ready(d),
         \A p \in DOMAIN d.providers :
            has_provider(cat, d.providers[p].type) => d.providers[p].models # {}
  PROVE  MappingsOf(d, cat) = {row \in DOMAIN d.mappings : ~mapping_is_stale(d, row)}
<1>1. KeptProviders(d) = DOMAIN d.providers /\ \A row : Offered(d, cat, row)
  BY ReadyFacts
<1>2. \A p \in DOMAIN d.providers : ModelsOf(d, cat, p) = d.providers[p].models
  BY EnabledModels
<1> QED
  BY <1>1, <1>2 DEF MappingsOf, mapping_is_stale, parse_models

\* The same providers with the same types have the same models.
LEMMA SameModels ==
  ASSUME NEW d, NEW e, NEW cat, NEW p, e.providers = d.providers, TypeOf(e, p) = TypeOf(d, p)
  PROVE  ModelsOf(e, cat, p) = ModelsOf(d, cat, p) /\ UrlsOf(e, cat, p) = UrlsOf(d, cat, p)
BY DEF ModelsOf, UrlsOf

\* The delete of the route to a stale mapping.
LEMMA RouteDeletedAgrees ==
  ASSUME NEW d, IsDatabase(d), NEW cat, Ready(d), NEW row \in DOMAIN d.mappings,
         \A p \in DOMAIN d.providers :
            has_provider(cat, d.providers[p].type) => d.providers[p].models # {},
         mapping_is_stale(d, row)
  PROVE  Agrees(d, route_deleted(d, row), cat)
<1> DEFINE e == route_deleted(d, row)
<1>1. /\ LoopsMappings(d, e) /\ e.mappings = d.mappings
      /\ e.routes = [m \in {m \in DOMAIN d.routes : <<d.routes[m], m>> # row} |-> d.routes[m]]
  BY DEF route_deleted, RestrictDomain, Restrict, IsDatabase, LoopsMappings
<1> HIDE DEF e
<1>2. Ready(e)
  BY <1>1 DEF Ready, Settled, Removal, LoopsMappings
<1>3. KeptProviders(e) = KeptProviders(d) /\ \A p : TypeOf(e, p) = TypeOf(d, p)
  BY <1>1, <1>2, ReadyFacts DEF LoopsMappings
<1>4. \A p : ModelsOf(e, cat, p) = ModelsOf(d, cat, p)
  BY <1>1, <1>3, SameModels DEF LoopsMappings
<1>5. MappingsOf(e, cat) = MappingsOf(d, cat)
  BY <1>1, <1>2, <1>3, <1>4, ReadyFacts DEF MappingsOf
<1>6. \A r \in MappingsOf(d, cat) : UpstreamOf(e, cat, r) = UpstreamOf(d, cat, r)
  BY <1>1, <1>3 DEF UpstreamOf
<1>7. row \notin MappingsOf(d, cat)
  BY ReadyMappings
<1>8. \A m : ~Cleared(d, cat, m) /\ ~Cleared(e, cat, m)
  BY <1>2, ReadyFacts
<1>9. ASSUME NEW m \in DOMAIN d.routes, <<d.routes[m], m>> = row
      PROVE  m \notin RoutesOf(d, cat)
  BY <1>7, <1>9 DEF RoutesOf, Mapped
<1>10. \A m \in DOMAIN e.routes : (Mapped(e, m) <=> Mapped(d, m)) /\ e.routes[m] = d.routes[m]
  BY <1>1 DEF Mapped
<1>11. RoutesOf(e, cat) = RoutesOf(d, cat)
  <2>1. RoutesOf(e, cat) \subseteq RoutesOf(d, cat)
    BY <1>1, <1>3, <1>5, <1>8, <1>10 DEF RoutesOf
  <2>2. RoutesOf(d, cat) \subseteq RoutesOf(e, cat)
    <3> SUFFICES ASSUME NEW m \in RoutesOf(d, cat)
                 PROVE  m \in RoutesOf(e, cat)
      OBVIOUS
    <3>1. m \in DOMAIN e.routes
      BY <1>1, <1>9 DEF RoutesOf
    <3> QED
      BY <1>3, <1>5, <1>8, <1>10, <3>1 DEF RoutesOf
  <2> QED
    BY <2>1, <2>2
<1>12. \A m \in RoutesOf(d, cat) : e.routes[m] = d.routes[m]
  BY <1>10, <1>11 DEF RoutesOf
<1>13. SameMappings(d, e, cat)
  BY <1>5, <1>6, <1>11, <1>12 DEF SameMappings
<1> QED
  BY <1>1, <1>13, LoopMappingsAgree DEF e

\* The delete of a stale mapping that no route leads to.
LEMMA MappingDeletedAgrees ==
  ASSUME NEW d, IsDatabase(d), NEW cat, Ready(d), NEW row,
         \A p \in DOMAIN d.providers :
            has_provider(cat, d.providers[p].type) => d.providers[p].models # {},
         mapping_is_stale(d, row), \A m \in DOMAIN d.routes : <<d.routes[m], m>> # row
  PROVE  Agrees(d, mapping_deleted(d, row), cat)
<1> DEFINE e == mapping_deleted(d, row)
<1>1. /\ LoopsMappings(d, e) /\ e.routes = d.routes
      /\ e.mappings = [r \in DOMAIN d.mappings \ {row} |-> d.mappings[r]]
  BY DEF mapping_deleted, Restrict, IsDatabase, LoopsMappings
<1> HIDE DEF e
<1>2. Ready(e)
  BY <1>1 DEF Ready, Settled, Removal, LoopsMappings
<1>3. KeptProviders(e) = KeptProviders(d) /\ \A p : TypeOf(e, p) = TypeOf(d, p)
  BY <1>1, <1>2, ReadyFacts DEF LoopsMappings
<1>4. \A p : ModelsOf(e, cat, p) = ModelsOf(d, cat, p)
  BY <1>1, <1>3, SameModels DEF LoopsMappings
<1>5. row \notin MappingsOf(d, cat)
  BY ReadyMappings
<1>6. MappingsOf(e, cat) = MappingsOf(d, cat)
  <2>1. MappingsOf(e, cat) \subseteq MappingsOf(d, cat)
    BY <1>1, <1>2, <1>3, <1>4, ReadyFacts DEF MappingsOf
  <2>2. MappingsOf(d, cat) \subseteq MappingsOf(e, cat)
    BY <1>1, <1>2, <1>3, <1>4, <1>5, ReadyFacts DEF MappingsOf
  <2> QED
    BY <2>1, <2>2
<1>7. \A r \in MappingsOf(d, cat) : UpstreamOf(e, cat, r) = UpstreamOf(d, cat, r)
  BY <1>1, <1>3, <1>5 DEF UpstreamOf, MappingsOf
<1>8. \A m : ~Cleared(d, cat, m) /\ ~Cleared(e, cat, m)
  BY <1>2, ReadyFacts
<1>9. \A m \in DOMAIN d.routes : Mapped(e, m) <=> Mapped(d, m)
  BY <1>1 DEF Mapped
<1>10. RoutesOf(e, cat) = RoutesOf(d, cat)
  BY <1>1, <1>3, <1>6, <1>8, <1>9 DEF RoutesOf
<1>11. SameMappings(d, e, cat)
  BY <1>1, <1>6, <1>7, <1>10 DEF SameMappings
<1> QED
  BY <1>1, <1>11, LoopMappingsAgree DEF e

\* The name of a model written to its mapping.
LEMMA AlignedAgrees ==
  ASSUME NEW d, NEW e, NEW cat, Ready(d), NEW row \in DOMAIN d.mappings,
         has_provider(cat, d.providers[row[1]].type),
         LoopsMappings(d, e), e.routes = d.routes, DOMAIN e.mappings = DOMAIN d.mappings,
         e.mappings[row] = provider_upstream_model(cat, d.providers[row[1]].type, row[2]),
         \A r \in DOMAIN d.mappings : r # row => e.mappings[r] = d.mappings[r]
  PROVE  Agrees(d, e, cat)
<1>2. Ready(e)
  BY DEF Ready, Settled, Removal, LoopsMappings
<1>3. /\ KeptProviders(e) = KeptProviders(d)
      /\ \A p : TypeOf(e, p) = TypeOf(d, p)
      /\ \A p : TypeOf(d, p) = d.providers[p].type
  BY <1>2, ReadyFacts DEF LoopsMappings
<1>4. \A p : ModelsOf(e, cat, p) = ModelsOf(d, cat, p)
  BY <1>3, SameModels DEF LoopsMappings
<1>5. MappingsOf(e, cat) = MappingsOf(d, cat)
  BY <1>2, <1>3, <1>4, ReadyFacts DEF MappingsOf
<1>6. ASSUME NEW r \in MappingsOf(d, cat)
      PROVE  UpstreamOf(e, cat, r) = UpstreamOf(d, cat, r)
  <2>1. CASE r = row
    BY <1>3, <2>1 DEF UpstreamOf
  <2>2. CASE r # row
    BY <1>3, <2>2 DEF UpstreamOf, MappingsOf
  <2> QED
    BY <2>1, <2>2
<1>7. \A m : ~Cleared(d, cat, m) /\ ~Cleared(e, cat, m)
  BY <1>2, ReadyFacts
<1>8. RoutesOf(e, cat) = RoutesOf(d, cat)
  BY <1>3, <1>5, <1>7 DEF RoutesOf, Mapped
<1>9. SameMappings(d, e, cat)
  BY <1>5, <1>6, <1>8 DEF SameMappings
<1> QED
  BY <1>9, LoopMappingsAgree

\* The types that activities learn are those the upgrade comes to.
LEMMA BackfillAgrees ==
  ASSUME NEW d, NEW e, NEW cat, Ready(d), IsDatabase(d),
         e.versions = d.versions, e.providers = d.providers, e.mappings = d.mappings,
         e.routes = d.routes, e.shares = d.shares, e.sessions = d.sessions,
         e.rollouts = d.rollouts, DOMAIN e.activities = DOMAIN d.activities,
         \A a \in DOMAIN d.activities :
            e.activities[a] =
               IF d.activities[a].type = {} /\ d.activities[a].provider \in DOMAIN d.providers
               THEN [d.activities[a] EXCEPT
                        !.type = {d.providers[d.activities[a].provider].type}]
               ELSE d.activities[a]
  PROVE  Agrees(d, e, cat)
<1>2. Ready(e) /\ (Settled(e) <=> Settled(d)) /\ (Removal(e) <=> Removal(d))
  BY DEF Ready, Settled, Removal
<1>3. /\ KeptProviders(e) = DOMAIN d.providers /\ KeptProviders(d) = DOMAIN d.providers
      /\ \A p : TypeOf(e, p) = d.providers[p].type
      /\ \A p : TypeOf(d, p) = d.providers[p].type
  BY <1>2, ReadyFacts
<1>5. \A p : ModelsOf(e, cat, p) = ModelsOf(d, cat, p) /\ UrlsOf(e, cat, p) = UrlsOf(d, cat, p)
  BY <1>3, SameModels
<1>4. SameProviders(d, e, cat)
  <2>1. \A p : AnthropicOf(e, p) = AnthropicOf(d, p)
    BY <1>2 DEF AnthropicOf
  <2> QED
    BY <1>3, <1>5, <2>1 DEF SameProviders
<1>6. MappingsOf(e, cat) = MappingsOf(d, cat)
  BY <1>2, <1>3, <1>5, ReadyFacts DEF MappingsOf
<1>7. ASSUME NEW r PROVE UpstreamOf(e, cat, r) = UpstreamOf(d, cat, r)
  <2>1. TypeOf(e, r[1]) = TypeOf(d, r[1])
    BY <1>3
  <2> QED
    BY <2>1 DEF UpstreamOf
<1>8. \A m : ~Cleared(d, cat, m) /\ ~Cleared(e, cat, m)
  BY <1>2, ReadyFacts
<1>9. RoutesOf(e, cat) = RoutesOf(d, cat)
  BY <1>3, <1>6, <1>8 DEF RoutesOf, Mapped
<1>10. SameMappings(d, e, cat)
  BY <1>6, <1>7, <1>9 DEF SameMappings
<1>11. ActivitiesOf(e) = DOMAIN d.activities /\ ActivitiesOf(d) = DOMAIN d.activities
  BY <1>2, ReadyFacts
<1>12. ASSUME NEW a \in DOMAIN d.activities
       PROVE  /\ e.activities[a].provider = d.activities[a].provider
              /\ e.activities[a].anthropic = d.activities[a].anthropic
              /\ ActivityTypeOf(e, a) = ActivityTypeOf(d, a)
  <2>1. DOMAIN d.activities[a] = {"provider", "type", "anthropic"}
    BY DEF IsDatabase
  <2>3. /\ e.activities[a].provider = d.activities[a].provider
        /\ e.activities[a].anthropic = d.activities[a].anthropic
        /\ e.activities[a].type = IF d.activities[a].type = {}
                            /\ d.activities[a].provider \in DOMAIN d.providers
                         THEN {d.providers[d.activities[a].provider].type}
                         ELSE d.activities[a].type
    BY <2>1
  <2>4. ActivityTypeOf(e, a) = ActivityTypeOf(d, a)
    BY <1>3, <2>3 DEF ActivityTypeOf
  <2> QED
    BY <2>3, <2>4
<1>13. SameActivities(d, e)
  BY <1>11, <1>12 DEF SameActivities
<1> QED
  BY <1>3, <1>4, <1>10, <1>13 DEF Agrees
-----------------------------------------------------------------------------
(* The invariant of upgrades that are cut off and run again.                 *)

UrlsNamed(p) ==
    LET provider == db.providers[p]
    IN has_provider(catalog, provider.type) =>
          DOMAIN catalog.providers[provider.type].protocol_base_urls
             \subseteq DOMAIN provider.capabilities.urls

\* What the loops have left of the rows.
RowsInv ==
    /\ pc \in FromUrls => \A p \in DOMAIN db.providers : db.providers[p].disabled = {}
    /\ pc = "urls" => \A p \in DOMAIN db.providers \ todo : UrlsNamed(p)
    /\ pc \in FromEndpoints => \A p \in DOMAIN db.providers : UrlsNamed(p)
    /\ \A row \in pending : mapping_is_stale(db, row)

\* With one catalog the database still comes to what the one found does, and can
\* be started from if that one could.
OnCourse(cat) ==
    /\ Agrees(original, db, cat)
    /\ Startable(original, cat) => Startable(db, cat)

HistoryInv ==
    ~schema_is_empty(original.schema) =>
        /\ ~schema_is_empty(db.schema)
        /\ pc \notin {"create", "removal"}
        /\ pc \in FromV1 =>
              \A p \in DOMAIN db.providers : db.providers[p].capabilities.override = FALSE
        /\ \A name \in DOMAIN Documents :
              load(Documents[name]).loaded /\ used \subseteq {name}
                 => OnCourse(load(Documents[name]))
        /\ pc = "refused" /\ used = {document} => ~Startable(original, catalog)

ResumeInv ==
    /\ pc \in Running \cup {"up"} => document \in used
    /\ RowsInv
    /\ HistoryInv

\* A step of a start: nothing is written, or what is written comes to the same.
Progress(d, e, cat) ==
    \/ e = d
    \/ Agrees(d, e, cat) /\ (Settled(d) => Settled(e)) /\ SchemaServes(e.schema)

\* Two steps in one course: agreement, and what can be started from still can.
LEMMA ProgressOnCourse ==
  ASSUME NEW o, NEW d, NEW e, NEW cat, Progress(d, e, cat), Agrees(o, d, cat),
         Startable(o, cat) => Startable(d, cat)
  PROVE  Agrees(o, e, cat) /\ (Startable(o, cat) => Startable(e, cat))
<1>1. CASE e = d
  BY <1>1
<1>2. CASE Agrees(d, e, cat) /\ (Settled(d) => Settled(e)) /\ SchemaServes(e.schema)
  BY <1>2, AgreesTransitive, StartableKept, Zenon
<1> QED  BY <1>1, <1>2 DEF Progress

\* The history after a step of a running start.
LEMMA HistoryStep ==
  ASSUME Inv, ResumeInv, pc \in Running \cup {"up"},
         UNCHANGED <<catalog, document, original, used>>,
         ~schema_is_empty(original.schema) =>
            /\ Progress(db, db', catalog)
            /\ pc' \notin {"create", "removal"}
            /\ pc' \in FromV1 =>
                  \A p \in DOMAIN db'.providers : db'.providers[p].capabilities.override = FALSE
            /\ pc' = "refused" => ~Startable(db, catalog)
  PROVE  HistoryInv'
<1> SUFFICES ASSUME ~schema_is_empty(original.schema)
             PROVE  HistoryInv'
  BY DEF HistoryInv, schema_is_empty
<1>1. /\ document \in used /\ document \in DOMAIN Documents
      /\ catalog = load(Documents[document]) /\ catalog.loaded
  BY DEF Inv, ResumeInv, CatalogInv, NoCatalog, TypeOK
<1>2. /\ ~schema_is_empty(db.schema)
      /\ \A name \in DOMAIN Documents :
            load(Documents[name]).loaded /\ used \subseteq {name}
               => OnCourse(load(Documents[name]))
  BY DEF ResumeInv, HistoryInv
<1>3. ~schema_is_empty(db'.schema)
  <2>1. SchemaServes(db'.schema) => ~schema_is_empty(db'.schema)
    BY ServesStartable
  <2> QED  BY <1>2, <2>1 DEF Progress
<1>4. ASSUME NEW name \in DOMAIN Documents, load(Documents[name]).loaded, used \subseteq {name}
      PROVE  OnCourse(load(Documents[name]))'
  <2> DEFINE cat == load(Documents[name])
  <2>1. cat = catalog /\ OnCourse(cat)
    BY <1>1, <1>2, <1>4
  <2> HIDE DEF cat
  <2>2. Progress(db, db', cat)
    BY <2>1
  <2>3. Agrees(original, db', cat) /\ (Startable(original, cat) => Startable(db', cat))
    BY <2>1, <2>2, ProgressOnCourse, Zenon DEF OnCourse
  <2> QED  BY <2>3 DEF OnCourse, cat
<1>5. pc' = "refused" /\ used = {document} => ~Startable(original, catalog)
  BY <1>1, <1>2 DEF OnCourse
<1> QED  BY <1>3, <1>4, <1>5 DEF HistoryInv
\* Nothing is asked of the rows before the loop over the addresses.
LEMMA EarlyRows ==
  ASSUME pc' \notin FromUrls, pending' = {}
  PROVE  RowsInv'
<1>1. pc' # "urls" /\ pc' \notin FromEndpoints
  BY DEF FromUrls, FromModels, FromBackfill, FromV2, FromV1, FromEndpoints
<1> QED  BY <1>1 DEF RowsInv

\* A step of a running start keeps its document among those used.
LEMMA ResumeStep ==
  ASSUME ResumeInv, pc \in Running \cup {"up"}, UNCHANGED <<document, used>>,
         RowsInv', HistoryInv'
  PROVE  ResumeInv'
BY DEF ResumeInv

\* A database found empty has no course to keep.
LEMMA EmptyStep ==
  ASSUME ResumeInv, schema_is_empty(original.schema), pc \in Running,
         pc' \notin FromUrls, pending' = {}, UNCHANGED <<document, original, used>>
  PROVE  ResumeInv'
<1>1. HistoryInv'
  BY DEF HistoryInv, schema_is_empty
<1> QED  BY <1>1, EarlyRows, ResumeStep

\* Start: the next start has what the last one left.
LEMMA StartResumes ==
  ASSUME Inv, ResumeInv, NEW name \in DOMAIN Documents, Start(name)
  PROVE  ResumeInv'
<1>1. /\ pc \in Ended /\ document' = name /\ catalog' = load(Documents[name])
      /\ pc' = (IF catalog'.loaded THEN "initialize" ELSE "invalid")
      /\ used' = (IF catalog'.loaded THEN used \cup {name} ELSE used)
      /\ UNCHANGED <<db, todo, pending, original>>
  BY DEF Start
<1>2. pc' \in {"initialize", "invalid"} /\ pc' \notin FromV1 /\ used \subseteq used'
  BY <1>1 DEF FromV1
<1>3. pending' = {}
  BY <1>1 DEF Inv, TypeOK
<1>4. RowsInv'
  BY <1>2, <1>3, EarlyRows DEF FromUrls, FromModels, FromBackfill, FromV2
<1>5. pc' \in Running \cup {"up"} => document' \in used'
  BY <1>1, <1>2 DEF Running
<1>6. HistoryInv'
  <2> SUFFICES ASSUME ~schema_is_empty(original.schema)
               PROVE  HistoryInv'
    BY <1>1 DEF HistoryInv, schema_is_empty
  <2>1. /\ ~schema_is_empty(db.schema)
        /\ \A n \in DOMAIN Documents :
              load(Documents[n]).loaded /\ used \subseteq {n} => OnCourse(load(Documents[n]))
    BY DEF ResumeInv, HistoryInv
  <2>2. ASSUME NEW n \in DOMAIN Documents, load(Documents[n]).loaded, used' \subseteq {n}
        PROVE  OnCourse(load(Documents[n]))'
    <3> DEFINE cat == load(Documents[n])
    <3>1. OnCourse(cat)
      BY <1>2, <2>1, <2>2
    <3> HIDE DEF cat
    <3>2. Agrees(original, db', cat) /\ (Startable(original, cat) => Startable(db', cat))
      BY <1>1, <3>1 DEF OnCourse
    <3> QED  BY <1>1, <3>2 DEF OnCourse, cat
  <2> QED  BY <1>1, <1>2, <2>1, <2>2 DEF HistoryInv
<1> QED  BY <1>4, <1>5, <1>6 DEF ResumeInv

\* Stop: what a start has committed is what the next one finds.
LEMMA StopResumes ==
  ASSUME Inv, ResumeInv, Stop
  PROVE  ResumeInv'
<1>1. /\ pc \in Running \cup {"up"} /\ pc' = "down" /\ pending' = {} /\ db' = db
      /\ UNCHANGED <<catalog, document, original, used>>
  BY DEF Stop, Goto, Keeps
<1>2. pc' \notin FromV1
  BY <1>1 DEF FromV1
<1>3. RowsInv'
  BY <1>1, <1>2, EarlyRows DEF FromUrls, FromModels, FromBackfill, FromV2
<1>4. HistoryInv'
  BY <1>1, <1>2, HistoryStep DEF Progress
<1> QED  BY <1>1, <1>3, <1>4, ResumeStep

\* A refusal: it was not a database to start from.
LEMMA RefuseResumes ==
  ASSUME Inv, ResumeInv, pc \in Running, Refuse,
         ~schema_is_empty(original.schema) => ~Startable(db, catalog)
  PROVE  ResumeInv'
<1>1. /\ pc' = "refused" /\ pending' = {} /\ db' = db
      /\ UNCHANGED <<catalog, document, original, used>>
  BY DEF Refuse, Goto, Keeps
<1>2. pc' \notin FromV1
  BY <1>1 DEF FromV1
<1>3. RowsInv'
  BY <1>1, <1>2, EarlyRows DEF FromUrls, FromModels, FromBackfill, FromV2
<1>4. HistoryInv'
  BY <1>1, <1>2, HistoryStep DEF Progress
<1> QED  BY <1>1, <1>3, <1>4, ResumeStep

\* The steps that create the schema happen only to a database found empty.
LEMMA CreateResumes ==
  ASSUME ResumeInv,
         InitializeEmpty \/ CreateNext \/ ApplyActivityRollout \/ ApplyAnthropicRemoval
  PROVE  ResumeInv'
<1>1. /\ pc \in {"initialize", "create", "removal"} /\ pc' \in {"create", "removal", "catalog_v1"}
      /\ pending' = {} /\ UNCHANGED <<document, original, used>>
      /\ pc = "initialize" => schema_is_empty(db.schema)
  BY DEF InitializeEmpty, CreateNext, ApplyActivityRollout, ApplyAnthropicRemoval, Goto, Keeps
<1>2. schema_is_empty(original.schema)
  BY <1>1 DEF ResumeInv, HistoryInv
<1>3. pc \in Running /\ pc' \notin FromUrls
  BY <1>1 DEF Running, FromUrls, FromModels, FromBackfill, FromV2, FromV1
<1> QED  BY <1>1, <1>2, <1>3, EmptyStep

\* Upgrade: the transaction comes to the same, or the database was to be refused.
LEMMA UpgradeResumes ==
  ASSUME Inv, Inv', ResumeInv, Upgrade
  PROVE  ResumeInv'
<1>1. CASE /\ Refuse
           /\ ~(/\ schema_can_be_migrated(db.schema)
                /\ current_schema_is_complete(migrated(db).schema)
                /\ references_hold(db, migrated(db)))
  <2>1. ~Startable(db, catalog)
    BY <1>1, StartableCommits DEF Inv
  <2>2. pc \in Running
    BY DEF Upgrade, Running
  <2> QED  BY <1>1, <2>1, <2>2, RefuseResumes
<1>2. CASE /\ current_schema_is_complete(migrated(db).schema)
           /\ db' = migrated(db) /\ Goto("catalog_v1", {})
  <2>1. /\ pc = "initialize" /\ pc' = "catalog_v1" /\ pending' = {}
        /\ UNCHANGED <<catalog, document, original, used>>
    BY <1>2 DEF Upgrade, Goto, Keeps
  <2>2. provider_table_is_current(db.schema)
    BY <1>2, MigratedSchema DEF Inv, current_schema_is_complete, provider_sharing_schema_exists
  <2>3. /\ Agrees(db, db', catalog) /\ (Settled(db') <=> Settled(db))
        /\ \A p \in DOMAIN db'.providers : db'.providers[p].capabilities.override = FALSE
    BY <1>2, <2>2, MigratedAgrees DEF Inv
  <2>4. SchemaServes(db.schema)'
    BY <2>1 DEF Inv, StageInv, FromV1
  <2>5. Progress(db, db', catalog)
    BY <2>3, <2>4 DEF Progress, SchemaServes
  <2>6. pc \in Running /\ pc' \notin FromUrls
    BY <2>1 DEF Running, FromUrls, FromModels, FromBackfill, FromV2, FromV1
  <2>7. HistoryInv'
    BY <2>1, <2>3, <2>5, <2>6, HistoryStep
  <2> QED  BY <2>1, <2>6, <2>7, EarlyRows, ResumeStep
<1> QED  BY <1>1, <1>2 DEF Upgrade
\* A step from the migrations to the catalog on that comes to the same.
LEMMA LateResumes ==
  ASSUME Inv, Inv', ResumeInv, pc \in Running \cap FromV1, pc' \in FromV1,
         UNCHANGED <<catalog, document, original, used>>,
         Agrees(db, db', catalog), Settled(db) => Settled(db'),
         DOMAIN db'.providers = DOMAIN db.providers,
         \A p \in DOMAIN db.providers :
            db'.providers[p].capabilities.override = db.providers[p].capabilities.override,
         RowsInv'
  PROVE  ResumeInv'
<1>1. SchemaServes(db.schema)'
  BY DEF Inv, StageInv
<1>2. Progress(db, db', catalog)
  BY <1>1 DEF Progress, SchemaServes
<1>3. pc' \notin {"create", "removal"} /\ pc' # "refused"
  BY Stages
<1>4. ~schema_is_empty(original.schema) =>
         \A p \in DOMAIN db'.providers : db'.providers[p].capabilities.override = FALSE
  BY DEF ResumeInv, HistoryInv
<1>5. HistoryInv'
  BY <1>2, <1>3, <1>4, HistoryStep
<1> QED  BY <1>5, ResumeStep

\* A step that writes nothing.
LEMMA StillResumes ==
  ASSUME Inv, Inv', ResumeInv, pc \in Running \cap FromV1, pc' \in FromV1,
         UNCHANGED <<db, catalog, document, original, used>>, RowsInv'
  PROVE  ResumeInv'
<1>1. Agrees(db, db', catalog)
  BY AgreesReflexive
<1> QED  BY <1>1, LateResumes

\* A running start has the removal behind it once it fits rows to the catalog,
\* and both migrations from the first loop on.
LEMMA StageFacts ==
  ASSUME Inv
  PROVE  /\ pc \in FromV1 => ~Removal(db)
         /\ pc \in FromBackfill => Ready(db)
<1>1. pc \in FromBackfill => pc \in FromV1 /\ pc \in FromV2
  BY Stages
<1> QED  BY <1>1 DEF Inv, StageInv, Removal, Ready, Settled

\* The providers after either migration.
LEMMA TargetedProviders ==
  ASSUME NEW providers, Accounts(providers)
  PROVE  /\ DOMAIN WithTargetTypes(providers) = DOMAIN providers
         /\ \A p \in DOMAIN providers :
               WithTargetTypes(providers)[p].capabilities = providers[p].capabilities
<1>1. DOMAIN WithTargetTypes(providers) = DOMAIN providers
  BY DEF WithTargetTypes
<1> QED  BY <1>1, TargetTypes

\* ApplyLegacyMigration: refused only with a provider that has no entry.
LEMMA LegacyResumes ==
  ASSUME Inv, Inv', ResumeInv, ApplyLegacyMigration
  PROVE  ResumeInv'
<1>0. pc = "catalog_v1" /\ pc \in Running \cap FromV1 /\ IsDatabase(db) /\ ~Removal(db)
  BY Stages, StageFacts DEF ApplyLegacyMigration, Running, Inv
<1>1. CASE /\ Refuse /\ "provider_catalog_v1" \notin db.versions
           /\ ~targets_are_known(db, catalog)
  <2>1. ~Settled(db)
    BY <1>1 DEF Settled
  <2>2. ~Startable(db, catalog)
    BY <1>0, <1>1, <2>1, StartableFits
  <2> QED  BY <1>0, <1>1, <2>2, RefuseResumes
<1>2. CASE Goto("catalog_v2", {}) /\ UNCHANGED db
  <2>1. pc' \in FromV1 /\ pc' \notin FromUrls /\ pending' = {}
        /\ UNCHANGED <<catalog, document, original, used>>
    BY <1>2, Stages DEF Goto, Keeps
  <2> QED  BY <1>0, <1>2, <2>1, EarlyRows, StillResumes
<1>3. CASE /\ Goto("catalog_v2", {}) /\ "provider_catalog_v1" \notin db.versions
           /\ targets_are_known(db, catalog) /\ db' = legacy_migration(db, catalog)
  <2>1. pc' \in FromV1 /\ pc' \notin FromUrls /\ pending' = {}
        /\ UNCHANGED <<catalog, document, original, used>>
    BY <1>3, Stages DEF Goto, Keeps
  <2>2. Agrees(db, db', catalog)
    BY <1>0, <1>3, LegacyAgrees
  <2>3. ~Settled(db)
    BY <1>3 DEF Settled
  <2>4. db'.providers = WithTargetTypes(db.providers)
    BY <1>0, <1>3 DEF legacy_migration, cleanup_endpoint_models, IsDatabase
  <2>5. Accounts(db.providers)
    BY <1>0 DEF Accounts, IsDatabase
  <2>6. /\ DOMAIN db'.providers = DOMAIN db.providers
        /\ \A p \in DOMAIN db.providers :
              db'.providers[p].capabilities = db.providers[p].capabilities
    BY <2>4, <2>5, TargetedProviders
  <2> QED  BY <1>0, <2>1, <2>2, <2>3, <2>6, EarlyRows, LateResumes
<1> QED  BY <1>1, <1>2, <1>3 DEF ApplyLegacyMigration

\* ApplyModelSourceMigration: so is this one.
LEMMA ModelSourceResumes ==
  ASSUME Inv, Inv', ResumeInv, ApplyModelSourceMigration
  PROVE  ResumeInv'
<1>0. /\ pc = "catalog_v2" /\ pc \in Running \cap FromV1 /\ IsDatabase(db) /\ ~Removal(db)
      /\ "provider_catalog_v1" \in db.versions
  BY Stages, StageFacts DEF ApplyModelSourceMigration, Running, Inv, StageInv
<1>1. CASE /\ Refuse /\ "provider_model_catalog_v2" \notin db.versions
           /\ ~targets_are_known(db, catalog)
  <2>1. ~Settled(db)
    BY <1>1 DEF Settled
  <2>2. ~Startable(db, catalog)
    BY <1>0, <1>1, <2>1, StartableFits
  <2> QED  BY <1>0, <1>1, <2>2, RefuseResumes
<1>2. CASE Goto("backfill", {}) /\ UNCHANGED db
  <2>1. pc' \in FromV1 /\ pc' \notin FromUrls /\ pending' = {}
        /\ UNCHANGED <<catalog, document, original, used>>
    BY <1>2, Stages DEF Goto, Keeps
  <2> QED  BY <1>0, <1>2, <2>1, EarlyRows, StillResumes
<1>3. CASE /\ Goto("backfill", {}) /\ "provider_model_catalog_v2" \notin db.versions
           /\ targets_are_known(db, catalog) /\ db' = model_source_migration(db, catalog)
  <2>1. pc' \in FromV1 /\ pc' \notin FromUrls /\ pending' = {}
        /\ UNCHANGED <<catalog, document, original, used>>
    BY <1>3, Stages DEF Goto, Keeps
  <2>2. Agrees(db, db', catalog)
    BY <1>0, <1>3, ModelSourceAgrees
  <2>3. ~Settled(db)
    BY <1>3 DEF Settled
  <2>4. db'.providers = WithTargetTypes(db.providers)
    BY <1>0, <1>3 DEF model_source_migration, WithSchema, IsDatabase
  <2>5. Accounts(db.providers)
    BY <1>0 DEF Accounts, IsDatabase
  <2>6. /\ DOMAIN db'.providers = DOMAIN db.providers
        /\ \A p \in DOMAIN db.providers :
              db'.providers[p].capabilities = db.providers[p].capabilities
    BY <2>4, <2>5, TargetedProviders
  <2> QED  BY <1>0, <2>1, <2>2, <2>3, <2>6, EarlyRows, LateResumes
<1> QED  BY <1>1, <1>2, <1>3 DEF ApplyModelSourceMigration

\* BackfillActivityProviderTypes: activities learn the type they come to.
LEMMA BackfillResumes ==
  ASSUME Inv, Inv', ResumeInv, BackfillActivityProviderTypes
  PROVE  ResumeInv'
<1> DEFINE Row(a) ==
             IF db.activities[a].type = {} /\ db.activities[a].provider \in DOMAIN db.providers
             THEN [db.activities[a] EXCEPT
                      !.type = {db.providers[db.activities[a].provider].type}]
             ELSE db.activities[a]
<1>1. /\ pc = "backfill" /\ pc' = "models" /\ pending' = {}
      /\ UNCHANGED <<catalog, document, original, used>>
  BY DEF BackfillActivityProviderTypes, Goto, Keeps
<1>2. db' = [db EXCEPT !.activities = [a \in DOMAIN db.activities |-> Row(a)]]
  BY DEF BackfillActivityProviderTypes
<1>3. /\ pc \in Running \cap FromV1 /\ pc' \in FromV1 /\ pc' \notin FromUrls
      /\ IsDatabase(db) /\ Ready(db)
  BY <1>1, Stages, StageFacts DEF Running, Inv
<1> HIDE DEF Row
<1>4. /\ db'.versions = db.versions /\ db'.sessions = db.sessions
      /\ db'.providers = db.providers /\ db'.mappings = db.mappings
      /\ db'.routes = db.routes /\ db'.shares = db.shares /\ db'.rollouts = db.rollouts
      /\ DOMAIN db'.activities = DOMAIN db.activities
      /\ \A a \in DOMAIN db.activities : db'.activities[a] = Row(a)
  BY <1>2, <1>3 DEF IsDatabase
<1>5. Agrees(db, db', catalog)
  BY <1>3, <1>4, BackfillAgrees DEF Row
<1>6. Settled(db) => Settled(db')
  BY <1>4 DEF Settled
<1> QED  BY <1>1, <1>3, <1>4, <1>5, <1>6, EarlyRows, LateResumes
\* A step of a loop over the providers.
LEMMA ProvidersLoopResumes ==
  ASSUME Inv, Inv', ResumeInv, pc \in Running \cap FromBackfill, pc' \in FromBackfill,
         UNCHANGED <<catalog, document, original, used>>, LoopsProviders(db, db'),
         \A p \in DOMAIN db.providers :
            /\ ModelsOf(db', catalog, p) = ModelsOf(db, catalog, p)
            /\ UrlsOf(db', catalog, p) = UrlsOf(db, catalog, p)
            /\ db'.providers[p].capabilities.override = db.providers[p].capabilities.override,
         RowsInv'
  PROVE  ResumeInv'
<1>1. Ready(db) /\ pc \in Running \cap FromV1 /\ pc' \in FromV1
  BY Stages, StageFacts
<1>2. Agrees(db, db', catalog)
  BY <1>1, LoopProvidersAgree
<1>3. (Settled(db) => Settled(db')) /\ DOMAIN db'.providers = DOMAIN db.providers
  BY DEF Settled, LoopsProviders
<1> QED  BY <1>1, <1>2, <1>3, LateResumes

\* MigrateProviderModels: the list that is written is the one it comes to.
LEMMA ModelsResume ==
  ASSUME Inv, Inv', ResumeInv, NEW p \in DOMAIN db.providers, MigrateProviderModels(p)
  PROVE  ResumeInv'
<1> DEFINE row == db.providers[p]
           written == row.models = {} /\ has_provider(catalog, row.type)
           list == catalog_models(catalog, row.type) \ row.disabled
<1>1. /\ pc = "models" /\ pc' = "models" /\ pending' = {}
      /\ UNCHANGED <<catalog, document, original, used>>
  BY DEF MigrateProviderModels, Goto, Keeps
<1>2. db' = IF written THEN [db EXCEPT !.providers[p].models = {list}] ELSE db
  BY DEF MigrateProviderModels
<1>3. /\ pc \in Running \cap FromBackfill /\ pc' \in FromBackfill /\ pc' \notin FromUrls
      /\ IsDatabase(db) /\ Ready(db)
  BY <1>1, Stages, StageFacts DEF Running, Inv
<1>a. TypeOf(db, p) = row.type
  BY <1>3, ReadyFacts
<1>b. ModelsOf(db, catalog, p) = IF written THEN {list} ELSE row.models
  BY <1>a DEF ModelsOf
<1> HIDE DEF list
<1>4. /\ db'.versions = db.versions /\ db'.mappings = db.mappings /\ db'.routes = db.routes
      /\ db'.shares = db.shares /\ db'.sessions = db.sessions
      /\ db'.rollouts = db.rollouts /\ db'.activities = db.activities
  BY <1>2, <1>3 DEF IsDatabase
<1>5. db'.providers = IF written
                      THEN [db.providers EXCEPT ![p] = [db.providers[p] EXCEPT !.models = {list}]]
                      ELSE db.providers
  BY <1>2, <1>3 DEF IsDatabase
<1>6. DOMAIN row = {"type", "models", "disabled", "capabilities"}
  BY <1>3 DEF IsDatabase
<1>7. /\ DOMAIN db'.providers = DOMAIN db.providers
      /\ \A q \in DOMAIN db.providers :
            /\ q # p => db'.providers[q] = db.providers[q]
            /\ db'.providers[q].capabilities = db.providers[q].capabilities
            /\ db'.providers[q].type = db.providers[q].type
            /\ db'.providers[q].disabled = db.providers[q].disabled
      /\ db'.providers[p].models = IF written THEN {list} ELSE row.models
  BY <1>5, <1>6
<1>8. LoopsProviders(db, db')
  BY <1>4, <1>7 DEF LoopsProviders
<1>9. ASSUME NEW q \in DOMAIN db.providers
      PROVE  /\ ModelsOf(db', catalog, q) = ModelsOf(db, catalog, q)
             /\ UrlsOf(db', catalog, q) = UrlsOf(db, catalog, q)
  <2>1. UrlsOf(db', catalog, q) = UrlsOf(db, catalog, q)
    <3>1. db'.providers[q].capabilities.urls = db.providers[q].capabilities.urls
      BY <1>7
    <3> QED  BY <1>3, <1>8, <3>1, WrittenUrls, Zenon
  <2>2. CASE q # p \/ ~written
    <3>1. db'.providers[q].models = db.providers[q].models
      BY <1>7, <2>2
    <3> QED  BY <1>3, <1>7, <1>8, <2>1, <3>1, WrittenModels
  <2>3. CASE q = p /\ written
    <3>1. db'.providers[q].models = ModelsOf(db, catalog, q) /\ ModelsOf(db, catalog, q) # {}
      BY <1>7, <1>b, <2>3
    <3>2. Ready(db)
      BY <1>3
    <3>3. ModelsOf(db', catalog, q) = ModelsOf(db, catalog, q)
      BY <1>8, <3>1, <3>2, WrittenModels, Zenon
    <3> QED  BY <2>1, <3>3
  <2> QED  BY <2>2, <2>3
<1> QED  BY <1>1, <1>3, <1>7, <1>8, <1>9, EarlyRows, ProvidersLoopResumes

\* DropDisabledModels: no list is written from the column any more.
LEMMA DropResumes ==
  ASSUME Inv, Inv', ResumeInv, DropDisabledModels
  PROVE  ResumeInv'
<1> DEFINE d == WithSchema(db, {}, {"disabled_models_json"})
<1>1. /\ pc = "models" /\ pc' = "urls" /\ todo = {} /\ todo' = DOMAIN db.providers
      /\ pending' = {} /\ UNCHANGED <<catalog, document, original, used>>
  BY DEF DropDisabledModels, Goto, Keeps
<1>2. db' = [d EXCEPT !.providers = [p \in DOMAIN d.providers |->
                                       [d.providers[p] EXCEPT !.disabled = {}]]]
  BY DEF DropDisabledModels
<1>3. /\ pc \in Running \cap FromBackfill /\ pc' \in FromBackfill /\ pc' \notin FromEndpoints
      /\ IsDatabase(db) /\ Ready(db)
  BY <1>1, Stages, StageFacts DEF Running, Inv
<1>4. /\ DOMAIN d = DOMAIN db /\ d.versions = db.versions /\ d.providers = db.providers
      /\ d.mappings = db.mappings /\ d.routes = db.routes /\ d.shares = db.shares
      /\ d.sessions = db.sessions
      /\ d.rollouts = db.rollouts /\ d.activities = db.activities
  BY <1>3, WithSchemaFacts
<1> HIDE DEF d
<1>5. /\ db'.versions = db.versions /\ db'.mappings = db.mappings /\ db'.routes = db.routes
      /\ db'.shares = db.shares /\ db'.sessions = db.sessions /\ db'.rollouts = db.rollouts
      /\ db'.activities = db.activities
      /\ db'.providers = [p \in DOMAIN db.providers |->
                             [db.providers[p] EXCEPT !.disabled = {}]]
  BY <1>2, <1>3, <1>4 DEF IsDatabase
<1>6. /\ DOMAIN db'.providers = DOMAIN db.providers
      /\ \A p \in DOMAIN db.providers :
            /\ db'.providers[p].capabilities = db.providers[p].capabilities
            /\ db'.providers[p].type = db.providers[p].type
            /\ db'.providers[p].models = db.providers[p].models
            /\ db'.providers[p].disabled = {}
  BY <1>3, <1>5 DEF IsDatabase
<1>7. LoopsProviders(db, db')
  BY <1>5, <1>6 DEF LoopsProviders
<1>8. \A q \in DOMAIN db.providers :
         has_provider(catalog, db.providers[q].type) => db.providers[q].models # {}
  BY <1>1, Stages DEF Inv, StageInv, LoopInv, HasModels
<1>9. ASSUME NEW q \in DOMAIN db.providers
      PROVE  /\ ModelsOf(db', catalog, q) = ModelsOf(db, catalog, q)
             /\ UrlsOf(db', catalog, q) = UrlsOf(db, catalog, q)
  <2>1. /\ db'.providers[q].capabilities.urls = db.providers[q].capabilities.urls
        /\ db'.providers[q].models = db.providers[q].models
        /\ has_provider(catalog, db.providers[q].type) => db.providers[q].models # {}
    BY <1>6, <1>8
  <2>2. ModelsOf(db', catalog, q) = ModelsOf(db, catalog, q)
    BY <1>3, <1>7, <2>1, WrittenModels, Zenon
  <2>3. UrlsOf(db', catalog, q) = UrlsOf(db, catalog, q)
    BY <1>3, <1>7, <2>1, WrittenUrls, Zenon
  <2> QED  BY <2>2, <2>3
<1>10. RowsInv'
  BY <1>1, <1>3, <1>6 DEF RowsInv
<1> QED  BY <1>1, <1>3, <1>6, <1>7, <1>9, <1>10, ProvidersLoopResumes

\* ReconcileProtocolBaseUrls: the addresses that are written are those it comes to.
LEMMA UrlsResume ==
  ASSUME Inv, Inv', ResumeInv, NEW p \in DOMAIN db.providers, ReconcileProtocolBaseUrls(p)
  PROVE  ResumeInv'
<1> DEFINE row == db.providers[p]
           known == has_provider(catalog, row.type)
           base == catalog.providers[row.type].protocol_base_urls
           urls == Overlay(base, row.capabilities.urls)
           caps == [row.capabilities EXCEPT !.urls = urls]
<1>1. /\ pc = "urls" /\ pc' = "urls" /\ todo' = todo \ {p} /\ pending' = {}
      /\ UNCHANGED <<catalog, document, original, used>>
  BY DEF ReconcileProtocolBaseUrls, Goto, Keeps
<1>2. db' = IF known THEN [db EXCEPT !.providers[p].capabilities.urls = urls] ELSE db
  BY DEF ReconcileProtocolBaseUrls
<1>3. /\ pc \in Running \cap FromBackfill /\ pc' \in FromBackfill /\ pc' \notin FromEndpoints
      /\ IsDatabase(db) /\ Ready(db)
  BY <1>1, Stages, StageFacts DEF Running, Inv
<1>a. DOMAIN base \subseteq DOMAIN urls
  BY OverlayTwice
<1> HIDE DEF urls, base
<1>4. /\ db'.versions = db.versions /\ db'.mappings = db.mappings /\ db'.routes = db.routes
      /\ db'.shares = db.shares /\ db'.sessions = db.sessions
      /\ db'.rollouts = db.rollouts /\ db'.activities = db.activities
  BY <1>2, <1>3 DEF IsDatabase
<1>5. db'.providers = IF known
                      THEN [db.providers EXCEPT ![p] = [row EXCEPT !.capabilities = caps]]
                      ELSE db.providers
  BY <1>2, <1>3 DEF IsDatabase
<1>6. /\ DOMAIN row = {"type", "models", "disabled", "capabilities"}
      /\ DOMAIN row.capabilities = {"override", "anthropic", "urls"}
  BY <1>3 DEF IsDatabase
<1>b. /\ caps.urls = urls /\ caps.override = row.capabilities.override
      /\ caps.anthropic = row.capabilities.anthropic
  BY <1>6
<1> HIDE DEF caps
<1>7. /\ DOMAIN db'.providers = DOMAIN db.providers
      /\ \A q \in DOMAIN db.providers :
            /\ q # p => db'.providers[q] = db.providers[q]
            /\ db'.providers[q].type = db.providers[q].type
            /\ db'.providers[q].models = db.providers[q].models
            /\ db'.providers[q].disabled = db.providers[q].disabled
      /\ db'.providers[p].capabilities = IF known THEN caps ELSE row.capabilities
  BY <1>5, <1>6
<1>8. \A q \in DOMAIN db.providers :
         /\ db'.providers[q].capabilities.override = db.providers[q].capabilities.override
         /\ db'.providers[q].capabilities.anthropic = db.providers[q].capabilities.anthropic
  BY <1>7, <1>b
<1>9. LoopsProviders(db, db')
  BY <1>4, <1>7, <1>8 DEF LoopsProviders
<1>10. ASSUME NEW q \in DOMAIN db.providers
       PROVE  /\ ModelsOf(db', catalog, q) = ModelsOf(db, catalog, q)
              /\ UrlsOf(db', catalog, q) = UrlsOf(db, catalog, q)
  <2>1. ModelsOf(db', catalog, q) = ModelsOf(db, catalog, q)
    BY <1>3, <1>7, <1>9, WrittenModels
  <2>2. CASE q # p \/ ~known
    <3>1. db'.providers[q].capabilities.urls = db.providers[q].capabilities.urls
      BY <1>7, <2>2
    <3> QED  BY <1>3, <1>9, <2>1, <3>1, WrittenUrls
  <2>3. CASE q = p /\ known
    <3>1. db'.providers[p].capabilities.urls = urls
      BY <1>7, <1>b, <2>3
    <3> QED  BY <1>3, <1>9, <2>1, <2>3, <3>1, WrittenUrls DEF urls, base
  <2> QED  BY <2>2, <2>3
<1>11. RowsInv'
  <2>1. /\ \A q \in DOMAIN db.providers : db.providers[q].disabled = {}
        /\ \A q \in DOMAIN db.providers \ todo : UrlsNamed(q)
    BY <1>1, Stages DEF ResumeInv, RowsInv
  <2>2. ASSUME NEW q \in DOMAIN db'.providers \ todo'
        PROVE  UrlsNamed(q)'
    <3>1. CASE q = p
      BY <1>1, <1>7, <1>a, <1>b, <3>1 DEF UrlsNamed, has_provider, base
    <3>2. CASE q # p
      BY <1>1, <1>7, <2>1, <3>2 DEF UrlsNamed, has_provider
    <3> QED  BY <3>1, <3>2
  <2> QED  BY <1>1, <1>3, <1>7, <2>1, <2>2 DEF RowsInv
<1> QED  BY <1>1, <1>3, <1>8, <1>9, <1>10, <1>11, ProvidersLoopResumes
\* The last loop leaves the providers as they are.
LEMMA EndpointsRows ==
  ASSUME ResumeInv, pc = "endpoints", pc' \in FromEndpoints, UNCHANGED catalog,
         db'.providers = db.providers,
         \A row \in pending' : mapping_is_stale(db, row)
  PROVE  RowsInv'
<1>1. \A p \in DOMAIN db.providers : db.providers[p].disabled = {} /\ UrlsNamed(p)
  BY Stages DEF ResumeInv, RowsInv
<1>2. \A p \in DOMAIN db'.providers : UrlsNamed(p)'
  BY <1>1 DEF UrlsNamed, has_provider
<1>3. \A row \in pending' : mapping_is_stale(db, row)'
  BY DEF mapping_is_stale, parse_models
<1>4. pc' # "urls"
  BY Stages
<1> QED  BY <1>1, <1>2, <1>3, <1>4 DEF RowsInv

\* A step of the last loop.
LEMMA MappingsLoopResumes ==
  ASSUME Inv, Inv', ResumeInv, pc = "endpoints", pc' = "endpoints",
         UNCHANGED <<catalog, document, original, used>>, LoopsMappings(db, db'),
         Agrees(db, db', catalog),
         \A row \in pending' : mapping_is_stale(db, row)
  PROVE  ResumeInv'
<1>1. pc \in Running \cap FromV1 /\ pc' \in FromV1 /\ pc' \in FromEndpoints
  BY Stages DEF Running
<1>2. db'.providers = db.providers /\ (Settled(db) => Settled(db'))
  BY DEF LoopsMappings, Settled
<1>3. RowsInv'
  BY <1>1, <1>2, EndpointsRows
<1> QED  BY <1>1, <1>2, <1>3, LateResumes

\* What the last loop may rely on.
LEMMA EndpointsFacts ==
  ASSUME Inv, pc = "endpoints"
  PROVE  /\ Ready(db) /\ IsDatabase(db)
         /\ \A p \in DOMAIN db.providers :
               has_provider(catalog, db.providers[p].type) => db.providers[p].models # {}
BY Stages, StageFacts DEF Inv, StageInv, LoopInv, HasModels

\* BeginEndpointModels: nothing is written.
LEMMA BeginEndpointsResumes ==
  ASSUME Inv, Inv', ResumeInv, BeginEndpointModels
  PROVE  ResumeInv'
<1>1. /\ pc = "urls" /\ pc' = "endpoints" /\ todo = {} /\ pending' = {} /\ db' = db
      /\ UNCHANGED <<catalog, document, original, used>>
  BY DEF BeginEndpointModels, Goto, Keeps
<1>2. pc \in Running \cap FromV1 /\ pc' \in FromV1
  BY <1>1, Stages DEF Running
<1>3. \A p \in DOMAIN db.providers : db.providers[p].disabled = {} /\ UrlsNamed(p)
  BY <1>1, Stages DEF ResumeInv, RowsInv
<1>4. \A p \in DOMAIN db'.providers : UrlsNamed(p)'
  BY <1>1, <1>3 DEF UrlsNamed, has_provider
<1>5. RowsInv'
  BY <1>1, <1>3, <1>4 DEF RowsInv
<1> QED  BY <1>1, <1>2, <1>5, StillResumes

\* DeleteRoute: the route of a mapping the upgrade does not come to.
LEMMA DeleteRouteResumes ==
  ASSUME Inv, Inv', ResumeInv, NEW row \in DOMAIN db.mappings, DeleteRoute(row)
  PROVE  ResumeInv'
<1>1. /\ pc = "endpoints" /\ pc' = "endpoints" /\ pending' = {row} /\ mapping_is_stale(db, row)
      /\ db' = route_deleted(db, row) /\ UNCHANGED <<catalog, document, original, used>>
  BY DEF DeleteRoute, Keeps
<1>2. /\ Ready(db) /\ IsDatabase(db)
      /\ \A p \in DOMAIN db.providers :
            has_provider(catalog, db.providers[p].type) => db.providers[p].models # {}
  BY <1>1, EndpointsFacts
<1>3. Agrees(db, db', catalog)
  BY <1>1, <1>2, RouteDeletedAgrees
<1>4. LoopsMappings(db, db')
  BY <1>1, <1>2 DEF route_deleted, IsDatabase, LoopsMappings
<1> QED  BY <1>1, <1>3, <1>4, MappingsLoopResumes

\* DeleteMapping: a mapping the upgrade does not come to.
LEMMA DeleteMappingResumes ==
  ASSUME Inv, Inv', ResumeInv, DeleteMapping
  PROVE  ResumeInv'
<1>1. PICK row \in pending : db' = mapping_deleted(db, row) /\ Goto("endpoints", todo \ {row})
  BY DEF DeleteMapping
<1>2. /\ pc = "endpoints" /\ mapping_is_stale(db, row)
      /\ \A m \in DOMAIN db.routes : <<db.routes[m], m>> # row
  BY <1>1 DEF Inv, PendingInv, ResumeInv, RowsInv
<1>3. /\ pc' = "endpoints" /\ pending' = {}
      /\ UNCHANGED <<catalog, document, original, used>>
  BY <1>1 DEF Goto, Keeps
<1>4. /\ Ready(db) /\ IsDatabase(db)
      /\ \A p \in DOMAIN db.providers :
            has_provider(catalog, db.providers[p].type) => db.providers[p].models # {}
  BY <1>2, EndpointsFacts
<1>5. Agrees(db, db', catalog)
  BY <1>1, <1>2, <1>4, MappingDeletedAgrees
<1>6. LoopsMappings(db, db')
  BY <1>1, <1>4 DEF mapping_deleted, IsDatabase, LoopsMappings
<1> QED  BY <1>2, <1>3, <1>5, <1>6, MappingsLoopResumes

\* AlignUpstreamModel: the name that is written is the one it comes to.
LEMMA AlignResumes ==
  ASSUME Inv, Inv', ResumeInv, NEW row \in DOMAIN db.mappings, AlignUpstreamModel(row)
  PROVE  ResumeInv'
<1> DEFINE type == db.providers[row[1]].type
           name == provider_upstream_model(catalog, type, row[2])
<1>1. /\ pc = "endpoints" /\ pc' = "endpoints" /\ pending' = {}
      /\ UNCHANGED <<catalog, document, original, used>>
  BY DEF AlignUpstreamModel, Goto, Keeps
<1>2. db' = IF has_provider(catalog, type) THEN [db EXCEPT !.mappings[row] = name] ELSE db
  BY DEF AlignUpstreamModel
<1>3. Ready(db) /\ IsDatabase(db)
  BY <1>1, EndpointsFacts
<1>4. CASE ~has_provider(catalog, type)
  <2>1. db' = db
    BY <1>2, <1>4
  <2>2. LoopsMappings(db, db') /\ Agrees(db, db', catalog)
    BY <2>1, AgreesReflexive DEF LoopsMappings
  <2> QED  BY <1>1, <2>2, MappingsLoopResumes
<1>5. CASE has_provider(catalog, type)
  <2> HIDE DEF name
  <2>1. /\ LoopsMappings(db, db') /\ db'.routes = db.routes
        /\ DOMAIN db'.mappings = DOMAIN db.mappings /\ db'.mappings[row] = name
        /\ \A r \in DOMAIN db.mappings : r # row => db'.mappings[r] = db.mappings[r]
    BY <1>2, <1>3, <1>5 DEF IsDatabase, LoopsMappings
  <2>2. Agrees(db, db', catalog)
    BY <1>3, <1>5, <2>1, AlignedAgrees, Zenon DEF name
  <2> QED  BY <1>1, <2>1, <2>2, MappingsLoopResumes
<1> QED  BY <1>4, <1>5

\* Serve: nothing is written.
LEMMA ServeResumes ==
  ASSUME Inv, Inv', ResumeInv, Serve
  PROVE  ResumeInv'
<1>1. /\ pc = "endpoints" /\ pc' = "up" /\ pending' = {} /\ db' = db
      /\ UNCHANGED <<catalog, document, original, used>>
  BY DEF Serve, Goto, Keeps
<1>2. pc \in Running \cap FromV1 /\ pc' \in FromV1 /\ pc' \in FromEndpoints
  BY <1>1, Stages DEF Running
<1>3. RowsInv'
  BY <1>1, <1>2, EndpointsRows
<1> QED  BY <1>1, <1>2, <1>3, StillResumes

\* Nothing has been started yet.
LEMMA InitResumes ==
  ASSUME Init
  PROVE  ResumeInv
<1>1. /\ pc = "down" /\ pending = {} /\ original = db
  BY DEF Init
<1>2. pc \notin FromV1 /\ pc \notin FromUrls /\ pc \notin FromEndpoints /\ pc # "urls"
      /\ pc \notin Running \cup {"up"}
  BY <1>1, Stages DEF Running
<1>3. \A cat : OnCourse(cat)
  BY <1>1, AgreesReflexive DEF OnCourse
<1> QED  BY <1>1, <1>2, <1>3 DEF ResumeInv, RowsInv, HistoryInv

\* Every step of Startup keeps the invariant of the upgrades.
LEMMA NextResumes ==
  ASSUME Inv, Inv', ResumeInv, [Next]_vars
  PROVE  ResumeInv'
<1>1. CASE UNCHANGED vars
  <2>1. /\ UNCHANGED <<pc, db, catalog, document, todo, pending, original, used>>
    BY <1>1 DEF vars
  <2>2. RowsInv'
    BY <2>1 DEF ResumeInv, RowsInv, UrlsNamed, has_provider, mapping_is_stale, parse_models
  <2>3. HistoryInv'
    <3>1. ASSUME NEW cat, OnCourse(cat)
          PROVE  Agrees(original', db', cat) /\ (Startable(original', cat) => Startable(db', cat))
      BY <2>1, <3>1 DEF OnCourse
    <3>2. HistoryInv
      BY DEF ResumeInv
    <3> QED  BY <2>1, <3>1, <3>2 DEF HistoryInv, OnCourse
  <2> QED  BY <2>1, <2>2, <2>3 DEF ResumeInv
<1>2. ASSUME NEW name \in DOMAIN Documents, Start(name)
      PROVE  ResumeInv'
  BY <1>2, StartResumes
<1>3. CASE Stop  BY <1>3, StopResumes
<1>4. ASSUME NEW p \in DOMAIN db.providers, MigrateProviderModels(p)
      PROVE  ResumeInv'
  BY <1>4, ModelsResume
<1>5. ASSUME NEW p \in DOMAIN db.providers, ReconcileProtocolBaseUrls(p)
      PROVE  ResumeInv'
  BY <1>5, UrlsResume
<1>6. ASSUME NEW row \in DOMAIN db.mappings, DeleteRoute(row) \/ AlignUpstreamModel(row)
      PROVE  ResumeInv'
  BY <1>6, DeleteRouteResumes, AlignResumes
<1>7. CASE InitializeEmpty \/ CreateNext \/ ApplyActivityRollout \/ ApplyAnthropicRemoval
  BY <1>7, CreateResumes
<1>8. CASE Upgrade  BY <1>8, UpgradeResumes
<1>9. CASE ApplyLegacyMigration  BY <1>9, LegacyResumes
<1>10. CASE ApplyModelSourceMigration  BY <1>10, ModelSourceResumes
<1>11. CASE BackfillActivityProviderTypes  BY <1>11, BackfillResumes
<1>12. CASE DropDisabledModels  BY <1>12, DropResumes
<1>13. CASE BeginEndpointModels  BY <1>13, BeginEndpointsResumes
<1>14. CASE DeleteMapping  BY <1>14, DeleteMappingResumes
<1>15. CASE Serve  BY <1>15, ServeResumes
<1> QED  BY <1>1, <1>2, <1>3, <1>4, <1>5, <1>6, <1>7, <1>8, <1>9, <1>10, <1>11, <1>12,
            <1>13, <1>14, <1>15 DEF Next
\* A map that has every entry of another gains nothing from it.
LEMMA OverlayNothing ==
  ASSUME NEW f, NEW g, DOMAIN f \subseteq DOMAIN g, \A key \in DOMAIN f : g[key] = f[key]
  PROVE  Overlay(f, g) = Overlay(<<>>, g)
<1>1. DOMAIN <<>> = {}
  OBVIOUS
<1>2. DOMAIN f \cup DOMAIN g = DOMAIN g /\ DOMAIN <<>> \cup DOMAIN g = DOMAIN g
  BY <1>1
<1>3. \A key \in DOMAIN g :
         (IF key \in DOMAIN f THEN f[key] ELSE g[key])
            = (IF key \in DOMAIN <<>> THEN <<>>[key] ELSE g[key])
  BY <1>1
<1> HIDE <1>1
<1> QED  BY <1>2, <1>3 DEF Overlay

\* A server that serves has the rows its database comes to: nothing is left to do.
LEMMA ServedRows ==
  ASSUME Inv, ResumeInv, pc = "up", ~schema_is_empty(original.schema)
  PROVE  Rows(db) = Outcome(db, catalog)
<1> DEFINE Provider(p) ==
             [type |-> TypeOf(db, p), models |-> ModelsOf(db, catalog, p), disabled |-> {},
              override |-> FALSE, anthropic |-> AnthropicOf(db, p),
              urls |-> UrlsOf(db, catalog, p)]
           Row(p) ==
             [type |-> db.providers[p].type, models |-> db.providers[p].models,
              disabled |-> db.providers[p].disabled,
              override |-> db.providers[p].capabilities.override,
              anthropic |-> db.providers[p].capabilities.anthropic,
              urls |-> Overlay(<<>>, db.providers[p].capabilities.urls)]
           Activity(a) ==
             [provider |-> db.activities[a].provider, type |-> ActivityTypeOf(db, a),
              anthropic |-> db.activities[a].anthropic]
           ActivityRow(a) ==
             [provider |-> db.activities[a].provider, type |-> db.activities[a].type,
              anthropic |-> db.activities[a].anthropic]
<1>1. Ready(db) /\ IsDatabase(db) /\ todo = {}
  BY Stages, StageFacts DEF Inv, TypeOK
<1>2. /\ \A a \in DOMAIN db.activities : Typed(a)
      /\ \A p \in DOMAIN db.providers : HasModels(p) /\ HasUrls(p)
      /\ \A row \in DOMAIN db.mappings : Aligned(row)
  BY <1>1, Stages DEF Inv, StageInv, LoopInv
<1>3. \A p \in DOMAIN db.providers :
         /\ db.providers[p].disabled = {} /\ UrlsNamed(p)
         /\ db.providers[p].capabilities.override = FALSE
  BY Stages DEF ResumeInv, RowsInv, HistoryInv
<1>4. /\ KeptProviders(db) = DOMAIN db.providers
      /\ \A p : TypeOf(db, p) = db.providers[p].type
      /\ \A m : ~Cleared(db, catalog, m)
      /\ ActivitiesOf(db) = DOMAIN db.activities
  BY <1>1, ReadyFacts
<1>5. \A p \in DOMAIN db.providers :
         has_provider(catalog, db.providers[p].type) => db.providers[p].models # {}
  BY <1>2 DEF HasModels
<1>6. ForeignKeys(db)
  BY <1>1 DEF IsDatabase
<1>7. ASSUME NEW p \in DOMAIN db.providers
      PROVE  Provider(p) = Row(p)
  <2>1. ModelsOf(db, catalog, p) = db.providers[p].models
    BY <1>1, <1>5, EnabledModels
  <2>2. AnthropicOf(db, p) = db.providers[p].capabilities.anthropic
    BY <1>1 DEF AnthropicOf, Ready
  <2>3. UrlsOf(db, catalog, p) = Overlay(<<>>, db.providers[p].capabilities.urls)
    <3>1. CASE ~has_provider(catalog, db.providers[p].type)
      BY <1>4, <3>1 DEF UrlsOf
    <3>2. CASE has_provider(catalog, db.providers[p].type)
      <4> DEFINE base == catalog.providers[db.providers[p].type].protocol_base_urls
                 urls == db.providers[p].capabilities.urls
      <4>1. DOMAIN base \subseteq DOMAIN urls /\ \A key \in DOMAIN base : urls[key] = base[key]
        BY <1>2, <1>3, <3>2 DEF UrlsNamed, HasUrls
      <4>2. UrlsOf(db, catalog, p) = Overlay(base, urls)
        BY <1>4, <3>2 DEF UrlsOf
      <4> HIDE DEF base, urls
      <4>3. Overlay(base, urls) = Overlay(<<>>, urls)
        BY <4>1, OverlayNothing
      <4> QED  BY <4>2, <4>3 DEF urls
    <3> QED  BY <3>1, <3>2
  <2> QED  BY <1>3, <1>4, <2>1, <2>2, <2>3
<1>8. \A row \in DOMAIN db.mappings : ~mapping_is_stale(db, row)
  BY <1>2, <1>6 DEF Aligned, mapping_is_stale, ForeignKeys
<1>9. MappingsOf(db, catalog) = DOMAIN db.mappings
  BY <1>1, <1>5, <1>8, ReadyMappings
<1>10. \A row \in DOMAIN db.mappings : UpstreamOf(db, catalog, row) = db.mappings[row]
  BY <1>2, <1>4 DEF Aligned, UpstreamOf
<1>11. RoutesOf(db, catalog) = DOMAIN db.routes
  <2>1. \A m \in DOMAIN db.routes : db.routes[m] \in DOMAIN db.providers
    BY <1>6 DEF ForeignKeys, Range
  <2> QED  BY <1>4, <1>9, <2>1 DEF RoutesOf, Mapped
<1>12. db.shares \cap KeptProviders(db) = db.shares
       /\ db.rollouts \cap ActivitiesOf(db) = db.rollouts
  BY <1>4, <1>6 DEF ForeignKeys
<1>13. \A a \in DOMAIN db.activities : ActivityTypeOf(db, a) = db.activities[a].type
  BY <1>2, <1>4 DEF Typed, ActivityTypeOf
<1>14. \A a \in DOMAIN db.activities : Activity(a) = ActivityRow(a)
  BY <1>13
<1> HIDE DEF Provider, Row, Activity, ActivityRow
<1>15. [p \in KeptProviders(db) |-> Provider(p)] = [p \in DOMAIN db.providers |-> Row(p)]
  BY <1>4, <1>7
<1>16. [row \in MappingsOf(db, catalog) |-> UpstreamOf(db, catalog, row)]
         = [row \in DOMAIN db.mappings |-> db.mappings[row]]
  BY <1>9, <1>10
<1>17. [m \in RoutesOf(db, catalog) |-> db.routes[m]] = [m \in DOMAIN db.routes |-> db.routes[m]]
  BY <1>11
<1>18. [a \in ActivitiesOf(db) |-> Activity(a)] = [a \in DOMAIN db.activities |-> ActivityRow(a)]
  BY <1>4, <1>14
<1> QED
  BY <1>12, <1>15, <1>16, <1>17, <1>18, Zenon
     DEF Rows, Outcome, Provider, Row, Activity, ActivityRow

-----------------------------------------------------------------------------
(* The theorems.                                                             *)

\* Every step of Startup keeps the invariant.
LEMMA NextInv ==
  ASSUME Inv, [Next]_vars
  PROVE  Inv'
<1>1. CASE UNCHANGED vars
  BY <1>1 DEF vars, Inv, TypeOK, ForeignKeys, IsDatabase, NoDanglingRoute, Mapped,
     CatalogInv, PendingInv, StageInv, LoopInv, CreateInv, UnmappableInv, Unmappable,
     KeptProviders, Typed, HasModels, HasUrls, Aligned, SchemaServes
<1>2. ASSUME NEW name \in DOMAIN Documents, Start(name)
      PROVE  Inv'
  BY <1>2, StartStep
<1>3. CASE Stop
  BY <1>3, EndStep DEF Stop, Goto, Keeps, Ended
<1>4. ASSUME NEW p \in DOMAIN db.providers, MigrateProviderModels(p)
      PROVE  Inv'
  BY <1>4, MigrateProviderModelsStep
<1>5. ASSUME NEW p \in DOMAIN db.providers, ReconcileProtocolBaseUrls(p)
      PROVE  Inv'
  BY <1>5, ReconcileProtocolBaseUrlsStep
<1>6. ASSUME NEW row \in DOMAIN db.mappings, DeleteRoute(row) \/ AlignUpstreamModel(row)
      PROVE  Inv'
  BY <1>6, DeleteRouteStep, AlignUpstreamModelStep
<1>7. CASE InitializeEmpty  BY <1>7, InitializeEmptyStep
<1>8. CASE CreateNext  BY <1>8, CreateNextStep
<1>9. CASE ApplyActivityRollout  BY <1>9, ApplyActivityRolloutStep
<1>10. CASE ApplyAnthropicRemoval  BY <1>10, ApplyAnthropicRemovalStep
<1>11. CASE Upgrade  BY <1>11, UpgradeStep
<1>12. CASE ApplyLegacyMigration  BY <1>12, ApplyLegacyMigrationStep
<1>13. CASE ApplyModelSourceMigration  BY <1>13, ApplyModelSourceMigrationStep
<1>14. CASE BackfillActivityProviderTypes  BY <1>14, BackfillStep
<1>15. CASE DropDisabledModels  BY <1>15, DropDisabledModelsStep
<1>16. CASE BeginEndpointModels  BY <1>16, BeginEndpointModelsStep
<1>17. CASE DeleteMapping  BY <1>17, DeleteMappingStep
<1>18. CASE Serve  BY <1>18, ServeStep
<1> QED  BY <1>1, <1>2, <1>3, <1>4, <1>5, <1>6, <1>7, <1>8, <1>9, <1>10, <1>11, <1>12,
            <1>13, <1>14, <1>15, <1>16, <1>17, <1>18 DEF Next

\* The inductive invariant: what every start has behind it at every stage.
THEOREM StartupInvariant == Spec => []Inv
BY InitInv, NextInv, PTL DEF Spec

\* Type correctness: the foreign keys hold at every moment, no migration is on
\* record that no start looks for, and a start that has ended has no loop under
\* way, for any database and any catalogs.
THEOREM TypeCorrect == Spec => []TypeOK
<1>1. Inv => TypeOK
  BY DEF Inv
<1> QED  BY <1>1, StartupInvariant, PTL

\* No start, and no crash of one, makes a route dangle.
THEOREM NoStartMakesRoutesDangle == Spec => []NoDanglingRoute
<1>1. Inv => NoDanglingRoute
  BY DEF Inv
<1> QED  BY <1>1, StartupInvariant, PTL

\* What is loaded as the catalog is what the operator wrote, whole.
THEOREM CatalogIsFaithful == Spec => []CatalogIsWhatWasWritten
<1>1. Inv => CatalogIsWhatWasWritten
  <2> SUFFICES ASSUME Inv, catalog.loaded
               PROVE  CatalogIsWhatWasWritten
    BY DEF CatalogIsWhatWasWritten
  <2>1. document \in DOMAIN Documents /\ catalog = load(Documents[document])
    BY DEF Inv, CatalogInv, NoCatalog
  <2> QED  BY <2>1, LoadedIsWhatWasWritten
<1> QED  BY <1>1, StartupInvariant, PTL

\* A server that serves, after whatever starts and crashes, has every migration
\* behind it, the schema its code names, and rows that fit its catalog.
THEOREM ServingIsPrepared == Spec => []ServesWhatItCan
<1>1. Inv => ServesWhatItCan
  <2> SUFFICES ASSUME Inv, pc = "up"
               PROVE  ServesWhatItCan
    BY DEF ServesWhatItCan
  <2>1. /\ SchemaServes(db.schema)
        /\ {"activity_rollout_v2", "anthropic_removal_v1", "provider_catalog_v1",
            "provider_model_catalog_v2"} \subseteq db.versions
    BY Stages DEF Inv, StageInv
  <2>2. db.versions = Versions
    BY <2>1 DEF Inv, IsDatabase, Versions
  <2>3. todo = {}
    BY DEF Inv, TypeOK
  <2>4. /\ \A a \in DOMAIN db.activities : Typed(a)
        /\ \A p \in DOMAIN db.providers : HasModels(p) /\ HasUrls(p)
        /\ \A row \in DOMAIN db.mappings : Aligned(row)
    BY <2>3, Stages DEF Inv, StageInv, LoopInv
  <2> QED  BY <2>1, <2>2, <2>4
           DEF ServesWhatItCan, SchemaServes, Typed, HasModels, HasUrls, Aligned
<1> QED  BY <1>1, StartupInvariant, PTL

\* A provider that has no place in the catalog stops every start, and it and
\* what refers to it are kept, however often starts are tried and cut off.
THEOREM UnmappableIsNeverLost == Spec => []UnmappableIsKept
<1>1. Inv => UnmappableIsKept
  <2> SUFFICES ASSUME Inv, Unmappable
               PROVE  UnmappableIsKept
    BY DEF UnmappableIsKept, Unmappable
  <2>1. KeptProviders(db) \subseteq DOMAIN db.providers
    BY DEF KeptProviders
  <2>2. pc # "up"
    BY Stages DEF Inv, UnmappableInv
  <2> QED  BY <2>1, <2>2 DEF Inv, UnmappableInv, UnmappableIsKept
<1> QED  BY <1>1, StartupInvariant, PTL

\* An upgrade that is cut off, however often and wherever, and run again with the
\* same catalog ends as the uninterrupted one does, for every database and every
\* catalog: refused only if it was one to refuse, and with the same rows.
THEOREM InterruptedUpgradesResume == Spec => []InterruptedUpgradeResumes
<1>1. Inv /\ ResumeInv => InterruptedUpgradeResumes
  <2> SUFFICES ASSUME Inv, ResumeInv, used = {document}, ~schema_is_empty(original.schema)
               PROVE  /\ pc = "up" => Rows(db) = Outcome(original, catalog)
                      /\ pc = "refused" => ~Startable(original, catalog)
    BY DEF InterruptedUpgradeResumes
  <2>1. ASSUME pc = "up"
        PROVE  Rows(db) = Outcome(original, catalog)
    <3>1. document \in DOMAIN Documents /\ catalog = load(Documents[document]) /\ catalog.loaded
      BY <2>1 DEF Inv, CatalogInv, NoCatalog
    <3>2. OnCourse(catalog)
      BY <3>1 DEF ResumeInv, HistoryInv
    <3>3. Outcome(db, catalog) = Outcome(original, catalog)
      BY <3>2, AgreesOutcome DEF OnCourse
    <3> QED  BY <2>1, <3>3, ServedRows
  <2>2. pc = "refused" => ~Startable(original, catalog)
    BY DEF ResumeInv, HistoryInv
  <2> QED  BY <2>1, <2>2
<1> QED  BY <1>1, StartupInvariant, InitResumes, NextResumes, PTL DEF Spec

=============================================================================
