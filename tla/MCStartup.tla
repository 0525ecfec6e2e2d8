----------------------------- MODULE MCStartup -----------------------------
(* Catalog documents and databases for TLC.                                  *)
EXTENDS Startup, TLC

None == <<>>  \* the empty function

-----------------------------------------------------------------------------
(* Documents: three that load, and one for each thing loading refuses.       *)

Language(id) ==
    [id |-> id, display_name |-> "name", context_window |-> {8},
     max_context_window |-> {8}, effective_context_window_percent |-> {100},
     truncation_policy |-> {[mode |-> "tokens", limit |-> 1]},
     input_modalities |-> {<<"text", "image">>},
     reasoning_efforts |-> {<<"low", "high">>}, default_reasoning_effort |-> {"high"},
     base_instructions |-> {}]

Plain(id) ==
    [Language(id) EXCEPT !.context_window = {}, !.max_context_window = {},
        !.effective_context_window_percent = {}, !.truncation_policy = {},
        !.input_modalities = {}, !.reasoning_efforts = {},
        !.default_reasoning_effort = {}, !.base_instructions = {Blank}]

Image(id) ==
    [id |-> id, display_name |-> "name", input_modalities |-> {<<"text">>},
     output_modalities |-> {<<"image">>}, sizes |-> {<<"s", "m">>},
     quality_options |-> {}, background_options |-> {}, output_formats |-> {}]

Header(name, kind, value) == [name |-> name, kind |-> kind, value |-> value]

Gotoken ==
    [id |-> "gotoken", name |-> "name", base_url |-> "url",
     protocols |-> <<"chat_completions", "responses", "images_generations">>,
     protocol_base_urls |-> ("responses" :> "u1"),
     request_headers |-> <<Header("x-session", "source", "session_id"),
                           Header("x-plan", "literal", "v")>>,
     language_models |-> <<"m1", "m2">>, image_generation_models |-> <<"i1">>,
     upstream_model_names |-> ("m1" :> "up1"), proxy_url |-> {"http"}]

Kimi ==
    [Gotoken EXCEPT !.id = "kimi", !.protocols = <<"chat_completions">>,
        !.protocol_base_urls = None, !.request_headers = <<>>,
        !.language_models = <<"m1">>, !.image_generation_models = <<>>,
        !.upstream_model_names = None, !.proxy_url = {Blank}]

First ==
    [parses |-> TRUE, language |-> <<Language("m1"), Plain("m2")>>,
     image |-> <<Image("i1")>>, providers |-> <<Gotoken, Kimi>>,
     templates |-> ("m1" :> "text") @@ ("_default" :> "default")]

\* One provider is gone, the other lost a model and has other names.
Second ==
    [First EXCEPT !.providers =
        <<[Gotoken EXCEPT !.language_models = <<"m1">>,
                          !.upstream_model_names = ("m1" :> "up2"),
                          !.protocol_base_urls = ("chat_completions" :> "u2")]>>]

\* A model given to the other provider, and no text in the default template.
Third ==
    [First EXCEPT !.providers = <<Gotoken, [Kimi EXCEPT !.language_models = <<"m2">>]>>,
                  !.templates["_default"] = Blank]

WithModel(m) == [First EXCEPT !.language[1] = m]
WithImage(m) == [First EXCEPT !.image[1] = m]
WithProvider(p) == [First EXCEPT !.providers[1] = p]
Twice(doc, field) == [doc EXCEPT ![field] = @ \o <<@[1]>>]
M == Language("m1")
I == Image("i1")
P == Gotoken

Invalid ==
    [toml |-> [First EXCEPT !.parses = FALSE],
     template |-> [First EXCEPT !.templates["m1"] = Unreadable],
     model_twice |-> Twice(First, "language"),
     image_twice |-> Twice(First, "image"),
     provider_twice |->
        [First EXCEPT !.providers = @ \o <<[Kimi EXCEPT !.language_models = <<"m2">>]>>],
     model_id |-> WithModel([M EXCEPT !.id = Blank]),
     context |-> WithModel([M EXCEPT !.context_window = {0}]),
     max_context |-> WithModel([M EXCEPT !.max_context_window = {7}]),
     percent |-> WithModel([M EXCEPT !.effective_context_window_percent = {101}]),
     truncation |-> WithModel([M EXCEPT !.truncation_policy = {[mode |-> "t", limit |-> 0]}]),
     modality |-> WithModel([M EXCEPT !.input_modalities = {<<"text", "text">>}]),
     effort |-> WithModel([M EXCEPT !.reasoning_efforts = {<<"low", "extreme">>}]),
     default_effort |-> WithModel([M EXCEPT !.default_reasoning_effort = {"max"}]),
     no_default |-> WithModel([M EXCEPT !.default_reasoning_effort = {}]),
     output |-> WithImage([I EXCEPT !.output_modalities = {<<"text">>}]),
     size |-> WithImage([I EXCEPT !.sizes = {<<"s", Blank>>}]),
     url |-> WithProvider([P EXCEPT !.base_url = Blank]),
     no_protocol |-> WithProvider([P EXCEPT !.protocols = <<>>]),
     order |-> WithProvider([P EXCEPT !.protocols =
                                <<"images_generations", "chat_completions", "responses">>]),
     other_url |-> WithProvider([Kimi EXCEPT !.id = "gotoken",
                                    !.protocol_base_urls = ("responses" :> "u1")]),
     header |-> WithProvider([P EXCEPT !.request_headers =
                                @ \o <<Header("authorization", "literal", "v")>>]),
     same_header |-> WithProvider([P EXCEPT !.request_headers = @ \o <<@[1]>>]),
     source |-> WithProvider([P EXCEPT !.request_headers =
                                <<Header("x-session", "source", "window_id")>>]),
     unknown_model |-> WithProvider([P EXCEPT !.language_models = <<"m1", "m3">>]),
     model_listed_twice |-> WithProvider([P EXCEPT !.language_models = <<"m1", "m1">>]),
     other_name |-> WithProvider([P EXCEPT !.upstream_model_names = ("m3" :> "up")]),
     proxy |-> WithProvider([P EXCEPT !.proxy_url = {"socks5"}]),
     no_images |-> WithProvider([P EXCEPT !.protocols = <<"chat_completions", "responses">>])]

MCDocuments == [first |-> First, second |-> Second, third |-> Third] @@ Invalid
MCValidDocuments == [first |-> First, second |-> Second]

-----------------------------------------------------------------------------
(* Databases: an empty one, one of an early release, one that has seen the   *)
(* first catalog migration only, one that has seen both and not the removal, *)
(* an up-to-date one, and three that no start accepts.                       *)

Account(type, models, disabled) ==
    [type |-> type, models |-> models, disabled |-> disabled,
     capabilities |-> [override |-> FALSE, anthropic |-> FALSE, urls |-> None]]

Activity(provider, type, anthropic) ==
    [provider |-> provider, type |-> type, anthropic |-> anthropic]

EmptyDatabase ==
    [schema |-> {}, versions |-> {}, providers |-> None, mappings |-> None,
     routes |-> None, shares |-> {}, sessions |-> {}, activities |-> None, rollouts |-> {}]

EarlyDatabase ==
    [schema |-> (BASE_TABLES \ {"identity_provider_shares"})
                  \cup {"provider_columns", "fk_provider", "disabled_models_json",
                        "identity_model_aliases", "identity_provider_models",
                        "identity_request_logs", "cost_columns"},
     versions |-> {},
     providers |->
        ("pa" :> [Account("kimi_coding_anthropic", {}, {})
                    EXCEPT !.capabilities.anthropic = TRUE,
                           !.capabilities.urls = ("chat_completions" :> "old")])
        @@ ("pb" :> [Account("gotoken", {}, {"m2"})
                       EXCEPT !.capabilities.override = TRUE,
                              !.capabilities.urls = ("responses" :> "old")])
        @@ ("pc" :> Account("anthropic", {}, {})),
     mappings |-> (<<"pa", "m1">> :> "m1") @@ (<<"pb", "m1">> :> "old")
                  @@ (<<"pb", "m2">> :> "m2") @@ (<<"pc", "m1">> :> "m1")
                  @@ (<<"pb", "m3">> :> "m3"),
     routes |-> ("m1" :> "pc") @@ ("m2" :> "pb") @@ ("m3" :> "pb"),
     shares |-> {}, sessions |-> {"pa", "pc"},
     activities |-> ("a1" :> Activity("pa", {}, FALSE)) @@ ("a2" :> Activity("pc", {}, TRUE))
                    @@ ("a3" :> Activity("pc", {}, FALSE)),
     rollouts |-> {}]

LaterDatabase ==
    [schema |-> (FullSchema \ {"line_columns", "idx_activity_rollouts_path"})
                  \cup {"disabled_models_json", "activity_contents",
                        "uq_activity_rollouts_path"},
     versions |-> {"provider_catalog_v1"},
     providers |-> ("pa" :> Account("kimi", {}, {"m1"})) @@ ("pb" :> Account("gotoken", {}, {})),
     mappings |-> (<<"pa", "m1">> :> "m1") @@ (<<"pa", "m2">> :> "m2")
                  @@ (<<"pb", "m1">> :> "up1") @@ (<<"pb", "m2">> :> "m2"),
     routes |-> ("m1" :> "pb") @@ ("m2" :> "pb"),
     shares |-> {"pa"}, sessions |-> {},
     activities |-> ("a1" :> Activity("pb", {}, TRUE)) @@ ("a2" :> Activity("pa", {}, FALSE)),
     rollouts |-> {"a1", "a2"}]

CurrentDatabase ==
    [schema |-> FullSchema, versions |-> Versions,
     providers |-> ("pa" :> Account("kimi", {{"m1"}}, {}))
                   @@ ("pb" :> Account("gotoken", {{"m1", "i1"}}, {})),
     mappings |-> (<<"pa", "m1">> :> "m1") @@ (<<"pb", "m1">> :> "old")
                  @@ (<<"pb", "m2">> :> "m2"),
     routes |-> ("m1" :> "pb") @@ ("m2" :> "pb"),
     shares |-> {"pa"}, sessions |-> {"pa", "pd"},
     activities |-> ("a1" :> Activity("pd", {}, FALSE))
                    @@ ("a2" :> Activity("pb", {"gotoken"}, FALSE)),
     rollouts |-> {"a1"}]

\* Both migrations to the catalog were made before the removal, and a route is
\* left whose mapping is gone.
SettledDatabase ==
    [LaterDatabase EXCEPT
        !.versions = {"provider_catalog_v1", "provider_model_catalog_v2"},
        !.providers["pa"] = [@ EXCEPT !.type = "kimi_coding_anthropic"],
        !.routes = ("m1" :> "pb") @@ ("m2" :> "pb") @@ ("m3" :> "pa")]

UnknownType == [EarlyDatabase EXCEPT !.providers["pb"].type = "custom_provider"]
NoVisibility == [EarlyDatabase EXCEPT !.schema = @ \ {"provider_columns"}]
Partial == [EmptyDatabase EXCEPT !.schema = {"identities"}]

MCDatabases == {EmptyDatabase, EarlyDatabase, LaterDatabase, SettledDatabase,
                CurrentDatabase, UnknownType, NoVisibility, Partial}
MCLaterDatabases == {LaterDatabase}
MCEmptyDatabases == {EmptyDatabase}

=============================================================================
