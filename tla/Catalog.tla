------------------------------ MODULE Catalog ------------------------------
(***************************************************************************)
(* The provider catalog: what the server makes of the three TOML documents *)
(* (language models, image models, providers) and the directory of         *)
(* instruction templates an operator writes.  It is loaded once at start   *)
(* and is read-only after that.                                            *)
(*                                                                         *)
(* A document is a record of sequences, in the order of the file.  An      *)
(* optional field is a set with no member or one.  A string that is empty  *)
(* after trimming is Blank; the strings are otherwise left alone.  Fields  *)
(* that are carried over unchecked (descriptions, tool types, priorities)  *)
(* are left out.  Loading stops at its first error and keeps nothing, so   *)
(* the order of the checks does not show.                                  *)
(***************************************************************************)
EXTENDS Naturals, Sequences, FiniteSets, Functions

Blank == ""
NoCatalog == [loaded |-> FALSE]

REASONING_EFFORTS == {"none", "minimal", "low", "medium", "high", "xhigh", "max"}
INPUT_MODALITIES == {"text", "image"}
OUTPUT_MODALITIES == {"image"}
ORDERED == <<"chat_completions", "responses", "images_generations">>

-----------------------------------------------------------------------------
(* Models.                                                                   *)

validate_context_window(m) ==
    /\ 0 \notin m.context_window \cup m.max_context_window
    /\ \A max \in m.max_context_window, cur \in m.context_window : max >= cur

validate_modalities(lists, allowed) ==
    \A l \in lists : IsInjective(l) /\ Range(l) \subseteq allowed

validate_nonempty_values(lists) ==
    \A l \in lists : IsInjective(l) /\ Blank \notin Range(l)

\* A default is one of the efforts, and efforts that are listed have a default.
validate_reasoning(m) ==
    /\ \A e \in m.reasoning_efforts :
          IsInjective(e) /\ Range(e) \subseteq REASONING_EFFORTS
    /\ \A d \in m.default_reasoning_effort :
          d \in REASONING_EFFORTS /\ \E e \in m.reasoning_efforts : d \in Range(e)
    /\ m.default_reasoning_effort = {} => \A e \in m.reasoning_efforts : e = <<>>

validate_language_model(m) ==
    /\ validate_context_window(m)
    /\ m.effective_context_window_percent \subseteq 1 .. 100
    /\ \A t \in m.truncation_policy : t.mode # Blank /\ t.limit # 0
    /\ validate_modalities(m.input_modalities, INPUT_MODALITIES)
    /\ validate_reasoning(m)

validate_image_generation_model(m) ==
    /\ validate_modalities(m.input_modalities, INPUT_MODALITIES)
    /\ validate_modalities(m.output_modalities, OUTPUT_MODALITIES)
    /\ \A options \in {m.sizes, m.quality_options, m.background_options,
                       m.output_formats} : validate_nonempty_values(options)

\* templates: file name -> its text, Blank for a file with nothing in it and
\* Unreadable for one that cannot be read.  A file that is not there has no
\* entry.  The model's own text comes first, then its file, then the default.
Unreadable == "unreadable"

read_instruction_template(templates, file) ==
    IF file \in DOMAIN templates /\ templates[file] # Blank THEN {templates[file]} ELSE {}

resolve_base_instructions(templates, m) ==
    LET configured == m.base_instructions
        own     == read_instruction_template(templates, m.id)
        default == read_instruction_template(templates, "_default")
    IN CASE configured \ {Blank} # {} -> configured
         [] configured \ {Blank} = {} /\ own # {} -> own
         [] configured \ {Blank} = {} /\ own = {} /\ default # {} -> default
         [] OTHER -> configured

-----------------------------------------------------------------------------
(* Providers.                                                                *)

position(protocol) == CHOOSE i \in DOMAIN ORDERED : ORDERED[i] = protocol

validate_protocols(protocols) ==
    /\ protocols # <<>>
    /\ \A i \in 1 .. Len(protocols) - 1 :
          position(protocols[i]) < position(protocols[i + 1])

\* A URL for a protocol that is not declared, known or not, is an error.
validate_protocol_base_urls(p) ==
    /\ DOMAIN p.protocol_base_urls \subseteq Range(p.protocols)
    /\ Blank \notin Range(p.protocol_base_urls)

\* A header has the name HTTP gives it: case and spaces of the key are gone,
\* so two keys may name one header; Unreadable is a name HTTP does not allow.
validate_request_headers(headers) ==
    /\ \A h \in Range(headers) :
          /\ h.name \notin {Unreadable, "authorization", "proxy-authorization"}
          /\ h.kind = "literal" => h.value \notin {Blank, Unreadable}
          /\ h.kind = "source" => h.value = "session_id"
    /\ \A i, j \in DOMAIN headers : headers[i].name = headers[j].name => i = j

validate_provider_model_references(ids, models) ==
    IsInjective(ids) /\ Range(ids) \subseteq DOMAIN models

validate_upstream_model_names(p) ==
    /\ DOMAIN p.upstream_model_names
          \subseteq Range(p.language_models) \cup Range(p.image_generation_models)
    /\ Blank \notin Range(p.upstream_model_names)

\* The scheme of the proxy URL; a blank value is no proxy.
validate_proxy_url(p) == p.proxy_url \subseteq {Blank, "http", "https"}

validate_provider(p, language, image) ==
    /\ Blank \notin {p.id, p.name, p.base_url}
    /\ validate_protocols(p.protocols)
    /\ validate_protocol_base_urls(p)
    /\ validate_request_headers(p.request_headers)
    /\ validate_provider_model_references(p.language_models, language)
    /\ validate_provider_model_references(p.image_generation_models, image)
    /\ validate_upstream_model_names(p)
    /\ validate_proxy_url(p)
    /\ p.image_generation_models # <<>> => "images_generations" \in Range(p.protocols)

-----------------------------------------------------------------------------
(* Loading.                                                                  *)

\* Mutant: a second entry of an id takes the place of the first.
DistinctIdsMutant(rows) == TRUE

DistinctIds(rows) == \A i, j \in DOMAIN rows : rows[i].id = rows[j].id => i = j

\* The map that inserting the rows one by one leaves: the last of an id wins.
ById(rows) ==
    [id \in {r.id : r \in Range(rows)} |->
        LET last == CHOOSE i \in DOMAIN rows :
                       rows[i].id = id /\ \A j \in DOMAIN rows : rows[j].id = id => j <= i
        IN rows[last]]

load_language_models(d) ==
    /\ \A m \in Range(d.language) :
          /\ Blank \notin {m.id, m.display_name}
          /\ validate_language_model(m)
          /\ Unreadable \notin resolve_base_instructions(d.templates, m)
    /\ DistinctIds(d.language)

load_image_generation_models(d) ==
    /\ \A m \in Range(d.image) :
          Blank \notin {m.id, m.display_name} /\ validate_image_generation_model(m)
    /\ DistinctIds(d.image)

load_providers(d) ==
    /\ \A p \in Range(d.providers) :
          validate_provider(p, ById(d.language), ById(d.image))
    /\ DistinctIds(d.providers)

\* Each file can be read and is TOML of its schema.
parse_document(d) == d.parses

load(d) ==
    IF /\ parse_document(d)
       /\ load_language_models(d)
       /\ load_image_generation_models(d)
       /\ load_providers(d)
    THEN [loaded |-> TRUE,
          language |-> [id \in DOMAIN ById(d.language) |->
                          resolve_base_instructions(d.templates, ById(d.language)[id])],
          image |-> DOMAIN ById(d.image),
          providers |-> ById(d.providers)]
    ELSE NoCatalog

-----------------------------------------------------------------------------
(* What the rest of the server asks of it.                                   *)

has_provider(cat, type) == type \in DOMAIN cat.providers

provider_supports_language_model(cat, type, m) ==
    has_provider(cat, type) /\ m \in Range(cat.providers[type].language_models)

provider_supports_image_generation_model(cat, type, m) ==
    has_provider(cat, type) /\ m \in Range(cat.providers[type].image_generation_models)

provider_upstream_model(cat, type, m) ==
    IF has_provider(cat, type) /\ m \in DOMAIN cat.providers[type].upstream_model_names
    THEN cat.providers[type].upstream_model_names[m]
    ELSE m

=============================================================================
