------------------------------ MODULE Requests ------------------------------
(***************************************************************************)
(* The request bodies of the four adapters (src/src/providers): options    *)
(* that the model profile and the call give as JSON, settings that have a  *)
(* type of their own, fields the SDK keeps to itself, and the declarations *)
(* of the client's tools.  What the history looks like is in the modules   *)
(* of the adapters; here it is one value.                                  *)
(*                                                                         *)
(* A request r holds                                                       *)
(*   profile, call           provider_options of the model and of the call *)
(*   max_output_tokens, temperature, system       typed settings, or Unset *)
(*   model_max_output_tokens                      the profile's, or Unset  *)
(*   tools                   the specs the client offers, sorted by name   *)
(***************************************************************************)
EXTENDS Json

Unset == [kind |-> "unset"]
Refused == [kind |-> "refused"]     \* ConfigurationError

Sdk(what) == Scalar("sdk", what)

(***************************************************************************)
(* Parts that the adapters share.                                          *)
(***************************************************************************)
\* Faulty: the profile's options replace the call's.
MergedForProfile(r) == Update(r.call, r.profile)

\* merged_provider_options.
MergedProviderOptions(r) == Update(r.profile, r.call)

\* AIClient::generate: the profile's limit where the call has none.
MaxOutputTokens(r) ==
    IF r.max_output_tokens # Unset THEN r.max_output_tokens
    ELSE r.model_max_output_tokens

Typed(body, key, setting) ==
    IF setting = Unset THEN body ELSE With(body, key, setting)

ToolsAreArray(body) == Has(body, "tools") => Field(body, "tools").kind = "array"

\* The tool's own options first, then what the SDK says of it.
Declaration(spec, schema_key) ==
    With(With(With(spec.provider_options, "name", Sdk(spec.name)),
              "description", Sdk(spec.description)),
         schema_key, Sdk(spec.input_schema))

\* Declarations follow the tools that the options name.
WithTools(body, declarations) ==
    With(body, "tools",
         Array((IF Has(body, "tools") THEN Field(body, "tools").elements ELSE <<>>)
               \o declarations))

(***************************************************************************)
(* The four bodies.                                                        *)
(***************************************************************************)
OpenAIRequest(r) ==
    LET declare(spec) == With(Declaration(spec, "parameters"), "type", Sdk("function"))
        declarations == [k \in DOMAIN r.tools |-> declare(r.tools[k])]
        owned == [model |-> Sdk("model"), stream |-> Sdk("false"),
                  background |-> Sdk("false"), input |-> Sdk("history")]
        body == Typed(Update(MergedProviderOptions(r), Object(owned)),
                      "instructions", r.system)
        tooled == IF r.tools = <<>> THEN body ELSE WithTools(body, declarations)
    IN  IF ~ToolsAreArray(body) THEN Refused
        ELSE Typed(Typed(tooled, "max_output_tokens", MaxOutputTokens(r)),
                   "temperature", r.temperature)

\* max_tokens is required: the configuration has a default.
AnthropicRequest(r) ==
    LET declare(spec) == Declaration(spec, "input_schema")
        limit == IF MaxOutputTokens(r) = Unset THEN Sdk("default") ELSE MaxOutputTokens(r)
        declarations == [k \in DOMAIN r.tools |-> declare(r.tools[k])]
        owned == [model |-> Sdk("model"), stream |-> Sdk("false"),
                  max_tokens |-> limit, messages |-> Sdk("history")]
        body == Typed(Update(MergedProviderOptions(r), Object(owned)), "system", r.system)
        tooled == IF r.tools = <<>> THEN body ELSE WithTools(body, declarations)
    IN  IF ~ToolsAreArray(body) THEN Refused
        ELSE Typed(tooled, "temperature", r.temperature)

\* The URL names the model and the method, so nothing here could ask for a
\* stream.  All functions are one entry of tools, settings are one level down.
GeminiRequest(r) ==
    LET declare(spec) == Declaration(spec, "parameters")
        declarations == [k \in DOMAIN r.tools |-> declare(r.tools[k])]
        body == Typed(With(MergedProviderOptions(r), "contents", Sdk("history")),
                      "systemInstruction", r.system)
        functions == Object([functionDeclarations |-> Array(declarations)])
        tooled == IF r.tools = <<>> THEN body ELSE WithTools(body, <<functions>>)
        config == IF Has(body, "generationConfig") THEN Field(body, "generationConfig")
                  ELSE EmptyObject
        typed == Typed(Typed(config, "maxOutputTokens", MaxOutputTokens(r)),
                       "temperature", r.temperature)
    IN  IF ~ToolsAreArray(body) THEN Refused
        ELSE IF MaxOutputTokens(r) = Unset /\ r.temperature = Unset THEN tooled
        ELSE IF config.kind # "object" THEN Refused
        ELSE With(tooled, "generationConfig", typed)

\* The system instruction is the first message.
CompatibleRequest(r) ==
    LET declare(spec) ==
            With(With(EmptyObject, "type", Sdk("function")),
                 "function", Declaration(spec, "parameters"))
        declarations == [k \in DOMAIN r.tools |-> declare(r.tools[k])]
        owned == [model |-> Sdk("model"), stream |-> Sdk("false"),
                  messages |-> Sdk("history")]
        body == Update(MergedProviderOptions(r), Object(owned))
        tooled == IF r.tools = <<>> THEN body ELSE WithTools(body, declarations)
    IN  IF ~ToolsAreArray(body) THEN Refused
        ELSE Typed(Typed(tooled, "max_tokens", MaxOutputTokens(r)),
                   "temperature", r.temperature)

RequestBody(provider, r) ==
    CASE provider = "openai" -> OpenAIRequest(r)
      [] provider = "anthropic" -> AnthropicRequest(r)
      [] provider = "gemini" -> GeminiRequest(r)
      [] provider = "openai_compatible" -> CompatibleRequest(r)

(***************************************************************************)
(* What an application may expect of them.                                 *)
(***************************************************************************)
\* Fields of the body that carry no option.
Owned(provider) ==
    CASE provider = "openai" -> {"model", "stream", "background", "input"}
      [] provider = "anthropic" -> {"model", "stream", "messages"}
      [] provider = "gemini" -> {"contents"}
      [] provider = "openai_compatible" -> {"model", "stream", "messages"}

\* The object the typed settings are in, and their names there.
SettingsOf(provider, options) ==
    IF provider # "gemini" THEN options
    ELSE IF Has(options, "generationConfig") THEN Field(options, "generationConfig")
    ELSE EmptyObject

SettingNames(provider) ==
    CASE provider = "openai" -> <<"max_output_tokens", "temperature">>
      [] provider = "gemini" -> <<"maxOutputTokens", "temperature">>
      [] OTHER -> <<"max_tokens", "temperature">>

\* A declaration, wherever the protocol puts it.
FunctionsIn(provider, tools) ==
    IF tools = <<>> THEN <<>>
    ELSE CASE provider = "gemini" ->
                Field(tools[Len(tools)], "functionDeclarations").elements
           [] provider = "openai_compatible" ->
                [k \in DOMAIN tools |-> Field(tools[k], "function")]
           [] OTHER -> tools

SchemaKey(provider) == IF provider = "anthropic" THEN "input_schema" ELSE "parameters"

\* The options an application gives for one field.
Given(r, field) == IF Has(r.call, field) THEN r.call ELSE r.profile

GivenTools(r) ==
    IF Has(Given(r, "tools"), "tools") THEN Field(Given(r, "tools"), "tools") ELSE Array(<<>>)

Wanted(provider, r) ==
    <<IF MaxOutputTokens(r) = Unset /\ provider = "anthropic" THEN Sdk("default")
      ELSE MaxOutputTokens(r),
      r.temperature>>

\* Options nothing can be added to.
Unusable(provider, r) ==
    LET config == Given(r, "generationConfig") IN
    \/ GivenTools(r).kind # "array"
    \/ /\ provider = "gemini" /\ Has(config, "generationConfig")
       /\ Field(config, "generationConfig").kind # "object"
       /\ Wanted(provider, r) # <<Unset, Unset>>

SettingsWin(provider, r, body) ==
    \A k \in 1..2 :
        LET name == SettingNames(provider)[k]
            field == IF provider = "gemini" THEN "generationConfig" ELSE name
            given == SettingsOf(provider, Given(r, field))
            found == SettingsOf(provider, body)
        IN  IF Wanted(provider, r)[k] # Unset
            THEN Field(found, name) = Wanted(provider, r)[k]
            ELSE /\ Has(found, name) <=> Has(given, name)
                 /\ Has(found, name) => Field(found, name) = Field(given, name)

ToolsAreDeclared(provider, r, body) ==
    LET named == GivenTools(r).elements
        all == IF Has(body, "tools") THEN Field(body, "tools").elements ELSE <<>>
        functions == FunctionsIn(provider, SubSeq(all, Len(named) + 1, Len(all)))
    IN  /\ SubSeq(all, 1, Len(named)) = named
        /\ Len(functions) = Len(r.tools)
        /\ \A k \in DOMAIN r.tools :
              /\ Field(functions[k], "name") = Sdk(r.tools[k].name)
              /\ Field(functions[k], "description") = Sdk(r.tools[k].description)
              /\ Field(functions[k], SchemaKey(provider)) = Sdk(r.tools[k].input_schema)

RestIsUnchanged(provider, r, body) ==
    \A field \in (DOMAIN r.call.members \cup DOMAIN r.profile.members) :
        \/ field \in Owned(provider)
        \/ field \in {"tools", "generationConfig", "instructions", "system",
                      "systemInstruction"}
        \/ field \in {SettingNames(provider)[k] : k \in 1..2}
        \/ Field(body, field) = Field(Given(r, field), field)

\* Typed settings win over the options of the call, and these, member by
\* member, over the options of the model profile; no option takes over a field
\* of the SDK, such as stream, which would change the protocol; every tool is
\* declared once, in order, behind the tools that options name, and with the
\* name, description and schema the client will use, whatever its own options
\* say; what remains reaches the provider unchanged, and options nothing can be
\* added to are refused.
RequestIsAsAsked(provider, r) ==
    LET body == RequestBody(provider, r) IN
    IF Unusable(provider, r) THEN body = Refused
    ELSE /\ body # Refused
         /\ \A field \in Owned(provider) :
               Has(body, field) /\ Field(body, field).kind = "sdk"
         /\ SettingsWin(provider, r, body)
         /\ ToolsAreDeclared(provider, r, body)
         /\ RestIsUnchanged(provider, r, body)
=============================================================================
