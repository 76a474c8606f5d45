---------------------------- MODULE PureFunctions ----------------------------
(***************************************************************************)
(* The functions of the library that keep no state, and what they promise. *)
(* A behavior chooses one input of one function; the inputs are constants. *)
(***************************************************************************)
EXTENDS Schemas, Base64, Redaction, Requests

CONSTANTS
    ToolSchemas, Arguments,         \* of add_tool, of a call
    ByteStrings, EncodedTexts,
    HeaderNames, ApiKeys, ExtraHeaders, ResponseTexts,
    Generations                     \* what the adapters make request bodies of

Bytes == 0..255

Headers == [name : HeaderNames, kind : {"authorization", "secret", "plain"},
            value : Seq(Letters), sensitive : BOOLEAN]

Objects == {value \in JsonValues : value.kind = "object"}

\* Of a tool's schema requests only say that it is there.
Specs == [name : STRING, description : STRING, input_schema : STRING,
          provider_options : Objects]

ASSUME InputsAssumption ==
    /\ ToolSchemas \subseteq JsonValues /\ Arguments \subseteq JsonValues
    /\ ByteStrings \subseteq Seq(Bytes) /\ EncodedTexts \subseteq Seq(Characters)
    /\ {Space, "s"} \subseteq Letters
    /\ {"authorization", "x-api-key"} \subseteq HeaderNames
    /\ ApiKeys \subseteq Seq(Letters) /\ ResponseTexts \subseteq Seq(Letters)
    /\ ExtraHeaders \subseteq Seq(Headers)
    /\ \A r \in Generations :
          r.profile \in Objects /\ r.call \in Objects /\ r.tools \in Seq(Specs)

VARIABLE input

None == [kind |-> "none"]

Init == input = None

ChooseSchema == \E s \in ToolSchemas : input' = [kind |-> "schema", schema |-> s]

ChooseBytes == \E b \in ByteStrings : input' = [kind |-> "bytes", bytes |-> b]

ChooseText == \E t \in EncodedTexts : input' = [kind |-> "text", text |-> t]

\* A client's own header with its key, if it has one: after a scheme, "s", or
\* alone.
OwnHeaders(key) ==
    IF key = <<>> THEN {<<>>}
    ELSE {<<[name |-> "authorization", kind |-> "authorization",
             value |-> <<"s", Space>> \o key, sensitive |-> FALSE]>>,
          <<[name |-> "x-api-key", kind |-> "secret", value |-> key, sensitive |-> FALSE]>>}

ChooseHeaders ==
    \E key \in ApiKeys, extra \in ExtraHeaders : \E own \in OwnHeaders(key) :
        input' = [kind |-> "headers", key |-> key,
                  headers |-> ApplyExtraHeaders(own, extra)]

ChooseRequest == \E r \in Generations : input' = [kind |-> "request", request |-> r]

Next ==
    /\ input = None
    /\ ChooseSchema \/ ChooseBytes \/ ChooseText \/ ChooseHeaders \/ ChooseRequest

Spec == Init /\ [][Next]_input

(***************************************************************************)
(* The properties of the modules, of every input.                          *)
(***************************************************************************)
\* ArgumentsMeetSchema of module Schemas: a schema that the client accepts never
\* makes the validation of a call throw, and validation means what it says.
SchemasAreMet == input.kind = "schema" => ArgumentsMeetSchema(input.schema, Arguments)

\* Base64IsExact of module Base64: decoding inverts encoding and accepts nothing
\* else.
Base64Inverts ==
    /\ input.kind = "bytes" => Base64IsExact(input.bytes, <<>>)
    /\ input.kind = "text" => Base64IsExact(<<>>, input.text)

\* NothingSensitiveRemains of module Redaction: the credentials of a request,
\* whichever way they came into its headers, are gone from a response, and
\* nothing else is.
CredentialsAreRedacted ==
    input.kind = "headers" =>
        \A text \in ResponseTexts :
            NothingSensitiveRemains(input.headers, <<input.key>>, text)

\* RequestIsAsAsked of module Requests: typed settings, options of the call,
\* options of the profile, in this order, and tools as the client has them.
RequestsAreAsAsked ==
    input.kind = "request" =>
        \A provider \in {"openai", "anthropic", "gemini", "openai_compatible"} :
            RequestIsAsAsked(provider, input.request)
=============================================================================
