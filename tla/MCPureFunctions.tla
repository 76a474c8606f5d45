-------------------------- MODULE MCPureFunctions --------------------------
(***************************************************************************)
(* Bounded inputs of the functions without state.                          *)
(***************************************************************************)
EXTENDS PureFunctions

(***************************************************************************)
(* Schemas and values two levels deep.                                     *)
(***************************************************************************)
Optional(key, values) == {<<>>} \cup {key :> v : v \in values}

LeafSchemas ==
    {EmptyObject, Object("type" :> String("string")), Object("type" :> String("number")),
     Object("enum" :> Array(<<String("a"), Scalar("null", "null")>>))}

BadSchemas ==
    {Object("type" :> Scalar("integer", "1")), Object("type" :> String("date")),
     Object("required" :> Array(<<Scalar("integer", "1")>>)), Scalar("boolean", "true")}

InnerSchemas == LeafSchemas \cup BadSchemas

MCToolSchemas ==
    BadSchemas
    \cup {Object(t @@ p @@ r @@ i @@ a) :
        t \in Optional("type", {String("object"), String("array")}),
        p \in Optional("properties", {Object("p" :> s) : s \in InnerSchemas}
                                     \cup {Object("p" :> EmptyObject @@ "q" :> s) : s \in LeafSchemas}
                                     \cup {Array(<<>>)}),
        r \in Optional("required", {Array(<<String("p")>>), Array(<<String("")>>),
                                    Array(<<String("q"), String("p")>>)}),
        i \in Optional("items", {Object("type" :> String("string")),
                                 Object("type" :> Scalar("integer", "1"))}),
        a \in Optional("additionalProperties",
                       {Scalar("boolean", "true"), Scalar("boolean", "false"), String("no")}
                       \cup {Object("type" :> String("number")), Object("required" :> String("p")),
                             Object("type" :> Scalar("integer", "1"))})}

Scalars ==
    {String("a"), String("b"), Scalar("integer", "1"), Scalar("number", "1.5"),
     Scalar("null", "null")}

MCArguments ==
    Scalars \cup {Array(<<>>), EmptyObject}
    \cup {Array(<<String("a"), v>>) : v \in Scalars}
    \cup {Object("p" :> v) : v \in Scalars} \cup {Object("q" :> v) : v \in Scalars}
    \cup {Object("p" :> v @@ "q" :> w) : v, w \in {String("a"), Scalar("integer", "1")}}
    \cup {Object("p" :> String("a") @@ "other" :> v) : v \in Scalars}

(***************************************************************************)
(* Bytes around the limits of a sextet; texts of one group, of several     *)
(* groups of a few kinds, and of odd lengths.                              *)
(***************************************************************************)
MCByteStrings == UNION {[1..n -> {0, 1, 4, 64, 255}] : n \in 0..4}

Digits == {0, 1, 4, 16, 63}
Groups == {<<0, 16, 63, 1>>, <<63, 16, Pad, Pad>>, <<63, 1, Pad, Pad>>, <<1, 1, 4, Pad>>,
           <<1, 1, 1, Pad>>, <<Blank, 1, 1, 1>>, <<1, 1, 1, Blank>>, <<Blank>>}

MCEncodedTexts ==
    [1..4 -> Digits \cup {Pad, Other}]
    \cup {g \o h : g, h \in Groups} \cup {g \o h \o <<Pad>> : g, h \in Groups}

(***************************************************************************)
(* Headers whose values contain and overlap one another.                   *)
(***************************************************************************)
MCLetters == {"a", "b", "s", Space}

AHeader(name, kind, value, sensitive) ==
    [name |-> name, kind |-> kind, value |-> value, sensitive |-> sensitive]

HeaderValues == {<<"a">>, <<"a", "b">>, <<"b", "a">>, <<"b", "a", "b">>}

Bearer == {<<"s", Space>> \o v : v \in HeaderValues}

MCExtraHeaders ==
    {<<>>} \cup {<<AHeader("x-trace", "plain", v, s)>> : v \in HeaderValues, s \in BOOLEAN}
    \cup {<<AHeader("authorization", "authorization", v, FALSE)>> : v \in Bearer}
    \cup {<<AHeader("cookie", "secret", v, FALSE), AHeader("cookie", "secret", w, FALSE)>>
          : v, w \in HeaderValues}

MCResponseTexts == UNION {[1..n -> MCLetters] : n \in {0, 3, 4}}
                 \cup [1..5 -> {"a", "b"}]

MCApiKeys == {<<>>} \cup HeaderValues

(***************************************************************************)
(* Options of two sources, settings and tools.                             *)
(***************************************************************************)
By(source) == Scalar("option", source)

SomeOptions(source) ==
    {Object(s @@ l @@ t @@ x) :
        s \in Optional("stream", {By(source)}),
        l \in Optional("max_tokens", {By(source)})
              \cup {"generationConfig" :> Object("maxOutputTokens" :> By(source)),
                    "generationConfig" :> Object("topK" :> By(source)),
                    "generationConfig" :> By(source)},
        t \in Optional("tools", {Array(<<By(source)>>), By(source)}),
        x \in {<<>>, "extra" :> By(source) @@ "temperature" :> By(source)
                     @@ "max_output_tokens" :> By(source)}}

ToolOptions == <<Object("strict" :> By("tool")),
                 Object("name" :> By("tool") @@ "parameters" :> By("tool"))>>

SomeTools ==
    {<<>>, <<[name |-> "n", description |-> "d", input_schema |-> "i",
              provider_options |-> ToolOptions[1]],
             [name |-> "m", description |-> "e", input_schema |-> "j",
              provider_options |-> ToolOptions[2]]>>}

MCGenerations ==
    {[profile |-> profile, call |-> call, tools |-> tools,
      max_output_tokens |-> settings[1], temperature |-> settings[2],
      model_max_output_tokens |-> settings[3], system |-> settings[2]] :
        profile \in SomeOptions("profile"), call \in SomeOptions("call"), tools \in SomeTools,
        settings \in {<<Unset, Unset, Unset>>, <<Sdk("limit"), Unset, Unset>>,
                      <<Unset, Sdk("temperature"), Unset>>,
                      <<Sdk("limit"), Unset, Sdk("profile limit")>>,
                      <<Unset, Unset, Sdk("profile limit")>>}}

(***************************************************************************)
(* The values among all these, and how deep they are.                      *)
(***************************************************************************)
Wholes ==
    MCToolSchemas \cup MCArguments \cup SomeOptions("profile") \cup SomeOptions("call")
    \cup {ToolOptions[1], ToolOptions[2]}

MaxDepth == 4

Everything ==
    LET within[n \in 0..MaxDepth] ==
            IF n = 0 THEN Wholes
            ELSE within[n - 1] \cup UNION {Parts(value) : value \in within[n - 1]}
    IN  within[MaxDepth]

Depths ==
    LET depth[value \in Everything] ==
            CHOOSE n \in 0..MaxDepth :
                /\ \A part \in Parts(value) : depth[part] < n
                /\ n = 0 \/ \E part \in Parts(value) : depth[part] = n - 1
    IN  depth

\* Given to a constant, a definition is evaluated once only if it is a name.
MCJsonValues == Everything
MCDepth == Depths
=============================================================================
