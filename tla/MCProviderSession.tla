------------------------- MODULE MCProviderSession -------------------------
(***************************************************************************)
(* Bounded inputs for ProviderSession: for each protocol the kinds of      *)
(* responses its parser tells apart.                                       *)
(***************************************************************************)
EXTENDS ProviderSession

MCInputTypes == [p \in Providers |->
    IF p \in {"gemini", "openai_compatible"} THEN {"text", "image", "audio"}
                                             ELSE {"text", "image"}]

MCInputs == {<<Text>>, <<Url("image", "web")>>, <<Bytes("audio", "speech")>>,
             <<Text, Extension(Item("anthropic", "part", NoId))>>}
TextInputs == {<<Text>>}

MCToolOutputs == {<<Text>>, <<Bytes("image", "other"), Text>>}
TextOutputs == {<<Text>>}

It(p, kind) == Item(p, kind, NoId)
Call(p, n) == Item(p, "call", Given(n))

OpenAIReplies ==
    LET p == "openai"
    IN  {Reply(<<It(p, "text")>>),
         Reply(<<It(p, "hidden"), Call(p, 1), It(p, "part")>>),
         Reply(<<It(p, "text"), Call(p, 1), Call(p, 2)>>),
         Reply(<<It(p, "image")>>),
         [Reply(<<It(p, "hidden")>>) EXCEPT !.aside = TRUE]}

AnthropicReplies ==
    LET p == "anthropic"
    IN  {Reply(<<It(p, "text")>>),
         Reply(<<It(p, "part"), Call(p, 1)>>),
         Reply(<<Call(p, 1), It(p, "text"), Call(p, 2)>>),
         Reply(<<Call(p, 1), Call(p, 1)>>),
         [Reply(<<It(p, "part")>>) EXCEPT !.pause = TRUE],
         Reply(<<>>)}

GeminiReplies ==
    LET p == "gemini"
    IN  {[Reply(<<It(p, "part"), It(p, "text")>>) EXCEPT !.role = "model"],
         [Reply(<<It(p, "call"), It(p, "call")>>) EXCEPT !.role = "model"],
         Reply(<<It(p, "text"), Call(p, 1), It(p, "call")>>),
         Reply(<<It(p, "file_uri"), It(p, "audio"), It(p, "audio_uri"),
                 It(p, "image_uri")>>),
         [Reply(<<>>) EXCEPT !.listed = FALSE, !.aside = TRUE]}

CompatibleReplies ==
    LET p == "openai_compatible"
    IN  {Reply(<<It(p, "text")>>),
         Reply(<<It(p, "text"), It(p, "image"), It(p, "part")>>),
         Reply(<<It(p, "legacy")>>),
         Reply(<<Call(p, 1), Call(p, 2), It(p, "legacy")>>),
         Reply(<<It(p, "audio")>>),
         [Reply(<<Item(p, "audio", Given(9))>>) EXCEPT !.aside = TRUE]}

MCReplies == [openai |-> OpenAIReplies, anthropic |-> AnthropicReplies,
              gemini |-> GeminiReplies, openai_compatible |-> CompatibleReplies]
=============================================================================
