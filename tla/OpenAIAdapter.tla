--------------------------- MODULE OpenAIAdapter ---------------------------
(***************************************************************************)
(* src/providers/openai.cpp: the Responses API.  The input is a flat list  *)
(* of messages and items.  Kinds of output items: "text" (output_text or   *)
(* refusal in a message), "part" (another part of a message), "image" (an  *)
(* image_generation_call), "call" (a function_call), "hidden" (any other   *)
(* item, such as reasoning).                                               *)
(***************************************************************************)
EXTENDS Contents

OpenAISupports(c) ==
    \/ c.type = "text"
    \/ c.type \in {"image", "file"} /\ c.source \in {"url", "bytes"}
    \/ IsExtension(c, "openai")

\* append_openai_history throws when this is FALSE.
OpenAIAccepts(m) == IsNative(m, "openai") \/ Every(m.contents, OpenAISupports)

OpenAIItem(block) == Turn("item", <<block>>)

(***************************************************************************)
(* A call that OpenAI did not make gets the string "id" of its metadata as *)
(* the id of its function_call item, whichever provider the metadata is    *)
(* of.  A tool_use block and an entry of tool_calls have an id; a Gemini   *)
(* part and a legacy call have none at the top.  OpenAI's own calls never  *)
(* come here: the message that makes them is native.                       *)
(***************************************************************************)
HasId(metadata) ==
    metadata.kind = "call" /\ metadata.provider \in {"anthropic", "openai_compatible"}

OpenAICall(call) ==
    IF HasId(call.metadata)
    THEN Block("call", call.id, [call.metadata EXCEPT !.kind = "item_id"])
    ELSE CallBlock(call.id)

AppendOpenAI(input, m) ==
    LET message(role) == Turn(role, Each(m.contents, Rendered))
        call(c) == OpenAIItem(OpenAICall(c))
    IN  input \o
        CASE IsNative(m, "openai") ->
               Each(m.native.items, LAMBDA i : OpenAIItem(Replayed(i)))
          [] m.role = "tool" -> <<OpenAIItem(ResultBlock(m.tool_call_id))>>
          [] m.role = "assistant" /\ ~IsNative(m, "openai") ->
               (IF m.contents = <<>> THEN <<>> ELSE <<message("assistant")>>)
                 \o Each(m.calls, call)
          [] m.role = "user" -> <<message("user")>>

(***************************************************************************)
(* parse_openai_response.                                                  *)
(***************************************************************************)
OpenAIItemOK(item) == item.sound /\ (item.kind = "call" => item.id # NoId)

OpenAIParses(reply) ==
    reply.ok /\ reply.listed /\ Every(reply.items, OpenAIItemOK)

OpenAIContent(item) ==
    CASE item.kind = "text" -> Text
      [] item.kind = "image" -> Bytes("image", "other")
      [] item.kind = "part" -> Extension(item)

ParseOpenAI(reply) ==
    LET shown == OfKind(reply.items, {"text", "image", "part"})
        called == OfKind(reply.items, {"call"})
        contents == IF shown = <<>> /\ reply.aside
                    THEN <<Text>> ELSE Each(shown, OpenAIContent)
    IN  Assistant(contents, Each(called, LAMBDA i : ToolCall(i.id, i)),
                  Native("openai", reply.items, TRUE))
=============================================================================
