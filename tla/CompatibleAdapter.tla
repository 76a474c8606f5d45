------------------------- MODULE CompatibleAdapter -------------------------
(***************************************************************************)
(* src/providers/openai_compatible.cpp: Chat Completions.  Every message   *)
(* of the history becomes one message.  The items of a response are the    *)
(* fields of its message in the order the parser reads them: "text",       *)
(* "image" (an image_url part), "part" (another part), "call" (an entry of *)
(* tool_calls), "legacy" (function_call), "audio".  An "audio_id" is the   *)
(* audio reduced to its id.                                                *)
(***************************************************************************)
EXTENDS Contents

CompatibleSupports(c) ==
    \/ c.type = "text"
    \/ c.type = "image" /\ c.source \in {"url", "bytes"}
    \/ c.type = "audio" /\ c.source = "bytes" /\ c.form = "speech"
    \/ c.type = "file" /\ c.source = "bytes"
    \/ IsExtension(c, "openai_compatible")

CompatibleSupportsResult(c) == c.type = "text"

\* append_compatible_history throws when this is FALSE.
CompatibleAccepts(m) ==
    \/ /\ IsNative(m, "openai_compatible")
       /\ Every(m.native.items, LAMBDA i : i.kind = "audio" => i.id # NoId)
    \/ m.role = "tool" /\ Every(m.contents, CompatibleSupportsResult)
    \/ /\ m.role # "tool" /\ ~IsNative(m, "openai_compatible")
       /\ Every(m.contents, CompatibleSupports)

IsLegacy(item) == item.provider = "openai_compatible" /\ item.kind = "legacy"

\* A follow-up request names a response's audio by its id only.
CompatibleReplay(item) ==
    IF item.kind = "audio" THEN Replayed([item EXCEPT !.kind = "audio_id"])
                           ELSE Replayed(item)

AppendCompatible(messages, m) ==
    LET contents == Each(m.contents, Rendered)
        call(c) == CallBlock(c.id)
    IN  Append(messages,
        CASE IsNative(m, "openai_compatible") ->
               Turn("assistant", Each(m.native.items, CompatibleReplay))
          [] m.role = "tool" /\ IsLegacy(m.metadata) ->
               Turn("function", <<ResultBlock(NoId)>>)
          [] m.role = "tool" /\ ~IsLegacy(m.metadata) ->
               Turn("tool", <<ResultBlock(m.tool_call_id)>>)
          [] m.role = "assistant" /\ ~IsNative(m, "openai_compatible") ->
               Turn("assistant", contents \o Each(m.calls, call))
          [] m.role = "user" -> Turn("user", contents))

(***************************************************************************)
(* parse_compatible_response.                                              *)
(***************************************************************************)
\* Faulty: the parser does not insist on the id of a response's audio.
CompatibleItemOKWithoutAudioId(item) ==
    item.sound /\ (item.kind = "call" => item.id # NoId)

CompatibleItemOK(item) ==
    item.sound /\ (item.kind \in {"call", "audio"} => item.id # NoId)

CompatibleParses(reply) ==
    reply.ok /\ reply.listed /\ Every(reply.items, CompatibleItemOK)

CompatibleContent(item) ==
    CASE item.kind = "text" -> Text
      [] item.kind = "image" -> Url("image", "web")
      [] item.kind = "part" -> Extension(item)
      [] item.kind = "audio" -> Bytes("audio", "other")

\* The deprecated function_call counts only when tool_calls has nothing.
CompatibleCalled(items) ==
    LET current == OfKind(items, {"call"})
    IN  IF current = <<>> THEN OfKind(items, {"legacy"})
                          ELSE current

CompatibleCallId(item, run, size) ==
    IF item.kind = "legacy" THEN <<"legacy_function_call", run, size>>
                            ELSE item.id

\* aside: a refusal or a transcript, shown when there is nothing else before it.
ParseCompatible(reply, run, size) ==
    LET body == OfKind(reply.items, {"text", "image", "part"})
        audio == OfKind(reply.items, {"audio"})
        called == CompatibleCalled(reply.items)
        call(i) == ToolCall(CompatibleCallId(i, run, size), i)
        aside == IF body = <<>> /\ reply.aside THEN <<Text>> ELSE <<>>
    IN  Assistant(Each(body, CompatibleContent) \o aside
                     \o Each(audio, CompatibleContent),
                  Each(called, call), Native("openai_compatible", reply.items, TRUE))
=============================================================================
