-------------------------- MODULE AnthropicAdapter --------------------------
(***************************************************************************)
(* src/providers/anthropic.cpp: the Messages API.  Consecutive messages of *)
(* one role share a turn; tool results are blocks of a user turn.  Kinds   *)
(* of content blocks: "text", "call" (tool_use), "part" (anything else,    *)
(* such as thinking).                                                      *)
(***************************************************************************)
EXTENDS Contents

AnthropicSupports(c) ==
    \/ c.type = "text"
    \/ c.type = "image" /\ c.source \in {"url", "bytes"}
    \/ c.type = "file" /\ c.source = "url"
    \/ c.type = "file" /\ c.source = "bytes" /\ c.form = "pdf"
    \/ IsExtension(c, "anthropic")

\* append_anthropic_history throws when this is FALSE.
AnthropicAccepts(m) ==
    IsNative(m, "anthropic") \/ Every(m.contents, AnthropicSupports)

AppendAnthropic(turns, m) ==
    LET blocks == Each(m.contents, Rendered)
        call(c) == CallBlock(c.id)
    IN  CASE IsNative(m, "anthropic") ->
               MergeTurn(turns, "assistant", Each(m.native.items, Replayed))
          [] m.role = "tool" ->
               MergeTurn(turns, "user", <<ResultBlock(m.tool_call_id)>>)
          [] m.role = "assistant" /\ ~IsNative(m, "anthropic") ->
               MergeTurn(turns, "assistant", blocks \o Each(m.calls, call))
          [] m.role = "user" -> MergeTurn(turns, "user", blocks)

(***************************************************************************)
(* parse_anthropic_response.                                               *)
(***************************************************************************)
AnthropicItemOK(item) == item.sound /\ (item.kind = "call" => item.id # NoId)

AnthropicParses(reply) ==
    reply.ok /\ reply.listed /\ Every(reply.items, AnthropicItemOK)

AnthropicContent(item) == IF item.kind = "text" THEN Text ELSE Extension(item)

ParseAnthropic(reply) ==
    LET shown == OfKind(reply.items, Kinds \ {"call"})
        called == OfKind(reply.items, {"call"})
    IN  Assistant(Each(shown, AnthropicContent),
                  Each(called, LAMBDA i : ToolCall(i.id, i)),
                  Native("anthropic", reply.items, TRUE))
=============================================================================
