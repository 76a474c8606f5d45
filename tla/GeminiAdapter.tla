--------------------------- MODULE GeminiAdapter ---------------------------
(***************************************************************************)
(* src/providers/gemini.cpp: generateContent.  Turns merge as Anthropic's  *)
(* do.  Kinds of parts: "text", "image", "audio" and "file" (inlineData),  *)
(* "image_uri", "audio_uri" and "file_uri" (fileData), "call"              *)
(* (functionCall, whose id may be absent), "part" (a thought or any other  *)
(* part).                                                                  *)
(***************************************************************************)
EXTENDS Contents

GeminiSupports(c) ==
    \/ c.type = "text"
    \/ IsMedia(c) /\ c.source = "bytes"
    \/ IsMedia(c) /\ c.source = "url" /\ c.form = "google"
    \/ IsExtension(c, "gemini")

\* gemini_tool_response_parts: a URL is not a tool response part.
GeminiSupportsResult(c) ==
    \/ c.type = "text"
    \/ IsMedia(c) /\ c.source = "bytes"
    \/ IsExtension(c, "gemini")

\* append_gemini_history throws when this is FALSE.
GeminiAccepts(m) ==
    \/ IsNative(m, "gemini")
    \/ m.role = "tool" /\ Every(m.contents, GeminiSupportsResult)
    \/ m.role # "tool" /\ Every(m.contents, GeminiSupports)

IsFunctionCall(item) == item.provider = "gemini" /\ item.kind = "call"

\* The id goes on the wire only if Gemini supplied it.
GeminiResponseId(m) ==
    IF IsFunctionCall(m.metadata) /\ m.metadata.id # NoId
    THEN m.tool_call_id ELSE NoId

GeminiCall(call) ==
    IF IsFunctionCall(call.metadata) THEN Replayed(call.metadata)
                                     ELSE CallBlock(call.id)

GeminiRole(native) == IF native.role = "none" THEN "model" ELSE native.role

AppendGemini(turns, m) ==
    LET parts == Each(m.contents, Rendered)
    IN  CASE IsNative(m, "gemini") ->
               IF m.native.listed
               THEN MergeTurn(turns, GeminiRole(m.native),
                              Each(m.native.items, Replayed))
               ELSE turns
          [] m.role = "tool" ->
               MergeTurn(turns, "user", <<ResultBlock(GeminiResponseId(m))>>)
          [] m.role = "assistant" /\ ~IsNative(m, "gemini") ->
               MergeTurn(turns, "model", parts \o Each(m.calls, GeminiCall))
          [] m.role = "user" -> MergeTurn(turns, "user", parts)

(***************************************************************************)
(* parse_gemini_response.  The parts may be missing when the prompt was    *)
(* blocked or the candidate has a finishReason (aside).                    *)
(***************************************************************************)
GeminiItemOK(item) == item.sound

GeminiParses(reply) ==
    /\ reply.ok
    /\ ~reply.listed => reply.aside /\ reply.items = <<>>
    /\ Every(reply.items, GeminiItemOK)

GeminiContent(item) ==
    CASE item.kind = "text" -> Text
      [] item.kind \in {"image", "audio", "file"} -> Bytes(item.kind, "other")
      [] item.kind = "image_uri" -> Url("image", "google")
      [] item.kind = "audio_uri" -> Url("audio", "google")
      [] item.kind = "file_uri" -> Url("file", "google")
      [] OTHER -> Extension(item)

\* Faulty: the id is made of the run and the index only.
GeminiCallIdUnsized(item, run, size, index) ==
    IF item.id = NoId THEN <<"gemini_call", run, 0, index>> ELSE item.id

\* size is the number of messages of the request, index counts its calls.
GeminiCallId(item, run, size, index) ==
    IF item.id = NoId THEN <<"gemini_call", run, size, index>> ELSE item.id

ParseGemini(reply, run, size) ==
    LET shown == OfKind(reply.items, Kinds \ {"call"})
        called == OfKind(reply.items, {"call"})
        call(k) == ToolCall(GeminiCallId(called[k], run, size, k - 1), called[k])
    IN  Assistant(Each(shown, GeminiContent), [k \in DOMAIN called |-> call(k)],
                  [Native("gemini", reply.items, reply.listed) EXCEPT
                      !.role = reply.role])
=============================================================================
