-------------------------- MODULE ProviderSession --------------------------
(***************************************************************************)
(* One Session served in turn by clients of the four built-in providers.   *)
(* Every round the current client renders the whole neutral history into   *)
(* its protocol, sends it and parses the answer back into one message.     *)
(* What other threads may do meanwhile, limits and traces are the matter   *)
(* of AIClient; here a run is sequential and data is what counts.          *)
(***************************************************************************)
EXTENDS OpenAIAdapter, AnthropicAdapter, GeminiAdapter, CompatibleAdapter

CONSTANTS
    InputTypes,     \* [Providers -> content types the model's capabilities allow]
    Inputs,         \* contents an application passes to generate
    Replies,        \* [Providers -> responses the service may give]
    ToolOutputs,    \* contents a tool may return
    MaxModelRounds, \* ClientOptions::max_model_rounds
    MaxRuns,        \* bound: generations in one process
    MaxMessages     \* bound: no generation starts with more messages

ASSUME ProviderAssumption ==
    /\ MaxModelRounds \in Nat \ {0}
    /\ MaxRuns \in Nat /\ MaxMessages \in Nat

\* What the items of a response are is what its own parser sees, and no
\* provider gives a call an id of the form the adapters use.
ASSUME RepliesAssumption ==
    /\ Replies \in [Providers -> SUBSET AllReplies]
    /\ \A p \in Providers : \A reply \in Replies[p] :
          Every(reply.items, LAMBDA i : /\ i.provider = p /\ i.kind \in Kinds
                                        /\ ~IsMade(i.id)
                                        /\ i.kind = "legacy" => i.id = NoId)

\* No parser looks into an extension of the application.
ASSUME ContentsAssumption ==
    /\ Inputs \subseteq Seq(Parts) /\ ToolOutputs \subseteq Seq(Parts)
    /\ \A contents \in Inputs :
          Every(contents, LAMBDA c : c.type = "extension" => c.item.kind = "part")

VARIABLES
    messages,       \* Session::messages_
    client,         \* the provider whose client is in generate, or "idle"
    run, round,     \* number of the latest run id; round of the current run
    request         \* what was sent and not yet answered

vars == <<messages, client, run, round, request>>

NoRequest == [provider |-> "none", body |-> <<>>]

(***************************************************************************)
(* The provider's part of generate_once.                                   *)
(***************************************************************************)
Accepts(p, m) ==
    CASE p = "openai" -> OpenAIAccepts(m)
      [] p = "anthropic" -> AnthropicAccepts(m)
      [] p = "gemini" -> GeminiAccepts(m)
      [] p = "openai_compatible" -> CompatibleAccepts(m)

Renderable(p, history) == Every(history, LAMBDA m : Accepts(p, m))

Added(p, turns, m) ==
    CASE p = "openai" -> AppendOpenAI(turns, m)
      [] p = "anthropic" -> AppendAnthropic(turns, m)
      [] p = "gemini" -> AppendGemini(turns, m)
      [] p = "openai_compatible" -> AppendCompatible(turns, m)

Body(p, history) ==
    LET body[n \in 0..Len(history)] ==
            IF n = 0 THEN <<>> ELSE Added(p, body[n - 1], history[n])
    IN  body[Len(history)]

Parses(p, reply) ==
    CASE p = "openai" -> OpenAIParses(reply)
      [] p = "anthropic" -> AnthropicParses(reply)
      [] p = "gemini" -> GeminiParses(reply)
      [] p = "openai_compatible" -> CompatibleParses(reply)

Parsed(p, reply) ==
    CASE p = "openai" -> ParseOpenAI(reply)
      [] p = "anthropic" -> ParseAnthropic(reply)
      [] p = "gemini" -> ParseGemini(reply, run, Len(messages))
      [] p = "openai_compatible" -> ParseCompatible(reply, run, Len(messages))

(***************************************************************************)
(* The session and the generation loop.                                    *)
(***************************************************************************)
Init ==
    /\ messages = <<>>
    /\ client = "idle"
    /\ run = 0
    /\ round = 0
    /\ request = NoRequest

\* AIClient::validate_input looks at types, not at sources.
ValidInput(p, c) ==
    IF c.type = "extension" THEN c.item.provider = p
                            ELSE c.type \in InputTypes[p]

Start(p, contents) ==
    /\ client = "idle"
    /\ run < MaxRuns
    /\ Len(messages) < MaxMessages
    /\ Every(contents, LAMBDA c : ValidInput(p, c))
    /\ messages' = Append(messages, User(contents))
    /\ client' = p
    /\ run' = run + 1
    /\ round' = 1
    /\ UNCHANGED request

Send ==
    /\ client # "idle"
    /\ request = NoRequest
    /\ Renderable(client, messages)
    /\ request' = [provider |-> client, body |-> Body(client, messages)]
    /\ UNCHANGED <<messages, client, run, round>>

\* The adapter throws unsupported_content before anything is sent.
RefuseHistory ==
    /\ client # "idle"
    /\ request = NoRequest
    /\ ~Renderable(client, messages)
    /\ client' = "idle"
    /\ UNCHANGED <<messages, run, round, request>>

\* Faulty: the request is still considered pending.
FailWithoutReset ==
    /\ request # NoRequest
    /\ client' = "idle"
    /\ UNCHANGED <<messages, run, round, request>>

\* The transport or the parser throws, or a limit is reached.
Fail ==
    /\ request # NoRequest
    /\ client' = "idle"
    /\ request' = NoRequest
    /\ UNCHANGED <<messages, run, round>>

NeedsAnotherRound(reply, m) ==
    m.calls # <<>> \/ (client = "anthropic" /\ reply.pause)

DistinctIds(calls) ==
    /\ Every(calls, LAMBDA c : c.id # NoId)
    /\ IsInjective(Each(calls, LAMBDA c : c.id))

\* Faulty: the results do not inherit the metadata of their calls.
RecordBare(m, outputs) ==
    messages' = Append(messages, m)
                \o [k \in DOMAIN m.calls |->
                       ToolResult(ToolCall(m.calls[k].id, NoItem), outputs[k])]

\* Appends the response and the results of its calls in call order.
Record(m, outputs) ==
    messages' = Append(messages, m)
                \o [k \in DOMAIN m.calls |-> ToolResult(m.calls[k], outputs[k])]

Receive(reply) ==
    LET m == Parsed(client, reply)
        goesOn == NeedsAnotherRound(reply, m)
    IN  /\ request # NoRequest
        /\ Parses(client, reply)
        /\ DistinctIds(m.calls)
        /\ goesOn => round < MaxModelRounds
        /\ \E outputs \in [DOMAIN m.calls -> ToolOutputs] : Record(m, outputs)
        /\ \/ ~goesOn /\ client' = "idle" /\ UNCHANGED round
           \/ goesOn /\ UNCHANGED client /\ round' = round + 1
           \* stop_on_tool_error
           \/ m.calls # <<>> /\ client' = "idle" /\ UNCHANGED round
        /\ request' = NoRequest
        /\ UNCHANGED run

ClearMessages ==
    /\ client = "idle"
    /\ messages' = <<>>
    /\ UNCHANGED <<client, run, round, request>>

\* The application saves the messages and restores them in a new process
\* (SessionOptions::messages); run ids start again.
Restore ==
    /\ client = "idle"
    /\ run' = 0
    /\ UNCHANGED <<messages, client, round, request>>

Next ==
    \/ \E p \in Providers, contents \in Inputs : Start(p, contents)
    \/ Send
    \/ RefuseHistory
    \/ Fail
    \/ client # "idle" /\ \E reply \in Replies[client] : Receive(reply)
    \/ ClearMessages
    \/ Restore

Spec == Init /\ [][Next]_vars

-----------------------------------------------------------------------------
(***************************************************************************)
(* Properties.                                                             *)
(***************************************************************************)
TypeOK ==
    /\ messages \in Seq(Messages)
    /\ client \in Providers \cup {"idle"}
    /\ run \in 0..MaxRuns
    /\ round \in 0..MaxModelRounds
    /\ request # NoRequest => request.provider = client

IsCall(b) == b.kind = "call" \/ (b.kind = "native" /\ b.item.kind = "call")
IsLegacyCall(b) == b.kind = "native" /\ IsLegacy(b.item)

\* The blocks of a body in order, each with the role of its turn and whether
\* it asks for a tool call.
Entries(t) ==
    LET asks(b) == IsCall(b) \/ (IsLegacyCall(b) /\ ~\E k \in DOMAIN t.blocks :
                                                      IsCall(t.blocks[k]))
    IN  Each(t.blocks, LAMBDA b : [role |-> t.role, block |-> b, asks |-> asks(b)])

Flat(body) == FlattenSeq(Each(body, Entries))

\* The calls that have no result yet, after the block f.
Waiting(calls, f) ==
    IF f.asks THEN Append(calls, f.block)
    ELSE IF f.block.kind = "result" /\ calls # <<>> THEN Tail(calls)
    ELSE calls

Answers(p, result, call) ==
    result.id = call.id \/ (p = "gemini" /\ call.kind = "call" /\ result.id = NoId)

\* Results are for the first open call, user content comes when there is none.
InPlace(p, calls, f) ==
    IF f.block.kind = "result"
    THEN calls # <<>> /\ Answers(p, f.block, calls[1])
    ELSE f.role = "user" => calls = <<>>

ExtensionItems(contents) ==
    FlattenSeq(Each(contents,
        LAMBDA c : IF c.type = "extension" THEN <<c.item>> ELSE <<>>))

\* The ids under which calls of other providers reach OpenAI a second time.
ItemIds(calls) ==
    FlattenSeq(Each(calls,
        LAMBDA c : IF HasId(c.metadata)
                   THEN <<[c.metadata EXCEPT !.kind = "item_id", !.id = c.id]>>
                   ELSE <<>>))

\* The opaque data of message m that a request to p contains.
OpaqueFor(p, m) ==
    LET kept(item) == IF item.kind = "audio" /\ p = "openai_compatible"
                      THEN [item EXCEPT !.kind = "audio_id"] ELSE item
    IN  IF m.native.provider = p THEN Each(m.native.items, kept)
        ELSE IF m.role = "tool" THEN <<>>
        ELSE ExtensionItems(m.contents)
               \o (IF p = "openai" THEN ItemIds(m.calls) ELSE <<>>)

IsOpaque(b) == b.kind = "native" \/ (b.kind = "call" /\ b.item.kind = "item_id")

OpaqueItems(body) ==
    LET opaque(b) == IF IsOpaque(b) THEN <<b.item>> ELSE <<>>
    IN  FlattenSeq(Each(body, LAMBDA t : FlattenSeq(Each(t.blocks, opaque))))

\* In every request, whoever made the calls it contains, each call has
\* exactly one result, results come in call order, no user content comes
\* between a call and its result, and a result names its call by the id the
\* provider gave it.  Gemini may leave out the id of a call it did not make.
EveryCallIsAnswered ==
    LET flat == Flat(request.body)
        open[n \in 0..Len(flat)] ==
            IF n = 0 THEN <<>> ELSE Waiting(open[n - 1], flat[n])
    IN  /\ \A n \in DOMAIN flat : InPlace(request.provider, open[n - 1], flat[n])
        /\ open[Len(flat)] = <<>>

\* Anthropic and Gemini requests begin with a user turn, roles alternate, and
\* the last turn is the user's unless a paused response is being continued.
TurnsAlternate ==
    LET body == request.body
    IN  request.provider \in {"anthropic", "gemini"} =>
          /\ body[1].role = "user"
          /\ \A k \in 1..(Len(body) - 1) : body[k].role # body[k + 1].role
          /\ Last(body).role = "user" \/ Last(messages).role = "assistant"

\* The opaque data in a request is what this provider once sent, in its order
\* and complete, with what the application addressed to it.  Of what another
\* provider sent only this is passed on, and only to OpenAI: the id in the
\* metadata of an Anthropic or chat call becomes the id of a function_call
\* item (openai.cpp:113 does not ask whose it is), and it is the very id the
\* call goes by.  A chat message's audio goes by its id.  What a tool returned
\* is inside its result.
NativeIsReplayed ==
    request # NoRequest =>
        OpaqueItems(request.body)
          = FlattenSeq(Each(messages, LAMBDA m : OpaqueFor(request.provider, m)))

\* No call in a history is without an id.  The calls of one response have
\* different ids, so that a result names one of them, and an id that an
\* adapter made up is the only one of its kind in the whole history: over
\* rounds, over providers, and after a restored session meets run ids that
\* start again.
CallIdsAreUnique ==
    \A k, l \in DOMAIN messages :
       \A i \in DOMAIN messages[k].calls, j \in DOMAIN messages[l].calls :
          LET id == messages[k].calls[i].id
          IN  /\ id # NoId
              /\ (IsMade(id) \/ k = l) /\ id = messages[l].calls[j].id
                    => k = l /\ i = j

\* Whatever a parser accepts its own adapter can send back, so a provider's
\* own response never makes a session unusable for it.
OwnRepliesAreAccepted ==
    \A p \in Providers : \A k \in DOMAIN messages :
        messages[k].native.provider = p => Accepts(p, messages[k])

\* README.md:91: the same Session works with every built-in provider.  With
\* text inputs and text tool results, every client can serve an idle session.
SessionIsPortable ==
    client = "idle" => \A p \in Providers : Renderable(p, messages)
=============================================================================
