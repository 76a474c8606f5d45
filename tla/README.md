# NeuralPlus: TLA+ models and proofs

NeuralPlus is a C++ library that talks to several LLM providers through one
interface. An application owns `Session` objects (the conversation), registers
`Tool` objects and tracers with an `AIClient`, and calls
`AIClient::generate(session, input)`. One call is a *generation*: the client
asks the provider, executes the tools the model asked for, asks again, until
the model is done or a limit is reached. Sessions, tools and tracers may be
shared between clients and threads; that sharing is what most of these models
are about.

## Inventory

| Part | Source | State | Operations |
|---|---|---|---|
| Session | `src/src/session.cpp` | `messages_`, `system_`, `active_` (the lease) | `set_system`, `append`, `clear_messages`, reads; for the client `acquire`, `release`, `append_from_client` |
| Generation loop | `src/src/client.cpp` `generate` | locals: round, cumulative usage and tool calls | one activation per run, on the caller's thread |
| Tool execution | `src/src/client.cpp` `execute_tools`, `execute_tool`; `src/include/neuralplus/tool.hpp` | offset, futures, results; one recursive `invocation_mutex_` per Tool object | inline loop, batches of `std::async`, fallback after `std::system_error` |
| SessionState | `src/include/neuralplus/session.hpp` | a map of `std::any` under a mutex | `set`, `get`, `update`, `erase`, `clear` |
| Schemas and arguments | `src/src/client.cpp`, `src/src/tool.cpp` | none | pure, recursive over JSON |
| Tracers | `src/src/tracing.cpp` | the file, its byte count and failure; a vector; callbacks | `record`, `flush` |
| Transport | `src/src/transport.cpp` | options; a response being received and the contexts of the callbacks | `send`, libcurl callbacks with size limits |
| Adapters | `src/src/providers/`, `src/src/provider_common.cpp` | configuration only | `generate_once`: history to request, response to message |
| Model registry, types | `src/src/models.cpp`, `src/src/types.cpp` | none | tables, constructors |

How they interact. `generate` is a friend of `Session`: it takes the lease with
an atomic exchange on `active_`, and while it has it every public mutating
operation of that session throws `SessionInUseError`. The lease is a destructor
(`RunLease`), so it is given back on every return and throw. Each round reads
`system()` and `messages()` (two critical sections), calls the provider through
the virtual `generate_once`, checks and counts the response, appends it, runs
`execute_tools` and appends the results. `execute_tools` blocks the caller until
every worker has ended; workers of all runs meet at the mutexes of the Tools.
Tracers are called synchronously and their exceptions are swallowed. The library
calls application code with a lock held in four places: `Tool::invoke` (a
recursive mutex), the function of a `FunctionAIClient`, the function of a
`FunctionTracer` and the updater of `SessionState::update` (plain mutexes); each
may call back into the library.

What is hard here: runs racing for one session; edits of a session around the
start of a run; leaving the loop in the middle (limits, provider exceptions,
tool failures) with a history that can still be used; workers that end in any
order, thread creation that fails in the middle of a batch, Tools shared by
runs; limits over several rounds; usage that a round does not report; callbacks that
use the library again while it holds a lock; a peer that stalls, breaks off or
sends too much; credentials that come back in an answer.
`PROJECT.json` lists the hazards line by line.

## Modules

| Module | What it is |
|---|---|
| `ToolCalls` | constants and data of tool execution: Tools, limits, requests |
| `ToolBatch` | abstract: the contract of `execute_tools` |
| `ToolExecutor` | detailed: `execute_tools` and `execute_tool`, threads, futures, mutexes |
| `ToolExecutor_proofs` | the inductive invariant of `ToolExecutor`, its safety theorems, and that it implements `ToolBatch` |
| `Transcript` | the messages of a history and what one generation may leave in it (`Exchange`) |
| `Conversation` | abstract: a history that changes by whole exchanges |
| `Session` | history, system instruction and lease of a session |
| `AIClient` | `generate`, composed with `Session` (extended) and `ToolBatch` (instantiated) |
| `AIClient_proofs` | the inductive invariants of the lease and of exchanges in `AIClient`, its safety theorems, and that it implements `Conversation` |
| `MCAIClient` | the provider responses of the bounded instances |
| `Contents` | provider-neutral messages, native items, request bodies |
| `OpenAIAdapter`, `AnthropicAdapter`, `GeminiAdapter`, `CompatibleAdapter` | pure: what each adapter accepts and sends for a history, what it makes of a response |
| `ProviderSession` | one session served in turn by clients of all four providers |
| `MCProviderSession` | inputs, tool outputs and responses of the bounded instances |
| `ProviderSession_proofs` | the inductive invariant of `ProviderSession` and its safety theorems |
| `SessionState` | the typed values of a session, one operator per operation |
| `Callbacks` | threads, locks and stacks of callbacks that call back into the library |
| `Callbacks_proofs` | the inductive invariant of `Callbacks`, its safety theorems and freedom from deadlock |
| `MCCallbacks` | nine applications: who installs what, and what its callbacks may do |
| `Induction` | induction over numbers and ranks, for a set instead of a predicate; functions by recursion; `FlattenSeq` |
| `HttpTransport` | `CurlHttpTransport::send`, its callbacks, libcurl and a peer |
| `HttpTransport_proofs` | the inductive invariant of `HttpTransport` and its safety theorems |
| `MCHttpTransport` | options, requests and answers of the bounded instance |
| `Json` | JSON values, for the pure modules |
| `Schemas` | tool schemas and the validation of arguments |
| `Base64` | encoding and decoding of binary content |
| `Redaction` | request headers, the credentials in them, their redaction in answers |
| `Requests` | the request bodies of the four adapters: options, settings, tools |
| `PureFunctions` | chooses one input for the functions of `Schemas`, `Base64`, `Redaction` or `Requests`, and states what they promise |
| `PureFunctions_proofs` | what those functions compute, and the four theorems about every input |
| `MCPureFunctions` | the inputs of the bounded instance |
| `FileTracer` | the trace file: threads, stdio buffer, failing writes, crash and restart |
| `FileTracer_proofs` | the inductive invariant of `FileTracer` and its safety theorems |

```
ToolCalls --> ToolBatch <== ToolExecutor <-- ToolExecutor_proofs
    |             |
Transcript --> Session --> AIClient <-- MCAIClient, AIClient_proofs
    |                         ||
    +------> Conversation <===++          --> EXTENDS    <== implemented by

Contents --> {OpenAI,Anthropic,Gemini,Compatible}Adapter --> ProviderSession --> MCProviderSession, ProviderSession_proofs
FileTracer --> FileTracer_proofs
SessionState --> Callbacks --> MCCallbacks, Callbacks_proofs
Induction --> {AIClient,Callbacks,HttpTransport,ProviderSession,PureFunctions}_proofs
HttpTransport --> HttpTransport_proofs, MCHttpTransport
Json --> {Schemas, Requests}; Schemas, Base64, Redaction, Requests --> PureFunctions --> MCPureFunctions, PureFunctions_proofs
```

### Correspondence with the code

`ToolExecutor`. A *run* is one activation of `execute_tools`; `calls`, `offset`,
`index`, `futures` and `results` are its locals, `launched` the position in the
batch's inner loop and `phase` its program counter:

| Action | Code |
|---|---|
| `Enter` | the call; `!parallel_ || calls.size() < 2` chooses inline or batches |
| `Launch`, `LaunchFails` | one `std::async`, or the `std::system_error` it throws |
| `Collect`, `Drain` | `future.get()` in launch order, after a batch or after a failure |
| `NextBatch` | `offset += parallelism` |
| `FallBack` | the inline loop over everything that never got a thread |
| `InlineCall`, `InlineReturn` | `execute_tool` on the run's own thread |
| `Refuse` | `execute_tool` ends with an error before it reaches the Tool |
| `Lock`, `Unlock` | `std::lock_guard` on `invocation_mutex_`, `Tool::invoke` between the two; here the callback does not call the library (see `Callbacks`) |

A call is abstracted to the Tool object it reaches, or to `BadCall` (unknown
tool, arguments that are not JSON or violate the schema). An execution is
abstracted to `ok` or `error`.

`Session` and `AIClient`. Every region under `messages_mutex_` is one action.
`AIClient` has one action per stretch of `generate` between two calls that
another thread can observe; `pc` names the place. `add_usage` keeps six
counters that go through the same `add_count`, one stands for all. The
provider is external: `ProviderReturns` takes any response of `Responses`,
`ProviderThrows` any exception. `reported`, `by` and `round` are history
variables, the code does not keep them.

Adapters. The two halves of `generate_once` are operators: `Append...` folds one
message into a request body (`append_*_history`), `...Accepts` is its
`throw_unsupported_content`, `...Parses` the conditions under which
`parse_*_response` does not throw, `Parse...` the message it builds. An element
of a provider's response is an *item* with the kind the parser would see, the
call id it carries and `sound`, which stands for every check of a field's type
or encoding. A call that OpenAI did not make is rebuilt as a `function_call` item,
and `append_openai_history` copies the string `id` of the call's metadata into it
without asking whose metadata it is (`OpenAICall`). The metadata of an Anthropic
call is its whole `tool_use` block (`anthropic.cpp:316`), that of a chat call its
entry of `tool_calls` (`openai_compatible.cpp:460`); both have an id, a Gemini part
and a legacy call have none at that place (`HasId`). Native content of Gemini goes
back with the role it came with, and with `model` if it named none
(`GeminiRole`); responses name `model` or nothing (`NativeRoles`). Text, URLs and bytes are abstracted to the distinctions an adapter
makes (`form`: a Google URI, a PDF, MP3 or WAV); every media type a response can
bring is `other`. `ProviderSession` runs the loop of `generate` sequentially
around them: `Start` appends the input, `Send` renders, `Receive` parses and
records, `RefuseHistory` and `Fail` are the exceptions. Concurrency, limits and
traces of that loop are in `AIClient` and not repeated. `Restore` is a new
process that constructs a `Session` from saved messages; run ids, a static
counter, start again there. Other histories that an application can build with
the public `append`, such as one that begins with an assistant message of its own
making, are not in the model; what the properties say of pairing and alternation
holds for histories that the loop has written and `Restore` has saved.

`FileTracer`. `Dump` builds the line, `Lock` takes `mutex`, `Write` is the limit
check with a complete `fwrite`, `Accept` the optional `fflush`, the update of
`bytes_written` and the unlock; `Refuse`, `WriteFails` and `FlushFails` are the
throws. A byte is an event and a position in its line. `Holds` is stdio: it has
the bytes and has passed on any prefix. After an error C libraries differ, so
the rest is kept or dropped (`HoldsOrDrops`). `outcome`, `initial`, `failed` and
`kept` are history variables. The Windows build writes through `std::ofstream`
and is not modelled.

`SessionState` and `Callbacks`. A thread is a stack of activations: a generation,
an `execute_tool`, an access to a `SessionState`, or a callback. `todo` is the
rest of the function an activation is in, so its head is the program counter; a
generation makes the calls of `generate` in their order, with one round of tools
or none. A callback locks (`Lock`), uses the library at most once (`Generate`,
`UseState`) and returns or throws (`Finish`), which unlocks. `raised` is an
exception under way: `Unwind` is the catch and rethrow of `generate`, and Tools
and tracers swallow theirs. A generation that finds its session in use throws
(`Acquire`). Workers of a parallel response are threads of their own; `Spawn` and
`SpawnFails` are the two outcomes of `std::async`. `app`, chosen at the start, is
the application: which client offers which Tools, what is traced, what the
callbacks may do. `SessionState::update` is the one operation in two steps,
because the updater runs in between; `completed` is a history variable.

`HttpTransport`. `Refuse` and `Unavailable` are the throws before the transfer,
`Perform` the call of `curl_easy_perform`. From there libcurl and the peer move:
`Connect`, `HandOverLine` and `HandOverBytes` call `write_header` and
`write_body` (`WriteHeader`, `WriteBody`), `Complete`, `Break` and `Timeout` end
the transfer. `Return` is the classification behind it. A chunk of any size may
come; arithmetic of `size_t` and `long` keeps its width (`SizeMax`, `LongMax`).
`offered` is a history variable.

`Schemas`, `Base64`, `Redaction` and `Requests` translate functions without state.
`Schemas` has the validation as the code does it, in the order of its checks and
with the accessors that throw, beside the meaning of the keywords (`Satisfies`).
`Base64` works with numbers, six bits at a time, where the code shifts words. In
`Redaction` the marker is one element of a text. In `Requests` a value says where
it comes from (an option of the model or of the call, the SDK), which is what the
order of writing decides. `PureFunctions` makes them a specification: its one step
chooses an input, a header list as `apply_extra_headers` leaves it or a request as
the client hands it on, so that an invariant is a statement about every input.
A nested value is at most as deep as `Depth` says, which every JSON value is.

## Runs

| Run | Question | Bounds |
|---|---|---|
| `executor_sharing` | mutual exclusion per Tool, liveness, refinement of `ToolBatch` | two runs (one parallel, one serial), one Tool, up to 3 calls each, parallelism 2 |
| `executor_batches` | window, order, exactly-once and completeness | one run, two Tools, up to 5 calls, parallelism 2: full batches, a short last batch, a failure in each position |
| `client_one_session` | lease, snapshot, limits, answer, trace; generations look atomic | two runs, one session, 3 rounds, 2 calls per generation, one imported message, one system text |
| `client_two_sessions` | every lease is given back | two runs that choose among two sessions and share a Tool, 2 rounds |
| `client_unresolved` | a comment of the code about unresolved markers, refuted | one run, 3 rounds |
| `providers_mixed` | pairing of calls and results, roles, provenance of native data, call ids | two generations by any two providers, 2 rounds each, at most 5 messages before a generation |
| `providers_portable` | a claim of the README about sessions and providers, refuted | as above, text only |
| `trace_file` | size limit, durability, refusals, termination of `record` | two threads, 3 events of 2 or 3 bytes, limit 5 or none, two objects one after the other |
| `callbacks_applications` | serialization of callbacks, updates of a `SessionState`, who may get stuck | nine applications, two callers, three workers, four sessions, two Tools, two clients, generations nested three deep, three updates of an entry |
| `transport_answers` | completeness of a response, exact limits, every send returns | `SizeMax` and `LongMax` 3, limits of 0 to 3, timeouts from -1 to 8, bodies of up to 5 bytes, with an interim block or a trailer |
| `functions_inputs` | argument validation, Base64, redaction, request bodies | schemas and values two levels deep, up to 4 bytes, texts up to 9 characters, headers over two letters, all mixes of two sources of options |
| `trace_lines` | the claim of one JSON line per event, refuted | one thread, 3 events of 2 bytes, two objects |

Why the bounds are enough. Two runs are what it takes for a conflict on a
session or a Tool. Parallelism 2 with 3 calls has a full and a short batch, with
5 calls two full batches and a short one. Three rounds make the cumulative
counters and the first-round special case of `add_count` differ, and let a
second round be neither first nor last. The responses contain a final answer
with and without usage, a continuation, one and two calls, a duplicate id and a
wrong role; two calls exhaust the call limit so that a second round exceeds it.
`CountMax` is 3 so that usage overflows in a reachable state; a sum wraps at that
width (`Wrapped`), so a response that passed a missing check would be counted
wrong. Two generations are enough for a
provider to meet messages of itself and of one other, with one of them cut short
by an error or a limit so that roles repeat. Every kind of item a parser tells
apart is in some response, calls come with ids and without, alone and in pairs.
Three events of 2 or 3 bytes under limit 5 fill the file exactly, leave one byte,
or are refused, before and after the file is opened again. The applications of `callbacks_applications` have each cycle once: a Tool inside
itself, through a parallel client, through another Tool on another thread; a
model, a tracer and an updater that call themselves; and two that keep an order.
Three levels let a Tool be entered a third time and leave one more to try.
With `SizeMax` 3 a limit is the largest number there is, so a sum that wraps
shows; a timeout of 8 becomes 0 when it is cast, one of 4 negative. Schemas two
levels deep have every keyword above and below every other. Header values of two
letters overlap, contain and equal one another in all ways. No run uses symmetry. Deadlock is checked wherever the modelled program cannot stop;
`ToolExecutor` has an explicit `Done`. `FileTracer` stops when its bound on
events is used up, so its runs do not check deadlock; `RecordReturns` shows that
no thread is stuck. `callbacks_applications` does not check it either: some of
its applications do get stuck, and `StuckOnlyWithoutRule` says which.
`functions_inputs` stops after it has chosen an input.

`client_unresolved` expects a violation. The comment at `src/src/client.cpp:506`
says that no unresolved tool call or continuation marker is retained; the code
guarantees this for the round limit, but a continuation response appended in an
earlier round stays when the follow-up provider call throws.

`providers_portable` expects a violation too. README.md:91 says that one session
works with every built-in provider. Items that only their own protocol knows (a
thinking block, a thought) become extension contents of the assistant message,
and every other adapter refuses to render those: after such an answer the
session is usable with one provider only. Where all adapters accept a history,
`providers_mixed` shows that the requests they send are well formed. One
asymmetry it allows for: Gemini gives a call of another provider its id and
leaves the id out of the result (`Answers`).

`trace_lines` is the third. An event that follows a half-written line is
accepted, even flushed, and shares that line.

Observations without a run of their own. An OpenAI request that replays the calls
of Anthropic or of a chat protocol contains their ids twice, as `call_id` and, by
`openai.cpp:113`, as the `id` of the item; nothing in the repository promises
otherwise. `NativeIsReplayed` states what is passed on in this way, that it
equals the id of the call, and that nothing else of another provider is.
`max_tokens` in the provider options of an Anthropic call has no effect: `default_max_output_tokens`, which
`providers.hpp:66` calls a fallback, is written over it unless the typed setting
is given (`AnthropicRequest`). The text of a provider error is redacted with the
response and once more as a message, so a credential that is part of the marker
`[REDACTED]` changes the marker of the first pass, although
`provider_common.cpp:89` rules that out for one pass. `HttpResponse::header`
returns the first line of a name, which may belong to a proxy's reply or an
interim answer.

What `callbacks_applications` says of an application. Its threads never wait for
one another for ever if every callback only uses objects of a lower rank than its
own, in any order it likes to choose, or if one thread does everything and the
only cycles are Tools inside Tools. `parallel_tool_calls` breaks the second rule:
the inner call of a Tool then comes from another thread, for which its recursive
mutex is closed. The library states only the rule for updaters
(`session.hpp:59`).

## Fairness

`ToolExecutor!Fairness` is weak fairness of every run's thread and of every
worker: the operating system schedules threads, and a Tool callback returns or
throws. A mutex gives no fairness by itself, but every run makes one request of
finitely many calls, so a worker can be overtaken only finitely often and weak
fairness suffices. `AIClient!Fairness` is weak fairness of each run's own steps
and of its tool steps; the provider returns or throws because every transport
request has a timeout. Starting a run and editing a session are never fair.
`FileTracer` is weakly fair for each thread inside `record`; recording, opening,
closing and crashing are not fair. `Callbacks` is weakly fair for each thread's
next step, as the scheduler is: a thread that waits for a lock takes it when it is
free for long enough, and each application starts finitely many generations.
Starting one is not fair. `HttpTransport` is weakly fair for the calling thread
(`Return`) and for libcurl's timers (`Timeout`, which is not enabled during a
transfer without a timer); the peer and the connection are not fair. `ProviderSession` has only safety properties.

## What is proved

`ToolExecutor_proofs` shows, for any sets of runs and Tools and any positive
limits (`ToolsAssumption`, `LimitsAssumption`, `NoOwnerAssumption`), type
correctness, `OneInvocationPerTool`, `BoundedWindow`, `ResultsInRequestOrder`,
`InvokedOnce` and `CompleteOnReturn`. None of them is inductive. The invariant
`IInv` adds what they rest on: `Handed(r)`, the number of calls given to
`execute_tool`, as a function of the program counter; exactly those calls have a
job; the results are those of the first calls, and the open futures are those of
the calls between the results and `Handed(r)`; where `launched` stands relative
to the end of the batch in each phase; and that a worker inside a Tool owns its
mutex. One lemma per action shows that the action preserves it. The window
follows because a batch starts only when the results have caught up with
`offset`, so `Handed(r)` is at most `Width(r)` beyond them.

`ToolExecutor_proofs` also shows `Spec => Contract!Spec`: `Enter` is the
contract's `Request`, a worker's step its `Refuse`, `Begin` or `End` (the window
is exactly the guard of `Ready`, the mutex that of `Begin`), the step to
`returned` its `Return`, and all others stutter. `AIClient` is composed with the
contract, so what is checked there does not depend on how calls are scheduled.

`FileTracer_proofs` shows type correctness, `WithinLimit`, `RefusesOnlyWhenFull`
and `FlushedEventsSurvive` for any threads, line sizes, limits and number of restarts
(`ThreadsAssumption`, `SizesAssumption`, `LimitsAssumption`, `FileBounds`). The
limit is not inductive, because the check looks at `bytes_written` and not at
the file. `IInv` adds that the two agree while no thread is between `fwrite` and
the unlock (`Counted`), that exactly one line is missing from the count when one
is (`Pending`), and that this is the owner of the mutex (part of `TypeOK`). Each
claim is conditional on no failed write, which is what the code guarantees.
Durability needs no such condition: a line reported as flushed is in the file
with nothing of another event in it, and the file only grows (`Durability`).

`HttpTransport_proofs` shows type correctness, `LimitsAreExact` and
`ResponseIsWhatThePeerSent` for any widths,
options, requests and answers (`WidthsAssumption` and the assumptions that type
the constants). `LimitsAreExact` speaks of a returned `send`, so `IInv` carries it
through a transfer: as long as no flag is up, what was stored is what was handed
over (`Exact`), both are within the limits (`Within`), a flag ends the transfer at
once and the outcome is the flag's (`Phases`). `Within` is also why the code's
comparison, which avoids the sum, means that the sum exceeds the limit
(`ExceedsMeans`). For the content of a response it follows the transfer: the body
stored is the beginning of the body sent, and the headers stored are the fields
among the lines handed over so far, in their order. `write_header` keeps the
fields of every block: of a proxy's reply, of an interim answer, of the answer
itself and of a trailer; a line without a colon, such as a status line, only
counts towards the limit (`FirstFields` is a recursive function over the lines;
what it gives is shown by induction). Only a transfer that was handed over whole counts as an answer.

`AIClient_proofs` shows `OneHolder` and `RequestIsCurrent` for any runs, sessions,
responses and limits; the proof uses no assumption on the constants. Neither is
inductive: the flag `active` alone does not say whose it is, and a snapshot is
taken in two reads. `IInv` adds that whoever is inside `generate` has a session
that is active and that no other holder has (`Leases`), and what a request is
between the reads (`Halfway`). A step of a run writes at most to its own session
(`OwnStep`) and a public operation only to one that is not active (`EditInv`), so
no step touches what another run has asked about; the run itself leaves the
region where the snapshot matters when it appends (`WritingDoes`).

`AIClient_proofs` then follows each run through the exchange it writes. `Follows`
has four parts: the types (`Types`); the counters of rounds, calls and usage, as
far as the limits bound them (`Numbers`); the events the run has recorded
(`Events`); and the place (`Place`): while a run has the lease, the end of the
history is what it has appended, and this is, for each label, a known part of an
exchange. From it follow `TypeOK`, `AnswerMatchesHistory`, `ToolsRunInContext`,
`TraceIsComplete` and `Spec => Atomic!Spec` for `Conversation`: a history
without what the holder of its lease has appended changes only when a run ends,
by a whole exchange, or by a public operation.

`Callbacks_proofs` shows, for any threads, objects and applications
`CallbacksAreSerialized`, `NoUpdateIsLost`, `OnlyCompletedUpdatesCount` and
`StuckOnlyWithoutRule`. `IInv` says how stacks are built (`StackInv`: every
activation but the last is at the call it made; an exception under way is at the
top; a generation is nested deeper than the one that caused it; a parallel call's
workers belong to the generation that waits for them), that a lock is held as
often as its owner's stack says (`LockInv`), and that the entries of a
`SessionState` count the updaters that returned (`StateInv`). Freedom from
deadlock is one argument for each rule. Under an order, ranks fall along a stack,
so among the locks that are waited for take one of least rank: its owner is
further down, waits for nothing lower, and can move, or it waits for a worker that
can. Without locks to wait for, the deepest generation can move. On one thread
with cycles of Tools only, a lock that is waited for is held by the same stack, so
it would be below itself, which only a Tool may be, and that lock is recursive. The
second rule must ask for equal ranks of the Tools of a cycle: the proof failed
for a rule that let the rank rise between Tools.

`ProviderSession_proofs` shows all six invariants of the runs, for any inputs,
responses, tool outputs and bounds, and with them for any order in which the four
providers serve a session: type correctness, `OwnRepliesAreAccepted`,
`CallIdsAreUnique`, `TurnsAlternate`, `NativeIsReplayed` and
`EveryCallIsAnswered`. It assumes that the kinds of the items of a response are
those its own parser sees, that no provider gives an id of a form the adapters
make, that a legacy call has no id (`RepliesAssumption`), and that no parser looks
into an extension of the application (`ContentsAssumption`). `IInv` says who wrote
each message (`History`): the application, a provider whose parser made exactly
its contents, calls and native items (`FromProvider`), or the tool loop, and then
it is the result of the call that stands as far before it; and that a request is
the body of the history (`Sent`). The invariants are then facts about histories.

- `generate` refuses a response with a missing or repeated id before it records
  it. A made id holds the size of the history it was made for, and two messages
  are made for different sizes. This is `CallIdsAreUnique`.
- `TurnsAlternate` is an induction over the messages: merging keeps the roles
  apart (`Orderly`).
- `NativeIsReplayed` reads a body with a homomorphism (`Hom`). Merging turns does
  not change what it gives (`HomMergeOf`), so the opaque items of a body are those
  of the messages, one after the other: of an own answer its native items, of
  another's its extensions (`ForeignContents`), and in an OpenAI body the ids of
  its calls (`ForeignItems`), each the id of its call because the parsers take
  both from one field (`HeldId`).
- `EveryCallIsAnswered` reads a body as a scan that keeps the open calls (`Scan`).
  A message adds one segment to what is read, in an item list or in merged turns
  (`Gained`; this needs that Anthropic and Gemini are sent no legacy call). An
  answer asks for exactly its recorded calls, whoever gave it and whoever is sent
  it (`AnswerAsks`); after each message the open calls are those of one answer
  that have no result yet (`Waits`), and at a request there are none.

`PureFunctions_proofs` shows `SchemasAreMet`, `Base64Inverts`,
`CredentialsAreRedacted` and `RequestsAreAsAsked` for any inputs of their kinds.
It assumes that a JSON value is of one of three shapes, object, array or scalar,
and finitely nested (`JsonAssumption`), that the marker is no character of a text
(`LettersAssumption`), and the types of the inputs (`InputsAssumption`). The
step to an invariant is small (`Chosen`); the work is in the functions.

- Validation and meaning recurse over a value together. `ValidateIs` and
  `SatisfiesIs` turn both into equations, and an induction over the depth
  compares them keyword by keyword (`TypeIsChecked` to `AdditionalIsChecked`).
  The definition check is what rules out an accessor that throws (`SubschemaOf`).
- A text of Base64 is cut into groups of four, bytes into groups of three, and
  joining what one group gives is undone by cutting it again (`JoinedPieces`).
  What is left is one group: `SplitByte` and `SplitDigit` say how numbers are
  taken apart and put together.
- The pass of `redact_sensitive_values` leaves a trail: for each element of the
  result, the place in the text at which the loop appended it (`Pass`). The loop
  leaves one (`RedactPasses`), only its result has one (`PassIsRedact`), and part
  of a trail is one of a part of the text (`PassOfCut`). A value in the result
  would lie over consecutive unmatched places, one of which matches it
  (`NoSecretIn`); no step passes over the beginning of a leading value
  (`PassStopsAt`); untouched characters have a place each in the result
  (`UntouchedStay`). The values looked for are exactly the credentials of the
  headers, without an empty one (`CollectedAre`).
- A body is assembled in three stages, options, settings and tools; each says
  which members it sets and leaves the others (`Assembled`, `KeepsRest`).

Induction over data. The library's induction theorems have an operator as a
parameter, which the provers cannot instantiate. `Induction` states the same for
a set (`EveryNumber`, `RankInduction`, and `Least` for least elements); a predicate
is put into a set first, `PICK T : T = {n \in Nat : P(n)}`. That a recursive
function exists and satisfies its equation is `Recursion`, for a step that looks
only at values of a lower rank, and `Iteration`, for one that looks at the value
before. What `Total`, `FirstFields`, the validation, the redaction and the folds over
histories and bodies compute is proved this way, and so are the laws of
`FlattenSeq`. No module has a RECURSIVE operator.

Only model-checked: `EveryRequestReturns`, `LeaseIsReturned`, `RecordReturns`,
`EverythingReturns` and `EverySendReturns`. They are liveness under fairness, which
needs ENABLED, and the prover does not handle it. Every other property of a run
that passes is a theorem. The three runs that expect a violation refute what they
state, so there is nothing to prove.

## Not modelled, and the plan

What a next step would take, in this order: the finish reasons and usage that the
parsers read; HTTP errors; snapshots of a busy session that are restored later
(the code promises nothing about them).

Left out of the adapters: the text of system instructions, usage, finish reasons,
the texts and codes of HTTP errors, URLs. Left out of the transport: the proxy
bypass for loopback URLs, the look-up of a header, and `MockHttpTransport`, which
appends requests to a vector under a mutex. Left out of tracing: the console,
memory and syslog tracers, each one call under a mutex. Not planned: libcurl,
JSON text, accessors and factories of the types, the model tables, the examples
and the build.
