------------------------------ MODULE AIClient ------------------------------
(***************************************************************************)
(* AIClient::generate (src/client.cpp): any number of runs on any number   *)
(* of sessions, each on its own thread, together with application threads  *)
(* that call the public Session operations.  A run takes the session's     *)
(* lease, appends its input and then repeats model rounds: snapshot the    *)
(* history, call the provider, check and count the response, append it,    *)
(* execute the tool calls, append their results.                           *)
(*                                                                         *)
(* The composition: Session is extended, so a run's appends and the public *)
(* operations act on the same variables; execute_tools is the contract     *)
(* ToolBatch, which ToolExecutor implements.  The provider is external:    *)
(* it may answer with any member of Responses or throw.                    *)
(***************************************************************************)
EXTENDS Session, Functions

CONSTANTS
    Responses,       \* what AIClient::generate_once may return
    StoppingRuns,    \* the runs of clients with stop_on_tool_error
    NoCount,         \* a usage counter the provider did not report
    CountMax,        \* the largest std::size_t
    NoId,            \* an empty tool call id or name
    None             \* no session, no request, no response, no answer

ASSUME ClientAssumption ==
    /\ StoppingRuns \subseteq Runs
    /\ CountMax \in Nat
    /\ NoCount \notin Nat
    /\ \A resp \in Responses :
         /\ resp.assistant \in BOOLEAN
         /\ resp.cont \in BOOLEAN
         /\ resp.usage \in (0..CountMax) \cup {NoCount}
         /\ resp.calls \in Seq(Range(resp.calls))
         /\ \A k \in 1..Len(resp.calls) : resp.calls[k].tool \in Call

VARIABLES
    pc,          \* pc[r]: where the thread of run r is
    sess,        \* sess[r]: the session run r works on
    round,       \* round[r]: the loop variable
    request,     \* request[r]: what the provider is being asked
    response,    \* response[r]: what it answered
    usage,       \* usage[r]: cumulative_usage, one of its six counters
    toolCalls,   \* toolCalls[r]: cumulative_tool_calls
    appended,    \* appended[r]: tool results of this round in the history
    answer,      \* answer[r]: the AIResponse generate returns
    trace,       \* trace[r]: the generation and provider events recorded
    reported,    \* reported[r]: usage of each response that was counted
    calls, phase, status, results      \* execute_tools

Tooling == INSTANCE ToolBatch

clientVars == <<pc, sess, round, request, response, usage, toolCalls,
                appended, answer, trace, reported>>
toolVars == <<calls, phase, status, results>>
vars == <<sessionVars, clientVars, toolVars>>

Init ==
    /\ SessionInit
    /\ pc = [r \in Runs |-> "idle"]
    /\ sess = [r \in Runs |-> None]
    /\ round = [r \in Runs |-> 0]
    /\ request = [r \in Runs |-> None]
    /\ response = [r \in Runs |-> None]
    /\ usage = [r \in Runs |-> NoCount]
    /\ toolCalls = [r \in Runs |-> 0]
    /\ appended = [r \in Runs |-> 0]
    /\ answer = [r \in Runs |-> None]
    /\ trace = [r \in Runs |-> <<>>]
    /\ reported = [r \in Runs |-> <<>>]
    /\ Tooling!Init

GoTo(r, label) == pc' = [pc EXCEPT ![r] = label]
Trace(r, event) == trace' = [trace EXCEPT ![r] = Append(@, event)]

(***************************************************************************)
(* add_count: a counter is the sum of what the rounds reported, and        *)
(* missing as soon as one round did not report it.                         *)
(***************************************************************************)
\* A sum in std::size_t.
Wrapped(n) == IF n > CountMax THEN n - (CountMax + 1) ELSE n

Overflows(total, value, first) ==
    /\ total # NoCount /\ value # NoCount
    /\ ~first
    /\ value > CountMax - total

\* Faulty: a counter that was not reported counts as zero.
AddCountMissingAsZero(total, value, first) ==
    IF value = NoCount THEN total
    ELSE IF total = NoCount THEN value
    ELSE Wrapped(total + value)

AddCount(total, value, first) ==
    IF value = NoCount THEN NoCount
    ELSE IF first THEN value
    ELSE IF total = NoCount THEN NoCount
    ELSE Wrapped(total + value)

(***************************************************************************)
(* Taking and returning the lease.                                         *)
(***************************************************************************)
Start(r, s) ==
    /\ pc[r] = "idle"
    /\ Acquire(s)
    /\ sess' = [sess EXCEPT ![r] = s]
    /\ Trace(r, "generation_start")
    /\ GoTo(r, "leased")
    /\ UNCHANGED <<round, request, response, usage, toolCalls, appended,
                   answer, reported, toolVars>>

\* Faulty: the lease object exists before the exchange of active_ is known.
StartRefusedReleasing(r, s) ==
    /\ pc[r] = "idle"
    /\ active[s]
    /\ Release(s)
    /\ GoTo(r, "refused")
    /\ UNCHANGED <<sess, round, request, response, usage, toolCalls,
                   appended, answer, trace, reported, toolVars>>

\* Session::acquire throws SessionInUseError.
StartRefused(r, s) ==
    /\ pc[r] = "idle"
    /\ active[s]
    /\ GoTo(r, "refused")
    /\ UNCHANGED <<sessionVars, sess, round, request, response, usage,
                   toolCalls, appended, answer, trace, reported, toolVars>>

AppendInput(r) ==
    /\ pc[r] = "leased"
    /\ AppendFromClient(sess[r], Input(r))
    /\ round' = [round EXCEPT ![r] = 1]
    /\ GoTo(r, "round")
    /\ UNCHANGED <<sess, request, response, usage, toolCalls, appended,
                   answer, trace, reported, toolVars>>

\* Faulty: an exception skips the release.
FinishOnReturnOnly(r) ==
    /\ pc[r] \in {"returning", "throwing"}
    /\ IF pc[r] = "returning" THEN Release(sess[r]) ELSE UNCHANGED sessionVars
    /\ GoTo(r, IF pc[r] = "returning" THEN "returned" ELSE "threw")
    /\ UNCHANGED <<sess, round, request, response, usage, toolCalls,
                   appended, answer, trace, reported, toolVars>>

\* ~RunLease, after the return value is made or while the exception unwinds.
Finish(r) ==
    /\ pc[r] \in {"returning", "throwing"}
    /\ Release(sess[r])
    /\ GoTo(r, IF pc[r] = "returning" THEN "returned" ELSE "threw")
    /\ UNCHANGED <<sess, round, request, response, usage, toolCalls,
                   appended, answer, trace, reported, toolVars>>

(***************************************************************************)
(* One model round.                                                        *)
(***************************************************************************)
\* session.system() and session.messages() lock the session one after the other.
ReadSystem(r) ==
    /\ pc[r] = "round"
    /\ request' = [request EXCEPT
                     ![r] = [system |-> system[sess[r]], messages |-> <<>>]]
    /\ GoTo(r, "snapshot")
    /\ UNCHANGED <<sessionVars, sess, round, response, usage, toolCalls,
                   appended, answer, trace, reported, toolVars>>

ReadMessages(r) ==
    /\ pc[r] = "snapshot"
    /\ request' = [request EXCEPT ![r].messages = messages[sess[r]]]
    /\ Trace(r, "provider_start")
    /\ GoTo(r, "provider")
    /\ UNCHANGED <<sessionVars, sess, round, response, usage, toolCalls,
                   appended, answer, reported, toolVars>>

ProviderReturns(r, resp) ==
    /\ pc[r] = "provider"
    /\ response' = [response EXCEPT ![r] = resp]
    /\ GoTo(r, "response")
    /\ UNCHANGED <<sessionVars, sess, round, request, usage, toolCalls,
                   appended, answer, trace, reported, toolVars>>

\* Into the catch block: the error event, then the exception goes on.
Throw(r) ==
    /\ Trace(r, "error")
    /\ GoTo(r, "throwing")

ProviderThrows(r) ==
    /\ pc[r] = "provider"
    /\ Throw(r)
    /\ UNCHANGED <<sessionVars, sess, round, request, response, usage,
                   toolCalls, appended, answer, reported, toolVars>>

\* Faulty: the limit is applied to each response by itself.
WithinCallLimitPerRound(r) == Len(response[r].calls) <= MaxCalls

\* calls.size() > max_tool_calls - min(cumulative_tool_calls, max_tool_calls)
WithinCallLimit(r) == toolCalls[r] + Len(response[r].calls) <= MaxCalls

DistinctIds(cs) ==
    /\ \A k \in 1..Len(cs) : cs[k].id # NoId
    /\ \A j, k \in 1..Len(cs) : cs[j].id = cs[k].id => j = k

Acceptable(r) ==
    /\ response[r].assistant
    /\ WithinCallLimit(r)
    /\ DistinctIds(response[r].calls)
    /\ ~Overflows(usage[r], response[r].usage, round[r] = 1)

RejectResponse(r) ==
    /\ pc[r] = "response"
    /\ ~Acceptable(r)
    /\ Throw(r)
    /\ UNCHANGED <<sessionVars, sess, round, request, response, usage,
                   toolCalls, appended, answer, reported, toolVars>>

\* add_usage and the provider_end event of an acceptable response.
Count(r) ==
    /\ pc[r] = "response"
    /\ Acceptable(r)
    /\ usage' = [usage EXCEPT
                   ![r] = AddCount(@, response[r].usage, round[r] = 1)]
    /\ reported' = [reported EXCEPT ![r] = Append(@, response[r].usage)]
    /\ Trace(r, "provider_end")
    /\ GoTo(r, "counted")
    /\ UNCHANGED <<sessionVars, sess, round, request, response, toolCalls,
                   appended, answer, toolVars>>

NeedsAnother(r) == NeedsAnotherRound(response[r])

ToolsOf(cs) == [k \in 1..Len(cs) |-> cs[k].tool]

AppendResponse(r) ==
    AppendFromClient(sess[r], Assistant(r, round[r], ToolsOf(response[r].calls),
                                        response[r].cont))

\* Faulty: the response is retained before the round limit is looked at.
ExhaustRoundsRetaining(r) ==
    /\ pc[r] = "counted"
    /\ NeedsAnother(r) /\ round[r] = MaxModelRounds
    /\ AppendResponse(r)
    /\ Throw(r)
    /\ UNCHANGED <<sess, round, request, response, usage, toolCalls,
                   appended, answer, reported, toolVars>>

\* Faulty: the error is thrown outside the try block that traces it.
ExhaustRoundsUntraced(r) ==
    /\ pc[r] = "counted"
    /\ NeedsAnother(r) /\ round[r] = MaxModelRounds
    /\ GoTo(r, "throwing")
    /\ UNCHANGED <<sessionVars, sess, round, request, response, usage,
                   toolCalls, appended, answer, trace, reported, toolVars>>

\* MaxRoundsError instead of appending what could not be followed up.
ExhaustRounds(r) ==
    /\ pc[r] = "counted"
    /\ NeedsAnother(r) /\ round[r] = MaxModelRounds
    /\ Throw(r)
    /\ UNCHANGED <<sessionVars, sess, round, request, response, usage,
                   toolCalls, appended, answer, reported, toolVars>>

Answer(r, n, finish) ==
    [usage |-> usage[r], rounds |-> round[r], calls |-> n, finish |-> finish]

\* generation_end and the return statement.
Return(r, n, finish) ==
    /\ answer' = [answer EXCEPT ![r] = Answer(r, n, finish)]
    /\ Trace(r, "generation_end")
    /\ GoTo(r, "returning")

AcceptFinal(r) ==
    /\ pc[r] = "counted"
    /\ ~NeedsAnother(r)
    /\ AppendResponse(r)
    /\ Return(r, toolCalls[r], "final")
    /\ UNCHANGED <<sess, round, request, response, usage, toolCalls,
                   appended, reported, toolVars>>

\* Faulty: only tool calls are held to the round limit.
AcceptContinuationAlways(r) ==
    /\ pc[r] = "counted"
    /\ response[r].cont /\ response[r].calls = <<>>
    /\ AppendResponse(r)
    /\ round' = [round EXCEPT ![r] = @ + 1]
    /\ GoTo(r, "round")
    /\ UNCHANGED <<sess, request, response, usage, toolCalls, appended,
                   answer, trace, reported, toolVars>>

\* requires_continuation without tool calls: continue.
AcceptContinuation(r) ==
    /\ pc[r] = "counted"
    /\ NeedsAnother(r) /\ round[r] # MaxModelRounds
    /\ response[r].calls = <<>>
    /\ AppendResponse(r)
    /\ round' = [round EXCEPT ![r] = @ + 1]
    /\ GoTo(r, "round")
    /\ UNCHANGED <<sess, request, response, usage, toolCalls, appended,
                   answer, trace, reported, toolVars>>

AcceptCalls(r) ==
    /\ pc[r] = "counted"
    /\ NeedsAnother(r) /\ round[r] # MaxModelRounds
    /\ response[r].calls # <<>>
    /\ AppendResponse(r)
    /\ Tooling!Request(r, ToolsOf(response[r].calls))
    /\ GoTo(r, "tools")
    /\ UNCHANGED <<sess, round, request, response, usage, toolCalls,
                   appended, answer, trace, reported>>

\* execute_tools has returned: cumulative_tool_calls += executions.size().
CollectResults(r) ==
    /\ pc[r] = "tools"
    /\ phase[r] = "returned"
    /\ toolCalls' = [toolCalls EXCEPT ![r] = @ + Len(results[r])]
    /\ appended' = [appended EXCEPT ![r] = 0]
    /\ GoTo(r, "results")
    /\ UNCHANGED <<sessionVars, sess, round, request, response, usage,
                   answer, trace, reported, toolVars>>

AppendResult(r) ==
    LET k == appended[r] + 1 IN
    /\ pc[r] = "results"
    /\ k <= Len(results[r])
    /\ AppendFromClient(sess[r], ToolResult(r, round[r], k, results[r][k]))
    /\ appended' = [appended EXCEPT ![r] = k]
    /\ UNCHANGED <<pc, sess, round, request, response, usage, toolCalls,
                   answer, trace, reported, toolVars>>

AllAppended(r) == pc[r] = "results" /\ appended[r] = Len(results[r])

StopsOnError(r) ==
    r \in StoppingRuns /\ \E k \in 1..Len(results[r]) : results[r][k] = "error"

StopOnToolError(r) ==
    /\ AllAppended(r)
    /\ StopsOnError(r)
    /\ Return(r, toolCalls[r], "error")
    /\ UNCHANGED <<sessionVars, sess, round, request, response, usage,
                   toolCalls, appended, reported, toolVars>>

NextRound(r) ==
    /\ AllAppended(r)
    /\ ~StopsOnError(r)
    /\ round' = [round EXCEPT ![r] = @ + 1]
    /\ GoTo(r, "round")
    /\ UNCHANGED <<sessionVars, sess, request, response, usage, toolCalls,
                   appended, answer, trace, reported, toolVars>>

(***************************************************************************)
RunStep(r) ==
    \/ AppendInput(r) \/ ReadSystem(r) \/ ReadMessages(r)
    \/ (\E resp \in Responses : ProviderReturns(r, resp)) \/ ProviderThrows(r)
    \/ RejectResponse(r) \/ Count(r) \/ ExhaustRounds(r)
    \/ AcceptFinal(r) \/ AcceptContinuation(r) \/ AcceptCalls(r)
    \/ CollectResults(r) \/ AppendResult(r) \/ StopOnToolError(r)
    \/ NextRound(r) \/ Finish(r)

ToolStep(r) == Tooling!Progress(r) /\ UNCHANGED <<sessionVars, clientVars>>

EditStep(s) == PublicEdit(s) /\ UNCHANGED <<clientVars, toolVars>>

Next ==
    \/ \E r \in Runs, s \in Sessions : Start(r, s) \/ StartRefused(r, s)
    \/ \E r \in Runs : RunStep(r) \/ ToolStep(r)
    \/ \E s \in Sessions : EditStep(s)

Spec == Init /\ [][Next]_vars

\* A running thread goes on, the provider answers or throws (transports have
\* timeouts) and execute_tools makes progress (ToolExecutor's fairness).  No
\* application thread has to start a run or edit a session.
Fairness == \A r \in Runs : WF_vars(RunStep(r)) /\ WF_vars(ToolStep(r))

FairSpec == Spec /\ Fairness

(***************************************************************************)
(* Properties.                                                             *)
(***************************************************************************)
Labels == {"idle", "refused", "leased", "round", "snapshot", "provider",
           "response", "counted", "tools", "results", "returning",
           "throwing", "returned", "threw"}
Counts == (0..CountMax) \cup {NoCount}

TypeOK ==
    /\ SessionTypeOK
    /\ pc \in [Runs -> Labels]
    /\ sess \in [Runs -> Sessions \cup {None}]
    /\ round \in [Runs -> 0..MaxModelRounds]
    /\ \A r \in Runs : request[r] # None =>
          /\ request[r].system \in SystemTexts \cup {NoSystem}
          /\ request[r].messages \in Seq(Message)
    /\ response \in [Runs -> Responses \cup {None}]
    /\ usage \in [Runs -> Counts]
    /\ toolCalls \in [Runs -> 0..MaxCalls]
    /\ appended \in [Runs -> 0..MaxCalls]
    /\ \A r \in Runs : reported[r] \in Seq(Counts)
    /\ Tooling!TypeOK

Holding == Labels \ {"idle", "refused", "returned", "threw"}
Holds(r, s) == sess[r] = s /\ pc[r] \in Holding

\* A session is active exactly while one run holds its lease: no exit path of
\* generate keeps it and none gives up the lease of another run.
OneHolder ==
    \A s \in Sessions :
        /\ active[s] <=> \E r \in Runs : Holds(r, s)
        /\ \A r, q \in Runs : Holds(r, s) /\ Holds(q, s) => r = q

\* While a provider works on a request the session still is what the request
\* says, system instruction and history, although the two were read under
\* separate locks and the public operations may be called at any time: the
\* response is appended to the history it answers.
RequestIsCurrent ==
    \A r \in Runs : pc[r] \in {"provider", "response", "counted"} =>
        request[r] = [system |-> system[sess[r]], messages |-> messages[sess[r]]]

WrittenBy(r, roles) ==
    {k \in 1..Len(messages[sess[r]]) :
        messages[sess[r]][k].by = r /\ messages[sess[r]][k].role \in roles}

\* The sum of a sequence of numbers.
Total(s) ==
    LET sum[k \in 0..Len(s)] == IF k = 0 THEN 0 ELSE sum[k - 1] + s[k]
    IN  sum[Len(s)]

\* The response says what the run did: its rounds are the assistant messages
\* and its tool calls the tool messages it left in the history, and its usage
\* is the sum over those rounds, known only if every round reported it.
AnswerMatchesHistory ==
    \A r \in Runs : pc[r] = "returning" =>
        /\ answer[r].rounds = Cardinality(WrittenBy(r, {"assistant"}))
        /\ answer[r].calls = Cardinality(WrittenBy(r, {"tool"}))
        /\ answer[r].rounds = Len(reported[r])
        /\ answer[r].usage =
             IF NoCount \in Range(reported[r]) THEN NoCount
             ELSE Total(reported[r])

\* While tools run, the history ends with the assistant message that asked for
\* them, another model round is left to use their results, and the generation
\* stays within max_tool_calls_per_generation.
ToolsRunInContext ==
    \A r \in Runs : pc[r] = "tools" =>
        LET h == messages[sess[r]] IN
        /\ h # <<>>
        /\ h[Len(h)].by = r /\ h[Len(h)].round = round[r]
        /\ h[Len(h)].calls = calls[r]
        /\ round[r] < MaxModelRounds
        /\ Cardinality(WrittenBy(r, {"tool"})) + Len(calls[r]) <= MaxCalls

Occurrences(e, event) == Cardinality({k \in 1..Len(e) : e[k] = event})

\* A run that took the lease records generation_start first and one terminal
\* event last, generation_end if and only if it returns, one provider_end per
\* counted response and at most one provider_start without it.
TraceIsComplete ==
    \A r \in Runs : pc[r] \in {"returning", "throwing", "returned", "threw"} =>
        LET e == trace[r]
            last == IF pc[r] \in {"returning", "returned"} THEN "generation_end"
                    ELSE "error"
            open == Occurrences(e, "provider_start") - Len(reported[r])
        IN
        /\ e[1] = "generation_start" /\ e[Len(e)] = last
        /\ Occurrences(e, "generation_end") + Occurrences(e, "error") = 1
        /\ Occurrences(e, "provider_end") = Len(reported[r])
        /\ open \in {0, 1} /\ (open = 1 => last = "error")

\* No generation keeps a session for ever, whatever providers and tools do.
LeaseIsReturned == \A s \in Sessions : active[s] ~> ~active[s]

(***************************************************************************)
(* A generation looks atomic to whoever respects the lease: hide what the  *)
(* holder has appended and the history changes by whole exchanges.         *)
(***************************************************************************)
Settled(s) ==
    IF \E r \in Runs : Holds(r, s)
    THEN LET r == CHOOSE r \in Runs : Holds(r, s)
         IN  SubSeq(messages[s], 1,
                    Len(messages[s]) -
                      Cardinality(WrittenBy(r, {"user", "assistant", "tool"})))
    ELSE messages[s]

Atomic == INSTANCE Conversation WITH history <- [s \in Sessions |-> Settled(s)]

ImplementsConversation == Atomic!Spec

\* What a comment in generate says of it: "Do not retain an unresolved native
\* tool call or continuation marker" (client.cpp), for a session no run holds.
NothingUnresolved ==
    \A s \in Sessions :
        LET h == messages[s] IN
        ~active[s] /\ h # <<>> => ~h[Len(h)].cont
=============================================================================
