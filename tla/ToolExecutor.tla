---------------------------- MODULE ToolExecutor ----------------------------
(***************************************************************************)
(* AIClient::execute_tools and AIClient::execute_tool (src/client.cpp).    *)
(*                                                                         *)
(* Every run is one activation of execute_tools on the thread that called  *)
(* AIClient::generate.  Its local variables are offset, the loop variable  *)
(* index, the vector of futures and the vector of results.  Every call     *)
(* that has been handed to execute_tool is a worker: a thread started by   *)
(* std::async, or the run's own thread when the call is executed inline.   *)
(* Workers of all runs compete for the invocation_mutex_ of the Tool they  *)
(* call.  std::async may fail with std::system_error at any launch.        *)
(*                                                                         *)
(* Not in this module: a Tool callback that calls generate again.          *)
(***************************************************************************)
EXTENDS ToolCalls

CONSTANT NoOwner             \* an unlocked invocation_mutex_

ASSUME NoOwnerAssumption == NoOwner \notin Runs \X Indices

VARIABLES
    calls,        \* calls[r]: the calls of the response, the parameter
    phase,        \* phase[r]: where the thread of run r is
    offset,       \* offset[r]: calls in the batches before the current one
    launched,     \* launched[r]: calls of the current batch given a thread
    index,        \* index[r]: the next call to execute inline
    futures,      \* futures[r]: calls launched and not yet collected
    results,      \* results[r]: the executions collected so far
    job,          \* job[r][i]: the worker of call i
    owner,        \* owner[t]: the worker holding t's invocation_mutex_
    invocations   \* invocations[r][i]: times Tool::invoke ran for call i

vars == <<calls, phase, offset, launched, index, futures, results, job,
          owner, invocations>>

Phases == {"idle", "launch", "collect", "drain", "inline", "await",
           "returned"}
JobStates == {"none", "waiting", "invoking"} \cup Outcome
Execution == [call : Indices, out : Outcome]

Total(r) == Len(calls[r])
Numbered(r) == 1..Total(r)
Ended(r, i) == job[r][i] \in Outcome

Smaller(a, b) == IF a < b THEN a ELSE b

\* const std::size_t parallelism = std::min(max_parallel, calls.size())
Parallelism(r) == Smaller(MaxParallelToolCalls, Total(r))

\* Faulty: the whole response is one batch.
BatchEndUnbounded(r) == Total(r)

\* const std::size_t end = std::min(offset + parallelism, calls.size())
BatchEnd(r) == Smaller(offset[r] + Parallelism(r), Total(r))

Init ==
    /\ calls = [r \in Runs |-> <<>>]
    /\ phase = [r \in Runs |-> "idle"]
    /\ offset = [r \in Runs |-> 0]
    /\ launched = [r \in Runs |-> 0]
    /\ index = [r \in Runs |-> 1]
    /\ futures = [r \in Runs |-> <<>>]
    /\ results = [r \in Runs |-> <<>>]
    /\ job = [r \in Runs |-> [i \in Indices |-> "none"]]
    /\ owner = [t \in Tools |-> NoOwner]
    /\ invocations = [r \in Runs |-> [i \in Indices |-> 0]]

(***************************************************************************)
(* The thread of a run.                                                    *)
(***************************************************************************)
\* Faulty: the flag of the client is ignored.
ExecutesInlineUnlessParallel(r, cs) == Len(cs) < 2

ExecutesInline(r, cs) == r \notin ParallelRuns \/ Len(cs) < 2

Enter(r, cs) ==
    /\ phase[r] = "idle"
    /\ calls' = [calls EXCEPT ![r] = cs]
    /\ phase' = [phase EXCEPT
                   ![r] = IF ExecutesInline(r, cs) THEN "inline" ELSE "launch"]
    /\ UNCHANGED <<offset, launched, index, futures, results, job, owner,
                   invocations>>

\* One std::async of the current batch; the last one ends the loop.
Launch(r) ==
    LET i == offset[r] + launched[r] + 1 IN
    /\ phase[r] = "launch"
    /\ job' = [job EXCEPT ![r][i] = "waiting"]
    /\ futures' = [futures EXCEPT ![r] = Append(@, i)]
    /\ launched' = [launched EXCEPT ![r] = @ + 1]
    /\ phase' = [phase EXCEPT
                   ![r] = IF i < BatchEnd(r) THEN "launch" ELSE "collect"]
    /\ UNCHANGED <<calls, offset, index, results, owner, invocations>>

\* std::system_error: wait for what was launched.
LaunchFails(r) ==
    /\ phase[r] = "launch"
    /\ phase' = [phase EXCEPT ![r] = "drain"]
    /\ UNCHANGED <<calls, offset, launched, index, futures, results, job,
                   owner, invocations>>

\* Faulty: the futures are read as they complete.
GetAnyReady(r) ==
    \E k \in 1..Len(futures[r]) :
        LET i == futures[r][k] IN
        /\ Ended(r, i)
        /\ results' = [results EXCEPT
                         ![r] = Append(@, [call |-> i, out |-> job[r][i]])]
        /\ futures' = [futures EXCEPT
                         ![r] = SubSeq(@, 1, k - 1) \o SubSeq(@, k + 1, Len(@))]

\* results.push_back(future.get()) for the futures of a batch in launch order.
Get(r) ==
    LET i == Head(futures[r]) IN
    /\ futures[r] # <<>>
    /\ Ended(r, i)
    /\ results' = [results EXCEPT
                     ![r] = Append(@, [call |-> i, out |-> job[r][i]])]
    /\ futures' = [futures EXCEPT ![r] = Tail(@)]

Collect(r) ==
    /\ phase[r] = "collect"
    /\ Get(r)
    /\ UNCHANGED <<calls, phase, offset, launched, index, job, owner,
                   invocations>>

\* Faulty: a last batch of one call is skipped.
NextBatchOffByOne(r) ==
    /\ phase[r] = "collect"
    /\ futures[r] = <<>>
    /\ offset' = [offset EXCEPT ![r] = @ + Parallelism(r)]
    /\ launched' = [launched EXCEPT ![r] = 0]
    /\ phase' = [phase EXCEPT
                   ![r] = IF offset'[r] + 1 < Total(r) THEN "launch"
                          ELSE "returned"]
    /\ UNCHANGED <<calls, index, futures, results, job, owner, invocations>>

\* offset += parallelism once every future of the batch has been read.
NextBatch(r) ==
    /\ phase[r] = "collect"
    /\ futures[r] = <<>>
    /\ offset' = [offset EXCEPT ![r] = @ + Parallelism(r)]
    /\ launched' = [launched EXCEPT ![r] = 0]
    /\ phase' = [phase EXCEPT
                   ![r] = IF offset'[r] < Total(r) THEN "launch"
                          ELSE "returned"]
    /\ UNCHANGED <<calls, index, futures, results, job, owner, invocations>>

Drain(r) ==
    /\ phase[r] = "drain"
    /\ Get(r)
    /\ UNCHANGED <<calls, phase, offset, launched, index, job, owner,
                   invocations>>

\* Faulty: the inline loop restarts the failed batch ...
FirstOfBatch(r) == offset[r] + 1

\* ... or starts at the last launched call.
LastLaunched(r) == offset[r] + launched[r]

\* Where the inline loop starts after a failed launch.
FirstUnlaunched(r) == offset[r] + launched[r] + 1

\* The calls of this and of all later batches that never got a thread.
FallBack(r) ==
    /\ phase[r] = "drain"
    /\ futures[r] = <<>>
    /\ index' = [index EXCEPT ![r] = FirstUnlaunched(r)]
    /\ phase' = [phase EXCEPT ![r] = "inline"]
    /\ UNCHANGED <<calls, offset, launched, futures, results, job, owner,
                   invocations>>

\* results.push_back(execute_tool(...)) on the run's own thread: the call ...
InlineCall(r) ==
    /\ phase[r] = "inline"
    /\ job' = [job EXCEPT ![r][index[r]] = "waiting"]
    /\ phase' = [phase EXCEPT ![r] = "await"]
    /\ UNCHANGED <<calls, offset, launched, index, futures, results, owner,
                   invocations>>

\* ... and its return.
InlineReturn(r) ==
    /\ phase[r] = "await"
    /\ Ended(r, index[r])
    /\ results' = [results EXCEPT
                     ![r] = Append(@, [call |-> index[r],
                                       out |-> job[r][index[r]]])]
    /\ index' = [index EXCEPT ![r] = @ + 1]
    /\ phase' = [phase EXCEPT
                   ![r] = IF index[r] < Total(r) THEN "inline" ELSE "returned"]
    /\ UNCHANGED <<calls, offset, launched, futures, job, owner, invocations>>

(***************************************************************************)
(* A worker: execute_tool for call i of run r.                             *)
(***************************************************************************)
Refuse(r, i) ==
    /\ job[r][i] = "waiting"
    /\ calls[r][i] = BadCall
    /\ job' = [job EXCEPT ![r][i] = "error"]
    /\ UNCHANGED <<calls, phase, offset, launched, index, futures, results,
                   owner, invocations>>

\* Faulty: the Tool is invoked without taking its mutex.
LockIgnored(r, i) ==
    /\ job[r][i] = "waiting"
    /\ calls[r][i] \in Tools
    /\ owner' = [owner EXCEPT ![calls[r][i]] = <<r, i>>]
    /\ job' = [job EXCEPT ![r][i] = "invoking"]
    /\ invocations' = [invocations EXCEPT ![r][i] = @ + 1]
    /\ UNCHANGED <<calls, phase, offset, launched, index, futures, results>>

Lock(r, i) ==
    /\ job[r][i] = "waiting"
    /\ calls[r][i] \in Tools
    /\ owner[calls[r][i]] = NoOwner
    /\ owner' = [owner EXCEPT ![calls[r][i]] = <<r, i>>]
    /\ job' = [job EXCEPT ![r][i] = "invoking"]
    /\ invocations' = [invocations EXCEPT ![r][i] = @ + 1]
    /\ UNCHANGED <<calls, phase, offset, launched, index, futures, results>>

\* Faulty: a Tool that throws leaves its mutex locked.
UnlockOnSuccess(r, i, o) ==
    /\ job[r][i] = "invoking"
    /\ owner' = [owner EXCEPT
                   ![calls[r][i]] = IF o = "ok" THEN NoOwner ELSE @]
    /\ job' = [job EXCEPT ![r][i] = o]
    /\ UNCHANGED <<calls, phase, offset, launched, index, futures, results,
                   invocations>>

\* Tool::invoke returns, returns nothing or throws; the lock_guard unlocks.
Unlock(r, i, o) ==
    /\ job[r][i] = "invoking"
    /\ owner' = [owner EXCEPT ![calls[r][i]] = NoOwner]
    /\ job' = [job EXCEPT ![r][i] = o]
    /\ UNCHANGED <<calls, phase, offset, launched, index, futures, results,
                   invocations>>

(***************************************************************************)
RunStep(r) ==
    \/ Launch(r) \/ LaunchFails(r) \/ Collect(r) \/ NextBatch(r)
    \/ Drain(r) \/ FallBack(r) \/ InlineCall(r) \/ InlineReturn(r)

WorkerStep(r, i) ==
    Refuse(r, i) \/ Lock(r, i) \/ \E o \in Outcome : Unlock(r, i, o)

Done == (\A r \in Runs : phase[r] = "returned") /\ UNCHANGED vars

Next ==
    \/ \E r \in Runs, cs \in Requests : Enter(r, cs)
    \/ \E r \in Runs : RunStep(r)
    \/ \E r \in Runs, i \in Indices : WorkerStep(r, i)
    \/ Done

Spec == Init /\ [][Next]_vars

\* A thread that can move does; a Tool callback returns or throws.  Every run
\* makes one request, so a mutex is contended finitely often and weak
\* fairness of its acquisition is enough.
Fairness ==
    /\ \A r \in Runs : WF_vars(RunStep(r))
    /\ \A r \in Runs, i \in Indices : WF_vars(WorkerStep(r, i))

FairSpec == Spec /\ Fairness

(***************************************************************************)
(* Properties.                                                             *)
(***************************************************************************)
TypeOK ==
    /\ calls \in [Runs -> Requests \cup {<<>>}]
    /\ phase \in [Runs -> Phases]
    /\ offset \in [Runs -> Nat]
    /\ launched \in [Runs -> Nat]
    /\ index \in [Runs -> Nat \ {0}]
    /\ futures \in [Runs -> Seq(Indices)]
    /\ results \in [Runs -> Seq(Execution)]
    /\ job \in [Runs -> [Indices -> JobStates]]
    /\ owner \in [Tools -> (Runs \X Indices) \cup {NoOwner}]
    /\ invocations \in [Runs -> [Indices -> Nat]]

\* No two workers, of whatever run or client, are inside Tool::invoke of one
\* Tool object: the lock_guard on invocation_mutex_ (tool.hpp: "AIClient
\* serializes invocations of the same Tool object").
OneInvocationPerTool ==
    \A r, s \in Runs : \A i \in Numbered(r), j \in Numbered(s) :
        (/\ job[r][i] = "invoking"
         /\ job[s][j] = "invoking"
         /\ calls[r][i] = calls[s][j]) => r = s /\ i = j

\* A call is handed to execute_tool only when every call Width or more places
\* before it has ended: batches do not overlap, no more than
\* max_parallel_tool_calls workers of a run exist, and a client without
\* parallel tool calls executes them strictly one after the other.
BoundedWindow ==
    \A r \in Runs : \A i \in Numbered(r) :
        job[r][i] # "none" => \A j \in 1..(i - Width(r)) : Ended(r, j)

\* Workers finish in any order, futures are read and inline calls made in
\* request order: the k-th result is that of the k-th call.
ResultsInRequestOrder ==
    \A r \in Runs : \A k \in 1..Len(results[r]) :
        results[r][k] = [call |-> k, out |-> job[r][k]]

\* Tool::invoke runs at most once per call, also when a thread could not be
\* created and the rest is executed inline, and never for a refused call.
InvokedOnce ==
    \A r \in Runs : \A i \in Numbered(r) :
        invocations[r][i] =
            IF calls[r][i] \in Tools /\ job[r][i] \in {"invoking"} \cup Outcome
            THEN 1 ELSE 0

\* execute_tools returns one result per call and leaves no worker behind: the
\* lambdas given to std::async hold references to the session and the client.
CompleteOnReturn ==
    \A r \in Runs : phase[r] = "returned" =>
        /\ Len(results[r]) = Total(r)
        /\ \A i \in Numbered(r) : Ended(r, i)

\* Every request is answered, whatever launches fail and whichever runs
\* compete for the same Tools.
EveryRequestReturns ==
    \A r \in Runs : (phase[r] # "idle") ~> (phase[r] = "returned")

(***************************************************************************)
(* execute_tools implements the contract its caller relies on.             *)
(***************************************************************************)
PhaseOf(p) == IF p \in {"idle", "returned"} THEN p ELSE "running"

StatusOf(j) ==
    IF j \in Outcome THEN j
    ELSE IF j = "invoking" THEN "running" ELSE "waiting"

ReturnedBy(r) ==
    IF phase[r] = "returned"
    THEN [i \in 1..Len(results[r]) |-> results[r][i].out]
    ELSE <<>>

Contract == INSTANCE ToolBatch WITH
    phase <- [r \in Runs |-> PhaseOf(phase[r])],
    status <- [r \in Runs |-> [i \in Indices |-> StatusOf(job[r][i])]],
    results <- [r \in Runs |-> ReturnedBy(r)]

ImplementsContract == Contract!Spec
=============================================================================
