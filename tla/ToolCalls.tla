----------------------------- MODULE ToolCalls -----------------------------
(***************************************************************************)
(* The data execute_tools works on: the Tool objects registered with the   *)
(* clients, the tool calls of one model response and the client options    *)
(* that bound their execution.  A call is abstracted to the Tool object    *)
(* execute_tool would lock for it, or to BadCall when it takes one of the  *)
(* three early error branches (unknown tool, arguments that are not JSON,  *)
(* arguments that violate the tool's schema) and locks nothing.            *)
(***************************************************************************)
EXTENDS Integers, Sequences

CONSTANTS
    Runs,                    \* calls of AIClient::generate, one thread each
    Tools,                   \* Tool objects, shared between clients and runs
    BadCall,                 \* a call that never reaches Tool::invoke
    MaxCalls,                \* ClientOptions::max_tool_calls_per_generation
    ParallelRuns,            \* the runs of clients with parallel_tool_calls
    MaxParallelToolCalls     \* ClientOptions::max_parallel_tool_calls

ASSUME ToolsAssumption == BadCall \notin Tools

\* AIClient::AIClient rejects zero for both limits.
ASSUME LimitsAssumption ==
    /\ MaxCalls \in Nat \ {0}
    /\ ParallelRuns \subseteq Runs
    /\ MaxParallelToolCalls \in Nat \ {0}

Indices == 1..MaxCalls
Call == Tools \cup {BadCall}

\* execute_tools is called with at least one and at most MaxCalls calls.
Requests == UNION {[1..n -> Call] : n \in Indices}

\* ToolOutput::is_error of one execution.
Outcome == {"ok", "error"}

\* How many calls of run r may be under way: one unless its client executes
\* them in parallel.
Width(r) == IF r \in ParallelRuns THEN MaxParallelToolCalls ELSE 1
=============================================================================
