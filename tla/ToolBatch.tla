----------------------------- MODULE ToolBatch -----------------------------
(***************************************************************************)
(* What AIClient::execute_tools promises its caller, without saying how:   *)
(* given the tool calls of one model response it executes every call once, *)
(* never two calls of one Tool object at a time, never further than a      *)
(* window of Width(r) calls ahead of the oldest unfinished one, and returns   *)
(* the outcomes in request order when, and only when, all are known.       *)
(*                                                                         *)
(* ToolExecutor (threads, futures, batches, the fallback after a failed    *)
(* thread creation) implements this specification; AIClient is composed    *)
(* with it.                                                                *)
(***************************************************************************)
EXTENDS ToolCalls

VARIABLES
    calls,     \* calls[r]: the calls run r asked for
    phase,     \* phase[r]: where execute_tools is for run r
    status,    \* status[r][i]: how far call i of run r is
    results    \* results[r]: what execute_tools returned to run r

vars == <<calls, phase, status, results>>

Numbered(r) == 1..Len(calls[r])
Finished(r, i) == status[r][i] \in Outcome
InUse(t) ==
    \E r \in Runs : \E i \in Numbered(r) :
        calls[r][i] = t /\ status[r][i] = "running"

TypeOK ==
    /\ calls \in [Runs -> Requests \cup {<<>>}]
    /\ phase \in [Runs -> {"idle", "running", "returned"}]
    /\ status \in [Runs -> [Indices -> {"waiting", "running"} \cup Outcome]]
    /\ \A r \in Runs : results[r] \in Seq(Outcome)

Init ==
    /\ calls = [r \in Runs |-> <<>>]
    /\ phase = [r \in Runs |-> "idle"]
    /\ status = [r \in Runs |-> [i \in Indices |-> "waiting"]]
    /\ results = [r \in Runs |-> <<>>]

Request(r, cs) ==
    /\ phase[r] # "running"
    /\ calls' = [calls EXCEPT ![r] = cs]
    /\ phase' = [phase EXCEPT ![r] = "running"]
    /\ status' = [status EXCEPT ![r] = [i \in Indices |-> "waiting"]]
    /\ results' = [results EXCEPT ![r] = <<>>]

Ready(r, i) ==
    /\ phase[r] = "running"
    /\ i \in Numbered(r)
    /\ status[r][i] = "waiting"
    /\ \A j \in 1..(i - Width(r)) : Finished(r, j)

\* Unknown tool, malformed arguments or arguments outside the schema.
Refuse(r, i) ==
    /\ Ready(r, i)
    /\ calls[r][i] = BadCall
    /\ status' = [status EXCEPT ![r][i] = "error"]
    /\ UNCHANGED <<calls, phase, results>>

Begin(r, i) ==
    /\ Ready(r, i)
    /\ calls[r][i] \in Tools
    /\ ~InUse(calls[r][i])
    /\ status' = [status EXCEPT ![r][i] = "running"]
    /\ UNCHANGED <<calls, phase, results>>

End(r, i, o) ==
    /\ i \in Numbered(r)
    /\ status[r][i] = "running"
    /\ status' = [status EXCEPT ![r][i] = o]
    /\ UNCHANGED <<calls, phase, results>>

Return(r) ==
    /\ phase[r] = "running"
    /\ \A i \in Numbered(r) : Finished(r, i)
    /\ phase' = [phase EXCEPT ![r] = "returned"]
    /\ results' = [results EXCEPT ![r] = [i \in Numbered(r) |-> status[r][i]]]
    /\ UNCHANGED <<calls, status>>

\* The steps execute_tools and its workers take for run r by themselves.
Progress(r) ==
    \/ \E i \in Numbered(r) :
          Refuse(r, i) \/ Begin(r, i) \/ \E o \in Outcome : End(r, i, o)
    \/ Return(r)

Next == \E r \in Runs : (\E cs \in Requests : Request(r, cs)) \/ Progress(r)

Spec == Init /\ [][Next]_vars
=============================================================================
