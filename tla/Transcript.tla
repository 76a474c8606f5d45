----------------------------- MODULE Transcript -----------------------------
(***************************************************************************)
(* The messages a Session keeps.  Contents are abstracted away; what stays *)
(* is what the conversation protocol is about: who wrote a message, which  *)
(* tool calls it makes, whether the provider wants to be called again, and *)
(* which call a tool message answers.  by and round say which generation   *)
(* wrote the message and in which of its rounds; the code keeps neither.   *)
(***************************************************************************)
EXTENDS ToolCalls, FiniteSets

CONSTANTS
    Sessions,
    NoRun,             \* the author of messages imported with Session::append
    MaxModelRounds     \* ClientOptions::max_model_rounds

ASSUME TranscriptAssumption ==
    /\ NoRun \notin Runs
    /\ MaxModelRounds \in Nat \ {0}

Message == [role : {"user", "assistant", "tool"},
            by : Runs \cup {NoRun},
            round : 0..MaxModelRounds,
            calls : Requests \cup {<<>>},
            cont : BOOLEAN,                 \* AIResponse::requires_continuation
            answers : 0..MaxCalls,          \* position of the answered call
            err : BOOLEAN]                  \* Message::tool(..., is_error)

Blank == [role |-> "user", by |-> NoRun, round |-> 0, calls |-> <<>>,
          cont |-> FALSE, answers |-> 0, err |-> FALSE]

Imported == Blank
Input(r) == [Blank EXCEPT !.by = r]
Assistant(r, n, cs, c) ==
    [Blank EXCEPT !.role = "assistant", !.by = r, !.round = n,
                  !.calls = cs, !.cont = c]
ToolResult(r, n, k, o) ==
    [Blank EXCEPT !.role = "tool", !.by = r, !.round = n, !.answers = k,
                  !.err = (o = "error")]

NeedsAnotherRound(m) == m.calls # <<>> \/ m.cont

\* The positions of the assistant messages of e.
Turns(e) == {k \in 1..Len(e) : e[k].role = "assistant"}

(***************************************************************************)
(* What one generation by r, successful or not, may leave in a history:    *)
(* its input, then rounds numbered from one, each an assistant message     *)
(* followed by exactly the results of its calls in call order.  Only the   *)
(* last assistant message may need no other round.                         *)
(***************************************************************************)
Exchange(r, e) ==
    /\ e # <<>>
    /\ e[1] = Input(r)
    /\ \A k \in 2..Len(e) : e[k].by = r /\ e[k].role \in {"assistant", "tool"}
    /\ \A k \in Turns(e) :
          /\ e[k].round = Cardinality({j \in Turns(e) : j <= k})
          /\ e[k].round <= MaxModelRounds
          /\ k + Len(e[k].calls) <= Len(e)
          /\ \A i \in 1..Len(e[k].calls) :
                /\ e[k + i].role = "tool"
                /\ e[k + i].answers = i
                /\ e[k + i].round = e[k].round
          /\ \A j \in Turns(e) : j > k => NeedsAnotherRound(e[k])
    /\ \A k \in 1..Len(e) : e[k].role = "tool" =>
          \E j \in Turns(e) :
             j = k - e[k].answers /\ e[k].answers <= Len(e[j].calls)
=============================================================================
