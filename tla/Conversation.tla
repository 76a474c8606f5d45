---------------------------- MODULE Conversation ----------------------------
(***************************************************************************)
(* What a Session's history looks like to code that respects the lease: a  *)
(* generation is one atomic step that adds one whole exchange, and the     *)
(* history changes otherwise only by Session::append and clear_messages.   *)
(* AIClient implements this with one append per message while the lease is *)
(* held.                                                                   *)
(***************************************************************************)
EXTENDS Transcript

VARIABLE history

Exchanged(old, new, r) ==
    /\ Len(new) > Len(old)
    /\ SubSeq(new, 1, Len(old)) = old
    /\ Exchange(r, SubSeq(new, Len(old) + 1, Len(new)))

Init == history = [s \in Sessions |-> <<>>]

Generate(s, r) ==
    /\ Exchanged(history[s], history'[s], r)
    /\ \A other \in Sessions \ {s} : history'[other] = history[other]

Import(s) == history' = [history EXCEPT ![s] = Append(@, Imported)]

Clear(s) == history' = [history EXCEPT ![s] = <<>>]

Next == \E s \in Sessions :
            Import(s) \/ Clear(s) \/ \E r \in Runs : Generate(s, r)

Spec == Init /\ [][Next]_history
=============================================================================
