----------------------------- MODULE MCAIClient -----------------------------
(***************************************************************************)
(* Bounded instances of AIClient: what the provider may return.            *)
(***************************************************************************)
EXTENDS AIClient

CONSTANTS t1, c1, c2

Reply(cs, cont, n) ==
    [assistant |-> TRUE, calls |-> cs, cont |-> cont, usage |-> n]
Ask(id, tool) == [id |-> id, tool |-> tool]

Final == Reply(<<>>, FALSE, 1)
FinalUncounted == Reply(<<>>, FALSE, NoCount)
Continue == Reply(<<>>, TRUE, 1)
OneCall == Reply(<<Ask(c1, t1)>>, FALSE, 2)
TwoCalls == Reply(<<Ask(c1, t1), Ask(c2, BadCall)>>, FALSE, NoCount)
DuplicateId == Reply(<<Ask(c1, t1), Ask(c1, t1)>>, FALSE, 1)
WrongRole == [Final EXCEPT !.assistant = FALSE]

MCTools == {t1}
MCResponses ==
    {Final, FinalUncounted, Continue, OneCall, TwoCalls, DuplicateId, WrongRole}
=============================================================================
