------------------------------ MODULE Session ------------------------------
(***************************************************************************)
(* Session (src/session.cpp): the history, the system instruction and the  *)
(* flag active_ that a generation holds as its lease.  Each operation is   *)
(* one region under messages_mutex_ and so one step; release() is one      *)
(* atomic store made without the mutex.  A public operation that finds the *)
(* session active throws SessionInUseError and changes nothing.            *)
(***************************************************************************)
EXTENDS Transcript

CONSTANTS
    NoSystem,          \* an empty std::optional
    SystemTexts,       \* what set_system may be given
    MaxImported        \* bound: imported messages in a history

ASSUME SessionAssumption ==
    /\ NoSystem \notin SystemTexts
    /\ MaxImported \in Nat

VARIABLES active, system, messages

sessionVars == <<active, system, messages>>

SessionTypeOK ==
    /\ active \in [Sessions -> BOOLEAN]
    /\ system \in [Sessions -> SystemTexts \cup {NoSystem}]
    /\ messages \in [Sessions -> Seq(Message)]

SessionInit ==
    /\ active = [s \in Sessions |-> FALSE]
    /\ system = [s \in Sessions |-> NoSystem]
    /\ messages = [s \in Sessions |-> <<>>]

(***************************************************************************)
(* The public operations.                                                  *)
(***************************************************************************)
RequireIdle(s) == ~active[s]

SetSystem(s, text) ==
    /\ RequireIdle(s)
    /\ messages[s] = <<>>
    /\ system' = [system EXCEPT ![s] = text]
    /\ UNCHANGED <<active, messages>>

Imports(s) ==
    Cardinality({k \in 1..Len(messages[s]) : messages[s][k].by = NoRun})

\* Faulty: append does not look at the lease.
PublicAppendAlways(s) ==
    /\ Imports(s) < MaxImported
    /\ messages' = [messages EXCEPT ![s] = Append(@, Imported)]
    /\ UNCHANGED <<active, system>>

PublicAppend(s) ==
    /\ RequireIdle(s)
    /\ Imports(s) < MaxImported
    /\ messages' = [messages EXCEPT ![s] = Append(@, Imported)]
    /\ UNCHANGED <<active, system>>

ClearMessages(s) ==
    /\ RequireIdle(s)
    /\ messages' = [messages EXCEPT ![s] = <<>>]
    /\ UNCHANGED <<active, system>>

PublicEdit(s) ==
    \/ \E text \in SystemTexts : SetSystem(s, text)
    \/ PublicAppend(s)
    \/ ClearMessages(s)

(***************************************************************************)
(* What AIClient, a friend, does to a session.                             *)
(***************************************************************************)
Acquire(s) ==
    /\ ~active[s]
    /\ active' = [active EXCEPT ![s] = TRUE]
    /\ UNCHANGED <<system, messages>>

Release(s) ==
    /\ active' = [active EXCEPT ![s] = FALSE]
    /\ UNCHANGED <<system, messages>>

AppendFromClient(s, m) ==
    /\ messages' = [messages EXCEPT ![s] = Append(@, m)]
    /\ UNCHANGED <<active, system>>
=============================================================================
