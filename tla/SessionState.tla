---------------------------- MODULE SessionState ----------------------------
(***************************************************************************)
(* SessionState (session.hpp, session.cpp): the typed values that tools    *)
(* keep with a session.  A std::any is abstracted to the type it holds and *)
(* to a number; every updater adds one to the number it is given, and      *)
(* completed counts the updates that returned since the entry was created  *)
(* or set, which the code does not record.  Each operation is one region   *)
(* under mutex_; update is two steps, because the updater, a callback,     *)
(* runs between them.  The mutex itself is in module Callbacks.            *)
(***************************************************************************)
EXTENDS Integers

CONSTANTS
    Sessions,
    Keys,
    Types,          \* the C++ types an application stores
    Absent,         \* no entry under a key
    MaxUpdates      \* bound: updates of one entry

ASSUME StateAssumption ==
    /\ Keys # {} /\ Types # {}
    /\ MaxUpdates \in Nat
    /\ Absent \notin [type : Types, n : 0..MaxUpdates]

VARIABLES values, completed

stateVars == <<values, completed>>

Entry == [type : Types, n : 0..MaxUpdates]

StateTypeOK ==
    /\ values \in [Sessions -> [Keys -> Entry \cup {Absent}]]
    /\ completed \in [Sessions -> [Keys -> 0..MaxUpdates]]

StateInit ==
    /\ values = [s \in Sessions |-> [k \in Keys |-> Absent]]
    /\ completed = [s \in Sessions |-> [k \in Keys |-> 0]]

ContainsKey(s, k) == values[s][k] # Absent

\* std::any_cast<T>(&value) != nullptr
Holds(s, k, T) == ContainsKey(s, k) /\ values[s][k].type = T

Write(s, k, entry) ==
    /\ values' = [values EXCEPT ![s][k] = entry]
    /\ completed' = [completed EXCEPT ![s][k] = 0]

\* set stores or replaces, whatever the type of the old value.
Set(s, k, T) == Write(s, k, [type |-> T, n |-> 0])

Erase(s, k) == Write(s, k, Absent)

Clear(s) ==
    /\ values' = [values EXCEPT ![s] = [k \in Keys |-> Absent]]
    /\ completed' = [completed EXCEPT ![s] = [k \in Keys |-> 0]]

\* Faulty: insert_or_assign.
EmplaceAlways(s, k, T) == Set(s, k, T)

\* try_emplace: the initial value is stored before the updater runs.
Emplace(s, k, T) ==
    IF ContainsKey(s, k) THEN UNCHANGED stateVars ELSE Set(s, k, T)

\* *current = update_function(*current)
Assign(s, k, seen) ==
    /\ values' = [values EXCEPT ![s][k].n = seen + 1]
    /\ completed' = [completed EXCEPT ![s][k] = @ + 1]
=============================================================================
