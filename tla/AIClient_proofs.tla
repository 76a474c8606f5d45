--------------------------- MODULE AIClient_proofs ---------------------------
(***************************************************************************)
(* Generations, for any number of runs, sessions and application threads,  *)
(* any limits and any provider.                                            *)
(*                                                                         *)
(* First the lease: it has one holder, and while a run waits for its       *)
(* provider nothing changes what it asked about.                           *)
(*                                                                         *)
(* Then what generations leave in the histories, in their traces and in    *)
(* their answers.  Each run is followed through its exchange: the messages *)
(* it has appended so far are the end of the history, and what is still    *)
(* missing from a whole exchange is known at each label.  Hence the        *)
(* answers and traces are right, and the histories, seen without what the  *)
(* holder of the lease has appended, behave as Conversation says.          *)
(***************************************************************************)
EXTENDS AIClient, Induction, SequenceTheorems, FiniteSetTheorems, TLAPS

Waiting == {"provider", "response", "counted"}

\* What the steps below need of the types.
Shape ==
    /\ active \in [Sessions -> BOOLEAN]
    /\ pc \in [Runs -> Labels]
    /\ sess \in [Runs -> Sessions \cup {None}]
    /\ system = [s \in Sessions |-> system[s]]
    /\ messages = [s \in Sessions |-> messages[s]]
    /\ request = [r \in Runs |-> request[r]]

\* Whoever is inside generate has the lease of its session, alone; nobody else
\* has one.
Leases ==
    /\ \A r \in Runs : pc[r] \in Holding => sess[r] \in Sessions /\ active[sess[r]]
    /\ \A s \in Sessions : active[s] => \E r \in Runs : Holds(r, s)
    /\ \A r, q \in Runs : pc[r] \in Holding /\ pc[q] \in Holding /\ sess[r] = sess[q]
                             => r = q

\* Between the two reads of a snapshot.
Halfway ==
    \A r \in Runs : pc[r] = "snapshot" =>
        request[r] = [system |-> system[sess[r]], messages |-> <<>>]

IInv == Shape /\ Leases /\ Halfway /\ RequestIsCurrent

LEMMA InitInv == Init => IInv
  BY DEF Init, SessionInit, IInv, Shape, Leases, Halfway, RequestIsCurrent,
     Labels, Holding, Holds

-----------------------------------------------------------------------------
(***************************************************************************)
(* The lease.                                                              *)
(***************************************************************************)
\* Run r stays inside generate.
Stays(r) ==
    /\ UNCHANGED <<active, sess>>
    /\ pc[r] \in Holding
    /\ \E l \in Holding : pc' = [pc EXCEPT ![r] = l]

LEMMA StaysLeases ==
    ASSUME Shape, Leases, NEW r \in Runs, Stays(r)
    PROVE  Leases'
<1>1. \A q \in Runs : pc'[q] \in Holding <=> pc[q] \in Holding
  BY DEF Shape, Stays, Holding, Labels
<1>2. active' = active /\ sess' = sess
  BY DEF Stays
<1> QED BY <1>1, <1>2 DEF Leases, Holds

LEMMA StartLeases ==
    ASSUME Shape, Leases, NEW r \in Runs, NEW s \in Sessions, Start(r, s)
    PROVE  Leases'
<1>1. /\ pc' = [pc EXCEPT ![r] = "leased"] /\ pc[r] \notin Holding
      /\ sess' = [sess EXCEPT ![r] = s]
      /\ active' = [active EXCEPT ![s] = TRUE] /\ ~active[s]
  BY DEF Start, Acquire, GoTo, Holding, Labels
<1>2. \A q \in Runs : q # r => pc'[q] = pc[q] /\ sess'[q] = sess[q]
  BY <1>1 DEF Shape
<1>3. pc'[r] \in Holding /\ sess'[r] = s /\ active'[s]
  BY <1>1 DEF Shape, Holding, Labels
<1>4. \A u \in Sessions : u # s => active'[u] = active[u]
  BY <1>1 DEF Shape
<1>5. \A q \in Runs : q # r /\ pc'[q] \in Holding =>
         sess'[q] \in Sessions /\ active'[sess'[q]] /\ sess'[q] # s
  BY <1>1, <1>2, <1>4 DEF Leases
<1>6. ASSUME NEW u \in Sessions, active'[u]
      PROVE  \E q \in Runs : sess'[q] = u /\ pc'[q] \in Holding
  <2>1. CASE u = s
    BY <2>1, <1>3
  <2>2. CASE u # s
    BY <2>2, <1>1, <1>2, <1>4, <1>6 DEF Leases, Holds
  <2> QED BY <2>1, <2>2
<1>7. ASSUME NEW p \in Runs, NEW q \in Runs,
             pc'[p] \in Holding, pc'[q] \in Holding, sess'[p] = sess'[q]
      PROVE  p = q
  BY <1>2, <1>3, <1>5, <1>7 DEF Leases
<1> QED BY <1>3, <1>5, <1>6, <1>7 DEF Leases, Holds

LEMMA FinishLeases ==
    ASSUME Shape, Leases, NEW r \in Runs, Finish(r)
    PROVE  Leases'
<1>1. PICK l \in {"returned", "threw"} : pc' = [pc EXCEPT ![r] = l]
  BY DEF Finish, GoTo
<1>2. /\ sess' = sess /\ active' = [active EXCEPT ![sess[r]] = FALSE]
      /\ pc[r] \in Holding /\ sess[r] \in Sessions
  BY DEF Finish, Release, Holding, Labels, Leases
<1>3. pc'[r] \notin Holding /\ \A q \in Runs : q # r => pc'[q] = pc[q]
  BY <1>1 DEF Shape, Holding, Labels
<1>4. ~active'[sess[r]]
      /\ \A u \in Sessions : u # sess[r] => active'[u] = active[u]
  BY <1>2 DEF Shape
<1>5. \A q \in Runs : pc'[q] \in Holding =>
         sess'[q] \in Sessions /\ active'[sess'[q]]
  BY <1>2, <1>3, <1>4 DEF Leases
<1>6. \A u \in Sessions : active'[u] => \E q \in Runs : sess'[q] = u /\ pc'[q] \in Holding
  BY <1>2, <1>3, <1>4 DEF Leases, Holds
<1>7. \A p, q \in Runs : pc'[p] \in Holding /\ pc'[q] \in Holding /\ sess'[p] = sess'[q]
         => p = q
  BY <1>2, <1>3 DEF Leases
<1> QED BY <1>5, <1>6, <1>7 DEF Leases, Holds

-----------------------------------------------------------------------------
(***************************************************************************)
(* What a step of run r touches: its own label and request, and of the     *)
(* sessions only the history of the one it holds.                          *)
(***************************************************************************)
OwnStep(r) ==
    /\ UNCHANGED <<sess, system>>
    /\ \E l \in Labels : pc' = [pc EXCEPT ![r] = l]
    /\ \E m : messages' = [messages EXCEPT ![sess[r]] = m]
    /\ \E x : request' = [request EXCEPT ![r] = x]

\* A run stays where its snapshot is good, or leaves the region it matters in.
Undisturbed(q) ==
    \/ pc'[q] \notin Waiting \cup {"snapshot"}
    \/ /\ pc'[q] = pc[q] \/ {pc[q], pc'[q]} \subseteq Waiting
       /\ request'[q] = request[q] /\ sess'[q] = sess[q]
       /\ system'[sess[q]] = system[sess[q]]
       /\ messages'[sess[q]] = messages[sess[q]]

Snapshots(q) ==
    /\ pc[q] = "snapshot" =>
         request[q] = [system |-> system[sess[q]], messages |-> <<>>]
    /\ pc[q] \in Waiting =>
         request[q] = [system |-> system[sess[q]], messages |-> messages[sess[q]]]

LEMMA SnapshotsOfAll ==
    (\A q \in Runs : Snapshots(q)) <=> Halfway /\ RequestIsCurrent
  BY DEF Snapshots, Halfway, RequestIsCurrent, Waiting

LEMMA UndisturbedSnapshots ==
    ASSUME NEW q \in Runs, Snapshots(q), Undisturbed(q)
    PROVE  Snapshots(q)'
  BY DEF Snapshots, Undisturbed, Waiting

\* A session that is nobody's business keeps its history: EXCEPT with the
\* value that is there.
LEMMA Keeps ==
    ASSUME NEW S, NEW f, f = [s \in S |-> f[s]], NEW d
    PROVE  f = [f EXCEPT ![d] = f[d]]
  OBVIOUS

LEMMA OwnStepShape ==
    ASSUME Shape, NEW r \in Runs, OwnStep(r)
    PROVE  pc' \in [Runs -> Labels] /\ sess' = sess
           /\ system' = [s \in Sessions |-> system'[s]]
           /\ messages' = [s \in Sessions |-> messages'[s]]
           /\ request' = [q \in Runs |-> request'[q]]
<1>1. pc' \in [Runs -> Labels]
  BY DEF Shape, OwnStep
<1>2. messages' = [s \in Sessions |-> messages'[s]]
  <2>1. PICK m : messages' = [messages EXCEPT ![sess[r]] = m]
    BY DEF OwnStep
  <2> QED BY <2>1 DEF Shape
<1>3. request' = [q \in Runs |-> request'[q]]
  <2>1. PICK x : request' = [request EXCEPT ![r] = x]
    BY DEF OwnStep
  <2> QED BY <2>1 DEF Shape
<1> QED BY <1>1, <1>2, <1>3 DEF Shape, OwnStep

\* The other holders have other sessions.
LEMMA OwnStepOthers ==
    ASSUME Shape, Leases, NEW r \in Runs, pc[r] \in Holding, OwnStep(r),
           NEW q \in Runs, q # r
    PROVE  Undisturbed(q)
<1>1. pc'[q] = pc[q] /\ request'[q] = request[q] /\ sess'[q] = sess[q]
      /\ system' = system
  <2>1. PICK l \in Labels : pc' = [pc EXCEPT ![r] = l]
    BY DEF OwnStep
  <2>2. PICK x : request' = [request EXCEPT ![r] = x]
    BY DEF OwnStep
  <2>3. pc'[q] = pc[q] /\ request'[q] = request[q]
    BY <2>1, <2>2 DEF Shape
  <2> QED BY <2>3 DEF OwnStep
<1>2. CASE pc[q] \notin Holding
  BY <1>1, <1>2 DEF Undisturbed, Waiting, Holding, Labels
<1>3. CASE pc[q] \in Holding
  <2>1. sess[q] \in Sessions /\ sess[q] # sess[r]
    BY <1>3 DEF Leases
  <2>2. messages'[sess[q]] = messages[sess[q]]
    <3>1. PICK m : messages' = [messages EXCEPT ![sess[r]] = m]
      BY DEF OwnStep
    <3> QED BY <2>1, <3>1 DEF Shape
  <2> QED BY <1>1, <2>2 DEF Undisturbed
<1> QED BY <1>2, <1>3

-----------------------------------------------------------------------------
(***************************************************************************)
(* The actions of a run, by what they do to the session and the request.   *)
(***************************************************************************)
\* Nothing is written but the label.
Quiet(r, l) ==
    /\ UNCHANGED <<active, sess, system, messages, request>>
    /\ pc' = [pc EXCEPT ![r] = l]

\* A message is appended to the history.
Writes(r, l) ==
    /\ UNCHANGED <<active, sess, system, request>>
    /\ \E m : messages' = [messages EXCEPT ![sess[r]] = m]
    /\ pc' = [pc EXCEPT ![r] = l]

\* The request is built from the session.
Asks(r, l) ==
    /\ UNCHANGED <<active, sess, system, messages>>
    /\ \E x : request' = [request EXCEPT ![r] = x]
    /\ pc' = [pc EXCEPT ![r] = l]

LEMMA QuietIsOwn ==
    ASSUME Shape, NEW r \in Runs, NEW l \in Labels, Quiet(r, l)
    PROVE  OwnStep(r)
<1>1. messages' = [messages EXCEPT ![sess[r]] = messages[sess[r]]]
  BY Keeps DEF Shape, Quiet
<1>2. request' = [request EXCEPT ![r] = request[r]]
  BY Keeps DEF Shape, Quiet
<1> QED BY <1>1, <1>2 DEF OwnStep, Quiet

LEMMA WritesIsOwn ==
    ASSUME Shape, NEW r \in Runs, NEW l \in Labels, Writes(r, l)
    PROVE  OwnStep(r)
<1>1. request' = [request EXCEPT ![r] = request[r]]
  BY Keeps DEF Shape, Writes
<1> QED BY <1>1 DEF OwnStep, Writes

LEMMA AsksIsOwn ==
    ASSUME Shape, NEW r \in Runs, NEW l \in Labels, Asks(r, l)
    PROVE  OwnStep(r)
<1>1. messages' = [messages EXCEPT ![sess[r]] = messages[sess[r]]]
  BY Keeps DEF Shape, Asks
<1> QED BY <1>1 DEF OwnStep, Asks

\* Reading the instruction, reading the history, and the steps between the
\* answer and the history keep the snapshot good.
Asking(r) == ReadSystem(r) \/ ReadMessages(r)
Judging(r) == (\E resp \in Responses : ProviderReturns(r, resp)) \/ Count(r)
Leaving(r) ==
    \/ ProviderThrows(r) \/ RejectResponse(r) \/ ExhaustRounds(r)
    \/ CollectResults(r) \/ StopOnToolError(r) \/ NextRound(r)
Writing(r) ==
    \/ AppendInput(r) \/ AcceptFinal(r) \/ AcceptContinuation(r)
    \/ AcceptCalls(r) \/ AppendResult(r)

LEMMA RunStepCases ==
    ASSUME NEW r \in Runs, RunStep(r)
    PROVE  Asking(r) \/ Judging(r) \/ Leaving(r) \/ Writing(r) \/ Finish(r)
  BY DEF RunStep, Asking, Judging, Leaving, Writing

Late == {"round", "tools", "results", "returning", "throwing"}

LEMMA AskingDoes ==
    ASSUME NEW r \in Runs, Asking(r)
    PROVE  pc[r] \in Holding /\ Asks(r, IF pc[r] = "round" THEN "snapshot" ELSE "provider")
<1>1. CASE ReadSystem(r)
  BY <1>1 DEF ReadSystem, Asks, GoTo, sessionVars, Holding, Labels
<1>2. CASE ReadMessages(r)
  <2>1. pc[r] = "snapshot" /\ pc' = [pc EXCEPT ![r] = "provider"]
    BY <1>2 DEF ReadMessages, GoTo
  <2>2. request' = [request EXCEPT ![r] = [request[r] EXCEPT !.messages = messages[sess[r]]]]
    BY <1>2 DEF ReadMessages
  <2> QED BY <1>2, <2>1, <2>2 DEF ReadMessages, Asks, sessionVars, Holding, Labels
<1> QED BY <1>1, <1>2 DEF Asking

LEMMA JudgingDoes ==
    ASSUME NEW r \in Runs, Judging(r)
    PROVE  pc[r] \in Waiting /\ \E l \in Waiting : Quiet(r, l)
<1>1. CASE \E resp \in Responses : ProviderReturns(r, resp)
  <2>1. pc[r] = "provider" /\ Quiet(r, "response")
    BY <1>1 DEF ProviderReturns, Quiet, GoTo, sessionVars
  <2> QED BY <2>1 DEF Waiting
<1>2. CASE Count(r)
  <2>1. pc[r] = "response" /\ Quiet(r, "counted")
    BY <1>2 DEF Count, Quiet, GoTo, sessionVars
  <2> QED BY <2>1 DEF Waiting
<1> QED BY <1>1, <1>2 DEF Judging

LEMMA LeavingDoes ==
    ASSUME NEW r \in Runs, Leaving(r)
    PROVE  pc[r] \in Holding /\ \E l \in Late : Quiet(r, l)
<1>1. CASE ProviderThrows(r)
  <2>1. pc[r] \in Holding /\ Quiet(r, "throwing")
    BY <1>1 DEF ProviderThrows, Throw, Quiet, GoTo, sessionVars, Holding, Labels
  <2> QED BY <2>1 DEF Late
<1>2. CASE RejectResponse(r)
  <2>1. pc[r] \in Holding /\ Quiet(r, "throwing")
    BY <1>2 DEF RejectResponse, Throw, Quiet, GoTo, sessionVars, Holding, Labels
  <2> QED BY <2>1 DEF Late
<1>3. CASE ExhaustRounds(r)
  <2>1. pc[r] \in Holding /\ Quiet(r, "throwing")
    BY <1>3 DEF ExhaustRounds, Throw, Quiet, GoTo, sessionVars, Holding, Labels
  <2> QED BY <2>1 DEF Late
<1>4. CASE CollectResults(r)
  <2>1. pc[r] \in Holding /\ Quiet(r, "results")
    BY <1>4 DEF CollectResults, Quiet, GoTo, sessionVars, Holding, Labels
  <2> QED BY <2>1 DEF Late
<1>5. CASE StopOnToolError(r)
  <2>1. pc[r] \in Holding /\ Quiet(r, "returning")
    BY <1>5 DEF StopOnToolError, AllAppended, Return, Quiet, GoTo, sessionVars, Holding, Labels
  <2> QED BY <2>1 DEF Late
<1>6. CASE NextRound(r)
  <2>1. pc[r] \in Holding /\ Quiet(r, "round")
    BY <1>6 DEF NextRound, AllAppended, Quiet, GoTo, sessionVars, Holding, Labels
  <2> QED BY <2>1 DEF Late
<1> QED BY <1>1, <1>2, <1>3, <1>4, <1>5, <1>6 DEF Leaving

LEMMA WritingDoes ==
    ASSUME Shape, NEW r \in Runs, Writing(r)
    PROVE  pc[r] \in Holding /\ \E l \in Late : Writes(r, l)
<1>1. CASE AppendInput(r)
  <2>1. pc[r] \in Holding /\ Writes(r, "round")
    BY <1>1 DEF AppendInput, AppendFromClient, Writes, GoTo, Holding, Labels
  <2> QED BY <2>1 DEF Late
<1>2. CASE AcceptFinal(r)
  <2>1. pc[r] \in Holding /\ Writes(r, "returning")
    BY <1>2 DEF AcceptFinal, AppendResponse, Return, AppendFromClient, Writes, GoTo, Holding, Labels
  <2> QED BY <2>1 DEF Late
<1>3. CASE AcceptContinuation(r)
  <2>1. pc[r] \in Holding /\ Writes(r, "round")
    BY <1>3 DEF AcceptContinuation, AppendResponse, AppendFromClient, Writes, GoTo, Holding, Labels
  <2> QED BY <2>1 DEF Late
<1>4. CASE AcceptCalls(r)
  <2>1. pc[r] \in Holding /\ Writes(r, "tools")
    BY <1>4 DEF AcceptCalls, AppendResponse, AppendFromClient, Writes, GoTo, Holding, Labels
  <2> QED BY <2>1 DEF Late
<1>5. CASE AppendResult(r)
  <2>1. pc[r] = "results" /\ pc' = pc
    BY <1>5 DEF AppendResult
  <2>2. pc' = [pc EXCEPT ![r] = "results"]
    BY <2>1 DEF Shape
  <2>3. Writes(r, "results")
    BY <1>5, <2>2 DEF AppendResult, Writes, AppendFromClient
  <2> QED BY <2>1, <2>3 DEF Late, Holding, Labels
<1> QED BY <1>1, <1>2, <1>3, <1>4, <1>5 DEF Writing

-----------------------------------------------------------------------------
(***************************************************************************)
(* The invariant holds along every step.                                   *)
(***************************************************************************)
LEMMA LabelsOfTheKinds ==
    /\ Waiting \subseteq Holding /\ Late \subseteq Holding
    /\ Holding \subseteq Labels
    /\ Late \cap (Waiting \cup {"snapshot"}) = {}
    /\ "snapshot" \in Holding \ Waiting /\ "provider" \in Waiting
  BY DEF Waiting, Late, Holding, Labels

\* Everything but the return of the lease.
WorkStep(r) == Asking(r) \/ Judging(r) \/ Leaving(r) \/ Writing(r)

LEMMA WorkStepDoes ==
    ASSUME Shape, NEW r \in Runs, WorkStep(r)
    PROVE  Stays(r) /\ OwnStep(r)
<1>1. CASE Asking(r)
  <2>1. PICK l \in {"snapshot", "provider"} : pc[r] \in Holding /\ Asks(r, l)
    BY <1>1, AskingDoes
  <2>2. l \in Labels /\ l \in Holding
    BY DEF Holding, Labels
  <2> QED BY <2>1, <2>2, AsksIsOwn DEF Asks, Stays
<1>2. CASE Judging(r)
  <2>1. PICK l \in Waiting : pc[r] \in Waiting /\ Quiet(r, l)
    BY <1>2, JudgingDoes
  <2>2. l \in Labels /\ l \in Holding /\ pc[r] \in Holding
    BY <2>1, LabelsOfTheKinds
  <2> QED BY <2>1, <2>2, QuietIsOwn DEF Quiet, Stays
<1>3. CASE Leaving(r)
  <2>1. PICK l \in Late : pc[r] \in Holding /\ Quiet(r, l)
    BY <1>3, LeavingDoes
  <2>2. l \in Labels /\ l \in Holding
    BY LabelsOfTheKinds
  <2> QED BY <2>1, <2>2, QuietIsOwn DEF Quiet, Stays
<1>4. CASE Writing(r)
  <2>1. PICK l \in Late : pc[r] \in Holding /\ Writes(r, l)
    BY <1>4, WritingDoes
  <2>2. l \in Labels /\ l \in Holding
    BY LabelsOfTheKinds
  <2> QED BY <2>1, <2>2, WritesIsOwn DEF Writes, Stays
<1> QED BY <1>1, <1>2, <1>3, <1>4 DEF WorkStep

\* The snapshot of the run that steps.
LEMMA WorkStepSnapshot ==
    ASSUME Shape, Leases, NEW r \in Runs, WorkStep(r), Snapshots(r)
    PROVE  Snapshots(r)'
<1>1. CASE ReadSystem(r)
  <2>1. pc'[r] = "snapshot" /\ sess' = sess /\ system' = system
    BY <1>1 DEF ReadSystem, GoTo, Shape, sessionVars
  <2>2. request'[r] = [system |-> system[sess[r]], messages |-> <<>>]
    BY <1>1 DEF ReadSystem, Shape
  <2> QED BY <2>1, <2>2 DEF Snapshots, Waiting
<1>2. CASE ReadMessages(r)
  <2>1. /\ pc[r] = "snapshot" /\ pc'[r] = "provider"
        /\ sess' = sess /\ system' = system /\ messages' = messages
    BY <1>2 DEF ReadMessages, GoTo, Shape, sessionVars
  <2>2. request[r] = [system |-> system[sess[r]], messages |-> <<>>]
    BY <2>1 DEF Snapshots
  <2>3. request'[r] = [request[r] EXCEPT !.messages = messages[sess[r]]]
    BY <1>2 DEF ReadMessages, Shape
  <2>4. request'[r] = [system |-> system[sess[r]], messages |-> messages[sess[r]]]
    BY <2>2, <2>3
  <2> QED BY <2>1, <2>4 DEF Snapshots
<1>3. CASE Judging(r)
  <2>1. PICK l \in Waiting : pc[r] \in Waiting /\ Quiet(r, l)
    BY <1>3, JudgingDoes
  <2>2. pc'[r] = l
    BY <2>1, LabelsOfTheKinds DEF Quiet, Shape
  <2>3. Undisturbed(r)
    BY <2>1, <2>2 DEF Quiet, Undisturbed
  <2> QED BY <2>3, UndisturbedSnapshots
<1>4. CASE Leaving(r) \/ Writing(r)
  <2>1. PICK l \in Late : pc' = [pc EXCEPT ![r] = l]
    BY <1>4, LeavingDoes, WritingDoes DEF Quiet, Writes
  <2>2. pc'[r] = l
    BY <2>1, LabelsOfTheKinds DEF Shape
  <2>3. Undisturbed(r)
    BY <2>2, LabelsOfTheKinds DEF Undisturbed
  <2> QED BY <2>3, UndisturbedSnapshots
<1> QED BY <1>1, <1>2, <1>3, <1>4 DEF WorkStep, Asking

LEMMA WorkStepInv ==
    ASSUME IInv, NEW r \in Runs, WorkStep(r)
    PROVE  IInv'
<1>1. Shape /\ Leases /\ \A q \in Runs : Snapshots(q)
  BY SnapshotsOfAll DEF IInv
<1>2. Stays(r) /\ OwnStep(r)
  BY <1>1, WorkStepDoes
<1>3. Shape'
  <2>1. active' = active
    BY <1>2 DEF Stays
  <2> QED BY <1>1, <1>2, <2>1, OwnStepShape DEF Shape
<1>4. Leases'
  BY <1>1, <1>2, StaysLeases
<1>5. ASSUME NEW q \in Runs PROVE Snapshots(q)'
  <2>1. CASE q = r
    BY <1>1, <2>1, WorkStepSnapshot
  <2>2. CASE q # r
    <3>1. pc[r] \in Holding
      BY <1>2 DEF Stays
    <3>2. Undisturbed(q)
      BY <1>1, <1>2, <2>2, <3>1, OwnStepOthers
    <3> QED BY <1>1, <3>2, UndisturbedSnapshots
  <2> QED BY <2>1, <2>2
<1>6. (\A q \in Runs : Snapshots(q))' <=> (Halfway /\ RequestIsCurrent)'
  BY SnapshotsOfAll, PTL
<1> QED BY <1>3, <1>4, <1>5, <1>6 DEF IInv

\* The snapshots are kept when no run is disturbed.
LEMMA UndisturbedInv ==
    ASSUME IInv, Shape', Leases', \A q \in Runs : Undisturbed(q)
    PROVE  IInv'
<1>1. \A q \in Runs : Snapshots(q)
  BY SnapshotsOfAll DEF IInv
<1>2. \A q \in Runs : Snapshots(q)'
  BY <1>1, UndisturbedSnapshots
<1>3. (\A q \in Runs : Snapshots(q))' <=> (Halfway /\ RequestIsCurrent)'
  BY SnapshotsOfAll, PTL
<1> QED BY <1>2, <1>3 DEF IInv

LEMMA FinishInv ==
    ASSUME IInv, NEW r \in Runs, Finish(r)
    PROVE  IInv'
<1>1. Shape /\ Leases
  BY DEF IInv
<1>2. PICK l \in {"returned", "threw"} : pc' = [pc EXCEPT ![r] = l]
  BY DEF Finish, GoTo
<1>3. /\ UNCHANGED <<sess, system, messages, request>>
      /\ active' = [active EXCEPT ![sess[r]] = FALSE]
  BY DEF Finish, Release
<1>4. Shape'
  BY <1>1, <1>2, <1>3 DEF Shape, Labels
<1>5. Leases'
  BY <1>1, FinishLeases
<1>6. \A q \in Runs : Undisturbed(q)
  BY <1>1, <1>2, <1>3 DEF Undisturbed, Shape, Waiting, Labels
<1> QED BY <1>4, <1>5, <1>6, UndisturbedInv

LEMMA StartInv ==
    ASSUME IInv, NEW r \in Runs, NEW s \in Sessions, Start(r, s)
    PROVE  IInv'
<1>1. Shape /\ Leases
  BY DEF IInv
<1>2. /\ pc' = [pc EXCEPT ![r] = "leased"] /\ sess' = [sess EXCEPT ![r] = s]
      /\ active' = [active EXCEPT ![s] = TRUE]
      /\ UNCHANGED <<system, messages, request>>
  BY DEF Start, Acquire, GoTo
<1>3. Shape'
  BY <1>1, <1>2 DEF Shape, Labels
<1>4. Leases'
  BY <1>1, StartLeases
<1>5. \A q \in Runs : Undisturbed(q)
  BY <1>1, <1>2 DEF Undisturbed, Shape, Waiting
<1> QED BY <1>3, <1>4, <1>5, UndisturbedInv

LEMMA StartRefusedInv ==
    ASSUME IInv, NEW r \in Runs, NEW s \in Sessions, StartRefused(r, s)
    PROVE  IInv'
<1>1. Shape /\ Leases
  BY DEF IInv
<1>2. /\ pc' = [pc EXCEPT ![r] = "refused"] /\ pc[r] = "idle"
      /\ UNCHANGED <<active, sess, system, messages, request>>
  BY DEF StartRefused, GoTo, sessionVars
<1>3. Shape'
  BY <1>1, <1>2 DEF Shape, Labels
<1>4. \A q \in Runs : pc'[q] \in Holding <=> pc[q] \in Holding
  BY <1>1, <1>2 DEF Shape, Holding, Labels
<1>5. Leases'
  BY <1>1, <1>2, <1>4 DEF Leases, Holds
<1>6. \A q \in Runs : Undisturbed(q)
  BY <1>1, <1>2 DEF Undisturbed, Shape, Waiting
<1> QED BY <1>3, <1>5, <1>6, UndisturbedInv

\* A public operation that changes something found its session idle: the
\* sessions of waiting runs are others.
LEMMA EditInv ==
    ASSUME IInv, NEW s \in Sessions, EditStep(s)
    PROVE  IInv'
<1>1. Shape /\ Leases
  BY DEF IInv
<1>2. UNCHANGED <<pc, sess, request>>
  BY DEF EditStep, clientVars
<1>3. /\ ~active[s] /\ active' = active
      /\ system' = system \/ \E x : system' = [system EXCEPT ![s] = x]
      /\ messages' = messages \/ \E x : messages' = [messages EXCEPT ![s] = x]
  <2>1. CASE \E text \in SystemTexts : SetSystem(s, text)
    BY <2>1 DEF SetSystem, RequireIdle
  <2>2. CASE PublicAppend(s)
    BY <2>2 DEF PublicAppend, RequireIdle
  <2>3. CASE ClearMessages(s)
    BY <2>3 DEF ClearMessages, RequireIdle
  <2> QED BY <2>1, <2>2, <2>3 DEF EditStep, PublicEdit
<1>4. Shape'
  <2>1. system' = [u \in Sessions |-> system'[u]]
    BY <1>1, <1>3 DEF Shape
  <2>2. messages' = [u \in Sessions |-> messages'[u]]
    BY <1>1, <1>3 DEF Shape
  <2> QED BY <1>1, <1>2, <1>3, <2>1, <2>2 DEF Shape
<1>5. Leases'
  BY <1>1, <1>2, <1>3 DEF Leases, Holds
<1>6. ASSUME NEW q \in Runs, pc[q] \in Holding
      PROVE  system'[sess[q]] = system[sess[q]] /\ messages'[sess[q]] = messages[sess[q]]
  <2>1. sess[q] \in Sessions /\ sess[q] # s
    BY <1>1, <1>3, <1>6 DEF Leases
  <2>2. system'[sess[q]] = system[sess[q]]
    BY <1>1, <1>3, <2>1 DEF Shape
  <2>3. messages'[sess[q]] = messages[sess[q]]
    BY <1>1, <1>3, <2>1 DEF Shape
  <2> QED BY <2>2, <2>3
<1>7. \A q \in Runs : Undisturbed(q)
  BY <1>2, <1>6, LabelsOfTheKinds DEF Undisturbed
<1> QED BY <1>4, <1>5, <1>7, UndisturbedInv

LEMMA StutterInv ==
    ASSUME IInv, UNCHANGED <<sessionVars, clientVars>>
    PROVE  IInv'
  BY DEF IInv, Shape, Leases, Halfway, RequestIsCurrent, Holds, sessionVars,
     clientVars

THEOREM Inductive == Spec => []IInv
<1>1. ASSUME IInv, [Next]_vars PROVE IInv'
  <2>1. CASE \E r \in Runs, s \in Sessions : Start(r, s)
    BY <1>1, <2>1, StartInv
  <2>2. CASE \E r \in Runs, s \in Sessions : StartRefused(r, s)
    BY <1>1, <2>2, StartRefusedInv
  <2>3. CASE \E r \in Runs : WorkStep(r)
    BY <1>1, <2>3, WorkStepInv
  <2>4. CASE \E r \in Runs : Finish(r)
    BY <1>1, <2>4, FinishInv
  <2>5. CASE \E r \in Runs : ToolStep(r)
    BY <1>1, <2>5, StutterInv DEF ToolStep
  <2>6. CASE \E s \in Sessions : EditStep(s)
    BY <1>1, <2>6, EditInv
  <2>7. CASE UNCHANGED vars
    BY <1>1, <2>7, StutterInv DEF vars
  <2> QED
    BY <1>1, <2>1, <2>2, <2>3, <2>4, <2>5, <2>6, <2>7, RunStepCases
       DEF Next, WorkStep
<1> QED BY InitInv, <1>1, PTL DEF Spec

\* A session is active exactly while one run is inside generate with it:
\* whatever path generate takes, it takes and returns its own lease.
THEOREM Lease == Spec => []OneHolder
<1>1. IInv => OneHolder
  BY DEF IInv, Leases, OneHolder, Holds
<1> QED BY <1>1, Inductive, PTL

\* What a provider was asked is what the session says until its answer is
\* appended, for any number of threads that generate or edit meanwhile.
THEOREM Current == Spec => []RequestIsCurrent
<1>1. IInv => RequestIsCurrent
  BY DEF IInv
<1> QED BY <1>1, Inductive, PTL

-----------------------------------------------------------------------------
(***************************************************************************)
(* The sum of a sequence.                                                  *)
(***************************************************************************)
\* f holds the sums of the first 0, 1, ..., n elements of s.
SumsTo(n, s, f) ==
    f = [k \in 0..n |-> IF k = 0 THEN 0 ELSE f[k - 1] + s[k]]
Sums(s, f) == SumsTo(Len(s), s, f)
Summable(n, s) == n <= Len(s) => \E f \in [0..n -> Nat] : SumsTo(n, s, f)

LEMMA SumsAgree ==
    ASSUME NEW s, NEW f, NEW g, Sums(s, f), Sums(s, g), Len(s) \in Nat
    PROVE  f = g
<1>1. PICK T : T = {n \in Nat : n \in 0..Len(s) => f[n] = g[n]}
  OBVIOUS
<1>2. 0 \in T
  BY <1>1 DEF Sums, SumsTo
<1>3. ASSUME NEW n \in Nat, n \in T PROVE n + 1 \in T
  <2>1. CASE n + 1 \in 0..Len(s)
    <3>1. n \in 0..Len(s) /\ n + 1 # 0 /\ n + 1 - 1 = n
      BY <2>1
    <3>2. f[n] = g[n]
      BY <1>1, <1>3, <3>1
    <3>3. f[n + 1] = f[n] + s[n + 1] /\ g[n + 1] = g[n] + s[n + 1]
      BY <2>1, <3>1 DEF Sums, SumsTo
    <3> QED BY <1>1, <3>2, <3>3
  <2> QED BY <1>1, <2>1
<1>4. \A n \in 0..Len(s) : f[n] = g[n]
  BY <1>1, <1>2, <1>3, EveryNumber
<1> QED BY <1>4 DEF Sums, SumsTo

LEMMA TotalIs ==
    ASSUME NEW s, NEW f, Sums(s, f), Len(s) \in Nat
    PROVE  Total(s) = f[Len(s)]
<1>1. PICK g : g = CHOOSE h : h = [k \in 0..Len(s) |-> IF k = 0 THEN 0 ELSE h[k - 1] + s[k]]
  OBVIOUS
<1>2. Sums(s, g)
  BY <1>1 DEF Sums, SumsTo
<1>3. Total(s) = g[Len(s)]
  BY <1>1 DEF Total
<1> QED BY <1>2, <1>3, SumsAgree

LEMMA SumsExist ==
    ASSUME NEW s \in Seq(Nat)
    PROVE  \E f \in [0..Len(s) -> Nat] : Sums(s, f)
<1>1. Len(s) \in Nat /\ \A k \in 1..Len(s) : s[k] \in Nat
  BY LenProperties, ElementOfSeq
<1>2. PICK T : T = {n \in Nat : Summable(n, s)}
  OBVIOUS
<1>3. 0 \in T
  <2>1. PICK f : f = [k \in 0..0 |-> 0]
    OBVIOUS
  <2>2. f \in [0..0 -> Nat] /\ SumsTo(0, s, f)
    BY <2>1 DEF SumsTo
  <2> QED BY <1>2, <2>2 DEF Summable
<1>4. ASSUME NEW n \in Nat, n \in T PROVE n + 1 \in T
  <2>1. SUFFICES ASSUME n + 1 <= Len(s)
                 PROVE  \E f \in [0..(n + 1) -> Nat] : SumsTo(n + 1, s, f)
    <3>1. Summable(n + 1, s)
      BY DEF Summable
    <3> QED BY <1>2, <3>1
  <2>2. PICK f \in [0..n -> Nat] : SumsTo(n, s, f)
    <3>1. Summable(n, s) /\ n <= Len(s)
      BY <1>1, <1>2, <1>4, <2>1
    <3> QED BY <3>1 DEF Summable
  <2>3. PICK g : g = [k \in 0..(n + 1) |-> IF k = n + 1 THEN f[n] + s[n + 1] ELSE f[k]]
    OBVIOUS
  <2>4. s[n + 1] \in Nat /\ f[n] \in Nat
    BY <1>1, <2>1
  <2>5. g \in [0..(n + 1) -> Nat]
    BY <2>3, <2>4
  <2>6. ASSUME NEW k \in 0..(n + 1)
        PROVE  g[k] = IF k = 0 THEN 0 ELSE g[k - 1] + s[k]
    <3>1. CASE k = n + 1
      <4>1. k # 0 /\ k - 1 = n /\ n \in 0..(n + 1) /\ n # n + 1
        BY <3>1
      <4> QED BY <2>3, <3>1, <4>1
    <3>2. CASE k # n + 1 /\ k # 0
      <4>1. k \in 0..n /\ k - 1 \in 0..n /\ k - 1 # n + 1 /\ k - 1 \in 0..(n + 1)
        BY <3>2
      <4>2. f[k] = f[k - 1] + s[k]
        BY <2>2, <3>2, <4>1 DEF SumsTo
      <4> QED BY <2>3, <3>2, <4>1, <4>2
    <3>3. CASE k = 0
      <4>1. k \in 0..n /\ k # n + 1
        BY <3>3
      <4> QED BY <2>2, <2>3, <3>3, <4>1 DEF SumsTo
    <3> QED BY <3>1, <3>2, <3>3
  <2>7. SumsTo(n + 1, s, g)
    BY <2>3, <2>6 DEF SumsTo
  <2> QED BY <2>5, <2>7
<1>5. \E f \in [0..Len(s) -> Nat] : SumsTo(Len(s), s, f)
  <2>1. Len(s) \in T
    BY <1>1, <1>3, <1>4, EveryNumber
  <2> QED BY <1>1, <1>2, <2>1 DEF Summable
<1> QED BY <1>5 DEF Sums

LEMMA TotalEmpty == Total(<<>>) = 0
<1>1. PICK f : f = [k \in 0..0 |-> 0]
  OBVIOUS
<1>2. Len(<<>>) = 0
  BY EmptySeq
<1>3. Sums(<<>>, f)
  BY <1>1, <1>2 DEF Sums, SumsTo
<1> QED BY <1>1, <1>2, <1>3, TotalIs

LEMMA TotalAppend ==
    ASSUME NEW s \in Seq(Nat), NEW x \in Nat
    PROVE  /\ Total(s) \in Nat
           /\ Total(Append(s, x)) = Total(s) + x
<1>1. PICK n, t : n = Len(s) /\ t = Append(s, x)
  OBVIOUS
<1>2. PICK f \in [0..n -> Nat] : Sums(s, f)
  BY <1>1, SumsExist
<1>3. n \in Nat
  BY <1>1, LenProperties
<1>4. /\ t \in Seq(Nat) /\ Len(t) = n + 1
      /\ \A k \in 1..n : t[k] = s[k]
      /\ t[n + 1] = x
  BY <1>1, AppendProperties
<1>5. PICK g \in [0..(n + 1) -> Nat] : Sums(t, g)
  BY <1>4, SumsExist
<1>6. PICK h : h = [k \in 0..n |-> g[k]]
  OBVIOUS
<1>7. Sums(s, h)
  <2>1. ASSUME NEW k \in 0..n
        PROVE  h[k] = IF k = 0 THEN 0 ELSE h[k - 1] + s[k]
    <3>1. k \in 0..(n + 1)
      BY <1>3
    <3>2. g[k] = IF k = 0 THEN 0 ELSE g[k - 1] + t[k]
      BY <1>4, <1>5, <3>1 DEF Sums, SumsTo
    <3>3. k = 0 \/ (k - 1 \in 0..n /\ k \in 1..n)
      BY <1>3
    <3> QED BY <1>4, <1>6, <3>2, <3>3
  <2> QED BY <1>1, <1>6, <2>1 DEF Sums, SumsTo
<1>8. h = f
  BY <1>1, <1>2, <1>3, <1>7, SumsAgree
<1>9. g[n] = f[n] /\ n + 1 \in 0..(n + 1) /\ n + 1 # 0 /\ n + 1 - 1 = n
  BY <1>3, <1>6, <1>8
<1>10. g[n + 1] = g[n] + t[n + 1]
  <2>1. \A k \in 0..(n + 1) : g[k] = IF k = 0 THEN 0 ELSE g[k - 1] + t[k]
    BY <1>4, <1>5 DEF Sums, SumsTo
  <2>2. PICK k : k = n + 1
    OBVIOUS
  <2>3. k \in 0..(n + 1) /\ k # 0 /\ k - 1 = n
    BY <1>3, <2>2
  <2>4. g[k] = g[k - 1] + t[k]
    BY <2>1, <2>3
  <2> QED BY <2>2, <2>3, <2>4
<1>11. Total(s) = f[n] /\ Total(t) = g[n + 1]
  <2>1. n + 1 \in Nat
    BY <1>3
  <2>2. Total(s) = f[n]
    BY <1>1, <1>2, <1>3, TotalIs
  <2>3. Total(t) = g[n + 1]
    BY <1>4, <1>5, <2>1, TotalIs
  <2> QED BY <2>2, <2>3
<1>12. f[n] \in Nat
  BY <1>2, <1>3
<1> QED BY <1>1, <1>4, <1>9, <1>10, <1>11, <1>12

-----------------------------------------------------------------------------
(***************************************************************************)
(* Messages, and appending one to a history.                               *)
(***************************************************************************)
LEMMA Fields ==
    ASSUME NEW r, NEW n, NEW cs, NEW c, NEW k, NEW o
    PROVE  /\ Input(r).role = "user" /\ Input(r).by = r /\ Input(r).calls = <<>>
           /\ Assistant(r, n, cs, c).role = "assistant"
           /\ Assistant(r, n, cs, c).by = r
           /\ Assistant(r, n, cs, c).round = n
           /\ Assistant(r, n, cs, c).calls = cs
           /\ Assistant(r, n, cs, c).cont = c
           /\ ToolResult(r, n, k, o).role = "tool"
           /\ ToolResult(r, n, k, o).by = r
           /\ ToolResult(r, n, k, o).round = n
           /\ ToolResult(r, n, k, o).answers = k
  BY DEF Input, Assistant, ToolResult, Blank

LEMMA InputIsMessage ==
    ASSUME NEW r \in Runs
    PROVE  Input(r) \in Message
<1>1. 0 \in 0..MaxModelRounds /\ 0 \in 0..MaxCalls
  BY TranscriptAssumption, LimitsAssumption
<1> QED BY <1>1 DEF Input, Blank, Message

LEMMA AssistantIsMessage ==
    ASSUME NEW r \in Runs, NEW n \in 0..MaxModelRounds,
           NEW cs \in Requests \cup {<<>>}, NEW c \in BOOLEAN
    PROVE  Assistant(r, n, cs, c) \in Message
<1>1. 0 \in 0..MaxModelRounds /\ 0 \in 0..MaxCalls
  BY TranscriptAssumption, LimitsAssumption
<1> QED BY <1>1 DEF Assistant, Blank, Message

LEMMA ToolResultIsMessage ==
    ASSUME NEW r \in Runs, NEW n \in 0..MaxModelRounds,
           NEW k \in 0..MaxCalls, NEW o
    PROVE  ToolResult(r, n, k, o) \in Message
<1>1. 0 \in 0..MaxModelRounds /\ 0 \in 0..MaxCalls
  BY TranscriptAssumption, LimitsAssumption
<1> QED BY <1>1 DEF ToolResult, Blank, Message

LEMMA Longer ==
    ASSUME NEW S, NEW e \in Seq(S), NEW m \in S
    PROVE  /\ Append(e, m) \in Seq(S)
           /\ Len(e) \in Nat /\ Len(Append(e, m)) = Len(e) + 1
           /\ \A k \in 1..Len(e) : Append(e, m)[k] = e[k]
           /\ Append(e, m)[Len(e) + 1] = m
           /\ 1..(Len(e) + 1) = (1..Len(e)) \cup {Len(e) + 1}
           /\ Len(e) + 1 \notin 1..Len(e)
<1>1. Len(e) \in Nat
  BY LenProperties
<1> QED BY <1>1, AppendProperties

\* The first n messages of a history stay when one is appended to it, and the
\* rest of the history grows by it.
LEMMA Growing ==
    ASSUME NEW S, NEW h \in Seq(S), NEW m \in S, NEW n \in 0..Len(h)
    PROVE  /\ SubSeq(Append(h, m), 1, n) = SubSeq(h, 1, n)
           /\ SubSeq(Append(h, m), n + 1, Len(h) + 1) =
                Append(SubSeq(h, n + 1, Len(h)), m)
<1>1. PICK g, l : g = Append(h, m) /\ l = Len(h)
  OBVIOUS
<1>2. l \in Nat /\ n \in Nat /\ n <= l /\ \A k \in 1..l : h[k] \in S
  BY <1>1, LenProperties, ElementOfSeq
<1>3. \A k \in 1..l : g[k] = h[k]
  BY <1>1, Longer
<1>4. g[l + 1] = m
  BY <1>1, Longer
<1>5. SubSeq(g, 1, n) = SubSeq(h, 1, n)
  <2>1. 1 \in Int /\ n \in Int
        /\ \A k \in 1..n : g[k] \in S /\ h[k] \in S /\ g[k] = h[k]
    BY <1>2, <1>3
  <2>2. PICK a, b : a = SubSeq(g, 1, n) /\ b = SubSeq(h, 1, n)
    OBVIOUS
  <2>3. /\ a \in Seq(S) /\ Len(a) = (IF 1 <= n THEN n - 1 + 1 ELSE 0)
        /\ \A k \in 1..(n - 1 + 1) : a[k] = g[1 + k - 1]
    BY <2>1, <2>2, SubSeqProperties
  <2>4. /\ b \in Seq(S) /\ Len(b) = (IF 1 <= n THEN n - 1 + 1 ELSE 0)
        /\ \A k \in 1..(n - 1 + 1) : b[k] = h[1 + k - 1]
    BY <2>1, <2>2, SubSeqProperties
  <2>5. Len(a) = n /\ Len(b) = n
    BY <1>2, <2>3, <2>4
  <2>6. ASSUME NEW k \in 1..n PROVE a[k] = b[k]
    <3>1. k \in 1..(n - 1 + 1) /\ 1 + k - 1 = k
      BY <1>2
    <3> QED BY <2>1, <2>3, <2>4, <3>1
  <2>7. a = b
    BY <2>3, <2>4, <2>5, <2>6, SeqEqual
  <2> QED BY <2>2, <2>7
<1>6. SubSeq(g, n + 1, l + 1) = Append(SubSeq(h, n + 1, l), m)
  <2>1. /\ n + 1 \in Int /\ l + 1 \in Int /\ l \in Int
        /\ \A k \in (n + 1)..(l + 1) : g[k] \in S
        /\ \A k \in (n + 1)..l : h[k] \in S
    <3>1. ASSUME NEW k \in (n + 1)..(l + 1) PROVE g[k] \in S
      <4>1. k \in 1..l \/ k = l + 1
        BY <1>2
      <4> QED BY <1>2, <1>3, <1>4, <4>1
    <3> QED BY <1>2, <3>1
  <2>2. PICK a, b, c : /\ a = SubSeq(g, n + 1, l + 1) /\ b = SubSeq(h, n + 1, l)
                       /\ c = Append(b, m)
    OBVIOUS
  <2>3. /\ a \in Seq(S)
        /\ Len(a) = (IF n + 1 <= l + 1 THEN (l + 1) - (n + 1) + 1 ELSE 0)
        /\ \A k \in 1..((l + 1) - (n + 1) + 1) : a[k] = g[n + 1 + k - 1]
    BY <2>1, <2>2, SubSeqProperties
  <2>4. /\ b \in Seq(S)
        /\ Len(b) = (IF n + 1 <= l THEN l - (n + 1) + 1 ELSE 0)
        /\ \A k \in 1..(l - (n + 1) + 1) : b[k] = h[n + 1 + k - 1]
    BY <2>1, <2>2, SubSeqProperties, SMTT(30)
  <2>5. Len(a) = l - n + 1 /\ Len(b) = l - n
    BY <1>2, <2>3, <2>4
  <2>6. /\ c \in Seq(S) /\ Len(c) = Len(b) + 1
        /\ \A k \in 1..Len(b) : c[k] = b[k]
        /\ c[Len(b) + 1] = m
    BY <2>2, <2>4, Longer
  <2>7. ASSUME NEW k \in 1..(l - n + 1) PROVE a[k] = c[k]
    <3>1. k \in 1..((l + 1) - (n + 1) + 1) /\ n + 1 + k - 1 = n + k
      BY <1>2
    <3>2. a[k] = g[n + k]
      BY <2>3, <3>1
    <3>3. CASE k = l - n + 1
      <4>1. n + k = l + 1
        BY <1>2, <3>3
      <4> QED BY <1>4, <2>5, <2>6, <3>2, <3>3, <4>1
    <3>4. CASE k # l - n + 1
      <4>1. k \in 1..(l - (n + 1) + 1) /\ k \in 1..(l - n) /\ n + k \in 1..l
        BY <1>2, <3>4
      <4> QED BY <1>3, <2>4, <2>5, <2>6, <3>1, <3>2, <4>1
    <3> QED BY <3>3, <3>4
  <2>8. Len(c) = l - n + 1
    BY <2>5, <2>6
  <2>9. a = c
    BY <2>3, <2>5, <2>6, <2>7, <2>8, SeqEqual
  <2> QED BY <2>2, <2>9
<1> QED BY <1>1, <1>5, <1>6
-----------------------------------------------------------------------------
(***************************************************************************)
(* The part of an exchange that is there already.                          *)
(***************************************************************************)
\* What holds of it at any time: Exchange, but for missing tool messages.
Begun(r, e) ==
    /\ e # <<>>
    /\ e[1] = Input(r)
    /\ \A k \in 2..Len(e) : e[k].by = r /\ e[k].role \in {"assistant", "tool"}
    /\ \A k \in Turns(e) :
          /\ e[k].round = Cardinality({j \in Turns(e) : j <= k})
          /\ e[k].round <= MaxModelRounds
          /\ \A i \in 1..Len(e[k].calls) :
                k + i <= Len(e) =>
                   /\ e[k + i].role = "tool"
                   /\ e[k + i].answers = i
                   /\ e[k + i].round = e[k].round
          /\ \A j \in Turns(e) : j > k => NeedsAnotherRound(e[k])
    /\ \A k \in 1..Len(e) : e[k].role = "tool" =>
          \E j \in Turns(e) :
             j = k - e[k].answers /\ e[k].answers <= Len(e[j].calls)

Answered(e, k) == k + Len(e[k].calls) <= Len(e)
AllAnswered(e) == \A k \in Turns(e) : Answered(e, k)
Continues(e) == \A k \in Turns(e) : NeedsAnotherRound(e[k])

\* The last turn asked for the calls cs, and the first i of them are answered.
Asked(e, i, cs) ==
    /\ i \in 0..Len(cs)
    /\ Len(e) - i \in Turns(e)
    /\ e[Len(e) - i].calls = cs
    /\ \A k \in Turns(e) : k # Len(e) - i => Answered(e, k)

Answers(e) == {k \in 1..Len(e) : e[k].role = "tool"}

LEMMA WholeExchange ==
    ASSUME NEW r, NEW e, Begun(r, e), AllAnswered(e), Len(e) \in Nat
    PROVE  Exchange(r, e)
<1>1. \A k \in Turns(e) : \A i \in 1..Len(e[k].calls) :
         Answered(e, k) /\ k + i <= Len(e)
  <2>1. ASSUME NEW k \in Turns(e), NEW i \in 1..Len(e[k].calls)
        PROVE  Answered(e, k) /\ k + i <= Len(e)
    <3>1. k \in Nat /\ Answered(e, k)
      BY DEF Turns, AllAnswered
    <3>2. i \in Int /\ i <= Len(e[k].calls) /\ Len(e[k].calls) \in Int
      OBVIOUS
    <3> QED BY <3>1, <3>2 DEF Answered
  <2> QED BY <2>1
<1> QED BY <1>1 DEF Begun, Exchange, AllAnswered, Answered

LEMMA FiniteTurns ==
    ASSUME NEW e \in Seq(Message)
    PROVE  /\ IsFiniteSet(Turns(e)) /\ Turns(e) \subseteq 1..Len(e)
           /\ IsFiniteSet(Answers(e)) /\ Answers(e) \subseteq 1..Len(e)
           /\ \A k \in Turns(e) : Len(e[k].calls) \in Nat
           /\ \A k \in 1..Len(e) : e[k] \in Message
<1>1. Len(e) \in Nat
  BY LenProperties
<1>2. IsFiniteSet(1..Len(e))
  BY <1>1, FS_Interval
<1>3. Turns(e) \subseteq 1..Len(e) /\ Answers(e) \subseteq 1..Len(e)
  BY DEF Turns, Answers
<1>4. \A k \in 1..Len(e) : e[k] \in Message
  BY ElementOfSeq
<1>5. \A k \in 1..Len(e) : e[k].calls \in Requests \cup {<<>>}
  BY <1>4 DEF Message
<1>6. \A cs \in Requests \cup {<<>>} : Len(cs) \in Nat
  <2>1. Indices \subseteq Nat
    BY LimitsAssumption DEF Indices
  <2>2. \A n \in Nat : \A cs \in [1..n -> Call] : cs \in Seq(Call)
    OBVIOUS
  <2>3. \A cs \in Requests : cs \in Seq(Call)
    BY <2>1, <2>2 DEF Requests
  <2>4. <<>> \in Seq(Call)
    BY EmptySeq
  <2> QED BY <2>3, <2>4, LenProperties
<1>7. IsFiniteSet(Turns(e)) /\ IsFiniteSet(Answers(e))
  BY <1>2, <1>3, FS_Subset
<1> QED BY <1>3, <1>4, <1>5, <1>6, <1>7

LEMMA InputAlone ==
    ASSUME NEW r \in Runs, NEW e, e = <<Input(r)>>
    PROVE  /\ e \in Seq(Message) /\ Begun(r, e) /\ AllAnswered(e) /\ Continues(e)
           /\ Cardinality(Turns(e)) = 0 /\ Cardinality(Answers(e)) = 0
<1>1. e \in Seq(Message)
  BY InputIsMessage
<1>2. Len(e) = 1 /\ e[1] = Input(r) /\ e # <<>> /\ 1..1 = {1} /\ 2..1 = {}
  OBVIOUS
<1>3. Turns(e) = {} /\ Answers(e) = {}
  BY <1>2, Fields DEF Turns, Answers
<1>4. \A k \in 1..Len(e) : e[k].role # "tool"
  BY <1>2, Fields
<1> QED BY <1>1, <1>2, <1>3, <1>4, FS_EmptySet
           DEF Begun, AllAnswered, Continues

\* f is e and then m.
Extended(e, m, f) ==
    /\ e \in Seq(Message)
    /\ m \in Message
    /\ f = Append(e, m)

\* How the turns and the answers grow.
LEMMA OneMore ==
    ASSUME NEW e, NEW m, NEW f, Extended(e, m, f)
    PROVE  /\ Turns(f) = Turns(e) \cup
                (IF m.role = "assistant" THEN {Len(e) + 1} ELSE {})
           /\ Answers(f) = Answers(e) \cup
                (IF m.role = "tool" THEN {Len(e) + 1} ELSE {})
           /\ \A k \in Turns(e) :
                {j \in Turns(f) : j <= k} = {j \in Turns(e) : j <= k}
           /\ {j \in Turns(f) : j <= Len(e) + 1} = Turns(f)
           /\ Cardinality(Turns(f)) = Cardinality(Turns(e)) +
                (IF m.role = "assistant" THEN 1 ELSE 0)
           /\ Cardinality(Answers(f)) = Cardinality(Answers(e)) +
                (IF m.role = "tool" THEN 1 ELSE 0)
           /\ Cardinality(Turns(e)) \in Nat /\ Cardinality(Answers(e)) \in Nat
<1>1. PICK l : l = Len(e)
  OBVIOUS
<1>2. /\ f \in Seq(Message) /\ l \in Nat /\ Len(f) = l + 1
      /\ \A k \in 1..l : f[k] = e[k]
      /\ f[l + 1] = m
      /\ 1..(l + 1) = (1..l) \cup {l + 1} /\ l + 1 \notin 1..l
  BY <1>1, Longer DEF Extended
<1>3. /\ IsFiniteSet(Turns(e)) /\ Turns(e) \subseteq 1..l
      /\ IsFiniteSet(Answers(e)) /\ Answers(e) \subseteq 1..l
  BY <1>1, FiniteTurns DEF Extended
<1>4. Turns(f) = Turns(e) \cup (IF m.role = "assistant" THEN {l + 1} ELSE {})
  BY <1>1, <1>2 DEF Turns
<1>5. Answers(f) = Answers(e) \cup (IF m.role = "tool" THEN {l + 1} ELSE {})
  BY <1>1, <1>2 DEF Answers
<1>6. \A k \in Turns(e) : ~(l + 1 <= k)
  BY <1>2, <1>3
<1>7. \A k \in Turns(e) : {j \in Turns(f) : j <= k} = {j \in Turns(e) : j <= k}
  BY <1>4, <1>6
<1>8. {j \in Turns(f) : j <= l + 1} = Turns(f)
  BY <1>2, <1>3, <1>4
<1>9. /\ Cardinality(Turns(e)) \in Nat /\ Cardinality(Answers(e)) \in Nat
      /\ l + 1 \notin Turns(e) /\ l + 1 \notin Answers(e)
  BY <1>2, <1>3, FS_CardinalityType
<1>10. /\ Cardinality(Turns(e) \cup {l + 1}) = Cardinality(Turns(e)) + 1
       /\ Cardinality(Answers(e) \cup {l + 1}) = Cardinality(Answers(e)) + 1
  BY <1>3, <1>9, FS_AddElement
<1>11. Cardinality(Turns(f)) = Cardinality(Turns(e)) +
          (IF m.role = "assistant" THEN 1 ELSE 0)
  <2>1. CASE m.role = "assistant"
    <3>1. Turns(f) = Turns(e) \cup {l + 1}
      BY <1>4, <2>1
    <3> QED BY <1>10, <2>1, <3>1
  <2>2. CASE m.role # "assistant"
    <3>1. Turns(f) = Turns(e)
      BY <1>4, <2>2
    <3> QED BY <1>9, <2>2, <3>1
  <2> QED BY <2>1, <2>2
<1>12. Cardinality(Answers(f)) = Cardinality(Answers(e)) +
          (IF m.role = "tool" THEN 1 ELSE 0)
  <2>1. CASE m.role = "tool"
    <3>1. Answers(f) = Answers(e) \cup {l + 1}
      BY <1>5, <2>1
    <3> QED BY <1>10, <2>1, <3>1
  <2>2. CASE m.role # "tool"
    <3>1. Answers(f) = Answers(e)
      BY <1>5, <2>2
    <3> QED BY <1>9, <2>2, <3>1
  <2> QED BY <2>1, <2>2
<1> QED BY <1>1, <1>4, <1>5, <1>7, <1>8, <1>9, <1>11, <1>12

\* m is the assistant message of round n of run r.
TurnOf(r, n, m) == m.role = "assistant" /\ m.by = r /\ m.round = n

\* The next turn.
LEMMA TurnAdded ==
    ASSUME NEW r \in Runs, NEW e, NEW n \in Nat, n < MaxModelRounds,
           Begun(r, e), AllAnswered(e), Continues(e), Cardinality(Turns(e)) = n,
           NEW m, TurnOf(r, n + 1, m), NEW f, Extended(e, m, f)
    PROVE  /\ Begun(r, f)
           /\ Cardinality(Turns(f)) = n + 1
           /\ Cardinality(Answers(f)) = Cardinality(Answers(e))
           /\ Asked(f, 0, m.calls)
           /\ m.calls = <<>> => AllAnswered(f)
           /\ NeedsAnotherRound(m) => Continues(f)
<1> PICK cs : cs = m.calls
  OBVIOUS
<1>1. n + 1 <= MaxModelRounds
  BY TranscriptAssumption
<1>2. /\ m.role = "assistant" /\ m.by = r /\ m.round = n + 1 /\ m.calls = cs
      /\ cs \in Requests \cup {<<>>}
  BY DEF TurnOf, Extended, Message
<1>3. PICK l : l = Len(e)
  OBVIOUS
<1>4. /\ f \in Seq(Message) /\ l \in Nat /\ Len(f) = l + 1
      /\ \A k \in 1..l : f[k] = e[k]
      /\ f[l + 1] = m
      /\ 1..(l + 1) = (1..l) \cup {l + 1} /\ l + 1 \notin 1..l
  BY <1>1, <1>3, Longer DEF Extended
<1>5. /\ Turns(f) = Turns(e) \cup {l + 1} /\ Answers(f) = Answers(e)
      /\ \A k \in Turns(e) :
           {j \in Turns(f) : j <= k} = {j \in Turns(e) : j <= k}
      /\ {j \in Turns(f) : j <= l + 1} = Turns(f)
  <2>1. /\ Turns(f) = Turns(e) \cup
                (IF m.role = "assistant" THEN {Len(e) + 1} ELSE {})
        /\ Answers(f) = Answers(e) \cup
                (IF m.role = "tool" THEN {Len(e) + 1} ELSE {})
        /\ \A k \in Turns(e) :
             {j \in Turns(f) : j <= k} = {j \in Turns(e) : j <= k}
        /\ {j \in Turns(f) : j <= Len(e) + 1} = Turns(f)
    BY <1>1, OneMore
  <2> QED BY <1>2, <1>3, <2>1
<1>6. Cardinality(Turns(f)) = n + 1
  <2>1. Cardinality(Turns(f)) = Cardinality(Turns(e)) + 1
    BY <1>1, <1>2, OneMore
  <2> QED BY <2>1
<1>7. /\ Turns(e) \subseteq 1..l /\ \A k \in Turns(e) : Len(e[k].calls) \in Nat
      /\ \A k \in 1..l : e[k] \in Message
  BY <1>1, <1>3, FiniteTurns DEF Extended
<1>8. l # 0
  <2>1. e # <<>>
    BY DEF Begun
  <2> QED BY <1>1, <1>3, <2>1, EmptySeq DEF Extended
<1>9. f # <<>> /\ f[1] = Input(r)
  <2>1. 1 \in 1..l
    BY <1>4, <1>8
  <2>2. f # <<>>
    BY <1>4, EmptySeq
  <2> QED BY <1>4, <2>1, <2>2 DEF Begun
<1>10. \A k \in 2..(l + 1) : f[k].by = r /\ f[k].role \in {"assistant", "tool"}
  <2>1. \A k \in 2..l : k \in 1..l /\ e[k].by = r /\ e[k].role \in {"assistant", "tool"}
    BY <1>3, <1>4 DEF Begun
  <2>2. \A k \in 2..(l + 1) : k \in 2..l \/ k = l + 1
    BY <1>4
  <2> QED BY <1>2, <1>4, <2>1, <2>2
<1>11. ASSUME NEW k \in Turns(e)
       PROVE  /\ f[k] = e[k] /\ k \in 1..l /\ k \in Turns(f)
              /\ f[k].round = Cardinality({j \in Turns(f) : j <= k})
              /\ f[k].round <= MaxModelRounds
              /\ NeedsAnotherRound(f[k])
              /\ \A i \in 1..Len(f[k].calls) :
                   /\ f[k + i].role = "tool"
                   /\ f[k + i].answers = i
                   /\ f[k + i].round = f[k].round
              /\ k + Len(f[k].calls) <= l
  <2>1. f[k] = e[k] /\ k \in 1..l /\ k \in Turns(f)
    BY <1>4, <1>5, <1>7
  <2>2. f[k].round = Cardinality({j \in Turns(f) : j <= k}) /\ f[k].round <= MaxModelRounds
    BY <1>5, <2>1 DEF Begun
  <2>3. k + Len(e[k].calls) <= l /\ NeedsAnotherRound(e[k])
    BY <1>3 DEF AllAnswered, Answered, Continues
  <2>4. ASSUME NEW i \in 1..Len(e[k].calls)
        PROVE  /\ f[k + i].role = "tool"
               /\ f[k + i].answers = i
               /\ f[k + i].round = e[k].round
    <3>1. k + i <= l /\ k + i \in 1..l
      BY <1>4, <1>7, <2>1, <2>3
    <3>2. f[k + i] = e[k + i]
      BY <1>4, <3>1
    <3>3. /\ e[k + i].role = "tool"
          /\ e[k + i].answers = i
          /\ e[k + i].round = e[k].round
      <4>1. k + i <= Len(e)
        BY <1>3, <3>1
      <4> QED BY <4>1 DEF Begun
    <3> QED BY <3>2, <3>3
  <2>5. \A i \in 1..Len(f[k].calls) :
           /\ f[k + i].role = "tool"
           /\ f[k + i].answers = i
           /\ f[k + i].round = f[k].round
    BY <2>1, <2>4
  <2>6. NeedsAnotherRound(f[k]) /\ k + Len(f[k].calls) <= l
    BY <2>1, <2>3
  <2> QED BY <2>1, <2>2, <2>5, <2>6
<1>12. Begun(r, f)
  <2>1. ASSUME NEW k \in Turns(f)
        PROVE  /\ f[k].round = Cardinality({j \in Turns(f) : j <= k})
               /\ f[k].round <= MaxModelRounds
               /\ \A i \in 1..Len(f[k].calls) :
                     k + i <= l + 1 =>
                        /\ f[k + i].role = "tool"
                        /\ f[k + i].answers = i
                        /\ f[k + i].round = f[k].round
               /\ \A j \in Turns(f) : j > k => NeedsAnotherRound(f[k])
    <3>1. CASE k \in Turns(e)
      BY <1>11, <3>1
    <3>2. CASE k = l + 1
      <4>1. \A i \in 1..Len(cs) : ~(k + i <= l + 1)
        BY <1>4, <3>2
      <4>2. \A j \in Turns(f) : ~(j > k)
        BY <1>4, <1>5, <1>7, <3>2
      <4>3. f[k] = m /\ f[k].round = n + 1
        BY <1>2, <1>4, <3>2
      <4>4. {j \in Turns(f) : j <= k} = Turns(f)
        BY <1>5, <3>2
      <4> QED BY <1>1, <1>2, <1>6, <4>1, <4>2, <4>3, <4>4
    <3> QED BY <1>5, <3>1, <3>2
  <2>2. ASSUME NEW k \in 1..(l + 1), f[k].role = "tool"
        PROVE  \E j \in Turns(f) : j = k - f[k].answers /\ f[k].answers <= Len(f[j].calls)
    <3>1. k \in 1..l /\ f[k] = e[k]
      BY <1>2, <1>4, <2>2
    <3>2. PICK j \in Turns(e) : j = k - e[k].answers /\ e[k].answers <= Len(e[j].calls)
      BY <1>3, <2>2, <3>1 DEF Begun
    <3>3. f[j] = e[j] /\ j \in Turns(f)
      BY <1>11
    <3> QED BY <3>1, <3>2, <3>3
  <2>3. /\ \A k \in 2..Len(f) : f[k].by = r /\ f[k].role \in {"assistant", "tool"}
        /\ \A k \in 1..Len(f) : f[k].role = "tool" =>
             \E j \in Turns(f) :
                j = k - f[k].answers /\ f[k].answers <= Len(f[j].calls)
    BY <1>4, <1>10, <2>2
  <2>4. \A k \in Turns(f) :
           /\ f[k].round = Cardinality({j \in Turns(f) : j <= k})
           /\ f[k].round <= MaxModelRounds
           /\ \A i \in 1..Len(f[k].calls) :
                 k + i <= Len(f) =>
                    /\ f[k + i].role = "tool"
                    /\ f[k + i].answers = i
                    /\ f[k + i].round = f[k].round
           /\ \A j \in Turns(f) : j > k => NeedsAnotherRound(f[k])
    <3>1. Len(f) = l + 1
      BY <1>4
    <3> QED BY <2>1, <3>1
  <2> QED BY <1>9, <2>3, <2>4 DEF Begun
<1>13. Asked(f, 0, cs)
  <2>1. l + 1 - 0 = l + 1 /\ l + 1 \in Turns(f) /\ f[l + 1].calls = cs
    BY <1>2, <1>4, <1>5
  <2>2. 0 \in 0..Len(cs)
    <3>1. l + 1 \in Turns(f) /\ Len(f[l + 1].calls) \in Nat
      BY <1>4, <2>1, FiniteTurns
    <3> QED BY <2>1, <3>1
  <2>3. \A k \in Turns(f) : k # l + 1 => k + Len(f[k].calls) <= l + 1
    <3>1. ASSUME NEW k \in Turns(e) PROVE k + Len(f[k].calls) <= l + 1
      <4>1. f[k] = e[k] /\ k \in 1..l /\ k + Len(f[k].calls) <= l
        BY <1>11
      <4>2. PICK z : z = Len(f[k].calls)
        OBVIOUS
      <4>3. z \in Nat /\ k \in Nat /\ k + z <= l
        <5>1. Len(e[k].calls) \in Nat
          BY <1>7
        <5> QED BY <4>1, <4>2, <5>1
      <4>4. k + z <= l + 1
        BY <1>4, <4>3
      <4> QED BY <4>2, <4>4
    <3> QED BY <1>5, <3>1
  <2>4. Len(f) = l + 1 /\ Len(f) - 0 = l + 1
    BY <1>4
  <2> QED BY <2>1, <2>2, <2>3, <2>4 DEF Asked, Answered
<1>14. ASSUME cs = <<>> PROVE AllAnswered(f)
  <2>1. Len(cs) = 0
    BY <1>14, EmptySeq
  <2>2. \A k \in Turns(f) : Answered(f, k)
    <3>1. Answered(f, l + 1)
      <4>1. Len(f[l + 1].calls) = 0
        BY <1>2, <1>4, <2>1
      <4>2. l + 1 + 0 <= l + 1
        BY <1>4
      <4> QED BY <1>4, <4>1, <4>2 DEF Answered
    <3>2. \A k \in Turns(f) : k # Len(f) - 0 => Answered(f, k)
      BY <1>13 DEF Asked
    <3>3. Len(f) - 0 = l + 1
      BY <1>4
    <3> QED BY <3>1, <3>2, <3>3
  <2> QED BY <2>2 DEF AllAnswered
<1>15. ASSUME NeedsAnotherRound(m) PROVE Continues(f)
  <2>2. f[l + 1] = m /\ \A k \in Turns(f) : k \in Turns(e) \/ k = l + 1
    BY <1>4, <1>5
  <2> QED BY <1>11, <1>15, <2>2 DEF Continues
<1> QED BY <1>4, <1>5, <1>6, <1>12, <1>13, <1>14, <1>15

\* The next answer.
LEMMA AnswerAdded ==
    ASSUME NEW r \in Runs, NEW e, NEW n \in Nat, NEW i \in Nat, NEW cs, NEW o,
           Begun(r, e), Asked(e, i, cs), i < Len(cs), Cardinality(Turns(e)) = n,
           NEW f, Extended(e, ToolResult(r, n, i + 1, o), f)
    PROVE  /\ Begun(r, f)
           /\ Cardinality(Turns(f)) = n
           /\ Cardinality(Answers(f)) = Cardinality(Answers(e)) + 1
           /\ Asked(f, i + 1, cs)
           /\ Continues(e) => Continues(f)
<1> PICK m : m = ToolResult(r, n, i + 1, o)
  OBVIOUS
<1>1. Extended(e, m, f)
  OBVIOUS
<1>2. /\ m.role = "tool" /\ m.by = r /\ m.round = n /\ m.answers = i + 1
  BY Fields
<1>3. PICK l, p : l = Len(e) /\ p = l - i
  OBVIOUS
<1>4. /\ f \in Seq(Message) /\ l \in Nat /\ Len(f) = l + 1
      /\ \A k \in 1..l : f[k] = e[k]
      /\ f[l + 1] = m
      /\ 1..(l + 1) = (1..l) \cup {l + 1} /\ l + 1 \notin 1..l
  BY <1>1, <1>3, Longer DEF Extended
<1>5. /\ Turns(f) = Turns(e)
      /\ \A k \in Turns(e) :
           {j \in Turns(f) : j <= k} = {j \in Turns(e) : j <= k}
  <2>1. Turns(f) = Turns(e) \cup (IF m.role = "assistant" THEN {Len(e) + 1} ELSE {})
    BY <1>1, OneMore
  <2>2. Turns(f) = Turns(e)
    BY <1>2, <2>1
  <2> QED BY <2>2
<1>6. /\ Cardinality(Turns(f)) = n
      /\ Cardinality(Answers(f)) = Cardinality(Answers(e)) + 1
  <2>1. Cardinality(Answers(f)) = Cardinality(Answers(e)) +
          (IF m.role = "tool" THEN 1 ELSE 0)
    BY <1>1, OneMore
  <2> QED BY <1>2, <1>5, <2>1
<1>7. /\ Turns(e) \subseteq 1..l /\ \A k \in Turns(e) : Len(e[k].calls) \in Nat
      /\ \A k \in 1..l : e[k] \in Message
  BY <1>1, <1>3, FiniteTurns DEF Extended
<1>8. /\ p \in Turns(e) /\ e[p].calls = cs /\ p \in 1..l /\ p + i = l
      /\ \A k \in Turns(e) : k # p => k + Len(e[k].calls) <= l
      /\ Len(cs) \in Nat
  <2>1. p \in Turns(e) /\ e[p].calls = cs
        /\ \A k \in Turns(e) : k # p => k + Len(e[k].calls) <= l
    BY <1>3 DEF Asked, Answered
  <2> QED BY <1>3, <1>4, <1>7, <2>1
\* The messages after the last turn are its answers.
<1>9. \A k \in Turns(e) : k <= p
  <2> SUFFICES ASSUME NEW k \in Turns(e), k > p PROVE FALSE
    BY <1>4, <1>7, <1>8
  <2>1. PICK d : d = k - p
    OBVIOUS
  <2>2. d \in 1..Len(cs) /\ p + d = k /\ k <= l
    <3>1. PICK q : q = Len(cs)
      OBVIOUS
    <3>2. q \in Nat /\ i < q /\ p \in Nat /\ p + i = l /\ k \in 1..l
      BY <1>4, <1>7, <1>8, <3>1
    <3>3. d \in 1..q /\ p + d = k /\ k <= l
      BY <2>1, <3>2
    <3> QED BY <3>1, <3>3
  <2>3. e[k].role = "tool"
    <3>1. d \in 1..Len(e[p].calls) /\ p + d <= Len(e)
      BY <1>3, <1>8, <2>2
    <3>2. e[p + d].role = "tool"
      BY <1>8, <3>1 DEF Begun
    <3> QED BY <2>2, <3>2
  <2>4. e[k].role = "assistant"
    BY DEF Turns
  <2> QED BY <2>3, <2>4
<1>10. e[p].round = n
  <2>1. {j \in Turns(e) : j <= p} = Turns(e)
    BY <1>9
  <2>2. e[p].round = Cardinality({j \in Turns(e) : j <= p})
    BY <1>8 DEF Begun
  <2> QED BY <2>1, <2>2
<1>11. f # <<>> /\ f[1] = Input(r)
  <2>1. 1 \in 1..l
    BY <1>4, <1>8
  <2>2. f # <<>>
    BY <1>4, EmptySeq
  <2> QED BY <1>4, <2>1, <2>2 DEF Begun
<1>12. \A k \in 2..(l + 1) : f[k].by = r /\ f[k].role \in {"assistant", "tool"}
  <2>1. \A k \in 2..l : k \in 1..l /\ e[k].by = r /\ e[k].role \in {"assistant", "tool"}
    BY <1>3, <1>4 DEF Begun
  <2>2. \A k \in 2..(l + 1) : k \in 2..l \/ k = l + 1
    BY <1>4
  <2> QED BY <1>2, <1>4, <2>1, <2>2
<1>13. ASSUME NEW k \in Turns(e)
       PROVE  /\ f[k] = e[k] /\ k \in 1..l
              /\ f[k].round = Cardinality({j \in Turns(f) : j <= k})
              /\ f[k].round <= MaxModelRounds
              /\ \A j \in Turns(f) : j > k => NeedsAnotherRound(f[k])
              /\ \A d \in 1..Len(f[k].calls) : k + d <= l + 1 =>
                   /\ f[k + d].role = "tool"
                   /\ f[k + d].answers = d
                   /\ f[k + d].round = f[k].round
  <2>1. f[k] = e[k] /\ k \in 1..l
    BY <1>4, <1>7
  <2>2. f[k].round = Cardinality({j \in Turns(f) : j <= k}) /\ f[k].round <= MaxModelRounds
    BY <1>5, <2>1 DEF Begun
  <2>3. \A j \in Turns(f) : j > k => NeedsAnotherRound(f[k])
    BY <1>5, <2>1 DEF Begun
  <2>4. ASSUME NEW d \in 1..Len(e[k].calls), k + d <= l + 1
        PROVE  /\ f[k + d].role = "tool"
               /\ f[k + d].answers = d
               /\ f[k + d].round = e[k].round
    <3>1. CASE k + d <= l
      <4>1. k + d \in 1..l /\ k + d <= Len(e)
        BY <1>3, <1>4, <2>1, <3>1
      <4>2. /\ e[k + d].role = "tool"
            /\ e[k + d].answers = d
            /\ e[k + d].round = e[k].round
        BY <4>1 DEF Begun
      <4>3. f[k + d] = e[k + d]
        BY <1>4, <4>1
      <4> QED BY <4>2, <4>3
    <3>2. CASE ~(k + d <= l)
      <4>1. k + d = l + 1
        BY <1>4, <2>1, <2>4, <3>2
      <4>2. k = p
        <5>1. PICK z : z = Len(e[k].calls)
          OBVIOUS
        <5>2. z \in Nat /\ d \in 1..z /\ k \in Nat
          BY <1>7, <2>1, <5>1
        <5>3. ~(k + z <= l)
          BY <1>4, <4>1, <5>2
        <5> QED BY <1>8, <5>1, <5>3
      <4>3. d = i + 1
        BY <1>4, <1>8, <4>1, <4>2
      <4> QED BY <1>2, <1>4, <1>10, <4>1, <4>2, <4>3
    <3> QED BY <3>1, <3>2
  <2>5. \A d \in 1..Len(f[k].calls) : k + d <= l + 1 =>
           /\ f[k + d].role = "tool"
           /\ f[k + d].answers = d
           /\ f[k + d].round = f[k].round
    BY <2>1, <2>4
  <2> QED BY <2>1, <2>2, <2>3, <2>5
<1>14. Begun(r, f)
  <2>1. ASSUME NEW k \in 1..(l + 1), f[k].role = "tool"
        PROVE  \E j \in Turns(f) : j = k - f[k].answers /\ f[k].answers <= Len(f[j].calls)
    <3>1. CASE k \in 1..l
      <4>1. f[k] = e[k]
        BY <1>4, <3>1
      <4>2. PICK j \in Turns(e) : j = k - e[k].answers /\ e[k].answers <= Len(e[j].calls)
        BY <1>3, <2>1, <3>1, <4>1 DEF Begun
      <4>3. f[j] = e[j]
        BY <1>13
      <4> QED BY <1>5, <4>1, <4>2, <4>3
    <3>2. CASE k = l + 1
      <4>1. f[k].answers = i + 1
        BY <1>2, <1>4, <3>2
      <4>2. p = k - (i + 1) /\ i + 1 <= Len(cs)
        BY <1>3, <1>4, <1>8, <3>2
      <4>3. f[p].calls = cs
        BY <1>8, <1>13
      <4> QED BY <1>5, <1>8, <4>1, <4>2, <4>3
    <3> QED BY <1>4, <2>1, <3>1, <3>2
  <2>2. /\ \A k \in 2..Len(f) : f[k].by = r /\ f[k].role \in {"assistant", "tool"}
        /\ \A k \in 1..Len(f) : f[k].role = "tool" =>
             \E j \in Turns(f) :
                j = k - f[k].answers /\ f[k].answers <= Len(f[j].calls)
    BY <1>4, <1>12, <2>1
  <2>3. \A k \in Turns(f) :
           /\ f[k].round = Cardinality({j \in Turns(f) : j <= k})
           /\ f[k].round <= MaxModelRounds
           /\ \A d \in 1..Len(f[k].calls) :
                 k + d <= Len(f) =>
                    /\ f[k + d].role = "tool"
                    /\ f[k + d].answers = d
                    /\ f[k + d].round = f[k].round
           /\ \A j \in Turns(f) : j > k => NeedsAnotherRound(f[k])
    <3>1. Len(f) = l + 1
      BY <1>4
    <3> QED BY <1>5, <1>13, <3>1
  <2> QED BY <1>11, <2>2, <2>3 DEF Begun
<1>15. Asked(f, i + 1, cs)
  <2>1. Len(f) - (i + 1) = p /\ i + 1 \in 0..Len(cs)
    BY <1>3, <1>4, <1>8
  <2>2. p \in Turns(f) /\ f[p].calls = cs
    BY <1>5, <1>8, <1>13
  <2>3. ASSUME NEW k \in Turns(e), k # p PROVE k + Len(f[k].calls) <= l + 1
    <3>1. PICK z : z = Len(f[k].calls)
      OBVIOUS
    <3>2. z \in Nat /\ k + z <= l /\ k \in Nat
      <4>1. Len(e[k].calls) \in Nat /\ k + Len(e[k].calls) <= l
        BY <1>7, <1>8, <2>3
      <4>2. f[k] = e[k] /\ k \in 1..l
        BY <1>13
      <4> QED BY <3>1, <4>1, <4>2
    <3>3. k + z <= l + 1
      BY <1>4, <3>2
    <3> QED BY <3>1, <3>3
  <2>4. \A k \in Turns(f) : k # p => k + Len(f[k].calls) <= Len(f)
    BY <1>4, <1>5, <2>3
  <2> QED BY <2>1, <2>2, <2>4 DEF Asked, Answered
<1>16. Continues(e) => Continues(f)
  <2>1. \A k \in Turns(e) : f[k] = e[k]
    BY <1>13
  <2> QED BY <1>5, <2>1 DEF Continues
<1> QED BY <1>6, <1>14, <1>15, <1>16

LEMMA LastAnswer ==
    ASSUME NEW e, NEW cs, Asked(e, Len(cs), cs), Len(e) \in Nat, Len(cs) \in Nat
    PROVE  AllAnswered(e)
<1>1. PICK l, d : l = Len(e) /\ d = Len(cs)
  OBVIOUS
<1>2. /\ e[l - d].calls = cs
      /\ \A k \in Turns(e) : k # l - d => Answered(e, k)
  BY <1>1 DEF Asked
<1>3. l - d + d <= l
  BY <1>1
<1>4. Answered(e, l - d)
  BY <1>1, <1>2, <1>3 DEF Answered
<1> QED BY <1>2, <1>4 DEF AllAnswered

\* The messages a run has written are the end of its history.
By(h, r, roles) == {k \in 1..Len(h) : h[k].by = r /\ h[k].role \in roles}
OfRole(e, roles) == {k \in 1..Len(e) : e[k].role \in roles}

\* Run r has written the messages after the first n, namely e, and no other.
Parted(r, h, n, e) ==
    /\ e = SubSeq(h, n + 1, Len(h))
    /\ \A k \in 1..n : h[k].by # r
    /\ \A k \in 1..Len(e) : e[k].by = r

LEMMA OwnMessages ==
    ASSUME NEW r, NEW h \in Seq(Message), NEW n \in 0..Len(h), NEW e,
           Parted(r, h, n, e), NEW roles
    PROVE  Cardinality(By(h, r, roles)) = Cardinality(OfRole(e, roles))
<1>0. /\ e = SubSeq(h, n + 1, Len(h))
      /\ \A k \in 1..n : h[k].by # r
      /\ \A k \in 1..Len(e) : e[k].by = r
  BY DEF Parted
<1>1. PICK l : l = Len(h)
  OBVIOUS
<1>2. l \in Nat /\ n \in Nat /\ n <= l /\ \A k \in 1..l : h[k] \in Message
  BY <1>1, LenProperties, ElementOfSeq
<1>3. /\ Len(e) = l - n
      /\ \A k \in 1..(l - n) : e[k] = h[n + k]
  <2>1. /\ n + 1 \in Int /\ l \in Int
        /\ \A k \in (n + 1)..l : h[k] \in Message
    BY <1>2
  <2>2. /\ Len(SubSeq(h, n + 1, l)) = (IF n + 1 <= l THEN l - (n + 1) + 1 ELSE 0)
        /\ \A k \in 1..(l - (n + 1) + 1) : SubSeq(h, n + 1, l)[k] = h[n + 1 + k - 1]
    BY <2>1, SubSeqProperties
  <2>3. e = SubSeq(h, n + 1, l)
    BY <1>0, <1>1
  <2>4. /\ Len(e) = (IF n + 1 <= l THEN l - (n + 1) + 1 ELSE 0)
        /\ \A k \in 1..(l - (n + 1) + 1) : e[k] = h[n + 1 + k - 1]
    BY <2>2, <2>3
  <2>5. Len(e) = l - n
    BY <1>2, <2>4
  <2>6. ASSUME NEW k \in 1..(l - n) PROVE e[k] = h[n + k]
    <3>1. k \in 1..(l - (n + 1) + 1) /\ n + 1 + k - 1 = n + k
      BY <1>2
    <3> QED BY <2>4, <3>1
  <2> QED BY <2>5, <2>6
<1>4. PICK S, T : /\ S = {k \in 1..(l - n) : e[k].role \in roles}
                  /\ T = {k \in 1..l : h[k].by = r /\ h[k].role \in roles}
  OBVIOUS
<1>5. \A k \in 1..l : h[k].by = r <=> k > n
  <2>1. ASSUME NEW k \in 1..l, k > n PROVE h[k].by = r
    <3>1. PICK j : j = k - n
      OBVIOUS
    <3>2. j \in 1..(l - n) /\ n + j = k
      BY <1>2, <2>1, <3>1
    <3>3. e[j] = h[k] /\ j \in 1..Len(e)
      BY <1>3, <3>2
    <3> QED BY <1>0, <3>3
  <2>2. ASSUME NEW k \in 1..l, ~(k > n) PROVE h[k].by # r
    <3>1. k \in 1..n
      BY <1>2, <2>2
    <3> QED BY <1>0, <3>1
  <2> QED BY <2>1, <2>2
<1>6. PICK g : g = [k \in S |-> n + k]
  OBVIOUS
<1>7. \A k \in S : k \in 1..(l - n) /\ n + k \in T
  <2>1. ASSUME NEW k \in S PROVE k \in 1..(l - n) /\ n + k \in T
    <3>1. k \in 1..(l - n) /\ e[k].role \in roles
      BY <1>4
    <3>2. n + k \in 1..l /\ n + k > n
      BY <1>2, <3>1
    <3> QED BY <1>3, <1>4, <1>5, <3>1, <3>2
  <2> QED BY <2>1
<1>8. \A k \in T : k - n \in S /\ n + (k - n) = k
  <2>1. ASSUME NEW k \in T PROVE k - n \in S /\ n + (k - n) = k
    <3>1. k \in 1..l /\ k > n /\ h[k].role \in roles
      BY <1>4, <1>5
    <3>2. k - n \in 1..(l - n) /\ n + (k - n) = k
      BY <1>2, <3>1
    <3> QED BY <1>3, <1>4, <3>1, <3>2
  <2> QED BY <2>1
<1>9. g \in Bijection(S, T)
  <2>1. g \in [S -> T]
    BY <1>6, <1>7
  <2>2. \A j, k \in S : g[j] = g[k] => j = k
    BY <1>2, <1>6, <1>7
  <2>3. \A k \in T : \E j \in S : g[j] = k
    BY <1>6, <1>8
  <2> QED BY <2>1, <2>2, <2>3 DEF Bijection, Injection, Surjection, IsInjective
<1>10. Cardinality(T) = Cardinality(S)
  <2>1. IsFiniteSet(1..(l - n))
    BY <1>2, FS_Interval
  <2>2. IsFiniteSet(S)
    BY <1>4, <2>1, FS_Subset
  <2> QED BY <1>9, <2>2, FS_Bijection DEF ExistsBijection
<1> QED BY <1>1, <1>3, <1>4, <1>10 DEF By, OfRole

-----------------------------------------------------------------------------
(***************************************************************************)
(* The inductive invariant.                                                *)
(***************************************************************************)
Kinds == {"generation_start", "provider_start", "provider_end",
          "generation_end", "error"}

\* Each variable by itself, so that a step need only argue about what it
\* writes; TypeOK and more.
Types ==
    /\ active \in [Sessions -> BOOLEAN]
    /\ system \in [Sessions -> SystemTexts \cup {NoSystem}]
    /\ messages \in [Sessions -> Seq(Message)]
    /\ pc \in [Runs -> Labels]
    /\ sess \in [Runs -> Sessions \cup {None}]
    /\ round \in [Runs -> 0..MaxModelRounds]
    /\ \A r \in Runs : request[r] # None =>
          /\ request[r].system \in SystemTexts \cup {NoSystem}
          /\ request[r].messages \in Seq(Message)
    /\ response \in [Runs -> Responses \cup {None}]
    /\ usage \in [Runs -> Counts]
    /\ toolCalls \in [Runs -> 0..MaxCalls]
    /\ appended \in [Runs -> 0..MaxCalls]
    /\ answer = [r \in Runs |-> answer[r]]
    /\ trace \in [Runs -> Seq(Kinds)]
    /\ reported \in [Runs -> Seq(Counts)]
    /\ calls \in [Runs -> Requests \cup {<<>>}]
    /\ phase \in [Runs -> {"idle", "running", "returned"}]
    /\ status \in [Runs -> [Indices -> {"waiting", "running"} \cup Outcome]]
    /\ results \in [Runs -> Seq(Outcome)]

Outside == {"idle", "refused"}
Unanswered == {"round", "snapshot", "provider", "response"}
Accounted == {"counted", "tools", "results", "returning"}

Sum(s) == IF NoCount \in Range(s) THEN NoCount ELSE Total(s)

\* The counters of run r agree with one another and respect the limits.
Numbers(r) ==
    /\ pc[r] \in Outside \cup {"leased"} =>
         round[r] = 0 /\ toolCalls[r] = 0 /\ reported[r] = <<>>
    /\ pc[r] \in Unanswered => round[r] = Len(reported[r]) + 1
    /\ pc[r] \in Accounted => round[r] = Len(reported[r]) /\ reported[r] # <<>>
    /\ reported[r] # <<>> => usage[r] = Sum(reported[r])
    /\ pc[r] \in {"response", "counted"} => response[r] \in Responses
    /\ pc[r] = "counted" => toolCalls[r] + Len(response[r].calls) <= MaxCalls
    /\ pc[r] \in {"tools", "results"} => round[r] < MaxModelRounds
    /\ pc[r] = "tools" => toolCalls[r] + Len(calls[r]) <= MaxCalls
    /\ phase[r] = "returned" => Len(results[r]) = Len(calls[r])
    /\ pc[r] = "results" => phase[r] = "returned" /\ appended[r] <= Len(results[r])
    /\ pc[r] = "returning" =>
         answer[r].usage = usage[r] /\ answer[r].rounds = round[r]
         /\ answer[r].calls = toolCalls[r]

\* How often run r has recorded what.
Events(r) ==
    LET t == trace[r]
        n == Len(reported[r])
    IN
    /\ pc[r] \in Outside => t = <<>>
    /\ pc[r] \notin Outside =>
         t # <<>> /\ t[1] = "generation_start" /\ Occurrences(t, "provider_end") = n
    /\ pc[r] \in Holding \ {"returning", "throwing"} =>
         /\ Occurrences(t, "generation_end") = 0 /\ Occurrences(t, "error") = 0
         /\ Occurrences(t, "provider_start") =
              n + (IF pc[r] \in {"provider", "response"} THEN 1 ELSE 0)
    /\ pc[r] \in {"returning", "returned"} =>
         /\ t[Len(t)] = "generation_end"
         /\ Occurrences(t, "generation_end") = 1 /\ Occurrences(t, "error") = 0
         /\ Occurrences(t, "provider_start") = n
    /\ pc[r] \in {"throwing", "threw"} =>
         /\ t[Len(t)] = "error"
         /\ Occurrences(t, "generation_end") = 0 /\ Occurrences(t, "error") = 1
         /\ Occurrences(t, "provider_start") \in {n, n + 1}

\* What run r has appended so far, at each place.
Said(r, e) ==
    /\ pc[r] = "leased" => e = <<>>
    /\ pc[r] # "leased" => Begun(r, e)
    /\ pc[r] \in Unanswered \cup {"counted"} =>
         /\ AllAnswered(e) /\ Continues(e)
         /\ Cardinality(Turns(e)) = round[r] - 1
         /\ Cardinality(Answers(e)) = toolCalls[r]
    /\ pc[r] \in {"tools", "results"} =>
         /\ Cardinality(Turns(e)) = round[r]
         /\ Continues(e)
    /\ pc[r] = "tools" =>
         /\ Asked(e, 0, calls[r])
         /\ Cardinality(Answers(e)) = toolCalls[r]
    /\ pc[r] = "results" =>
         /\ Asked(e, appended[r], calls[r])
         /\ Cardinality(Answers(e)) + Len(results[r]) = toolCalls[r] + appended[r]
    /\ pc[r] = "returning" =>
         /\ AllAnswered(e)
         /\ Cardinality(Turns(e)) = round[r]
         /\ Cardinality(Answers(e)) = toolCalls[r]
    /\ pc[r] = "throwing" => AllAnswered(e)

\* What run r has written into the histories.
Place(r) ==
    /\ pc[r] \in Outside =>
         \A s \in Sessions : \A k \in 1..Len(messages[s]) : messages[s][k].by # r
    /\ pc[r] \in Holding =>
         LET h == messages[sess[r]] IN
         \E n \in 0..Len(h) :
            LET e == SubSeq(h, n + 1, Len(h)) IN
            /\ \A k \in 1..n : h[k].by # r
            /\ Said(r, e)

Follows == Types /\ \A r \in Runs : Numbers(r) /\ Events(r) /\ Place(r)

-----------------------------------------------------------------------------
(***************************************************************************)
(* A step of run r concerns no other run.                                  *)
(***************************************************************************)
Untouched(q) ==
    /\ pc'[q] = pc[q] /\ sess'[q] = sess[q] /\ round'[q] = round[q]
    /\ response'[q] = response[q] /\ usage'[q] = usage[q]
    /\ toolCalls'[q] = toolCalls[q] /\ appended'[q] = appended[q]
    /\ answer'[q] = answer[q] /\ trace'[q] = trace[q]
    /\ reported'[q] = reported[q] /\ calls'[q] = calls[q]
    /\ phase'[q] = phase[q] /\ results'[q] = results[q]

StepOf(r) ==
    \/ RunStep(r) \/ ToolStep(r)
    \/ \E s \in Sessions : Start(r, s) \/ StartRefused(r, s)

\* The variables are functions on the runs.
LEMMA Functional ==
    ASSUME Types
    PROVE  /\ pc = [q \in Runs |-> pc[q]] /\ sess = [q \in Runs |-> sess[q]]
           /\ round = [q \in Runs |-> round[q]]
           /\ response = [q \in Runs |-> response[q]]
           /\ usage = [q \in Runs |-> usage[q]]
           /\ toolCalls = [q \in Runs |-> toolCalls[q]]
           /\ appended = [q \in Runs |-> appended[q]]
           /\ answer = [q \in Runs |-> answer[q]]
           /\ trace = [q \in Runs |-> trace[q]]
           /\ reported = [q \in Runs |-> reported[q]]
           /\ calls = [q \in Runs |-> calls[q]]
           /\ phase = [q \in Runs |-> phase[q]]
           /\ results = [q \in Runs |-> results[q]]
  BY DEF Types

LEMMA Elsewhere ==
    ASSUME NEW f, f = [q \in Runs |-> f[q]], NEW r, NEW v, NEW q \in Runs, q # r
    PROVE  [f EXCEPT ![r] = v][q] = f[q]
  OBVIOUS

LEMMA OthersUntouched ==
    ASSUME Types, NEW r \in Runs, NEW q \in Runs, q # r, StepOf(r)
    PROVE  Untouched(q)
<1>1. CASE \E s \in Sessions : Start(r, s) \/ StartRefused(r, s)
  BY <1>1, Functional, Elsewhere
     DEF Start, StartRefused, GoTo, Trace, Untouched, toolVars, sessionVars
<1>2. CASE ToolStep(r)
  <2>1. calls'[q] = calls[q] /\ phase'[q] = phase[q] /\ results'[q] = results[q]
    BY <1>2, Functional, Elsewhere
       DEF ToolStep, Tooling!Progress, Tooling!Refuse, Tooling!Begin,
           Tooling!End, Tooling!Return
  <2> QED BY <1>2, <2>1 DEF ToolStep, clientVars, Untouched
<1>3. CASE AppendInput(r) \/ ReadSystem(r) \/ ReadMessages(r)
  BY <1>3, Functional, Elsewhere
     DEF AppendInput, ReadSystem, ReadMessages, GoTo, Trace, Untouched,
         toolVars, sessionVars
<1>4. CASE (\E resp \in Responses : ProviderReturns(r, resp)) \/ ProviderThrows(r)
           \/ RejectResponse(r) \/ ExhaustRounds(r)
  BY <1>4, Functional, Elsewhere
     DEF ProviderReturns, ProviderThrows, RejectResponse, ExhaustRounds, Throw,
         GoTo, Trace, Untouched, toolVars, sessionVars
<1>5. CASE Count(r)
  BY <1>5, Functional, Elsewhere
     DEF Count, GoTo, Trace, Untouched, toolVars, sessionVars
<1>6. CASE AcceptFinal(r) \/ StopOnToolError(r)
  BY <1>6, Functional, Elsewhere
     DEF AcceptFinal, StopOnToolError, AllAppended, Return, GoTo, Trace,
         Untouched, toolVars, sessionVars
<1>7. CASE AcceptContinuation(r) \/ NextRound(r)
  BY <1>7, Functional, Elsewhere
     DEF AcceptContinuation, NextRound, AllAppended, GoTo, Untouched, toolVars,
         sessionVars
<1>8. CASE AcceptCalls(r)
  BY <1>8, Functional, Elsewhere
     DEF AcceptCalls, Tooling!Request, GoTo, Untouched
<1>9. CASE CollectResults(r) \/ AppendResult(r)
  BY <1>9, Functional, Elsewhere
     DEF CollectResults, AppendResult, GoTo, Untouched, toolVars, sessionVars
<1>10. CASE Finish(r)
  BY <1>10, Functional, Elsewhere DEF Finish, GoTo, Untouched, toolVars
<1> QED
  BY <1>1, <1>2, <1>3, <1>4, <1>5, <1>6, <1>7, <1>8, <1>9, <1>10
     DEF StepOf, RunStep

LEMMA UntouchedNumbers ==
    ASSUME NEW q \in Runs, Untouched(q), Numbers(q)
    PROVE  Numbers(q)'
  BY DEF Untouched, Numbers

LEMMA UntouchedEvents ==
    ASSUME NEW q \in Runs, Untouched(q), Events(q)
    PROVE  Events(q)'
  BY DEF Untouched, Events

LEMMA UntouchedSaid ==
    ASSUME NEW q \in Runs, Untouched(q), NEW e, Said(q, e)
    PROVE  Said(q, e)'
  BY DEF Untouched, Said

-----------------------------------------------------------------------------
(***************************************************************************)
(* The calls of a response that is kept.                                   *)
(***************************************************************************)
LEMMA CallsOfResponse ==
    ASSUME NEW resp \in Responses, Len(resp.calls) <= MaxCalls
    PROVE  /\ ToolsOf(resp.calls) \in Requests \cup {<<>>}
           /\ Len(resp.calls) \in Nat /\ Len(ToolsOf(resp.calls)) = Len(resp.calls)
           /\ resp.calls = <<>> <=> ToolsOf(resp.calls) = <<>>
           /\ resp.calls # <<>> => ToolsOf(resp.calls) \in Requests
<1>1. PICK cs, n, ts : cs = resp.calls /\ n = Len(cs) /\ ts = ToolsOf(cs)
  OBVIOUS
<1>2. cs \in Seq(Range(cs)) /\ \A k \in 1..n : cs[k].tool \in Call
  BY <1>1, ClientAssumption
<1>3. n \in Nat /\ (cs = <<>> <=> n = 0)
  BY <1>1, <1>2, EmptySeq, LenProperties
<1>4. ts \in [1..n -> Call]
  BY <1>1, <1>2 DEF ToolsOf
<1>5. ts \in Seq(Call) /\ Len(ts) = n
  BY <1>3, <1>4
<1>6. ts = <<>> <=> n = 0
  BY <1>3, <1>5, EmptySeq
<1>7. n # 0 => ts \in Requests
  <2>1. n # 0 => n \in 1..MaxCalls
    BY <1>1, <1>3, LimitsAssumption
  <2> QED BY <1>4, <2>1 DEF Requests, Indices
<1> QED BY <1>1, <1>3, <1>5, <1>6, <1>7

LEMMA CountsOfCalls ==
    ASSUME Types, NEW r \in Runs
    PROVE  /\ calls[r] \in Requests \cup {<<>>} /\ Len(calls[r]) \in 0..MaxCalls
           /\ results[r] \in Seq(Outcome) /\ Len(results[r]) \in Nat
<1>1. calls[r] \in Requests \cup {<<>>} /\ results[r] \in Seq(Outcome)
  BY DEF Types
<1>2. Len(results[r]) \in Nat
  BY <1>1, LenProperties
<1>3. MaxCalls \in Nat
  BY LimitsAssumption
<1>4. \A n \in Indices : \A cs \in [1..n -> Call] : Len(cs) = n
  BY <1>3 DEF Indices
<1>5. \A cs \in Requests : Len(cs) \in 0..MaxCalls
  BY <1>3, <1>4 DEF Requests, Indices
<1>6. Len(<<>>) \in 0..MaxCalls
  BY <1>3, EmptySeq
<1> QED BY <1>1, <1>2, <1>5, <1>6

-----------------------------------------------------------------------------
(***************************************************************************)
(* The types.                                                              *)
(***************************************************************************)
LEMMA ToolData ==
    /\ Tooling!Requests = Requests /\ Tooling!Indices = Indices
    /\ Tooling!Outcome = Outcome
  BY DEF Requests, Indices, Outcome, Call, Tooling!Requests, Tooling!Indices,
     Tooling!Outcome, Tooling!Call

LEMMA TypesSuffice == Types => TypeOK
<1>1. Types => Tooling!TypeOK
  BY ToolData DEF Types, Tooling!TypeOK
<1> QED BY <1>1 DEF Types, TypeOK, SessionTypeOK

LEMMA Updated ==
    ASSUME NEW D, NEW S, NEW f \in [D -> S], NEW d, NEW v \in S
    PROVE  [f EXCEPT ![d] = v] \in [D -> S]
  OBVIOUS

\* Recording an event and going on.
LEMMA Recorded ==
    ASSUME Types, NEW r \in Runs, NEW kind \in Kinds, Trace(r, kind)
    PROVE  trace' \in [Runs -> Seq(Kinds)]
           /\ trace'[r] = Append(trace[r], kind)
<1>1. trace \in [Runs -> Seq(Kinds)] /\ trace[r] \in Seq(Kinds)
  BY DEF Types
<1>2. Append(trace[r], kind) \in Seq(Kinds)
  BY <1>1, AppendProperties
<1>3. trace' = [trace EXCEPT ![r] = Append(trace[r], kind)]
  BY DEF Trace
<1> QED BY <1>1, <1>2, <1>3

LEMMA Went ==
    ASSUME Types, NEW r \in Runs, NEW l \in Labels, GoTo(r, l)
    PROVE  pc' \in [Runs -> Labels] /\ pc'[r] = l
<1>1. pc \in [Runs -> Labels]
  BY DEF Types
<1> QED BY <1>1 DEF GoTo

LEMMA SaidMore ==
    ASSUME Types, NEW s \in Sessions, NEW m \in Message, AppendFromClient(s, m)
    PROVE  /\ messages' \in [Sessions -> Seq(Message)]
           /\ messages'[s] = Append(messages[s], m)
           /\ \A u \in Sessions : u # s => messages'[u] = messages[u]
<1>1. messages \in [Sessions -> Seq(Message)] /\ messages[s] \in Seq(Message)
  BY DEF Types
<1>2. Append(messages[s], m) \in Seq(Message)
  BY <1>1, AppendProperties
<1>3. messages' = [messages EXCEPT ![s] = Append(messages[s], m)]
  BY DEF AppendFromClient
<1> QED BY <1>1, <1>2, <1>3

\* The message a run appends.
LEMMA ResponseIsMessage ==
    ASSUME Types, NEW r \in Runs, Numbers(r), pc[r] = "counted"
    PROVE  /\ response[r] \in Responses /\ Len(response[r].calls) <= MaxCalls
           /\ ToolsOf(response[r].calls) \in Requests \cup {<<>>}
           /\ response[r].cont \in BOOLEAN
           /\ Assistant(r, round[r], ToolsOf(response[r].calls), response[r].cont)
                \in Message
<1>1. response[r] \in Responses /\ toolCalls[r] + Len(response[r].calls) <= MaxCalls
  BY DEF Numbers
<1>2. toolCalls[r] \in Nat /\ round[r] \in 0..MaxModelRounds
  BY DEF Types
<1>3. response[r].calls \in Seq(Range(response[r].calls)) /\ response[r].cont \in BOOLEAN
  BY <1>1, ClientAssumption
<1>4. Len(response[r].calls) \in Nat
  BY <1>3, LenProperties
<1>5. Len(response[r].calls) <= MaxCalls
  BY <1>1, <1>2, <1>4, LimitsAssumption
<1>6. ToolsOf(response[r].calls) \in Requests \cup {<<>>}
  BY <1>1, <1>5, CallsOfResponse
<1> QED BY <1>1, <1>2, <1>3, <1>5, <1>6, AssistantIsMessage

LEMMA RunStepTypes ==
    ASSUME Types, IInv, NEW r \in Runs, Numbers(r), RunStep(r)
    PROVE  Types'
<1>1. /\ pc[r] \in Holding => sess[r] \in Sessions
      /\ round[r] \in 0..MaxModelRounds /\ toolCalls[r] \in 0..MaxCalls
      /\ MaxModelRounds \in Nat \ {0} /\ MaxCalls \in Nat
  BY TranscriptAssumption, LimitsAssumption DEF IInv, Leases, Types
<1>2. CASE AppendInput(r)
  <2>1. pc[r] = "leased" /\ GoTo(r, "round") /\ AppendFromClient(sess[r], Input(r))
        /\ round' = [round EXCEPT ![r] = 1]
    BY <1>2 DEF AppendInput
  <2>2. sess[r] \in Sessions /\ Input(r) \in Message /\ 1 \in 0..MaxModelRounds
    BY <1>1, <2>1, InputIsMessage DEF Holding, Labels
  <2>3. messages' \in [Sessions -> Seq(Message)] /\ pc' \in [Runs -> Labels]
    BY <2>1, <2>2, SaidMore, Went DEF Labels
  <2>4. round' \in [Runs -> 0..MaxModelRounds]
    BY <2>1, <2>2, Updated DEF Types
  <2>5. UNCHANGED <<active, system, sess, request, response, usage, toolCalls,
                    appended, answer, trace, reported, calls, phase, status,
                    results>>
    BY <1>2 DEF AppendInput, AppendFromClient, toolVars
  <2> QED BY <2>3, <2>4, <2>5 DEF Types
<1>3. CASE ReadSystem(r)
  <2>1. GoTo(r, "snapshot")
        /\ request' = [request EXCEPT ![r] = [system |-> system[sess[r]], messages |-> <<>>]]
    BY <1>3 DEF ReadSystem
  <2>2. sess[r] \in Sessions /\ pc' \in [Runs -> Labels]
    BY <1>1, <1>3, <2>1, Went DEF ReadSystem, Holding, Labels
  <2>3. system[sess[r]] \in SystemTexts \cup {NoSystem} /\ <<>> \in Seq(Message)
    BY <2>2, EmptySeq DEF Types
  <2>4. request = [q \in Runs |-> request[q]]
    BY DEF IInv, Shape
  <2>5. \A q \in Runs : request'[q] # None =>
            /\ request'[q].system \in SystemTexts \cup {NoSystem}
            /\ request'[q].messages \in Seq(Message)
    BY <2>1, <2>3, <2>4 DEF Types
  <2>6. UNCHANGED <<active, system, messages, sess, round, response, usage,
                    toolCalls, appended, answer, trace, reported, calls, phase,
                    status, results>>
    BY <1>3 DEF ReadSystem, sessionVars, toolVars
  <2> QED BY <2>2, <2>5, <2>6 DEF Types
<1>4. CASE ReadMessages(r)
  <2>1. pc[r] = "snapshot" /\ GoTo(r, "provider") /\ Trace(r, "provider_start")
        /\ request' = [request EXCEPT ![r] = [request[r] EXCEPT !.messages = messages[sess[r]]]]
    BY <1>4 DEF ReadMessages
  <2>2. sess[r] \in Sessions /\ pc' \in [Runs -> Labels] /\ trace' \in [Runs -> Seq(Kinds)]
    BY <1>1, <2>1, Went, Recorded DEF Holding, Labels, Kinds
  <2>3. request[r] = [system |-> system[sess[r]], messages |-> <<>>]
    BY <2>1 DEF IInv, Halfway
  <2>4. system[sess[r]] \in SystemTexts \cup {NoSystem} /\ messages[sess[r]] \in Seq(Message)
    BY <2>2 DEF Types
  <2>5. request = [q \in Runs |-> request[q]]
    BY DEF IInv, Shape
  <2>6. request'[r] = [system |-> system[sess[r]], messages |-> messages[sess[r]]]
        /\ \A q \in Runs : q # r => request'[q] = request[q]
    BY <2>1, <2>3, <2>5
  <2>7. ASSUME NEW q \in Runs, request'[q] # None
        PROVE  /\ request'[q].system \in SystemTexts \cup {NoSystem}
               /\ request'[q].messages \in Seq(Message)
    <3>1. CASE q = r
      BY <2>4, <2>6, <3>1
    <3>2. CASE q # r
      <4>1. request'[q] = request[q]
        BY <2>6, <3>2
      <4> QED BY <2>7, <4>1 DEF Types
    <3> QED BY <3>1, <3>2
  <2>8. UNCHANGED <<active, system, messages, sess, round, response, usage,
                    toolCalls, appended, answer, reported, calls, phase,
                    status, results>>
    BY <1>4 DEF ReadMessages, sessionVars, toolVars
  <2> QED BY <2>2, <2>7, <2>8 DEF Types
<1>5. CASE \E resp \in Responses : ProviderReturns(r, resp)
  <2>1. PICK resp \in Responses : ProviderReturns(r, resp)
    BY <1>5
  <2>2. pc' \in [Runs -> Labels]
    BY <2>1, Went DEF ProviderReturns, Labels
  <2>3. response' \in [Runs -> Responses \cup {None}]
    BY <2>1 DEF Types, ProviderReturns
  <2>4. UNCHANGED <<active, system, messages, sess, round, request, usage,
                    toolCalls, appended, answer, trace, reported, calls, phase,
                    status, results>>
    BY <2>1 DEF ProviderReturns, sessionVars, toolVars
  <2> QED BY <2>2, <2>3, <2>4 DEF Types
<1>6. CASE ProviderThrows(r) \/ RejectResponse(r) \/ ExhaustRounds(r)
  <2>1. Trace(r, "error") /\ GoTo(r, "throwing")
    BY <1>6 DEF ProviderThrows, RejectResponse, ExhaustRounds, Throw
  <2>2. pc' \in [Runs -> Labels] /\ trace' \in [Runs -> Seq(Kinds)]
    BY <2>1, Went, Recorded DEF Labels, Kinds
  <2>3. UNCHANGED <<active, system, messages, sess, round, request, response,
                    usage, toolCalls, appended, answer, reported, calls, phase,
                    status, results>>
    BY <1>6 DEF ProviderThrows, RejectResponse, ExhaustRounds, sessionVars, toolVars
  <2> QED BY <2>2, <2>3 DEF Types
<1>7. CASE Count(r)
  <2>1. pc[r] = "response" /\ Acceptable(r) /\ GoTo(r, "counted") /\ Trace(r, "provider_end")
    BY <1>7 DEF Count
  <2>2. pc' \in [Runs -> Labels] /\ trace' \in [Runs -> Seq(Kinds)]
    BY <2>1, Went, Recorded DEF Labels, Kinds
  <2>3. PICK x, total, v : /\ x = response[r].usage /\ total = usage[r]
                           /\ v = AddCount(total, x, round[r] = 1)
    OBVIOUS
  <2>4. x \in Counts /\ total \in Counts /\ reported[r] \in Seq(Counts)
    <3>1. response[r] \in Responses
      BY <2>1 DEF Numbers
    <3>2. x \in Counts
      BY <2>3, <3>1, ClientAssumption DEF Counts
    <3> QED BY <2>3, <3>2 DEF Types
  <2>5. ~Overflows(total, x, round[r] = 1)
    BY <2>1, <2>3 DEF Acceptable
  <2>6. v \in Counts
    BY <2>3, <2>4, <2>5, ClientAssumption DEF Counts, AddCount, Overflows, Wrapped
  <2>7. usage' \in [Runs -> Counts]
    BY <1>7, <2>3, <2>6, Updated DEF Types, Count
  <2>8. reported' \in [Runs -> Seq(Counts)]
    <3>1. Append(reported[r], x) \in Seq(Counts)
      BY <2>4, AppendProperties
    <3>2. reported' = [reported EXCEPT ![r] = Append(reported[r], x)]
      BY <1>7, <2>3 DEF Count
    <3> QED BY <3>1, <3>2, Updated DEF Types
  <2>9. UNCHANGED <<active, system, messages, sess, round, request, response,
                    toolCalls, appended, answer, calls, phase, status, results>>
    BY <1>7 DEF Count, sessionVars, toolVars
  <2> QED BY <2>2, <2>7, <2>8, <2>9 DEF Types
<1>8. CASE AcceptFinal(r)
  <2>1. /\ pc[r] = "counted" /\ AppendResponse(r)
        /\ \E x : answer' = [answer EXCEPT ![r] = x]
        /\ Trace(r, "generation_end") /\ GoTo(r, "returning")
    BY <1>8 DEF AcceptFinal, Return
  <2>2. pc' \in [Runs -> Labels] /\ trace' \in [Runs -> Seq(Kinds)] /\ sess[r] \in Sessions
    BY <1>1, <2>1, Went, Recorded DEF Labels, Kinds, Holding
  <2>3. messages' \in [Sessions -> Seq(Message)]
    BY <2>1, <2>2, ResponseIsMessage, SaidMore DEF AppendResponse
  <2>4. answer' = [q \in Runs |-> answer'[q]]
    BY <2>1 DEF Types
  <2>5. UNCHANGED <<active, system, sess, round, request, response, usage,
                    toolCalls, appended, reported, calls, phase, status, results>>
    BY <1>8 DEF AcceptFinal, AppendResponse, AppendFromClient, toolVars
  <2> QED BY <2>2, <2>3, <2>4, <2>5 DEF Types
<1>9. CASE AcceptContinuation(r)
  <2>1. /\ pc[r] = "counted" /\ AppendResponse(r) /\ GoTo(r, "round")
        /\ round[r] # MaxModelRounds /\ round' = [round EXCEPT ![r] = round[r] + 1]
    BY <1>9 DEF AcceptContinuation
  <2>2. pc' \in [Runs -> Labels] /\ sess[r] \in Sessions
    BY <1>1, <2>1, Went DEF Labels, Holding
  <2>3. messages' \in [Sessions -> Seq(Message)]
    BY <2>1, <2>2, ResponseIsMessage, SaidMore DEF AppendResponse
  <2>4. round[r] + 1 \in 0..MaxModelRounds
    BY <1>1, <2>1
  <2>5. round' \in [Runs -> 0..MaxModelRounds]
    BY <2>1, <2>4, Updated DEF Types
  <2>6. UNCHANGED <<active, system, sess, request, response, usage, toolCalls,
                    appended, answer, trace, reported, calls, phase, status,
                    results>>
    BY <1>9 DEF AcceptContinuation, AppendResponse, AppendFromClient, toolVars
  <2> QED BY <2>2, <2>3, <2>5, <2>6 DEF Types
<1>10. CASE AcceptCalls(r)
  <2>1. /\ pc[r] = "counted" /\ AppendResponse(r) /\ GoTo(r, "tools")
        /\ Tooling!Request(r, ToolsOf(response[r].calls))
    BY <1>10 DEF AcceptCalls
  <2>2. pc' \in [Runs -> Labels] /\ sess[r] \in Sessions
    BY <1>1, <2>1, Went DEF Labels, Holding
  <2>3. messages' \in [Sessions -> Seq(Message)]
    BY <2>1, <2>2, ResponseIsMessage, SaidMore DEF AppendResponse
  <2>4. ToolsOf(response[r].calls) \in Requests \cup {<<>>}
    BY <2>1, ResponseIsMessage
  <2>5. results' \in [Runs -> Seq(Outcome)]
    <3>1. <<>> \in Seq(Outcome)
      BY EmptySeq
    <3>2. results' = [results EXCEPT ![r] = <<>>]
      BY <2>1 DEF Tooling!Request
    <3> QED BY <3>1, <3>2, Updated DEF Types
  <2>6. /\ calls' \in [Runs -> Requests \cup {<<>>}]
        /\ phase' \in [Runs -> {"idle", "running", "returned"}]
    BY <2>1, <2>4, Updated DEF Types, Tooling!Request
  <2>8. status' \in [Runs -> [Indices -> {"waiting", "running"} \cup Outcome]]
    BY <2>1, ToolData DEF Types, Tooling!Request
  <2>7. UNCHANGED <<active, system, sess, round, request, response, usage,
                    toolCalls, appended, answer, trace, reported>>
    BY <1>10 DEF AcceptCalls, AppendResponse, AppendFromClient
  <2> QED BY <2>2, <2>3, <2>5, <2>6, <2>7, <2>8 DEF Types
<1>11. CASE CollectResults(r)
  <2>1. /\ pc[r] = "tools" /\ phase[r] = "returned" /\ GoTo(r, "results")
        /\ toolCalls' = [toolCalls EXCEPT ![r] = toolCalls[r] + Len(results[r])]
        /\ appended' = [appended EXCEPT ![r] = 0]
    BY <1>11 DEF CollectResults
  <2>2. pc' \in [Runs -> Labels]
    BY <2>1, Went DEF Labels
  <2>3. Len(results[r]) = Len(calls[r]) /\ toolCalls[r] + Len(calls[r]) <= MaxCalls
    BY <2>1 DEF Numbers
  <2>4. toolCalls[r] + Len(results[r]) \in 0..MaxCalls /\ 0 \in 0..MaxCalls
    BY <1>1, <2>3, CountsOfCalls
  <2>5. toolCalls' \in [Runs -> 0..MaxCalls] /\ appended' \in [Runs -> 0..MaxCalls]
    BY <2>1, <2>4, Updated DEF Types
  <2>6. UNCHANGED <<active, system, messages, sess, round, request, response,
                    usage, answer, trace, reported, calls, phase, status, results>>
    BY <1>11 DEF CollectResults, sessionVars, toolVars
  <2> QED BY <2>2, <2>5, <2>6 DEF Types
<1>12. CASE AppendResult(r)
  <2>1. PICK k : k = appended[r] + 1
    OBVIOUS
  <2>2. /\ pc[r] = "results" /\ k <= Len(results[r]) /\ pc' = pc
        /\ AppendFromClient(sess[r], ToolResult(r, round[r], k, results[r][k]))
        /\ appended' = [appended EXCEPT ![r] = k]
    BY <1>12, <2>1 DEF AppendResult
  <2>3. k \in 0..MaxCalls
    <3>1. Len(results[r]) = Len(calls[r]) /\ Len(calls[r]) \in 0..MaxCalls
      BY <2>2, CountsOfCalls DEF Numbers
    <3>2. appended[r] \in 0..MaxCalls
      BY DEF Types
    <3> QED BY <1>1, <2>1, <2>2, <3>1, <3>2
  <2>4. sess[r] \in Sessions
    BY <1>1, <2>2 DEF Labels, Holding
  <2>5. messages' \in [Sessions -> Seq(Message)]
    BY <1>1, <2>2, <2>3, <2>4, ToolResultIsMessage, SaidMore
  <2>6. appended' \in [Runs -> 0..MaxCalls]
    BY <2>2, <2>3, Updated DEF Types
  <2>7. UNCHANGED <<active, system, sess, round, request, response, usage,
                    toolCalls, answer, trace, reported, calls, phase, status,
                    results>>
    BY <1>12 DEF AppendResult, AppendFromClient, toolVars
  <2> QED BY <2>2, <2>5, <2>6, <2>7 DEF Types
<1>13. CASE StopOnToolError(r)
  <2>1. /\ \E x : answer' = [answer EXCEPT ![r] = x]
        /\ Trace(r, "generation_end") /\ GoTo(r, "returning")
    BY <1>13 DEF StopOnToolError, Return
  <2>2. pc' \in [Runs -> Labels] /\ trace' \in [Runs -> Seq(Kinds)]
    BY <2>1, Went, Recorded DEF Labels, Kinds
  <2>3. answer' = [q \in Runs |-> answer'[q]]
    BY <2>1 DEF Types
  <2>4. UNCHANGED <<active, system, messages, sess, round, request, response,
                    usage, toolCalls, appended, reported, calls, phase, status,
                    results>>
    BY <1>13 DEF StopOnToolError, sessionVars, toolVars
  <2> QED BY <2>2, <2>3, <2>4 DEF Types
<1>14. CASE NextRound(r)
  <2>1. /\ pc[r] = "results" /\ GoTo(r, "round")
        /\ round' = [round EXCEPT ![r] = round[r] + 1]
    BY <1>14 DEF NextRound, AllAppended
  <2>2. pc' \in [Runs -> Labels]
    BY <2>1, Went DEF Labels
  <2>3. round[r] + 1 \in 0..MaxModelRounds
    BY <1>1, <2>1 DEF Numbers
  <2>4. round' \in [Runs -> 0..MaxModelRounds]
    BY <2>1, <2>3, Updated DEF Types
  <2>5. UNCHANGED <<active, system, messages, sess, request, response, usage,
                    toolCalls, appended, answer, trace, reported, calls, phase,
                    status, results>>
    BY <1>14 DEF NextRound, sessionVars, toolVars
  <2> QED BY <2>2, <2>4, <2>5 DEF Types
<1>15. CASE Finish(r)
  <2>1. pc' \in [Runs -> Labels]
    BY <1>15, Went DEF Finish, Labels
  <2>2. active' \in [Sessions -> BOOLEAN]
    BY <1>15 DEF Types, Finish, Release
  <2>3. UNCHANGED <<system, messages, sess, round, request, response, usage,
                    toolCalls, appended, answer, trace, reported, calls, phase,
                    status, results>>
    BY <1>15 DEF Finish, Release, toolVars
  <2> QED BY <2>1, <2>2, <2>3 DEF Types
<1> QED
  BY <1>2, <1>3, <1>4, <1>5, <1>6, <1>7, <1>8, <1>9, <1>10, <1>11, <1>12,
     <1>13, <1>14, <1>15 DEF RunStep

-----------------------------------------------------------------------------
(***************************************************************************)
(* The counters.                                                           *)
(***************************************************************************)
\* add_count keeps the sum, missing once a response did not report it; a sum
\* that passes the check does not wrap.
LEMMA SumGrows ==
    ASSUME NEW s \in Seq(Counts), NEW x \in Counts, NEW total,
           s # <<>> => total = Sum(s), ~Overflows(total, x, s = <<>>)
    PROVE  Sum(Append(s, x)) = AddCount(total, x, s = <<>>)
<1>1. PICK t, n : t = Append(s, x) /\ n = Len(s)
  OBVIOUS
<1>2. /\ t \in Seq(Counts) /\ n \in Nat /\ Len(t) = n + 1
      /\ \A k \in 1..n : t[k] = s[k]
      /\ t[n + 1] = x /\ 1..(n + 1) = (1..n) \cup {n + 1}
  BY <1>1, Longer
<1>3. DOMAIN s = 1..n /\ DOMAIN t = 1..(n + 1)
  BY <1>1, <1>2, LenProperties
<1>4. Range(t) = Range(s) \cup {x}
  BY <1>2, <1>3 DEF Range
<1>5. CASE x = NoCount
  <2>1. Sum(t) = NoCount
    BY <1>4, <1>5 DEF Sum
  <2> QED BY <1>1, <1>5, <2>1 DEF AddCount
<1>6. CASE x # NoCount /\ NoCount \in Range(s)
  <2>1. s # <<>>
    <3>1. n # 0
      BY <1>2, <1>3, <1>6 DEF Range
    <3> QED BY <1>1, <3>1, EmptySeq
  <2>2. total = NoCount
    BY <1>6, <2>1 DEF Sum
  <2>3. Sum(t) = NoCount
    BY <1>4, <1>6 DEF Sum
  <2> QED BY <1>1, <1>6, <2>1, <2>2, <2>3 DEF AddCount
<1>7. CASE x # NoCount /\ NoCount \notin Range(s)
  <2>1. x \in Nat /\ \A k \in 1..n : s[k] \in Nat
    <3>1. \A k \in 1..n : s[k] \in Counts /\ s[k] # NoCount
      BY <1>1, <1>3, <1>7, ElementOfSeq DEF Range
    <3>2. \A c \in Counts : c # NoCount => c \in Nat
      BY ClientAssumption DEF Counts
    <3> QED BY <1>7, <3>1, <3>2
  <2>2. s \in Seq(Nat)
    <3>1. s \in [1..n -> Nat]
      <4>1. s \in [1..n -> Counts]
        BY <1>1, LenProperties
      <4> QED BY <2>1, <4>1
    <3> QED BY <1>2, <3>1
  <2>3. Total(s) \in Nat /\ Total(t) = Total(s) + x
    BY <1>1, <2>1, <2>2, TotalAppend
  <2>4. Sum(t) = Total(s) + x
    BY <1>4, <1>7, <2>3 DEF Sum
  <2>5. CASE s = <<>>
    <3>1. Total(s) = 0
      BY <2>5, TotalEmpty
    <3>2. Sum(t) = x
      BY <2>1, <2>4, <3>1
    <3> QED BY <1>1, <1>7, <2>5, <3>2 DEF AddCount
  <2>6. CASE s # <<>>
    <3>1. total = Total(s) /\ total # NoCount
      BY <1>7, <2>3, <2>6, ClientAssumption DEF Sum
    <3>2. ~(x > CountMax - total)
      BY <1>7, <2>6, <3>1 DEF Overflows
    <3>3. Wrapped(total + x) = total + x
      BY <2>1, <2>3, <3>1, <3>2, ClientAssumption DEF Wrapped
    <3> QED BY <1>1, <1>7, <2>4, <2>6, <3>1, <3>3 DEF AddCount
  <2> QED BY <2>5, <2>6
<1> QED BY <1>5, <1>6, <1>7

LEMMA RunStepNumbers ==
    ASSUME Types, NEW r \in Runs, Numbers(r), RunStep(r)
    PROVE  Numbers(r)'
<1>1. /\ round[r] \in Nat /\ Len(reported[r]) \in Nat /\ toolCalls[r] \in Nat
      /\ Len(results[r]) \in Nat /\ appended[r] \in Nat /\ Len(calls[r]) \in Nat
      /\ MaxModelRounds \in Nat \ {0} /\ MaxCalls \in Nat
      /\ reported[r] \in Seq(Counts)
  <2>1. reported[r] \in Seq(Counts) /\ round[r] \in Nat /\ toolCalls[r] \in Nat
        /\ appended[r] \in Nat
    BY TranscriptAssumption, LimitsAssumption DEF Types
  <2> QED BY <2>1, LenProperties, CountsOfCalls, TranscriptAssumption, LimitsAssumption
<1>2. CASE AppendInput(r)
  <2>1. pc[r] = "leased" /\ pc'[r] = "round" /\ round'[r] = 1
    BY <1>2, Went DEF AppendInput, Types, Labels
  <2>2. UNCHANGED <<response, usage, toolCalls, reported, calls, phase, results,
                    answer, appended>>
    BY <1>2 DEF AppendInput, toolVars
  <2>3. reported[r] = <<>> /\ Len(reported[r]) = 0
    BY <2>1, EmptySeq DEF Numbers
  <2> QED BY <2>1, <2>2, <2>3 DEF Numbers, Unanswered, Accounted, Outside
<1>3. CASE ReadSystem(r) \/ ReadMessages(r)
  <2>1. PICK l \in {"snapshot", "provider"} : GoTo(r, l)
    BY <1>3 DEF ReadSystem, ReadMessages
  <2>2. pc[r] \in Unanswered /\ pc'[r] = l
    BY <1>3, <2>1, Went DEF ReadSystem, ReadMessages, Labels, Unanswered
  <2>3. UNCHANGED <<round, response, usage, toolCalls, reported, calls, phase,
                    results, answer, appended>>
    BY <1>3 DEF ReadSystem, ReadMessages, toolVars
  <2> QED BY <2>2, <2>3 DEF Numbers, Unanswered, Accounted, Outside
<1>4. CASE \E resp \in Responses : ProviderReturns(r, resp)
  <2>1. PICK resp \in Responses : ProviderReturns(r, resp)
    BY <1>4
  <2>2. pc[r] = "provider" /\ pc'[r] = "response" /\ response'[r] = resp
    BY <2>1, Went, Functional DEF ProviderReturns, Labels
  <2>3. UNCHANGED <<round, usage, toolCalls, reported, calls, phase, results,
                    answer, appended>>
    BY <2>1 DEF ProviderReturns, toolVars
  <2> QED BY <2>2, <2>3 DEF Numbers, Unanswered, Accounted, Outside
<1>5. CASE ProviderThrows(r) \/ RejectResponse(r) \/ ExhaustRounds(r)
  <2>1. pc'[r] = "throwing"
    BY <1>5, Went DEF ProviderThrows, RejectResponse, ExhaustRounds, Throw, Labels
  <2>2. UNCHANGED <<round, response, usage, toolCalls, reported, calls, phase,
                    results, answer, appended>>
    BY <1>5 DEF ProviderThrows, RejectResponse, ExhaustRounds, toolVars
  <2> QED BY <2>1, <2>2 DEF Numbers, Unanswered, Accounted, Outside
<1>6. CASE Count(r)
  <2>1. pc[r] = "response" /\ Acceptable(r) /\ pc'[r] = "counted"
    BY <1>6, Went DEF Count, Labels
  <2>2. PICK x : x = response[r].usage
    OBVIOUS
  <2>3. usage'[r] = AddCount(usage[r], x, round[r] = 1)
        /\ reported'[r] = Append(reported[r], x)
    BY <1>6, <2>2, Functional DEF Count
  <2>4. response[r] \in Responses /\ round[r] = Len(reported[r]) + 1
        /\ (reported[r] # <<>> => usage[r] = Sum(reported[r]))
    BY <2>1 DEF Numbers, Unanswered
  <2>5. x \in Counts
    BY <2>2, <2>4, ClientAssumption DEF Counts
  <2>6. (round[r] = 1) <=> (reported[r] = <<>>)
    BY <1>1, <2>4, EmptySeq
  <2>7. usage'[r] = Sum(reported'[r])
    <3>1. PICK s, u : s = reported[r] /\ u = usage[r]
      OBVIOUS
    <3>2. s \in Seq(Counts) /\ (s # <<>> => u = Sum(s))
      BY <1>1, <2>4, <3>1
    <3>3. ~Overflows(u, x, s = <<>>)
      BY <2>1, <2>2, <2>6, <3>1 DEF Acceptable, Overflows
    <3>4. Sum(Append(s, x)) = AddCount(u, x, s = <<>>)
      BY <2>5, <3>2, <3>3, SumGrows
    <3>5. AddCount(u, x, round[r] = 1) = AddCount(u, x, s = <<>>)
      BY <2>6, <3>1 DEF AddCount
    <3> QED BY <2>3, <3>1, <3>4, <3>5
  <2>8. Len(reported'[r]) = Len(reported[r]) + 1 /\ reported'[r] # <<>>
    BY <1>1, <2>3, <2>5, AppendProperties
  <2>9. toolCalls[r] + Len(response[r].calls) <= MaxCalls
    BY <2>1 DEF Acceptable, WithinCallLimit
  <2>10. UNCHANGED <<round, response, toolCalls, calls, phase, results, answer,
                     appended>>
    BY <1>6 DEF Count, toolVars
  <2> QED BY <2>1, <2>4, <2>7, <2>8, <2>9, <2>10
             DEF Numbers, Unanswered, Accounted, Outside
<1>7. CASE AcceptFinal(r)
  <2>1. pc[r] = "counted" /\ pc'[r] = "returning"
    BY <1>7, Went DEF AcceptFinal, Return, Labels
  <2>2. answer'[r] = Answer(r, toolCalls[r], "final")
    BY <1>7, Functional DEF AcceptFinal, Return
  <2>3. UNCHANGED <<round, response, usage, toolCalls, reported, calls, phase,
                    results, appended>>
    BY <1>7 DEF AcceptFinal, toolVars
  <2> QED BY <2>1, <2>2, <2>3 DEF Numbers, Unanswered, Accounted, Outside, Answer
<1>8. CASE StopOnToolError(r)
  <2>1. pc[r] = "results" /\ pc'[r] = "returning"
    BY <1>8, Went DEF StopOnToolError, AllAppended, Return, Labels
  <2>2. answer'[r] = Answer(r, toolCalls[r], "error")
    BY <1>8, Functional DEF StopOnToolError, Return
  <2>3. UNCHANGED <<round, response, usage, toolCalls, reported, calls, phase,
                    results, appended>>
    BY <1>8 DEF StopOnToolError, toolVars
  <2> QED BY <2>1, <2>2, <2>3 DEF Numbers, Unanswered, Accounted, Outside, Answer
<1>9. CASE AcceptContinuation(r) \/ NextRound(r)
  <2>1. pc[r] \in {"counted", "results"} /\ pc'[r] = "round" /\ round'[r] = round[r] + 1
    BY <1>9, Went, Functional DEF AcceptContinuation, NextRound, AllAppended, Labels
  <2>2. UNCHANGED <<response, usage, toolCalls, reported, calls, phase, results,
                    answer, appended>>
    BY <1>9 DEF AcceptContinuation, NextRound, toolVars
  <2> QED BY <2>1, <2>2 DEF Numbers, Unanswered, Accounted, Outside
<1>10. CASE AcceptCalls(r)
  <2>1. pc[r] = "counted" /\ pc'[r] = "tools" /\ round[r] # MaxModelRounds
    BY <1>10, Went DEF AcceptCalls, Labels
  <2>2. calls'[r] = ToolsOf(response[r].calls) /\ phase'[r] = "running"
    BY <1>10, Functional DEF AcceptCalls, Tooling!Request
  <2>3. UNCHANGED <<round, response, usage, toolCalls, reported, answer, appended>>
    BY <1>10 DEF AcceptCalls
  <2>4. round[r] < MaxModelRounds
    <3>1. round[r] \in 0..MaxModelRounds
      BY DEF Types
    <3> QED BY <1>1, <2>1, <3>1
  <2>5. toolCalls[r] + Len(calls'[r]) <= MaxCalls
    <3>1. response[r] \in Responses /\ toolCalls[r] + Len(response[r].calls) <= MaxCalls
      BY <2>1 DEF Numbers
    <3>2. Len(calls'[r]) = Len(response[r].calls)
      <4>1. Len(response[r].calls) <= MaxCalls
        BY <2>1, ResponseIsMessage
      <4> QED BY <2>2, <3>1, <4>1, CallsOfResponse
    <3> QED BY <3>1, <3>2
  <2> QED BY <2>1, <2>2, <2>3, <2>4, <2>5 DEF Numbers, Unanswered, Accounted, Outside
<1>11. CASE CollectResults(r)
  <2>1. /\ pc[r] = "tools" /\ pc'[r] = "results" /\ phase[r] = "returned"
        /\ toolCalls'[r] = toolCalls[r] + Len(results[r]) /\ appended'[r] = 0
    BY <1>11, Went, Functional DEF CollectResults, Labels
  <2>2. UNCHANGED <<round, response, usage, reported, calls, phase, results, answer>>
    BY <1>11 DEF CollectResults, toolVars
  <2> QED BY <1>1, <2>1, <2>2 DEF Numbers, Unanswered, Accounted, Outside
<1>12. CASE AppendResult(r)
  <2>1. /\ pc[r] = "results" /\ pc' = pc
        /\ appended'[r] = appended[r] + 1 /\ appended[r] + 1 <= Len(results[r])
    BY <1>12, Functional DEF AppendResult
  <2>2. UNCHANGED <<round, response, usage, toolCalls, reported, calls, phase,
                    results, answer>>
    BY <1>12 DEF AppendResult, toolVars
  <2> QED BY <2>1, <2>2 DEF Numbers, Unanswered, Accounted, Outside
<1>13. CASE Finish(r)
  <2>1. pc'[r] \in {"returned", "threw"}
    BY <1>13, Went DEF Finish, Labels
  <2>2. UNCHANGED <<round, response, usage, toolCalls, reported, calls, phase,
                    results, answer, appended>>
    BY <1>13 DEF Finish, toolVars
  <2> QED BY <2>1, <2>2 DEF Numbers, Unanswered, Accounted, Outside
<1> QED
  BY <1>2, <1>3, <1>4, <1>5, <1>6, <1>7, <1>8, <1>9, <1>10, <1>11, <1>12, <1>13
     DEF RunStep

-----------------------------------------------------------------------------
(***************************************************************************)
(* Types and counters in the other steps.                                  *)
(***************************************************************************)
LEMMA StartTypes ==
    ASSUME Types, NEW r \in Runs, NEW s \in Sessions, Start(r, s)
    PROVE  Types'
<1>1. /\ GoTo(r, "leased") /\ Trace(r, "generation_start")
      /\ sess' = [sess EXCEPT ![r] = s]
      /\ active' = [active EXCEPT ![s] = TRUE]
  BY DEF Start, Acquire
<1>2. pc' \in [Runs -> Labels] /\ trace' \in [Runs -> Seq(Kinds)]
  BY <1>1, Went, Recorded DEF Labels, Kinds
<1>3. sess' \in [Runs -> Sessions \cup {None}]
  BY <1>1 DEF Types
<1>4. active' \in [Sessions -> BOOLEAN]
  BY <1>1 DEF Types
<1>5. UNCHANGED <<system, messages, round, request, response, usage, toolCalls,
                  appended, answer, reported, calls, phase, status, results>>
  BY DEF Start, Acquire, toolVars
<1> QED BY <1>2, <1>3, <1>4, <1>5 DEF Types

LEMMA StartNumbers ==
    ASSUME Types, NEW r \in Runs, NEW s \in Sessions, Start(r, s), Numbers(r)
    PROVE  Numbers(r)'
<1>1. pc[r] = "idle" /\ pc'[r] = "leased"
  BY Went DEF Start, Labels
<1>2. UNCHANGED <<round, response, usage, toolCalls, reported, calls, phase,
                  results, answer, appended>>
  BY DEF Start, toolVars
<1> QED BY <1>1, <1>2 DEF Numbers, Unanswered, Accounted, Outside

LEMMA StartRefusedTypes ==
    ASSUME Types, NEW r \in Runs, NEW s \in Sessions, StartRefused(r, s)
    PROVE  Types'
<1>1. pc' \in [Runs -> Labels]
  BY Went DEF StartRefused, Labels
<1>2. UNCHANGED <<active, system, messages, sess, round, request, response,
                  usage, toolCalls, appended, answer, trace, reported, calls,
                  phase, status, results>>
  BY DEF StartRefused, sessionVars, toolVars
<1> QED BY <1>1, <1>2 DEF Types

LEMMA StartRefusedNumbers ==
    ASSUME Types, NEW r \in Runs, NEW s \in Sessions, StartRefused(r, s),
           Numbers(r)
    PROVE  Numbers(r)'
<1>1. pc[r] = "idle" /\ pc'[r] = "refused"
  BY Went DEF StartRefused, Labels
<1>2. UNCHANGED <<round, response, usage, toolCalls, reported, calls, phase,
                  results, answer, appended>>
  BY DEF StartRefused, toolVars
<1> QED BY <1>1, <1>2 DEF Numbers, Unanswered, Accounted, Outside

\* A call is one of the numbered ones, so its status is a table entry.
LEMMA NumberedCalls ==
    ASSUME Types, NEW r \in Runs
    PROVE  Tooling!Numbered(r) \subseteq Indices
<1>1. Len(calls[r]) \in 0..MaxCalls
  BY CountsOfCalls
<1>2. \A i \in 1..Len(calls[r]) : i \in 1..MaxCalls
  BY <1>1, LimitsAssumption
<1> QED BY <1>2 DEF Tooling!Numbered, Indices

LEMMA ReturnedResults ==
    ASSUME Types, NEW r \in Runs, Tooling!Return(r)
    PROVE  /\ results' \in [Runs -> Seq(Outcome)]
           /\ results'[r] \in Seq(Outcome)
           /\ Len(results'[r]) = Len(calls[r])
<1>1. PICK n, f : n = Len(calls[r]) /\ f = [i \in 1..n |-> status[r][i]]
  OBVIOUS
<1>2. n \in Nat
  BY <1>1, CountsOfCalls, LimitsAssumption
<1>3. \A i \in 1..n : status[r][i] \in Outcome
  BY <1>1, ToolData
     DEF Tooling!Return, Tooling!Finished, Tooling!Numbered
<1>4. f \in [1..n -> Outcome]
  BY <1>1, <1>3
<1>5. f \in Seq(Outcome) /\ Len(f) = n
  BY <1>2, <1>4
<1>6. results' = [results EXCEPT ![r] = f]
  BY <1>1 DEF Tooling!Return, Tooling!Numbered
<1>7. results \in [Runs -> Seq(Outcome)]
  BY DEF Types
<1> QED BY <1>1, <1>5, <1>6, <1>7

LEMMA ToolStepTypes ==
    ASSUME Types, NEW r \in Runs, ToolStep(r)
    PROVE  Types'
<1>1. UNCHANGED <<active, system, messages, pc, sess, round, request, response,
                  usage, toolCalls, appended, answer, trace, reported>>
  BY DEF ToolStep, sessionVars, clientVars
<1>2. CASE Tooling!Return(r)
  <2>1. results' \in [Runs -> Seq(Outcome)]
    BY <1>2, ReturnedResults
  <2>2. phase' \in [Runs -> {"idle", "running", "returned"}]
        /\ calls' = calls /\ status' = status
    BY <1>2 DEF Tooling!Return, Types
  <2> QED BY <1>1, <2>1, <2>2 DEF Types
<1>3. CASE \E i \in Tooling!Numbered(r) :
              Tooling!Refuse(r, i) \/ Tooling!Begin(r, i)
                \/ \E o \in Tooling!Outcome : Tooling!End(r, i, o)
  <2>1. PICK i \in Indices :
              Tooling!Refuse(r, i) \/ Tooling!Begin(r, i)
                \/ \E o \in Outcome : Tooling!End(r, i, o)
    BY <1>3, NumberedCalls, ToolData
  <2>2. PICK v \in {"waiting", "running"} \cup Outcome :
              status' = [status EXCEPT ![r][i] = v]
    BY <2>1 DEF Tooling!Refuse, Tooling!Begin, Tooling!End, Outcome
  <2>3. status \in [Runs -> [Indices -> {"waiting", "running"} \cup Outcome]]
    BY DEF Types
  <2>4. [status[r] EXCEPT ![i] = v] \in [Indices -> {"waiting", "running"} \cup Outcome]
    BY <2>3
  <2>5. status' \in [Runs -> [Indices -> {"waiting", "running"} \cup Outcome]]
    BY <2>2, <2>3, <2>4
  <2>6. UNCHANGED <<calls, phase, results>>
    BY <2>1 DEF Tooling!Refuse, Tooling!Begin, Tooling!End
  <2> QED BY <1>1, <2>5, <2>6 DEF Types
<1> QED BY <1>2, <1>3 DEF ToolStep, Tooling!Progress

LEMMA ToolStepNumbers ==
    ASSUME Types, NEW r \in Runs, ToolStep(r), Numbers(r)
    PROVE  Numbers(r)'
<1>1. UNCHANGED <<pc, round, response, usage, toolCalls, appended, answer,
                  reported>>
  BY DEF ToolStep, clientVars
<1>2. CASE Tooling!Return(r)
  <2>1. phase[r] = "running" /\ calls' = calls
        /\ Len(results'[r]) = Len(calls[r])
    BY <1>2, ReturnedResults DEF Tooling!Return
  <2>2. pc[r] # "results"
    BY <2>1 DEF Numbers
  <2> QED BY <1>1, <2>1, <2>2 DEF Numbers
<1>3. CASE \E i \in Tooling!Numbered(r) :
              Tooling!Refuse(r, i) \/ Tooling!Begin(r, i)
                \/ \E o \in Tooling!Outcome : Tooling!End(r, i, o)
  <2>1. UNCHANGED <<calls, phase, results>>
    BY <1>3 DEF Tooling!Refuse, Tooling!Begin, Tooling!End
  <2> QED BY <1>1, <2>1 DEF Numbers
<1> QED BY <1>2, <1>3 DEF ToolStep, Tooling!Progress

LEMMA ImportedIsMessage == Imported \in Message /\ Imported.by \notin Runs
<1>1. 0 \in 0..MaxModelRounds /\ 0 \in 0..MaxCalls
  BY TranscriptAssumption, LimitsAssumption
<1> QED BY <1>1, TranscriptAssumption DEF Imported, Blank, Message

\* What an application thread does to a session.
LEMMA EditDoes ==
    ASSUME Types, NEW s \in Sessions, EditStep(s)
    PROVE  /\ ~active[s] /\ active' = active
           /\ system' \in [Sessions -> SystemTexts \cup {NoSystem}]
           /\ messages' \in [Sessions -> Seq(Message)]
           /\ \/ messages' = messages
              \/ messages' = [messages EXCEPT ![s] = Append(messages[s], Imported)]
              \/ messages' = [messages EXCEPT ![s] = <<>>]
           /\ UNCHANGED <<clientVars, toolVars>>
<1>1. UNCHANGED <<clientVars, toolVars>>
  BY DEF EditStep
<1>2. /\ messages \in [Sessions -> Seq(Message)] /\ messages[s] \in Seq(Message)
      /\ system \in [Sessions -> SystemTexts \cup {NoSystem}]
  BY DEF Types
<1>3. CASE \E text \in SystemTexts : SetSystem(s, text)
  BY <1>1, <1>2, <1>3 DEF SetSystem, RequireIdle
<1>4. CASE PublicAppend(s)
  <2>1. Append(messages[s], Imported) \in Seq(Message)
    BY <1>2, ImportedIsMessage, AppendProperties
  <2> QED BY <1>1, <1>2, <1>4, <2>1 DEF PublicAppend, RequireIdle
<1>5. CASE ClearMessages(s)
  <2>1. <<>> \in Seq(Message)
    BY EmptySeq
  <2> QED BY <1>1, <1>2, <1>5, <2>1 DEF ClearMessages, RequireIdle
<1> QED BY <1>3, <1>4, <1>5 DEF EditStep, PublicEdit

LEMMA EditTypes ==
    ASSUME Types, NEW s \in Sessions, EditStep(s)
    PROVE  Types'
  BY EditDoes DEF Types, clientVars, toolVars

LEMMA EditUntouched ==
    ASSUME Types, NEW s \in Sessions, EditStep(s), NEW q \in Runs
    PROVE  Untouched(q)
  BY EditDoes DEF Untouched, clientVars, toolVars

-----------------------------------------------------------------------------
(***************************************************************************)
(* The traces.                                                             *)
(***************************************************************************)
LEMMA EventsAreCounted ==
    ASSUME NEW t \in Seq(Kinds), NEW y
    PROVE  /\ Len(t) \in Nat /\ IsFiniteSet({k \in 1..Len(t) : t[k] = y})
           /\ Occurrences(t, y) \in Nat
<1>1. Len(t) \in Nat
  BY LenProperties
<1>2. IsFiniteSet({k \in 1..Len(t) : t[k] = y})
  <2>1. IsFiniteSet(1..Len(t))
    BY <1>1, FS_Interval
  <2>2. {k \in 1..Len(t) : t[k] = y} \subseteq 1..Len(t)
    OBVIOUS
  <2> QED BY <2>1, <2>2, FS_Subset
<1> QED BY <1>1, <1>2, FS_CardinalityType DEF Occurrences

\* u is t and the event x more.
EventAdded(t, x, u) ==
    /\ u # <<>> /\ u[Len(u)] = x
    /\ t # <<>> => u[1] = t[1]
    /\ t = <<>> => u[1] = x
    /\ Occurrences(u, x) = Occurrences(t, x) + 1
    /\ \A y \in Kinds : y # x => Occurrences(u, y) = Occurrences(t, y)

LEMMA OneMoreEvent ==
    ASSUME NEW t \in Seq(Kinds), NEW x \in Kinds
    PROVE  EventAdded(t, x, Append(t, x))
<1> PICK u : u = Append(t, x)
  OBVIOUS
<1>1. PICK l : l = Len(t)
  OBVIOUS
<1>2. /\ u \in Seq(Kinds) /\ l \in Nat /\ Len(u) = l + 1
      /\ \A k \in 1..l : u[k] = t[k]
      /\ u[l + 1] = x /\ 1..(l + 1) = (1..l) \cup {l + 1} /\ l + 1 \notin 1..l
  BY <1>1, Longer
<1>3. u # <<>> /\ (t = <<>> <=> l = 0)
  BY <1>1, <1>2, EmptySeq
<1>4. t # <<>> => u[1] = t[1]
  BY <1>2, <1>3
<1>5. t = <<>> => u[1] = x
  BY <1>2, <1>3
<1>6. Occurrences(u, x) = Occurrences(t, x) + 1
  <2>1. PICK T : T = {k \in 1..l : t[k] = x}
    OBVIOUS
  <2>2. {k \in 1..(l + 1) : u[k] = x} = T \cup {l + 1} /\ l + 1 \notin T
    BY <1>2, <2>1
  <2>3. IsFiniteSet(T)
    BY <1>1, <2>1, EventsAreCounted
  <2>4. Cardinality(T \cup {l + 1}) = Cardinality(T) + 1
    BY <2>2, <2>3, FS_AddElement
  <2>5. Occurrences(t, x) = Cardinality(T)
    BY <1>1, <2>1 DEF Occurrences
  <2>6. Occurrences(u, x) = Cardinality(T \cup {l + 1})
    BY <1>2, <2>2 DEF Occurrences
  <2> QED BY <2>4, <2>5, <2>6
<1>7. ASSUME NEW y \in Kinds, y # x PROVE Occurrences(u, y) = Occurrences(t, y)
  <2>1. {k \in 1..(l + 1) : u[k] = y} = {k \in 1..l : t[k] = y}
    BY <1>2, <1>7
  <2> QED BY <1>1, <1>2, <2>1 DEF Occurrences
<1> QED BY <1>2, <1>3, <1>4, <1>5, <1>6, <1>7 DEF EventAdded

LEMMA NoEventYet == \A y : Occurrences(<<>>, y) = 0
<1>1. Len(<<>>) = 0
  BY EmptySeq
<1>2. ASSUME NEW y PROVE Occurrences(<<>>, y) = 0
  <2>1. {k \in 1..0 : <<>>[k] = y} = {}
    OBVIOUS
  <2> QED BY <1>1, <2>1, FS_EmptySet DEF Occurrences
<1> QED BY <1>2

LEMMA StartEvents ==
    ASSUME Types, NEW r \in Runs, NEW s \in Sessions, Start(r, s), Numbers(r),
           Events(r)
    PROVE  Events(r)'
<1>1. pc[r] = "idle" /\ pc'[r] = "leased" /\ trace[r] = <<>>
  BY Went DEF Start, Labels, Events, Outside
<1>2. PICK u : u = Append(<<>>, "generation_start")
  OBVIOUS
<1>3. trace'[r] = u
  BY <1>1, <1>2, Recorded DEF Start, Kinds
<1>4. reported'[r] = <<>> /\ Len(reported'[r]) = 0
  BY <1>1, EmptySeq DEF Start, Numbers, Outside
<1>5. <<>> \in Seq(Kinds) /\ "generation_start" \in Kinds
  BY EmptySeq DEF Kinds
<1>7. EventAdded(<<>>, "generation_start", u)
  BY <1>2, <1>5, OneMoreEvent
<1>6. /\ u # <<>> /\ u[1] = "generation_start"
      /\ Occurrences(u, "provider_end") = 0 /\ Occurrences(u, "generation_end") = 0
      /\ Occurrences(u, "error") = 0 /\ Occurrences(u, "provider_start") = 0
  BY <1>7, NoEventYet DEF EventAdded, Kinds
<1> QED BY <1>1, <1>3, <1>4, <1>6 DEF Events, Outside, Holding, Labels

LEMMA StartRefusedEvents ==
    ASSUME Types, NEW r \in Runs, NEW s \in Sessions, StartRefused(r, s),
           Events(r)
    PROVE  Events(r)'
<1>1. pc[r] = "idle" /\ pc'[r] = "refused" /\ trace' = trace
  BY Went DEF StartRefused, Labels
<1> QED BY <1>1 DEF Events, Outside, Holding, Labels

LEMMA ToolStepEvents ==
    ASSUME NEW r \in Runs, ToolStep(r), Events(r)
    PROVE  Events(r)'
  BY DEF ToolStep, clientVars, Events

\* A step inside generate that records nothing.
LEMMA SilentEvents ==
    ASSUME NEW r \in Runs, Events(r),
           trace'[r] = trace[r], reported'[r] = reported[r],
           \/ /\ pc[r] \in Holding \ {"returning", "throwing", "provider", "response"}
              /\ pc'[r] \in Holding \ {"returning", "throwing", "provider", "response"}
           \/ pc[r] = "provider" /\ pc'[r] = "response"
           \/ pc[r] = "returning" /\ pc'[r] = "returned"
           \/ pc[r] = "throwing" /\ pc'[r] = "threw"
    PROVE  Events(r)'
  BY DEF Events, Outside, Holding, Labels

LEMMA RunStepEvents ==
    ASSUME Types, NEW r \in Runs, RunStep(r), Numbers(r), Events(r)
    PROVE  Events(r)'
<1>1. /\ trace[r] \in Seq(Kinds) /\ reported[r] \in Seq(Counts)
      /\ Len(reported[r]) \in Nat
      /\ \A y : Occurrences(trace[r], y) \in Nat
  <2>1. trace[r] \in Seq(Kinds) /\ reported[r] \in Seq(Counts)
    BY DEF Types
  <2>2. \A y : Occurrences(trace[r], y) \in Nat
    BY <2>1, EventsAreCounted
  <2> QED BY <2>1, <2>2, LenProperties
<1>2. CASE AppendInput(r) \/ ReadSystem(r) \/ CollectResults(r) \/ NextRound(r)
  <2>1. pc[r] \in {"leased", "round", "tools", "results"}
        /\ pc'[r] \in {"round", "snapshot", "results"}
    BY <1>2, Went
       DEF AppendInput, ReadSystem, CollectResults, NextRound, AllAppended, Labels
  <2>2. trace' = trace /\ reported' = reported
    BY <1>2 DEF AppendInput, ReadSystem, CollectResults, NextRound
  <2> QED BY <2>1, <2>2, SilentEvents DEF Holding, Labels
<1>3. CASE AcceptContinuation(r) \/ AcceptCalls(r) \/ AppendResult(r)
  <2>1. pc[r] \in {"counted", "results"} /\ pc'[r] \in {"round", "tools", "results"}
    BY <1>3, Went DEF AcceptContinuation, AcceptCalls, AppendResult, Labels
  <2>2. trace' = trace /\ reported' = reported
    BY <1>3 DEF AcceptContinuation, AcceptCalls, AppendResult
  <2> QED BY <2>1, <2>2, SilentEvents DEF Holding, Labels
<1>4. CASE \E resp \in Responses : ProviderReturns(r, resp)
  <2>1. pc[r] = "provider" /\ pc'[r] = "response"
    BY <1>4, Went DEF ProviderReturns, Labels
  <2>2. trace' = trace /\ reported' = reported
    BY <1>4 DEF ProviderReturns
  <2> QED BY <2>1, <2>2, SilentEvents
<1>5. CASE Finish(r)
  <2>1. \/ pc[r] = "returning" /\ pc'[r] = "returned"
        \/ pc[r] = "throwing" /\ pc'[r] = "threw"
    BY <1>5, Went DEF Finish, Labels
  <2>2. trace' = trace /\ reported' = reported
    BY <1>5 DEF Finish
  <2> QED BY <2>1, <2>2, SilentEvents
<1>6. CASE ReadMessages(r)
  <2>1. pc[r] = "snapshot" /\ pc'[r] = "provider" /\ reported' = reported
    BY <1>6, Went DEF ReadMessages, Labels
  <2>2. "provider_start" \in Kinds /\ Trace(r, "provider_start")
    BY <1>6 DEF ReadMessages, Kinds
  <2>3. PICK u : u = Append(trace[r], "provider_start")
    OBVIOUS
  <2>4. trace'[r] = u
    BY <2>2, <2>3, Recorded
  <2>7. EventAdded(trace[r], "provider_start", u)
    BY <1>1, <2>2, <2>3, OneMoreEvent
  <2>5. /\ u # <<>> /\ (trace[r] # <<>> => u[1] = trace[r][1])
        /\ Occurrences(u, "provider_start") = Occurrences(trace[r], "provider_start") + 1
        /\ Occurrences(u, "provider_end") = Occurrences(trace[r], "provider_end")
        /\ Occurrences(u, "generation_end") = Occurrences(trace[r], "generation_end")
        /\ Occurrences(u, "error") = Occurrences(trace[r], "error")
    BY <2>7 DEF EventAdded, Kinds
  <2> QED BY <1>1, <2>1, <2>4, <2>5 DEF Events, Outside, Holding, Labels
<1>7. CASE Count(r)
  <2>1. pc[r] = "response" /\ pc'[r] = "counted"
        /\ reported' = [reported EXCEPT ![r] = Append(reported[r], response[r].usage)]
    BY <1>7, Went DEF Count, Labels
  <2>2. "provider_end" \in Kinds /\ Trace(r, "provider_end")
    BY <1>7 DEF Count, Kinds
  <2>3. PICK u : u = Append(trace[r], "provider_end")
    OBVIOUS
  <2>4. trace'[r] = u
    BY <2>2, <2>3, Recorded
  <2>7. EventAdded(trace[r], "provider_end", u)
    BY <1>1, <2>2, <2>3, OneMoreEvent
  <2>5. /\ u # <<>> /\ (trace[r] # <<>> => u[1] = trace[r][1])
        /\ Occurrences(u, "provider_end") = Occurrences(trace[r], "provider_end") + 1
        /\ Occurrences(u, "provider_start") = Occurrences(trace[r], "provider_start")
        /\ Occurrences(u, "generation_end") = Occurrences(trace[r], "generation_end")
        /\ Occurrences(u, "error") = Occurrences(trace[r], "error")
    BY <2>7 DEF EventAdded, Kinds
  <2>6. Len(reported'[r]) = Len(reported[r]) + 1
    <3>1. response[r].usage \in Counts
      BY <2>1, ClientAssumption DEF Numbers, Counts
    <3>2. reported'[r] = Append(reported[r], response[r].usage)
      BY <2>1, Functional
    <3> QED BY <1>1, <3>1, <3>2, AppendProperties
  <2> QED BY <1>1, <2>1, <2>4, <2>5, <2>6 DEF Events, Outside, Holding, Labels
<1>8. CASE AcceptFinal(r) \/ StopOnToolError(r)
  <2>1. pc[r] \in {"counted", "results"} /\ pc'[r] = "returning" /\ reported' = reported
    BY <1>8, Went DEF AcceptFinal, StopOnToolError, AllAppended, Return, Labels
  <2>2. "generation_end" \in Kinds /\ Trace(r, "generation_end")
    BY <1>8 DEF AcceptFinal, StopOnToolError, Return, Kinds
  <2>3. PICK u : u = Append(trace[r], "generation_end")
    OBVIOUS
  <2>4. trace'[r] = u
    BY <2>2, <2>3, Recorded
  <2>7. EventAdded(trace[r], "generation_end", u)
    BY <1>1, <2>2, <2>3, OneMoreEvent
  <2>5. /\ u # <<>> /\ (trace[r] # <<>> => u[1] = trace[r][1])
        /\ u[Len(u)] = "generation_end"
        /\ Occurrences(u, "generation_end") = Occurrences(trace[r], "generation_end") + 1
        /\ Occurrences(u, "provider_start") = Occurrences(trace[r], "provider_start")
        /\ Occurrences(u, "provider_end") = Occurrences(trace[r], "provider_end")
        /\ Occurrences(u, "error") = Occurrences(trace[r], "error")
    BY <2>7 DEF EventAdded, Kinds
  <2>6. /\ trace[r] # <<>> /\ trace[r][1] = "generation_start"
        /\ Occurrences(trace[r], "provider_end") = Len(reported[r])
        /\ Occurrences(trace[r], "provider_start") = Len(reported[r])
        /\ Occurrences(trace[r], "generation_end") = 0
        /\ Occurrences(trace[r], "error") = 0
    <3>1. /\ pc[r] \notin Outside
          /\ pc[r] \in Holding \ {"returning", "throwing"}
      BY <2>1 DEF Outside, Holding, Labels
    <3>2. PICK t, n : t = trace[r] /\ n = Len(reported[r])
      OBVIOUS
    <3>3. /\ t # <<>> /\ t[1] = "generation_start"
          /\ Occurrences(t, "provider_end") = n
          /\ Occurrences(t, "generation_end") = 0
          /\ Occurrences(t, "error") = 0
          /\ Occurrences(t, "provider_start") =
               n + (IF pc[r] \in {"provider", "response"} THEN 1 ELSE 0)
      BY <3>1, <3>2 DEF Events
    <3>4. n \in Nat /\ pc[r] \notin {"provider", "response"}
      BY <1>1, <2>1, <3>2
    <3>5. Occurrences(t, "provider_start") = n
      BY <3>3, <3>4
    <3> QED BY <3>2, <3>3, <3>5
  <2>8. /\ trace'[r] # <<>> /\ trace'[r][1] = "generation_start"
        /\ trace'[r][Len(trace'[r])] = "generation_end"
        /\ Occurrences(trace'[r], "provider_end") = Len(reported'[r])
        /\ Occurrences(trace'[r], "provider_start") = Len(reported'[r])
        /\ Occurrences(trace'[r], "generation_end") = 1
        /\ Occurrences(trace'[r], "error") = 0
    BY <1>1, <2>1, <2>4, <2>5, <2>6
  <2>9. /\ pc'[r] \notin Outside /\ pc'[r] = "returning"
        /\ pc'[r] \notin Holding \ {"returning", "throwing"}
    BY <2>1 DEF Outside, Holding, Labels
  <2> QED BY <2>8, <2>9 DEF Events
<1>9. CASE ProviderThrows(r) \/ RejectResponse(r) \/ ExhaustRounds(r)
  <2>1. pc[r] \in {"provider", "response", "counted"} /\ pc'[r] = "throwing"
        /\ reported' = reported
    BY <1>9, Went DEF ProviderThrows, RejectResponse, ExhaustRounds, Throw, Labels
  <2>2. "error" \in Kinds /\ Trace(r, "error")
    BY <1>9 DEF ProviderThrows, RejectResponse, ExhaustRounds, Throw, Kinds
  <2>3. PICK u : u = Append(trace[r], "error")
    OBVIOUS
  <2>4. trace'[r] = u
    BY <2>2, <2>3, Recorded
  <2>7. EventAdded(trace[r], "error", u)
    BY <1>1, <2>2, <2>3, OneMoreEvent
  <2>5. /\ u # <<>> /\ (trace[r] # <<>> => u[1] = trace[r][1])
        /\ u[Len(u)] = "error"
        /\ Occurrences(u, "error") = Occurrences(trace[r], "error") + 1
        /\ Occurrences(u, "provider_start") = Occurrences(trace[r], "provider_start")
        /\ Occurrences(u, "provider_end") = Occurrences(trace[r], "provider_end")
        /\ Occurrences(u, "generation_end") = Occurrences(trace[r], "generation_end")
    BY <2>7 DEF EventAdded, Kinds
  <2>6. /\ trace[r] # <<>> /\ trace[r][1] = "generation_start"
        /\ Occurrences(trace[r], "provider_end") = Len(reported[r])
        /\ Occurrences(trace[r], "provider_start") \in {Len(reported[r]), Len(reported[r]) + 1}
        /\ Occurrences(trace[r], "generation_end") = 0
        /\ Occurrences(trace[r], "error") = 0
    <3>1. /\ pc[r] \notin Outside
          /\ pc[r] \in Holding \ {"returning", "throwing"}
      BY <2>1 DEF Outside, Holding, Labels
    <3>2. PICK t, n : t = trace[r] /\ n = Len(reported[r])
      OBVIOUS
    <3>3. /\ t # <<>> /\ t[1] = "generation_start"
          /\ Occurrences(t, "provider_end") = n
          /\ Occurrences(t, "generation_end") = 0
          /\ Occurrences(t, "error") = 0
          /\ Occurrences(t, "provider_start") =
               n + (IF pc[r] \in {"provider", "response"} THEN 1 ELSE 0)
      BY <3>1, <3>2 DEF Events
    <3>4. n \in Nat
      BY <1>1, <3>2
    <3>5. Occurrences(t, "provider_start") \in {n, n + 1}
      BY <3>3, <3>4
    <3> QED BY <3>2, <3>3, <3>5
  <2>8. /\ trace'[r] # <<>> /\ trace'[r][1] = "generation_start"
        /\ trace'[r][Len(trace'[r])] = "error"
        /\ Occurrences(trace'[r], "provider_end") = Len(reported'[r])
        /\ Occurrences(trace'[r], "provider_start") \in {Len(reported'[r]), Len(reported'[r]) + 1}
        /\ Occurrences(trace'[r], "generation_end") = 0
        /\ Occurrences(trace'[r], "error") = 1
    BY <1>1, <2>1, <2>4, <2>5, <2>6
  <2>9. /\ pc'[r] \notin Outside /\ pc'[r] = "throwing"
        /\ pc'[r] \notin Holding \ {"returning", "throwing"}
    BY <2>1 DEF Outside, Holding, Labels
  <2> QED BY <2>8, <2>9 DEF Events
<1> QED
  BY <1>2, <1>3, <1>4, <1>5, <1>6, <1>7, <1>8, <1>9 DEF RunStep

-----------------------------------------------------------------------------
(***************************************************************************)
(* The place of a run in the history of its session.                       *)
(***************************************************************************)
LEMMA PlaceKeeps ==
    ASSUME Types, NEW r \in Runs, Place(r), sess[r] \in Sessions,
           pc[r] \in Holding, pc'[r] \in Holding, sess'[r] = sess[r],
           messages'[sess[r]] = messages[sess[r]],
           \A e \in Seq(Message) : Said(r, e) => Said(r, e)'
    PROVE  Place(r)'
<1>1. PICK h : h = messages[sess[r]]
  OBVIOUS
<1>2. PICK n \in 0..Len(h) : /\ \A k \in 1..n : h[k].by # r
                             /\ Said(r, SubSeq(h, n + 1, Len(h)))
  BY <1>1 DEF Place
<1>3. PICK e : e = SubSeq(h, n + 1, Len(h))
  OBVIOUS
<1>4. e \in Seq(Message)
  <2>1. h \in Seq(Message)
    BY <1>1 DEF Types
  <2>2. n + 1 \in Int /\ Len(h) \in Int /\ \A k \in (n + 1)..Len(h) : h[k] \in Message
    <3>1. Len(h) \in Nat /\ \A k \in 1..Len(h) : h[k] \in Message
      BY <2>1, LenProperties, ElementOfSeq
    <3> QED BY <3>1
  <2> QED BY <1>3, <2>2, SubSeqProperties
<1>5. Said(r, e)'
  BY <1>2, <1>3, <1>4
<1>6. (messages[sess[r]])' = h
  BY <1>1
<1>7. pc'[r] \notin Outside
  BY DEF Outside, Holding, Labels
<1>8. \E m \in 0..Len(h) :
         /\ \A k \in 1..m : h[k].by # r
         /\ Said(r, SubSeq(h, m + 1, Len(h)))'
  BY <1>2, <1>3, <1>5
<1> QED BY <1>6, <1>7, <1>8 DEF Place

LEMMA PlaceAppends ==
    ASSUME Types, NEW r \in Runs, Place(r), sess[r] \in Sessions,
           pc[r] \in Holding, pc'[r] \in Holding, sess'[r] = sess[r],
           NEW m \in Message,
           messages'[sess[r]] = Append(messages[sess[r]], m),
           \A e \in Seq(Message) : Said(r, e) => Said(r, Append(e, m))'
    PROVE  Place(r)'
<1>1. PICK h, g : h = messages[sess[r]] /\ g = Append(h, m)
  OBVIOUS
<1>2. h \in Seq(Message)
  BY <1>1 DEF Types
<1>3. PICK n \in 0..Len(h) : /\ \A k \in 1..n : h[k].by # r
                             /\ Said(r, SubSeq(h, n + 1, Len(h)))
  BY <1>1 DEF Place
<1>4. /\ Len(h) \in Nat /\ Len(g) = Len(h) + 1
      /\ \A k \in 1..Len(h) : g[k] = h[k] /\ h[k] \in Message
  BY <1>1, <1>2, Longer, ElementOfSeq
<1>5. PICK e, f : /\ e = SubSeq(h, n + 1, Len(h))
                  /\ f = SubSeq(g, n + 1, Len(h) + 1)
  OBVIOUS
<1>6. f = Append(e, m)
  BY <1>1, <1>2, <1>5, Growing
<1>7. e \in Seq(Message)
  <2>1. n + 1 \in Int /\ Len(h) \in Int /\ \A k \in (n + 1)..Len(h) : h[k] \in Message
    BY <1>4
  <2> QED BY <1>5, <2>1, SubSeqProperties
<1>8. Said(r, f)'
  BY <1>3, <1>5, <1>6, <1>7
<1>9. /\ n \in 0..Len(g)
      /\ \A k \in 1..n : g[k].by # r
  <2>1. \A k \in 1..n : k \in 1..Len(h)
    BY <1>4
  <2> QED BY <1>3, <1>4, <2>1
<1>10. (messages[sess[r]])' = g
  BY <1>1
<1>11. pc'[r] \notin Outside
  BY DEF Outside, Holding, Labels
<1>12. \E i \in 0..Len(g) :
          /\ \A k \in 1..i : g[k].by # r
          /\ Said(r, SubSeq(g, i + 1, Len(g)))'
  <2>1. f = SubSeq(g, n + 1, Len(g))
    BY <1>4, <1>5
  <2> QED BY <1>8, <1>9, <2>1
<1> QED BY <1>10, <1>11, <1>12 DEF Place

LEMMA CountsOf ==
    ASSUME NEW e \in Seq(Message)
    PROVE  Cardinality(Turns(e)) \in Nat /\ Cardinality(Answers(e)) \in Nat
  BY FiniteTurns, FS_CardinalityType

LEMMA ToolStepSaid ==
    ASSUME NEW r \in Runs, Numbers(r), ToolStep(r), NEW e, Said(r, e)
    PROVE  Said(r, e)'
<1>1. UNCHANGED <<pc, round, toolCalls, appended>> /\ calls' = calls
  BY DEF ToolStep, clientVars, Tooling!Progress, Tooling!Refuse, Tooling!Begin,
         Tooling!End, Tooling!Return
<1>2. pc[r] = "results" => results' = results
  <2>1. CASE Tooling!Return(r)
    BY <2>1 DEF Tooling!Return, Numbers
  <2>2. CASE ~Tooling!Return(r)
    BY <2>2 DEF ToolStep, Tooling!Progress, Tooling!Refuse, Tooling!Begin,
                Tooling!End
  <2> QED BY <2>1, <2>2
<1> QED BY <1>1, <1>2 DEF Said

\* Steps of a run that append nothing.
QuietStep(r) ==
    \/ ReadSystem(r) \/ ReadMessages(r)
    \/ (\E resp \in Responses : ProviderReturns(r, resp)) \/ Count(r)
    \/ ProviderThrows(r) \/ RejectResponse(r) \/ ExhaustRounds(r)
    \/ CollectResults(r) \/ StopOnToolError(r) \/ NextRound(r)

LEMMA QuietSaid ==
    ASSUME Types, NEW r \in Runs, Numbers(r), QuietStep(r),
           NEW e \in Seq(Message), Said(r, e)
    PROVE  Said(r, e)'
<1>1. /\ Cardinality(Turns(e)) \in Nat /\ Cardinality(Answers(e)) \in Nat
      /\ Len(e) \in Nat /\ Len(results[r]) \in Nat /\ Len(calls[r]) \in Nat
      /\ round[r] \in Nat /\ toolCalls[r] \in Nat
  <2>1. Len(results[r]) \in Nat /\ Len(calls[r]) \in Nat
    BY CountsOfCalls, LimitsAssumption
  <2>2. round[r] \in Nat /\ toolCalls[r] \in Nat
    BY TranscriptAssumption, LimitsAssumption DEF Types
  <2> QED BY <2>1, <2>2, CountsOf, LenProperties
<1>2. CASE ReadSystem(r) \/ ReadMessages(r) \/ Count(r)
           \/ \E resp \in Responses : ProviderReturns(r, resp)
  <2>1. pc[r] \in Unanswered /\ pc'[r] \in {"snapshot", "provider", "response", "counted"}
    BY <1>2, Went
       DEF ReadSystem, ReadMessages, ProviderReturns, Count, Labels, Unanswered
  <2>2. round' = round /\ toolCalls' = toolCalls
    BY <1>2 DEF ReadSystem, ReadMessages, ProviderReturns, Count
  <2> QED BY <2>1, <2>2 DEF Said, Unanswered
<1>3. CASE ProviderThrows(r) \/ RejectResponse(r) \/ ExhaustRounds(r)
  <2>1. pc[r] \in {"provider", "response", "counted"} /\ pc'[r] = "throwing"
    BY <1>3, Went DEF ProviderThrows, RejectResponse, ExhaustRounds, Throw, Labels
  <2> QED BY <2>1 DEF Said, Unanswered
<1>4. CASE CollectResults(r)
  <2>1. /\ pc[r] = "tools" /\ pc'[r] = "results"
        /\ toolCalls'[r] = toolCalls[r] + Len(results[r]) /\ appended'[r] = 0
    BY <1>4, Went, Functional DEF CollectResults, Labels
  <2>2. UNCHANGED <<round, calls, results>>
    BY <1>4 DEF CollectResults, toolVars
  <2>3. Asked(e, 0, calls[r]) /\ Cardinality(Answers(e)) = toolCalls[r]
        /\ Cardinality(Turns(e)) = round[r] /\ Continues(e) /\ Begun(r, e)
    BY <2>1 DEF Said
  <2>4. Cardinality(Answers(e)) + Len(results'[r]) = toolCalls'[r] + appended'[r]
    BY <1>1, <2>1, <2>2, <2>3
  <2> QED BY <2>1, <2>2, <2>3, <2>4 DEF Said, Unanswered
<1>5. CASE StopOnToolError(r) \/ NextRound(r)
  <2>1. pc[r] = "results" /\ appended[r] = Len(results[r])
    BY <1>5 DEF StopOnToolError, NextRound, AllAppended
  <2>2. Len(results[r]) = Len(calls[r])
    BY <2>1 DEF Numbers
  <2>3. /\ Asked(e, Len(calls[r]), calls[r]) /\ Begun(r, e) /\ Continues(e)
        /\ Cardinality(Turns(e)) = round[r]
        /\ Cardinality(Answers(e)) + Len(results[r]) = toolCalls[r] + Len(results[r])
    BY <2>1, <2>2 DEF Said
  <2>4. AllAnswered(e)
    BY <1>1, <2>3, LastAnswer
  <2>5. Cardinality(Answers(e)) = toolCalls[r]
    BY <1>1, <2>3
  <2>6. CASE StopOnToolError(r)
    <3>1. pc'[r] = "returning" /\ round' = round /\ toolCalls' = toolCalls
      BY <2>6, Went DEF StopOnToolError, Return, Labels
    <3> QED BY <2>3, <2>4, <2>5, <3>1 DEF Said, Unanswered
  <2>7. CASE NextRound(r)
    <3>1. pc'[r] = "round" /\ round'[r] = round[r] + 1 /\ toolCalls' = toolCalls
      BY <2>7, Went, Functional DEF NextRound, Labels
    <3>2. Cardinality(Turns(e)) = round'[r] - 1
      BY <1>1, <2>3, <3>1
    <3> QED BY <2>3, <2>4, <2>5, <3>1, <3>2 DEF Said, Unanswered
  <2> QED BY <1>5, <2>6, <2>7
<1> QED BY <1>2, <1>3, <1>4, <1>5 DEF QuietStep

LEMMA QuietPlace ==
    ASSUME Types, IInv, NEW r \in Runs, Numbers(r), QuietStep(r), Place(r)
    PROVE  Place(r)'
<1>1. pc[r] \in Holding /\ pc'[r] \in Holding /\ messages' = messages /\ sess' = sess
  <2>1. CASE ReadSystem(r) \/ ReadMessages(r) \/ Count(r)
             \/ \E resp \in Responses : ProviderReturns(r, resp)
    BY <2>1, Went
       DEF ReadSystem, ReadMessages, ProviderReturns, Count, Labels, Holding,
           sessionVars
  <2>2. CASE ProviderThrows(r) \/ RejectResponse(r) \/ ExhaustRounds(r)
    BY <2>2, Went
       DEF ProviderThrows, RejectResponse, ExhaustRounds, Throw, Labels, Holding,
           sessionVars
  <2>3. CASE CollectResults(r) \/ StopOnToolError(r) \/ NextRound(r)
    BY <2>3, Went
       DEF CollectResults, StopOnToolError, NextRound, AllAppended, Return, Labels,
           Holding, sessionVars
  <2> QED BY <2>1, <2>2, <2>3 DEF QuietStep
<1>2. sess[r] \in Sessions
  BY <1>1 DEF IInv, Leases
<1>3. \A e \in Seq(Message) : Said(r, e) => Said(r, e)'
  BY QuietSaid
<1> QED BY <1>1, <1>2, <1>3, PlaceKeeps

\* The steps of a run that append a message, and what they append.
AppendsResponse(r) == AcceptFinal(r) \/ AcceptContinuation(r) \/ AcceptCalls(r)
ResponseMessage(r) ==
    Assistant(r, round[r], ToolsOf(response[r].calls), response[r].cont)
ResultMessage(r) ==
    ToolResult(r, round[r], appended[r] + 1, results[r][appended[r] + 1])

LEMMA ResponseSaid ==
    ASSUME Types, NEW r \in Runs, Numbers(r), AppendsResponse(r),
           NEW e \in Seq(Message), Said(r, e)
    PROVE  \A f : f = Append(e, ResponseMessage(r)) => Said(r, f)'
<1>1. PICK n, cs, c : /\ n = round[r] - 1
                      /\ cs = ToolsOf(response[r].calls) /\ c = response[r].cont
  OBVIOUS
<1>2. pc[r] = "counted" /\ response[r] \in Responses
  BY DEF AppendsResponse, AcceptFinal, AcceptContinuation, AcceptCalls, Numbers
<1>3. /\ Begun(r, e) /\ AllAnswered(e) /\ Continues(e)
      /\ Cardinality(Turns(e)) = n /\ Cardinality(Answers(e)) = toolCalls[r]
  BY <1>1, <1>2 DEF Said
<1>4. n \in Nat /\ n < MaxModelRounds /\ n + 1 = round[r]
  <2>1. round[r] \in 0..MaxModelRounds /\ MaxModelRounds \in Nat
    BY TranscriptAssumption DEF Types
  <2>2. Cardinality(Turns(e)) \in Nat
    BY CountsOf
  <2> QED BY <1>1, <1>3, <2>1, <2>2
<1>5. /\ cs \in Requests \cup {<<>>} /\ c \in BOOLEAN
      /\ (response[r].calls = <<>> <=> cs = <<>>)
      /\ ResponseMessage(r) \in Message
  BY <1>1, <1>2, ResponseIsMessage, CallsOfResponse DEF ResponseMessage
<1>6. SUFFICES ASSUME NEW f, f = Append(e, ResponseMessage(r))
               PROVE  Said(r, f)'
  OBVIOUS
<1>7. /\ TurnOf(r, n + 1, ResponseMessage(r))
      /\ ResponseMessage(r).calls = cs
      /\ Extended(e, ResponseMessage(r), f)
  <2>1. ResponseMessage(r).calls = cs
    BY <1>1, Fields DEF ResponseMessage
  <2>2. TurnOf(r, n + 1, ResponseMessage(r))
    BY <1>4, <1>5, Fields DEF ResponseMessage, TurnOf
  <2>3. Extended(e, ResponseMessage(r), f)
    BY <1>4, <1>5, <1>6 DEF Extended
  <2> QED BY <2>1, <2>2, <2>3
<1>8. /\ Begun(r, f)
      /\ Cardinality(Turns(f)) = round[r]
      /\ Cardinality(Answers(f)) = Cardinality(Answers(e))
      /\ Asked(f, 0, cs)
      /\ cs = <<>> => AllAnswered(f)
      /\ NeedsAnotherRound(ResponseMessage(r)) => Continues(f)
  BY <1>3, <1>4, <1>7, TurnAdded
<1>9. CASE AcceptFinal(r)
  <2>1. pc'[r] = "returning" /\ round' = round /\ toolCalls' = toolCalls
    BY <1>9, Went DEF AcceptFinal, Return, Labels
  <2>2. cs = <<>>
    BY <1>5, <1>9 DEF AcceptFinal, NeedsAnother, NeedsAnotherRound
  <2>3. Said(r, f)'
    BY <1>3, <1>4, <1>8, <2>1, <2>2 DEF Said, Unanswered
  <2> QED BY <2>3
<1>10. CASE AcceptContinuation(r)
  <2>1. pc'[r] = "round" /\ round'[r] = round[r] + 1 /\ toolCalls' = toolCalls
    BY <1>10, Went, Functional DEF AcceptContinuation, Labels
  <2>2. cs = <<>> /\ NeedsAnotherRound(ResponseMessage(r))
    <3>1. cs = <<>> /\ response[r].cont
      BY <1>1, <1>5, <1>10
         DEF AcceptContinuation, NeedsAnother, NeedsAnotherRound
    <3>2. ResponseMessage(r).cont = response[r].cont
      BY Fields DEF ResponseMessage
    <3> QED BY <3>1, <3>2 DEF NeedsAnotherRound
  <2>3. Cardinality(Turns(f)) = round'[r] - 1
    BY <1>4, <1>8, <2>1
  <2>4. Said(r, f)'
    BY <1>3, <1>8, <2>1, <2>2, <2>3 DEF Said, Unanswered
  <2> QED BY <2>4
<1>11. CASE AcceptCalls(r)
  <2>1. pc'[r] = "tools" /\ round' = round /\ toolCalls' = toolCalls
    BY <1>11, Went DEF AcceptCalls, Labels
  <2>2. calls'[r] = cs /\ cs # <<>>
    BY <1>1, <1>5, <1>11, Functional DEF AcceptCalls, Tooling!Request
  <2>3. NeedsAnotherRound(ResponseMessage(r))
    <3>1. ResponseMessage(r).calls = cs
      BY <1>1, Fields DEF ResponseMessage
    <3> QED BY <2>2, <3>1 DEF NeedsAnotherRound
  <2>4. Said(r, f)'
    BY <1>3, <1>4, <1>8, <2>1, <2>2, <2>3 DEF Said, Unanswered
  <2> QED BY <2>4
<1> QED BY <1>9, <1>10, <1>11 DEF AppendsResponse

LEMMA InputSaid ==
    ASSUME Types, NEW r \in Runs, Numbers(r), AppendInput(r),
           NEW e \in Seq(Message), Said(r, e)
    PROVE  Said(r, Append(e, Input(r)))'
<1>1. pc[r] = "leased" /\ pc'[r] = "round" /\ round'[r] = 1 /\ toolCalls' = toolCalls
  BY Went, Functional DEF AppendInput, Labels
<1>2. e = <<>> /\ toolCalls[r] = 0
  BY <1>1 DEF Said, Numbers
<1>3. PICK f : f = <<Input(r)>>
  OBVIOUS
<1>4. Append(e, Input(r)) = f
  BY <1>2, <1>3
<1>5. /\ Begun(r, f) /\ AllAnswered(f) /\ Continues(f)
      /\ Cardinality(Turns(f)) = 0 /\ Cardinality(Answers(f)) = 0
  BY <1>3, InputAlone
<1>6. Cardinality(Turns(f)) = round'[r] - 1
  BY <1>1, <1>5
<1>7. Said(r, f)'
  BY <1>1, <1>2, <1>5, <1>6 DEF Said, Unanswered
<1> QED BY <1>4, <1>7

LEMMA ResultSaid ==
    ASSUME Types, NEW r \in Runs, Numbers(r), AppendResult(r),
           NEW e \in Seq(Message), Said(r, e)
    PROVE  \A f : f = Append(e, ResultMessage(r)) => Said(r, f)'
<1>1. PICK n, i, cs, o : /\ n = round[r] /\ i = appended[r] /\ cs = calls[r]
                         /\ o = results[r][i + 1]
  OBVIOUS
<1>2. /\ pc[r] = "results" /\ pc' = pc /\ i + 1 <= Len(results[r])
      /\ appended'[r] = i + 1
  BY <1>1, Functional DEF AppendResult
<1>3. UNCHANGED <<round, toolCalls, calls, results>>
  BY DEF AppendResult, toolVars
<1>4. /\ Asked(e, i, cs) /\ Begun(r, e) /\ Continues(e)
      /\ Cardinality(Turns(e)) = n
      /\ Cardinality(Answers(e)) + Len(results[r]) = toolCalls[r] + i
  BY <1>1, <1>2 DEF Said
<1>5. /\ n \in Nat /\ i \in Nat /\ toolCalls[r] \in Nat
      /\ n \in 0..MaxModelRounds /\ MaxCalls \in Nat
  BY <1>1, TranscriptAssumption, LimitsAssumption DEF Types
<1>6. Len(results[r]) = Len(cs) /\ Len(cs) \in 0..MaxCalls
  BY <1>1, <1>2, CountsOfCalls DEF Numbers
<1>7. i < Len(cs) /\ i + 1 \in 0..MaxCalls
  BY <1>2, <1>5, <1>6
<1>8. ResultMessage(r) = ToolResult(r, n, i + 1, o) /\ ResultMessage(r) \in Message
  BY <1>1, <1>5, <1>7, ToolResultIsMessage DEF ResultMessage
<1>9. SUFFICES ASSUME NEW f, f = Append(e, ResultMessage(r))
               PROVE  Said(r, f)'
  OBVIOUS
<1>10. Extended(e, ToolResult(r, n, i + 1, o), f)
  BY <1>8, <1>9 DEF Extended
<1>11. /\ Begun(r, f)
       /\ Cardinality(Turns(f)) = n
       /\ Cardinality(Answers(f)) = Cardinality(Answers(e)) + 1
       /\ Asked(f, i + 1, cs)
       /\ Continues(f)
  BY <1>4, <1>5, <1>7, <1>10, AnswerAdded
<1>12. Cardinality(Answers(f)) + Len(results[r]) = toolCalls[r] + (i + 1)
  <2>1. PICK a, b, l, t : /\ a = Cardinality(Answers(e)) /\ b = Cardinality(Answers(f))
                          /\ l = Len(results[r]) /\ t = toolCalls[r]
    OBVIOUS
  <2>2. a \in Nat /\ l \in Nat /\ t \in Nat /\ i \in Nat
    BY <1>5, <2>1, CountsOf, CountsOfCalls
  <2>3. a + l = t + i /\ b = a + 1
    BY <1>4, <1>11, <2>1
  <2>4. b + l = t + (i + 1)
    BY <2>2, <2>3
  <2> QED BY <2>1, <2>4
<1>13. Said(r, f)'
  BY <1>1, <1>2, <1>3, <1>11, <1>12 DEF Said, Unanswered
<1> QED BY <1>13

LEMMA AppendPlace ==
    ASSUME Types, IInv, NEW r \in Runs, Numbers(r), Place(r),
           AppendInput(r) \/ AppendsResponse(r) \/ AppendResult(r)
    PROVE  /\ Place(r)' /\ pc[r] \in Holding /\ sess[r] \in Sessions
           /\ \E m \in Message : m.by = r /\ AppendFromClient(sess[r], m)
<1>1. pc[r] \in Holding /\ pc'[r] \in Holding /\ sess' = sess
  <2>1. CASE AppendInput(r) \/ AppendResult(r)
    BY <2>1, Went DEF AppendInput, AppendResult, Labels, Holding
  <2>2. CASE AppendsResponse(r)
    BY <2>2, Went
       DEF AppendsResponse, AcceptFinal, AcceptContinuation, AcceptCalls, Return,
           Labels, Holding
  <2> QED BY <2>1, <2>2
<1>2. sess[r] \in Sessions
  BY <1>1 DEF IInv, Leases
<1>3. CASE AppendInput(r)
  <2>1. AppendFromClient(sess[r], Input(r)) /\ Input(r) \in Message /\ Input(r).by = r
    BY <1>3, InputIsMessage, Fields DEF AppendInput
  <2>2. messages'[sess[r]] = Append(messages[sess[r]], Input(r))
    BY <1>2, <2>1, SaidMore
  <2>3. \A e \in Seq(Message) : Said(r, e) => Said(r, Append(e, Input(r)))'
    BY <1>3, InputSaid
  <2>4. Place(r)'
    <3>1. PICK m : m = Input(r)
      OBVIOUS
    <3>2. \A e \in Seq(Message) : Said(r, e) => Said(r, Append(e, m))'
      BY <2>3, <3>1
    <3> QED BY <1>1, <1>2, <2>1, <2>2, <3>1, <3>2, PlaceAppends
  <2> QED BY <1>1, <1>2, <2>1, <2>4
<1>4. CASE AppendsResponse(r)
  <2>1. PICK m : m = ResponseMessage(r)
    OBVIOUS
  <2>2. pc[r] = "counted"
    BY <1>4 DEF AppendsResponse, AcceptFinal, AcceptContinuation, AcceptCalls
  <2>3. AppendFromClient(sess[r], m) /\ m \in Message /\ m.by = r
    <3>1. AppendFromClient(sess[r], m)
      BY <1>4, <2>1
         DEF ResponseMessage, AppendsResponse, AcceptFinal, AcceptContinuation,
             AcceptCalls, AppendResponse
    <3>2. m \in Message
      BY <2>1, <2>2, ResponseIsMessage DEF ResponseMessage
    <3>3. m.by = r
      BY <2>1, Fields DEF ResponseMessage
    <3> QED BY <3>1, <3>2, <3>3
  <2>4. messages'[sess[r]] = Append(messages[sess[r]], m)
    BY <1>2, <2>3, SaidMore
  <2>5. ASSUME NEW e \in Seq(Message), Said(r, e)
        PROVE  Said(r, Append(e, m))'
    <3>1. PICK f : f = Append(e, ResponseMessage(r))
      OBVIOUS
    <3>2. Said(r, f)'
      BY <1>4, <2>5, <3>1, ResponseSaid
    <3> QED BY <2>1, <3>1, <3>2
  <2>6. Place(r)'
    BY <1>1, <1>2, <2>3, <2>4, <2>5, PlaceAppends
  <2> QED BY <1>1, <1>2, <2>3, <2>6
<1>5. CASE AppendResult(r)
  <2>1. PICK m : m = ResultMessage(r)
    OBVIOUS
  <2>2. m \in Message /\ m.by = r
    <3>1. pc[r] = "results" /\ appended[r] + 1 <= Len(results[r])
      BY <1>5 DEF AppendResult
    <3>2. /\ Len(results[r]) = Len(calls[r]) /\ Len(calls[r]) \in 0..MaxCalls
          /\ appended[r] \in Nat /\ round[r] \in 0..MaxModelRounds
          /\ MaxCalls \in Nat
      BY <3>1, CountsOfCalls, LimitsAssumption DEF Numbers, Types
    <3>3. appended[r] + 1 \in 0..MaxCalls
      BY <3>1, <3>2
    <3> QED BY <2>1, <3>2, <3>3, ToolResultIsMessage, Fields DEF ResultMessage
  <2>3. AppendFromClient(sess[r], m)
    BY <1>5, <2>1 DEF AppendResult, ResultMessage
  <2>4. messages'[sess[r]] = Append(messages[sess[r]], m)
    BY <1>2, <2>2, <2>3, SaidMore
  <2>5. ASSUME NEW e \in Seq(Message), Said(r, e)
        PROVE  Said(r, Append(e, m))'
    <3>1. PICK f : f = Append(e, ResultMessage(r))
      OBVIOUS
    <3>2. Said(r, f)'
      BY <1>5, <2>5, <3>1, ResultSaid
    <3> QED BY <2>1, <3>1, <3>2
  <2>6. Place(r)'
    BY <1>1, <1>2, <2>2, <2>4, <2>5, PlaceAppends
  <2> QED BY <1>1, <1>2, <2>2, <2>3, <2>6
<1> QED BY <1>3, <1>4, <1>5

\* What a step of run r writes into the histories.
Touches(r) ==
    \/ messages' = messages
    \/ /\ pc[r] \in Holding /\ sess[r] \in Sessions
       /\ \E m \in Message : m.by = r /\ AppendFromClient(sess[r], m)

LEMMA StepWrites ==
    ASSUME Types, IInv, NEW r \in Runs, Numbers(r), Place(r), StepOf(r)
    PROVE  Touches(r)
<1>1. CASE AppendInput(r) \/ AppendsResponse(r) \/ AppendResult(r)
  BY <1>1, AppendPlace DEF Touches
<1>2. CASE QuietStep(r)
  BY <1>2
     DEF QuietStep, Touches, ReadSystem, ReadMessages, ProviderReturns, Count,
         ProviderThrows, RejectResponse, ExhaustRounds, CollectResults,
         StopOnToolError, NextRound, sessionVars
<1>3. CASE Finish(r) \/ ToolStep(r)
           \/ \E s \in Sessions : Start(r, s) \/ StartRefused(r, s)
  BY <1>3 DEF Touches, Finish, Release, ToolStep, Start, Acquire, StartRefused,
              sessionVars
<1> QED BY <1>1, <1>2, <1>3 DEF StepOf, RunStep, QuietStep, AppendsResponse

LEMMA HolderPlace ==
    ASSUME NEW q \in Runs, Place(q), Untouched(q), pc[q] \in Holding,
           messages'[sess[q]] = messages[sess[q]]
    PROVE  Place(q)'
<1>1. PICK h : h = messages[sess[q]]
  OBVIOUS
<1>2. PICK n \in 0..Len(h) : /\ \A k \in 1..n : h[k].by # q
                             /\ Said(q, SubSeq(h, n + 1, Len(h)))
  BY <1>1 DEF Place
<1>3. PICK e : e = SubSeq(h, n + 1, Len(h))
  OBVIOUS
<1>4. Said(q, e)'
  BY <1>2, <1>3, UntouchedSaid
<1>5. (messages[sess[q]])' = h
  BY <1>1 DEF Untouched
<1>6. pc'[q] \notin Outside
  BY DEF Untouched, Outside, Holding, Labels
<1>7. \E m \in 0..Len(h) :
         /\ \A k \in 1..m : h[k].by # q
         /\ Said(q, SubSeq(h, m + 1, Len(h)))'
  BY <1>2, <1>3, <1>4
<1> QED BY <1>5, <1>6, <1>7 DEF Place

\* Run q has written nothing.
Silent(q) == \A s \in Sessions : \A k \in 1..Len(messages[s]) : messages[s][k].by # q

LEMMA SilentGrows ==
    ASSUME Types, NEW q, Silent(q), NEW s \in Sessions, NEW m \in Message,
           m.by # q, messages' = [messages EXCEPT ![s] = Append(messages[s], m)]
    PROVE  Silent(q)'
<1>1. PICK h, g : h = messages[s] /\ g = Append(h, m)
  OBVIOUS
<1>2. /\ Len(h) \in Nat /\ Len(g) = Len(h) + 1
      /\ \A k \in 1..Len(h) : g[k] = h[k] /\ h[k].by # q
      /\ g[Len(h) + 1] = m /\ 1..(Len(h) + 1) = (1..Len(h)) \cup {Len(h) + 1}
  <2>1. h \in Seq(Message) /\ \A k \in 1..Len(h) : h[k].by # q
    BY <1>1 DEF Types, Silent
  <2> QED BY <1>1, <2>1, Longer
<1>3. \A k \in 1..Len(g) : g[k].by # q
  BY <1>2
<1>4. messages'[s] = g /\ \A u \in Sessions : u # s => messages'[u] = messages[u]
  BY <1>1 DEF Types
<1>5. ASSUME NEW u \in Sessions
      PROVE  \A k \in 1..Len(messages'[u]) : messages'[u][k].by # q
  <2>1. CASE u = s
    BY <1>3, <1>4, <2>1
  <2>2. CASE u # s
    <3>1. messages'[u] = messages[u]
      BY <1>4, <2>2
    <3> QED BY <3>1 DEF Silent
  <2> QED BY <2>1, <2>2
<1> QED BY <1>5 DEF Silent

LEMMA PlaceCases ==
    ASSUME NEW q \in Runs
    PROVE  /\ pc[q] \in Outside => (Place(q) <=> Silent(q))
           /\ pc[q] \notin Outside \cup Holding => Place(q)
  BY DEF Place, Silent, Outside, Holding

\* Away from the sessions where it has appended, a run is not disturbed.
LEMMA OthersPlace ==
    ASSUME Types, IInv, NEW q \in Runs, Place(q), Untouched(q),
           \/ messages' = messages
           \/ \E s \in Sessions, m \in Message :
                 /\ m.by # q /\ (pc[q] \in Holding => sess[q] # s)
                 /\ messages' = [messages EXCEPT ![s] = Append(messages[s], m)]
    PROVE  Place(q)'
<1>1. pc'[q] = pc[q]
  BY DEF Untouched
<1>2. CASE pc[q] \in Holding
  <2>1. messages'[sess[q]] = messages[sess[q]]
    <3>1. sess[q] \in Sessions
      BY <1>2 DEF IInv, Leases
    <3> QED BY <1>2, <3>1 DEF Types
  <2> QED BY <1>2, <2>1, HolderPlace
<1>3. CASE pc[q] \in Outside
  <2>1. Silent(q)
    BY <1>3, PlaceCases
  <2>2. Silent(q)'
    <3>1. CASE messages' = messages
      BY <2>1, <3>1 DEF Silent
    <3>2. CASE messages' # messages
      BY <2>1, <3>2, SilentGrows
    <3> QED BY <3>1, <3>2
  <2>3. (pc[q] \in Outside => (Place(q) <=> Silent(q)))'
    BY PlaceCases, PTL
  <2>4. pc'[q] \in Outside
    BY <1>1, <1>3
  <2>5. Outside' = Outside
    BY DEF Outside
  <2> QED BY <2>2, <2>3, <2>4
<1>4. CASE pc[q] \notin Outside \cup Holding
  <2>1. (pc[q] \notin Outside \cup Holding => Place(q))'
    BY PlaceCases, PTL
  <2> QED BY <1>1, <1>4, <2>1
<1> QED BY <1>2, <1>3, <1>4

LEMMA StepPlaceOthers ==
    ASSUME Types, IInv, NEW r \in Runs, Numbers(r), Place(r), StepOf(r),
           NEW q \in Runs, q # r, Place(q)
    PROVE  Place(q)'
<1>1. Untouched(q)
  BY OthersUntouched
<1>2. CASE messages' = messages
  BY <1>1, <1>2, OthersPlace
<1>3. CASE messages' # messages
  <2>1. PICK m \in Message : m.by = r /\ AppendFromClient(sess[r], m)
    BY <1>3, StepWrites DEF Touches
  <2>2. pc[r] \in Holding /\ sess[r] \in Sessions
    BY <1>3, StepWrites DEF Touches
  <2>3. pc[q] \in Holding => sess[q] # sess[r]
    BY <2>2 DEF IInv, Leases
  <2>4. messages' = [messages EXCEPT ![sess[r]] = Append(messages[sess[r]], m)]
    BY <2>1 DEF AppendFromClient
  <2> QED BY <1>1, <2>1, <2>2, <2>3, <2>4, OthersPlace
<1> QED BY <1>2, <1>3

LEMMA EditPlace ==
    ASSUME Types, IInv, NEW s \in Sessions, EditStep(s), NEW q \in Runs, Place(q)
    PROVE  Place(q)'
<1>1. Untouched(q)
  BY EditUntouched
<1>2. pc[q] \in Holding => sess[q] # s
  BY EditDoes DEF IInv, Leases
<1>3. CASE messages' = messages
  BY <1>1, <1>3, OthersPlace
<1>4. CASE messages' = [messages EXCEPT ![s] = Append(messages[s], Imported)]
  <2>1. Imported \in Message /\ Imported.by # q
    BY ImportedIsMessage
  <2> QED BY <1>1, <1>2, <1>4, <2>1, OthersPlace
<1>5. CASE messages' = [messages EXCEPT ![s] = <<>>]
  <2>1. pc'[q] = pc[q]
    BY <1>1 DEF Untouched
  <2>2. CASE pc[q] \in Holding
    <3>1. messages'[sess[q]] = messages[sess[q]]
      BY <1>2, <1>5, <2>2 DEF Types
    <3> QED BY <1>1, <2>2, <3>1, HolderPlace
  <2>3. CASE pc[q] \in Outside
    <3>1. Silent(q)
      BY <2>3, PlaceCases
    <3>2. \A u \in Sessions : messages'[u] = messages[u] \/ messages'[u] = <<>>
      BY <1>5 DEF Types
    <3>3. Len(<<>>) = 0 /\ 1..0 = {}
      BY EmptySeq
    <3>4. Silent(q)'
      BY <3>1, <3>2, <3>3 DEF Silent
    <3>5. (pc[q] \in Outside => (Place(q) <=> Silent(q)))'
      BY PlaceCases, PTL
    <3> QED BY <2>1, <2>3, <3>4, <3>5
  <2>4. CASE pc[q] \notin Outside \cup Holding
    <3>1. (pc[q] \notin Outside \cup Holding => Place(q))'
      BY PlaceCases, PTL
    <3> QED BY <2>1, <2>4, <3>1
  <2> QED BY <2>2, <2>3, <2>4
<1> QED BY <1>3, <1>4, <1>5, EditDoes

LEMMA NothingLeft ==
    ASSUME NEW h \in Seq(Message)
    PROVE  /\ Len(h) \in 0..Len(h)
           /\ SubSeq(h, Len(h) + 1, Len(h)) = <<>>
<1>1. PICK l, e : l = Len(h) /\ e = SubSeq(h, l + 1, l)
  OBVIOUS
<1>2. l \in Nat
  BY <1>1, LenProperties
<1>3. l + 1 \in Int /\ l \in Int /\ \A k \in (l + 1)..l : h[k] \in Message
  BY <1>2
<1>4. e \in Seq(Message) /\ Len(e) = (IF l + 1 <= l THEN l - (l + 1) + 1 ELSE 0)
  BY <1>1, <1>3, SubSeqProperties
<1>5. Len(e) = 0
  BY <1>2, <1>4
<1>6. e = <<>>
  BY <1>4, <1>5, EmptySeq
<1> QED BY <1>1, <1>2, <1>6

LEMMA StartPlace ==
    ASSUME Types, NEW r \in Runs, NEW s \in Sessions, Start(r, s), Place(r)
    PROVE  Place(r)'
<1>1. pc[r] = "idle" /\ pc'[r] = "leased" /\ sess'[r] = s /\ messages' = messages
  BY Went, Functional DEF Start, Acquire, Labels
<1>2. PICK h, n : h = messages[s] /\ n = Len(h)
  OBVIOUS
<1>3. \A k \in 1..n : h[k].by # r
  BY <1>1, <1>2, PlaceCases DEF Silent, Outside
<1>4. n \in 0..Len(h) /\ SubSeq(h, n + 1, Len(h)) = <<>>
  BY <1>2, NothingLeft DEF Types
<1>5. Said(r, <<>>)'
  BY <1>1 DEF Said, Unanswered
<1>6. (messages[sess[r]])' = h
  BY <1>1, <1>2
<1>7. \E i \in 0..Len(h) :
         /\ \A k \in 1..i : h[k].by # r
         /\ Said(r, SubSeq(h, i + 1, Len(h)))'
  BY <1>3, <1>4, <1>5
<1> QED BY <1>1, <1>6, <1>7 DEF Place, Outside

LEMMA StartRefusedPlace ==
    ASSUME Types, NEW r \in Runs, NEW s \in Sessions, StartRefused(r, s), Place(r)
    PROVE  Place(r)'
<1>1. pc[r] = "idle" /\ pc'[r] = "refused" /\ messages' = messages
  BY Went DEF StartRefused, sessionVars, Labels
<1>2. Silent(r)
  BY <1>1, PlaceCases DEF Outside
<1>3. pc'[r] \notin Holding
  BY <1>1 DEF Holding, Labels
<1> QED BY <1>1, <1>2, <1>3 DEF Place, Silent

LEMMA FinishPlace ==
    ASSUME Types, NEW r \in Runs, Finish(r)
    PROVE  Place(r)'
<1>1. pc'[r] \in {"returned", "threw"}
  BY Went DEF Finish, Labels
<1> QED BY <1>1 DEF Place, Outside, Holding, Labels

LEMMA ToolStepPlace ==
    ASSUME Types, IInv, NEW r \in Runs, Numbers(r), ToolStep(r), Place(r)
    PROVE  Place(r)'
<1>1. pc' = pc /\ sess' = sess /\ messages' = messages
  BY DEF ToolStep, clientVars, sessionVars
<1>2. CASE pc[r] \in Holding
  <2>1. sess[r] \in Sessions
    BY <1>2 DEF IInv, Leases
  <2>2. \A e \in Seq(Message) : Said(r, e) => Said(r, e)'
    BY ToolStepSaid
  <2> QED BY <1>1, <1>2, <2>1, <2>2, PlaceKeeps
<1>3. CASE pc[r] \notin Holding
  BY <1>1, <1>3 DEF Place
<1> QED BY <1>2, <1>3

-----------------------------------------------------------------------------
(***************************************************************************)
(* The invariant.                                                          *)
(***************************************************************************)
LEMMA FollowsAtFirst == Init => Follows
<1> SUFFICES ASSUME Init PROVE Follows
  OBVIOUS
<1>1. 0 \in 0..MaxModelRounds /\ 0 \in 0..MaxCalls /\ <<>> \in Seq(Message)
      /\ <<>> \in Seq(Kinds) /\ <<>> \in Seq(Counts) /\ <<>> \in Seq(Outcome)
      /\ NoCount \in Counts /\ "idle" \in Labels
  BY TranscriptAssumption, LimitsAssumption, EmptySeq DEF Counts, Labels
<1>2. Types
  BY <1>1, ToolData DEF Init, SessionInit, Tooling!Init, Types
<1>3. ASSUME NEW r \in Runs PROVE Numbers(r) /\ Events(r) /\ Place(r)
  <2>1. /\ pc[r] = "idle" /\ round[r] = 0 /\ toolCalls[r] = 0
        /\ reported[r] = <<>> /\ trace[r] = <<>> /\ phase[r] = "idle"
        /\ \A s \in Sessions : messages[s] = <<>>
    BY DEF Init, SessionInit, Tooling!Init
  <2>2. Numbers(r)
    BY <2>1 DEF Numbers, Outside, Unanswered, Accounted
  <2>3. Events(r)
    BY <2>1 DEF Events, Outside, Holding, Labels
  <2>4. Place(r)
    <3>1. Len(<<>>) = 0 /\ 1..0 = {}
      BY EmptySeq
    <3> QED BY <2>1, <3>1 DEF Place, Holding, Labels
  <2> QED BY <2>2, <2>3, <2>4
<1> QED BY <1>2, <1>3 DEF Follows

LEMMA StepFollows ==
    ASSUME Follows, IInv, NEW r \in Runs, StepOf(r)
    PROVE  Follows'
<1>1. Types /\ \A q \in Runs : Numbers(q) /\ Events(q) /\ Place(q)
  BY DEF Follows
<1>2. Types' /\ Numbers(r)' /\ Events(r)' /\ Place(r)'
  <2>1. CASE RunStep(r)
    <3>1. Place(r)'
      <4>1. CASE QuietStep(r)
        BY <1>1, <4>1, QuietPlace
      <4>2. CASE AppendInput(r) \/ AppendsResponse(r) \/ AppendResult(r)
        BY <1>1, <4>2, AppendPlace
      <4>3. CASE Finish(r)
        BY <1>1, <4>3, FinishPlace
      <4> QED BY <2>1, <4>1, <4>2, <4>3 DEF RunStep, QuietStep, AppendsResponse
    <3> QED BY <1>1, <2>1, <3>1, RunStepTypes, RunStepNumbers, RunStepEvents
  <2>2. CASE ToolStep(r)
    BY <1>1, <2>2, ToolStepTypes, ToolStepNumbers, ToolStepEvents, ToolStepPlace
  <2>3. ASSUME NEW s \in Sessions, Start(r, s)
        PROVE  Types' /\ Numbers(r)' /\ Events(r)' /\ Place(r)'
    BY <1>1, <2>3, StartTypes, StartNumbers, StartEvents, StartPlace
  <2>4. ASSUME NEW s \in Sessions, StartRefused(r, s)
        PROVE  Types' /\ Numbers(r)' /\ Events(r)' /\ Place(r)'
    BY <1>1, <2>4, StartRefusedTypes, StartRefusedNumbers, StartRefusedEvents,
       StartRefusedPlace
  <2> QED BY <2>1, <2>2, <2>3, <2>4 DEF StepOf
<1>3. ASSUME NEW q \in Runs, q # r
      PROVE  Numbers(q)' /\ Events(q)' /\ Place(q)'
  <2>1. Untouched(q)
    BY <1>1, <1>3, OthersUntouched
  <2> QED BY <1>1, <1>3, <2>1, UntouchedNumbers, UntouchedEvents, StepPlaceOthers
<1>4. \A q \in Runs : Numbers(q)' /\ Events(q)' /\ Place(q)'
  BY <1>2, <1>3
<1> QED BY <1>2, <1>4 DEF Follows

LEMMA EditFollows ==
    ASSUME Follows, IInv, NEW s \in Sessions, EditStep(s)
    PROVE  Follows'
<1>1. Types /\ \A q \in Runs : Numbers(q) /\ Events(q) /\ Place(q)
  BY DEF Follows
<1>2. Types'
  BY <1>1, EditTypes
<1>3. ASSUME NEW q \in Runs PROVE Numbers(q)' /\ Events(q)' /\ Place(q)'
  <2>1. Untouched(q)
    BY <1>1, EditUntouched
  <2> QED BY <1>1, <2>1, UntouchedNumbers, UntouchedEvents, EditPlace
<1> QED BY <1>2, <1>3 DEF Follows

LEMMA StutterFollows ==
    ASSUME Follows, IInv, UNCHANGED vars
    PROVE  Follows'
<1>1. /\ UNCHANGED <<active, system, messages, pc, sess, round, request,
                     response, usage, toolCalls, appended, answer, trace,
                     reported, calls, phase, status, results>>
  BY DEF vars, sessionVars, clientVars, toolVars
<1>2. Types'
  BY <1>1 DEF Follows, Types
<1>3. ASSUME NEW q \in Runs PROVE Numbers(q)' /\ Events(q)' /\ Place(q)'
  <2>1. Untouched(q)
    BY <1>1 DEF Untouched
  <2>2. Types /\ Numbers(q) /\ Events(q) /\ Place(q) /\ messages' = messages
    BY <1>1 DEF Follows
  <2> QED BY <2>1, <2>2, UntouchedNumbers, UntouchedEvents, OthersPlace
<1> QED BY <1>2, <1>3 DEF Follows

\* Every run can be followed through its exchange, at every step.
THEOREM Following == Spec => []Follows
<1>1. Init => Follows
  BY FollowsAtFirst
<1>2. Follows /\ IInv /\ [Next]_vars => Follows'
  <2> SUFFICES ASSUME Follows, IInv, [Next]_vars PROVE Follows'
    OBVIOUS
  <2>1. ASSUME NEW r \in Runs, StepOf(r) PROVE Follows'
    BY <2>1, StepFollows
  <2>2. ASSUME NEW s \in Sessions, EditStep(s) PROVE Follows'
    BY <2>2, EditFollows
  <2>3. CASE UNCHANGED vars
    BY <2>3, StutterFollows
  <2>4. ASSUME NEW r \in Runs, NEW s \in Sessions, Start(r, s) \/ StartRefused(r, s)
        PROVE  Follows'
    BY <2>1, <2>4 DEF StepOf
  <2>5. ASSUME NEW r \in Runs, RunStep(r) \/ ToolStep(r)
        PROVE  Follows'
    BY <2>1, <2>5 DEF StepOf
  <2> QED BY <2>2, <2>3, <2>4, <2>5 DEF Next
<1>3. Spec => []IInv
  BY Inductive
<1> QED BY <1>1, <1>2, <1>3, PTL DEF Spec

\* The messages of run r in its session, while it is inside generate.
LEMMA OwnTurns ==
    ASSUME Types, NEW r \in Runs, Place(r), pc[r] \in Holding,
           sess[r] \in Sessions
    PROVE  \E n \in 0..Len(messages[sess[r]]) :
              \E e \in Seq(Message) :
                 /\ e = SubSeq(messages[sess[r]], n + 1, Len(messages[sess[r]]))
                 /\ Said(r, e) /\ Parted(r, messages[sess[r]], n, e)
                 /\ Len(e) = Len(messages[sess[r]]) - n
                 /\ \A k \in 1..Len(e) : e[k] = messages[sess[r]][n + k]
                 /\ Cardinality(WrittenBy(r, {"assistant"})) = Cardinality(Turns(e))
                 /\ Cardinality(WrittenBy(r, {"tool"})) = Cardinality(Answers(e))
                 /\ Cardinality(WrittenBy(r, {"user", "assistant", "tool"})) = Len(e)
<1>1. PICK h, l : h = messages[sess[r]] /\ l = Len(h)
  OBVIOUS
<1>2. h \in Seq(Message) /\ l \in Nat /\ \A k \in 1..l : h[k] \in Message
  BY <1>1, LenProperties, ElementOfSeq DEF Types
<1>3. PICK n \in 0..l : /\ \A k \in 1..n : h[k].by # r
                        /\ Said(r, SubSeq(h, n + 1, l))
  BY <1>1 DEF Place
<1>4. PICK e : e = SubSeq(h, n + 1, l)
  OBVIOUS
<1>5. /\ e \in Seq(Message) /\ Len(e) = l - n
      /\ \A k \in 1..(l - n) : e[k] = h[n + k]
  <2>1. n + 1 \in Int /\ l \in Int /\ \A k \in (n + 1)..l : h[k] \in Message
    BY <1>2
  <2>2. /\ e \in Seq(Message)
        /\ Len(e) = (IF n + 1 <= l THEN l - (n + 1) + 1 ELSE 0)
        /\ \A k \in 1..(l - (n + 1) + 1) : e[k] = h[n + 1 + k - 1]
    BY <1>4, <2>1, SubSeqProperties
  <2>3. Len(e) = l - n
    BY <1>2, <2>2
  <2>4. ASSUME NEW k \in 1..(l - n) PROVE e[k] = h[n + k]
    <3>1. k \in 1..(l - (n + 1) + 1) /\ n + 1 + k - 1 = n + k
      BY <1>2
    <3> QED BY <2>2, <3>1
  <2> QED BY <2>2, <2>3, <2>4
<1>6. Begun(r, e) \/ e = <<>>
  BY <1>3, <1>4 DEF Said
<1>7. \A k \in 1..Len(e) : e[k].by = r
  <2>1. CASE Begun(r, e)
    <3>1. e[1].by = r /\ \A k \in 2..Len(e) : e[k].by = r
      BY <2>1, Fields DEF Begun
    <3>2. \A k \in 1..Len(e) : k = 1 \/ k \in 2..Len(e)
      BY <1>2, <1>5
    <3> QED BY <3>1, <3>2
  <2>2. CASE e = <<>>
    <3>1. Len(e) = 0 /\ 1..0 = {}
      BY <2>2, EmptySeq
    <3> QED BY <3>1
  <2> QED BY <1>6, <2>1, <2>2
<1>7a. Parted(r, h, n, e)
  BY <1>1, <1>3, <1>4, <1>7 DEF Parted
<1>8. ASSUME NEW roles
      PROVE  Cardinality(WrittenBy(r, roles)) = Cardinality(OfRole(e, roles))
  <2>1. Cardinality(By(h, r, roles)) = Cardinality(OfRole(e, roles))
    <3>1. n \in 0..Len(h) /\ h \in Seq(Message)
      BY <1>1, <1>2
    <3> QED BY <1>7a, <3>1, OwnMessages
  <2>2. WrittenBy(r, roles) = By(h, r, roles)
    BY <1>1 DEF WrittenBy, By
  <2> QED BY <2>1, <2>2
<1>9. Cardinality(WrittenBy(r, {"assistant"})) = Cardinality(Turns(e))
  <2>1. OfRole(e, {"assistant"}) = Turns(e)
    BY DEF Turns, OfRole
  <2> QED BY <1>8, <2>1
<1>10. Cardinality(WrittenBy(r, {"tool"})) = Cardinality(Answers(e))
  <2>1. OfRole(e, {"tool"}) = Answers(e)
    BY DEF Answers, OfRole
  <2> QED BY <1>8, <2>1
<1>11. Cardinality(WrittenBy(r, {"user", "assistant", "tool"})) = Len(e)
  <2>1. OfRole(e, {"user", "assistant", "tool"}) = 1..Len(e)
    <3>1. \A k \in 1..Len(e) : e[k] \in Message
      BY <1>5, ElementOfSeq
    <3> QED BY <3>1 DEF Message, OfRole
  <2>2. Cardinality(1..Len(e)) = Len(e)
    BY <1>2, <1>5, FS_Interval
  <2> QED BY <1>8, <2>1, <2>2
<1> QED BY <1>1, <1>3, <1>4, <1>5, <1>9, <1>10, <1>11, <1>7a, ZenonT(40)

LEMMA AnswersMatch == Follows /\ IInv => AnswerMatchesHistory
<1> SUFFICES ASSUME Follows, IInv, NEW r \in Runs, pc[r] = "returning"
             PROVE  /\ answer[r].rounds = Cardinality(WrittenBy(r, {"assistant"}))
                    /\ answer[r].calls = Cardinality(WrittenBy(r, {"tool"}))
                    /\ answer[r].rounds = Len(reported[r])
                    /\ answer[r].usage =
                         IF NoCount \in Range(reported[r]) THEN NoCount
                         ELSE Total(reported[r])
  BY DEF AnswerMatchesHistory
<1>1. Types /\ Numbers(r) /\ Place(r)
  BY DEF Follows
<1>2. pc[r] \in Holding /\ sess[r] \in Sessions
  BY DEF Holding, Labels, IInv, Leases
<1>3. PICK e \in Seq(Message) :
              /\ Said(r, e)
              /\ Cardinality(WrittenBy(r, {"assistant"})) = Cardinality(Turns(e))
              /\ Cardinality(WrittenBy(r, {"tool"})) = Cardinality(Answers(e))
  BY <1>1, <1>2, OwnTurns
<1>4. Cardinality(Turns(e)) = round[r] /\ Cardinality(Answers(e)) = toolCalls[r]
  BY <1>3 DEF Said
<1>5. /\ answer[r].usage = usage[r] /\ answer[r].rounds = round[r]
      /\ answer[r].calls = toolCalls[r] /\ round[r] = Len(reported[r])
      /\ usage[r] = Sum(reported[r])
  BY <1>1 DEF Numbers, Accounted
<1> QED BY <1>3, <1>4, <1>5 DEF Sum

LEMMA ToolsInContext == Follows /\ IInv => ToolsRunInContext
<1> SUFFICES ASSUME Follows, IInv, NEW r \in Runs, pc[r] = "tools", NEW h,
                    h = messages[sess[r]]
             PROVE  /\ h # <<>>
                    /\ h[Len(h)].by = r /\ h[Len(h)].round = round[r]
                    /\ h[Len(h)].calls = calls[r]
                    /\ round[r] < MaxModelRounds
                    /\ Cardinality(WrittenBy(r, {"tool"})) + Len(calls[r]) <= MaxCalls
  BY DEF ToolsRunInContext
<1>1. Types /\ Numbers(r) /\ Place(r)
  BY DEF Follows
<1>2. pc[r] \in Holding /\ sess[r] \in Sessions
  BY DEF Holding, Labels, IInv, Leases
<1>3. PICK n \in 0..Len(h), e \in Seq(Message) :
              /\ Said(r, e)
              /\ Len(e) = Len(h) - n
              /\ \A k \in 1..Len(e) : e[k] = h[n + k]
              /\ Cardinality(WrittenBy(r, {"tool"})) = Cardinality(Answers(e))
  BY <1>1, <1>2, OwnTurns
<1>4. PICK l, m : l = Len(h) /\ m = Len(e)
  OBVIOUS
<1>5. l \in Nat /\ m \in Nat /\ n \in Nat /\ l = n + m
  <2>1. h \in Seq(Message)
    BY <1>1, <1>2 DEF Types
  <2>2. l \in Nat /\ m \in Nat
    BY <1>4, <2>1, LenProperties
  <2> QED BY <1>3, <1>4, <2>2
<1>6. /\ Begun(r, e) /\ Asked(e, 0, calls[r])
      /\ Cardinality(Turns(e)) = round[r]
      /\ Cardinality(Answers(e)) = toolCalls[r]
  BY <1>3 DEF Said
<1>7. m \in Turns(e) /\ e[m].calls = calls[r]
  <2>1. m - 0 = m
    BY <1>5
  <2> QED BY <1>4, <1>6, <2>1 DEF Asked
<1>8. m \in 1..m /\ e[m].role = "assistant" /\ h[l] = e[m] /\ m >= 1
  BY <1>3, <1>4, <1>5, <1>7 DEF Turns
<1>9. e[m].by = r
  <2>1. e[1].by = r /\ \A k \in 2..m : e[k].by = r
    BY <1>4, <1>6, Fields DEF Begun
  <2>2. m = 1 \/ m \in 2..m
    BY <1>5, <1>8
  <2> QED BY <2>1, <2>2
<1>10. e[m].round = round[r]
  <2>1. {j \in Turns(e) : j <= m} = Turns(e)
    BY <1>4, <1>5 DEF Turns
  <2>2. e[m].round = Cardinality({j \in Turns(e) : j <= m})
    BY <1>6, <1>7 DEF Begun
  <2> QED BY <1>6, <2>1, <2>2
<1>11. round[r] < MaxModelRounds /\ toolCalls[r] + Len(calls[r]) <= MaxCalls
  BY <1>1 DEF Numbers
<1>12. h # <<>>
  <2>1. l # 0
    BY <1>5, <1>8
  <2> QED BY <1>4, <2>1, EmptySeq
<1> QED BY <1>3, <1>4, <1>6, <1>7, <1>8, <1>9, <1>10, <1>11, <1>12

LEMMA TracesComplete == Follows => TraceIsComplete
<1> SUFFICES ASSUME Follows, NEW r \in Runs,
                    pc[r] \in {"returning", "throwing", "returned", "threw"}
             PROVE  LET e == trace[r]
                        last == IF pc[r] \in {"returning", "returned"}
                                THEN "generation_end" ELSE "error"
                        open == Occurrences(e, "provider_start") - Len(reported[r])
                    IN
                    /\ e[1] = "generation_start" /\ e[Len(e)] = last
                    /\ Occurrences(e, "generation_end") + Occurrences(e, "error") = 1
                    /\ Occurrences(e, "provider_end") = Len(reported[r])
                    /\ open \in {0, 1} /\ (open = 1 => last = "error")
  BY DEF TraceIsComplete
<1> PICK e, n : e = trace[r] /\ n = Len(reported[r])
  OBVIOUS
<1>1. n \in Nat /\ Events(r)
  <2>1. reported[r] \in Seq(Counts)
    BY DEF Follows, Types
  <2> QED BY <2>1, LenProperties DEF Follows
<1>2. pc[r] \notin Outside
  BY DEF Outside
<1>3. /\ e[1] = "generation_start" /\ Occurrences(e, "provider_end") = n
  BY <1>1, <1>2 DEF Events
<1>4. CASE pc[r] \in {"returning", "returned"}
  <2>1. /\ e[Len(e)] = "generation_end"
        /\ Occurrences(e, "generation_end") = 1 /\ Occurrences(e, "error") = 0
        /\ Occurrences(e, "provider_start") = n
    BY <1>1, <1>4 DEF Events
  <2>2. n - n = 0 /\ 1 + 0 = 1
    BY <1>1
  <2> QED BY <1>3, <1>4, <2>1, <2>2
<1>5. CASE pc[r] \in {"throwing", "threw"}
  <2>1. /\ e[Len(e)] = "error"
        /\ Occurrences(e, "generation_end") = 0 /\ Occurrences(e, "error") = 1
        /\ Occurrences(e, "provider_start") \in {n, n + 1}
    BY <1>1, <1>5 DEF Events
  <2>2. Occurrences(e, "provider_start") - n \in {0, 1}
    BY <1>1, <2>1
  <2>3. pc[r] \notin {"returning", "returned"}
    BY <1>5
  <2> QED BY <1>3, <1>5, <2>1, <2>2, <2>3
<1> QED BY <1>4, <1>5

-----------------------------------------------------------------------------
(***************************************************************************)
(* What follows for an observer.                                           *)
(***************************************************************************)
\* The variables keep their types: no limit of ClientOptions is exceeded.
THEOREM ClientTypes == Spec => []TypeOK
<1>1. Follows => TypeOK
  BY TypesSuffice DEF Follows
<1> QED BY <1>1, Following, PTL

\* AIClient::generate returns the rounds, tool calls and usage of what it left
\* in the history, whatever the provider and the tools did.
THEOREM AnswersAreRight == Spec => []AnswerMatchesHistory
  BY AnswersMatch, Following, Inductive, PTL

\* Tools run only for calls that end the history, with a model round left and
\* within max_tool_calls_per_generation.
THEOREM InContext == Spec => []ToolsRunInContext
  BY ToolsInContext, Following, Inductive, PTL

\* The trace of every generation that ends is complete and in order.
THEOREM Traced == Spec => []TraceIsComplete
  BY TracesComplete, Following, PTL

-----------------------------------------------------------------------------
(***************************************************************************)
(* Seen without what the holder has appended, the histories behave as      *)
(* Conversation says.                                                      *)
(***************************************************************************)
LEMMA AtomicData ==
    ASSUME NEW r, NEW e
    PROVE  /\ Atomic!Exchange(r, e) <=> Exchange(r, e)
           /\ Atomic!Imported = Imported
<1>1. Atomic!Imported = Imported /\ Atomic!Input(r) = Input(r)
  <2>1. Atomic!Blank = Blank
    BY DEF Atomic!Blank, Blank
  <2> QED BY <2>1 DEF Atomic!Imported, Imported, Atomic!Input, Input
<1>2. Atomic!Turns(e) = Turns(e)
  BY DEF Atomic!Turns, Turns
<1>3. \A S : Atomic!Cardinality(S) = Cardinality(S)
  <2> TAKE S
  <2> QED BY DEF Atomic!Cardinality, Cardinality
<1>4. \A m : Atomic!NeedsAnotherRound(m) <=> NeedsAnotherRound(m)
  BY DEF Atomic!NeedsAnotherRound, NeedsAnotherRound
<1>5. ASSUME Atomic!Exchange(r, e) PROVE Exchange(r, e)
  BY <1>1, <1>2, <1>3, <1>4, <1>5, Zenon DEF Atomic!Exchange, Exchange
<1>6. ASSUME Exchange(r, e) PROVE Atomic!Exchange(r, e)
  BY <1>1, <1>2, <1>3, <1>4, <1>6, Zenon DEF Atomic!Exchange, Exchange
<1> QED BY <1>1, <1>5, <1>6

\* Where the messages of the holder begin, the settled history ends.
LEMMA SettledIs ==
    ASSUME Types, IInv, NEW r \in Runs, NEW s \in Sessions, Holds(r, s),
           NEW n \in 0..Len(messages[s]), NEW e \in Seq(Message),
           Parted(r, messages[s], n, e), Len(e) = Len(messages[s]) - n
    PROVE  Settled(s) = SubSeq(messages[s], 1, n)
<1>1. \A q \in Runs : Holds(q, s) <=> q = r
  BY DEF IInv, Leases, Holds
<1>2. (CHOOSE q \in Runs : Holds(q, s)) = r
  BY <1>1
<1>3. PICK h, all : h = messages[s] /\ all = {"user", "assistant", "tool"}
  OBVIOUS
<1>4. Settled(s) = SubSeq(h, 1, Len(h) - Cardinality(WrittenBy(r, all)))
  BY <1>1, <1>2, <1>3 DEF Settled
<1>5. h \in Seq(Message) /\ Len(h) \in Nat /\ Len(e) \in Nat
  BY <1>3, LenProperties DEF Types
<1>6. Cardinality(WrittenBy(r, all)) = Cardinality(OfRole(e, all))
  <2>1. Cardinality(By(h, r, all)) = Cardinality(OfRole(e, all))
    BY <1>3, <1>5, OwnMessages
  <2>2. WrittenBy(r, all) = By(h, r, all)
    BY <1>3 DEF WrittenBy, By, Holds
  <2> QED BY <2>1, <2>2
<1>7. OfRole(e, all) = 1..Len(e)
  <2>1. \A k \in 1..Len(e) : e[k] \in Message
    BY ElementOfSeq
  <2> QED BY <1>3, <2>1 DEF Message, OfRole
<1>8. Cardinality(1..Len(e)) = Len(e)
  <2>1. PICK m : m = Len(e)
    OBVIOUS
  <2>2. m \in Nat
    BY <1>5, <2>1
  <2>3. Cardinality(1..m) = m
    BY <2>2, FS_Interval
  <2> QED BY <2>1, <2>3
<1>9. Len(h) - Len(e) = n
  BY <1>3, <1>5
<1> QED BY <1>3, <1>4, <1>6, <1>7, <1>8, <1>9

LEMMA SettledThen ==
    ASSUME NEW r \in Runs, NEW s \in Sessions, NEW n, NEW e
    PROVE  (/\ Types /\ IInv /\ Holds(r, s)
            /\ n \in 0..Len(messages[s]) /\ e \in Seq(Message)
            /\ Parted(r, messages[s], n, e) /\ Len(e) = Len(messages[s]) - n
            => Settled(s) = SubSeq(messages[s], 1, n))'
<1>1. /\ Types /\ IInv /\ Holds(r, s)
      /\ n \in 0..Len(messages[s]) /\ e \in Seq(Message)
      /\ Parted(r, messages[s], n, e) /\ Len(e) = Len(messages[s]) - n
      => Settled(s) = SubSeq(messages[s], 1, n)
  BY SettledIs
<1> QED BY <1>1, PTL

LEMMA SettledFree ==
    ASSUME NEW s \in Sessions, \A r \in Runs : ~Holds(r, s)
    PROVE  Settled(s) = messages[s]
  BY DEF Settled

LEMMA SettledFreeThen ==
    ASSUME NEW s \in Sessions
    PROVE  ((\A r \in Runs : ~Holds(r, s)) => Settled(s) = messages[s])'
<1>1. (\A r \in Runs : ~Holds(r, s)) => Settled(s) = messages[s]
  BY SettledFree
<1> QED BY <1>1, PTL

LEMMA HolderPart ==
    ASSUME Follows, IInv, NEW r \in Runs, NEW s \in Sessions, Holds(r, s)
    PROVE  \E n \in 0..Len(messages[s]) : \E e \in Seq(Message) :
              /\ e = SubSeq(messages[s], n + 1, Len(messages[s]))
              /\ Said(r, e) /\ Parted(r, messages[s], n, e)
              /\ Len(e) = Len(messages[s]) - n
              /\ Settled(s) = SubSeq(messages[s], 1, n)
<1>1. Types /\ Place(r) /\ sess[r] = s /\ pc[r] \in Holding
  BY DEF Follows, Holds
<1>2. PICK n \in 0..Len(messages[s]), e \in Seq(Message) :
              /\ e = SubSeq(messages[s], n + 1, Len(messages[s]))
              /\ Said(r, e) /\ Parted(r, messages[s], n, e)
              /\ Len(e) = Len(messages[s]) - n
  BY <1>1, OwnTurns
<1>3. Settled(s) = SubSeq(messages[s], 1, n)
  BY <1>1, <1>2, SettledIs
<1> QED BY <1>2, <1>3

\* A session whose holder and messages stay.
LEMMA SettledStays ==
    ASSUME Follows, IInv, Follows', IInv', NEW s \in Sessions,
           messages'[s] = messages[s],
           \A q \in Runs : Holds(q, s)' <=> Holds(q, s)
    PROVE  Settled(s)' = Settled(s)
<1>1. PICK h : h = messages[s]
  OBVIOUS
<1>2. ASSUME NEW r \in Runs, Holds(r, s) PROVE Settled(s)' = Settled(s)
  <2>1. PICK n \in 0..Len(h), e \in Seq(Message) :
              /\ Parted(r, h, n, e) /\ Len(e) = Len(h) - n
              /\ Settled(s) = SubSeq(h, 1, n)
    BY <1>1, <1>2, HolderPart
  <2>2. Types' /\ IInv' /\ Holds(r, s)'
    BY <1>2 DEF Follows
  <2>3. (/\ Types /\ IInv /\ Holds(r, s)
         /\ n \in 0..Len(messages[s]) /\ e \in Seq(Message)
         /\ Parted(r, messages[s], n, e) /\ Len(e) = Len(messages[s]) - n
         => Settled(s) = SubSeq(messages[s], 1, n))'
    BY SettledThen
  <2>4. messages'[s] = h
    BY <1>1
  <2>5. Parted(r, messages[s], n, e)'
    BY <2>1, <2>4 DEF Parted
  <2>6. (Settled(s))' = SubSeq(messages'[s], 1, n)
    BY <2>1, <2>2, <2>3, <2>4, <2>5
  <2> QED BY <2>1, <2>4, <2>6
<1>3. CASE \A r \in Runs : ~Holds(r, s)
  <2>1. Settled(s) = messages[s]
    BY <1>3, SettledFree
  <2>2. (\A r \in Runs : ~Holds(r, s))'
    BY <1>3
  <2>3. Settled(s)' = messages'[s]
    BY <2>2, SettledFreeThen
  <2> QED BY <2>1, <2>3
<1> QED BY <1>2, <1>3

Hidden == [s \in Sessions |-> Settled(s)]

LEMMA HiddenStays ==
    ASSUME \A s \in Sessions : Settled(s)' = Settled(s)
    PROVE  Hidden' = Hidden
  BY DEF Hidden

LEMMA LeaseHolders ==
    ASSUME IInv, NEW s \in Sessions, ~active[s], NEW r \in Runs
    PROVE  ~Holds(r, s)
  BY DEF IInv, Leases, Holds

\* Taking the lease hides nothing yet.
LEMMA StartHides ==
    ASSUME Follows, IInv, Follows', IInv', NEW r \in Runs, NEW s \in Sessions,
           Start(r, s)
    PROVE  Hidden' = Hidden
<1>1. /\ pc[r] = "idle" /\ pc'[r] = "leased" /\ sess'[r] = s /\ ~active[s]
      /\ messages' = messages
      /\ \A q \in Runs : q # r => pc'[q] = pc[q] /\ sess'[q] = sess[q]
  BY Went, Functional, Elsewhere DEF Follows, Start, Acquire, GoTo, Labels
<1>2. ASSUME NEW u \in Sessions, u # s PROVE Settled(u)' = Settled(u)
  <2>1. \A q \in Runs : Holds(q, u)' <=> Holds(q, u)
    BY <1>1, <1>2 DEF Holds, Holding, Labels
  <2> QED BY <1>1, <2>1, SettledStays
<1>3. Settled(s)' = Settled(s)
  <2>1. PICK h, n : h = messages[s] /\ n = Len(h)
    OBVIOUS
  <2>2. h \in Seq(Message) /\ Types'
    BY <2>1 DEF Follows, Types
  <2>3. \A q \in Runs : ~Holds(q, s)
    BY <1>1, LeaseHolders
  <2>4. Settled(s) = h
    BY <2>1, <2>3, SettledFree
  <2>5. Holds(r, s)' /\ messages'[s] = h
    BY <1>1, <2>1 DEF Holds, Holding, Labels
  <2>6. /\ n \in 0..Len(h) /\ <<>> \in Seq(Message) /\ n \in Nat
        /\ SubSeq(h, n + 1, Len(h)) = <<>> /\ Len(<<>>) = n - n
    <3>1. n \in 0..Len(h) /\ SubSeq(h, n + 1, Len(h)) = <<>> /\ n \in Nat
      BY <2>1, <2>2, NothingLeft, LenProperties
    <3>2. <<>> \in Seq(Message) /\ Len(<<>>) = 0 /\ n - n = 0
      BY <3>1, EmptySeq
    <3> QED BY <3>1, <3>2
  <2>7. Parted(r, h, n, <<>>)
    <3>1. \A k \in 1..n : h[k].by # r
      BY <1>1, <2>1, PlaceCases DEF Follows, Silent, Outside
    <3>2. Len(<<>>) = 0 /\ 1..0 = {}
      BY EmptySeq
    <3> QED BY <2>6, <3>1, <3>2 DEF Parted
  <2>8. (/\ Types /\ IInv /\ Holds(r, s)
         /\ n \in 0..Len(messages[s]) /\ <<>> \in Seq(Message)
         /\ Parted(r, messages[s], n, <<>>) /\ Len(<<>>) = Len(messages[s]) - n
         => Settled(s) = SubSeq(messages[s], 1, n))'
    BY SettledThen
  <2>9. Parted(r, messages[s], n, <<>>)'
    BY <2>5, <2>7 DEF Parted
  <2>10. Settled(s)' = SubSeq(h, 1, n)
    BY <2>1, <2>2, <2>5, <2>6, <2>8, <2>9
  <2>11. SubSeq(h, 1, n) = h
    BY <2>1, <2>2, SubSeqFull
  <2> QED BY <2>4, <2>10, <2>11
<1> QED BY <1>2, <1>3, HiddenStays

\* What the holder appends is hidden.
LEMMA AppendHides ==
    ASSUME Follows, IInv, Follows', IInv', NEW r \in Runs, NEW s \in Sessions,
           Holds(r, s), NEW m \in Message, m.by = r,
           messages'[s] = Append(messages[s], m),
           \A q \in Runs : Holds(q, s)' <=> Holds(q, s)
    PROVE  Settled(s)' = Settled(s)
<1>1. PICK h, g : h = messages[s] /\ g = Append(h, m)
  OBVIOUS
<1>2. PICK n \in 0..Len(h), e \in Seq(Message) :
            /\ e = SubSeq(h, n + 1, Len(h))
            /\ Parted(r, h, n, e) /\ Len(e) = Len(h) - n
            /\ Settled(s) = SubSeq(h, 1, n)
  BY <1>1, HolderPart
<1>3. h \in Seq(Message) /\ Types' /\ Holds(r, s)' /\ messages'[s] = g
  BY <1>1 DEF Follows, Types
<1>4. PICK f : f = Append(e, m)
  OBVIOUS
<1>5. /\ Len(h) \in Nat /\ Len(g) = Len(h) + 1 /\ f \in Seq(Message)
      /\ Len(f) = Len(e) + 1 /\ Len(e) \in Nat
      /\ \A k \in 1..Len(h) : g[k] = h[k]
      /\ \A k \in 1..Len(e) : f[k] = e[k]
      /\ f[Len(e) + 1] = m
      /\ 1..(Len(e) + 1) = (1..Len(e)) \cup {Len(e) + 1}
  BY <1>1, <1>3, <1>4, Longer
<1>6. /\ SubSeq(g, 1, n) = SubSeq(h, 1, n)
      /\ f = SubSeq(g, n + 1, Len(g))
  <2>1. /\ SubSeq(Append(h, m), 1, n) = SubSeq(h, 1, n)
        /\ SubSeq(Append(h, m), n + 1, Len(h) + 1) =
             Append(SubSeq(h, n + 1, Len(h)), m)
    BY <1>2, <1>3, Growing
  <2> QED BY <1>1, <1>2, <1>4, <1>5, <2>1
<1>7. Parted(r, g, n, f)
  <2>1. \A k \in 1..n : h[k].by # r /\ k \in 1..Len(h)
    BY <1>2, <1>5 DEF Parted
  <2>2. \A k \in 1..Len(e) : e[k].by = r
    BY <1>2 DEF Parted
  <2>3. \A k \in 1..Len(f) : f[k].by = r
    BY <1>5, <2>2
  <2> QED BY <1>5, <1>6, <2>1, <2>3 DEF Parted
<1>8. n \in 0..Len(g) /\ Len(f) = Len(g) - n
  BY <1>2, <1>5
<1>9. (/\ Types /\ IInv /\ Holds(r, s)
       /\ n \in 0..Len(messages[s]) /\ f \in Seq(Message)
       /\ Parted(r, messages[s], n, f) /\ Len(f) = Len(messages[s]) - n
       => Settled(s) = SubSeq(messages[s], 1, n))'
  BY SettledThen
<1>10. Parted(r, messages[s], n, f)'
  BY <1>3, <1>7 DEF Parted
<1>11. Settled(s)' = SubSeq(g, 1, n)
  BY <1>3, <1>5, <1>8, <1>9, <1>10
<1> QED BY <1>2, <1>6, <1>11

\* The lease is given back: the whole exchange appears.
LEMMA FinishShows ==
    ASSUME Follows, IInv, Follows', IInv', NEW r \in Runs, Finish(r)
    PROVE  \E s \in Sessions :
              /\ Len(Settled(s)') > Len(Settled(s))
              /\ SubSeq(Settled(s)', 1, Len(Settled(s))) = Settled(s)
              /\ Exchange(r, SubSeq(Settled(s)', Len(Settled(s)) + 1, Len(Settled(s)')))
              /\ \A u \in Sessions : u # s => Settled(u)' = Settled(u)
<1>1. /\ pc[r] \in {"returning", "throwing"} /\ pc'[r] \in {"returned", "threw"}
      /\ sess' = sess /\ messages' = messages
      /\ \A q \in Runs : q # r => pc'[q] = pc[q]
  BY Went, Functional, Elsewhere DEF Follows, Finish, Release, GoTo, Labels
<1>2. PICK s \in Sessions : s = sess[r] /\ Holds(r, s)
  BY <1>1 DEF IInv, Leases, Holds, Holding, Labels
<1>3. PICK h : h = messages[s]
  OBVIOUS
<1>4. PICK n \in 0..Len(h), e \in Seq(Message) :
            /\ e = SubSeq(h, n + 1, Len(h))
            /\ Said(r, e) /\ Len(e) = Len(h) - n
            /\ Settled(s) = SubSeq(h, 1, n)
  BY <1>2, <1>3, HolderPart
<1>5. h \in Seq(Message) /\ Len(h) \in Nat /\ Len(e) \in Nat
  BY <1>3, LenProperties DEF Follows, Types
<1>6. Settled(s)' = h
  <2>1. \A q \in Runs : Holds(q, s) => q = r
    BY <1>2 DEF IInv, Leases, Holds
  <2>2. \A q \in Runs : ~(sess'[q] = s /\ pc'[q] \in Holding)
    BY <1>1, <2>1 DEF Holds, Holding, Labels
  <2>3. (\A q \in Runs : ~Holds(q, s))'
    BY <2>2 DEF Holds
  <2> QED BY <1>1, <1>3, <2>3, SettledFreeThen
<1>7. Begun(r, e) /\ AllAnswered(e)
  BY <1>1, <1>4 DEF Said
<1>8. Exchange(r, e) /\ e # <<>>
  BY <1>5, <1>7, WholeExchange DEF Begun
<1>9. Len(Settled(s)) = n /\ n \in Nat
  <2>1. \A k \in 1..n : h[k] \in Message
    <3>1. \A k \in 1..Len(h) : h[k] \in Message
      BY <1>5, ElementOfSeq
    <3> QED BY <1>5, <3>1
  <2>2. n \in Int /\ n \in Nat
    BY <1>5
  <2>3. Len(SubSeq(h, 1, n)) = (IF 1 <= n THEN n - 1 + 1 ELSE 0)
    BY <2>1, <2>2, SubSeqProperties
  <2> QED BY <1>4, <2>2, <2>3
<1>10. n < Len(h)
  <2>1. Len(e) # 0
    BY <1>8, EmptySeq
  <2> QED BY <1>4, <1>5, <1>9, <2>1
<1>11. ASSUME NEW u \in Sessions, u # s PROVE Settled(u)' = Settled(u)
  <2>1. \A q \in Runs : Holds(q, u)' <=> Holds(q, u)
    BY <1>1, <1>2, <1>11 DEF Holds
  <2> QED BY <1>1, <2>1, SettledStays
<1>12. /\ Len(h) > Len(Settled(s))
       /\ SubSeq(h, 1, Len(Settled(s))) = Settled(s)
       /\ Exchange(r, SubSeq(h, Len(Settled(s)) + 1, Len(h)))
  BY <1>4, <1>5, <1>8, <1>9, <1>10
<1> QED BY <1>6, <1>11, <1>12

\* Any other step of a run is invisible.
LEMMA WorkHides ==
    ASSUME Follows, IInv, Follows', IInv', NEW r \in Runs, StepOf(r), ~Finish(r)
    PROVE  Hidden' = Hidden
<1>1. CASE \E s \in Sessions : Start(r, s)
  BY <1>1, StartHides
<1>2. CASE \E s \in Sessions : StartRefused(r, s)
  <2>1. /\ pc[r] = "idle" /\ pc'[r] = "refused" /\ sess' = sess
        /\ messages' = messages
        /\ \A q \in Runs : q # r => pc'[q] = pc[q]
    BY <1>2, Went, Functional, Elsewhere
       DEF Follows, StartRefused, GoTo, sessionVars, Labels
  <2>2. \A u \in Sessions : \A q \in Runs : Holds(q, u)' <=> Holds(q, u)
    BY <2>1 DEF Holds, Holding, Labels
  <2>3. \A u \in Sessions : Settled(u)' = Settled(u)
    BY <2>1, <2>2, SettledStays
  <2> QED BY <2>3, HiddenStays
<1>3. CASE ToolStep(r)
  <2>1. pc' = pc /\ sess' = sess /\ messages' = messages
    BY <1>3 DEF ToolStep, clientVars, sessionVars
  <2>2. \A u \in Sessions : \A q \in Runs : Holds(q, u)' <=> Holds(q, u)
    BY <2>1 DEF Holds
  <2>3. \A u \in Sessions : Settled(u)' = Settled(u)
    BY <2>1, <2>2, SettledStays
  <2> QED BY <2>3, HiddenStays
<1>4. CASE RunStep(r)
  <2>1. /\ pc[r] \in Holding /\ pc'[r] \in Holding /\ sess' = sess
        /\ \A q \in Runs : q # r => pc'[q] = pc[q]
    <3>1. CASE QuietStep(r)
      <4>1. CASE ReadSystem(r) \/ ReadMessages(r) \/ Count(r)
                 \/ \E resp \in Responses : ProviderReturns(r, resp)
        BY <4>1, Went, Functional, Elsewhere
           DEF Follows, ReadSystem, ReadMessages, ProviderReturns, Count, GoTo,
               Labels, Holding
      <4>2. CASE ProviderThrows(r) \/ RejectResponse(r) \/ ExhaustRounds(r)
        BY <4>2, Went, Functional, Elsewhere
           DEF Follows, ProviderThrows, RejectResponse, ExhaustRounds, Throw,
               GoTo, Labels, Holding
      <4>3. CASE CollectResults(r) \/ StopOnToolError(r) \/ NextRound(r)
        BY <4>3, Went, Functional, Elsewhere
           DEF Follows, CollectResults, StopOnToolError, NextRound, AllAppended,
               Return, GoTo, Labels, Holding
      <4> QED BY <3>1, <4>1, <4>2, <4>3 DEF QuietStep
    <3>2. CASE AppendInput(r) \/ AppendResult(r)
      BY <3>2, Went, Functional, Elsewhere
         DEF Follows, AppendInput, AppendResult, GoTo, Labels, Holding
    <3>3. CASE AppendsResponse(r)
      BY <3>3, Went, Functional, Elsewhere
         DEF Follows, AppendsResponse, AcceptFinal, AcceptContinuation,
             AcceptCalls, Return, GoTo, Labels, Holding
    <3> QED BY <1>4, <3>1, <3>2, <3>3 DEF RunStep, QuietStep, AppendsResponse
  <2>2. \A u \in Sessions : \A q \in Runs : Holds(q, u)' <=> Holds(q, u)
    BY <2>1 DEF Holds
  <2>3. Touches(r)
    BY StepWrites DEF Follows
  <2>4. CASE messages' = messages
    <3>1. \A u \in Sessions : Settled(u)' = Settled(u)
      BY <2>2, <2>4, SettledStays
    <3> QED BY <3>1, HiddenStays
  <2>5. CASE messages' # messages
    <3>1. PICK m \in Message : m.by = r /\ AppendFromClient(sess[r], m)
      BY <2>3, <2>5 DEF Touches
    <3>2. PICK s \in Sessions : s = sess[r] /\ Holds(r, s)
      BY <2>1 DEF IInv, Leases, Holds
    <3>3. /\ messages'[s] = Append(messages[s], m)
          /\ \A u \in Sessions : u # s => messages'[u] = messages[u]
      BY <3>1, <3>2, SaidMore DEF Follows
    <3>4. Settled(s)' = Settled(s)
      BY <2>2, <3>1, <3>2, <3>3, AppendHides
    <3>5. \A u \in Sessions : u # s => Settled(u)' = Settled(u)
      BY <2>2, <3>3, SettledStays
    <3>6. \A u \in Sessions : Settled(u)' = Settled(u)
      BY <3>4, <3>5
    <3> QED BY <3>6, HiddenStays
  <2> QED BY <2>4, <2>5
<1> QED BY <1>1, <1>2, <1>3, <1>4 DEF StepOf

\* The public operations are what they seem.
LEMMA EditShows ==
    ASSUME Follows, IInv, Follows', IInv', NEW s \in Sessions, EditStep(s)
    PROVE  \/ Hidden' = Hidden
           \/ Hidden' = [Hidden EXCEPT ![s] = Append(Hidden[s], Imported)]
           \/ Hidden' = [Hidden EXCEPT ![s] = <<>>]
<1>1. /\ ~active[s] /\ pc' = pc /\ sess' = sess
      /\ \/ messages' = messages
         \/ messages' = [messages EXCEPT ![s] = Append(messages[s], Imported)]
         \/ messages' = [messages EXCEPT ![s] = <<>>]
  BY EditDoes DEF Follows, clientVars
<1>2. \A u \in Sessions : \A q \in Runs : Holds(q, u)' <=> Holds(q, u)
  BY <1>1 DEF Holds
<1>3. \A q \in Runs : ~Holds(q, s)
  BY <1>1, LeaseHolders
<1>4. Settled(s) = messages[s]
  BY <1>3, SettledFree
<1>5. Settled(s)' = messages'[s]
  <2>1. (\A q \in Runs : ~Holds(q, s))'
    BY <1>2, <1>3
  <2> QED BY <2>1, SettledFreeThen
<1>6. \A u \in Sessions : u # s => Settled(u)' = Settled(u)
  <2>1. \A u \in Sessions : u # s => messages'[u] = messages[u]
    BY <1>1 DEF Follows, Types
  <2> QED BY <1>2, <2>1, SettledStays
<1>7. CASE messages' = messages
  BY <1>4, <1>5, <1>6, <1>7 DEF Hidden
<1>8. CASE messages' = [messages EXCEPT ![s] = Append(messages[s], Imported)]
  <2>1. Settled(s)' = Append(Settled(s), Imported)
    BY <1>4, <1>5, <1>8 DEF Follows, Types
  <2> QED BY <1>6, <2>1 DEF Hidden
<1>9. CASE messages' = [messages EXCEPT ![s] = <<>>]
  <2>1. Settled(s)' = <<>>
    BY <1>5, <1>9 DEF Follows, Types
  <2> QED BY <1>6, <2>1 DEF Hidden
<1> QED BY <1>1, <1>7, <1>8, <1>9

\* Whoever respects the lease sees each generation, successful or not, as one
\* step that adds one whole exchange: AIClient implements Conversation.
THEOREM Implements == Spec => ImplementsConversation
<1>1. Init => Atomic!Init
  <2> SUFFICES ASSUME Init PROVE Atomic!Init
    OBVIOUS
  <2>1. \A s \in Sessions : Settled(s) = <<>>
    BY SettledFree DEF Init, SessionInit, Holds, Holding
  <2> QED BY <2>1 DEF Atomic!Init
<1>2. /\ Follows /\ IInv /\ Follows' /\ IInv' /\ [Next]_vars
      => [Atomic!Next]_Hidden
  <2> SUFFICES ASSUME Follows, IInv, Follows', IInv', [Next]_vars
               PROVE  [Atomic!Next]_Hidden
    OBVIOUS
  <2>1. ASSUME NEW r \in Runs, StepOf(r) PROVE [Atomic!Next]_Hidden
    <3>1. CASE Finish(r)
      <4>1. PICK s \in Sessions :
              /\ Len(Settled(s)') > Len(Settled(s))
              /\ SubSeq(Settled(s)', 1, Len(Settled(s))) = Settled(s)
              /\ Exchange(r, SubSeq(Settled(s)', Len(Settled(s)) + 1, Len(Settled(s)')))
              /\ \A u \in Sessions : u # s => Settled(u)' = Settled(u)
        BY <3>1, FinishShows
      <4>2. Atomic!Exchanged(Settled(s), Settled(s)', r)
        BY <4>1, AtomicData DEF Atomic!Exchanged
      <4>3. Atomic!Generate(s, r)
        BY <4>1, <4>2 DEF Atomic!Generate
      <4> QED BY <4>3 DEF Atomic!Next
    <3>2. CASE ~Finish(r)
      BY <2>1, <3>2, WorkHides
    <3> QED BY <3>1, <3>2
  <2>2. ASSUME NEW s \in Sessions, EditStep(s) PROVE [Atomic!Next]_Hidden
    <3>1. \/ Hidden' = Hidden
          \/ Hidden' = [Hidden EXCEPT ![s] = Append(Hidden[s], Imported)]
          \/ Hidden' = [Hidden EXCEPT ![s] = <<>>]
      BY <2>2, EditShows
    <3>2. CASE Hidden' = [Hidden EXCEPT ![s] = Append(Hidden[s], Imported)]
      <4>1. Atomic!Import(s)
        BY <3>2, AtomicData DEF Atomic!Import, Hidden
      <4> QED BY <4>1 DEF Atomic!Next
    <3>3. CASE Hidden' = [Hidden EXCEPT ![s] = <<>>]
      <4>1. Atomic!Clear(s)
        BY <3>3 DEF Atomic!Clear, Hidden
      <4> QED BY <4>1 DEF Atomic!Next
    <3> QED BY <3>1, <3>2, <3>3
  <2>3. CASE UNCHANGED vars
    <3>1. messages' = messages /\ pc' = pc /\ sess' = sess
      BY <2>3 DEF vars, sessionVars, clientVars
    <3>2. \A u \in Sessions : \A q \in Runs : Holds(q, u)' <=> Holds(q, u)
      BY <3>1 DEF Holds
    <3>3. \A u \in Sessions : Settled(u)' = Settled(u)
      BY <3>1, <3>2, SettledStays
    <3> QED BY <3>3, HiddenStays
  <2>4. ASSUME NEW r \in Runs, NEW s \in Sessions, Start(r, s) \/ StartRefused(r, s)
        PROVE  [Atomic!Next]_Hidden
    BY <2>1, <2>4 DEF StepOf
  <2>5. ASSUME NEW r \in Runs, RunStep(r) \/ ToolStep(r)
        PROVE  [Atomic!Next]_Hidden
    BY <2>1, <2>5 DEF StepOf
  <2> QED BY <2>2, <2>3, <2>4, <2>5 DEF Next
<1>3. Spec => []IInv /\ []Follows
  BY Inductive, Following
<1> QED BY <1>1, <1>2, <1>3, PTL
        DEF Spec, ImplementsConversation, Atomic!Spec, Hidden
=============================================================================
