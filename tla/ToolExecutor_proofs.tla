------------------------ MODULE ToolExecutor_proofs ------------------------
(***************************************************************************)
(* What ToolExecutor guarantees for every set of runs and Tools and every  *)
(* value of the limits, and that it implements the contract ToolBatch.     *)
(***************************************************************************)
EXTENDS ToolExecutor, TLAPS

(***************************************************************************)
(* The inductive invariant.  RunInv describes the thread of one run: calls *)
(* are handed to execute_tool in request order (Handed), results are       *)
(* collected in request order, and the futures are the calls in between.   *)
(***************************************************************************)
Handed(r) ==
    IF phase[r] = "idle" THEN 0
    ELSE IF phase[r] \in {"launch", "collect", "drain"}
         THEN offset[r] + launched[r]
    ELSE IF phase[r] = "inline" THEN index[r] - 1
    ELSE IF phase[r] = "await" THEN index[r]
    ELSE Total(r)

Batching(r) == phase[r] \in {"launch", "collect", "drain"}

CallsInv(r) ==
    IF phase[r] = "idle"
    THEN /\ calls[r] = <<>> /\ offset[r] = 0 /\ launched[r] = 0
         /\ index[r] = 1 /\ results[r] = <<>>
    ELSE calls[r] \in Requests

HandedInv(r) ==
    /\ Handed(r) <= Total(r)
    /\ \A i \in Indices : job[r][i] = "none" <=> i > Handed(r)

ResultsInv(r) ==
    /\ Len(results[r]) <= Handed(r)
    /\ \A k \in 1..Len(results[r]) :
          Ended(r, k) /\ results[r][k] = [call |-> k, out |-> job[r][k]]

FuturesInv(r) ==
    IF Batching(r)
    THEN /\ Len(futures[r]) = Handed(r) - Len(results[r])
         /\ \A k \in 1..Len(futures[r]) : futures[r][k] = Len(results[r]) + k
    ELSE futures[r] = <<>>

PhaseInv(r) ==
    /\ Batching(r) =>
          /\ r \in ParallelRuns
          /\ offset[r] < Total(r)
          /\ offset[r] <= Len(results[r])
          /\ launched[r] <= Parallelism(r)
    /\ phase[r] \in {"launch", "drain"} => offset[r] + launched[r] < BatchEnd(r)
    /\ phase[r] = "launch" => Len(results[r]) = offset[r]
    /\ phase[r] = "collect" => offset[r] + launched[r] = BatchEnd(r)
    /\ phase[r] \in {"inline", "await"} =>
          index[r] <= Total(r) /\ Len(results[r]) = index[r] - 1
    /\ phase[r] = "returned" => Len(results[r]) = Total(r)

RunInv(r) ==
    CallsInv(r) /\ HandedInv(r) /\ ResultsInv(r) /\ FuturesInv(r) /\ PhaseInv(r)

\* Who is inside Tool::invoke holds the mutex of the Tool it called.
OwnerInv ==
    \A r \in Runs : \A i \in Indices : job[r][i] = "invoking" =>
        /\ i \in Numbered(r) /\ calls[r][i] \in Tools
        /\ owner[calls[r][i]] = <<r, i>>

CountInv ==
    \A r \in Runs : \A i \in Indices :
        invocations[r][i] =
            IF /\ i \in Numbered(r) /\ calls[r][i] \in Tools
               /\ job[r][i] \in {"invoking"} \cup Outcome
            THEN 1 ELSE 0

IInv ==
    /\ TypeOK
    /\ \A r \in Runs : RunInv(r)
    /\ OwnerInv
    /\ CountInv

(***************************************************************************)
(* Facts about the data.                                                   *)
(***************************************************************************)
\* A request is a non-empty sequence of at most MaxCalls calls.
LEMMA RequestFacts ==
    ASSUME NEW cs \in Requests
    PROVE  /\ cs \in Seq(Call)
           /\ Len(cs) \in Indices
           /\ \A i \in 1..Len(cs) : i \in Indices /\ cs[i] \in Call
<1>1. PICK n \in Indices : cs \in [1..n -> Call]
  BY DEF Requests
<1>2. n \in Nat /\ n <= MaxCalls /\ Len(cs) = n
  BY <1>1, LimitsAssumption DEF Indices
<1>3. QED
  BY <1>1, <1>2, LimitsAssumption DEF Indices

\* Every run's call list is a sequence, empty before the request.
LEMMA CallsFacts ==
    ASSUME TypeOK, NEW r \in Runs
    PROVE  /\ calls[r] \in Seq(Call)
           /\ Total(r) \in Nat /\ Total(r) <= MaxCalls
           /\ phase[r] # "idle" /\ CallsInv(r) => Total(r) >= 1
           /\ \A i \in Numbered(r) : i \in Indices /\ calls[r][i] \in Call
<1>1. CASE calls[r] = <<>>
  <2>1. ~(<<>> \in Requests)
    BY RequestFacts, LimitsAssumption DEF Indices
  <2>2. QED
    BY <1>1, <2>1, LimitsAssumption DEF Total, Numbered, CallsInv
<1>2. CASE calls[r] \in Requests
  BY <1>2, RequestFacts, LimitsAssumption DEF Total, Numbered, Indices
<1>3. QED
  BY <1>1, <1>2 DEF TypeOK

\* The types of one run's variables.
LEMMA RunFacts ==
    ASSUME TypeOK, NEW r \in Runs
    PROVE  /\ offset[r] \in Nat /\ launched[r] \in Nat
           /\ index[r] \in Nat /\ index[r] >= 1
           /\ futures[r] \in Seq(Indices) /\ Len(futures[r]) \in Nat
           /\ results[r] \in Seq(Execution) /\ Len(results[r]) \in Nat
           /\ job[r] \in [Indices -> JobStates]
           /\ phase[r] \in Phases
           /\ Total(r) \in Nat
<1>1. /\ offset[r] \in Nat /\ launched[r] \in Nat
      /\ index[r] \in Nat /\ index[r] >= 1
      /\ job[r] \in [Indices -> JobStates] /\ phase[r] \in Phases
  BY DEF TypeOK
<1>2. futures[r] \in Seq(Indices) /\ results[r] \in Seq(Execution)
  BY DEF TypeOK
<1>3. Len(futures[r]) \in Nat /\ Len(results[r]) \in Nat
  BY <1>2
<1>4. Total(r) \in Nat
  BY CallsFacts
<1>5. QED
  BY <1>1, <1>2, <1>3, <1>4

\* A batch is non-empty, no longer than the parallelism and within the calls.
LEMMA BatchFacts ==
    ASSUME TypeOK, NEW r \in Runs, Total(r) >= 1
    PROVE  /\ Parallelism(r) \in Nat /\ Parallelism(r) >= 1
           /\ Parallelism(r) <= MaxParallelToolCalls
           /\ BatchEnd(r) \in Nat
           /\ BatchEnd(r) <= Total(r) /\ BatchEnd(r) <= offset[r] + Parallelism(r)
           /\ offset[r] < Total(r) => offset[r] < BatchEnd(r)
           /\ BatchEnd(r) = Total(r) \/ BatchEnd(r) = offset[r] + Parallelism(r)
<1>1. Total(r) \in Nat /\ offset[r] \in Nat
  BY CallsFacts DEF TypeOK
<1>2. QED
  BY <1>1, LimitsAssumption DEF Parallelism, BatchEnd, Smaller

\* What a run's invariant says is about that run alone.
RunVars(r) == <<calls[r], phase[r], offset[r], launched[r], index[r],
                futures[r], results[r], job[r]>>

\* A run keeps its invariant when another thread moves.
LEMMA OtherRun ==
    ASSUME NEW r \in Runs, RunInv(r), RunVars(r)' = RunVars(r)
    PROVE  RunInv(r)'
<1>1. /\ calls'[r] = calls[r] /\ phase'[r] = phase[r] /\ offset'[r] = offset[r]
      /\ launched'[r] = launched[r] /\ index'[r] = index[r]
      /\ futures'[r] = futures[r] /\ results'[r] = results[r]
      /\ job'[r] = job[r]
  BY DEF RunVars
<1>2. Total(r)' = Total(r) /\ Handed(r)' = Handed(r)
  BY <1>1 DEF Total, Handed
<1>3. Parallelism(r)' = Parallelism(r) /\ BatchEnd(r)' = BatchEnd(r)
  BY <1>1, <1>2 DEF Parallelism, BatchEnd
<1>4. CallsInv(r)' /\ HandedInv(r)'
  BY <1>1, <1>2 DEF RunInv, CallsInv, HandedInv
<1>5. ResultsInv(r)' /\ FuturesInv(r)'
  BY <1>1, <1>2 DEF RunInv, ResultsInv, FuturesInv, Batching, Ended
<1>6. PhaseInv(r)'
  BY <1>1, <1>2, <1>3 DEF RunInv, PhaseInv, Batching
<1>7. QED
  BY <1>4, <1>5, <1>6 DEF RunInv

(***************************************************************************)
(* The steps of a run's own thread.                                        *)
(***************************************************************************)
\* Enter starts with no call handed out and no result.
LEMMA EnterStep ==
    ASSUME IInv, NEW r \in Runs, NEW cs \in Requests, Enter(r, cs)
    PROVE  IInv'
<1>1. /\ cs \in Seq(Call) /\ Len(cs) \in Nat
      /\ calls'[r] = cs /\ Total(r)' = Len(cs) /\ Len(cs) >= 1
      /\ phase'[r] \in {"inline", "launch"}
  BY RequestFacts, LimitsAssumption DEF Enter, IInv, TypeOK, Total, Indices
<1>2. TypeOK'
  BY DEF Enter, IInv, TypeOK, Phases
<1>3. ASSUME NEW q \in Runs
      PROVE  RunInv(q)'
  <2>1. CASE q # r
    <3>1. RunVars(q)' = RunVars(q)
      BY <2>1 DEF Enter, IInv, TypeOK, RunVars
    <3>2. QED
      BY <3>1, OtherRun DEF IInv
  <2>2. CASE q = r
    <3>1. /\ offset'[r] = 0 /\ launched'[r] = 0 /\ index'[r] = 1
          /\ results'[r] = <<>> /\ futures'[r] = <<>> /\ job'[r] = job[r]
          /\ \A i \in Indices : job[r][i] = "none"
      BY DEF Enter, IInv, RunInv, CallsInv, FuturesInv, Batching, HandedInv,
             Handed, Indices
    <3>2. phase'[r] = "launch" => r \in ParallelRuns
      BY DEF Enter, ExecutesInline, IInv, TypeOK
    <3>3. Handed(r)' = 0
      BY <1>1, <3>1 DEF Handed
    <3>4. CallsInv(r)' /\ HandedInv(r)'
      BY <1>1, <3>1, <3>3, LimitsAssumption DEF CallsInv, HandedInv, Indices
    <3>5. ResultsInv(r)' /\ FuturesInv(r)'
      <4>1. Len(results'[r]) = 0 /\ Len(futures'[r]) = 0
        BY <3>1
      <4>2. ResultsInv(r)'
        BY <3>3, <4>1 DEF ResultsInv
      <4>3. FuturesInv(r)'
        <5>1. Len(futures'[r]) = Handed(r)' - Len(results'[r])
          BY <3>3, <4>1
        <5>2. 1..Len(futures'[r]) = {}
          BY <4>1
        <5>3. futures'[r] = <<>>
          BY <3>1
        <5>4. QED
          BY <5>1, <5>2, <5>3, Zenon DEF FuturesInv
      <4>4. QED
        BY <4>2, <4>3
    <3>6. PhaseInv(r)'
      <4>1. /\ BatchEnd(r)' \in Nat /\ BatchEnd(r)' >= 1
            /\ Parallelism(r)' \in Nat
        BY <1>1, <3>1, LimitsAssumption DEF BatchEnd, Parallelism, Smaller
      <4>2. QED
        BY <1>1, <3>1, <3>2, <4>1 DEF PhaseInv, Batching
    <3>7. QED
      BY <2>2, <3>4, <3>5, <3>6 DEF RunInv
  <2>3. QED
    BY <2>1, <2>2
<1>4. OwnerInv' /\ CountInv'
  <2>1. \A i \in Indices : job[r][i] = "none"
    BY DEF Enter, IInv, RunInv, HandedInv, Handed, Indices
  <2>2. OwnerInv'
    BY <2>1 DEF Enter, IInv, OwnerInv, TypeOK, Numbered, Total
  <2>3. CountInv'
    BY <2>1 DEF Enter, IInv, CountInv, TypeOK, Numbered, Total, Outcome
  <2>4. QED
    BY <2>2, <2>3
<1>5. QED
  BY <1>2, <1>3, <1>4 DEF IInv

\* Launch hands out the next call and appends its future.
LEMMA LaunchStep ==
    ASSUME IInv, NEW r \in Runs, Launch(r)
    PROVE  IInv'
<1> DEFINE n == offset[r] + launched[r] + 1
<1>0. TypeOK /\ RunInv(r)
  BY DEF IInv
<1>1. phase[r] = "launch" /\ Total(r) \in Nat /\ Total(r) >= 1
  BY <1>0, CallsFacts DEF Launch, RunInv
<1>2. /\ offset[r] \in Nat /\ launched[r] \in Nat
      /\ n \in Nat /\ n <= BatchEnd(r) /\ BatchEnd(r) <= Total(r)
      /\ BatchEnd(r) <= offset[r] + Parallelism(r) /\ n >= 1
      /\ BatchEnd(r) \in Nat /\ Parallelism(r) \in Nat
  BY <1>0, <1>1, BatchFacts, RunFacts DEF RunInv, PhaseInv
<1>3. Handed(r) = n - 1
  BY <1>0, <1>1, RunFacts DEF Handed
<1>4. n \in Indices /\ job[r][n] = "none"
  BY <1>0, <1>1, <1>2, <1>3, CallsFacts DEF RunInv, HandedInv, Numbered
<1>5. TypeOK'
  <2>1. futures' \in [Runs -> Seq(Indices)]
    BY <1>0, <1>4 DEF Launch, TypeOK
  <2>2. job' \in [Runs -> [Indices -> JobStates]]
    BY <1>0, <1>4 DEF Launch, TypeOK, JobStates
  <2>3. launched' \in [Runs -> Nat] /\ phase' \in [Runs -> Phases]
    BY <1>0 DEF Launch, TypeOK, Phases
  <2>4. QED
    BY <1>0, <2>1, <2>2, <2>3 DEF Launch, TypeOK
<1>6. ASSUME NEW q \in Runs, q # r
      PROVE  RunInv(q)'
  <2>1. RunVars(q)' = RunVars(q)
    BY <1>6 DEF Launch, IInv, TypeOK, RunVars
  <2>2. QED
    BY <2>1, OtherRun DEF IInv
<1>7. RunInv(r)'
  <2>1. /\ calls'[r] = calls[r] /\ Total(r)' = Total(r)
        /\ offset'[r] = offset[r] /\ launched'[r] = launched[r] + 1
        /\ index'[r] = index[r] /\ results'[r] = results[r]
        /\ futures'[r] = Append(futures[r], n)
        /\ phase'[r] = IF n < BatchEnd(r) THEN "launch" ELSE "collect"
        /\ \A k \in Indices :
              job'[r][k] = IF k = n THEN "waiting" ELSE job[r][k]
    BY <1>0, <1>4 DEF Launch, TypeOK, Total
  <2>2. Handed(r)' = n
    BY <1>0, <2>1, RunFacts DEF Handed
  <2>3. BatchEnd(r)' = BatchEnd(r) /\ Parallelism(r)' = Parallelism(r)
    BY <2>1 DEF BatchEnd, Parallelism
  <2>4. CallsInv(r)'
    BY <1>0, <1>1, <2>1 DEF RunInv, CallsInv
  <2>5. HandedInv(r)'
    <3>1. ASSUME NEW k \in Indices
          PROVE  job'[r][k] = "none" <=> k > n
      <4>1. k \in Nat /\ (job[r][k] = "none" <=> k > n - 1)
        BY <1>0, <1>3, LimitsAssumption DEF RunInv, HandedInv, Indices
      <4>2. QED
        BY <1>2, <2>1, <4>1, SMTT(30)
    <3>2. QED
      BY <1>1, <1>2, <2>1, <2>2, <3>1 DEF HandedInv
  <2>6. ResultsInv(r)'
    <3>1. Len(results[r]) \in Nat /\ Len(results[r]) < n /\ Total(r) <= MaxCalls
      BY <1>0, <1>2, <1>3, CallsFacts, RunFacts DEF RunInv, ResultsInv
    <3>2. ASSUME NEW k \in 1..Len(results[r])
          PROVE  k \in Indices /\ k # n /\ job'[r][k] = job[r][k]
      BY <1>1, <1>2, <2>1, <3>1, LimitsAssumption, SMTT(30) DEF Indices
    <3>3. \A k \in 1..Len(results[r]) :
             Ended(r, k) /\ results[r][k] = [call |-> k, out |-> job[r][k]]
      BY <1>0 DEF RunInv, ResultsInv
    <3>4. Len(results'[r]) <= Handed(r)'
      BY <1>2, <2>1, <2>2, <3>1
    <3>5. QED
      BY <2>1, <3>2, <3>3, <3>4 DEF ResultsInv, Ended
  <2>7. FuturesInv(r)'
    <3>1. Len(futures'[r]) = Len(futures[r]) + 1
      BY <1>0, <2>1, <1>4, RunFacts
    <3>2. \A k \in 1..Len(futures'[r]) :
             futures'[r][k] = IF k <= Len(futures[r]) THEN futures[r][k] ELSE n
      BY <1>0, <2>1, <1>4, RunFacts
    <3>3. Len(futures[r]) = n - 1 - Len(results[r])
      BY <1>0, <1>1, <1>3 DEF RunInv, FuturesInv, Batching
    <3>4. ASSUME NEW k \in 1..Len(futures'[r])
          PROVE  futures'[r][k] = Len(results'[r]) + k
      <4>1. k \in 1..Len(futures[r]) => futures[r][k] = Len(results[r]) + k
        BY <1>0, <1>1 DEF RunInv, FuturesInv, Batching
      <4>2. QED
        <5>1. /\ Len(futures[r]) \in Nat /\ Len(results[r]) \in Nat
              /\ k \in Nat /\ k >= 1 /\ k <= Len(futures[r]) + 1
          BY <1>0, <3>1, RunFacts
        <5>2. CASE k <= Len(futures[r])
          BY <2>1, <3>2, <4>1, <5>1, <5>2
        <5>3. CASE k = Len(futures[r]) + 1
          <6>1. futures'[r][k] = n
            BY <3>2, <5>1, <5>3
          <6>2. n = Len(results[r]) + k
            BY <1>2, <3>3, <5>1, <5>3
          <6>3. QED
            BY <2>1, <6>1, <6>2
        <5>4. QED
          BY <5>1, <5>2, <5>3
    <3>5. Len(futures'[r]) = n - Len(results'[r])
      BY <1>0, <1>2, <2>1, <3>1, <3>3, RunFacts
    <3>6. QED
      BY <2>1, <2>2, <3>4, <3>5 DEF FuturesInv, Batching
  <2>8. PhaseInv(r)'
    <3>1. /\ r \in ParallelRuns /\ offset[r] < Total(r)
          /\ Len(results[r]) = offset[r]
      BY <1>0, <1>1 DEF RunInv, PhaseInv, Batching
    <3>2. launched[r] + 1 <= Parallelism(r)
      BY <1>0, <1>2, RunFacts
    <3>3. QED
      <4>1. CASE n < BatchEnd(r)
        BY <1>1, <1>2, <2>1, <2>3, <3>1, <3>2, <4>1, SMTT(30) DEF PhaseInv, Batching
      <4>2. CASE n = BatchEnd(r)
        BY <1>1, <1>2, <2>1, <2>3, <3>1, <3>2, <4>2, SMTT(30) DEF PhaseInv, Batching
      <4>3. QED
        BY <1>2, <4>1, <4>2
  <2>9. QED
    BY <2>4, <2>5, <2>6, <2>7, <2>8 DEF RunInv
<1>8. OwnerInv'
  BY <1>4 DEF Launch, IInv, OwnerInv, TypeOK, Numbered, Total
<1>9. CountInv'
  BY <1>4 DEF Launch, IInv, CountInv, TypeOK, Numbered, Total, Outcome
<1>10. QED
  BY <1>5, <1>6, <1>7, <1>8, <1>9 DEF IInv

\* A failed launch leaves at least one call of the batch without a thread.
LEMMA LaunchFailsStep ==
    ASSUME IInv, NEW r \in Runs, LaunchFails(r)
    PROVE  IInv'
<1>0. TypeOK /\ RunInv(r)
  BY DEF IInv
<1>1. TypeOK'
  BY <1>0 DEF LaunchFails, TypeOK, Phases
<1>2. ASSUME NEW q \in Runs, q # r
      PROVE  RunInv(q)'
  <2>1. RunVars(q)' = RunVars(q)
    BY <1>2 DEF LaunchFails, IInv, TypeOK, RunVars
  <2>2. QED
    BY <2>1, OtherRun DEF IInv
<1>3. RunInv(r)'
  <2>1. /\ phase[r] = "launch" /\ phase'[r] = "drain"
        /\ calls' = calls /\ offset' = offset /\ launched' = launched
        /\ index' = index /\ futures' = futures /\ results' = results
        /\ job' = job
    BY <1>0 DEF LaunchFails, TypeOK
  <2>2. Total(r)' = Total(r) /\ Handed(r)' = Handed(r)
    BY <2>1 DEF Total, Handed
  <2>3. BatchEnd(r)' = BatchEnd(r) /\ Parallelism(r)' = Parallelism(r)
    BY <2>1, <2>2 DEF BatchEnd, Parallelism
  <2>4. CallsInv(r)' /\ HandedInv(r)' /\ ResultsInv(r)'
    BY <1>0, <2>1, <2>2 DEF RunInv, CallsInv, HandedInv, ResultsInv, Ended
  <2>5. FuturesInv(r)'
    BY <1>0, <2>1, <2>2 DEF RunInv, FuturesInv, Batching
  <2>6. PhaseInv(r)'
    BY <1>0, <2>1, <2>2, <2>3 DEF RunInv, PhaseInv, Batching
  <2>7. QED
    BY <2>4, <2>5, <2>6 DEF RunInv
<1>4. OwnerInv' /\ CountInv'
  BY DEF LaunchFails, IInv, OwnerInv, CountInv, Numbered, Total
<1>5. QED
  BY <1>1, <1>2, <1>3, <1>4 DEF IInv

\* Collect and Drain: the next future is that of the next uncollected call.
GetStep(r) ==
    /\ phase[r] \in {"collect", "drain"}
    /\ Get(r)
    /\ UNCHANGED <<calls, phase, offset, launched, index, job, owner,
                   invocations>>

\* Dropping the first future renumbers the rest.
LEMMA Regroup ==
    ASSUME NEW a \in Nat, NEW k \in Nat
    PROVE  a + (k + 1) = (a + 1) + k
OBVIOUS

\* Reading the first future yields the result of the next call.
LEMMA GetStepKeeps ==
    ASSUME IInv, NEW r \in Runs, GetStep(r)
    PROVE  IInv'
<1> DEFINE n == Len(results[r]) + 1
<1>0. TypeOK /\ RunInv(r)
  BY DEF IInv
<1>1. /\ futures[r] \in Seq(Indices) /\ Len(futures[r]) \in Nat
      /\ futures[r] # <<>> /\ Len(futures[r]) >= 1
      /\ results[r] \in Seq(Execution) /\ Len(results[r]) \in Nat
      /\ offset[r] \in Nat /\ launched[r] \in Nat /\ Handed(r) \in Nat
      /\ Batching(r)
  BY <1>0, RunFacts DEF GetStep, Get, Handed, Batching
<1>2. /\ Len(futures[r]) = Handed(r) - Len(results[r])
      /\ \A k \in 1..Len(futures[r]) : futures[r][k] = Len(results[r]) + k
  BY <1>0, <1>1 DEF RunInv, FuturesInv
<1>3. Head(futures[r]) = n /\ n \in Indices
  <2>1. Head(futures[r]) = futures[r][1] /\ futures[r][1] \in Indices
    BY <1>1
  <2>2. QED
    BY <1>1, <1>2, <2>1, SMTT(30)
<1>4. /\ Ended(r, n) /\ job[r][n] \in Outcome
      /\ results'[r] = Append(results[r], [call |-> n, out |-> job[r][n]])
      /\ futures'[r] = Tail(futures[r])
      /\ calls' = calls /\ phase' = phase /\ offset' = offset
      /\ launched' = launched /\ index' = index /\ job' = job
      /\ owner' = owner /\ invocations' = invocations
  BY <1>0, <1>3 DEF GetStep, Get, Ended, TypeOK
<1>5. /\ Len(futures'[r]) = Len(futures[r]) - 1
      /\ futures'[r] \in Seq(Indices)
      /\ \A k \in 1..Len(futures'[r]) : futures'[r][k] = futures[r][k + 1]
  BY <1>1, <1>4
<1>6. /\ Len(results'[r]) = n
      /\ results'[r] \in Seq(Execution)
      /\ \A k \in 1..n : results'[r][k] =
            IF k < n THEN results[r][k] ELSE [call |-> n, out |-> job[r][n]]
  <2>1. [call |-> n, out |-> job[r][n]] \in Execution
    BY <1>3, <1>4 DEF Execution
  <2>2. QED
    BY <1>1, <1>4, <2>1
<1>7. TypeOK'
  <2>1. futures' \in [Runs -> Seq(Indices)] /\ results' \in [Runs -> Seq(Execution)]
    BY <1>0, <1>5, <1>6 DEF GetStep, Get, TypeOK
  <2>2. QED
    BY <1>0, <1>4, <2>1 DEF TypeOK
<1>8. ASSUME NEW q \in Runs, q # r
      PROVE  RunInv(q)'
  <2>1. RunVars(q)' = RunVars(q)
    BY <1>8 DEF GetStep, Get, IInv, TypeOK, RunVars
  <2>2. QED
    BY <2>1, OtherRun DEF IInv
<1>9. RunInv(r)'
  <2>1. /\ Total(r)' = Total(r) /\ Handed(r)' = Handed(r)
        /\ Batching(r)' = Batching(r)
    BY <1>4 DEF Total, Handed, Batching
  <2>2. BatchEnd(r)' = BatchEnd(r) /\ Parallelism(r)' = Parallelism(r)
    BY <1>4, <2>1 DEF BatchEnd, Parallelism
  <2>3. CallsInv(r)' /\ HandedInv(r)'
    BY <1>0, <1>1, <1>4, <2>1
    DEF RunInv, CallsInv, HandedInv, Batching
  <2>4. ResultsInv(r)'
    <3>1. n <= Handed(r)
      BY <1>1, <1>2
    <3>2. \A k \in 1..Len(results[r]) :
             Ended(r, k) /\ results[r][k] = [call |-> k, out |-> job[r][k]]
      BY <1>0 DEF RunInv, ResultsInv
    <3>3. ASSUME NEW k \in 1..Len(results'[r])
          PROVE  Ended(r, k)' /\ results'[r][k] = [call |-> k, out |-> job'[r][k]]
      <4>1. CASE k = n
        BY <1>4, <1>6, <4>1 DEF Ended
      <4>2. CASE k # n
        BY <1>1, <1>4, <1>6, <3>2, <4>2 DEF Ended
      <4>3. QED
        BY <4>1, <4>2
    <3>4. QED
      BY <1>6, <2>1, <3>1, <3>3 DEF ResultsInv
  <2>5. FuturesInv(r)'
    <3>1. Len(futures'[r]) = Handed(r)' - Len(results'[r])
      BY <1>1, <1>2, <1>5, <1>6, <2>1
    <3>2. ASSUME NEW k \in 1..Len(futures'[r])
          PROVE  futures'[r][k] = Len(results'[r]) + k
      <4>1. k + 1 \in 1..Len(futures[r]) /\ k \in Nat
        BY <1>1, <1>5
      <4>2. futures'[r][k] = Len(results[r]) + (k + 1)
        BY <1>2, <1>5, <4>1
      <4>3. Len(results'[r]) = Len(results[r]) + 1 /\ Len(results[r]) \in Nat
        BY <1>1, <1>6
      <4>4. Len(results[r]) + (k + 1) = (Len(results[r]) + 1) + k
        BY <4>1, <4>3, Regroup
      <4>5. QED
        BY <4>2, <4>3, <4>4, Zenon
    <3>3. QED
      BY <1>1, <2>1, <3>1, <3>2 DEF FuturesInv
  <2>6. PhaseInv(r)'
    <3>1. phase[r] # "launch"
      BY DEF GetStep
    <3>2. QED
      BY <1>0, <1>1, <1>4, <1>6, <2>1, <2>2, <3>1
      DEF RunInv, PhaseInv, Batching
  <2>7. QED
    BY <2>3, <2>4, <2>5, <2>6 DEF RunInv
<1>10. OwnerInv' /\ CountInv'
  BY <1>4 DEF IInv, OwnerInv, CountInv, Numbered, Total
<1>11. QED
  BY <1>7, <1>8, <1>9, <1>10 DEF IInv

\* A batch ends with all its results, and the offset moves up to them.
LEMMA NextBatchStep ==
    ASSUME IInv, NEW r \in Runs, NextBatch(r)
    PROVE  IInv'
<1>0. TypeOK /\ RunInv(r)
  BY DEF IInv
<1>1. /\ phase[r] = "collect" /\ futures[r] = <<>>
      /\ Total(r) \in Nat /\ Total(r) >= 1
      /\ offset[r] \in Nat /\ launched[r] \in Nat
      /\ Len(results[r]) \in Nat
  BY <1>0, CallsFacts, RunFacts DEF NextBatch, RunInv
<1>2. /\ BatchEnd(r) <= Total(r) /\ BatchEnd(r) \in Nat
      /\ Parallelism(r) \in Nat /\ Parallelism(r) >= 1
      /\ BatchEnd(r) = Total(r) \/ BatchEnd(r) = offset[r] + Parallelism(r)
      /\ BatchEnd(r) <= offset[r] + Parallelism(r)
  BY <1>0, <1>1, BatchFacts
<1>3. /\ Handed(r) = BatchEnd(r) /\ Len(results[r]) = BatchEnd(r)
      /\ r \in ParallelRuns
  <2>1. Handed(r) = BatchEnd(r) /\ r \in ParallelRuns
    BY <1>0, <1>1 DEF RunInv, PhaseInv, Handed, Batching
  <2>2. Len(futures[r]) = 0 /\ Len(futures[r]) = Handed(r) - Len(results[r])
    BY <1>0, <1>1 DEF RunInv, FuturesInv, Batching
  <2>3. QED
    BY <1>1, <1>2, <2>1, <2>2
<1>4. /\ offset'[r] = offset[r] + Parallelism(r) /\ offset'[r] \in Nat
      /\ launched'[r] = 0
      /\ phase'[r] = IF offset'[r] < Total(r) THEN "launch" ELSE "returned"
      /\ calls' = calls /\ index' = index /\ futures' = futures
      /\ results' = results /\ job' = job /\ owner' = owner
      /\ invocations' = invocations
  BY <1>0, <1>1, <1>2 DEF NextBatch, TypeOK
<1>5. TypeOK'
  <2>1. offset' \in [Runs -> Nat] /\ launched' \in [Runs -> Nat]
    BY <1>0, <1>1, <1>2 DEF NextBatch, TypeOK
  <2>2. phase' \in [Runs -> Phases]
    BY <1>0 DEF NextBatch, TypeOK, Phases
  <2>3. QED
    BY <1>0, <1>4, <2>1, <2>2 DEF TypeOK
<1>6. ASSUME NEW q \in Runs, q # r
      PROVE  RunInv(q)'
  <2>1. RunVars(q)' = RunVars(q)
    BY <1>6 DEF NextBatch, IInv, TypeOK, RunVars
  <2>2. QED
    BY <2>1, OtherRun DEF IInv
<1>7. RunInv(r)'
  <2>1. Total(r)' = Total(r) /\ Parallelism(r)' = Parallelism(r)
    BY <1>4 DEF Total, Parallelism
  <2>2. Handed(r)' = Handed(r)
    <3>1. CASE offset'[r] < Total(r)
      BY <1>1, <1>2, <1>3, <1>4, <3>1 DEF Handed
    <3>2. CASE ~(offset'[r] < Total(r))
      <4>1. BatchEnd(r) = Total(r)
        BY <1>1, <1>2, <1>4, <3>2
      <4>2. QED
        BY <1>3, <1>4, <2>1, <3>2, <4>1 DEF Handed
    <3>3. QED
      BY <3>1, <3>2
  <2>3. CallsInv(r)' /\ HandedInv(r)' /\ ResultsInv(r)'
    BY <1>0, <1>1, <1>4, <2>1, <2>2
    DEF RunInv, CallsInv, HandedInv, ResultsInv, Ended
  <2>4. FuturesInv(r)'
    <3>1. Len(futures'[r]) = Handed(r)' - Len(results'[r])
      BY <1>1, <1>2, <1>3, <1>4, <2>2
    <3>2. 1..Len(futures'[r]) = {} /\ futures'[r] = <<>>
      BY <1>1, <1>4
    <3>3. QED
      BY <3>1, <3>2, Zenon DEF FuturesInv
  <2>5. PhaseInv(r)'
    <3>1. CASE offset'[r] < Total(r)
      <4>1. /\ offset'[r] = BatchEnd(r) /\ phase'[r] = "launch"
            /\ Len(results'[r]) = offset'[r]
        BY <1>1, <1>2, <1>3, <1>4, <3>1
      <4>2. BatchEnd(r)' \in Nat /\ offset'[r] < BatchEnd(r)'
        BY <1>1, <1>2, <1>4, <2>1, <3>1 DEF BatchEnd, Smaller
      <4>3. QED
        BY <1>1, <1>2, <1>3, <1>4, <2>1, <3>1, <4>1, <4>2
        DEF PhaseInv, Batching
    <3>2. CASE ~(offset'[r] < Total(r))
      <4>1. Len(results'[r]) = Total(r) /\ phase'[r] = "returned"
        BY <1>1, <1>2, <1>3, <1>4, <3>2
      <4>2. QED
        BY <2>1, <4>1 DEF PhaseInv, Batching
    <3>3. QED
      BY <3>1, <3>2
  <2>6. QED
    BY <2>3, <2>4, <2>5 DEF RunInv
<1>8. OwnerInv' /\ CountInv'
  BY <1>4 DEF IInv, OwnerInv, CountInv, Numbered, Total
<1>9. QED
  BY <1>5, <1>6, <1>7, <1>8 DEF IInv

\* The inline loop starts at the first call without a result.
LEMMA FallBackStep ==
    ASSUME IInv, NEW r \in Runs, FallBack(r)
    PROVE  IInv'
<1>0. TypeOK /\ RunInv(r)
  BY DEF IInv
<1>1. /\ phase[r] = "drain" /\ futures[r] = <<>>
      /\ Total(r) \in Nat /\ Total(r) >= 1
      /\ offset[r] \in Nat /\ launched[r] \in Nat
      /\ Len(results[r]) \in Nat
  BY <1>0, CallsFacts, RunFacts DEF FallBack, RunInv
<1>2. /\ BatchEnd(r) <= Total(r) /\ BatchEnd(r) \in Nat
      /\ offset[r] + launched[r] < BatchEnd(r)
  BY <1>0, <1>1, BatchFacts DEF RunInv, PhaseInv
<1>3. Handed(r) = offset[r] + launched[r] /\ Len(results[r]) = Handed(r)
  <2>1. Handed(r) = offset[r] + launched[r]
    BY <1>1 DEF Handed
  <2>2. Len(futures[r]) = 0 /\ Len(futures[r]) = Handed(r) - Len(results[r])
    BY <1>0, <1>1 DEF RunInv, FuturesInv, Batching
  <2>3. QED
    BY <1>1, <2>1, <2>2
<1>4. /\ index'[r] = offset[r] + launched[r] + 1
      /\ phase'[r] = "inline"
      /\ calls' = calls /\ offset' = offset /\ launched' = launched
      /\ futures' = futures /\ results' = results /\ job' = job
      /\ owner' = owner /\ invocations' = invocations
  BY <1>0 DEF FallBack, FirstUnlaunched, TypeOK
<1>5. TypeOK'
  <2>1. index' \in [Runs -> Nat \ {0}]
    BY <1>0, <1>1 DEF FallBack, FirstUnlaunched, TypeOK
  <2>2. phase' \in [Runs -> Phases]
    BY <1>0 DEF FallBack, TypeOK, Phases
  <2>3. QED
    BY <1>0, <1>4, <2>1, <2>2 DEF TypeOK
<1>6. ASSUME NEW q \in Runs, q # r
      PROVE  RunInv(q)'
  <2>1. RunVars(q)' = RunVars(q)
    BY <1>6 DEF FallBack, IInv, TypeOK, RunVars
  <2>2. QED
    BY <2>1, OtherRun DEF IInv
<1>7. RunInv(r)'
  <2>1. Total(r)' = Total(r) /\ Handed(r)' = Handed(r)
    BY <1>1, <1>3, <1>4 DEF Total, Handed
  <2>2. CallsInv(r)' /\ HandedInv(r)' /\ ResultsInv(r)'
    BY <1>0, <1>1, <1>4, <2>1
    DEF RunInv, CallsInv, HandedInv, ResultsInv, Ended
  <2>3. FuturesInv(r)'
    BY <1>1, <1>4 DEF FuturesInv, Batching
  <2>4. PhaseInv(r)'
    BY <1>1, <1>2, <1>3, <1>4, <2>1 DEF PhaseInv, Batching
  <2>5. QED
    BY <2>2, <2>3, <2>4 DEF RunInv
<1>8. OwnerInv' /\ CountInv'
  BY <1>4 DEF IInv, OwnerInv, CountInv, Numbered, Total
<1>9. QED
  BY <1>5, <1>6, <1>7, <1>8 DEF IInv

\* An inline call is the next one, and no future is open.
LEMMA InlineCallStep ==
    ASSUME IInv, NEW r \in Runs, InlineCall(r)
    PROVE  IInv'
<1> DEFINE n == index[r]
<1>0. TypeOK /\ RunInv(r)
  BY DEF IInv
<1>1. /\ phase[r] = "inline" /\ Total(r) \in Nat /\ Total(r) >= 1
      /\ Total(r) <= MaxCalls /\ n \in Nat /\ n >= 1
      /\ Len(results[r]) \in Nat
  BY <1>0, CallsFacts, RunFacts DEF InlineCall, RunInv
<1>2. n <= Total(r) /\ Len(results[r]) = n - 1 /\ Handed(r) = n - 1
  BY <1>0, <1>1 DEF RunInv, PhaseInv, Handed
<1>3. n \in Indices /\ job[r][n] = "none"
  BY <1>0, <1>1, <1>2, LimitsAssumption DEF RunInv, HandedInv, Indices
<1>4. /\ phase'[r] = "await"
      /\ calls' = calls /\ offset' = offset /\ launched' = launched
      /\ index' = index /\ futures' = futures /\ results' = results
      /\ owner' = owner /\ invocations' = invocations
      /\ \A k \in Indices :
            job'[r][k] = IF k = n THEN "waiting" ELSE job[r][k]
  BY <1>0, <1>3 DEF InlineCall, TypeOK
<1>5. TypeOK'
  <2>1. job' \in [Runs -> [Indices -> JobStates]]
    BY <1>0, <1>3 DEF InlineCall, TypeOK, JobStates
  <2>2. phase' \in [Runs -> Phases]
    BY <1>0 DEF InlineCall, TypeOK, Phases
  <2>3. QED
    BY <1>0, <1>4, <2>1, <2>2 DEF TypeOK
<1>6. ASSUME NEW q \in Runs, q # r
      PROVE  RunInv(q)'
  <2>1. RunVars(q)' = RunVars(q)
    BY <1>6 DEF InlineCall, IInv, TypeOK, RunVars
  <2>2. QED
    BY <2>1, OtherRun DEF IInv
<1>7. RunInv(r)'
  <2>1. Total(r)' = Total(r) /\ Handed(r)' = n
    BY <1>4 DEF Total, Handed
  <2>2. CallsInv(r)'
    BY <1>0, <1>1, <1>4 DEF RunInv, CallsInv
  <2>3. HandedInv(r)'
    <3>1. ASSUME NEW k \in Indices
          PROVE  job'[r][k] = "none" <=> k > n
      <4>1. k \in Nat /\ (job[r][k] = "none" <=> k > n - 1)
        BY <1>0, <1>2, LimitsAssumption DEF RunInv, HandedInv, Indices
      <4>2. QED
        BY <1>1, <1>4, <4>1
    <3>2. QED
      BY <1>1, <1>2, <2>1, <3>1 DEF HandedInv
  <2>4. ResultsInv(r)'
    <3>1. ASSUME NEW k \in 1..Len(results[r])
          PROVE  k \in Indices /\ k # n /\ job'[r][k] = job[r][k]
      BY <1>1, <1>2, <1>4, LimitsAssumption DEF Indices
    <3>2. \A k \in 1..Len(results[r]) :
             Ended(r, k) /\ results[r][k] = [call |-> k, out |-> job[r][k]]
      BY <1>0 DEF RunInv, ResultsInv
    <3>3. Len(results'[r]) <= Handed(r)'
      BY <1>1, <1>2, <1>4, <2>1
    <3>4. QED
      BY <1>4, <3>1, <3>2, <3>3 DEF ResultsInv, Ended
  <2>5. FuturesInv(r)'
    BY <1>0, <1>1, <1>4 DEF RunInv, FuturesInv, Batching
  <2>6. PhaseInv(r)'
    BY <1>1, <1>2, <1>4, <2>1 DEF PhaseInv, Batching
  <2>7. QED
    BY <2>2, <2>3, <2>4, <2>5, <2>6 DEF RunInv
<1>8. OwnerInv'
  BY <1>3 DEF InlineCall, IInv, OwnerInv, TypeOK, Numbered, Total
<1>9. CountInv'
  BY <1>3 DEF InlineCall, IInv, CountInv, TypeOK, Numbered, Total, Outcome
<1>10. QED
  BY <1>5, <1>6, <1>7, <1>8, <1>9 DEF IInv

\* An inline return appends the result of the call it waited for.
LEMMA InlineReturnStep ==
    ASSUME IInv, NEW r \in Runs, InlineReturn(r)
    PROVE  IInv'
<1> DEFINE n == index[r]
<1>0. TypeOK /\ RunInv(r)
  BY DEF IInv
<1>1. /\ phase[r] = "await" /\ Total(r) \in Nat /\ Total(r) >= 1
      /\ Total(r) <= MaxCalls /\ n \in Nat /\ n >= 1
      /\ results[r] \in Seq(Execution) /\ Len(results[r]) \in Nat
  BY <1>0, CallsFacts, RunFacts DEF InlineReturn, RunInv
<1>2. n <= Total(r) /\ Len(results[r]) = n - 1 /\ Handed(r) = n
  BY <1>0, <1>1 DEF RunInv, PhaseInv, Handed
<1>3. n \in Indices
  BY <1>1, <1>2, LimitsAssumption DEF Indices
<1>4. /\ Ended(r, n) /\ job[r][n] \in Outcome
      /\ results'[r] = Append(results[r], [call |-> n, out |-> job[r][n]])
      /\ index'[r] = n + 1
      /\ phase'[r] = IF n < Total(r) THEN "inline" ELSE "returned"
      /\ calls' = calls /\ offset' = offset /\ launched' = launched
      /\ futures' = futures /\ job' = job
      /\ owner' = owner /\ invocations' = invocations
  BY <1>0 DEF InlineReturn, Ended, TypeOK
<1>5. /\ Len(results'[r]) = n
      /\ results'[r] \in Seq(Execution)
      /\ \A k \in 1..n : results'[r][k] =
            IF k < n THEN results[r][k] ELSE [call |-> n, out |-> job[r][n]]
  <2>1. [call |-> n, out |-> job[r][n]] \in Execution
    BY <1>3, <1>4 DEF Execution
  <2>2. QED
    BY <1>1, <1>2, <1>4, <2>1
<1>6. TypeOK'
  <2>1. results' \in [Runs -> Seq(Execution)]
    BY <1>0, <1>5 DEF InlineReturn, TypeOK
  <2>2. phase' \in [Runs -> Phases] /\ index' \in [Runs -> Nat \ {0}]
    BY <1>0, <1>1 DEF InlineReturn, TypeOK, Phases
  <2>3. QED
    BY <1>0, <1>4, <2>1, <2>2 DEF TypeOK
<1>7. ASSUME NEW q \in Runs, q # r
      PROVE  RunInv(q)'
  <2>1. RunVars(q)' = RunVars(q)
    BY <1>7 DEF InlineReturn, IInv, TypeOK, RunVars
  <2>2. QED
    BY <2>1, OtherRun DEF IInv
<1>8. RunInv(r)'
  <2>1. Total(r)' = Total(r)
    BY <1>4 DEF Total
  <2>2. Handed(r)' = n
    <3>1. CASE n < Total(r)
      BY <1>1, <1>4, <3>1 DEF Handed
    <3>2. CASE n = Total(r)
      BY <1>1, <1>4, <2>1, <3>2 DEF Handed
    <3>3. QED
      BY <1>1, <1>2, <3>1, <3>2
  <2>3. CallsInv(r)' /\ HandedInv(r)'
    BY <1>0, <1>1, <1>2, <1>4, <2>1, <2>2 DEF RunInv, CallsInv, HandedInv
  <2>4. ResultsInv(r)'
    <3>1. \A k \in 1..Len(results[r]) :
             Ended(r, k) /\ results[r][k] = [call |-> k, out |-> job[r][k]]
      BY <1>0 DEF RunInv, ResultsInv
    <3>2. ASSUME NEW k \in 1..Len(results'[r])
          PROVE  Ended(r, k)' /\ results'[r][k] = [call |-> k, out |-> job'[r][k]]
      <4>1. CASE k = n
        BY <1>4, <1>5, <4>1 DEF Ended
      <4>2. CASE k # n
        BY <1>1, <1>2, <1>4, <1>5, <3>1, <4>2 DEF Ended
      <4>3. QED
        BY <4>1, <4>2
    <3>3. QED
      BY <1>1, <1>5, <2>2, <3>2 DEF ResultsInv
  <2>5. FuturesInv(r)'
    BY <1>0, <1>1, <1>4 DEF RunInv, FuturesInv, Batching
  <2>6. PhaseInv(r)'
    <3>1. CASE n < Total(r)
      BY <1>1, <1>4, <1>5, <2>1, <3>1 DEF PhaseInv, Batching
    <3>2. CASE n = Total(r)
      BY <1>1, <1>4, <1>5, <2>1, <3>2 DEF PhaseInv, Batching
    <3>3. QED
      BY <1>1, <1>2, <3>1, <3>2
  <2>7. QED
    BY <2>3, <2>4, <2>5, <2>6 DEF RunInv
<1>9. OwnerInv' /\ CountInv'
  BY <1>4 DEF IInv, OwnerInv, CountInv, Numbered, Total
<1>10. QED
  BY <1>6, <1>7, <1>8, <1>9 DEF IInv

(***************************************************************************)
(* The steps of a worker: no job that has ended or not begun changes.      *)
(***************************************************************************)
\* A worker's progress disturbs neither its own run nor a collected result.
LEMMA JobAdvances ==
    ASSUME TypeOK, NEW r \in Runs, RunInv(r), NEW i \in Indices,
           job[r][i] \in {"waiting", "invoking"},
           NEW s \in JobStates \ {"none"},
           job' = [job EXCEPT ![r][i] = s],
           UNCHANGED <<calls, phase, offset, launched, index, futures, results>>
    PROVE  /\ RunInv(r)'
           /\ job' \in [Runs -> [Indices -> JobStates]]
<1>1. /\ calls' = calls /\ phase' = phase /\ offset' = offset
      /\ launched' = launched /\ index' = index /\ futures' = futures
      /\ results' = results
      /\ \A k \in Indices : job'[r][k] = IF k = i THEN s ELSE job[r][k]
  BY DEF TypeOK
<1>2. job' \in [Runs -> [Indices -> JobStates]]
  BY DEF TypeOK
<1>3. Total(r)' = Total(r) /\ Handed(r)' = Handed(r)
  BY <1>1 DEF Total, Handed
<1>4. BatchEnd(r)' = BatchEnd(r) /\ Parallelism(r)' = Parallelism(r)
  BY <1>1, <1>3 DEF BatchEnd, Parallelism
<1>5. CallsInv(r)' /\ FuturesInv(r)' /\ PhaseInv(r)'
  BY <1>1, <1>3, <1>4 DEF RunInv, CallsInv, FuturesInv, PhaseInv, Batching
<1>6. HandedInv(r)'
  BY <1>1, <1>3 DEF RunInv, HandedInv
<1>7. ResultsInv(r)'
  <2>1. ASSUME NEW k \in 1..Len(results[r])
        PROVE  job'[r][k] = job[r][k] /\ k # i
    <3>1. job[r][k] \in Outcome
      BY DEF RunInv, ResultsInv, Ended
    <3>2. k \in Indices
      BY CallsFacts, RunFacts, LimitsAssumption, SMTT(30)
      DEF RunInv, ResultsInv, HandedInv, Indices, Handed
    <3>3. QED
      BY <1>1, <3>1, <3>2 DEF Outcome
  <2>2. QED
    BY <1>1, <1>3, <2>1 DEF RunInv, ResultsInv, Ended
<1>8. QED
  BY <1>2, <1>5, <1>6, <1>7 DEF RunInv

\* A worker exists only for a call of the run.
LEMMA WorkerCall ==
    ASSUME TypeOK, NEW r \in Runs, RunInv(r), NEW i \in Indices,
           job[r][i] # "none"
    PROVE  i \in Numbered(r)
<1>1. Total(r) \in Nat /\ index[r] \in Nat /\ offset[r] \in Nat
      /\ launched[r] \in Nat /\ i \in Nat /\ i >= 1
  BY RunFacts, LimitsAssumption DEF Indices
<1>2. Handed(r) \in Int /\ Handed(r) <= Total(r) /\ ~(i > Handed(r))
  BY <1>1 DEF RunInv, HandedInv, Handed
<1>3. QED
  BY <1>1, <1>2 DEF Numbered

\* A refused call touches no mutex.
LEMMA RefuseStep ==
    ASSUME IInv, NEW r \in Runs, NEW i \in Indices, Refuse(r, i)
    PROVE  IInv'
<1>0. TypeOK /\ RunInv(r)
  BY DEF IInv
<1>1. /\ job' = [job EXCEPT ![r][i] = "error"]
      /\ job[r][i] = "waiting" /\ calls[r][i] = BadCall
      /\ UNCHANGED <<calls, phase, offset, launched, index, futures, results>>
      /\ owner' = owner /\ invocations' = invocations
  BY DEF Refuse
<1>2. RunInv(r)' /\ job' \in [Runs -> [Indices -> JobStates]]
  <2>1. "error" \in JobStates \ {"none"}
    BY DEF JobStates, Outcome
  <2>2. QED
    BY <1>0, <1>1, <2>1, JobAdvances
<1>3. ASSUME NEW q \in Runs, q # r
      PROVE  RunInv(q)'
  <2>1. RunVars(q)' = RunVars(q)
    BY <1>0, <1>1, <1>3 DEF TypeOK, RunVars
  <2>2. QED
    BY <2>1, OtherRun DEF IInv
<1>4. TypeOK'
  BY <1>0, <1>1, <1>2 DEF TypeOK
<1>5. \A q \in Runs : \A k \in Indices :
         job'[q][k] = IF q = r /\ k = i THEN "error" ELSE job[q][k]
  BY <1>0, <1>1 DEF TypeOK
<1>6. OwnerInv'
  <2>1. ASSUME NEW q \in Runs, NEW k \in Indices, job'[q][k] = "invoking"
        PROVE  /\ k \in Numbered(q)' /\ calls'[q][k] \in Tools
               /\ owner'[calls'[q][k]] = <<q, k>>
    <3>1. job[q][k] = "invoking"
      BY <1>5, <2>1
    <3>2. QED
      BY <1>1, <3>1 DEF IInv, OwnerInv, Numbered, Total
  <2>2. QED
    BY <2>1 DEF OwnerInv
<1>7. CountInv'
  BY <1>1, <1>5, ToolsAssumption DEF IInv, CountInv, Numbered, Total
<1>8. QED
  BY <1>2, <1>3, <1>4, <1>6, <1>7 DEF IInv

\* Locking a free mutex keeps every other holder's.
LEMMA LockStep ==
    ASSUME IInv, NEW r \in Runs, NEW i \in Indices, Lock(r, i)
    PROVE  IInv'
<1>0. TypeOK /\ RunInv(r)
  BY DEF IInv
<1>1. /\ job' = [job EXCEPT ![r][i] = "invoking"]
      /\ owner' = [owner EXCEPT ![calls[r][i]] = <<r, i>>]
      /\ invocations' = [invocations EXCEPT ![r][i] = @ + 1]
      /\ job[r][i] = "waiting" /\ calls[r][i] \in Tools
      /\ owner[calls[r][i]] = NoOwner
      /\ UNCHANGED <<calls, phase, offset, launched, index, futures, results>>
  BY DEF Lock
<1>2. RunInv(r)' /\ job' \in [Runs -> [Indices -> JobStates]]
  <2>1. "invoking" \in JobStates \ {"none"}
    BY DEF JobStates, Outcome
  <2>2. QED
    BY <1>0, <1>1, <2>1, JobAdvances
<1>3. ASSUME NEW q \in Runs, q # r
      PROVE  RunInv(q)'
  <2>1. RunVars(q)' = RunVars(q)
    BY <1>0, <1>1, <1>3 DEF TypeOK, RunVars
  <2>2. QED
    BY <2>1, OtherRun DEF IInv
<1>4. TypeOK'
  <2>1. owner' \in [Tools -> (Runs \X Indices) \cup {NoOwner}]
    BY <1>0, <1>1 DEF TypeOK
  <2>2. invocations' \in [Runs -> [Indices -> Nat]]
    BY <1>0, <1>1 DEF TypeOK
  <2>3. QED
    BY <1>0, <1>1, <1>2, <2>1, <2>2 DEF TypeOK
<1>5. /\ \A q \in Runs : \A k \in Indices :
            /\ job'[q][k] = IF q = r /\ k = i THEN "invoking" ELSE job[q][k]
            /\ invocations'[q][k] = IF q = r /\ k = i
                                    THEN invocations[q][k] + 1
                                    ELSE invocations[q][k]
      /\ \A t \in Tools :
            owner'[t] = IF t = calls[r][i] THEN <<r, i>> ELSE owner[t]
  BY <1>0, <1>1 DEF TypeOK
<1>6. i \in Numbered(r)
  BY <1>0, <1>1, WorkerCall
<1>7. OwnerInv'
  <2>1. ASSUME NEW q \in Runs, NEW k \in Indices, job'[q][k] = "invoking"
        PROVE  /\ k \in Numbered(q)' /\ calls'[q][k] \in Tools
               /\ owner'[calls'[q][k]] = <<q, k>>
    <3>1. CASE q = r /\ k = i
      BY <1>1, <1>5, <1>6, <3>1 DEF Numbered, Total
    <3>2. CASE ~(q = r /\ k = i)
      <4>1. job[q][k] = "invoking"
        BY <1>5, <2>1, <3>2
      <4>2. /\ k \in Numbered(q) /\ calls[q][k] \in Tools
            /\ owner[calls[q][k]] = <<q, k>>
        BY <4>1 DEF IInv, OwnerInv
      <4>3. calls[q][k] # calls[r][i]
        BY <1>1, <4>2, NoOwnerAssumption
      <4>4. QED
        BY <1>1, <1>5, <4>2, <4>3 DEF Numbered, Total
    <3>3. QED
      BY <3>1, <3>2
  <2>2. QED
    BY <2>1 DEF OwnerInv
<1>8. CountInv'
  <2>1. ASSUME NEW q \in Runs, NEW k \in Indices
        PROVE  invocations'[q][k] =
                 IF /\ k \in Numbered(q)' /\ calls'[q][k] \in Tools
                    /\ job'[q][k] \in {"invoking"} \cup Outcome
                 THEN 1 ELSE 0
    <3>1. invocations[q][k] =
            IF /\ k \in Numbered(q) /\ calls[q][k] \in Tools
               /\ job[q][k] \in {"invoking"} \cup Outcome
            THEN 1 ELSE 0
      BY DEF IInv, CountInv
    <3>2. Numbered(q)' = Numbered(q) /\ calls'[q][k] = calls[q][k]
      BY <1>1 DEF Numbered, Total
    <3>3. CASE q = r /\ k = i
      <4>1. invocations[q][k] = 0
        BY <1>1, <3>1, <3>3 DEF Outcome
      <4>2. invocations'[q][k] = 1 /\ job'[q][k] = "invoking"
        BY <1>5, <3>3, <4>1
      <4>3. QED
        BY <1>1, <1>6, <3>2, <3>3, <4>2
    <3>4. CASE ~(q = r /\ k = i)
      BY <1>5, <3>1, <3>2, <3>4
    <3>5. QED
      BY <3>3, <3>4
  <2>2. QED
    BY <2>1 DEF CountInv
<1>9. QED
  BY <1>2, <1>3, <1>4, <1>7, <1>8 DEF IInv

\* Unlocking frees the mutex of the call that ended and of no other.
LEMMA UnlockStep ==
    ASSUME IInv, NEW r \in Runs, NEW i \in Indices, NEW o \in Outcome,
           Unlock(r, i, o)
    PROVE  IInv'
<1>0. TypeOK /\ RunInv(r)
  BY DEF IInv
<1>1. /\ job' = [job EXCEPT ![r][i] = o]
      /\ owner' = [owner EXCEPT ![calls[r][i]] = NoOwner]
      /\ invocations' = invocations
      /\ job[r][i] = "invoking"
      /\ UNCHANGED <<calls, phase, offset, launched, index, futures, results>>
  BY DEF Unlock
<1>2. RunInv(r)' /\ job' \in [Runs -> [Indices -> JobStates]]
  <2>1. o \in JobStates \ {"none"}
    BY DEF JobStates, Outcome
  <2>2. QED
    BY <1>0, <1>1, <2>1, JobAdvances
<1>3. ASSUME NEW q \in Runs, q # r
      PROVE  RunInv(q)'
  <2>1. RunVars(q)' = RunVars(q)
    BY <1>0, <1>1, <1>3 DEF TypeOK, RunVars
  <2>2. QED
    BY <2>1, OtherRun DEF IInv
<1>4. TypeOK'
  <2>1. owner' \in [Tools -> (Runs \X Indices) \cup {NoOwner}]
    BY <1>0, <1>1 DEF TypeOK
  <2>2. QED
    BY <1>0, <1>1, <1>2, <2>1 DEF TypeOK
<1>5. /\ \A q \in Runs : \A k \in Indices :
            job'[q][k] = IF q = r /\ k = i THEN o ELSE job[q][k]
      /\ \A t \in Tools :
            owner'[t] = IF t = calls[r][i] THEN NoOwner ELSE owner[t]
  BY <1>0, <1>1 DEF TypeOK
<1>6. OwnerInv'
  <2>1. ASSUME NEW q \in Runs, NEW k \in Indices, job'[q][k] = "invoking"
        PROVE  /\ k \in Numbered(q)' /\ calls'[q][k] \in Tools
               /\ owner'[calls'[q][k]] = <<q, k>>
    <3>1. ~(q = r /\ k = i) /\ job[q][k] = "invoking"
      BY <1>5, <2>1 DEF Outcome
    <3>2. /\ k \in Numbered(q) /\ calls[q][k] \in Tools
          /\ owner[calls[q][k]] = <<q, k>>
      BY <3>1 DEF IInv, OwnerInv
    <3>3. owner[calls[r][i]] = <<r, i>>
      BY <1>1 DEF IInv, OwnerInv
    <3>4. calls[q][k] # calls[r][i]
      BY <3>1, <3>2, <3>3
    <3>5. QED
      BY <1>1, <1>5, <3>2, <3>4 DEF Numbered, Total
  <2>2. QED
    BY <2>1 DEF OwnerInv
<1>7. CountInv'
  <2>1. ASSUME NEW q \in Runs, NEW k \in Indices
        PROVE  job'[q][k] \in {"invoking"} \cup Outcome
                 <=> job[q][k] \in {"invoking"} \cup Outcome
    BY <1>1, <1>5
  <2>2. QED
    BY <1>1, <2>1 DEF IInv, CountInv, Numbered, Total
<1>8. QED
  BY <1>2, <1>3, <1>4, <1>6, <1>7 DEF IInv

(***************************************************************************)
(* The invariant is inductive.                                             *)
(***************************************************************************)
\* Nothing has been handed out initially.
LEMMA InitIInv == Init => IInv
<1> SUFFICES ASSUME Init PROVE IInv
  OBVIOUS
<1>1. TypeOK
  BY DEF Init, TypeOK, Phases, JobStates
<1>2. ASSUME NEW r \in Runs
      PROVE  RunInv(r)
  <2>1. /\ calls[r] = <<>> /\ phase[r] = "idle" /\ offset[r] = 0
        /\ launched[r] = 0 /\ index[r] = 1 /\ futures[r] = <<>>
        /\ results[r] = <<>> /\ \A i \in Indices : job[r][i] = "none"
    BY DEF Init
  <2>2. Handed(r) = 0 /\ Total(r) = 0 /\ Len(results[r]) = 0
    BY <2>1 DEF Handed, Total
  <2>3. CallsInv(r) /\ FuturesInv(r) /\ PhaseInv(r)
    BY <2>1 DEF CallsInv, FuturesInv, PhaseInv, Batching
  <2>4. HandedInv(r)
    BY <2>1, <2>2, LimitsAssumption DEF HandedInv, Indices
  <2>5. ResultsInv(r)
    <3>1. 1..Len(results[r]) = {}
      BY <2>2
    <3>2. Len(results[r]) <= Handed(r)
      BY <2>2
    <3>3. QED
      BY <3>1, <3>2, Zenon DEF ResultsInv
  <2>6. QED
    BY <2>3, <2>4, <2>5 DEF RunInv
<1>3. OwnerInv
  BY DEF Init, OwnerInv
<1>4. CountInv
  BY DEF Init, CountInv, Outcome
<1>5. QED
  BY <1>1, <1>2, <1>3, <1>4 DEF IInv

\* Stuttering keeps the invariant.
LEMMA StutterStep ==
    ASSUME IInv, UNCHANGED vars
    PROVE  IInv'
<1>1. TypeOK'
  BY DEF IInv, TypeOK, vars
<1>2. ASSUME NEW q \in Runs
      PROVE  RunInv(q)'
  <2>1. RunVars(q)' = RunVars(q)
    BY DEF vars, RunVars
  <2>2. QED
    BY <2>1, OtherRun DEF IInv
<1>3. OwnerInv' /\ CountInv'
  BY DEF IInv, OwnerInv, CountInv, Numbered, Total, vars
<1>4. QED
  BY <1>1, <1>2, <1>3 DEF IInv

\* Every step of every thread keeps the invariant.
LEMMA NextIInv ==
    ASSUME IInv, [Next]_vars
    PROVE  IInv'
<1>1. CASE UNCHANGED vars
  BY <1>1, StutterStep
<1>2. ASSUME NEW r \in Runs, NEW cs \in Requests, Enter(r, cs)
      PROVE  IInv'
  BY <1>2, EnterStep
<1>3. ASSUME NEW r \in Runs, RunStep(r)
      PROVE  IInv'
  <2>1. CASE Launch(r)
    BY <2>1, LaunchStep
  <2>2. CASE LaunchFails(r)
    BY <2>2, LaunchFailsStep
  <2>3. CASE Collect(r) \/ Drain(r)
    <3>1. GetStep(r)
      BY <2>3 DEF Collect, Drain, GetStep
    <3>2. QED
      BY <3>1, GetStepKeeps
  <2>4. CASE NextBatch(r)
    BY <2>4, NextBatchStep
  <2>5. CASE FallBack(r)
    BY <2>5, FallBackStep
  <2>6. CASE InlineCall(r)
    BY <2>6, InlineCallStep
  <2>7. CASE InlineReturn(r)
    BY <2>7, InlineReturnStep
  <2>8. QED
    BY <1>3, <2>1, <2>2, <2>3, <2>4, <2>5, <2>6, <2>7 DEF RunStep
<1>4. ASSUME NEW r \in Runs, NEW i \in Indices, WorkerStep(r, i)
      PROVE  IInv'
  <2>1. CASE Refuse(r, i)
    BY <2>1, RefuseStep
  <2>2. CASE Lock(r, i)
    BY <2>2, LockStep
  <2>3. CASE \E o \in Outcome : Unlock(r, i, o)
    BY <2>3, UnlockStep
  <2>4. QED
    BY <1>4, <2>1, <2>2, <2>3 DEF WorkerStep
<1>5. QED
  BY <1>1, <1>2, <1>3, <1>4 DEF Next, Done

\* The inductive invariant holds in every reachable state of execute_tools.
THEOREM Inductive == Spec => []IInv
<1>1. IInv /\ [Next]_vars => IInv'
  BY NextIInv
<1>2. QED
  BY InitIInv, <1>1, PTL DEF Spec

(***************************************************************************)
(* What follows from it.                                                   *)
(***************************************************************************)
\* Every variable of execute_tools keeps its type: no index or offset leaves
\* the calls of the response.
THEOREM TypeCorrect == Spec => []TypeOK
<1>1. IInv => TypeOK
  BY DEF IInv
<1>2. QED
  BY Inductive, <1>1, PTL

\* A run is never further ahead than the results it has collected plus Width.
LEMMA WindowFacts ==
    ASSUME TypeOK, NEW r \in Runs, RunInv(r)
    PROVE  /\ Handed(r) \in Int /\ Width(r) \in Nat
           /\ Handed(r) - Width(r) <= Len(results[r])
<1>1. /\ offset[r] \in Nat /\ launched[r] \in Nat /\ index[r] \in Nat
      /\ Len(results[r]) \in Nat /\ Total(r) \in Nat /\ phase[r] \in Phases
  BY RunFacts
<1>2. Width(r) \in Nat /\ Width(r) >= 1
  BY LimitsAssumption DEF Width
<1>3. Handed(r) \in Int
  BY <1>1 DEF Handed
<1>4. CASE Batching(r)
  <2>1. /\ r \in ParallelRuns /\ offset[r] <= Len(results[r])
        /\ launched[r] <= Parallelism(r)
    BY <1>4 DEF RunInv, PhaseInv
  <2>2. Parallelism(r) \in Nat /\ Parallelism(r) <= Width(r)
    BY <1>1, <2>1, LimitsAssumption DEF Width, Parallelism, Smaller
  <2>3. Handed(r) = offset[r] + launched[r]
    BY <1>4 DEF Handed, Batching
  <2>4. QED
    BY <1>1, <1>2, <1>3, <2>1, <2>2, <2>3
<1>5. CASE phase[r] = "idle"
  BY <1>1, <1>2, <1>3, <1>5 DEF Handed
<1>6. CASE phase[r] = "inline" \/ phase[r] = "await"
  <2>1. Len(results[r]) = index[r] - 1 /\ Handed(r) <= index[r]
    BY <1>1, <1>6 DEF RunInv, PhaseInv, Handed
  <2>2. QED
    BY <1>1, <1>2, <1>3, <2>1
<1>7. CASE phase[r] = "returned"
  <2>1. Len(results[r]) = Handed(r)
    BY <1>7 DEF RunInv, PhaseInv, Handed
  <2>2. QED
    BY <1>1, <1>2, <1>3, <2>1
<1>8. QED
  BY <1>1, <1>4, <1>5, <1>6, <1>7 DEF Phases, Batching

\* A call a run has handed out lies less than Width beyond its finished ones.
LEMMA WindowInv == IInv => BoundedWindow
<1> SUFFICES ASSUME IInv, NEW r \in Runs, NEW i \in Numbered(r),
                    job[r][i] # "none", NEW j \in 1..(i - Width(r))
             PROVE  Ended(r, j)
  BY DEF BoundedWindow
<1>1. TypeOK /\ RunInv(r)
  BY DEF IInv
<1>2. i \in Indices /\ i \in Nat /\ Len(results[r]) \in Nat
  BY <1>1, CallsFacts, RunFacts DEF Numbered
<1>3. Handed(r) \in Int /\ Width(r) \in Nat
      /\ Handed(r) - Width(r) <= Len(results[r])
  BY <1>1, WindowFacts
<1>4. i <= Handed(r)
  BY <1>1, <1>2, <1>3 DEF RunInv, HandedInv
<1>5. j \in 1..Len(results[r])
  BY <1>2, <1>3, <1>4
<1>6. QED
  BY <1>1, <1>5 DEF RunInv, ResultsInv

\* Batches never overlap, whatever the number of calls and the parallelism,
\* and a fallback never runs beside a batch.
THEOREM Window == Spec => []BoundedWindow
BY Inductive, WindowInv, PTL

\* The invocation_mutex_ excludes every two workers, of one run or of two.
LEMMA MutexInv == IInv => OneInvocationPerTool
<1> SUFFICES ASSUME IInv, NEW r \in Runs, NEW s \in Runs,
                    NEW i \in Numbered(r), NEW j \in Numbered(s),
                    job[r][i] = "invoking", job[s][j] = "invoking",
                    calls[r][i] = calls[s][j]
             PROVE  r = s /\ i = j
  BY DEF OneInvocationPerTool
<1>1. i \in Indices /\ j \in Indices
  BY CallsFacts DEF IInv
<1>2. owner[calls[r][i]] = <<r, i>> /\ owner[calls[s][j]] = <<s, j>>
  BY <1>1 DEF IInv, OwnerInv
<1>3. QED
  BY <1>2

\* Two threads are never inside Tool::invoke of one Tool object.
THEOREM Mutex == Spec => []OneInvocationPerTool
BY Inductive, MutexInv, PTL

\* The results are in request order although the workers end in any order.
THEOREM RequestOrder == Spec => []ResultsInRequestOrder
<1>1. IInv => ResultsInRequestOrder
  BY DEF IInv, RunInv, ResultsInv, ResultsInRequestOrder
<1>2. QED
  BY Inductive, <1>1, PTL

\* No call is invoked twice, whatever launch fails.
THEOREM AtMostOnce == Spec => []InvokedOnce
<1>1. ASSUME IInv, NEW r \in Runs, NEW i \in Numbered(r)
      PROVE  invocations[r][i] =
               IF calls[r][i] \in Tools
                  /\ job[r][i] \in {"invoking"} \cup Outcome
               THEN 1 ELSE 0
  <2>1. i \in Indices
    BY <1>1, CallsFacts DEF IInv
  <2>2. QED
    BY <1>1, <2>1 DEF IInv, CountInv
<1>2. IInv => InvokedOnce
  BY <1>1 DEF InvokedOnce
<1>3. QED
  BY Inductive, <1>2, PTL

\* When execute_tools returns every call has its result and no worker is left.
LEMMA CompleteInv == IInv => CompleteOnReturn
<1> SUFFICES ASSUME IInv, NEW r \in Runs, phase[r] = "returned"
             PROVE  /\ Len(results[r]) = Total(r)
                    /\ \A i \in Numbered(r) : Ended(r, i)
  BY DEF CompleteOnReturn
<1>1. Len(results[r]) = Total(r)
  BY DEF IInv, RunInv, PhaseInv
<1>2. QED
  BY <1>1 DEF IInv, RunInv, ResultsInv, Numbered

\* The references the workers hold outlive them.
THEOREM Complete == Spec => []CompleteOnReturn
BY Inductive, CompleteInv, PTL

-----------------------------------------------------------------------------
(***************************************************************************)
(* execute_tools implements the contract of ToolBatch.                     *)
(***************************************************************************)
\* A step that changes nothing the caller or a Tool sees.
LEMMA Hidden ==
    ASSUME calls' = calls,
           \A q \in Runs : PhaseOf(phase'[q]) = PhaseOf(phase[q]),
           \A q \in Runs : \A k \in Indices :
               StatusOf(job'[q][k]) = StatusOf(job[q][k]),
           \A q \in Runs : ReturnedBy(q)' = ReturnedBy(q)
    PROVE  UNCHANGED Contract!vars
BY DEF Contract!vars

\* The initial states of execute_tools are initial states of the contract.
LEMMA InitContract == Init => Contract!Init
<1> SUFFICES ASSUME Init PROVE Contract!Init
  OBVIOUS
<1>1. ASSUME NEW r \in Runs
      PROVE  /\ PhaseOf(phase[r]) = "idle" /\ ReturnedBy(r) = <<>>
             /\ \A i \in Indices : StatusOf(job[r][i]) = "waiting"
  BY DEF Init, PhaseOf, ReturnedBy, StatusOf, Outcome
<1>2. QED
  BY <1>1 DEF Init, Contract!Init, Contract!Indices, Indices

\* The request.
LEMMA EnterContract ==
    ASSUME IInv, NEW r \in Runs, NEW cs \in Requests, Enter(r, cs)
    PROVE  Contract!Request(r, cs)
<1>1. /\ phase[r] = "idle" /\ phase'[r] \in {"inline", "launch"}
      /\ \A q \in Runs : q # r => phase'[q] = phase[q]
      /\ calls' = [calls EXCEPT ![r] = cs]
      /\ job' = job /\ results' = results
      /\ \A k \in Indices : job[r][k] = "none"
  BY DEF Enter, IInv, TypeOK, RunInv, HandedInv, Handed, Indices
<1>2. \A q \in Runs : PhaseOf(phase[q])' =
                        IF q = r THEN "running" ELSE PhaseOf(phase[q])
  BY <1>1 DEF PhaseOf
<1>3. \A q \in Runs : ReturnedBy(q)' = IF q = r THEN <<>> ELSE ReturnedBy(q)
  BY <1>1 DEF ReturnedBy
<1>4. \A q \in Runs : \A k \in Indices :
         StatusOf(job[q][k])' =
           IF q = r THEN "waiting" ELSE StatusOf(job[q][k])
  BY <1>1 DEF StatusOf, Outcome
<1>5. PhaseOf(phase[r]) = "idle"
  BY <1>1 DEF PhaseOf
<1>6. QED
  BY <1>1, <1>2, <1>3, <1>4, <1>5 DEF Contract!Request, Contract!Indices, Indices

\* A thread is started for a call: nothing but its place in the batch.
LEMMA LaunchContract ==
    ASSUME IInv, NEW r \in Runs, Launch(r)
    PROVE  UNCHANGED Contract!vars
<1> DEFINE n == offset[r] + launched[r] + 1
<1>0. TypeOK /\ RunInv(r)
  BY DEF IInv
<1>1. phase[r] = "launch" /\ Total(r) \in Nat /\ Total(r) >= 1
  BY <1>0, CallsFacts DEF Launch, RunInv
<1>2. n \in Nat /\ n >= 1 /\ n <= Total(r) /\ n - 1 = Handed(r)
  <2>1. offset[r] \in Nat /\ launched[r] \in Nat /\ BatchEnd(r) \in Nat
    BY <1>0, <1>1, RunFacts, BatchFacts
  <2>2. n <= BatchEnd(r) /\ BatchEnd(r) <= Total(r)
    BY <1>0, <1>1, <2>1, BatchFacts DEF RunInv, PhaseInv
  <2>3. QED
    BY <1>1, <2>1, <2>2 DEF Handed
<1>3. n \in Indices /\ job[r][n] = "none"
  BY <1>0, <1>1, <1>2, CallsFacts DEF RunInv, HandedInv, Numbered
<1>4. /\ \A q \in Runs : PhaseOf(phase'[q]) = PhaseOf(phase[q])
      /\ \A q \in Runs : phase'[q] = "returned" <=> phase[q] = "returned"
      /\ calls' = calls /\ results' = results
  BY <1>0, <1>1 DEF Launch, TypeOK, PhaseOf
<1>5. \A q \in Runs : ReturnedBy(q)' = ReturnedBy(q)
  BY <1>4 DEF ReturnedBy
<1>6. ASSUME NEW q \in Runs, NEW k \in Indices
      PROVE  StatusOf(job'[q][k]) = StatusOf(job[q][k])
  <2>1. CASE q = r /\ k = n
    <3>1. job'[q][k] = "waiting" /\ job[q][k] = "none"
      BY <1>0, <1>3, <2>1 DEF Launch, TypeOK
    <3>2. QED
      BY <3>1 DEF StatusOf, Outcome
  <2>2. CASE ~(q = r /\ k = n)
    <3>1. job'[q][k] = job[q][k]
      BY <1>0, <1>3, <2>2 DEF Launch, TypeOK
    <3>2. QED
      BY <3>1
  <2>3. QED
    BY <2>1, <2>2
<1>7. QED
  BY <1>4, <1>5, <1>6, Hidden

\* An inline call begins: nothing but the loop variable.
LEMMA InlineCallContract ==
    ASSUME IInv, NEW r \in Runs, InlineCall(r)
    PROVE  UNCHANGED Contract!vars
<1> DEFINE n == index[r]
<1>0. TypeOK /\ RunInv(r)
  BY DEF IInv
<1>1. /\ phase[r] = "inline" /\ Total(r) \in Nat /\ n \in Nat /\ n >= 1
      /\ n <= Total(r) /\ n - 1 = Handed(r)
  BY <1>0, RunFacts DEF InlineCall, RunInv, PhaseInv, Handed
<1>2. n \in Indices /\ job[r][n] = "none"
  BY <1>0, <1>1, CallsFacts DEF RunInv, HandedInv, Numbered
<1>3. /\ \A q \in Runs : PhaseOf(phase'[q]) = PhaseOf(phase[q])
      /\ \A q \in Runs : phase'[q] = "returned" <=> phase[q] = "returned"
      /\ calls' = calls /\ results' = results
  BY <1>0, <1>1 DEF InlineCall, TypeOK, PhaseOf
<1>4. \A q \in Runs : ReturnedBy(q)' = ReturnedBy(q)
  BY <1>3 DEF ReturnedBy
<1>5. ASSUME NEW q \in Runs, NEW k \in Indices
      PROVE  StatusOf(job'[q][k]) = StatusOf(job[q][k])
  <2>1. CASE q = r /\ k = n
    <3>1. job'[q][k] = "waiting" /\ job[q][k] = "none"
      BY <1>0, <1>2, <2>1 DEF InlineCall, TypeOK
    <3>2. QED
      BY <3>1 DEF StatusOf, Outcome
  <2>2. CASE ~(q = r /\ k = n)
    <3>1. job'[q][k] = job[q][k]
      BY <1>0, <1>2, <2>2 DEF InlineCall, TypeOK
    <3>2. QED
      BY <3>1
  <2>3. QED
    BY <2>1, <2>2
<1>6. QED
  BY <1>3, <1>4, <1>5, Hidden

\* A failed launch, a future read and the fallback are internal.
LEMMA InternalContract ==
    ASSUME IInv, NEW r \in Runs,
           LaunchFails(r) \/ FallBack(r) \/ GetStep(r)
    PROVE  UNCHANGED Contract!vars
<1>0. TypeOK
  BY DEF IInv
<1>1. /\ calls' = calls /\ job' = job
      /\ \A q \in Runs : PhaseOf(phase'[q]) = PhaseOf(phase[q])
      /\ \A q \in Runs : phase'[q] = "returned" <=> phase[q] = "returned"
      /\ \A q \in Runs : phase[q] = "returned" => results'[q] = results[q]
  <2>1. CASE LaunchFails(r)
    BY <1>0, <2>1 DEF LaunchFails, TypeOK, PhaseOf
  <2>2. CASE FallBack(r)
    BY <1>0, <2>2 DEF FallBack, TypeOK, PhaseOf
  <2>3. CASE GetStep(r)
    BY <1>0, <2>3 DEF GetStep, Get, TypeOK, PhaseOf
  <2>4. QED
    BY <2>1, <2>2, <2>3
<1>2. \A q \in Runs : ReturnedBy(q)' = ReturnedBy(q)
  BY <1>1 DEF ReturnedBy
<1>3. QED
  BY <1>1, <1>2, Hidden

\* The outcome of an execution record.
LEMMA OutOf ==
    ASSUME NEW k, NEW o, NEW e, e = [call |-> k, out |-> o]
    PROVE  e.out = o
OBVIOUS

\* The end of a batch or of an inline call returns to the caller when it was
\* the last one.
LEMMA ReturnContract ==
    ASSUME IInv, IInv', NEW r \in Runs,
           NextBatch(r) \/ InlineReturn(r)
    PROVE  UNCHANGED Contract!vars \/ Contract!Return(r)
<1>0. TypeOK
  BY DEF IInv
<1>1. /\ calls' = calls /\ job' = job
      /\ phase[r] \in {"collect", "await"}
      /\ phase'[r] \in {"launch", "inline", "returned"}
      /\ \A q \in Runs : q # r =>
            phase'[q] = phase[q] /\ results'[q] = results[q]
  BY <1>0 DEF NextBatch, InlineReturn, TypeOK
<1>2. \A q \in Runs : q # r => /\ ReturnedBy(q)' = ReturnedBy(q)
                               /\ PhaseOf(phase[q])' = PhaseOf(phase[q])
  BY <1>1 DEF ReturnedBy
<1>3. PhaseOf(phase[r]) = "running" /\ ReturnedBy(r) = <<>>
  BY <1>1 DEF PhaseOf, ReturnedBy
<1>4. \A q \in Runs : \A k \in Indices :
         StatusOf(job'[q][k]) = StatusOf(job[q][k])
  BY <1>1
<1>5. CASE phase'[r] # "returned"
  <2>1. PhaseOf(phase'[r]) = "running" /\ ReturnedBy(r)' = <<>>
    BY <1>1, <1>5 DEF PhaseOf, ReturnedBy
  <2>2. UNCHANGED Contract!vars
    BY <1>1, <1>2, <1>3, <1>4, <2>1, Hidden
  <2>3. QED
    BY <2>2
<1>6. CASE phase'[r] = "returned"
  <2>1. /\ Len(results'[r]) = Total(r)'
        /\ \A k \in 1..Len(results'[r]) :
              /\ job'[r][k] \in Outcome
              /\ results'[r][k] = [call |-> k, out |-> job'[r][k]]
    BY <1>6 DEF IInv, RunInv, PhaseInv, ResultsInv, Ended
  <2>2. Len(results'[r]) = Total(r) /\ Total(r) \in Nat
    BY <1>0, <1>1, <2>1, RunFacts DEF Total
  <2>3. \A k \in 1..Total(r) : /\ k \in Indices
                               /\ StatusOf(job[r][k]) = job[r][k]
                               /\ StatusOf(job[r][k]) \in Outcome
                               /\ results'[r][k].out = StatusOf(job[r][k])
    <3>1. ASSUME NEW k \in 1..Total(r)
          PROVE  /\ k \in Indices /\ job[r][k] \in Outcome
                 /\ results'[r][k] = [call |-> k, out |-> job[r][k]]
      BY <1>0, <1>1, <2>1, <2>2, CallsFacts DEF Numbered
    <3>2. ASSUME NEW k \in 1..Total(r)
          PROVE  StatusOf(job[r][k]) = job[r][k]
      BY <3>1 DEF StatusOf
    <3>3. ASSUME NEW k \in 1..Total(r)
          PROVE  results'[r][k].out = job[r][k]
      <4>1. results'[r][k] = [call |-> k, out |-> job[r][k]]
        BY <3>1
      <4>2. QED
        BY <4>1, OutOf
    <3>4. QED
      BY <3>1, <3>2, <3>3, Zenon
  <2>4. ReturnedBy(r)' = [k \in 1..Total(r) |-> StatusOf(job[r][k])]
    BY <1>6, <2>2, <2>3 DEF ReturnedBy
  <2>5. PhaseOf(phase'[r]) = "returned"
    BY <1>6 DEF PhaseOf
  <2>6. Contract!Numbered(r) = 1..Total(r)
    BY DEF Contract!Numbered, Total
  <2>7. \A k \in Contract!Numbered(r) : Contract!Finished(r, k)
    BY <2>3, <2>6 DEF Contract!Finished, Contract!Outcome, Outcome
  <2>8. [k \in Contract!Numbered(r) |->
            [q \in Runs |-> [i \in Indices |-> StatusOf(job[q][i])]][r][k]]
        = [k \in 1..Total(r) |-> StatusOf(job[r][k])]
    BY <2>3, <2>6
  <2>9. Contract!Return(r)
    BY <1>1, <1>2, <1>3, <1>4, <2>4, <2>5, <2>7, <2>8 DEF Contract!Return
  <2>10. QED
    BY <2>9
<1>7. QED
  BY <1>5, <1>6

\* A worker that has not ended belongs to a run that has not returned.
LEMMA WorkerFacts ==
    ASSUME IInv, NEW r \in Runs, NEW i \in Indices,
           job[r][i] \in {"waiting", "invoking"}
    PROVE  i \in Numbered(r) /\ PhaseOf(phase[r]) = "running"
<1>0. TypeOK /\ RunInv(r)
  BY DEF IInv
<1>1. i \in Numbered(r)
  BY <1>0, WorkerCall
<1>2. phase[r] # "idle"
  BY <1>0, <1>1 DEF RunInv, CallsInv, Numbered, Total
<1>3. phase[r] # "returned"
  <2>1. CompleteOnReturn /\ job[r][i] \notin Outcome
    BY CompleteInv DEF Outcome
  <2>2. QED
    BY <1>1, <2>1 DEF CompleteOnReturn, Ended
<1>4. QED
  BY <1>1, <1>2, <1>3 DEF PhaseOf

\* A worker's step is a step of the contract: its call is within the window.
LEMMA ReadyContract ==
    ASSUME IInv, NEW r \in Runs, NEW i \in Indices, job[r][i] = "waiting"
    PROVE  Contract!Ready(r, i)
<1>1. i \in Numbered(r) /\ PhaseOf(phase[r]) = "running"
  BY WorkerFacts
<1>2. StatusOf(job[r][i]) = "waiting"
  BY DEF StatusOf, Outcome
<1>3. ASSUME NEW j \in 1..(i - Width(r))
      PROVE  j \in Indices /\ StatusOf(job[r][j]) \in Outcome
  <2>1. Ended(r, j)
    BY <1>1, WindowInv DEF BoundedWindow
  <2>2. j \in Indices
    <3>1. Width(r) \in Nat
      BY LimitsAssumption DEF Width
    <3>2. QED
      BY <3>1, LimitsAssumption DEF Indices
  <2>3. QED
    BY <2>1, <2>2 DEF Ended, StatusOf
<1>4. /\ Contract!Numbered(r) = Numbered(r) /\ Contract!Width(r) = Width(r)
      /\ Contract!Outcome = Outcome
  BY DEF Contract!Numbered, Numbered, Total, Contract!Width, Width,
         Contract!Outcome, Outcome
<1>5. \A j \in 1..(i - Width(r)) :
         [q \in Runs |-> [k \in Indices |-> StatusOf(job[q][k])]][r][j]
           \in Outcome
  BY <1>3
<1>6. QED
  BY <1>1, <1>2, <1>4, <1>5 DEF Contract!Ready, Contract!Finished

\* A worker refuses, begins or ends its call as the contract allows.
LEMMA WorkerContract ==
    ASSUME IInv, NEW r \in Runs, NEW i \in Indices, WorkerStep(r, i)
    PROVE  Contract!Progress(r)
<1>0. TypeOK
  BY DEF IInv
<1>1. job[r][i] \in {"waiting", "invoking"}
  BY DEF WorkerStep, Refuse, Lock, Unlock
<1>2. i \in Numbered(r) /\ i \in Contract!Numbered(r)
  BY <1>1, WorkerFacts DEF Numbered, Total, Contract!Numbered
<1>3. /\ calls' = calls /\ phase' = phase
      /\ \A q \in Runs : ReturnedBy(q)' = ReturnedBy(q)
  BY DEF WorkerStep, Refuse, Lock, Unlock, ReturnedBy
<1>4. CASE Refuse(r, i)
  <2>1. \A q \in Runs : \A k \in Indices :
           StatusOf(job'[q][k]) = IF q = r /\ k = i THEN "error"
                                  ELSE StatusOf(job[q][k])
    <3>1. ASSUME NEW q \in Runs, NEW k \in Indices
          PROVE  job'[q][k] = IF q = r /\ k = i THEN "error" ELSE job[q][k]
      BY <1>0, <1>4 DEF Refuse, TypeOK
    <3>2. StatusOf("error") = "error"
      BY DEF StatusOf, Outcome
    <3>3. QED
      BY <3>1, <3>2
  <2>2. Contract!Ready(r, i) /\ calls[r][i] = BadCall
    BY <1>4, ReadyContract DEF Refuse
  <2>3. Contract!Refuse(r, i)
    BY <1>3, <2>1, <2>2 DEF Contract!Refuse
  <2>4. QED
    BY <1>2, <2>3 DEF Contract!Progress
<1>5. CASE Lock(r, i)
  <2>1. \A q \in Runs : \A k \in Indices :
           StatusOf(job'[q][k]) = IF q = r /\ k = i THEN "running"
                                  ELSE StatusOf(job[q][k])
    <3>1. ASSUME NEW q \in Runs, NEW k \in Indices
          PROVE  job'[q][k] = IF q = r /\ k = i THEN "invoking" ELSE job[q][k]
      BY <1>0, <1>5 DEF Lock, TypeOK
    <3>2. StatusOf("invoking") = "running"
      BY DEF StatusOf, Outcome
    <3>3. QED
      BY <3>1, <3>2
  <2>2. Contract!Ready(r, i) /\ calls[r][i] \in Tools
    BY <1>5, ReadyContract DEF Lock
  <2>3. ~Contract!InUse(calls[r][i])
    <3>1. ASSUME NEW q \in Runs, NEW k \in Contract!Numbered(q),
                 calls[q][k] = calls[r][i],
                 [p \in Runs |-> [j \in Indices |-> StatusOf(job[p][j])]][q][k]
                   = "running"
          PROVE  FALSE
      <4>1. k \in Indices
        BY <1>0, CallsFacts DEF Contract!Numbered, Numbered, Total
      <4>2. job[q][k] = "invoking"
        BY <3>1, <4>1 DEF StatusOf, Outcome
      <4>3. owner[calls[r][i]] = <<q, k>>
        BY <3>1, <4>1, <4>2 DEF IInv, OwnerInv
      <4>4. QED
        BY <1>5, <4>1, <4>3, NoOwnerAssumption DEF Lock
    <3>2. QED
      BY <3>1 DEF Contract!InUse
  <2>4. Contract!Begin(r, i)
    BY <1>3, <2>1, <2>2, <2>3 DEF Contract!Begin
  <2>5. QED
    BY <1>2, <2>4 DEF Contract!Progress
<1>6. ASSUME NEW o \in Outcome, Unlock(r, i, o)
      PROVE  Contract!Progress(r)
  <2>1. \A q \in Runs : \A k \in Indices :
           StatusOf(job'[q][k]) = IF q = r /\ k = i THEN o
                                  ELSE StatusOf(job[q][k])
    <3>1. ASSUME NEW q \in Runs, NEW k \in Indices
          PROVE  job'[q][k] = IF q = r /\ k = i THEN o ELSE job[q][k]
      BY <1>0, <1>6 DEF Unlock, TypeOK
    <3>2. StatusOf(o) = o
      BY DEF StatusOf
    <3>3. QED
      BY <3>1, <3>2
  <2>2. StatusOf(job[r][i]) = "running"
    BY <1>6 DEF Unlock, StatusOf, Outcome
  <2>3. Contract!End(r, i, o)
    BY <1>2, <1>3, <2>1, <2>2 DEF Contract!End
  <2>4. o \in Contract!Outcome
    BY DEF Outcome, Contract!Outcome
  <2>5. QED
    BY <1>2, <2>3, <2>4 DEF Contract!Progress
<1>7. QED
  BY <1>4, <1>5, <1>6 DEF WorkerStep

\* Every step of execute_tools is a step of the contract or hidden from it.
LEMMA NextContract ==
    ASSUME IInv, IInv', [Next]_vars
    PROVE  [Contract!Next]_(Contract!vars)
<1>1. ASSUME NEW r \in Runs, NEW cs \in Requests, Enter(r, cs)
      PROVE  Contract!Next
  <2>1. cs \in Contract!Requests
    BY DEF Requests, Contract!Requests, Indices, Contract!Indices, Call,
           Contract!Call
  <2>2. QED
    BY <1>1, <2>1, EnterContract DEF Contract!Next
<1>2. ASSUME NEW r \in Runs, RunStep(r)
      PROVE  Contract!Next \/ UNCHANGED Contract!vars
  <2>1. CASE Launch(r)
    BY <2>1, LaunchContract
  <2>2. CASE LaunchFails(r) \/ FallBack(r)
    BY <2>2, InternalContract
  <2>3. CASE Collect(r) \/ Drain(r)
    <3>1. GetStep(r)
      BY <2>3 DEF Collect, Drain, GetStep
    <3>2. QED
      BY <3>1, InternalContract
  <2>4. CASE NextBatch(r) \/ InlineReturn(r)
    BY <2>4, ReturnContract DEF Contract!Next, Contract!Progress
  <2>5. CASE InlineCall(r)
    BY <2>5, InlineCallContract
  <2>6. QED
    BY <1>2, <2>1, <2>2, <2>3, <2>4, <2>5 DEF RunStep
<1>3. ASSUME NEW r \in Runs, NEW i \in Indices, WorkerStep(r, i)
      PROVE  Contract!Next
  BY <1>3, WorkerContract DEF Contract!Next
<1>4. CASE UNCHANGED vars
  BY <1>4 DEF vars, Contract!vars, ReturnedBy
<1>5. QED
  BY <1>1, <1>2, <1>3, <1>4 DEF Next, Done

\* Whatever is proved of the contract holds of execute_tools.
THEOREM Implements == Spec => ImplementsContract
<1>1. Init => Contract!Init
  BY InitContract
<1>2. IInv /\ IInv' /\ [Next]_vars => [Contract!Next]_(Contract!vars)
  BY NextContract
<1>3. QED
  BY Inductive, <1>1, <1>2, PTL DEF Spec, ImplementsContract, Contract!Spec
=============================================================================
