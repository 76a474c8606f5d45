------------------------ MODULE HttpTransport_proofs ------------------------
(***************************************************************************)
(* CurlHttpTransport keeps its limits, for every width of size_t, every    *)
(* limit and every answer: an inductive invariant and its consequences.    *)
(***************************************************************************)
EXTENDS HttpTransport, Induction, SequenceTheorems, TLAPS

\* A transfer has failed when a callback refused what it was given.
Clean == ~limit_exceeded /\ ~write_failed

Within ==
    /\ Len(response.body) <= options.max_response_body_bytes
    /\ received <= options.max_response_header_bytes

\* The flag is up exactly when libcurl handed over more than the limit.  Until
\* something fails, everything handed over has been counted and stored.
Exact ==
    /\ limit_exceeded <=> \/ bytes > options.max_response_body_bytes
                          \/ offered > options.max_response_header_bytes
    /\ Clean => Len(response.body) = bytes /\ received = offered

\* Flags and result belong to the transfer of the moment.
Phases ==
    /\ pc \in {"connecting", "receiving"} => Clean
    /\ result = "ok" => Clean
    /\ pc = "performed" => result \in {"ok", "error"}
    /\ pc = "idle" => (outcome = "limit" <=> limit_exceeded)

IInv == TypeOK /\ Within /\ Exact /\ Phases

\* Nothing has been handed over yet.
LEMMA FreshInv ==
    ASSUME TypeOK, Fresh, UNCHANGED options
    PROVE  /\ Within' /\ Exact' /\ Clean'
           /\ result' = "none"
  BY OptionsAssumption DEF TypeOK, Fresh, Within, Exact, Clean, NoResponse, Options,
     ValidOptions

\* Both limit tests are those of unbounded numbers, without a sum.
LEMMA ExceedsMeans ==
    ASSUME NEW size \in Nat, NEW n \in Nat, NEW limit \in Nat, size <= limit
    PROVE  Exceeds(size, n, limit) <=> size + n > limit
  BY DEF Exceeds, Min2

\* The next n of a sequence's elements, after the first a.
LEMMA Slice ==
    ASSUME NEW S, NEW s \in Seq(S), NEW a \in Nat, NEW n \in Nat \ {0},
           a + n <= Len(s)
    PROVE  SubSeq(s, a + 1, a + n) \in Seq(S) /\ Len(SubSeq(s, a + 1, a + n)) = n
<1>1. Len(s) \in Nat /\ \A i \in 1..Len(s) : s[i] \in S
  BY LenProperties, ElementOfSeq
<1>2. \A i \in (a + 1)..(a + n) : s[i] \in S
  BY <1>1
<1>3. a + 1 \in Int /\ a + n \in Int
  OBVIOUS
<1>4. /\ SubSeq(s, a + 1, a + n) \in Seq(S)
      /\ Len(SubSeq(s, a + 1, a + n))
           = IF a + 1 <= a + n THEN (a + n) - (a + 1) + 1 ELSE 0
  BY <1>2, <1>3, SubSeqProperties
<1> QED BY <1>4

\* There is a next element in the first of two parts, or in both together.
LEMMA InBounds ==
    ASSUME NEW k \in Nat, NEW a \in Nat, NEW b \in Nat, NEW c,
           c = a + b, k < a \/ k < c
    PROVE  k + 1 \in 1..c
  OBVIOUS

-----------------------------------------------------------------------------
(***************************************************************************)
(* The callbacks.                                                          *)
(***************************************************************************)
\* The types that the steps of a transfer have in common.
LEMMA Types ==
    ASSUME TypeOK
    PROVE  /\ options.max_response_body_bytes \in Nat
           /\ options.max_response_header_bytes \in Nat
           /\ response.body \in Seq(Nat) /\ Len(response.body) \in Nat
           /\ received \in Nat /\ bytes \in Nat /\ offered \in Nat
           /\ answer.body \in Seq(Nat)
           /\ AllLines \in Seq(Line)
<1>1. options \in Options
  BY DEF TypeOK
<1>2. \A n \in 0..SizeMax : n \in Nat
  BY WidthsAssumption
<1>3. answer \in Answers
  BY DEF TypeOK
<1> QED BY <1>1, <1>2, <1>3, AnswersAssumption DEF TypeOK, Options, AllLines

\* write_body keeps types and limits, and its flag is exact.
LEMMA BytesInv ==
    ASSUME IInv, HandOverBytes
    PROVE  IInv'
<1> USE DEF IInv
<1>1. PICK n \in 1..SizeMax : bytes + n <= Len(answer.body) /\ WriteBody(n)
  BY DEF HandOverBytes
<1>2. n \in Nat \ {0}
  BY WidthsAssumption
<1>3. /\ pc = "receiving" /\ Clean
      /\ Len(response.body) = bytes /\ received = offered
      /\ UNCHANGED <<options, timers, answer, lines, offered, received, outcome>>
  BY <1>1 DEF HandOverBytes, WriteBody, Phases, Exact
<1>4. Exceeds(Len(response.body), n, options.max_response_body_bytes)
         <=> Len(response.body) + n > options.max_response_body_bytes
  BY <1>2, Types, ExceedsMeans DEF Within
<1>5. bytes' = bytes + n /\ bytes' \in 0..Len(answer.body)
  BY <1>1, <1>2, Types, SMTT(30) DEF WriteBody
<1>6. CASE Exceeds(Len(response.body), n, options.max_response_body_bytes)
  <2>1. /\ limit_exceeded' = TRUE /\ pc' = "performed" /\ result' = "error"
        /\ UNCHANGED <<response, write_failed>>
    BY <1>1, <1>6 DEF WriteBody, Ends
  <2>2. TypeOK'
    BY <1>3, <1>5, <2>1 DEF TypeOK
  <2> QED
    BY <1>3, <1>4, <1>5, <1>6, <2>1, <2>2, Types DEF Within, Exact, Phases, Clean
<1>7. CASE /\ ~Exceeds(Len(response.body), n, options.max_response_body_bytes)
           /\ response' = [response EXCEPT !.body =
                              @ \o SubSeq(answer.body, bytes + 1, bytes + n)]
           /\ UNCHANGED <<pc, result, limit_exceeded, write_failed>>
  <2> DEFINE chunk == SubSeq(answer.body, bytes + 1, bytes + n)
  <2>1. chunk \in Seq(Nat) /\ Len(chunk) = n
    <3>1. answer.body \in Seq(Nat) /\ bytes \in Nat
      BY Types
    <3>2. /\ SubSeq(answer.body, bytes + 1, bytes + n) \in Seq(Nat)
          /\ Len(SubSeq(answer.body, bytes + 1, bytes + n)) = n
      BY <1>1, <1>2, <3>1, Slice
    <3> QED BY <3>2
  <2> HIDE DEF chunk
  <2>2. response.body \o chunk \in Seq(Nat)
        /\ Len(response.body \o chunk) = Len(response.body) + n
    BY <2>1, Types, ConcatProperties
  <2>3. response' \in [status : Nat, headers : Seq([name : Names, value : Values]),
                       body : Seq(Nat)]
        /\ response'.body = response.body \o chunk
    BY <1>7, <2>2 DEF TypeOK, chunk
  <2>4. TypeOK'
    BY <1>3, <1>5, <1>7, <2>3 DEF TypeOK
  <2>5. Len(response'.body) = bytes'
    BY <1>3, <1>5, <2>2, <2>3
  <2>6. bytes' <= options.max_response_body_bytes
    BY <1>2, <1>3, <1>4, <1>5, <1>7, Types
  <2>7. Within'
    BY <1>3, <2>5, <2>6 DEF Within
  <2>8. Exact'
    <3>1. ~(bytes' > options.max_response_body_bytes)
      BY <2>6, <1>2, <1>5, Types, SMTT(30)
    <3>2. ~(offered > options.max_response_header_bytes) /\ ~limit_exceeded
      BY <1>3 DEF Exact, Clean
    <3>3. /\ limit_exceeded' = limit_exceeded /\ options' = options
          /\ offered' = offered /\ received' = offered'
      BY <1>3, <1>7
    <3> QED BY <2>5, <3>1, <3>2, <3>3 DEF Exact
  <2>9. Phases'
    BY <1>3, <1>7 DEF Phases, Clean
  <2> QED BY <2>4, <2>7, <2>8, <2>9
<1>8. CASE /\ ~Exceeds(Len(response.body), n, options.max_response_body_bytes)
           /\ write_failed' = TRUE
           /\ pc' = "performed" /\ result' = "error"
           /\ UNCHANGED <<response, limit_exceeded>>
  <2>1. TypeOK'
    BY <1>3, <1>5, <1>8 DEF TypeOK
  <2> QED
    BY <1>3, <1>4, <1>5, <1>8, <2>1, Types DEF Within, Exact, Phases, Clean
<1> QED BY <1>1, <1>6, <1>7, <1>8 DEF WriteBody, Ends

\* write_header likewise; it counts a line before it stores it.
LEMMA LineInv ==
    ASSUME IInv, HandOverLine
    PROVE  IInv'
<1> USE DEF IInv
<1> DEFINE line == AllLines[lines + 1]
<1>1. line \in Line
  <2>1. lines + 1 \in 1..Len(AllLines)
    <3>1. lines \in Nat /\ answer.head \in Seq(Line) /\ answer.trailer \in Seq(Line)
      BY AnswersAssumption DEF TypeOK
    <3>2. /\ Len(AllLines) = Len(answer.head) + Len(answer.trailer)
          /\ Len(answer.head) \in Nat /\ Len(answer.trailer) \in Nat
      BY <3>1, ConcatProperties, LenProperties DEF AllLines
    <3>3. lines < Len(answer.head) \/ lines < Len(AllLines)
      BY DEF HandOverLine
    <3> QED BY <3>1, <3>2, <3>3, InBounds
  <2> QED BY <2>1, Types, ElementOfSeq
<1> HIDE DEF line
<1>2. WriteHeader(line)
  BY DEF HandOverLine, line
<1>3. /\ pc = "receiving" /\ Clean
      /\ Len(response.body) = bytes /\ received = offered
      /\ UNCHANGED <<options, timers, answer, bytes, outcome>>
      /\ lines' = lines + 1 /\ offered' = offered + line.bytes
  BY <1>2 DEF HandOverLine, WriteHeader, Phases, Exact
<1>4. line.bytes \in Nat \ {0}
  BY <1>1, WidthsAssumption DEF Line
<1>5. Exceeds(received, line.bytes, options.max_response_header_bytes)
         <=> received + line.bytes > options.max_response_header_bytes
  BY <1>4, Types, ExceedsMeans DEF Within
<1>6. CASE /\ Exceeds(received, line.bytes, options.max_response_header_bytes)
           /\ limit_exceeded' = TRUE /\ pc' = "performed" /\ result' = "error"
           /\ UNCHANGED <<response, received, write_failed>>
  <2>1. TypeOK'
    BY <1>3, <1>4, <1>6, Types DEF TypeOK
  <2> QED
    BY <1>3, <1>4, <1>5, <1>6, <2>1, Types DEF Within, Exact, Phases, Clean
<1>7. CASE /\ ~Exceeds(received, line.bytes, options.max_response_header_bytes)
           /\ received' = received + line.bytes
           /\ response' = IF line.name = NoName THEN response
                          ELSE [response EXCEPT !.headers =
                                    Append(@, [name |-> line.name, value |-> line.value])]
           /\ UNCHANGED <<pc, result, limit_exceeded, write_failed>>
  <2>1. response' \in [status : Nat, headers : Seq([name : Names, value : Values]),
                       body : Seq(Nat)]
        /\ response'.body = response.body
    <3>1. CASE line.name = NoName
      BY <1>7, <3>1 DEF TypeOK
    <3>2. CASE line.name # NoName
      <4>1. [name |-> line.name, value |-> line.value] \in [name : Names, value : Values]
        BY <1>1, <3>2 DEF Line
      <4>2. response.headers \in Seq([name : Names, value : Values])
        BY DEF TypeOK
      <4>3. Append(response.headers, [name |-> line.name, value |-> line.value])
               \in Seq([name : Names, value : Values])
        BY <4>1, <4>2, AppendProperties
      <4> QED BY <1>7, <3>2, <4>3 DEF TypeOK
    <3> QED BY <3>1, <3>2
  <2>2. TypeOK'
    BY <1>3, <1>4, <1>7, <2>1, Types, SMTT(30) DEF TypeOK
  <2> QED
    BY <1>3, <1>4, <1>5, <1>7, <2>1, <2>2, Types DEF Within, Exact, Phases, Clean
<1>8. CASE /\ ~Exceeds(received, line.bytes, options.max_response_header_bytes)
           /\ received' = received + line.bytes
           /\ write_failed' = TRUE /\ pc' = "performed" /\ result' = "error"
           /\ UNCHANGED <<response, limit_exceeded>>
  <2>1. TypeOK'
    BY <1>3, <1>4, <1>8, Types DEF TypeOK
  <2> QED
    BY <1>3, <1>4, <1>5, <1>8, <2>1, Types DEF Within, Exact, Phases, Clean
<1> QED BY <1>2, <1>6, <1>7, <1>8 DEF WriteHeader, Ends

-----------------------------------------------------------------------------
(***************************************************************************)
(* The other steps.                                                        *)
(***************************************************************************)
LEMMA InitInv == Init => IInv
<1> SUFFICES ASSUME Init PROVE IInv
  OBVIOUS
<1>1. answer \in Answers /\ options \in Options /\ ValidOptions(options)
  BY OptionsAssumption DEF Init
<1>2. response = NoResponse /\ bytes = 0 /\ offered = 0 /\ received = 0
      /\ ~limit_exceeded /\ ~write_failed /\ pc = "idle" /\ result = "none"
      /\ outcome = "none" /\ lines = 0 /\ timers = NoTimers
  BY DEF Init
<1>3. Len(answer.body) \in Nat
  BY <1>1, AnswersAssumption, LenProperties
<1>4. NoResponse \in [status : Nat, headers : Seq([name : Names, value : Values]),
                      body : Seq(Nat)]
      /\ Len(NoResponse.body) = 0
  BY EmptySeq DEF NoResponse
<1>5. TypeOK
  <2>1. NoTimers \in [connect : Int, total : Int]
    BY DEF NoTimers
  <2>2. bytes \in 0..Len(answer.body)
    BY <1>2, <1>3
  <2>3. lines \in Nat /\ offered \in Nat /\ received \in Nat
    BY <1>2
  <2>4. options \in Options /\ ValidOptions(options) /\ answer \in Answers
    BY <1>1
  <2>5. response \in [status : Nat, headers : Seq([name : Names, value : Values]),
                      body : Seq(Nat)]
        /\ timers \in [connect : Int, total : Int]
    BY <1>2, <1>4, <2>1
  <2>6. /\ pc = "idle" /\ result = "none" /\ outcome = "none"
        /\ limit_exceeded = FALSE /\ write_failed = FALSE
    BY DEF Init
  <2> QED BY <2>2, <2>3, <2>4, <2>5, <2>6 DEF TypeOK
<1>6. Within /\ Exact
  BY <1>2, <1>4, <1>5, Types DEF Within, Exact
<1> QED BY <1>2, <1>5, <1>6 DEF IInv, Phases, Clean

\* A request that is refused, or sent, leaves nothing of the one before.
LEMMA SendInv ==
    ASSUME IInv, Send
    PROVE  IInv'
<1> USE DEF IInv
<1>1. PICK r \in Requests : Refuse(r) \/ Unavailable(r) \/ Perform(r)
  BY DEF Send
<1>2. Fresh /\ UNCHANGED options
  BY <1>1 DEF Refuse, Unavailable, Perform
<1>3. Within' /\ Exact' /\ Clean' /\ result' = "none"
  BY <1>2, FreshInv
<1>4. /\ pc' \in {"idle", "connecting"}
      /\ outcome' \in {"none", "configuration", "unavailable"}
      /\ answer' \in Answers
  BY <1>1 DEF Refuse, Unavailable, Perform, TypeOK
<1>5. timers' \in [connect : Int, total : Int]
  <2>1. CASE Refuse(r) \/ Unavailable(r)
    BY <2>1 DEF Refuse, Unavailable, TypeOK
  <2>2. CASE Perform(r)
    <3>1. options.connect_timeout \in Int /\ r.timeout \in Int
      BY RequestsAssumption DEF TypeOK, Options, Request
    <3>2. \A value \in Int : AsLong(value) \in Int
      BY WidthsAssumption DEF AsLong
    <3> QED BY <2>2, <3>1, <3>2 DEF Perform
  <2> QED BY <1>1, <2>1, <2>2
<1>6. /\ response' \in [status : Nat, headers : Seq([name : Names, value : Values]),
                        body : Seq(Nat)]
      /\ lines' = 0 /\ bytes' = 0 /\ offered' = 0 /\ received' = 0
      /\ limit_exceeded' = FALSE /\ write_failed' = FALSE
  BY <1>2, EmptySeq DEF Fresh, NoResponse
<1>7. 0 \in 0..Len(answer'.body)
  BY <1>4, AnswersAssumption, LenProperties
<1>8. TypeOK'
  BY <1>2, <1>3, <1>4, <1>5, <1>6, <1>7 DEF TypeOK
<1> QED BY <1>3, <1>4, <1>6, <1>8 DEF Phases, Clean

\* libcurl ends a transfer, or goes on with it.
LEMMA TransferInv ==
    ASSUME IInv, Connect \/ Complete \/ Break \/ Timeout
    PROVE  IInv'
<1> USE DEF IInv
<1>1. /\ UNCHANGED <<options, timers, peer, contexts, outcome>>
      /\ pc \in {"connecting", "receiving"}
      /\ \/ pc' = "receiving" /\ result' = result
         \/ pc' = "performed" /\ result' \in {"ok", "error"}
  BY DEF Connect, Complete, Break, Timeout, Ends
<1>2. TypeOK'
  BY <1>1 DEF TypeOK, peer, contexts
<1>3. Within' /\ Exact'
  BY <1>1 DEF Within, Exact, Clean, peer, contexts
<1>4. Phases'
  BY <1>1 DEF Phases, Clean, contexts
<1> QED BY <1>2, <1>3, <1>4

\* send reports the excess: no other failure is tested before it.
LEMMA ReturnInv ==
    ASSUME IInv, Return
    PROVE  IInv'
<1> USE DEF IInv
<1>1. /\ UNCHANGED <<options, timers, peer, received, limit_exceeded, write_failed, result>>
      /\ pc = "performed" /\ pc' = "idle" /\ result \in {"ok", "error"}
  BY DEF Return, Phases
<1>2. outcome' = Classify \/ (result = "ok" /\ outcome' = "unavailable")
  BY DEF Return
<1>3. response' \in [status : Nat, headers : Seq([name : Names, value : Values]),
                     body : Seq(Nat)]
      /\ response'.body = response.body
  <2>1. answer.status \in Nat
    BY AnswersAssumption DEF TypeOK
  <2> QED BY <2>1 DEF Return, TypeOK
<1>4. TypeOK'
  BY <1>1, <1>2, <1>3 DEF TypeOK, peer, Classify
<1>5. Within' /\ Exact'
  BY <1>1, <1>3 DEF Within, Exact, Clean, peer
<1>6. outcome' = "limit" <=> limit_exceeded'
  BY <1>1, <1>2 DEF Phases, Clean, Classify
<1>7. Phases'
  BY <1>1, <1>6 DEF Phases, Clean
<1> QED BY <1>4, <1>5, <1>7

\* A step that changes nothing.
LEMMA StutterInv ==
    ASSUME IInv, UNCHANGED vars
    PROVE  IInv'
  BY DEF IInv, TypeOK, Within, Exact, Phases, Clean, vars, peer, contexts

-----------------------------------------------------------------------------
(***************************************************************************)
(* The theorems.                                                           *)
(***************************************************************************)
LEMMA Invariance == Spec => []IInv
<1>1. IInv /\ [Next]_vars => IInv'
  BY SendInv, BytesInv, LineInv, TransferInv, ReturnInv, StutterInv DEF Next
<1> QED BY InitInv, <1>1, PTL DEF Spec

\* The state of a transport has its types, whatever the peer answers.
THEOREM TypeCorrect == Spec => []TypeOK
<1>1. IInv => TypeOK
  BY DEF IInv
<1> QED BY <1>1, Invariance, PTL

\* No response outgrows a limit, and an excess is reported if and only if there
\* was one: in the code's own arithmetic, for every size_t and every limit.
THEOREM LimitsExact == Spec => []LimitsAreExact
<1>1. IInv => LimitsAreExact
  BY DEF IInv, Within, Exact, Phases, LimitsAreExact
<1> QED BY <1>1, Invariance, PTL

-----------------------------------------------------------------------------
(***************************************************************************)
(* What a response holds.  First the fields of a number of lines, by       *)
(* induction on that number.                                               *)
(***************************************************************************)
Field(line) == [name |-> line.name, value |-> line.value]
WithField(fields, line) ==
    IF line.name = NoName THEN fields ELSE Append(fields, Field(line))

\* f holds the fields of the first 0, 1, ..., n lines of seq.
FieldsTo(n, seq, f) ==
    f = [k \in 0..n |-> IF k = 0 THEN <<>> ELSE WithField(f[k - 1], seq[k])]

\* One more line for a function that holds the fields of n.
OneMore(n, seq, f) ==
    [k \in 0..(n + 1) |-> IF k = n + 1 THEN WithField(f[n], seq[n + 1]) ELSE f[k]]

LEMMA FieldsAgree ==
    ASSUME NEW seq, NEW l \in Nat, NEW f, NEW g,
           FieldsTo(l, seq, f), FieldsTo(l, seq, g)
    PROVE  f = g
<1>1. PICK T : T = {n \in Nat : n \in 0..l => f[n] = g[n]}
  OBVIOUS
<1>2. 0 \in T
  BY <1>1 DEF FieldsTo
<1>3. ASSUME NEW n \in Nat, n \in T PROVE n + 1 \in T
  <2>1. CASE n + 1 \in 0..l
    <3>1. n \in 0..l /\ n + 1 # 0 /\ n + 1 - 1 = n
      BY <2>1
    <3>2. f[n] = g[n]
      BY <1>1, <1>3, <3>1
    <3>3. /\ f[n + 1] = WithField(f[n], seq[n + 1])
          /\ g[n + 1] = WithField(g[n], seq[n + 1])
      BY <2>1, <3>1 DEF FieldsTo
    <3> QED BY <1>1, <3>2, <3>3
  <2> QED BY <1>1, <2>1
<1>4. \A n \in 0..l : f[n] = g[n]
  BY <1>1, <1>2, <1>3, EveryNumber
<1> QED BY <1>4 DEF FieldsTo

LEMMA FieldsGrow ==
    ASSUME NEW seq, NEW n \in Nat, NEW f, FieldsTo(n, seq, f)
    PROVE  FieldsTo(n + 1, seq, OneMore(n, seq, f))
<1>1. PICK g : g = OneMore(n, seq, f)
  OBVIOUS
<1>2. /\ g = [k \in 0..(n + 1) |->
                IF k = n + 1 THEN WithField(f[n], seq[n + 1]) ELSE f[k]]
      /\ \A k \in 0..(n + 1) :
            g[k] = IF k = n + 1 THEN WithField(f[n], seq[n + 1]) ELSE f[k]
  BY <1>1 DEF OneMore
<1>3. ASSUME NEW k \in 0..(n + 1)
      PROVE  g[k] = IF k = 0 THEN <<>> ELSE WithField(g[k - 1], seq[k])
  <2>1. CASE k = n + 1
    <3>1. k # 0 /\ k - 1 = n /\ n \in 0..(n + 1) /\ n # n + 1
      BY <2>1
    <3> QED BY <1>2, <2>1, <3>1
  <2>2. CASE k # n + 1 /\ k # 0
    <3>1. k \in 0..n /\ k - 1 \in 0..n /\ k - 1 # n + 1 /\ k - 1 \in 0..(n + 1)
      BY <2>2
    <3>2. f[k] = WithField(f[k - 1], seq[k])
      BY <2>2, <3>1 DEF FieldsTo
    <3> QED BY <1>2, <2>2, <3>1, <3>2
  <2>3. CASE k = 0
    <3>1. k \in 0..n /\ k # n + 1
      BY <2>3
    <3>2. f[k] = <<>>
      BY <2>3, <3>1 DEF FieldsTo
    <3> QED BY <1>2, <2>3, <3>1, <3>2
  <2> QED BY <2>1, <2>2, <2>3
<1> QED BY <1>1, <1>2, <1>3 DEF FieldsTo

HasFields(n, seq) == \E f : FieldsTo(n, seq, f)

LEMMA FieldsExist ==
    ASSUME NEW seq, NEW n \in Nat
    PROVE  \E f : FieldsTo(n, seq, f)
<1>1. PICK T : T = {m \in Nat : HasFields(m, seq)}
  OBVIOUS
<1>2. 0 \in T
  <2>1. PICK f : f = [k \in 0..0 |-> <<>>]
    OBVIOUS
  <2>2. FieldsTo(0, seq, f)
    BY <2>1 DEF FieldsTo
  <2> QED BY <1>1, <2>2 DEF HasFields
<1>3. ASSUME NEW m \in Nat, m \in T PROVE m + 1 \in T
  <2>1. PICK f : FieldsTo(m, seq, f)
    BY <1>1, <1>3 DEF HasFields
  <2>2. FieldsTo(m + 1, seq, OneMore(m, seq, f))
    BY <2>1, FieldsGrow
  <2> QED BY <1>1, <2>2 DEF HasFields
<1> QED BY <1>1, <1>2, <1>3, EveryNumber DEF HasFields

LEMMA FirstFieldsAre ==
    ASSUME NEW seq, NEW n \in Nat, NEW f, FieldsTo(n, seq, f)
    PROVE  FirstFields(seq, n) = f[n]
<1>1. PICK g : g = CHOOSE h : h = [k \in 0..n |->
                      IF k = 0 THEN <<>>
                      ELSE IF seq[k].name = NoName THEN h[k - 1]
                      ELSE Append(h[k - 1], [name |-> seq[k].name,
                                             value |-> seq[k].value])]
  OBVIOUS
<1>2. FieldsTo(n, seq, g)
  BY <1>1 DEF FieldsTo, WithField, Field
<1>3. FirstFields(seq, n) = g[n]
  BY <1>1 DEF FirstFields
<1> QED BY <1>2, <1>3, FieldsAgree

\* The fields of no line, and those of one line more.
LEMMA NoFields ==
    ASSUME NEW seq
    PROVE  FirstFields(seq, 0) = <<>>
<1>1. PICK f : FieldsTo(0, seq, f)
  BY FieldsExist
<1>2. FirstFields(seq, 0) = f[0]
  BY <1>1, FirstFieldsAre
<1> QED BY <1>1, <1>2 DEF FieldsTo

LEMMA NextField ==
    ASSUME NEW seq, NEW n \in Nat
    PROVE  FirstFields(seq, n + 1) = WithField(FirstFields(seq, n), seq[n + 1])
<1>1. PICK f : FieldsTo(n, seq, f)
  BY FieldsExist
<1>2. PICK g : g = OneMore(n, seq, f)
  OBVIOUS
<1>3. FieldsTo(n + 1, seq, g) /\ n + 1 \in Nat
  BY <1>1, <1>2, FieldsGrow
<1>4. FirstFields(seq, n + 1) = g[n + 1] /\ FirstFields(seq, n) = f[n]
  BY <1>1, <1>3, FirstFieldsAre
<1>5. n + 1 \in 0..(n + 1)
  OBVIOUS
<1>6. g[n + 1] = WithField(f[n], seq[n + 1])
  BY <1>2, <1>5 DEF OneMore
<1> QED BY <1>4, <1>6

-----------------------------------------------------------------------------
(***************************************************************************)
(* While nothing has failed, the response holds exactly what the peer has  *)
(* handed over so far.                                                     *)
(***************************************************************************)
Kept == /\ response.body = SubSeq(answer.body, 1, bytes)
        /\ response.headers = FirstFields(AllLines, lines)

Whole == bytes = Len(answer.body) /\ lines = Len(AllLines)

Stored ==
    /\ lines <= Len(AllLines)
    /\ Clean => Kept
    /\ result = "ok" => Whole
    /\ pc # "idle" => outcome = "none"
    /\ pc \in {"connecting", "receiving"} => result = "none"
    /\ outcome = "response" => result = "ok" /\ response.status = answer.status

LEMMA LineCount ==
    ASSUME TypeOK
    PROVE  /\ answer.head \in Seq(Line) /\ answer.trailer \in Seq(Line)
           /\ Len(answer.head) \in Nat
           /\ Len(AllLines) = Len(answer.head) + Len(answer.trailer)
           /\ Len(AllLines) \in Nat /\ lines \in Nat
<1>1. answer \in Answers /\ lines \in Nat
  BY DEF TypeOK
<1>2. answer.head \in Seq(Line) /\ answer.trailer \in Seq(Line)
  BY <1>1, AnswersAssumption
<1> QED BY <1>1, <1>2, ConcatProperties, LenProperties DEF AllLines

LEMMA LineCountThen == (TypeOK => Len(AllLines) \in Nat)'
<1>1. TypeOK => Len(AllLines) \in Nat
  BY LineCount
<1> QED BY <1>1, PTL

\* At the start of a send, with any answer.
LEMMA FreshKept ==
    ASSUME response = NoResponse, bytes = 0, lines = 0
    PROVE  Kept
<1>1. SubSeq(answer.body, 1, 0) = <<>>
  BY SubSeqEmpty
<1> QED BY <1>1, NoFields DEF Kept, NoResponse

LEMMA FreshKeptThen == (response = NoResponse /\ bytes = 0 /\ lines = 0 => Kept)'
<1>1. response = NoResponse /\ bytes = 0 /\ lines = 0 => Kept
  BY FreshKept
<1> QED BY <1>1, PTL

LEMMA InitStored == Init => Stored
<1> SUFFICES ASSUME Init PROVE Stored
  OBVIOUS
<1>1. /\ response = NoResponse /\ bytes = 0 /\ lines = 0 /\ pc = "idle"
      /\ result = "none" /\ outcome = "none"
  BY DEF Init
<1>2. Len(AllLines) \in Nat
  BY InitInv, LineCount DEF IInv
<1> QED BY <1>1, <1>2, FreshKept DEF Stored

LEMMA SendStored ==
    ASSUME IInv', Send
    PROVE  Stored'
<1>1. PICK r \in Requests : Refuse(r) \/ Unavailable(r) \/ Perform(r)
  BY DEF Send
<1>2. /\ response' = NoResponse /\ bytes' = 0 /\ lines' = 0 /\ result' = "none"
      /\ \/ pc' = pc /\ pc = "idle" /\ outcome' \in {"configuration", "unavailable"}
         \/ pc' = "connecting" /\ outcome' = "none"
  BY <1>1 DEF Refuse, Unavailable, Perform, Fresh
<1>3. Kept'
  BY <1>2, FreshKeptThen
<1>4. Len(AllLines)' \in Nat
  BY LineCountThen DEF IInv
<1> QED BY <1>2, <1>3, <1>4 DEF Stored

\* A chunk that is stored continues the body, whatever its size.
LEMMA BytesStored ==
    ASSUME IInv, Stored, HandOverBytes
    PROVE  Stored'
<1>1. PICK n \in 1..SizeMax : bytes + n <= Len(answer.body) /\ WriteBody(n)
  BY DEF HandOverBytes
<1>2. /\ pc = "receiving" /\ Clean /\ Kept /\ result = "none" /\ outcome = "none"
      /\ answer' = answer /\ lines' = lines /\ outcome' = outcome
      /\ bytes' = bytes + n
  BY <1>1 DEF HandOverBytes, WriteBody, Stored, IInv, Phases
<1>3. lines' <= Len(AllLines')
  BY <1>2 DEF Stored, AllLines
<1>4. \/ pc' = "performed" /\ result' = "error" /\ ~Clean'
      \/ /\ pc' = pc /\ result' = result
         /\ response' = [response EXCEPT !.body =
                            @ \o SubSeq(answer.body, bytes + 1, bytes + n)]
  BY <1>1 DEF WriteBody, Ends, Clean
<1>5. CASE pc' = "performed" /\ result' = "error" /\ ~Clean'
  BY <1>2, <1>3, <1>5 DEF Stored
<1>6. CASE /\ pc' = pc /\ result' = result
           /\ response' = [response EXCEPT !.body =
                              @ \o SubSeq(answer.body, bytes + 1, bytes + n)]
  <2>1. PICK b, m : b = answer.body /\ m = bytes + n
    OBVIOUS
  <2>2. b \in Seq(Nat) /\ Len(b) \in Nat /\ bytes \in Nat /\ n \in Nat \ {0}
    BY <2>1, WidthsAssumption, LenProperties, Types DEF IInv
  <2>3. SubSeq(b, 1, bytes) \o SubSeq(b, bytes + 1, m) = SubSeq(b, 1, m)
    <3>1. 1 \in 1..(Len(b) + 1) /\ bytes \in (1 - 1)..Len(b) /\ m \in bytes..Len(b)
      BY <1>1, <2>1, <2>2
    <3> QED BY <2>2, <3>1, ConcatAdjacentSubSeq
  <2>4. /\ response'.body = response.body \o SubSeq(answer.body, bytes + 1, bytes + n)
        /\ response'.headers = response.headers
    BY <1>6 DEF IInv, TypeOK
  <2>5. response'.body = SubSeq(answer'.body, 1, bytes')
    BY <1>2, <2>1, <2>3, <2>4 DEF Kept
  <2>6. response'.headers = FirstFields(AllLines', lines')
    BY <1>2, <2>4 DEF Kept, AllLines
  <2> QED BY <1>2, <1>3, <1>6, <2>5, <2>6 DEF Stored, Kept
<1> QED BY <1>4, <1>5, <1>6

\* A line that is kept adds its field, one without a name adds nothing.
LEMMA LineStored ==
    ASSUME IInv, Stored, HandOverLine
    PROVE  Stored'
<1>1. PICK line : line = AllLines[lines + 1] /\ WriteHeader(line)
  BY DEF HandOverLine
<1>2. /\ pc = "receiving" /\ Clean /\ Kept /\ result = "none" /\ outcome = "none"
      /\ answer' = answer /\ bytes' = bytes /\ outcome' = outcome
      /\ lines' = lines + 1
  BY <1>1 DEF HandOverLine, WriteHeader, Stored, IInv, Phases
<1>3. lines' <= Len(AllLines')
  <2>1. lines < Len(answer.head) \/ lines < Len(AllLines)
    BY DEF HandOverLine
  <2>2. lines + 1 \in 1..Len(AllLines)
    <3>1. /\ lines \in Nat /\ Len(answer.head) \in Nat /\ Len(answer.trailer) \in Nat
          /\ Len(AllLines) = Len(answer.head) + Len(answer.trailer)
      BY LineCount, LenProperties DEF IInv
    <3> QED BY <2>1, <3>1, InBounds
  <2>3. Len(AllLines) \in Nat /\ lines \in Nat
    BY LineCount DEF IInv
  <2>4. AllLines' = AllLines
    BY <1>2 DEF AllLines
  <2> QED BY <1>2, <2>2, <2>3, <2>4
<1>4. \/ pc' = "performed" /\ result' = "error" /\ ~Clean'
      \/ /\ pc' = pc /\ result' = result
         /\ response' = IF line.name = NoName THEN response
                        ELSE [response EXCEPT !.headers =
                                 Append(@, [name |-> line.name, value |-> line.value])]
  BY <1>1 DEF WriteHeader, Ends, Clean
<1>5. CASE pc' = "performed" /\ result' = "error" /\ ~Clean'
  BY <1>2, <1>3, <1>5 DEF Stored
<1>6. CASE /\ pc' = pc /\ result' = result
           /\ response' = IF line.name = NoName THEN response
                          ELSE [response EXCEPT !.headers =
                                   Append(@, [name |-> line.name, value |-> line.value])]
  <2>1. PICK h : h = response.headers
    OBVIOUS
  <2>2. /\ response'.body = response.body
        /\ response'.headers = WithField(h, line)
    BY <1>6, <2>1 DEF IInv, TypeOK, WithField, Field
  <2>3. FirstFields(AllLines, lines + 1) = WithField(FirstFields(AllLines, lines), line)
    <3>1. lines \in Nat
      BY LineCount DEF IInv
    <3> QED BY <1>1, <3>1, NextField
  <2>4. response'.headers = FirstFields(AllLines', lines')
    BY <1>2, <2>1, <2>2, <2>3 DEF Kept, AllLines
  <2>5. response'.body = SubSeq(answer'.body, 1, bytes')
    BY <1>2, <2>2 DEF Kept
  <2> QED BY <1>2, <1>3, <1>6, <2>4, <2>5 DEF Stored, Kept
<1> QED BY <1>4, <1>5, <1>6

\* libcurl only reports success for a whole answer.
LEMMA TransferStored ==
    ASSUME IInv, Stored, Connect \/ Complete \/ Break \/ Timeout
    PROVE  Stored'
<1>1. /\ UNCHANGED <<peer, contexts, outcome>>
      /\ pc \in {"connecting", "receiving"}
      /\ \/ pc' = "receiving" /\ result' = result
         \/ pc' = "performed" /\ result' = "error"
         \/ pc' = "performed" /\ result' = "ok" /\ Whole
  BY DEF Connect, Complete, Break, Timeout, Ends, Whole, BodyDone
<1>2. UNCHANGED <<Clean, Kept, Whole, AllLines, answer, lines, response, outcome>>
  BY <1>1 DEF Clean, Kept, Whole, AllLines, peer, contexts
<1> QED BY <1>1, <1>2 DEF Stored

LEMMA ReturnStored ==
    ASSUME IInv, Stored, Return
    PROVE  Stored'
<1>1. /\ UNCHANGED <<answer, lines, bytes, limit_exceeded, write_failed, result>>
      /\ pc = "performed" /\ pc' = "idle"
      /\ \/ /\ outcome' = Classify
            /\ response' = IF result = "ok" THEN [response EXCEPT !.status = answer.status]
                           ELSE response
         \/ result = "ok" /\ outcome' = "unavailable" /\ response' = response
  BY DEF Return, peer
<1>2. /\ response'.body = response.body /\ response'.headers = response.headers
      /\ outcome' = "response" => result = "ok" /\ response'.status = answer.status
  BY <1>1 DEF IInv, TypeOK, Classify
<1>3. (Clean' <=> Clean) /\ (Kept' <=> Kept) /\ (Whole' <=> Whole) /\ AllLines' = AllLines
  BY <1>1, <1>2 DEF Clean, Kept, Whole, AllLines
<1> QED BY <1>1, <1>2, <1>3 DEF Stored

LEMMA StutterStored ==
    ASSUME Stored, UNCHANGED vars
    PROVE  Stored'
  BY DEF Stored, Clean, Kept, Whole, AllLines, vars, peer, contexts

\* What send returns is the whole answer, in order, however it was cut into
\* chunks; no failure of a callback or of the peer leaves a part of it behind.
THEOREM Faithful == Spec => []ResponseIsWhatThePeerSent
<1>1. IInv /\ IInv' /\ Stored /\ [Next]_vars => Stored'
  BY SendStored, BytesStored, LineStored, TransferStored, ReturnStored,
     StutterStored DEF Next
<1>2. IInv /\ Stored => ResponseIsWhatThePeerSent
  <2> SUFFICES ASSUME IInv, Stored, outcome = "response"
               PROVE  response = [status |-> answer.status,
                                  headers |-> Named(AllLines), body |-> answer.body]
    BY DEF ResponseIsWhatThePeerSent
  <2>1. Clean /\ Kept /\ Whole /\ response.status = answer.status
    BY DEF IInv, Phases, Stored
  <2>2. response.body = answer.body
    <3>1. answer.body \in Seq(Nat)
      BY Types DEF IInv
    <3> QED BY <2>1, <3>1, SubSeqFull DEF Kept, Whole
  <2>3. response.headers = Named(AllLines)
    BY <2>1 DEF Kept, Whole, Named
  <2> QED BY <2>1, <2>2, <2>3 DEF IInv, TypeOK
<1> QED BY InitStored, <1>1, <1>2, Invariance, PTL DEF Spec
=============================================================================
