--------------------------- MODULE HttpTransport ---------------------------
(***************************************************************************)
(* CurlHttpTransport::send (src/src/transport.cpp): one synchronous HTTP   *)
(* exchange through libcurl after another, on one transport object.        *)
(*                                                                         *)
(* libcurl and the peer are external: while curl_easy_perform runs they    *)
(* connect, hand over a header line or a chunk of the body, stall, break   *)
(* off or run into a timer in any order the protocol allows.  Header lines *)
(* come from every block of the answer: a proxy's reply to CONNECT, interim*)
(* answers, the final one and the trailers of its body.  libcurl's item    *)
(* size is 1, so a chunk has as many bytes as items.                       *)
(*                                                                         *)
(* A name stands for all its spellings in ASCII case; the value of a line  *)
(* is what remains of it when it is trimmed.                               *)
(***************************************************************************)
EXTENDS Integers, Sequences

CONSTANTS
    SizeMax,        \* largest std::size_t
    LongMax,        \* largest long, the type of libcurl's timers
    OptionValues,   \* HttpTransportOptions an application passes
    Requests,       \* HttpRequests it sends
    Answers,        \* what a peer has to say, interim blocks included
    Names, Values,  \* of header fields
    NoName          \* the name of a line without a colon

Options == [connect_timeout : Int, max_response_body_bytes : 0..SizeMax,
            max_response_header_bytes : 0..SizeMax]

Request == [url : STRING, method : {"get", "post"}, timeout : Int,
            body : Nat, headers_valid : BOOLEAN]

Line == [bytes : 1..SizeMax, name : Names \cup {NoName}, value : Values]

ASSUME WidthsAssumption == SizeMax \in Nat /\ LongMax \in Nat
ASSUME NamesAssumption == NoName \notin Names
ASSUME OptionsAssumption == OptionValues \subseteq Options
ASSUME RequestsAssumption == Requests \subseteq Request
ASSUME AnswersAssumption ==
    \A a \in Answers :
        /\ a.status \in Nat
        /\ a.head \in Seq(Line) /\ a.trailer \in Seq(Line)
        /\ a.body \in Seq(Nat)      \* its bytes

VARIABLES
    options,    \* Impl::options
    pc,         \* where send is
    timers,     \* CURLOPT_CONNECTTIMEOUT_MS and CURLOPT_TIMEOUT_MS
    answer,     \* the peer's side of this exchange
    lines,      \* number of header lines handed over
    bytes,      \* number of body bytes handed over
    offered,    \* history: number of header bytes handed over
    response,   \* the HttpResponse under construction
    received,   \* HeaderWriteContext::received
    limit_exceeded, write_failed,   \* of either context
    result,     \* of curl_easy_perform: CURLE_OK, another code, none yet
    outcome     \* what send returned or threw

peer == <<answer, lines, bytes, offered>>
contexts == <<response, received, limit_exceeded, write_failed>>
vars == <<options, pc, timers, peer, contexts, result, outcome>>

NoResponse == [status |-> 0, headers |-> <<>>, body |-> <<>>]
NoTimers == [connect |-> 0, total |-> 0]

Min2(a, b) == IF a < b THEN a ELSE b

(***************************************************************************)
(* Construction and the checks before anything is sent.                    *)
(***************************************************************************)
\* Impl refuses other options.
ValidOptions(o) ==
    /\ o.connect_timeout > 0
    /\ o.max_response_body_bytes # 0
    /\ o.max_response_header_bytes # 0

\* Faulty: the number is cast without a look at its size.
FitsAnyway(value) == value > 0

\* milliseconds_as_long accepts value ...
FitsTimer(value) == value > 0 /\ value <= LongMax

\* ... and casts it; LongMax + 1 is half the range of a long.
AsLong(value) ==
    LET n == value % (2 * (LongMax + 1)) IN
    IF n > LongMax THEN n - 2 * (LongMax + 1) ELSE n

Acceptable(r) ==
    /\ r.url # ""
    /\ FitsTimer(options.connect_timeout)
    /\ FitsTimer(r.timeout)
    /\ r.method = "get" => r.body = 0
    /\ r.headers_valid

Init ==
    /\ options \in {o \in OptionValues : ValidOptions(o)}
    /\ pc = "idle"
    /\ timers = NoTimers
    /\ answer \in Answers
    /\ lines = 0 /\ bytes = 0 /\ offered = 0
    /\ response = NoResponse
    /\ received = 0
    /\ limit_exceeded = FALSE /\ write_failed = FALSE
    /\ result = "none"
    /\ outcome = "none"

\* The contexts are local to the call.
Fresh ==
    /\ lines' = 0 /\ bytes' = 0 /\ offered' = 0
    /\ response' = NoResponse
    /\ received' = 0
    /\ limit_exceeded' = FALSE /\ write_failed' = FALSE
    /\ result' = "none"

Refuse(r) ==
    /\ pc = "idle"
    /\ ~Acceptable(r)
    /\ Fresh
    /\ outcome' = "configuration"
    /\ UNCHANGED <<options, pc, timers, answer>>

\* libcurl has no handle, refuses an option or a header.
Unavailable(r) ==
    /\ pc = "idle"
    /\ r.url # ""
    /\ Fresh
    /\ outcome' = "unavailable"
    /\ UNCHANGED <<options, pc, timers, answer>>

\* A negative timer is an error of curl_easy_setopt.
Perform(r) ==
    /\ pc = "idle"
    /\ Acceptable(r)
    /\ AsLong(options.connect_timeout) >= 0 /\ AsLong(r.timeout) >= 0
    /\ Fresh
    /\ timers' = [connect |-> AsLong(options.connect_timeout),
                  total |-> AsLong(r.timeout)]
    /\ answer' \in Answers
    /\ pc' = "connecting"
    /\ outcome' = "none"
    /\ UNCHANGED options

(***************************************************************************)
(* curl_easy_perform and its callbacks.                                    *)
(***************************************************************************)
Ends(code) == pc' = "performed" /\ result' = code

Connect ==
    /\ pc = "connecting"
    /\ pc' = "receiving"
    /\ UNCHANGED <<options, timers, peer, contexts, result, outcome>>

\* Faulty: the sum is compared, and wraps.
ExceedsSum(size, n, limit) == (size + n) % (SizeMax + 1) > limit

\* The limit test of both callbacks.
Exceeds(size, n, limit) == n > limit - Min2(size, limit)

\* Faulty: a chunk that cannot be stored is dropped.
BodyDropped(n) ==
    /\ bytes' = bytes + n
    /\ IF Exceeds(Len(response.body), n, options.max_response_body_bytes)
       THEN limit_exceeded' = TRUE /\ Ends("error") /\ UNCHANGED <<response, write_failed>>
       ELSE \/ response' = [response EXCEPT !.body =
                                @ \o SubSeq(answer.body, bytes + 1, bytes + n)]
               /\ UNCHANGED <<pc, result, limit_exceeded, write_failed>>
            \/ write_failed' = TRUE /\ UNCHANGED <<pc, result, response, limit_exceeded>>
    /\ UNCHANGED received

\* write_body is given the next n bytes; append may throw.  A callback that
\* does not return the number of bytes ends the transfer.
WriteBody(n) ==
    /\ bytes' = bytes + n
    /\ UNCHANGED received
    /\ \/ /\ Exceeds(Len(response.body), n, options.max_response_body_bytes)
          /\ limit_exceeded' = TRUE
          /\ Ends("error")
          /\ UNCHANGED <<response, write_failed>>
       \/ /\ ~Exceeds(Len(response.body), n, options.max_response_body_bytes)
          /\ response' = [response EXCEPT !.body =
                              @ \o SubSeq(answer.body, bytes + 1, bytes + n)]
          /\ UNCHANGED <<pc, result, limit_exceeded, write_failed>>
       \/ /\ ~Exceeds(Len(response.body), n, options.max_response_body_bytes)
          /\ write_failed' = TRUE
          /\ Ends("error")
          /\ UNCHANGED <<response, limit_exceeded>>

\* write_header is given a line.  One without a colon is counted, not kept.
WriteHeader(line) ==
    /\ lines' = lines + 1
    /\ offered' = offered + line.bytes
    /\ \/ /\ Exceeds(received, line.bytes, options.max_response_header_bytes)
          /\ limit_exceeded' = TRUE
          /\ Ends("error")
          /\ UNCHANGED <<response, received, write_failed>>
       \/ /\ ~Exceeds(received, line.bytes, options.max_response_header_bytes)
          /\ received' = received + line.bytes
          /\ response' = IF line.name = NoName THEN response
                         ELSE [response EXCEPT !.headers =
                                   Append(@, [name |-> line.name, value |-> line.value])]
          /\ UNCHANGED <<pc, result, limit_exceeded, write_failed>>
       \/ /\ ~Exceeds(received, line.bytes, options.max_response_header_bytes)
          /\ received' = received + line.bytes
          /\ write_failed' = TRUE
          /\ Ends("error")
          /\ UNCHANGED <<response, limit_exceeded>>

HeadDone == lines >= Len(answer.head)
BodyDone == bytes = Len(answer.body)
AllLines == answer.head \o answer.trailer

HandOverLine ==
    /\ pc = "receiving"
    /\ lines < Len(answer.head) \/ (BodyDone /\ lines < Len(AllLines))
    /\ WriteHeader(AllLines[lines + 1])
    /\ UNCHANGED <<options, timers, answer, bytes, outcome>>

HandOverBytes ==
    /\ pc = "receiving"
    /\ HeadDone
    /\ \E n \in 1..SizeMax :
          /\ bytes + n <= Len(answer.body)
          /\ WriteBody(n)
    /\ UNCHANGED <<options, timers, answer, lines, offered, outcome>>

\* The answer is complete: as many bytes as its framing announced, or the peer
\* closed a connection that announced nothing.
Complete ==
    /\ pc = "receiving"
    /\ BodyDone /\ lines = Len(AllLines)
    /\ Ends("ok")
    /\ UNCHANGED <<options, timers, peer, contexts, outcome>>

\* No connection, or it breaks before the answer is complete.
Break ==
    /\ pc \in {"connecting", "receiving"}
    /\ Ends("error")
    /\ UNCHANGED <<options, timers, peer, contexts, outcome>>

\* A timer of 0 never expires; libcurl then has a connect timeout of its own.
Timeout ==
    /\ pc \in {"connecting", "receiving"}
    /\ pc = "connecting" \/ timers.total > 0
    /\ Ends("error")
    /\ UNCHANGED <<options, timers, peer, contexts, outcome>>

(***************************************************************************)
(* After curl_easy_perform.                                                *)
(***************************************************************************)
Classify ==
    IF result = "ok" THEN "response"
    ELSE IF limit_exceeded THEN "limit"
    ELSE IF write_failed THEN "store" ELSE "curl"

\* The status may not be available.
Return ==
    /\ pc = "performed"
    /\ pc' = "idle"
    /\ \/ /\ outcome' = Classify
          /\ response' = IF result = "ok" THEN [response EXCEPT !.status = answer.status]
                         ELSE response
       \/ /\ result = "ok"
          /\ outcome' = "unavailable"
          /\ UNCHANGED response
    /\ UNCHANGED <<options, timers, peer, received, limit_exceeded,
                   write_failed, result>>

Send == \E r \in Requests : Refuse(r) \/ Unavailable(r) \/ Perform(r)

Next ==
    \/ Send
    \/ Connect \/ HandOverLine \/ HandOverBytes \/ Complete
    \/ Break \/ Timeout
    \/ Return

\* The calling thread runs on, and libcurl's timers expire.  A peer may stall
\* at any point.
Fairness == WF_vars(Timeout) /\ WF_vars(Return)

Spec == Init /\ [][Next]_vars /\ Fairness

(***************************************************************************)
(* Properties.                                                             *)
(***************************************************************************)
\* The types of the state.
TypeOK ==
    /\ options \in Options /\ ValidOptions(options)
    /\ pc \in {"idle", "connecting", "receiving", "performed"}
    /\ timers \in [connect : Int, total : Int]
    /\ answer \in Answers
    /\ lines \in Nat /\ bytes \in 0..Len(answer.body) /\ offered \in Nat
    /\ response \in [status : Nat, headers : Seq([name : Names, value : Values]),
                     body : Seq(Nat)]
    /\ received \in Nat
    /\ limit_exceeded \in BOOLEAN /\ write_failed \in BOOLEAN
    /\ result \in {"none", "ok", "error"}
    /\ outcome \in {"none", "configuration", "unavailable", "response", "limit",
                    "store", "curl"}

\* The fields among the first n lines of seq.
FirstFields(seq, n) ==
    LET kept[k \in 0..n] ==
            IF k = 0 THEN <<>>
            ELSE IF seq[k].name = NoName THEN kept[k - 1]
            ELSE Append(kept[k - 1], [name |-> seq[k].name, value |-> seq[k].value])
    IN  kept[n]

Named(seq) == FirstFields(seq, Len(seq))

\* A response that send returns is the whole answer of the peer: every byte of
\* the body and every header line in order, however the answer was cut into
\* chunks and wherever an allocation, a timer or the connection failed.
ResponseIsWhatThePeerSent ==
    outcome = "response" =>
        response = [status |-> answer.status, headers |-> Named(AllLines),
                    body |-> answer.body]

\* Neither part of a response outgrows its limit, although the sum of its size
\* and a chunk may not fit size_t; and send reports an exceeded limit if and
\* only if libcurl was given more bytes than the limit: an answer that has
\* exactly as many is accepted, and another failure never hides the excess.
LimitsAreExact ==
    /\ Len(response.body) <= options.max_response_body_bytes
    /\ received <= options.max_response_header_bytes
    /\ pc = "idle" =>
          (outcome = "limit" <=>
              \/ bytes > options.max_response_body_bytes
              \/ offered > options.max_response_header_bytes)

\* Every send ends, whatever the peer does: the timeouts libcurl is given are
\* never 0, which would mean to wait for ever.
EverySendReturns == pc # "idle" ~> pc = "idle"
=============================================================================
