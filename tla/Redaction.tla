----------------------------- MODULE Redaction -----------------------------
(***************************************************************************)
(* The headers of a request and the redaction of the credentials they      *)
(* carry from what a provider answers (src/src/provider_common.cpp).       *)
(*                                                                         *)
(* A text is a sequence of characters; Marker, one element, stands for     *)
(* "[REDACTED]".  A header's name is known by its letters in lower case    *)
(* and by the kind of name it is: "authorization" contains that word,      *)
(* "secret" another word of a credential's header, "plain" neither.        *)
(***************************************************************************)
EXTENDS Naturals, Sequences, FiniteSets, SequencesExt

CONSTANT Letters        \* the characters of texts and of header values

Marker == "[REDACTED]"
Space == " "

ASSUME LettersAssumption == Marker \notin Letters

(***************************************************************************)
(* Headers.                                                                *)
(***************************************************************************)
\* set_header replaces the first header of that name or adds one.
SetHeader(headers, header) ==
    LET same == {k \in DOMAIN headers : headers[k].name = header.name}
        first == CHOOSE k \in same : \A j \in same : k <= j
    IN  IF same = {} THEN Append(headers, header)
        ELSE [headers EXCEPT ![first] = header]

\* apply_extra_headers: the application's headers come last and win.
ApplyExtraHeaders(headers, extra) ==
    LET applied[n \in 0..Len(extra)] ==
            IF n = 0 THEN headers ELSE SetHeader(applied[n - 1], extra[n])
    IN  applied[Len(extra)]

IsSensitive(header) == header.sensitive \/ header.kind \in {"authorization", "secret"}

\* What follows the scheme of an Authorization header.
Token(value) ==
    LET spaces == {k \in DOMAIN value : value[k] = Space}
        after == {k \in DOMAIN value :
                     /\ value[k] # Space
                     /\ \E j \in spaces : j < k}
    IN  IF after = {} THEN <<>>
        ELSE SubSeq(value, CHOOSE k \in after : \A j \in after : k <= j, Len(value))

\* The values that one header contributes, in order.
HeaderSecrets(header) ==
    IF ~IsSensitive(header) THEN <<>>
    ELSE IF header.kind = "authorization" THEN <<header.value, Token(header.value)>>
    ELSE <<header.value>>

\* append_unique_secret.
AppendUnique(values, value) ==
    IF value = <<>> \/ value \in {values[k] : k \in DOMAIN values}
    THEN values ELSE Append(values, value)

\* collect_sensitive_values, the configured key first.
CollectSensitiveValues(headers, configured) ==
    LET all == configured \o FlattenSeq([k \in DOMAIN headers |-> HeaderSecrets(headers[k])])
        collected[n \in 0..Len(all)] == IF n = 0 THEN <<>>
                                        ELSE AppendUnique(collected[n - 1], all[n])
    IN  collected[Len(all)]

(***************************************************************************)
(* Redaction.                                                              *)
(***************************************************************************)
OccursAt(secret, text, k) ==
    /\ secret # <<>> /\ k + Len(secret) - 1 <= Len(text)
    /\ SubSeq(text, k, k + Len(secret) - 1) = secret

\* Faulty: the first value that matches, in the order of collection.
FirstMatch(matching, values) ==
    values[CHOOSE k \in DOMAIN values :
              values[k] \in matching /\ \A j \in 1..(k - 1) : values[j] \notin matching]

\* The longest of the values that match at one place.
Match(matching, values) ==
    CHOOSE secret \in matching : \A other \in matching : Len(other) <= Len(secret)

\* The values found at one place.
Matching(text, values, k) ==
    {secret \in {values[j] : j \in DOMAIN values} : OccursAt(secret, text, k)}

\* redact_sensitive_values goes through the original text once.
Redact(text, values) ==
    LET from[k \in 1..(Len(text) + 1)] ==
            IF k > Len(text) THEN <<>>
            ELSE IF Matching(text, values, k) = {} THEN <<text[k]>> \o from[k + 1]
            ELSE <<Marker>> \o from[k + Len(Match(Matching(text, values, k), values))]
    IN  from[1]

\* redact_sensitive_response and, for an error, throw_redacted_provider_error
\* apply it to every header value, string, member name and error text.  With
\* no values at all the response is left as it is.
RedactAll(texts, values) ==
    IF values = <<>> THEN texts
    ELSE [k \in DOMAIN texts |-> Redact(texts[k], values)]

(***************************************************************************)
(* What an application may expect of it.                                   *)
(***************************************************************************)
\* The key, the values of sensitive headers and the tokens of authorizations.
Secrets(headers, configured) ==
    {configured[k] : k \in DOMAIN configured}
    \cup {headers[k].value : k \in {j \in DOMAIN headers : IsSensitive(headers[j])}}
    \cup {Token(headers[k].value)
          : k \in {j \in DOMAIN headers : headers[j].kind = "authorization"}}

Occurrences(secrets, text) == {o \in secrets \X DOMAIN text : OccursAt(o[1], text, o[2])}

Covers(o, k) == o[2] <= k /\ k < o[2] + Len(o[1])

\* Occurrences that no other one overlaps from the left or contains.
Leftmost(occurs) ==
    {o \in occurs : \A p \in occurs :
        /\ p[2] < o[2] => ~Covers(p, o[2])
        /\ p[2] = o[2] => Len(p[1]) <= Len(o[1])}

Untouched(occurs, text) == {k \in DOMAIN text : \A o \in occurs : ~Covers(o, k)}

\* o has become one marker, between what precedes and what follows it.
GoesAsAWhole(o, text, values, result) ==
    \E k \in DOMAIN result :
        /\ result[k] = Marker
        /\ Redact(SubSeq(text, 1, o[2] - 1), values) = SubSeq(result, 1, k - 1)
        /\ Redact(SubSeq(text, o[2] + Len(o[1]), Len(text)), values)
              = SubSeq(result, k + 1, Len(result))

\* Whatever headers the configuration and the application set, no text of a
\* response still contains the key, a sensitive header's value or an
\* authorization's token as the request sent it; a value that contains another
\* goes as a whole; and what belongs to none of them stays as it was.
NothingSensitiveRemains(headers, configured, text) ==
    LET values == CollectSensitiveValues(headers, configured)
        secrets == Secrets(headers, configured)
        result == RedactAll(<<text>>, values)[1]
        occurs == Occurrences(secrets, text)
    IN  /\ \A secret \in secrets : \A k \in DOMAIN result : ~OccursAt(secret, result, k)
        /\ \A o \in Leftmost(occurs) : GoesAsAWhole(o, text, values, result)
        /\ occurs = {} => result = text
        /\ Cardinality({k \in DOMAIN result : result[k] # Marker})
              >= Cardinality(Untouched(occurs, text))
=============================================================================
