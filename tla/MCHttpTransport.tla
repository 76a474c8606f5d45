-------------------------- MODULE MCHttpTransport --------------------------
(* An instance of HttpTransport with size_t of 2 bits and long of 3. *)
EXTENDS HttpTransport

CONSTANTS id, interim, final, trailer, long, none

ThreeOptions ==
    [connect_timeout : {2, 8}, max_response_body_bytes : {2, 3},
     max_response_header_bytes : {3}]
    \cup [connect_timeout : {2}, max_response_body_bytes : {0, 1},
          max_response_header_bytes : {0, 2}]

SomeRequests ==
    [url : {"", "http://host"}, method : {"get", "post"},
     timeout : {-1, 0, 3, 4, 8}, body : {0, 1}, headers_valid : BOOLEAN]

ALine(size, name, value) == [bytes |-> size, name |-> name, value |-> value]
StatusLine == ALine(1, NoName, none)

Answer(head, body, after) ==
    [status |-> 200, head |-> head, body |-> [k \in 1..body |-> k],
     trailer |-> after]

\* Final headers only; an interim block before them; a trailer after the body;
\* nothing but a status line.
SomeAnswers ==
    UNION {{Answer(<<StatusLine, ALine(1, id, final)>>, n, <<>>),
            Answer(<<StatusLine, ALine(1, id, interim), StatusLine>>, n, <<>>),
            Answer(<<StatusLine>>, n, <<ALine(1, id, trailer)>>)}
           : n \in {0, 1, 2, 3, 5}}
    \cup {Answer(<<ALine(2, NoName, none), ALine(2, id, long)>>, 1, <<>>)}
=============================================================================
