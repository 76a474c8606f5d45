---------------------------- MODULE MCCallbacks ----------------------------
(***************************************************************************)
(* Applications for Callbacks: what is installed and who calls what.       *)
(***************************************************************************)
EXTENDS Callbacks, TLC

CONSTANTS u1, u2, c1, c2, toolA, toolB, s1, s2, s3, s4

\* Nothing calls back, nobody starts; the applications are exceptions to this.
Plain ==
    [starts |-> [t \in Callers |-> {}],
     offers |-> [c \in Clients |-> <<>>],
     parallel |-> {},
     traced |-> {},
     generates |-> [l \in Locks |-> {}],
     uses |-> [l \in Locks |-> {}],
     rank |-> (toolA :> 4) @@ (toolB :> 3)
              @@ [l \in Locks |-> IF l \in Clients THEN 2
                                  ELSE IF l = Tracer THEN 1 ELSE 0]]

\* Tool A asks another client, whose Tool B is also used directly.
Layered ==
    [Plain EXCEPT
        !.starts = (u1 :> {<<c1, s1>>}) @@ (u2 :> {<<c2, s1>>, <<c2, s2>>}),
        !.offers = (c1 :> <<toolA, toolB>>) @@ (c2 :> <<toolB>>),
        !.parallel = {c1},
        !.generates[toolA] = {<<c2, s2>>}]

\* A Tool inside of itself and of its equal, on the Tool's own session too.
Nested ==
    [Plain EXCEPT
        !.starts[u1] = {<<c1, s1>>},
        !.rank[toolB] = 4,
        !.offers = (c1 :> <<toolA, toolB>>) @@ (c2 :> <<toolB, toolA>>),
        !.generates = [@ EXCEPT ![toolA] = {<<c1, s2>>, <<c2, s1>>, <<c2, s3>>},
                                ![toolB] = {<<c1, s2>>, <<c1, s3>>}]]

\* ... with a client that executes the inner calls on other threads.
NestedParallel == [Nested EXCEPT !.parallel = {c1}]

\* Two threads, two Tools, each used inside of the other.
Crossed ==
    [Plain EXCEPT
        !.starts = (u1 :> {<<c1, s1>>}) @@ (u2 :> {<<c2, s2>>}),
        !.offers = (c1 :> <<toolA>>) @@ (c2 :> <<toolB>>),
        !.generates = [@ EXCEPT ![toolA] = {<<c2, s3>>}, ![toolB] = {<<c1, s4>>}]]

\* A model or a tracer that generates with its own client.
SelfAsking ==
    [Plain EXCEPT !.starts[u1] = {<<c1, s1>>},
                  !.generates[c1] = {<<c1, s2>>, <<c2, s2>>}]
SelfTracing ==
    [Plain EXCEPT !.starts[u1] = {<<c1, s1>>},
                  !.traced = {c1},
                  !.generates[Tracer] = {<<c1, s2>>, <<c2, s2>>}]

\* Three calls of one response work on the state of their session.
Counting ==
    [Plain EXCEPT !.starts[u1] = {<<c1, s1>>},
                  !.offers[c1] = <<toolA, toolB, toolB>>,
                  !.parallel = {c1},
                  !.uses = [@ EXCEPT ![toolA] = {"update", "get", "clear"},
                                     ![toolB] = {"update", "set", "erase"}]]

\* A model, Tools and a tracer that keep their rank, all traced.
Observed ==
    [Plain EXCEPT !.starts = (u1 :> {<<c1, s1>>}) @@ (u2 :> {<<c2, s1>>}),
                  !.offers[c1] = <<toolA>>,
                  !.traced = {c1},
                  !.uses = [@ EXCEPT ![toolA] = {"update"}, ![Tracer] = {"update"}]]

\* An updater that uses the state it updates.
Reentering ==
    [Plain EXCEPT !.starts[u1] = {<<c1, s1>>},
                  !.offers[c1] = <<toolA>>,
                  !.uses = [@ EXCEPT ![toolA] = {"update"}, ![s1] = {"set"}]]

AllApplications ==
    {Layered, Nested, NestedParallel, Crossed, SelfAsking, SelfTracing,
     Counting, Observed, Reentering}
=============================================================================
