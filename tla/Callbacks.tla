----------------------------- MODULE Callbacks -----------------------------
(***************************************************************************)
(* Callbacks of the application that call back into the library.           *)
(*                                                                         *)
(* The library calls application code with a lock of its own held: a Tool  *)
(* with its invocation_mutex_ (recursive), the function of a               *)
(* FunctionAIClient or of a FunctionTracer and the updater of a            *)
(* SessionState with a plain mutex.  Such a callback may use the library   *)
(* again: start a generation, or use the state of its session.  Every      *)
(* thread has a stack of activations; the last one runs.  An activation    *)
(* has a list of steps still to do, so todo is its program counter.        *)
(*                                                                         *)
(* A lock has the name of the object it belongs to.  What an application   *)
(* installs and what its callbacks may do is a record app, chosen          *)
(* initially and then constant.  What a generation does to its history is  *)
(* in module AIClient; here it is the sequence of its calls, with one tool *)
(* round or none, and the batches of ToolExecutor are one batch.           *)
(***************************************************************************)
EXTENDS SessionState, Sequences, FiniteSets

CONSTANTS
    Callers,        \* threads of the application
    Workers,        \* threads std::async may start
    Clients,        \* FunctionAIClient objects
    Tools,          \* Tool objects
    Tracer,         \* a FunctionTracer
    NoThread,       \* an unlocked mutex
    Applications,   \* what an application installs and what its callbacks do
    MaxLevel        \* bound: generations nested in one another

Threads == Callers \cup Workers
Locks == Clients \cup Tools \cup Sessions \cup {Tracer}
Uses == {"set", "get", "erase", "clear", "update"}      \* of a SessionState

ASSUME CallbacksAssumption ==
    /\ Callers \cap Workers = {}
    /\ NoThread \notin Threads
    /\ Clients \cap Tools = {} /\ Sessions \cap (Clients \cup Tools) = {}
    /\ Tracer \notin Clients \cup Tools \cup Sessions
    /\ MaxLevel \in Nat \ {0}
    /\ \A a \in Applications :
          /\ a.starts \in [Callers -> SUBSET (Clients \X Sessions)]
          /\ a.offers \in [Clients -> Seq(Tools)]
          /\ a.parallel \subseteq Clients
          /\ a.traced \subseteq Clients
          /\ a.generates \in [Locks -> SUBSET (Clients \X Sessions)]
          /\ a.uses \in [Locks -> SUBSET Uses]
          /\ a.rank \in [Locks -> Nat]

VARIABLES
    app,       \* the application
    stack,     \* stack[t]: the activations on thread t, the running one last
    raised,    \* raised[t]: an exception is on its way to that one
    owner,     \* owner[l]: the thread that holds lock l
    depth,     \* depth[l]: how often it holds it
    active,    \* Session::active_
    started    \* the callers that have called generate

lockVars == <<owner, depth>>
vars == <<app, stack, raised, owner, depth, active, started, values, completed>>

Steps == {"acquire", "trace", "model", "answer", "spawn", "drain", "inline",
          "release", "fail", "invoke", "return", "lock", "body", "finish"}
         \cup Uses

Activation ==
    [op : {"generate", "execute", "access", "callback"},
     on : Locks,              \* the client, the Tool, the object called
     session : Sessions,      \* the session of the generation around it
     level : 1..MaxLevel,     \* generations around it, itself included
     todo : Seq(Steps),
     calls : Seq(Tools),      \* tool calls neither executed nor launched yet
     kids : SUBSET Workers,   \* futures not read yet
     key : Keys, type : Types,    \* of an access to a SessionState
     seen : 0..MaxUpdates]        \* the number given to an updater

TypeOK ==
    /\ StateTypeOK
    /\ app \in Applications
    /\ stack \in [Threads -> Seq(Activation)]
    /\ raised \in [Threads -> BOOLEAN]
    /\ owner \in [Locks -> Threads \cup {NoThread}]
    /\ depth \in [Locks -> Nat]
    /\ \A l \in Locks : depth[l] = 0 <=> owner[l] = NoThread
    /\ active \in [Sessions -> BOOLEAN]
    /\ started \subseteq Callers

Init ==
    /\ StateInit
    /\ app \in Applications
    /\ stack = [t \in Threads |-> <<>>]
    /\ raised = [t \in Threads |-> FALSE]
    /\ owner = [l \in Locks |-> NoThread]
    /\ depth = [l \in Locks |-> 0]
    /\ active = [s \in Sessions |-> FALSE]
    /\ started = {}

(***************************************************************************)
(* Activations.                                                            *)
(***************************************************************************)
NewActivation(op, l, s, level, todo) ==
    [op |-> op, on |-> l, session |-> s, level |-> level, todo |-> todo,
     calls |-> <<>>, kids |-> {}, key |-> CHOOSE k \in Keys : TRUE,
     type |-> CHOOSE T \in Types : TRUE, seen |-> 0]

\* trace() calls the tracers the client was given, if any.
Traced(c, steps, untraced) == IF c \in app.traced THEN steps ELSE untraced

\* generation_start and provider_start, then one provider call.
Generation(c, s, level) ==
    NewActivation("generate", c, s, level,
                  Traced(c, <<"acquire", "trace", "trace", "model", "answer">>,
                            <<"acquire", "model", "answer">>))

\* provider_end and generation_end.
Ending(c) == Traced(c, <<"trace", "trace", "release">>, <<"release">>)

\* The tools are executed and the provider answers a second time, finally.
ToolRound(c) ==
    IF c \in app.parallel /\ Len(app.offers[c]) >= 2
    THEN Traced(c, <<"trace", "spawn", "drain", "inline", "trace", "model",
                     "trace", "trace", "release">>,
                   <<"spawn", "drain", "inline", "model", "release">>)
    ELSE Traced(c, <<"trace", "inline", "trace", "model",
                     "trace", "trace", "release">>,
                   <<"inline", "model", "release">>)

\* execute_tool: tool_start, the invocation, tool_end.
Execution(c, tool, s, level) ==
    NewActivation("execute", tool, s, level,
                  Traced(c, <<"trace", "invoke", "trace", "return">>,
                            <<"invoke", "return">>))

Callback(l, s, level) == NewActivation("callback", l, s, level, <<"lock", "body">>)

Height(t) == Len(stack[t])
Top(t) == stack[t][Height(t)]

At(t, step) ==
    /\ stack[t] # <<>> /\ ~raised[t]
    /\ Top(t).todo # <<>> /\ Head(Top(t).todo) = step

\* The steps after the one it is at.
Rest(t) == Tail(Top(t).todo)

\* The running activation becomes a ...
Becomes(t, a) == stack' = [stack EXCEPT ![t][Height(t)] = a]

\* ... has become a and called b ...
Calls(t, a, b) ==
    stack' = [stack EXCEPT ![t] = Append([@ EXCEPT ![Height(t)] = a], b)]

\* ... or returns, or throws to the one around it.  The exceptions of Tools and
\* of tracers are caught around the call of the callback; a generation on the
\* application's own stack throws to code that is not modelled.
Leave(t, throws) ==
    /\ stack' = [stack EXCEPT ![t] = SubSeq(@, 1, Height(t) - 1)]
    /\ raised' = [raised EXCEPT ![t] = throws /\ Height(t) > 1]

\* It goes on with the steps in todo, or calls b and then goes on.
Continue(t, todo) == Becomes(t, [Top(t) EXCEPT !.todo = todo])
Call(t, b) == Calls(t, [Top(t) EXCEPT !.todo = Rest(t)], b)

(***************************************************************************)
(* Locks.                                                                  *)
(***************************************************************************)
\* Faulty: a Tool has a plain mutex.
NeverRecursive(l) == FALSE

Recursive(l) == l \in Tools

Available(t, l) == owner[l] = NoThread \/ (owner[l] = t /\ Recursive(l))

Take(t, l) ==
    /\ Available(t, l)
    /\ owner' = [owner EXCEPT ![l] = t]
    /\ depth' = [depth EXCEPT ![l] = @ + 1]

\* Faulty: the first unlock frees the lock, however often it was taken.
GiveBackAtOnce(l) ==
    /\ depth' = [depth EXCEPT ![l] = @ - 1]
    /\ owner' = [owner EXCEPT ![l] = NoThread]

GiveBack(l) ==
    /\ depth' = [depth EXCEPT ![l] = @ - 1]
    /\ owner' = [owner EXCEPT ![l] = IF depth[l] = 1 THEN NoThread ELSE @]

(***************************************************************************)
(* AIClient::generate.                                                     *)
(***************************************************************************)
Start(t) ==
    /\ t \in Callers \ started
    /\ \E g \in app.starts[t] :
          stack' = [stack EXCEPT ![t] = <<Generation(g[1], g[2], 1)>>]
    /\ started' = started \cup {t}
    /\ UNCHANGED <<app, raised, lockVars, active, stateVars>>

\* A session in use is not waited for: SessionInUseError.
Acquire(t) ==
    LET s == Top(t).session IN
    /\ At(t, "acquire")
    /\ active' = [active EXCEPT ![s] = TRUE]
    /\ IF active[s] THEN Leave(t, TRUE)
       ELSE Continue(t, Rest(t)) /\ UNCHANGED raised
    /\ UNCHANGED <<app, lockVars, started, stateVars>>

\* trace(): FunctionTracer::record.
Trace(t) ==
    /\ At(t, "trace")
    /\ Call(t, Callback(Tracer, Top(t).session, Top(t).level))
    /\ UNCHANGED <<app, raised, lockVars, active, started, stateVars>>

\* FunctionAIClient::generate_once
Model(t) ==
    /\ At(t, "model")
    /\ Call(t, Callback(Top(t).on, Top(t).session, Top(t).level))
    /\ UNCHANGED <<app, raised, lockVars, active, started, stateVars>>

\* The first response is final, or it asks for the tools of the application.
Answer(t) ==
    LET c == Top(t).on IN
    /\ At(t, "answer")
    /\ \/ Continue(t, Ending(c))
       \/ /\ app.offers[c] # <<>>
          /\ Becomes(t, [Top(t) EXCEPT !.todo = ToolRound(c),
                                        !.calls = app.offers[c]])
    /\ UNCHANGED <<app, raised, lockVars, active, started, stateVars>>

\* catch (...) { trace(error); throw; }
Unwind(t) ==
    /\ stack[t] # <<>> /\ raised[t] /\ Top(t).op = "generate"
    /\ Continue(t, Traced(Top(t).on, <<"trace", "fail">>, <<"fail">>))
    /\ raised' = [raised EXCEPT ![t] = FALSE]
    /\ UNCHANGED <<app, lockVars, active, started, stateVars>>

\* ~RunLease on the way out.
Release(t) ==
    /\ At(t, "release") \/ At(t, "fail")
    /\ active' = [active EXCEPT ![Top(t).session] = FALSE]
    /\ Leave(t, At(t, "fail"))
    /\ UNCHANGED <<app, lockVars, started, stateVars>>

(***************************************************************************)
(* execute_tools and execute_tool.                                         *)
(***************************************************************************)
Unread(w) == \E t \in Threads : \E i \in 1..Len(stack[t]) : w \in stack[t][i].kids

NextCall(t) == Execution(Top(t).on, Head(Top(t).calls), Top(t).session, Top(t).level)

\* std::async for the next call.
Spawn(t) ==
    LET free == {w \in Workers : stack[w] = <<>> /\ ~Unread(w)} IN
    /\ At(t, "spawn")
    /\ free # {}
    /\ LET w == CHOOSE w \in free : TRUE
           calls == Tail(Top(t).calls)
           todo == IF calls = <<>> THEN Rest(t) ELSE Top(t).todo IN
       stack' = [stack EXCEPT
                   ![w] = <<NextCall(t)>>,
                   ![t][Height(t)] =
                      [Top(t) EXCEPT !.todo = todo, !.calls = calls, !.kids = @ \cup {w}]]
    /\ UNCHANGED <<app, raised, lockVars, active, started, stateVars>>

\* std::system_error: no thread for the calls that are left.
SpawnFails(t) ==
    /\ At(t, "spawn")
    /\ Continue(t, Rest(t))
    /\ UNCHANGED <<app, raised, lockVars, active, started, stateVars>>

\* future.get() for everything that was launched.
Drain(t) ==
    /\ At(t, "drain")
    /\ \A w \in Top(t).kids : stack[w] = <<>>
    /\ Becomes(t, [Top(t) EXCEPT
                     !.kids = {},
                     !.todo = IF Top(t).calls = <<>> THEN Tail(Rest(t))
                              ELSE Rest(t)])
    /\ UNCHANGED <<app, raised, lockVars, active, started, stateVars>>

\* execute_tool on the thread of the generation.
Inline(t) ==
    LET calls == Tail(Top(t).calls)
        todo == IF calls = <<>> THEN Rest(t) ELSE Top(t).todo IN
    /\ At(t, "inline")
    /\ Calls(t, [Top(t) EXCEPT !.todo = todo, !.calls = calls], NextCall(t))
    /\ UNCHANGED <<app, raised, lockVars, active, started, stateVars>>

Invoke(t) ==
    /\ At(t, "invoke")
    /\ Call(t, Callback(Top(t).on, Top(t).session, Top(t).level))
    /\ UNCHANGED <<app, raised, lockVars, active, started, stateVars>>

Return(t) ==
    /\ At(t, "return")
    /\ Leave(t, FALSE)
    /\ UNCHANGED <<app, lockVars, active, started, stateVars>>

(***************************************************************************)
(* A callback: the lock, at most one use of the library, the end.          *)
(***************************************************************************)
Lock(t) ==
    /\ At(t, "lock")
    /\ Take(t, Top(t).on)
    /\ Continue(t, Rest(t))
    /\ UNCHANGED <<app, raised, active, started, stateVars>>

Generate(t) ==
    LET a == Top(t) IN
    /\ At(t, "body")
    /\ a.level < MaxLevel
    /\ \E g \in app.generates[a.on] :
          Calls(t, [a EXCEPT !.todo = <<"finish">>],
                Generation(g[1], g[2], a.level + 1))
    /\ UNCHANGED <<app, raised, lockVars, active, started, stateVars>>

Access(use, k, T, s, level) ==
    [NewActivation("access", s, s, level, <<use>>) EXCEPT !.key = k, !.type = T]

UseState(t) ==
    LET a == Top(t) IN
    /\ At(t, "body")
    /\ \E use \in app.uses[a.on], k \in Keys, T \in Types :
          Calls(t, [a EXCEPT !.todo = <<"finish">>],
                Access(use, k, T, a.session, a.level))
    /\ UNCHANGED <<app, raised, lockVars, active, started, stateVars>>

\* Faulty: the exception leaves without the destructor of the lock_guard.
FinishKeepsLock(t) ==
    LET a == Top(t) IN
    /\ stack[t] # <<>> /\ a.op = "callback"
    /\ raised[t] \/ At(t, "body") \/ At(t, "finish")
    /\ \E throws \in BOOLEAN :
          /\ IF throws THEN UNCHANGED lockVars ELSE GiveBack(a.on)
          /\ Leave(t, throws /\ a.on \notin Tools \cup {Tracer})
          /\ IF a.on \in Sessions /\ ~throws
             THEN /\ a.seen < MaxUpdates
                  /\ Assign(a.session, a.key, a.seen)
             ELSE UNCHANGED stateVars
    /\ UNCHANGED <<app, active, started>>

\* The callback returns or throws, and the lock_guard unlocks.  An exception
\* of the library may pass through it or be caught in it.
Finish(t) ==
    LET a == Top(t) IN
    /\ stack[t] # <<>> /\ a.op = "callback"
    /\ raised[t] \/ At(t, "body") \/ At(t, "finish")
    /\ GiveBack(a.on)
    /\ \E throws \in BOOLEAN :
          /\ Leave(t, throws /\ a.on \notin Tools \cup {Tracer})
          /\ IF a.on \in Sessions /\ ~throws
             THEN /\ a.seen < MaxUpdates
                  /\ Assign(a.session, a.key, a.seen)
             ELSE UNCHANGED stateVars
    /\ UNCHANGED <<app, active, started>>

(***************************************************************************)
(* An access to a SessionState, from inside a callback.                    *)
(***************************************************************************)
\* Faulty: set does not lock.
SetUnlocked(t) ==
    LET a == Top(t) IN
    /\ \/ At(t, "set") /\ Set(a.on, a.key, a.type)
       \/ At(t, "erase") /\ Erase(a.on, a.key) /\ Available(t, a.on)
       \/ At(t, "clear") /\ Clear(a.on) /\ Available(t, a.on)
    /\ Leave(t, FALSE)
    /\ UNCHANGED <<app, lockVars, active, started>>

\* set, erase and clear hold mutex_ only for themselves.
Modify(t) ==
    LET a == Top(t) IN
    /\ \/ At(t, "set") /\ Set(a.on, a.key, a.type)
       \/ At(t, "erase") /\ Erase(a.on, a.key)
       \/ At(t, "clear") /\ Clear(a.on)
    /\ Available(t, a.on)
    /\ Leave(t, FALSE)
    /\ UNCHANGED <<app, lockVars, active, started>>

\* get: a value of another type is std::bad_any_cast.
Get(t) ==
    LET a == Top(t) IN
    /\ At(t, "get")
    /\ Available(t, a.on)
    /\ Leave(t, ContainsKey(a.on, a.key) /\ ~Holds(a.on, a.key, a.type))
    /\ UNCHANGED <<app, lockVars, active, started, stateVars>>

\* update up to the call of the updater.
Update(t) ==
    LET a == Top(t)
        old == values[a.on][a.key] IN
    /\ At(t, "update")
    /\ Take(t, a.on)
    /\ Emplace(a.on, a.key, a.type)
    /\ Becomes(t, [a EXCEPT !.op = "callback", !.todo = <<"body">>,
                            !.seen = IF old = Absent THEN 0 ELSE old.n])
    /\ old # Absent => old.type = a.type
    /\ UNCHANGED <<app, raised, active, started>>

\* update of a value of another type: std::bad_any_cast.
UpdateMismatch(t) ==
    LET a == Top(t) IN
    /\ At(t, "update")
    /\ Available(t, a.on)
    /\ ContainsKey(a.on, a.key) /\ ~Holds(a.on, a.key, a.type)
    /\ Leave(t, TRUE)
    /\ UNCHANGED <<app, lockVars, active, started, stateVars>>

-----------------------------------------------------------------------------
Step(t) ==
    \/ Acquire(t) \/ Trace(t) \/ Model(t) \/ Answer(t) \/ Unwind(t) \/ Release(t)
    \/ Spawn(t) \/ SpawnFails(t) \/ Drain(t) \/ Inline(t) \/ Invoke(t) \/ Return(t)
    \/ Lock(t) \/ Generate(t) \/ UseState(t) \/ Finish(t)
    \/ Modify(t) \/ Get(t) \/ Update(t) \/ UpdateMismatch(t)

Next == \E t \in Threads : Start(t) \/ Step(t)

Fairness == \A t \in Threads : WF_vars(Step(t))

Spec == Init /\ [][Next]_vars /\ Fairness

(***************************************************************************)
(* Applications that keep an order of their locks.                         *)
(***************************************************************************)
\* The locks a generation takes, directly and for its tools.
TakenBy(c) ==
    {c} \cup {app.offers[c][i] : i \in 1..Len(app.offers[c])}
        \cup (IF c \in app.traced THEN {Tracer} ELSE {})

\* The locks a callback that holds l may take or wait for.
Wants(l) ==
    (UNION {TakenBy(g[1]) : g \in app.generates[l]})
    \cup (IF app.uses[l] = {} THEN {} ELSE Sessions)

\* Every callback only uses objects of a lower rank.
Ordered == \A l \in Locks : \A m \in Wants(l) : app.rank[m] < app.rank[l]

\* One thread: a Tool may also be used inside of itself and of its equals.
OneThread ==
    /\ \A t, u \in Callers : app.starts[t] # {} /\ app.starts[u] # {} => t = u
    /\ app.parallel = {}

Reentrant ==
    /\ OneThread
    /\ \A l \in Locks : \A m \in Wants(l) :
          \/ app.rank[m] < app.rank[l]
          \/ l \in Tools /\ m \in Tools /\ app.rank[m] = app.rank[l]

Inside(t, l) ==
    {i \in 1..Height(t) :
        /\ stack[t][i].op = "callback" /\ stack[t][i].on = l
        /\ Head(stack[t][i].todo) # "lock"}

Blocked(t) ==
    /\ stack[t] # <<>>
    /\ \/ At(t, "lock") /\ ~Available(t, Top(t).on)
       \/ \E use \in Uses : At(t, use) /\ ~Available(t, Top(t).on)
       \/ At(t, "drain") /\ \E w \in Top(t).kids : stack[w] # <<>>

\* Nobody can go on, and somebody has not finished.
Stuck ==
    /\ \E t \in Threads : stack[t] # <<>>
    /\ \A t \in Threads : stack[t] = <<>> \/ Blocked(t)

(***************************************************************************)
(* Properties.                                                             *)
(***************************************************************************)
\* Whatever calls back into what: the callback of one object is never on two
\* threads at once, and that of a plain mutex is never inside itself.  A Tool
\* keeps its lock until the outermost of its nested invocations has ended.
CallbacksAreSerialized ==
    \A l \in Locks :
       /\ \A t, u \in Threads :
             t # u => Inside(t, l) = {} \/ Inside(u, l) = {}
       /\ l \notin Tools =>
             \A t \in Threads : \A i, j \in Inside(t, l) : i = j

\* Updates from callbacks of any threads are not lost: an entry has counted
\* every updater that returned since it was created or set.
NoUpdateIsLost ==
    \A s \in Sessions : \A k \in Keys :
       ContainsKey(s, k) => values[s][k].n = completed[s][k]

OnlyCompleted(s, k) ==
    \/ values'[s][k] = values[s][k]
    \/ ~ContainsKey(s, k) /\ values'[s][k].n = 0
    \/ \E t \in Threads :
          /\ stack[t] # <<>> /\ Top(t).on = s
          /\ Height(t)' < Height(t) /\ ~raised'[t]
          /\ \/ \E use \in {"set", "erase", "clear"} : At(t, use)
             \/ /\ Top(t).op = "callback" /\ Top(t).key = k
                /\ ContainsKey(s, k)
                /\ values'[s][k] = [values[s][k] EXCEPT !.n = @ + 1]

\* An update that fails, because the updater throws or the entry has another
\* type, leaves an existing entry as it was; to a missing one it may add the
\* initial value, nothing else.
OnlyCompletedUpdatesCount ==
    [][\A s \in Sessions, k \in Keys : OnlyCompleted(s, k)]_vars

\* Two rules are each enough to keep callbacks from waiting for one another:
\* an order of the locks, or a single thread whose only cycles are Tools used
\* inside of Tools, which is what the mutex is recursive for.
StuckOnlyWithoutRule == Stuck => ~Ordered /\ ~Reentrant

\* Under either rule every activation ends, also when callbacks throw.
EverythingReturns ==
    \A t \in Threads :
       ((Ordered \/ Reentrant) /\ stack[t] # <<>>) ~> (stack[t] = <<>>)
=============================================================================
