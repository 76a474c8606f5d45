--------------------------- MODULE Callbacks_proofs ---------------------------
(***************************************************************************)
(* Callbacks for any application, any number of threads and objects, and   *)
(* any nesting: the callbacks of one object are serialized, no update is   *)
(* lost, and threads wait for one another only where neither rule is kept. *)
(***************************************************************************)
EXTENDS Callbacks, Induction, SequenceTheorems, FiniteSetTheorems, TLAPS

(***************************************************************************)
(* An activation by itself.  Its parts depend on the application p.        *)
(***************************************************************************)
Offered(p, c) == {p.offers[c][i] : i \in 1..Len(p.offers[c])}

GenSteps == {"acquire", "trace", "model", "answer", "spawn", "drain", "inline",
             "release", "fail"}
ExecSteps == {"trace", "invoke", "return"}
ToolSteps == {"spawn", "drain", "inline"}

\* What a generation still has to do: calls are launched, read and executed in
\* this order and once, and launching and executing need a call that is left.
Plan(todo, calls) ==
    /\ todo \in Seq(GenSteps)
    /\ \A j, k \in 1..Len(todo) :
          todo[j] \in ToolSteps /\ todo[j] = todo[k] => j = k
    /\ \A k \in 1..Len(todo) :
          /\ todo[k] = "spawn" => k < Len(todo) /\ todo[k + 1] = "drain"
          /\ todo[k] = "drain" => k < Len(todo) /\ todo[k + 1] = "inline"
          /\ calls = <<>> =>
                /\ todo[k] # "spawn"
                /\ todo[k] = "inline" => k > 1 /\ todo[k - 1] = "drain"

Spawns(todo) == \E k \in 1..Len(todo) : todo[k] = "spawn"

OfGenerate(p, a) ==
    /\ a.on \in Clients
    /\ Plan(a.todo, a.calls)
    /\ a.calls \in Seq(Offered(p, a.on))
    /\ a.kids # {} \/ Spawns(a.todo) => p.parallel # {}

OfExecute(a) == a.on \in Tools /\ a.todo \in Seq(ExecSteps)

OfAccess(a) ==
    /\ a.on \in Sessions /\ a.session = a.on
    /\ \E use \in Uses : a.todo = <<use>>

\* Only update runs a callback with the lock of a session.
OfCallback(a) ==
    /\ a.todo \in {<<"lock", "body">>, <<"body">>, <<"finish">>}
    /\ a.on \in Sessions => a.session = a.on /\ a.todo # <<"lock", "body">>

Good(p, a) ==
    /\ a \in Activation
    /\ a.op = "generate" => OfGenerate(p, a)
    /\ a.op = "execute" => OfExecute(a)
    /\ a.op = "access" => OfAccess(a)
    /\ a.op = "callback" => OfCallback(a)
    /\ a.op # "generate" => a.kids = {}

\* a runs with lock l held.
Hold(a, l) == a.op = "callback" /\ a.on = l /\ Head(a.todo) # "lock"

\* The locks a generation of client c, and a callback that holds l, may take.
Taken(p, c) == {c} \cup Offered(p, c) \cup (IF c \in p.traced THEN {Tracer} ELSE {})
Wanted(p, l) ==
    (UNION {Taken(p, g[1]) : g \in p.generates[l]})
    \cup (IF p.uses[l] = {} THEN {} ELSE Sessions)

Traces(a) == \E k \in 1..Len(a.todo) : a.todo[k] = "trace"

\* The locks a itself may take, up to those of the callbacks it calls.
Reach(p, a) ==
    (IF a.op = "generate" THEN Taken(p, a.on) ELSE {a.on})
    \cup (IF Traces(a) THEN {Tracer} ELSE {})

NoHigher(p, X, Y) == \A x \in X : \E y \in Y : p.rank[x] <= p.rank[y]

(***************************************************************************)
(* The steps of an activation b: it goes on as a, or calls c.              *)
(***************************************************************************)
Onward(p, b, a) ==
    /\ Good(p, a)
    /\ a.on = b.on /\ a.level = b.level
    /\ a.kids \subseteq b.kids
    /\ a.op = "generate" => b.op = "generate"
    /\ NoHigher(p, Reach(p, a), Reach(p, b))

Keeps(b, a) ==
    /\ \A l : Hold(a, l) <=> Hold(b, l)
    /\ a.op = "callback" => b.op = "callback" /\ a.key = b.key /\ a.seen = b.seen

Idle(a) == \A l : ~Hold(a, l)

Sub(p, b, c) ==
    /\ Good(p, c) /\ c.kids = {} /\ Idle(c)
    /\ c.op = "callback" => c.on \notin Sessions
    /\ c.level >= b.level
    /\ c.op = "generate" => c.level > b.level
    /\ \/ Idle(b) /\ NoHigher(p, Reach(p, c), Reach(p, b))
       \/ Hold(b, b.on) /\ Reach(p, c) \subseteq Wanted(p, b.on)

-----------------------------------------------------------------------------
(***************************************************************************)
(* Stacks.                                                                 *)
(***************************************************************************)
Same(s, n, h) == \A j \in 1..h : n[j] = s[j]

\* s becomes n: a replaces the last element, and c is added to it; or it goes.
TopIs(s, n, a) ==
    /\ Len(s) \in Nat \ {0} /\ Len(n) = Len(s)
    /\ n[Len(s)] = a /\ Same(s, n, Len(s) - 1)
TopsAre(s, n, a, c) ==
    /\ Len(s) \in Nat \ {0} /\ Len(n) = Len(s) + 1
    /\ n[Len(s)] = a /\ n[Len(s) + 1] = c /\ Same(s, n, Len(s) - 1)
TopIsGone(s, n) ==
    /\ Len(s) \in Nat \ {0} /\ Len(n) = Len(s) - 1 /\ Same(s, n, Len(s) - 1)

Put(s, l, a) == [s EXCEPT ![l] = a]

LEMMA Replaced ==
    ASSUME NEW S, NEW s \in Seq(S), s # <<>>, NEW a \in S
    PROVE  Put(s, Len(s), a) \in Seq(S) /\ TopIs(s, Put(s, Len(s), a), a)
<1>1. PICK l : l = Len(s) /\ l \in Nat \ {0} /\ l \in 1..Len(s)
  BY EmptySeq, LenProperties
<1>2. PICK n : n = [s EXCEPT ![l] = a]
  OBVIOUS
<1>3. /\ n \in Seq(S) /\ Len(n) = Len(s)
      /\ \A j \in 1..Len(s) : n[j] = IF j = l THEN a ELSE s[j]
  BY <1>1, <1>2, ExceptSeq
<1>4. n \in Seq(S) /\ TopIs(s, n, a)
  BY <1>1, <1>3 DEF Same, TopIs
<1> QED BY <1>1, <1>2, <1>4 DEF Put

LEMMA Pushed ==
    ASSUME NEW S, NEW s \in Seq(S), s # <<>>, NEW a \in S, NEW c \in S
    PROVE  /\ Append(Put(s, Len(s), a), c) \in Seq(S)
           /\ TopsAre(s, Append(Put(s, Len(s), a), c), a, c)
<1>1. PICK m, n : m = Put(s, Len(s), a) /\ n = Append(m, c)
  OBVIOUS
<1>2. m \in Seq(S) /\ TopIs(s, m, a)
  BY <1>1, Replaced
<1>3. /\ n \in Seq(S) /\ Len(n) = Len(m) + 1 /\ n[Len(m) + 1] = c
      /\ \A j \in 1..Len(m) : n[j] = m[j]
  BY <1>1, <1>2, AppendProperties
<1>4. n \in Seq(S) /\ TopsAre(s, n, a, c)
  BY <1>2, <1>3 DEF Same, TopIs, TopsAre
<1> QED BY <1>1, <1>4

LEMMA Popped ==
    ASSUME NEW S, NEW s \in Seq(S), s # <<>>,
           NEW n, n = SubSeq(s, 1, Len(s) - 1)
    PROVE  /\ n \in Seq(S) /\ Len(n) = Len(s) - 1 /\ Same(s, n, Len(n))
           /\ Len(s) \in Nat \ {0}
<1>1. PICK l : l = Len(s) /\ l \in Nat \ {0}
  BY EmptySeq, LenProperties
<1>2. 1 \in Int /\ l - 1 \in Int /\ \A j \in 1..(l - 1) : s[j] \in S
  BY <1>1, ElementOfSeq
<1>3. /\ n \in Seq(S) /\ Len(n) = (IF 1 <= l - 1 THEN (l - 1) - 1 + 1 ELSE 0)
      /\ \A j \in 1..((l - 1) - 1 + 1) : n[j] = s[1 + j - 1]
  BY <1>1, <1>2, SubSeqProperties
<1>4. Len(n) = l - 1 /\ (l - 1) - 1 + 1 = l - 1
  BY <1>1, <1>3
<1>5. \A j \in 1..(l - 1) : n[j] = s[j]
  <2> TAKE j \in 1..(l - 1)
  <2>1. 1 + j - 1 = j
    OBVIOUS
  <2> QED BY <1>3, <1>4, <2>1
<1> QED BY <1>1, <1>3, <1>4, <1>5 DEF Same

Stacks == stack \in [Threads -> Seq(Activation)]
Others(t) == \A u \in Threads : u # t => stack'[u] = stack[u]

LEMMA BecomesDoes ==
    ASSUME Stacks, NEW t \in Threads, stack[t] # <<>>, NEW a \in Activation,
           Becomes(t, a)
    PROVE  Stacks' /\ Others(t) /\ TopIs(stack[t], stack'[t], a)
<1>1. PICK s : s = stack[t] /\ s \in Seq(Activation) /\ s # <<>>
  BY DEF Stacks
<1>2. PICK n : n = Put(s, Len(s), a)
  OBVIOUS
<1>3. n \in Seq(Activation) /\ TopIs(s, n, a)
  BY <1>1, <1>2, Replaced
<1>4. stack' = [stack EXCEPT ![t] = n]
  BY <1>1, <1>2 DEF Becomes, Height, Put
<1> QED BY <1>1, <1>3, <1>4 DEF Stacks, Others

LEMMA CallsDoes ==
    ASSUME Stacks, NEW t \in Threads, stack[t] # <<>>, NEW a \in Activation,
           NEW c \in Activation, Calls(t, a, c)
    PROVE  Stacks' /\ Others(t) /\ TopsAre(stack[t], stack'[t], a, c)
<1>1. PICK s : s = stack[t] /\ s \in Seq(Activation) /\ s # <<>>
  BY DEF Stacks
<1>2. PICK n : n = Append(Put(s, Len(s), a), c)
  OBVIOUS
<1>3. n \in Seq(Activation) /\ TopsAre(s, n, a, c)
  BY <1>1, <1>2, Pushed
<1>4. stack' = [stack EXCEPT ![t] = n]
  BY <1>1, <1>2 DEF Calls, Height, Put
<1> QED BY <1>1, <1>3, <1>4 DEF Stacks, Others

LEMMA LeaveDoes ==
    ASSUME Stacks, NEW t \in Threads, stack[t] # <<>>, NEW throws, Leave(t, throws)
    PROVE  Stacks' /\ Others(t) /\ TopIsGone(stack[t], stack'[t])
<1>1. PICK s : s = stack[t] /\ s \in Seq(Activation)
  BY DEF Stacks
<1>2. PICK n : n = SubSeq(s, 1, Len(s) - 1)
  OBVIOUS
<1>3. n \in Seq(Activation) /\ TopIsGone(s, n)
  BY <1>1, <1>2, Popped DEF TopIsGone
<1>4. stack' = [stack EXCEPT ![t] = n]
  BY <1>1, <1>2 DEF Leave, Height
<1> QED BY <1>1, <1>3, <1>4 DEF Stacks, Others

-----------------------------------------------------------------------------
(***************************************************************************)
(* Ranks.  Under either rule what a callback wants is lower than its lock, *)
(* or as high if both are Tools.                                           *)
(***************************************************************************)
OrderedBy(p) == \A l \in Locks : \A m \in Wanted(p, l) : p.rank[m] < p.rank[l]

Ruled(p) ==
    \/ OrderedBy(p)
    \/ \A l \in Locks : \A m \in Wanted(p, l) :
          \/ p.rank[m] < p.rank[l]
          \/ l \in Tools /\ m \in Tools /\ p.rank[m] = p.rank[l]

Lower(p, x, l) ==
    /\ p.rank[x] <= p.rank[l]
    /\ OrderedBy(p) \/ l \notin Tools => p.rank[x] < p.rank[l]

LEMMA AppFacts ==
    ASSUME NEW p \in Applications
    PROVE  /\ \A l \in Locks : p.rank[l] \in Nat
           /\ \A c \in Clients : p.offers[c] \in Seq(Tools) /\ Taken(p, c) \subseteq Locks
           /\ \A c \in Clients : Offered(p, c) \subseteq Tools
           /\ \A l \in Locks : Wanted(p, l) \subseteq Locks
<1>1. /\ p.rank \in [Locks -> Nat] /\ p.offers \in [Clients -> Seq(Tools)]
      /\ p.generates \in [Locks -> SUBSET (Clients \X Sessions)]
  BY CallbacksAssumption
<1>2. ASSUME NEW c \in Clients PROVE Offered(p, c) \subseteq Tools
  <2>1. p.offers[c] \in Seq(Tools)
    BY <1>1
  <2>2. \A i \in 1..Len(p.offers[c]) : p.offers[c][i] \in Tools
    BY <2>1, ElementOfSeq
  <2> QED BY <2>2 DEF Offered
<1>3. ASSUME NEW c \in Clients PROVE Taken(p, c) \subseteq Locks
  BY <1>2 DEF Taken, Locks
<1>4. ASSUME NEW l \in Locks PROVE Wanted(p, l) \subseteq Locks
  <2>1. \A g \in p.generates[l] : g[1] \in Clients
    BY <1>1
  <2>2. \A g \in p.generates[l] : Taken(p, g[1]) \subseteq Locks
    BY <2>1, <1>3
  <2>3. ASSUME NEW m \in Wanted(p, l), m \notin Sessions PROVE m \in Locks
    <3>1. m \in UNION {Taken(p, g[1]) : g \in p.generates[l]}
      BY <2>3 DEF Wanted
    <3>2. PICK X \in {Taken(p, g[1]) : g \in p.generates[l]} : m \in X
      BY <3>1
    <3> QED BY <3>2, <2>2
  <2> QED BY <2>3 DEF Locks
<1> QED BY <1>1, <1>2, <1>3, <1>4

LEMMA ReachFacts ==
    ASSUME NEW p \in Applications, NEW a, Good(p, a)
    PROVE  /\ Reach(p, a) \subseteq Locks
           /\ a.on \in Locks /\ a.on \in Reach(p, a)
           /\ a.level \in 1..MaxLevel
           /\ a.kids \subseteq Workers
           /\ \A l : Hold(a, l) => l \in Locks
<1>1. a \in Activation
  BY DEF Good
<1>2. a.on \in Locks /\ a.level \in 1..MaxLevel /\ a.kids \subseteq Workers
  BY <1>1 DEF Activation
<1>3. a.op = "generate" => a.on \in Clients
  BY DEF Good, OfGenerate
<1>4. Tracer \in Locks
  BY DEF Locks
<1>5. Reach(p, a) \subseteq Locks
  BY <1>2, <1>3, <1>4, AppFacts DEF Reach
<1>6. a.on \in Reach(p, a)
  BY DEF Reach, Taken
<1> QED BY <1>2, <1>5, <1>6 DEF Hold

LEMMA WantedIsLower ==
    ASSUME NEW p \in Applications, Ruled(p), NEW l \in Locks, NEW m \in Wanted(p, l)
    PROVE  Lower(p, m, l)
<1>1. p.rank[m] \in Nat /\ p.rank[l] \in Nat
  BY AppFacts
<1> QED BY <1>1 DEF Ruled, OrderedBy, Lower

LEMMA LowerStill ==
    ASSUME NEW p \in Applications, NEW x \in Locks, NEW y \in Locks, NEW l \in Locks,
           p.rank[x] <= p.rank[y], Lower(p, y, l)
    PROVE  Lower(p, x, l)
<1>1. p.rank[x] \in Nat /\ p.rank[y] \in Nat /\ p.rank[l] \in Nat
  BY AppFacts
<1> QED BY <1>1 DEF Lower

LEMMA NoHigherSame ==
    ASSUME NEW p \in Applications, NEW Y \in SUBSET Locks, NEW X \in SUBSET Y
    PROVE  NoHigher(p, X, Y)
<1>1. \A x \in X : x \in Y /\ p.rank[x] \in Nat
  BY AppFacts
<1> QED BY <1>1 DEF NoHigher

LEMMA NoHigherThrough ==
    ASSUME NEW p \in Applications, NEW X \in SUBSET Locks, NEW Y \in SUBSET Locks,
           NEW Z \in SUBSET Locks, NoHigher(p, X, Y), NoHigher(p, Y, Z)
    PROVE  NoHigher(p, X, Z)
<1> SUFFICES ASSUME NEW x \in X PROVE \E z \in Z : p.rank[x] <= p.rank[z]
  BY DEF NoHigher
<1>1. PICK y \in Y : p.rank[x] <= p.rank[y]
  BY DEF NoHigher
<1>2. PICK z \in Z : p.rank[y] <= p.rank[z]
  BY DEF NoHigher
<1>3. p.rank[x] \in Nat /\ p.rank[y] \in Nat /\ p.rank[z] \in Nat
  BY AppFacts
<1> QED BY <1>1, <1>2, <1>3

(***************************************************************************)
(* How an activation g relates to one below it on its stack, f, and to one *)
(* that launched its thread.  Succ is what both relations follow through.  *)
(***************************************************************************)
Above(p, f, g) == \A l : Hold(f, l) => \A x \in Reach(p, g) : Lower(p, x, l)

Kid(p, f, g) ==
    /\ NoHigher(p, Reach(p, g), Taken(p, f.on))
    /\ g.level >= f.level
    /\ g.op = "generate" => g.level > f.level

Succ(p, b, g) ==
    /\ NoHigher(p, Reach(p, g), Reach(p, b))
    /\ g.level >= b.level
    /\ g.op = "generate" => b.op = "generate" \/ g.level > b.level

LEMMA SuccSame ==
    ASSUME NEW p \in Applications, NEW b, Good(p, b)
    PROVE  Succ(p, b, b)
<1>1. NoHigher(p, Reach(p, b), Reach(p, b))
  BY ReachFacts, NoHigherSame
<1>2. b.level \in 1..MaxLevel
  BY ReachFacts
<1> QED BY <1>1, <1>2, CallbacksAssumption DEF Succ

LEMMA OnwardSucc ==
    ASSUME NEW p \in Applications, NEW b, NEW a, Good(p, b), Onward(p, b, a)
    PROVE  Succ(p, b, a)
<1>1. b.level \in 1..MaxLevel
  BY ReachFacts
<1> QED BY <1>1, CallbacksAssumption DEF Succ, Onward

LEMMA SubSucc ==
    ASSUME NEW p \in Applications, Ruled(p), NEW b, NEW c, Good(p, b), Sub(p, b, c)
    PROVE  Succ(p, b, c)
<1>1. CASE NoHigher(p, Reach(p, c), Reach(p, b))
  BY <1>1 DEF Succ, Sub
<1>2. CASE Hold(b, b.on) /\ Reach(p, c) \subseteq Wanted(p, b.on)
  <2>1. b.on \in Locks /\ b.on \in Reach(p, b)
    BY ReachFacts
  <2>2. \A x \in Reach(p, c) : p.rank[x] <= p.rank[b.on]
    <3> TAKE x \in Reach(p, c)
    <3>1. Lower(p, x, b.on)
      BY <1>2, <2>1, WantedIsLower
    <3> QED BY <3>1 DEF Lower
  <2>3. NoHigher(p, Reach(p, c), Reach(p, b))
    BY <2>1, <2>2 DEF NoHigher
  <2> QED BY <2>3 DEF Succ, Sub
<1> QED BY <1>1, <1>2 DEF Sub

LEMMA AboveSucc ==
    ASSUME NEW p \in Applications, NEW f, NEW b, NEW g, Good(p, f), Good(p, b), Good(p, g),
           Above(p, f, b), Succ(p, b, g)
    PROVE  Above(p, f, g)
<1> SUFFICES ASSUME NEW l, Hold(f, l), NEW x \in Reach(p, g) PROVE Lower(p, x, l)
  BY DEF Above
<1>1. PICK y \in Reach(p, b) : p.rank[x] <= p.rank[y]
  BY DEF Succ, NoHigher
<1>2. Lower(p, y, l)
  BY <1>1 DEF Above
<1>3. x \in Locks /\ y \in Locks /\ l \in Locks
  BY ReachFacts
<1> QED BY <1>1, <1>2, <1>3, LowerStill

\* Directly above the caller.
LEMMA AboveSub ==
    ASSUME NEW p \in Applications, Ruled(p), NEW b, NEW a, NEW c,
           Good(p, b), Keeps(b, a), Sub(p, b, c)
    PROVE  Above(p, a, c)
<1> SUFFICES ASSUME NEW l, Hold(a, l), NEW x \in Reach(p, c) PROVE Lower(p, x, l)
  BY DEF Above
<1>1. Hold(b, l)
  BY DEF Keeps
<1>2. b.on = l /\ l \in Locks
  BY <1>1, ReachFacts DEF Hold
<1>3. Reach(p, c) \subseteq Wanted(p, l)
  BY <1>1, <1>2 DEF Sub, Idle
<1> QED BY <1>2, <1>3, WantedIsLower

LEMMA KidSucc ==
    ASSUME NEW p \in Applications, NEW f, NEW b, NEW g, Good(p, f), Good(p, b), Good(p, g),
           f.on \in Clients, Kid(p, f, b), Succ(p, b, g)
    PROVE  Kid(p, f, g)
<1>1. NoHigher(p, Reach(p, g), Taken(p, f.on))
  <2>1. Reach(p, g) \subseteq Locks /\ Reach(p, b) \subseteq Locks
        /\ Taken(p, f.on) \subseteq Locks
    BY ReachFacts, AppFacts
  <2> QED BY <2>1, NoHigherThrough DEF Kid, Succ
<1>2. f.level \in 1..MaxLevel /\ b.level \in 1..MaxLevel /\ g.level \in 1..MaxLevel
  BY ReachFacts
<1>3. g.level >= f.level /\ (g.op = "generate" => g.level > f.level)
  BY <1>2, CallbacksAssumption DEF Kid, Succ
<1> QED BY <1>1, <1>3 DEF Kid

-----------------------------------------------------------------------------
(***************************************************************************)
(* What holds of one stack s, and a step of its thread to the stack n.     *)
(***************************************************************************)
GoodStack(p, s) == \A j \in 1..Len(s) : Good(p, s[j])

\* A callback that another activation runs inside of has used the library.
Paused(s) ==
    \A j \in 1..Len(s) :
       j < Len(s) /\ s[j].op = "callback" => s[j].todo = <<"finish">>

Falling(p, s) == \A i, j \in 1..Len(s) : j < i => Above(p, s[j], s[i])

InsideOf(s, l) == {j \in 1..Len(s) : Hold(s[j], l)}

Goes(p, s, n) ==
    \/ \E a : TopIs(s, n, a) /\ Onward(p, s[Len(s)], a)
    \/ \E a, c :
          /\ TopsAre(s, n, a, c)
          /\ Onward(p, s[Len(s)], a) /\ Keeps(s[Len(s)], a)
          /\ a.op = "callback" => a.todo = <<"finish">>
          /\ Sub(p, s[Len(s)], c)
    \/ TopIsGone(s, n)

LEMMA StillGood ==
    ASSUME NEW p, NEW s, NEW n, GoodStack(p, s), Goes(p, s, n)
    PROVE  GoodStack(p, n)
<1>1. ASSUME NEW a, TopIs(s, n, a), Onward(p, s[Len(s)], a)
      PROVE  GoodStack(p, n)
  <2>1. Good(p, a)
    BY <1>1 DEF Onward
  <2> QED BY <1>1, <2>1 DEF GoodStack, TopIs, Same
<1>2. ASSUME NEW a, NEW c, TopsAre(s, n, a, c), Onward(p, s[Len(s)], a),
             Sub(p, s[Len(s)], c)
      PROVE  GoodStack(p, n)
  <2>1. Good(p, a) /\ Good(p, c)
    BY <1>2 DEF Onward, Sub
  <2> QED BY <1>2, <2>1 DEF GoodStack, TopsAre, Same
<1>3. CASE TopIsGone(s, n)
  BY <1>3 DEF GoodStack, TopIsGone, Same
<1> QED BY <1>1, <1>2, <1>3 DEF Goes

LEMMA StillPaused ==
    ASSUME NEW p, NEW s, NEW n, Paused(s), Goes(p, s, n)
    PROVE  Paused(n)
<1>1. ASSUME NEW a, TopIs(s, n, a)
      PROVE  Paused(n)
  BY <1>1 DEF Paused, TopIs, Same
<1>2. ASSUME NEW a, NEW c, TopsAre(s, n, a, c),
             a.op = "callback" => a.todo = <<"finish">>
      PROVE  Paused(n)
  BY <1>2 DEF Paused, TopsAre, Same
<1>3. CASE TopIsGone(s, n)
  BY <1>3 DEF Paused, TopIsGone, Same
<1> QED BY <1>1, <1>2, <1>3 DEF Goes

\* Every activation of n goes back to one of s, at its place or below it.
LEMMA Origin ==
    ASSUME NEW p \in Applications, Ruled(p), NEW s, NEW n,
           GoodStack(p, s), Goes(p, s, n), NEW j \in 1..Len(n)
    PROVE  \E i \in 1..Len(s) : i <= j /\ Succ(p, s[i], n[j])
<1>1. \A i \in 1..Len(s) : Succ(p, s[i], s[i])
  BY SuccSame DEF GoodStack
<1>2. ASSUME NEW a, TopIs(s, n, a), Onward(p, s[Len(s)], a)
      PROVE  \E i \in 1..Len(s) : i <= j /\ Succ(p, s[i], n[j])
  <2>1. Len(s) \in 1..Len(s) /\ Len(s) \in Nat
    BY <1>2 DEF TopIs
  <2>2. Succ(p, s[Len(s)], a)
    BY <1>2, <2>1, OnwardSucc DEF GoodStack
  <2> QED BY <1>1, <1>2, <2>1, <2>2 DEF TopIs, Same
<1>3. ASSUME NEW a, NEW c, TopsAre(s, n, a, c), Onward(p, s[Len(s)], a),
             Sub(p, s[Len(s)], c)
      PROVE  \E i \in 1..Len(s) : i <= j /\ Succ(p, s[i], n[j])
  <2>1. Len(s) \in 1..Len(s) /\ Len(s) \in Nat
    BY <1>3 DEF TopsAre
  <2>2. Succ(p, s[Len(s)], a) /\ Succ(p, s[Len(s)], c)
    BY <1>3, <2>1, OnwardSucc, SubSucc DEF GoodStack
  <2> QED BY <1>1, <1>3, <2>1, <2>2 DEF TopsAre, Same
<1>4. CASE TopIsGone(s, n)
  BY <1>1, <1>4 DEF TopIsGone, Same
<1> QED BY <1>2, <1>3, <1>4 DEF Goes

\* Futures stay with the generation that has them.
LEMMA Family ==
    ASSUME NEW p, NEW s, NEW n, Goes(p, s, n), NEW i \in 1..Len(n), n[i].kids # {}
    PROVE  /\ i \in 1..Len(s) /\ n[i].kids \subseteq s[i].kids
           /\ n[i].on = s[i].on /\ n[i].level = s[i].level
<1>1. ASSUME NEW a, TopIs(s, n, a), Onward(p, s[Len(s)], a)
      PROVE  /\ i \in 1..Len(s) /\ n[i].kids \subseteq s[i].kids
             /\ n[i].on = s[i].on /\ n[i].level = s[i].level
  BY <1>1 DEF TopIs, Same, Onward
<1>2. ASSUME NEW a, NEW c, TopsAre(s, n, a, c), Onward(p, s[Len(s)], a),
             Sub(p, s[Len(s)], c)
      PROVE  /\ i \in 1..Len(s) /\ n[i].kids \subseteq s[i].kids
             /\ n[i].on = s[i].on /\ n[i].level = s[i].level
  BY <1>2 DEF TopsAre, Same, Onward, Sub
<1>3. CASE TopIsGone(s, n)
  BY <1>3 DEF TopIsGone, Same
<1> QED BY <1>1, <1>2, <1>3 DEF Goes

LEMMA StillFalling ==
    ASSUME NEW p \in Applications, Ruled(p), NEW s, NEW n,
           GoodStack(p, s), Falling(p, s), Goes(p, s, n)
    PROVE  Falling(p, n)
<1> SUFFICES ASSUME NEW i \in 1..Len(n), NEW j \in 1..Len(n), j < i
             PROVE  Above(p, n[j], n[i])
  BY DEF Falling
<1>1. GoodStack(p, n)
  BY StillGood
<1>2. CASE n[j] = s[j] /\ j \in 1..Len(s) /\ j < Len(s)
  <2>1. \E k \in 1..Len(s) : j < k /\ Succ(p, s[k], n[i])
    <3>1. ASSUME NEW a, TopIs(s, n, a), Onward(p, s[Len(s)], a)
          PROVE  \E k \in 1..Len(s) : j < k /\ Succ(p, s[k], n[i])
      BY <1>2, <3>1, OnwardSucc, SuccSame DEF TopIs, Same, GoodStack
    <3>2. ASSUME NEW a, NEW c, TopsAre(s, n, a, c), Onward(p, s[Len(s)], a),
                 Sub(p, s[Len(s)], c)
          PROVE  \E k \in 1..Len(s) : j < k /\ Succ(p, s[k], n[i])
      <4>1. Len(s) \in 1..Len(s) /\ Len(s) \in Nat
        BY <3>2 DEF TopsAre
      <4>2. Succ(p, s[Len(s)], a) /\ Succ(p, s[Len(s)], c)
        BY <3>2, <4>1, OnwardSucc, SubSucc DEF GoodStack
      <4>3. CASE i < Len(s)
        BY <1>2, <3>2, <4>1, <4>3, SuccSame DEF TopsAre, Same, GoodStack
      <4>4. CASE i >= Len(s)
        BY <1>2, <3>2, <4>1, <4>2, <4>4 DEF TopsAre
      <4> QED BY <4>1, <4>3, <4>4
    <3>3. CASE TopIsGone(s, n)
      BY <1>2, <3>3, SuccSame DEF TopIsGone, Same, GoodStack
    <3> QED BY <3>1, <3>2, <3>3 DEF Goes
  <2>2. PICK k \in 1..Len(s) : j < k /\ Succ(p, s[k], n[i])
    BY <2>1
  <2>3. Above(p, s[j], s[k]) /\ Good(p, s[j]) /\ Good(p, s[k]) /\ Good(p, n[i])
    BY <1>1, <1>2, <2>2 DEF Falling, GoodStack
  <2> QED BY <1>2, <2>2, <2>3, AboveSucc
<1>3. CASE ~(n[j] = s[j] /\ j \in 1..Len(s) /\ j < Len(s))
  <2>1. PICK a, c : /\ TopsAre(s, n, a, c) /\ Keeps(s[Len(s)], a)
                    /\ Sub(p, s[Len(s)], c)
    BY <1>3 DEF Goes, TopIs, TopIsGone, Same
  <2>2. n[j] = a /\ n[i] = c /\ Len(s) \in 1..Len(s)
    BY <1>3, <2>1 DEF TopsAre, Same
  <2> QED BY <2>1, <2>2, AboveSub DEF GoodStack
<1> QED BY <1>2, <1>3

(***************************************************************************)
(* The activations that hold a lock.                                       *)
(***************************************************************************)
Silent(p, s, n) ==
    \/ \E a : TopIs(s, n, a) /\ Keeps(s[Len(s)], a)
    \/ \E a, c : TopsAre(s, n, a, c) /\ Keeps(s[Len(s)], a) /\ Sub(p, s[Len(s)], c)
    \/ TopIsGone(s, n) /\ Idle(s[Len(s)])

LEMMA InsideFinite ==
    ASSUME NEW s, Len(s) \in Nat, NEW l
    PROVE  IsFiniteSet(InsideOf(s, l)) /\ Cardinality(InsideOf(s, l)) \in Nat
<1>1. IsFiniteSet(1..Len(s))
  BY FS_Interval
<1>2. InsideOf(s, l) \subseteq 1..Len(s)
  BY DEF InsideOf
<1> QED BY <1>1, <1>2, FS_Subset, FS_CardinalityType

LEMMA InsideSame ==
    ASSUME NEW p, NEW s, NEW n, Silent(p, s, n), NEW l
    PROVE  InsideOf(n, l) = InsideOf(s, l)
<1>1. ASSUME NEW a, TopIs(s, n, a), Keeps(s[Len(s)], a)
      PROVE  InsideOf(n, l) = InsideOf(s, l)
  BY <1>1 DEF TopIs, Same, Keeps, InsideOf
<1>2. ASSUME NEW a, NEW c, TopsAre(s, n, a, c), Keeps(s[Len(s)], a),
             Sub(p, s[Len(s)], c)
      PROVE  InsideOf(n, l) = InsideOf(s, l)
  BY <1>2 DEF TopsAre, Same, Keeps, InsideOf, Sub, Idle
<1>3. ASSUME TopIsGone(s, n), Idle(s[Len(s)])
      PROVE  InsideOf(n, l) = InsideOf(s, l)
  BY <1>3 DEF TopIsGone, Same, InsideOf, Idle
<1> QED BY <1>1, <1>2, <1>3 DEF Silent

LEMMA InsideMore ==
    ASSUME NEW s, NEW n, NEW a, TopIs(s, n, a), Idle(s[Len(s)]), NEW l, Hold(a, l)
    PROVE  /\ Len(s) \notin InsideOf(s, l)
           /\ InsideOf(n, l) = InsideOf(s, l) \cup {Len(s)}
           /\ \A m : m # l => InsideOf(n, m) = InsideOf(s, m)
<1>1. \A m : m # l => ~Hold(a, m)
  BY DEF Hold
<1> QED BY <1>1 DEF TopIs, Same, InsideOf, Idle

LEMMA InsideLess ==
    ASSUME NEW s, NEW n, TopIsGone(s, n), NEW l, Hold(s[Len(s)], l)
    PROVE  /\ Len(s) \in InsideOf(s, l)
           /\ InsideOf(n, l) = InsideOf(s, l) \ {Len(s)}
           /\ \A m : m # l => InsideOf(n, m) = InsideOf(s, m)
<1>1. \A m : m # l => ~Hold(s[Len(s)], m)
  BY DEF Hold
<1> QED BY <1>1 DEF TopIsGone, Same, InsideOf

LEMMA Once ==
    ASSUME NEW S, IsFiniteSet(S), Cardinality(S) = 1
    PROVE  \A i, j \in S : i = j
<1>1. \E m : S = {m}
  BY FS_Singleton
<1> QED BY <1>1

-----------------------------------------------------------------------------
(***************************************************************************)
(* The steps of a generation.                                              *)
(***************************************************************************)
LEMMA TailFacts ==
    ASSUME NEW S, NEW todo \in Seq(S), todo # <<>>
    PROVE  /\ Head(todo) = todo[1] /\ Tail(todo) \in Seq(S)
           /\ Len(todo) \in Nat \ {0} /\ Len(Tail(todo)) = Len(todo) - 1
           /\ \A k \in 1..Len(Tail(todo)) : Tail(todo)[k] = todo[k + 1]
           /\ \A k \in 1..Len(todo) : todo[k] \in S
BY HeadTailProperties, EmptySeq, LenProperties, ElementOfSeq

LEMMA TailPlan ==
    ASSUME NEW todo, NEW calls, Plan(todo, calls), todo # <<>>,
           Head(todo) = "drain" => calls # <<>>
    PROVE  Plan(Tail(todo), calls) /\ (Spawns(Tail(todo)) => Spawns(todo))
<1> DEFINE rest == Tail(todo)
<1>1. /\ Head(todo) = todo[1] /\ rest \in Seq(GenSteps)
      /\ Len(todo) \in Nat \ {0} /\ Len(rest) = Len(todo) - 1
      /\ \A k \in 1..Len(rest) : rest[k] = todo[k + 1]
  BY TailFacts DEF Plan
<1> HIDE DEF rest
<1>2. \A j, k \in 1..Len(rest) : rest[j] \in ToolSteps /\ rest[j] = rest[k] => j = k
  <2> TAKE j, k \in 1..Len(rest)
  <2>1. j + 1 \in 1..Len(todo) /\ k + 1 \in 1..Len(todo)
    BY <1>1
  <2> QED BY <1>1, <2>1 DEF Plan
<1>3. \A k \in 1..Len(rest) :
         /\ rest[k] = "spawn" => k < Len(rest) /\ rest[k + 1] = "drain"
         /\ rest[k] = "drain" => k < Len(rest) /\ rest[k + 1] = "inline"
         /\ calls = <<>> =>
               /\ rest[k] # "spawn"
               /\ rest[k] = "inline" => k > 1 /\ rest[k - 1] = "drain"
  <2> TAKE k \in 1..Len(rest)
  <2>1. k + 1 \in 1..Len(todo) /\ rest[k] = todo[k + 1]
    BY <1>1
  <2>2. ASSUME k < Len(rest) PROVE rest[k + 1] = todo[k + 1 + 1]
    BY <1>1, <2>2
  <2>3. ASSUME k > 1 PROVE rest[k - 1] = todo[(k + 1) - 1] /\ (k + 1) - 1 = k
    <3>1. k - 1 \in 1..Len(rest) /\ (k - 1) + 1 = k /\ (k + 1) - 1 = k
      BY <1>1, <2>3
    <3> QED BY <1>1, <3>1
  <2>4. k = 1 => (k + 1) - 1 = 1
    OBVIOUS
  <2>5. /\ todo[k + 1] = "spawn" => k + 1 < Len(todo) /\ todo[k + 1 + 1] = "drain"
        /\ todo[k + 1] = "drain" => k + 1 < Len(todo) /\ todo[k + 1 + 1] = "inline"
        /\ calls = <<>> =>
              /\ todo[k + 1] # "spawn"
              /\ todo[k + 1] = "inline" => todo[(k + 1) - 1] = "drain"
    BY <2>1 DEF Plan
  <2> QED BY <1>1, <2>1, <2>2, <2>3, <2>4, <2>5
<1>4. Spawns(rest) => Spawns(todo)
  BY <1>1 DEF Spawns
<1> QED BY <1>1, <1>2, <1>3, <1>4 DEF Plan, rest

\* What the first step of a tool round needs.
LEMMA FirstStep ==
    ASSUME NEW todo, NEW calls, Plan(todo, calls), todo # <<>>
    PROVE  /\ Head(todo) = "spawn" => calls # <<>>
           /\ Head(todo) = "inline" => calls # <<>>
           /\ Head(todo) = "drain" => Tail(todo) # <<>> /\ Head(Tail(todo)) = "inline"
<1>1. /\ Head(todo) = todo[1] /\ Tail(todo) \in Seq(GenSteps)
      /\ Len(todo) \in Nat \ {0} /\ Len(Tail(todo)) = Len(todo) - 1
      /\ \A k \in 1..Len(Tail(todo)) : Tail(todo)[k] = todo[k + 1]
      /\ 1 \in 1..Len(todo)
  BY TailFacts DEF Plan
<1>2. calls = <<>> => todo[1] # "spawn" /\ todo[1] # "inline"
  BY <1>1 DEF Plan
<1>3. ASSUME todo[1] = "drain"
      PROVE  Tail(todo) # <<>> /\ Head(Tail(todo)) = "inline"
  <2>1. 1 < Len(todo) /\ todo[1 + 1] = "inline"
    BY <1>1, <1>3 DEF Plan
  <2>2. PICK rest : rest = Tail(todo)
    OBVIOUS
  <2>3. Len(rest) # 0 /\ rest \in Seq(GenSteps) /\ rest[1] = "inline"
    BY <1>1, <2>1, <2>2
  <2>4. rest # <<>>
    BY <2>3
  <2>5. Head(rest) = rest[1]
    BY <2>3, <2>4, TailFacts
  <2> QED BY <2>2, <2>3, <2>4, <2>5
<1> QED BY <1>1, <1>2, <1>3

\* As long as a call is left the number of calls does not matter ...
LEMMA SomeLeft ==
    ASSUME NEW todo, NEW calls, NEW left, Plan(todo, calls), left # <<>>
    PROVE  Plan(todo, left)
BY DEF Plan

\* ... and after the step for the last one none is needed.
LEMMA NoneLeft ==
    ASSUME NEW todo, NEW calls, Plan(todo, calls), todo # <<>>,
           Head(todo) \in {"spawn", "inline"}
    PROVE  Plan(Tail(todo), <<>>)
<1>1. Plan(Tail(todo), calls)
  BY TailPlan
<1>2. /\ Head(todo) = todo[1] /\ Tail(todo) \in Seq(GenSteps)
      /\ Len(todo) \in Nat \ {0} /\ Len(Tail(todo)) = Len(todo) - 1
      /\ \A k \in 1..Len(Tail(todo)) : Tail(todo)[k] = todo[k + 1]
      /\ 1 \in 1..Len(todo)
  BY TailFacts DEF Plan
<1> SUFFICES ASSUME NEW k \in 1..Len(Tail(todo))
             PROVE  /\ Tail(todo)[k] # "spawn"
                    /\ Tail(todo)[k] = "inline" => k > 1 /\ Tail(todo)[k - 1] = "drain"
  BY <1>1 DEF Plan
<1>3. k + 1 \in 1..Len(todo) /\ Tail(todo)[k] = todo[k + 1] /\ k + 1 # 1
  BY <1>2
<1>4. Head(todo) = "spawn" => 1 < Len(todo) /\ todo[1 + 1] = "drain"
  BY <1>2 DEF Plan
<1>5. ASSUME 2 \in 1..Len(todo), todo[2] = "drain"
      PROVE  2 < Len(todo) /\ todo[2 + 1] = "inline"
  BY <1>5 DEF Plan
<1>6. ASSUME todo[k + 1] = "spawn" PROVE FALSE
  <2>1. Head(todo) # "spawn"
    BY <1>2, <1>3, <1>6 DEF Plan, ToolSteps
  <2>2. todo[1] = "inline"
    BY <1>2, <2>1
  <2>3. k + 1 < Len(todo) /\ todo[k + 1 + 1] = "drain"
    BY <1>3, <1>6 DEF Plan
  <2>4. k + 1 + 1 \in 1..Len(todo)
    BY <1>2, <1>3, <2>3
  <2>5. k + 1 + 1 < Len(todo) /\ todo[k + 1 + 1 + 1] = "inline"
    BY <2>3, <2>4 DEF Plan
  <2>6. k + 1 + 1 + 1 \in 1..Len(todo) /\ k + 1 + 1 + 1 # 1
    BY <1>2, <2>4, <2>5
  <2> QED BY <1>2, <2>2, <2>5, <2>6 DEF Plan, ToolSteps
<1>7. ASSUME todo[k + 1] = "inline" PROVE k > 1 /\ Tail(todo)[k - 1] = "drain"
  <2>1. Head(todo) = "spawn"
    BY <1>2, <1>3, <1>7 DEF Plan, ToolSteps
  <2>2. 2 < Len(todo) /\ todo[2] = "drain" /\ todo[3] = "inline"
    BY <1>2, <1>4, <1>5, <2>1
  <2>3. k + 1 = 3
    BY <1>2, <1>3, <1>7, <2>2 DEF Plan, ToolSteps
  <2> QED BY <1>2, <2>2, <2>3
<1> QED BY <1>3, <1>6, <1>7

-----------------------------------------------------------------------------
(***************************************************************************)
(* New activations.                                                        *)
(***************************************************************************)
LEMMA NewFacts ==
    ASSUME NEW op \in {"generate", "execute", "access", "callback"}, NEW l \in Locks,
           NEW s \in Sessions, NEW level \in 1..MaxLevel, NEW todo \in Seq(Steps)
    PROVE  /\ NewActivation(op, l, s, level, todo) \in Activation
           /\ NewActivation(op, l, s, level, todo).op = op
           /\ NewActivation(op, l, s, level, todo).on = l
           /\ NewActivation(op, l, s, level, todo).session = s
           /\ NewActivation(op, l, s, level, todo).level = level
           /\ NewActivation(op, l, s, level, todo).todo = todo
           /\ NewActivation(op, l, s, level, todo).calls = <<>>
           /\ NewActivation(op, l, s, level, todo).kids = {}
<1>1. (CHOOSE k \in Keys : TRUE) \in Keys /\ (CHOOSE T \in Types : TRUE) \in Types
  BY StateAssumption
<1>2. 0 \in 0..MaxUpdates
  BY StateAssumption
<1>3. <<>> \in Seq(Tools)
  BY EmptySeq
<1> QED BY <1>1, <1>2, <1>3 DEF NewActivation, Activation

LEMMA StartPlans ==
    /\ Plan(<<"acquire", "trace", "trace", "model", "answer">>, <<>>)
    /\ Plan(<<"acquire", "model", "answer">>, <<>>)
    /\ ~Spawns(<<"acquire", "trace", "trace", "model", "answer">>)
    /\ ~Spawns(<<"acquire", "model", "answer">>)
<1>1. Plan(<<"acquire", "trace", "trace", "model", "answer">>, <<>>)
  BY DEF Plan, GenSteps, ToolSteps
<1>2. Plan(<<"acquire", "model", "answer">>, <<>>)
  BY DEF Plan, GenSteps, ToolSteps
<1>3. /\ ~Spawns(<<"acquire", "trace", "trace", "model", "answer">>)
      /\ ~Spawns(<<"acquire", "model", "answer">>)
  BY DEF Spawns
<1> QED BY <1>1, <1>2, <1>3

\* A part of a generation of client c that nobody is inside of yet.
Fresh(p, c, a, level) ==
    /\ Good(p, a) /\ a.kids = {} /\ Idle(a) /\ a.level = level
    /\ Reach(p, a) \subseteq Taken(p, c)

LEMMA GenerationFacts ==
    ASSUME app \in Applications, NEW c \in Clients, NEW s \in Sessions,
           NEW level \in 1..MaxLevel
    PROVE  /\ Fresh(app, c, Generation(c, s, level), level)
           /\ Generation(c, s, level).op = "generate"
<1> DEFINE todo == Traced(c, <<"acquire", "trace", "trace", "model", "answer">>,
                             <<"acquire", "model", "answer">>)
<1>1. todo \in Seq(Steps) /\ Plan(todo, <<>>) /\ ~Spawns(todo)
  <2>1. /\ <<"acquire", "trace", "trace", "model", "answer">> \in Seq(Steps)
        /\ <<"acquire", "model", "answer">> \in Seq(Steps)
    BY DEF Steps
  <2>2. \/ todo = <<"acquire", "trace", "trace", "model", "answer">>
        \/ todo = <<"acquire", "model", "answer">>
    BY DEF Traced
  <2> QED BY <2>1, <2>2, StartPlans
<1>2. (\E k \in 1..Len(todo) : todo[k] = "trace") => c \in app.traced
  BY DEF Traced
<1> HIDE DEF todo
<1>3. PICK a : a = NewActivation("generate", c, s, level, todo)
  OBVIOUS
<1>4. /\ a \in Activation /\ a.op = "generate" /\ a.on = c /\ a.level = level
      /\ a.todo = todo /\ a.calls = <<>> /\ a.kids = {}
  <2>1. c \in Locks /\ "generate" \in {"generate", "execute", "access", "callback"}
    BY DEF Locks
  <2> QED BY <1>1, <1>3, <2>1, NewFacts
<1>5. a.calls \in Seq(Offered(app, a.on))
  BY <1>4, EmptySeq
<1>6. Good(app, a)
  BY <1>1, <1>4, <1>5 DEF Good, OfGenerate
<1>7. Reach(app, a) \subseteq Taken(app, c)
  BY <1>2, <1>4 DEF Reach, Taken, Traces
<1>8. Generation(c, s, level) = a
  BY <1>3 DEF Generation, todo
<1> QED BY <1>4, <1>6, <1>7, <1>8 DEF Fresh, Idle, Hold

LEMMA ExecutionFacts ==
    ASSUME app \in Applications, NEW c \in Clients, NEW tool \in Offered(app, c),
           NEW s \in Sessions, NEW level \in 1..MaxLevel
    PROVE  /\ Fresh(app, c, Execution(c, tool, s, level), level)
           /\ Execution(c, tool, s, level).op = "execute"
<1> DEFINE todo == Traced(c, <<"trace", "invoke", "trace", "return">>,
                             <<"invoke", "return">>)
<1>1. todo \in Seq(Steps) /\ todo \in Seq(ExecSteps)
  <2>1. /\ <<"trace", "invoke", "trace", "return">> \in Seq(Steps)
        /\ <<"invoke", "return">> \in Seq(Steps)
    BY DEF Steps
  <2>2. /\ <<"trace", "invoke", "trace", "return">> \in Seq(ExecSteps)
        /\ <<"invoke", "return">> \in Seq(ExecSteps)
    BY DEF ExecSteps
  <2> QED BY <2>1, <2>2 DEF Traced
<1>2. (\E k \in 1..Len(todo) : todo[k] = "trace") => c \in app.traced
  BY DEF Traced
<1> HIDE DEF todo
<1>3. PICK a : a = NewActivation("execute", tool, s, level, todo)
  OBVIOUS
<1>4. /\ a \in Activation /\ a.op = "execute" /\ a.on = tool /\ a.level = level
      /\ a.todo = todo /\ a.kids = {} /\ tool \in Tools
  <2>1. tool \in Tools /\ tool \in Locks
    BY AppFacts DEF Locks
  <2>2. "execute" \in {"generate", "execute", "access", "callback"}
    OBVIOUS
  <2> QED BY <1>1, <1>3, <2>1, <2>2, NewFacts
<1>5. Good(app, a)
  BY <1>1, <1>4 DEF Good, OfExecute
<1>6. Reach(app, a) \subseteq Taken(app, c)
  BY <1>2, <1>4 DEF Reach, Taken, Traces
<1>7. Execution(c, tool, s, level) = a
  BY <1>3 DEF Execution, todo
<1> QED BY <1>4, <1>5, <1>6, <1>7 DEF Fresh, Idle, Hold

\* An activation that takes the one lock l.
Part(p, a, op, l, level) ==
    /\ Good(p, a) /\ a.kids = {} /\ Idle(a) /\ a.level = level
    /\ a.op = op /\ a.on = l /\ Reach(p, a) = {l}

LEMMA CallbackFacts ==
    ASSUME NEW p, NEW l \in Locks, l \notin Sessions, NEW s \in Sessions,
           NEW level \in 1..MaxLevel
    PROVE  Part(p, Callback(l, s, level), "callback", l, level)
<1> DEFINE todo == <<"lock", "body">>
<1>1. todo \in Seq(Steps)
  BY DEF Steps
<1> HIDE DEF todo
<1>2. PICK a : a = NewActivation("callback", l, s, level, todo)
  OBVIOUS
<1>3. /\ a \in Activation /\ a.op = "callback" /\ a.on = l /\ a.level = level
      /\ a.todo = todo /\ a.kids = {}
  <2>1. "callback" \in {"generate", "execute", "access", "callback"}
    OBVIOUS
  <2> QED BY <1>1, <1>2, <2>1, NewFacts
<1>4. Good(p, a)
  BY <1>3 DEF Good, OfCallback, todo
<1>5. Idle(a)
  BY <1>3 DEF Idle, Hold, todo
<1>6. ~Traces(a)
  BY <1>3 DEF Traces, todo
<1>7. Reach(p, a) = {l}
  BY <1>3, <1>6 DEF Reach
<1>8. Callback(l, s, level) = a
  BY <1>2 DEF Callback, todo
<1> QED BY <1>3, <1>4, <1>5, <1>7, <1>8 DEF Part

LEMMA AccessFacts ==
    ASSUME NEW p, NEW use \in Uses, NEW k \in Keys, NEW T \in Types,
           NEW s \in Sessions, NEW level \in 1..MaxLevel
    PROVE  Part(p, Access(use, k, T, s, level), "access", s, level)
<1> DEFINE todo == <<use>>
<1>1. todo \in Seq(Steps)
  BY DEF Steps, Uses
<1> HIDE DEF todo
<1>2. PICK b, a : /\ b = NewActivation("access", s, s, level, todo)
                  /\ a = [b EXCEPT !.key = k, !.type = T]
  OBVIOUS
<1>3. /\ b \in Activation /\ b.op = "access" /\ b.on = s /\ b.session = s
      /\ b.level = level /\ b.todo = todo /\ b.kids = {}
  <2>1. "access" \in {"generate", "execute", "access", "callback"}
    OBVIOUS
  <2>2. s \in Locks
    BY DEF Locks
  <2> QED BY <1>1, <1>2, <2>1, <2>2, NewFacts
<1>4. /\ a \in Activation /\ a.op = "access" /\ a.on = s /\ a.session = s
      /\ a.level = level /\ a.todo = todo /\ a.kids = {}
  BY <1>2, <1>3 DEF Activation
<1>5. Good(p, a)
  BY <1>4 DEF Good, OfAccess, todo
<1>6. Idle(a)
  BY <1>4 DEF Idle, Hold
<1>7. ~Traces(a)
  BY <1>4 DEF Traces, Uses, todo
<1>8. Reach(p, a) = {s}
  BY <1>4, <1>7 DEF Reach
<1>9. Access(use, k, T, s, level) = a
  BY <1>2 DEF Access, todo
<1> QED BY <1>4, <1>5, <1>6, <1>8, <1>9 DEF Part

-----------------------------------------------------------------------------
(***************************************************************************)
(* An activation b and its next step.                                      *)
(***************************************************************************)
AtStep(b, x) == b.todo # <<>> /\ Head(b.todo) = x

LEMMA Ops ==
    ASSUME NEW p, NEW b, Good(p, b), NEW x, AtStep(b, x)
    PROVE  /\ x \in GenSteps \ {"trace"} => b.op = "generate"
           /\ x \in {"invoke", "return"} => b.op = "execute"
           /\ x = "trace" => b.op \in {"generate", "execute"} /\ Traces(b)
           /\ x \in Uses => b.op = "access"
           /\ x \in {"lock", "body", "finish"} => b.op = "callback"
<1>1. b.op \in {"generate", "execute", "access", "callback"} /\ b.todo \in Seq(Steps)
  BY DEF Good, Activation
<1>2. b.todo # <<>> /\ x = b.todo[1] /\ 1 \in 1..Len(b.todo)
  BY <1>1, TailFacts DEF AtStep
<1>3. b.op = "generate" => x \in GenSteps
  <2>1. ASSUME b.op = "generate" PROVE b.todo \in Seq(GenSteps)
    BY <2>1 DEF Good, OfGenerate, Plan
  <2> QED BY <1>2, <2>1, ElementOfSeq
<1>4. b.op = "execute" => x \in ExecSteps
  <2>1. ASSUME b.op = "execute" PROVE b.todo \in Seq(ExecSteps)
    BY <2>1 DEF Good, OfExecute
  <2> QED BY <1>2, <2>1, ElementOfSeq
<1>5. b.op = "access" => x \in Uses
  BY <1>2 DEF Good, OfAccess
<1>6. b.op = "callback" => x \in {"lock", "body", "finish"}
  BY <1>2 DEF Good, OfCallback
<1>7. x = "trace" => Traces(b)
  BY <1>2 DEF Traces
<1> QED BY <1>1, <1>3, <1>4, <1>5, <1>6, <1>7 DEF GenSteps, ExecSteps, Uses

LEMMA TailTraces ==
    ASSUME NEW b, NEW a, b.todo \in Seq(Steps), b.todo # <<>>, a.todo = Tail(b.todo),
           Traces(a)
    PROVE  Traces(b)
<1>1. PICK k \in 1..Len(a.todo) : a.todo[k] = "trace"
  BY DEF Traces
<1>2. k + 1 \in 1..Len(b.todo) /\ b.todo[k + 1] = "trace"
  BY <1>1, TailFacts
<1> QED BY <1>2 DEF Traces

LEMMA GenerateGoesOn ==
    ASSUME NEW p \in Applications, NEW b, NEW a, Good(p, b), a \in Activation,
           b.op = "generate", a.op = "generate", a.on = b.on, a.level = b.level,
           a.kids \subseteq b.kids, a.calls \in Seq(Offered(p, b.on)),
           Plan(a.todo, a.calls), Spawns(a.todo) => p.parallel # {},
           Traces(a) => Traces(b) \/ b.on \in p.traced
    PROVE  Onward(p, b, a) /\ Keeps(b, a)
<1>1. Good(p, a)
  BY DEF Good, OfGenerate
<1>2. Reach(p, a) \subseteq Reach(p, b) /\ Reach(p, b) \subseteq Locks
  BY ReachFacts DEF Reach, Taken
<1>3. NoHigher(p, Reach(p, a), Reach(p, b))
  BY <1>2, NoHigherSame
<1> QED BY <1>1, <1>3 DEF Onward, Keeps, Hold

LEMMA ExecuteGoesOn ==
    ASSUME NEW p \in Applications, NEW b, NEW a, Good(p, b), a \in Activation,
           b.op = "execute", a.op = "execute", a.on = b.on, a.level = b.level,
           a.kids = b.kids, b.todo # <<>>, a.todo = Tail(b.todo)
    PROVE  Onward(p, b, a) /\ Keeps(b, a)
<1>1. Good(p, a)
  <2>1. a.todo \in Seq(ExecSteps)
    BY TailFacts DEF Good, OfExecute
  <2> QED BY <2>1 DEF Good, OfExecute
<1>2. Reach(p, a) \subseteq Reach(p, b) /\ Reach(p, b) \subseteq Locks
  <2>1. b.todo \in Seq(Steps)
    BY DEF Good, Activation
  <2>2. Traces(a) => Traces(b)
    BY <2>1, TailTraces
  <2> QED BY <2>2, ReachFacts DEF Reach
<1>3. NoHigher(p, Reach(p, a), Reach(p, b))
  BY <1>2, NoHigherSame
<1> QED BY <1>1, <1>3 DEF Onward, Keeps, Hold

\* The next step of the list, whichever it is.
LEMMA RestGoesOn ==
    ASSUME NEW p \in Applications, NEW b, NEW a, Good(p, b), b.todo # <<>>,
           b.op \in {"generate", "execute"}, Head(b.todo) # "drain",
           a = [b EXCEPT !.todo = Tail(b.todo)]
    PROVE  Onward(p, b, a) /\ Keeps(b, a) /\ a.op = b.op
<1>1. b \in Activation /\ b.todo \in Seq(Steps)
  BY DEF Good, Activation
<1>2. Tail(b.todo) \in Seq(Steps)
  BY <1>1, TailFacts
<1>3. /\ a \in Activation /\ a.op = b.op /\ a.on = b.on /\ a.level = b.level
      /\ a.kids = b.kids /\ a.calls = b.calls /\ a.todo = Tail(b.todo)
  BY <1>1, <1>2 DEF Activation
<1>4. CASE b.op = "execute"
  BY <1>3, <1>4, ExecuteGoesOn
<1>5. CASE b.op = "generate"
  <2>1. /\ Plan(b.todo, b.calls) /\ b.calls \in Seq(Offered(p, b.on))
        /\ b.kids # {} \/ Spawns(b.todo) => p.parallel # {}
    BY <1>5 DEF Good, OfGenerate
  <2>2. Plan(a.todo, a.calls) /\ (Spawns(a.todo) => Spawns(b.todo))
    BY <1>3, <2>1, TailPlan
  <2>3. Traces(a) => Traces(b)
    BY <1>1, <1>3, TailTraces
  <2> QED BY <1>3, <1>5, <2>1, <2>2, <2>3, GenerateGoesOn
<1> QED BY <1>3, <1>4, <1>5

-----------------------------------------------------------------------------
(***************************************************************************)
(* The tool round of a generation.                                         *)
(***************************************************************************)
LEMMA EndingFacts ==
    ASSUME NEW c, NEW calls
    PROVE  /\ Ending(c) \in Seq(Steps) /\ Plan(Ending(c), calls) /\ ~Spawns(Ending(c))
           /\ (\E k \in 1..Len(Ending(c)) : Ending(c)[k] = "trace") => c \in app.traced
<1> DEFINE long == <<"trace", "trace", "release">>
           short == <<"release">>
<1>1. long \in Seq(Steps) /\ ~Spawns(long) /\ Plan(long, calls)
  BY DEF Steps, Spawns, Plan, GenSteps, ToolSteps
<1>2. short \in Seq(Steps) /\ ~Spawns(short) /\ Plan(short, calls)
  BY DEF Steps, Spawns, Plan, GenSteps, ToolSteps
<1>3. ~\E k \in 1..Len(short) : short[k] = "trace"
  OBVIOUS
<1>4. Ending(c) = IF c \in app.traced THEN long ELSE short
  BY DEF Ending, Traced
<1> HIDE DEF long, short
<1> QED BY <1>1, <1>2, <1>3, <1>4

LEMMA FailingFacts ==
    ASSUME NEW c, NEW calls, NEW todo, todo = Traced(c, <<"trace", "fail">>, <<"fail">>)
    PROVE  /\ todo \in Seq(Steps) /\ Plan(todo, calls) /\ ~Spawns(todo)
           /\ (\E k \in 1..Len(todo) : todo[k] = "trace") => c \in app.traced
<1> DEFINE long == <<"trace", "fail">>
           short == <<"fail">>
<1>1. long \in Seq(Steps) /\ ~Spawns(long) /\ Plan(long, calls)
  BY DEF Steps, Spawns, Plan, GenSteps, ToolSteps
<1>2. short \in Seq(Steps) /\ ~Spawns(short) /\ Plan(short, calls)
  BY DEF Steps, Spawns, Plan, GenSteps, ToolSteps
<1>3. ~\E k \in 1..Len(short) : short[k] = "trace"
  OBVIOUS
<1>4. todo = IF c \in app.traced THEN long ELSE short
  BY DEF Traced
<1> HIDE DEF long, short
<1> QED BY <1>1, <1>2, <1>3, <1>4

LEMMA ToolRoundFacts ==
    ASSUME NEW c, NEW calls, calls # <<>>
    PROVE  /\ ToolRound(c) \in Seq(Steps) /\ Plan(ToolRound(c), calls)
           /\ Spawns(ToolRound(c)) => c \in app.parallel
           /\ (\E k \in 1..Len(ToolRound(c)) : ToolRound(c)[k] = "trace")
                 => c \in app.traced
<1> DEFINE many == <<"trace", "spawn", "drain", "inline", "trace", "model",
                     "trace", "trace", "release">>
           manyQuiet == <<"spawn", "drain", "inline", "model", "release">>
           one == <<"trace", "inline", "trace", "model", "trace", "trace", "release">>
           oneQuiet == <<"inline", "model", "release">>
<1>1. many \in Seq(Steps) /\ many \in Seq(GenSteps) /\ Len(many) = 9
  BY DEF Steps, GenSteps
<1>2. Plan(many, calls)
  BY <1>1 DEF Plan, ToolSteps
<1>3. manyQuiet \in Seq(Steps) /\ Plan(manyQuiet, calls)
  BY DEF Steps, Plan, GenSteps, ToolSteps
<1>4. one \in Seq(Steps) /\ Plan(one, calls) /\ ~Spawns(one)
  BY DEF Steps, Plan, GenSteps, ToolSteps, Spawns
<1>5. oneQuiet \in Seq(Steps) /\ Plan(oneQuiet, calls) /\ ~Spawns(oneQuiet)
  BY DEF Steps, Plan, GenSteps, ToolSteps, Spawns
<1>6. /\ ~\E k \in 1..Len(manyQuiet) : manyQuiet[k] = "trace"
      /\ ~\E k \in 1..Len(oneQuiet) : oneQuiet[k] = "trace"
  OBVIOUS
<1>7. ToolRound(c) = IF c \in app.parallel /\ Len(app.offers[c]) >= 2
                     THEN IF c \in app.traced THEN many ELSE manyQuiet
                     ELSE IF c \in app.traced THEN one ELSE oneQuiet
  BY DEF ToolRound, Traced
<1> HIDE DEF many, manyQuiet, one, oneQuiet
<1>8. CASE c \in app.parallel /\ Len(app.offers[c]) >= 2
  BY <1>1, <1>2, <1>3, <1>6, <1>7, <1>8
<1>9. CASE ~(c \in app.parallel /\ Len(app.offers[c]) >= 2)
  BY <1>4, <1>5, <1>6, <1>7, <1>9
<1> QED BY <1>8, <1>9

LEMMA OffersFacts ==
    ASSUME NEW p \in Applications, NEW c \in Clients
    PROVE  p.offers[c] \in Seq(Offered(p, c)) /\ p.offers[c] \in Seq(Tools)
           /\ Seq(Offered(p, c)) \subseteq Seq(Tools)
<1>1. p.offers[c] \in Seq(Tools) /\ Offered(p, c) \subseteq Tools
  BY AppFacts
<1>2. \A i \in 1..Len(p.offers[c]) : p.offers[c][i] \in Offered(p, c)
  BY DEF Offered
<1>3. p.offers[c] \in [1..Len(p.offers[c]) -> Offered(p, c)] /\ Len(p.offers[c]) \in Nat
  BY <1>1, <1>2, LenProperties
<1>4. p.offers[c] \in Seq(Offered(p, c))
  BY <1>3, SeqDef
<1> QED BY <1>1, <1>4, SeqMonotonic

-----------------------------------------------------------------------------
(***************************************************************************)
(* The steps of a thread, by what they do to its stack.                    *)
(***************************************************************************)
Frames ==
    /\ app \in Applications /\ Stacks
    /\ \A t \in Threads : GoodStack(app, stack[t]) /\ Paused(stack[t])

\* An exception is only on its way from an activation that has ended.
RaisedBy(t) ==
    /\ raised' \in [Threads -> BOOLEAN]
    /\ \A u \in Threads : u # t => raised'[u] = raised[u]
    /\ raised'[t] => TopIsGone(stack[t], stack'[t])

Moves(t) ==
    /\ stack[t] # <<>> /\ Stacks' /\ Others(t)
    /\ Goes(app, stack[t], stack'[t])
    /\ RaisedBy(t)

MovesSilently(t) == Moves(t) /\ Silent(app, stack[t], stack'[t])

LEMMA TopFacts ==
    ASSUME Frames, NEW t \in Threads, stack[t] # <<>>
    PROVE  /\ Top(t) = stack[t][Len(stack[t])] /\ Len(stack[t]) \in 1..Len(stack[t])
           /\ Len(stack[t]) \in Nat \ {0}
           /\ Good(app, Top(t)) /\ Top(t) \in Activation
           /\ Top(t).on \in Locks /\ Top(t).session \in Sessions
           /\ Top(t).level \in 1..MaxLevel /\ Top(t).todo \in Seq(Steps)
           /\ Top(t).calls \in Seq(Tools)
<1>1. stack[t] \in Seq(Activation) /\ GoodStack(app, stack[t])
  BY DEF Frames, Stacks
<1>2. Len(stack[t]) \in Nat \ {0}
  BY <1>1, EmptySeq
<1>3. Top(t) = stack[t][Len(stack[t])] /\ Len(stack[t]) \in 1..Len(stack[t])
  BY <1>2 DEF Top, Height
<1>4. Good(app, Top(t))
  BY <1>1, <1>3 DEF GoodStack
<1>5. Top(t) \in Activation
  BY <1>4 DEF Good
<1> QED BY <1>2, <1>3, <1>4, <1>5 DEF Activation

LEMMA BecomesMoves ==
    ASSUME Frames, NEW t \in Threads, stack[t] # <<>>, NEW a,
           Onward(app, Top(t), a), Becomes(t, a), RaisedBy(t)
    PROVE  Moves(t) /\ TopIs(stack[t], stack'[t], a)
<1>1. a \in Activation
  BY DEF Onward, Good
<1>2. Stacks' /\ Others(t) /\ TopIs(stack[t], stack'[t], a)
  BY <1>1, BecomesDoes DEF Frames
<1>3. Goes(app, stack[t], stack'[t])
  BY <1>2, TopFacts DEF Goes
<1> QED BY <1>2, <1>3 DEF Moves

LEMMA BecomesMovesSilently ==
    ASSUME Frames, NEW t \in Threads, stack[t] # <<>>, NEW a,
           Onward(app, Top(t), a), Keeps(Top(t), a), Becomes(t, a), RaisedBy(t)
    PROVE  MovesSilently(t)
<1>1. Moves(t) /\ TopIs(stack[t], stack'[t], a)
  BY BecomesMoves
<1>2. Silent(app, stack[t], stack'[t])
  BY <1>1, TopFacts DEF Silent
<1> QED BY <1>1, <1>2 DEF MovesSilently

LEMMA CallsMovesSilently ==
    ASSUME Frames, NEW t \in Threads, stack[t] # <<>>, NEW a, NEW c,
           Onward(app, Top(t), a), Keeps(Top(t), a), Sub(app, Top(t), c),
           a.op = "callback" => a.todo = <<"finish">>,
           Calls(t, a, c), RaisedBy(t)
    PROVE  MovesSilently(t)
<1>1. a \in Activation /\ c \in Activation
  BY DEF Onward, Sub, Good
<1>2. Stacks' /\ Others(t) /\ TopsAre(stack[t], stack'[t], a, c)
  BY <1>1, CallsDoes DEF Frames
<1>3. Goes(app, stack[t], stack'[t])
  BY <1>2, TopFacts DEF Goes
<1>4. Silent(app, stack[t], stack'[t])
  BY <1>2, TopFacts DEF Silent
<1> QED BY <1>2, <1>3, <1>4 DEF Moves, MovesSilently

LEMMA LeaveMoves ==
    ASSUME Frames, raised \in [Threads -> BOOLEAN], NEW t \in Threads, stack[t] # <<>>,
           NEW throws \in BOOLEAN, Leave(t, throws)
    PROVE  Moves(t) /\ TopIsGone(stack[t], stack'[t])
<1>1. Stacks' /\ Others(t) /\ TopIsGone(stack[t], stack'[t])
  BY LeaveDoes DEF Frames
<1>2. Goes(app, stack[t], stack'[t])
  BY <1>1 DEF Goes
<1>3. RaisedBy(t)
  BY <1>1 DEF Leave, RaisedBy
<1> QED BY <1>1, <1>2, <1>3 DEF Moves

LEMMA LeaveMovesSilently ==
    ASSUME Frames, raised \in [Threads -> BOOLEAN], NEW t \in Threads, stack[t] # <<>>,
           NEW throws \in BOOLEAN, Leave(t, throws), Top(t).op # "callback"
    PROVE  MovesSilently(t)
<1>1. Moves(t) /\ TopIsGone(stack[t], stack'[t])
  BY LeaveMoves
<1>2. Idle(stack[t][Len(stack[t])])
  BY TopFacts DEF Idle, Hold
<1> QED BY <1>1, <1>2 DEF MovesSilently, Silent

\* No exception on its way, and none thrown.
LEMMA StillNotRaised ==
    ASSUME raised \in [Threads -> BOOLEAN], NEW t \in Threads, ~raised[t],
           UNCHANGED raised
    PROVE  RaisedBy(t)
BY DEF RaisedBy

LEMMA AtFacts ==
    ASSUME Frames, NEW t \in Threads, NEW x, At(t, x)
    PROVE  /\ stack[t] # <<>> /\ ~raised[t] /\ AtStep(Top(t), x)
           /\ Good(app, Top(t)) /\ Top(t).todo # <<>> /\ Head(Top(t).todo) = x
BY TopFacts DEF At, AtStep

(***************************************************************************)
(* ... action by action.                                                   *)
(***************************************************************************)
Settled == Frames /\ raised \in [Threads -> BOOLEAN]

\* b goes on with its next step, or calls a part of its own generation.
LEMMA RestMoves ==
    ASSUME Settled, NEW t \in Threads, stack[t] # <<>>, Top(t).todo # <<>>,
           Top(t).op \in {"generate", "execute"}, Head(Top(t).todo) # "drain",
           Continue(t, Rest(t)), RaisedBy(t)
    PROVE  MovesSilently(t)
<1>1. PICK b : b = Top(t) /\ Good(app, b)
  BY TopFacts DEF Settled
<1>2. PICK a : a = [b EXCEPT !.todo = Tail(b.todo)]
  OBVIOUS
<1>3. Onward(app, b, a) /\ Keeps(b, a)
  BY <1>1, <1>2, RestGoesOn DEF Settled, Frames
<1>4. Becomes(t, a)
  BY <1>1, <1>2 DEF Continue, Rest
<1> QED BY <1>1, <1>3, <1>4, BecomesMovesSilently DEF Settled

LEMMA RestCalls ==
    ASSUME Settled, NEW t \in Threads, stack[t] # <<>>, Top(t).todo # <<>>,
           Top(t).op \in {"generate", "execute"}, Head(Top(t).todo) # "drain",
           NEW c, Sub(app, Top(t), c), Call(t, c), RaisedBy(t)
    PROVE  MovesSilently(t)
<1>1. PICK b : b = Top(t) /\ Good(app, b)
  BY TopFacts DEF Settled
<1>2. PICK a : a = [b EXCEPT !.todo = Tail(b.todo)]
  OBVIOUS
<1>3. Onward(app, b, a) /\ Keeps(b, a) /\ a.op = b.op
  BY <1>1, <1>2, RestGoesOn DEF Settled, Frames
<1>4. Calls(t, a, c)
  BY <1>1, <1>2 DEF Call, Rest
<1> QED BY <1>1, <1>3, <1>4, CallsMovesSilently DEF Settled

\* The callback of l, which b may take.
LEMMA SubCallback ==
    ASSUME app \in Applications, NEW b, Good(app, b), b.op \in {"generate", "execute"},
           NEW l \in Reach(app, b), l \notin Sessions
    PROVE  Sub(app, b, Callback(l, b.session, b.level))
<1>1. /\ l \in Locks /\ Reach(app, b) \subseteq Locks
      /\ b.session \in Sessions /\ b.level \in 1..MaxLevel
  BY ReachFacts DEF Good, Activation
<1>2. PICK s, level, c : s = b.session /\ level = b.level /\ c = Callback(l, s, level)
  OBVIOUS
<1>3. /\ Good(app, c) /\ c.kids = {} /\ Idle(c) /\ c.op = "callback" /\ c.on = l
      /\ c.level = b.level /\ Reach(app, c) = {l}
  <2>1. s \in Sessions /\ level \in 1..MaxLevel
    BY <1>1, <1>2
  <2>2. l \in Locks /\ l \notin Sessions
    BY <1>1
  <2>3. Part(app, c, "callback", l, level)
    BY <1>2, <2>1, <2>2, CallbackFacts
  <2> QED BY <1>2, <2>3 DEF Part
<1>4. NoHigher(app, Reach(app, c), Reach(app, b))
  BY <1>1, <1>3, NoHigherSame
<1>5. Idle(b)
  BY DEF Idle, Hold
<1>6. c.level >= b.level
  BY <1>1, <1>3, CallbacksAssumption
<1>7. Sub(app, b, c)
  BY <1>3, <1>4, <1>5, <1>6 DEF Sub
<1> QED BY <1>2, <1>7

LEMMA AcquireMoves ==
    ASSUME Settled, NEW t \in Threads, Acquire(t)
    PROVE  MovesSilently(t)
<1>1. At(t, "acquire") /\ stack[t] # <<>> /\ ~raised[t] /\ Top(t).todo # <<>>
      /\ Head(Top(t).todo) = "acquire" /\ Top(t).op = "generate"
  BY AtFacts, Ops DEF Acquire, Settled, GenSteps
<1>2. CASE active[Top(t).session]
  <2>1. Leave(t, TRUE)
    BY <1>2 DEF Acquire
  <2> QED BY <1>1, <2>1, LeaveMovesSilently DEF Settled
<1>3. CASE ~active[Top(t).session]
  <2>1. Continue(t, Rest(t)) /\ UNCHANGED raised
    BY <1>3 DEF Acquire
  <2>2. RaisedBy(t)
    BY <1>1, <2>1, StillNotRaised DEF Settled
  <2> QED BY <1>1, <2>1, <2>2, RestMoves
<1> QED BY <1>2, <1>3

LEMMA TraceMoves ==
    ASSUME Settled, NEW t \in Threads, Trace(t)
    PROVE  MovesSilently(t)
<1>1. /\ stack[t] # <<>> /\ ~raised[t] /\ Top(t).todo # <<>> /\ Good(app, Top(t))
      /\ Head(Top(t).todo) = "trace" /\ Top(t).op \in {"generate", "execute"}
      /\ Traces(Top(t))
  BY AtFacts, Ops DEF Trace, Settled
<1>2. Tracer \in Reach(app, Top(t)) /\ Tracer \notin Sessions
  BY <1>1, CallbacksAssumption DEF Reach
<1>3. Sub(app, Top(t), Callback(Tracer, Top(t).session, Top(t).level))
  BY <1>1, <1>2, SubCallback DEF Settled, Frames
<1>4. RaisedBy(t)
  BY <1>1, StillNotRaised DEF Trace, Settled
<1> QED BY <1>1, <1>3, <1>4, RestCalls DEF Trace

LEMMA ModelMoves ==
    ASSUME Settled, NEW t \in Threads, Model(t)
    PROVE  MovesSilently(t)
<1>1. /\ stack[t] # <<>> /\ ~raised[t] /\ Top(t).todo # <<>> /\ Good(app, Top(t))
      /\ Head(Top(t).todo) = "model" /\ Top(t).op = "generate"
  BY AtFacts, Ops DEF Model, Settled, GenSteps
<1>2. Top(t).on \in Reach(app, Top(t)) /\ Top(t).on \notin Sessions
  BY <1>1, ReachFacts, CallbacksAssumption DEF Settled, Frames, Good, OfGenerate
<1>3. Sub(app, Top(t), Callback(Top(t).on, Top(t).session, Top(t).level))
  BY <1>1, <1>2, SubCallback DEF Settled, Frames
<1>4. RaisedBy(t)
  BY <1>1, StillNotRaised DEF Model, Settled
<1> QED BY <1>1, <1>3, <1>4, RestCalls DEF Model

LEMMA InvokeMoves ==
    ASSUME Settled, NEW t \in Threads, Invoke(t)
    PROVE  MovesSilently(t)
<1>1. /\ stack[t] # <<>> /\ ~raised[t] /\ Top(t).todo # <<>> /\ Good(app, Top(t))
      /\ Head(Top(t).todo) = "invoke" /\ Top(t).op = "execute"
  BY AtFacts, Ops DEF Invoke, Settled
<1>2. Top(t).on \in Reach(app, Top(t)) /\ Top(t).on \notin Sessions
  BY <1>1, ReachFacts, CallbacksAssumption DEF Settled, Frames, Good, OfExecute
<1>3. Sub(app, Top(t), Callback(Top(t).on, Top(t).session, Top(t).level))
  BY <1>1, <1>2, SubCallback DEF Settled, Frames
<1>4. RaisedBy(t)
  BY <1>1, StillNotRaised DEF Invoke, Settled
<1> QED BY <1>1, <1>3, <1>4, RestCalls DEF Invoke

LEMMA ReleaseMoves ==
    ASSUME Settled, NEW t \in Threads, Release(t)
    PROVE  MovesSilently(t)
<1>1. stack[t] # <<>> /\ Top(t).op = "generate"
  BY AtFacts, Ops DEF Release, Settled, GenSteps
<1>2. At(t, "fail") \in BOOLEAN /\ Leave(t, At(t, "fail"))
  BY DEF Release, At
<1> QED BY <1>1, <1>2, LeaveMovesSilently DEF Settled

LEMMA ReturnMoves ==
    ASSUME Settled, NEW t \in Threads, Return(t)
    PROVE  MovesSilently(t)
<1>1. stack[t] # <<>> /\ Top(t).op = "execute"
  BY AtFacts, Ops DEF Return, Settled
<1> QED BY <1>1, LeaveMovesSilently DEF Settled, Return

LEMMA AccessLeaves ==
    ASSUME Settled, NEW t \in Threads, NEW use \in Uses, At(t, use),
           NEW throws \in BOOLEAN, Leave(t, throws)
    PROVE  MovesSilently(t)
<1>1. stack[t] # <<>> /\ Top(t).op = "access"
  BY AtFacts, Ops DEF Settled
<1> QED BY <1>1, LeaveMovesSilently DEF Settled

LEMMA ModifyMoves ==
    ASSUME Settled, NEW t \in Threads, Modify(t)
    PROVE  MovesSilently(t)
<1>1. PICK use \in Uses : At(t, use)
  BY DEF Modify, Uses
<1> QED BY <1>1, AccessLeaves DEF Modify

LEMMA GetMoves ==
    ASSUME Settled, NEW t \in Threads, Get(t)
    PROVE  MovesSilently(t)
<1>1. At(t, "get") /\ "get" \in Uses
  BY DEF Get, Uses
<1>2. PICK throws : throws = (ContainsKey(Top(t).on, Top(t).key)
                              /\ ~Holds(Top(t).on, Top(t).key, Top(t).type))
  OBVIOUS
<1>3. throws \in BOOLEAN /\ Leave(t, throws)
  BY <1>2 DEF Get
<1> QED BY <1>1, <1>3, AccessLeaves

LEMMA UpdateMismatchMoves ==
    ASSUME Settled, NEW t \in Threads, UpdateMismatch(t)
    PROVE  MovesSilently(t)
<1>1. At(t, "update") /\ "update" \in Uses
  BY DEF UpdateMismatch, Uses
<1> QED BY <1>1, AccessLeaves DEF UpdateMismatch

\* An exception of the library reaches a generation, or a response arrives.
LEMMA EditMoves ==
    ASSUME Settled, NEW t \in Threads, stack[t] # <<>>, Top(t).op = "generate",
           NEW todo \in Seq(Steps), NEW calls \in Seq(Offered(app, Top(t).on)),
           Plan(todo, calls), Spawns(todo) => app.parallel # {},
           (\E k \in 1..Len(todo) : todo[k] = "trace") => Top(t).on \in app.traced,
           Becomes(t, [Top(t) EXCEPT !.todo = todo, !.calls = calls]), RaisedBy(t)
    PROVE  MovesSilently(t)
<1>1. PICK b : b = Top(t) /\ Good(app, b) /\ b \in Activation
  BY TopFacts DEF Settled
<1>2. PICK a : a = [b EXCEPT !.todo = todo, !.calls = calls]
  OBVIOUS
<1>3. b.on \in Clients
  BY <1>1 DEF Good, OfGenerate
<1>4. calls \in Seq(Tools)
  BY <1>1, <1>3, OffersFacts DEF Settled, Frames
<1>5. /\ a \in Activation /\ a.op = b.op /\ a.on = b.on /\ a.level = b.level
      /\ a.kids = b.kids /\ a.calls = calls /\ a.todo = todo
  BY <1>1, <1>2, <1>4 DEF Activation
<1>6. Traces(a) => b.on \in app.traced
  BY <1>1, <1>5 DEF Traces
<1>7. Onward(app, b, a) /\ Keeps(b, a)
  BY <1>1, <1>5, <1>6, GenerateGoesOn DEF Settled, Frames
<1>8. Becomes(t, a)
  BY <1>1, <1>2
<1> QED BY <1>1, <1>7, <1>8, BecomesMovesSilently DEF Settled

\* The steps are changed, the calls are not.
LEMMA SameCalls ==
    ASSUME NEW b \in Activation, NEW todo
    PROVE  [b EXCEPT !.todo = todo] = [b EXCEPT !.todo = todo, !.calls = b.calls]
BY DEF Activation

LEMMA AnswerMoves ==
    ASSUME Settled, NEW t \in Threads, Answer(t)
    PROVE  MovesSilently(t)
<1>1. /\ stack[t] # <<>> /\ ~raised[t] /\ Good(app, Top(t)) /\ Top(t) \in Activation
      /\ Top(t).op = "generate" /\ Top(t).on \in Clients
  BY AtFacts, Ops, TopFacts DEF Answer, Settled, GenSteps, Good, OfGenerate
<1>2. RaisedBy(t)
  BY <1>1, StillNotRaised DEF Answer, Settled
<1>3. ASSUME Continue(t, Ending(Top(t).on))
      PROVE  MovesSilently(t)
  <2>1. PICK todo, calls : todo = Ending(Top(t).on) /\ calls = Top(t).calls
    OBVIOUS
  <2>2. calls \in Seq(Offered(app, Top(t).on))
    BY <1>1, <2>1 DEF Good, OfGenerate
  <2>3. /\ todo \in Seq(Steps) /\ Plan(todo, calls) /\ ~Spawns(todo)
        /\ (\E k \in 1..Len(todo) : todo[k] = "trace") => Top(t).on \in app.traced
    BY <2>1, EndingFacts
  <2>4. Becomes(t, [Top(t) EXCEPT !.todo = todo, !.calls = calls])
    BY <1>1, <1>3, <2>1, SameCalls DEF Continue
  <2> QED BY <1>1, <1>2, <2>2, <2>3, <2>4, EditMoves
<1>4. ASSUME app.offers[Top(t).on] # <<>>,
             Becomes(t, [Top(t) EXCEPT !.todo = ToolRound(Top(t).on),
                                        !.calls = app.offers[Top(t).on]])
      PROVE  MovesSilently(t)
  <2>1. PICK todo, calls : todo = ToolRound(Top(t).on) /\ calls = app.offers[Top(t).on]
    OBVIOUS
  <2>2. calls \in Seq(Offered(app, Top(t).on))
    BY <1>1, <2>1, OffersFacts DEF Settled, Frames
  <2>3. /\ todo \in Seq(Steps) /\ Plan(todo, calls)
        /\ Spawns(todo) => app.parallel # {}
        /\ (\E k \in 1..Len(todo) : todo[k] = "trace") => Top(t).on \in app.traced
    <3>1. calls # <<>>
      BY <1>4, <2>1
    <3>2. /\ todo \in Seq(Steps) /\ Plan(todo, calls)
          /\ Spawns(todo) => Top(t).on \in app.parallel
      BY <2>1, <3>1, ToolRoundFacts
    <3>3. (\E k \in 1..Len(todo) : todo[k] = "trace") => Top(t).on \in app.traced
      BY <2>1, <3>1, ToolRoundFacts
    <3> QED BY <3>2, <3>3
  <2> QED BY <1>1, <1>2, <1>4, <2>1, <2>2, <2>3, EditMoves
<1> QED BY <1>3, <1>4 DEF Answer

LEMMA UnwindMoves ==
    ASSUME Settled, NEW t \in Threads, Unwind(t)
    PROVE  MovesSilently(t)
<1>1. /\ stack[t] # <<>> /\ Good(app, Top(t)) /\ Top(t) \in Activation
      /\ Top(t).op = "generate" /\ Top(t).on \in Clients
  BY TopFacts DEF Unwind, Settled, Good, OfGenerate
<1>2. RaisedBy(t)
  BY DEF Unwind, Settled, RaisedBy
<1>3. PICK todo, calls : /\ todo = Traced(Top(t).on, <<"trace", "fail">>, <<"fail">>)
                         /\ calls = Top(t).calls
  OBVIOUS
<1>4. calls \in Seq(Offered(app, Top(t).on))
  BY <1>1, <1>3 DEF Good, OfGenerate
<1>5. /\ todo \in Seq(Steps) /\ Plan(todo, calls) /\ ~Spawns(todo)
      /\ (\E k \in 1..Len(todo) : todo[k] = "trace") => Top(t).on \in app.traced
  BY <1>3, FailingFacts
<1>6. Becomes(t, [Top(t) EXCEPT !.todo = todo, !.calls = calls])
  BY <1>1, <1>3, SameCalls DEF Continue, Unwind
<1> QED BY <1>1, <1>2, <1>4, <1>5, <1>6, EditMoves

LEMMA SpawnFailsMoves ==
    ASSUME Settled, NEW t \in Threads, SpawnFails(t)
    PROVE  MovesSilently(t)
<1>1. /\ stack[t] # <<>> /\ ~raised[t] /\ Top(t).todo # <<>>
      /\ Head(Top(t).todo) = "spawn" /\ Top(t).op = "generate"
  BY AtFacts, Ops DEF SpawnFails, Settled, GenSteps
<1>2. RaisedBy(t)
  BY <1>1, StillNotRaised DEF SpawnFails, Settled
<1> QED BY <1>1, <1>2, RestMoves DEF SpawnFails

LEMMA DrainMoves ==
    ASSUME Settled, NEW t \in Threads, Drain(t)
    PROVE  MovesSilently(t)
<1>1. /\ stack[t] # <<>> /\ ~raised[t] /\ Top(t).todo # <<>> /\ Top(t) \in Activation
      /\ Good(app, Top(t)) /\ Head(Top(t).todo) = "drain" /\ Top(t).op = "generate"
  BY AtFacts, Ops, TopFacts DEF Drain, Settled, GenSteps
<1>2. RaisedBy(t)
  BY <1>1, StillNotRaised DEF Drain, Settled
<1>3. PICK b, rest : b = Top(t) /\ rest = Tail(b.todo)
  OBVIOUS
<1>4. PICK todo : todo = IF b.calls = <<>> THEN Tail(rest) ELSE rest
  OBVIOUS
<1>5. PICK a : a = [b EXCEPT !.kids = {}, !.todo = todo]
  OBVIOUS
<1>6. /\ b.todo \in Seq(Steps) /\ b.todo # <<>>
      /\ Plan(b.todo, b.calls) /\ b.calls \in Seq(Offered(app, b.on))
      /\ Spawns(b.todo) => app.parallel # {}
  BY <1>1, <1>3 DEF Good, OfGenerate, Activation
<1>7. PICK some \in Seq({{}}) : some # <<>>
  <2>1. <<{}>> \in Seq({{}}) /\ <<{}>> # <<>>
    OBVIOUS
  <2> QED BY <2>1
<1>8. Plan(b.todo, some)
  BY <1>6, <1>7, SomeLeft
<1>9. Plan(rest, some) /\ (Spawns(rest) => Spawns(b.todo))
  BY <1>3, <1>6, <1>7, <1>8, TailPlan
<1>10. /\ rest \in Seq(Steps) /\ rest # <<>> /\ Head(rest) = "inline"
       /\ \A k \in 1..Len(rest) : rest[k] = b.todo[k + 1] /\ k + 1 \in 1..Len(b.todo)
  <2>1. rest # <<>> /\ Head(rest) = "inline"
    BY <1>1, <1>3, <1>6, FirstStep
  <2>2. rest \in Seq(Steps) /\ Len(rest) = Len(b.todo) - 1 /\ Len(b.todo) \in Nat
        /\ \A k \in 1..Len(rest) : rest[k] = b.todo[k + 1]
    BY <1>3, <1>6, TailFacts
  <2> QED BY <2>1, <2>2
<1>11. /\ todo \in Seq(Steps) /\ Plan(todo, b.calls)
       /\ Spawns(todo) => Spawns(b.todo)
       /\ (\E k \in 1..Len(todo) : todo[k] = "trace")
             => \E k \in 1..Len(b.todo) : b.todo[k] = "trace"
  <2>1. CASE b.calls # <<>>
    BY <1>4, <1>6, <1>9, <1>10, <2>1, <1>3, TailPlan
  <2>2. CASE b.calls = <<>>
    <3>1. todo = Tail(rest)
      BY <1>4, <2>2
    <3>2. Plan(todo, <<>>)
      BY <1>9, <1>10, <3>1, NoneLeft
    <3>3. Spawns(todo) => Spawns(rest)
      BY <1>9, <1>10, <3>1, TailPlan
    <3>4. /\ todo \in Seq(Steps) /\ Len(todo) = Len(rest) - 1 /\ Len(rest) \in Nat
          /\ \A k \in 1..Len(todo) : todo[k] = rest[k + 1]
      BY <1>10, <3>1, TailFacts
    <3>5. \A k \in 1..Len(todo) : k + 1 \in 1..Len(rest)
      BY <3>4
    <3> QED BY <1>9, <1>10, <2>2, <3>2, <3>3, <3>4, <3>5
  <2> QED BY <2>1, <2>2
<1>12. /\ a \in Activation /\ a.op = b.op /\ a.on = b.on /\ a.level = b.level
       /\ a.kids = {} /\ a.calls = b.calls /\ a.todo = todo
  BY <1>1, <1>3, <1>5, <1>11 DEF Activation
<1>13. Traces(a) => Traces(b)
  BY <1>11, <1>12 DEF Traces
<1>14. Onward(app, b, a) /\ Keeps(b, a)
  BY <1>1, <1>3, <1>6, <1>11, <1>12, <1>13, GenerateGoesOn DEF Settled, Frames
<1>15. Becomes(t, a)
  BY <1>3, <1>4, <1>5 DEF Drain, Rest
<1> QED BY <1>1, <1>2, <1>3, <1>14, <1>15, BecomesMovesSilently DEF Settled

\* A generation of b's client, or an execution, that b launches or calls.
LEMMA SubFresh ==
    ASSUME app \in Applications, NEW b, Good(app, b), b.op = "generate",
           NEW c, Fresh(app, b.on, c, b.level), c.op = "execute"
    PROVE  Sub(app, b, c)
<1>1. Idle(b)
  BY DEF Idle, Hold
<1>2. Reach(app, c) \subseteq Reach(app, b) /\ Reach(app, b) \subseteq Locks
  BY ReachFacts DEF Fresh, Reach
<1>3. NoHigher(app, Reach(app, c), Reach(app, b))
  BY <1>2, NoHigherSame
<1>4. b.level \in 1..MaxLevel /\ c.level = b.level
  BY ReachFacts DEF Fresh
<1>5. c.level >= b.level
  BY <1>4, CallbacksAssumption
<1> QED BY <1>1, <1>3, <1>5 DEF Sub, Fresh

\* The next call of a batch.
LEMMA NextCallFacts ==
    ASSUME Settled, NEW t \in Threads, stack[t] # <<>>, Top(t).op = "generate",
           Top(t).calls # <<>>
    PROVE  /\ Fresh(app, Top(t).on, NextCall(t), Top(t).level)
           /\ NextCall(t).op = "execute"
           /\ Tail(Top(t).calls) \in Seq(Offered(app, Top(t).on))
<1>1. PICK c, calls, s, level : /\ c = Top(t).on /\ calls = Top(t).calls
                                /\ s = Top(t).session /\ level = Top(t).level
  OBVIOUS
<1>2. /\ Good(app, Top(t)) /\ s \in Sessions /\ level \in 1..MaxLevel
  BY <1>1, TopFacts DEF Settled
<1>3. c \in Clients /\ calls \in Seq(Offered(app, c))
  BY <1>1, <1>2 DEF Good, OfGenerate
<1>4. PICK tool : tool = Head(calls)
  OBVIOUS
<1>5. tool \in Offered(app, c) /\ Tail(calls) \in Seq(Offered(app, c))
  BY <1>1, <1>3, <1>4, HeadTailProperties
<1>6. /\ Fresh(app, c, Execution(c, tool, s, level), level)
      /\ Execution(c, tool, s, level).op = "execute"
  BY <1>2, <1>3, <1>5, ExecutionFacts DEF Settled, Frames
<1> QED BY <1>1, <1>4, <1>5, <1>6 DEF NextCall

LEMMA InlineMoves ==
    ASSUME Settled, NEW t \in Threads, Inline(t)
    PROVE  MovesSilently(t)
<1>1. /\ stack[t] # <<>> /\ ~raised[t] /\ Top(t).todo # <<>> /\ Top(t) \in Activation
      /\ Good(app, Top(t)) /\ Head(Top(t).todo) = "inline" /\ Top(t).op = "generate"
  BY AtFacts, Ops, TopFacts DEF Inline, Settled, GenSteps
<1>2. RaisedBy(t)
  BY <1>1, StillNotRaised DEF Inline, Settled
<1>3. PICK b, calls : b = Top(t) /\ calls = Tail(b.calls)
  OBVIOUS
<1>4. PICK todo : todo = IF calls = <<>> THEN Tail(b.todo) ELSE b.todo
  OBVIOUS
<1>5. PICK a : a = [b EXCEPT !.todo = todo, !.calls = calls]
  OBVIOUS
<1>6. /\ b.todo \in Seq(Steps) /\ b.todo # <<>> /\ b.on \in Clients
      /\ Plan(b.todo, b.calls)
      /\ b.kids # {} \/ Spawns(b.todo) => app.parallel # {}
  BY <1>1, <1>3 DEF Good, OfGenerate, Activation
<1>7. b.calls # <<>>
  BY <1>1, <1>3, <1>6, FirstStep
<1>8. /\ Fresh(app, b.on, NextCall(t), b.level) /\ NextCall(t).op = "execute"
      /\ calls \in Seq(Offered(app, b.on)) /\ calls \in Seq(Tools)
  <2>1. /\ Fresh(app, b.on, NextCall(t), b.level) /\ NextCall(t).op = "execute"
        /\ calls \in Seq(Offered(app, b.on))
    BY <1>1, <1>3, <1>7, NextCallFacts
  <2> QED BY <1>6, <2>1, OffersFacts DEF Settled, Frames
<1>9. Sub(app, b, NextCall(t))
  BY <1>1, <1>3, <1>8, SubFresh DEF Settled, Frames
<1>10. /\ todo \in Seq(Steps) /\ Plan(todo, calls) /\ (Spawns(todo) => Spawns(b.todo))
       /\ todo = b.todo \/ todo = Tail(b.todo)
  <2>1. CASE calls # <<>>
    BY <1>4, <1>6, <2>1, SomeLeft
  <2>2. CASE calls = <<>>
    BY <1>1, <1>3, <1>4, <1>6, <2>2, NoneLeft, TailPlan, TailFacts
  <2> QED BY <2>1, <2>2
<1>11. /\ a \in Activation /\ a.op = b.op /\ a.on = b.on /\ a.level = b.level
       /\ a.kids = b.kids /\ a.calls = calls /\ a.todo = todo
  BY <1>1, <1>3, <1>5, <1>8, <1>10 DEF Activation
<1>12. Traces(a) => Traces(b)
  <2>1. CASE a.todo = b.todo
    BY <2>1 DEF Traces
  <2>2. CASE a.todo = Tail(b.todo)
    BY <1>6, <2>2, TailTraces
  <2> QED BY <1>10, <1>11, <2>1, <2>2
<1>13. Onward(app, b, a) /\ Keeps(b, a)
  BY <1>1, <1>3, <1>6, <1>8, <1>10, <1>11, <1>12, GenerateGoesOn DEF Settled, Frames
<1>14. Calls(t, a, NextCall(t))
  BY <1>3, <1>4, <1>5 DEF Inline, Rest
<1>15. a.op # "callback"
  BY <1>1, <1>3, <1>11
<1> QED BY <1>1, <1>2, <1>3, <1>9, <1>13, <1>14, <1>15, CallsMovesSilently DEF Settled

(***************************************************************************)
(* A callback with its lock uses the library.                              *)
(***************************************************************************)
LEMMA BodyFacts ==
    ASSUME Settled, NEW t \in Threads, At(t, "body"), NEW a,
           a = [Top(t) EXCEPT !.todo = <<"finish">>]
    PROVE  /\ Hold(Top(t), Top(t).on) /\ a.op = "callback" /\ a.todo = <<"finish">>
           /\ Onward(app, Top(t), a) /\ Keeps(Top(t), a)
<1>1. /\ stack[t] # <<>> /\ Top(t).todo # <<>> /\ Top(t) \in Activation
      /\ Good(app, Top(t)) /\ Head(Top(t).todo) = "body" /\ Top(t).op = "callback"
  BY AtFacts, Ops, TopFacts DEF Settled
<1>2. PICK b : b = Top(t)
  OBVIOUS
<1>3. b.todo = <<"body">> /\ (b.on \in Sessions => b.session = b.on) /\ b.kids = {}
  BY <1>1, <1>2 DEF Good, OfCallback
<1>4. <<"finish">> \in Seq(Steps)
  BY DEF Steps
<1>5. /\ a \in Activation /\ a.op = b.op /\ a.on = b.on /\ a.level = b.level
      /\ a.kids = b.kids /\ a.todo = <<"finish">> /\ a.session = b.session
      /\ a.key = b.key /\ a.seen = b.seen
  BY <1>1, <1>2, <1>4 DEF Activation
<1>6. Good(app, a)
  BY <1>1, <1>2, <1>3, <1>5 DEF Good, OfCallback
<1>7. Head(b.todo) = "body" /\ Head(a.todo) = "finish"
  BY <1>3, <1>5
<1>8. Keeps(b, a)
  BY <1>5, <1>7 DEF Keeps, Hold
<1>9. ~Traces(a)
  BY <1>5 DEF Traces
<1>10. Reach(app, a) \subseteq Reach(app, b) /\ Reach(app, b) \subseteq Locks
  BY <1>1, <1>2, <1>5, <1>9, ReachFacts DEF Reach, Settled, Frames
<1>11. Onward(app, b, a)
  BY <1>1, <1>2, <1>5, <1>6, <1>10, NoHigherSame DEF Onward, Settled, Frames
<1>12. Hold(b, b.on)
  BY <1>1, <1>2, <1>7 DEF Hold
<1> QED BY <1>1, <1>2, <1>5, <1>8, <1>11, <1>12

LEMMA GenerateMoves ==
    ASSUME Settled, NEW t \in Threads, Generate(t)
    PROVE  MovesSilently(t)
<1>1. /\ stack[t] # <<>> /\ ~raised[t] /\ Good(app, Top(t))
      /\ Top(t).on \in Locks /\ Top(t).level \in 1..MaxLevel
  BY AtFacts, TopFacts DEF Generate, Settled
<1>2. RaisedBy(t)
  BY <1>1, StillNotRaised DEF Generate, Settled
<1>3. PICK a : a = [Top(t) EXCEPT !.todo = <<"finish">>]
  OBVIOUS
<1>4. /\ Hold(Top(t), Top(t).on) /\ a.op = "callback" /\ a.todo = <<"finish">>
      /\ Onward(app, Top(t), a) /\ Keeps(Top(t), a)
  BY <1>3, BodyFacts DEF Generate
<1>5. PICK g \in app.generates[Top(t).on] :
         Calls(t, a, Generation(g[1], g[2], Top(t).level + 1))
  BY <1>3 DEF Generate
<1>6. PICK x, s, level, c : /\ x = g[1] /\ s = g[2] /\ level = Top(t).level + 1
                            /\ c = Generation(x, s, level)
  OBVIOUS
<1>7. x \in Clients /\ s \in Sessions
  <2>1. app.generates[Top(t).on] \subseteq Clients \X Sessions
    BY <1>1, CallbacksAssumption DEF Settled, Frames
  <2> QED BY <1>5, <1>6, <2>1
<1>8. level \in 1..MaxLevel /\ level > Top(t).level
  BY <1>1, <1>6, CallbacksAssumption DEF Generate
<1>9. Fresh(app, x, c, level) /\ c.op = "generate"
  BY <1>6, <1>7, <1>8, GenerationFacts DEF Settled, Frames
<1>10. Taken(app, x) \subseteq Wanted(app, Top(t).on)
  BY <1>5, <1>6 DEF Wanted
<1>11. c.level >= Top(t).level /\ c.level > Top(t).level
  BY <1>1, <1>8, <1>9, CallbacksAssumption DEF Fresh
<1>12. Sub(app, Top(t), c)
  BY <1>4, <1>9, <1>10, <1>11 DEF Sub, Fresh
<1> QED BY <1>1, <1>2, <1>4, <1>5, <1>6, <1>12, CallsMovesSilently DEF Settled

LEMMA UseStateMoves ==
    ASSUME Settled, NEW t \in Threads, UseState(t)
    PROVE  MovesSilently(t)
<1>1. /\ stack[t] # <<>> /\ ~raised[t] /\ Good(app, Top(t)) /\ Top(t).on \in Locks
      /\ Top(t).session \in Sessions /\ Top(t).level \in 1..MaxLevel
  BY AtFacts, TopFacts DEF UseState, Settled
<1>2. RaisedBy(t)
  BY <1>1, StillNotRaised DEF UseState, Settled
<1>3. PICK a : a = [Top(t) EXCEPT !.todo = <<"finish">>]
  OBVIOUS
<1>4. /\ Hold(Top(t), Top(t).on) /\ a.op = "callback" /\ a.todo = <<"finish">>
      /\ Onward(app, Top(t), a) /\ Keeps(Top(t), a)
  BY <1>3, BodyFacts DEF UseState
<1>5. PICK use \in app.uses[Top(t).on], k \in Keys, T \in Types :
         Calls(t, a, Access(use, k, T, Top(t).session, Top(t).level))
  BY <1>3 DEF UseState
<1>6. PICK s, level : s = Top(t).session /\ level = Top(t).level
  OBVIOUS
<1>7. PICK c : c = Access(use, k, T, s, level)
  OBVIOUS
<1>8. use \in Uses /\ s \in Sessions /\ level \in 1..MaxLevel
  BY <1>1, <1>5, <1>6, CallbacksAssumption DEF Settled, Frames
<1>9. Part(app, c, "access", s, level)
  BY <1>7, <1>8, AccessFacts
<1>10. /\ Good(app, c) /\ c.kids = {} /\ Idle(c) /\ c.op = "access"
       /\ c.level = level /\ Reach(app, c) = {s}
  BY <1>9 DEF Part
<1>12. s \in Wanted(app, Top(t).on)
  BY <1>5, <1>8 DEF Wanted
<1>13. c.level >= Top(t).level
  BY <1>6, <1>8, <1>10, CallbacksAssumption
<1>14. Sub(app, Top(t), c)
  BY <1>4, <1>10, <1>12, <1>13 DEF Sub
<1> QED BY <1>1, <1>2, <1>4, <1>5, <1>6, <1>7, <1>14, CallsMovesSilently DEF Settled

(***************************************************************************)
(* The steps that lock and unlock.                                         *)
(***************************************************************************)
Enters(t, a) ==
    /\ Moves(t) /\ TopIs(stack[t], stack'[t], a)
    /\ Idle(stack[t][Len(stack[t])]) /\ Hold(a, Top(t).on)

Exits(t) ==
    /\ Moves(t) /\ TopIsGone(stack[t], stack'[t])
    /\ Hold(stack[t][Len(stack[t])], Top(t).on)

LEMMA LockEnters ==
    ASSUME Settled, NEW t \in Threads, Lock(t)
    PROVE  Top(t).on \in Locks \ Sessions /\ \E a : Enters(t, a)
<1>1. /\ stack[t] # <<>> /\ ~raised[t] /\ Top(t).todo # <<>> /\ Top(t) \in Activation
      /\ Good(app, Top(t)) /\ Head(Top(t).todo) = "lock" /\ Top(t).op = "callback"
      /\ Top(t) = stack[t][Len(stack[t])]
  BY AtFacts, Ops, TopFacts DEF Lock, Settled
<1>2. PICK b, rest : b = Top(t) /\ rest = Tail(b.todo)
  OBVIOUS
<1>3. b.todo = <<"lock", "body">> /\ b.on \notin Sessions /\ b.kids = {}
  BY <1>1, <1>2 DEF Good, OfCallback
<1>4. rest = <<"body">> /\ rest \in Seq(Steps) /\ Head(rest) = "body"
  BY <1>2, <1>3 DEF Steps
<1>5. PICK a : a = [b EXCEPT !.todo = rest]
  OBVIOUS
<1>6. /\ a \in Activation /\ a.op = b.op /\ a.on = b.on /\ a.level = b.level
      /\ a.kids = b.kids /\ a.todo = rest
  BY <1>1, <1>2, <1>4, <1>5 DEF Activation
<1>7. Good(app, a)
  BY <1>1, <1>2, <1>3, <1>4, <1>6 DEF Good, OfCallback
<1>8. ~Traces(a)
  BY <1>4, <1>6 DEF Traces
<1>9. Reach(app, a) \subseteq Reach(app, b) /\ Reach(app, b) \subseteq Locks
  BY <1>1, <1>2, <1>6, <1>8, ReachFacts DEF Reach, Settled, Frames
<1>10. Onward(app, b, a)
  BY <1>1, <1>2, <1>6, <1>7, <1>9, NoHigherSame DEF Onward, Settled, Frames
<1>11. Becomes(t, a)
  BY <1>2, <1>5 DEF Lock, Continue, Rest
<1>12. RaisedBy(t)
  BY <1>1, StillNotRaised DEF Lock, Settled
<1>13. Moves(t) /\ TopIs(stack[t], stack'[t], a)
  BY <1>1, <1>2, <1>10, <1>11, <1>12, BecomesMoves DEF Settled
<1>14. Idle(b) /\ Hold(a, b.on)
  BY <1>1, <1>2, <1>4, <1>6 DEF Idle, Hold
<1> QED BY <1>1, <1>2, <1>3, <1>13, <1>14, TopFacts DEF Enters, Settled

LEMMA UpdateEnters ==
    ASSUME Settled, StateTypeOK, NEW t \in Threads, Update(t)
    PROVE  /\ Top(t).on \in Sessions /\ Top(t).key \in Keys /\ Top(t).type \in Types
           /\ \E a : /\ Enters(t, a) /\ a.key = Top(t).key
                     /\ a.seen = IF ContainsKey(Top(t).on, Top(t).key)
                                 THEN values[Top(t).on][Top(t).key].n ELSE 0
<1>1. /\ stack[t] # <<>> /\ ~raised[t] /\ Top(t).todo # <<>> /\ Top(t) \in Activation
      /\ Good(app, Top(t)) /\ Head(Top(t).todo) = "update" /\ Top(t).op = "access"
      /\ Top(t) = stack[t][Len(stack[t])]
  BY AtFacts, Ops, TopFacts DEF Update, Settled, Uses
<1>2. PICK b, old : b = Top(t) /\ old = values[b.on][b.key]
  OBVIOUS
<1>3. PICK seen : seen = IF old = Absent THEN 0 ELSE old.n
  OBVIOUS
<1>4. /\ b.on \in Sessions /\ b.session = b.on /\ b.kids = {}
      /\ b.key \in Keys /\ b.type \in Types
  BY <1>1, <1>2 DEF Good, OfAccess, Activation
<1>5. seen \in 0..MaxUpdates
  <2>1. old \in Entry \cup {Absent}
    BY <1>2, <1>4 DEF StateTypeOK
  <2>2. 0 \in 0..MaxUpdates
    BY StateAssumption
  <2> QED BY <1>3, <2>1, <2>2 DEF Entry
<1>6. <<"body">> \in Seq(Steps) /\ Head(<<"body">>) = "body"
  BY DEF Steps
<1>7. PICK a : a = [b EXCEPT !.op = "callback", !.todo = <<"body">>, !.seen = seen]
  OBVIOUS
<1>8. /\ a \in Activation /\ a.op = "callback" /\ a.on = b.on /\ a.level = b.level
      /\ a.kids = {} /\ a.todo = <<"body">> /\ a.seen = seen /\ a.key = b.key
      /\ a.session = b.session
  BY <1>1, <1>2, <1>4, <1>5, <1>6, <1>7 DEF Activation
<1>9. Good(app, a)
  BY <1>4, <1>8 DEF Good, OfCallback
<1>10. ~Traces(a)
  BY <1>8 DEF Traces
<1>11. Reach(app, a) \subseteq Reach(app, b) /\ Reach(app, b) \subseteq Locks
  BY <1>1, <1>2, <1>8, <1>10, ReachFacts DEF Reach, Settled, Frames
<1>12. Onward(app, b, a)
  BY <1>1, <1>2, <1>4, <1>8, <1>9, <1>11, NoHigherSame DEF Onward, Settled, Frames
<1>13. Becomes(t, a)
  BY <1>2, <1>3, <1>7 DEF Update
<1>14. RaisedBy(t)
  BY <1>1, StillNotRaised DEF Update, Settled
<1>15. Moves(t) /\ TopIs(stack[t], stack'[t], a)
  BY <1>1, <1>2, <1>12, <1>13, <1>14, BecomesMoves DEF Settled
<1>16. Idle(b) /\ Hold(a, b.on)
  BY <1>1, <1>2, <1>6, <1>8 DEF Idle, Hold
<1>17. Enters(t, a)
  BY <1>1, <1>2, <1>15, <1>16 DEF Enters
<1> QED BY <1>2, <1>3, <1>4, <1>8, <1>17 DEF ContainsKey

\* An exception only reaches a callback that has used the library.
Raising ==
    \A t \in Threads :
       raised[t] /\ stack[t] # <<>> /\ Top(t).op = "callback"
          => Top(t).todo = <<"finish">>

LEMMA FinishExits ==
    ASSUME Settled, Raising, NEW t \in Threads, Finish(t)
    PROVE  /\ Exits(t) /\ Top(t).on \in Locks
           /\ Top(t).on \in Sessions => Top(t).session = Top(t).on
           /\ Top(t).key \in Keys /\ Top(t).op = "callback"
<1>1. /\ stack[t] # <<>> /\ Top(t).op = "callback" /\ Good(app, Top(t))
      /\ Top(t) \in Activation /\ Top(t) = stack[t][Len(stack[t])]
  BY TopFacts DEF Finish, Settled
<1>2. Head(Top(t).todo) # "lock"
  <2>1. CASE raised[t]
    BY <1>1, <2>1 DEF Raising
  <2>2. CASE At(t, "body") \/ At(t, "finish")
    BY <2>2 DEF At
  <2> QED BY <2>1, <2>2 DEF Finish
<1>3. Hold(Top(t), Top(t).on)
  BY <1>1, <1>2 DEF Hold
<1>4. PICK throws \in BOOLEAN : Leave(t, throws /\ Top(t).on \notin Tools \cup {Tracer})
  BY DEF Finish
<1>5. PICK out : out = (throws /\ Top(t).on \notin Tools \cup {Tracer})
  OBVIOUS
<1>6. out \in BOOLEAN /\ Leave(t, out)
  BY <1>4, <1>5
<1>7. Moves(t) /\ TopIsGone(stack[t], stack'[t])
  BY <1>1, <1>6, LeaveMoves DEF Settled
<1>8. Exits(t)
  BY <1>1, <1>3, <1>7 DEF Exits
<1>9. Top(t).on \in Locks /\ Top(t).key \in Keys
  BY <1>1 DEF Activation
<1> QED BY <1>1, <1>8, <1>9 DEF Good, OfCallback

-----------------------------------------------------------------------------
(***************************************************************************)
(* What holds of all stacks together.                                      *)
(***************************************************************************)
\* Under either rule, nobody reaches above a lock held below it ...
Descends == Ruled(app) => \A t \in Threads : Falling(app, stack[t])

\* ... nor, on a thread that was launched, above the client that launched it.
Kids ==
    Ruled(app) =>
       \A u \in Threads : \A i \in 1..Len(stack[u]) : \A w \in stack[u][i].kids :
          \A j \in 1..Len(stack[w]) : Kid(app, stack[u][i], stack[w][j])

\* Who has something to do was started, or launched by a parallel client.
Quiet ==
    /\ started \subseteq Callers
    /\ \A t \in Callers :
          stack[t] # <<>> => t \in started /\ app.starts[t] # {}
    /\ \A w \in Workers : stack[w] # <<>> => app.parallel # {}

StackInv == Settled /\ Raising /\ Descends /\ Kids /\ Quiet

LEMMA NotEmpty ==
    ASSUME NEW S, NEW s \in Seq(S), NEW j \in 1..Len(s)
    PROVE  s # <<>>
BY EmptySeq

LEMMA KidStays ==
    ASSUME NEW p, NEW f, NEW e, NEW g, Kid(p, f, g), e.on = f.on, e.level = f.level
    PROVE  Kid(p, e, g)
BY DEF Kid

LEMMA MovesSettled ==
    ASSUME Settled, NEW t \in Threads, Moves(t), UNCHANGED app
    PROVE  Settled'
<1>1. GoodStack(app, stack'[t]) /\ Paused(stack'[t])
  BY StillGood, StillPaused DEF Moves, Settled, Frames
<1>2. \A u \in Threads : GoodStack(app, stack'[u]) /\ Paused(stack'[u])
  BY <1>1 DEF Moves, Others, Settled, Frames
<1> QED BY <1>2 DEF Settled, Frames, Moves, RaisedBy

LEMMA MovesRaising ==
    ASSUME Settled, Raising, NEW t \in Threads, Moves(t), UNCHANGED app
    PROVE  Raising'
<1> SUFFICES ASSUME NEW u \in Threads, raised'[u], stack'[u] # <<>>,
                    stack'[u][Len(stack'[u])].op = "callback"
             PROVE  stack'[u][Len(stack'[u])].todo = <<"finish">>
  BY DEF Raising, Top, Height
<1>1. CASE u # t
  BY <1>1 DEF Raising, Top, Height, Moves, Others, RaisedBy
<1>2. CASE u = t
  <2>1. TopIsGone(stack[t], stack'[t]) /\ Paused(stack[t])
    BY <1>2 DEF Moves, RaisedBy, Settled, Frames
  <2>2. Len(stack'[t]) \in Nat \ {0}
    BY <1>2, EmptySeq DEF Moves, Stacks
  <2> QED BY <1>2, <2>1, <2>2 DEF TopIsGone, Same, Paused
<1> QED BY <1>1, <1>2

LEMMA MovesDescends ==
    ASSUME Settled, Descends, NEW t \in Threads, Moves(t), UNCHANGED app
    PROVE  Descends'
<1> SUFFICES ASSUME Ruled(app), NEW u \in Threads
             PROVE  Falling(app, stack'[u])
  BY DEF Descends
<1>1. CASE u # t
  BY <1>1 DEF Descends, Moves, Others
<1>2. CASE u = t
  <2>1. Falling(app, stack[t]) /\ GoodStack(app, stack[t]) /\ app \in Applications
    BY DEF Descends, Settled, Frames
  <2>2. Goes(app, stack[t], stack'[t])
    BY DEF Moves
  <2> QED BY <1>2, <2>1, <2>2, StillFalling
<1> QED BY <1>1, <1>2

\* An activation whose thread was launched by f goes back to one that was, too.
LEMMA KidGoesOn ==
    ASSUME NEW p \in Applications, Ruled(p), NEW s, NEW n, GoodStack(p, s),
           Goes(p, s, n), NEW f, Good(p, f), f.kids # {},
           \A i \in 1..Len(s) : Kid(p, f, s[i]), NEW j \in 1..Len(n)
    PROVE  Kid(p, f, n[j])
<1>1. PICK i \in 1..Len(s) : Succ(p, s[i], n[j])
  BY Origin
<1>2. Good(p, s[i]) /\ Good(p, n[j])
  BY StillGood DEF GoodStack
<1>3. f.on \in Clients
  BY DEF Good, OfGenerate, Activation
<1> QED BY <1>1, <1>2, <1>3, KidSucc

LEMMA MovesKids ==
    ASSUME Settled, Kids, NEW t \in Threads, Moves(t), UNCHANGED app
    PROVE  Kids'
<1> SUFFICES ASSUME Ruled(app), NEW u \in Threads, NEW i \in 1..Len(stack'[u]),
                    NEW w \in stack'[u][i].kids, NEW j \in 1..Len(stack'[w])
             PROVE  Kid(app, stack'[u][i], stack'[w][j])
  BY DEF Kids
<1>1. app \in Applications /\ Goes(app, stack[t], stack'[t])
      /\ \A v \in Threads : GoodStack(app, stack[v]) /\ (v # t => stack'[v] = stack[v])
  BY DEF Settled, Frames, Moves, Others
<1>2. PICK e : e = stack'[u][i]
  OBVIOUS
<1>3. /\ i \in 1..Len(stack[u]) /\ w \in stack[u][i].kids
      /\ e.on = stack[u][i].on /\ e.level = stack[u][i].level
  <2>1. CASE u = t
    <3>1. stack'[t][i].kids # {} /\ i \in 1..Len(stack'[t])
      BY <2>1
    <3> QED BY <1>1, <1>2, <2>1, <3>1, Family
  <2>2. CASE u # t
    BY <1>1, <1>2, <2>2
  <2> QED BY <2>1, <2>2
<1>4. PICK f : f = stack[u][i] /\ Good(app, f) /\ f.kids # {} /\ w \in f.kids
  BY <1>1, <1>3 DEF GoodStack
<1>5. \A k \in 1..Len(stack[w]) : Kid(app, f, stack[w][k])
  BY <1>3, <1>4 DEF Kids
<1>6. w \in Threads
  BY <1>4, ReachFacts, <1>1 DEF Threads
<1>7. Kid(app, f, stack'[w][j])
  <2>1. CASE w = t
    BY <1>1, <1>4, <1>5, <2>1, KidGoesOn
  <2>2. CASE w # t
    BY <1>1, <1>5, <1>6, <2>2
  <2> QED BY <2>1, <2>2
<1>8. Kid(app, e, stack'[w][j])
  BY <1>3, <1>4, <1>7, KidStays
<1> QED BY <1>2, <1>8

LEMMA MovesQuiet ==
    ASSUME Settled, Quiet, NEW t \in Threads, Moves(t), UNCHANGED <<app, started>>
    PROVE  Quiet'
<1>1. \A u \in Threads : stack'[u] # <<>> => stack[u] # <<>>
  BY DEF Moves, Others
<1> QED BY <1>1 DEF Quiet, Threads

LEMMA MovesStackInv ==
    ASSUME StackInv, NEW t \in Threads, Moves(t), UNCHANGED <<app, started>>
    PROVE  StackInv'
BY MovesSettled, MovesRaising, MovesDescends, MovesKids, MovesQuiet DEF StackInv

-----------------------------------------------------------------------------
(***************************************************************************)
(* A thread is launched.                                                   *)
(***************************************************************************)
\* n is the stack m, up to the futures of its activations.
Like(m, n) ==
    /\ Len(n) = Len(m)
    /\ \A j \in 1..Len(n) :
          /\ n[j].op = m[j].op /\ n[j].on = m[j].on
          /\ n[j].todo = m[j].todo /\ n[j].level = m[j].level

\* The updaters of n are those of s.
Stems(s, n) ==
    \A j \in 1..Len(n) :
       n[j].op = "callback" /\ n[j].on \in Sessions =>
          /\ j \in 1..Len(s) /\ s[j].op = "callback"
          /\ n[j].on = s[j].on /\ n[j].key = s[j].key /\ n[j].seen = s[j].seen

\* The generation on top of t has launched c on the idle thread w; m would be
\* the stack of t without the new future.
Launches(t, w, c, m) ==
    /\ stack[t] # <<>> /\ ~raised[t] /\ Top(t).op = "generate"
    /\ w \in Workers \ {t} /\ stack[w] = <<>> /\ ~Unread(w)
    /\ Stacks' /\ \A u \in Threads : u \notin {t, w} => stack'[u] = stack[u]
    /\ stack'[w] = <<c>>
    /\ Fresh(app, Top(t).on, c, Top(t).level) /\ c.op = "execute"
    /\ Goes(app, stack[t], m) /\ Silent(app, stack[t], m)
    /\ GoodStack(app, stack'[t]) /\ Like(m, stack'[t])
    /\ Len(m) = Len(stack[t])
    /\ \A j \in 1..Len(m) : m[j].on = stack[t][j].on /\ m[j].level = stack[t][j].level
    /\ \A j \in 1..Len(stack[t]) :
          stack'[t][j].kids \subseteq stack[t][j].kids \cup {w}
    /\ \A j \in 1..Len(stack[t]) :
          w \in stack'[t][j].kids => j = Len(stack[t])
    /\ Stems(stack[t], stack'[t])
    /\ app.parallel # {}

LEMMA SpawnLaunches ==
    ASSUME Settled, NEW t \in Threads, Spawn(t)
    PROVE  \E w, c, m : Launches(t, w, c, m)
<1>1. /\ stack[t] # <<>> /\ ~raised[t] /\ Top(t).todo # <<>> /\ Top(t) \in Activation
      /\ Good(app, Top(t)) /\ Head(Top(t).todo) = "spawn" /\ Top(t).op = "generate"
  BY AtFacts, Ops, TopFacts DEF Spawn, Settled, GenSteps
<1>2. PICK b, s, h : b = Top(t) /\ s = stack[t] /\ h = Len(s)
  OBVIOUS
<1>3. /\ b = s[h] /\ h \in Nat \ {0} /\ h \in 1..Len(s) /\ s \in Seq(Activation)
      /\ GoodStack(app, s) /\ Paused(s)
  BY <1>1, <1>2, TopFacts DEF Settled, Frames, Stacks
<1>4. PICK calls : calls = Tail(b.calls)
  OBVIOUS
<1>5. PICK todo : todo = IF calls = <<>> THEN Tail(b.todo) ELSE b.todo
  OBVIOUS
<1>6. /\ b.todo \in Seq(Steps) /\ b.todo # <<>> /\ b.on \in Clients
      /\ Plan(b.todo, b.calls)
      /\ b.kids # {} \/ Spawns(b.todo) => app.parallel # {}
  BY <1>1, <1>2 DEF Good, OfGenerate, Activation
<1>7. b.calls # <<>> /\ app.parallel # {}
  <2>1. Spawns(b.todo)
    BY <1>1, <1>2, <1>6, TailFacts DEF Spawns
  <2> QED BY <1>1, <1>2, <1>6, <2>1, FirstStep
<1>8. PICK c : c = NextCall(t)
  OBVIOUS
<1>9. /\ Fresh(app, b.on, c, b.level) /\ c.op = "execute"
      /\ calls \in Seq(Offered(app, b.on)) /\ calls \in Seq(Tools)
  <2>1. /\ Fresh(app, b.on, NextCall(t), b.level) /\ NextCall(t).op = "execute"
        /\ calls \in Seq(Offered(app, b.on))
    BY <1>1, <1>2, <1>4, <1>7, NextCallFacts
  <2> QED BY <1>6, <1>8, <2>1, OffersFacts DEF Settled, Frames
<1>10. /\ todo \in Seq(Steps) /\ Plan(todo, calls) /\ (Spawns(todo) => Spawns(b.todo))
       /\ todo = b.todo \/ todo = Tail(b.todo)
  <2>1. CASE calls # <<>>
    BY <1>5, <1>6, <2>1, SomeLeft
  <2>2. CASE calls = <<>>
    BY <1>1, <1>2, <1>5, <1>6, <2>2, NoneLeft, TailPlan, TailFacts
  <2> QED BY <2>1, <2>2
<1>11. PICK a : a = [b EXCEPT !.todo = todo, !.calls = calls]
  OBVIOUS
<1>12. /\ a \in Activation /\ a.op = b.op /\ a.on = b.on /\ a.level = b.level
       /\ a.kids = b.kids /\ a.calls = calls /\ a.todo = todo
  BY <1>1, <1>2, <1>9, <1>10, <1>11 DEF Activation
<1>13. Traces(a) => Traces(b)
  <2>1. CASE a.todo = b.todo
    BY <2>1 DEF Traces
  <2>2. CASE a.todo = Tail(b.todo)
    BY <1>6, <2>2, TailTraces
  <2> QED BY <1>10, <1>12, <2>1, <2>2
<1>14. Onward(app, b, a) /\ Keeps(b, a)
  BY <1>1, <1>2, <1>6, <1>9, <1>10, <1>12, <1>13, GenerateGoesOn DEF Settled, Frames
<1>15. PICK m : m = Put(s, h, a)
  OBVIOUS
<1>16. m \in Seq(Activation) /\ TopIs(s, m, a)
  <2>1. s # <<>>
    BY <1>1, <1>2
  <2> QED BY <1>2, <1>3, <1>12, <1>15, <2>1, Replaced
<1>17. Goes(app, s, m) /\ Silent(app, s, m)
  BY <1>2, <1>3, <1>14, <1>16 DEF Goes, Silent
<1>18. PICK w : /\ w \in Workers /\ stack[w] = <<>> /\ ~Unread(w)
                /\ stack' = [stack EXCEPT
                     ![w] = <<c>>,
                     ![t][h] = [b EXCEPT !.todo = todo, !.calls = calls,
                                         !.kids = @ \cup {w}]]
  <2>1. \A free : free # {} => (CHOOSE w \in free : TRUE) \in free
    OBVIOUS
  <2> QED BY <1>2, <1>4, <1>5, <1>8, <2>1 DEF Spawn, Height, Rest
<1>19. w # t /\ w \in Threads
  BY <1>1, <1>18 DEF Threads
<1>20. PICK d : d = [a EXCEPT !.kids = b.kids \cup {w}]
  OBVIOUS
<1>21. /\ d \in Activation /\ d.op = b.op /\ d.on = b.on /\ d.level = b.level
       /\ d.kids = b.kids \cup {w} /\ d.calls = calls /\ d.todo = todo
  BY <1>12, <1>18, <1>20, <1>1, <1>2 DEF Activation
<1>22. PICK n : n = Put(s, h, d)
  OBVIOUS
<1>23. n \in Seq(Activation) /\ TopIs(s, n, d)
  <2>1. s # <<>>
    BY <1>1, <1>2
  <2> QED BY <1>2, <1>3, <1>21, <1>22, <2>1, Replaced
<1>24. d = [b EXCEPT !.todo = todo, !.calls = calls, !.kids = @ \cup {w}]
  BY <1>1, <1>2, <1>11, <1>20 DEF Activation
<1>25. stack' = [[stack EXCEPT ![w] = <<c>>] EXCEPT ![t] = n]
  <2>1. [stack EXCEPT ![w] = <<c>>][t] = s
    BY <1>2, <1>19 DEF Settled, Frames, Stacks
  <2>2. stack' = [[stack EXCEPT ![w] = <<c>>] EXCEPT ![t][h] = d]
    BY <1>18, <1>24
  <2> QED BY <1>22, <2>1, <2>2 DEF Put
<1>26. /\ Stacks' /\ stack'[w] = <<c>> /\ stack'[t] = n
       /\ \A u \in Threads : u \notin {t, w} => stack'[u] = stack[u]
  <2>1. c \in Activation /\ <<c>> \in Seq(Activation)
    BY <1>9 DEF Fresh, Good
  <2>2. stack \in [Threads -> Seq(Activation)]
    BY DEF Settled, Frames, Stacks
  <2>3. PICK one : one = <<c>> /\ one \in Seq(Activation)
    BY <2>1
  <2> QED BY <1>19, <1>23, <1>25, <2>2, <2>3 DEF Stacks
<1>27. GoodStack(app, n)
  <2>1. d.kids # {} \/ Spawns(d.todo) => app.parallel # {}
    BY <1>7
  <2>2. Good(app, d)
    BY <1>1, <1>2, <1>6, <1>9, <1>10, <1>21, <2>1 DEF Good, OfGenerate
  <2> QED BY <1>3, <1>23, <2>2 DEF GoodStack, TopIs, Same
<1>28. Like(m, n)
  BY <1>12, <1>16, <1>21, <1>23 DEF Like, TopIs, Same
<1>29. /\ \A j \in 1..Len(s) : n[j].kids \subseteq s[j].kids \cup {w}
       /\ \A j \in 1..Len(s) : w \in n[j].kids => j = Len(s)
  <2>1. \A j \in 1..Len(s) : w \notin s[j].kids
    BY <1>2, <1>18 DEF Unread
  <2> QED BY <1>2, <1>3, <1>21, <1>23, <2>1 DEF TopIs, Same
<1>30. /\ Len(m) = Len(s)
       /\ \A j \in 1..Len(m) : m[j].on = s[j].on /\ m[j].level = s[j].level
  BY <1>2, <1>3, <1>12, <1>16 DEF TopIs, Same
<1>31. w \in Workers \ {t}
  BY <1>18, <1>19
<1>32. /\ stack[t] = s /\ stack'[t] = n /\ Top(t) = b
  BY <1>2, <1>26
<1>33. Stems(s, n)
  BY <1>1, <1>2, <1>3, <1>21, <1>23 DEF Stems, TopIs, Same
<1>34. Launches(t, w, c, m)
  BY <1>1, <1>7, <1>9, <1>17, <1>18, <1>26, <1>27, <1>28, <1>29, <1>30, <1>31, <1>32, <1>33
     DEF Launches
<1> QED BY <1>34

LEMMA LikeHolds ==
    ASSUME NEW p, NEW m, NEW n, Like(m, n)
    PROVE  /\ Paused(m) => Paused(n)
           /\ Falling(p, m) => Falling(p, n)
           /\ \A l : InsideOf(n, l) = InsideOf(m, l)
           /\ \A j \in 1..Len(n) : Reach(p, n[j]) = Reach(p, m[j])
<1>1. Paused(m) => Paused(n)
  BY DEF Like, Paused
<1>2. \A j \in 1..Len(n) : Reach(p, n[j]) = Reach(p, m[j])
  BY DEF Like, Reach, Traces
<1>3. \A j \in 1..Len(n) : \A l : Hold(n[j], l) <=> Hold(m[j], l)
  BY DEF Like, Hold
<1>4. \A l : InsideOf(n, l) = InsideOf(m, l)
  BY <1>3 DEF Like, InsideOf
<1>5. Falling(p, m) => Falling(p, n)
  BY <1>2, <1>3 DEF Like, Falling, Above
<1> QED BY <1>1, <1>2, <1>4, <1>5

LEMMA LaunchesSettled ==
    ASSUME Settled, NEW t \in Threads, NEW w, NEW c, NEW m, Launches(t, w, c, m),
           UNCHANGED <<app, raised>>
    PROVE  Settled'
<1>1. GoodStack(app, stack'[t]) /\ Paused(stack'[t])
  BY StillPaused, LikeHolds DEF Launches, Settled, Frames
<1>2. GoodStack(app, stack'[w]) /\ Paused(stack'[w])
  <2>1. stack'[w] = <<c>> /\ Good(app, c)
    BY DEF Launches, Fresh
  <2> QED BY <2>1 DEF GoodStack, Paused
<1>3. \A u \in Threads : GoodStack(app, stack'[u]) /\ Paused(stack'[u])
  BY <1>1, <1>2 DEF Launches, Settled, Frames
<1> QED BY <1>3 DEF Settled, Frames, Launches

LEMMA LaunchesRaising ==
    ASSUME Raising, NEW t \in Threads, NEW w, NEW c, NEW m, Launches(t, w, c, m),
           UNCHANGED <<app, raised>>
    PROVE  Raising'
<1> SUFFICES ASSUME NEW u \in Threads, raised[u], stack'[u] # <<>>,
                    stack'[u][Len(stack'[u])].op = "callback"
             PROVE  stack'[u][Len(stack'[u])].todo = <<"finish">>
  BY DEF Raising, Top, Height
<1>1. CASE u \notin {t, w}
  BY <1>1 DEF Raising, Top, Height, Launches
<1>2. CASE u = t
  BY <1>2 DEF Launches
<1>3. CASE u = w
  BY <1>3 DEF Launches
<1> QED BY <1>1, <1>2, <1>3

LEMMA LaunchesDescends ==
    ASSUME Settled, Descends, NEW t \in Threads, NEW w, NEW c, NEW m,
           Launches(t, w, c, m), UNCHANGED app
    PROVE  Descends'
<1> SUFFICES ASSUME Ruled(app), NEW u \in Threads
             PROVE  Falling(app, stack'[u])
  BY DEF Descends
<1>1. CASE u \notin {t, w}
  BY <1>1 DEF Descends, Launches
<1>2. CASE u = t
  <2>1. Falling(app, stack[t]) /\ GoodStack(app, stack[t]) /\ app \in Applications
    BY DEF Descends, Settled, Frames
  <2>2. Goes(app, stack[t], m) /\ Like(m, stack'[t])
    BY DEF Launches
  <2> QED BY <1>2, <2>1, <2>2, StillFalling, LikeHolds
<1>3. CASE u = w
  <2>1. stack'[w] = <<c>>
    BY DEF Launches
  <2> QED BY <1>3, <2>1 DEF Falling
<1> QED BY <1>1, <1>2, <1>3

LEMMA LaunchesKids ==
    ASSUME Settled, Kids, NEW t \in Threads, NEW w, NEW c, NEW m,
           Launches(t, w, c, m), UNCHANGED app
    PROVE  Kids'
<1> SUFFICES ASSUME Ruled(app), NEW u \in Threads, NEW i \in 1..Len(stack'[u]),
                    NEW x \in stack'[u][i].kids, NEW j \in 1..Len(stack'[x])
             PROVE  Kid(app, stack'[u][i], stack'[x][j])
  BY DEF Kids
<1>1. /\ app \in Applications /\ Goes(app, stack[t], m) /\ Like(m, stack'[t])
      /\ \A v \in Threads : GoodStack(app, stack[v])
      /\ \A v \in Threads : v \notin {t, w} => stack'[v] = stack[v]
      /\ stack'[w] = <<c>> /\ c.kids = {} /\ w # t /\ w \in Threads
  BY DEF Settled, Frames, Launches, Fresh, Threads
<1>2. /\ Len(m) = Len(stack[t])
      /\ \A k \in 1..Len(m) : m[k].on = stack[t][k].on /\ m[k].level = stack[t][k].level
      /\ \A k \in 1..Len(stack[t]) :
            stack'[t][k].kids \subseteq stack[t][k].kids \cup {w}
      /\ \A k \in 1..Len(stack[t]) : w \in stack'[t][k].kids => k = Len(stack[t])
  BY DEF Launches
<1>3. u # w
  BY <1>1
<1>4. /\ i \in 1..Len(stack[u]) /\ stack'[u][i].on = stack[u][i].on
      /\ stack'[u][i].level = stack[u][i].level
      /\ x \in stack[u][i].kids \/ (u = t /\ x = w /\ i = Len(stack[t]))
  <2>1. CASE u = t
    BY <1>1, <1>2, <2>1 DEF Like
  <2>2. CASE u # t
    BY <1>1, <1>3, <2>2
  <2> QED BY <2>1, <2>2
<1>5. CASE u = t /\ x = w /\ i = Len(stack[t])
  <2>1. stack'[x][j] = c /\ stack[t][i] = Top(t)
    BY <1>1, <1>5 DEF Top, Height
  <2>2. /\ Reach(app, c) \subseteq Taken(app, Top(t).on) /\ c.level = Top(t).level
        /\ c.op = "execute"
    BY DEF Launches, Fresh
  <2>3. Top(t).on \in Clients /\ Top(t).level \in 1..MaxLevel
    <3>1. Good(app, Top(t)) /\ Top(t).op = "generate"
      BY TopFacts DEF Settled, Launches
    <3> QED BY <3>1, ReachFacts, <1>1 DEF Good, OfGenerate
  <2>4. Taken(app, Top(t).on) \in SUBSET Locks
    BY <1>1, <2>3, AppFacts
  <2>5. NoHigher(app, Reach(app, c), Taken(app, Top(t).on))
    BY <1>1, <2>2, <2>4, NoHigherSame
  <2>6. Kid(app, Top(t), c)
    BY <2>2, <2>3, <2>5, CallbacksAssumption DEF Kid
  <2> QED BY <1>4, <1>5, <2>1, <2>6, KidStays
<1>6. CASE x \in stack[u][i].kids
  <2>1. PICK f : f = stack[u][i] /\ Good(app, f) /\ f.kids # {} /\ x \in f.kids
    BY <1>1, <1>4, <1>6 DEF GoodStack
  <2>2. \A k \in 1..Len(stack[x]) : Kid(app, f, stack[x][k])
    BY <1>4, <2>1 DEF Kids
  <2>3. x \in Threads /\ x # w
    BY <1>1, <1>4, <2>1, ReachFacts DEF Launches, Unread, Threads
  <2>4. Kid(app, f, stack'[x][j])
    <3>1. CASE x = t
      <4>1. j \in 1..Len(m) /\ Good(app, f) /\ GoodStack(app, stack[t])
            /\ \A k \in 1..Len(stack[t]) : Kid(app, f, stack[t][k])
        BY <1>1, <2>1, <2>2, <3>1 DEF Like
      <4>2. Kid(app, f, m[j])
        BY <1>1, <2>1, <4>1, KidGoesOn
      <4>3. PICK n : n = stack'[t] /\ Like(m, n) /\ j \in 1..Len(n)
        BY <1>1, <3>1
      <4>4. Reach(app, n[j]) = Reach(app, m[j])
        BY <4>3, LikeHolds
      <4>5. n[j].op = m[j].op /\ n[j].level = m[j].level
        BY <4>3 DEF Like
      <4> QED BY <3>1, <4>2, <4>3, <4>4, <4>5 DEF Kid
    <3>2. CASE x # t
      BY <1>1, <2>2, <2>3, <3>2
    <3> QED BY <3>1, <3>2
  <2> QED BY <1>4, <2>1, <2>4, KidStays
<1> QED BY <1>4, <1>5, <1>6

LEMMA LaunchesQuiet ==
    ASSUME Quiet, NEW t \in Threads, NEW w, NEW c, NEW m,
           Launches(t, w, c, m), UNCHANGED <<app, started>>
    PROVE  Quiet'
<1>1. \A u \in Threads : u # w /\ stack'[u] # <<>> => stack[u] # <<>>
  BY DEF Launches
<1>2. w \in Workers /\ w \notin Callers /\ app.parallel # {}
  BY CallbacksAssumption DEF Launches
<1> QED BY <1>1, <1>2 DEF Quiet, Threads

LEMMA SpawnStackInv ==
    ASSUME StackInv, NEW t \in Threads, Spawn(t)
    PROVE  StackInv'
<1>1. PICK w, c, m : Launches(t, w, c, m)
  BY SpawnLaunches DEF StackInv
<1>2. UNCHANGED <<app, raised, started>>
  BY DEF Spawn
<1> QED BY <1>1, <1>2, LaunchesSettled, LaunchesRaising, LaunchesDescends,
           LaunchesKids, LaunchesQuiet DEF StackInv

(***************************************************************************)
(* A caller calls generate.                                                *)
(***************************************************************************)
LEMMA StartDoes ==
    ASSUME Settled, Quiet, NEW t \in Threads, Start(t)
    PROVE  /\ t \in Callers /\ stack[t] = <<>> /\ app.starts[t] # {}
           /\ Stacks' /\ Others(t) /\ started' = started \cup {t}
           /\ \E c : /\ stack'[t] = <<c>> /\ Good(app, c) /\ Idle(c) /\ c.kids = {}
                     /\ c.op = "generate"
<1>1. PICK g \in app.starts[t] :
         stack' = [stack EXCEPT ![t] = <<Generation(g[1], g[2], 1)>>]
  BY DEF Start
<1>2. t \in Callers /\ stack[t] = <<>>
  BY DEF Start, Quiet
<1>3. g[1] \in Clients /\ g[2] \in Sessions
  <2>1. app.starts[t] \subseteq Clients \X Sessions
    BY <1>2, CallbacksAssumption DEF Settled, Frames
  <2> QED BY <1>1, <2>1
<1>4. PICK x, s, c : x = g[1] /\ s = g[2] /\ c = Generation(x, s, 1)
  OBVIOUS
<1>5. 1 \in 1..MaxLevel
  BY CallbacksAssumption
<1>6. Fresh(app, x, c, 1) /\ c.op = "generate"
  BY <1>3, <1>4, <1>5, GenerationFacts DEF Settled, Frames
<1>7. PICK one : one = <<c>> /\ one \in Seq(Activation)
  <2>1. c \in Activation
    BY <1>6 DEF Fresh, Good
  <2>2. <<c>> \in Seq(Activation)
    BY <2>1
  <2> QED BY <2>2
<1>8. stack' = [stack EXCEPT ![t] = one]
  BY <1>1, <1>4, <1>7
<1>9. Stacks' /\ Others(t) /\ stack'[t] = one
  BY <1>7, <1>8 DEF Settled, Frames, Stacks, Others
<1>10. /\ stack'[t] = <<c>> /\ Good(app, c) /\ Idle(c) /\ c.kids = {}
       /\ c.op = "generate"
  BY <1>6, <1>7, <1>9 DEF Fresh
<1> QED BY <1>1, <1>2, <1>9, <1>10 DEF Start

LEMMA StartStackInv ==
    ASSUME StackInv, NEW t \in Threads, Start(t)
    PROVE  StackInv'
<1>1. /\ t \in Callers /\ stack[t] = <<>> /\ app.starts[t] # {}
      /\ Stacks' /\ started' = started \cup {t}
      /\ \A u \in Threads : u # t => stack'[u] = stack[u]
  BY StartDoes DEF StackInv, Others
<1>2. PICK c : /\ stack'[t] = <<c>> /\ Good(app, c) /\ Idle(c) /\ c.kids = {}
               /\ c.op = "generate"
  BY StartDoes DEF StackInv
<1>3. UNCHANGED <<app, raised>>
  BY DEF Start
<1>4. Settled'
  <2>1. GoodStack(app, stack'[t]) /\ Paused(stack'[t])
    BY <1>2 DEF GoodStack, Paused
  <2>2. \A u \in Threads : GoodStack(app, stack'[u]) /\ Paused(stack'[u])
    BY <1>1, <2>1 DEF StackInv, Settled, Frames
  <2> QED BY <1>1, <1>3, <2>2 DEF StackInv, Settled, Frames
<1>5. Raising'
  <2> SUFFICES ASSUME NEW u \in Threads, raised[u], stack'[u] # <<>>,
                      stack'[u][Len(stack'[u])].op = "callback"
               PROVE  stack'[u][Len(stack'[u])].todo = <<"finish">>
    BY <1>3 DEF Raising, Top, Height
  <2>1. u # t
    BY <1>2
  <2> QED BY <1>1, <2>1 DEF StackInv, Raising, Top, Height
<1>6. Descends'
  <2> SUFFICES ASSUME Ruled(app), NEW u \in Threads
               PROVE  Falling(app, stack'[u])
    BY <1>3 DEF Descends
  <2>1. CASE u = t
    BY <1>2, <2>1 DEF Falling
  <2>2. CASE u # t
    BY <1>1, <2>2 DEF StackInv, Descends
  <2> QED BY <2>1, <2>2
<1>7. Kids'
  <2> SUFFICES ASSUME Ruled(app), NEW u \in Threads, NEW i \in 1..Len(stack'[u]),
                      NEW x \in stack'[u][i].kids, NEW j \in 1..Len(stack'[x])
               PROVE  Kid(app, stack'[u][i], stack'[x][j])
    BY <1>3 DEF Kids
  <2>1. u # t
    BY <1>2
  <2>2. stack'[u] = stack[u] /\ i \in 1..Len(stack[u]) /\ x \in stack[u][i].kids
    BY <1>1, <2>1
  <2>3. x \in Workers
    BY <2>2, ReachFacts DEF StackInv, Settled, Frames, GoodStack
  <2>4. stack'[x] = stack[x]
    BY <1>1, <2>3, CallbacksAssumption DEF Threads
  <2> QED BY <2>2, <2>4 DEF StackInv, Kids
<1>8. Quiet'
  BY <1>1, <1>3, CallbacksAssumption DEF StackInv, Quiet, Threads
<1> QED BY <1>4, <1>5, <1>6, <1>7, <1>8 DEF StackInv

-----------------------------------------------------------------------------
(***************************************************************************)
(* The locks: who holds one is inside of its callback, as often as it took *)
(* it, and nobody else is.                                                 *)
(***************************************************************************)
Free(l) ==
    /\ owner[l] = NoThread /\ depth[l] = 0
    /\ \A t \in Threads : InsideOf(stack[t], l) = {}

HeldBy(t, l) ==
    /\ owner[l] = t /\ depth[l] = Cardinality(InsideOf(stack[t], l)) /\ depth[l] > 0
    /\ l \notin Tools => depth[l] = 1
    /\ \A u \in Threads : u # t => InsideOf(stack[u], l) = {}

LockInv ==
    /\ owner \in [Locks -> Threads \cup {NoThread}] /\ depth \in [Locks -> Nat]
    /\ \A l \in Locks : Free(l) \/ \E t \in Threads : HeldBy(t, l)

SameInside == \A u \in Threads, l \in Locks : InsideOf(stack'[u], l) = InsideOf(stack[u], l)

LEMMA SilentInside ==
    ASSUME NEW t \in Threads, MovesSilently(t)
    PROVE  SameInside
<1>1. \A l : InsideOf(stack'[t], l) = InsideOf(stack[t], l)
  BY InsideSame DEF MovesSilently
<1> QED BY <1>1 DEF SameInside, MovesSilently, Moves, Others

LEMMA IdleInside ==
    ASSUME NEW c, Idle(c), NEW l
    PROVE  InsideOf(<<c>>, l) = {} /\ InsideOf(<<>>, l) = {}
BY DEF Idle, InsideOf

LEMMA SpawnInside ==
    ASSUME Settled, NEW t \in Threads, Spawn(t)
    PROVE  SameInside
<1>1. PICK w, c, m : Launches(t, w, c, m)
  BY SpawnLaunches
<1>2. \A l : InsideOf(m, l) = InsideOf(stack[t], l)
  BY <1>1, InsideSame DEF Launches
<1>3. \A l : InsideOf(stack'[t], l) = InsideOf(m, l)
  BY <1>1, LikeHolds, ZenonT(40) DEF Launches
<1>4. \A l : InsideOf(stack'[w], l) = InsideOf(stack[w], l)
  BY <1>1, IdleInside DEF Launches, Fresh
<1> QED BY <1>1, <1>2, <1>3, <1>4 DEF Launches, SameInside

LEMMA StartInside ==
    ASSUME Settled, Quiet, NEW t \in Threads, Start(t)
    PROVE  SameInside
<1>1. stack[t] = <<>> /\ \A u \in Threads : u # t => stack'[u] = stack[u]
  BY StartDoes DEF Others
<1>2. \E c : stack'[t] = <<c>> /\ Idle(c)
  BY StartDoes
<1>3. \A l : InsideOf(stack'[t], l) = InsideOf(stack[t], l)
  BY <1>1, <1>2, IdleInside
<1> QED BY <1>1, <1>3 DEF SameInside

LEMMA LocksStay ==
    ASSUME LockInv, SameInside, UNCHANGED lockVars
    PROVE  LockInv'
<1>1. owner' = owner /\ depth' = depth
  BY DEF lockVars
<1> SUFFICES ASSUME NEW l \in Locks
             PROVE  Free(l)' \/ \E t \in Threads : HeldBy(t, l)'
  BY <1>1 DEF LockInv
<1>2. \A u \in Threads : InsideOf(stack'[u], l) = InsideOf(stack[u], l)
  BY DEF SameInside
<1>3. CASE Free(l)
  BY <1>1, <1>2, <1>3 DEF Free
<1>4. ASSUME NEW t \in Threads, HeldBy(t, l)
      PROVE  HeldBy(t, l)'
  BY <1>1, <1>2, <1>4 DEF HeldBy
<1> QED BY <1>3, <1>4 DEF LockInv

LEMMA StacksFinite ==
    ASSUME Stacks, NEW t \in Threads, NEW l
    PROVE  IsFiniteSet(InsideOf(stack[t], l)) /\ Cardinality(InsideOf(stack[t], l)) \in Nat
<1>1. Len(stack[t]) \in Nat
  BY LenProperties DEF Stacks
<1> QED BY <1>1, InsideFinite

\* The other locks, and the other threads.
LEMMA OtherLocks ==
    ASSUME LockInv, NEW t \in Threads, Others(t), NEW l \in Locks,
           \A m \in Locks : m # l =>
              /\ InsideOf(stack'[t], m) = InsideOf(stack[t], m)
              /\ owner'[m] = owner[m] /\ depth'[m] = depth[m],
           NEW m \in Locks, m # l
    PROVE  Free(m)' \/ \E u \in Threads : HeldBy(u, m)'
<1>1. /\ \A u \in Threads : InsideOf(stack'[u], m) = InsideOf(stack[u], m)
      /\ owner'[m] = owner[m] /\ depth'[m] = depth[m]
  BY DEF Others
<1>2. CASE Free(m)
  BY <1>1, <1>2 DEF Free
<1>3. ASSUME NEW u \in Threads, HeldBy(u, m)
      PROVE  HeldBy(u, m)'
  BY <1>1, <1>3 DEF HeldBy
<1> QED BY <1>2, <1>3 DEF LockInv

LEMMA LocksTaken ==
    ASSUME Settled, LockInv, NEW t \in Threads, NEW a, Enters(t, a),
           Top(t).on \in Locks, Take(t, Top(t).on)
    PROVE  LockInv'
<1>0. PICK l \in Locks : l = Top(t).on
  OBVIOUS
<1>1. PICK h : l = Top(t).on /\ h = Len(stack[t])
  BY <1>0
<1>2. /\ h \notin InsideOf(stack[t], l)
      /\ InsideOf(stack'[t], l) = InsideOf(stack[t], l) \cup {h}
      /\ \A m : m # l => InsideOf(stack'[t], m) = InsideOf(stack[t], m)
  BY <1>1, InsideMore DEF Enters
<1>3. /\ Available(t, l) /\ owner' = [owner EXCEPT ![l] = t]
      /\ depth' = [depth EXCEPT ![l] = @ + 1]
  BY <1>1 DEF Take
<1>4. /\ owner \in [Locks -> Threads \cup {NoThread}] /\ depth \in [Locks -> Nat]
      /\ Others(t)
  BY DEF LockInv, Enters, Moves
<1>5. /\ owner' \in [Locks -> Threads \cup {NoThread}] /\ depth' \in [Locks -> Nat]
      /\ owner'[l] = t /\ depth'[l] = depth[l] + 1
      /\ \A m \in Locks : m # l => owner'[m] = owner[m] /\ depth'[m] = depth[m]
  BY <1>3, <1>4
<1>6. PICK S, d : S = InsideOf(stack[t], l) /\ d = depth[l]
  OBVIOUS
<1>7. /\ IsFiniteSet(S) /\ Cardinality(S) \in Nat /\ d \in Nat
      /\ Cardinality(S \cup {h}) = Cardinality(S) + 1
  BY <1>2, <1>4, <1>6, StacksFinite, FS_AddElement DEF Settled, Frames
<1>8. /\ d = Cardinality(S) /\ (l \notin Tools => d = 0)
      /\ \A u \in Threads : u # t => InsideOf(stack[u], l) = {}
  <2>1. CASE Free(l)
    BY <1>6, <2>1, FS_EmptySet DEF Free
  <2>2. ASSUME NEW u \in Threads, HeldBy(u, l)
        PROVE  u = t /\ l \in Tools
    BY <1>3, <2>2, CallbacksAssumption DEF Available, Recursive, HeldBy
  <2>3. CASE HeldBy(t, l) /\ l \in Tools
    BY <1>6, <2>3 DEF HeldBy
  <2> QED BY <2>1, <2>2, <2>3 DEF LockInv
<1>9. HeldBy(t, l)'
  <2>1. depth'[l] = Cardinality(InsideOf(stack'[t], l)) /\ depth'[l] > 0
    BY <1>2, <1>5, <1>6, <1>7, <1>8
  <2>2. l \notin Tools => depth'[l] = 1
    BY <1>5, <1>6, <1>8
  <2>3. \A u \in Threads : u # t => InsideOf(stack'[u], l) = {}
    BY <1>4, <1>8 DEF Others
  <2> QED BY <1>5, <2>1, <2>2, <2>3 DEF HeldBy
<1>10. \A m \in Locks : m # l => Free(m)' \/ \E u \in Threads : HeldBy(u, m)'
  BY <1>2, <1>4, <1>5, OtherLocks
<1> QED BY <1>5, <1>9, <1>10 DEF LockInv

LEMMA LocksGivenBack ==
    ASSUME Settled, LockInv, NEW t \in Threads, Exits(t),
           Top(t).on \in Locks, GiveBack(Top(t).on)
    PROVE  LockInv'
<1>0. PICK l \in Locks : l = Top(t).on
  OBVIOUS
<1>1. PICK h : l = Top(t).on /\ h = Len(stack[t])
  BY <1>0
<1>2. /\ h \in InsideOf(stack[t], l)
      /\ InsideOf(stack'[t], l) = InsideOf(stack[t], l) \ {h}
      /\ \A m : m # l => InsideOf(stack'[t], m) = InsideOf(stack[t], m)
  BY <1>1, InsideLess DEF Exits
<1>3. /\ depth' = [depth EXCEPT ![l] = @ - 1]
      /\ owner' = [owner EXCEPT ![l] = IF depth[l] = 1 THEN NoThread ELSE @]
  BY <1>1 DEF GiveBack
<1>4. /\ owner \in [Locks -> Threads \cup {NoThread}] /\ depth \in [Locks -> Nat]
      /\ Others(t)
  BY DEF LockInv, Exits, Moves
<1>5. HeldBy(t, l)
  BY <1>2 DEF LockInv, Free, HeldBy
<1>6. PICK S, d : S = InsideOf(stack[t], l) /\ d = depth[l]
  OBVIOUS
<1>7. /\ IsFiniteSet(S) /\ d \in Nat \ {0} /\ d = Cardinality(S)
      /\ Cardinality(S \ {h}) = d - 1 /\ IsFiniteSet(S \ {h})
  <2>1. IsFiniteSet(S)
    BY <1>6, StacksFinite DEF Settled, Frames
  <2>2. d \in Nat \ {0} /\ d = Cardinality(S)
    BY <1>4, <1>5, <1>6 DEF HeldBy
  <2> QED BY <1>2, <1>6, <2>1, <2>2, FS_RemoveElement
<1>8. /\ owner' \in [Locks -> Threads \cup {NoThread}] /\ depth' \in [Locks -> Nat]
      /\ owner'[l] = IF d = 1 THEN NoThread ELSE t
      /\ depth'[l] = d - 1
      /\ \A m \in Locks : m # l => owner'[m] = owner[m] /\ depth'[m] = depth[m]
  BY <1>3, <1>4, <1>5, <1>6, <1>7 DEF HeldBy
<1>9. \A u \in Threads : u # t => InsideOf(stack'[u], l) = {}
  BY <1>4, <1>5 DEF HeldBy, Others
<1>10. Free(l)' \/ HeldBy(t, l)'
  <2>1. CASE d = 1
    <3>1. S \ {h} = {}
      BY <1>7, <2>1, FS_EmptySet
    <3>2. \A u \in Threads : InsideOf(stack'[u], l) = {}
      BY <1>2, <1>6, <1>9, <3>1
    <3> QED BY <1>8, <2>1, <3>2 DEF Free
  <2>2. CASE d # 1
    <3>1. l \in Tools
      BY <1>5, <1>6, <2>2 DEF HeldBy
    <3>2. depth'[l] = Cardinality(InsideOf(stack'[t], l)) /\ depth'[l] > 0
      BY <1>2, <1>6, <1>7, <1>8, <2>2
    <3> QED BY <1>8, <1>9, <2>2, <3>1, <3>2 DEF HeldBy
  <2> QED BY <2>1, <2>2
<1>11. \A m \in Locks : m # l => Free(m)' \/ \E u \in Threads : HeldBy(u, m)'
  BY <1>2, <1>4, <1>8, OtherLocks
<1> QED BY <1>8, <1>10, <1>11 DEF LockInv

-----------------------------------------------------------------------------
(***************************************************************************)
(* SessionState: an updater still works on the value it was given.         *)
(***************************************************************************)
Pending(a) ==
    a.op = "callback" /\ a.on \in Sessions =>
       ContainsKey(a.on, a.key) /\ values[a.on][a.key].n = a.seen

Reading == \A t \in Threads : \A j \in 1..Len(stack[t]) : Pending(stack[t][j])

StateInv == StateTypeOK /\ NoUpdateIsLost /\ Reading

AllStem == \A u \in Threads : Stems(stack[u], stack'[u])

LEMMA StemsSame == ASSUME NEW s PROVE Stems(s, s)
BY DEF Stems

LEMMA SilentStems ==
    ASSUME NEW p, NEW s, NEW n, Goes(p, s, n), Silent(p, s, n)
    PROVE  Stems(s, n)
<1>1. ASSUME NEW a, NEW x, TopIs(s, n, a), Keeps(s[Len(s)], a),
             TopIs(s, n, x), Onward(p, s[Len(s)], x)
      PROVE  Stems(s, n)
  <2>1. a = x
    BY <1>1 DEF TopIs
  <2> QED BY <1>1, <2>1 DEF TopIs, Same, Keeps, Onward, Stems
<1>2. ASSUME NEW a, NEW c, TopsAre(s, n, a, c), Keeps(s[Len(s)], a),
             Onward(p, s[Len(s)], a), Sub(p, s[Len(s)], c)
      PROVE  Stems(s, n)
  <2>1. c.op = "callback" => c.on \notin Sessions
    BY <1>2 DEF Sub
  <2> QED BY <1>2, <2>1 DEF TopsAre, Same, Keeps, Onward, Stems
<1>3. CASE TopIsGone(s, n)
  BY <1>3 DEF TopIsGone, Same, Stems
<1>4. ASSUME NEW a, TopIs(s, n, a), Keeps(s[Len(s)], a)
      PROVE  \E x : TopIs(s, n, x) /\ Onward(p, s[Len(s)], x)
  BY <1>4 DEF Goes, TopIs, TopsAre, TopIsGone
<1>5. ASSUME NEW a, NEW c, TopsAre(s, n, a, c)
      PROVE  \E x, y : /\ TopsAre(s, n, x, y) /\ Keeps(s[Len(s)], x)
                       /\ Onward(p, s[Len(s)], x) /\ Sub(p, s[Len(s)], y)
  BY <1>5 DEF Goes, TopIs, TopsAre, TopIsGone
<1>6. CASE \E a : TopIs(s, n, a) /\ Keeps(s[Len(s)], a)
  BY <1>1, <1>4, <1>6
<1>7. CASE \E a, c : TopsAre(s, n, a, c)
  BY <1>2, <1>5, <1>7
<1> QED BY <1>3, <1>6, <1>7 DEF Silent

LEMMA MovesSilentlyStems ==
    ASSUME NEW t \in Threads, MovesSilently(t)
    PROVE  AllStem
<1>1. Stems(stack[t], stack'[t])
  BY SilentStems DEF MovesSilently, Moves
<1> QED BY <1>1, StemsSame DEF MovesSilently, Moves, Others, AllStem

LEMMA ExitsStems ==
    ASSUME NEW t \in Threads, Exits(t)
    PROVE  AllStem
<1>1. Stems(stack[t], stack'[t])
  BY DEF Exits, TopIsGone, Same, Stems
<1> QED BY <1>1, StemsSame DEF Exits, Moves, Others, AllStem

LEMMA EntersStems ==
    ASSUME NEW t \in Threads, NEW a, Enters(t, a), Top(t).on \notin Sessions
    PROVE  AllStem
<1>1. Stems(stack[t], stack'[t])
  BY DEF Enters, TopIs, Same, Stems, Hold
<1> QED BY <1>1, StemsSame DEF Enters, Moves, Others, AllStem

LEMMA SpawnStems ==
    ASSUME Settled, NEW t \in Threads, Spawn(t)
    PROVE  AllStem
<1>1. PICK w, c, m : Launches(t, w, c, m)
  BY SpawnLaunches
<1>2. Stems(stack[w], stack'[w])
  BY <1>1 DEF Launches, Stems
<1> QED BY <1>1, <1>2, StemsSame DEF Launches, AllStem

LEMMA StartStems ==
    ASSUME Settled, Quiet, NEW t \in Threads, Start(t)
    PROVE  AllStem
<1>1. \A u \in Threads : u # t => stack'[u] = stack[u]
  BY StartDoes DEF Others
<1>2. \E c : stack'[t] = <<c>> /\ c.op = "generate"
  BY StartDoes
<1>3. Stems(stack[t], stack'[t])
  BY <1>2 DEF Stems
<1> QED BY <1>1, <1>3, StemsSame DEF AllStem

\* An updater of session s.
Updates(a, s) == a.op = "callback" /\ a.on = s

Touches(s) ==
    \A x \in Sessions : x # s => values'[x] = values[x] /\ completed'[x] = completed[x]

LEMMA ReadingSame ==
    ASSUME Reading, AllStem, UNCHANGED stateVars
    PROVE  Reading'
<1> SUFFICES ASSUME NEW u \in Threads, NEW j \in 1..Len(stack'[u])
             PROVE  Pending(stack[u][j])'
  BY DEF Reading
<1>1. PICK n : n = stack'[u]
  OBVIOUS
<1>2. /\ n[j].op = "callback" /\ n[j].on \in Sessions =>
            /\ j \in 1..Len(stack[u]) /\ stack[u][j].op = "callback"
            /\ n[j].on = stack[u][j].on /\ n[j].key = stack[u][j].key
            /\ n[j].seen = stack[u][j].seen
      /\ j \in 1..Len(stack[u]) => Pending(stack[u][j])
  BY <1>1 DEF AllStem, Stems, Reading
<1> QED BY <1>1, <1>2 DEF Pending, stateVars, ContainsKey

LEMMA ReadingElsewhere ==
    ASSUME Reading, AllStem, NEW s \in Sessions, Touches(s),
           \A u \in Threads : \A j \in 1..Len(stack'[u]) : ~Updates(stack'[u][j], s)
    PROVE  Reading'
<1> SUFFICES ASSUME NEW u \in Threads, NEW j \in 1..Len(stack'[u])
             PROVE  Pending(stack[u][j])'
  BY DEF Reading
<1>1. PICK n : n = stack'[u]
  OBVIOUS
<1>2. /\ n[j].op = "callback" /\ n[j].on \in Sessions =>
            /\ j \in 1..Len(stack[u]) /\ stack[u][j].op = "callback"
            /\ n[j].on = stack[u][j].on /\ n[j].key = stack[u][j].key
            /\ n[j].seen = stack[u][j].seen
      /\ j \in 1..Len(stack[u]) => Pending(stack[u][j])
      /\ ~Updates(n[j], s)
  BY <1>1 DEF AllStem, Stems, Reading
<1> QED BY <1>1, <1>2 DEF Pending, Touches, ContainsKey, Updates

LEMMA UpdaterHolds ==
    ASSUME NEW p, NEW a, Good(p, a), NEW s \in Sessions, Updates(a, s)
    PROVE  Hold(a, s)
BY DEF Good, OfCallback, Updates, Hold

\* The lock of the session is free: nobody updates it.
LEMMA NoUpdater ==
    ASSUME Settled, LockInv, NEW s \in Sessions, NEW t \in Threads, Available(t, s)
    PROVE  \A u \in Threads : \A j \in 1..Len(stack[u]) : ~Updates(stack[u][j], s)
<1>1. s \in Locks /\ s \notin Tools
  BY CallbacksAssumption DEF Locks
<1>2. owner[s] = NoThread
  BY <1>1 DEF Available, Recursive
<1>3. Free(s)
  BY <1>1, <1>2, CallbacksAssumption DEF LockInv, HeldBy
<1> SUFFICES ASSUME NEW u \in Threads, NEW j \in 1..Len(stack[u]), Updates(stack[u][j], s)
             PROVE  FALSE
  OBVIOUS
<1>4. Hold(stack[u][j], s)
  BY UpdaterHolds DEF Settled, Frames, GoodStack
<1> QED BY <1>3, <1>4 DEF Free, InsideOf

\* The lock of the session is held by the updater that returns: it is alone.
LEMMA OneUpdater ==
    ASSUME Settled, LockInv, NEW t \in Threads, Exits(t), Top(t).on \in Sessions
    PROVE  \A u \in Threads : \A j \in 1..Len(stack'[u]) : ~Updates(stack'[u][j], Top(t).on)
<1>1. PICK s \in Sessions : s = Top(t).on
  OBVIOUS
<1>2. s \in Locks /\ s \notin Tools
  BY CallbacksAssumption DEF Locks
<1>3. Len(stack[t]) \in InsideOf(stack[t], s)
  BY <1>1, InsideLess DEF Exits
<1>4. HeldBy(t, s)
  BY <1>2, <1>3 DEF LockInv, Free, HeldBy
<1>5. PICK S : S = InsideOf(stack[t], s)
  OBVIOUS
<1>6. \A i, j \in S : i = j
  <2>1. IsFiniteSet(S)
    BY <1>5, StacksFinite DEF Settled, Frames
  <2>2. Cardinality(S) = 1
    BY <1>2, <1>4, <1>5 DEF HeldBy
  <2> QED BY <2>1, <2>2, Once
<1> SUFFICES ASSUME NEW u \in Threads, NEW j \in 1..Len(stack'[u]), Updates(stack'[u][j], s)
             PROVE  FALSE
  BY <1>1
<1>7. CASE u # t
  <2>1. stack'[u] = stack[u]
    BY <1>7 DEF Exits, Moves, Others
  <2>2. Hold(stack[u][j], s)
    BY <2>1, UpdaterHolds DEF Settled, Frames, GoodStack
  <2> QED BY <1>4, <1>7, <2>1, <2>2 DEF HeldBy, InsideOf
<1>8. CASE u = t
  <2>1. /\ stack'[t][j] = stack[t][j] /\ j \in 1..Len(stack[t]) /\ j # Len(stack[t])
        /\ j \in 1..Len(stack'[t])
    BY <1>8 DEF Exits, TopIsGone, Same
  <2>2. Hold(stack[t][j], s)
    BY <1>8, <2>1, UpdaterHolds DEF Settled, Frames, GoodStack
  <2>3. j \in S
    BY <1>5, <2>1, <2>2 DEF InsideOf
  <2> QED BY <1>3, <1>5, <1>6, <2>1, <2>3
<1> QED BY <1>7, <1>8

(***************************************************************************)
(* The operations of SessionState.                                         *)
(***************************************************************************)
LEMMA WriteDoes ==
    ASSUME StateTypeOK, NoUpdateIsLost, NEW s \in Sessions, NEW k \in Keys, NEW entry,
           entry = Absent \/ (entry \in Entry /\ entry.n = 0), Write(s, k, entry)
    PROVE  /\ StateTypeOK' /\ NoUpdateIsLost' /\ Touches(s)
           /\ values'[s][k] = entry
<1>1. /\ values \in [Sessions -> [Keys -> Entry \cup {Absent}]]
      /\ completed \in [Sessions -> [Keys -> 0..MaxUpdates]]
      /\ 0 \in 0..MaxUpdates /\ entry \in Entry \cup {Absent}
  BY StateAssumption DEF StateTypeOK
<1>2. /\ values' = [values EXCEPT ![s][k] = entry]
      /\ completed' = [completed EXCEPT ![s][k] = 0]
  BY DEF Write
<1>3. StateTypeOK' /\ Touches(s) /\ values'[s][k] = entry /\ completed'[s][k] = 0
  BY <1>1, <1>2 DEF StateTypeOK, Touches
<1>4. \A x \in Sessions, m \in Keys : ~(x = s /\ m = k) =>
         values'[x][m] = values[x][m] /\ completed'[x][m] = completed[x][m]
  BY <1>1, <1>2
<1>5. NoUpdateIsLost'
  BY <1>3, <1>4 DEF NoUpdateIsLost, ContainsKey
<1> QED BY <1>3, <1>5

LEMMA SetDoes ==
    ASSUME StateTypeOK, NoUpdateIsLost, NEW s \in Sessions, NEW k \in Keys,
           NEW T \in Types, Set(s, k, T)
    PROVE  /\ StateTypeOK' /\ NoUpdateIsLost' /\ Touches(s)
           /\ values'[s][k] # Absent /\ values'[s][k].n = 0
<1>1. PICK entry : entry = [type |-> T, n |-> 0]
  OBVIOUS
<1>2. entry \in Entry /\ entry.n = 0 /\ entry # Absent
  <2>1. 0 \in 0..MaxUpdates
    BY StateAssumption
  <2> QED BY <1>1, <2>1, StateAssumption DEF Entry
<1>3. Write(s, k, entry)
  BY <1>1 DEF Set
<1>4. /\ StateTypeOK' /\ NoUpdateIsLost' /\ Touches(s)
      /\ values'[s][k] = entry
  BY <1>2, <1>3, WriteDoes
<1> QED BY <1>2, <1>4

LEMMA ClearDoes ==
    ASSUME StateTypeOK, NoUpdateIsLost, NEW s \in Sessions, Clear(s)
    PROVE  StateTypeOK' /\ NoUpdateIsLost' /\ Touches(s)
<1>1. /\ values \in [Sessions -> [Keys -> Entry \cup {Absent}]]
      /\ completed \in [Sessions -> [Keys -> 0..MaxUpdates]]
      /\ 0 \in 0..MaxUpdates
  BY StateAssumption DEF StateTypeOK
<1>2. /\ values' = [values EXCEPT ![s] = [k \in Keys |-> Absent]]
      /\ completed' = [completed EXCEPT ![s] = [k \in Keys |-> 0]]
  BY DEF Clear
<1>3. StateTypeOK' /\ Touches(s) /\ \A k \in Keys : values'[s][k] = Absent
  BY <1>1, <1>2 DEF StateTypeOK, Touches
<1>4. NoUpdateIsLost'
  BY <1>3 DEF NoUpdateIsLost, ContainsKey, Touches
<1> QED BY <1>3, <1>4

LEMMA EmplaceDoes ==
    ASSUME StateTypeOK, NoUpdateIsLost, NEW s \in Sessions, NEW k \in Keys,
           NEW T \in Types, Emplace(s, k, T)
    PROVE  /\ StateTypeOK' /\ NoUpdateIsLost' /\ Touches(s)
           /\ values'[s][k] # Absent
           /\ values'[s][k].n = IF ContainsKey(s, k) THEN values[s][k].n ELSE 0
<1>1. CASE ContainsKey(s, k)
  <2>1. values' = values /\ completed' = completed
    BY <1>1 DEF Emplace, stateVars
  <2> QED BY <1>1, <2>1 DEF StateTypeOK, NoUpdateIsLost, Touches, ContainsKey
<1>2. CASE ~ContainsKey(s, k)
  BY <1>2, SetDoes DEF Emplace
<1> QED BY <1>1, <1>2

LEMMA AssignDoes ==
    ASSUME StateTypeOK, NoUpdateIsLost, NEW s \in Sessions, NEW k \in Keys, NEW seen,
           ContainsKey(s, k), values[s][k].n = seen, seen < MaxUpdates, Assign(s, k, seen)
    PROVE  /\ StateTypeOK' /\ NoUpdateIsLost' /\ Touches(s)
           /\ values'[s][k] = [values[s][k] EXCEPT !.n = @ + 1]
           /\ \A m \in Keys : m # k => values'[s][m] = values[s][m]
<1>1. /\ values \in [Sessions -> [Keys -> Entry \cup {Absent}]]
      /\ completed \in [Sessions -> [Keys -> 0..MaxUpdates]]
  BY DEF StateTypeOK
<1>2. PICK e, d : e = values[s][k] /\ d = completed[s][k]
  OBVIOUS
<1>3. e \in Entry /\ e.n = d /\ d = seen /\ d \in 0..MaxUpdates
  BY <1>1, <1>2 DEF ContainsKey, NoUpdateIsLost
<1>4. d + 1 \in 0..MaxUpdates
  BY <1>3, StateAssumption
<1>5. PICK f : f = [e EXCEPT !.n = d + 1]
  OBVIOUS
<1>6. f \in Entry /\ f.n = d + 1 /\ f = [e EXCEPT !.n = @ + 1]
  BY <1>3, <1>4, <1>5 DEF Entry
<1>7. /\ values' = [values EXCEPT ![s][k] = f]
      /\ completed' = [completed EXCEPT ![s][k] = d + 1]
  BY <1>1, <1>2, <1>3, <1>5 DEF Assign
<1>8. StateTypeOK' /\ Touches(s) /\ values'[s][k] = f /\ completed'[s][k] = d + 1
  BY <1>1, <1>4, <1>6, <1>7 DEF StateTypeOK, Touches
<1>9. \A x \in Sessions, m \in Keys : ~(x = s /\ m = k) =>
         values'[x][m] = values[x][m] /\ completed'[x][m] = completed[x][m]
  BY <1>1, <1>7
<1>10. NoUpdateIsLost'
  <2> SUFFICES ASSUME NEW x \in Sessions, NEW m \in Keys, values'[x][m] # Absent
               PROVE  values'[x][m].n = completed'[x][m]
    BY DEF NoUpdateIsLost, ContainsKey
  <2>1. CASE x = s /\ m = k
    BY <1>6, <1>8, <2>1
  <2>2. CASE ~(x = s /\ m = k)
    BY <1>9, <2>2 DEF NoUpdateIsLost, ContainsKey
  <2> QED BY <2>1, <2>2
<1> QED BY <1>2, <1>6, <1>8, <1>9, <1>10

(***************************************************************************)
(* The steps that change it.                                               *)
(***************************************************************************)
\* What is left when there was no updater of s.
LEMMA NoneAfter ==
    ASSUME AllStem, NEW s \in Sessions,
           \A u \in Threads : \A j \in 1..Len(stack[u]) : ~Updates(stack[u][j], s)
    PROVE  \A u \in Threads : \A j \in 1..Len(stack'[u]) : ~Updates(stack'[u][j], s)
BY DEF AllStem, Stems, Updates

LEMMA ModifyState ==
    ASSUME Settled, LockInv, StateInv, NEW t \in Threads, Modify(t)
    PROVE  StateInv'
<1>1. PICK use \in Uses : At(t, use)
  BY DEF Modify, Uses
<1>2. Good(app, Top(t)) /\ Top(t).op = "access" /\ Top(t) \in Activation
  BY <1>1, AtFacts, TopFacts, Ops DEF Settled
<1>3. PICK s, k, T : s = Top(t).on /\ k = Top(t).key /\ T = Top(t).type
  OBVIOUS
<1>4. s \in Sessions /\ k \in Keys /\ T \in Types
  BY <1>2, <1>3 DEF Good, OfAccess, Activation
<1>5. Available(t, s) /\ (Set(s, k, T) \/ Erase(s, k) \/ Clear(s))
  BY <1>3 DEF Modify
<1>6. StateTypeOK' /\ NoUpdateIsLost' /\ Touches(s)
  BY <1>4, <1>5, SetDoes, WriteDoes, ClearDoes DEF StateInv, Erase
<1>7. AllStem
  BY ModifyMoves, MovesSilentlyStems
<1>8. \A u \in Threads : \A j \in 1..Len(stack'[u]) : ~Updates(stack'[u][j], s)
  BY <1>4, <1>5, <1>7, NoUpdater, NoneAfter
<1>9. Reading'
  BY <1>4, <1>6, <1>7, <1>8, ReadingElsewhere DEF StateInv
<1> QED BY <1>6, <1>9 DEF StateInv

LEMMA FinishState ==
    ASSUME Settled, Raising, LockInv, StateInv, NEW t \in Threads, Finish(t)
    PROVE  StateInv'
<1>1. /\ Exits(t) /\ Top(t).on \in Locks
      /\ Top(t).on \in Sessions => Top(t).session = Top(t).on
      /\ Top(t).key \in Keys /\ Top(t).op = "callback"
  BY FinishExits
<1>2. AllStem
  BY <1>1, ExitsStems
<1>3. CASE UNCHANGED stateVars
  <2>1. Reading'
    BY <1>2, <1>3, ReadingSame DEF StateInv
  <2>2. values' = values /\ completed' = completed
    BY <1>3 DEF stateVars
  <2> QED BY <2>1, <2>2 DEF StateInv, StateTypeOK, NoUpdateIsLost, ContainsKey
<1>4. CASE Top(t).on \in Sessions /\ Top(t).seen < MaxUpdates
           /\ Assign(Top(t).session, Top(t).key, Top(t).seen)
  <2>1. PICK s, k, seen : s = Top(t).on /\ k = Top(t).key /\ seen = Top(t).seen
    OBVIOUS
  <2>2. /\ s \in Sessions /\ k \in Keys /\ seen < MaxUpdates /\ Assign(s, k, seen)
    BY <1>1, <1>4, <2>1
  <2>3. Pending(Top(t))
    BY <1>1, TopFacts DEF StateInv, Reading, Exits, Moves, Settled
  <2>4. ContainsKey(s, k) /\ values[s][k].n = seen
    BY <1>1, <2>1, <2>2, <2>3 DEF Pending
  <2>5. StateTypeOK' /\ NoUpdateIsLost' /\ Touches(s)
    BY <2>2, <2>4, AssignDoes DEF StateInv
  <2>6. \A u \in Threads : \A j \in 1..Len(stack'[u]) : ~Updates(stack'[u][j], s)
    BY <1>1, <2>1, <2>2, OneUpdater
  <2>7. Reading'
    BY <1>2, <2>2, <2>5, <2>6, ReadingElsewhere DEF StateInv
  <2> QED BY <2>5, <2>7 DEF StateInv
<1> QED BY <1>3, <1>4 DEF Finish

LEMMA UpdateState ==
    ASSUME Settled, LockInv, StateInv, NEW t \in Threads, Update(t)
    PROVE  StateInv'
<1>1. PICK s, k, T : s = Top(t).on /\ k = Top(t).key /\ T = Top(t).type
  OBVIOUS
<1>2. PICK seen : seen = IF ContainsKey(s, k) THEN values[s][k].n ELSE 0
  OBVIOUS
<1>3. /\ s \in Sessions /\ k \in Keys /\ T \in Types
      /\ \E a : Enters(t, a) /\ a.key = k /\ a.seen = seen
  BY <1>1, <1>2, UpdateEnters DEF StateInv
<1>4. PICK a : Enters(t, a) /\ a.key = k /\ a.seen = seen
  BY <1>3
<1>5. Available(t, s) /\ Emplace(s, k, T)
  BY <1>1 DEF Update, Take
<1>6. /\ StateTypeOK' /\ NoUpdateIsLost' /\ Touches(s)
      /\ values'[s][k] # Absent /\ values'[s][k].n = seen
  BY <1>2, <1>3, <1>5, EmplaceDoes DEF StateInv
<1>7. \A u \in Threads : \A j \in 1..Len(stack[u]) : ~Updates(stack[u][j], s)
  BY <1>3, <1>5, NoUpdater
<1>8. Reading'
  <2> SUFFICES ASSUME NEW u \in Threads, NEW j \in 1..Len(stack'[u])
               PROVE  Pending(stack[u][j])'
    BY DEF Reading
  <2>1. CASE u = t /\ j = Len(stack[t])
    <3>1. stack'[u][j] = a /\ a.on = s
      BY <1>1, <1>4, <2>1 DEF Enters, TopIs, Hold
    <3> QED BY <1>4, <1>6, <3>1 DEF Pending, ContainsKey
  <2>2. CASE ~(u = t /\ j = Len(stack[t]))
    <3>1. stack'[u][j] = stack[u][j] /\ j \in 1..Len(stack[u])
      BY <1>4, <2>2 DEF Enters, TopIs, Same, Moves, Others
    <3>2. PICK g : g = stack[u][j] /\ ~Updates(g, s) /\ Pending(g)
      BY <1>7, <3>1 DEF StateInv, Reading
    <3>3. stack'[u][j] = g
      BY <3>1, <3>2
    <3> QED BY <1>6, <3>2, <3>3 DEF Pending, Updates, Touches, ContainsKey
  <2> QED BY <2>1, <2>2
<1> QED BY <1>6, <1>8 DEF StateInv

-----------------------------------------------------------------------------
(***************************************************************************)
(* The inductive invariant.                                                *)
(***************************************************************************)
IInv ==
    /\ StackInv /\ LockInv /\ StateInv
    /\ active \in [Sessions -> BOOLEAN]

LEMMA Initially == Init => IInv
<1> SUFFICES ASSUME Init PROVE IInv
  OBVIOUS
<1>1. /\ stack = [t \in Threads |-> <<>>] /\ \A t \in Threads : stack[t] = <<>>
      /\ Len(<<>>) = 0 /\ <<>> \in Seq(Activation)
  BY EmptySeq DEF Init
<1>2. Settled
  <2>1. \A t \in Threads : GoodStack(app, stack[t]) /\ Paused(stack[t])
    BY <1>1 DEF GoodStack, Paused
  <2> QED BY <1>1, <2>1 DEF Init, Settled, Frames, Stacks
<1>3. Raising /\ Quiet
  BY <1>1 DEF Init, Raising, Quiet, Threads
<1>4. Descends
  BY <1>1 DEF Descends, Falling
<1>5. Kids
  BY <1>1 DEF Kids
<1>6. LockInv
  <2>1. \A l \in Locks : owner[l] = NoThread /\ depth[l] = 0
    BY DEF Init
  <2>2. \A t \in Threads, l \in Locks : InsideOf(stack[t], l) = {}
    BY <1>1 DEF InsideOf
  <2>3. owner \in [Locks -> Threads \cup {NoThread}] /\ depth \in [Locks -> Nat]
    BY DEF Init
  <2> QED BY <2>1, <2>2, <2>3 DEF LockInv, Free
<1>7. StateInv
  <2>1. 0 \in 0..MaxUpdates
    BY StateAssumption
  <2>2. StateTypeOK /\ NoUpdateIsLost
    BY <2>1 DEF Init, StateInit, StateTypeOK, NoUpdateIsLost, ContainsKey
  <2>3. Reading
    BY <1>1 DEF Reading
  <2> QED BY <2>2, <2>3 DEF StateInv
<1> QED BY <1>2, <1>3, <1>4, <1>5, <1>6, <1>7 DEF IInv, StackInv, Init

\* Steps that only change stacks, or SessionState as Modify does.
LEMMA SilentStep ==
    ASSUME IInv, NEW t \in Threads, MovesSilently(t), UNCHANGED <<app, started, lockVars>>
    PROVE  StackInv' /\ LockInv' /\ AllStem
BY SilentInside, LocksStay, MovesStackInv, MovesSilentlyStems DEF IInv, MovesSilently

LEMMA StateStays ==
    ASSUME IInv, AllStem, UNCHANGED stateVars
    PROVE  StateInv'
<1>1. values' = values /\ completed' = completed
  BY DEF stateVars
<1> QED BY <1>1, ReadingSame DEF IInv, StateInv, StateTypeOK, NoUpdateIsLost, ContainsKey

LEMMA SilentActions ==
    ASSUME Settled, NEW t \in Threads,
           \/ Acquire(t) \/ Trace(t) \/ Model(t) \/ Answer(t) \/ Unwind(t)
           \/ Release(t) \/ SpawnFails(t) \/ Drain(t) \/ Inline(t) \/ Invoke(t)
           \/ Return(t) \/ Generate(t) \/ UseState(t) \/ Get(t) \/ UpdateMismatch(t)
    PROVE  MovesSilently(t) /\ UNCHANGED <<app, started, lockVars, stateVars>>
<1>1. MovesSilently(t)
  BY AcquireMoves, TraceMoves, ModelMoves, AnswerMoves, UnwindMoves, ReleaseMoves,
     SpawnFailsMoves, DrainMoves, InlineMoves, InvokeMoves, ReturnMoves,
     GenerateMoves, UseStateMoves, GetMoves, UpdateMismatchMoves
<1>2. UNCHANGED <<app, started, lockVars, stateVars>>
  BY DEF Acquire, Trace, Model, Answer, Unwind, Release, SpawnFails, Drain, Inline,
         Invoke, Return, Generate, UseState, Get, UpdateMismatch
<1> QED BY <1>1, <1>2

LEMMA StepKeeps ==
    ASSUME IInv, NEW t \in Threads, Start(t) \/ Step(t)
    PROVE  IInv'
<1>1. active' \in [Sessions -> BOOLEAN]
  BY DEF IInv, Start, Step, Acquire, Trace, Model, Answer, Unwind, Release, Spawn,
         SpawnFails, Drain, Inline, Invoke, Return, Lock, Generate, UseState, Finish,
         Modify, Get, Update, UpdateMismatch
<1>2. CASE \/ Acquire(t) \/ Trace(t) \/ Model(t) \/ Answer(t) \/ Unwind(t)
           \/ Release(t) \/ SpawnFails(t) \/ Drain(t) \/ Inline(t) \/ Invoke(t)
           \/ Return(t) \/ Generate(t) \/ UseState(t) \/ Get(t) \/ UpdateMismatch(t)
  <2>1. MovesSilently(t) /\ UNCHANGED <<app, started, lockVars, stateVars>>
    BY <1>2, SilentActions DEF IInv, StackInv
  <2>2. StackInv' /\ LockInv' /\ StateInv'
    BY <2>1, SilentStep, StateStays
  <2> QED BY <1>1, <2>2 DEF IInv
<1>3. CASE Start(t)
  <2>1. SameInside /\ AllStem
    BY <1>3, StartInside, StartStems DEF IInv, StackInv
  <2>2. UNCHANGED lockVars /\ UNCHANGED stateVars
    BY <1>3 DEF Start
  <2>3. StackInv' /\ LockInv' /\ StateInv'
    BY <1>3, <2>1, <2>2, StartStackInv, LocksStay, StateStays DEF IInv
  <2> QED BY <1>1, <2>3 DEF IInv
<1>4. CASE Spawn(t)
  <2>1. SameInside /\ AllStem
    BY <1>4, SpawnInside, SpawnStems DEF IInv, StackInv
  <2>2. UNCHANGED lockVars /\ UNCHANGED stateVars
    BY <1>4 DEF Spawn
  <2>3. StackInv' /\ LockInv' /\ StateInv'
    BY <1>4, <2>1, <2>2, SpawnStackInv, LocksStay, StateStays DEF IInv
  <2> QED BY <1>1, <2>3 DEF IInv
<1>5. CASE Lock(t)
  <2>1. PICK a : Enters(t, a)
    BY <1>5, LockEnters DEF IInv, StackInv
  <2>2. Top(t).on \in Locks \ Sessions
    BY <1>5, LockEnters DEF IInv, StackInv
  <2>3. UNCHANGED <<app, started>> /\ UNCHANGED stateVars /\ Take(t, Top(t).on)
    BY <1>5 DEF Lock
  <2>4. StackInv'
    BY <2>1, <2>3, MovesStackInv DEF IInv, Enters
  <2>5. LockInv'
    BY <2>1, <2>2, <2>3, LocksTaken DEF IInv, StackInv
  <2>6. StateInv'
    BY <2>1, <2>2, <2>3, EntersStems, StateStays
  <2> QED BY <1>1, <2>4, <2>5, <2>6 DEF IInv
<1>6. CASE Finish(t)
  <2>1. Exits(t) /\ Top(t).on \in Locks
    BY <1>6, FinishExits DEF IInv, StackInv
  <2>2. UNCHANGED <<app, started>> /\ GiveBack(Top(t).on)
    BY <1>6 DEF Finish
  <2>3. StackInv'
    BY <2>1, <2>2, MovesStackInv DEF IInv, Exits
  <2>4. LockInv'
    BY <2>1, <2>2, LocksGivenBack DEF IInv, StackInv
  <2>5. StateInv'
    BY <1>6, FinishState DEF IInv, StackInv
  <2> QED BY <1>1, <2>3, <2>4, <2>5 DEF IInv
<1>7. CASE Modify(t)
  <2>1. MovesSilently(t)
    BY <1>7, ModifyMoves DEF IInv, StackInv
  <2>2. UNCHANGED <<app, started, lockVars>>
    BY <1>7 DEF Modify
  <2>3. StackInv' /\ LockInv' /\ StateInv'
    BY <1>7, <2>1, <2>2, SilentStep, ModifyState DEF IInv, StackInv
  <2> QED BY <1>1, <2>3 DEF IInv
<1>8. CASE Update(t)
  <2>1. Top(t).on \in Sessions /\ \E a : Enters(t, a)
    BY <1>8, UpdateEnters DEF IInv, StackInv, StateInv
  <2>2. PICK a : Enters(t, a)
    BY <2>1
  <2>3. UNCHANGED <<app, started>> /\ Take(t, Top(t).on)
    BY <1>8 DEF Update
  <2>4. StackInv'
    BY <2>2, <2>3, MovesStackInv DEF IInv, Enters
  <2>5. LockInv'
    BY <2>1, <2>2, <2>3, LocksTaken DEF IInv, StackInv, Locks
  <2>6. StateInv'
    BY <1>8, UpdateState DEF IInv, StackInv
  <2> QED BY <1>1, <2>4, <2>5, <2>6 DEF IInv
<1> QED BY <1>2, <1>3, <1>4, <1>5, <1>6, <1>7, <1>8 DEF Step

LEMMA StutterKeeps ==
    ASSUME IInv, UNCHANGED vars
    PROVE  IInv'
<1>1. /\ app' = app /\ stack' = stack /\ raised' = raised /\ owner' = owner
      /\ depth' = depth /\ active' = active /\ started' = started
      /\ values' = values /\ completed' = completed
  BY DEF vars
<1>2. StackInv'
  BY <1>1 DEF IInv, StackInv, Settled, Frames, Stacks, Raising, Descends, Kids, Quiet,
              Top, Height
<1>3. LockInv'
  BY <1>1 DEF IInv, LockInv, Free, HeldBy
<1>4. StateInv'
  BY <1>1 DEF IInv, StateInv, StateTypeOK, NoUpdateIsLost, Reading, Pending, ContainsKey
<1> QED BY <1>1, <1>2, <1>3, <1>4 DEF IInv

\* Whatever the application: stacks, locks and session states agree.
THEOREM Consistent == Spec => []IInv
<1>1. IInv /\ [Next]_vars => IInv'
  BY StepKeeps, StutterKeeps DEF Next
<1> QED BY Initially, <1>1, PTL DEF Spec

LEMMA InsideIs ==
    ASSUME NEW t, NEW l
    PROVE  Inside(t, l) = InsideOf(stack[t], l)
BY DEF Inside, InsideOf, Hold, Height

\* Every variable has its type, and a lock that nobody holds is not deep.
THEOREM CallbackTypes == Spec => []TypeOK
<1>1. IInv => TypeOK
  <2> SUFFICES ASSUME IInv PROVE TypeOK
    OBVIOUS
  <2>1. \A l \in Locks : depth[l] = 0 <=> owner[l] = NoThread
    BY CallbacksAssumption DEF IInv, LockInv, Free, HeldBy
  <2> QED BY <2>1 DEF TypeOK, IInv, StackInv, Settled, Frames, Stacks, LockInv,
                      StateInv, Quiet
<1> QED BY <1>1, Consistent, PTL

\* The callback of one object is on one thread at a time; that of an object
\* with a plain mutex is never inside itself.
THEOREM Serialized == Spec => []CallbacksAreSerialized
<1>1. IInv => CallbacksAreSerialized
  <2> SUFFICES ASSUME IInv, NEW l \in Locks
               PROVE  /\ \A t, u \in Threads :
                            t # u => Inside(t, l) = {} \/ Inside(u, l) = {}
                      /\ l \notin Tools =>
                            \A t \in Threads : \A i, j \in Inside(t, l) : i = j
    BY DEF CallbacksAreSerialized
  <2>1. CASE Free(l)
    BY <2>1, InsideIs DEF Free
  <2>2. ASSUME NEW v \in Threads, HeldBy(v, l)
        PROVE  /\ \A t, u \in Threads :
                     t # u => Inside(t, l) = {} \/ Inside(u, l) = {}
               /\ l \notin Tools =>
                     \A t \in Threads : \A i, j \in Inside(t, l) : i = j
    <3>1. \A u \in Threads : u # v => Inside(u, l) = {}
      BY <2>2, InsideIs DEF HeldBy
    <3>2. ASSUME l \notin Tools
          PROVE  \A i, j \in Inside(v, l) : i = j
      <4>1. PICK S : S = Inside(v, l)
        OBVIOUS
      <4>2. IsFiniteSet(S) /\ Cardinality(S) = 1
        BY <2>2, <3>2, <4>1, InsideIs, StacksFinite
           DEF HeldBy, IInv, StackInv, Settled, Frames
      <4> QED BY <4>1, <4>2, Once
    <3> QED BY <3>1, <3>2
  <2> QED BY <2>1, <2>2 DEF IInv, LockInv
<1> QED BY <1>1, Consistent, PTL

\* An entry has counted every updater that returned since it was created or set.
THEOREM NothingLost == Spec => []NoUpdateIsLost
<1>1. IInv => NoUpdateIsLost
  BY DEF IInv, StateInv
<1> QED BY <1>1, Consistent, PTL

-----------------------------------------------------------------------------
(***************************************************************************)
(* What a single step does to the entries.                                 *)
(***************************************************************************)
LEMMA SameEntries ==
    ASSUME UNCHANGED stateVars, NEW s \in Sessions, NEW k \in Keys
    PROVE  OnlyCompleted(s, k)
BY DEF stateVars, OnlyCompleted

LEMMA EmplaceOnly ==
    ASSUME StateTypeOK, NEW s \in Sessions, NEW k \in Keys, NEW T \in Types,
           Emplace(s, k, T), NEW m \in Keys
    PROVE  \/ values'[s][m] = values[s][m]
           \/ ~ContainsKey(s, m) /\ values'[s][m].n = 0
<1>1. CASE ContainsKey(s, k)
  BY <1>1 DEF Emplace, stateVars
<1>2. CASE ~ContainsKey(s, k)
  <2>1. PICK entry : entry = [type |-> T, n |-> 0]
    OBVIOUS
  <2>2. entry.n = 0 /\ values' = [values EXCEPT ![s][k] = entry]
    BY <1>2, <2>1 DEF Emplace, Set, Write
  <2>3. m = k => values'[s][m] = entry
    BY <2>2 DEF StateTypeOK
  <2>4. m # k => values'[s][m] = values[s][m]
    BY <2>2 DEF StateTypeOK
  <2> QED BY <1>2, <2>2, <2>3, <2>4
<1> QED BY <1>1, <1>2

LEMMA UpdateOnly ==
    ASSUME Settled, StateInv, NEW t \in Threads, Update(t),
           NEW x \in Sessions, NEW m \in Keys
    PROVE  OnlyCompleted(x, m)
<1>1. PICK s, k, T : s = Top(t).on /\ k = Top(t).key /\ T = Top(t).type
  OBVIOUS
<1>2. s \in Sessions /\ k \in Keys /\ T \in Types
  BY <1>1, UpdateEnters DEF StateInv
<1>3. Emplace(s, k, T)
  BY <1>1 DEF Update
<1>4. CASE x = s
  BY <1>2, <1>3, <1>4, EmplaceOnly DEF StateInv, OnlyCompleted
<1>5. CASE x # s
  BY <1>2, <1>3, <1>5, EmplaceDoes DEF StateInv, Touches, OnlyCompleted
<1> QED BY <1>4, <1>5

\* A step of t that ends an access or a callback without an exception.
LEMMA Leaves ==
    ASSUME Settled, NEW t \in Threads, stack[t] # <<>>, Leave(t, FALSE)
    PROVE  Height(t)' < Height(t) /\ ~raised'[t]
<1>1. TopIsGone(stack[t], stack'[t])
  BY LeaveMoves DEF Settled
<1>2. ~raised'[t]
  BY DEF Leave, Settled
<1>3. Len(stack'[t]) < Len(stack[t])
  BY <1>1 DEF TopIsGone
<1> QED BY <1>2, <1>3 DEF Height

LEMMA ModifyOnly ==
    ASSUME Settled, StateInv, NEW t \in Threads, Modify(t),
           NEW x \in Sessions, NEW m \in Keys
    PROVE  OnlyCompleted(x, m)
<1>1. PICK use \in {"set", "erase", "clear"} : At(t, use)
  BY DEF Modify
<1>2. Good(app, Top(t)) /\ Top(t).op = "access" /\ Top(t) \in Activation /\ stack[t] # <<>>
  BY <1>1, AtFacts, TopFacts, Ops DEF Settled, Uses
<1>3. PICK s, k, T : s = Top(t).on /\ k = Top(t).key /\ T = Top(t).type
  OBVIOUS
<1>4. s \in Sessions /\ k \in Keys /\ T \in Types
  BY <1>2, <1>3 DEF Good, OfAccess, Activation
<1>5. Set(s, k, T) \/ Erase(s, k) \/ Clear(s)
  BY <1>3 DEF Modify
<1>6. Touches(s)
  BY <1>4, <1>5, SetDoes, WriteDoes, ClearDoes DEF StateInv, Erase
<1>7. Height(t)' < Height(t) /\ ~raised'[t]
  BY <1>2, Leaves DEF Modify
<1>8. CASE x = s
  BY <1>1, <1>2, <1>3, <1>7, <1>8 DEF OnlyCompleted
<1>9. CASE x # s
  BY <1>6, <1>9 DEF Touches, OnlyCompleted
<1> QED BY <1>8, <1>9

LEMMA FinishOnly ==
    ASSUME Settled, Raising, StateInv, NEW t \in Threads, Finish(t),
           NEW x \in Sessions, NEW m \in Keys
    PROVE  OnlyCompleted(x, m)
<1>1. /\ Exits(t) /\ Top(t).on \in Locks
      /\ Top(t).on \in Sessions => Top(t).session = Top(t).on
      /\ Top(t).key \in Keys /\ Top(t).op = "callback" /\ stack[t] # <<>>
  BY FinishExits DEF Finish
<1>2. CASE UNCHANGED stateVars
  BY <1>2, SameEntries
<1>3. CASE /\ Top(t).on \in Sessions /\ Top(t).seen < MaxUpdates
           /\ Assign(Top(t).session, Top(t).key, Top(t).seen)
           /\ Leave(t, FALSE)
  <2>1. PICK s, k, seen : s = Top(t).on /\ k = Top(t).key /\ seen = Top(t).seen
    OBVIOUS
  <2>2. s \in Sessions /\ k \in Keys /\ seen < MaxUpdates /\ Assign(s, k, seen)
    BY <1>1, <1>3, <2>1
  <2>3. Pending(Top(t))
    BY <1>1, TopFacts DEF StateInv, Reading, Settled
  <2>4. ContainsKey(s, k) /\ values[s][k].n = seen
    BY <1>1, <2>1, <2>2, <2>3 DEF Pending
  <2>5. /\ Touches(s) /\ values'[s][k] = [values[s][k] EXCEPT !.n = @ + 1]
        /\ \A n \in Keys : n # k => values'[s][n] = values[s][n]
    BY <2>2, <2>4, AssignDoes DEF StateInv
  <2>6. Height(t)' < Height(t) /\ ~raised'[t]
    BY <1>1, <1>3, Leaves
  <2>7. CASE x = s /\ m = k
    BY <1>1, <2>1, <2>4, <2>5, <2>6, <2>7 DEF OnlyCompleted
  <2>8. CASE x = s /\ m # k
    BY <2>5, <2>8 DEF OnlyCompleted
  <2>9. CASE x # s
    BY <2>5, <2>9 DEF Touches, OnlyCompleted
  <2> QED BY <2>7, <2>8, <2>9
<1>4. UNCHANGED stateVars \/ (/\ Top(t).on \in Sessions /\ Top(t).seen < MaxUpdates
                              /\ Assign(Top(t).session, Top(t).key, Top(t).seen)
                              /\ Leave(t, FALSE))
  <2>1. PICK throws \in BOOLEAN :
          /\ Leave(t, throws /\ Top(t).on \notin Tools \cup {Tracer})
          /\ IF Top(t).on \in Sessions /\ ~throws
             THEN /\ Top(t).seen < MaxUpdates
                  /\ Assign(Top(t).session, Top(t).key, Top(t).seen)
             ELSE UNCHANGED stateVars
    BY DEF Finish
  <2>2. CASE ~throws
    <3>1. (throws /\ Top(t).on \notin Tools \cup {Tracer}) = FALSE
      BY <2>2
    <3>2. Leave(t, FALSE)
      BY <2>1, <3>1
    <3> QED BY <2>1, <2>2, <3>2
  <2> QED BY <2>1, <2>2
<1> QED BY <1>2, <1>3, <1>4

\* No step but the return of an updater counts one, and none touches the entry
\* of a failing update.
THEOREM FailuresLeaveNoTrace == Spec => OnlyCompletedUpdatesCount
<1>1. ASSUME IInv, [Next]_vars, NEW s \in Sessions, NEW k \in Keys
      PROVE  OnlyCompleted(s, k)
  <2>1. CASE UNCHANGED vars
    BY <2>1, SameEntries DEF vars, stateVars
  <2>2. ASSUME NEW t \in Threads, Start(t) \/ Step(t)
        PROVE  OnlyCompleted(s, k)
    <3>1. CASE \/ Acquire(t) \/ Trace(t) \/ Model(t) \/ Answer(t) \/ Unwind(t)
               \/ Release(t) \/ SpawnFails(t) \/ Drain(t) \/ Inline(t) \/ Invoke(t)
               \/ Return(t) \/ Generate(t) \/ UseState(t) \/ Get(t) \/ UpdateMismatch(t)
      <4>1. UNCHANGED stateVars
        BY <1>1, <3>1, SilentActions DEF IInv, StackInv
      <4> QED BY <4>1, SameEntries
    <3>2. CASE Start(t) \/ Spawn(t) \/ Lock(t)
      <4>1. UNCHANGED stateVars
        BY <3>2 DEF Start, Spawn, Lock
      <4> QED BY <4>1, SameEntries
    <3>3. CASE Update(t)
      BY <1>1, <3>3, UpdateOnly DEF IInv, StackInv
    <3>4. CASE Modify(t)
      BY <1>1, <3>4, ModifyOnly DEF IInv, StackInv
    <3>5. CASE Finish(t)
      BY <1>1, <3>5, FinishOnly DEF IInv, StackInv
    <3> QED BY <2>2, <3>1, <3>2, <3>3, <3>4, <3>5 DEF Step
  <2> QED BY <1>1, <2>1, <2>2 DEF Next
<1>2. IInv /\ [Next]_vars => \A s \in Sessions, k \in Keys : OnlyCompleted(s, k)
  BY <1>1
<1> QED BY <1>2, Consistent, PTL DEF Spec, OnlyCompletedUpdatesCount

-----------------------------------------------------------------------------
(***************************************************************************)
(* Who waits for whom.                                                     *)
(***************************************************************************)
LEMMA WantsIs ==
    ASSUME NEW l
    PROVE  Wants(l) = Wanted(app, l)
<1>1. \A c : TakenBy(c) = Taken(app, c)
  BY DEF TakenBy, Taken, Offered
<1> QED BY <1>1 DEF Wants, Wanted

LEMMA RuledBy ==
    /\ Ordered => OrderedBy(app) /\ Ruled(app)
    /\ Reentrant => Ruled(app)
BY WantsIs DEF Ordered, Reentrant, OrderedBy, Ruled

\* t waits for the lock of its running activation.
Waits(t) ==
    /\ stack[t] # <<>> /\ Idle(Top(t))
    /\ Top(t).on \in Locks /\ ~Available(t, Top(t).on)

\* t waits for a future.
Reads(t) ==
    /\ stack[t] # <<>> /\ Idle(Top(t)) /\ Top(t).op = "generate"
    /\ \E w \in Top(t).kids : stack[w] # <<>>

LEMMA BlockedIs ==
    ASSUME Settled, NEW t \in Threads, Blocked(t)
    PROVE  Waits(t) \/ Reads(t)
<1>1. stack[t] # <<>> /\ Top(t).on \in Locks
  BY TopFacts DEF Blocked, Settled
<1>2. ASSUME At(t, "lock"), ~Available(t, Top(t).on)
      PROVE  Waits(t)
  <2>1. Head(Top(t).todo) = "lock"
    BY <1>2 DEF At
  <2>2. Idle(Top(t))
    BY <2>1 DEF Idle, Hold
  <2> QED BY <1>1, <1>2, <2>2 DEF Waits
<1>3. ASSUME NEW use \in Uses, At(t, use), ~Available(t, Top(t).on)
      PROVE  Waits(t)
  <2>1. Top(t).op = "access"
    BY <1>3, AtFacts, Ops DEF Settled
  <2>2. Idle(Top(t))
    BY <2>1 DEF Idle, Hold
  <2> QED BY <1>1, <1>3, <2>2 DEF Waits
<1>4. ASSUME At(t, "drain"), NEW w \in Top(t).kids, stack[w] # <<>>
      PROVE  Reads(t)
  <2>1. Top(t).op = "generate"
    BY <1>4, AtFacts, Ops DEF Settled, GenSteps
  <2>2. Idle(Top(t))
    BY <2>1 DEF Idle, Hold
  <2> QED BY <1>1, <1>4, <2>1, <2>2 DEF Reads
<1> QED BY <1>2, <1>3, <1>4 DEF Blocked

\* A lock that is waited for is held, and its owner is blocked, too.
LEMMA OwnerOf ==
    ASSUME Settled, LockInv, NEW t \in Threads, NEW l \in Locks, ~Available(t, l)
    PROVE  \E u \in Threads :
              /\ u = t => l \notin Tools
              /\ \E i \in 1..Len(stack[u]) : Hold(stack[u][i], l)
<1>1. owner[l] # NoThread
  BY DEF Available
<1>2. PICK u \in Threads : HeldBy(u, l)
  BY <1>1 DEF LockInv, Free
<1>3. u = t => l \notin Tools
  BY <1>2 DEF HeldBy, Available, Recursive
<1>4. PICK S : S = InsideOf(stack[u], l)
  OBVIOUS
<1>5. IsFiniteSet(S) /\ Cardinality(S) > 0
  BY <1>2, <1>4, StacksFinite DEF HeldBy, Settled, Frames
<1>6. S # {}
  BY <1>5, FS_EmptySet
<1>7. \E i \in 1..Len(stack[u]) : Hold(stack[u][i], l)
  BY <1>4, <1>6 DEF InsideOf
<1> QED BY <1>3, <1>7

\* What it may still take is lower.
LEMMA OwnerIsBelow ==
    ASSUME Settled, Descends, Ruled(app), NEW u \in Threads, NEW l \in Locks,
           NEW i \in 1..Len(stack[u]), Hold(stack[u][i], l), Idle(Top(u))
    PROVE  stack[u] # <<>> /\ \A x \in Reach(app, Top(u)) : Lower(app, x, l)
<1>1. stack[u] # <<>>
  <2>1. stack[u] \in Seq(Activation)
    BY DEF Settled, Frames, Stacks
  <2> QED BY <2>1, EmptySeq
<1>2. /\ Top(u) = stack[u][Len(stack[u])] /\ Len(stack[u]) \in 1..Len(stack[u])
      /\ Len(stack[u]) \in Nat
  BY <1>1, TopFacts DEF Settled
<1>3. i # Len(stack[u])
  BY <1>2 DEF Idle
<1>4. i < Len(stack[u])
  BY <1>2, <1>3
<1>5. Above(app, stack[u][i], stack[u][Len(stack[u])])
  BY <1>2, <1>4 DEF Descends, Falling
<1>6. \A x \in Reach(app, Top(u)) : Lower(app, x, l)
  BY <1>2, <1>5 DEF Above
<1> QED BY <1>1, <1>6

Everyone == \A t \in Threads : stack[t] = <<>> \/ Waits(t) \/ Reads(t)
Rank(x) == app.rank[x]

\* M is an initial part of the ranks, and t may only take locks with these.
Down(M) == M \subseteq Nat /\ \A a \in M : \A b \in Nat : b <= a => b \in M
Under(n) == {k \in Nat : k < n}
Beneath(t, M) == stack[t] # <<>> /\ \A x \in Reach(app, Top(t)) : Rank(x) \in M

LEMMA DownIs == Down(Nat) /\ \A n \in Nat : Down(Under(n))
BY DEF Down, Under

LEMMA KidIsBeneath ==
    ASSUME Settled, Kids, Ruled(app), NEW M, Down(M), NEW t \in Threads, Beneath(t, M),
           Top(t).op = "generate", NEW w \in Top(t).kids, stack[w] # <<>>
    PROVE  /\ w \in Threads /\ Beneath(w, M)
           /\ Top(w).op = "generate" => Top(w).level > Top(t).level
<1>1. /\ Good(app, Top(t)) /\ Top(t) = stack[t][Len(stack[t])]
      /\ Len(stack[t]) \in 1..Len(stack[t]) /\ app \in Applications
  BY TopFacts DEF Settled, Beneath, Frames
<1>2. w \in Workers /\ w \in Threads
  BY <1>1, ReachFacts DEF Threads
<1>3. /\ Good(app, Top(w)) /\ Top(w) = stack[w][Len(stack[w])]
      /\ Len(stack[w]) \in 1..Len(stack[w])
  BY <1>2, TopFacts DEF Settled
<1>4. Kid(app, Top(t), Top(w))
  BY <1>1, <1>3 DEF Kids
<1>5. Taken(app, Top(t).on) \subseteq Reach(app, Top(t))
  BY DEF Reach
<1>6. Beneath(w, M)
  <2> SUFFICES ASSUME NEW x \in Reach(app, Top(w)) PROVE Rank(x) \in M
    BY DEF Beneath
  <2>1. PICK y \in Taken(app, Top(t).on) : Rank(x) <= Rank(y)
    BY <1>4 DEF Kid, NoHigher, Rank
  <2>2. Rank(y) \in M
    BY <1>5, <2>1 DEF Beneath
  <2>3. x \in Locks /\ y \in Locks
    BY <1>1, <1>3, <1>5, <2>1, ReachFacts
  <2>4. Rank(x) \in Nat /\ Rank(y) \in Nat
    BY <1>1, <2>3, AppFacts DEF Rank
  <2> QED BY <2>1, <2>2, <2>4 DEF Down
<1> QED BY <1>2, <1>4, <1>6 DEF Kid

\* Following the futures from such a thread ends at one that waits for a lock.
LEMMA SomeoneWaits ==
    ASSUME Settled, Kids, Ruled(app), Everyone, NEW M, Down(M),
           NEW t \in Threads, Beneath(t, M)
    PROVE  \E v \in Threads : Waits(v) /\ Rank(Top(v).on) \in M
<1> SUFFICES ASSUME \A v \in Threads : ~(Waits(v) /\ Rank(Top(v).on) \in M)
             PROVE  FALSE
  OBVIOUS
<1>1. ASSUME NEW v \in Threads, Beneath(v, M)
      PROVE  Reads(v) /\ Top(v).level \in 1..MaxLevel
  <2>1. Good(app, Top(v)) /\ app \in Applications
    BY <1>1, TopFacts DEF Beneath, Settled, Frames
  <2>2. Rank(Top(v).on) \in M
    BY <1>1, <2>1, ReachFacts DEF Beneath
  <2> QED BY <1>1, <2>1, <2>2, ReachFacts DEF Everyone, Beneath
<1>2. PICK S : S = {n \in Nat : \E v \in Threads : Beneath(v, M) /\ n = MaxLevel - Top(v).level}
  OBVIOUS
<1>3. ASSUME NEW v \in Threads, Beneath(v, M)
      PROVE  MaxLevel - Top(v).level \in S
  BY <1>1, <1>2, <1>3, CallbacksAssumption
<1>4. S \in SUBSET Nat /\ S # {}
  BY <1>2, <1>3
<1>5. PICK n \in S : \A k \in S : n <= k
  BY <1>4, Least
<1>6. PICK v \in Threads : Beneath(v, M) /\ n = MaxLevel - Top(v).level
  BY <1>2, <1>5
<1>7. Reads(v) /\ Top(v).level \in 1..MaxLevel
  BY <1>1, <1>6
<1>8. PICK w \in Top(v).kids : stack[w] # <<>>
  BY <1>7 DEF Reads
<1>9. /\ w \in Threads /\ Beneath(w, M)
      /\ Top(w).op = "generate" => Top(w).level > Top(v).level
  BY <1>6, <1>7, <1>8, KidIsBeneath DEF Reads
<1>10. Top(w).level > Top(v).level /\ Top(w).level \in 1..MaxLevel
  BY <1>1, <1>9 DEF Reads
<1>11. MaxLevel - Top(w).level < n
  BY <1>6, <1>7, <1>10, CallbacksAssumption
<1>12. MaxLevel - Top(w).level >= n
  BY <1>3, <1>5, <1>9
<1> QED BY <1>7, <1>10, <1>11, <1>12, <1>6, CallbacksAssumption

\* With an order of the locks, the owner of the lowest lock that is waited for
\* can only wait for a lower one.
LEMMA OrderedGoesOn ==
    ASSUME Settled, LockInv, Descends, Kids, Ordered, Everyone,
           NEW t \in Threads, stack[t] # <<>>
    PROVE  FALSE
<1>1. OrderedBy(app) /\ Ruled(app) /\ app \in Applications
  BY RuledBy DEF Settled, Frames
<1>2. PICK S : S = {n \in Nat : \E v \in Threads : Waits(v) /\ n = Rank(Top(v).on)}
  OBVIOUS
<1>3. ASSUME NEW v \in Threads, Waits(v)
      PROVE  Rank(Top(v).on) \in S
  <2>1. Rank(Top(v).on) \in Nat
    BY <1>1, <1>3, AppFacts DEF Waits, Rank
  <2> QED BY <1>2, <1>3, <2>1
<1>4. ASSUME NEW v \in Threads, Waits(v)
      PROVE  \E u \in Threads : Beneath(u, Under(Rank(Top(v).on)))
  <2>1. PICK l : l = Top(v).on
    OBVIOUS
  <2>2. l \in Locks /\ ~Available(v, l)
    BY <1>4, <2>1 DEF Waits
  <2>3. PICK u \in Threads : \E i \in 1..Len(stack[u]) : Hold(stack[u][i], l)
    BY <2>2, OwnerOf
  <2>4. PICK i \in 1..Len(stack[u]) : Hold(stack[u][i], l)
    BY <2>3
  <2>5. stack[u] # <<>>
    <3>1. stack[u] \in Seq(Activation)
      BY DEF Settled, Frames, Stacks
    <3> QED BY <3>1, <2>4, EmptySeq
  <2>6. Idle(Top(u))
    BY <2>5 DEF Everyone, Waits, Reads
  <2>7. \A x \in Reach(app, Top(u)) : Lower(app, x, l)
    BY <1>1, <2>2, <2>4, <2>6, OwnerIsBelow
  <2>8. ASSUME NEW x \in Reach(app, Top(u)) PROVE Rank(x) \in Under(Rank(l))
    <3>1. Good(app, Top(u))
      BY <2>5, TopFacts DEF Settled
    <3>2. Rank(x) \in Nat
      BY <1>1, <3>1, ReachFacts, AppFacts DEF Rank
    <3>3. Rank(x) < Rank(l)
      BY <1>1, <2>7 DEF Lower, Rank
    <3> QED BY <3>2, <3>3 DEF Under
  <2> QED BY <2>1, <2>5, <2>8 DEF Beneath
<1>5. \E v \in Threads : Waits(v)
  <2>1. Good(app, Top(t))
    BY TopFacts DEF Settled
  <2>2. Beneath(t, Nat)
    BY <1>1, <2>1, ReachFacts, AppFacts DEF Beneath, Rank
  <2> QED BY <1>1, <2>2, DownIs, SomeoneWaits
<1>6. PICK n \in S : \A k \in S : n <= k
  <2>1. S \in SUBSET Nat /\ S # {}
    BY <1>2, <1>3, <1>5
  <2> QED BY <2>1, Least
<1>7. PICK v \in Threads : Waits(v) /\ n = Rank(Top(v).on)
  BY <1>2, <1>6
<1>8. PICK u \in Threads : Beneath(u, Under(n))
  BY <1>4, <1>7
<1>9. PICK x \in Threads : Waits(x) /\ Rank(Top(x).on) \in Under(n)
  <2>1. Down(Under(n))
    BY <1>2, <1>6, DownIs
  <2> QED BY <1>1, <1>8, <2>1, SomeoneWaits
<1>10. Rank(Top(x).on) \in S /\ n \in Nat /\ Rank(Top(x).on) \in Nat
  BY <1>2, <1>3, <1>9
<1>11. n <= Rank(Top(x).on) /\ Rank(Top(x).on) < n
  BY <1>6, <1>9, <1>10 DEF Under
<1> QED BY <1>10, <1>11

\* On a single thread there are no futures, and it only waits for its own locks.
LEMMA ReentrantGoesOn ==
    ASSUME Settled, LockInv, Descends, Quiet, Reentrant, Everyone,
           NEW t \in Threads, stack[t] # <<>>
    PROVE  FALSE
<1>1. /\ Ruled(app) /\ app \in Applications /\ app.parallel = {}
      /\ \A u, v \in Callers : app.starts[u] # {} /\ app.starts[v] # {} => u = v
  BY RuledBy DEF Settled, Frames, Reentrant, OneThread
<1>2. \A u \in Threads : stack[u] # <<>> => u = t
  BY <1>1 DEF Quiet, Threads
<1>3. Good(app, Top(t))
  BY TopFacts DEF Settled
<1>4. Top(t).kids = {}
  BY <1>1, <1>3 DEF Good, OfGenerate
<1>5. Waits(t)
  BY <1>4 DEF Everyone, Reads
<1>6. PICK l : l = Top(t).on
  OBVIOUS
<1>7. l \in Locks /\ ~Available(t, l) /\ Idle(Top(t))
  BY <1>5, <1>6 DEF Waits
<1>8. PICK u \in Threads : /\ u = t => l \notin Tools
                           /\ \E i \in 1..Len(stack[u]) : Hold(stack[u][i], l)
  BY <1>7, OwnerOf
<1>9. PICK i \in 1..Len(stack[u]) : Hold(stack[u][i], l)
  BY <1>8
<1>10. u = t
  <2>1. stack[u] \in Seq(Activation)
    BY DEF Settled, Frames, Stacks
  <2>2. stack[u] # <<>>
    BY <2>1, <1>9, EmptySeq
  <2> QED BY <1>2, <2>2
<1>11. l \notin Tools /\ \A x \in Reach(app, Top(t)) : Lower(app, x, l)
  BY <1>1, <1>7, <1>8, <1>9, <1>10, OwnerIsBelow
<1>12. l \in Reach(app, Top(t))
  BY <1>1, <1>3, <1>6, ReachFacts
<1>13. Rank(l) < Rank(l)
  BY <1>11, <1>12 DEF Lower, Rank
<1>14. Rank(l) \in Nat
  BY <1>1, <1>7, AppFacts DEF Rank
<1> QED BY <1>13, <1>14

\* Callbacks that keep an order of their locks, or a single thread with cycles
\* of Tools only, never wait for one another: for any number of threads, clients,
\* Tools and sessions, and however deep generations are nested.
THEOREM NobodyIsStuck == Spec => []StuckOnlyWithoutRule
<1>1. ASSUME IInv, Stuck, Ordered \/ Reentrant
      PROVE  FALSE
  <2>1. PICK t \in Threads : stack[t] # <<>>
    BY <1>1 DEF Stuck
  <2>2. Settled /\ LockInv /\ Descends /\ Kids /\ Quiet
    BY <1>1 DEF IInv, StackInv
  <2>3. Everyone
    BY <1>1, <2>2, BlockedIs DEF Stuck, Everyone
  <2> QED BY <1>1, <2>1, <2>2, <2>3, OrderedGoesOn, ReentrantGoesOn
<1>2. IInv => StuckOnlyWithoutRule
  BY <1>1 DEF StuckOnlyWithoutRule
<1> QED BY <1>2, Consistent, PTL
=============================================================================
