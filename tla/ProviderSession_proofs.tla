----------------------- MODULE ProviderSession_proofs -----------------------
(***************************************************************************)
(* A session that clients of four providers serve in turn, for any inputs, *)
(* responses and tool outputs: who wrote each message of the history, and  *)
(* what the requests rendered from it have in common.                      *)
(***************************************************************************)
EXTENDS ProviderSession, Induction

(***************************************************************************)
(* The items of some kinds.                                                *)
(***************************************************************************)
LEMMA OfKindIs ==
    ASSUME NEW S, NEW items \in Seq(S), NEW kinds
    PROVE  OfKind(items, kinds) \in Seq({i \in S : i.kind \in kinds})
<1>1. PICK n, R : n \in Nat /\ n = Len(items) /\ R = {i \in S : i.kind \in kinds}
  BY LenProperties
<1>2. PICK s : s = Each(items, LAMBDA i : IF i.kind \in kinds THEN <<i>> ELSE <<>>)
  OBVIOUS
<1>3. s = [k \in 1..n |-> IF items[k].kind \in kinds THEN <<items[k]>> ELSE <<>>]
  <2>1. DOMAIN items = 1..n
    BY <1>1, LenProperties
  <2> QED BY <1>2, <2>1 DEF Each
<1>4. ASSUME NEW k \in 1..n PROVE s[k] \in Seq(R)
  <2>1. items[k] \in S
    BY <1>1, ElementOfSeq
  <2>2. CASE items[k].kind \in kinds
    <3>1. items[k] \in R
      BY <1>1, <2>1, <2>2
    <3>2. s[k] = <<items[k]>>
      BY <1>3, <2>2
    <3> QED BY <3>1, <3>2
  <2>3. CASE ~(items[k].kind \in kinds)
    BY <1>3, <2>3, EmptySeq
  <2> QED BY <2>2, <2>3
<1>5. s \in Seq(Seq(R))
  <2>1. DOMAIN s = 1..n /\ s = [k \in 1..n |-> s[k]]
    BY <1>3
  <2>2. n \in Nat
    BY <1>1
  <2> QED BY <1>4, <2>1, <2>2, MakeSeq
<1>6. OfKind(items, kinds) = FlattenSeq(s)
  BY <1>2 DEF OfKind
<1> QED BY <1>1, <1>5, <1>6, FlattenType

-----------------------------------------------------------------------------
(***************************************************************************)
(* What the parsers make of a response.                                    *)
(***************************************************************************)
Owns(p, i) == /\ i.provider = p /\ i.kind \in Kinds /\ ~IsMade(i.id)
              /\ i.kind = "legacy" => i.id = NoId
Own(p) == {i \in Items : Owns(p, i)}

\* The items of a response that p's parser accepts.
Sound(p) == {i \in Own(p) :
                /\ i.kind = "call" /\ p # "gemini" => i.id # NoId
                /\ i.kind = "audio" /\ p = "openai_compatible" => i.id # NoId}

Called(p, items) ==
    IF p = "openai_compatible" THEN CompatibleCalled(items)
                               ELSE OfKind(items, {"call"})

IdFits(c, size) ==
    IF c.metadata.id # NoId THEN c.id = c.metadata.id
                            ELSE IsMade(c.id) /\ c.id[3] = size

\* calls are those of the items, in their order.
CallsFit(p, calls, items, size) ==
    /\ calls \in Seq(ToolCalls)
    /\ Len(calls) = Len(Called(p, items))
    /\ \A k \in 1..Len(calls) : /\ calls[k].metadata = Called(p, items)[k]
                                /\ IdFits(calls[k], size)

ContentsFit(p, contents) ==
    /\ contents \in Seq(Parts)
    /\ \A k \in 1..Len(contents) :
          contents[k].type = "extension" => contents[k].item \in Own(p)

FromProvider(p, m, size) ==
    /\ m \in Messages /\ m.role = "assistant"
    /\ m.native.provider = p /\ m.native.items \in Seq(Sound(p))
    /\ m.native.listed \/ m.native.items = <<>>
    /\ ContentsFit(p, m.contents)
    /\ CallsFit(p, m.calls, m.native.items, size)

LEMMA MadeIds ==
    ASSUME NEW r \in Nat, NEW size \in Nat, NEW k \in Nat
    PROVE  /\ <<"gemini_call", r, size, k>> \in CallIds
           /\ IsMade(<<"gemini_call", r, size, k>>)
           /\ <<"gemini_call", r, size, k>>[3] = size
           /\ <<"legacy_function_call", r, size>> \in CallIds
           /\ IsMade(<<"legacy_function_call", r, size>>)
           /\ <<"legacy_function_call", r, size>>[3] = size
BY DEF CallIds, IsMade, NoId

\* In a response its provider's parser accepts, the items are sound.
LEMMA SoundItems ==
    ASSUME NEW p \in Providers, NEW reply \in Replies[p], Parses(p, reply)
    PROVE  /\ reply.items \in Seq(Sound(p))
           /\ reply.listed \in BOOLEAN
           /\ reply.listed \/ reply.items = <<>>
           /\ reply.role \in NativeRoles
<1>1. reply \in AllReplies
  BY RepliesAssumption
<1>2. /\ reply.items \in Seq(Items) /\ reply.listed \in BOOLEAN
      /\ reply.role \in NativeRoles
  BY <1>1 DEF AllReplies
<1>3. PICK n, items : /\ items = reply.items /\ n \in Nat /\ n = Len(items)
                         /\ DOMAIN items = 1..n
  BY <1>2, LenProperties
<1>4. ASSUME NEW k \in 1..n PROVE items[k] \in Own(p)
  <2>1. items[k] \in Items
    BY <1>2, <1>3, ElementOfSeq
  <2>2. /\ items[k].provider = p /\ items[k].kind \in Kinds
        /\ ~IsMade(items[k].id)
        /\ items[k].kind = "legacy" => items[k].id = NoId
    <3>1. \A j \in DOMAIN reply.items :
             /\ reply.items[j].provider = p /\ reply.items[j].kind \in Kinds
             /\ ~IsMade(reply.items[j].id)
             /\ reply.items[j].kind = "legacy" => reply.items[j].id = NoId
      BY RepliesAssumption DEF Every
    <3> QED BY <1>3, <3>1
  <2>3. PICK i : i = items[k]
    OBVIOUS
  <2>4. Owns(p, i)
    BY <2>2, <2>3 DEF Owns
  <2>5. i \in Own(p)
    BY <2>1, <2>3, <2>4 DEF Own
  <2> QED BY <2>3, <2>5
<1>5. ASSUME NEW k \in 1..n
      PROVE  /\ items[k].kind = "call" /\ p # "gemini" => items[k].id # NoId
             /\ items[k].kind = "audio" /\ p = "openai_compatible" => items[k].id # NoId
  <2>1. CASE p = "openai"
    BY <1>3, <2>1 DEF Parses, OpenAIParses, OpenAIItemOK, Every
  <2>2. CASE p = "anthropic"
    BY <1>3, <2>2 DEF Parses, AnthropicParses, AnthropicItemOK, Every
  <2>3. CASE p = "gemini"
    BY <2>3
  <2>4. CASE p = "openai_compatible"
    BY <1>3, <2>4 DEF Parses, CompatibleParses, CompatibleItemOK, Every
  <2> QED BY <2>1, <2>2, <2>3, <2>4 DEF Providers
<1>6. \A k \in 1..n : items[k] \in Sound(p)
  BY <1>4, <1>5 DEF Sound
<1>7. reply.listed \/ reply.items = <<>>
  <2>1. CASE p = "openai"
    BY <2>1 DEF Parses, OpenAIParses
  <2>2. CASE p = "anthropic"
    BY <2>2 DEF Parses, AnthropicParses
  <2>3. CASE p = "gemini"
    BY <2>3 DEF Parses, GeminiParses
  <2>4. CASE p = "openai_compatible"
    BY <2>4 DEF Parses, CompatibleParses
  <2> QED BY <2>1, <2>2, <2>3, <2>4 DEF Providers
<1> QED BY <1>2, <1>3, <1>6, <1>7, SubType

LEMMA NoItemType == NoItem \in Items /\ NoId \in CallIds
BY DEF NoItem, Item, Items, CallIds, NoId

LEMMA PartTypes ==
    ASSUME NEW i \in Items
    PROVE  /\ Text \in Parts /\ Extension(i) \in Parts
           /\ \A t \in {"image", "audio", "file"} : Bytes(t, "other") \in Parts
           /\ \A t \in {"image", "audio", "file"} :
                 Url(t, "google") \in Parts /\ Url(t, "web") \in Parts
BY NoItemType DEF Text, Extension, Bytes, Url, Part, Parts

LEMMA AssistantIs ==
    ASSUME NEW contents, NEW calls, NEW p \in Providers, NEW items, NEW listed \in BOOLEAN,
           NEW role \in NativeRoles, NEW native,
           native = [provider |-> p, items |-> items, listed |-> listed, role |-> role],
           NEW size, items \in Seq(Sound(p)), listed \/ items = <<>>,
           ContentsFit(p, contents), CallsFit(p, calls, items, size)
    PROVE  FromProvider(p, Assistant(contents, calls, native), size)
<1>1. PICK m : m = Assistant(contents, calls, native)
  OBVIOUS
<1>2. m = [role |-> "assistant", contents |-> contents, calls |-> calls,
           native |-> native, tool_call_id |-> NoId,
           metadata |-> NoItem]
  BY <1>1 DEF Assistant, Blank
<1>3. /\ native \in Natives /\ native.provider = p
      /\ native.items = items /\ native.listed = listed
  <2>1. items \in Seq(Items)
    <3>1. Sound(p) \subseteq Items
      BY DEF Sound, Own
    <3> QED BY <3>1, SeqMonotonic
  <2> QED BY <2>1 DEF Natives
<1>4. contents \in Seq(Parts) /\ calls \in Seq(ToolCalls)
  BY DEF ContentsFit, CallsFit
<1>5. m \in Messages
  BY <1>2, <1>3, <1>4, NoItemType DEF Messages
<1> QED BY <1>1, <1>2, <1>3, <1>5 DEF FromProvider

\* All adapters but Gemini's keep no role.
LEMMA PlainAssistant ==
    ASSUME NEW contents, NEW calls, NEW p \in Providers, NEW items, NEW size,
           items \in Seq(Sound(p)), ContentsFit(p, contents), CallsFit(p, calls, items, size)
    PROVE  FromProvider(p, Assistant(contents, calls, Native(p, items, TRUE)), size)
<1>1. PICK native, role : /\ native = Native(p, items, TRUE) /\ role = "none"
  OBVIOUS
<1>2. /\ role \in NativeRoles
      /\ native = [provider |-> p, items |-> items, listed |-> TRUE, role |-> role]
  BY <1>1 DEF NativeRoles, Native
<1> QED BY <1>1, <1>2, AssistantIs

\* A part that a message of p may have.
PartFits(p, c) == c \in Parts /\ (c.type = "extension" => c.item \in Own(p))

LEMMA PartsOf ==
    ASSUME NEW p, NEW i \in Sound(p)
    PROVE  /\ PartFits(p, Text) /\ PartFits(p, Extension(i))
           /\ \A t \in {"image", "audio", "file"} : PartFits(p, Bytes(t, "other"))
           /\ \A t \in {"image", "audio", "file"} :
                 PartFits(p, Url(t, "google")) /\ PartFits(p, Url(t, "web"))
<1>1. i \in Items /\ i \in Own(p)
  BY DEF Sound, Own
<1>2. /\ Extension(i).item = i /\ Text.type = "text"
      /\ \A t \in {"image", "audio", "file"} :
            /\ Bytes(t, "other").type = t
            /\ Url(t, "google").type = t /\ Url(t, "web").type = t
  BY DEF Extension, Text, Bytes, Url, Part
<1> QED BY <1>1, <1>2, PartTypes DEF PartFits

LEMMA TextFits ==
    ASSUME NEW p
    PROVE  PartFits(p, Text)
BY NoItemType DEF PartFits, Text, Part, Parts

LEMMA ContentsOf ==
    ASSUME NEW p, NEW n \in Nat, NEW f, DOMAIN f = 1..n,
           f = [k \in 1..n |-> f[k]], \A k \in 1..n : PartFits(p, f[k])
    PROVE  ContentsFit(p, f)
<1>1. \A k \in 1..n : f[k] \in Parts /\ (f[k].type = "extension" => f[k].item \in Own(p))
  BY DEF PartFits
<1>2. f \in Seq(Parts) /\ Len(f) = n
  BY <1>1, MakeSeq
<1> QED BY <1>1, <1>2 DEF ContentsFit

LEMMA ContentsConcat ==
    ASSUME NEW p, NEW a, NEW b, ContentsFit(p, a), ContentsFit(p, b)
    PROVE  ContentsFit(p, a \o b)
<1>1. a \in Seq(Parts) /\ b \in Seq(Parts)
  BY DEF ContentsFit
<1>2. PICK m, n, c : m = Len(a) /\ n = Len(b) /\ c = a \o b
  OBVIOUS
<1>3. /\ m \in Nat /\ n \in Nat /\ c \in Seq(Parts) /\ Len(c) = m + n
      /\ \A k \in 1..m : c[k] = a[k]
      /\ \A k \in 1..n : c[m + k] = b[k]
  BY <1>1, <1>2, LenProperties, ConcatProperties
<1>4. ASSUME NEW k \in 1..Len(c), c[k].type = "extension" PROVE c[k].item \in Own(p)
  <2>1. CASE k \in 1..m
    BY <1>2, <1>3, <1>4, <2>1 DEF ContentsFit
  <2>2. CASE ~(k \in 1..m)
    <3>1. PICK j \in 1..n : k = m + j
      <4>1. k - m \in 1..n /\ k = m + (k - m)
        BY <1>3, <2>2
      <4> QED BY <4>1
    <3>2. c[k] = b[j]
      BY <1>3, <3>1
    <3> QED BY <1>2, <1>4, <3>1, <3>2 DEF ContentsFit
  <2> QED BY <2>1, <2>2
<1> QED BY <1>2, <1>3, <1>4 DEF ContentsFit

LEMMA OneText ==
    ASSUME NEW p
    PROVE  ContentsFit(p, <<Text>>) /\ ContentsFit(p, <<>>)
<1>1. PartFits(p, Text)
  BY TextFits
<1>2. ContentsFit(p, <<Text>>)
  <2>1. PICK t : t = Text
    OBVIOUS
  <2>2. <<t>> \in Seq(Parts) /\ Len(<<t>>) = 1 /\ <<t>>[1] = t
    BY <1>1, <2>1 DEF PartFits
  <2> QED BY <1>1, <2>1, <2>2 DEF PartFits, ContentsFit
<1>3. ContentsFit(p, <<>>)
  BY EmptySeq DEF ContentsFit
<1> QED BY <1>2, <1>3

LEMMA CallsOf ==
    ASSUME NEW p, NEW size, NEW items, NEW n \in Nat, NEW f, NEW called,
           called = Called(p, items), called \in Seq(Items), Len(called) = n,
           DOMAIN f = 1..n, f = [k \in 1..n |-> f[k]],
           \A k \in 1..n : /\ f[k] \in ToolCalls /\ f[k].metadata = called[k]
                           /\ IdFits(f[k], size)
    PROVE  CallsFit(p, f, items, size)
<1>1. f \in Seq(ToolCalls) /\ Len(f) = n
  BY MakeSeq
<1> QED BY <1>1 DEF CallsFit

LEMMA GivenCall ==
    ASSUME NEW i \in Items, NEW size, i.id # NoId
    PROVE  /\ ToolCall(i.id, i) \in ToolCalls
           /\ ToolCall(i.id, i).metadata = i
           /\ IdFits(ToolCall(i.id, i), size)
BY DEF ToolCall, ToolCalls, Items, IdFits

LEMMA MadeCall ==
    ASSUME NEW i \in Items, NEW id \in CallIds, NEW size, i.id = NoId,
           IsMade(id), id[3] = size
    PROVE  /\ ToolCall(id, i) \in ToolCalls
           /\ ToolCall(id, i).metadata = i
           /\ IdFits(ToolCall(id, i), size)
BY DEF ToolCall, ToolCalls, IdFits

LEMMA KindsOf ==
    ASSUME NEW p, NEW items \in Seq(Sound(p)), NEW kinds
    PROVE  /\ OfKind(items, kinds) \in Seq(Items)
           /\ Len(OfKind(items, kinds)) \in Nat
           /\ DOMAIN OfKind(items, kinds) = 1..Len(OfKind(items, kinds))
           /\ \A k \in 1..Len(OfKind(items, kinds)) :
                 /\ OfKind(items, kinds)[k] \in Sound(p)
                 /\ OfKind(items, kinds)[k] \in Items
                 /\ OfKind(items, kinds)[k].kind \in kinds
<1>1. PICK s, R : s = OfKind(items, kinds) /\ R = {i \in Sound(p) : i.kind \in kinds}
  OBVIOUS
<1>2. s \in Seq(R)
  BY <1>1, OfKindIs
<1>3. R \subseteq Items /\ \A i \in R : i \in Sound(p) /\ i.kind \in kinds
  BY <1>1 DEF Sound, Own
<1>4. s \in Seq(Items)
  BY <1>2, <1>3, SeqMonotonic
<1>5. Len(s) \in Nat /\ DOMAIN s = 1..Len(s) /\ \A k \in 1..Len(s) : s[k] \in R
  BY <1>2, LenProperties, ElementOfSeq
<1> QED BY <1>1, <1>3, <1>4, <1>5

LEMMA OpenAIFits ==
    ASSUME NEW reply, NEW size, reply.items \in Seq(Sound("openai"))
    PROVE  FromProvider("openai", ParseOpenAI(reply), size)
<1> DEFINE p == "openai"
           K == {"text", "image", "part"}
<1> HIDE DEF p, K
<1>1. PICK items, shown, called :
         /\ items = reply.items /\ shown = OfKind(items, K)
         /\ called = OfKind(items, {"call"})
  OBVIOUS
<1>2. items \in Seq(Sound(p))
  BY <1>1 DEF p
<1>3. PICK n \in Nat : /\ DOMAIN shown = 1..n /\ Len(shown) = n
                       /\ \A k \in 1..n : shown[k] \in Sound(p) /\ shown[k].kind \in K
  BY <1>1, <1>2, KindsOf
<1>4. PICK l \in Nat : /\ called \in Seq(Items) /\ DOMAIN called = 1..l /\ Len(called) = l
                       /\ \A k \in 1..l : /\ called[k] \in Sound(p)
                                          /\ called[k] \in Items /\ called[k].kind = "call"
  BY SMTT(40), <1>1, <1>2, KindsOf
<1>5. ASSUME NEW i \in Sound(p), i.kind \in K PROVE PartFits(p, OpenAIContent(i))
  <2>1. OpenAIContent(i) \in {Text, Bytes("image", "other"), Extension(i)}
    BY <1>5 DEF OpenAIContent, K
  <2> QED BY <2>1, PartsOf
<1>6. PICK f : f = Each(shown, OpenAIContent)
  OBVIOUS
<1>7. ContentsFit(p, f)
  <2>1. f = [k \in 1..n |-> OpenAIContent(shown[k])]
    BY <1>3, <1>6 DEF Each
  <2>2. \A k \in 1..n : PartFits(p, f[k])
    BY <1>3, <1>5, <2>1
  <2>3. DOMAIN f = 1..n /\ f = [k \in 1..n |-> f[k]]
    BY <2>1
  <2> QED BY <2>2, <2>3, ContentsOf
<1>8. PICK g : g = Each(called, LAMBDA i : ToolCall(i.id, i))
  OBVIOUS
<1>9. CallsFit(p, g, items, size)
  <2>1. g = [k \in 1..l |-> ToolCall(called[k].id, called[k])]
    BY <1>4, <1>8 DEF Each
  <2>2. ASSUME NEW k \in 1..l
        PROVE  g[k] \in ToolCalls /\ g[k].metadata = called[k] /\ IdFits(g[k], size)
    <3>1. called[k].id # NoId /\ called[k] \in Items
      BY <1>4 DEF Sound, p
    <3>2. g[k] = ToolCall(called[k].id, called[k])
      BY <2>1
    <3> QED BY <3>1, <3>2, GivenCall
  <2>3. DOMAIN g = 1..l /\ g = [k \in 1..l |-> g[k]]
    BY <2>1
  <2>4. called = Called(p, items)
    BY <1>1 DEF Called, p
  <2> QED BY <1>4, <2>2, <2>3, <2>4, CallsOf
<1>10. PICK c : /\ c = IF shown = <<>> /\ reply.aside THEN <<Text>> ELSE f
                /\ ContentsFit(p, c)
  BY <1>7, OneText
<1>11. ParseOpenAI(reply) = Assistant(c, g, Native(p, items, TRUE))
  BY <1>1, <1>6, <1>8, <1>10 DEF ParseOpenAI, p, K
<1>12. p \in Providers
  BY DEF p, Providers
<1>13. FromProvider(p, Assistant(c, g, Native(p, items, TRUE)), size)
  BY <1>2, <1>9, <1>10, <1>12, PlainAssistant
<1> QED BY <1>11, <1>13 DEF p

LEMMA AnthropicFits ==
    ASSUME NEW reply, NEW size, reply.items \in Seq(Sound("anthropic"))
    PROVE  FromProvider("anthropic", ParseAnthropic(reply), size)
<1> DEFINE p == "anthropic"
           K == Kinds \ {"call"}
<1> HIDE DEF p, K
<1>1. PICK items, shown, called :
         /\ items = reply.items /\ shown = OfKind(items, K)
         /\ called = OfKind(items, {"call"})
  OBVIOUS
<1>2. items \in Seq(Sound(p))
  BY <1>1 DEF p
<1>3. PICK n \in Nat : /\ DOMAIN shown = 1..n /\ Len(shown) = n
                       /\ \A k \in 1..n : shown[k] \in Sound(p) /\ shown[k].kind \in K
  BY <1>1, <1>2, KindsOf
<1>4. PICK l \in Nat : /\ called \in Seq(Items) /\ DOMAIN called = 1..l /\ Len(called) = l
                       /\ \A k \in 1..l : /\ called[k] \in Sound(p)
                                          /\ called[k] \in Items /\ called[k].kind = "call"
  BY SMTT(40), <1>1, <1>2, KindsOf
<1>5. ASSUME NEW i \in Sound(p), i.kind \in K PROVE PartFits(p, AnthropicContent(i))
  <2>1. AnthropicContent(i) \in {Text, Extension(i)}
    BY <1>5 DEF AnthropicContent, K
  <2> QED BY <2>1, PartsOf
<1>6. PICK f : f = Each(shown, AnthropicContent)
  OBVIOUS
<1>7. ContentsFit(p, f)
  <2>1. f = [k \in 1..n |-> AnthropicContent(shown[k])]
    BY <1>3, <1>6 DEF Each
  <2>2. \A k \in 1..n : PartFits(p, f[k])
    BY <1>3, <1>5, <2>1
  <2>3. DOMAIN f = 1..n /\ f = [k \in 1..n |-> f[k]]
    BY <2>1
  <2> QED BY <2>2, <2>3, ContentsOf
<1>8. PICK g : g = Each(called, LAMBDA i : ToolCall(i.id, i))
  OBVIOUS
<1>9. CallsFit(p, g, items, size)
  <2>1. g = [k \in 1..l |-> ToolCall(called[k].id, called[k])]
    BY <1>4, <1>8 DEF Each
  <2>2. ASSUME NEW k \in 1..l
        PROVE  g[k] \in ToolCalls /\ g[k].metadata = called[k] /\ IdFits(g[k], size)
    <3>1. called[k].id # NoId /\ called[k] \in Items
      BY <1>4 DEF Sound, p
    <3>2. g[k] = ToolCall(called[k].id, called[k])
      BY <2>1
    <3> QED BY <3>1, <3>2, GivenCall
  <2>3. DOMAIN g = 1..l /\ g = [k \in 1..l |-> g[k]]
    BY <2>1
  <2>4. called = Called(p, items)
    BY <1>1 DEF Called, p
  <2> QED BY <1>4, <2>2, <2>3, <2>4, CallsOf
<1>11. ParseAnthropic(reply) = Assistant(f, g, Native(p, items, TRUE))
  BY <1>1, <1>6, <1>8 DEF ParseAnthropic, p, K
<1>12. p \in Providers
  BY DEF p, Providers
<1>13. FromProvider(p, Assistant(f, g, Native(p, items, TRUE)), size)
  BY <1>2, <1>7, <1>9, <1>12, PlainAssistant
<1> QED BY <1>11, <1>13 DEF p

LEMMA GeminiFits ==
    ASSUME NEW reply, NEW r \in Nat, NEW size \in Nat,
           reply.items \in Seq(Sound("gemini")),
           reply.listed \in BOOLEAN, reply.listed \/ reply.items = <<>>,
           reply.role \in NativeRoles
    PROVE  FromProvider("gemini", ParseGemini(reply, r, size), size)
<1> DEFINE p == "gemini"
           K == Kinds \ {"call"}
<1> HIDE DEF p, K
<1>1. PICK items, shown, called :
         /\ items = reply.items /\ shown = OfKind(items, K)
         /\ called = OfKind(items, {"call"})
  OBVIOUS
<1>2. items \in Seq(Sound(p))
  BY <1>1 DEF p
<1>3. PICK n \in Nat : /\ DOMAIN shown = 1..n /\ Len(shown) = n
                       /\ \A k \in 1..n : shown[k] \in Sound(p) /\ shown[k].kind \in K
  BY <1>1, <1>2, KindsOf
<1>4. PICK l \in Nat : /\ called \in Seq(Items) /\ DOMAIN called = 1..l /\ Len(called) = l
                       /\ \A k \in 1..l : /\ called[k] \in Sound(p)
                                          /\ called[k] \in Items /\ called[k].kind = "call"
  BY <1>1, <1>2, KindsOf
<1>5. ASSUME NEW i \in Sound(p), i.kind \in K PROVE PartFits(p, GeminiContent(i))
  <2>1. GeminiContent(i) \in {Text, Extension(i)}
                              \cup {Bytes(t, "other") : t \in {"image", "audio", "file"}}
                              \cup {Url(t, "google") : t \in {"image", "audio", "file"}}
    BY <1>5 DEF GeminiContent, K
  <2> QED BY <2>1, PartsOf
<1>6. PICK f : f = Each(shown, GeminiContent)
  OBVIOUS
<1>7. ContentsFit(p, f)
  <2>1. f = [k \in 1..n |-> GeminiContent(shown[k])]
    BY <1>3, <1>6 DEF Each
  <2>2. \A k \in 1..n : PartFits(p, f[k])
    BY <1>3, <1>5, <2>1
  <2>3. DOMAIN f = 1..n /\ f = [k \in 1..n |-> f[k]]
    BY <2>1
  <2> QED BY <2>2, <2>3, ContentsOf
<1>8. PICK g : g = [k \in DOMAIN called |->
                        ToolCall(GeminiCallId(called[k], r, size, k - 1), called[k])]
  OBVIOUS
<1>9. CallsFit(p, g, items, size)
  <2>1. g = [k \in 1..l |-> ToolCall(GeminiCallId(called[k], r, size, k - 1), called[k])]
    BY <1>4, <1>8
  <2>2. ASSUME NEW k \in 1..l
        PROVE  g[k] \in ToolCalls /\ g[k].metadata = called[k] /\ IdFits(g[k], size)
    <3>1. PICK i \in Items, j \in Nat : i = called[k] /\ j = k - 1
      BY <1>4
    <3>2. g[k] = ToolCall(GeminiCallId(i, r, size, j), i)
      BY <2>1, <3>1
    <3>3. CASE i.id # NoId
      <4>1. g[k] = ToolCall(i.id, i)
        BY <3>2, <3>3 DEF GeminiCallId
      <4> QED BY <3>1, <3>3, <4>1, GivenCall
    <3>4. CASE i.id = NoId
      <4>1. PICK id \in CallIds : /\ id = <<"gemini_call", r, size, j>>
                                  /\ IsMade(id) /\ id[3] = size
        <5>1. /\ <<"gemini_call", r, size, j>> \in CallIds
              /\ IsMade(<<"gemini_call", r, size, j>>) /\ <<"gemini_call", r, size, j>>[3] = size
          BY <3>1, MadeIds
        <5> QED BY <5>1
      <4>2. g[k] = ToolCall(id, i)
        BY <3>2, <3>4, <4>1 DEF GeminiCallId
      <4> QED BY <3>1, <3>4, <4>1, <4>2, MadeCall
    <3> QED BY <3>3, <3>4
  <2>3. DOMAIN g = 1..l /\ g = [k \in 1..l |-> g[k]]
    BY <2>1
  <2>4. called = Called(p, items)
    BY <1>1 DEF Called, p
  <2> QED BY <1>4, <2>2, <2>3, <2>4, CallsOf
<1>10. PICK native : native = [Native(p, items, reply.listed) EXCEPT !.role = reply.role]
  OBVIOUS
<1>11. native = [provider |-> p, items |-> items,
                 listed |-> reply.listed, role |-> reply.role]
  BY <1>10 DEF Native
<1>12. reply.listed \/ items = <<>>
  BY <1>1
<1>13. ParseGemini(reply, r, size) = Assistant(f, g, native)
  BY <1>1, <1>6, <1>8, <1>10 DEF ParseGemini, p, K
<1>14. p \in Providers
  BY DEF p, Providers
<1>15. FromProvider(p, Assistant(f, g, native), size)
  BY Zenon, <1>2, <1>7, <1>9, <1>11, <1>12, <1>14, AssistantIs
<1> QED BY <1>13, <1>15 DEF p

LEMMA CompatibleFits ==
    ASSUME NEW reply, NEW r \in Nat, NEW size \in Nat,
           reply.items \in Seq(Sound("openai_compatible"))
    PROVE  FromProvider("openai_compatible", ParseCompatible(reply, r, size), size)
<1> DEFINE p == "openai_compatible"
           K == {"text", "image", "part"}
<1> HIDE DEF p, K
<1>1. PICK items, shown, called :
         /\ items = reply.items /\ shown = OfKind(items, K)
         /\ called = CompatibleCalled(items)
  OBVIOUS
<1>2. items \in Seq(Sound(p))
  BY <1>1 DEF p
<1>3. PICK n \in Nat : /\ DOMAIN shown = 1..n /\ Len(shown) = n
                       /\ \A k \in 1..n : shown[k] \in Sound(p) /\ shown[k].kind \in K
  BY <1>1, <1>2, KindsOf
<1>4. PICK l \in Nat : /\ called \in Seq(Items) /\ DOMAIN called = 1..l /\ Len(called) = l
                       /\ \A k \in 1..l : /\ called[k] \in Sound(p)
                                          /\ called[k] \in Items
                                          /\ called[k].kind \in {"call", "legacy"}
  <2>1. PICK s, t : s = OfKind(items, {"call"}) /\ t = OfKind(items, {"legacy"})
    OBVIOUS
  <2>2. called \in {s, t}
    BY <1>1, <2>1 DEF CompatibleCalled
  <2>3. CASE called = s
    BY <1>2, <2>1, <2>3, KindsOf
  <2>4. CASE called = t
    BY <1>2, <2>1, <2>4, KindsOf
  <2> QED BY <2>2, <2>3, <2>4
<1>5. ASSUME NEW i \in Sound(p), i.kind \in K \/ i.kind = "audio"
      PROVE  PartFits(p, CompatibleContent(i))
  <2>1. CompatibleContent(i) \in {Text, Url("image", "web"), Extension(i), Bytes("audio", "other")}
    BY <1>5 DEF CompatibleContent, K
  <2> QED BY <2>1, PartsOf
<1>6. PICK f : f = Each(shown, CompatibleContent)
  OBVIOUS
<1>7. ContentsFit(p, f)
  <2>1. f = [k \in 1..n |-> CompatibleContent(shown[k])]
    BY <1>3, <1>6 DEF Each
  <2>2. \A k \in 1..n : PartFits(p, f[k])
    BY <1>3, <1>5, <2>1
  <2>3. DOMAIN f = 1..n /\ f = [k \in 1..n |-> f[k]]
    BY <2>1
  <2> QED BY <2>2, <2>3, ContentsOf
<1>8. PICK g : g = Each(called, LAMBDA i : ToolCall(CompatibleCallId(i, r, size), i))
  OBVIOUS
<1>9. CallsFit(p, g, items, size)
  <2>1. g = [k \in 1..l |-> ToolCall(CompatibleCallId(called[k], r, size), called[k])]
    BY <1>4, <1>8 DEF Each
  <2>2. ASSUME NEW k \in 1..l
        PROVE  g[k] \in ToolCalls /\ g[k].metadata = called[k] /\ IdFits(g[k], size)
    <3>1. PICK i \in Items : i = called[k] /\ i \in Sound(p) /\ i.kind \in {"call", "legacy"}
      BY <1>4
    <3>2. g[k] = ToolCall(CompatibleCallId(i, r, size), i)
      BY <2>1, <3>1
    <3>3. CASE i.kind = "call"
      <4>1. g[k] = ToolCall(i.id, i)
        BY <3>2, <3>3 DEF CompatibleCallId
      <4>2. i.id # NoId
        BY <3>1, <3>3 DEF Sound, p
      <4> QED BY <3>1, <4>1, <4>2, GivenCall
    <3>4. CASE i.kind = "legacy"
      <4>1. PICK id \in CallIds : /\ id = <<"legacy_function_call", r, size>>
                                  /\ IsMade(id) /\ id[3] = size
        BY MadeIds
      <4>2. g[k] = ToolCall(id, i)
        BY <3>2, <3>4, <4>1 DEF CompatibleCallId
      <4>3. i.id = NoId
        BY <3>1, <3>4 DEF Sound, Own, Owns
      <4> QED BY <3>1, <4>1, <4>2, <4>3, MadeCall
    <3> QED BY <3>1, <3>3, <3>4
  <2>3. DOMAIN g = 1..l /\ g = [k \in 1..l |-> g[k]]
    BY <2>1
  <2>4. called = Called(p, items)
    BY <1>1 DEF Called, p
  <2> QED BY <1>4, <2>2, <2>3, <2>4, CallsOf
<1>10. PICK c : /\ c = IF shown = <<>> /\ reply.aside THEN <<Text>> ELSE <<>>
                /\ ContentsFit(p, c)
  BY OneText
<1>13. PICK audio, h : audio = OfKind(items, {"audio"}) /\ h = Each(audio, CompatibleContent)
  OBVIOUS
<1>14. ContentsFit(p, h)
  <2>1. PICK n2 \in Nat : /\ DOMAIN audio = 1..n2
                        /\ \A k \in 1..n2 : audio[k] \in Sound(p) /\ audio[k].kind = "audio"
    BY <1>2, <1>13, KindsOf
  <2>2. h = [k \in 1..n2 |-> CompatibleContent(audio[k])]
    BY <1>13, <2>1 DEF Each
  <2>3. \A k \in 1..n2 : PartFits(p, h[k])
    BY <1>5, <2>1, <2>2
  <2>4. DOMAIN h = 1..n2 /\ h = [k \in 1..n2 |-> h[k]]
    BY <2>2
  <2> QED BY <2>3, <2>4, ContentsOf
<1>15. ContentsFit(p, f \o c \o h)
  BY <1>7, <1>10, <1>14, ContentsConcat
<1>11. ParseCompatible(reply, r, size) = Assistant(f \o c \o h, g, Native(p, items, TRUE))
  BY <1>1, <1>6, <1>8, <1>10, <1>13 DEF ParseCompatible, p, K
<1>12. p \in Providers
  BY DEF p, Providers
<1>16. FromProvider(p, Assistant(f \o c \o h, g, Native(p, items, TRUE)), size)
  BY <1>2, <1>9, <1>15, <1>12, PlainAssistant
<1> QED BY <1>11, <1>16 DEF p

\* Whatever an adapter parses is a message of its provider (FromProvider).
LEMMA ParsedFits ==
    ASSUME NEW p \in Providers, NEW reply \in Replies[p], Parses(p, reply),
           run \in Nat, Len(messages) \in Nat
    PROVE  FromProvider(p, Parsed(p, reply), Len(messages))
<1>1. /\ reply.items \in Seq(Sound(p)) /\ reply.listed \in BOOLEAN
      /\ reply.listed \/ reply.items = <<>>
      /\ reply.role \in NativeRoles
  BY SoundItems
<1>2. CASE p = "openai"
  <2>1. FromProvider("openai", ParseOpenAI(reply), Len(messages))
    BY <1>1, <1>2, OpenAIFits
  <2> QED BY <1>2, <2>1 DEF Parsed
<1>3. CASE p = "anthropic"
  <2>1. FromProvider("anthropic", ParseAnthropic(reply), Len(messages))
    BY <1>1, <1>3, AnthropicFits
  <2> QED BY <1>3, <2>1 DEF Parsed
<1>4. CASE p = "gemini"
  <2>1. FromProvider("gemini", ParseGemini(reply, run, Len(messages)), Len(messages))
    BY <1>1, <1>4, GeminiFits
  <2> QED BY <1>4, <2>1 DEF Parsed
<1>5. CASE p = "openai_compatible"
  <2>1. FromProvider("openai_compatible",
                     ParseCompatible(reply, run, Len(messages)), Len(messages))
    BY <1>1, <1>5, CompatibleFits
  <2> QED BY <1>5, <2>1 DEF Parsed
<1> QED BY <1>2, <1>3, <1>4, <1>5 DEF Providers

-----------------------------------------------------------------------------
(***************************************************************************)
(* Histories.  A message is what an application asked, what a provider     *)
(* answered, or the result of a call of the answer before it; the results  *)
(* of an answer's calls follow it, one for each and in their order.        *)
(***************************************************************************)
Silent(m) == m.native = NoNative /\ m.calls = <<>>

FromUser(m) ==
    /\ m \in Messages /\ m.role = "user" /\ Silent(m)
    /\ \A k \in 1..Len(m.contents) :
          m.contents[k].type = "extension" => m.contents[k].item.kind = "part"

FromTool(m, call) ==
    /\ m \in Messages /\ m.role = "tool" /\ Silent(m)
    /\ m.tool_call_id = call.id /\ m.metadata = call.metadata

\* The j-th call of message i has its result.
HasResult(h, i, j) ==
    /\ i + j \in 1..Len(h) /\ h[i].role = "assistant"
    /\ FromTool(h[i + j], h[i].calls[j])

ByProvider(h, k) ==
    /\ \E p \in Providers : FromProvider(p, h[k], k - 1)
    /\ \A j \in 1..Len(h[k].calls) : HasResult(h, k, j)
    /\ DistinctIds(h[k].calls)

ByTool(h, k) ==
    \E i \in 1..Len(h) : \E j \in 1..Len(h[i].calls) :
       k = i + j /\ HasResult(h, i, j)

HasAuthor(h, k) == FromUser(h[k]) \/ ByProvider(h, k) \/ ByTool(h, k)

History(h) ==
    /\ h \in Seq(Messages)
    /\ h # <<>> => FromUser(h[1])
    /\ \A k \in 1..Len(h) : HasAuthor(h, k)

\* What was sent is what the session says.
Sent ==
    /\ client # "idle" => messages # <<>>
    /\ request # NoRequest =>
          /\ client \in Providers
          /\ request = [provider |-> client, body |-> Body(client, messages)]
          /\ Renderable(client, messages)

IInv == TypeOK /\ History(messages) /\ Sent

\* g goes on where h ends.
Extends(g, h) == Len(h) <= Len(g) /\ \A k \in 1..Len(h) : g[k] = h[k]

LEMMA AuthorsStay ==
    ASSUME NEW g \in Seq(Messages), NEW h \in Seq(Messages), Extends(g, h),
           NEW k \in 1..Len(h), HasAuthor(h, k)
    PROVE  HasAuthor(g, k)
<1>1. PICK m \in Nat, n \in Nat : m = Len(h) /\ n = Len(g) /\ m <= n
  BY LenProperties DEF Extends
<1>2. \A i \in 1..m : g[i] = h[i] /\ i \in 1..n
  BY <1>1 DEF Extends
<1>3. ASSUME NEW i \in 1..m, NEW j, HasResult(h, i, j)
      PROVE  HasResult(g, i, j)
  <2>1. /\ i + j \in 1..m /\ h[i].role = "assistant"
        /\ FromTool(h[i + j], h[i].calls[j])
    BY <1>1, <1>3 DEF HasResult
  <2>2. g[i] = h[i] /\ g[i + j] = h[i + j] /\ i + j \in 1..n
    BY <1>2, <2>1
  <2> QED BY <1>1, <2>1, <2>2 DEF HasResult
<1>4. CASE FromUser(h[k])
  BY <1>1, <1>2, <1>4 DEF HasAuthor
<1>5. CASE ByProvider(h, k)
  <2>1. g[k] = h[k] /\ k \in 1..m
    BY <1>1, <1>2
  <2>2. \A j \in 1..Len(h[k].calls) : HasResult(g, k, j)
    BY <1>3, <1>5, <2>1 DEF ByProvider
  <2>3. ByProvider(g, k)
    BY <1>5, <2>1, <2>2 DEF ByProvider
  <2> QED BY <2>3 DEF HasAuthor
<1>6. CASE ByTool(h, k)
  <2>1. PICK i \in 1..m : \E j \in 1..Len(h[i].calls) : k = i + j /\ HasResult(h, i, j)
    BY <1>1, <1>6 DEF ByTool
  <2>2. PICK j \in 1..Len(h[i].calls) : k = i + j /\ HasResult(h, i, j)
    BY <2>1
  <2>3. g[i] = h[i] /\ i \in 1..n
    BY <1>2
  <2>4. HasResult(g, i, j)
    BY <1>3, <2>2
  <2>5. ByTool(g, k)
    BY <1>1, <2>2, <2>3, <2>4 DEF ByTool
  <2> QED BY <2>5 DEF HasAuthor
<1> QED BY <1>4, <1>5, <1>6 DEF HasAuthor

LEMMA BlankIs ==
    ASSUME NEW m, NEW contents \in Seq(Parts), NEW call \in ToolCalls
    PROVE  /\ User(contents) \in Messages /\ Silent(User(contents))
           /\ User(contents).role = "user" /\ User(contents).contents = contents
           /\ FromTool(ToolResult(call, contents), call)
<1>1. NoNative \in Natives
  <2>1. <<>> \in Seq(Items)
    BY EmptySeq
  <2> QED BY <2>1 DEF NoNative, Native, Natives, NativeRoles
<1>2. /\ <<>> \in Seq(ToolCalls) /\ NoItem \in Items /\ NoId \in CallIds
      /\ call.id \in CallIds /\ call.metadata \in Items
  BY EmptySeq, NoItemType DEF ToolCalls
<1>3. User(contents) = [role |-> "user", contents |-> contents, calls |-> <<>>,
          native |-> NoNative, tool_call_id |-> NoId, metadata |-> NoItem]
  BY DEF User, Blank
<1>0. PICK id, item : id = call.id /\ item = call.metadata
  OBVIOUS
<1>4. ToolResult(call, contents)
        = [role |-> "tool", contents |-> contents, calls |-> <<>>,
           native |-> NoNative, tool_call_id |-> id, metadata |-> item]
  <2>1. ToolResult(call, contents)
          = [Blank EXCEPT !.role = "tool", !.contents = contents,
                          !.tool_call_id = id, !.metadata = item]
    BY <1>0 DEF ToolResult
  <2> QED BY <2>1 DEF Blank
<1>5. User(contents) \in Messages
  BY <1>1, <1>2, <1>3 DEF Messages
<1>6. ToolResult(call, contents) \in Messages
  BY <1>0, <1>1, <1>2, <1>4 DEF Messages
<1> QED BY <1>0, <1>3, <1>4, <1>5, <1>6 DEF Silent, FromTool

\* A user message after a history of whole answers.
LEMMA HistoryAsked ==
    ASSUME NEW h, History(h), NEW contents \in Inputs
    PROVE  History(Append(h, User(contents))) /\ Append(h, User(contents)) # <<>>
<1>1. contents \in Seq(Parts)
  BY ContentsAssumption
<1>0. PICK n \in Nat : n = Len(h)
  BY LenProperties DEF History
<1>2. PICK m, g : n = Len(h) /\ m = User(contents) /\ g = Append(h, m)
  BY <1>0
<1>3. FromUser(m)
  <2>1. /\ m \in Messages /\ Silent(m) /\ m.role = "user" /\ m.contents = contents
    <3>1. PICK call : call = ToolCall(NoId, NoItem)
      OBVIOUS
    <3>2. call \in ToolCalls
      BY <3>1, NoItemType DEF ToolCall, ToolCalls
    <3> QED BY <1>1, <1>2, <3>2, BlankIs
  <2>2. \A k \in 1..Len(contents) :
           contents[k].type = "extension" => contents[k].item.kind = "part"
    <3>1. DOMAIN contents = 1..Len(contents)
      BY <1>1, LenProperties
    <3> QED BY <3>1, ContentsAssumption DEF Every
  <2> QED BY <2>1, <2>2 DEF FromUser
<1>4. /\ g \in Seq(Messages) /\ Len(g) = n + 1 /\ g[n + 1] = m
      /\ \A k \in 1..n : g[k] = h[k]
  BY <1>2, <1>3, AppendProperties DEF History, FromUser
<1>5. g # <<>> /\ FromUser(g[1])
  <2>1. CASE n = 0
    BY SMTT(40), <1>3, <1>4, <2>1, EmptySeq
  <2>2. CASE n # 0
    BY <1>2, <1>4, <2>2, EmptySeq DEF History
  <2> QED BY <2>1, <2>2
<1>6. ASSUME NEW k \in 1..(n + 1) PROVE HasAuthor(g, k)
  <2>1. CASE k = n + 1
    BY <1>3, <1>4, <2>1 DEF HasAuthor
  <2>2. CASE k # n + 1
    <3>1. k \in 1..n
      BY <2>2
    <3>2. Extends(g, h)
      BY <1>2, <1>4 DEF Extends
    <3>3. HasAuthor(h, k)
      BY <1>2, <3>1 DEF History
    <3> QED BY <1>2, <1>4, <3>1, <3>2, <3>3, AuthorsStay DEF History
  <2> QED BY <2>1, <2>2
<1> QED BY <1>2, <1>4, <1>5, <1>6 DEF History

\* g is h, then m, then r.
Placed(g, h, m, r) ==
    /\ g \in Seq(Messages) /\ Len(g) = Len(h) + 1 + Len(r)
    /\ g[Len(h) + 1] = m
    /\ \A k \in 1..Len(h) : g[k] = h[k]
    /\ \A k \in 1..Len(r) : g[Len(h) + 1 + k] = r[k]

LEMMA Recorded ==
    ASSUME NEW h \in Seq(Messages), NEW m \in Messages, NEW r \in Seq(Messages)
    PROVE  Placed(Append(h, m) \o r, h, m, r)
<1>0. PICK n \in Nat, l \in Nat : n = Len(h) /\ l = Len(r)
  BY LenProperties
<1>1. PICK q, e, g : q = n + 1 /\ e = Append(h, m) /\ g = e \o r
  OBVIOUS
<1>2. /\ q \in Nat /\ e \in Seq(Messages) /\ q = Len(e) /\ e[q] = m
      /\ \A k \in 1..n : e[k] = h[k] /\ k \in 1..q
  BY <1>0, <1>1, AppendProperties
<1>3. /\ g \in Seq(Messages) /\ Len(g) = q + l
      /\ \A k \in 1..q : g[k] = e[k]
      /\ \A k \in 1..l : g[q + k] = r[k]
  <2>1. q \in Nat /\ e \in Seq(Messages) /\ q = Len(e) /\ l = Len(r) /\ g = e \o r
    BY <1>0, <1>1, <1>2
  <2> QED BY <2>1, ConcatIs
<1>4. q \in 1..q
  BY <1>0, <1>1
<1>5. Placed(g, h, m, r)
  BY <1>0, <1>1, <1>2, <1>3, <1>4 DEF Placed
<1> QED BY <1>1, <1>5

\* g is h with the answer m and the results of its calls.
Grown(g, h, m) ==
    /\ g \in Seq(Messages) /\ Len(g) = Len(h) + 1 + Len(m.calls)
    /\ g[Len(h) + 1] = m
    /\ \A k \in 1..Len(h) : g[k] = h[k]
    /\ \A k \in 1..Len(m.calls) : FromTool(g[Len(h) + 1 + k], m.calls[k])

LEMMA HistoryGrows ==
    ASSUME NEW h, History(h), h # <<>>, NEW p \in Providers, NEW m,
           FromProvider(p, m, Len(h)), DistinctIds(m.calls), NEW g, Grown(g, h, m)
    PROVE  History(g) /\ g # <<>>
<1>0. PICK n \in Nat, q \in Nat :
         n = Len(h) /\ n # 0 /\ q = n + 1 /\ h \in Seq(Messages)
  BY EmptySeq, LenProperties DEF History
<1>1. m \in Messages /\ m.role = "assistant" /\ m.calls \in Seq(ToolCalls)
  BY DEF FromProvider, CallsFit
<1>2. PICK l \in Nat : l = Len(m.calls)
  BY <1>1, LenProperties
<1>7. /\ g \in Seq(Messages) /\ Len(g) = q + l
      /\ \A k \in 1..l : FromTool(g[q + k], m.calls[k])
  BY <1>0, <1>2 DEF Grown
<1>8. g[q] = m /\ \A k \in 1..n : g[k] = h[k]
  BY <1>0 DEF Grown
<1>9. g # <<>> /\ FromUser(g[1])
  BY <1>0, <1>7, <1>8, EmptySeq DEF History
<1>10. ASSUME NEW j \in 1..l PROVE HasResult(g, q, j)
  <2>1. q + j \in 1..(q + l)
    OBVIOUS
  <2>2. FromTool(g[q + j], m.calls[j])
    BY <1>0, <1>7
  <2> QED BY <1>1, <1>7, <1>8, <2>1, <2>2 DEF HasResult
<1>11. ASSUME NEW k \in 1..(q + l) PROVE HasAuthor(g, k)
  <2>1. CASE k \in 1..n
    <3>1. Extends(g, h)
      <4>1. n <= q + l
        BY <1>0
      <4> QED BY <1>0, <1>7, <1>8, <4>1 DEF Extends
    <3>2. HasAuthor(h, k)
      BY <1>0, <2>1 DEF History
    <3> QED BY <1>0, <1>7, <2>1, <3>1, <3>2, AuthorsStay
  <2>2. CASE k = q
    <3>1. FromProvider(p, g[k], k - 1)
      <4>1. k - 1 = n
        BY <1>0, <2>2
      <4> QED BY <1>0, <1>8, <2>2, <4>1
    <3>2. \A j \in 1..Len(g[k].calls) : HasResult(g, k, j)
      BY <1>2, <1>8, <1>10, <2>2
    <3>3. ByProvider(g, k)
      BY <1>8, <2>2, <3>1, <3>2 DEF ByProvider
    <3> QED BY <3>3 DEF HasAuthor
  <2>3. CASE ~(k \in 1..n) /\ k # q
    <3>1. PICK j \in 1..l : k = q + j
      <4>1. k - q \in 1..l /\ k = q + (k - q)
        BY <1>0, <2>3
      <4> QED BY <4>1
    <3>2. q \in 1..Len(g) /\ j \in 1..Len(g[q].calls)
      <4>1. q \in 1..(q + l)
        BY <1>0
      <4> QED BY <1>2, <1>7, <1>8, <4>1
    <3>3. ByTool(g, k)
      BY <1>10, <3>1, <3>2 DEF ByTool
    <3> QED BY <3>3 DEF HasAuthor
  <2> QED BY <2>1, <2>2, <2>3
<1> QED BY <1>7, <1>9, <1>11 DEF History

LEMMA GrownIs ==
    ASSUME NEW h \in Seq(Messages), NEW m \in Messages, NEW r \in Seq(Messages),
           Len(r) = Len(m.calls), m.calls \in Seq(ToolCalls),
           \A k \in 1..Len(m.calls) : FromTool(r[k], m.calls[k])
    PROVE  Grown(Append(h, m) \o r, h, m)
<1>1. PICK l : l = Len(r) /\ l = Len(m.calls)
  OBVIOUS
<1>2. PICK g : g = Append(h, m) \o r
  OBVIOUS
<1>3. Placed(g, h, m, r)
  BY <1>2, Recorded
<1>4. \A k \in 1..l : FromTool(g[Len(h) + 1 + k], m.calls[k])
  BY <1>1, <1>3 DEF Placed
<1>5. Grown(g, h, m)
  BY <1>1, <1>3, <1>4 DEF Grown, Placed
<1> QED BY <1>2, <1>5

\* The tools of m's calls return these outputs.
Returned(m, outputs) == outputs \in [DOMAIN m.calls -> ToolOutputs]

ResultsOf(m, outputs) ==
    [k \in DOMAIN m.calls |-> ToolResult(m.calls[k], outputs[k])]

LEMMA ResultsAre ==
    ASSUME NEW m \in Messages, m.calls \in Seq(ToolCalls),
           NEW outputs, Returned(m, outputs)
    PROVE  LET r == ResultsOf(m, outputs)
           IN  /\ r \in Seq(Messages) /\ Len(r) = Len(m.calls)
               /\ \A k \in 1..Len(m.calls) : FromTool(r[k], m.calls[k])
<1>2. PICK l \in Nat : l = Len(m.calls) /\ DOMAIN m.calls = 1..l
  BY LenProperties
<1>3. PICK r : r = ResultsOf(m, outputs)
  OBVIOUS
<1>4. ASSUME NEW k \in 1..l PROVE FromTool(r[k], m.calls[k])
  <2>1. PICK call \in ToolCalls, contents \in Seq(Parts) :
           call = m.calls[k] /\ contents = outputs[k]
    <3>1. m.calls[k] \in ToolCalls
      BY <1>2, ElementOfSeq
    <3>2. outputs[k] \in Seq(Parts)
      BY <1>2, ContentsAssumption DEF Returned
    <3> QED BY <3>1, <3>2
  <2>2. r[k] = ToolResult(call, contents)
    BY <1>2, <1>3, <2>1 DEF ResultsOf
  <2> QED BY <2>1, <2>2, BlankIs
<1>5. r \in Seq(Messages) /\ Len(r) = l
  <2>1. \A k \in 1..l : r[k] \in Messages
    BY <1>4 DEF FromTool
  <2>2. DOMAIN r = 1..l /\ r = [k \in 1..l |-> r[k]]
    BY <1>2, <1>3 DEF ResultsOf
  <2> QED BY <2>1, <2>2, MakeSeq
<1> QED BY <1>2, <1>3, <1>4, <1>5

\* An answer and the results of its calls, appended at once.
LEMMA HistoryAnswered ==
    ASSUME NEW h, History(h), h # <<>>, NEW p \in Providers, NEW m,
           FromProvider(p, m, Len(h)), DistinctIds(m.calls),
           NEW outputs, Returned(m, outputs)
    PROVE  LET g == Append(h, m) \o ResultsOf(m, outputs)
           IN  History(g) /\ g # <<>>
<1>1. /\ h \in Seq(Messages) /\ m \in Messages /\ m.calls \in Seq(ToolCalls)
  BY DEF History, FromProvider, CallsFit
<1>2. PICK r : r = ResultsOf(m, outputs)
  OBVIOUS
<1>3. /\ r \in Seq(Messages) /\ Len(r) = Len(m.calls)
      /\ \A k \in 1..Len(m.calls) : FromTool(r[k], m.calls[k])
  BY <1>1, <1>2, ResultsAre
<1>4. Grown(Append(h, m) \o r, h, m)
  BY <1>1, <1>3, GrownIs
<1> QED BY <1>2, <1>4, HistoryGrows

LEMMA InitInv == Init => IInv
<1> SUFFICES ASSUME Init PROVE IInv
  OBVIOUS
<1>1. TypeOK
  <2>1. messages = <<>> /\ <<>> \in Seq(Messages)
    BY EmptySeq DEF Init
  <2> QED BY <2>1, ProviderAssumption DEF Init, TypeOK
<1>2. History(messages)
  BY EmptySeq DEF Init, History
<1>3. Sent
  BY DEF Init, Sent
<1> QED BY <1>1, <1>2, <1>3 DEF IInv

LEMMA StartInv ==
    ASSUME IInv, NEW p \in Providers, NEW contents \in Inputs, Start(p, contents)
    PROVE  IInv'
<1>1. messages' = Append(messages, User(contents))
  BY DEF Start
<1>2. History(messages)' /\ messages' # <<>>
  BY <1>1, HistoryAsked DEF IInv
<1>3. messages' \in Seq(Messages) /\ messages' # <<>>
  BY <1>2 DEF History
<1>4. request = NoRequest
  <2>1. client = "idle"
    BY DEF Start
  <2> QED BY <2>1 DEF IInv, Sent, Providers
<1>5. TypeOK'
  <2>1. run' \in 0..MaxRuns /\ round' \in 0..MaxModelRounds
    BY ProviderAssumption DEF IInv, TypeOK, Start
  <2> QED BY <1>3, <1>4, <2>1 DEF TypeOK, Start
<1>6. Sent'
  BY <1>3, <1>4 DEF Sent, Start
<1> QED BY <1>2, <1>5, <1>6 DEF IInv

LEMMA SendInv ==
    ASSUME IInv, Send
    PROVE  IInv'
<1>1. UNCHANGED <<messages, client, run, round>>
  BY DEF Send
<1>2. /\ client \in Providers /\ messages # <<>> /\ Renderable(client, messages)
      /\ request' = [provider |-> client, body |-> Body(client, messages)]
  BY DEF IInv, TypeOK, Sent, Send
<1>3. TypeOK'
  <2>1. request'.provider = client
    BY <1>2
  <2> QED BY <1>1, <2>1 DEF IInv, TypeOK
<1>4. History(messages)'
  BY <1>1 DEF IInv
<1>5. Sent'
  BY <1>1, <1>2 DEF Sent
<1> QED BY <1>3, <1>4, <1>5 DEF IInv

LEMMA LeaveInv ==
    ASSUME IInv, RefuseHistory \/ Fail
    PROVE  IInv'
<1>1. UNCHANGED <<messages, run, round>> /\ client' = "idle" /\ request' = NoRequest
  BY DEF RefuseHistory, Fail
<1>2. TypeOK'
  BY <1>1 DEF IInv, TypeOK
<1>3. History(messages)'
  BY <1>1 DEF IInv
<1>4. Sent'
  BY <1>1 DEF Sent
<1> QED BY <1>2, <1>3, <1>4 DEF IInv

LEMMA ReceiveInv ==
    ASSUME IInv, client # "idle", NEW reply \in Replies[client], Receive(reply)
    PROVE  IInv'
<1>1. PICK m : m = Parsed(client, reply)
  OBVIOUS
<1>9. DistinctIds(m.calls)
  BY <1>1 DEF Receive
<1>2. /\ client \in Providers /\ messages # <<>> /\ Parses(client, reply)
      /\ run \in Nat /\ Len(messages) \in Nat
  BY ProviderAssumption, LenProperties DEF IInv, TypeOK, Sent, Receive
<1>3. FromProvider(client, m, Len(messages))
  BY <1>1, <1>2, ParsedFits
<1>4. PICK outputs : Returned(m, outputs) /\ Record(m, outputs)
  BY <1>1 DEF Receive, Returned
<1>5. History(messages)' /\ messages' # <<>>
  <2>1. messages' = Append(messages, m) \o ResultsOf(m, outputs)
    BY <1>4 DEF Record, ResultsOf
  <2>2. History(messages)
    BY DEF IInv
  <2>3. PICK g : g = Append(messages, m) \o ResultsOf(m, outputs)
    OBVIOUS
  <2>4. History(g) /\ g # <<>>
    BY <1>2, <1>3, <1>4, <1>9, <2>2, <2>3, HistoryAnswered
  <2> QED BY <2>1, <2>3, <2>4
<1>6. /\ run' = run /\ request' = NoRequest
      /\ client' \in Providers \cup {"idle"} /\ round' \in 0..MaxModelRounds
  BY <1>1, <1>2, ProviderAssumption DEF IInv, TypeOK, Receive
<1>7. TypeOK'
  BY <1>5, <1>6 DEF IInv, TypeOK, History
<1>8. Sent'
  BY <1>5, <1>6 DEF Sent
<1> QED BY <1>5, <1>7, <1>8 DEF IInv

LEMMA IdleInv ==
    ASSUME IInv, ClearMessages \/ Restore
    PROVE  IInv'
<1>1. /\ client = "idle" /\ request = NoRequest /\ UNCHANGED <<client, request, round>>
      /\ run' \in 0..MaxRuns
  BY ProviderAssumption DEF IInv, TypeOK, Sent, Providers, ClearMessages, Restore
<1>2. messages' \in {<<>>, messages}
  BY DEF ClearMessages, Restore
<1>3. History(messages')
  <2>1. History(<<>>)
    BY EmptySeq DEF History
  <2> QED BY <1>2, <2>1 DEF IInv
<1>4. TypeOK'
  BY <1>1, <1>3 DEF IInv, TypeOK, History
<1>5. Sent'
  BY <1>1 DEF Sent
<1> QED BY <1>3, <1>4, <1>5 DEF IInv

LEMMA StutterInv ==
    ASSUME IInv, UNCHANGED vars
    PROVE  IInv'
<1>1. UNCHANGED <<messages, client, run, round, request>>
  BY DEF vars
<1>2. TypeOK' /\ History(messages)' /\ Sent'
  BY <1>1 DEF IInv, TypeOK, Sent
<1> QED BY <1>2 DEF IInv

\* What holds of a session however often and by whomever it is served.
THEOREM Consistent == Spec => []IInv
<1>1. Init => IInv
  BY InitInv
<1>2. IInv /\ [Next]_vars => IInv'
  <2> SUFFICES ASSUME IInv, [Next]_vars PROVE IInv'
    OBVIOUS
  <2>1. CASE \E p \in Providers, contents \in Inputs : Start(p, contents)
    BY <2>1, StartInv
  <2>2. CASE Send
    BY <2>2, SendInv
  <2>3. CASE RefuseHistory \/ Fail
    BY <2>3, LeaveInv
  <2>4. CASE client # "idle" /\ \E reply \in Replies[client] : Receive(reply)
    BY <2>4, ReceiveInv
  <2>5. CASE ClearMessages \/ Restore
    BY <2>5, IdleInv
  <2>6. CASE UNCHANGED vars
    BY <2>6, StutterInv
  <2> QED BY <2>1, <2>2, <2>3, <2>4, <2>5, <2>6 DEF Next
<1> QED BY <1>1, <1>2, PTL DEF Spec

\* Messages, answers and requests keep their types.
THEOREM SessionTypes == Spec => []TypeOK
<1>1. IInv => TypeOK
  BY DEF IInv
<1> QED BY <1>1, Consistent, PTL


(***************************************************************************)
(* What a provider answered, it takes back; and made ids are unique.       *)
(***************************************************************************)
LEMMA Answered ==
    ASSUME NEW h, History(h), NEW k \in 1..Len(h), ~Silent(h[k])
    PROVE  /\ \E p \in Providers : FromProvider(p, h[k], k - 1)
           /\ DistinctIds(h[k].calls)
<1>1. HasAuthor(h, k)
  BY DEF History
<1>2. ~FromUser(h[k])
  BY DEF FromUser
<1>3. ~ByTool(h, k)
  BY DEF ByTool, HasResult, FromTool
<1> QED BY <1>1, <1>2, <1>3 DEF HasAuthor, ByProvider

LEMMA OwnAccepted ==
    ASSUME NEW p \in Providers, NEW q \in Providers, NEW m, NEW size,
           FromProvider(q, m, size), m.native.provider = p
    PROVE  Accepts(p, m)
<1>1. q = p /\ m.role = "assistant" /\ IsNative(m, p)
  BY DEF FromProvider, IsNative
<1>2. CASE p = "openai"
  BY <1>1, <1>2 DEF Accepts, OpenAIAccepts
<1>3. CASE p = "anthropic"
  BY <1>1, <1>3 DEF Accepts, AnthropicAccepts
<1>4. CASE p = "gemini"
  BY <1>1, <1>4 DEF Accepts, GeminiAccepts
<1>5. CASE p = "openai_compatible"
  <2>1. m.native.items \in Seq(Sound(p))
    BY <1>1 DEF FromProvider
  <2>2. PICK n, items : /\ items = m.native.items /\ n \in Nat /\ n = Len(items)
                         /\ DOMAIN items = 1..n
    BY <2>1, LenProperties
  <2>3. \A k \in 1..n : items[k] \in Sound(p)
    BY <2>1, <2>2, ElementOfSeq
  <2>4. Every(m.native.items, LAMBDA i : i.kind = "audio" => i.id # NoId)
    BY <1>5, <2>2, <2>3 DEF Every, Sound
  <2> QED BY <1>1, <1>5, <2>4 DEF Accepts, CompatibleAccepts
<1> QED BY <1>2, <1>3, <1>4, <1>5 DEF Providers

\* Whatever a parser accepts its own adapter can send back, so a provider's
\* own response never makes a session unusable for it.
THEOREM OwnReplies == Spec => []OwnRepliesAreAccepted
<1>1. ASSUME IInv PROVE OwnRepliesAreAccepted
  <2>1. History(messages) /\ DOMAIN messages = 1..Len(messages)
    BY <1>1, LenProperties DEF IInv, History
  <2>2. ASSUME NEW p \in Providers, NEW k \in 1..Len(messages),
               messages[k].native.provider = p
        PROVE  Accepts(p, messages[k])
    <3>1. ~Silent(messages[k])
      BY <2>2 DEF Silent, NoNative, Native, Providers
    <3>2. PICK q \in Providers : FromProvider(q, messages[k], k - 1)
      BY <2>1, <3>1, Answered
    <3> QED BY <2>2, <3>2, OwnAccepted
  <2> QED BY <2>1, <2>2 DEF OwnRepliesAreAccepted
<1> QED BY <1>1, Consistent, PTL

LEMMA CalledIsOwn ==
    ASSUME NEW p, NEW items \in Seq(Sound(p)), NEW k \in 1..Len(Called(p, items))
    PROVE  Called(p, items)[k] \in Own(p) /\ Called(p, items)[k] \in Sound(p)
<1>1. PICK kinds : Called(p, items) = OfKind(items, kinds)
  BY DEF Called, CompatibleCalled
<1>2. Called(p, items)[k] \in Sound(p)
  BY <1>1, KindsOf
<1> QED BY <1>2 DEF Sound

\* A made id holds the size of the history it was made for.
LEMMA MadeHere ==
    ASSUME NEW h, History(h), NEW k \in 1..Len(h), NEW i \in 1..Len(h[k].calls),
           IsMade(h[k].calls[i].id)
    PROVE  h[k].calls[i].id[3] = k - 1 /\ DistinctIds(h[k].calls)
<1>1. ~Silent(h[k])
  BY EmptySeq DEF Silent
<1>2. PICK p \in Providers : FromProvider(p, h[k], k - 1)
  BY <1>1, Answered
<1>3. PICK c, items : c = h[k].calls[i] /\ items = h[k].native.items
  OBVIOUS
<1>4. /\ items \in Seq(Sound(p)) /\ i \in 1..Len(Called(p, items))
      /\ c.metadata = Called(p, items)[i] /\ IdFits(c, k - 1)
  BY <1>2, <1>3 DEF FromProvider, CallsFit
<1>5. c.metadata \in Own(p)
  BY <1>4, CalledIsOwn
<1>6. ~IsMade(c.metadata.id)
  BY <1>5 DEF Own, Owns
<1>7. c.id[3] = k - 1
  BY <1>3, <1>4, <1>6 DEF IdFits
<1> QED BY <1>1, <1>3, <1>7, Answered

\* No call is without an id, the calls of a response have different ids, and
\* ids that adapters make up never collide in a history.
THEOREM CallsDiffer == Spec => []CallIdsAreUnique
<1>1. ASSUME IInv PROVE CallIdsAreUnique
  <2>1. /\ History(messages) /\ messages \in Seq(Messages)
        /\ DOMAIN messages = 1..Len(messages) /\ Len(messages) \in Nat
    BY <1>1, LenProperties DEF IInv, History
  <2>2. ASSUME NEW k \in 1..Len(messages)
        PROVE  DOMAIN messages[k].calls = 1..Len(messages[k].calls)
    <3>1. PICK m \in Messages : m = messages[k]
      BY <2>1, ElementOfSeq
    <3>2. m.calls \in Seq(ToolCalls)
      BY DEF Messages
    <3> QED BY <3>1, <3>2, LenProperties
  <2>3. ASSUME NEW k \in 1..Len(messages), NEW l \in 1..Len(messages),
               NEW i \in 1..Len(messages[k].calls),
               NEW j \in 1..Len(messages[l].calls),
               IsMade(messages[k].calls[i].id),
               messages[k].calls[i].id = messages[l].calls[j].id
        PROVE  k = l /\ i = j
    <3>1. messages[k].calls[i].id[3] = k - 1 /\ DistinctIds(messages[k].calls)
      BY <2>1, <2>3, MadeHere
    <3>2. messages[l].calls[j].id[3] = l - 1
      BY <2>1, <2>3, MadeHere
    <3>3. k = l
      <4>1. k - 1 = l - 1
        BY <2>3, <3>1, <3>2
      <4> QED BY <2>1, <4>1
    <3>4. i = j
      BY <2>2, <2>3, <3>1, <3>3 DEF DistinctIds, IsInjective, Each
    <3> QED BY <3>3, <3>4
  <2>4. ASSUME NEW k \in DOMAIN messages, NEW l \in DOMAIN messages,
               NEW i \in DOMAIN messages[k].calls,
               NEW j \in DOMAIN messages[l].calls,
               IsMade(messages[k].calls[i].id),
               messages[k].calls[i].id = messages[l].calls[j].id
        PROVE  k = l /\ i = j
    <3>1. k \in 1..Len(messages) /\ l \in 1..Len(messages)
      BY <2>1
    <3>2. i \in 1..Len(messages[k].calls) /\ j \in 1..Len(messages[l].calls)
      BY <2>2, <3>1
    <3> QED BY <2>3, <2>4, <3>1, <3>2
  <2>5. ASSUME NEW k \in DOMAIN messages, NEW i \in DOMAIN messages[k].calls,
               NEW j \in DOMAIN messages[k].calls
        PROVE  /\ messages[k].calls[i].id # NoId
               /\ messages[k].calls[i].id = messages[k].calls[j].id => i = j
    <3>1. k \in 1..Len(messages) /\ ~Silent(messages[k])
      BY <2>1, <2>5, EmptySeq DEF Silent
    <3>2. DistinctIds(messages[k].calls)
      BY <2>1, <3>1, Answered
    <3> QED BY <2>5, <3>2 DEF DistinctIds, Every, IsInjective, Each
  <2> QED BY <2>4, <2>5 DEF CallIdsAreUnique
<1> QED BY <1>1, Consistent, PTL

-----------------------------------------------------------------------------
(***************************************************************************)
(* Requests.  f holds the turns that the first 0, 1, ..., n messages give. *)
(***************************************************************************)
Renders(p, h, n, f) ==
    /\ f[0] = <<>>
    /\ \A k \in 1..n : f[k] = Added(p, f[k - 1], h[k])

LEMMA RendersExist ==
    ASSUME NEW p, NEW h, NEW n \in Nat
    PROVE  \E f : Renders(p, h, n, f)
<1>1. PICK T : T = {k \in Nat : \E f : Renders(p, h, k, f)}
  OBVIOUS
<1>2. 0 \in T
  <2>1. PICK f : f = [k \in 0..0 |-> <<>>]
    OBVIOUS
  <2>2. Renders(p, h, 0, f)
    BY <2>1 DEF Renders
  <2> QED BY <1>1, <2>2
<1>3. ASSUME NEW m \in Nat, m \in T PROVE m + 1 \in T
  <2>1. PICK f : Renders(p, h, m, f)
    BY <1>1, <1>3
  <2>2. PICK x : x = Added(p, f[m], h[m + 1])
    OBVIOUS
  <2>3. PICK g : g = [k \in 0..(m + 1) |-> IF k = m + 1 THEN x ELSE f[k]]
    OBVIOUS
  <2>4. ASSUME NEW k \in 1..(m + 1) PROVE g[k] = Added(p, g[k - 1], h[k])
    <3>1. CASE k = m + 1
      <4>1. k - 1 = m /\ m \in 0..(m + 1) /\ m # m + 1 /\ k \in 0..(m + 1)
        BY <3>1
      <4>2. g[k] = x /\ g[k - 1] = f[m]
        BY <2>3, <3>1, <4>1
      <4> QED BY <2>2, <3>1, <4>2
    <3>2. CASE k # m + 1
      <4>1. k \in 1..m /\ k \in 0..(m + 1) /\ k - 1 \in 0..(m + 1) /\ k - 1 # m + 1
        BY <3>2
      <4>2. g[k] = f[k] /\ g[k - 1] = f[k - 1]
        BY <2>3, <3>2, <4>1
      <4>3. f[k] = Added(p, f[k - 1], h[k])
        BY <2>1, <4>1 DEF Renders
      <4> QED BY <4>2, <4>3
    <3> QED BY <3>1, <3>2
  <2>5. g[0] = <<>>
    <3>1. 0 \in 0..(m + 1) /\ 0 # m + 1
      OBVIOUS
    <3> QED BY <2>1, <2>3, <3>1 DEF Renders
  <2>6. Renders(p, h, m + 1, g)
    BY <2>4, <2>5 DEF Renders
  <2> QED BY <1>1, <2>6
<1>4. n \in T
  BY <1>2, <1>3, EveryNumber
<1> QED BY <1>1, <1>4

LEMMA BodyIs ==
    ASSUME NEW p, NEW h, NEW n \in Nat, n = Len(h)
    PROVE  \E f : Renders(p, h, n, f) /\ Body(p, h) = f[n]
<1> DEFINE Rule(e) == [k \in 0..n |-> IF k = 0 THEN <<>> ELSE Added(p, e[k - 1], h[k])]
<1>1. PICK f : Renders(p, h, n, f)
  BY RendersExist
<1>2. PICK g : g = [k \in 0..n |-> f[k]]
  OBVIOUS
<1>3. g = Rule(g)
  <2>1. ASSUME NEW k \in 0..n
        PROVE  f[k] = IF k = 0 THEN <<>> ELSE Added(p, g[k - 1], h[k])
    <3>1. CASE k = 0
      BY <1>1, <3>1 DEF Renders
    <3>2. CASE k # 0
      <4>1. k \in 1..n /\ k - 1 \in 0..n
        BY <3>2
      <4>2. f[k] = Added(p, f[k - 1], h[k]) /\ g[k - 1] = f[k - 1]
        BY <1>1, <1>2, <4>1 DEF Renders
      <4> QED BY <3>2, <4>2
    <3> QED BY <3>1, <3>2
  <2> QED BY <1>2, <2>1
<1>4. PICK b : b = (CHOOSE e : e = Rule(e)) /\ b = Rule(b)
  BY <1>3
<1>5. Body(p, h) = b[n]
  BY <1>4 DEF Body
<1>6. Renders(p, h, n, b)
  <2>1. b[0] = <<>>
    BY <1>4
  <2>2. ASSUME NEW k \in 1..n PROVE b[k] = Added(p, b[k - 1], h[k])
    <3>1. k \in 0..n /\ k # 0
      OBVIOUS
    <3> QED BY <1>4, <3>1
  <2> QED BY <2>1, <2>2 DEF Renders
<1> QED BY <1>5, <1>6

\* What holds of the turns after each message holds of the whole body.
BlockItems == Items \cup {[i EXCEPT !.kind = "audio_id"] : i \in Items}
                    \cup {[i EXCEPT !.kind = "item_id"] : i \in Items}
Blocks == [kind : {"native", "call", "result", "text", "image", "audio", "file"},
           id : CallIds, item : BlockItems]
TurnsOf(B) == [role : {"item", "user", "assistant", "model", "tool", "function"},
               blocks : Seq(B)]
Turns == TurnsOf(Blocks)

LEMMA BlockTypes ==
    /\ \A i \in Items : Replayed(i) \in Blocks /\ CompatibleReplay(i) \in Blocks
    /\ \A c \in Parts : Rendered(c) \in Blocks
    /\ \A id \in CallIds : CallBlock(id) \in Blocks /\ ResultBlock(id) \in Blocks
    /\ \A call \in ToolCalls : GeminiCall(call) \in Blocks /\ OpenAICall(call) \in Blocks
<1>1. ASSUME NEW i \in Items PROVE Replayed(i) \in Blocks
  BY DEF Replayed, Block, Blocks, BlockItems, Items
<1>2. ASSUME NEW i \in Items PROVE CompatibleReplay(i) \in Blocks
  <2>1. PICK j : j = [i EXCEPT !.kind = "audio_id"]
    OBVIOUS
  <2>2. j \in BlockItems /\ j.id = i.id /\ i.id \in CallIds
    BY <2>1 DEF BlockItems, Items
  <2>3. Replayed(j) \in Blocks
    BY <2>2 DEF Replayed, Block, Blocks
  <2> QED BY <1>1, <2>1, <2>3 DEF CompatibleReplay
<1>3. ASSUME NEW id \in CallIds PROVE CallBlock(id) \in Blocks /\ ResultBlock(id) \in Blocks
  BY NoItemType DEF CallBlock, ResultBlock, Block, Blocks, BlockItems
<1>4. ASSUME NEW c \in Parts PROVE Rendered(c) \in Blocks
  <2>1. c.item \in Items /\ c.type \in {"text", "image", "audio", "file", "extension"}
    BY DEF Parts
  <2>2. CASE c.type = "extension"
    BY <1>1, <2>1, <2>2 DEF Rendered
  <2>3. CASE c.type # "extension"
    <3>1. Block(c.type, NoId, NoItem) \in Blocks
      BY <2>1, <2>3, NoItemType DEF Block, Blocks, BlockItems
    <3> QED BY <2>3, <3>1 DEF Rendered
  <2> QED BY <2>2, <2>3
<1>5. ASSUME NEW call \in ToolCalls PROVE GeminiCall(call) \in Blocks
  BY <1>1, <1>3 DEF GeminiCall, ToolCalls
<1>6. ASSUME NEW call \in ToolCalls PROVE OpenAICall(call) \in Blocks
  <2>1. PICK j : j = [call.metadata EXCEPT !.kind = "item_id"]
    OBVIOUS
  <2>2. j \in BlockItems /\ call.id \in CallIds
    BY <2>1 DEF BlockItems, ToolCalls
  <2>3. Block("call", call.id, j) \in Blocks
    BY <2>2 DEF Block, Blocks
  <2> QED BY <1>3, <2>1, <2>2, <2>3 DEF OpenAICall
<1> QED BY <1>1, <1>2, <1>3, <1>4, <1>5, <1>6

LEMMA EachIs ==
    ASSUME NEW A, NEW S, NEW s \in Seq(A), NEW f, DOMAIN f = DOMAIN s,
           f = [k \in DOMAIN s |-> f[k]], \A k \in DOMAIN s : f[k] \in S
    PROVE  f \in Seq(S) /\ Len(f) = Len(s)
<1>1. PICK n \in Nat : n = Len(s) /\ DOMAIN s = 1..n
  BY LenProperties
<1> QED BY <1>1, MakeSeq

LEMMA FrontLast ==
    ASSUME NEW A, NEW s \in Seq(A), s # <<>>
    PROVE  /\ Len(s) \in Nat \ {0}
           /\ Front(s) \in Seq(A) /\ Len(Front(s)) = Len(s) - 1
           /\ \A k \in 1..(Len(s) - 1) : Front(s)[k] = s[k]
           /\ Last(s) = s[Len(s)] /\ Last(s) \in A
           /\ s = Append(Front(s), Last(s))
<1>1. PICK n \in Nat : n = Len(s) /\ n # 0
  BY EmptySeq
<1>2. PICK f : f = SubSeq(s, 1, n - 1)
  OBVIOUS
<1>3. f = Front(s) /\ Last(s) = s[n]
  BY <1>1, <1>2 DEF Front, Last
<1>4. 1 \in 1..n /\ n \in 1..n /\ s[n] \in A
  BY <1>1, ElementOfSeq
<1>5. /\ f \in Seq(A) /\ Len(f) = n - 1
      /\ \A k \in 1..(n - 1) : f[k] = s[k]
  <2>1. \A k \in 1..(n - 1) : s[k] \in A
    BY <1>1, ElementOfSeq
  <2>2. /\ f \in Seq(A)
        /\ Len(f) = IF 1 <= n - 1 THEN n - 1 - 1 + 1 ELSE 0
        /\ \A k \in 1..(n - 1 - 1 + 1) : f[k] = s[1 + k - 1]
    BY <1>1, <1>2, <2>1, SubSeqProperties
  <2> QED BY <1>1, <2>2
<1>6. s = Append(f, s[n])
  <2>1. SubSeq(s, 1, n) = f \o <<s[n]>>
    BY <1>1, <1>2, <1>4, SubSeqRecursiveSecond
  <2>2. SubSeq(s, 1, n) = s
    BY <1>1, SubSeqFull
  <2>3. Append(f, s[n]) = f \o <<s[n]>>
    BY <1>4, <1>5, AppendIsConcat
  <2> QED BY <2>1, <2>2, <2>3
<1> QED BY <1>1, <1>3, <1>4, <1>5, <1>6

-----------------------------------------------------------------------------
(***************************************************************************)
(* The blocks a message becomes, and the role of the turn they are put in. *)
(***************************************************************************)
ShownBlocks(m) == Each(m.contents, Rendered)
ReplayBlocks(p, m) ==
    IF p = "openai_compatible" THEN Each(m.native.items, CompatibleReplay)
                               ELSE Each(m.native.items, Replayed)
CallBlocks(p, m) ==
    IF p = "gemini" THEN Each(m.calls, GeminiCall)
    ELSE IF p = "openai" THEN Each(m.calls, OpenAICall)
                    ELSE Each(m.calls, LAMBDA c : CallBlock(c.id))
ResultId(p, m) ==
    IF p = "gemini" THEN GeminiResponseId(m)
    ELSE IF p = "openai_compatible" /\ IsLegacy(m.metadata) THEN NoId
    ELSE m.tool_call_id

BlocksFor(p, m) ==
    IF IsNative(m, p) THEN ReplayBlocks(p, m)
    ELSE IF m.role = "tool" THEN <<ResultBlock(ResultId(p, m))>>
    ELSE IF m.role = "assistant" THEN ShownBlocks(m) \o CallBlocks(p, m)
    ELSE ShownBlocks(m)

RoleFor(p, m) ==
    IF m.role = "assistant" THEN (IF p = "gemini" THEN "model" ELSE "assistant")
    ELSE IF p # "openai_compatible" \/ m.role = "user" THEN "user"
    ELSE IF IsLegacy(m.metadata) THEN "function" ELSE "tool"

LEMMA TurnIsOf ==
    ASSUME NEW B, NEW blocks \in Seq(B),
           NEW role \in {"item", "user", "assistant", "model", "tool", "function"}
    PROVE  /\ Turn(role, blocks) \in TurnsOf(B)
           /\ Turn(role, blocks).role = role /\ Turn(role, blocks).blocks = blocks
BY DEF Turn, TurnsOf

LEMMA TurnIs ==
    ASSUME NEW role \in {"item", "user", "assistant", "model", "tool", "function"},
           NEW blocks \in Seq(Blocks)
    PROVE  /\ Turn(role, blocks) \in Turns
           /\ Turn(role, blocks).role = role /\ Turn(role, blocks).blocks = blocks
BY TurnIsOf DEF Turns

LEMMA MessageIs ==
    ASSUME NEW m \in Messages
    PROVE  /\ m.role \in {"user", "assistant", "tool"}
           /\ m.contents \in Seq(Parts) /\ m.calls \in Seq(ToolCalls)
           /\ m.native.items \in Seq(Items) /\ m.native.listed \in BOOLEAN
           /\ m.native.role \in NativeRoles
           /\ m.tool_call_id \in CallIds /\ m.metadata \in Items
<1>1. m.native \in Natives
  BY DEF Messages
<1> QED BY <1>1 DEF Messages, Natives

LEMMA ResultIdType ==
    ASSUME NEW p, NEW m \in Messages
    PROVE  ResultBlock(ResultId(p, m)) \in Blocks
<1>1. ResultId(p, m) \in CallIds
  BY MessageIs, NoItemType DEF ResultId, GeminiResponseId
<1> QED BY <1>1, BlockTypes

LEMMA ShownType ==
    ASSUME NEW m \in Messages
    PROVE  ShownBlocks(m) \in Seq(Blocks) /\ Len(ShownBlocks(m)) = Len(m.contents)
<1>1. PICK s, f :
         s \in Seq(Parts) /\ s = m.contents /\ f = [k \in DOMAIN s |-> Rendered(s[k])]
  BY MessageIs
<1>2. \A k \in DOMAIN s : s[k] \in Parts
  BY <1>1, LenProperties
<1>3. \A k \in DOMAIN s : f[k] \in Blocks
  BY <1>1, <1>2, BlockTypes
<1>4. f \in Seq(Blocks) /\ Len(f) = Len(s)
  BY <1>1, <1>3, EachIs
<1> QED BY <1>1, <1>4 DEF ShownBlocks, Each

LEMMA ReplayType ==
    ASSUME NEW p, NEW m \in Messages
    PROVE  /\ ReplayBlocks(p, m) \in Seq(Blocks)
           /\ Len(ReplayBlocks(p, m)) = Len(m.native.items)
<1>1. PICK s, f, g :
         /\ s \in Seq(Items) /\ s = m.native.items
         /\ f = [k \in DOMAIN s |-> Replayed(s[k])]
         /\ g = [k \in DOMAIN s |-> CompatibleReplay(s[k])]
  BY MessageIs
<1>2. \A k \in DOMAIN s : s[k] \in Items
  BY <1>1, LenProperties
<1>3. \A k \in DOMAIN s : f[k] \in Blocks /\ g[k] \in Blocks
  BY <1>1, <1>2, BlockTypes
<1>4. f \in Seq(Blocks) /\ Len(f) = Len(s)
  <2>1. /\ DOMAIN f = DOMAIN s /\ f = [k \in DOMAIN s |-> f[k]]
        /\ \A k \in DOMAIN s : f[k] \in Blocks
    BY <1>1, <1>3
  <2> QED BY <2>1, EachIs
<1>5. g \in Seq(Blocks) /\ Len(g) = Len(s)
  <2>1. /\ DOMAIN g = DOMAIN s /\ g = [k \in DOMAIN s |-> g[k]]
        /\ \A k \in DOMAIN s : g[k] \in Blocks
    BY <1>1, <1>3
  <2> QED BY <2>1, EachIs
<1> QED BY <1>1, <1>4, <1>5 DEF ReplayBlocks, Each

LEMMA CallsType ==
    ASSUME NEW p, NEW m \in Messages
    PROVE  /\ CallBlocks(p, m) \in Seq(Blocks)
           /\ Len(CallBlocks(p, m)) = Len(m.calls)
<1>1. PICK s, f, g, o :
         /\ s \in Seq(ToolCalls) /\ s = m.calls
         /\ o = [k \in DOMAIN s |-> OpenAICall(s[k])]
         /\ f = [k \in DOMAIN s |-> CallBlock(s[k].id)]
         /\ g = [k \in DOMAIN s |-> GeminiCall(s[k])]
  BY MessageIs
<1>2. \A k \in DOMAIN s : s[k] \in ToolCalls /\ s[k].id \in CallIds
  <2>1. \A k \in DOMAIN s : s[k] \in ToolCalls
    BY <1>1, LenProperties
  <2> QED BY <2>1 DEF ToolCalls
<1>3. \A k \in DOMAIN s : f[k] \in Blocks /\ g[k] \in Blocks /\ o[k] \in Blocks
  BY <1>1, <1>2, BlockTypes
<1>4. f \in Seq(Blocks) /\ Len(f) = Len(s)
  <2>1. /\ DOMAIN f = DOMAIN s /\ f = [k \in DOMAIN s |-> f[k]]
        /\ \A k \in DOMAIN s : f[k] \in Blocks
    BY <1>1, <1>3
  <2> QED BY <2>1, EachIs
<1>5. g \in Seq(Blocks) /\ Len(g) = Len(s)
  <2>1. /\ DOMAIN g = DOMAIN s /\ g = [k \in DOMAIN s |-> g[k]]
        /\ \A k \in DOMAIN s : g[k] \in Blocks
    BY <1>1, <1>3
  <2> QED BY <2>1, EachIs
<1>6. o \in Seq(Blocks) /\ Len(o) = Len(s)
  <2>1. /\ DOMAIN o = DOMAIN s /\ o = [k \in DOMAIN s |-> o[k]]
        /\ \A k \in DOMAIN s : o[k] \in Blocks
    BY <1>1, <1>3
  <2> QED BY <2>1, EachIs
<1> QED BY <1>1, <1>4, <1>5, <1>6 DEF CallBlocks, Each

LEMMA BlocksType ==
    ASSUME NEW p, NEW m \in Messages
    PROVE  BlocksFor(p, m) \in Seq(Blocks)
<1>1. ShownBlocks(m) \o CallBlocks(p, m) \in Seq(Blocks)
  BY ShownType, CallsType, ConcatProperties
<1>2. <<ResultBlock(ResultId(p, m))>> \in Seq(Blocks)
  <2>1. PICK b \in Blocks : b = ResultBlock(ResultId(p, m))
    BY ResultIdType
  <2>2. <<b>> \in Seq(Blocks)
    OBVIOUS
  <2> QED BY <2>1, <2>2
<1> QED BY <1>1, <1>2, ShownType, ReplayType DEF BlocksFor

LEMMA RoleType ==
    ASSUME NEW p, NEW m
    PROVE  RoleFor(p, m) \in {"item", "user", "assistant", "model", "tool", "function"}
BY DEF RoleFor

LEMMA AddedAnthropic ==
    ASSUME NEW turns, NEW m \in Messages
    PROVE  Added("anthropic", turns, m)
             = MergeTurn(turns, RoleFor("anthropic", m), BlocksFor("anthropic", m))
<1>1. Added("anthropic", turns, m) = AppendAnthropic(turns, m)
  BY DEF Added
<1>2. CASE m.role = "assistant"
  BY <1>1, <1>2 DEF AppendAnthropic, IsNative, RoleFor, BlocksFor, ReplayBlocks,
                    ShownBlocks, CallBlocks, Each
<1>3. CASE m.role = "tool"
  BY <1>1, <1>3 DEF AppendAnthropic, IsNative, RoleFor, BlocksFor, ResultId
<1>4. CASE m.role = "user"
  BY <1>1, <1>4 DEF AppendAnthropic, IsNative, RoleFor, BlocksFor, ShownBlocks
<1> QED BY <1>2, <1>3, <1>4, MessageIs

LEMMA AddedGemini ==
    ASSUME NEW turns, NEW m \in Messages
    PROVE  IF IsNative(m, "gemini") /\ ~m.native.listed
           THEN Added("gemini", turns, m) = turns
           ELSE Added("gemini", turns, m)
                  = MergeTurn(turns, RoleFor("gemini", m), BlocksFor("gemini", m))
<1>1. Added("gemini", turns, m) = AppendGemini(turns, m)
  BY DEF Added
<1>2. CASE m.role = "assistant"
  <2>1. GeminiRole(m.native) = "model"
    BY MessageIs DEF GeminiRole, NativeRoles
  <2> QED BY <1>1, <1>2, <2>1 DEF AppendGemini, IsNative, RoleFor, BlocksFor,
                    ReplayBlocks, ShownBlocks, CallBlocks, Each
<1>3. CASE m.role = "tool"
  BY <1>1, <1>3 DEF AppendGemini, IsNative, RoleFor, BlocksFor, ResultId
<1>4. CASE m.role = "user"
  BY <1>1, <1>4 DEF AppendGemini, IsNative, RoleFor, BlocksFor, ShownBlocks
<1> QED BY <1>2, <1>3, <1>4, MessageIs

LEMMA AddedCompatible ==
    ASSUME NEW turns, NEW m \in Messages
    PROVE  Added("openai_compatible", turns, m)
             = Append(turns, Turn(RoleFor("openai_compatible", m),
                                  BlocksFor("openai_compatible", m)))
<1>1. Added("openai_compatible", turns, m) = AppendCompatible(turns, m)
  BY DEF Added
<1>2. CASE m.role = "assistant"
  BY <1>1, <1>2 DEF AppendCompatible, IsNative, RoleFor, BlocksFor, ReplayBlocks,
                    ShownBlocks, CallBlocks, Each
<1>3. CASE m.role = "tool"
  BY <1>1, <1>3 DEF AppendCompatible, IsNative, RoleFor, BlocksFor, ResultId
<1>4. CASE m.role = "user"
  BY <1>1, <1>4 DEF AppendCompatible, IsNative, RoleFor, BlocksFor, ShownBlocks
<1> QED BY <1>2, <1>3, <1>4, MessageIs

LEMMA MergeTypeOf ==
    ASSUME NEW B, NEW turns \in Seq(TurnsOf(B)), NEW blocks \in Seq(B),
           NEW role \in {"item", "user", "assistant", "model", "tool", "function"}
    PROVE  MergeTurn(turns, role, blocks) \in Seq(TurnsOf(B))
<1>1. CASE turns # <<>> /\ Last(turns).role = role
  <2>1. Front(turns) \in Seq(TurnsOf(B)) /\ Last(turns) \in TurnsOf(B)
    BY <1>1, FrontLast
  <2>2. Last(turns).blocks \o blocks \in Seq(B)
    BY <2>1, ConcatProperties DEF TurnsOf
  <2>3. Append(Front(turns), Turn(role, Last(turns).blocks \o blocks)) \in Seq(TurnsOf(B))
    BY <2>1, <2>2, TurnIsOf, AppendProperties
  <2> QED BY <1>1, <2>3 DEF MergeTurn
<1>2. CASE ~(turns # <<>> /\ Last(turns).role = role)
  BY <1>2, TurnIsOf, AppendProperties DEF MergeTurn
<1> QED BY <1>1, <1>2

LEMMA MergeType ==
    ASSUME NEW turns \in Seq(Turns),
           NEW role \in {"item", "user", "assistant", "model", "tool", "function"},
           NEW blocks \in Seq(Blocks)
    PROVE  MergeTurn(turns, role, blocks) \in Seq(Turns)
BY MergeTypeOf DEF Turns

-----------------------------------------------------------------------------
(***************************************************************************)
(* Turns alternate.                                                        *)
(***************************************************************************)
Orderly(turns) ==
    /\ turns \in Seq(Turns) /\ turns # <<>>
    /\ turns[1].role = "user"
    /\ \A k \in 1..(Len(turns) - 1) : turns[k].role # turns[k + 1].role

LEMMA MergeOrderly ==
    ASSUME NEW turns, Orderly(turns),
           NEW role \in {"item", "user", "assistant", "model", "tool", "function"},
           NEW blocks \in Seq(Blocks)
    PROVE  /\ Orderly(MergeTurn(turns, role, blocks))
           /\ Last(MergeTurn(turns, role, blocks)).role = role
<1>1. PICK g : g = MergeTurn(turns, role, blocks)
  OBVIOUS
<1>2. g \in Seq(Turns)
  BY <1>1, MergeType DEF Orderly
<1>3. PICK n \in Nat : n = Len(turns) /\ n # 0 /\ Last(turns) = turns[n]
  BY FrontLast DEF Orderly
<1>4. CASE turns[n].role = role
  <2>1. PICK s \in Seq(Turns), t \in Turns :
           /\ s = Front(turns) /\ t = Turn(role, turns[n].blocks \o blocks)
    <3>1. Front(turns) \in Seq(Turns) /\ turns[n] \in Turns
      BY <1>3, FrontLast DEF Orderly
    <3>2. turns[n].blocks \o blocks \in Seq(Blocks)
      BY <3>1, ConcatProperties DEF Turns, TurnsOf
    <3> QED BY <3>1, <3>2, TurnIs
  <2>2. g = Append(s, t) /\ t.role = role
    BY <1>1, <1>3, <1>4, <2>1 DEF MergeTurn, Turn, Orderly
  <2>3. Len(s) = n - 1 /\ \A k \in 1..(n - 1) : s[k] = turns[k]
    BY <1>3, <2>1, FrontLast DEF Orderly
  <2>4. Len(g) = n /\ g[n] = t /\ g # <<>> /\ \A k \in 1..(n - 1) : g[k] = turns[k]
    BY <1>3, <2>2, <2>3, AppendProperties
  <2>5. \A k \in 1..n : g[k].role = turns[k].role
    <3>1. ASSUME NEW k \in 1..n PROVE g[k].role = turns[k].role
      <4>1. CASE k = n
        BY <1>4, <2>2, <2>4, <4>1
      <4>2. CASE k # n
        <5>1. k \in 1..(n - 1)
          BY <1>3, <4>2
        <5> QED BY <2>4, <5>1
      <4> QED BY <4>1, <4>2
    <3> QED BY <3>1
  <2>6. ASSUME NEW k \in 1..(n - 1) PROVE g[k].role # g[k + 1].role
    <3>1. k \in 1..n /\ k + 1 \in 1..n
      BY <1>3
    <3> QED BY <1>3, <2>5, <3>1 DEF Orderly
  <2>7. g[1].role = "user"
    <3>1. 1 \in 1..n
      BY <1>3
    <3> QED BY <2>5, <3>1 DEF Orderly
  <2>8. Last(g).role = role
    BY <2>2, <2>4 DEF Last
  <2> QED BY <1>1, <1>2, <2>4, <2>6, <2>7, <2>8 DEF Orderly
<1>5. CASE turns[n].role # role
  <2>1. PICK t \in Turns : t = Turn(role, blocks) /\ t.role = role
    BY TurnIs
  <2>2. g = Append(turns, t)
    BY <1>1, <1>3, <1>5, <2>1 DEF MergeTurn
  <2>3. Len(g) = n + 1 /\ g[n + 1] = t /\ g # <<>> /\ \A k \in 1..n : g[k] = turns[k]
    BY <1>3, <2>2, AppendProperties DEF Orderly
  <2>4. ASSUME NEW k \in 1..n PROVE g[k].role # g[k + 1].role
    <3>1. CASE k = n
      BY <1>5, <2>1, <2>3, <3>1
    <3>2. CASE k # n
      <4>1. k \in 1..(n - 1) /\ k + 1 \in 1..n
        BY <1>3, <3>2
      <4>2. turns[k].role # turns[k + 1].role
        BY <1>3, <4>1 DEF Orderly
      <4> QED BY <2>3, <4>1, <4>2
    <3> QED BY <3>1, <3>2
  <2>5. g[1].role = "user"
    <3>1. 1 \in 1..n
      BY <1>3
    <3> QED BY <2>3, <3>1 DEF Orderly
  <2>6. Last(g).role = role /\ Len(g) - 1 = n
    BY <1>3, <2>1, <2>3 DEF Last
  <2> QED BY <1>1, <1>2, <2>3, <2>4, <2>5, <2>6 DEF Orderly
<1> QED BY <1>4, <1>5

LEMMA FirstTurn ==
    ASSUME NEW blocks \in Seq(Blocks)
    PROVE  /\ Orderly(MergeTurn(<<>>, "user", blocks))
           /\ Last(MergeTurn(<<>>, "user", blocks)).role = "user"
<1>1. PICK t \in Turns : t = Turn("user", blocks) /\ t.role = "user"
  BY TurnIs
<1>2. PICK g : g = Append(<<>>, t)
  OBVIOUS
<1>3. MergeTurn(<<>>, "user", blocks) = g
  BY <1>1, <1>2 DEF MergeTurn
<1>4. g \in Seq(Turns) /\ Len(g) = 1 /\ g[1] = t /\ g # <<>>
  <2>1. <<>> \in Seq(Turns) /\ Len(<<>>) = 0
    BY EmptySeq
  <2> QED BY <1>2, <2>1, AppendProperties
<1>5. Last(g) = t
  BY <1>4 DEF Last
<1> QED BY <1>1, <1>3, <1>4, <1>5 DEF Orderly

\* After message m the turns alternate and end with m's role.
Turned(turns, m) ==
    Orderly(turns) /\ (Last(turns).role = "user" \/ m.role = "assistant")

LEMMA AddedTurns ==
    ASSUME NEW p \in {"anthropic", "gemini"}, NEW turns, Orderly(turns),
           NEW m \in Messages
    PROVE  Turned(Added(p, turns, m), m)
<1>1. PICK role, blocks :
         role = RoleFor(p, m) /\ blocks = BlocksFor(p, m) /\ blocks \in Seq(Blocks)
  BY BlocksType
<1>2. /\ role \in {"item", "user", "assistant", "model", "tool", "function"}
      /\ role = "user" \/ m.role = "assistant"
  <2>1. role \in {"item", "user", "assistant", "model", "tool", "function"}
    BY <1>1, RoleType
  <2> QED BY <1>1, <2>1 DEF RoleFor
<1>3. Turned(MergeTurn(turns, role, blocks), m)
  BY ZenonT(40), <1>1, <1>2, MergeOrderly DEF Turned
<1>4. \/ Added(p, turns, m) = MergeTurn(turns, role, blocks)
      \/ Added(p, turns, m) = turns /\ m.role = "assistant"
  <2>1. CASE p = "anthropic"
    BY <1>1, <2>1, AddedAnthropic
  <2>2. CASE p = "gemini"
    BY <1>1, <2>2, AddedGemini DEF IsNative
  <2> QED BY <2>1, <2>2
<1> QED BY <1>3, <1>4 DEF Turned

LEMMA BodyTurns ==
    ASSUME NEW p \in {"anthropic", "gemini"}, NEW h, History(h), h # <<>>
    PROVE  Turned(Body(p, h), Last(h))
<1>1. PICK n \in Nat : n = Len(h) /\ n # 0 /\ Last(h) = h[n]
  BY FrontLast DEF History
<1>2. PICK f : Renders(p, h, n, f) /\ Body(p, h) = f[n]
  BY <1>1, BodyIs
<1>3. PICK T : T = {k \in Nat : k + 1 <= n => Turned(f[k + 1], h[k + 1])}
  OBVIOUS
<1>4. \A k \in 1..n : h[k] \in Messages /\ f[k] = Added(p, f[k - 1], h[k])
  BY <1>1, <1>2, ElementOfSeq DEF History, Renders
<1>5. 0 \in T
  <2>1. 1 \in 1..n /\ f[0] = <<>> /\ FromUser(h[1])
    BY <1>1, <1>2 DEF Renders, History
  <2>2. f[1] = Added(p, <<>>, h[1]) /\ h[1] \in Messages
    BY <1>4, <2>1
  <2>3. h[1].role = "user" /\ RoleFor(p, h[1]) = "user"
    BY <2>1 DEF FromUser, RoleFor
  <2>4. Added(p, <<>>, h[1]) = MergeTurn(<<>>, "user", BlocksFor(p, h[1]))
    <3>1. CASE p = "anthropic"
      BY <2>2, <2>3, <3>1, AddedAnthropic
    <3>2. CASE p = "gemini"
      BY <2>2, <2>3, <3>2, AddedGemini DEF IsNative
    <3> QED BY <3>1, <3>2
  <2>5. Turned(f[1], h[1])
    BY <2>2, <2>4, BlocksType, FirstTurn DEF Turned
  <2> QED BY <1>3, <2>5
<1>6. ASSUME NEW k \in Nat, k \in T PROVE k + 1 \in T
  <2>1. SUFFICES ASSUME k + 1 + 1 <= n PROVE Turned(f[k + 1 + 1], h[k + 1 + 1])
    BY <1>3
  <2>2. Turned(f[k + 1], h[k + 1])
    BY <1>1, <1>3, <1>6, <2>1
  <2>3. k + 1 + 1 \in 1..n /\ k + 1 + 1 - 1 = k + 1
    BY <2>1
  <2>4. h[k + 1 + 1] \in Messages /\ f[k + 1 + 1] = Added(p, f[k + 1], h[k + 1 + 1])
    BY <1>4, <2>3
  <2> QED BY <2>2, <2>4, AddedTurns DEF Turned
<1>7. n - 1 \in Nat /\ n - 1 + 1 = n
  BY <1>1
<1>8. n - 1 \in T
  BY <1>5, <1>6, <1>7, EveryNumber
<1> QED BY <1>1, <1>2, <1>3, <1>7, <1>8

\* Anthropic and Gemini requests begin with a user turn, roles alternate, and
\* the last turn is the user's unless a paused response is being continued.
THEOREM Alternation == Spec => []TurnsAlternate
<1>1. ASSUME IInv PROVE TurnsAlternate
  <2>1. SUFFICES ASSUME request.provider \in {"anthropic", "gemini"}
                 PROVE  /\ request.body[1].role = "user"
                        /\ \A k \in 1..(Len(request.body) - 1) :
                              request.body[k].role # request.body[k + 1].role
                        /\ \/ Last(request.body).role = "user"
                           \/ Last(messages).role = "assistant"
    BY DEF TurnsAlternate
  <2>2. /\ request # NoRequest /\ client = request.provider /\ messages # <<>>
        /\ request.body = Body(client, messages)
    <3>1. request # NoRequest
      BY <2>1 DEF NoRequest
    <3>2. /\ client \in Providers
          /\ request = [provider |-> client, body |-> Body(client, messages)]
      BY <1>1, <3>1 DEF IInv, Sent
    <3>3. messages # <<>>
      BY <1>1, <3>2 DEF IInv, Sent, Providers
    <3> QED BY <3>1, <3>2, <3>3
  <2>3. Turned(request.body, Last(messages))
    BY <1>1, <2>1, <2>2, BodyTurns DEF IInv
  <2> QED BY <2>3 DEF Turned, Orderly
<1> QED BY <1>1, Consistent, PTL

-----------------------------------------------------------------------------
(***************************************************************************)
(* What a body holds, turn by turn or block by block: e[t] is what turn   *)
(* t contributes.                                                          *)
(***************************************************************************)
Mapped(e, turns) == [k \in DOMAIN turns |-> e[turns[k]]]
Hom(e, turns) == FlattenSeq(Mapped(e, turns))
Into(e, T, X) == \A t \in T : e[t] \in Seq(X)

LEMMA SameSeq ==
    ASSUME NEW A, NEW s \in Seq(A), NEW t \in Seq(A), NEW n \in Nat,
           n = Len(s), n = Len(t), \A k \in 1..n : s[k] = t[k]
    PROVE  s = t
<1>1. DOMAIN s = 1..n /\ DOMAIN t = 1..n
  BY LenProperties
<1>2. s = [k \in 1..n |-> s[k]] /\ t = [k \in 1..n |-> t[k]]
  BY <1>1, LenProperties
<1> QED BY <1>2

\* f is e of the turns, one by one.
Maps(f, X, e, turns) ==
    /\ f \in Seq(Seq(X)) /\ Len(f) = Len(turns)
    /\ \A k \in 1..Len(turns) : f[k] = e[turns[k]]

Alike(s, t) == Len(s) = Len(t) /\ \A k \in 1..Len(s) : s[k] = t[k]

LEMMA AlikeIsSame ==
    ASSUME NEW A, NEW s \in Seq(A), NEW t \in Seq(A), Alike(s, t)
    PROVE  s = t
<1>1. PICK n \in Nat : n = Len(s) /\ n = Len(t) /\ \A k \in 1..n : s[k] = t[k]
  BY LenProperties DEF Alike
<1>2. DOMAIN s = 1..n /\ DOMAIN t = 1..n
  BY <1>1, LenProperties
<1>3. s = [k \in 1..n |-> s[k]] /\ t = [k \in 1..n |-> t[k]]
  BY <1>2, LenProperties
<1> QED BY <1>1, <1>3

LEMMA HomSeq ==
    ASSUME NEW T, NEW X, NEW e, Into(e, T, X), NEW turns \in Seq(T)
    PROVE  Maps(Mapped(e, turns), X, e, turns)
<1>0. PICK f : f = Mapped(e, turns)
  OBVIOUS
<1>1. PICK n \in Nat : n = Len(turns) /\ DOMAIN turns = 1..n
  BY LenProperties
<1>2. DOMAIN f = 1..n /\ f = [k \in 1..n |-> f[k]] /\ \A k \in 1..n : f[k] = e[turns[k]]
  BY <1>0, <1>1 DEF Mapped
<1>3. \A k \in 1..n : f[k] \in Seq(X)
  <2>1. \A k \in 1..n : turns[k] \in T
    BY <1>1, ElementOfSeq
  <2> QED BY <1>2, <2>1 DEF Into
<1>4. f \in Seq(Seq(X)) /\ Len(f) = n
  <2>1. DOMAIN f = 1..n /\ f = [k \in 1..n |-> f[k]]
    BY <1>2
  <2> QED BY <1>3, <2>1, MakeSeq
<1> QED BY <1>0, <1>1, <1>2, <1>4 DEF Maps

LEMMA HomType ==
    ASSUME NEW T, NEW X, NEW e, Into(e, T, X), NEW turns \in Seq(T)
    PROVE  Hom(e, turns) \in Seq(X)
<1>1. Mapped(e, turns) \in Seq(Seq(X))
  BY HomSeq DEF Maps
<1> QED BY <1>1, FlattenType DEF Hom

\* The image of two bodies, one after the other.
LEMMA HomConcat ==
    ASSUME NEW T, NEW X, NEW e, Into(e, T, X), NEW turns \in Seq(T), NEW ts \in Seq(T)
    PROVE  Hom(e, turns \o ts) = Hom(e, turns) \o Hom(e, ts)
<1>1. PICK f, g, h, all :
         /\ all = turns \o ts
         /\ f = Mapped(e, turns) /\ g = Mapped(e, ts) /\ h = Mapped(e, all)
  OBVIOUS
<1>2. PICK m \in Nat, n \in Nat : m = Len(turns) /\ n = Len(ts)
  BY LenProperties
<1>3. /\ all \in Seq(T) /\ Len(all) = m + n
      /\ \A k \in 1..m : all[k] = turns[k]
      /\ \A k \in 1..n : all[m + k] = ts[k]
  BY <1>1, <1>2, ConcatIs
<1>4. f \in Seq(Seq(X)) /\ Len(f) = m /\ \A k \in 1..m : f[k] = e[turns[k]]
  <2>1. Maps(f, X, e, turns)
    BY <1>1, HomSeq
  <2> QED BY <1>2, <2>1 DEF Maps
<1>5. g \in Seq(Seq(X)) /\ Len(g) = n /\ \A k \in 1..n : g[k] = e[ts[k]]
  <2>1. Maps(g, X, e, ts)
    BY <1>1, HomSeq
  <2> QED BY <1>2, <2>1 DEF Maps
<1>6. h \in Seq(Seq(X)) /\ Len(h) = m + n /\ \A k \in 1..(m + n) : h[k] = e[all[k]]
  <2>1. Maps(h, X, e, all)
    BY <1>1, <1>3, HomSeq
  <2> QED BY <1>3, <2>1 DEF Maps
<1>7. PICK u : u = f \o g
  OBVIOUS
<1>8. /\ u \in Seq(Seq(X)) /\ Len(u) = m + n
      /\ \A k \in 1..m : u[k] = f[k]
      /\ \A k \in 1..n : u[m + k] = g[k]
  <2>1. Chained(u, Seq(X), f, g)
    BY <1>4, <1>5, <1>7, ConcatChains
  <2>2. m = Len(f) /\ n = Len(g)
    BY <1>4, <1>5
  <2> QED BY <2>1, <2>2 DEF Chained
<1>9. ASSUME NEW k \in 1..(m + n) PROVE h[k] = u[k]
  <2>0. h[k] = e[all[k]]
    BY <1>6
  <2>1. CASE k \in 1..m
    BY <1>3, <1>4, <1>8, <2>0, <2>1
  <2>2. CASE ~(k \in 1..m)
    <3>1. PICK j \in 1..n : k = m + j
      <4>1. k - m \in 1..n /\ k = m + (k - m)
        BY <1>2, <2>2
      <4> QED BY <4>1
    <3>2. u[m + j] = g[j] /\ g[j] = e[ts[j]] /\ all[m + j] = ts[j]
      BY <1>3, <1>5, <1>8
    <3> QED BY <2>0, <3>1, <3>2
  <2> QED BY <2>1, <2>2
<1>10. h = u
  <2>1. m + n \in Nat
    BY <1>2
  <2> QED BY SMTT(40), <1>6, <1>8, <1>9, <2>1, SameSeq
<1>11. FlattenSeq(u) = FlattenSeq(f) \o FlattenSeq(g)
  BY <1>4, <1>5, <1>7, FlattenConcat
<1> QED BY <1>1, <1>10, <1>11 DEF Hom

LEMMA HomOne ==
    ASSUME NEW T, NEW X, NEW e, Into(e, T, X), NEW t \in T
    PROVE  Hom(e, <<t>>) = e[t]
<1>1. PICK turns, f : turns = <<t>> /\ f = Mapped(e, turns)
  OBVIOUS
<1>2. turns \in Seq(T) /\ Len(turns) = 1 /\ turns[1] = t
  BY <1>1
<1>3. f \in Seq(Seq(X)) /\ Len(f) = 1 /\ f[1] = e[t]
  <2>1. Maps(f, X, e, turns)
    BY <1>1, <1>2, HomSeq
  <2> QED BY <1>2, <2>1 DEF Maps
<1>4. e[t] \in Seq(X)
  BY DEF Into
<1>5. f = <<e[t]>>
  <2>1. PICK x \in Seq(X) : x = e[t]
    BY <1>4
  <2>2. <<x>> \in Seq(Seq(X)) /\ Len(<<x>>) = 1 /\ <<x>>[1] = x
    BY <2>1
  <2>3. 1 \in Nat /\ \A k \in 1..1 : f[k] = <<x>>[k]
    BY <1>3, <2>1, <2>2
  <2> QED BY <1>3, <2>1, <2>2, <2>3, SameSeq
<1>6. FlattenSeq(<<e[t]>>) = e[t]
  BY <1>4, FlattenOne
<1> QED BY <1>1, <1>5, <1>6 DEF Hom

LEMMA HomAppend ==
    ASSUME NEW T, NEW X, NEW e, Into(e, T, X), NEW turns \in Seq(T), NEW t \in T
    PROVE  Hom(e, Append(turns, t)) = Hom(e, turns) \o e[t]
<1>1. Append(turns, t) = turns \o <<t>>
  BY AppendIsConcat
<1>2. PICK ts \in Seq(T) : ts = <<t>>
  <2>1. <<t>> \in Seq(T)
    OBVIOUS
  <2> QED BY <2>1
<1>3. Hom(e, turns \o ts) = Hom(e, turns) \o Hom(e, ts)
  BY HomConcat
<1>4. Hom(e, <<t>>) = e[t]
  BY HomOne
<1> QED BY <1>1, <1>2, <1>3, <1>4

\* Blocks may join a turn.
Splits(e, role, a, b) == e[Turn(role, a \o b)] = e[Turn(role, a)] \o e[Turn(role, b)]

\* Where the last turn can be split, blocks may join it.
Mergeable(B, X, e, turns, role, blocks) ==
    /\ Into(e, TurnsOf(B), X) /\ turns \in Seq(TurnsOf(B)) /\ blocks \in Seq(B)
    /\ role \in {"item", "user", "assistant", "model", "tool", "function"}
    /\ turns # <<>> => Splits(e, role, Last(turns).blocks, blocks)

\* Merging a message into the last turn does not change the image of the body.
LEMMA HomMergeOf ==
    ASSUME NEW B, NEW X, NEW e, NEW turns, NEW role, NEW blocks,
           Mergeable(B, X, e, turns, role, blocks)
    PROVE  Hom(e, MergeTurn(turns, role, blocks)) = Hom(e, turns) \o e[Turn(role, blocks)]
<1>0. /\ Into(e, TurnsOf(B), X) /\ turns \in Seq(TurnsOf(B)) /\ blocks \in Seq(B)
      /\ role \in {"item", "user", "assistant", "model", "tool", "function"}
      /\ turns # <<>> => Splits(e, role, Last(turns).blocks, blocks)
  BY DEF Mergeable
<1>1. Turn(role, blocks) \in TurnsOf(B)
  BY <1>0, TurnIsOf
<1>2. CASE turns # <<>> /\ Last(turns).role = role
  <2>1. PICK s, t, a : s = Front(turns) /\ t = Last(turns) /\ a = Last(turns).blocks
    OBVIOUS
  <2>2. s \in Seq(TurnsOf(B)) /\ t \in TurnsOf(B) /\ turns = Append(s, t)
    BY <1>0, <1>2, <2>1, FrontLast
  <2>3. a \in Seq(B) /\ t = Turn(role, a)
    BY <1>2, <2>1, <2>2 DEF TurnsOf, Turn
  <2>4. a \o blocks \in Seq(B)
    BY <1>0, <2>3, ConcatProperties
  <2>5. Turn(role, a \o blocks) \in TurnsOf(B)
    BY <1>0, <2>4, TurnIsOf
  <2>6. MergeTurn(turns, role, blocks) = Append(s, Turn(role, a \o blocks))
    BY <1>2, <2>1 DEF MergeTurn
  <2>7. Hom(e, MergeTurn(turns, role, blocks)) = Hom(e, s) \o e[Turn(role, a \o blocks)]
    BY <1>0, <2>2, <2>5, <2>6, HomAppend
  <2>8. e[Turn(role, a \o blocks)] = e[t] \o e[Turn(role, blocks)]
    BY <1>0, <1>2, <2>1, <2>3 DEF Splits
  <2>9. Hom(e, turns) = Hom(e, s) \o e[t]
    BY <1>0, <2>2, HomAppend
  <2>10. /\ Hom(e, s) \in Seq(X) /\ e[t] \in Seq(X)
         /\ e[Turn(role, blocks)] \in Seq(X)
    BY <1>0, <1>1, <2>2, HomType DEF Into
  <2>11. PICK x \in Seq(X), y \in Seq(X), z \in Seq(X) :
            x = Hom(e, s) /\ y = e[t] /\ z = e[Turn(role, blocks)]
    BY <2>10
  <2>12. (x \o y) \o z = x \o (y \o z)
    BY SMTT(40), Associate
  <2> QED BY <2>7, <2>8, <2>9, <2>11, <2>12
<1>3. CASE ~(turns # <<>> /\ Last(turns).role = role)
  BY <1>0, <1>1, <1>3, HomAppend DEF MergeTurn
<1> QED BY <1>2, <1>3

LEMMA HomMerge ==
    ASSUME NEW X, NEW e, Into(e, Turns, X), NEW turns \in Seq(Turns),
           NEW role \in {"item", "user", "assistant", "model", "tool", "function"},
           NEW blocks \in Seq(Blocks),
           turns # <<>> => Splits(e, role, Last(turns).blocks, blocks)
    PROVE  Hom(e, MergeTurn(turns, role, blocks)) = Hom(e, turns) \o e[Turn(role, blocks)]
<1>1. Mergeable(Blocks, X, e, turns, role, blocks)
  BY DEF Mergeable, Turns
<1> QED BY <1>1, HomMergeOf

\* The same, for an induction from m to m + 1.
Grows(n, f, j) == \A m \in Nat : m + 1 \in 1..n => j[m + 1] = j[m] \o f[m + 1]

LEMMA JoinStep ==
    ASSUME NEW n, NEW f, NEW j, JoinsTo(n, f, j)
    PROVE  Grows(n, f, j)
<1> SUFFICES ASSUME NEW m \in Nat, m + 1 \in 1..n
             PROVE  j[m + 1] = j[m] \o f[m + 1]
  BY DEF Grows
<1>1. PICK k : k = m + 1
  OBVIOUS
<1>2. Joins(k, f, j)
  BY <1>1 DEF JoinsTo
<1>3. j[k] = j[k - 1] \o f[k]
  BY <1>2 DEF Joins
<1>4. k - 1 = m
  BY <1>1
<1> QED BY <1>1, <1>3, <1>4

\* f has each element of s in a sequence of its own.
OneEach(f, s) == Len(f) = Len(s) /\ \A k \in 1..Len(s) : f[k] = <<s[k]>>

LEMMA Singles ==
    ASSUME NEW A, NEW s \in Seq(A), NEW f \in Seq(Seq(A)), OneEach(f, s)
    PROVE  FlattenSeq(f) = s
<1>1. PICK n \in Nat : n = Len(s) /\ n = Len(f)
  BY LenProperties DEF OneEach
<1>2. PICK j : /\ \A k \in 0..n : j[k] \in Seq(A)
               /\ JoinsTo(n, f, j) /\ FlattenSeq(f) = j[n]
  BY <1>1, Flattens
<1>10. Grows(n, f, j)
  BY <1>2, JoinStep
<1>3. PICK T : T = {k \in Nat : k <= n => Len(j[k]) = k /\ \A i \in 1..k : j[k][i] = s[i]}
  OBVIOUS
<1>4. 0 \in T
  <2>1. j[0] = <<>>
    BY <1>2 DEF JoinsTo
  <2> QED BY <1>3, <2>1, EmptySeq
<1>5. ASSUME NEW m \in Nat, m \in T PROVE m + 1 \in T
  <2>1. SUFFICES ASSUME m + 1 <= n
                 PROVE  Len(j[m + 1]) = m + 1 /\ \A i \in 1..(m + 1) : j[m + 1][i] = s[i]
    BY <1>3
  <2>2. /\ Len(j[m]) = m /\ \A i \in 1..m : j[m][i] = s[i]
        /\ j[m] \in Seq(A)
    <3>1. m <= n /\ m \in 0..n
      BY <1>1, <2>1
    <3> QED BY <1>2, <1>3, <1>5, <3>1
  <2>3. m + 1 \in 1..n /\ m + 1 - 1 = m
    BY <2>1
  <2>4. PICK x \in A : x = s[m + 1] /\ j[m + 1] = j[m] \o <<x>>
    <3>1. s[m + 1] \in A
      BY <1>1, <2>3, ElementOfSeq
    <3>3. f[m + 1] = <<s[m + 1]>>
      BY <1>1, <2>3 DEF OneEach
    <3>4. j[m + 1] = j[m] \o f[m + 1]
      BY <1>10, <2>3 DEF Grows
    <3> QED BY <3>1, <3>3, <3>4
  <2>6. Len(j[m + 1]) = m + 1 /\ j[m + 1][m + 1] = x /\ \A i \in 1..m : j[m + 1][i] = j[m][i]
    <3>1. PICK y \in Seq(A) : y = j[m] /\ Len(y) = m
      BY <2>2
    <3>2. y \o <<x>> = Append(y, x)
      BY AppendIsConcat
    <3>3. /\ Len(Append(y, x)) = m + 1 /\ Append(y, x)[m + 1] = x
          /\ \A i \in 1..m : Append(y, x)[i] = y[i]
      BY <3>1, AppendProperties
    <3> QED BY <2>4, <3>1, <3>2, <3>3
  <2> QED BY SMTT(40), <2>2, <2>4, <2>6
<1>6. n \in T
  BY <1>1, <1>4, <1>5, EveryNumber
<1>7. Len(j[n]) = n /\ \A i \in 1..n : j[n][i] = s[i]
  BY <1>1, <1>3, <1>6
<1>8. j[n] \in Seq(A)
  BY <1>1, <1>2
<1>9. j[n] = s
  BY <1>1, <1>7, <1>8, SameSeq
<1> QED BY <1>2, <1>9

LEMMA HomSingles ==
    ASSUME NEW T, NEW X, NEW e, Into(e, T, X), NEW turns \in Seq(T), NEW x \in Seq(X),
           Len(x) = Len(turns), \A k \in 1..Len(turns) : e[turns[k]] = <<x[k]>>
    PROVE  Hom(e, turns) = x
<1>1. PICK f : f = Mapped(e, turns)
  OBVIOUS
<1>2. Maps(f, X, e, turns)
  BY <1>1, HomSeq
<1>3. f \in Seq(Seq(X)) /\ Len(f) = Len(x) /\ \A k \in 1..Len(x) : f[k] = <<x[k]>>
  BY <1>2 DEF Maps
<1>4. FlattenSeq(f) = x
  BY <1>3, Singles DEF OneEach
<1> QED BY <1>1, <1>4 DEF Hom

LEMMA HomNothing ==
    ASSUME NEW T, NEW e, NEW turns \in Seq(T),
           \A k \in 1..Len(turns) : e[turns[k]] = <<>>
    PROVE  Hom(e, turns) = <<>>
<1>1. PICK f, n : f = Mapped(e, turns) /\ n = Len(turns) /\ n \in Nat /\ DOMAIN turns = 1..n
  BY LenProperties
<1>2. DOMAIN f = 1..n /\ f = [k \in 1..n |-> f[k]] /\ \A k \in 1..n : f[k] = <<>>
  BY <1>1 DEF Mapped
<1>3. f \in Seq(Seq({})) /\ Len(f) = n
  <2>1. \A k \in 1..n : f[k] \in Seq({})
    BY ZenonT(40), <1>2, EmptySeq
  <2>2. n \in Nat /\ DOMAIN f = 1..n /\ f = [k \in 1..n |-> f[k]]
    BY <1>1, <1>2
  <2> QED BY <2>1, <2>2, MakeSeq
<1>4. FlattenSeq(f) = <<>>
  BY <1>2, <1>3, FlattenNothing
<1> QED BY <1>1, <1>4 DEF Hom

LEMMA HomEmpty ==
    ASSUME NEW e
    PROVE  Hom(e, <<>>) = <<>>
<1>1. PICK s : s = <<>> /\ s \in Seq({}) /\ Len(s) = 0
  BY EmptySeq
<1>3. \A k \in 1..Len(s) : e[s[k]] = <<>>
  BY <1>1
<1>2. Hom(e, s) = <<>>
  BY <1>1, <1>3, HomNothing
<1> QED BY <1>1, <1>2

-----------------------------------------------------------------------------
(***************************************************************************)
(* What a request holds of a message, as opaque items.                     *)
(***************************************************************************)
Opaque == [b \in Blocks |-> IF IsOpaque(b) THEN <<b.item>> ELSE <<>>]
OpaqueIn == [t \in Turns |-> Hom(Opaque, t.blocks)]

LEMMA OpaqueInto ==
    /\ Into(Opaque, Blocks, BlockItems)
    /\ Into(OpaqueIn, Turns, BlockItems)
<1>1. Into(Opaque, Blocks, BlockItems)
  <2>1. ASSUME NEW b \in Blocks PROVE Opaque[b] \in Seq(BlockItems)
    <3>1. b.item \in BlockItems
      BY DEF Blocks
    <3>2. <<>> \in Seq(BlockItems) /\ <<b.item>> \in Seq(BlockItems)
      BY <3>1, EmptySeq
    <3> QED BY <3>2 DEF Opaque
  <2> QED BY <2>1 DEF Into
<1>2. ASSUME NEW t \in Turns PROVE OpaqueIn[t] \in Seq(BlockItems)
  <2>1. t.blocks \in Seq(Blocks)
    BY DEF Turns, TurnsOf
  <2>2. Hom(Opaque, t.blocks) \in Seq(BlockItems)
    BY <1>1, <2>1, HomType
  <2> QED BY <2>2 DEF OpaqueIn
<1> QED BY <1>1, <1>2 DEF Into

LEMMA OpaqueOne ==
    ASSUME NEW b \in Blocks
    PROVE  /\ Opaque[b] = IF IsOpaque(b) THEN <<b.item>> ELSE <<>>
           /\ Hom(Opaque, <<b>>) = Opaque[b]
BY OpaqueInto, HomOne DEF Opaque

LEMMA OpaqueTurn ==
    ASSUME NEW role \in {"item", "user", "assistant", "model", "tool", "function"},
           NEW blocks \in Seq(Blocks)
    PROVE  OpaqueIn[Turn(role, blocks)] = Hom(Opaque, blocks)
<1>1. PICK t \in Turns : t = Turn(role, blocks) /\ t.blocks = blocks
  BY TurnIs
<1> QED BY <1>1 DEF OpaqueIn

LEMMA OpaqueItemsAre ==
    ASSUME NEW body \in Seq(Turns)
    PROVE  OpaqueItems(body) = Hom(OpaqueIn, body)
<1> DEFINE opaque(b) == IF IsOpaque(b) THEN <<b.item>> ELSE <<>>
           held(t) == FlattenSeq([j \in DOMAIN t.blocks |-> opaque(t.blocks[j])])
<1>1. ASSUME NEW t \in Turns PROVE held(t) = OpaqueIn[t]
  <2>1. PICK s \in Seq(Blocks) : s = t.blocks
    BY DEF Turns, TurnsOf
  <2>2. \A j \in DOMAIN s : s[j] \in Blocks
    BY LenProperties
  <2>3. \A j \in DOMAIN s : opaque(s[j]) = Opaque[s[j]]
    BY <2>2 DEF Opaque
  <2>4. [j \in DOMAIN s |-> opaque(s[j])] = Mapped(Opaque, s)
    BY <2>3 DEF Mapped
  <2>5. OpaqueIn[t] = Hom(Opaque, s)
    BY <2>1 DEF OpaqueIn
  <2> QED BY <2>1, <2>4, <2>5 DEF Hom
<1>2. \A k \in DOMAIN body : body[k] \in Turns
  BY LenProperties
<1> HIDE DEF held
<1>3. [k \in DOMAIN body |-> held(body[k])] = Mapped(OpaqueIn, body)
  BY <1>1, <1>2 DEF Mapped
<1>4. OpaqueItems(body) = FlattenSeq([k \in DOMAIN body |-> held(body[k])])
  BY DEF OpaqueItems, Each, held
<1> QED BY <1>3, <1>4 DEF Hom

LEMMA OpaqueMerge ==
    ASSUME NEW turns \in Seq(Turns),
           NEW role \in {"item", "user", "assistant", "model", "tool", "function"},
           NEW blocks \in Seq(Blocks)
    PROVE  Hom(OpaqueIn, MergeTurn(turns, role, blocks))
             = Hom(OpaqueIn, turns) \o Hom(Opaque, blocks)
<1>1. ASSUME turns # <<>> PROVE Splits(OpaqueIn, role, Last(turns).blocks, blocks)
  <2>1. PICK a \in Seq(Blocks) : a = Last(turns).blocks
    <3>1. Last(turns) \in Turns
      BY <1>1, FrontLast
    <3>2. Last(turns).blocks \in Seq(Blocks)
      BY <3>1 DEF Turns, TurnsOf
    <3> QED BY <3>2
  <2>2. a \o blocks \in Seq(Blocks)
    BY <2>1, ConcatProperties
  <2>3. Hom(Opaque, a \o blocks) = Hom(Opaque, a) \o Hom(Opaque, blocks)
    BY OpaqueInto, HomConcat
  <2>4. Splits(OpaqueIn, role, a, blocks)
    BY <2>2, <2>3, OpaqueTurn DEF Splits
  <2> QED BY <2>1, <2>4
<1>2. Hom(OpaqueIn, MergeTurn(turns, role, blocks))
        = Hom(OpaqueIn, turns) \o OpaqueIn[Turn(role, blocks)]
  BY ZenonT(40), <1>1, OpaqueInto, HomMerge
<1> QED BY <1>2, OpaqueTurn

\* The turns openai adds for m.
ItemTurns(blocks) == [k \in DOMAIN blocks |-> OpenAIItem(blocks[k])]
OpenAITurns(m) ==
    IF IsNative(m, "openai") THEN ItemTurns(ReplayBlocks("openai", m))
    ELSE IF m.role = "tool" THEN ItemTurns(<<ResultBlock(ResultId("openai", m))>>)
    ELSE IF m.role = "assistant"
         THEN (IF m.contents = <<>> THEN <<>> ELSE <<Turn("assistant", ShownBlocks(m))>>)
                \o ItemTurns(CallBlocks("openai", m))
    ELSE <<Turn("user", ShownBlocks(m))>>

LEMMA ItemTurnsAre ==
    ASSUME NEW blocks \in Seq(Blocks)
    PROVE  /\ ItemTurns(blocks) \in Seq(Turns) /\ Len(ItemTurns(blocks)) = Len(blocks)
           /\ \A k \in 1..Len(blocks) : ItemTurns(blocks)[k] = Turn("item", <<blocks[k]>>)
<1>1. PICK f : f = ItemTurns(blocks)
  OBVIOUS
<1>2. DOMAIN blocks = 1..Len(blocks) /\ \A k \in DOMAIN blocks : blocks[k] \in Blocks
  BY LenProperties
<1>3. /\ DOMAIN f = DOMAIN blocks /\ f = [k \in DOMAIN blocks |-> f[k]]
      /\ \A k \in DOMAIN blocks : f[k] = Turn("item", <<blocks[k]>>)
  BY <1>1 DEF ItemTurns, OpenAIItem
<1>4. \A k \in DOMAIN blocks : f[k] \in Turns
  <2>1. ASSUME NEW b \in Blocks PROVE Turn("item", <<b>>) \in Turns
    <3>1. <<b>> \in Seq(Blocks)
      OBVIOUS
    <3> QED BY <3>1, TurnIs
  <2> QED BY <1>2, <1>3, <2>1
<1>5. f \in Seq(Turns) /\ Len(f) = Len(blocks)
  <2>1. DOMAIN f = DOMAIN blocks /\ f = [k \in DOMAIN blocks |-> f[k]]
    BY <1>3
  <2> QED BY <1>4, <2>1, EachIs
<1> QED BY <1>1, <1>2, <1>3, <1>5

LEMMA AddedOpenAI ==
    ASSUME NEW turns, NEW m \in Messages
    PROVE  Added("openai", turns, m) = turns \o OpenAITurns(m)
<1>1. Added("openai", turns, m) = AppendOpenAI(turns, m)
  BY DEF Added
<1>2. CASE IsNative(m, "openai")
  <2>1. ItemTurns(ReplayBlocks("openai", m))
          = [k \in DOMAIN m.native.items |-> OpenAIItem(Replayed(m.native.items[k]))]
    BY DEF ItemTurns, ReplayBlocks, Each
  <2>2. m.role = "assistant"
    BY <1>2 DEF IsNative
  <2>3. AppendOpenAI(turns, m)
          = turns \o Each(m.native.items, LAMBDA i : OpenAIItem(Replayed(i)))
    BY <1>2, <2>2 DEF AppendOpenAI
  <2> QED BY <1>1, <1>2, <2>1, <2>3 DEF OpenAITurns, Each
<1>3. CASE m.role = "tool"
  <2>1. ItemTurns(<<ResultBlock(m.tool_call_id)>>)
          = <<OpenAIItem(ResultBlock(m.tool_call_id))>>
    BY DEF ItemTurns
  <2> QED BY <1>1, <1>3, <2>1 DEF AppendOpenAI, OpenAITurns, IsNative, ResultId
<1>4. CASE m.role = "assistant" /\ ~IsNative(m, "openai")
  BY <1>1, <1>4 DEF AppendOpenAI, OpenAITurns, ItemTurns, ShownBlocks, CallBlocks, Each
<1>5. CASE m.role = "user"
  BY <1>1, <1>5 DEF AppendOpenAI, OpenAITurns, IsNative, ShownBlocks
<1> QED BY <1>2, <1>3, <1>4, <1>5, MessageIs

LEMMA OneTurn ==
    ASSUME NEW t \in Turns
    PROVE  <<t>> \in Seq(Turns)
OBVIOUS

LEMMA OpenAITurnsType ==
    ASSUME NEW m \in Messages
    PROVE  OpenAITurns(m) \in Seq(Turns)
<1>1. /\ ItemTurns(ReplayBlocks("openai", m)) \in Seq(Turns)
      /\ ItemTurns(CallBlocks("openai", m)) \in Seq(Turns)
  BY ReplayType, CallsType, ItemTurnsAre
<1>2. ItemTurns(<<ResultBlock(ResultId("openai", m))>>) \in Seq(Turns)
  <2>1. PICK b \in Blocks : b = ResultBlock(ResultId("openai", m))
    BY ResultIdType
  <2>2. <<b>> \in Seq(Blocks)
    OBVIOUS
  <2> QED BY <2>1, <2>2, ItemTurnsAre
<1>3. /\ <<Turn("assistant", ShownBlocks(m))>> \in Seq(Turns)
      /\ <<Turn("user", ShownBlocks(m))>> \in Seq(Turns)
  BY ShownType, TurnIs, OneTurn
<1>4. <<>> \in Seq(Turns)
  BY EmptySeq
<1>5. PICK a \in Seq(Turns) :
         a = IF m.contents = <<>> THEN <<>> ELSE <<Turn("assistant", ShownBlocks(m))>>
  BY <1>3, <1>4
<1>6. a \o ItemTurns(CallBlocks("openai", m)) \in Seq(Turns)
  BY <1>1, ConcatProperties
<1> QED BY <1>1, <1>2, <1>3, <1>5, <1>6 DEF OpenAITurns

LEMMA AddedType ==
    ASSUME NEW p \in Providers, NEW turns \in Seq(Turns), NEW m \in Messages
    PROVE  Added(p, turns, m) \in Seq(Turns)
<1>1. PICK role, blocks : role = RoleFor(p, m) /\ blocks = BlocksFor(p, m)
  OBVIOUS
<1>2. /\ role \in {"item", "user", "assistant", "model", "tool", "function"}
      /\ blocks \in Seq(Blocks)
  BY <1>1, RoleType, BlocksType
<1>3. /\ MergeTurn(turns, role, blocks) \in Seq(Turns)
      /\ Append(turns, Turn(role, blocks)) \in Seq(Turns)
  BY <1>2, MergeType, TurnIs, AppendProperties
<1>4. turns \o OpenAITurns(m) \in Seq(Turns)
  BY OpenAITurnsType, ConcatProperties
<1>5. CASE p = "openai"
  BY <1>4, <1>5, AddedOpenAI
<1>6. CASE p = "anthropic"
  BY <1>1, <1>3, <1>6, AddedAnthropic
<1>7. CASE p = "gemini"
  BY <1>1, <1>3, <1>7, AddedGemini
<1>8. CASE p = "openai_compatible"
  BY <1>1, <1>3, <1>8, AddedCompatible
<1> QED BY <1>5, <1>6, <1>7, <1>8 DEF Providers

\* e of s is, one by one, d of t.
Agree(e, s, d, t) == Len(s) = Len(t) /\ \A k \in 1..Len(s) : e[s[k]] = d[t[k]]

LEMMA HomAgree ==
    ASSUME NEW X, NEW S, NEW e, Into(e, S, X), NEW s \in Seq(S),
           NEW T, NEW d, Into(d, T, X), NEW t \in Seq(T), Agree(e, s, d, t)
    PROVE  Hom(e, s) = Hom(d, t)
<1>1. PICK f, g : f = Mapped(e, s) /\ g = Mapped(d, t)
  OBVIOUS
<1>2. Maps(f, X, e, s)
  BY <1>1, HomSeq
<1>3. Maps(g, X, d, t)
  BY <1>1, HomSeq
<1>4. PICK n \in Nat : n = Len(s) /\ n = Len(t)
  BY LenProperties DEF Agree
<1>5. \A k \in 1..n : f[k] = g[k]
  BY <1>2, <1>3, <1>4 DEF Maps, Agree
<1>6. f \in Seq(Seq(X)) /\ g \in Seq(Seq(X)) /\ n = Len(f) /\ n = Len(g)
  BY <1>2, <1>3, <1>4 DEF Maps
<1>7. f = g
  <2>1. Alike(f, g)
    BY <1>5, <1>6 DEF Alike
  <2> QED BY <1>6, <2>1, AlikeIsSame
<1> QED BY <1>1, <1>7 DEF Hom

LEMMA OpaqueItemTurns ==
    ASSUME NEW blocks \in Seq(Blocks)
    PROVE  Hom(OpaqueIn, ItemTurns(blocks)) = Hom(Opaque, blocks)
<1>1. PICK ts : ts = ItemTurns(blocks)
  OBVIOUS
<1>2. ts \in Seq(Turns) /\ Len(ts) = Len(blocks)
  BY <1>1, ItemTurnsAre
<1>3. PICK n \in Nat : n = Len(blocks)
  BY LenProperties
<1>4. ASSUME NEW k \in 1..n PROVE OpaqueIn[ts[k]] = Opaque[blocks[k]]
  <2>1. PICK b \in Blocks : b = blocks[k]
    BY <1>3, ElementOfSeq
  <2>2. ts[k] = Turn("item", <<b>>)
    BY <1>1, <1>3, <2>1, ItemTurnsAre
  <2>3. <<b>> \in Seq(Blocks)
    OBVIOUS
  <2>4. OpaqueIn[ts[k]] = Hom(Opaque, <<b>>)
    BY <2>2, <2>3, OpaqueTurn
  <2> QED BY <2>1, <2>4, OpaqueOne
<1>5. Agree(OpaqueIn, ts, Opaque, blocks)
  BY <1>2, <1>3, <1>4 DEF Agree
<1> QED BY <1>1, <1>2, <1>5, OpaqueInto, HomAgree

LEMMA OpaqueOpenAI ==
    ASSUME NEW m \in Messages
    PROVE  Hom(OpaqueIn, OpenAITurns(m)) = Hom(Opaque, BlocksFor("openai", m))
<1> DEFINE shown == <<Turn("assistant", ShownBlocks(m))>>
           said == <<Turn("user", ShownBlocks(m))>>
           calls == CallBlocks("openai", m)
           result == <<ResultBlock(ResultId("openai", m))>>
<1>1. ShownBlocks(m) \in Seq(Blocks) /\ calls \in Seq(Blocks)
  BY ShownType, CallsType
<1>2. /\ shown \in Seq(Turns) /\ said \in Seq(Turns)
      /\ Hom(OpaqueIn, shown) = Hom(Opaque, ShownBlocks(m))
      /\ Hom(OpaqueIn, said) = Hom(Opaque, ShownBlocks(m))
  <2>1. ASSUME NEW role \in {"item", "user", "assistant", "model", "tool", "function"}
        PROVE  /\ <<Turn(role, ShownBlocks(m))>> \in Seq(Turns)
               /\ Hom(OpaqueIn, <<Turn(role, ShownBlocks(m))>>) = Hom(Opaque, ShownBlocks(m))
    <3>1. PICK t \in Turns : t = Turn(role, ShownBlocks(m))
      BY <1>1, TurnIs
    <3>2. OpaqueIn[t] = Hom(Opaque, ShownBlocks(m))
      BY <1>1, <3>1, OpaqueTurn
    <3>3. Hom(OpaqueIn, <<t>>) = OpaqueIn[t]
      BY OpaqueInto, HomOne
    <3> QED BY <3>1, <3>2, <3>3, OneTurn
  <2> QED BY <2>1
<1>3. CASE IsNative(m, "openai")
  BY <1>3, ReplayType, OpaqueItemTurns DEF OpenAITurns, BlocksFor
<1>4. CASE m.role = "tool"
  <2>1. PICK b \in Blocks : b = ResultBlock(ResultId("openai", m))
    BY ResultIdType
  <2>2. <<b>> \in Seq(Blocks)
    OBVIOUS
  <2>3. Hom(OpaqueIn, ItemTurns(<<b>>)) = Hom(Opaque, <<b>>)
    BY <2>2, OpaqueItemTurns
  <2> QED BY <1>4, <2>1, <2>3 DEF OpenAITurns, BlocksFor, IsNative
<1>5. CASE m.role = "assistant" /\ ~IsNative(m, "openai")
  <2>1. Hom(OpaqueIn, ItemTurns(calls)) = Hom(Opaque, calls) /\ ItemTurns(calls) \in Seq(Turns)
    BY <1>1, OpaqueItemTurns, ItemTurnsAre
  <2>2. PICK a \in Seq(Turns) :
           /\ a = IF m.contents = <<>> THEN <<>> ELSE shown
           /\ Hom(OpaqueIn, a) = Hom(Opaque, ShownBlocks(m))
    <3>1. CASE m.contents = <<>>
      <4>1. ShownBlocks(m) = <<>>
        BY <3>1, ShownType, EmptySeq
      <4>2. <<>> \in Seq(Turns)
        BY EmptySeq
      <4> QED BY <3>1, <4>1, <4>2, HomEmpty
    <3>2. CASE m.contents # <<>>
      BY <1>2, <3>2
    <3> QED BY <3>1, <3>2
  <2>3. OpenAITurns(m) = a \o ItemTurns(calls)
    BY <1>5, <2>2 DEF OpenAITurns
  <2>4. Hom(OpaqueIn, a \o ItemTurns(calls)) = Hom(OpaqueIn, a) \o Hom(OpaqueIn, ItemTurns(calls))
    <3>1. PICK c \in Seq(Turns) : c = ItemTurns(calls)
      BY <2>1
    <3>2. Hom(OpaqueIn, a \o c) = Hom(OpaqueIn, a) \o Hom(OpaqueIn, c)
      BY OpaqueInto, HomConcat
    <3> QED BY <3>1, <3>2
  <2>5. BlocksFor("openai", m) = ShownBlocks(m) \o calls
    BY <1>5 DEF BlocksFor
  <2>6. Hom(Opaque, ShownBlocks(m) \o calls) = Hom(Opaque, ShownBlocks(m)) \o Hom(Opaque, calls)
    BY <1>1, OpaqueInto, HomConcat
  <2> QED BY <2>1, <2>2, <2>3, <2>4, <2>5, <2>6
<1>6. CASE m.role = "user"
  BY <1>2, <1>6 DEF OpenAITurns, BlocksFor, IsNative
<1> QED BY <1>3, <1>4, <1>5, <1>6, MessageIs

LEMMA OpaqueAdded ==
    ASSUME NEW p \in Providers, NEW turns \in Seq(Turns), NEW m \in Messages,
           m.native.listed \/ m.native.items = <<>>
    PROVE  Hom(OpaqueIn, Added(p, turns, m))
             = Hom(OpaqueIn, turns) \o Hom(Opaque, BlocksFor(p, m))
<1>1. PICK role, blocks : role = RoleFor(p, m) /\ blocks = BlocksFor(p, m)
  OBVIOUS
<1>2. /\ role \in {"item", "user", "assistant", "model", "tool", "function"}
      /\ blocks \in Seq(Blocks)
  BY <1>1, RoleType, BlocksType
<1>3. Hom(OpaqueIn, MergeTurn(turns, role, blocks)) = Hom(OpaqueIn, turns) \o Hom(Opaque, blocks)
  BY <1>2, OpaqueMerge
<1>4. CASE p = "openai"
  <2>1. Hom(OpaqueIn, turns \o OpenAITurns(m))
          = Hom(OpaqueIn, turns) \o Hom(OpaqueIn, OpenAITurns(m))
    BY OpenAITurnsType, OpaqueInto, HomConcat
  <2> QED BY <1>4, <2>1, AddedOpenAI, OpaqueOpenAI
<1>5. CASE p = "anthropic"
  BY <1>1, <1>3, <1>5, AddedAnthropic
<1>6. CASE p = "gemini"
  <2>1. CASE IsNative(m, "gemini") /\ ~m.native.listed
    <3>1. blocks = <<>>
      <4>1. ReplayBlocks("gemini", m) \in Seq(Blocks) /\ Len(ReplayBlocks("gemini", m)) = 0
        BY <2>1, ReplayType, EmptySeq
      <4> QED BY <1>1, <1>6, <2>1, <4>1, EmptySeq DEF BlocksFor
    <3>2. Hom(OpaqueIn, turns) \o <<>> = Hom(OpaqueIn, turns)
      BY OpaqueInto, HomType, ConcatEmptySeq
    <3>3. Added(p, turns, m) = turns
      BY <1>6, <2>1, AddedGemini
    <3> QED BY <1>1, <3>1, <3>2, <3>3, HomEmpty
  <2>2. CASE ~(IsNative(m, "gemini") /\ ~m.native.listed)
    BY <1>1, <1>3, <1>6, <2>2, AddedGemini
  <2> QED BY <2>1, <2>2
<1>7. CASE p = "openai_compatible"
  <2>1. Turn(role, blocks) \in Turns
    BY <1>2, TurnIs
  <2>2. Hom(OpaqueIn, Append(turns, Turn(role, blocks)))
          = Hom(OpaqueIn, turns) \o OpaqueIn[Turn(role, blocks)]
    BY <2>1, OpaqueInto, HomAppend
  <2>3. OpaqueIn[Turn(role, blocks)] = Hom(Opaque, blocks)
    BY <1>2, OpaqueTurn
  <2> QED BY <1>1, <1>7, <2>2, <2>3, AddedCompatible
<1> QED BY <1>4, <1>5, <1>6, <1>7 DEF Providers

-----------------------------------------------------------------------------
(***************************************************************************)
(* The opaque items of a message's blocks are the message's own.           *)
(***************************************************************************)
Kept(p, item) == IF item.kind = "audio" /\ p = "openai_compatible"
                 THEN [item EXCEPT !.kind = "audio_id"] ELSE item

\* The native items a client sends again for its own answer.
LEMMA ReplayedItems ==
    ASSUME NEW p, NEW m \in Messages
    PROVE  Hom(Opaque, ReplayBlocks(p, m)) = [k \in DOMAIN m.native.items |->
                                                 Kept(p, m.native.items[k])]
<1>1. PICK s, b, x, n : /\ s = m.native.items /\ b = ReplayBlocks(p, m) /\ n = Len(s)
                        /\ x = [k \in DOMAIN s |-> Kept(p, s[k])]
  OBVIOUS
<1>2. /\ s \in Seq(Items) /\ n \in Nat /\ DOMAIN s = 1..n
      /\ b \in Seq(Blocks) /\ Len(b) = n
  BY <1>1, MessageIs, ReplayType, LenProperties
<1>3. ASSUME NEW k \in 1..n
      PROVE  /\ x[k] = Kept(p, s[k]) /\ x[k] \in BlockItems
             /\ b[k].kind = "native" /\ b[k].item = x[k]
  <2>1. s[k] \in Items
    BY <1>2, ElementOfSeq
  <2>2. x[k] = Kept(p, s[k])
    BY <1>1, <1>2
  <2>3. Kept(p, s[k]) \in BlockItems
    BY <2>1 DEF Kept, BlockItems
  <2>4. b[k] = IF p = "openai_compatible" THEN CompatibleReplay(s[k]) ELSE Replayed(s[k])
    BY <1>1, <1>2 DEF ReplayBlocks, Each
  <2>5. b[k].kind = "native" /\ b[k].item = Kept(p, s[k])
    BY <2>4 DEF CompatibleReplay, Replayed, Block, Kept
  <2> QED BY <2>2, <2>3, <2>5
<1>4. x \in Seq(BlockItems) /\ Len(x) = n
  <2>1. DOMAIN x = 1..n /\ x = [k \in 1..n |-> x[k]]
    BY <1>1, <1>2
  <2> QED BY <1>2, <1>3, <2>1, MakeSeq
<1>5. \A k \in 1..n : Opaque[b[k]] = <<x[k]>>
  <2>1. \A k \in 1..n : b[k] \in Blocks
    BY <1>2, ElementOfSeq
  <2>2. \A k \in 1..n : IsOpaque(b[k])
    BY <1>3 DEF IsOpaque
  <2> QED BY <1>3, <2>1, <2>2, OpaqueOne
<1>6. Hom(Opaque, b) = x
  BY SMTT(40), <1>2, <1>4, <1>5, OpaqueInto, HomSingles
<1> QED BY <1>1, <1>6

LEMMA ResultHoldsNothing ==
    ASSUME NEW b \in Blocks, b.kind \notin {"native", "call"}
    PROVE  Hom(Opaque, <<b>>) = <<>>
BY OpaqueOne DEF IsOpaque

LEMMA ShownItems ==
    ASSUME NEW m \in Messages
    PROVE  Hom(Opaque, ShownBlocks(m)) = ExtensionItems(m.contents)
<1>1. PICK s, b, n, f : /\ s = m.contents /\ b = ShownBlocks(m) /\ n = Len(s)
                        /\ f = Mapped(Opaque, b)
  OBVIOUS
<1>2. /\ s \in Seq(Parts) /\ n \in Nat /\ DOMAIN s = 1..n
      /\ b \in Seq(Blocks) /\ Len(b) = n
  BY <1>1, MessageIs, ShownType, LenProperties
<1>3. ASSUME NEW k \in 1..n
      PROVE  f[k] = IF s[k].type = "extension" THEN <<s[k].item>> ELSE <<>>
  <2>1. s[k] \in Parts /\ b[k] \in Blocks
    BY <1>2, ElementOfSeq
  <2>2. b[k] = Rendered(s[k])
    BY <1>1, <1>2 DEF ShownBlocks, Each
  <2>3. IsOpaque(b[k]) <=> s[k].type = "extension"
    BY <2>1, <2>2 DEF Rendered, Replayed, Block, Parts, IsOpaque
  <2>4. s[k].type = "extension" => b[k].item = s[k].item
    BY <2>2 DEF Rendered, Replayed, Block
  <2>5. f[k] = Opaque[b[k]]
    <3>1. DOMAIN b = 1..n
      BY <1>2, LenProperties
    <3> QED BY <1>1, <3>1 DEF Mapped
  <2> QED BY <2>1, <2>3, <2>4, <2>5, OpaqueOne
<1>4. f = [k \in DOMAIN s |-> IF s[k].type = "extension" THEN <<s[k].item>> ELSE <<>>]
  <2>1. DOMAIN f = 1..n /\ f = [k \in 1..n |-> f[k]]
    <3>1. DOMAIN b = 1..n
      BY <1>2, LenProperties
    <3> QED BY <1>1, <3>1 DEF Mapped
  <2> QED BY <1>2, <1>3, <2>1
<1>5. ExtensionItems(s) = FlattenSeq(f)
  BY <1>4 DEF ExtensionItems, Each
<1> QED BY <1>1, <1>5 DEF Hom

LEMMA NoExtensions ==
    ASSUME NEW m \in Messages,
           \A k \in 1..Len(m.contents) : m.contents[k].type # "extension"
    PROVE  Hom(Opaque, ShownBlocks(m)) = <<>>
<1>1. PICK s, b, n : s = m.contents /\ b = ShownBlocks(m) /\ n = Len(s)
  OBVIOUS
<1>2. /\ s \in Seq(Parts) /\ n \in Nat /\ DOMAIN s = 1..n
      /\ b \in Seq(Blocks) /\ Len(b) = n
  BY <1>1, MessageIs, ShownType, LenProperties
<1>3. ASSUME NEW k \in 1..n PROVE Opaque[b[k]] = <<>>
  <2>1. s[k] \in Parts /\ b[k] \in Blocks
    BY <1>2, ElementOfSeq
  <2>2. b[k] = Rendered(s[k]) /\ s[k].type # "extension"
    BY <1>1, <1>2 DEF ShownBlocks, Each
  <2>3. ~IsOpaque(b[k])
    BY <2>1, <2>2 DEF Rendered, Block, Parts, IsOpaque
  <2> QED BY <2>1, <2>3, OpaqueOne
<1>4. Hom(Opaque, b) = <<>>
  BY <1>2, <1>3, HomNothing
<1> QED BY <1>1, <1>4

LEMMA AcceptsOwn ==
    ASSUME NEW p \in Providers, NEW m \in Messages, Accepts(p, m), ~IsNative(m, p),
           m.role # "tool", NEW k \in 1..Len(m.contents),
           m.contents[k].type = "extension"
    PROVE  m.contents[k].item.provider = p
<1>1. k \in DOMAIN m.contents
  BY MessageIs, LenProperties
<1>2. PICK c : c = m.contents[k] /\ c.type = "extension"
  OBVIOUS
<1>3. CASE p = "openai"
  <2>1. OpenAISupports(c)
    BY <1>1, <1>2, <1>3 DEF Accepts, OpenAIAccepts, Every
  <2> QED BY <1>2, <1>3, <2>1 DEF OpenAISupports, IsExtension
<1>4. CASE p = "anthropic"
  <2>1. AnthropicSupports(c)
    BY <1>1, <1>2, <1>4 DEF Accepts, AnthropicAccepts, Every
  <2> QED BY <1>2, <1>4, <2>1 DEF AnthropicSupports, IsExtension
<1>5. CASE p = "gemini"
  <2>1. GeminiSupports(c)
    BY <1>1, <1>2, <1>5 DEF Accepts, GeminiAccepts, Every
  <2> QED BY <1>2, <1>5, <2>1 DEF GeminiSupports, IsExtension, IsMedia
<1>6. CASE p = "openai_compatible"
  <2>1. CompatibleSupports(c)
    BY <1>1, <1>2, <1>6 DEF Accepts, CompatibleAccepts, Every
  <2> QED BY <1>2, <1>6, <2>1 DEF CompatibleSupports, IsExtension
<1> QED BY <1>3, <1>4, <1>5, <1>6 DEF Providers

\* What another provider answered is sent without its opaque data.
LEMMA ForeignContents ==
    ASSUME NEW p \in Providers, NEW q \in Providers, p # q, NEW m, NEW size,
           FromProvider(q, m, size), Accepts(p, m)
    PROVE  \A k \in 1..Len(m.contents) : m.contents[k].type # "extension"
<1>1. m \in Messages /\ ~IsNative(m, p) /\ m.role # "tool"
  BY DEF FromProvider, IsNative
<1>2. ASSUME NEW k \in 1..Len(m.contents), m.contents[k].type = "extension" PROVE FALSE
  <2>1. m.contents[k].item.provider = p
    BY <1>1, <1>2, AcceptsOwn
  <2>2. m.contents[k].item \in Own(q)
    BY <1>2 DEF FromProvider, ContentsFit
  <2>3. m.contents[k].item.provider = q
    BY <2>2 DEF Own, Owns
  <2> QED BY <2>1, <2>3
<1> QED BY <1>2

LEMMA CallsAre ==
    ASSUME NEW q \in Providers, NEW m, NEW size, FromProvider(q, m, size),
           NEW k \in 1..Len(m.calls)
    PROVE  /\ m.calls[k].metadata = Called(q, m.native.items)[k]
           /\ m.calls[k].metadata \in Own(q) /\ m.calls[k].metadata \in Sound(q)
           /\ IdFits(m.calls[k], size)
<1>1. PICK items : items = m.native.items
  OBVIOUS
<1>2. /\ items \in Seq(Sound(q)) /\ k \in 1..Len(Called(q, items))
      /\ m.calls[k].metadata = Called(q, items)[k] /\ IdFits(m.calls[k], size)
  BY <1>1 DEF FromProvider, CallsFit
<1>3. Called(q, items)[k] \in Own(q) /\ Called(q, items)[k] \in Sound(q)
  BY <1>2, CalledIsOwn
<1> QED BY <1>1, <1>2, <1>3

ForeignCall(p, call) == IF p = "openai" THEN OpenAICall(call) ELSE CallBlock(call.id)

LEMMA ForeignCallCalls ==
    ASSUME NEW p, NEW call
    PROVE  ForeignCall(p, call).kind = "call" /\ ForeignCall(p, call).id = call.id
BY DEF ForeignCall, OpenAICall, CallBlock, Block

LEMMA ForeignCallIs ==
    ASSUME NEW p, NEW call, NEW q, call.metadata \in Own(q)
    PROVE  LET b == ForeignCall(p, call)
           IN  /\ IsOpaque(b) <=> p = "openai" /\ HasId(call.metadata)
               /\ p = "openai" /\ HasId(call.metadata) =>
                     b.item = [call.metadata EXCEPT !.kind = "item_id"]
BY ForeignCallCalls
   DEF ForeignCall, OpenAICall, CallBlock, Block, IsOpaque, NoItem, Item, Own, Items

LEMMA ForeignCalls ==
    ASSUME NEW p \in Providers, NEW q \in Providers, p # q, NEW m, NEW size,
           FromProvider(q, m, size), NEW k \in 1..Len(m.calls)
    PROVE  CallBlocks(p, m)[k] = ForeignCall(p, m.calls[k])
<1>1. m \in Messages
  BY DEF FromProvider
<1>2. k \in DOMAIN m.calls
  BY <1>1, MessageIs, LenProperties
<1>3. m.calls[k].metadata.provider = q
  BY CallsAre DEF Own, Owns
<1>4. CASE p = "gemini"
  <2>1. ~IsFunctionCall(m.calls[k].metadata)
    BY <1>3, <1>4 DEF IsFunctionCall
  <2> QED BY <1>2, <1>4, <2>1 DEF CallBlocks, Each, GeminiCall, ForeignCall
<1>5. CASE p # "gemini"
  BY <1>2, <1>5 DEF CallBlocks, Each, ForeignCall
<1> QED BY <1>4, <1>5

\* What a request to OpenAI holds of a call another provider made.
ItemId(c) ==
    IF HasId(c.metadata) THEN <<[c.metadata EXCEPT !.kind = "item_id", !.id = c.id]>>
                         ELSE <<>>

LEMMA HeldId ==
    ASSUME NEW q, NEW c, NEW size, c.metadata \in Sound(q), IdFits(c, size),
           HasId(c.metadata)
    PROVE  ItemId(c) = <<[c.metadata EXCEPT !.kind = "item_id"]>>
<1>1. PICK i \in Items : i = c.metadata /\ i.provider = q /\ i.id # NoId
  BY DEF Sound, Own, Owns, HasId
<1>2. c.id = i.id
  BY <1>1 DEF IdFits
<1>3. [i EXCEPT !.kind = "item_id", !.id = c.id] = [i EXCEPT !.kind = "item_id"]
  BY <1>1, <1>2 DEF Items
<1> QED BY <1>1, <1>3 DEF ItemId

LEMMA ForeignItems ==
    ASSUME NEW p \in Providers, NEW q \in Providers, p # q, NEW m, NEW size,
           FromProvider(q, m, size), Accepts(p, m)
    PROVE  /\ Hom(Opaque, ShownBlocks(m)) = <<>>
           /\ Hom(Opaque, ShownBlocks(m) \o CallBlocks(p, m))
                = IF p = "openai" THEN ItemIds(m.calls) ELSE <<>>
<1>1. m \in Messages
  BY DEF FromProvider
<1>2. Hom(Opaque, ShownBlocks(m)) = <<>>
  BY <1>1, ForeignContents, NoExtensions
<1>3. PICK b : /\ b = CallBlocks(p, m) /\ b \in Seq(Blocks) /\ Len(b) = Len(m.calls)
  BY <1>1, CallsType
<1>4. ASSUME NEW k \in 1..Len(b)
      PROVE  Opaque[b[k]] = IF p = "openai" THEN ItemId(m.calls[k]) ELSE <<>>
  <2>1. PICK c : c = m.calls[k] /\ b[k] = ForeignCall(p, c)
    BY <1>3, <1>4, ForeignCalls
  <2>2. c.metadata \in Own(q) /\ c.metadata \in Sound(q) /\ IdFits(c, size)
    BY <1>3, <1>4, <2>1, CallsAre
  <2>3. b[k] \in Blocks
    BY <1>3, <1>4, ElementOfSeq
  <2>4. HasId(c.metadata) => ItemId(c) = <<[c.metadata EXCEPT !.kind = "item_id"]>>
    BY <2>2, HeldId
  <2>5. ~HasId(c.metadata) => ItemId(c) = <<>>
    BY DEF ItemId
  <2>6. PICK e \in Blocks : e = b[k] /\ e = ForeignCall(p, c)
    BY <2>1, <2>3
  <2>7. /\ IsOpaque(e) <=> p = "openai" /\ HasId(c.metadata)
        /\ IsOpaque(e) => e.item = [c.metadata EXCEPT !.kind = "item_id"]
    BY <2>2, <2>6, ForeignCallIs
  <2>8. Opaque[e] = IF p = "openai" THEN ItemId(c) ELSE <<>>
    BY <2>4, <2>5, <2>7, OpaqueOne
  <2> QED BY <2>1, <2>6, <2>8
<1>5. Hom(Opaque, b) = IF p = "openai" THEN ItemIds(m.calls) ELSE <<>>
  <2>1. CASE p # "openai"
    BY <1>3, <1>4, <2>1, HomNothing
  <2>2. CASE p = "openai"
    <3>1. DOMAIN b = 1..Len(b) /\ DOMAIN m.calls = 1..Len(b)
      BY <1>1, <1>3, MessageIs, LenProperties
    <3>2. Mapped(Opaque, b) = [k \in DOMAIN m.calls |-> ItemId(m.calls[k])]
      BY <1>4, <2>2, <3>1 DEF Mapped
    <3>3. ItemIds(m.calls) = FlattenSeq([k \in DOMAIN m.calls |-> ItemId(m.calls[k])])
      BY DEF ItemIds, Each, ItemId
    <3> QED BY <2>2, <3>2, <3>3 DEF Hom
  <2> QED BY <2>1, <2>2
<1>6. Hom(Opaque, ShownBlocks(m) \o b) = Hom(Opaque, ShownBlocks(m)) \o Hom(Opaque, b)
  <2>1. PICK a \in Seq(Blocks), c \in Seq(Blocks) : a = ShownBlocks(m) /\ c = b
    BY <1>1, <1>3, ShownType
  <2>2. Hom(Opaque, a \o c) = Hom(Opaque, a) \o Hom(Opaque, c)
    BY OpaqueInto, HomConcat
  <2> QED BY <2>1, <2>2
<1>7. <<>> \o Hom(Opaque, b) = Hom(Opaque, b)
  BY <1>3, OpaqueInto, HomType, ConcatEmptySeq
<1> QED BY <1>2, <1>3, <1>5, <1>6, <1>7

LEMMA NoCallsNoIds == ItemIds(<<>>) = <<>>
<1>1. [k \in DOMAIN <<>> |-> ItemId(<<>>[k])] = <<>>
  BY EmptySeq
<1>2. ItemIds(<<>>) = FlattenSeq([k \in DOMAIN <<>> |-> ItemId(<<>>[k])])
  BY DEF ItemIds, Each, ItemId
<1> QED BY <1>1, <1>2, FlattenEmpty

\* What a request holds of an accepted message is what it has to hold.
LEMMA OpaqueIs ==
    ASSUME NEW h, History(h), NEW k \in 1..Len(h), NEW p \in Providers, Accepts(p, h[k])
    PROVE  /\ Hom(Opaque, BlocksFor(p, h[k])) = OpaqueFor(p, h[k])
           /\ h[k].native.listed \/ h[k].native.items = <<>>
<1>1. PICK m \in Messages : m = h[k]
  BY ElementOfSeq DEF History
<1>2. CASE Silent(m)
  <2>1. m.native.provider # p /\ m.native.items = <<>>
    BY <1>2 DEF Silent, NoNative, Native, Providers
  <2>2. FromUser(m) \/ m.role = "tool" \/ ByProvider(h, k)
    BY <1>1 DEF History, HasAuthor, ByTool, HasResult, FromTool
  <2>3. ~ByProvider(h, k)
    BY <1>1, <1>2 DEF ByProvider, FromProvider, Silent, NoNative, Native, Providers
  <2>4. CASE m.role = "tool"
    <3>1. PICK b \in Blocks : /\ b = ResultBlock(ResultId(p, m))
                              /\ b.kind \notin {"native", "call"}
      <4>1. ResultBlock(ResultId(p, m)) \in Blocks
        BY ResultIdType
      <4>2. ResultBlock(ResultId(p, m)).kind \notin {"native", "call"}
        BY DEF ResultBlock, Block
      <4> QED BY <4>1, <4>2
    <3>2. Hom(Opaque, <<b>>) = <<>>
      BY <3>1, ResultHoldsNothing
    <3>3. BlocksFor(p, m) = <<b>>
      BY <2>4, <3>1 DEF BlocksFor, IsNative
    <3> QED BY <1>1, <2>1, <2>4, <3>2, <3>3 DEF OpaqueFor
  <2>5. CASE FromUser(m)
    <3>1. BlocksFor(p, m) = ShownBlocks(m)
      BY <2>5 DEF FromUser, BlocksFor, IsNative
    <3>2. OpaqueFor(p, m) = ExtensionItems(m.contents)
      <4>1. ExtensionItems(m.contents) \o <<>> = ExtensionItems(m.contents)
        <5>1. Hom(Opaque, ShownBlocks(m)) \in Seq(BlockItems)
          BY ShownType, OpaqueInto, HomType
        <5> QED BY <5>1, ShownItems, ConcatEmptySeq
      <4>2. OpaqueFor(p, m) = ExtensionItems(m.contents)
                                \o (IF p = "openai" THEN ItemIds(m.calls) ELSE <<>>)
        BY <2>1, <2>5 DEF FromUser, OpaqueFor
      <4>3. ItemIds(m.calls) = <<>>
        BY <1>2, NoCallsNoIds DEF Silent
      <4> QED BY <4>1, <4>2, <4>3
    <3> QED BY <1>1, <2>1, <3>1, <3>2, ShownItems
  <2> QED BY <2>2, <2>3, <2>4, <2>5
<1>3. CASE ~Silent(m)
  <2>1. PICK q \in Providers : FromProvider(q, m, k - 1)
    BY <1>1, <1>3, Answered
  <2>2. /\ m.role = "assistant" /\ m.native.provider = q
        /\ m.native.listed \/ m.native.items = <<>>
    BY <2>1 DEF FromProvider
  <2>3. CASE p = q
    <3>1. BlocksFor(p, m) = ReplayBlocks(p, m)
      BY <2>2, <2>3 DEF BlocksFor, IsNative
    <3>2. OpaqueFor(p, m) = [j \in DOMAIN m.native.items |-> Kept(p, m.native.items[j])]
      BY <2>2, <2>3 DEF OpaqueFor, Each, Kept
    <3> QED BY <1>1, <2>2, <3>1, <3>2, ReplayedItems
  <2>4. CASE p # q
    <3>1. BlocksFor(p, m) = ShownBlocks(m) \o CallBlocks(p, m)
      BY <2>2, <2>4 DEF BlocksFor, IsNative
    <3>2. OpaqueFor(p, m) = ExtensionItems(m.contents)
                              \o (IF p = "openai" THEN ItemIds(m.calls) ELSE <<>>)
      BY <2>2, <2>4 DEF OpaqueFor
    <3>3. PICK w : /\ w = (IF p = "openai" THEN ItemIds(m.calls) ELSE <<>>)
                   /\ ExtensionItems(m.contents) = <<>>
                   /\ Hom(Opaque, BlocksFor(p, m)) = w
      BY <1>1, <2>1, <2>4, <3>1, ForeignItems, ShownItems
    <3>4. <<>> \o w = w
      <4>1. w \in Seq(BlockItems)
        BY <3>3, BlocksType, OpaqueInto, HomType
      <4> QED BY <4>1, ConcatEmptySeq
    <3> QED BY <1>1, <2>2, <3>2, <3>3, <3>4
  <2> QED BY <2>3, <2>4
<1> QED BY <1>2, <1>3

LEMMA BodyType ==
    ASSUME NEW p \in Providers, NEW h \in Seq(Messages), NEW n \in Nat, n = Len(h),
           NEW f, Renders(p, h, n, f)
    PROVE  \A k \in 0..n : f[k] \in Seq(Turns)
<1>1. PICK T : T = {k \in Nat : k <= n => f[k] \in Seq(Turns)}
  OBVIOUS
<1>2. 0 \in T
  BY <1>1, EmptySeq DEF Renders
<1>3. ASSUME NEW k \in Nat, k \in T PROVE k + 1 \in T
  <2>1. SUFFICES ASSUME k + 1 <= n PROVE f[k + 1] \in Seq(Turns)
    BY <1>1
  <2>2. k + 1 \in 1..n /\ k + 1 - 1 = k
    BY <2>1
  <2>3. f[k] \in Seq(Turns) /\ h[k + 1] \in Messages
    BY <1>1, <1>3, <2>1, <2>2, ElementOfSeq
  <2>4. f[k + 1] = Added(p, f[k], h[k + 1])
    BY <2>2 DEF Renders
  <2> QED BY <2>3, <2>4, AddedType
<1>4. \A k \in Nat : k \in T
  BY <1>2, <1>3, EveryNumber
<1> QED BY <1>1, <1>4

LEMMA BodyOpaque ==
    ASSUME NEW p \in Providers, NEW h, History(h), Renderable(p, h)
    PROVE  OpaqueItems(Body(p, h)) = FlattenSeq(Each(h, LAMBDA m : OpaqueFor(p, m)))
<1>1. PICK n \in Nat : n = Len(h) /\ DOMAIN h = 1..n /\ h \in Seq(Messages)
  BY LenProperties DEF History
<1>2. PICK f : Renders(p, h, n, f) /\ Body(p, h) = f[n]
  BY <1>1, BodyIs
<1>3. \A k \in 0..n : f[k] \in Seq(Turns)
  BY <1>1, <1>2, BodyType
<1>4. PICK s : s = Each(h, LAMBDA m : OpaqueFor(p, m))
  OBVIOUS
<1>5. ASSUME NEW k \in 1..n
      PROVE  /\ s[k] = Hom(Opaque, BlocksFor(p, h[k])) /\ s[k] \in Seq(BlockItems)
             /\ h[k] \in Messages /\ (h[k].native.listed \/ h[k].native.items = <<>>)
  <2>1. h[k] \in Messages
    BY <1>1, ElementOfSeq
  <2>2. Accepts(p, h[k])
    BY <1>1 DEF Renderable, Every
  <2>3. /\ Hom(Opaque, BlocksFor(p, h[k])) = OpaqueFor(p, h[k])
        /\ h[k].native.listed \/ h[k].native.items = <<>>
    BY <1>1, <2>2, OpaqueIs
  <2>4. s[k] = OpaqueFor(p, h[k])
    BY <1>1, <1>4 DEF Each
  <2>5. Hom(Opaque, BlocksFor(p, h[k])) \in Seq(BlockItems)
    BY <2>1, BlocksType, OpaqueInto, HomType
  <2> QED BY <2>1, <2>3, <2>4, <2>5
<1>6. s \in Seq(Seq(BlockItems)) /\ Len(s) = n
  <2>1. DOMAIN s = 1..n /\ s = [k \in 1..n |-> s[k]]
    BY <1>1, <1>4 DEF Each
  <2>2. \A k \in 1..n : s[k] \in Seq(BlockItems)
    BY <1>5
  <2> QED BY <2>1, <2>2, MakeSeq
<1>7. PICK j : JoinsTo(n, s, j) /\ FlattenSeq(s) = j[n]
  BY <1>6, Flattens
<1>8. Grows(n, s, j)
  BY <1>7, JoinStep
<1>9. PICK T : T = {k \in Nat : k <= n => Hom(OpaqueIn, f[k]) = j[k]}
  OBVIOUS
<1>10. 0 \in T
  <2>1. f[0] = <<>> /\ j[0] = <<>>
    BY <1>2, <1>7 DEF Renders, JoinsTo
  <2> QED BY <1>9, <2>1, HomEmpty
<1>11. ASSUME NEW k \in Nat, k \in T PROVE k + 1 \in T
  <2>1. SUFFICES ASSUME k + 1 <= n PROVE Hom(OpaqueIn, f[k + 1]) = j[k + 1]
    BY <1>9
  <2>2. k + 1 \in 1..n /\ k + 1 - 1 = k /\ k \in 0..n
    BY <2>1
  <2>3. Hom(OpaqueIn, f[k]) = j[k]
    BY <1>1, <1>9, <1>11, <2>1
  <2>4. PICK m \in Messages, turns \in Seq(Turns) :
           /\ m = h[k + 1] /\ turns = f[k] /\ (m.native.listed \/ m.native.items = <<>>)
           /\ s[k + 1] = Hom(Opaque, BlocksFor(p, m))
    BY <1>3, <1>5, <2>2
  <2>5. f[k + 1] = Added(p, turns, m)
    BY <1>2, <2>2, <2>4 DEF Renders
  <2>6. Hom(OpaqueIn, Added(p, turns, m))
          = Hom(OpaqueIn, turns) \o Hom(Opaque, BlocksFor(p, m))
    BY <2>4, OpaqueAdded
  <2>7. j[k + 1] = j[k] \o s[k + 1]
    BY <1>8, <2>2 DEF Grows
  <2> QED BY <2>3, <2>4, <2>5, <2>6, <2>7
<1>12. n \in T
  BY <1>1, <1>10, <1>11, EveryNumber
<1>13. Hom(OpaqueIn, f[n]) = j[n]
  BY <1>1, <1>9, <1>12
<1>14. OpaqueItems(f[n]) = Hom(OpaqueIn, f[n])
  BY <1>1, <1>3, OpaqueItemsAre
<1> QED BY <1>2, <1>4, <1>7, <1>13, <1>14

\* The opaque data in a request is what this provider once sent, in its order
\* and complete, with what the application addressed to it; a request to OpenAI
\* also holds the ids of the calls of Anthropic and of chat protocols, each
\* equal to the id of its call.  There is nothing else of another provider.
THEOREM Replay == Spec => []NativeIsReplayed
<1>1. ASSUME IInv PROVE NativeIsReplayed
  <2>1. SUFFICES ASSUME request # NoRequest
                 PROVE  OpaqueItems(request.body)
                          = FlattenSeq(Each(messages, LAMBDA m : OpaqueFor(request.provider, m)))
    BY DEF NativeIsReplayed
  <2>2. /\ client \in Providers /\ client = request.provider
        /\ request.body = Body(client, messages) /\ Renderable(client, messages)
    <3>1. /\ client \in Providers /\ Renderable(client, messages)
          /\ request = [provider |-> client, body |-> Body(client, messages)]
      BY <1>1, <2>1 DEF IInv, Sent
    <3> QED BY <3>1
  <2>3. OpaqueItems(Body(client, messages))
          = FlattenSeq(Each(messages, LAMBDA m : OpaqueFor(client, m)))
    BY <1>1, <2>2, BodyOpaque DEF IInv
  <2> QED BY <2>2, <2>3
<1> QED BY <1>1, Consistent, PTL

-----------------------------------------------------------------------------
(***************************************************************************)
(* Reading a request block by block.  f holds the calls that are open      *)
(* after 0, 1, ..., n of its entries s.                                    *)
(***************************************************************************)
Reads(p, s, k, f) == f[k] = Waiting(f[k - 1], s[k]) /\ InPlace(p, f[k - 1], s[k])
Scans(p, s, n, f) == \A k \in 1..n : Reads(p, s, k, f)

\* Entry by entry everything is in place, and a becomes b.
Scan(p, a, s, b) == \E f : f[0] = a /\ f[Len(s)] = b /\ Scans(p, s, Len(s), f)

LEMMA ScanNothing ==
    ASSUME NEW p, NEW a, NEW s, Len(s) = 0
    PROVE  Scan(p, a, s, a)
<1>1. PICK f : f = [k \in 0..0 |-> a]
  OBVIOUS
<1>2. f[0] = a /\ Scans(p, s, 0, f)
  BY <1>1 DEF Scans
<1> QED BY <1>2 DEF Scan

\* Two scans, one after the other.
LEMMA ScanConcat ==
    ASSUME NEW E, NEW s \in Seq(E), NEW t \in Seq(E), NEW p, NEW a, NEW b, NEW c,
           Scan(p, a, s, b), Scan(p, b, t, c)
    PROVE  Scan(p, a, s \o t, c)
<1>1. PICK m \in Nat, n \in Nat : m = Len(s) /\ n = Len(t)
  BY LenProperties
<1>2. PICK f : f[0] = a /\ f[m] = b /\ Scans(p, s, m, f)
  BY <1>1 DEF Scan
<1>3. PICK g : g[0] = b /\ g[n] = c /\ Scans(p, t, n, g)
  BY <1>1 DEF Scan
<1>4. PICK u : /\ u = s \o t /\ Len(u) = m + n
               /\ \A k \in 1..m : u[k] = s[k]
               /\ \A k \in 1..n : u[m + k] = t[k]
  <2>1. Chained(s \o t, E, s, t)
    BY ConcatChains
  <2> QED BY <1>1, <2>1 DEF Chained
<1>5. PICK h : h = [k \in 0..(m + n) |-> IF k <= m THEN f[k] ELSE g[k - m]]
  OBVIOUS
<1>6. (\A k \in 0..m : h[k] = f[k]) /\ \A k \in 0..n : h[m + k] = g[k]
  <2>1. ASSUME NEW k \in 0..m PROVE h[k] = f[k]
    BY <1>1, <1>5
  <2>2. ASSUME NEW k \in 0..n PROVE h[m + k] = g[k]
    <3>1. CASE k = 0
      <4>1. h[m] = f[m]
        BY <1>1, <2>1
      <4> QED BY <1>1, <1>2, <1>3, <3>1, <4>1
    <3>2. CASE k # 0
      <4>1. m + k \in 0..(m + n) /\ ~(m + k <= m) /\ m + k - m = k
        BY <1>1, <3>2
      <4> QED BY <1>5, <4>1
    <3> QED BY <3>1, <3>2
  <2> QED BY <2>1, <2>2
<1>7. ASSUME NEW k \in 1..(m + n) PROVE Reads(p, u, k, h)
  <2>1. CASE k \in 1..m
    <3>1. k \in 0..m /\ k - 1 \in 0..m
      BY <1>1, <2>1
    <3>2. Reads(p, s, k, f)
      BY <1>2, <2>1 DEF Scans
    <3>3. h[k] = f[k] /\ h[k - 1] = f[k - 1] /\ u[k] = s[k]
      BY <1>4, <1>6, <2>1, <3>1
    <3> QED BY <3>2, <3>3 DEF Reads
  <2>2. CASE ~(k \in 1..m)
    <3>1. PICK j \in 1..n : k = m + j
      <4>1. k - m \in 1..n /\ k = m + (k - m)
        BY <1>1, <2>2
      <4> QED BY <4>1
    <3>2. j \in 0..n /\ j - 1 \in 0..n /\ k - 1 = m + (j - 1)
      BY <1>1, <3>1
    <3>3. Reads(p, t, j, g)
      BY <1>3 DEF Scans
    <3>4. h[k] = g[j] /\ h[k - 1] = g[j - 1] /\ u[k] = t[j]
      BY <1>4, <1>6, <3>1, <3>2
    <3> QED BY <3>3, <3>4 DEF Reads
  <2> QED BY <2>1, <2>2
<1>8. h[0] = a /\ h[m + n] = c
  <2>1. 0 \in 0..m /\ n \in 0..n
    BY <1>1
  <2> QED BY <1>2, <1>3, <1>6, <2>1
<1> QED BY <1>4, <1>7, <1>8 DEF Scan, Scans

LEMMA ScanOne ==
    ASSUME NEW p, NEW a, NEW b, NEW s, Len(s) = 1,
           b = Waiting(a, s[1]), InPlace(p, a, s[1])
    PROVE  Scan(p, a, s, b)
<1>1. PICK f : f = [k \in 0..1 |-> IF k = 0 THEN a ELSE b]
  OBVIOUS
<1>2. f[0] = a /\ f[1] = b
  BY <1>1
<1>3. Reads(p, s, 1, f)
  <2>1. f[1 - 1] = a
    BY <1>2
  <2> QED BY <1>2, <2>1 DEF Reads
<1> QED BY <1>2, <1>3 DEF Scan, Scans

\* The calls that s asks for.
Asked(s) == FlattenSeq([k \in DOMAIN s |-> IF s[k].asks THEN <<s[k].block>> ELSE <<>>])

Voices(e) == e.block \in Blocks /\ e.block.kind # "result" /\ e.role # "user"

\* Blocks that are no results open the calls among them.
LEMMA ScanAsking ==
    ASSUME NEW p, NEW E, NEW s \in Seq(E), \A k \in 1..Len(s) : Voices(s[k])
    PROVE  Scan(p, <<>>, s, Asked(s)) /\ Asked(s) \in Seq(Blocks)
<1>1. PICK n \in Nat : n = Len(s) /\ DOMAIN s = 1..n
  BY LenProperties
<1>2. PICK u : u = [k \in 1..n |-> IF s[k].asks THEN <<s[k].block>> ELSE <<>>]
  OBVIOUS
<1>3. \A k \in 1..n : u[k] \in Seq(Blocks)
  <2>1. ASSUME NEW k \in 1..n PROVE u[k] \in Seq(Blocks)
    <3>1. PICK b \in Blocks : b = s[k].block
      BY <1>1 DEF Voices
    <3>2. <<b>> \in Seq(Blocks) /\ <<>> \in Seq(Blocks)
      BY EmptySeq
    <3> QED BY <1>2, <3>1, <3>2
  <2> QED BY <2>1
<1>4. u \in Seq(Seq(Blocks)) /\ Len(u) = n
  <2>1. DOMAIN u = 1..n /\ u = [k \in 1..n |-> u[k]]
    BY <1>2
  <2> QED BY <1>3, <2>1, MakeSeq
<1>5. PICK j : /\ \A k \in 0..n : j[k] \in Seq(Blocks)
               /\ JoinsTo(n, u, j) /\ FlattenSeq(u) = j[n]
  BY <1>4, Flattens
<1>6. ASSUME NEW k \in 1..n PROVE Reads(p, s, k, j)
  <2>1. Joins(k, u, j)
    BY <1>5 DEF JoinsTo
  <2>2. PICK a \in Seq(Blocks) : a = j[k - 1]
    <3>1. k - 1 \in 0..n
      BY <1>1
    <3> QED BY <1>5, <3>1
  <2>3. PICK e : e = s[k] /\ Voices(e)
    BY <1>1
  <2>4. CASE e.asks
    <3>1. PICK b \in Blocks : b = e.block
      BY <2>3 DEF Voices
    <3>2. j[k] = a \o <<b>>
      BY <1>2, <2>1, <2>2, <2>3, <2>4, <3>1 DEF Joins
    <3>3. a \o <<b>> = Append(a, b)
      BY AppendIsConcat
    <3>4. Waiting(a, e) = Append(a, b)
      BY <2>4, <3>1 DEF Waiting
    <3>5. InPlace(p, a, e)
      BY <2>3 DEF Voices, InPlace
    <3> QED BY <2>2, <2>3, <3>2, <3>3, <3>4, <3>5 DEF Reads
  <2>5. CASE ~e.asks
    <3>1. j[k] = a \o <<>>
      BY <1>2, <2>1, <2>2, <2>3, <2>5 DEF Joins
    <3>2. a \o <<>> = a
      BY ConcatEmptySeq
    <3>3. Waiting(a, e) = a
      BY <2>3, <2>5 DEF Waiting, Voices
    <3>4. InPlace(p, a, e)
      BY <2>3 DEF Voices, InPlace
    <3> QED BY <2>2, <2>3, <3>1, <3>2, <3>3, <3>4 DEF Reads
  <2> QED BY <2>4, <2>5
<1>7. Scan(p, <<>>, s, j[n])
  BY <1>1, <1>5, <1>6 DEF Scan, Scans, JoinsTo
<1>8. Asked(s) = j[n]
  BY <1>1, <1>2, <1>5 DEF Asked
<1>9. n \in 0..n
  BY <1>1
<1> QED BY <1>5, <1>7, <1>8, <1>9

\* Where nothing is asked or answered, nothing is open before or after it.
LEMMA ScanQuiet ==
    ASSUME NEW p, NEW E, NEW s \in Seq(E),
           \A k \in 1..Len(s) : ~s[k].asks /\ s[k].block.kind # "result"
    PROVE  Scan(p, <<>>, s, <<>>)
<1>1. PICK n \in Nat : n = Len(s)
  BY LenProperties
<1>2. PICK f : f = [k \in 0..n |-> <<>>]
  OBVIOUS
<1>3. ASSUME NEW k \in 1..n PROVE Reads(p, s, k, f)
  <2>1. f[k] = <<>> /\ f[k - 1] = <<>>
    BY <1>1, <1>2
  <2>2. Waiting(<<>>, s[k]) = <<>> /\ InPlace(p, <<>>, s[k])
    BY <1>1 DEF Waiting, InPlace
  <2> QED BY <2>1, <2>2 DEF Reads
<1>4. f[0] = <<>> /\ f[n] = <<>>
  BY <1>1, <1>2
<1> QED BY <1>1, <1>3, <1>4 DEF Scan, Scans

\* A result that is in place takes the first open call away.
LEMMA ScanAnswer ==
    ASSUME NEW p, NEW a \in Seq(Blocks), a # <<>>, NEW s, Len(s) = 1,
           ~s[1].asks, s[1].block.kind = "result", Answers(p, s[1].block, a[1])
    PROVE  Scan(p, a, s, Tail(a))
<1>1. Waiting(a, s[1]) = Tail(a) /\ InPlace(p, a, s[1])
  BY DEF Waiting, InPlace
<1> QED BY <1>1, ScanOne

\* What the property says of a body that scans.
LEMMA ScanSays ==
    ASSUME NEW E, NEW flat \in Seq(E), NEW p, Scan(p, <<>>, flat, <<>>)
    PROVE  LET open[n \in 0..Len(flat)] ==
                   IF n = 0 THEN <<>> ELSE Waiting(open[n - 1], flat[n])
           IN  /\ \A n \in DOMAIN flat : InPlace(p, open[n - 1], flat[n])
               /\ open[Len(flat)] = <<>>
<1>1. PICK n \in Nat : n = Len(flat) /\ DOMAIN flat = 1..n
  BY LenProperties
<1> DEFINE Rule(e) == [k \in 0..n |-> IF k = 0 THEN <<>> ELSE Waiting(e[k - 1], flat[k])]
<1>2. PICK f : f[0] = <<>> /\ f[n] = <<>> /\ Scans(p, flat, n, f)
  BY <1>1 DEF Scan
<1>3. PICK g : g = [k \in 0..n |-> f[k]]
  OBVIOUS
<1>4. g = Rule(g)
  <2>1. ASSUME NEW k \in 0..n
        PROVE  f[k] = IF k = 0 THEN <<>> ELSE Waiting(g[k - 1], flat[k])
    <3>1. CASE k = 0
      BY <1>2, <3>1
    <3>2. CASE k # 0
      <4>1. k \in 1..n /\ k - 1 \in 0..n
        BY <1>1, <3>2
      <4>2. f[k] = Waiting(f[k - 1], flat[k]) /\ g[k - 1] = f[k - 1]
        BY <1>2, <1>3, <4>1 DEF Scans, Reads
      <4> QED BY <3>2, <4>2
    <3> QED BY <3>1, <3>2
  <2> QED BY <1>3, <2>1
<1>5. PICK b : b = (CHOOSE e : e = Rule(e)) /\ b = Rule(b)
  BY <1>4
<1>6. b[0] = <<>> /\ \A k \in 1..n : b[k] = Waiting(b[k - 1], flat[k])
  <2>1. b[0] = <<>>
    BY <1>1, <1>5
  <2>2. ASSUME NEW k \in 1..n PROVE b[k] = Waiting(b[k - 1], flat[k])
    <3>1. k \in 0..n /\ k # 0
      BY <1>1
    <3> QED BY <1>5, <3>1
  <2> QED BY <2>1, <2>2
<1>7. PICK T : T = {k \in Nat : k <= n => b[k] = f[k]}
  OBVIOUS
<1>8. 0 \in T
  BY <1>2, <1>6, <1>7
<1>9. ASSUME NEW k \in Nat, k \in T PROVE k + 1 \in T
  <2>1. SUFFICES ASSUME k + 1 <= n PROVE b[k + 1] = f[k + 1]
    BY <1>7
  <2>2. PICK j \in 1..n : j = k + 1 /\ j - 1 = k
    BY <1>1, <2>1
  <2>3. b[k] = f[k]
    BY <1>1, <1>7, <1>9, <2>1
  <2>4. Reads(p, flat, j, f)
    BY <1>2 DEF Scans
  <2>5. f[j] = Waiting(f[k], flat[j]) /\ b[j] = Waiting(b[k], flat[j])
    BY <1>6, <2>2, <2>4 DEF Reads
  <2> QED BY <2>2, <2>3, <2>5
<1>10. \A k \in Nat : k \in T
  BY <1>8, <1>9, EveryNumber
<1>11. \A k \in 0..n : b[k] = f[k]
  BY <1>1, <1>7, <1>10
<1>12. \A k \in 1..n : InPlace(p, b[k - 1], flat[k])
  <2>1. ASSUME NEW k \in 1..n PROVE InPlace(p, b[k - 1], flat[k])
    <3>1. Reads(p, flat, k, f) /\ k - 1 \in 0..n
      BY <1>1, <1>2 DEF Scans
    <3> QED BY <1>11, <3>1 DEF Reads
  <2> QED BY <2>1
<1>13. b[n] = <<>>
  BY <1>1, <1>2, <1>11
<1> QED BY <1>1, <1>5, <1>12, <1>13

-----------------------------------------------------------------------------
(***************************************************************************)
(* The entries of a turn.  Only openai_compatible has legacy calls; where  *)
(* there are none, joining turns changes no entry.                         *)
(***************************************************************************)
EntrySet == [role : {"item", "user", "assistant", "model", "tool", "function"},
             block : Blocks, asks : BOOLEAN]
Asks(bs, b) ==
    IsCall(b) \/ (IsLegacyCall(b) /\ ~\E k \in DOMAIN bs : IsCall(bs[k]))
Flats == [t \in Turns |-> Entries(t)]

Modern == {b \in Blocks : ~IsLegacyCall(b)}

\* The entries s show the blocks bs.
Mirrors(s, bs) ==
    /\ s \in Seq(EntrySet) /\ Len(s) = Len(bs)
    /\ \A k \in 1..Len(bs) : s[k].block = bs[k] /\ (s[k].asks <=> Asks(bs, bs[k]))
Plain(s, bs) ==
    /\ s \in Seq(EntrySet) /\ Len(s) = Len(bs)
    /\ \A k \in 1..Len(bs) : s[k].block = bs[k] /\ (s[k].asks <=> IsCall(bs[k]))
InRole(s, role) == \A k \in 1..Len(s) : s[k].role = role

LEMMA EntriesAre ==
    ASSUME NEW role \in {"item", "user", "assistant", "model", "tool", "function"},
           NEW bs \in Seq(Blocks)
    PROVE  LET s == Entries(Turn(role, bs))
           IN  Mirrors(s, bs) /\ InRole(s, role)
<1>1. PICK s : s = Entries(Turn(role, bs))
  OBVIOUS
<1>2. PICK n \in Nat : n = Len(bs) /\ DOMAIN bs = 1..n
  BY LenProperties
<1>3. s = [k \in 1..n |-> [role |-> role, block |-> bs[k], asks |-> Asks(bs, bs[k])]]
  BY <1>1, <1>2 DEF Entries, Each, Turn, Asks
<1>4. ASSUME NEW k \in 1..n
      PROVE  /\ s[k] \in EntrySet /\ s[k].role = role /\ s[k].block = bs[k]
             /\ s[k].asks <=> Asks(bs, bs[k])
  <2>1. PICK b \in Blocks : b = bs[k]
    BY <1>2, ElementOfSeq
  <2>2. PICK q \in BOOLEAN : q = Asks(bs, bs[k])
    BY DEF Asks
  <2>3. s[k] = [role |-> role, block |-> b, asks |-> q]
    BY <1>3, <2>1, <2>2
  <2> QED BY <2>1, <2>2, <2>3 DEF EntrySet
<1>5. s \in Seq(EntrySet) /\ Len(s) = n
  <2>1. DOMAIN s = 1..n /\ s = [k \in 1..n |-> s[k]]
    BY <1>3
  <2> QED BY <1>4, <2>1, MakeSeq
<1> QED BY <1>1, <1>2, <1>4, <1>5 DEF Mirrors, InRole

LEMMA FlatsInto == Into(Flats, Turns, EntrySet)
<1>1. ASSUME NEW t \in Turns PROVE Flats[t] \in Seq(EntrySet)
  <2>1. t = Turn(t.role, t.blocks) /\ t.blocks \in Seq(Blocks)
        /\ t.role \in {"item", "user", "assistant", "model", "tool", "function"}
    BY DEF Turns, TurnsOf, Turn
  <2>2. Mirrors(Entries(t), t.blocks)
    BY <2>1, EntriesAre
  <2> QED BY <2>2 DEF Flats, Mirrors
<1> QED BY <1>1 DEF Into

LEMMA FlatsTurn ==
    ASSUME NEW role \in {"item", "user", "assistant", "model", "tool", "function"},
           NEW bs \in Seq(Blocks)
    PROVE  Mirrors(Flats[Turn(role, bs)], bs) /\ InRole(Flats[Turn(role, bs)], role)
<1>1. Turn(role, bs) \in Turns
  BY TurnIs
<1> QED BY <1>1, EntriesAre DEF Flats

LEMMA FlatIs ==
    ASSUME NEW body \in Seq(Turns)
    PROVE  Flat(body) = Hom(Flats, body)
<1>1. \A k \in DOMAIN body : body[k] \in Turns
  BY LenProperties
<1>2. [k \in DOMAIN body |-> Entries(body[k])] = Mapped(Flats, body)
  BY <1>1 DEF Mapped, Flats
<1> QED BY <1>2 DEF Flat, Each, Hom

LEMMA ModernMirrors ==
    ASSUME NEW s, NEW bs \in Seq(Modern)
    PROVE  Mirrors(s, bs) <=> Plain(s, bs)
<1>1. PICK n \in Nat : n = Len(bs)
  BY LenProperties
<1>2. ASSUME NEW k \in 1..n PROVE Asks(bs, bs[k]) <=> IsCall(bs[k])
  <2>1. bs[k] \in Modern
    BY <1>1, ElementOfSeq
  <2> QED BY <2>1 DEF Modern, Asks
<1> QED BY <1>1, <1>2 DEF Mirrors, Plain

LEMMA ModernTypes ==
    /\ Modern \subseteq Blocks /\ Seq(Modern) \subseteq Seq(Blocks)
    /\ Turns = TurnsOf(Blocks) /\ TurnsOf(Modern) \subseteq Turns
<1>1. Modern \subseteq Blocks
  BY DEF Modern
<1>2. ASSUME NEW s \in Seq(Modern) PROVE s \in Seq(Blocks)
  <2>1. \A k \in 1..Len(s) : s[k] \in Blocks
    BY <1>1, ElementOfSeq
  <2> QED BY <2>1, SubType
<1> QED BY <1>1, <1>2 DEF Turns, TurnsOf

LEMMA PlainConcat ==
    ASSUME NEW s, NEW t, NEW a \in Seq(Modern), NEW b \in Seq(Modern),
           Plain(s, a), Plain(t, b)
    PROVE  Plain(s \o t, a \o b)
<1>1. s \in Seq(EntrySet) /\ t \in Seq(EntrySet)
  BY DEF Plain
<1>2. PICK m \in Nat, n \in Nat : m = Len(a) /\ n = Len(b)
  BY LenProperties
<1>3. m = Len(s) /\ n = Len(t)
  BY <1>2 DEF Plain
<1>4. PICK u : u = s \o t /\ Chained(u, EntrySet, s, t)
  BY <1>1, ConcatChains
<1>5. PICK c : c = a \o b /\ Chained(c, Modern, a, b)
  BY ConcatChains
<1>6. ASSUME NEW k \in 1..(m + n)
      PROVE  u[k].block = c[k] /\ (u[k].asks <=> IsCall(c[k]))
  <2>1. CASE k \in 1..m
    <3>1. u[k] = s[k] /\ c[k] = a[k]
      BY <1>2, <1>3, <1>4, <1>5, <2>1 DEF Chained
    <3> QED BY <1>2, <2>1, <3>1 DEF Plain
  <2>2. CASE ~(k \in 1..m)
    <3>1. PICK j \in 1..n : k = m + j
      <4>1. k - m \in 1..n /\ k = m + (k - m)
        BY <1>2, <2>2
      <4> QED BY <4>1
    <3>2. u[m + j] = t[j] /\ c[m + j] = b[j]
      BY <1>2, <1>3, <1>4, <1>5 DEF Chained
    <3> QED BY <1>2, <3>1, <3>2 DEF Plain
  <2> QED BY <2>1, <2>2
<1>7. u \in Seq(EntrySet) /\ Len(u) = m + n /\ Len(c) = m + n
  BY <1>2, <1>3, <1>4, <1>5 DEF Chained
<1> QED BY <1>4, <1>5, <1>6, <1>7 DEF Plain

\* Blocks without a legacy call have the same entries in one turn and in two.
LEMMA ModernSplits ==
    ASSUME NEW role \in {"item", "user", "assistant", "model", "tool", "function"},
           NEW a \in Seq(Modern), NEW b \in Seq(Modern)
    PROVE  Splits(Flats, role, a, b)
<1>1. a \in Seq(Blocks) /\ b \in Seq(Blocks) /\ a \o b \in Seq(Modern)
      /\ a \o b \in Seq(Blocks)
  BY ModernTypes, ConcatProperties
<1>2. PICK x, y, z : /\ x = Flats[Turn(role, a)] /\ y = Flats[Turn(role, b)]
                     /\ z = Flats[Turn(role, a \o b)]
  OBVIOUS
<1>3. Plain(x, a) /\ Plain(y, b) /\ Plain(z, a \o b)
  BY <1>1, <1>2, FlatsTurn, ModernMirrors
<1>4. InRole(x, role) /\ InRole(y, role) /\ InRole(z, role)
  BY <1>1, <1>2, FlatsTurn
<1>5. x \in Seq(EntrySet) /\ y \in Seq(EntrySet) /\ z \in Seq(EntrySet)
  BY <1>3 DEF Plain
<1>6. PICK u : u = x \o y /\ Chained(u, EntrySet, x, y)
  BY <1>5, ConcatChains
<1>7. Plain(u, a \o b)
  BY <1>3, <1>6, PlainConcat
<1>8. PICK m \in Nat, n \in Nat : m = Len(x) /\ n = Len(y)
  BY <1>5, LenProperties
<1>9. InRole(u, role)
  <2>1. ASSUME NEW k \in 1..(m + n) PROVE u[k].role = role
    <3>1. CASE k \in 1..m
      BY <1>4, <1>6, <1>8, <3>1 DEF Chained, InRole
    <3>2. CASE ~(k \in 1..m)
      <4>1. PICK j \in 1..n : k = m + j
        <5>1. k - m \in 1..n /\ k = m + (k - m)
          BY <1>8, <3>2
        <5> QED BY <5>1
      <4>2. u[m + j] = y[j]
        BY <1>6, <1>8 DEF Chained
      <4> QED BY <1>4, <1>8, <4>1, <4>2 DEF InRole
    <3> QED BY <3>1, <3>2
  <2>2. Len(u) = m + n
    BY <1>6, <1>8 DEF Chained
  <2> QED BY <2>1, <2>2 DEF InRole
<1>10. Alike(z, u)
  <2>0. PICK c : c = a \o b
    OBVIOUS
  <2>1. PICK l \in Nat : l = Len(z) /\ l = Len(u) /\ l = Len(c)
    BY <1>3, <1>5, <1>7, <2>0, LenProperties DEF Plain
  <2>2. ASSUME NEW k \in 1..l PROVE z[k] = u[k]
    <3>1. z[k] \in EntrySet /\ u[k] \in EntrySet
      BY <1>5, <1>6, <2>1, ElementOfSeq DEF Chained
    <3>2. z[k].role = role /\ u[k].role = role
      BY <1>4, <1>9, <2>1 DEF InRole
    <3>3. z[k].block = c[k] /\ u[k].block = c[k]
      BY <1>3, <1>7, <2>0, <2>1 DEF Plain
    <3>4. z[k].asks <=> u[k].asks
      BY <1>3, <1>7, <2>0, <2>1 DEF Plain
    <3> QED BY <3>1, <3>2, <3>3, <3>4 DEF EntrySet
  <2> QED BY <2>1, <2>2 DEF Alike
<1>11. z = u
  <2>1. u \in Seq(EntrySet)
    BY <1>6 DEF Chained
  <2> QED BY <1>5, <1>10, <2>1, AlikeIsSame
<1> QED BY <1>2, <1>6, <1>11 DEF Splits

\* Merged turns without legacy calls have the entries of the parts.
LEMMA FlatsMerge ==
    ASSUME NEW turns \in Seq(TurnsOf(Modern)), NEW blocks \in Seq(Modern),
           NEW role \in {"item", "user", "assistant", "model", "tool", "function"}
    PROVE  /\ MergeTurn(turns, role, blocks) \in Seq(TurnsOf(Modern))
           /\ Hom(Flats, MergeTurn(turns, role, blocks))
                = Hom(Flats, turns) \o Flats[Turn(role, blocks)]
<1>1. ASSUME turns # <<>> PROVE Splits(Flats, role, Last(turns).blocks, blocks)
  <2>1. Last(turns) \in TurnsOf(Modern)
    BY <1>1, FrontLast
  <2>2. Last(turns).blocks \in Seq(Modern)
    BY <2>1 DEF TurnsOf
  <2> QED BY <2>2, ModernSplits
<1>2. Into(Flats, TurnsOf(Modern), EntrySet)
  <2>1. ASSUME NEW t \in TurnsOf(Modern) PROVE Flats[t] \in Seq(EntrySet)
    <3>1. t \in Turns
      BY ModernTypes
    <3> QED BY <3>1, FlatsInto DEF Into
  <2> QED BY <2>1 DEF Into
<1>3. MergeTurn(turns, role, blocks) \in Seq(TurnsOf(Modern))
  BY MergeTypeOf
<1>4. Hom(Flats, MergeTurn(turns, role, blocks)) = Hom(Flats, turns) \o Flats[Turn(role, blocks)]
  <2>1. Mergeable(Modern, EntrySet, Flats, turns, role, blocks)
    BY <1>1, <1>2 DEF Mergeable
  <2> QED BY <2>1, HomMergeOf
<1> QED BY <1>3, <1>4

\* Every block of an OpenAI item list is an entry by itself.
LEMMA FlatsItems ==
    ASSUME NEW blocks \in Seq(Modern)
    PROVE  Plain(Hom(Flats, ItemTurns(blocks)), blocks)
           /\ InRole(Hom(Flats, ItemTurns(blocks)), "item")
<1>1. PICK ts : ts = ItemTurns(blocks)
  OBVIOUS
<1>2. blocks \in Seq(Blocks)
  BY ModernTypes
<1>3. ts \in Seq(Turns) /\ Len(ts) = Len(blocks)
  BY <1>1, <1>2, ItemTurnsAre
<1>4. PICK n \in Nat : n = Len(blocks)
  BY LenProperties
<1>5. PICK x : x = [k \in 1..n |-> Flats[ts[k]][1]]
  OBVIOUS
<1>6. ASSUME NEW k \in 1..n
      PROVE  /\ x[k] \in EntrySet /\ Flats[ts[k]] = <<x[k]>>
             /\ x[k].block = blocks[k] /\ (x[k].asks <=> IsCall(blocks[k]))
             /\ x[k].role = "item"
  <2>1. PICK b \in Modern : b = blocks[k]
    BY <1>4, ElementOfSeq
  <2>2. PICK bs \in Seq(Modern) : bs = <<b>>
    <3>1. <<b>> \in Seq(Modern)
      OBVIOUS
    <3> QED BY <3>1
  <2>3. bs \in Seq(Blocks) /\ Len(bs) = 1 /\ bs[1] = b
    BY <2>2, ModernTypes
  <2>4. ts[k] = Turn("item", bs)
    BY <1>1, <1>2, <1>4, <2>1, <2>2, ItemTurnsAre
  <2>5. Plain(Flats[ts[k]], bs) /\ InRole(Flats[ts[k]], "item")
    BY <2>3, <2>4, FlatsTurn, ModernMirrors
  <2>6. PICK s : s = Flats[ts[k]] /\ s \in Seq(EntrySet) /\ Len(s) = 1
    BY <2>3, <2>5 DEF Plain
  <2>7. /\ s[1].block = b /\ (s[1].asks <=> IsCall(b)) /\ s[1].role = "item"
        /\ s[1] \in EntrySet
    BY <2>3, <2>5, <2>6, ElementOfSeq DEF Plain, InRole
  <2>8. s = <<s[1]>>
    <3>1. PICK e \in EntrySet : e = s[1]
      BY <2>7
    <3>2. PICK t : t = <<e>>
      OBVIOUS
    <3>3. t \in Seq(EntrySet) /\ Alike(s, t)
      BY <2>6, <3>1, <3>2 DEF Alike
    <3> QED BY <2>6, <3>1, <3>2, <3>3, AlikeIsSame
  <2> QED BY <1>5, <2>1, <2>6, <2>7, <2>8
<1>7. x \in Seq(EntrySet) /\ Len(x) = n
  <2>1. DOMAIN x = 1..n /\ x = [k \in 1..n |-> x[k]]
    BY <1>5
  <2> QED BY <1>6, <2>1, MakeSeq
<1>8. Hom(Flats, ts) = x
  <2>1. \A k \in 1..n : Flats[ts[k]] = <<x[k]>>
    BY <1>6
  <2> QED BY SMTT(40), <1>3, <1>4, <1>7, <2>1, FlatsInto, HomSingles
<1> QED BY <1>1, <1>4, <1>6, <1>7, <1>8 DEF Plain, InRole

-----------------------------------------------------------------------------
(***************************************************************************)
(* What a message adds to a request.                                       *)
(***************************************************************************)
Held(p) == IF p \in {"anthropic", "gemini"} THEN TurnsOf(Modern) ELSE Turns

\* The entries s are what message m gives in a request to p.
Segment(p, m, s) ==
    /\ Mirrors(s, BlocksFor(p, m))
    /\ m.role = "assistant" => \A k \in 1..Len(s) : s[k].role # "user"

Gains(p, turns, m) ==
    /\ Added(p, turns, m) \in Seq(Held(p))
    /\ \E s : /\ Segment(p, m, s)
              /\ Hom(Flats, Added(p, turns, m)) = Hom(Flats, turns) \o s

LEMMA SegmentOf ==
    ASSUME NEW p, NEW m, NEW s, NEW role, role = RoleFor(p, m),
           Mirrors(s, BlocksFor(p, m)), InRole(s, role)
    PROVE  Segment(p, m, s)
BY DEF Segment, InRole, RoleFor

LEMMA GainsMerged ==
    ASSUME NEW p \in {"anthropic", "gemini"}, NEW turns \in Seq(Held(p)),
           NEW m \in Messages, BlocksFor(p, m) \in Seq(Modern),
           Added(p, turns, m) = MergeTurn(turns, RoleFor(p, m), BlocksFor(p, m))
    PROVE  Gains(p, turns, m)
<1>1. PICK role, blocks, s : /\ role = RoleFor(p, m) /\ blocks = BlocksFor(p, m)
                             /\ s = Flats[Turn(role, blocks)]
  OBVIOUS
<1>2. /\ role \in {"item", "user", "assistant", "model", "tool", "function"}
      /\ blocks \in Seq(Modern) /\ blocks \in Seq(Blocks)
      /\ turns \in Seq(TurnsOf(Modern)) /\ Held(p) = TurnsOf(Modern)
  BY <1>1, RoleType, ModernTypes DEF Held
<1>3. /\ MergeTurn(turns, role, blocks) \in Seq(TurnsOf(Modern))
      /\ Hom(Flats, MergeTurn(turns, role, blocks)) = Hom(Flats, turns) \o s
  BY <1>1, <1>2, FlatsMerge
<1>4. Mirrors(s, blocks) /\ InRole(s, role)
  BY <1>1, <1>2, FlatsTurn
<1>5. Segment(p, m, s)
  BY <1>1, <1>4, SegmentOf
<1> QED BY <1>1, <1>2, <1>3, <1>5 DEF Gains

LEMMA GainsAnthropic ==
    ASSUME NEW turns \in Seq(Held("anthropic")), NEW m \in Messages,
           BlocksFor("anthropic", m) \in Seq(Modern)
    PROVE  Gains("anthropic", turns, m)
BY AddedAnthropic, GainsMerged

LEMMA GainsGemini ==
    ASSUME NEW turns \in Seq(Held("gemini")), NEW m \in Messages,
           m.native.listed \/ m.native.items = <<>>,
           BlocksFor("gemini", m) \in Seq(Modern)
    PROVE  Gains("gemini", turns, m)
<1>1. CASE IsNative(m, "gemini") /\ ~m.native.listed
  <2>1. Added("gemini", turns, m) = turns
    BY <1>1, AddedGemini
  <2>2. PICK blocks : blocks = BlocksFor("gemini", m) /\ blocks \in Seq(Modern)
    OBVIOUS
  <2>3. Len(blocks) = 0
    <3>1. Len(ReplayBlocks("gemini", m)) = 0
      BY <1>1, ReplayType, EmptySeq
    <3> QED BY <1>1, <2>2, <3>1 DEF BlocksFor
  <2>4. PICK s : s = <<>> /\ s \in Seq(EntrySet) /\ Len(s) = 0
    BY EmptySeq
  <2>5. Segment("gemini", m, s)
    BY <2>2, <2>3, <2>4 DEF Segment, Mirrors
  <2>6. Hom(Flats, turns) \o s = Hom(Flats, turns)
    <3>1. turns \in Seq(Turns)
      <4>1. \A k \in 1..Len(turns) : turns[k] \in Turns
        BY ModernTypes, ElementOfSeq DEF Held
      <4> QED BY <4>1, SubType
    <3> QED BY <2>4, <3>1, FlatsInto, HomType, ConcatEmptySeq
  <2> QED BY <2>1, <2>5, <2>6 DEF Gains
<1>2. CASE ~(IsNative(m, "gemini") /\ ~m.native.listed)
  BY <1>2, AddedGemini, GainsMerged
<1> QED BY <1>1, <1>2

LEMMA GainsCompatible ==
    ASSUME NEW turns \in Seq(Turns), NEW m \in Messages
    PROVE  Gains("openai_compatible", turns, m)
<1>1. PICK role, blocks, s : /\ role = RoleFor("openai_compatible", m)
                             /\ blocks = BlocksFor("openai_compatible", m)
                             /\ s = Flats[Turn(role, blocks)]
  OBVIOUS
<1>2. /\ role \in {"item", "user", "assistant", "model", "tool", "function"}
      /\ blocks \in Seq(Blocks)
  BY <1>1, RoleType, BlocksType
<1>3. PICK t \in Turns : t = Turn(role, blocks)
  BY <1>2, TurnIs
<1>4. /\ Append(turns, t) \in Seq(Turns)
      /\ Hom(Flats, Append(turns, t)) = Hom(Flats, turns) \o Flats[t]
  BY FlatsInto, HomAppend, AppendProperties
<1>5. Mirrors(s, blocks) /\ InRole(s, role)
  BY <1>1, <1>2, FlatsTurn
<1>6. Segment("openai_compatible", m, s)
  BY <1>1, <1>5, SegmentOf
<1>7. Added("openai_compatible", turns, m) = Append(turns, t)
  BY <1>1, <1>3, AddedCompatible
<1> QED BY <1>1, <1>3, <1>4, <1>6, <1>7 DEF Gains, Held

LEMMA SegmentOpenAI ==
    ASSUME NEW m \in Messages, BlocksFor("openai", m) \in Seq(Modern)
    PROVE  Segment("openai", m, Hom(Flats, OpenAITurns(m)))
<1>1. PICK s : s = Hom(Flats, OpenAITurns(m))
  OBVIOUS
<1>2. CASE IsNative(m, "openai")
  <2>1. PICK b : b = BlocksFor("openai", m) /\ b = ReplayBlocks("openai", m)
    BY <1>2 DEF BlocksFor
  <2>2. s = Hom(Flats, ItemTurns(b))
    BY <1>1, <1>2, <2>1 DEF OpenAITurns
  <2>3. Plain(s, b) /\ InRole(s, "item")
    BY <2>1, <2>2, FlatsItems
  <2>4. Mirrors(s, b)
    BY <2>1, <2>3, ModernMirrors
  <2> QED BY <1>1, <2>1, <2>3, <2>4 DEF Segment, InRole
<1>3. CASE m.role = "tool"
  <2>1. PICK b : b = BlocksFor("openai", m) /\ b = <<ResultBlock(ResultId("openai", m))>>
    BY <1>3 DEF BlocksFor, IsNative
  <2>2. s = Hom(Flats, ItemTurns(b))
    BY <1>1, <1>3, <2>1 DEF OpenAITurns, IsNative
  <2>3. Plain(s, b)
    BY <2>1, <2>2, FlatsItems
  <2>4. Mirrors(s, b)
    BY <2>1, <2>3, ModernMirrors
  <2> QED BY <1>1, <1>3, <2>1, <2>4 DEF Segment
<1>4. CASE m.role = "user"
  <2>1. PICK b : b = BlocksFor("openai", m) /\ b = ShownBlocks(m) /\ b \in Seq(Blocks)
    BY <1>4, ShownType DEF BlocksFor, IsNative
  <2>2. PICK t \in Turns : t = Turn("user", b) /\ OpenAITurns(m) = <<t>>
    BY <1>4, <2>1, TurnIs DEF OpenAITurns, IsNative
  <2>3. s = Flats[t]
    BY <1>1, <2>2, FlatsInto, HomOne
  <2>4. Mirrors(s, b)
    BY <2>1, <2>2, <2>3, FlatsTurn
  <2> QED BY <1>1, <1>4, <2>1, <2>4 DEF Segment
<1>5. CASE m.role = "assistant" /\ ~IsNative(m, "openai")
  <2>1. PICK b, c : /\ b = ShownBlocks(m) /\ c = CallBlocks("openai", m)
                    /\ BlocksFor("openai", m) = b \o c
    BY <1>5 DEF BlocksFor
  <2>2. b \in Seq(Blocks) /\ c \in Seq(Blocks)
    BY <2>1, ShownType, CallsType
  <2>3. b \in Seq(Modern) /\ c \in Seq(Modern)
    <3>1. PICK u : u = b \o c /\ u \in Seq(Modern) /\ Chained(u, Blocks, b, c)
      BY <2>1, <2>2, ConcatChains
    <3>2. PICK i \in Nat, j \in Nat : i = Len(b) /\ j = Len(c)
      BY <2>2, LenProperties
    <3>3. \A k \in 1..(i + j) : u[k] \in Modern
      BY <3>1, <3>2, ElementOfSeq DEF Chained
    <3>4. \A k \in 1..i : b[k] \in Modern
      BY <3>1, <3>2, <3>3 DEF Chained
    <3>5. ASSUME NEW k \in 1..j PROVE c[k] \in Modern
      <4>1. i + k \in 1..(i + j) /\ c[k] = u[i + k]
        BY <3>1, <3>2 DEF Chained
      <4> QED BY <3>3, <4>1
    <3> QED BY <2>2, <3>2, <3>4, <3>5, SubType
  <2>4. PICK x, y, a, d :
           /\ a = IF m.contents = <<>> THEN <<>> ELSE <<Turn("assistant", b)>>
           /\ d = ItemTurns(c) /\ x = Hom(Flats, a) /\ y = Hom(Flats, d)
    OBVIOUS
  <2>5. a \in Seq(Turns) /\ Plain(x, b) /\ \A k \in 1..Len(x) : x[k].role # "user"
    <3>1. CASE m.contents = <<>>
      <4>1. x = <<>> /\ a \in Seq(Turns)
        BY <2>4, <3>1, HomEmpty, EmptySeq
      <4>2. Len(b) = 0
        BY <2>1, <3>1, ShownType, EmptySeq
      <4>3. x \in Seq(EntrySet) /\ Len(x) = 0
        BY <4>1, EmptySeq
      <4> QED BY <4>1, <4>2, <4>3 DEF Plain
    <3>2. CASE m.contents # <<>>
      <4>1. PICK t \in Turns : t = Turn("assistant", b) /\ a = <<t>>
        BY <2>2, <2>4, <3>2, TurnIs
      <4>2. x = Flats[t] /\ a \in Seq(Turns)
        BY <2>4, <4>1, FlatsInto, HomOne, OneTurn
      <4>3. Mirrors(x, b) /\ InRole(x, "assistant")
        BY <2>2, <4>1, <4>2, FlatsTurn
      <4>4. Plain(x, b)
        BY <2>3, <4>3, ModernMirrors
      <4> QED BY <4>2, <4>3, <4>4 DEF InRole
    <3> QED BY <3>1, <3>2
  <2>6. d \in Seq(Turns) /\ Plain(y, c) /\ InRole(y, "item")
    BY <2>2, <2>3, <2>4, FlatsItems, ItemTurnsAre
  <2>7. s = x \o y
    <3>1. OpenAITurns(m) = a \o d
      BY <1>5, <2>1, <2>4 DEF OpenAITurns
    <3>2. Hom(Flats, a \o d) = Hom(Flats, a) \o Hom(Flats, d)
      BY <2>5, <2>6, FlatsInto, HomConcat
    <3> QED BY <1>1, <2>4, <3>1, <3>2
  <2>8. Mirrors(s, b \o c)
    <3>1. Plain(s, b \o c) /\ b \o c \in Seq(Modern)
      BY <2>1, <2>3, <2>5, <2>6, <2>7, PlainConcat
    <3> QED BY <3>1, ModernMirrors
  <2>9. \A k \in 1..Len(s) : s[k].role # "user"
    <3>1. x \in Seq(EntrySet) /\ y \in Seq(EntrySet)
      BY <2>5, <2>6 DEF Plain
    <3>2. Chained(s, EntrySet, x, y)
      BY <2>7, <3>1, ConcatChains
    <3>3. PICK i \in Nat, j \in Nat : i = Len(x) /\ j = Len(y) /\ Len(s) = i + j
      BY <3>1, <3>2, LenProperties DEF Chained
    <3>4. ASSUME NEW k \in 1..(i + j) PROVE s[k].role # "user"
      <4>1. CASE k \in 1..i
        BY <2>5, <3>2, <3>3, <4>1 DEF Chained
      <4>2. CASE ~(k \in 1..i)
        <5>1. PICK l \in 1..j : k = i + l
          <6>1. k - i \in 1..j /\ k = i + (k - i)
            BY <3>3, <4>2
          <6> QED BY <6>1
        <5>2. s[i + l] = y[l]
          BY <3>2, <3>3 DEF Chained
        <5> QED BY <2>6, <3>3, <5>1, <5>2 DEF InRole
      <4> QED BY <4>1, <4>2
    <3> QED BY <3>3, <3>4
  <2> QED BY <1>1, <2>1, <2>8, <2>9 DEF Segment
<1> QED BY <1>2, <1>3, <1>4, <1>5, MessageIs

LEMMA GainsOpenAI ==
    ASSUME NEW turns \in Seq(Turns), NEW m \in Messages,
           BlocksFor("openai", m) \in Seq(Modern)
    PROVE  Gains("openai", turns, m)
<1>1. PICK s : s = Hom(Flats, OpenAITurns(m)) /\ Segment("openai", m, s)
  BY SegmentOpenAI
<1>2. Added("openai", turns, m) = turns \o OpenAITurns(m) /\ OpenAITurns(m) \in Seq(Turns)
  BY AddedOpenAI, OpenAITurnsType
<1>3. Hom(Flats, turns \o OpenAITurns(m)) = Hom(Flats, turns) \o s
  <2>1. PICK ts \in Seq(Turns) : ts = OpenAITurns(m)
    BY <1>2
  <2>2. Hom(Flats, turns \o ts) = Hom(Flats, turns) \o Hom(Flats, ts)
    BY FlatsInto, HomConcat
  <2> QED BY <1>1, <2>1, <2>2
<1>4. Added("openai", turns, m) \in Seq(Turns)
  BY <1>2, ConcatProperties
<1> QED BY <1>1, <1>2, <1>3, <1>4 DEF Gains, Held

\* Each message adds one segment of entries to the body of each client.
LEMMA Gained ==
    ASSUME NEW p \in Providers, NEW turns \in Seq(Held(p)), NEW m \in Messages,
           m.native.listed \/ m.native.items = <<>>,
           p # "openai_compatible" => BlocksFor(p, m) \in Seq(Modern)
    PROVE  Gains(p, turns, m)
<1>1. CASE p = "openai"
  BY <1>1, GainsOpenAI DEF Held
<1>2. CASE p = "anthropic"
  BY <1>2, GainsAnthropic
<1>3. CASE p = "gemini"
  BY <1>3, GainsGemini
<1>4. CASE p = "openai_compatible"
  BY <1>4, GainsCompatible DEF Held
<1> QED BY <1>1, <1>2, <1>3, <1>4 DEF Providers

-----------------------------------------------------------------------------
(***************************************************************************)
(* Which calls a message asks for, and that they are those it records.     *)
(***************************************************************************)
Asking(bs) ==
    FlattenSeq([k \in DOMAIN bs |-> IF Asks(bs, bs[k]) THEN <<bs[k]>> ELSE <<>>])

LEMMA AskedIs ==
    ASSUME NEW s, NEW bs \in Seq(Blocks), Mirrors(s, bs)
    PROVE  Asked(s) = Asking(bs)
<1>1. PICK n \in Nat : n = Len(bs) /\ DOMAIN bs = 1..n
  BY LenProperties
<1>2. DOMAIN s = 1..n /\ \A k \in 1..n : s[k].block = bs[k] /\ (s[k].asks <=> Asks(bs, bs[k]))
  BY <1>1, LenProperties DEF Mirrors
<1>3. PICK u, v : /\ u = [k \in 1..n |-> IF s[k].asks THEN <<s[k].block>> ELSE <<>>]
                  /\ v = [k \in 1..n |-> IF Asks(bs, bs[k]) THEN <<bs[k]>> ELSE <<>>]
  OBVIOUS
<1>4. ASSUME NEW k \in 1..n PROVE u[k] = v[k]
  <2>1. CASE s[k].asks
    BY <1>2, <1>3, <2>1
  <2>2. CASE ~s[k].asks
    BY <1>2, <1>3, <2>2
  <2> QED BY <2>1, <2>2
<1>5. u = v
  BY <1>3, <1>4
<1> QED BY <1>1, <1>2, <1>3, <1>5 DEF Asked, Asking

\* Something joined is something there.
LEMMA FlattenHas ==
    ASSUME NEW A, NEW s \in Seq(Seq(A)), NEW k \in 1..Len(s), s[k] # <<>>
    PROVE  FlattenSeq(s) # <<>>
<1>1. PICK n \in Nat : n = Len(s)
  BY LenProperties
<1>2. PICK j : /\ \A i \in 0..n : j[i] \in Seq(A)
               /\ JoinsTo(n, s, j) /\ FlattenSeq(s) = j[n]
  BY <1>1, Flattens
<1>3. Grows(n, s, j)
  BY <1>2, JoinStep
<1>4. PICK T : T = {i \in Nat : k <= i /\ i <= n => j[i] # <<>>}
  OBVIOUS
<1>5. 0 \in T
  BY <1>4
<1>6. ASSUME NEW i \in Nat, i \in T PROVE i + 1 \in T
  <2>1. SUFFICES ASSUME k <= i + 1, i + 1 <= n PROVE j[i + 1] # <<>>
    BY <1>4
  <2>2. i + 1 \in 1..n /\ i \in 0..n /\ i <= n
    BY <1>1, <2>1
  <2>3. PICK a \in Seq(A), b \in Seq(A) : a = j[i] /\ b = s[i + 1]
    BY <1>1, <1>2, <2>2, ElementOfSeq
  <2>4. j[i + 1] = a \o b
    BY <1>3, <2>2, <2>3 DEF Grows
  <2>5. a # <<>> \/ b # <<>>
    <3>1. CASE k = i + 1
      BY <2>3, <3>1
    <3>2. CASE k # i + 1
      <4>1. k <= i
        BY <1>1, <2>1, <3>2
      <4> QED BY <1>4, <1>6, <2>2, <2>3, <4>1
    <3> QED BY <3>1, <3>2
  <2>6. Len(a \o b) # 0
    <3>1. Len(a \o b) = Len(a) + Len(b) /\ Len(a) \in Nat /\ Len(b) \in Nat
      BY ConcatProperties, LenProperties
    <3>2. Len(a) # 0 \/ Len(b) # 0
      BY <2>5, EmptySeq
    <3> QED BY <3>1, <3>2
  <2> QED BY <2>4, <2>6, EmptySeq
<1>7. n \in T
  BY <1>1, <1>5, <1>6, EveryNumber
<1>8. j[n] # <<>>
  BY <1>1, <1>4, <1>7
<1> QED BY <1>2, <1>8

\* g takes B into A; f is what it makes of s.
Carries(g, B, A) == \A b \in B : g[b] \in A
MapsAll(f, A, g, s) ==
    f \in Seq(A) /\ Len(f) = Len(s) /\ \A k \in 1..Len(s) : f[k] = g[s[k]]

LEMMA MappedType ==
    ASSUME NEW A, NEW B, NEW g, Carries(g, B, A), NEW s \in Seq(B)
    PROVE  MapsAll(Mapped(g, s), A, g, s)
<1>1. PICK f : f = Mapped(g, s)
  OBVIOUS
<1>2. PICK n \in Nat : n = Len(s) /\ DOMAIN s = 1..n
  BY LenProperties
<1>3. DOMAIN f = 1..n /\ f = [k \in 1..n |-> f[k]] /\ \A k \in 1..n : f[k] = g[s[k]]
  BY <1>1, <1>2 DEF Mapped
<1>4. \A k \in 1..n : f[k] \in A
  <2>1. \A k \in 1..n : s[k] \in B
    BY <1>2, ElementOfSeq
  <2> QED BY <1>3, <2>1 DEF Carries
<1>5. f \in Seq(A) /\ Len(f) = n
  <2>1. DOMAIN f = 1..n /\ f = [k \in 1..n |-> f[k]]
    BY <1>3
  <2> QED BY <1>4, <2>1, MakeSeq
<1> QED BY <1>1, <1>2, <1>3, <1>5 DEF MapsAll

LEMMA MappedConcat ==
    ASSUME NEW A, NEW B, NEW g, Carries(g, B, A), NEW s \in Seq(B), NEW t \in Seq(B)
    PROVE  Mapped(g, s \o t) = Mapped(g, s) \o Mapped(g, t)
<1>1. PICK w : w = s \o t /\ Chained(w, B, s, t)
  BY ConcatChains
<1>2. PICK x, y, z : x = Mapped(g, s) /\ y = Mapped(g, t) /\ z = Mapped(g, w)
  OBVIOUS
<1>3. MapsAll(x, A, g, s) /\ MapsAll(y, A, g, t)
  BY <1>2, MappedType
<1>4. MapsAll(z, A, g, w)
  <2>1. w \in Seq(B)
    BY <1>1 DEF Chained
  <2> QED BY <1>2, <2>1, MappedType
<1>5. x \in Seq(A) /\ y \in Seq(A) /\ z \in Seq(A)
  BY <1>3, <1>4 DEF MapsAll
<1>6. PICK u : u = x \o y /\ Chained(u, A, x, y)
  BY <1>5, ConcatChains
<1>7. PICK m \in Nat, n \in Nat : m = Len(s) /\ n = Len(t) /\ m = Len(x) /\ n = Len(y)
  BY <1>3, LenProperties DEF MapsAll
<1>8. Len(u) = m + n /\ Len(z) = m + n /\ Len(w) = m + n
  BY <1>1, <1>4, <1>6, <1>7 DEF Chained, MapsAll
<1>9. ASSUME NEW k \in 1..(m + n) PROVE z[k] = u[k]
  <2>1. z[k] = g[w[k]]
    BY <1>4, <1>8 DEF MapsAll
  <2>2. CASE k \in 1..m
    <3>1. w[k] = s[k] /\ u[k] = x[k]
      BY <1>1, <1>6, <1>7, <2>2 DEF Chained
    <3>2. x[k] = g[s[k]]
      BY <1>3, <1>7, <2>2 DEF MapsAll
    <3> QED BY <2>1, <3>1, <3>2
  <2>3. CASE ~(k \in 1..m)
    <3>1. PICK j \in 1..n : k = m + j
      <4>1. k - m \in 1..n /\ k = m + (k - m)
        BY <1>7, <2>3
      <4> QED BY <4>1
    <3>2. w[m + j] = t[j] /\ u[m + j] = y[j]
      BY <1>1, <1>6, <1>7 DEF Chained
    <3>3. y[j] = g[t[j]]
      BY <1>3, <1>7 DEF MapsAll
    <3> QED BY <2>1, <3>1, <3>2, <3>3
  <2> QED BY <2>2, <2>3
<1>10. Alike(z, u)
  BY <1>8, <1>9 DEF Alike
<1>11. z = u
  <2>1. u \in Seq(A)
    BY <1>6 DEF Chained
  <2> QED BY <1>5, <1>10, <2>1, AlikeIsSame
<1> QED BY <1>1, <1>2, <1>6, <1>11

\* u is v with g applied to everything in it.
Images(g, u, v) ==
    Len(u) = Len(v) /\ \A k \in 1..Len(v) : u[k] = Mapped(g, v[k])

LEMMA FlattenMapped ==
    ASSUME NEW A, NEW B, NEW g, Carries(g, B, A),
           NEW u \in Seq(Seq(A)), NEW v \in Seq(Seq(B)), Images(g, u, v)
    PROVE  FlattenSeq(u) = Mapped(g, FlattenSeq(v))
<1>1. PICK n \in Nat : n = Len(u) /\ n = Len(v)
  BY LenProperties DEF Images
<1>2. PICK i : JoinsTo(n, u, i) /\ FlattenSeq(u) = i[n]
  BY <1>1, Flattens
<1>3. PICK j : /\ \A k \in 0..n : j[k] \in Seq(B)
               /\ JoinsTo(n, v, j) /\ FlattenSeq(v) = j[n]
  BY <1>1, Flattens
<1>4. Grows(n, u, i)
  BY <1>2, JoinStep
<1>5. Grows(n, v, j)
  BY <1>3, JoinStep
<1>6. PICK T : T = {k \in Nat : k <= n => i[k] = Mapped(g, j[k])}
  OBVIOUS
<1>7. 0 \in T
  <2>1. i[0] = <<>> /\ j[0] = <<>>
    BY <1>2, <1>3 DEF JoinsTo
  <2>2. Mapped(g, <<>>) = <<>>
    BY DEF Mapped
  <2> QED BY <1>6, <2>1, <2>2
<1>8. ASSUME NEW k \in Nat, k \in T PROVE k + 1 \in T
  <2>1. SUFFICES ASSUME k + 1 <= n PROVE i[k + 1] = Mapped(g, j[k + 1])
    BY <1>6
  <2>2. k + 1 \in 1..n /\ k \in 0..n /\ k <= n
    BY <1>1, <2>1
  <2>3. PICK a \in Seq(B), b \in Seq(B) : a = j[k] /\ b = v[k + 1]
    BY <1>1, <1>3, <2>2, ElementOfSeq
  <2>4. i[k] = Mapped(g, a) /\ u[k + 1] = Mapped(g, b)
    BY <1>1, <1>6, <1>8, <2>2, <2>3 DEF Images
  <2>5. i[k + 1] = i[k] \o u[k + 1] /\ j[k + 1] = a \o b
    BY <1>4, <1>5, <2>2, <2>3 DEF Grows
  <2>6. Mapped(g, a \o b) = Mapped(g, a) \o Mapped(g, b)
    BY MappedConcat
  <2> QED BY <2>4, <2>5, <2>6
<1>9. n \in T
  BY <1>1, <1>7, <1>8, EveryNumber
<1>10. i[n] = Mapped(g, j[n])
  BY <1>1, <1>6, <1>9
<1> QED BY <1>2, <1>3, <1>10

-----------------------------------------------------------------------------
(***************************************************************************)
(* What a provider's own answer asks for when it is sent back.             *)
(***************************************************************************)
Resent(p) == [i \in Items |-> IF p = "openai_compatible" THEN CompatibleReplay(i)
                                                         ELSE Replayed(i)]
Picked(items, kinds) ==
    [k \in DOMAIN items |-> IF items[k].kind \in kinds THEN <<items[k]>> ELSE <<>>]

Picks(v, S, items, kinds) ==
    /\ OfKind(items, kinds) = FlattenSeq(v) /\ v \in Seq(Seq(S)) /\ Len(v) = Len(items)
    /\ \A k \in 1..Len(items) :
          /\ items[k].kind \in kinds => v[k] = <<items[k]>>
          /\ ~(items[k].kind \in kinds) => v[k] = <<>>

LEMMA PickedIs ==
    ASSUME NEW S, NEW items \in Seq(S), NEW kinds
    PROVE  Picks(Picked(items, kinds), S, items, kinds)
<1>0. PICK n \in Nat : n = Len(items)
  BY LenProperties
<1>1. PICK v : v = Picked(items, kinds)
  OBVIOUS
<1>2. DOMAIN items = 1..n
  BY <1>0, LenProperties
<1>3. v = [k \in 1..n |-> IF items[k].kind \in kinds THEN <<items[k]>> ELSE <<>>]
  BY <1>1, <1>2 DEF Picked
<1>4. ASSUME NEW k \in 1..n PROVE v[k] \in Seq(S)
  <2>1. PICK i \in S : i = items[k]
    BY <1>0, ElementOfSeq
  <2>2. <<i>> \in Seq(S) /\ <<>> \in Seq(S)
    BY EmptySeq
  <2> QED BY <1>3, <2>1, <2>2
<1>5. v \in Seq(Seq(S)) /\ Len(v) = n
  <2>1. DOMAIN v = 1..n /\ v = [k \in 1..n |-> v[k]]
    BY <1>3
  <2> QED BY <1>4, <2>1, MakeSeq
<1>6. OfKind(items, kinds) = FlattenSeq(v)
  BY <1>1 DEF OfKind, Each, Picked
<1> QED BY <1>0, <1>1, <1>3, <1>5, <1>6 DEF Picks

LEMMA SomeOfKind ==
    ASSUME NEW S, NEW items \in Seq(S), NEW kinds, NEW n \in Nat, n = Len(items)
    PROVE  OfKind(items, kinds) # <<>> <=> \E k \in 1..n : items[k].kind \in kinds
<1>0. PICK v : v = Picked(items, kinds) /\ Picks(v, S, items, kinds)
  BY PickedIs
<1>1. v \in Seq(Seq(S)) /\ Len(v) = n /\ OfKind(items, kinds) = FlattenSeq(v)
  BY <1>0 DEF Picks
<1>4. \A k \in 1..n : /\ items[k].kind \in kinds => v[k] = <<items[k]>>
                      /\ ~(items[k].kind \in kinds) => v[k] = <<>>
  BY <1>0 DEF Picks
<1>2. ASSUME NEW k \in 1..n, items[k].kind \in kinds PROVE FlattenSeq(v) # <<>>
  <2>1. v[k] = <<items[k]>>
    BY <1>2, <1>4
  <2>2. v[k] # <<>> /\ k \in 1..Len(v)
    BY <1>1, <2>1
  <2> QED BY <1>1, <2>2, FlattenHas
<1>3. ASSUME \A k \in 1..n : ~(items[k].kind \in kinds) PROVE FlattenSeq(v) = <<>>
  <2>1. \A k \in 1..n : v[k] = <<>>
    BY <1>3, <1>4
  <2>2. \A k \in 1..Len(v) : v[k] = <<>> /\ v[k] \in Seq({})
    BY <1>1, <2>1, EmptySeq
  <2>3. v \in Seq(Seq({}))
    BY <1>1, <2>2, SubType
  <2> QED BY <2>2, <2>3, FlattenNothing
<1> QED BY <1>1, <1>2, <1>3

LEMMA ResentIs ==
    ASSUME NEW p, NEW i \in Own(p), NEW b, b = Resent(p)[i]
    PROVE  /\ b \in Blocks /\ b.kind = "native" /\ b.id = i.id
           /\ IsCall(b) <=> i.kind = "call"
           /\ IsLegacyCall(b) <=> p = "openai_compatible" /\ i.kind = "legacy"
<1>1. i \in Items /\ i.provider = p
  BY DEF Own, Owns
<1>2. Replayed(i) \in Blocks /\ CompatibleReplay(i) \in Blocks
  BY <1>1, BlockTypes
<1>3. CASE p = "openai_compatible" /\ i.kind = "audio"
  <2>1. b = Replayed([i EXCEPT !.kind = "audio_id"])
    BY <1>1, <1>3 DEF Resent, CompatibleReplay
  <2>2. /\ b.kind = "native" /\ b.id = i.id
        /\ b.item.kind = "audio_id"
    BY <1>1, <2>1 DEF Replayed, Block, Items
  <2> QED BY <1>1, <1>2, <1>3, <2>1, <2>2 DEF IsCall, IsLegacyCall, IsLegacy, CompatibleReplay
<1>4. CASE ~(p = "openai_compatible" /\ i.kind = "audio")
  <2>1. b = Replayed(i)
    BY <1>1, <1>4 DEF Resent, CompatibleReplay
  <2>2. b.kind = "native" /\ b.id = i.id /\ b.item = i
    BY <2>1 DEF Replayed, Block
  <2> QED BY <1>1, <1>2, <2>1, <2>2 DEF IsCall, IsLegacyCall, IsLegacy
<1> QED BY <1>3, <1>4

LEMMA OwnIsItem == \A p : Own(p) \subseteq Items /\ Sound(p) \subseteq Own(p)
BY DEF Own, Sound

\* The kinds that count as a call among these items.
Counted(p, items) ==
    IF p = "openai_compatible" /\ OfKind(items, {"call"}) = <<>> THEN {"legacy"}
                                                                 ELSE {"call"}

LEMMA CalledIs ==
    ASSUME NEW p, NEW items
    PROVE  Called(p, items) = OfKind(items, Counted(p, items))
BY DEF Called, CompatibleCalled, Counted

LEMMA AskingOwn ==
    ASSUME NEW p, NEW m \in Messages, NEW items \in Seq(Sound(p)), items = m.native.items
    PROVE  /\ Carries(Resent(p), Items, Blocks)
           /\ Asking(ReplayBlocks(p, m)) = Mapped(Resent(p), Called(p, items))
<1>1. PICK b, K, g : /\ b = ReplayBlocks(p, m) /\ b \in Seq(Blocks) /\ Len(b) = Len(items)
                     /\ K = Counted(p, items) /\ g = Resent(p)
  BY ReplayType
<1>2. PICK n \in Nat : n = Len(items) /\ n = Len(b) /\ DOMAIN b = 1..n /\ DOMAIN items = 1..n
  BY <1>1, LenProperties
<1>3. items \in Seq(Items)
  BY MessageIs
<1>4. ASSUME NEW k \in 1..n
      PROVE  /\ items[k] \in Own(p) /\ items[k] \in Items /\ b[k] = g[items[k]]
             /\ b[k] \in Blocks
             /\ IsCall(b[k]) <=> items[k].kind = "call"
             /\ IsLegacyCall(b[k]) <=> p = "openai_compatible" /\ items[k].kind = "legacy"
  <2>1. items[k] \in Sound(p)
    BY <1>2, ElementOfSeq
  <2>2. PICK i \in Own(p) : i = items[k] /\ i \in Items
    BY <2>1, OwnIsItem
  <2>3. b[k] = g[i]
    BY <1>1, <1>2, <2>2 DEF ReplayBlocks, Each, Resent
  <2> QED BY <1>1, <2>2, <2>3, ResentIs
<1>5. ASSUME NEW k \in 1..n PROVE Asks(b, b[k]) <=> items[k].kind \in K
  <2>1. (\E l \in DOMAIN b : IsCall(b[l])) <=> OfKind(items, {"call"}) # <<>>
    <3>1. OfKind(items, {"call"}) # <<>> <=> \E l \in 1..n : items[l].kind \in {"call"}
      BY <1>2, <1>3, SomeOfKind
    <3> QED BY <1>2, <1>4, <3>1
  <2>2. CASE \E l \in DOMAIN b : IsCall(b[l])
    <3>1. K = {"call"}
      BY <1>1, <2>1, <2>2 DEF Counted
    <3> QED BY <1>4, <2>2, <3>1 DEF Asks
  <2>3. CASE ~\E l \in DOMAIN b : IsCall(b[l])
    <3>1. ~IsCall(b[k]) /\ items[k].kind # "call"
      BY <1>2, <1>4, <2>3
    <3>2. Asks(b, b[k]) <=> IsLegacyCall(b[k])
      BY <2>3, <3>1 DEF Asks
    <3>3. K = IF p = "openai_compatible" THEN {"legacy"} ELSE {"call"}
      BY <1>1, <2>1, <2>3 DEF Counted
    <3> QED BY <1>4, <3>1, <3>2, <3>3
  <2> QED BY <2>2, <2>3
<1>6. PICK u : u = [k \in 1..n |-> IF Asks(b, b[k]) THEN <<b[k]>> ELSE <<>>]
  OBVIOUS
<1>14. PICK v : v = Picked(items, K) /\ Picks(v, Items, items, K)
  BY <1>3, PickedIs
<1>7. v \in Seq(Seq(Items)) /\ Len(v) = n /\ OfKind(items, K) = FlattenSeq(v)
  BY <1>2, <1>14 DEF Picks
<1>15. \A k \in 1..n : /\ items[k].kind \in K => v[k] = <<items[k]>>
                       /\ ~(items[k].kind \in K) => v[k] = <<>>
  BY <1>2, <1>14 DEF Picks
<1>8. u \in Seq(Seq(Blocks)) /\ Len(u) = n
  <2>1. ASSUME NEW k \in 1..n PROVE u[k] \in Seq(Blocks)
    <3>1. PICK c \in Blocks : c = b[k]
      BY <1>4
    <3>2. <<c>> \in Seq(Blocks) /\ <<>> \in Seq(Blocks)
      BY EmptySeq
    <3> QED BY <1>6, <3>1, <3>2
  <2>2. DOMAIN u = 1..n /\ u = [k \in 1..n |-> u[k]]
    BY <1>6
  <2> QED BY <2>1, <2>2, MakeSeq
<1>9. ASSUME NEW k \in 1..n PROVE u[k] = Mapped(g, v[k])
  <2>1. PICK i \in Items : i = items[k] /\ b[k] = g[i]
    BY <1>4
  <2>2. CASE items[k].kind \in K
    <3>1. u[k] = <<g[i]>> /\ v[k] = <<i>>
      BY <1>5, <1>6, <1>15, <2>1, <2>2
    <3>2. Mapped(g, <<i>>) = <<g[i]>>
      BY DEF Mapped
    <3> QED BY <3>1, <3>2
  <2>3. CASE ~(items[k].kind \in K)
    <3>1. u[k] = <<>> /\ v[k] = <<>>
      BY <1>5, <1>6, <1>15, <2>3
    <3>2. Mapped(g, <<>>) = <<>>
      BY DEF Mapped
    <3> QED BY <3>1, <3>2
  <2> QED BY <2>2, <2>3
<1>10. Carries(g, Items, Blocks)
  <2>1. \A i \in Items : Replayed(i) \in Blocks /\ CompatibleReplay(i) \in Blocks
    BY BlockTypes
  <2> QED BY <1>1, <2>1 DEF Carries, Resent
<1>11. Images(g, u, v)
  BY <1>7, <1>8, <1>9 DEF Images
<1>12. FlattenSeq(u) = Mapped(g, FlattenSeq(v))
  BY <1>7, <1>8, <1>10, <1>11, FlattenMapped
<1>13. Asking(b) = FlattenSeq(u)
  BY <1>2, <1>6 DEF Asking
<1> QED BY <1>1, <1>7, <1>10, <1>12, <1>13, CalledIs

-----------------------------------------------------------------------------
(***************************************************************************)
(* An answer asks for its calls, whoever gave it and whoever is sent it,   *)
(* and the results that the loop records for them name them.               *)
(***************************************************************************)
LEMMA CalledSound ==
    ASSUME NEW q, NEW items \in Seq(Sound(q)), NEW k \in 1..Len(Called(q, items)),
           NEW i, i = Called(q, items)[k]
    PROVE  /\ i \in Sound(q) /\ i \in Own(q) /\ i \in Items /\ i.provider = q
           /\ i.kind = "call" \/ (q = "openai_compatible" /\ i.kind = "legacy")
<1>1. PICK K : K = Counted(q, items) /\ Called(q, items) = OfKind(items, K)
  BY CalledIs
<1>2. i \in Sound(q) /\ i.kind \in K
  BY <1>1, KindsOf
<1>3. i.kind = "call" \/ (q = "openai_compatible" /\ i.kind = "legacy")
  BY <1>1, <1>2 DEF Counted
<1> QED BY <1>2, <1>3 DEF Sound, Own, Owns

\* The blocks a are calls that the results of m's calls name.
AsksFor(p, m, a) ==
    /\ a \in Seq(Blocks) /\ Len(a) = Len(m.calls)
    /\ \A k \in 1..Len(m.calls) : \A r :
          FromTool(r, m.calls[k]) => Answers(p, ResultBlock(ResultId(p, r)), a[k])

\* Calls that a client made itself are answered under the ids it sends again.
LEMMA OwnAnswered ==
    ASSUME NEW p \in Providers, NEW i \in Sound(p), NEW c, NEW size, NEW r, NEW b,
           i.kind = "call" \/ (p = "openai_compatible" /\ i.kind = "legacy"),
           c.metadata = i, IdFits(c, size), FromTool(r, c), b.id = i.id
    PROVE  Answers(p, ResultBlock(ResultId(p, r)), b)
<1>1. r.tool_call_id = c.id /\ r.metadata = i
  BY DEF FromTool
<1>2. ResultBlock(ResultId(p, r)).id = ResultId(p, r)
  BY DEF ResultBlock, Block
<1>3. i \in Own(p) /\ i.provider = p /\ (i.kind = "legacy" => i.id = NoId)
  BY DEF Sound, Own, Owns
<1>4. i.id # NoId => c.id = i.id
  BY DEF IdFits
<1>5. CASE p = "gemini"
  <2>1. IsFunctionCall(i)
    BY <1>3, <1>5 DEF IsFunctionCall
  <2>2. ResultId(p, r) = i.id
    BY <1>1, <1>4, <1>5, <2>1 DEF ResultId, GeminiResponseId
  <2> QED BY <1>2, <2>2 DEF Answers
<1>6. CASE p = "openai_compatible" /\ i.kind = "legacy"
  <2>1. IsLegacy(i)
    BY <1>3, <1>6 DEF IsLegacy
  <2>2. ResultId(p, r) = NoId
    BY <1>1, <1>6, <2>1 DEF ResultId
  <2> QED BY <1>2, <1>3, <1>6, <2>2 DEF Answers
<1>7. CASE p # "gemini" /\ i.kind = "call"
  <2>1. i.id # NoId
    BY <1>7 DEF Sound
  <2>2. ~IsLegacy(i)
    BY <1>7 DEF IsLegacy
  <2>3. ResultId(p, r) = c.id
    BY <1>1, <1>7, <2>2 DEF ResultId
  <2> QED BY <1>2, <1>4, <2>1, <2>3 DEF Answers
<1> QED BY <1>5, <1>6, <1>7

\* So are calls of another provider, under the ids this client gives them.
LEMMA ForeignAnswered ==
    ASSUME NEW p \in Providers, NEW q \in Providers, p # q, NEW i, i.provider = q,
           NEW c, c.metadata = i, NEW r, FromTool(r, c),
           NEW b, b.kind = "call", b.id = c.id
    PROVE  Answers(p, ResultBlock(ResultId(p, r)), b)
<1>1. r.tool_call_id = c.id /\ r.metadata = i
  BY DEF FromTool
<1>2. ResultBlock(ResultId(p, r)).id = ResultId(p, r)
  BY DEF ResultBlock, Block
<1>3. CASE p = "gemini"
  <2>1. ~IsFunctionCall(i)
    BY <1>3 DEF IsFunctionCall
  <2>2. ResultId(p, r) = NoId
    BY <1>1, <1>3, <2>1 DEF ResultId, GeminiResponseId
  <2> QED BY <1>2, <1>3, <2>2 DEF Answers
<1>4. CASE p # "gemini"
  <2>1. p = "openai_compatible" => ~IsLegacy(i)
    BY DEF IsLegacy
  <2>2. ResultId(p, r) = c.id
    BY <1>1, <1>4, <2>1 DEF ResultId
  <2> QED BY <1>2, <2>2 DEF Answers
<1> QED BY <1>3, <1>4

LEMMA AsksOwn ==
    ASSUME NEW p \in Providers, NEW m, NEW size, FromProvider(p, m, size)
    PROVE  AsksFor(p, m, Asking(BlocksFor(p, m)))
<1>1. PICK items : items = m.native.items /\ items \in Seq(Sound(p))
  BY DEF FromProvider
<1>2. m \in Messages /\ BlocksFor(p, m) = ReplayBlocks(p, m)
  BY DEF FromProvider, BlocksFor, IsNative
<1>3. PICK called, g, a : /\ called = Called(p, items) /\ g = Resent(p)
                          /\ a = Asking(BlocksFor(p, m)) /\ a = Mapped(g, called)
                          /\ Carries(g, Items, Blocks)
  BY <1>1, <1>2, AskingOwn
<1>4. called \in Seq(Items) /\ Len(called) = Len(m.calls)
  <2>1. PICK K : called = OfKind(items, K)
    BY <1>3, CalledIs
  <2>2. OfKind(items, K) \in Seq(Items)
    BY <1>1, KindsOf
  <2> QED BY <1>1, <1>3, <2>1, <2>2 DEF FromProvider, CallsFit
<1>5. MapsAll(a, Blocks, g, called)
  BY <1>3, <1>4, MappedType
<1>6. a \in Seq(Blocks) /\ Len(a) = Len(m.calls)
      /\ \A k \in 1..Len(called) : a[k] = g[called[k]]
  BY <1>4, <1>5 DEF MapsAll
<1>7. ASSUME NEW k \in 1..Len(m.calls), NEW r, FromTool(r, m.calls[k])
      PROVE  Answers(p, ResultBlock(ResultId(p, r)), a[k])
  <2>1. PICK c, i : c = m.calls[k] /\ i = called[k]
    OBVIOUS
  <2>2. c.metadata = i /\ IdFits(c, size)
    BY <1>1, <1>3, <2>1 DEF FromProvider, CallsFit
  <2>3. /\ i \in Sound(p) /\ i \in Own(p)
        /\ i.kind = "call" \/ (p = "openai_compatible" /\ i.kind = "legacy")
    BY <1>1, <1>3, <1>4, <2>1, CalledSound
  <2>4. PICK b : b = a[k] /\ b = g[i]
    BY <1>4, <1>6, <2>1
  <2>5. b.id = i.id
    BY <1>3, <2>3, <2>4, ResentIs
  <2> QED BY <1>7, <2>1, <2>2, <2>3, <2>4, <2>5, OwnAnswered
<1> QED BY <1>3, <1>6, <1>7 DEF AsksFor

\* The calls among blocks.
Calling == [b \in Blocks |-> IF IsCall(b) THEN <<b>> ELSE <<>>]

LEMMA CallingInto == Into(Calling, Blocks, Blocks)
<1>1. ASSUME NEW b \in Blocks PROVE Calling[b] \in Seq(Blocks)
  <2>1. <<>> \in Seq(Blocks) /\ <<b>> \in Seq(Blocks)
    BY EmptySeq
  <2> QED BY <2>1 DEF Calling
<1> QED BY <1>1 DEF Into

LEMMA ModernAsking ==
    ASSUME NEW bs \in Seq(Modern)
    PROVE  Asking(bs) = Hom(Calling, bs)
<1>1. PICK n \in Nat : n = Len(bs) /\ DOMAIN bs = 1..n
  BY LenProperties
<1>2. PICK u, v : /\ u = [k \in 1..n |-> IF Asks(bs, bs[k]) THEN <<bs[k]>> ELSE <<>>]
                  /\ v = Mapped(Calling, bs)
  OBVIOUS
<1>3. ASSUME NEW k \in 1..n PROVE u[k] = v[k]
  <2>1. PICK b : b = bs[k] /\ b \in Modern
    BY <1>1, ElementOfSeq
  <2>2. b \in Blocks /\ (Asks(bs, b) <=> IsCall(b))
    BY <2>1 DEF Modern, Asks
  <2>3. v[k] = IF IsCall(b) THEN <<b>> ELSE <<>>
    BY <1>1, <1>2, <2>1, <2>2 DEF Mapped, Calling
  <2> QED BY <1>2, <2>1, <2>2, <2>3
<1>4. u = v
  <2>1. v = [k \in 1..n |-> v[k]]
    BY <1>1, <1>2 DEF Mapped
  <2> QED BY <1>2, <1>3, <2>1
<1> QED BY <1>1, <1>2, <1>4 DEF Asking, Hom

\* Blocks that a request may hold outside results.
Speaks(p, bs) ==
    /\ bs \in Seq(Blocks) /\ \A k \in 1..Len(bs) : bs[k].kind # "result"
    /\ p # "openai_compatible" => bs \in Seq(Modern)

LEMMA SpeaksOwn ==
    ASSUME NEW p \in Providers, NEW m, NEW size, FromProvider(p, m, size)
    PROVE  Speaks(p, BlocksFor(p, m))
<1>1. PICK items : items = m.native.items /\ items \in Seq(Sound(p))
  BY DEF FromProvider
<1>2. m \in Messages
  BY DEF FromProvider
<1>3. PICK b : /\ b = BlocksFor(p, m) /\ b = ReplayBlocks(p, m)
               /\ b \in Seq(Blocks) /\ Len(b) = Len(items)
  BY <1>1, <1>2, ReplayType DEF FromProvider, BlocksFor, IsNative
<1>4. PICK n \in Nat : n = Len(items) /\ DOMAIN items = 1..n
  BY <1>1, LenProperties
<1>5. ASSUME NEW k \in 1..n
      PROVE  b[k].kind # "result" /\ (p # "openai_compatible" => b[k] \in Modern)
  <2>1. PICK i : i = items[k] /\ i \in Sound(p) /\ i \in Own(p) /\ i \in Items
    BY <1>1, <1>4, ElementOfSeq, OwnIsItem
  <2>2. b[k] = Resent(p)[i]
    BY <1>1, <1>3, <1>4, <2>1 DEF ReplayBlocks, Each, Resent
  <2> QED BY <2>1, <2>2, ResentIs DEF Modern
<1>6. p # "openai_compatible" => b \in Seq(Modern)
  BY <1>3, <1>4, <1>5, SubType
<1> QED BY <1>3, <1>4, <1>5, <1>6 DEF Speaks

\* Contents that are text or media.
LEMMA ShownPlainly ==
    ASSUME NEW p, NEW m \in Messages,
           \A k \in 1..Len(m.contents) :
              m.contents[k].type = "extension" => m.contents[k].item.kind = "part"
    PROVE  /\ ShownBlocks(m) \in Seq(Modern) /\ Hom(Calling, ShownBlocks(m)) = <<>>
           /\ \A k \in 1..Len(ShownBlocks(m)) : ShownBlocks(m)[k].kind # "result"
<1>1. PICK s, b : /\ s = m.contents /\ b = ShownBlocks(m) /\ s \in Seq(Parts)
                  /\ b \in Seq(Blocks) /\ Len(b) = Len(s)
  BY MessageIs, ShownType
<1>2. PICK n \in Nat : n = Len(s) /\ n = Len(b) /\ DOMAIN s = 1..n
  BY <1>1, LenProperties
<1>3. ASSUME NEW k \in 1..n
      PROVE  b[k] \in Modern /\ Calling[b[k]] = <<>> /\ b[k].kind # "result"
  <2>1. PICK c, e : c = s[k] /\ c \in Parts /\ e = b[k] /\ e \in Blocks
    BY <1>1, <1>2, ElementOfSeq
  <2>2. e = Rendered(c)
    BY <1>1, <1>2, <2>1 DEF ShownBlocks, Each
  <2>3. ~IsCall(e) /\ ~IsLegacyCall(e) /\ e.kind # "result"
    <3>1. CASE c.type = "extension"
      <4>1. e.kind = "native" /\ e.item = c.item
        BY <2>2, <3>1 DEF Rendered, Replayed, Block
      <4>2. e.item.kind = "part"
        BY <1>1, <1>2, <2>1, <3>1, <4>1
      <4> QED BY <4>1, <4>2 DEF IsCall, IsLegacyCall, IsLegacy
    <3>2. CASE c.type # "extension"
      <4>1. e.kind = c.type
        BY <2>2, <3>2 DEF Rendered, Block
      <4>2. c.type \in {"text", "image", "audio", "file"}
        BY <2>1, <3>2 DEF Parts
      <4> QED BY <4>1, <4>2 DEF IsCall, IsLegacyCall
    <3> QED BY <3>1, <3>2
  <2> QED BY <2>1, <2>3 DEF Modern, Calling
<1>4. b \in Seq(Modern)
  BY <1>1, <1>2, <1>3, SubType
<1>5. Hom(Calling, b) = <<>>
  BY <1>1, <1>2, <1>3, HomNothing
<1> QED BY <1>1, <1>2, <1>3, <1>4, <1>5

LEMMA CallsPlainly ==
    ASSUME NEW p \in Providers, NEW q \in Providers, p # q, NEW m, NEW size,
           FromProvider(q, m, size)
    PROVE  /\ CallBlocks(p, m) \in Seq(Modern)
           /\ Hom(Calling, CallBlocks(p, m)) = CallBlocks(p, m)
           /\ \A k \in 1..Len(CallBlocks(p, m)) : CallBlocks(p, m)[k].kind # "result"
<1>1. PICK b : b = CallBlocks(p, m) /\ b \in Seq(Blocks) /\ Len(b) = Len(m.calls)
  BY CallsType DEF FromProvider
<1>2. PICK n \in Nat : n = Len(b) /\ n = Len(m.calls)
  BY <1>1, LenProperties
<1>3. ASSUME NEW k \in 1..n
      PROVE  b[k] \in Modern /\ Calling[b[k]] = <<b[k]>> /\ b[k].kind # "result"
  <2>1. b[k] = ForeignCall(p, m.calls[k]) /\ m.calls[k].metadata \in Own(q)
    BY <1>1, <1>2, ForeignCalls, CallsAre
  <2>2. PICK e : e = b[k] /\ e \in Blocks /\ e.kind = "call"
    BY <1>1, <1>2, <2>1, ElementOfSeq, ForeignCallCalls
  <2>3. IsCall(e) /\ ~IsLegacyCall(e)
    BY <2>2 DEF IsCall, IsLegacyCall
  <2> QED BY <2>2, <2>3 DEF Modern, Calling
<1>4. b \in Seq(Modern)
  BY <1>1, <1>2, <1>3, SubType
<1>5. Hom(Calling, b) = b
  <2>1. PICK f : f = Mapped(Calling, b) /\ Maps(f, Blocks, Calling, b)
    BY <1>1, CallingInto, HomSeq
  <2>2. f \in Seq(Seq(Blocks)) /\ Len(f) = n /\ \A k \in 1..n : f[k] = Calling[b[k]]
    BY <1>2, <2>1 DEF Maps
  <2>3. OneEach(f, b)
    BY <1>2, <1>3, <2>2 DEF OneEach
  <2>4. FlattenSeq(f) = b
    BY <1>1, <2>2, <2>3, Singles
  <2> QED BY <2>1, <2>4 DEF Hom
<1> QED BY <1>1, <1>2, <1>3, <1>4, <1>5

LEMMA Foreign ==
    ASSUME NEW p \in Providers, NEW q \in Providers, p # q, NEW m, NEW size,
           FromProvider(q, m, size), Accepts(p, m)
    PROVE  /\ Speaks(p, BlocksFor(p, m))
           /\ Asking(BlocksFor(p, m)) = CallBlocks(p, m)
<1>1. m \in Messages /\ BlocksFor(p, m) = ShownBlocks(m) \o CallBlocks(p, m)
  BY DEF FromProvider, BlocksFor, IsNative
<1>2. PICK b, c : /\ b = ShownBlocks(m) /\ b \in Seq(Modern)
                  /\ Hom(Calling, b) = <<>>
                  /\ c = CallBlocks(p, m) /\ c \in Seq(Modern)
                  /\ Hom(Calling, c) = c
                  /\ \A k \in 1..Len(b) : b[k].kind # "result"
                  /\ \A k \in 1..Len(c) : c[k].kind # "result"
  <2>1. \A k \in 1..Len(m.contents) :
           m.contents[k].type = "extension" => m.contents[k].item.kind = "part"
    BY ForeignContents
  <2> QED BY <1>1, <2>1, ShownPlainly, CallsPlainly
<1>3. PICK u : u = b \o c /\ Chained(u, Modern, b, c)
  BY <1>2, ConcatChains
<1>4. b \in Seq(Blocks) /\ c \in Seq(Blocks) /\ u \in Seq(Modern) /\ u \in Seq(Blocks)
  BY <1>2, <1>3, ModernTypes DEF Chained
<1>5. PICK i \in Nat, j \in Nat : i = Len(b) /\ j = Len(c) /\ Len(u) = i + j
  BY <1>2, <1>3, LenProperties DEF Chained
<1>6. ASSUME NEW k \in 1..(i + j) PROVE u[k].kind # "result"
  <2>1. CASE k \in 1..i
    BY <1>2, <1>3, <1>5, <2>1 DEF Chained
  <2>2. CASE ~(k \in 1..i)
    <3>1. PICK l \in 1..j : k = i + l
      <4>1. k - i \in 1..j /\ k = i + (k - i)
        BY <1>5, <2>2
      <4> QED BY <4>1
    <3>2. u[i + l] = c[l]
      BY <1>3, <1>5 DEF Chained
    <3> QED BY <1>2, <1>5, <3>1, <3>2
  <2> QED BY <2>1, <2>2
<1>7. Asking(u) = c
  <2>1. Asking(u) = Hom(Calling, u)
    BY <1>4, ModernAsking
  <2>2. Hom(Calling, b \o c) = Hom(Calling, b) \o Hom(Calling, c)
    BY <1>4, CallingInto, HomConcat
  <2>3. <<>> \o c = c
    BY <1>4, ConcatEmptySeq
  <2> QED BY <1>2, <1>3, <2>1, <2>2, <2>3
<1> QED BY <1>1, <1>2, <1>3, <1>4, <1>5, <1>6, <1>7 DEF Speaks

LEMMA AsksForeign ==
    ASSUME NEW p \in Providers, NEW q \in Providers, p # q, NEW m, NEW size,
           FromProvider(q, m, size), Accepts(p, m)
    PROVE  AsksFor(p, m, Asking(BlocksFor(p, m)))
<1>1. PICK a : /\ a = Asking(BlocksFor(p, m)) /\ a = CallBlocks(p, m)
               /\ a \in Seq(Blocks) /\ Len(a) = Len(m.calls)
  BY Foreign, CallsType DEF FromProvider
<1>2. ASSUME NEW k \in 1..Len(m.calls), NEW r, FromTool(r, m.calls[k])
      PROVE  Answers(p, ResultBlock(ResultId(p, r)), a[k])
  <2>1. PICK c : c = m.calls[k] /\ a[k] = ForeignCall(p, c) /\ c.metadata \in Own(q)
    BY <1>1, ForeignCalls, CallsAre
  <2>2. c.metadata.provider = q
    BY <2>1 DEF Own, Owns
  <2>3. a[k].kind = "call" /\ a[k].id = c.id
    BY <2>1, ForeignCallCalls
  <2> QED BY <1>2, <2>1, <2>2, <2>3, ForeignAnswered
<1> QED BY <1>1, <1>2 DEF AsksFor

\* Whoever gave an answer, the request shows it with its calls.
LEMMA AnswerAsks ==
    ASSUME NEW p \in Providers, NEW q \in Providers, NEW m, NEW size,
           FromProvider(q, m, size), Accepts(p, m)
    PROVE  Speaks(p, BlocksFor(p, m)) /\ AsksFor(p, m, Asking(BlocksFor(p, m)))
<1>1. CASE p = q
  BY <1>1, SpeaksOwn, AsksOwn
<1>2. CASE p # q
  BY <1>2, Foreign, AsksForeign
<1> QED BY <1>1, <1>2

\* What an application asked is shown, and asks for nothing.
LEMMA UserSpeaks ==
    ASSUME NEW p, NEW m, FromUser(m)
    PROVE  /\ Speaks(p, BlocksFor(p, m)) /\ BlocksFor(p, m) \in Seq(Modern)
           /\ \A k \in 1..Len(BlocksFor(p, m)) : ~IsCall(BlocksFor(p, m)[k])
<1>1. m \in Messages /\ BlocksFor(p, m) = ShownBlocks(m)
  BY DEF FromUser, BlocksFor, IsNative
<1>2. PICK b : /\ b = ShownBlocks(m) /\ b \in Seq(Modern) /\ b \in Seq(Blocks)
               /\ Hom(Calling, b) = <<>>
               /\ \A k \in 1..Len(b) : b[k].kind # "result"
  BY <1>1, ShownPlainly, ModernTypes DEF FromUser
<1>3. ASSUME NEW k \in 1..Len(b), IsCall(b[k]) PROVE FALSE
  <2>1. PICK f : f = Mapped(Calling, b) /\ Maps(f, Blocks, Calling, b)
    BY <1>2, CallingInto, HomSeq
  <2>2. f[k] = Calling[b[k]] /\ f \in Seq(Seq(Blocks)) /\ k \in 1..Len(f)
    BY <2>1 DEF Maps
  <2>3. Calling[b[k]] = <<b[k]>>
    <3>1. b[k] \in Blocks
      BY <1>2, ElementOfSeq
    <3> QED BY <1>3, <3>1 DEF Calling
  <2>4. FlattenSeq(f) # <<>>
    <3>1. f[k] # <<>>
      BY <2>2, <2>3
    <3> QED BY <2>2, <3>1, FlattenHas
  <2> QED BY <1>2, <2>1, <2>4 DEF Hom
<1> QED BY <1>1, <1>2, <1>3 DEF Speaks

-----------------------------------------------------------------------------
(***************************************************************************)
(* Reading a request message by message: the calls that are open after the *)
(* first k messages are those of one answer that have no result yet.       *)
(***************************************************************************)
Settled(h, i, k) == i + Len(h[i].calls) <= k
Closed(h, k) == \A i \in 1..k : Settled(h, i, k)
OpenAt(p, h, i, k, o) ==
    /\ i \in 1..k /\ k < i + Len(h[i].calls)
    /\ \A l \in 1..k : l # i => Settled(h, l, k)
    /\ o \in Seq(Blocks) /\ Len(o) = i + Len(h[i].calls) - k
    /\ \A j \in 1..Len(o) : o[j] = Asking(BlocksFor(p, h[i]))[k - i + j]
Waits(p, h, k, o) ==
    \/ o = <<>> /\ Closed(h, k)
    \/ \E i \in 1..k : OpenAt(p, h, i, k, o)

LEMMA CallsLength ==
    ASSUME NEW h, History(h), NEW i \in 1..Len(h)
    PROVE  Len(h[i].calls) \in Nat
<1>1. PICK m \in Messages : m = h[i]
  BY ElementOfSeq DEF History
<1>2. m.calls \in Seq(ToolCalls)
  BY MessageIs
<1> QED BY <1>1, <1>2, LenProperties

\* Every call has its result.
LEMMA CallHasResult ==
    ASSUME NEW h, History(h), NEW i \in 1..Len(h), NEW j \in 1..Len(h[i].calls)
    PROVE  HasResult(h, i, j) /\ ByProvider(h, i)
<1>1. CASE ByProvider(h, i)
  BY <1>1 DEF ByProvider
<1>2. CASE Silent(h[i])
  <2>1. Len(h[i].calls) = 0
    BY <1>2, EmptySeq DEF Silent
  <2> QED BY <2>1
<1> QED BY <1>1, <1>2 DEF History, HasAuthor, FromUser, ByTool, HasResult, FromTool

\* Only a result comes while a call is open.
LEMMA OpenThenResult ==
    ASSUME NEW h, History(h), NEW k \in Nat, NEW p, NEW i, NEW o, k <= Len(h),
           OpenAt(p, h, i, k, o)
    PROVE  k + 1 \in 1..Len(h) /\ h[k + 1].role = "tool"
<1>1. PICK n \in Nat : n = Len(h) /\ k <= n
  BY LenProperties DEF History
<1>2. PICK c \in Nat : i \in 1..n /\ c = Len(h[i].calls) /\ i \in 1..k /\ k < i + c
  <2>1. i \in 1..k /\ k < i + Len(h[i].calls)
    BY DEF OpenAt
  <2>2. i \in 1..n
    BY <1>1, <2>1
  <2> QED BY <1>1, <2>1, <2>2, CallsLength
<1>3. PICK j \in 1..c : k + 1 = i + j
  <2>1. k + 1 - i \in 1..c /\ k + 1 = i + (k + 1 - i)
    BY <1>2
  <2> QED BY <2>1
<1>4. HasResult(h, i, j)
  BY <1>1, <1>2, CallHasResult
<1> QED BY <1>3, <1>4 DEF HasResult, FromTool

\* A history at the start of a request has no open call.
LEMMA ClosedAtEnd ==
    ASSUME NEW h, History(h), NEW p, NEW o, Waits(p, h, Len(h), o)
    PROVE  o = <<>>
<1>1. PICK n \in Nat : n = Len(h)
  BY LenProperties DEF History
<1>2. ASSUME NEW i, OpenAt(p, h, i, n, o) PROVE FALSE
  <2>1. n + 1 \in 1..n
    BY <1>1, <1>2, OpenThenResult
  <2> QED BY <2>1
<1> QED BY <1>1, <1>2 DEF Waits

LEMMA ScanUser ==
    ASSUME NEW p, NEW m, FromUser(m), NEW s, Segment(p, m, s)
    PROVE  Scan(p, <<>>, s, <<>>)
<1>1. PICK b : /\ b = BlocksFor(p, m) /\ b \in Seq(Modern)
               /\ \A k \in 1..Len(b) : b[k].kind # "result" /\ ~IsCall(b[k])
  BY UserSpeaks DEF Speaks
<1>2. Plain(s, b)
  BY <1>1, ModernMirrors DEF Segment
<1>3. s \in Seq(EntrySet) /\ \A k \in 1..Len(s) : ~s[k].asks /\ s[k].block.kind # "result"
  BY <1>1, <1>2 DEF Plain
<1> QED BY <1>3, ScanQuiet

LEMMA ScanAssistant ==
    ASSUME NEW p \in Providers, NEW q \in Providers, NEW m, NEW size,
           FromProvider(q, m, size), Accepts(p, m), NEW s, Segment(p, m, s)
    PROVE  Scan(p, <<>>, s, Asking(BlocksFor(p, m)))
<1>1. PICK b : /\ b = BlocksFor(p, m) /\ b \in Seq(Blocks)
               /\ \A k \in 1..Len(b) : b[k].kind # "result"
  BY AnswerAsks DEF Speaks
<1>2. Mirrors(s, b) /\ \A k \in 1..Len(s) : s[k].role # "user"
  BY <1>1 DEF Segment, FromProvider
<1>3. s \in Seq(EntrySet) /\ \A k \in 1..Len(s) : Voices(s[k])
  <2>1. s \in Seq(EntrySet) /\ Len(s) = Len(b)
    BY <1>2 DEF Mirrors
  <2>2. ASSUME NEW k \in 1..Len(s) PROVE Voices(s[k])
    <3>1. b[k] \in Blocks /\ b[k].kind # "result"
      BY <1>1, <2>1, <2>2, ElementOfSeq
    <3>2. s[k].block = b[k] /\ s[k].role # "user"
      BY <1>2, <2>1, <2>2 DEF Mirrors
    <3> QED BY <3>1, <3>2 DEF Voices
  <2> QED BY <2>1, <2>2
<1>4. Scan(p, <<>>, s, Asked(s))
  BY <1>3, ScanAsking
<1>5. Asked(s) = Asking(b)
  BY <1>1, <1>2, AskedIs
<1> QED BY <1>1, <1>4, <1>5

LEMMA ScanTool ==
    ASSUME NEW p, NEW m \in Messages, m.role = "tool", NEW s, Segment(p, m, s),
           NEW a \in Seq(Blocks), a # <<>>, Answers(p, ResultBlock(ResultId(p, m)), a[1])
    PROVE  Scan(p, a, s, Tail(a))
<1>1. PICK r : r = ResultBlock(ResultId(p, m)) /\ r \in Blocks /\ r.kind = "result"
  BY ResultIdType DEF ResultBlock, Block
<1>2. PICK b : b = <<r>> /\ b = BlocksFor(p, m) /\ Len(b) = 1 /\ b[1] = r
  <2>1. BlocksFor(p, m) = <<r>>
    BY <1>1 DEF BlocksFor, IsNative
  <2>2. Len(<<r>>) = 1 /\ <<r>>[1] = r
    OBVIOUS
  <2> QED BY <2>1, <2>2
<1>3. Mirrors(s, b)
  BY <1>2 DEF Segment
<1>4. Len(s) = 1 /\ s[1].block = r /\ (s[1].asks <=> Asks(b, r))
  BY <1>2, <1>3 DEF Mirrors
<1>5. ~Asks(b, r)
  BY <1>1 DEF Asks, IsCall, IsLegacyCall
<1> QED BY <1>1, <1>4, <1>5, ScanAnswer

\* Message k + 1 is an answer: it finds nothing open and opens its calls.
LEMMA StepAnswer ==
    ASSUME NEW p \in Providers, NEW h, History(h), NEW k \in Nat, k + 1 \in 1..Len(h),
           Accepts(p, h[k + 1]), ByProvider(h, k + 1), NEW o, Waits(p, h, k, o),
           NEW s, Segment(p, h[k + 1], s)
    PROVE  \E q : Scan(p, o, s, q) /\ Waits(p, h, k + 1, q)
<1>1. PICK m, c : m = h[k + 1] /\ c = Len(m.calls) /\ c \in Nat
  BY CallsLength
<1>2. PICK q \in Providers : FromProvider(q, m, k + 1 - 1) /\ m.role = "assistant"
  BY <1>1 DEF ByProvider, FromProvider
<1>3. o = <<>> /\ Closed(h, k)
  <2>1. ASSUME NEW i, OpenAt(p, h, i, k, o) PROVE FALSE
    <3>1. k <= Len(h)
      BY LenProperties DEF History
    <3>2. m.role = "tool"
      BY <1>1, <2>1, <3>1, OpenThenResult
    <3> QED BY <1>2, <3>2
  <2> QED BY <2>1 DEF Waits
<1>4. PICK a : /\ a = Asking(BlocksFor(p, m)) /\ a \in Seq(Blocks) /\ Len(a) = c
               /\ Scan(p, o, s, a)
  <2>1. AsksFor(p, m, Asking(BlocksFor(p, m)))
    BY <1>1, <1>2, AnswerAsks
  <2>2. Scan(p, <<>>, s, Asking(BlocksFor(p, m)))
    BY <1>1, <1>2, ScanAssistant
  <2> QED BY <1>1, <1>3, <2>1, <2>2 DEF AsksFor
<1>5. \A l \in 1..k : Settled(h, l, k + 1)
  <2>1. ASSUME NEW l \in 1..k PROVE Settled(h, l, k + 1)
    <3>1. l \in 1..Len(h)
      BY LenProperties DEF History
    <3>2. PICK d \in Nat : d = Len(h[l].calls)
      BY <3>1, CallsLength
    <3>3. l + d <= k
      BY <1>3, <3>2 DEF Closed, Settled
    <3>4. l + d <= k + 1
      BY <3>3
    <3> QED BY <3>2, <3>4 DEF Settled
  <2> QED BY <2>1
<1>6. CASE c = 0
  <2>1. a = <<>>
    BY <1>4, <1>6, EmptySeq
  <2>2. Settled(h, k + 1, k + 1)
    BY <1>1, <1>6 DEF Settled
  <2>3. Closed(h, k + 1)
    BY <1>5, <2>2 DEF Closed
  <2> QED BY <1>4, <2>1, <2>3 DEF Waits
<1>7. CASE c # 0
  <2>1. PICK i : i = k + 1 /\ i \in 1..(k + 1) /\ h[i] = m
    BY <1>1
  <2>6. c \in Nat /\ c # 0 /\ i = k + 1
    BY <1>1, <1>7, <2>1
  <2>7. Len(h[i].calls) = c
    BY <1>1, <2>1
  <2>2. k + 1 < i + c /\ c = i + c - (k + 1)
    BY <2>6
  <2>3. \A l \in 1..(k + 1) : l # i => Settled(h, l, k + 1)
    BY <1>5, <2>1
  <2>4. ASSUME NEW j \in 1..Len(a) PROVE a[j] = Asking(BlocksFor(p, h[i]))[k + 1 - i + j]
    <3>1. k + 1 - i + j = j
      BY <1>4, <2>1
    <3> QED BY <1>4, <2>1, <3>1
  <2>5. OpenAt(p, h, i, k + 1, a)
    <3>1. k + 1 < i + Len(h[i].calls) /\ Len(a) = i + Len(h[i].calls) - (k + 1)
      BY <1>4, <2>2, <2>7
    <3>2. a \in Seq(Blocks) /\ i \in 1..(k + 1)
      BY <1>4, <2>1
    <3> QED BY <2>3, <2>4, <3>1, <3>2 DEF OpenAt
  <2> QED BY <1>4, <2>1, <2>5 DEF Waits
<1> QED BY <1>6, <1>7, <1>1

LEMMA StepUser ==
    ASSUME NEW p \in Providers, NEW h, History(h), NEW k \in Nat, k + 1 \in 1..Len(h),
           FromUser(h[k + 1]), NEW o, Waits(p, h, k, o), NEW s, Segment(p, h[k + 1], s)
    PROVE  \E q : Scan(p, o, s, q) /\ Waits(p, h, k + 1, q)
<1>1. PICK m : m = h[k + 1] /\ m.role = "user"
  BY DEF FromUser
<1>2. o = <<>> /\ Closed(h, k)
  <2>1. ASSUME NEW i, OpenAt(p, h, i, k, o) PROVE FALSE
    <3>1. k <= Len(h)
      BY LenProperties DEF History
    <3>2. m.role = "tool"
      BY <1>1, <2>1, <3>1, OpenThenResult
    <3> QED BY <1>1, <3>2
  <2> QED BY <2>1 DEF Waits
<1>3. Scan(p, o, s, <<>>)
  BY <1>2, ScanUser
<1>4. ASSUME NEW l \in 1..(k + 1) PROVE Settled(h, l, k + 1)
  <2>1. l \in 1..Len(h)
    BY LenProperties DEF History
  <2>2. PICK d \in Nat : d = Len(h[l].calls)
    BY <2>1, CallsLength
  <2>3. CASE l \in 1..k
    <3>1. l + d <= k
      BY <1>2, <2>2, <2>3 DEF Closed, Settled
    <3>2. l + d <= k + 1
      BY <3>1
    <3> QED BY <2>2, <3>2 DEF Settled
  <2>4. CASE l = k + 1
    <3>1. d = 0
      <4>1. h[l].calls = <<>>
        BY <2>4 DEF FromUser, Silent
      <4> QED BY <2>2, <4>1, EmptySeq
    <3>2. l + d <= k + 1
      BY <2>4, <3>1
    <3> QED BY <2>2, <3>2 DEF Settled
  <2> QED BY <2>3, <2>4
<1> QED BY <1>2, <1>3, <1>4 DEF Waits, Closed

\* Message k + 1 is a result: it takes the first open call away.
LEMMA StepTool ==
    ASSUME NEW p \in Providers, NEW h, History(h), Renderable(p, h),
           NEW k \in Nat, k + 1 \in 1..Len(h),
           ByTool(h, k + 1), NEW o, Waits(p, h, k, o), NEW s, Segment(p, h[k + 1], s)
    PROVE  \E q : Scan(p, o, s, q) /\ Waits(p, h, k + 1, q)
<1>1. PICK n \in Nat : n = Len(h) /\ k + 1 <= n /\ h \in Seq(Messages)
  BY LenProperties DEF History
<1>2. PICK i \in 1..n : \E j \in 1..Len(h[i].calls) : k + 1 = i + j /\ HasResult(h, i, j)
  BY <1>1 DEF ByTool
<1>3. PICK c \in Nat : c = Len(h[i].calls)
  BY <1>1, <1>2, CallsLength
<1>4. PICK j \in 1..c : k + 1 = i + j /\ HasResult(h, i, j)
  BY <1>2, <1>3
<1>5. i \in 1..k /\ k < i + c /\ j = k + 1 - i /\ j = k - i + 1
  BY <1>2, <1>3, <1>4
<1>6. ASSUME NEW l \in 1..k, l # i PROVE ~Settled(h, i, k)
  BY <1>3, <1>5 DEF Settled
<1>7. ~Settled(h, i, k)
  BY <1>3, <1>5 DEF Settled
<1>8. OpenAt(p, h, i, k, o)
  <2>1. ~Closed(h, k)
    BY <1>5, <1>7 DEF Closed
  <2>2. PICK l \in 1..k : OpenAt(p, h, l, k, o)
    BY <2>1 DEF Waits
  <2>3. l = i
    BY <1>5, <1>7, <2>2 DEF OpenAt
  <2> QED BY <2>2, <2>3
<1>9. PICK a : a = Asking(BlocksFor(p, h[i]))
  OBVIOUS
<1>10. /\ o \in Seq(Blocks) /\ Len(o) = i + c - k
       /\ \A l \in 1..Len(o) : o[l] = a[k - i + l]
       /\ \A l \in 1..k : l # i => Settled(h, l, k)
  BY <1>3, <1>8, <1>9 DEF OpenAt
<1>11. Len(o) \in Nat /\ 1 \in 1..Len(o) /\ o # <<>> /\ o[1] = a[j]
  <2>1. Len(o) \in Nat /\ 1 \in 1..Len(o)
    BY <1>3, <1>5, <1>10
  <2>2. o # <<>>
    BY <2>1, EmptySeq
  <2> QED BY <1>5, <1>10, <2>1, <2>2
<1>12. PICK m \in Messages : m = h[k + 1] /\ m.role = "tool" /\ FromTool(m, h[i].calls[j])
  <2>1. h[k + 1] \in Messages
    BY <1>1, ElementOfSeq
  <2> QED BY <1>4, <2>1 DEF HasResult, FromTool
<1>13. AsksFor(p, h[i], a)
  <2>1. ByProvider(h, i)
    BY <1>1, <1>2, <1>3, <1>4, CallHasResult
  <2>2. PICK q \in Providers : FromProvider(q, h[i], i - 1)
    BY <2>1 DEF ByProvider
  <2>3. Accepts(p, h[i])
    <3>1. i \in DOMAIN h
      BY <1>1, <1>2, LenProperties
    <3> QED BY <3>1 DEF Renderable, Every
  <2> QED BY <1>9, <2>2, <2>3, AnswerAsks
<1>14. Answers(p, ResultBlock(ResultId(p, m)), o[1])
  <2>1. Answers(p, ResultBlock(ResultId(p, m)), a[j])
    BY <1>3, <1>4, <1>12, <1>13 DEF AsksFor
  <2> QED BY <1>11, <2>1
<1>15. Scan(p, o, s, Tail(o))
  BY <1>10, <1>11, <1>12, <1>14, ScanTool
<1>16. PICK t : /\ t = Tail(o) /\ t \in Seq(Blocks) /\ Len(t) = i + c - (k + 1)
                /\ \A l \in 1..Len(t) : t[l] = o[l + 1]
  <2>1. /\ Tail(o) \in Seq(Blocks) /\ Len(Tail(o)) = Len(o) - 1
        /\ \A l \in 1..Len(Tail(o)) : Tail(o)[l] = o[l + 1]
    BY <1>10, <1>11, HeadTailProperties
  <2>2. Len(o) - 1 = i + c - (k + 1)
    BY <1>3, <1>5, <1>10
  <2> QED BY <2>1, <2>2
<1>17. \A l \in 1..(k + 1) : l # i => Settled(h, l, k + 1)
  <2>1. ASSUME NEW l \in 1..(k + 1), l # i PROVE Settled(h, l, k + 1)
    <3>1. l \in 1..n
      BY <1>1
    <3>2. PICK d \in Nat : d = Len(h[l].calls)
      BY <1>1, <3>1, CallsLength
    <3>3. CASE l \in 1..k
      <4>1. l + d <= k
        BY <1>10, <2>1, <3>2, <3>3 DEF Settled
      <4>2. l + d <= k + 1
        BY <4>1
      <4> QED BY <3>2, <4>2 DEF Settled
    <3>4. CASE l = k + 1
      <4>1. d = 0
        <5>1. h[l].calls = <<>>
          BY <1>12, <3>4 DEF FromTool, Silent
        <5> QED BY <3>2, <5>1, EmptySeq
      <4>2. l + d <= k + 1
        BY <3>4, <4>1
      <4> QED BY <3>2, <4>2 DEF Settled
    <3> QED BY <3>3, <3>4
  <2> QED BY <2>1
<1>18. CASE k + 1 = i + c
  <2>1. Len(t) = 0
    <3>1. PICK x : x = i + c /\ x \in Nat
      BY <1>3
    <3>2. x = k + 1 /\ Len(t) = x - (k + 1)
      BY <1>16, <1>18, <3>1
    <3> QED BY <3>1, <3>2
  <2>2. t = <<>>
    BY <1>16, <2>1, EmptySeq
  <2>3. Settled(h, i, k + 1)
    BY <1>3, <1>18 DEF Settled
  <2>4. Closed(h, k + 1)
    BY <1>17, <2>3 DEF Closed
  <2> QED BY <1>15, <1>16, <2>2, <2>4 DEF Waits
<1>19. CASE k + 1 # i + c
  <2>1. i \in 1..(k + 1) /\ k + 1 < i + c
    BY <1>3, <1>5, <1>19
  <2>2. ASSUME NEW l \in 1..Len(t) PROVE t[l] = a[k + 1 - i + l]
    <3>1. l + 1 \in 1..Len(o) /\ k - i + (l + 1) = k + 1 - i + l
      BY <1>3, <1>5, <1>10, <1>16
    <3>2. o[l + 1] = a[k - i + (l + 1)]
      BY <1>10, <3>1
    <3> QED BY <1>16, <3>1, <3>2
  <2>3. OpenAt(p, h, i, k + 1, t)
    BY <1>3, <1>9, <1>16, <1>17, <2>1, <2>2 DEF OpenAt
  <2> QED BY <1>15, <1>16, <2>1, <2>3 DEF Waits
<1> QED BY <1>18, <1>19

LEMMA ReadStep ==
    ASSUME NEW p \in Providers, NEW h, History(h), Renderable(p, h),
           NEW k \in Nat, k + 1 \in 1..Len(h), NEW o, Waits(p, h, k, o),
           NEW s, Segment(p, h[k + 1], s)
    PROVE  \E q : Scan(p, o, s, q) /\ Waits(p, h, k + 1, q)
<1>1. Accepts(p, h[k + 1])
  <2>1. k + 1 \in DOMAIN h
    BY LenProperties DEF History
  <2> QED BY <2>1 DEF Renderable, Every
<1>2. CASE FromUser(h[k + 1])
  BY <1>2, StepUser
<1>3. CASE ByProvider(h, k + 1)
  BY <1>1, <1>3, StepAnswer
<1>4. CASE ByTool(h, k + 1)
  BY <1>4, StepTool
<1> QED BY <1>2, <1>3, <1>4 DEF History, HasAuthor

LEMMA HeldTurns ==
    ASSUME NEW p, NEW turns \in Seq(Held(p))
    PROVE  turns \in Seq(Turns)
<1>1. Held(p) \subseteq Turns
  BY ModernTypes DEF Held
<1>2. \A k \in 1..Len(turns) : turns[k] \in Turns
  BY <1>1, ElementOfSeq
<1> QED BY <1>2, SubType

LEMMA MessageGains ==
    ASSUME NEW p \in Providers, NEW h, History(h), Renderable(p, h),
           NEW k \in 1..Len(h), NEW turns \in Seq(Held(p))
    PROVE  Gains(p, turns, h[k])
<1>1. PICK m \in Messages : m = h[k]
  BY ElementOfSeq DEF History
<1>2. Accepts(p, m)
  <2>1. k \in DOMAIN h
    BY LenProperties DEF History
  <2> QED BY <1>1, <2>1 DEF Renderable, Every
<1>3. CASE FromUser(m)
  <2>1. m.native.items = <<>> /\ BlocksFor(p, m) \in Seq(Modern)
    BY <1>3, UserSpeaks DEF FromUser, Silent, NoNative, Native
  <2> QED BY <1>1, <2>1, Gained
<1>4. CASE ByProvider(h, k)
  <2>1. PICK q \in Providers : FromProvider(q, m, k - 1)
    BY <1>1, <1>4 DEF ByProvider
  <2>2. /\ m.native.listed \/ m.native.items = <<>>
        /\ p # "openai_compatible" => BlocksFor(p, m) \in Seq(Modern)
    BY <1>2, <2>1, AnswerAsks DEF FromProvider, Speaks
  <2> QED BY <1>1, <2>2, Gained
<1>5. CASE ByTool(h, k)
  <2>1. m.role = "tool" /\ m.native.items = <<>>
    BY <1>1, <1>5 DEF ByTool, HasResult, FromTool, Silent, NoNative, Native
  <2>2. PICK r : r = ResultBlock(ResultId(p, m)) /\ r \in Blocks /\ r.kind = "result"
    <3>1. ResultBlock(ResultId(p, m)) \in Blocks
      BY <1>1, ResultIdType
    <3>2. ResultBlock(ResultId(p, m)).kind = "result"
      BY DEF ResultBlock, Block
    <3> QED BY <3>1, <3>2
  <2>3. r \in Modern
    BY <2>2 DEF Modern, IsLegacyCall
  <2>4. BlocksFor(p, m) = <<r>>
    BY <2>1, <2>2 DEF BlocksFor, IsNative
  <2>5. BlocksFor(p, m) \in Seq(Modern)
    BY <2>3, <2>4
  <2> QED BY <1>1, <2>1, <2>5, Gained
<1> QED BY <1>1, <1>3, <1>4, <1>5 DEF History, HasAuthor

\* The turns t, which the first k messages give, scan.
ReadTo(p, h, t, k) ==
    /\ t \in Seq(Held(p))
    /\ \E o : Scan(p, <<>>, Hom(Flats, t), o) /\ Waits(p, h, k, o)

\* One message more: what is open in the body is what the history waits for.
LEMMA ReadsOn ==
    ASSUME NEW p \in Providers, NEW h, History(h), Renderable(p, h),
           NEW k \in Nat, k + 1 \in 1..Len(h), NEW t, ReadTo(p, h, t, k)
    PROVE  ReadTo(p, h, Added(p, t, h[k + 1]), k + 1)
<1>1. t \in Seq(Held(p)) /\ t \in Seq(Turns)
  BY HeldTurns DEF ReadTo
<1>6. Gains(p, t, h[k + 1])
  BY <1>1, MessageGains
<1>7. PICK u : u = Added(p, t, h[k + 1])
  OBVIOUS
<1>2. PICK s : /\ u \in Seq(Held(p)) /\ Segment(p, h[k + 1], s)
               /\ Hom(Flats, u) = Hom(Flats, t) \o s
  BY <1>6, <1>7 DEF Gains
<1>3. PICK o : Scan(p, <<>>, Hom(Flats, t), o) /\ Waits(p, h, k, o)
  BY DEF ReadTo
<1>4. PICK q : Scan(p, o, s, q) /\ Waits(p, h, k + 1, q)
  BY <1>2, <1>3, ReadStep
<1>5. Scan(p, <<>>, Hom(Flats, u), q)
  <2>1. PICK x \in Seq(EntrySet) : x = Hom(Flats, t)
    BY <1>1, FlatsInto, HomType
  <2>2. s \in Seq(EntrySet)
    BY <1>2 DEF Segment, Mirrors
  <2>3. Scan(p, <<>>, x \o s, q)
    BY <1>3, <1>4, <2>1, <2>2, ScanConcat
  <2> QED BY <1>2, <2>1, <2>3
<1> QED BY <1>2, <1>4, <1>5, <1>7 DEF ReadTo

\* Every body of a history scans, and leaves nothing open.
LEMMA BodyScans ==
    ASSUME NEW p \in Providers, NEW h, History(h), Renderable(p, h)
    PROVE  /\ Flat(Body(p, h)) \in Seq(EntrySet)
           /\ Scan(p, <<>>, Flat(Body(p, h)), <<>>)
<1>1. PICK n \in Nat : n = Len(h)
  BY LenProperties DEF History
<1>2. PICK f : Renders(p, h, n, f) /\ Body(p, h) = f[n]
  BY <1>1, BodyIs
<1>3. PICK T : T = {k \in Nat : k <= n => ReadTo(p, h, f[k], k)}
  OBVIOUS
<1>4. 0 \in T
  <2>1. PICK t : t = f[0] /\ t = <<>> /\ t \in Seq(Held(p))
    BY <1>2, EmptySeq DEF Renders
  <2>2. PICK x : x = Hom(Flats, t) /\ x = <<>> /\ Len(x) = 0
    BY <2>1, HomEmpty, EmptySeq
  <2>3. Scan(p, <<>>, x, <<>>)
    BY <2>2, ScanNothing
  <2>4. Waits(p, h, 0, <<>>)
    BY DEF Waits, Closed
  <2>5. ReadTo(p, h, t, 0)
    BY <2>1, <2>2, <2>3, <2>4 DEF ReadTo
  <2> QED BY <1>3, <2>1, <2>5
<1>5. ASSUME NEW k \in Nat, k \in T PROVE k + 1 \in T
  <2>1. SUFFICES ASSUME k + 1 <= n PROVE ReadTo(p, h, f[k + 1], k + 1)
    BY <1>3
  <2>2. k + 1 \in 1..n /\ k + 1 - 1 = k /\ k <= n
    BY <1>1, <2>1
  <2>3. ReadTo(p, h, f[k], k)
    BY <1>3, <1>5, <2>2
  <2>4. f[k + 1] = Added(p, f[k], h[k + 1])
    BY <1>2, <2>2 DEF Renders
  <2> QED BY <1>1, <2>2, <2>3, <2>4, ReadsOn
<1>6. n \in T
  BY <1>1, <1>4, <1>5, EveryNumber
<1>7. ReadTo(p, h, f[n], n)
  BY <1>1, <1>3, <1>6
<1>8. f[n] \in Seq(Turns)
  BY <1>7, HeldTurns DEF ReadTo
<1>9. Flat(f[n]) = Hom(Flats, f[n]) /\ Hom(Flats, f[n]) \in Seq(EntrySet)
  BY <1>8, FlatIs, FlatsInto, HomType
<1>10. PICK o : Scan(p, <<>>, Hom(Flats, f[n]), o) /\ Waits(p, h, n, o)
  BY <1>7 DEF ReadTo
<1>11. o = <<>>
  BY <1>1, <1>10, ClosedAtEnd
<1> QED BY <1>2, <1>9, <1>10, <1>11

\* In every request each call has exactly one result, in call order, under an
\* id the provider knows, and no user content comes between them.
THEOREM Pairing == Spec => []EveryCallIsAnswered
<1>1. ASSUME IInv PROVE EveryCallIsAnswered
  <2>1. PICK p, flat : /\ p = request.provider /\ flat = Flat(request.body)
                       /\ flat \in Seq(EntrySet) /\ Scan(p, <<>>, flat, <<>>)
    <3>1. CASE request # NoRequest
      <4>1. /\ client \in Providers /\ Renderable(client, messages)
            /\ request = [provider |-> client, body |-> Body(client, messages)]
        BY <1>1, <3>1 DEF IInv, Sent
      <4>2. request.provider = client /\ request.body = Body(client, messages)
        BY <4>1
      <4> QED BY <1>1, <4>1, <4>2, BodyScans DEF IInv
    <3>2. CASE request = NoRequest
      <4>1. PICK body : body = request.body /\ body = <<>> /\ body \in Seq(Turns)
        BY <3>2, EmptySeq DEF NoRequest
      <4>2. PICK x : x = Flat(body) /\ x = <<>> /\ Len(x) = 0 /\ x \in Seq(EntrySet)
        BY <4>1, FlatIs, HomEmpty, EmptySeq
      <4> QED BY <4>1, <4>2, ScanNothing
    <3> QED BY <3>1, <3>2
  <2> QED BY <2>1, ScanSays DEF EveryCallIsAnswered
<1> QED BY <1>1, Consistent, PTL

=============================================================================
