------------------------------ MODULE Contents ------------------------------
(***************************************************************************)
(* The provider-neutral data a Session keeps (types.hpp) and the pieces of *)
(* a request body that all adapters build.  Text, URLs and bytes are       *)
(* abstracted away; a content keeps what an adapter branches on.  A native *)
(* item is one element of a provider's response: an output item, a content *)
(* block, a part, or a field of a chat message.                            *)
(***************************************************************************)
EXTENDS Naturals, SequencesExt

Providers == {"openai", "anthropic", "gemini", "openai_compatible"}

\* Call ids are tuples: <<"given", n>> comes from a provider, the others are
\* made up by an adapter.  NoId is the empty string.
NoId == <<>>
Given(n) == <<"given", n>>
IsMade(id) == id # NoId /\ id[1] # "given"

\* The last two are a run, the size of the history and the index of a call.
CallIds ==
    {NoId} \cup ({"given"} \X Nat) \cup ({"legacy_function_call"} \X Nat \X Nat)
           \cup ({"gemini_call"} \X Nat \X Nat \X Nat)

(***************************************************************************)
(* kind says how the adapter's parser classifies the item; sound is FALSE  *)
(* when a field it reads has the wrong type or does not decode.            *)
(***************************************************************************)
Kinds == {"text", "part", "image", "audio", "file", "image_uri", "audio_uri",
          "file_uri", "call", "legacy", "hidden"}

Item(p, kind, id) == [provider |-> p, kind |-> kind, id |-> id, sound |-> TRUE]
NoItem == Item("none", "none", NoId)

Items == [provider : Providers \cup {"none"}, kind : Kinds \cup {"none"},
          id : CallIds, sound : BOOLEAN]

(***************************************************************************)
(* Content.  form is the part of the URL or media type that some adapter   *)
(* looks at: "google" or "web" for a URL; "pdf", "speech" (MP3 or WAV) or  *)
(* "other" for bytes.  provider() of an extension is that of its item.     *)
(***************************************************************************)
Part(type, source, form, item) ==
    [type |-> type, source |-> source, form |-> form, item |-> item]
Text == Part("text", "value", "none", NoItem)
Bytes(type, form) == Part(type, "bytes", form, NoItem)
Url(type, form) == Part(type, "url", form, NoItem)
Extension(item) == Part("extension", "provider_data", "none", item)

Parts ==
    [type : {"text", "image", "audio", "file", "extension"},
     source : {"value", "bytes", "url", "provider_data"},
     form : {"none", "google", "web", "pdf", "speech", "other"}, item : Items]

IsMedia(c) == c.type \in {"image", "audio", "file"}
IsExtension(c, p) == c.type = "extension" /\ c.item.provider = p

(***************************************************************************)
(* Messages.  Message::provider_metadata is, on an assistant message, the  *)
(* native response of its provider (absent when listed is FALSE) and, on a *)
(* tool message, the metadata of the call it answers.  role is the one     *)
(* that the content of a Gemini response names; it may name none.          *)
(***************************************************************************)
NativeRoles == {"none", "model"}

Native(p, items, listed) ==
    [provider |-> p, items |-> items, listed |-> listed, role |-> "none"]
NoNative == Native("none", <<>>, FALSE)

Blank == [role |-> "user", contents |-> <<>>, calls |-> <<>>,
          native |-> NoNative, tool_call_id |-> NoId, metadata |-> NoItem]
User(contents) == [Blank EXCEPT !.contents = contents]
Assistant(contents, calls, native) ==
    [Blank EXCEPT !.role = "assistant", !.contents = contents,
                  !.calls = calls, !.native = native]
ToolResult(call, contents) ==
    [Blank EXCEPT !.role = "tool", !.contents = contents,
                  !.tool_call_id = call.id, !.metadata = call.metadata]
ToolCall(id, item) == [id |-> id, metadata |-> item]

ToolCalls == [id : CallIds, metadata : Items]
Natives == [provider : Providers \cup {"none"}, items : Seq(Items),
            listed : BOOLEAN, role : NativeRoles]
Messages == [role : {"user", "assistant", "tool"}, contents : Seq(Parts),
             calls : Seq(ToolCalls), native : Natives, tool_call_id : CallIds,
             metadata : Items]

\* Faulty: any provider's metadata counts as native.
IsNativeToAny(m, p) == m.role = "assistant" /\ m.native.listed

IsNative(m, p) == m.role = "assistant" /\ m.native.provider = p

(***************************************************************************)
(* A response: whether status and envelope are acceptable, the native      *)
(* items, whether the member that holds them is there at all, the role the *)
(* content names, the stop reason "pause_turn", and aside, the text a      *)
(* parser falls back on.                                                   *)
(***************************************************************************)
Reply(items) == [ok |-> TRUE, listed |-> TRUE, items |-> items, role |-> "none",
                 pause |-> FALSE, aside |-> FALSE]
AllReplies ==
    [ok : BOOLEAN, listed : BOOLEAN, items : Seq(Items), role : NativeRoles,
     pause : BOOLEAN, aside : BOOLEAN]

(***************************************************************************)
(* Request bodies: a sequence of turns, each a role with blocks.  An entry *)
(* without a role of its own has the role "item".                          *)
(***************************************************************************)
Turn(role, blocks) == [role |-> role, blocks |-> blocks]
Block(kind, id, item) == [kind |-> kind, id |-> id, item |-> item]

Replayed(item) == Block("native", item.id, item)
CallBlock(id) == Block("call", id, NoItem)
ResultBlock(id) == Block("result", id, NoItem)
Rendered(c) ==
    IF c.type = "extension" THEN Replayed(c.item)
                            ELSE Block(c.type, NoId, NoItem)

Each(s, Op(_)) == [k \in DOMAIN s |-> Op(s[k])]
Every(s, Test(_)) == \A k \in DOMAIN s : Test(s[k])

\* The items of some kinds, in order.
OfKind(items, kinds) ==
    FlattenSeq(Each(items, LAMBDA i : IF i.kind \in kinds THEN <<i>> ELSE <<>>))

\* Faulty: every message becomes a turn of its own.
PushTurn(turns, role, blocks) == Append(turns, Turn(role, blocks))

\* A block joins the last turn when that has the same role.
MergeTurn(turns, role, blocks) ==
    IF turns # <<>> /\ Last(turns).role = role
    THEN Append(Front(turns), Turn(role, Last(turns).blocks \o blocks))
    ELSE Append(turns, Turn(role, blocks))
=============================================================================
