-------------------------------- MODULE Json --------------------------------
(***************************************************************************)
(* JSON values as the library uses nlohmann::json, which is external: a    *)
(* record of the kind of a value and its members, elements or scalar.  An  *)
(* integer and a floating-point number that are equal are not modelled.    *)
(***************************************************************************)
EXTENDS Naturals, Sequences

CONSTANTS
    JsonValues,     \* any values, with everything that is inside them
    Depth           \* how deep each is nested

Object(members) == [kind |-> "object", members |-> members]
Array(elements) == [kind |-> "array", elements |-> elements]
Scalar(kind, scalar) == [kind |-> kind, scalar |-> scalar]
String(s) == Scalar("string", s)

EmptyObject == Object(<<>>)

Has(value, key) == value.kind = "object" /\ key \in DOMAIN value.members
Field(value, key) == value.members[key]
Elements(array) == {array.elements[k] : k \in DOMAIN array.elements}
Members(object) == {object.members[key] : key \in DOMAIN object.members}

\* object with one member assigned, with the members of another.
With(object, key, value) ==
    Object([k \in {key} \cup DOMAIN object.members |->
               IF k = key THEN value ELSE object.members[k]])
Update(object, other) ==
    Object([k \in DOMAIN other.members \cup DOMAIN object.members |->
               IF k \in DOMAIN other.members THEN other.members[k] ELSE object.members[k]])

Parts(value) ==
    CASE value.kind = "object" -> Members(value)
      [] value.kind = "array" -> Elements(value)
      [] OTHER -> {}

\* A value is of one of three shapes, and nested finitely deep.
ASSUME JsonAssumption ==
    /\ Depth \in [JsonValues -> Nat]
    /\ \A value \in JsonValues :
          /\ value = CASE value.kind = "object" ->
                            Object([key \in DOMAIN value.members |-> value.members[key]])
                       [] value.kind = "array" -> Array(value.elements)
                       [] OTHER -> Scalar(value.kind, value.scalar)
          /\ value.kind = "array" => value.elements \in Seq(JsonValues)
          /\ \A part \in Parts(value) :
                part \in JsonValues /\ Depth[part] < Depth[value]
=============================================================================
