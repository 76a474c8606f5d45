------------------------------ MODULE Schemas ------------------------------
(***************************************************************************)
(* The schemas of tools and the validation of arguments against them       *)
(* (src/src/client.cpp, src/src/tool.cpp): the subset of JSON Schema that  *)
(* the library supports.                                                   *)
(*                                                                         *)
(* A schema is a JSON value like the arguments.  The SDK reads it twice:   *)
(* when a tool is added, to refuse what it cannot handle, and when the     *)
(* tool is called, with accessors that throw on a value of the wrong kind. *)
(* Error texts are left out: a validation is "valid", "invalid" or         *)
(* "throws".                                                               *)
(***************************************************************************)
EXTENDS Json, FiniteSets

(***************************************************************************)
(* What may be a tool.                                                     *)
(***************************************************************************)
SupportedTypes ==
    {"object", "array", "string", "number", "integer", "boolean", "null"}

IsName(value) == value.kind = "string" /\ value.scalar # ""

\* Faulty: the schema of further members is not looked into.
NamedSchemas(schema) ==
    (IF Has(schema, "properties") THEN Parts(Field(schema, "properties")) ELSE {})
    \cup (IF Has(schema, "items") THEN {Field(schema, "items")} ELSE {})

\* The schemas inside a schema.
Subschemas(schema) ==
    (IF Has(schema, "properties") THEN Parts(Field(schema, "properties")) ELSE {})
    \cup (IF Has(schema, "items") THEN {Field(schema, "items")} ELSE {})
    \cup (IF /\ Has(schema, "additionalProperties")
             /\ Field(schema, "additionalProperties").kind # "boolean"
          THEN {Field(schema, "additionalProperties")} ELSE {})

AcceptedAlone(schema) ==
    /\ schema.kind = "object"
    /\ Has(schema, "type") =>
          /\ Field(schema, "type").kind = "string"
          /\ Field(schema, "type").scalar \in SupportedTypes
    /\ Has(schema, "properties") => Field(schema, "properties").kind = "object"
    /\ Has(schema, "required") =>
          /\ Field(schema, "required").kind = "array"
          /\ \A name \in Elements(Field(schema, "required")) : IsName(name)
    /\ Has(schema, "enum") => Field(schema, "enum").kind = "array"

\* validate_schema_definition accepts.
DefinitionOK(schema) ==
    LET accepts[s \in JsonValues] ==
            AcceptedAlone(s) /\ \A subschema \in Subschemas(s) : accepts[subschema]
    IN  accepts[schema]

IsObjectSchema(schema) ==
    Has(schema, "type") /\ Field(schema, "type") = String("object")

\* AIClient's validate_tool_spec: a tool the client is given.  Names are of 64
\* characters at most; long and odd stand for the others.
ToolSpecOK(spec) ==
    /\ spec.name \notin {"", "long", "odd"}
    /\ spec.description # ""
    /\ DefinitionOK(spec.input_schema)
    /\ spec.provider_options.kind = "object"
    /\ IsObjectSchema(spec.input_schema)

\* FunctionTool checks less of the schema, earlier.
FunctionToolOK(spec) ==
    /\ spec.name \notin {"", "long", "odd"}
    /\ spec.description # ""
    /\ spec.input_schema.kind = "object"
    /\ spec.provider_options.kind = "object"
    /\ IsObjectSchema(spec.input_schema)
    /\ Has(spec.input_schema, "properties") =>
          Field(spec.input_schema, "properties").kind = "object"
    /\ Has(spec.input_schema, "required") =>
          /\ Field(spec.input_schema, "required").kind = "array"
          /\ \A name \in Elements(Field(spec.input_schema, "required")) : IsName(name)

(***************************************************************************)
(* The validation of a call's arguments.                                   *)
(***************************************************************************)
HasType(value, type) ==
    IF type = "number" THEN value.kind \in {"number", "integer"}
    ELSE value.kind = type

When(holds) == IF holds THEN "valid" ELSE "invalid"

\* Checks in order; the first that fails decides ...
First(checks) ==
    LET failed == {k \in DOMAIN checks : checks[k] # "valid"} IN
    IF failed = {} THEN "valid"
    ELSE checks[CHOOSE k \in failed : \A j \in failed : k <= j]

\* ... and the checks of members or elements, in an order that is left open.
Each(checks) ==
    IF "throws" \in checks THEN "throws"
    ELSE IF "invalid" \in checks THEN "invalid" ELSE "valid"

\* type->get<std::string>() throws.
CheckType(value, schema) ==
    IF ~Has(schema, "type") THEN "valid"
    ELSE IF Field(schema, "type").kind # "string" THEN "throws"
    ELSE When(HasType(value, Field(schema, "type").scalar))

\* What std::find goes through: a scalar is the only element of itself, null has
\* none.
Candidates(value) ==
    CASE value.kind = "array" -> Elements(value)
      [] value.kind = "object" -> Members(value)
      [] value.kind = "null" -> {}
      [] OTHER -> {value}

CheckEnum(value, schema) ==
    IF ~Has(schema, "enum") THEN "valid"
    ELSE When(value \in Candidates(Field(schema, "enum")))

CheckRequired(value, schema) ==
    IF value.kind # "object" \/ ~Has(schema, "required") THEN "valid"
    ELSE IF Field(schema, "required").kind # "array" THEN "throws"
    ELSE Each({IF name.kind # "string" THEN "throws" ELSE When(Has(value, name.scalar))
               : name \in Elements(Field(schema, "required"))})

\* Only an object's iterators have keys.  validate is the validation of parts.
CheckProperties(validate, value, schema) ==
    IF value.kind # "object" \/ ~Has(schema, "properties") THEN "valid"
    ELSE IF Field(schema, "properties").kind # "object" THEN "throws"
    ELSE Each({validate[<<Field(value, key), Field(Field(schema, "properties"), key)>>]
               : key \in DOMAIN value.members
                         \cap DOMAIN Field(schema, "properties").members})

Undeclared(value, schema) ==
    {key \in DOMAIN value.members :
        ~(Has(schema, "properties") /\ Has(Field(schema, "properties"), key))}

CheckAdditional(validate, value, schema) ==
    LET more == Field(schema, "additionalProperties") IN
    IF value.kind # "object" \/ ~Has(schema, "additionalProperties") THEN "valid"
    ELSE CASE more.kind = "boolean" ->
                When(more.scalar = "true" \/ Undeclared(value, schema) = {})
           [] more.kind = "object" ->
                Each({validate[<<Field(value, key), more>>] : key \in Undeclared(value, schema)})
           [] OTHER -> "valid"

CheckItems(validate, value, schema) ==
    IF value.kind # "array" \/ ~Has(schema, "items") THEN "valid"
    ELSE Each({validate[<<e, Field(schema, "items")>>] : e \in Elements(value)})

Validation(validate, value, schema) ==
    First(<<CheckType(value, schema), CheckEnum(value, schema),
            CheckRequired(value, schema), CheckProperties(validate, value, schema),
            CheckAdditional(validate, value, schema), CheckItems(validate, value, schema)>>)

\* validate_value_against_schema.
Validate(value, schema) ==
    LET validate[p \in JsonValues \X JsonValues] == Validation(validate, p[1], p[2])
    IN  validate[<<value, schema>>]

(***************************************************************************)
(* What the keywords mean, member by member.                               *)
(***************************************************************************)
MemberSatisfies(satisfies, value, key, schema) ==
    IF Has(schema, "properties") /\ Has(Field(schema, "properties"), key)
    THEN satisfies[<<Field(value, key), Field(Field(schema, "properties"), key)>>]
    ELSE \/ ~Has(schema, "additionalProperties")
         \/ Field(schema, "additionalProperties") = Scalar("boolean", "true")
         \/ /\ Field(schema, "additionalProperties").kind = "object"
            /\ satisfies[<<Field(value, key), Field(schema, "additionalProperties")>>]

Satisfied(satisfies, value, schema) ==
    /\ \/ ~Has(schema, "type")
       \/ Field(schema, "type") = String(value.kind)
       \/ Field(schema, "type") = String("number") /\ value.kind = "integer"
    /\ Has(schema, "enum") => \E e \in Elements(Field(schema, "enum")) : e = value
    /\ value.kind = "object" =>
          /\ \A key \in DOMAIN value.members : MemberSatisfies(satisfies, value, key, schema)
          /\ Has(schema, "required") =>
                \A k \in DOMAIN Field(schema, "required").elements :
                    Field(schema, "required").elements[k].scalar \in DOMAIN value.members
    /\ value.kind = "array" /\ Has(schema, "items") =>
          \A k \in DOMAIN value.elements :
              satisfies[<<value.elements[k], Field(schema, "items")>>]

\* value is an instance of schema, an accepted definition.
Satisfies(value, schema) ==
    LET satisfies[p \in JsonValues \X JsonValues] == Satisfied(satisfies, p[1], p[2])
    IN  satisfies[<<value, schema>>]

\* A tool with schema, with nothing else to object to.
SpecWith(schema) ==
    [name |-> "tool", description |-> "does", input_schema |-> schema,
     provider_options |-> EmptyObject]

\* A definition the client accepts never makes the validation of a call throw,
\* whatever the arguments, and the validation agrees with what the keywords
\* mean; the arguments of a tool the client accepts are then an object; and
\* FunctionTool, which has checks of its own, refuses none of these tools.
ArgumentsMeetSchema(schema, values) ==
    /\ DefinitionOK(schema) =>
          \A value \in values :
              Validate(value, schema) = When(Satisfies(value, schema))
    /\ ToolSpecOK(SpecWith(schema)) =>
          /\ FunctionToolOK(SpecWith(schema))
          /\ \A value \in values :
                Validate(value, schema) = "valid" => value.kind = "object"
=============================================================================
