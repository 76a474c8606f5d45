------------------------ MODULE PureFunctions_proofs ------------------------
(***************************************************************************)
(* What the functions without state compute, for every input.              *)
(***************************************************************************)
EXTENDS PureFunctions, Induction, FiniteSetTheorems

(***************************************************************************)
(* JSON values.                                                            *)
(***************************************************************************)
LEMMA PartOf ==
    ASSUME NEW value \in JsonValues, NEW part \in Parts(value)
    PROVE  part \in JsonValues /\ Depth[part] < Depth[value]
BY JsonAssumption

LEMMA DepthIs == ASSUME NEW value \in JsonValues PROVE Depth[value] \in Nat
BY JsonAssumption

LEMMA FieldOf ==
    ASSUME NEW value \in JsonValues, NEW key, Has(value, key)
    PROVE  /\ Field(value, key) \in Parts(value)
           /\ Field(value, key) \in JsonValues
           /\ Depth[Field(value, key)] < Depth[value]
<1>1. Field(value, key) \in Parts(value)
  BY DEF Has, Field, Parts, Members
<1> QED BY <1>1, PartOf

LEMMA ElementOf ==
    ASSUME NEW value \in JsonValues, value.kind = "array", NEW e \in Elements(value)
    PROVE  e \in JsonValues /\ Depth[e] < Depth[value]
<1>1. e \in Parts(value)
  BY DEF Parts
<1> QED BY <1>1, PartOf

LEMMA ElementsIs ==
    ASSUME NEW value \in JsonValues, value.kind = "array"
    PROVE  value.elements \in Seq(JsonValues)
BY JsonAssumption

\* A value that is neither object nor array is its kind and its scalar.
LEMMA ScalarIs ==
    ASSUME NEW value \in JsonValues, value.kind \notin {"object", "array"}
    PROVE  value = Scalar(value.kind, value.scalar)
BY JsonAssumption

-----------------------------------------------------------------------------
(***************************************************************************)
(* Schemas: what a validation looks at, and the function it is.            *)
(***************************************************************************)
Results == {"valid", "invalid", "throws"}

\* f and g agree on everything less deep than value.
AgreeBelow(f, g, value) ==
    \A v, s \in JsonValues : Depth[v] < Depth[value] => f[<<v, s>>] = g[<<v, s>>]

LEMMA PropertiesLookBelow ==
    ASSUME NEW f, NEW g, NEW value \in JsonValues, NEW schema \in JsonValues,
           AgreeBelow(f, g, value)
    PROVE  CheckProperties(f, value, schema) = CheckProperties(g, value, schema)
<1> SUFFICES ASSUME value.kind = "object", Has(schema, "properties"), Field(schema, "properties").kind = "object"
             PROVE  CheckProperties(f, value, schema) = CheckProperties(g, value, schema)
  BY DEF CheckProperties
<1>1. PICK named \in JsonValues : named = Field(schema, "properties") /\ named.kind = "object"
  BY FieldOf
<1>2. PICK keys : keys = DOMAIN value.members \cap DOMAIN named.members
  OBVIOUS
<1>3. ASSUME NEW key \in keys
      PROVE  f[<<Field(value, key), Field(named, key)>>] = g[<<Field(value, key), Field(named, key)>>]
  <2>1. Has(value, key) /\ Has(named, key)
    BY <1>1, <1>2 DEF Has
  <2>2. PICK v \in JsonValues, s \in JsonValues :
           v = Field(value, key) /\ s = Field(named, key) /\ Depth[v] < Depth[value]
    BY <1>1, <2>1, FieldOf
  <2>3. f[<<v, s>>] = g[<<v, s>>]
    BY <2>2 DEF AgreeBelow
  <2> QED BY <2>2, <2>3
<1>4. {f[<<Field(value, key), Field(named, key)>>] : key \in keys}
      = {g[<<Field(value, key), Field(named, key)>>] : key \in keys}
  BY <1>3
<1> QED BY <1>1, <1>2, <1>4 DEF CheckProperties

LEMMA AdditionalLooksBelow ==
    ASSUME NEW f, NEW g, NEW value \in JsonValues, NEW schema \in JsonValues,
           AgreeBelow(f, g, value)
    PROVE  CheckAdditional(f, value, schema) = CheckAdditional(g, value, schema)
<1> SUFFICES ASSUME value.kind = "object", Has(schema, "additionalProperties"),
                    Field(schema, "additionalProperties").kind = "object"
             PROVE  CheckAdditional(f, value, schema) = CheckAdditional(g, value, schema)
  BY DEF CheckAdditional
<1>1. PICK more \in JsonValues : more = Field(schema, "additionalProperties")
  BY FieldOf
<1>2. PICK keys : keys = Undeclared(value, schema)
  OBVIOUS
<1>3. ASSUME NEW key \in keys PROVE f[<<Field(value, key), more>>] = g[<<Field(value, key), more>>]
  <2>1. Has(value, key)
    BY <1>2 DEF Has, Undeclared
  <2> QED BY <2>1, FieldOf DEF AgreeBelow
<1>4. {f[<<Field(value, key), more>>] : key \in keys} = {g[<<Field(value, key), more>>] : key \in keys}
  BY <1>3
<1> QED BY <1>1, <1>2, <1>4 DEF CheckAdditional

LEMMA ItemsLookBelow ==
    ASSUME NEW f, NEW g, NEW value \in JsonValues, NEW schema \in JsonValues,
           AgreeBelow(f, g, value)
    PROVE  CheckItems(f, value, schema) = CheckItems(g, value, schema)
<1> SUFFICES ASSUME value.kind = "array", Has(schema, "items")
             PROVE  CheckItems(f, value, schema) = CheckItems(g, value, schema)
  BY DEF CheckItems
<1>1. PICK items \in JsonValues : items = Field(schema, "items")
  BY FieldOf
<1>2. ASSUME NEW e \in Elements(value) PROVE f[<<e, items>>] = g[<<e, items>>]
  BY ElementOf DEF AgreeBelow
<1>3. {f[<<e, items>>] : e \in Elements(value)} = {g[<<e, items>>] : e \in Elements(value)}
  BY <1>2
<1> QED BY <1>1, <1>3 DEF CheckItems

LEMMA ValidationLooksBelow ==
    ASSUME NEW f, NEW g, NEW value \in JsonValues, NEW schema \in JsonValues,
           AgreeBelow(f, g, value)
    PROVE  Validation(f, value, schema) = Validation(g, value, schema)
BY PropertiesLookBelow, AdditionalLooksBelow, ItemsLookBelow DEF Validation

LEMMA FirstFailed ==
    ASSUME NEW S, NEW checks \in Seq(S), NEW k \in DOMAIN checks, checks[k] # "valid"
    PROVE  First(checks) \in S /\ First(checks) # "valid"
<1>1. PICK n \in Nat : n = Len(checks) /\ DOMAIN checks = 1..n
  BY LenProperties
<1>2. PICK failed : failed = {j \in DOMAIN checks : checks[j] # "valid"}
  OBVIOUS
<1>3. failed \in SUBSET Nat /\ failed # {}
  BY <1>1, <1>2
<1>4. PICK m \in failed : m = CHOOSE j \in failed : \A i \in failed : j <= i
  BY <1>3, Least
<1>5. First(checks) = checks[m]
  BY <1>2, <1>3, <1>4 DEF First
<1>6. m \in 1..Len(checks) /\ checks[m] # "valid"
  BY <1>1, <1>2
<1> QED BY <1>5, <1>6, ElementOfSeq

LEMMA FirstType == ASSUME NEW checks \in Seq(Results) PROVE First(checks) \in Results
<1>1. CASE \E k \in DOMAIN checks : checks[k] # "valid"
  BY <1>1, FirstFailed
<1>2. CASE \A k \in DOMAIN checks : checks[k] = "valid"
  <2>1. {k \in DOMAIN checks : checks[k] # "valid"} = {}
    BY <1>2
  <2> QED BY <2>1 DEF First, Results
<1> QED BY <1>1, <1>2

\* Checks that do not throw are valid together if each is.
LEMMA FirstIs ==
    ASSUME NEW checks \in Seq({"valid", "invalid"})
    PROVE  First(checks) = When(\A k \in DOMAIN checks : checks[k] = "valid")
<1>1. CASE \E k \in DOMAIN checks : checks[k] # "valid"
  <2>1. First(checks) = "invalid"
    BY <1>1, FirstFailed
  <2> QED BY <1>1, <2>1 DEF When
<1>2. CASE \A k \in DOMAIN checks : checks[k] = "valid"
  <2>1. {k \in DOMAIN checks : checks[k] # "valid"} = {}
    BY <1>2
  <2> QED BY <1>2, <2>1 DEF First, When
<1> QED BY <1>1, <1>2

LEMMA ValidationType ==
    ASSUME NEW f, NEW value, NEW schema
    PROVE  Validation(f, value, schema) \in Results
<1>1. PICK a \in Results, b \in Results, c \in Results, d \in Results, e \in Results,
           i \in Results :
         /\ a = CheckType(value, schema) /\ b = CheckEnum(value, schema)
         /\ c = CheckRequired(value, schema) /\ d = CheckProperties(f, value, schema)
         /\ e = CheckAdditional(f, value, schema) /\ i = CheckItems(f, value, schema)
  <2>1. CheckType(value, schema) \in Results
    BY DEF CheckType, When, Results
  <2>2. CheckEnum(value, schema) \in Results
    BY DEF CheckEnum, When, Results
  <2>3. CheckRequired(value, schema) \in Results
    BY DEF CheckRequired, Each, Results
  <2>4. CheckProperties(f, value, schema) \in Results
    BY DEF CheckProperties, Each, Results
  <2>5. CheckAdditional(f, value, schema) \in Results
    BY DEF CheckAdditional, Each, When, Results
  <2>6. CheckItems(f, value, schema) \in Results
    BY DEF CheckItems, Each, Results
  <2> QED BY <2>1, <2>2, <2>3, <2>4, <2>5, <2>6
<1>2. <<a, b, c, d, e, i>> \in Seq(Results)
  OBVIOUS
<1> QED BY <1>1, <1>2, FirstType DEF Validation

Pairs == JsonValues \X JsonValues

\* f is the validation of every value against every schema.
IsValidation(f) ==
    f = [p \in JsonValues \X JsonValues |-> Validation(f, p[1], p[2])]

\* How deep the value of a pair is.
LEMMA Ranks ==
    \E rank \in [Pairs -> Nat] :
        \A v, s \in JsonValues : <<v, s>> \in Pairs /\ rank[<<v, s>>] = Depth[v]
<1>1. PICK rank : rank = [p \in Pairs |-> Depth[p[1]]]
  OBVIOUS
<1>2. rank \in [Pairs -> Nat]
  BY <1>1, DepthIs DEF Pairs
<1> QED BY <1>1, <1>2 DEF Pairs

LEMMA AgreeingBelow ==
    ASSUME NEW rank \in [Pairs -> Nat], NEW p \in Pairs, NEW f, NEW g,
           \A v, s \in JsonValues : <<v, s>> \in Pairs /\ rank[<<v, s>>] = Depth[v],
           \A q \in Pairs : rank[q] < rank[p] => f[q] = g[q]
    PROVE  AgreeBelow(f, g, p[1])
<1>1. PICK v \in JsonValues, s \in JsonValues : p = <<v, s>>
  BY DEF Pairs
<1> QED BY <1>1 DEF AgreeBelow

LEMMA ValidateIs ==
    \E f : /\ IsValidation(f)
           /\ \A v, s \in JsonValues :
                 Validate(v, s) = f[<<v, s>>] /\ f[<<v, s>>] = Validation(f, v, s)
<1>1. PICK rank \in [Pairs -> Nat] :
         \A v, s \in JsonValues : <<v, s>> \in Pairs /\ rank[<<v, s>>] = Depth[v]
  BY Ranks
<1>2. PICK step : step = [f \in [Pairs -> Results] |->
                             [p \in Pairs |-> Validation(f, p[1], p[2])]]
  OBVIOUS
<1>3. step \in [[Pairs -> Results] -> [Pairs -> Results]]
  BY <1>2, ValidationType
<1>4. LooksBelow(step, Pairs, Results, rank)
  <2> SUFFICES ASSUME NEW p \in Pairs, NEW f \in [Pairs -> Results],
                      NEW g \in [Pairs -> Results],
                      \A q \in Pairs : rank[q] < rank[p] => f[q] = g[q]
               PROVE  step[f][p] = step[g][p]
    BY DEF LooksBelow
  <2>1. AgreeBelow(f, g, p[1])
    BY <1>1, AgreeingBelow
  <2>2. p[1] \in JsonValues /\ p[2] \in JsonValues
    BY DEF Pairs
  <2>3. Validation(f, p[1], p[2]) = Validation(g, p[1], p[2])
    BY <2>1, <2>2, ValidationLooksBelow
  <2> QED BY <1>2, <2>3
<1>5. PICK f \in [Pairs -> Results] : f = step[f]
  <2>1. Recurses(step, Pairs, Results, rank)
    BY <1>1, <1>3, <1>4 DEF Recurses, Results
  <2> QED BY <2>1, Recursion
<1>6. IsValidation(f)
  BY <1>2, <1>5 DEF IsValidation, Pairs
<1>7. PICK g : g = CHOOSE h : IsValidation(h)
  OBVIOUS
<1>8. IsValidation(g)
  BY <1>6, <1>7
<1>9. ASSUME NEW v \in JsonValues, NEW s \in JsonValues
      PROVE  Validate(v, s) = g[<<v, s>>] /\ g[<<v, s>>] = Validation(g, v, s)
  <2>1. Validate(v, s) = g[<<v, s>>]
    BY <1>7 DEF Validate, IsValidation
  <2>2. g[<<v, s>>] = Validation(g, v, s)
    BY <1>8 DEF IsValidation
  <2> QED BY <2>1, <2>2
<1> QED BY <1>8, <1>9

\* The same of what the keywords mean.
IsMeaning(f) == f = [p \in JsonValues \X JsonValues |-> Satisfied(f, p[1], p[2])]

LEMMA MemberLooksBelow ==
    ASSUME NEW f, NEW g, NEW value \in JsonValues, NEW schema \in JsonValues,
           AgreeBelow(f, g, value), NEW key, Has(value, key),
           MemberSatisfies(f, value, key, schema)
    PROVE  MemberSatisfies(g, value, key, schema)
<1>1. PICK member \in JsonValues : member = Field(value, key) /\ Depth[member] < Depth[value]
  BY FieldOf
<1>2. ASSUME NEW s \in JsonValues, f[<<member, s>>] PROVE g[<<member, s>>]
  <2>1. f[<<member, s>>] = g[<<member, s>>]
    BY <1>1 DEF AgreeBelow
  <2> QED BY <1>2, <2>1, Zenon
<1>3. CASE Has(schema, "properties") /\ Has(Field(schema, "properties"), key)
  <2>1. PICK declared \in JsonValues : declared = Field(Field(schema, "properties"), key)
    BY <1>3, FieldOf
  <2>2. f[<<member, declared>>]
    BY <1>1, <1>3, <2>1, Zenon DEF MemberSatisfies
  <2>3. g[<<member, declared>>]
    BY <1>2, <2>2, Zenon
  <2> QED BY <1>1, <1>3, <2>1, <2>3, Zenon DEF MemberSatisfies
<1>4. CASE ~(Has(schema, "properties") /\ Has(Field(schema, "properties"), key))
  <2>1. CASE Has(schema, "additionalProperties")
    <3>1. PICK more \in JsonValues : more = Field(schema, "additionalProperties")
      BY <2>1, FieldOf
    <3>2. \/ more = Scalar("boolean", "true")
          \/ more.kind = "object" /\ f[<<member, more>>]
      BY <1>1, <1>4, <2>1, <3>1, Zenon DEF MemberSatisfies
    <3>3. \/ more = Scalar("boolean", "true")
          \/ more.kind = "object" /\ g[<<member, more>>]
      BY <1>2, <3>2, Zenon
    <3> QED BY <1>1, <1>4, <3>1, <3>3, Zenon DEF MemberSatisfies
  <2>2. CASE ~Has(schema, "additionalProperties")
    BY <1>4, <2>2, Zenon DEF MemberSatisfies
  <2> QED BY <2>1, <2>2
<1> QED BY <1>3, <1>4

\* What the keywords ask of a value apart from its parts.
SatisfiedAlone(value, schema) ==
    /\ \/ ~Has(schema, "type")
       \/ Field(schema, "type") = String(value.kind)
       \/ Field(schema, "type") = String("number") /\ value.kind = "integer"
    /\ Has(schema, "enum") => \E e \in Elements(Field(schema, "enum")) : e = value
    /\ value.kind = "object" =>
          (Has(schema, "required") =>
                \A k \in DOMAIN Field(schema, "required").elements :
                    Field(schema, "required").elements[k].scalar \in DOMAIN value.members)

MembersSatisfy(f, value, schema) ==
    value.kind = "object" =>
        \A key \in DOMAIN value.members : MemberSatisfies(f, value, key, schema)

ElementsSatisfy(f, value, schema) ==
    value.kind = "array" /\ Has(schema, "items") =>
        \A k \in DOMAIN value.elements : f[<<value.elements[k], Field(schema, "items")>>]

LEMMA SatisfiedParts ==
    ASSUME NEW f, NEW value, NEW schema
    PROVE  Satisfied(f, value, schema) <=>
               /\ SatisfiedAlone(value, schema)
               /\ MembersSatisfy(f, value, schema)
               /\ ElementsSatisfy(f, value, schema)
BY Zenon DEF Satisfied, SatisfiedAlone, MembersSatisfy, ElementsSatisfy

LEMMA SatisfiedType ==
    ASSUME NEW f, NEW value, NEW schema PROVE Satisfied(f, value, schema) \in BOOLEAN
BY Zenon DEF Satisfied

LEMMA SatisfiedLooksBelow ==
    ASSUME NEW f, NEW g, NEW value \in JsonValues, NEW schema \in JsonValues,
           AgreeBelow(f, g, value), Satisfied(f, value, schema)
    PROVE  Satisfied(g, value, schema)
<1>1. /\ SatisfiedAlone(value, schema)
      /\ MembersSatisfy(f, value, schema)
      /\ ElementsSatisfy(f, value, schema)
  BY SatisfiedParts
<1>2. MembersSatisfy(g, value, schema)
  <2>1. SUFFICES ASSUME value.kind = "object", NEW key \in DOMAIN value.members
                 PROVE  MemberSatisfies(g, value, key, schema)
    BY DEF MembersSatisfy
  <2>2. Has(value, key) /\ MemberSatisfies(f, value, key, schema)
    BY <1>1, <2>1 DEF Has, MembersSatisfy
  <2> QED BY <2>2, MemberLooksBelow
<1>3. ElementsSatisfy(g, value, schema)
  <2>1. SUFFICES ASSUME value.kind = "array", Has(schema, "items"),
                        NEW k \in DOMAIN value.elements
                 PROVE  g[<<value.elements[k], Field(schema, "items")>>]
    BY DEF ElementsSatisfy
  <2>2. PICK e \in JsonValues : e = value.elements[k] /\ Depth[e] < Depth[value]
    <3>1. value.elements[k] \in Elements(value)
      BY DEF Elements
    <3> QED BY <2>1, <3>1, ElementOf
  <2>3. PICK items \in JsonValues : items = Field(schema, "items")
    BY <2>1, FieldOf
  <2>4. f[<<e, items>>] = g[<<e, items>>]
    BY <2>2 DEF AgreeBelow
  <2>5. f[<<e, items>>]
    BY <1>1, <2>1, <2>2, <2>3, Zenon DEF ElementsSatisfy
  <2> QED BY <2>2, <2>3, <2>4, <2>5, Zenon
<1> QED BY <1>1, <1>2, <1>3, SatisfiedParts

LEMMA SatisfiesIs ==
    \E f : /\ IsMeaning(f)
           /\ \A v, s \in JsonValues :
                 /\ Satisfies(v, s) <=> f[<<v, s>>]
                 /\ f[<<v, s>>] <=> Satisfied(f, v, s)
<1>1. PICK rank \in [Pairs -> Nat] :
         \A v, s \in JsonValues : <<v, s>> \in Pairs /\ rank[<<v, s>>] = Depth[v]
  BY Ranks
<1>2. PICK step : step = [f \in [Pairs -> BOOLEAN] |->
                             [p \in Pairs |-> Satisfied(f, p[1], p[2])]]
  OBVIOUS
<1>3. step \in [[Pairs -> BOOLEAN] -> [Pairs -> BOOLEAN]]
  BY <1>2, SatisfiedType
<1>4. LooksBelow(step, Pairs, BOOLEAN, rank)
  <2> SUFFICES ASSUME NEW p \in Pairs, NEW f \in [Pairs -> BOOLEAN],
                      NEW g \in [Pairs -> BOOLEAN],
                      \A q \in Pairs : rank[q] < rank[p] => f[q] = g[q]
               PROVE  step[f][p] = step[g][p]
    BY DEF LooksBelow
  <2>1. AgreeBelow(f, g, p[1]) /\ AgreeBelow(g, f, p[1])
    <3>1. AgreeBelow(f, g, p[1])
      BY <1>1, AgreeingBelow
    <3> QED BY <3>1 DEF AgreeBelow
  <2>2. p[1] \in JsonValues /\ p[2] \in JsonValues
    BY DEF Pairs
  <2>3. Satisfied(f, p[1], p[2]) <=> Satisfied(g, p[1], p[2])
    BY <2>1, <2>2, SatisfiedLooksBelow
  <2>4. step[f][p] = Satisfied(f, p[1], p[2]) /\ step[g][p] = Satisfied(g, p[1], p[2])
    BY <1>2, Zenon
  <2>5. Satisfied(f, p[1], p[2]) = Satisfied(g, p[1], p[2])
    <3>1. PICK a \in BOOLEAN, b \in BOOLEAN :
             a = Satisfied(f, p[1], p[2]) /\ b = Satisfied(g, p[1], p[2])
      BY SatisfiedType
    <3>2. a <=> b
      BY <2>3, <3>1, Zenon
    <3>3. a = b
      BY <3>2
    <3> QED BY <3>1, <3>3
  <2> QED BY <2>4, <2>5
<1>5. PICK f \in [Pairs -> BOOLEAN] : f = step[f]
  <2>1. Recurses(step, Pairs, BOOLEAN, rank)
    BY <1>1, <1>3, <1>4 DEF Recurses
  <2> QED BY <2>1, Recursion
<1>6. IsMeaning(f)
  BY <1>2, <1>5, Zenon DEF IsMeaning, Pairs
<1>7. PICK g : g = CHOOSE h : IsMeaning(h)
  OBVIOUS
<1>8. IsMeaning(g)
  BY <1>6, <1>7
<1>9. ASSUME NEW v \in JsonValues, NEW s \in JsonValues
      PROVE  /\ Satisfies(v, s) <=> g[<<v, s>>]
             /\ g[<<v, s>>] <=> Satisfied(g, v, s)
  <2>1. Satisfies(v, s) <=> g[<<v, s>>]
    BY <1>7, Zenon DEF Satisfies, IsMeaning
  <2>2. g[<<v, s>>] <=> Satisfied(g, v, s)
    <3>1. PICK p : p = <<v, s>>
      OBVIOUS
    <3>0. p \in JsonValues \X JsonValues /\ p[1] = v /\ p[2] = s
      BY <3>1
    <3>2. g[p] = Satisfied(g, p[1], p[2])
      BY <1>8, <3>0, Zenon DEF IsMeaning
    <3> QED BY <3>0, <3>1, <3>2, Zenon
  <2> QED BY <2>1, <2>2
<1> QED BY <1>8, <1>9

(***************************************************************************)
(* What the client accepts as a schema.                                    *)
(***************************************************************************)
LEMMA SubschemaOf ==
    ASSUME NEW schema \in JsonValues, NEW subschema \in Subschemas(schema)
    PROVE  subschema \in JsonValues /\ Depth[subschema] < Depth[schema]
<1>1. CASE Has(schema, "properties") /\ subschema \in Parts(Field(schema, "properties"))
  <2>1. PICK named \in JsonValues :
           named = Field(schema, "properties") /\ Depth[named] < Depth[schema]
    BY <1>1, FieldOf
  <2>2. subschema \in JsonValues /\ Depth[subschema] < Depth[named]
    BY <1>1, <2>1, PartOf
  <2>3. Depth[schema] \in Nat /\ Depth[named] \in Nat /\ Depth[subschema] \in Nat
    BY <2>1, <2>2, DepthIs
  <2> QED BY <2>1, <2>2, <2>3
<1>2. CASE Has(schema, "items") /\ subschema = Field(schema, "items")
  BY <1>2, FieldOf
<1>3. CASE /\ Has(schema, "additionalProperties")
           /\ subschema = Field(schema, "additionalProperties")
  BY <1>3, FieldOf
<1> QED BY <1>1, <1>2, <1>3 DEF Subschemas

IsAcceptance(f) ==
    f = [s \in JsonValues |->
            AcceptedAlone(s) /\ \A subschema \in Subschemas(s) : f[subschema]]

LEMMA AcceptsIs ==
    \E f : /\ IsAcceptance(f)
           /\ \A s \in JsonValues : DefinitionOK(s) <=> f[s]
<1>1. PICK step : step = [f \in [JsonValues -> BOOLEAN] |->
                             [s \in JsonValues |->
                                 AcceptedAlone(s) /\ \A subschema \in Subschemas(s) : f[subschema]]]
  OBVIOUS
<1>2. step \in [[JsonValues -> BOOLEAN] -> [JsonValues -> BOOLEAN]]
  BY <1>1
<1>3. LooksBelow(step, JsonValues, BOOLEAN, Depth)
  <2> SUFFICES ASSUME NEW s \in JsonValues, NEW f \in [JsonValues -> BOOLEAN],
                      NEW g \in [JsonValues -> BOOLEAN],
                      \A y \in JsonValues : Depth[y] < Depth[s] => f[y] = g[y]
               PROVE  step[f][s] = step[g][s]
    BY DEF LooksBelow
  <2>1. \A subschema \in Subschemas(s) : f[subschema] = g[subschema]
    BY SubschemaOf
  <2> QED BY <1>1, <2>1
<1>4. PICK f \in [JsonValues -> BOOLEAN] : f = step[f]
  <2>1. Recurses(step, JsonValues, BOOLEAN, Depth)
    BY <1>2, <1>3, JsonAssumption DEF Recurses
  <2> QED BY <2>1, Recursion
<1>5. IsAcceptance(f)
  BY <1>1, <1>4, Zenon DEF IsAcceptance
<1>6. PICK g : g = CHOOSE h : IsAcceptance(h)
  OBVIOUS
<1>7. IsAcceptance(g)
  BY <1>5, <1>6
<1>8. ASSUME NEW s \in JsonValues PROVE DefinitionOK(s) <=> g[s]
  BY <1>6, Zenon DEF DefinitionOK, IsAcceptance
<1> QED BY <1>7, <1>8

\* A schema is accepted if it is by itself and all inside it are.
LEMMA Accepted ==
    ASSUME NEW schema \in JsonValues
    PROVE  DefinitionOK(schema) <=>
               /\ AcceptedAlone(schema)
               /\ \A subschema \in Subschemas(schema) : DefinitionOK(subschema)
<1>1. PICK f : IsAcceptance(f) /\ \A s \in JsonValues : DefinitionOK(s) <=> f[s]
  BY AcceptsIs
<1>2. f[schema] <=> AcceptedAlone(schema) /\ \A subschema \in Subschemas(schema) : f[subschema]
  BY <1>1, Zenon DEF IsAcceptance
<1>3. \A subschema \in Subschemas(schema) : DefinitionOK(subschema) <=> f[subschema]
  BY <1>1, SubschemaOf, Zenon
<1> QED BY <1>1, <1>2, <1>3, Zenon

(***************************************************************************)
(* The checks, of an accepted schema.                                      *)
(***************************************************************************)
\* The check does not throw and says whether holds.
Meets(check, holds) == check \in {"valid", "invalid"} /\ (check = "valid" <=> holds)

LEMMA EachIs ==
    ASSUME NEW checks, checks \subseteq {"valid", "invalid"}
    PROVE  Meets(Each(checks), \A check \in checks : check = "valid")
BY DEF Meets, Each

TypeMeets(value, schema) ==
    \/ ~Has(schema, "type")
    \/ Field(schema, "type") = String(value.kind)
    \/ Field(schema, "type") = String("number") /\ value.kind = "integer"

EnumMeets(value, schema) ==
    Has(schema, "enum") => \E e \in Elements(Field(schema, "enum")) : e = value

RequiredMeets(value, schema) ==
    value.kind = "object" =>
          (Has(schema, "required") =>
                \A k \in DOMAIN Field(schema, "required").elements :
                    Field(schema, "required").elements[k].scalar \in DOMAIN value.members)

LEMMA TypeIsChecked ==
    ASSUME NEW value \in JsonValues, NEW schema \in JsonValues, AcceptedAlone(schema)
    PROVE  Meets(CheckType(value, schema), TypeMeets(value, schema))
<1> SUFFICES ASSUME Has(schema, "type")
             PROVE  Meets(CheckType(value, schema), TypeMeets(value, schema))
  BY DEF Meets, CheckType, TypeMeets
<1>1. PICK type \in JsonValues : type = Field(schema, "type")
  BY FieldOf
<1>2. type.kind = "string"
  BY <1>1 DEF AcceptedAlone
<1>3. PICK t : t = type.scalar /\ type = [kind |-> "string", scalar |-> t]
  BY <1>2, ScalarIs DEF Scalar
<1>4. CheckType(value, schema) = When(HasType(value, t))
  BY <1>1, <1>2, <1>3 DEF CheckType
<1>5. \A other : type = String(other) <=> t = other
  BY <1>3 DEF String, Scalar
<1>6. TypeMeets(value, schema) <=> HasType(value, t)
  BY <1>1, <1>5 DEF TypeMeets, HasType
<1> QED BY <1>4, <1>6 DEF Meets, When

LEMMA EnumIsChecked ==
    ASSUME NEW value \in JsonValues, NEW schema \in JsonValues, AcceptedAlone(schema)
    PROVE  Meets(CheckEnum(value, schema), EnumMeets(value, schema))
BY DEF Meets, CheckEnum, EnumMeets, AcceptedAlone, Candidates, When

LEMMA RequiredIsChecked ==
    ASSUME NEW value \in JsonValues, NEW schema \in JsonValues, AcceptedAlone(schema)
    PROVE  Meets(CheckRequired(value, schema), RequiredMeets(value, schema))
<1> SUFFICES ASSUME value.kind = "object", Has(schema, "required")
             PROVE  Meets(CheckRequired(value, schema), RequiredMeets(value, schema))
  BY DEF Meets, CheckRequired, RequiredMeets
<1>1. PICK required : required = Field(schema, "required")
  OBVIOUS
<1>2. required.kind = "array" /\ \A name \in Elements(required) : name.kind = "string"
  BY <1>1 DEF AcceptedAlone, IsName
<1>3. PICK checks : checks = {When(Has(value, name.scalar)) : name \in Elements(required)}
  OBVIOUS
<1>4. checks = {IF name.kind # "string" THEN "throws" ELSE When(Has(value, name.scalar))
                : name \in Elements(required)}
  BY <1>2, <1>3
<1>5. CheckRequired(value, schema) = Each(checks)
  BY <1>1, <1>2, <1>4 DEF CheckRequired
<1>6. checks \subseteq {"valid", "invalid"}
  BY <1>3 DEF When
<1>7. (\A check \in checks : check = "valid")
      <=> \A name \in Elements(required) : Has(value, name.scalar)
  BY <1>3 DEF When
<1>8. (\A name \in Elements(required) : Has(value, name.scalar))
      <=> RequiredMeets(value, schema)
  BY <1>1 DEF RequiredMeets, Elements, Has
<1> QED BY <1>5, <1>6, <1>7, <1>8, EachIs DEF Meets

\* f says of every value less deep than value what g does.
MeetBelow(f, g, value) ==
    \A v, s \in JsonValues :
        Depth[v] < Depth[value] /\ DefinitionOK(s) => Meets(f[<<v, s>>], g[<<v, s>>])

LEMMA ItemsAreChecked ==
    ASSUME NEW f, NEW g, NEW value \in JsonValues, NEW schema \in JsonValues,
           DefinitionOK(schema), MeetBelow(f, g, value)
    PROVE  Meets(CheckItems(f, value, schema), ElementsSatisfy(g, value, schema))
<1> SUFFICES ASSUME value.kind = "array", Has(schema, "items")
             PROVE  Meets(CheckItems(f, value, schema), ElementsSatisfy(g, value, schema))
  BY DEF Meets, CheckItems, ElementsSatisfy
<1>1. PICK items \in JsonValues : items = Field(schema, "items") /\ DefinitionOK(items)
  BY FieldOf, Accepted DEF Subschemas
<1>2. ASSUME NEW e \in Elements(value) PROVE Meets(f[<<e, items>>], g[<<e, items>>])
  BY <1>1, ElementOf DEF MeetBelow
<1>3. PICK checks : checks = {f[<<e, items>>] : e \in Elements(value)}
  OBVIOUS
<1>4. checks \subseteq {"valid", "invalid"}
  BY <1>2, <1>3 DEF Meets
<1>5. (\A check \in checks : check = "valid") <=> \A e \in Elements(value) : g[<<e, items>>]
  BY <1>2, <1>3 DEF Meets
<1>6. (\A e \in Elements(value) : g[<<e, items>>]) <=> ElementsSatisfy(g, value, schema)
  BY <1>1, Zenon DEF ElementsSatisfy, Elements
<1>7. CheckItems(f, value, schema) = Each(checks)
  BY <1>1, <1>3 DEF CheckItems
<1> QED BY <1>4, <1>5, <1>6, <1>7, EachIs DEF Meets

PropertiesMeet(g, value, schema) ==
    value.kind = "object" /\ Has(schema, "properties") =>
        \A key \in DOMAIN value.members :
            Has(Field(schema, "properties"), key) =>
                g[<<Field(value, key), Field(Field(schema, "properties"), key)>>]

AdditionalMeet(g, value, schema) ==
    value.kind = "object" =>
        \A key \in Undeclared(value, schema) :
            \/ ~Has(schema, "additionalProperties")
            \/ Field(schema, "additionalProperties") = Scalar("boolean", "true")
            \/ /\ Field(schema, "additionalProperties").kind = "object"
               /\ g[<<Field(value, key), Field(schema, "additionalProperties")>>]

LEMMA MembersAre ==
    ASSUME NEW g, NEW value, NEW schema
    PROVE  MembersSatisfy(g, value, schema)
           <=> PropertiesMeet(g, value, schema) /\ AdditionalMeet(g, value, schema)
BY Zenon DEF MembersSatisfy, MemberSatisfies, PropertiesMeet, AdditionalMeet, Undeclared

LEMMA PropertiesAreChecked ==
    ASSUME NEW f, NEW g, NEW value \in JsonValues, NEW schema \in JsonValues,
           DefinitionOK(schema), MeetBelow(f, g, value)
    PROVE  Meets(CheckProperties(f, value, schema), PropertiesMeet(g, value, schema))
<1> SUFFICES ASSUME value.kind = "object", Has(schema, "properties")
             PROVE  Meets(CheckProperties(f, value, schema), PropertiesMeet(g, value, schema))
  BY DEF Meets, CheckProperties, PropertiesMeet
<1>1. PICK named \in JsonValues : named = Field(schema, "properties")
  BY FieldOf
<1>2. named.kind = "object" /\ \A part \in Parts(named) : DefinitionOK(part)
  BY <1>1, Accepted DEF AcceptedAlone, Subschemas
<1>3. PICK keys : keys = DOMAIN value.members \cap DOMAIN named.members
  OBVIOUS
<1>4. ASSUME NEW key \in keys
      PROVE  Meets(f[<<Field(value, key), Field(named, key)>>],
                   g[<<Field(value, key), Field(named, key)>>])
  <2>1. Has(value, key) /\ Has(named, key)
    BY <1>2, <1>3 DEF Has
  <2>2. PICK v \in JsonValues, s \in JsonValues :
           /\ v = Field(value, key) /\ Depth[v] < Depth[value]
           /\ s = Field(named, key) /\ DefinitionOK(s)
    BY <1>2, <2>1, FieldOf
  <2>3. Meets(f[<<v, s>>], g[<<v, s>>])
    BY <2>2 DEF MeetBelow
  <2> QED BY <2>2, <2>3
<1>5. PICK checks : checks = {f[<<Field(value, key), Field(named, key)>>] : key \in keys}
  OBVIOUS
<1>6. checks \subseteq {"valid", "invalid"}
  BY <1>4, <1>5 DEF Meets
<1>7. (\A check \in checks : check = "valid")
      <=> \A key \in keys : g[<<Field(value, key), Field(named, key)>>]
  BY <1>4, <1>5 DEF Meets
<1>8. \A key : key \in keys <=> key \in DOMAIN value.members /\ Has(named, key)
  BY <1>2, <1>3 DEF Has
<1>9. (\A key \in keys : g[<<Field(value, key), Field(named, key)>>])
      <=> PropertiesMeet(g, value, schema)
  BY <1>1, <1>8, Zenon DEF PropertiesMeet
<1>10. CheckProperties(f, value, schema) = Each(checks)
  BY <1>1, <1>2, <1>3, <1>5 DEF CheckProperties
<1> QED BY <1>6, <1>7, <1>9, <1>10, EachIs DEF Meets

LEMMA AdditionalIsChecked ==
    ASSUME NEW f, NEW g, NEW value \in JsonValues, NEW schema \in JsonValues,
           DefinitionOK(schema), MeetBelow(f, g, value)
    PROVE  Meets(CheckAdditional(f, value, schema), AdditionalMeet(g, value, schema))
<1> SUFFICES ASSUME value.kind = "object", Has(schema, "additionalProperties")
             PROVE  Meets(CheckAdditional(f, value, schema), AdditionalMeet(g, value, schema))
  BY DEF Meets, CheckAdditional, AdditionalMeet
<1>1. PICK more \in JsonValues : more = Field(schema, "additionalProperties")
  BY FieldOf
<1>2. PICK keys : keys = Undeclared(value, schema)
  OBVIOUS
<1>3. CASE more.kind = "boolean"
  <2>1. more = Scalar("boolean", more.scalar)
    BY <1>3, ScalarIs
  <2>2. more = Scalar("boolean", "true") <=> more.scalar = "true"
    BY <2>1 DEF Scalar
  <2>3. CheckAdditional(f, value, schema) = When(more.scalar = "true" \/ keys = {})
    BY <1>1, <1>2, <1>3 DEF CheckAdditional
  <2>4. AdditionalMeet(g, value, schema) <=> (more.scalar = "true" \/ keys = {})
    BY <1>1, <1>2, <1>3, <2>2 DEF AdditionalMeet
  <2> QED BY <2>3, <2>4 DEF Meets, When
<1>4. CASE more.kind # "boolean"
  <2>1. DefinitionOK(more) /\ more.kind = "object"
    <3>1. more \in Subschemas(schema)
      BY <1>1, <1>4 DEF Subschemas
    <3> QED BY <3>1, Accepted DEF AcceptedAlone
  <2>2. ASSUME NEW key \in keys
        PROVE  Meets(f[<<Field(value, key), more>>], g[<<Field(value, key), more>>])
    <3>1. Has(value, key)
      BY <1>2 DEF Has, Undeclared
    <3>2. PICK v \in JsonValues : v = Field(value, key) /\ Depth[v] < Depth[value]
      BY <3>1, FieldOf
    <3>3. Meets(f[<<v, more>>], g[<<v, more>>])
      BY <2>1, <3>2 DEF MeetBelow
    <3> QED BY <3>2, <3>3
  <2>3. PICK checks : checks = {f[<<Field(value, key), more>>] : key \in keys}
    OBVIOUS
  <2>4. checks \subseteq {"valid", "invalid"}
    BY <2>2, <2>3 DEF Meets
  <2>5. (\A check \in checks : check = "valid")
        <=> \A key \in keys : g[<<Field(value, key), more>>]
    BY <2>2, <2>3 DEF Meets
  <2>6. more # Scalar("boolean", "true")
    BY <1>4 DEF Scalar
  <2>7. (\A key \in keys : g[<<Field(value, key), more>>]) <=> AdditionalMeet(g, value, schema)
    BY <1>1, <1>2, <2>1, <2>6, Zenon DEF AdditionalMeet
  <2>8. CheckAdditional(f, value, schema) = Each(checks)
    BY <1>1, <1>2, <2>1, <2>3 DEF CheckAdditional
  <2> QED BY <2>4, <2>5, <2>7, <2>8, EachIs DEF Meets
<1> QED BY <1>3, <1>4

\* An accepted schema's validation says what the keywords mean, if it does so
\* of the parts of the value.
LEMMA ValidationMeets ==
    ASSUME NEW f, NEW g, NEW value \in JsonValues, NEW schema \in JsonValues,
           DefinitionOK(schema), MeetBelow(f, g, value)
    PROVE  Meets(Validation(f, value, schema), Satisfied(g, value, schema))
<1>1. PICK a, b, c, d, e, i :
         /\ a = CheckType(value, schema) /\ b = CheckEnum(value, schema)
         /\ c = CheckRequired(value, schema) /\ d = CheckProperties(f, value, schema)
         /\ e = CheckAdditional(f, value, schema) /\ i = CheckItems(f, value, schema)
  OBVIOUS
<1>2. /\ Meets(a, TypeMeets(value, schema)) /\ Meets(b, EnumMeets(value, schema))
      /\ Meets(c, RequiredMeets(value, schema)) /\ Meets(d, PropertiesMeet(g, value, schema))
      /\ Meets(e, AdditionalMeet(g, value, schema))
      /\ Meets(i, ElementsSatisfy(g, value, schema))
  BY <1>1, Accepted, TypeIsChecked, EnumIsChecked, RequiredIsChecked, PropertiesAreChecked,
     AdditionalIsChecked, ItemsAreChecked
<1>3. PICK checks : checks = <<a, b, c, d, e, i>>
  OBVIOUS
<1>4. checks \in Seq({"valid", "invalid"})
  BY <1>2, <1>3 DEF Meets
<1>5. (\A k \in DOMAIN checks : checks[k] = "valid")
      <=> a = "valid" /\ b = "valid" /\ c = "valid" /\ d = "valid" /\ e = "valid" /\ i = "valid"
  BY <1>3
<1>6. Validation(f, value, schema) = First(checks)
  BY <1>1, <1>3, Zenon DEF Validation
<1>7. Meets(First(checks), \A k \in DOMAIN checks : checks[k] = "valid")
  BY <1>4, FirstIs DEF Meets, When
<1>8. SatisfiedAlone(value, schema)
      <=> TypeMeets(value, schema) /\ EnumMeets(value, schema) /\ RequiredMeets(value, schema)
  BY Zenon DEF SatisfiedAlone, TypeMeets, EnumMeets, RequiredMeets
<1>9. Satisfied(g, value, schema)
      <=> a = "valid" /\ b = "valid" /\ c = "valid" /\ d = "valid" /\ e = "valid" /\ i = "valid"
  BY <1>2, <1>8, SatisfiedParts, MembersAre, Zenon DEF Meets
<1> QED BY <1>5, <1>6, <1>7, <1>9, Zenon DEF Meets

LEMMA ValidationIsRight ==
    ASSUME NEW value \in JsonValues, NEW schema \in JsonValues, DefinitionOK(schema)
    PROVE  Validate(value, schema) = When(Satisfies(value, schema))
<1>1. PICK f : \A v, s \in JsonValues :
                  Validate(v, s) = f[<<v, s>>] /\ f[<<v, s>>] = Validation(f, v, s)
  BY ValidateIs
<1>2. PICK g : \A v, s \in JsonValues :
                  /\ Satisfies(v, s) <=> g[<<v, s>>]
                  /\ g[<<v, s>>] <=> Satisfied(g, v, s)
  BY SatisfiesIs
<1>3. PICK T : T = {v \in JsonValues : \A s \in JsonValues :
                       DefinitionOK(s) => Meets(f[<<v, s>>], g[<<v, s>>])}
  OBVIOUS
<1>4. ASSUME NEW v \in JsonValues, \A y \in JsonValues : Depth[y] < Depth[v] => y \in T
      PROVE  v \in T
  <2>1. MeetBelow(f, g, v)
    BY <1>3, <1>4, Zenon DEF MeetBelow
  <2>2. ASSUME NEW s \in JsonValues, DefinitionOK(s) PROVE Meets(f[<<v, s>>], g[<<v, s>>])
    <3>1. Meets(Validation(f, v, s), Satisfied(g, v, s))
      BY <2>1, <2>2, ValidationMeets
    <3> QED BY <1>1, <1>2, <3>1, Zenon DEF Meets
  <2> QED BY <1>3, <2>2, Zenon
<1>5. value \in T
  <2>1. Depth \in [JsonValues -> Nat]
    BY JsonAssumption
  <2> QED BY <1>4, <2>1, RankInduction
<1>6. Meets(f[<<value, schema>>], g[<<value, schema>>])
  BY <1>3, <1>5, Zenon
<1>7. Meets(Validate(value, schema), Satisfies(value, schema))
  BY <1>1, <1>2, <1>6, Zenon DEF Meets
<1> QED BY <1>7 DEF Meets, When

LEMMA ToolsTakeObjects ==
    ASSUME NEW schema \in JsonValues, NEW value \in JsonValues,
           ToolSpecOK(SpecWith(schema)), Validate(value, schema) = "valid"
    PROVE  value.kind = "object"
<1>1. DefinitionOK(schema) /\ Has(schema, "type") /\ Field(schema, "type") = String("object")
  BY DEF ToolSpecOK, SpecWith, IsObjectSchema
<1>2. Satisfies(value, schema)
  BY <1>1, ValidationIsRight DEF When
<1>3. PICK g : \A v, s \in JsonValues :
                  /\ Satisfies(v, s) <=> g[<<v, s>>]
                  /\ g[<<v, s>>] <=> Satisfied(g, v, s)
  BY SatisfiesIs
<1>4. SatisfiedAlone(value, schema)
  BY <1>2, <1>3, SatisfiedParts, Zenon
<1>5. \/ String("object") = String(value.kind)
      \/ String("object") = String("number")
  BY <1>1, <1>4, Zenon DEF SatisfiedAlone
<1> QED BY <1>5 DEF String, Scalar

LEMMA ArgumentsAreMet ==
    ASSUME NEW schema \in ToolSchemas PROVE ArgumentsMeetSchema(schema, Arguments)
<1>1. schema \in JsonValues /\ Arguments \subseteq JsonValues
  BY InputsAssumption
<1>2. ASSUME DefinitionOK(schema), NEW value \in Arguments
      PROVE  Validate(value, schema) = When(Satisfies(value, schema))
  BY <1>1, <1>2, ValidationIsRight
<1>3. ASSUME ToolSpecOK(SpecWith(schema))
      PROVE  /\ FunctionToolOK(SpecWith(schema))
             /\ \A value \in Arguments :
                   Validate(value, schema) = "valid" => value.kind = "object"
  <2>1. AcceptedAlone(schema)
    BY <1>1, <1>3, Accepted DEF ToolSpecOK, SpecWith
  <2>2. FunctionToolOK(SpecWith(schema))
    BY <1>3, <2>1 DEF ToolSpecOK, FunctionToolOK, SpecWith, AcceptedAlone
  <2>3. \A value \in Arguments : Validate(value, schema) = "valid" => value.kind = "object"
    BY <1>1, <1>3, ToolsTakeObjects
  <2> QED BY <2>2, <2>3
<1> QED BY <1>2, <1>3 DEF ArgumentsMeetSchema

-----------------------------------------------------------------------------
(***************************************************************************)
(* The input of a behavior is one of the constants.                        *)
(***************************************************************************)
Chosen ==
    /\ input.kind = "schema" => input.schema \in ToolSchemas
    /\ input.kind = "bytes" => input.bytes \in ByteStrings
    /\ input.kind = "text" => input.text \in EncodedTexts
    /\ input.kind = "headers" =>
          /\ input.key \in ApiKeys
          /\ \E own \in OwnHeaders(input.key), extra \in ExtraHeaders :
                input.headers = ApplyExtraHeaders(own, extra)
    /\ input.kind = "request" => input.request \in Generations

LEMMA AlwaysChosen == Spec => []Chosen
<1>1. Init => Chosen
  BY DEF Init, None, Chosen
<1>2. Chosen /\ [Next]_input => Chosen'
  <2> SUFFICES ASSUME Chosen, [Next]_input PROVE Chosen'
    OBVIOUS
  <2>1. CASE ChooseSchema
    BY <2>1 DEF ChooseSchema, Chosen
  <2>2. CASE ChooseBytes
    BY <2>2 DEF ChooseBytes, Chosen
  <2>3. CASE ChooseText
    BY <2>3 DEF ChooseText, Chosen
  <2>4. CASE ChooseHeaders
    <3>1. PICK key \in ApiKeys, extra \in ExtraHeaders : \E own \in OwnHeaders(key) :
             input' = [kind |-> "headers", key |-> key,
                       headers |-> ApplyExtraHeaders(own, extra)]
      BY <2>4 DEF ChooseHeaders
    <3>2. PICK own \in OwnHeaders(key) :
             input' = [kind |-> "headers", key |-> key,
                       headers |-> ApplyExtraHeaders(own, extra)]
      BY <3>1
    <3>3. /\ input'.kind = "headers" /\ input'.key = key
          /\ input'.headers = ApplyExtraHeaders(own, extra)
      BY <3>2
    <3> QED BY <3>1, <3>2, <3>3 DEF Chosen
  <2>5. CASE ChooseRequest
    BY <2>5 DEF ChooseRequest, Chosen
  <2>6. CASE UNCHANGED input
    BY <2>6 DEF Chosen
  <2> QED BY <2>1, <2>2, <2>3, <2>4, <2>5, <2>6 DEF Next
<1> QED BY <1>1, <1>2, PTL DEF Spec

\* SchemasAreMet, of any schemas and arguments: what add_tool accepts never makes
\* a validation throw, and validate_value_against_schema, which reads the schema
\* again, accepts exactly the arguments the keywords describe.
THEOREM SchemasMet == Spec => []SchemasAreMet
<1>1. Chosen => SchemasAreMet
  BY ArgumentsAreMet DEF Chosen, SchemasAreMet
<1> QED BY <1>1, AlwaysChosen, PTL

-----------------------------------------------------------------------------
(***************************************************************************)
(* Base64: cutting a sequence into pieces and joining them again.          *)
(***************************************************************************)
Sizes == {3, 4}

\* Where the k-th piece ends, and the one before it.
Start(k, n) == (k - 1) * n
End(k, n, len) == IF k * n < len THEN k * n ELSE len

\* There are m pieces of n, the last of which may be shorter.
Fits(m, n, len) ==
    /\ m * n >= len
    /\ m > 0 => (m - 1) * n < len

LEMMA CountOfPieces ==
    ASSUME NEW n \in Sizes, NEW len \in Nat
    PROVE  /\ (len + n - 1) \div n \in Nat
           /\ Fits((len + n - 1) \div n, n, len)
<1>1. CASE n = 3
  BY <1>1 DEF Fits
<1>2. CASE n = 4
  BY <1>2 DEF Fits
<1> QED BY <1>1, <1>2 DEF Sizes

LEMMA OneCount ==
    ASSUME NEW n \in Sizes, NEW len \in Nat, NEW m \in Nat, Fits(m, n, len)
    PROVE  m = (len + n - 1) \div n
<1>1. CASE n = 3
  BY <1>1 DEF Fits
<1>2. CASE n = 4
  BY <1>2 DEF Fits
<1> QED BY <1>1, <1>2 DEF Sizes

LEMMA EndsOfPieces ==
    ASSUME NEW n \in Sizes, NEW len \in Nat, NEW m \in Nat, Fits(m, n, len), NEW k \in 1..m
    PROVE  /\ Start(k, n) \in Nat /\ End(k, n, len) \in Nat
           /\ Start(k, n) < End(k, n, len) /\ End(k, n, len) <= len
           /\ End(k, n, len) - Start(k, n) \in 1..n
           /\ k < m => End(k, n, len) - Start(k, n) = n
           /\ End(k - 1, n, len) = Start(k, n)
           /\ k = m => End(k, n, len) = len
<1>1. CASE n = 3
  BY <1>1 DEF Fits, Start, End
<1>2. CASE n = 4
  BY <1>2 DEF Fits, Start, End
<1> QED BY <1>1, <1>2 DEF Sizes

\* Sequences of length n, the last one of length 1 to n.
Uniform(u, n) ==
    \A k \in 1..Len(u) : Len(u[k]) \in 1..n /\ (k < Len(u) => Len(u[k]) = n)

LEMMA PiecesAre ==
    ASSUME NEW A, NEW s \in Seq(A), NEW n \in Sizes
    PROVE  \E m \in Nat :
              /\ Fits(m, n, Len(s)) /\ Len(Pieces(s, n)) = m
              /\ Pieces(s, n) \in Seq(Seq(A))
              /\ \A k \in 1..m :
                    /\ Pieces(s, n)[k] = SubSeq(s, Start(k, n) + 1, End(k, n, Len(s)))
                    /\ Len(Pieces(s, n)[k]) = End(k, n, Len(s)) - Start(k, n)
<1>1. PICK len \in Nat : len = Len(s)
  BY LenProperties
<1>2. PICK m \in Nat : m = (len + n - 1) \div n /\ Fits(m, n, len)
  BY CountOfPieces
<1>3. PICK p : p = Pieces(s, n)
  OBVIOUS
<1>4. p = [k \in 1..m |-> SubSeq(s, Start(k, n) + 1, End(k, n, len))]
  BY <1>1, <1>2, <1>3 DEF Pieces, Start, End
<1>5. ASSUME NEW k \in 1..m
      PROVE  /\ SubSeq(s, Start(k, n) + 1, End(k, n, len)) \in Seq(A)
             /\ Len(SubSeq(s, Start(k, n) + 1, End(k, n, len))) = End(k, n, len) - Start(k, n)
  <2>1. PICK a \in Nat, b \in Nat :
           a = Start(k, n) /\ b = End(k, n, len) /\ a < b /\ b <= len
    BY SMTT(40), <1>2, EndsOfPieces
  <2>2. ASSUME NEW i \in (a + 1)..b PROVE s[i] \in A
    <3>1. i \in 1..Len(s)
      BY <1>1, <2>1
    <3> QED BY <3>1, ElementOfSeq
  <2>3. SubSeq(s, a + 1, b) \in Seq(A) /\ Len(SubSeq(s, a + 1, b)) = b - a
    BY <2>1, <2>2, SubSeqProperties
  <2> QED BY <2>1, <2>3
<1>6. p \in Seq(Seq(A)) /\ Len(p) = m
  <2>1. PICK B : B = Seq(A)
    OBVIOUS
  <2>2. DOMAIN p = 1..m /\ p = [k \in 1..m |-> p[k]] /\ \A k \in 1..m : p[k] \in B
    BY <1>4, <1>5, <2>1
  <2> QED BY <2>1, <2>2, MakeSeq
<1> QED BY ZenonT(60), <1>1, <1>2, <1>3, <1>4, <1>5, <1>6

LEMMA PiecesUniform ==
    ASSUME NEW A, NEW s \in Seq(A), NEW n \in Sizes PROVE Uniform(Pieces(s, n), n)
<1>1. PICK m \in Nat : /\ Fits(m, n, Len(s)) /\ Len(Pieces(s, n)) = m
                       /\ \A k \in 1..m : Len(Pieces(s, n)[k]) = End(k, n, Len(s)) - Start(k, n)
  BY PiecesAre
<1>2. Len(s) \in Nat
  BY LenProperties
<1>3. ASSUME NEW k \in 1..m
      PROVE  Len(Pieces(s, n)[k]) \in 1..n /\ (k < m => Len(Pieces(s, n)[k]) = n)
  BY SMTT(40), <1>1, <1>2, EndsOfPieces
<1> QED BY <1>1, <1>3 DEF Uniform

\* The pieces of a sequence join to it.
LEMMA PiecesJoin ==
    ASSUME NEW A, NEW s \in Seq(A), NEW n \in Sizes PROVE FlattenSeq(Pieces(s, n)) = s
<1>1. PICK len \in Nat : len = Len(s)
  BY LenProperties
<1>0. PICK p : p = Pieces(s, n)
  OBVIOUS
<1>2. PICK m \in Nat :
         /\ p \in Seq(Seq(A)) /\ Len(p) = m /\ Fits(m, n, len)
         /\ \A k \in 1..m : p[k] = SubSeq(s, Start(k, n) + 1, End(k, n, len))
  <2>1. \E m \in Nat :
              /\ Fits(m, n, Len(s)) /\ Len(Pieces(s, n)) = m
              /\ Pieces(s, n) \in Seq(Seq(A))
              /\ \A k \in 1..m :
                    /\ Pieces(s, n)[k] = SubSeq(s, Start(k, n) + 1, End(k, n, Len(s)))
                    /\ Len(Pieces(s, n)[k]) = End(k, n, Len(s)) - Start(k, n)
    BY PiecesAre
  <2> QED BY <1>0, <1>1, <2>1
<1>3. PICK f : f = [k \in 0..m |-> SubSeq(s, 1, End(k, n, len))]
  OBVIOUS
<1>4. f[0] = <<>>
  <2>1. End(0, n, len) = 0
    BY DEF End, Sizes
  <2> QED BY <1>3, <2>1, SubSeqEmpty
<1>5. ASSUME NEW k \in 1..m PROVE Joins(k, p, f)
  <2>0. /\ Start(k, n) \in Nat /\ End(k, n, len) \in Nat
        /\ Start(k, n) < End(k, n, len) /\ End(k, n, len) <= len
        /\ End(k - 1, n, len) = Start(k, n)
    <3>1. len \in Nat /\ m \in Nat /\ Fits(m, n, len) /\ k \in 1..m
      BY <1>1, <1>2
    <3> QED BY <3>1, EndsOfPieces
  <2>1. PICK a \in Nat, b \in Nat :
           /\ a = Start(k, n) /\ b = End(k, n, len) /\ a < b /\ b <= len
           /\ End(k - 1, n, len) = a
    BY <2>0
  <2>2. k \in 0..m /\ k - 1 \in 0..m
    OBVIOUS
  <2>3. p[k] = SubSeq(s, a + 1, b) /\ f[k] = SubSeq(s, 1, b) /\ f[k - 1] = SubSeq(s, 1, a)
    BY <1>2, <1>3, <2>1, <2>2
  <2>4. SubSeq(s, 1, a) \o SubSeq(s, a + 1, b) = SubSeq(s, 1, b)
    <3>1. 1 \in 1..(Len(s) + 1) /\ a \in (1 - 1)..Len(s) /\ b \in a..Len(s)
      BY <1>1, <2>1
    <3> QED BY <3>1, ConcatAdjacentSubSeq
  <2> QED BY <2>3, <2>4 DEF Joins
<1>6. FlattenSeq(p) = f[m]
  BY <1>2, <1>4, <1>5, JoinsFlatten DEF JoinsTo
<1>7. f[m] = s
  <2>1. End(m, n, len) = len
    <3>1. CASE m = 0
      BY <1>2, <3>1 DEF Fits, End, Sizes
    <3>2. CASE m # 0
      BY <1>2, <3>2, EndsOfPieces
    <3> QED BY <3>1, <3>2
  <2> QED BY <1>1, <1>3, <2>1, SubSeqFull
<1> QED BY <1>0, <1>6, <1>7

LEMMA StartIs ==
    ASSUME NEW n \in Sizes, NEW k \in Nat
    PROVE  /\ Start(1, n) = 0
           /\ Start(k + 1, n) \in Nat /\ Start(k + 1 + 1, n) = Start(k + 1, n) + n
<1>1. CASE n = 3
  BY <1>1 DEF Start
<1>2. CASE n = 4
  BY <1>2 DEF Start
<1> QED BY <1>1, <1>2 DEF Sizes

\* What the first k sequences join to, as long as all of them are full.
LEMMA JoinedLengths ==
    ASSUME NEW A, NEW u \in Seq(Seq(A)), NEW n \in Sizes, Uniform(u, n), NEW f,
           JoinsTo(Len(u), u, f), \A k \in 0..Len(u) : f[k] \in Seq(A), NEW k \in 1..Len(u)
    PROVE  /\ Len(f[k - 1]) = Start(k, n) /\ Start(k, n) \in Nat
           /\ Len(f[k]) = Start(k, n) + Len(u[k])
<1>1. PICK m \in Nat : m = Len(u)
  BY LenProperties
<1>2. ASSUME NEW j \in 1..m
      PROVE  /\ j - 1 \in 0..m /\ f[j - 1] \in Seq(A) /\ u[j] \in Seq(A)
             /\ f[j] = f[j - 1] \o u[j] /\ Len(f[j]) = Len(f[j - 1]) + Len(u[j])
             /\ Len(f[j - 1]) \in Nat /\ Len(u[j]) \in Nat
  <2>1. f[j - 1] \in Seq(A) /\ u[j] \in Seq(A) /\ j - 1 \in 0..m
    BY <1>1, ElementOfSeq
  <2>2. f[j] = f[j - 1] \o u[j]
    BY <1>1 DEF JoinsTo, Joins
  <2>3. Len(f[j - 1]) \in Nat /\ Len(u[j]) \in Nat
    BY <2>1, LenProperties
  <2>4. Len(f[j - 1] \o u[j]) = Len(f[j - 1]) + Len(u[j])
    BY <2>1, ConcatProperties
  <2> QED BY <2>1, <2>2, <2>3, <2>4
<1>3. PICK T : T = {j \in Nat : j < m => Len(f[j]) = Start(j + 1, n)}
  OBVIOUS
<1>4. 0 \in T
  <2>1. f[0] = <<>> /\ Start(1, n) = 0
    BY StartIs DEF JoinsTo
  <2> QED BY <1>3, <2>1, EmptySeq
<1>5. ASSUME NEW j \in Nat, j \in T PROVE j + 1 \in T
  <2>1. SUFFICES ASSUME j + 1 < m PROVE Len(f[j + 1]) = Start(j + 1 + 1, n)
    BY <1>3
  <2>2. PICK q \in 1..m : q = j + 1 /\ q - 1 = j /\ j < m /\ q < m
    <3>1. j + 1 \in 1..m /\ j + 1 - 1 = j /\ j < m
      BY <1>1, <2>1
    <3> QED BY <2>1, <3>1
  <2>3. Len(f[j]) = Start(q, n) /\ Len(u[q]) = n
    BY <1>1, <1>3, <1>5, <2>2 DEF Uniform
  <2>4. Len(f[q]) = Len(f[q - 1]) + Len(u[q])
    BY <1>2, <2>2
  <2>5. Start(q + 1, n) = Start(q, n) + n
    BY <2>2, StartIs
  <2> QED BY <2>2, <2>3, <2>4, <2>5
<1>6. PICK j \in Nat : j = k - 1 /\ j + 1 = k /\ j < m
  BY <1>1
<1>7. Len(f[j]) = Start(k, n)
  BY <1>3, <1>4, <1>5, <1>6, EveryNumber
<1>8. Start(k, n) \in Nat
  BY <1>6, StartIs
<1> QED BY <1>1, <1>2, <1>6, <1>7, <1>8

LEMMA ConcatFirst ==
    ASSUME NEW A, NEW s \in Seq(A), NEW t \in Seq(A), NEW i \in 1..Len(s)
    PROVE  i \in 1..Len(s \o t) /\ (s \o t)[i] = s[i]
<1>1. PICK m \in Nat : m = Len(s)
  BY LenProperties
<1>2. PICK n \in Nat : n = Len(t)
  BY LenProperties
<1>3. Len(s \o t) = m + n /\ \A k \in 1..m : (s \o t)[k] = s[k]
  BY <1>1, <1>2, ConcatIs
<1>4. i \in 1..m /\ i \in 1..(m + n)
  BY <1>1, <1>2
<1> QED BY <1>3, <1>4

LEMMA ConcatSecond ==
    ASSUME NEW A, NEW s \in Seq(A), NEW t \in Seq(A), NEW i \in 1..Len(t)
    PROVE  (s \o t)[Len(s) + i] = t[i]
<1>1. PICK m \in Nat : m = Len(s)
  BY LenProperties
<1>2. PICK n \in Nat : n = Len(t)
  BY LenProperties
<1>3. \A k \in 1..n : (s \o t)[m + k] = t[k]
  BY <1>1, <1>2, ConcatIs
<1> QED BY <1>1, <1>2, <1>3

\* What is joined first stays where it is.
LEMMA JoinedPrefix ==
    ASSUME NEW A, NEW u \in Seq(Seq(A)), NEW f, JoinsTo(Len(u), u, f),
           \A k \in 0..Len(u) : f[k] \in Seq(A), NEW k \in 0..Len(u), NEW i \in 1..Len(f[k])
    PROVE  FlattenSeq(u)[i] = f[k][i]
<1>1. PICK m \in Nat : m = Len(u) /\ k \in 0..m
  BY LenProperties
<1>2. PICK T : T = {j \in Nat : k + j <= m => /\ i \in 1..Len(f[k + j])
                                              /\ f[k + j][i] = f[k][i]}
  OBVIOUS
<1>3. 0 \in T
  BY <1>1, <1>2
<1>4. ASSUME NEW j \in Nat, j \in T PROVE j + 1 \in T
  <2>1. SUFFICES ASSUME k + (j + 1) <= m
                 PROVE  i \in 1..Len(f[k + (j + 1)]) /\ f[k + (j + 1)][i] = f[k][i]
    BY <1>2
  <2>2. PICK q \in 0..m : q = k + j
    BY <1>1, <2>1
  <2>3. PICK w \in 1..m : w = k + (j + 1) /\ w - 1 = q
    BY <1>1, <2>1, <2>2
  <2>4. i \in 1..Len(f[q]) /\ f[q][i] = f[k][i]
    BY <1>2, <1>4, <2>2
  <2>5. f[w] = f[q] \o u[w]
    BY <1>1, <2>3 DEF JoinsTo, Joins
  <2>6. f[q] \in Seq(A) /\ u[w] \in Seq(A)
    BY <1>1, <2>2, <2>3, ElementOfSeq
  <2>7. i \in 1..Len(f[q] \o u[w]) /\ (f[q] \o u[w])[i] = f[q][i]
    BY ZenonT(60), <2>4, <2>6, ConcatFirst
  <2> QED BY <2>3, <2>4, <2>5, <2>7
<1>5. PICK j \in Nat : k + j = m
  <2>1. m - k \in Nat /\ k + (m - k) = m
    BY <1>1
  <2> QED BY <2>1
<1>6. f[m][i] = f[k][i]
  <2>1. j \in T
    BY <1>3, <1>4, <1>5, EveryNumber
  <2> QED BY <1>1, <1>2, <1>5, <2>1
<1>7. FlattenSeq(u) = f[m]
  BY <1>1, JoinsFlatten
<1> QED BY <1>6, <1>7

\* Sequences that were joined are found again as pieces.
LEMMA JoinedPieces ==
    ASSUME NEW A, NEW u \in Seq(Seq(A)), NEW n \in Sizes, Uniform(u, n)
    PROVE  /\ Pieces(FlattenSeq(u), n) = u
           /\ u = <<>> => FlattenSeq(u) = <<>>
           /\ u # <<>> => Len(FlattenSeq(u)) = Start(Len(u), n) + Len(u[Len(u)])
<1>1. PICK m \in Nat : m = Len(u) /\ (u = <<>> <=> m = 0)
  BY LenProperties, EmptySeq
<1>2. PICK f : /\ \A k \in 0..m : f[k] \in Seq(A)
               /\ JoinsTo(m, u, f) /\ FlattenSeq(u) = f[m]
  BY <1>1, Flattens
<1>3. PICK r \in Seq(A), len \in Nat : r = FlattenSeq(u) /\ len = Len(r)
  BY FlattenType, LenProperties
<1>4. ASSUME NEW k \in 1..m
      PROVE  /\ Len(f[k - 1]) = Start(k, n) /\ Start(k, n) \in Nat
             /\ Len(f[k]) = Start(k, n) + Len(u[k])
             /\ Len(u[k]) \in 1..n /\ (k < m => Len(u[k]) = n)
  <2>1. /\ Len(f[k - 1]) = Start(k, n) /\ Start(k, n) \in Nat
        /\ Len(f[k]) = Start(k, n) + Len(u[k])
    BY <1>1, <1>2, JoinedLengths
  <2> QED BY <1>1, <2>1 DEF Uniform
<1>5. m = 0 => len = 0
  BY <1>2, <1>3, EmptySeq DEF JoinsTo
<1>6. m # 0 => m \in 1..m /\ len = Start(m, n) + Len(u[m])
  BY <1>2, <1>3, <1>4
<1>7. Fits(m, n, len)
  <2>1. CASE m = 0
    BY <1>5, <2>1 DEF Fits, Sizes
  <2>2. CASE m # 0
    <3>1. PICK l \in 1..n : l = Len(u[m])
      BY <1>4, <1>6, <2>2
    <3>2. m * n = Start(m, n) + n
      BY <2>2 DEF Start, Sizes
    <3>3. m * n >= len
      BY <1>6, <2>2, <3>1, <3>2, <1>4 DEF Sizes
    <3>4. (m - 1) * n < len
      <4>1. PICK a \in Nat : a = Start(m, n) /\ (m - 1) * n = a
        BY <1>4, <1>6, <2>2 DEF Start
      <4>2. len = a + l /\ l > 0
        BY <1>6, <2>2, <3>1, <4>1 DEF Sizes
      <4> QED BY <4>1, <4>2
    <3> QED BY <3>3, <3>4 DEF Fits
  <2> QED BY <2>1, <2>2
<1>8. PICK p : p = Pieces(r, n)
  OBVIOUS
<1>9. /\ p \in Seq(Seq(A)) /\ Len(p) = m
      /\ \A k \in 1..m : p[k] = SubSeq(r, Start(k, n) + 1, End(k, n, len))
  <2>1. \E c \in Nat :
              /\ Fits(c, n, Len(r)) /\ Len(Pieces(r, n)) = c
              /\ Pieces(r, n) \in Seq(Seq(A))
              /\ \A k \in 1..c :
                    /\ Pieces(r, n)[k] = SubSeq(r, Start(k, n) + 1, End(k, n, Len(r)))
                    /\ Len(Pieces(r, n)[k]) = End(k, n, Len(r)) - Start(k, n)
    BY ZenonT(60), <1>3, PiecesAre
  <2>2. PICK c \in Nat :
              /\ Fits(c, n, len) /\ Len(p) = c /\ p \in Seq(Seq(A))
              /\ \A k \in 1..c : p[k] = SubSeq(r, Start(k, n) + 1, End(k, n, len))
    BY <1>3, <1>8, <2>1
  <2>3. c = (len + n - 1) \div n /\ m = (len + n - 1) \div n
    BY <1>1, <1>3, <1>7, <2>2, OneCount
  <2> QED BY <2>2, <2>3
<1>10. ASSUME NEW k \in 1..m PROVE p[k] = u[k]
  <2>1. PICK a \in Nat, l \in Nat :
           /\ a = Start(k, n) /\ l = Len(u[k]) /\ l \in 1..n
           /\ Len(f[k - 1]) = a /\ Len(f[k]) = a + l
    <3>1. PICK l \in 1..n : l = Len(u[k])
      BY <1>4
    <3>2. l \in Nat
      BY <3>1 DEF Sizes
    <3> QED BY <1>4, <3>1, <3>2
  <2>2. End(k, n, len) = a + l /\ a + l <= len
    <3>1. len \in Nat /\ m \in Nat /\ Fits(m, n, len) /\ k \in 1..m
      BY <1>1, <1>3, <1>7
    <3>2. /\ End(k, n, len) \in Nat /\ End(k, n, len) <= len
          /\ (k < m => End(k, n, len) - Start(k, n) = n)
          /\ (k = m => End(k, n, len) = len)
      BY <3>1, EndsOfPieces
    <3>3. CASE k < m
      <4>1. l = n /\ n \in Nat
        BY <1>4, <2>1, <3>3 DEF Sizes
      <4> QED BY <2>1, <3>2, <3>3, <4>1
    <3>4. CASE k = m
      BY <1>6, <2>1, <3>1, <3>2, <3>4
    <3> QED BY <3>1, <3>3, <3>4
  <2>3. p[k] = SubSeq(r, a + 1, a + l)
    BY <1>9, <2>1, <2>2
  <2>4. PICK x : x = SubSeq(r, a + 1, a + l)
    OBVIOUS
  <2>5. x \in Seq(A) /\ Len(x) = l /\ \A i \in 1..l : x[i] = r[a + i]
    <3>1. ASSUME NEW i \in (a + 1)..(a + l) PROVE r[i] \in A
      <4>1. i \in 1..Len(r)
        BY <1>3, <2>1, <2>2
      <4> QED BY <4>1, ElementOfSeq
    <3>2. /\ x \in Seq(A) /\ Len(x) = (IF a + 1 <= a + l THEN a + l - (a + 1) + 1 ELSE 0)
          /\ \A i \in 1..(a + l - (a + 1) + 1) : x[i] = r[a + 1 + i - 1]
      <4>1. a + 1 \in Int /\ a + l \in Int
        BY <2>1
      <4> QED BY <2>4, <3>1, <4>1, SubSeqProperties
    <3>3. a + 1 <= a + l /\ a + l - (a + 1) + 1 = l /\ \A i \in 1..l : a + 1 + i - 1 = a + i
      <4>1. a \in Nat /\ l \in Nat /\ l >= 1
        BY <2>1 DEF Sizes
      <4> QED BY <4>1
    <3> QED BY <3>2, <3>3
  <2>6. ASSUME NEW i \in 1..l PROVE r[a + i] = u[k][i]
    <3>1. f[k - 1] \in Seq(A) /\ u[k] \in Seq(A) /\ f[k] = f[k - 1] \o u[k]
      <4>1. k - 1 \in 0..m /\ k \in 1..Len(u)
        BY <1>1
      <4>2. f[k] = f[k - 1] \o u[k]
        BY <1>2 DEF JoinsTo, Joins
      <4> QED BY <1>2, <4>1, <4>2, ElementOfSeq
    <3>2. f[k][a + i] = u[k][i]
      <4>1. PICK s \in Seq(A), t \in Seq(A) : s = f[k - 1] /\ t = u[k]
        BY <3>1
      <4>2. i \in 1..Len(t) /\ Len(s) = a
        BY <2>1, <4>1
      <4>3. (s \o t)[Len(s) + i] = t[i]
        BY <4>2, ConcatSecond
      <4> QED BY <3>1, <4>1, <4>2, <4>3
    <3>3. a + i \in 1..Len(f[k]) /\ k \in 0..m
      BY <2>1, <1>1
    <3>4. FlattenSeq(u)[a + i] = f[k][a + i]
      <4>1. JoinsTo(Len(u), u, f) /\ k \in 0..Len(u) /\ \A j \in 0..Len(u) : f[j] \in Seq(A)
        BY <1>1, <1>2, <3>3
      <4>2. PICK h \in 1..Len(f[k]) : h = a + i
        BY <3>3
      <4>3. FlattenSeq(u)[h] = f[k][h]
        BY <4>1, JoinedPrefix
      <4> QED BY <4>2, <4>3
    <3> QED BY <1>3, <3>2, <3>4
  <2>7. u[k] \in Seq(A)
    BY <1>1, ElementOfSeq
  <2>8. x = u[k]
    BY <2>1, <2>5, <2>6, <2>7, SeqEqual
  <2> QED BY <2>3, <2>4, <2>8
<1>11. p = u
  <2>1. PICK B : B = Seq(A)
    OBVIOUS
  <2>2. p \in Seq(B) /\ u \in Seq(B) /\ Len(p) = Len(u) /\ \A k \in 1..Len(p) : p[k] = u[k]
    BY <1>1, <1>9, <1>10, <2>1
  <2> QED BY <2>2, SeqEqual
<1>12. len = 0 => r = <<>>
  BY <1>3, EmptySeq
<1> QED BY <1>1, <1>3, <1>5, <1>6, <1>8, <1>11, <1>12
-----------------------------------------------------------------------------
(***************************************************************************)
(* Base64: groups of bytes and groups of characters.                       *)
(***************************************************************************)
\* What an encoding consists of.
Encoded == 0..64

\* x cut into the bits above and below c.
Cut(x, c, h, l) == x = h * c + l /\ x \div c = h /\ x % c = l

LEMMA SplitByte ==
    ASSUME NEW x \in Bytes
    PROVE  /\ \E h \in 0..63, l \in 0..3 : Cut(x, 4, h, l)
           /\ \E h \in 0..15, l \in 0..15 : Cut(x, 16, h, l)
           /\ \E h \in 0..3, l \in 0..63 : Cut(x, 64, h, l)
<1> x \in 0..255
  BY DEF Bytes
<1>1. \E h \in 0..63, l \in 0..3 : Cut(x, 4, h, l)
  <2>1. PICK h \in 0..63 : h = x \div 4 /\ h * 4 <= x /\ x < h * 4 + 4
    OBVIOUS
  <2>2. PICK l \in 0..3 : x = h * 4 + l
    <3>1. x - h * 4 \in 0..3 /\ x = h * 4 + (x - h * 4)
      BY <2>1
    <3> QED BY <3>1
  <2>3. (h * 4 + l) % 4 = l
    OBVIOUS
  <2> QED BY <2>1, <2>2, <2>3 DEF Cut
<1>2. \E h \in 0..15, l \in 0..15 : Cut(x, 16, h, l)
  <2>1. PICK h \in 0..15 : h = x \div 16 /\ h * 16 <= x /\ x < h * 16 + 16
    OBVIOUS
  <2>2. PICK l \in 0..15 : x = h * 16 + l
    <3>1. x - h * 16 \in 0..15 /\ x = h * 16 + (x - h * 16)
      BY <2>1
    <3> QED BY <3>1
  <2>3. (h * 16 + l) % 16 = l
    OBVIOUS
  <2> QED BY <2>1, <2>2, <2>3 DEF Cut
<1>3. \E h \in 0..3, l \in 0..63 : Cut(x, 64, h, l)
  <2>1. PICK h \in 0..3 : h = x \div 64 /\ h * 64 <= x /\ x < h * 64 + 64
    OBVIOUS
  <2>2. PICK l \in 0..63 : x = h * 64 + l
    <3>1. x - h * 64 \in 0..63 /\ x = h * 64 + (x - h * 64)
      BY <2>1
    <3> QED BY <3>1
  <2>3. (h * 64 + l) % 64 = l
    OBVIOUS
  <2> QED BY <2>1, <2>2, <2>3 DEF Cut
<1> QED BY <1>1, <1>2, <1>3

LEMMA SplitDigit ==
    ASSUME NEW d \in 0..63
    PROVE  /\ \E h \in 0..3, l \in 0..15 : Cut(d, 16, h, l)
           /\ \E h \in 0..15, l \in 0..3 : Cut(d, 4, h, l)
<1>1. \E h \in 0..3, l \in 0..15 : Cut(d, 16, h, l)
  <2>1. PICK h \in 0..3 : h = d \div 16 /\ h * 16 <= d /\ d < h * 16 + 16
    OBVIOUS
  <2>2. PICK l \in 0..15 : d = h * 16 + l
    <3>1. d - h * 16 \in 0..15 /\ d = h * 16 + (d - h * 16)
      BY <2>1
    <3> QED BY <3>1
  <2>3. (h * 16 + l) % 16 = l
    OBVIOUS
  <2> QED BY <2>1, <2>2, <2>3 DEF Cut
<1>2. \E h \in 0..15, l \in 0..3 : Cut(d, 4, h, l)
  <2>1. PICK h \in 0..15 : h = d \div 4 /\ h * 4 <= d /\ d < h * 4 + 4
    OBVIOUS
  <2>2. PICK l \in 0..3 : d = h * 4 + l
    <3>1. d - h * 4 \in 0..3 /\ d = h * 4 + (d - h * 4)
      BY <2>1
    <3> QED BY <3>1
  <2>3. (h * 4 + l) % 4 = l
    OBVIOUS
  <2> QED BY <2>1, <2>2, <2>3 DEF Cut
<1> QED BY <1>1, <1>2

LEMMA ByteOf6And2 ==
    ASSUME NEW h \in 0..63, NEW l \in 0..3 PROVE \E x \in Bytes : Cut(x, 4, h, l)
<1>1. h * 4 + l \in Bytes
  BY DEF Bytes
<1>2. (h * 4 + l) \div 4 = h
  OBVIOUS
<1>3. (h * 4 + l) % 4 = l
  OBVIOUS
<1> QED BY <1>1, <1>2, <1>3 DEF Cut

LEMMA ByteOf4And4 ==
    ASSUME NEW h \in 0..15, NEW l \in 0..15 PROVE \E x \in Bytes : Cut(x, 16, h, l)
<1>1. h * 16 + l \in Bytes
  BY DEF Bytes
<1>2. (h * 16 + l) \div 16 = h
  OBVIOUS
<1>3. (h * 16 + l) % 16 = l
  OBVIOUS
<1> QED BY <1>1, <1>2, <1>3 DEF Cut

LEMMA ByteOf2And6 ==
    ASSUME NEW h \in 0..3, NEW l \in 0..63 PROVE \E x \in Bytes : Cut(x, 64, h, l)
<1>1. h * 64 + l \in Bytes
  BY DEF Bytes
<1>2. (h * 64 + l) \div 64 = h
  OBVIOUS
<1>3. (h * 64 + l) % 64 = l
  OBVIOUS
<1> QED BY <1>1, <1>2, <1>3 DEF Cut

LEMMA DigitOf2And4 ==
    ASSUME NEW h \in 0..3, NEW l \in 0..15 PROVE \E x \in 0..63 : Cut(x, 16, h, l)
<1>1. h * 16 + l \in 0..63
  BY DEF Bytes
<1>2. (h * 16 + l) \div 16 = h
  OBVIOUS
<1>3. (h * 16 + l) % 16 = l
  OBVIOUS
<1> QED BY <1>1, <1>2, <1>3 DEF Cut

LEMMA DigitOf4And2 ==
    ASSUME NEW h \in 0..15, NEW l \in 0..3 PROVE \E x \in 0..63 : Cut(x, 4, h, l)
<1>1. h * 4 + l \in 0..63
  BY DEF Bytes
<1>2. (h * 4 + l) \div 4 = h
  OBVIOUS
<1>3. (h * 4 + l) % 4 = l
  OBVIOUS
<1> QED BY <1>1, <1>2, <1>3 DEF Cut

LEMMA TupleIs ==
    ASSUME NEW A, NEW s \in Seq(A)
    PROVE  /\ Len(s) = 1 => s = <<s[1]>> /\ s[1] \in A
           /\ Len(s) = 2 => s = <<s[1], s[2]>> /\ s[1] \in A /\ s[2] \in A
           /\ Len(s) = 3 => s = <<s[1], s[2], s[3]>> /\ s[1] \in A /\ s[2] \in A /\ s[3] \in A
           /\ Len(s) = 4 => /\ s = <<s[1], s[2], s[3], s[4]>>
                            /\ s[1] \in A /\ s[2] \in A /\ s[3] \in A /\ s[4] \in A
OBVIOUS

LEMMA Tuples ==
    ASSUME NEW x, NEW y, NEW z
    PROVE  /\ <<x>> \o <<>> \o <<>> = <<x>>
           /\ <<x>> \o <<y>> \o <<>> = <<x, y>>
           /\ <<x>> \o <<y>> \o <<z>> = <<x, y, z>>
<1>1. <<x>> \o <<>> = <<x>>
  OBVIOUS
<1>2. <<x>> \o <<y>> = <<x, y>>
  <2>1. PICK S, s, u : S = {x, y} /\ s = <<x>> /\ u = <<y>>
    OBVIOUS
  <2>2. s \in Seq(S) /\ u \in Seq(S) /\ Len(s) = 1 /\ Len(u) = 1 /\ s[1] = x /\ u[1] = y
    BY <2>1
  <2>3. s \o u \in Seq(S) /\ Len(s \o u) = 2
    BY SMTT(40), <2>2, ConcatProperties
  <2>5. (s \o u)[1] = s[1] /\ (s \o u)[2] = u[1]
    <3>1. 1 \in 1..Len(s) /\ 1 \in 1..Len(u) /\ Len(s) + 1 = 2
      BY <2>2
    <3> QED BY <2>2, <3>1, ConcatFirst, ConcatSecond
  <2>4. s \o u = <<(s \o u)[1], (s \o u)[2]>>
    BY <2>3, TupleIs
  <2> QED BY <2>1, <2>2, <2>4, <2>5
<1>3. <<x, y>> \o <<>> = <<x, y>>
  OBVIOUS
<1>4. <<x, y>> \o <<z>> = <<x, y, z>>
  <2>1. PICK S, s, u : S = {x, y, z} /\ s = <<x, y>> /\ u = <<z>>
    OBVIOUS
  <2>2. /\ s \in Seq(S) /\ u \in Seq(S) /\ Len(s) = 2 /\ Len(u) = 1
        /\ s[1] = x /\ s[2] = y /\ u[1] = z
    BY <2>1
  <2>3. s \o u \in Seq(S) /\ Len(s \o u) = 3
    <3>1. s \o u \in Seq(S) /\ Len(s \o u) = Len(s) + Len(u)
      BY <2>2, ConcatProperties
    <3> QED BY <2>2, <3>1
  <2>5. (s \o u)[1] = s[1] /\ (s \o u)[2] = s[2] /\ (s \o u)[3] = u[1]
    <3>1. 1 \in 1..Len(s) /\ 2 \in 1..Len(s) /\ 1 \in 1..Len(u) /\ Len(s) + 1 = 3
      BY <2>2
    <3> QED BY <2>2, <3>1, ConcatFirst, ConcatSecond
  <2>4. s \o u = <<(s \o u)[1], (s \o u)[2], (s \o u)[3]>>
    BY <2>3, TupleIs
  <2> QED BY <2>1, <2>2, <2>4, <2>5
<1> QED BY <1>1, <1>2, <1>3, <1>4
\* A group of bytes: its characters are those of a group, and give it again.
GroupEncodes(b) ==
    /\ Quantum(b) \in Seq(Encoded) /\ Len(Quantum(b)) = 4
    /\ GroupBytes(Quantum(b)) = b
    /\ GroupOK(Quantum(b), TRUE) /\ (Len(b) = 3 => GroupOK(Quantum(b), FALSE))

LEMMA QuantumIs ==
    ASSUME NEW b \in Seq(Bytes), Len(b) \in 1..3 PROVE GroupEncodes(b)
<1>1. CASE Len(b) = 1
  <2>1. PICK x \in Bytes : b = <<x>>
    BY <1>1, TupleIs
  <2>2. PICK h \in 0..63, l \in 0..3 : Cut(x, 4, h, l)
    BY SplitByte
  <2>3. PICK d \in 0..63 : Cut(d, 16, l, 0)
    <3>1. 0 \in 0..15
      OBVIOUS
    <3> QED BY <3>1, DigitOf2And4
  <2>4. x \div 4 = h /\ x % 4 = l /\ l * 16 = d
    BY <2>2, <2>3 DEF Cut
  <2>5. PICK q : q = Quantum(b)
    OBVIOUS
  <2>6. q = <<h, d, Pad, Pad>>
    BY <1>1, <2>1, <2>4, <2>5 DEF Quantum
  <2>7. GroupBytes(q) = b
    <3>1. h * 4 + d \div 16 = x
      BY <2>2, <2>3 DEF Cut
    <3> QED BY <2>1, <2>6, <3>1, Tuples DEF GroupBytes
  <2>8. GroupOK(q, TRUE) /\ q \in Seq(Encoded) /\ Len(q) = 4
    <3>1. GroupOK(q, TRUE)
      BY <2>3, <2>6 DEF GroupOK, Pad, IsDigit, Cut
    <3>2. q \in Seq(Encoded) /\ Len(q) = 4
      BY <2>3, <2>6 DEF Encoded, Pad
    <3> QED BY <3>1, <3>2
  <2>9. Len(b) # 3
    BY <1>1
  <2> QED BY <2>5, <2>7, <2>8, <2>9, Zenon DEF GroupEncodes
<1>2. CASE Len(b) = 2
  <2>1. PICK x \in Bytes, y \in Bytes : b = <<x, y>>
    BY <1>2, TupleIs
  <2>2. PICK h \in 0..63, l \in 0..3 : Cut(x, 4, h, l)
    BY SplitByte
  <2>3. PICK m \in 0..15, n \in 0..15 : Cut(y, 16, m, n)
    BY SplitByte
  <2>4. PICK d \in 0..63 : Cut(d, 16, l, m)
    BY DigitOf2And4
  <2>5. PICK e \in 0..63 : Cut(e, 4, n, 0)
    <3>1. 0 \in 0..3
      OBVIOUS
    <3> QED BY <3>1, DigitOf4And2
  <2>6. /\ x \div 4 = h /\ x % 4 = l /\ y \div 16 = m /\ y % 16 = n
        /\ l * 16 + m = d /\ n * 4 = e
    BY <2>2, <2>3, <2>4, <2>5 DEF Cut
  <2>7. PICK q : q = Quantum(b)
    OBVIOUS
  <2>8. q = <<h, d, e, Pad>>
    BY <1>2, <2>1, <2>6, <2>7 DEF Quantum
  <2>9. GroupBytes(q) = b
    <3>1. h * 4 + d \div 16 = x /\ (d % 16) * 16 + e \div 4 = y /\ e # Pad
      BY <2>2, <2>3, <2>4, <2>5 DEF Cut, Pad
    <3> QED BY <2>1, <2>8, <3>1, Tuples DEF GroupBytes
  <2>10. GroupOK(q, TRUE) /\ q \in Seq(Encoded) /\ Len(q) = 4
    <3>1. GroupOK(q, TRUE)
      BY <2>5, <2>8 DEF GroupOK, Pad, IsDigit, Cut
    <3>2. q \in Seq(Encoded) /\ Len(q) = 4
      BY <2>5, <2>8 DEF Encoded, Pad
    <3> QED BY <3>1, <3>2
  <2>11. Len(b) # 3
    BY <1>2
  <2> QED BY <2>7, <2>9, <2>10, <2>11, Zenon DEF GroupEncodes
<1>3. CASE Len(b) = 3
  <2>1. PICK x \in Bytes, y \in Bytes, z \in Bytes : b = <<x, y, z>>
    BY <1>3, TupleIs
  <2>2. PICK h \in 0..63, l \in 0..3 : Cut(x, 4, h, l)
    BY SplitByte
  <2>3. PICK m \in 0..15, n \in 0..15 : Cut(y, 16, m, n)
    BY SplitByte
  <2>4. PICK o \in 0..3, p \in 0..63 : Cut(z, 64, o, p)
    BY SplitByte
  <2>5. PICK d \in 0..63 : Cut(d, 16, l, m)
    BY DigitOf2And4
  <2>6. PICK e \in 0..63 : Cut(e, 4, n, o)
    BY DigitOf4And2
  <2>7. /\ x \div 4 = h /\ x % 4 = l /\ y \div 16 = m /\ y % 16 = n
        /\ z \div 64 = o /\ z % 64 = p /\ l * 16 + m = d /\ n * 4 + o = e
    BY <2>2, <2>3, <2>4, <2>5, <2>6 DEF Cut
  <2>8. PICK q : q = Quantum(b)
    OBVIOUS
  <2>9. q = <<h, d, e, p>>
    BY <1>3, <2>1, <2>7, <2>8 DEF Quantum
  <2>10. GroupBytes(q) = b
    <3>1. /\ h * 4 + d \div 16 = x /\ (d % 16) * 16 + e \div 4 = y /\ (e % 4) * 64 + p = z
          /\ e # Pad /\ p # Pad
      BY <2>2, <2>3, <2>4, <2>5, <2>6 DEF Cut, Pad
    <3> QED BY <2>1, <2>9, <3>1, Tuples DEF GroupBytes
  <2>11. GroupOK(q, TRUE) /\ GroupOK(q, FALSE) /\ q \in Seq(Encoded) /\ Len(q) = 4
    <3>1. GroupOK(q, TRUE) /\ GroupOK(q, FALSE)
      BY <2>9 DEF GroupOK, Pad, IsDigit
    <3>2. q \in Seq(Encoded) /\ Len(q) = 4
      BY <2>9 DEF Encoded, Pad
    <3> QED BY <3>1, <3>2
  <2> QED BY <1>3, <2>8, <2>10, <2>11 DEF GroupEncodes
<1> QED BY <1>1, <1>2, <1>3

\* A group of characters that is accepted gives bytes, and these give it again.
GroupDecodes(g, last) ==
    /\ GroupBytes(g) \in Seq(Bytes) /\ Len(GroupBytes(g)) \in 1..3
    /\ ~last => Len(GroupBytes(g)) = 3
    /\ Quantum(GroupBytes(g)) = g

LEMMA GroupBytesAre ==
    ASSUME NEW g \in Seq(Characters), Len(g) = 4, NEW last \in BOOLEAN, GroupOK(g, last)
    PROVE  GroupDecodes(g, last)
<1>1. PICK d1 \in Characters, d2 \in Characters, d3 \in Characters, d4 \in Characters :
         g = <<d1, d2, d3, d4>>
  BY TupleIs
<1>2. /\ d1 \in 0..63 /\ d2 \in 0..63 /\ (d3 \in 0..63 \/ (d3 = Pad /\ d4 = Pad))
      /\ d4 \in 0..63 \/ d4 = Pad
      /\ d4 = Pad => last
      /\ d3 = Pad => d2 % 16 = 0
      /\ d4 = Pad /\ d3 # Pad => d3 % 4 = 0
  BY <1>1 DEF GroupOK, IsDigit, Characters, Pad
<1>3. PICK l \in 0..3, m \in 0..15 : Cut(d2, 16, l, m)
  <2>1. d2 \in 0..63
    BY <1>2
  <2> QED BY <2>1, SplitDigit
<1>4. d2 \div 16 = l /\ d2 % 16 = m /\ d2 = l * 16 + m
  BY <1>3 DEF Cut
<1>5. PICK x \in Bytes : x = d1 * 4 + l /\ x \div 4 = d1 /\ x % 4 = l
  <2>1. d1 \in 0..63
    BY <1>2
  <2>2. PICK x \in Bytes : Cut(x, 4, d1, l)
    BY <2>1, ByteOf6And2
  <2> QED BY <2>2 DEF Cut
<1>6. CASE d3 = Pad
  <2>1. d4 = Pad /\ m = 0 /\ last
    BY <1>2, <1>4, <1>6 DEF Pad
  <2>2. GroupBytes(g) = <<x>>
    BY <1>1, <1>4, <1>5, <1>6, <2>1, Tuples DEF GroupBytes
  <2>3. Quantum(<<x>>) = <<d1, d2, Pad, Pad>>
    <3>1. x \div 4 = d1 /\ (x % 4) * 16 = d2 /\ Len(<<x>>) = 1
      BY <1>4, <1>5, <2>1
    <3> QED BY <3>1 DEF Quantum
  <2>4. <<x>> \in Seq(Bytes) /\ Len(<<x>>) \in 1..3 /\ last
    BY <2>1
  <2>5. g = <<d1, d2, Pad, Pad>>
    BY <1>1, <1>6, <2>1
  <2> QED BY <2>2, <2>3, <2>4, <2>5, Zenon DEF GroupDecodes
<1>7. CASE d3 # Pad /\ d4 = Pad
  <2>1. d3 \in 0..63 /\ last /\ d3 % 4 = 0
    BY <1>2, <1>7
  <2>2. PICK n \in 0..15, o \in 0..3 : Cut(d3, 4, n, o)
    BY <2>1, SplitDigit
  <2>3. d3 \div 4 = n /\ d3 % 4 = o /\ o = 0 /\ d3 = n * 4 + o
    BY <2>1, <2>2 DEF Cut
  <2>4. PICK y \in Bytes : y = m * 16 + n /\ y \div 16 = m /\ y % 16 = n
    <3>1. PICK y \in Bytes : Cut(y, 16, m, n)
      BY ByteOf4And4
    <3> QED BY <3>1 DEF Cut
  <2>5. GroupBytes(g) = <<x, y>>
    BY <1>1, <1>4, <1>5, <1>7, <2>3, <2>4, Tuples DEF GroupBytes
  <2>6. Quantum(<<x, y>>) = <<d1, d2, d3, Pad>>
    <3>1. /\ x \div 4 = d1 /\ (x % 4) * 16 + y \div 16 = d2 /\ (y % 16) * 4 = d3
          /\ Len(<<x, y>>) = 2
      BY <1>4, <1>5, <2>2, <2>3, <2>4
    <3> QED BY <3>1 DEF Quantum
  <2>7. <<x, y>> \in Seq(Bytes) /\ Len(<<x, y>>) \in 1..3 /\ last
    BY <2>1
  <2>8. g = <<d1, d2, d3, Pad>>
    BY <1>1, <1>7
  <2> QED BY <2>5, <2>6, <2>7, <2>8, Zenon DEF GroupDecodes
<1>8. CASE d3 # Pad /\ d4 # Pad
  <2>1. d3 \in 0..63 /\ d4 \in 0..63
    BY <1>2, <1>8
  <2>2. PICK n \in 0..15, o \in 0..3 : Cut(d3, 4, n, o)
    BY <2>1, SplitDigit
  <2>3. d3 \div 4 = n /\ d3 % 4 = o /\ d3 = n * 4 + o
    BY <2>2 DEF Cut
  <2>4. PICK y \in Bytes : y = m * 16 + n /\ y \div 16 = m /\ y % 16 = n
    <3>1. PICK y \in Bytes : Cut(y, 16, m, n)
      BY ByteOf4And4
    <3> QED BY <3>1 DEF Cut
  <2>5. PICK z \in Bytes : z = o * 64 + d4 /\ z \div 64 = o /\ z % 64 = d4
    <3>1. PICK z \in Bytes : Cut(z, 64, o, d4)
      BY <2>1, ByteOf2And6
    <3> QED BY <3>1 DEF Cut
  <2>6. GroupBytes(g) = <<x, y, z>>
    BY <1>1, <1>4, <1>5, <1>8, <2>3, <2>4, <2>5, Tuples DEF GroupBytes
  <2>7. Quantum(<<x, y, z>>) = <<d1, d2, d3, d4>>
    <3>1. /\ x \div 4 = d1 /\ (x % 4) * 16 + y \div 16 = d2
          /\ (y % 16) * 4 + z \div 64 = d3 /\ z % 64 = d4 /\ Len(<<x, y, z>>) = 3
      BY <1>4, <1>5, <2>2, <2>3, <2>4, <2>5
    <3> QED BY <3>1 DEF Quantum
  <2>8. <<x, y, z>> \in Seq(Bytes) /\ Len(<<x, y, z>>) = 3 /\ 3 \in 1..3
    OBVIOUS
  <2> QED BY <1>1, <2>6, <2>7, <2>8, Zenon DEF GroupDecodes
<1> QED BY <1>6, <1>7, <1>8
-----------------------------------------------------------------------------
(***************************************************************************)
(* Base64: whole texts.                                                    *)
(***************************************************************************)
Single(c) == IF c = Blank THEN <<>> ELSE <<c>>
Singles(text) == [k \in DOMAIN text |-> Single(text[k])]

Visible == Characters \ {Blank}

LEMMA SinglesType ==
    ASSUME NEW text \in Seq(Characters)
    PROVE  Singles(text) \in Seq(Seq(Visible)) /\ Compact(text) = FlattenSeq(Singles(text))
<1>1. PICK n \in Nat : n = Len(text) /\ DOMAIN text = 1..n
  BY LenProperties
<1>2. PICK f, V : f = Singles(text) /\ V = Seq(Visible)
  OBVIOUS
<1>3. ASSUME NEW k \in 1..n PROVE f[k] \in V
  <2>1. text[k] \in Characters
    BY <1>1, ElementOfSeq
  <2>2. f[k] = Single(text[k])
    BY <1>1, <1>2 DEF Singles
  <2>3. Single(text[k]) \in Seq(Visible)
    <3>1. CASE text[k] = Blank
      BY <3>1 DEF Single
    <3>2. CASE text[k] # Blank
      <4>1. PICK c \in Visible : c = text[k]
        BY <2>1, <3>2 DEF Visible
      <4> QED BY <3>2, <4>1 DEF Single
    <3> QED BY <3>1, <3>2
  <2> QED BY <1>2, <2>2, <2>3
<1>4. DOMAIN f = 1..n /\ f = [k \in 1..n |-> f[k]]
  BY <1>1, <1>2 DEF Singles
<1>5. f \in Seq(V)
  BY <1>3, <1>4, MakeSeq
<1>6. Compact(text) = FlattenSeq(f)
  BY <1>2 DEF Compact, Singles, Single
<1> QED BY <1>2, <1>5, <1>6

LEMMA CompactType ==
    ASSUME NEW text \in Seq(Characters) PROVE Compact(text) \in Seq(Characters)
<1>1. Compact(text) \in Seq(Visible)
  BY SinglesType, FlattenType
<1>2. \A k \in 1..Len(Compact(text)) : Compact(text)[k] \in Characters
  BY <1>1, ElementOfSeq DEF Visible
<1> QED BY <1>1, <1>2, SubType

\* A text without blanks is as it was.
LEMMA CompactEncoded ==
    ASSUME NEW text \in Seq(Encoded) PROVE Compact(text) = text
<1>1. PICK n \in Nat : n = Len(text) /\ DOMAIN text = 1..n
  BY LenProperties
<1>2. ASSUME NEW k \in 1..n PROVE text[k] \in Characters /\ text[k] # Blank
  <2>1. PICK c \in 0..64 : c = text[k]
    BY <1>1, ElementOfSeq DEF Encoded
  <2>2. c \in 0..66 /\ c # 65
    OBVIOUS
  <2> QED BY <2>1, <2>2 DEF Characters, Blank
<1>3. text \in Seq(Characters)
  BY <1>1, <1>2, SubType
<1>4. PICK s : s = Singles(text)
  OBVIOUS
<1>5. s \in Seq(Seq(Visible)) /\ Compact(text) = FlattenSeq(s)
  BY <1>3, <1>4, SinglesType
<1>6. Len(s) = n
  BY <1>1, <1>4, <1>5 DEF Singles
<1>7. PICK f : f = [k \in 0..n |-> SubSeq(text, 1, k)]
  OBVIOUS
<1>8. ASSUME NEW k \in 1..n PROVE Joins(k, s, f)
  <2>1. s[k] = <<text[k]>>
    BY <1>1, <1>2, <1>4 DEF Singles, Single
  <2>2. k \in 0..n /\ k - 1 \in 0..n
    OBVIOUS
  <2>3. f[k] = SubSeq(text, 1, k) /\ f[k - 1] = SubSeq(text, 1, k - 1)
    BY <1>7, <2>2
  <2>4. SubSeq(text, 1, k - 1) \o SubSeq(text, k - 1 + 1, k) = SubSeq(text, 1, k)
    <3>1. 1 \in 1..(Len(text) + 1) /\ k - 1 \in (1 - 1)..Len(text) /\ k \in (k - 1)..Len(text)
      BY <1>1
    <3> QED BY <3>1, ConcatAdjacentSubSeq
  <2>5. SubSeq(text, k - 1 + 1, k) = <<text[k]>>
    <3>1. k - 1 + 1 = k
      OBVIOUS
    <3>2. PICK x : x = SubSeq(text, k, k)
      OBVIOUS
    <3>3. x \in Seq(Encoded) /\ Len(x) = 1 /\ x[1] = text[k]
      BY <1>1, <3>2, SubSeqProperties, ElementOfSeq
    <3>4. x = <<x[1]>>
      BY <3>3, TupleIs
    <3> QED BY <3>1, <3>2, <3>3, <3>4
  <2> QED BY <2>1, <2>3, <2>4, <2>5 DEF Joins
<1>9. f[0] = <<>> /\ f[n] = text
  <2>1. 0 \in 0..n /\ n \in 0..n
    OBVIOUS
  <2> QED BY <1>1, <1>7, <2>1, SubSeqEmpty, SubSeqFull
<1>10. FlattenSeq(s) = f[n]
  BY <1>5, <1>6, <1>8, <1>9, JoinsFlatten DEF JoinsTo
<1> QED BY <1>5, <1>9, <1>10

\* A sequence that a function is applied to, element by element.
LEMMA Mapped ==
    ASSUME NEW A, NEW B, NEW s \in Seq(A), NEW f, f = [k \in DOMAIN s |-> f[k]],
           \A k \in 1..Len(s) : f[k] \in B
    PROVE  f \in Seq(B) /\ Len(f) = Len(s) /\ DOMAIN f = DOMAIN s /\ DOMAIN s = 1..Len(s)
<1>1. PICK n \in Nat : n = Len(s) /\ DOMAIN s = 1..n
  BY LenProperties
<1>2. DOMAIN f = 1..n /\ f = [k \in 1..n |-> f[k]]
  BY <1>1
<1> QED BY <1>1, <1>2, MakeSeq

Groups(p) == [k \in DOMAIN p |-> Quantum(p[k])]
Taken(g) == [k \in DOMAIN g |-> GroupBytes(g[k])]

LEMMA GroupsAre ==
    ASSUME NEW p \in Seq(Seq(Bytes)), Uniform(p, 3)
    PROVE  /\ Groups(p) \in Seq(Seq(Encoded)) /\ Len(Groups(p)) = Len(p)
           /\ \A k \in 1..Len(p) :
                 /\ Groups(p)[k] = Quantum(p[k]) /\ GroupEncodes(p[k])
                 /\ k < Len(p) => Len(p[k]) = 3
           /\ Uniform(Groups(p), 4)
<1>1. PICK n \in Nat : n = Len(p) /\ DOMAIN p = 1..n
  BY LenProperties
<1>2. PICK u, B : u = Groups(p) /\ B = Seq(Encoded)
  OBVIOUS
<1>3. ASSUME NEW k \in 1..n
      PROVE  /\ u[k] = Quantum(p[k]) /\ GroupEncodes(p[k]) /\ (k < n => Len(p[k]) = 3)
             /\ u[k] \in B /\ Len(u[k]) = 4
  <2>1. p[k] \in Seq(Bytes)
    BY <1>1, ElementOfSeq
  <2>2. Len(p[k]) \in 1..3 /\ (k < n => Len(p[k]) = 3)
    BY <1>1 DEF Uniform
  <2>3. GroupEncodes(p[k])
    BY <2>1, <2>2, QuantumIs
  <2>4. u[k] = Quantum(p[k])
    BY <1>1, <1>2 DEF Groups
  <2> QED BY <1>2, <2>2, <2>3, <2>4 DEF GroupEncodes
<1>4. u = [k \in DOMAIN p |-> u[k]]
  BY <1>2 DEF Groups
<1>5. u \in Seq(B) /\ Len(u) = n
  BY <1>1, <1>3, <1>4, Mapped
<1>6. Uniform(u, 4)
  BY <1>3, <1>5 DEF Uniform
<1> QED BY <1>1, <1>2, <1>3, <1>5, <1>6
LEMMA TakenAre ==
    ASSUME NEW g \in Seq(Seq(Characters)), \A k \in 1..Len(g) : Len(g[k]) = 4,
           \A k \in 1..Len(g) : GroupOK(g[k], k = Len(g))
    PROVE  /\ Taken(g) \in Seq(Seq(Bytes)) /\ Len(Taken(g)) = Len(g)
           /\ \A k \in 1..Len(g) : Taken(g)[k] = GroupBytes(g[k]) /\ Quantum(Taken(g)[k]) = g[k]
           /\ Uniform(Taken(g), 3)
<1>1. PICK n \in Nat : n = Len(g) /\ DOMAIN g = 1..n
  BY LenProperties
<1>2. PICK u, B : u = Taken(g) /\ B = Seq(Bytes)
  OBVIOUS
<1>3. ASSUME NEW k \in 1..n
      PROVE  /\ u[k] = GroupBytes(g[k]) /\ Quantum(u[k]) = g[k] /\ (k < n => Len(u[k]) = 3)
             /\ u[k] \in B /\ Len(u[k]) \in 1..3
  <2>1. g[k] \in Seq(Characters) /\ Len(g[k]) = 4 /\ GroupOK(g[k], k = n)
    BY <1>1, ElementOfSeq
  <2>2. PICK last \in BOOLEAN : last = (k = n)
    OBVIOUS
  <2>3. GroupDecodes(g[k], last)
    BY <2>1, <2>2, GroupBytesAre
  <2>4. u[k] = GroupBytes(g[k])
    BY <1>1, <1>2 DEF Taken
  <2>5. k < n => ~last
    <3>1. SUFFICES ASSUME k < n PROVE ~last
      OBVIOUS
    <3>2. (k = n) = FALSE
      BY <1>1, <3>1
    <3> QED BY <2>2, <3>2
  <2>6. /\ GroupBytes(g[k]) \in Seq(Bytes) /\ Len(GroupBytes(g[k])) \in 1..3
        /\ ~last => Len(GroupBytes(g[k])) = 3
        /\ Quantum(GroupBytes(g[k])) = g[k]
    BY <2>3 DEF GroupDecodes
  <2> QED BY <1>2, <2>4, <2>5, <2>6
<1>4. u = [k \in DOMAIN g |-> u[k]]
  BY <1>2 DEF Taken
<1>5. u \in Seq(B) /\ Len(u) = n
  BY <1>1, <1>3, <1>4, Mapped
<1>6. Uniform(u, 3)
  BY <1>3, <1>5 DEF Uniform
<1> QED BY <1>1, <1>2, <1>3, <1>5, <1>6

LEMMA EncodeIs ==
    ASSUME NEW b \in Seq(Bytes)
    PROVE  \E p \in Seq(Seq(Bytes)) :
              /\ Uniform(p, 3) /\ FlattenSeq(p) = b /\ p = Pieces(b, 3)
              /\ Encode(b) = FlattenSeq(Groups(p))
<1>1. PICK p : p = Pieces(b, 3)
  OBVIOUS
<1>2. 3 \in Sizes
  BY DEF Sizes
<1>3. p \in Seq(Seq(Bytes)) /\ Uniform(p, 3) /\ FlattenSeq(p) = b
  BY <1>1, <1>2, PiecesAre, PiecesUniform, PiecesJoin
<1>4. Encode(b) = FlattenSeq(Groups(p))
  BY <1>1 DEF Encode, Groups
<1> QED BY <1>1, <1>3, <1>4

\* What Decode does with a text that has no blanks left.
Unpacked(c) ==
    IF \/ c = <<>> \/ Len(c) % 4 # 0
       \/ \E k \in DOMAIN Pieces(c, 4) : ~GroupOK(Pieces(c, 4)[k], k = Len(Pieces(c, 4)))
    THEN NoBytes ELSE FlattenSeq(Taken(Pieces(c, 4)))

LEMMA DecodeIs == ASSUME NEW text PROVE Decode(text) = Unpacked(Compact(text))
BY DEF Decode, Unpacked, Taken

LEMMA Multiple ==
    ASSUME NEW m \in Nat, m # 0 PROVE Start(m, 4) + 4 \in Nat /\ (Start(m, 4) + 4) % 4 = 0
                                      /\ Start(m, 4) + 4 # 0
BY DEF Start

LEMMA DecodeEncode ==
    ASSUME NEW b \in Seq(Bytes)
    PROVE  Decode(Encode(b)) = (IF b = <<>> THEN NoBytes ELSE b)
<1>1. PICK p \in Seq(Seq(Bytes)) :
         Uniform(p, 3) /\ FlattenSeq(p) = b /\ Encode(b) = FlattenSeq(Groups(p))
  BY EncodeIs
<1>2. PICK n \in Nat : n = Len(p) /\ DOMAIN p = 1..n /\ (p = <<>> <=> n = 0)
  BY LenProperties, EmptySeq
<1>3. PICK u \in Seq(Seq(Encoded)) : u = Groups(p)
  BY <1>1, GroupsAre
<1>4. /\ Len(u) = n /\ DOMAIN u = 1..n /\ (u = <<>> <=> n = 0) /\ Uniform(u, 4)
      /\ \A k \in 1..n : /\ u[k] = Quantum(p[k]) /\ GroupEncodes(p[k])
                         /\ k < n => Len(p[k]) = 3
  <2>1. /\ Len(u) = n /\ Uniform(u, 4)
        /\ \A k \in 1..n : /\ u[k] = Quantum(p[k]) /\ GroupEncodes(p[k])
                           /\ k < n => Len(p[k]) = 3
    BY <1>1, <1>2, <1>3, GroupsAre
  <2>2. DOMAIN u = 1..Len(u) /\ (u = <<>> <=> Len(u) = 0)
    BY LenProperties, EmptySeq
  <2> QED BY <2>1, <2>2
<1>5. PICK c \in Seq(Encoded) : c = Encode(b) /\ c = FlattenSeq(u)
  BY <1>1, <1>3, FlattenType
<1>6. Decode(Encode(b)) = Unpacked(c)
  BY <1>5, CompactEncoded, DecodeIs
<1>7. /\ Pieces(c, 4) = u /\ (u = <<>> => c = <<>>)
      /\ u # <<>> => Len(c) = Start(Len(u), 4) + Len(u[Len(u)])
  <2>1. 4 \in Sizes
    BY DEF Sizes
  <2> QED BY <1>4, <1>5, <2>1, JoinedPieces
<1>8. CASE n = 0
  <2>1. c = <<>> /\ b = <<>>
    BY <1>1, <1>2, <1>4, <1>7, <1>8, FlattenEmpty
  <2> QED BY <1>6, <2>1 DEF Unpacked
<1>9. CASE n # 0
  <2>1. n \in 1..n
    BY <1>9
  <2>2. Len(c) = Start(n, 4) + 4
    BY <1>4, <1>7, <1>9, <2>1 DEF GroupEncodes
  <2>3. Len(c) % 4 = 0 /\ c # <<>>
    BY <1>9, <2>2, Multiple, EmptySeq
  <2>4. ASSUME NEW k \in 1..n PROVE GroupOK(u[k], k = n) /\ GroupBytes(u[k]) = p[k]
    <3>1. /\ GroupOK(u[k], TRUE) /\ (k < n => GroupOK(u[k], FALSE))
          /\ GroupBytes(u[k]) = p[k]
      BY <1>4 DEF GroupEncodes
    <3>2. CASE k = n
      <4>1. (k = n) = TRUE
        BY <3>2
      <4> QED BY <3>1, <4>1
    <3>3. CASE k # n
      <4>1. (k = n) = FALSE /\ k < n
        BY <1>2, <3>3
      <4> QED BY <3>1, <4>1
    <3> QED BY <3>2, <3>3
  <2>5. Taken(u) = p
    <3>1. p = [k \in 1..n |-> p[k]]
      BY <1>2
    <3>2. Taken(u) = [k \in 1..n |-> GroupBytes(u[k])]
      BY <1>4 DEF Taken
    <3> QED BY <2>4, <3>1, <3>2
  <2>6. Unpacked(c) = FlattenSeq(Taken(u))
    BY <1>4, <1>7, <2>3, <2>4 DEF Unpacked
  <2>7. b # <<>>
    <3>1. Pieces(b, 3) = p
      <4>1. 3 \in Sizes
        BY DEF Sizes
      <4> QED BY <1>1, <4>1, JoinedPieces
    <3>2. Len(b) = Start(n, 3) + Len(p[n]) /\ Start(n, 3) \in Nat /\ Len(p[n]) \in 1..3
      <4>1. 3 \in Sizes
        BY DEF Sizes
      <4>2. Len(b) = Start(n, 3) + Len(p[n])
        BY <1>1, <1>2, <1>9, <4>1, JoinedPieces
      <4>3. Len(p[n]) \in 1..3
        BY <1>1, <1>2, <2>1 DEF Uniform
      <4>4. Start(n, 3) \in Nat
        BY <1>9 DEF Start
      <4> QED BY <4>2, <4>3, <4>4
    <3>3. PICK a, l : a = Start(n, 3) /\ l = Len(p[n])
      OBVIOUS
    <3>4. a \in Nat /\ l \in 1..3 /\ Len(b) = a + l
      BY <3>2, <3>3, Zenon
    <3>5. Len(b) # 0
      BY <3>4
    <3> QED BY <3>5, EmptySeq
  <2>8. Unpacked(c) = b
    BY <1>1, <2>5, <2>6
  <2> QED BY <1>6, <2>7, <2>8
<1> QED BY <1>8, <1>9

LEMMA WholeGroups ==
    ASSUME NEW m \in Nat, NEW len \in Nat, Fits(m, 4, len), len % 4 = 0
    PROVE  m * 4 = len
<1>1. PICK h \in Nat : h = len \div 4 /\ h * 4 <= len /\ len < h * 4 + 4
  OBVIOUS
<1>2. PICK l \in 0..3 : len = h * 4 + l
  <2>1. len - h * 4 \in 0..3 /\ len = h * 4 + (len - h * 4)
    BY <1>1
  <2> QED BY <2>1
<1>3. (h * 4 + l) % 4 = l
  OBVIOUS
<1>4. len = h * 4
  BY <1>2, <1>3
<1> QED BY <1>4 DEF Fits

LEMMA EncodeDecode ==
    ASSUME NEW text \in Seq(Characters), Decode(text) # NoBytes
    PROVE  Decode(text) \in Seq(Bytes) /\ Encode(Decode(text)) = Compact(text)
<1>1. PICK c \in Seq(Characters) : c = Compact(text)
  BY CompactType
<1>2. PICK len \in Nat : len = Len(c)
  BY LenProperties
<1> 3 \in Sizes /\ 4 \in Sizes
  BY DEF Sizes
<1>3. PICK m \in Nat :
         /\ Fits(m, 4, len) /\ Len(Pieces(c, 4)) = m /\ Pieces(c, 4) \in Seq(Seq(Characters))
         /\ \A k \in 1..m : Len(Pieces(c, 4)[k]) = End(k, 4, len) - Start(k, 4)
  BY <1>2, PiecesAre
<1>4. PICK g \in Seq(Seq(Characters)) : g = Pieces(c, 4) /\ FlattenSeq(g) = c
  BY <1>3, PiecesJoin
<1>5. /\ len % 4 = 0 /\ Decode(text) = FlattenSeq(Taken(g))
      /\ \A k \in DOMAIN g : GroupOK(g[k], k = Len(g))
  BY <1>1, <1>2, <1>4, DecodeIs DEF Unpacked
<1>6. DOMAIN g = 1..m /\ Len(g) = m
  BY <1>3, <1>4, LenProperties
<1>7. ASSUME NEW k \in 1..m PROVE Len(g[k]) = 4
  <2>1. Len(g[k]) = End(k, 4, len) - Start(k, 4)
    BY <1>3, <1>4
  <2>2. m * 4 = len
    BY <1>3, <1>5, WholeGroups
  <2>3. Start(k, 4) = (k - 1) * 4 /\ End(k, 4, len) = IF k * 4 < len THEN k * 4 ELSE len
    BY DEF Start, End
  <2>4. End(k, 4, len) - Start(k, 4) = 4
    <3>1. CASE k = m
      BY <2>2, <2>3, <3>1
    <3>2. CASE k < m
      BY <2>2, <2>3, <3>2
    <3> QED BY <3>1, <3>2
  <2> QED BY <2>1, <2>4
<1>8. PICK v \in Seq(Seq(Bytes)) :
         /\ v = Taken(g) /\ Len(v) = m /\ Uniform(v, 3)
         /\ \A k \in 1..m : Quantum(v[k]) = g[k]
  BY <1>5, <1>6, <1>7, TakenAre
<1>9. PICK b \in Seq(Bytes) : b = FlattenSeq(v) /\ b = Decode(text)
  BY <1>5, <1>8, FlattenType
<1>10. Pieces(b, 3) = v
  BY <1>8, <1>9, JoinedPieces
<1>11. Encode(b) = FlattenSeq(Groups(v))
  BY <1>10 DEF Encode, Groups
<1>12. Groups(v) = g
  <2>1. DOMAIN v = 1..m
    BY <1>8, LenProperties
  <2>2. g = [k \in 1..m |-> g[k]]
    BY <1>6
  <2> QED BY <1>8, <2>1, <2>2 DEF Groups
<1> QED BY <1>1, <1>4, <1>9, <1>11, <1>12

LEMMA Base64Exact ==
    ASSUME NEW bytes \in Seq(Bytes), NEW text \in Seq(Characters)
    PROVE  Base64IsExact(bytes, text)
<1>1. Decode(Encode(bytes)) = (IF bytes = <<>> THEN NoBytes ELSE bytes)
  BY DecodeEncode
<1>2. ASSUME Decode(text) # NoBytes
      PROVE  /\ \A k \in DOMAIN Decode(text) : Decode(text)[k] \in 0..255
             /\ Encode(Decode(text)) = Compact(text)
  <2>1. PICK b \in Seq(Bytes) : b = Decode(text) /\ Encode(b) = Compact(text)
    BY <1>2, EncodeDecode
  <2>2. \A k \in DOMAIN b : b[k] \in Bytes
    BY ElementOfSeq, LenProperties
  <2> QED BY <2>1, <2>2 DEF Bytes
<1> QED BY <1>1, <1>2 DEF Base64IsExact

\* Base64Inverts, of byte strings and texts of any length: base64_decode gives
\* back what base64_encode was given, and what it accepts is the encoding of the
\* bytes it returns, in which only blanks were added.
THEOREM Base64Inverse == Spec => []Base64Inverts
<1>1. Chosen => Base64Inverts
  <2> SUFFICES ASSUME Chosen PROVE Base64Inverts
    OBVIOUS
  <2>1. <<>> \in Seq(Bytes) /\ <<>> \in Seq(Characters)
    BY EmptySeq
  <2>2. input.kind = "bytes" => input.bytes \in Seq(Bytes)
    BY InputsAssumption DEF Chosen
  <2>3. input.kind = "text" => input.text \in Seq(Characters)
    BY InputsAssumption DEF Chosen
  <2> QED BY <2>1, <2>2, <2>3, Base64Exact DEF Base64Inverts
<1> QED BY <1>1, AlwaysChosen, PTL
-----------------------------------------------------------------------------
(***************************************************************************)
(* Requests: objects, and what a change of one leaves of its members.      *)
(***************************************************************************)
IsSet(o, key, value) == Has(o, key) /\ Field(o, key) = value

\* o has of key what p has of it.
AsIn(o, key, p) ==
    /\ Has(o, key) <=> Has(p, key)
    /\ Has(p, key) => Field(o, key) = Field(p, key)

IsObject(o) == o.kind = "object"

LEMMA AsInItself == ASSUME NEW o, NEW key PROVE AsIn(o, key, o)
BY DEF AsIn

LEMMA AsInChain ==
    ASSUME NEW o, NEW p, NEW q, NEW key, AsIn(o, key, p), AsIn(p, key, q) PROVE AsIn(o, key, q)
BY DEF AsIn

LEMMA SetChain ==
    ASSUME NEW o, NEW p, NEW key, NEW value, AsIn(o, key, p), IsSet(p, key, value)
    PROVE  IsSet(o, key, value)
BY DEF AsIn, IsSet

LEMMA WithIs ==
    ASSUME NEW o, IsObject(o), NEW key, NEW value
    PROVE  /\ IsObject(With(o, key, value)) /\ IsSet(With(o, key, value), key, value)
           /\ \A other : other # key => AsIn(With(o, key, value), other, o)
<1>1. PICK m : m = [k \in {key} \cup DOMAIN o.members |->
                     IF k = key THEN value ELSE o.members[k]]
  OBVIOUS
<1>2. With(o, key, value).kind = "object" /\ With(o, key, value).members = m
  BY <1>1 DEF With, Object
<1>3. DOMAIN m = {key} \cup DOMAIN o.members /\ m[key] = value
  BY <1>1
<1>4. \A other \in DOMAIN o.members : other # key => m[other] = o.members[other]
  BY <1>1
<1> QED BY <1>2, <1>3, <1>4 DEF IsObject, IsSet, AsIn, Has, Field

LEMMA UpdateIs ==
    ASSUME NEW o, IsObject(o), NEW p, IsObject(p)
    PROVE  /\ IsObject(Update(o, p))
           /\ \A key : AsIn(Update(o, p), key, IF Has(p, key) THEN p ELSE o)
<1>1. PICK m : m = [k \in DOMAIN p.members \cup DOMAIN o.members |->
                     IF k \in DOMAIN p.members THEN p.members[k] ELSE o.members[k]]
  OBVIOUS
<1>2. Update(o, p).kind = "object" /\ Update(o, p).members = m
  BY <1>1 DEF Update, Object
<1>3. /\ DOMAIN m = DOMAIN p.members \cup DOMAIN o.members
      /\ \A key \in DOMAIN p.members : m[key] = p.members[key]
  BY <1>1
<1>4. \A key \in DOMAIN o.members : key \notin DOMAIN p.members => m[key] = o.members[key]
  BY <1>1
<1> QED BY <1>2, <1>3, <1>4 DEF IsObject, AsIn, Has, Field

LEMMA TypedIs ==
    ASSUME NEW o, IsObject(o), NEW key, NEW setting
    PROVE  /\ IsObject(Typed(o, key, setting))
           /\ setting # Unset => IsSet(Typed(o, key, setting), key, setting)
           /\ \A other : setting = Unset \/ other # key => AsIn(Typed(o, key, setting), other, o)
BY WithIs, AsInItself DEF Typed

LEMMA MergedIs ==
    ASSUME NEW r, r.profile \in Objects, r.call \in Objects
    PROVE  /\ IsObject(MergedProviderOptions(r))
           /\ \A key : AsIn(MergedProviderOptions(r), key, Given(r, key))
<1>1. IsObject(r.profile) /\ IsObject(r.call)
  BY DEF Objects, IsObject
<1> QED BY <1>1, UpdateIs DEF MergedProviderOptions, Given

\* Members that the SDK sets.
LEMMA OwnedIs ==
    ASSUME NEW o, IsObject(o), NEW owned
    PROVE  /\ IsObject(Update(o, Object(owned)))
           /\ \A key \in DOMAIN owned : IsSet(Update(o, Object(owned)), key, owned[key])
           /\ \A key : key \notin DOMAIN owned => AsIn(Update(o, Object(owned)), key, o)
<1>1. PICK p : p = Object(owned)
  OBVIOUS
<1>2. IsObject(p) /\ p.members = owned /\ \A key : Has(p, key) <=> key \in DOMAIN owned
  BY <1>1 DEF IsObject, Object, Has
<1>3. /\ IsObject(Update(o, p))
      /\ \A key : AsIn(Update(o, p), key, IF Has(p, key) THEN p ELSE o)
  BY <1>2, UpdateIs
<1>4. ASSUME NEW key \in DOMAIN owned PROVE IsSet(Update(o, p), key, owned[key])
  <2>1. AsIn(Update(o, p), key, p)
    BY <1>2, <1>3
  <2> QED BY <1>2, <2>1 DEF AsIn, IsSet, Field
<1>5. ASSUME NEW key, key \notin DOMAIN owned PROVE AsIn(Update(o, p), key, o)
  BY <1>2, <1>3, <1>5
<1> QED BY <1>1, <1>3, <1>4, <1>5

-----------------------------------------------------------------------------
(***************************************************************************)
(* Requests: tools.                                                        *)
(***************************************************************************)
LEMMA GivenToolsAre ==
    ASSUME NEW r, r.profile \in Objects, r.call \in Objects, GivenTools(r).kind = "array"
    PROVE  \E A : GivenTools(r).elements \in Seq(A)
<1>1. CASE Has(Given(r, "tools"), "tools")
  <2>1. Given(r, "tools") \in JsonValues
    BY DEF Given, Objects
  <2>2. GivenTools(r) \in JsonValues
    BY <1>1, <2>1, FieldOf DEF GivenTools
  <2> QED BY <2>2, ElementsIs
<1>2. CASE ~Has(Given(r, "tools"), "tools")
  <2>1. GivenTools(r).elements = <<>>
    BY <1>2 DEF GivenTools, Array
  <2>2. <<>> \in Seq({})
    BY EmptySeq
  <2> QED BY <2>1, <2>2
<1> QED BY <1>1, <1>2

\* What a body holds of the tools before declarations follow.
LEMMA ToolsAreGiven ==
    ASSUME NEW r, NEW body, AsIn(body, "tools", Given(r, "tools"))
    PROVE  /\ ToolsAreArray(body) <=> GivenTools(r).kind = "array"
           /\ (IF Has(body, "tools") THEN Field(body, "tools").elements ELSE <<>>)
              = GivenTools(r).elements
BY DEF AsIn, ToolsAreArray, GivenTools, Array

LEMMA WithToolsIs ==
    ASSUME NEW r, NEW body, IsObject(body), AsIn(body, "tools", Given(r, "tools")), NEW d
    PROVE  /\ IsObject(WithTools(body, d))
           /\ IsSet(WithTools(body, d), "tools", Array(GivenTools(r).elements \o d))
           /\ \A key : key # "tools" => AsIn(WithTools(body, d), key, body)
BY ToolsAreGiven, WithIs DEF WithTools

\* d declares spec under the names of the protocol.
Declares(d, spec, schema_key) ==
    /\ IsObject(d)
    /\ Field(d, "name") = Sdk(spec.name) /\ Field(d, "description") = Sdk(spec.description)
    /\ Field(d, schema_key) = Sdk(spec.input_schema)

LEMMA DeclarationIs ==
    ASSUME NEW spec \in Specs, NEW schema_key \in {"parameters", "input_schema"}
    PROVE  /\ Declares(Declaration(spec, schema_key), spec, schema_key)
           /\ Declares(With(Declaration(spec, schema_key), "type", Sdk("function")),
                       spec, schema_key)
<1>1. PICK o : o = spec.provider_options /\ IsObject(o)
  BY DEF Specs, Objects, IsObject
<1>2. PICK n : n = With(o, "name", Sdk(spec.name))
  OBVIOUS
<1>3. PICK e : e = With(n, "description", Sdk(spec.description))
  OBVIOUS
<1>4. PICK d : d = With(e, schema_key, Sdk(spec.input_schema))
  OBVIOUS
<1>5. PICK t : t = With(d, "type", Sdk("function"))
  OBVIOUS
<1>6. IsObject(n) /\ IsSet(n, "name", Sdk(spec.name))
  BY <1>1, <1>2, WithIs
<1>7. /\ IsObject(e) /\ IsSet(e, "description", Sdk(spec.description))
      /\ IsSet(e, "name", Sdk(spec.name))
  BY <1>3, <1>6, WithIs, SetChain
<1>8. /\ IsObject(d) /\ IsSet(d, schema_key, Sdk(spec.input_schema))
      /\ IsSet(d, "name", Sdk(spec.name)) /\ IsSet(d, "description", Sdk(spec.description))
  BY <1>4, <1>7, WithIs, SetChain
<1>9. /\ IsObject(t) /\ IsSet(t, schema_key, Sdk(spec.input_schema))
      /\ IsSet(t, "name", Sdk(spec.name)) /\ IsSet(t, "description", Sdk(spec.description))
  BY <1>5, <1>8, WithIs, SetChain
<1>10. d = Declaration(spec, schema_key)
  BY <1>1, <1>2, <1>3, <1>4 DEF Declaration
<1> QED BY <1>5, <1>8, <1>9, <1>10 DEF Declares, IsSet
-----------------------------------------------------------------------------
(***************************************************************************)
(* Requests: what the four bodies have in common.                          *)
(***************************************************************************)
\* The options of a call and its profile, with the members the SDK keeps.
Begun(r, body, owned) ==
    /\ IsObject(body)
    /\ \A key \in DOMAIN owned : IsSet(body, key, owned[key])
    /\ \A key : key \notin DOMAIN owned => AsIn(body, key, Given(r, key))

Instructed(body, name, system) == Typed(body, name, system)

Tooled(r, body, declarations) ==
    IF r.tools = <<>> THEN body ELSE WithTools(body, declarations)

Set(body, limit_name, limit, temperature) ==
    Typed(Typed(body, limit_name, limit), "temperature", temperature)

Asked(r) == r.profile \in Objects /\ r.call \in Objects /\ r.tools \in Seq(Specs)

LEMMA Begins ==
    ASSUME NEW r, r.profile \in Objects, r.call \in Objects, NEW owned
    PROVE  Begun(r, Update(MergedProviderOptions(r), Object(owned)), owned)
<1>1. PICK o : /\ o = MergedProviderOptions(r) /\ IsObject(o)
               /\ \A key : AsIn(o, key, Given(r, key))
  BY MergedIs
<1>2. PICK u : /\ u = Update(o, Object(owned)) /\ IsObject(u)
               /\ \A key \in DOMAIN owned : IsSet(u, key, owned[key])
               /\ \A key : key \notin DOMAIN owned => AsIn(u, key, o)
  BY <1>1, OwnedIs
<1>3. ASSUME NEW key, key \notin DOMAIN owned PROVE AsIn(u, key, Given(r, key))
  BY <1>1, <1>2, <1>3, AsInChain
<1> QED BY <1>1, <1>2, <1>3 DEF Begun

LEMMA Assembled ==
    ASSUME NEW r, NEW u, NEW owned, Begun(r, u, owned),
           NEW name, NEW system, name \notin DOMAIN owned \cup {"tools"},
           NEW d, "tools" \notin DOMAIN owned,
           NEW limit_name, limit_name \notin DOMAIN owned \cup {"tools", "temperature"},
           NEW limit, NEW temperature, "temperature" \notin DOMAIN owned,
           NEW b, b = Instructed(u, name, system),
           NEW y, y = Set(Tooled(r, b, d), limit_name, limit, temperature)
    PROVE  /\ IsObject(y) /\ (ToolsAreArray(b) <=> GivenTools(r).kind = "array")
           /\ \A key \in DOMAIN owned : IsSet(y, key, owned[key])
           /\ limit # Unset => IsSet(y, limit_name, limit)
           /\ temperature # Unset => IsSet(y, "temperature", temperature)
           /\ r.tools # <<>> => IsSet(y, "tools", Array(GivenTools(r).elements \o d))
           /\ \A key : /\ key \notin DOMAIN owned \cup {name}
                       /\ key = "tools" => r.tools = <<>>
                       /\ key = limit_name => limit = Unset
                       /\ key = "temperature" => temperature = Unset
                       => AsIn(y, key, Given(r, key))
<1>1. IsObject(b) /\ \A key : key # name => AsIn(b, key, u)
  BY TypedIs DEF Begun, Instructed
<1>2. AsIn(b, "tools", Given(r, "tools"))
  <2>1. AsIn(u, "tools", Given(r, "tools")) /\ AsIn(b, "tools", u)
    BY <1>1 DEF Begun
  <2> QED BY <2>1, AsInChain
<1>3. ToolsAreArray(b) <=> GivenTools(r).kind = "array"
  BY <1>2, ToolsAreGiven
<1>4. PICK t : t = Tooled(r, b, d)
  OBVIOUS
<1>5. /\ IsObject(t)
      /\ r.tools # <<>> => IsSet(t, "tools", Array(GivenTools(r).elements \o d))
      /\ \A key : key # "tools" \/ r.tools = <<>> => AsIn(t, key, b)
  <2>1. CASE r.tools = <<>>
    BY <1>1, <1>4, <2>1, AsInItself DEF Tooled
  <2>2. CASE r.tools # <<>>
    BY <1>1, <1>2, <1>4, <2>2, WithToolsIs DEF Tooled
  <2> QED BY <2>1, <2>2
<1>6. PICK x : /\ x = Typed(t, limit_name, limit) /\ IsObject(x)
               /\ limit # Unset => IsSet(x, limit_name, limit)
               /\ \A key : limit = Unset \/ key # limit_name => AsIn(x, key, t)
  BY <1>5, TypedIs
<1>7. /\ y = Typed(x, "temperature", temperature) /\ IsObject(y)
      /\ temperature # Unset => IsSet(y, "temperature", temperature)
      /\ \A key : temperature = Unset \/ key # "temperature" => AsIn(y, key, x)
  <2>1. y = Typed(x, "temperature", temperature)
    BY <1>4, <1>6 DEF Set
  <2> QED BY <1>6, <2>1, TypedIs
<1>8. ASSUME NEW key, key # name, key = "tools" => r.tools = <<>>,
             key = limit_name => limit = Unset, key = "temperature" => temperature = Unset
      PROVE  AsIn(y, key, u)
  <2>1. AsIn(y, key, x) /\ AsIn(x, key, t)
    BY <1>6, <1>7, <1>8
  <2>2. AsIn(t, key, b) /\ AsIn(b, key, u)
    BY <1>1, <1>5, <1>8
  <2>3. AsIn(y, key, t) /\ AsIn(t, key, u)
    BY <2>1, <2>2, AsInChain
  <2> QED BY <2>3, AsInChain
<1>9. ASSUME NEW key \in DOMAIN owned PROVE IsSet(y, key, owned[key])
  <2>1. AsIn(y, key, u)
    BY <1>8
  <2>2. IsSet(u, key, owned[key])
    BY DEF Begun
  <2> QED BY <2>1, <2>2, SetChain
<1>10. limit # Unset => IsSet(y, limit_name, limit)
  <2>1. AsIn(y, limit_name, x)
    BY <1>7
  <2> QED BY <1>6, <2>1, SetChain
<1>11. r.tools # <<>> => IsSet(y, "tools", Array(GivenTools(r).elements \o d))
  <2>1. AsIn(y, "tools", x) /\ AsIn(x, "tools", t)
    BY <1>6, <1>7
  <2>2. AsIn(y, "tools", t)
    BY <2>1, AsInChain
  <2> QED BY <1>5, <2>2, SetChain
<1>12. ASSUME NEW key, key \notin DOMAIN owned \cup {name}, key = "tools" => r.tools = <<>>,
              key = limit_name => limit = Unset, key = "temperature" => temperature = Unset
       PROVE  AsIn(y, key, Given(r, key))
  <2>1. AsIn(y, key, u)
    BY <1>8, <1>12
  <2>2. AsIn(u, key, Given(r, key))
    BY <1>12 DEF Begun
  <2> QED BY <2>1, <2>2, AsInChain
<1> QED BY <1>3, <1>7, <1>9, <1>10, <1>11, <1>12

\* A sequence joined to another is cut off again.
LEMMA CutConcat ==
    ASSUME NEW A, NEW s \in Seq(A), NEW t \in Seq(A)
    PROVE  /\ SubSeq(s \o t, 1, Len(s)) = s
           /\ SubSeq(s \o t, Len(s) + 1, Len(s \o t)) = t
<1>1. PICK m \in Nat : m = Len(s)
  BY LenProperties
<1>2. PICK n \in Nat : n = Len(t)
  BY LenProperties
<1>3. PICK w : w = s \o t
  OBVIOUS
<1>4. /\ w \in Seq(A) /\ Len(w) = m + n
      /\ \A k \in 1..m : w[k] = s[k]
      /\ \A k \in 1..n : w[m + k] = t[k]
  BY <1>1, <1>2, <1>3, ConcatIs
<1>5. SubSeq(w, 1, m) = s
  <2>1. \A k \in 1..m : w[k] \in A
    BY <1>1, <1>4, ElementOfSeq
  <2>2. PICK x : x = SubSeq(w, 1, m)
    OBVIOUS
  <2>3. x \in Seq(A) /\ Len(x) = m /\ \A k \in 1..m : x[k] = w[k]
    BY <2>1, <2>2, SubSeqProperties
  <2> QED BY <1>1, <1>4, <2>2, <2>3, SeqEqual
<1>6. SubSeq(w, m + 1, m + n) = t
  <2>1. ASSUME NEW i \in (m + 1)..(m + n) PROVE w[i] \in A
    <3>1. i \in 1..Len(w)
      BY <1>4
    <3> QED BY <1>4, <3>1, ElementOfSeq
  <2>2. PICK x : x = SubSeq(w, m + 1, m + n)
    OBVIOUS
  <2>3. x \in Seq(A) /\ Len(x) = n /\ \A k \in 1..n : x[k] = w[m + k]
    <3>1. /\ x \in Seq(A) /\ Len(x) = (IF m + 1 <= m + n THEN m + n - (m + 1) + 1 ELSE 0)
          /\ \A k \in 1..(m + n - (m + 1) + 1) : x[k] = w[m + 1 + k - 1]
      <4>1. m + 1 \in Int /\ m + n \in Int
        OBVIOUS
      <4> QED BY <2>1, <2>2, <4>1, SubSeqProperties
    <3>2. m + n - (m + 1) + 1 = n /\ (~(m + 1 <= m + n) => n = 0)
      OBVIOUS
    <3>3. \A k \in 1..n : m + 1 + k - 1 = m + k
      OBVIOUS
    <3> QED BY <3>1, <3>2, <3>3
  <2> QED BY <1>2, <1>4, <2>2, <2>3, SeqEqual
<1> QED BY <1>1, <1>3, <1>4, <1>5, <1>6
-----------------------------------------------------------------------------
(***************************************************************************)
(* Requests: each property, of a body that was assembled.                  *)
(***************************************************************************)
AreDeclared(functions, r, schema_key) ==
    /\ Len(functions) = Len(r.tools)
    /\ \A k \in DOMAIN r.tools : Declares(functions[k], r.tools[k], schema_key)

\* What the body of a provider holds of the tools.
Added(provider, r, body, d) ==
    /\ r.tools = <<>> => AsIn(body, "tools", Given(r, "tools"))
    /\ r.tools # <<>> =>
          /\ IsSet(body, "tools", Array(GivenTools(r).elements \o d))
          /\ d # <<>> /\ \E B : d \in Seq(B)
          /\ AreDeclared(FunctionsIn(provider, d), r, SchemaKey(provider))

LEMMA DeclaresTools ==
    ASSUME NEW provider, NEW r, Asked(r), NEW body, NEW d, GivenTools(r).kind = "array",
           Added(provider, r, body, d)
    PROVE  ToolsAreDeclared(provider, r, body)
<1>1. PICK A : GivenTools(r).elements \in Seq(A)
  BY GivenToolsAre DEF Asked
<1>2. PICK named \in Seq(A) : named = GivenTools(r).elements
  BY <1>1
<1>3. PICK all : all = IF Has(body, "tools") THEN Field(body, "tools").elements ELSE <<>>
  OBVIOUS
<1>4. PICK rest : rest = SubSeq(all, Len(named) + 1, Len(all))
  OBVIOUS
<1>5. /\ SubSeq(all, 1, Len(named)) = named
      /\ AreDeclared(FunctionsIn(provider, rest), r, SchemaKey(provider))
  <2>1. CASE r.tools = <<>>
    <3>1. all = named
      BY <1>2, <1>3, <2>1, ToolsAreGiven DEF Added
    <3>2. SubSeq(named, 1, Len(named)) = named
      BY SubSeqFull
    <3>3. rest = <<>>
      <4>1. PICK m \in Nat : m = Len(named)
        BY LenProperties
      <4>2. m + 1 > m
        OBVIOUS
      <4> QED BY <1>4, <3>1, <4>1, <4>2, SubSeqEmpty
    <3>4. FunctionsIn(provider, rest) = <<>>
      BY <3>3 DEF FunctionsIn
    <3>5. AreDeclared(<<>>, r, SchemaKey(provider))
      BY <2>1 DEF AreDeclared
    <3> QED BY <3>1, <3>2, <3>4, <3>5
  <2>2. CASE r.tools # <<>>
    <3>1. all = named \o d
      BY <1>2, <1>3, <2>2 DEF Added, IsSet, Array
    <3>2. PICK B : d \in Seq(B)
      BY <2>2 DEF Added
    <3>3. PICK C : C = A \cup B
      OBVIOUS
    <3>4. named \in Seq(C) /\ d \in Seq(C)
      <4>1. \A k \in 1..Len(named) : named[k] \in C
        BY <3>3, ElementOfSeq
      <4>2. \A k \in 1..Len(d) : d[k] \in C
        BY <3>2, <3>3, ElementOfSeq
      <4> QED BY <3>2, <4>1, <4>2, SubType
    <3>5. SubSeq(all, 1, Len(named)) = named /\ rest = d
      BY <1>4, <3>1, <3>4, CutConcat
    <3> QED BY <2>2, <3>5 DEF Added
  <2> QED BY <2>1, <2>2
<1>6. PICK functions : functions = FunctionsIn(provider, rest)
  OBVIOUS
<1>7. /\ Len(functions) = Len(r.tools)
      /\ \A k \in DOMAIN r.tools :
            /\ Field(functions[k], "name") = Sdk(r.tools[k].name)
            /\ Field(functions[k], "description") = Sdk(r.tools[k].description)
            /\ Field(functions[k], SchemaKey(provider)) = Sdk(r.tools[k].input_schema)
  BY <1>5, <1>6 DEF AreDeclared, Declares
<1> QED BY <1>2, <1>3, <1>4, <1>5, <1>6, <1>7 DEF ToolsAreDeclared

\* The declarations of three of the protocols.
LEMMA DeclarationsAre ==
    ASSUME NEW r, Asked(r), r.tools # <<>>, NEW key,
           NEW d, d = [k \in DOMAIN r.tools |-> d[k]],
           \A k \in DOMAIN r.tools : Declares(d[k], r.tools[k], key)
    PROVE  AreDeclared(d, r, key) /\ d # <<>> /\ \E B : d \in Seq(B)
<1>1. PICK n \in Nat : n = Len(r.tools) /\ DOMAIN r.tools = 1..n /\ n # 0
  BY LenProperties, EmptySeq DEF Asked
<1>2. PICK B : B = {d[k] : k \in 1..n}
  OBVIOUS
<1>3. DOMAIN d = 1..n /\ d = [k \in 1..n |-> d[k]] /\ \A k \in 1..n : d[k] \in B
  BY <1>1, <1>2
<1>4. d \in Seq(B) /\ Len(d) = n
  BY <1>3, MakeSeq
<1>5. d # <<>>
  BY <1>1, <1>4, EmptySeq
<1> QED BY <1>1, <1>4, <1>5 DEF AreDeclared

LEMMA SpecOf ==
    ASSUME NEW r, Asked(r), NEW k \in DOMAIN r.tools PROVE r.tools[k] \in Specs
BY ElementOfSeq, LenProperties DEF Asked

\* Members that are neither the SDK's nor settings are those of the options.
LEMMA KeepsRest ==
    ASSUME NEW provider, NEW r, Asked(r), NEW body,
           \A key : \/ key \in Owned(provider)
                    \/ key \in {"tools", "generationConfig", "instructions", "system",
                                "systemInstruction"}
                    \/ key \in {SettingNames(provider)[k] : k \in 1..2}
                    \/ AsIn(body, key, Given(r, key))
    PROVE  RestIsUnchanged(provider, r, body)
<1> SUFFICES ASSUME NEW key \in (DOMAIN r.call.members \cup DOMAIN r.profile.members),
                    AsIn(body, key, Given(r, key))
             PROVE  Field(body, key) = Field(Given(r, key), key)
  BY DEF RestIsUnchanged
<1>1. r.call.kind = "object" /\ r.profile.kind = "object"
  BY DEF Asked, Objects
<1>2. Has(Given(r, key), key)
  BY <1>1 DEF Given, Has
<1> QED BY <1>2 DEF AsIn
LEMMA SettingsHold ==
    ASSUME NEW provider, provider # "gemini", NEW r, NEW body,
           \A k \in 1..2 :
              /\ Wanted(provider, r)[k] # Unset
                    => IsSet(body, SettingNames(provider)[k], Wanted(provider, r)[k])
              /\ Wanted(provider, r)[k] = Unset
                    => AsIn(body, SettingNames(provider)[k], Given(r, SettingNames(provider)[k]))
    PROVE  SettingsWin(provider, r, body)
BY DEF SettingsWin, SettingsOf, IsSet, AsIn

LEMMA NotRefused == ASSUME NEW body, IsObject(body) PROVE body # Refused
BY DEF IsObject, Refused

LEMMA OpenAIAsAsked == ASSUME NEW r, Asked(r) PROVE RequestIsAsAsked("openai", r)
<1>1. PICK owned : owned = [model |-> Sdk("model"), stream |-> Sdk("false"),
                            background |-> Sdk("false"), input |-> Sdk("history")]
  OBVIOUS
<1>2. /\ DOMAIN owned = {"model", "stream", "background", "input"}
      /\ \A key \in DOMAIN owned : owned[key].kind = "sdk"
  BY <1>1 DEF Sdk, Scalar
<1>3. PICK u : u = Update(MergedProviderOptions(r), Object(owned)) /\ Begun(r, u, owned)
  BY Begins DEF Asked
<1>4. PICK b : b = Instructed(u, "instructions", r.system)
  OBVIOUS
<1>5. PICK d : d = [k \in DOMAIN r.tools |->
                      With(Declaration(r.tools[k], "parameters"), "type", Sdk("function"))]
  OBVIOUS
<1>6. PICK y : y = Set(Tooled(r, b, d), "max_output_tokens", MaxOutputTokens(r), r.temperature)
  OBVIOUS
<1>7. OpenAIRequest(r) = IF ~ToolsAreArray(b) THEN Refused ELSE y
  BY <1>1, <1>3, <1>4, <1>5, <1>6 DEF OpenAIRequest, Instructed, Tooled, Set
<1>8. /\ IsObject(y) /\ (ToolsAreArray(b) <=> GivenTools(r).kind = "array")
      /\ \A key \in DOMAIN owned : IsSet(y, key, owned[key])
      /\ MaxOutputTokens(r) # Unset => IsSet(y, "max_output_tokens", MaxOutputTokens(r))
      /\ r.temperature # Unset => IsSet(y, "temperature", r.temperature)
      /\ r.tools # <<>> => IsSet(y, "tools", Array(GivenTools(r).elements \o d))
      /\ \A key : /\ key \notin DOMAIN owned \cup {"instructions"}
                  /\ key = "tools" => r.tools = <<>>
                  /\ key = "max_output_tokens" => MaxOutputTokens(r) = Unset
                  /\ key = "temperature" => r.temperature = Unset
                  => AsIn(y, key, Given(r, key))
  <2>1. /\ "instructions" \notin DOMAIN owned \cup {"tools"} /\ "tools" \notin DOMAIN owned
        /\ "max_output_tokens" \notin DOMAIN owned \cup {"tools", "temperature"}
        /\ "temperature" \notin DOMAIN owned
    BY <1>2
  <2> QED BY <1>3, <1>4, <1>6, <2>1, Assembled
<1>9. Unusable("openai", r) <=> GivenTools(r).kind # "array"
  BY DEF Unusable
<1>10. CASE Unusable("openai", r)
  BY <1>7, <1>8, <1>9, <1>10 DEF RequestIsAsAsked, RequestBody
<1>11. CASE ~Unusable("openai", r)
  <2>1. RequestBody("openai", r) = y /\ GivenTools(r).kind = "array"
    BY <1>7, <1>8, <1>9, <1>11 DEF RequestBody
  <2>2. \A key \in Owned("openai") : Has(y, key) /\ Field(y, key).kind = "sdk"
    BY <1>2, <1>8 DEF Owned, IsSet
  <2>3. SettingsWin("openai", r, y)
    <3>1. /\ Wanted("openai", r)[1] = MaxOutputTokens(r) /\ Wanted("openai", r)[2] = r.temperature
          /\ SettingNames("openai")[1] = "max_output_tokens"
          /\ SettingNames("openai")[2] = "temperature"
      BY DEF Wanted, SettingNames
    <3>2. /\ MaxOutputTokens(r) = Unset =>
                AsIn(y, "max_output_tokens", Given(r, "max_output_tokens"))
          /\ r.temperature = Unset => AsIn(y, "temperature", Given(r, "temperature"))
      BY <1>2, <1>8
    <3> QED BY <1>8, <3>1, <3>2, SettingsHold
  <2>4. Added("openai", r, y, d)
    <3>1. r.tools = <<>> => AsIn(y, "tools", Given(r, "tools"))
      BY <1>2, <1>8
    <3>2. SUFFICES ASSUME r.tools # <<>>
                   PROVE  /\ d # <<>> /\ \E B : d \in Seq(B)
                          /\ AreDeclared(FunctionsIn("openai", d), r, SchemaKey("openai"))
      BY <1>8, <3>1 DEF Added
    <3>3. \A k \in DOMAIN r.tools : Declares(d[k], r.tools[k], "parameters")
      BY <1>5, SpecOf, DeclarationIs
    <3>4. AreDeclared(d, r, "parameters") /\ d # <<>> /\ \E B : d \in Seq(B)
      BY <1>5, <3>2, <3>3, DeclarationsAre
    <3> QED BY <3>4 DEF FunctionsIn, SchemaKey
  <2>5. ToolsAreDeclared("openai", r, y)
    BY <2>1, <2>4, DeclaresTools
  <2>6. RestIsUnchanged("openai", r, y)
    <3>1. \A key : \/ key \in Owned("openai")
                   \/ key \in {"tools", "generationConfig", "instructions", "system",
                               "systemInstruction"}
                   \/ key \in {SettingNames("openai")[k] : k \in 1..2}
                   \/ AsIn(y, key, Given(r, key))
      BY <1>2, <1>8 DEF Owned, SettingNames
    <3> QED BY <3>1, KeepsRest
  <2> QED BY <1>8, <1>11, <2>1, <2>2, <2>3, <2>5, <2>6, NotRefused DEF RequestIsAsAsked
<1> QED BY <1>10, <1>11
LEMMA NothingTyped == ASSUME NEW body, NEW key PROVE Typed(body, key, Unset) = body
BY DEF Typed

LEMMA AnthropicAsAsked == ASSUME NEW r, Asked(r) PROVE RequestIsAsAsked("anthropic", r)
<1>0. PICK limit : limit = IF MaxOutputTokens(r) = Unset THEN Sdk("default")
                                                        ELSE MaxOutputTokens(r)
  OBVIOUS
<1>1. PICK owned : owned = [model |-> Sdk("model"), stream |-> Sdk("false"),
                            max_tokens |-> limit, messages |-> Sdk("history")]
  OBVIOUS
<1>2. /\ DOMAIN owned = {"model", "stream", "max_tokens", "messages"}
      /\ \A key \in {"model", "stream", "messages"} : owned[key].kind = "sdk"
      /\ owned["max_tokens"] = limit
  BY <1>1 DEF Sdk, Scalar
<1>3. PICK u : u = Update(MergedProviderOptions(r), Object(owned)) /\ Begun(r, u, owned)
  BY Begins DEF Asked
<1>4. PICK b : b = Instructed(u, "system", r.system)
  OBVIOUS
<1>5. PICK d : d = [k \in DOMAIN r.tools |-> Declaration(r.tools[k], "input_schema")]
  OBVIOUS
<1>6. PICK y : y = Set(Tooled(r, b, d), "max_output_tokens", Unset, r.temperature)
  OBVIOUS
<1>7. AnthropicRequest(r) = IF ~ToolsAreArray(b) THEN Refused ELSE y
  BY <1>0, <1>1, <1>3, <1>4, <1>5, <1>6, NothingTyped
  DEF AnthropicRequest, Instructed, Tooled, Set
<1>8. /\ IsObject(y) /\ (ToolsAreArray(b) <=> GivenTools(r).kind = "array")
      /\ \A key \in DOMAIN owned : IsSet(y, key, owned[key])
      /\ r.temperature # Unset => IsSet(y, "temperature", r.temperature)
      /\ r.tools # <<>> => IsSet(y, "tools", Array(GivenTools(r).elements \o d))
      /\ \A key : /\ key \notin DOMAIN owned \cup {"system"}
                  /\ key = "tools" => r.tools = <<>>
                  /\ key = "temperature" => r.temperature = Unset
                  => AsIn(y, key, Given(r, key))
  <2>1. /\ "system" \notin DOMAIN owned \cup {"tools"} /\ "tools" \notin DOMAIN owned
        /\ "max_output_tokens" \notin DOMAIN owned \cup {"tools", "temperature"}
        /\ "temperature" \notin DOMAIN owned
    BY <1>2
  <2> QED BY <1>3, <1>4, <1>6, <2>1, Assembled
<1>9. Unusable("anthropic", r) <=> GivenTools(r).kind # "array"
  BY DEF Unusable
<1>10. CASE Unusable("anthropic", r)
  BY <1>7, <1>8, <1>9, <1>10 DEF RequestIsAsAsked, RequestBody
<1>11. CASE ~Unusable("anthropic", r)
  <2>1. RequestBody("anthropic", r) = y /\ GivenTools(r).kind = "array"
    BY <1>7, <1>8, <1>9, <1>11 DEF RequestBody
  <2>2. \A key \in Owned("anthropic") : Has(y, key) /\ Field(y, key).kind = "sdk"
    BY <1>2, <1>8 DEF Owned, IsSet
  <2>3. SettingsWin("anthropic", r, y)
    <3>1. /\ Wanted("anthropic", r)[1] = limit /\ Wanted("anthropic", r)[2] = r.temperature
          /\ SettingNames("anthropic")[1] = "max_tokens"
          /\ SettingNames("anthropic")[2] = "temperature"
      BY <1>0 DEF Wanted, SettingNames
    <3>2. limit # Unset /\ IsSet(y, "max_tokens", limit)
      <4>1. limit # Unset
        BY <1>0 DEF Unset, Sdk, Scalar
      <4> QED BY <1>2, <1>8, <4>1
    <3>3. r.temperature = Unset => AsIn(y, "temperature", Given(r, "temperature"))
      BY <1>2, <1>8
    <3> QED BY <1>8, <3>1, <3>2, <3>3, SettingsHold
  <2>4. Added("anthropic", r, y, d)
    <3>1. r.tools = <<>> => AsIn(y, "tools", Given(r, "tools"))
      BY <1>2, <1>8
    <3>2. SUFFICES ASSUME r.tools # <<>>
                   PROVE  /\ d # <<>> /\ \E B : d \in Seq(B)
                          /\ AreDeclared(FunctionsIn("anthropic", d), r, SchemaKey("anthropic"))
      BY <1>8, <3>1 DEF Added
    <3>3. \A k \in DOMAIN r.tools : Declares(d[k], r.tools[k], "input_schema")
      BY <1>5, SpecOf, DeclarationIs
    <3>4. AreDeclared(d, r, "input_schema") /\ d # <<>> /\ \E B : d \in Seq(B)
      BY <1>5, <3>2, <3>3, DeclarationsAre
    <3> QED BY <3>4 DEF FunctionsIn, SchemaKey
  <2>5. ToolsAreDeclared("anthropic", r, y)
    BY <2>1, <2>4, DeclaresTools
  <2>6. RestIsUnchanged("anthropic", r, y)
    <3>1. \A key : \/ key \in Owned("anthropic")
                   \/ key \in {"tools", "generationConfig", "instructions", "system",
                               "systemInstruction"}
                   \/ key \in {SettingNames("anthropic")[k] : k \in 1..2}
                   \/ AsIn(y, key, Given(r, key))
      BY <1>2, <1>8 DEF Owned, SettingNames
    <3> QED BY <3>1, KeepsRest
  <2> QED BY <1>8, <1>11, <2>1, <2>2, <2>3, <2>5, <2>6, NotRefused DEF RequestIsAsAsked
<1> QED BY <1>10, <1>11

LEMMA CompatibleAsAsked == ASSUME NEW r, Asked(r) PROVE RequestIsAsAsked("openai_compatible", r)
<1>1. PICK owned : owned = [model |-> Sdk("model"), stream |-> Sdk("false"),
                            messages |-> Sdk("history")]
  OBVIOUS
<1>2. /\ DOMAIN owned = {"model", "stream", "messages"}
      /\ \A key \in DOMAIN owned : owned[key].kind = "sdk"
  BY <1>1 DEF Sdk, Scalar
<1>3. PICK u : u = Update(MergedProviderOptions(r), Object(owned)) /\ Begun(r, u, owned)
  BY Begins DEF Asked
<1>4. PICK b : b = Instructed(u, "system", Unset)
  OBVIOUS
<1>5. PICK d : d = [k \in DOMAIN r.tools |->
                      With(With(EmptyObject, "type", Sdk("function")),
                           "function", Declaration(r.tools[k], "parameters"))]
  OBVIOUS
<1>6. PICK y : y = Set(Tooled(r, b, d), "max_tokens", MaxOutputTokens(r), r.temperature)
  OBVIOUS
<1>7. CompatibleRequest(r) = IF ~ToolsAreArray(b) THEN Refused ELSE y
  BY <1>1, <1>3, <1>4, <1>5, <1>6, NothingTyped DEF CompatibleRequest, Instructed, Tooled, Set
<1>8. /\ IsObject(y) /\ (ToolsAreArray(b) <=> GivenTools(r).kind = "array")
      /\ \A key \in DOMAIN owned : IsSet(y, key, owned[key])
      /\ MaxOutputTokens(r) # Unset => IsSet(y, "max_tokens", MaxOutputTokens(r))
      /\ r.temperature # Unset => IsSet(y, "temperature", r.temperature)
      /\ r.tools # <<>> => IsSet(y, "tools", Array(GivenTools(r).elements \o d))
      /\ \A key : /\ key \notin DOMAIN owned \cup {"system"}
                  /\ key = "tools" => r.tools = <<>>
                  /\ key = "max_tokens" => MaxOutputTokens(r) = Unset
                  /\ key = "temperature" => r.temperature = Unset
                  => AsIn(y, key, Given(r, key))
  <2>1. /\ "system" \notin DOMAIN owned \cup {"tools"} /\ "tools" \notin DOMAIN owned
        /\ "max_tokens" \notin DOMAIN owned \cup {"tools", "temperature"}
        /\ "temperature" \notin DOMAIN owned
    BY <1>2
  <2> QED BY <1>3, <1>4, <1>6, <2>1, Assembled
<1>9. Unusable("openai_compatible", r) <=> GivenTools(r).kind # "array"
  BY DEF Unusable
<1>10. CASE Unusable("openai_compatible", r)
  BY <1>7, <1>8, <1>9, <1>10 DEF RequestIsAsAsked, RequestBody
<1>11. CASE ~Unusable("openai_compatible", r)
  <2>1. RequestBody("openai_compatible", r) = y /\ GivenTools(r).kind = "array"
    BY <1>7, <1>8, <1>9, <1>11 DEF RequestBody
  <2>2. \A key \in Owned("openai_compatible") : Has(y, key) /\ Field(y, key).kind = "sdk"
    BY <1>2, <1>8 DEF Owned, IsSet
  <2>3. SettingsWin("openai_compatible", r, y)
    <3>1. /\ Wanted("openai_compatible", r)[1] = MaxOutputTokens(r) /\ Wanted("openai_compatible", r)[2] = r.temperature
          /\ SettingNames("openai_compatible")[1] = "max_tokens"
          /\ SettingNames("openai_compatible")[2] = "temperature"
      BY DEF Wanted, SettingNames
    <3>2. /\ MaxOutputTokens(r) = Unset =>
                AsIn(y, "max_tokens", Given(r, "max_tokens"))
          /\ r.temperature = Unset => AsIn(y, "temperature", Given(r, "temperature"))
      BY <1>2, <1>8
    <3> QED BY <1>8, <3>1, <3>2, SettingsHold
  <2>4. Added("openai_compatible", r, y, d)
    <3>1. r.tools = <<>> => AsIn(y, "tools", Given(r, "tools"))
      BY <1>2, <1>8
    <3>2. SUFFICES ASSUME r.tools # <<>>
                   PROVE  /\ d # <<>> /\ \E B : d \in Seq(B)
                          /\ AreDeclared(FunctionsIn("openai_compatible", d), r, SchemaKey("openai_compatible"))
      BY <1>8, <3>1 DEF Added
    <3>3. PICK f : f = [k \in DOMAIN r.tools |-> Field(d[k], "function")]
      OBVIOUS
    <3>4. ASSUME NEW k \in DOMAIN r.tools PROVE Declares(f[k], r.tools[k], "parameters")
      <4>1. IsObject(EmptyObject)
        BY DEF IsObject, EmptyObject, Object
      <4>2. IsObject(With(EmptyObject, "type", Sdk("function")))
        BY <4>1, WithIs
      <4>3. IsSet(d[k], "function", Declaration(r.tools[k], "parameters"))
        BY <1>5, <4>2, WithIs
      <4>4. f[k] = Declaration(r.tools[k], "parameters")
        BY <3>3, <4>3 DEF IsSet
      <4> QED BY <4>4, SpecOf, DeclarationIs
    <3>5. AreDeclared(f, r, "parameters")
      BY <3>2, <3>3, <3>4, DeclarationsAre
    <3>6. PICK B : B = {d[k] : k \in DOMAIN r.tools}
      OBVIOUS
    <3>7. d \in Seq(B) /\ Len(d) = Len(r.tools) /\ DOMAIN d = DOMAIN r.tools
      <4>1. PICK n \in Nat : n = Len(r.tools) /\ DOMAIN r.tools = 1..n
        BY LenProperties DEF Asked
      <4>2. DOMAIN d = 1..n /\ d = [k \in 1..n |-> d[k]] /\ \A k \in 1..n : d[k] \in B
        BY <1>5, <3>6, <4>1
      <4>3. d \in Seq(B) /\ Len(d) = n
        BY <4>2, MakeSeq
      <4> QED BY <4>1, <4>2, <4>3
    <3>8. d # <<>>
      <4>1. Len(r.tools) # 0
        BY <3>2, EmptySeq DEF Asked
      <4> QED BY <3>7, <4>1, EmptySeq
    <3>9. FunctionsIn("openai_compatible", d) = f
      BY <3>3, <3>7, <3>8 DEF FunctionsIn
    <3> QED BY <3>5, <3>7, <3>8, <3>9 DEF SchemaKey
  <2>5. ToolsAreDeclared("openai_compatible", r, y)
    BY <2>1, <2>4, DeclaresTools
  <2>6. RestIsUnchanged("openai_compatible", r, y)
    <3>1. \A key : \/ key \in Owned("openai_compatible")
                   \/ key \in {"tools", "generationConfig", "instructions", "system",
                               "systemInstruction"}
                   \/ key \in {SettingNames("openai_compatible")[k] : k \in 1..2}
                   \/ AsIn(y, key, Given(r, key))
      BY <1>2, <1>8 DEF Owned, SettingNames
    <3> QED BY <3>1, KeepsRest
  <2> QED BY <1>8, <1>11, <2>1, <2>2, <2>3, <2>5, <2>6, NotRefused DEF RequestIsAsAsked
<1> QED BY <1>10, <1>11
\* The settings of Gemini are one level down.
LEMMA ConfigSettings ==
    ASSUME NEW r, NEW body, NEW given, NEW config,
           given = SettingsOf("gemini", Given(r, "generationConfig")),
           IsSet(body, "generationConfig", config),
           \A k \in 1..2 :
              /\ Wanted("gemini", r)[k] # Unset
                    => IsSet(config, SettingNames("gemini")[k], Wanted("gemini", r)[k])
              /\ Wanted("gemini", r)[k] = Unset => AsIn(config, SettingNames("gemini")[k], given)
    PROVE  SettingsWin("gemini", r, body)
<1>1. SettingsOf("gemini", body) = config
  BY DEF SettingsOf, IsSet
<1> QED BY <1>1 DEF SettingsWin, IsSet, AsIn

LEMMA GeminiAsAsked == ASSUME NEW r, Asked(r) PROVE RequestIsAsAsked("gemini", r)
<1>1. PICK owned : owned = [contents |-> Sdk("history")]
  OBVIOUS
<1>2. DOMAIN owned = {"contents"} /\ owned["contents"].kind = "sdk"
  BY <1>1 DEF Sdk, Scalar
<1>3. PICK u : u = With(MergedProviderOptions(r), "contents", Sdk("history")) /\ Begun(r, u, owned)
  <2>1. PICK o : /\ o = MergedProviderOptions(r) /\ IsObject(o)
                 /\ \A key : AsIn(o, key, Given(r, key))
    BY MergedIs DEF Asked
  <2>2. PICK u : u = With(o, "contents", Sdk("history"))
    OBVIOUS
  <2>3. /\ IsObject(u) /\ IsSet(u, "contents", Sdk("history"))
        /\ \A key : key # "contents" => AsIn(u, key, o)
    BY <2>1, <2>2, WithIs
  <2>4. ASSUME NEW key, key # "contents" PROVE AsIn(u, key, Given(r, key))
    BY <2>1, <2>3, <2>4, AsInChain
  <2> QED BY <1>1, <1>2, <2>1, <2>2, <2>3, <2>4 DEF Begun
<1>4. PICK b : b = Instructed(u, "systemInstruction", r.system)
  OBVIOUS
<1>5. PICK decl : decl = [k \in DOMAIN r.tools |-> Declaration(r.tools[k], "parameters")]
  OBVIOUS
<1>6. PICK functions : functions = Object([functionDeclarations |-> Array(decl)])
  OBVIOUS
<1>7. PICK d : d = <<functions>>
  OBVIOUS
<1>8. PICK t : t = Tooled(r, b, d)
  OBVIOUS
<1>9. PICK config : config = IF Has(b, "generationConfig") THEN Field(b, "generationConfig")
                             ELSE EmptyObject
  OBVIOUS
<1>10. PICK typed : typed = Set(config, "maxOutputTokens", MaxOutputTokens(r), r.temperature)
  OBVIOUS
<1>11. PICK y : y = With(t, "generationConfig", typed)
  OBVIOUS
<1>12. GeminiRequest(r) =
          IF ~ToolsAreArray(b) THEN Refused
          ELSE IF MaxOutputTokens(r) = Unset /\ r.temperature = Unset THEN t
          ELSE IF config.kind # "object" THEN Refused ELSE y
  BY <1>3, <1>4, <1>5, <1>6, <1>7, <1>8, <1>9, <1>10, <1>11
  DEF GeminiRequest, Instructed, Tooled, Set
<1>13. /\ IsObject(t) /\ (ToolsAreArray(b) <=> GivenTools(r).kind = "array")
       /\ IsSet(t, "contents", owned["contents"])
       /\ r.tools # <<>> => IsSet(t, "tools", Array(GivenTools(r).elements \o d))
       /\ \A key : /\ key \notin {"contents", "systemInstruction"}
                   /\ key = "tools" => r.tools = <<>>
                   => AsIn(t, key, Given(r, key))
  <2>1. /\ "systemInstruction" \notin DOMAIN owned \cup {"tools"} /\ "tools" \notin DOMAIN owned
        /\ "maxOutputTokens" \notin DOMAIN owned \cup {"tools", "temperature"}
        /\ "temperature" \notin DOMAIN owned
    BY <1>2
  <2>2. t = Set(Tooled(r, b, d), "maxOutputTokens", Unset, Unset)
    BY <1>8, NothingTyped DEF Set
  <2>3. PICK none : none = Unset
    OBVIOUS
  <2>4. /\ IsObject(t) /\ (ToolsAreArray(b) <=> GivenTools(r).kind = "array")
        /\ \A key \in DOMAIN owned : IsSet(t, key, owned[key])
        /\ none # Unset => IsSet(t, "maxOutputTokens", none)
        /\ none # Unset => IsSet(t, "temperature", none)
        /\ r.tools # <<>> => IsSet(t, "tools", Array(GivenTools(r).elements \o d))
        /\ \A key : /\ key \notin DOMAIN owned \cup {"systemInstruction"}
                    /\ key = "tools" => r.tools = <<>>
                    /\ key = "maxOutputTokens" => none = Unset
                    /\ key = "temperature" => none = Unset
                    => AsIn(t, key, Given(r, key))
    BY <1>3, <1>4, <2>1, <2>2, <2>3, Assembled
  <2> QED BY <1>2, <2>3, <2>4
<1>14. AsIn(b, "generationConfig", Given(r, "generationConfig"))
  <2>1. IsObject(u) /\ AsIn(u, "generationConfig", Given(r, "generationConfig"))
    BY <1>2, <1>3 DEF Begun
  <2>2. AsIn(b, "generationConfig", u)
    BY <1>4, <2>1, TypedIs DEF Instructed
  <2> QED BY <2>1, <2>2, AsInChain
<1>15. config = SettingsOf("gemini", Given(r, "generationConfig"))
  BY <1>9, <1>14 DEF AsIn, SettingsOf
<1>16. Wanted("gemini", r) = <<MaxOutputTokens(r), r.temperature>>
  BY DEF Wanted
<1>17. PICK nothing \in BOOLEAN : nothing <=> (MaxOutputTokens(r) = Unset /\ r.temperature = Unset)
  OBVIOUS
<1>18. Unusable("gemini", r) <=>
          \/ GivenTools(r).kind # "array"
          \/ config.kind # "object" /\ ~nothing
  <2>1. Wanted("gemini", r) # <<Unset, Unset>> <=> ~nothing
    BY <1>16, <1>17
  <2>2. config.kind # "object" <=>
           /\ Has(Given(r, "generationConfig"), "generationConfig")
           /\ Field(Given(r, "generationConfig"), "generationConfig").kind # "object"
    BY <1>15 DEF SettingsOf, EmptyObject, Object
  <2> QED BY <2>1, <2>2 DEF Unusable
<1>19. RequestBody("gemini", r) = GeminiRequest(r)
  BY DEF RequestBody
<1>20. CASE Unusable("gemini", r)
  <2>1. GeminiRequest(r) = Refused
    BY <1>12, <1>13, <1>17, <1>18, <1>20
  <2> QED BY <1>19, <1>20, <2>1 DEF RequestIsAsAsked
<1>21. CASE ~Unusable("gemini", r)
  <2>1. GivenTools(r).kind = "array" /\ ToolsAreArray(b)
    BY <1>13, <1>18, <1>21
  <2>2. PICK z : z = IF nothing THEN t ELSE y
    OBVIOUS
  <2>3. RequestBody("gemini", r) = z /\ (nothing \/ config.kind = "object")
    BY <1>12, <1>17, <1>18, <1>19, <1>21, <2>1, <2>2
  <2>4. IsObject(z) /\ \A key : key # "generationConfig" => AsIn(z, key, t)
    BY <1>11, <1>13, <2>2, WithIs, AsInItself
  <2>5. \A key \in Owned("gemini") : Has(z, key) /\ Field(z, key).kind = "sdk"
    <3>1. IsSet(z, "contents", owned["contents"])
      BY <1>13, <2>4, SetChain
    <3> QED BY <1>2, <3>1 DEF Owned, IsSet
  <2>6. SettingsWin("gemini", r, z)
    <3>1. CASE nothing
      <4>1. Wanted("gemini", r)[1] = Unset /\ Wanted("gemini", r)[2] = Unset
        BY <1>16, <1>17, <3>1
      <4>2. AsIn(z, "generationConfig", Given(r, "generationConfig"))
        BY <1>13, <2>2, <3>1
      <4>3. SettingsOf("gemini", z) = SettingsOf("gemini", Given(r, "generationConfig"))
        BY <4>2 DEF AsIn, SettingsOf
      <4> QED BY <4>1, <4>3 DEF SettingsWin
    <3>2. CASE ~nothing
      <4>1. IsObject(config) /\ z = y
        BY <2>2, <2>3, <3>2 DEF IsObject
      <4>2. IsSet(z, "generationConfig", typed)
        BY <1>11, <1>13, <4>1, WithIs
      <4>3. PICK x : x = Typed(config, "maxOutputTokens", MaxOutputTokens(r))
        OBVIOUS
      <4>4. /\ IsObject(x)
            /\ MaxOutputTokens(r) # Unset => IsSet(x, "maxOutputTokens", MaxOutputTokens(r))
            /\ MaxOutputTokens(r) = Unset => AsIn(x, "maxOutputTokens", config)
            /\ AsIn(x, "temperature", config)
        BY <4>1, <4>3, TypedIs
      <4>5. /\ r.temperature # Unset => IsSet(typed, "temperature", r.temperature)
            /\ r.temperature = Unset => AsIn(typed, "temperature", x)
            /\ AsIn(typed, "maxOutputTokens", x)
        BY <1>10, <4>3, <4>4, TypedIs DEF Set
      <4>6. /\ MaxOutputTokens(r) # Unset => IsSet(typed, "maxOutputTokens", MaxOutputTokens(r))
            /\ MaxOutputTokens(r) = Unset => AsIn(typed, "maxOutputTokens", config)
            /\ r.temperature = Unset => AsIn(typed, "temperature", config)
        BY <4>4, <4>5, SetChain, AsInChain
      <4>7. /\ Wanted("gemini", r)[1] = MaxOutputTokens(r)
            /\ Wanted("gemini", r)[2] = r.temperature
            /\ SettingNames("gemini")[1] = "maxOutputTokens"
            /\ SettingNames("gemini")[2] = "temperature"
        BY DEF Wanted, SettingNames
      <4>8. \A k \in 1..2 :
               /\ Wanted("gemini", r)[k] # Unset
                     => IsSet(typed, SettingNames("gemini")[k], Wanted("gemini", r)[k])
               /\ Wanted("gemini", r)[k] = Unset
                     => AsIn(typed, SettingNames("gemini")[k], config)
        BY <4>5, <4>6, <4>7
      <4> QED BY <1>15, <4>2, <4>8, ConfigSettings
    <3> QED BY <3>1, <3>2
  <2>7. Added("gemini", r, z, d)
    <3>1. r.tools = <<>> => AsIn(z, "tools", Given(r, "tools"))
      BY <1>13, <2>4, AsInChain
    <3>2. r.tools # <<>> => IsSet(z, "tools", Array(GivenTools(r).elements \o d))
      BY <1>13, <2>4, SetChain
    <3>3. d # <<>> /\ \E B : d \in Seq(B)
      <4>1. PICK B : B = {functions}
        OBVIOUS
      <4>2. d \in Seq(B)
        BY <1>7, <4>1
      <4>3. d # <<>>
        BY <1>7
      <4> QED BY <4>2, <4>3
    <3>4. FunctionsIn("gemini", d) = decl
      <4>1. Len(d) = 1 /\ d[1] = functions
        BY <1>7
      <4>2. Field(functions, "functionDeclarations").elements = decl
        BY <1>6 DEF Field, Object, Array
      <4> QED BY <3>3, <4>1, <4>2 DEF FunctionsIn
    <3>5. ASSUME r.tools # <<>> PROVE AreDeclared(decl, r, "parameters")
      <4>1. \A k \in DOMAIN r.tools : Declares(decl[k], r.tools[k], "parameters")
        BY <1>5, SpecOf, DeclarationIs
      <4> QED BY <1>5, <3>5, <4>1, DeclarationsAre
    <3> QED BY <3>1, <3>2, <3>3, <3>4, <3>5 DEF Added, SchemaKey
  <2>8. ToolsAreDeclared("gemini", r, z)
    BY <2>1, <2>7, DeclaresTools
  <2>9. RestIsUnchanged("gemini", r, z)
    <3>1. \A key : \/ key \in Owned("gemini")
                   \/ key \in {"tools", "generationConfig", "instructions", "system",
                               "systemInstruction"}
                   \/ key \in {SettingNames("gemini")[k] : k \in 1..2}
                   \/ AsIn(z, key, Given(r, key))
      <4> SUFFICES ASSUME NEW key, key \notin {"contents", "tools", "generationConfig",
                                               "systemInstruction"}
                   PROVE  AsIn(z, key, Given(r, key))
        BY DEF Owned
      <4>1. AsIn(z, key, t) /\ AsIn(t, key, Given(r, key))
        BY <1>13, <2>4
      <4> QED BY <4>1, AsInChain
    <3> QED BY <3>1, KeepsRest
  <2> QED BY <1>21, <2>3, <2>4, <2>5, <2>6, <2>8, <2>9, NotRefused DEF RequestIsAsAsked
<1> QED BY <1>20, <1>21

\* RequestsAreAsAsked, of any options, settings and tools: the body of each
\* provider holds the SDK's own fields, the typed settings, the declarations of
\* the tools behind those that options name, and every other option as it was
\* given; options that leave no room for these are refused.
THEOREM RequestsAsAsked == Spec => []RequestsAreAsAsked
<1>1. Chosen => RequestsAreAsAsked
  <2> SUFFICES ASSUME Chosen, input.kind = "request" PROVE RequestsAreAsAsked
    BY DEF RequestsAreAsAsked
  <2>1. Asked(input.request)
    BY InputsAssumption DEF Chosen, Asked
  <2> QED BY <2>1, OpenAIAsAsked, AnthropicAsAsked, GeminiAsAsked, CompatibleAsAsked
          DEF RequestsAreAsAsked
<1> QED BY <1>1, AlwaysChosen, PTL
-----------------------------------------------------------------------------
(***************************************************************************)
(* Redaction: headers and the values collected from them.                  *)
(***************************************************************************)
Texts == Seq(Letters)

LEMMA SetHeaderType ==
    ASSUME NEW h \in Seq(Headers), NEW header \in Headers PROVE SetHeader(h, header) \in Seq(Headers)
<1>1. PICK same : same = {k \in DOMAIN h : h[k].name = header.name}
  OBVIOUS
<1>2. CASE same = {}
  BY <1>1, <1>2, AppendProperties DEF SetHeader
<1>3. CASE same # {}
  <2>1. PICK first : first = CHOOSE k \in same : \A j \in same : k <= j
    OBVIOUS
  <2>2. same \in SUBSET Nat
    BY <1>1, LenProperties
  <2>3. first \in same
    BY <1>3, <2>1, <2>2, Least
  <2>4. first \in 1..Len(h)
    BY <1>1, <2>3, LenProperties
  <2>5. SetHeader(h, header) = [h EXCEPT ![first] = header]
    BY <1>1, <1>3, <2>1 DEF SetHeader
  <2> QED BY <2>4, <2>5, ExceptSeq
<1> QED BY <1>2, <1>3

LEMMA ApplyType ==
    ASSUME NEW h \in Seq(Headers), NEW extra \in Seq(Headers)
    PROVE  ApplyExtraHeaders(h, extra) \in Seq(Headers)
<1>1. PICK n \in Nat : n = Len(extra)
  BY LenProperties
<1>2. PICK R : R = Seq(Headers)
  OBVIOUS
<1>3. PICK g : g = [p \in R \X (1..n) |-> SetHeader(p[1], extra[p[2]])]
  OBVIOUS
<1>4. ASSUME NEW x \in R, NEW k \in 1..n
      PROVE  g[<<x, k>>] = SetHeader(x, extra[k]) /\ g[<<x, k>>] \in R
  <2>1. extra[k] \in Headers
    BY <1>1, ElementOfSeq
  <2>2. g[<<x, k>>] = SetHeader(x, extra[k])
    BY <1>3
  <2> QED BY <1>2, <2>1, <2>2, SetHeaderType
<1>5. PICK f \in [0..n -> R] : Iterated(f, n, h, g)
  <2>1. Iterates(n, R, h, g)
    BY <1>2, <1>4 DEF Iterates
  <2> QED BY <2>1, Iteration
<1>6. f = [k \in 0..n |-> IF k = 0 THEN h ELSE SetHeader(f[k - 1], extra[k])]
  <2>1. ASSUME NEW k \in 0..n, k # 0 PROVE g[<<f[k - 1], k>>] = SetHeader(f[k - 1], extra[k])
    <3>1. k \in 1..n /\ f[k - 1] \in R
      BY <2>1
    <3> QED BY <1>4, <3>1
  <2> QED BY <1>5, <2>1 DEF Iterated
<1>7. PICK a : a = CHOOSE e : e = [k \in 0..n |-> IF k = 0 THEN h
                                                  ELSE SetHeader(e[k - 1], extra[k])]
  OBVIOUS
<1>8. a = [k \in 0..n |-> IF k = 0 THEN h ELSE SetHeader(a[k - 1], extra[k])]
  BY <1>6, <1>7
<1>9. ApplyExtraHeaders(h, extra) = a[n]
  BY <1>1, <1>7 DEF ApplyExtraHeaders
<1>10. PICK T : T = {k \in Nat : k <= n => a[k] \in R}
  OBVIOUS
<1>11. 0 \in T
  BY <1>2, <1>8, <1>10
<1>12. ASSUME NEW k \in Nat, k \in T PROVE k + 1 \in T
  <2>1. SUFFICES ASSUME k + 1 <= n PROVE a[k + 1] \in R
    BY <1>10
  <2>2. PICK q \in 1..n : q = k + 1 /\ q - 1 = k /\ q # 0 /\ q \in 0..n
    <3>1. k + 1 \in 1..n /\ k + 1 - 1 = k /\ k + 1 # 0 /\ k + 1 \in 0..n
      BY <2>1
    <3> QED BY <3>1
  <2>3. a[k] \in R
    BY <1>10, <1>12, <2>2
  <2>4. a[q] = SetHeader(a[k], extra[q])
    BY <1>8, <2>2
  <2>5. extra[q] \in Headers
    BY <1>1, ElementOfSeq
  <2> QED BY <1>2, <2>2, <2>3, <2>4, <2>5, SetHeaderType
<1>13. n \in T
  BY <1>11, <1>12, EveryNumber
<1> QED BY <1>2, <1>9, <1>10, <1>13

LEMMA OwnType ==
    ASSUME NEW key \in Texts, NEW own \in OwnHeaders(key) PROVE own \in Seq(Headers)
<1>1. CASE key = <<>>
  BY <1>1 DEF OwnHeaders
<1>2. CASE key # <<>>
  <2>1. <<"s", Space>> \in Seq(Letters)
    BY InputsAssumption
  <2>2. PICK v \in Seq(Letters) : v = <<"s", Space>> \o key
    BY <2>1, ConcatProperties DEF Texts
  <2>4. \A header \in Headers : <<header>> \in Seq(Headers)
    OBVIOUS
  <2>5. /\ [name |-> "authorization", kind |-> "authorization",
            value |-> v, sensitive |-> FALSE] \in Headers
        /\ [name |-> "x-api-key", kind |-> "secret",
            value |-> key, sensitive |-> FALSE] \in Headers
    <3>1. "authorization" \in HeaderNames /\ "x-api-key" \in HeaderNames
      BY InputsAssumption
    <3>2. /\ "authorization" \in {"authorization", "secret", "plain"}
          /\ "secret" \in {"authorization", "secret", "plain"}
      OBVIOUS
    <3>3. v \in Seq(Letters) /\ key \in Seq(Letters)
      BY DEF Texts
    <3>4. [name |-> "authorization", kind |-> "authorization",
           value |-> v, sensitive |-> FALSE] \in Headers
      BY <3>1, <3>2, <3>3, Zenon DEF Headers
    <3>5. [name |-> "x-api-key", kind |-> "secret",
           value |-> key, sensitive |-> FALSE] \in Headers
      BY <3>1, <3>2, <3>3, Zenon DEF Headers
    <3> QED BY <3>4, <3>5
  <2> QED BY <1>2, <2>2, <2>4, <2>5 DEF OwnHeaders
<1> QED BY <1>1, <1>2

LEMMA TokenType == ASSUME NEW value \in Texts PROVE Token(value) \in Texts
<1>1. PICK n \in Nat : n = Len(value) /\ DOMAIN value = 1..n
  BY LenProperties DEF Texts
<1>2. PICK after : after = {k \in DOMAIN value :
                              /\ value[k] # Space
                              /\ \E j \in {k_1 \in DOMAIN value : value[k_1] = Space} : j < k}
  OBVIOUS
<1>3. CASE after = {}
  <2>1. Token(value) = <<>>
    BY <1>2, <1>3 DEF Token
  <2> QED BY <2>1, EmptySeq DEF Texts
<1>4. CASE after # {}
  <2>1. PICK c : c = CHOOSE k \in after : \A j \in after : k <= j
    OBVIOUS
  <2>2. after \in SUBSET Nat
    BY <1>1, <1>2
  <2>3. c \in after
    BY <1>4, <2>1, <2>2, Least
  <2>4. c \in 1..n
    BY <1>1, <1>2, <2>3
  <2>5. Token(value) = SubSeq(value, c, n)
    BY <1>1, <1>2, <1>4, <2>1 DEF Token
  <2>6. \A k \in c..n : value[k] \in Letters
    BY <1>1, <2>4, ElementOfSeq DEF Texts
  <2> QED BY <2>4, <2>5, <2>6, SubSeqProperties DEF Texts
<1> QED BY <1>3, <1>4
LEMMA HeaderSecretsAre ==
    ASSUME NEW header \in Headers
    PROVE  /\ HeaderSecrets(header) \in Seq(Texts)
           /\ \A x : x \in Occurring(HeaderSecrets(header)) <=>
                        /\ IsSensitive(header)
                        /\ x = header.value
                           \/ (header.kind = "authorization" /\ x = Token(header.value))
<1>1. PICK v \in Texts : v = header.value
  BY DEF Headers, Texts
<1>2. PICK t \in Texts : t = Token(header.value)
  BY <1>1, TokenType
<1>3. CASE ~IsSensitive(header)
  <2>1. HeaderSecrets(header) = <<>>
    BY <1>3 DEF HeaderSecrets
  <2> QED BY <1>3, <2>1, ItemsEmpty, EmptySeq
<1>4. CASE IsSensitive(header) /\ header.kind = "authorization"
  <2>1. HeaderSecrets(header) = <<v, t>>
    BY <1>1, <1>2, <1>4 DEF HeaderSecrets
  <2>2. <<v, t>> \in Seq(Texts) /\ Len(<<v, t>>) = 2 /\ <<v, t>>[1] = v /\ <<v, t>>[2] = t
    OBVIOUS
  <2>3. Occurring(<<v, t>>) = {v, t}
    BY <2>2 DEF Occurring
  <2> QED BY <1>1, <1>2, <1>4, <2>1, <2>2, <2>3
<1>5. CASE IsSensitive(header) /\ header.kind # "authorization"
  <2>1. HeaderSecrets(header) = <<v>>
    BY <1>1, <1>5 DEF HeaderSecrets
  <2>2. <<v>> \in Seq(Texts) /\ Len(<<v>>) = 1 /\ <<v>>[1] = v
    OBVIOUS
  <2>3. Occurring(<<v>>) = {v}
    BY <2>2 DEF Occurring
  <2> QED BY <1>1, <1>5, <2>1, <2>2, <2>3
<1> QED BY <1>3, <1>4, <1>5

\* A value is added unless it is empty or there already.
LEMMA AppendUniqueIs ==
    ASSUME NEW values \in Seq(Texts), NEW value \in Texts
    PROVE  /\ AppendUnique(values, value) \in Seq(Texts)
           /\ \A x : x \in Occurring(AppendUnique(values, value)) <=>
                        x \in Occurring(values) \/ (x = value /\ x # <<>>)
<1>1. Occurring(values) = {values[k] : k \in DOMAIN values}
  BY LenProperties DEF Occurring
<1>2. CASE value = <<>> \/ value \in Occurring(values)
  BY <1>1, <1>2 DEF AppendUnique
<1>3. CASE value # <<>> /\ value \notin Occurring(values)
  <2>1. AppendUnique(values, value) = values \o <<value>>
    BY <1>1, <1>3, AppendIsConcat DEF AppendUnique
  <2>2. <<value>> \in Seq(Texts) /\ Len(<<value>>) = 1 /\ <<value>>[1] = value
    OBVIOUS
  <2>3. Occurring(<<value>>) = {value}
    BY <2>2 DEF Occurring
  <2>4. Occurring(values \o <<value>>) = Occurring(values) \cup Occurring(<<value>>)
    BY ZenonT(60), <2>2, ItemsConcat
  <2>5. values \o <<value>> \in Seq(Texts)
    BY <2>2, ConcatProperties
  <2> QED BY <1>3, <2>1, <2>3, <2>4, <2>5
<1> QED BY <1>2, <1>3

\* What the headers hold, all of it.
LEMMA AllSecretsAre ==
    ASSUME NEW headers \in Seq(Headers), NEW key \in Texts, NEW all,
           all = <<key>> \o FlattenSeq([k \in DOMAIN headers |-> HeaderSecrets(headers[k])])
    PROVE  /\ all \in Seq(Texts)
           /\ \A x : x \in Occurring(all) <=> x \in Secrets(headers, <<key>>)
<1>1. PICK n \in Nat : n = Len(headers) /\ DOMAIN headers = 1..n
  BY LenProperties
<1>2. PICK u : u = [k \in 1..n |-> HeaderSecrets(headers[k])]
  OBVIOUS
<1>3. \A k \in 1..n : headers[k] \in Headers
  BY <1>1, ElementOfSeq
<1>4. u \in Seq(Seq(Texts)) /\ Len(u) = n /\ \A k \in 1..n : u[k] = HeaderSecrets(headers[k])
  <2>1. \A k \in 1..n : u[k] = HeaderSecrets(headers[k]) /\ u[k] \in Seq(Texts)
    BY <1>2, <1>3, HeaderSecretsAre
  <2> QED BY <1>2, <2>1, MakeSeq
<1>5. PICK w \in Seq(Texts) : w = FlattenSeq(u)
  BY <1>4, FlattenType
<1>6. <<key>> \in Seq(Texts) /\ Len(<<key>>) = 1 /\ <<key>>[1] = key
  OBVIOUS
<1>7. Occurring(<<key>>) = {key}
  BY <1>6 DEF Occurring
<1>8. all = <<key>> \o w
  BY <1>1, <1>2, <1>5
<1>9. all \in Seq(Texts) /\ Occurring(all) = Occurring(<<key>>) \cup Occurring(w)
  <2>1. PICK s \in Seq(Texts) : s = <<key>>
    BY <1>6
  <2>2. s \o w \in Seq(Texts) /\ Occurring(s \o w) = Occurring(s) \cup Occurring(w)
    BY ItemsConcat, ConcatProperties
  <2> QED BY <1>8, <2>1, <2>2
<1>10. \A x : x \in Occurring(w) <=> \E k \in 1..n : x \in Occurring(u[k])
  BY <1>4, <1>5, ItemsFlatten
<1>11. ASSUME NEW x
       PROVE  x \in Occurring(w) <=>
                 \E k \in 1..n :
                    /\ IsSensitive(headers[k])
                    /\ x = headers[k].value
                       \/ (headers[k].kind = "authorization" /\ x = Token(headers[k].value))
  <2>1. ASSUME NEW k \in 1..n
        PROVE  x \in Occurring(u[k]) <=>
                  /\ IsSensitive(headers[k])
                  /\ x = headers[k].value
                     \/ (headers[k].kind = "authorization" /\ x = Token(headers[k].value))
    <3>1. PICK header \in Headers : header = headers[k]
      BY <1>3
    <3>2. x \in Occurring(HeaderSecrets(header)) <=>
             /\ IsSensitive(header)
             /\ x = header.value
                \/ (header.kind = "authorization" /\ x = Token(header.value))
      BY HeaderSecretsAre
    <3> QED BY <1>4, <3>1, <3>2
  <2> QED BY <1>10, <2>1
<1>12. ASSUME NEW x
       PROVE  x \in Secrets(headers, <<key>>) <=> (x = key \/ x \in Occurring(w))
  <2>1. {<<key>>[k] : k \in DOMAIN <<key>>} = {key}
    BY <1>6
  <2>2. \A k \in 1..n : headers[k].kind = "authorization" => IsSensitive(headers[k])
    BY DEF IsSensitive
  <2>3. /\ x \in {headers[k].value : k \in {j \in DOMAIN headers : IsSensitive(headers[j])}}
              <=> \E k \in 1..n : IsSensitive(headers[k]) /\ x = headers[k].value
        /\ x \in {Token(headers[k].value)
                    : k \in {j \in DOMAIN headers : headers[j].kind = "authorization"}}
              <=> \E k \in 1..n : headers[k].kind = "authorization" /\ x = Token(headers[k].value)
    BY <1>1
  <2>4. x \in Secrets(headers, <<key>>) <=>
           \/ x = key
           \/ \E k \in 1..n : IsSensitive(headers[k]) /\ x = headers[k].value
           \/ \E k \in 1..n : headers[k].kind = "authorization" /\ x = Token(headers[k].value)
    BY <2>1, <2>3 DEF Secrets
  <2> QED BY <1>11, <2>2, <2>4
<1> QED BY <1>7, <1>9, <1>12
\* The values collected are the secrets, without an empty one.
LEMMA CollectedAre ==
    ASSUME NEW headers \in Seq(Headers), NEW key \in Texts
    PROVE  /\ CollectSensitiveValues(headers, <<key>>) \in Seq(Texts)
           /\ \A x : x \in Occurring(CollectSensitiveValues(headers, <<key>>)) <=>
                        x \in Secrets(headers, <<key>>) /\ x # <<>>
<1>1. PICK all : all = <<key>> \o FlattenSeq([k \in DOMAIN headers |-> HeaderSecrets(headers[k])])
  OBVIOUS
<1>2. all \in Seq(Texts) /\ \A x : x \in Occurring(all) <=> x \in Secrets(headers, <<key>>)
  BY <1>1, AllSecretsAre
<1>3. PICK n \in Nat : n = Len(all)
  BY <1>2, LenProperties
<1>4. PICK R : R = Seq(Texts)
  OBVIOUS
<1>5. PICK g : g = [p \in R \X (1..n) |-> AppendUnique(p[1], all[p[2]])]
  OBVIOUS
<1>6. ASSUME NEW x \in R, NEW k \in 1..n
      PROVE  g[<<x, k>>] = AppendUnique(x, all[k]) /\ g[<<x, k>>] \in R
  <2>1. all[k] \in Texts
    BY <1>2, <1>3, ElementOfSeq
  <2>2. g[<<x, k>>] = AppendUnique(x, all[k])
    BY <1>5
  <2> QED BY <1>4, <2>1, <2>2, AppendUniqueIs
<1>7. PICK f \in [0..n -> R] : Iterated(f, n, <<>>, g)
  <2>1. <<>> \in R
    BY <1>4, EmptySeq
  <2>2. Iterates(n, R, <<>>, g)
    BY <1>6, <2>1 DEF Iterates
  <2> QED BY <2>2, Iteration
<1>8. f = [k \in 0..n |-> IF k = 0 THEN <<>> ELSE AppendUnique(f[k - 1], all[k])]
  <2>1. ASSUME NEW k \in 0..n, k # 0 PROVE g[<<f[k - 1], k>>] = AppendUnique(f[k - 1], all[k])
    <3>1. k \in 1..n /\ f[k - 1] \in R
      BY <2>1
    <3> QED BY <1>6, <3>1
  <2> QED BY <1>7, <2>1 DEF Iterated
<1>9. PICK a : a = CHOOSE e : e = [k \in 0..n |-> IF k = 0 THEN <<>>
                                                  ELSE AppendUnique(e[k - 1], all[k])]
  OBVIOUS
<1>10. a = [k \in 0..n |-> IF k = 0 THEN <<>> ELSE AppendUnique(a[k - 1], all[k])]
  BY <1>8, <1>9
<1>11. CollectSensitiveValues(headers, <<key>>) = a[n]
  BY <1>1, <1>3, <1>9 DEF CollectSensitiveValues
<1>12. PICK T : T = {k \in Nat : k <= n =>
                       /\ a[k] \in R
                       /\ \A x : x \in Occurring(a[k]) <=> x # <<>> /\ \E j \in 1..k : x = all[j]}
  OBVIOUS
<1>13. 0 \in T
  <2>1. a[0] = <<>> /\ <<>> \in R
    BY <1>4, <1>10, EmptySeq
  <2> QED BY <1>12, <2>1, ItemsEmpty
<1>14. ASSUME NEW k \in Nat, k \in T PROVE k + 1 \in T
  <2>1. SUFFICES ASSUME k + 1 <= n
                 PROVE  /\ a[k + 1] \in R
                        /\ \A x : x \in Occurring(a[k + 1]) <=>
                                     x # <<>> /\ \E j \in 1..(k + 1) : x = all[j]
    BY <1>12
  <2>2. PICK q \in 1..n : q = k + 1 /\ q - 1 = k /\ q # 0 /\ q \in 0..n /\ k <= n
    <3>1. k + 1 \in 1..n /\ k + 1 - 1 = k /\ k + 1 # 0 /\ k + 1 \in 0..n /\ k <= n
      BY <2>1
    <3> QED BY <3>1
  <2>3. /\ a[k] \in R
        /\ \A x : x \in Occurring(a[k]) <=> x # <<>> /\ \E j \in 1..k : x = all[j]
    BY <1>12, <1>14, <2>2
  <2>4. a[q] = AppendUnique(a[k], all[q])
    BY <1>10, <2>2
  <2>5. PICK value \in Texts : value = all[q]
    BY <1>2, <1>3, ElementOfSeq
  <2>6. PICK values \in Seq(Texts) : values = a[k]
    BY <1>4, <2>3
  <2>7. /\ a[q] \in R
        /\ \A x : x \in Occurring(a[q]) <=> x \in Occurring(a[k]) \/ (x = all[q] /\ x # <<>>)
    <3>1. /\ AppendUnique(values, value) \in Seq(Texts)
          /\ \A x : x \in Occurring(AppendUnique(values, value)) <=>
                       x \in Occurring(values) \/ (x = value /\ x # <<>>)
      BY AppendUniqueIs
    <3> QED BY <1>4, <2>4, <2>5, <2>6, <3>1
  <2>8. 1..q = 1..k \cup {q}
    BY <2>2
  <2> QED BY <2>2, <2>3, <2>7, <2>8
<1>15. n \in T
  BY <1>13, <1>14, EveryNumber
<1>16. a[n] \in R /\ \A x : x \in Occurring(a[n]) <=> x # <<>> /\ \E j \in 1..n : x = all[j]
  BY <1>12, <1>15
<1>17. \A x : x \in Occurring(all) <=> \E j \in 1..n : x = all[j]
  BY <1>3 DEF Occurring
<1> QED BY <1>2, <1>4, <1>11, <1>16, <1>17
-----------------------------------------------------------------------------
(***************************************************************************)
(* Redaction: one place of a text.                                         *)
(***************************************************************************)
\* secret begins at place k of text.
Found(secret, text, k) ==
    /\ secret # <<>> /\ k + Len(secret) - 1 <= Len(text)
    /\ \A i \in 1..Len(secret) : text[k + i - 1] = secret[i]

LEMMA OccursIs ==
    ASSUME NEW A, NEW secret \in Seq(A), NEW B, NEW text \in Seq(B), NEW k \in 1..Len(text)
    PROVE  OccursAt(secret, text, k) <=> Found(secret, text, k)
<1>1. PICK m \in Nat : m = Len(secret)
  BY LenProperties
<1>2. PICK n \in Nat : n = Len(text)
  BY LenProperties
<1>3. CASE secret = <<>> \/ ~(k + m - 1 <= n)
  BY <1>1, <1>2, <1>3 DEF OccursAt, Found
<1>4. CASE secret # <<>> /\ k + m - 1 <= n
  <2>0. m # 0
    BY <1>1, <1>4, EmptySeq
  <2>1. PICK j \in Nat : j = k + m - 1 /\ k <= j /\ j <= n /\ j - k + 1 = m
    BY <1>2, <1>4, <2>0
  <2>2. PICK w : w = SubSeq(text, k, j)
    OBVIOUS
  <2>3. w \in Seq(B) /\ Len(w) = m /\ \A i \in 1..m : w[i] = text[k + i - 1]
    <3>1. \A i \in k..j : text[i] \in B
      BY <1>2, <2>1, ElementOfSeq
    <3> QED BY <1>2, <2>1, <2>2, <3>1, SubSeqProperties
  <2>4. PICK C : C = A \cup B
    OBVIOUS
  <2>5. secret \in Seq(C) /\ w \in Seq(C)
    BY <2>3, <2>4, SeqMonotonic
  <2>6. w = secret <=> \A i \in 1..m : text[k + i - 1] = secret[i]
    BY <1>1, <2>3, <2>5, SeqEqual
  <2> QED BY <1>1, <1>2, <1>4, <2>1, <2>2, <2>6 DEF OccursAt, Found
<1> QED BY <1>3, <1>4
LEMMA MatchingIs ==
    ASSUME NEW text \in Texts, NEW values \in Seq(Texts), NEW k \in 1..Len(text)
    PROVE  \A s : s \in Matching(text, values, k) <=> s \in Occurring(values) /\ Found(s, text, k)
<1>1. Occurring(values) = {values[j] : j \in DOMAIN values}
  BY LenProperties DEF Occurring
<1>2. ASSUME NEW s \in Occurring(values) PROVE s \in Texts
  BY <1>2, ElementOfSeq DEF Occurring
<1>3. ASSUME NEW s \in Occurring(values) PROVE OccursAt(s, text, k) <=> Found(s, text, k)
  <2>1. s \in Seq(Letters) /\ text \in Seq(Letters)
    BY <1>2 DEF Texts
  <2> QED BY <2>1, OccursIs
<1> QED BY <1>1, <1>3 DEF Matching

LEMMA LongestIs ==
    ASSUME NEW matching, matching # {}, NEW n \in Nat, NEW values,
           \A s \in matching : Len(s) \in Nat /\ Len(s) <= n
    PROVE  /\ Match(matching, values) \in matching
           /\ \A s \in matching : Len(s) <= Len(Match(matching, values))
<1>1. PICK S : S = {n - Len(s) : s \in matching}
  OBVIOUS
<1>2. S \in SUBSET Nat /\ S # {}
  BY <1>1
<1>3. PICK m \in S : \A j \in S : m <= j
  BY <1>2, Least
<1>4. PICK longest \in matching : m = n - Len(longest)
  BY <1>1, <1>3
<1>5. ASSUME NEW s \in matching PROVE Len(s) <= Len(longest)
  <2>1. n - Len(s) \in S
    BY <1>1
  <2>2. n - Len(longest) <= n - Len(s)
    BY <1>3, <1>4, <2>1
  <2> QED BY <1>4, <2>2
<1> QED BY <1>4, <1>5 DEF Match

\* How far the loop goes from place k, and what it appends there.
Skips(text, values, k) ==
    IF Matching(text, values, k) = {} THEN 1
    ELSE Len(Match(Matching(text, values, k), values))

Puts(text, values, k) == IF Matching(text, values, k) = {} THEN text[k] ELSE Marker

Outputs == Letters \cup {Marker}

LEMMA SkipsIs ==
    ASSUME NEW text \in Texts, NEW values \in Seq(Texts), NEW k \in 1..Len(text)
    PROVE  /\ Skips(text, values, k) \in Nat /\ Skips(text, values, k) >= 1
           /\ k + Skips(text, values, k) \in 1..(Len(text) + 1)
           /\ Matching(text, values, k) # {} =>
                 /\ \E s \in Matching(text, values, k) : Len(s) = Skips(text, values, k)
                 /\ \A s \in Matching(text, values, k) : Len(s) <= Skips(text, values, k)
           /\ Puts(text, values, k) \in Outputs
           /\ Puts(text, values, k) = Marker <=> Matching(text, values, k) # {}
<1>1. PICK n \in Nat : n = Len(text) /\ k \in 1..n
  BY LenProperties DEF Texts
<1>2. PICK matching : matching = Matching(text, values, k)
  OBVIOUS
<1>3. text[k] \in Letters /\ text[k] # Marker
  <2>1. text[k] \in Letters
    BY ElementOfSeq DEF Texts
  <2> QED BY <2>1, LettersAssumption
<1>4. CASE matching = {}
  <2>1. Skips(text, values, k) = 1 /\ Puts(text, values, k) = text[k]
    BY <1>2, <1>4 DEF Skips, Puts
  <2>2. k + 1 \in 1..(n + 1)
    BY <1>1
  <2> QED BY <1>1, <1>2, <1>3, <1>4, <2>1, <2>2 DEF Outputs
<1>5. CASE matching # {}
  <2>1. ASSUME NEW s \in matching PROVE Len(s) \in Nat /\ Len(s) >= 1 /\ k + Len(s) - 1 <= n
    <3>1. s \in Occurring(values) /\ Found(s, text, k)
      BY <1>2, MatchingIs
    <3>2. s \in Seq(Letters)
      BY <3>1, ElementOfSeq DEF Occurring, Texts
    <3>3. s # <<>> /\ k + Len(s) - 1 <= n
      BY <1>1, <3>1 DEF Found
    <3>4. Len(s) \in Nat \ {0}
      BY <3>2, <3>3, EmptySeq
    <3> QED BY <3>3, <3>4
  <2>2. \A s \in matching : Len(s) \in Nat /\ Len(s) <= n
    BY <1>1, <2>1
  <2>3. PICK longest \in matching : /\ longest = Match(matching, values)
                                    /\ \A s \in matching : Len(s) <= Len(longest)
    BY <1>5, <2>2, LongestIs
  <2>4. Skips(text, values, k) = Len(longest) /\ Puts(text, values, k) = Marker
    BY <1>2, <1>5, <2>3 DEF Skips, Puts
  <2>5. Len(longest) \in Nat /\ Len(longest) >= 1 /\ k + Len(longest) - 1 <= n
    BY <2>1, <2>3
  <2>6. k + Len(longest) \in 1..(n + 1)
    BY <1>1, <2>5
  <2> QED BY <1>1, <1>2, <1>5, <2>3, <2>4, <2>5, <2>6 DEF Outputs
<1> QED BY <1>4, <1>5
-----------------------------------------------------------------------------
(***************************************************************************)
(* Redaction: the pass through a text.  at[i] is the place the loop is at  *)
(* when it appends element i of the result, and the last one is the end.   *)
(***************************************************************************)
Pass(result, at, text, values, start) ==
    /\ result \in Seq(Outputs)
    /\ at \in [1..(Len(result) + 1) -> 1..(Len(text) + 1)]
    /\ at[1] = start /\ at[Len(result) + 1] = Len(text) + 1
    /\ \A i \in 1..Len(result) :
          /\ at[i] <= Len(text)
          /\ at[i + 1] = at[i] + Skips(text, values, at[i])
          /\ result[i] = Puts(text, values, at[i])

\* from of Redact.
GoesFrom(from, text, values) ==
    from = [k \in 1..(Len(text) + 1) |->
               IF k > Len(text) THEN <<>>
               ELSE <<Puts(text, values, k)>> \o from[k + Skips(text, values, k)]]

LEMMA FromExists ==
    ASSUME NEW text \in Texts, NEW values \in Seq(Texts)
    PROVE  \E from \in [1..(Len(text) + 1) -> Seq(Outputs)] : GoesFrom(from, text, values)
<1>1. PICK n \in Nat : n = Len(text)
  BY LenProperties DEF Texts
<1>2. PICK S : S = 1..(n + 1)
  OBVIOUS
<1>3. PICK R : R = Seq(Outputs)
  OBVIOUS
<1>4. PICK rank : rank = [k \in S |-> n + 1 - k]
  OBVIOUS
<1>5. PICK puts : puts = [k \in 1..n |-> Puts(text, values, k)]
  OBVIOUS
<1>6. PICK next : next = [k \in 1..n |-> k + Skips(text, values, k)]
  OBVIOUS
<1>7. PICK step : step = [f \in [S -> R] |->
                            [k \in S |-> IF k > n THEN <<>> ELSE <<puts[k]>> \o f[next[k]]]]
  OBVIOUS
<1>8. ASSUME NEW k \in S, ~(k > n)
      PROVE  /\ k \in 1..n /\ puts[k] \in Outputs
             /\ next[k] \in S /\ rank[next[k]] < rank[k]
  <2>1. k \in 1..n
    BY <1>2, <1>8
  <2>2. PICK m \in Nat : m = Skips(text, values, k) /\ m >= 1 /\ k + m \in 1..(n + 1)
    BY <1>1, <2>1, SkipsIs
  <2>3. puts[k] \in Outputs /\ next[k] = k + m
    BY <1>1, <1>5, <1>6, <2>1, <2>2, SkipsIs
  <2>4. rank[k + m] = n + 1 - (k + m) /\ rank[k] = n + 1 - k
    BY <1>2, <1>4, <2>2
  <2> QED BY <1>2, <2>1, <2>2, <2>3, <2>4
<1>9. step \in [[S -> R] -> [S -> R]]
  <2>1. ASSUME NEW f \in [S -> R], NEW k \in S
        PROVE  (IF k > n THEN <<>> ELSE <<puts[k]>> \o f[next[k]]) \in R
    <3>1. CASE k > n
      BY <1>3, <3>1, EmptySeq
    <3>2. CASE ~(k > n)
      <4>1. puts[k] \in Outputs /\ next[k] \in S
        BY <1>8, <3>2
      <4>2. PICK t \in Seq(Outputs) : t = f[next[k]]
        BY <1>3, <4>1
      <4>3. PICK s \in Seq(Outputs) : s = <<puts[k]>>
        <5>1. PICK x \in Outputs : x = puts[k]
          BY <4>1
        <5>2. <<x>> \in Seq(Outputs)
          OBVIOUS
        <5> QED BY <5>1, <5>2
      <4>4. s \o t \in Seq(Outputs)
        BY ConcatProperties
      <4> QED BY <1>3, <3>2, <4>2, <4>3, <4>4
    <3> QED BY <3>1, <3>2
  <2> QED BY <1>7, <2>1
<1>10. ASSUME NEW k \in S, NEW f \in [S -> R], NEW h \in [S -> R],
              \A m \in S : rank[m] < rank[k] => f[m] = h[m]
       PROVE  step[f][k] = step[h][k]
  <2>1. ~(k > n) => f[next[k]] = h[next[k]]
    BY <1>8, <1>10
  <2> QED BY <1>7, <2>1
<1>11. Recurses(step, S, R, rank)
  <2>1. rank \in [S -> Nat]
    BY <1>2, <1>4
  <2>2. R # {}
    BY <1>3, EmptySeq
  <2> QED BY <1>9, <1>10, <2>1, <2>2 DEF Recurses, LooksBelow
<1>12. PICK f \in [S -> R] : f = step[f]
  BY <1>11, Recursion
<1>13. f = [k \in S |-> IF k > n THEN <<>> ELSE <<puts[k]>> \o f[next[k]]]
  BY <1>7, <1>12
<1>14. ASSUME NEW k \in S
       PROVE  f[k] = IF k > n THEN <<>>
                     ELSE <<Puts(text, values, k)>> \o f[k + Skips(text, values, k)]
  BY <1>5, <1>6, <1>8, <1>13
<1>15. GoesFrom(f, text, values)
  BY <1>1, <1>2, <1>13, <1>14 DEF GoesFrom
<1> QED BY <1>1, <1>2, <1>3, <1>15

LEMMA RedactIs ==
    ASSUME NEW text \in Texts, NEW values \in Seq(Texts)
    PROVE  \E from : GoesFrom(from, text, values) /\ Redact(text, values) = from[1]
<1>1. PICK f : GoesFrom(f, text, values)
  BY FromExists
<1>2. \A e : GoesFrom(e, text, values) <=>
              e = [k \in 1..(Len(text) + 1) |->
                     IF k > Len(text) THEN <<>>
                     ELSE IF Matching(text, values, k) = {} THEN <<text[k]>> \o e[k + 1]
                     ELSE <<Marker>> \o e[k + Len(Match(Matching(text, values, k), values))]]
  BY DEF GoesFrom, Skips, Puts
<1>3. PICK e : e = CHOOSE from :
              from = [k \in 1..(Len(text) + 1) |->
                     IF k > Len(text) THEN <<>>
                     ELSE IF Matching(text, values, k) = {} THEN <<text[k]>> \o from[k + 1]
                     ELSE <<Marker>> \o from[k + Len(Match(Matching(text, values, k), values))]]
  OBVIOUS
<1>4. GoesFrom(e, text, values)
  BY <1>1, <1>2, <1>3
<1>5. Redact(text, values) = e[1]
  BY <1>3 DEF Redact
<1> QED BY <1>4, <1>5
LEMMA PassEnds ==
    ASSUME NEW text \in Texts, NEW values
    PROVE  \E at : Pass(<<>>, at, text, values, Len(text) + 1)
<1>1. PICK n \in Nat : n = Len(text)
  BY LenProperties DEF Texts
<1>2. PICK at : at = [i \in 1..1 |-> n + 1]
  OBVIOUS
<1>3. <<>> \in Seq(Outputs) /\ Len(<<>>) = 0
  BY EmptySeq
<1>4. at \in [1..1 -> 1..(n + 1)] /\ at[1] = n + 1
  BY <1>2
<1> QED BY <1>1, <1>3, <1>4 DEF Pass

LEMMA PassGoesOn ==
    ASSUME NEW text \in Texts, NEW values \in Seq(Texts), NEW k \in 1..Len(text), NEW rest, NEW next,
           Pass(rest, next, text, values, k + Skips(text, values, k))
    PROVE  \E at : Pass(<<Puts(text, values, k)>> \o rest, at, text, values, k)
<1>1. PICK n \in Nat : n = Len(text) /\ k \in 1..n
  BY LenProperties DEF Texts
<1>2. PICK m \in Nat : m = Len(rest)
  BY LenProperties DEF Pass
<1>3. PICK p \in Outputs : p = Puts(text, values, k)
  BY SkipsIs
<1>4. PICK s \in Seq(Outputs) : s = <<p>> /\ Len(s) = 1 /\ s[1] = p
  <2>1. <<p>> \in Seq(Outputs) /\ Len(<<p>>) = 1 /\ <<p>>[1] = p
    OBVIOUS
  <2> QED BY <2>1
<1>0. PICK result : result = s \o rest
  OBVIOUS
<1>5. /\ result \in Seq(Outputs) /\ Len(result) = m + 1
      /\ result[1] = p /\ \A i \in 1..m : result[i + 1] = rest[i]
  <2>1. rest \in Seq(Outputs)
    BY DEF Pass
  <2>2. /\ result \in Seq(Outputs) /\ Len(result) = 1 + m
        /\ \A i \in 1..1 : result[i] = s[i]
        /\ \A i \in 1..m : result[1 + i] = rest[i]
    BY <1>0, <1>2, <1>4, <2>1, ConcatIs
  <2>3. 1 + m = m + 1 /\ \A i \in 1..m : 1 + i = i + 1
    OBVIOUS
  <2> QED BY <1>4, <2>2, <2>3
<1>6. PICK at : at = [i \in 1..(m + 2) |-> IF i = 1 THEN k ELSE next[i - 1]]
  OBVIOUS
<1>7. next \in [1..(m + 1) -> 1..(n + 1)]
  BY <1>1, <1>2 DEF Pass
<1>8. ASSUME NEW i \in 1..(m + 1) PROVE at[i + 1] = next[i]
  <2>1. i + 1 \in 1..(m + 2) /\ i + 1 # 1 /\ i + 1 - 1 = i
    OBVIOUS
  <2> QED BY <1>6, <2>1
<1>9. at \in [1..(m + 2) -> 1..(n + 1)]
  <2>1. ASSUME NEW i \in 1..(m + 2), i # 1 PROVE next[i - 1] \in 1..(n + 1)
    <3>1. i - 1 \in 1..(m + 1)
      BY <2>1
    <3> QED BY <1>7, <3>1
  <2>2. k \in 1..(n + 1)
    BY <1>1
  <2> QED BY <1>6, <2>1, <2>2
<1>10. at[1] = k
  BY <1>6
<1>11. at[m + 2] = n + 1
  <2>1. m + 1 \in 1..(m + 1) /\ m + 1 + 1 = m + 2
    OBVIOUS
  <2> QED BY <1>1, <1>2, <1>8, <2>1 DEF Pass
<1>12. ASSUME NEW i \in 1..(m + 1)
       PROVE  /\ at[i] <= n /\ at[i + 1] = at[i] + Skips(text, values, at[i])
              /\ result[i] = Puts(text, values, at[i])
  <2>1. CASE i = 1
    <3>1. at[i + 1] = next[1]
      BY <1>8, <2>1
    <3>2. next[1] = k + Skips(text, values, k)
      BY DEF Pass
    <3> QED BY <1>1, <1>3, <1>5, <1>10, <2>1, <3>1, <3>2
  <2>2. CASE i # 1
    <3>1. PICK j \in 1..m : i = j + 1 /\ j \in 1..(m + 1)
      <4>1. i - 1 \in 1..m /\ i = i - 1 + 1 /\ i - 1 \in 1..(m + 1)
        BY <2>2
      <4> QED BY <4>1
    <3>2. at[j + 1] = next[j] /\ at[i + 1] = next[j + 1] /\ result[j + 1] = rest[j]
      BY <1>5, <1>8, <3>1
    <3>3. /\ next[j] <= n /\ next[j + 1] = next[j] + Skips(text, values, next[j])
          /\ rest[j] = Puts(text, values, next[j])
      BY <1>1, <1>2 DEF Pass
    <3> QED BY <3>1, <3>2, <3>3
  <2> QED BY <2>1, <2>2
<1>13. m + 1 + 1 = m + 2
  OBVIOUS
<1>14. Pass(result, at, text, values, k)
  BY <1>1, <1>5, <1>9, <1>10, <1>11, <1>12, <1>13 DEF Pass
<1> QED BY <1>0, <1>3, <1>4, <1>14

LEMMA RedactPasses ==
    ASSUME NEW text \in Texts, NEW values \in Seq(Texts)
    PROVE  \E at : Pass(Redact(text, values), at, text, values, 1)
<1>1. PICK from : GoesFrom(from, text, values) /\ Redact(text, values) = from[1]
  BY RedactIs
<1>2. PICK n \in Nat : n = Len(text)
  BY LenProperties DEF Texts
<1>3. PICK S : S = 1..(n + 1)
  OBVIOUS
<1>4. PICK rank : rank = [k \in S |-> n + 1 - k]
  OBVIOUS
<1>5. PICK T : T = {k \in S : \E at : Pass(from[k], at, text, values, k)}
  OBVIOUS
<1>6. ASSUME NEW k \in S, \A j \in S : rank[j] < rank[k] => j \in T
      PROVE  k \in T
  <2>1. CASE k > n
    <3>1. from[k] = <<>> /\ k = n + 1
      BY <1>1, <1>2, <1>3, <2>1 DEF GoesFrom
    <3>2. \E at : Pass(<<>>, at, text, values, n + 1)
      BY <1>2, PassEnds
    <3> QED BY <1>5, <3>1, <3>2
  <2>2. CASE ~(k > n)
    <3>1. k \in 1..n
      BY <1>3, <2>2
    <3>2. PICK j \in S : j = k + Skips(text, values, k) /\ k < j
      BY <1>2, <1>3, <3>1, SkipsIs
    <3>3. rank[j] = n + 1 - j /\ rank[k] = n + 1 - k
      BY <1>4
    <3>4. rank[j] < rank[k]
      BY <1>3, <3>2, <3>3
    <3>5. PICK next : Pass(from[j], next, text, values, j)
      BY <1>5, <1>6, <3>4
    <3>6. from[k] = <<Puts(text, values, k)>> \o from[j]
      BY <1>1, <1>2, <1>3, <2>2, <3>2 DEF GoesFrom
    <3>7. \E at : Pass(<<Puts(text, values, k)>> \o from[j], at, text, values, k)
      BY <1>2, <3>1, <3>2, <3>5, PassGoesOn
    <3> QED BY <1>5, <3>6, <3>7
  <2> QED BY <2>1, <2>2
<1>7. rank \in [S -> Nat]
  BY <1>3, <1>4
<1>8. S \subseteq T
  BY <1>6, <1>7, RankInduction
<1>9. 1 \in S
  BY <1>3
<1> QED BY <1>1, <1>5, <1>8, <1>9

LEMMA PassesAgree ==
    ASSUME NEW text \in Texts, NEW values, NEW start,
           NEW r, NEW at, Pass(r, at, text, values, start),
           NEW s, NEW to, Pass(s, to, text, values, start)
    PROVE  \A i \in 1..(Len(r) + 1) : i \in 1..(Len(s) + 1) => at[i] = to[i]
<1>1. PICK m \in Nat : m = Len(r)
  BY LenProperties DEF Pass
<1>2. PICK n \in Nat : n = Len(s)
  BY LenProperties DEF Pass
<1>3. PICK T : T = {i \in Nat : i <= m /\ i <= n => at[i + 1] = to[i + 1]}
  OBVIOUS
<1>4. 0 \in T
  <2>1. at[1] = to[1] /\ 0 + 1 = 1
    BY DEF Pass
  <2> QED BY <1>3, <2>1
<1>5. ASSUME NEW i \in Nat, i \in T PROVE i + 1 \in T
  <2>1. SUFFICES ASSUME i + 1 <= m, i + 1 <= n PROVE at[i + 1 + 1] = to[i + 1 + 1]
    BY <1>3
  <2>2. PICK j \in 1..m : j = i + 1 /\ j \in 1..n /\ i <= m /\ i <= n
    <3>1. i + 1 \in 1..m /\ i + 1 \in 1..n /\ i <= m /\ i <= n
      BY <2>1
    <3> QED BY <3>1
  <2>3. at[j] = to[j]
    BY <1>3, <1>5, <2>2
  <2>4. at[j + 1] = at[j] + Skips(text, values, at[j])
    BY <1>1 DEF Pass
  <2>5. to[j + 1] = to[j] + Skips(text, values, to[j])
    BY <1>2, <2>2 DEF Pass
  <2> QED BY <2>2, <2>3, <2>4, <2>5
<1>6. Nat \subseteq T
  BY <1>4, <1>5, EveryNumber
<1>7. ASSUME NEW i \in 1..(m + 1), i \in 1..(n + 1) PROVE at[i] = to[i]
  <2>1. i - 1 \in Nat /\ i - 1 <= m /\ i - 1 <= n /\ i - 1 + 1 = i
    BY <1>7
  <2>2. i - 1 \in T
    BY <1>6, <2>1
  <2> QED BY <1>3, <2>1, <2>2
<1> QED BY <1>1, <1>2, <1>7

LEMMA PassNotLonger ==
    ASSUME NEW text \in Texts, NEW values, NEW start,
           NEW r, NEW at, Pass(r, at, text, values, start),
           NEW s, NEW to, Pass(s, to, text, values, start)
    PROVE  ~(Len(r) < Len(s))
<1>1. PICK m \in Nat : m = Len(r)
  BY LenProperties DEF Pass
<1>2. PICK n \in Nat : n = Len(s)
  BY LenProperties DEF Pass
<1>3. PICK l \in Nat : l = Len(text)
  BY LenProperties DEF Texts
<1> SUFFICES ASSUME m < n PROVE FALSE
  BY <1>1, <1>2
<1>4. m + 1 \in 1..(m + 1) /\ m + 1 \in 1..(n + 1) /\ m + 1 \in 1..n
  OBVIOUS
<1>5. at[m + 1] = to[m + 1]
  BY <1>1, <1>2, <1>4, PassesAgree
<1>6. at[m + 1] = l + 1
  BY <1>1, <1>3 DEF Pass
<1>7. to[m + 1] <= l
  BY <1>2, <1>3, <1>4 DEF Pass
<1> QED BY <1>5, <1>6, <1>7

\* Only what Redact returns comes of a pass.
LEMMA PassIsRedact ==
    ASSUME NEW text \in Texts, NEW values \in Seq(Texts),
           NEW r, NEW at, Pass(r, at, text, values, 1)
    PROVE  r = Redact(text, values)
<1>1. PICK s : s = Redact(text, values)
  OBVIOUS
<1>2. PICK to : Pass(s, to, text, values, 1)
  BY <1>1, RedactPasses
<1>3. ~(Len(r) < Len(s)) /\ ~(Len(s) < Len(r))
  BY <1>2, PassNotLonger
<1>4. r \in Seq(Outputs) /\ s \in Seq(Outputs)
  BY <1>2 DEF Pass
<1>5. PICK n \in Nat : n = Len(r) /\ n = Len(s)
  BY <1>3, <1>4, LenProperties
<1>6. ASSUME NEW i \in 1..n PROVE r[i] = s[i]
  <2>1. i \in 1..(n + 1)
    OBVIOUS
  <2>2. at[i] = to[i]
    <3>1. PICK start : start = 1
      OBVIOUS
    <3>2. Pass(r, at, text, values, start) /\ Pass(s, to, text, values, start)
      BY <1>2, <3>1
    <3>3. \A j \in 1..(Len(r) + 1) : j \in 1..(Len(s) + 1) => at[j] = to[j]
      BY <3>2, PassesAgree
    <3> QED BY <1>5, <2>1, <3>3
  <2>3. r[i] = Puts(text, values, at[i]) /\ s[i] = Puts(text, values, to[i])
    BY <1>2, <1>5 DEF Pass
  <2> QED BY <2>2, <2>3
<1> QED BY <1>1, <1>4, <1>5, <1>6, SeqEqual
LEMMA PassTypes ==
    ASSUME NEW text \in Texts, NEW values, NEW r, NEW at, NEW start, Pass(r, at, text, values, start)
    PROVE  /\ Len(r) \in Nat /\ Len(text) \in Nat
           /\ \A i \in 1..Len(r) : at[i] \in 1..Len(text)
           /\ \A i \in 1..(Len(r) + 1) : at[i] \in 1..(Len(text) + 1)
<1>1. PICK m \in Nat : m = Len(r)
  BY LenProperties DEF Pass
<1>2. PICK n \in Nat : n = Len(text)
  BY LenProperties DEF Texts
<1>3. \A i \in 1..(m + 1) : at[i] \in 1..(n + 1)
  BY <1>1, <1>2 DEF Pass
<1>4. ASSUME NEW i \in 1..m PROVE at[i] \in 1..n
  <2>1. at[i] \in 1..(n + 1)
    <3>1. i \in 1..(m + 1)
      OBVIOUS
    <3> QED BY <1>3, <3>1
  <2>2. at[i] <= n
    BY <1>1, <1>2 DEF Pass
  <2> QED BY <2>1, <2>2
<1> QED BY <1>1, <1>2, <1>3, <1>4

\* What is no marker was put there alone.
LEMMA PlainIs ==
    ASSUME NEW text \in Texts, NEW values \in Seq(Texts), NEW r, NEW at,
           Pass(r, at, text, values, 1)
    PROVE  \A i \in 1..Len(r) : r[i] # Marker =>
              /\ Matching(text, values, at[i]) = {}
              /\ at[i + 1] = at[i] + 1 /\ r[i] = text[at[i]]
<1> SUFFICES ASSUME NEW i \in 1..Len(r), r[i] # Marker
             PROVE  /\ Matching(text, values, at[i]) = {}
                    /\ at[i + 1] = at[i] + 1 /\ r[i] = text[at[i]]
  OBVIOUS
<1>1. PICK k \in 1..Len(text) : k = at[i]
  BY PassTypes
<1>2. at[i + 1] = k + Skips(text, values, k) /\ r[i] = Puts(text, values, k)
  BY <1>1 DEF Pass
<1>3. Matching(text, values, k) = {}
  BY <1>2, SkipsIs
<1>4. Skips(text, values, k) = 1 /\ Puts(text, values, k) = text[k]
  BY <1>3 DEF Skips, Puts
<1> QED BY <1>1, <1>2, <1>3, <1>4

\* Every place of the text is passed by some step.
LEMMA PassReaches ==
    ASSUME NEW text \in Texts, NEW values, NEW r, NEW at,
           Pass(r, at, text, values, 1), NEW p \in 1..Len(text)
    PROVE  \E i \in 1..Len(r) : at[i] <= p /\ p < at[i + 1]
<1>1. PICK m \in Nat : m = Len(r)
  BY PassTypes
<1>2. PICK n \in Nat : n = Len(text)
  BY PassTypes
<1>3. \A i \in 1..(m + 1) : at[i] \in 1..(n + 1)
  BY <1>1, <1>2, PassTypes
<1>4. PICK T : T = {j \in Nat : j <= m /\ p < at[j + 1] =>
                                   \E i \in 1..j : at[i] <= p /\ p < at[i + 1]}
  OBVIOUS
<1>5. 0 \in T
  <2>1. at[1] = 1 /\ 0 + 1 = 1 /\ ~(p < 1)
    BY DEF Pass
  <2> QED BY <1>4, <2>1
<1>6. ASSUME NEW j \in Nat, j \in T PROVE j + 1 \in T
  <2>1. SUFFICES ASSUME j + 1 <= m, p < at[j + 1 + 1]
                 PROVE  \E i \in 1..(j + 1) : at[i] <= p /\ p < at[i + 1]
    BY <1>4
  <2>2. j + 1 \in 1..(m + 1) /\ j + 1 \in 1..(j + 1) /\ j <= m
    BY <2>1
  <2>3. CASE p < at[j + 1]
    <3>1. PICK i \in 1..j : at[i] <= p /\ p < at[i + 1]
      BY <1>4, <1>6, <2>2, <2>3
    <3>2. i \in 1..(j + 1)
      OBVIOUS
    <3> QED BY <3>1, <3>2
  <2>4. CASE ~(p < at[j + 1])
    <3>1. at[j + 1] \in 1..(n + 1)
      BY <1>3, <2>2
    <3>2. at[j + 1] <= p
      BY <1>2, <2>4, <3>1
    <3> QED BY <2>1, <2>2, <3>2
  <2> QED BY <2>3, <2>4
<1>7. m \in T
  BY <1>5, <1>6, EveryNumber
<1>8. p < at[m + 1]
  <2>1. at[m + 1] = n + 1
    BY <1>1, <1>2 DEF Pass
  <2> QED BY <1>2, <2>1
<1> QED BY <1>1, <1>4, <1>7, <1>8

\* No value is found in what Redact returns.
LEMMA NoSecretIn ==
    ASSUME NEW text \in Texts, NEW values \in Seq(Texts), NEW r, NEW at,
           Pass(r, at, text, values, 1),
           NEW s \in Occurring(values), NEW k \in 1..Len(r), Found(s, r, k)
    PROVE  FALSE
<1>0. \A i \in 1..Len(r) : r[i] # Marker =>
         Matching(text, values, at[i]) = {} /\ at[i + 1] = at[i] + 1 /\ r[i] = text[at[i]]
  BY PlainIs
<1>1. PICK m \in Nat : m = Len(r)
  BY PassTypes
<1>2. PICK n \in Nat : n = Len(text)
  BY PassTypes
<1>3. s \in Seq(Letters)
  BY ElementOfSeq DEF Occurring, Texts
<1>4. PICK l \in Nat : l = Len(s) /\ l # 0
  BY <1>3, EmptySeq DEF Found
<1>5. k + l - 1 <= m /\ \A i \in 1..l : r[k + i - 1] = s[i]
  BY <1>1, <1>4 DEF Found
<1>6. ASSUME NEW j \in 0..(l - 1)
      PROVE  /\ k + j \in 1..m /\ r[k + j] = s[j + 1]
             /\ Matching(text, values, at[k + j]) = {}
             /\ at[k + j + 1] = at[k + j] + 1 /\ s[j + 1] = text[at[k + j]]
  <2>1. PICK i \in 1..l : i = j + 1
    <3>1. j + 1 \in 1..l
      BY <1>4
    <3> QED BY <3>1
  <2>2. PICK q \in 1..m : q = k + j /\ q = k + i - 1
    <3>1. k + j \in 1..m /\ k + i - 1 = k + j
      BY <1>4, <1>5, <2>1
    <3> QED BY <3>1
  <2>3. r[q] = s[i] /\ s[i] \in Letters
    BY <1>3, <1>4, <1>5, <2>2, ElementOfSeq
  <2>4. r[q] # Marker
    BY <2>3, LettersAssumption
  <2>5. Matching(text, values, at[q]) = {} /\ at[q + 1] = at[q] + 1 /\ r[q] = text[at[q]]
    <3>1. q \in 1..Len(r)
      BY <1>1
    <3> QED BY <1>0, <2>4, <3>1
  <2> QED BY <2>1, <2>2, <2>3, <2>5
<1>7. PICK a \in 1..n : a = at[k]
  BY <1>2, PassTypes
<1>8. PICK T : T = {j \in Nat : j <= l - 1 => at[k + j] = a + j}
  OBVIOUS
<1>9. 0 \in T
  <2>1. k + 0 = k /\ a + 0 = a
    BY <1>1
  <2> QED BY <1>7, <1>8, <2>1
<1>10. ASSUME NEW j \in Nat, j \in T PROVE j + 1 \in T
  <2>1. SUFFICES ASSUME j + 1 <= l - 1 PROVE at[k + (j + 1)] = a + (j + 1)
    BY <1>8
  <2>2. j \in 0..(l - 1) /\ j <= l - 1
    BY <1>4, <2>1
  <2>3. at[k + j] = a + j /\ at[k + j + 1] = at[k + j] + 1
    BY <1>6, <1>8, <1>10, <2>2
  <2>4. k + (j + 1) = k + j + 1 /\ a + (j + 1) = a + j + 1
    BY <1>1
  <2> QED BY <2>3, <2>4
<1>11. ASSUME NEW j \in 0..(l - 1) PROVE at[k + j] = a + j
  <2>1. j \in T
    BY <1>9, <1>10, EveryNumber
  <2> QED BY <1>8, <2>1
<1>12. Found(s, text, a)
  <2>1. a + l - 1 <= n
    <3>1. PICK j \in 0..(l - 1) : j = l - 1
      BY <1>4
    <3>2. PICK q \in 1..m : q = k + j
      BY <1>6
    <3>3. at[q] \in 1..n
      BY <1>1, <1>2, PassTypes
    <3>4. at[q] = a + j
      BY <1>11, <3>2
    <3> QED BY <1>4, <3>1, <3>3, <3>4
  <2>2. ASSUME NEW i \in 1..l PROVE text[a + i - 1] = s[i]
    <3>1. PICK j \in 0..(l - 1) : j + 1 = i /\ a + j = a + i - 1
      <4>1. i - 1 \in 0..(l - 1) /\ i - 1 + 1 = i /\ a + (i - 1) = a + i - 1
        OBVIOUS
      <4> QED BY <4>1
    <3>2. s[j + 1] = text[at[k + j]] /\ at[k + j] = a + j
      BY <1>6, <1>11
    <3> QED BY <3>1, <3>2
  <2>3. s # <<>>
    BY DEF Found
  <2> QED BY <1>2, <1>4, <2>1, <2>2, <2>3 DEF Found
<1>13. s \in Matching(text, values, a)
  BY <1>2, <1>12, MatchingIs
<1>14. Matching(text, values, a) = {}
  <2>1. 0 \in 0..(l - 1) /\ k + 0 = k
    BY <1>1, <1>4
  <2>2. Matching(text, values, at[k + 0]) = {}
    BY <1>6, <2>1
  <2> QED BY <1>7, <2>1, <2>2
<1> QED BY <1>13, <1>14

\* A text with no value in it stays as it is.
LEMMA NothingFound ==
    ASSUME NEW text \in Texts, NEW values \in Seq(Texts),
           \A k \in 1..Len(text) : Matching(text, values, k) = {}
    PROVE  Redact(text, values) = text
<1>1. PICK n \in Nat : n = Len(text)
  BY LenProperties DEF Texts
<1>2. PICK at : at = [i \in 1..(n + 1) |-> i]
  OBVIOUS
<1>3. text \in Seq(Outputs)
  <2>1. Letters \subseteq Outputs
    BY DEF Outputs
  <2> QED BY <2>1, SeqMonotonic DEF Texts
<1>4. at \in [1..(n + 1) -> 1..(n + 1)]
  BY <1>2
<1>5. ASSUME NEW i \in 1..n
      PROVE  /\ at[i] = i /\ at[i + 1] = i + 1
             /\ Skips(text, values, i) = 1 /\ Puts(text, values, i) = text[i]
  <2>1. i \in 1..(n + 1) /\ i + 1 \in 1..(n + 1)
    OBVIOUS
  <2>2. Matching(text, values, i) = {}
    BY <1>1
  <2> QED BY <1>2, <2>1, <2>2 DEF Skips, Puts
<1>6. at[1] = 1 /\ at[n + 1] = n + 1
  BY <1>2
<1>7. ASSUME NEW i \in 1..n
      PROVE  /\ at[i] <= n /\ at[i + 1] = at[i] + Skips(text, values, at[i])
             /\ text[i] = Puts(text, values, at[i])
  BY <1>5
<1>8. Pass(text, at, text, values, 1)
  BY <1>1, <1>3, <1>4, <1>6, <1>7 DEF Pass
<1> QED BY <1>8, PassIsRedact-----------------------------------------------------------------------------
(***************************************************************************)
(* Redaction: a part of the text, and the part of the result made of it.   *)
(***************************************************************************)
LEMMA SubSeqIs ==
    ASSUME NEW A, NEW s \in Seq(A), NEW n \in Nat, n = Len(s),
           NEW a \in 1..(n + 1), NEW b \in (a - 1)..n
    PROVE  /\ SubSeq(s, a, b) \in Seq(A) /\ b - a + 1 \in Nat
           /\ Len(SubSeq(s, a, b)) = b - a + 1
           /\ \A i \in 1..(b - a + 1) : SubSeq(s, a, b)[i] = s[a + i - 1]
<1>1. \A i \in a..b : s[i] \in A
  BY ElementOfSeq
<1>2. a \in Int /\ b \in Int /\ b - a + 1 \in Nat /\ (~(a <= b) => b - a + 1 = 0)
  OBVIOUS
<1> QED BY <1>1, <1>2, SubSeqProperties

LEMMA PassIncreases ==
    ASSUME NEW text \in Texts, NEW values \in Seq(Texts), NEW r, NEW at,
           Pass(r, at, text, values, 1),
           NEW j \in 1..(Len(r) + 1), NEW k \in j..(Len(r) + 1)
    PROVE  at[j] <= at[k]
<1>1. PICK m \in Nat : m = Len(r)
  BY PassTypes
<1>2. PICK n \in Nat : n = Len(text)
  BY PassTypes
<1>3. \A i \in 1..(m + 1) : at[i] \in 1..(n + 1)
  BY <1>1, <1>2, PassTypes
<1>4. ASSUME NEW i \in 1..m PROVE at[i] <= at[i + 1]
  <2>1. at[i] \in 1..n
    BY <1>1, <1>2, PassTypes
  <2>2. at[i + 1] = at[i] + Skips(text, values, at[i])
    BY <1>1 DEF Pass
  <2>3. Skips(text, values, at[i]) \in Nat
    BY <1>2, <2>1, SkipsIs
  <2> QED BY <2>1, <2>2, <2>3
<1>5. PICK T : T = {d \in Nat : j + d <= m + 1 => at[j] <= at[j + d]}
  OBVIOUS
<1>6. 0 \in T
  <2>1. at[j] \in 1..(n + 1) /\ j + 0 = j
    BY <1>1, <1>3
  <2> QED BY <1>5, <2>1
<1>7. ASSUME NEW d \in Nat, d \in T PROVE d + 1 \in T
  <2>1. SUFFICES ASSUME j + (d + 1) <= m + 1 PROVE at[j] <= at[j + (d + 1)]
    BY <1>5
  <2>2. j + d \in 1..m /\ j + d <= m + 1 /\ j + (d + 1) = j + d + 1
    BY <1>1, <2>1
  <2>3. at[j] <= at[j + d]
    BY <1>5, <1>7, <2>2
  <2>4. at[j + d] <= at[j + d + 1]
    BY <1>4, <2>2
  <2>5. at[j] \in 1..(n + 1) /\ at[j + d] \in 1..(n + 1) /\ at[j + d + 1] \in 1..(n + 1)
    <3>1. j \in 1..(m + 1) /\ j + d \in 1..(m + 1) /\ j + d + 1 \in 1..(m + 1)
      BY <1>1, <2>2
    <3> QED BY <1>3, <3>1
  <2> QED BY <2>2, <2>3, <2>4, <2>5
<1>8. k - j \in T
  <2>1. k - j \in Nat
    BY <1>1
  <2> QED BY <1>6, <1>7, <2>1, EveryNumber
<1>9. j + (k - j) = k /\ k <= m + 1
  BY <1>1
<1> QED BY <1>5, <1>8, <1>9

\* Places a to b of the text, cut off where no value reaches over its end.
Cuts(text, values, a, b, n) ==
    /\ n \in Nat /\ n = Len(text) /\ a \in 1..(n + 1) /\ b \in (a - 1)..n
    /\ \A q \in a..b : \A s \in Occurring(values) :
          Found(s, text, q) => q + Len(s) - 1 <= b

\* The loop does there what it does in the cut.
SameMade(cut, text, values, a, b) ==
    \A q \in a..b :
        /\ Skips(cut, values, q - a + 1) = Skips(text, values, q)
        /\ Puts(cut, values, q - a + 1) = Puts(text, values, q)

LEMMA CutMatches ==
    ASSUME NEW text \in Texts, NEW values \in Seq(Texts), NEW n, NEW a, NEW b,
           Cuts(text, values, a, b, n), NEW cut, cut = SubSeq(text, a, b)
    PROVE  SameMade(cut, text, values, a, b)
<1> n \in Nat /\ n = Len(text) /\ a \in 1..(n + 1) /\ b \in (a - 1)..n
  BY DEF Cuts
<1> SUFFICES ASSUME NEW q \in a..b
             PROVE  /\ Skips(cut, values, q - a + 1) = Skips(text, values, q)
                    /\ Puts(cut, values, q - a + 1) = Puts(text, values, q)
  BY DEF SameMade
<1>0. PICK p : p = q - a + 1
  OBVIOUS
<1>1. /\ cut \in Texts /\ b - a + 1 \in Nat /\ Len(cut) = b - a + 1
      /\ \A i \in 1..(b - a + 1) : cut[i] = text[a + i - 1]
  BY SMTT(40), SubSeqIs DEF Texts
<1>2. p \in 1..(b - a + 1) /\ a + p - 1 = q /\ p \in 1..Len(cut) /\ q \in 1..Len(text)
  BY <1>0, <1>1
<1>3. cut[p] = text[q]
  BY <1>1, <1>2
<1>4. ASSUME NEW s \in Occurring(values) PROVE Found(s, cut, p) <=> Found(s, text, q)
  <2>1. s \in Seq(Letters)
    BY ElementOfSeq DEF Occurring, Texts
  <2>2. PICK l \in Nat : l = Len(s)
    BY <2>1, LenProperties
  <2>3. CASE ~(q + l - 1 <= b)
    <3>1. ~(p + l - 1 <= b - a + 1)
      BY <1>2, <2>3
    <3>2. ~Found(s, cut, p)
      BY <1>1, <2>2, <3>1 DEF Found
    <3>3. ~Found(s, text, q)
      BY <2>2, <2>3 DEF Cuts
    <3> QED BY <3>2, <3>3
  <2>4. CASE q + l - 1 <= b
    <3>1. p + l - 1 <= b - a + 1 /\ q + l - 1 <= n
      BY <1>2, <2>4
    <3>2. ASSUME NEW i \in 1..l PROVE cut[p + i - 1] = text[q + i - 1]
      <4>1. PICK j \in 1..(b - a + 1) : j = p + i - 1 /\ a + j - 1 = q + i - 1
        <5>1. p + i - 1 \in 1..(b - a + 1) /\ a + (p + i - 1) - 1 = q + i - 1
          BY <1>2, <3>1
        <5> QED BY <5>1
      <4>2. cut[j] = text[a + j - 1]
        BY <1>1
      <4> QED BY <4>1, <4>2
    <3> QED BY <1>1, <2>2, <3>1, <3>2 DEF Found
  <2> QED BY <2>3, <2>4
<1>5. \A s : s \in Matching(cut, values, p) <=> s \in Occurring(values) /\ Found(s, cut, p)
  BY <1>1, <1>2, MatchingIs
<1>6. \A s : s \in Matching(text, values, q) <=> s \in Occurring(values) /\ Found(s, text, q)
  BY <1>2, MatchingIs
<1>7. Matching(cut, values, p) = Matching(text, values, q)
  BY <1>4, <1>5, <1>6
<1> QED BY <1>0, <1>3, <1>7 DEF Skips, Puts

\* Elements x to y of the result are what the loop appends there.
MadeAt(r, at, x, y, a, b) ==
    /\ x \in 1..(Len(r) + 1) /\ y \in (x - 1)..Len(r)
    /\ at[x] = a /\ at[y + 1] = b + 1

\* What is made of it is a part of the result.
LEMMA PassOfCut ==
    ASSUME NEW text \in Texts, NEW values \in Seq(Texts), NEW r, NEW at,
           Pass(r, at, text, values, 1),
           NEW n, NEW a, NEW b, Cuts(text, values, a, b, n),
           NEW x, NEW y, MadeAt(r, at, x, y, a, b)
    PROVE  Redact(SubSeq(text, a, b), values) = SubSeq(r, x, y)
<1> n \in Nat /\ n = Len(text) /\ a \in 1..(n + 1) /\ b \in (a - 1)..n
  BY DEF Cuts
<1> PICK m \in Nat : m = Len(r)
  BY PassTypes
<1> x \in 1..(m + 1) /\ y \in (x - 1)..m /\ at[x] = a /\ at[y + 1] = b + 1
  BY DEF MadeAt
<1>1. PICK cut : cut = SubSeq(text, a, b)
  OBVIOUS
<1>2. PICK part : part = SubSeq(r, x, y)
  OBVIOUS
<1>15. \A q \in a..b :
          /\ Skips(cut, values, q - a + 1) = Skips(text, values, q)
          /\ Puts(cut, values, q - a + 1) = Puts(text, values, q)
  <2>1. SameMade(cut, text, values, a, b)
    BY <1>1, CutMatches
  <2> QED BY <2>1 DEF SameMade
<1>3. PICK h \in Nat : h = b - a + 1 /\ cut \in Texts /\ Len(cut) = h
  BY <1>1, SubSeqIs DEF Texts
<1>4. r \in Seq(Outputs)
  BY DEF Pass
<1>5. PICK l \in Nat : /\ l = y - x + 1 /\ part \in Seq(Outputs) /\ Len(part) = l
                       /\ \A i \in 1..l : part[i] = r[x + i - 1]
  <2>1. /\ part \in Seq(Outputs) /\ y - x + 1 \in Nat /\ Len(part) = y - x + 1
        /\ \A i \in 1..(y - x + 1) : part[i] = r[x + i - 1]
    BY <1>2, <1>4, SubSeqIs
  <2> QED BY <2>1
<1>0. h = b - a + 1 /\ l = y - x + 1
  BY <1>3, <1>5
<1>6. \A i \in 1..(m + 1) : at[i] \in 1..(n + 1)
  BY PassTypes
<1>7. ASSUME NEW i \in x..(y + 1) PROVE i \in 1..(m + 1) /\ at[i] \in a..(b + 1)
  <2>1. i \in 1..(m + 1) /\ i \in x..(m + 1) /\ y + 1 \in i..(m + 1)
    OBVIOUS
  <2>2. at[x] <= at[i] /\ at[i] <= at[y + 1]
    BY <2>1, PassIncreases
  <2>3. at[i] \in 1..(n + 1)
    BY <1>6, <2>1
  <2> QED BY <2>1, <2>2, <2>3
<1>8. PICK to : to = [i \in 1..(l + 1) |-> at[x + i - 1] - a + 1]
  OBVIOUS
<1>9. ASSUME NEW i \in 1..(l + 1)
      PROVE  x + i - 1 \in x..(y + 1) /\ to[i] = at[x + i - 1] - a + 1 /\ to[i] \in 1..(h + 1)
  <2>1. x + i - 1 \in x..(y + 1)
    BY <1>0
  <2>2. at[x + i - 1] \in a..(b + 1)
    BY <1>7, <2>1
  <2>3. at[x + i - 1] - a + 1 \in 1..(h + 1)
    <3>1. PICK v \in a..(b + 1) : v = at[x + i - 1]
      BY <2>2
    <3>2. v - a + 1 \in 1..(h + 1)
      BY <1>0
    <3> QED BY <3>1, <3>2
  <2> QED BY <1>8, <2>1, <2>3
<1>10. to \in [1..(l + 1) -> 1..(h + 1)]
  BY <1>8, <1>9
<1>11. to[1] = 1
  <2>1. 1 \in 1..(l + 1) /\ x + 1 - 1 = x /\ a - a + 1 = 1
    OBVIOUS
  <2> QED BY <1>9, <2>1
<1>12. to[l + 1] = h + 1
  <2>1. l + 1 \in 1..(l + 1) /\ x + (l + 1) - 1 = y + 1
    BY <1>0
  <2>2. to[l + 1] = at[x + (l + 1) - 1] - a + 1
    BY <1>9, <2>1
  <2>3. to[l + 1] = (b + 1) - a + 1
    BY <2>1, <2>2
  <2>4. (b + 1) - a + 1 = h + 1
    BY <1>0
  <2> QED BY <2>3, <2>4
<1>13. ASSUME NEW i \in 1..l
       PROVE  /\ to[i] <= h /\ to[i + 1] = to[i] + Skips(cut, values, to[i])
              /\ part[i] = Puts(cut, values, to[i])
  <2>1. PICK j \in x..y : /\ j = x + i - 1 /\ j \in x..(y + 1)
                          /\ j + 1 = x + (i + 1) - 1 /\ j \in 1..m
    <3>1. /\ x + i - 1 \in x..y /\ x + i - 1 \in x..(y + 1)
          /\ x + i - 1 + 1 = x + (i + 1) - 1 /\ x + i - 1 \in 1..m
      BY <1>0
    <3> QED BY <3>1
  <2>2. i \in 1..(l + 1) /\ i + 1 \in 1..(l + 1)
    OBVIOUS
  <2>3. to[i] = at[j] - a + 1 /\ to[i + 1] = at[j + 1] - a + 1
    BY <1>9, <2>1, <2>2
  <2>4. /\ at[j + 1] = at[j] + Skips(text, values, at[j])
        /\ r[j] = Puts(text, values, at[j])
    BY <2>1 DEF Pass
  <2>5. PICK q \in 1..n : q = at[j]
    BY <2>1, PassTypes
  <2>6. PICK k \in Nat : k = Skips(text, values, q) /\ k >= 1
    BY <2>5, SkipsIs
  <2>7. at[j + 1] \in a..(b + 1) /\ at[j] \in a..(b + 1)
    <3>1. j + 1 \in x..(y + 1)
      BY <2>1
    <3> QED BY <1>7, <2>1, <3>1
  <2>8. q \in a..b /\ q + k = at[j + 1]
    <3>1. PICK v \in a..(b + 1) : v = at[j + 1]
      BY <2>7
    <3>2. v = q + k
      BY <2>4, <2>5, <2>6, <3>1
    <3>3. q \in a..(b + 1)
      BY <2>5, <2>7
    <3>4. q \in a..b
      BY SMTT(40), <2>6, <3>1, <3>2, <3>3
    <3> QED BY <3>1, <3>2, <3>4
  <2>9. PICK p : p = q - a + 1
    OBVIOUS
  <2>10. Skips(cut, values, p) = k /\ Puts(cut, values, p) = r[j]
    <3>1. /\ Skips(cut, values, q - a + 1) = Skips(text, values, q)
          /\ Puts(cut, values, q - a + 1) = Puts(text, values, q)
      BY <1>15, <2>8
    <3> QED BY <2>4, <2>5, <2>6, <2>9, <3>1
  <2>11. to[i] = p /\ to[i + 1] = p + k /\ p <= h
    <3>1. q - a + 1 <= h /\ (q + k) - a + 1 = q - a + 1 + k
      BY <1>0, <2>8
    <3>2. to[i] = q - a + 1 /\ to[i + 1] = (q + k) - a + 1
      BY <2>3, <2>5, <2>8
    <3> QED BY <2>9, <3>1, <3>2
  <2> QED BY <1>5, <2>1, <2>10, <2>11
<1>14. Pass(part, to, cut, values, 1)
  BY <1>3, <1>5, <1>10, <1>11, <1>12, <1>13 DEF Pass
<1>16. part = Redact(cut, values)
  BY <1>3, <1>14, PassIsRedact
<1> QED BY <1>1, <1>2, <1>16
\* The value s, at place p of the text: no value reaches over p from the left,
\* and none at p is longer.
Leads(s, p, text, values) ==
    /\ s \in Occurring(values) /\ p \in 1..Len(text) /\ Found(s, text, p)
    /\ \A t \in Occurring(values), q \in 1..Len(text) :
          Found(t, text, q) =>
             /\ q < p => ~(p < q + Len(t))
             /\ q = p => Len(t) <= Len(s)

\* The loop stops at such a place, and goes on behind the value.
LEMMA PassStopsAt ==
    ASSUME NEW text \in Texts, NEW values \in Seq(Texts), NEW r, NEW at,
           Pass(r, at, text, values, 1), NEW s, NEW p, Leads(s, p, text, values)
    PROVE  \E k \in 1..Len(r) : r[k] = Marker /\ at[k] = p /\ at[k + 1] = p + Len(s)
<1>1. PICK m \in Nat : m = Len(r)
  BY PassTypes
<1>2. PICK n \in Nat : n = Len(text) /\ p \in 1..n
  BY PassTypes DEF Leads
<1>3. PICK l \in Nat : l = Len(s) /\ s \in Texts
  BY ElementOfSeq, LenProperties DEF Leads, Occurring, Texts
<1>4. PICK k \in 1..m : at[k] <= p /\ p < at[k + 1]
  BY <1>1, <1>2, PassReaches
<1>5. PICK q \in 1..n : q = at[k]
  BY <1>1, <1>2, PassTypes
<1>6. PICK skips \in Nat : skips = Skips(text, values, q)
  BY <1>2, SkipsIs
<1>7. at[k + 1] = q + skips /\ r[k] = Puts(text, values, q)
  BY <1>1, <1>5, <1>6 DEF Pass
<1>8. ASSUME NEW t \in Matching(text, values, q)
      PROVE  t \in Occurring(values) /\ Found(t, text, q) /\ Len(t) \in Nat
  <2>1. t \in Occurring(values) /\ Found(t, text, q)
    BY <1>2, MatchingIs
  <2>2. t \in Texts
    BY <2>1, ElementOfSeq DEF Occurring
  <2> QED BY <2>1, <2>2, LenProperties DEF Texts
<1>9. q = p
  <2>1. SUFFICES ASSUME q < p PROVE FALSE
    BY <1>2, <1>4, <1>5
  <2>2. skips # 1
    BY <1>2, <1>4, <1>5, <1>7, <2>1
  <2>3. Matching(text, values, q) # {}
    BY <1>6, <2>2 DEF Skips
  <2>4. PICK t \in Matching(text, values, q) : Len(t) = skips
    BY <1>2, <1>6, <2>3, SkipsIs
  <2>5. ~(p < q + Len(t))
    BY <1>2, <1>8, <2>1, <2>4 DEF Leads
  <2> QED BY <1>4, <1>7, <2>4, <2>5
<1>10. s \in Matching(text, values, q)
  BY <1>2, <1>9, MatchingIs DEF Leads
<1>11. r[k] = Marker
  BY <1>2, <1>7, <1>10, SkipsIs
<1>12. skips = l
  <2>1. PICK t \in Matching(text, values, q) : Len(t) = skips
    BY <1>2, <1>6, <1>10, SkipsIs
  <2>2. Len(t) <= l
    BY <1>2, <1>3, <1>8, <1>9, <2>1 DEF Leads
  <2>3. l <= skips
    BY <1>2, <1>3, <1>6, <1>10, SkipsIs
  <2> QED BY <2>1, <2>2, <2>3
<1> QED BY <1>1, <1>3, <1>5, <1>7, <1>9, <1>11, <1>12

LEMMA LeadGoes ==
    ASSUME NEW text \in Texts, NEW values \in Seq(Texts), NEW r, NEW at,
           Pass(r, at, text, values, 1), NEW s, NEW p, Leads(s, p, text, values)
    PROVE  \E k \in 1..Len(r) :
              /\ r[k] = Marker
              /\ Redact(SubSeq(text, 1, p - 1), values) = SubSeq(r, 1, k - 1)
              /\ Redact(SubSeq(text, p + Len(s), Len(text)), values) = SubSeq(r, k + 1, Len(r))
<1>1. PICK m \in Nat : m = Len(r)
  BY PassTypes
<1>2. PICK n \in Nat : n = Len(text) /\ p \in 1..n
  BY PassTypes DEF Leads
<1>3. PICK l \in Nat : l = Len(s) /\ p + l - 1 <= n
  <2>1. s \in Texts
    BY ElementOfSeq DEF Leads, Occurring
  <2> QED BY <1>2, <2>1, LenProperties DEF Leads, Found, Texts
<1>4. PICK k \in 1..m : r[k] = Marker /\ at[k] = p /\ at[k + 1] = p + l
  BY <1>1, <1>3, PassStopsAt
<1>5. ASSUME NEW t \in Occurring(values), NEW q \in 1..n, Found(t, text, q)
      PROVE  /\ Len(t) \in Nat /\ q + Len(t) - 1 <= n
             /\ q < p => q + Len(t) - 1 <= p - 1
  <2>1. t \in Texts
    BY ElementOfSeq DEF Occurring
  <2>2. PICK j \in Nat : j = Len(t)
    BY <2>1, LenProperties DEF Texts
  <2>3. q + j - 1 <= n
    BY <1>2, <1>5, <2>2 DEF Found
  <2>4. q < p => ~(p < q + j)
    BY <1>2, <1>5, <2>2 DEF Leads
  <2> QED BY <1>2, <2>2, <2>3, <2>4
<1>6. Redact(SubSeq(text, 1, p - 1), values) = SubSeq(r, 1, k - 1)
  <2>1. PICK a, b : a = 1 /\ b = p - 1
    OBVIOUS
  <2>2. PICK x, y : x = 1 /\ y = k - 1
    OBVIOUS
  <2>3. a \in 1..(n + 1) /\ b \in (a - 1)..n
    BY <1>2, <2>1
  <2>4. ASSUME NEW q \in a..b, NEW t \in Occurring(values), Found(t, text, q)
        PROVE  q + Len(t) - 1 <= b
    <3>1. q \in 1..n /\ q < p
      BY <1>2, <2>1
    <3> QED BY <1>5, <2>1, <2>4, <3>1
  <2>5. Cuts(text, values, a, b, n)
    BY <1>2, <2>3, <2>4 DEF Cuts
  <2>6. x \in 1..(m + 1) /\ y \in (x - 1)..m /\ y + 1 = k /\ b + 1 = p
    BY <1>2, <2>1, <2>2
  <2>7. at[x] = a /\ at[y + 1] = b + 1
    BY <1>4, <2>1, <2>2, <2>6 DEF Pass
  <2>8. Redact(SubSeq(text, a, b), values) = SubSeq(r, x, y)
    <3>1. MadeAt(r, at, x, y, a, b)
      BY <1>1, <2>6, <2>7 DEF MadeAt
    <3> QED BY <2>5, <3>1, PassOfCut
  <2> QED BY <2>1, <2>2, <2>8
<1>7. Redact(SubSeq(text, p + l, n), values) = SubSeq(r, k + 1, m)
  <2>1. PICK a, b : a = p + l /\ b = n
    OBVIOUS
  <2>2. PICK x, y : x = k + 1 /\ y = m
    OBVIOUS
  <2>3. a \in 1..(n + 1) /\ b \in (a - 1)..n
    BY <1>2, <1>3, <2>1
  <2>4. ASSUME NEW q \in a..b, NEW t \in Occurring(values), Found(t, text, q)
        PROVE  q + Len(t) - 1 <= b
    <3>1. q \in 1..n
      BY <1>2, <2>1
    <3> QED BY <1>5, <2>1, <2>4, <3>1
  <2>5. Cuts(text, values, a, b, n)
    BY <1>2, <2>3, <2>4 DEF Cuts
  <2>6. x \in 1..(m + 1) /\ y \in (x - 1)..m
    BY <2>2
  <2>7. at[x] = a /\ at[y + 1] = b + 1
    BY <1>1, <1>2, <1>4, <2>1, <2>2 DEF Pass
  <2>8. Redact(SubSeq(text, a, b), values) = SubSeq(r, x, y)
    <3>1. MadeAt(r, at, x, y, a, b)
      BY <1>1, <2>6, <2>7 DEF MadeAt
    <3> QED BY <2>5, <3>1, PassOfCut
  <2> QED BY <2>1, <2>2, <2>8
<1> QED BY <1>1, <1>2, <1>3, <1>4, <1>6, <1>7

\* As many characters are left as there were untouched ones.
LEMMA UntouchedStay ==
    ASSUME NEW text \in Texts, NEW values \in Seq(Texts), NEW r, NEW at,
           Pass(r, at, text, values, 1), NEW U \in SUBSET (1..Len(text)),
           \A p \in U : \A s \in Occurring(values), q \in 1..Len(text) :
              Found(s, text, q) => ~(q <= p /\ p < q + Len(s))
    PROVE  Cardinality({k \in 1..Len(r) : r[k] # Marker}) >= Cardinality(U)
<1>1. PICK m \in Nat : m = Len(r)
  BY PassTypes
<1>2. PICK n \in Nat : n = Len(text)
  BY PassTypes
<1>3. PICK V : V = {k \in 1..m : r[k] # Marker}
  OBVIOUS
<1>4. ASSUME NEW p \in U PROVE \E k \in V : at[k] = p
  <2>1. p \in 1..n
    BY <1>2
  <2>2. PICK k \in 1..m : at[k] <= p /\ p < at[k + 1]
    BY <1>1, <1>2, <2>1, PassReaches
  <2>3. PICK q \in 1..n : q = at[k]
    BY <1>1, <1>2, PassTypes
  <2>4. PICK skips \in Nat : skips = Skips(text, values, q)
    BY <1>2, SkipsIs
  <2>5. at[k + 1] = q + skips /\ r[k] = Puts(text, values, q)
    BY <1>1, <2>3, <2>4 DEF Pass
  <2>6. Matching(text, values, q) = {}
    <3>1. SUFFICES ASSUME Matching(text, values, q) # {} PROVE FALSE
      OBVIOUS
    <3>2. PICK t \in Matching(text, values, q) : Len(t) = skips
      BY <1>2, <2>4, <3>1, SkipsIs
    <3>3. t \in Occurring(values) /\ Found(t, text, q)
      BY <1>2, <3>2, MatchingIs
    <3>4. ~(q <= p /\ p < q + Len(t))
      BY <1>2, <3>3
    <3> QED BY <2>2, <2>3, <2>5, <3>2, <3>4
  <2>7. skips = 1 /\ r[k] # Marker
    BY <1>2, <2>4, <2>5, <2>6, SkipsIs DEF Skips
  <2>8. q = p
    BY <2>1, <2>2, <2>3, <2>5, <2>7
  <2> QED BY <1>3, <2>3, <2>7, <2>8
<1>5. PICK h : h = [p \in U |-> CHOOSE k \in V : at[k] = p]
  OBVIOUS
<1>6. ASSUME NEW p \in U PROVE h[p] \in V /\ at[h[p]] = p
  BY <1>4, <1>5
<1>7. h \in Injection(U, V)
  <2>1. h \in [U -> V]
    BY <1>5, <1>6
  <2>2. \A p, q \in U : h[p] = h[q] => p = q
    BY <1>6
  <2>3. IsInjective(h)
    BY <2>1, <2>2 DEF IsInjective
  <2> QED BY <2>1, <2>3 DEF Injection
<1>8. IsFiniteSet(V)
  <2>1. IsFiniteSet(1..m) /\ V \in SUBSET (1..m)
    BY <1>3, FS_Interval
  <2> QED BY <2>1, FS_Subset
<1>9. IsFiniteSet(U) /\ Cardinality(U) <= Cardinality(V)
  BY <1>7, <1>8, FS_Injection
<1>10. Cardinality(U) \in Nat /\ Cardinality(V) \in Nat
  BY <1>8, <1>9, FS_CardinalityType
<1> QED BY <1>1, <1>3, <1>9, <1>10

-----------------------------------------------------------------------------
(***************************************************************************)
(* Redaction: what an application may expect of it.                        *)
(***************************************************************************)
LEMMA ResultIs ==
    ASSUME NEW text \in Texts, NEW values \in Seq(Texts)
    PROVE  RedactAll(<<text>>, values)[1] = Redact(text, values)
<1>1. CASE values = <<>>
  <2>1. Occurring(values) = {}
    BY <1>1, ItemsEmpty
  <2>2. ASSUME NEW k \in 1..Len(text) PROVE Matching(text, values, k) = {}
    BY <2>1, MatchingIs
  <2>3. Redact(text, values) = text
    BY <2>2, NothingFound
  <2> QED BY <1>1, <2>3 DEF RedactAll
<1>2. CASE values # <<>>
  <2>1. 1 \in DOMAIN <<text>> /\ <<text>>[1] = text
    OBVIOUS
  <2> QED BY <1>2, <2>1 DEF RedactAll
<1> QED BY <1>1, <1>2

LEMMA OccurrencesAre ==
    ASSUME NEW secrets, NEW values \in Seq(Texts), NEW text \in Texts,
           \A x : x \in Occurring(values) <=> x \in secrets /\ x # <<>>
    PROVE  /\ \A o \in Occurrences(secrets, text) :
                 /\ o[1] \in Occurring(values) /\ o[2] \in 1..Len(text) /\ Found(o[1], text, o[2])
           /\ \A s \in Occurring(values), k \in 1..Len(text) :
                 Found(s, text, k) => <<s, k>> \in Occurrences(secrets, text)
<1>1. DOMAIN text = 1..Len(text) /\ text \in Seq(Letters)
  BY LenProperties DEF Texts
<1>2. ASSUME NEW s \in Occurring(values), NEW k \in 1..Len(text)
      PROVE  OccursAt(s, text, k) <=> Found(s, text, k)
  <2>1. s \in Seq(Letters)
    BY ElementOfSeq DEF Occurring, Texts
  <2> QED BY <1>1, <2>1, OccursIs
<1>3. ASSUME NEW o \in Occurrences(secrets, text)
      PROVE  o[1] \in Occurring(values) /\ o[2] \in 1..Len(text) /\ Found(o[1], text, o[2])
  <2>1. o[1] \in secrets /\ o[2] \in 1..Len(text) /\ OccursAt(o[1], text, o[2])
    BY <1>1 DEF Occurrences
  <2>2. o[1] \in Occurring(values)
    BY <2>1 DEF OccursAt
  <2> QED BY <1>2, <2>1, <2>2
<1>4. ASSUME NEW s \in Occurring(values), NEW k \in 1..Len(text), Found(s, text, k)
      PROVE  <<s, k>> \in Occurrences(secrets, text)
  <2>1. OccursAt(s, text, k) /\ s \in secrets
    BY <1>2, <1>4
  <2>2. PICK D : D = DOMAIN text /\ k \in D
    BY <1>1
  <2>3. PICK o : o = <<s, k>>
    OBVIOUS
  <2>4. o \in secrets \X D
    BY <2>1, <2>2, <2>3
  <2>5. o[1] = s /\ o[2] = k
    BY <2>3
  <2> QED BY <2>1, <2>2, <2>3, <2>4, <2>5 DEF Occurrences
<1> QED BY <1>3, <1>4

LEMMA NothingRemains ==
    ASSUME NEW headers \in Seq(Headers), NEW key \in Texts, NEW text \in Texts
    PROVE  NothingSensitiveRemains(headers, <<key>>, text)
<1>1. PICK values : values = CollectSensitiveValues(headers, <<key>>)
  OBVIOUS
<1>2. PICK secrets : secrets = Secrets(headers, <<key>>)
  OBVIOUS
<1>3. values \in Seq(Texts) /\ \A x : x \in Occurring(values) <=> x \in secrets /\ x # <<>>
  BY <1>1, <1>2, CollectedAre
<1>4. PICK r : r = Redact(text, values) /\ r = RedactAll(<<text>>, values)[1]
  BY <1>3, ResultIs
<1>5. PICK at : Pass(r, at, text, values, 1)
  BY <1>3, <1>4, RedactPasses
<1>6. r \in Seq(Outputs) /\ DOMAIN r = 1..Len(r) /\ DOMAIN text = 1..Len(text)
  BY <1>5, LenProperties DEF Pass, Texts
<1>7. PICK occurs : occurs = Occurrences(secrets, text)
  OBVIOUS
<1>8. /\ \A o \in occurs :
            o[1] \in Occurring(values) /\ o[2] \in 1..Len(text) /\ Found(o[1], text, o[2])
      /\ \A s \in Occurring(values), k \in 1..Len(text) :
            Found(s, text, k) => <<s, k>> \in occurs
  BY <1>3, <1>7, OccurrencesAre
<1>9. ASSUME NEW s \in secrets, NEW k \in DOMAIN r PROVE ~OccursAt(s, r, k)
  <2>1. SUFFICES ASSUME OccursAt(s, r, k) PROVE FALSE
    OBVIOUS
  <2>2. s \in Occurring(values)
    BY <1>3, <2>1 DEF OccursAt
  <2>3. s \in Seq(Letters) /\ k \in 1..Len(r)
    BY <1>3, <1>6, <2>2, ElementOfSeq DEF Occurring, Texts
  <2>4. Found(s, r, k)
    BY <1>6, <2>1, <2>3, OccursIs
  <2> QED BY <1>3, <1>5, <2>2, <2>3, <2>4, NoSecretIn
<1>10. ASSUME NEW o \in Leftmost(occurs) PROVE GoesAsAWhole(o, text, values, r)
  <2>1. o \in occurs
    BY DEF Leftmost
  <2>2. ASSUME NEW t \in Occurring(values), NEW q \in 1..Len(text), Found(t, text, q)
        PROVE  (q < o[2] => ~(o[2] < q + Len(t))) /\ (q = o[2] => Len(t) <= Len(o[1]))
    <3>1. PICK p \in occurs : p = <<t, q>> /\ p[1] = t /\ p[2] = q
      BY <1>8, <2>2
    <3>2. (p[2] < o[2] => ~Covers(p, o[2])) /\ (p[2] = o[2] => Len(p[1]) <= Len(o[1]))
      BY DEF Leftmost
    <3>3. o[2] \in Nat
      BY <1>8, <2>1
    <3> QED BY <3>1, <3>2, <3>3 DEF Covers
  <2>3. Leads(o[1], o[2], text, values)
    BY <1>8, <2>1, <2>2 DEF Leads
  <2>4. PICK s, p : s = o[1] /\ p = o[2]
    OBVIOUS
  <2>5. PICK k \in 1..Len(r) :
           /\ r[k] = Marker
           /\ Redact(SubSeq(text, 1, p - 1), values) = SubSeq(r, 1, k - 1)
           /\ Redact(SubSeq(text, p + Len(s), Len(text)), values) = SubSeq(r, k + 1, Len(r))
    <3>1. Leads(s, p, text, values)
      BY <2>3, <2>4
    <3> QED BY <1>3, <1>5, <3>1, LeadGoes
  <2> QED BY <1>6, <2>4, <2>5 DEF GoesAsAWhole
<1>11. occurs = {} => r = text
  <2>1. SUFFICES ASSUME occurs = {} PROVE r = text
    OBVIOUS
  <2>2. ASSUME NEW k \in 1..Len(text) PROVE Matching(text, values, k) = {}
    BY <1>3, <1>8, <2>1, MatchingIs
  <2> QED BY <1>3, <1>4, <2>2, NothingFound
<1>12. Cardinality({k \in DOMAIN r : r[k] # Marker}) >= Cardinality(Untouched(occurs, text))
  <2>1. PICK U \in SUBSET (1..Len(text)) : U = Untouched(occurs, text)
    BY <1>6 DEF Untouched
  <2>2. ASSUME NEW p \in U, NEW s \in Occurring(values), NEW q \in 1..Len(text), Found(s, text, q)
        PROVE  ~(q <= p /\ p < q + Len(s))
    <3>1. PICK o \in occurs : o = <<s, q>> /\ o[1] = s /\ o[2] = q
      BY <1>8, <2>2
    <3>2. ~Covers(o, p)
      BY <2>1 DEF Untouched
    <3> QED BY <3>1, <3>2 DEF Covers
  <2>3. Cardinality({k \in 1..Len(r) : r[k] # Marker}) >= Cardinality(U)
    BY <1>3, <1>5, <2>2, UntouchedStay
  <2> QED BY <1>6, <2>1, <2>3
<1> QED BY <1>1, <1>2, <1>4, <1>7, <1>9, <1>10, <1>11, <1>12 DEF NothingSensitiveRemains

\* CredentialsAreRedacted, of any headers, key and text:
\* collect_sensitive_values and redact_sensitive_values leave no credential of a
\* request in a response, put one marker for the longest value at a place, and
\* leave everything else as it was.
THEOREM CredentialsRedacted == Spec => []CredentialsAreRedacted
<1>1. Chosen => CredentialsAreRedacted
  <2> SUFFICES ASSUME Chosen, input.kind = "headers", NEW text \in ResponseTexts
               PROVE  NothingSensitiveRemains(input.headers, <<input.key>>, text)
    BY DEF CredentialsAreRedacted
  <2>1. PICK key \in Texts : key = input.key /\ key \in ApiKeys
    BY InputsAssumption DEF Chosen, Texts
  <2>2. PICK own \in OwnHeaders(key), extra \in ExtraHeaders :
           input.headers = ApplyExtraHeaders(own, extra)
    BY <2>1 DEF Chosen
  <2>3. own \in Seq(Headers) /\ extra \in Seq(Headers)
    BY <2>1, OwnType, InputsAssumption
  <2>4. input.headers \in Seq(Headers)
    BY <2>2, <2>3, ApplyType
  <2>5. text \in Texts
    BY InputsAssumption DEF Texts
  <2> QED BY <2>1, <2>4, <2>5, NothingRemains
<1> QED BY <1>1, AlwaysChosen, PTL
=============================================================================
