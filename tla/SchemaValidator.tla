--------------------------- MODULE SchemaValidator ---------------------------
(***************************************************************************)
(* kafka/schema_validator.go, from the parsed schema down: validateNode    *)
(* and its helpers, and a second definition of what it decides.            *)
(*                                                                         *)
(* A schemaNode is a record of the keywords that the schema has; the       *)
(* others are not in its domain.                                           *)
(***************************************************************************)
EXTENDS JsonValues, Integers, FiniteSets

Has(node, keyword) == keyword \in DOMAIN node

matchesType(expected, value) ==
  CASE value = Null          -> expected = "null"
    [] expected = "object"   -> value.type = "map"
    [] expected = "array"    -> value.type = "slice"
    [] expected = "string"   -> value.type = "string"
    [] expected = "number"   -> value.type = "float64"
    [] expected = "integer"  -> value.type = "float64" /\ value.value % 2 = 0
    [] expected = "boolean"  -> value.type = "bool"
    [] expected = "null"     -> FALSE
    [] OTHER                 -> TRUE

\* Mutant: a required field may be null.
NullsAreFine(required, fields) == required \ DOMAIN fields

\* The required fields that are missing, or null.
Missing(required, fields) ==
  {r \in required : r \notin DOMAIN fields \/ fields[r] = Null}

\* The fields that a node says something about; a null is looked at by Missing only.
Present(node, fields) == {k \in DOMAIN node.properties \cap DOMAIN fields : fields[k] # Null}

textErrors(node, s) ==
  (IF Has(node, "minLength") /\ Len(s) < node.minLength THEN {"minLength"} ELSE {})
    \union (IF Has(node, "maxLength") /\ Len(s) > node.maxLength THEN {"maxLength"} ELSE {})
    \union (IF Has(node, "enum") /\ node.enum # {} /\ Text(s) \notin node.enum THEN {"enum"} ELSE {})

numberErrors(node, n) ==
  (IF Has(node, "minimum") /\ n < node.minimum THEN {"minimum"} ELSE {})
    \union (IF Has(node, "maximum") /\ n > node.maximum THEN {"maximum"} ELSE {})

\* The errors, each with the path to where it is.  The keyword
\* additionalProperties is parsed and never looked at.
RECURSIVE validateNode(_, _, _)
validateNode(node, value, path) ==
  IF Has(node, "type") /\ ~matchesType(node.type, value) THEN {<<path, "type">>}
  ELSE CASE value.type = "map" ->
              {<<Append(path, r), "required">> :
                 r \in IF Has(node, "required") THEN Missing(node.required, value.value) ELSE {}}
                \union
              UNION {validateNode(node.properties[k], value.value[k], Append(path, k)) :
                 k \in IF Has(node, "properties") THEN Present(node, value.value) ELSE {}}
         [] value.type = "slice" /\ Has(node, "items") ->
              UNION {validateNode(node.items, value.value[i], Append(path, i)) :
                 i \in DOMAIN value.value}
         [] value.type = "string"  -> {<<path, e>> : e \in textErrors(node, value.value)}
         [] value.type = "float64" -> {<<path, e>> : e \in numberErrors(node, value.value)}
         [] OTHER -> {}

\* The envelope that dataSchema puts around the metadata of an event type: a
\* required field of the metadata makes the metadata required.
dataSchema(requiredMetadata, metadataProps) ==
  LET text == [type |-> "string"]
      name == [type |-> "string", minLength |-> 1]
  IN [type |-> "object",
      required |-> {"resource_type", "resource_id", "timestamp"}
                     \union (IF requiredMetadata = {} THEN {} ELSE {"metadata"}),
      properties |->
        [actor_id |-> text, actor_type |-> text, resource_type |-> name,
         resource_id |-> name, organization_id |-> text, team_id |-> text,
         timestamp |-> text,
         metadata |-> [type |-> "object", properties |-> metadataProps,
                       required |-> requiredMetadata]]]

-----------------------------------------------------------------------------
(* What a schema says, place by place.                                     *)

\* The pairs of a node and the value it is about, in a document.
RECURSIVE Places(_, _)
Places(node, value) ==
  {<<node, value>>} \union
  CASE value.type = "map" /\ Has(node, "properties") ->
         UNION {Places(node.properties[k], value.value[k]) :
                  k \in {f \in DOMAIN node.properties : f \in DOMAIN value.value /\ value.value[f] # Null}}
    [] value.type = "slice" /\ Has(node, "items") ->
         UNION {Places(node.items, value.value[i]) : i \in DOMAIN value.value}
    [] OTHER -> {}

\* Does the value, without what is inside of it, meet each keyword of the node?
Meets(node, v) ==
  /\ Has(node, "type") =>
       CASE node.type = "null"    -> v.type = "nil"
         [] node.type = "object"  -> v.type = "map"
         [] node.type = "array"   -> v.type = "slice"
         [] node.type = "number"  -> v.type = "float64"
         [] node.type = "integer" -> v.type = "float64" /\ (v.value \div 2) * 2 = v.value
         [] node.type = "boolean" -> v.type = "bool"
         [] OTHER                 -> v.type = node.type
  /\ Has(node, "required") /\ v.type = "map" =>
       \A r \in node.required : r \in DOMAIN v.value /\ v.value[r].type # "nil"
  /\ Has(node, "minLength") /\ v.type = "string" => Len(v.value) >= node.minLength
  /\ Has(node, "maxLength") /\ v.type = "string" => Len(v.value) <= node.maxLength
  /\ Has(node, "minimum") /\ v.type = "float64" => v.value >= node.minimum
  /\ Has(node, "maximum") /\ v.type = "float64" => v.value <= node.maximum
  /\ Has(node, "enum") /\ node.enum # {} /\ v.type = "string" => v \in node.enum

=============================================================================
